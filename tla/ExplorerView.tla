----------------------------- MODULE ExplorerView ------------------------------
(* The explorer with the canvas that draws its map: GraphView.jsx and            *)
(* utils/layout.js.  Every change of the map renders the view, which keeps the   *)
(* positions of the nodes it placed, lays the whole graph out in the background  *)
(* when none is placed, and otherwise rings the new nodes around placed ones.    *)
EXTENDS Explorer

VARIABLES placed,     \* the nodes that have a remembered position
          drawn,      \* the nodes with a card on the canvas (rfNodes)
          drawnEdges, \* rfEdges
          layout      \* the elk layout that runs: the nodes and edges it was given

ASSUME LayoutAssumption == None \notin [nodes : SUBSET Nodes, edges : SUBSET Links]

view == <<placed, drawn, drawnEdges, layout>>
viewVars == <<vars, view>>

ViewInit == Init /\ placed = {} /\ drawn = {} /\ drawnEdges = {} /\ layout = None

(* buildBase draws every node of the map; the patch effect changes the data of  *)
(* the cards drawn, which is not modelled, and neither adds nor removes one.    *)
Draw(on, e) == drawn' = on /\ drawnEdges' = e
Patch == UNCHANGED <<drawn, drawnEdges>>

(* The layout effect for the nodes "on" of the map with edges e, given the      *)
(* positions p: a layout that still runs is cancelled.                          *)
LayOutOver(on, p, e) ==   \* mutant
  \/ /\ on \subseteq p
     /\ placed' = p
     /\ Draw(on, e) /\ UNCHANGED layout
  \/ /\ on # {} /\ on \intersect p = {}
     /\ placed' = p
     /\ layout' = [nodes |-> on, edges |-> e]
     /\ Patch
  \/ /\ on \ p # {} /\ on \intersect p # {}
     /\ placed' = p \union on
     /\ Draw(on, e) /\ UNCHANGED layout
LayOut(on, p, e) ==
  \/ /\ on \subseteq p
     /\ placed' = p
     /\ Draw(on, e) /\ layout' = None
  \/ /\ on # {} /\ on \intersect p = {}
     /\ placed' = p
     /\ layout' = [nodes |-> on, edges |-> e]
     /\ Patch
  \/ /\ on \ p # {} /\ on \intersect p # {}
     /\ placed' = p \union on
     /\ Draw(on, e) /\ layout' = None

(* The canvas is there only while the map has nodes.  It lays out again when    *)
(* the counts of nodes and edges change and only patches its cards otherwise.   *)
StructureKey(m, e) == <<Cardinality({n \in Nodes : m[n] # Absent}), Cardinality(e)>>
Render ==
  LET on == {n \in Nodes : nodes'[n] # Absent}
      same == StructureKey(nodes', edges') = StructureKey(nodes, edges)
  IN \/ /\ on = {}
        /\ Draw({}, {}) /\ placed' = {} /\ layout' = None
     \/ /\ on # {} /\ ~same
        /\ LayOut(on, placed, edges')
     \/ /\ on # {} /\ same
        /\ Patch
        /\ UNCHANGED <<placed, layout>>

(* The re-layout button forgets every position.                                 *)
Relayout == /\ OnMap # {}
            /\ LayOut(OnMap, {}, edges)
            /\ UNCHANGED vars

DragNode(n) == /\ n \in drawn
               /\ placed' = placed \union {n}
               /\ UNCHANGED <<vars, drawn, drawnEdges, layout>>

(* elk answers, or throws and leaves a grid: either way every node it was given *)
(* has a position, and its cards replace those on the canvas.                   *)
LayoutDone == /\ layout # None
              /\ placed' = placed \union layout.nodes
              /\ drawn' = layout.nodes
              /\ drawnEdges' = layout.edges
              /\ layout' = None
              /\ UNCHANGED vars

ViewNext == \/ Next /\ Render
            \/ Relayout \/ LayoutDone
            \/ \E n \in Nodes : DragNode(n)

ViewSpec == ViewInit /\ [][ViewNext]_viewVars
ViewFairSpec == ViewSpec /\ WF_viewVars(LayoutDone)
                /\ \A n \in Nodes, slot \in Slots : WF_viewVars(ServerStep(n, slot) /\ Render)

(* --- properties --- *)
(* When no layout runs, the canvas shows the nodes and the edges of the map, no *)
(* more and no fewer, whatever was added, hidden or cleared while elk was at     *)
(* work (GraphView.jsx:111-158).                                                *)
CanvasShowsMap == layout = None => drawn = OnMap /\ drawnEdges = edges
================================================================================
