------------------------------- MODULE Explorer --------------------------------
(* The graph explorer (graphexplorer-frontend/src/App.jsx): the map of nodes and *)
(* edges, the cache of answers and the requests in flight, which a prefetch, an  *)
(* expand and the late answers of a hidden node all share.                       *)
EXTENDS GraphNode, Integers

CONSTANTS MaxStrays,  \* bound: requests in flight that their node's entry left
          Absent,     \* in place of a node model: not on the map
          None        \* in place of an answer or a request: there is none

ASSUME NoneAssumption == Absent \notin [expanded : BOOLEAN, loading : BOOLEAN,
                                        count : Int, truncated : BOOLEAN]
                         /\ None \notin Data \union Requests
                         /\ MaxStrays \in Nat

VARIABLES page,     \* "starting", "ready" or "failed"
          nodes,    \* nodesMap: what the map knows of each node on it
          edges,    \* edgesMap: the edges drawn
          cache,    \* the answers kept, by node
          inflight, \* the request the inflight map holds for each node
          strays    \* a request sent before its node was hidden or the map cleared

app == <<page, nodes, edges, cache, inflight, strays>>
vars == <<graph, app>>

Unknown == -1          \* edgeCount null: the links were not counted yet

NodeModel == [expanded : BOOLEAN, loading : BOOLEAN, count : Nat \union {Unknown},
              truncated : BOOLEAN]
Stub == [expanded |-> FALSE, loading |-> FALSE, count |-> Unknown, truncated |-> FALSE]
OnMap == {n \in Nodes : nodes[n] # Absent}

TypeOK == /\ GraphTypeOK
          /\ page \in {"starting", "ready", "failed"}
          /\ nodes \in [Nodes -> NodeModel \union {Absent}]
          /\ edges \subseteq Links
          /\ cache \in [Nodes -> Data \union {None}]
          /\ inflight \in [Nodes -> Requests \union {None}]
          /\ strays \in [Nodes -> Requests \union {None}]

Nothing(x) == [n \in Nodes |-> x]
Empty(m, e, c, i, s) == m = Nothing(Absent) /\ e = {} /\ c = Nothing(None)
                        /\ i = Nothing(None) /\ s = Nothing(None)
Init == /\ GraphInit
        /\ Empty(nodes, edges, cache, inflight, strays)
        /\ page = "starting"

(* applyNodeData: the node itself is hydrated and keeps its expansion; with     *)
(* "expand" its neighbours join the map and its edges are drawn.                *)
Neighbours(d) == {w[2] : w \in d.out \union d.in}
IsExpanded(m, n) == m[n] # Absent /\ m[n].expanded
HydratedAs(m, n, d, expand) ==      \* mutant
  [expanded |-> expand, loading |-> FALSE,
   count |-> Cardinality(d.out) + Cardinality(d.in), truncated |-> d.truncated]
HydratedLoading(m, n, d, expand) ==      \* mutant
  [expanded |-> expand \/ IsExpanded(m, n), loading |-> m[n] # Absent /\ m[n].loading,
   count |-> Cardinality(d.out) + Cardinality(d.in), truncated |-> d.truncated]
Hydrated(m, n, d, expand) ==
  [expanded |-> expand \/ IsExpanded(m, n), loading |-> FALSE,
   count |-> Cardinality(d.out) + Cardinality(d.in), truncated |-> d.truncated]
Ring(m, n, d, expand) ==
  [k \in Nodes |-> IF k = n THEN Hydrated(m, n, d, expand)
                   ELSE IF expand /\ k \in Neighbours(d) /\ m[k] = Absent THEN Stub ELSE m[k]]

(* The nodes of a set that prefetchNode still has to ask for, and those it      *)
(* hydrates at once from the answers kept.                                      *)
ToFetch(ns, c, i) == {n \in ns : c[n] = None /\ i[n] = None}
Prefetched(m, ns, c) ==
  [n \in Nodes |-> IF n \in ns /\ c[n] # None THEN Hydrated(m, n, c[n], FALSE) ELSE m[n]]
Sent(i, ns, expand) == [n \in Nodes |-> IF n \in ns THEN Request0(n, expand) ELSE i[n]]

(* An answer d for n reaches those who wait for it; c and i are the cache and   *)
(* the requests by then.  Expanding asks for every neighbour in turn.           *)
Deliver(n, d, expand, c, i) ==
  /\ cache' = c
  /\ IF expand
     THEN /\ nodes' = Prefetched(Ring(nodes, n, d, TRUE), Neighbours(d), c)
          /\ edges' = edges \union AnswerLinks(n, d)
          /\ inflight' = Sent(i, ToFetch(Neighbours(d), c, i), FALSE)
     ELSE /\ nodes' = Ring(nodes, n, d, FALSE)
          /\ edges' = edges
          /\ inflight' = i

(* fetchNodeData for expandNode: a kept answer, the request in flight, or a new *)
(* request; the node shows that it loads unless it is expanded already.         *)
ExpandNode(n) ==
  IF cache[n] # None THEN Deliver(n, cache[n], TRUE, cache, inflight)
  ELSE /\ nodes' = IF nodes[n] = Absent \/ IsExpanded(nodes, n) THEN nodes
                   ELSE [nodes EXCEPT ![n].loading = TRUE]
       /\ inflight' = IF inflight[n] # None THEN [inflight EXCEPT ![n].expand = TRUE]
                      ELSE [inflight EXCEPT ![n] = Request0(n, TRUE)]
       /\ UNCHANGED <<edges, cache>>

(* --- what the user does --- *)
(* Startup: prefixes and shapes are fetched once; a deep link expands a node    *)
(* that is not on the map yet.                                                  *)
Start == /\ page = "starting"
         /\ page' = "ready"
         /\ \/ UNCHANGED <<nodes, edges, cache, inflight>>
            \/ \E n \in Nodes : ExpandNode(n)
         /\ UNCHANGED <<graph, strays>>

StartFails == /\ page = "starting"
              /\ page' = "failed"
              /\ UNCHANGED <<graph, nodes, edges, cache, inflight, strays>>

(* A node picked in the search joins the map collapsed and is prefetched.       *)
SeedNode(n) ==
  /\ page = "ready"
  /\ LET seeded == IF nodes[n] = Absent THEN [nodes EXCEPT ![n] = Stub] ELSE nodes
     IN /\ nodes' = Prefetched(seeded, {n}, cache)
        /\ inflight' = Sent(inflight, ToFetch({n}, cache, inflight), FALSE)
  /\ UNCHANGED <<graph, page, edges, cache, strays>>

(* The node's own button, or a row of the inspector.                            *)
(* The button is offered on what the view drew last, so any node of the map may *)
(* be asked to expand.                                                          *)
Expand(n) == /\ nodes[n] # Absent
             /\ ExpandNode(n)
             /\ UNCHANGED <<graph, page, strays>>

(* hideNode: the node, its edges, its answer and its request are dropped; a     *)
(* request already sent is answered all the same.                               *)
CanStray(ns) ==   \* bound: one stray request a node, MaxStrays in all
  LET leaving == {n \in ns : inflight[n] # None}
      stray == {n \in Nodes : strays[n] # None}
  IN leaving \intersect stray = {} /\ Cardinality(leaving \union stray) <= MaxStrays
OutgoingOnly(n) == {l \in edges : n = l[1]}    \* mutant
Incident(n) == {l \in edges : n \in {l[1], l[3]}}
HideNode(n) ==
  /\ nodes[n] # Absent
  /\ CanStray({n})
  /\ nodes' = [nodes EXCEPT ![n] = Absent]
  /\ edges' = edges \ Incident(n)
  /\ cache' = [cache EXCEPT ![n] = None]
  /\ inflight' = [inflight EXCEPT ![n] = None]
  /\ strays' = IF inflight[n] = None THEN strays ELSE [strays EXCEPT ![n] = inflight[n]]
  /\ UNCHANGED <<graph, page>>

ClearGraph ==
  /\ OnMap # {}
  /\ CanStray(Nodes)
  /\ Empty(nodes', edges', cache', inflight', [n \in Nodes |-> None])
  /\ strays' = [n \in Nodes |-> IF inflight[n] = None THEN strays[n] ELSE inflight[n]]
  /\ UNCHANGED <<graph, page>>

(* --- the requests, whether the inflight map still holds them or not --- *)
Slots == {"inflight", "stray"}
Request(n, slot) == IF slot = "inflight" THEN inflight[n] ELSE strays[n]

Query(n, slot) ==
  LET r == Request(n, slot)
  IN /\ r # None /\ r.query = "out"
     /\ IF slot = "inflight"
        THEN inflight' = [inflight EXCEPT ![n] = ReadOut(n, r)] /\ UNCHANGED strays
        ELSE strays' = [strays EXCEPT ![n] = ReadOut(n, r)] /\ UNCHANGED inflight
     /\ UNCHANGED <<graph, page, nodes, edges, cache>>

(* Whatever request for n ends, its entry leaves the inflight map: a late one   *)
(* takes the entry of the request that was sent after it.                       *)
Ended(n, slot) == strays' = IF slot = "inflight" THEN strays ELSE [strays EXCEPT ![n] = inflight[n]]
Freed(n) == [inflight EXCEPT ![n] = None]

Succeed(n, slot) ==
  LET r == Request(n, slot)
      d == Answer(n, r)
  IN /\ r # None /\ r.query = "in"
     /\ Deliver(n, d, r.expand, [cache EXCEPT ![n] = d], Freed(n))
     /\ Ended(n, slot)
     /\ UNCHANGED <<graph, page>>

(* A 404, a query that failed (503) or a lost connection: a prefetch is silent. *)
Fail(n, slot) ==
  LET r == Request(n, slot)
  IN /\ r # None
     /\ IF r.expand
        THEN /\ nodes' = IF nodes[n] = Absent THEN nodes ELSE [nodes EXCEPT ![n].loading = FALSE]
             /\ cache' = [cache EXCEPT ![n] = None]
        ELSE UNCHANGED <<nodes, cache>>
     /\ inflight' = Freed(n)
     /\ Ended(n, slot)
     /\ UNCHANGED <<graph, page, edges>>

(* A link saved or deleted meanwhile is not an edge of the requests in flight    *)
(* that was there throughout.                                                   *)
Still(r, ls) == IF r = None THEN None ELSE [r EXCEPT !.stable = @ \intersect ls]
CuratorEdits ==
  /\ Edit
  /\ inflight' = [n \in Nodes |-> Still(inflight[n], links')]
  /\ strays' = [n \in Nodes |-> Still(strays[n], links')]
  /\ UNCHANGED <<page, nodes, edges, cache>>

ShapesParsed == Parse /\ UNCHANGED app

UserStep == \/ Start \/ StartFails \/ ClearGraph
            \/ \E n \in Nodes : SeedNode(n) \/ Expand(n) \/ HideNode(n)
ServerStep(n, slot) == Query(n, slot) \/ Succeed(n, slot) \/ Fail(n, slot)

Next == UserStep \/ CuratorEdits \/ ShapesParsed
        \/ \E n \in Nodes, slot \in Slots : ServerStep(n, slot)

Spec == Init /\ [][Next]_vars
(* Only the answers are fair: what the user and the curators do is up to them.  *)
FairSpec == Spec /\ \A n \in Nodes, slot \in Slots : WF_vars(ServerStep(n, slot))

(* --- properties --- *)
(* Every edge drawn has both its ends on the map, whatever is hidden, cleared   *)
(* or answered late (App.jsx:82-135, 225-242).                                  *)
EdgesHaveEnds == \A l \in edges : {l[1], l[3]} \subseteq OnMap

(* A node that shows it is loading waits for a request that will expand it.     *)
LoadingIsFetched == \A n \in OnMap : nodes[n].loading =>
  \E slot \in Slots : Request(n, slot) # None /\ Request(n, slot).expand

(* "Never downgrades an already-expanded node, so a late prefetch can't collapse *)
(* it" (App.jsx:81): an expanded node stays so until it leaves the map.         *)
NeverCollapsed == [][\A n \in Nodes : IsExpanded(nodes, n) /\ nodes'[n] # Absent
                                       => IsExpanded(nodes', n)]_vars

(* An answer that is not marked truncated holds every edge of its node that was  *)
(* in the store from before its first query to its last, of every predicate that *)
(* the catalogue had: all of them once the shapes are parsed, but in the window  *)
(* of a cold start links may be left out and nothing marks the answer.           *)
Lasting(r) == {l \in r.stable : l[2] \in r.preds}
UntruncatedIsComplete ==
  [][\A n \in Nodes : cache'[n] \notin {cache[n], None} /\ ~cache'[n].truncated =>
       \E slot \in Slots : /\ Request(n, slot) # None
                           /\ Lasting(Request(n, slot)) \subseteq AnswerLinks(n, cache'[n])]_vars

(* A node stops loading: its links are drawn, or the banner says why not.       *)
LoadingEnds == \A n \in Nodes : (IF nodes[n] = Absent THEN FALSE ELSE nodes[n].loading)
                                 ~> (nodes[n] = Absent \/ ~nodes[n].loading)
================================================================================
