------------------------------- MODULE GraphNode -------------------------------
(* GET /graph/node of the read service (dataexplorer-backend/api/graph.py): the  *)
(* relation edges of one entity, outgoing and incoming, each read by a query of  *)
(* its own and capped at Limit neighbours, while curators edit the same graph.   *)
(* The predicates it asks for are those of the shapes that are parsed: while the *)
(* catalogue of a process just started is filled (ReaderRoutes), that is any of   *)
(* them or none.                                                                 *)
(* IRIs are numbers, in the order in which ORDER BY sorts them.  The entity's    *)
(* own triples (label, types, literals) are left out with the query that reads   *)
(* them; the 404 of an entity that has neither triples nor edges is one of the   *)
(* failures a request may meet.                                                  *)
EXTENDS Naturals, FiniteSets

CONSTANTS Nodes,      \* the entities of the graph
          Predicates, \* the relation predicates of the schema
          Links,      \* the relation edges that curators may save
          Limit,      \* the most neighbours an answer lists in one direction
          MaxEdits,   \* bound: edits of the graph by curators
          ColdStart   \* bound: the process may not have parsed the shapes yet

ASSUME GraphNodeAssumption == /\ Nodes \subseteq Nat /\ IsFiniteSet(Nodes)
                              /\ Predicates \subseteq Nat /\ IsFiniteSet(Predicates)
                              /\ Links \subseteq {l \in Nodes \X Predicates \X Nodes : l[1] # l[3]}
                              /\ Limit \in Nat \ {0}
                              /\ MaxEdits \in Nat /\ ColdStart \in BOOLEAN

VARIABLES links,  \* the relation edges of the store
          edits,  \* how many edits were made
          parsed  \* the relation predicates of the shapes parsed so far

graph == <<links, edits, parsed>>

GraphTypeOK == /\ links \subseteq Links
               /\ edits \in 0..MaxEdits
               /\ parsed \subseteq Predicates

GraphInit == /\ links \in SUBSET Links
             /\ edits = 0
             /\ parsed = IF ColdStart THEN {} ELSE Predicates

(* relation_predicates reads the cache of shapes, which threads fill shape by    *)
(* shape, in one order, and may start over until it is whole (bound: a shape     *)
(* brings one predicate, and a whole cache is not started over; ReaderRoutes     *)
(* has the threads).                                                             *)
NextPredicate(left) == CHOOSE p \in left : TRUE
Parse == /\ parsed # Predicates
         /\ parsed' \in {{}, parsed \union {NextPredicate(Predicates \ parsed)}}
         /\ UNCHANGED <<links, edits>>

(* The edges of n by some predicates as rows (predicate, neighbour), the        *)
(* rows a query fetches of them (one more than are returned) and those returned. *)
Row == Predicates \X Nodes
Out(n, preds) == {w \in Row : w[1] \in preds /\ <<n, w[1], w[2]>> \in links}
In(n, preds) == {w \in Row : w[1] \in preds /\ <<w[2], w[1], n>> \in links}
Before(v, w) == v[1] < w[1] \/ (v[1] = w[1] /\ v[2] < w[2])
First(k, ws) == {w \in ws : Cardinality({v \in ws : Before(v, w)}) < k}
ExactRows(ws) == First(Limit, ws)   \* mutant
Rows(ws) == First(Limit + 1, ws)
Capped(ws) == First(Limit, Rows(ws))
Truncated(ws) == Cardinality(Rows(ws)) > Limit

(* A request on its way through get_node: the query it makes next and what it   *)
(* has read.  "preds": the predicates it asks for, read before its first query; *)
(* without any it makes no query.  "expand": somebody waits for it to draw the  *)
(* node's links.                                                                *)
(* "stable": the node's edges that were in the store ever since it was sent.    *)
Request0(n, expand) == [query |-> "out", expand |-> expand, out |-> {}, more |-> FALSE,
                        preds |-> {}, stable |-> {l \in links : n \in {l[1], l[3]}}]
Requests == [query : {"out", "in"}, expand : BOOLEAN, out : SUBSET Row,
             more : BOOLEAN, preds : SUBSET Predicates, stable : SUBSET Links]
ReadOut(n, r) == [r EXCEPT !.query = "in", !.preds = parsed, !.out = Capped(Out(n, parsed)),
                           !.more = Truncated(Out(n, parsed))]

(* The answer of a request whose last query is made now.                        *)
Data == [out : SUBSET Row, in : SUBSET Row, truncated : BOOLEAN]
Answer(n, r) == [out |-> r.out, in |-> Capped(In(n, r.preds)),
                 truncated |-> r.more \/ Truncated(In(n, r.preds))]
AnswerLinks(n, d) == {<<n, w[1], w[2]>> : w \in d.out}
                     \union {<<w[2], w[1], n>> : w \in d.in}

(* A curator saves a link, deletes one, or deletes an entity with the links it  *)
(* makes; the links to it stay.                                                 *)
Edit == /\ edits < MaxEdits
        /\ edits' = edits + 1
        /\ UNCHANGED parsed
        /\ \/ \E l \in Links \ links : links' = links \union {l}
           \/ \E l \in links : links' = links \ {l}
           \/ \E n \in Nodes : links' = {l \in links : l[1] # n}
================================================================================
