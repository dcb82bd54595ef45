----------------------------- MODULE EntityStore -----------------------------
(***************************************************************************)
(* What the write path promises a single curator: entities are saved and   *)
(* deleted in one piece.  A save replaces the predicates that were edited  *)
(* and the bridges nobody else links to.  A save that fails is as if it    *)
(* had never been asked for, or it is torn: part of what it replaces is    *)
(* gone and its payload may be there, and this is so until the same        *)
(* predicates are saved again or the entity is deleted.                    *)
(***************************************************************************)
EXTENDS EntityGraph

VARIABLES
    graph,       \* the triples
    torn         \* <<e, p>>: what a torn save has left of p of e is not known

vars == <<graph, torn>>

Init == graph \in SUBSET Triples /\ torn = {}

\* A create or an edit; predicates are those of originalTriples.
Save(e, predicates) ==
    /\ torn' = torn \ ({e} \X predicates)
    /\ \E payload \in Payloads(e) :
          graph' = (graph \ Replaced(e, predicates, graph)) \union payload

\* An edit that breaks off.
Tear(e, predicates) ==
    /\ torn' = torn \union ({e} \X predicates)
    /\ graph \ Replaced(e, predicates, graph) \subseteq graph'
    /\ \E payload \in Payloads(e) : \E added \in {{}, payload} :
          added \subseteq graph' /\ graph' \subseteq graph \union added

\* DELETE /entities: the entity's triples, and not those of its bridges.
Delete(e) ==
    /\ graph' = graph \ About(e, graph)
    /\ torn' = torn \ ({e} \X Predicates)

Next ==
    \E e \in Entities :
        Delete(e) \/ \E predicates \in SUBSET Predicates : Save(e, predicates) \/ Tear(e, predicates)

Spec == Init /\ [][Next]_vars
==============================================================================
