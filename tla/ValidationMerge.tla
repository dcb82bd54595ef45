---------------------------- MODULE ValidationMerge ----------------------------
(* What a submitted entity is validated together with                             *)
(* (curator-backend/core/validation_merge.py and the seeds of api/data.py): the   *)
(* plan walks the graph of shapes, which may have cycles, and the query follows   *)
(* every tail of every walk through the stored triples, from the payload's IRIs.  *)
EXTENDS Integers, Sequences, FiniteSets, SequencesExt

CONSTANTS Shapes,           \* the shapes of the catalogue
          Catalogues,       \* the sets of edges the catalogue may have between them
          Roots,            \* the entity submitted under each shape that is tried
          StoreCandidates,  \* bound: the triples that may be stored
          PayloadCandidates,\* bound: the triples that may be sent about an entity
          MaxLinks,         \* bound: the links from the entity that validation follows
          None              \* no request yet

Triple(t) == DOMAIN t = 1..3
ASSUME MergeAssumption ==
  /\ IsFiniteSet(Shapes) /\ \A c \in Catalogues : IsFiniteSet(c)
  /\ \A c \in Catalogues : \A e \in c : e.from \in Shapes /\ e.inline \in BOOLEAN
  /\ DOMAIN Roots \subseteq Shapes /\ MaxLinks \in Nat
  /\ \A s \in DOMAIN Roots :
       \A t \in StoreCandidates \union PayloadCandidates[Roots[s]] : Triple(t)

VARIABLES edges,   \* the dependency graph: [from, pred, to, inline]
          root,    \* the shape of the entity
          queue,   \* walks from the root still to be extended
          results, \* walks found: one for every nested node the query asks for
          request  \* the entity validated with them: what is stored, sent, fetched
vars == <<edges, root, queue, results, request>>

Init == /\ edges \in Catalogues /\ root \in DOMAIN Roots
        /\ queue = << <<>> >> /\ results = {} /\ request = None

(* _bfs_shape_edges: the first walk is extended by every edge of its last shape   *)
(* whose target exists; a walk that comes back to a shape is recorded only.       *)
End(w) == IF w = <<>> THEN root ELSE Last(w).to
Visited(w) == {root} \union {w[i].to : i \in DOMAIN w}
Onward(w) == {e \in edges : e.from = End(w) /\ e.to \in Shapes}
Unvisited(w) == {Append(w, e) : e \in {x \in Onward(w) : x.to \notin Visited(w)}}
Requeued(w) ==      \* mutant
  Unvisited(w) \union {x \in {w} : \E e \in Onward(w) : e.to \in Visited(w)}
Enqueued(w) == Unvisited(w)
UnvisitedOnly(w) == Unvisited(w)      \* mutant
Results(w) == {Append(w, e) : e \in Onward(w)}
Walk ==
  /\ queue # <<>>
  /\ LET w == Head(queue) IN
       /\ results' = results \union Results(w)
       /\ queue' = Tail(queue) \o SetToSeq(Enqueued(w))
  /\ UNCHANGED <<edges, root, request>>

(* The seeds: on a create the entity, and always the IRIs the payload refers to,  *)
(* without the inline bridges it describes itself (bridge_link_predicates).       *)
Entity == Roots[root]
Subjects(payload) == {t[1] : t \in payload}
Objects(payload) == {t[3] : t \in payload}
BridgeLinkPredicates == {e.pred : e \in {x \in edges : x.from = root /\ x.inline}}
Described(payload) ==
  {t[3] : t \in {x \in payload : x[2] \in BridgeLinkPredicates /\ x[3] \in Subjects(payload)}}
SeedsOfAll(payload, create) ==      \* mutant
  (IF create THEN {Entity} ELSE {}) \union Objects(payload)
Seeds(payload, create) ==
  (IF create THEN {Entity} ELSE {}) \union (Objects(payload) \ Described(payload))

(* _build_validation_construct: the seeds' triples, and those of the nodes that   *)
(* any tail of a walk reaches from a seed in the store.                           *)
Predicates(w) == [i \in DOMAIN w |-> w[i].pred]
WholeWalks == {Predicates(w) : w \in results}      \* mutant
Tails == UNION {Suffixes(Predicates(w)) : w \in results}
Hop(ts, ns, p) == {t[3] : t \in {x \in ts : x[1] \in ns /\ x[2] = p}}
Follow(ts, ns, preds) ==
  LET reached[i \in 0..Len(preds)] ==
        IF i = 0 THEN ns ELSE Hop(ts, reached[i - 1], preds[i])
  IN  reached[Len(preds)]
Terminals(store, seeds) == UNION {Follow(store, seeds, s) : s \in Tails}
Fetched(store, seeds) == {t \in store : t[1] \in seeds \union Terminals(store, seeds)}

IsNested(payload) == \A t \in payload : t[1] \in {Entity} \union Objects(payload)
Validate(store, payload, create) ==
  /\ queue = <<>> /\ request = None /\ IsNested(payload)
  /\ LET seeds == Seeds(payload, create) IN
       request' = [store |-> store, payload |-> payload, create |-> create,
                   fetched |-> IF seeds = {} THEN {} ELSE Fetched(store, seeds)]
  /\ UNCHANGED <<edges, root, queue, results>>

Next == \/ Walk
        \/ \E store \in SUBSET StoreCandidates, create \in BOOLEAN,
              payload \in SUBSET PayloadCandidates[Entity] : Validate(store, payload, create)
Spec == Init /\ [][Next]_vars
FairSpec == Spec /\ WF_vars(Walk)

(* The walks the plan stands for, said without a queue: they follow edges from the *)
(* root, and visit no shape twice except perhaps with their last step.             *)
IsWalk(w) ==
  /\ w[1].from = root
  /\ \A i \in 2..Len(w) : w[i].from = w[i - 1].to
  /\ \A i \in DOMAIN w : w[i].to \in Shapes
  /\ \A i, j \in 1..Len(w) - 1 : w[i].to # root /\ (i # j => w[i].to # w[j].to)
AllWalks == {w \in UNION {[1..n -> edges] : n \in 1..Cardinality(Shapes)} : IsWalk(w)}

TypeOK == /\ edges \in Catalogues /\ root \in DOMAIN Roots
          /\ \A w \in results : w # <<>> /\ IsWalk(w)
          /\ \A i \in DOMAIN queue : queue[i] = <<>> \/ queue[i] \in results

(* The plan ends on every catalogue, and then holds every walk exactly: no nested  *)
(* shape is forgotten because another walk met it first (_bfs_shape_edges).        *)
PlanIsComplete == queue = <<>> /\ request = None => results = AllWalks
PlanEnds == <>(queue = <<>>)

(* What the payload settles by itself: the bridges it describes and, on an update, *)
(* the entity.                                                                     *)
Settled(r) == Described(r.payload) \union (IF r.create THEN {} ELSE {Entity})

(* The nodes a number of links away from a set of nodes.                           *)
Across(links, nodes) == {l[2] : l \in {x \in links : x[1] \in nodes}}
Away(links, nodes, number) ==
  LET at[i \in 0..number] == IF i = 0 THEN nodes ELSE Across(links, at[i - 1])
  IN  at[number]

(* The nodes that validation meets, each with the shape it is judged by: it goes   *)
(* from the entity along the links of every shape (sh:class, sh:node), through the *)
(* payload and the store alike, and through shapes it has been at as through any.  *)
Kept(r) == {t \in r.store : t[1] \notin Settled(r)}
Judged(r) == {<<<<l[1].from, l[2][1]>>, <<l[1].to, l[2][3]>>>> :
                l \in {x \in edges \X (r.payload \union Kept(r)) :
                         x[1].to \in Shapes /\ x[2][2] = x[1].pred}}
Met(r, n) == Away(Judged(r), {<<root, Entity>>}, n)

(* The plan goes on from no shape that it comes back to, so it is enough where the *)
(* stored data do not either: of the walks to the shape of a node that the payload *)
(* names, one has no continuation that stored triples follow from that node back   *)
(* to a shape it visited, and then further.                                        *)
ComesBack(w) == \E i, j \in 1..Len(w) : w[i].to = root \/ (i # j /\ w[i].to = w[j].to)
Along(r, node, v, w) == Follow(Kept(r), {node}, SubSeq(Predicates(w), Len(v) + 1, Len(w)))
StaysNear(r, node, v) ==
  \A w \in results \union {<<>>} : IsPrefix(v, w) /\ ComesBack(w) =>
    \A e \in Onward(w), t \in Kept(r) : t[2] = e.pred => t[1] \notin Along(r, node, v, w)
NoneComesBack(r) ==
  \A n \in 0..MaxLinks : \A x \in Met(r, n) :
    x[2] \in {Entity} \union Objects(r.payload) =>
      \E v \in results \union {<<>>} : End(v) = x[1] /\ StaysNear(r, x[2], v)

(* Every stored node that validation meets is in the merge with all its triples,   *)
(* so that nothing referenced is judged incomplete: validation_merge.py promises   *)
(* "the triples needed for validation". For data that come back to no shape and go *)
(* on from it (_build_validation_construct, one block per path suffix).            *)
NeededIsFetched ==
  \A n \in 0..MaxLinks : \A x \in Met(request, n), t \in request.store :
    t[1] = x[2] /\ t[1] \notin Settled(request) => t \in request.fetched
MergeIsComplete == request # None /\ NoneComesBack(request) => NeededIsFetched


(* What is stored of the entity, and of the bridges it describes, does not mask an *)
(* update, as long as no chain of stored links that shapes follow, as long as the  *)
(* plan may ask for, leads from the seeds to the entity, and the entity alone      *)
(* links to its bridges (data.py, include_root_entity and bridge_predicates).      *)
StoredLinks(r) == {<<t[1], t[3]>> : t \in {x \in r.store : \E e \in edges : x[2] = e.pred}}
NoWayBack(r) == \A n \in 0..Cardinality(Shapes) :
                  Entity \notin Away(StoredLinks(r), Seeds(r.payload, r.create), n)
Unshared(r) == \A t \in r.store : t[3] \in Described(r.payload) => t[1] = Entity
IntentKept ==
  request # None /\ ~request.create /\ NoWayBack(request) /\ Unshared(request)
    => \A t \in request.fetched : t[1] \notin Settled(request)
================================================================================
