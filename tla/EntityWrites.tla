----------------------------- MODULE EntityWrites -----------------------------
(***************************************************************************)
(* POST /entities and DELETE /entities over the triplestore, behind the    *)
(* form that fills them in: the rollback snapshot, the validation merge,   *)
(* the delete-then-insert update with its helper bridges, and the rollback *)
(* of a failed load.  Every store call is one HTTP request, so it is one   *)
(* step and anything may happen between two of them.  What the same        *)
(* handlers do to files is in CuratorWrites.                               *)
(***************************************************************************)
EXTENDS EntityGraph

CONSTANTS
    Writers,     \* the forms that are open, each with its request
    Failures,    \* the kinds of failure a behaviour may contain
    MaxFaults    \* bound of the model: how many it contains, rollbacks aside

FailureKinds == {"load lost", "load applied", "delete", "rollback", "crash"}

ASSUME WriteAssumptions ==
    Failures \subseteq FailureKinds /\ MaxFaults \in Nat

VARIABLES
    store,       \* the triples of the named graph
    req,         \* req[w]: the form w and the request it sent
    faults,      \* failures so far
    torn         \* history: what a failed write of an entity left changed in part

vars == <<store, req, faults, torn>>

Phases == {"idle", "form", "validate", "snapshot", "delete", "unlink", "load", "rollback"}
Writing == {"delete", "unlink", "load", "rollback"}

Idle == [pc |-> "idle", entity |-> CHOOSE e \in Entities : TRUE,
         loaded |-> {},       \* the record the form was opened on; none to create
         payload |-> {},      \* data_graph
         rewritten |-> {},    \* predicates_to_delete
         left |-> {},         \* those the delete loop has not come to
         existing |-> {},     \* existing_entity_graph
         before |-> {},       \* history: the store when the write began
         applied |-> {}]      \* history: what a load that raised had put there

Requests == [pc : Phases, entity : Entities, loaded : SUBSET Triples,
             payload : SUBSET Triples, rewritten : SUBSET Predicates,
             left : SUBSET Predicates, existing : SUBSET Triples, before : SUBSET Triples,
             applied : SUBSET Triples]

TypeOK ==
    /\ store \in SUBSET Triples
    /\ req \in [Writers -> Requests]
    /\ faults \in 0..MaxFaults
    /\ torn \in SUBSET (Entities \X Predicates)

\* Data comes in by import (core/seeder.py) before the first request: whole
\* entities, which may or may not share bridges.
Imported ==
    {graph \in SUBSET Triples :
        /\ \A e \in Entities : Cardinality(With(e, "label", graph)) = IF About(e, graph) = {} THEN 0 ELSE 1
        /\ \A b \in Bridges : Cardinality(About(b, graph)) =
                                  IF \E e \in Entities : b \in Roles(e, graph) THEN 1 ELSE 0}

Init ==
    /\ store \in Imported
    /\ req = [w \in Writers |-> Idle]
    /\ faults = 0
    /\ torn = {}

------------------------------------------------------------------------------
(* The form                                                                *)

\* IRIs of new entities and bridges are minted, so nothing knows them yet.
Fresh(x) ==
    /\ \A t \in store : x \notin {t[1], t[3]}
    /\ \A w \in Writers : req[w].pc # "idle" =>
          x # req[w].entity /\ (\A t \in req[w].payload \union req[w].existing : x \notin {t[1], t[3]})

\* What the form shows of e: one value in a single-valued field, and every
\* connection.  A bridge that cannot be loaded blocks the form (editBlocked).
Loadable(e) == {t \in store : t[1] \in {e} \union Roles(e, store)}

Shown(e) ==
    {shown \in SUBSET Loadable(e) :
        /\ Cardinality(With(e, "label", shown)) = IF With(e, "label", store) = {} THEN 0 ELSE 1
        /\ Roles(e, shown) = Roles(e, store)
        /\ \A b \in Roles(e, store) : Cardinality(About(b, shown)) = 1}

\* isFieldDirty of the fields the record has triples for: originalTriples.
Dirty(e, payload, shown) ==
    {p \in Predicates :
        /\ With(e, p, store) # {}
        /\ \/ With(e, p, payload) # With(e, p, shown)
           \/ p = "role" /\ \E b \in Described(payload) : About(b, payload) # About(b, shown)}

\* A form is opened and filled in, for a new entity or an existing one.
OpenForm(w) ==
    /\ req[w].pc = "idle"
    /\ \E e \in Entities : \E shown \in Shown(e) : \E payload \in Payloads(e) :
          /\ About(e, store) = {} => Fresh(e)
          /\ \A b \in Roles(e, payload) : b \in Roles(e, store) \/ Fresh(b)
          /\ req' = [req EXCEPT ![w] =
                       [Idle EXCEPT !.pc = "form", !.entity = e, !.loaded = About(e, store),
                                    !.payload = payload, !.rewritten = Dirty(e, payload, shown)]]
    /\ UNCHANGED <<store, faults, torn>>

CloseForm(w) ==
    /\ req[w].pc = "form"
    /\ req' = [req EXCEPT ![w] = Idle]
    /\ UNCHANGED <<store, faults, torn>>

\* A request that did not succeed leaves the form as it was, to be sent
\* again; sent again, a create is given another IRI, so it is another form.
BackToForm(r) ==
    IF r.loaded = {} THEN Idle
    ELSE [r EXCEPT !.pc = "form", !.left = {}, !.existing = {}, !.before = {},
                     !.applied = {}]

------------------------------------------------------------------------------
(* create_or_update_entity, up to its first write                          *)

\* The request arrives.  With originalTriples, the entity's own triples are
\* read first, as a rollback snapshot.
Arrive(w) ==
    /\ req[w].pc = "form"
    /\ req' = [req EXCEPT ![w].pc = "validate",
                          ![w].existing = IF req[w].rewritten = {} THEN {}
                                          ELSE About(req[w].entity, store)]
    /\ UNCHANGED <<store, faults, torn>>

\* The merge adds what the store has of the seeds and of what they link to.
\* The payload's bridges are no seeds, and the entity is one only without
\* originalTriples.
Merged(r) ==
    r.payload \union
    {t \in store : r.rewritten = {} /\ t[1] \in {r.entity} \union Roles(r.entity, store)}

\* The SHACL report on the merged graph.
Conforms(r) ==
    /\ Cardinality(With(r.entity, "label", Merged(r))) = 1
    /\ \A b \in Roles(r.entity, Merged(r)) : Cardinality(About(b, Merged(r))) = 1

Validate(w) ==
    /\ req[w].pc = "validate"
    /\ Conforms(req[w])
    /\ \/ /\ req[w].rewritten = {}
          /\ req' = [req EXCEPT ![w].pc = "load", ![w].before = store]
       \/ /\ req[w].rewritten # {}
          /\ req' = [req EXCEPT ![w].pc = "snapshot"]
    /\ UNCHANGED <<store, faults, torn>>

\* The request ends before it wrote anything: with the SHACL report, or with
\* a 503 because one of the reads failed.
Reject(w) ==
    /\ req[w].pc \in {"validate", "snapshot"}
    /\ req' = [req EXCEPT ![w] = BackToForm(req[w])]
    /\ UNCHANGED <<store, faults, torn>>

\* The bridges that the deletes will remove join the rollback snapshot.
NoBridges(r) == {}                                                     \* mutant
ToRestore(r) == IF "role" \in r.rewritten THEN BridgeTriples(r.entity, store) ELSE {}

SnapshotBridges(w) ==
    /\ req[w].pc = "snapshot"
    /\ req' = [req EXCEPT ![w].pc = "delete", ![w].left = req[w].rewritten, ![w].before = store,
                          ![w].existing = req[w].existing \union ToRestore(req[w])]
    /\ UNCHANGED <<store, faults, torn>>
------------------------------------------------------------------------------
(* Its writes: for each rewritten predicate, in any order, the bridges it  *)
(* leads to and then the links; then the payload.                          *)

\* The updates a request may send next, as the triples each deletes.
LeavesBridges(r) == {}                                                 \* mutant
LeavesSent(r) ==                                                       \* mutant
    {t \in BridgeTriples(r.entity, store) : t[1] \notin Described(r.payload)}
UpdateBridges(r) == BridgeTriples(r.entity, store)
UpdateLinks(r) == With(r.entity, "role", store)
UpdateLabels(r) == With(r.entity, "label", store)

DeleteBridges(w) ==
    /\ req[w].pc = "delete" /\ "role" \in req[w].left
    /\ store' = store \ UpdateBridges(req[w])
    /\ req' = [req EXCEPT ![w].pc = "unlink"]
    /\ UNCHANGED <<faults, torn>>

DeleteLinks(w) ==
    /\ req[w].pc = "unlink"
    /\ store' = store \ UpdateLinks(req[w])
    /\ req' = [req EXCEPT ![w].pc = "delete", ![w].left = req[w].left \ {"role"}]
    /\ UNCHANGED <<faults, torn>>

DeleteLabels(w) ==
    /\ req[w].pc = "delete" /\ "label" \in req[w].left
    /\ store' = store \ UpdateLabels(req[w])
    /\ req' = [req EXCEPT ![w].left = req[w].left \ {"label"}]
    /\ UNCHANGED <<faults, torn>>

\* What the request rewrites.
Edited(r) == {r.entity} \X r.rewritten

ReadyToLoad(r) == r.pc = "load" \/ (r.pc = "delete" /\ r.left = {})

Load(w) ==
    /\ ReadyToLoad(req[w])
    /\ store' = store \union req[w].payload
    /\ req' = [req EXCEPT ![w] = Idle]
    /\ torn' = torn \ Edited(req[w])
    /\ UNCHANGED faults

------------------------------------------------------------------------------
(* Failures                                                                *)

Fault(kind) == kind \in Failures /\ faults < MaxFaults /\ faults' = faults + 1

\* A write that ends here leaves the store as it began, or changed in part.
Damage(r) == IF store' = r.before THEN {} ELSE Edited(r)

\* An update raises, applied by the store or not, and the request ends.
Updates(r) ==
    CASE r.pc = "unlink" -> {UpdateLinks(r)}
      [] r.pc = "delete" -> (IF "role" \in r.left THEN {UpdateBridges(r)} ELSE {})
                            \union (IF "label" \in r.left THEN {UpdateLabels(r)} ELSE {})
      [] OTHER -> {}

DeleteFails(w) ==
    /\ Fault("delete")
    /\ Updates(req[w]) # {}
    /\ store' \in {store} \union {store \ gone : gone \in Updates(req[w])}
    /\ req' = [req EXCEPT ![w] = BackToForm(req[w])]
    /\ torn' = torn \union Damage(req[w])

\* The load raises: rejected, or applied by a store that answered too late.
\* A snapshot that is not empty is then loaded in its place; one that is empty
\* leaves the load to have taken place, or not.
LoadEnds(w, applied) ==
    \/ /\ req[w].existing # {}
       /\ req' = [req EXCEPT ![w].pc = "rollback", ![w].applied = applied]
       /\ UNCHANGED torn
    \/ /\ req[w].existing = {}
       /\ req' = [req EXCEPT ![w] = BackToForm(req[w])]
       /\ torn' = IF applied = {} THEN torn ELSE torn \ Edited(req[w])

LoadFails(w) ==
    /\ ReadyToLoad(req[w])
    /\ \/ Fault("load lost") /\ store' = store /\ LoadEnds(w, {})
       \/ /\ Fault("load applied")
          /\ store' = store \union req[w].payload
          /\ LoadEnds(w, req[w].payload)

\* The snapshot is loaded, and takes nothing out that the failed load put in.
Rollback(w) ==
    /\ req[w].pc = "rollback"
    /\ store' = store \union req[w].existing
    /\ req' = [req EXCEPT ![w] = BackToForm(req[w])]
    /\ torn' = IF req[w].applied = {} THEN torn ELSE torn \union Damage(req[w])
    /\ UNCHANGED faults

\* The rollback raises as well, applied or not; the load's failure is counted.
RollbackFails(w) ==
    /\ req[w].pc = "rollback"
    /\ "rollback" \in Failures
    /\ store' \in {store, store \union req[w].existing}
    /\ req' = [req EXCEPT ![w] = BackToForm(req[w])]
    /\ torn' = torn \union Damage(req[w])
    /\ UNCHANGED faults

\* The curator process stops and starts again: its requests are gone, the
\* forms in the browser are not.
Crash ==
    /\ Fault("crash")
    /\ \E w \in Writers : req[w].pc \notin {"idle", "form"}
    /\ req' = [w \in Writers |-> IF req[w].pc \in {"idle", "form"} THEN req[w]
                                 ELSE BackToForm(req[w])]
    /\ UNCHANGED store
    /\ torn' = torn \union UNION {Damage(req[w]) : w \in {v \in Writers : req[v].pc \in Writing}}

------------------------------------------------------------------------------
\* DELETE /entities.  The bridges of the entity stay.
DeleteEntity(w) ==
    /\ req[w].pc = "idle"
    /\ \E e \in Entities :
          /\ About(e, store) # {}
          /\ store' = store \ About(e, store)
          /\ torn' = torn \ ({e} \X Predicates)
    /\ UNCHANGED <<req, faults>>

Writer(w) ==
    \/ OpenForm(w) \/ CloseForm(w) \/ Arrive(w) \/ Validate(w) \/ Reject(w)
    \/ SnapshotBridges(w) \/ DeleteBridges(w) \/ DeleteLinks(w) \/ DeleteLabels(w) \/ Load(w)
    \/ DeleteFails(w) \/ LoadFails(w) \/ Rollback(w) \/ RollbackFails(w) \/ DeleteEntity(w)

Next == Crash \/ \E w \in Writers : Writer(w)

Spec == Init /\ [][Next]_vars

------------------------------------------------------------------------------
(* Properties                                                              *)

\* Seen as a store in which a save takes place at its load, and not at all if
\* the load fails, the handler implements EntityStore: no order of its deletes
\* and no load that is turned down leaves half of an edit behind, bridges
\* included; and where the handler does break off in the middle (a delete or a
\* rollback that fails, a load that was applied after all, a crash), only the
\* edited predicates of that one entity and its own bridges are left in part,
\* and the next save or deletion of them is in one piece again.
Committed ==
    IF \E w \in Writers : req[w].pc \in Writing
    THEN req[CHOOSE w \in Writers : req[w].pc \in Writing].before
    ELSE store

Abstract == INSTANCE EntityStore WITH graph <- Committed
AtomicWrites == Abstract!Spec

\* When no request is being served, every connection of an entity leads to a
\* bridge that the store describes, which the editor needs to open the entity:
\* unless a write of its connections broke off and none was made since.
LinkedDescribed ==
    (\A w \in Writers : req[w].pc \in {"idle", "form"}) =>
        \A e \in Entities : <<e, "role">> \notin torn => Roles(e, store) \subseteq Described(store)

\* A save that succeeds leaves of what was edited exactly what was sent, with
\* the connections that were removed gone together with their bridges, also
\* when earlier attempts from the same form failed at any point; only a bridge
\* that another entity links to keeps what the store had of it.
LinkedByOthers(e, graph) == {b \in Bridges : \E o \in Entities \ {e} : <<o, "role", b>> \in graph}

AsSent(r) ==
    /\ \A p \in r.rewritten : With(r.entity, p, store') = With(r.entity, p, r.payload)
    /\ "role" \in r.rewritten =>
          \A b \in (Described(r.payload) \union Roles(r.entity, r.loaded))
                      \ LinkedByOthers(r.entity, store) :
              About(b, store') = About(b, r.payload)

SavedAsSent == [][\A w \in Writers : Load(w) => AsSent(req[w])]_vars

\* A bridge that two entities link to loses nothing to an edit or a deletion
\* of either, whatever fails and whoever else is writing.
SharedBridgesSurvive ==
    [][\A b \in Bridges :
          Cardinality({e \in Entities : b \in Roles(e, store)}) > 1
              => About(b, store) \subseteq store']_vars
==============================================================================
