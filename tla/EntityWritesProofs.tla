------------------------- MODULE EntityWritesProofs -------------------------
(***************************************************************************)
(* Machine-checked proofs about EntityWrites, for every set of entities,   *)
(* bridges, values and forms and every number of failures.                 *)
(***************************************************************************)
EXTENDS EntityWrites, FiniteSetTheorems, TLAPS

\* No form, no request: the one use of Entities being non-empty.
LEMMA IdleType == Idle \in Requests
  BY GraphAssumptions DEF Idle, Requests, Phases

\* What a form sends is a set of triples.
LEMMA PayloadType ==
  ASSUME NEW e \in Entities, NEW payload \in Payloads(e) PROVE payload \in SUBSET Triples
<1>1. PICK roles \in SUBSET Bridges :
        payload \in {Payload(e, v, agents) : v \in Values, agents \in [roles -> Values]}
  BY DEF Payloads
<1>2. PICK v \in Values, agents \in [roles -> Values] : payload = Payload(e, v, agents)
  BY <1>1
<1>3. \A b \in roles : b \in Bridges /\ agents[b] \in Values
  OBVIOUS
<1>4. QED BY <1>2, <1>3 DEF Payload, Triples

\* Going back to the form, or closing it.
LEMMA BackType == ASSUME NEW r \in Requests PROVE BackToForm(r) \in Requests
  BY IdleType DEF BackToForm, Requests, Phases

\* A failure is counted within the bound.
LEMMA FaultType ==
  ASSUME faults \in 0..MaxFaults, NEW kind, Fault(kind) PROVE faults' \in 0..MaxFaults
  BY WriteAssumptions DEF Fault

\* What a request rewrites, and what a broken write leaves, is of an entity.
LEMMA DamageType ==
  ASSUME NEW r \in Requests
  PROVE  /\ Edited(r) \in SUBSET (Entities \X Predicates)
         /\ Damage(r) \in SUBSET (Entities \X Predicates)
BY DEF Edited, Damage, Requests

\* The initial state is well typed.
LEMMA InitType == Init => TypeOK
  BY IdleType, WriteAssumptions DEF Init, TypeOK, Imported

\* Every step of a form and its request keeps every variable within its type.
LEMMA WriterType == ASSUME TypeOK, NEW w \in Writers, Writer(w) PROVE TypeOK'
<1> USE DEF TypeOK
<1>0. req[w] \in Requests
  OBVIOUS
<1>1. CASE OpenForm(w)
  <2>0. PICK e \in Entities : \E shown \in Shown(e) : \E payload \in Payloads(e) :
          req' = [req EXCEPT ![w] =
                    [Idle EXCEPT !.pc = "form", !.entity = e, !.loaded = About(e, store),
                                 !.payload = payload, !.rewritten = Dirty(e, payload, shown)]]
    BY <1>1 DEF OpenForm
  <2>1. PICK shown \in Shown(e) : \E payload \in Payloads(e) :
          req' = [req EXCEPT ![w] =
                    [Idle EXCEPT !.pc = "form", !.entity = e, !.loaded = About(e, store),
                                 !.payload = payload, !.rewritten = Dirty(e, payload, shown)]]
    BY <2>0
  <2>1a. PICK payload \in Payloads(e) :
          req' = [req EXCEPT ![w] =
                    [Idle EXCEPT !.pc = "form", !.entity = e, !.loaded = About(e, store),
                                 !.payload = payload, !.rewritten = Dirty(e, payload, shown)]]
    BY <2>1
  <2>2. /\ About(e, store) \in SUBSET Triples
        /\ payload \in SUBSET Triples
        /\ Dirty(e, payload, shown) \in SUBSET Predicates
    BY PayloadType DEF About, Dirty
  <2>3. [Idle EXCEPT !.pc = "form", !.entity = e, !.loaded = About(e, store),
                     !.payload = payload, !.rewritten = Dirty(e, payload, shown)] \in Requests
    BY <2>2, IdleType DEF Requests, Phases
  <2>3a. req' \in [Writers -> Requests]
    BY <2>1a, <2>3
  <2>4. QED BY <2>3a, <1>1 DEF OpenForm
<1>2. CASE CloseForm(w)
  BY <1>2, IdleType DEF CloseForm
<1>3. CASE Arrive(w)
  <2>1. About(req[w].entity, store) \in SUBSET Triples
    BY DEF About
  <2>2. req' \in [Writers -> Requests]
    <3>1. CASE req[w].rewritten = {}
      BY <1>0, <1>3, <3>1 DEF Arrive, Requests, Phases
    <3>2. CASE req[w].rewritten # {}
      BY <1>0, <1>3, <2>1, <3>2 DEF Arrive, Requests, Phases
    <3>3. QED BY <3>1, <3>2
  <2>3. QED BY <2>2, <1>3 DEF Arrive
<1>4. CASE Validate(w)
  <2>1. req' \in [Writers -> Requests]
    BY <1>0, <1>4 DEF Validate, Requests, Phases
  <2>2. QED BY <2>1, <1>4 DEF Validate
<1>5. CASE Reject(w)
  BY <1>0, <1>5, BackType DEF Reject
<1>6. CASE SnapshotBridges(w)
  <2>1. ToRestore(req[w]) \in SUBSET Triples
    BY DEF ToRestore, BridgeTriples
  <2>2. req' \in [Writers -> Requests]
    BY <1>0, <1>6, <2>1 DEF SnapshotBridges, Requests, Phases
  <2>3. QED BY <2>2, <1>6 DEF SnapshotBridges
<1>7. CASE DeleteBridges(w)
  BY <1>0, <1>7 DEF DeleteBridges, Requests, Phases
<1>8. CASE DeleteLinks(w)
  BY <1>0, <1>8 DEF DeleteLinks, Requests, Phases
<1>9. CASE DeleteLabels(w)
  BY <1>0, <1>9 DEF DeleteLabels, Requests, Phases
<1>10. CASE Load(w)
  BY <1>0, <1>10, IdleType DEF Load, Requests
<1>11. CASE DeleteFails(w)
  BY <1>0, <1>11, BackType, FaultType, DamageType DEF DeleteFails
<1>12. CASE LoadFails(w)
  <2>1. faults' \in 0..MaxFaults
    BY <1>12, FaultType DEF LoadFails
  <2>2. store' \in SUBSET Triples
    BY <1>0, <1>12 DEF LoadFails, Requests
  <2>3. PICK applied \in {{}, req[w].payload} : LoadEnds(w, applied)
    BY <1>12 DEF LoadFails
  <2>4. applied \in SUBSET Triples
    BY <1>0, <2>3 DEF Requests
  <2>5. req' \in [Writers -> Requests]
    <3>1. CASE req[w].existing # {}
      <4>1. req' = [req EXCEPT ![w].pc = "rollback", ![w].applied = applied]
        BY <2>3, <3>1 DEF LoadEnds
      <4>2. QED BY <1>0, <2>4, <4>1 DEF Requests, Phases
    <3>2. CASE req[w].existing = {}
      BY <1>0, <2>3, <3>2, BackType DEF LoadEnds
    <3>3. QED BY <3>1, <3>2
  <2>6. torn' \in SUBSET (Entities \X Predicates)
    BY <2>3 DEF LoadEnds
  <2>7. QED BY <2>1, <2>2, <2>5, <2>6
<1>13. CASE Rollback(w)
  <2>1. store' \in SUBSET Triples
    BY <1>0, <1>13 DEF Rollback, Requests
  <2>2. QED BY <1>0, <1>13, <2>1, BackType, DamageType DEF Rollback
<1>14. CASE RollbackFails(w)
  <2>1. store' \in SUBSET Triples
    BY <1>0, <1>14 DEF RollbackFails, Requests
  <2>2. QED BY <1>0, <1>14, <2>1, BackType, DamageType DEF RollbackFails
<1>15. CASE DeleteEntity(w)
  BY <1>15 DEF DeleteEntity
<1>16. QED
  BY <1>1, <1>2, <1>3, <1>4, <1>5, <1>6, <1>7, <1>8, <1>9, <1>10, <1>11, <1>12, <1>13,
     <1>14, <1>15 DEF Writer

\* Type correctness of the write path: what store, forms and snapshots hold
\* are triples of the graph, and the failures stay within their bound.
THEOREM TypeCorrect == Spec => []TypeOK
<1>1. TypeOK /\ [Next]_vars => TypeOK'
  <2> SUFFICES ASSUME TypeOK, [Next]_vars PROVE TypeOK'
    OBVIOUS
  <2>1. CASE Crash
    <3>1. \A w \in Writers : req[w] \in Requests /\ BackToForm(req[w]) \in Requests
      BY BackType DEF TypeOK
    <3>2. req' \in [Writers -> Requests]
      BY <2>1, <3>1 DEF Crash
    <3>3. \A w \in Writers : Damage(req[w]) \in SUBSET (Entities \X Predicates)
      BY DamageType DEF TypeOK
    <3>4. torn' \in SUBSET (Entities \X Predicates)
      BY <2>1, <3>3 DEF Crash, TypeOK
    <3>5. QED BY <2>1, <3>2, <3>4, FaultType DEF Crash, TypeOK
  <2>2. CASE \E w \in Writers : Writer(w)
    BY <2>2, WriterType
  <2>3. CASE UNCHANGED vars
    BY <2>3 DEF vars, TypeOK
  <2>4. QED BY <2>1, <2>2, <2>3 DEF Next
<1>2. QED
  BY <1>1, InitType, PTL DEF Spec

------------------------------------------------------------------------------
(* A bridge that two entities link to.                                     *)

\* Of two linking entities there are two.
LEMMA TwoLinks ==
  ASSUME NEW b \in Bridges, Cardinality({e \in Entities : b \in Roles(e, store)}) > 1
  PROVE  \E d, e \in Entities : d # e /\ <<d, "role", b>> \in store /\ <<e, "role", b>> \in store
<1> DEFINE S == {e \in Entities : b \in Roles(e, store)}
<1>1. S # {}
  BY FS_EmptySet
<1>2. PICK e \in S : TRUE
  BY <1>1
<1>3. S # {e}
  <2>1. Cardinality(S) > 1
    OBVIOUS
  <2>2. Cardinality({e}) = 1
    BY FS_Singleton
  <2>3. QED
    <3> HIDE DEF S
    <3>1. QED BY <2>1, <2>2
<1>4. ~(S \subseteq {e})
  <2> HIDE DEF S
  <2>1. QED BY <1>2, <1>3
<1>4a. PICK d \in S : d # e
  BY <1>4
<1>5. ASSUME NEW c \in S PROVE c \in Entities /\ <<c, "role", b>> \in store
  <2>1. c \in Entities /\ b \in Roles(c, store)
    BY <1>5
  <2>2. QED BY <2>1 DEF Roles
<1>6. QED
  <2> HIDE DEF S
  <2>1. QED BY <1>2, <1>4a, <1>5

\* No entity owns it, so the bridge delete passes it by.
LEMMA SharedIsNotOwned ==
  ASSUME NEW b \in Bridges, Cardinality({e \in Entities : b \in Roles(e, store)}) > 1,
         NEW e
  PROVE  b \notin Owned(e, store)
<1>1. PICK c, d \in Entities : c # d /\ <<c, "role", b>> \in store /\ <<d, "role", b>> \in store
  BY TwoLinks
<1>2. QED BY <1>1 DEF Owned

\* No step takes a triple from a bridge that two entities link to.
LEMMA SharedStep ==
  ASSUME TypeOK, [Next]_vars, NEW b \in Bridges,
         Cardinality({e \in Entities : b \in Roles(e, store)}) > 1
  PROVE  About(b, store) \subseteq store'
<1> SUFFICES ASSUME NEW t \in store, t[1] = b, t \notin store' PROVE FALSE
  BY DEF About
<1>1. \A w \in Writers : req[w].entity \in Entities /\ b # req[w].entity
  BY GraphAssumptions DEF TypeOK, Requests
<1>2. \A w \in Writers : /\ t \notin UpdateBridges(req[w])
                         /\ t \notin UpdateLinks(req[w])
                         /\ t \notin UpdateLabels(req[w])
  BY <1>1, SharedIsNotOwned DEF UpdateBridges, BridgeTriples, UpdateLinks, UpdateLabels, With
<1>3. \A w \in Writers : \A gone \in Updates(req[w]) : t \notin gone
  BY <1>2 DEF Updates
<1>4. \A e \in Entities : t \notin About(e, store)
  BY GraphAssumptions DEF About
<1>5. ASSUME NEW w \in Writers, Writer(w) PROVE FALSE
  BY <1>2, <1>3, <1>4, <1>5
  DEF Writer, OpenForm, CloseForm, Arrive, Validate, Reject, SnapshotBridges, DeleteBridges,
      DeleteLinks, DeleteLabels, Load, DeleteFails, LoadFails, Rollback, RollbackFails,
      DeleteEntity
<1>6. QED BY <1>5 DEF Next, vars, Crash

\* Whatever fails and however many forms are open, a bridge that two entities
\* link to loses nothing: bridge_where finds bridges of one link only.
THEOREM SharedBridgesAreKept == Spec => SharedBridgesSurvive
<1>1. TypeOK /\ [Next]_vars =>
        [\A b \in Bridges : Cardinality({e \in Entities : b \in Roles(e, store)}) > 1
                               => About(b, store) \subseteq store']_vars
  BY SharedStep
<1>2. QED
  BY <1>1, TypeCorrect, PTL DEF Spec, SharedBridgesSurvive

------------------------------------------------------------------------------
(* One form at a time: the write path is atomic but for what breaks off.   *)
(* While a request writes, the store is what it was before less what has   *)
(* been replaced so far, and the snapshot has all of that; a rollback also *)
(* finds what the failed load put there.                                   *)

\* TODO.md declares the editor single-user.
Single == \A u, v \in Writers : u = v

Gone(r) ==
    {t \in r.before :
        \/ t[1] = r.entity /\ t[2] \in r.rewritten \ r.left
        \/ /\ "role" \in r.rewritten
           /\ r.pc = "unlink" \/ "role" \notin r.left
           /\ t \in BridgeTriples(r.entity, r.before)}

Restorable(r) ==
    /\ About(r.entity, r.before) \subseteq r.existing
    /\ "role" \in r.rewritten => BridgeTriples(r.entity, r.before) \subseteq r.existing

HalfWritten(r) ==
    /\ r.left \subseteq r.rewritten
    /\ r.pc = "unlink" => "role" \in r.left
    /\ r.pc = "load" => r.rewritten = {}
    /\ r.pc = "rollback" => r.left = {}
    /\ r.pc # "rollback" => r.applied = {}
    /\ r.applied \in {{}, r.payload}
    /\ store = (r.before \ Gone(r)) \union r.applied
    /\ r.existing \subseteq r.before
    /\ r.rewritten # {} => Restorable(r)

RequestInv(r) ==
    /\ r.pc # "idle" => r.payload \in Payloads(r.entity)
    /\ r.pc \notin Writing => r.left = {} /\ r.applied = {}
    /\ r.pc \in {"validate", "snapshot"} =>
           r.existing = IF r.rewritten = {} THEN {} ELSE About(r.entity, store)
    /\ r.pc = "snapshot" => r.rewritten # {}
    /\ r.pc \in Writing => HalfWritten(r)

AtomicInv == TypeOK /\ \A w \in Writers : RequestInv(req[w])

\* Which request's "before" the store is seen as.
LEMMA CommittedIs ==
  ASSUME Single, NEW w \in Writers
  PROVE  /\ Committed = IF req[w].pc \in Writing THEN req[w].before ELSE store
         /\ Committed' = IF req'[w].pc \in Writing THEN req'[w].before ELSE store'
<1>1. \A u \in Writers : u = w
  BY DEF Single
<1>2. req[w].pc \in Writing => (CHOOSE u \in Writers : req[u].pc \in Writing) = w
  BY <1>1
<1>3. req'[w].pc \in Writing => (CHOOSE u \in Writers : req'[u].pc \in Writing) = w
  BY <1>1
<1>4. Committed = IF req[w].pc \in Writing THEN req[w].before ELSE store
  BY <1>1, <1>2 DEF Committed
<1>5. Committed' = IF req'[w].pc \in Writing THEN req'[w].before ELSE store'
  BY <1>1, <1>3 DEF Committed
<1>6. QED BY <1>4, <1>5

\* Deleting labels of e changes nothing about the bridges e owns.
LEMMA LabelsApart ==
  ASSUME NEW graph \in SUBSET Triples, NEW rest \in SUBSET graph, NEW e \in Entities,
         \A t \in graph \ rest : t[1] = e /\ t[2] = "label"
  PROVE  BridgeTriples(e, rest) = BridgeTriples(e, graph)
<1>1. \A t \in graph \ rest : t[3] \in Values /\ t[3] \notin Bridges /\ t[1] \notin Bridges
  BY GraphAssumptions DEF Triples
<1>2. Roles(e, rest) = Roles(e, graph)
  BY DEF Roles
<1>3. Owned(e, rest) = Owned(e, graph)
  BY <1>1, <1>2 DEF Owned, Roles
<1>4. Owned(e, graph) \subseteq Bridges
  BY DEF Owned, Roles
<1>5. QED BY <1>1, <1>3, <1>4 DEF BridgeTriples

\* With nothing left to delete, what is gone is what the save replaces.
LEMMA AllGone ==
  ASSUME NEW r \in Requests, r.pc # "unlink", r.left = {}
  PROVE  Gone(r) = Replaced(r.entity, r.rewritten, r.before)
<1>1. BridgeTriples(r.entity, r.before) \subseteq r.before
  BY DEF BridgeTriples
<1>2. CASE "role" \in r.rewritten
  BY <1>1, <1>2 DEF Gone, Replaced
<1>3. CASE "role" \notin r.rewritten
  BY <1>3 DEF Gone, Replaced
<1>4. QED BY <1>2, <1>3

\* What is gone can be restored, and without deletes nothing is gone.
LEMMA GoneIsSaved ==
  ASSUME NEW r \in Requests, HalfWritten(r)
  PROVE  Gone(r) \subseteq r.existing /\ Gone(r) \subseteq r.before
<1>1. CASE r.rewritten = {}
  BY <1>1 DEF Gone, HalfWritten
<1>2. CASE r.rewritten # {}
  BY <1>2 DEF Gone, HalfWritten, Restorable, About
<1>3. QED BY <1>1, <1>2

\* Each step of the only form keeps what the invariant says of its request.
LEMMA WriterAtomic ==
  ASSUME Single, AtomicInv, TypeOK', NEW w \in Writers, Writer(w)
  PROVE  RequestInv(req[w])'
<1> DEFINE r == req[w]
           s == req'[w]
<1>0. /\ r \in Requests /\ s \in Requests
      /\ RequestInv(r)
      /\ req \in [Writers -> Requests] /\ store \in SUBSET Triples
  BY DEF AtomicInv, TypeOK
<1>0a. Idle.pc = "idle" /\ Idle.left = {} /\ Idle.applied = {}
  BY DEF Idle
<1>0b. /\ BackToForm(r).pc \in {"idle", "form"}
       /\ BackToForm(r).left = {} /\ BackToForm(r).applied = {}
       /\ r.pc # "idle" =>
             (BackToForm(r).pc = "idle" \/ BackToForm(r).payload \in Payloads(BackToForm(r).entity))
  BY <1>0, <1>0a DEF BackToForm, RequestInv, Requests
<1>0c. ASSUME s = BackToForm(r), r.pc # "idle" PROVE RequestInv(req[w])'
  BY <1>0b, <1>0c DEF RequestInv, Writing
<1>0d. ASSUME s = Idle PROVE RequestInv(req[w])'
  BY <1>0a, <1>0d DEF RequestInv, Writing
<1>1. CASE OpenForm(w)
  <2>1. PICK e \in Entities : \E shown \in Shown(e) : \E payload \in Payloads(e) :
          req' = [req EXCEPT ![w] =
                    [Idle EXCEPT !.pc = "form", !.entity = e, !.loaded = About(e, store),
                                 !.payload = payload, !.rewritten = Dirty(e, payload, shown)]]
    BY <1>1 DEF OpenForm
  <2>2. /\ s.pc = "form" /\ s.left = {} /\ s.applied = {}
        /\ s.entity = e /\ s.payload \in Payloads(e)
    BY <1>0, <2>1 DEF Idle
  <2>3. QED BY <2>2 DEF RequestInv, Writing
<1>2. CASE CloseForm(w)
  BY <1>0, <1>0d, <1>2 DEF CloseForm
<1>3. CASE Arrive(w)
  <2>1. /\ s.pc = "validate" /\ s.left = r.left /\ s.payload = r.payload /\ s.applied = r.applied
        /\ s.entity = r.entity /\ s.rewritten = r.rewritten /\ r.pc = "form"
        /\ store' = store
    BY <1>0, <1>3 DEF Arrive, Requests
  <2>2. s.existing = IF r.rewritten = {} THEN {} ELSE About(r.entity, store)
    BY <1>0, <1>3 DEF Arrive, Requests
  <2>3. QED BY <1>0, <2>1, <2>2 DEF RequestInv, Writing, About
<1>4. CASE Validate(w)
  <2>1. /\ r.pc = "validate" /\ s.left = r.left /\ s.payload = r.payload /\ s.applied = r.applied
        /\ s.entity = r.entity /\ s.rewritten = r.rewritten /\ s.existing = r.existing
        /\ store' = store
    BY <1>0, <1>4 DEF Validate, Requests
  <2>2. CASE r.rewritten = {}
    <3>1. s.pc = "load" /\ s.before = store
      BY <1>0, <1>4, <2>2 DEF Validate, Requests
    <3>2. Gone(s) = {}
      BY <2>1, <2>2, <3>1 DEF Gone
    <3>3. HalfWritten(req[w])'
      BY <1>0, <2>1, <2>2, <3>1, <3>2 DEF HalfWritten, RequestInv, Writing, Gone
    <3>4. QED BY <1>0, <2>1, <3>1, <3>3 DEF RequestInv, Writing
  <2>3. CASE r.rewritten # {}
    <3>1. s.pc = "snapshot"
      BY <1>0, <1>4, <2>3 DEF Validate, Requests
    <3>2. QED BY <1>0, <2>1, <2>3, <3>1 DEF RequestInv, Writing, About
  <2>4. QED BY <2>2, <2>3
<1>5. CASE Reject(w)
  BY <1>0, <1>0c, <1>5 DEF Reject
<1>6. CASE SnapshotBridges(w)
  <2>1. /\ r.pc = "snapshot" /\ s.pc = "delete" /\ s.left = r.rewritten /\ s.before = store
        /\ s.payload = r.payload /\ s.applied = r.applied
        /\ s.entity = r.entity /\ s.rewritten = r.rewritten
        /\ s.existing = r.existing \union ToRestore(r)
        /\ store' = store
    BY <1>0, <1>6 DEF SnapshotBridges, Requests
  <2>2. r.existing = About(r.entity, store) /\ r.rewritten # {}
    BY <1>0, <2>1 DEF RequestInv
  <2>3. Gone(s) = {}
    BY <2>1 DEF Gone
  <2>4. About(s.entity, s.before) \subseteq s.existing /\ s.existing \subseteq s.before
    BY <2>1, <2>2 DEF About, ToRestore, BridgeTriples
  <2>5. "role" \in s.rewritten => BridgeTriples(s.entity, s.before) \subseteq s.existing
    BY <2>1 DEF ToRestore
  <2>5a. r.applied = {}
    BY <1>0, <2>1 DEF RequestInv, Writing
  <2>6. HalfWritten(req[w])'
    BY <2>1, <2>3, <2>4, <2>5, <2>5a
    DEF HalfWritten, Restorable, Gone, About, BridgeTriples, Owned, Roles
  <2>7. QED BY <1>0, <2>1, <2>6 DEF RequestInv, Writing
<1>7. CASE DeleteBridges(w)
  <2>1. /\ r.pc = "delete" /\ "role" \in r.left /\ s.pc = "unlink" /\ s.left = r.left
        /\ s.payload = r.payload /\ s.applied = r.applied
        /\ s.entity = r.entity /\ s.rewritten = r.rewritten
        /\ s.existing = r.existing /\ s.before = r.before
        /\ store' = store \ BridgeTriples(r.entity, store)
    BY <1>0, <1>7 DEF DeleteBridges, UpdateBridges, Requests
  <2>2. HalfWritten(r)
    BY <1>0, <2>1 DEF RequestInv, Writing
  <2>3. r.left \subseteq r.rewritten /\ store = r.before \ Gone(r)
    BY <2>1, <2>2 DEF HalfWritten
  <2>4. \A t \in Gone(r) : t[1] = r.entity /\ t[2] = "label"
    BY <1>0, <2>1 DEF Gone, Requests, Predicates
  <2>5. BridgeTriples(r.entity, store) = BridgeTriples(r.entity, r.before)
    BY <1>0, <2>3, <2>4, LabelsApart DEF Requests
  <2>6. Gone(s) = Gone(r) \union BridgeTriples(r.entity, r.before)
    BY <2>1, <2>3 DEF Gone, BridgeTriples
  <2>7. store' = s.before \ Gone(s)
    BY <2>1, <2>3, <2>5, <2>6
  <2>8. HalfWritten(req[w])'
    BY <2>1, <2>2, <2>7 DEF HalfWritten, Restorable, Gone, About, BridgeTriples, Owned, Roles
  <2>9. QED BY <1>0, <2>1, <2>8 DEF RequestInv, Writing
<1>8. CASE DeleteLinks(w)
  <2>1. /\ r.pc = "unlink" /\ s.pc = "delete" /\ s.left = r.left \ {"role"}
        /\ s.payload = r.payload /\ s.applied = r.applied
        /\ s.entity = r.entity /\ s.rewritten = r.rewritten
        /\ s.existing = r.existing /\ s.before = r.before
        /\ store' = store \ With(r.entity, "role", store)
    BY <1>0, <1>8 DEF DeleteLinks, UpdateLinks, Requests
  <2>2. HalfWritten(r)
    BY <1>0, <2>1 DEF RequestInv, Writing
  <2>3. r.left \subseteq r.rewritten /\ store = r.before \ Gone(r) /\ "role" \in r.left
    BY <2>1, <2>2 DEF HalfWritten
  <2>4. Gone(s) = Gone(r) \union With(r.entity, "role", r.before)
    BY <2>1, <2>3 DEF Gone, With
  <2>5. store' = s.before \ Gone(s)
    BY <2>1, <2>3, <2>4 DEF With
  <2>6. HalfWritten(req[w])'
    BY <2>1, <2>2, <2>5 DEF HalfWritten, Restorable, Gone, About, BridgeTriples, Owned, Roles
  <2>7. QED BY <1>0, <2>1, <2>6 DEF RequestInv, Writing
<1>9. CASE DeleteLabels(w)
  <2>1. /\ r.pc = "delete" /\ "label" \in r.left
        /\ s.pc = "delete" /\ s.left = r.left \ {"label"}
        /\ s.payload = r.payload /\ s.applied = r.applied
        /\ s.entity = r.entity /\ s.rewritten = r.rewritten
        /\ s.existing = r.existing /\ s.before = r.before
        /\ store' = store \ With(r.entity, "label", store)
    BY <1>0, <1>9 DEF DeleteLabels, UpdateLabels, Requests
  <2>2. HalfWritten(r)
    BY <1>0, <2>1 DEF RequestInv, Writing
  <2>3. r.left \subseteq r.rewritten /\ store = r.before \ Gone(r)
    BY <2>1, <2>2 DEF HalfWritten
  <2>4. Gone(s) = Gone(r) \union With(r.entity, "label", r.before)
    BY <2>1, <2>3 DEF Gone, With
  <2>5. store' = s.before \ Gone(s)
    BY <2>1, <2>3, <2>4 DEF With
  <2>6. HalfWritten(req[w])'
    BY <2>1, <2>2, <2>5 DEF HalfWritten, Restorable, Gone, About, BridgeTriples, Owned, Roles
  <2>7. QED BY <1>0, <2>1, <2>6 DEF RequestInv, Writing
<1>10. CASE Load(w)
  BY <1>0, <1>0d, <1>10 DEF Load
<1>11. CASE DeleteFails(w)
  <2>1. s = BackToForm(r) /\ r.pc # "idle"
    BY <1>0, <1>11 DEF DeleteFails, Updates
  <2>2. QED BY <1>0c, <2>1
<1>12. CASE LoadFails(w)
  <2>1. PICK applied \in {{}, r.payload} : store' = store \union applied /\ LoadEnds(w, applied)
    BY <1>12 DEF LoadFails
  <2>1a. ReadyToLoad(r)
    BY <1>12 DEF LoadFails
  <2>2. CASE r.existing = {}
    <3>1. s = BackToForm(r)
      BY <1>0, <2>1, <2>2 DEF LoadEnds
    <3>2. QED BY <1>0c, <2>1a, <3>1 DEF ReadyToLoad
  <2>3. CASE r.existing # {}
    <3>1. req' = [req EXCEPT ![w].pc = "rollback", ![w].applied = applied]
      BY <2>1, <2>3 DEF LoadEnds
    <3>2. /\ s.pc = "rollback" /\ s.left = r.left /\ s.applied = applied
          /\ s.payload = r.payload /\ s.entity = r.entity /\ s.rewritten = r.rewritten
          /\ s.existing = r.existing /\ s.before = r.before
      BY <1>0, <3>1 DEF Requests
    <3>3. HalfWritten(r)
      BY <1>0, <2>1a DEF RequestInv, Writing, ReadyToLoad
    <3>4. r.left = {} /\ r.pc # "unlink" /\ r.pc # "rollback"
      BY <2>1a, <3>3 DEF ReadyToLoad, HalfWritten
    <3>5. Gone(s) = Gone(r)
      BY <3>2, <3>4 DEF Gone
    <3>5a. store = r.before \ Gone(r)
      BY <3>3, <3>4 DEF HalfWritten
    <3>5b. store' = (s.before \ Gone(s)) \union s.applied
      BY <2>1, <3>2, <3>5, <3>5a
    <3>6. HalfWritten(req[w])'
      BY <3>2, <3>3, <3>4, <3>5b
      DEF HalfWritten, Restorable, Gone, About, BridgeTriples, Owned, Roles
    <3>7. r.pc # "idle"
      BY <2>1a DEF ReadyToLoad
    <3>8. QED BY <1>0, <3>2, <3>6, <3>7 DEF RequestInv, Writing
  <2>4. QED BY <2>2, <2>3
<1>13. CASE Rollback(w)
  BY <1>0, <1>0c, <1>13 DEF Rollback
<1>14. CASE RollbackFails(w)
  BY <1>0, <1>0c, <1>14 DEF RollbackFails
<1>15. CASE DeleteEntity(w)
  BY <1>0, <1>15 DEF DeleteEntity, RequestInv, Writing
<1>16. QED
  BY <1>1, <1>2, <1>3, <1>4, <1>5, <1>6, <1>7, <1>8, <1>9, <1>10, <1>11, <1>12, <1>13,
     <1>14, <1>15 DEF Writer

\* Nothing has been written at first.
LEMMA InitAtomic == Init => AtomicInv
<1>1. Idle.pc = "idle" /\ Idle.left = {} /\ Idle.applied = {}
  BY DEF Idle
<1>2. ASSUME Init, NEW w \in Writers PROVE RequestInv(req[w])
  BY <1>1, <1>2 DEF Init, RequestInv, Writing
<1>3. QED BY <1>2, InitType DEF AtomicInv

\* The invariant of one form.
LEMMA AtomicInvariant == ASSUME Single PROVE Spec => []AtomicInv
<1>1. AtomicInv /\ [Next]_vars /\ TypeOK' => AtomicInv'
  <2> SUFFICES ASSUME AtomicInv, [Next]_vars, TypeOK', NEW u \in Writers
               PROVE  RequestInv(req[u])'
    BY DEF AtomicInv
  <2>1. CASE Crash
    <3>1. /\ store' = store
          /\ req'[u] = IF req[u].pc \in {"idle", "form"} THEN req[u] ELSE BackToForm(req[u])
      BY <2>1 DEF Crash
    <3>2. req[u] \in Requests /\ RequestInv(req[u])
      BY DEF AtomicInv, TypeOK
    <3>3. CASE req[u].pc \in {"idle", "form"}
      BY <3>1, <3>2, <3>3 DEF RequestInv, Writing
    <3>4. CASE req[u].pc \notin {"idle", "form"}
      <4>1. BackToForm(req[u]).payload \in Payloads(BackToForm(req[u]).entity)
            \/ BackToForm(req[u]).pc = "idle"
        BY <3>2, <3>4 DEF BackToForm, RequestInv, Requests, Idle
      <4>2. /\ BackToForm(req[u]).pc \in {"idle", "form"}
            /\ BackToForm(req[u]).left = {} /\ BackToForm(req[u]).applied = {}
        BY <3>2 DEF BackToForm, Requests, Idle
      <4>3. QED BY <3>1, <3>4, <4>1, <4>2 DEF RequestInv, Writing
    <3>5. QED BY <3>3, <3>4
  <2>2. CASE \E w \in Writers : Writer(w)
    <3>1. PICK w \in Writers : Writer(w)
      BY <2>2
    <3>2. w = u
      BY DEF Single
    <3>3. Writer(u)
      BY <3>1, <3>2
    <3>4. QED BY <3>3, WriterAtomic
  <2>3. CASE UNCHANGED vars
    <3>1. store' = store /\ req' = req /\ RequestInv(req[u])
      BY <2>3 DEF vars, AtomicInv
    <3>2. HalfWritten(req[u]) => HalfWritten(req[u])'
      BY <3>1 DEF HalfWritten, Restorable, Gone, About, BridgeTriples, Owned, Roles
    <3>3. QED BY <3>1, <3>2 DEF RequestInv
  <2>4. QED BY <2>1, <2>2, <2>3 DEF Next
<1>2. QED
  BY <1>1, InitAtomic, TypeCorrect, PTL DEF Spec

------------------------------------------------------------------------------
(* A save is atomic: the refinement of EntityStore                         *)

\* EntityStore speaks of the same triples, payloads and replaced triples.
LEMMA SameGraph ==
  /\ Abstract!Triples = Triples
  /\ Abstract!Predicates = Predicates
  /\ \A e : Abstract!Payloads(e) = Payloads(e)
  /\ \A e, graph : Abstract!About(e, graph) = About(e, graph)
  /\ \A e, predicates, graph :
        Abstract!Replaced(e, predicates, graph) = Replaced(e, predicates, graph)
<1>1. Abstract!Triples = Triples
  BY DEF Abstract!Triples, Triples
<1>2. Abstract!Predicates = Predicates
  BY DEF Abstract!Predicates, Predicates
<1>3. ASSUME NEW e PROVE Abstract!Payloads(e) = Payloads(e)
  BY DEF Abstract!Payloads, Payloads, Abstract!Payload, Payload
<1>4. ASSUME NEW e, NEW graph
      PROVE  Abstract!About(e, graph) = About(e, graph)
  BY DEF Abstract!About, About
<1>5. ASSUME NEW e, NEW graph
      PROVE  Abstract!BridgeTriples(e, graph) = BridgeTriples(e, graph)
  BY DEF Abstract!BridgeTriples, BridgeTriples, Abstract!Owned, Owned, Abstract!Roles, Roles
<1>6. ASSUME NEW e, NEW predicates, NEW graph
      PROVE  Abstract!Replaced(e, predicates, graph) = Replaced(e, predicates, graph)
  BY <1>5 DEF Abstract!Replaced, Replaced
<1>7. QED BY <1>1, <1>2, <1>3, <1>4, <1>6

\* A load that the store applies turns what the store was when the write began
\* into the saved entity.
LEMMA LoadSaves ==
  ASSUME Single, AtomicInv, TypeOK', NEW w \in Writers, ReadyToLoad(req[w]),
         store' = store \union req[w].payload, torn' = torn \ Edited(req[w]),
         req'[w].pc \notin Writing
  PROVE  Abstract!Next
<1> DEFINE r == req[w]
<1>1. r \in Requests /\ RequestInv(r)
  BY DEF AtomicInv, TypeOK
<1>2. r.pc = "load" \/ (r.pc = "delete" /\ r.left = {})
  BY DEF ReadyToLoad
<1>3. r.pc \in Writing /\ HalfWritten(r) /\ r.payload \in Payloads(r.entity)
  BY <1>1, <1>2 DEF RequestInv, Writing
<1>4. r.left = {} /\ r.applied = {}
  BY <1>2, <1>3 DEF HalfWritten
<1>5. Gone(r) = Replaced(r.entity, r.rewritten, r.before)
  BY <1>1, <1>2, <1>4, AllGone
<1>6. store' = (r.before \ Replaced(r.entity, r.rewritten, r.before)) \union r.payload
  BY <1>3, <1>4, <1>5 DEF HalfWritten
<1>7. Committed = r.before /\ Committed' = store'
  BY <1>3, CommittedIs
<1>8. r.entity \in Entities /\ r.rewritten \in SUBSET Predicates
  BY <1>1 DEF Requests
<1>9. Abstract!Save(r.entity, r.rewritten)
  BY <1>3, <1>6, <1>7, SameGraph DEF Abstract!Save, Edited
<1>10. QED BY <1>8, <1>9, SameGraph DEF Abstract!Next

\* What a request has done to the store so far: part of what it replaces is gone.
Partly(r, graph) ==
    /\ r.before \ Replaced(r.entity, r.rewritten, r.before) \subseteq graph
    /\ r.applied \subseteq graph /\ graph \subseteq r.before \union r.applied

LEMMA GoneInPart ==
  ASSUME NEW r \in Requests, HalfWritten(r)
  PROVE  /\ Partly(r, store)
         /\ Partly(r, store \union r.existing)
<1>1. Gone(r) \subseteq Replaced(r.entity, r.rewritten, r.before)
  BY DEF Gone, Replaced
<1>2. QED BY <1>1 DEF Partly, HalfWritten

\* An update that a request sends takes out no more than the save replaces.
LEMMA UpdatesInPart ==
  ASSUME NEW r \in Requests, HalfWritten(r), NEW gone \in Updates(r), store \in SUBSET Triples
  PROVE  Partly(r, store \ gone)
<1>1. r.pc \in {"delete", "unlink"} /\ r.applied = {} /\ Partly(r, store)
  BY GoneInPart DEF Updates, HalfWritten
<1>2. store \subseteq r.before
  BY <1>1 DEF Partly
<1>3. SUFFICES gone \subseteq Replaced(r.entity, r.rewritten, r.before)
  BY <1>1 DEF Partly
<1>4. CASE r.pc = "unlink"
  <2>1. gone = With(r.entity, "role", store) /\ "role" \in r.rewritten
    BY <1>4 DEF Updates, UpdateLinks, HalfWritten
  <2>2. QED BY <1>2, <2>1 DEF With, Replaced
<1>5. CASE r.pc = "delete" /\ "role" \in r.left /\ gone = UpdateBridges(r)
  <2>1. store = r.before \ Gone(r) /\ "role" \in r.rewritten
    BY <1>1, <1>5 DEF HalfWritten
  <2>2. \A t \in Gone(r) : t[1] = r.entity /\ t[2] = "label"
    BY <1>5 DEF Gone, Requests, Predicates
  <2>3. r.before \in SUBSET Triples /\ r.entity \in Entities
    BY DEF Requests
  <2>4. BridgeTriples(r.entity, store) = BridgeTriples(r.entity, r.before)
    BY <2>1, <2>2, <2>3, LabelsApart
  <2>5. QED BY <1>5, <2>1, <2>4 DEF Replaced, UpdateBridges
<1>6. CASE r.pc = "delete" /\ "label" \in r.left /\ gone = UpdateLabels(r)
  <2>1. "label" \in r.rewritten
    BY <1>6 DEF HalfWritten
  <2>2. QED BY <1>2, <1>6, <2>1 DEF UpdateLabels, With, Replaced
<1>7. QED BY <1>1, <1>4, <1>5, <1>6 DEF Updates

\* A write that breaks off leaves everything as it was, or is torn.
LEMMA BrokenTears ==
  ASSUME Single, NEW w \in Writers, req[w] \in Requests, req[w].pc \in Writing,
         HalfWritten(req[w]), req[w].payload \in Payloads(req[w].entity),
         req'[w].pc \notin Writing, Partly(req[w], store'),
         torn' = torn \union Damage(req[w])
  PROVE  Abstract!Next \/ (Committed' = Committed /\ torn' = torn)
<1> DEFINE r == req[w]
<1>1. Committed = r.before /\ Committed' = store'
  BY CommittedIs
<1>2. CASE store' = r.before
  BY <1>1, <1>2 DEF Damage
<1>3. CASE store' # r.before
  <2>1. r.applied \in {{}, r.payload} /\ r.entity \in Entities /\ r.rewritten \in SUBSET Predicates
    BY DEF HalfWritten, Requests
  <2>2. torn' = torn \union ({r.entity} \X r.rewritten)
    BY <1>3 DEF Damage, Edited
  <2>3. Abstract!Tear(r.entity, r.rewritten)
    BY <1>1, <2>1, <2>2, SameGraph DEF Abstract!Tear, Partly
  <2>4. QED BY <2>1, <2>3, SameGraph DEF Abstract!Next
<1>4. QED BY <1>2, <1>3

\* Every other step but a deletion leaves the committed store as it is, or tears.
LEMMA OthersStutter ==
  ASSUME Single, AtomicInv, TypeOK', NEW w \in Writers, Writer(w),
         ~ Load(w), ~ DeleteEntity(w)
  PROVE  Abstract!Next \/ (Committed' = Committed /\ torn' = torn)
<1> DEFINE r == req[w]
           s == req'[w]
<1>1. /\ r \in Requests /\ RequestInv(r)
      /\ req \in [Writers -> Requests] /\ store \in SUBSET Triples
  BY DEF AtomicInv, TypeOK
<1>2. BackToForm(r).pc \notin Writing
  BY <1>1 DEF BackToForm, Idle, Writing, Requests
<1>3. ASSUME s.pc \notin Writing, r.pc \notin Writing, store' = store, torn' = torn
      PROVE  Committed' = Committed /\ torn' = torn
  BY <1>3, CommittedIs
<1>4. ASSUME s.pc \in Writing, r.pc \in Writing, s.before = r.before, torn' = torn
      PROVE  Committed' = Committed /\ torn' = torn
  BY <1>4, CommittedIs
<1>5. ASSUME s.pc \in Writing, r.pc \notin Writing, s.before = store, torn' = torn
      PROVE  Committed' = Committed /\ torn' = torn
  BY <1>5, CommittedIs
<1>6. ASSUME s.pc \notin Writing, r.pc \in Writing, store' = r.before, torn' = torn
      PROVE  Committed' = Committed /\ torn' = torn
  BY <1>6, CommittedIs
<1>7. CASE OpenForm(w)
  <2>1. s.pc = "form"
    BY <1>1, <1>7 DEF OpenForm, Idle
  <2>2. QED BY <1>3, <1>7, <2>1 DEF OpenForm, Writing
<1>8. CASE CloseForm(w)
  <2>1. s = Idle
    BY <1>1, <1>8 DEF CloseForm
  <2>2. QED BY <1>3, <1>8, <2>1 DEF CloseForm, Idle, Writing
<1>9. CASE Arrive(w)
  <2>1. s.pc = "validate"
    BY <1>1, <1>9 DEF Arrive, Requests
  <2>2. QED BY <1>3, <1>9, <2>1 DEF Arrive, Writing
<1>10. CASE Validate(w)
  <2>1. (s.pc = "load" /\ s.before = store) \/ s.pc = "snapshot"
    BY <1>1, <1>10 DEF Validate, Requests
  <2>2. QED BY <1>3, <1>5, <1>10, <2>1 DEF Validate, Writing
<1>11. CASE Reject(w)
  <2>1. s = BackToForm(r)
    BY <1>1, <1>11 DEF Reject
  <2>2. QED BY <1>2, <1>3, <1>11, <2>1 DEF Reject, Writing
<1>12. CASE SnapshotBridges(w)
  <2>1. s.pc = "delete" /\ s.before = store
    BY <1>1, <1>12 DEF SnapshotBridges, Requests
  <2>2. QED BY <1>5, <1>12, <2>1 DEF SnapshotBridges, Writing
<1>13. CASE DeleteBridges(w)
  <2>1. s.pc = "unlink" /\ s.before = r.before
    BY <1>1, <1>13 DEF DeleteBridges, Requests
  <2>2. QED BY <1>4, <1>13, <2>1 DEF DeleteBridges, Writing
<1>14. CASE DeleteLinks(w)
  <2>1. s.pc = "delete" /\ s.before = r.before
    BY <1>1, <1>14 DEF DeleteLinks, Requests
  <2>2. QED BY <1>4, <1>14, <2>1 DEF DeleteLinks, Writing
<1>15. CASE DeleteLabels(w)
  <2>1. s.pc = "delete" /\ s.before = r.before
    BY <1>1, <1>15 DEF DeleteLabels, Requests
  <2>2. QED BY <1>4, <1>15, <2>1 DEF DeleteLabels, Writing
<1>6a. ASSUME r.pc \in Writing
       PROVE  HalfWritten(r) /\ r.payload \in Payloads(r.entity)
  BY <1>1, <1>6a DEF RequestInv, Writing
<1>16. CASE DeleteFails(w)
  <2>1. s = BackToForm(r) /\ r.pc \in {"delete", "unlink"} /\ torn' = torn \union Damage(r)
    BY <1>1, <1>16 DEF DeleteFails, Updates
  <2>2. r.pc \in Writing
    BY <2>1 DEF Writing
  <2>3. HalfWritten(r) /\ r.payload \in Payloads(r.entity)
    BY <1>6a, <2>2
  <2>4. store' = store \/ \E gone \in Updates(r) : store' = store \ gone
    BY <1>16 DEF DeleteFails
  <2>5. Partly(r, store')
    BY <1>1, <2>3, <2>4, GoneInPart, UpdatesInPart
  <2>6. QED BY <1>1, <1>2, <2>1, <2>2, <2>3, <2>5, BrokenTears
<1>17. CASE LoadFails(w)
  <2>1. PICK applied \in {{}, r.payload} : store' = store \union applied /\ LoadEnds(w, applied)
    BY <1>17 DEF LoadFails
  <2>2. ReadyToLoad(r) /\ r.pc \in Writing
    BY <1>17 DEF LoadFails, ReadyToLoad, Writing
  <2>3. CASE r.existing # {}
    <3>1. s.pc = "rollback" /\ s.before = r.before /\ torn' = torn
      BY <1>1, <2>1, <2>3 DEF LoadEnds, Requests
    <3>2. QED BY <1>4, <2>2, <3>1 DEF Writing
  <2>4. CASE r.existing = {} /\ applied = {}
    <3>1. s = BackToForm(r) /\ torn' = torn
      BY <1>1, <2>1, <2>4 DEF LoadEnds
    <3>2. HalfWritten(r) /\ r.applied = {}
      BY <1>6a, <2>2 DEF HalfWritten, ReadyToLoad
    <3>3. Gone(r) = {}
      BY <1>1, <2>4, <3>2, GoneIsSaved
    <3>4. store' = r.before
      BY <2>1, <2>4, <3>2, <3>3 DEF HalfWritten
    <3>5. QED BY <1>2, <1>6, <2>2, <3>1, <3>4
  <2>5. CASE r.existing = {} /\ applied # {}
    <3>1. s = BackToForm(r) /\ torn' = torn \ Edited(r) /\ store' = store \union r.payload
      BY <1>1, <2>1, <2>5 DEF LoadEnds
    <3>2. QED BY <1>2, <2>2, <3>1, LoadSaves
  <2>6. QED BY <2>3, <2>4, <2>5
<1>18. CASE Rollback(w)
  <2>1. /\ s = BackToForm(r) /\ store' = store \union r.existing
        /\ r.pc = "rollback" /\ r.pc \in Writing
        /\ torn' = IF r.applied = {} THEN torn ELSE torn \union Damage(r)
    BY <1>1, <1>18 DEF Rollback, Writing
  <2>2. HalfWritten(r) /\ r.payload \in Payloads(r.entity)
    BY <1>6a, <2>1
  <2>3. CASE r.applied = {}
    <3>1. Gone(r) \subseteq r.existing /\ Gone(r) \subseteq r.before
      BY <1>1, <2>2, GoneIsSaved
    <3>2. store' = r.before
      BY <2>1, <2>2, <2>3, <3>1 DEF HalfWritten
    <3>3. QED BY <1>2, <1>6, <2>1, <2>3, <3>2
  <2>4. CASE r.applied # {}
    BY <1>1, <1>2, <2>1, <2>2, <2>4, GoneInPart, BrokenTears
  <2>5. QED BY <2>3, <2>4
<1>19. CASE RollbackFails(w)
  <2>1. /\ s = BackToForm(r) /\ store' \in {store, store \union r.existing}
        /\ r.pc \in Writing /\ torn' = torn \union Damage(r)
    BY <1>1, <1>19 DEF RollbackFails, Writing
  <2>2. HalfWritten(r) /\ r.payload \in Payloads(r.entity)
    BY <1>6a, <2>1
  <2>3. Partly(r, store')
    BY <1>1, <2>1, <2>2, GoneInPart
  <2>4. QED BY <1>1, <1>2, <2>1, <2>2, <2>3, BrokenTears
<1>20. QED
  BY <1>7, <1>8, <1>9, <1>10, <1>11, <1>12, <1>13, <1>14, <1>15, <1>16, <1>17, <1>18,
     <1>19 DEF Writer

\* A crash breaks the only request off, if it is writing.
LEMMA CrashTears ==
  ASSUME Single, AtomicInv, Crash PROVE Abstract!Next \/ (Committed' = Committed /\ torn' = torn)
<1>1. PICK w \in Writers : req[w].pc \notin {"idle", "form"}
  BY DEF Crash
<1> DEFINE r == req[w]
<1>2. /\ r \in Requests /\ RequestInv(r) /\ store' = store
      /\ \A u \in Writers : u = w
  BY DEF Crash, AtomicInv, TypeOK, Single
<1>3. req'[w] = BackToForm(r) /\ BackToForm(r).pc \notin Writing
  BY <1>1, <1>2 DEF Crash, BackToForm, Idle, Writing, Requests
<1>4. CASE r.pc \in Writing
  <2>1. {Damage(req[v]) : v \in {v \in Writers : req[v].pc \in Writing}} = {Damage(r)}
    BY <1>2, <1>4
  <2>2. torn' = torn \union Damage(r)
    BY <2>1 DEF Crash
  <2>3. HalfWritten(r) /\ r.payload \in Payloads(r.entity)
    BY <1>2, <1>4 DEF RequestInv, Writing
  <2>4. Partly(r, store')
    BY <1>2, <2>3, GoneInPart
  <2>5. QED BY <1>2, <1>3, <1>4, <2>2, <2>3, <2>4, BrokenTears
<1>5. CASE r.pc \notin Writing
  <2>1. {Damage(req[v]) : v \in {v \in Writers : req[v].pc \in Writing}} = {}
    BY <1>2, <1>5
  <2>2. torn' = torn
    BY <2>1 DEF Crash
  <2>3. QED BY <1>2, <1>3, <1>5, <2>2, CommittedIs
<1>6. QED BY <1>4, <1>5

\* DELETE /entities is the abstract deletion.
LEMMA DeletionDeletes ==
  ASSUME Single, AtomicInv, NEW w \in Writers, DeleteEntity(w)
  PROVE  Abstract!Next
<1>1. req[w].pc \notin Writing /\ req'[w].pc \notin Writing
  BY DEF DeleteEntity, Writing
<1>2. Committed = store /\ Committed' = store'
  BY <1>1, CommittedIs
<1>3. PICK e \in Entities : store' = store \ About(e, store) /\ torn' = torn \ ({e} \X Predicates)
  BY DEF DeleteEntity
<1>4. Abstract!Delete(e)
  BY <1>2, <1>3, SameGraph DEF Abstract!Delete
<1>5. QED BY <1>4 DEF Abstract!Next

\* A load that succeeds is the abstract save.
LEMMA LoadIsSave ==
  ASSUME Single, AtomicInv, TypeOK', NEW w \in Writers, Load(w) PROVE Abstract!Next
<1>1. req'[w] = Idle /\ Idle.pc \notin Writing
  BY DEF Load, AtomicInv, TypeOK, Idle, Writing
<1>2. QED BY <1>1, LoadSaves DEF Load

\* For one form at a time, POST and DELETE /entities save and delete entities in
\* one piece, whatever is turned down, and what breaks off is torn within the
\* predicates that were edited: the handlers implement EntityStore.
THEOREM WritesAreAtomic == ASSUME Single PROVE Spec => AtomicWrites
<1>1. Init => Abstract!Init
  <2> SUFFICES ASSUME Init PROVE Abstract!Init
    OBVIOUS
  <2>1. \A w \in Writers : req[w].pc \notin Writing
    BY DEF Init, Idle, Writing
  <2>2. Committed = store
    BY <2>1 DEF Committed
  <2>3. store \in SUBSET Triples /\ torn = {}
    BY DEF Init, Imported
  <2>4. QED BY <2>2, <2>3, SameGraph DEF Abstract!Init
<1>2. AtomicInv /\ TypeOK' /\ [Next]_vars => [Abstract!Next]_(Abstract!vars)
  <2> SUFFICES ASSUME AtomicInv, TypeOK', [Next]_vars
               PROVE  Abstract!Next \/ (Committed' = Committed /\ torn' = torn)
    BY DEF Abstract!vars
  <2>1. CASE Crash
    BY <2>1, CrashTears
  <2>2. ASSUME NEW w \in Writers, Writer(w)
        PROVE  Abstract!Next \/ (Committed' = Committed /\ torn' = torn)
    BY <2>2, LoadIsSave, DeletionDeletes, OthersStutter
  <2>3. CASE UNCHANGED vars
    BY <2>3 DEF vars, Committed
  <2>4. QED BY <2>1, <2>2, <2>3 DEF Next
<1>3. QED
  BY <1>1, <1>2, AtomicInvariant, TypeCorrect, PTL DEF Spec, AtomicWrites, Abstract!Spec

------------------------------------------------------------------------------
(* What is linked is described                                             *)

Linked(graph, broken) ==
    \A e \in Entities : <<e, "role">> \notin broken => Roles(e, graph) \subseteq Described(graph)

\* What an entity's payload links to it describes.
LEMMA PayloadDescribes ==
  ASSUME NEW e \in Entities, NEW payload \in Payloads(e),
         NEW o, NEW b \in Bridges, <<o, "role", b>> \in payload
  PROVE  \E t \in payload : t[1] = b
<1>1. PICK roles \in SUBSET Bridges : \E v \in Values : \E agents \in [roles -> Values] :
        payload = Payload(e, v, agents)
  BY DEF Payloads
<1>2. PICK v \in Values : \E agents \in [roles -> Values] : payload = Payload(e, v, agents)
  BY <1>1
<1>3. PICK agents \in [roles -> Values] : payload = Payload(e, v, agents)
  BY <1>2
<1>4. b \in roles
  BY <1>3, GraphAssumptions DEF Payload
<1>5. <<b, "agent", agents[b]>> \in payload
  BY <1>3, <1>4 DEF Payload
<1>6. QED BY <1>5

\* The triples of a bridge are replaced only with its last link.
LEMMA ReplacedLinks ==
  ASSUME NEW graph, NEW e \in Entities, NEW o \in Entities, NEW b \in Bridges, NEW predicates,
         <<o, "role", b>> \in graph, NEW t \in Replaced(e, predicates, graph), t[1] = b
  PROVE  o = e /\ "role" \in predicates
<1>1. t \in BridgeTriples(e, graph) /\ "role" \in predicates
  BY GraphAssumptions DEF Replaced
<1>2. b \in Owned(e, graph)
  BY <1>1 DEF BridgeTriples
<1>3. <<o, "role", b>> = <<e, "role", b>>
  BY <1>2 DEF Owned
<1>4. QED BY <1>1, <1>3

\* A bridge is removed only with its last link, and sent with its description:
\* a save leaves no connection of its entity to nothing, and none of another.
LEMMA SaveKeepsLinked ==
  ASSUME NEW graph, NEW broken, Linked(graph, broken), NEW e \in Entities,
         NEW predicates, NEW payload \in Payloads(e)
  PROVE  Linked((graph \ Replaced(e, predicates, graph)) \union payload,
                broken \ ({e} \X predicates))
<1> DEFINE after == (graph \ Replaced(e, predicates, graph)) \union payload
<1> SUFFICES ASSUME NEW o \in Entities, NEW b \in Bridges, <<o, "role", b>> \in after,
                    <<o, "role">> \notin broken \ ({e} \X predicates)
             PROVE  \E t \in after : t[1] = b
  BY DEF Linked, Roles, Described, About
<1>1. CASE <<o, "role", b>> \in payload
  BY <1>1, PayloadDescribes
<1>2. CASE <<o, "role", b>> \in graph \ Replaced(e, predicates, graph)
  <2>1. ~ (o = e /\ "role" \in predicates)
    BY <1>2 DEF Replaced
  <2>2. <<o, "role">> \notin broken
    BY <2>1
  <2>3. PICK t \in graph : t[1] = b
    BY <1>2, <2>2 DEF Linked, Roles, Described, About
  <2>4. t \notin Replaced(e, predicates, graph)
    BY <1>2, <2>1, <2>3, ReplacedLinks
  <2>5. QED BY <2>3, <2>4
<1>3. QED BY <1>1, <1>2

\* A save that breaks off leaves the connections of other entities alone.
LEMMA TearKeepsLinked ==
  ASSUME NEW graph, NEW broken, Linked(graph, broken), NEW e \in Entities,
         NEW predicates, NEW payload \in Payloads(e), NEW added \in {{}, payload},
         NEW after, graph \ Replaced(e, predicates, graph) \subseteq after,
         added \subseteq after, after \subseteq graph \union added
  PROVE  Linked(after, broken \union ({e} \X predicates))
<1> SUFFICES ASSUME NEW o \in Entities, NEW b \in Bridges, <<o, "role", b>> \in after,
                    <<o, "role">> \notin broken \union ({e} \X predicates)
             PROVE  \E t \in after : t[1] = b
  BY DEF Linked, Roles, Described, About
<1>1. CASE <<o, "role", b>> \in added
  <2>1. \E t \in payload : t[1] = b
    BY <1>1, PayloadDescribes
  <2>2. QED BY <1>1, <2>1
<1>2. CASE <<o, "role", b>> \in graph
  <2>1. ~ (o = e /\ "role" \in predicates)
    OBVIOUS
  <2>2. PICK t \in graph : t[1] = b
    BY <1>2 DEF Linked, Roles, Described, About
  <2>3. t \notin Replaced(e, predicates, graph)
    BY <1>2, <2>1, <2>2, ReplacedLinks
  <2>4. QED BY <2>2, <2>3
<1>3. QED BY <1>1, <1>2

\* A deletion takes no bridge's triples.
LEMMA DeleteKeepsLinked ==
  ASSUME NEW graph, NEW broken, Linked(graph, broken), NEW e \in Entities
  PROVE  Linked(graph \ About(e, graph), broken \ ({e} \X Predicates))
<1> DEFINE after == graph \ About(e, graph)
<1> SUFFICES ASSUME NEW o \in Entities, NEW b \in Bridges, <<o, "role", b>> \in after,
                    <<o, "role">> \notin broken \ ({e} \X Predicates)
             PROVE  \E t \in after : t[1] = b
  BY DEF Linked, Roles, Described, About
<1>1. o # e
  BY DEF About
<1>2. PICK t \in graph : t[1] = b
  BY <1>1 DEF Linked, Roles, Described, About
<1>3. QED BY <1>2, GraphAssumptions DEF About

\* Imported graphs describe the bridges they link.
LEMMA ImportedLinked == ASSUME NEW graph \in Imported PROVE Linked(graph, {})
<1> SUFFICES ASSUME NEW e \in Entities, NEW b \in Roles(e, graph)
             PROVE  About(b, graph) # {}
  BY DEF Linked, Described, Roles
<1>1. b \in Bridges
  BY DEF Roles
<1>2. Cardinality(About(b, graph)) = 1
  BY <1>1 DEF Imported
<1>3. QED BY <1>2, FS_EmptySet

\* After any history of saves and deletions of a single curator, whatever failed
\* in between, every connection of an entity leads to a bridge that the store
\* describes, but where a write of the connections broke off and none followed.
THEOREM LinkedAreDescribed == ASSUME Single PROVE Spec => []LinkedDescribed
<1> DEFINE LinkedInv == Linked(Committed, torn)
<1>1. Init => LinkedInv
  <2> SUFFICES ASSUME Init PROVE LinkedInv
    OBVIOUS
  <2>1. \A w \in Writers : req[w].pc \notin Writing
    BY DEF Init, Idle, Writing
  <2>2. Committed = store /\ store \in Imported /\ torn = {}
    BY <2>1 DEF Init, Committed
  <2>3. QED BY <2>2, ImportedLinked
<1>2. LinkedInv /\ [Abstract!Next]_(Abstract!vars) => LinkedInv'
  <2> SUFFICES ASSUME LinkedInv, [Abstract!Next]_(Abstract!vars) PROVE LinkedInv'
    OBVIOUS
  <2>0. PICK graph, broken : graph = Committed' /\ broken = torn'
    OBVIOUS
  <2>a. SUFFICES Linked(graph, broken)
    BY <2>0 DEF Linked
  <2>1. CASE UNCHANGED Abstract!vars
    BY <2>0, <2>1 DEF Abstract!vars
  <2>2. ASSUME NEW e \in Entities, Abstract!Delete(e) PROVE Linked(graph, broken)
    <3>1. graph = Committed \ About(e, Committed) /\ broken = torn \ ({e} \X Predicates)
      BY <2>0, <2>2, SameGraph DEF Abstract!Delete
    <3>2. QED BY <3>1, DeleteKeepsLinked
  <2>3. ASSUME NEW e \in Entities, NEW predicates \in SUBSET Predicates,
               Abstract!Save(e, predicates)
        PROVE  Linked(graph, broken)
    <3>1. PICK payload \in Payloads(e) :
            /\ graph = (Committed \ Replaced(e, predicates, Committed)) \union payload
            /\ broken = torn \ ({e} \X predicates)
      BY <2>0, <2>3, SameGraph DEF Abstract!Save
    <3>2. QED BY <3>1, SaveKeepsLinked
  <2>4. ASSUME NEW e \in Entities, NEW predicates \in SUBSET Predicates,
               Abstract!Tear(e, predicates)
        PROVE  Linked(graph, broken)
    <3>1. PICK payload \in Payloads(e) : \E added \in {{}, payload} :
            added \subseteq graph /\ graph \subseteq Committed \union added
      BY <2>0, <2>4, SameGraph DEF Abstract!Tear
    <3>2. PICK added \in {{}, payload} :
            added \subseteq graph /\ graph \subseteq Committed \union added
      BY <3>1
    <3>3. /\ Committed \ Replaced(e, predicates, Committed) \subseteq graph
          /\ broken = torn \union ({e} \X predicates)
      BY <2>0, <2>4, SameGraph DEF Abstract!Tear
    <3>4. QED BY <3>2, <3>3, TearKeepsLinked
  <2>5. QED BY <2>1, <2>2, <2>3, <2>4, SameGraph DEF Abstract!Next
<1>3. LinkedInv => LinkedDescribed
  <2> SUFFICES ASSUME LinkedInv, \A w \in Writers : req[w].pc \in {"idle", "form"}
               PROVE  \A e \in Entities :
                         <<e, "role">> \notin torn => Roles(e, store) \subseteq Described(store)
    BY DEF LinkedDescribed
  <2>1. \A w \in Writers : req[w].pc \notin Writing
    BY DEF Writing
  <2>2. Committed = store
    BY <2>1 DEF Committed
  <2>3. QED BY <2>2 DEF Linked
<1>4. QED
  BY <1>1, <1>2, <1>3, WritesAreAtomic, PTL DEF Spec, AtomicWrites, Abstract!Spec

------------------------------------------------------------------------------
(* One form at a time: what a successful save leaves is what was sent,     *)
(* whatever failed before and in which way.  The bridges of a form that no *)
(* other entity links to are linked from its entity, or nothing is left of *)
(* them; and what its snapshot may still load it links itself: so the      *)
(* deletes of the save that succeeds find all that earlier attempts loaded. *)

Mine(r) == Described(r.payload) \union Roles(r.entity, r.loaded)
Alone(r, graph) == Mine(r) \ LinkedByOthers(r.entity, graph)
Undescribed(r, graph) == \A b \in Alone(r, graph) : About(b, graph) = {}
Leftover(r, graph) ==
    \A b \in Alone(r, graph) : b \in Roles(r.entity, graph) \/ About(b, graph) = {}
LinkedIn(e, graph) == \A t \in graph : t[1] \in Bridges => <<e, "role", t[1]>> \in graph

\* Of a request that deletes: what the loop has come to is gone from the graph.
Cleared(r, graph) ==
    /\ r.left \subseteq r.rewritten /\ (r.pc = "unlink" => "role" \in r.left)
    /\ \A p \in r.rewritten \ r.left : With(r.entity, p, graph) = {}
    /\ "role" \in r.rewritten /\ (r.pc = "unlink" \/ "role" \notin r.left) => Undescribed(r, graph)

FormInv(r, graph) ==
    /\ LinkedIn(r.entity, r.existing)
    /\ r.pc # "idle" => r.payload \in Payloads(r.entity) /\ Leftover(r, graph)
    /\ r.pc = "load" => r.rewritten = {}
    /\ r.pc = "snapshot" => r.rewritten # {}
    /\ r.pc \in {"validate", "snapshot"} /\ r.rewritten # {} => r.existing = About(r.entity, graph)
    /\ r.pc \in {"delete", "unlink"} => Cleared(r, graph)

SendInv == \A w \in Writers : FormInv(req[w], store)

\* A form links the bridges it describes.
LEMMA PayloadLinks ==
  ASSUME NEW e \in Entities, NEW payload \in Payloads(e) PROVE LinkedIn(e, payload)
<1>1. PICK roles \in SUBSET Bridges : \E v \in Values : \E agents \in [roles -> Values] :
        payload = Payload(e, v, agents)
  BY DEF Payloads
<1>2. PICK v \in Values : \E agents \in [roles -> Values] : payload = Payload(e, v, agents)
  BY <1>1
<1>3. PICK agents \in [roles -> Values] : payload = Payload(e, v, agents)
  BY <1>2
<1>4. \A t \in payload : \/ t = <<e, "label", v>>
                         \/ \E b \in roles : t = <<e, "role", b>>
                         \/ \E b \in roles : t = <<b, "agent", agents[b]>>
  BY <1>3 DEF Payload
<1>5. e \notin Bridges /\ \A b \in roles : <<e, "role", b>> \in payload
  BY <1>3, GraphAssumptions DEF Payload
<1>6. QED BY <1>4, <1>5 DEF LinkedIn

\* A form that is idle says nothing of the graph.
LEMMA IdleInv == ASSUME NEW graph PROVE FormInv(Idle, graph)
BY DEF Idle, FormInv, LinkedIn

\* A request that ends leaves its form to be sent again, or none.
LEMMA BackInv ==
  ASSUME NEW r \in Requests, NEW graph, r.payload \in Payloads(r.entity), Leftover(r, graph)
  PROVE  FormInv(BackToForm(r), graph)
<1> DEFINE f == [r EXCEPT !.pc = "form", !.left = {}, !.existing = {}, !.before = {},
                          !.applied = {}]
<1>1. CASE r.loaded = {}
  BY <1>1, IdleInv DEF BackToForm
<1>2. CASE r.loaded # {}
  <2>1. /\ BackToForm(r) = f /\ f.pc = "form" /\ f.existing = {} /\ f.entity = r.entity
        /\ f.loaded = r.loaded /\ f.payload = r.payload /\ f.rewritten = r.rewritten
    BY <1>2 DEF BackToForm, Requests
  <2> HIDE DEF f
  <2>2. Leftover(f, graph)
    BY <2>1 DEF Leftover, Alone, Mine
  <2>3. QED BY <2>1, <2>2 DEF FormInv, LinkedIn
<1>3. QED BY <1>1, <1>2

\* Loading triples whose bridges they link themselves.
LEMMA LoadedLeftover ==
  ASSUME NEW r, NEW graph, NEW more, Leftover(r, graph), LinkedIn(r.entity, more)
  PROVE  Leftover(r, graph \union more)
<1> SUFFICES ASSUME NEW b \in Alone(r, graph \union more),
                    b \notin Roles(r.entity, graph \union more)
             PROVE  About(b, graph \union more) = {}
  BY DEF Leftover
<1>1. b \in Bridges /\ b \in Alone(r, graph)
  BY DEF Alone, Mine, Described, Roles, LinkedByOthers
<1>2. b \notin Roles(r.entity, graph) /\ <<r.entity, "role", b>> \notin more
  BY <1>1 DEF Roles
<1>3. About(b, graph) = {}
  BY <1>1, <1>2 DEF Leftover
<1>4. About(b, more) = {}
  BY <1>1, <1>2 DEF LinkedIn, About
<1>5. QED BY <1>3, <1>4 DEF About

\* The entity's own triples and those of bridges: no link of another entity.
OwnTriples(e) == {t \in Triples : t[1] \in {e} \union Bridges}

LEMMA OthersKept ==
  ASSUME NEW e, NEW graph, NEW rest, graph \ rest \subseteq OwnTriples(e), rest \subseteq graph
  PROVE  LinkedByOthers(e, rest) = LinkedByOthers(e, graph)
BY GraphAssumptions DEF LinkedByOthers, OwnTriples

\* Deleting the bridges that only this entity links to leaves none of its own.
LEMMA BridgesGone ==
  ASSUME NEW r, NEW graph \in SUBSET Triples, Leftover(r, graph)
  PROVE  Undescribed(r, graph \ BridgeTriples(r.entity, graph))
<1> DEFINE rest == graph \ BridgeTriples(r.entity, graph)
<1> SUFFICES ASSUME NEW b \in Alone(r, rest), NEW t \in graph, t[1] = b,
                    t \notin BridgeTriples(r.entity, graph)
             PROVE  FALSE
  BY DEF Undescribed, About
<1>0. BridgeTriples(r.entity, graph) \subseteq OwnTriples(r.entity)
  BY DEF BridgeTriples, OwnTriples, Owned, Roles
<1>0a. b \in Alone(r, graph)
  BY <1>0, OthersKept DEF Alone
<1>1. b \in Roles(r.entity, graph)
  BY <1>0a DEF Leftover, About
<1>2. b \in Bridges /\ b \notin LinkedByOthers(r.entity, graph)
  BY <1>0a, <1>1 DEF Roles, Alone
<1>3. ASSUME NEW u \in graph, u[3] = b PROVE u = <<r.entity, "role", b>>
  <2>1. PICK o \in Entities : u = <<o, "role", b>>
    BY <1>2, <1>3, GraphAssumptions DEF Triples
  <2>2. o = r.entity
    BY <1>2, <2>1 DEF LinkedByOthers
  <2>3. QED BY <2>1, <2>2
<1>4. b \in Owned(r.entity, graph)
  BY <1>1, <1>3 DEF Owned
<1>5. QED BY <1>4 DEF BridgeTriples

\* Deletes of the entity's own triples bring no bridge back, nor a predicate.
LEMMA DeletesClear ==
  ASSUME NEW r, NEW graph, NEW rest \in SUBSET graph, graph \ rest \subseteq OwnTriples(r.entity)
  PROVE  /\ Undescribed(r, graph) => Undescribed(r, rest)
         /\ Undescribed(r, rest) => Leftover(r, rest)
         /\ \A p : With(r.entity, p, graph) = {} => With(r.entity, p, rest) = {}
         /\ Cleared(r, graph) => Cleared(r, rest)
<1>1. Alone(r, rest) = Alone(r, graph)
  BY OthersKept DEF Alone
<1>2. Undescribed(r, graph) => Undescribed(r, rest)
  BY <1>1 DEF Undescribed, About
<1>3. \A p : With(r.entity, p, graph) = {} => With(r.entity, p, rest) = {}
  BY DEF With
<1>4. QED BY <1>2, <1>3 DEF Undescribed, Leftover, Cleared

\* Deleting labels leaves the links.
LEMMA LabelsLeft ==
  ASSUME NEW r, NEW graph \in SUBSET Triples, Leftover(r, graph)
  PROVE  Leftover(r, graph \ With(r.entity, "label", graph))
<1> DEFINE rest == graph \ With(r.entity, "label", graph)
<1>1. graph \ rest \subseteq OwnTriples(r.entity) /\ rest \subseteq graph
  BY DEF With, OwnTriples
<1>2. Alone(r, rest) = Alone(r, graph)
  BY <1>1, OthersKept DEF Alone
<1>3. Roles(r.entity, rest) = Roles(r.entity, graph)
  BY DEF Roles, With
<1>4. \A b : About(b, rest) \subseteq About(b, graph)
  BY DEF About
<1> HIDE DEF rest
<1>5. Leftover(r, rest)
  BY <1>2, <1>3, <1>4 DEF Leftover
<1>6. QED BY <1>5 DEF rest

\* A form that is opened: its bridges are the entity's, or new.
LEMMA OpenedInv ==
  ASSUME SendInv, TypeOK, NEW w \in Writers, OpenForm(w) PROVE FormInv(req'[w], store')
<1>1. PICK e \in Entities : \E shown \in Shown(e) : \E payload \in Payloads(e) :
         /\ \A b \in Roles(e, payload) : b \in Roles(e, store) \/ Fresh(b)
         /\ req' = [req EXCEPT ![w] =
                      [Idle EXCEPT !.pc = "form", !.entity = e, !.loaded = About(e, store),
                                   !.payload = payload, !.rewritten = Dirty(e, payload, shown)]]
  BY DEF OpenForm
<1>2. PICK shown \in Shown(e) : \E payload \in Payloads(e) :
         /\ \A b \in Roles(e, payload) : b \in Roles(e, store) \/ Fresh(b)
         /\ req' = [req EXCEPT ![w] =
                      [Idle EXCEPT !.pc = "form", !.entity = e, !.loaded = About(e, store),
                                   !.payload = payload, !.rewritten = Dirty(e, payload, shown)]]
  BY <1>1
<1>3. PICK payload \in Payloads(e) :
         /\ \A b \in Roles(e, payload) : b \in Roles(e, store) \/ Fresh(b)
         /\ req' = [req EXCEPT ![w] =
                      [Idle EXCEPT !.pc = "form", !.entity = e, !.loaded = About(e, store),
                                   !.payload = payload, !.rewritten = Dirty(e, payload, shown)]]
  BY <1>2
<1> DEFINE s == req'[w]
<1>4. /\ s.pc = "form" /\ s.entity = e /\ s.loaded = About(e, store)
      /\ s.payload = payload /\ s.existing = {}
  BY <1>3 DEF TypeOK, Idle
<1>5. store' = store
  BY DEF OpenForm
<1> HIDE DEF s
<1>6. \A b \in Bridges : Fresh(b) => \A t \in store : t[1] # b /\ t[3] # b
  BY DEF Fresh
<1>7. LinkedIn(e, payload)
  BY PayloadLinks
<1>8. Leftover(s, store)
  <2> SUFFICES ASSUME NEW b \in Mine(s), b \notin Roles(e, store) PROVE About(b, store) = {}
    BY <1>4 DEF Leftover, Alone
  <2>1. b \in Described(payload)
    BY <1>4 DEF Mine, Roles, About
  <2>2. b \in Roles(e, payload)
    BY <1>7, <2>1 DEF Described, About, LinkedIn, Roles
  <2>3. QED BY <1>3, <1>6, <2>2 DEF About, Roles
<1>9. QED BY <1>4, <1>5, <1>8 DEF FormInv, LinkedIn, s

\* Every step of the only form keeps what is said of it.
LEMMA WriterSends ==
  ASSUME SendInv, TypeOK, NEW w \in Writers, Writer(w) PROVE FormInv(req'[w], store')
<1> DEFINE r == req[w]  s == req'[w]
<1>1. /\ r \in Requests /\ req \in [Writers -> Requests] /\ FormInv(r, store)
      /\ r.entity \in Entities /\ r.entity \notin Bridges /\ store \in SUBSET Triples
  BY GraphAssumptions DEF SendInv, TypeOK, Requests
<1>3. ASSUME s = BackToForm(r), r.pc # "idle", Leftover(r, store')
      PROVE  FormInv(s, store')
  <2>1. r.payload \in Payloads(r.entity)
    BY <1>1, <1>3 DEF FormInv
  <2>2. QED BY <1>1, <1>3, <2>1, BackInv
<1>4. ASSUME s.entity = r.entity, s.loaded = r.loaded, s.payload = r.payload,
             s.rewritten = r.rewritten, s.existing = r.existing, r.pc # "idle",
             Leftover(r, store'),
             s.pc \in {"delete", "unlink"} => Cleared(s, store'),
             s.pc \in {"rollback", "delete", "unlink"}
      PROVE  FormInv(s, store')
  <2>1. Leftover(s, store')
    BY <1>4 DEF Leftover, Alone, Mine
  <2>2. QED BY <1>1, <1>4, <2>1 DEF FormInv
<1>5. CASE OpenForm(w)
  BY <1>5, OpenedInv
<1>6. CASE CloseForm(w)
  BY <1>1, <1>6, IdleInv DEF CloseForm
<1>7. CASE Arrive(w)
  <2>1. /\ s.entity = r.entity /\ s.loaded = r.loaded /\ s.payload = r.payload
        /\ s.rewritten = r.rewritten /\ s.pc = "validate" /\ store' = store
        /\ s.existing = IF r.rewritten = {} THEN {} ELSE About(r.entity, store)
    BY <1>1, <1>7 DEF Arrive, Requests
  <2>2. LinkedIn(s.entity, s.existing)
    BY <1>1, <2>1 DEF LinkedIn, About
  <2>3. r.payload \in Payloads(r.entity) /\ Leftover(r, store)
    BY <1>1, <1>7 DEF FormInv, Arrive
  <2>4. Leftover(s, store')
    BY <2>1, <2>3 DEF Leftover, Alone, Mine
  <2>5. QED BY <2>1, <2>2, <2>3, <2>4 DEF FormInv
<1>8. CASE Validate(w)
  <2>1. /\ s.entity = r.entity /\ s.loaded = r.loaded /\ s.payload = r.payload
        /\ s.rewritten = r.rewritten /\ s.existing = r.existing /\ store' = store
        /\ (s.pc = "load" /\ r.rewritten = {}) \/ (s.pc = "snapshot" /\ r.rewritten # {})
        /\ r.pc = "validate"
    BY <1>1, <1>8 DEF Validate, Requests
  <2>2. Leftover(s, store')
    BY <1>1, <2>1 DEF FormInv, Leftover, Alone, Mine
  <2>3. QED BY <1>1, <2>1, <2>2 DEF FormInv
<1>9. CASE Reject(w)
  <2>1. s = BackToForm(r) /\ r.pc # "idle" /\ store' = store
    BY <1>1, <1>9 DEF Reject
  <2>2. Leftover(r, store')
    BY <1>1, <2>1 DEF FormInv
  <2>3. QED BY <1>3, <2>1, <2>2
<1>10. CASE SnapshotBridges(w)
  <2>1. /\ s.entity = r.entity /\ s.loaded = r.loaded /\ s.payload = r.payload
        /\ s.rewritten = r.rewritten /\ s.left = r.rewritten /\ store' = store
        /\ s.pc = "delete" /\ s.existing = r.existing \union ToRestore(r)
    BY <1>1, <1>10 DEF SnapshotBridges, Requests
  <2>2. r.pc = "snapshot" /\ r.existing = About(r.entity, store)
    BY <1>1, <1>10 DEF SnapshotBridges, FormInv
  <2>3. LinkedIn(s.entity, s.existing)
    <3> SUFFICES ASSUME NEW t \in s.existing, t[1] \in Bridges
                 PROVE  <<r.entity, "role", t[1]>> \in s.existing
      BY <2>1 DEF LinkedIn
    <3>1. t \in ToRestore(r)
      BY <1>1, <2>1, <2>2 DEF About
    <3>2. <<r.entity, "role", t[1]>> \in store
      BY <3>1 DEF ToRestore, BridgeTriples, Owned, Roles
    <3>3. <<r.entity, "role", t[1]>> \in r.existing
      BY <2>2, <3>2 DEF About
    <3>4. QED BY <2>1, <3>3
  <2>4. Leftover(s, store') /\ s.payload \in Payloads(s.entity)
    BY <1>1, <2>1, <2>2 DEF FormInv, Leftover, Alone, Mine
  <2>5. Cleared(s, store')
    BY <2>1 DEF Cleared
  <2>6. QED BY <2>1, <2>3, <2>4, <2>5 DEF FormInv
<1>11. CASE DeleteBridges(w)
  <2>1. /\ s.entity = r.entity /\ s.loaded = r.loaded /\ s.payload = r.payload
        /\ s.rewritten = r.rewritten /\ s.left = r.left /\ s.existing = r.existing
        /\ s.pc = "unlink" /\ r.pc = "delete" /\ "role" \in r.left
        /\ store' = store \ BridgeTriples(r.entity, store)
    BY <1>1, <1>11 DEF DeleteBridges, Requests, UpdateBridges
  <2>2. Undescribed(r, store')
    <3>1. Leftover(r, store)
      BY <1>1, <2>1 DEF FormInv
    <3>2. QED BY <1>1, <2>1, <3>1, BridgesGone
  <2>3. store' \in SUBSET store /\ store \ store' \subseteq OwnTriples(r.entity)
    BY <1>1, <2>1 DEF BridgeTriples, OwnTriples, Owned, Roles
  <2>4. Leftover(r, store') /\ Cleared(r, store')
    <3>1. Cleared(r, store)
      BY <1>1, <2>1 DEF FormInv
    <3>2. QED BY <2>2, <2>3, <3>1, DeletesClear
  <2>5. Cleared(s, store')
    BY <2>1, <2>2, <2>4 DEF Cleared, Undescribed, Alone, Mine
  <2>6. QED BY <1>4, <2>1, <2>4, <2>5
<1>12. CASE DeleteLinks(w)
  <2>1. /\ s.entity = r.entity /\ s.loaded = r.loaded /\ s.payload = r.payload
        /\ s.rewritten = r.rewritten /\ s.left = r.left \ {"role"} /\ s.existing = r.existing
        /\ s.pc = "delete" /\ r.pc = "unlink"
        /\ store' = store \ With(r.entity, "role", store)
    BY <1>1, <1>12 DEF DeleteLinks, Requests, UpdateLinks
  <2>2. /\ store' \in SUBSET store /\ store \ store' \subseteq OwnTriples(r.entity)
        /\ With(r.entity, "role", store') = {}
    BY <1>1, <2>1 DEF With, OwnTriples
  <2>3. Cleared(r, store')
    <3>1. Cleared(r, store)
      BY <1>1, <2>1 DEF FormInv
    <3>2. QED BY <2>2, <3>1, DeletesClear
  <2>4. Undescribed(r, store')
    BY <2>1, <2>3 DEF Cleared
  <2>5. Leftover(r, store')
    BY <2>2, <2>4, DeletesClear
  <2>6. Cleared(s, store')
    BY <2>1, <2>2, <2>3, <2>4 DEF Cleared, Undescribed, Alone, Mine
  <2>7. QED BY <1>4, <2>1, <2>5, <2>6
<1>13. CASE DeleteLabels(w)
  <2>1. /\ s.entity = r.entity /\ s.loaded = r.loaded /\ s.payload = r.payload
        /\ s.rewritten = r.rewritten /\ s.left = r.left \ {"label"} /\ s.existing = r.existing
        /\ s.pc = "delete" /\ r.pc = "delete"
        /\ store' = store \ With(r.entity, "label", store)
    BY <1>1, <1>13 DEF DeleteLabels, Requests, UpdateLabels
  <2>2. /\ store' \in SUBSET store /\ store \ store' \subseteq OwnTriples(r.entity)
        /\ With(r.entity, "label", store') = {}
    BY <1>1, <2>1 DEF With, OwnTriples
  <2>3. Cleared(r, store')
    <3>1. Cleared(r, store)
      BY <1>1, <2>1 DEF FormInv
    <3>2. QED BY <2>2, <3>1, DeletesClear
  <2>4. Leftover(r, store')
    <3>1. Leftover(r, store)
      BY <1>1, <2>1 DEF FormInv
    <3>2. QED BY <1>1, <2>1, <3>1, LabelsLeft
  <2>5. Cleared(s, store')
    BY <2>1, <2>2, <2>3 DEF Cleared, Undescribed, Alone, Mine
  <2>6. QED BY <1>4, <2>1, <2>4, <2>5
<1>14. CASE Load(w)
  <2>1. s = Idle
    BY <1>1, <1>14 DEF Load
  <2>2. QED BY <2>1, IdleInv
<1>15. CASE DeleteFails(w)
  <2>1. s = BackToForm(r) /\ r.pc \in {"delete", "unlink"}
    BY <1>1, <1>15 DEF DeleteFails, Updates
  <2>2. Leftover(r, store) /\ Cleared(r, store)
    BY <1>1, <2>1 DEF FormInv
  <2>3. CASE store' = store
    BY <1>3, <2>1, <2>2, <2>3
  <2>4. CASE store' = store \ UpdateBridges(r)
    <3>1. Undescribed(r, store')
      BY <1>1, <2>2, <2>4, BridgesGone DEF UpdateBridges
    <3>2. store' \in SUBSET store /\ store \ store' \subseteq OwnTriples(r.entity)
      BY <1>1, <2>4 DEF UpdateBridges, BridgeTriples, OwnTriples, Owned, Roles
    <3>3. Leftover(r, store')
      BY <3>1, <3>2, DeletesClear
    <3>4. QED BY <1>3, <2>1, <3>3
  <2>5. CASE store' = store \ UpdateLabels(r)
    <3>1. Leftover(r, store')
      BY <1>1, <2>2, <2>5, LabelsLeft DEF UpdateLabels
    <3>2. QED BY <1>3, <2>1, <3>1
  <2>6. CASE r.pc = "unlink" /\ store' = store \ UpdateLinks(r)
    <3>1. store' \in SUBSET store /\ store \ store' \subseteq OwnTriples(r.entity)
      BY <1>1, <2>6 DEF UpdateLinks, With, OwnTriples
    <3>2. Undescribed(r, store)
      BY <2>2, <2>6 DEF Cleared
    <3>3. Leftover(r, store')
      BY <3>1, <3>2, DeletesClear
    <3>4. QED BY <1>3, <2>1, <3>3
  <2>7. QED BY <1>15, <2>1, <2>3, <2>4, <2>5, <2>6 DEF DeleteFails, Updates
<1>16. CASE LoadFails(w)
  <2>1. PICK applied \in {{}, r.payload} : store' = store \union applied /\ LoadEnds(w, applied)
    BY <1>16 DEF LoadFails
  <2>2. r.pc \in {"load", "delete"}
    BY <1>16 DEF LoadFails, ReadyToLoad
  <2>3. Leftover(r, store')
    <3>1. Leftover(r, store) /\ LinkedIn(r.entity, r.payload)
      BY <1>1, <2>2, PayloadLinks DEF FormInv
    <3>2. LinkedIn(r.entity, applied)
      BY <2>1, <3>1 DEF LinkedIn
    <3>3. QED BY <2>1, <3>1, <3>2, LoadedLeftover
  <2>4. CASE r.existing # {}
    <3>1. /\ s.entity = r.entity /\ s.loaded = r.loaded /\ s.payload = r.payload
          /\ s.rewritten = r.rewritten /\ s.existing = r.existing /\ s.pc = "rollback"
      BY <1>1, <2>1, <2>4 DEF LoadEnds, Requests
    <3>2. QED BY <1>4, <2>2, <2>3, <3>1
  <2>5. CASE r.existing = {}
    <3>1. s = BackToForm(r)
      BY <1>1, <2>1, <2>5 DEF LoadEnds
    <3>2. QED BY <1>3, <2>2, <2>3, <3>1
  <2>6. QED BY <2>4, <2>5
<1>17. CASE Rollback(w) \/ RollbackFails(w)
  <2>1. s = BackToForm(r) /\ r.pc = "rollback" /\ store' \in {store, store \union r.existing}
    BY <1>1, <1>17 DEF Rollback, RollbackFails
  <2>2. Leftover(r, store')
    <3>1. Leftover(r, store) /\ LinkedIn(r.entity, r.existing)
      BY <1>1, <2>1 DEF FormInv
    <3>2. QED BY <2>1, <3>1, LoadedLeftover
  <2>3. QED BY <1>3, <2>1, <2>2
<1>18. CASE DeleteEntity(w)
  <2>1. s = r /\ r.pc = "idle"
    BY <1>18 DEF DeleteEntity
  <2>2. QED BY <1>1, <2>1 DEF FormInv
<1>19. QED
  BY <1>5, <1>6, <1>7, <1>8, <1>9, <1>10, <1>11, <1>12, <1>13, <1>14, <1>15, <1>16, <1>17,
     <1>18 DEF Writer

LEMMA StepSends == ASSUME Single, SendInv, TypeOK, [Next]_vars PROVE SendInv'
<1> SUFFICES ASSUME NEW u \in Writers PROVE FormInv(req'[u], store')
  BY DEF SendInv
<1>1. CASE Crash
  <2> DEFINE r == req[u]
  <2>1. store' = store /\ req'[u] = IF r.pc \in {"idle", "form"} THEN r ELSE BackToForm(r)
    BY <1>1 DEF Crash
  <2>2. r \in Requests /\ FormInv(r, store)
    BY DEF SendInv, TypeOK
  <2>3. CASE r.pc \notin {"idle", "form"}
    <3>1. r.payload \in Payloads(r.entity) /\ Leftover(r, store)
      BY <2>2, <2>3 DEF FormInv
    <3>2. QED BY <2>1, <2>2, <2>3, <3>1, BackInv
  <2>4. QED BY <2>1, <2>2, <2>3
<1>2. ASSUME NEW w \in Writers, Writer(w) PROVE FormInv(req'[u], store')
  <2>1. w = u
    BY DEF Single
  <2>2. QED BY <1>2, <2>1, WriterSends
<1>3. CASE UNCHANGED vars
  BY <1>3 DEF vars, SendInv
<1>4. QED BY <1>1, <1>2, <1>3 DEF Next

\* What was edited is gone, and nothing is left of its bridges, when a save loads.
LEMMA LoadLeavesSent ==
  ASSUME SendInv, TypeOK, NEW w \in Writers, Load(w) PROVE AsSent(req[w])
<1> DEFINE r == req[w]
<1>1. FormInv(r, store) /\ store' = store \union r.payload
  BY DEF SendInv, Load
<1>2. CASE r.pc = "load"
  BY <1>1, <1>2 DEF FormInv, AsSent
<1>3. CASE r.pc = "delete" /\ r.left = {}
  <2>1. Cleared(r, store)
    BY <1>1, <1>3 DEF FormInv
  <2>2. \A p \in r.rewritten : With(r.entity, p, store') = With(r.entity, p, r.payload)
    BY <1>1, <1>3, <2>1 DEF Cleared, With
  <2>3. "role" \in r.rewritten =>
           \A b \in Alone(r, store) : About(b, store') = About(b, r.payload)
    BY <1>1, <1>3, <2>1 DEF Cleared, Undescribed, About
  <2>4. QED BY <2>2, <2>3 DEF AsSent, Alone, Mine
<1>4. QED BY <1>2, <1>3 DEF Load, ReadyToLoad

\* For one form at a time: a save that succeeds leaves exactly what was sent of
\* each edited predicate and of the bridges that were sent or removed and that
\* no other entity links to, after any number of attempts that failed in any way.
THEOREM SavesAreAsSent == ASSUME Single PROVE Spec => SavedAsSent
<1>1. Init => SendInv
  BY IdleInv DEF Init, SendInv
<1>2. SendInv /\ TypeOK /\ [Next]_vars => SendInv'
  BY StepSends
<1>3. SendInv /\ TypeOK => [\A w \in Writers : Load(w) => AsSent(req[w])]_vars
  BY LoadLeavesSent
<1>4. QED
  BY <1>1, <1>2, <1>3, TypeCorrect, PTL DEF Spec, SavedAsSent
==============================================================================
