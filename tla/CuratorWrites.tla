---------------------------- MODULE CuratorWrites ----------------------------
(***************************************************************************)
(* The curator backend's side of the digital-copy life cycle: staging an   *)
(* upload, POST /entities with file nodes in its payload, and DELETE       *)
(* /entities.  FastAPI runs each request in a thread of its own, and every *)
(* call to the store or to the bucket is an HTTP request of its own, so a  *)
(* request is a sequence of steps between which anything may happen.       *)
(***************************************************************************)
EXTENDS FileState

CONSTANT Writers     \* the threads that serve POST /entities

ASSUME EntitiesAssumption == Entities # {}

VARIABLE req         \* req[w]: what thread w is working on

Phases == {"idle", "reconcile", "validate", "unlink", "load", "rollback",
           "promote"}

\* create: no originalTriples.  edit: originalTriples without the link
\* predicate.  relink: originalTriples with it, so the old links are deleted.
Kinds == {"create", "edit", "relink"}

Idle == [pc |-> "idle", kind |-> "create", entity |-> CHOOSE e \in Entities : TRUE,
         files |-> {},       \* file nodes in the payload
         todo |-> {},        \* those _reconcile_digital_copies has not seen yet
         promote |-> {},     \* staged ones, to move after the persist
         copied |-> {},      \* the one whose move() is half done
         snapshot |-> {}]    \* links of the entity when the request began

Requests == [pc : Phases, kind : Kinds, entity : Entities,
             files : SUBSET Files, todo : SUBSET Files,
             promote : SUBSET Files, copied : SUBSET Files,
             snapshot : SUBSET Files]

WritersTypeOK == req \in [Writers -> Requests]

WritersInit == req = [w \in Writers |-> Idle]

AllIdle == \A w \in Writers : req[w].pc = "idle"

------------------------------------------------------------------------------
\* POST /files/staged: the bytes go under a fresh id; no triple is written.

StageFile(f) ==
    /\ f \notin minted
    /\ minted' = minted \union {f}
    /\ PutStaged(f)
    /\ UNCHANGED <<rdfVars, faults, req>>

\* POST /entities arrives; an update reads its rollback snapshot first.
BeginWrite(w) ==
    /\ req[w].pc = "idle"
    /\ \E kind \in Kinds, e \in Entities, files \in SUBSET minted :
          req' = [req EXCEPT ![w] =
                    [Idle EXCEPT !.pc = "reconcile", !.kind = kind, !.entity = e,
                                 !.files = files, !.todo = files,
                                 !.snapshot = IF kind = "create" THEN {}
                                              ELSE links[e]]]
    /\ UNCHANGED fileVars

\* _reconcile_digital_copies, one node.  With an object under registered/ its
\* metadata is stripped from the payload: the store's is authoritative.
ReconcileRegistered(w) ==
    /\ req[w].pc = "reconcile"
    /\ \E f \in req[w].todo \intersect registered :
          req' = [req EXCEPT ![w].todo = @ \ {f}]
    /\ UNCHANGED fileVars

\* Otherwise, with a staged object, it is re-derived from the bytes, and the
\* file is one to promote.
AnyUnregistered(w) == req[w].todo \ registered                        \* mutant
StagedOnly(w) == req[w].todo \intersect (staged \ registered)

ReconcileStaged(w) ==
    /\ req[w].pc = "reconcile"
    /\ \E f \in StagedOnly(w) :
          req' = [req EXCEPT ![w].todo = @ \ {f}, ![w].promote = @ \union {f}]
    /\ UNCHANGED fileVars

ReconcileDone(w) ==
    /\ req[w].pc = "reconcile"
    /\ req[w].todo = {}
    /\ req' = [req EXCEPT ![w].pc = "validate"]
    /\ UNCHANGED fileVars

\* The request ends before it wrote anything: 422 for a file with no object or
\* malformed JSON-LD, 503 from a store or storage call, or a SHACL violation.
Reject(w) ==
    /\ req[w].pc \in {"reconcile", "validate"}
    /\ req' = [req EXCEPT ![w] = Idle]
    /\ UNCHANGED fileVars

\* The nodes the validation graph merges for w: the payload's, and on a create
\* (the entity itself is a seed) those the entity already links to.
InScope(w) ==
    req[w].files \union (IF req[w].kind = "create" THEN links[req[w].entity] ELSE {})

\* DigitalCopyShape holds of the merged graph: every node in scope is typed
\* and has its metadata, from the payload or from the store.
AllConforms(w) == TRUE                                                \* mutant
Conforms(w) ==
    \A f \in InScope(w) : \/ f \in req[w].promote
                          \/ f \in described /\ f \in req[w].files \union typed

PromoteFirst(kind) == "promote"                                       \* mutant
AfterValidate(kind) == IF kind = "relink" THEN "unlink" ELSE "load"

Validate(w) ==
    /\ req[w].pc = "validate"
    /\ Conforms(w)
    /\ req' = [req EXCEPT ![w].pc = AfterValidate(req[w].kind)]
    /\ UNCHANGED fileVars

\* The predicates of originalTriples are deleted, the link predicate with them.
Unlink(w) ==
    /\ req[w].pc = "unlink"
    /\ DeleteLinks(req[w].entity)
    /\ req' = [req EXCEPT ![w].pc = "load"]
    /\ UNCHANGED <<minted, objectVars, faults>>

\* That update fails: no handler, so the request ends (500) with no rollback.
UnlinkFails(w) ==
    /\ req[w].pc = "unlink"
    /\ Fault
    /\ DeleteLinks(req[w].entity) \/ UNCHANGED rdfVars
    /\ req' = [req EXCEPT ![w] = Idle]
    /\ UNCHANGED <<minted, objectVars>>

Load(w) ==
    /\ req[w].pc = "load"
    /\ LoadPayload(req[w].entity, req[w].files, req[w].promote)
    /\ req' = [req EXCEPT ![w] = [Idle EXCEPT !.pc = "promote", !.promote = req[w].promote]]
    /\ UNCHANGED <<minted, objectVars, faults>>

\* load_turtle raises, whether or not the store applied it (a read timeout).
LoadFails(w) ==
    /\ req[w].pc = "load"
    /\ Fault
    /\ \/ LoadPayload(req[w].entity, req[w].files, req[w].promote)
       \/ UNCHANGED rdfVars
    /\ req' = IF req[w].snapshot = {} THEN [req EXCEPT ![w] = Idle]
              ELSE [req EXCEPT ![w].pc = "rollback"]
    /\ UNCHANGED <<minted, objectVars>>

\* The snapshot is loaded back, then the request answers 503.
Rollback(w) ==
    /\ req[w].pc = "rollback"
    /\ LoadLinks(req[w].entity, req[w].snapshot)
    /\ req' = [req EXCEPT ![w] = Idle]
    /\ UNCHANGED <<minted, objectVars, faults>>

RollbackFails(w) ==
    /\ req[w].pc = "rollback"
    /\ Fault
    /\ LoadLinks(req[w].entity, req[w].snapshot) \/ UNCHANGED rdfVars
    /\ req' = [req EXCEPT ![w] = Idle]
    /\ UNCHANGED <<minted, objectVars>>

------------------------------------------------------------------------------
(* _promote_staged_files: one move() per file; a failed one is logged and  *)
(* the loop goes on to the next.                                           *)

PromoteCopy(w) ==
    /\ req[w].pc = "promote" /\ req[w].copied = {}
    /\ \E f \in req[w].promote :
          /\ CopyToRegistered(f)
          /\ req' = [req EXCEPT ![w].copied = {f}]
    /\ UNCHANGED <<minted, rdfVars, faults>>

PromoteDelete(w) ==
    /\ req[w].pc = "promote"
    /\ \E f \in req[w].copied :
          /\ DeleteStaged(f)
          /\ req' = [req EXCEPT ![w].copied = {}, ![w].promote = @ \ {f}]
    /\ UNCHANGED <<minted, rdfVars, faults>>

\* copy_object finds no staged object: someone else moved or deleted it.
PromoteMissing(w) ==
    /\ req[w].pc = "promote" /\ req[w].copied = {}
    /\ \E f \in req[w].promote \ staged :
          req' = [req EXCEPT ![w].promote = @ \ {f}]
    /\ UNCHANGED fileVars

\* copy_object or delete_object raises, having been applied or not.
PromoteFails(w) ==
    /\ req[w].pc = "promote"
    /\ Fault
    /\ \E f \in IF req[w].copied = {} THEN req[w].promote ELSE req[w].copied :
          /\ \/ req[w].copied = {} /\ CopyToRegistered(f)
             \/ req[w].copied = {f} /\ DeleteStaged(f)
             \/ UNCHANGED objectVars
          /\ req' = [req EXCEPT ![w].copied = {}, ![w].promote = @ \ {f}]
    /\ UNCHANGED <<minted, rdfVars>>

FinishWrite(w) ==
    /\ req[w].pc = "promote" /\ req[w].promote = {}
    /\ req' = [req EXCEPT ![w] = Idle]
    /\ UNCHANGED fileVars

------------------------------------------------------------------------------
\* DELETE /entities: one update; file nodes and objects are left to cleanup.
DeleteEntity(e) ==
    /\ DeleteLinks(e)
    /\ UNCHANGED <<minted, objectVars, faults, req>>

\* The backend dies: every request in flight is gone, its steps are not undone.
CuratorCrash ==
    /\ ~AllIdle
    /\ Fault
    /\ req' = [w \in Writers |-> Idle]
    /\ UNCHANGED <<minted, objectVars, rdfVars>>

WriterStep(w) ==
    \/ ReconcileRegistered(w) \/ ReconcileStaged(w) \/ ReconcileDone(w)
    \/ Reject(w) \/ Validate(w)
    \/ Unlink(w) \/ UnlinkFails(w) \/ Load(w) \/ LoadFails(w)
    \/ Rollback(w) \/ RollbackFails(w)
    \/ PromoteCopy(w) \/ PromoteDelete(w) \/ PromoteMissing(w)
    \/ PromoteFails(w) \/ FinishWrite(w)
==============================================================================
