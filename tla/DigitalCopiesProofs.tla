------------------------- MODULE DigitalCopiesProofs -------------------------
(***************************************************************************)
(* Machine-checked proofs about DigitalCopies, for every set of files,     *)
(* entities and writers and every number of failures.                      *)
(***************************************************************************)
EXTENDS DigitalCopies, TLAPS

\* The idle request is a request: the one use of Entities being non-empty.
LEMMA IdleType == Idle \in Requests
  BY EntitiesAssumption DEF Idle, Requests, Phases, Kinds

\* The initial state is well typed.
LEMMA InitType == Init => TypeOK
  BY IdleType, MaxFaultsAssumption
  DEF Init, TypeOK, FileInit, FileTypeOK, WritersInit, WritersTypeOK,
      CleanerInit, CleanerTypeOK, Stopped, CleanerPhases

\* A failure is counted within the bound.
LEMMA FaultType == ASSUME faults \in 0..MaxFaults, Fault PROVE faults' \in 0..MaxFaults
  BY MaxFaultsAssumption DEF Fault

\* Every step of a request keeps every variable within its type.
LEMMA WriterStepType ==
  ASSUME TypeOK, NEW w \in Writers, WriterStep(w), UNCHANGED <<cleaner, contested>>
  PROVE  TypeOK'
<1> USE DEF TypeOK, FileTypeOK, WritersTypeOK, CleanerTypeOK, Requests, Phases
<1>0. req[w] \in Requests
  BY DEF Requests
<1>1. CASE ReconcileRegistered(w)
  <2>1. PICK f \in req[w].todo : req' = [req EXCEPT ![w].todo = @ \ {f}]
    BY <1>1 DEF ReconcileRegistered
  <2>2. WritersTypeOK'
    BY <1>0, <2>1
  <2>3. QED BY <2>2, <1>1 DEF ReconcileRegistered, fileVars
<1>1a. CASE ReconcileStaged(w)
  <2>1. PICK f \in req[w].todo :
          req' = [req EXCEPT ![w].todo = @ \ {f}, ![w].promote = @ \union {f}]
    BY <1>1a DEF ReconcileStaged, StagedOnly
  <2>2. WritersTypeOK'
    BY <1>0, <2>1
  <2>3. QED BY <2>2, <1>1a DEF ReconcileStaged, StagedOnly, fileVars
<1>2. CASE ReconcileDone(w)
  BY <1>0, <1>2 DEF ReconcileDone, fileVars
<1>3. CASE Reject(w)
  BY <1>0, <1>3, IdleType DEF Reject, fileVars
<1>4. CASE Validate(w)
  BY <1>0, <1>4 DEF Validate, AfterValidate, fileVars
<1>5. CASE Unlink(w)
  <2>1. WritersTypeOK'
    BY <1>0, <1>5 DEF Unlink
  <2>2. QED BY <2>1, <1>5 DEF Unlink, DeleteLinks, objectVars
<1>6. CASE UnlinkFails(w)
  <2>1. WritersTypeOK'
    BY <1>0, <1>6, IdleType DEF UnlinkFails
  <2>2. QED BY <2>1, <1>6, FaultType DEF UnlinkFails, DeleteLinks, objectVars, rdfVars
<1>7. CASE Load(w)
  BY <1>0, <1>7, IdleType DEF Load, LoadPayload, objectVars, Idle
<1>8. CASE LoadFails(w)
  <2>1. WritersTypeOK'
    <3>1. CASE req[w].snapshot = {}
      BY <1>0, <1>8, <3>1, IdleType DEF LoadFails
    <3>2. CASE req[w].snapshot # {}
      BY <1>0, <1>8, <3>2 DEF LoadFails
    <3>3. QED BY <3>1, <3>2
  <2>2. QED BY <2>1, <1>0, <1>8, FaultType DEF LoadFails, LoadPayload, objectVars, rdfVars
<1>9. CASE Rollback(w)
  BY <1>0, <1>9, IdleType DEF Rollback, LoadLinks, objectVars, nodeVars
<1>10. CASE RollbackFails(w)
  <2>1. WritersTypeOK'
    BY <1>0, <1>10, IdleType DEF RollbackFails
  <2>2. QED BY <2>1, <1>0, <1>10, FaultType
             DEF RollbackFails, LoadLinks, objectVars, nodeVars, rdfVars
<1>11. CASE PromoteCopy(w)
  BY <1>0, <1>11 DEF PromoteCopy, CopyToRegistered, rdfVars
<1>12. CASE PromoteDelete(w)
  <2>1. PICK f \in req[w].copied :
          /\ DeleteStaged(f)
          /\ req' = [req EXCEPT ![w].copied = {}, ![w].promote = @ \ {f}]
    BY <1>12 DEF PromoteDelete
  <2>2. WritersTypeOK'
    BY <1>0, <2>1
  <2>3. QED BY <2>1, <2>2, <1>12 DEF PromoteDelete, DeleteStaged, rdfVars
<1>13. CASE PromoteMissing(w)
  <2>1. PICK f \in req[w].promote \ staged :
          req' = [req EXCEPT ![w].promote = @ \ {f}]
    BY <1>13 DEF PromoteMissing
  <2>2. WritersTypeOK'
    BY <1>0, <2>1
  <2>3. QED BY <2>2, <1>13 DEF PromoteMissing, fileVars
<1>14. CASE PromoteFails(w)
  <2>1. PICK f \in Files :
          /\ \/ CopyToRegistered(f)
             \/ DeleteStaged(f)
             \/ UNCHANGED objectVars
          /\ req' = [req EXCEPT ![w].copied = {}, ![w].promote = @ \ {f}]
    BY <1>0, <1>14 DEF PromoteFails
  <2>2. WritersTypeOK'
    BY <1>0, <2>1
  <2>3. FileTypeOK'
    BY <2>1, <1>14, FaultType DEF PromoteFails, CopyToRegistered, DeleteStaged, objectVars, rdfVars
  <2>4. QED BY <2>2, <2>3
<1>15. CASE FinishWrite(w)
  <2>1. WritersTypeOK'
    BY <1>0, <1>15, IdleType DEF FinishWrite
  <2>2. QED BY <2>1, <1>15 DEF FinishWrite, fileVars
<1>q. QED
  BY <1>1, <1>1a, <1>2, <1>3, <1>4, <1>5, <1>6, <1>7, <1>8, <1>9, <1>10, <1>11, <1>12,
     <1>13, <1>14, <1>15 DEF WriterStep

\* Every step of the cleanup script keeps every variable within its type.
LEMMA CleanerStepType ==
  ASSUME TypeOK, CleanerStep \/ CleanupAborts, UNCHANGED <<req, contested>>
  PROVE  TypeOK'
<1> USE DEF TypeOK, FileTypeOK, WritersTypeOK, CleanerTypeOK, CleanerPhases, Stopped
<1>1. CASE ReadTyped
  BY <1>1 DEF ReadTyped, ToPurge, fileVars
<1>2. CASE ListStaged
  BY <1>2 DEF ListStaged, ToPromote, ToExpire, fileVars
<1>3. CASE ListRegistered
  BY <1>3 DEF ListRegistered, ToCollect, fileVars
<1>4. CASE PurgeNode
  <2>1. PICK f \in cleaner.purge :
          /\ DeleteNode(f)
          /\ cleaner' = [cleaner EXCEPT !.pc = "purgeObject", !.current = {f}]
    BY <1>4 DEF PurgeNode
  <2>2. CleanerTypeOK'
    BY <2>1
  <2>3. QED BY <2>1, <2>2, <1>4 DEF PurgeNode, DeleteNode, objectVars
<1>5. CASE PurgeObject
  <2>1. PICK f \in cleaner.current :
          /\ DeleteRegistered(f)
          /\ cleaner' = [cleaner EXCEPT !.pc = "sweep", !.current = {},
                                        !.purge = @ \ {f}]
    BY <1>5 DEF PurgeObject
  <2>2. CleanerTypeOK'
    BY <2>1
  <2>3. QED BY <2>1, <2>2, <1>5 DEF PurgeObject, DeleteRegistered, rdfVars
<1>6. CASE CheckPromote
  <2>1. PICK f \in cleaner.promote :
          \/ cleaner' = [cleaner EXCEPT !.pc = "drop", !.current = {f}]
          \/ cleaner' = [cleaner EXCEPT !.pc = "copy", !.current = {f}]
    BY <1>6 DEF CheckPromote, DropOrCopy
  <2>2. CleanerTypeOK'
    <3>1. CASE cleaner' = [cleaner EXCEPT !.pc = "drop", !.current = {f}]
      BY <3>1
    <3>2. CASE cleaner' = [cleaner EXCEPT !.pc = "copy", !.current = {f}]
      BY <3>2
    <3>3. QED BY <2>1, <3>1, <3>2
  <2>3. QED BY <2>2, <1>6 DEF CheckPromote, DropOrCopy, fileVars
<1>7. CASE MoveCopy
  <2>1. PICK f \in cleaner.current : CopyToRegistered(f)
    BY <1>7 DEF MoveCopy
  <2>2. CleanerTypeOK'
    BY <1>7 DEF MoveCopy
  <2>3. QED BY <2>1, <2>2, <1>7 DEF MoveCopy, CopyToRegistered, rdfVars
<1>8. CASE DropStaged
  <2>1. PICK f \in cleaner.current :
          /\ DeleteStaged(f)
          /\ cleaner' = [cleaner EXCEPT !.pc = "sweep", !.current = {},
                                        !.promote = @ \ {f}]
    BY <1>8 DEF DropStaged
  <2>2. CleanerTypeOK'
    BY <2>1
  <2>3. QED BY <2>1, <2>2, <1>8 DEF DropStaged, DeleteStaged, rdfVars
<1>9. CASE ExpireStaged
  BY <1>9 DEF ExpireStaged, DeleteStaged, rdfVars
<1>10. CASE CollectRegistered
  BY <1>10 DEF CollectRegistered, DeleteRegistered, rdfVars
<1>11. CASE FinishCleanup \/ MoveMissing
  BY <1>11 DEF FinishCleanup, MoveMissing, fileVars
<1>12. CASE CleanupAborts
  BY <1>12, FaultType DEF CleanupAborts, objectVars, rdfVars
<1>13. QED
  BY <1>1, <1>2, <1>3, <1>4, <1>5, <1>6, <1>7, <1>8, <1>9, <1>10, <1>11, <1>12
  DEF CleanerStep

\* Every variable stays within its type, in every behaviour.
THEOREM TypeCorrect == Spec => []TypeOK
<1>1. TypeOK /\ [Next]_vars => TypeOK'
  <2> SUFFICES ASSUME TypeOK, [Next]_vars PROVE TypeOK'
    OBVIOUS
  <2> USE DEF TypeOK, FileTypeOK, WritersTypeOK, CleanerTypeOK
  <2>1. ASSUME NEW f \in Files, StageFile(f), UNCHANGED <<cleaner, contested>> PROVE TypeOK'
    BY <2>1 DEF StageFile, PutStaged, rdfVars
  <2>2. ASSUME NEW f \in Files, AgeObject(f) PROVE TypeOK'
    BY <2>2 DEF AgeObject, Age, rdfVars
  <2>3. ASSUME NEW e \in Entities, DeleteEntity(e), UNCHANGED <<cleaner, contested>> PROVE TypeOK'
    BY <2>3 DEF DeleteEntity, DeleteLinks, objectVars
  <2>4. ASSUME NEW w \in Writers, StartWrite(w) PROVE TypeOK'
    <3>1. WritersTypeOK'
      <4>1. PICK kind \in Kinds, e \in Entities, files \in SUBSET minted,
                 links0 \in SUBSET Files :
              req' = [req EXCEPT ![w] =
                        [Idle EXCEPT !.pc = "reconcile", !.kind = kind, !.entity = e,
                                     !.files = files, !.todo = files,
                                     !.snapshot = links0]]
        BY <2>4 DEF StartWrite, BeginWrite
      <4>2. QED BY <4>1, IdleType DEF Requests, Phases, Idle
    <3>2. contested' \in SUBSET Files
      BY <2>4 DEF StartWrite, Contest, Condemned
    <3>3. QED BY <3>1, <3>2, <2>4 DEF StartWrite, BeginWrite, fileVars
  <2>5. ASSUME NEW w \in Writers, WriterStep(w), UNCHANGED <<cleaner, contested>> PROVE TypeOK'
    BY <2>5, WriterStepType
  <2>6. CASE CuratorCrash /\ UNCHANGED <<cleaner, contested>>
    BY <2>6, IdleType, FaultType DEF CuratorCrash, objectVars, rdfVars
  <2>7. CASE StartCleanup
    <3>1. contested' \in SUBSET Files
      BY <2>7 DEF StartCleanup, Contest, Condemned
    <3>2. QED BY <2>7, <3>1 DEF StartCleanup, ReadLinked, Stopped, CleanerPhases, Linked, fileVars
  <2>8. CASE (CleanerStep \/ CleanupAborts) /\ UNCHANGED <<req, contested>>
    BY <2>8, CleanerStepType
  <2>9. CASE UNCHANGED vars
    BY <2>9 DEF vars, fileVars
  <2>10. QED
    BY <2>1, <2>2, <2>3, <2>4, <2>5, <2>6, <2>7, <2>8, <2>9 DEF Next
<1>2. QED
  BY InitType, <1>1, PTL DEF Spec

------------------------------------------------------------------------------
(* An object under registered/ was published.                              *)
(*                                                                         *)
(* registered/ grows at the two copies only, of files that a request is    *)
(* promoting or that the script found linked.  So the invariant has to say *)
(* where those two sets come from: a request promotes after its load, and  *)
(* only files of the payload it loaded; the script saw the link.           *)

RequestPublished(w) ==
    /\ req[w].snapshot \subseteq published
    /\ IF req[w].pc = "promote" THEN req[w].promote \subseteq published
       ELSE req[w].todo \subseteq req[w].files /\ req[w].promote \subseteq req[w].files

CleanerPublished ==
    /\ cleaner.linked \subseteq published
    /\ cleaner.promote \subseteq published
    /\ cleaner.pc = "copy" => cleaner.current \subseteq published

PublicationInv ==
    /\ TypeOK
    /\ registered \subseteq published
    /\ \A e \in Entities : links[e] \subseteq published
    /\ \A w \in Writers : RequestPublished(w)
    /\ CleanerPublished

\* A step of one request leaves the records of the others alone.
LEMMA WriterFrame ==
  ASSUME TypeOK, NEW w \in Writers, WriterStep(w), NEW v \in Writers, v # w
  PROVE  req'[v] = req[v]
  BY DEF TypeOK, WritersTypeOK, WriterStep, ReconcileRegistered, ReconcileStaged,
         ReconcileDone, Reject, Validate, Unlink, UnlinkFails, Load, LoadFails, Rollback,
         RollbackFails, PromoteCopy, PromoteDelete, PromoteMissing, PromoteFails, FinishWrite

\* Where a request is in its run decides which of its fields later steps use;
\* the other requests are not touched, and published only grows.
LEMMA WriterPublished ==
  ASSUME PublicationInv, TypeOK', NEW w \in Writers, WriterStep(w), UNCHANGED <<cleaner, contested>>
  PROVE  PublicationInv'
<1> USE DEF PublicationInv, TypeOK, FileTypeOK, WritersTypeOK
<1>0. req[w] \in Requests /\ DOMAIN req = Writers /\ RequestPublished(w)
  OBVIOUS
<1>1. SUFFICES /\ published \subseteq published'
               /\ registered' \subseteq published'
               /\ \A e \in Entities : links'[e] \subseteq published'
               /\ RequestPublished(w)'
  BY WriterFrame DEF RequestPublished, CleanerPublished
<1> USE DEF Requests
<1>2. CASE ReconcileRegistered(w)
  <2>1. PICK f \in req[w].todo : req' = [req EXCEPT ![w].todo = @ \ {f}]
    BY <1>2 DEF ReconcileRegistered
  <2>2. RequestPublished(w)'
    BY <1>0, <1>2, <2>1 DEF ReconcileRegistered, fileVars, RequestPublished
  <2>3. QED BY <1>2, <2>2 DEF ReconcileRegistered, fileVars
<1>3. CASE ReconcileStaged(w)
  <2>1. PICK f \in req[w].todo :
          req' = [req EXCEPT ![w].todo = @ \ {f}, ![w].promote = @ \union {f}]
    BY <1>3 DEF ReconcileStaged, StagedOnly
  <2>2. RequestPublished(w)'
    BY <1>0, <1>3, <2>1 DEF ReconcileStaged, StagedOnly, fileVars, RequestPublished
  <2>3. QED BY <1>3, <2>2 DEF ReconcileStaged, StagedOnly, fileVars
<1>4. CASE ReconcileDone(w)
  BY <1>0, <1>4 DEF ReconcileDone, fileVars, RequestPublished
<1>5. CASE Reject(w)
  BY <1>0, <1>5 DEF Reject, Idle, fileVars, RequestPublished
<1>6. CASE Validate(w)
  BY <1>0, <1>6 DEF Validate, AfterValidate, fileVars, RequestPublished
<1>7. CASE Unlink(w)
  BY <1>0, <1>7 DEF Unlink, DeleteLinks, objectVars, RequestPublished
<1>8. CASE UnlinkFails(w)
  BY <1>0, <1>8 DEF UnlinkFails, DeleteLinks, Idle, objectVars, rdfVars, RequestPublished
<1>9. CASE Load(w)
  <2>1. RequestPublished(w)'
    BY <1>0, <1>9 DEF Load, LoadPayload, Idle, RequestPublished
  <2>2. QED BY <1>0, <1>9, <2>1 DEF Load, LoadPayload, objectVars
<1>10. CASE LoadFails(w)
  <2>1. published \subseteq published' /\ \A e \in Entities : links'[e] \subseteq published'
    BY <1>0, <1>10 DEF LoadFails, LoadPayload, rdfVars
  <2>2. CASE req' = [req EXCEPT ![w] = Idle]
    BY <1>0, <1>10, <2>1, <2>2 DEF LoadFails, Idle, objectVars, RequestPublished
  <2>3. CASE req' = [req EXCEPT ![w].pc = "rollback"]
    BY <1>0, <1>10, <2>1, <2>3 DEF LoadFails, objectVars, RequestPublished
  <2>4. QED BY <1>10, <2>2, <2>3 DEF LoadFails
<1>11. CASE Rollback(w)
  BY <1>0, <1>11 DEF Rollback, LoadLinks, Idle, objectVars, RequestPublished
<1>12. CASE RollbackFails(w)
  <2>1. RequestPublished(w)'
    BY <1>0, <1>12 DEF RollbackFails, LoadLinks, Idle, rdfVars, RequestPublished
  <2>2. QED BY <1>0, <1>12, <2>1 DEF RollbackFails, LoadLinks, objectVars, rdfVars, RequestPublished
<1>13. CASE PromoteCopy(w)
  <2>1. PICK f \in req[w].promote :
          CopyToRegistered(f) /\ req' = [req EXCEPT ![w].copied = {f}]
    BY <1>13 DEF PromoteCopy
  <2>2. RequestPublished(w)'
    BY <1>0, <1>13, <2>1 DEF PromoteCopy, rdfVars, RequestPublished
  <2>3. QED BY <1>0, <1>13, <2>1, <2>2 DEF PromoteCopy, CopyToRegistered, rdfVars, RequestPublished
<1>14. CASE PromoteDelete(w)
  <2>1. PICK f \in Files :
          /\ DeleteStaged(f)
          /\ req' = [req EXCEPT ![w].copied = {}, ![w].promote = @ \ {f}]
    BY <1>0, <1>14 DEF PromoteDelete
  <2>2. RequestPublished(w)'
    BY <1>0, <1>14, <2>1 DEF PromoteDelete, rdfVars, RequestPublished
  <2>3. QED BY <1>14, <2>1, <2>2 DEF PromoteDelete, DeleteStaged, rdfVars
<1>15. CASE PromoteMissing(w)
  <2>1. PICK f \in Files : req' = [req EXCEPT ![w].promote = @ \ {f}]
    BY <1>0, <1>15 DEF PromoteMissing
  <2>2. RequestPublished(w)'
    BY <1>0, <1>15, <2>1 DEF PromoteMissing, fileVars, RequestPublished
  <2>3. QED BY <1>15, <2>2 DEF PromoteMissing, fileVars
<1>16. CASE PromoteFails(w)
  <2>1. PICK f \in Files :
          /\ \/ CopyToRegistered(f) /\ f \in req[w].promote
             \/ DeleteStaged(f)
             \/ UNCHANGED objectVars
          /\ req' = [req EXCEPT ![w].copied = {}, ![w].promote = @ \ {f}]
    BY <1>0, <1>16 DEF PromoteFails
  <2>2. RequestPublished(w)'
    BY <1>0, <1>16, <2>1 DEF PromoteFails, rdfVars, RequestPublished
  <2>3. registered' \subseteq published
    BY <1>0, <1>16, <2>1 DEF PromoteFails, CopyToRegistered, DeleteStaged, objectVars,
                             RequestPublished
  <2>4. QED BY <1>16, <2>2, <2>3 DEF PromoteFails, rdfVars
<1>17. CASE FinishWrite(w)
  BY <1>0, <1>17 DEF FinishWrite, Idle, fileVars, RequestPublished
<1>18. QED
  BY <1>2, <1>3, <1>4, <1>5, <1>6, <1>7, <1>8, <1>9, <1>10, <1>11, <1>12, <1>13,
     <1>14, <1>15, <1>16, <1>17 DEF WriterStep

\* The script copies only what its snapshot found linked.
LEMMA CleanerPublishedStep ==
  ASSUME PublicationInv, CleanerStep \/ CleanupAborts, UNCHANGED <<req, contested>>
  PROVE  registered' \subseteq published' /\ CleanerPublished' /\ UNCHANGED <<links, published>>
<1> USE DEF PublicationInv, TypeOK, FileTypeOK, CleanerTypeOK, CleanerPublished
<1>1. CASE ReadTyped
  BY <1>1 DEF ReadTyped, ToPurge, fileVars
<1>2. CASE ListStaged
  BY <1>2 DEF ListStaged, ToPromote, ToExpire, fileVars
<1>3. CASE ListRegistered
  BY <1>3 DEF ListRegistered, ToCollect, fileVars
<1>4. CASE PurgeNode
  BY <1>4 DEF PurgeNode, DeleteNode, objectVars
<1>5. CASE PurgeObject
  BY <1>5 DEF PurgeObject, DeleteRegistered, rdfVars
<1>6. CASE CheckPromote
  <2>1. PICK f \in cleaner.promote :
          \/ cleaner' = [cleaner EXCEPT !.pc = "drop", !.current = {f}]
          \/ cleaner' = [cleaner EXCEPT !.pc = "copy", !.current = {f}]
    BY <1>6 DEF CheckPromote, DropOrCopy
  <2>2. QED BY <2>1, <1>6 DEF CheckPromote, DropOrCopy, fileVars
<1>7. CASE MoveCopy
  <2>1. PICK f \in cleaner.current : CopyToRegistered(f)
    BY <1>7 DEF MoveCopy
  <2>2. QED BY <1>7, <2>1 DEF MoveCopy, CopyToRegistered, rdfVars
<1>8. CASE DropStaged
  BY <1>8 DEF DropStaged, DeleteStaged, rdfVars
<1>9. CASE ExpireStaged
  BY <1>9 DEF ExpireStaged, DeleteStaged, rdfVars
<1>10. CASE CollectRegistered
  BY <1>10 DEF CollectRegistered, DeleteRegistered, rdfVars
<1>11. CASE FinishCleanup \/ MoveMissing
  BY <1>11 DEF FinishCleanup, MoveMissing, Stopped, fileVars
<1>12. CASE CleanupAborts
  BY <1>12 DEF CleanupAborts, Stopped, objectVars, rdfVars
<1>13. QED
  BY <1>1, <1>2, <1>3, <1>4, <1>5, <1>6, <1>7, <1>8, <1>9, <1>10, <1>11, <1>12
  DEF CleanerStep

\* The invariant holds initially and is preserved by every step.
LEMMA PublicationInvariant == Spec => []PublicationInv
<1>1. Init => PublicationInv
  <2> SUFFICES ASSUME Init PROVE PublicationInv
    OBVIOUS
  <2>1. TypeOK
    BY InitType
  <2>2. \A w \in Writers : RequestPublished(w)
    BY DEF Init, FileInit, WritersInit, Idle, RequestPublished
  <2>3. QED
    BY <2>1, <2>2 DEF Init, FileInit, CleanerInit, Stopped, PublicationInv, CleanerPublished
<1>2. PublicationInv /\ TypeOK' /\ [Next]_vars => PublicationInv'
  <2> SUFFICES ASSUME PublicationInv, TypeOK', [Next]_vars PROVE PublicationInv'
    OBVIOUS
  <2> USE DEF PublicationInv
  <2>1. ASSUME NEW f \in Files, StageFile(f), UNCHANGED <<cleaner, contested>> PROVE PublicationInv'
    BY <2>1 DEF StageFile, PutStaged, rdfVars, RequestPublished, CleanerPublished
  <2>2. ASSUME NEW f \in Files, AgeObject(f) PROVE PublicationInv'
    BY <2>2 DEF AgeObject, Age, rdfVars, RequestPublished, CleanerPublished
  <2>3. ASSUME NEW e \in Entities, DeleteEntity(e), UNCHANGED <<cleaner, contested>> PROVE PublicationInv'
    BY <2>3 DEF DeleteEntity, DeleteLinks, objectVars, RequestPublished, CleanerPublished,
                TypeOK, FileTypeOK
  <2>4. ASSUME NEW w \in Writers, StartWrite(w) PROVE PublicationInv'
    <3>1. PICK kind \in Kinds, e \in Entities, files \in SUBSET minted :
            req' = [req EXCEPT ![w] =
                      [Idle EXCEPT !.pc = "reconcile", !.kind = kind, !.entity = e,
                                   !.files = files, !.todo = files,
                                   !.snapshot = IF kind = "create" THEN {} ELSE links[e]]]
      BY <2>4 DEF StartWrite, BeginWrite
    <3>2. /\ req'[w].pc = "reconcile" /\ req'[w].promote = {}
          /\ req'[w].todo = files /\ req'[w].files = files
          /\ req'[w].snapshot \subseteq published
      BY <3>1 DEF TypeOK, WritersTypeOK, Idle
    <3>3. \A v \in Writers : v # w => req'[v] = req[v]
      BY <3>1 DEF TypeOK, WritersTypeOK
    <3>4. UNCHANGED <<fileVars, cleaner>>
      BY <2>4 DEF StartWrite, BeginWrite
    <3>5. QED BY <3>2, <3>3, <3>4 DEF fileVars, RequestPublished, CleanerPublished
  <2>5. ASSUME NEW w \in Writers, WriterStep(w), UNCHANGED <<cleaner, contested>> PROVE PublicationInv'
    BY <2>5, WriterPublished
  <2>6. CASE CuratorCrash /\ UNCHANGED <<cleaner, contested>>
    BY <2>6 DEF CuratorCrash, Idle, objectVars, rdfVars, RequestPublished, CleanerPublished
  <2>7. CASE StartCleanup
    BY <2>7 DEF StartCleanup, ReadLinked, Stopped, Linked, fileVars, RequestPublished,
                CleanerPublished
  <2>8. CASE (CleanerStep \/ CleanupAborts) /\ UNCHANGED <<req, contested>>
    BY <2>8, CleanerPublishedStep DEF RequestPublished
  <2>9. CASE UNCHANGED vars
    BY <2>9 DEF vars, fileVars, RequestPublished, CleanerPublished
  <2>10. QED
    BY <2>1, <2>2, <2>3, <2>4, <2>5, <2>6, <2>7, <2>8, <2>9 DEF Next
<1>3. QED
  BY <1>1, <1>2, TypeCorrect, PTL DEF Spec

\* registered/ holds published files only, whatever fails, crashes or overlaps:
\* the ground the reader stands on when it serves registered/ without RDF.
THEOREM RegisteredIsPublished == Spec => []RegisteredWasPublished
<1>1. PublicationInv => RegisteredWasPublished
  BY DEF PublicationInv, RegisteredWasPublished
<1>2. QED
  BY <1>1, PublicationInvariant, PTL

------------------------------------------------------------------------------
(* An unpublished upload is deleted only when it is over the TTL.          *)
(*                                                                         *)
(* The script deletes what was old when it listed staged/, which may be    *)
(* long ago.  An object never becomes young again, because its id is never *)
(* minted a second time: so what is left of that list is still old.  The   *)
(* other deletes complete a move, and only published files are moved.      *)

UploadsSpared ==
    /\ cleaner.expire \subseteq minted
    /\ cleaner.expire \intersect staged \subseteq oldStaged
    /\ cleaner.pc \in {"drop", "copied"} => cleaner.current \subseteq published
    /\ \A w \in Writers : req[w].copied \subseteq published

\* The steps of a request stage nothing and make no staged object young; what
\* they delete under staged/ they have published.
LEMMA WriterObjects ==
  ASSUME PublicationInv, UploadsSpared, NEW w \in Writers, WriterStep(w)
  PROVE  /\ published \subseteq published' /\ UNCHANGED minted
         /\ staged' \subseteq staged
         /\ oldStaged \intersect staged' \subseteq oldStaged'
         /\ staged \ staged' \subseteq published
         /\ req'[w].copied \subseteq published'
<1> USE DEF TypeOK, FileTypeOK, WritersTypeOK, Requests
<1>0. /\ req[w] \in Requests /\ DOMAIN req = Writers
      /\ req[w].pc = "promote" => req[w].promote \subseteq published
      /\ req[w].copied \subseteq published
  BY DEF PublicationInv, RequestPublished, UploadsSpared
<1>1. CASE \/ ReconcileRegistered(w) \/ ReconcileStaged(w) \/ ReconcileDone(w)
           \/ Reject(w) \/ Validate(w) \/ PromoteMissing(w) \/ FinishWrite(w)
  <2>1. UNCHANGED fileVars
    BY <1>1 DEF ReconcileRegistered, ReconcileStaged, ReconcileDone, Reject, Validate,
                PromoteMissing, FinishWrite
  <2>2. req'[w].copied \subseteq req[w].copied
    <3>1. CASE ReconcileRegistered(w) \/ ReconcileStaged(w)
      BY <1>0, <3>1 DEF ReconcileRegistered, ReconcileStaged
    <3>2. CASE ReconcileDone(w) \/ Reject(w) \/ Validate(w)
      BY <1>0, <3>2 DEF ReconcileDone, Reject, Validate, Idle
    <3>3. CASE PromoteMissing(w) \/ FinishWrite(w)
      BY <1>0, <3>3 DEF PromoteMissing, FinishWrite, Idle
    <3>4. QED BY <1>1, <3>1, <3>2, <3>3
  <2>3. QED BY <1>0, <2>1, <2>2 DEF fileVars
<1>2. CASE Unlink(w) \/ UnlinkFails(w)
  <2>1. UNCHANGED <<minted, staged, oldStaged, published>>
    BY <1>2 DEF Unlink, UnlinkFails, DeleteLinks, objectVars, rdfVars
  <2>2. req'[w].copied \subseteq req[w].copied
    BY <1>0, <1>2 DEF Unlink, UnlinkFails, Idle
  <2>3. QED BY <1>0, <2>1, <2>2
<1>3. CASE Load(w) \/ LoadFails(w)
  <2>1. UNCHANGED <<minted, staged, oldStaged>> /\ published \subseteq published'
    BY <1>3 DEF Load, LoadFails, LoadPayload, objectVars, rdfVars
  <2>2. req'[w].copied \subseteq req[w].copied
    <3>1. \/ req' = [req EXCEPT ![w] = [Idle EXCEPT !.pc = "promote",
                                                    !.promote = req[w].promote]]
          \/ req' = [req EXCEPT ![w] = Idle]
          \/ req' = [req EXCEPT ![w].pc = "rollback"]
      BY <1>3 DEF Load, LoadFails
    <3>2. CASE req' = [req EXCEPT ![w] = [Idle EXCEPT !.pc = "promote",
                                                      !.promote = req[w].promote]]
      <4>1. req'[w].copied = {}
        BY <1>0, <3>2 DEF Idle
      <4>2. QED BY <4>1
    <3>3. CASE req' = [req EXCEPT ![w] = Idle]
      <4>1. req'[w].copied = {}
        BY <1>0, <3>3 DEF Idle
      <4>2. QED BY <4>1
    <3>4. CASE req' = [req EXCEPT ![w].pc = "rollback"]
      <4>1. req'[w].copied = req[w].copied
        BY <1>0, <3>4
      <4>2. QED BY <4>1
    <3>5. QED BY <3>1, <3>2, <3>3, <3>4
  <2>3. QED BY <1>0, <2>1, <2>2
<1>4. CASE Rollback(w) \/ RollbackFails(w)
  <2>1. UNCHANGED <<minted, staged, oldStaged>> /\ published \subseteq published'
    BY <1>4 DEF Rollback, RollbackFails, LoadLinks, objectVars, rdfVars
  <2>2. req'[w].copied \subseteq req[w].copied
    BY <1>0, <1>4 DEF Rollback, RollbackFails, Idle
  <2>3. QED BY <1>0, <2>1, <2>2
<1>5. CASE PromoteCopy(w)
  <2>1. PICK f \in req[w].promote :
          CopyToRegistered(f) /\ req' = [req EXCEPT ![w].copied = {f}]
    BY <1>5 DEF PromoteCopy
  <2>2. req'[w].copied = {f} /\ f \in published
    BY <1>0, <1>5, <2>1 DEF PromoteCopy
  <2>3. QED BY <1>5, <2>1, <2>2 DEF PromoteCopy, CopyToRegistered, rdfVars
<1>6. CASE PromoteDelete(w)
  <2>1. PICK f \in req[w].copied :
          /\ DeleteStaged(f)
          /\ req' = [req EXCEPT ![w].copied = {}, ![w].promote = @ \ {f}]
    BY <1>6 DEF PromoteDelete
  <2>2. req'[w].copied = {}
    BY <1>0, <2>1
  <2>3. QED BY <1>0, <1>6, <2>1, <2>2 DEF PromoteDelete, DeleteStaged, rdfVars
<1>7. CASE PromoteFails(w)
  <2>1. PICK f \in published :
          /\ \/ CopyToRegistered(f)
             \/ DeleteStaged(f)
             \/ UNCHANGED objectVars
          /\ req' = [req EXCEPT ![w].copied = {}, ![w].promote = @ \ {f}]
    BY <1>0, <1>7 DEF PromoteFails
  <2>2. req'[w].copied = {}
    BY <1>0, <2>1
  <2>3. QED BY <1>7, <2>1, <2>2 DEF PromoteFails, CopyToRegistered, DeleteStaged,
                                    objectVars, rdfVars
<1>8. QED
  BY <1>1, <1>2, <1>3, <1>4, <1>5, <1>6, <1>7 DEF WriterStep

\* So do the script's, but for the uploads it expires, which are old.
LEMMA CleanerObjects ==
  ASSUME PublicationInv, UploadsSpared, CleanerStep \/ CleanupAborts, UNCHANGED <<req, contested>>
  PROVE  UploadsSpared' /\ staged \ staged' \subseteq published \union oldStaged
<1> USE DEF PublicationInv, UploadsSpared, TypeOK, FileTypeOK, CleanerTypeOK
<1>1. CASE ReadTyped \/ ListRegistered
  BY <1>1 DEF ReadTyped, ListRegistered, fileVars
<1>2. CASE ListStaged
  BY <1>2 DEF ListStaged, ToExpire, fileVars
<1>3. CASE PurgeNode
  BY <1>3 DEF PurgeNode, DeleteNode, objectVars
<1>4. CASE PurgeObject
  BY <1>4 DEF PurgeObject, DeleteRegistered, rdfVars
<1>5. CASE CheckPromote
  <2>1. PICK f \in cleaner.promote : cleaner' = [cleaner EXCEPT !.pc = DropOrCopy(f),
                                                                !.current = {f}]
    BY <1>5 DEF CheckPromote
  <2>2. cleaner'.expire = cleaner.expire /\ cleaner'.current = {f} /\ f \in published
    BY <2>1 DEF CleanerPublished
  <2>3. QED BY <1>5, <2>2 DEF CheckPromote, fileVars
<1>6. CASE MoveCopy
  <2>1. PICK f \in cleaner.current : CopyToRegistered(f)
    BY <1>6 DEF MoveCopy
  <2>2. /\ cleaner'.expire = cleaner.expire /\ cleaner'.current = cleaner.current
        /\ cleaner.current \subseteq published
    BY <1>6 DEF MoveCopy, CleanerPublished
  <2>3. QED BY <1>6, <2>1, <2>2 DEF MoveCopy, CopyToRegistered, rdfVars
<1>7. CASE DropStaged
  <2>1. PICK f \in cleaner.current :
          /\ DeleteStaged(f)
          /\ cleaner' = [cleaner EXCEPT !.pc = "sweep", !.current = {},
                                        !.promote = @ \ {f}]
    BY <1>7 DEF DropStaged
  <2>2. cleaner'.expire = cleaner.expire /\ cleaner'.current = {} /\ f \in published
    BY <1>7, <2>1 DEF DropStaged
  <2>3. QED BY <1>7, <2>1, <2>2 DEF DropStaged, DeleteStaged, rdfVars
<1>8. CASE ExpireStaged
  <2>1. PICK f \in cleaner.expire :
          DeleteStaged(f) /\ cleaner' = [cleaner EXCEPT !.expire = @ \ {f}]
    BY <1>8 DEF ExpireStaged
  <2>2. /\ cleaner'.expire = cleaner.expire \ {f}
        /\ cleaner'.pc = cleaner.pc /\ cleaner'.current = cleaner.current
    BY <2>1
  <2>3. QED BY <1>8, <2>1, <2>2 DEF ExpireStaged, DeleteStaged, rdfVars
<1>9. CASE CollectRegistered
  BY <1>9 DEF CollectRegistered, DeleteRegistered, rdfVars
<1>10. CASE FinishCleanup \/ MoveMissing \/ CleanupAborts
  BY <1>10 DEF FinishCleanup, MoveMissing, CleanupAborts, Stopped, fileVars, objectVars,
               rdfVars
<1>11. QED
  BY <1>1, <1>2, <1>3, <1>4, <1>5, <1>6, <1>7, <1>8, <1>9, <1>10 DEF CleanerStep

\* Every step spares the young uploads, whether or not writes and clean-up
\* runs overlap.
LEMMA UploadStep ==
  ASSUME PublicationInv, UploadsSpared, [Next]_vars
  PROVE  UploadsSpared' /\ staged \ staged' \subseteq published \union oldStaged
<1> USE DEF UploadsSpared
<1>0. TypeOK
  BY DEF PublicationInv
<1>1. ASSUME NEW f \in Files, StageFile(f), UNCHANGED <<cleaner, contested>>
      PROVE  UploadsSpared' /\ staged \subseteq staged'
  BY <1>1 DEF StageFile, PutStaged, rdfVars
<1>2. ASSUME NEW f \in Files, AgeObject(f) PROVE UploadsSpared' /\ staged' = staged
  BY <1>2 DEF AgeObject, Age, rdfVars
<1>3. ASSUME NEW e \in Entities, DeleteEntity(e), UNCHANGED <<cleaner, contested>>
      PROVE  UploadsSpared' /\ staged' = staged
  BY <1>3 DEF DeleteEntity, DeleteLinks, objectVars
<1>4. ASSUME NEW w \in Writers, StartWrite(w) PROVE UploadsSpared' /\ staged' = staged
  <2>1. UNCHANGED <<fileVars, cleaner>>
    BY <1>4 DEF StartWrite, BeginWrite
  <2>2. \A v \in Writers : req'[v].copied \subseteq req[v].copied
    BY <1>0, <1>4 DEF StartWrite, BeginWrite, Idle, TypeOK, WritersTypeOK
  <2>3. QED BY <2>1, <2>2 DEF fileVars
<1>5. ASSUME NEW w \in Writers, WriterStep(w), UNCHANGED <<cleaner, contested>>
      PROVE  UploadsSpared' /\ staged \ staged' \subseteq published
  <2>1. \A v \in Writers : v # w => req'[v] = req[v]
    BY <1>0, <1>5, WriterFrame
  <2>2. QED BY <1>5, <2>1, WriterObjects
<1>6. CASE CuratorCrash /\ UNCHANGED <<cleaner, contested>>
  BY <1>6 DEF CuratorCrash, Idle, objectVars, rdfVars
<1>7. CASE StartCleanup
  BY <1>7 DEF StartCleanup, ReadLinked, Stopped, fileVars
<1>8. CASE (CleanerStep \/ CleanupAborts) /\ UNCHANGED <<req, contested>>
  BY <1>8, CleanerObjects
<1>9. CASE UNCHANGED vars
  BY <1>9 DEF vars, fileVars
<1>10. QED
  BY <1>1, <1>2, <1>3, <1>4, <1>5, <1>6, <1>7, <1>8, <1>9 DEF Next

\* An upload that no write has published loses its staged object only when it
\* is over the TTL, whatever requests and clean-up runs overlap.
THEOREM UploadIsKept == Spec => UploadKeptUntilTTL
<1>1. Init => UploadsSpared
  BY DEF Init, CleanerInit, Stopped, WritersInit, Idle, UploadsSpared
<1>2. PublicationInv /\ UploadsSpared /\ [Next]_vars => UploadsSpared'
  BY UploadStep
<1>3. /\ PublicationInv /\ UploadsSpared /\ [Next]_vars
      => [\A f \in staged \ staged' : f \in published \/ f \in oldStaged]_vars
  BY UploadStep
<1>4. QED
  BY <1>1, <1>2, <1>3, PublicationInvariant, PTL DEF Spec, UploadKeptUntilTTL

------------------------------------------------------------------------------
(* Runs of the script and requests may overlap in any way.                 *)
(*                                                                         *)
(* What a run may delete something of (Condemned) only shrinks while it    *)
(* goes on, what a request links (Carried) only shrinks while it is        *)
(* served, and links grow by what is carried.  So a condemned file that is *)
(* linked or carried was so when the run or the request began: it is       *)
(* contested.  All others keep what the requests saw of them.              *)

\* Files that are held with their node and its metadata, or contested.
Kept == contested \union (Held \intersect typed \intersect described)

RequestHeld(w) ==
    req[w].pc # "idle" =>
        /\ req[w].snapshot \subseteq Kept
        /\ req[w].todo \subseteq req[w].files
        /\ req[w].files \ req[w].todo \subseteq Held \union contested
        /\ req[w].pc # "reconcile" => req[w].todo = {}
        /\ req[w].copied \subseteq req[w].promote \intersect (registered \union contested)
        /\ req[w].pc \in {"unlink", "load"} =>
               req[w].files \subseteq described \union req[w].promote \union contested

CleanerSpares ==
    /\ CleanerIdle => cleaner = Stopped
    /\ \A f, g \in cleaner.current : f = g
    /\ cleaner.pc = "purgeObject" => cleaner.current \subseteq cleaner.purge
    /\ cleaner.pc \in {"drop", "copied"} => cleaner.current \subseteq registered

OverlapInv ==
    /\ TypeOK
    /\ \A e \in Entities : links[e] \subseteq Kept
    /\ Linked \union Carried \subseteq minted
    /\ Condemned \intersect (Linked \union Carried) \subseteq contested
    /\ \A w \in Writers : RequestHeld(w)
    /\ CleanerSpares

\* What a request carries, the requests carry.
LEMMA CarriedByOne == ASSUME NEW w \in Writers PROVE CarriedBy(req[w]) \subseteq Carried
  BY DEF Carried

\* The links of one entity are links.
LEMMA LinksLinked ==
  ASSUME TypeOK, NEW e \in Entities PROVE links[e] \subseteq Linked
  BY DEF TypeOK, FileTypeOK, Linked

\* A step of a request that keeps what is kept, links no more than it carried
\* and goes on with no more than it carried, preserves the invariant.
LEMMA WriterKeeps ==
  ASSUME OverlapInv, TypeOK', NEW w \in Writers, UNCHANGED <<cleaner, contested>>,
         \A v \in Writers : v # w => req'[v] = req[v],
         minted' = minted, Held \subseteq Held' \union contested, registered \subseteq registered',
         typed \subseteq typed', described \subseteq described',
         CarriedBy(req'[w]) \subseteq CarriedBy(req[w]),
         \A e \in Entities : links'[e] \subseteq links[e] \union (CarriedBy(req[w]) \intersect Kept'),
         RequestHeld(w)'
  PROVE  OverlapInv'
<1> USE DEF OverlapInv
<1>1. Kept \subseteq Kept' /\ Condemned' = Condemned
  BY DEF Kept, Condemned
<1>2. Carried' \subseteq Carried
  <2>1. ASSUME NEW v \in Writers PROVE CarriedBy(req'[v]) \subseteq CarriedBy(req[v])
    BY <2>1
  <2>2. QED BY <2>1 DEF Carried
<1>3. Linked' \subseteq Linked \union Carried
  <2>1. ASSUME NEW e \in Entities, NEW f \in links'[e] PROVE f \in Linked \union Carried
    BY <2>1, LinksLinked, CarriedByOne
  <2>2. QED BY <2>1 DEF Linked
<1>4. \A e \in Entities : links'[e] \subseteq Kept'
  BY <1>1
<1>5. \A v \in Writers : RequestHeld(v)'
  <2>1. ASSUME NEW v \in Writers, v # w PROVE RequestHeld(v)'
    BY <2>1, <1>1 DEF RequestHeld
  <2>2. QED BY <2>1
<1>6. CleanerSpares'
  BY DEF CleanerSpares, CleanerIdle
<1>7. QED BY <1>1, <1>2, <1>3, <1>4, <1>5, <1>6

\* A request only adds: links it carried, nodes, and the other half of a copy
\* whose staged half it then deletes.
LEMMA WriterOverlap ==
  ASSUME OverlapInv, TypeOK', NEW w \in Writers, WriterStep(w), UNCHANGED <<cleaner, contested>>
  PROVE  OverlapInv'
<1> USE DEF TypeOK, FileTypeOK, WritersTypeOK
<1>0. TypeOK /\ req[w] \in Requests /\ DOMAIN req = Writers /\ RequestHeld(w)
  BY DEF OverlapInv
<1>a. req[w].pc # "idle"
  BY DEF WriterStep, ReconcileRegistered, ReconcileStaged, ReconcileDone, Reject, Validate,
         Unlink, UnlinkFails, Load, LoadFails, Rollback, RollbackFails, PromoteCopy,
         PromoteDelete, PromoteMissing, PromoteFails, FinishWrite
<1>b. \A v \in Writers : v # w => req'[v] = req[v]
  BY <1>0, WriterFrame
<1>c. Idle.pc = "idle" /\ req' = [req EXCEPT ![w] = Idle]
         => CarriedBy(req'[w]) = {} /\ RequestHeld(w)'
  BY <1>0 DEF CarriedBy, RequestHeld
<1>d. Idle.pc = "idle"
  BY DEF Idle
<1>1. SUFFICES
        /\ minted' = minted /\ Held \subseteq Held' \union contested
        /\ registered \subseteq registered'
        /\ typed \subseteq typed' /\ described \subseteq described'
        /\ CarriedBy(req'[w]) \subseteq CarriedBy(req[w])
        /\ \A e \in Entities : links'[e] \subseteq links[e] \union (CarriedBy(req[w]) \intersect Kept')
        /\ RequestHeld(w)'
  BY <1>b, WriterKeeps
<1> USE DEF Requests
<1>2. CASE ReconcileRegistered(w)
  <2>1. PICK f \in req[w].todo \intersect registered :
          req' = [req EXCEPT ![w].todo = @ \ {f}]
    BY <1>2 DEF ReconcileRegistered
  <2>2. RequestHeld(w)' /\ CarriedBy(req'[w]) \subseteq CarriedBy(req[w])
    BY <1>0, <1>2, <2>1 DEF ReconcileRegistered, fileVars, RequestHeld, Held, Kept, CarriedBy
  <2>3. QED BY <1>2, <2>2 DEF ReconcileRegistered, fileVars, Held
<1>3. CASE ReconcileStaged(w)
  <2>1. PICK f \in req[w].todo \intersect staged :
          req' = [req EXCEPT ![w].todo = @ \ {f}, ![w].promote = @ \union {f}]
    BY <1>3 DEF ReconcileStaged, StagedOnly
  <2>2. RequestHeld(w)' /\ CarriedBy(req'[w]) \subseteq CarriedBy(req[w])
    BY <1>0, <1>3, <2>1
    DEF ReconcileStaged, StagedOnly, fileVars, RequestHeld, Held, Kept, CarriedBy
  <2>3. QED BY <1>3, <2>2 DEF ReconcileStaged, StagedOnly, fileVars, Held
<1>4. CASE ReconcileDone(w)
  <2>1. RequestHeld(w)' /\ CarriedBy(req'[w]) \subseteq CarriedBy(req[w])
    BY <1>0, <1>4 DEF ReconcileDone, fileVars, RequestHeld, Held, Kept, CarriedBy
  <2>2. QED BY <1>4, <2>1 DEF ReconcileDone, fileVars, Held
<1>5. CASE Reject(w)
  BY <1>5, <1>c, <1>d DEF Reject, fileVars, Held
<1>6. CASE Validate(w)
  <2>1. req[w].files \subseteq described \union req[w].promote
    BY <1>6 DEF Validate, AfterValidate, Conforms, InScope
  <2>2. \E pc \in {"unlink", "load"} : req' = [req EXCEPT ![w].pc = pc]
    BY <1>6 DEF Validate, AfterValidate
  <2>3. RequestHeld(w)' /\ CarriedBy(req'[w]) \subseteq CarriedBy(req[w])
    BY <1>0, <1>6, <2>1, <2>2 DEF Validate, fileVars, RequestHeld, Held, Kept, CarriedBy
  <2>4. QED BY <1>6, <2>3 DEF Validate, fileVars, Held
<1>7. CASE Unlink(w)
  <2>1. RequestHeld(w)' /\ CarriedBy(req'[w]) \subseteq CarriedBy(req[w])
    BY <1>0, <1>7 DEF Unlink, DeleteLinks, objectVars, RequestHeld, Held, Kept, CarriedBy
  <2>2. QED BY <1>0, <1>7, <2>1 DEF Unlink, DeleteLinks, objectVars, Held
<1>8. CASE UnlinkFails(w)
  BY <1>0, <1>8, <1>c, <1>d DEF UnlinkFails, DeleteLinks, objectVars, rdfVars, Held
<1>9. CASE Load(w)
  <2>1. /\ req[w].files \subseteq Held \union contested
        /\ req[w].files \subseteq described \union req[w].promote \union contested
        /\ req[w].files \subseteq CarriedBy(req[w])
    BY <1>0, <1>9 DEF Load, RequestHeld, CarriedBy
  <2>2. RequestHeld(w)' /\ CarriedBy(req'[w]) \subseteq CarriedBy(req[w])
    BY <1>0, <1>9 DEF Load, Idle, RequestHeld, CarriedBy
  <2>3. req[w].files \subseteq Kept'
    BY <1>0, <1>9, <2>1 DEF Load, LoadPayload, objectVars, Held, Kept
  <2>4. QED BY <1>0, <1>9, <2>1, <2>2, <2>3 DEF Load, LoadPayload, objectVars, Held
<1>10. CASE LoadFails(w)
  <2>1. /\ req[w].files \subseteq Held \union contested
        /\ req[w].files \subseteq described \union req[w].promote \union contested
        /\ req[w].files \subseteq CarriedBy(req[w])
    BY <1>0, <1>10 DEF LoadFails, RequestHeld, CarriedBy
  <2>2. /\ typed \subseteq typed' /\ described \subseteq described' /\ minted' = minted
        /\ Held' = Held /\ registered' = registered
    BY <1>10 DEF LoadFails, LoadPayload, objectVars, rdfVars, Held
  <2>3. \A e \in Entities : links'[e] \subseteq links[e] \union (CarriedBy(req[w]) \intersect Kept')
    <3>1. CASE UNCHANGED rdfVars
      BY <3>1 DEF rdfVars
    <3>2. CASE LoadPayload(req[w].entity, req[w].files, req[w].promote)
      <4>1. req[w].files \subseteq Kept'
        BY <2>1, <2>2, <3>2 DEF LoadPayload, Kept
      <4>2. QED BY <1>0, <2>1, <3>2, <4>1 DEF LoadPayload
    <3>3. QED BY <1>10, <3>1, <3>2 DEF LoadFails
  <2>4. CASE req' = [req EXCEPT ![w] = Idle]
    BY <2>2, <2>3, <2>4, <1>c, <1>d
  <2>5. CASE req' = [req EXCEPT ![w].pc = "rollback"]
    <3>1. RequestHeld(w)' /\ CarriedBy(req'[w]) \subseteq CarriedBy(req[w])
      BY <1>0, <1>10, <2>2, <2>5 DEF LoadFails, RequestHeld, Kept, CarriedBy
    <3>2. QED BY <2>2, <2>3, <3>1
  <2>6. QED BY <1>10, <2>4, <2>5 DEF LoadFails
<1>11. CASE Rollback(w) \/ RollbackFails(w)
  <2>1. req[w].snapshot \subseteq Kept /\ req[w].snapshot \subseteq CarriedBy(req[w])
    BY <1>0, <1>a DEF RequestHeld, CarriedBy
  <2>2. UNCHANGED <<minted, staged, registered, typed, described>>
    BY <1>11 DEF Rollback, RollbackFails, LoadLinks, objectVars, nodeVars, rdfVars
  <2>3. Kept' = Kept /\ Held' = Held
    BY <2>2 DEF Kept, Held
  <2>4. \A e \in Entities : links'[e] \subseteq links[e] \union (CarriedBy(req[w]) \intersect Kept')
    BY <1>0, <1>11, <2>1, <2>3 DEF Rollback, RollbackFails, LoadLinks, rdfVars
  <2>5. req' = [req EXCEPT ![w] = Idle]
    BY <1>11 DEF Rollback, RollbackFails
  <2>6. QED BY <2>2, <2>3, <2>4, <2>5, <1>c, <1>d
<1>13. CASE PromoteCopy(w)
  <2>1. PICK f \in req[w].promote :
          CopyToRegistered(f) /\ req' = [req EXCEPT ![w].copied = {f}]
    BY <1>13 DEF PromoteCopy
  <2>2. RequestHeld(w)' /\ CarriedBy(req'[w]) \subseteq CarriedBy(req[w])
    BY <1>0, <1>13, <2>1
    DEF PromoteCopy, CopyToRegistered, rdfVars, RequestHeld, Held, Kept, CarriedBy
  <2>3. QED BY <1>13, <2>1, <2>2 DEF PromoteCopy, CopyToRegistered, rdfVars, Held
<1>14. CASE PromoteDelete(w)
  <2>1. PICK f \in req[w].copied :
          /\ DeleteStaged(f)
          /\ req' = [req EXCEPT ![w].copied = {}, ![w].promote = @ \ {f}]
    BY <1>14 DEF PromoteDelete
  <2>2. Held \subseteq Held' \union contested /\ registered' = registered
    BY <1>0, <1>a, <2>1 DEF RequestHeld, DeleteStaged, Held
  <2>3. Kept \subseteq Kept'
    BY <2>2, <1>14 DEF PromoteDelete, rdfVars, Kept
  <2>4. RequestHeld(w)' /\ CarriedBy(req'[w]) \subseteq CarriedBy(req[w])
    BY <1>0, <1>14, <2>1, <2>2, <2>3 DEF PromoteDelete, rdfVars, RequestHeld, CarriedBy
  <2>5. QED BY <1>14, <2>2, <2>4 DEF PromoteDelete, rdfVars
<1>15. CASE PromoteMissing(w)
  <2>1. PICK f \in req[w].promote \ staged : req' = [req EXCEPT ![w].promote = @ \ {f}]
    BY <1>15 DEF PromoteMissing
  <2>2. req[w].copied = {}
    BY <1>15 DEF PromoteMissing
  <2>3. RequestHeld(w)' /\ CarriedBy(req'[w]) \subseteq CarriedBy(req[w])
    BY <1>0, <1>15, <2>1, <2>2 DEF PromoteMissing, fileVars, RequestHeld, Held, Kept, CarriedBy
  <2>4. QED BY <1>15, <2>3 DEF PromoteMissing, fileVars, Held
<1>16. CASE PromoteFails(w)
  <2>1. PICK f \in Files :
          /\ \/ CopyToRegistered(f)
             \/ f \in req[w].copied /\ DeleteStaged(f)
             \/ UNCHANGED objectVars
          /\ req' = [req EXCEPT ![w].copied = {}, ![w].promote = @ \ {f}]
    BY <1>0, <1>16 DEF PromoteFails
  <2>2. Held \subseteq Held' \union contested /\ registered \subseteq registered'
    BY <1>0, <1>a, <2>1 DEF RequestHeld, CopyToRegistered, DeleteStaged, objectVars, Held
  <2>3. Kept \subseteq Kept'
    BY <2>2, <1>16 DEF PromoteFails, rdfVars, Kept
  <2>4. RequestHeld(w)' /\ CarriedBy(req'[w]) \subseteq CarriedBy(req[w])
    BY <1>0, <1>16, <2>1, <2>2, <2>3 DEF PromoteFails, rdfVars, RequestHeld, CarriedBy
  <2>5. QED BY <1>16, <2>2, <2>4 DEF PromoteFails, rdfVars
<1>17. CASE FinishWrite(w)
  BY <1>17, <1>c, <1>d DEF FinishWrite, fileVars, Held
<1>18. QED
  BY <1>2, <1>3, <1>4, <1>5, <1>6, <1>7, <1>8, <1>9, <1>10, <1>11, <1>13,
     <1>14, <1>15, <1>16, <1>17 DEF WriterStep

\* A step of the script takes bytes and nodes of condemned files only, and
\* condemns no other.
LEMMA CleanerTakes ==
  ASSUME TypeOK, CleanerSpares, CleanerStep \/ CleanupAborts
  PROVE  /\ Condemned' \subseteq Condemned
         /\ Held \ Condemned \subseteq Held'
         /\ registered \ Condemned \subseteq registered'
         /\ typed \ Condemned \subseteq typed'
         /\ described \ Condemned \subseteq described'
         /\ CleanerSpares'
         /\ UNCHANGED <<minted, links>>
<1> USE DEF CleanerSpares, CleanerIdle
<1>1. /\ DOMAIN cleaner = {"pc", "linked", "purge", "promote", "expire", "collect", "current"}
      /\ typed \subseteq Files /\ described \subseteq Files /\ oldStaged \subseteq Files
      /\ oldRegistered \subseteq Files /\ registered \subseteq Files /\ staged \subseteq Files
      /\ cleaner.purge \subseteq Files /\ cleaner.expire \subseteq Files
      /\ cleaner.collect \subseteq Files
  BY DEF TypeOK, CleanerTypeOK, FileTypeOK
<1>2. CASE ReadTyped
  BY <1>1, <1>2 DEF ReadTyped, ToPurge, fileVars, Condemned, Held, Stopped
<1>3. CASE ListStaged
  BY <1>1, <1>3 DEF ListStaged, ToPromote, ToExpire, fileVars, Condemned, Held, Stopped
<1>4. CASE ListRegistered
  BY <1>1, <1>4 DEF ListRegistered, ToCollect, fileVars, Condemned, Held, Stopped
<1>5. CASE PurgeNode
  <2>1. PICK f \in cleaner.purge :
          /\ DeleteNode(f)
          /\ cleaner' = [cleaner EXCEPT !.pc = "purgeObject", !.current = {f}]
    BY <1>5 DEF PurgeNode
  <2>2. f \in Condemned
    BY <1>1 DEF Condemned
  <2>3. QED BY <1>1, <1>5, <2>1, <2>2 DEF PurgeNode, DeleteNode, objectVars, Condemned, Held
<1>6. CASE PurgeObject
  <2>1. PICK f \in cleaner.current :
          /\ DeleteRegistered(f)
          /\ cleaner' = [cleaner EXCEPT !.pc = "sweep", !.current = {}, !.purge = @ \ {f}]
    BY <1>6 DEF PurgeObject
  <2>2. f \in Condemned
    BY <1>1, <1>6 DEF PurgeObject, Condemned
  <2>3. QED BY <1>1, <1>6, <2>1, <2>2 DEF PurgeObject, DeleteRegistered, rdfVars, Condemned, Held
<1>7. CASE CheckPromote
  <2>1. PICK f \in cleaner.promote :
          \/ f \in registered /\ cleaner' = [cleaner EXCEPT !.pc = "drop", !.current = {f}]
          \/ cleaner' = [cleaner EXCEPT !.pc = "copy", !.current = {f}]
    BY <1>7 DEF CheckPromote, DropOrCopy
  <2>2. UNCHANGED fileVars /\ cleaner.pc = "sweep"
    BY <1>7 DEF CheckPromote
  <2>3. Condemned' = Condemned
    BY <1>1, <2>1, <2>2 DEF Condemned
  <2>4. /\ cleaner'.current = {f}
        /\ (cleaner'.pc = "drop" /\ f \in registered) \/ cleaner'.pc = "copy"
    BY <1>1, <2>1
  <2>5. CleanerSpares'
    BY <2>2, <2>4 DEF fileVars
  <2>6. QED BY <2>2, <2>3, <2>5 DEF fileVars, Held
<1>8. CASE MoveCopy
  <2>1. PICK f \in cleaner.current : CopyToRegistered(f)
    BY <1>8 DEF MoveCopy
  <2>2. QED BY <1>1, <1>8, <2>1 DEF MoveCopy, CopyToRegistered, rdfVars, Condemned, Held
<1>9. CASE DropStaged
  <2>1. PICK f \in cleaner.current :
          /\ DeleteStaged(f)
          /\ cleaner' = [cleaner EXCEPT !.pc = "sweep", !.current = {}, !.promote = @ \ {f}]
    BY <1>9 DEF DropStaged
  <2>2. f \in registered
    BY <1>9, <2>1 DEF DropStaged
  <2>3. QED BY <1>1, <1>9, <2>1, <2>2 DEF DropStaged, DeleteStaged, rdfVars, Condemned, Held
<1>10. CASE ExpireStaged
  <2>1. PICK f \in cleaner.expire :
          DeleteStaged(f) /\ cleaner' = [cleaner EXCEPT !.expire = @ \ {f}]
    BY <1>10 DEF ExpireStaged
  <2>2. QED BY <1>1, <1>10, <2>1 DEF ExpireStaged, DeleteStaged, rdfVars, Condemned, Held
<1>11. CASE CollectRegistered
  <2>1. PICK f \in cleaner.collect :
          DeleteRegistered(f) /\ cleaner' = [cleaner EXCEPT !.collect = @ \ {f}]
    BY <1>11 DEF CollectRegistered
  <2>2. QED BY <1>1, <1>11, <2>1
            DEF CollectRegistered, DeleteRegistered, rdfVars, Condemned, Held
<1>12. CASE FinishCleanup \/ MoveMissing \/ CleanupAborts
  BY <1>12 DEF FinishCleanup, MoveMissing, CleanupAborts, Stopped, fileVars, objectVars,
               rdfVars, Held, Condemned
<1>13. QED
  BY <1>2, <1>3, <1>4, <1>5, <1>6, <1>7, <1>8, <1>9, <1>10, <1>11, <1>12 DEF CleanerStep

\* So what the requests carry and the entities link keeps what it needs.
LEMMA CleanerOverlap ==
  ASSUME OverlapInv, TypeOK', CleanerStep \/ CleanupAborts, UNCHANGED <<req, contested>>
  PROVE  OverlapInv'
<1> USE DEF OverlapInv
<1>1. /\ Condemned' \subseteq Condemned
      /\ Held \ Condemned \subseteq Held'
      /\ registered \ Condemned \subseteq registered'
      /\ typed \ Condemned \subseteq typed'
      /\ described \ Condemned \subseteq described'
      /\ CleanerSpares' /\ UNCHANGED <<minted, links>>
  BY CleanerTakes
<1>2. Linked' = Linked /\ Carried' = Carried
  BY <1>1 DEF Linked, Carried
<1>3. Kept \ Condemned \subseteq Kept'
  BY <1>1 DEF Kept
<1>4. \A e \in Entities : links'[e] \subseteq Kept'
  <2>1. ASSUME NEW e \in Entities, NEW f \in links'[e] PROVE f \in Kept'
    <3>1. f \in Linked /\ f \in Kept
      BY <1>1, <2>1, LinksLinked
    <3>2. QED BY <1>3, <3>1 DEF Kept
  <2>2. QED BY <2>1
<1>5. \A w \in Writers : RequestHeld(w)'
  <2> SUFFICES ASSUME NEW w \in Writers, req[w].pc # "idle" PROVE RequestHeld(w)'
    BY DEF RequestHeld
  <2>1. RequestHeld(w)
    OBVIOUS
  <2>2. \A f \in CarriedBy(req[w]) : f \in Condemned => f \in contested
    BY CarriedByOne
  <2>3. \A f \in CarriedBy(req[w]) : f \in Kept => f \in Kept'
    BY <1>3, <2>2 DEF Kept
  <2>4. /\ req[w].files \subseteq CarriedBy(req[w]) /\ req[w].promote \subseteq CarriedBy(req[w])
        /\ req[w].snapshot \subseteq CarriedBy(req[w])
    BY DEF CarriedBy
  <2>5. req[w].snapshot \subseteq Kept'
    BY <2>1, <2>3, <2>4 DEF RequestHeld
  <2>6. req[w].files \ req[w].todo \subseteq Held' \union contested
    BY <1>1, <2>1, <2>2, <2>4 DEF RequestHeld
  <2>7. req[w].copied \subseteq req[w].promote \intersect (registered' \union contested)
    BY <1>1, <2>1, <2>2, <2>4 DEF RequestHeld
  <2>8. req[w].pc \in {"unlink", "load"} =>
           req[w].files \subseteq described' \union req[w].promote \union contested
    BY <1>1, <2>1, <2>2, <2>4 DEF RequestHeld
  <2>9. QED BY <2>1, <2>5, <2>6, <2>7, <2>8 DEF RequestHeld
<1>6. QED BY <1>1, <1>2, <1>4, <1>5

\* A request or a run begins: what is carried and condemned is contested now.
LEMMA BeginningOverlap ==
  ASSUME OverlapInv, TypeOK', UNCHANGED fileVars,
         \/ \E w \in Writers : StartWrite(w)
         \/ StartCleanup
  PROVE  OverlapInv'
<1> USE DEF OverlapInv
<1>1. contested' = contested \union (Carried' \intersect Condemned')
  BY DEF StartWrite, StartCleanup, Contest
<1>2. Kept \subseteq Kept' /\ Linked' = Linked
  BY <1>1 DEF Kept, Linked, Held, fileVars
<1>3. \A e \in Entities : links'[e] \subseteq Kept'
  BY <1>2 DEF fileVars
<1>4. ASSUME NEW w \in Writers, RequestHeld(w), req'[w] = req[w] PROVE RequestHeld(w)'
  BY <1>1, <1>2, <1>4 DEF RequestHeld, fileVars, Held
<1>5. ASSUME NEW w \in Writers, StartWrite(w) PROVE OverlapInv'
  <2>1. PICK kind \in Kinds, e \in Entities, files \in SUBSET minted :
          req' = [req EXCEPT ![w] =
                    [Idle EXCEPT !.pc = "reconcile", !.kind = kind, !.entity = e,
                                 !.files = files, !.todo = files,
                                 !.snapshot = IF kind = "create" THEN {} ELSE links[e]]]
    BY <1>5 DEF StartWrite, BeginWrite
  <2>2. /\ req'[w].pc = "reconcile" /\ req'[w].copied = {} /\ req'[w].promote = {}
        /\ req'[w].todo = files /\ req'[w].files = files
        /\ req'[w].snapshot \subseteq links[e]
    BY <2>1 DEF TypeOK, WritersTypeOK, Idle
  <2>3. \A v \in Writers : v # w => req'[v] = req[v]
    BY <2>1 DEF TypeOK, WritersTypeOK
  <2>4. cleaner' = cleaner /\ Condemned' = Condemned
    BY <1>5 DEF StartWrite, Condemned
  <2>5. RequestHeld(w)'
    BY <1>2, <2>2 DEF RequestHeld
  <2>6. Carried' \subseteq minted
    <3>1. CarriedBy(req'[w]) \subseteq minted
      BY <2>2, LinksLinked DEF CarriedBy
    <3>2. ASSUME NEW v \in Writers, v # w PROVE CarriedBy(req'[v]) \subseteq minted
      BY <2>3, <3>2, CarriedByOne
    <3>3. QED BY <3>1, <3>2 DEF Carried
  <2>7. \A v \in Writers : RequestHeld(v)'
    BY <1>4, <2>3, <2>5
  <2>8. CleanerSpares'
    BY <2>4 DEF CleanerSpares, CleanerIdle, fileVars
  <2>9. QED BY <1>1, <1>2, <1>3, <2>4, <2>6, <2>7, <2>8 DEF fileVars
<1>6. CASE StartCleanup
  <2>1. /\ cleaner' = [Stopped EXCEPT !.pc = "typed", !.linked = Linked]
        /\ req' = req
    BY <1>6 DEF StartCleanup, ReadLinked
  <2>2. Condemned' \intersect Linked' = {} /\ CleanerSpares'
    BY <1>2, <2>1 DEF Condemned, Stopped, CleanerSpares, CleanerIdle
  <2>3. Carried' = Carried
    BY <2>1 DEF Carried
  <2>4. \A v \in Writers : RequestHeld(v)'
    BY <1>4, <2>1
  <2>5. QED BY <1>1, <1>2, <1>3, <2>2, <2>3, <2>4 DEF fileVars
<1>7. QED BY <1>5, <1>6

\* The invariant holds initially and is preserved by every step.
LEMMA OverlapInvariant == Spec => []OverlapInv
<1>1. Init => OverlapInv
  <2> SUFFICES ASSUME Init PROVE OverlapInv
    OBVIOUS
  <2>1. Carried = {} /\ Linked = {} /\ CleanerSpares
    BY DEF Init, FileInit, WritersInit, CleanerInit, Stopped, Idle, Carried, CarriedBy, Linked,
           CleanerSpares, CleanerIdle
  <2>2. \A w \in Writers : RequestHeld(w)
    BY DEF Init, WritersInit, Idle, RequestHeld
  <2>3. QED BY <2>1, <2>2, InitType DEF Init, FileInit, OverlapInv
<1>2. OverlapInv /\ TypeOK' /\ [Next]_vars => OverlapInv'
  <2> SUFFICES ASSUME OverlapInv, TypeOK', [Next]_vars PROVE OverlapInv'
    OBVIOUS
  <2> USE DEF OverlapInv
  <2>1. ASSUME NEW f \in Files, StageFile(f), UNCHANGED <<cleaner, contested>> PROVE OverlapInv'
    <3>1. /\ UNCHANGED <<registered, links, typed, described, req>>
          /\ Held \subseteq Held' /\ minted \subseteq minted'
      BY <2>1 DEF StageFile, PutStaged, rdfVars, Held
    <3>2. Kept \subseteq Kept' /\ Linked' = Linked /\ Carried' = Carried /\ Condemned' = Condemned
      BY <2>1, <3>1 DEF Kept, Linked, Carried, Condemned
    <3>3. QED BY <2>1, <3>1, <3>2 DEF RequestHeld, CleanerSpares, CleanerIdle
  <2>2. ASSUME NEW f \in Files, AgeObject(f) PROVE OverlapInv'
    <3>1. UNCHANGED <<minted, staged, registered, links, typed, described, req, cleaner, contested>>
      BY <2>2 DEF AgeObject, Age, rdfVars
    <3>2. QED BY <3>1 DEF Held, Kept, Linked, Carried, Condemned, RequestHeld, CleanerSpares,
                          CleanerIdle
  <2>3. ASSUME NEW e \in Entities, DeleteEntity(e), UNCHANGED <<cleaner, contested>>
        PROVE  OverlapInv'
    <3>1. \A d \in Entities : links'[d] \subseteq links[d]
      BY <2>3 DEF DeleteEntity, DeleteLinks, TypeOK, FileTypeOK
    <3>2. Linked' \subseteq Linked
      BY <3>1 DEF Linked
    <3>3. UNCHANGED <<minted, staged, registered, typed, described, req>>
      BY <2>3 DEF DeleteEntity, DeleteLinks, objectVars
    <3>4. Kept' = Kept /\ Carried' = Carried /\ Condemned' = Condemned
      BY <2>3, <3>3 DEF Held, Kept, Carried, Condemned
    <3>5. QED BY <2>3, <3>1, <3>2, <3>3, <3>4 DEF Held, RequestHeld, CleanerSpares, CleanerIdle
  <2>4. ASSUME NEW w \in Writers, StartWrite(w) PROVE OverlapInv'
    BY <2>4, BeginningOverlap DEF StartWrite, BeginWrite
  <2>5. ASSUME NEW w \in Writers, WriterStep(w), UNCHANGED <<cleaner, contested>>
        PROVE  OverlapInv'
    BY <2>5, WriterOverlap
  <2>6. CASE CuratorCrash /\ UNCHANGED <<cleaner, contested>>
    <3>1. /\ req' = [w \in Writers |-> Idle]
          /\ UNCHANGED <<minted, staged, registered, links, typed, described>>
      BY <2>6 DEF CuratorCrash, objectVars, rdfVars
    <3>2. Carried' = {} /\ \A w \in Writers : RequestHeld(w)'
      BY <3>1 DEF Carried, CarriedBy, Idle, RequestHeld
    <3>3. Kept' = Kept /\ Linked' = Linked /\ Condemned' = Condemned /\ CleanerSpares'
      BY <2>6, <3>1 DEF Kept, Held, Linked, Condemned, CleanerSpares, CleanerIdle
    <3>4. QED BY <2>6, <3>1, <3>2, <3>3
  <2>7. CASE StartCleanup
    BY <2>7, BeginningOverlap DEF StartCleanup, ReadLinked
  <2>8. CASE (CleanerStep \/ CleanupAborts) /\ UNCHANGED <<req, contested>>
    BY <2>8, CleanerOverlap
  <2>9. CASE UNCHANGED vars
    BY <2>9 DEF vars, fileVars, Held, Kept, Linked, Carried, Condemned, RequestHeld,
                CleanerSpares, CleanerIdle
  <2>10. QED
    BY <2>1, <2>2, <2>3, <2>4, <2>5, <2>6, <2>7, <2>8, <2>9 DEF Next
<1>3. QED
  BY <1>1, <1>2, TypeCorrect, PTL DEF Spec

\* Every referenced file keeps its bytes, but for those that a request carried
\* while a run had found them unreferenced.
THEOREM ReferencedFilesHeld == Spec => []ReferencedHeld
<1>1. OverlapInv => ReferencedHeld
  BY DEF OverlapInv, ReferencedHeld, Linked, Kept
<1>2. QED
  BY <1>1, OverlapInvariant, PTL

\* ... and it keeps the node its metadata is on.
THEOREM ReferencedFilesDescribed == Spec => []ReferencedDescribed
<1>1. OverlapInv => ReferencedDescribed
  BY DEF OverlapInv, ReferencedDescribed, Linked, Kept
<1>2. QED
  BY <1>1, OverlapInvariant, PTL

\* An operator who keeps runs and requests apart contests no file: then every
\* referenced file is held and described.
THEOREM ApartNothingContested ==
  Spec /\ [](CleanerIdle \/ AllIdle)
    => [](contested = {} /\ Linked \subseteq Held \intersect typed \intersect described)
<1>1. Init => contested = {}
  BY DEF Init
<1>2. /\ contested = {} /\ OverlapInv' /\ (CleanerIdle \/ AllIdle)' /\ [Next]_vars
      => (contested = {})'
  <2> SUFFICES ASSUME contested = {}, OverlapInv', (CleanerIdle \/ AllIdle)', [Next]_vars
               PROVE  contested' = {}
    OBVIOUS
  <2>1. Carried' \intersect Condemned' = {}
    <3>1. CASE CleanerIdle'
      BY <3>1 DEF OverlapInv, CleanerSpares, CleanerIdle, Stopped, Condemned
    <3>2. CASE AllIdle'
      BY <3>2 DEF AllIdle, Carried, CarriedBy
    <3>3. QED BY <3>1, <3>2
  <2>2. QED BY <2>1 DEF Next, vars, StartWrite, StartCleanup, Contest, AgeObject
<1>3. OverlapInv /\ contested = {}
        => contested = {} /\ Linked \subseteq Held \intersect typed \intersect described
  BY DEF OverlapInv, Kept, Linked
<1>4. QED
  BY <1>1, <1>2, <1>3, OverlapInvariant, PTL DEF Spec

------------------------------------------------------------------------------
(* What a run of the script stops over.                                    *)

\* The files it still has to promote are staged, or moved by then; none of them
\* is on its other lists.
CleanerPromotes ==
    /\ cleaner.promote \subseteq Held \union contested
    /\ cleaner.promote \intersect (cleaner.purge \union cleaner.expire \union cleaner.collect) = {}
    /\ cleaner.pc \in {"typed", "staged", "registered"} =>
           /\ cleaner.promote \subseteq cleaner.linked
           /\ cleaner.linked \intersect
                (cleaner.purge \union cleaner.expire \union cleaner.collect) = {}
    /\ cleaner.pc \in {"drop", "copy", "copied"} => cleaner.current \subseteq cleaner.promote

LEMMA CleanerPromotesStep ==
  ASSUME TypeOK, CleanerSpares, CleanerPromotes, CleanerStep \/ CleanupAborts,
         contested' = contested
  PROVE  CleanerPromotes'
<1> USE DEF CleanerPromotes
<1>1. DOMAIN cleaner = {"pc", "linked", "purge", "promote", "expire", "collect", "current"}
  BY DEF TypeOK, CleanerTypeOK
<1> USE <1>1
<1>2. CASE ReadTyped
  BY <1>2 DEF ReadTyped, ToPurge, fileVars, Held
<1>3. CASE ListStaged
  BY <1>3 DEF ListStaged, ToPromote, ToExpire, fileVars, Held
<1>4. CASE ListRegistered
  BY <1>4 DEF ListRegistered, ToCollect, fileVars, Held
<1>5. CASE PurgeNode
  <2>1. PICK f \in cleaner.purge :
          /\ DeleteNode(f)
          /\ cleaner' = [cleaner EXCEPT !.pc = "purgeObject", !.current = {f}]
    BY <1>5 DEF PurgeNode
  <2>2. QED BY <2>1, <1>5 DEF PurgeNode, DeleteNode, objectVars, Held
<1>6. CASE PurgeObject
  <2>1. PICK f \in cleaner.current :
          /\ DeleteRegistered(f)
          /\ cleaner' = [cleaner EXCEPT !.pc = "sweep", !.current = {}, !.purge = @ \ {f}]
    BY <1>6 DEF PurgeObject
  <2>2. f \in cleaner.purge
    BY <1>6, <2>1 DEF PurgeObject, CleanerSpares
  <2>3. QED BY <2>1, <2>2, <1>6 DEF PurgeObject, DeleteRegistered, rdfVars, Held
<1>7. CASE CheckPromote
  <2>1. PICK f \in cleaner.promote :
          cleaner' = [cleaner EXCEPT !.pc = DropOrCopy(f), !.current = {f}]
    BY <1>7 DEF CheckPromote
  <2>2. QED BY <2>1, <1>7 DEF CheckPromote, DropOrCopy, fileVars, Held
<1>8. CASE MoveCopy
  BY <1>8 DEF MoveCopy, CopyToRegistered, rdfVars, Held
<1>9. CASE DropStaged
  <2>1. PICK f \in cleaner.current :
          /\ DeleteStaged(f)
          /\ cleaner' = [cleaner EXCEPT !.pc = "sweep", !.current = {}, !.promote = @ \ {f}]
    BY <1>9 DEF DropStaged
  <2>2. QED BY <2>1, <1>9 DEF DropStaged, DeleteStaged, Held
<1>10. CASE ExpireStaged
  <2>1. PICK f \in cleaner.expire :
          DeleteStaged(f) /\ cleaner' = [cleaner EXCEPT !.expire = @ \ {f}]
    BY <1>10 DEF ExpireStaged
  <2>2. QED BY <2>1, <1>10 DEF ExpireStaged, DeleteStaged, Held
<1>11. CASE CollectRegistered
  <2>1. PICK f \in cleaner.collect :
          DeleteRegistered(f) /\ cleaner' = [cleaner EXCEPT !.collect = @ \ {f}]
    BY <1>11 DEF CollectRegistered
  <2>2. QED BY <2>1, <1>11 DEF CollectRegistered, DeleteRegistered, Held
<1>12. CASE FinishCleanup \/ MoveMissing \/ CleanupAborts
  BY <1>12 DEF FinishCleanup, MoveMissing, CleanupAborts, Stopped
<1>13. QED
  BY <1>2, <1>3, <1>4, <1>5, <1>6, <1>7, <1>8, <1>9, <1>10, <1>11, <1>12 DEF CleanerStep

\* No request deletes the last object of an uncontested file.
LEMMA WriterHolds ==
  ASSUME OverlapInv, NEW w \in Writers, WriterStep(w)
  PROVE  Held \subseteq Held' \union contested
<1>1. TypeOK /\ RequestHeld(w)
  BY DEF OverlapInv
<1>2. CASE \/ ReconcileRegistered(w) \/ ReconcileStaged(w) \/ ReconcileDone(w)
           \/ Reject(w) \/ Validate(w) \/ PromoteMissing(w) \/ FinishWrite(w)
           \/ Unlink(w) \/ UnlinkFails(w) \/ Load(w) \/ LoadFails(w)
           \/ Rollback(w) \/ RollbackFails(w)
  BY <1>2 DEF ReconcileRegistered, ReconcileStaged, ReconcileDone, Reject, Validate,
              PromoteMissing, FinishWrite, Unlink, UnlinkFails, Load, LoadFails, Rollback,
              RollbackFails, fileVars, objectVars, Held
<1>3. CASE PromoteCopy(w) \/ PromoteDelete(w) \/ PromoteFails(w)
  <2>1. req[w].copied \subseteq registered \union contested
    BY <1>1, <1>3 DEF PromoteCopy, PromoteDelete, PromoteFails, RequestHeld
  <2>2. \/ \E f \in Files : CopyToRegistered(f)
        \/ \E f \in req[w].copied : DeleteStaged(f)
        \/ UNCHANGED objectVars
    BY <1>1, <1>3 DEF PromoteCopy, PromoteDelete, PromoteFails, TypeOK, WritersTypeOK, Requests
  <2>3. QED BY <2>1, <2>2 DEF CopyToRegistered, DeleteStaged, objectVars, Held
<1>4. QED BY <1>2, <1>3 DEF WriterStep

LEMMA PromotesStep == OverlapInv /\ CleanerPromotes /\ [Next]_vars => CleanerPromotes'
<1> SUFFICES ASSUME OverlapInv, CleanerPromotes, [Next]_vars PROVE CleanerPromotes'
  OBVIOUS
<1>1. TypeOK /\ CleanerSpares
  BY DEF OverlapInv
<1>2. ASSUME NEW f \in Files,
             \/ StageFile(f) /\ UNCHANGED <<cleaner, contested>>
             \/ AgeObject(f)
      PROVE  CleanerPromotes'
  BY <1>2 DEF StageFile, PutStaged, AgeObject, Age, Held, CleanerPromotes
<1>3. ASSUME NEW e \in Entities, DeleteEntity(e), UNCHANGED <<cleaner, contested>>
      PROVE  CleanerPromotes'
  BY <1>3 DEF DeleteEntity, objectVars, Held, CleanerPromotes
<1>4. ASSUME NEW w \in Writers, StartWrite(w) PROVE CleanerPromotes'
  BY <1>4 DEF StartWrite, BeginWrite, Contest, fileVars, Held, CleanerPromotes
<1>5. ASSUME NEW w \in Writers, WriterStep(w), UNCHANGED <<cleaner, contested>>
      PROVE  CleanerPromotes'
  BY <1>5, WriterHolds DEF CleanerPromotes
<1>6. CASE CuratorCrash /\ UNCHANGED <<cleaner, contested>>
  BY <1>6 DEF CuratorCrash, objectVars, Held, CleanerPromotes
<1>7. CASE StartCleanup
  BY <1>7 DEF StartCleanup, ReadLinked, Stopped, CleanerPromotes
<1>8. CASE (CleanerStep \/ CleanupAborts) /\ UNCHANGED <<req, contested>>
  BY <1>1, <1>8, CleanerPromotesStep
<1>9. CASE UNCHANGED vars
  BY <1>9 DEF vars, fileVars, Held, CleanerPromotes
<1>10. QED
  BY <1>2, <1>3, <1>4, <1>5, <1>6, <1>7, <1>8, <1>9 DEF Next

\* A run of the script that stops over a staged object that went meanwhile has
\* lost a race with a promotion, which left the file registered; or the file was
\* contested by an earlier run (reconcile).
THEOREM RunsStopOverMovedFiles ==
  Spec => [][MoveMissing => cleaner.current \subseteq registered \union contested]_vars
<1>1. Init => CleanerPromotes
  BY DEF Init, CleanerInit, Stopped, CleanerPromotes
<1>2. OverlapInv /\ CleanerPromotes /\ [Next]_vars
        => [MoveMissing => cleaner.current \subseteq registered \union contested]_vars
  <2>1. ASSUME OverlapInv, CleanerPromotes, MoveMissing
        PROVE  cleaner.current \subseteq registered \union contested
    <3>1. PICK f \in cleaner.current : f \notin staged
      BY <2>1 DEF MoveMissing
    <3>2. cleaner.current = {f} /\ f \in Held \union contested
      BY <2>1, <3>1 DEF OverlapInv, CleanerSpares, CleanerPromotes, MoveMissing
    <3>3. QED BY <3>1, <3>2 DEF Held
  <2>2. QED BY <2>1
<1>3. QED
  BY <1>1, <1>2, PromotesStep, OverlapInvariant, PTL DEF Spec

------------------------------------------------------------------------------
(* The subsystem implements the registry, on the same invariant.           *)

\* The registry's own operators, read through the mapping.
LEMMA RegistryReferenced == Registry!Referenced = Linked
  BY DEF Registry!Referenced, Linked

\* Deleting one of the two objects of an unreferenced file discards the file,
\* or changes nothing the registry sees while the other object is still there.
LEMMA DeleteDiscards ==
  ASSUME NEW f \in Files, f \notin Linked \/ f \in contested,
         UNCHANGED <<rdfVars, minted, contested>>,
         DeleteStaged(f) \/ DeleteRegistered(f)
  PROVE  [Registry!RegNext]_(Registry!regVars)
<1>1. Held' = Held \/ Held' = Held \ {f}
  BY DEF Held, DeleteStaged, DeleteRegistered
<1>2. CASE Held' = Held
  BY <1>2 DEF rdfVars, Registry!regVars
<1>3. CASE Held' = Held \ {f}
  <2>1. Registry!Discard(f)
    BY <1>3, RegistryReferenced DEF rdfVars, Registry!Discard
  <2>2. QED BY <2>1 DEF Registry!RegNext
<1>4. QED BY <1>1, <1>2, <1>3

\* A request references files it saw held; its other steps move bytes only.
LEMMA WriterRegistry ==
  ASSUME OverlapInv, NEW w \in Writers, WriterStep(w), UNCHANGED <<cleaner, contested>>
  PROVE  [Registry!RegNext]_(Registry!regVars)
<1> USE DEF TypeOK, FileTypeOK, WritersTypeOK, Requests
<1>0. TypeOK /\ req[w] \in Requests /\ RequestHeld(w)
  BY DEF OverlapInv
<1>1. CASE \/ ReconcileRegistered(w) \/ ReconcileStaged(w) \/ ReconcileDone(w)
           \/ Reject(w) \/ Validate(w) \/ PromoteMissing(w) \/ FinishWrite(w)
  BY <1>1 DEF ReconcileRegistered, ReconcileStaged, ReconcileDone, Reject, Validate,
              PromoteMissing, FinishWrite, fileVars, Held, Registry!regVars
<1>2. CASE Unlink(w) \/ UnlinkFails(w)
  <2>1. UNCHANGED <<minted, Held, published>>
    BY <1>2 DEF Unlink, UnlinkFails, DeleteLinks, objectVars, rdfVars, Held
  <2>2. DeleteLinks(req[w].entity) \/ UNCHANGED links
    BY <1>2 DEF Unlink, UnlinkFails, rdfVars
  <2>3. CASE UNCHANGED links
    BY <2>1, <2>3 DEF Registry!regVars
  <2>4. CASE DeleteLinks(req[w].entity)
    BY <1>0, <2>1, <2>4 DEF DeleteLinks, Registry!Withdraw, Registry!RegNext
  <2>5. QED BY <2>2, <2>3, <2>4
<1>3. CASE Load(w) \/ LoadFails(w)
  <2>1. req[w].files \in SUBSET (Held \union contested)
    BY <1>0, <1>3 DEF Load, LoadFails, RequestHeld
  <2>2. UNCHANGED <<minted, Held>>
    BY <1>3 DEF Load, LoadFails, objectVars, Held
  <2>3. \/ LoadPayload(req[w].entity, req[w].files, req[w].promote)
        \/ UNCHANGED <<links, published>>
    BY <1>3 DEF Load, LoadFails, rdfVars
  <2>4. CASE UNCHANGED <<links, published>>
    BY <2>2, <2>4 DEF Registry!regVars
  <2>5. CASE LoadPayload(req[w].entity, req[w].files, req[w].promote)
    <3>1. Registry!Reference(req[w].entity, req[w].files)
      BY <2>2, <2>5 DEF LoadPayload, Registry!Reference
    <3>2. QED BY <1>0, <2>1, <3>1 DEF Registry!RegNext
  <2>6. QED BY <2>3, <2>4, <2>5
<1>4. CASE Rollback(w) \/ RollbackFails(w)
  <2>1. req[w].snapshot \in SUBSET (Held \union contested)
    BY <1>0, <1>4 DEF Rollback, RollbackFails, RequestHeld, Kept
  <2>2. UNCHANGED <<minted, Held>>
    BY <1>4 DEF Rollback, RollbackFails, objectVars, Held
  <2>3. \/ LoadLinks(req[w].entity, req[w].snapshot)
        \/ UNCHANGED <<links, published>>
    BY <1>4 DEF Rollback, RollbackFails, rdfVars
  <2>4. CASE UNCHANGED <<links, published>>
    BY <2>2, <2>4 DEF Registry!regVars
  <2>5. CASE LoadLinks(req[w].entity, req[w].snapshot)
    <3>1. Registry!Reference(req[w].entity, req[w].snapshot)
      BY <2>2, <2>5 DEF LoadLinks, Registry!Reference
    <3>2. QED BY <1>0, <2>1, <3>1 DEF Registry!RegNext
  <2>6. QED BY <2>3, <2>4, <2>5
<1>5. CASE PromoteCopy(w) \/ PromoteDelete(w) \/ PromoteFails(w)
  <2>1. /\ req[w].copied \subseteq Files
        /\ req[w].copied \subseteq registered \union contested
        /\ UNCHANGED <<minted, rdfVars>>
    BY <1>0, <1>5 DEF PromoteCopy, PromoteDelete, PromoteFails, RequestHeld
  <2>2. \/ \E f \in Files : CopyToRegistered(f)
        \/ \E f \in req[w].copied : DeleteStaged(f)
        \/ UNCHANGED objectVars
    BY <1>0, <1>5 DEF PromoteCopy, PromoteDelete, PromoteFails
  <2>3. CASE Held' = Held
    BY <2>1, <2>3 DEF rdfVars, Registry!regVars
  <2>4. CASE Held' # Held
    <3>1. PICK f \in req[w].copied : DeleteStaged(f)
      BY <2>2, <2>4 DEF CopyToRegistered, objectVars, Held
    <3>2. f \in contested
      BY <2>1, <2>4, <3>1 DEF DeleteStaged, Held
    <3>3. QED BY <2>1, <3>1, <3>2, DeleteDiscards
  <2>5. QED BY <2>3, <2>4
<1>6. QED
  BY <1>1, <1>2, <1>3, <1>4, <1>5 DEF WriterStep

\* The script discards what its snapshot spared no reference to.
LEMMA CleanerRegistry ==
  ASSUME OverlapInv, CleanerStep \/ CleanupAborts, UNCHANGED <<req, contested>>
  PROVE  [Registry!RegNext]_(Registry!regVars)
<1>0. TypeOK /\ CleanerSpares
  BY DEF OverlapInv
<1>c. \A f \in Condemned : f \notin Linked \/ f \in contested
  BY DEF OverlapInv
<1> USE DEF TypeOK, FileTypeOK, CleanerTypeOK
<1>1. CASE \/ ReadTyped \/ ListStaged \/ ListRegistered \/ CheckPromote
           \/ FinishCleanup \/ MoveMissing \/ CleanupAborts
  BY <1>1 DEF ReadTyped, ListStaged, ListRegistered, CheckPromote, FinishCleanup,
              MoveMissing, CleanupAborts, fileVars, objectVars, rdfVars, Held,
              Registry!regVars
<1>2. CASE PurgeNode
  BY <1>2 DEF PurgeNode, DeleteNode, objectVars, Held, Registry!regVars
<1>3. CASE MoveCopy
  <2>1. Held' = Held
    BY <1>3 DEF MoveCopy, CopyToRegistered, Held
  <2>2. QED BY <2>1, <1>3 DEF MoveCopy, rdfVars, Registry!regVars
<1>4. CASE DropStaged
  <2>1. cleaner.current \subseteq registered
    BY <1>0, <1>4 DEF DropStaged, CleanerSpares, CleanerIdle
  <2>2. Held' = Held
    BY <2>1, <1>4 DEF DropStaged, DeleteStaged, Held
  <2>3. QED BY <2>2, <1>4 DEF DropStaged, rdfVars, Registry!regVars
<1>5. CASE PurgeObject
  <2>1. PICK f \in cleaner.current : DeleteRegistered(f)
    BY <1>5 DEF PurgeObject
  <2>2. f \in Files /\ f \in Condemned
    BY <1>0, <1>5, <2>1 DEF PurgeObject, CleanerSpares, Condemned
  <2>3. QED BY <1>5, <2>1, <2>2, <1>c, DeleteDiscards DEF PurgeObject
<1>6. CASE ExpireStaged
  <2>1. PICK f \in cleaner.expire : DeleteStaged(f)
    BY <1>6 DEF ExpireStaged
  <2>2. f \in Files /\ f \in Condemned
    BY <1>0, <1>6, <2>1 DEF ExpireStaged, CleanerSpares, Condemned
  <2>3. QED BY <1>6, <2>1, <2>2, <1>c, DeleteDiscards DEF ExpireStaged
<1>7. CASE CollectRegistered
  <2>1. PICK f \in cleaner.collect : DeleteRegistered(f)
    BY <1>7 DEF CollectRegistered
  <2>2. f \in Files /\ f \in Condemned
    BY <1>0, <1>7, <2>1 DEF CollectRegistered, CleanerSpares, Condemned
  <2>3. QED BY <1>7, <2>1, <2>2, <1>c, DeleteDiscards DEF CollectRegistered
<1>8. QED
  BY <1>1, <1>2, <1>3, <1>4, <1>5, <1>6, <1>7 DEF CleanerStep

\* What becomes contested was condemned, and referenced by nothing.
LEMMA ContestDisputes ==
  ASSUME OverlapInv, TypeOK', UNCHANGED fileVars, Contest,
         Condemned' = Condemned \/ Condemned' \intersect Linked = {}
  PROVE  Registry!RegNext
<1> DEFINE new == contested' \ contested
<1>1. contested' = contested \union new /\ new \in SUBSET Files
  BY DEF Contest, TypeOK
<1>2. new \subseteq Condemned' \ contested
  BY DEF Contest
<1>3. new \intersect Linked = {}
  BY <1>2 DEF OverlapInv
<1> HIDE DEF new
<1>4. Held' = Held
  BY DEF fileVars, Held
<1>5. Registry!Dispute(new)
  BY <1>1, <1>3, <1>4, RegistryReferenced DEF fileVars, Registry!Dispute
<1>6. QED BY <1>1, <1>5 DEF Registry!RegNext

\* Every step of the subsystem is a step of the registry or changes nothing there.
LEMMA RegistryStep ==
  ASSUME OverlapInv, TypeOK', [Next]_vars
  PROVE  [Registry!RegNext]_(Registry!regVars)
<1>1. ASSUME NEW f \in Files, StageFile(f), UNCHANGED <<cleaner, contested>>
      PROVE  Registry!RegNext
  <2>1. Held' = Held \union {f}
    BY <1>1 DEF StageFile, PutStaged, Held
  <2>2. Registry!Upload(f)
    BY <1>1, <2>1 DEF StageFile, rdfVars, Registry!Upload
  <2>3. QED BY <2>2 DEF Registry!RegNext
<1>2. ASSUME NEW f \in Files, AgeObject(f) PROVE UNCHANGED Registry!regVars
  BY <1>2 DEF AgeObject, Age, rdfVars, Held, Registry!regVars
<1>3. ASSUME NEW e \in Entities, DeleteEntity(e), UNCHANGED <<cleaner, contested>>
      PROVE  Registry!RegNext
  <2>1. Registry!Withdraw(e)
    BY <1>3 DEF DeleteEntity, DeleteLinks, objectVars, Held, Registry!Withdraw
  <2>2. QED BY <2>1 DEF Registry!RegNext
<1>4. ASSUME NEW w \in Writers, StartWrite(w) PROVE Registry!RegNext
  <2>1. UNCHANGED fileVars /\ cleaner' = cleaner /\ Contest
    BY <1>4 DEF StartWrite, BeginWrite
  <2>2. Condemned' = Condemned
    BY <2>1 DEF Condemned
  <2>3. QED BY <2>1, <2>2, ContestDisputes
<1>5. ASSUME NEW w \in Writers, WriterStep(w), UNCHANGED <<cleaner, contested>>
      PROVE  [Registry!RegNext]_(Registry!regVars)
  BY <1>5, WriterRegistry
<1>6. CASE CuratorCrash /\ UNCHANGED <<cleaner, contested>>
  BY <1>6 DEF CuratorCrash, objectVars, rdfVars, Held, Registry!regVars
<1>7. CASE StartCleanup
  <2>1. UNCHANGED fileVars /\ Contest
    BY <1>7 DEF StartCleanup, ReadLinked
  <2>2. Condemned' \intersect Linked = {}
    BY <1>7 DEF StartCleanup, ReadLinked, Stopped, Condemned
  <2>3. QED BY <2>1, <2>2, ContestDisputes
<1>8. CASE (CleanerStep \/ CleanupAborts) /\ UNCHANGED <<req, contested>>
  BY <1>8, CleanerRegistry
<1>9. CASE UNCHANGED vars
  BY <1>9 DEF vars, fileVars, Held, Registry!regVars
<1>10. QED
  BY <1>1, <1>2, <1>3, <1>4, <1>5, <1>6, <1>7, <1>8, <1>9 DEF Next

\* Every behaviour of the subsystem is one of the registry: the prefixes, the
\* moves and the script are invisible, and the files in dispute are contested.
THEOREM RegistryImplemented == Spec => ImplementsRegistry
<1>1. Init => Registry!RegInit
  BY DEF Init, FileInit, Held, Registry!RegInit
<1>2. QED
  BY <1>1, RegistryStep, OverlapInvariant, TypeCorrect, PTL
  DEF Spec, ImplementsRegistry, Registry!RegSpec

\* The last copy of a file goes only while no entity references it, or after it
\* was contested: the registry's Discard is the one way to lose bytes.
THEOREM LastCopyIsUnreferenced == Spec => LastCopyUnreferenced
<1>1. ASSUME [Registry!RegNext]_(Registry!regVars), NEW f \in Held \ Held'
      PROVE  f \notin Linked \/ f \in contested
  <2>1. PICK g \in Files : Registry!Discard(g)
    BY <1>1 DEF Registry!RegNext, Registry!regVars, Registry!Upload, Registry!Withdraw,
                Registry!Reference, Registry!Dispute
  <2>2. QED BY <1>1, <2>1, RegistryReferenced DEF Registry!Discard
<1>2. OverlapInv /\ TypeOK' /\ [Next]_vars
        => [\A f \in Held \ Held' : f \notin Linked \/ f \in contested]_vars
  BY <1>1, RegistryStep
<1>3. QED
  BY <1>2, OverlapInvariant, TypeCorrect, PTL DEF Spec, LastCopyUnreferenced
==============================================================================
