--------------------------- MODULE DownloadsProofs ---------------------------
(***************************************************************************)
(* The reader serves only what was published, for every set of files,      *)
(* writers and readers, with clean-up overlapping and the store down.      *)
(***************************************************************************)
EXTENDS Downloads, DigitalCopiesProofs

\* The reader only reads: to the rest of the system its steps are stuttering.
LEMMA ReaderReads == [DownloadNext]_downloadVars => [Next]_vars
  BY DEF DownloadNext, downloadVars, ReaderStep, Request, Ask, AskFails, OpenRegistered,
         OpenStaged, ServeUnverifiable, StorageFails, At

\* A file once published is never unpublished: what the reader learnt stays true.
LEMMA PublishedGrows ==
  ASSUME [Next]_vars
  PROVE  published \subseteq published'
<1> USE DEF fileVars, rdfVars, nodeVars, LoadPayload, LoadLinks, DeleteLinks, DeleteNode
<1>1. ASSUME NEW w \in Writers, WriterStep(w) PROVE published \subseteq published'
  <2>1. CASE \/ ReconcileRegistered(w) \/ ReconcileStaged(w) \/ ReconcileDone(w)
             \/ Reject(w) \/ Validate(w) \/ PromoteMissing(w) \/ FinishWrite(w)
    BY <2>1 DEF ReconcileRegistered, ReconcileStaged, ReconcileDone, Reject, Validate,
                PromoteMissing, FinishWrite
  <2>2. CASE Unlink(w) \/ UnlinkFails(w) \/ Load(w) \/ LoadFails(w)
    BY <2>2 DEF Unlink, UnlinkFails, Load, LoadFails
  <2>3. CASE Rollback(w) \/ RollbackFails(w)
    BY <2>3 DEF Rollback, RollbackFails
  <2>4. CASE PromoteCopy(w) \/ PromoteDelete(w) \/ PromoteFails(w)
    BY <2>4 DEF PromoteCopy, PromoteDelete, PromoteFails
  <2>5. QED BY <1>1, <2>1, <2>2, <2>3, <2>4 DEF WriterStep
<1>2. ASSUME CleanerStep \/ CleanupAborts PROVE published \subseteq published'
  BY <1>2 DEF CleanerStep, CleanupAborts, ReadTyped, ListStaged, ListRegistered, PurgeNode,
              PurgeObject, CheckPromote, MoveCopy, DropStaged, ExpireStaged,
              CollectRegistered, FinishCleanup, MoveMissing
<1>3. QED
  BY <1>1, <1>2 DEF Next, vars, StageFile, AgeObject, DeleteEntity, StartWrite, BeginWrite,
                    CuratorCrash, StartCleanup, ReadLinked

\* Once RDF has said yes, and in every answer that carries bytes, the file is
\* published; a request in progress has no answer yet.
DownloadInv ==
    /\ DownloadTypeOK
    /\ \A r \in Readers :
          /\ download[r].pc \in {"registered", "staged"} => download[r].file \in published
          /\ download[r].answer \in Served => download[r].file \in published

\* A reader's step rests on the links and on registered/ being published.
LEMMA ReaderStepServes ==
  ASSUME PublicationInv, DownloadInv, NEW r \in Readers, ReaderStep(r)
  PROVE  DownloadInv'
<1> USE DEF DownloadInv, DownloadTypeOK, At, Answer, GoTo, Answers, Served
<1>0. UNCHANGED published
  BY DEF ReaderStep, Request, Ask, AskFails, OpenRegistered, OpenStaged, ServeUnverifiable,
         StorageFails, vars, fileVars
<1>1. CASE Request(r)
  BY <1>0, <1>1 DEF Request
<1>2. CASE Ask(r)
  <2>1. Linked \subseteq published
    BY DEF PublicationInv, Linked
  <2>2. CASE GoTo(r, "registered") /\ download[r].file \in published
    BY <1>0, <2>2
  <2>3. CASE Answer(r, "unpublished")
    BY <1>0, <2>3
  <2>4. QED BY <1>2, <2>1, <2>2, <2>3 DEF Ask, IsPublished
<1>3. CASE AskFails(r)
  BY <1>0, <1>3 DEF AskFails
<1>4. CASE OpenRegistered(r)
  <2>1. CASE GoTo(r, "staged")
    BY <1>0, <1>4, <2>1 DEF OpenRegistered
  <2>2. CASE Answer(r, "registered")
    BY <1>0, <1>4, <2>2 DEF OpenRegistered
  <2>3. QED BY <1>4, <2>1, <2>2 DEF OpenRegistered
<1>5. CASE OpenStaged(r)
  <2>1. download[r].file \in published
    BY <1>5 DEF OpenStaged
  <2>2. Answer(r, "awaiting-promotion") \/ Answer(r, "missing")
    BY <1>5 DEF OpenStaged
  <2>3. QED BY <1>0, <2>1, <2>2
<1>6. CASE ServeUnverifiable(r)
  <2>1. CASE Answer(r, "registered-unverified") /\ download[r].file \in published
    BY <1>0, <2>1
  <2>2. CASE Answer(r, "unavailable")
    BY <1>0, <2>2
  <2>3. QED BY <1>6, <2>1, <2>2 DEF ServeUnverifiable, UnverifiedFrom, PublicationInv
<1>7. CASE StorageFails(r)
  BY <1>0, <1>7 DEF StorageFails
<1>8. QED
  BY <1>1, <1>2, <1>3, <1>4, <1>5, <1>6, <1>7 DEF ReaderStep

\* What a download streams was published by some entity write, whatever
\* fails, crashes or overlaps and whether or not the store answers.
THEOREM DownloadsArePublished == DownloadSpec => []ServedWasPublished
<1>1. Init /\ DownloadInit => DownloadInv
  BY DEF DownloadInit, DownloadInv, DownloadTypeOK, Answers, Served
<1>2. PublicationInv /\ DownloadInv /\ [DownloadNext]_downloadVars => DownloadInv'
  <2> SUFFICES ASSUME PublicationInv, DownloadInv, [DownloadNext]_downloadVars
               PROVE  DownloadInv'
    OBVIOUS
  <2>1. CASE Next /\ UNCHANGED download
    BY <2>1, PublishedGrows DEF DownloadInv, DownloadTypeOK
  <2>2. ASSUME NEW r \in Readers, ReaderStep(r) PROVE DownloadInv'
    BY <2>2, ReaderStepServes
  <2>3. CASE UNCHANGED downloadVars
    BY <2>3, PublishedGrows DEF downloadVars, DownloadInv, DownloadTypeOK, vars, fileVars
  <2>4. QED BY <2>1, <2>2, <2>3 DEF DownloadNext
<1>3. DownloadInv => ServedWasPublished
  BY DEF DownloadInv, ServedWasPublished
<1>4. DownloadSpec => Spec
  BY ReaderReads, PTL DEF DownloadSpec, Spec
<1>5. QED
  BY <1>1, <1>2, <1>3, <1>4, PublicationInvariant, PTL DEF DownloadSpec

------------------------------------------------------------------------------
(* A miss does not last.                                                   *)

\* An id is never minted twice, so an object that left staged/ never returns.
LEMMA StagedIsMinted ==
  ASSUME [Next]_vars
  PROVE  minted \subseteq minted' /\ minted \intersect staged' \subseteq staged
<1> USE DEF fileVars, objectVars, PutStaged, CopyToRegistered, DeleteStaged, DeleteRegistered
<1>1. ASSUME NEW w \in Writers, WriterStep(w)
      PROVE  minted' = minted /\ staged' \subseteq staged
  <2>1. CASE \/ ReconcileRegistered(w) \/ ReconcileStaged(w) \/ ReconcileDone(w)
             \/ Reject(w) \/ Validate(w) \/ PromoteMissing(w) \/ FinishWrite(w)
    BY <2>1 DEF ReconcileRegistered, ReconcileStaged, ReconcileDone, Reject, Validate,
                PromoteMissing, FinishWrite
  <2>2. CASE \/ Unlink(w) \/ UnlinkFails(w) \/ Load(w) \/ LoadFails(w)
             \/ Rollback(w) \/ RollbackFails(w)
    BY <2>2 DEF Unlink, UnlinkFails, Load, LoadFails, Rollback, RollbackFails
  <2>3. CASE PromoteCopy(w) \/ PromoteDelete(w) \/ PromoteFails(w)
    BY <2>3 DEF PromoteCopy, PromoteDelete, PromoteFails
  <2>4. QED BY <1>1, <2>1, <2>2, <2>3 DEF WriterStep
<1>2. ASSUME CleanerStep \/ CleanupAborts
      PROVE  minted' = minted /\ staged' \subseteq staged
  BY <1>2 DEF CleanerStep, CleanupAborts, ReadTyped, ListStaged, ListRegistered, PurgeNode,
              PurgeObject, CheckPromote, MoveCopy, DropStaged, ExpireStaged,
              CollectRegistered, FinishCleanup, MoveMissing
<1>3. QED
  BY <1>1, <1>2 DEF Next, vars, StageFile, AgeObject, Age, DeleteEntity, StartWrite,
                    BeginWrite, CuratorCrash, StartCleanup, ReadLinked

\* A file the reader found published is minted; one it missed is not staged.
MissInv ==
    /\ DownloadTypeOK
    /\ \A r \in Readers :
          /\ (download[r].pc \in {"registered", "staged"} \/ download[r].answer = "missing")
                => download[r].file \in minted
          /\ download[r].answer = "missing" => download[r].file \notin staged

\* The reader's own steps, on a state in which every linked file is minted.
LEMMA ReaderStepMisses ==
  ASSUME OverlapInv, MissInv, NEW r \in Readers, ReaderStep(r)
  PROVE  MissInv'
<1> USE DEF MissInv, DownloadTypeOK, At, Answer, GoTo, Answers, Served
<1>0. UNCHANGED <<minted, staged>>
  BY DEF ReaderStep, Request, Ask, AskFails, OpenRegistered, OpenStaged, ServeUnverifiable,
         StorageFails, vars, fileVars
<1>1. CASE Request(r)
  BY <1>0, <1>1 DEF Request
<1>2. CASE Ask(r)
  <2>1. Linked \subseteq minted
    BY DEF OverlapInv
  <2>2. CASE GoTo(r, "registered") /\ download[r].file \in minted
    BY <1>0, <1>2, <2>2 DEF Ask
  <2>3. CASE Answer(r, "unpublished")
    BY <1>0, <2>3
  <2>4. QED BY <1>2, <2>1, <2>2, <2>3 DEF Ask, IsPublished
<1>3. CASE AskFails(r)
  BY <1>0, <1>3 DEF AskFails
<1>4. CASE OpenRegistered(r)
  <2>1. CASE GoTo(r, "staged")
    BY <1>0, <1>4, <2>1 DEF OpenRegistered
  <2>2. CASE Answer(r, "registered")
    BY <1>0, <1>4, <2>2 DEF OpenRegistered
  <2>3. QED BY <1>4, <2>1, <2>2 DEF OpenRegistered
<1>5. CASE OpenStaged(r)
  <2>1. download[r].file \in minted
    BY <1>5 DEF OpenStaged
  <2>2. CASE Answer(r, "awaiting-promotion")
    BY <1>0, <2>1, <2>2
  <2>3. CASE Answer(r, "missing") /\ download[r].file \notin staged
    BY <1>0, <2>1, <2>3
  <2>4. QED BY <1>5, <2>2, <2>3 DEF OpenStaged
<1>6. CASE ServeUnverifiable(r)
  <2>1. CASE Answer(r, "registered-unverified")
    BY <1>0, <2>1
  <2>2. CASE Answer(r, "unavailable")
    BY <1>0, <2>2
  <2>3. QED BY <1>6, <2>1, <2>2 DEF ServeUnverifiable
<1>7. CASE StorageFails(r)
  BY <1>0, <1>7 DEF StorageFails
<1>8. QED
  BY <1>1, <1>2, <1>3, <1>4, <1>5, <1>6, <1>7 DEF ReaderStep

\* A download that found no bytes of a file that is not contested raced with a
\* promotion: if the file is still referenced, it is under registered/ by then.
THEOREM MissesAreTransient == DownloadSpec => []MissIsTransient
<1>1. Init /\ DownloadInit => MissInv
  BY DEF DownloadInit, MissInv, DownloadTypeOK, Answers, Served
<1>2. OverlapInv /\ MissInv /\ [DownloadNext]_downloadVars => MissInv'
  <2> SUFFICES ASSUME OverlapInv, MissInv, [DownloadNext]_downloadVars
               PROVE  MissInv'
    OBVIOUS
  <2>1. CASE Next /\ UNCHANGED download
    BY <2>1, StagedIsMinted DEF MissInv, DownloadTypeOK
  <2>2. ASSUME NEW r \in Readers, ReaderStep(r) PROVE MissInv'
    BY <2>2, ReaderStepMisses
  <2>3. CASE UNCHANGED downloadVars
    BY <2>3 DEF downloadVars, MissInv, DownloadTypeOK, vars, fileVars
  <2>4. QED BY <2>1, <2>2, <2>3 DEF DownloadNext
<1>3. OverlapInv /\ MissInv => MissIsTransient
  BY DEF OverlapInv, MissInv, MissIsTransient, Linked, Held, Kept
<1>4. DownloadSpec => Spec
  BY ReaderReads, PTL DEF DownloadSpec, Spec
<1>5. QED
  BY <1>1, <1>2, <1>3, <1>4, OverlapInvariant, PTL DEF DownloadSpec
==============================================================================
