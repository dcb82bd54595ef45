---------------------------- MODULE DigitalCopies ----------------------------
(***************************************************************************)
(* The digital-copy subsystem: the curator backend's requests and the      *)
(* cleanup script, over the bucket and the triplestore they share.         *)
(***************************************************************************)
EXTENDS CuratorWrites, CleanupFiles

\* History: the files that a request carried while a cleanup run under way had
\* found them linked from nowhere.  Nothing in the code keeps the two apart, and
\* what the run then does to such a file overtakes the request.
VARIABLE contested

vars == <<fileVars, req, cleaner, contested>>

TypeOK == FileTypeOK /\ WritersTypeOK /\ CleanerTypeOK /\ contested \in SUBSET Files

Init == FileInit /\ WritersInit /\ CleanerInit /\ contested = {}

\* Files that the requests in progress have linked or may yet link.
CarriedBy(r) ==
    IF r.pc = "idle" THEN {} ELSE r.files \union r.promote \union r.snapshot
Carried == UNION {CarriedBy(req[w]) : w \in Writers}

\* Files that the run under way may delete something of: those on its lists,
\* and while it still reads, all that it did not find linked.
Condemned ==
    {f \in Files : \/ f \in cleaner.purge \union cleaner.expire \union cleaner.collect
                   \/ cleaner.pc \in {"typed", "staged", "registered"} /\ f \notin cleaner.linked}

\* Carried grows only when a request arrives, Condemned when a run begins.
Contest == contested' = contested \union (Carried' \intersect Condemned')

StartWrite(w) ==
    /\ BeginWrite(w)
    /\ UNCHANGED cleaner
    /\ Contest

StartCleanup ==
    /\ ReadLinked
    /\ UNCHANGED req
    /\ Contest

AgeObject(f) ==
    /\ Age(f)
    /\ UNCHANGED <<minted, rdfVars, faults, req, cleaner, contested>>

Next ==
    \/ \E f \in Files : StageFile(f) /\ UNCHANGED <<cleaner, contested>>
    \/ \E f \in Files : AgeObject(f)
    \/ \E e \in Entities : DeleteEntity(e) /\ UNCHANGED <<cleaner, contested>>
    \/ \E w \in Writers : StartWrite(w)
    \/ \E w \in Writers : WriterStep(w) /\ UNCHANGED <<cleaner, contested>>
    \/ CuratorCrash /\ UNCHANGED <<cleaner, contested>>
    \/ StartCleanup
    \/ CleanerStep /\ UNCHANGED <<req, contested>>
    \/ CleanupAborts /\ UNCHANGED <<req, contested>>

Spec == Init /\ [][Next]_vars

\* A thread that serves a request goes on with it, the operator keeps running
\* the script, the script goes on once started, and time passes.
Fairness ==
    /\ \A w \in Writers : WF_vars(WriterStep(w) /\ UNCHANGED <<cleaner, contested>>)
    /\ WF_vars(StartCleanup)
    /\ WF_vars(CleanerStep /\ UNCHANGED <<req, contested>>)
    /\ \A f \in Files : WF_vars(AgeObject(f))

FairSpec == Spec /\ Fairness

------------------------------------------------------------------------------
\* An object under registered/ is there because an entity write put a link to
\* its file into the store: what the reader's _serve_unverifiable relies on
\* when it serves registered/ while the triplestore is down.
RegisteredWasPublished == registered \subseteq published

\* An upload that no write has published yet loses its object only when it is
\* over the TTL: a curator's open form keeps its files that long, whatever
\* other requests and cleanup runs do meanwhile.
UploadKeptUntilTTL ==
    [][\A f \in staged \ staged' : f \in published \/ f \in oldStaged]_vars

\* Every file that an entity references has its bytes, under one prefix or
\* the other, even half way through a promotion, after a failed one, or while
\* a run works on what it read before: only a contested file may lose them.
ReferencedHeld == Linked \ contested \subseteq Held

\* Every referenced file has its typed node with the metadata: a write that
\* stripped the node because registered/ had the object found it in the store.
ReferencedDescribed == Linked \ contested \subseteq typed \intersect described

\* The last copy of a file goes only while no entity references it, or after a
\* request carried the file that a run had found unreferenced.
LastCopyUnreferenced ==
    [][\A f \in Held \ Held' : f \notin Linked \/ f \in contested]_vars

\* The subsystem implements the registry: which prefix holds a file, how far a
\* move has come, and who is cleaning up are invisible.
Registry == INSTANCE FileRegistry WITH uploaded <- minted, held <- Held,
                                       refs <- links, released <- published,
                                       disputed <- contested
ImplementsRegistry == Registry!RegSpec

\* A referenced file does not stay staged for ever: a promotion that failed or
\* that a crash interrupted is completed by a later cleanup run.
PromotionCompletes == \A f \in Files : ~<>[](f \in Linked /\ f \in staged)

\* Bytes nothing references are collected in the end, wherever the requests
\* and runs that should have moved or deleted them stopped.
GarbageCollected == \A f \in Files : ~<>[](f \in Held /\ f \notin Linked)

\* An orphaned node does not stay for ever.
OrphansPurged == \A f \in Files : ~<>[](f \in typed /\ f \notin Linked)
==============================================================================
