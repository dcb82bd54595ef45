----------------------------- MODULE CleanupFiles -----------------------------
(***************************************************************************)
(* scripts/cleanup_files.py: reconcile() takes a snapshot of RDF and of    *)
(* the bucket with four calls (collect_file_state), then acts on that      *)
(* snapshot one call at a time.  It runs beside the live services and      *)
(* nothing locks them out.  A dry run is the same without the writes.      *)
(***************************************************************************)
EXTENDS FileState

VARIABLE cleaner    \* the script's program counter and what it remembers

CleanerPhases == {"idle", "typed", "staged", "registered",
                  "sweep", "purgeObject", "drop", "copy", "copied"}

Stopped == [pc |-> "idle",
            linked |-> {},     \* state["linked"]
            purge |-> {},      \* orphaned nodes still to purge
            promote |-> {},    \* staged and linked, still to promote
            expire |-> {},     \* staged, not linked, over the TTL
            collect |-> {},    \* registered, not linked, over the grace
            current |-> {}]    \* the file the loop body is working on

CleanerTypeOK ==
    cleaner \in [pc : CleanerPhases, linked : SUBSET Files,
                 purge : SUBSET Files, promote : SUBSET Files,
                 expire : SUBSET Files, collect : SUBSET Files,
                 current : SUBSET Files]

CleanerInit == cleaner = Stopped

CleanerIdle == cleaner.pc = "idle"

------------------------------------------------------------------------------
(* collect_file_state: links first, then nodes, then the two listings.     *)

ReadLinked ==
    /\ CleanerIdle
    /\ cleaner' = [Stopped EXCEPT !.pc = "typed", !.linked = Linked]
    /\ UNCHANGED fileVars

\* Node orphans: typed nodes that the first query did not report as linked.
PurgesStoredOnly == (typed \intersect registered) \ cleaner.linked   \* mutant
ToPurge == typed \ cleaner.linked

ReadTyped ==
    /\ cleaner.pc = "typed"
    /\ cleaner' = [cleaner EXCEPT !.pc = "staged", !.purge = ToPurge]
    /\ UNCHANGED fileVars

\* What the staged loop decides about each object: linked ones are promoted,
\* the others expire by age; those of purged nodes are left to a later run.
PromotesUncopied == (staged \intersect cleaner.linked) \ registered   \* mutant
ToPromote == (staged \intersect cleaner.linked) \ cleaner.purge

ExpiresAnyAge == staged \ (cleaner.linked \union cleaner.purge)       \* mutant
ToExpire == oldStaged \ (cleaner.linked \union cleaner.purge)

ListStaged ==
    /\ cleaner.pc = "staged"
    /\ cleaner' = [cleaner EXCEPT !.pc = "registered",
                                  !.promote = ToPromote, !.expire = ToExpire]
    /\ UNCHANGED fileVars

\* What the registered loop decides: unlinked, not purged, over the grace.
CollectsLinked == oldRegistered \ cleaner.purge                       \* mutant
CollectsTyped == (oldRegistered \intersect typed) \ cleaner.linked    \* mutant
ToCollect == oldRegistered \ (cleaner.linked \union cleaner.purge)

ListRegistered ==
    /\ cleaner.pc = "registered"
    /\ cleaner' = [cleaner EXCEPT !.pc = "sweep", !.linked = {}, !.collect = ToCollect]
    /\ UNCHANGED fileVars

------------------------------------------------------------------------------
(* reconcile: first the orphaned nodes, then staged/, then registered/.    *)

\* The node's triples go, then its registered object, whatever its age.
PurgeNode ==
    /\ cleaner.pc = "sweep"
    /\ \E f \in cleaner.purge :
          /\ DeleteNode(f)
          /\ cleaner' = [cleaner EXCEPT !.pc = "purgeObject", !.current = {f}]
    /\ UNCHANGED <<minted, objectVars, faults>>

PurgeObject ==
    /\ cleaner.pc = "purgeObject"
    /\ \E f \in cleaner.current :
          /\ DeleteRegistered(f)
          /\ cleaner' = [cleaner EXCEPT !.pc = "sweep", !.current = {},
                                        !.purge = @ \ {f}]
    /\ UNCHANGED <<minted, rdfVars, faults>>

\* Referenced but staged: move it, unless exists() finds a registered copy.
AlwaysDrop(f) == "drop"                                               \* mutant
DropOrCopy(f) == IF f \in registered THEN "drop" ELSE "copy"

CheckPromote ==
    /\ cleaner.pc = "sweep" /\ cleaner.purge = {}
    /\ \E f \in cleaner.promote :
          cleaner' = [cleaner EXCEPT !.pc = DropOrCopy(f), !.current = {f}]
    /\ UNCHANGED fileVars

MoveCopy ==
    /\ cleaner.pc = "copy"
    /\ \E f \in cleaner.current : CopyToRegistered(f)
    /\ cleaner' = [cleaner EXCEPT !.pc = "copied"]
    /\ UNCHANGED <<minted, rdfVars, faults>>

\* The staged key goes: it was copied just now, or a registered copy exists.
DropStaged ==
    /\ cleaner.pc \in {"drop", "copied"}
    /\ \E f \in cleaner.current :
          /\ DeleteStaged(f)
          /\ cleaner' = [cleaner EXCEPT !.pc = "sweep", !.current = {},
                                        !.promote = @ \ {f}]
    /\ UNCHANGED <<minted, rdfVars, faults>>

ExpireStaged ==
    /\ cleaner.pc = "sweep" /\ cleaner.purge = {}
    /\ \E f \in cleaner.expire :
          /\ DeleteStaged(f)
          /\ cleaner' = [cleaner EXCEPT !.expire = @ \ {f}]
    /\ UNCHANGED <<minted, rdfVars, faults>>

CollectRegistered ==
    /\ cleaner.pc = "sweep"
    /\ cleaner.purge = {} /\ cleaner.promote = {} /\ cleaner.expire = {}
    /\ \E f \in cleaner.collect :
          /\ DeleteRegistered(f)
          /\ cleaner' = [cleaner EXCEPT !.collect = @ \ {f}]
    /\ UNCHANGED <<minted, rdfVars, faults>>

FinishCleanup ==
    /\ cleaner.pc = "sweep"
    /\ cleaner.purge = {} /\ cleaner.promote = {}
    /\ cleaner.expire = {} /\ cleaner.collect = {}
    /\ cleaner' = Stopped
    /\ UNCHANGED fileVars

\* move() of an object that is gone raises FileNotFoundError: the run ends.
MoveMissing ==
    /\ cleaner.pc = "copy"
    /\ \E f \in cleaner.current : f \notin staged
    /\ cleaner' = Stopped
    /\ UNCHANGED fileVars

\* A store or storage call raises, or the script is killed: the run ends.
CleanupAborts ==
    /\ ~CleanerIdle
    /\ Fault
    /\ cleaner' = Stopped
    /\ UNCHANGED <<minted, objectVars, rdfVars>>

CleanerStep ==
    \/ ReadTyped \/ ListStaged \/ ListRegistered
    \/ PurgeNode \/ PurgeObject \/ CheckPromote \/ MoveCopy \/ DropStaged
    \/ ExpireStaged \/ CollectRegistered \/ FinishCleanup \/ MoveMissing
==============================================================================
