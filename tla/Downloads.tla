------------------------------ MODULE Downloads ------------------------------
(***************************************************************************)
(* The reader (dataexplorer-backend) beside the curator and the script:    *)
(* GET /rdf/data/{file_id}/content asks RDF whether the file is published, *)
(* then the bucket where its bytes are, one call after the other while     *)
(* both may change.  A store outage sends it down another path.            *)
(***************************************************************************)
EXTENDS DigitalCopies

CONSTANT Readers     \* threads that serve downloads

VARIABLE download    \* download[r]: what thread r is serving, and its answer

downloadVars == <<vars, download>>

\* X-RFDB-File-State of a 200, and what the other answers stand for: 404 (not
\* published), 404 (published, no bytes), 503.
Served == {"registered", "awaiting-promotion", "registered-unverified"}
Answers == Served \union {"none", "unpublished", "missing", "unavailable"}

DownloadTypeOK ==
    download \in [Readers -> [pc : {"idle", "ask", "registered", "staged", "unverified"},
                              file : Files, answer : Answers]]

DownloadInit ==
    \E f \in Files : download = [r \in Readers |-> [pc |-> "idle", file |-> f, answer |-> "none"]]

At(r, pc) == download[r].pc = pc /\ UNCHANGED vars
GoTo(r, pc) == download' = [download EXCEPT ![r].pc = pc]
Answer(r, a) == download' = [download EXCEPT ![r].pc = "idle", ![r].answer = a]

------------------------------------------------------------------------------
\* A request for any well-formed id, also one that was never minted.
Request(r) ==
    /\ At(r, "idle")
    /\ \E f \in Files : download' = [download EXCEPT ![r] =
                                       [pc |-> "ask", file |-> f, answer |-> "none"]]

\* is_file_referenced: one query; its answer is not looked at again.
IsPublished(f) == f \in Linked

Ask(r) ==
    /\ At(r, "ask")
    /\ IF IsPublished(download[r].file) THEN GoTo(r, "registered")
       ELSE Answer(r, "unpublished")

\* The query raises: the store is unreachable as far as this request can tell.
AskFails(r) ==
    /\ At(r, "ask")
    /\ GoTo(r, "unverified")

OpenRegistered(r) ==
    /\ At(r, "registered")
    /\ IF download[r].file \in registered THEN Answer(r, "registered")
       ELSE GoTo(r, "staged")

OpenStaged(r) ==
    /\ At(r, "staged")
    /\ Answer(r, IF download[r].file \in staged THEN "awaiting-promotion" ELSE "missing")

\* _serve_unverifiable: storage alone decides, on registered/ only.
UnverifiedFromEither == Held                                          \* mutant
UnverifiedFrom == registered

ServeUnverifiable(r) ==
    /\ At(r, "unverified")
    /\ Answer(r, IF download[r].file \in UnverifiedFrom THEN "registered-unverified"
                 ELSE "unavailable")

\* A storage call raises something else than "not found": 503.
StorageFails(r) ==
    /\ \E pc \in {"registered", "staged", "unverified"} : At(r, pc)
    /\ Answer(r, "unavailable")

ReaderStep(r) ==
    \/ Request(r) \/ Ask(r) \/ AskFails(r) \/ OpenRegistered(r) \/ OpenStaged(r)
    \/ ServeUnverifiable(r) \/ StorageFails(r)

DownloadNext ==
    \/ Next /\ UNCHANGED download
    \/ \E r \in Readers : ReaderStep(r)

DownloadSpec == Init /\ DownloadInit /\ [][DownloadNext]_downloadVars

------------------------------------------------------------------------------
\* What the reader streams was published by some entity write, with the store
\* up or down: unsubmitted uploads are one curator's working state.
ServedWasPublished ==
    \A r \in Readers : download[r].answer \in Served => download[r].file \in published

\* A 404 for missing bytes is transient: if an entity still references the
\* file, and no run had given it up while a request carried it, its bytes are
\* now where the next download looks first.
MissIsTransient ==
    \A r \in Readers :
       (download[r].answer = "missing" /\ download[r].file \in Linked \ contested)
          => download[r].file \in registered
==============================================================================
