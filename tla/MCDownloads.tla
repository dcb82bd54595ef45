----------------------------- MODULE MCDownloads -----------------------------
(* Small instances of Downloads for TLC. *)
EXTENDS Downloads, TLC

WriterSymmetry == Permutations(Writers)

WritesInProgress == {w \in Writers : req[w].pc # "idle"}
NoDownloadYet == \A r \in Readers : download[r].answer = "none" /\ download[r].pc = "idle"

\* Bound: two writes at once only before the first failure and the first
\* download; after both, no further write.
FewAtOnce ==
    Cardinality(WritesInProgress) <=
       (IF faults = 0 THEN 1 ELSE 0) + (IF NoDownloadYet THEN 1 ELSE 0)
==============================================================================
