--------------------------- MODULE MCDigitalCopies ---------------------------
(* Small instances of DigitalCopies for TLC. *)
EXTENDS DigitalCopies, TLC

FileAndWriterSymmetry == Permutations(Files) \union Permutations(Writers)
==============================================================================
