------------------------------ MODULE MCExplorer -------------------------------
(* Small instances of Explorer for TLC. *)
EXTENDS Explorer, TLC

TwoLinks == {<<1, 1, 2>>, <<1, 2, 2>>}
================================================================================
