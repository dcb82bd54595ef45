------------------------------- MODULE MCCanvas --------------------------------
(* Small instances of ExplorerView for TLC. *)
EXTENDS ExplorerView, TLC

OneLink == {<<1, 1, 2>>}
================================================================================
