--------------------------------- MODULE MCForm ---------------------------------
(* Two records of one shape, one of which links to a bridge and a file.           *)
EXTENDS CuratorForm
CONSTANTS work, role, w1, w2, b, f
ShapeMap == w1 :> work @@ w2 :> work 
FirstLinks == w1 :> {b, f} @@ w2 :> {}
================================================================================
