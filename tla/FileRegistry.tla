----------------------------- MODULE FileRegistry -----------------------------
(***************************************************************************)
(* What the digital-copy subsystem promises: one registry of files and of  *)
(* the entities that reference them.  There is one set of bytes per file,  *)
(* no prefixes, no promotion, no requests in progress and no clean-up run. *)
(* A reference is only ever made to a file whose bytes are held, and bytes *)
(* are only ever discarded while nothing references them.  The exception   *)
(* is a disputed file: nothing referenced it when it was given up, but     *)
(* somebody was about to.                                                  *)
(***************************************************************************)
CONSTANTS Files, Entities

VARIABLES
    uploaded,    \* files ever uploaded
    held,        \* files whose bytes are kept
    refs,        \* refs[e]: files that entity e references
    released,    \* files ever referenced
    disputed     \* files given up while somebody was about to reference them

regVars == <<uploaded, held, refs, released, disputed>>

Referenced == {f \in Files : \E e \in Entities : f \in refs[e]}

RegInit ==
    /\ uploaded = {}
    /\ held = {}
    /\ refs = [e \in Entities |-> {}]
    /\ released = {}
    /\ disputed = {}

Upload(f) ==
    /\ f \notin uploaded
    /\ uploaded' = uploaded \union {f}
    /\ held' = held \union {f}
    /\ UNCHANGED <<refs, released, disputed>>

\* A write or a rollback adds references to files that are held, or disputed.
Reference(e, files) ==
    /\ refs' = [refs EXCEPT ![e] = @ \union files]
    /\ released' = released \union files
    /\ UNCHANGED <<uploaded, held, disputed>>

Withdraw(e) ==
    /\ refs' = [refs EXCEPT ![e] = {}]
    /\ UNCHANGED <<uploaded, held, released, disputed>>

Discard(f) ==
    /\ f \notin Referenced \/ f \in disputed
    /\ held' = held \ {f}
    /\ UNCHANGED <<uploaded, refs, released, disputed>>

\* A file comes into dispute only while nothing references it.
Dispute(files) ==
    /\ files \intersect Referenced = {}
    /\ disputed' = disputed \union files
    /\ UNCHANGED <<uploaded, held, refs, released>>

RegNext ==
    \/ \E f \in Files : Upload(f) \/ Discard(f)
    \/ \E e \in Entities :
          \/ Withdraw(e)
          \/ \E files \in SUBSET (held \union disputed) : Reference(e, files)
    \/ \E files \in SUBSET Files : Dispute(files)

RegSpec == RegInit /\ [][RegNext]_regVars
==============================================================================
