------------------------------ MODULE FileState ------------------------------
(***************************************************************************)
(* What the curator, the cleanup script and the reader share: the S3       *)
(* bucket (staged/ and registered/ objects) and the digital-copy part of   *)
(* the triplestore.  Every operator below is one call to one of the two    *)
(* services, and so one atomic step; nothing spans two calls.              *)
(*                                                                         *)
(* A file is its minted id: stage_file never reuses one, so the bytes      *)
(* behind an id never change and need no state of their own.               *)
(***************************************************************************)
EXTENDS Naturals, FiniteSets

CONSTANTS
    Files,       \* the ids stage_file can mint ("File_" + 8 hex digits)
    Entities,    \* parent entities of a shape that links to DigitalCopyShape
    MaxFaults    \* bound of the model: how many failures a behaviour contains

ASSUME MaxFaultsAssumption == MaxFaults \in Nat

VARIABLES
    minted,          \* ids handed out by stage_file so far
    staged,          \* files with an object under staged/
    registered,      \* files with an object under registered/
    oldStaged,       \* staged objects older than --staged-ttl-hours
    oldRegistered,   \* registered objects older than --registered-grace-hours
    links,           \* links[e]: files that e points at with a link predicate
    typed,           \* file nodes with "a schema:DigitalDocument"
    described,       \* file nodes with their metadata triples (name, sha256, ...)
    published,       \* history: files some entity has ever linked in the store
    faults           \* failures so far, at most MaxFaults

objectVars == <<staged, registered, oldStaged, oldRegistered>>
nodeVars == <<typed, described>>
rdfVars == <<links, typed, described, published>>
fileVars == <<minted, staged, registered, oldStaged, oldRegistered,
              links, typed, described, published, faults>>

\* Files reachable from a parent entity through a schema-declared predicate.
Linked == {f \in Files : \E e \in Entities : f \in links[e]}

\* Files whose bytes the bucket still holds, under either prefix.
Held == staged \union registered

FileTypeOK ==
    /\ minted \in SUBSET Files
    /\ staged \in SUBSET minted
    /\ registered \in SUBSET minted
    /\ oldStaged \in SUBSET staged
    /\ oldRegistered \in SUBSET registered
    /\ links \in [Entities -> SUBSET Files]
    /\ typed \in SUBSET Files
    /\ described \in SUBSET Files
    /\ published \in SUBSET Files
    /\ faults \in 0..MaxFaults

FileInit ==
    /\ minted = {}
    /\ staged = {}
    /\ registered = {}
    /\ oldStaged = {}
    /\ oldRegistered = {}
    /\ links = [e \in Entities |-> {}]
    /\ typed = {}
    /\ described = {}
    /\ published = {}
    /\ faults = 0

------------------------------------------------------------------------------
(* Storage calls (GarageStorage).  A written or copied object is young.    *)

PutStaged(f) ==
    /\ staged' = staged \union {f}
    /\ oldStaged' = oldStaged \ {f}
    /\ UNCHANGED <<registered, oldRegistered>>

\* The first half of move(): copy_object.  Raises when the source is absent.
CopyToRegistered(f) ==
    /\ f \in staged
    /\ registered' = registered \union {f}
    /\ oldRegistered' = oldRegistered \ {f}
    /\ UNCHANGED <<staged, oldStaged>>

\* delete_object of the staged key: move()'s second half, or a plain delete.
DeleteStaged(f) ==
    /\ staged' = staged \ {f}
    /\ oldStaged' = oldStaged \ {f}
    /\ UNCHANGED <<registered, oldRegistered>>

DeleteRegistered(f) ==
    /\ registered' = registered \ {f}
    /\ oldRegistered' = oldRegistered \ {f}
    /\ UNCHANGED <<staged, oldStaged>>

------------------------------------------------------------------------------
(* Store calls (OxigraphStore).  Each is one HTTP request.                 *)

\* load_turtle of a payload: e links to files; the nodes' metadata comes with
\* them only for the files whose bytes were staged (the others are stripped).
LoadPayload(e, files, derived) ==
    /\ links' = [links EXCEPT ![e] = @ \union files]
    /\ typed' = typed \union files
    /\ described' = described \union derived
    /\ published' = published \union files

\* load_turtle of a rollback snapshot: only <e> ?p ?o triples, so only links.
LoadLinks(e, files) ==
    /\ links' = [links EXCEPT ![e] = @ \union files]
    /\ published' = published \union files
    /\ UNCHANGED nodeVars

\* DELETE { <e> ?pred ?o } for the link predicate, or { <e> ?p ?o }.
DeleteLinks(e) ==
    /\ links' = [links EXCEPT ![e] = {}]
    /\ UNCHANGED <<typed, described, published>>

\* DELETE { <file> ?p ?o }.
DeleteNode(f) ==
    /\ typed' = typed \ {f}
    /\ described' = described \ {f}
    /\ UNCHANGED <<links, published>>

------------------------------------------------------------------------------
\* A call fails: an error, a timeout, or the death of the calling process.
Fault ==
    /\ faults < MaxFaults
    /\ faults' = faults + 1

\* Time passes the age limit of one object.
Age(f) ==
    /\ \/ /\ f \in staged \ oldStaged
          /\ oldStaged' = oldStaged \union {f}
          /\ UNCHANGED oldRegistered
       \/ /\ f \in registered \ oldRegistered
          /\ oldRegistered' = oldRegistered \union {f}
          /\ UNCHANGED oldStaged
    /\ UNCHANGED <<staged, registered>>
==============================================================================
