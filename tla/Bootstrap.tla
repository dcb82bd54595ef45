------------------------------- MODULE Bootstrap -------------------------------
(* How the triplestore is brought to its baseline (curator-backend/core/seeder.py *)
(* bootstrap_store) by the curator service at startup and by one-shot seed jobs,  *)
(* over a store that comes up late, fails or answers a call after its caller died.*)
EXTENDS Integers, Sequences, FiniteSets

CONSTANTS Services, Jobs, \* processes that serve afterwards, and those that exit
          Paths,          \* the files to seed, in order (vocab_paths, data_path)
          Missing,        \* those of them that do not exist
          Target,         \* the graph that is loaded: "data", or "default" if none is set
          Old, Entry,     \* what was stored before, and what a curator adds
          MaxPolls,       \* bound: polls until _READY_TIMEOUT_S is over
          MaxStarts,      \* bound: starts of a process
          MaxOutages      \* bound: times the store goes down after the beginning

GraphNames == {"data", "default"}
Seeds == {Paths[i] : i \in DOMAIN Paths}
ASSUME BootstrapAssumption ==
  /\ Services \intersect Jobs = {} /\ Target \in GraphNames /\ Missing \subseteq Seeds
  /\ Paths \in Seq(Seeds) /\ Paths # <<>>
  /\ {Old, Entry} \intersect Seeds = {} /\ Old # Entry
  /\ MaxPolls \in Nat /\ MaxStarts \in Nat /\ MaxOutages \in Nat

VARIABLES reset,   \* reset_data_on_startup, as each process is given it
          up,      \* the store answers HTTP requests
          graph,   \* what each graph of the store holds
          late,    \* calls whose caller is gone and which the store may still carry out
          wiped,   \* such a call has wiped a graph
          proc     \* where each process is
vars == <<reset, up, graph, late, wiped, proc>>

Procs == Services \union Jobs
Graphs == SUBSET (Seeds \union {Old, Entry})
Process == [at : {"off", "waiting", "dropping", "clearing", "seeding", "serving", "done",
                  "aborted"},
            polls : 0..MaxPolls, next : 1..Len(Paths) + 1, starts : 0..MaxStarts]
Calls == [what : {"drop", "clear", "load"}, item : Seeds]

TypeOK == /\ reset \in [Procs -> BOOLEAN] /\ wiped \in BOOLEAN
          /\ up \in [now : BOOLEAN, outages : 0..MaxOutages]
          /\ graph \in [GraphNames -> Graphs]
          /\ late \subseteq Calls
          /\ proc \in [Procs -> Process]

Init == /\ reset \in [Procs -> BOOLEAN] /\ wiped = FALSE /\ late = {}
        /\ up \in [now : BOOLEAN, outages : {0}]
        /\ graph = [g \in GraphNames |-> {Old}]
        /\ proc = [p \in Procs |-> [at |-> "off", polls |-> 0, next |-> 1, starts |-> 0]]

At(p, a) == proc[p].at = a
Goes(p, a) == proc' = [proc EXCEPT ![p].at = a]
Stays == UNCHANGED <<reset, up, graph, late, wiped>>

(* A process starts; the service also aborts when its schema does not parse.      *)
Start(p) ==
  /\ proc[p].at \in {"off", "aborted"} /\ proc[p].starts < MaxStarts
  /\ \E a \in {"waiting"} \union (IF p \in Services THEN {"aborted"} ELSE {}) :
       proc' = [proc EXCEPT ![p] = [at |-> a, polls |-> 0, next |-> 1, starts |-> @.starts + 1]]
  /\ Stays

(* wait_for_store: poll until the store answers or the deadline is over.          *)
ResetsAlways(p) == "dropping"      \* mutant
AfterWait(p) == IF reset[p] THEN "dropping" ELSE "seeding"
PollForever(p) ==      \* mutant
  /\ At(p, "waiting")
  /\ Goes(p, IF up.now THEN AfterWait(p) ELSE "waiting")
  /\ Stays
Poll(p) ==
  /\ At(p, "waiting")
  /\ \/ up.now /\ Goes(p, AfterWait(p))
     \/ ~up.now /\ proc[p].polls < MaxPolls /\ proc' = [proc EXCEPT ![p].polls = @ + 1]
     \/ ~up.now /\ proc[p].polls = MaxPolls /\ Goes(p, "aborted")
  /\ Stays

(* The calls, and what the store does when it carries one out.                    *)
DropAll == [what |-> "drop", item |-> Paths[1]]
ClearDefault == [what |-> "clear", item |-> Paths[1]]
Load(f) == [what |-> "load", item |-> f]
Effect(c) ==
  CASE c.what = "drop"  -> [graph EXCEPT !["data"] = {}]
    [] c.what = "clear" -> [graph EXCEPT !["default"] = {}]
    [] c.what = "load"  -> [graph EXCEPT ![Target] = @ \union {c.item}]

(* A call succeeds, fails, or is given up while the store may still carry it out. *)
Succeeds(c) == up.now /\ graph' = Effect(c) /\ UNCHANGED <<reset, up, late, wiped>>
FailsOr(c) == late' \in {late, late \union {c}} /\ UNCHANGED <<reset, up, graph, wiped>>
Drop(p) ==
  /\ At(p, "dropping")
  /\ \/ Succeeds(DropAll) /\ Goes(p, "clearing")
     \/ FailsOr(DropAll) /\ Goes(p, "aborted")
ClearGoesOn(p) ==      \* mutant
  /\ At(p, "clearing")
  /\ Succeeds(ClearDefault) \/ FailsOr(ClearDefault)
  /\ Goes(p, "seeding")
Clear(p) ==
  /\ At(p, "clearing")
  /\ \/ Succeeds(ClearDefault) /\ Goes(p, "seeding")
     \/ FailsOr(ClearDefault) /\ Goes(p, "aborted")

(* seed_store: the files in order; one that does not exist is passed over.        *)
LastForgotten(p) == proc[p].next < Len(Paths)      \* mutant
More(p) == proc[p].next <= Len(Paths)
GoesOn(p) == proc' = [proc EXCEPT ![p].next = @ + 1]
LoadFailureSkipped(p) ==      \* mutant
  /\ At(p, "seeding") /\ More(p)
  /\ LET f == Paths[proc[p].next] IN
       \/ f \in Missing /\ GoesOn(p) /\ Stays
       \/ f \notin Missing /\ (Succeeds(Load(f)) \/ FailsOr(Load(f))) /\ GoesOn(p)
Seed(p) ==
  /\ At(p, "seeding") /\ More(p)
  /\ LET f == Paths[proc[p].next] IN
       \/ f \in Missing /\ GoesOn(p) /\ Stays
       \/ f \notin Missing /\ Succeeds(Load(f)) /\ GoesOn(p)
       \/ f \notin Missing /\ FailsOr(Load(f)) /\ Goes(p, "aborted")
Ready(p) == /\ At(p, "seeding") /\ ~More(p)
            /\ Goes(p, IF p \in Services THEN "serving" ELSE "done")
            /\ Stays

(* A process stops anywhere, in the middle of a call too.                         *)
Pending(p) ==
  CASE At(p, "dropping") -> {DropAll}
    [] At(p, "clearing") -> {ClearDefault}
    [] At(p, "seeding") /\ More(p) -> {Load(Paths[proc[p].next])}
    [] OTHER -> {}
Crash(p) ==
  /\ proc[p].at \notin {"off", "aborted", "done"}
  /\ Goes(p, "aborted")
  /\ \E cs \in SUBSET (Pending(p) \ {Load(f) : f \in Missing}) : late' = late \union cs
  /\ UNCHANGED <<reset, up, graph, wiped>>

(* The store carries out a call that nobody waits for, or goes down and forgets it.*)
CarryOut(c) ==
  /\ up.now /\ c \in late
  /\ graph' = Effect(c) /\ late' = late \ {c}
  /\ wiped' = (wiped \/ c.what # "load")
  /\ UNCHANGED <<reset, up, proc>>
StoreUp == ~up.now /\ up' = [up EXCEPT !.now = TRUE] /\ UNCHANGED <<reset, graph, late, wiped, proc>>
StoreDown == /\ up.now /\ up.outages < MaxOutages
             /\ up' = [now |-> FALSE, outages |-> up.outages + 1] /\ late' = {}
             /\ UNCHANGED <<reset, graph, wiped, proc>>

(* The curator routes of a service that serves.                                   *)
Curate == /\ up.now /\ \E p \in Services : At(p, "serving")
          /\ graph' = [graph EXCEPT ![Target] = @ \union {Entry}]
          /\ UNCHANGED <<reset, up, late, wiped, proc>>

Boot(p) == Poll(p) \/ Drop(p) \/ Clear(p) \/ Seed(p) \/ Ready(p)
Next == \/ \E p \in Procs : Start(p) \/ Boot(p) \/ Crash(p)
        \/ \E c \in late : CarryOut(c)
        \/ StoreUp \/ StoreDown \/ Curate
Spec == Init /\ [][Next]_vars
FairSpec == Spec /\ \A p \in Procs : WF_vars(Boot(p))

(* Until a process with the reset setting is started, nothing takes away what      *)
(* curators stored: no crash, restart, late call or other process, although a seed *)
(* job may be given the setting where the service is not (bootstrap_store).        *)
ResetStarted == \E p \in Procs : reset[p] /\ proc[p].starts > 0
NoResetKeepsData ==
  [][~ResetStarted => \A g \in GraphNames : graph[g] \subseteq graph'[g]]_vars

(* A service that serves after a reset serves nothing that was stored before it,   *)
(* whatever processes without one do: a clear that stopped half way aborts the     *)
(* startup (seeder.py, Raises).                                                    *)
ServesCleared ==
  \A p \in Services : At(p, "serving") /\ reset[p] => \A g \in GraphNames : Old \notin graph[g]

(* When no process is half way through its startup and no wipe came late, a store  *)
(* some process made ready holds every file there was to seed, however startups    *)
(* and resets of several processes were mixed (bootstrap_store, one call).         *)
Settled == \A p \in Procs : proc[p].at \in {"off", "serving", "done"}
SettledIsSeeded ==
  Settled /\ ~wiped /\ (\E p \in Procs : ~At(p, "off")) => Seeds \ Missing \subseteq graph[Target]

(* Until a reset is started that holds of every process that got ready, whatever   *)
(* the others are doing.                                                           *)
ReadyIsSeeded ==
  ~ResetStarted /\ (\E p \in Procs : proc[p].at \in {"serving", "done"})
    => Seeds \ Missing \subseteq graph[Target]

(* A startup ends, ready or aborted, even if the store never comes up.             *)
BootEnds ==
  \A p \in Procs : At(p, "waiting") ~> proc[p].at \in {"serving", "done", "aborted"}
================================================================================
