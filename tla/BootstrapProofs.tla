---------------------------- MODULE BootstrapProofs ----------------------------
(* Startup and seeding for every number of services and seed jobs, every list of *)
(* files and any crashes, outages and late calls.                                 *)
EXTENDS Bootstrap, TLAPS

USE BootstrapAssumption

LEMMA PathsHaveItems ==
  /\ Len(Paths) \in Nat \ {0} /\ Paths[1] \in Seeds
  /\ \A i \in 1..Len(Paths) : Paths[i] \in Seeds
  /\ \A f \in Seeds : \E i \in 1..Len(Paths) : Paths[i] = f
<1>1. Paths \in Seq(Seeds) /\ Paths # <<>> OBVIOUS
<1>2. Len(Paths) \in Nat \ {0} BY <1>1
<1>3. DOMAIN Paths = 1..Len(Paths) BY <1>1
<1> QED BY <1>2, <1>3 DEF Seeds

(* What a call of the program does to a graph of the store (Effect). *)
LEMMA EffectOfCall ==
  ASSUME NEW c \in Calls, graph \in [GraphNames -> Graphs]
  PROVE  /\ Effect(c) \in [GraphNames -> Graphs]
         /\ \A g \in GraphNames : Old \notin graph[g] => Old \notin Effect(c)[g]
         /\ c.what = "load" => \A g \in GraphNames : graph[g] \subseteq Effect(c)[g]
<1>1. CASE c.what = "drop"
  <2>1. Effect(c) = [graph EXCEPT !["data"] = {}] BY <1>1 DEF Effect
  <2> QED BY <1>1, <2>1 DEF GraphNames, Graphs
<1>2. CASE c.what = "clear"
  <2>1. Effect(c) = [graph EXCEPT !["default"] = {}] BY <1>2 DEF Effect
  <2> QED BY <1>2, <2>1 DEF GraphNames, Graphs
<1>3. CASE c.what = "load"
  <2>1. Effect(c) = [graph EXCEPT ![Target] = @ \union {c.item}] BY <1>3 DEF Effect
  <2>2. c.item \in Seeds /\ c.item # Old BY DEF Calls
  <2>3. Effect(c) \in [GraphNames -> Graphs] BY <2>1, <2>2 DEF GraphNames, Graphs
  <2>4. \A g \in GraphNames : Effect(c)[g] = IF g = Target THEN graph[g] \union {c.item} ELSE graph[g]
    BY <2>1
  <2> QED BY <1>3, <2>2, <2>3, <2>4
<1> QED BY <1>1, <1>2, <1>3 DEF Calls

LEMMA CallsAreCalls ==
  DropAll \in Calls /\ ClearDefault \in Calls /\ \A f \in Seeds : Load(f) \in Calls
BY PathsHaveItems DEF DropAll, ClearDefault, Load, Calls

Places == {"off", "waiting", "dropping", "clearing", "seeding", "serving", "done", "aborted"}
(* The three ways in which a process record is updated stay within its type.      *)
LEMMA ProcessUpdate ==
  ASSUME NEW r \in Process
  PROVE  /\ r.at \in Places /\ r.next \in 1..(Len(Paths) + 1) /\ r.starts \in 0..MaxStarts
         /\ \A a \in Places : [r EXCEPT !.at = a] \in Process
         /\ r.polls < MaxPolls => [r EXCEPT !.polls = @ + 1] \in Process
         /\ r.next <= Len(Paths) => [r EXCEPT !.next = @ + 1] \in Process
<1>1. Len(Paths) \in Nat BY PathsHaveItems
<1>2. PICK a \in Places, n \in 0..MaxPolls, i \in 1..(Len(Paths) + 1), k \in 0..MaxStarts :
        r = [at |-> a, polls |-> n, next |-> i, starts |-> k]
  BY DEF Process, Places
<1>3. /\ \A b \in Places : [r EXCEPT !.at = b] = [at |-> b, polls |-> n, next |-> i, starts |-> k]
      /\ [r EXCEPT !.polls = @ + 1] = [at |-> a, polls |-> n + 1, next |-> i, starts |-> k]
      /\ [r EXCEPT !.next = @ + 1] = [at |-> a, polls |-> n, next |-> i + 1, starts |-> k]
  BY <1>2
<1>4. \A b \in Places : [at |-> b, polls |-> n, next |-> i, starts |-> k] \in Process
  BY DEF Process, Places
<1>5. n < MaxPolls => [at |-> a, polls |-> n + 1, next |-> i, starts |-> k] \in Process
  BY DEF Process, Places
<1>6. i <= Len(Paths) => [at |-> a, polls |-> n, next |-> i + 1, starts |-> k] \in Process
  BY <1>1 DEF Process, Places
<1> QED BY <1>2, <1>3, <1>4, <1>5, <1>6

LEMMA ProcBounds ==
  ASSUME TypeOK, NEW p \in Procs
  PROVE  /\ proc[p] \in Process /\ proc[p].at \in Places
         /\ proc[p].next \in 1..(Len(Paths) + 1) /\ proc[p].starts \in 0..MaxStarts
<1>1. proc[p] \in Process BY DEF TypeOK
<1> QED BY <1>1, ProcessUpdate

(* Each process moves by one of these, which leave the other processes alone.     *)
Moves(p) == Start(p) \/ Boot(p) \/ Crash(p)
LEMMA MovesOne ==
  ASSUME NEW p \in Procs, TypeOK, Moves(p)
  PROVE  /\ proc' \in [Procs -> Process] /\ \A q \in Procs \ {p} : proc'[q] = proc[q]
         /\ reset' = reset
<1> USE PathsHaveItems DEF TypeOK
<1>0. ASSUME NEW a \in Places, Goes(p, a)
      PROVE  proc' \in [Procs -> Process] /\ \A q \in Procs \ {p} : proc'[q] = proc[q]
  <2>1. proc' = [proc EXCEPT ![p] = [proc[p] EXCEPT !.at = a]] BY <1>0 DEF Goes
  <2>2. [proc[p] EXCEPT !.at = a] \in Process BY ProcessUpdate
  <2> QED BY <2>1, <2>2
<1>1. CASE Start(p)
  <2> DEFINE Begun(a) == [at |-> a, polls |-> 0, next |-> 1, starts |-> proc[p].starts + 1]
  <2>1. PICK a \in Places : proc' = [proc EXCEPT ![p] = Begun(a)]
    <3>1. \E a \in {"waiting"} \union (IF p \in Services THEN {"aborted"} ELSE {}) :
            proc' = [proc EXCEPT ![p] = Begun(a)]
      BY <1>1 DEF Start
    <3> QED BY <3>1 DEF Places
  <2>2. Begun(a) \in Process
    <3>1. proc[p].starts \in 0..MaxStarts /\ proc[p].starts < MaxStarts
      BY <1>1, ProcBounds DEF Start
    <3>2. proc[p].starts + 1 \in 0..MaxStarts BY <3>1
    <3> QED BY <3>2 DEF Process, Places
  <2>3. reset' = reset BY <1>1 DEF Start, Stays
  <2> HIDE DEF Begun
  <2> QED BY <2>1, <2>2, <2>3
<1>2. CASE Poll(p)
  <2>1. CASE up.now /\ Goes(p, AfterWait(p)) BY <1>0, <1>2, <2>1 DEF Poll, Stays, AfterWait, Places
  <2>2. CASE ~up.now /\ proc[p].polls < MaxPolls /\ proc' = [proc EXCEPT ![p].polls = @ + 1]
    <3>1. [proc[p] EXCEPT !.polls = @ + 1] \in Process BY <2>2, ProcessUpdate
    <3>2. proc' = [proc EXCEPT ![p] = [proc[p] EXCEPT !.polls = @ + 1]] BY <2>2
    <3> QED BY <1>2, <3>1, <3>2 DEF Poll, Stays
  <2>3. CASE Goes(p, "aborted") BY <1>0, <1>2, <2>3 DEF Places, Poll, Stays
  <2> QED BY <1>2, <2>1, <2>2, <2>3 DEF Poll
<1>3. CASE Drop(p) BY <1>0, <1>3 DEF Places, Drop, Succeeds, FailsOr
<1>4. CASE Clear(p) BY <1>0, <1>4 DEF Places, Clear, Succeeds, FailsOr
<1>5. CASE Seed(p)
  <2>1. reset' = reset BY <1>5 DEF Seed, Succeeds, FailsOr, Stays
  <2>2. CASE GoesOn(p)
    <3>1. proc[p].next <= Len(Paths) BY <1>5 DEF Seed, More
    <3>3. [proc[p] EXCEPT !.next = @ + 1] \in Process BY <3>1, ProcessUpdate
    <3>2. proc' = [proc EXCEPT ![p] = [proc[p] EXCEPT !.next = @ + 1]] BY <2>2 DEF GoesOn
    <3> QED BY <2>1, <3>2, <3>3
  <2>3. CASE Goes(p, "aborted") BY <1>0, <2>1, <2>3 DEF Places
  <2> QED BY <1>5, <2>2, <2>3 DEF Seed
<1>6. CASE Ready(p) BY <1>0, <1>6 DEF Places, Ready, Stays
<1>7. CASE Crash(p) BY <1>0, <1>7 DEF Places, Crash
<1> QED BY <1>1, <1>2, <1>3, <1>4, <1>5, <1>6, <1>7 DEF Moves, Boot

(* ------------------------------ type correctness ------------------------------ *)
LEMMA TypeStep ==
  ASSUME TypeOK, [Next]_vars
  PROVE  TypeOK'
<1> USE PathsHaveItems, CallsAreCalls
<1>1. ASSUME NEW p \in Procs, Moves(p) PROVE TypeOK'
  <2>1. proc' \in [Procs -> Process] /\ reset' = reset BY <1>1, MovesOne
  <2>2. /\ graph' \in [GraphNames -> Graphs] /\ late' \subseteq Calls
        /\ up' = up /\ wiped' = wiped
    <3>1. \A c \in Calls : Effect(c) \in [GraphNames -> Graphs] BY EffectOfCall DEF TypeOK
    <3>2. \A c \in Calls : Succeeds(c) \/ FailsOr(c) =>
            /\ graph' \in [GraphNames -> Graphs] /\ late' \subseteq Calls
            /\ up' = up /\ wiped' = wiped
      BY <3>1 DEF Succeeds, FailsOr, TypeOK
    <3>3. Stays => /\ graph' \in [GraphNames -> Graphs] /\ late' \subseteq Calls
                   /\ up' = up /\ wiped' = wiped
      BY DEF Stays, TypeOK
    <3>4. CASE Start(p) BY <3>3, <3>4 DEF Start
    <3>5. CASE Poll(p) BY <3>3, <3>5 DEF Poll
    <3>6. CASE Drop(p) BY <3>2, <3>6 DEF Drop
    <3>7. CASE Clear(p) BY <3>2, <3>7 DEF Clear
    <3>8. CASE Seed(p)
      <4>1. proc[p].next \in 1..Len(Paths)
        BY <3>8, ProcBounds DEF Seed, More
      <4>2. Load(Paths[proc[p].next]) \in Calls BY <4>1
      <4> QED BY <3>2, <3>3, <3>8, <4>2 DEF Seed
    <3>9. CASE Ready(p) BY <3>3, <3>9 DEF Ready
    <3>10. CASE Crash(p)
      <4>1. Pending(p) \subseteq Calls
        <5>1. At(p, "seeding") /\ More(p) => Load(Paths[proc[p].next]) \in Calls
          <6>1. More(p) => proc[p].next \in 1..Len(Paths) BY ProcBounds DEF More
          <6> QED BY <6>1
        <5> QED BY <5>1 DEF Pending
      <4> QED BY <3>10, <4>1 DEF Crash, TypeOK
    <3> QED BY <1>1, <3>4, <3>5, <3>6, <3>7, <3>8, <3>9, <3>10 DEF Moves, Boot
  <2> QED BY <2>1, <2>2 DEF TypeOK
<1>2. ASSUME NEW c \in late, CarryOut(c) PROVE TypeOK'
  <2>1. c \in Calls BY DEF TypeOK
  <2> QED BY <1>2, <2>1, EffectOfCall DEF CarryOut, TypeOK
<1>3. CASE StoreUp BY <1>3 DEF StoreUp, TypeOK
<1>4. CASE StoreDown BY <1>4 DEF StoreDown, TypeOK
<1>5. CASE Curate BY <1>5 DEF Curate, TypeOK, Graphs, GraphNames
<1>6. CASE UNCHANGED vars BY <1>6 DEF vars, TypeOK
<1> QED BY <1>1, <1>2, <1>3, <1>4, <1>5, <1>6 DEF Next, Moves

LEMMA InitTypeOK == Init => TypeOK
<1> SUFFICES ASSUME Init PROVE TypeOK OBVIOUS
<1>1. [at |-> "off", polls |-> 0, next |-> 1, starts |-> 0] \in Process
  BY PathsHaveItems DEF Process
<1>2. proc \in [Procs -> Process] BY <1>1 DEF Init
<1>3. graph \in [GraphNames -> Graphs] BY DEF Init, Graphs
<1>4. up \in [now : BOOLEAN, outages : 0..MaxOutages] BY DEF Init
<1> QED BY <1>2, <1>3, <1>4 DEF Init, TypeOK

(* The store and the processes keep their types, and the polls, the starts and the *)
(* place in the list of files stay within their bounds.                            *)
THEOREM TypeCorrect == Spec => []TypeOK
BY InitTypeOK, TypeStep, PTL DEF Spec

(* --------------------------------- safety --------------------------------- *)
Loaded(p) == {Paths[i] : i \in 1..(proc[p].next - 1)}
At1(p) == proc[p].at \in {"waiting", "dropping", "clearing"}
Fresh == \A p \in Procs : At1(p) => proc[p].next = 1
(* Only a process that was started does anything, and only one with the setting  *)
(* wipes; until then nothing on its way to the store wipes anything.             *)
Resetting == \A p \in Procs : /\ proc[p].at # "off" => proc[p].starts > 0
                              /\ proc[p].at \in {"dropping", "clearing"} => reset[p]
NoWipe == ~ResetStarted => /\ \A p \in Procs : proc[p].at \notin {"dropping", "clearing"}
                           /\ \A c \in late : c.what = "load"
(* How far a reset has got when a process is past its drop, or past its clear.   *)
Cleared == \A p \in Procs : reset[p] =>
  /\ proc[p].at = "clearing" => Old \notin graph["data"]
  /\ proc[p].at \in {"seeding", "serving", "done"} => \A g \in GraphNames : Old \notin graph[g]
(* Until a reset is started, what a process has loaded stays.                    *)
LoadedStays == ~ResetStarted => \A p \in Procs :
  /\ proc[p].at = "seeding" => Loaded(p) \ Missing \subseteq graph[Target]
  /\ proc[p].at \in {"serving", "done"} => Seeds \ Missing \subseteq graph[Target]
(* A file that the store lacks is still to be loaded by a process, or one has    *)
(* aborted, however the resets of several processes were mixed.                  *)
Owes(p, x) == \/ proc[p].at = "aborted" \/ At1(p)
              \/ proc[p].at = "seeding" /\ x \notin Loaded(p)
Owing == ~wiped /\ (\E p \in Procs : proc[p].at # "off")
           => \A x \in (Seeds \ Missing) \ graph[Target] : \E p \in Procs : Owes(p, x)
Inv == TypeOK /\ Fresh /\ Resetting /\ NoWipe /\ Cleared /\ LoadedStays /\ Owing

(* The ways a process moves, and what each does to the store.                    *)
Aborts(p) == proc'[p].at = "aborted" /\ graph' = graph
Waits(p) == proc'[p].at = "waiting" /\ proc'[p].next = 1 /\ graph' = graph
GetsStore(p) == /\ proc[p].at = "waiting" /\ proc'[p].at = AfterWait(p)
                /\ proc'[p].next = proc[p].next /\ graph' = graph
Drops(p) == /\ proc[p].at = "dropping" /\ proc'[p].at = "clearing"
            /\ proc'[p].next = proc[p].next /\ graph' = Effect(DropAll)
Clears(p) == /\ proc[p].at = "clearing" /\ proc'[p].at = "seeding"
             /\ proc'[p].next = proc[p].next /\ graph' = Effect(ClearDefault)
Passes(p) == /\ proc[p].at = "seeding" /\ proc'[p].at = "seeding"
             /\ proc[p].next <= Len(Paths) /\ proc'[p].next = proc[p].next + 1
             /\ \/ Paths[proc[p].next] \in Missing /\ graph' = graph
                \/ graph' = Effect(Load(Paths[proc[p].next]))
GetsReady(p) == /\ proc[p].at = "seeding" /\ proc'[p].at \in {"serving", "done"}
                /\ proc[p].next > Len(Paths) /\ graph' = graph

LEMMA MoveCases ==
  ASSUME NEW p \in Procs, TypeOK, Fresh, Moves(p)
  PROVE  /\ \/ Aborts(p) \/ Waits(p) \/ GetsStore(p) \/ Drops(p) \/ Clears(p)
            \/ Passes(p) \/ GetsReady(p)
         /\ wiped' = wiped
         /\ \A c \in late' \ late : c.what = "load" \/ proc[p].at \in {"dropping", "clearing"}
<1>1. proc[p] \in Process /\ proc \in [Procs -> Process] BY DEF TypeOK
<1>2. ASSUME NEW a \in Places, Goes(p, a)
      PROVE  proc'[p].at = a /\ proc'[p].next = proc[p].next
  <2>1. proc'[p] = [proc[p] EXCEPT !.at = a] BY <1>1, <1>2 DEF Goes
  <2> QED BY <1>1, <2>1 DEF Process
<1>3. GoesOn(p) => proc'[p].at = proc[p].at /\ proc'[p].next = proc[p].next + 1
  <2>1. GoesOn(p) => proc'[p] = [proc[p] EXCEPT !.next = @ + 1] BY <1>1 DEF GoesOn
  <2> QED BY <1>1, <2>1 DEF Process
<1>4. CASE Start(p)
  <2>1. \E a \in {"waiting", "aborted"} : proc' =
          [proc EXCEPT ![p] = [at |-> a, polls |-> 0, next |-> 1, starts |-> proc[p].starts + 1]]
    BY <1>4 DEF Start
  <2>2. proc'[p].at \in {"waiting", "aborted"} /\ proc'[p].next = 1 BY <1>1, <2>1
  <2> QED BY <1>4, <2>2 DEF Start, Stays, Aborts, Waits
<1>5. CASE Poll(p)
  <2>1. Stays /\ proc[p].at = "waiting" /\ proc[p].next = 1 BY <1>5 DEF Poll, At, Fresh, At1
  <2>2. CASE Goes(p, AfterWait(p))
    <3>1. AfterWait(p) \in Places BY DEF AfterWait, Places
    <3> QED BY <1>2, <2>1, <2>2, <3>1 DEF GetsStore, Stays
  <2>3. CASE proc' = [proc EXCEPT ![p].polls = @ + 1]
    <3>1. proc'[p] = [proc[p] EXCEPT !.polls = @ + 1] BY <1>1, <2>3
    <3>2. proc'[p].at = "waiting" /\ proc'[p].next = 1 BY <1>1, <2>1, <3>1 DEF Process
    <3> QED BY <2>1, <3>2 DEF Waits, Stays
  <2>4. CASE Goes(p, "aborted") BY <1>2, <2>1, <2>4 DEF Aborts, Stays, Places
  <2> QED BY <1>5, <2>2, <2>3, <2>4 DEF Poll
<1>6. CASE Drop(p)
  <2>1. CASE Succeeds(DropAll) /\ Goes(p, "clearing")
    BY <1>2, <1>6, <2>1 DEF Drop, At, Succeeds, Drops, Places
  <2>2. CASE FailsOr(DropAll) /\ Goes(p, "aborted")
    BY <1>2, <1>6, <2>2 DEF Drop, At, FailsOr, Aborts, Places
  <2> QED BY <1>6, <2>1, <2>2 DEF Drop
<1>7. CASE Clear(p)
  <2>1. CASE Succeeds(ClearDefault) /\ Goes(p, "seeding")
    BY <1>2, <1>7, <2>1 DEF Clear, At, Succeeds, Clears, Places
  <2>2. CASE FailsOr(ClearDefault) /\ Goes(p, "aborted")
    BY <1>2, <1>7, <2>2 DEF Clear, At, FailsOr, Aborts, Places
  <2> QED BY <1>7, <2>1, <2>2 DEF Clear
<1>8. CASE Seed(p)
  <2> DEFINE f == Paths[proc[p].next]
  <2>1. proc[p].at = "seeding" /\ proc[p].next <= Len(Paths) BY <1>8 DEF Seed, At, More
  <2>2. CASE f \in Missing /\ GoesOn(p) /\ Stays BY <1>3, <2>1, <2>2 DEF Passes, Stays
  <2>3. CASE Succeeds(Load(f)) /\ GoesOn(p) BY <1>3, <2>1, <2>3 DEF Passes, Succeeds
  <2>4. CASE FailsOr(Load(f)) /\ Goes(p, "aborted")
    BY <1>2, <2>1, <2>4 DEF FailsOr, Aborts, Places, Load
  <2> QED BY <1>8, <2>2, <2>3, <2>4 DEF Seed
<1>9. CASE Ready(p)
  <2>1. proc[p].next > Len(Paths)
    BY <1>9, ProcBounds, PathsHaveItems DEF Ready, More
  <2> QED BY <1>2, <1>9, <2>1 DEF Ready, At, Stays, GetsReady, Places
<1>10. CASE Crash(p)
  <2>1. \A c \in Pending(p) : c.what = "load" \/ proc[p].at \in {"dropping", "clearing"}
    BY DEF Pending, Load, At
  <2> QED BY <1>2, <1>10, <2>1 DEF Crash, Aborts, Places
<1> QED BY <1>4, <1>5, <1>6, <1>7, <1>8, <1>9, <1>10 DEF Moves, Boot

LEMMA EffectsAre ==
  ASSUME TypeOK
  PROVE  /\ Old \notin Effect(DropAll)["data"]
         /\ Effect(ClearDefault)["data"] = graph["data"] /\ Old \notin Effect(ClearDefault)["default"]
         /\ \A f \in Seeds : f \in Effect(Load(f))[Target]
BY DEF TypeOK, Effect, DropAll, ClearDefault, Load, GraphNames

LEMMA StartsCount ==
  ASSUME NEW p \in Procs, TypeOK, Resetting, Moves(p)
  PROVE  Resetting' /\ (ResetStarted => ResetStarted')
<1> DEFINE r == proc[p]  s == proc'[p]
<1>0. /\ \A q \in Procs \ {p} : proc'[q] = proc[q]
      /\ reset' = reset
  BY MovesOne
<1>1. r \in Process /\ proc \in [Procs -> Process] /\ r.starts \in Nat BY DEF TypeOK, Process
<1>2. SUFFICES /\ s.starts >= r.starts
               /\ s.at # "off" => s.starts > 0
               /\ s.at \in {"dropping", "clearing"} => reset[p]
  <2>1. ASSUME /\ s.starts >= r.starts
               /\ s.at # "off" => s.starts > 0
               /\ s.at \in {"dropping", "clearing"} => reset[p]
        PROVE  Resetting' /\ (ResetStarted => ResetStarted')
    <3>1. Resetting' BY <1>0, <2>1 DEF Resetting
    <3>2. ASSUME NEW q \in Procs, reset[q], proc[q].starts > 0
          PROVE  reset'[q] /\ proc'[q].starts > 0
      <4>1. CASE q = p
        <5>1. s.starts \in Nat
          <6>1. proc' \in [Procs -> Process] BY MovesOne
          <6> QED BY <6>1 DEF Process
        <5> QED BY <1>0, <1>1, <2>1, <3>2, <4>1, <5>1
      <4>2. CASE q # p BY <1>0, <3>2, <4>2
      <4> QED BY <4>1, <4>2
    <3> QED BY <3>1, <3>2 DEF ResetStarted
  <2> QED BY <2>1
<1>3. ASSUME NEW a, Goes(p, a), r.at # "off",
             a \in {"dropping", "clearing"} => reset[p]
      PROVE  /\ s.starts >= r.starts
             /\ s.at # "off" => s.starts > 0
             /\ s.at \in {"dropping", "clearing"} => reset[p]
  <2>1. s = [r EXCEPT !.at = a] BY <1>1, <1>3 DEF Goes
  <2>2. s.at = a /\ s.starts = r.starts BY <1>1, <2>1 DEF Process
  <2> QED BY <1>1, <1>3, <2>2 DEF Resetting
<1>4. CASE Start(p)
  <2>1. \E a \in {"waiting", "aborted"} : proc' =
          [proc EXCEPT ![p] = [at |-> a, polls |-> 0, next |-> 1, starts |-> proc[p].starts + 1]]
    BY <1>4 DEF Start
  <2>2. s.at \in {"waiting", "aborted"} /\ s.starts = r.starts + 1 BY <1>1, <2>1
  <2> QED BY <1>1, <2>2
<1>5. CASE Poll(p)
  <2>1. r.at = "waiting" BY <1>5 DEF Poll, At
  <2>2. CASE Goes(p, AfterWait(p)) BY <1>3, <2>1, <2>2 DEF AfterWait
  <2>3. CASE proc' = [proc EXCEPT ![p].polls = @ + 1]
    <3>1. s = [r EXCEPT !.polls = @ + 1] BY <1>1, <2>3
    <3>2. s.at = "waiting" /\ s.starts = r.starts BY <1>1, <2>1, <3>1 DEF Process
    <3> QED BY <1>1, <2>1, <3>2 DEF Resetting
  <2>4. CASE Goes(p, "aborted") BY <1>3, <2>1, <2>4
  <2> QED BY <1>5, <2>2, <2>3, <2>4 DEF Poll
<1>6. CASE Drop(p) \/ Clear(p)
  <2>1. r.at \in {"dropping", "clearing"} BY <1>6 DEF Drop, Clear, At
  <2>2. Goes(p, "clearing") \/ Goes(p, "seeding") \/ Goes(p, "aborted")
    BY <1>6 DEF Drop, Clear
  <2>3. reset[p] /\ r.at # "off" BY <2>1 DEF Resetting
  <2> QED BY <1>3, <2>2, <2>3
<1>7. CASE Seed(p)
  <2>1. r.at = "seeding" BY <1>7 DEF Seed, At
  <2>2. CASE GoesOn(p)
    <3>1. s = [r EXCEPT !.next = @ + 1] BY <1>1, <2>2 DEF GoesOn
    <3>2. s.at = "seeding" /\ s.starts = r.starts BY <1>1, <2>1, <3>1 DEF Process
    <3> QED BY <1>1, <2>1, <3>2 DEF Resetting
  <2>3. CASE Goes(p, "aborted") BY <1>3, <2>1, <2>3
  <2> QED BY <1>7, <2>2, <2>3 DEF Seed
<1>8. CASE Ready(p) BY <1>3, <1>8 DEF Ready, At
<1>9. CASE Crash(p) BY <1>3, <1>9 DEF Crash
<1> QED BY <1>4, <1>5, <1>6, <1>7, <1>8, <1>9 DEF Moves, Boot

(* Whatever happens, nothing gives the store back what it had before, and until a *)
(* reset starts nothing is taken from it.                                              *)
LEMMA GraphGrows ==
  ASSUME Inv, [Next]_vars
  PROVE  /\ reset' = reset
         /\ \A g \in GraphNames : Old \notin graph[g] => Old \notin graph'[g]
         /\ ~ResetStarted => \A g \in GraphNames : graph[g] \subseteq graph'[g]
<1> USE CallsAreCalls DEF Inv
<1>0. graph \in [GraphNames -> Graphs] BY DEF TypeOK
<1>1. ASSUME NEW p \in Procs, Moves(p)
      PROVE  /\ reset' = reset
             /\ \A g \in GraphNames : Old \notin graph[g] => Old \notin graph'[g]
             /\ ~ResetStarted => \A g \in GraphNames : graph[g] \subseteq graph'[g]
  <2>1. reset' = reset BY <1>1, MovesOne
  <2>2. CASE graph' = graph BY <2>1, <2>2
  <2>3. CASE Drops(p) BY <1>0, <2>1, <2>3, EffectOfCall DEF Drops, NoWipe
  <2>4. CASE Clears(p) BY <1>0, <2>1, <2>4, EffectOfCall DEF Clears, NoWipe
  <2>5. CASE Passes(p) /\ graph' # graph
    <3>1. proc[p].next \in 1..Len(Paths) BY <2>5, ProcBounds DEF Passes
    <3>2. Load(Paths[proc[p].next]) \in Calls BY <3>1, PathsHaveItems
    <3>3. graph' = Effect(Load(Paths[proc[p].next])) BY <2>5 DEF Passes
    <3>4. Load(Paths[proc[p].next]).what = "load" BY DEF Load
    <3> QED BY <1>0, <2>1, <3>2, <3>3, <3>4, EffectOfCall
  <2> QED BY <1>1, <2>2, <2>3, <2>4, <2>5, MoveCases
       DEF Aborts, Waits, GetsStore, GetsReady
<1>2. ASSUME NEW c \in late, CarryOut(c)
      PROVE  /\ reset' = reset
             /\ \A g \in GraphNames : Old \notin graph[g] => Old \notin graph'[g]
             /\ ~ResetStarted => \A g \in GraphNames : graph[g] \subseteq graph'[g]
  <2>1. c \in Calls BY DEF TypeOK
  <2> QED BY <1>0, <1>2, <2>1, EffectOfCall DEF CarryOut, NoWipe
<1>3. CASE StoreUp \/ StoreDown \/ UNCHANGED vars BY <1>3 DEF StoreUp, StoreDown, vars
<1>4. CASE Curate
  <2>1. graph' = [graph EXCEPT ![Target] = @ \union {Entry}] /\ reset' = reset BY <1>4 DEF Curate
  <2> QED BY <1>0, <2>1
<1> QED BY <1>1, <1>2, <1>3, <1>4 DEF Next, Moves

(* A process moves: each conjunct for the process itself and for the others.      *)
LEMMA MoveKeeps ==
  ASSUME NEW p \in Procs, Inv, Moves(p), TypeOK'
  PROVE  Fresh' /\ Resetting' /\ NoWipe' /\ Cleared' /\ LoadedStays'
<1> USE DEF Inv
<1>0. Resetting' /\ (ResetStarted => ResetStarted') BY StartsCount
<1>1. \A q \in Procs \ {p} : proc'[q] = proc[q] BY MovesOne
<1>2. /\ reset' = reset
      /\ \A g \in GraphNames : Old \notin graph[g] => Old \notin graph'[g]
      /\ ~ResetStarted => \A g \in GraphNames : graph[g] \subseteq graph'[g]
  BY <1>1, GraphGrows DEF Next, Moves
<1>3. Fresh'
  <2>1. At1(p)' => proc'[p].next = 1
    BY MoveCases DEF Aborts, Waits, GetsStore, Drops, Clears, Passes, GetsReady, At1, Fresh
  <2> QED BY <1>1, <2>1 DEF Fresh, At1
<1>4. NoWipe'
  <2>1. ~ResetStarted' => proc'[p].at \notin {"dropping", "clearing"}
    BY <1>0 DEF Resetting, ResetStarted
  <2>2. ~ResetStarted => \A c \in late' : c.what = "load" BY MoveCases DEF NoWipe
  <2> QED BY <1>0, <1>1, <1>2, <2>1, <2>2 DEF NoWipe
<1>5. Cleared'
  <2>1. reset[p] /\ proc'[p].at = "clearing" => Old \notin graph'["data"]
    BY MoveCases, EffectsAre
    DEF Aborts, Waits, GetsStore, Drops, Clears, Passes, GetsReady, AfterWait
  <2>2. ASSUME reset[p], proc'[p].at \in {"seeding", "serving", "done"}
        PROVE  \A g \in GraphNames : Old \notin graph'[g]
    <3>1. CASE Clears(p)
      <4>1. Old \notin graph["data"] BY <2>2, <3>1 DEF Clears, Cleared
      <4> QED BY <3>1, <4>1, EffectsAre DEF Clears, GraphNames
    <3>2. CASE Passes(p) BY <1>2, <2>2, <3>2 DEF Passes, Cleared
    <3>3. CASE GetsReady(p) BY <1>2, <2>2, <3>3 DEF GetsReady, Cleared
    <3> QED BY <2>2, <3>1, <3>2, <3>3, MoveCases DEF Aborts, Waits, GetsStore, Drops, AfterWait
  <2>3. ASSUME NEW q \in Procs \ {p}, reset[q]
        PROVE  /\ proc'[q].at = "clearing" => Old \notin graph'["data"]
               /\ proc'[q].at \in {"seeding", "serving", "done"} =>
                    \A g \in GraphNames : Old \notin graph'[g]
    BY <1>1, <1>2, <2>3 DEF Cleared, GraphNames
  <2> QED BY <1>2, <2>1, <2>2, <2>3 DEF Cleared
<1>6. LoadedStays'
  <2>1. ASSUME ~ResetStarted, proc'[p].at = "seeding"
        PROVE  Loaded(p)' \ Missing \subseteq graph'[Target]
    <3>1. CASE GetsStore(p)
      <4>1. proc'[p].next = 1 BY <3>1 DEF GetsStore, Fresh, At1
      <4>2. 1..(proc'[p].next - 1) = {} BY <4>1
      <4>3. Loaded(p)' = {} BY <4>2 DEF Loaded
      <4> QED BY <4>3
    <3>2. CASE Passes(p)
      <4> DEFINE k == proc[p].next
      <4>1. k \in 1..Len(Paths) BY <3>2, ProcBounds DEF Passes
      <4>a. 1..(proc'[p].next - 1) = (1..(k - 1)) \union {k} BY <3>2, <4>1 DEF Passes
      <4>2. Loaded(p)' = Loaded(p) \union {Paths[k]} BY <4>a DEF Loaded
      <4>3. Loaded(p) \ Missing \subseteq graph'[Target]
        BY <1>2, <2>1, <3>2 DEF Passes, LoadedStays
      <4>4. Paths[k] \in Missing \/ Paths[k] \in graph'[Target]
        BY <3>2, <4>1, EffectsAre, PathsHaveItems DEF Passes
      <4> QED BY <4>2, <4>3, <4>4
    <3> QED BY <2>1, <3>1, <3>2, MoveCases
         DEF Aborts, Waits, Drops, Clears, GetsReady, NoWipe
  <2>2. ASSUME ~ResetStarted, proc'[p].at \in {"serving", "done"}
        PROVE  Seeds \ Missing \subseteq graph'[Target]
    <3>1. GetsReady(p)
      BY <2>2, MoveCases DEF Aborts, Waits, GetsStore, Drops, Clears, Passes, AfterWait
    <3>2. proc[p].next = Len(Paths) + 1 BY <3>1, ProcBounds, PathsHaveItems DEF GetsReady
    <3>a. 1..(proc[p].next - 1) = 1..Len(Paths) BY <3>2, PathsHaveItems
    <3>3. Seeds \subseteq Loaded(p) BY <3>a, PathsHaveItems DEF Loaded
    <3>4. Loaded(p) \ Missing \subseteq graph[Target] BY <2>2, <3>1 DEF GetsReady, LoadedStays
    <3> QED BY <3>1, <3>3, <3>4 DEF GetsReady
  <2>3. ASSUME NEW q \in Procs \ {p}, ~ResetStarted
        PROVE  /\ proc'[q].at = "seeding" => Loaded(q)' \ Missing \subseteq graph'[Target]
               /\ proc'[q].at \in {"serving", "done"} => Seeds \ Missing \subseteq graph'[Target]
    <3>1. Loaded(q)' = Loaded(q) BY <1>1 DEF Loaded
    <3> QED BY <1>1, <1>2, <2>3, <3>1 DEF LoadedStays
  <2> QED BY <1>0, <1>2, <2>1, <2>2, <2>3 DEF LoadedStays
<1> QED BY <1>0, <1>3, <1>4, <1>5, <1>6

LEMMA OwingKept ==
  ASSUME NEW p \in Procs, Inv, Moves(p), TypeOK'
  PROVE  Owing'
<1> USE DEF Inv
<1>1. \A q \in Procs \ {p} : proc'[q] = proc[q] BY MovesOne
<1>2. SUFFICES ASSUME ~wiped', NEW x \in (Seeds \ Missing) \ graph'[Target]
               PROVE  \E q \in Procs : Owes(q, x)'
  BY DEF Owing
<1>3. CASE Owes(p, x)' BY <1>3
<1>4. CASE ~Owes(p, x)'
  <2>1. CASE GetsReady(p)
    <3>1. proc[p].next = Len(Paths) + 1 BY <2>1, ProcBounds, PathsHaveItems DEF GetsReady
    <3>2. x \in Loaded(p) BY <3>1, PathsHaveItems DEF Loaded
    <3>3. ~Owes(p, x) BY <2>1, <3>2 DEF Owes, GetsReady, At1
    <3>4. PICK q \in Procs : Owes(q, x)
      BY <1>2, <2>1, MoveCases DEF Owing, GetsReady
    <3>5. q # p BY <3>3, <3>4
    <3>6. proc'[q] = proc[q] BY <1>1, <3>5
    <3> QED BY <3>4, <3>6 DEF Owes, At1, Loaded
  <2>2. CASE Passes(p)
    <3> DEFINE k == proc[p].next
    <3>1. k \in 1..Len(Paths) BY <2>2, ProcBounds DEF Passes
    <3>2. x # Paths[k] BY <2>2, <3>1, EffectsAre, PathsHaveItems DEF Passes
    <3>3. 1..(proc'[p].next - 1) = (1..(k - 1)) \union {k} BY <2>2, <3>1 DEF Passes
    <3>4. Loaded(p)' = Loaded(p) \union {Paths[k]} BY <3>3 DEF Loaded
    <3>5. ~Owes(p, x) BY <1>4, <2>2, <3>2, <3>4 DEF Owes, Passes, At1
    <3>6. graph[Target] \subseteq graph'[Target]
      <4>1. Load(Paths[k]) \in Calls /\ Load(Paths[k]).what = "load"
        BY <3>1, PathsHaveItems, CallsAreCalls DEF Load
      <4>2. graph' = graph \/ graph' = Effect(Load(Paths[k])) BY <2>2 DEF Passes
      <4> QED BY <4>1, <4>2, EffectOfCall DEF TypeOK
    <3>7. PICK q \in Procs : Owes(q, x)
      BY <1>2, <2>2, <3>6, MoveCases DEF Owing, Passes
    <3>8. q # p BY <3>5, <3>7
    <3>9. proc'[q] = proc[q] BY <1>1, <3>8
    <3> QED BY <3>7, <3>9 DEF Owes, At1, Loaded
  <2>3. CASE Clears(p) \/ GetsStore(p)
    <3>1. proc'[p].next = 1 BY <2>3 DEF Clears, GetsStore, Fresh, At1
    <3>2. 1..(proc'[p].next - 1) = {} BY <3>1
    <3>3. Loaded(p)' = {} BY <3>2 DEF Loaded
    <3>4. Owes(p, x)' BY <2>3, <3>3 DEF Owes, At1, Clears, GetsStore, AfterWait
    <3> QED BY <3>4
  <2> QED BY <1>4, <2>1, <2>2, <2>3, MoveCases DEF Aborts, Waits, Drops, Owes, At1
<1> QED BY <1>3, <1>4

(* What the store, or curators, do on their own. *)
LEMMA StoreKeeps ==
  ASSUME Inv, TypeOK', StoreUp \/ StoreDown \/ Curate \/ (\E c \in late : CarryOut(c))
  PROVE  Inv'
<1> USE DEF Inv
<1>1. proc' = proc
  BY DEF StoreUp, StoreDown, Curate, CarryOut
<1>2. /\ reset' = reset
      /\ \A g \in GraphNames : Old \notin graph[g] => Old \notin graph'[g]
      /\ ~ResetStarted => \A g \in GraphNames : graph[g] \subseteq graph'[g]
  BY GraphGrows DEF Next
<1>3. \A p \in Procs : Loaded(p)' = Loaded(p) BY <1>1 DEF Loaded
<1>0. Resetting' /\ (ResetStarted' <=> ResetStarted) BY <1>1, <1>2 DEF Resetting, ResetStarted
<1>4. Fresh' BY <1>1 DEF Fresh, At1
<1>5. NoWipe'
  <2>1. late' \subseteq late BY DEF StoreUp, StoreDown, Curate, CarryOut
  <2> QED BY <1>0, <1>1, <1>2, <2>1 DEF NoWipe
<1>6. Cleared' BY <1>1, <1>2 DEF Cleared, GraphNames
<1>7. LoadedStays' BY <1>0, <1>1, <1>2, <1>3 DEF LoadedStays
<1>8. Owing'
  <2>1. ~wiped' => ~wiped /\ graph[Target] \subseteq graph'[Target]
    <3>1. CASE StoreUp \/ StoreDown BY <3>1 DEF StoreUp, StoreDown
    <3>2. CASE Curate BY <3>2 DEF Curate, TypeOK
    <3>3. CASE \E c \in late : CarryOut(c)
      <4>1. PICK c \in late : CarryOut(c) BY <3>3
      <4>2. c \in Calls BY DEF TypeOK
      <4>3. wiped' = (wiped \/ c.what # "load") /\ graph' = Effect(c) BY <4>1 DEF CarryOut
      <4> QED BY <4>2, <4>3, EffectOfCall DEF TypeOK
    <3> QED BY <3>1, <3>2, <3>3
  <2>2. \A p \in Procs : \A x : Owes(p, x)' <=> Owes(p, x) BY <1>1, <1>3 DEF Owes, At1
  <2> QED BY <1>1, <2>1, <2>2 DEF Owing
<1> QED BY <1>0, <1>4, <1>5, <1>6, <1>7, <1>8

LEMMA InitInv == Init => Inv
BY InitTypeOK DEF Init, Inv, Fresh, At1, Resetting, ResetStarted, NoWipe, Cleared,
                  LoadedStays, Owing

LEMMA NextInv == Inv /\ [Next]_vars => Inv'
<1> SUFFICES ASSUME Inv, [Next]_vars PROVE Inv' OBVIOUS
<1>1. TypeOK' BY TypeStep DEF Inv
<1>2. ASSUME NEW p \in Procs, Moves(p) PROVE Inv'
  BY <1>1, <1>2, MoveKeeps, OwingKept DEF Inv
<1>3. CASE StoreUp \/ StoreDown \/ Curate \/ (\E c \in late : CarryOut(c))
  BY <1>1, <1>3, StoreKeeps
<1>4. CASE UNCHANGED vars
  BY <1>1, <1>4 DEF vars, Inv, Fresh, At1, Resetting, ResetStarted, NoWipe, Cleared, LoadedStays, Owing, Owes, Loaded
<1> QED BY <1>2, <1>3, <1>4 DEF Next, Moves

LEMMA Invariant == Spec => []Inv
BY InitInv, NextInv, PTL DEF Spec

(* What a service serves after a reset holds nothing of what was stored before it. *)
THEOREM ServedIsCleared == Spec => []ServesCleared
<1>1. Inv => ServesCleared BY DEF Inv, Cleared, ServesCleared, At, Procs
<1> QED BY <1>1, Invariant, PTL

(* When every process is off or ready and no wipe came late, a store that a        *)
(* process made ready holds every file: what is missing would be owed.             *)
THEOREM SettledStoreIsSeeded == Spec => []SettledIsSeeded
<1>1. Inv => SettledIsSeeded
  <2> SUFFICES ASSUME Inv, Settled, ~wiped, NEW p \in Procs, ~At(p, "off"),
                      NEW x \in Seeds \ Missing, x \notin graph[Target]
               PROVE  FALSE
    BY DEF SettledIsSeeded
  <2>1. PICK q \in Procs : Owes(q, x) BY DEF Inv, Owing, At
  <2> QED BY <2>1 DEF Owes, At1, Settled
<1> QED BY <1>1, Invariant, PTL

(* Until a reset is started a process that got ready has seeded every file,        *)
(* whatever the other processes do.                                                *)
THEOREM ReadyStoreIsSeeded == Spec => []ReadyIsSeeded
<1>1. Inv => ReadyIsSeeded BY DEF Inv, LoadedStays, ReadyIsSeeded
<1> QED BY <1>1, Invariant, PTL

(* Until a process with the reset setting is started, no step takes anything from  *)
(* the store: not a crash, a restart, a late call, nor a second process.           *)
THEOREM NothingIsWiped == Spec => NoResetKeepsData
<1>1. Inv /\ [Next]_vars => [~ResetStarted => \A g \in GraphNames : graph[g] \subseteq graph'[g]]_vars
  BY GraphGrows
<1> QED BY <1>1, Invariant, PTL DEF Spec, NoResetKeepsData

(* ----------------------------- startups are bounded ----------------------------- *)
(* The turns a startup has left at most: its polls, the two calls of a reset, the   *)
(* files, and getting ready.                                                        *)
TurnsLeft(r) ==
  CASE r.at = "waiting"  -> MaxPolls - r.polls + Len(Paths) + 4
    [] r.at = "dropping" -> Len(Paths) + 3
    [] r.at = "clearing" -> Len(Paths) + 2
    [] r.at = "seeding"  -> Len(Paths) + 2 - r.next
    [] OTHER -> 0

StartupTurns(p) ==
  /\ proc[p].at \in {"off", "serving", "done", "aborted"} <=> TurnsLeft(proc[p]) = 0
  /\ TurnsLeft(proc[p]) \in Nat
  /\ Boot(p) => TurnsLeft(proc'[p]) < TurnsLeft(proc[p])
  /\ ~ Start(p) => TurnsLeft(proc'[p]) <= TurnsLeft(proc[p])

LEMMA TurnsAreCounted ==
  ASSUME NEW r \in Process
  PROVE  /\ TurnsLeft(r) \in Nat
         /\ r.at \in {"off", "serving", "done", "aborted"} <=> TurnsLeft(r) = 0
<1>1. /\ r.at \in Places /\ Len(Paths) \in Nat /\ r.polls \in 0..MaxPolls
      /\ r.next \in 1..(Len(Paths) + 1)
  BY PathsHaveItems DEF Process, Places
<1>2. CASE r.at = "waiting" BY <1>1, <1>2 DEF TurnsLeft
<1>3. CASE r.at = "dropping" BY <1>1, <1>3 DEF TurnsLeft
<1>4. CASE r.at = "clearing" BY <1>1, <1>4 DEF TurnsLeft
<1>5. CASE r.at = "seeding" BY <1>1, <1>5 DEF TurnsLeft
<1>6. CASE r.at \in {"off", "serving", "done", "aborted"} BY <1>6 DEF TurnsLeft
<1> QED BY <1>1, <1>2, <1>3, <1>4, <1>5, <1>6 DEF Places

LEMMA BootTakesATurn ==
  ASSUME TypeOK, NEW p \in Procs, Boot(p)
  PROVE  TurnsLeft(proc'[p]) < TurnsLeft(proc[p])
<1> DEFINE r == proc[p]  s == proc'[p]
<1>1. /\ r \in Process /\ Len(Paths) \in Nat /\ r.polls \in 0..MaxPolls
      /\ r.next \in 1..(Len(Paths) + 1) /\ proc \in [Procs -> Process]
      /\ DOMAIN r = {"at", "polls", "next", "starts"}
  BY PathsHaveItems DEF TypeOK, Process
<1>2. ASSUME NEW a, Goes(p, a) PROVE s.at = a /\ s.next = r.next
  BY <1>1, <1>2 DEF Goes
<1>3. TurnsLeft(r) \in Nat BY <1>1, TurnsAreCounted
<1>4. ASSUME Goes(p, "aborted"), r.at \in {"waiting", "dropping", "clearing", "seeding"}
      PROVE  TurnsLeft(s) < TurnsLeft(r)
  <2>1. TurnsLeft(s) = 0 BY <1>2, <1>4 DEF TurnsLeft
  <2>2. TurnsLeft(r) # 0 BY <1>1, <1>4, TurnsAreCounted
  <2> QED BY <1>3, <2>1, <2>2
<1>5. CASE Poll(p)
  <2>1. r.at = "waiting" BY <1>5 DEF Poll, At
  <2>2. CASE Goes(p, AfterWait(p))
    <3>1. s.at = AfterWait(p) /\ s.next = r.next BY <1>2, <2>2
    <3>2. TurnsLeft(s) \in {Len(Paths) + 3, Len(Paths) + 2 - r.next}
      BY <3>1 DEF AfterWait, TurnsLeft
    <3>3. TurnsLeft(r) = MaxPolls - r.polls + Len(Paths) + 4 BY <2>1 DEF TurnsLeft
    <3> QED BY <1>1, <3>2, <3>3
  <2>3. CASE proc[p].polls < MaxPolls /\ proc' = [proc EXCEPT ![p].polls = @ + 1]
    <3>1. s.at = "waiting" /\ s.polls = r.polls + 1 BY <1>1, <2>1, <2>3
    <3>2. TurnsLeft(r) = MaxPolls - r.polls + Len(Paths) + 4 BY <2>1 DEF TurnsLeft
    <3>3. TurnsLeft(s) = MaxPolls - s.polls + Len(Paths) + 4 BY <3>1 DEF TurnsLeft
    <3> QED BY <1>1, <3>1, <3>2, <3>3
  <2>4. CASE Goes(p, "aborted") BY <1>4, <2>1, <2>4
  <2> QED BY <1>5, <2>2, <2>3, <2>4 DEF Poll
<1>6. CASE Drop(p)
  <2>1. r.at = "dropping" BY <1>6 DEF Drop, At
  <2>2. CASE Goes(p, "clearing")
    <3>1. s.at = "clearing" BY <1>2, <2>2
    <3> QED BY <1>1, <2>1, <3>1 DEF TurnsLeft
  <2> QED BY <1>4, <1>6, <2>1, <2>2 DEF Drop
<1>7. CASE Clear(p)
  <2>1. r.at = "clearing" BY <1>7 DEF Clear, At
  <2>2. CASE Goes(p, "seeding")
    <3>1. s.at = "seeding" /\ s.next = r.next BY <1>2, <2>2
    <3> QED BY <1>1, <2>1, <3>1 DEF TurnsLeft
  <2> QED BY <1>4, <1>7, <2>1, <2>2 DEF Clear
<1>8. CASE Seed(p)
  <2>1. r.at = "seeding" BY <1>8 DEF Seed, At
  <2>2. CASE GoesOn(p)
    <3>1. s.at = "seeding" /\ s.next = r.next + 1 BY <1>1, <2>1, <2>2 DEF GoesOn
    <3> QED BY <1>1, <2>1, <3>1 DEF TurnsLeft
  <2> QED BY <1>4, <1>8, <2>1, <2>2 DEF Seed
<1>9. CASE Ready(p)
  <2>1. r.at = "seeding" BY <1>9 DEF Ready, At
  <2>2. s.at \in {"serving", "done"} BY <1>2, <1>9 DEF Ready
  <2>3. TurnsLeft(s) = 0 BY <2>2 DEF TurnsLeft
  <2>4. TurnsLeft(r) # 0 BY <1>1, <2>1, TurnsAreCounted
  <2> QED BY <1>3, <2>3, <2>4
<1> QED BY <1>5, <1>6, <1>7, <1>8, <1>9 DEF Boot

(* A startup takes a bounded number of turns, whatever the store, late calls and    *)
(* the other processes do: each turn leaves it fewer, none is left exactly when it  *)
(* is over, and only a new start brings more (wait_for_store's deadline, the list   *)
(* of files). BootEnds, which a run checks, adds that the turns are taken.          *)
THEOREM StartupsAreBounded == Spec => [][\A p \in Procs : StartupTurns(p)]_vars
<1>1. ASSUME TypeOK, TypeOK', [Next]_vars, NEW p \in Procs
      PROVE  StartupTurns(p)
  <2>1. proc[p] \in Process /\ proc'[p] \in Process BY <1>1 DEF TypeOK
  <2>2. /\ TurnsLeft(proc[p]) \in Nat /\ TurnsLeft(proc'[p]) \in Nat
        /\ proc[p].at \in {"off", "serving", "done", "aborted"} <=> TurnsLeft(proc[p]) = 0
    BY <2>1, TurnsAreCounted
  <2>3. Boot(p) => TurnsLeft(proc'[p]) < TurnsLeft(proc[p]) BY <1>1, BootTakesATurn
  <2>4. ASSUME proc'[p] = proc[p] PROVE TurnsLeft(proc'[p]) <= TurnsLeft(proc[p])
    BY <2>2, <2>4
  <2>5. ASSUME Moves(p), ~ Start(p) PROVE TurnsLeft(proc'[p]) <= TurnsLeft(proc[p])
    <3>1. CASE Crash(p)
      <4>1. proc' = [proc EXCEPT ![p].at = "aborted"] BY <3>1 DEF Crash, Goes
      <4>2. proc'[p].at = "aborted" BY <1>1, <4>1 DEF TypeOK, Process
      <4>3. TurnsLeft(proc'[p]) = 0 BY <2>1, <4>2, TurnsAreCounted
      <4> QED BY <2>2, <4>3
    <3>2. CASE Boot(p) BY <2>2, <2>3, <3>2
    <3> QED BY <2>5, <3>1, <3>2 DEF Moves
  <2>6. ASSUME NEW q \in Procs, Moves(q) PROVE proc'[p] = proc[p] \/ Moves(p)
    BY <1>1, <2>6, MovesOne
  <2>7. ASSUME ~ \E q \in Procs : Moves(q) PROVE proc' = proc
    BY <1>1, <2>7 DEF Next, Moves, CarryOut, StoreUp, StoreDown, Curate, vars
  <2>8. ~ Start(p) => TurnsLeft(proc'[p]) <= TurnsLeft(proc[p])
    BY <2>4, <2>5, <2>6, <2>7
  <2> QED BY <2>2, <2>3, <2>8 DEF StartupTurns
<1>2. TypeOK /\ TypeOK' /\ [Next]_vars => [\A p \in Procs : StartupTurns(p)]_vars
  BY <1>1
<1> QED BY <1>2, InitTypeOK, TypeStep, PTL DEF Spec
================================================================================
