--------------------------- MODULE ReaderRoutesProofs ---------------------------
(* The shape catalogue under concurrent first requests, for every number of       *)
(* threads, every schema, every graph and every sequence of requests.             *)
EXTENDS ReaderRoutes, FiniteSetTheorems, TLAPS

(* A shape the cache lacks is owed by a thread that is filling it: the strengthening *)
(* that makes SettledIsWhole inductive.                                              *)
Owed == \A s \in Shapes \ cached : \E t \in Threads : s \in todo[t]
Filling == \/ cached = None /\ \A t \in Threads : todo[t] = {}
           \/ cached \subseteq Shapes /\ Owed
Inv == /\ at \in [Threads -> Places] /\ todo \in [Threads -> SUBSET Shapes]
       /\ \A t \in Threads : (at[t] = "fill") = (todo[t] # {})
       /\ Filling

(* A step that leaves the cache and the shapes still to parse alone, and moves one *)
(* thread between places where it does not fill, keeps the invariant.              *)
LEMMA MoveKeeps ==
  ASSUME NEW t \in Threads, NEW p \in Places \ {"fill"}, Inv, at[t] # "fill",
         at' = [at EXCEPT ![t] = p], UNCHANGED <<cached, todo>>
  PROVE  Inv'
<1>1. at' \in [Threads -> Places] /\ todo' \in [Threads -> SUBSET Shapes]
  BY DEF Inv
<1>2. ASSUME NEW u \in Threads PROVE (at'[u] = "fill") = (todo'[u] # {})
  <2>1. CASE u = t
    <3>1. at'[u] = p BY <2>1 DEF Inv
    <3>2. todo'[u] = {} BY <2>1 DEF Inv
    <3> QED BY <3>1, <3>2
  <2>2. CASE u # t
    <3>1. at'[u] = at[u] BY <2>2 DEF Inv
    <3> QED BY <3>1 DEF Inv
  <2> QED BY <2>1, <2>2
<1>3. Filling' BY DEF Inv, Filling, Owed
<1> QED BY <1>1, <1>2, <1>3 DEF Inv

(* Parsing the next shape is what its thread owed (Fill). *)
LEMMA FillKeeps ==
  ASSUME NEW t \in Threads, Inv, Fill(t)
  PROVE  Inv' /\ cached \subseteq cached' /\ cached' \subseteq Shapes
<1> DEFINE s == NextShape(todo[t])
<1>1. todo[t] # {} BY DEF Inv, Fill
<1>2. s \in todo[t] BY <1>1 DEF NextShape
<1>3. s \in Shapes BY <1>2 DEF Inv
<1>4. cached \subseteq Shapes /\ Owed BY <1>1 DEF Inv, Filling
<1>5. /\ cached' = cached \union {s}
      /\ todo' = [todo EXCEPT ![t] = todo[t] \ {s}]
      /\ at' = [at EXCEPT ![t] = IF todo[t] = {s} THEN "known" ELSE "fill"]
  BY DEF Fill
<1> HIDE DEF s
<1>6. at' \in [Threads -> Places]
  <2>1. CASE todo[t] = {s} BY <1>5, <2>1 DEF Inv, Places
  <2>2. CASE todo[t] # {s} BY <1>5, <2>2 DEF Inv, Places
  <2> QED BY <2>1, <2>2
<1>7. todo' \in [Threads -> SUBSET Shapes] BY <1>5 DEF Inv
<1>8. ASSUME NEW u \in Threads PROVE (at'[u] = "fill") = (todo'[u] # {})
  <2>1. CASE u # t
    <3>1. at'[u] = at[u] /\ todo'[u] = todo[u] BY <1>5, <2>1 DEF Inv
    <3> QED BY <3>1 DEF Inv
  <2>2. CASE u = t /\ todo[t] = {s}
    <3>1. at'[u] = "known" /\ todo'[u] = {} BY <1>5, <2>2 DEF Inv
    <3> QED BY <3>1
  <2>3. CASE u = t /\ todo[t] # {s}
    <3>1. at'[u] = "fill" /\ todo'[u] = todo[t] \ {s} BY <1>5, <2>3 DEF Inv
    <3>2. todo[t] \ {s} # {} BY <1>2, <2>3
    <3> QED BY <3>1, <3>2
  <2> QED BY <2>1, <2>2, <2>3
<1>9. Owed'
  <2> SUFFICES ASSUME NEW x \in Shapes \ cached' PROVE \E u \in Threads : x \in todo'[u]
    BY DEF Owed
  <2>1. x \in Shapes \ cached /\ x # s BY <1>5
  <2>2. PICK u \in Threads : x \in todo[u] BY <1>4, <2>1 DEF Owed
  <2>3. CASE u = t
    <3>1. todo'[t] = todo[t] \ {s} BY <1>5 DEF Inv
    <3> QED BY <2>1, <2>2, <2>3, <3>1
  <2>4. CASE u # t
    <3>1. todo'[u] = todo[u] BY <1>5, <2>4 DEF Inv
    <3> QED BY <2>2, <3>1
  <2> QED BY <2>3, <2>4
<1>10. cached \subseteq cached' /\ cached' \subseteq Shapes BY <1>3, <1>4, <1>5
<1> QED BY <1>6, <1>7, <1>8, <1>9, <1>10 DEF Inv, Filling

(* Starting the cache over makes its thread owe every shape (Reset). *)
LEMMA ResetKeeps ==
  ASSUME NEW t \in Threads, Inv, Reset(t)
  PROVE  Inv'
<1>1. /\ at' \in [Threads -> Places] /\ todo' \in [Threads -> SUBSET Shapes]
      /\ at' = [at EXCEPT ![t] = "fill"] /\ todo' = [todo EXCEPT ![t] = Shapes] /\ cached' = {}
  BY DEF Inv, Reset, Places
<1>2. at'[t] = "fill" /\ todo'[t] = Shapes BY <1>1 DEF Inv
<1>3. ASSUME NEW u \in Threads PROVE (at'[u] = "fill") = (todo'[u] # {})
  <2>1. CASE u = t BY <1>2, <2>1, ReaderAssumption
  <2>2. CASE u # t
    <3>1. at'[u] = at[u] /\ todo'[u] = todo[u] BY <1>1, <2>2 DEF Inv
    <3> QED BY <3>1 DEF Inv
  <2> QED BY <2>1, <2>2
<1>4. Owed' BY <1>2 DEF Owed
<1> QED BY <1>1, <1>3, <1>4 DEF Inv, Filling

(* The steps of a request before and after it has the catalogue. *)
LEMMA ServeKeeps ==
  ASSUME NEW t \in Threads, Inv, Serve(t) \/ Access(t)
  PROVE  Inv' /\ cached' = cached
<1> USE DEF Places
<1>1. CASE Access(t)
  <2>1. CASE cached = None BY <1>1, <2>1, MoveKeeps DEF Access
  <2>2. CASE cached # None BY <1>1, <2>2, MoveKeeps DEF Access
  <2> QED BY <2>1, <2>2
<1>2. CASE Known(t)
  <2>1. \/ at' = [at EXCEPT ![t] = "done"] \/ at' = [at EXCEPT ![t] = "query"]
    BY <1>2 DEF Known
  <2>2. at[t] = "known" /\ UNCHANGED <<cached, todo>> BY <1>2 DEF Known
  <2>3. CASE at' = [at EXCEPT ![t] = "done"] BY <2>2, <2>3, MoveKeeps
  <2>4. CASE at' = [at EXCEPT ![t] = "query"] BY <2>2, <2>4, MoveKeeps
  <2> QED BY <2>1, <2>2, <2>3, <2>4
<1>3. CASE CountShape(t)
  <2>1. at[t] = "query" /\ UNCHANGED <<cached, at, todo>> BY <1>3 DEF CountShape
  <2> QED BY <2>1 DEF Inv, Filling, Owed
<1>4. CASE ListPage(t) BY <1>4, MoveKeeps DEF ListPage
<1>5. CASE ListTotal(t) BY <1>5, MoveKeeps DEF ListTotal, Finish
<1>6. CASE Search(t) BY <1>6, MoveKeeps DEF Search, Finish
<1>7. CASE Counted(t) BY <1>7, MoveKeeps DEF Counted, Finish
<1>8. CASE Entity(t) BY <1>8, MoveKeeps DEF Entity, Finish
<1>9. CASE Resource(t) BY <1>9, MoveKeeps DEF Resource, Finish
<1>10. CASE Definition(t) BY <1>10, MoveKeeps DEF Definition, Finish
<1>11. CASE Published(t) BY <1>11, MoveKeeps DEF Published, Finish
<1>12. CASE ShapeList(t) BY <1>12, MoveKeeps DEF ShapeList, Finish
<1> QED BY <1>1, <1>2, <1>3, <1>4, <1>5, <1>6, <1>7, <1>8, <1>9, <1>10, <1>11, <1>12 DEF Serve

(* A request that arrives. *)
LEMMA ArriveKeeps ==
  ASSUME NEW t \in Threads, NEW c \in Calls, Inv, Arrive(t, c) \/ Refuse(t, c)
  PROVE  Inv' /\ cached' = cached
<1> USE DEF Places
<1>1. CASE Arrive(t, c)
  <2>1. CASE c.route \in Navigated BY <1>1, <2>1, MoveKeeps DEF Arrive
  <2>2. CASE c.route \notin Navigated BY <1>1, <2>2, MoveKeeps DEF Arrive
  <2> QED BY <2>1, <2>2
<1>2. CASE Refuse(t, c) BY <1>2, MoveKeeps DEF Refuse
<1> QED BY <1>1, <1>2

LEMMA InitInv == Init => Inv
BY DEF Init, Inv, Places, Filling

LEMMA NextInv == Inv /\ [Next]_vars => Inv'
<1> SUFFICES ASSUME Inv, [Next]_vars PROVE Inv' OBVIOUS
<1>1. ASSUME NEW t \in Threads, Parse(t) \/ Serve(t) PROVE Inv'
  <2>1. CASE Reset(t) BY <2>1, ResetKeeps
  <2>2. CASE Fill(t) BY <2>2, FillKeeps
  <2>3. CASE Serve(t) \/ Access(t) BY <2>3, ServeKeeps
  <2> QED BY <1>1, <2>1, <2>2, <2>3 DEF Parse
<1>2. ASSUME NEW t \in Threads, NEW c \in Calls, Arrive(t, c) \/ Refuse(t, c) PROVE Inv'
  BY <1>2, ArriveKeeps
<1>3. ASSUME NEW tr \in Candidates, Curate(tr) PROVE Inv'
  BY <1>3 DEF Curate, Inv, Filling, Owed
<1>4. CASE UNCHANGED vars BY <1>4 DEF vars, Inv, Filling, Owed
<1> QED BY <1>1, <1>2, <1>3, <1>4 DEF Next

(* SettledIsWhole: however many first requests overlap, a cache that nobody is     *)
(* filling holds every shape (SchemaExtractor._shapes).                            *)
THEOREM CatalogueWhole == Spec => []SettledIsWhole
<1>1. Inv => SettledIsWhole
  <2> SUFFICES ASSUME Inv, cached # None, \A t \in Threads : at[t] # "fill"
               PROVE  cached = Shapes
    BY DEF SettledIsWhole
  <2>1. cached \subseteq Shapes /\ Owed BY DEF Inv, Filling
  <2>2. \A t \in Threads : todo[t] = {} BY DEF Inv
  <2> QED BY <2>1, <2>2 DEF Owed
<1> QED BY InitInv, NextInv, <1>1, PTL DEF Spec

(* TypeOK: the cache never holds anything but shapes, and a thread is filling it   *)
(* exactly as long as it owes it one.                                              *)
THEOREM ReaderTypes == Spec => []TypeOK
<1>1. Inv => TypeOK BY DEF Inv, Filling, TypeOK
<1> QED BY InitInv, NextInv, <1>1, PTL DEF Spec

(* WholeForGood: a whole catalogue shrinks only under a thread that found none at  *)
(* its first access, before any was there.                                         *)
THEOREM CatalogueStays == Spec => WholeForGood
<1>1. ASSUME Inv, [Next]_vars, cached = Shapes, \A t \in Threads : at[t] # "reset"
      PROVE  cached' = Shapes
  <2>1. ASSUME NEW t \in Threads, Parse(t) \/ Serve(t) PROVE cached' = Shapes
    <3>1. CASE Reset(t) BY <1>1, <3>1 DEF Reset
    <3>2. CASE Fill(t) BY <1>1, <3>2, FillKeeps
    <3>3. CASE Serve(t) \/ Access(t) BY <1>1, <3>3, ServeKeeps
    <3> QED BY <2>1, <3>1, <3>2, <3>3 DEF Parse
  <2>2. ASSUME NEW t \in Threads, NEW c \in Calls, Arrive(t, c) \/ Refuse(t, c)
        PROVE  cached' = Shapes
    BY <1>1, <2>2, ArriveKeeps
  <2>3. ASSUME NEW tr \in Candidates, Curate(tr) PROVE cached' = Shapes
    BY <1>1, <2>3 DEF Curate
  <2>4. CASE UNCHANGED vars BY <1>1, <2>4 DEF vars
  <2> QED BY <1>1, <2>1, <2>2, <2>3, <2>4 DEF Next
<1>2. Inv /\ [Next]_vars =>
        [cached = Shapes /\ (\A t \in Threads : at[t] # "reset") => cached' = Shapes]_vars
  BY <1>1
<1> QED BY InitInv, NextInv, <1>2, PTL DEF Spec, WholeForGood

(* What the threads have still to do on the catalogue: each that found none has to *)
(* start it over and to parse every shape, each that fills it has some left.        *)
Owing == {p \in Threads \X (Shapes \union {None}) : at[p[1]] = "reset" \/ p[2] \in todo[p[1]]}

LEMMA ElsewhereOwesTheSame ==
  ASSUME NEW t \in Threads, NEW p \in Places \ {"reset"}, Inv, at[t] # "reset",
         at' = [at EXCEPT ![t] = p], UNCHANGED todo
  PROVE  Owing' = Owing
<1>1. \A u \in Threads : at'[u] = "reset" <=> at[u] = "reset"
  <2> SUFFICES ASSUME NEW u \in Threads PROVE at'[u] = "reset" <=> at[u] = "reset" OBVIOUS
  <2>1. CASE u = t
    <3>1. at'[u] = p BY <2>1 DEF Inv
    <3> QED BY <2>1, <3>1
  <2>2. CASE u # t
    <3>1. at'[u] = at[u] BY <2>2 DEF Inv
    <3> QED BY <3>1
  <2> QED BY <2>1, <2>2
<1>2. ASSUME NEW q \in Threads \X (Shapes \union {None})
      PROVE  (at'[q[1]] = "reset" \/ q[2] \in todo'[q[1]])
               <=> (at[q[1]] = "reset" \/ q[2] \in todo[q[1]])
  BY <1>1
<1> QED BY <1>2 DEF Owing

LEMMA ResetOwesLess ==
  ASSUME NEW t \in Threads, Inv, Reset(t)
  PROVE  cached' # None /\ Owing' \subseteq Owing /\ Owing' # Owing
<1>1. /\ at[t] = "reset" /\ at'[t] = "fill" /\ todo'[t] = Shapes
      /\ \A u \in Threads \ {t} : at'[u] = at[u] /\ todo'[u] = todo[u]
  BY DEF Inv, Reset
<1>2. ASSUME NEW p \in Owing' PROVE p \in Owing
  <2>1. p \in Threads \X (Shapes \union {None}) /\ (at'[p[1]] = "reset" \/ p[2] \in todo'[p[1]])
    BY DEF Owing
  <2>2. at[p[1]] = "reset" \/ p[2] \in todo[p[1]] BY <1>1, <2>1
  <2> QED BY <2>1, <2>2 DEF Owing
<1>3. <<t, None>> \in Owing BY <1>1 DEF Owing
<1>4. <<t, None>> \notin Owing' BY <1>1, ReaderAssumption DEF Owing
<1>5. cached' # None
  <2>1. cached' = {} BY DEF Reset
  <2>2. None # {} BY ReaderAssumption
  <2> QED BY <2>1, <2>2
<1> QED BY <1>2, <1>3, <1>4, <1>5

LEMMA FillOwesLess ==
  ASSUME NEW t \in Threads, Inv, Fill(t)
  PROVE  Owing' \subseteq Owing /\ Owing' # Owing
<1> DEFINE s == NextShape(todo[t])
<1>1. s \in todo[t] /\ s \in Shapes
  <2>1. todo[t] # {} BY DEF Inv, Fill
  <2>2. s \in todo[t] BY <2>1 DEF NextShape
  <2> QED BY <2>2 DEF Inv
<1>2. todo' = [todo EXCEPT ![t] = todo[t] \ {s}] /\ at[t] = "fill" /\ at'[t] # "reset"
  <2>1. at' = [at EXCEPT ![t] = IF todo[t] = {s} THEN "known" ELSE "fill"] BY DEF Fill
  <2>2. at'[t] = IF todo[t] = {s} THEN "known" ELSE "fill" BY <2>1 DEF Inv
  <2> QED BY <2>2 DEF Fill
<1>3. \A u \in Threads \ {t} : at'[u] = at[u] /\ todo'[u] = todo[u] BY <1>2 DEF Inv, Fill
<1>4. todo'[t] = todo[t] \ {s} BY <1>2 DEF Inv
<1> HIDE DEF s
<1>5. ASSUME NEW p \in Owing' PROVE p \in Owing
  <2>1. p \in Threads \X (Shapes \union {None}) /\ (at'[p[1]] = "reset" \/ p[2] \in todo'[p[1]])
    BY DEF Owing
  <2>2. at[p[1]] = "reset" \/ p[2] \in todo[p[1]] BY <1>2, <1>3, <1>4, <2>1
  <2> QED BY <2>1, <2>2 DEF Owing
<1>6. <<t, s>> \in Owing BY <1>1 DEF Owing
<1>7. <<t, s>> \notin Owing' BY <1>2, <1>4 DEF Owing
<1> QED BY <1>5, <1>6, <1>7

LEMMA OthersOweTheSame ==
  ASSUME Inv, [Next]_vars, cached # None, \A t \in Threads : ~ Reset(t) /\ ~ Fill(t)
  PROVE  Owing' = Owing /\ cached' # None
<1> USE DEF Places
<1>1. ASSUME NEW t \in Threads, Access(t) PROVE Owing' = Owing
  BY <1>1, ElsewhereOwesTheSame DEF Access
<1>2. ASSUME NEW t \in Threads, Serve(t) PROVE Owing' = Owing
  <2>1. CASE Known(t)
    <3>1. \/ at' = [at EXCEPT ![t] = "done"] \/ at' = [at EXCEPT ![t] = "query"]
      BY <2>1 DEF Known
    <3>2. at[t] = "known" /\ UNCHANGED todo BY <2>1 DEF Known
    <3>3. CASE at' = [at EXCEPT ![t] = "done"] BY <3>2, <3>3, ElsewhereOwesTheSame
    <3>4. CASE at' = [at EXCEPT ![t] = "query"] BY <3>2, <3>4, ElsewhereOwesTheSame
    <3> QED BY <3>1, <3>3, <3>4
  <2>2. CASE CountShape(t) BY <2>2 DEF CountShape, Owing
  <2>3. CASE ListPage(t) BY <2>3, ElsewhereOwesTheSame DEF ListPage
  <2>4. CASE ListTotal(t) BY <2>4, ElsewhereOwesTheSame DEF ListTotal, Finish
  <2>5. CASE Search(t) BY <2>5, ElsewhereOwesTheSame DEF Search, Finish
  <2>6. CASE Counted(t) BY <2>6, ElsewhereOwesTheSame DEF Counted, Finish
  <2>7. CASE Entity(t) BY <2>7, ElsewhereOwesTheSame DEF Entity, Finish
  <2>8. CASE Resource(t) BY <2>8, ElsewhereOwesTheSame DEF Resource, Finish
  <2>9. CASE Definition(t) BY <2>9, ElsewhereOwesTheSame DEF Definition, Finish
  <2>10. CASE Published(t) BY <2>10, ElsewhereOwesTheSame DEF Published, Finish
  <2>11. CASE ShapeList(t) BY <2>11, ElsewhereOwesTheSame DEF ShapeList, Finish
  <2> QED BY <1>2, <2>1, <2>2, <2>3, <2>4, <2>5, <2>6, <2>7, <2>8, <2>9, <2>10, <2>11 DEF Serve
<1>3. ASSUME NEW t \in Threads, NEW c \in Calls, Arrive(t, c) \/ Refuse(t, c)
      PROVE  Owing' = Owing
  <2>1. at[t] \in {"idle", "done"} /\ UNCHANGED todo BY <1>3 DEF Arrive, Refuse
  <2>2. \/ at' = [at EXCEPT ![t] = "access"] \/ at' = [at EXCEPT ![t] = "query"]
        \/ at' = [at EXCEPT ![t] = "done"]
    <3>1. CASE Arrive(t, c) /\ c.route \in Navigated BY <3>1 DEF Arrive
    <3>2. CASE Arrive(t, c) /\ c.route \notin Navigated BY <3>2 DEF Arrive
    <3>3. CASE Refuse(t, c) BY <3>3 DEF Refuse
    <3> QED BY <1>3, <3>1, <3>2, <3>3
  <2>3. CASE at' = [at EXCEPT ![t] = "access"] BY <2>1, <2>3, ElsewhereOwesTheSame
  <2>4. CASE at' = [at EXCEPT ![t] = "query"] BY <2>1, <2>4, ElsewhereOwesTheSame
  <2>5. CASE at' = [at EXCEPT ![t] = "done"] BY <2>1, <2>5, ElsewhereOwesTheSame
  <2> QED BY <2>2, <2>3, <2>4, <2>5
<1>4. ASSUME NEW tr \in Candidates, Curate(tr) PROVE Owing' = Owing
  BY <1>4 DEF Curate, Owing
<1>5. CASE UNCHANGED vars BY <1>5 DEF vars, Owing
<1>6. Owing' = Owing BY <1>1, <1>2, <1>3, <1>4, <1>5 DEF Next, Parse
<1>7. cached' = cached
  <2>1. ASSUME NEW t \in Threads, Parse(t) \/ Serve(t) PROVE cached' = cached
    BY <2>1, ServeKeeps DEF Parse
  <2>2. ASSUME NEW t \in Threads, NEW c \in Calls, Arrive(t, c) \/ Refuse(t, c)
        PROVE  cached' = cached
    BY <2>2, ArriveKeeps
  <2>3. ASSUME NEW tr \in Candidates, Curate(tr) PROVE cached' = cached BY <2>3 DEF Curate
  <2>4. CASE UNCHANGED vars BY <2>4 DEF vars
  <2> QED BY <2>1, <2>2, <2>3, <2>4 DEF Next
<1> QED BY <1>6, <1>7

(* Once there is a cache no request adds to the work on it, and every parsing step  *)
(* leaves less of it, however many threads started it over (_shapes): with finitely *)
(* many threads the cache is replaced and filled finitely often, whatever requests  *)
(* arrive. CatalogueSettles, which a run checks, adds that the steps are taken.      *)
THEOREM ParsingRunsOut ==
  Spec => [][cached # None =>
               /\ cached' # None /\ Owing' \subseteq Owing
               /\ (\E t \in Threads : Reset(t) \/ Fill(t)) => Owing' # Owing]_vars
<1>1. ASSUME Inv, [Next]_vars, cached # None
      PROVE  /\ cached' # None /\ Owing' \subseteq Owing
             /\ (\E t \in Threads : Reset(t) \/ Fill(t)) => Owing' # Owing
  <2>1. ASSUME NEW t \in Threads, Reset(t)
        PROVE  cached' # None /\ Owing' \subseteq Owing /\ Owing' # Owing
    BY <1>1, <2>1, ResetOwesLess
  <2>2. ASSUME NEW t \in Threads, Fill(t)
        PROVE  cached' # None /\ Owing' \subseteq Owing /\ Owing' # Owing
    <3>1. cached' # None BY <1>1, <2>2, FillKeeps, ReaderAssumption
    <3> QED BY <1>1, <2>2, <3>1, FillOwesLess
  <2>3. CASE \A t \in Threads : ~ Reset(t) /\ ~ Fill(t)
    BY <1>1, <2>3, OthersOweTheSame
  <2> QED BY <2>1, <2>2, <2>3
<1>2. Inv /\ [Next]_vars =>
        [cached # None =>
           /\ cached' # None /\ Owing' \subseteq Owing
           /\ (\E t \in Threads : Reset(t) \/ Fill(t)) => Owing' # Owing]_vars
  BY <1>1
<1> QED BY InitInv, NextInv, <1>2, PTL DEF Spec

(* ------------------------- absence is never a failure ------------------------- *)
(* Between a request's reads and its answer, and for as long as the answer stands, *)
(* the edits counted since tell whether the graph is the one it read.              *)
IsJob(j) == DOMAIN j = {"call", "seen", "got", "failed", "since", "until", "answer"}

NotFound(j) == j.answer.status = 404 /\ (j.call.route \in Navigated => j.seen = Shapes)
FileLinks(x) == {tr \in graph : tr[3] = x /\ \E s \in Shapes : \E p \in Schema[s].properties :
                                  p.node = DigitalCopyShape /\ tr[2] = p.path}
NotStored(j) ==
  /\ j.call.route = "entity" => Outgoing(j.call.iri) = {}
  /\ j.call.route = "resource" => Description(j.call.iri) = {}
  /\ j.call.route = "published" => FileLinks(j.call.iri) = {}
ReallyAbsent(j) ==
  /\ ~ j.failed
  /\ j.call.route \in {"list", "search", "shape"} => j.call.shape \notin Shapes
  /\ j.since = edits => NotStored(j)

(* A thread that has not answered has met no failure, or is past the point where   *)
(* it could answer that there is nothing.                                          *)
Sound(t) ==
  /\ IsJob(job[t]) /\ job[t].since \in 0..edits
  /\ at[t] \notin {"idle", "done", "total"} => ~ job[t].failed \/ job[t].call.route = "counts"
  /\ at[t] = "total" => job[t].call.route = "list"
  /\ at[t] = "done" /\ NotFound(job[t]) => ReallyAbsent(job[t])
SoundInv == /\ edits \in Nat /\ DOMAIN job = Threads
            /\ \A t \in Threads : Sound(t)

(* The other threads are not affected. *)
LEMMA OthersSound ==
  ASSUME Inv, SoundInv, NEW t \in Threads, DOMAIN job' = Threads,
         \A u \in Threads \ {t} : job'[u] = job[u] /\ at'[u] = at[u],
         UNCHANGED <<graph, edits>>, Sound(t)'
  PROVE  SoundInv'
<1>1. ASSUME NEW u \in Threads, u # t PROVE Sound(u)'
  <2>1. job'[u] = job[u] /\ at'[u] = at[u] BY <1>1
  <2>2. Sound(u) BY DEF SoundInv
  <2> QED BY <2>1, <2>2 DEF Sound, IsJob, NotFound, ReallyAbsent, NotStored, Outgoing, Description, FileLinks
<1> QED BY <1>1 DEF SoundInv

(* An answer, by the way the request ended. *)
LEMMA FinishSounds ==
  ASSUME Inv, SoundInv, NEW t \in Threads, NEW ok \in BOOLEAN, NEW a, Finish(t, ok, a),
         UNCHANGED <<graph, edits>>, at[t] \in {"query", "total"},
         a.status = 404 => /\ ok /\ job[t].call.route \in {"entity", "resource", "published"}
                           /\ job[t].call.route = "published" =>
                                (job[t].seen = Shapes => FileLinks(job[t].call.iri) = {})
                           /\ job[t].call.route # "published" => NotStored(job[t])
  PROVE  SoundInv'
<1>1. Sound(t) /\ DOMAIN job = Threads /\ at \in [Threads -> Places]
  BY DEF SoundInv, Inv
<1>2. /\ DOMAIN job' = Threads /\ at'[t] = "done"
      /\ \A u \in Threads \ {t} : job'[u] = job[u] /\ at'[u] = at[u]
  BY <1>1 DEF Finish
<1>3. /\ IsJob(job'[t]) /\ job'[t].call = job[t].call /\ job'[t].seen = job[t].seen
      /\ job'[t].since = job[t].since /\ job'[t].answer = a
  BY <1>1 DEF Finish, Sound, IsJob
<1>4. ok /\ ~ job[t].failed => ~ job'[t].failed
  BY <1>1 DEF Finish, Sound, IsJob
<1>5. ASSUME NotFound(job'[t]) PROVE ReallyAbsent(job[t])'
  <2>1. ok /\ job[t].call.route \in {"entity", "resource", "published"}
    BY <1>3, <1>5 DEF NotFound
  <2>2. ~ job[t].failed BY <1>1, <2>1 DEF Sound
  <2>3. NotStored(job[t])
    BY <1>3, <1>5, <2>1 DEF NotFound, NotStored, Navigated
  <2>4. NotStored(job[t])' BY <1>3, <2>3 DEF NotStored, Outgoing, Description, FileLinks
  <2>5. job'[t].call.route \notin {"list", "search", "shape"} BY <1>3, <2>1
  <2> QED BY <1>4, <2>1, <2>2, <2>4, <2>5 DEF ReallyAbsent
<1>6. Sound(t)' BY <1>1, <1>2, <1>3, <1>5 DEF Sound, NotFound
<1> QED BY <1>2, <1>6, OthersSound

LEMMA CopiesAreFound ==
  ASSUME CopiesAreLinked, NEW s \in Shapes, NEW p \in Schema[s].properties,
         p.node = DigitalCopyShape
  PROVE  \E l \in LinksToShape(Holding(Shapes), DigitalCopyShape) : l[2] = p.path
<1> DEFINE H == Holding(Shapes)
           d == Descriptor(Schema, s)
           q == Property(Schema, p)
<1>1. DOMAIN H = Shapes /\ H[s] = d BY DEF Holding, Parsed, Catalogue
<1>2. d.target = Schema[s].target /\ d.target # None BY DEF Descriptor, CopiesAreLinked
<1>3. q.path = p.path /\ q.node = DigitalCopyShape BY DEF Property
<1>4. p.path # None BY DEF CopiesAreLinked
<1>5. q \in d.properties BY <1>4 DEF Descriptor
<1> HIDE DEF H, d, q
<1>6. <<d.target, q.path>> \in LinksToShape(H, DigitalCopyShape)
  <2>1. s \in {x \in DOMAIN H : H[x].target # None} BY <1>1, <1>2
  <2>2. <<d.target, q.path>> \in {<<H[s].target, y.path>> :
                                    y \in {x \in H[s].properties : x.node = DigitalCopyShape}}
    BY <1>1, <1>3, <1>5
  <2> QED BY <2>1, <2>2 DEF LinksToShape
<1> QED BY <1>3, <1>6 DEF H

LEMMA UnpublishedIsUnlinked ==
  ASSUME CopiesAreLinked, NEW t \in Threads, job[t].seen = Shapes, NEW x,
         ~ \E tr \in graph : tr[2] \in LinkPredicates(t) /\ tr[3] = x
  PROVE  FileLinks(x) = {}
<1> SUFFICES ASSUME NEW tr \in FileLinks(x) PROVE FALSE OBVIOUS
<1>1. PICK s \in Shapes : \E p \in Schema[s].properties :
                            p.node = DigitalCopyShape /\ tr[2] = p.path
  BY DEF FileLinks
<1>2. PICK p \in Schema[s].properties : p.node = DigitalCopyShape /\ tr[2] = p.path BY <1>1
<1>3. PICK l \in LinksToShape(Holding(Shapes), DigitalCopyShape) : l[2] = p.path
  BY <1>2, CopiesAreFound
<1>4. tr[2] \in LinkPredicates(t) BY <1>2, <1>3 DEF LinkPredicates, Descriptors
<1> QED BY <1>4 DEF FileLinks

LEMMA ServeSounds ==
  ASSUME CopiesAreLinked, Inv, SoundInv, NEW t \in Threads, Serve(t)
  PROVE  SoundInv'
<1>0. Sound(t) /\ DOMAIN job = Threads /\ at \in [Threads -> Places]
  BY DEF SoundInv, Inv
<1>1. CASE Known(t)
  <2>1. UNCHANGED <<graph, edits>> /\ at[t] = "known" BY <1>1 DEF Known
  <2>2. ~ job[t].failed \/ job[t].call.route = "counts" BY <1>0, <2>1 DEF Sound
  <2>3. /\ DOMAIN job' = Threads
        /\ \A u \in Threads \ {t} : job'[u] = job[u] /\ at'[u] = at[u]
    BY <1>0, <1>1 DEF Known
  <2>4. CASE job[t].call.route \in {"list", "search", "shape"} /\ job[t].call.shape \notin cached
    <3>1. /\ at'[t] = "done" /\ IsJob(job'[t]) /\ job'[t].call = job[t].call
          /\ job'[t].seen = cached /\ job'[t].failed = job[t].failed
          /\ job'[t].since = job[t].since
      BY <1>0, <1>1, <2>4 DEF Known, Sound, IsJob
    <3>2. ASSUME NotFound(job'[t]) PROVE ReallyAbsent(job[t])'
      <4>1. cached = Shapes BY <2>4, <3>1, <3>2 DEF NotFound, Navigated
      <4> QED BY <2>2, <2>4, <3>1, <4>1 DEF ReallyAbsent, NotStored
    <3>3. Sound(t)' BY <1>0, <2>1, <3>1, <3>2 DEF Sound, NotFound
    <3> QED BY <2>1, <2>3, <3>3, OthersSound
  <2>5. CASE ~ (job[t].call.route \in {"list", "search", "shape"} /\ job[t].call.shape \notin cached)
    <3>1. /\ at'[t] = "query" /\ IsJob(job'[t]) /\ job'[t].call = job[t].call
          /\ job'[t].failed = job[t].failed /\ job'[t].since = edits
      BY <1>0, <1>1, <2>5 DEF Known, Sound, IsJob
    <3>2. Sound(t)' BY <2>1, <2>2, <3>1 DEF Sound, SoundInv
    <3> QED BY <2>1, <2>3, <3>2, OthersSound
  <2> QED BY <2>4, <2>5
<1>2. CASE ListPage(t)
  <2>1. /\ DOMAIN job' = Threads
        /\ \A u \in Threads \ {t} : job'[u] = job[u] /\ at'[u] = at[u]
    BY <1>0, <1>2 DEF ListPage
  <2>2. /\ at'[t] = "total" /\ IsJob(job'[t]) /\ job'[t].call = job[t].call
        /\ job'[t].since = job[t].since
    BY <1>0, <1>2 DEF ListPage, Sound, IsJob
  <2>3. UNCHANGED <<graph, edits>> /\ job[t].call.route = "list" BY <1>2 DEF ListPage
  <2>4. Sound(t)' BY <1>0, <2>2, <2>3 DEF Sound
  <2> QED BY <2>1, <2>3, <2>4, OthersSound
<1>3. CASE CountShape(t)
  <2>1. /\ DOMAIN job' = Threads /\ at' = at
        /\ \A u \in Threads \ {t} : job'[u] = job[u]
    BY <1>0, <1>3 DEF CountShape
  <2>2. IsJob(job'[t]) /\ job'[t].call = job[t].call /\ job'[t].since = job[t].since
    BY <1>0, <1>3 DEF CountShape, Sound, IsJob
  <2>3. UNCHANGED <<graph, edits>> /\ at[t] = "query" /\ job[t].call.route = "counts"
    BY <1>3 DEF CountShape
  <2>4. Sound(t)' BY <1>0, <2>1, <2>2, <2>3 DEF Sound
  <2> QED BY <2>1, <2>3, <2>4, OthersSound
<1>4. ASSUME NEW a, NEW ok \in BOOLEAN, a.status # 404, Finish(t, ok, a),
             at[t] \in {"query", "total"}, UNCHANGED <<graph, edits>>
      PROVE  SoundInv'
  BY <1>4, FinishSounds
<1>5. CASE ShapeList(t)
  <2> DEFINE a == [status |-> 200, shapes |-> Stamped(Descriptors(t), ReadOnlyShapes)]
  <2>1. a.status # 404 /\ TRUE \in BOOLEAN OBVIOUS
  <2>2. Finish(t, TRUE, a) /\ at[t] = "query" /\ UNCHANGED <<graph, edits>>
    BY <1>5 DEF ShapeList
  <2> HIDE DEF a
  <2> QED BY <1>4, <2>1, <2>2
<1>6. CASE ListTotal(t)
  <2>1. PICK ok \in BOOLEAN : \E a : Finish(t, ok, a) /\ a.status = 200
    BY <1>6 DEF ListTotal
  <2>2. PICK a : Finish(t, ok, a) /\ a.status = 200 BY <2>1
  <2> QED BY <1>4, <1>6, <2>2 DEF ListTotal
<1>7. CASE Search(t)
  <2>1. PICK ok \in BOOLEAN : \E a : Finish(t, ok, a) /\ a.status = 200
    BY <1>7 DEF Search
  <2>2. PICK a : Finish(t, ok, a) /\ a.status = 200 BY <2>1
  <2> QED BY <1>4, <1>7, <2>2 DEF Search
<1>8. CASE Counted(t)
  <2> DEFINE a == [status |-> 200, counts |-> job[t].got]
  <2>1. a.status # 404 /\ TRUE \in BOOLEAN OBVIOUS
  <2>2. Finish(t, TRUE, a) /\ at[t] = "query" /\ UNCHANGED <<graph, edits>>
    BY <1>8 DEF Counted
  <2> HIDE DEF a
  <2> QED BY <1>4, <2>1, <2>2
<1>9. ASSUME at[t] = "query", UNCHANGED <<graph, edits>>, Finish(t, TRUE, [status |-> 404]),
             job[t].call.route \in {"entity", "resource", "published"},
             job[t].call.route = "published" =>
               (job[t].seen = Shapes => FileLinks(job[t].call.iri) = {}),
             job[t].call.route # "published" => NotStored(job[t])
      PROVE  SoundInv'
  <2> DEFINE a == [status |-> 404]
  <2>1. Finish(t, TRUE, a) /\ TRUE \in BOOLEAN BY <1>9
  <2> HIDE DEF a
  <2> QED BY <1>9, <2>1, FinishSounds
<1>10. ASSUME NEW s \in {200, 503}, NEW ok \in BOOLEAN, at[t] = "query",
              UNCHANGED <<graph, edits>>, Finish(t, ok, [status |-> s])
       PROVE  SoundInv'
  <2> DEFINE a == [status |-> s]
  <2>1. a.status # 404 /\ Finish(t, ok, a) BY <1>10
  <2> HIDE DEF a
  <2> QED BY <1>4, <1>10, <2>1
<1>11. CASE Entity(t)
  <2> DEFINE x == job[t].call.iri
             a == [status |-> 200, body |-> Outgoing(x)]
  <2>1. at[t] = "query" /\ job[t].call.route = "entity" /\ UNCHANGED <<graph, edits>>
    BY <1>11 DEF Entity
  <2>2. a.status # 404 OBVIOUS
  <2>3. \/ Finish(t, FALSE, [status |-> 503])
        \/ Outgoing(x) = {} /\ Finish(t, TRUE, [status |-> 404])
        \/ Finish(t, TRUE, a)
    BY <1>11 DEF Entity
  <2> HIDE DEF a
  <2>4. CASE Finish(t, FALSE, [status |-> 503]) BY <1>10, <2>1, <2>4
  <2>5. CASE Outgoing(x) = {} /\ Finish(t, TRUE, [status |-> 404])
    BY <1>9, <2>1, <2>5 DEF NotStored
  <2>6. CASE Finish(t, TRUE, a) BY <1>4, <2>1, <2>2, <2>6
  <2> QED BY <2>3, <2>4, <2>5, <2>6
<1>12. CASE Resource(t)
  <2> DEFINE c == job[t].call
             a == [status |-> 200, formats |-> Supported(c)]
             b == [status |-> 200, media |-> Media(c),
                   body |-> Respond(Description(c.iri), c.iri, Media(c))]
  <2>1. at[t] = "query" /\ job[t].call.route = "resource" /\ UNCHANGED <<graph, edits>>
    BY <1>12 DEF Resource
  <2>2. a.status # 404 /\ b.status # 404 OBVIOUS
  <2>3. \/ Finish(t, FALSE, [status |-> 503])
        \/ Description(c.iri) = {} /\ Finish(t, TRUE, [status |-> 404])
        \/ Finish(t, TRUE, a) \/ Finish(t, TRUE, b)
    BY <1>12 DEF Resource
  <2> HIDE DEF a, b
  <2>4. CASE Finish(t, FALSE, [status |-> 503]) BY <1>10, <2>1, <2>4
  <2>5. CASE Description(c.iri) = {} /\ Finish(t, TRUE, [status |-> 404])
    BY <1>9, <2>1, <2>5 DEF NotStored
  <2>6. CASE Finish(t, TRUE, a) \/ Finish(t, TRUE, b) BY <1>4, <2>1, <2>2, <2>6
  <2> QED BY <2>3, <2>4, <2>5, <2>6
<1>13. CASE Definition(t)
  <2> DEFINE c == job[t].call
             a == [status |-> 200, formats |-> Supported(c)]
             b == [status |-> 200, media |-> Media(c), definition |-> Schema[c.shape]]
  <2>1. at[t] = "query" /\ UNCHANGED <<graph, edits>> BY <1>13 DEF Definition
  <2>2. a.status # 404 /\ b.status # 404 OBVIOUS
  <2>3. Finish(t, TRUE, a) \/ Finish(t, TRUE, b) BY <1>13 DEF Definition
  <2> HIDE DEF a, b
  <2> QED BY <1>4, <2>1, <2>2, <2>3
<1>14. CASE Published(t)
  <2> DEFINE x == job[t].call.iri
             linked == \E tr \in graph : tr[2] \in LinkPredicates(t) /\ tr[3] = x
  <2>1. at[t] = "query" /\ job[t].call.route = "published" /\ UNCHANGED <<graph, edits>>
    BY <1>14 DEF Published
  <2>2. \/ \E s \in {200, 503} : Finish(t, FALSE, [status |-> s])
        \/ linked /\ Finish(t, TRUE, [status |-> 200])
        \/ ~ linked /\ Finish(t, TRUE, [status |-> 404])
    BY <1>14 DEF Published
  <2>3. CASE \E s \in {200, 503} : Finish(t, FALSE, [status |-> s])
    <3>1. PICK s \in {200, 503} : Finish(t, FALSE, [status |-> s]) BY <2>3
    <3>2. FALSE \in BOOLEAN OBVIOUS
    <3> QED BY <1>10, <2>1, <3>1, <3>2
  <2>5. CASE Finish(t, TRUE, [status |-> 200])
    <3>1. TRUE \in BOOLEAN OBVIOUS
    <3> QED BY <1>10, <2>1, <2>5, <3>1
  <2>4. CASE ~ linked /\ Finish(t, TRUE, [status |-> 404])
    <3>1. job[t].seen = Shapes => FileLinks(x) = {} BY <2>4, UnpublishedIsUnlinked
    <3> QED BY <1>9, <2>1, <2>4, <3>1
  <2> QED BY <2>2, <2>3, <2>4, <2>5
<1> QED BY <1>1, <1>2, <1>3, <1>5, <1>6, <1>7, <1>8, <1>11, <1>12, <1>13, <1>14 DEF Serve

LEMMA ArriveSounds ==
  ASSUME Inv, SoundInv, NEW t \in Threads, NEW c \in Calls, Arrive(t, c) \/ Refuse(t, c)
  PROVE  SoundInv'
<1>1. /\ DOMAIN job = Threads /\ at \in [Threads -> Places]
      /\ UNCHANGED <<graph, edits>> /\ edits \in Nat
  BY DEF SoundInv, Inv, Arrive, Refuse
<1>2. /\ DOMAIN job' = Threads
      /\ \A u \in Threads \ {t} : job'[u] = job[u] /\ at'[u] = at[u]
  BY <1>1 DEF Arrive, Refuse
<1>3. CASE Arrive(t, c)
  <2>1. at'[t] \in {"access", "query"} BY <1>1, <1>3 DEF Arrive
  <2>2. IsJob(job'[t]) /\ ~ job'[t].failed /\ job'[t].since = edits
    BY <1>1, <1>3 DEF Arrive, NoJob, IsJob
  <2>3. Sound(t)' BY <1>1, <2>1, <2>2 DEF Sound
  <2> QED BY <1>1, <1>2, <2>3, OthersSound
<1>4. CASE Refuse(t, c)
  <2>1. at'[t] = "done" BY <1>1, <1>4 DEF Refuse
  <2>2. IsJob(job'[t]) /\ job'[t].answer.status = 400 /\ job'[t].since = 0
    BY <1>1, <1>4 DEF Refuse, NoJob, IsJob
  <2>3. Sound(t)' BY <1>1, <2>1, <2>2 DEF Sound, NotFound
  <2> QED BY <1>1, <1>2, <2>3, OthersSound
<1> QED BY <1>3, <1>4

LEMMA NextSounds ==
  ASSUME CopiesAreLinked
  PROVE  Inv /\ SoundInv /\ [Next]_vars => SoundInv'
<1> SUFFICES ASSUME Inv, SoundInv, [Next]_vars PROVE SoundInv' OBVIOUS
<1>1. ASSUME NEW t \in Threads, Serve(t) PROVE SoundInv' BY <1>1, ServeSounds
<1>2. ASSUME NEW t \in Threads, Parse(t) PROVE SoundInv'
  <2>1. PICK p \in {"reset", "known", "fill"} : at' = [at EXCEPT ![t] = p]
    BY <1>2 DEF Parse, Access, Reset, Fill
  <2>2. /\ UNCHANGED <<job, graph, edits>> /\ at[t] \in {"access", "reset", "fill"}
        /\ at \in [Threads -> Places]
    BY <1>2 DEF Parse, Access, Reset, Fill, Inv
  <2>3. \A u \in Threads : at'[u] = at[u] \/ (u = t /\ at'[u] = p) BY <2>1, <2>2
  <2>4. ASSUME NEW u \in Threads PROVE Sound(u)'
    <3>1. Sound(u) BY DEF SoundInv
    <3> QED BY <2>2, <2>3, <3>1 DEF Sound, IsJob, NotFound, ReallyAbsent, NotStored,
                                    Outgoing, Description, FileLinks
  <2> QED BY <2>2, <2>4 DEF SoundInv
<1>3. ASSUME NEW t \in Threads, NEW c \in Calls, Arrive(t, c) \/ Refuse(t, c) PROVE SoundInv'
  BY <1>3, ArriveSounds
<1>4. ASSUME NEW tr \in Candidates, Curate(tr) PROVE SoundInv'
  <2>1. edits \in Nat /\ edits' = edits + 1 /\ UNCHANGED <<at, job>>
    BY <1>4 DEF Curate, SoundInv
  <2>2. ASSUME NEW u \in Threads PROVE Sound(u)'
    <3>1. Sound(u) BY DEF SoundInv
    <3>2. job[u].since # edits' BY <2>1, <3>1 DEF Sound
    <3> QED BY <2>1, <3>1, <3>2 DEF Sound, IsJob, NotFound, ReallyAbsent
  <2> QED BY <2>1, <2>2 DEF SoundInv
<1>5. CASE UNCHANGED vars
  BY <1>5 DEF vars, SoundInv, Sound, IsJob, NotFound, ReallyAbsent, NotStored, Outgoing,
              Description, FileLinks
<1> QED BY <1>1, <1>2, <1>3, <1>4, <1>5 DEF Next

(* AbsenceIsReal: what a request that saw the whole catalogue does not find is not *)
(* there; a failing store is never answered as absence (the 404s of the routes).   *)
THEOREM AbsencesAreReal ==
  ASSUME CopiesAreLinked
  PROVE  Spec => []AbsenceIsReal
<1>1. Init => SoundInv
  BY DEF Init, SoundInv, Sound, NoJob, IsJob
<1>2. SoundInv => AbsenceIsReal
  BY DEF SoundInv, Sound, NotFound, ReallyAbsent, NotStored, FileLinks, AbsenceIsReal
<1> QED BY InitInv, NextInv, NextSounds, <1>1, <1>2, PTL DEF Spec

(* --------------------- one descriptor for three readers --------------------- *)
(* When a field is nested, a file list or a search, by what the schema says.    *)
LEMMA FieldTypes ==
  ASSUME NEW p
  PROVE  /\ FieldType(Schema, p) = "file-list" <=> TakesFiles(Schema, p)
         /\ FieldType(Schema, p) = "nested" =>
              p.node # None /\ ("BlankNode" \in p.kinds \/ NestedRole(Schema, p) = "helper-bridge")
         /\ FieldType(Schema, p) = "entity-search" => p.node # None \/ p.class # None
<1>1. LiteralType(p.datatypes) \notin {"file-list", "nested", "entity-search"}
  BY DEF LiteralType
<1>2. /\ ReferenceType(Schema, p) # "file-list"
      /\ ReferenceType(Schema, p) = "nested" =>
           p.node # None /\ ("BlankNode" \in p.kinds \/ NestedRole(Schema, p) = "helper-bridge")
      /\ ReferenceType(Schema, p) = "entity-search" => p.node # None \/ p.class # None
  BY DEF ReferenceType
<1>3. \/ InferFieldType(Schema, p) = "enum"
      \/ InferFieldType(Schema, p) = LiteralType(p.datatypes)
      \/ InferFieldType(Schema, p) = ReferenceType(Schema, p)
  BY DEF InferFieldType
<1>4. \/ TakesFiles(Schema, p) /\ FieldType(Schema, p) = "file-list"
      \/ ~ TakesFiles(Schema, p) /\ FieldType(Schema, p) = "lang-string-list"
      \/ ~ TakesFiles(Schema, p) /\ FieldType(Schema, p) = InferFieldType(Schema, p)
  BY DEF FieldType
<1> QED BY <1>1, <1>2, <1>3, <1>4

(* A property of a descriptor, by the property it was made from.                *)
LEMMA HeldProperties ==
  ASSUME NEW C, C \subseteq Shapes, NEW s \in C
  PROVE  /\ DOMAIN Holding(C) = C
         /\ Holding(C)[s].target = Schema[s].target
         /\ \A x \in Holding(C)[s].properties : \E p \in Schema[s].properties :
              /\ x.path = p.path /\ x.node = p.node /\ x.class = p.class
              /\ x.role = NestedRole(Schema, p) /\ x.type = FieldType(Schema, p)
<1> DEFINE d == Descriptor(Schema, s)
<1>1. DOMAIN Holding(C) = C /\ Holding(C)[s] = d BY DEF Holding, Parsed, Catalogue
<1>2. d.target = Schema[s].target BY DEF Descriptor
<1>3. ASSUME NEW x \in d.properties
      PROVE  \E p \in Schema[s].properties :
               /\ x.path = p.path /\ x.node = p.node /\ x.class = p.class
               /\ x.role = NestedRole(Schema, p) /\ x.type = FieldType(Schema, p)
  <2>1. PICK p \in Schema[s].properties : x = Property(Schema, p) BY <1>3 DEF Descriptor
  <2>2. /\ x.path = p.path /\ x.node = p.node /\ x.class = p.class
        /\ x.role = NestedRole(Schema, p) /\ x.type = FieldType(Schema, p)
    BY <2>1 DEF Property
  <2> QED BY <2>2
<1> HIDE DEF d
<1> QED BY <1>1, <1>2, <1>3

(* The three readings of a catalogue, one element at a time.                    *)
LEMMA DependencyOf ==
  ASSUME NEW H, NEW s \in DOMAIN H, NEW path, NEW node
  PROVE  [from |-> s, pred |-> path, to |-> node, inline |-> TRUE] \in Dependencies(H) <=>
           \E x \in H[s].properties : /\ x.path = path /\ x.node = node /\ node # None
                                      /\ x.role = "helper-bridge" /\ x.type = "nested"
<1> DEFINE Edge(u, x) == [from |-> u, pred |-> x.path, to |-> x.node,
                          inline |-> x.role = "helper-bridge" /\ x.type = "nested"]
           e == [from |-> s, pred |-> path, to |-> node, inline |-> TRUE]
<1>1. e \in Dependencies(H) <=>
        \E u \in DOMAIN H : \E x \in H[u].properties : x.node # None /\ e = Edge(u, x)
  <2>1. Dependencies(H) =
          UNION {{Edge(u, x) : x \in {y \in H[u].properties : y.node # None}} : u \in DOMAIN H}
    BY DEF Dependencies
  <2> HIDE DEF e, Edge
  <2> QED BY <2>1
<1>2. ASSUME NEW u, NEW x, e = Edge(u, x)
      PROVE  /\ u = s /\ x.path = path /\ x.node = node
             /\ x.role = "helper-bridge" /\ x.type = "nested"
  <2>1. e.from = s /\ e.pred = path /\ e.to = node /\ e.inline = TRUE OBVIOUS
  <2>2. /\ Edge(u, x).from = u /\ Edge(u, x).pred = x.path /\ Edge(u, x).to = x.node
        /\ Edge(u, x).inline = (x.role = "helper-bridge" /\ x.type = "nested")
    OBVIOUS
  <2> QED BY <1>2, <2>1, <2>2
<1>3. ASSUME NEW x, x.path = path, x.node = node, x.role = "helper-bridge", x.type = "nested"
      PROVE  e = Edge(s, x)
  BY <1>3
<1> HIDE DEF e, Edge
<1> QED BY <1>1, <1>2, <1>3 DEF e

LEMMA LinkOf ==
  ASSUME NEW H, NEW target, NEW path
  PROVE  <<target, path>> \in LinksToShape(H, DigitalCopyShape) <=>
           \E s \in DOMAIN H : /\ H[s].target # None /\ H[s].target = target
                               /\ \E x \in H[s].properties : /\ x.node = DigitalCopyShape
                                                             /\ x.path = path
BY DEF LinksToShape

LEMMA RelationOf ==
  ASSUME NEW H, NEW s \in DOMAIN H, NEW x \in H[s].properties, x.node # None \/ x.class # None
  PROVE  x.path \in RelationPredicates(H)
BY DEF RelationPredicates

(* FieldsAgree: the form, the validation and the routes read one field alike,   *)
(* for every schema that is well declared and however much of it was parsed.    *)
THEOREM FieldsAreRead ==
  ASSUME WellDeclared
  PROVE  Spec => []FieldsAgree
<1>1. ASSUME NEW C, C \subseteq Shapes, NEW s \in C, NEW x \in Holding(C)[s].properties
      PROVE  /\ x.type = "nested" <=>
                  [from |-> s, pred |-> x.path, to |-> x.node, inline |-> TRUE]
                    \in Dependencies(Holding(C))
             /\ x.type = "file-list" <=>
                  <<Holding(C)[s].target, x.path>> \in LinksToShape(Holding(C), DigitalCopyShape)
             /\ x.type \in {"nested", "entity-search", "file-list"}
                  => x.path \in RelationPredicates(Holding(C))
  <2> DEFINE H == Holding(C)
  <2>1. DOMAIN H = C BY <1>1, HeldProperties
  <2>2. \A u \in C : H[u].target = Schema[u].target BY <1>1, HeldProperties
  <2>3. \A u \in C : \A y \in H[u].properties : \E p \in Schema[u].properties :
           /\ y.path = p.path /\ y.node = p.node /\ y.class = p.class
           /\ y.role = NestedRole(Schema, p) /\ y.type = FieldType(Schema, p)
    BY <1>1, HeldProperties
  <2> HIDE DEF H
  <2>4. PICK p \in Schema[s].properties :
           /\ x.path = p.path /\ x.node = p.node /\ x.class = p.class
           /\ x.role = NestedRole(Schema, p) /\ x.type = FieldType(Schema, p)
    BY <1>1, <2>3 DEF H
  <2>5. s \in Shapes /\ x \in H[s].properties BY <1>1 DEF H
  <2>6. x.type = "nested" => x.node # None /\ x.role = "helper-bridge"
    BY <2>4, <2>5, FieldTypes DEF WellDeclared, NestedRole
  <2>7. \A y \in H[s].properties : y.path = x.path => y.type = x.type /\ y.node = x.node
    <3>1. SUFFICES ASSUME NEW y \in H[s].properties, y.path = x.path
                   PROVE  y.type = x.type /\ y.node = x.node
      OBVIOUS
    <3>2. PICK q \in Schema[s].properties :
            y.path = q.path /\ y.node = q.node /\ y.type = FieldType(Schema, q)
      BY <1>1, <2>3, <3>1
    <3>3. q = p BY <2>4, <2>5, <3>1, <3>2 DEF WellDeclared
    <3> QED BY <2>4, <3>2, <3>3
  <2>8. x.type = "nested" <=> [from |-> s, pred |-> x.path, to |-> x.node, inline |-> TRUE]
                                \in Dependencies(H)
    BY <1>1, <2>1, <2>5, <2>6, <2>7, DependencyOf
  <2>9. x.type = "file-list" <=> <<H[s].target, x.path>> \in LinksToShape(H, DigitalCopyShape)
    <3>1. x.type = "file-list" <=> x.node = DigitalCopyShape
      <4>1. x.type = "file-list" <=> TakesFiles(Schema, p) BY <2>4, FieldTypes
      <4>2. TakesFiles(Schema, p) <=> p.node = DigitalCopyShape
        BY <2>5 DEF TakesFiles, WellDeclared, Shapes
      <4> QED BY <2>4, <4>1, <4>2
    <3>2. \A u \in C : H[u].target = H[s].target => u = s
      BY <1>1, <2>2 DEF WellDeclared
    <3>3. H[s].target # None BY <1>1, <2>2, <2>5 DEF WellDeclared
    <3>4. <<H[s].target, x.path>> \in LinksToShape(H, DigitalCopyShape) <=>
            \E y \in H[s].properties : y.node = DigitalCopyShape /\ y.path = x.path
      BY <1>1, <2>1, <3>2, <3>3, LinkOf
    <3> QED BY <2>5, <2>7, <3>1, <3>4
  <2>10. x.type \in {"nested", "entity-search", "file-list"} => x.path \in RelationPredicates(H)
    <3>1. x.type \in {"nested", "entity-search", "file-list"} => x.node # None \/ x.class # None
      <4>1. x.type = "file-list" => p.node \in Shapes BY <2>4, FieldTypes DEF TakesFiles, Shapes
      <4> QED BY <2>4, <2>6, <4>1, FieldTypes, ReaderAssumption
    <3> QED BY <1>1, <2>1, <2>5, <3>1, RelationOf
  <2> QED BY <2>8, <2>9, <2>10 DEF H
<1>2. Inv => FieldsAgree
  <2> SUFFICES ASSUME Inv, cached # None PROVE FieldsAgree
    BY DEF FieldsAgree
  <2>1. cached \subseteq Shapes BY DEF Inv, Filling
  <2> QED BY <1>1, <2>1 DEF FieldsAgree
<1> QED BY InitInv, NextInv, <1>2, PTL DEF Spec

(* ---------------------------- content negotiation ---------------------------- *)
(* An entry of the Accept header comes before another when it is preferred to   *)
(* it, or preferred as much and named first; any finite number of them has a    *)
(* first one: one with the fewest before it.                                    *)
Before(a, j, i) == a[i].q < a[j].q \/ (a[i].q = a[j].q /\ j < i)

LEMMA OneIsFirst ==
  ASSUME NEW a, NEW n \in Nat, \A i \in 1..n : a[i].q \in Int,
         NEW U \in SUBSET (1..n), U # {}
  PROVE  \E i \in U : \A j \in U : ~ Before(a, j, i)
<1> DEFINE ahead(i) == {j \in U : Before(a, j, i)}
           T == {Cardinality(ahead(i)) : i \in U}
           Less == OpToRel(<, Nat)
<1>1. IsFiniteSet(U)
  <2>1. IsFiniteSet(1..n) BY FS_Interval
  <2> QED BY <2>1, FS_Subset
<1>2. ASSUME NEW i \in U PROVE IsFiniteSet(ahead(i)) /\ Cardinality(ahead(i)) \in Nat
  <2>1. ahead(i) \subseteq U OBVIOUS
  <2> QED BY <1>1, <2>1, FS_Subset, FS_CardinalityType
<1>3. T \subseteq Nat /\ T # {} BY <1>2
<1>4. PICK m \in T : \A k \in T : ~ (k < m)
  <2>1. IsWellFoundedOn(Less, Nat) BY NatLessThanWellFounded
  <2>2. \A j, k \in Nat : j < k => <<j, k>> \in Less BY DEF OpToRel
  <2> HIDE DEF T, Less
  <2>3. \E m \in T : \A k \in T : <<k, m>> \notin Less BY <1>3, <2>1, WFMin
  <2> QED BY <1>3, <2>2, <2>3
<1>5. PICK i \in U : m = Cardinality(ahead(i)) BY <1>4
<1>6. ASSUME NEW j \in U, Before(a, j, i) PROVE FALSE
  <2>1. ahead(j) \subseteq ahead(i)
    <3> SUFFICES ASSUME NEW k \in U, Before(a, k, j) PROVE Before(a, k, i) OBVIOUS
    <3>1. /\ i \in Int /\ j \in Int /\ k \in Int
          /\ a[i].q \in Int /\ a[j].q \in Int /\ a[k].q \in Int
      OBVIOUS
    <3> QED BY <1>6, <3>1 DEF Before
  <2>2. j \in ahead(i) /\ j \notin ahead(j)
    <3>1. a[j].q \in Int /\ j \in Int OBVIOUS
    <3> QED BY <1>6, <3>1 DEF Before
  <2>3. Cardinality(ahead(j)) \in T OBVIOUS
  <2>4. /\ IsFiniteSet(ahead(i)) /\ Cardinality(ahead(i)) \in Nat
        /\ Cardinality(ahead(j)) \in Nat
    BY <1>2
  <2> HIDE DEF ahead, T
  <2>5. Cardinality(ahead(j)) <= Cardinality(ahead(i)) /\ Cardinality(ahead(j)) # Cardinality(ahead(i))
    BY <2>1, <2>2, <2>4, FS_Subset
  <2> QED BY <1>4, <1>5, <2>3, <2>4, <2>5
<1> QED BY <1>6

(* What is answered in is served by the route, is the type asked for by name if     *)
(* there is one, and else no served type of the header comes before it, nor before  *)
(* the wildcard it stands for (_negotiate).                                         *)
THEOREM NegotiatesBest ==
  ASSUME NEW c, NEW n \in Nat, DOMAIN c.accept = 1..n,
         \A i \in 1..n : c.accept[i].q \in Int,
         c.route \in {"resource", "shape"}, ~ Refused(c)
  PROVE  /\ Media(c) \in Supported(c)
         /\ c.override # None => Media(c) = c.override
         /\ c.override = None =>
              \A i \in 1..n : c.accept[i].type \in Supported(c) =>
                \E j \in 1..n : /\ ~ Before(c.accept, i, j)
                                /\ \/ c.accept[j].type = Media(c)
                                   \/ c.accept[j].type \in Wildcards /\ Media(c) = "turtle"
<1> DEFINE a == c.accept  S == Supported(c)
           usable == {i \in DOMAIN a : a[i].type \in S \union Wildcards}
           ranked == {i \in usable : \A j \in usable :
                        a[j].q < a[i].q \/ (a[j].q = a[i].q /\ i =< j)}
           chosen == {a[i].type : i \in ranked} \intersect S
<1>1. Media(c) = IF c.override # None THEN c.override
                 ELSE IF chosen = {} THEN "turtle" ELSE CHOOSE m \in chosen : TRUE
  BY DEF Media, Negotiate
<1>2. c.override \in S \union {None} BY DEF Refused
<1>3. "turtle" \in S BY DEF Supported, RdfTypes
<1>4. usable \in SUBSET (1..n) OBVIOUS
<1>5. chosen # {} => \E i \in ranked : a[i].type \in S /\ a[i].type = CHOOSE m \in chosen : TRUE
  <2> SUFFICES ASSUME chosen # {}
               PROVE  \E i \in ranked : a[i].type \in S /\ a[i].type = CHOOSE m \in chosen : TRUE
    OBVIOUS
  <2>1. (CHOOSE m \in chosen : TRUE) \in chosen OBVIOUS
  <2> QED BY <2>1
<1>6. usable # {} => ranked # {}
  <2> SUFFICES ASSUME usable # {} PROVE ranked # {} OBVIOUS
  <2>1. PICK i \in usable : \A j \in usable : ~ Before(a, j, i) BY <1>4, OneIsFirst
  <2>2. ASSUME NEW j \in usable PROVE a[j].q < a[i].q \/ (a[j].q = a[i].q /\ i =< j)
    <3>1. a[i].q \in Int /\ a[j].q \in Int /\ i \in Int /\ j \in Int BY <1>4
    <3>2. ~ Before(a, j, i) BY <2>1
    <3> QED BY <3>1, <3>2 DEF Before
  <2> QED BY <2>2
<1>7. \A i \in ranked : a[i].type \in S => a[i].type \in chosen OBVIOUS
<1>8. ASSUME NEW i \in usable, NEW j \in ranked PROVE ~ Before(a, i, j)
  <2>1. a[i].q \in Int /\ a[j].q \in Int /\ i \in Int /\ j \in Int BY <1>4
  <2>2. a[i].q < a[j].q \/ (a[i].q = a[j].q /\ j =< i) OBVIOUS
  <2> QED BY <2>1, <2>2 DEF Before
<1>9. ranked \subseteq usable /\ \A i \in usable : a[i].type \in S \union Wildcards OBVIOUS
<1>10. \A i \in 1..n : a[i].type \in S => i \in usable OBVIOUS
<1> HIDE DEF ranked, chosen, usable, S
<1>11. Media(c) \in S BY <1>1, <1>2, <1>3, <1>5
<1>12. ASSUME c.override = None, NEW i \in 1..n, a[i].type \in S
       PROVE  \E j \in 1..n : /\ ~ Before(a, i, j)
                              /\ \/ a[j].type = Media(c)
                                 \/ a[j].type \in Wildcards /\ Media(c) = "turtle"
  <2>1. i \in usable BY <1>10, <1>12
  <2>2. CASE chosen # {}
    <3>1. PICK j \in ranked : a[j].type = CHOOSE m \in chosen : TRUE BY <1>5, <2>2
    <3>2. a[j].type = Media(c) BY <1>1, <1>12, <2>2, <3>1
    <3>3. j \in 1..n BY <1>4, <1>9
    <3> QED BY <1>8, <2>1, <3>2, <3>3
  <2>3. CASE chosen = {}
    <3>1. PICK j \in ranked : TRUE BY <1>6, <2>1
    <3>2. a[j].type \in Wildcards BY <1>7, <1>9, <2>3, <3>1
    <3>3. j \in 1..n BY <1>4, <1>9, <3>1
    <3>4. Media(c) = "turtle" BY <1>1, <1>12, <2>3
    <3> QED BY <1>8, <2>1, <3>2, <3>3, <3>4
  <2> QED BY <2>2, <2>3
<1> QED BY <1>1, <1>11, <1>12 DEF S

(* ------------------------ two answers about one graph ------------------------ *)
(* Every result of a listing has a place of its own among them, and the places  *)
(* have no gap (ORDER BY, LIMIT and OFFSET in list_data and search_entities).   *)
Rank(F, x) == Cardinality({y \in F : y < x})
PageOf(F, offset, size) == {x \in F : Rank(F, x) >= offset /\ Rank(F, x) < offset + size}

LEMMA RankRises ==
  ASSUME NEW F, F \subseteq Int, IsFiniteSet(F)
  PROVE  /\ Cardinality(F) \in Nat
         /\ \A x \in F : Rank(F, x) \in Nat /\ Rank(F, x) < Cardinality(F)
         /\ \A x, y \in F : x < y => Rank(F, x) < Rank(F, y)
<1> DEFINE below(x) == {y \in F : y < x}
<1>0. Cardinality(F) \in Nat BY FS_CardinalityType
<1>1. ASSUME NEW G \in SUBSET F, NEW H \in SUBSET G, G # H
      PROVE  /\ Cardinality(G) \in Nat /\ Cardinality(H) \in Nat
             /\ Cardinality(H) < Cardinality(G)
  <2>1. IsFiniteSet(G) /\ IsFiniteSet(H) BY FS_Subset
  <2>2. Cardinality(G) \in Nat /\ Cardinality(H) \in Nat BY <2>1, FS_CardinalityType
  <2>3. Cardinality(H) =< Cardinality(G) /\ Cardinality(H) # Cardinality(G)
    BY <1>1, <2>1, FS_Subset
  <2> QED BY <2>2, <2>3
<1>2. ASSUME NEW x \in F PROVE Rank(F, x) \in Nat /\ Rank(F, x) < Cardinality(F)
  <2>1. below(x) \in SUBSET F /\ x \notin below(x) BY <1>2
  <2>2. F # below(x) BY <2>1
  <2> HIDE DEF below
  <2>3. Cardinality(below(x)) \in Nat /\ Cardinality(below(x)) < Cardinality(F)
    BY <1>1, <2>1, <2>2
  <2>4. Rank(F, x) = Cardinality(below(x)) BY DEF Rank, below
  <2> QED BY <1>0, <2>3, <2>4
<1>3. ASSUME NEW x \in F, NEW y \in F, x < y PROVE Rank(F, x) < Rank(F, y)
  <2>1. below(y) \in SUBSET F /\ below(x) \in SUBSET below(y) /\ below(y) # below(x)
    <3>1. x \in below(y) /\ x \notin below(x) BY <1>3
    <3>2. ASSUME NEW z \in F, z < x PROVE z < y
      <4>1. x \in Int /\ y \in Int /\ z \in Int OBVIOUS
      <4> QED BY <1>3, <3>2, <4>1
    <3> QED BY <3>1, <3>2
  <2> HIDE DEF below
  <2>2. Cardinality(below(x)) < Cardinality(below(y)) BY <1>1, <2>1
  <2>3. Rank(F, x) = Cardinality(below(x)) /\ Rank(F, y) = Cardinality(below(y))
    BY DEF Rank, below
  <2> QED BY <2>2, <2>3
<1> QED BY <1>0, <1>2, <1>3

LEMMA RanksAreDense ==
  ASSUME NEW F, F \subseteq Int, IsFiniteSet(F)
  PROVE  /\ \A x, y \in F : Rank(F, x) = Rank(F, y) => x = y
         /\ \A n \in 0..(Cardinality(F) - 1) : \E x \in F : Rank(F, x) = n
<1> DEFINE T == 0..(Cardinality(F) - 1)
           f == [x \in F |-> Rank(F, x)]
<1>0. Cardinality(F) \in Nat BY FS_CardinalityType
<1>1. \A x, y \in F : Rank(F, x) = Rank(F, y) => x = y
  <2> SUFFICES ASSUME NEW x \in F, NEW y \in F, Rank(F, x) = Rank(F, y), x # y PROVE FALSE
    OBVIOUS
  <2>1. x < y \/ y < x BY DEF Rank
  <2>2. Rank(F, x) \in Nat /\ Rank(F, y) \in Nat BY RankRises
  <2>3. Rank(F, x) < Rank(F, y) \/ Rank(F, y) < Rank(F, x) BY <2>1, RankRises
  <2> QED BY <2>2, <2>3
<1>2. f \in Injection(F, T)
  <2>1. f \in [F -> T]
    <3>1. ASSUME NEW x \in F PROVE Rank(F, x) \in T
      <4>1. Rank(F, x) \in Nat /\ Rank(F, x) < Cardinality(F) BY RankRises
      <4> QED BY <1>0, <4>1
    <3> QED BY <3>1
  <2>2. \A x, y \in F : f[x] = f[y] => x = y BY <1>1
  <2> HIDE DEF f, T
  <2> QED BY <2>1, <2>2 DEF Injection, IsInjective
<1>3. IsFiniteSet(T) /\ Cardinality(T) = Cardinality(F)
  BY <1>0, FS_Interval
<1>4. f \in Surjection(F, T)
  <2> HIDE DEF f, T
  <2> QED BY <1>2, <1>3, FS_Injection
<1>5. \A n \in T : \E x \in F : f[x] = n
  <2> HIDE DEF f, T
  <2> QED BY <1>4 DEF Surjection
<1> QED BY <1>1, <1>5

(* A page holds as many results as it may, up to the last one.                  *)
LEMMA PagesAreFull ==
  ASSUME NEW F, F \subseteq Int, IsFiniteSet(F), NEW o \in Nat, NEW n \in Nat,
         o + n =< Cardinality(F)
  PROVE  Cardinality(PageOf(F, o, n)) = n
<1> DEFINE P == PageOf(F, o, n)
           T == o..(o + n - 1)
           f == [x \in P |-> Rank(F, x)]
<1>0. Cardinality(F) \in Nat /\ \A x \in F : Rank(F, x) \in Nat
  BY RankRises
<1>1. P \in SUBSET F /\ \A x \in P : Rank(F, x) \in T
  BY <1>0 DEF PageOf
<1>2. f \in [P -> T] BY <1>1
<1>3. \A x, y \in P : f[x] = f[y] => x = y
  BY <1>1, RanksAreDense
<1>4. ASSUME NEW m \in T PROVE \E x \in P : f[x] = m
  <2>1. m \in 0..(Cardinality(F) - 1) BY <1>0
  <2>2. PICK x \in F : Rank(F, x) = m BY <2>1, RanksAreDense
  <2>3. x \in P BY <2>2 DEF PageOf
  <2> QED BY <2>2, <2>3
<1>5. IsFiniteSet(P) BY <1>1, FS_Subset
<1>6. Cardinality(T) = n BY FS_Interval
<1> HIDE DEF f, T, P
<1>7. f \in Injection(P, T) BY <1>2, <1>3 DEF Injection, IsInjective
<1>8. f \in Surjection(P, T) BY <1>2, <1>4 DEF Surjection
<1>9. Cardinality(T) = Cardinality(P) BY <1>5, <1>7, <1>8, FS_Surjection
<1> QED BY <1>6, <1>9 DEF P

(* A page and the next one have no result in common; when there is a next one,  *)
(* the first is full, and when it is empty the results end before it.           *)
LEMMA PagesFollow ==
  ASSUME NEW F, F \subseteq Int, IsFiniteSet(F), NEW o \in Nat, NEW n \in Nat \ {0}
  PROVE  /\ PageOf(F, o, n) \intersect PageOf(F, o + n, n) = {}
         /\ PageOf(F, o + n, n) # {} => /\ Cardinality(PageOf(F, o, n)) = n
                                       /\ Cardinality(F) > o + n
         /\ PageOf(F, o + n, n) = {} => Cardinality(F) =< o + n
<1>0. /\ Cardinality(F) \in Nat
      /\ \A x \in F : Rank(F, x) \in Nat /\ Rank(F, x) < Cardinality(F)
  BY RankRises
<1>1. ASSUME NEW x \in PageOf(F, o, n), x \in PageOf(F, o + n, n) PROVE FALSE
  <2>1. x \in F /\ Rank(F, x) < o + n /\ Rank(F, x) >= o + n BY <1>1 DEF PageOf
  <2> QED BY <1>0, <2>1
<1>2. ASSUME PageOf(F, o + n, n) # {}
      PROVE  Cardinality(F) > o + n /\ Cardinality(PageOf(F, o, n)) = n
  <2>1. PICK x \in F : Rank(F, x) >= o + n BY <1>2 DEF PageOf
  <2>2. Cardinality(F) > o + n BY <1>0, <2>1
  <2>3. o + n =< Cardinality(F) BY <1>0, <2>2
  <2> QED BY <2>2, <2>3, PagesAreFull
<1>3. ASSUME Cardinality(F) > o + n PROVE PageOf(F, o + n, n) # {}
  <2>1. o + n \in 0..(Cardinality(F) - 1) BY <1>0, <1>3
  <2>2. PICK x \in F : Rank(F, x) = o + n BY <2>1, RanksAreDense
  <2>3. x \in PageOf(F, o + n, n) BY <2>2 DEF PageOf
  <2> QED BY <2>3
<1> QED BY <1>0, <1>1, <1>2, <1>3

(* A first page that is not full holds every result.                            *)
LEMMA ShortPageIsAll ==
  ASSUME NEW F, F \subseteq Int, IsFiniteSet(F), NEW n \in Nat,
         Cardinality(PageOf(F, 0, n)) < n
  PROVE  PageOf(F, 0, n) = F
<1>0. /\ Cardinality(F) \in Nat
      /\ \A x \in F : Rank(F, x) \in Nat /\ Rank(F, x) < Cardinality(F)
  BY RankRises
<1>1. ASSUME 0 + n =< Cardinality(F) PROVE FALSE
  <2>1. Cardinality(PageOf(F, 0, n)) = n BY <1>1, PagesAreFull
  <2> QED BY <2>1
<1>2. Cardinality(F) < n BY <1>0, <1>1
<1>3. \A x \in F : Rank(F, x) >= 0 /\ Rank(F, x) < 0 + n BY <1>0, <1>2
<1> QED BY <1>3 DEF PageOf

(* What the routes read, of any graph the store has held.                       *)
LabelsIn(g, x) == {tr[3] : tr \in {y \in g : y[1] = x /\ y[2] = Label}}
InstancesIn(g, class) == {x \in Nodes : <<x, Type, class>> \in g}
SolutionsIn(g, class, q) ==
  {s \in UNION {{x} \X (IF LabelsIn(g, x) = {} THEN {None} ELSE LabelsIn(g, x)) :
                  x \in InstancesIn(g, class)} :
     q = None \/ s[1] \in q \/ s[2] \in q}
FoundIn(g, class, q) == {s[1] : s \in SolutionsIn(g, class, q)}
OutgoingIn(g, x) == {tr \in g : tr[1] = x}
DescriptionIn(g, x) == {tr \in g : tr[1] = x \/ tr[3] = x}
Triples(g) == \A tr \in g : tr = <<tr[1], tr[2], tr[3]>>

LEMMA ReadsOfTheGraph ==
  /\ \A class, q : Found(class, q) = FoundIn(graph, class, q)
  /\ \A class, q, o, n : Page(class, q, o, n) = PageOf(FoundIn(graph, class, q), o, n)
  /\ \A class, q : Total(class, q) = Cardinality(FoundIn(graph, class, q))
  /\ \A x : Outgoing(x) = OutgoingIn(graph, x) /\ Description(x) = DescriptionIn(graph, x)
<1>1. ASSUME NEW class, NEW q PROVE Found(class, q) = FoundIn(graph, class, q)
  BY DEF Found, FoundIn, Solutions, SolutionsIn, Instances, InstancesIn, Labels, LabelsIn
<1>2. ASSUME NEW class, NEW q, NEW o, NEW n
      PROVE  Page(class, q, o, n) = PageOf(FoundIn(graph, class, q), o, n)
  BY <1>1 DEF Page, PageOf, Rank
<1>3. ASSUME NEW class, NEW q PROVE Total(class, q) = Cardinality(FoundIn(graph, class, q))
  BY <1>1 DEF Total
<1>4. ASSUME NEW x
      PROVE  Outgoing(x) = OutgoingIn(graph, x) /\ Description(x) = DescriptionIn(graph, x)
  BY DEF Outgoing, OutgoingIn, Description, DescriptionIn
<1> QED BY <1>1, <1>2, <1>3, <1>4

(* What is found is an entity of the class, so that its record opens.           *)
LEMMA FoundAreStored ==
  ASSUME NEW g, NEW class, NEW q
  PROVE  /\ FoundIn(g, class, q) \subseteq Int /\ IsFiniteSet(FoundIn(g, class, q))
         /\ \A x \in FoundIn(g, class, q) : <<x, Type, class>> \in g
<1>1. ASSUME NEW x \in FoundIn(g, class, q) PROVE x \in InstancesIn(g, class)
  <2>1. PICK s \in SolutionsIn(g, class, q) : x = s[1] BY <1>1 DEF FoundIn
  <2>2. PICK y \in InstancesIn(g, class) :
          s \in {y} \X (IF LabelsIn(g, y) = {} THEN {None} ELSE LabelsIn(g, y))
    BY <2>1 DEF SolutionsIn
  <2>3. s[1] = y BY <2>2
  <2> QED BY <2>1, <2>3
<1>2. FoundIn(g, class, q) \in SUBSET Nodes BY <1>1 DEF InstancesIn
<1>3. IsFiniteSet(FoundIn(g, class, q)) BY <1>2, FS_Subset, ReaderAssumption
<1>4. FoundIn(g, class, q) \subseteq Int BY <1>2, ReaderAssumption
<1> QED BY <1>1, <1>3, <1>4 DEF InstancesIn

(* What a request answers when it read the graph g and nothing failed.          *)
FoundBy(g, c) == FoundIn(g, Schema[c.shape].target, Filter(c))
Counting(g, got) == \A s \in DOMAIN got : got[s] = Cardinality(FoundIn(g, Schema[s].target, None))
Says(c, seen, a, g) ==
  /\ c.route = "list" => /\ a.items = PageOf(FoundBy(g, c), c.offset, PageSize)
                         /\ a.total = Cardinality(FoundBy(g, c))
  /\ c.route = "search" => a.items = PageOf(FoundBy(g, c), 0, SearchSize)
  /\ c.route = "counts" => DOMAIN a.counts = seen /\ Counting(g, a.counts)
  /\ c.route = "entity" =>
       a = IF OutgoingIn(g, c.iri) = {} THEN [status |-> 404]
           ELSE [status |-> 200, body |-> OutgoingIn(g, c.iri)]
  /\ c.route = "resource" =>
       a = IF DescriptionIn(g, c.iri) = {} THEN [status |-> 404]
           ELSE IF c.profile = "alt" THEN [status |-> 200, formats |-> Supported(c)]
           ELSE [status |-> 200, media |-> Media(c),
                 body |-> Respond(DescriptionIn(g, c.iri), c.iri, Media(c))]
Answered(j, g) == Says(j.call, j.seen, j.answer, g)
Reading(j, place, g) ==
  /\ place = "total" =>
       j.call.route = "list" /\ j.got = PageOf(FoundBy(g, j.call), j.call.offset, PageSize)
  /\ place = "query" /\ j.call.route = "counts" => Counting(g, j.got)

(* Two answers about one graph, whatever the graph.                             *)
LEMMA ListAnswersAgree ==
  ASSUME NEW g, NEW j, NEW k, Answered(j, g), Answered(k, g), j.call \in Calls, k.call \in Calls,
         j.call.route = "list", k.call.route = "list"
  PROVE  ListsAgree(j, k)
<1> SUFFICES ASSUME SameList(j, k) PROVE ListsAgree(j, k) BY DEF ListsAgree
<1> DEFINE F == FoundBy(g, j.call)
           o == j.call.offset
<1>1. FoundBy(g, k.call) = F BY DEF FoundBy, SameList
<1>2. F \subseteq Int /\ IsFiniteSet(F) BY FoundAreStored DEF FoundBy
<1>3. o \in Nat /\ PageSize \in Nat \ {0} BY QueryAssumption
<1>4. /\ j.answer.items = PageOf(F, o, PageSize) /\ j.answer.total = Cardinality(F)
      /\ k.answer.items = PageOf(F, k.call.offset, PageSize) /\ k.answer.total = Cardinality(F)
  BY <1>1 DEF Answered, Says
<1> HIDE DEF F, o
<1>5. Cardinality(F) \in Nat BY <1>2, RankRises
<1>6. ASSUME o + PageSize = k.call.offset
      PROVE  /\ j.answer.items \intersect k.answer.items = {}
             /\ k.answer.items # {} => /\ Cardinality(j.answer.items) = PageSize
                                      /\ j.answer.total > k.call.offset
             /\ k.answer.items = {} => j.answer.total =< k.call.offset
  <2>1. /\ PageOf(F, o, PageSize) \intersect PageOf(F, o + PageSize, PageSize) = {}
        /\ PageOf(F, o + PageSize, PageSize) # {} =>
             /\ Cardinality(PageOf(F, o, PageSize)) = PageSize
             /\ Cardinality(F) > o + PageSize
        /\ PageOf(F, o + PageSize, PageSize) = {} => Cardinality(F) =< o + PageSize
    BY <1>2, <1>3, PagesFollow
  <2>2. k.answer.items = PageOf(F, o + PageSize, PageSize) BY <1>4, <1>6
  <2> QED BY <1>4, <1>6, <2>1, <2>2
<1> QED BY <1>4, <1>6 DEF ListsAgree, o

LEMMA CountAgrees ==
  ASSUME NEW g, NEW j, NEW k, Answered(j, g), Answered(k, g),
         j.call.route = "list", k.call.route = "counts"
  PROVE  CountsAgree(j, k)
BY DEF CountsAgree, Answered, Says, Counting, FoundBy

LEMMA SearchAgrees ==
  ASSUME NEW g, NEW j, NEW k, Answered(j, g), Answered(k, g),
         j.call.route = "list", k.call.route = "search"
  PROVE  SearchFinds(j, k)
<1> SUFFICES ASSUME SameList(j, k), Cardinality(k.answer.items) < SearchSize
             PROVE  j.answer.items \subseteq k.answer.items
  BY DEF SearchFinds
<1> DEFINE F == FoundBy(g, j.call)
<1>1. FoundBy(g, k.call) = F BY DEF FoundBy, SameList
<1>2. F \subseteq Int /\ IsFiniteSet(F) BY FoundAreStored DEF FoundBy
<1>3. /\ j.answer.items = PageOf(F, j.call.offset, PageSize)
      /\ k.answer.items = PageOf(F, 0, SearchSize)
  BY <1>1 DEF Answered, Says
<1> HIDE DEF F
<1>4. PageOf(F, 0, SearchSize) = F BY <1>2, <1>3, ShortPageIsAll, QueryAssumption
<1> QED BY <1>3, <1>4 DEF PageOf

LEMMA ListedOpens ==
  ASSUME NEW g, NEW j, NEW k, Answered(j, g), Answered(k, g),
         j.call.route = "list", k.call.route \in {"entity", "resource"}
  PROVE  RecordOpens(j, k)
<1> SUFFICES ASSUME k.call.iri \in j.answer.items PROVE k.answer.status = 200
  BY DEF RecordOpens
<1> DEFINE x == k.call.iri
           tr == <<x, Type, Schema[j.call.shape].target>>
<1>1. x \in FoundBy(g, j.call) BY DEF Answered, Says, PageOf
<1>2. tr \in g BY <1>1, FoundAreStored DEF FoundBy
<1>3. tr \in OutgoingIn(g, x) /\ tr \in DescriptionIn(g, x)
  BY <1>2 DEF OutgoingIn, DescriptionIn
<1>4. OutgoingIn(g, x) # {} /\ DescriptionIn(g, x) # {} BY <1>3
<1> HIDE DEF tr
<1>5. CASE k.call.route = "entity" BY <1>4, <1>5 DEF Answered, Says
<1>6. CASE k.call.route = "resource" BY <1>4, <1>6 DEF Answered, Says
<1> QED BY <1>5, <1>6

(* A page in HTML groups the triples by direction and kind, and loses none.     *)
LEMMA HtmlShowsAll ==
  ASSUME NEW g, Triples(g), NEW x
  PROVE  LET p == RenderHtml(DescriptionIn(g, x), x) IN
         DescriptionIn(g, x) = {<<x, Type, c>> : c \in p.types}
           \union {<<x, r[1], r[2]>> : r \in p.properties \union p.links}
           \union {<<r[2], r[1], x>> : r \in p.referencedBy}
<1> DEFINE d == DescriptionIn(g, x)
           own == {tr \in d : tr[1] = x}
           types == {tr[3] : tr \in {y \in own : y[2] = Type}}
           properties == {<<tr[2], tr[3]>> : tr \in {y \in own : y[2] # Type /\ y[3] \in Texts}}
           links == {<<tr[2], tr[3]>> : tr \in {y \in own : y[2] # Type /\ y[3] \notin Texts}}
           inward == {<<tr[2], tr[1]>> : tr \in {y \in d : y[3] = x}}
           A == {<<x, Type, c>> : c \in types}
           B == {<<x, r[1], r[2]>> : r \in properties \union links}
           C == {<<r[2], r[1], x>> : r \in inward}
<1>1. /\ RenderHtml(d, x).types = types /\ RenderHtml(d, x).properties = properties
      /\ RenderHtml(d, x).links = links /\ RenderHtml(d, x).referencedBy = inward
  BY DEF RenderHtml
<1>2. \A tr \in d : tr = <<tr[1], tr[2], tr[3]>> /\ (tr[1] = x \/ tr[3] = x)
  BY DEF DescriptionIn, Triples
<1> HIDE DEF d
<1>3. ASSUME NEW tr \in d PROVE tr \in A \union B \union C
  <2>1. CASE tr[1] = x /\ tr[2] = Type
    <3>1. tr[3] \in types BY <2>1
    <3>2. tr = <<x, Type, tr[3]>> BY <1>2, <2>1
    <3> HIDE DEF types
    <3> QED BY <3>1, <3>2
  <2>2. CASE tr[1] = x /\ tr[2] # Type
    <3>1. <<tr[2], tr[3]>> \in properties \union links BY <2>2
    <3>2. tr = <<x, tr[2], tr[3]>> BY <1>2, <2>2
    <3> HIDE DEF properties, links
    <3>3. <<x, <<tr[2], tr[3]>>[1], <<tr[2], tr[3]>>[2]>> \in B BY <3>1
    <3> QED BY <3>2, <3>3
  <2>3. CASE tr[3] = x
    <3>1. <<tr[2], tr[1]>> \in inward BY <2>3
    <3>2. tr = <<tr[1], tr[2], x>> BY <1>2, <2>3
    <3> HIDE DEF inward
    <3>3. <<<<tr[2], tr[1]>>[2], <<tr[2], tr[1]>>[1], x>> \in C BY <3>1
    <3> QED BY <3>2, <3>3
  <2> QED BY <1>2, <2>1, <2>2, <2>3
<1>4. ASSUME NEW tr \in A PROVE tr \in d
  <2>1. PICK c \in types : tr = <<x, Type, c>> BY <1>4
  <2>2. PICK y \in own : y[2] = Type /\ c = y[3] BY <2>1
  <2>3. y = tr BY <1>2, <2>1, <2>2
  <2> QED BY <2>2, <2>3
<1>5. ASSUME NEW tr \in B PROVE tr \in d
  <2>1. PICK r \in properties \union links : tr = <<x, r[1], r[2]>> BY <1>5
  <2>2. PICK y \in own : r = <<y[2], y[3]>> BY <2>1
  <2>3. y = tr BY <1>2, <2>1, <2>2
  <2> QED BY <2>2, <2>3
<1>6. ASSUME NEW tr \in C PROVE tr \in d
  <2>1. PICK r \in inward : tr = <<r[2], r[1], x>> BY <1>6
  <2>2. PICK y \in d : y[3] = x /\ r = <<y[2], y[1]>> BY <2>1
  <2>3. y = tr BY <1>2, <2>1, <2>2
  <2> QED BY <2>2, <2>3
<1>7. d = A \union B \union C
  <2> HIDE DEF A, B, C
  <2> QED BY <1>3, <1>4, <1>5, <1>6
<1> HIDE DEF types, properties, links, inward
<1> QED BY <1>1, <1>7 DEF d

LEMMA PageShowsAll ==
  ASSUME NEW g, Triples(g), NEW j, Answered(j, g), IsPage(j)
  PROVE  Shown(j) = DescriptionIn(g, j.call.iri)
<1> DEFINE x == j.call.iri
           d == DescriptionIn(g, x)
           m == Media(j.call)
<1>1. j.call.route = "resource" /\ "body" \in DOMAIN j.answer BY DEF IsPage
<1>2. j.answer = IF d = {} THEN [status |-> 404]
                 ELSE IF j.call.profile = "alt" THEN [status |-> 200, formats |-> Supported(j.call)]
                 ELSE [status |-> 200, media |-> m, body |-> Respond(d, x, m)]
  BY <1>1 DEF Answered, Says
<1>3. j.answer.media = m /\ j.answer.body = Respond(d, x, m)
  BY <1>1, <1>2
<1>4. CASE m # "html" BY <1>1, <1>3, <1>4 DEF Shown, Respond
<1>5. CASE m = "html"
  <2>1. j.answer.body = RenderHtml(d, x) BY <1>3, <1>5 DEF Respond
  <2> QED BY <1>1, <1>3, <1>5, <2>1, HtmlShowsAll DEF Shown
<1> QED BY <1>4, <1>5

LEMMA RecordAgrees ==
  ASSUME NEW g, Triples(g), NEW j, NEW k, Answered(j, g), Answered(k, g),
         j.call.route = "entity", k.call.route = "resource"
  PROVE  RecordShown(j, k)
<1> SUFFICES ASSUME j.call.iri = k.call.iri, j.answer.status = 200
             PROVE  k.answer.status = 200 /\ (IsPage(k) => Shown(j) \subseteq Shown(k))
  BY DEF RecordShown
<1> DEFINE x == j.call.iri
<1>1. OutgoingIn(g, x) # {} /\ j.answer.body = OutgoingIn(g, x)
  BY DEF Answered, Says
<1>2. OutgoingIn(g, x) \subseteq DescriptionIn(g, x) BY DEF OutgoingIn, DescriptionIn
<1>3. DescriptionIn(g, x) # {} BY <1>1, <1>2
<1>4. k.answer.status = 200 BY <1>3 DEF Answered, Says
<1>5. Shown(j) = OutgoingIn(g, x) BY <1>1 DEF Shown
<1>6. IsPage(k) => Shown(k) = DescriptionIn(g, x) BY PageShowsAll
<1> QED BY <1>2, <1>4, <1>5, <1>6

LEMMA PageAnswersAgree ==
  ASSUME NEW g, Triples(g), NEW j, NEW k, Answered(j, g), Answered(k, g),
         j.call.route = "resource", k.call.route = "resource"
  PROVE  PagesAgree(j, k)
<1>1. j.call.iri = k.call.iri => j.answer.status = k.answer.status BY DEF Answered, Says
<1>2. ASSUME IsPage(j), IsPage(k)
      PROVE  Mentions(Shown(j), k.call.iri) = Mentions(Shown(k), j.call.iri)
  <2>1. /\ Shown(j) = DescriptionIn(g, j.call.iri)
        /\ Shown(k) = DescriptionIn(g, k.call.iri)
    BY <1>2, PageShowsAll
  <2> QED BY <2>1 DEF Mentions, DescriptionIn
<1> QED BY <1>1, <1>2 DEF PagesAgree

(* The graphs the store has held, by the number of edits before each: what a    *)
(* request has read belongs to the last of them for as long as nothing was      *)
(* edited since its first read, and its answer to the one it began and ended in.*)
Settled(j) == /\ ~ j.failed /\ j.since = j.until /\ j.answer.status # 400
              /\ j.answer.status = 404 => j.call.route \notin Navigated
Kept(j, place, h, n) ==
  /\ IsJob(j) /\ j.since \in 0..n
  /\ place # "idle" => j.call \in Calls
  /\ place \in {"access", "reset", "fill", "known"} => DOMAIN j.got = {}
  /\ place \in {"query", "total"} /\ ~ j.failed /\ j.since = n => Reading(j, place, h[n])
  /\ place = "done" /\ Settled(j) => Answered(j, h[j.since])
History(h) ==
  /\ edits \in Nat /\ DOMAIN job = Threads /\ at \in [Threads -> Places]
  /\ h[edits] = graph
  /\ \A n \in 0..edits : Triples(h[n])
  /\ \A t \in Threads : Kept(job[t], at[t], h, edits)
Told == \E h : History(h)

(* A step of one request adds nothing to the history.                           *)
LEMMA StepKeepsHistory ==
  ASSUME NEW h, History(h), NEW t \in Threads, UNCHANGED <<graph, edits>>,
         DOMAIN job' = Threads, at' \in [Threads -> Places],
         \A u \in Threads \ {t} : job'[u] = job[u] /\ at'[u] = at[u],
         Kept(job'[t], at'[t], h, edits)
  PROVE  Told'
<1>1. ASSUME NEW u \in Threads PROVE Kept(job'[u], at'[u], h, edits)
  <2>1. CASE u = t BY <2>1
  <2>2. CASE u # t
    <3>1. job'[u] = job[u] /\ at'[u] = at[u] BY <2>2
    <3> QED BY <3>1 DEF History
  <2> QED BY <2>1, <2>2
<1>2. History(h)' BY <1>1 DEF History
<1> QED BY <1>2 DEF Told

(* An answer keeps what the request has read, if it says what was read.         *)
LEMMA FinishKeepsHistory ==
  ASSUME NEW h, History(h), NEW t \in Threads, NEW ok \in BOOLEAN, NEW a, Finish(t, ok, a),
         UNCHANGED <<graph, edits>>, at[t] # "idle",
         ok /\ ~ job[t].failed /\ job[t].since = edits /\ a.status # 400
           /\ (a.status = 404 => job[t].call.route \notin Navigated)
             => Says(job[t].call, job[t].seen, a, graph)
  PROVE  Told'
<1> DEFINE j == job'[t]
<1>1. /\ DOMAIN job = Threads /\ at \in [Threads -> Places] /\ IsJob(job[t]) /\ edits \in Nat
      /\ job[t].since \in 0..edits /\ job[t].call \in Calls /\ h[edits] = graph
  BY DEF History, Kept
<1>2. /\ DOMAIN job' = Threads /\ at'[t] = "done" /\ at' \in [Threads -> Places]
      /\ \A u \in Threads \ {t} : job'[u] = job[u] /\ at'[u] = at[u]
  BY <1>1 DEF Finish, Places
<1>3. /\ IsJob(j) /\ j.call = job[t].call /\ j.since = job[t].since /\ j.answer = a
      /\ j.until = edits /\ j.seen = job[t].seen
  BY <1>1 DEF Finish, IsJob
<1>4. ~ j.failed => ok /\ ~ job[t].failed
  <2>1. j.failed = (job[t].failed \/ ~ ok) BY <1>1 DEF Finish, IsJob
  <2> QED BY <2>1
<1> HIDE DEF j
<1>5. ASSUME Settled(j) PROVE Answered(j, h[j.since])
  <2>1. ok /\ ~ job[t].failed BY <1>4, <1>5 DEF Settled
  <2>2. j.since = edits /\ a.status # 400 /\ (a.status = 404 => j.call.route \notin Navigated)
    BY <1>3, <1>5 DEF Settled
  <2>3. Answered(j, graph) BY <1>3, <2>1, <2>2 DEF Answered
  <2> QED BY <1>1, <2>2, <2>3
<1>6. Kept(j, "done", h, edits) BY <1>1, <1>3, <1>5 DEF Kept
<1> QED BY <1>2, <1>6, StepKeepsHistory DEF j

(* The steps of a request (Parse, Serve, Arrive and Refuse).                    *)
LEMMA ParseKeepsHistory ==
  ASSUME NEW h, History(h), NEW t \in Threads, Parse(t)
  PROVE  Told'
<1>1. PICK p \in {"reset", "known", "fill"} : at' = [at EXCEPT ![t] = p]
  BY DEF Parse, Access, Reset, Fill
<1>2. /\ UNCHANGED <<job, graph, edits>> /\ at[t] \in {"access", "reset", "fill"}
      /\ at \in [Threads -> Places] /\ DOMAIN job = Threads /\ Kept(job[t], at[t], h, edits)
  BY DEF Parse, Access, Reset, Fill, History
<1>3. at' \in [Threads -> Places] /\ at'[t] = p /\ \A u \in Threads \ {t} : at'[u] = at[u]
  BY <1>1, <1>2 DEF Places
<1>4. Kept(job'[t], at'[t], h, edits) BY <1>2, <1>3 DEF Kept
<1> QED BY <1>2, <1>3, <1>4, StepKeepsHistory

LEMMA KnownKeepsHistory ==
  ASSUME NEW h, History(h), NEW t \in Threads, Known(t)
  PROVE  Told'
<1> DEFINE j == job'[t]
<1>1. /\ DOMAIN job = Threads /\ at \in [Threads -> Places] /\ IsJob(job[t]) /\ edits \in Nat
      /\ job[t].since \in 0..edits /\ job[t].call \in Calls /\ h[edits] = graph
      /\ DOMAIN job[t].got = {} /\ UNCHANGED <<graph, edits>>
  BY DEF History, Kept, Known
<1>2. /\ DOMAIN job' = Threads /\ at' \in [Threads -> Places]
      /\ \A u \in Threads \ {t} : job'[u] = job[u] /\ at'[u] = at[u]
  BY <1>1 DEF Known, Places
<1>3. IsJob(j) /\ j.call = job[t].call /\ j.since \in 0..edits /\ DOMAIN j.got = {}
  BY <1>1 DEF Known, IsJob
<1>4. \/ at'[t] = "query"
      \/ at'[t] = "done" /\ j.answer.status = 404 /\ j.call.route \in Navigated
  BY <1>1 DEF Known, IsJob, Navigated
<1> HIDE DEF j
<1>5. CASE at'[t] = "query"
  <2>1. Reading(j, "query", h[edits]) BY <1>3 DEF Reading, Counting
  <2>2. Kept(j, "query", h, edits) BY <1>1, <1>3, <2>1 DEF Kept
  <2> QED BY <1>1, <1>2, <1>5, <2>2, StepKeepsHistory DEF j
<1>6. CASE at'[t] = "done" /\ j.answer.status = 404 /\ j.call.route \in Navigated
  <2>1. Kept(j, "done", h, edits) BY <1>1, <1>3, <1>6 DEF Kept, Settled
  <2> QED BY <1>1, <1>2, <1>6, <2>1, StepKeepsHistory DEF j
<1> QED BY <1>4, <1>5, <1>6

LEMMA ArriveKeepsHistory ==
  ASSUME NEW h, History(h), NEW t \in Threads, NEW c \in Calls, Arrive(t, c) \/ Refuse(t, c)
  PROVE  Told'
<1> DEFINE j == job'[t]
<1>1. /\ DOMAIN job = Threads /\ at \in [Threads -> Places] /\ edits \in Nat
      /\ UNCHANGED <<graph, edits>>
  BY DEF History, Arrive, Refuse
<1>2. /\ DOMAIN job' = Threads /\ at' \in [Threads -> Places]
      /\ \A u \in Threads \ {t} : job'[u] = job[u] /\ at'[u] = at[u]
  BY <1>1 DEF Arrive, Refuse, Places
<1>3. /\ IsJob(j) /\ j.call = c /\ j.since \in 0..edits /\ DOMAIN j.got = {}
      /\ \/ at'[t] \in {"access", "query"}
         \/ at'[t] = "done" /\ j.answer.status = 400
  <2>1. CASE Arrive(t, c)
    <3>1. j = [NoJob EXCEPT !.call = c, !.since = edits] BY <1>1, <2>1 DEF Arrive
    <3>2. at'[t] \in {"access", "query"} BY <1>1, <2>1 DEF Arrive
    <3>3. IsJob(j) /\ j.call = c /\ j.since = edits /\ DOMAIN j.got = {}
      BY <3>1 DEF IsJob, NoJob
    <3> QED BY <1>1, <3>2, <3>3
  <2>2. CASE Refuse(t, c)
    <3>1. j = [NoJob EXCEPT !.call = c, !.answer = [status |-> 400]] BY <1>1, <2>2 DEF Refuse
    <3>2. at'[t] = "done" BY <1>1, <2>2 DEF Refuse
    <3>3. /\ IsJob(j) /\ j.call = c /\ j.since = 0 /\ DOMAIN j.got = {}
          /\ j.answer.status = 400
      BY <3>1 DEF IsJob, NoJob
    <3> QED BY <1>1, <3>2, <3>3
  <2> QED BY <2>1, <2>2
<1> HIDE DEF j
<1>5. Kept(j, at'[t], h, edits)
  <2>1. Reading(j, "query", h[edits]) BY <1>3 DEF Reading, Counting
  <2> QED BY <1>1, <1>3, <2>1 DEF Kept, Settled
<1> QED BY <1>1, <1>2, <1>5, StepKeepsHistory DEF j

LEMMA ListKeepsHistory ==
  ASSUME NEW h, History(h), NEW t \in Threads, ListPage(t) \/ ListTotal(t)
  PROVE  Told'
<1> DEFINE c == job[t].call
           j == job'[t]
<1>1. /\ DOMAIN job = Threads /\ at \in [Threads -> Places] /\ IsJob(job[t]) /\ edits \in Nat
      /\ job[t].since \in 0..edits /\ c \in Calls /\ h[edits] = graph
      /\ UNCHANGED <<graph, edits>>
  BY DEF History, Kept, ListPage, ListTotal, Finish
<1>2. CASE ListPage(t)
  <2>1. PICK ok \in BOOLEAN :
          job' = [job EXCEPT ![t].failed = ~ ok, ![t].got =
                    IF ok THEN Page(Schema[c.shape].target, Filter(c), c.offset, PageSize) ELSE {}]
    BY <1>2 DEF ListPage
  <2>2. /\ DOMAIN job' = Threads /\ at' \in [Threads -> Places] /\ at'[t] = "total"
        /\ \A u \in Threads \ {t} : job'[u] = job[u] /\ at'[u] = at[u]
    BY <1>1, <1>2, <2>1 DEF ListPage, Places
  <2>3. IsJob(j) /\ j.call = c /\ j.since = job[t].since BY <1>1, <2>1 DEF IsJob
  <2>4. j.failed = ~ ok BY <1>1, <2>1 DEF IsJob
  <2>5. ok => j.got = Page(Schema[c.shape].target, Filter(c), c.offset, PageSize)
    BY <1>1, <2>1 DEF IsJob
  <2>6. c.route = "list" BY <1>2 DEF ListPage
  <2> HIDE DEF j, c
  <2>7. ~ j.failed => Reading(j, "total", h[edits])
    BY <1>1, <2>3, <2>4, <2>5, <2>6, ReadsOfTheGraph DEF Reading, FoundBy
  <2>8. Kept(j, "total", h, edits) BY <1>1, <2>3, <2>7 DEF Kept
  <2> QED BY <1>1, <2>2, <2>8, StepKeepsHistory DEF j
<1>3. CASE ListTotal(t)
  <2>1. PICK ok \in BOOLEAN :
          Finish(t, ok, [status |-> 200, items |-> job[t].got,
                         total |-> IF ok THEN Total(Schema[c.shape].target, Filter(c))
                                   ELSE Cardinality(job[t].got)])
    BY <1>3 DEF ListTotal
  <2> DEFINE a == [status |-> 200, items |-> job[t].got,
                   total |-> IF ok THEN Total(Schema[c.shape].target, Filter(c))
                             ELSE Cardinality(job[t].got)]
  <2>2. at[t] = "total" BY <1>3 DEF ListTotal
  <2>3. ASSUME ok, ~ job[t].failed, job[t].since = edits PROVE Says(c, job[t].seen, a, graph)
    <3>1. /\ c.route = "list"
          /\ job[t].got = PageOf(FoundBy(graph, c), c.offset, PageSize)
      BY <1>1, <2>2, <2>3 DEF History, Kept, Reading
    <3>2. a.items = job[t].got /\ a.total = Cardinality(FoundBy(graph, c))
      BY <2>3, ReadsOfTheGraph DEF FoundBy
    <3> HIDE DEF a
    <3> QED BY <3>1, <3>2 DEF Says
  <2> HIDE DEF a
  <2>4. Finish(t, ok, a) BY <2>1 DEF a
  <2> QED BY <1>1, <2>2, <2>3, <2>4, FinishKeepsHistory
<1> QED BY <1>2, <1>3

LEMMA CountsKeepHistory ==
  ASSUME NEW h, History(h), NEW t \in Threads, CountShape(t) \/ Counted(t)
  PROVE  Told'
<1> DEFINE j == job'[t]
           got == job[t].got
<1>1. /\ DOMAIN job = Threads /\ at \in [Threads -> Places] /\ IsJob(job[t]) /\ edits \in Nat
      /\ job[t].since \in 0..edits /\ job[t].call \in Calls /\ h[edits] = graph
      /\ UNCHANGED <<graph, edits>> /\ job[t].call.route = "counts" /\ at[t] = "query"
  BY DEF History, Kept, CountShape, Counted, Finish
<1>2. ~ job[t].failed /\ job[t].since = edits => Counting(graph, got)
  BY <1>1 DEF History, Kept, Reading
<1>3. CASE CountShape(t)
  <2> DEFINE s == CHOOSE x \in job[t].seen : x \notin DOMAIN got
             next(ok) == [x \in DOMAIN got \union {s} |->
                            IF x # s THEN got[x] ELSE IF ok THEN Total(Schema[s].target, None) ELSE 0]
  <2>1. PICK ok \in BOOLEAN :
          job' = [job EXCEPT ![t].failed = @ \/ ~ ok, ![t].got = next(ok)]
    BY <1>3 DEF CountShape
  <2>2. /\ DOMAIN job' = Threads /\ at' = at
        /\ \A u \in Threads \ {t} : job'[u] = job[u] /\ at'[u] = at[u]
    BY <1>1, <1>3, <2>1 DEF CountShape
  <2>3. IsJob(j) /\ j.call = job[t].call /\ j.since = job[t].since BY <1>1, <2>1 DEF IsJob
  <2>4. j.failed = (job[t].failed \/ ~ ok) BY <1>1, <2>1 DEF IsJob
  <2>5. j.got = next(ok) BY <1>1, <2>1 DEF IsJob
  <2>6. ASSUME ~ j.failed, j.since = edits PROVE Counting(graph, j.got)
    <3>1. ok /\ ~ job[t].failed BY <2>4, <2>6
    <3>2. Counting(graph, got) BY <1>2, <2>3, <2>6, <3>1
    <3>3. Total(Schema[s].target, None) = Cardinality(FoundIn(graph, Schema[s].target, None))
      BY ReadsOfTheGraph
    <3>4. DOMAIN next(ok) = DOMAIN got \union {s} OBVIOUS
    <3>5. ASSUME NEW x \in DOMAIN next(ok)
          PROVE  next(ok)[x] = Cardinality(FoundIn(graph, Schema[x].target, None))
      <4>1. CASE x = s BY <3>1, <3>3, <4>1
      <4>2. CASE x # s
        <5>1. next(ok)[x] = got[x] /\ x \in DOMAIN got BY <3>4, <3>5, <4>2
        <5> HIDE DEF next
        <5> QED BY <3>2, <5>1 DEF Counting
      <4> QED BY <4>1, <4>2
    <3> HIDE DEF next
    <3> QED BY <2>5, <3>5 DEF Counting
  <2> HIDE DEF j, next, s, got
  <2>7. Kept(j, "query", h, edits)
    BY <1>1, <2>3, <2>6 DEF Kept, Reading
  <2> QED BY <1>1, <2>2, <2>7, StepKeepsHistory DEF j
<1>4. CASE Counted(t)
  <2> DEFINE a == [status |-> 200, counts |-> got]
  <2>1. Finish(t, TRUE, a) /\ DOMAIN got = job[t].seen BY <1>4 DEF Counted
  <2>2. ASSUME ~ job[t].failed, job[t].since = edits
        PROVE  Says(job[t].call, job[t].seen, a, graph)
    <3>1. a.counts = got OBVIOUS
    <3> HIDE DEF a, got
    <3> QED BY <1>1, <1>2, <2>1, <2>2, <3>1 DEF Says
  <2> HIDE DEF a
  <2> QED BY <1>1, <2>1, <2>2, FinishKeepsHistory
<1> QED BY <1>3, <1>4

LEMMA AnswersKeepHistory ==
  ASSUME NEW h, History(h), NEW t \in Threads,
         \/ Search(t) \/ Entity(t) \/ Resource(t)
         \/ ShapeList(t) \/ Definition(t) \/ Published(t)
  PROVE  Told'
<1> DEFINE c == job[t].call
<1>1. UNCHANGED <<graph, edits>> /\ at[t] # "idle"
  BY DEF Search, Entity, Resource, ShapeList, Definition, Published
<1>2. ASSUME NEW ok \in BOOLEAN, NEW a, Finish(t, ok, a),
             ok => Says(c, job[t].seen, a, graph)
      PROVE  Told'
  BY <1>1, <1>2, FinishKeepsHistory
<1>3. CASE Search(t)
  <2>1. PICK ok \in BOOLEAN :
          Finish(t, ok, [status |-> 200, items |->
                    IF ok THEN Page(Schema[c.shape].target, Filter(c), 0, SearchSize) ELSE {}])
    BY <1>3 DEF Search
  <2> DEFINE a == [status |-> 200, items |->
                    IF ok THEN Page(Schema[c.shape].target, Filter(c), 0, SearchSize) ELSE {}]
  <2>2. c.route = "search" BY <1>3 DEF Search
  <2>3. ok => a.items = PageOf(FoundBy(graph, c), 0, SearchSize)
    BY ReadsOfTheGraph DEF FoundBy
  <2>4. Finish(t, ok, a) BY <2>1
  <2> HIDE DEF a, c
  <2>5. ok => Says(c, job[t].seen, a, graph) BY <2>2, <2>3 DEF Says
  <2> QED BY <1>2, <2>4, <2>5
<1>4. CASE Entity(t)
  <2>1. c.route = "entity" BY <1>4 DEF Entity
  <2> DEFINE a == IF Outgoing(c.iri) = {} THEN [status |-> 404]
                  ELSE [status |-> 200, body |-> Outgoing(c.iri)]
  <2>2. Finish(t, FALSE, [status |-> 503]) \/ Finish(t, TRUE, a) BY <1>4 DEF Entity
  <2>3. a = IF OutgoingIn(graph, c.iri) = {} THEN [status |-> 404]
            ELSE [status |-> 200, body |-> OutgoingIn(graph, c.iri)]
    BY ReadsOfTheGraph
  <2> HIDE DEF a, c
  <2>4. Says(c, job[t].seen, a, graph) BY <2>1, <2>3 DEF Says
  <2> QED BY <1>2, <2>2, <2>4
<1>5. CASE Resource(t)
  <2>1. c.route = "resource" BY <1>5 DEF Resource
  <2> DEFINE d == Description(c.iri)
             a == IF d = {} THEN [status |-> 404]
                  ELSE IF c.profile = "alt" THEN [status |-> 200, formats |-> Supported(c)]
                  ELSE [status |-> 200, media |-> Media(c), body |-> Respond(d, c.iri, Media(c))]
  <2>2. Finish(t, FALSE, [status |-> 503]) \/ Finish(t, TRUE, a) BY <1>5 DEF Resource
  <2>3. d = DescriptionIn(graph, c.iri) BY ReadsOfTheGraph
  <2> HIDE DEF d, c
  <2>4. Says(c, job[t].seen, a, graph) BY <2>1, <2>3 DEF Says
  <2> HIDE DEF a
  <2> QED BY <1>2, <2>2, <2>4
<1>6. CASE ShapeList(t) \/ Definition(t) \/ Published(t)
  <2>1. c.route \in {"shapes", "shape", "published"} BY <1>6 DEF ShapeList, Definition, Published
  <2>2. \A a : Says(c, job[t].seen, a, graph) BY <2>1 DEF Says
  <2>3. ASSUME NEW ok \in BOOLEAN, NEW a, Finish(t, ok, a) PROVE Told'
    BY <1>2, <2>2, <2>3
  <2>4. CASE ShapeList(t) BY <2>3, <2>4 DEF ShapeList
  <2>5. CASE Definition(t) BY <2>3, <2>5 DEF Definition
  <2>6. CASE Published(t) BY <2>3, <2>6 DEF Published
  <2> QED BY <1>6, <2>4, <2>5, <2>6
<1> QED BY <1>3, <1>4, <1>5, <1>6

(* An edit adds the next graph to the history.                                  *)
LEMMA EditExtendsHistory ==
  ASSUME NEW h, History(h), NEW g, g = graph', Triples(g), edits' = edits + 1,
         UNCHANGED <<at, job>>
  PROVE  Told'
<1> DEFINE n == edits + 1
<1>1. edits \in Nat BY DEF History
<1>2. PICK e \in Nat : e = n BY <1>1
<1>3. PICK f : f = [m \in 0..e |-> IF m = e THEN g ELSE h[m]] OBVIOUS
<1>4. f[e] = g BY <1>3
<1>5. \A m \in 0..edits : f[m] = h[m] BY <1>1, <1>2, <1>3
<1>6. \A m \in 0..e : Triples(f[m])
  <2>1. \A m \in 0..e : m = e \/ m \in 0..edits BY <1>1, <1>2
  <2> QED BY <1>4, <1>5, <2>1 DEF History
<1>7. ASSUME NEW t \in Threads PROVE Kept(job[t], at[t], f, e)
  <2>1. Kept(job[t], at[t], h, edits) BY DEF History
  <2>2. job[t].since \in 0..e /\ job[t].since # e /\ f[job[t].since] = h[job[t].since]
    BY <1>1, <1>2, <1>5, <2>1 DEF Kept
  <2> QED BY <2>1, <2>2 DEF Kept
<1>8. History(f)' BY <1>2, <1>4, <1>6, <1>7, <1>1 DEF History
<1> QED BY <1>8 DEF Told

LEMMA InitTold == Init => Told
<1> SUFFICES ASSUME Init PROVE Told OBVIOUS
<1>1. PICK h : h = [n \in {0} |-> Start] OBVIOUS
<1>2. edits = 0 /\ h[edits] = graph /\ Triples(h[0])
  BY <1>1, QueryAssumption DEF Init, Triples
<1>3. \A t \in Threads : job[t] = NoJob /\ at[t] = "idle" BY DEF Init
<1>4. IsJob(NoJob) /\ NoJob.since = 0 BY DEF NoJob, IsJob
<1>5. \A t \in Threads : Kept(job[t], at[t], h, edits) BY <1>2, <1>3, <1>4 DEF Kept
<1>6. DOMAIN job = Threads /\ at \in [Threads -> Places] BY DEF Init, Places
<1> QED BY <1>2, <1>5, <1>6 DEF Told, History

LEMMA NextTold == Told /\ [Next]_vars => Told'
<1> SUFFICES ASSUME Told, [Next]_vars PROVE Told' OBVIOUS
<1>1. PICK h : History(h) BY DEF Told
<1>2. ASSUME NEW t \in Threads, Parse(t) PROVE Told' BY <1>1, <1>2, ParseKeepsHistory
<1>3. ASSUME NEW t \in Threads, Serve(t) PROVE Told'
  <2>1. CASE Known(t) BY <1>1, <2>1, KnownKeepsHistory
  <2>2. CASE ListPage(t) \/ ListTotal(t) BY <1>1, <2>2, ListKeepsHistory
  <2>3. CASE CountShape(t) \/ Counted(t) BY <1>1, <2>3, CountsKeepHistory
  <2>4. CASE \/ Search(t) \/ Entity(t) \/ Resource(t)
             \/ ShapeList(t) \/ Definition(t) \/ Published(t)
    BY <1>1, <2>4, AnswersKeepHistory
  <2> QED BY <1>3, <2>1, <2>2, <2>3, <2>4 DEF Serve
<1>4. ASSUME NEW t \in Threads, NEW c \in Calls, Arrive(t, c) \/ Refuse(t, c) PROVE Told'
  BY <1>1, <1>4, ArriveKeepsHistory
<1>5. ASSUME NEW tr \in Candidates, Curate(tr) PROVE Told'
  <2>1. edits' = edits + 1 /\ UNCHANGED <<at, job>> /\ graph' \subseteq graph \union {tr}
    BY <1>5 DEF Curate
  <2>2. PICK g : g = graph' OBVIOUS
  <2>3. Triples(graph)
    <3>1. edits \in 0..edits /\ h[edits] = graph BY <1>1 DEF History
    <3> QED BY <1>1, <3>1 DEF History
  <2>4. Triples(g) BY <2>1, <2>2, <2>3, QueryAssumption DEF Triples
  <2> QED BY <1>1, <2>1, <2>2, <2>4, EditExtendsHistory
<1>6. CASE UNCHANGED vars
  <2>1. History(h)' BY <1>1, <1>6 DEF vars, History
  <2> QED BY <2>1 DEF Told
<1> QED BY <1>2, <1>3, <1>4, <1>5, <1>6 DEF Next

(* AnswersAgree: answers that were read from one graph never contradict each    *)
(* other, however the requests and the curators' writes interleave: the totals, *)
(* the pages, the search, the records and the two ends of a link.               *)
THEOREM AnswersDoAgree == Spec => []AnswersAgree
<1>1. Told => AnswersAgree
  <2> SUFFICES ASSUME Told,
                      NEW t \in {x \in Threads : Exact(x)}, NEW u \in {x \in Threads : Exact(x)},
                      job[t].since = job[u].since,
                      \A x \in {job[t], job[u]} : x.answer.status = 404 => x.call.route \notin Navigated
               PROVE  LET j == job[t]  k == job[u]
                          is(r, s) == j.call.route = r /\ k.call.route = s IN
                      /\ is("list", "list") => ListsAgree(j, k)
                      /\ is("list", "counts") => CountsAgree(j, k)
                      /\ is("list", "search") => SearchFinds(j, k)
                      /\ is("list", "entity") \/ is("list", "resource") => RecordOpens(j, k)
                      /\ is("entity", "resource") => RecordShown(j, k)
                      /\ is("resource", "resource") => PagesAgree(j, k)
    BY DEF AnswersAgree
  <2>1. PICK h : History(h) BY DEF Told
  <2> DEFINE j == job[t]
             k == job[u]
             g == h[j.since]
  <2>2. ASSUME NEW x \in {t, u} PROVE Answered(job[x], g) /\ job[x].call \in Calls
    <3>1. x \in Threads /\ Kept(job[x], at[x], h, edits) /\ at[x] = "done"
      BY <2>1 DEF History, Exact
    <3>2. Settled(job[x]) BY DEF Settled, Exact
    <3> QED BY <3>1, <3>2 DEF Kept
  <2>3. Triples(g)
    <3>1. j.since \in 0..edits BY <2>1 DEF History, Kept
    <3> QED BY <2>1, <3>1 DEF History
  <2>4. Answered(j, g) /\ Answered(k, g) /\ j.call \in Calls /\ k.call \in Calls BY <2>2
  <2> HIDE DEF j, k, g
  <2>5. j.call.route = "list" /\ k.call.route = "list" => ListsAgree(j, k)
    BY <2>4, ListAnswersAgree
  <2>6. j.call.route = "list" /\ k.call.route = "counts" => CountsAgree(j, k)
    BY <2>4, CountAgrees
  <2>7. j.call.route = "list" /\ k.call.route = "search" => SearchFinds(j, k)
    BY <2>4, SearchAgrees
  <2>8. j.call.route = "list" /\ k.call.route \in {"entity", "resource"} => RecordOpens(j, k)
    BY <2>4, ListedOpens
  <2>9. j.call.route = "entity" /\ k.call.route = "resource" => RecordShown(j, k)
    BY <2>3, <2>4, RecordAgrees
  <2>10. j.call.route = "resource" /\ k.call.route = "resource" => PagesAgree(j, k)
    BY <2>3, <2>4, PageAnswersAgree
  <2> QED BY <2>5, <2>6, <2>7, <2>8, <2>9, <2>10 DEF j, k
<1> QED BY InitTold, NextTold, <1>1, PTL DEF Spec
================================================================================
