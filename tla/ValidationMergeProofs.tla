------------------------- MODULE ValidationMergeProofs -------------------------
(* That the breadth-first plan of validation forgets no walk, for every catalogue  *)
(* of finitely many shapes and edges, with any cycles; and that the query made of  *)
(* it fetches what validation needs and nothing the payload settles.               *)
EXTENDS ValidationMerge, FiniteSetTheorems, SequenceTheorems, NaturalsInduction,
        WellFoundedInduction, TLAPS

(* A walk that may be extended: it has not come back to a shape it visited.        *)
NoReturn(w) == \A i, j \in 1..Len(w) : w[i].to # root /\ (i # j => w[i].to # w[j].to)
Extensible(w) == /\ w \in Seq(edges) /\ NoReturn(w)
                 /\ w = <<>> \/ IsWalk(w)

(* Everything found is a walk, what is queued can be extended, and a walk that can  *)
(* be extended is queued or was extended by every edge.                            *)
Plan == edges \in Catalogues /\ root \in DOMAIN Roots
FoundAreWalks == \A w \in results : w \in Seq(edges) /\ w # <<>> /\ IsWalk(w)
QueuedAreOpen == /\ queue \in Seq(Seq(edges))
                 /\ \A w \in Range(queue) : Extensible(w) /\ (w = <<>> \/ w \in results)
NoneIsForgotten ==
  \A w : Extensible(w) /\ (w = <<>> \/ w \in results)
           => w \in Range(queue) \/ Results(w) \subseteq results
Inv == Plan /\ FoundAreWalks /\ QueuedAreOpen /\ NoneIsForgotten

LEMMA PlanIsFinite ==
  ASSUME Plan
  PROVE  /\ IsFiniteSet(edges) /\ IsFiniteSet(Shapes) /\ root \in Shapes
         /\ Cardinality(Shapes) \in Nat
<1>1. IsFiniteSet(edges) /\ IsFiniteSet(Shapes) /\ root \in Shapes
  BY MergeAssumption DEF Plan
<1> QED BY <1>1, FS_CardinalityType

(* SetToSeq lists a finite set.                                                    *)
LEMMA ListOfSet ==
  ASSUME NEW S, IsFiniteSet(S)
  PROVE  SetToSeq(S) \in Seq(S) /\ Range(SetToSeq(S)) = S
<1> DEFINE n == Cardinality(S)  f == SetToSeq(S)
<1>1. n \in Nat /\ ExistsBijection(1..n, S) BY FS_CardinalityType
<1>2. PICK g \in [1..n -> S] : IsInjective(g)
  BY <1>1 DEF ExistsBijection, Bijection, Injection
<1>3. f \in [1..n -> S] /\ IsInjective(f) BY <1>2 DEF SetToSeq
<1>4. f \in Seq(S) BY <1>1, <1>3, SeqDef
<1>5. IsFiniteSet(1..n) /\ Cardinality(1..n) = n
  BY <1>1, FS_Interval
<1>6. f \in Injection(1..n, S) BY <1>3 DEF Injection
<1>7. f \in Surjection(1..n, S)
  <2>1. Cardinality(1..n) = Cardinality(S) <=> f \in Surjection(1..n, S)
    BY <1>6, FS_Injection
  <2> QED BY <1>5, <2>1
<1>8. Range(f) = S BY <1>3, <1>7 DEF Range, Surjection
<1> QED BY <1>4, <1>8

LEMMA ListIsOnce ==
  ASSUME NEW S, IsFiniteSet(S)
  PROVE  /\ Len(SetToSeq(S)) = Cardinality(S)
         /\ \A i, j \in DOMAIN SetToSeq(S) : SetToSeq(S)[i] = SetToSeq(S)[j] => i = j
<1> DEFINE n == Cardinality(S)  f == SetToSeq(S)
<1>1. n \in Nat /\ ExistsBijection(1..n, S) BY FS_CardinalityType
<1>2. PICK g \in [1..n -> S] : IsInjective(g)
  BY <1>1 DEF ExistsBijection, Bijection, Injection
<1>3. f \in [1..n -> S] /\ IsInjective(f) BY <1>2 DEF SetToSeq
<1>4. DOMAIN f = 1..n BY <1>3
<1>5. f \in Seq(S) BY <1>1, <1>3, SeqDef
<1>6. Len(f) = n BY <1>1, <1>4, <1>5, LenProperties
<1>7. \A i, j \in DOMAIN f : f[i] = f[j] => i = j
  <2> HIDE DEF f
  <2> QED BY <1>3 DEF IsInjective
<1> QED BY <1>6, <1>7

(* ------------------------------ extending a walk ------------------------------- *)
LEMMA OneMoreEdge ==
  ASSUME Plan, NEW w, Extensible(w), NEW e \in Onward(w)
  PROVE  /\ Append(w, e) \in Seq(edges) /\ Append(w, e) # <<>> /\ IsWalk(Append(w, e))
         /\ e.to \notin Visited(w) => Extensible(Append(w, e))
         /\ e.to \in Visited(w) => ~Extensible(Append(w, e))
<1> DEFINE v == Append(w, e)  n == Len(w)
<1>1. w \in Seq(edges) /\ e \in edges /\ e.from = End(w) /\ e.to \in Shapes
  BY DEF Extensible, Onward
<1>2. n \in Nat /\ DOMAIN w = 1..n BY <1>1, LenProperties
<1>3. /\ v \in Seq(edges) /\ v # <<>> /\ Len(v) = n + 1 /\ v[n + 1] = e
      /\ \A i \in 1..n : v[i] = w[i]
  BY <1>1, AppendProperties
<1>4. DOMAIN v = 1..n + 1 BY <1>3, LenProperties
<1>5. IsWalk(v)
  <2>1. CASE w = <<>>
    <3>1. n = 0 /\ End(w) = root BY <2>1 DEF End
    <3> QED BY <1>1, <1>3, <1>4, <3>1 DEF IsWalk
  <2>2. CASE w # <<>>
    <3>1. n \in Nat \ {0} BY <1>1, <2>2, EmptySeq
    <3>2. IsWalk(w) /\ NoReturn(w) /\ End(w) = w[n].to BY <2>2 DEF Extensible, End, Last
    <3>3. v[1].from = root BY <1>3, <3>1, <3>2 DEF IsWalk
    <3>4. ASSUME NEW i \in 2..Len(v) PROVE v[i].from = v[i - 1].to
      <4>1. CASE i = n + 1 BY <1>1, <1>3, <3>1, <3>2, <4>1
      <4>2. CASE i # n + 1
        <5>1. i \in 2..n /\ i - 1 \in 1..n /\ i \in 1..n BY <1>2, <1>3, <4>2
        <5> QED BY <1>3, <3>2, <5>1 DEF IsWalk
      <4> QED BY <4>1, <4>2
    <3>5. ASSUME NEW i \in DOMAIN v PROVE v[i].to \in Shapes
      <4>1. CASE i = n + 1 BY <1>1, <1>3, <4>1
      <4>2. CASE i # n + 1
        <5>1. i \in 1..n BY <1>2, <1>4, <4>2
        <5> QED BY <1>2, <1>3, <3>2, <5>1 DEF IsWalk
      <4> QED BY <4>1, <4>2
    <3>6. Len(v) - 1 = n BY <1>2, <1>3
    <3>7. \A i, j \in 1..Len(v) - 1 : v[i].to # root /\ (i # j => v[i].to # v[j].to)
      BY <1>3, <3>2, <3>6 DEF NoReturn
    <3> QED BY <3>3, <3>4, <3>5, <3>7 DEF IsWalk
  <2> QED BY <2>1, <2>2
<1>6. e.to \in Visited(w) <=> e.to = root \/ \E i \in 1..n : e.to = w[i].to
  BY <1>2 DEF Visited
<1>7. NoReturn(w) BY DEF Extensible
<1>8. ASSUME e.to \notin Visited(w) PROVE NoReturn(v)
  <2> SUFFICES ASSUME NEW i \in 1..n + 1, NEW j \in 1..n + 1
               PROVE  v[i].to # root /\ (i # j => v[i].to # v[j].to)
    BY <1>3 DEF NoReturn
  <2>1. \A k \in 1..n + 1 : k = n + 1 \/ k \in 1..n BY <1>2
  <2> QED BY <1>3, <1>6, <1>7, <1>8, <2>1 DEF NoReturn
<1>9. ASSUME e.to \in Visited(w) PROVE ~NoReturn(v)
  <2>1. n + 1 \in 1..n + 1 /\ \A i \in 1..n : i \in 1..n + 1 /\ i # n + 1 BY <1>2
  <2> QED BY <1>3, <1>6, <1>9, <2>1 DEF NoReturn
<1> QED BY <1>3, <1>5, <1>8, <1>9 DEF Extensible

(* --------------------------- the steps of the plan ------------------------------ *)
LEMMA InitInv == Init => Inv
<1> SUFFICES ASSUME Init PROVE Inv
  OBVIOUS
<1>1. queue = << <<>> >> /\ results = {} /\ Plan BY DEF Init, Plan
<1>2. <<>> \in Seq(edges) /\ Len(<<>>) = 0 BY EmptySeq
<1>3. Extensible(<<>>) BY <1>2 DEF Extensible, NoReturn
<1>4. queue \in Seq(Seq(edges)) /\ Range(queue) = {<<>>} BY <1>1, <1>2 DEF Range
<1>5. QueuedAreOpen BY <1>3, <1>4 DEF QueuedAreOpen
<1>6. NoneIsForgotten BY <1>1, <1>4 DEF NoneIsForgotten
<1>7. FoundAreWalks BY <1>1 DEF FoundAreWalks
<1> QED BY <1>1, <1>5, <1>6, <1>7 DEF Inv

(* The walks a walk is extended to, and where they go.                             *)
LEMMA UnvisitedAreOpen ==
  ASSUME Plan, NEW w, Extensible(w)
  PROVE  /\ Results(w) \subseteq Seq(edges) /\ IsFiniteSet(Unvisited(w))
         /\ \A v \in Results(w) : v # <<>> /\ IsWalk(v)
         /\ \A v \in Results(w) : Extensible(v) <=> v \in Unvisited(w)
         /\ Unvisited(w) \subseteq Results(w)
<1>1. \A v \in Results(w) : \E e \in Onward(w) : v = Append(w, e) BY DEF Results
<1>2. \A e \in Onward(w) : /\ Append(w, e) \in Seq(edges) /\ Append(w, e) # <<>>
                           /\ IsWalk(Append(w, e))
                           /\ Extensible(Append(w, e)) <=> e.to \notin Visited(w)
  BY OneMoreEdge
<1>3. Unvisited(w) \subseteq Results(w) BY DEF Unvisited, Results
<1>4. \A v \in Results(w) : Extensible(v) <=> v \in Unvisited(w)
  BY <1>1, <1>2 DEF Unvisited
<1>5. IsFiniteSet(Unvisited(w))
  <2> DEFINE open == {x \in Onward(w) : x.to \notin Visited(w)}
  <2>1. open \in SUBSET edges BY DEF Onward
  <2>2. IsFiniteSet(open) BY <2>1, PlanIsFinite, FS_Subset
  <2>3. [e \in open |-> Append(w, e)] \in Surjection(open, Unvisited(w))
    BY DEF Surjection, Unvisited
  <2> QED BY <2>2, <2>3, FS_Surjection
<1> QED BY <1>1, <1>2, <1>3, <1>4, <1>5

LEMMA WalkKeepsInv ==
  ASSUME Inv, Walk
  PROVE  Inv'
<1> DEFINE w == Head(queue)  new == SetToSeq(Unvisited(w))
<1>1. /\ queue # <<>> /\ queue \in Seq(Seq(edges))
      /\ results' = results \union Results(w) /\ queue' = Tail(queue) \o new
      /\ edges' = edges /\ root' = root /\ Plan
  BY DEF Walk, Enqueued, Inv, QueuedAreOpen
<1>2. Range(queue) = {w} \union Range(Tail(queue)) /\ Tail(queue) \in Seq(Seq(edges))
  <2>1. Tail(queue) \in Seq(Seq(edges)) BY <1>1, HeadTailProperties
  <2>2. w \in Seq(edges) BY <1>1, HeadTailProperties
  <2>3. <<w>> \in Seq(Seq(edges)) /\ queue = <<w>> \o Tail(queue) BY <1>1, <2>2
  <2>4. Range(<<w>> \o Tail(queue)) = Range(<<w>>) \union Range(Tail(queue))
    BY <2>1, <2>3, RangeConcatenation
  <2>5. Range(<<w>>) = {w} BY DEF Range
  <2> QED BY <2>1, <2>3, <2>4, <2>5
<1>3. Extensible(w) BY <1>2 DEF Inv, QueuedAreOpen
<1>4. /\ Results(w) \subseteq Seq(edges) /\ IsFiniteSet(Unvisited(w))
      /\ \A v \in Results(w) : v # <<>> /\ IsWalk(v)
      /\ \A v \in Results(w) : Extensible(v) <=> v \in Unvisited(w)
      /\ Unvisited(w) \subseteq Results(w)
  BY <1>1, <1>3, UnvisitedAreOpen
<1>5. new \in Seq(Seq(edges)) /\ Range(new) = Unvisited(w)
  <2>1. new \in Seq(Unvisited(w)) /\ Range(new) = Unvisited(w) BY <1>4, ListOfSet
  <2> QED BY <1>4, <2>1, SeqMonotonic
<1> HIDE DEF w, new
<1>6. queue' \in Seq(Seq(edges)) /\ Range(queue') = Range(Tail(queue)) \union Unvisited(w)
  <2>1. Tail(queue) \o new \in Seq(Seq(edges)) BY <1>2, <1>5, ConcatProperties
  <2>2. Range(Tail(queue) \o new) = Range(Tail(queue)) \union Range(new)
    <3> DEFINE rest == Tail(queue)
    <3>1. rest \in Seq(Seq(edges)) BY <1>2
    <3> HIDE DEF rest
    <3>2. Range(rest \o new) = Range(rest) \union Range(new)
      BY <1>5, <3>1, RangeConcatenation
    <3> QED BY <3>2 DEF rest
  <2>3. queue' = Tail(queue) \o new BY <1>1
  <2> QED BY <1>5, <2>1, <2>2, <2>3
<1>7. /\ \A v : Extensible(v)' = Extensible(v) /\ IsWalk(v)' = IsWalk(v)
      /\ \A v : Results(v)' = Results(v)
  BY <1>1 DEF Extensible, NoReturn, IsWalk, Results, Onward, End
<1>8. FoundAreWalks' BY <1>1, <1>4, <1>7 DEF FoundAreWalks, Inv
<1>9. QueuedAreOpen'
  <2> SUFFICES ASSUME NEW v \in Range(queue')
               PROVE  Extensible(v) /\ (v = <<>> \/ v \in results')
    BY <1>1, <1>6, <1>7 DEF QueuedAreOpen
  <2>1. CASE v \in Range(Tail(queue)) BY <1>1, <1>2, <2>1 DEF Inv, QueuedAreOpen
  <2>2. CASE v \in Unvisited(w) BY <1>1, <1>4, <2>2
  <2> QED BY <1>6, <2>1, <2>2
<1>10. NoneIsForgotten'
  <2> SUFFICES ASSUME NEW v, Extensible(v), v = <<>> \/ v \in results'
               PROVE  v \in Range(queue') \/ Results(v) \subseteq results'
    BY <1>7 DEF NoneIsForgotten
  <2>1. CASE v = <<>> \/ v \in results
    <3>1. v \in Range(queue) \/ Results(v) \subseteq results
      BY <2>1 DEF Inv, NoneIsForgotten
    <3>2. CASE v = w BY <1>1, <3>2
    <3>3. CASE v \in Range(Tail(queue)) BY <1>6, <3>3
    <3>4. CASE Results(v) \subseteq results BY <1>1, <3>4
    <3> QED BY <1>2, <3>1, <3>2, <3>3, <3>4
  <2>2. CASE v \in Results(w) BY <1>4, <1>6, <2>2
  <2> QED BY <1>1, <2>1, <2>2
<1>11. Plan' BY <1>1 DEF Plan
<1> QED BY <1>8, <1>9, <1>10, <1>11 DEF Inv

LEMMA StepInv == Inv /\ [Next]_vars => Inv'
<1> SUFFICES ASSUME Inv, [Next]_vars PROVE Inv'
  OBVIOUS
<1>1. CASE Walk BY <1>1, WalkKeepsInv
<1>2. CASE UNCHANGED <<edges, root, queue, results>>
  BY <1>2 DEF Inv, Plan, FoundAreWalks, QueuedAreOpen, NoneIsForgotten, Extensible,
              NoReturn, IsWalk, Results, Onward, End
<1> QED BY <1>1, <1>2 DEF Next, Validate, vars

(* ------------------------------- the plan's end --------------------------------- *)
(* A walk is no longer than the shapes are many: the shapes it leaves differ.       *)
LEMMA WalksAreShort ==
  ASSUME Plan, NEW w \in Seq(edges), w # <<>>, IsWalk(w)
  PROVE  w \in AllWalks
<1> DEFINE n == Len(w)  f == [i \in 1..n |-> IF i = 1 THEN root ELSE w[i - 1].to]
<1>1. n \in Nat \ {0} /\ w \in [1..n -> edges] /\ DOMAIN w = 1..n
  BY LenProperties, EmptySeq
<1>2. root \in Shapes /\ IsFiniteSet(Shapes) /\ Cardinality(Shapes) \in Nat BY PlanIsFinite
<1>3. \A i \in 1..n : i = 1 \/ (i - 1 \in 1..n - 1 /\ i - 1 \in DOMAIN w) BY <1>1
<1>4. f \in [1..n -> Shapes] BY <1>1, <1>2, <1>3 DEF IsWalk
<1>5. ASSUME NEW i \in 1..n, NEW j \in 1..n, f[i] = f[j] PROVE i = j
  <2>1. CASE i = 1 /\ j = 1 BY <2>1
  <2>2. CASE i = 1 /\ j # 1
    <3>1. f[i] = root /\ f[j] = w[j - 1].to /\ j - 1 \in 1..n - 1 BY <1>3, <2>2
    <3> QED BY <1>5, <3>1 DEF IsWalk
  <2>3. CASE i # 1 /\ j = 1
    <3>1. f[j] = root /\ f[i] = w[i - 1].to /\ i - 1 \in 1..n - 1 BY <1>3, <2>3
    <3> QED BY <1>5, <3>1 DEF IsWalk
  <2>4. CASE i # 1 /\ j # 1
    <3>1. /\ f[i] = w[i - 1].to /\ f[j] = w[j - 1].to
          /\ i - 1 \in 1..n - 1 /\ j - 1 \in 1..n - 1
      BY <1>3, <2>4
    <3>2. i - 1 = j - 1 BY <1>5, <3>1 DEF IsWalk
    <3> QED BY <3>2
  <2> QED BY <2>1, <2>2, <2>3, <2>4
<1>6. f \in Injection(1..n, Shapes) BY <1>4, <1>5 DEF Injection, IsInjective
<1>7. Cardinality(1..n) = n BY <1>1, FS_Interval
<1> HIDE DEF f
<1>8. Cardinality(1..n) <= Cardinality(Shapes) BY <1>2, <1>6, FS_Injection
<1>9. n \in 1..Cardinality(Shapes) BY <1>1, <1>2, <1>7, <1>8
<1> QED BY <1>1, <1>9 DEF AllWalks

(* A walk without its last edge is a walk that can be extended by it.               *)
LEMMA WalkExtends ==
  ASSUME NEW u \in Seq(edges), NEW e \in edges, IsWalk(Append(u, e))
  PROVE  Extensible(u) /\ e \in Onward(u) /\ (u = <<>> \/ IsWalk(u))
<1> DEFINE w == Append(u, e)  n == Len(u)
<1>1. n \in Nat /\ DOMAIN u = 1..n BY LenProperties
<1>2. /\ w \in Seq(edges) /\ Len(w) = n + 1 /\ w[n + 1] = e
      /\ \A i \in 1..n : w[i] = u[i]
  BY AppendProperties
<1>3. DOMAIN w = 1..n + 1 BY <1>2, LenProperties
<1>4. Len(w) - 1 = n BY <1>1, <1>2
<1>5. NoReturn(u) BY <1>2, <1>4 DEF NoReturn, IsWalk
<1>6. e.to \in Shapes
  <2>1. n + 1 \in DOMAIN w BY <1>1, <1>3
  <2> QED BY <1>2, <2>1 DEF IsWalk
<1>7. CASE u = <<>>
  <2>1. n = 0 /\ End(u) = root BY <1>7 DEF End
  <2>2. e.from = root BY <1>2, <2>1 DEF IsWalk
  <2> QED BY <1>5, <1>6, <1>7, <2>1, <2>2 DEF Extensible, Onward
<1>8. CASE u # <<>>
  <2>1. n \in Nat \ {0} BY <1>8, EmptySeq
  <2>2. End(u) = u[n].to BY <1>8 DEF End, Last
  <2>3. e.from = End(u)
    <3>1. n + 1 \in 2..Len(w) /\ (n + 1) - 1 = n /\ n \in 1..n BY <1>2, <2>1
    <3> QED BY <1>2, <2>2, <3>1 DEF IsWalk
  <2>4. IsWalk(u)
    <3>1. u[1].from = root BY <1>2, <2>1 DEF IsWalk
    <3>2. ASSUME NEW i \in 2..n PROVE u[i].from = u[i - 1].to
      <4>1. i \in 2..Len(w) /\ i \in 1..n /\ i - 1 \in 1..n BY <1>2, <2>1
      <4> QED BY <1>2, <4>1 DEF IsWalk
    <3>3. ASSUME NEW i \in DOMAIN u PROVE u[i].to \in Shapes
      <4>1. i \in DOMAIN w /\ i \in 1..n BY <1>1, <1>3
      <4> QED BY <1>2, <4>1 DEF IsWalk
    <3>4. \A i \in 1..n - 1 : i \in 1..n BY <2>1
    <3> QED BY <1>5, <3>1, <3>2, <3>3, <3>4 DEF IsWalk, NoReturn
  <2> QED BY <1>5, <1>6, <2>3, <2>4 DEF Extensible, Onward
<1> QED BY <1>7, <1>8

(* When nothing is queued every walk was found: take a shortest one that was not;   *)
(* without its last edge it was found, and it was extended by that edge.            *)
LEMMA EveryWalkIsFound ==
  ASSUME Inv, queue = <<>>
  PROVE  AllWalks \subseteq results
<1> DEFINE Lost == AllWalks \ results
           T == {Len(w) : w \in Lost}
<1>1. \A w \in AllWalks : w \in Seq(edges) /\ w # <<>> /\ IsWalk(w) /\ Len(w) \in Nat
  <2> SUFFICES ASSUME NEW w \in AllWalks
               PROVE  w \in Seq(edges) /\ w # <<>> /\ IsWalk(w) /\ Len(w) \in Nat
    OBVIOUS
  <2>1. Cardinality(Shapes) \in Nat BY PlanIsFinite DEF Inv
  <2>2. PICK n \in 1..Cardinality(Shapes) : w \in [1..n -> edges] BY DEF AllWalks
  <2>3. n \in Nat \ {0} /\ 1 \in 1..n BY <2>1, <2>2
  <2>4. w \in Seq(edges) BY <2>2, <2>3, SeqDef
  <2>5. w # <<>> BY <2>2, <2>3
  <2> QED BY <2>4, <2>5, LenProperties DEF AllWalks
<1>2. SUFFICES ASSUME T # {} PROVE FALSE
  OBVIOUS
<1>3. T \subseteq Nat BY <1>1
<1>4. PICK m \in T : \A k \in T : ~(k < m)
  <2> DEFINE Less == OpToRel(<, Nat)
  <2>1. IsWellFoundedOn(Less, Nat) BY NatLessThanWellFounded
  <2>2. \A j, k \in Nat : j < k => <<j, k>> \in Less BY DEF OpToRel
  <2> HIDE DEF T, Less
  <2>3. \E m \in T : \A k \in T : <<k, m>> \notin Less BY <1>2, <1>3, <2>1, WFMin
  <2> QED BY <1>3, <2>2, <2>3
<1>5. PICK w \in Lost : m = Len(w) BY <1>4
<1>6. w \in Seq(edges) /\ w # <<>> /\ IsWalk(w) /\ Len(w) \in Nat BY <1>1, <1>5
<1>7. PICK u \in Seq(edges), e \in edges : w = Append(u, e)
  BY <1>6, SequenceEmptyOrAppend
<1>8. Extensible(u) /\ e \in Onward(u) /\ (u = <<>> \/ IsWalk(u)) BY <1>6, <1>7, WalkExtends
<1>9. u = <<>> \/ u \in results
  <2>1. Len(u) \in Nat /\ Len(w) = Len(u) + 1 BY <1>7, LenProperties, AppendProperties
  <2>2. SUFFICES ASSUME u # <<>>, u \notin results PROVE FALSE
    OBVIOUS
  <2>3. u \in AllWalks BY <1>8, <2>2, WalksAreShort DEF Inv
  <2>4. Len(u) \in T BY <2>2, <2>3
  <2>5. Len(u) < m BY <1>5, <2>1
  <2> QED BY <1>4, <2>4, <2>5
<1>10. Range(queue) = {} BY DEF Range
<1>11. Results(u) \subseteq results BY <1>8, <1>9, <1>10 DEF Inv, NoneIsForgotten
<1>12. w \in Results(u) BY <1>7, <1>8 DEF Results
<1> QED BY <1>5, <1>11, <1>12

(* For every finite catalogue, whatever cycles it has, a plan whose queue is empty  *)
(* holds every walk from the root and nothing else (_bfs_shape_edges).              *)
THEOREM PlansAreComplete == Spec => []PlanIsComplete
<1>1. Inv => PlanIsComplete
  <2> SUFFICES ASSUME Inv, queue = <<>> PROVE results = AllWalks
    BY DEF PlanIsComplete
  <2>1. results \subseteq AllWalks BY WalksAreShort DEF Inv, FoundAreWalks
  <2> QED BY <2>1, EveryWalkIsFound
<1> QED BY <1>1, InitInv, StepInv, PTL DEF Spec

(* What the plan found are walks from the root, and its queue holds the walks it    *)
(* found that have not come back to a shape.                                        *)
THEOREM MergeTypes == Spec => []TypeOK
<1>1. Inv => TypeOK
  <2> SUFFICES ASSUME Inv PROVE TypeOK
    OBVIOUS
  <2>1. \A i \in DOMAIN queue : queue[i] \in Range(queue) BY DEF Range
  <2> QED BY <2>1 DEF TypeOK, Inv, Plan, FoundAreWalks, QueuedAreOpen
<1> QED BY <1>1, InitInv, StepInv, PTL DEF Spec

(* ------------------------------ every turn counts -------------------------------- *)
(* No walk is queued twice, or queued when it was extended before: the recording of *)
(* walks that come back to a shape without queueing them is what ends the loop.      *)
QueuedOnce ==
  /\ \A i, j \in DOMAIN queue : queue[i] = queue[j] => i = j
  /\ \A i \in DOMAIN queue : \A e \in edges : Append(queue[i], e) \notin results
Rooted == \A w \in Seq(edges), e \in edges : Append(w, e) \in results => w = <<>> \/ w \in results

LEMMA AppendDiffers ==
  ASSUME NEW S, NEW u \in Seq(S), NEW v \in Seq(S), NEW d \in S, NEW e \in S
  PROVE  /\ Append(u, d) = Append(v, e) => u = v /\ d = e
         /\ Append(u, d) # u
<1>1. /\ Len(u) \in Nat /\ Len(Append(u, d)) = Len(u) + 1
  BY LenProperties, AppendProperties
<1>2. Append(u, d) # u BY <1>1
<1>3. Append(u, d) = Append(v, e) => u = v /\ d = e
  BY AppendInjective
<1> QED BY <1>2, <1>3

(* The places of a queue: the rest of the old one, and then what was queued.        *)
LEMMA TurnPlaces ==
  ASSUME NEW S, NEW q \in Seq(S), q # <<>>, NEW new \in Seq(S), NEW r, r = Tail(q) \o new
  PROVE  /\ r \in Seq(S) /\ Len(r) = Len(q) - 1 + Len(new)
         /\ \A i \in DOMAIN r :
              \/ i + 1 \in DOMAIN q /\ i + 1 # 1 /\ r[i] = q[i + 1]
              \/ i - (Len(q) - 1) \in DOMAIN new /\ i > Len(q) - 1
                   /\ r[i] = new[i - (Len(q) - 1)]
         /\ 1 \in DOMAIN q /\ Head(q) = q[1] /\ Len(q) \in Nat \ {0} /\ Len(new) \in Nat
<1>1. Tail(q) \in Seq(S) /\ Len(Tail(q)) = Len(q) - 1 /\ Len(q) \in Nat \ {0}
      /\ \A i \in 1..Len(Tail(q)) : Tail(q)[i] = q[i + 1]
  BY HeadTailProperties, LenProperties, EmptySeq
<1>2. r \in Seq(S) /\ Len(r) = Len(q) - 1 + Len(new) /\ Len(new) \in Nat
  BY <1>1, ConcatProperties, LenProperties
<1>3. DOMAIN r = 1..Len(r) /\ DOMAIN q = 1..Len(q) /\ DOMAIN new = 1..Len(new)
  BY <1>2, LenProperties
<1>4. ASSUME NEW i \in DOMAIN r
      PROVE  \/ i + 1 \in DOMAIN q /\ i + 1 # 1 /\ r[i] = q[i + 1]
             \/ i - (Len(q) - 1) \in DOMAIN new /\ i > Len(q) - 1
                  /\ r[i] = new[i - (Len(q) - 1)]
  <2>1. i \in 1..(Len(Tail(q)) + Len(new)) BY <1>1, <1>2, <1>3
  <2>2. r[i] = IF i =< Len(Tail(q)) THEN Tail(q)[i] ELSE new[i - Len(Tail(q))]
    BY <1>1, <2>1, ConcatProperties
  <2> QED BY <1>1, <1>2, <1>3, <2>1, <2>2
<1> QED BY <1>1, <1>2, <1>3, <1>4

LEMMA InitOnce == Init => QueuedOnce /\ Rooted
BY DEF Init, QueuedOnce, Rooted

(* A turn queues walks that were not recorded before, each once.                    *)
LEMMA TurnQueuesOnce ==
  ASSUME Inv, QueuedOnce, Rooted, Walk
  PROVE  /\ (QueuedOnce /\ Rooted)'
         /\ Unvisited(Head(queue)) \intersect results = {}
         /\ Len(queue') = Len(queue) - 1 + Cardinality(Unvisited(Head(queue)))
         /\ Len(queue) \in Nat \ {0} /\ IsFiniteSet(Unvisited(Head(queue)))
<1> DEFINE w == Head(queue)  U == Unvisited(w)  new == SetToSeq(U)  n == Len(queue) - 1
<1>1. /\ queue # <<>> /\ queue \in Seq(Seq(edges))
      /\ results' = results \union Results(w) /\ queue' = Tail(queue) \o new
      /\ edges' = edges /\ root' = root /\ Plan
  BY DEF Walk, Enqueued, Inv, QueuedAreOpen
<1>2. \A i \in DOMAIN queue : queue[i] \in Range(queue) BY DEF Range
<1>3. \A i \in DOMAIN queue : /\ Extensible(queue[i]) /\ queue[i] \in Seq(edges)
                              /\ queue[i] = <<>> \/ queue[i] \in results
  BY <1>2 DEF Inv, QueuedAreOpen, Extensible
<1>4. 1 \in DOMAIN queue /\ w = queue[1]
  BY <1>1, LenProperties, EmptySeq
<1>5. Extensible(w) /\ w \in Seq(edges) BY <1>3, <1>4
<1>6. /\ Results(w) \subseteq Seq(edges) /\ IsFiniteSet(U) /\ U \subseteq Results(w)
  BY <1>1, <1>5, UnvisitedAreOpen
<1>7. \A v \in Results(w) : \E e \in edges : v = Append(w, e) BY DEF Results, Onward
<1>8. Results(w) \intersect results = {}
  BY <1>4, <1>7 DEF QueuedOnce
<1>9. /\ new \in Seq(U) /\ Range(new) = U /\ Len(new) = Cardinality(U)
      /\ \A i, j \in DOMAIN new : new[i] = new[j] => i = j
  BY <1>6, ListOfSet, ListIsOnce
<1>10. new \in Seq(Seq(edges)) /\ \A i \in DOMAIN new : new[i] \in U
  <2>1. \A i \in DOMAIN new : new[i] \in Range(new) BY DEF Range
  <2> QED BY <1>6, <1>9, <2>1, SeqMonotonic
<1> HIDE DEF new, U, w
<1>11. /\ queue' \in Seq(Seq(edges)) /\ Len(queue') = n + Len(new)
       /\ \A i \in DOMAIN queue' :
            \/ i + 1 \in DOMAIN queue /\ i + 1 # 1 /\ queue'[i] = queue[i + 1]
            \/ i - n \in DOMAIN new /\ i > n /\ queue'[i] = new[i - n]
       /\ Len(queue) \in Nat \ {0} /\ Len(new) \in Nat
  BY <1>1, <1>10, TurnPlaces
<1>12. DOMAIN queue' = 1..Len(queue') BY <1>11, LenProperties
<1>13. ASSUME NEW v \in U, NEW i \in DOMAIN queue PROVE queue[i] # v
  <2>1. v # <<>> /\ v \notin results
    <3>1. PICK e \in edges : v = Append(w, e) BY <1>6, <1>7, <1>13
    <3> QED BY <1>5, <1>6, <1>8, <1>13, <3>1, AppendProperties
  <2> QED BY <1>3, <2>1
<1>14. ASSUME NEW i \in DOMAIN queue', NEW j \in DOMAIN queue', queue'[i] = queue'[j]
       PROVE  i = j
  <2>1. i \in Int /\ j \in Int /\ n \in Int BY <1>11, <1>12
  <2>2. CASE /\ i + 1 \in DOMAIN queue /\ queue'[i] = queue[i + 1]
             /\ j + 1 \in DOMAIN queue /\ queue'[j] = queue[j + 1]
    <3>1. i + 1 = j + 1 BY <1>14, <2>2 DEF QueuedOnce
    <3> QED BY <2>1, <3>1
  <2>3. CASE /\ i - n \in DOMAIN new /\ queue'[i] = new[i - n]
             /\ j - n \in DOMAIN new /\ queue'[j] = new[j - n]
    <3>1. i - n = j - n BY <1>9, <1>14, <2>3
    <3> QED BY <2>1, <3>1
  <2>4. CASE /\ i + 1 \in DOMAIN queue /\ queue'[i] = queue[i + 1]
             /\ j - n \in DOMAIN new /\ queue'[j] = new[j - n]
    BY <1>10, <1>13, <1>14, <2>4
  <2>5. CASE /\ i - n \in DOMAIN new /\ queue'[i] = new[i - n]
             /\ j + 1 \in DOMAIN queue /\ queue'[j] = queue[j + 1]
    BY <1>10, <1>13, <1>14, <2>5
  <2> QED BY <1>11, <2>2, <2>3, <2>4, <2>5
<1>15. ASSUME NEW i \in DOMAIN queue', NEW e \in edges
       PROVE  Append(queue'[i], e) \notin results \union Results(w)
  <2> SUFFICES ASSUME Append(queue'[i], e) \in results \union Results(w) PROVE FALSE
    OBVIOUS
  <2>1. CASE i + 1 \in DOMAIN queue /\ i + 1 # 1 /\ queue'[i] = queue[i + 1]
    <3>1. Append(queue[i + 1], e) \notin results BY <2>1 DEF QueuedOnce
    <3>2. PICK d \in edges : Append(queue[i + 1], e) = Append(w, d)
      BY <1>7, <2>1, <3>1
    <3>3. queue[i + 1] = queue[1] BY <1>3, <1>4, <1>5, <2>1, <3>2, AppendDiffers
    <3> QED BY <1>4, <2>1, <3>3 DEF QueuedOnce
  <2>2. CASE i - n \in DOMAIN new /\ queue'[i] = new[i - n]
    <3>1. PICK d \in edges : queue'[i] = Append(w, d) BY <1>6, <1>7, <1>10, <2>2
    <3>2. queue'[i] \in Seq(edges) /\ queue'[i] # <<>> /\ queue'[i] # w
      BY <1>5, <3>1, AppendProperties, AppendDiffers
    <3>3. queue'[i] \notin results BY <1>6, <1>8, <1>10, <2>2
    <3>4. Append(queue'[i], e) \notin results BY <3>2, <3>3 DEF Rooted
    <3>5. PICK c \in edges : Append(queue'[i], e) = Append(w, c) BY <1>7, <3>4
    <3> QED BY <1>5, <3>2, <3>5, AppendDiffers
  <2> QED BY <1>11, <2>1, <2>2
<1>16. ASSUME NEW v \in Seq(edges), NEW e \in edges, Append(v, e) \in results \union Results(w)
       PROVE  v = <<>> \/ v \in results \union Results(w)
  <2>1. CASE Append(v, e) \in results BY <2>1 DEF Rooted
  <2>2. CASE Append(v, e) \in Results(w)
    <3>1. PICK d \in edges : Append(v, e) = Append(w, d) BY <1>7, <2>2
    <3>2. v = w BY <1>5, <3>1, AppendDiffers
    <3> QED BY <1>3, <1>4, <3>2
  <2> QED BY <1>16, <2>1, <2>2
<1>17. QueuedOnce' BY <1>1, <1>14, <1>15 DEF QueuedOnce
<1>18. Rooted' BY <1>1, <1>16 DEF Rooted
<1>19. U \intersect results = {} BY <1>6, <1>8
<1> QED BY <1>6, <1>9, <1>11, <1>17, <1>18, <1>19 DEF U, w

(* The walks still to be found and those in the queue: every turn leaves fewer.     *)
Left == Cardinality(AllWalks \ results) + Len(queue)

LEMMA AllWalksAreFinite ==
  ASSUME Plan
  PROVE  IsFiniteSet(AllWalks)
<1> DEFINE N == Cardinality(Shapes)  all == [n \in 1..N |-> [1..n -> edges]]
           lists == {all[n] : n \in 1..N}
<1>1. N \in Nat /\ IsFiniteSet(edges) BY PlanIsFinite
<1> HIDE DEF N
<1>2. ASSUME NEW n \in 1..N PROVE IsFiniteSet([1..n -> edges])
  <2> DEFINE pairs == (1..n) \X edges  graph == [f \in [1..n -> edges] |-> {<<i, f[i]>> : i \in 1..n}]
  <2>1. IsFiniteSet(1..n) BY <1>1, FS_Interval
  <2>2. IsFiniteSet(SUBSET pairs) BY <1>1, <2>1, FS_Product, FS_SUBSET
  <2>3. graph \in [[1..n -> edges] -> SUBSET pairs] OBVIOUS
  <2>4. ASSUME NEW f \in [1..n -> edges], NEW g \in [1..n -> edges], graph[f] = graph[g]
        PROVE  f = g
    <3>1. ASSUME NEW i \in 1..n PROVE f[i] = g[i]
      <4>1. <<i, f[i]>> \in graph[g] BY <2>4
      <4>2. PICK j \in 1..n : <<i, f[i]>> = <<j, g[j]>> BY <4>1
      <4> QED BY <4>2
    <3> QED BY <3>1
  <2> HIDE DEF graph, pairs
  <2>5. graph \in Injection([1..n -> edges], SUBSET pairs)
    BY <2>3, <2>4 DEF Injection, IsInjective
  <2> QED BY <2>2, <2>5, FS_Injection
<1>3. IsFiniteSet(1..N) BY <1>1, FS_Interval
<1>4. all \in Surjection(1..N, lists) BY DEF Surjection
<1>5. IsFiniteSet(lists) BY <1>3, <1>4, FS_Surjection
<1>6. \A s \in lists : IsFiniteSet(s) BY <1>2
<1>7. IsFiniteSet(UNION lists) BY <1>5, <1>6, FS_UNION
<1>8. AllWalks \subseteq UNION lists BY DEF AllWalks, N
<1> QED BY <1>7, <1>8, FS_Subset

LEMMA TurnLeavesFewer ==
  ASSUME Inv, QueuedOnce, Rooted, Walk
  PROVE  Left' \in Nat /\ Left' < Left
<1> DEFINE w == Head(queue)  U == Unvisited(w)
           lost == AllWalks \ results  now == AllWalks \ results'
<1>1. /\ Plan /\ queue # <<>> /\ queue \in Seq(Seq(edges))
      /\ edges' = edges /\ root' = root /\ results' = results \union Results(w)
  BY DEF Walk, Inv, QueuedAreOpen
<1>2. /\ U \intersect results = {} /\ IsFiniteSet(U) /\ Len(queue) \in Nat \ {0}
      /\ Len(queue') = Len(queue) - 1 + Cardinality(U)
  BY TurnQueuesOnce
<1>3. 1 \in DOMAIN queue /\ w = queue[1] BY <1>1, LenProperties, EmptySeq
<1>4. Extensible(w) BY <1>3 DEF Inv, QueuedAreOpen, Range
<1>5. U \subseteq Results(w) /\ U \subseteq AllWalks
  BY <1>1, <1>4, UnvisitedAreOpen, WalksAreShort
<1>6. IsFiniteSet(lost) BY <1>1, AllWalksAreFinite, FS_Subset
<1> HIDE DEF U, w
<1>7. AllWalks' = AllWalks BY <1>1 DEF AllWalks, IsWalk
<1>8. U \subseteq lost /\ now \subseteq lost \ U BY <1>1, <1>2, <1>5
<1> HIDE DEF lost, now
<1>9. /\ IsFiniteSet(lost \ U) /\ IsFiniteSet(now) /\ lost \intersect U = U
      /\ Cardinality(lost \ U) = Cardinality(lost) - Cardinality(U)
  <2>1. lost \intersect U = U BY <1>8
  <2> QED BY <1>6, <1>8, <2>1, FS_Difference, FS_Subset
<1>10. Cardinality(now) <= Cardinality(lost \ U) BY <1>8, <1>9, FS_Subset
<1>11. /\ Cardinality(now) \in Nat /\ Cardinality(lost) \in Nat /\ Cardinality(U) \in Nat
  BY <1>2, <1>6, <1>9, FS_CardinalityType
<1>12. Left = Cardinality(lost) + Len(queue) BY DEF Left, lost
<1>13. Left' = Cardinality(now) + Len(queue') BY <1>7 DEF Left, now
<1> QED BY <1>2, <1>9, <1>10, <1>11, <1>12, <1>13

LEMMA StepOnce == Inv /\ QueuedOnce /\ Rooted /\ [Next]_vars => (QueuedOnce /\ Rooted)'
<1> SUFFICES ASSUME Inv, QueuedOnce, Rooted, [Next]_vars PROVE (QueuedOnce /\ Rooted)'
  OBVIOUS
<1>1. CASE Walk BY <1>1, TurnQueuesOnce
<1>2. CASE UNCHANGED <<edges, root, queue, results>> BY <1>2 DEF QueuedOnce, Rooted
<1> QED BY <1>1, <1>2 DEF Next, Validate, vars

(* Every turn of the planner's loop leaves a smaller number of walks to find or to  *)
(* extend, whatever cycles the catalogue has: a walk that came back is not queued,  *)
(* and none is queued twice. So the loop of _bfs_shape_edges ends; PlanEnds, which  *)
(* a run checks, only adds that its turns are taken.                                *)
THEOREM TurnsAreCounted == Spec => [][Walk => Left' \in Nat /\ Left' < Left]_vars
<1>1. Inv /\ QueuedOnce /\ Rooted => (Walk => Left' \in Nat /\ Left' < Left)
  BY TurnLeavesFewer
<1> QED BY <1>1, InitInv, InitOnce, StepInv, StepOnce, PTL DEF Spec

(* ---------------------------- following predicates ------------------------------ *)
(* Induction over the members of a set of numbers: one that is not in the set would *)
(* have a least one before it.                                                      *)
LEMMA EveryNumber ==
  ASSUME NEW S, 0 \in S, \A n \in Nat : n \in S => n + 1 \in S
  PROVE  \A n \in Nat : n \in S
<1> DEFINE T == Nat \ S  Less == OpToRel(<, Nat)
<1>1. SUFFICES ASSUME T # {} PROVE FALSE
  OBVIOUS
<1>2. IsWellFoundedOn(Less, Nat) BY NatLessThanWellFounded
<1>3. \A j, k \in Nat : j < k => <<j, k>> \in Less BY DEF OpToRel
<1> HIDE DEF Less
<1>4. PICK m \in T : \A k \in T : <<k, m>> \notin Less BY <1>1, <1>2, WFMin
<1>5. m # 0 /\ m \in Nat BY <1>4
<1>6. m - 1 \in Nat /\ m - 1 < m /\ (m - 1) + 1 = m BY <1>5
<1>7. m - 1 \in S BY <1>3, <1>4, <1>5, <1>6
<1> QED BY <1>4, <1>6, <1>7

(* The sets reached one hop after the other exist, so Follow is the last of them.   *)
Reached(ts, ns, preds, n, f) ==
  f = [i \in 0..n |-> IF i = 0 THEN ns ELSE Hop(ts, f[i - 1], preds[i])]

LEMMA FollowReaches ==
  ASSUME NEW ts, NEW ns, NEW preds, Len(preds) \in Nat
  PROVE  \E f : /\ Reached(ts, ns, preds, Len(preds), f)
                /\ Follow(ts, ns, preds) = f[Len(preds)]
<1> DEFINE S == {n \in Nat : \E f : Reached(ts, ns, preds, n, f)}
<1>1. 0 \in S
  <2> DEFINE f == [i \in 0..0 |-> ns]
  <2>1. f = [i \in 0..0 |-> IF i = 0 THEN ns ELSE Hop(ts, f[i - 1], preds[i])]
    OBVIOUS
  <2> QED BY <2>1 DEF Reached
<1>2. ASSUME NEW n \in Nat, n \in S PROVE n + 1 \in S
  <2>1. PICK f : Reached(ts, ns, preds, n, f) BY <1>2
  <2> DEFINE g == [i \in 0..n + 1 |-> IF i = n + 1 THEN Hop(ts, f[n], preds[n + 1]) ELSE f[i]]
  <2>2. \A i \in 0..n : f[i] = IF i = 0 THEN ns ELSE Hop(ts, f[i - 1], preds[i])
    BY <2>1 DEF Reached
  <2>3. \A i \in 0..n : g[i] = f[i] OBVIOUS
  <2>4. g[n + 1] = Hop(ts, f[n], preds[n + 1]) OBVIOUS
  <2>5. \A i \in 0..n + 1 : g[i] = IF i = 0 THEN ns ELSE Hop(ts, g[i - 1], preds[i])
    <3> SUFFICES ASSUME NEW i \in 0..n + 1
                 PROVE  g[i] = IF i = 0 THEN ns ELSE Hop(ts, g[i - 1], preds[i])
      OBVIOUS
    <3>1. CASE i = n + 1
      <4>1. i # 0 /\ i - 1 = n /\ n \in 0..n BY <3>1
      <4> QED BY <2>3, <2>4, <3>1, <4>1
    <3>2. CASE i # n + 1
      <4>1. i \in 0..n /\ (i # 0 => i - 1 \in 0..n) BY <3>2
      <4> QED BY <2>2, <2>3, <4>1
    <3> QED BY <3>1, <3>2
  <2>6. g = [i \in 0..n + 1 |-> g[i]] OBVIOUS
  <2> HIDE DEF g
  <2>7. Reached(ts, ns, preds, n + 1, g) BY <2>5, <2>6 DEF Reached
  <2> QED BY <2>7
<1>3. Len(preds) \in S
  <2> HIDE DEF S
  <2> QED BY <1>1, <1>2, EveryNumber
<1>4. \E f : Reached(ts, ns, preds, Len(preds), f) BY <1>3
<1> QED BY <1>4 DEF Follow, Reached

(* A chain of triples along the predicates, and what Follow has to do with it.      *)
Step(ts, a, p, b) == \E t \in ts : t[1] = a /\ t[2] = p /\ t[3] = b
Chain(ts, ns, preds, n, c) ==
  c[0] \in ns /\ \A i \in 1..n : Step(ts, c[i - 1], preds[i], c[i])

LEMMA HopIsStep ==
  ASSUME NEW ts, NEW ns, NEW p, NEW y
  PROVE  y \in Hop(ts, ns, p) <=> \E a \in ns : Step(ts, a, p, y)
BY DEF Hop, Step

LEMMA FollowedAreChained ==
  ASSUME NEW ts, NEW ns, NEW preds, Len(preds) \in Nat, NEW x \in Follow(ts, ns, preds)
  PROVE  \E c : Chain(ts, ns, preds, Len(preds), c) /\ c[Len(preds)] = x
<1>1. PICK f : /\ Reached(ts, ns, preds, Len(preds), f)
               /\ Follow(ts, ns, preds) = f[Len(preds)]
  BY FollowReaches
<1>2. \A i \in 0..Len(preds) : f[i] = IF i = 0 THEN ns ELSE Hop(ts, f[i - 1], preds[i])
  BY <1>1 DEF Reached
<1> DEFINE S == {n \in Nat : n =< Len(preds) =>
                   \A y \in f[n] : \E c : Chain(ts, ns, preds, n, c) /\ c[n] = y}
<1>3. 0 \in S
  <2> SUFFICES ASSUME NEW y \in f[0] PROVE \E c : Chain(ts, ns, preds, 0, c) /\ c[0] = y
    OBVIOUS
  <2>1. y \in ns BY <1>2
  <2> DEFINE c == [i \in 0..0 |-> y]
  <2>2. c[0] = y /\ 1..0 = {} OBVIOUS
  <2> QED BY <2>1, <2>2 DEF Chain
<1>4. ASSUME NEW n \in Nat, n \in S PROVE n + 1 \in S
  <2> SUFFICES ASSUME n + 1 =< Len(preds), NEW y \in f[n + 1]
               PROVE  \E c : Chain(ts, ns, preds, n + 1, c) /\ c[n + 1] = y
    OBVIOUS
  <2>1. y \in Hop(ts, f[n], preds[n + 1])
    <3>1. n + 1 \in 0..Len(preds) /\ n + 1 # 0 /\ (n + 1) - 1 = n OBVIOUS
    <3> QED BY <1>2, <3>1
  <2>2. PICK a \in f[n] : Step(ts, a, preds[n + 1], y) BY <2>1, HopIsStep
  <2>3. PICK c : Chain(ts, ns, preds, n, c) /\ c[n] = a BY <1>4
  <2> DEFINE d == [i \in 0..n + 1 |-> IF i = n + 1 THEN y ELSE c[i]]
  <2>4. d[n + 1] = y /\ \A i \in 0..n : d[i] = c[i] OBVIOUS
  <2> HIDE DEF d
  <2>5. d[0] \in ns BY <2>3, <2>4 DEF Chain
  <2>6. ASSUME NEW i \in 1..n + 1 PROVE Step(ts, d[i - 1], preds[i], d[i])
    <3>1. CASE i = n + 1
      <4>1. i - 1 = n /\ n \in 0..n BY <3>1
      <4> QED BY <2>2, <2>3, <2>4, <3>1, <4>1
    <3>2. CASE i # n + 1
      <4>1. i \in 1..n /\ i \in 0..n /\ i - 1 \in 0..n BY <3>2
      <4> QED BY <2>3, <2>4, <4>1 DEF Chain
    <3> QED BY <3>1, <3>2
  <2>7. Chain(ts, ns, preds, n + 1, d) BY <2>5, <2>6 DEF Chain
  <2> QED BY <2>4, <2>7
<1>5. Len(preds) \in S
  <2> HIDE DEF S
  <2> QED BY <1>3, <1>4, EveryNumber
<1> QED BY <1>1, <1>5

LEMMA ChainedAreFollowed ==
  ASSUME NEW ts, NEW ns, NEW preds, Len(preds) \in Nat,
         NEW c, Chain(ts, ns, preds, Len(preds), c)
  PROVE  c[Len(preds)] \in Follow(ts, ns, preds)
<1>1. PICK f : /\ Reached(ts, ns, preds, Len(preds), f)
               /\ Follow(ts, ns, preds) = f[Len(preds)]
  BY FollowReaches
<1>2. \A i \in 0..Len(preds) : f[i] = IF i = 0 THEN ns ELSE Hop(ts, f[i - 1], preds[i])
  BY <1>1 DEF Reached
<1> DEFINE S == {n \in Nat : n =< Len(preds) => c[n] \in f[n]}
<1>3. 0 \in S BY <1>2 DEF Chain
<1>4. ASSUME NEW n \in Nat, n \in S PROVE n + 1 \in S
  <2> SUFFICES ASSUME n + 1 =< Len(preds) PROVE c[n + 1] \in f[n + 1]
    OBVIOUS
  <2>1. /\ n + 1 \in 0..Len(preds) /\ n + 1 # 0 /\ (n + 1) - 1 = n
        /\ n + 1 \in 1..Len(preds)
    OBVIOUS
  <2>2. c[n] \in f[n] BY <1>4
  <2>3. Step(ts, c[n], preds[n + 1], c[n + 1]) BY <2>1 DEF Chain
  <2>4. c[n + 1] \in Hop(ts, f[n], preds[n + 1]) BY <2>2, <2>3, HopIsStep
  <2> QED BY <1>2, <2>1, <2>4
<1>5. Len(preds) \in S
  <2> HIDE DEF S
  <2> QED BY <1>3, <1>4, EveryNumber
<1> QED BY <1>1, <1>5

(* --------------------------- what a request fetched ------------------------------ *)
(* A request is validated with a finished plan, and what it fetched is what the     *)
(* query of that plan returns.                                                      *)
RequestInv ==
  request # None =>
    /\ queue = <<>> /\ request.create \in BOOLEAN
    /\ LET seeds == Seeds(request.payload, request.create) IN
         request.fetched = IF seeds = {} THEN {} ELSE Fetched(request.store, seeds)

LEMMA RequestStep == RequestInv /\ [Next]_vars => RequestInv'
<1> SUFFICES ASSUME RequestInv, [Next]_vars PROVE RequestInv'
  OBVIOUS
<1>1. CASE Walk
  <2>1. request' = request /\ (request # None => queue = <<>>) /\ queue # <<>>
    BY <1>1 DEF Walk, RequestInv
  <2> QED BY <2>1 DEF RequestInv
<1>2. ASSUME NEW store, NEW payload, NEW create \in BOOLEAN, Validate(store, payload, create)
      PROVE  RequestInv'
  <2> DEFINE seeds == Seeds(payload, create)
  <2>1. /\ queue' = <<>> /\ edges' = edges /\ root' = root /\ results' = results
        /\ request' = [store |-> store, payload |-> payload, create |-> create,
                       fetched |-> IF seeds = {} THEN {} ELSE Fetched(store, seeds)]
    BY <1>2 DEF Validate
  <2>2. /\ request'.create = create /\ request'.store = store /\ request'.payload = payload
        /\ request'.fetched = IF seeds = {} THEN {} ELSE Fetched(store, seeds)
    BY <2>1
  <2> QED BY <1>2, <2>1, <2>2 DEF RequestInv, Seeds, Entity, Described,
        BridgeLinkPredicates, Fetched, Terminals, Tails
<1>3. CASE UNCHANGED vars
  BY <1>3 DEF RequestInv, vars, Seeds, Entity, Described, BridgeLinkPredicates, Fetched,
              Terminals, Tails
<1> QED BY <1>1, <1>2, <1>3 DEF Next

(* A walk that was found is a list of predicates that is not empty, and so is every *)
(* end of it that starts before its last; the plan asks for all of these.           *)
LEMMA WalkPredicates ==
  ASSUME Inv, NEW w \in results
  PROVE  /\ Len(Predicates(w)) \in Nat \ {0}
         /\ \A i \in 1..Len(Predicates(w)) : \E e \in edges : Predicates(w)[i] = e.pred
         /\ \A j \in 0..Len(Predicates(w)) - 1 :
              LET tail == SubSeq(Predicates(w), j + 1, Len(Predicates(w))) IN
              /\ tail \in Tails /\ Len(tail) = Len(Predicates(w)) - j
              /\ \A i \in 1..Len(tail) : tail[i] = Predicates(w)[j + i]
<1> DEFINE ps == Predicates(w)  n == Len(w)  P == {e.pred : e \in edges}
<1>1. w \in Seq(edges) /\ w # <<>> BY DEF Inv, FoundAreWalks
<1>2. n \in Nat \ {0} /\ DOMAIN w = 1..n /\ \A i \in 1..n : w[i] \in edges
  BY <1>1, LenProperties, EmptySeq, ElementOfSeq
<1>3. ps = [i \in 1..n |-> w[i].pred] BY <1>2 DEF Predicates
<1>4. ps \in [1..n -> P] BY <1>2, <1>3
<1>5. ps \in Seq(P) /\ Len(ps) = n
  <2>1. ps \in Seq(P) BY <1>2, <1>4, SeqDef
  <2> QED BY <1>2, <1>4, <2>1, LenProperties
<1>6. \A i \in 1..n : \E e \in edges : ps[i] = e.pred BY <1>2, <1>3
<1> HIDE DEF ps
<1>7. ASSUME NEW j \in 0..n - 1
      PROVE  /\ SubSeq(ps, j + 1, n) \in Tails /\ Len(SubSeq(ps, j + 1, n)) = n - j
             /\ \A i \in 1..n - j : SubSeq(ps, j + 1, n)[i] = ps[j + i]
  <2>1. j + 1 \in 1..n /\ j + 1 \in Int /\ n \in Int /\ j + 1 <= n
        /\ n - (j + 1) + 1 = n - j
    BY <1>2
  <2>2. \A i \in j + 1..n : ps[i] \in P
    <3>1. \A i \in j + 1..n : i \in 1..n BY <1>2
    <3> QED BY <1>4, <3>1
  <2>3. /\ Len(SubSeq(ps, j + 1, n)) = n - j
        /\ \A i \in 1..n - j : SubSeq(ps, j + 1, n)[i] = ps[j + 1 + i - 1]
    BY <2>1, <2>2, SubSeqProperties
  <2>4. \A i \in 1..n - j : j + 1 + i - 1 = j + i BY <1>2
  <2>5. SubSeq(ps, j + 1, n) \in Suffixes(ps) BY <1>5, <2>1 DEF Suffixes
  <2>6. SubSeq(ps, j + 1, n) \in Tails BY <2>5 DEF Tails, ps
  <2> QED BY <2>3, <2>4, <2>6
<1> QED BY <1>2, <1>5, <1>6, <1>7 DEF ps

(* ----------------------------- links from the entity ----------------------------- *)
AtEach(links, nodes, n, f) ==
  f = [i \in 0..n |-> IF i = 0 THEN nodes ELSE Across(links, f[i - 1])]

LEMMA AwayExists ==
  ASSUME NEW links, NEW nodes, NEW n \in Nat
  PROVE  \E f : AtEach(links, nodes, n, f) /\ Away(links, nodes, n) = f[n]
<1> DEFINE S == {k \in Nat : \E f : AtEach(links, nodes, k, f)}
<1>1. 0 \in S
  <2> DEFINE f == [i \in 0..0 |-> nodes]
  <2>1. f = [i \in 0..0 |-> IF i = 0 THEN nodes ELSE Across(links, f[i - 1])]
    OBVIOUS
  <2> QED BY <2>1 DEF AtEach
<1>2. ASSUME NEW k \in Nat, k \in S PROVE k + 1 \in S
  <2>1. PICK f : AtEach(links, nodes, k, f) BY <1>2
  <2> DEFINE g == [i \in 0..k + 1 |-> IF i = k + 1 THEN Across(links, f[k]) ELSE f[i]]
  <2>2. \A i \in 0..k : f[i] = IF i = 0 THEN nodes ELSE Across(links, f[i - 1])
    BY <2>1 DEF AtEach
  <2>3. \A i \in 0..k : g[i] = f[i] OBVIOUS
  <2>4. g[k + 1] = Across(links, f[k]) OBVIOUS
  <2>5. \A i \in 0..k + 1 : g[i] = IF i = 0 THEN nodes ELSE Across(links, g[i - 1])
    <3> SUFFICES ASSUME NEW i \in 0..k + 1
                 PROVE  g[i] = IF i = 0 THEN nodes ELSE Across(links, g[i - 1])
      OBVIOUS
    <3>1. CASE i = k + 1
      <4>1. i # 0 /\ i - 1 = k /\ k \in 0..k BY <3>1
      <4> QED BY <2>3, <2>4, <3>1, <4>1
    <3>2. CASE i # k + 1
      <4>1. i \in 0..k /\ (i # 0 => i - 1 \in 0..k) BY <3>2
      <4> QED BY <2>2, <2>3, <4>1
    <3> QED BY <3>1, <3>2
  <2>6. g = [i \in 0..k + 1 |-> g[i]] OBVIOUS
  <2> HIDE DEF g
  <2>7. AtEach(links, nodes, k + 1, g) BY <2>5, <2>6 DEF AtEach
  <2> QED BY <2>7
<1>3. n \in S
  <2> HIDE DEF S
  <2> QED BY <1>1, <1>2, EveryNumber
<1>4. \E f : AtEach(links, nodes, n, f) BY <1>3
<1> QED BY <1>4 DEF Away, AtEach

(* No links away from some nodes are the nodes; one link more is one link across.   *)
LEMMA AwayByOne ==
  ASSUME NEW links, NEW nodes, NEW n \in Nat
  PROVE  /\ Away(links, nodes, 0) = nodes
         /\ Away(links, nodes, n + 1) = Across(links, Away(links, nodes, n))
<1>1. PICK f : AtEach(links, nodes, n, f) /\ Away(links, nodes, n) = f[n] BY AwayExists
<1>2. PICK g : AtEach(links, nodes, n + 1, g) /\ Away(links, nodes, n + 1) = g[n + 1]
  BY AwayExists
<1>3. PICK h : AtEach(links, nodes, 0, h) /\ Away(links, nodes, 0) = h[0] BY AwayExists
<1>4. h[0] = nodes BY <1>3 DEF AtEach
<1>5. \A i \in 0..n : f[i] = IF i = 0 THEN nodes ELSE Across(links, f[i - 1])
  BY <1>1 DEF AtEach
<1>6. \A i \in 0..n + 1 : g[i] = IF i = 0 THEN nodes ELSE Across(links, g[i - 1])
  BY <1>2 DEF AtEach
<1> DEFINE S == {k \in Nat : k =< n => f[k] = g[k]}
<1>7. 0 \in S
  <2>1. 0 \in 0..n /\ 0 \in 0..n + 1 OBVIOUS
  <2> QED BY <1>5, <1>6, <2>1
<1>8. ASSUME NEW k \in Nat, k \in S PROVE k + 1 \in S
  <2> SUFFICES ASSUME k + 1 =< n PROVE f[k + 1] = g[k + 1]
    OBVIOUS
  <2>1. k + 1 \in 0..n /\ k + 1 \in 0..n + 1 /\ k + 1 # 0 /\ (k + 1) - 1 = k OBVIOUS
  <2> QED BY <1>5, <1>6, <1>8, <2>1
<1>9. n \in S
  <2> HIDE DEF S
  <2> QED BY <1>7, <1>8, EveryNumber
<1>10. g[n + 1] = Across(links, g[n])
  <2>1. n + 1 \in 0..n + 1 /\ n + 1 # 0 /\ (n + 1) - 1 = n OBVIOUS
  <2> QED BY <1>6, <2>1
<1> QED BY <1>1, <1>2, <1>3, <1>4, <1>9, <1>10

(* ------------------------- what validation meets is fetched ---------------------- *)
LEMMA FollowNothing ==
  ASSUME NEW ts, NEW ns
  PROVE  Follow(ts, ns, <<>>) = ns
<1>1. Len(<<>>) = 0 OBVIOUS
<1>2. PICK f : Reached(ts, ns, <<>>, 0, f) /\ Follow(ts, ns, <<>>) = f[0]
  BY <1>1, FollowReaches
<1> QED BY <1>2 DEF Reached

(* One more predicate is one more hop, and more triples and nodes reach no less.    *)
LEMMA FollowOn ==
  ASSUME NEW P, NEW q \in Seq(P), NEW p \in P, NEW ts, NEW ns,
         NEW x \in Follow(ts, ns, q), NEW y, Step(ts, x, p, y)
  PROVE  y \in Follow(ts, ns, Append(q, p))
<1> DEFINE n == Len(q)  v == Append(q, p)
<1>1. /\ n \in Nat /\ Len(v) = n + 1 /\ v[n + 1] = p
      /\ \A i \in 1..n : v[i] = q[i]
  BY LenProperties, AppendProperties
<1> HIDE DEF v
<1>2. PICK c : Chain(ts, ns, q, n, c) /\ c[n] = x BY <1>1, FollowedAreChained
<1> HIDE DEF n
<1> DEFINE d == [i \in 0..n + 1 |-> IF i = n + 1 THEN y ELSE c[i]]
<1>3. d[n + 1] = y /\ \A i \in 0..n : d[i] = c[i] BY <1>1
<1> HIDE DEF d
<1>4. d[0] \in ns BY <1>1, <1>2, <1>3 DEF Chain
<1>5. ASSUME NEW i \in 1..n + 1 PROVE Step(ts, d[i - 1], v[i], d[i])
  <2>1. CASE i = n + 1
    <3>1. i - 1 = n /\ n \in 0..n BY <1>1, <2>1
    <3> QED BY <1>1, <1>2, <1>3, <2>1, <3>1
  <2>2. CASE i # n + 1
    <3>1. i \in 1..n /\ i \in 0..n /\ i - 1 \in 0..n BY <1>1, <2>2
    <3> QED BY <1>1, <1>2, <1>3, <3>1 DEF Chain
  <2> QED BY <2>1, <2>2
<1>6. Chain(ts, ns, v, Len(v), d) BY <1>1, <1>4, <1>5 DEF Chain
<1>7. d[Len(v)] \in Follow(ts, ns, v) BY <1>1, <1>6, ChainedAreFollowed
<1> QED BY <1>1, <1>3, <1>7 DEF v

LEMMA FollowMore ==
  ASSUME NEW ts, NEW us, NEW ns, NEW ms, NEW q, Len(q) \in Nat,
         ts \subseteq us, ns \subseteq ms, NEW x \in Follow(ts, ns, q)
  PROVE  x \in Follow(us, ms, q)
<1>1. PICK c : Chain(ts, ns, q, Len(q), c) /\ c[Len(q)] = x BY FollowedAreChained
<1>2. \A i \in 1..Len(q) : Step(ts, c[i - 1], q[i], c[i]) BY <1>1 DEF Chain
<1>3. \A i \in 1..Len(q) : Step(us, c[i - 1], q[i], c[i]) BY <1>2 DEF Step
<1>4. Chain(us, ms, q, Len(q), c) BY <1>1, <1>3 DEF Chain
<1> QED BY <1>1, <1>4, ChainedAreFollowed

(* What is left of a walk behind one that it continues.                             *)
Rest(v, w) == SubSeq(Predicates(w), Len(v) + 1, Len(w))
Named(r) == {Entity} \union Objects(r.payload)

LEMMA PredicatesOf ==
  ASSUME Inv, NEW w \in Seq(edges)
  PROVE  /\ Predicates(w) \in Seq({e.pred : e \in edges}) /\ Len(Predicates(w)) = Len(w)
         /\ Len(w) \in Nat
         /\ \A i \in 1..Len(w) : Predicates(w)[i] = w[i].pred
<1> DEFINE n == Len(w)  P == {e.pred : e \in edges}  ps == Predicates(w)
<1>1. n \in Nat /\ DOMAIN w = 1..n /\ \A i \in 1..n : w[i] \in edges
  BY LenProperties, ElementOfSeq
<1>2. ps = [i \in 1..n |-> w[i].pred] BY <1>1 DEF Predicates
<1>3. ps \in [1..n -> P] BY <1>1, <1>2
<1>4. ps \in Seq(P) BY <1>1, <1>3, SeqDef
<1>5. Len(ps) = n BY <1>1, <1>3, <1>4, LenProperties
<1> QED BY <1>1, <1>2, <1>4, <1>5

LEMMA RestGrows ==
  ASSUME Inv, NEW v \in Seq(edges), NEW w \in Seq(edges), IsPrefix(v, w), NEW e \in edges
  PROVE  /\ IsPrefix(v, v) /\ Rest(v, v) = <<>>
         /\ IsPrefix(v, Append(w, e))
         /\ Rest(v, w) \in Seq({d.pred : d \in edges})
         /\ Rest(v, Append(w, e)) = Append(Rest(v, w), e.pred)
<1> DEFINE P == {d.pred : d \in edges}  u == Append(w, e)  m == Len(v)  n == Len(w)
           ps == Predicates(w)  qs == Predicates(u)
<1>1. /\ m \in Nat /\ n \in Nat /\ ps \in Seq(P) /\ Len(ps) = n
      /\ \A i \in 1..n : ps[i] = w[i].pred
  BY PredicatesOf
<1>2. u \in Seq(edges) /\ Len(u) = n + 1 /\ u[n + 1] = e /\ \A i \in 1..n : u[i] = w[i]
  BY AppendProperties
<1>3. qs \in Seq(P) /\ Len(qs) = n + 1 /\ \A i \in 1..n + 1 : qs[i] = u[i].pred
  BY <1>2, PredicatesOf
<1>4. m <= n /\ SubSeq(v, 1, m) = SubSeq(w, 1, m) BY DEF IsPrefix
<1> HIDE DEF m, n, u, ps, qs
<1>5. SubSeq(v, 1, m) = v /\ IsPrefix(v, v)
  BY <1>1 DEF m, IsPrefix
<1>6. SubSeq(u, 1, m) = SubSeq(w, 1, m)
  <2>1. \A i \in 1..m : i \in 1..n BY <1>1, <1>4
  <2>2. SubSeq(u, 1, m) = [i \in 1..m |-> u[i]] BY <1>1, <1>2, <1>4
  <2>3. SubSeq(w, 1, m) = [i \in 1..m |-> w[i]] BY <1>1, <1>2, <1>4
  <2> QED BY <1>2, <2>1, <2>2, <2>3
<1>7. IsPrefix(v, u) BY <1>1, <1>2, <1>4, <1>6 DEF IsPrefix, m
<1>8. Rest(v, v) = <<>>
  <2>1. Rest(v, v) = SubSeq(Predicates(v), m + 1, m) BY DEF Rest, m
  <2>2. Predicates(v) \in Seq(P) /\ Len(Predicates(v)) = m BY PredicatesOf DEF m
  <2> QED BY <1>1, <2>1, <2>2, SubSeqProperties
<1>9. Rest(v, w) \in Seq(P) /\ Rest(v, u) = Append(Rest(v, w), e.pred)
  <2>1. Rest(v, w) = SubSeq(ps, m + 1, n) /\ Rest(v, u) = SubSeq(qs, m + 1, n + 1)
    BY <1>2 DEF Rest, m, n, ps, qs
  <2>2. \A i \in 1..n : i \in 1..n + 1 /\ qs[i] = ps[i] BY <1>1, <1>2, <1>3
  <2>3. qs[n + 1] = e.pred /\ e.pred \in P
    <3>1. n + 1 \in 1..n + 1 BY <1>1
    <3> QED BY <1>2, <1>3, <3>1
  <2>4. qs = Append(ps, e.pred)
    <3>1. Append(ps, e.pred) \in Seq(P) /\ Len(Append(ps, e.pred)) = n + 1
          /\ Append(ps, e.pred)[n + 1] = e.pred
          /\ \A i \in 1..n : Append(ps, e.pred)[i] = ps[i]
      BY <1>1, <2>3, AppendProperties
    <3>2. \A i \in 1..n + 1 : i = n + 1 \/ i \in 1..n BY <1>1
    <3>3. \A i \in 1..n + 1 : qs[i] = Append(ps, e.pred)[i] BY <2>2, <2>3, <3>1, <3>2
    <3> QED BY <1>3, <3>1, <3>3, SeqEqual
  <2> DEFINE s == SubSeq(ps, m + 1, n)  t == SubSeq(qs, m + 1, n + 1)
  <2>5. /\ s = [i \in 1..n - m |-> ps[m + i]] /\ s \in Seq(P) /\ Len(s) = n - m
        /\ t = [i \in 1..n + 1 - m |-> qs[m + i]] /\ t \in Seq(P) /\ Len(t) = n + 1 - m
    <3>1. \A i \in m + 1..n : i \in 1..n BY <1>1
    <3>2. \A i \in m + 1..n + 1 : i \in 1..n + 1 BY <1>1
    <3>3. s = [i \in 1..n - m |-> ps[m + i]] BY <1>1, <1>4
    <3>4. t = [i \in 1..n + 1 - m |-> qs[m + i]] BY <1>1, <1>3, <1>4
    <3>5. \A i \in 1..n - m : ps[m + i] \in P
      <4>1. \A i \in 1..n - m : m + i \in 1..n BY <1>1, <1>4
      <4> QED BY <1>1, <4>1, ElementOfSeq
    <3>6. \A i \in 1..n + 1 - m : qs[m + i] \in P
      <4>1. \A i \in 1..n + 1 - m : m + i \in 1..n + 1 BY <1>1, <1>4
      <4> QED BY <1>3, <4>1, ElementOfSeq
    <3>7. n - m \in Nat /\ n + 1 - m \in Nat BY <1>1, <1>4
    <3> HIDE DEF s, t
    <3>8. s \in [1..n - m -> P] /\ t \in [1..n + 1 - m -> P] BY <3>3, <3>4, <3>5, <3>6
    <3>9. s \in Seq(P) /\ t \in Seq(P)
      <4> DEFINE i == n - m  j == n + 1 - m
      <4>1. i \in Nat /\ j \in Nat /\ s \in [1..i -> P] /\ t \in [1..j -> P] BY <3>7, <3>8
      <4> HIDE DEF i, j, P
      <4>2. s \in Seq(P) BY <4>1, SeqDef
      <4>3. t \in Seq(P) BY <4>1, SeqDef
      <4> QED BY <4>2, <4>3
    <3> QED BY <3>3, <3>4, <3>7, <3>8, <3>9, LenProperties
  <2> HIDE DEF s, t
  <2>6. /\ Append(s, e.pred) \in Seq(P) /\ Len(Append(s, e.pred)) = n - m + 1
        /\ Append(s, e.pred)[n - m + 1] = e.pred
        /\ \A i \in 1..n - m : Append(s, e.pred)[i] = s[i]
    <3>1. e.pred \in P /\ s \in Seq(P) /\ Len(s) = n - m BY <2>3, <2>5
    <3> HIDE DEF P
    <3>2. /\ Append(s, e.pred) \in Seq(P) /\ Len(Append(s, e.pred)) = Len(s) + 1
          /\ Append(s, e.pred)[Len(s) + 1] = e.pred
          /\ \A i \in 1..Len(s) : Append(s, e.pred)[i] = s[i]
      BY <3>1, AppendProperties
    <3> QED BY <3>1, <3>2
  <2>7. ASSUME NEW i \in 1..n + 1 - m PROVE t[i] = Append(s, e.pred)[i]
    <3>1. CASE i = n - m + 1
      <4>1. m + i = n + 1 BY <1>1, <3>1
      <4> QED BY <2>3, <2>5, <2>6, <3>1, <4>1
    <3>2. CASE i # n - m + 1
      <4>1. i \in 1..n - m /\ m + i \in 1..n BY <1>1, <1>4, <3>2
      <4> QED BY <2>2, <2>5, <2>6, <4>1
    <3> QED BY <3>1, <3>2
  <2>8. n - m + 1 = n + 1 - m BY <1>1
  <2>9. t = Append(s, e.pred)
    <3>1. t \in Seq(P) /\ Append(s, e.pred) \in Seq(P) BY <2>5, <2>6
    <3>2. Len(t) = Len(Append(s, e.pred)) BY <2>5, <2>6, <2>8
    <3>3. \A i \in 1..Len(t) : t[i] = Append(s, e.pred)[i] BY <2>5, <2>7
    <3> HIDE DEF P
    <3> QED BY <3>1, <3>2, <3>3, SeqEqual
  <2> QED BY <2>1, <2>5, <2>9 DEF s, t
<1> QED BY <1>5, <1>7, <1>8, <1>9 DEF P, u

(* Near a node that the payload names: stored triples lead on from it along what a  *)
(* walk adds to one that gets to the node's shape.                                  *)
Near(r, a, v, w, x) ==
  /\ a \in Named(r) /\ v \in results \union {<<>>} /\ StaysNear(r, a, v)
  /\ w \in results \union {<<>>} /\ IsPrefix(v, w) /\ End(w) = x[1]
  /\ x[2] \in Follow(Kept(r), {a}, Rest(v, w))

LEMMA NamedIsNear ==
  ASSUME Inv, NEW r, NoneComesBack(r), NEW n \in 0..MaxLinks, NEW x \in Met(r, n),
         x[2] \in Named(r)
  PROVE  \E a, v, w : Near(r, a, v, w, x)
<1>1. PICK v \in results \union {<<>>} : End(v) = x[1] /\ StaysNear(r, x[2], v)
  BY DEF NoneComesBack, Named
<1>2. v \in Seq(edges)
  <2>1. <<>> \in Seq(edges) BY EmptySeq
  <2> QED BY <1>1, <2>1 DEF Inv, FoundAreWalks
<1>3. IsPrefix(v, v) /\ Rest(v, v) = <<>>
  <2>1. Len(v) \in Nat /\ SubSeq(v, 1, Len(v)) = v BY <1>2, LenProperties
  <2>2. IsPrefix(v, v) BY <2>1 DEF IsPrefix
  <2> DEFINE P == {e.pred : e \in edges}
  <2>3. Predicates(v) \in Seq(P) /\ Len(Predicates(v)) = Len(v) BY <1>2, PredicatesOf
  <2>4. SubSeq(Predicates(v), Len(v) + 1, Len(v)) = <<>> BY <2>1, <2>3, SubSeqProperties
  <2> QED BY <2>2, <2>4 DEF Rest
<1>4. x[2] \in Follow(Kept(r), {x[2]}, Rest(v, v)) BY <1>3, FollowNothing
<1>5. Near(r, x[2], v, v, x) BY <1>1, <1>3, <1>4 DEF Near
<1> QED BY <1>5

(* Everything met is near a node that the payload names: a link that was sent ends  *)
(* at one, and a stored link goes on from a walk that has not come back.            *)
LEMMA MetIsNear ==
  ASSUME Inv, queue = <<>>, NEW r, NoneComesBack(r), NEW n \in 0..MaxLinks,
         NEW x \in Met(r, n)
  PROVE  \E a, v, w : Near(r, a, v, w, x)
<1> DEFINE S == {k \in Nat : k =< MaxLinks =>
                   \A y \in Met(r, k) : \E a, v, w : Near(r, a, v, w, y)}
<1>1. MaxLinks \in Nat BY MergeAssumption
<1>2. 0 \in S
  <2> SUFFICES ASSUME NEW y \in Met(r, 0) PROVE \E a, v, w : Near(r, a, v, w, y)
    OBVIOUS
  <2>1. y = <<root, Entity>> BY AwayByOne DEF Met
  <2>2. y[2] \in Named(r) /\ 0 \in 0..MaxLinks BY <1>1, <2>1 DEF Named
  <2> QED BY <2>2, NamedIsNear
<1>3. ASSUME NEW k \in Nat, k \in S PROVE k + 1 \in S
  <2> SUFFICES ASSUME k + 1 =< MaxLinks, NEW y \in Met(r, k + 1)
               PROVE  \E a, v, w : Near(r, a, v, w, y)
    OBVIOUS
  <2>1. k + 1 \in 0..MaxLinks /\ k =< MaxLinks BY <1>1
  <2>2. y \in Across(Judged(r), Met(r, k)) BY AwayByOne DEF Met
  <2>3. PICK l \in Judged(r) : l[1] \in Met(r, k) /\ y = l[2] BY <2>2 DEF Across
  <2>4. PICK e \in edges, t \in r.payload \union Kept(r) :
          /\ e.to \in Shapes /\ t[2] = e.pred
          /\ l = <<<<e.from, t[1]>>, <<e.to, t[3]>>>>
    <3>1. PICK d \in edges \X (r.payload \union Kept(r)) :
            /\ d[1].to \in Shapes /\ d[2][2] = d[1].pred
            /\ l = <<<<d[1].from, d[2][1]>>, <<d[1].to, d[2][3]>>>>
      BY <2>3 DEF Judged
    <3> QED BY <3>1
  <2>5. <<e.from, t[1]>> \in Met(r, k) /\ y = <<e.to, t[3]>> BY <2>3, <2>4
  <2>6. CASE t \in r.payload
    <3>1. y[2] \in Named(r) BY <2>5, <2>6 DEF Named, Objects
    <3> QED BY <2>1, <3>1, NamedIsNear
  <2>7. CASE t \in Kept(r)
    <3>1. PICK a, v, w : Near(r, a, v, w, <<e.from, t[1]>>) BY <1>3, <2>1, <2>5
    <3>2. /\ a \in Named(r) /\ v \in results \union {<<>>} /\ StaysNear(r, a, v)
          /\ w \in results \union {<<>>} /\ IsPrefix(v, w) /\ End(w) = e.from
          /\ t[1] \in Follow(Kept(r), {a}, Rest(v, w))
      BY <3>1 DEF Near
    <3>3. v \in Seq(edges) /\ w \in Seq(edges) /\ (w = <<>> \/ IsWalk(w))
      <4>1. <<>> \in Seq(edges) BY EmptySeq
      <4> QED BY <3>2, <4>1 DEF Inv, FoundAreWalks
    <3>4. e \in Onward(w) BY <2>4, <3>2 DEF Onward
    <3>5. Along(r, a, v, w) = Follow(Kept(r), {a}, Rest(v, w)) BY DEF Along, Rest
    <3>6. ~ComesBack(w) BY <2>4, <2>7, <3>2, <3>4, <3>5 DEF StaysNear
    <3>7. Extensible(w) BY <3>3, <3>6 DEF Extensible, NoReturn, ComesBack
    <3>8. Append(w, e) \in results
      <4>1. Range(queue) = {} BY DEF Range
      <4>2. Results(w) \subseteq results BY <3>2, <3>7, <4>1 DEF Inv, NoneIsForgotten
      <4> QED BY <3>4, <4>2 DEF Results
    <3>9. /\ IsPrefix(v, Append(w, e)) /\ Rest(v, w) \in Seq({d.pred : d \in edges})
          /\ Rest(v, Append(w, e)) = Append(Rest(v, w), e.pred)
      BY <3>2, <3>3, RestGrows
    <3>10. t[3] \in Follow(Kept(r), {a}, Append(Rest(v, w), e.pred))
      <4>1. Step(Kept(r), t[1], e.pred, t[3]) BY <2>4, <2>7 DEF Step
      <4>2. e.pred \in {d.pred : d \in edges} OBVIOUS
      <4> QED BY <3>2, <3>9, <4>1, <4>2, FollowOn
    <3>11. End(Append(w, e)) = e.to
      <4>1. Append(w, e) # <<>> /\ Len(Append(w, e)) = Len(w) + 1
            /\ Append(w, e)[Len(w) + 1] = e
        BY <3>3, AppendProperties
      <4> QED BY <4>1 DEF End, Last
    <3>12. Near(r, a, v, Append(w, e), y)
      BY <2>5, <3>2, <3>8, <3>9, <3>10, <3>11 DEF Near
    <3> QED BY <3>12
  <2> QED BY <2>4, <2>6, <2>7
<1>4. n \in S
  <2> HIDE DEF S
  <2> QED BY <1>1, <1>2, <1>3, EveryNumber
<1> QED BY <1>1, <1>4

LEMMA NearIsFetched ==
  ASSUME Inv, RequestInv, request # None, NEW a, NEW v, NEW w, NEW x,
         Near(request, a, v, w, x), NEW t \in request.store, t[1] = x[2],
         t[1] \notin Settled(request)
  PROVE  t \in request.fetched
<1> DEFINE r == request  seeds == Seeds(r.payload, r.create)  q == Rest(v, w)
           P == {e.pred : e \in edges}
<1>1. r.fetched = IF seeds = {} THEN {} ELSE Fetched(r.store, seeds) BY DEF RequestInv
<1>2. Named(r) \ Settled(r) \subseteq seeds BY DEF Named, Settled, Seeds
<1>3. /\ a \in Named(r) /\ v \in results \union {<<>>} /\ w \in results \union {<<>>}
      /\ IsPrefix(v, w) /\ x[2] \in Follow(Kept(r), {a}, q)
  BY DEF Near
<1>4. v \in Seq(edges) /\ w \in Seq(edges)
  <2>1. <<>> \in Seq(edges) BY EmptySeq
  <2> QED BY <1>3, <2>1 DEF Inv, FoundAreWalks
<1>5. Len(v) \in Nat /\ Len(w) \in Nat /\ Len(v) <= Len(w)
  BY <1>3, <1>4, LenProperties DEF IsPrefix
<1>6. /\ Predicates(w) \in Seq(P) /\ Len(Predicates(w)) = Len(w) BY <1>4, PredicatesOf
<1>7. CASE Len(v) = Len(w)
  <2>1. q = <<>> BY <1>5, <1>6, <1>7, SubSeqProperties DEF Rest
  <2>2. x[2] = a BY <1>3, <2>1, FollowNothing
  <2>3. t[1] \in seeds BY <1>2, <1>3, <2>2
  <2> QED BY <1>1, <2>3 DEF Fetched
<1>8. CASE Len(v) # Len(w)
  <2>1. Len(v) \in 0..Len(w) - 1 BY <1>5, <1>8
  <2>2. w \in results
    <3>1. w # <<>> BY <1>5, <1>8
    <3> QED BY <1>3, <3>1
  <2>3. q \in Tails /\ Len(q) = Len(w) - Len(v) /\ Len(q) \in Nat \ {0}
    <3>1. LET tail == SubSeq(Predicates(w), Len(v) + 1, Len(Predicates(w))) IN
          tail \in Tails /\ Len(tail) = Len(Predicates(w)) - Len(v)
      BY <1>6, <2>1, <2>2, WalkPredicates
    <3> QED BY <1>5, <1>6, <2>1, <3>1 DEF Rest
  <2> HIDE DEF q, seeds
  <2>4. PICK c : Chain(Kept(r), {a}, q, Len(q), c) BY <1>3, <2>3, FollowedAreChained
  <2>5. a \in seeds
    <3>1. 1 \in 1..Len(q) /\ 1 - 1 = 0 BY <2>3
    <3>2. c[0] = a BY <2>4 DEF Chain
    <3>3. \A i \in 1..Len(q) : Step(Kept(r), c[i - 1], q[i], c[i]) BY <2>4 DEF Chain
    <3>4. Step(Kept(r), a, q[1], c[1]) BY <3>1, <3>2, <3>3
    <3>5. a \notin Settled(r) BY <3>4 DEF Step, Kept
    <3> QED BY <1>2, <1>3, <3>5
  <2>6. Kept(r) \subseteq r.store /\ {a} \subseteq seeds BY <2>5 DEF Kept
  <2>7. x[2] \in Follow(r.store, seeds, q) BY <1>3, <2>3, <2>6, FollowMore
  <2>8. x[2] \in Terminals(r.store, seeds) BY <2>3, <2>7 DEF Terminals
  <2> QED BY <1>1, <2>5, <2>8 DEF Fetched
<1> QED BY <1>7, <1>8

(* Every stored node that validation meets, however far from the entity and through *)
(* however many shapes, was fetched with all its triples, for data that come back   *)
(* to no shape and go on from it: from the last node on the way that the payload    *)
(* names, stored triples follow the end of a walk, and the query has every end of   *)
(* every walk (_build_validation_construct, one block per path suffix).             *)
THEOREM MergesAreComplete == Spec => []MergeIsComplete
<1>1. Inv /\ RequestInv => MergeIsComplete
  <2> SUFFICES ASSUME Inv, RequestInv, request # None, NoneComesBack(request),
                      NEW n \in 0..MaxLinks, NEW x \in Met(request, n),
                      NEW t \in request.store, t[1] = x[2], t[1] \notin Settled(request)
               PROVE  t \in request.fetched
    BY DEF MergeIsComplete, NeededIsFetched
  <2>1. queue = <<>> BY DEF RequestInv
  <2>2. PICK a, v, w : Near(request, a, v, w, x) BY <2>1, MetIsNear
  <2> QED BY <2>2, NearIsFetched
<1>2. Init => RequestInv BY DEF Init, RequestInv
<1> QED BY <1>1, <1>2, InitInv, StepInv, RequestStep, PTL DEF Spec

(* Where no chain of stored links leads from the seeds back to the entity, and it    *)
(* alone links to its bridges, nothing that the query follows from the seeds of an  *)
(* update ends at the entity, so not at its bridges either.                         *)
LEMMA NoneLeadsBack ==
  ASSUME Inv, RequestInv, request # None, ~request.create, NoWayBack(request),
         Unshared(request), NEW t \in request.fetched
  PROVE  t[1] \notin Settled(request)
<1> DEFINE r == request  seeds == Seeds(r.payload, r.create)
<1>1. t \in r.store /\ t[1] \in seeds \union Terminals(r.store, seeds)
  BY DEF RequestInv, Fetched
<1>2. seeds \intersect (Described(r.payload) \union {Entity}) = {}
  <2>1. Entity \notin seeds
    <3>1. Cardinality(Shapes) \in Nat BY PlanIsFinite DEF Inv
    <3>2. 0 \in 0..Cardinality(Shapes) BY <3>1
    <3> QED BY <3>2, AwayByOne DEF NoWayBack
  <2> QED BY <2>1 DEF Seeds
<1>3. Settled(r) = Described(r.payload) \union {Entity} BY DEF Settled
<1>4. CASE t[1] \in seeds BY <1>2, <1>3, <1>4
<1>5. CASE t[1] \in Terminals(r.store, seeds)
  <2>1. PICK w \in results : \E s \in Suffixes(Predicates(w)) :
                               t[1] \in Follow(r.store, seeds, s)
    BY <1>5 DEF Terminals, Tails
  <2>2. PICK s \in Suffixes(Predicates(w)) : t[1] \in Follow(r.store, seeds, s) BY <2>1
  <2> DEFINE k == Len(s)
  <2>3. /\ k \in Nat /\ \A i \in 1..k : \E e \in edges : s[i] = e.pred
        /\ k <= Len(Predicates(w))
    <3> DEFINE ps == Predicates(w)  n == Len(ps)
    <3>1. /\ n \in Nat \ {0} /\ \A i \in 1..n : \E e \in edges : ps[i] = e.pred
          /\ \A j \in 0..n - 1 :
               /\ Len(SubSeq(ps, j + 1, n)) = n - j
               /\ \A i \in 1..Len(SubSeq(ps, j + 1, n)) : SubSeq(ps, j + 1, n)[i] = ps[j + i]
      BY WalkPredicates
    <3>2. CASE s = <<>> BY <3>1, <3>2
    <3>3. ASSUME NEW l \in 1..n, s = SubSeq(ps, l, n)
          PROVE  /\ k \in Nat /\ \A i \in 1..k : \E e \in edges : s[i] = e.pred
                 /\ k <= n
      <4>1. l - 1 \in 0..n - 1 /\ (l - 1) + 1 = l /\ n - (l - 1) \in Nat BY <3>1
      <4>2. k = n - (l - 1) /\ \A i \in 1..k : s[i] = ps[(l - 1) + i] BY <3>1, <3>3, <4>1
      <4>3. k <= n /\ \A i \in 1..k : (l - 1) + i \in 1..n BY <3>1, <4>1, <4>2
      <4> HIDE DEF k, ps, n
      <4>4. ASSUME NEW i \in 1..k PROVE \E e \in edges : s[i] = e.pred
        <5>1. s[i] = ps[(l - 1) + i] /\ (l - 1) + i \in 1..n BY <4>2, <4>3
        <5> QED BY <3>1, <5>1
      <4> QED BY <4>1, <4>2, <4>3, <4>4
    <3> QED BY <3>2, <3>3 DEF Suffixes
  <2>8. k <= Cardinality(Shapes) /\ Cardinality(Shapes) \in Nat
    <3> DEFINE n == Len(w)
    <3>1. w \in Seq(edges) /\ w # <<>> /\ IsWalk(w) BY DEF Inv, FoundAreWalks
    <3>2. w \in AllWalks /\ Cardinality(Shapes) \in Nat
      BY <3>1, WalksAreShort, PlanIsFinite DEF Inv
    <3>3. n \in Nat /\ Len(Predicates(w)) = n BY <3>1, PredicatesOf
    <3>4. PICK m \in 1..Cardinality(Shapes) : w \in [1..m -> edges] BY <3>2 DEF AllWalks
    <3>5. n = m BY <3>1, <3>4, <3>2, LenProperties
    <3>6. k <= n BY <2>3, <3>3
    <3> QED BY <2>3, <3>2, <3>4, <3>5, <3>6
  <2>4. PICK c : Chain(r.store, seeds, s, k, c) /\ c[k] = t[1] BY <2>2, <2>3, FollowedAreChained
  <2> HIDE DEF k
  <2>5. \A i \in 0..k : c[i] # Entity
    <3> DEFINE links == StoredLinks(r)
               S == {i \in Nat : i =< k => c[i] \in Away(links, seeds, i)}
    <3>1. 0 \in S BY <2>4, AwayByOne DEF Chain
    <3>2. ASSUME NEW i \in Nat, i \in S PROVE i + 1 \in S
      <4> SUFFICES ASSUME i + 1 =< k PROVE c[i + 1] \in Away(links, seeds, i + 1)
        OBVIOUS
      <4>1. i + 1 \in 1..k /\ (i + 1) - 1 = i /\ i =< k BY <2>3
      <4>2. Step(r.store, c[i], s[i + 1], c[i + 1]) BY <2>4, <4>1 DEF Chain
      <4>3. <<c[i], c[i + 1]>> \in links
        <5>1. PICK u \in r.store : u[1] = c[i] /\ u[2] = s[i + 1] /\ u[3] = c[i + 1]
          BY <4>2 DEF Step
        <5>2. \E e \in edges : u[2] = e.pred BY <2>3, <4>1, <5>1
        <5> QED BY <5>1, <5>2 DEF StoredLinks
      <4>4. c[i] \in Away(links, seeds, i) BY <3>2, <4>1
      <4>5. c[i + 1] \in Across(links, Away(links, seeds, i)) BY <4>3, <4>4 DEF Across
      <4> QED BY <4>5, AwayByOne
    <3>3. \A i \in Nat : i \in S
      <4> HIDE DEF S
      <4> QED BY <3>1, <3>2, EveryNumber
    <3>4. k <= Cardinality(Shapes) /\ Cardinality(Shapes) \in Nat BY <2>8
    <3> SUFFICES ASSUME NEW i \in 0..k PROVE c[i] # Entity
      OBVIOUS
    <3>5. i \in Nat /\ i =< k /\ i \in 0..Cardinality(Shapes) BY <2>3, <3>4
    <3>6. c[i] \in Away(links, seeds, i) BY <3>3, <3>5
    <3> QED BY <3>5, <3>6 DEF NoWayBack
  <2>6. k \in 0..k BY <2>3
  <2>7. t[1] \notin Described(r.payload)
    <3> SUFFICES ASSUME c[k] \in Described(r.payload) PROVE FALSE
      BY <2>4
    <3>1. CASE k = 0 BY <1>2, <2>4, <3>1 DEF Chain
    <3>2. CASE k # 0
      <4>1. k \in 1..k /\ k - 1 \in 0..k BY <2>3, <3>2
      <4>2. PICK u \in r.store : u[1] = c[k - 1] /\ u[3] = c[k] BY <2>4, <4>1 DEF Chain, Step
      <4> QED BY <2>5, <4>1, <4>2 DEF Unshared
    <3> QED BY <3>1, <3>2
  <2> QED BY <1>3, <2>4, <2>5, <2>6, <2>7
<1> QED BY <1>1, <1>4, <1>5

(* An update of an entity is not judged by the triples it is about to replace:      *)
(* nothing stored about the entity, or about a bridge the payload describes, is in  *)
(* the merge (data.py, include_root_entity and bridge_predicates).                  *)
THEOREM IntentIsKept == Spec => []IntentKept
<1>1. Inv /\ RequestInv => IntentKept BY NoneLeadsBack DEF IntentKept
<1>2. Init => RequestInv BY DEF Init, RequestInv
<1> QED BY <1>1, <1>2, InitInv, StepInv, RequestStep, PTL DEF Spec
================================================================================
