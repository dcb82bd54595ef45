----------------------------- MODULE ExplorerProofs -----------------------------
(* The explorer's map under answers that fail or come late, for every graph, every *)
(* limit on neighbours and any number of edits.                                    *)
EXTENDS ExplorerView, FiniteSetTheorems, WellFoundedInduction, TLAPS

(* ----------------------- operators on answers and requests ----------------------- *)
LEMMA RowFinite == IsFiniteSet(Row)
BY FS_Product, GraphNodeAssumption DEF Row

LEMMA CappedIsPart == \A ws : Capped(ws) \subseteq ws
BY DEF Capped, Rows, First

(* An answer's links are named from the schema; those of an answer made now are in *)
(* the store.                                                                      *)
Known(n, d) == AnswerLinks(n, d) \subseteq Links
ReadKnown(n, r) == \A w \in r.out : <<n, w[1], w[2]>> \in Links

LEMMA RequestTypes ==
  ASSUME NEW n \in Nodes, NEW expand \in BOOLEAN, links \subseteq Links
  PROVE  /\ Request0(n, expand) \in Requests /\ ReadKnown(n, Request0(n, expand))
         /\ Request0(n, expand).expand = expand
BY DEF Request0, Requests, ReadKnown

LEMMA RequestUpdates ==
  ASSUME NEW n \in Nodes, NEW r \in Requests, ReadKnown(n, r), GraphTypeOK
  PROVE  /\ ReadOut(n, r) \in Requests /\ ReadKnown(n, ReadOut(n, r))
         /\ ReadOut(n, r).expand = r.expand
         /\ [r EXCEPT !.expand = TRUE] \in Requests /\ ReadKnown(n, [r EXCEPT !.expand = TRUE])
         /\ [r EXCEPT !.expand = TRUE].expand
         /\ \A ls : /\ Still(r, ls) \in Requests /\ ReadKnown(n, Still(r, ls))
                    /\ Still(r, ls).expand = r.expand
<1> DEFINE ws == Out(n, parsed)
<1>1. Capped(ws) \subseteq ws /\ ws \subseteq Row BY CappedIsPart DEF Out
<1>2. \A w \in ws : <<n, w[1], w[2]>> \in Links BY DEF Out, GraphTypeOK
<1>3. Truncated(ws) \in BOOLEAN BY DEF Truncated
<1>4. ReadOut(n, r) \in Requests BY <1>1, <1>3 DEF ReadOut, Requests, GraphTypeOK
<1>5. ReadOut(n, r).out = Capped(ws) /\ ReadOut(n, r).expand = r.expand
  BY DEF ReadOut, Requests
<1> HIDE DEF ws
<1>6. ReadKnown(n, ReadOut(n, r)) BY <1>1, <1>2, <1>5 DEF ReadKnown
<1>7. /\ [r EXCEPT !.expand = TRUE] \in Requests
      /\ [r EXCEPT !.expand = TRUE].out = r.out /\ [r EXCEPT !.expand = TRUE].expand
  BY DEF Requests
<1>8. ReadKnown(n, [r EXCEPT !.expand = TRUE]) BY <1>7 DEF ReadKnown
<1>9. ASSUME NEW ls
      PROVE  /\ Still(r, ls) \in Requests /\ ReadKnown(n, Still(r, ls))
             /\ Still(r, ls).expand = r.expand
  <2>1. r # None BY NoneAssumption
  <2>2. Still(r, ls) = [r EXCEPT !.stable = @ \intersect ls] BY <2>1 DEF Still
  <2>3. /\ [r EXCEPT !.stable = @ \intersect ls] \in Requests
        /\ [r EXCEPT !.stable = @ \intersect ls].out = r.out
        /\ [r EXCEPT !.stable = @ \intersect ls].expand = r.expand
    BY DEF Requests
  <2> QED BY <2>2, <2>3 DEF ReadKnown
<1> QED BY <1>4, <1>5, <1>6, <1>7, <1>8, <1>9

LEMMA AnswerKnown ==
  ASSUME NEW n \in Nodes, NEW r \in Requests, ReadKnown(n, r), links \subseteq Links
  PROVE  Answer(n, r) \in Data /\ Known(n, Answer(n, r))
<1> DEFINE ws == In(n, r.preds)
<1>1. Capped(ws) \subseteq ws /\ ws \subseteq Row BY CappedIsPart DEF In
<1>2. \A w \in ws : <<w[2], w[1], n>> \in Links BY DEF In
<1>3. Truncated(ws) \in BOOLEAN BY DEF Truncated
<1>4. r.out \subseteq Row /\ r.more \in BOOLEAN BY DEF Requests
<1>5. Answer(n, r) = [out |-> r.out, in |-> Capped(ws), truncated |-> r.more \/ Truncated(ws)]
  BY DEF Answer
<1>6. Answer(n, r) \in Data BY <1>1, <1>3, <1>4, <1>5 DEF Data
<1>7. Known(n, Answer(n, r)) BY <1>1, <1>2, <1>5 DEF Known, AnswerLinks, ReadKnown
<1> QED BY <1>6, <1>7

LEMMA CountIsNat ==
  ASSUME NEW d \in Data
  PROVE  Cardinality(d.out) + Cardinality(d.in) \in Nat /\ d.truncated \in BOOLEAN
<1>1. d.out \subseteq Row /\ d.in \subseteq Row /\ d.truncated \in BOOLEAN BY DEF Data
<1>2. IsFiniteSet(d.out) /\ IsFiniteSet(d.in) BY <1>1, RowFinite, FS_Subset
<1>3. Cardinality(d.out) \in Nat /\ Cardinality(d.in) \in Nat BY <1>2, FS_CardinalityType
<1> QED BY <1>1, <1>3

LEMMA ModelIsNotAbsent == Absent \notin NodeModel /\ Stub \in NodeModel /\ Stub.loading = FALSE
BY NoneAssumption DEF NodeModel, Stub, Unknown

(* -------------------- the parts of the invariant, of any value -------------------- *)
MapOf(m, e) == /\ m \in [Nodes -> NodeModel \union {Absent}] /\ e \subseteq Links
               /\ \A l \in e : m[l[1]] # Absent /\ m[l[3]] # Absent
CacheOf(c) == /\ c \in [Nodes -> Data \union {None}]
              /\ \A n \in Nodes : c[n] # None => Known(n, c[n])
ReadsOf(i) == /\ i \in [Nodes -> Requests \union {None}]
              /\ \A n \in Nodes : i[n] # None => ReadKnown(n, i[n])
Awaits(r) == IF r = None THEN FALSE ELSE r.expand
Loads(m, n) == IF m[n] = Absent THEN FALSE ELSE m[n].loading
Awaited(m, i, s) == \A n \in Nodes : Loads(m, n) => Awaits(i[n]) \/ Awaits(s[n])
(* Nothing leaves the map and nothing on it is collapsed. *)
Keeps(m, k) == \A n \in Nodes : m[n] # Absent =>
                 k[n] # Absent /\ (IsExpanded(m, n) => IsExpanded(k, n))
(* What loads afterwards is as it was. *)
LoadsFew(m, k) == \A n \in Nodes : Loads(k, n) => k[n] = m[n]

LEMMA LinkEnds ==
  \A l \in Links : l[1] \in Nodes /\ l[3] \in Nodes /\ l = <<l[1], l[2], l[3]>>
BY GraphNodeAssumption

LEMMA SentKeeps ==
  ASSUME NEW i, ReadsOf(i), NEW ns, NEW expand \in BOOLEAN, links \subseteq Links
  PROVE  /\ ReadsOf(Sent(i, ns, expand))
         /\ \A n \in Nodes : Sent(i, ns, expand)[n] = IF n \in ns THEN Request0(n, expand) ELSE i[n]
BY RequestTypes DEF Sent, ReadsOf

LEMMA PrefetchedKeeps ==
  ASSUME NEW m, NEW e, MapOf(m, e), NEW c, CacheOf(c), NEW ns
  PROVE  /\ MapOf(Prefetched(m, ns, c), e)
         /\ Keeps(m, Prefetched(m, ns, c)) /\ LoadsFew(m, Prefetched(m, ns, c))
<1> DEFINE k == Prefetched(m, ns, c)
<1>1. ASSUME NEW n \in Nodes
      PROVE  \/ k[n] = m[n]
             \/ /\ k[n] \in NodeModel /\ ~k[n].loading
                /\ k[n].expanded = IsExpanded(m, n)
  <2>1. CASE n \in ns /\ c[n] # None
    <3>1. c[n] \in Data BY <2>1 DEF CacheOf
    <3>2. k[n] = Hydrated(m, n, c[n], FALSE) BY <2>1 DEF Prefetched
    <3>3. IsExpanded(m, n) \in BOOLEAN BY DEF IsExpanded, NodeModel, MapOf
    <3>4. k[n] = [expanded |-> IsExpanded(m, n), loading |-> FALSE,
                  count |-> Cardinality(c[n].out) + Cardinality(c[n].in),
                  truncated |-> c[n].truncated]
      BY <3>2, <3>3 DEF Hydrated
    <3> HIDE DEF k
    <3> QED BY <3>1, <3>3, <3>4, CountIsNat DEF NodeModel
  <2>2. CASE ~(n \in ns /\ c[n] # None) BY <2>2 DEF Prefetched
  <2> QED BY <2>1, <2>2
<1>2. k = [n \in Nodes |-> k[n]] BY DEF Prefetched
<1> HIDE DEF k
<1>3. MapOf(k, e) BY <1>1, <1>2, LinkEnds, ModelIsNotAbsent DEF MapOf
<1>4. Keeps(m, k) BY <1>1, ModelIsNotAbsent DEF Keeps, IsExpanded
<1>5. LoadsFew(m, k) BY <1>1 DEF LoadsFew, Loads
<1> QED BY <1>3, <1>4, <1>5 DEF k

LEMMA RingKeeps ==
  ASSUME NEW m, NEW e, MapOf(m, e), NEW n \in Nodes, NEW d \in Data, Known(n, d),
         NEW expand \in BOOLEAN
  PROVE  /\ MapOf(Ring(m, n, d, expand), IF expand THEN e \union AnswerLinks(n, d) ELSE e)
         /\ Keeps(m, Ring(m, n, d, expand)) /\ LoadsFew(m, Ring(m, n, d, expand))
         /\ ~Loads(Ring(m, n, d, expand), n)
<1> DEFINE k == Ring(m, n, d, expand)
<1>1. k[n] \in NodeModel /\ ~k[n].loading /\ k[n].expanded = (expand \/ IsExpanded(m, n))
  <2>1. k[n] = Hydrated(m, n, d, expand) BY DEF Ring
  <2>2. IsExpanded(m, n) \in BOOLEAN BY DEF IsExpanded, NodeModel, MapOf
  <2>3. k[n] = [expanded |-> expand \/ IsExpanded(m, n), loading |-> FALSE,
                count |-> Cardinality(d.out) + Cardinality(d.in), truncated |-> d.truncated]
    BY <2>1 DEF Hydrated
  <2> HIDE DEF k
  <2> QED BY <2>2, <2>3, CountIsNat DEF NodeModel
<1>2. ASSUME NEW x \in Nodes \ {n}
      PROVE  k[x] = m[x] \/ (m[x] = Absent /\ k[x] = Stub)
  BY DEF Ring
<1>3. ASSUME expand, NEW x \in Neighbours(d), x \in Nodes PROVE k[x] # Absent
  <2>1. CASE x = n BY <1>1, <2>1, ModelIsNotAbsent
  <2>2. CASE x # n
    <3>1. k[x] = IF m[x] = Absent THEN Stub ELSE m[x] BY <1>3, <2>2 DEF Ring
    <3> QED BY <3>1, ModelIsNotAbsent
  <2> QED BY <2>1, <2>2
<1>4. k = [x \in Nodes |-> k[x]] BY DEF Ring
<1> HIDE DEF k
<1>5. k \in [Nodes -> NodeModel \union {Absent}]
  <2>1. \A x \in Nodes : k[x] \in NodeModel \union {Absent}
    BY <1>1, <1>2, ModelIsNotAbsent DEF MapOf
  <2> QED BY <1>4, <2>1
<1>6. \A x \in Nodes : m[x] # Absent => k[x] # Absent BY <1>1, <1>2, ModelIsNotAbsent
<1>7. \A l \in e : k[l[1]] # Absent /\ k[l[3]] # Absent BY <1>6, LinkEnds DEF MapOf
<1>8. ASSUME expand PROVE \A l \in AnswerLinks(n, d) : k[l[1]] # Absent /\ k[l[3]] # Absent
  <2>1. \A l \in AnswerLinks(n, d) : l[1] \in {n} \union Neighbours(d) /\ l[3] \in {n} \union Neighbours(d)
    BY DEF AnswerLinks, Neighbours
  <2>2. AnswerLinks(n, d) \subseteq Links BY DEF Known
  <2> QED BY <1>1, <1>3, <1>8, <2>1, <2>2, LinkEnds, ModelIsNotAbsent
<1>9. MapOf(k, IF expand THEN e \union AnswerLinks(n, d) ELSE e)
  <2>1. CASE expand BY <1>5, <1>7, <1>8, <2>1 DEF MapOf, Known
  <2>2. CASE ~expand BY <1>5, <1>7, <2>2 DEF MapOf
  <2> QED BY <2>1, <2>2
<1>10. Keeps(m, k)
  <2>1. ASSUME NEW x \in Nodes, IsExpanded(m, x) PROVE IsExpanded(k, x)
    BY <1>1, <1>2, <1>6, <2>1 DEF IsExpanded
  <2> QED BY <1>6, <2>1 DEF Keeps
<1>11. LoadsFew(m, k) BY <1>1, <1>2, ModelIsNotAbsent DEF LoadsFew, Loads
<1>12. ~Loads(k, n) BY <1>1 DEF Loads
<1> QED BY <1>9, <1>10, <1>11, <1>12 DEF k

(* ------------------------------- the invariant ------------------------------- *)
AppInv == /\ MapOf(nodes, edges) /\ CacheOf(cache) /\ ReadsOf(inflight) /\ ReadsOf(strays)
          /\ Awaited(nodes, inflight, strays)
Inv == /\ GraphTypeOK /\ page \in {"starting", "ready", "failed"} /\ AppInv
NoneCollapses == \A n \in Nodes : IsExpanded(nodes, n) /\ nodes'[n] # Absent => IsExpanded(nodes', n)

(* A step adds to the map or takes from it, never both: neither the nodes nor    *)
(* the edges change without their number.                                         *)
OneWay == \/ /\ \A n \in Nodes : nodes[n] # Absent => nodes'[n] # Absent
             /\ edges \subseteq edges'
          \/ /\ \A n \in Nodes : nodes'[n] # Absent => nodes[n] # Absent
             /\ edges' \subseteq edges

LEMMA ChainKeeps ==
  ASSUME NEW m, NEW k, NEW h, Keeps(m, k), Keeps(k, h), LoadsFew(m, k), LoadsFew(k, h)
  PROVE  Keeps(m, h) /\ LoadsFew(m, h)
<1>1. Keeps(m, h) BY DEF Keeps
<1>2. LoadsFew(m, h) BY DEF LoadsFew, Loads
<1> QED BY <1>1, <1>2

LEMMA KeepsIsEnough ==
  Keeps(nodes, nodes') => NoneCollapses /\ (edges \subseteq edges' => OneWay)
BY DEF Keeps, NoneCollapses, OneWay, IsExpanded

(* An answer, whoever waits for it: c and i are the cache and the requests by then. *)
LEMMA DeliverKeeps ==
  ASSUME NEW n \in Nodes, NEW d \in Data, Known(n, d), NEW expand \in BOOLEAN,
         NEW c, CacheOf(c), NEW i, ReadsOf(i), MapOf(nodes, edges), links \subseteq Links,
         ReadsOf(strays'),
         \A x \in Nodes \ {n} : Loads(nodes, x) => Awaits(i[x]) \/ Awaits(strays'[x]),
         Deliver(n, d, expand, c, i)
  PROVE  AppInv' /\ NoneCollapses /\ OneWay
<1> DEFINE R == Ring(nodes, n, d, expand)
<1>1. /\ MapOf(R, IF expand THEN edges \union AnswerLinks(n, d) ELSE edges)
      /\ Keeps(nodes, R) /\ LoadsFew(nodes, R) /\ ~Loads(R, n)
  BY RingKeeps
<1>2. CacheOf(cache') BY DEF Deliver
<1>3. CASE expand
  <2>1. /\ nodes' = Prefetched(R, Neighbours(d), c) /\ edges' = edges \union AnswerLinks(n, d)
        /\ inflight' = Sent(i, ToFetch(Neighbours(d), c, i), FALSE)
    BY <1>3 DEF Deliver
  <2> HIDE DEF R
  <2>2. MapOf(R, edges') BY <1>1, <1>3, <2>1
  <2>3. MapOf(nodes', edges') /\ Keeps(R, nodes') /\ LoadsFew(R, nodes')
    BY <2>1, <2>2, PrefetchedKeeps
  <2>4. Keeps(nodes, nodes') /\ LoadsFew(nodes, nodes') BY <1>1, <2>3, ChainKeeps
  <2>5. ReadsOf(inflight') BY <2>1, SentKeeps
  <2>6. ASSUME NEW x \in Nodes, Loads(nodes', x)
        PROVE  Awaits(inflight'[x]) \/ Awaits(strays'[x])
    <3>1. nodes'[x] = R[x] /\ nodes'[x] = nodes[x] BY <2>3, <2>4, <2>6 DEF LoadsFew
    <3>2. Loads(R, x) /\ Loads(nodes, x) BY <2>6, <3>1 DEF Loads
    <3>3. x # n BY <1>1, <3>2
    <3>4. ASSUME Awaits(i[x]) PROVE inflight'[x] = i[x]
      <4>1. x \notin ToFetch(Neighbours(d), c, i) BY <3>4 DEF Awaits, ToFetch
      <4> HIDE DEF Deliver
      <4>2. \A ns : x \notin ns => Sent(i, ns, FALSE)[x] = i[x] BY DEF Sent
      <4> QED BY <2>1, <4>1, <4>2
    <3> QED BY <3>2, <3>3, <3>4
  <2>7. NoneCollapses /\ OneWay BY <2>1, <2>4, KeepsIsEnough
  <2> QED BY <1>2, <2>3, <2>5, <2>6, <2>7 DEF AppInv, Awaited
<1>4. CASE ~expand
  <2>1. nodes' = R /\ edges' = edges /\ inflight' = i BY <1>4 DEF Deliver
  <2> HIDE DEF R
  <2>2. MapOf(nodes', edges') BY <1>1, <1>4, <2>1
  <2>3. ASSUME NEW x \in Nodes, Loads(nodes', x)
        PROVE  Awaits(inflight'[x]) \/ Awaits(strays'[x])
    <3>1. x # n /\ nodes'[x] = nodes[x] BY <1>1, <2>1, <2>3 DEF LoadsFew
    <3>2. Loads(nodes, x) BY <2>3, <3>1 DEF Loads
    <3> QED BY <2>1, <3>1, <3>2
  <2> QED BY <1>1, <1>2, <2>1, <2>2, <2>3, KeepsIsEnough DEF AppInv, Awaited
<1> QED BY <1>3, <1>4

(* expandNode, from the search, a deep link or a button. *)
LEMMA ExpandNodeKeeps ==
  ASSUME Inv, NEW n \in Nodes, ExpandNode(n), strays' = strays
  PROVE  AppInv' /\ NoneCollapses /\ OneWay
<1>1. links \subseteq Links BY DEF Inv, GraphTypeOK
<1>2. CASE cache[n] # None
  <2>1. cache[n] \in Data /\ Known(n, cache[n]) BY <1>2 DEF Inv, AppInv, CacheOf
  <2>2. Deliver(n, cache[n], TRUE, cache, inflight) BY <1>2 DEF ExpandNode
  <2> QED BY <1>1, <2>1, <2>2, DeliverKeeps DEF Inv, AppInv, Awaited
<1>3. CASE cache[n] = None
  <2>1. nodes' = (IF nodes[n] = Absent \/ IsExpanded(nodes, n) THEN nodes
                  ELSE [nodes EXCEPT ![n].loading = TRUE])
        /\ edges' = edges /\ cache' = cache
    BY <1>3 DEF ExpandNode
  <2>2. inflight' = (IF inflight[n] # None THEN [inflight EXCEPT ![n].expand = TRUE]
                     ELSE [inflight EXCEPT ![n] = Request0(n, TRUE)])
    BY <1>3 DEF ExpandNode
  <2>3. ReadsOf(inflight') /\ Awaits(inflight'[n]) /\ \A x \in Nodes \ {n} : inflight'[x] = inflight[x]
    <3>1. CASE inflight[n] # None
      <4>1. inflight' = [inflight EXCEPT ![n] = [inflight[n] EXCEPT !.expand = TRUE]]
        BY <2>2, <3>1
      <4>2. inflight[n] \in Requests /\ ReadKnown(n, inflight[n]) BY <3>1 DEF Inv, AppInv, ReadsOf
      <4> DEFINE q == [inflight[n] EXCEPT !.expand = TRUE]
      <4>3. q \in Requests /\ ReadKnown(n, q) /\ q.expand BY <4>2, RequestUpdates DEF Inv
      <4> HIDE DEF q
      <4>4. inflight' = [inflight EXCEPT ![n] = q] BY <4>1 DEF q
      <4> QED BY <4>3, <4>4, NoneAssumption DEF Inv, AppInv, ReadsOf, Awaits
    <3>2. CASE inflight[n] = None
      <4> DEFINE q == Request0(n, TRUE)
      <4>1. q \in Requests /\ ReadKnown(n, q) /\ q.expand BY <1>1, RequestTypes
      <4>2. inflight' = [inflight EXCEPT ![n] = q] BY <2>2, <3>2
      <4> HIDE DEF q
      <4> QED BY <4>1, <4>2, NoneAssumption DEF Inv, AppInv, ReadsOf, Awaits
    <3> QED BY <3>1, <3>2
  <2>4. /\ MapOf(nodes', edges') /\ Keeps(nodes, nodes')
        /\ \A x \in Nodes \ {n} : nodes'[x] = nodes[x]
    <3>1. CASE nodes' = nodes BY <2>1, <3>1 DEF Inv, AppInv, Keeps
    <3>2. CASE nodes[n] # Absent /\ nodes' = [nodes EXCEPT ![n].loading = TRUE]
      <4>1. nodes[n] \in NodeModel BY <3>2 DEF Inv, AppInv, MapOf
      <4> DEFINE q == [nodes[n] EXCEPT !.loading = TRUE]
      <4>2. q \in NodeModel /\ q.expanded = nodes[n].expanded BY <4>1 DEF NodeModel
      <4>3. nodes' = [nodes EXCEPT ![n] = q] BY <3>2
      <4> HIDE DEF q
      <4> QED BY <2>1, <3>2, <4>2, <4>3, LinkEnds, ModelIsNotAbsent
           DEF Inv, AppInv, MapOf, Keeps, IsExpanded
    <3> QED BY <2>1, <3>1, <3>2
  <2>5. Awaited(nodes', inflight', strays')
    BY <2>3, <2>4 DEF Inv, AppInv, Awaited, Loads
  <2> QED BY <2>1, <2>3, <2>4, <2>5, KeepsIsEnough DEF Inv, AppInv
<1> QED BY <1>2, <1>3

(* A node found in the search. *)
LEMMA SeedNodeKeeps ==
  ASSUME Inv, NEW n \in Nodes, SeedNode(n)
  PROVE  AppInv' /\ NoneCollapses /\ OneWay
<1> DEFINE seeded == IF nodes[n] = Absent THEN [nodes EXCEPT ![n] = Stub] ELSE nodes
           ns == ToFetch({n}, cache, inflight)
<1>1. /\ nodes' = Prefetched(seeded, {n}, cache) /\ inflight' = Sent(inflight, ns, FALSE)
      /\ edges' = edges /\ cache' = cache /\ strays' = strays
  BY DEF SeedNode
<1>2. MapOf(nodes, edges) /\ CacheOf(cache) /\ ReadsOf(inflight) /\ ReadsOf(strays)
      /\ Awaited(nodes, inflight, strays) /\ links \subseteq Links
  BY DEF Inv, AppInv, GraphTypeOK
<1>3. \A x \in Nodes : seeded[x] = nodes[x] \/ (nodes[x] = Absent /\ seeded[x] = Stub)
  BY <1>2 DEF MapOf
<1>4. seeded \in [Nodes -> NodeModel \union {Absent}] BY <1>2, ModelIsNotAbsent DEF MapOf
<1> HIDE DEF seeded
<1>5. MapOf(seeded, edges) BY <1>2, <1>3, <1>4, LinkEnds, ModelIsNotAbsent DEF MapOf
<1>6. Keeps(nodes, seeded) BY <1>3 DEF Keeps, IsExpanded
<1>7. LoadsFew(nodes, seeded) BY <1>3, ModelIsNotAbsent DEF LoadsFew, Loads
<1>8. MapOf(nodes', edges') /\ Keeps(seeded, nodes') /\ LoadsFew(seeded, nodes')
  BY <1>1, <1>2, <1>5, PrefetchedKeeps
<1>9. Keeps(nodes, nodes') /\ LoadsFew(nodes, nodes') BY <1>6, <1>7, <1>8, ChainKeeps
<1>10. ReadsOf(inflight') BY <1>1, <1>2, SentKeeps
<1>11. ASSUME NEW x \in Nodes, Loads(nodes', x)
       PROVE  Awaits(inflight'[x]) \/ Awaits(strays'[x])
  <2>1. Loads(nodes, x) BY <1>9, <1>11 DEF LoadsFew, Loads
  <2>2. ASSUME Awaits(inflight[x]) PROVE inflight'[x] = inflight[x]
    <3>1. x \notin ns BY <2>2 DEF Awaits, ToFetch
    <3> HIDE DEF ns
    <3> QED BY <1>1, <3>1 DEF Sent
  <2> QED BY <1>1, <1>2, <2>1, <2>2 DEF Awaited
<1> QED BY <1>1, <1>2, <1>8, <1>9, <1>10, <1>11, KeepsIsEnough DEF AppInv, Awaited

LEMMA HideNodeKeeps ==
  ASSUME Inv, NEW n \in Nodes, HideNode(n)
  PROVE  AppInv' /\ NoneCollapses /\ OneWay
<1>1. /\ nodes' = [nodes EXCEPT ![n] = Absent] /\ edges' = edges \ Incident(n)
      /\ cache' = [cache EXCEPT ![n] = None] /\ inflight' = [inflight EXCEPT ![n] = None]
  BY DEF HideNode
<1>2. strays' = strays \/ (inflight[n] # None /\ strays' = [strays EXCEPT ![n] = inflight[n]])
  BY DEF HideNode
<1>3. /\ MapOf(nodes, edges) /\ CacheOf(cache) /\ ReadsOf(inflight) /\ ReadsOf(strays)
      /\ Awaited(nodes, inflight, strays)
      /\ \A x \in Nodes : strays[x] # None => x # n \/ inflight[n] = None
  <2>1. ASSUME strays[n] # None PROVE inflight[n] = None
    BY <2>1 DEF HideNode, CanStray
  <2> QED BY <2>1 DEF Inv, AppInv
<1>4. MapOf(nodes', edges')
  <2>1. nodes' \in [Nodes -> NodeModel \union {Absent}] BY <1>1, <1>3 DEF MapOf
  <2>2. ASSUME NEW l \in edges' PROVE nodes'[l[1]] # Absent /\ nodes'[l[3]] # Absent
    <3>1. l \in edges /\ l[1] # n /\ l[3] # n BY <1>1, <2>2 DEF Incident
    <3>2. l \in Links BY <1>3, <3>1 DEF MapOf
    <3> QED BY <1>1, <1>3, <3>1, <3>2, LinkEnds DEF MapOf
  <2> QED BY <1>1, <1>3, <2>1, <2>2 DEF MapOf
<1>5. CacheOf(cache') BY <1>1, <1>3 DEF CacheOf
<1>6. ReadsOf(inflight') /\ ReadsOf(strays') BY <1>1, <1>2, <1>3 DEF ReadsOf
<1>7. Awaited(nodes', inflight', strays')
  <2>1. ASSUME NEW x \in Nodes, Loads(nodes', x)
        PROVE  x # n /\ Loads(nodes, x)
    BY <1>1, <1>3, <2>1 DEF Loads, MapOf
  <2>2. \A x \in Nodes \ {n} : inflight'[x] = inflight[x] /\ strays'[x] = strays[x]
    BY <1>1, <1>2, <1>3 DEF ReadsOf
  <2> QED BY <1>3, <2>1, <2>2 DEF Awaited
<1>8. NoneCollapses BY <1>1, <1>3 DEF NoneCollapses, IsExpanded, MapOf
<1>9. OneWay BY <1>1, <1>3 DEF OneWay, MapOf
<1> QED BY <1>4, <1>5, <1>6, <1>7, <1>8, <1>9 DEF AppInv

LEMMA ClearGraphKeeps ==
  ASSUME Inv, ClearGraph
  PROVE  AppInv' /\ NoneCollapses /\ OneWay
<1>1. /\ nodes' = [n \in Nodes |-> Absent] /\ edges' = {}
      /\ cache' = [n \in Nodes |-> None] /\ inflight' = [n \in Nodes |-> None]
      /\ strays' = [n \in Nodes |-> IF inflight[n] = None THEN strays[n] ELSE inflight[n]]
  BY DEF ClearGraph, Empty, Nothing
<1>2. ReadsOf(inflight) /\ ReadsOf(strays) BY DEF Inv, AppInv
<1>3. ReadsOf(strays') BY <1>1, <1>2 DEF ReadsOf
<1>4. MapOf(nodes', edges') BY <1>1 DEF MapOf
<1>5. CacheOf(cache') /\ ReadsOf(inflight') BY <1>1 DEF CacheOf, ReadsOf
<1>6. Awaited(nodes', inflight', strays') /\ NoneCollapses
  BY <1>1 DEF Awaited, Loads, NoneCollapses
<1>7. OneWay BY <1>1 DEF OneWay
<1> QED BY <1>3, <1>4, <1>5, <1>6, <1>7 DEF AppInv

(* --------------------------------- the requests --------------------------------- *)
LEMMA RequestIsKnown ==
  ASSUME Inv, NEW n \in Nodes, NEW slot \in Slots, Request(n, slot) # None
  PROVE  /\ Request(n, slot) \in Requests /\ ReadKnown(n, Request(n, slot))
         /\ links \subseteq Links
BY DEF Inv, AppInv, ReadsOf, Request, GraphTypeOK

LEMMA QueryKeeps ==
  ASSUME Inv, NEW n \in Nodes, NEW slot \in Slots, Query(n, slot)
  PROVE  AppInv' /\ NoneCollapses /\ OneWay
<1> DEFINE r == Request(n, slot)
           q == ReadOut(n, r)
<1>1. r # None BY DEF Query
<1>2. q \in Requests /\ ReadKnown(n, q) /\ q.expand = r.expand
  BY <1>1, RequestIsKnown, RequestUpdates DEF Inv
<1>3. /\ IF slot = "inflight"
         THEN inflight' = [inflight EXCEPT ![n] = q] /\ strays' = strays
         ELSE strays' = [strays EXCEPT ![n] = q] /\ inflight' = inflight
      /\ nodes' = nodes /\ edges' = edges /\ cache' = cache
  BY DEF Query
<1>4. r = IF slot = "inflight" THEN inflight[n] ELSE strays[n] BY DEF Request
<1> HIDE DEF q, r
<1>5. ReadsOf(inflight) /\ ReadsOf(strays) /\ Awaited(nodes, inflight, strays)
      /\ MapOf(nodes, edges) /\ CacheOf(cache)
  BY DEF Inv, AppInv
<1>6. ReadsOf(inflight') /\ ReadsOf(strays')
  <2>1. CASE slot = "inflight" BY <1>2, <1>3, <1>5, <2>1 DEF ReadsOf
  <2>2. CASE slot # "inflight" BY <1>2, <1>3, <1>5, <2>2 DEF ReadsOf
  <2> QED BY <2>1, <2>2
<1>7. \A x \in Nodes : /\ Awaits(inflight[x]) => Awaits(inflight'[x])
                       /\ Awaits(strays[x]) => Awaits(strays'[x])
  <2>1. q # None BY <1>2, NoneAssumption
  <2>2. CASE slot = "inflight" BY <1>2, <1>3, <1>4, <1>5, <2>1, <2>2 DEF ReadsOf, Awaits
  <2>3. CASE slot # "inflight" BY <1>2, <1>3, <1>4, <1>5, <2>1, <2>3 DEF ReadsOf, Awaits
  <2> QED BY <2>2, <2>3
<1>8. Awaited(nodes', inflight', strays') BY <1>3, <1>5, <1>7 DEF Awaited
<1> QED BY <1>3, <1>5, <1>6, <1>8, KeepsIsEnough DEF AppInv, Keeps

LEMMA EndedKeeps ==
  ASSUME Inv, NEW n \in Nodes, NEW slot, Ended(n, slot)
  PROVE  /\ ReadsOf(Freed(n)) /\ ReadsOf(strays')
         /\ \A x \in Nodes \ {n} : Freed(n)[x] = inflight[x] /\ strays'[x] = strays[x]
BY DEF Inv, AppInv, ReadsOf, Freed, Ended

LEMMA SucceedKeeps ==
  ASSUME Inv, NEW n \in Nodes, NEW slot \in Slots, Succeed(n, slot)
  PROVE  AppInv' /\ NoneCollapses /\ OneWay
<1> DEFINE r == Request(n, slot)
           d == Answer(n, r)
           c == [cache EXCEPT ![n] = d]
<1>1. /\ r # None /\ Deliver(n, d, r.expand, c, Freed(n)) /\ Ended(n, slot) BY DEF Succeed
<1>2. r \in Requests /\ ReadKnown(n, r) /\ links \subseteq Links BY <1>1, RequestIsKnown
<1>3. r.expand \in BOOLEAN BY <1>2 DEF Requests
<1>4. d \in Data /\ Known(n, d) BY <1>2, AnswerKnown
<1> HIDE DEF r, d
<1>5. CacheOf(c) BY <1>4 DEF Inv, AppInv, CacheOf
<1> HIDE DEF c
<1>6. /\ ReadsOf(Freed(n)) /\ ReadsOf(strays')
      /\ \A x \in Nodes \ {n} : Freed(n)[x] = inflight[x] /\ strays'[x] = strays[x]
  BY <1>1, EndedKeeps
<1>7. \A x \in Nodes \ {n} : Loads(nodes, x) => Awaits(Freed(n)[x]) \/ Awaits(strays'[x])
  BY <1>6 DEF Inv, AppInv, Awaited
<1>8. MapOf(nodes, edges) BY DEF Inv, AppInv
<1> DEFINE i == Freed(n)
<1>9. /\ ReadsOf(i) /\ Deliver(n, d, r.expand, c, i)
      /\ \A x \in Nodes \ {n} : Loads(nodes, x) => Awaits(i[x]) \/ Awaits(strays'[x])
  BY <1>1, <1>6, <1>7
<1> HIDE DEF i
<1>10. r.expand = TRUE \/ r.expand = FALSE BY <1>3
<1> QED BY <1>2, <1>3, <1>4, <1>5, <1>6, <1>8, <1>9, DeliverKeeps

LEMMA FailKeeps ==
  ASSUME Inv, NEW n \in Nodes, NEW slot \in Slots, Fail(n, slot)
  PROVE  AppInv' /\ NoneCollapses /\ OneWay
<1> DEFINE r == Request(n, slot)
<1>1. r # None /\ inflight' = Freed(n) /\ Ended(n, slot) /\ edges' = edges BY DEF Fail
<1>2. /\ ReadsOf(inflight') /\ ReadsOf(strays')
      /\ \A x \in Nodes \ {n} : inflight'[x] = inflight[x] /\ strays'[x] = strays[x]
  BY <1>1, EndedKeeps
<1>3. MapOf(nodes, edges) /\ CacheOf(cache) /\ Awaited(nodes, inflight, strays)
  BY DEF Inv, AppInv
<1>4. CASE r.expand
  <2>1. /\ nodes' = (IF nodes[n] = Absent THEN nodes ELSE [nodes EXCEPT ![n].loading = FALSE])
        /\ cache' = [cache EXCEPT ![n] = None]
    BY <1>4 DEF Fail
  <2>2. /\ MapOf(nodes', edges') /\ Keeps(nodes, nodes') /\ ~Loads(nodes', n)
        /\ \A x \in Nodes \ {n} : nodes'[x] = nodes[x]
    <3>1. CASE nodes[n] = Absent
      <4>1. nodes' = nodes BY <2>1, <3>1
      <4> QED BY <1>1, <1>3, <3>1, <4>1 DEF Keeps, Loads
    <3>2. CASE nodes[n] # Absent
      <4>1. nodes[n] \in NodeModel BY <1>3, <3>2 DEF MapOf
      <4> DEFINE q == [nodes[n] EXCEPT !.loading = FALSE]
      <4>2. q \in NodeModel /\ q.expanded = nodes[n].expanded /\ ~q.loading
        BY <4>1 DEF NodeModel
      <4>3. nodes' = [nodes EXCEPT ![n] = q] BY <2>1, <3>2
      <4> HIDE DEF q
      <4> QED BY <1>1, <1>3, <3>2, <4>2, <4>3, LinkEnds, ModelIsNotAbsent
           DEF MapOf, Keeps, IsExpanded, Loads
    <3> QED BY <3>1, <3>2
  <2>3. CacheOf(cache') BY <1>3, <2>1 DEF CacheOf
  <2>4. Awaited(nodes', inflight', strays') BY <1>2, <1>3, <2>2 DEF Awaited, Loads
  <2> QED BY <1>1, <1>2, <2>2, <2>3, <2>4, KeepsIsEnough DEF AppInv
<1>5. CASE ~r.expand
  <2>1. nodes' = nodes /\ cache' = cache BY <1>5 DEF Fail
  <2>2. strays'[n] = IF slot = "inflight" THEN strays[n] ELSE inflight[n]
    BY <1>1 DEF Ended, Inv, AppInv, ReadsOf
  <2>3. Awaits(inflight[n]) \/ Awaits(strays[n]) => Awaits(strays'[n])
    BY <1>5, <2>2 DEF Awaits, Request
  <2>4. Awaited(nodes', inflight', strays') BY <1>2, <1>3, <2>1, <2>3 DEF Awaited
  <2> QED BY <1>1, <1>2, <1>3, <2>1, <2>4, KeepsIsEnough DEF AppInv, Keeps
<1> QED BY <1>4, <1>5

LEMMA EditKeeps ==
  ASSUME Inv, CuratorEdits
  PROVE  AppInv' /\ NoneCollapses /\ OneWay
<1>1. /\ inflight' = [n \in Nodes |-> Still(inflight[n], links')]
      /\ strays' = [n \in Nodes |-> Still(strays[n], links')]
      /\ nodes' = nodes /\ edges' = edges /\ cache' = cache
  BY DEF CuratorEdits
<1>2. ASSUME NEW i, ReadsOf(i), NEW j, j = [n \in Nodes |-> Still(i[n], links')]
      PROVE  ReadsOf(j) /\ \A n \in Nodes : Awaits(j[n]) = Awaits(i[n])
  <2>1. ASSUME NEW n \in Nodes
        PROVE  /\ j[n] \in Requests \union {None}
               /\ j[n] # None => ReadKnown(n, j[n])
               /\ Awaits(j[n]) = Awaits(i[n])
    <3>1. CASE i[n] = None BY <1>2, <3>1 DEF Still
    <3>2. CASE i[n] # None
      <4>1. i[n] \in Requests /\ ReadKnown(n, i[n]) BY <1>2, <3>2 DEF ReadsOf
      <4>2. /\ j[n] \in Requests /\ ReadKnown(n, j[n]) /\ j[n].expand = i[n].expand
        BY <1>2, <4>1, RequestUpdates DEF Inv, GraphTypeOK
      <4>3. j[n] # None BY <4>2, NoneAssumption
      <4> QED BY <3>2, <4>2, <4>3 DEF Awaits
    <3> QED BY <3>1, <3>2
  <2>2. j \in [Nodes -> Requests \union {None}] BY <1>2, <2>1
  <2> QED BY <2>1, <2>2 DEF ReadsOf
<1>3. ReadsOf(inflight') /\ \A n \in Nodes : Awaits(inflight'[n]) = Awaits(inflight[n])
  BY <1>1, <1>2 DEF Inv, AppInv
<1>4. ReadsOf(strays') /\ \A n \in Nodes : Awaits(strays'[n]) = Awaits(strays[n])
  BY <1>1, <1>2 DEF Inv, AppInv
<1>5. Awaited(nodes', inflight', strays') BY <1>1, <1>3, <1>4 DEF Inv, AppInv, Awaited
<1> QED BY <1>1, <1>3, <1>4, <1>5, KeepsIsEnough DEF Inv, AppInv, Keeps

(* ------------------------------ the whole program ------------------------------ *)
LEMMA InitInv == Init => Inv
<1> SUFFICES ASSUME Init PROVE Inv
  OBVIOUS
<1>1. GraphTypeOK BY GraphNodeAssumption DEF Init, GraphInit, GraphTypeOK
<1>2. /\ nodes = [n \in Nodes |-> Absent] /\ edges = {} /\ cache = [n \in Nodes |-> None]
      /\ inflight = [n \in Nodes |-> None] /\ strays = [n \in Nodes |-> None]
  BY DEF Init, Empty, Nothing
<1>3. AppInv BY <1>2 DEF AppInv, MapOf, CacheOf, ReadsOf, Awaited, Loads
<1> QED BY <1>1, <1>3 DEF Inv, Init

LEMMA SameKeeps == Inv /\ UNCHANGED <<nodes, edges, cache, inflight, strays>> => AppInv' /\ NoneCollapses /\ OneWay
BY DEF Inv, AppInv, NoneCollapses, OneWay, IsExpanded

LEMMA GraphKeeps ==
  ASSUME GraphTypeOK, UNCHANGED graph \/ Edit \/ Parse
  PROVE  GraphTypeOK'
<1>1. CASE UNCHANGED graph BY <1>1 DEF graph, GraphTypeOK
<1>2. CASE Edit BY <1>2, GraphNodeAssumption DEF Edit, GraphTypeOK
<1>3. CASE Parse
  <2>1. NextPredicate(Predicates \ parsed) \in Predicates
    BY <1>3 DEF Parse, NextPredicate, GraphTypeOK
  <2> QED BY <1>3, <2>1 DEF Parse, GraphTypeOK
<1> QED BY <1>1, <1>2, <1>3

LEMMA NextInv == Inv /\ [Next]_vars => Inv' /\ NoneCollapses /\ OneWay
<1> SUFFICES ASSUME Inv, [Next]_vars PROVE Inv' /\ NoneCollapses /\ OneWay
  OBVIOUS
<1>1. AppInv' /\ NoneCollapses /\ OneWay
  <2>1. CASE Start
    <3>1. CASE UNCHANGED <<nodes, edges, cache, inflight>> BY <2>1, <3>1, SameKeeps DEF Start
    <3>2. CASE \E n \in Nodes : ExpandNode(n) BY <2>1, <3>2, ExpandNodeKeeps DEF Start
    <3> QED BY <2>1, <3>1, <3>2 DEF Start
  <2>2. CASE StartFails BY <2>2, SameKeeps DEF StartFails
  <2>3. CASE ClearGraph BY <2>3, ClearGraphKeeps
  <2>4. ASSUME NEW n \in Nodes, SeedNode(n) PROVE AppInv' /\ NoneCollapses /\ OneWay
    BY <2>4, SeedNodeKeeps
  <2>5. ASSUME NEW n \in Nodes, Expand(n) PROVE AppInv' /\ NoneCollapses /\ OneWay
    BY <2>5, ExpandNodeKeeps DEF Expand
  <2>6. ASSUME NEW n \in Nodes, HideNode(n) PROVE AppInv' /\ NoneCollapses /\ OneWay
    BY <2>6, HideNodeKeeps
  <2>7. CASE CuratorEdits BY <2>7, EditKeeps
  <2>8. ASSUME NEW n \in Nodes, NEW slot \in Slots, ServerStep(n, slot)
        PROVE  AppInv' /\ NoneCollapses /\ OneWay
    BY <2>8, QueryKeeps, SucceedKeeps, FailKeeps DEF ServerStep
  <2>9. CASE UNCHANGED vars \/ ShapesParsed BY <2>9, SameKeeps DEF vars, app, ShapesParsed
  <2> QED BY <2>1, <2>2, <2>3, <2>4, <2>5, <2>6, <2>7, <2>8, <2>9 DEF Next, UserStep
<1>2. UNCHANGED graph \/ Edit \/ Parse
  BY DEF Next, UserStep, Start, StartFails, ClearGraph, SeedNode, Expand, HideNode,
         CuratorEdits, ShapesParsed, ServerStep, Query, Succeed, Fail, vars, graph
<1>3. page' \in {"starting", "ready", "failed"}
  BY DEF Inv, Next, UserStep, Start, StartFails, ClearGraph, SeedNode, Expand, HideNode,
         CuratorEdits, ShapesParsed, ServerStep, Query, Succeed, Fail, vars, app
<1> QED BY <1>1, <1>2, <1>3, GraphKeeps DEF Inv

LEMMA AlwaysInv == Spec => []Inv
BY InitInv, NextInv, PTL DEF Spec

(* The explorer's data has its shape: nodesMap and edgesMap hold node models and *)
(* relation edges only, and so do the cache and the requests.                    *)
THEOREM ExplorerTypes == Spec => []TypeOK
<1>1. Inv => TypeOK BY DEF Inv, AppInv, MapOf, CacheOf, ReadsOf, TypeOK
<1> QED BY <1>1, AlwaysInv, PTL

(* Every edge drawn has both its ends on the map (App.jsx:82-135, 225-242).       *)
THEOREM EdgesEnd == Spec => []EdgesHaveEnds
<1>1. Inv => EdgesHaveEnds
  BY LinkEnds DEF Inv, AppInv, MapOf, EdgesHaveEnds, OnMap
<1> QED BY <1>1, AlwaysInv, PTL

(* A node that shows it is loading waits for a request that will expand it, in   *)
(* the inflight map or dropped from it (App.jsx:137-223).                        *)
THEOREM LoadingIsAwaited == Spec => []LoadingIsFetched
<1>1. Inv => LoadingIsFetched
  <2> SUFFICES ASSUME Inv, NEW n \in OnMap, nodes[n].loading
               PROVE  \E slot \in Slots : Request(n, slot) # None /\ Request(n, slot).expand
    BY DEF LoadingIsFetched
  <2>1. n \in Nodes /\ Loads(nodes, n) BY DEF OnMap, Loads
  <2>2. Awaits(inflight[n]) \/ Awaits(strays[n]) BY <2>1 DEF Inv, AppInv, Awaited
  <2>3. CASE Awaits(inflight[n])
    <3>1. "inflight" \in Slots /\ Request(n, "inflight") = inflight[n] BY DEF Slots, Request
    <3> QED BY <2>3, <3>1 DEF Awaits
  <2>4. CASE Awaits(strays[n])
    <3>1. "stray" \in Slots /\ Request(n, "stray") = strays[n] BY DEF Slots, Request
    <3> QED BY <2>4, <3>1 DEF Awaits
  <2> QED BY <2>2, <2>3, <2>4
<1> QED BY <1>1, AlwaysInv, PTL

(* A late prefetch never collapses a node that is expanded (App.jsx:81).          *)
THEOREM NothingCollapses == Spec => NeverCollapsed
<1>1. Inv /\ [Next]_vars => [\A n \in Nodes : IsExpanded(nodes, n) /\ nodes'[n] # Absent
                                              => IsExpanded(nodes', n)]_vars
  BY NextInv DEF NoneCollapses
<1> QED BY <1>1, AlwaysInv, PTL DEF Spec, NeverCollapsed

(* --------------- an answer that is not cut off lists all there was --------------- *)
Preceding(ws, w) == {v \in ws : Before(v, w)}

LEMMA BeforeIsStrict ==
  /\ \A u, v, w \in Row : Before(u, v) /\ Before(v, w) => Before(u, w)
  /\ \A v \in Row : ~Before(v, v)
<1>1. \A v \in Row : v[1] \in Nat /\ v[2] \in Nat BY GraphNodeAssumption DEF Row
<1> QED BY <1>1 DEF Before

(* Rows fetches one row more than Limit: when no more than Limit come back, they *)
(* are all there are.  A row left out has Limit + 1 rows before it; take one with *)
(* the fewest.                                                                    *)
LEMMA FewRowsAreAll ==
  ASSUME NEW ws \in SUBSET Row, ~Truncated(ws)
  PROVE  Rows(ws) = ws
<1>1. IsFiniteSet(ws) BY RowFinite, FS_Subset
<1>2. \A w \in ws : /\ Cardinality(Preceding(ws, w)) \in Nat /\ IsFiniteSet(Preceding(ws, w))
  <2> SUFFICES ASSUME NEW w \in ws
               PROVE  Cardinality(Preceding(ws, w)) \in Nat /\ IsFiniteSet(Preceding(ws, w))
    OBVIOUS
  <2>1. Preceding(ws, w) \in SUBSET ws BY DEF Preceding
  <2>2. IsFiniteSet(Preceding(ws, w)) BY <1>1, <2>1, FS_Subset
  <2> QED BY <2>2, FS_CardinalityType
<1> DEFINE T == {Cardinality(Preceding(ws, w)) : w \in ws \ Rows(ws)}
<1>3. SUFFICES ASSUME T # {} PROVE FALSE
  BY DEF Rows, First
<1>4. T \subseteq Nat BY <1>2
<1>5. PICK m \in T : \A k \in T : ~(k < m)
  <2> DEFINE Less == OpToRel(<, Nat)
  <2>1. IsWellFoundedOn(Less, Nat) BY NatLessThanWellFounded
  <2>2. \A j, k \in Nat : j < k => <<j, k>> \in Less BY DEF OpToRel
  <2> HIDE DEF T, Less
  <2>3. \E m \in T : \A k \in T : <<k, m>> \notin Less BY <1>3, <1>4, <2>1, WFMin
  <2> QED BY <1>4, <2>2, <2>3
<1>6. PICK w \in ws \ Rows(ws) : m = Cardinality(Preceding(ws, w)) BY <1>5
<1>8. m \in Nat /\ m >= Limit + 1 /\ Limit \in Nat
  <2>1. ~(Cardinality(Preceding(ws, w)) < Limit + 1) BY <1>6 DEF Rows, First, Preceding
  <2> QED BY <1>2, <1>6, <2>1, GraphNodeAssumption
<1>9. Preceding(ws, w) \subseteq Rows(ws)
  <2> SUFFICES ASSUME NEW v \in Preceding(ws, w), v \notin Rows(ws) PROVE FALSE
    OBVIOUS
  <2>1. v \in ws /\ Before(v, w) BY DEF Preceding
  <2>2. Preceding(ws, v) \in SUBSET Preceding(ws, w) /\ v \notin Preceding(ws, v)
    BY <2>1, BeforeIsStrict DEF Preceding
  <2>3. /\ Cardinality(Preceding(ws, v)) <= Cardinality(Preceding(ws, w))
        /\ Cardinality(Preceding(ws, v)) = Cardinality(Preceding(ws, w)) =>
             Preceding(ws, w) = Preceding(ws, v)
    BY <1>2, <2>2, FS_Subset
  <2>4. Cardinality(Preceding(ws, v)) < Cardinality(Preceding(ws, w))
    BY <1>2, <2>1, <2>2, <2>3
  <2>5. Cardinality(Preceding(ws, v)) \in T BY <2>1
  <2> QED BY <1>5, <1>6, <2>4, <2>5
<1>10. Rows(ws) \in SUBSET ws BY DEF Rows, First
<1>11. IsFiniteSet(Rows(ws)) /\ Cardinality(Rows(ws)) \in Nat
  <2>1. IsFiniteSet(Rows(ws)) BY <1>1, <1>10, FS_Subset
  <2> QED BY <2>1, FS_CardinalityType
<1>12. Cardinality(Preceding(ws, w)) <= Cardinality(Rows(ws)) BY <1>9, <1>11, FS_Subset
<1>13. ~(Cardinality(Rows(ws)) > Limit) BY DEF Truncated
<1> QED BY <1>6, <1>8, <1>11, <1>12, <1>13

LEMMA UncappedIsAll ==
  ASSUME NEW ws \in SUBSET Row, ~Truncated(ws)
  PROVE  Capped(ws) = ws
<1>1. Rows(ws) = ws BY FewRowsAreAll
<1>2. IsFiniteSet(ws) /\ Cardinality(ws) \in Nat
  <2>1. IsFiniteSet(ws) BY RowFinite, FS_Subset
  <2> QED BY <2>1, FS_CardinalityType
<1>3. Cardinality(ws) <= Limit /\ Limit \in Nat BY <1>1, <1>2, GraphNodeAssumption DEF Truncated
<1>4. ASSUME NEW w \in ws PROVE Cardinality(Preceding(ws, w)) < Limit
  <2>1. Preceding(ws, w) \in SUBSET ws /\ w \notin Preceding(ws, w)
    BY BeforeIsStrict DEF Preceding
  <2>2. /\ Cardinality(Preceding(ws, w)) <= Cardinality(ws)
        /\ Cardinality(ws) = Cardinality(Preceding(ws, w)) => ws = Preceding(ws, w)
    BY <1>2, <2>1, FS_Subset
  <2>3. Cardinality(Preceding(ws, w)) \in Nat
    <3>1. IsFiniteSet(Preceding(ws, w)) BY <1>2, <2>1, FS_Subset
    <3> QED BY <3>1, FS_CardinalityType
  <2> QED BY <1>2, <1>3, <2>1, <2>2, <2>3
<1>5. First(Limit, ws) = ws BY <1>4 DEF First, Preceding
<1> QED BY <1>1, <1>5 DEF Capped

(* A link of n that is in the store ever since r was sent, as far as r has read.  *)
ReadStable(n, r, ls) ==
  /\ r.stable \subseteq {l \in ls : n \in {l[1], l[3]}}
  /\ r.query = "in" /\ ~r.more => \A l \in Lasting(r) : l[1] = n => <<l[2], l[3]>> \in r.out
Stable(i, ls) == \A n \in Nodes : i[n] # None => ReadStable(n, i[n], ls)
StableInv == Stable(inflight, links) /\ Stable(strays, links)

LEMMA RequestIsStable ==
  \A n \in Nodes, expand \in BOOLEAN : ReadStable(n, Request0(n, expand), links)
BY DEF ReadStable, Request0

LEMMA RowOfLink ==
  ASSUME links \subseteq Links, NEW l \in links
  PROVE  <<l[2], l[3]>> \in Row /\ <<l[2], l[1]>> \in Row /\ l = <<l[1], l[2], l[3]>>
BY GraphNodeAssumption DEF Row

LEMMA ReadIsStable ==
  ASSUME NEW n \in Nodes, NEW r \in Requests, ReadStable(n, r, links), links \subseteq Links
  PROVE  ReadStable(n, ReadOut(n, r), links)
<1> DEFINE ws == Out(n, parsed)
<1>1. /\ ReadOut(n, r).stable = r.stable /\ ReadOut(n, r).out = Capped(ws)
      /\ ReadOut(n, r).more = Truncated(ws) /\ ReadOut(n, r).preds = parsed
  BY DEF ReadOut, Requests
<1>2. ASSUME ~Truncated(ws), NEW l \in r.stable, l[2] \in parsed, l[1] = n
      PROVE  <<l[2], l[3]>> \in Capped(ws)
  <2>1. ws \in SUBSET Row BY DEF Out
  <2>2. Capped(ws) = ws BY <1>2, <2>1, UncappedIsAll
  <2>3. l \in links BY DEF ReadStable
  <2>4. <<l[2], l[3]>> \in Row /\ l = <<n, l[2], l[3]>> BY <1>2, <2>3, RowOfLink
  <2> QED BY <1>2, <2>2, <2>3, <2>4 DEF Out
<1> HIDE DEF ws
<1> QED BY <1>1, <1>2 DEF ReadStable, Lasting

LEMMA AnswerIsWhole ==
  ASSUME NEW n \in Nodes, NEW r \in Requests, ReadStable(n, r, links), r.query = "in",
         ~Answer(n, r).truncated, links \subseteq Links
  PROVE  Lasting(r) \subseteq AnswerLinks(n, Answer(n, r))
<1> DEFINE ws == In(n, r.preds)
<1>1. /\ ~r.more /\ ~Truncated(ws)
      /\ Answer(n, r).out = r.out /\ Answer(n, r).in = Capped(ws)
  BY DEF Answer, Requests
<1>2. Capped(ws) = ws
  <2>1. ws \in SUBSET Row BY DEF In
  <2> QED BY <1>1, <2>1, UncappedIsAll
<1>3. ASSUME NEW l \in Lasting(r) PROVE l \in AnswerLinks(n, Answer(n, r))
  <2>1. l \in links /\ n \in {l[1], l[3]} /\ l[2] \in r.preds BY DEF ReadStable, Lasting
  <2>2. <<l[2], l[3]>> \in Row /\ <<l[2], l[1]>> \in Row /\ l = <<l[1], l[2], l[3]>>
    BY <2>1, RowOfLink
  <2> DEFINE u == <<l[2], l[3]>>
             v == <<l[2], l[1]>>
  <2>3. CASE l[1] = n
    <3>1. u \in Answer(n, r).out BY <1>1, <2>3 DEF ReadStable
    <3>2. l = <<n, u[1], u[2]>> BY <2>2, <2>3
    <3> QED BY <3>1, <3>2 DEF AnswerLinks
  <2>4. CASE l[3] = n
    <3>1. v \in ws BY <2>1, <2>2, <2>4 DEF In
    <3>2. v \in Answer(n, r).in BY <1>1, <1>2, <3>1
    <3>3. l = <<v[2], v[1], n>> BY <2>2, <2>4
    <3> QED BY <3>2, <3>3 DEF AnswerLinks
  <2> QED BY <2>1, <2>3, <2>4
<1> QED BY <1>3

LEMMA SentIsStable ==
  ASSUME NEW i, Stable(i, links), NEW ns
  PROVE  Stable(Sent(i, ns, FALSE), links)
<1>1. \A n \in Nodes : Sent(i, ns, FALSE)[n] = IF n \in ns THEN Request0(n, FALSE) ELSE i[n]
  BY DEF Sent
<1>2. \A n \in Nodes : ReadStable(n, Request0(n, FALSE), links) BY RequestIsStable
<1> QED BY <1>1, <1>2 DEF Stable

LEMMA DeliverIsStable ==
  ASSUME NEW n, NEW d, NEW expand, NEW c, NEW i, Stable(i, links), Deliver(n, d, expand, c, i)
  PROVE  Stable(inflight', links) /\ cache' = c
<1>1. CASE expand
  <2>1. inflight' = Sent(i, ToFetch(Neighbours(d), c, i), FALSE) BY <1>1 DEF Deliver
  <2>2. cache' = c BY DEF Deliver
  <2> QED BY <2>1, <2>2, SentIsStable
<1>2. CASE ~expand BY <1>2 DEF Deliver
<1> QED BY <1>1, <1>2

LEMMA ExpandNodeIsStable ==
  ASSUME Inv, StableInv, NEW n \in Nodes, ExpandNode(n)
  PROVE  Stable(inflight', links) /\ cache' = cache
<1>1. CASE cache[n] # None
  <2>1. Deliver(n, cache[n], TRUE, cache, inflight) BY <1>1 DEF ExpandNode
  <2> QED BY <2>1, DeliverIsStable DEF StableInv
<1>2. CASE cache[n] = None /\ inflight[n] # None
  <2>1. inflight' = [inflight EXCEPT ![n] = [inflight[n] EXCEPT !.expand = TRUE]] /\ cache' = cache
    BY <1>2 DEF ExpandNode
  <2>2. inflight[n] \in Requests /\ ReadStable(n, inflight[n], links)
    BY <1>2 DEF Inv, AppInv, ReadsOf, StableInv, Stable
  <2> DEFINE q == [inflight[n] EXCEPT !.expand = TRUE]
  <2>3. /\ q.stable = inflight[n].stable /\ q.out = inflight[n].out
        /\ q.query = inflight[n].query /\ q.more = inflight[n].more
        /\ q.preds = inflight[n].preds
    BY <2>2 DEF Requests
  <2>4. inflight' = [inflight EXCEPT ![n] = q] BY <2>1
  <2> HIDE DEF q
  <2>5. ReadStable(n, q, links) BY <2>2, <2>3 DEF ReadStable, Lasting
  <2> QED BY <2>1, <2>4, <2>5 DEF Inv, AppInv, ReadsOf, StableInv, Stable
<1>3. CASE cache[n] = None /\ inflight[n] = None
  <2>1. inflight' = [inflight EXCEPT ![n] = Request0(n, TRUE)] /\ cache' = cache
    BY <1>3 DEF ExpandNode
  <2>2. ReadStable(n, Request0(n, TRUE), links) BY RequestIsStable
  <2> QED BY <2>1, <2>2 DEF Inv, AppInv, ReadsOf, StableInv, Stable
<1> QED BY <1>1, <1>2, <1>3

LEMMA EndedIsStable ==
  ASSUME Inv, StableInv, NEW n \in Nodes, NEW slot, Ended(n, slot)
  PROVE  Stable(Freed(n), links) /\ Stable(strays', links)
BY DEF Inv, AppInv, ReadsOf, Freed, Ended, StableInv, Stable

LEMMA EditIsStable ==
  ASSUME Inv, StableInv, CuratorEdits
  PROVE  StableInv' /\ cache' = cache
<1>1. /\ inflight' = [n \in Nodes |-> Still(inflight[n], links')]
      /\ strays' = [n \in Nodes |-> Still(strays[n], links')]
      /\ cache' = cache
  BY DEF CuratorEdits
<1>2. ASSUME NEW i, ReadsOf(i), Stable(i, links), NEW j, j = [n \in Nodes |-> Still(i[n], links')]
      PROVE  Stable(j, links')
  <2> SUFFICES ASSUME NEW n \in Nodes, j[n] # None PROVE ReadStable(n, j[n], links')
    BY DEF Stable
  <2>1. i[n] # None /\ j[n] = [i[n] EXCEPT !.stable = @ \intersect links'] BY <1>2 DEF Still
  <2>2. i[n] \in Requests /\ ReadStable(n, i[n], links) BY <1>2, <2>1 DEF ReadsOf, Stable
  <2>3. /\ j[n].stable = i[n].stable \intersect links' /\ j[n].out = i[n].out
        /\ j[n].query = i[n].query /\ j[n].more = i[n].more /\ j[n].preds = i[n].preds
    BY <2>1, <2>2 DEF Requests
  <2> QED BY <2>2, <2>3 DEF ReadStable, Lasting
<1> QED BY <1>1, <1>2 DEF Inv, AppInv, StableInv

AnsweredWhole ==
  \A n \in Nodes : cache'[n] \notin {cache[n], None} /\ ~cache'[n].truncated =>
     \E slot \in Slots : /\ Request(n, slot) # None
                         /\ Lasting(Request(n, slot)) \subseteq AnswerLinks(n, cache'[n])

LEMMA SucceedIsWhole ==
  ASSUME Inv, StableInv, NEW n \in Nodes, NEW slot \in Slots, Succeed(n, slot)
  PROVE  StableInv' /\ AnsweredWhole
<1> DEFINE r == Request(n, slot)
           d == Answer(n, r)
<1>1. /\ r # None /\ r.query = "in" /\ Ended(n, slot) /\ links' = links
      /\ Deliver(n, d, r.expand, [cache EXCEPT ![n] = d], Freed(n))
  BY DEF Succeed, graph
<1>2. r \in Requests /\ links \subseteq Links BY <1>1, RequestIsKnown
<1>3. ReadStable(n, r, links) BY <1>1 DEF StableInv, Stable, Request
<1>4. Stable(Freed(n), links) /\ Stable(strays', links) BY <1>1, EndedIsStable
<1>5. Stable(inflight', links) /\ cache' = [cache EXCEPT ![n] = d]
  BY <1>1, <1>4, DeliverIsStable
<1>6. ~d.truncated => Lasting(r) \subseteq AnswerLinks(n, d) BY <1>1, <1>2, <1>3, AnswerIsWhole
<1>7. cache' = [cache EXCEPT ![n] = d] /\ cache \in [Nodes -> Data \union {None}]
  BY <1>5 DEF Inv, AppInv, CacheOf
<1>8. StableInv' BY <1>1, <1>4, <1>5 DEF StableInv
<1> HIDE DEF d
<1>9. AnsweredWhole
  <2> SUFFICES ASSUME NEW x \in Nodes, cache'[x] \notin {cache[x], None}, ~cache'[x].truncated
               PROVE  \E s \in Slots : /\ Request(x, s) # None
                                       /\ Lasting(Request(x, s)) \subseteq AnswerLinks(x, cache'[x])
    BY DEF AnsweredWhole
  <2>1. x = n /\ cache'[x] = d BY <1>7
  <2> QED BY <1>1, <1>6, <2>1
<1> QED BY <1>8, <1>9

LEMMA NothingNewIsWhole ==
  ASSUME \A n \in Nodes : cache'[n] = cache[n] \/ cache'[n] = None
  PROVE  AnsweredWhole
BY DEF AnsweredWhole

LEMMA NextIsWhole == Inv /\ StableInv /\ [Next]_vars => StableInv' /\ AnsweredWhole
<1> SUFFICES ASSUME Inv, StableInv, [Next]_vars PROVE StableInv' /\ AnsweredWhole
  OBVIOUS
<1>1. Stable(inflight, links) /\ Stable(strays, links) BY DEF StableInv
<1>2. CASE Start
  <2>1. strays' = strays /\ links' = links BY <1>2 DEF Start, graph
  <2>2. CASE UNCHANGED <<nodes, edges, cache, inflight>>
    <3>1. inflight' = inflight /\ cache' = cache BY <2>2
    <3> QED BY <1>1, <2>1, <3>1, NothingNewIsWhole DEF StableInv
  <2>3. ASSUME NEW n \in Nodes, ExpandNode(n) PROVE StableInv' /\ AnsweredWhole
    <3>1. Stable(inflight', links) /\ cache' = cache BY <2>3, ExpandNodeIsStable
    <3> QED BY <1>1, <2>1, <3>1, NothingNewIsWhole DEF StableInv
  <2> QED BY <1>2, <2>2, <2>3 DEF Start
<1>3. CASE StartFails \/ ShapesParsed \/ UNCHANGED vars
  <2>1. inflight' = inflight /\ strays' = strays /\ links' = links /\ cache' = cache
    BY <1>3 DEF StartFails, ShapesParsed, Parse, vars, app, graph
  <2> QED BY <1>1, <2>1, NothingNewIsWhole DEF StableInv
<1>4. CASE ClearGraph
  <2>1. /\ inflight' = [n \in Nodes |-> None] /\ links' = links /\ cache' = [n \in Nodes |-> None]
        /\ strays' = [n \in Nodes |-> IF inflight[n] = None THEN strays[n] ELSE inflight[n]]
    BY <1>4 DEF ClearGraph, Empty, Nothing, graph
  <2>2. Stable(inflight', links) BY <2>1 DEF Stable
  <2>3. Stable(strays', links) BY <1>1, <2>1 DEF Stable
  <2> QED BY <2>1, <2>2, <2>3, NothingNewIsWhole DEF StableInv
<1>5. ASSUME NEW n \in Nodes, SeedNode(n) PROVE StableInv' /\ AnsweredWhole
  <2> DEFINE ns == ToFetch({n}, cache, inflight)
  <2>1. /\ inflight' = Sent(inflight, ns, FALSE)
        /\ cache' = cache /\ strays' = strays /\ links' = links
    BY <1>5 DEF SeedNode, graph
  <2> HIDE DEF ns
  <2>2. Stable(inflight', links) BY <1>1, <2>1, SentIsStable
  <2> QED BY <1>1, <2>1, <2>2, NothingNewIsWhole DEF StableInv
<1>6. ASSUME NEW n \in Nodes, Expand(n) PROVE StableInv' /\ AnsweredWhole
  <2>1. strays' = strays /\ links' = links /\ ExpandNode(n) BY <1>6 DEF Expand, graph
  <2>2. Stable(inflight', links) /\ cache' = cache BY <2>1, ExpandNodeIsStable
  <2> QED BY <1>1, <2>1, <2>2, NothingNewIsWhole DEF StableInv
<1>7. ASSUME NEW n \in Nodes, HideNode(n) PROVE StableInv' /\ AnsweredWhole
  <2>1. /\ cache' = [cache EXCEPT ![n] = None] /\ inflight' = [inflight EXCEPT ![n] = None]
        /\ strays' = (IF inflight[n] = None THEN strays ELSE [strays EXCEPT ![n] = inflight[n]])
        /\ links' = links
    BY <1>7 DEF HideNode, graph
  <2>2. Stable(inflight', links) /\ Stable(strays', links)
    BY <1>1, <2>1 DEF Inv, AppInv, ReadsOf, Stable
  <2>3. \A x \in Nodes : cache'[x] = cache[x] \/ cache'[x] = None
    BY <2>1 DEF Inv, AppInv, CacheOf
  <2> QED BY <2>1, <2>2, <2>3, NothingNewIsWhole DEF StableInv
<1>8. CASE CuratorEdits BY <1>8, EditIsStable, NothingNewIsWhole
<1>9. ASSUME NEW n \in Nodes, NEW slot \in Slots, Query(n, slot)
      PROVE  StableInv' /\ AnsweredWhole
  <2> DEFINE q == ReadOut(n, Request(n, slot))
  <2>1. /\ Request(n, slot) # None /\ cache' = cache /\ links' = links
        /\ IF slot = "inflight"
           THEN inflight' = [inflight EXCEPT ![n] = q] /\ strays' = strays
           ELSE strays' = [strays EXCEPT ![n] = q] /\ inflight' = inflight
    BY <1>9 DEF Query, graph
  <2>2. ReadStable(n, Request(n, slot), links) BY <1>1, <2>1 DEF Stable, Request
  <2>3. ReadStable(n, q, links) BY <2>1, <2>2, RequestIsKnown, ReadIsStable
  <2> HIDE DEF q
  <2>4. Stable(inflight', links) /\ Stable(strays', links)
    <3>1. CASE slot = "inflight"
      BY <1>1, <2>1, <2>3, <3>1 DEF Inv, AppInv, ReadsOf, Stable
    <3>2. CASE slot # "inflight"
      BY <1>1, <2>1, <2>3, <3>2 DEF Inv, AppInv, ReadsOf, Stable
    <3> QED BY <3>1, <3>2
  <2> QED BY <2>1, <2>4, NothingNewIsWhole DEF StableInv
<1>10. ASSUME NEW n \in Nodes, NEW slot \in Slots, Succeed(n, slot)
       PROVE  StableInv' /\ AnsweredWhole
  BY <1>10, SucceedIsWhole
<1>11. ASSUME NEW n \in Nodes, NEW slot \in Slots, Fail(n, slot)
       PROVE  StableInv' /\ AnsweredWhole
  <2>1. inflight' = Freed(n) /\ Ended(n, slot) /\ links' = links
        /\ (cache' = cache \/ cache' = [cache EXCEPT ![n] = None])
    BY <1>11 DEF Fail, graph
  <2>2. Stable(inflight', links) /\ Stable(strays', links) BY <2>1, EndedIsStable
  <2>3. \A x \in Nodes : cache'[x] = cache[x] \/ cache'[x] = None
    BY <2>1 DEF Inv, AppInv, CacheOf
  <2> QED BY <2>1, <2>2, <2>3, NothingNewIsWhole DEF StableInv
<1> QED BY <1>2, <1>3, <1>4, <1>5, <1>6, <1>7, <1>8, <1>9, <1>10, <1>11
     DEF Next, UserStep, ServerStep

(* An answer that is not marked truncated holds every link of its node that was in *)
(* the store throughout the request, of each predicate the catalogue had when it   *)
(* was read (graph.py:136-222, App.jsx:137-223), for every limit and however the   *)
(* two queries interleave with the curators' edits and with threads that parse.    *)
THEOREM UntruncatedIsWhole == Spec => UntruncatedIsComplete
<1>1. Init => StableInv
  BY DEF Init, Empty, Nothing, StableInv, Stable
<1>2. Inv /\ StableInv /\ [Next]_vars =>
        [\A n \in Nodes : cache'[n] \notin {cache[n], None} /\ ~cache'[n].truncated =>
            \E slot \in Slots : /\ Request(n, slot) # None
                                /\ Lasting(Request(n, slot)) \subseteq AnswerLinks(n, cache'[n])]_vars
  BY NextIsWhole DEF AnsweredWhole
<1> QED BY <1>1, <1>2, NextIsWhole, AlwaysInv, PTL DEF Spec, UntruncatedIsComplete

(* ---------------------- the canvas that draws the map ---------------------- *)
(* The view compares numbers of nodes and edges; a map that changed in either   *)
(* way only has other numbers, since both are finite.                           *)
LEMMA LinksFinite == IsFiniteSet(Links)
<1> DEFINE S == Nodes \X Row
           f == [w \in S |-> <<w[1], w[2][1], w[2][2]>>]
<1>1. IsFiniteSet(S) BY FS_Product, RowFinite, GraphNodeAssumption
<1>2. IsFiniteSet({f[w] : w \in S})
  <2>1. f \in [S -> {f[w] : w \in S}] OBVIOUS
  <2> HIDE DEF f, S
  <2>2. f \in Surjection(S, {f[w] : w \in S}) BY <2>1 DEF Surjection
  <2> QED BY <1>1, <2>2, FS_Surjection
<1>3. Links \subseteq {f[w] : w \in S}
  <2> SUFFICES ASSUME NEW l \in Links PROVE \E w \in S : l = f[w]
    OBVIOUS
  <2>1. <<l[1], <<l[2], l[3]>>>> \in S BY GraphNodeAssumption DEF Row
  <2>2. f[<<l[1], <<l[2], l[3]>>>>] = l BY <2>1, LinkEnds
  <2> QED BY <2>1, <2>2
<1> QED BY <1>2, <1>3, FS_Subset

LEMMA SameSize ==
  ASSUME NEW S, NEW T, S \subseteq T, IsFiniteSet(T), Cardinality(S) = Cardinality(T)
  PROVE  S = T
BY FS_Subset

LEMMA SameKeySameMap ==
  ASSUME OneWay, edges \subseteq Links, edges' \subseteq Links,
         StructureKey(nodes', edges') = StructureKey(nodes, edges)
  PROVE  OnMap' = OnMap /\ edges' = edges
<1>1. /\ Cardinality(OnMap') = Cardinality(OnMap)
      /\ Cardinality(edges') = Cardinality(edges)
  BY DEF StructureKey, OnMap
<1>2. OnMap \subseteq Nodes /\ OnMap' \subseteq Nodes BY DEF OnMap
<1>3. IsFiniteSet(OnMap) /\ IsFiniteSet(OnMap') /\ IsFiniteSet(edges) /\ IsFiniteSet(edges')
  BY <1>2, LinksFinite, FS_Subset, GraphNodeAssumption
<1>4. \/ OnMap \subseteq OnMap' /\ edges \subseteq edges'
      \/ OnMap' \subseteq OnMap /\ edges' \subseteq edges
  BY DEF OneWay, OnMap
<1>5. CASE OnMap \subseteq OnMap' /\ edges \subseteq edges'
  BY <1>1, <1>3, <1>5, SameSize
<1>6. CASE OnMap' \subseteq OnMap /\ edges' \subseteq edges
  <2>1. OnMap' = OnMap BY <1>1, <1>3, <1>6, SameSize
  <2>2. edges' = edges BY <1>1, <1>3, <1>6, SameSize
  <2> QED BY <2>1, <2>2
<1> QED BY <1>4, <1>5, <1>6

(* A layout that runs was given the map as it is: any other map cancels it.     *)
CanvasInv == /\ layout = None => drawn = OnMap /\ drawnEdges = edges
             /\ layout # None => layout = [nodes |-> OnMap, edges |-> edges]

LEMMA LayOutShows ==
  ASSUME NEW on \in SUBSET Nodes, NEW p, NEW e \in SUBSET Links, LayOut(on, p, e)
  PROVE  \/ layout' = None /\ drawn' = on /\ drawnEdges' = e
         \/ layout' # None /\ layout' = [nodes |-> on, edges |-> e]
<1>1. None # [nodes |-> on, edges |-> e] BY LayoutAssumption
<1> QED BY <1>1 DEF LayOut, Draw

LEMMA CanvasStep ==
  ASSUME Inv, CanvasInv, [ViewNext]_viewVars
  PROVE  CanvasInv'
<1>1. edges \in SUBSET Links /\ OnMap \in SUBSET Nodes
  BY DEF Inv, AppInv, MapOf, OnMap
<1>2. CASE Next /\ Render
  <2>1. Inv' /\ OneWay BY <1>2, NextInv
  <2>2. edges' \in SUBSET Links /\ OnMap' \in SUBSET Nodes
    BY <2>1 DEF Inv, AppInv, MapOf, OnMap
  <2>3. \/ OnMap' = {} /\ Draw({}, {}) /\ layout' = None
        \/ LayOut(OnMap', placed, edges')
        \/ /\ StructureKey(nodes', edges') = StructureKey(nodes, edges)
           /\ Patch /\ UNCHANGED layout
    BY <1>2 DEF Render, OnMap
  <2>4. CASE OnMap' = {} /\ Draw({}, {}) /\ layout' = None
    <3>1. edges' = {} BY <2>1, <2>2, <2>4, LinkEnds DEF Inv, AppInv, MapOf, OnMap
    <3> QED BY <2>4, <3>1 DEF Draw, CanvasInv
  <2>5. CASE LayOut(OnMap', placed, edges')
    BY <2>2, <2>5, LayOutShows DEF CanvasInv
  <2>6. CASE /\ StructureKey(nodes', edges') = StructureKey(nodes, edges)
             /\ Patch /\ UNCHANGED layout
    <3>1. OnMap' = OnMap /\ edges' = edges BY <1>1, <2>1, <2>2, <2>6, SameKeySameMap
    <3> QED BY <2>6, <3>1 DEF Patch, CanvasInv
  <2> QED BY <2>3, <2>4, <2>5, <2>6
<1>3. CASE Relayout
  <2>1. LayOut(OnMap, {}, edges) /\ OnMap' = OnMap /\ edges' = edges
    BY <1>3 DEF Relayout, vars, app, OnMap
  <2> QED BY <1>1, <2>1, LayOutShows DEF CanvasInv
<1>4. CASE LayoutDone
  <2>1. OnMap' = OnMap /\ edges' = edges BY <1>4 DEF LayoutDone, vars, app, OnMap
  <2> QED BY <1>4, <2>1 DEF LayoutDone, CanvasInv
<1>5. CASE (\E n \in Nodes : DragNode(n)) \/ UNCHANGED viewVars
  BY <1>5 DEF DragNode, viewVars, view, vars, app, OnMap, CanvasInv
<1> QED BY <1>2, <1>3, <1>4, <1>5 DEF ViewNext

(* When no layout runs, the canvas shows the nodes and the edges of the map, no *)
(* more and no fewer (GraphView.jsx:111-158).                                   *)
THEOREM CanvasIsMap == ViewSpec => []CanvasShowsMap
<1>1. ViewInit => Init /\ CanvasInv
  BY DEF ViewInit, Init, Empty, Nothing, CanvasInv, OnMap
<1>2. [ViewNext]_viewVars => [Next]_vars
  BY DEF ViewNext, viewVars, Relayout, LayoutDone, DragNode
<1>3. Inv /\ CanvasInv /\ [ViewNext]_viewVars => CanvasInv'
  BY CanvasStep
<1>4. CanvasInv => CanvasShowsMap BY DEF CanvasInv, CanvasShowsMap
<1>5. Inv /\ [ViewNext]_viewVars => Inv' BY <1>2, NextInv
<1> QED BY InitInv, <1>1, <1>3, <1>4, <1>5, PTL DEF ViewSpec
=================================================================================
