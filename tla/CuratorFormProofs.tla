--------------------------- MODULE CuratorFormProofs ---------------------------
(* What the curator's page saves and keeps, for any shapes, records and links and  *)
(* any number of requests and saves under way.                                     *)
EXTENDS CuratorForm, SequenceTheorems, TLAPS

(* ----------------------- what the form knows of its record ----------------------- *)
(* rec is the record the page gave the form.  Before the schema came the form waits *)
(* for no nodes; a form without a record holds no record's values and waits for     *)
(* none; an edit form waits for its own record's nodes or was hydrated with them,   *)
(* and its own record's links are then its cards or were removed by hand.  Only     *)
(* records have links to show.                                                      *)
FormInv(f, rec) ==
  f # Gone =>
    /\ ~f.schema => f.wait = {}
    /\ f.of \notin Records => f.cards = {} /\ f.files = {}
    /\ f.schema /\ rec = None => f.of \notin Records /\ f.wait = {}
    /\ f.schema /\ rec # None =>
         /\ f.wait \subseteq {rec}
         /\ f.wait = {} => f.hydrated = rec
         /\ f.hydrated = rec => f.of = rec.id
         /\ f.hydrated = rec /\ f.failed = {} =>
              rec.links \intersect Bridges \subseteq f.cards \union f.removed

(* A save is about one record, and the connections it replaces are those it sends  *)
(* or those the user removed.                                                      *)
PostInv(p) == /\ p.from = p.id
              /\ p.of = p.id \/ (p.id = None /\ p.of \notin Records)
              /\ p.orig \intersect Bridges \subseteq p.adds \union p.removed

Drafts == [Shapes -> Records \union {Typed, None}]
NoRecords(d) == \A s \in Shapes : d[s] \notin Records

PageOK == /\ shape \in Shapes \union {None} /\ selected \in Records \union {None}
          /\ loaded \in Entity \union {None} /\ loading \in BOOLEAN
          /\ view \in {"form", "records"}
          /\ drafts \in Drafts /\ NoRecords(drafts)
          /\ selected = None => ~loading
FormOK == /\ form \in Forms \union {Gone}
          /\ (form # Gone) = Shown(shape, selected, loading, view)
          /\ FormInv(form, loaded)
FetchesOK == fetches \in Seq(Entity) /\ Len(fetches) <= MaxFetches
PostsOK == posts \subseteq Posts /\ \A p \in posts : PostInv(p)
Inv == /\ PageOK /\ FormOK /\ FetchesOK /\ PostsOK /\ links \in [Records -> SUBSET Nodes]

LEMMA Apart == /\ Blank \notin Records /\ Typed \notin Records
               /\ None \notin Records /\ None \notin Shapes /\ Gone \notin Forms
BY FormAssumption, GoneAssumption

LEMMA FreshForm == \A rec : Fresh \in Forms /\ FormInv(Fresh, rec)
BY DEF Fresh, Forms, FormInv

(* ------------------------------ the form's effects ------------------------------ *)
LEMMA SeededForm ==
  ASSUME NEW f \in Forms, NEW draft \in Records \union {Typed, None}, draft \notin Records
  PROVE  /\ Seeded(f, draft) \in Forms /\ Seeded(f, draft).schema = f.schema
         /\ Seeded(f, draft).of \notin Records /\ Seeded(f, draft).wait = {}
         /\ Seeded(f, draft).cards = {} /\ Seeded(f, draft).files = {}
<1> DEFINE of == IF draft = None THEN Blank ELSE draft
<1>1. of \in Records \union {Blank, Typed} /\ of \notin Records BY Apart
<1> HIDE DEF of
<1>2. Seeded(f, draft) = [f EXCEPT !.of = of, !.cards = {}, !.files = {}, !.touched = {},
                                   !.removed = {}, !.wait = {}]
  BY DEF Seeded, of
<1> QED BY <1>1, <1>2 DEF Forms

LEMMA HydratedForm ==
  ASSUME NEW f \in Forms, NEW rec \in Entity \union {None},
         NEW draft \in Records \union {Typed, None}, draft \notin Records
  PROVE  /\ Hydrate(f, rec, draft) \in Forms /\ Hydrate(f, rec, draft).schema = f.schema
         /\ rec = None => /\ Hydrate(f, rec, draft).of \notin Records
                          /\ Hydrate(f, rec, draft).wait = {}
                          /\ Hydrate(f, rec, draft).cards = {}
                          /\ Hydrate(f, rec, draft).files = {}
         /\ rec # None => /\ Hydrate(f, rec, draft).wait = {rec}
                          /\ Hydrate(f, rec, draft).hydrated = None
                          /\ Hydrate(f, rec, draft).of = f.of
                          /\ Hydrate(f, rec, draft).cards = f.cards
                          /\ Hydrate(f, rec, draft).files = f.files
<1>1. CASE rec = None BY <1>1, SeededForm DEF Hydrate
<1>2. CASE rec # None
  <2> DEFINE w == {rec}
  <2>1. Hydrate(f, rec, draft) = [f EXCEPT !.hydrated = None, !.failed = {}, !.wait = w]
    BY <1>2 DEF Hydrate, Await
  <2>2. w \in SUBSET Entity BY <1>2
  <2> HIDE DEF w
  <2>3. /\ Hydrate(f, rec, draft) \in Forms /\ Hydrate(f, rec, draft).schema = f.schema
        /\ Hydrate(f, rec, draft).wait = w /\ Hydrate(f, rec, draft).hydrated = None
        /\ Hydrate(f, rec, draft).of = f.of /\ Hydrate(f, rec, draft).cards = f.cards
        /\ Hydrate(f, rec, draft).files = f.files
    BY <2>1, <2>2 DEF Forms
  <2> QED BY <1>2, <2>3 DEF w
<1> QED BY <1>1, <1>2

Linked(f) == f.of \notin Records => f.cards = {} /\ f.files = {}

LEMMA HydratedInv ==
  ASSUME NEW f \in Forms, f.schema, Linked(f), NEW rec \in Entity \union {None},
         NEW draft \in Records \union {Typed, None}, draft \notin Records
  PROVE  Hydrate(f, rec, draft) \in Forms /\ FormInv(Hydrate(f, rec, draft), rec)
<1> DEFINE q == Hydrate(f, rec, draft)
<1>1. q \in Forms /\ q.schema = f.schema BY HydratedForm
<1>2. q.schema = TRUE BY <1>1 DEF Forms
<1>3. CASE rec = None
  <2>1. q.of \notin Records /\ q.wait = {} /\ q.cards = {} /\ q.files = {}
    BY <1>3, HydratedForm
  <2> HIDE DEF q
  <2>2. FormInv(q, rec) BY <1>2, <1>3, <2>1 DEF FormInv
  <2> QED BY <1>1, <2>2 DEF q
<1>4. CASE rec # None
  <2>1. /\ q.wait = {rec} /\ q.hydrated = None /\ q.of = f.of
        /\ q.cards = f.cards /\ q.files = f.files
    BY <1>4, HydratedForm
  <2> HIDE DEF q
  <2>2. FormInv(q, rec) BY <1>2, <1>4, <2>1 DEF FormInv, Linked
  <2> QED BY <1>1, <2>2 DEF q
<1> QED BY <1>3, <1>4

(* The form after a state update of the page, whatever it changes: a record that   *)
(* the form did not have before comes with a run of its effects or another shape.  *)
Fits(q, sh, sel, ld, vw, rec) ==
  q \in Forms \union {Gone} /\ (q # Gone) = Shown(sh, sel, ld, vw) /\ FormInv(q, rec)

LEMMA RenderedForm ==
  ASSUME PageOK, FormOK, NEW sh \in Shapes \union {None}, NEW sel, NEW ld, NEW vw,
         NEW rec \in Entity \union {None}, NEW d \in Drafts, NoRecords(d),
         NEW rerun, rec = loaded \/ rerun = TRUE \/ sh # shape,
         NEW q, q = Rendered(sh, sel, ld, vw, rec, d, rerun)
  PROVE  Fits(q, sh, sel, ld, vw, rec)
<1>1. CASE ~Shown(sh, sel, ld, vw)
  <2>1. q = Gone BY <1>1 DEF Rendered
  <2>2. (q # Gone) = Shown(sh, sel, ld, vw) BY <1>1, <2>1 DEF Shown
  <2>3. FormInv(q, rec) BY <2>1 DEF FormInv
  <2> QED BY <2>1, <2>2, <2>3 DEF Fits
<1>2. CASE Shown(sh, sel, ld, vw)
  <2>1. sh \in Shapes BY <1>2 DEF Shown
  <2>2. q = Rerendered(sh, rec, d, rerun) BY <1>2 DEF Rendered
  <2>3. q \in Forms /\ FormInv(q, rec)
    <3>1. CASE form = Gone
      <4>1. q = Fresh BY <2>2, <3>1 DEF Rerendered
      <4> QED BY <4>1, FreshForm
    <3>2. CASE form # Gone /\ sh # shape
      <4>1. q = [form EXCEPT !.schema = FALSE, !.wait = {}] BY <2>2, <3>2 DEF Rerendered
      <4>2. form \in Forms BY <3>2 DEF FormOK
      <4>3. /\ q \in Forms /\ q.schema = FALSE /\ q.wait = {} /\ q.of = form.of
            /\ q.cards = form.cards /\ q.files = form.files
        BY <4>1, <4>2 DEF Forms
      <4>4. form.of \notin Records => form.cards = {} /\ form.files = {}
        BY <3>2 DEF FormOK, FormInv
      <4>5. FormInv(q, rec) BY <4>3, <4>4 DEF FormInv
      <4> QED BY <4>3, <4>5
    <3>3. CASE form # Gone /\ sh = shape /\ rerun /\ form.schema
      <4>1. q = Hydrate(form, rec, d[sh]) BY <2>2, <3>3 DEF Rerendered
      <4>2. form \in Forms BY <3>3 DEF FormOK
      <4>3. d[sh] \in Records \union {Typed, None} /\ d[sh] \notin Records
        BY <2>1 DEF Drafts, NoRecords
      <4>4. Linked(form) BY <3>3 DEF FormOK, FormInv, Linked
      <4> QED BY <3>3, <4>1, <4>2, <4>3, <4>4, HydratedInv
    <3>4. CASE form # Gone /\ sh = shape /\ ~(rerun /\ form.schema)
      <4>1. q = form BY <2>2, <3>4 DEF Rerendered
      <4>2. form \in Forms /\ FormInv(form, loaded) BY <3>4 DEF FormOK
      <4>3. CASE rec = loaded BY <4>1, <4>2, <4>3
      <4>4. CASE ~form.schema BY <4>1, <4>2, <4>4 DEF FormInv
      <4> QED BY <3>4, <4>3, <4>4
    <3> QED BY <3>1, <3>2, <3>3, <3>4
  <2>4. q # Gone BY <2>3, Apart
  <2>5. (q # Gone) = Shown(sh, sel, ld, vw) BY <1>2, <2>4 DEF Shown
  <2> QED BY <2>3, <2>5 DEF Fits
<1> QED BY <1>1, <1>2

LEMMA PageKeeps ==
  ASSUME Inv, NEW sh \in Shapes \union {None}, NEW sel \in Records \union {None},
         NEW rec \in Entity \union {None}, NEW ld \in {TRUE, FALSE}, NEW vw \in {"form", "records"},
         NEW d \in Drafts, NoRecords(d), NEW rerun,
         sel = None => ld = FALSE, rec = loaded \/ rerun = TRUE \/ sh # shape,
         Page(sh, sel, rec, ld, vw, d, rerun)
  PROVE  PageOK' /\ FormOK'
<1>1. /\ shape' = sh /\ selected' = sel /\ loaded' = rec /\ loading' = ld /\ view' = vw
      /\ drafts' = d /\ form' = Rendered(sh, sel, ld, vw, rec, d, rerun)
  BY DEF Page
<1>2. PageOK' BY <1>1 DEF PageOK, NoRecords
<1> DEFINE q == form'
<1>3. q = Rendered(sh, sel, ld, vw, rec, d, rerun) BY <1>1
<1> HIDE DEF q
<1>4. Fits(q, sh, sel, ld, vw, rec)
  BY <1>3, RenderedForm DEF Inv
<1>5. FormOK' BY <1>1, <1>4 DEF FormOK, Fits, q
<1> QED BY <1>2, <1>5

LEMMA LeaveKeeps == ASSUME Inv, Leave PROVE PostsOK'
<1>1. posts' = posts \/ posts' = LeftBehind(posts) BY DEF Leave
<1>2. ASSUME NEW p \in LeftBehind(posts) PROVE p \in Posts /\ PostInv(p)
  <2>1. PICK o \in posts : p = IF o.page = "form" THEN [o EXCEPT !.page = "left"] ELSE o
    BY DEF LeftBehind
  <2>2. o \in Posts /\ PostInv(o) BY DEF Inv, PostsOK
  <2>3. CASE o.page = "form"
    <3>1. p = [o EXCEPT !.page = "left"] BY <2>1, <2>3
    <3> QED BY <2>2, <3>1 DEF Posts, PostInv
  <2>4. CASE o.page # "form" BY <2>1, <2>2, <2>4
  <2> QED BY <2>3, <2>4
<1> QED BY <1>1, <1>2 DEF Inv, PostsOK

(* ------------------------------ the user browses ------------------------------ *)
LEMMA LoadShapesKeeps == ASSUME Inv, LoadShapes PROVE Inv'
<1>1. PICK s \in Shapes : Page(s, None, None, FALSE, "form", drafts, FALSE) BY DEF LoadShapes
<1>2. s # shape BY Apart DEF LoadShapes
<1>3. PageOK' /\ FormOK' BY <1>1, <1>2, PageKeeps DEF Inv, PageOK
<1>4. fetches' = fetches /\ posts' = posts /\ links' = links BY DEF LoadShapes
<1> QED BY <1>3, <1>4 DEF Inv, FetchesOK, PostsOK

LEMMA SelectShapeKeeps == ASSUME Inv, NEW s \in Shapes, SelectShape(s) PROVE Inv'
<1> DEFINE vw == IF s \in Helpers THEN "records" ELSE "form"
           rerun == loaded # None
<1>1. Page(s, None, None, FALSE, vw, drafts, rerun) /\ Leave
  BY DEF SelectShape
<1>2. vw \in {"form", "records"} /\ (None = loaded \/ rerun = TRUE) OBVIOUS
<1> HIDE DEF vw, rerun
<1>3. PageOK' /\ FormOK' BY <1>1, <1>2, PageKeeps DEF Inv, PageOK
<1>4. fetches' = fetches /\ links' = links BY DEF SelectShape
<1> QED BY <1>1, <1>3, <1>4, LeaveKeeps DEF Inv, FetchesOK

LEMMA FetchKeeps ==
  ASSUME Inv, NEW r \in Records, NEW vw \in {"form", "records"}, Fetch(r, vw), shape # None
  PROVE  Inv'
<1>1. Page(shape, r, loaded, TRUE, vw, drafts, FALSE) /\ Leave /\ links' = links
      /\ Len(fetches) < MaxFetches /\ fetches' = Append(fetches, [id |-> r, links |-> links[r]])
  BY DEF Fetch
<1>2. PageOK' /\ FormOK'
  <2>1. r # None BY Apart
  <2> QED BY <1>1, <2>1, PageKeeps DEF Inv, PageOK
<1> DEFINE e == [id |-> r, links |-> links[r]]
<1>3. e \in Entity BY DEF Entity, Inv
<1> HIDE DEF e
<1>4. FetchesOK' BY <1>1, <1>3, AppendProperties, FormAssumption DEF Inv, FetchesOK, e
<1> QED BY <1>1, <1>2, <1>4, LeaveKeeps DEF Inv

LEMMA SwitchKeeps ==
  ASSUME Inv, NEW vw \in {"form", "records"}, SwitchTo(vw)
  PROVE  Inv'
<1>1. Page(shape, selected, loaded, loading, vw, drafts, FALSE) /\ Leave /\ links' = links
      /\ fetches' = fetches
  BY DEF SwitchTo
<1>2. PageOK' /\ FormOK' BY <1>1, PageKeeps DEF Inv, PageOK
<1> QED BY <1>1, <1>2, LeaveKeeps DEF Inv, FetchesOK

LEMMA BrowseKeeps ==
  ASSUME Inv, NEW r \in Records, EditRow(r) \/ ViewRow(r) \/ FollowLink(r)
  PROVE  Inv'
<1>1. CASE EditRow(r) BY <1>1, FetchKeeps, SwitchKeeps DEF EditRow, Browsing
<1>2. CASE ViewRow(r) BY <1>2, FetchKeeps, SwitchKeeps DEF ViewRow, Browsing
<1>3. CASE FollowLink(r) BY <1>3, FetchKeeps DEF FollowLink
<1> QED BY <1>1, <1>2, <1>3

(* --------------------------- answers about the record --------------------------- *)
LEMMA FetchLeaves ==
  ASSUME FetchesOK, NEW i \in DOMAIN fetches, fetches' = RemoveAt(fetches, i)
  PROVE  FetchesOK' /\ fetches[i] \in Entity
<1>1. fetches \in Seq(Entity) /\ Len(fetches) \in Nat /\ i \in 1..Len(fetches)
  BY DEF FetchesOK
<1> DEFINE u == SubSeq(fetches, 1, i - 1)
           v == SubSeq(fetches, i + 1, Len(fetches))
<1>2. u \in Seq(Entity) /\ Len(u) = i - 1
  <2>1. \A k \in 1..(i - 1) : fetches[k] \in Entity BY <1>1
  <2> QED BY <1>1, <2>1, SubSeqProperties
<1>3. v \in Seq(Entity) /\ Len(v) = Len(fetches) - i
  <2>1. \A k \in (i + 1)..Len(fetches) : fetches[k] \in Entity BY <1>1
  <2> QED BY <1>1, <2>1, SubSeqProperties
<1>4. fetches' = u \o v BY DEF RemoveAt
<1> HIDE DEF u, v
<1>5. u \o v \in Seq(Entity) /\ Len(u \o v) = Len(u) + Len(v) BY <1>2, <1>3, ConcatProperties
<1> QED BY <1>1, <1>2, <1>3, <1>4, <1>5, FormAssumption DEF FetchesOK

LEMMA FetchAnswersKeeps == ASSUME Inv, NEW i \in DOMAIN fetches, FetchAnswers(i) PROVE Inv'
<1>1. FetchesOK' /\ fetches[i] \in Entity BY FetchLeaves DEF Inv, FetchAnswers
<1>2. PICK ls \in {fetches[i].links, links[fetches[i].id]} :
        Page(shape, selected, [id |-> fetches[i].id, links |-> ls], FALSE, view, drafts, TRUE)
  BY DEF FetchAnswers
<1> DEFINE rec == [id |-> fetches[i].id, links |-> ls]
<1>3. rec \in Entity BY <1>1 DEF Entity, Inv
<1>4. Page(shape, selected, rec, FALSE, view, drafts, TRUE) BY <1>2
<1> HIDE DEF rec
<1>5. PageOK' /\ FormOK' BY <1>3, <1>4, PageKeeps DEF Inv, PageOK
<1>6. Leave /\ links' = links BY DEF FetchAnswers
<1> QED BY <1>1, <1>5, <1>6, LeaveKeeps DEF Inv

LEMMA FetchFailsKeeps == ASSUME Inv, NEW i \in DOMAIN fetches, FetchFails(i) PROVE Inv'
<1> DEFINE rerun == loaded # None
<1>1. FetchesOK' BY FetchLeaves DEF Inv, FetchFails
<1>2. Page(shape, selected, None, FALSE, view, drafts, rerun) BY DEF FetchFails
<1>3. (None = loaded \/ rerun = TRUE) OBVIOUS
<1> HIDE DEF rerun
<1>4. PageOK' /\ FormOK' BY <1>2, <1>3, PageKeeps DEF Inv, PageOK
<1>5. Leave /\ links' = links BY DEF FetchFails
<1> QED BY <1>1, <1>4, <1>5, LeaveKeeps DEF Inv

LEMMA SchemaAnswersKeeps == ASSUME Inv, SchemaAnswers PROVE Inv'
<1>1. form # Gone /\ form \in Forms BY DEF SchemaAnswers, Inv, FormOK
<1>2. shape \in Shapes
  BY <1>1 DEF Inv, PageOK, FormOK, Shown
<1> DEFINE h == Hydrate(form, loaded, drafts[shape])
           q == [h EXCEPT !.schema = TRUE]
<1>3. drafts[shape] \in Records \union {Typed, None} /\ drafts[shape] \notin Records
  BY <1>2 DEF Inv, PageOK, Drafts, NoRecords
<1>4. loaded \in Entity \union {None} BY DEF Inv, PageOK
<1>5. /\ h \in Forms
      /\ loaded = None => h.of \notin Records /\ h.wait = {} /\ h.cards = {} /\ h.files = {}
      /\ loaded # None => /\ h.wait = {loaded} /\ h.hydrated = None /\ h.of = form.of
                          /\ h.cards = form.cards /\ h.files = form.files
  BY <1>1, <1>3, <1>4, HydratedForm
<1>6. form' = q BY DEF SchemaAnswers
<1> HIDE DEF h
<1>7. /\ q \in Forms /\ q.schema = TRUE /\ q.of = h.of /\ q.wait = h.wait
      /\ q.hydrated = h.hydrated /\ q.cards = h.cards /\ q.files = h.files
  BY <1>5 DEF Forms
<1> HIDE DEF q
<1>8. FormInv(q, loaded)
  <2>1. CASE loaded = None BY <1>5, <1>7, <2>1 DEF FormInv
  <2>2. CASE loaded # None
    <3>1. /\ q.wait = {loaded} /\ q.wait # {} /\ q.hydrated # loaded
          /\ q.of \notin Records => q.cards = {} /\ q.files = {}
      BY <1>1, <1>5, <1>7, <2>2 DEF Inv, FormOK, FormInv
    <3> QED BY <1>7, <2>2, <3>1 DEF FormInv
  <2> QED BY <2>1, <2>2
<1>9. /\ shape' = shape /\ selected' = selected /\ loaded' = loaded /\ loading' = loading
      /\ view' = view /\ drafts' = drafts /\ fetches' = fetches /\ posts' = posts
      /\ links' = links
  BY DEF SchemaAnswers, page
<1>10. q # Gone BY <1>7, Apart
<1>11. FormOK' BY <1>1, <1>6, <1>7, <1>8, <1>9, <1>10 DEF Inv, FormOK
<1> QED BY <1>9, <1>11 DEF Inv, PageOK, NoRecords, FetchesOK, PostsOK

LEMMA NodesArriveKeeps == ASSUME Inv, NodesArrive PROVE Inv'
<1>1. PICK rec \in form.wait : \E bad \in SUBSET rec.links : NodesAnswer(rec, bad)
  BY DEF NodesArrive
<1>2. PICK bad \in SUBSET rec.links : NodesAnswer(rec, bad) BY <1>1
<1>3. form # Gone /\ form \in Forms BY DEF NodesArrive, Inv, FormOK
<1>4. /\ form.schema = TRUE /\ loaded # None /\ rec = loaded /\ form.wait \subseteq {loaded}
  BY <1>1, <1>3 DEF Inv, FormOK, FormInv, Forms
<1>5. rec \in Entity BY <1>4 DEF Inv, PageOK
<1>6. rec.id \in Records /\ rec.links \subseteq Nodes BY <1>5 DEF Entity
<1> DEFINE cards == (rec.links \intersect Bridges) \ bad
           files == (rec.links \intersect Files) \ bad
           wait == form.wait \ {rec}
           failed == bad \intersect Bridges
           q == [form EXCEPT !.of = rec.id, !.cards = cards, !.files = files, !.touched = {},
                             !.removed = {}, !.wait = wait, !.hydrated = rec, !.failed = failed]
<1>7. form' = q BY <1>2 DEF NodesAnswer, Failures, FailedNested
<1>8. /\ cards \subseteq Bridges /\ files \subseteq Files /\ failed \subseteq Bridges /\ wait = {}
      /\ wait \subseteq Entity /\ failed = {} => rec.links \intersect Bridges \subseteq cards
  BY <1>4
<1> HIDE DEF cards, files, wait, failed
<1>9. /\ q \in Forms /\ q.schema = TRUE /\ q.of = rec.id /\ q.wait = {} /\ q.hydrated = rec
      /\ q.cards = cards /\ q.failed = failed
  BY <1>3, <1>4, <1>5, <1>6, <1>8 DEF Forms
<1> HIDE DEF q
<1>10. FormInv(q, loaded)
  <2>1. q.failed = {} => loaded.links \intersect Bridges \subseteq q.cards \union q.removed
    BY <1>4, <1>8, <1>9
  <2> QED BY <1>4, <1>6, <1>9, <2>1 DEF FormInv
<1>11. /\ shape' = shape /\ selected' = selected /\ loaded' = loaded /\ loading' = loading
       /\ view' = view /\ drafts' = drafts /\ fetches' = fetches /\ posts' = posts
       /\ links' = links
  BY <1>2 DEF NodesAnswer, page
<1>12. q # Gone BY <1>9, Apart
<1>13. FormOK' BY <1>3, <1>7, <1>9, <1>10, <1>11, <1>12 DEF Inv, FormOK
<1> QED BY <1>11, <1>13 DEF Inv, PageOK, NoRecords, FetchesOK, PostsOK

(* ---------------------------- the user fills the form ---------------------------- *)
(* An edit that leaves the record the form was filled from, or types over no record *)
(* at all, and removes cards only by noting them.                                   *)
LEMMA EditedKeeps ==
  ASSUME Inv, Open, NEW q \in Forms, Edited(q), q.schema = form.schema, q.wait = form.wait,
         q.hydrated = form.hydrated, q.failed = form.failed,
         q.of = form.of \/ (form.of \notin Records /\ q.of \notin Records),
         q.of \in Records \union {Typed}, Linked(q),
         form.cards \union form.removed \subseteq q.cards \union q.removed
  PROVE  Inv'
<1>1. form # Gone /\ form.schema /\ form \in Forms /\ FormInv(form, loaded)
  BY DEF Open, Inv, FormOK
<1>2. shape \in Shapes BY <1>1 DEF Inv, PageOK, FormOK, Shown
<1>3. form.schema = TRUE /\ q.schema = TRUE BY <1>1 DEF Forms
<1>4. FormInv(q, loaded)
  <2>1. CASE loaded = None
    <3>1. form.of \notin Records /\ form.wait = {} BY <1>1, <2>1 DEF FormInv
    <3> QED BY <1>3, <2>1, <3>1 DEF FormInv, Linked
  <2>2. CASE loaded # None
    <3>1. /\ form.wait \subseteq {loaded}
          /\ form.wait = {} => form.hydrated = loaded
          /\ form.hydrated = loaded => form.of = loaded.id
          /\ form.hydrated = loaded /\ form.failed = {} =>
               loaded.links \intersect Bridges \subseteq form.cards \union form.removed
      BY <1>1, <2>2 DEF FormInv
    <3>2. form.hydrated = loaded => form.of \in Records
      BY <2>2, <3>1 DEF Inv, PageOK, Entity
    <3>3. form.hydrated = loaded => q.of = loaded.id BY <3>1, <3>2
    <3>4. q.hydrated = loaded /\ q.failed = {} =>
            loaded.links \intersect Bridges \subseteq q.cards \union q.removed
      BY <3>1
    <3> QED BY <1>3, <2>2, <3>1, <3>3, <3>4 DEF FormInv, Linked
  <2> QED BY <2>1, <2>2
<1>5. /\ shape' = shape /\ selected' = selected /\ loaded' = loaded /\ loading' = loading
      /\ view' = view /\ fetches' = fetches /\ posts' = posts /\ links' = links
      /\ form' = q /\ drafts' = Published(q.of)
  BY DEF Edited
<1>6. drafts' \in Drafts /\ NoRecords(drafts')
  <2>1. CASE loaded # None BY <1>5, <2>1 DEF Published, Inv, PageOK
  <2>2. CASE loaded = None
    <3>1. q.of \notin Records BY <1>1, <1>3, <1>4, <2>2, Apart DEF FormInv
    <3>2. drafts' = [drafts EXCEPT ![shape] = q.of] BY <1>5, <2>2 DEF Published
    <3>3. q.of = Typed BY <3>1
    <3> QED BY <1>2, <3>1, <3>2, <3>3 DEF Inv, PageOK, Drafts, NoRecords
  <2> QED BY <2>1, <2>2
<1>7. PageOK' BY <1>5, <1>6 DEF Inv, PageOK
<1>8. q # Gone BY Apart
<1>9. FormOK' BY <1>1, <1>4, <1>5, <1>8 DEF Inv, FormOK
<1> QED BY <1>5, <1>7, <1>9 DEF Inv, FetchesOK, PostsOK

LEMMA TypeKeeps == ASSUME Inv, Type PROVE Inv'
<1> DEFINE of == IF form.of \in Records THEN form.of ELSE Typed
           q == [form EXCEPT !.of = of]
<1>1. Open /\ Edited(q) BY DEF Type
<1>2. form \in Forms /\ Linked(form) BY DEF Type, Open, Inv, FormOK, FormInv, Linked
<1>3. /\ of \in Records \union {Typed} /\ (of = form.of \/ (form.of \notin Records /\ of \notin Records))
      /\ of \notin Records => form.of \notin Records
  BY Apart
<1> HIDE DEF of
<1>4. /\ q \in Forms /\ q.of = of /\ q.schema = form.schema /\ q.wait = form.wait
      /\ q.hydrated = form.hydrated /\ q.failed = form.failed
      /\ q.cards = form.cards /\ q.files = form.files /\ q.removed = form.removed
  BY <1>2, <1>3 DEF Forms
<1> HIDE DEF q
<1>5. Linked(q) BY <1>2, <1>3, <1>4 DEF Linked
<1> QED BY <1>1, <1>3, <1>4, <1>5, EditedKeeps

LEMMA TouchKeeps == ASSUME Inv, NEW what \in {"cards", "files"}, Touch(what) PROVE Inv'
<1> DEFINE touched == form.touched \union {what}
           q == [form EXCEPT !.touched = touched]
<1>1. Open /\ Edited(q) /\ form.of \in Records BY DEF Touch
<1>2. form \in Forms BY DEF Touch, Open, Inv, FormOK
<1>3. touched \subseteq {"cards", "files"} BY <1>2 DEF Forms
<1> HIDE DEF touched
<1>4. /\ q \in Forms /\ q.of = form.of /\ q.schema = form.schema /\ q.wait = form.wait
      /\ q.hydrated = form.hydrated /\ q.failed = form.failed
      /\ q.cards = form.cards /\ q.removed = form.removed
  BY <1>2, <1>3 DEF Forms
<1> HIDE DEF q
<1>5. Linked(q) BY <1>1, <1>4 DEF Linked
<1> QED BY <1>1, <1>4, <1>5, EditedKeeps

LEMMA RemoveEntryKeeps == ASSUME Inv, NEW n \in Nodes, RemoveEntry(n) PROVE Inv'
<1> DEFINE what == IF n \in Files THEN "files" ELSE "cards"
           cards == form.cards \ {n}
           files == form.files \ {n}
           removed == form.removed \union {n}
           touched == form.touched \union {what}
           q == [form EXCEPT !.cards = cards, !.files = files, !.removed = removed,
                             !.touched = touched]
<1>1. Open /\ Edited(q) /\ n \in form.cards \union form.files BY DEF RemoveEntry
<1>2. form \in Forms /\ Linked(form) BY <1>1 DEF Open, Inv, FormOK, FormInv, Linked
<1>3. form.of \in Records BY <1>1, <1>2 DEF Linked
<1>4. /\ cards \subseteq Bridges /\ files \subseteq Files /\ removed \subseteq Nodes
      /\ touched \subseteq {"cards", "files"}
      /\ form.cards \union form.removed \subseteq cards \union removed
  BY <1>2 DEF Forms
<1> HIDE DEF cards, files, removed, touched
<1>5. /\ q \in Forms /\ q.of = form.of /\ q.schema = form.schema /\ q.wait = form.wait
      /\ q.hydrated = form.hydrated /\ q.failed = form.failed
      /\ q.cards = cards /\ q.removed = removed
  BY <1>2, <1>4 DEF Forms
<1> HIDE DEF q
<1>6. Linked(q) BY <1>3, <1>5 DEF Linked
<1> QED BY <1>1, <1>3, <1>4, <1>5, <1>6, EditedKeeps

LEMMA ResetKeeps == ASSUME Inv, Reset PROVE Inv'
<1> DEFINE d == [drafts EXCEPT ![shape] = None]
<1>1. Page(shape, None, None, FALSE, view, d, TRUE) BY DEF Reset
<1>2. d \in Drafts /\ NoRecords(d) BY Apart DEF Inv, PageOK, Drafts, NoRecords
<1> HIDE DEF d
<1>3. PageOK' /\ FormOK' BY <1>1, <1>2, PageKeeps DEF Inv, PageOK
<1>4. fetches' = fetches /\ posts' = posts /\ links' = links BY DEF Reset
<1> QED BY <1>3, <1>4 DEF Inv, FetchesOK, PostsOK

(* ------------------------------------ saves ------------------------------------ *)
LEMMA SubmitKeeps == ASSUME Inv, Submit PROVE Inv'
<1>1. form # Gone /\ form.schema /\ form \in Forms /\ FormInv(form, loaded)
  BY DEF Submit, Saveable, Open, Inv, FormOK
<1>2. shape \in Shapes BY <1>1 DEF Inv, PageOK, FormOK, Shown
<1> DEFINE id == IF form.of \in Records THEN form.of ELSE Loaded
           adds == form.cards \union form.files
           p == [id |-> id, from |-> Loaded, of |-> form.of, draft |-> shape,
                 orig |-> OriginalTriples, adds |-> adds, removed |-> form.removed,
                 page |-> "form", applied |-> FALSE]
           q == [form EXCEPT !.busy = TRUE]
<1>3. posts' = posts \union {p} /\ form' = q BY DEF Submit
<1>4. /\ id = Loaded /\ Loaded \in Records \union {None}
      /\ form.of = id \/ (id = None /\ form.of \notin Records)
      /\ OriginalTriples \subseteq Nodes
      /\ OriginalTriples \intersect Bridges \subseteq adds \union form.removed
  <2>1. CASE loaded = None
    <3>1. form.of \notin Records BY <1>1, <2>1 DEF FormInv
    <3> QED BY <2>1, <3>1 DEF Loaded, OriginalTriples
  <2>2. CASE loaded # None
    <3>1. form.hydrated = loaded /\ form.failed = {}
      BY <2>2 DEF Submit, Saveable, EditLoading, EditBlocked
    <3>2. form.of = loaded.id /\ loaded.links \intersect Bridges \subseteq form.cards \union form.removed
      BY <1>1, <2>2, <3>1 DEF FormInv
    <3>3. loaded.id \in Records /\ loaded.links \subseteq Nodes
      BY <2>2 DEF Inv, PageOK, Entity
    <3>4. OriginalTriples \subseteq loaded.links /\ Loaded = loaded.id
      BY <2>2 DEF OriginalTriples, Loaded
    <3> QED BY <3>2, <3>3, <3>4
  <2> QED BY <2>1, <2>2
<1>5. form.of \in Records \union {Blank, Typed} /\ adds \subseteq Nodes /\ form.removed \subseteq Nodes
  BY <1>1 DEF Forms, Nodes
<1> HIDE DEF id, adds
<1>6. p \in Posts BY <1>2, <1>4, <1>5 DEF Posts
<1>7. PostInv(p) BY <1>4 DEF PostInv
<1>8. PostsOK' BY <1>3, <1>6, <1>7 DEF Inv, PostsOK
<1>9. /\ q \in Forms /\ q.of = form.of /\ q.schema = form.schema /\ q.wait = form.wait
      /\ q.hydrated = form.hydrated /\ q.failed = form.failed /\ q.cards = form.cards
      /\ q.files = form.files /\ q.removed = form.removed
  BY <1>1 DEF Forms
<1> HIDE DEF q, p
<1>10. FormInv(q, loaded) BY <1>1, <1>9 DEF FormInv
<1>11. /\ shape' = shape /\ selected' = selected /\ loaded' = loaded /\ loading' = loading
       /\ view' = view /\ drafts' = drafts /\ fetches' = fetches /\ links' = links
  BY DEF Submit, page
<1>12. q # Gone BY <1>9, Apart
<1>13. FormOK' BY <1>1, <1>3, <1>9, <1>10, <1>11, <1>12 DEF Inv, FormOK
<1> QED BY <1>8, <1>11, <1>13 DEF Inv, PageOK, NoRecords, FetchesOK

LEMMA ApplyKeeps == ASSUME Inv, NEW p \in posts, Apply(p) PROVE Inv'
<1> DEFINE q == [p EXCEPT !.applied = TRUE]
<1>1. /\ links' = [r \in Records |-> IF r = p.id THEN (links[r] \ p.orig) \union p.adds ELSE links[r]]
      /\ posts' = (posts \ {p}) \union {q}
  BY DEF Apply
<1>2. p \in Posts /\ PostInv(p) BY DEF Inv, PostsOK
<1>3. q \in Posts /\ PostInv(q) BY <1>2 DEF Posts, PostInv
<1> HIDE DEF q
<1>4. PostsOK' BY <1>1, <1>3 DEF Inv, PostsOK
<1>5. p.adds \subseteq Nodes BY <1>2 DEF Posts
<1>6. links' \in [Records -> SUBSET Nodes] BY <1>1, <1>5 DEF Inv
<1>7. /\ shape' = shape /\ selected' = selected /\ loaded' = loaded /\ loading' = loading
      /\ view' = view /\ drafts' = drafts /\ fetches' = fetches /\ form' = form
  BY DEF Apply, page
<1> QED BY <1>4, <1>6, <1>7 DEF Inv, PageOK, NoRecords, FetchesOK, FormOK

LEMMA UnbusyFits ==
  ASSUME NEW q, NEW sh, NEW sel, NEW ld, NEW vw, NEW rec, Fits(q, sh, sel, ld, vw, rec), NEW p
  PROVE  Fits(Unbusy(q, p), sh, sel, ld, vw, rec)
<1>1. CASE q = Gone \/ p.page # "form" BY <1>1 DEF Unbusy
<1>2. CASE q # Gone /\ p.page = "form"
  <2> DEFINE u == [q EXCEPT !.busy = FALSE]
  <2>1. Unbusy(q, p) = u BY <1>2 DEF Unbusy
  <2>2. q \in Forms BY <1>2 DEF Fits
  <2>3. /\ u \in Forms /\ u.of = q.of /\ u.schema = q.schema /\ u.wait = q.wait
        /\ u.hydrated = q.hydrated /\ u.failed = q.failed /\ u.cards = q.cards
        /\ u.files = q.files /\ u.removed = q.removed
    BY <2>2 DEF Forms
  <2> HIDE DEF u
  <2>4. FormInv(u, rec) BY <1>2, <2>3 DEF Fits, FormInv
  <2>5. u # Gone BY <2>3, Apart
  <2> QED BY <1>2, <2>1, <2>3, <2>4, <2>5 DEF Fits
<1> QED BY <1>1, <1>2

LEMMA SavedKeeps == ASSUME Inv, NEW p \in posts, Saved(p) PROVE Inv'
<1> DEFINE d == [drafts EXCEPT ![p.draft] = None]
           rerun == loaded # None \/ p.page = "form"
           q == Rendered(shape, None, FALSE, view, None, d, rerun)
<1>1. /\ shape' = shape /\ selected' = None /\ loaded' = None /\ loading' = FALSE
      /\ view' = view /\ drafts' = d /\ form' = Unbusy(q, p) /\ posts' = posts \ {p}
      /\ fetches' = fetches /\ links' = links
  BY DEF Saved
<1>2. d \in Drafts /\ NoRecords(d) BY Apart DEF Inv, PageOK, Drafts, NoRecords
<1> HIDE DEF d
<1>3. None = loaded \/ rerun = TRUE OBVIOUS
<1> HIDE DEF rerun
<1>4. Fits(q, shape, None, FALSE, view, None)
  BY <1>2, <1>3, RenderedForm DEF Inv, PageOK
<1> HIDE DEF q
<1>5. Fits(Unbusy(q, p), shape, None, FALSE, view, None) BY <1>4, UnbusyFits
<1>6. FormOK' BY <1>1, <1>5 DEF FormOK, Fits
<1>7. PageOK' BY <1>1, <1>2 DEF Inv, PageOK
<1>8. PostsOK' /\ FetchesOK' BY <1>1 DEF Inv, PostsOK, FetchesOK
<1> QED BY <1>1, <1>6, <1>7, <1>8 DEF Inv

LEMMA SaveFailsKeeps == ASSUME Inv, NEW p \in posts, SaveFails(p) PROVE Inv'
<1>1. /\ shape' = shape /\ selected' = selected /\ loaded' = loaded /\ loading' = loading
      /\ view' = view /\ drafts' = drafts /\ fetches' = fetches /\ links' = links
      /\ form' = Unbusy(form, p) /\ posts' = posts \ {p}
  BY DEF SaveFails, page
<1>2. Fits(form, shape, selected, loading, view, loaded) BY DEF Inv, FormOK, Fits
<1>3. Fits(Unbusy(form, p), shape, selected, loading, view, loaded) BY <1>2, UnbusyFits
<1>4. FormOK' BY <1>1, <1>3 DEF FormOK, Fits
<1> QED BY <1>1, <1>4 DEF Inv, PageOK, NoRecords, PostsOK, FetchesOK

LEMMA ReloadKeeps == ASSUME Inv, Reload PROVE Inv'
<1>1. /\ shape' = None /\ selected' = None /\ loaded' = None /\ loading' = FALSE
      /\ view' = "form" /\ drafts' \in {drafts, [s \in Shapes |-> None]}
      /\ fetches' = <<>> /\ form' = Gone /\ links' = links
      /\ posts' = {[p EXCEPT !.page = "gone"] : p \in posts}
  BY DEF Reload
<1>2. PageOK' BY <1>1, Apart DEF Inv, PageOK, Drafts, NoRecords
<1>3. FormOK' BY <1>1 DEF FormOK, FormInv, Shown
<1>4. FetchesOK' BY <1>1, FormAssumption DEF FetchesOK
<1>5. ASSUME NEW q \in posts' PROVE q \in Posts /\ PostInv(q)
  <2>1. PICK p \in posts : q = [p EXCEPT !.page = "gone"] BY <1>1
  <2>2. p \in Posts /\ PostInv(p) BY DEF Inv, PostsOK
  <2> QED BY <2>1, <2>2 DEF Posts, PostInv
<1> QED BY <1>1, <1>2, <1>3, <1>4, <1>5 DEF Inv, PostsOK

(* ------------------------------- the whole page ------------------------------- *)
LEMMA InitInv == Init => Inv
<1> SUFFICES ASSUME Init PROVE Inv
  OBVIOUS
<1>1. PageOK BY Apart DEF Init, PageOK, Drafts, NoRecords
<1>2. FormOK BY DEF Init, FormOK, FormInv, Shown
<1>3. FetchesOK BY FormAssumption DEF Init, FetchesOK
<1>4. PostsOK BY DEF Init, PostsOK
<1>5. links \in [Records -> SUBSET Nodes] BY FormAssumption DEF Init, Nodes
<1> QED BY <1>1, <1>2, <1>3, <1>4, <1>5 DEF Inv

LEMMA NextInv == Inv /\ [Next]_vars => Inv'
<1> SUFFICES ASSUME Inv, [Next]_vars PROVE Inv'
  OBVIOUS
<1>1. CASE User
  <2>1. ASSUME NEW s \in Shapes, SelectShape(s) PROVE Inv' BY <2>1, SelectShapeKeeps
  <2>2. ASSUME NEW r \in Records, EditRow(r) \/ ViewRow(r) \/ FollowLink(r) PROVE Inv'
    BY <2>2, BrowseKeeps
  <2>3. ASSUME NEW vw \in {"form", "records"}, Tab(vw) PROVE Inv'
    BY <2>3, SwitchKeeps DEF Tab
  <2>4. CASE Type BY <2>4, TypeKeeps
  <2>5. ASSUME NEW what \in {"cards", "files"}, Touch(what) PROVE Inv' BY <2>5, TouchKeeps
  <2>6. ASSUME NEW n \in Nodes, RemoveEntry(n) PROVE Inv' BY <2>6, RemoveEntryKeeps
  <2>7. CASE Reset BY <2>7, ResetKeeps
  <2>8. CASE Submit BY <2>8, SubmitKeeps
  <2>9. CASE Reload BY <2>9, ReloadKeeps
  <2> QED BY <1>1, <2>1, <2>2, <2>3, <2>4, <2>5, <2>6, <2>7, <2>8, <2>9 DEF User
<1>2. CASE Server
  <2>1. CASE LoadShapes BY <2>1, LoadShapesKeeps
  <2>2. CASE SchemaAnswers BY <2>2, SchemaAnswersKeeps
  <2>3. CASE NodesArrive BY <2>3, NodesArriveKeeps
  <2>4. ASSUME NEW i \in DOMAIN fetches, FetchAnswers(i) \/ FetchFails(i) PROVE Inv'
    BY <2>4, FetchAnswersKeeps, FetchFailsKeeps
  <2>5. ASSUME NEW p \in posts, Apply(p) \/ Saved(p) \/ SaveFails(p) PROVE Inv'
    BY <2>5, ApplyKeeps, SavedKeeps, SaveFailsKeeps
  <2> QED BY <1>2, <2>1, <2>2, <2>3, <2>4, <2>5 DEF Server
<1>3. CASE UNCHANGED vars
  BY <1>3 DEF vars, page, Inv, PageOK, NoRecords, FormOK, FetchesOK, PostsOK
<1> QED BY <1>1, <1>2, <1>3 DEF Next

LEMMA AlwaysInv == Spec => []Inv
BY InitInv, NextInv, PTL DEF Spec

(* The page's state, the form's and the saves keep their types, and the form is on *)
(* the page exactly when the page shows it (App.jsx, the render of ShapeForm).     *)
THEOREM FormTypes == Spec => []TypeOK
<1>1. Inv => TypeOK
  BY DEF Inv, PageOK, FormOK, FetchesOK, PostsOK, TypeOK, Drafts
<1> QED BY <1>1, AlwaysInv, PTL

(* A save is about one record, however late the answers are that filled its form   *)
(* (App.jsx CREATE vs UPDATE, ShapeForm onSubmit).                                 *)
THEOREM SavesAreOfOneRecord == Spec => []SavesOneRecord
<1>1. Inv => SavesOneRecord BY DEF Inv, PostsOK, PostInv, SavesOneRecord
<1> QED BY <1>1, AlwaysInv, PTL

(* A draft never holds a record's values (App.jsx, handleDraftChange).             *)
THEOREM DraftsStayNew == Spec => []DraftsAreNew
<1>1. Inv => DraftsAreNew BY DEF Inv, PageOK, NoRecords, DraftsAreNew
<1> QED BY <1>1, AlwaysInv, PTL

(* A form all of whose answers have come holds the record it was asked to show     *)
(* (ShapeForm, the hydration effect and its ignore flag).                          *)
THEOREM FormOpens == Spec => []OpensWhenAnswered
<1>1. Inv => OpensWhenAnswered BY DEF Inv, FormOK, FormInv, OpensWhenAnswered
<1> QED BY <1>1, AlwaysInv, PTL

(* A connection leaves the store only through a save of a form in which the user   *)
(* removed it (ShapeForm, isFieldDirty and hydration).                             *)
THEOREM ConnectionsStay == Spec => ConnectionsKept
<1>1. Inv /\ [Next]_vars => [OnlyRemovedByHand(Bridges)]_vars
  <2> SUFFICES ASSUME Inv, Next PROVE OnlyRemovedByHand(Bridges)
    OBVIOUS
  <2>1. ASSUME NEW p \in posts, Apply(p) PROVE OnlyRemovedByHand(Bridges)
    <3>1. links' = [r \in Records |-> IF r = p.id THEN (links[r] \ p.orig) \union p.adds
                                      ELSE links[r]]
      BY <2>1 DEF Apply
    <3>2. PostInv(p) BY DEF Inv, PostsOK
    <3>3. ASSUME NEW r \in Records, NEW n \in (links[r] \ links'[r]) \intersect Bridges
          PROVE  p.id = r /\ n \in p.removed
      <4>1. r = p.id /\ n \in p.orig /\ n \notin p.adds /\ n \in Bridges BY <3>1, <3>3
      <4> QED BY <3>2, <4>1 DEF PostInv
    <3> QED BY <3>3 DEF OnlyRemovedByHand
  <2>2. CASE links' = links BY <2>2 DEF OnlyRemovedByHand
  <2>3. links' = links \/ \E p \in posts : Apply(p)
    BY DEF Next, User, Server, SelectShape, EditRow, ViewRow, FollowLink, Fetch, SwitchTo,
           Tab, Type, Touch, RemoveEntry, Edited, Reset, Submit, Reload, LoadShapes,
           SchemaAnswers, NodesArrive, NodesAnswer, FetchAnswers, FetchFails, Saved, SaveFails
  <2> QED BY <2>1, <2>2, <2>3
<1> QED BY <1>1, AlwaysInv, PTL DEF Spec, ConnectionsKept
================================================================================
