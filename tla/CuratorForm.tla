------------------------------ MODULE CuratorForm ------------------------------
(* The curator's page (curator-frontend/src/App.jsx and its ShapeForm): which     *)
(* record the form holds while answers for records, schemas, linked nodes and     *)
(* saves arrive late, out of order or never, and what a save then sends.          *)
EXTENDS Integers, Sequences, FiniteSets, SequencesExt

CONSTANTS Shapes, Helpers,  \* the shapes; those edited only inside a parent's form
          Records, ShapeOf, \* entities with a shape; bridges are entities too
          Bridges, Files,   \* what a record may link to: bridge nodes and file nodes
          LinksAtStart,
          MaxFetches, MaxPosts, \* bounds: record requests and saves in flight
          None, Gone,       \* no record or shape; the form is not on the page
          Blank, Typed      \* values that are no record's: seeded, or typed by hand

ASSUME FormAssumption ==
  /\ Helpers \subseteq Shapes /\ ShapeOf \in [Records -> Shapes]
  /\ LinksAtStart \in [Records -> SUBSET (Bridges \union Files)]
  /\ Bridges \intersect Files = {}
  /\ None \notin Records \union Shapes /\ {Blank, Typed} \intersect Records = {}
  /\ MaxFetches \in Nat /\ MaxPosts \in Nat

VARIABLES shape,    \* activeShape
          selected, \* the record picked in the list or through an inspector link
          loaded,   \* loadedRecord, the form's record prop
          loading,  \* recordLoading
          view,     \* activeView
          drafts,   \* by shape: whose values the kept draft holds, or None
          fetches,  \* the record requests of the page, in the order they were sent
          form,     \* the mounted ShapeForm, or Gone
          posts,    \* saves sent and not answered yet
          links     \* the store: what each record links to

page == <<shape, selected, loaded, loading, view, drafts>>
vars == <<page, fetches, form, posts, links>>

Nodes == Bridges \union Files
Entity == [id : Records, links : SUBSET Nodes]
Fresh == [schema |-> FALSE, of |-> Blank, cards |-> {}, files |-> {}, touched |-> {},
          removed |-> {}, wait |-> {}, hydrated |-> None, failed |-> {}, busy |-> FALSE]
Forms == [schema : BOOLEAN, of : Records \union {Blank, Typed}, cards : SUBSET Bridges,
          files : SUBSET Files, touched : SUBSET {"cards", "files"}, removed : SUBSET Nodes,
          wait : SUBSET Entity, hydrated : Entity \union {None}, failed : SUBSET Bridges,
          busy : BOOLEAN]
ASSUME GoneAssumption == Gone \notin Forms
Posts == [id : Records \union {None}, from : Records \union {None},
          of : Records \union {Blank, Typed}, draft : Shapes, orig : SUBSET Nodes,
          adds : SUBSET Nodes, removed : SUBSET Nodes, page : {"form", "left", "gone"},
          applied : BOOLEAN]

(* The form is rendered on the Form tab of an ordinary shape, and not while the   *)
(* selected record is being fetched.                                              *)
Shown(sh, sel, ld, vw) ==
  sh \notin Helpers \union {None} /\ vw = "form" /\ (sel = None \/ ~ld)

TypeOK == /\ shape \in Shapes \union {None} /\ selected \in Records \union {None}
          /\ loaded \in Entity \union {None} /\ loading \in BOOLEAN
          /\ view \in {"form", "records"}
          /\ drafts \in [Shapes -> Records \union {Typed, None}]
          /\ fetches \in Seq(Entity) /\ Len(fetches) <= MaxFetches
          /\ form \in Forms \union {Gone}
          /\ (form # Gone) = Shown(shape, selected, loading, view)
          /\ posts \subseteq Posts /\ links \in [Records -> SUBSET Nodes]
          /\ selected = None => ~loading

Init == /\ shape = None /\ selected = None /\ loaded = None /\ loading = FALSE /\ view = "form"
        /\ drafts = [s \in Shapes |-> None]
        /\ fetches = <<>> /\ form = Gone /\ posts = {} /\ links = LinksAtStart

(* The hydration effect: a create form restores the shape's draft or seeds blank  *)
(* values at once, an edit form first asks for the nodes its record links to.     *)
(* Answers asked for by an earlier run of the effect are ignored.                 *)
AwaitAll(f, rec) == f.wait \union {rec}      \* mutant
Await(f, rec) == {rec}
Seeded(f, draft) ==
  [f EXCEPT !.of = IF draft = None THEN Blank ELSE draft,
            !.cards = {}, !.files = {}, !.touched = {}, !.removed = {}, !.wait = {}]
Hydrate(f, rec, draft) ==
  IF rec = None THEN Seeded(f, draft)
  ELSE [f EXCEPT !.hydrated = None, !.failed = {}, !.wait = Await(f, rec)]

(* What becomes of the form when the page renders with new state: it leaves, it   *)
(* mounts blank and asks for its schema, or its effects run again.                *)
Rerendered(sh, rec, d, rerun) ==
  CASE form = Gone -> Fresh
    [] form # Gone /\ sh # shape -> [form EXCEPT !.schema = FALSE, !.wait = {}]
    [] form # Gone /\ sh = shape /\ rerun /\ form.schema -> Hydrate(form, rec, d[sh])
    [] OTHER -> form
Rendered(sh, sel, ld, vw, rec, d, rerun) ==
  IF Shown(sh, sel, ld, vw) THEN Rerendered(sh, rec, d, rerun) ELSE Gone
LeftBehind(ps) == {IF p.page = "form" THEN [p EXCEPT !.page = "left"] ELSE p : p \in ps}

(* One state update of the page and the commit that follows it.                   *)
Page(sh, sel, rec, ld, vw, d, rerun) ==
  /\ shape' = sh /\ selected' = sel /\ loaded' = rec /\ loading' = ld /\ view' = vw
  /\ drafts' = d
  /\ form' = Rendered(sh, sel, ld, vw, rec, d, rerun)
Leave == posts' = IF form' = Gone THEN LeftBehind(posts) ELSE posts

LoadShapes ==
  /\ shape = None
  /\ \E s \in Shapes : Page(s, None, None, FALSE, "form", drafts, FALSE)
  /\ UNCHANGED <<fetches, posts, links>>

SelectShape(s) ==
  /\ shape # None
  /\ Page(s, None, None, FALSE, IF s \in Helpers THEN "records" ELSE "form", drafts,
          loaded # None)
  /\ Leave /\ UNCHANGED <<fetches, links>>

(* Selecting a record sends a request for it; the row that is selected already is *)
(* the same object, so clicking it again only changes the view.                   *)
Fetch(r, vw) ==
  /\ Len(fetches) < MaxFetches
  /\ fetches' = Append(fetches, [id |-> r, links |-> links[r]])
  /\ Page(shape, r, loaded, TRUE, vw, drafts, FALSE)
  /\ Leave /\ UNCHANGED links
SwitchTo(vw) ==
  /\ Page(shape, selected, loaded, loading, vw, drafts, FALSE)
  /\ Leave /\ UNCHANGED <<fetches, links>>
Browsing == shape # None /\ (shape \in Helpers \/ view = "records")
EditRow(r) ==
  /\ Browsing /\ shape \notin Helpers /\ ShapeOf[r] = shape
  /\ Fetch(r, "form") \/ (selected = r /\ SwitchTo("form"))
ViewRow(r) ==
  /\ Browsing /\ ShapeOf[r] = shape
  /\ Fetch(r, "records") \/ (selected = r /\ SwitchTo("records"))
FollowLink(r) == /\ shape # None /\ selected # None
                 /\ Fetch(r, "records")
Tab(vw) == /\ shape \notin Helpers \union {None} /\ view # vw
           /\ SwitchTo(vw)

(* An answer sets the record whatever is selected by then.  It holds the record   *)
(* as it was when the request was sent or as it is now.                           *)
FetchAnswers(i) ==
  /\ \E ls \in {fetches[i].links, links[fetches[i].id]} :
       Page(shape, selected, [id |-> fetches[i].id, links |-> ls], FALSE, view, drafts, TRUE)
  /\ fetches' = RemoveAt(fetches, i)
  /\ Leave /\ UNCHANGED links
FetchFails(i) ==
  /\ Page(shape, selected, None, FALSE, view, drafts, loaded # None)
  /\ fetches' = RemoveAt(fetches, i)
  /\ Leave /\ UNCHANGED links

SchemaAnswers ==
  /\ form # Gone /\ ~form.schema
  /\ form' = [Hydrate(form, loaded, drafts[shape]) EXCEPT !.schema = TRUE]
  /\ UNCHANGED <<page, fetches, posts, links>>

(* The nodes a record links to have answered or failed.  A bridge that failed is  *)
(* reported, a file that failed is only left out.                                 *)
FailedNested(bad) == bad \intersect Bridges
FailureIgnored(bad) == {}      \* mutant
Failures(bad) == FailedNested(bad)
NodesAnswer(rec, bad) ==
  /\ form' = [form EXCEPT !.of = rec.id, !.cards = (rec.links \intersect Bridges) \ bad,
                          !.files = (rec.links \intersect Files) \ bad,
                          !.touched = {}, !.removed = {}, !.wait = @ \ {rec},
                          !.hydrated = rec, !.failed = Failures(bad)]
  /\ UNCHANGED <<page, fetches, posts, links>>

(* The user works in the form.  Only a form without a record publishes a draft.   *)
PublishedAlways(v) == [drafts EXCEPT ![shape] = v]      \* mutant
Published(v) == IF loaded # None THEN drafts ELSE [drafts EXCEPT ![shape] = v]
Open == form # Gone /\ form.schema
Edited(f) == /\ form' = f
             /\ drafts' = Published(f.of)
             /\ UNCHANGED <<shape, selected, loaded, loading, view, fetches, posts, links>>
Type == Open /\ Edited([form EXCEPT !.of = IF @ \in Records THEN @ ELSE Typed])
Touch(what) == Open /\ form.of \in Records
               /\ Edited([form EXCEPT !.touched = @ \union {what}])
RemoveEntry(n) == /\ Open /\ n \in form.cards \union form.files
             /\ Edited([form EXCEPT !.cards = @ \ {n}, !.files = @ \ {n},
                          !.removed = @ \union {n},
                          !.touched = @ \union {IF n \in Files THEN "files" ELSE "cards"}])
Reset == /\ Open
         /\ Page(shape, None, None, FALSE, view, [drafts EXCEPT ![shape] = None], TRUE)
         /\ UNCHANGED <<fetches, posts, links>>

(* onSubmit: only a form whose own record is loaded without failures is sent, and *)
(* it asks to delete the links of the record in the fields that changed.          *)
EditLoading == loaded # None /\ form.hydrated # loaded
EditBlocked == loaded # None /\ form.hydrated = loaded /\ form.failed # {}
SavesLoading == Open /\ ~form.busy /\ ~EditBlocked      \* mutant
Saveable == Open /\ ~form.busy /\ ~EditLoading /\ ~EditBlocked
CardsDirty == "cards" \in form.touched \/ loaded.links \intersect Bridges # form.cards
OriginalTriples ==
  IF loaded = None THEN {}
  ELSE {n \in loaded.links : IF n \in Files THEN "files" \in form.touched ELSE CardsDirty}
Loaded == IF loaded = None THEN None ELSE loaded.id
Submit ==
  /\ Saveable /\ Cardinality(posts) < MaxPosts
  /\ posts' = posts \union
       {[id |-> IF form.of \in Records THEN form.of ELSE Loaded, from |-> Loaded,
         of |-> form.of, draft |-> shape, orig |-> OriginalTriples,
         adds |-> form.cards \union form.files, removed |-> form.removed,
         page |-> "form", applied |-> FALSE]}
  /\ form' = [form EXCEPT !.busy = TRUE]
  /\ UNCHANGED <<page, fetches, links>>

(* The backend replaces the triples it was told to; creating adds an entity that  *)
(* no property asks about.                                                        *)
Apply(p) ==
  /\ p \in posts /\ ~p.applied
  /\ links' = [r \in Records |-> IF r = p.id THEN (links[r] \ p.orig) \union p.adds
                                 ELSE links[r]]
  /\ posts' = (posts \ {p}) \union {[p EXCEPT !.applied = TRUE]}
  /\ UNCHANGED <<page, fetches, form>>

(* onSaved closes whatever the page shows by then; the form that sent the save is *)
(* blanked if it is still there.                                                  *)
Unbusy(f, p) == IF f # Gone /\ p.page = "form" THEN [f EXCEPT !.busy = FALSE] ELSE f
Saved(p) ==
  /\ p \in posts /\ p.applied /\ p.page # "gone"
  /\ LET d == [drafts EXCEPT ![p.draft] = None] IN
       /\ shape' = shape /\ selected' = None /\ loaded' = None /\ loading' = FALSE
       /\ view' = view /\ drafts' = d
       /\ form' = Unbusy(Rendered(shape, None, FALSE, view, None, d,
                                  loaded # None \/ p.page = "form"), p)
  /\ posts' = posts \ {p}
  /\ UNCHANGED <<fetches, links>>
SaveFails(p) ==
  /\ p \in posts
  /\ form' = Unbusy(form, p)
  /\ posts' = posts \ {p}
  /\ UNCHANGED <<page, fetches, links>>

(* The browser reloads the page: the drafts come back from sessionStorage unless  *)
(* they are over an hour old, and nobody hears the answer of a save.              *)
Reload ==
  /\ shape # None
  /\ shape' = None /\ selected' = None /\ loaded' = None /\ loading' = FALSE
  /\ view' = "form" /\ drafts' \in {drafts, [s \in Shapes |-> None]}
  /\ fetches' = <<>> /\ form' = Gone
  /\ posts' = {[p EXCEPT !.page = "gone"] : p \in posts}
  /\ UNCHANGED links

User == \/ \E s \in Shapes : SelectShape(s)
        \/ \E r \in Records : EditRow(r) \/ ViewRow(r) \/ FollowLink(r)
        \/ \E vw \in {"form", "records"} : Tab(vw)
        \/ Type \/ \E what \in {"cards", "files"} : Touch(what)
        \/ \E n \in Nodes : RemoveEntry(n)
        \/ Reset \/ Submit \/ Reload
NodesArrive == /\ form # Gone
               /\ \E rec \in form.wait : \E bad \in SUBSET rec.links : NodesAnswer(rec, bad)
Server == \/ LoadShapes \/ SchemaAnswers \/ NodesArrive
          \/ \E i \in DOMAIN fetches : FetchAnswers(i) \/ FetchFails(i)
          \/ \E p \in posts : Apply(p) \/ Saved(p) \/ SaveFails(p)
Next == User \/ Server
Spec == Init /\ [][Next]_vars

(* A save is about one record: its identity, its values and the triples it         *)
(* replaces belong to the same record, and a save that creates holds none of any   *)
(* record's values (App.jsx CREATE vs UPDATE, ShapeForm onSubmit).                 *)
SavesOneRecord ==
  \A p \in posts : p.from = p.id /\ (p.of = p.id \/ (p.id = None /\ p.of \notin Records))

(* A draft holds what was typed into a new form and never a record's values, so    *)
(* that it cannot turn into an update (App.jsx, handleDraftChange).                *)
DraftsAreNew == \A s \in Shapes : drafts[s] \notin Records

(* When every answer an edit form asked for has come, the form holds its record    *)
(* and does not wait for ever on the answers of another one (ShapeForm, ignore).   *)
OpensWhenAnswered ==
  form # Gone /\ form.schema /\ loaded # None /\ form.wait = {} => form.hydrated = loaded

(* A connection leaves the store only through a save of a form in which the user   *)
(* removed it: a card that could not be loaded is no removal (ShapeForm,           *)
(* isFieldDirty and hydration).                                                    *)
OnlyRemovedByHand(ns) ==
  \A r \in Records : \A n \in (links[r] \ links'[r]) \intersect ns :
    \E p \in posts : p.id = r /\ n \in p.removed
ConnectionsKept == [][OnlyRemovedByHand(Bridges)]_vars

(* The same of digital copies, whose failed nodes the form drops without a word    *)
(* (ShapeForm, hydration: "cannot be saved" unless loaded with no failures).       *)
FilesKept == [][OnlyRemovedByHand(Files)]_vars
================================================================================
