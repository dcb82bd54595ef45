------------------------------ MODULE ReaderRoutes ------------------------------
(* The reader's routes over the shape catalogue and the data graph               *)
(* (dataexplorer-backend/api/data.py, entities.py, resource.py): requests run on *)
(* threads of one process, share the extractor's cache, which no thread locks,   *)
(* and read the store in one or more queries while curators write to it.         *)
EXTENDS ShapeDescriptors, Sequences, SequencesExt

CONSTANTS Threads,    \* the server's worker threads
          Calls,      \* bound: the requests that are sent
          Schema,     \* the shapes of schema.ttl
          ReadOnlyShapes, \* those the deployment protects (READ_ONLY_SHAPES)
          Nodes,      \* the entities, in the order of their IRIs
          Texts,      \* the literals
          Type,       \* rdf:type
          Start,      \* the graph at first
          Candidates, \* bound: the triples that curators add and remove
          PageSize,   \* the limit of a listing
          SearchSize, \* the limit of a search
          MaxCalls,   \* bound: how many requests are sent
          MaxEdits    \* bound: how many times the graph is edited

Shapes == DOMAIN Schema
ASSUME ReaderAssumption ==
  /\ Shapes # {} /\ IsFiniteSet(Shapes) /\ None \notin Shapes
  /\ \A s \in SUBSET Shapes : s # None
  /\ Nodes \subseteq Int /\ IsFiniteSet(Nodes)
  /\ MaxCalls \in Nat /\ MaxEdits \in Nat
(* A limit is at least 1 and an offset is never negative (the Query bounds of     *)
(* list_data and search_entities); the store holds triples.                       *)
ASSUME QueryAssumption ==
  /\ PageSize \in Nat \ {0} /\ SearchSize \in Nat \ {0}
  /\ \A c \in Calls : c.offset \in Nat
  /\ \A tr \in Start \union Candidates : tr = <<tr[1], tr[2], tr[3]>>

VARIABLES cached, \* the shapes in SchemaExtractor._cache, or None before the first access
          at,     \* where each thread stands
          todo,   \* the shapes a thread that fills the cache has still to parse
          job,    \* the request of each thread, with what it has read
          graph,  \* the triples of the data graph
          edits, calls
vars == <<cached, at, todo, job, graph, edits, calls>>

Places == {"idle", "access", "reset", "fill", "known", "query", "total", "done"}
NoJob == [call |-> None, seen |-> {}, got |-> <<>>, failed |-> FALSE,
          since |-> 0, until |-> 0, answer |-> None]
Init == /\ cached = None /\ at = [t \in Threads |-> "idle"]
        /\ todo = [t \in Threads |-> {}] /\ job = [t \in Threads |-> NoJob]
        /\ graph = Start /\ edits = 0 /\ calls = 0

(* Media types: the most preferred one that is served, or a wildcard's default;   *)
(* one that is asked for by name must be served (_negotiate, _check_profile).     *)
RdfTypes == {"turtle", "json-ld", "xml", "nt"}
Supported(c) == IF c.route = "resource" THEN RdfTypes \union {"html"} ELSE RdfTypes
Wildcards == {"*/*", "application/*"}
Negotiate(accept, override, supported) ==
  LET usable == {i \in DOMAIN accept : accept[i].type \in supported \union Wildcards}
      ranked == {i \in usable : \A j \in usable :
                   accept[j].q < accept[i].q \/ (accept[j].q = accept[i].q /\ i =< j)}
      chosen == {accept[i].type : i \in ranked} \intersect supported
  IN IF override # None THEN override
     ELSE IF chosen = {} THEN "turtle" ELSE CHOOSE m \in chosen : TRUE
Refused(c) == /\ c.route \in {"resource", "shape"}
              /\ \/ c.override \notin Supported(c) \union {None}
                 \/ c.profile \notin {"rfdb", "alt", None}

Navigated == {"shapes", "list", "search", "counts", "shape", "published"}
Finish(t, ok, answer) ==
  /\ at' = [at EXCEPT ![t] = "done"]
  /\ job' = [job EXCEPT ![t].answer = answer, ![t].until = edits,
                        ![t].failed = @ \/ ~ ok]

Arrive(t, c) ==
  /\ at[t] \in {"idle", "done"} /\ calls < MaxCalls /\ ~ Refused(c)
  /\ calls' = calls + 1
  /\ at' = [at EXCEPT ![t] = IF c.route \in Navigated THEN "access" ELSE "query"]
  /\ job' = [job EXCEPT ![t] = [NoJob EXCEPT !.call = c, !.since = edits]]
  /\ UNCHANGED <<cached, todo, graph, edits>>
Refuse(t, c) ==
  /\ at[t] \in {"idle", "done"} /\ calls < MaxCalls /\ Refused(c)
  /\ calls' = calls + 1
  /\ at' = [at EXCEPT ![t] = "done"]
  /\ job' = [job EXCEPT ![t] = [NoJob EXCEPT !.call = c, !.answer = [status |-> 400]]]
  /\ UNCHANGED <<cached, todo, graph, edits>>

(* _shapes: the first access finds no cache, puts an empty one in its place and   *)
(* fills it shape by shape. Another thread may look at it at any point, and one   *)
(* that found none replaces it whenever it gets there. Each of them meets the      *)
(* shapes in the same order, that of the parsed graph. A shape that cannot be       *)
(* parsed is left out: schema.ttl has none.                                        *)
NextShape(left) == CHOOSE s \in left : TRUE
Access(t) ==
  /\ at[t] = "access"
  /\ at' = [at EXCEPT ![t] = IF cached = None THEN "reset" ELSE "known"]
  /\ UNCHANGED <<cached, todo, job, graph, edits, calls>>
ResetKeeping(t) ==      \* mutant
  /\ at[t] = "reset"
  /\ cached' = {}
  /\ todo' = [todo EXCEPT ![t] = Shapes \ (IF cached \in {None, Shapes} THEN {} ELSE cached)]
  /\ at' = [at EXCEPT ![t] = "fill"]
  /\ UNCHANGED <<job, graph, edits, calls>>
Reset(t) ==
  /\ at[t] = "reset"
  /\ cached' = {} /\ todo' = [todo EXCEPT ![t] = Shapes]
  /\ at' = [at EXCEPT ![t] = "fill"]
  /\ UNCHANGED <<job, graph, edits, calls>>
FillOwn(t) ==      \* mutant
  /\ at[t] = "fill"
  /\ LET s == NextShape(todo[t]) IN
       /\ cached' = (Shapes \ todo[t]) \union {s}
       /\ todo' = [todo EXCEPT ![t] = @ \ {s}]
       /\ at' = [at EXCEPT ![t] = IF todo[t] = {s} THEN "known" ELSE "fill"]
  /\ UNCHANGED <<job, graph, edits, calls>>
FillAlone(t) ==      \* mutant
  /\ at[t] = "fill" /\ \A u \in Threads \ {t} : at[u] # "fill"
  /\ LET s == NextShape(todo[t]) IN
       /\ cached' = cached \union {s}
       /\ todo' = [todo EXCEPT ![t] = @ \ {s}]
       /\ at' = [at EXCEPT ![t] = IF todo[t] = {s} THEN "known" ELSE "fill"]
  /\ UNCHANGED <<job, graph, edits, calls>>
Fill(t) ==
  /\ at[t] = "fill"
  /\ LET s == NextShape(todo[t]) IN
       /\ cached' = cached \union {s}
       /\ todo' = [todo EXCEPT ![t] = @ \ {s}]
       /\ at' = [at EXCEPT ![t] = IF todo[t] = {s} THEN "known" ELSE "fill"]
  /\ UNCHANGED <<job, graph, edits, calls>>

(* A route takes what the cache holds now for the whole catalogue: a shape that    *)
(* is not in it is not found.                                                      *)
Known(t) ==
  /\ at[t] = "known"
  /\ LET c == job[t].call IN
       IF c.route \in {"list", "search", "shape"} /\ c.shape \notin cached
         THEN /\ at' = [at EXCEPT ![t] = "done"]
              /\ job' = [job EXCEPT ![t].seen = cached, ![t].answer = [status |-> 404]]
         ELSE /\ at' = [at EXCEPT ![t] = "query"]
              /\ job' = [job EXCEPT ![t].seen = cached, ![t].since = edits]
  /\ UNCHANGED <<cached, todo, graph, edits, calls>>
Parsed == Catalogue(Schema, Shapes)
Holding(shapes) == [s \in shapes |-> Parsed[s]]
Descriptors(t) == Holding(job[t].seen)

(* What the text of a listing or a search is matched against: a listing takes the   *)
(* text as it was typed (it escapes backslashes and quotes), a search what is left *)
(* of it without them. No text, or nothing left of it, is no filter.               *)
Filter(c) == IF c.q = None THEN None
             ELSE IF c.route = "search" THEN c.q.stripped ELSE c.q.typed

(* The solutions of a listing's pattern: one for each label of an instance, or    *)
(* one without; the filter keeps those whose label or IRI it matches.             *)
Labels(x) == {tr[3] : tr \in {y \in graph : y[1] = x /\ y[2] = Label}}
Instances(class) == {x \in Nodes : <<x, Type, class>> \in graph}
Solutions(class, q) ==
  {s \in UNION {{x} \X (IF Labels(x) = {} THEN {None} ELSE Labels(x)) : x \in Instances(class)} :
     q = None \/ s[1] \in q \/ s[2] \in q}
Found(class, q) == {s[1] : s \in Solutions(class, q)}
UngroupedPage(class, q, offset, size) ==      \* mutant
  {x \in Found(class, q) :
     LET before == Cardinality({s \in Solutions(class, q) : s[1] < x})
     IN before >= offset /\ before < offset + size}
Page(class, q, offset, size) ==
  {x \in Found(class, q) :
     LET before == Cardinality({y \in Found(class, q) : y < x})
     IN before >= offset /\ before < offset + size}
Total(class, q) == Cardinality(Found(class, q))

(* list_shapes: the catalogue it was given, stamped. *)
ShapeList(t) ==
  /\ at[t] = "query" /\ job[t].call.route = "shapes"
  /\ Finish(t, TRUE, [status |-> 200, shapes |-> Stamped(Descriptors(t), ReadOnlyShapes)])
  /\ UNCHANGED <<cached, todo, graph, edits, calls>>

(* list_data: the page and the total are two queries, and neither failure shows.  *)
ListPage(t) ==
  /\ at[t] = "query" /\ job[t].call.route = "list"
  /\ at' = [at EXCEPT ![t] = "total"]
  /\ \E ok \in BOOLEAN :
       LET c == job[t].call IN
       job' = [job EXCEPT ![t].failed = ~ ok, ![t].got =
                 IF ok THEN Page(Schema[c.shape].target, Filter(c), c.offset, PageSize) ELSE {}]
  /\ UNCHANGED <<cached, todo, graph, edits, calls>>
ListTotal(t) ==
  /\ at[t] = "total"
  /\ \E ok \in BOOLEAN :
       LET c == job[t].call IN
       Finish(t, ok, [status |-> 200, items |-> job[t].got,
                      total |-> IF ok THEN Total(Schema[c.shape].target, Filter(c))
                                ELSE Cardinality(job[t].got)])
  /\ UNCHANGED <<cached, todo, graph, edits, calls>>

(* search_entities: one query, and its failure is an empty answer. *)
Search(t) ==
  /\ at[t] = "query" /\ job[t].call.route = "search"
  /\ \E ok \in BOOLEAN :
       LET c == job[t].call IN
       Finish(t, ok, [status |-> 200, items |->
                 IF ok THEN Page(Schema[c.shape].target, Filter(c), 0, SearchSize) ELSE {}])
  /\ UNCHANGED <<cached, todo, graph, edits, calls>>

(* count_data_by_shape: a query for each shape it was given; a failure counts 0. *)
CountShape(t) ==
  /\ at[t] = "query" /\ job[t].call.route = "counts" /\ DOMAIN job[t].got # job[t].seen
  /\ LET got == job[t].got
         s == CHOOSE x \in job[t].seen : x \notin DOMAIN got
     IN \E ok \in BOOLEAN :
          job' = [job EXCEPT ![t].failed = @ \/ ~ ok, ![t].got =
                    [x \in DOMAIN got \union {s} |->
                       IF x # s THEN got[x]
                       ELSE IF ok THEN Total(Schema[s].target, None) ELSE 0]]
  /\ UNCHANGED <<cached, at, todo, graph, edits, calls>>
Counted(t) ==
  /\ at[t] = "query" /\ job[t].call.route = "counts" /\ DOMAIN job[t].got = job[t].seen
  /\ Finish(t, TRUE, [status |-> 200, counts |-> job[t].got])
  /\ UNCHANGED <<cached, todo, graph, edits, calls>>

(* get_entity: what is said of the entity itself, or not found; a failure shows.  *)
Outgoing(x) == {tr \in graph : tr[1] = x}
EntitySilent(t) ==      \* mutant
  /\ at[t] = "query" /\ job[t].call.route = "entity"
  /\ LET x == job[t].call.iri IN
       \E ok \in BOOLEAN :
         Finish(t, ok, IF ~ ok \/ Outgoing(x) = {} THEN [status |-> 404]
                       ELSE [status |-> 200, body |-> Outgoing(x)])
  /\ UNCHANGED <<cached, todo, graph, edits, calls>>
Entity(t) ==
  /\ at[t] = "query" /\ job[t].call.route = "entity"
  /\ LET x == job[t].call.iri IN
       \/ Finish(t, FALSE, [status |-> 503])
       \/ Finish(t, TRUE, IF Outgoing(x) = {} THEN [status |-> 404]
                          ELSE [status |-> 200, body |-> Outgoing(x)])
  /\ UNCHANGED <<cached, todo, graph, edits, calls>>

(* dereference_entity: every triple that mentions the resource, in the form asked *)
(* for; the alternates, too, only for a resource that exists.                     *)
Description(x) == {tr \in graph : tr[1] = x \/ tr[3] = x}
RenderHtml(d, x) ==
  LET own == {tr \in d : tr[1] = x} IN
  [types |-> {tr[3] : tr \in {y \in own : y[2] = Type}},
   properties |-> {<<tr[2], tr[3]>> : tr \in {y \in own : y[2] # Type /\ y[3] \in Texts}},
   links |-> {<<tr[2], tr[3]>> : tr \in {y \in own : y[2] # Type /\ y[3] \notin Texts}},
   referencedBy |-> {<<tr[2], tr[1]>> : tr \in {y \in d : y[3] = x}}]
Respond(d, x, media) == IF media = "html" THEN RenderHtml(d, x) ELSE d
Media(c) == Negotiate(c.accept, c.override, Supported(c))
Resource(t) ==
  /\ at[t] = "query" /\ job[t].call.route = "resource"
  /\ LET c == job[t].call IN
       \/ Finish(t, FALSE, [status |-> 503])
       \/ Finish(t, TRUE,
                 IF Description(c.iri) = {} THEN [status |-> 404]
                 ELSE IF c.profile = "alt" THEN [status |-> 200, formats |-> Supported(c)]
                 ELSE [status |-> 200, media |-> Media(c),
                       body |-> Respond(Description(c.iri), c.iri, Media(c))])
  /\ UNCHANGED <<cached, todo, graph, edits, calls>>

(* dereference_shape: the shape as it was parsed, from memory. *)
Definition(t) ==
  /\ at[t] = "query" /\ job[t].call.route = "shape"
  /\ LET c == job[t].call IN
       Finish(t, TRUE, IF c.profile = "alt" THEN [status |-> 200, formats |-> Supported(c)]
                       ELSE [status |-> 200, media |-> Media(c), definition |-> Schema[c.shape]])
  /\ UNCHANGED <<cached, todo, graph, edits, calls>>

(* is_file_referenced, which download_file asks first: without a link predicate   *)
(* nothing is queried. A failure leaves the answer to what registered/ holds; what *)
(* the bucket does to a published file is Downloads.                               *)
LinkPredicates(t) == {l[2] : l \in LinksToShape(Descriptors(t), DigitalCopyShape)}
Published(t) ==
  /\ at[t] = "query" /\ job[t].call.route = "published"
  /\ LET linked == \E tr \in graph : tr[2] \in LinkPredicates(t) /\ tr[3] = job[t].call.iri IN
       \/ /\ LinkPredicates(t) # {}
          /\ \E s \in {200, 503} : Finish(t, FALSE, [status |-> s])
       \/ Finish(t, TRUE, [status |-> IF linked THEN 200 ELSE 404])
  /\ UNCHANGED <<cached, todo, graph, edits, calls>>

(* A curator adds or removes something while requests run (the curator's side is  *)
(* EntityWrites and CuratorWrites).                                               *)
Curate(tr) ==
  /\ edits < MaxEdits /\ edits' = edits + 1
  /\ graph' = IF tr \in graph THEN graph \ {tr} ELSE graph \union {tr}
  /\ UNCHANGED <<cached, at, todo, job, calls>>

Parse(t) == Access(t) \/ Reset(t) \/ Fill(t)
Serve(t) == \/ Known(t) \/ ShapeList(t) \/ ListPage(t) \/ ListTotal(t) \/ Search(t)
            \/ CountShape(t) \/ Counted(t) \/ Entity(t) \/ Resource(t)
            \/ Definition(t) \/ Published(t)
Next == \/ \E t \in Threads : Parse(t) \/ Serve(t)
        \/ \E t \in Threads, c \in Calls : Arrive(t, c) \/ Refuse(t, c)
        \/ \E tr \in Candidates : Curate(tr)
Spec == Init /\ [][Next]_vars
FairSpec == Spec /\ \A t \in Threads : WF_vars(Parse(t))

TypeOK == /\ cached = None \/ cached \subseteq Shapes
          /\ \A t \in Threads : at[t] \in Places /\ todo[t] \subseteq Shapes
          /\ \A t \in Threads : (at[t] = "fill") = (todo[t] # {})

(* What schema.ttl keeps to: a link to a digital copy is declared by a shape with  *)
(* a class and a path; a path is declared once in a shape, shapes have classes of  *)
(* their own, a nested node is not a blank node of an entity's shape, and digital  *)
(* copies are described by the one shape.                                          *)
CopiesAreLinked ==
  \A s \in Shapes : \A p \in Schema[s].properties :
    p.node = DigitalCopyShape => p.path # None /\ Schema[s].target # None
WellDeclared ==
  /\ \A s \in Shapes : \A p, q \in Schema[s].properties : p.path = q.path => p = q
  /\ \A s \in Shapes : Schema[s].target # None
  /\ \A s, u \in Shapes : Schema[s].target = Schema[u].target => s = u
  /\ \A s \in Shapes : \A p \in Schema[s].properties :
       p.node # None /\ "BlankNode" \in p.kinds => ShapeRole(Schema, p.node) = "helper-bridge"
  /\ DigitalCopyShape \in Shapes /\ Schema[DigitalCopyShape].target = DigitalDocument

(* However the first requests of a process overlap, a cache that no thread is      *)
(* filling holds every shape: a thread that replaces another's half-filled cache   *)
(* fills all of it, and the other goes on in the new one (_shapes reads            *)
(* self._cache for every shape).                                                   *)
SettledIsWhole ==
  cached # None /\ (\A t \in Threads : at[t] # "fill") => cached = Shapes

(* A whole cache loses a shape again only to a thread that found none before:      *)
(* without one, the catalogue stays whole for the life of the process.             *)
WholeForGood ==
  [][cached = Shapes /\ (\A t \in Threads : at[t] # "reset") => cached' = Shapes]_vars

(* Once it has been asked for, the catalogue becomes whole and stays so, although  *)
(* several threads may start it over (_shapes).                                    *)
CatalogueSettles == [](cached # None => <>[](cached = Shapes))

(* Seen in the whole catalogue, what is not found is not there: a failing store is *)
(* never answered as absence (the 404s of the routes).                             *)
AbsenceIsReal ==
  \A t \in {x \in Threads : at[x] = "done"} :
    LET j == job[t]  absent(x) == j.since = edits => x = {} IN
    j.answer.status = 404 /\ (j.call.route \in Navigated => j.seen = Shapes)
      => /\ ~ j.failed
         /\ j.call.route \in {"list", "search", "shape"} => j.call.shape \notin Shapes
         /\ j.call.route = "entity" => absent(Outgoing(j.call.iri))
         /\ j.call.route = "resource" => absent(Description(j.call.iri))
         /\ j.call.route = "published" => absent({tr \in graph : tr[3] = j.call.iri /\
              \E s \in Shapes : \E p \in Schema[s].properties :
                p.node = DigitalCopyShape /\ tr[2] = p.path})

(* An answer is exact when every query of it succeeded over one and the same graph. *)
Exact(t) == /\ at[t] = "done" /\ job[t].answer.status # 400
            /\ ~ job[t].failed /\ job[t].since = job[t].until

(* What two answers of one graph say of each other: the sidebar's count and the    *)
(* list's total, two pages of a list, a list and a search for what comes to the    *)
(* same filter, a record of a list and its own page, the record and the page in    *)
(* any representation, and the two ends of a link, which is shown from both        *)
(* (resource.py: no 404 may depend on the format, and the graph is walkable from   *)
(* every IRI).                                                                     *)
Shown(j) ==
  LET x == j.call.iri  p == j.answer.body IN
  IF j.call.route = "entity" \/ j.answer.media # "html" THEN p
  ELSE {<<x, Type, c>> : c \in p.types}
         \union {<<x, r[1], r[2]>> : r \in p.properties \union p.links}
         \union {<<r[2], r[1], x>> : r \in p.referencedBy}
Mentions(trs, x) == {tr \in trs : tr[1] = x \/ tr[3] = x}
IsPage(j) == j.call.route = "resource" /\ "body" \in DOMAIN j.answer
SameList(j, k) == j.call.shape = k.call.shape /\ Filter(j.call) = Filter(k.call)
ListsAgree(j, k) ==
  SameList(j, k) =>
    /\ j.answer.total = k.answer.total
    /\ j.call.offset + PageSize = k.call.offset =>
         /\ j.answer.items \intersect k.answer.items = {}
         /\ k.answer.items # {} => /\ Cardinality(j.answer.items) = PageSize
                                  /\ j.answer.total > k.call.offset
         /\ k.answer.items = {} => j.answer.total =< k.call.offset
CountsAgree(list, counts) ==
  Filter(list.call) = None /\ list.call.shape \in counts.seen =>
    list.answer.total = counts.answer.counts[list.call.shape]
SearchFinds(list, search) ==
  SameList(list, search) /\ Cardinality(search.answer.items) < SearchSize =>
    list.answer.items \subseteq search.answer.items
RecordOpens(list, j) == j.call.iri \in list.answer.items => j.answer.status = 200
RecordShown(entity, resource) ==
  entity.call.iri = resource.call.iri /\ entity.answer.status = 200 =>
    /\ resource.answer.status = 200
    /\ IsPage(resource) => Shown(entity) \subseteq Shown(resource)
PagesAgree(j, k) ==
  /\ j.call.iri = k.call.iri => j.answer.status = k.answer.status
  /\ IsPage(j) /\ IsPage(k) =>
       Mentions(Shown(j), k.call.iri) = Mentions(Shown(k), j.call.iri)
AnswersAgree ==
  \A t, u \in {x \in Threads : Exact(x)} :
    LET j == job[t]  k == job[u]  is(r, s) == j.call.route = r /\ k.call.route = s IN
    j.since = k.since /\ (\A x \in {j, k} : x.answer.status = 404 => x.call.route \notin Navigated)
      => /\ is("list", "list") => ListsAgree(j, k)
         /\ is("list", "counts") => CountsAgree(j, k)
         /\ is("list", "search") => SearchFinds(j, k)
         /\ is("list", "entity") \/ is("list", "resource") => RecordOpens(j, k)
         /\ is("entity", "resource") => RecordShown(j, k)
         /\ is("resource", "resource") => PagesAgree(j, k)

(* One descriptor serves three readers of a field: what the form edits inline is   *)
(* what validation takes for the entity's own (inline_bridge), and what it uploads *)
(* is what counts as a link to a digital copy for downloads and for the cleanup    *)
(* (_extract_property, _build_shape_dep_graph, find_links_to_shape).               *)
FieldsAgree ==
  cached # None =>
    LET catalogue == Holding(cached) IN
    \A s \in cached : \A p \in catalogue[s].properties :
      /\ p.type = "nested" <=>
           [from |-> s, pred |-> p.path, to |-> p.node, inline |-> TRUE] \in Dependencies(catalogue)
      /\ p.type = "file-list" <=>
           <<catalogue[s].target, p.path>> \in LinksToShape(catalogue, DigitalCopyShape)
      /\ p.type \in {"nested", "entity-search", "file-list"}
           => p.path \in RelationPredicates(catalogue)

(* A shape of the schema is found and listed: 404 is for a "malformed or unknown   *)
(* shape name" (the Raises sections of dereference_shape and list_data), and the   *)
(* list is "all SHACL NodeShapes with metadata" (list_shapes).                     *)
ShapesAreFound ==
  \A t \in {x \in Threads : at[x] = "done"} :
    LET j == job[t] IN
    /\ j.call.route \in {"list", "search", "shape"} /\ j.call.shape \in Shapes
         => j.answer.status # 404
    /\ j.call.route = "shapes" => DOMAIN j.answer.shapes = Shapes
================================================================================
