-------------------------------- MODULE MCReader --------------------------------
(* Sources with digital copies and contributors, for TLC. *)
EXTENDS ReaderRoutes, TLC
CONSTANTS source, contributor, role, missing,
          Source, Agent, AgentRole, Person, Organization, copyOf, by, hasRole, en, it

Field(path) == [path |-> path, values |-> {}, datatypes |-> {}, kinds |-> {},
                class |-> None, node |-> None, max |-> None]
LabelField == [Field(Label) EXCEPT !.datatypes = {LangString, String}, !.max = 1]
Declared(target, fields) ==
  [target |-> target, classes |-> {}, branches |-> {}, properties |-> fields]
SmallSchema ==
  source :> Declared(Source, {LabelField, [Field(copyOf) EXCEPT !.node = DigitalCopyShape],
                              [Field(by) EXCEPT !.class = Agent, !.node = contributor],
                              [Field(hasRole) EXCEPT !.node = role]})
  @@ DigitalCopyShape :> Declared(DigitalDocument, {})
  @@ role :> Declared(AgentRole, {})
  @@ contributor :> [Declared(Agent, {LabelField}) EXCEPT
                       !.branches = {[classes |-> {c}, others |-> {}] :
                                       c \in {Person, Organization}}]

(* The schema that is tried keeps to what schema.ttl keeps to. *)
ASSUME SchemaAssumption == CopiesAreLinked /\ WellDeclared

(* Source 1 has a label in two languages and a digital copy, 3; 2 is a source      *)
(* without a label, and may become one that source 1 mentions.                     *)
FirstGraph == {<<1, Type, Source>>, <<1, Label, en>>, <<1, Label, it>>, <<1, copyOf, 3>>,
               <<2, Type, Source>>}
Edited == {<<1, by, 2>>, <<2, Type, Source>>}

NoCall == [route |-> "", shape |-> None, q |-> None, offset |-> 0, iri |-> None,
           accept |-> <<>>, override |-> None, profile |-> None]
Plain == [typed |-> {it}, stripped |-> {it}]
Quoted == [typed |-> {}, stripped |-> {it}]
Listing(offset) == [NoCall EXCEPT !.route = "list", !.shape = source, !.offset = offset]
Browser == <<[type |-> "html", q |-> 10], [type |-> "*/*", q |-> 8]>>
SomeCalls ==
  {Listing(0), Listing(1), [Listing(0) EXCEPT !.q = Plain],
   [Listing(0) EXCEPT !.route = "search", !.q = Quoted],
   [Listing(0) EXCEPT !.route = "search"], [NoCall EXCEPT !.route = "counts"],
   [NoCall EXCEPT !.route = "entity", !.iri = 2],
   [NoCall EXCEPT !.route = "shape", !.shape = source, !.override = "html"],
   [NoCall EXCEPT !.route = "shape", !.shape = source, !.profile = "alt"],
   [NoCall EXCEPT !.route = "shape", !.shape = missing],
   [NoCall EXCEPT !.route = "published", !.iri = 3]}
  \union {[NoCall EXCEPT !.route = "shapes"],
          [NoCall EXCEPT !.route = "resource", !.iri = 2, !.accept = Browser],
          [NoCall EXCEPT !.route = "resource", !.iri = 3]}
  \union {[NoCall EXCEPT !.route = "resource", !.iri = 1, !.accept = a] : a \in {<<>>, Browser}}
================================================================================
