---------------------------- MODULE ShapeDescriptors ----------------------------
(* What the services read out of schema.ttl                                      *)
(* (rfdb-core/rfdb_core/schema_extractor.py and shapes.py). A schema maps each   *)
(* shape to what it declares, a parsed property is the record of its             *)
(* constraints; a catalogue maps shapes to the descriptors made from them.       *)
EXTENDS Integers, FiniteSets

CONSTANTS None,             \* a constraint, class or path that is not declared
          Label,            \* rdfs:label
          DigitalDocument,  \* schema:DigitalDocument
          DigitalCopyShape, \* the shape of digital copies
          LangString, String, GYear,
          TemporalTypes, NumericTypes

ASSUME DatatypeAssumption == /\ GYear \in TemporalTypes
                             /\ LangString \notin TemporalTypes \union NumericTypes

(* A shape with a label is an entity of its own, any other a bridge between        *)
(* entities (_infer_shape_role); so is a nested shape the schema does not declare. *)
ShapeRole(schema, s) ==
  IF s \in DOMAIN schema /\ \E p \in schema[s].properties : p.path = Label
    THEN "standalone-entity" ELSE "helper-bridge"
NestedRole(schema, p) == IF p.node = None THEN None ELSE ShapeRole(schema, p.node)

(* The widget of a field: the datatypes decide before the references do            *)
(* (_infer_field_type), and two kinds of field are promoted (_extract_property).   *)
LiteralType(datatypes) ==
  IF LangString \in datatypes THEN "lang-string"
  ELSE IF datatypes \subseteq TemporalTypes THEN "temporal"
  ELSE IF GYear \in datatypes THEN "year"
  ELSE IF datatypes \intersect NumericTypes # {} THEN "number" ELSE "text"
ReferenceType(schema, p) ==
  IF p.node # None /\ ("BlankNode" \in p.kinds \/ NestedRole(schema, p) = "helper-bridge")
    THEN "nested"
  ELSE IF p.node # None \/ p.class # None THEN "entity-search"
  ELSE IF "IRI" \in p.kinds THEN "uri" ELSE "text"
InferFieldType(schema, p) ==
  IF p.values # {} THEN "enum"
  ELSE IF p.datatypes # {} THEN LiteralType(p.datatypes) ELSE ReferenceType(schema, p)

Multivalued(p) == p.max = None \/ p.max > 1
TakesFiles(schema, p) ==
  p.node \in DOMAIN schema /\ schema[p.node].target = DigitalDocument
UnpromotedType(schema, p) ==      \* mutant
  LET base == InferFieldType(schema, p) IN
  IF base = "lang-string" /\ Multivalued(p) /\ p.node = None
    THEN "lang-string-list" ELSE base
FieldType(schema, p) ==
  LET base == InferFieldType(schema, p) IN
  IF TakesFiles(schema, p) THEN "file-list"
  ELSE IF base = "lang-string" /\ Multivalued(p) /\ p.node = None
    THEN "lang-string-list" ELSE base
LanguageTagPolicy(type, datatypes) ==
  IF type \notin {"lang-string", "lang-string-list"} THEN "not-applicable"
  ELSE IF String \in datatypes THEN "optional" ELSE "required"

Property(schema, p) ==
  LET type == FieldType(schema, p) IN
  [path |-> p.path, type |-> type, class |-> p.class, node |-> p.node,
   role |-> NestedRole(schema, p), max |-> p.max, values |-> p.values,
   tags |-> LanguageTagPolicy(type, p.datatypes)]

(* The concrete types a new entity may choose from: a shape-level alternative      *)
(* whose branches are one class constraint each, or nothing.                       *)
TypeOptions(schema, s) ==
  IF \A b \in schema[s].branches : \E c \in b.classes : b.classes = {c} /\ b.others = {}
    THEN UNION {b.classes : b \in schema[s].branches} ELSE {}

(* A property without a path is malformed and left out (_extract_shape). *)
Descriptor(schema, s) ==
  [target |-> schema[s].target, role |-> ShapeRole(schema, s),
   additional |-> schema[s].classes, options |-> TypeOptions(schema, s),
   properties |-> {Property(schema, p) : p \in {x \in schema[s].properties : x.path # None}}]
Catalogue(schema, shapes) == [s \in shapes |-> Descriptor(schema, s)]

(* The catalogue as both services answer it, with the deployment's read-only flags *)
(* (stamp_read_only and list_shapes).                                              *)
Stamped(catalogue, readOnlyShapes) ==
  [s \in DOMAIN catalogue |->
     [descriptor |-> catalogue[s], readOnly |-> s \in readOnlyShapes]]

(* What the routes take from a catalogue: the links to a shape                     *)
(* (find_links_to_shape), the relations of the graph (relation_predicates) and the *)
(* dependencies of validation (_build_shape_dep_graph).                            *)
LinksToShape(catalogue, nested) ==
  UNION {{<<catalogue[s].target, p.path>> :
            p \in {x \in catalogue[s].properties : x.node = nested}} :
         s \in {x \in DOMAIN catalogue : catalogue[x].target # None}}
RelationPredicates(catalogue) ==
  UNION {{p.path : p \in {x \in catalogue[s].properties : x.node # None \/ x.class # None}} :
         s \in DOMAIN catalogue}
Dependencies(catalogue) ==
  UNION {{[from |-> s, pred |-> p.path, to |-> p.node,
           inline |-> p.role = "helper-bridge" /\ p.type = "nested"] :
            p \in {x \in catalogue[s].properties : x.node # None}} :
         s \in DOMAIN catalogue}
================================================================================
