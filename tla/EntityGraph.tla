----------------------------- MODULE EntityGraph -----------------------------
(***************************************************************************)
(* The graph the curator writes, as sets of triples over what the write    *)
(* path tells apart: a plain predicate of an entity ("label"), its         *)
(* inline-bridge predicate ("role", core:hasAgentRole) and a bridge's own  *)
(* single-valued predicate ("agent", sh:maxCount 1); with the graph        *)
(* patterns of the SPARQL that the code sends.                             *)
(***************************************************************************)
EXTENDS Naturals, FiniteSets

CONSTANTS
    Entities,    \* IRIs of parent entities
    Bridges,     \* IRIs of helper-bridge nodes (AgentRole)
    Values       \* labels, and the persons a bridge can point at

ASSUME GraphAssumptions ==
    /\ Entities # {}
    /\ Entities \intersect Bridges = {}
    /\ Values \intersect Bridges = {}

Predicates == {"label", "role"}

Triples == (Entities \X {"label"} \X Values)
           \union (Entities \X {"role"} \X Bridges)
           \union (Bridges \X {"agent"} \X Values)

About(s, graph) == {t \in graph : t[1] = s}
With(s, p, graph) == {t \in graph : t[1] = s /\ t[2] = p}

\* The bridges that e links to, and those a graph says something about.
Roles(e, graph) == {b \in Bridges : <<e, "role", b>> \in graph}
Described(graph) == {b \in Bridges : About(b, graph) # {}}

\* bridge_where: the bridges of e that no other link points at.
LinkedFrom(e, graph) == Roles(e, graph)                                \* mutant
Owned(e, graph) ==
    {b \in Roles(e, graph) : \A t \in graph : t[3] = b => t = <<e, "role", b>>}

BridgeTriples(e, graph) == {t \in graph : t[1] \in Owned(e, graph)}

\* What a write of these predicates of e takes out of the graph.
Replaced(e, predicates, graph) ==
    {t \in graph : t[1] = e /\ t[2] \in predicates}
    \union (IF "role" \in predicates THEN BridgeTriples(e, graph) ELSE {})

\* What the form sends: the whole entity, each of its bridges described inline.
Payload(e, v, agents) ==
    {<<e, "label", v>>} \union {<<e, "role", b>> : b \in DOMAIN agents}
                        \union {<<b, "agent", agents[b]>> : b \in DOMAIN agents}

Payloads(e) ==
    UNION {{Payload(e, v, agents) : v \in Values, agents \in [roles -> Values]} :
              roles \in SUBSET Bridges}
==============================================================================
