--------------------------------- MODULE MCMerge ---------------------------------
(* Expressions, works and their agent roles, with optional edges that make the    *)
(* catalogue cyclic, and one edge to a shape that does not exist.                 *)
EXTENDS ValidationMerge
CONSTANTS expr, work, role, person, nowhere, derived, component, realised, hasRole, agent,
          subject, e1, e2, e3, k, b, p

E(s, pr, o, inl) == [from |-> s, pred |-> pr, to |-> o, inline |-> inl]
Always == {E(expr, hasRole, role, TRUE), E(role, agent, person, FALSE),
           E(work, subject, nowhere, FALSE)}
Optional == {E(expr, derived, expr, FALSE), E(expr, component, work, FALSE),
             E(work, hasRole, role, TRUE), E(work, realised, expr, FALSE)}
AllCatalogues == {Always \union c : c \in SUBSET Optional}
TwoRoots == expr :> e1 @@ work :> k
Stored == {<<e1, derived, e2>>, <<e2, derived, e1>>, <<e3, derived, e2>>, <<e2, component, k>>,
           <<e1, hasRole, b>>, <<k, hasRole, b>>, <<b, agent, p>>}
Sent == e1 :> {<<e1, derived, e2>>, <<e1, component, k>>, <<e1, hasRole, b>>, <<b, agent, p>>}
        @@ k :> {<<k, realised, e3>>, <<k, hasRole, b>>, <<b, agent, p>>}
================================================================================
