--------------------------- MODULE MCEntityWrites ---------------------------
EXTENDS EntityWrites, TLC

\* Nothing in the specification names a bridge or a value.
Renamings == Permutations(Bridges) \union Permutations(Values)
==============================================================================
