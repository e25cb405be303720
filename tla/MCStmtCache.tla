------------------------------ MODULE MCStmtCache ------------------------------
EXTENDS StmtCache, TLC

CONSTANTS a, b, c, d

\* Names differ by what they hash to only, and every hash is an initial state.
NameSymmetry == Permutations({a, b, c, d})

\* A query without the identity column, and one with it in second place.
MCColumns == {-1, 1}

\* identity_slot by default.
DefaultSlot == 0

================================================================================
