------------------------------ MODULE MCStateId -----------------------------
\* The clients of StateId are interchangeable.
EXTENDS StateId, TLC

ClientSymmetry == Permutations(Clients)
=============================================================================
