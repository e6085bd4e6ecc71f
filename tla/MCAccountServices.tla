------------------------- MODULE MCAccountServices -------------------------
EXTENDS AccountServices, TLC
CONSTANTS a1, i1, i2
MCPermission == {<<"profile", "manage">>, <<"rbac", "manage">>}
MCKey == {<<a1, <<"profile", "manage">>, i1>>}
MCHome == [s \in Section |-> i2]
\* The two parts take their workers, rows and clerks from the same model values as
\* their askers, secrets and users, so that a permutation serves both.
Symmetry == Permutations(Worker) \cup Permutations(Clerk) \cup Permutations(Row)
=============================================================================
