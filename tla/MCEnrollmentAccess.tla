------------------------- MODULE MCEnrollmentAccess -------------------------
EXTENDS EnrollmentAccess, TLC
\* Students, requests and jobs are told apart only by what is done with them.
Symmetry == Permutations(Student) \cup Permutations(Worker) \cup Permutations(Job)
=============================================================================
