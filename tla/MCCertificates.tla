--------------------------- MODULE MCCertificates ---------------------------
EXTENDS Certificates, TLC
\* Rows, submissions and requests are told apart only by what they hold.
Symmetry ==
    Permutations(Row) \cup Permutations(Submission)
    \cup Permutations(Worker) \cup Permutations(Clerk)
=============================================================================
