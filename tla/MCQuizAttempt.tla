---------------------------- MODULE MCQuizAttempt ----------------------------
EXTENDS QuizAttempt, TLC
\* Questions and requests are told apart only by what they hold or do.
Symmetry == Permutations(Question) \cup Permutations(Worker)
=============================================================================
