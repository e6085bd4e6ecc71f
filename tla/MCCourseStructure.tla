-------------------------- MODULE MCCourseStructure --------------------------
EXTENDS CourseStructure, TLC
\* Rows are told apart only by their contents, requests by what they do.
Symmetry == Permutations(Row) \cup Permutations(Worker) \cup Permutations(Scope)
=============================================================================
