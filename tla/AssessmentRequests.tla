-------------------------- MODULE AssessmentRequests --------------------------
(***************************************************************************)
(* What the two models of assessment-service have in common: questions,    *)
(* and requests, each of which takes the steps of its view and its service *)
(* functions one by one.                                                   *)
(***************************************************************************)

CONSTANTS
    Question,      \* questions that may be linked to a quiz
    Worker         \* requests in progress

VARIABLE worker    \* what each request is doing

=============================================================================
