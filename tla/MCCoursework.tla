---------------------------- MODULE MCCoursework ----------------------------
EXTENDS Coursework, TLC
CONSTANTS b1, q1, x
MCHome == [q \in Question |-> b1]
One == [form |-> "one", ids |-> {x}]
MultipleChoice == [type |-> "multiple_choice", choices |-> {x}, answer |-> One]
TrueFalse == [type |-> "true_false", choices |-> {}, answer |-> [form |-> "boolean", ids |-> {}]]
MCPayload == {MultipleChoice, TrueFalse}
\* The true or false question of the seed data names a choice.
MCSeed == [q \in Question |-> IF q = q1 THEN MultipleChoice ELSE [TrueFalse EXCEPT !.answer = One]]
MCGranted == [w \in Worker |-> AssessmentPermission]
Symmetry == Permutations(Worker)
=============================================================================
