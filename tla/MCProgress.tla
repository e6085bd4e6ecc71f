------------------------------ MODULE MCProgress ------------------------------
EXTENDS Progress, TLC
CONSTANTS c1, c2, i1, i2, algebra, biology, t1, t2, tag, student, manager, viewed, watched, quiz
Nothing == [institution |-> None, slug |-> None, terms |-> None, prerequisites |-> None]
MCChange == {
    [Nothing EXCEPT !.institution = i1, !.slug = algebra],
    [Nothing EXCEPT !.institution = i1, !.slug = biology, !.terms = {tag}, !.prerequisites = {c1}],
    [Nothing EXCEPT !.institution = i2],
    [Nothing EXCEPT !.prerequisites = {c2}]}
MCTermChange == {
    [slug |-> algebra, parent |-> {}], [slug |-> biology, parent |-> {t1}]}
MCAsked == {
    [view |-> "course-list", course |-> None],
    [view |-> "course-detail", course |-> c1],
    [view |-> "course-structure", course |-> c1]}
MCSeed == [prerequisite |-> c2, main |-> c1, institution |-> i1, slugs |-> <<algebra, biology>>, term |-> t1]
MCGranted == student :> ({"course.view", "progress.manage"} \X (Scope \cup Course))
             @@ manager :> ({"course.manage"} \X Scope)
MCEventType == viewed :> "LessonViewed" @@ watched :> "VideoCompleted" @@ quiz :> "QuizSubmitted"
Symmetry == Permutations(Worker)
=============================================================================
