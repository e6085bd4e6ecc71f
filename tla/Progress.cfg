CONSTANTS
    c1 = c1
    c2 = c2
    i1 = i1
    i2 = i2
    algebra = algebra
    biology = biology
    t1 = t1
    t2 = t2
    tag = tag
    student = student
    manager = manager
    viewed = viewed
    watched = watched
    quiz = quiz
    Course = {c1, c2}
    Institution = {i1, i2}
    Slug = {algebra, biology}
    Term = {t1, t2, tag}
    Tag = {tag}
    TagSlug = {biology}
    Change <- MCChange
    TermChange <- MCTermChange
    Asked <- MCAsked
    Seed <- MCSeed
    User = {student, manager}
    Granted <- MCGranted
    Worker = {w1, w2}
    None = none
    Gone = gone
    Studied = c1
    Lesson = {l1}
    Assessment = {a1}
    LessonSent = {"in_progress", "completed"}
    AssessmentSent = {"started", "submitted"}
    Event = {viewed, watched, quiz}
    EventType <- MCEventType
    Position = {1, 2}
    MaxLessons = 2
    MaxStarted = 3
SPECIFICATION Spec
SYMMETRY Symmetry
INVARIANTS
    CacheTruthful
    CatalogAgrees
    ProgressAgrees
PROPERTY OnlyOvertakenLose
CHECK_DEADLOCK FALSE
