\* Two students, every endpoint; nothing else is in progress while an attempt is finalised.
SPECIFICATION Spec
CONSTANTS
    Student = {s1, s2}
    Request = {r1, r2}
    Answers = {a, b}
    None = none
    Ops = {"start", "saveAnswer", "saveSheet", "submit", "violation"}
    Cap = 0
    ExamStart = 0
    ExamEnd = 1
    Duration = 1
    Grace = 1
    Objective = TRUE
    Subjective = TRUE
    MaxTime = 3
    MaxRequests = 4
    MaxFailures = 1
SYMMETRY StudentSymmetry
CONSTRAINT FinalisedAlone
INVARIANTS AcceptedKept
PROPERTIES KeepsPromise
CHECK_DEADLOCK FALSE
