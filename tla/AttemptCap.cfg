\* Three students, two places, three requests in flight at once.
SPECIFICATION Spec
CONSTANTS
    Student = {s1, s2, s3}
    Request = {r1, r2, r3}
    Answers = {a}
    None = none
    Ops = {"start", "violation"}
    Cap = 2
    ExamStart = 0
    ExamEnd = 2
    Duration = 1
    Grace = 1
    Objective = TRUE
    Subjective = FALSE
    MaxTime = 1
    MaxRequests = 5
    MaxFailures = 1
SYMMETRY StudentSymmetry
INVARIANTS CapRespected
CHECK_DEADLOCK FALSE
PROPERTIES DeadlineFixed
