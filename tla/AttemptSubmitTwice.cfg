\* Two finalisers of one attempt overlap.
SPECIFICATION FairSpec
CONSTANTS
    Student = {s1}
    Request = {r1, r2}
    Answers = {a}
    None = none
    Ops = {"start", "submit"}
    Cap = 0
    ExamStart = 0
    ExamEnd = 2
    Duration = 1
    Grace = 1
    Objective = TRUE
    Subjective = FALSE
    MaxTime = 3
    MaxRequests = 3
    MaxFailures = 0
PROPERTIES FinalizedOnce
CHECK_DEADLOCK FALSE
