\* An autosave is accepted while a submit is scoring.
SPECIFICATION FairSpec
CONSTANTS
    Student = {s1}
    Request = {r1, r2}
    Answers = {a, b}
    None = none
    Ops = {"start", "saveSheet", "submit"}
    Cap = 0
    ExamStart = 0
    ExamEnd = 2
    Duration = 1
    Grace = 1
    Objective = TRUE
    Subjective = FALSE
    MaxTime = 3
    MaxRequests = 3
    MaxFailures = 0
INVARIANTS FinalScored
CHECK_DEADLOCK FALSE
