\* Every endpoint and the job on one attempt; a handler, or the job's process, fails anywhere.
SPECIFICATION FairSpec
CONSTANTS
    Student = {s1}
    Request = {r1, r2}
    Answers = {a}
    None = none
    Ops = {"start", "saveAnswer", "saveSheet", "submit", "violation"}
    Cap = 0
    ExamStart = 0
    ExamEnd = 1
    Duration = 1
    Grace = 1
    Objective = FALSE
    Subjective = TRUE
    MaxTime = 3
    MaxRequests = 3
    MaxFailures = 1
INVARIANTS TypeOK AcceptedInTime JobAfterGrace
PROPERTIES AllFinalized
CHECK_DEADLOCK FALSE
