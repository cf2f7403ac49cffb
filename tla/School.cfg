SPECIFICATION SchoolSpec
CONSTANTS
    Student = {s1}
    Classes = 2
    MaxLeave = 2
    MaxOffice = 2
    MaxAborts = 1
    Editor = {e1, e2}
    Tab = {t1, t2}
    Grader = {g1, g2}
    Resubmissions = 1
    MaxTime = 1
    MaxEdits = 2
    MaxGrades = 2
    File = {f1, f2}
    Caller = {u1, u2}
    Worker = {w1, w2}
    Quota = 1
    MaxSize = 2
    MaxPuts = 2
    Sent = {f1}
    MaxTries = 2
    MaxMishaps = 2
    NoFile = none
    Staff = {p1, p2}
    Reader = {r1, r2}
    NoCopy = none
    MaxRequests = 2
    Question = {q1, q2}
    Marker = {m1, m2}
    MaxMark = 1
    MaxMarkings = 2
    Pupil = {s1, s2}
    Nobody = nobody
    Clerk = {k1, k2}
    MaxRows = 3
    MaxCalls = 3
INVARIANTS SchoolTypeOK RegisterComplete LeaveExplained OneLeave ToldMissedAll HandInsBounded ScoredIsLast QuotaKept PaperExplained PublishedMarked GradesAddUp
PROPERTIES EnrolmentStands PresenceStands NothingUndone FilesKeepPromise JobsCatchUp
CHECK_DEADLOCK FALSE
