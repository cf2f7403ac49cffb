----------------------------- MODULE ExamAttempt -----------------------------
(***************************************************************************)
(* One exam taken by several students: starting an attempt under the       *)
(* student cap, autosaving answers, submitting, reporting violations and   *)
(* the exams.auto-submit job (backend/src/exams/student-exam.service.ts).  *)
(*                                                                         *)
(* The handlers run concurrently: a step of this specification is what a   *)
(* handler does between two awaits, or one whole database transaction      *)
(* where the code takes the row lock first.  A row that a handler loaded   *)
(* stays in its local record until it saves it, however old it is then.    *)
(***************************************************************************)
EXTENDS Integers, FiniteSets

CONSTANTS
    Student,        \* students who may take the exam
    Request,        \* HTTP handlers that may be running at the same time
    Answers,        \* what an answer sheet may hold
    None,           \* no student, no answer, no marks, no lock holder
    Ops,            \* the endpoints clients call in this instance
    Cap,            \* max_students_per_exam of the plan, 0 = no limit
    ExamStart, ExamEnd, Duration, Grace,
    Objective, Subjective,      \* does the exam have auto-scored / manual questions
    MaxTime, MaxRequests, MaxFailures    \* bounds of the model

Job == "job"                    \* the worker running exams.auto-submit
Process == Request \cup {Job}
Endpoints == {"start", "saveAnswer", "saveSheet", "submit", "violation"}

ASSUME SetsAssumption ==
    /\ IsFiniteSet(Student)
    /\ None \notin Student \cup Answers \cup Process
    /\ Job \notin Request
    /\ Ops \subseteq Endpoints
ASSUME NumbersAssumption ==
    /\ {Cap, ExamStart, ExamEnd, Duration, Grace, MaxTime, MaxRequests, MaxFailures} \subseteq Nat
    /\ Objective \in BOOLEAN /\ Subjective \in BOOLEAN

Finalized == {"SUBMITTED", "AUTO_SUBMITTED", "DISQUALIFIED"}
Status == {"NONE", "IN_PROGRESS"} \cup Finalized       \* NONE: no row yet
Sheet == Answers \cup {None}

(* A submission row; total is the sheet its total score was computed from. *)
Row == [status : Status, deadline : Nat, total : Sheet]
(* The answer rows of a submission; marked is the sheet the marks belong to. *)
AnswerRow == [value : Sheet, marked : Sheet]
NoRow == [status |-> "NONE", deadline |-> 0, total |-> None]
NoAnswer == [value |-> None, marked |-> None]

VARIABLES
    now,            \* the clock of all processes
    sub,            \* student_exam_submissions, one row per student (unique key)
    ans,            \* student_exam_answers, per submission
    examLock,       \* who holds the exams row FOR UPDATE
    proc,           \* what each process has loaded and which await it is at
    batch,          \* candidates the job loaded and has not come to yet
    accepted,       \* history: the last sheet a student was told is saved, and when
    requests, failures          \* counted to bound the model

vars == <<now, sub, ans, examLock, proc, batch, accepted, requests, failures>>

PC == {"idle", "lockExam", "count", "insert", "writeAnswer", "writeSheet", "syncSheet",
       "score", "saveMarks", "saveScore", "scoreMax", "saveMax", "readMarks", "writeTotal",
       "reload", "claim", "saveViolation"}

Local == [pc : PC, student : Student \cup {None}, row : Row, answer : AnswerRow,
          value : Sheet, to : Status, total : Sheet]

Idle == [pc |-> "idle", student |-> None, row |-> NoRow, answer |-> NoAnswer,
         value |-> None, to |-> "NONE", total |-> None]

TypeOK ==
    /\ now \in 0..MaxTime
    /\ sub \in [Student -> Row]
    /\ ans \in [Student -> AnswerRow]
    /\ examLock \in Request \cup {None}
    /\ proc \in [Process -> Local]
    /\ batch \subseteq Student
    /\ accepted \in [Student -> [value : Sheet, at : Nat]]
    /\ requests \in 0..MaxRequests
    /\ failures \in 0..MaxFailures

Init ==
    /\ now = 0
    /\ sub = [s \in Student |-> NoRow]
    /\ ans = [s \in Student |-> NoAnswer]
    /\ examLock = None
    /\ proc = [p \in Process |-> Idle]
    /\ batch = {}
    /\ accepted = [s \in Student |-> [value |-> None, at |-> 0]]
    /\ requests = 0
    /\ failures = 0

-----------------------------------------------------------------------------
(* Rules shared by the handlers.  A definition named Bug... is a plausible      *)
(* mistake in the one after it; no action uses it.                             *)

BugDeadlineFromEnd(startedAt) == ExamEnd - (startedAt + Duration)

EffectiveDeadline(startedAt) ==
    IF Duration > 0 /\ startedAt + Duration < ExamEnd THEN startedAt + Duration ELSE ExamEnd

PastDeadlineWithGrace(row) == now > row.deadline + Grace

Writable(row) == row.status = "IN_PROGRESS" /\ ~PastDeadlineWithGrace(row)

Started == {s \in Student : sub[s].status # "NONE"}
Full == Cap > 0 /\ Cardinality(Started) >= Cap

(* validateExamAccess: not over for the student, and in time; the audience is left out. *)
MayAccess(s, forWrite) ==
    /\ sub[s].status \in {"NONE", "IN_PROGRESS"}
    /\ ExamStart <= now
    /\ now <= ExamEnd \/ (forWrite /\ sub[s].status = "IN_PROGRESS")
    /\ sub[s].status = "IN_PROGRESS" =>
          IF forWrite THEN ~PastDeadlineWithGrace(sub[s]) ELSE now <= sub[s].deadline

(* A new request of student s, which loads nothing but what `loaded` says. *)
Receive(p, op, s, loaded) ==
    /\ op \in Ops
    /\ proc[p] = Idle
    /\ requests < MaxRequests
    /\ requests' = requests + 1
    /\ proc' = [proc EXCEPT ![p] = [loaded EXCEPT !.student = s]]
    /\ UNCHANGED <<now, sub, ans, examLock, batch, accepted, failures>>

Goto(p, pc) == proc' = [proc EXCEPT ![p].pc = pc]
Done(p) == proc' = [proc EXCEPT ![p] = Idle]

-----------------------------------------------------------------------------
(* startExam: access check, then, with a cap, lock the exam, count, insert. *)

StartExam(p, s) ==
    /\ sub[s].status = "NONE" /\ MayAccess(s, FALSE)
    /\ ~Full
    /\ Receive(p, "start", s,
               [Idle EXCEPT !.pc = IF Cap > 0 THEN "lockExam" ELSE "insert",
                            !.row = [status |-> "IN_PROGRESS",
                                     deadline |-> EffectiveDeadline(now),
                                     total |-> None]])

BugLockExam(p) ==
    /\ proc[p].pc = "lockExam"
    /\ Goto(p, "count")
    /\ UNCHANGED <<now, sub, ans, examLock, batch, accepted, requests, failures>>

LockExam(p) ==
    /\ proc[p].pc = "lockExam"
    /\ examLock = None
    /\ examLock' = p
    /\ Goto(p, "count")
    /\ UNCHANGED <<now, sub, ans, batch, accepted, requests, failures>>

CountStudents(p) ==
    /\ proc[p].pc = "count"
    /\ IF Full THEN Done(p) /\ examLock' = None
               ELSE Goto(p, "insert") /\ UNCHANGED examLock
    /\ UNCHANGED <<now, sub, ans, batch, accepted, requests, failures>>

BugUpsertAttempt(p) ==
    /\ proc[p].pc = "insert"
    /\ sub' = [sub EXCEPT ![proc[p].student] = proc[p].row]
    /\ examLock' = IF examLock = p THEN None ELSE examLock
    /\ Done(p)
    /\ UNCHANGED <<now, ans, batch, accepted, requests, failures>>

(* The insert fails on the unique (student, exam) key; commit or rollback frees the lock. *)
InsertAttempt(p) ==
    /\ proc[p].pc = "insert"
    /\ LET s == proc[p].student IN
       sub' = IF sub[s].status = "NONE" THEN [sub EXCEPT ![s] = proc[p].row] ELSE sub
    /\ examLock' = IF examLock = p THEN None ELSE examLock
    /\ Done(p)
    /\ UNCHANGED <<now, ans, batch, accepted, requests, failures>>

-----------------------------------------------------------------------------
(* Answers.  The check is made when the request arrives and again under the
   row lock of the submission, in the transaction that writes. *)

Store(s, value, marked) ==
    /\ ans' = [ans EXCEPT ![s] = [value |-> value, marked |-> marked]]
    /\ accepted' = [accepted EXCEPT ![s] = [value |-> value, at |-> now]]

SaveAnswer(p, s, value) ==
    /\ MayAccess(s, TRUE) /\ Writable(sub[s])
    /\ Receive(p, "saveAnswer", s,
               [Idle EXCEPT !.pc = "writeAnswer", !.answer = ans[s], !.value = value])

BugWriteAnswerUnchecked(p) ==
    /\ proc[p].pc = "writeAnswer"
    /\ LET s == proc[p].student IN
       IF sub[s].status = "IN_PROGRESS"
       THEN Store(s, proc[p].value, proc[p].answer.marked)
       ELSE UNCHANGED <<ans, accepted>>
    /\ Done(p)
    /\ UNCHANGED <<now, sub, examLock, batch, requests, failures>>

(* The answer entity was loaded before the transaction: a row that exists is
   saved with the marks it had then, a row that did not is inserted (unique key). *)
WriteAnswer(p) ==
    /\ proc[p].pc = "writeAnswer"
    /\ LET s == proc[p].student
           old == proc[p].answer
       IN  IF Writable(sub[s]) /\ (old = NoAnswer => ans[s] = NoAnswer)
           THEN Store(s, proc[p].value, old.marked)
           ELSE UNCHANGED <<ans, accepted>>
    /\ Done(p)
    /\ UNCHANGED <<now, sub, examLock, batch, requests, failures>>

SaveAnswerSheet(p, s, value) ==
    /\ MayAccess(s, TRUE) /\ Writable(sub[s])
    /\ Receive(p, "saveSheet", s, [Idle EXCEPT !.pc = "writeSheet", !.value = value])

WriteSheet(p) ==
    /\ proc[p].pc = "writeSheet"
    /\ LET s == proc[p].student IN
       IF Writable(sub[s]) THEN Store(s, proc[p].value, ans[s].marked)
                           ELSE UNCHANGED <<ans, accepted>>
    /\ Done(p)
    /\ UNCHANGED <<now, sub, examLock, batch, requests, failures>>

-----------------------------------------------------------------------------
(* finalizeAnswerSheet: store the sheet that came with the submit, then
   completeSubmission.  The reason MANUAL, TIMEOUT or DISQUALIFIED gives `to`. *)

Submit(p, s, value, to) ==
    /\ Writable(sub[s])
    /\ Receive(p, "submit", s, [Idle EXCEPT !.pc = "syncSheet", !.value = value, !.to = to])

(* completeSubmission skips the part of the scoring the exam has no questions for. *)
AfterObjective == IF Subjective THEN "scoreMax" ELSE "readMarks"
FirstScoring == IF Objective THEN "score" ELSE AfterObjective

SyncSheet(p) ==
    /\ proc[p].pc = "syncSheet"
    /\ LET s == proc[p].student
           value == proc[p].value
       IN  IF Writable(sub[s])
           THEN /\ Goto(p, FirstScoring)
                /\ IF value = None THEN UNCHANGED <<ans, accepted>>
                                   ELSE Store(s, value, ans[s].marked)
           ELSE Done(p) /\ UNCHANGED <<ans, accepted>>
    /\ UNCHANGED <<now, sub, examLock, batch, requests, failures>>

(* calculateObjectiveScore: load the submission and its answers, ... *)
LoadForScore(p) ==
    /\ proc[p].pc = "score"
    /\ LET s == proc[p].student IN
       proc' = [proc EXCEPT ![p].pc = "saveMarks", ![p].row = sub[s], ![p].answer = ans[s]]
    /\ UNCHANGED <<now, sub, ans, examLock, batch, accepted, requests, failures>>

(* ... save the answer entities with their marks: value and marks as loaded, ... *)
SaveMarks(p) ==
    /\ proc[p].pc = "saveMarks"
    /\ LET s == proc[p].student
           seen == proc[p].answer.value
       IN  ans' = IF seen = None THEN ans
                  ELSE [ans EXCEPT ![s] = [value |-> seen, marked |-> seen]]
    /\ Goto(p, "saveScore")
    /\ UNCHANGED <<now, sub, examLock, batch, accepted, requests, failures>>

(* ... and save the submission entity: its status as loaded, whatever it is now. *)
SaveScore(p) ==
    /\ proc[p].pc = "saveScore"
    /\ sub' = [sub EXCEPT ![proc[p].student] =
                   [proc[p].row EXCEPT !.total = proc[p].answer.value]]
    /\ Goto(p, AfterObjective)
    /\ UNCHANGED <<now, ans, examLock, batch, accepted, requests, failures>>

(* calculateSubjectiveMaxScore: load the submission, save it with the new maximum. *)
LoadForMax(p) ==
    /\ proc[p].pc = "scoreMax"
    /\ proc' = [proc EXCEPT ![p].pc = "saveMax", ![p].row = sub[proc[p].student]]
    /\ UNCHANGED <<now, sub, ans, examLock, batch, accepted, requests, failures>>

SaveMax(p) ==
    /\ proc[p].pc = "saveMax"
    /\ sub' = [sub EXCEPT ![proc[p].student] = proc[p].row]
    /\ Goto(p, "readMarks")
    /\ UNCHANGED <<now, ans, examLock, batch, accepted, requests, failures>>

(* syncSubmissionScoresFromExam: add up the stored marks, update only the totals. *)
ReadMarks(p) ==
    /\ proc[p].pc = "readMarks"
    /\ proc' = [proc EXCEPT ![p].pc = "writeTotal", ![p].total = ans[proc[p].student].marked]
    /\ UNCHANGED <<now, sub, ans, examLock, batch, accepted, requests, failures>>

WriteTotal(p) ==
    /\ proc[p].pc = "writeTotal"
    /\ sub' = [sub EXCEPT ![proc[p].student].total = proc[p].total]
    /\ Goto(p, "reload")
    /\ UNCHANGED <<now, ans, examLock, batch, accepted, requests, failures>>

(* Another finaliser may have finished meanwhile: already_finalized. *)
Reload(p) ==
    /\ proc[p].pc = "reload"
    /\ LET s == proc[p].student IN
       IF sub[s].status \in Finalized
       THEN Done(p)
       ELSE proc' = [proc EXCEPT ![p].pc = "claim", ![p].row = sub[s]]
    /\ UNCHANGED <<now, sub, ans, examLock, batch, accepted, requests, failures>>

BugClaimKeepsOldTotal(p) ==
    /\ proc[p].pc = "claim"
    /\ LET s == proc[p].student IN
       sub' = [sub EXCEPT ![s].status = proc[p].to, ![s].total = None]
    /\ Done(p)
    /\ UNCHANGED <<now, ans, examLock, batch, accepted, requests, failures>>

BugClaimOnlyWritable(p) ==
    /\ proc[p].pc = "claim"
    /\ LET s == proc[p].student IN
       sub' = IF Writable(sub[s])
              THEN [sub EXCEPT ![s].status = proc[p].to, ![s].total = proc[p].row.total]
              ELSE sub
    /\ Done(p)
    /\ UNCHANGED <<now, ans, examLock, batch, accepted, requests, failures>>

(* UPDATE ... WHERE status = IN_PROGRESS, with the totals as reloaded. *)
Claim(p) ==
    /\ proc[p].pc = "claim"
    /\ LET s == proc[p].student IN
       sub' = IF sub[s].status = "IN_PROGRESS"
              THEN [sub EXCEPT ![s].status = proc[p].to, ![s].total = proc[p].row.total]
              ELSE sub
    /\ Done(p)
    /\ UNCHANGED <<now, ans, examLock, batch, accepted, requests, failures>>

-----------------------------------------------------------------------------
(* reportViolation: load the IN_PROGRESS submission, add the event, save it. *)

ReportViolation(p, s) ==
    /\ sub[s].status = "IN_PROGRESS" /\ MayAccess(s, FALSE)
    /\ Receive(p, "violation", s, [Idle EXCEPT !.pc = "saveViolation", !.row = sub[s]])

SaveViolation(p) ==
    /\ proc[p].pc = "saveViolation"
    /\ sub' = [sub EXCEPT ![proc[p].student] = proc[p].row]
    /\ Done(p)
    /\ UNCHANGED <<now, ans, examLock, batch, accepted, requests, failures>>

-----------------------------------------------------------------------------
(* autoSubmitExpired: load the expired attempts, then finalise one after another. *)

BugExpiredNoGrace == {s \in Student : sub[s].status = "IN_PROGRESS" /\ now > sub[s].deadline}
Expired == {s \in Student : sub[s].status = "IN_PROGRESS" /\ PastDeadlineWithGrace(sub[s])}

JobQuery ==
    /\ proc[Job] = Idle /\ batch = {}
    /\ Expired # {}
    /\ batch' = Expired
    /\ UNCHANGED <<now, sub, ans, examLock, proc, accepted, requests, failures>>

JobTake(s) ==
    /\ proc[Job] = Idle /\ s \in batch
    /\ batch' = batch \ {s}
    /\ proc' = [proc EXCEPT ![Job] = [Idle EXCEPT !.pc = FirstScoring, !.student = s,
                                                  !.to = "AUTO_SUBMITTED"]]
    /\ UNCHANGED <<now, sub, ans, examLock, accepted, requests, failures>>

-----------------------------------------------------------------------------
(* An await that throws, or the process that dies: the handler ends where it is
   and an open transaction rolls back.  The job catches a candidate's error and
   goes on with the next one, unless its process died (the batch is lost). *)

Fail(p) ==
    /\ proc[p] # Idle
    /\ failures < MaxFailures
    /\ failures' = failures + 1
    /\ Done(p)
    /\ examLock' = IF examLock = p THEN None ELSE examLock
    /\ \/ UNCHANGED batch
       \/ p = Job /\ batch' = {}
    /\ UNCHANGED <<now, sub, ans, accepted, requests>>

Tick ==
    /\ now < MaxTime
    /\ now' = now + 1
    /\ UNCHANGED <<sub, ans, examLock, proc, batch, accepted, requests, failures>>

-----------------------------------------------------------------------------
CompleteSubmission(p) ==
    \/ LoadForScore(p) \/ SaveMarks(p) \/ SaveScore(p)
    \/ LoadForMax(p) \/ SaveMax(p)
    \/ ReadMarks(p) \/ WriteTotal(p) \/ Reload(p) \/ Claim(p)

(* A request that has arrived goes on. *)
Step(p) ==
    \/ LockExam(p) \/ CountStudents(p) \/ InsertAttempt(p)
    \/ WriteAnswer(p) \/ WriteSheet(p) \/ SyncSheet(p)
    \/ SaveViolation(p)

Arrive(p) ==
    \E s \in Student :
        \/ StartExam(p, s)
        \/ ReportViolation(p, s)
        \/ \E value \in Answers : SaveAnswer(p, s, value) \/ SaveAnswerSheet(p, s, value)
        \/ \E value \in Sheet, to \in Finalized : Submit(p, s, value, to)

JobStep == JobQuery \/ \E s \in Student : JobTake(s)

Next ==
    \/ Tick
    \/ JobStep
    \/ \E p \in Request : Arrive(p) \/ Step(p)
    \/ \E p \in Process : CompleteSubmission(p) \/ Fail(p)

Spec == Init /\ [][Next]_vars

(* Every handler that runs goes on, the clock moves, and BullMQ starts the job
   again every minute; whether a client calls at all is up to the client. *)
Fairness ==
    /\ WF_vars(Tick)
    /\ WF_vars(JobStep)
    /\ \A p \in Request : WF_vars(Step(p))
    /\ \A p \in Process : WF_vars(CompleteSubmission(p))

FairSpec == Spec /\ Fairness

-----------------------------------------------------------------------------
(* Properties. *)

(* startExam: however many students start at once, the plan's limit of students
   per exam is never exceeded (the count is made under the exam row lock). *)
CapRespected == Cap > 0 => Cardinality(Started) <= Cap

(* The deadline stored at start is never moved, not even by a handler that
   writes back a row it loaded long ago, and lies in the exam's window. *)
DeadlineFixed ==
    [][\A s \in Started : sub'[s].deadline = sub[s].deadline /\ sub[s].deadline <= ExamEnd]_vars

(* A sheet is accepted no later than the deadline plus the grace, whatever
   happened between the request's check and its write. *)
AcceptedInTime == \A s \in Student : accepted[s].value # None => accepted[s].at <= sub[s].deadline + Grace

(* The job only touches attempts whose student cannot write any more. *)
JobAfterGrace ==
    \A s \in batch \cup {proc[Job].student} : s # None => PastDeadlineWithGrace(sub[s])

(* A finalised attempt keeps its status: it is finalised once, and never reopened. *)
FinalizedOnce ==
    [][\A s \in Student : sub[s].status \in Finalized => sub'[s].status = sub[s].status]_vars

(* The stored answers are the last ones the student was told are saved. *)
AcceptedKept == \A s \in Student : ans[s].value = accepted[s].value

(* The total of a finalised attempt is the total of the last accepted sheet. *)
FinalScored ==
    Objective => \A s \in Student : sub[s].status \in Finalized => sub[s].total = accepted[s].value

(* Every started attempt ends up finalised and stays so, even if students leave,
   handlers fail and late writes reopen it: the job comes back. *)
AllFinalized == \A s \in Student : <>[](sub[s].status # "IN_PROGRESS")

(* What the attempt promises to students and teachers (module AttemptPromise):
   one start, accepted sheets, one finalisation that scores the last of them. *)
Promise == INSTANCE AttemptPromise WITH
    phase <- [s \in Student |-> sub[s].status],
    sheet <- [s \in Student |-> accepted[s].value],
    score <- [s \in Student |-> IF sub[s].status \in Finalized THEN sub[s].total ELSE None]
KeepsPromise == Promise!Spec

(* Steps of completeSubmission, and of startExam. *)
Finalising == {"score", "saveMarks", "saveScore", "scoreMax", "saveMax", "readMarks",
               "writeTotal", "reload", "claim"}
Starting == {"lockExam", "count", "insert"}

(* While an attempt is finalised nothing else works on it, except starts, which
   find it started, and, when the job does it, saves and submits, which come too late. *)
FinalisedAlone ==
    \A p, q \in Process :
        p # q /\ proc[p].pc \in Finalising /\ proc[q].student = proc[p].student =>
            \/ proc[q].pc \in Starting
            \/ p = Job /\ proc[q].pc \in {"writeAnswer", "writeSheet", "syncSheet"}

-----------------------------------------------------------------------------
(* The inductive invariant of the proofs (ExamAttemptProofs). *)

HoldsRow == {"saveMarks", "saveScore", "saveMax", "claim", "saveViolation"}

(* A handler past its check works on a student's existing row; the one it has
   loaded may be old, but never in its deadline. *)
LoadedRow(p) ==
    /\ proc[p].pc = "idle" => proc[p].student = None
    /\ proc[p].pc # "idle" => proc[p].student \in Student
    /\ proc[p].pc \notin Starting \cup {"idle"} => sub[proc[p].student].status # "NONE"
    /\ proc[p].pc \in Finalising \cup {"syncSheet"} => proc[p].to \in Finalized
    /\ proc[p].pc \in HoldsRow =>
          /\ proc[p].row.status # "NONE"
          /\ proc[p].row.deadline = sub[proc[p].student].deadline
    /\ proc[p].pc \in Starting =>
          proc[p].row.status # "NONE" /\ proc[p].row.deadline <= ExamEnd
LoadedRows == \A p \in Process : LoadedRow(p)

(* Between its count and its insert, a handler holds the lock and there is room;
   the job starts no attempts. *)
Room(p) ==
    Cap > 0 /\ proc[p].pc \in {"count", "insert"} =>
        examLock = p /\ (proc[p].pc = "insert" => Cardinality(Started) < Cap)
RoomKept ==
    /\ \A p \in Request : Room(p)
    /\ proc[Job].pc \in Finalising \cup {"idle"}

Deadlines == \A s \in Started : sub[s].deadline <= ExamEnd
OnlyStartedAccepted ==
    /\ \A s \in Student : sub[s].status = "NONE" => accepted[s].value = None
    /\ batch \subseteq Started

IndInv ==
    /\ TypeOK /\ LoadedRows /\ RoomKept /\ Deadlines /\ OnlyStartedAccepted
    /\ CapRespected /\ AcceptedInTime /\ JobAfterGrace
=============================================================================
