-------------------------- MODULE ExamAttemptProofs --------------------------
(***************************************************************************)
(* Proofs about ExamAttempt, for every number of students, requests and    *)
(* answers, every timing and every bound.  IndInv is inductive: TypeStep,  *)
(* RowsStep, LoadedStep and the other ...Step lemmas show that each of its *)
(* conjuncts survives a step, and the theorems after it follow from it.    *)
(* The last part adds PromiseInv, which survives as long as each attempt   *)
(* is finalised alone, and shows that Spec then implements AttemptPromise. *)
(***************************************************************************)
EXTENDS ExamAttempt, FiniteSetTheorems, TLAPS

(* The deadline computed at start is a time, and not after the exam's end. *)
LEMMA DeadlineInWindow ==
    ASSUME NEW t \in Nat, t <= ExamEnd
    PROVE  EffectiveDeadline(t) \in Nat /\ EffectiveDeadline(t) <= ExamEnd
BY NumbersAssumption DEF EffectiveDeadline

(* Whatever questions the exam has, scoring goes on with a step of finalisation
   that has loaded no row yet. *)
LEMMA ScoringPC ==
    {FirstScoring, AfterObjective} \subseteq {"score", "scoreMax", "readMarks"}
BY DEF FirstScoring, AfterObjective

(* A process stays a local record when it ends, moves on or is given one. *)
LEMMA LocalTypes ==
    ASSUME TypeOK, NEW p \in Process
    PROVE  /\ Idle \in Local
           /\ Done(p) => proc' \in [Process -> Local]
           /\ \A pc \in PC : Goto(p, pc) => proc' \in [Process -> Local]
           /\ \A l \in Local : [proc EXCEPT ![p] = l] \in [Process -> Local]
<1>1. Idle \in Local
    BY SetsAssumption
    DEF Local, Idle, PC, Row, AnswerRow, NoRow, NoAnswer, Sheet, Status, Process
<1>2. ASSUME NEW l \in Local, NEW pc \in PC PROVE [l EXCEPT !.pc = pc] \in Local
    BY DEF Local
<1>3. proc \in [Process -> Local]
    BY DEF TypeOK
<1> QED
    BY <1>1, <1>2, <1>3 DEF Done, Goto

-----------------------------------------------------------------------------
(* A request that arrives keeps the types. *)
LEMMA ReceiveTypes ==
    ASSUME TypeOK, NEW p \in Request, NEW op, NEW s \in Student, NEW l \in Local,
           Receive(p, op, s, l)
    PROVE  TypeOK'
<1>1. [l EXCEPT !.student = s] \in Local
    BY DEF Local
<1>2. proc' \in [Process -> Local]
    BY <1>1, LocalTypes DEF Receive, Process
<1>3. requests' \in 0..MaxRequests
    BY NumbersAssumption DEF TypeOK, Receive
<1> QED
    BY <1>2, <1>3 DEF TypeOK, Receive

(* So does storing a sheet. *)
LEMMA StoreTypes ==
    ASSUME TypeOK, NEW s \in Student, NEW v \in Sheet, NEW m \in Sheet, Store(s, v, m)
    PROVE  /\ ans' \in [Student -> AnswerRow]
           /\ accepted' \in [Student -> [value : Sheet, at : Nat]]
<1>1. [value |-> v, marked |-> m] \in AnswerRow /\ [value |-> v, at |-> now] \in [value : Sheet, at : Nat]
    BY NumbersAssumption DEF TypeOK, AnswerRow
<1> QED
    BY <1>1 DEF TypeOK, Store

(* Every step keeps the types. *)
LEMMA TypeStep == IndInv /\ [Next]_vars => TypeOK'
<1> SUFFICES ASSUME IndInv, [Next]_vars PROVE TypeOK'
    OBVIOUS
<1> USE NumbersAssumption
<1>t. TypeOK
    BY DEF IndInv
<1>i. Idle \in Local
    BY <1>t, LocalTypes DEF Process
<1>l. \A p \in Process : proc[p].pc # "idle" => proc[p].student \in Student
    BY DEF IndInv, LoadedRows, LoadedRow
<1>r. Request \subseteq Process /\ Job \in Process
    BY DEF Process
<1>n. NoRow \in Row /\ NoAnswer \in AnswerRow /\ None \in Sheet /\ Answers \subseteq Sheet
    BY DEF NoRow, NoAnswer, Row, AnswerRow, Sheet, Status
<1>1. CASE UNCHANGED vars
    BY <1>1, <1>t DEF vars, TypeOK
<1>2. ASSUME NEW p \in Request, NEW s \in Student, StartExam(p, s)
      PROVE  TypeOK'
    <2>1. [status |-> "IN_PROGRESS", deadline |-> EffectiveDeadline(now), total |-> None] \in Row
        BY <1>2, DeadlineInWindow, <1>t, <1>n DEF StartExam, MayAccess, Row, Status, TypeOK
    <2>2. \A pc \in PC, row \in Row : [Idle EXCEPT !.pc = pc, !.row = row] \in Local
        BY <1>i DEF Local
    <2> QED
        BY <1>2, <1>t, <2>1, <2>2, ReceiveTypes DEF StartExam, PC
<1>3. ASSUME NEW p \in Request, LockExam(p)
      PROVE  TypeOK'
    <2>1. proc' \in [Process -> Local]
        BY <1>3, <1>t, <1>r, LocalTypes DEF LockExam, PC
    <2> QED
        BY <1>3, <1>t, <2>1 DEF TypeOK, LockExam
<1>4. ASSUME NEW p \in Request, CountStudents(p)
      PROVE  TypeOK'
    <2>1. proc' \in [Process -> Local]
        BY <1>4, <1>t, <1>r, LocalTypes DEF CountStudents, PC
    <2>2. examLock' \in Request \cup {None}
        BY <1>4, <1>t DEF CountStudents, TypeOK
    <2> QED
        BY <1>4, <1>t, <2>1, <2>2 DEF TypeOK, CountStudents
<1>5. ASSUME NEW p \in Request, InsertAttempt(p)
      PROVE  TypeOK'
    <2>1. proc' \in [Process -> Local]
        BY <1>5, <1>t, <1>r, LocalTypes DEF InsertAttempt
    <2>2. sub' \in [Student -> Row]
        BY <1>5, <1>t, <1>r DEF InsertAttempt, TypeOK, Local
    <2> QED
        BY <1>5, <1>t, <2>1, <2>2 DEF TypeOK, InsertAttempt
<1>6. ASSUME NEW p \in Request, NEW s \in Student, NEW v \in Answers, SaveAnswer(p, s, v)
      PROVE  TypeOK'
    <2>1. [Idle EXCEPT !.pc = "writeAnswer", !.answer = ans[s], !.value = v] \in Local
        BY <1>i, <1>t, <1>n DEF Local, PC, TypeOK
    <2> QED
        BY <1>6, <1>t, <2>1, ReceiveTypes DEF SaveAnswer
<1>7. ASSUME NEW p \in Request, WriteAnswer(p)
      PROVE  TypeOK'
    <2>1. proc[p].student \in Student /\ proc[p].value \in Sheet /\ proc[p].answer.marked \in Sheet
        BY <1>7, <1>l, <1>r, <1>t DEF WriteAnswer, Local, AnswerRow, TypeOK
    <2>2. /\ ans' \in [Student -> AnswerRow]
          /\ accepted' \in [Student -> [value : Sheet, at : Nat]]
        BY <1>7, <1>t, <2>1, StoreTypes DEF WriteAnswer, TypeOK
    <2>3. proc' \in [Process -> Local]
        BY <1>7, <1>t, <1>r, LocalTypes DEF WriteAnswer
    <2> QED
        BY <1>7, <1>t, <2>3, <2>2 DEF TypeOK, WriteAnswer
<1>8. ASSUME NEW p \in Request, NEW s \in Student, NEW v \in Answers, SaveAnswerSheet(p, s, v)
      PROVE  TypeOK'
    <2>1. [Idle EXCEPT !.pc = "writeSheet", !.value = v] \in Local
        BY <1>i, <1>n DEF Local, PC
    <2> QED
        BY <1>8, <1>t, <2>1, ReceiveTypes DEF SaveAnswerSheet
<1>9. ASSUME NEW p \in Request, WriteSheet(p)
      PROVE  TypeOK'
    <2>1. proc[p].student \in Student /\ proc[p].value \in Sheet /\ ans[proc[p].student].marked \in Sheet
        BY <1>9, <1>l, <1>r, <1>t DEF WriteSheet, Local, AnswerRow, TypeOK
    <2>2. /\ ans' \in [Student -> AnswerRow]
          /\ accepted' \in [Student -> [value : Sheet, at : Nat]]
        BY <1>9, <1>t, <2>1, StoreTypes DEF WriteSheet, TypeOK
    <2>3. proc' \in [Process -> Local]
        BY <1>9, <1>t, <1>r, LocalTypes DEF WriteSheet
    <2> QED
        BY <1>9, <1>t, <2>3, <2>2 DEF TypeOK, WriteSheet
<1>10. ASSUME NEW p \in Request, NEW s \in Student, NEW v \in Sheet, NEW to \in Finalized, Submit(p, s, v, to)
      PROVE  TypeOK'
    <2>1. [Idle EXCEPT !.pc = "syncSheet", !.value = v, !.to = to] \in Local
        BY <1>i DEF Local, PC, Status
    <2> QED
        BY <1>10, <1>t, <2>1, ReceiveTypes DEF Submit
<1>11. ASSUME NEW p \in Request, SyncSheet(p)
      PROVE  TypeOK'
    <2>1. proc[p].student \in Student /\ proc[p].value \in Sheet /\ ans[proc[p].student].marked \in Sheet
        BY <1>11, <1>l, <1>r, <1>t DEF SyncSheet, Local, AnswerRow, TypeOK
    <2>2. /\ ans' \in [Student -> AnswerRow]
          /\ accepted' \in [Student -> [value : Sheet, at : Nat]]
        BY <1>11, <1>t, <2>1, StoreTypes DEF SyncSheet, TypeOK
    <2>3. proc' \in [Process -> Local]
        BY <1>11, <1>t, <1>r, LocalTypes, ScoringPC DEF SyncSheet, PC
    <2> QED
        BY <1>11, <1>t, <2>3, <2>2 DEF TypeOK, SyncSheet
<1>12. ASSUME NEW p \in Request, NEW s \in Student, ReportViolation(p, s)
      PROVE  TypeOK'
    <2>1. [Idle EXCEPT !.pc = "saveViolation", !.row = sub[s]] \in Local
        BY <1>i, <1>t DEF Local, PC, TypeOK
    <2> QED
        BY <1>12, <1>t, <2>1, ReceiveTypes DEF ReportViolation, MayAccess
<1>13. ASSUME NEW p \in Request, SaveViolation(p)
      PROVE  TypeOK'
    <2>1. proc' \in [Process -> Local]
        BY <1>13, <1>t, <1>r, LocalTypes DEF SaveViolation
    <2>2. sub' \in [Student -> Row]
        BY <1>13, <1>t, <1>r DEF SaveViolation, TypeOK, Local
    <2> QED
        BY <1>13, <1>t, <2>1, <2>2 DEF TypeOK, SaveViolation
<1>14. ASSUME NEW p \in Process, LoadForScore(p)
      PROVE  TypeOK'
    <2>1. \A l \in Local, row \in Row, answer \in AnswerRow :
              [l EXCEPT !.pc = "saveMarks", !.row = row, !.answer = answer] \in Local
        BY DEF Local, PC
    <2>2. proc' \in [Process -> Local]
        BY <1>14, <1>t, <1>r, LocalTypes, <1>l, <2>1 DEF LoadForScore, TypeOK
    <2> QED
        BY <1>14, <1>t, <2>2 DEF TypeOK, LoadForScore
<1>15. ASSUME NEW p \in Process, SaveMarks(p)
      PROVE  TypeOK'
    <2>1. [value |-> proc[p].answer.value, marked |-> proc[p].answer.value] \in AnswerRow
        BY <1>t DEF Local, AnswerRow, TypeOK
    <2>2. proc' \in [Process -> Local]
        BY <1>15, <1>t, <1>r, LocalTypes DEF SaveMarks, PC
    <2>3. ans' \in [Student -> AnswerRow]
        BY <1>15, <1>t, <2>1 DEF SaveMarks, TypeOK
    <2> QED
        BY <1>15, <1>t, <2>2, <2>3 DEF TypeOK, SaveMarks
<1>16. ASSUME NEW p \in Process, SaveScore(p)
      PROVE  TypeOK'
    <2>1. [proc[p].row EXCEPT !.total = proc[p].answer.value] \in Row
        BY <1>t DEF Local, Row, AnswerRow, TypeOK
    <2>2. proc' \in [Process -> Local]
        BY <1>16, <1>t, <1>r, LocalTypes, ScoringPC DEF SaveScore, PC
    <2>3. sub' \in [Student -> Row]
        BY <1>16, <1>t, <2>1 DEF SaveScore, TypeOK
    <2> QED
        BY <1>16, <1>t, <2>2, <2>3 DEF TypeOK, SaveScore
<1>17. ASSUME NEW p \in Process, LoadForMax(p)
      PROVE  TypeOK'
    <2>1. \A l \in Local, row \in Row : [l EXCEPT !.pc = "saveMax", !.row = row] \in Local
        BY DEF Local, PC
    <2>2. proc' \in [Process -> Local]
        BY <1>17, <1>t, <1>r, LocalTypes, <1>l, <2>1 DEF LoadForMax, TypeOK
    <2> QED
        BY <1>17, <1>t, <2>2 DEF TypeOK, LoadForMax
<1>18. ASSUME NEW p \in Process, SaveMax(p)
      PROVE  TypeOK'
    <2>1. proc' \in [Process -> Local]
        BY <1>18, <1>t, <1>r, LocalTypes DEF SaveMax, PC
    <2>2. sub' \in [Student -> Row]
        BY <1>18, <1>t, <1>r DEF SaveMax, TypeOK, Local
    <2> QED
        BY <1>18, <1>t, <2>1, <2>2 DEF TypeOK, SaveMax
<1>19. ASSUME NEW p \in Process, ReadMarks(p)
      PROVE  TypeOK'
    <2>1. \A l \in Local, t \in Sheet : [l EXCEPT !.pc = "writeTotal", !.total = t] \in Local
        BY DEF Local, PC
    <2>2. \A s \in Student : ans[s].marked \in Sheet
        BY <1>t DEF AnswerRow, TypeOK
    <2>3. proc' \in [Process -> Local]
        BY <1>19, <1>t, <1>r, LocalTypes, <1>l, <2>1, <2>2 DEF ReadMarks, TypeOK
    <2> QED
        BY <1>19, <1>t, <2>3 DEF TypeOK, ReadMarks
<1>20. ASSUME NEW p \in Process, WriteTotal(p)
      PROVE  TypeOK'
    <2>1. \A row \in Row : [row EXCEPT !.total = proc[p].total] \in Row
        BY <1>t DEF Local, Row, TypeOK
    <2>2. proc' \in [Process -> Local]
        BY <1>20, <1>t, <1>r, LocalTypes DEF WriteTotal, PC
    <2>3. sub' \in [Student -> Row]
        BY <1>20, <1>t, <1>l, <2>1 DEF WriteTotal, TypeOK
    <2> QED
        BY <1>20, <1>t, <2>2, <2>3 DEF TypeOK, WriteTotal
<1>21. ASSUME NEW p \in Process, Reload(p)
      PROVE  TypeOK'
    <2>1. \A l \in Local, row \in Row : [l EXCEPT !.pc = "claim", !.row = row] \in Local
        BY DEF Local, PC
    <2>2. CASE Done(p)
        BY <1>21, <1>t, <2>2, LocalTypes DEF TypeOK, Reload
    <2>3. CASE /\ proc[p].student \in Student
               /\ proc' = [proc EXCEPT ![p].pc = "claim", ![p].row = sub[proc[p].student]]
        <3>1. proc' \in [Process -> Local]
            BY <2>1, <2>3, <1>t DEF TypeOK
        <3> QED
            BY <1>21, <1>t, <3>1 DEF TypeOK, Reload
    <2> QED
        BY <1>21, <1>l, <2>2, <2>3 DEF Reload
<1>22. ASSUME NEW p \in Process, Claim(p)
      PROVE  TypeOK'
    <2>1. \A row \in Row : [row EXCEPT !.status = proc[p].to, !.total = proc[p].row.total] \in Row
        BY <1>t DEF Local, Row, TypeOK
    <2>2. proc' \in [Process -> Local]
        BY <1>22, <1>t, <1>r, LocalTypes DEF Claim
    <2>3. sub' \in [Student -> Row]
        BY <1>22, <1>t, <1>l, <2>1 DEF Claim, TypeOK
    <2> QED
        BY <1>22, <1>t, <2>2, <2>3 DEF TypeOK, Claim
<1>23. CASE JobQuery
    BY <1>23, <1>t DEF JobQuery, Expired, TypeOK
<1>24. ASSUME NEW s \in Student, JobTake(s)
      PROVE  TypeOK'
    <2>1. [Idle EXCEPT !.pc = FirstScoring, !.student = s, !.to = "AUTO_SUBMITTED"] \in Local
        BY <1>i, ScoringPC DEF Local, PC, Status, Finalized
    <2>2. proc' \in [Process -> Local]
        BY <1>24, <1>t, <1>r, LocalTypes, <2>1 DEF JobTake
    <2> QED
        BY <1>24, <1>t, <2>2 DEF TypeOK, JobTake
<1>25. ASSUME NEW p \in Process, Fail(p)
      PROVE  TypeOK'
    <2>1. proc' \in [Process -> Local]
        BY <1>25, <1>t, <1>r, LocalTypes DEF Fail
    <2>2. failures' \in 0..MaxFailures
        BY <1>25, <1>t DEF Fail, TypeOK
    <2> QED
        BY <1>25, <1>t, <2>1, <2>2 DEF TypeOK, Fail
<1>26. CASE Tick
    BY <1>26, <1>t DEF Tick, TypeOK
<1> QED
    BY <1>1, <1>2, <1>3, <1>4, <1>5, <1>6, <1>7, <1>8, <1>9, <1>10, <1>11, <1>12,
       <1>13, <1>14, <1>15, <1>16, <1>17, <1>18, <1>19, <1>20, <1>21, <1>22, <1>23,
       <1>24, <1>25, <1>26
    DEF Next, Arrive, Step, CompleteSubmission, JobStep

-----------------------------------------------------------------------------
(* A row that exists keeps its deadline, however old the copy a handler saves,
   and only the insert of startExam creates one. *)
LEMMA RowsStep ==
    IndInv /\ [Next]_vars =>
        /\ \A s \in Started : s \in Started' /\ sub'[s].deadline = sub[s].deadline
        /\ \A s \in Started' \ Started :
              \E p \in Request : InsertAttempt(p) /\ s = proc[p].student
<1> DEFINE Kept ==
        /\ \A s \in Started : s \in Started' /\ sub'[s].deadline = sub[s].deadline
        /\ \A s \in Started' \ Started :
              \E p \in Request : InsertAttempt(p) /\ s = proc[p].student
<1> SUFFICES ASSUME IndInv, [Next]_vars PROVE Kept
    OBVIOUS
<1>t. sub \in [Student -> Row] /\ proc \in [Process -> Local] /\ Request \subseteq Process
    BY DEF IndInv, TypeOK, Process
<1>l. \A p \in Process : LoadedRow(p)
    BY DEF IndInv, LoadedRows
<1>1. CASE UNCHANGED sub
    BY <1>1 DEF Started
<1>2. ASSUME NEW p \in Request, InsertAttempt(p) PROVE Kept
    BY <1>2, <1>t, <1>l DEF InsertAttempt, Started, LoadedRow, Starting
<1>3. ASSUME NEW p \in Request, SaveViolation(p) PROVE Kept
    BY <1>3, <1>t, <1>l DEF SaveViolation, Started, LoadedRow, HoldsRow, Starting
<1>4. ASSUME NEW p \in Process, SaveScore(p) PROVE Kept
    <2>1. /\ [proc[p].row EXCEPT !.total = proc[p].answer.value].status = proc[p].row.status
          /\ [proc[p].row EXCEPT !.total = proc[p].answer.value].deadline = proc[p].row.deadline
        BY <1>t DEF Local, Row
    <2> QED
        BY <1>4, <2>1, <1>t, <1>l DEF SaveScore, Started, LoadedRow, HoldsRow, Starting
<1>5. ASSUME NEW p \in Process, SaveMax(p) PROVE Kept
    BY <1>5, <1>t, <1>l DEF SaveMax, Started, LoadedRow, HoldsRow, Starting
<1>6. ASSUME NEW p \in Process, WriteTotal(p) PROVE Kept
    BY <1>6, <1>t DEF WriteTotal, Started, Row
<1>7. ASSUME NEW p \in Process, Claim(p) PROVE Kept
    <2>1. proc[p].to # "NONE"
        BY <1>7, <1>l DEF Claim, LoadedRow, Finalising, Finalized
    <2> QED
        BY <1>7, <2>1, <1>t DEF Claim, Started, Row
<1> HIDE DEF Kept
<1> QED
    BY <1>1, <1>2, <1>3, <1>4, <1>5, <1>6, <1>7
    DEF Next, Arrive, Step, CompleteSubmission, JobStep, vars, Receive, StartExam, LockExam,
        CountStudents, SaveAnswer, WriteAnswer, SaveAnswerSheet, WriteSheet, Submit, SyncSheet,
        ReportViolation, LoadForScore, SaveMarks, LoadForMax, ReadMarks, Reload, JobQuery,
        JobTake, Fail, Tick

(* No attempt gets a deadline after the exam's end. *)
LEMMA DeadlinesStep == IndInv /\ [Next]_vars => Deadlines'
<1> SUFFICES ASSUME IndInv, [Next]_vars, NEW s \in Started' PROVE sub'[s].deadline <= ExamEnd
    BY DEF Deadlines
<1>1. CASE s \in Started
    BY <1>1, RowsStep DEF IndInv, Deadlines
<1>2. CASE s \notin Started
    <2>1. PICK p \in Request : InsertAttempt(p) /\ s = proc[p].student
        BY <1>2, RowsStep
    <2>2. LoadedRow(p) /\ sub \in [Student -> Row]
        BY DEF IndInv, LoadedRows, Process, TypeOK
    <2> QED
        BY <1>2, <2>1, <2>2 DEF InsertAttempt, LoadedRow, Starting, Started
<1> QED
    BY <1>1, <1>2

-----------------------------------------------------------------------------
(* Only the process that takes a step changes its local record. *)
LEMMA LocalEffects ==
    ASSUME TypeOK, NEW p \in Process
    PROVE  /\ Done(p) => proc'[p] = Idle /\ \A q \in Process \ {p} : proc'[q] = proc[q]
           /\ \A pc \in PC : Goto(p, pc) =>
                 /\ proc'[p].pc = pc /\ proc'[p].student = proc[p].student
                 /\ proc'[p].row = proc[p].row /\ proc'[p].to = proc[p].to
                 /\ \A q \in Process \ {p} : proc'[q] = proc[q]
BY DEF Done, Goto, TypeOK, Local

(* The arriving request has loaded what its handler says. *)
LEMMA ReceiveEffects ==
    ASSUME TypeOK, NEW p \in Request, NEW op, NEW s \in Student, NEW l \in Local,
           Receive(p, op, s, l)
    PROVE  /\ proc'[p].pc = l.pc /\ proc'[p].student = s
           /\ proc'[p].row = l.row /\ proc'[p].to = l.to
           /\ \A q \in Process \ {p} : proc'[q] = proc[q]
           /\ UNCHANGED <<now, sub, ans, examLock, batch, accepted>>
BY DEF Receive, TypeOK, Local, Process

(* What a process at rest has loaded is not disturbed by the others. *)
LEMMA RestLoaded ==
    ASSUME IndInv, [Next]_vars, NEW p \in Process, proc'[p] = proc[p]
    PROVE  LoadedRow(p)'
<1>1. LoadedRow(p)
    BY DEF IndInv, LoadedRows
<1>2. ASSUME NEW s \in Student, sub[s].status # "NONE"
      PROVE  sub'[s].status # "NONE" /\ sub'[s].deadline = sub[s].deadline
    BY <1>2, RowsStep DEF Started
<1>3. HoldsRow \cap (Starting \cup {"idle"}) = {}
    BY DEF HoldsRow, Starting
<1> QED
    BY <1>1, <1>2, <1>3 DEF LoadedRow

(* An idle process has loaded nothing. *)
LEMMA IdleLoaded == \A p : proc'[p] = Idle => LoadedRow(p)'
BY DEF LoadedRow, Idle, Starting, Finalising, HoldsRow

(* A loaded row may be old, but has the deadline of the stored one. *)
LEMMA LoadedStep == IndInv /\ [Next]_vars => LoadedRows'
<1> SUFFICES ASSUME IndInv, [Next]_vars PROVE LoadedRows'
    OBVIOUS
<1>t. TypeOK
    BY DEF IndInv
<1>l. \A p \in Process : LoadedRow(p)
    BY DEF IndInv, LoadedRows
<1>r. Request \subseteq Process /\ Job \in Process
    BY DEF Process
<1>i. Idle \in Local
    BY <1>t, <1>r, LocalTypes
<1>s. \A s \in Student : sub[s].status # "NONE" =>
          sub'[s].status # "NONE" /\ sub'[s].deadline = sub[s].deadline
    BY RowsStep DEF Started
<1>o. ASSUME NEW p \in Process, LoadedRow(p)', \A q \in Process \ {p} : proc'[q] = proc[q]
      PROVE  LoadedRows'
    BY <1>o, RestLoaded DEF LoadedRows, Process
<1>u. ASSUME UNCHANGED proc PROVE LoadedRows'
    BY <1>u, RestLoaded DEF LoadedRows, Process
<1>d. ASSUME NEW p \in Process, Done(p) PROVE LoadedRows'
    BY <1>d, <1>o, <1>t, IdleLoaded, LocalEffects
<1>g. ASSUME NEW p \in Process, NEW pc \in PC \ (Starting \cup {"idle"}), Goto(p, pc),
             proc[p].pc \in Finalising \cup {"syncSheet"},
             pc \in HoldsRow => proc[p].pc \in HoldsRow
      PROVE  LoadedRows'
    <2>1. /\ proc'[p].pc = pc /\ proc'[p].student = proc[p].student
          /\ proc'[p].row = proc[p].row /\ proc'[p].to = proc[p].to
          /\ \A q \in Process \ {p} : proc'[q] = proc[q]
        BY <1>g, <1>t, LocalEffects
    <2>2. /\ proc[p].student \in Student /\ sub[proc[p].student].status # "NONE"
          /\ proc[p].to \in Finalized
        BY <1>g, <1>l DEF LoadedRow, Finalising, Starting
    <2>3. LoadedRow(p)'
        BY <1>g, <2>1, <2>2, <1>l, <1>s DEF LoadedRow
    <2> QED
        BY <2>1, <2>3, <1>o
<1>k. ASSUME NEW p \in Process, NEW pc \in Starting, Goto(p, pc), proc[p].pc \in Starting
      PROVE  LoadedRows'
    <2>1. /\ proc'[p].pc = pc /\ proc'[p].student = proc[p].student /\ proc'[p].row = proc[p].row
          /\ \A q \in Process \ {p} : proc'[q] = proc[q]
        BY <1>k, <1>t, LocalEffects DEF Starting, PC
    <2>2. LoadedRow(p)'
        BY <1>k, <2>1, <1>l DEF LoadedRow, Starting, Finalising, HoldsRow
    <2> QED
        BY <2>1, <2>2, <1>o
<1>m. ASSUME NEW p \in Process, NEW pc \in {"saveMarks", "saveMax", "claim"}, UNCHANGED sub,
             proc[p].pc \in {"score", "scoreMax", "reload"},
             /\ proc'[p].pc = pc /\ proc'[p].student = proc[p].student
             /\ proc'[p].row = sub[proc[p].student] /\ proc'[p].to = proc[p].to
             /\ \A q \in Process \ {p} : proc'[q] = proc[q]
      PROVE  LoadedRows'
    <2>1. LoadedRow(p)'
        BY <1>m, <1>l DEF LoadedRow, Starting, Finalising, HoldsRow
    <2> QED
        BY <1>m, <2>1, <1>o
<1>1. CASE UNCHANGED vars
    BY <1>1, <1>u DEF vars
<1>2. ASSUME NEW p \in Request, NEW s \in Student, StartExam(p, s)
      PROVE  LoadedRows'
    <2>1. EffectiveDeadline(now) \in Nat /\ EffectiveDeadline(now) <= ExamEnd
        BY <1>2, <1>t, DeadlineInWindow, NumbersAssumption DEF StartExam, MayAccess, TypeOK
    <2>2. [status |-> "IN_PROGRESS", deadline |-> EffectiveDeadline(now), total |-> None] \in Row
        BY <2>1 DEF Row, Sheet, Status
    <2> DEFINE loaded == [Idle EXCEPT
            !.pc = IF Cap > 0 THEN "lockExam" ELSE "insert",
            !.row = [status |-> "IN_PROGRESS", deadline |-> EffectiveDeadline(now), total |-> None]]
    <2>3. /\ loaded \in Local /\ loaded.pc \in {"lockExam", "insert"}
          /\ loaded.row.status = "IN_PROGRESS" /\ loaded.row.deadline <= ExamEnd
        BY <2>1, <2>2, <1>i DEF Local, PC
    <2>4. Receive(p, "start", s, loaded)
        BY <1>2 DEF StartExam
    <2> HIDE DEF loaded
    <2>5. LoadedRow(p)' /\ \A q \in Process \ {p} : proc'[q] = proc[q]
        BY <2>3, <2>4, <1>t, ReceiveEffects DEF LoadedRow, Starting, Finalising, HoldsRow
    <2> QED
        BY <2>5, <1>o, <1>r
<1>3. ASSUME NEW p \in Request, LockExam(p)
      PROVE  LoadedRows'
    BY <1>3, <1>k, <1>r DEF LockExam, Starting
<1>4. ASSUME NEW p \in Request, CountStudents(p)
      PROVE  LoadedRows'
    BY <1>4, <1>k, <1>d, <1>r DEF CountStudents, Starting
<1>5. ASSUME NEW p \in Request, InsertAttempt(p) \/ WriteAnswer(p) \/ WriteSheet(p) \/ SaveViolation(p)
      PROVE  LoadedRows'
    BY <1>5, <1>d, <1>r DEF InsertAttempt, WriteAnswer, WriteSheet, SaveViolation
<1>6. ASSUME NEW p \in Request, NEW s \in Student, NEW v \in Answers, SaveAnswer(p, s, v)
      PROVE  LoadedRows'
    <2> DEFINE loaded == [Idle EXCEPT !.pc = "writeAnswer", !.answer = ans[s], !.value = v]
    <2>1. loaded \in Local /\ loaded.pc = "writeAnswer"
        BY <1>i, <1>t DEF Local, PC, TypeOK, Sheet
    <2>2. Receive(p, "saveAnswer", s, loaded) /\ sub[s].status # "NONE"
        BY <1>6 DEF SaveAnswer, Writable
    <2> HIDE DEF loaded
    <2>3. LoadedRow(p)' /\ \A q \in Process \ {p} : proc'[q] = proc[q]
        BY <2>1, <2>2, <1>t, ReceiveEffects DEF LoadedRow, Starting, Finalising, HoldsRow
    <2> QED
        BY <2>3, <1>o, <1>r
<1>7. ASSUME NEW p \in Request, NEW s \in Student, NEW v \in Answers, SaveAnswerSheet(p, s, v)
      PROVE  LoadedRows'
    <2> DEFINE loaded == [Idle EXCEPT !.pc = "writeSheet", !.value = v]
    <2>1. loaded \in Local /\ loaded.pc = "writeSheet"
        BY <1>i DEF Local, PC, Sheet
    <2>2. Receive(p, "saveSheet", s, loaded) /\ sub[s].status # "NONE"
        BY <1>7 DEF SaveAnswerSheet, Writable
    <2> HIDE DEF loaded
    <2>3. LoadedRow(p)' /\ \A q \in Process \ {p} : proc'[q] = proc[q]
        BY <2>1, <2>2, <1>t, ReceiveEffects DEF LoadedRow, Starting, Finalising, HoldsRow
    <2> QED
        BY <2>3, <1>o, <1>r
<1>8. ASSUME NEW p \in Request, NEW s \in Student, NEW v \in Sheet, NEW to \in Finalized,
             Submit(p, s, v, to)
      PROVE  LoadedRows'
    <2> DEFINE loaded == [Idle EXCEPT !.pc = "syncSheet", !.value = v, !.to = to]
    <2>1. loaded \in Local /\ loaded.pc = "syncSheet" /\ loaded.to = to
        BY <1>i DEF Local, PC, Status
    <2>2. Receive(p, "submit", s, loaded) /\ sub[s].status # "NONE"
        BY <1>8 DEF Submit, Writable
    <2> HIDE DEF loaded
    <2>3. LoadedRow(p)' /\ \A q \in Process \ {p} : proc'[q] = proc[q]
        BY <2>1, <2>2, <1>t, ReceiveEffects DEF LoadedRow, Starting, Finalising, HoldsRow
    <2> QED
        BY <2>3, <1>o, <1>r
<1>9. ASSUME NEW p \in Request, NEW s \in Student, ReportViolation(p, s)
      PROVE  LoadedRows'
    <2> DEFINE loaded == [Idle EXCEPT !.pc = "saveViolation", !.row = sub[s]]
    <2>1. loaded \in Local /\ loaded.pc = "saveViolation" /\ loaded.row = sub[s]
        BY <1>i, <1>t DEF Local, PC, TypeOK
    <2>2. Receive(p, "violation", s, loaded) /\ sub[s].status # "NONE"
        BY <1>9 DEF ReportViolation, MayAccess
    <2> HIDE DEF loaded
    <2>3. LoadedRow(p)' /\ \A q \in Process \ {p} : proc'[q] = proc[q]
        BY <2>1, <2>2, <1>t, ReceiveEffects DEF LoadedRow, Starting, Finalising, HoldsRow
    <2> QED
        BY <2>3, <1>o, <1>r
<1>10. ASSUME NEW p \in Process,
              SaveMarks(p) \/ SaveScore(p) \/ SaveMax(p) \/ ReadMarks(p) \/ WriteTotal(p) \/ SyncSheet(p)
      PROVE  LoadedRows'
    <2>1. CASE SaveMarks(p)
        BY <2>1, <1>g DEF SaveMarks, PC, Starting, Finalising, HoldsRow
    <2>2. CASE SaveScore(p)
        BY <2>2, <1>g, ScoringPC DEF SaveScore, PC, Starting, Finalising, HoldsRow
    <2>3. CASE SaveMax(p)
        BY <2>3, <1>g DEF SaveMax, PC, Starting, Finalising, HoldsRow
    <2>4. CASE ReadMarks(p)
        <3>1. /\ proc'[p].pc = "writeTotal" /\ proc'[p].student = proc[p].student
              /\ proc'[p].to = proc[p].to /\ \A q \in Process \ {p} : proc'[q] = proc[q]
            BY <2>4, <1>t DEF ReadMarks, TypeOK, Local
        <3>2. LoadedRow(p)'
            BY <3>1, <2>4, <1>l, <1>s DEF LoadedRow, ReadMarks, Starting, Finalising, HoldsRow
        <3> QED
            BY <3>1, <3>2, <1>o
    <2>5. CASE WriteTotal(p)
        BY <2>5, <1>g DEF WriteTotal, PC, Starting, Finalising, HoldsRow
    <2>6. CASE SyncSheet(p)
        BY <2>6, <1>g, <1>d, ScoringPC DEF SyncSheet, PC, Starting, Finalising, HoldsRow
    <2> QED
        BY <1>10, <2>1, <2>2, <2>3, <2>4, <2>5, <2>6
<1>11. ASSUME NEW p \in Process, LoadForScore(p) \/ LoadForMax(p)
      PROVE  LoadedRows'
    <2>1. CASE LoadForScore(p)
        BY <2>1, <1>m, <1>t DEF LoadForScore, TypeOK, Local
    <2>2. CASE LoadForMax(p)
        BY <2>2, <1>m, <1>t DEF LoadForMax, TypeOK, Local
    <2> QED
        BY <1>11, <2>1, <2>2
<1>12. ASSUME NEW p \in Process, Reload(p)
      PROVE  LoadedRows'
    <2>1. CASE Done(p)
        BY <2>1, <1>d
    <2>2. CASE proc' = [proc EXCEPT ![p].pc = "claim", ![p].row = sub[proc[p].student]]
        BY <1>12, <2>2, <1>m, <1>t DEF Reload, TypeOK, Local
    <2> QED
        BY <1>12, <2>1, <2>2 DEF Reload
<1>13. ASSUME NEW p \in Process, Claim(p) \/ Fail(p)
      PROVE  LoadedRows'
    BY <1>13, <1>d DEF Claim, Fail
<1>14. ASSUME NEW s \in Student, JobTake(s)
      PROVE  LoadedRows'
    <2> DEFINE taken == [Idle EXCEPT !.pc = FirstScoring, !.student = s, !.to = "AUTO_SUBMITTED"]
    <2>1. taken.pc = FirstScoring /\ taken.student = s /\ taken.to = "AUTO_SUBMITTED"
        BY <1>i DEF Local
    <2>2. proc'[Job] = taken /\ \A q \in Process \ {Job} : proc'[q] = proc[q]
        BY <1>14, <1>t, <1>r DEF JobTake, TypeOK
    <2>3. sub'[s].status # "NONE"
        BY <1>14, <1>s DEF IndInv, OnlyStartedAccepted, JobTake, Started
    <2> HIDE DEF taken
    <2>4. LoadedRow(Job)'
        BY <2>1, <2>2, <2>3, ScoringPC DEF LoadedRow, Starting, Finalising, HoldsRow, Finalized
    <2> QED
        BY <2>2, <2>4, <1>o, <1>r
<1>15. CASE JobQuery \/ Tick
    BY <1>15, <1>u DEF JobQuery, Tick
<1> QED
    BY <1>1, <1>2, <1>3, <1>4, <1>5, <1>6, <1>7, <1>8, <1>9, <1>10, <1>11, <1>12, <1>13,
       <1>14, <1>15, <1>r
    DEF Next, Arrive, Step, CompleteSubmission, JobStep

-----------------------------------------------------------------------------
(* Student is finite, so its started part can be counted. *)
LEMMA StartedCount ==
    /\ IsFiniteSet(Started) /\ Cardinality(Started) \in Nat
    /\ \A s \in Student : /\ IsFiniteSet(Started \cup {s})
                          /\ Cardinality(Started \cup {s}) <= Cardinality(Started) + 1
<1>1. IsFiniteSet(Started)
    BY FS_Subset, SetsAssumption DEF Started
<1>2. Cardinality(Started) \in Nat
    BY <1>1, FS_CardinalityType
<1>3. ASSUME NEW s \in Student
      PROVE  /\ IsFiniteSet(Started \cup {s})
             /\ Cardinality(Started \cup {s}) <= Cardinality(Started) + 1
    <2>1. IsFiniteSet(Started \cup {s})
        BY <1>1, FS_AddElement
    <2>2. \/ Cardinality(Started \cup {s}) = Cardinality(Started)
          \/ Cardinality(Started \cup {s}) = Cardinality(Started) + 1
        BY <1>1, FS_AddElement
    <2> QED
        BY <1>2, <2>1, <2>2
<1> QED
    BY <1>1, <1>2, <1>3

(* Only the insert of a handler that has room takes a place. *)
LEMMA StartedStep ==
    ASSUME IndInv, [Next]_vars
    PROVE  \/ Started' = Started
           \/ \E p \in Request : /\ InsertAttempt(p) /\ proc[p].student \in Student
                                 /\ Started' = Started \cup {proc[p].student}
<1>1. Started \subseteq Started' /\ Started' \subseteq Student
    BY RowsStep DEF Started
<1>2. CASE Started' \subseteq Started
    BY <1>1, <1>2
<1>3. ASSUME NEW s \in Started' \ Started
      PROVE  \E p \in Request : /\ InsertAttempt(p) /\ proc[p].student \in Student
                                /\ Started' = Started \cup {proc[p].student}
    <2>1. PICK p \in Request : InsertAttempt(p) /\ s = proc[p].student
        BY <1>3, RowsStep
    <2>2. \A t \in Student \ {s} : sub'[t] = sub[t]
        BY <2>1 DEF InsertAttempt, IndInv, TypeOK
    <2>3. Started' = Started \cup {s}
        BY <1>1, <1>3, <2>2 DEF Started
    <2> QED
        BY <1>1, <1>3, <2>1, <2>3
<1> QED
    BY <1>2, <1>3

(* The plan's limit: a handler that inserts has counted under the lock it still holds. *)
LEMMA CapStep == IndInv /\ [Next]_vars => CapRespected'
<1> SUFFICES ASSUME IndInv, [Next]_vars, Cap > 0 PROVE Cardinality(Started') <= Cap
    BY DEF CapRespected, Started
<1>1. CASE Started' = Started
    BY <1>1 DEF IndInv, CapRespected
<1>2. ASSUME NEW p \in Request, InsertAttempt(p), proc[p].student \in Student,
             Started' = Started \cup {proc[p].student}
      PROVE  Cardinality(Started') <= Cap
    <2>1. Room(p) /\ proc[p].pc = "insert"
        BY <1>2 DEF IndInv, RoomKept, InsertAttempt
    <2>2. Cardinality(Started) < Cap
        BY <2>1 DEF Room
    <2>3. /\ Cardinality(Started \cup {proc[p].student}) \in Nat
          /\ Cardinality(Started \cup {proc[p].student}) <= Cardinality(Started) + 1
        BY <1>2, StartedCount, FS_CardinalityType
    <2> QED
        BY <1>2, <2>2, <2>3, StartedCount, NumbersAssumption
<1> QED
    BY <1>1, <1>2, StartedStep

(* A handler gives up the lock when it ends, and nobody takes it before. *)
LEMMA RoomStep == IndInv /\ [Next]_vars => RoomKept'
<1> SUFFICES ASSUME IndInv, [Next]_vars PROVE RoomKept'
    OBVIOUS
<1>t. TypeOK
    BY DEF IndInv
<1>r. Request \subseteq Process /\ Job \in Process /\ Job \notin Request /\ None \notin Request
    BY SetsAssumption DEF Process
<1>j. proc[Job].pc \in Finalising \cup {"idle"} /\ \A p \in Request : Room(p)
    BY DEF IndInv, RoomKept
<1>a. ASSUME NEW p \in Request, InsertAttempt(p) PROVE proc[p].pc = "insert" /\ proc'[p].pc = "idle"
    BY <1>a, <1>t, <1>r, LocalEffects DEF InsertAttempt, Idle
<1>u. ASSUME UNCHANGED <<proc, examLock>> PROVE RoomKept'
    <2>1. Started' = Started
        BY <1>u, <1>a, StartedStep
    <2> QED
        BY <1>u, <1>j, <2>1 DEF RoomKept, Room, Started
<1>f. ASSUME NEW p \in Process, proc[p].pc # "insert", UNCHANGED examLock,
             \A q \in Process \ {p} : proc'[q] = proc[q],
             Cap = 0 \/ proc'[p].pc \notin {"count", "insert"},
             p = Job => proc'[p].pc \in Finalising \cup {"idle"}
      PROVE  RoomKept'
    <2>1. Started' = Started
        <3>1. ASSUME NEW q \in Request, InsertAttempt(q) PROVE FALSE
            BY <3>1, <1>a, <1>f, <1>r
        <3> QED
            BY <3>1, StartedStep
    <2>2. ASSUME NEW q \in Request PROVE Room(q)'
        <3>1. CASE q = p
            BY <1>f, <3>1, NumbersAssumption DEF Room
        <3>2. CASE q # p
            BY <1>f, <1>j, <1>r, <2>1, <3>2 DEF Room
        <3> QED
            BY <3>1, <3>2
    <2>3. proc'[Job].pc \in Finalising \cup {"idle"}
        BY <1>f, <1>j, <1>r
    <2> QED
        BY <2>2, <2>3 DEF RoomKept
<1>1. CASE UNCHANGED vars
    BY <1>1, <1>u DEF vars
<1>2. ASSUME NEW p \in Request, NEW s \in Student, StartExam(p, s)
      PROVE  RoomKept'
    <2>1. Cap = 0 \/ proc'[p].pc = "lockExam"
        BY <1>2, <1>t, <1>r, NumbersAssumption DEF StartExam, Receive, Idle, TypeOK
    <2> QED
        BY <1>2, <1>t, <1>r, <1>f, <2>1 DEF StartExam, Receive, Idle, TypeOK
<1>3. ASSUME NEW p \in Request, LockExam(p)
      PROVE  RoomKept'
    <2>1. Started' = Started
        BY <1>3 DEF LockExam, Started
    <2>2. proc'[p].pc = "count" /\ \A q \in Process \ {p} : proc'[q] = proc[q]
        BY <1>3, <1>t, <1>r, LocalEffects DEF LockExam, PC
    <2>3. ASSUME NEW q \in Request PROVE Room(q)'
        <3>1. CASE q = p
            BY <1>3, <2>2, <3>1 DEF Room, LockExam
        <3>2. CASE q # p
            BY <1>3, <1>j, <1>r, <2>2, <3>2 DEF Room, LockExam
        <3> QED
            BY <3>1, <3>2
    <2> QED
        BY <2>2, <2>3, <1>j, <1>r DEF RoomKept
<1>4. ASSUME NEW p \in Request, CountStudents(p)
      PROVE  RoomKept'
    <2>1. Started' = Started
        BY <1>4 DEF CountStudents, Started
    <2>2. ASSUME Full PROVE RoomKept'
        <3>1. proc'[p].pc = "idle" /\ \A q \in Process \ {p} : proc'[q] = proc[q]
            BY <1>4, <2>2, <1>t, <1>r, LocalEffects DEF CountStudents, Idle
        <3>2. examLock = p /\ Cap > 0
            BY <1>4, <2>2, <1>j DEF CountStudents, Room, Full
        <3>3. ASSUME NEW q \in Request PROVE Room(q)'
            BY <1>j, <1>r, <3>1, <3>2 DEF Room
        <3> QED
            BY <3>1, <3>3, <1>j, <1>r DEF RoomKept
    <2>3. ASSUME ~Full PROVE RoomKept'
        <3>1. proc'[p].pc = "insert" /\ \A q \in Process \ {p} : proc'[q] = proc[q]
            BY <1>4, <2>3, <1>t, <1>r, LocalEffects DEF CountStudents, PC
        <3>2. Cap > 0 => Cardinality(Started) < Cap
            BY <2>3, StartedCount, NumbersAssumption DEF Full
        <3>3. ASSUME NEW q \in Request PROVE Room(q)'
            BY <1>4, <2>3, <1>j, <1>r, <2>1, <3>1, <3>2 DEF Room, CountStudents, Started
        <3> QED
            BY <3>1, <3>3, <1>j, <1>r DEF RoomKept
    <2> QED
        BY <2>2, <2>3
<1>5. ASSUME NEW p \in Process, (p \in Request /\ InsertAttempt(p)) \/ Fail(p)
      PROVE  RoomKept'
    <2>1. /\ proc'[p].pc = "idle" /\ \A q \in Process \ {p} : proc'[q] = proc[q]
          /\ examLock' = IF examLock = p THEN None ELSE examLock
        BY <1>5, <1>t, LocalEffects DEF InsertAttempt, Fail, Idle
    <2>2. ASSUME NEW q \in Request, Cap > 0, proc'[q].pc \in {"count", "insert"}
          PROVE  examLock' = q /\ (proc'[q].pc = "insert" => Cardinality(Started') < Cap)
        <3>1. q # p /\ examLock = q /\ (proc[q].pc = "insert" => Cardinality(Started) < Cap)
            BY <2>1, <2>2, <1>j, <1>r DEF Room
        <3>2. ASSUME NEW r \in Request, InsertAttempt(r) PROVE FALSE
            BY <1>a, <1>j, <2>1, <2>2, <3>1, <3>2, <1>r DEF Room
        <3>3. Started' = Started
            BY <3>2, StartedStep
        <3> QED
            BY <2>1, <2>2, <3>1, <3>3, <1>r
    <2>3. ASSUME NEW q \in Request PROVE Room(q)'
        BY <2>2 DEF Room, Started
    <2> QED
        BY <2>1, <2>3, <1>j, <1>r DEF RoomKept
<1>6. ASSUME NEW p \in Request, NEW s \in Student, NEW v \in Answers,
             SaveAnswer(p, s, v) \/ SaveAnswerSheet(p, s, v)
      PROVE  RoomKept'
    <2>1. CASE SaveAnswer(p, s, v)
        BY <2>1, <1>f, <1>t, <1>r DEF SaveAnswer, Receive, Idle, TypeOK
    <2>2. CASE SaveAnswerSheet(p, s, v)
        BY <2>2, <1>f, <1>t, <1>r DEF SaveAnswerSheet, Receive, Idle, TypeOK
    <2> QED
        BY <1>6, <2>1, <2>2
<1>7. ASSUME NEW p \in Request, NEW s \in Student, NEW v \in Sheet, NEW to \in Finalized,
             Submit(p, s, v, to)
      PROVE  RoomKept'
    BY <1>7, <1>f, <1>t, <1>r DEF Submit, Receive, Idle, TypeOK
<1>8. ASSUME NEW p \in Request, NEW s \in Student, ReportViolation(p, s)
      PROVE  RoomKept'
    BY <1>8, <1>f, <1>t, <1>r DEF ReportViolation, Receive, Idle, TypeOK
<1>9. ASSUME NEW p \in Request, WriteAnswer(p) \/ WriteSheet(p) \/ SaveViolation(p)
      PROVE  RoomKept'
    <2>1. Done(p) /\ UNCHANGED examLock /\ proc[p].pc # "insert"
        BY <1>9 DEF WriteAnswer, WriteSheet, SaveViolation
    <2> QED
        BY <2>1, <1>f, <1>t, <1>r, LocalEffects DEF Idle
<1>10. ASSUME NEW p \in Request, SyncSheet(p)
      PROVE  RoomKept'
    <2>1. (Done(p) \/ Goto(p, FirstScoring)) /\ UNCHANGED examLock /\ proc[p].pc = "syncSheet"
        BY <1>10 DEF SyncSheet
    <2>2. FirstScoring \in PC \cap Finalising /\ FirstScoring \notin {"count", "insert"}
        BY ScoringPC DEF PC, Finalising
    <2> QED
        BY <2>1, <2>2, <1>f, <1>t, <1>r, LocalEffects DEF Idle
<1>11. ASSUME NEW p \in Process, SaveMarks(p) \/ SaveScore(p) \/ SaveMax(p) \/ WriteTotal(p)
      PROVE  RoomKept'
    <2>1. PICK pc \in {"saveScore", "score", "scoreMax", "readMarks", "reload"} :
              Goto(p, pc) /\ UNCHANGED examLock /\ proc[p].pc # "insert"
        BY <1>11, ScoringPC DEF SaveMarks, SaveScore, SaveMax, WriteTotal
    <2>2. pc \in PC \cap Finalising /\ pc \notin {"count", "insert"}
        BY DEF PC, Finalising
    <2> QED
        BY <2>1, <2>2, <1>f, <1>t, LocalEffects
<1>12. ASSUME NEW p \in Process, LoadForScore(p) \/ LoadForMax(p) \/ ReadMarks(p) \/ Reload(p)
      PROVE  RoomKept'
    <2>1. /\ proc'[p].pc \in {"saveMarks", "saveMax", "writeTotal", "claim", "idle"}
          /\ \A q \in Process \ {p} : proc'[q] = proc[q]
          /\ UNCHANGED examLock /\ proc[p].pc # "insert"
        BY <1>12, <1>t, LocalEffects
        DEF LoadForScore, LoadForMax, ReadMarks, Reload, Idle, TypeOK, Local
    <2> QED
        BY <2>1, <1>f DEF Finalising
<1>13. ASSUME NEW p \in Process, Claim(p)
      PROVE  RoomKept'
    <2>1. Done(p) /\ UNCHANGED examLock /\ proc[p].pc # "insert"
        BY <1>13 DEF Claim
    <2> QED
        BY <2>1, <1>f, <1>t, LocalEffects DEF Idle
<1>14. ASSUME NEW s \in Student, JobTake(s)
      PROVE  RoomKept'
    <2>1. /\ proc'[Job].pc = FirstScoring /\ \A q \in Process \ {Job} : proc'[q] = proc[q]
          /\ UNCHANGED examLock /\ proc[Job].pc = "idle"
        BY <1>14, <1>t, <1>r DEF JobTake, Idle, TypeOK
    <2> QED
        BY <2>1, <1>f, <1>r, ScoringPC DEF Finalising
<1>15. CASE JobQuery \/ Tick
    BY <1>15, <1>u DEF JobQuery, Tick
<1> QED
    BY <1>1, <1>2, <1>3, <1>4, <1>5, <1>6, <1>7, <1>8, <1>9, <1>10, <1>11, <1>12, <1>13,
       <1>14, <1>15, <1>r
    DEF Next, Arrive, Step, CompleteSubmission, JobStep

-----------------------------------------------------------------------------
(* An answer is stored only while the attempt can be written. *)
LEMMA StoreStep ==
    ASSUME IndInv, [Next]_vars, NEW s \in Student, accepted'[s] # accepted[s]
    PROVE  Writable(sub[s]) /\ accepted'[s].at = now /\ UNCHANGED <<now, sub>>
<1>t. TypeOK
    BY DEF IndInv
<1>1. ASSUME NEW p \in Process, WriteAnswer(p) \/ WriteSheet(p) \/ SyncSheet(p)
      PROVE  Writable(sub[s]) /\ accepted'[s].at = now /\ UNCHANGED <<now, sub>>
    BY <1>1, <1>t DEF WriteAnswer, WriteSheet, SyncSheet, Store, TypeOK
<1>2. (\A p \in Request : ~WriteAnswer(p) /\ ~WriteSheet(p) /\ ~SyncSheet(p)) => UNCHANGED accepted
    BY DEF Next, Arrive, Step, CompleteSubmission, JobStep, vars, Receive, StartExam, LockExam,
           CountStudents, InsertAttempt, SaveAnswer, SaveAnswerSheet, Submit, ReportViolation,
           SaveViolation, LoadForScore, SaveMarks, SaveScore, LoadForMax, SaveMax, ReadMarks,
           WriteTotal, Reload, Claim, JobQuery, JobTake, Fail, Tick
<1> QED
    BY <1>1, <1>2 DEF Process

(* A student without an attempt has no accepted sheet, and the job's candidates
   are attempts. *)
LEMMA OnlyStartedStep == IndInv /\ [Next]_vars => OnlyStartedAccepted'
<1> SUFFICES ASSUME IndInv, [Next]_vars PROVE OnlyStartedAccepted'
    OBVIOUS
<1>k. Started \subseteq Started'
    BY RowsStep
<1>1. ASSUME NEW s \in Student, sub'[s].status = "NONE" PROVE accepted'[s].value = None
    <2>1. sub[s].status = "NONE" /\ accepted[s].value = None
        BY <1>1, <1>k DEF IndInv, OnlyStartedAccepted, Started
    <2> QED
        BY <2>1, StoreStep DEF Writable
<1>2. batch' \subseteq Started'
    <2>1. batch' \subseteq Started
        BY DEF IndInv, OnlyStartedAccepted,
            Next, Arrive, Step, CompleteSubmission, JobStep, vars, Receive, StartExam, LockExam,
            CountStudents, InsertAttempt, SaveAnswer, WriteAnswer, SaveAnswerSheet, WriteSheet,
            Submit, SyncSheet, ReportViolation, SaveViolation, LoadForScore, SaveMarks, SaveScore,
            LoadForMax, SaveMax, ReadMarks, WriteTotal, Reload, Claim, JobQuery, Expired, JobTake,
            Fail, Tick, Started
    <2> QED
        BY <2>1, <1>k
<1> QED
    BY <1>1, <1>2 DEF OnlyStartedAccepted

(* No sheet is accepted after the deadline and its grace. *)
LEMMA AcceptedStep == IndInv /\ [Next]_vars => AcceptedInTime'
<1> SUFFICES ASSUME IndInv, [Next]_vars, NEW s \in Student, accepted'[s].value # None
             PROVE  accepted'[s].at <= sub'[s].deadline + Grace
    BY DEF AcceptedInTime
<1>1. CASE accepted'[s] # accepted[s]
    <2>1. now \in Nat /\ sub[s].deadline \in Nat
        BY NumbersAssumption DEF IndInv, TypeOK, Row
    <2> QED
        BY <1>1, <2>1, StoreStep, NumbersAssumption DEF Writable, PastDeadlineWithGrace
<1>2. CASE accepted'[s] = accepted[s]
    <2>1. s \in Started
        BY <1>2 DEF IndInv, OnlyStartedAccepted, Started
    <2> QED
        BY <1>2, <2>1, RowsStep DEF IndInv, AcceptedInTime
<1> QED
    BY <1>1, <1>2

(* A candidate of the job stays past its deadline: the deadline does not move. *)
LEMMA JobGraceStep == IndInv /\ [Next]_vars => JobAfterGrace'
<1> SUFFICES ASSUME IndInv, [Next]_vars,
                    NEW s \in (batch \cup {proc[Job].student})', s # None
             PROVE  now' > sub'[s].deadline + Grace
    BY DEF JobAfterGrace, PastDeadlineWithGrace
<1>t. TypeOK /\ Job \in Process /\ Job \notin Request
    BY SetsAssumption DEF IndInv, Process
<1>n. now \in Nat /\ now' >= now /\ now' \in Nat
    <2>1. now' = now \/ now' = now + 1
        BY DEF Next, Arrive, Step, CompleteSubmission, JobStep, vars, Receive, StartExam, LockExam,
            CountStudents, InsertAttempt, SaveAnswer, WriteAnswer, SaveAnswerSheet, WriteSheet,
            Submit, SyncSheet, ReportViolation, SaveViolation, LoadForScore, SaveMarks, SaveScore,
            LoadForMax, SaveMax, ReadMarks, WriteTotal, Reload, Claim, JobQuery, JobTake, Fail, Tick
    <2>2. now \in Nat
        BY <1>t, NumbersAssumption DEF TypeOK
    <2> QED
        BY <2>1, <2>2
<1>b. batch' \subseteq batch \cup Expired
    BY DEF Next, Arrive, Step, CompleteSubmission, JobStep, vars, Receive, StartExam, LockExam,
        CountStudents, InsertAttempt, SaveAnswer, WriteAnswer, SaveAnswerSheet, WriteSheet,
        Submit, SyncSheet, ReportViolation, SaveViolation, LoadForScore, SaveMarks, SaveScore,
        LoadForMax, SaveMax, ReadMarks, WriteTotal, Reload, Claim, JobQuery, JobTake, Fail, Tick
<1>c. proc'[Job].student \in batch \cup {proc[Job].student, None}
    <2>1. ASSUME NEW p \in Process, CompleteSubmission(p) \/ Fail(p)
          PROVE  proc'[Job].student \in {proc[Job].student, None}
        <3>1. \A q \in Process \ {p} : proc'[q] = proc[q]
            BY <2>1, <1>t
            DEF CompleteSubmission, LoadForScore, SaveMarks, SaveScore, LoadForMax, SaveMax,
                ReadMarks, WriteTotal, Reload, Claim, Fail, Goto, Done, TypeOK
        <3>2. proc'[p].student \in {proc[p].student, None}
            BY <2>1, <1>t
            DEF CompleteSubmission, LoadForScore, SaveMarks, SaveScore, LoadForMax, SaveMax,
                ReadMarks, WriteTotal, Reload, Claim, Fail, Goto, Done, Idle, TypeOK, Local
        <3> QED
            BY <3>1, <3>2, <1>t
    <2>2. ASSUME NEW p \in Request, Arrive(p) \/ Step(p) PROVE proc'[Job] = proc[Job]
        BY <2>2, <1>t
        DEF Arrive, Step, Receive, StartExam, LockExam, CountStudents, InsertAttempt, SaveAnswer,
            WriteAnswer, SaveAnswerSheet, WriteSheet, Submit, SyncSheet, ReportViolation,
            SaveViolation, Goto, Done, TypeOK
    <2>3. ASSUME NEW t \in Student, JobTake(t) PROVE proc'[Job].student = t /\ t \in batch
        BY <2>3, <1>t DEF JobTake, Idle, TypeOK
    <2> QED
        BY <2>1, <2>2, <2>3 DEF Next, JobStep, JobQuery, Tick, vars
<1>1. s \in batch \/ s = proc[Job].student \/ s \in Expired
    BY <1>b, <1>c
<1>2. s \in Started /\ PastDeadlineWithGrace(sub[s])
    <2>1. CASE s \in batch
        BY <2>1 DEF IndInv, JobAfterGrace, OnlyStartedAccepted, Started
    <2>2. CASE s = proc[Job].student
        <3>1. LoadedRow(Job) /\ proc[Job].pc \in Finalising \cup {"idle"}
            BY <1>t DEF IndInv, LoadedRows, RoomKept
        <3> QED
            BY <2>2, <3>1 DEF IndInv, JobAfterGrace, LoadedRow, Finalising, Starting, Started
    <2>3. CASE s \in Expired
        BY <2>3 DEF Expired, Started
    <2> QED
        BY <1>1, <2>1, <2>2, <2>3
<1>3. sub[s].deadline \in Nat /\ sub'[s].deadline = sub[s].deadline
    BY <1>2, <1>t, RowsStep DEF TypeOK, Row, Started
<1> QED
    BY <1>2, <1>3, <1>n, NumbersAssumption DEF PastDeadlineWithGrace

-----------------------------------------------------------------------------
(* The initial state: no attempts, no handlers. *)
LEMMA InitInv == Init => IndInv
<1> SUFFICES ASSUME Init PROVE IndInv
    OBVIOUS
<1>1. Started = {}
    BY DEF Init, Started, NoRow
<1>2. TypeOK
    BY SetsAssumption, NumbersAssumption
    DEF Init, TypeOK, Idle, Local, PC, NoRow, NoAnswer, Row, AnswerRow, Sheet, Status, Process
<1>3. LoadedRows /\ RoomKept
    BY DEF Init, LoadedRows, LoadedRow, RoomKept, Room, Idle, Starting, Finalising, HoldsRow,
           Process
<1>4. CapRespected
    BY <1>1, FS_EmptySet, NumbersAssumption DEF CapRespected
<1>5. Deadlines /\ OnlyStartedAccepted /\ AcceptedInTime
    BY <1>1 DEF Deadlines, OnlyStartedAccepted, AcceptedInTime, Init
<1>6. JobAfterGrace
    BY DEF JobAfterGrace, Init, Idle, Process
<1> QED
    BY <1>2, <1>3, <1>4, <1>5, <1>6 DEF IndInv

(* The invariant is inductive: it holds whatever overlaps. *)
THEOREM Inductive == Spec => []IndInv
<1>1. IndInv /\ [Next]_vars => IndInv'
    BY TypeStep, LoadedStep, RoomStep, DeadlinesStep, OnlyStartedStep, CapStep, AcceptedStep,
       JobGraceStep DEF IndInv
<1> QED
    BY InitInv, <1>1, PTL DEF Spec

(* The variables keep their types. *)
THEOREM TypeCorrect == Spec => []TypeOK
<1>1. IndInv => TypeOK
    BY DEF IndInv
<1> QED
    BY Inductive, <1>1, PTL

(* startExam never lets more students in than the plan allows. *)
THEOREM CapHolds == Spec => []CapRespected
<1>1. IndInv => CapRespected
    BY DEF IndInv
<1> QED
    BY Inductive, <1>1, PTL

(* No answer is accepted after the deadline and its grace, in any interleaving. *)
THEOREM NothingAcceptedLate == Spec => []AcceptedInTime
<1>1. IndInv => AcceptedInTime
    BY DEF IndInv
<1> QED
    BY Inductive, <1>1, PTL

(* The auto-submit job never takes an attempt whose student may still write. *)
THEOREM JobWaitsForGrace == Spec => []JobAfterGrace
<1>1. IndInv => JobAfterGrace
    BY DEF IndInv
<1> QED
    BY Inductive, <1>1, PTL

(* No step, not even the save of a stale row, moves the deadline of an attempt. *)
THEOREM DeadlineNeverMoves == Spec => DeadlineFixed
<1>1. IndInv /\ [Next]_vars =>
          [\A s \in Started : sub'[s].deadline = sub[s].deadline /\ sub[s].deadline <= ExamEnd]_vars
    BY RowsStep DEF IndInv, Deadlines
<1> QED
    BY Inductive, <1>1, PTL DEF Spec, DeadlineFixed

-----------------------------------------------------------------------------
(* What attempts promise while each is finalised alone (FinalisedAlone). *)

(* What the attempt of s is worth: the total of the answers that are stored. *)
Worth(s) == IF Objective THEN ans[s].value ELSE None

(* Marks are given by the scoring of objective questions, to answers that exist. *)
MarksFit == \A s \in Student : ans[s].marked # None => Objective /\ ans[s].value # None
ScoredRight == \A s \in Student : sub[s].status \in Finalized => sub[s].total = Worth(s)

(* What a handler has loaded, and means to save, is what is stored. *)
UpToDate(p) ==
    LET s == proc[p].student IN
    /\ proc[p].pc \in HoldsRow => proc[p].row = sub[s]
    /\ proc[p].pc \in {"score", "saveMarks", "saveScore"} => Objective
    /\ proc[p].pc \in {"saveMarks", "saveScore"} => proc[p].answer.value = ans[s].value
    /\ proc[p].pc \in {"saveScore", "scoreMax", "saveMax", "readMarks"} /\ Objective => ans[s].marked = ans[s].value
    /\ proc[p].pc = "writeTotal" => proc[p].total = Worth(s)
    /\ proc[p].pc \in {"reload", "claim"} => sub[s].total = Worth(s)
    /\ proc[p].pc = "writeAnswer" /\ proc[p].answer.marked # None => Objective
    /\ proc[p].pc \in {"writeAnswer", "writeSheet"} => proc[p].value \in Answers
    /\ proc[p].pc \in Starting => proc[p].row.status = "IN_PROGRESS"

PromiseInv == AcceptedKept /\ MarksFit /\ ScoredRight /\ \A p \in Process : UpToDate(p)

(* What a step does to the attempt of the student that its handler works for. *)
Accepts(p, value, marked) ==
    /\ proc[p].pc \in {"writeAnswer", "writeSheet", "syncSheet"} /\ Writable(sub[proc[p].student])
    /\ Store(proc[p].student, value, marked) /\ UNCHANGED sub
    /\ marked # None => Objective
Marks(p) ==
    LET s == proc[p].student IN
    /\ proc[p].pc \in Finalising /\ ans[s].value # None /\ Objective
    /\ ans' = [ans EXCEPT ![s] = [value |-> ans[s].value, marked |-> ans[s].value]]
    /\ UNCHANGED <<sub, accepted>>
Scores(p) ==
    LET s == proc[p].student IN
    /\ proc[p].pc \in Finalising /\ sub' = [sub EXCEPT ![s] = [sub[s] EXCEPT !.total = Worth(s)]]
    /\ UNCHANGED <<ans, accepted>>
Claims(p) ==
    LET s == proc[p].student IN
    /\ proc[p].pc \in Finalising /\ sub[s].status = "IN_PROGRESS" /\ proc[p].to \in Finalized
    /\ sub' = [sub EXCEPT ![s] = [sub[s] EXCEPT !.status = proc[p].to, !.total = Worth(s)]]
    /\ UNCHANGED <<ans, accepted>>
Inserts(p) ==
    LET s == proc[p].student IN
    /\ proc[p].pc = "insert" /\ sub[s].status = "NONE" /\ proc[p].row.status = "IN_PROGRESS"
    /\ sub' = [sub EXCEPT ![s] = proc[p].row]
    /\ UNCHANGED <<ans, accepted>>
Acts(p) ==
    /\ proc'[p] # proc[p] /\ proc[p].student \in Student
    /\ \/ \E value \in Answers, marked \in Sheet : p \in Request /\ Accepts(p, value, marked)
       \/ Marks(p) \/ Scores(p) \/ Claims(p)
       \/ p \in Request /\ Inserts(p)

(* With what is stored in hand a step stores, marks, scores, claims or inserts, and the
   saves of whole rows change nothing else. *)
LEMMA PromiseEffects ==
    ASSUME IndInv, PromiseInv, [Next]_vars
    PROVE  UNCHANGED <<sub, ans, accepted>> \/ \E p \in Process : Acts(p)
<1>t. /\ sub \in [Student -> Row] /\ proc \in [Process -> Local] /\ Request \subseteq Process
      /\ ans \in [Student -> AnswerRow] /\ TypeOK
    BY DEF IndInv, TypeOK, Process
<1>l. \A p \in Process : LoadedRow(p) /\ UpToDate(p) /\ (proc[p].pc # "idle" => proc[p].student \in Student)
    BY DEF IndInv, LoadedRows, LoadedRow, PromiseInv
<1>d. \A p \in Process : (Done(p) => proc'[p].pc = "idle") /\ \A pc \in PC : Goto(p, pc) => proc'[p].pc = pc
    BY <1>t, LocalEffects DEF Idle
<1>1. ASSUME NEW p \in Request, InsertAttempt(p) PROVE UNCHANGED <<sub, ans, accepted>> \/ Acts(p)
    BY <1>1, <1>t, <1>l, <1>d DEF InsertAttempt, Acts, Inserts, UpToDate, Starting
<1>2. ASSUME NEW p \in Request, SaveViolation(p) PROVE UNCHANGED <<sub, ans, accepted>>
    BY <1>2, <1>t, <1>l DEF SaveViolation, UpToDate, HoldsRow
<1>3. ASSUME NEW p \in Request, WriteAnswer(p) PROVE UNCHANGED <<sub, ans, accepted>> \/ Acts(p)
    <2>1. proc[p].value \in Answers /\ proc[p].answer.marked \in Sheet /\ (proc[p].answer.marked # None => Objective)
        BY <1>3, <1>t, <1>l DEF WriteAnswer, UpToDate, Local, AnswerRow
    <2> QED
        BY <1>3, <2>1, <1>t, <1>l, <1>d DEF WriteAnswer, Acts, Accepts
<1>m. \A s \in Student : ans[s].marked \in Sheet /\ (ans[s].marked # None => Objective)
    BY <1>t DEF PromiseInv, MarksFit, AnswerRow
<1>4. ASSUME NEW p \in Request, WriteSheet(p) PROVE UNCHANGED <<sub, ans, accepted>> \/ Acts(p)
    <2>1. proc[p].value \in Answers
        BY <1>4, <1>t, <1>l DEF WriteSheet, UpToDate
    <2> QED
        BY <1>4, <2>1, <1>m, <1>t, <1>l, <1>d DEF WriteSheet, Acts, Accepts
<1>5. ASSUME NEW p \in Request, SyncSheet(p) PROVE UNCHANGED <<sub, ans, accepted>> \/ Acts(p)
    <2>1. proc[p].value \in Sheet /\ FirstScoring \in PC \ {"syncSheet"}
        BY <1>t, ScoringPC DEF Local, PC, FirstScoring
    <2> QED
        BY <1>5, <2>1, <1>m, <1>t, <1>l, <1>d DEF SyncSheet, Acts, Accepts, Sheet
<1>6. ASSUME NEW p \in Process, SaveMarks(p) PROVE UNCHANGED <<sub, ans, accepted>> \/ Acts(p)
    BY <1>6, <1>t, <1>l, <1>d DEF SaveMarks, Acts, Marks, UpToDate, Finalising, PC
<1>7. ASSUME NEW p \in Process, SaveScore(p) PROVE Acts(p)
    <2>1. proc[p].row = sub[proc[p].student] /\ proc[p].answer.value = Worth(proc[p].student)
        BY <1>7, <1>l DEF SaveScore, UpToDate, HoldsRow, Worth
    <2>2. AfterObjective \in PC \ {"saveScore"}
        BY ScoringPC DEF PC, AfterObjective
    <2> QED
        BY <1>7, <2>1, <2>2, <1>t, <1>l, <1>d DEF SaveScore, Acts, Scores, Finalising
<1>8. ASSUME NEW p \in Process, SaveMax(p) PROVE UNCHANGED <<sub, ans, accepted>>
    BY <1>8, <1>t, <1>l DEF SaveMax, UpToDate, HoldsRow
<1>9. ASSUME NEW p \in Process, WriteTotal(p) PROVE Acts(p)
    BY <1>9, <1>t, <1>l, <1>d DEF WriteTotal, Acts, Scores, UpToDate, Finalising, PC
<1>10. ASSUME NEW p \in Process, Claim(p) PROVE UNCHANGED <<sub, ans, accepted>> \/ Acts(p)
    <2>1. proc[p].row = sub[proc[p].student] /\ proc[p].row.total = Worth(proc[p].student) /\ proc[p].to \in Finalized
        BY <1>10, <1>l DEF Claim, UpToDate, LoadedRow, HoldsRow, Finalising
    <2> QED
        BY <1>10, <2>1, <1>t, <1>l, <1>d DEF Claim, Acts, Claims, Finalising
<1>11. ASSUME NEW p \in Request, Arrive(p) \/ LockExam(p) \/ CountStudents(p)
       PROVE  UNCHANGED <<sub, ans, accepted>>
    BY <1>11 DEF Arrive, Receive, StartExam, SaveAnswer, SaveAnswerSheet, Submit, ReportViolation, LockExam,
                 CountStudents
<1>12. ASSUME NEW p \in Process, LoadForScore(p) \/ LoadForMax(p) \/ ReadMarks(p) \/ Reload(p) \/ Fail(p)
       PROVE  UNCHANGED <<sub, ans, accepted>>
    BY <1>12 DEF LoadForScore, LoadForMax, ReadMarks, Reload, Fail
<1>13. CASE Tick \/ JobStep \/ UNCHANGED vars
    BY <1>13 DEF Tick, JobStep, JobQuery, JobTake, vars
<1> QED
    BY <1>1, <1>2, <1>3, <1>4, <1>5, <1>6, <1>7, <1>8, <1>9, <1>10, <1>11, <1>12, <1>13, <1>t, Zenon
    DEF Next, Step, CompleteSubmission

(* No handler but its own works on the attempt of a student. *)
LEMMA OtherStudents ==
    ASSUME IndInv, NEW p \in Process, Acts(p), NEW t \in Student, t # proc[p].student
    PROVE  sub'[t] = sub[t] /\ ans'[t] = ans[t] /\ accepted'[t] = accepted[t]
<1>1. sub \in [Student -> Row] /\ ans \in [Student -> AnswerRow] /\ DOMAIN accepted = Student
    BY DEF IndInv, TypeOK
<1> QED
    BY <1>1 DEF Acts, Accepts, Store, Marks, Scores, Claims, Inserts

(* A handler that waits has what is stored: nobody else finalises the attempt meanwhile,
   and what is saved while the job does it comes too late. *)
LEMMA WaitingUpToDate ==
    ASSUME IndInv, PromiseInv, FinalisedAlone, [Next]_vars, NEW q \in Process, proc'[q] = proc[q]
    PROVE  UpToDate(q)'
<1> DEFINE t == proc[q].student
<1>l. LoadedRow(q) /\ UpToDate(q)
    BY DEF IndInv, LoadedRows, PromiseInv
<1>1. ASSUME proc[q].pc \in Finalising PROVE sub'[t] = sub[t] /\ ans'[t] = ans[t]
    <2>0. t \in Student /\ sub[t].status # "NONE"
        BY <1>1, <1>l DEF LoadedRow, Finalising, Starting
    <2>1. CASE UNCHANGED <<sub, ans, accepted>>
        BY <2>1
    <2>2. ASSUME NEW p \in Process, Acts(p) PROVE sub'[t] = sub[t] /\ ans'[t] = ans[t]
        <3>1. CASE proc[p].student # t
            BY <2>0, <2>2, <3>1, OtherStudents
        <3>2. CASE proc[p].student = t
            <4>1. p # q
                BY <2>2 DEF Acts
            <4>2. \/ proc[p].pc \in Starting
                  \/ q = Job /\ proc[p].pc \in {"writeAnswer", "writeSheet", "syncSheet"}
                BY <1>1, <3>2, <4>1 DEF FinalisedAlone
            <4>3. q = Job => ~Writable(sub[t])
                BY <2>0, SetsAssumption DEF IndInv, JobAfterGrace, Writable
            <4>4. ~Inserts(p) /\ ~Marks(p) /\ ~Scores(p) /\ ~Claims(p)
                BY <2>0, <3>2, <4>2 DEF Inserts, Marks, Scores, Claims, Finalising, Starting
            <4>5. \A value, marked : ~Accepts(p, value, marked)
                BY <3>2, <4>2, <4>3 DEF Accepts, Starting
            <4> QED
                BY <2>2, <4>4, <4>5 DEF Acts
        <3> QED
            BY <3>1, <3>2
    <2> QED
        BY <2>1, <2>2, PromiseEffects
<1>2. ASSUME proc[q].pc = "saveViolation" PROVE sub'[t] = sub[t]
    <2>0. t \in Student /\ sub[t].status # "NONE"
        BY <1>2, <1>l DEF LoadedRow, Starting
    <2>1. CASE UNCHANGED <<sub, ans, accepted>>
        BY <2>1
    <2>2. ASSUME NEW p \in Process, Acts(p) PROVE sub'[t] = sub[t]
        <3>1. CASE proc[p].student # t
            BY <2>0, <2>2, <3>1, OtherStudents
        <3>2. CASE proc[p].student = t
            <4>1. p # q
                BY <2>2 DEF Acts
            <4>2. proc[p].pc \notin Finalising
                BY <1>2, <3>2, <4>1 DEF FinalisedAlone, Starting
            <4> QED
                BY <2>0, <2>2, <3>2, <4>2 DEF Acts, Accepts, Marks, Scores, Claims, Inserts
        <3> QED
            BY <3>1, <3>2
    <2> QED
        BY <2>1, <2>2, PromiseEffects
<1>3. CASE proc[q].pc \in Finalising
    BY <1>1, <1>3, <1>l DEF UpToDate, Worth, Finalising, Starting
<1>4. CASE proc[q].pc \notin Finalising
    BY <1>2, <1>4, <1>l DEF UpToDate, HoldsRow, Finalising
<1> QED
    BY <1>3, <1>4

(* A handler that has taken a step has what is stored: it loads it, or keeps it. *)
LEMMA ActingUpToDate ==
    ASSUME IndInv, PromiseInv, [Next]_vars, NEW q \in Process, proc'[q] # proc[q]
    PROVE  UpToDate(q)'
<1>t. /\ TypeOK /\ sub \in [Student -> Row] /\ proc \in [Process -> Local] /\ ans \in [Student -> AnswerRow]
      /\ Request \subseteq Process /\ Job \in Process
    BY DEF IndInv, TypeOK, Process
<1>u. /\ UpToDate(q) /\ (proc[q].pc # "idle" => proc[q].student \in Student)
      /\ \A s \in Student : ans[s].marked # None => Objective /\ ans[s].value # None
    BY DEF IndInv, LoadedRows, LoadedRow, PromiseInv, MarksFit
<1>i. ASSUME Done(q) PROVE UpToDate(q)'
    BY <1>i, <1>t DEF Done, Idle, UpToDate, HoldsRow, Starting
<1>g. ASSUME NEW pc \in PC, Goto(q, pc)
      PROVE  proc'[q] = [proc[q] EXCEPT !.pc = pc] /\ proc'[q].pc = pc /\ proc'[q].student = proc[q].student
             /\ proc'[q].row = proc[q].row /\ proc'[q].answer = proc[q].answer /\ proc'[q].total = proc[q].total
             /\ proc'[q].value = proc[q].value
    BY <1>g, <1>t DEF Goto, Local
<1>a. FirstScoring \in {"score", "scoreMax", "readMarks"} /\ (FirstScoring = "score" <=> Objective)
      /\ AfterObjective \in {"scoreMax", "readMarks"}
    BY DEF FirstScoring, AfterObjective
<1>o. \A p \in Process : (Done(p) => q = p) /\ \A pc \in PC : Goto(p, pc) => q = p
    BY <1>t, LocalEffects
<1>p. ASSUME NEW p \in Process, NEW l, proc' = [proc EXCEPT ![p] = l] PROVE q = p /\ proc'[q] = l
    BY <1>p, <1>t
<1>1. ASSUME NEW p \in Request, NEW op, NEW s \in Student, NEW l \in Local, Receive(p, op, s, l),
             /\ l.pc \in {"lockExam", "insert"} => l.row.status = "IN_PROGRESS"
             /\ l.pc = "saveViolation" => l.row = sub[s]
             /\ l.pc = "writeAnswer" /\ l.answer.marked # None => Objective
             /\ l.pc \in {"writeAnswer", "writeSheet"} => l.value \in Answers
             /\ l.pc \in {"lockExam", "insert", "saveViolation", "writeAnswer", "writeSheet", "syncSheet"}
      PROVE  UpToDate(q)'
    <2>1. q = p /\ proc'[q] = [l EXCEPT !.student = s] /\ UNCHANGED <<sub, ans>>
        BY <1>1, <1>p, <1>t DEF Receive
    <2>2. /\ proc'[q].pc = l.pc /\ proc'[q].student = s /\ proc'[q].row = l.row
          /\ proc'[q].answer = l.answer /\ proc'[q].value = l.value
        BY <2>1 DEF Local
    <2> QED
        BY <1>1, <2>1, <2>2 DEF UpToDate, HoldsRow, Starting
<1>l. Idle \in Local /\ \A value \in Answers : value \in Sheet
    BY <1>t, LocalTypes DEF Sheet
<1>2. ASSUME NEW p \in Request, NEW s \in Student, StartExam(p, s) PROVE UpToDate(q)'
    <2> DEFINE l == [Idle EXCEPT !.pc = IF Cap > 0 THEN "lockExam" ELSE "insert",
                                 !.row = [status |-> "IN_PROGRESS", deadline |-> EffectiveDeadline(now),
                                          total |-> None]]
    <2>1. EffectiveDeadline(now) \in Nat
        BY <1>2, <1>t, DeadlineInWindow, NumbersAssumption DEF StartExam, MayAccess, TypeOK
    <2>2. l \in Local /\ l.pc \in {"lockExam", "insert"} /\ l.row.status = "IN_PROGRESS"
        BY <1>l, <2>1 DEF Local, PC, Row, Sheet, Status, Idle
    <2>3. Receive(p, "start", s, l)
        BY <1>2 DEF StartExam
    <2> HIDE DEF l
    <2> QED
        BY <1>1, <2>2, <2>3
<1>3. ASSUME NEW p \in Request, NEW s \in Student, ReportViolation(p, s) PROVE UpToDate(q)'
    <2> DEFINE l == [Idle EXCEPT !.pc = "saveViolation", !.row = sub[s]]
    <2>1. l \in Local /\ l.pc = "saveViolation" /\ l.row = sub[s]
        BY <1>l, <1>t DEF Local, PC, Idle
    <2>2. Receive(p, "violation", s, l)
        BY <1>3 DEF ReportViolation, MayAccess
    <2> HIDE DEF l
    <2> QED
        BY <1>1, <2>1, <2>2
<1>4. ASSUME NEW p \in Request, NEW s \in Student, NEW value \in Answers, SaveAnswer(p, s, value)
      PROVE  UpToDate(q)'
    <2> DEFINE l == [Idle EXCEPT !.pc = "writeAnswer", !.answer = ans[s], !.value = value]
    <2>1. l \in Local /\ l.pc = "writeAnswer" /\ l.answer = ans[s] /\ l.value = value
        BY <1>l, <1>t DEF Local, PC, Idle
    <2>2. Receive(p, "saveAnswer", s, l)
        BY <1>4 DEF SaveAnswer
    <2> HIDE DEF l
    <2> QED
        BY <1>1, <1>u, <2>1, <2>2
<1>5. ASSUME NEW p \in Request, NEW s \in Student, NEW value \in Answers, SaveAnswerSheet(p, s, value)
      PROVE  UpToDate(q)'
    <2> DEFINE l == [Idle EXCEPT !.pc = "writeSheet", !.value = value]
    <2>1. l \in Local /\ l.pc = "writeSheet" /\ l.value = value
        BY <1>l DEF Local, PC, Idle
    <2>2. Receive(p, "saveSheet", s, l)
        BY <1>5 DEF SaveAnswerSheet
    <2> HIDE DEF l
    <2> QED
        BY <1>1, <2>1, <2>2
<1>6. ASSUME NEW p \in Request, NEW s \in Student, NEW value \in Sheet, NEW to \in Finalized,
             Submit(p, s, value, to)
      PROVE  UpToDate(q)'
    <2> DEFINE l == [Idle EXCEPT !.pc = "syncSheet", !.value = value, !.to = to]
    <2>1. l \in Local /\ l.pc = "syncSheet"
        BY <1>l DEF Local, PC, Idle, Status
    <2>2. Receive(p, "submit", s, l)
        BY <1>6 DEF Submit
    <2> HIDE DEF l
    <2> QED
        BY <1>1, <2>1, <2>2
<1>7. ASSUME NEW p \in Request, Arrive(p) PROVE UpToDate(q)'
    BY <1>2, <1>3, <1>4, <1>5, <1>6, <1>7, Zenon DEF Arrive
<1>8. ASSUME NEW p \in Request, LockExam(p) PROVE UpToDate(q)'
    <2>1. q = p /\ proc'[q].pc = "count" /\ proc'[q].row = proc[q].row
        BY <1>8, <1>o, <1>g, <1>t DEF LockExam, PC
    <2> QED
        BY <1>8, <2>1, <1>u DEF LockExam, UpToDate, HoldsRow, Starting
<1>9. ASSUME NEW p \in Request, CountStudents(p) PROVE UpToDate(q)'
    <2>1. CASE Goto(p, "insert")
        <3>1. q = p /\ proc'[q].pc = "insert" /\ proc'[q].row = proc[q].row
            BY <2>1, <1>o, <1>g, <1>t DEF PC
        <3> QED
            BY <1>9, <3>1, <1>u DEF CountStudents, UpToDate, HoldsRow, Starting
    <2> QED
        BY <1>9, <2>1, <1>o, <1>i, <1>t DEF CountStudents
<1>10. ASSUME NEW p \in Request, InsertAttempt(p) \/ WriteAnswer(p) \/ WriteSheet(p) \/ SaveViolation(p)
       PROVE  UpToDate(q)'
    BY <1>10, <1>o, <1>i, <1>t DEF InsertAttempt, WriteAnswer, WriteSheet, SaveViolation
<1>11. ASSUME NEW p \in Request, SyncSheet(p) PROVE UpToDate(q)'
    <2>1. CASE Goto(p, FirstScoring)
        <3>1. q = p /\ proc'[q].pc = FirstScoring
            BY <2>1, <1>o, <1>g, <1>a, <1>t DEF PC
        <3> QED
            BY <3>1, <1>a DEF UpToDate, HoldsRow, Starting
    <2> QED
        BY <1>11, <2>1, <1>o, <1>i, <1>t DEF SyncSheet
<1> DEFINE s == proc[q].student
<1>12. ASSUME LoadForScore(q) PROVE UpToDate(q)'
    <2>1. /\ proc'[q].pc = "saveMarks" /\ proc'[q].row = sub[s] /\ proc'[q].answer = ans[s]
          /\ proc'[q].student = s
        BY <1>12, <1>t DEF LoadForScore, Local
    <2> QED
        BY <1>12, <2>1, <1>u DEF LoadForScore, UpToDate, HoldsRow, Starting
<1>13. ASSUME SaveMarks(q) PROVE UpToDate(q)'
    <2>1. proc'[q].pc = "saveScore" /\ UNCHANGED sub
        BY <1>13, <1>g DEF SaveMarks, PC
    <2>2. proc'[q].row = proc[q].row /\ proc'[q].answer = proc[q].answer /\ proc'[q].student = s
        BY <1>13, <1>g DEF SaveMarks, PC
    <2>3. s \in Student /\ proc[q].answer.value = ans[s].value /\ Objective /\ proc[q].row = sub[s]
        BY <1>13, <1>u DEF SaveMarks, UpToDate, HoldsRow
    <2>4. ans'[s].value = ans[s].value /\ ans'[s].marked = ans'[s].value
        BY <1>13, <2>3, <1>t, <1>u DEF SaveMarks, AnswerRow
    <2> QED
        BY <2>1, <2>2, <2>3, <2>4 DEF UpToDate, HoldsRow, Starting
<1>14. ASSUME SaveScore(q) PROVE UpToDate(q)'
    <2>1. proc'[q].pc = AfterObjective /\ proc'[q].student = s /\ UNCHANGED ans
        BY <1>14, <1>g, <1>a DEF SaveScore, PC
    <2> QED
        BY <1>14, <2>1, <1>a, <1>u DEF SaveScore, UpToDate, HoldsRow, Starting
<1>15. ASSUME LoadForMax(q) PROVE UpToDate(q)'
    <2>1. proc'[q].pc = "saveMax" /\ proc'[q].row = sub[s] /\ proc'[q].student = s
        BY <1>15, <1>t DEF LoadForMax, Local
    <2> QED
        BY <1>15, <2>1, <1>u DEF LoadForMax, UpToDate, HoldsRow, Starting
<1>16. ASSUME SaveMax(q) PROVE UpToDate(q)'
    <2>1. proc'[q].pc = "readMarks" /\ proc'[q].student = s
        BY <1>16, <1>g DEF SaveMax, PC
    <2> QED
        BY <1>16, <2>1, <1>u DEF SaveMax, UpToDate, HoldsRow, Starting
<1>17. ASSUME ReadMarks(q) PROVE UpToDate(q)'
    <2>1. proc'[q].pc = "writeTotal" /\ proc'[q].total = ans[s].marked /\ proc'[q].student = s
        BY <1>17, <1>t DEF ReadMarks, Local
    <2>2. ans[s].marked = Worth(s)
        BY <1>17, <1>u DEF ReadMarks, UpToDate, Worth
    <2> QED
        BY <1>17, <2>1, <2>2 DEF ReadMarks, UpToDate, HoldsRow, Starting, Worth
<1>18. ASSUME WriteTotal(q) PROVE UpToDate(q)'
    <2>1. proc'[q].pc = "reload" /\ proc'[q].student = s
        BY <1>18, <1>g DEF WriteTotal, PC
    <2>2. sub'[s].total = Worth(s)
        BY <1>18, <1>t, <1>u DEF WriteTotal, UpToDate, Row
    <2> QED
        BY <1>18, <2>1, <2>2 DEF WriteTotal, UpToDate, HoldsRow, Starting, Worth
<1>19. ASSUME Reload(q) PROVE UpToDate(q)'
    <2>1. CASE proc' = [proc EXCEPT ![q].pc = "claim", ![q].row = sub[s]]
        <3>1. proc'[q].pc = "claim" /\ proc'[q].row = sub[s] /\ proc'[q].student = s
            BY <2>1, <1>t DEF Local
        <3> QED
            BY <1>19, <3>1, <1>u DEF Reload, UpToDate, HoldsRow, Starting, Worth
    <2> QED
        BY <1>19, <2>1, <1>i DEF Reload
<1>20. ASSUME NEW p \in Process, CompleteSubmission(p) PROVE UpToDate(q)'
    <2>1. q = p
        BY <1>20, <1>t, <1>o, <1>a
        DEF CompleteSubmission, LoadForScore, SaveMarks, SaveScore, LoadForMax, SaveMax, ReadMarks, WriteTotal,
            Reload, Claim, PC
    <2>2. Claim(q) => UpToDate(q)'
        BY <1>i DEF Claim
    <2> QED
        BY <1>20, <2>1, <2>2, <1>12, <1>13, <1>14, <1>15, <1>16, <1>17, <1>18, <1>19, Zenon DEF CompleteSubmission
<1>21. ASSUME NEW p \in Process, Fail(p) PROVE UpToDate(q)'
    BY <1>21, <1>o, <1>i DEF Fail
<1>22. ASSUME NEW x \in Student, JobTake(x) PROVE UpToDate(q)'
    <2>1. proc'[q] = [Idle EXCEPT !.pc = FirstScoring, !.student = x, !.to = "AUTO_SUBMITTED"]
        BY <1>22, <1>p, <1>t DEF JobTake
    <2>2. proc'[q].pc = FirstScoring
        BY <2>1 DEF Idle
    <2> QED
        BY <2>2, <1>a DEF UpToDate, HoldsRow, Starting
<1>23. ~UNCHANGED vars /\ ~Tick /\ ~JobQuery
    BY DEF vars, Tick, JobQuery
<1> QED
    BY <1>7, <1>8, <1>9, <1>10, <1>11, <1>20, <1>21, <1>22, <1>23, Zenon DEF Next, Step, JobStep

(* PromiseInv survives every step taken while attempts are finalised alone. *)
LEMMA PromiseStep == IndInv /\ PromiseInv /\ FinalisedAlone /\ [Next]_vars => PromiseInv'
<1> SUFFICES ASSUME IndInv, PromiseInv, FinalisedAlone, [Next]_vars PROVE PromiseInv'
    OBVIOUS
<1>1. \A p \in Process : UpToDate(p)'
    BY WaitingUpToDate, ActingUpToDate
<1>t. /\ sub \in [Student -> Row] /\ ans \in [Student -> AnswerRow] /\ None \notin Answers
      /\ accepted \in [Student -> [value : Sheet, at : Nat]]
    BY SetsAssumption DEF IndInv, TypeOK
<1> DEFINE Kept(s) ==
        /\ ans'[s].value = accepted'[s].value
        /\ ans'[s].marked # None => Objective /\ ans'[s].value # None
        /\ sub'[s].status \in Finalized => sub'[s].total = IF Objective THEN ans'[s].value ELSE None
<1>2. ASSUME NEW s \in Student PROVE Kept(s)
    <2>1. /\ ans[s].value = accepted[s].value
          /\ ans[s].marked # None => Objective /\ ans[s].value # None
          /\ sub[s].status \in Finalized => sub[s].total = Worth(s)
        BY DEF PromiseInv, AcceptedKept, MarksFit, ScoredRight
    <2>2. CASE UNCHANGED <<sub, ans, accepted>>
        BY <2>1, <2>2 DEF Worth
    <2>3. ASSUME NEW p \in Process, Acts(p), s # proc[p].student PROVE Kept(s)
        BY <2>1, <2>3, OtherStudents DEF Worth
    <2>4. ASSUME NEW p \in Process, Acts(p), s = proc[p].student PROVE Kept(s)
        <3>1. ASSUME NEW value \in Answers, NEW marked \in Sheet, Accepts(p, value, marked) PROVE Kept(s)
            <4>1. ans'[s] = [value |-> value, marked |-> marked] /\ accepted'[s].value = value
                BY <2>4, <3>1, <1>t DEF Accepts, Store
            <4>2. sub'[s].status \notin Finalized
                BY <2>4, <3>1 DEF Accepts, Writable, Finalized
            <4>3. marked # None => Objective
                BY <3>1 DEF Accepts
            <4> QED
                BY <4>1, <4>2, <4>3, <1>t
        <3>2. CASE Marks(p)
            <4>1. /\ ans'[s] = [value |-> ans[s].value, marked |-> ans[s].value] /\ Objective
                  /\ ans[s].value # None /\ UNCHANGED <<sub, accepted>>
                BY <2>4, <3>2, <1>t DEF Marks
            <4> QED
                BY <4>1, <2>1 DEF Worth
        <3>3. CASE Scores(p)
            <4>1. sub'[s].status = sub[s].status /\ sub'[s].total = Worth(s) /\ UNCHANGED <<ans, accepted>>
                BY <2>4, <3>3, <1>t DEF Scores, Row
            <4> QED
                BY <4>1, <2>1 DEF Worth
        <3>4. CASE Claims(p)
            <4>1. sub'[s].total = Worth(s) /\ UNCHANGED <<ans, accepted>>
                BY <2>4, <3>4, <1>t DEF Claims, Row
            <4> QED
                BY <4>1, <2>1 DEF Worth
        <3>5. CASE Inserts(p)
            BY <2>1, <2>4, <3>5, <1>t DEF Inserts, Finalized
        <3> QED
            BY <2>4, <3>1, <3>2, <3>3, <3>4, <3>5 DEF Acts
    <2> QED
        BY <2>2, <2>3, <2>4, PromiseEffects
<1> QED
    BY <1>1, <1>2 DEF PromiseInv, AcceptedKept, MarksFit, ScoredRight, Worth

(* Nothing is stored, accepted or loaded at first. *)
LEMMA PromiseInit == Init => PromiseInv
<1> SUFFICES ASSUME Init PROVE PromiseInv
    OBVIOUS
<1>1. \A p \in Process : proc[p] = Idle
    BY DEF Init
<1>2. \A p \in Process : UpToDate(p)
    BY <1>1 DEF UpToDate, Idle, HoldsRow, Starting
<1>3. \A s \in Student : sub[s] = NoRow /\ ans[s] = NoAnswer /\ accepted[s].value = None
    BY DEF Init
<1> QED
    BY <1>2, <1>3 DEF PromiseInv, AcceptedKept, MarksFit, ScoredRight, NoRow, NoAnswer, Finalized

(* What students and teachers see of the attempts. *)
Phases == [s \in Student |-> sub[s].status]
Sheets == [s \in Student |-> accepted[s].value]
Scoring == [s \in Student |-> IF sub[s].status \in Finalized THEN sub[s].total ELSE None]

(* The promise, in the terms of the attempts. *)
LEMMA PromiseTerms ==
    /\ Promise!Init <=> /\ Phases = [s \in Student |-> "NONE"] /\ Sheets = [s \in Student |-> None]
                        /\ Scoring = [s \in Student |-> None]
    /\ \A s : Promise!Start(s) <=>
          /\ Phases[s] = "NONE"
          /\ Cap > 0 => Cardinality({t \in Student : Phases[t] # "NONE"}) < Cap
          /\ Phases' = [Phases EXCEPT ![s] = "IN_PROGRESS"]
          /\ Sheets' = Sheets /\ Scoring' = Scoring
    /\ \A s : Promise!Accept(s) <=>
          /\ Phases[s] = "IN_PROGRESS"
          /\ \E value \in Answers : Sheets' = [Sheets EXCEPT ![s] = value]
          /\ Phases' = Phases /\ Scoring' = Scoring
    /\ \A s : Promise!Finalise(s) <=>
          /\ Phases[s] = "IN_PROGRESS"
          /\ \E status \in Finalized : Phases' = [Phases EXCEPT ![s] = status]
          /\ Scoring' = [Scoring EXCEPT ![s] = IF Objective THEN Sheets[s] ELSE None]
          /\ Sheets' = Sheets
    /\ Promise!Next <=> \E s \in Student : Promise!Start(s) \/ Promise!Accept(s) \/ Promise!Finalise(s)
<1>1. Promise!Init <=> /\ Phases = [s \in Student |-> "NONE"] /\ Sheets = [s \in Student |-> None]
                       /\ Scoring = [s \in Student |-> None]
    BY DEF Promise!Init, Phases, Sheets, Scoring
<1>2. \A s : Promise!Start(s) <=>
          /\ Phases[s] = "NONE"
          /\ Cap > 0 => Cardinality({t \in Student : Phases[t] # "NONE"}) < Cap
          /\ Phases' = [Phases EXCEPT ![s] = "IN_PROGRESS"]
          /\ Sheets' = Sheets /\ Scoring' = Scoring
    BY DEF Promise!Start, Promise!Cardinality, Cardinality, Phases, Sheets, Scoring
<1>3. \A s : Promise!Accept(s) <=>
          /\ Phases[s] = "IN_PROGRESS"
          /\ \E value \in Answers : Sheets' = [Sheets EXCEPT ![s] = value]
          /\ Phases' = Phases /\ Scoring' = Scoring
    BY DEF Promise!Accept, Phases, Sheets, Scoring
<1>4. \A s : Promise!Finalise(s) <=>
          /\ Phases[s] = "IN_PROGRESS"
          /\ \E status \in Finalized : Phases' = [Phases EXCEPT ![s] = status]
          /\ Scoring' = [Scoring EXCEPT ![s] = IF Objective THEN Sheets[s] ELSE None]
          /\ Sheets' = Sheets
    BY DEF Promise!Finalise, Promise!Finalized, Finalized, Phases, Sheets, Scoring
<1>5. Promise!Next <=> \E s \in Student : Promise!Start(s) \/ Promise!Accept(s) \/ Promise!Finalise(s)
    BY DEF Promise!Next
<1> QED
    BY <1>1, <1>2, <1>3, <1>4, <1>5

(* While attempts are finalised alone, every step starts an attempt, accepts a sheet,
   finalises with the score of the last accepted sheet, or does none of these. *)
LEMMA Mapping == IndInv /\ PromiseInv /\ [Next]_vars => [Promise!Next]_(Promise!vars)
<1> SUFFICES ASSUME IndInv, PromiseInv, [Next]_vars PROVE [Promise!Next]_(Promise!vars)
    OBVIOUS
<1>t. /\ sub \in [Student -> Row] /\ ans \in [Student -> AnswerRow]
      /\ accepted \in [Student -> [value : Sheet, at : Nat]]
    BY DEF IndInv, TypeOK
<1>v. \A s \in Student : ans[s].value = accepted[s].value
    BY DEF PromiseInv, AcceptedKept
<1>1. CASE UNCHANGED <<sub, ans, accepted>>
    BY <1>1 DEF Promise!vars
<1>2. ASSUME NEW p \in Process, Acts(p) PROVE [Promise!Next]_(Promise!vars)
    <2>s. PICK s \in Student : s = proc[p].student
        BY <1>2 DEF Acts
    <2>1. ASSUME NEW value \in Answers, NEW marked \in Sheet, Accepts(p, value, marked) PROVE Promise!Accept(s)
        <3>1. sub[s].status = "IN_PROGRESS" /\ sub' = sub
              /\ accepted' = [accepted EXCEPT ![s] = [value |-> value, at |-> now]]
            BY <2>s, <2>1 DEF Accepts, Store, Writable
        <3>2. Sheets' = [Sheets EXCEPT ![s] = value]
            BY <3>1, <1>t, <2>s DEF Sheets
        <3>3. Phases[s] = "IN_PROGRESS" /\ Phases' = Phases /\ Scoring' = Scoring
            BY <3>1, <2>s DEF Phases, Scoring
        <3> QED
            BY <3>2, <3>3, PromiseTerms
    <2>2. ASSUME Marks(p) PROVE UNCHANGED Promise!vars
        BY <2>2 DEF Marks, Promise!vars
    <2>3. ASSUME Scores(p) PROVE UNCHANGED Promise!vars
        <3>1. sub' = [sub EXCEPT ![s] = [sub[s] EXCEPT !.total = Worth(s)]] /\ UNCHANGED accepted
            BY <2>s, <2>3 DEF Scores
        <3>2. sub[s].status \in Finalized => sub[s].total = Worth(s)
            BY <2>s DEF PromiseInv, ScoredRight
        <3>3. \A x \in Student : sub'[x].status = sub[x].status
                                 /\ (sub[x].status \in Finalized => sub'[x].total = sub[x].total)
            BY <3>1, <3>2, <1>t, <2>s DEF Row
        <3>4. Phases' = Phases /\ Sheets' = Sheets
            BY <3>1, <3>3 DEF Phases, Sheets
        <3>5. Scoring' = Scoring
            BY <3>3 DEF Scoring
        <3> QED
            BY <3>4, <3>5 DEF Promise!vars, Phases, Sheets, Scoring
    <2>4. ASSUME Claims(p) PROVE Promise!Finalise(s)
        <3>0. PICK to \in Finalized : to = proc[p].to
            BY <2>4 DEF Claims
        <3>1. /\ sub[s].status = "IN_PROGRESS"
              /\ sub' = [sub EXCEPT ![s] = [sub[s] EXCEPT !.status = to, !.total = Worth(s)]]
              /\ UNCHANGED <<ans, accepted>>
            BY <2>s, <2>4, <3>0 DEF Claims
        <3>2. \A x \in Student : /\ sub'[x].status = IF x = s THEN to ELSE sub[x].status
                                 /\ sub'[x].total = IF x = s THEN Worth(s) ELSE sub[x].total
            BY <3>1, <1>t, <2>s DEF Row
        <3>3. Phases[s] = "IN_PROGRESS" /\ Phases' = [Phases EXCEPT ![s] = to]
            BY <3>1, <3>2, <2>s DEF Phases
        <3>4. Worth(s) = IF Objective THEN Sheets[s] ELSE None
            BY <1>v, <2>s DEF Worth, Sheets
        <3>5. \A x \in Student : Scoring'[x] = [Scoring EXCEPT ![s] = Worth(s)][x]
            BY <3>1, <3>2, <2>s DEF Scoring
        <3>6. Scoring' = [Scoring EXCEPT ![s] = Worth(s)]
            BY <3>5 DEF Scoring
        <3>7. Sheets' = Sheets
            BY <3>1 DEF Sheets
        <3> QED
            BY <3>1, <3>3, <3>4, <3>6, <3>7, PromiseTerms
    <2>5. ASSUME p \in Request, Inserts(p) PROVE Promise!Start(s)
        <3>1. /\ sub[s].status = "NONE" /\ proc[p].row.status = "IN_PROGRESS"
              /\ sub' = [sub EXCEPT ![s] = proc[p].row] /\ UNCHANGED <<ans, accepted>>
            BY <2>s, <2>5 DEF Inserts
        <3>2. Cap > 0 => Cardinality(Started) < Cap
            BY <2>5 DEF IndInv, RoomKept, Room, Inserts
        <3>3. {t \in Student : Phases[t] # "NONE"} = Started
            BY DEF Phases, Started
        <3>4. Phases[s] = "NONE" /\ Phases' = [Phases EXCEPT ![s] = "IN_PROGRESS"]
            BY <3>1, <1>t, <2>s DEF Phases
        <3>5. Sheets' = Sheets /\ Scoring' = Scoring
            BY <3>1, <1>t, <2>s DEF Sheets, Scoring, Finalized
        <3> QED
            BY <3>2, <3>3, <3>4, <3>5, PromiseTerms
    <2> QED
        BY <1>2, <2>s, <2>1, <2>2, <2>3, <2>4, <2>5, PromiseTerms DEF Acts
<1> QED
    BY <1>1, <1>2, PromiseEffects

(* The invariant of the promise, of every state of a behaviour in which attempts are
   finalised alone. *)
LEMMA PromiseInductive == Spec /\ []FinalisedAlone => []PromiseInv
<1>1. Init => PromiseInv
    BY PromiseInit
<1>2. IndInv /\ PromiseInv /\ FinalisedAlone /\ [Next]_vars => PromiseInv'
    BY PromiseStep
<1> QED
    BY <1>1, <1>2, Inductive, PTL DEF Spec

(* As long as nothing else works on an attempt that is being finalised, the stored answers
   are the last ones the student was told are saved (saveAnswer, saveAnswerSheet and
   finalizeAnswerSheet against the saves of whole rows in completeSubmission). *)
THEOREM AcceptedStays == Spec /\ []FinalisedAlone => []AcceptedKept
<1>1. PromiseInv => AcceptedKept
    BY DEF PromiseInv
<1> QED
    BY PromiseInductive, <1>1, PTL

(* And the total of a finalised attempt is that of the last accepted sheet. *)
THEOREM ScoredFairly == Spec /\ []FinalisedAlone => []FinalScored
<1>1. PromiseInv => FinalScored
    BY DEF PromiseInv, ScoredRight, AcceptedKept, FinalScored, Worth
<1> QED
    BY PromiseInductive, <1>1, PTL

(* And what is finalised stays so: no save of a stale row reopens it. *)
THEOREM FinalisedForGood == Spec /\ []FinalisedAlone => FinalizedOnce
<1>1. IndInv /\ PromiseInv /\ [Next]_vars =>
          [\A s \in Student : sub[s].status \in Finalized => sub'[s].status = sub[s].status]_vars
    <2> SUFFICES ASSUME IndInv, PromiseInv, [Next]_vars,
                        NEW s \in Student, sub[s].status \in Finalized
                 PROVE  sub'[s].status = sub[s].status
        OBVIOUS
    <2>t. sub \in [Student -> Row]
        BY DEF IndInv, TypeOK
    <2>1. ASSUME NEW p \in Process, Acts(p) PROVE sub'[s].status = sub[s].status
        <3>1. CASE s # proc[p].student
            BY <2>1, <3>1, OtherStudents
        <3>2. CASE s = proc[p].student
            <4>1. CASE Scores(p)
                BY <2>t, <3>2, <4>1 DEF Scores, Row
            <4> QED
                BY <2>1, <3>2, <4>1 DEF Acts, Accepts, Writable, Marks, Claims, Inserts, Finalized
        <3> QED
            BY <3>1, <3>2
    <2> QED
        BY <2>1, PromiseEffects
<1> QED
    BY <1>1, Inductive, PromiseInductive, PTL DEF Spec, FinalizedOnce

(* The handlers of student-exam.service.ts then implement AttemptPromise: one start while
   there is room, accepted sheets, one finalisation that scores the last of them. *)
THEOREM Implements == Spec /\ []FinalisedAlone => KeepsPromise
<1>1. Init => Promise!Init
    <2>1. ASSUME Init
          PROVE  /\ Phases = [s \in Student |-> "NONE"] /\ Sheets = [s \in Student |-> None]
                 /\ Scoring = [s \in Student |-> None]
        BY <2>1 DEF Init, NoRow, Phases, Sheets, Scoring, Finalized
    <2> QED
        BY <2>1, PromiseTerms
<1>2. IndInv /\ PromiseInv /\ [Next]_vars => [Promise!Next]_(Promise!vars)
    BY Mapping
<1> QED
    BY <1>1, <1>2, Inductive, PromiseInductive, PTL DEF Spec, KeepsPromise, Promise!Spec
=============================================================================
