-------------------------- MODULE AttendanceProofs --------------------------
(***************************************************************************)
(* Proofs about AttendanceDay, for any number of students, classes, leave  *)
(* requests and failures.  The types are an invariant by themselves; each  *)
(* safety property rests on an invariant of its own and on RecordSteps,    *)
(* which names the five kinds of step that touch a record.                 *)
(***************************************************************************)
EXTENDS AttendanceDay, TLAPS

(* Striking a class or a student off a list leaves the state of a run well-formed. *)
LEMMA RunFields ==
    ASSUME NEW x \in RunState, NEW S
    PROVE  /\ [x EXCEPT !.todo = @ \ S] \in RunState
           /\ [x EXCEPT !.absent = @ \ S] \in RunState
  BY DEF RunState

(* Every step keeps the types. *)
LEMMA DayTypeStep == ASSUME DayTypeOK, [DayNext]_dayVars PROVE DayTypeOK'
<1> USE DayAssumption
<1> USE DEF DayTypeOK, Class, Night, LeaveRequest, Run
<1>1. CASE TickDay
  BY <1>1 DEF TickDay, recordVars, officeVars, leaveVars, runVars
<1>2. CASE \E s \in Student : (\E c \in Class : CheckIn(s, c)) \/ SaveCheckIn(s) \/ DropCheckIn(s)
  <2> PICK s \in Student : (\E c \in Class : CheckIn(s, c)) \/ SaveCheckIn(s) \/ DropCheckIn(s)
    BY <1>2
  <2>1. CASE \E c \in Class : CheckIn(s, c)
    BY <2>1 DEF CheckIn, recordVars, officeVars, leaveVars, runVars
  <2>2. CASE SaveCheckIn(s)
    <3>1. arriving[s] \in Class
      BY <2>2 DEF SaveCheckIn
    <3>2. [status |-> "PRESENT", source |-> "SELF"] \in Record
      BY DEF Record
    <3> QED
      BY <2>2, <3>1, <3>2 DEF SaveCheckIn, Opened, officeVars, leaveVars, runVars
  <2>3. CASE DropCheckIn(s)
    BY <2>3 DEF DropCheckIn, recordVars, officeVars, leaveVars
  <2> QED
    BY <2>1, <2>2, <2>3
<1>3. CASE \E request \in OfficeRequest : AskOffice(request)
  BY <1>3 DEF AskOffice, recordVars, leaveVars, runVars
<1>4. CASE CancelClass \/ RestoreClass \/ CorrectRecord
  <2>1. office # NoOffice /\ office.class \in Class
    BY <1>4 DEF CancelClass, RestoreClass, CorrectRecord, OfficeRequest, NoOffice
  <2>2. CASE CancelClass
    BY <2>1, <2>2 DEF CancelClass, Opened, OfficeDone, leaveVars, runVars
  <2>3. CASE RestoreClass
    BY <2>1, <2>3 DEF RestoreClass, OfficeDone, leaveVars, runVars
  <2>4. CASE CorrectRecord
    <3>1. office.student \in Student /\ office.status \in {"PRESENT", "ABSENT"}
      BY <2>4 DEF CorrectRecord, OfficeRequest, NoOffice
    <3>2. [status |-> office.status, source |-> "CORRECTION"] \in Record
      BY <3>1 DEF Record
    <3> QED
      BY <2>1, <2>4, <3>1, <3>2 DEF CorrectRecord, Opened, OfficeDone, leaveVars, runVars
  <2> QED
    BY <1>4, <2>2, <2>3, <2>4
<1>5. CASE \E q \in LeaveRequest :
              \/ \E s \in Student : LookForOverlap(q, s)
              \/ \E atOnce \in BOOLEAN : SaveLeave(q, atOnce)
              \/ Approve(q) \/ Reject(q) \/ WithdrawLeave(q)
  <2> PICK q \in LeaveRequest :
              \/ \E s \in Student : LookForOverlap(q, s)
              \/ \E atOnce \in BOOLEAN : SaveLeave(q, atOnce)
              \/ Approve(q) \/ Reject(q) \/ WithdrawLeave(q)
    BY <1>5
  <2>1. ASSUME NEW s \in Student, Approved(s)
        PROVE record' \in [Student -> [Class -> Record]] /\ raced' \subseteq Student
    <3>1. [status |-> "LEAVE", source |-> "CORRECTION"] \in Record
      BY DEF Record
    <3> QED
      BY <2>1, <3>1 DEF Approved, AbsencesToLeave
  <2>2. ASSUME leave[q].status # "NONE", NEW st \in {"PENDING", "APPROVED", "CLOSED"},
               leave' = [leave EXCEPT ![q].status = st]
        PROVE leave' \in [LeaveRequest -> Leave \cup {NoLeave}] /\ leave[q].person \in Student
    <3>1. leave[q] \in Leave
      BY <2>2 DEF NoLeave
    <3>2. [leave[q] EXCEPT !.status = st] \in Leave
      BY <3>1 DEF Leave
    <3>3. leave' = [leave EXCEPT ![q] = [leave[q] EXCEPT !.status = st]]
      BY <2>2
    <3> HIDE DEF Leave
    <3>4. leave' \in [LeaveRequest -> Leave \cup {NoLeave}]
      BY <3>2, <3>3
    <3> QED
      BY <3>1, <3>4 DEF Leave
  <2>3. CASE \E s \in Student : LookForOverlap(q, s)
    BY <2>3 DEF LookForOverlap, LeaveStep, officeVars, runVars, Leave
  <2>4. CASE \E atOnce \in BOOLEAN : SaveLeave(q, atOnce)
    <3>1. leave' \in [LeaveRequest -> Leave \cup {NoLeave}] /\ leave[q].person \in Student
      BY <2>4, <2>2 DEF SaveLeave
    <3>2. record' \in [Student -> [Class -> Record]] /\ raced' \subseteq Student
      BY <2>4, <2>1, <3>1 DEF SaveLeave
    <3>3. LeaveStep
      BY <2>4 DEF SaveLeave
    <3> QED
      BY <3>1, <3>2, <3>3 DEF LeaveStep, officeVars, runVars
  <2>5. CASE Approve(q)
    <3>1. leave' \in [LeaveRequest -> Leave \cup {NoLeave}] /\ leave[q].person \in Student
      BY <2>5, <2>2 DEF Approve
    <3>2. record' \in [Student -> [Class -> Record]] /\ raced' \subseteq Student
      BY <2>5, <2>1, <3>1 DEF Approve
    <3>3. LeaveStep
      BY <2>5 DEF Approve
    <3> QED
      BY <3>1, <3>2, <3>3 DEF LeaveStep, officeVars, runVars
  <2>6. CASE Reject(q) \/ WithdrawLeave(q)
    BY <2>6, <2>2 DEF Reject, WithdrawLeave, LeaveStep, officeVars, runVars
  <2> QED
    BY <2>3, <2>4, <2>5, <2>6
<1>6. CASE \E r \in Run : RunGoesOn(r) \/ AbortRun(r)
  <2> PICK r \in Run : RunGoesOn(r) \/ AbortRun(r)
    BY <1>6
  <2> USE DEF RunStep, officeVars, leaveVars
  <2>0. Resting \in RunState
    BY DEF Resting, RunState
  <2>1. CASE \E c \in Class : CloseSession(r, c)
    <3> PICK c \in Class : CloseSession(r, c)
      BY <2>1
    <3>1. \A s \in Student : AutoAbsent(r, s) \in Record
      BY DEF AutoAbsent, Record
    <3>2. run' \in [Run -> RunState]
      <4>1. run' = [run EXCEPT ![r] = [run[r] EXCEPT !.todo = @ \ {c}]]
        BY <2>1 DEF CloseSession
      <4> QED
        BY <4>1, RunFields
    <3>3. session' \in [Class -> {"NONE", "SCHEDULED", "CLOSED", "CANCELLED"}]
      BY DEF CloseSession, recordVars
    <3>4. record' \in [Student -> [Class -> Record]]
      <4>1. CASE Opened(c) = "SCHEDULED"
        <5>1. record' = [s \in Student |-> [record[s] EXCEPT ![c] =
                            IF @ = NoRecord THEN AutoAbsent(r, s) ELSE @]]
          BY <4>1 DEF CloseSession
        <5> QED
          BY <3>1, <5>1
      <4> QED
        BY <4>1 DEF CloseSession, recordVars
    <3> QED
      BY <3>2, <3>3, <3>4 DEF CloseSession
  <2>2. CASE \E s \in Student : TellGuardians(r, s)
    <3> PICK s \in Student : TellGuardians(r, s)
      BY <2>2
    <3>1. run' = [run EXCEPT ![r] = [run[r] EXCEPT !.absent = @ \ {s}]]
      BY DEF TellGuardians
    <3>2. run' \in [Run -> RunState]
      BY <3>1, RunFields
    <3> QED
      BY <3>2 DEF TellGuardians, recordVars
  <2>3. CASE StartRun(r)
    BY <2>3 DEF StartRun, recordVars, RunState
  <2>4. CASE EndRun(r)
    <3>1. [Resting EXCEPT !.pc = "tell", !.absent = AbsentAllDay] \in RunState
      BY DEF Resting, RunState, AbsentAllDay
    <3> QED
      BY <2>4, <2>0, <3>1 DEF EndRun, recordVars
  <2>5. CASE RestRun(r)
    BY <2>5, <2>0 DEF RestRun, recordVars
  <2>6. CASE AbortRun(r)
    BY <2>6, <2>0 DEF AbortRun, recordVars
  <2> QED
    BY <2>1, <2>2, <2>3, <2>4, <2>5, <2>6 DEF RunGoesOn
<1>7. CASE UNCHANGED dayVars
  BY <1>7 DEF dayVars, recordVars, officeVars, leaveVars, runVars
<1> QED
  BY <1>1, <1>2, <1>3, <1>4, <1>5, <1>6, <1>7 DEF DayNext

(* The state of a school day stays well-formed, whoever acts and fails. *)
THEOREM DayTypeCorrect == DaySpec => []DayTypeOK
<1>1. DayInit => DayTypeOK
  BY DayAssumption DEF DayInit, DayTypeOK, Class, Night, LeaveRequest, Run, Record, NoRecord, RunState, Resting
<1> QED
  BY <1>1, DayTypeStep, PTL DEF DaySpec
-----------------------------------------------------------------------------
(* A request that is being made, is pending or is approved; a person has one of
   these, which is OneLeave and the requests inside their transactions. *)
Waits(q) == leave[q] # NoLeave /\ leave[q].status # "CLOSED"
OneWaits == \A p, q \in LeaveRequest : Waits(p) /\ Waits(q) /\ leave[p].person = leave[q].person => p = q

(* The advisory lock keeps a second request out until the first is inserted. *)
LEMMA OneWaitsStep == ASSUME DayTypeOK, OneWaits, [DayNext]_dayVars PROVE OneWaits'
<1> USE DEF OneWaits, Waits
<1>0. \A q \in LeaveRequest : leave[q] = NoLeave \/ (leave[q] \in Leave /\ leave[q] # NoLeave)
  BY DEF DayTypeOK
<1>1. CASE leave' = leave
  BY <1>1
<1>2. CASE \E q \in LeaveRequest, s \in Student : LookForOverlap(q, s)
  <2> PICK q \in LeaveRequest, s \in Student : LookForOverlap(q, s)
    BY <1>2
  <2>1. leave[q] = NoLeave /\ leave' = [leave EXCEPT ![q] = [status |-> "LOOKED", person |-> s]]
    BY DEF LookForOverlap
  <2>2. \A p \in LeaveRequest : leave[p] # NoLeave /\ leave[p].person = s => leave[p].status = "CLOSED"
    BY <1>0 DEF LookForOverlap, Live, LeaveOf, Leave
  <2>3. leave \in [LeaveRequest -> Leave \cup {NoLeave}]
    BY DEF DayTypeOK
  <2> QED
    BY <2>1, <2>2, <2>3
<1>3. CASE \E q \in LeaveRequest : \E st \in {"PENDING", "APPROVED", "CLOSED"} :
             leave[q].status \in {"LOOKED", "PENDING", "APPROVED"} /\ leave' = [leave EXCEPT ![q].status = st]
  <2> PICK q \in LeaveRequest, st \in {"PENDING", "APPROVED", "CLOSED"} :
             leave[q].status \in {"LOOKED", "PENDING", "APPROVED"} /\ leave' = [leave EXCEPT ![q].status = st]
    BY <1>3
  <2>1. leave[q] \in Leave /\ Waits(q)
    BY <1>0 DEF NoLeave
  <2>2. leave'[q].person = leave[q].person
    BY <2>1 DEF DayTypeOK, Leave
  <2>3. \A p \in LeaveRequest : p # q => leave'[p] = leave[p]
    BY DEF DayTypeOK
  <2> QED
    BY <2>1, <2>2, <2>3
<1> QED
  BY <1>1, <1>2, <1>3, <1>0
  DEF DayNext, dayVars, leaveVars, TickDay, CheckIn, SaveCheckIn, DropCheckIn, AskOffice, OfficeDone, CancelClass,
      RestoreClass, CorrectRecord, SaveLeave, Approve, Reject, WithdrawLeave, RunGoesOn, RunStep, StartRun,
      CloseSession, EndRun, TellGuardians, RestRun, AbortRun

(* Concurrent leave requests of one person never both pass the overlap check. *)
THEOREM OneLeaveHolds == DaySpec => []OneLeave
<1>1. DayInit => DayTypeOK /\ OneWaits
  BY DayAssumption DEF DayInit, DayTypeOK, OneWaits, Waits, Class, Night, LeaveRequest, Run, Record, NoRecord,
                       RunState, Resting
<1>2. DayTypeOK /\ OneWaits => OneLeave
  BY DEF OneWaits, Waits, OneLeave, Live, LeaveOf
<1> QED
  BY <1>1, <1>2, DayTypeStep, OneWaitsStep, PTL DEF DaySpec

-----------------------------------------------------------------------------
(* The steps that can change a record, and those that can change a session without it. *)
LEMMA RecordSteps ==
    ASSUME [DayNext]_dayVars
    PROVE  \/ record' = record /\ (session' = session \/ CancelClass \/ RestoreClass)
           \/ \E s \in Student : SaveCheckIn(s)
           \/ CorrectRecord
           \/ \E q \in LeaveRequest : Approved(leave[q].person) /\ LeaveStep /\ leave' = [leave EXCEPT ![q].status = "APPROVED"]
           \/ \E r \in Run, c \in Class : CloseSession(r, c)
  BY DEF DayNext, dayVars, recordVars, TickDay, CheckIn, DropCheckIn, AskOffice, OfficeDone, CancelClass, RestoreClass,
         LookForOverlap, SaveLeave, LeaveStep, Approve, Reject, WithdrawLeave,
         RunGoesOn, StartRun, EndRun, TellGuardians, RestRun, AbortRun

(* Closing a class writes the records it does not find, and only of that class. *)
LEMMA ClosedRecords ==
    ASSUME DayTypeOK, NEW r \in Run, NEW d \in Class, CloseSession(r, d), NEW s \in Student, NEW c \in Class
    PROVE  \/ record'[s][c] = record[s][c]
           \/ record[s][c] = NoRecord /\ record'[s][c] = AutoAbsent(r, s) /\ c = d
<1>1. record[s] \in [Class -> Record]
  BY DEF DayTypeOK
<1>2. CASE record' = record
  BY <1>2
<1>3. CASE record' = [x \in Student |-> [record[x] EXCEPT ![d] = IF @ = NoRecord THEN AutoAbsent(r, x) ELSE @]]
  <2>1. record'[s] = [record[s] EXCEPT ![d] = IF @ = NoRecord THEN AutoAbsent(r, s) ELSE @]
    BY <1>3
  <2> QED
    BY <1>1, <2>1
<1> QED
  BY <1>2, <1>3 DEF CloseSession, recordVars

(* What a step may do to a record that says Present. *)
LEMMA PresenceStep ==
    ASSUME DayTypeOK, [DayNext]_dayVars, NEW s \in Student, NEW c \in Class, record[s][c].status = "PRESENT"
    PROVE  \/ record'[s][c] = record[s][c]
           \/ /\ office.op = "correct" /\ office.class = c /\ office.student = s
              /\ record'[s][c].source = "CORRECTION"
<1>0. record \in [Student -> [Class -> Record]] /\ record[s][c] # NoRecord
  BY DEF DayTypeOK, NoRecord
<1>1. CASE record' = record
  BY <1>1
<1>2. CASE \E x \in Student : SaveCheckIn(x)
  BY <1>0, <1>2 DEF SaveCheckIn
<1>3. CASE CorrectRecord
  BY <1>0, <1>3 DEF CorrectRecord
<1>4. CASE \E q \in LeaveRequest : Approved(leave[q].person)
  BY <1>0, <1>4 DEF Approved, AbsencesToLeave
<1>5. CASE \E r \in Run, d \in Class : CloseSession(r, d)
  BY <1>0, <1>5 DEF CloseSession, recordVars
<1> QED
  BY <1>1, <1>2, <1>3, <1>4, <1>5, RecordSteps

(* Check-ins stand: closing a class and approving leave never change one. *)
THEOREM PresenceHolds == DaySpec => PresenceStands
<1>1. DayTypeOK /\ [DayNext]_dayVars =>
      [\A s \in Student, c \in Class :
          record[s][c].status = "PRESENT" =>
              \/ record'[s][c] = record[s][c]
              \/ /\ office.op = "correct" /\ office.class = c /\ office.student = s
                 /\ record'[s][c].source = "CORRECTION"]_dayVars
  BY PresenceStep
<1> QED
  BY <1>1, DayTypeCorrect, PTL DEF DaySpec, PresenceStands

-----------------------------------------------------------------------------
(* RegisterComplete is inductive, given the types. *)
LEMMA RegisterStep == ASSUME DayTypeOK, RegisterComplete, [DayNext]_dayVars PROVE RegisterComplete'
<1> USE DEF RegisterComplete
<1>0. record \in [Student -> [Class -> Record]] /\ session \in [Class -> {"NONE", "SCHEDULED", "CLOSED", "CANCELLED"}]
  BY DEF DayTypeOK
<1>1. CASE record' = record /\ (session' = session \/ CancelClass \/ RestoreClass)
  BY <1>0, <1>1 DEF CancelClass, RestoreClass, Opened
<1>2. CASE \E x \in Student : SaveCheckIn(x)
  BY <1>0, <1>2 DEF SaveCheckIn, NoRecord, Opened
<1>3. CASE CorrectRecord
  BY <1>0, <1>3 DEF CorrectRecord, Opened, NoRecord
<1>4. CASE \E q \in LeaveRequest : Approved(leave[q].person) /\ LeaveStep
  BY <1>0, <1>4 DEF Approved, AbsencesToLeave, LeaveStep, NoRecord
<1>5. CASE \E r \in Run, d \in Class : CloseSession(r, d)
  BY <1>0, <1>5 DEF CloseSession, recordVars, AutoAbsent, NoRecord
<1> QED
  BY <1>1, <1>2, <1>3, <1>4, <1>5, RecordSteps

(* A closed class has every record, and the job wrote in closed classes only. *)
THEOREM RegisterHolds == DaySpec => []RegisterComplete
<1>1. DayInit => RegisterComplete
  <2> SUFFICES ASSUME DayInit, NEW c \in Class, NEW s \in Student
               PROVE  session[c] = "NONE" /\ record[s][c] = NoRecord
    BY DEF RegisterComplete, NoRecord
  <2> QED
    BY DEF DayInit
<1> QED
  BY <1>1, DayTypeCorrect, RegisterStep, PTL DEF DaySpec

-----------------------------------------------------------------------------
(* A check-in is present, until the office corrects it. *)
SelfPresent == \A s \in Student, c \in Class : record[s][c].source = "SELF" => record[s][c].status = "PRESENT"

(* Nobody checks in at night, and no class is cancelled or restored. *)
NightQuiet == hour = Night => /\ \A s \in Student : arriving[s] = 0
                              /\ office.op \notin {"cancel", "restore"}

(* The end-of-day job runs at night; between its runs it has no list. *)
Finishing ==
    /\ run["finish"].pc # "idle" => hour = Night
    /\ run["finish"].pc # "tell" => run["finish"].absent = {}
    /\ run["close"].absent = {}

MissedAll(s) == \A c \in Class : session[c] # "CANCELLED" => record[s][c].source # "SELF"
ToldOf == texted \cup run["finish"].absent
ToldRight == ToldOf # {} => hour = Night /\ \A s \in ToldOf : MissedAll(s)

ToldInv == SelfPresent /\ NightQuiet /\ Finishing /\ ToldRight

(* A check-in is inserted as Present, and a changed record is no check-in any more. *)
LEMMA SelfPresentStep == ASSUME DayTypeOK, SelfPresent, [DayNext]_dayVars PROVE SelfPresent'
<1> USE DEF SelfPresent
<1>0. record \in [Student -> [Class -> Record]]
  BY DEF DayTypeOK
<1>1. CASE record' = record
  BY <1>1
<1>2. CASE \E x \in Student : SaveCheckIn(x)
  BY <1>0, <1>2 DEF SaveCheckIn
<1>3. CASE CorrectRecord
  BY <1>0, <1>3 DEF CorrectRecord
<1>4. CASE \E q \in LeaveRequest : Approved(leave[q].person)
  BY <1>0, <1>4 DEF Approved, AbsencesToLeave
<1>5. CASE \E r \in Run, d \in Class : CloseSession(r, d)
  <2> PICK r \in Run, d \in Class : CloseSession(r, d)
    BY <1>5
  <2> SUFFICES ASSUME NEW s \in Student, NEW c \in Class
               PROVE  record'[s][c].source = "SELF" => record'[s][c].status = "PRESENT"
    OBVIOUS
  <2>1. record'[s][c] = record[s][c] \/ record'[s][c].source = "AUTO_ABSENT"
    <3>1. record'[s][c] = record[s][c] \/ record'[s][c] = AutoAbsent(r, s)
      BY ClosedRecords
    <3>2. AutoAbsent(r, s).source = "AUTO_ABSENT"
      BY DEF AutoAbsent
    <3> QED
      BY <3>1, <3>2
  <2> QED
    BY <2>1
<1> QED
  BY <1>1, <1>2, <1>3, <1>4, <1>5, RecordSteps

(* The day ends when the last requests are answered, and the night lasts. *)
LEMMA NightQuietStep == ASSUME DayTypeOK, NightQuiet, [DayNext]_dayVars PROVE NightQuiet' /\ (hour = Night => hour' = Night)
<1> USE DEF NightQuiet
<1>0. hour \in 0 .. Night /\ Classes \in Nat /\ arriving \in [Student -> 0 .. Classes]
  BY DayAssumption DEF DayTypeOK
<1>1. CASE TickDay
  BY <1>0, <1>1 DEF TickDay, NoOffice, Night, officeVars
<1>2. CASE \E s \in Student, c \in Class : CheckIn(s, c)
  BY <1>0, <1>2 DEF CheckIn, Class, Night, officeVars
<1>3. CASE \E s \in Student : SaveCheckIn(s) \/ DropCheckIn(s)
  BY <1>0, <1>3 DEF SaveCheckIn, DropCheckIn, officeVars
<1>4. CASE \E request \in OfficeRequest : AskOffice(request)
  <2> PICK request \in OfficeRequest : AskOffice(request)
    BY <1>4
  <2>1. request.class \in Class
    BY DEF OfficeRequest
  <2>2. hour = Night => Ended(request.class)
    BY <1>0, <2>1 DEF Ended, Class, Night
  <2>3. request.op \in {"cancel", "restore"} => ~Ended(request.class)
    BY DEF AskOffice
  <2> QED
    BY <2>2, <2>3 DEF AskOffice
<1>5. CASE office' = NoOffice /\ hour' = hour /\ arriving' = arriving
  BY <1>5 DEF NoOffice
<1>6. CASE UNCHANGED <<hour, office, arriving>>
  BY <1>6
<1> QED
  BY <1>1, <1>2, <1>3, <1>4, <1>5, <1>6
  DEF DayNext, dayVars, officeVars, OfficeDone, CancelClass, RestoreClass, CorrectRecord, LookForOverlap, LeaveStep,
      SaveLeave, Approve, Reject, WithdrawLeave, RunGoesOn, RunStep, StartRun,
      CloseSession, EndRun, TellGuardians, RestRun, AbortRun

(* The list of the end-of-day job comes from absentAllDay at night, and shrinks. *)
LEMMA FinishingStep ==
    ASSUME DayTypeOK, NightQuiet, Finishing, [DayNext]_dayVars
    PROVE  /\ Finishing'
           /\ \/ ToldOf' \subseteq ToldOf
              \/ EndRun("finish") /\ texted' = texted /\ run["finish"].absent = {} /\ run'["finish"].absent = AbsentAllDay
<1> USE DEF Finishing, ToldOf
<1>0. run \in [Run -> RunState] /\ Run = {"close", "finish"} /\ (hour = Night => hour' = Night)
  BY NightQuietStep DEF DayTypeOK, Run
<1>1. CASE UNCHANGED <<run, texted>>
  BY <1>0, <1>1
<1>2. CASE \E r \in Run, c \in Class : CloseSession(r, c)
  <2> PICK r \in Run, c \in Class : CloseSession(r, c)
    BY <1>2
  <2>1. run' = [run EXCEPT ![r] = [run[r] EXCEPT !.todo = @ \ {c}]] /\ texted' = texted
    BY DEF CloseSession
  <2>2. run'["finish"].absent = run["finish"].absent /\ run'["close"].absent = run["close"].absent
        /\ run'["finish"].pc = run["finish"].pc
    BY <1>0, <2>1 DEF RunState
  <2> QED
    BY <1>0, <2>1, <2>2
<1>3. CASE \E r \in Run, s \in Student : TellGuardians(r, s)
  <2> PICK r \in Run, s \in Student : TellGuardians(r, s)
    BY <1>3
  <2>1. r = "finish" /\ s \in run[r].absent /\ texted' = texted \cup {s}
        /\ run' = [run EXCEPT ![r] = [run[r] EXCEPT !.absent = @ \ {s}]]
    BY <1>0 DEF TellGuardians
  <2>2. run'["finish"].absent = run["finish"].absent \ {s} /\ run'["close"] = run["close"]
        /\ run'["finish"].pc = run["finish"].pc
    BY <1>0, <2>1 DEF RunState
  <2> QED
    BY <1>0, <2>1, <2>2
<1>4. CASE \E r \in Run : StartRun(r)
  BY <1>0, <1>4 DEF StartRun, RunState
<1>5. CASE \E r \in Run : EndRun(r)
  <2> PICK r \in Run : EndRun(r)
    BY <1>5
  <2>1. CASE r = "finish"
    <3>1. [Resting EXCEPT !.pc = "tell", !.absent = AbsentAllDay].absent = AbsentAllDay
          /\ [Resting EXCEPT !.pc = "tell", !.absent = AbsentAllDay].pc = "tell"
      BY DEF Resting
    <3> QED
      BY <1>0, <2>1, <3>1 DEF EndRun
  <2>2. CASE r = "close"
    BY <1>0, <2>2 DEF EndRun, Resting
  <2> QED
    BY <1>0, <2>1, <2>2
<1>6. CASE \E r \in Run : RestRun(r) \/ AbortRun(r)
  BY <1>0, <1>6 DEF RestRun, AbortRun, Resting, RunState
<1> QED
  BY <1>1, <1>2, <1>3, <1>4, <1>5, <1>6
  DEF DayNext, dayVars, runVars, TickDay, CheckIn, SaveCheckIn, DropCheckIn, AskOffice, OfficeDone, CancelClass,
      RestoreClass, CorrectRecord, LookForOverlap, LeaveStep, SaveLeave, Approve, Reject, WithdrawLeave, RunGoesOn

(* At night, who has missed every class that was held goes on having missed them. *)
LEMMA MissedAllStep ==
    ASSUME DayTypeOK, NightQuiet, [DayNext]_dayVars, hour = Night, NEW s \in Student, MissedAll(s)
    PROVE  MissedAll(s)'
<1> USE DEF MissedAll
<1>0. /\ record \in [Student -> [Class -> Record]]
      /\ session \in [Class -> {"NONE", "SCHEDULED", "CLOSED", "CANCELLED"}]
  BY DEF DayTypeOK
<1>1. CASE record' = record /\ session' = session
  BY <1>1
<1>2. CASE CancelClass \/ RestoreClass \/ \E x \in Student : SaveCheckIn(x)
  BY <1>2 DEF CancelClass, RestoreClass, SaveCheckIn, NightQuiet
<1>3. CASE CorrectRecord
  BY <1>0, <1>3 DEF CorrectRecord, Opened
<1>4. CASE \E q \in LeaveRequest : Approved(leave[q].person) /\ LeaveStep
  BY <1>0, <1>4 DEF Approved, AbsencesToLeave, LeaveStep
<1>5. CASE \E r \in Run, d \in Class : CloseSession(r, d)
  BY <1>0, <1>5 DEF CloseSession, recordVars, AutoAbsent, Opened
<1> QED
  BY <1>1, <1>2, <1>3, <1>4, <1>5, RecordSteps

(* So whoever is told of an absence was absent when the list was made, and still is. *)
LEMMA ToldRightStep ==
    ASSUME DayTypeOK, SelfPresent, NightQuiet, Finishing, ToldRight, [DayNext]_dayVars
    PROVE  ToldRight'
<1>0. texted \subseteq Student /\ run["finish"].absent \subseteq Student
  BY DEF DayTypeOK, Run, RunState
<1>1. CASE ToldOf' \subseteq ToldOf
  BY <1>0, <1>1, MissedAllStep, NightQuietStep DEF ToldRight, ToldOf
<1>2. CASE /\ EndRun("finish") /\ texted' = texted
           /\ run["finish"].absent = {} /\ run'["finish"].absent = AbsentAllDay
  <2>1. hour = Night /\ hour' = hour /\ record' = record /\ session' = session
    BY <1>2 DEF EndRun, RunStep, recordVars, Finishing
  <2>2. \A s \in AbsentAllDay : MissedAll(s)
    BY DEF AbsentAllDay, Marks, MissedAll, SelfPresent
  <2>3. \A s \in ToldOf' : MissedAll(s)
    BY <1>2, <2>2 DEF ToldOf, ToldRight
  <2> QED
    BY <2>1, <2>3 DEF ToldRight, MissedAll
<1> QED
  BY <1>1, <1>2, FinishingStep

(* Guardians are told only of students who checked in to no class that was held. *)
THEOREM ToldHolds == DaySpec => []ToldMissedAll
<1>1. DayInit => ToldInv
  <2> SUFFICES ASSUME DayInit PROVE ToldInv
    OBVIOUS
  <2>1. SelfPresent
    <3> SUFFICES ASSUME NEW c \in Class, NEW s \in Student PROVE record[s][c] = NoRecord
      BY DEF SelfPresent, NoRecord
    <3> QED
      BY DEF DayInit
  <2>2. NightQuiet /\ Finishing /\ ToldOf = {}
    BY DayAssumption DEF DayInit, NightQuiet, Finishing, ToldOf, Night, Run, Resting
  <2> QED
    BY <2>1, <2>2 DEF ToldInv, ToldRight
<1>2. ToldInv => ToldMissedAll
  BY DEF ToldInv, ToldRight, ToldOf, MissedAll, ToldMissedAll
<1>3. ToldInv /\ DayTypeOK /\ [DayNext]_dayVars => ToldInv'
  BY SelfPresentStep, NightQuietStep, FinishingStep, ToldRightStep DEF ToldInv
<1> QED
  BY <1>1, <1>2, <1>3, DayTypeCorrect, PTL DEF DaySpec

-----------------------------------------------------------------------------
(* Who is on leave changes by an approval, which corrects the records, or before the day. *)
LEMMA OnLeaveStep ==
    ASSUME DayTypeOK, [DayNext]_dayVars, NEW s \in Student
    PROVE  \/ OnLeave(s)' = OnLeave(s)
           \/ hour = 0 /\ UNCHANGED <<hour, record, run, raced>>
           \/ OnLeave(s)' /\ Approved(s) /\ LeaveStep
<1>0. /\ leave \in [LeaveRequest -> Leave \cup {NoLeave}]
      /\ \A q \in LeaveRequest : leave[q].status # "NONE" => leave[q] \in Leave /\ leave[q] # NoLeave
      /\ \A q \in LeaveRequest : leave[q] # NoLeave => leave[q] \in Leave
  BY DEF DayTypeOK, NoLeave, Leave
<1>1. CASE leave' = leave
  BY <1>1 DEF OnLeave, LeaveOf
<1>2. CASE \E q \in LeaveRequest, p \in Student :
              leave[q] = NoLeave /\ leave' = [leave EXCEPT ![q] = [status |-> "LOOKED", person |-> p]]
  BY <1>0, <1>2 DEF OnLeave, LeaveOf, NoLeave
<1>3. ASSUME NEW q \in LeaveRequest, NEW st \in {"PENDING", "APPROVED", "CLOSED"},
             leave[q].status \in {"LOOKED", "PENDING", "APPROVED"}, leave' = [leave EXCEPT ![q].status = st]
      PROVE  /\ leave'[q].status = st /\ leave'[q].person = leave[q].person /\ leave'[q] # NoLeave /\ leave[q] # NoLeave
             /\ \A p \in LeaveRequest : p # q => leave'[p] = leave[p]
  <2>1. leave[q] \in Leave /\ leave[q] # NoLeave
    BY <1>0, <1>3
  <2> QED
    BY <1>0, <1>3, <2>1 DEF Leave, NoLeave
<1>4. CASE \E q \in LeaveRequest, st \in {"PENDING", "CLOSED"} :
              leave[q].status \in {"LOOKED", "PENDING"} /\ leave' = [leave EXCEPT ![q].status = st]
  <2> PICK q \in LeaveRequest, st \in {"PENDING", "CLOSED"} :
              leave[q].status \in {"LOOKED", "PENDING"} /\ leave' = [leave EXCEPT ![q].status = st]
    BY <1>4
  <2>1. OnLeave(s)' <=> OnLeave(s)
    BY <1>3 DEF OnLeave, LeaveOf
  <2> QED
    BY <2>1 DEF OnLeave
<1>5. CASE \E q \in LeaveRequest : leave[q].status \in {"LOOKED", "PENDING"} /\ leave' = [leave EXCEPT ![q].status = "APPROVED"]
                                  /\ Approved(leave[q].person) /\ LeaveStep
  <2> PICK q \in LeaveRequest : leave[q].status \in {"LOOKED", "PENDING"} /\ leave' = [leave EXCEPT ![q].status = "APPROVED"]
                              /\ Approved(leave[q].person) /\ LeaveStep
    BY <1>5
  <2>1. CASE leave[q].person = s
    BY <1>3, <2>1 DEF OnLeave, LeaveOf
  <2>2. CASE leave[q].person # s
    <3>1. OnLeave(s)' <=> OnLeave(s)
      BY <1>3, <2>2 DEF OnLeave, LeaveOf
    <3> QED
      BY <3>1 DEF OnLeave
  <2> QED
    BY <2>1, <2>2
<1>6. CASE hour = 0 /\ \E q \in LeaveRequest : WithdrawLeave(q)
  BY <1>6 DEF WithdrawLeave, LeaveStep, runVars
<1> QED
  BY <1>1, <1>2, <1>4, <1>5, <1>6
  DEF DayNext, dayVars, leaveVars, TickDay, CheckIn, SaveCheckIn, DropCheckIn, AskOffice, OfficeDone, CancelClass,
      RestoreClass, CorrectRecord, LookForOverlap, SaveLeave, Approve, Reject, WithdrawLeave, RunGoesOn, RunStep,
      StartRun, CloseSession, EndRun, TellGuardians, RestRun, AbortRun

(* Before the day no job runs, and none has written a record. *)
Early ==
    hour = 0 => /\ \A r \in Run : run[r].pc = "idle"
                /\ \A s \in Student, c \in Class : record[s][c].source # "AUTO_ABSENT"

(* A calendar in use misses only leave that was approved since it was read. *)
CalendarRight ==
    \A r \in Run, s \in Student :
        run[r].pc = "close" => /\ s \in run[r].calendar => OnLeave(s)
                               /\ OnLeave(s) => s \in run[r].calendar \cup raced

ExplainedInv == Early /\ CalendarRight /\ LeaveExplained

(* Where a record of the closing job comes from. *)
LEMMA RecordChange ==
    ASSUME DayTypeOK, [DayNext]_dayVars, NEW s \in Student, NEW c \in Class
    PROVE  \/ record'[s][c] = record[s][c]
           \/ record'[s][c].source # "AUTO_ABSENT"
           \/ \E r \in Run : run[r].pc = "close" /\ record'[s][c] = AutoAbsent(r, s) /\ UNCHANGED <<hour, leave, raced>>
<1>0. record \in [Student -> [Class -> Record]]
  BY DEF DayTypeOK
<1>1. CASE record' = record
  BY <1>1
<1>2. CASE \E x \in Student : SaveCheckIn(x)
  BY <1>0, <1>2 DEF SaveCheckIn
<1>3. CASE CorrectRecord
  BY <1>0, <1>3 DEF CorrectRecord
<1>4. CASE \E q \in LeaveRequest : Approved(leave[q].person)
  BY <1>0, <1>4 DEF Approved, AbsencesToLeave
<1>5. CASE \E r \in Run, d \in Class : CloseSession(r, d)
  <2> PICK r \in Run, d \in Class : CloseSession(r, d)
    BY <1>5
  <2>1. record'[s][c] = record[s][c] \/ record'[s][c] = AutoAbsent(r, s)
    BY ClosedRecords
  <2>2. run[r].pc = "close" /\ UNCHANGED <<hour, leave, raced>>
    BY DEF CloseSession, RunStep, leaveVars
  <2> QED
    BY <2>1, <2>2
<1> QED
  BY <1>1, <1>2, <1>3, <1>4, <1>5, RecordSteps

(* Where the calendar of a run comes from. *)
LEMMA RunChange ==
    ASSUME DayTypeOK, [DayNext]_dayVars, NEW r \in Run
    PROVE  \/ run'[r].pc = "idle"
           \/ run[r].pc # "idle" /\ (run'[r].pc = "close" => run[r].pc = "close" /\ run'[r].calendar = run[r].calendar)
           \/ /\ run'[r].calendar = {s \in Student : OnLeave(s)} /\ UNCHANGED <<hour, leave, raced>> /\ hour # 0
<1>0. run \in [Run -> RunState] /\ hour \in Nat /\ Classes \in Nat
  BY DayAssumption DEF DayTypeOK, Night
<1>1. CASE run' = run
  BY <1>0, <1>1
<1>2. CASE \E x \in Run, c \in Class : CloseSession(x, c)
  <2> PICK x \in Run, c \in Class : CloseSession(x, c)
    BY <1>2
  <2>1. run' = [run EXCEPT ![x] = [run[x] EXCEPT !.todo = @ \ {c}]]
    BY DEF CloseSession
  <2>2. run'[r].pc = run[r].pc /\ run'[r].calendar = run[r].calendar
    BY <1>0, <2>1 DEF RunState
  <2> QED
    BY <1>0, <2>2
<1>3. CASE \E x \in Run, s \in Student : TellGuardians(x, s)
  <2> PICK x \in Run, s \in Student : TellGuardians(x, s)
    BY <1>3
  <2>1. run' = [run EXCEPT ![x] = [run[x] EXCEPT !.absent = @ \ {s}]]
    BY DEF TellGuardians
  <2>2. run'[r].pc = run[r].pc /\ run'[r].calendar = run[r].calendar
    BY <1>0, <2>1 DEF RunState
  <2> QED
    BY <1>0, <2>2
<1>4. CASE \E x \in Run : StartRun(x)
  <2> PICK x \in Run : StartRun(x)
    BY <1>4
  <2>1. hour # 0
    BY <1>0 DEF StartRun, Ended, Night, Class
  <2>2. UNCHANGED <<hour, leave, raced>>
    BY DEF StartRun, RunStep, leaveVars
  <2>3. run'[r] = run[r] \/ run'[r].calendar = {s \in Student : OnLeave(s)}
    BY <1>0 DEF StartRun
  <2> QED
    BY <1>0, <2>1, <2>2, <2>3
<1>5. CASE \E x \in Run : EndRun(x)
  <2> PICK x \in Run : EndRun(x)
    BY <1>5
  <2>1. [Resting EXCEPT !.pc = "tell", !.absent = AbsentAllDay].pc = "tell" /\ Resting.pc = "idle"
    BY DEF Resting
  <2>2. run'[r] = run[r] \/ (r = x /\ run'[r].pc \in {"idle", "tell"})
    BY <1>0, <2>1 DEF EndRun
  <2> QED
    BY <1>0, <2>2 DEF EndRun
<1>6. CASE \E x \in Run : RestRun(x) \/ AbortRun(x)
  BY <1>0, <1>6 DEF RestRun, AbortRun, Resting
<1> QED
  BY <1>1, <1>2, <1>3, <1>4, <1>5, <1>6
  DEF DayNext, dayVars, runVars, TickDay, CheckIn, SaveCheckIn, DropCheckIn, AskOffice, OfficeDone, CancelClass,
      RestoreClass, CorrectRecord, LookForOverlap, LeaveStep, SaveLeave, Approve, Reject, WithdrawLeave, RunGoesOn

(* The history of late approvals only grows. *)
LEMMA RacedGrows == ASSUME [DayNext]_dayVars PROVE raced \subseteq raced'
  BY DEF DayNext, dayVars, leaveVars, TickDay, CheckIn, SaveCheckIn, DropCheckIn, AskOffice, OfficeDone, CancelClass,
      RestoreClass, CorrectRecord, LookForOverlap, SaveLeave, Approve, Reject, WithdrawLeave, Approved, RunGoesOn,
      RunStep, StartRun, CloseSession, EndRun, TellGuardians, RestRun, AbortRun

(* The time before the day does not come back. *)
LEMMA HourStep == ASSUME DayTypeOK, [DayNext]_dayVars PROVE hour' = 0 => hour = 0
<1>1. hour \in Nat /\ Classes \in Nat
  BY DayAssumption DEF DayTypeOK, Night
<1>2. TickDay \/ hour' = hour
  BY DEF DayNext, dayVars, CheckIn, SaveCheckIn, DropCheckIn, AskOffice, OfficeDone, CancelClass,
      RestoreClass, CorrectRecord, LookForOverlap, LeaveStep, SaveLeave, Approve, Reject, WithdrawLeave, RunGoesOn,
      RunStep, StartRun, CloseSession, EndRun, TellGuardians, RestRun, AbortRun
<1> QED
  BY <1>1, <1>2 DEF TickDay

(* An absence of somebody on leave is an approval that the closing run missed. *)
LEMMA ExplainedStep == ASSUME DayTypeOK, ExplainedInv, [DayNext]_dayVars PROVE ExplainedInv'
<1>1. Early'
  <2> SUFFICES ASSUME hour' = 0 PROVE Early'
    BY DEF Early
  <2>0. hour = 0 /\ Early
    BY HourStep DEF ExplainedInv
  <2>1. ASSUME NEW r \in Run PROVE run'[r].pc = "idle"
    BY <2>0, RunChange DEF Early
  <2>2. ASSUME NEW s \in Student, NEW c \in Class PROVE record'[s][c].source # "AUTO_ABSENT"
    BY <2>0, RecordChange DEF Early
  <2> QED
    BY <2>1, <2>2 DEF Early
<1>2. CalendarRight'
  <2> SUFFICES ASSUME NEW r \in Run, NEW s \in Student, run'[r].pc = "close"
               PROVE  /\ s \in run'[r].calendar => OnLeave(s)'
                      /\ OnLeave(s)' => s \in run'[r].calendar \cup raced'
    BY DEF CalendarRight
  <2>1. CASE run'[r].calendar = {x \in Student : OnLeave(x)} /\ UNCHANGED <<hour, leave, raced>>
    BY <2>1 DEF OnLeave, LeaveOf
  <2>2. CASE run[r].pc = "close" /\ run'[r].calendar = run[r].calendar
    <3>1. CASE OnLeave(s)' = OnLeave(s)
      BY <2>2, <3>1, RacedGrows DEF ExplainedInv, CalendarRight
    <3>2. CASE hour = 0
      BY <2>2, <3>2 DEF ExplainedInv, Early
    <3>3. CASE OnLeave(s)' /\ Approved(s)
      BY <2>2, <3>3 DEF Approved, Reading
    <3> QED
      BY <3>1, <3>2, <3>3, OnLeaveStep
  <2> QED
    BY <2>1, <2>2, RunChange
<1>3. LeaveExplained'
  <2> SUFFICES ASSUME NEW s \in Student, NEW c \in Class, record'[s][c].source = "AUTO_ABSENT"
               PROVE  /\ record'[s][c].status = "LEAVE" => OnLeave(s)'
                      /\ record'[s][c].status = "ABSENT" /\ OnLeave(s)' => s \in raced'
    BY DEF LeaveExplained
  <2>1. CASE record'[s][c] = record[s][c]
    <3>1. CASE OnLeave(s)' = OnLeave(s)
      BY <2>1, <3>1, RacedGrows DEF ExplainedInv, LeaveExplained
    <3>2. CASE hour = 0
      BY <2>1, <3>2 DEF ExplainedInv, Early
    <3>3. CASE OnLeave(s)' /\ Approved(s)
      <4>1. record \in [Student -> [Class -> Record]]
        BY DEF DayTypeOK
      <4> QED
        BY <2>1, <3>3, <4>1 DEF Approved, AbsencesToLeave
    <3> QED
      BY <3>1, <3>2, <3>3, OnLeaveStep
  <2>2. ASSUME NEW r \in Run, run[r].pc = "close", record'[s][c] = AutoAbsent(r, s), UNCHANGED <<hour, leave, raced>>
        PROVE  /\ record'[s][c].status = "LEAVE" => OnLeave(s)'
               /\ record'[s][c].status = "ABSENT" /\ OnLeave(s)' => s \in raced'
    <3>1. OnLeave(s)' = OnLeave(s)
      BY <2>2 DEF OnLeave, LeaveOf
    <3>2. record'[s][c].status = IF s \in run[r].calendar THEN "LEAVE" ELSE "ABSENT"
      BY <2>2 DEF AutoAbsent
    <3> QED
      BY <2>2, <3>1, <3>2 DEF ExplainedInv, CalendarRight
  <2> QED
    BY <2>1, <2>2, RecordChange
<1> QED
  BY <1>1, <1>2, <1>3 DEF ExplainedInv

(* The closing job saves Leave for those on leave, Absent only after a late approval. *)
THEOREM LeaveExplainedHolds == DaySpec => []LeaveExplained
<1>1. DayInit => ExplainedInv
  <2> SUFFICES ASSUME DayInit PROVE ExplainedInv
    OBVIOUS
  <2>1. \A r \in Run : run[r].pc = "idle"
    BY DEF DayInit, Resting
  <2>2. \A s \in Student, c \in Class : record[s][c].source # "AUTO_ABSENT"
    BY DEF DayInit, NoRecord
  <2> QED
    BY <2>1, <2>2 DEF ExplainedInv, Early, CalendarRight, LeaveExplained
<1>2. ExplainedInv => LeaveExplained
  BY DEF ExplainedInv
<1> QED
  BY <1>1, <1>2, DayTypeCorrect, ExplainedStep, PTL DEF DaySpec
=============================================================================
