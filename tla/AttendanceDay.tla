---------------------------- MODULE AttendanceDay ----------------------------
(***************************************************************************)
(* One school day of one section with self check-in (backend/src/          *)
(* attendance/): students check in, the office cancels, restores and       *)
(* corrects, leave is asked for and decided, and the worker closes the     *)
(* classes and reports who missed the whole day.  Class c meets in hour c; *)
(* hour 0 is before the day and hour Night its end (23:59).  Present and   *)
(* Late are one status here.                                               *)
(***************************************************************************)
EXTENDS Naturals

CONSTANTS
    Student,
    Classes,        \* how many classes the day has
    MaxLeave,       \* bound: leave requests
    MaxOffice,      \* bound: requests of the office
    MaxAborts       \* bound: runs and transactions that fail

ASSUME DayAssumption == {Classes, MaxLeave, MaxOffice, MaxAborts} \subseteq Nat

Class == 1 .. Classes
Night == Classes + 1
LeaveRequest == 1 .. MaxLeave    \* in the order they are made
Run == {"close", "finish"}       \* the closing job and the end-of-day job

VARIABLES
    hour,
    session,        \* class_sessions: status
    record,         \* class_attendance_records, by student and class
    arriving,       \* the class a student's check-in was let through for, 0 if none
    office,         \* the office's request between its checks and its transaction
    asked,          \* counted to bound the model
    leave,          \* leave_requests; LOOKED is a request still inside its transaction,
                    \* CLOSED stands for REJECTED and CANCELLED, which are treated alike
    raced,          \* history: students whose leave was approved while a run held an older calendar
    run,            \* what the run of each job has loaded and where it is
    texted,         \* students whose guardians were told of an absence
    aborts          \* counted to bound the model

recordVars == <<session, record>>
officeVars == <<office, asked>>
leaveVars == <<leave, raced>>
runVars == <<run, texted, aborts>>
dayVars == <<hour, recordVars, arriving, officeVars, leaveVars, runVars>>

NoRecord == [status |-> "NONE", source |-> "NONE"]
Record == [status : {"NONE", "PRESENT", "ABSENT", "LEAVE"},
           source : {"NONE", "SELF", "AUTO_ABSENT", "CORRECTION"}]

NoOffice == [op |-> "none", class |-> 0]
OfficeRequest ==
    [op : {"cancel", "restore"}, class : Class]
        \cup [op : {"correct"}, class : Class, student : Student, status : {"PRESENT", "ABSENT"}]

NoLeave == [status |-> "NONE"]
Leave == [status : {"LOOKED", "PENDING", "APPROVED", "CLOSED"}, person : Student]

(* todo: ended classes still to be closed; calendar: who is on approved
   leave; absent: whose guardians still have to be told. *)
Resting == [pc |-> "idle", todo |-> {}, calendar |-> {}, absent |-> {}]
RunState == [pc : {"idle", "close", "tell"}, todo : SUBSET Class,
             calendar : SUBSET Student, absent : SUBSET Student]

DayTypeOK ==
    /\ hour \in 0 .. Night
    /\ session \in [Class -> {"NONE", "SCHEDULED", "CLOSED", "CANCELLED"}]
    /\ record \in [Student -> [Class -> Record]]
    /\ arriving \in [Student -> 0 .. Classes]
    /\ office \in OfficeRequest \cup {NoOffice}
    /\ leave \in [LeaveRequest -> Leave \cup {NoLeave}]
    /\ raced \subseteq Student
    /\ run \in [Run -> RunState]
    /\ texted \subseteq Student
    /\ {asked, aborts} \subseteq Nat

DayInit ==
    /\ hour = 0
    /\ session = [c \in Class |-> "NONE"]
    /\ record = [s \in Student |-> [c \in Class |-> NoRecord]]
    /\ arriving = [s \in Student |-> 0]
    /\ office = NoOffice /\ asked = 0
    /\ leave = [q \in LeaveRequest |-> NoLeave] /\ raced = {}
    /\ run = [r \in Run |-> Resting] /\ texted = {} /\ aborts = 0

-----------------------------------------------------------------------------
Started(c) == hour >= c
Ended(c) == hour > c
Opened(c) == IF session[c] = "NONE" THEN "SCHEDULED" ELSE session[c]    \* ensureSession

(* The clock.  A request let through during a class is answered by the night. *)
TickDay ==
    /\ hour < Night
    /\ hour + 1 = Night => office = NoOffice /\ \A s \in Student : arriving[s] = 0
    /\ hour' = hour + 1
    /\ UNCHANGED <<recordVars, arriving, officeVars, leaveVars, runVars>>

-----------------------------------------------------------------------------
(* checkIn: status, window and record are looked at first ... *)
CheckIn(s, c) ==
    /\ arriving[s] = 0 /\ hour = c
    /\ session[c] # "CANCELLED" /\ record[s][c] = NoRecord
    /\ arriving' = [arriving EXCEPT ![s] = c]
    /\ UNCHANGED <<hour, recordVars, officeVars, leaveVars, runVars>>

(* ... and inserted unless there is a row by now. *)
SaveCheckIn(s) ==
    LET c == arriving[s] IN
    /\ c # 0
    /\ session' = [session EXCEPT ![c] = Opened(c)]
    /\ record' = IF record[s][c] = NoRecord
                 THEN [record EXCEPT ![s][c] = [status |-> "PRESENT", source |-> "SELF"]]
                 ELSE record
    /\ arriving' = [arriving EXCEPT ![s] = 0]
    /\ UNCHANGED <<hour, officeVars, leaveVars, runVars>>

(* The request dies, or is sent back for its position. *)
DropCheckIn(s) ==
    /\ arriving[s] # 0 /\ aborts < MaxAborts
    /\ arriving' = [arriving EXCEPT ![s] = 0] /\ aborts' = aborts + 1
    /\ UNCHANGED <<hour, recordVars, officeVars, leaveVars, run, texted>>

-----------------------------------------------------------------------------
(* What cancel, restore and correct check before their transaction. *)
AskOffice(request) ==
    LET c == request.class IN
    /\ office = NoOffice /\ asked < MaxOffice
    /\ CASE request.op = "cancel" -> session[c] # "CANCELLED" /\ ~Ended(c)
         [] request.op = "restore" -> session[c] = "CANCELLED" /\ ~Ended(c)
         [] request.op = "correct" -> session[c] # "CANCELLED" /\ Started(c)
    /\ office' = request /\ asked' = asked + 1
    /\ UNCHANGED <<hour, recordVars, arriving, leaveVars, runVars>>

OfficeDone == office' = NoOffice /\ UNCHANGED <<hour, asked, arriving, leaveVars, runVars>>

(* cancel, once it has the session's row lock *)
BugCancelClass ==       \* trusts what it read before the lock
    LET c == office.class IN
    /\ office.op = "cancel"
    /\ session' = [session EXCEPT ![c] = "CANCELLED"]
    /\ UNCHANGED record /\ OfficeDone

CancelClass ==
    LET c == office.class IN
    /\ office.op = "cancel"
    /\ session' = IF Opened(c) = "SCHEDULED" THEN [session EXCEPT ![c] = "CANCELLED"] ELSE session
    /\ UNCHANGED record /\ OfficeDone

(* restore, once it has the session's row lock *)
RestoreClass ==
    LET c == office.class IN
    /\ office.op = "restore"
    /\ session' = IF session[c] = "CANCELLED" THEN [session EXCEPT ![c] = "SCHEDULED"] ELSE session
    /\ UNCHANGED record /\ OfficeDone

(* correct, once it has the record's row lock; a record with this status is left alone *)
CorrectRecord ==
    LET c == office.class  s == office.student IN
    /\ office.op = "correct"
    /\ session' = [session EXCEPT ![c] = Opened(c)]
    /\ record' = IF record[s][c].status # office.status
                 THEN [record EXCEPT ![s][c] = [status |-> office.status, source |-> "CORRECTION"]]
                 ELSE record
    /\ OfficeDone

-----------------------------------------------------------------------------
LeaveOf(s) == {q \in LeaveRequest : leave[q] # NoLeave /\ leave[q].person = s}
Live(s) == {q \in LeaveOf(s) : leave[q].status \in {"PENDING", "APPROVED"}}
OnLeave(s) == \E q \in LeaveOf(s) : leave[q].status = "APPROVED"

(* absencesToLeave *)
AbsencesToLeave(s) ==
    record' = [record EXCEPT ![s] = [c \in Class |->
        IF record[s][c].status = "ABSENT" THEN [status |-> "LEAVE", source |-> "CORRECTION"]
                                          ELSE record[s][c]]]

Reading == {r \in Run : run[r].pc = "close"}
BugApproved(s) ==       \* leaves the absences that are saved already
    /\ UNCHANGED record
    /\ raced' = IF \E r \in Reading : s \notin run[r].calendar THEN raced \cup {s} ELSE raced

Approved(s) ==
    /\ AbsencesToLeave(s)
    /\ raced' = IF \E r \in Reading : s \notin run[r].calendar THEN raced \cup {s} ELSE raced

LeaveStep == UNCHANGED <<hour, session, arriving, officeVars, runVars>>

(* apply: under the person's advisory lock, no other live request *)
BugLookForOverlap(q, s) ==      \* without the lock
    /\ leave[q] = NoLeave /\ (q > 1 => leave[q - 1] # NoLeave) /\ Live(s) = {}
    /\ leave' = [leave EXCEPT ![q] = [status |-> "LOOKED", person |-> s]]
    /\ UNCHANGED <<record, raced>> /\ LeaveStep

LookForOverlap(q, s) ==
    /\ leave[q] = NoLeave /\ (q > 1 => leave[q - 1] # NoLeave) /\ Live(s) = {}
    /\ \A p \in LeaveOf(s) : leave[p].status # "LOOKED"
    /\ leave' = [leave EXCEPT ![q] = [status |-> "LOOKED", person |-> s]]
    /\ UNCHANGED <<record, raced>> /\ LeaveStep

(* apply: inserted, and approved at once when an approver asks for someone else *)
SaveLeave(q, atOnce) ==
    /\ leave[q].status = "LOOKED"
    /\ leave' = [leave EXCEPT ![q].status = IF atOnce THEN "APPROVED" ELSE "PENDING"]
    /\ IF atOnce THEN Approved(leave[q].person) ELSE UNCHANGED <<record, raced>>
    /\ LeaveStep

Approve(q) ==
    /\ leave[q].status = "PENDING"
    /\ leave' = [leave EXCEPT ![q].status = "APPROVED"]
    /\ Approved(leave[q].person)
    /\ LeaveStep

Reject(q) ==
    /\ leave[q].status = "PENDING"
    /\ leave' = [leave EXCEPT ![q].status = "CLOSED"]
    /\ UNCHANGED <<record, raced>> /\ LeaveStep

(* cancel: pending at any time, approved before its first day *)
WithdrawLeave(q) ==
    /\ leave[q].status = "PENDING" \/ (leave[q].status = "APPROVED" /\ hour = 0)
    /\ leave' = [leave EXCEPT ![q].status = "CLOSED"]
    /\ UNCHANGED <<record, raced>> /\ LeaveStep

-----------------------------------------------------------------------------
RunStep == UNCHANGED <<hour, arriving, officeVars, leaveVars>>

(* closeOrganization: the ended classes and the leave calendar are read once.
   The end-of-day job does the same first. *)
BugStartRun(r) ==       \* looks for the rows of the classes
    LET todo == {c \in Class : Ended(c) /\ session[c] = "SCHEDULED"} IN
    /\ run[r].pc = "idle"
    /\ IF r = "finish" THEN hour = Night ELSE todo # {}
    /\ run' = [run EXCEPT ![r] = [pc |-> "close", absent |-> {}, todo |-> todo,
                                  calendar |-> {s \in Student : OnLeave(s)}]]
    /\ UNCHANGED <<recordVars, texted, aborts>> /\ RunStep

StartRun(r) ==
    LET todo == {c \in Class : Ended(c) /\ Opened(c) = "SCHEDULED"} IN
    /\ run[r].pc = "idle"
    /\ IF r = "finish" THEN hour = Night ELSE todo # {}
    /\ run' = [run EXCEPT ![r] = [pc |-> "close", absent |-> {}, todo |-> todo,
                                  calendar |-> {s \in Student : OnLeave(s)}]]
    /\ UNCHANGED <<recordVars, texted, aborts>> /\ RunStep

AutoAbsent(r, s) ==
    [status |-> IF s \in run[r].calendar THEN "LEAVE" ELSE "ABSENT", source |-> "AUTO_ABSENT"]

(* closeSession: insert-or-ignore and CLOSED, in one transaction under the row lock *)
BugCloseSession(r, c) ==        \* overwrites the records it finds
    /\ run[r].pc = "close" /\ c \in run[r].todo
    /\ IF Opened(c) = "SCHEDULED"
       THEN /\ session' = [session EXCEPT ![c] = "CLOSED"]
            /\ record' = [s \in Student |-> [record[s] EXCEPT ![c] = AutoAbsent(r, s)]]
       ELSE UNCHANGED recordVars
    /\ run' = [run EXCEPT ![r].todo = @ \ {c}]
    /\ UNCHANGED <<texted, aborts>> /\ RunStep

CloseSession(r, c) ==
    /\ run[r].pc = "close" /\ c \in run[r].todo
    /\ IF Opened(c) = "SCHEDULED"
       THEN /\ session' = [session EXCEPT ![c] = "CLOSED"]
            /\ record' = [s \in Student |-> [record[s] EXCEPT ![c] =
                              IF @ = NoRecord THEN AutoAbsent(r, s) ELSE @]]
       ELSE UNCHANGED recordVars
    /\ run' = [run EXCEPT ![r].todo = @ \ {c}]
    /\ UNCHANGED <<texted, aborts>> /\ RunStep

(* absentAllDay: an Absent and nothing else, in classes that were held *)
Marks(s) == {record[s][c].status : c \in {d \in Class : session[d] # "CANCELLED"}} \ {"NONE"}
BugAbsentAllDay == {s \in Student : "ABSENT" \in Marks(s)}
AbsentAllDay == {s \in Student : Marks(s) = {"ABSENT"}}

EndRun(r) ==
    /\ run[r].pc = "close" /\ run[r].todo = {}
    /\ run' = [run EXCEPT ![r] = IF r = "finish"
                                 THEN [Resting EXCEPT !.pc = "tell", !.absent = AbsentAllDay]
                                 ELSE Resting]
    /\ UNCHANGED <<recordVars, texted, aborts>> /\ RunStep

(* sendAbsences: one message per student and day, by its dedupe key *)
TellGuardians(r, s) ==
    /\ s \in run[r].absent
    /\ texted' = texted \cup {s}
    /\ run' = [run EXCEPT ![r].absent = @ \ {s}]
    /\ UNCHANGED <<recordVars, aborts>> /\ RunStep

RestRun(r) ==
    /\ run[r].pc = "tell" /\ run[r].absent = {}
    /\ run' = [run EXCEPT ![r] = Resting]
    /\ UNCHANGED <<recordVars, texted, aborts>> /\ RunStep

(* An error or a crash ends the run; what it committed stays. *)
AbortRun(r) ==
    /\ run[r].pc # "idle" /\ aborts < MaxAborts
    /\ run' = [run EXCEPT ![r] = Resting] /\ aborts' = aborts + 1
    /\ UNCHANGED <<recordVars, texted>> /\ RunStep

-----------------------------------------------------------------------------
RunGoesOn(r) ==
    \/ \E c \in Class : CloseSession(r, c)
    \/ \E s \in Student : TellGuardians(r, s)
    \/ StartRun(r) \/ EndRun(r) \/ RestRun(r)

DayNext ==
    \/ TickDay
    \/ \E s \in Student : (\E c \in Class : CheckIn(s, c)) \/ SaveCheckIn(s) \/ DropCheckIn(s)
    \/ \E request \in OfficeRequest : AskOffice(request)
    \/ CancelClass \/ RestoreClass \/ CorrectRecord
    \/ \E q \in LeaveRequest :
          \/ \E s \in Student : LookForOverlap(q, s)
          \/ \E atOnce \in BOOLEAN : SaveLeave(q, atOnce)
          \/ Approve(q) \/ Reject(q) \/ WithdrawLeave(q)
    \/ \E r \in Run : RunGoesOn(r) \/ AbortRun(r)

DaySpec == DayInit /\ [][DayNext]_dayVars

-----------------------------------------------------------------------------
(* A closed class has a record of every student, and what the closing job
   wrote stands in closed classes only: not in one that the office cancelled. *)
RegisterComplete ==
    \A c \in Class, s \in Student :
        /\ session[c] = "CLOSED" => record[s][c] # NoRecord
        /\ record[s][c].source = "AUTO_ABSENT" => session[c] = "CLOSED"

(* "Check-ins stand": nothing but a correction of that very record changes a
   record that says Present, whoever closes the class or approves leave. *)
PresenceStands ==
    [][\A s \in Student, c \in Class :
          record[s][c].status = "PRESENT" =>
              \/ record'[s][c] = record[s][c]
              \/ /\ office.op = "correct" /\ office.class = c /\ office.student = s
                 /\ record'[s][c].source = "CORRECTION"]_dayVars

(* The closing job saves Leave for those on approved leave, and Absent for
   them only if the leave was approved between its reading and its writing. *)
LeaveExplained ==
    \A s \in Student, c \in Class :
        record[s][c].source = "AUTO_ABSENT" =>
            /\ record[s][c].status = "LEAVE" => OnLeave(s)
            /\ record[s][c].status = "ABSENT" /\ OnLeave(s) => s \in raced

(* Two requests at once cannot both pass the overlap check: a person has one
   pending or approved request for a day. *)
OneLeave == \A s \in Student : \A p, q \in Live(s) : p = q

(* Guardians are told of an absence only if the student checked in to no
   class of the day that was held. *)
ToldMissedAll ==
    \A s \in texted, c \in Class :
        session[c] # "CANCELLED" => record[s][c].source # "SELF"

(* A class that is over ends closed or cancelled, though runs overlap, fail and
   are repeated and the office changes its mind. *)
ClassesEnded == \A c \in Class : Ended(c) => session[c] \in {"CLOSED", "CANCELLED"}
=============================================================================
