----------------------------- MODULE Enrolments -----------------------------
(***************************************************************************)
(* The enrolments of one class in two sessions                             *)
(* (backend/src/academics/enrolments.service.ts): students are placed,     *)
(* claim invitations, are approved, leave and are promoted into the new    *)
(* session.  Requests save rows by their id, whatever these have become    *)
(* since they were read; a unique index keeps one row per student and      *)
(* session.                                                                *)
(***************************************************************************)
EXTENDS Naturals, FiniteSetsExt

CONSTANTS
    Pupil,          \* accounts that invitations may match
    Nobody,         \* student_id is NULL
    Clerk,          \* requests at the same time
    MaxRows,        \* bound: enrolments
    MaxCalls        \* bound: requests

ASSUME EnrolAssumption == {MaxRows, MaxCalls} \subseteq Nat /\ Nobody \notin Pupil

RowId == 1 .. MaxRows
Session == {"old", "new"}

VARIABLES
    rows,           \* enrolments
    clerk,          \* what each request has read and where it is
    calls           \* counted to bound the model

enrolVars == <<rows, clerk, calls>>

Current == {"INVITED", "PENDING", "ACTIVE"}
Enrolment == [session : Session, student : Pupil \cup {Nobody},
              status : Current \cup {"NONE", "LEFT", "PROMOTED"}]
NoEnrolment == [session |-> "old", student |-> Nobody, status |-> "NONE"]

(* row: what the request works on; found: the student's row that it found; 0 is none. *)
NoErrand == [op |-> "none", pc |-> "idle", row |-> 0, found |-> 0,
             student |-> Nobody, session |-> "old", status |-> "NONE"]
Errand == [op : {"place", "claim", "status", "promote"}, pc : {"find", "save"},
           row : 0 .. MaxRows, found : 0 .. MaxRows, student : Pupil \cup {Nobody},
           session : Session, status : {"NONE", "PENDING", "ACTIVE", "LEFT"}]

EnrolTypeOK ==
    /\ rows \in [RowId -> Enrolment]
    /\ clerk \in [Clerk -> Errand \cup {NoErrand}]
    /\ calls \in 0 .. MaxCalls

(* An invitation, and a student who has asked to join, is in the class or left it. *)
EnrolInit ==
    /\ \E s \in Pupil, status \in {"NONE", "PENDING", "ACTIVE", "LEFT"} :
          rows = [r \in RowId |->
                    CASE r = 1 -> [NoEnrolment EXCEPT !.status = "INVITED"]
                      [] r = 2 /\ status # "NONE" -> [session |-> "old", student |-> s, status |-> status]
                      [] OTHER -> NoEnrolment]
    /\ clerk = [k \in Clerk |-> NoErrand]
    /\ calls = 0

-----------------------------------------------------------------------------
Unused == {r \in RowId : rows[r].status = "NONE"}
RowsOf(session, s) ==
    {r \in RowId : rows[r].session = session /\ rows[r].student = s /\ rows[r].status # "NONE"}
RowOf(session, s) == IF RowsOf(session, s) = {} THEN 0 ELSE Min(RowsOf(session, s))

(* The unique index: a statement that breaks it fails, with its transaction. *)
OneRowEach(table) ==
    \A q, r \in RowId :
        table[q].student # Nobody /\ table[q].student = table[r].student
        /\ table[q].session = table[r].session => q = r
Save(k, table) ==
    /\ rows' = IF OneRowEach(table) THEN table ELSE rows
    /\ clerk' = [clerk EXCEPT ![k] = NoErrand]
    /\ UNCHANGED calls

Ask(k, call) ==
    /\ clerk[k] = NoErrand /\ calls < MaxCalls
    /\ clerk' = [clerk EXCEPT ![k] = call]
    /\ calls' = calls + 1
    /\ UNCHANGED rows

Insert(row) == [rows EXCEPT ![Min(Unused)] = row]

-----------------------------------------------------------------------------
(* place: a current row is refused, one that was left or promoted is reused. *)
Place(k, session, s, status) ==
    /\ RowOf(session, s) # 0 => rows[RowOf(session, s)].status \notin Current
    /\ Ask(k, [NoErrand EXCEPT !.op = "place", !.pc = "save", !.found = RowOf(session, s),
                             !.student = s, !.session = session, !.status = status])

SavePlace(k) ==
    LET call == clerk[k]
        row == [session |-> call.session, student |-> call.student, status |-> call.status] IN
    /\ call.op = "place"
    /\ IF call.found # 0 THEN Save(k, [rows EXCEPT ![call.found] = row])
                         ELSE Unused # {} /\ Save(k, Insert(row))

(* addToClass, enrol: an invitation is a row without a student. *)
Invite(session) ==
    /\ calls < MaxCalls /\ Unused # {}
    /\ rows' = Insert([session |-> session, student |-> Nobody, status |-> "INVITED"])
    /\ calls' = calls + 1
    /\ UNCHANGED clerk

(* An account that matches an invitation somebody has read ... *)
Claim(k, r, s) ==
    /\ rows[r].status = "INVITED"
    /\ Ask(k, [NoErrand EXCEPT !.op = "claim", !.pc = "find", !.row = r, !.student = s,
                             !.session = rows[r].session])

(* The row the student has in the errand's session, if any. *)
Own(k) == RowOf(clerk[k].session, clerk[k].student)
Found(k) == clerk' = [clerk EXCEPT ![k].pc = "save", ![k].found = Own(k)]

(* ... claimInvitation: has the student a row in the session? *)
FindOwn(k) ==
    /\ clerk[k].op = "claim" /\ clerk[k].pc = "find"
    /\ Found(k)
    /\ UNCHANGED <<rows, calls>>

(* The student's own row comes first, if there is one. *)
BugSaveClaim(k) ==      \* the invitation is put away last
    LET call == clerk[k] IN
    /\ call.op = "claim" /\ call.pc = "save"
    /\ Save(k, IF call.found = 0
               THEN [rows EXCEPT ![call.row].student = call.student, ![call.row].status = "ACTIVE"]
               ELSE [rows EXCEPT ![call.found].status = "ACTIVE", ![call.row].status = "LEFT"])

SaveClaim(k) ==
    LET call == clerk[k] IN
    /\ call.op = "claim" /\ call.pc = "save"
    /\ Save(k, IF call.found = 0
               THEN [rows EXCEPT ![call.row].student = call.student, ![call.row].status = "ACTIVE"]
               ELSE [rows EXCEPT ![call.row].status = "LEFT", ![call.found].status = "ACTIVE"])

(* approveStudent of a pending row, updateFromSection of a current one to LEFT *)
AskStatus(k, r, status) ==
    /\ rows[r].status \in IF status = "ACTIVE" THEN {"PENDING"} ELSE Current
    /\ Ask(k, [NoErrand EXCEPT !.op = "status", !.pc = "save", !.row = r, !.status = status])

SaveStatus(k) ==
    /\ clerk[k].op = "status"
    /\ Save(k, [rows EXCEPT ![clerk[k].row].status = clerk[k].status])

(* markLeft: a single statement *)
MarkLeft(r) ==
    /\ rows[r].status \in Current
    /\ rows' = [rows EXCEPT ![r].status = "LEFT"]
    /\ UNCHANGED <<clerk, calls>>

(* promote, into a section of the new session *)
Promote(k, r) ==
    /\ rows[r].session = "old" /\ rows[r].status = "ACTIVE" /\ rows[r].student # Nobody
    /\ Ask(k, [NoErrand EXCEPT !.op = "promote", !.pc = "find", !.row = r,
                             !.student = rows[r].student, !.session = "new"])

(* promote: a student who has a current row there is skipped, ALREADY_ENROLLED. *)
FindEnrolled(k) ==
    /\ clerk[k].op = "promote" /\ clerk[k].pc = "find"
    /\ IF Own(k) # 0 /\ rows[Own(k)].status \in Current
       THEN clerk' = [clerk EXCEPT ![k] = NoErrand]
       ELSE Found(k)
    /\ UNCHANGED <<rows, calls>>

SavePromotion(k) ==
    LET call == clerk[k]
        row == [session |-> "new", student |-> call.student, status |-> "ACTIVE"] IN
    /\ call.op = "promote" /\ call.pc = "save"
    /\ IF call.found # 0
       THEN Save(k, [rows EXCEPT ![call.found].status = "ACTIVE", ![call.row].status = "PROMOTED"])
       ELSE /\ Unused # {}
            /\ Save(k, [Insert(row) EXCEPT ![call.row].status = "PROMOTED"])

Forsake(k) ==
    /\ clerk[k] # NoErrand
    /\ clerk' = [clerk EXCEPT ![k] = NoErrand]
    /\ UNCHANGED <<rows, calls>>

EnrolNext ==
    \/ \E k \in Clerk :
          \/ \E session \in Session, s \in Pupil, status \in {"PENDING", "ACTIVE"} : Place(k, session, s, status)
          \/ \E r \in RowId :
                \/ \E s \in Pupil : Claim(k, r, s)
                \/ \E status \in {"ACTIVE", "LEFT"} : AskStatus(k, r, status)
                \/ Promote(k, r)
          \/ SavePlace(k) \/ FindOwn(k) \/ SaveClaim(k) \/ SaveStatus(k)
          \/ FindEnrolled(k) \/ SavePromotion(k) \/ Forsake(k)
    \/ \E r \in RowId : MarkLeft(r)
    \/ \E session \in Session : Invite(session)

-----------------------------------------------------------------------------
EnrolSpec == EnrolInit /\ [][EnrolNext]_enrolVars

-----------------------------------------------------------------------------
Saves(k, op) == clerk[k].op = op /\ clerk'[k] = NoErrand

(* A request for another student, or one whose student's row another has taken. *)
Mistaken(k, s) ==
    \/ clerk[k].student # s
    \/ clerk[k].found # 0 /\ rows[clerk[k].found].student # clerk[k].student

(* A student in the class stays in it until somebody removes them, or they are
   promoted and are in the new session: requests that are repeated or overlap do
   not end an enrolment, unless they mistake it for what it was when they read
   it, another student's or an old one to place the student in again. *)
EnrolmentStands ==
    [][\A r \in RowId :
          rows[r].status = "ACTIVE" /\ rows'[r] # rows[r] =>
              \/ rows'[r].status = "LEFT" /\ \A k \in Clerk : ~Saves(k, "claim") /\ ~Saves(k, "promote")
              \/ /\ rows'[r].status = "PROMOTED"
                 /\ \E t \in RowId : rows'[t] = [session |-> "new", student |-> rows[r].student, status |-> "ACTIVE"]
              \/ \E k \in Clerk : Saves(k, "place")
              \/ \E k \in Clerk : (Saves(k, "claim") \/ Saves(k, "promote")) /\ Mistaken(k, rows[r].student)]_enrolVars
=============================================================================
