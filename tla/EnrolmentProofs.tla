-------------------------- MODULE EnrolmentProofs --------------------------
(***************************************************************************)
(* Proofs about Enrolments, for any number of students, requests and rows: *)
(* what requests that save rows by id, on the word of what they once read, *)
(* leave of the students' places.                                          *)
(***************************************************************************)
EXTENDS Enrolments, SetLemmas

(* A row in use. *)
InUse(r) == rows[r].status # "NONE"

(* What a request has read is still true of the session and the use of its rows. *)
Reads(k) ==
    /\ clerk[k].op # "none" => clerk[k] \in Errand
    /\ clerk[k].op = "status" => clerk[k].status \in {"ACTIVE", "LEFT"}
    /\ clerk[k].op = "place" => clerk[k].status \in {"ACTIVE", "PENDING"}
    /\ clerk[k].op \in {"claim", "promote", "status"} => clerk[k].row \in RowId /\ InUse(clerk[k].row)
    /\ clerk[k].op \in {"claim", "promote", "place"} => clerk[k].student \in Pupil
    /\ clerk[k].op = "claim" => rows[clerk[k].row].session = clerk[k].session
    /\ clerk[k].op = "promote" => rows[clerk[k].row].session = "old" /\ clerk[k].session = "new"
    /\ clerk[k].found # 0 => InUse(clerk[k].found) /\ rows[clerk[k].found].session = clerk[k].session

EnrolShape == rows \in [RowId -> Enrolment] /\ clerk \in [Clerk -> Errand \cup {NoErrand}]

(* The inductive invariant: the types, the unique index, and what the requests have read. *)
EnrolInv == EnrolShape /\ OneRowEach(rows) /\ \A k \in Clerk : Reads(k)

(* A table that a request may write: rows in use stay in use and keep their session. *)
Keeps(table) ==
    /\ table \in [RowId -> Enrolment]
    /\ \A r \in RowId : InUse(r) => table[r].status # "NONE" /\ table[r].session = rows[r].session

(* Two rows with the same fields are the same. *)
LEMMA SameRow ==
    ASSUME NEW x \in Enrolment, NEW y \in Enrolment,
           x.session = y.session, x.student = y.student, x.status = y.status
    PROVE  x = y
  BY DEF Enrolment

(* An insertion uses a row that was unused. *)
LEMMA UnusedRow == ASSUME Unused # {} PROVE Min(Unused) \in RowId /\ ~InUse(Min(Unused))
<1>1. Unused \in SUBSET Nat
  BY EnrolAssumption DEF Unused, RowId
<1>2. Min(Unused) \in Unused
  BY <1>1, MinMember
<1> QED
  BY <1>2 DEF Unused, InUse

(* The row that a request finds is the student's, in that session. *)
LEMMA RowFound ==
    ASSUME NEW session, NEW s, RowOf(session, s) # 0
    PROVE  /\ RowOf(session, s) \in RowId /\ InUse(RowOf(session, s))
           /\ rows[RowOf(session, s)].session = session
<1>1. RowsOf(session, s) \in SUBSET Nat
  BY EnrolAssumption DEF RowsOf, RowId
<1>2. RowOf(session, s) \in RowsOf(session, s)
  BY <1>1, MinMember DEF RowOf
<1> QED
  BY <1>2 DEF RowsOf, InUse

(* What saving a placement, a status, a claim and a promotion may write. *)
Placed == Keeps(rows')
Decided(k) ==
    /\ Keeps(rows')
    /\ \A r \in RowId : rows'[r] # rows[r] => rows'[r].status = clerk[k].status /\ rows'[r].student = rows[r].student
Claimed(k) ==
    /\ Keeps(rows')
    /\ clerk[k].found = 0 =>
          /\ \A r \in RowId : r # clerk[k].row => rows'[r] = rows[r]
          /\ rows'[clerk[k].row].student = clerk[k].student /\ rows'[clerk[k].row].status = "ACTIVE"
    /\ clerk[k].found # 0 =>
          /\ \A r \in RowId : r # clerk[k].row /\ r # clerk[k].found => rows'[r] = rows[r]
          /\ rows'[clerk[k].found].status = "ACTIVE"
          /\ rows'[clerk[k].found].student = rows[clerk[k].found].student
Promoted(k) ==
    /\ Keeps(rows')
    /\ rows'[clerk[k].row].status = "PROMOTED"
    /\ \E t \in RowId : /\ t = clerk[k].found \/ (clerk[k].found = 0 /\ ~InUse(t) /\ rows'[t].student = clerk[k].student)
                        /\ rows'[t].status = "ACTIVE" /\ rows'[t].session = "new"
                        /\ clerk[k].found # 0 => rows'[t].student = rows[t].student
                        /\ \A r \in RowId : r # clerk[k].row /\ r # t => rows'[r] = rows[r]

(* A placement is inserted, or written over the row that was found. *)
LEMMA PlaceSaved ==
    ASSUME EnrolInv, NEW k \in Clerk, SavePlace(k)
    PROVE  rows' = rows \/ (OneRowEach(rows') /\ Placed)
<1> USE DEF EnrolInv, EnrolShape
<1> DEFINE row == [session |-> clerk[k].session, student |-> clerk[k].student, status |-> clerk[k].status]
<1>1. clerk[k] \in Errand /\ row \in Enrolment /\ row.status # "NONE" /\ row.session = clerk[k].session
  BY DEF SavePlace, Reads, Errand, Enrolment, Current
<1>2. CASE clerk[k].found # 0
  <2>1. rows' = (IF OneRowEach([rows EXCEPT ![clerk[k].found] = row]) THEN [rows EXCEPT ![clerk[k].found] = row] ELSE rows)
    BY <1>2 DEF Save, SavePlace
  <2>2. Keeps([rows EXCEPT ![clerk[k].found] = row])
    BY <1>1, <1>2 DEF Keeps, Reads, InUse
  <2> HIDE DEF row
  <2> QED
    BY <2>1, <2>2 DEF Placed
<1>3. CASE clerk[k].found = 0
  <2>1. rows' = (IF OneRowEach([rows EXCEPT ![Min(Unused)] = row]) THEN [rows EXCEPT ![Min(Unused)] = row] ELSE rows) /\ Unused # {}
    BY <1>3 DEF Save, SavePlace, Insert
  <2>2. PICK m \in RowId : m = Min(Unused) /\ ~InUse(m)
    BY <2>1, UnusedRow
  <2>3. Keeps([rows EXCEPT ![m] = row])
    BY <1>1, <2>2 DEF Keeps, InUse
  <2> HIDE DEF row
  <2> QED
    BY <2>1, <2>2, <2>3 DEF Placed
<1> QED
  BY <1>2, <1>3

(* A decision changes the status of its row, and no student. *)
LEMMA StatusSaved ==
    ASSUME EnrolInv, NEW k \in Clerk, SaveStatus(k)
    PROVE  rows' = rows \/ (OneRowEach(rows') /\ Decided(k))
<1> USE DEF EnrolInv, EnrolShape
<1> DEFINE y == [rows[clerk[k].row] EXCEPT !.status = clerk[k].status]
           table == [rows EXCEPT ![clerk[k].row] = y]
<1>1. clerk[k].row \in RowId /\ clerk[k].status \in {"ACTIVE", "LEFT"}
  BY DEF SaveStatus, Reads
<1>2. rows' = (IF OneRowEach(table) THEN table ELSE rows)
  BY DEF Save, SaveStatus
<1>3. /\ y \in Enrolment /\ y.status = clerk[k].status /\ y.session = rows[clerk[k].row].session
      /\ y.student = rows[clerk[k].row].student
  BY <1>1 DEF Enrolment, Current
<1> HIDE DEF y
<1>4. /\ Keeps(table)
      /\ \A r \in RowId : table[r] # rows[r] => table[r].status = clerk[k].status /\ table[r].student = rows[r].student
  BY <1>1, <1>3 DEF Keeps, InUse
<1> HIDE DEF table
<1> QED
  BY <1>2, <1>4 DEF Decided

(* A claim fills the invitation in, or puts it away and revives the student's own row. *)
LEMMA ClaimSaved ==
    ASSUME EnrolInv, NEW k \in Clerk, SaveClaim(k)
    PROVE  rows' = rows \/ (OneRowEach(rows') /\ Claimed(k))
<1> USE DEF EnrolInv, EnrolShape
<1>1. clerk[k].row \in RowId /\ InUse(clerk[k].row) /\ clerk[k].student \in Pupil /\ clerk[k] \in Errand
  BY DEF SaveClaim, Reads
<1>2. CASE clerk[k].found = 0
  <2> DEFINE y == [rows[clerk[k].row] EXCEPT !.student = clerk[k].student, !.status = "ACTIVE"]
             table == [rows EXCEPT ![clerk[k].row] = y]
  <2>1. rows' = (IF OneRowEach(table) THEN table ELSE rows)
    BY <1>1, <1>2 DEF Save, SaveClaim
  <2>2. y \in Enrolment /\ y.status = "ACTIVE" /\ y.session = rows[clerk[k].row].session /\ y.student = clerk[k].student
    BY <1>1 DEF Enrolment, Current
  <2> HIDE DEF y
  <2>3. /\ Keeps(table) /\ table[clerk[k].row] = y
        /\ \A r \in RowId : r # clerk[k].row => table[r] = rows[r]
    BY <1>1, <2>2 DEF Keeps, InUse
  <2> HIDE DEF table
  <2> QED
    BY <1>2, <2>1, <2>2, <2>3 DEF Claimed
<1>3. CASE clerk[k].found # 0
  <2>1. clerk[k].found \in RowId /\ InUse(clerk[k].found)
    BY <1>1, <1>3 DEF Reads, Errand, RowId
  <2> DEFINE x == [rows[clerk[k].row] EXCEPT !.status = "LEFT"]
             middle == [rows EXCEPT ![clerk[k].row] = x]
             y == [middle[clerk[k].found] EXCEPT !.status = "ACTIVE"]
             table == [middle EXCEPT ![clerk[k].found] = y]
  <2>2. rows' = (IF OneRowEach(table) THEN table ELSE rows)
    BY <1>3 DEF Save, SaveClaim
  <2>3. x \in Enrolment /\ x.status = "LEFT" /\ x.session = rows[clerk[k].row].session
        /\ x.student = rows[clerk[k].row].student
    BY <1>1 DEF Enrolment, Current
  <2> HIDE DEF x
  <2>4. /\ middle \in [RowId -> Enrolment] /\ middle[clerk[k].row] = x
        /\ \A r \in RowId : r # clerk[k].row => middle[r] = rows[r]
    BY <1>1, <2>3
  <2> HIDE DEF middle
  <2>5. y \in Enrolment /\ y.status = "ACTIVE" /\ y.session = middle[clerk[k].found].session
        /\ y.student = middle[clerk[k].found].student
    BY <2>1, <2>4 DEF Enrolment, Current
  <2> HIDE DEF y
  <2>6. /\ table \in [RowId -> Enrolment] /\ table[clerk[k].found] = y
        /\ \A r \in RowId : r # clerk[k].found => table[r] = middle[r]
    BY <2>1, <2>4, <2>5
  <2> HIDE DEF table
  <2>7. Keeps(table)
    BY <1>1, <2>1, <2>3, <2>4, <2>5, <2>6 DEF Keeps, InUse
  <2>8. /\ \A r \in RowId : r # clerk[k].row /\ r # clerk[k].found => table[r] = rows[r]
        /\ table[clerk[k].found].status = "ACTIVE" /\ table[clerk[k].found].student = rows[clerk[k].found].student
    BY <1>1, <2>1, <2>3, <2>4, <2>5, <2>6
  <2> QED
    BY <1>3, <2>2, <2>7, <2>8 DEF Claimed
<1> QED
  BY <1>2, <1>3

(* A promotion leaves the old row promoted and one in the new session active. *)
LEMMA PromotionSaved ==
    ASSUME EnrolInv, NEW k \in Clerk, SavePromotion(k)
    PROVE  rows' = rows \/ (OneRowEach(rows') /\ Promoted(k))
<1> USE DEF EnrolInv, EnrolShape
<1>1. /\ clerk[k].row \in RowId /\ InUse(clerk[k].row) /\ clerk[k].student \in Pupil /\ clerk[k] \in Errand
      /\ rows[clerk[k].row].session = "old"
  BY DEF SavePromotion, Reads
<1>2. CASE clerk[k].found # 0
  <2>1. clerk[k].found \in RowId /\ InUse(clerk[k].found) /\ rows[clerk[k].found].session = "new"
    BY <1>1, <1>2 DEF Reads, Errand, RowId, SavePromotion
  <2> DEFINE x == [rows[clerk[k].found] EXCEPT !.status = "ACTIVE"]
             middle == [rows EXCEPT ![clerk[k].found] = x]
             y == [middle[clerk[k].row] EXCEPT !.status = "PROMOTED"]
             table == [middle EXCEPT ![clerk[k].row] = y]
  <2>2. rows' = (IF OneRowEach(table) THEN table ELSE rows)
    BY <1>2 DEF Save, SavePromotion
  <2>3. x \in Enrolment /\ x.status = "ACTIVE" /\ x.session = "new" /\ x.student = rows[clerk[k].found].student
    BY <2>1 DEF Enrolment, Current
  <2> HIDE DEF x
  <2>4. /\ middle \in [RowId -> Enrolment] /\ middle[clerk[k].found] = x
        /\ \A r \in RowId : r # clerk[k].found => middle[r] = rows[r]
    BY <2>1, <2>3
  <2> HIDE DEF middle
  <2>5. y \in Enrolment /\ y.status = "PROMOTED" /\ y.session = middle[clerk[k].row].session
    BY <1>1, <2>4 DEF Enrolment, Current
  <2> HIDE DEF y
  <2>6. /\ table \in [RowId -> Enrolment] /\ table[clerk[k].row] = y
        /\ \A r \in RowId : r # clerk[k].row => table[r] = middle[r]
    BY <1>1, <2>4, <2>5
  <2> HIDE DEF table
  <2>7. clerk[k].row # clerk[k].found
    BY <1>1, <2>1
  <2>8. Keeps(table)
    BY <1>1, <2>1, <2>3, <2>4, <2>5, <2>6 DEF Keeps, InUse
  <2>9. /\ table[clerk[k].row].status = "PROMOTED"
        /\ table[clerk[k].found].status = "ACTIVE" /\ table[clerk[k].found].session = "new"
        /\ table[clerk[k].found].student = rows[clerk[k].found].student
        /\ \A r \in RowId : r # clerk[k].row /\ r # clerk[k].found => table[r] = rows[r]
    BY <2>1, <2>3, <2>4, <2>5, <2>6, <2>7
  <2> QED
    BY <1>2, <2>1, <2>2, <2>8, <2>9 DEF Promoted
<1>3. CASE clerk[k].found = 0
  <2>0. PICK m \in RowId : m = Min(Unused) /\ ~InUse(m)
    BY <1>3, UnusedRow DEF SavePromotion
  <2> DEFINE x == [session |-> "new", student |-> clerk[k].student, status |-> "ACTIVE"]
             middle == [rows EXCEPT ![m] = x]
             y == [middle[clerk[k].row] EXCEPT !.status = "PROMOTED"]
             table == [middle EXCEPT ![clerk[k].row] = y]
  <2>1. rows' = (IF OneRowEach(table) THEN table ELSE rows)
    BY <1>3, <2>0 DEF Save, SavePromotion, Insert
  <2>2. m # clerk[k].row
    BY <1>1, <2>0
  <2>3. x \in Enrolment /\ x.status = "ACTIVE" /\ x.session = "new" /\ x.student = clerk[k].student
    BY <1>1 DEF Enrolment, Session, Current
  <2> HIDE DEF x
  <2>4. /\ middle \in [RowId -> Enrolment] /\ middle[m] = x /\ \A r \in RowId : r # m => middle[r] = rows[r]
    BY <2>3
  <2> HIDE DEF middle
  <2>5. y \in Enrolment /\ y.status = "PROMOTED" /\ y.session = middle[clerk[k].row].session
    BY <1>1, <2>4 DEF Enrolment, Current
  <2> HIDE DEF y
  <2>6. /\ table \in [RowId -> Enrolment] /\ table[clerk[k].row] = y
        /\ \A r \in RowId : r # clerk[k].row => table[r] = middle[r]
    BY <1>1, <2>4, <2>5
  <2> HIDE DEF table
  <2>7. Keeps(table)
    BY <1>1, <2>0, <2>2, <2>3, <2>4, <2>5, <2>6 DEF Keeps, InUse
  <2>8. /\ table[clerk[k].row].status = "PROMOTED"
        /\ table[m].status = "ACTIVE" /\ table[m].session = "new" /\ table[m].student = clerk[k].student
        /\ \A r \in RowId : r # clerk[k].row /\ r # m => table[r] = rows[r]
    BY <2>2, <2>3, <2>4, <2>5, <2>6
  <2> QED
    BY <1>3, <2>0, <2>1, <2>7, <2>8 DEF Promoted
<1> QED
  BY <1>2, <1>3

-----------------------------------------------------------------------------
(* What a request has read stays true while it waits, whatever others write. *)
LEMMA ReadsStay == ASSUME EnrolInv, Keeps(rows'), NEW k \in Clerk, clerk'[k] = clerk[k] PROVE Reads(k)'
<1>1. clerk[k].op = "none" \/ clerk[k] \in Errand
  BY DEF EnrolInv, Reads
<1>2. clerk[k].found # 0 => clerk[k].found \in RowId
  BY <1>1 DEF EnrolInv, EnrolShape, NoErrand, Errand, RowId
<1> QED
  BY <1>2 DEF EnrolInv, Reads, Keeps, InUse

(* A request that is over has read nothing. *)
LEMMA IdleReads == ASSUME NEW k \in Clerk, clerk'[k] = NoErrand PROVE Reads(k)'
  BY DEF Reads, NoErrand

(* The rows in a step that writes none, or one that is carried out. *)
LEMMA SameKeeps == ASSUME EnrolInv, rows' = rows PROVE Keeps(rows') /\ OneRowEach(rows')
  BY DEF EnrolInv, EnrolShape, Keeps, InUse

(* The steps that save end their request. *)
LEMMA SavesEnd ==
    ASSUME EnrolInv, NEW k \in Clerk,
           SavePlace(k) \/ SaveStatus(k) \/ SaveClaim(k) \/ SavePromotion(k) \/ Forsake(k)
    PROVE  /\ clerk' = [clerk EXCEPT ![k] = NoErrand]
           /\ Keeps(rows') /\ OneRowEach(rows')
<1>1. clerk' = [clerk EXCEPT ![k] = NoErrand]
  BY DEF SavePlace, SaveStatus, SaveClaim, SavePromotion, Forsake, Save
<1>2. Forsake(k) => rows' = rows
  BY DEF Forsake
<1> QED
  BY <1>1, <1>2, SameKeeps, PlaceSaved, StatusSaved, ClaimSaved, PromotionSaved
  DEF Placed, Decided, Claimed, Promoted

(* The single statements: a row is marked as left, an invitation inserted. *)
LEMMA MarkedLeft ==
    ASSUME EnrolInv, NEW q \in RowId, MarkLeft(q)
    PROVE  /\ clerk' = clerk /\ Keeps(rows') /\ OneRowEach(rows')
           /\ \A r \in RowId : rows'[r] # rows[r] => rows'[r].status = "LEFT"
<1> DEFINE y == [rows[q] EXCEPT !.status = "LEFT"]
<1>1. rows' = [rows EXCEPT ![q] = y] /\ clerk' = clerk
  BY DEF MarkLeft
<1>2. y \in Enrolment /\ y.status = "LEFT" /\ y.session = rows[q].session /\ y.student = rows[q].student
  BY DEF EnrolInv, EnrolShape, Enrolment, Current
<1> HIDE DEF y
<1>3. Keeps(rows') /\ \A r \in RowId : rows'[r] # rows[r] => rows'[r].status = "LEFT"
  BY <1>1, <1>2 DEF EnrolInv, EnrolShape, Keeps, InUse
<1>4. \A r \in RowId : rows'[r].student = rows[r].student /\ rows'[r].session = rows[r].session
  BY <1>1, <1>2 DEF EnrolInv, EnrolShape
<1>5. OneRowEach(rows')
  BY <1>4 DEF EnrolInv, OneRowEach
<1> QED
  BY <1>1, <1>3, <1>5

(* ... into a row that was not in use. *)
LEMMA Invited ==
    ASSUME EnrolInv, NEW session \in Session, Invite(session)
    PROVE  /\ clerk' = clerk /\ Keeps(rows') /\ OneRowEach(rows')
           /\ \A r \in RowId : InUse(r) => rows'[r] = rows[r]
<1> DEFINE y == [session |-> session, student |-> Nobody, status |-> "INVITED"]
<1>0. PICK m \in RowId : m = Min(Unused) /\ ~InUse(m)
  BY UnusedRow DEF Invite
<1>1. rows' = [rows EXCEPT ![m] = y] /\ clerk' = clerk
  BY <1>0 DEF Invite, Insert
<1>2. y \in Enrolment /\ y.student = Nobody
  BY DEF Enrolment, Current
<1> HIDE DEF y
<1>3. Keeps(rows') /\ \A r \in RowId : InUse(r) => rows'[r] = rows[r]
  BY <1>0, <1>1, <1>2 DEF EnrolInv, EnrolShape, Keeps, InUse
<1>4. rows'[m].student = Nobody /\ \A r \in RowId : r # m => rows'[r] = rows[r]
  BY <1>1, <1>2 DEF EnrolInv, EnrolShape
<1>5. OneRowEach(rows')
  BY <1>4 DEF EnrolInv, OneRowEach
<1> QED
  BY <1>1, <1>3, <1>5

(* What an arriving request has read is true. *)
LEMMA Asked ==
    ASSUME EnrolInv, NEW k \in Clerk,
           \/ \E session \in Session, s \in Pupil, status \in {"PENDING", "ACTIVE"} : Place(k, session, s, status)
           \/ \E r \in RowId : \/ \E s \in Pupil : Claim(k, r, s)
                               \/ \E status \in {"ACTIVE", "LEFT"} : AskStatus(k, r, status)
                               \/ Promote(k, r)
    PROVE  /\ rows' = rows /\ \E call \in Errand : clerk' = [clerk EXCEPT ![k] = call]
           /\ Reads(k)'
<1> USE DEF EnrolInv, EnrolShape
<1>1. ASSUME NEW session \in Session, NEW s \in Pupil, NEW status \in {"PENDING", "ACTIVE"}, Place(k, session, s, status)
      PROVE  /\ rows' = rows /\ \E call \in Errand : clerk' = [clerk EXCEPT ![k] = call]
             /\ Reads(k)'
  <2> DEFINE found == RowOf(session, s)
             call == [NoErrand EXCEPT !.op = "place", !.pc = "save", !.found = found,
                                      !.student = s, !.session = session, !.status = status]
  <2>1. rows' = rows /\ clerk' = [clerk EXCEPT ![k] = call]
    BY <1>1 DEF Place, Ask
  <2>2. found \in 0 .. MaxRows /\ 0 \in 0 .. MaxRows /\ (found # 0 => InUse(found) /\ rows[found].session = session)
    BY EnrolAssumption, RowFound DEF RowId
  <2> HIDE DEF found
  <2>3. /\ call \in Errand /\ call.op = "place" /\ call.found = found /\ call.student = s /\ call.session = session
        /\ call.status = status
    BY <2>2 DEF Errand, NoErrand
  <2> HIDE DEF call
  <2>4. clerk'[k] = call
    BY <2>1
  <2> QED
    BY <2>1, <2>2, <2>3, <2>4 DEF Reads, InUse
<1>2. ASSUME NEW r \in RowId, NEW s \in Pupil, Claim(k, r, s)
      PROVE  /\ rows' = rows /\ \E call \in Errand : clerk' = [clerk EXCEPT ![k] = call]
             /\ Reads(k)'
  <2> DEFINE call == [NoErrand EXCEPT !.op = "claim", !.pc = "find", !.row = r, !.student = s, !.session = rows[r].session]
  <2>1. rows' = rows /\ clerk' = [clerk EXCEPT ![k] = call] /\ rows[r].status = "INVITED"
    BY <1>2 DEF Claim, Ask
  <2>2. rows[r].session \in Session /\ r \in 0 .. MaxRows /\ 0 \in 0 .. MaxRows
    BY EnrolAssumption DEF Enrolment, RowId
  <2>3. /\ call \in Errand /\ call.op = "claim" /\ call.found = 0 /\ call.student = s /\ call.row = r
        /\ call.session = rows[r].session
    BY <2>2 DEF Errand, NoErrand
  <2> HIDE DEF call
  <2>4. clerk'[k] = call
    BY <2>1
  <2> QED
    BY <2>1, <2>3, <2>4 DEF Reads, InUse
<1>3. ASSUME NEW r \in RowId, NEW status \in {"ACTIVE", "LEFT"}, AskStatus(k, r, status)
      PROVE  /\ rows' = rows /\ \E call \in Errand : clerk' = [clerk EXCEPT ![k] = call]
             /\ Reads(k)'
  <2> DEFINE call == [NoErrand EXCEPT !.op = "status", !.pc = "save", !.row = r, !.status = status]
  <2>1. rows' = rows /\ clerk' = [clerk EXCEPT ![k] = call] /\ rows[r].status # "NONE"
    BY <1>3 DEF AskStatus, Ask, Current
  <2>2. r \in 0 .. MaxRows /\ 0 \in 0 .. MaxRows
    BY EnrolAssumption DEF RowId
  <2>3. call \in Errand /\ call.op = "status" /\ call.found = 0 /\ call.row = r /\ call.status = status
    BY <2>2 DEF Errand, NoErrand, Session
  <2> HIDE DEF call
  <2>4. clerk'[k] = call
    BY <2>1
  <2> QED
    BY <2>1, <2>3, <2>4 DEF Reads, InUse
<1>4. ASSUME NEW r \in RowId, Promote(k, r)
      PROVE  /\ rows' = rows /\ \E call \in Errand : clerk' = [clerk EXCEPT ![k] = call]
             /\ Reads(k)'
  <2> DEFINE call == [NoErrand EXCEPT !.op = "promote", !.pc = "find", !.row = r, !.student = rows[r].student,
                                      !.session = "new"]
  <2>1. /\ rows' = rows /\ clerk' = [clerk EXCEPT ![k] = call]
        /\ rows[r].session = "old" /\ rows[r].status = "ACTIVE" /\ rows[r].student # Nobody
    BY <1>4 DEF Promote, Ask
  <2>2. rows[r].student \in Pupil /\ r \in 0 .. MaxRows /\ 0 \in 0 .. MaxRows
    BY <2>1, EnrolAssumption DEF Enrolment, RowId
  <2>3. /\ call \in Errand /\ call.op = "promote" /\ call.found = 0 /\ call.student = rows[r].student /\ call.row = r
        /\ call.session = "new"
    BY <2>2 DEF Errand, NoErrand, Session
  <2> HIDE DEF call
  <2>4. clerk'[k] = call
    BY <2>1
  <2> QED
    BY <2>1, <2>2, <2>3, <2>4 DEF Reads, InUse
<1> QED
  BY <1>1, <1>2, <1>3, <1>4

(* The request finds the student's own row, or is refused. *)
LEMMA OwnFound ==
    ASSUME EnrolInv, NEW k \in Clerk, FindOwn(k) \/ FindEnrolled(k)
    PROVE  /\ rows' = rows /\ \E call \in Errand \cup {NoErrand} : clerk' = [clerk EXCEPT ![k] = call]
           /\ Reads(k)'
<1> USE DEF EnrolInv, EnrolShape
<1>1. CASE clerk' = [clerk EXCEPT ![k] = NoErrand]
  BY <1>1, IdleReads DEF FindOwn, FindEnrolled
<1>2. CASE clerk' # [clerk EXCEPT ![k] = NoErrand]
  <2> DEFINE own == RowOf(clerk[k].session, clerk[k].student)
             call == [clerk[k] EXCEPT !.pc = "save", !.found = own]
  <2>1. rows' = rows /\ clerk' = [clerk EXCEPT ![k] = call]
    BY <1>2 DEF FindOwn, FindEnrolled, Found, Own
  <2>2. own \in 0 .. MaxRows /\ (own # 0 => InUse(own) /\ rows[own].session = clerk[k].session)
    BY EnrolAssumption, RowFound DEF RowId
  <2>3. clerk[k] \in Errand
    BY DEF FindOwn, FindEnrolled, NoErrand
  <2> HIDE DEF own
  <2>4. /\ call \in Errand /\ call.op = clerk[k].op /\ call.found = own /\ call.row = clerk[k].row
        /\ call.student = clerk[k].student /\ call.session = clerk[k].session /\ call.status = clerk[k].status
    BY <2>2, <2>3 DEF Errand
  <2> HIDE DEF call
  <2>5. clerk'[k] = call
    BY <2>1
  <2>6. Reads(k)'
    BY <2>1, <2>2, <2>4, <2>5 DEF Reads, InUse
  <2> QED
    BY <2>1, <2>4, <2>6
<1> QED
  BY <1>1, <1>2

(* Every step keeps EnrolInv. *)
LEMMA EnrolStep == ASSUME EnrolInv, [EnrolNext]_enrolVars PROVE EnrolInv'
<1>1. ASSUME NEW k \in Clerk, Keeps(rows'), OneRowEach(rows'), Reads(k)',
             \E call \in Errand \cup {NoErrand} : clerk' = [clerk EXCEPT ![k] = call]
      PROVE  EnrolInv'
  <2>1. rows' \in [RowId -> Enrolment] /\ clerk' \in [Clerk -> Errand \cup {NoErrand}]
    BY <1>1 DEF Keeps, EnrolInv, EnrolShape
  <2>2. \A j \in Clerk : j # k => clerk'[j] = clerk[j]
    BY <1>1 DEF EnrolInv, EnrolShape
  <2>3. \A j \in Clerk : Reads(j)'
    BY <1>1, <2>2, ReadsStay
  <2> QED
    BY <1>1, <2>1, <2>3 DEF EnrolInv, EnrolShape, OneRowEach
<1>2. ASSUME Keeps(rows'), OneRowEach(rows'), clerk' = clerk PROVE EnrolInv'
  BY <1>2, ReadsStay DEF Keeps, EnrolInv, EnrolShape, OneRowEach
<1>3. CASE UNCHANGED enrolVars
  BY <1>2, <1>3, SameKeeps DEF enrolVars
<1>4. CASE \E k \in Clerk : SavePlace(k) \/ SaveStatus(k) \/ SaveClaim(k) \/ SavePromotion(k) \/ Forsake(k)
  <2> PICK k \in Clerk : SavePlace(k) \/ SaveStatus(k) \/ SaveClaim(k) \/ SavePromotion(k) \/ Forsake(k)
    BY <1>4
  <2>1. clerk'[k] = NoErrand
    BY SavesEnd DEF EnrolInv, EnrolShape
  <2> QED
    BY <1>1, <2>1, SavesEnd, IdleReads
<1>5. CASE \E k \in Clerk : FindOwn(k) \/ FindEnrolled(k)
  BY <1>1, <1>5, OwnFound, SameKeeps
<1>6. CASE \E q \in RowId : MarkLeft(q)
  BY <1>2, <1>6, MarkedLeft
<1>7. CASE \E session \in Session : Invite(session)
  BY <1>2, <1>7, Invited
<1>8. CASE \E k \in Clerk :
              \/ \E session \in Session, s \in Pupil, status \in {"PENDING", "ACTIVE"} : Place(k, session, s, status)
              \/ \E r \in RowId : \/ \E s \in Pupil : Claim(k, r, s)
                                  \/ \E status \in {"ACTIVE", "LEFT"} : AskStatus(k, r, status)
                                  \/ Promote(k, r)
  BY <1>1, <1>8, Asked, SameKeeps
<1> QED
  BY <1>3, <1>4, <1>5, <1>6, <1>7, <1>8 DEF EnrolNext

(* At the start one row has a student, and nobody has asked for anything. *)
LEMMA EnrolStart == ASSUME EnrolInit PROVE EnrolInv
<1>1. \A k \in Clerk : clerk[k] = NoErrand /\ Reads(k)
  BY DEF EnrolInit, Reads, NoErrand
<1>2. PICK s \in Pupil, status \in {"NONE", "PENDING", "ACTIVE", "LEFT"} :
        rows = [r \in RowId |->
                  CASE r = 1 -> [NoEnrolment EXCEPT !.status = "INVITED"]
                    [] r = 2 /\ status # "NONE" -> [session |-> "old", student |-> s, status |-> status]
                    [] OTHER -> NoEnrolment]
  BY DEF EnrolInit
<1>3. \A r \in RowId : rows[r] \in Enrolment /\ (r # 2 => rows[r].student = Nobody)
  BY <1>2 DEF Enrolment, NoEnrolment, Session, Current
<1>4. rows \in [RowId -> Enrolment]
  BY <1>2, <1>3
<1>5. OneRowEach(rows)
  BY <1>3 DEF OneRowEach
<1>6. clerk \in [Clerk -> Errand \cup {NoErrand}]
  BY DEF EnrolInit
<1> QED
  BY <1>1, <1>4, <1>5, <1>6 DEF EnrolInv, EnrolShape

-----------------------------------------------------------------------------
(* What EnrolmentStands says of a row whose student was in the class. *)
Stands(r) ==
    \/ rows'[r].status = "LEFT" /\ \A k \in Clerk : ~Saves(k, "claim") /\ ~Saves(k, "promote")
    \/ /\ rows'[r].status = "PROMOTED"
       /\ \E t \in RowId : rows'[t] = [session |-> "new", student |-> rows[r].student, status |-> "ACTIVE"]
    \/ \E k \in Clerk : Saves(k, "place")
    \/ \E k \in Clerk : (Saves(k, "claim") \/ Saves(k, "promote")) /\ Mistaken(k, rows[r].student)

(* A claim changes another student's row only; the unique index says that the
   invitation is not the student's own. *)
LEMMA ClaimStands ==
    ASSUME EnrolInv, NEW k \in Clerk, SaveClaim(k), NEW r \in RowId, rows[r].status = "ACTIVE", rows'[r] # rows[r]
    PROVE  Mistaken(k, rows[r].student)
<1> USE DEF EnrolInv, EnrolShape
<1>1. Claimed(k)
  BY ClaimSaved
<1>2. rows'[r] \in Enrolment /\ rows[r] \in Enrolment /\ rows'[r].session = rows[r].session
  BY <1>1 DEF Claimed, Keeps, InUse
<1>3. /\ clerk[k].student \in Pupil /\ clerk[k].row \in RowId /\ clerk[k].op = "claim"
      /\ rows[clerk[k].row].session = clerk[k].session
      /\ clerk[k] \in Errand
  BY DEF SaveClaim, Reads
<1>4. CASE clerk[k].found = 0
  <2>1. rows'[r].status = "ACTIVE" /\ rows'[r].student = clerk[k].student
    BY <1>1, <1>4 DEF Claimed
  <2> QED
    BY <1>2, <2>1, SameRow DEF Mistaken
<1>5. CASE clerk[k].found # 0
  <2>1. clerk[k].found \in RowId /\ rows[clerk[k].found].session = clerk[k].session
    BY <1>3, <1>5 DEF Reads, Errand, RowId
  <2>2. r # clerk[k].found
    <3> SUFFICES ASSUME r = clerk[k].found PROVE FALSE
      OBVIOUS
    <3>1. rows'[r].status = "ACTIVE" /\ rows'[r].student = rows[r].student
      BY <1>1, <1>5 DEF Claimed
    <3> QED
      BY <1>2, <3>1, SameRow
  <2>3. r = clerk[k].row
    BY <1>1, <1>5, <2>2 DEF Claimed
  <2>4. ~(rows[r].student = clerk[k].student /\ rows[clerk[k].found].student = clerk[k].student)
    BY <1>3, <2>1, <2>2, <2>3, EnrolAssumption DEF OneRowEach
  <2> QED
    BY <1>5, <2>4 DEF Mistaken
<1> QED
  BY <1>4, <1>5

(* A promotion ends the old enrolment for one in the new session. *)
LEMMA PromotionStands ==
    ASSUME EnrolInv, NEW k \in Clerk, SavePromotion(k), NEW r \in RowId, rows[r].status = "ACTIVE", rows'[r] # rows[r]
    PROVE  \/ Mistaken(k, rows[r].student)
           \/ /\ rows'[r].status = "PROMOTED"
              /\ \E t \in RowId : rows'[t] = [session |-> "new", student |-> rows[r].student, status |-> "ACTIVE"]
<1> USE DEF EnrolInv, EnrolShape
<1>1. Promoted(k)
  BY PromotionSaved
<1>2. PICK t \in RowId :
        /\ t = clerk[k].found \/ (clerk[k].found = 0 /\ ~InUse(t) /\ rows'[t].student = clerk[k].student)
        /\ rows'[t].status = "ACTIVE" /\ rows'[t].session = "new"
        /\ clerk[k].found # 0 => rows'[t].student = rows[t].student
        /\ \A q \in RowId : q # clerk[k].row /\ q # t => rows'[q] = rows[q]
  BY <1>1 DEF Promoted
<1>3. rows' \in [RowId -> Enrolment] /\ rows'[r].session = rows[r].session /\ rows'[clerk[k].row].status = "PROMOTED"
  BY <1>1 DEF Promoted, Keeps, InUse
<1>4. 0 \notin RowId
  BY DEF RowId
<1>5. CASE r = clerk[k].row
  <2>1. SUFFICES ASSUME ~Mistaken(k, rows[r].student)
                 PROVE  rows'[t] = [session |-> "new", student |-> rows[r].student, status |-> "ACTIVE"]
    BY <1>3, <1>5
  <2>2. rows'[t].student = rows[r].student
    BY <1>2, <1>4, <2>1 DEF Mistaken
  <2>3. rows'[t] \in Enrolment /\ rows'[t].session = "new" /\ rows'[t].status = "ACTIVE"
    BY <1>2, <1>3
  <2> QED
    BY <2>2, <2>3 DEF Enrolment
<1>6. CASE r # clerk[k].row
  <2>1. r = t /\ InUse(r)
    BY <1>2, <1>6 DEF InUse
  <2>2. clerk[k].found = r /\ rows'[r].student = rows[r].student
    BY <1>2, <1>4, <2>1
  <2>3. rows'[r] = rows[r]
    BY <1>2, <1>3, <2>1, <2>2, SameRow
  <2> QED
    BY <2>3
<1> QED
  BY <1>5, <1>6

(* Requests that go on are not saved by a step of another. *)
LEMMA OthersWait ==
    ASSUME EnrolInv, NEW k \in Clerk, clerk[k].op = "status", clerk' = [clerk EXCEPT ![k] = NoErrand]
    PROVE  \A j \in Clerk : ~Saves(j, "claim") /\ ~Saves(j, "promote")
<1>1. \A j \in Clerk : j # k => clerk'[j] = clerk[j]
  BY DEF EnrolInv, EnrolShape
<1> QED
  BY <1>1 DEF Saves, NoErrand

(* Every step leaves the enrolments standing. *)
LEMMA EnrolKept ==
    ASSUME EnrolInv, [EnrolNext]_enrolVars, NEW r \in RowId, rows[r].status = "ACTIVE", rows'[r] # rows[r]
    PROVE  Stands(r)
<1>1. ASSUME NEW k \in Clerk, SavePlace(k) PROVE Stands(r)
  <2>1. clerk'[k] = NoErrand
    BY <1>1, SavesEnd DEF EnrolInv, EnrolShape
  <2> QED
    BY <1>1, <2>1 DEF Stands, Saves, SavePlace
<1>2. ASSUME NEW k \in Clerk, SaveStatus(k) PROVE Stands(r)
  <2>1. Decided(k) /\ clerk' = [clerk EXCEPT ![k] = NoErrand] /\ clerk[k].op = "status"
    BY <1>2, SavesEnd, StatusSaved DEF SaveStatus
  <2>2. clerk[k].status \in {"ACTIVE", "LEFT"}
    BY <2>1 DEF EnrolInv, Reads
  <2>3. rows'[r].status = clerk[k].status /\ rows'[r].student = rows[r].student /\ rows'[r].session = rows[r].session
    BY <2>1 DEF Decided, Keeps, InUse
  <2>4. rows'[r] \in Enrolment /\ rows[r] \in Enrolment
    BY <2>1 DEF Decided, Keeps, EnrolInv, EnrolShape
  <2>5. rows'[r].status = "LEFT"
    BY <2>2, <2>3, <2>4, SameRow
  <2> QED
    BY <2>1, <2>5, OthersWait DEF Stands
<1>3. ASSUME NEW k \in Clerk, SaveClaim(k) PROVE Stands(r)
  <2>1. clerk'[k] = NoErrand
    BY <1>3, SavesEnd DEF EnrolInv, EnrolShape
  <2>2. Saves(k, "claim")
    BY <1>3, <2>1 DEF Saves, SaveClaim
  <2> QED
    BY <1>3, <2>2, ClaimStands DEF Stands
<1>4. ASSUME NEW k \in Clerk, SavePromotion(k) PROVE Stands(r)
  <2>1. clerk'[k] = NoErrand
    BY <1>4, SavesEnd DEF EnrolInv, EnrolShape
  <2>2. Saves(k, "promote")
    BY <1>4, <2>1 DEF Saves, SavePromotion
  <2> QED
    BY <1>4, <2>2, PromotionStands DEF Stands
<1>5. ASSUME NEW q \in RowId, MarkLeft(q) PROVE Stands(r)
  <2>1. clerk' = clerk /\ rows'[r].status = "LEFT"
    BY <1>5, MarkedLeft
  <2> QED
    BY <2>1 DEF Stands, Saves, NoErrand
<1>6. ASSUME NEW session \in Session, Invite(session) PROVE Stands(r)
  BY <1>6, Invited DEF InUse
<1>7. ASSUME NEW k \in Clerk, FindOwn(k) \/ FindEnrolled(k) \/ Forsake(k) PROVE Stands(r)
  BY <1>7 DEF FindOwn, FindEnrolled, Forsake
<1>8. CASE \E k \in Clerk :
              \/ \E session \in Session, s \in Pupil, status \in {"PENDING", "ACTIVE"} : Place(k, session, s, status)
              \/ \E q \in RowId : \/ \E s \in Pupil : Claim(k, q, s)
                                  \/ \E status \in {"ACTIVE", "LEFT"} : AskStatus(k, q, status)
                                  \/ Promote(k, q)
  BY <1>8, Asked
<1>9. CASE UNCHANGED enrolVars
  BY <1>9 DEF enrolVars
<1> QED
  BY <1>1, <1>2, <1>3, <1>4, <1>5, <1>6, <1>7, <1>8, <1>9 DEF EnrolNext

(* The invariant holds always. *)
LEMMA EnrolInvHolds == EnrolSpec => []EnrolInv
<1>1. EnrolInit => EnrolInv
  BY EnrolStart
<1>2. EnrolInv /\ [EnrolNext]_enrolVars => EnrolInv'
  BY EnrolStep
<1> QED
  BY <1>1, <1>2, PTL DEF EnrolSpec

(* EnrolTypeOK, of the requests' rows and errands (academics/enrolments.service.ts):
   what a request has read keeps an errand an errand while it is saved. *)
THEOREM EnrolTypeCorrect == EnrolSpec => []EnrolTypeOK
<1>1. EnrolInit => calls \in 0 .. MaxCalls
  BY EnrolAssumption DEF EnrolInit
<1>2. calls \in 0 .. MaxCalls /\ [EnrolNext]_enrolVars => (calls \in 0 .. MaxCalls)'
  <2> SUFFICES ASSUME calls \in 0 .. MaxCalls, [EnrolNext]_enrolVars PROVE calls' \in 0 .. MaxCalls
    OBVIOUS
  <2>1. ASSUME NEW k \in Clerk, NEW call, Ask(k, call) PROVE calls' \in 0 .. MaxCalls
    BY <2>1, EnrolAssumption DEF Ask
  <2>2. ASSUME NEW session \in Session, Invite(session) PROVE calls' \in 0 .. MaxCalls
    BY <2>2, EnrolAssumption DEF Invite
  <2>3. ASSUME NEW k \in Clerk, NEW r \in RowId,
               \/ \E s \in Pupil : Claim(k, r, s)
               \/ \E status \in {"ACTIVE", "LEFT"} : AskStatus(k, r, status)
               \/ Promote(k, r)
        PROVE  calls' \in 0 .. MaxCalls
    BY <2>1, <2>3, Zenon DEF Place, Claim, AskStatus, Promote
  <2>4. ASSUME NEW k \in Clerk, SavePlace(k) \/ FindOwn(k) \/ SaveClaim(k) \/ SaveStatus(k)
               \/ FindEnrolled(k) \/ SavePromotion(k) \/ Forsake(k)
        PROVE  calls' = calls
    BY <2>4 DEF SavePlace, FindOwn, SaveClaim, SaveStatus, FindEnrolled, SavePromotion, Forsake, Save
  <2>5. ASSUME NEW r \in RowId, MarkLeft(r) PROVE calls' = calls
    BY <2>5 DEF MarkLeft
  <2>6. ASSUME NEW k \in Clerk, NEW session \in Session, NEW s \in Pupil, NEW status \in {"PENDING", "ACTIVE"},
               Place(k, session, s, status)
        PROVE  calls' \in 0 .. MaxCalls
    BY <2>1, <2>6, Zenon DEF Place
  <2>7. CASE UNCHANGED enrolVars
    BY <2>7 DEF enrolVars
  <2> QED
    BY <2>2, <2>3, <2>4, <2>5, <2>6, <2>7, Zenon DEF EnrolNext
<1>3. EnrolInv /\ calls \in 0 .. MaxCalls => EnrolTypeOK
  BY DEF EnrolInv, EnrolShape, EnrolTypeOK
<1> QED
  BY <1>1, <1>2, <1>3, EnrolInvHolds, PTL DEF EnrolSpec

(* EnrolmentStands, of saves by id of rows read earlier
   (academics/enrolments.service.ts), for any number of requests: a student in
   the class stays until removed or promoted, unless a request mistakes the row. *)
THEOREM EnrolmentStandsHolds == EnrolSpec => EnrolmentStands
<1>1. EnrolInv /\ [EnrolNext]_enrolVars =>
        [\A r \in RowId : rows[r].status = "ACTIVE" /\ rows'[r] # rows[r] => Stands(r)]_enrolVars
  BY EnrolKept
<1>2. EnrolSpec => [][\A r \in RowId : rows[r].status = "ACTIVE" /\ rows'[r] # rows[r] => Stands(r)]_enrolVars
  BY <1>1, EnrolInvHolds, PTL DEF EnrolSpec
<1> QED
  BY <1>2 DEF EnrolmentStands, Stands
=============================================================================
