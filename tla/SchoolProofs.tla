---------------------------- MODULE SchoolProofs ----------------------------
(***************************************************************************)
(* Proofs about Homework, ExamPaper, Grading and FileUpload, for any       *)
(* number of requests, students' tabs, questions, files and workers: what  *)
(* requests that save rows they read earlier can and cannot undo, and what *)
(* hand-ins, marks and bytes add up to.  At the end, that every behaviour  *)
(* of MCSchool is one of each of its modules.                              *)
(***************************************************************************)
EXTENDS MCSchool, AttendanceProofs, EnrolmentProofs

(* What a grader holds as the latest version, and is not any more, has been overtaken. *)
HeldOvertaken ==
    \A g \in Grader : grading[g].op = "score" /\ grading[g].version < Len(versions) => grading[g].version \in overtaken

(* What the proof needs of the types: the versions of the hand-in and what each grader holds. *)
HomeworkShape ==
    /\ versions \in Seq({"SUBMITTED", "RETURNED", "SCORED"})
    /\ grading \in [Grader -> Grade \cup {NoGrade}]
    /\ \A g \in Grader : grading[g] # NoGrade => grading[g].version <= Len(versions)

(* Under the homework's row lock the latest version was not SCORED, and is so now only if its
   score came after the check. *)
CheckedFree == checked # {} /\ versions # <<>> /\ Latest = "SCORED" => Len(versions) \in overtaken

(* The inductive invariant of ScoredIsLast. *)
ScoredInv == HomeworkShape /\ HeldOvertaken /\ CheckedFree /\ ScoredIsLast

(* Before the first version nothing is scored. *)
LEMMA ScoredInit == HomeworkInit => ScoredInv
BY DEF HomeworkInit, ScoredInv, HomeworkShape, HeldOvertaken, CheckedFree, ScoredIsLast, NoGrade

(* Every step keeps that a score is of the last version unless it overlapped a newer hand-in:
   a hand-in overtakes all who hold a version when it is inserted, and a score that is saved
   while a hand-in has been checked, but not inserted, is overtaken at once. *)
LEMMA ScoredStep == ASSUME ScoredInv, [HomeworkNext]_homeworkVars PROVE ScoredInv'
<1> USE DEF ScoredInv, HomeworkShape, HeldOvertaken, CheckedFree, ScoredIsLast
<1>0. /\ versions \in Seq({"SUBMITTED", "RETURNED", "SCORED"}) /\ Len(versions) \in Nat /\ DOMAIN versions = 1 .. Len(versions)
      /\ grading \in [Grader -> Grade \cup {NoGrade}]
  OBVIOUS
<1>1. CASE UNCHANGED <<versions, grading, overtaken>> /\ checked' \subseteq checked
  BY <1>1 DEF Latest
<1>5. CASE \E t \in Tab : HandIn(t)
  <2>1. UNCHANGED <<versions, grading, overtaken>> /\ ~Blocked
    BY <1>5 DEF HandIn, gradeVars
  <2>2. versions # <<>> => Latest # "SCORED"
    BY <2>1 DEF Blocked
  <2> QED
    BY <2>1, <2>2 DEF Latest
<1>2. CASE \E t \in Tab : SaveHandIn(t)
  <2> PICK t \in Tab : SaveHandIn(t)
    BY <1>2
  <2>1. versions' = Append(versions, "SUBMITTED") /\ Len(versions') = Len(versions) + 1 /\ DOMAIN versions' = 1 .. Len(versions')
        /\ versions' \in Seq({"SUBMITTED", "RETURNED", "SCORED"}) /\ versions'[Len(versions')] = "SUBMITTED"
    BY <1>0 DEF SaveHandIn
  <2>2. \A i \in 1 .. Len(versions) : versions'[i] = versions[i]
    BY <1>0, <2>1
  <2>3. overtaken \subseteq overtaken' /\ grading' = grading
        /\ \A g \in Grader : grading[g].op = "score" => grading[g].version \in overtaken'
    BY DEF SaveHandIn, Scoring, gradeVars
  <2>4. ASSUME NEW i \in DOMAIN versions', versions'[i] = "SCORED", i < Len(versions') PROVE i \in overtaken'
    <3>1. i \in 1 .. Len(versions) /\ versions[i] = "SCORED"
      BY <1>0, <2>1, <2>2, <2>4
    <3>2. CASE i = Len(versions)
      <4>1. checked # {} /\ versions # <<>> /\ Latest = "SCORED"
        BY <1>0, <3>1, <3>2 DEF SaveHandIn, Latest
      <4> QED
        BY <2>3, <3>2, <4>1
    <3>3. CASE i # Len(versions)
      BY <1>0, <2>3, <3>1, <3>3
    <3> QED
      BY <3>2, <3>3
  <2>5. \A g \in Grader : grading'[g] # NoGrade => grading'[g].version <= Len(versions')
    BY <1>0, <2>1, <2>3 DEF Grade, NoGrade
  <2>6. CheckedFree'
    BY <2>1 DEF Latest
  <2> QED
    BY <2>1, <2>3, <2>4, <2>5, <2>6
<1>3. CASE \E g \in Grader, op \in {"score", "return"} : LoadHandIn(g, op)
  <2> PICK g \in Grader, op \in {"score", "return"} : LoadHandIn(g, op)
    BY <1>3
  <2>1. /\ UNCHANGED <<versions, checked, overtaken>> /\ grading' = [grading EXCEPT ![g] = [op |-> op, version |-> Len(versions)]]
        /\ versions # <<>>
    BY DEF LoadHandIn, submitVars
  <2>2. [op |-> op, version |-> Len(versions)] \in Grade
    BY <1>0, <2>1 DEF Grade
  <2>3. HomeworkShape' /\ HeldOvertaken' /\ ScoredIsLast'
    BY <1>0, <2>1, <2>2
  <2>4. CheckedFree'
    BY <2>1 DEF Latest
  <2> QED
    BY <2>3, <2>4
<1>4. CASE \E g \in Grader : SaveGrade(g)
  <2> PICK g \in Grader : SaveGrade(g)
    BY <1>4
  <2>0. grading[g] \in Grade /\ grading[g].version \in 1 .. Len(versions)
    BY <1>0 DEF SaveGrade, Grade, NoGrade
  <2>1. /\ overtaken \subseteq overtaken' /\ grading' = [grading EXCEPT ![g] = NoGrade] /\ checked' = checked
        /\ versions' = [versions EXCEPT ![grading[g].version] = IF grading[g].op = "score" THEN "SCORED" ELSE "RETURNED"]
    BY DEF SaveGrade
  <2>2. versions' \in Seq({"SUBMITTED", "RETURNED", "SCORED"}) /\ Len(versions') = Len(versions)
        /\ DOMAIN versions' = 1 .. Len(versions)
    BY <1>0, <2>0, <2>1
  <2>3. ASSUME NEW i \in DOMAIN versions', versions'[i] = "SCORED", i < Len(versions') PROVE i \in overtaken'
    BY <1>0, <2>0, <2>1, <2>2, <2>3
  <2>4. NoGrade.op # "score"
    BY DEF NoGrade
  <2>5. CheckedFree'
    <3> SUFFICES ASSUME checked # {}, Latest' = "SCORED" PROVE Len(versions) \in overtaken'
      BY <2>1, <2>2
    <3>1. Latest' = versions'[Len(versions)] /\ Len(versions) \in 1 .. Len(versions) /\ versions # <<>>
      BY <1>0, <2>0, <2>2 DEF Latest
    <3>2. CASE grading[g].version = Len(versions)
      <4>1. grading[g].op = "score"
        BY <1>0, <2>0, <2>1, <3>1, <3>2
      <4> QED
        BY <3>2, <4>1 DEF SaveGrade, Scoring
    <3>3. CASE grading[g].version # Len(versions)
      BY <1>0, <2>0, <2>1, <3>1, <3>3 DEF Latest
    <3> QED
      BY <3>2, <3>3
  <2>6. HomeworkShape' /\ HeldOvertaken' /\ ScoredIsLast'
    BY <1>0, <2>1, <2>2, <2>3, <2>4
  <2> QED
    BY <2>5, <2>6
<1> QED
  BY <1>1, <1>2, <1>3, <1>4, <1>5
  DEF HomeworkNext, homeworkVars, submitVars, gradeVars, TickHomework, FindDue, ClaimDue, MayPublishScores, PublishScores,
      LoadHomework, SaveHomework, OpenHandIn, DropHandIn

(* A scored hand-in is the student's last one, unless the two requests overlapped: the new one
   was inserted after the grader had loaded the old one, or the score was saved between the
   check and the insertion of the new one, which the homework's row lock does not keep out
   (submit; save of the scores). *)
THEOREM ScoredIsLastHolds == HomeworkSpec => []ScoredIsLast
<1>1. ScoredInv => ScoredIsLast
  BY DEF ScoredInv
<1> QED
  BY <1>1, ScoredInit, ScoredStep, PTL DEF HomeworkSpec

-----------------------------------------------------------------------------
(* What an editor holds passed the checks of its request when it was loaded. *)
HeldChecked ==
    /\ held \in [Editor -> Edit \cup {NoEdit}]
    /\ \A e \in Editor : /\ held[e].op \in {"update", "cancel"} => held[e].row.status # "CANCELLED"
                         /\ held[e].op \in {"publish", "schedule"} => held[e].row.status \in {"DRAFT", "SCHEDULED"}

(* The type of the row and of the clock. *)
HomeworkRow == homework \in Row /\ now \in Nat

(* At the start no editor holds a row. *)
LEMMA HeldInit == HomeworkInit => HomeworkRow /\ HeldChecked
BY HomeworkAssumption DEF HomeworkInit, HomeworkRow, HeldChecked, Row, NoEdit

(* An editor never gets to its save with a row that its request refuses. *)
LEMMA HeldStep == ASSUME HomeworkRow, HeldChecked, [HomeworkNext]_homeworkVars PROVE HomeworkRow' /\ HeldChecked'
<1> USE DEF HomeworkRow, HeldChecked
<1>0. now' \in Nat
  BY DEF HomeworkNext, homeworkVars, TickHomework, FindDue, ClaimDue, MayPublishScores, PublishScores, LoadHomework,
         SaveHomework, OpenHandIn, HandIn, SaveHandIn, DropHandIn, LoadHandIn, SaveGrade
<1>1. CASE UNCHANGED <<homework, held>>
  BY <1>0, <1>1
<1>2. CASE ClaimDue \/ PublishScores
  <2>1. [homework EXCEPT !.status = "PUBLISHED"] \in Row /\ [homework EXCEPT !.scoresOut = TRUE] \in Row
    BY DEF Row
  <2> QED
    BY <1>0, <1>2, <2>1 DEF ClaimDue, PublishScores, editVars
<1>3. CASE \E e \in Editor, op \in {"update", "publish", "schedule", "cancel"} : LoadHomework(e, op)
  <2> PICK e \in Editor, op \in {"update", "publish", "schedule", "cancel"} : LoadHomework(e, op)
    BY <1>3
  <2>1. MayEdit(op) /\ homework' = homework
    BY DEF LoadHomework
  <2>2. PICK x : x \in Edit /\ x.op = op /\ x.row = homework /\ held' = [held EXCEPT ![e] = x]
    <3>1. CASE op = "schedule"
      <4> PICK at \in now + 1 .. MaxTime : held' = [held EXCEPT ![e] = [op |-> op, row |-> homework, at |-> at]]
        BY <3>1 DEF LoadHomework
      <4>1. at \in 1 .. MaxTime
        BY HomeworkAssumption
      <4> QED
        BY <3>1, <4>1 DEF Edit
    <3>2. CASE op # "schedule"
      BY <3>2 DEF LoadHomework, Edit
    <3> QED
      BY <3>1, <3>2
  <2> QED
    BY <1>0, <2>1, <2>2 DEF MayEdit
<1>4. CASE \E e \in Editor : SaveHomework(e)
  <2> PICK e \in Editor : SaveHomework(e)
    BY <1>4
  <2>1. held[e] \in Edit
    BY DEF SaveHomework
  <2>2. Saved(e) \in Row
    <3>1. \A st \in {"PUBLISHED", "CANCELLED"} : [held[e].row EXCEPT !.status = st] \in Row
      BY <2>1 DEF Edit, Row
    <3>2. held[e].op \in {"update", "publish", "schedule", "cancel"} /\ held[e].row \in Row
          /\ (held[e].op = "schedule" => held[e].at \in 0 .. MaxTime) /\ 0 \in 0 .. MaxTime
      BY <2>1, HomeworkAssumption DEF Edit
    <3>3. ASSUME NEW row \in Row, NEW st \in {"PUBLISHED", "SCHEDULED"}, NEW at \in 0 .. MaxTime
          PROVE  [row EXCEPT !.status = st, !.publishAt = at] \in Row
      BY DEF Row
    <3>4. [held[e].row EXCEPT !.status = "PUBLISHED", !.publishAt = 0] \in Row
      BY <3>2, <3>3
    <3>5. held[e].op = "schedule" => [held[e].row EXCEPT !.status = "SCHEDULED", !.publishAt = held[e].at] \in Row
      BY <3>2, <3>3
    <3> QED
      BY <3>1, <3>2, <3>4, <3>5 DEF Saved
  <2>3. held' = [held EXCEPT ![e] = NoEdit] /\ NoEdit.op = "none" /\ homework' = Saved(e)
    BY DEF SaveHomework, NoEdit
  <2> QED
    BY <1>0, <2>2, <2>3
<1> QED
  BY <1>1, <1>2, <1>3, <1>4
  DEF HomeworkNext, homeworkVars, submitVars, gradeVars, editVars, TickHomework, FindDue, MayPublishScores, OpenHandIn,
      HandIn, SaveHandIn, DropHandIn, LoadHandIn, SaveGrade

(* A step that undoes what was decided is the save of an editor whose row is older than it. *)
LEMMA UndoneByEdit ==
    ASSUME HomeworkRow, HeldChecked, [HomeworkNext]_homeworkVars,
           \/ homework.status = "CANCELLED" /\ homework'.status # "CANCELLED"
           \/ homework.status = "PUBLISHED" /\ homework'.status \in {"DRAFT", "SCHEDULED"}
           \/ homework.scoresOut /\ ~homework'.scoresOut
    PROVE  \E e \in Editor : held[e] # NoEdit /\ held'[e] = NoEdit /\ held[e].row # homework
<1>0. homework \in Row /\ held \in [Editor -> Edit \cup {NoEdit}]
  BY DEF HomeworkRow, HeldChecked
<1>1. CASE homework' = homework
  BY <1>1
<1>2. CASE ClaimDue \/ PublishScores
  BY <1>0, <1>2 DEF ClaimDue, PublishScores, Row
<1>3. CASE \E e \in Editor : SaveHomework(e)
  <2> PICK e \in Editor : SaveHomework(e)
    BY <1>3
  <2>1. held[e] \in Edit /\ held[e] # NoEdit /\ held'[e] = NoEdit /\ homework' = Saved(e)
    BY <1>0 DEF SaveHomework
  <2>2. held[e].op \in {"update", "publish", "schedule", "cancel"} /\ held[e].row \in Row
    BY <2>1 DEF Edit
  <2>3. ASSUME held[e].row = homework PROVE FALSE
    <3>1. CASE held[e].op = "update"
      BY <2>1, <2>3, <3>1 DEF Saved
    <3>2. CASE held[e].op = "cancel"
      <4>1. homework' = [homework EXCEPT !.status = "CANCELLED"]
        BY <2>1, <2>3, <3>2 DEF Saved
      <4> QED
        BY <1>0, <2>3, <3>2, <4>1 DEF HeldChecked, Row
    <3>3. CASE held[e].op = "publish"
      <4>1. homework' = [homework EXCEPT !.status = "PUBLISHED", !.publishAt = 0]
        BY <2>1, <2>3, <3>3 DEF Saved
      <4> QED
        BY <1>0, <2>3, <3>3, <4>1 DEF HeldChecked, Row
    <3>4. CASE held[e].op = "schedule"
      <4>1. homework' = [homework EXCEPT !.status = "SCHEDULED", !.publishAt = held[e].at]
        BY <2>1, <2>3, <3>4 DEF Saved
      <4> QED
        BY <1>0, <2>3, <3>4, <4>1 DEF HeldChecked, Row
    <3> QED
      BY <2>2, <3>1, <3>2, <3>3, <3>4
  <2> QED
    BY <2>1, <2>3
<1> QED
  BY <1>1, <1>2, <1>3
  DEF HomeworkNext, homeworkVars, TickHomework, FindDue, MayPublishScores, LoadHomework, OpenHandIn, HandIn, SaveHandIn,
      DropHandIn, LoadHandIn, SaveGrade

(* What was decided for a homework (cancelled, published, scores out) is undone only by an
   editor that works on a row it loaded before (updateHomework, cancelHomework, publishHomework). *)
THEOREM NothingUndoneHolds == HomeworkSpec => NothingUndone
<1>1. HomeworkRow /\ HeldChecked /\ [HomeworkNext]_homeworkVars =>
      [\/ homework.status = "CANCELLED" /\ homework'.status # "CANCELLED"
       \/ homework.status = "PUBLISHED" /\ homework'.status \in {"DRAFT", "SCHEDULED"}
       \/ homework.scoresOut /\ ~homework'.scoresOut
       => \E e \in Editor : held[e] # NoEdit /\ held'[e] = NoEdit /\ held[e].row # homework]_homeworkVars
  BY UndoneByEdit
<1> QED
  BY <1>1, HeldInit, HeldStep, PTL DEF HomeworkSpec, NothingUndone

-----------------------------------------------------------------------------
(* The types that no earlier part of the proof needed. *)
HomeworkRest ==
    /\ now \in 0 .. MaxTime /\ handing \subseteq Tab /\ checked \subseteq handing
    /\ overtaken \subseteq 1 .. Len(versions) /\ redos \in Nat /\ edits \in Nat /\ grades \in Nat

(* All of what holds of a homework's types and of what editors and graders hold. *)
HomeworkInv == HomeworkRow /\ HeldChecked /\ ScoredInv /\ HomeworkRest /\ found \in BOOLEAN /\ releasing \in BOOLEAN

(* These are the types of the module. *)
LEMMA HomeworkInvType == HomeworkInv => HomeworkTypeOK
BY DEF HomeworkInv, HomeworkRow, HeldChecked, ScoredInv, HomeworkShape, HomeworkRest, HomeworkTypeOK

(* They hold at the start. *)
LEMMA HomeworkInvInit == HomeworkInit => HomeworkInv
<1>1. HomeworkInit => HomeworkRest
  BY HomeworkAssumption DEF HomeworkInit, HomeworkRest
<1>2. HomeworkInit => found \in BOOLEAN /\ releasing \in BOOLEAN
  BY DEF HomeworkInit
<1> QED
  BY <1>1, <1>2, HeldInit, ScoredInit DEF HomeworkInv

(* Every step keeps them; the versions that a hand-in overtakes exist. *)
LEMMA HomeworkInvStep == ASSUME HomeworkInv, [HomeworkNext]_homeworkVars PROVE HomeworkInv'
<1>1. HomeworkRow' /\ HeldChecked' /\ ScoredInv'
  BY HeldStep, ScoredStep DEF HomeworkInv
<1>2. HomeworkRest /\ HomeworkShape /\ found \in BOOLEAN /\ releasing \in BOOLEAN
  BY DEF HomeworkInv, ScoredInv
<1>3. found' \in BOOLEAN /\ releasing' \in BOOLEAN
  <2>1. found' = found \/ found' = TRUE \/ found' = FALSE
    BY Zenon DEF HomeworkNext, homeworkVars, publishVars, TickHomework, FindDue, ClaimDue, MayPublishScores, PublishScores,
       LoadHomework, SaveHomework, OpenHandIn, HandIn, SaveHandIn, DropHandIn, LoadHandIn, SaveGrade
  <2>2. releasing' = releasing \/ releasing' = TRUE \/ releasing' = FALSE
    BY Zenon DEF HomeworkNext, homeworkVars, publishVars, TickHomework, FindDue, ClaimDue, MayPublishScores, PublishScores,
       LoadHomework, SaveHomework, OpenHandIn, HandIn, SaveHandIn, DropHandIn, LoadHandIn, SaveGrade
  <2> QED
    BY <1>2, <2>1, <2>2, Zenon
<1>4. \A x \in 0 .. MaxTime : x < MaxTime => x + 1 \in 0 .. MaxTime
  BY HomeworkAssumption
<1>5. /\ now' = now \/ (now < MaxTime /\ now' = now + 1)
      /\ redos' = redos \/ redos' = redos + 1
      /\ edits' = edits \/ edits' = edits + 1
      /\ grades' = grades \/ grades' = grades + 1
  BY Zenon DEF HomeworkNext, homeworkVars, gradeVars, editVars, TickHomework, FindDue, ClaimDue, MayPublishScores,
     PublishScores, LoadHomework, SaveHomework, OpenHandIn, HandIn, SaveHandIn, DropHandIn, LoadHandIn, SaveGrade
<1>6. \/ UNCHANGED <<handing, checked>>
      \/ \E t \in Tab : handing' = handing \cup {t} /\ checked' = checked
      \/ \E t \in Tab : handing' = handing \ {t} /\ checked' = checked \ {t}
      \/ \E t \in handing : handing' = handing /\ checked' = {t}
  BY Zenon DEF HomeworkNext, homeworkVars, submitVars, TickHomework, FindDue, ClaimDue, MayPublishScores,
     PublishScores, LoadHomework, SaveHomework, OpenHandIn, HandIn, SaveHandIn, DropHandIn, LoadHandIn, SaveGrade
<1>7. handing' \subseteq Tab /\ checked' \subseteq handing'
  BY <1>2, <1>6 DEF HomeworkRest
<1>8. /\ Len(versions) \in Nat
      /\ \A g \in Grader : grading[g] # NoGrade => grading[g].version \in 1 .. Len(versions)
  BY <1>2 DEF HomeworkShape, Grade, NoGrade
<1>9. \A g \in Scoring : g \in Grader /\ grading[g].version \in 1 .. Len(versions)
  BY <1>8 DEF Scoring, NoGrade
<1>10. overtaken' \subseteq 1 .. Len(versions')
  <2>1. CASE \E t \in Tab : SaveHandIn(t)
    <3>1. /\ overtaken' = overtaken \cup {grading[g].version : g \in Scoring}
          /\ Len(versions') = Len(versions) + 1
      BY <1>2, <2>1 DEF SaveHandIn, HomeworkShape
    <3>2. 1 .. Len(versions) \subseteq 1 .. Len(versions')
      BY <1>8, <3>1
    <3> QED
      BY <1>2, <1>9, <3>1, <3>2, Zenon DEF HomeworkRest
  <2>2. CASE \E g \in Grader : SaveGrade(g)
    <3> PICK g \in Grader : SaveGrade(g)
      BY <2>2
    <3>1. Len(versions') = Len(versions) /\ grading[g].version \in 1 .. Len(versions)
      BY <1>2, <1>8 DEF SaveGrade, HomeworkShape
    <3> QED
      BY <1>2, <3>1 DEF SaveGrade, HomeworkRest
  <2>3. CASE UNCHANGED <<versions, overtaken>>
    BY <1>2, <2>3 DEF HomeworkRest
  <2> QED
    BY <2>1, <2>2, <2>3 DEF HomeworkNext, homeworkVars, submitVars, TickHomework, FindDue, ClaimDue, MayPublishScores,
       PublishScores, LoadHomework, SaveHomework, OpenHandIn, HandIn, DropHandIn, LoadHandIn
<1>11. HomeworkRest'
  BY <1>2, <1>4, <1>5, <1>7, <1>10 DEF HomeworkRest
<1> QED
  BY <1>1, <1>3, <1>11 DEF HomeworkInv

(* The row, the versions and what each request holds keep their types; a grader never
   holds a version that does not exist. *)
THEOREM HomeworkTypeCorrect == HomeworkSpec => []HomeworkTypeOK
BY HomeworkInvInit, HomeworkInvStep, HomeworkInvType, PTL DEF HomeworkSpec

(* Every returned version was returned by a request that counts, a student whose latest version
   is returned has one more to hand in, and so has the one tab that holds the row's lock. *)
ReturnsInv ==
    /\ HandInsBounded
    /\ versions # <<>> /\ Latest = "RETURNED" => Len(versions) < Allowance + redos
    /\ checked # {} => Len(versions) < Allowance + redos
    /\ \A s, t \in checked : s = t
    /\ NumReturned <= redos

(* The versions that are returned; NumReturned counts them. *)
Returned(v) == {i \in DOMAIN v : v[i] = "RETURNED"}

(* NumReturned and its next value are numbers of them. *)
LEMMA ReturnedSets ==
    /\ NumReturned = Cardinality(Returned(versions))
    /\ NumReturned' = Cardinality(Returned(versions'))
BY DEF NumReturned, Returned

(* There are finitely many. *)
LEMMA ReturnedFinite ==
    ASSUME NEW v \in Seq({"SUBMITTED", "RETURNED", "SCORED"})
    PROVE  IsFiniteSet(Returned(v)) /\ Cardinality(Returned(v)) \in Nat
<1>1. DOMAIN v = 1 .. Len(v) /\ Len(v) \in Int
  OBVIOUS
<1>2. IsFiniteSet(1 .. Len(v))
  BY <1>1, FS_Interval
<1> QED
  BY <1>1, <1>2, FS_Subset, FS_CardinalityType DEF Returned

(* A return raises both sides, a hand-in needs room, and a score returns nothing. *)
LEMMA ReturnsStep == ASSUME HomeworkInv, ReturnsInv, [HomeworkNext]_homeworkVars PROVE ReturnsInv'
<1>0. /\ versions \in Seq({"SUBMITTED", "RETURNED", "SCORED"}) /\ Len(versions) \in Nat
      /\ DOMAIN versions = 1 .. Len(versions) /\ redos \in Nat /\ Allowance \in Nat \ {0}
      /\ IsFiniteSet(Returned(versions)) /\ Cardinality(Returned(versions)) \in Nat
  BY HomeworkAssumption, ReturnedFinite DEF HomeworkInv, ScoredInv, HomeworkShape, HomeworkRest, Allowance
<1>i. /\ Len(versions) <= Allowance + redos /\ (checked # {} => Len(versions) < Allowance + redos)
      /\ versions # <<>> /\ Latest = "RETURNED" => Len(versions) < Allowance + redos
      /\ Cardinality(Returned(versions)) <= redos
  BY ReturnedSets DEF ReturnsInv, HandInsBounded
<1>1. CASE UNCHANGED <<versions, redos>> /\ checked' \subseteq checked
  BY <1>i, <1>1, ReturnedSets DEF ReturnsInv, HandInsBounded, Latest
<1>5. CASE \E t \in Tab : HandIn(t)
  <2> PICK t \in Tab : HandIn(t)
    BY <1>5
  <2>1. UNCHANGED <<versions, redos>> /\ ~Blocked /\ checked' = {t}
    BY DEF HandIn, gradeVars
  <2>2. Len(versions) < Allowance + redos
    <3>1. CASE versions = <<>>
      BY <1>0, <3>1
    <3>2. CASE versions # <<>> /\ Latest = "RETURNED"
      BY <1>i, <3>2
    <3>3. CASE versions # <<>> /\ Latest # "RETURNED"
      <4>1. Len(versions) < Allowance + Cardinality(Returned(versions))
        BY <1>0, <2>1, <3>3, ReturnedSets DEF Blocked
      <4> QED
        BY <1>0, <1>i, <4>1
    <3> QED
      BY <3>1, <3>2, <3>3
  <2> QED
    BY <1>i, <2>1, <2>2, ReturnedSets DEF ReturnsInv, HandInsBounded, Latest
<1>2. CASE \E t \in Tab : SaveHandIn(t)
  <2> PICK t \in Tab : SaveHandIn(t)
    BY <1>2
  <2>1. /\ versions' = Append(versions, "SUBMITTED") /\ Len(versions') = Len(versions) + 1
        /\ DOMAIN versions' = 1 .. Len(versions) + 1 /\ redos' = redos
        /\ versions'[Len(versions) + 1] = "SUBMITTED"
        /\ \A i \in 1 .. Len(versions) : versions'[i] = versions[i]
    BY <1>0 DEF SaveHandIn, gradeVars
  <2>2. Returned(versions') = Returned(versions)
    BY <1>0, <2>1 DEF Returned
  <2>3. Len(versions) < Allowance + redos /\ checked' = {}
    BY DEF SaveHandIn, ReturnsInv
  <2> QED
    BY <1>0, <1>i, <2>1, <2>2, <2>3, ReturnedSets DEF ReturnsInv, HandInsBounded, Latest
<1>3. CASE \E g \in Grader : SaveGrade(g)
  <2> PICK g \in Grader : SaveGrade(g)
    BY <1>3
  <2> DEFINE n == grading[g].version
             s == IF grading[g].op = "score" THEN "SCORED" ELSE "RETURNED"
  <2>1. /\ grading[g] \in Grade /\ n \in 1 .. Len(versions) /\ grading[g].op \in {"score", "return"}
    BY DEF HomeworkInv, ScoredInv, HomeworkShape, SaveGrade, Grade
  <2>2. /\ versions' = [versions EXCEPT ![n] = s] /\ checked' = checked
        /\ redos' = IF grading[g].op = "return" THEN redos + 1 ELSE redos
    BY DEF SaveGrade
  <2> HIDE DEF n
  <2>3. Len(versions') = Len(versions) /\ DOMAIN versions' = 1 .. Len(versions) /\ versions # <<>>
        /\ versions' \in Seq({"SUBMITTED", "RETURNED", "SCORED"})
        /\ \A i \in 1 .. Len(versions) : versions'[i] = IF i = n THEN s ELSE versions[i]
    BY <1>0, <2>1, <2>2
  <2>4. CASE grading[g].op = "score"
    <3>1. Returned(versions') \subseteq Returned(versions)
      BY <1>0, <2>3, <2>4 DEF Returned
    <3>2. Cardinality(Returned(versions')) <= Cardinality(Returned(versions)) /\ Cardinality(Returned(versions')) \in Nat
      BY <1>0, <3>1, FS_Subset, FS_CardinalityType
    <3>3. redos' = redos /\ (Latest' = "RETURNED" => Latest = "RETURNED")
      <4>1. Latest' = versions'[Len(versions)] /\ Len(versions) \in 1 .. Len(versions)
        BY <1>0, <2>1, <2>3 DEF Latest
      <4>2. Latest' \in {"SCORED", Latest}
        BY <2>3, <2>4, <4>1 DEF Latest
      <4> QED
        BY <2>2, <2>4, <4>2
    <3> QED
      BY <1>0, <1>i, <2>2, <2>3, <3>2, <3>3, ReturnedSets DEF ReturnsInv, HandInsBounded, Allowance
  <2>5. CASE grading[g].op = "return"
    <3>1. Returned(versions') \subseteq Returned(versions) \cup {n}
      BY <1>0, <2>3, <2>5 DEF Returned
    <3>2. IsFiniteSet(Returned(versions) \cup {n}) /\ Cardinality(Returned(versions) \cup {n}) <= Cardinality(Returned(versions)) + 1
          /\ Cardinality(Returned(versions) \cup {n}) \in Nat
      <4>1. /\ IsFiniteSet(Returned(versions) \cup {n})
            /\ Cardinality(Returned(versions) \cup {n}) \in {Cardinality(Returned(versions)), Cardinality(Returned(versions)) + 1}
        BY <1>0, FS_AddElement
      <4> QED
        BY <1>0, <4>1
    <3>3. Cardinality(Returned(versions')) <= Cardinality(Returned(versions) \cup {n}) /\ Cardinality(Returned(versions')) \in Nat
      BY <3>1, <3>2, FS_Subset, FS_CardinalityType
    <3>4. redos' = redos + 1
      BY <2>2, <2>5
    <3> QED
      BY <1>0, <1>i, <2>2, <2>3, <3>2, <3>3, <3>4, ReturnedSets DEF ReturnsInv, HandInsBounded, Allowance
  <2> QED
    BY <2>1, <2>4, <2>5
<1>4. \/ UNCHANGED <<versions, redos>> /\ checked' \subseteq checked
      \/ \E t \in Tab : HandIn(t) \/ SaveHandIn(t)
      \/ \E g \in Grader : SaveGrade(g)
  BY DEF HomeworkNext, homeworkVars, submitVars, gradeVars, TickHomework, FindDue, ClaimDue, MayPublishScores, PublishScores,
         LoadHomework, SaveHomework, OpenHandIn, DropHandIn, LoadHandIn
<1> QED
  BY <1>1, <1>2, <1>3, <1>4, <1>5

(* A student hands in once, plus the resubmissions, plus once for every return, however
   many tabs hand in while graders score and return versions they read before. *)
THEOREM HandInsBoundedHolds == HomeworkSpec => []HandInsBounded
<1>1. HomeworkInit => ReturnsInv
  <2> SUFFICES ASSUME HomeworkInit PROVE ReturnsInv
    OBVIOUS
  <2>1. versions = <<>> /\ checked = {} /\ redos = 0 /\ Returned(versions) = {}
    BY DEF HomeworkInit, Returned
  <2>2. Cardinality(Returned(versions)) = 0
    BY <2>1, FS_EmptySet
  <2> QED
    BY <2>1, <2>2, ReturnedSets, HomeworkAssumption DEF ReturnsInv, HandInsBounded, Allowance
<1>2. ReturnsInv => HandInsBounded
  BY DEF ReturnsInv
<1> QED
  BY <1>1, <1>2, HomeworkInvInit, HomeworkInvStep, ReturnsStep, PTL DEF HomeworkSpec

-----------------------------------------------------------------------------
(* What the staff, the exam row and the counter of requests range over. *)
StaffShape == staff \in [Staff -> Request \cup {NoRequest}] /\ exam \in ExamRow /\ requests \in 0 .. MaxRequests

(* Every step keeps these types. *)
LEMMA StaffStep == ASSUME StaffShape, [PaperNext]_paperVars PROVE StaffShape'
<1> USE DEF StaffShape
<1>0. MaxRequests \in Nat
  BY PaperAssumption
<1>1. ASSUME NEW e \in Staff, staff[e] \in Request
      PROVE  \A pc \in {"loaded", "read", "cleared", "saved"} : [staff[e] EXCEPT !.pc = pc] \in Request
  BY <1>1 DEF Request
<1>2. \A e \in Staff : ~At(e, "none") => staff[e] \in Request
  BY DEF At, NoRequest
<1>3. ASSUME NEW e \in Staff, NEW pc \in {"cleared", "saved"}, ~At(e, "none"), MoveOn(e, pc)
      PROVE  staff' \in [Staff -> Request \cup {NoRequest}]
  <2>1. staff' = [staff EXCEPT ![e] = [staff[e] EXCEPT !.pc = pc]]
    BY <1>3 DEF MoveOn
  <2> QED
    BY <1>1, <1>2, <1>3, <2>1
<1>4. ASSUME NEW e \in Staff, Answer(e) PROVE staff' \in [Staff -> Request \cup {NoRequest}]
  BY <1>4 DEF Answer
<1>5. CASE UNCHANGED <<staff, exam, requests>>
  BY <1>5
<1>6. CASE \E e \in Staff, op \in {"rewrite", "switch", "exclude", "publish"} : LoadExam(e, op)
  <2> PICK e \in Staff, op \in {"rewrite", "switch", "exclude", "publish"} : LoadExam(e, op)
    BY <1>6
  <2>1. requests + 1 \in 1 .. MaxRequests /\ requests' = requests + 1
    BY <1>0 DEF LoadExam
  <2>2. [op |-> op, pc |-> "loaded", paper |-> requests + 1, row |-> exam] \in Request
    BY <2>1 DEF Request
  <2> QED
    BY <1>0, <2>1, <2>2 DEF LoadExam
<1>7. CASE \E e \in Staff : Rewrite(e)
  BY <1>3, <1>7 DEF Rewrite, At
<1>11. CASE \E e \in Staff : ReadForRewrite(e)
  <2> PICK e \in Staff : ReadForRewrite(e)
    BY <1>11
  <2>1. staff[e] \in Request
    BY <1>2 DEF ReadForRewrite, At
  <2>2. [staff[e] EXCEPT !.pc = "read", !.row = exam] \in Request
    BY <2>1 DEF Request
  <2>3. staff' = [staff EXCEPT ![e] = [staff[e] EXCEPT !.pc = "read", !.row = exam]]
    BY DEF ReadForRewrite
  <2> QED
    BY <2>2, <2>3 DEF ReadForRewrite
<1>8. CASE \E e \in Staff : CommitRewrite(e)
  <2> PICK e \in Staff : CommitRewrite(e)
    BY <1>8
  <2>1. staff[e] \in Request
    BY <1>2 DEF CommitRewrite, At
  <2>2. \A excluded \in BOOLEAN :
           [staff[e].row EXCEPT !.paper = staff[e].paper, !.excluded = excluded] \in ExamRow
    <3>1. staff[e].row \in ExamRow /\ staff[e].paper \in 0 .. MaxRequests
      BY <2>1, <1>0 DEF Request
    <3>2. /\ [staff[e].row EXCEPT !.paper = staff[e].paper, !.excluded = TRUE] \in ExamRow
          /\ [staff[e].row EXCEPT !.paper = staff[e].paper, !.excluded = FALSE] \in ExamRow
      BY <3>1 DEF ExamRow
    <3> QED
      BY <3>2, Zenon
  <2> QED
    BY <1>4, <2>2 DEF CommitRewrite
<1>9. CASE \E e \in Staff : SaveExam(e) \/ PublishResult(e)
  <2> PICK e \in Staff : SaveExam(e) \/ PublishResult(e)
    BY <1>9
  <2>1. staff[e].row \in ExamRow /\ staff[e].op \in {"switch", "exclude", "publish"}
    BY <1>2 DEF SaveExam, PublishResult, At, Request
  <2>2. /\ [staff[e].row EXCEPT !.active = ~@] \in ExamRow /\ [staff[e].row EXCEPT !.published = TRUE] \in ExamRow
        /\ [staff[e].row EXCEPT !.excluded = ~@] \in ExamRow
    BY <2>1 DEF ExamRow
  <2>3. ToSave(e) \in ExamRow
    BY <2>1, <2>2 DEF ToSave
  <2> QED
    BY <1>3, <1>4, <2>3 DEF SaveExam, PublishResult, At
<1>10. CASE \E e \in Staff : RollBack(e) \/ InvalidateExam(e) \/ LoseInvalidation(e)
  BY <1>4, <1>10 DEF RollBack, InvalidateExam, LoseInvalidation
<1> QED
  BY <1>5, <1>6, <1>7, <1>8, <1>9, <1>10, <1>11
  DEF PaperNext, paperVars, BeginExam, ExpirePaper, ReadPaper, StorePaper, KeepPaper

(* Every step keeps that an outdated copy has an explanation: a save that outdates it is about
   to invalidate it, and whatever outdates it without that taints it. *)
LEMMA ExplainStep == ASSUME StaffShape, PaperExplained, [PaperNext]_paperVars PROVE PaperExplained'
<1> USE DEF PaperExplained, Outdated
<1>0. staff \in [Staff -> Request \cup {NoRequest}]
  BY DEF StaffShape
<1>1. ASSUME NEW e \in Staff, NEW pc, MoveOn(e, pc), ~At(e, "saved")
      PROVE  \A x \in Staff : At(x, "saved") => staff'[x].pc = "saved"
  BY <1>0, <1>1 DEF MoveOn, At
<1>2. ASSUME NEW e \in Staff, Answer(e), ~At(e, "saved")
      PROVE  \A x \in Staff : At(x, "saved") => staff'[x].pc = "saved"
  BY <1>0, <1>2 DEF Answer, At
<1>3. CASE UNCHANGED <<exam, staff, copy, tainted>>
  BY <1>3 DEF View, At
<1>4. CASE \E e \in Staff, op \in {"rewrite", "switch", "exclude", "publish"} : LoadExam(e, op)
  BY <1>0, <1>4 DEF LoadExam, View, At, cacheVars
<1>5. CASE \E e \in Staff : Rewrite(e)
  BY <1>1, <1>5 DEF Rewrite, Drop, View, At, cacheVars
<1>13. CASE \E e \in Staff : ReadForRewrite(e)
  BY <1>0, <1>13 DEF ReadForRewrite, View, At, cacheVars
<1>6. CASE \E e \in Staff : CommitRewrite(e)
  BY <1>6 DEF CommitRewrite
<1>7. CASE \E e \in Staff : RollBack(e)
  BY <1>2, <1>7 DEF RollBack, View, At, cacheVars
<1>8. CASE \E e \in Staff : SaveExam(e)
  <2> PICK e \in Staff : SaveExam(e)
    BY <1>8
  <2>1. staff[e] \in Request
    BY <1>0 DEF SaveExam, At, NoRequest
  <2>2. staff'[e].pc = "saved"
    BY <1>0, <2>1 DEF SaveExam, MoveOn, Request
  <2> QED
    BY <2>2 DEF At
<1>9. CASE \E e \in Staff : PublishResult(e)
  BY <1>2, <1>9 DEF PublishResult, At
<1>10. CASE \E e \in Staff : InvalidateExam(e) \/ LoseInvalidation(e)
  BY <1>10 DEF InvalidateExam, LoseInvalidation, Drop, Miss
<1>11. CASE \E r \in Reader : StorePaper(r)
  BY <1>11 DEF StorePaper, Fill, View
<1>12. CASE ExpirePaper
  BY <1>12 DEF ExpirePaper, Expire, Drop
<1> QED
  BY <1>3, <1>4, <1>5, <1>6, <1>7, <1>8, <1>9, <1>10, <1>11, <1>12, <1>13
  DEF PaperNext, paperVars, cacheVars, BeginExam, ReadPaper, Load, KeepPaper, SkipFill

(* The cached paper is the exam's, unless a change has yet to invalidate it or its
   invalidation was lost, too early for a slow reader, or never made (ExamPaperCacheService). *)
THEOREM PaperExplainedHolds == PaperSpec => []PaperExplained
<1>1. PaperInit => StaffShape /\ PaperExplained
  BY PaperAssumption DEF PaperInit, StaffShape, ExamRow, NewExam, PaperExplained, Outdated, CacheInit
<1> QED
  BY <1>1, StaffStep, ExplainStep, PTL DEF PaperSpec

(* The rest of the types: the start of the exam, the copy and what readers loaded. *)
Views == [paper : 0 .. MaxRequests, excluded : BOOLEAN, active : BOOLEAN]
PaperRest ==
    /\ begun \in BOOLEAN /\ tainted \in BOOLEAN
    /\ copy \in Views \cup {NoCopy} /\ loaded \in [Reader -> Views \cup {NoCopy}]

(* What is loaded and stored is a view of an exam's row. *)
LEMMA PaperRestStep == ASSUME StaffShape, PaperRest, [PaperNext]_paperVars PROVE PaperRest'
<1>0. /\ copy \in Views \cup {NoCopy} /\ loaded \in [Reader -> Views \cup {NoCopy}] /\ View \in Views
      /\ begun \in BOOLEAN /\ tainted \in BOOLEAN
  BY DEF StaffShape, PaperRest, ExamRow, View, Views
<1>1. begun' \in BOOLEAN
  <2>1. begun' = begun \/ begun' = TRUE
    BY Zenon DEF PaperNext, paperVars, BeginExam, ExpirePaper, LoadExam, ReadForRewrite, Rewrite, CommitRewrite, RollBack, SaveExam, PublishResult,
       InvalidateExam, LoseInvalidation, ReadPaper, StorePaper, KeepPaper
  <2> QED
    BY <1>0, <2>1, Zenon
<1>2. tainted' \in BOOLEAN
  <2>1. ASSUME tainted' = tainted \/ tainted' = TRUE \/ tainted' = FALSE PROVE tainted' \in BOOLEAN
    BY <1>0, <2>1, Zenon
  <2>2. CASE \E e \in Staff : CommitRewrite(e)
    BY <2>2, Zenon DEF CommitRewrite
  <2>3. CASE \E e \in Staff : PublishResult(e)
    BY <2>3, Zenon DEF PublishResult
  <2>4. CASE \E r \in Reader : StorePaper(r)
    BY <2>4, Zenon DEF StorePaper, Fill
  <2>5. CASE UNCHANGED paperVars \/ BeginExam \/ ExpirePaper \/ \E e \in Staff :
              \/ \E op \in {"rewrite", "switch", "exclude", "publish"} : LoadExam(e, op)
              \/ ReadForRewrite(e) \/ Rewrite(e) \/ RollBack(e) \/ SaveExam(e) \/ InvalidateExam(e) \/ LoseInvalidation(e)
    BY <2>1, <2>5, Zenon DEF paperVars, cacheVars, BeginExam, ExpirePaper, Expire, LoadExam, ReadForRewrite, Rewrite, RollBack, SaveExam,
       InvalidateExam, LoseInvalidation, Drop, Miss
  <2>6. CASE \E r \in Reader : ReadPaper(r) \/ KeepPaper(r)
    BY <2>1, <2>6, Zenon DEF ReadPaper, KeepPaper, Load, SkipFill
  <2> QED
    BY <2>2, <2>3, <2>4, <2>5, <2>6 DEF PaperNext
<1>3. copy' \in Views \cup {NoCopy} /\ loaded' \in [Reader -> Views \cup {NoCopy}]
  <2>1. CASE UNCHANGED loaded /\ (copy' = copy \/ copy' = NoCopy)
    BY <1>0, <2>1
  <2>2. CASE \E r \in Reader : ReadPaper(r) \/ StorePaper(r) \/ KeepPaper(r)
    BY <1>0, <2>2 DEF ReadPaper, StorePaper, KeepPaper, Load, Fill, SkipFill
  <2>3. (UNCHANGED loaded /\ (copy' = copy \/ copy' = NoCopy)) \/ \E r \in Reader : ReadPaper(r) \/ StorePaper(r) \/ KeepPaper(r)
    BY Zenon DEF PaperNext, paperVars, cacheVars, BeginExam, ExpirePaper, Expire, LoadExam, ReadForRewrite, Rewrite, CommitRewrite, RollBack,
       SaveExam, PublishResult, InvalidateExam, LoseInvalidation, Drop, Miss
  <2> QED
    BY <2>1, <2>2, <2>3
<1> QED
  BY <1>1, <1>2, <1>3, Zenon DEF PaperRest

(* The exam's row, its cached copy and what each request holds keep their types. *)
THEOREM PaperTypeCorrect == PaperSpec => []PaperTypeOK
<1>1. PaperInit => StaffShape /\ PaperRest
  <2>1. PaperInit => StaffShape
    BY PaperAssumption DEF PaperInit, StaffShape, ExamRow, NewExam
  <2>2. PaperInit => PaperRest
    BY DEF PaperInit, CacheInit, PaperRest
  <2> QED
    BY <2>1, <2>2
<1>2. StaffShape /\ PaperRest => PaperTypeOK
  BY Zenon DEF StaffShape, PaperRest, Views, PaperTypeOK, CacheTypeOK
<1> QED
  BY <1>1, <1>2, StaffStep, PaperRestStep, PTL DEF PaperSpec

-----------------------------------------------------------------------------
(* What a teacher who marks, or rests, holds. *)
MarkerShape == [pc : {"idle", "mark", "more", "store", "recount", "save", "look", "show"},
                todo : MarkSheet, row : Sheet, seen : MarkSheet]

(* The types of the grading module. *)
GradingShape == marks \in MarkSheet /\ sheet \in Sheet /\ marker \in [Marker -> MarkerShape]

(* Whatever says that all is marked, loaded or seen at any time, is right. *)
MarkedInv ==
    /\ sheet.graded => AllMarked(marks)
    /\ \A m \in Marker : /\ marker[m].row.graded => AllMarked(marks)
                         /\ AllMarked(marker[m].seen) => AllMarked(marks)
    /\ published # "no" => AllMarked(marks)

(* A marker with some of its fields changed is a marker. *)
LEMMA MarkerFields ==
    ASSUME NEW x \in MarkerShape
    PROVE  /\ \A m \in MarkSheet, pc \in {"store", "save", "show", "mark"} : [x EXCEPT !.seen = m, !.pc = pc] \in MarkerShape
           /\ \A q \in Question : [x EXCEPT !.pc = "more", !.todo[q] = NoMark] \in MarkerShape
           /\ [x EXCEPT !.pc = "recount"] \in MarkerShape
<1> USE DEF MarkerShape
<1>1. ASSUME NEW q \in Question PROVE [x EXCEPT !.pc = "more", !.todo[q] = NoMark] \in MarkerShape
  <2>1. x.todo \in MarkSheet /\ [x.todo EXCEPT ![q] = NoMark] \in MarkSheet
    BY GradingAssumption DEF MarkSheet, NoMark
  <2>2. [x EXCEPT !.pc = "more", !.todo[q] = NoMark] = [x EXCEPT !.pc = "more", !.todo = [x.todo EXCEPT ![q] = NoMark]]
    OBVIOUS
  <2> QED
    BY <2>1, <2>2
<1>2. ASSUME NEW m \in MarkSheet, NEW pc \in {"store", "save", "show", "mark"}
      PROVE  [x EXCEPT !.seen = m, !.pc = pc] \in MarkerShape
  OBVIOUS
<1>3. [x EXCEPT !.pc = "recount"] \in MarkerShape
  OBVIOUS
<1> QED
  BY <1>1, <1>2, <1>3

(* A total is a number. *)
LEMMA TotalType == \A m \in MarkSheet : Total(m) \in Nat
<1> SUFFICES ASSUME NEW m \in MarkSheet PROVE Total(m) \in Nat
  OBVIOUS
<1> DEFINE S == {q \in Question : m[q] # NoMark}
<1>1. IsFiniteSet(S)
  BY GradingAssumption, FS_Subset
<1>2. \A q \in S : m[q] \in Nat
  BY GradingAssumption DEF MarkSheet, NoMark
<1> HIDE DEF S
<1>3. SumFunctionOnSet(m, S) \in Nat
  BY <1>1, <1>2, SumType
<1> QED
  BY <1>3 DEF Total, S

(* A teacher at rest, and a sheet without marks, have their types. *)
LEMMA NoMarkingShape == NoMarking \in MarkerShape /\ NoMarks \in MarkSheet
  BY GradingAssumption DEF NoMarking, NoMarks, MarkerShape, MarkSheet, Sheet, NoMark

(* At the start nothing is marked, graded or published. *)
LEMMA MarkedInit == GradingInit => GradingShape /\ MarkedInv
<1>1. NoMarking.row = [total |-> 0, graded |-> FALSE] /\ NoMarking.seen = NoMarks /\ ~AllMarked(NoMarks)
  BY GradingAssumption DEF NoMarking, AllMarked, NoMarks
<1> QED
  BY <1>1, NoMarkingShape DEF GradingInit, GradingShape, MarkedInv, Sheet

(* Every step keeps MarkedInv: a question once marked stays marked, so what was complete
   when it was loaded still is. *)
LEMMA MarkedStep == ASSUME GradingShape, MarkedInv, [GradingNext]_gradingVars PROVE GradingShape' /\ MarkedInv'
<1> USE DEF GradingShape, MarkedInv
<1>0. /\ NoMarking \in MarkerShape /\ ~NoMarking.row.graded /\ NoMarking.seen = NoMarks /\ ~AllMarked(NoMarks)
      /\ \A m \in MarkSheet : Total(m) \in Nat
  <2>1. ~AllMarked(NoMarks)
    BY GradingAssumption DEF AllMarked, NoMarks
  <2> QED
    BY <2>1, NoMarkingShape, TotalType DEF NoMarking
<1>1. CASE CheckGraded \/ PublishGrades
  BY <1>1 DEF CheckGraded, PublishGrades
<1>2. CASE \E m \in Marker : OpenToMark(m) \/ OpenToLook(m)
  <2> PICK m \in Marker : OpenToMark(m) \/ OpenToLook(m)
    BY <1>2
  <2>1. PICK x : /\ x \in MarkerShape /\ x.row = sheet /\ x.seen = NoMarks
                 /\ marker' = [marker EXCEPT ![m] = x] /\ UNCHANGED <<marks, sheet, published>>
    <3>1. ASSUME NEW todo \in MarkSheet
          PROVE  LET x == [NoMarking EXCEPT !.pc = "mark", !.todo = todo, !.row = sheet]
                 IN  x \in MarkerShape /\ x.row = sheet /\ x.seen = NoMarks
      BY <1>0, NoMarkingShape DEF NoMarking, MarkerShape
    <3>2. LET x == [NoMarking EXCEPT !.pc = "look", !.row = sheet]
          IN  x \in MarkerShape /\ x.row = sheet /\ x.seen = NoMarks
      BY <1>0, NoMarkingShape DEF NoMarking, MarkerShape
    <3> QED
      BY <3>1, <3>2 DEF OpenToMark, OpenToLook, Enter
  <2> QED
    BY <1>0, <2>1
<1>3. CASE \E m \in Marker, q \in Question : SaveMark(m, q)
  <2> PICK m \in Marker, q \in Question : SaveMark(m, q)
    BY <1>3
  <2>1. marks' = [marks EXCEPT ![q] = marker[m].todo[q]] /\ marker[m].todo \in MarkSheet /\ marker[m].todo[q] # NoMark
    BY DEF SaveMark, MarkerShape
  <2>2. marks' \in MarkSheet /\ (AllMarked(marks) => AllMarked(marks'))
    BY <2>1 DEF MarkSheet, AllMarked
  <2>3. /\ marker' = [marker EXCEPT ![m] = [marker[m] EXCEPT !.pc = "more", !.todo[q] = NoMark]]
        /\ UNCHANGED <<sheet, published>>
    BY DEF SaveMark
  <2>4. marker' \in [Marker -> MarkerShape]
    BY <2>3, MarkerFields
  <2>5. \A x \in Marker : marker'[x].row = marker[x].row /\ marker'[x].seen = marker[x].seen
    BY <2>3 DEF MarkerShape
  <2> QED
    BY <2>2, <2>3, <2>4, <2>5
<1>4. CASE \E m \in Marker : ReadMarks(m)
  <2> PICK m \in Marker : ReadMarks(m)
    BY <1>4
  <2>1. PICK pc \in {"store", "save", "show"} : marker' = [marker EXCEPT ![m] = [marker[m] EXCEPT !.seen = marks, !.pc = pc]]
    BY DEF ReadMarks
  <2>2. marker' \in [Marker -> MarkerShape]
    BY <2>1, MarkerFields
  <2>3. \A x \in Marker : marker'[x].row = marker[x].row /\ marker'[x].seen \in {marker[x].seen, marks}
    BY <2>1 DEF MarkerShape
  <2>4. UNCHANGED <<marks, sheet, published>>
    BY DEF ReadMarks
  <2> QED
    BY <2>2, <2>3, <2>4
<1>5. CASE \E m \in Marker : StoreTotal(m)
  <2> PICK m \in Marker : StoreTotal(m)
    BY <1>5
  <2>1. marker' = [marker EXCEPT ![m] = [marker[m] EXCEPT !.pc = "recount"]] /\ UNCHANGED <<marks, published>>
    BY DEF StoreTotal
  <2>2. marker' \in [Marker -> MarkerShape]
    BY <2>1, MarkerFields
  <2>3. \A x \in Marker : marker'[x].row = marker[x].row /\ marker'[x].seen = marker[x].seen
    BY <2>1 DEF MarkerShape
  <2>4. sheet' \in Sheet /\ sheet'.graded = sheet.graded
    BY <1>0 DEF StoreTotal, Sheet, MarkerShape
  <2> QED
    BY <2>1, <2>2, <2>3, <2>4
<1>6. CASE \E m \in Marker : SaveSheet(m) \/ SaveLook(m)
  <2> PICK m \in Marker : SaveSheet(m) \/ SaveLook(m)
    BY <1>6
  <2>1. marker[m].seen \in MarkSheet /\ marker[m].row.graded \in BOOLEAN
    BY DEF MarkerShape, Sheet
  <2>2. sheet' \in Sheet /\ (sheet'.graded => AllMarked(marks))
    <3>1. AllMarked(marker[m].seen) \in BOOLEAN /\ Total(marker[m].seen) \in Nat
      BY <1>0, <2>1 DEF AllMarked
    <3> QED
      BY <2>1, <3>1 DEF SaveSheet, SaveLook, Sheet
  <2>3. marker' = [marker EXCEPT ![m] = NoMarking] /\ UNCHANGED <<marks, published>>
    BY DEF SaveSheet, SaveLook
  <2> QED
    BY <1>0, <2>2, <2>3
<1>7. CASE \E m \in Marker : EndEarly(m)
  BY <1>0, <1>7 DEF EndEarly
<1>8. CASE UNCHANGED gradingVars
  BY <1>8 DEF gradingVars
<1> QED
  BY <1>1, <1>2, <1>3, <1>4, <1>5, <1>6, <1>7, <1>8 DEF GradingNext, RejectMark, DropMarking

(* Results are published only when every answer has a mark, however
   requests overlap, die and save old rows. *)
THEOREM PublishedMarkedHolds == GradingSpec => []PublishedMarked
<1>1. MarkedInv => PublishedMarked
  BY DEF MarkedInv, PublishedMarked
<1> QED
  BY <1>1, MarkedInit, MarkedStep, PTL DEF GradingSpec

-----------------------------------------------------------------------------
(* The rest of the grading types: a teacher who is not at work holds nothing. *)
GradingRest ==
    /\ \A m \in Marker : marker[m].pc = "idle" => marker[m] = NoMarking
    /\ markings \in 0 .. MaxMarkings /\ published \in {"no", "checked", "yes"}

(* The sheet agrees with the marks. *)
AddsUp == sheet = [total |-> Total(marks), graded |-> AllMarked(marks)]

(* A request that is at work alone saves a sheet that it has read from the marks as they are. *)
OneAtWork == \A m, n \in Marker : m # n => marker[m] = NoMarking \/ marker[n] = NoMarking
LoneInv == OneAtWork /\ \A m \in Marker : marker[m].pc = "save" => marker[m].seen = marks

(* Since a request that was alone has saved its marks to the end, the sheet agrees with them
   until another saves its first one, and a look has loaded and read what is there. *)
CleanInv ==
    /\ Quiet => AddsUp
    /\ \A m \in Marker :
          /\ marker[m].pc \in {"mark", "look", "show"} => AddsUp
          /\ marker[m].pc \in {"look", "show"} => marker[m].row.graded = AllMarked(marks)
          /\ marker[m].pc = "show" => marker[m].seen = marks

(* The inductive invariant of GradesAddUp. *)
GradesInv ==
    /\ overlapped \in BOOLEAN /\ torn \in BOOLEAN
    /\ overlapped => torn
    /\ overlapped \/ LoneInv
    /\ torn \/ CleanInv

(* A request that ends rests, and is one of those that are counted. *)
LEMMA GradingRestStep == ASSUME GradingShape, GradingRest, [GradingNext]_gradingVars PROVE GradingRest'
<1> USE DEF GradingRest
<1>0. marker \in [Marker -> MarkerShape]
  BY DEF GradingShape
<1>1. published' \in {"no", "checked", "yes"}
  BY DEF GradingNext, gradingVars, CheckGraded, PublishGrades, OpenToMark, OpenToLook, Enter, SaveMark, ReadMarks, StoreTotal,
         SaveSheet, SaveLook, EndEarly, RejectMark, DropMarking
<1>2. markings' = markings \/ (markings < MaxMarkings /\ markings' = markings + 1)
  BY DEF GradingNext, gradingVars, CheckGraded, PublishGrades, OpenToMark, OpenToLook, Enter, SaveMark, ReadMarks, StoreTotal,
         SaveSheet, SaveLook, EndEarly, RejectMark, DropMarking
<1>3. markings' \in 0 .. MaxMarkings
  BY <1>2, GradingAssumption
<1>4. ASSUME NEW m \in Marker, marker'[m].pc = "idle" PROVE marker'[m] = NoMarking
  <2>1. CASE marker'[m] = marker[m]
    BY <1>4, <2>1
  <2>2. CASE \E n \in Marker : OpenToMark(n) \/ OpenToLook(n)
    BY <1>0, <1>4, <2>1, <2>2 DEF OpenToMark, OpenToLook, Enter, NoMarking
  <2>3. CASE \E n \in Marker, q \in Question : SaveMark(n, q)
    <3> PICK n \in Marker, q \in Question : SaveMark(n, q)
      BY <2>3
    <3>1. marker' = [marker EXCEPT ![n] = [marker[n] EXCEPT !.pc = "more", !.todo[q] = NoMark]]
      BY DEF SaveMark
    <3>2. [marker[n] EXCEPT !.pc = "more", !.todo[q] = NoMark].pc = "more"
      BY <1>0, <3>1 DEF MarkerShape
    <3> QED
      BY <1>0, <1>4, <2>1, <3>1, <3>2
  <2>4. CASE \E n \in Marker : ReadMarks(n)
    <3> PICK n \in Marker : ReadMarks(n)
      BY <2>4
    <3>1. PICK pc \in {"store", "save", "show"} : marker' = [marker EXCEPT ![n] = [marker[n] EXCEPT !.seen = marks, !.pc = pc]]
      BY DEF ReadMarks
    <3>2. [marker[n] EXCEPT !.seen = marks, !.pc = pc].pc = pc
      BY <1>0 DEF MarkerShape
    <3> QED
      BY <1>0, <1>4, <2>1, <3>1, <3>2
  <2>5. CASE \E n \in Marker : StoreTotal(n)
    BY <1>0, <1>4, <2>1, <2>5 DEF StoreTotal, MarkerShape
  <2>6. CASE \E n \in Marker : SaveSheet(n) \/ SaveLook(n) \/ EndEarly(n)
    BY <1>0, <1>4, <2>1, <2>6 DEF SaveSheet, SaveLook, EndEarly
  <2> QED
    BY <2>1, <2>2, <2>3, <2>4, <2>5, <2>6 DEF GradingNext, gradingVars, CheckGraded, PublishGrades, RejectMark, DropMarking
<1> QED
  BY <1>1, <1>3, <1>4

(* A request at work is the only one. *)
LEMMA OnlyOne ==
    ASSUME LoneInv, GradingShape, NEW m \in Marker, marker[m].pc # "idle"
    PROVE  \A n \in Marker : n # m => marker[n] = NoMarking /\ marker[n].pc = "idle"
<1>1. NoMarking.pc = "idle" /\ OneAtWork
  BY DEF NoMarking, LoneInv
<1> QED
  BY <1>1 DEF OneAtWork

(* A lone request that goes on stays the only one, and keeps what is asked of it. *)
LEMMA LoneGoesOn ==
    ASSUME GradingShape, LoneInv, NEW m \in Marker, marker[m].pc # "idle",
           NEW x, marker' = [marker EXCEPT ![m] = x], x.pc # "idle",
           x.pc = "save" => x.seen = marks',
           x.pc \in {"mark", "look", "show"} => AddsUp',
           x.pc \in {"look", "show"} => x.row.graded = AllMarked(marks'),
           x.pc = "show" => x.seen = marks'
    PROVE  LoneInv' /\ CleanInv'
<1>1. marker'[m] = x /\ \A n \in Marker : n # m => marker'[n] = NoMarking /\ marker'[n].pc = "idle"
  BY OnlyOne DEF GradingShape
<1>2. ~Quiet'
  BY <1>1 DEF Quiet, NoMarking
<1>3. OneAtWork'
  BY <1>1 DEF OneAtWork
<1> QED
  BY <1>1, <1>2, <1>3 DEF LoneInv, CleanInv

(* A request that ends leaves the others as they are; after a lone one all rest. *)
LEMMA MarkingEnds ==
    ASSUME GradingShape, LoneInv, NEW m \in Marker, marker' = [marker EXCEPT ![m] = NoMarking], marks' = marks
    PROVE  /\ LoneInv'
           /\ marker[m].pc # "idle" /\ AddsUp' => CleanInv'
<1>1. NoMarking.pc = "idle" /\ marker'[m] = NoMarking /\ \A n \in Marker : n # m => marker'[n] = marker[n]
  BY DEF GradingShape, NoMarking
<1>2. LoneInv'
  BY <1>1 DEF LoneInv, OneAtWork
<1>3. ASSUME marker[m].pc # "idle", AddsUp' PROVE CleanInv'
  <2>1. \A n \in Marker : marker'[n].pc = "idle"
    BY <1>1, <1>3, OnlyOne
  <2> QED
    BY <1>3, <2>1 DEF CleanInv
<1> QED
  BY <1>2, <1>3

(* A request that starts beside another is noted; one that is alone has a sheet that
   agrees with the marks when it ends, unless it ends early with some of its marks saved. *)
LEMMA GradesStep == ASSUME GradingShape, GradingRest, GradesInv, [GradingNext]_gradingVars PROVE GradesInv'
<1>0. marker \in [Marker -> MarkerShape] /\ NoMarking.pc = "idle" /\ overlapped \in BOOLEAN /\ torn \in BOOLEAN
  BY DEF GradingShape, GradesInv, NoMarking
<1>1. CASE \E m \in Marker : OpenToMark(m) \/ OpenToLook(m)
  <2> PICK m \in Marker : OpenToMark(m) \/ OpenToLook(m)
    BY <1>1
  <2>1. PICK x : /\ x.pc = "mark" \/ (x.pc = "look" /\ x.row = sheet)
                 /\ marker' = [marker EXCEPT ![m] = x] /\ UNCHANGED <<marks, sheet>>
    BY DEF OpenToMark, OpenToLook, Enter, NoMarking
  <2>2. overlapped' = ~Quiet /\ torn' = (torn \/ ~Quiet)
    BY Zenon DEF OpenToMark, OpenToLook, Enter
  <2>3. CASE ~Quiet
    <3>1. overlapped' = TRUE /\ torn' = TRUE
      BY <2>2, <2>3, Zenon
    <3> QED
      BY <3>1 DEF GradesInv
  <2>4. CASE Quiet
    <3>1. overlapped' = FALSE /\ torn' = torn
      BY <1>0, <2>2, <2>4, Zenon
    <3>2. marker'[m] = x /\ \A n \in Marker : n # m => marker'[n] = NoMarking
      BY <1>0, <2>1, <2>4 DEF Quiet
    <3>3. LoneInv'
      BY <1>0, <2>1, <3>2 DEF LoneInv, OneAtWork
    <3>4. ASSUME CleanInv PROVE CleanInv'
      <4>1. AddsUp /\ sheet.graded = AllMarked(marks)
        BY <2>4, <3>4 DEF CleanInv, AddsUp
      <4>2. AddsUp' /\ AllMarked(marks') = AllMarked(marks)
        BY <2>1, <4>1 DEF AddsUp, AllMarked
      <4> QED
        BY <1>0, <2>1, <3>2, <4>1, <4>2 DEF CleanInv, Quiet
    <3>5. torn \/ CleanInv'
      BY <3>4 DEF GradesInv
    <3>6. CASE torn = TRUE
      BY <3>1, <3>3, <3>6 DEF GradesInv
    <3>7. CASE torn = FALSE
      BY <3>1, <3>3, <3>5, <3>7 DEF GradesInv
    <3> QED
      BY <1>0, <3>6, <3>7
  <2> QED
    BY <2>3, <2>4
<1>2. ASSUME UNCHANGED <<overlapped, torn>>, LoneInv => LoneInv', LoneInv /\ CleanInv => CleanInv' PROVE GradesInv'
  <2>1. CASE torn = TRUE
    BY <1>0, <1>2, <2>1 DEF GradesInv
  <2>2. CASE torn = FALSE
    <3>1. overlapped = FALSE /\ LoneInv /\ CleanInv
      BY <1>0, <2>2 DEF GradesInv
    <3> QED
      BY <1>2, <2>2, <3>1 DEF GradesInv
  <2> QED
    BY <1>0, <2>1, <2>2
<1>3. ASSUME NEW m \in Marker, NEW q \in Question, SaveMark(m, q) PROVE GradesInv'
  <2> DEFINE x == [marker[m] EXCEPT !.pc = "more", !.todo[q] = NoMark]
  <2>1. marker' = [marker EXCEPT ![m] = x] /\ marker[m].pc # "idle" /\ UNCHANGED <<overlapped, torn>>
    BY <1>3 DEF SaveMark
  <2>2. x.pc = "more"
    BY <1>0 DEF MarkerShape
  <2> HIDE DEF x
  <2>3. LoneInv => LoneInv' /\ CleanInv'
    BY <2>1, <2>2, LoneGoesOn
  <2> QED
    BY <1>2, <2>1, <2>3
<1>4. ASSUME NEW m \in Marker, ReadMarks(m) PROVE GradesInv'
  <2>1. PICK pc \in {"store", "save", "show"} :
           /\ marker' = [marker EXCEPT ![m] = [marker[m] EXCEPT !.seen = marks, !.pc = pc]]
           /\ marker[m].pc # "idle" /\ (pc = "show" => marker[m].pc = "look")
           /\ UNCHANGED <<marks, sheet, overlapped, torn>>
    BY <1>4 DEF ReadMarks
  <2> DEFINE x == [marker[m] EXCEPT !.seen = marks, !.pc = pc]
  <2>2. x.pc = pc /\ x.seen = marks /\ x.row = marker[m].row
    BY <1>0 DEF MarkerShape
  <2>3. marker' = [marker EXCEPT ![m] = x]
    BY <2>1
  <2> HIDE DEF x
  <2>4. LoneInv => LoneInv'
    <3>1. ASSUME LoneInv PROVE \A n \in Marker : n # m => marker'[n] = NoMarking
      BY <1>0, <2>1, <2>3, <3>1, OnlyOne
    <3> QED
      BY <1>0, <2>1, <2>2, <2>3, <3>1 DEF LoneInv, OneAtWork
  <2>5. ASSUME LoneInv, CleanInv PROVE CleanInv'
    <3>1. pc = "show" => AddsUp /\ x.row.graded = AllMarked(marks)
      BY <2>1, <2>2, <2>5 DEF CleanInv
    <3>2. AllMarked(marks') = AllMarked(marks) /\ marks' = marks /\ (AddsUp => AddsUp')
      BY <2>1 DEF AllMarked, AddsUp
    <3> QED
      BY <2>1, <2>2, <2>3, <2>5, <3>1, <3>2, LoneGoesOn
  <2> QED
    BY <1>2, <2>1, <2>4, <2>5
<1>5. ASSUME NEW m \in Marker, StoreTotal(m) PROVE GradesInv'
  <2> DEFINE x == [marker[m] EXCEPT !.pc = "recount"]
  <2>1. marker' = [marker EXCEPT ![m] = x] /\ marker[m].pc = "store" /\ UNCHANGED <<overlapped, torn>>
    BY <1>5 DEF StoreTotal
  <2>2. x.pc = "recount"
    BY <1>0 DEF MarkerShape
  <2> HIDE DEF x
  <2>3. LoneInv => LoneInv' /\ CleanInv'
    BY <2>1, <2>2, LoneGoesOn
  <2> QED
    BY <1>2, <2>1, <2>3
<1>6. ASSUME NEW m \in Marker, SaveSheet(m) PROVE GradesInv'
  <2>1. /\ marker' = [marker EXCEPT ![m] = NoMarking] /\ marker[m].pc = "save" /\ marks' = marks
        /\ sheet' = [total |-> Total(marker[m].seen), graded |-> AllMarked(marker[m].seen)]
    BY <1>6 DEF SaveSheet
  <2>2. overlapped' = overlapped /\ torn' = (torn /\ overlapped)
    BY <1>6, Zenon DEF SaveSheet
  <2>3. CASE overlapped = TRUE
    <3>1. torn = TRUE
      BY <1>0, <2>3 DEF GradesInv
    <3>2. torn' = TRUE
      BY <2>2, <2>3, <3>1, Zenon
    <3> QED
      BY <2>2, <2>3, <3>2 DEF GradesInv
  <2>4. CASE overlapped = FALSE
    <3>1. LoneInv /\ marker[m].seen = marks
      BY <2>1, <2>4 DEF GradesInv, LoneInv
    <3>2. AddsUp'
      BY <2>1, <3>1 DEF AddsUp
    <3>3. LoneInv' /\ CleanInv'
      BY <2>1, <3>1, <3>2, MarkingEnds
    <3>4. torn' = FALSE
      BY <2>2, <2>4, Zenon
    <3> QED
      BY <2>2, <2>4, <3>3, <3>4 DEF GradesInv
  <2> QED
    BY <1>0, <2>3, <2>4
<1>7. ASSUME NEW m \in Marker, SaveLook(m) PROVE GradesInv'
  <2>1. /\ marker' = [marker EXCEPT ![m] = NoMarking] /\ marker[m].pc = "show" /\ marks' = marks
        /\ sheet' = [total |-> Total(marker[m].seen), graded |-> marker[m].row.graded]
        /\ UNCHANGED <<overlapped, torn>>
    BY <1>7 DEF SaveLook
  <2>2. ASSUME CleanInv PROVE AddsUp'
    <3>1. marker[m].seen = marks /\ marker[m].row.graded = AllMarked(marks)
      BY <2>1, <2>2 DEF CleanInv
    <3> QED
      BY <2>1, <3>1 DEF AddsUp
  <2> QED
    BY <1>2, <2>1, <2>2, MarkingEnds
<1>8. ASSUME NEW m \in Marker, EndEarly(m), marker[m].pc # "idle" PROVE GradesInv'
  <2>1. marker' = [marker EXCEPT ![m] = NoMarking] /\ UNCHANGED <<marks, sheet, overlapped>>
    BY <1>8 DEF EndEarly
  <2>2. torn' = (torn \/ marker[m].pc \in {"more", "store", "recount", "save"})
    BY <1>8, Zenon DEF EndEarly
  <2>3. LoneInv => LoneInv'
    BY <2>1, MarkingEnds
  <2>4. CASE torn = TRUE \/ marker[m].pc \in {"more", "store", "recount", "save"}
    <3>1. torn' = TRUE
      BY <2>2, <2>4, Zenon
    <3> QED
      BY <1>0, <2>1, <2>3, <3>1 DEF GradesInv
  <2>5. CASE torn = FALSE /\ marker[m].pc \notin {"more", "store", "recount", "save"}
    <3>1. torn' = FALSE
      BY <2>2, <2>5, Zenon
    <3>2. overlapped = FALSE /\ LoneInv /\ CleanInv /\ marker[m].pc \in {"mark", "look", "show"}
      BY <1>0, <1>8, <2>5 DEF GradesInv, MarkerShape
    <3>3. AddsUp'
      BY <2>1, <3>2 DEF CleanInv, AddsUp
    <3>4. CleanInv'
      BY <1>8, <2>1, <3>2, <3>3, MarkingEnds
    <3> QED
      BY <2>1, <2>3, <3>1, <3>2, <3>4 DEF GradesInv
  <2> QED
    BY <1>0, <2>4, <2>5
<1>9. CASE CheckGraded \/ PublishGrades \/ UNCHANGED gradingVars
  <2>1. UNCHANGED <<marks, sheet, marker, overlapped, torn>>
    BY <1>9 DEF CheckGraded, PublishGrades, gradingVars
  <2>2. LoneInv => LoneInv'
    BY <2>1 DEF LoneInv, OneAtWork
  <2>3. CleanInv => CleanInv'
    BY <2>1 DEF CleanInv, AddsUp, Quiet, AllMarked
  <2> QED
    BY <1>2, <2>1, <2>2, <2>3
<1>10. \A m \in Marker : RejectMark(m) \/ DropMarking(m) => EndEarly(m) /\ marker[m].pc # "idle"
  BY DEF RejectMark, DropMarking, GradingRest
<1> QED
  BY <1>1, <1>3, <1>4, <1>5, <1>6, <1>7, <1>8, <1>9, <1>10 DEF GradingNext

(* All of it holds before the first request. *)
LEMMA GradesInit == GradingInit => GradingShape /\ MarkedInv /\ GradingRest /\ GradesInv
<1> SUFFICES ASSUME GradingInit PROVE GradingShape /\ MarkedInv /\ GradingRest /\ GradesInv
  OBVIOUS
<1>1. NoMarking.pc = "idle" /\ ~AllMarked(NoMarks)
  BY GradingAssumption DEF NoMarking, AllMarked, NoMarks
<1>2. GradingShape /\ MarkedInv
  BY MarkedInit
<1>3. GradingRest
  BY GradingAssumption DEF GradingInit, GradingRest
<1>4. Total(NoMarks) = 0
  <2>1. {q \in Question : NoMarks[q] # NoMark} = {}
    BY DEF NoMarks
  <2> QED
    BY <2>1, SumEmpty, Zenon DEF Total
<1>5. sheet = [total |-> Total(marks), graded |-> AllMarked(marks)]
  <2>1. AllMarked(NoMarks) = FALSE
    BY <1>1, Zenon DEF AllMarked
  <2> QED
    BY <1>4, <2>1 DEF GradingInit
<1>6. LoneInv /\ CleanInv
  BY <1>1, <1>5 DEF GradingInit, LoneInv, OneAtWork, CleanInv, AddsUp
<1> QED
  BY <1>2, <1>3, <1>6 DEF GradesInv, GradingInit

(* The sheet, the marks and what each request holds keep their types; a total is a number. *)
THEOREM GradingTypeCorrect == GradingSpec => []GradingTypeOK
<1>1. GradingShape /\ GradingRest /\ GradesInv => GradingTypeOK
  <2> SUFFICES ASSUME GradingShape, GradingRest, GradesInv PROVE GradingTypeOK
    OBVIOUS
  <2>1. \A m \in Marker : marker[m] \in Marking \cup {NoMarking}
    BY DEF GradingShape, GradingRest, MarkerShape, Marking
  <2>2. marker \in [Marker -> Marking \cup {NoMarking}]
    BY <2>1 DEF GradingShape
  <2>3. {overlapped, torn} \subseteq BOOLEAN
    BY DEF GradesInv
  <2>4. marks \in MarkSheet /\ sheet \in Sheet /\ markings \in 0 .. MaxMarkings /\ published \in {"no", "checked", "yes"}
    BY DEF GradingShape, GradingRest
  <2> QED
    BY <2>2, <2>3, <2>4 DEF GradingTypeOK
<1> QED
  BY <1>1, GradesInit, MarkedStep, GradingRestStep, GradesStep, PTL DEF GradingSpec

(* A sheet at rest has the total of its marks, and is graded if and only if every question is,
   for any number of questions and requests, since the last request that saved marks alone and
   to the end: until others overlap, or one is refused at its second mark (saveSubmissionGrades)
   or dies with some of its marks saved. *)
THEOREM GradesAddUpHolds == GradingSpec => []GradesAddUp
<1>1. GradesInv => GradesAddUp
  BY DEF GradesInv, CleanInv, AddsUp, GradesAddUp
<1> QED
  BY <1>1, GradesInit, MarkedStep, GradingRestStep, GradesStep, PTL DEF GradingSpec

-----------------------------------------------------------------------------
(* The types of the upload module that the proof needs. *)
FilesShape ==
    /\ files \in [File -> FileRow]
    /\ tmp \in [File -> 0 .. MaxSize] /\ puts \in [File -> 0 .. MaxPuts]
    /\ reserving \in [File -> 0 .. MaxSize]
    /\ completing \in [Caller -> Call \cup {NoCall}]
    /\ working \in [Worker -> File \cup {NoFile}]

(* Only completed uploads are worked on or ready, and only reserved ones are completed. *)
Settling(f) ==
    /\ reserving[f] # 0 => files[f].status = "NONE"
    /\ files[f].status = "NONE" => ~files[f].original
    /\ files[f].status = "READY" => files[f].original
    /\ puts[f] = 0 => tmp[f] = 0
    /\ \A w \in Worker : working[w] = f => files[f].original
    /\ \A u \in Caller : completing[u].file = f => files[f].status # "NONE"

(* A caller that has loaded the row and not written to it. *)
Asks(u, f) == completing[u].file = f /\ completing[u].pc \in {"head", "refuse"}

(* The object is there, and fits what was reserved and what each caller loaded. *)
Fits(f) ==
    /\ tmp[f] # 0 /\ (files[f].original \/ tmp[f] <= files[f].size)
    /\ \A u \in Caller : Asks(u, f) => tmp[f] <= completing[u].size

(* Until one of them completes it, the callers of a file have loaded the size it was reserved
   with.  So, as long as the browser sent one size, all of them find it to fit or none does. *)
OneSize(f) ==
    /\ ~files[f].original => \A u \in Caller : Asks(u, f) => completing[u].size = files[f].size
    /\ puts[f] <= 1 =>
          /\ \A u \in Caller : completing[u].file = f /\ completing[u].pc = "refuse" => tmp[f] > completing[u].size
          /\ \A u \in Caller : completing[u].file = f /\ completing[u].pc = "store" => Fits(f)
          /\ files[f].original => Fits(f)

SettlingInv == FilesShape /\ \A f \in File : Settling(f) /\ OneSize(f)

(* The rows, objects and requests that SettlingInv speaks of are typed. *)
LEMMA FilesTyped ==
    ASSUME SettlingInv
    PROVE  /\ \A f \in File : /\ files[f] \in FileRow /\ reserving[f] \in Nat /\ tmp[f] \in Nat /\ puts[f] \in Nat
                              /\ files[f].size \in Nat /\ files[f].original \in BOOLEAN
                              /\ tmp[f] \in 0 .. MaxSize /\ reserving[f] \in 0 .. MaxSize
           /\ \A u \in Caller : completing[u].pc # "idle" =>
                  completing[u] \in Call /\ completing[u].file \in File /\ completing[u].size \in Nat
           /\ \A u \in Caller : completing[u].file \in File => completing[u].pc # "idle"
           /\ 1 .. MaxSize \subseteq 0 .. MaxSize /\ NoFile \notin File /\ NoCall.pc = "idle" /\ NoCall.file = NoFile
BY FileAssumption DEF SettlingInv, FilesShape, FileRow, Call, NoCall

(* A step that only ends requests and jobs, or starts a job of a completed upload, and that
   neither stores a row nor completes one, keeps the invariant. *)
LEMMA QuietStep ==
    ASSUME SettlingInv, FilesShape', UNCHANGED <<tmp, puts, reserving>>,
           \A g \in File : /\ files'[g].original = files[g].original
                           /\ files[g].original \/ files'[g].size = files[g].size
                           /\ files'[g].status = "NONE" <=> files[g].status = "NONE"
                           /\ files'[g].status = "READY" => files[g].original,
           \A u \in Caller : \/ completing'[u] = completing[u]
                             \/ completing'[u] = NoCall
                             \/ /\ completing'[u].pc = "enqueue" /\ completing'[u].file = completing[u].file,
           \A w \in Worker : \/ working'[w] = working[w] \/ working'[w] = NoFile
                             \/ working'[w] \in File /\ files[working'[w]].original
    PROVE  SettlingInv'
<1>1. SUFFICES ASSUME NEW f \in File PROVE Settling(f)' /\ OneSize(f)'
  BY DEF SettlingInv
<1>2. Settling(f) /\ OneSize(f) /\ NoFile # f /\ NoCall.file # f
  BY FilesTyped DEF SettlingInv
<1>3. Settling(f)'
  BY <1>2 DEF Settling
<1>4. \A u \in Caller : Asks(u, f)' => Asks(u, f) /\ completing'[u] = completing[u]
  BY <1>2 DEF Asks
<1>5. Fits(f) => Fits(f)'
  BY <1>4 DEF Fits
<1>6. OneSize(f)'
  <2>1. ASSUME ~files'[f].original, NEW u \in Caller, Asks(u, f)' PROVE completing'[u].size = files'[f].size
    BY <1>2, <1>4, <2>1 DEF OneSize
  <2>2. ASSUME puts'[f] <= 1, NEW u \in Caller, completing'[u].file = f, completing'[u].pc = "refuse"
        PROVE  tmp'[f] > completing'[u].size
    BY <1>2, <2>2 DEF OneSize
  <2>3. ASSUME puts'[f] <= 1, NEW u \in Caller, completing'[u].file = f, completing'[u].pc = "store"
        PROVE  Fits(f)'
    BY <1>2, <1>5, <2>3 DEF OneSize
  <2>4. ASSUME puts'[f] <= 1, files'[f].original PROVE Fits(f)'
    BY <1>2, <1>5, <2>4 DEF OneSize
  <2> QED
    BY <2>1, <2>2, <2>3, <2>4 DEF OneSize
<1> QED
  BY <1>3, <1>6

(* Rows of a file with the changes that the steps make are rows. *)
LEMMA FileRows ==
    ASSUME NEW x \in FileRow
    PROVE  /\ LET y == [x EXCEPT !.status = "FAILED"]
              IN  y \in FileRow /\ y.status = "FAILED" /\ y.size = x.size /\ y.original = x.original
           /\ LET y == [x EXCEPT !.deleted = TRUE]
              IN  y \in FileRow /\ y.status = x.status /\ y.size = x.size /\ y.original = x.original
           /\ \A n \in 0 .. MaxSize :
                 LET y == [NewFile EXCEPT !.status = "PENDING", !.size = n]
                 IN  y \in FileRow /\ y.status = "PENDING" /\ y.size = n /\ y.original = FALSE
  BY DEF FileRow, NewFile

(* Taking a row to FAILED, whatever it holds, is a quiet step. *)
LEMMA FailRow ==
    ASSUME SettlingInv, NEW f \in File, files[f].status # "NONE",
           files' = [files EXCEPT ![f] = [files[f] EXCEPT !.status = "FAILED"]]
    PROVE  /\ files' \in [File -> FileRow]
           /\ \A g \in File : /\ files'[g].original = files[g].original /\ files'[g].size = files[g].size
                              /\ files'[g].status = "NONE" <=> files[g].status = "NONE"
                              /\ files'[g].status = "READY" => files[g].original
<1> DEFINE x == [files[f] EXCEPT !.status = "FAILED"]
<1>1. x \in FileRow /\ x.status = "FAILED" /\ x.size = files[f].size /\ x.original = files[f].original
  BY FilesTyped, FileRows
<1>2. files' = [files EXCEPT ![f] = x] /\ files \in [File -> FileRow]
  BY DEF SettlingInv, FilesShape
<1> HIDE DEF x
<1>3. ASSUME NEW g \in File PROVE files'[g] = files[g] \/ (g = f /\ files'[g] = x)
  BY <1>2
<1> QED
  BY <1>1, <1>2, <1>3 DEF SettlingInv, Settling

(* A new PUT: with the first one there is an object, which nobody has looked at. *)
LEMMA SettlingPut ==
    ASSUME SettlingInv, NEW f \in File, NEW size \in 1 .. MaxSize, Put(f, size)
    PROVE  SettlingInv'
<1>1. /\ tmp' = [tmp EXCEPT ![f] = size] /\ puts' = [puts EXCEPT ![f] = @ + 1] /\ puts[f] < MaxPuts
      /\ UNCHANGED <<files, reserving, completing, working>>
  BY DEF Put, reserveVars, jobVars
<1>2. FilesShape'
  BY <1>1, FilesTyped, FileAssumption DEF SettlingInv, FilesShape
<1>3. tmp'[f] = size /\ puts'[f] = puts[f] + 1 /\ \A g \in File : g # f => tmp'[g] = tmp[g] /\ puts'[g] = puts[g]
  BY <1>1 DEF SettlingInv, FilesShape
<1>4. ASSUME NEW g \in File PROVE Settling(g)' /\ OneSize(g)'
  <2>1. Settling(g) /\ OneSize(g) /\ puts[g] \in Nat /\ tmp[g] \in Nat
    BY FilesTyped DEF SettlingInv
  <2>2. CASE g # f
    BY <1>1, <1>3, <2>1, <2>2 DEF Settling, OneSize, Fits, Asks
  <2>3. CASE g = f
    <3>1. Settling(g)'
      BY <1>1, <1>3, <2>1, <2>3 DEF Settling
    <3>2. CASE puts[f] # 0
      <4>1. ~(puts'[g] <= 1)
        BY <1>3, <2>1, <2>3, <3>2
      <4>2. ~files[g].original => \A u \in Caller : Asks(u, g) => completing[u].size = files[g].size
        BY <2>1 DEF OneSize
      <4> QED
        BY <1>1, <3>1, <4>1, <4>2 DEF OneSize, Asks
    <3>3. CASE puts[f] = 0
      <4>1. puts[f] = 0 /\ tmp[f] = 0 /\ ~Fits(f)
        BY <1>3, <2>1, <2>3, <3>3 DEF Settling, Fits
      <4>2. ~files[f].original /\ \A u \in Caller : completing[u].file = f => completing[u].pc \notin {"store", "refuse"}
        <5>1. \A u \in Caller : completing[u].file = f /\ completing[u].pc = "refuse" => completing[u].size \in Nat
          BY FilesTyped
        <5> QED
          BY <2>1, <2>3, <4>1, <5>1 DEF OneSize
      <4> QED
        BY <1>1, <2>1, <2>3, <3>1, <4>2 DEF OneSize, Asks
    <3> QED
      BY <3>1, <3>2, <3>3, <2>3, <1>3, <2>1
  <2> QED
    BY <2>2, <2>3
<1> QED
  BY <1>2, <1>4 DEF SettlingInv

(* A row is stored for a file that no caller knows of. *)
LEMMA SettlingSave ==
    ASSUME SettlingInv, NEW f \in File, SaveReserved(f)
    PROVE  SettlingInv'
<1> DEFINE x == [NewFile EXCEPT !.status = "PENDING", !.size = reserving[f]]
<1>1. /\ files' = [files EXCEPT ![f] = x] /\ reserving' = [reserving EXCEPT ![f] = 0] /\ reserving[f] # 0
      /\ UNCHANGED <<tmp, puts, completing, working>>
  BY DEF SaveReserved, ReserveStep, putVars, jobVars
<1>2. x \in FileRow /\ x.status = "PENDING" /\ x.original = FALSE
  BY FilesTyped, FileRows DEF NewFile
<1> HIDE DEF x
<1>3. FilesShape'
  BY <1>1, <1>2, FileAssumption DEF SettlingInv, FilesShape
<1>4. files'[f] = x /\ reserving'[f] = 0 /\ \A g \in File : g # f => files'[g] = files[g] /\ reserving'[g] = reserving[g]
  BY <1>1 DEF SettlingInv, FilesShape
<1>5. files[f].status = "NONE" /\ (\A u \in Caller : completing[u].file # f) /\ \A w \in Worker : working[w] # f
  BY <1>1 DEF SettlingInv, Settling
<1>6. ASSUME NEW g \in File PROVE Settling(g)' /\ OneSize(g)'
  <2>1. Settling(g) /\ OneSize(g)
    BY DEF SettlingInv
  <2>2. CASE g # f
    BY <1>1, <1>4, <2>1, <2>2 DEF Settling, OneSize, Fits, Asks
  <2>3. CASE g = f
    BY <1>1, <1>2, <1>4, <1>5, <2>1, <2>3 DEF Settling, OneSize, Asks
  <2> QED
    BY <2>2, <2>3
<1> QED
  BY <1>3, <1>6 DEF SettlingInv

(* A caller moves on without writing: it loads a row that is not completed, or looks at the object. *)
LEMMA SettlingLook ==
    ASSUME SettlingInv, NEW u \in Caller, (\E f \in File : Complete(u, f)) \/ ReadSize(u)
    PROVE  SettlingInv'
<1>1. UNCHANGED <<files, tmp, puts, reserving, working>> /\ completing \in [Caller -> Call \cup {NoCall}]
  BY DEF Complete, ReadSize, putVars, reserveVars, jobVars, SettlingInv, FilesShape
<1>2. PICK c : completing' = [completing EXCEPT ![u] = c]
  BY DEF Complete, ReadSize, Goto
<1>3. completing'[u] = c /\ \A v \in Caller : v # u => completing'[v] = completing[v]
  BY <1>1, <1>2
<1>4. \/ \E f \in File : /\ c = [pc |-> "head", file |-> f, size |-> files[f].size]
                         /\ files[f].status = "PENDING" /\ ~files[f].original
      \/ /\ completing[u].pc = "head" /\ completing[u] \in Call /\ c = SizeOf(completing[u])
  <2>1. CASE \E f \in File : Complete(u, f)
    BY <1>1, <1>2, <2>1 DEF Complete, Goto
  <2>2. CASE ReadSize(u)
    BY <1>1, <1>2, <2>2, FilesTyped DEF ReadSize, Goto
  <2> QED
    BY <2>1, <2>2
<1>5. CASE \E f \in File : /\ c = [pc |-> "head", file |-> f, size |-> files[f].size]
                           /\ files[f].status = "PENDING" /\ ~files[f].original
  <2> PICK f \in File : /\ c = [pc |-> "head", file |-> f, size |-> files[f].size]
                        /\ files[f].status = "PENDING" /\ ~files[f].original
    BY <1>5
  <2>1. c.pc = "head" /\ c.file = f /\ c.size = files[f].size
    OBVIOUS
  <2>2. c \in Call
    BY FilesTyped DEF Call, FileRow
  <2> HIDE DEF Call
  <2>3. FilesShape'
    BY <1>1, <1>2, <2>2 DEF SettlingInv, FilesShape
  <2>4. ASSUME NEW g \in File PROVE Settling(g)' /\ OneSize(g)'
    <3>1. Settling(g) /\ OneSize(g)
      BY DEF SettlingInv
    <3>2. Settling(g)'
      BY <1>1, <1>3, <2>1, <3>1 DEF Settling
    <3>3. Fits(g) => Fits(g)'
      BY <1>1, <1>3, <2>1 DEF Fits, Asks
    <3>4. OneSize(g)'
      <4>1. ASSUME ~files'[g].original, NEW v \in Caller, Asks(v, g)' PROVE completing'[v].size = files'[g].size
        BY <1>1, <1>3, <2>1, <3>1, <4>1 DEF OneSize, Asks
      <4>2. \A v \in Caller : completing'[v].pc \in {"refuse", "store"} => completing'[v] = completing[v]
        BY <1>3, <2>1
      <4> QED
        BY <1>1, <3>1, <3>3, <4>1, <4>2 DEF OneSize
    <3> QED
      BY <3>2, <3>4
  <2> QED
    BY <2>3, <2>4 DEF SettlingInv
<1>6. CASE completing[u].pc = "head" /\ completing[u] \in Call /\ c = SizeOf(completing[u])
  <2> DEFINE f == completing[u].file
             s == completing[u].size
  <2>1. f \in File /\ s \in Nat /\ tmp[f] \in 0 .. MaxSize /\ NoCall.file \notin File /\ NoCall.pc = "idle"
    BY <1>6, FilesTyped
  <2>2. \/ c = NoCall
        \/ c \in Call /\ c.file = f /\ c.pc = "refuse" /\ c.size = s /\ tmp[f] > s
        \/ c \in Call /\ c.file = f /\ c.pc = "store" /\ tmp[f] # 0 /\ tmp[f] <= s
    <3>1. CASE tmp[f] = 0
      <4>1. ~(tmp[f] > s)
        BY <2>1, <3>1
      <4> QED
        BY <1>6, <3>1, <4>1 DEF SizeOf
    <3>2. CASE tmp[f] # 0 /\ tmp[f] > s
      BY <1>6, <3>2 DEF SizeOf, Call
    <3>3. CASE tmp[f] # 0 /\ ~(tmp[f] > s)
      <4>1. c = [completing[u] EXCEPT !.pc = "store", !.size = tmp[f]]
        BY <1>6, <3>3 DEF SizeOf
      <4>2. c \in Call /\ c.pc = "store" /\ c.file = f /\ c.size = tmp[f]
        BY <1>6, <2>1, <4>1 DEF Call
      <4>3. tmp[f] <= s
        BY <2>1, <3>3
      <4> QED
        BY <3>3, <4>2, <4>3
    <3> QED
      BY <3>1, <3>2, <3>3
  <2>3. FilesShape'
    BY <1>1, <1>2, <2>2 DEF SettlingInv, FilesShape
  <2>4. ASSUME NEW g \in File PROVE Settling(g)' /\ OneSize(g)'
    <3>1. Settling(g) /\ OneSize(g)
      BY DEF SettlingInv
    <3>2. Settling(g)'
      BY <1>1, <1>3, <2>1, <2>2, <3>1 DEF Settling
    <3>3. \A v \in Caller : Asks(v, g)' => Asks(v, g) /\ completing'[v].size = completing[v].size
      BY <1>3, <1>6, <2>1, <2>2 DEF Asks
    <3>4. Fits(g) => Fits(g)'
      BY <1>1, <3>3 DEF Fits
    <3>5. ASSUME puts[g] <= 1, NEW v \in Caller, completing'[v].file = g, completing'[v].pc = "store" PROVE Fits(g)
      <4>1. CASE v # u \/ files[g].original
        BY <1>1, <1>3, <3>1, <3>5, <4>1 DEF OneSize
      <4>2. CASE v = u /\ ~files[g].original
        <5>1. f = g /\ tmp[g] # 0 /\ tmp[g] <= s /\ Asks(u, g)
          BY <1>3, <1>6, <2>1, <2>2, <3>5, <4>2 DEF Asks
        <5>2. \A t \in Caller : Asks(t, g) => completing[t].size = s
          BY <3>1, <4>2, <5>1 DEF OneSize
        <5>3. files[g].size = s
          BY <3>1, <4>2, <5>1 DEF OneSize
        <5> QED
          BY <5>1, <5>2, <5>3 DEF Fits
      <4> QED
        BY <4>1, <4>2
    <3>6. ASSUME puts[g] <= 1, NEW v \in Caller, completing'[v].file = g, completing'[v].pc = "refuse"
          PROVE  tmp[g] > completing'[v].size
      BY <1>3, <2>1, <2>2, <3>1, <3>6 DEF OneSize
    <3>7. ~files[g].original => \A v \in Caller : Asks(v, g)' => completing'[v].size = files[g].size
      BY <3>1, <3>3 DEF OneSize
    <3> QED
      BY <1>1, <3>1, <3>2, <3>4, <3>5, <3>6, <3>7 DEF OneSize
  <2> QED
    BY <2>3, <2>4 DEF SettlingInv
<1> QED
  BY <1>4, <1>5, <1>6

(* A caller that found the object to fit completes the upload, whatever the row holds by now. *)
LEMMA SettlingStore ==
    ASSUME SettlingInv, NEW u \in Caller, StoreSizes(u)
    PROVE  SettlingInv'
<1> DEFINE f == completing[u].file
           x == [files[f] EXCEPT !.size = completing[u].size, !.original = TRUE]
           c == [completing[u] EXCEPT !.pc = "enqueue"]
<1>1. /\ completing[u].pc = "store" /\ files' = [files EXCEPT ![f] = x] /\ completing' = [completing EXCEPT ![u] = c]
      /\ UNCHANGED <<tmp, puts, reserving, working>>
  BY DEF StoreSizes, Goto, putVars, jobVars
<1>2. f \in File /\ completing[u] \in Call /\ completing[u].size \in 0 .. MaxSize
  BY <1>1, FilesTyped DEF Call
<1>3. x \in FileRow /\ x.status = files[f].status /\ x.original = TRUE
  <2>1. files[f] \in FileRow
    BY <1>2, FilesTyped
  <2> QED
    BY <1>2, <2>1 DEF FileRow
<1>4. c \in Call /\ c.pc = "enqueue" /\ c.file = f
  BY <1>2 DEF Call
<1> HIDE DEF x, c
<1>5. FilesShape'
  BY <1>1, <1>2, <1>3, <1>4 DEF SettlingInv, FilesShape
<1>6. files'[f] = x /\ completing'[u] = c /\ (\A g \in File : g # f => files'[g] = files[g])
      /\ \A v \in Caller : v # u => completing'[v] = completing[v]
  BY <1>1, <1>2 DEF SettlingInv, FilesShape
<1>7. ASSUME NEW g \in File PROVE Settling(g)' /\ OneSize(g)'
  <2>1. Settling(g) /\ OneSize(g)
    BY DEF SettlingInv
  <2>2. \A v \in Caller : Asks(v, g)' => Asks(v, g) /\ completing'[v].size = completing[v].size
    BY <1>4, <1>6 DEF Asks
  <2>3. \A v \in Caller : /\ completing'[v].file = completing[v].file
                          /\ completing'[v].pc \in {"refuse", "store"} => completing'[v] = completing[v]
    BY <1>4, <1>6
  <2>4. CASE g # f
    <3>1. Fits(g) => Fits(g)'
      BY <1>1, <1>6, <2>2, <2>4 DEF Fits
    <3>2. ~files[g].original => \A v \in Caller : Asks(v, g)' => completing'[v].size = files[g].size
      BY <2>1, <2>2 DEF OneSize
    <3> QED
      BY <1>1, <1>6, <2>1, <2>3, <2>4, <3>1, <3>2 DEF Settling, OneSize
  <2>5. CASE g = f
    <3>1. files'[g].original = TRUE /\ files'[g].status = files[g].status /\ files[g].status # "NONE"
      BY <1>1, <1>2, <1>3, <1>6, <2>1, <2>5 DEF Settling
    <3>2. puts[g] <= 1 => Fits(g)
      BY <1>1, <2>1, <2>5 DEF OneSize
    <3>3. Fits(g) => Fits(g)'
      BY <1>1, <2>2, <3>1 DEF Fits
    <3>4. Settling(g)'
      BY <1>1, <2>1, <2>3, <3>1 DEF Settling
    <3> QED
      BY <1>1, <2>1, <2>3, <3>1, <3>2, <3>3, <3>4 DEF OneSize
  <2> QED
    BY <2>4, <2>5
<1> QED
  BY <1>5, <1>7 DEF SettlingInv

(* Every step keeps that only completed uploads are worked on, and that the callers agree. *)
LEMMA SettlingStep == ASSUME SettlingInv, [FileNext]_fileVars PROVE SettlingInv'
<1>0. FilesShape
  BY DEF SettlingInv
<1>1. CASE \E f \in File, size \in 1 .. MaxSize : Reserve(f, size)
  <2> PICK f \in File, size \in 1 .. MaxSize : Reserve(f, size)
    BY <1>1
  <2>1. reserving' = [reserving EXCEPT ![f] = size] /\ files[f].status = "NONE"
        /\ UNCHANGED <<files, tmp, puts, completing, working>>
    BY DEF Reserve, ReserveStep, putVars, jobVars
  <2>2. reserving' \in [File -> 0 .. MaxSize] /\ \A g \in File : reserving'[g] # 0 => reserving[g] # 0 \/ g = f
    BY <1>0, <2>1, FilesTyped DEF FilesShape
  <2>3. FilesShape'
    BY <1>0, <2>1, <2>2 DEF FilesShape
  <2> QED
    BY <2>1, <2>2, <2>3 DEF SettlingInv, Settling, OneSize, Fits, Asks
<1>2. CASE \E f \in File, size \in 1 .. MaxSize : Put(f, size)
  BY <1>2, SettlingPut
<1>3. CASE \E f \in File : SaveReserved(f)
  BY <1>3, SettlingSave
<1>4. CASE \E u \in Caller : (\E f \in File : Complete(u, f)) \/ ReadSize(u)
  BY <1>4, SettlingLook
<1>5. CASE \E u \in Caller : StoreSizes(u)
  BY <1>5, SettlingStore
<1>6. ASSUME UNCHANGED <<files, tmp, puts, reserving>>, completing' \in [Caller -> Call \cup {NoCall}],
             working' \in [Worker -> File \cup {NoFile}],
             \A u \in Caller : completing'[u] = completing[u] \/ completing'[u] = NoCall,
             \A w \in Worker : \/ working'[w] = working[w] \/ working'[w] = NoFile
                               \/ working'[w] \in File /\ files[working'[w]].original
      PROVE  SettlingInv'
  <2>1. FilesShape' /\ UNCHANGED <<tmp, puts, reserving>>
    BY <1>0, <1>6 DEF FilesShape
  <2>2. \A g \in File : /\ files'[g].original = files[g].original /\ files'[g].size = files[g].size
                        /\ files'[g].status = "NONE" <=> files[g].status = "NONE"
                        /\ files'[g].status = "READY" => files[g].original
    BY <1>6 DEF SettlingInv, Settling
  <2> QED
    BY <1>6, <2>1, <2>2, QuietStep
<1>7. ASSUME NEW f \in File, files[f].status # "NONE", files' = [files EXCEPT ![f] = [files[f] EXCEPT !.status = "FAILED"]],
             UNCHANGED <<tmp, puts, reserving>>, completing' \in [Caller -> Call \cup {NoCall}],
             working' \in [Worker -> File \cup {NoFile}],
             \A u \in Caller : completing'[u] = completing[u] \/ completing'[u] = NoCall,
             \A w \in Worker : working'[w] = working[w] \/ working'[w] = NoFile
      PROVE  SettlingInv'
  <2>1. FilesShape'
    BY <1>0, <1>7, FailRow DEF FilesShape
  <2> QED
    BY <1>7, <2>1, FailRow, QuietStep
<1>8. CASE UNCHANGED <<files, tmp, puts, reserving, completing, working>>
  BY <1>0, <1>6, <1>8 DEF FilesShape
<1>9. CASE \E f \in File : Remove(f)
  <2> PICK f \in File : Remove(f)
    BY <1>9
  <2> DEFINE x == [files[f] EXCEPT !.deleted = TRUE]
  <2>1. files' = [files EXCEPT ![f] = x] /\ files[f].status # "NONE"
        /\ UNCHANGED <<tmp, puts, reserving, completing, working>>
    BY DEF Remove, putVars, reserveVars, jobVars
  <2>2. x \in FileRow /\ x.status = files[f].status /\ x.size = files[f].size /\ x.original = files[f].original
    BY FilesTyped, FileRows
  <2> HIDE DEF x
  <2>3. FilesShape'
    BY <1>0, <2>1, <2>2 DEF FilesShape
  <2>4. ASSUME NEW g \in File PROVE files'[g] = files[g] \/ (g = f /\ files'[g] = x)
    BY <1>0, <2>1 DEF FilesShape
  <2>5. \A g \in File : /\ files'[g].original = files[g].original /\ files'[g].size = files[g].size
                        /\ files'[g].status = "NONE" <=> files[g].status = "NONE"
                        /\ files'[g].status = "READY" => files[g].original
    BY <2>2, <2>4 DEF SettlingInv, Settling
  <2> QED
    BY <2>1, <2>3, <2>5, QuietStep
<1>10. CASE \E f \in File : Abandon(f)
  <2> PICK f \in File : Abandon(f)
    BY <1>10
  <2>1. files' = [files EXCEPT ![f] = [files[f] EXCEPT !.status = "FAILED"]] /\ files[f].status # "NONE"
        /\ UNCHANGED <<tmp, puts, reserving, completing, working>>
    BY DEF Abandon, JobStep, putVars, jobVars
  <2> QED
    BY <1>0, <1>7, <2>1 DEF FilesShape
<1>11. CASE \E u \in Caller : RefuseSize(u)
  <2> PICK u \in Caller : RefuseSize(u)
    BY <1>11
  <2> DEFINE f == completing[u].file
  <2>1. f \in File /\ files[f].status # "NONE"
    BY FilesTyped DEF RefuseSize, SettlingInv, Settling
  <2>2. files' = [files EXCEPT ![f] = [files[f] EXCEPT !.status = "FAILED"]]
        /\ completing' = [completing EXCEPT ![u] = NoCall] /\ UNCHANGED <<tmp, puts, reserving, working>>
    BY DEF RefuseSize, Goto, putVars, reserveVars, jobVars
  <2>3. completing' \in [Caller -> Call \cup {NoCall}]
        /\ \A v \in Caller : completing'[v] = completing[v] \/ completing'[v] = NoCall
    BY <1>0, <2>2 DEF FilesShape
  <2> QED
    BY <1>0, <1>7, <2>1, <2>2, <2>3 DEF FilesShape
<1>12. CASE \E u \in Caller : CallerDies(u)
  <2> PICK u \in Caller : CallerDies(u)
    BY <1>12
  <2>1. completing' = [completing EXCEPT ![u] = NoCall] /\ UNCHANGED <<files, tmp, puts, reserving, working>>
    BY DEF CallerDies, Goto, putVars, reserveVars, jobVars
  <2> QED
    BY <1>0, <1>6, <2>1 DEF FilesShape
<1>13. CASE \E u \in Caller : Enqueue(u)
  <2> PICK u \in Caller : Enqueue(u)
    BY <1>13
  <2>1. completing' = [completing EXCEPT ![u] = NoCall] /\ UNCHANGED <<files, tmp, puts, reserving, working>>
    BY DEF Enqueue, Goto, putVars, reserveVars
  <2> QED
    BY <1>0, <1>6, <2>1 DEF FilesShape
<1>14. CASE \E w \in Worker, f \in File : StartJob(w, f)
  <2> PICK w \in Worker, f \in File : StartJob(w, f)
    BY <1>14
  <2>1. UNCHANGED <<files, tmp, puts, reserving, completing>>
        /\ (working' = working \/ (working' = [working EXCEPT ![w] = f] /\ files[f].original))
    BY DEF StartJob, JobStep, putVars
  <2>2. working' \in [Worker -> File \cup {NoFile}]
        /\ \A v \in Worker : working'[v] = working[v] \/ (working'[v] \in File /\ files[working'[v]].original)
    BY <1>0, <2>1 DEF FilesShape
  <2> QED
    BY <1>0, <1>6, <2>1, <2>2 DEF FilesShape
<1>15. CASE \E w \in Worker, size \in 1 .. MaxSize : FinishJob(w, size)
  <2> PICK w \in Worker, size \in 1 .. MaxSize : FinishJob(w, size)
    BY <1>15
  <2> DEFINE f == working[w]
             x == [files[f] EXCEPT !.status = "READY", !.size = size]
  <2>1. f \in File /\ files[f].original /\ size \in 0 .. MaxSize
    BY <1>0, FilesTyped DEF FinishJob, FilesShape, SettlingInv, Settling
  <2>2. working' = [working EXCEPT ![w] = NoFile] /\ UNCHANGED <<tmp, puts, reserving, completing>>
        /\ (files' = files \/ (files' = [files EXCEPT ![f] = x] /\ files[f].status = "PENDING"))
    BY DEF FinishJob, Rest, JobStep, putVars
  <2>3. x \in FileRow /\ x.status = "READY" /\ x.original = files[f].original
    <3>1. files[f] \in FileRow
      BY <2>1, FilesTyped
    <3> QED
      BY <2>1, <3>1 DEF FileRow
  <2>4. working' \in [Worker -> File \cup {NoFile}] /\ \A v \in Worker : working'[v] = working[v] \/ working'[v] = NoFile
    BY <1>0, <2>2 DEF FilesShape
  <2>5. CASE files' = files
    BY <1>0, <1>6, <2>2, <2>4, <2>5 DEF FilesShape
  <2>6. CASE files' = [files EXCEPT ![f] = x] /\ files[f].status = "PENDING"
    <3> HIDE DEF x, f
    <3>1. FilesShape'
      BY <1>0, <2>2, <2>3, <2>4, <2>6 DEF FilesShape
    <3>2. ASSUME NEW g \in File PROVE files'[g] = files[g] \/ (g = f /\ files'[g] = x)
      BY <1>0, <2>6 DEF FilesShape
    <3>3. \A g \in File : /\ files'[g].original = files[g].original
                          /\ files[g].original \/ files'[g].size = files[g].size
                          /\ files'[g].status = "NONE" <=> files[g].status = "NONE"
                          /\ files'[g].status = "READY" => files[g].original
      BY <2>1, <2>3, <2>6, <3>2 DEF SettlingInv, Settling
    <3> QED
      BY <2>2, <2>4, <3>1, <3>3, QuietStep
  <2> QED
    BY <2>2, <2>5, <2>6
<1>16. CASE \E w \in Worker : FailJob(w)
  <2> PICK w \in Worker : FailJob(w)
    BY <1>16
  <2>1. working[w] \in File /\ working' = [working EXCEPT ![w] = NoFile] /\ UNCHANGED <<tmp, puts, reserving, completing>>
    BY <1>0 DEF FailJob, Rest, JobStep, putVars, FilesShape
  <2>2. \/ files' = files
        \/ /\ files' = [files EXCEPT ![working[w]] = [files[working[w]] EXCEPT !.status = "FAILED"]]
           /\ files[working[w]].status # "NONE"
    BY DEF FailJob
  <2>3. working' \in [Worker -> File \cup {NoFile}] /\ \A v \in Worker : working'[v] = working[v] \/ working'[v] = NoFile
    BY <1>0, <2>1 DEF FilesShape
  <2> QED
    BY <1>0, <1>6, <1>7, <2>1, <2>2, <2>3 DEF FilesShape
<1>17. CASE \E w \in Worker, gone \in BOOLEAN : StallJob(w, gone)
  <2> PICK w \in Worker, gone \in BOOLEAN : StallJob(w, gone)
    BY <1>17
  <2>1. UNCHANGED <<files, tmp, puts, reserving, completing>>
        /\ (working' = working \/ working' = [working EXCEPT ![w] = NoFile])
    BY DEF StallJob, Rest, JobStep, putVars
  <2> QED
    BY <1>0, <1>6, <2>1 DEF FilesShape
<1>18. CASE \E f \in File : ForgetJob(f) \/ Requeue(f)
  BY <1>8, <1>18 DEF ForgetJob, Requeue, JobStep, putVars
<1> QED
  BY <1>1, <1>2, <1>3, <1>4, <1>5, <1>8, <1>9, <1>10, <1>11, <1>12, <1>13, <1>14, <1>15, <1>16, <1>17, <1>18
  DEF FileNext, fileVars, putVars, reserveVars, jobVars

(* Before the first reservation nothing is being settled. *)
LEMMA SettlingInit == FileInit => SettlingInv
<1>1. NewFile \in FileRow /\ NewFile.status = "NONE" /\ NewFile.original = FALSE /\ NoCall.file = NoFile /\ 0 \in 0 .. MaxSize
      /\ 0 \in 0 .. MaxPuts
  BY FileAssumption DEF FileRow, NewFile, NoCall
<1> SUFFICES ASSUME FileInit PROVE SettlingInv
  OBVIOUS
<1>2. FilesShape
  BY <1>1 DEF FileInit, FilesShape
<1>3. ASSUME NEW f \in File PROVE Settling(f) /\ OneSize(f)
  <2>1. files[f] = NewFile /\ reserving[f] = 0 /\ tmp[f] = 0
    BY DEF FileInit
  <2>2. (\A w \in Worker : working[w] # f) /\ \A u \in Caller : completing[u].file # f
    BY <1>1, FileAssumption DEF FileInit
  <2>3. files[f].status = "NONE" /\ files[f].original = FALSE
    BY <1>1, <2>1
  <2> QED
    BY <2>1, <2>2, <2>3 DEF Settling, OneSize, Asks
<1> QED
  BY <1>2, <1>3 DEF SettlingInv

-----------------------------------------------------------------------------
(* Uploads implement FilePromise. *)
PhaseNow == [f \in File |-> PhaseOf(files[f])]
RemovedNow == [f \in File |-> files[f].deleted]
ReplacedNow == [f \in File |-> puts[f] > 1]

(* The promise, in the terms of the rows. *)
LEMMA LifecycleTerms ==
    /\ Lifecycle!Init <=> /\ PhaseNow = [f \in File |-> "none"]
                          /\ RemovedNow = [f \in File |-> FALSE] /\ ReplacedNow = [f \in File |-> FALSE]
    /\ Lifecycle!Next <=>
          \E f \in File :
             \/ /\ \/ PhaseNow[f] \in {"none"} /\ PhaseNow' = [PhaseNow EXCEPT ![f] = "reserved"]
                   \/ PhaseNow[f] \in {"reserved"} /\ PhaseNow' = [PhaseNow EXCEPT ![f] = "uploaded"]
                   \/ PhaseNow[f] \in {"uploaded"} /\ PhaseNow' = [PhaseNow EXCEPT ![f] = "READY"]
                   \/ PhaseNow[f] \in {"reserved", "uploaded"} /\ PhaseNow' = [PhaseNow EXCEPT ![f] = "FAILED"]
                   \/ ReplacedNow[f] /\ PhaseNow[f] \in {"READY"} /\ PhaseNow' = [PhaseNow EXCEPT ![f] = "FAILED"]
                /\ RemovedNow' = RemovedNow /\ ReplacedNow' = ReplacedNow
             \/ /\ PhaseNow[f] # "none" /\ ~RemovedNow[f]
                /\ RemovedNow' = [RemovedNow EXCEPT ![f] = TRUE] /\ PhaseNow' = PhaseNow /\ ReplacedNow' = ReplacedNow
             \/ /\ PhaseNow[f] # "none"
                /\ ReplacedNow' = [ReplacedNow EXCEPT ![f] = TRUE] /\ PhaseNow' = PhaseNow /\ RemovedNow' = RemovedNow
<1>1. Lifecycle!Init <=> /\ PhaseNow = [f \in File |-> "none"]
                         /\ RemovedNow = [f \in File |-> FALSE] /\ ReplacedNow = [f \in File |-> FALSE]
  BY DEF Lifecycle!Init, PhaseNow, RemovedNow, ReplacedNow
<1>2. ASSUME NEW f, NEW from, NEW to
      PROVE  Lifecycle!Become(f, from, to) <=>
                 /\ PhaseNow[f] \in from /\ PhaseNow' = [PhaseNow EXCEPT ![f] = to]
                 /\ RemovedNow' = RemovedNow /\ ReplacedNow' = ReplacedNow
  BY DEF Lifecycle!Become, PhaseNow, RemovedNow, ReplacedNow
<1>3. ASSUME NEW f
      PROVE  Lifecycle!Remove(f) <=>
                 /\ PhaseNow[f] # "none" /\ ~RemovedNow[f]
                 /\ RemovedNow' = [RemovedNow EXCEPT ![f] = TRUE] /\ PhaseNow' = PhaseNow /\ ReplacedNow' = ReplacedNow
  BY DEF Lifecycle!Remove, PhaseNow, RemovedNow, ReplacedNow
<1>4. ASSUME NEW f
      PROVE  Lifecycle!Replace(f) <=>
                 /\ PhaseNow[f] # "none"
                 /\ ReplacedNow' = [ReplacedNow EXCEPT ![f] = TRUE] /\ PhaseNow' = PhaseNow /\ RemovedNow' = RemovedNow
  BY DEF Lifecycle!Replace, PhaseNow, RemovedNow, ReplacedNow
<1>5. ASSUME NEW f \in File
      PROVE  Lifecycle!Revoke(f) <=> ReplacedNow[f] /\ Lifecycle!Become(f, {"READY"}, "FAILED")
  BY DEF Lifecycle!Revoke, ReplacedNow
<1> HIDE DEF PhaseNow, RemovedNow, ReplacedNow
<1> QED
  BY <1>1, <1>2, <1>3, <1>4, <1>5, Zenon
  DEF Lifecycle!Next, Lifecycle!Reserve, Lifecycle!Upload, Lifecycle!Publish, Lifecycle!Fail

(* What a step may make of a row: store a reservation, complete it, publish what is complete,
   fail what is PENDING, or what is READY if the bytes were replaced, repeat what is done
   already, or remove it. *)
Moves(a, b, replaced) ==
    \/ a.status = "NONE" /\ b.status = "PENDING" /\ ~b.original /\ ~b.deleted
    \/ a.status = "PENDING" /\ ~a.original /\ b.status = "PENDING" /\ b.original /\ b.deleted = a.deleted
    \/ a.status = "PENDING" /\ a.original /\ b.status = "READY" /\ b.deleted = a.deleted
    \/ a.status = "PENDING" /\ b.status = "FAILED" /\ b.deleted = a.deleted
    \/ replaced /\ a.status = "READY" /\ b.status = "FAILED" /\ b.deleted = a.deleted
    \/ a.status # "NONE" /\ b.status = a.status /\ (a.status = "PENDING" => b.original = a.original) /\ b.deleted = a.deleted
    \/ a.status # "NONE" /\ b.status = a.status /\ b.original = a.original /\ ~a.deleted /\ b.deleted
(* One row is touched at most. *)
RowChange ==
    files' = files \/ \E f \in File, x \in FileRow :
                         files' = [files EXCEPT ![f] = x] /\ Moves(files[f], x, puts[f] > 1)

(* All steps touch one row at most, in one of these ways.  A caller that found the object too
   large makes a READY file FAILED only if another caller found it to fit: with one PUT, all
   callers that loaded the row before it was completed find the same. *)
LEMMA RowSteps == ASSUME SettlingInv, [FileNext]_fileVars PROVE RowChange
<1> USE FileAssumption DEF SettlingInv, FilesShape
<1>0. /\ \A f \in File : files[f] \in FileRow /\ reserving[f] \in 0 .. MaxSize /\ tmp[f] \in 0 .. MaxSize /\ Settling(f)
      /\ \A u \in Caller : completing[u].pc \in {"store", "refuse"} => completing[u] \in Call
      /\ MaxSize \in Nat /\ 1 .. MaxSize \subseteq 0 .. MaxSize
  BY DEF Call, NoCall
<1>1. CASE files' = files
  BY <1>1 DEF RowChange
<1>2. ASSUME NEW f \in File, NEW x \in FileRow, files' = [files EXCEPT ![f] = x],
             Moves(files[f], x, puts[f] > 1)
      PROVE  RowChange
  BY <1>2 DEF RowChange
<1>3. ASSUME NEW f \in File, \/ files[f].status \in {"PENDING", "FAILED"}
                              \/ (files[f].status = "READY" /\ puts[f] > 1),
             files' = [files EXCEPT ![f].status = "FAILED"]
      PROVE  RowChange
  <2> DEFINE x == [files[f] EXCEPT !.status = "FAILED"]
  <2>1. files' = [files EXCEPT ![f] = x]
    BY <1>3
  <2>2. x \in FileRow /\ x.status = "FAILED" /\ x.original = files[f].original /\ x.deleted = files[f].deleted
    BY <1>0 DEF FileRow
  <2> HIDE DEF x
  <2>3. Moves(files[f], x, puts[f] > 1)
    BY <1>3, <2>2 DEF Moves
  <2> QED
    BY <1>2, <2>1, <2>2, <2>3
<1>4. ASSUME NEW f \in File, SaveReserved(f) PROVE RowChange
  <2> DEFINE x == [NewFile EXCEPT !.status = "PENDING", !.size = reserving[f]]
  <2>1. files' = [files EXCEPT ![f] = x] /\ files[f].status = "NONE"
    BY <1>0, <1>4 DEF SaveReserved, Settling
  <2>2. x \in FileRow /\ x.status = "PENDING" /\ x.original = FALSE /\ x.deleted = FALSE
    BY <1>0 DEF FileRow, NewFile
  <2> HIDE DEF x
  <2>3. Moves(files[f], x, puts[f] > 1)
    BY <2>1, <2>2, Zenon DEF Moves
  <2> QED
    BY <1>2, <2>1, <2>2, <2>3
<1>5. ASSUME NEW f \in File, Remove(f) PROVE RowChange
  <2> DEFINE x == [files[f] EXCEPT !.deleted = TRUE]
  <2>1. files' = [files EXCEPT ![f] = x] /\ files[f].status # "NONE" /\ ~files[f].deleted
    BY <1>5 DEF Remove
  <2>2. x \in FileRow /\ x.status = files[f].status /\ x.original = files[f].original /\ x.deleted = TRUE
    BY <1>0 DEF FileRow
  <2> HIDE DEF x
  <2>3. Moves(files[f], x, puts[f] > 1)
    BY <2>1, <2>2, Zenon DEF Moves
  <2> QED
    BY <1>2, <2>1, <2>2, <2>3
<1>6. ASSUME NEW f \in File, Abandon(f) PROVE RowChange
  BY <1>3, <1>6 DEF Abandon
<1>7. ASSUME NEW u \in Caller, StoreSizes(u) PROVE RowChange
  <2> DEFINE f == completing[u].file
             x == [files[f] EXCEPT !.size = completing[u].size, !.original = TRUE]
  <2>1. f \in File /\ completing[u].size \in 0 .. MaxSize /\ files[f].status # "NONE"
    BY <1>0, <1>7 DEF StoreSizes, Call, Settling
  <2>2. files' = [files EXCEPT ![f] = x]
    BY <1>7 DEF StoreSizes
  <2>3. x \in FileRow /\ x.status = files[f].status /\ x.original = TRUE /\ x.deleted = files[f].deleted
    <3>1. files[f] \in FileRow
      BY <1>0, <2>1
    <3> QED
      BY <2>1, <3>1 DEF FileRow
  <2>4. files[f].original \in BOOLEAN
    BY <1>0, <2>1 DEF FileRow
  <2> HIDE DEF x, f
  <2>5. Moves(files[f], x, puts[f] > 1)
    BY <2>1, <2>3, <2>4, Zenon DEF Moves
  <2> QED
    BY <1>2, <2>1, <2>2, <2>3, <2>5
<1>10. ASSUME NEW u \in Caller, RefuseSize(u) PROVE RowChange
  <2> DEFINE f == completing[u].file
  <2>1. f \in File /\ completing[u].pc = "refuse" /\ completing[u].size \in Nat /\ files[f].status # "NONE"
    BY <1>0, <1>10 DEF RefuseSize, Call, Settling
  <2>2. puts[f] <= 1 => ~files[f].original
    <3>1. SUFFICES ASSUME puts[f] <= 1, files[f].original PROVE FALSE
      OBVIOUS
    <3>2. OneSize(f) /\ tmp[f] \in Nat /\ Asks(u, f)
      BY <1>0, <2>1 DEF Asks
    <3>3. tmp[f] > completing[u].size /\ tmp[f] <= completing[u].size
      BY <2>1, <3>1, <3>2 DEF OneSize, Fits
    <3> QED
      BY <2>1, <3>2, <3>3
  <2>3. files[f].status \in {"PENDING", "FAILED"} \/ (files[f].status = "READY" /\ puts[f] > 1)
    <3>1. files[f].status \in {"NONE", "PENDING", "READY", "FAILED"} /\ puts[f] \in Nat
      BY <1>0, <2>1 DEF FileRow
    <3>2. files[f].status = "READY" => files[f].original
      BY <1>0, <2>1 DEF Settling
    <3> QED
      BY <2>1, <2>2, <3>1, <3>2
  <2>4. files' = [files EXCEPT ![f].status = "FAILED"]
    BY <1>10 DEF RefuseSize
  <2> QED
    BY <1>3, <2>1, <2>3, <2>4
<1>8. ASSUME NEW w \in Worker, NEW size \in 1 .. MaxSize, FinishJob(w, size), files' # files PROVE RowChange
  <2>0. PICK f \in File : f = working[w]
    BY <1>8 DEF FinishJob
  <2> DEFINE x == [files[f] EXCEPT !.status = "READY", !.size = size]
  <2>1. files' = [files EXCEPT ![f] = x] /\ files[f].status = "PENDING" /\ files[f].original
    BY <1>0, <1>8, <2>0 DEF FinishJob, Settling
  <2>2. x \in FileRow /\ x.status = "READY" /\ x.deleted = files[f].deleted
    <3>1. files[f] \in FileRow /\ size \in 0 .. MaxSize
      BY <1>0
    <3> QED
      BY <3>1 DEF FileRow
  <2> HIDE DEF x
  <2>3. Moves(files[f], x, puts[f] > 1)
    BY <2>1, <2>2, Zenon DEF Moves
  <2> QED
    BY <1>2, <2>1, <2>2, <2>3
<1>9. ASSUME NEW w \in Worker, FailJob(w), files' # files PROVE RowChange
  <2>0. PICK f \in File : f = working[w]
    BY <1>9 DEF FailJob
  <2>1. files' = [files EXCEPT ![f].status = "FAILED"] /\ files[f].status = "PENDING"
    BY <1>9, <2>0 DEF FailJob
  <2> QED
    BY <1>3, <2>1
<1> QED
  BY <1>1, <1>4, <1>5, <1>6, <1>7, <1>8, <1>9, <1>10
  DEF FileNext, fileVars, reserveVars, jobVars, Reserve, ReserveStep, Put, ForgetJob, Requeue, JobStep, Complete, Enqueue,
      CallerDies, StartJob, StallJob, ReadSize

(* A row that was never stored was never removed. *)
NeverRemoved == \A f \in File : files[f].status = "NONE" => ~files[f].deleted

(* A step of the uploads is at most one step of one file through its phases. *)
LEMMA LifecycleMapping ==
    ASSUME SettlingInv, NeverRemoved, [FileNext]_fileVars
    PROVE  NeverRemoved' /\ [Lifecycle!Next]_(Lifecycle!vars)
<1> USE DEF SettlingInv, FilesShape
<1>1. CASE files' = files /\ puts' = puts
  BY <1>1 DEF Lifecycle!vars, NeverRemoved
<1>2. CASE \E f \in File, x \in FileRow :
              files' = [files EXCEPT ![f] = x] /\ Moves(files[f], x, puts[f] > 1) /\ puts' = puts
  <2> PICK f \in File, x \in FileRow :
              files' = [files EXCEPT ![f] = x] /\ Moves(files[f], x, puts[f] > 1) /\ puts' = puts
    BY <1>2
  <2>1. NeverRemoved'
    BY DEF NeverRemoved, Moves
  <2>2. PhaseNow' = [PhaseNow EXCEPT ![f] = PhaseOf(x)] /\ PhaseNow[f] = PhaseOf(files[f])
    BY DEF PhaseNow
  <2>3. RemovedNow' = [RemovedNow EXCEPT ![f] = x.deleted] /\ RemovedNow[f] = files[f].deleted
        /\ ReplacedNow' = ReplacedNow
    BY DEF RemovedNow, ReplacedNow
  <2>4. x.deleted = files[f].deleted => RemovedNow' = RemovedNow
    BY DEF RemovedNow
  <2>5. PhaseOf(x) = PhaseOf(files[f]) => PhaseNow' = PhaseNow
    BY DEF PhaseNow
  <2>6. /\ x.deleted \in BOOLEAN /\ files[f].deleted \in BOOLEAN
        /\ files[f].original \in BOOLEAN /\ x.original \in BOOLEAN
    BY DEF FileRow
  <2>r. ReplacedNow[f] <=> puts[f] > 1
    BY DEF ReplacedNow
  <2>7. \/ PhaseOf(files[f]) = "none" /\ PhaseOf(x) = "reserved" /\ x.deleted = files[f].deleted
        \/ PhaseOf(files[f]) = "reserved" /\ PhaseOf(x) = "uploaded" /\ x.deleted = files[f].deleted
        \/ PhaseOf(files[f]) = "uploaded" /\ PhaseOf(x) = "READY" /\ x.deleted = files[f].deleted
        \/ PhaseOf(files[f]) \in {"reserved", "uploaded"} /\ PhaseOf(x) = "FAILED" /\ x.deleted = files[f].deleted
        \/ puts[f] > 1 /\ PhaseOf(files[f]) = "READY" /\ PhaseOf(x) = "FAILED" /\ x.deleted = files[f].deleted
        \/ PhaseOf(x) = PhaseOf(files[f]) /\ x.deleted = files[f].deleted
        \/ PhaseOf(x) = PhaseOf(files[f]) /\ PhaseOf(files[f]) # "none" /\ ~files[f].deleted /\ x.deleted
    <3>1. files[f].status \in {"NONE", "PENDING", "READY", "FAILED"} /\ x.status \in {"NONE", "PENDING", "READY", "FAILED"}
      BY DEF FileRow
    <3>2. files[f].status = "NONE" => ~files[f].deleted
      BY DEF NeverRemoved
    <3> QED
      BY <2>6, <3>1, <3>2 DEF Moves, PhaseOf
  <2> HIDE DEF PhaseNow, RemovedNow, ReplacedNow
  <2>8. CASE PhaseOf(x) = PhaseOf(files[f]) /\ x.deleted = files[f].deleted
    BY <2>3, <2>4, <2>5, <2>8, <2>1, Zenon DEF Lifecycle!vars, PhaseNow, RemovedNow, ReplacedNow
  <2>9. CASE x.deleted = files[f].deleted /\ PhaseOf(x) # PhaseOf(files[f])
    <3>1. RemovedNow' = RemovedNow
      BY <2>4, <2>9
    <3>2. \/ PhaseNow[f] \in {"none"} /\ PhaseNow' = [PhaseNow EXCEPT ![f] = "reserved"]
          \/ PhaseNow[f] \in {"reserved"} /\ PhaseNow' = [PhaseNow EXCEPT ![f] = "uploaded"]
          \/ PhaseNow[f] \in {"uploaded"} /\ PhaseNow' = [PhaseNow EXCEPT ![f] = "READY"]
          \/ PhaseNow[f] \in {"reserved", "uploaded"} /\ PhaseNow' = [PhaseNow EXCEPT ![f] = "FAILED"]
          \/ puts[f] > 1 /\ PhaseNow[f] \in {"READY"} /\ PhaseNow' = [PhaseNow EXCEPT ![f] = "FAILED"]
      BY <2>2, <2>7, <2>9
    <3> QED
      BY <2>1, <2>3, <2>r, <3>1, <3>2, LifecycleTerms, Zenon
  <2>10. CASE PhaseOf(x) = PhaseOf(files[f]) /\ PhaseOf(files[f]) # "none" /\ ~files[f].deleted /\ x.deleted
    <3>1. PhaseNow' = PhaseNow /\ PhaseNow[f] # "none"
      BY <2>2, <2>5, <2>10
    <3>2. ~RemovedNow[f] /\ RemovedNow' = [RemovedNow EXCEPT ![f] = TRUE]
      <4>1. x.deleted = TRUE
        BY <2>6, <2>10, Zenon
      <4> QED
        BY <2>3, <2>10, <4>1, Zenon
    <3> QED
      BY <2>1, <2>3, <3>1, <3>2, LifecycleTerms, Zenon
  <2> QED
    BY <2>7, <2>8, <2>9, <2>10, Zenon
<1>3. CASE \E f \in File, size \in 1 .. MaxSize : Put(f, size)
  <2> PICK f \in File, size \in 1 .. MaxSize : Put(f, size)
    BY <1>3
  <2>1. puts' = [puts EXCEPT ![f] = puts[f] + 1] /\ files' = files /\ files[f].status # "NONE" /\ puts[f] \in Nat
    BY FilesTyped DEF Put
  <2>2. NeverRemoved' /\ PhaseNow' = PhaseNow /\ RemovedNow' = RemovedNow /\ PhaseNow[f] # "none"
    <3>1. NeverRemoved' /\ RemovedNow' = RemovedNow
      BY <2>1, Zenon DEF NeverRemoved, RemovedNow
    <3>2. PhaseNow' = PhaseNow
      BY <2>1, Zenon DEF PhaseNow
    <3>3. PhaseNow[f] # "none"
      <4>1. files[f].status \in {"NONE", "PENDING", "READY", "FAILED"}
        BY DEF FileRow
      <4> QED
        BY <2>1, <4>1 DEF PhaseNow, PhaseOf
    <3> QED
      BY <3>1, <3>2, <3>3
  <2>3. CASE puts[f] = 0
    <3>1. ReplacedNow' = ReplacedNow
      <4>1. (puts'[f] > 1) = FALSE /\ (puts[f] > 1) = FALSE /\ \A g \in File : g # f => puts'[g] = puts[g]
        BY <2>1, <2>3
      <4> QED
        BY <4>1, Zenon DEF ReplacedNow
    <3> QED
      BY <2>2, <3>1 DEF Lifecycle!vars, PhaseNow, RemovedNow, ReplacedNow
  <2>4. CASE puts[f] # 0
    <3>1. ReplacedNow' = [ReplacedNow EXCEPT ![f] = TRUE]
      <4>1. (puts'[f] > 1) = TRUE /\ \A g \in File : g # f => puts'[g] = puts[g]
        BY <2>1, <2>4
      <4> QED
        BY <4>1, Zenon DEF ReplacedNow
    <3> HIDE DEF PhaseNow, RemovedNow, ReplacedNow
    <3> QED
      BY <2>2, <3>1, LifecycleTerms, Zenon
  <2> QED
    BY <2>3, <2>4
<1>4. puts' = puts \/ \E f \in File, size \in 1 .. MaxSize : Put(f, size)
  BY Zenon DEF FileNext, fileVars, putVars, reserveVars, jobVars, Reserve, ReserveStep, SaveReserved, Remove, ForgetJob,
     Abandon, Requeue, JobStep, Complete, ReadSize, RefuseSize, StoreSizes, Enqueue, CallerDies, StartJob, FinishJob, StallJob,
     FailJob
<1> QED
  BY <1>1, <1>2, <1>3, <1>4, RowSteps DEF RowChange

(* Whatever requests die, jobs stall, run twice and fail, and whenever the sweep comes, the
   uploads of files.service.ts implement FilePromise: nothing is READY that was not completed,
   FAILED is final, and so is READY unless the browser stored another size over the one that
   was completed (complete refuses it by an update that looks at no status); and a late
   completion does not undo a removal. *)
THEOREM UploadsKeepPromise == FileSpec => FilesKeepPromise
<1>1. FileInit => Lifecycle!Init /\ NeverRemoved
  <2> SUFFICES ASSUME FileInit PROVE Lifecycle!Init /\ NeverRemoved
    OBVIOUS
  <2>1. \A f \in File : files[f].status = "NONE" /\ files[f].deleted = FALSE /\ (puts[f] > 1) = FALSE
    BY DEF FileInit, NewFile
  <2>2. PhaseNow = [f \in File |-> "none"] /\ RemovedNow = [f \in File |-> FALSE]
    BY <2>1 DEF PhaseNow, RemovedNow, PhaseOf
  <2>3. ReplacedNow = [f \in File |-> FALSE]
    BY <2>1, Zenon DEF ReplacedNow
  <2> QED
    BY <2>1, <2>2, <2>3, LifecycleTerms DEF NeverRemoved
<1>2. SettlingInv /\ NeverRemoved /\ [FileNext]_fileVars => (NeverRemoved)' /\ [Lifecycle!Next]_(Lifecycle!vars)
  BY LifecycleMapping
<1>3. SettlingInv /\ [FileNext]_fileVars => (SettlingInv)'
  BY SettlingStep
<1> QED
  BY <1>1, <1>2, <1>3, SettlingInit, PTL DEF FileSpec, FilesKeepPromise, Lifecycle!Spec

-----------------------------------------------------------------------------
(* The rest of the types: the queue's jobs and the counters. *)
JobsShape == job \in [File -> Job] /\ grown \in Nat /\ mishaps \in Nat

(* The queue starts without a job. *)
LEMMA JobsInit == FileInit => JobsShape
<1>1. MaxTries \in Nat \ {0}
  BY FileAssumption
<1>2. 0 \in 0 .. MaxTries - 1
  BY <1>1
<1>3. NoJob \in Job
  BY <1>2 DEF NoJob, Job
<1> QED
  BY <1>3 DEF FileInit, JobsShape

(* A file grows by a number. *)
LEMMA GrowthType ==
    ASSUME FilesShape, NEW f \in File, NEW size \in 0 .. MaxSize
    PROVE  Growth(f, size) \in Nat /\ size <= files[f].size + Growth(f, size) /\ files[f].size \in Nat
<1>1. files[f].size \in 0 .. MaxSize /\ MaxSize \in Nat
  BY FileAssumption DEF FilesShape, FileRow
<1> QED
  BY <1>1 DEF Growth

(* Every step of a job leaves a job, and files do not shrink. *)
LEMMA JobsStep ==
    ASSUME SettlingInv, JobsShape, [FileNext]_fileVars
    PROVE  JobsShape' /\ (grown' = grown \/ grown' > grown)
<1> USE DEF JobsShape
<1>0. /\ FilesShape /\ MaxTries \in Nat \ {0} /\ 0 \in 0 .. MaxTries - 1 /\ 1 .. MaxSize \subseteq 0 .. MaxSize
      /\ \A f \in File : job[f] \in Job
  BY FileAssumption DEF SettlingInv
<1>1. ASSUME NEW x \in Job, NEW st \in {"none", "waiting", "active", "kept"}
      PROVE  [x EXCEPT !.state = st] \in Job
  BY DEF Job
<1>2. \A n \in 0 .. MaxTries - 1 : [state |-> "waiting", tries |-> n] \in Job
  BY DEF Job
<1>3. ASSUME NEW f \in File, Enqueued(f) PROVE job' \in [File -> Job]
  BY <1>0, <1>2, <1>3 DEF Enqueued
<1>4. \A u \in Caller : completing[u].pc \in {"store", "enqueue"} => completing[u].file \in File
  BY <1>0 DEF FilesShape, Call, NoCall
<1>m. mishaps' = mishaps \/ mishaps' = mishaps + 1
  BY Zenon DEF FileNext, fileVars, reserveVars, jobVars, Reserve, ReserveStep, Put, SaveReserved, Remove, ForgetJob, Abandon,
     Requeue, Complete, ReadSize, RefuseSize, StoreSizes, Enqueue, CallerDies, StartJob, FinishJob, StallJob, FailJob
<1>5. CASE UNCHANGED <<job, grown>>
  BY <1>5, <1>m
<1>6. CASE \E u \in Caller : StoreSizes(u)
  <2> PICK u \in Caller : StoreSizes(u)
    BY <1>6
  <2>1. completing[u].file \in File
    BY <1>4 DEF StoreSizes
  <2>2. completing[u].size \in 0 .. MaxSize
    BY <1>0 DEF StoreSizes, FilesShape, Call, NoCall
  <2>3. Growth(completing[u].file, completing[u].size) \in Nat
    BY <1>0, <2>1, <2>2, GrowthType
  <2>4. UNCHANGED <<job, mishaps>>
    BY DEF StoreSizes, jobVars
  <2>5. grown' = grown + Growth(completing[u].file, completing[u].size)
    BY DEF StoreSizes
  <2> QED
    BY <2>3, <2>4, <2>5
<1>7. CASE \E u \in Caller : Enqueue(u)
  BY <1>3, <1>4, <1>7 DEF Enqueue, reserveVars
<1>8. CASE \E w \in Worker, f \in File : StartJob(w, f)
  BY <1>0, <1>1, <1>8 DEF StartJob
<1>9. CASE \E w \in Worker, size \in 1 .. MaxSize : FinishJob(w, size)
  <2> PICK w \in Worker, size \in 1 .. MaxSize : FinishJob(w, size)
    BY <1>9
  <2>1. working[w] \in File
    BY <1>0 DEF FinishJob, FilesShape
  <2>2. Growth(working[w], size) \in Nat
    BY <1>0, <2>1, GrowthType
  <2>3. job' = [job EXCEPT ![working[w]] = [job[working[w]] EXCEPT !.state = "kept"]] /\ mishaps' = mishaps
        /\ (grown' = grown \/ grown' = grown + Growth(working[w], size))
    BY DEF FinishJob
  <2>4. job' \in [File -> Job]
    BY <1>0, <1>1, <2>1, <2>3
  <2> QED
    BY <2>2, <2>3, <2>4
<1>10. CASE \E w \in Worker : FailJob(w)
  <2> PICK w \in Worker : FailJob(w)
    BY <1>10
  <2>1. working[w] \in File
    BY <1>0 DEF FailJob, FilesShape
  <2>2. job[working[w]].tries \in 0 .. MaxTries - 1 /\ job[working[w]] \in Job
    BY <1>0, <2>1 DEF Job
  <2>3. ~(job[working[w]].tries + 1 >= MaxTries) => job[working[w]].tries + 1 \in 0 .. MaxTries - 1
    BY <1>0, <2>2
  <2>4. [job[working[w]] EXCEPT !.state = "kept"] \in Job
    BY <1>1, <2>2
  <2>5. job' \in [File -> Job]
    BY <1>0, <1>2, <2>1, <2>3, <2>4 DEF FailJob
  <2> QED
    BY <2>5 DEF FailJob
<1>11. CASE \E w \in Worker, gone \in BOOLEAN : StallJob(w, gone)
  <2> PICK w \in Worker, gone \in BOOLEAN : StallJob(w, gone)
    BY <1>11
  <2>1. working[w] \in File
    BY <1>0 DEF StallJob, FilesShape
  <2>2. job' \in [File -> Job]
    BY <1>0, <1>1, <2>1 DEF StallJob
  <2> QED
    BY <2>2 DEF StallJob
<1>12. CASE \E f \in File : ForgetJob(f) \/ Requeue(f)
  <2>1. NoJob \in Job
    BY <1>0 DEF NoJob, Job
  <2> QED
    BY <1>3, <1>12, <2>1 DEF ForgetJob, Requeue
<1> QED
  BY <1>5, <1>6, <1>7, <1>8, <1>9, <1>10, <1>11, <1>12
  DEF FileNext, fileVars, reserveVars, jobVars, Reserve, ReserveStep, Put, SaveReserved, Remove, Abandon, Complete, ReadSize,
      RefuseSize, CallerDies

(* The rows, the requests, the workers and the jobs of the queue keep their types. *)
THEOREM FileTypeCorrect == FileSpec => []FileTypeOK
<1>1. SettlingInv /\ JobsShape => FileTypeOK
  BY DEF SettlingInv, FilesShape, JobsShape, FileTypeOK
<1> QED
  BY <1>1, SettlingInit, JobsInit, SettlingStep, JobsStep, PTL DEF FileSpec

-----------------------------------------------------------------------------
(* The quota.  What one row counts for is what it adds to the sum of all. *)
Counted(x) == IF x.status \in {"PENDING", "READY"} /\ ~x.deleted THEN x.size ELSE 0

(* What is used by given rows; Used is that of the rows there are. *)
Uses(rs) == SumFunctionOnSet([f \in File |-> rs[f].size],
                {f \in File : rs[f].status \in {"PENDING", "READY"} /\ ~rs[f].deleted})

(* What is used now, and next. *)
LEMMA UsedNow == Used = Uses(files) /\ Used' = Uses(files')
BY DEF Used, Uses

(* A new row of a file changes what is used by what the rows count for. *)
LEMMA UsesChange ==
    ASSUME NEW rs \in [File -> FileRow], NEW f \in File, NEW x \in FileRow
    PROVE  /\ Uses(rs) \in Nat /\ Counted(rs[f]) \in Nat /\ Counted(x) \in Nat
           /\ Uses([rs EXCEPT ![f] = x]) = Uses(rs) - Counted(rs[f]) + Counted(x)
<1> DEFINE new == [rs EXCEPT ![f] = x]
           w == [g \in File |-> rs[g].size]
           v == [g \in File |-> new[g].size]
           S == {g \in File : rs[g].status \in {"PENDING", "READY"} /\ ~rs[g].deleted}
           T == {g \in File : new[g].status \in {"PENDING", "READY"} /\ ~new[g].deleted}
<1>0. \A y \in FileRow : y.size \in Nat
  BY DEF FileRow
<1>1. IsFiniteSet(S)
  BY FileAssumption, FS_Subset
<1>2. new[f] = x /\ \A g \in File \ {f} : new[g] = rs[g]
  OBVIOUS
<1>3. new \in [File -> FileRow]
  OBVIOUS
<1> HIDE DEF new
<1>4. (\A g \in S : w[g] \in Nat) /\ (\A g \in T : v[g] \in Nat)
  BY <1>0, <1>3
<1>5. S \ {f} = T \ {f}
  BY <1>2
<1>6. \A g \in S \ {f} : w[g] = v[g]
  BY <1>2
<1>7. PartOf(w, S, f) = Counted(rs[f]) /\ PartOf(v, T, f) = Counted(x)
  BY <1>2 DEF PartOf, Counted
<1>8. Uses(rs) = SumFunctionOnSet(w, S) /\ Uses(new) = SumFunctionOnSet(v, T)
  BY DEF Uses
<1>9. Counted(rs[f]) \in Nat /\ Counted(x) \in Nat
  BY <1>0 DEF Counted
<1> HIDE DEF w, v, S, T
<1>10. (\A g \in S : w[g] \in Int) /\ (\A g \in T : v[g] \in Int)
  BY <1>4
<1>11. SumFunctionOnSet(v, T) = SumFunctionOnSet(w, S) - PartOf(w, S, f) + PartOf(v, T, f)
  BY <1>1, <1>5, <1>6, <1>10, SumChange
<1>12. SumFunctionOnSet(w, S) \in Nat
  BY <1>1, <1>4, SumType
<1> QED
  BY <1>7, <1>8, <1>9, <1>11, <1>12 DEF new

(* There is room for the one reservation in progress. *)
QuotaInv ==
    /\ Used <= Quota + grown
    /\ \A f \in File : reserving[f] # 0 => /\ Used + reserving[f] <= Quota + grown
                                           /\ \A g \in File : g # f => reserving[g] = 0

(* A step that rewrites the row of a file that has one counts its growth. *)
LEMMA QuotaRow ==
    ASSUME SettlingInv, JobsShape, QuotaInv, NEW f \in File, NEW x \in FileRow, NEW d \in Nat,
           files' = [files EXCEPT ![f] = x], grown' = grown + d, reserving' = reserving,
           Counted(x) <= Counted(files[f]) + d
    PROVE  QuotaInv'
<1>1. /\ Used \in Nat /\ Counted(files[f]) \in Nat /\ Counted(x) \in Nat
      /\ Used' = Used - Counted(files[f]) + Counted(x)
  BY UsedNow, UsesChange DEF SettlingInv, FilesShape
<1>2. \A g \in File : reserving[g] \in Nat
  BY FileAssumption DEF SettlingInv, FilesShape
<1>3. Used' <= Used + d /\ Used' \in Int /\ grown \in Nat /\ Quota \in Nat
  BY <1>1, FileAssumption DEF JobsShape
<1> QED
  BY <1>1, <1>2, <1>3 DEF QuotaInv

(* Every step keeps room for the reservation: a reservation checks the quota with
   the lock on it, and whatever makes a file larger counts as growth. *)
LEMMA QuotaStep ==
    ASSUME SettlingInv, JobsShape, QuotaInv, [FileNext]_fileVars
    PROVE  QuotaInv'
<1>t. /\ files \in [File -> FileRow] /\ grown \in Nat /\ Quota \in Nat /\ 1 .. MaxSize \subseteq 0 .. MaxSize /\ 0 \in Nat
      /\ \A f \in File : files[f] \in FileRow /\ reserving[f] \in Nat /\ tmp[f] \in 0 .. MaxSize
  BY FileAssumption DEF SettlingInv, FilesShape, JobsShape
<1>1. CASE UNCHANGED <<files, reserving, grown>>
  BY <1>1, UsedNow DEF QuotaInv
<1>2. CASE \E f \in File, size \in 1 .. MaxSize : Reserve(f, size)
  <2> PICK f \in File, size \in 1 .. MaxSize : Reserve(f, size)
    BY <1>2
  <2>1. UNCHANGED <<files, grown>> /\ Used + size <= Quota /\ reserving' = [reserving EXCEPT ![f] = size]
        /\ \A g \in File : reserving[g] = 0
    BY DEF Reserve, ReserveStep
  <2>2. Used' = Used /\ Used \in Nat
    BY <1>t, <2>1, UsedNow, UsesChange
  <2>3. reserving'[f] = size /\ \A g \in File : g # f => reserving'[g] = 0
    BY <2>1 DEF SettlingInv, FilesShape
  <2> QED
    BY <1>t, <2>1, <2>2, <2>3 DEF QuotaInv
<1>3. CASE \E f \in File : SaveReserved(f)
  <2> PICK f \in File : SaveReserved(f)
    BY <1>3
  <2> DEFINE x == [NewFile EXCEPT !.status = "PENDING", !.size = reserving[f]]
  <2>1. files' = [files EXCEPT ![f] = x] /\ reserving' = [reserving EXCEPT ![f] = 0] /\ grown' = grown
        /\ reserving[f] # 0 /\ reserving[f] \in 0 .. MaxSize
    BY DEF SaveReserved, ReserveStep, SettlingInv, FilesShape
  <2>2. x \in FileRow /\ Counted(x) = reserving[f]
    BY <2>1 DEF NewFile, FileRow, Counted
  <2>3. Counted(files[f]) = 0
    BY <2>1 DEF SettlingInv, Settling, Counted
  <2> HIDE DEF x
  <2>4. Used' = Used + reserving[f] /\ Used \in Nat
    <3>1. /\ Uses(files) \in Nat
          /\ Uses([files EXCEPT ![f] = x]) = Uses(files) - Counted(files[f]) + Counted(x)
      BY <1>t, <2>2, UsesChange
    <3>2. Used = Uses(files) /\ Used' = Uses([files EXCEPT ![f] = x])
      BY <2>1, UsedNow
    <3> QED
      BY <2>1, <2>2, <2>3, <3>1, <3>2
  <2>5. \A g \in File : reserving'[g] = 0
    BY <2>1 DEF QuotaInv, SettlingInv, FilesShape
  <2>6. Used + reserving[f] <= Quota + grown
    BY <2>1 DEF QuotaInv
  <2> QED
    BY <2>1, <2>4, <2>5, <2>6 DEF QuotaInv
<1>4. CASE \E f \in File : Remove(f)
  <2> PICK f \in File : Remove(f)
    BY <1>4
  <2> DEFINE x == [files[f] EXCEPT !.deleted = TRUE]
  <2>1. files' = [files EXCEPT ![f] = x] /\ UNCHANGED <<reserving, grown>>
    BY DEF Remove, reserveVars
  <2>2. x \in FileRow /\ x.deleted /\ Counted(files[f]) \in Nat
    <3>1. files[f] \in FileRow
      BY <1>t
    <3>2. x \in FileRow /\ x.deleted = TRUE
      BY <3>1 DEF FileRow
    <3>3. Counted(files[f]) \in Nat
      BY <3>1 DEF FileRow, Counted
    <3> QED
      BY <3>2, <3>3, Zenon
  <2> HIDE DEF x
  <2>3. Counted(x) <= Counted(files[f]) + 0 /\ grown' = grown + 0 /\ reserving' = reserving
    BY <1>t, <2>1, <2>2 DEF Counted
  <2> QED
    BY <1>t, <2>1, <2>2, <2>3, QuotaRow
<1>5. ASSUME NEW f \in File, files' = [files EXCEPT ![f] = [files[f] EXCEPT !.status = "FAILED"]], UNCHANGED <<reserving, grown>>
      PROVE  QuotaInv'
  <2> DEFINE x == [files[f] EXCEPT !.status = "FAILED"]
  <2>1. x \in FileRow /\ Counted(x) = 0 /\ Counted(files[f]) \in Nat
    BY <1>t DEF FileRow, Counted
  <2> HIDE DEF x
  <2>2. files' = [files EXCEPT ![f] = x]
    BY <1>5 DEF x
  <2>3. Counted(x) <= Counted(files[f]) + 0 /\ grown' = grown + 0 /\ reserving' = reserving
    BY <1>5, <1>t, <2>1
  <2> QED
    BY <1>t, <2>1, <2>2, <2>3, QuotaRow
<1>6. ASSUME NEW f \in File, NEW size \in 0 .. MaxSize, NEW x \in FileRow, files' = [files EXCEPT ![f] = x],
             reserving' = reserving, x.size = size, x.deleted = files[f].deleted, files[f].status # "NONE",
             x.status = files[f].status \/ (files[f].status = "PENDING" /\ x.status = "READY"),
             grown' = grown + Growth(f, size)
      PROVE  QuotaInv'
  <2>1. Growth(f, size) \in Nat /\ size <= files[f].size + Growth(f, size) /\ files[f].size \in Nat
    BY GrowthType DEF SettlingInv
  <2>2. Counted(x) <= Counted(files[f]) + Growth(f, size)
    BY <1>6, <2>1 DEF Counted
  <2> QED
    BY <1>6, <2>1, <2>2, QuotaRow
<1>7. CASE \E f \in File : Abandon(f)
  BY <1>5, <1>7 DEF Abandon, JobStep
<1>8. CASE \E u \in Caller : StoreSizes(u)
  <2> PICK u \in Caller : StoreSizes(u)
    BY <1>8
  <2> DEFINE f == completing[u].file
             x == [files[f] EXCEPT !.size = completing[u].size, !.original = TRUE]
  <2>1. f \in File /\ completing[u].size \in 0 .. MaxSize /\ reserving' = reserving
    BY DEF StoreSizes, SettlingInv, FilesShape, Call, NoCall
  <2>2. files[f].status # "NONE"
    BY <2>1 DEF SettlingInv, Settling
  <2>3. files' = [files EXCEPT ![f] = x] /\ grown' = grown + Growth(f, completing[u].size)
    BY DEF StoreSizes
  <2>4. x \in FileRow /\ x.size = completing[u].size /\ x.status = files[f].status /\ x.deleted = files[f].deleted
    <3>1. files[f] \in FileRow
      BY <1>t, <2>1
    <3> QED
      BY <2>1, <3>1 DEF FileRow
  <2> HIDE DEF x, f
  <2> QED
    BY <1>6, <1>t, <2>1, <2>2, <2>3, <2>4
<1>11. CASE \E u \in Caller : RefuseSize(u)
  <2> PICK u \in Caller : RefuseSize(u)
    BY <1>11
  <2>1. completing[u].file \in File /\ UNCHANGED <<reserving, grown>>
    BY FilesTyped DEF RefuseSize, reserveVars
  <2>2. files' = [files EXCEPT ![completing[u].file] = [files[completing[u].file] EXCEPT !.status = "FAILED"]]
    BY DEF RefuseSize
  <2> QED
    BY <1>5, <2>1, <2>2
<1>9. CASE \E w \in Worker, size \in 1 .. MaxSize : FinishJob(w, size)
  <2> PICK w \in Worker, size \in 1 .. MaxSize : FinishJob(w, size)
    BY <1>9
  <2> DEFINE f == working[w]
  <2>1. f \in File /\ reserving' = reserving /\ size \in 0 .. MaxSize
    BY <1>t DEF FinishJob, JobStep, SettlingInv, FilesShape
  <2>2. CASE files[f].status = "PENDING"
    <3> DEFINE x == [files[f] EXCEPT !.status = "READY", !.size = size]
    <3>1. files' = [files EXCEPT ![f] = x] /\ grown' = grown + Growth(f, size)
      BY <2>2 DEF FinishJob
    <3>2. x \in FileRow /\ x.size = size /\ x.status = "READY" /\ x.deleted = files[f].deleted
      <4>1. files[f] \in FileRow
        BY <1>t, <2>1
      <4> QED
        BY <2>1, <4>1 DEF FileRow
    <3> HIDE DEF x, f
    <3> QED
      BY <1>6, <1>t, <2>1, <2>2, <3>1, <3>2
  <2>3. CASE files[f].status # "PENDING"
    BY <1>1, <2>1, <2>3 DEF FinishJob
  <2> QED
    BY <2>2, <2>3
<1>10. CASE \E w \in Worker : FailJob(w)
  <2> PICK w \in Worker : FailJob(w)
    BY <1>10
  <2>1. working[w] \in File /\ UNCHANGED <<reserving, grown>>
    BY DEF FailJob, JobStep, SettlingInv, FilesShape
  <2>2. files' = files \/ files' = [files EXCEPT ![working[w]] = [files[working[w]] EXCEPT !.status = "FAILED"]]
    BY DEF FailJob
  <2> QED
    BY <1>1, <1>5, <2>1, <2>2
<1> QED
  BY <1>1, <1>2, <1>3, <1>4, <1>7, <1>8, <1>9, <1>10, <1>11
  DEF FileNext, fileVars, reserveVars, jobVars, JobStep, Put, ForgetJob, Requeue, Complete, ReadSize, Enqueue, CallerDies,
      StartJob, StallJob

(* Parallel uploads do not pass the quota together: what is stored exceeds it by no more
   than files grew after their space was reserved, for any number of files and requests. *)
THEOREM QuotaHolds == FileSpec => []QuotaKept
<1>1. FileInit => QuotaInv
  <2> SUFFICES ASSUME FileInit PROVE QuotaInv
    OBVIOUS
  <2>1. {f \in File : files[f].status \in {"PENDING", "READY"} /\ ~files[f].deleted} = {}
    BY DEF FileInit, NewFile
  <2>2. Used = 0
    BY <2>1, SumEmpty DEF Used
  <2> QED
    BY <2>2, FileAssumption DEF FileInit, QuotaInv
<1>2. QuotaInv => QuotaKept
  BY DEF QuotaInv, QuotaKept
<1> QED
  BY <1>1, <1>2, SettlingInit, JobsInit, SettlingStep, JobsStep, QuotaStep, PTL DEF FileSpec

-----------------------------------------------------------------------------
(* The modules that the run of MCSchool checks side by side are each themselves
   there, whichever desk is worked at: what is proved of one of them holds of
   that run. *)
LEMMA DeskStep ==
    ASSUME [SchoolNext]_<<desk, dayVars, homeworkVars, fileVars, paperVars, gradingVars, enrolVars>>
    PROVE  /\ [DayNext]_dayVars /\ [HomeworkNext]_homeworkVars /\ [FileNext]_fileVars
           /\ [PaperNext]_paperVars /\ [GradingNext]_gradingVars /\ [EnrolNext]_enrolVars
           /\ UNCHANGED desk
BY Zenon DEF SchoolNext

(* Every behaviour of the school is a behaviour of each module. *)
THEOREM SchoolRunsAll ==
    SchoolSpec => DaySpec /\ HomeworkSpec /\ FileSpec /\ PaperSpec /\ GradingSpec /\ EnrolSpec
<1>1. SchoolInit => DayInit /\ HomeworkInit /\ FileInit /\ PaperInit /\ GradingInit /\ EnrolInit
  BY DEF SchoolInit
<1>2. [SchoolNext]_<<desk, dayVars, homeworkVars, fileVars, paperVars, gradingVars, enrolVars>> =>
        /\ [DayNext]_dayVars /\ [HomeworkNext]_homeworkVars /\ [FileNext]_fileVars
        /\ [PaperNext]_paperVars /\ [GradingNext]_gradingVars /\ [EnrolNext]_enrolVars
  BY DeskStep
<1> QED
  BY <1>1, <1>2, PTL DEF SchoolSpec, DaySpec, HomeworkSpec, FileSpec, PaperSpec, GradingSpec, EnrolSpec

(* SchoolTypeOK, of MCSchool: the types of all six modules. *)
THEOREM SchoolTypeCorrect == SchoolSpec => []SchoolTypeOK
<1>1. SchoolInit => desk \in Desk
  BY DEF SchoolInit
<1>2. desk \in Desk /\ [SchoolNext]_<<desk, dayVars, homeworkVars, fileVars, paperVars, gradingVars, enrolVars>> =>
        (desk \in Desk)'
  BY DeskStep, Zenon
<1>3. SchoolSpec => [](desk \in Desk)
  BY <1>1, <1>2, PTL DEF SchoolSpec
<1>4. desk \in Desk /\ DayTypeOK /\ HomeworkTypeOK /\ FileTypeOK /\ PaperTypeOK /\ GradingTypeOK /\ EnrolTypeOK =>
        SchoolTypeOK
  BY DEF SchoolTypeOK
<1> QED
  BY <1>3, <1>4, SchoolRunsAll, DayTypeCorrect, HomeworkTypeCorrect, FileTypeCorrect, PaperTypeCorrect, GradingTypeCorrect,
     EnrolTypeCorrect, PTL

(* Whatever of its desks the school works at, the properties of all six modules hold:
   what each handler and job of the six services promises (section 4 of the README). *)
THEOREM SchoolSafe ==
    SchoolSpec =>
        /\ [](RegisterComplete /\ LeaveExplained /\ OneLeave /\ ToldMissedAll)
        /\ [](HandInsBounded /\ ScoredIsLast /\ QuotaKept)
        /\ [](PaperExplained /\ PublishedMarked /\ GradesAddUp)
        /\ PresenceStands /\ NothingUndone /\ FilesKeepPromise /\ EnrolmentStands
<1>1. SchoolSpec => [](RegisterComplete /\ LeaveExplained /\ OneLeave /\ ToldMissedAll) /\ PresenceStands
  BY SchoolRunsAll, RegisterHolds, LeaveExplainedHolds, OneLeaveHolds, ToldHolds, PresenceHolds, PTL
<1>2. SchoolSpec => [](HandInsBounded /\ ScoredIsLast /\ QuotaKept) /\ NothingUndone /\ FilesKeepPromise
  BY SchoolRunsAll, HandInsBoundedHolds, ScoredIsLastHolds, QuotaHolds, NothingUndoneHolds, UploadsKeepPromise, PTL
<1>3. SchoolSpec => [](PaperExplained /\ PublishedMarked /\ GradesAddUp) /\ EnrolmentStands
  BY SchoolRunsAll, PaperExplainedHolds, PublishedMarkedHolds, GradesAddUpHolds, EnrolmentStandsHolds, PTL
<1> QED
  BY <1>1, <1>2, <1>3, PTL
=============================================================================
