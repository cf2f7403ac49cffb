------------------------------ MODULE Grading -------------------------------
(***************************************************************************)
(* Teachers grading one submitted sheet: getSubmissionForGrading and       *)
(* saveSubmissionGrades (backend/src/exams/student-exam.service.ts) and    *)
(* the publication of the results (exam.service.ts).  Marks are rows of    *)
(* their own; the sheet's total and whether it is graded are columns of a  *)
(* row that every request saves as a whole, from what it read before.      *)
(***************************************************************************)
EXTENDS Naturals, FiniteSetsExt

CONSTANTS
    Question,       \* those that are graded by hand
    Marker,         \* requests at the same time
    MaxMark,        \* bound: marks
    MaxMarkings     \* bound: requests

ASSUME GradingAssumption ==
    {MaxMark, MaxMarkings} \subseteq Nat /\ Question # {} /\ IsFiniteSet(Question)

VARIABLES
    marks,          \* student_exam_answers: marks_obtained; NoMark is NULL
    sheet,          \* student_exam_submissions: total_score and is_graded
    marker,         \* what each request has loaded and where it is
    markings,       \* counted to bound the model
    overlapped,     \* history: did two of the requests at work overlap?
    torn,           \* history: did any, or end early, since marks were last saved by one alone?
    published       \* exams: result_published_at; checked is a request that found all graded

gradingVars == <<marks, sheet, marker, markings, overlapped, torn, published>>

NoMark == MaxMark + 1
MarkSheet == [Question -> 0 .. NoMark]
NoMarks == [q \in Question |-> NoMark]
Sheet == [total : Nat, graded : BOOLEAN]
AllMarked(m) == \A q \in Question : m[q] # NoMark
Total(m) == SumFunctionOnSet(m, {q \in Question : m[q] # NoMark})

(* mark, more: before and after the first mark; store: the first total; recount,
   save: the second and the row; look, show: opening. *)
NoMarking == [pc |-> "idle", todo |-> NoMarks, row |-> [total |-> 0, graded |-> FALSE], seen |-> NoMarks]
Marking == [pc : {"mark", "more", "store", "recount", "save", "look", "show"},
            todo : MarkSheet, row : Sheet, seen : MarkSheet]

GradingTypeOK ==
    /\ marks \in MarkSheet
    /\ sheet \in Sheet
    /\ marker \in [Marker -> Marking \cup {NoMarking}]
    /\ markings \in 0 .. MaxMarkings
    /\ {overlapped, torn} \subseteq BOOLEAN /\ published \in {"no", "checked", "yes"}

GradingInit ==
    /\ marks = NoMarks
    /\ sheet = [total |-> 0, graded |-> FALSE]
    /\ marker = [m \in Marker |-> NoMarking]
    /\ markings = 0 /\ overlapped = FALSE /\ torn = FALSE /\ published = "no"

-----------------------------------------------------------------------------
Quiet == \A m \in Marker : marker[m] = NoMarking
Enter(m, marking) ==
    /\ marker[m] = NoMarking /\ markings < MaxMarkings
    /\ marker' = [marker EXCEPT ![m] = marking]
    /\ markings' = markings + 1
    /\ overlapped' = ~Quiet
    /\ torn' = (torn \/ ~Quiet)
    /\ UNCHANGED <<marks, sheet, published>>

(* loadGradableSubmission, for saving marks of some questions or for a look *)
OpenToMark(m) ==
    \E todo \in MarkSheet \ {NoMarks} :
        Enter(m, [NoMarking EXCEPT !.pc = "mark", !.todo = todo, !.row = sheet])
OpenToLook(m) == Enter(m, [NoMarking EXCEPT !.pc = "look", !.row = sheet])

(* saveSubmissionGrades: one answer after the other *)
SaveMark(m, q) ==
    /\ marker[m].pc \in {"mark", "more"} /\ marker[m].todo[q] # NoMark
    /\ marks' = [marks EXCEPT ![q] = marker[m].todo[q]]
    /\ marker' = [marker EXCEPT ![m].pc = "more", ![m].todo[q] = NoMark]
    /\ UNCHANGED <<sheet, markings, overlapped, torn, published>>

(* The answers are read, twice when marks are saved. *)
ReadMarks(m) ==
    /\ \/ marker[m].pc = "more" /\ marker[m].todo = NoMarks
       \/ marker[m].pc \in {"recount", "look"}
    /\ marker' = [marker EXCEPT ![m].seen = marks, ![m].pc =
                     CASE @ = "more" -> "store" [] @ = "recount" -> "save" [] @ = "look" -> "show"]
    /\ UNCHANGED <<marks, sheet, markings, overlapped, torn, published>>

(* recomputeSubmissionTotalScore *)
StoreTotal(m) ==
    /\ marker[m].pc = "store"
    /\ sheet' = [sheet EXCEPT !.total = Total(marker[m].seen)]
    /\ marker' = [marker EXCEPT ![m].pc = "recount"]
    /\ UNCHANGED <<marks, markings, overlapped, torn, published>>

(* saveSubmissionGrades: save(submission) *)
BugSaveSheet(m) ==      \* graded as soon as a mark is saved
    /\ marker[m].pc = "save"
    /\ sheet' = [total |-> Total(marker[m].seen), graded |-> TRUE]
    /\ marker' = [marker EXCEPT ![m] = NoMarking]
    /\ torn' = (torn /\ overlapped)
    /\ UNCHANGED <<marks, markings, overlapped, published>>
BugSaveOldTotal(m) ==      \* saves the total it loaded
    /\ marker[m].pc = "save"
    /\ sheet' = [total |-> marker[m].row.total, graded |-> AllMarked(marker[m].seen)]
    /\ marker' = [marker EXCEPT ![m] = NoMarking]
    /\ torn' = (torn /\ overlapped)
    /\ UNCHANGED <<marks, markings, overlapped, published>>

SaveSheet(m) ==
    /\ marker[m].pc = "save"
    /\ sheet' = [total |-> Total(marker[m].seen), graded |-> AllMarked(marker[m].seen)]
    /\ marker' = [marker EXCEPT ![m] = NoMarking]
    /\ torn' = (torn /\ overlapped)
    /\ UNCHANGED <<marks, markings, overlapped, published>>

(* getSubmissionForGrading: save(submission), graded or not as it was loaded *)
SaveLook(m) ==
    /\ marker[m].pc = "show"
    /\ sheet' = [total |-> Total(marker[m].seen), graded |-> marker[m].row.graded]
    /\ marker' = [marker EXCEPT ![m] = NoMarking]
    /\ UNCHANGED <<marks, markings, overlapped, torn, published>>

(* A request that ends early leaves the marks it has saved. *)
EndEarly(m) ==
    /\ marker' = [marker EXCEPT ![m] = NoMarking]
    /\ torn' = (torn \/ marker[m].pc \in {"more", "store", "recount", "save"})
    /\ UNCHANGED <<marks, sheet, markings, overlapped, published>>

(* saveSubmissionGrades: a mark that is no mark for its question *)
RejectMark(m) == marker[m].pc \in {"mark", "more"} /\ marker[m].todo # NoMarks /\ EndEarly(m)

DropMarking(m) == marker[m] # NoMarking /\ EndEarly(m)

(* publishResult: "Grade all submissions before publishing." *)
CheckGraded ==
    /\ published = "no" /\ sheet.graded
    /\ published' = "checked"
    /\ UNCHANGED <<marks, sheet, marker, markings, overlapped, torn>>
PublishGrades ==
    /\ published = "checked"
    /\ published' = "yes"
    /\ UNCHANGED <<marks, sheet, marker, markings, overlapped, torn>>

GradingNext ==
    \/ CheckGraded \/ PublishGrades
    \/ \E m \in Marker :
          \/ OpenToMark(m) \/ OpenToLook(m)
          \/ \E q \in Question : SaveMark(m, q)
          \/ ReadMarks(m) \/ StoreTotal(m) \/ SaveSheet(m) \/ SaveLook(m) \/ RejectMark(m) \/ DropMarking(m)

GradingSpec == GradingInit /\ [][GradingNext]_gradingVars

-----------------------------------------------------------------------------
(* However requests overlap, die and save old rows, results are published
   only when every question has been marked. *)
PublishedMarked == published = "yes" => AllMarked(marks)

(* A sheet at rest has the total of its marks, and is graded if and only if every
   question is marked, unless requests overlapped, or one was refused or died with
   some of its marks saved; and the next one that saves marks alone to the end
   puts it right again. *)
GradesAddUp ==
    Quiet /\ ~torn => sheet = [total |-> Total(marks), graded |-> AllMarked(marks)]
=============================================================================
