------------------------------ MODULE Homework ------------------------------
(***************************************************************************)
(* One homework and one student it is set to (backend/src/homework/):      *)
(* staff edit, publish, schedule and withdraw it, the job publishes it on  *)
(* time, the student hands in and teachers score, return and publish       *)
(* scores.  Only the hand-in works under a lock, the homework row's, which *)
(* those who score do not take: the others save a row, or act on a list,   *)
(* that they read earlier.                                                 *)
(***************************************************************************)
EXTENDS Naturals, Sequences, FiniteSets

CONSTANTS
    Editor,         \* requests that change the homework at the same time
    Tab,            \* hand-ins of the student at the same time
    Grader,         \* requests that score or return at the same time
    Resubmissions,  \* hand-ins allowed after the first one
    MaxTime,        \* bound: publish times
    MaxEdits,       \* bound: changes of the homework
    MaxGrades       \* bound: requests to score, to return or to publish the scores

ASSUME HomeworkAssumption == {Resubmissions, MaxTime, MaxEdits, MaxGrades} \subseteq Nat

VARIABLES
    now,
    homework,       \* the homework row; publishAt 0 is NULL
    held,           \* what each editor has loaded and is going to do
    found,          \* has the job listed the homework as due?
    releasing,      \* was a request let through to publish the scores?
    versions,       \* homework_submissions of the student, oldest first: status
    handing,        \* tabs that were let through to hand in
    checked,        \* the one of them that holds the row's lock and found nothing against it
    grading,        \* what each grader has loaded and is going to do
    redos,          \* history: how often a hand-in was returned
    overtaken,      \* history: versions whose scoring a hand-in overlapped
    edits, grades   \* counted to bound the model

publishVars == <<found, releasing>>
submitVars == <<versions, handing, checked>>
gradeVars == <<grading, redos, grades>>
editVars == <<held, edits>>
homeworkVars == <<now, homework, editVars, publishVars, submitVars, gradeVars, overtaken>>

Row == [status : {"DRAFT", "SCHEDULED", "PUBLISHED", "CANCELLED"},
        publishAt : 0 .. MaxTime, scoresOut : BOOLEAN]
NoEdit == [op |-> "none"]
Edit == [op : {"update", "publish", "cancel"}, row : Row]
            \cup [op : {"schedule"}, row : Row, at : 1 .. MaxTime]
NoGrade == [op |-> "none"]
Grade == [op : {"score", "return"}, version : Nat \ {0}]

Allowance == 1 + Resubmissions

HomeworkTypeOK ==
    /\ now \in 0 .. MaxTime
    /\ homework \in Row
    /\ held \in [Editor -> Edit \cup {NoEdit}]
    /\ found \in BOOLEAN /\ releasing \in BOOLEAN
    /\ versions \in Seq({"SUBMITTED", "RETURNED", "SCORED"})
    /\ checked \subseteq handing /\ handing \subseteq Tab
    /\ grading \in [Grader -> Grade \cup {NoGrade}]
    /\ \A g \in Grader : grading[g] # NoGrade => grading[g].version <= Len(versions)
    /\ overtaken \subseteq 1 .. Len(versions)
    /\ {redos, edits, grades} \subseteq Nat

HomeworkInit ==
    /\ now = 0
    /\ homework = [status |-> "DRAFT", publishAt |-> 0, scoresOut |-> FALSE]
    /\ held = [e \in Editor |-> NoEdit] /\ found = FALSE /\ releasing = FALSE
    /\ versions = <<>> /\ handing = {} /\ checked = {}
    /\ grading = [g \in Grader |-> NoGrade]
    /\ redos = 0 /\ overtaken = {} /\ edits = 0 /\ grades = 0

TickHomework ==
    /\ now < MaxTime /\ now' = now + 1
    /\ UNCHANGED <<homework, editVars, publishVars, submitVars, gradeVars, overtaken>>

-----------------------------------------------------------------------------
(* Whoever updates the homework's row waits for a hand-in that has locked it. *)
RowUnlocked == checked = {}

(* update, publish and cancel load the homework and check its status ... *)
MayEdit(op) ==
    CASE op \in {"update", "cancel"} -> homework.status # "CANCELLED"
      [] op \in {"publish", "schedule"} -> homework.status \in {"DRAFT", "SCHEDULED"}

LoadHomework(e, op) ==
    /\ held[e] = NoEdit /\ edits < MaxEdits /\ MayEdit(op)
    /\ IF op = "schedule"
       THEN \E at \in now + 1 .. MaxTime :
               held' = [held EXCEPT ![e] = [op |-> op, row |-> homework, at |-> at]]
       ELSE held' = [held EXCEPT ![e] = [op |-> op, row |-> homework]]
    /\ edits' = edits + 1
    /\ UNCHANGED <<now, homework, publishVars, submitVars, gradeVars, overtaken>>

(* ... and save all of the loaded row: the columns they do not change, too. *)
Saved(e) ==
    CASE held[e].op = "update" -> held[e].row
      [] held[e].op = "publish" -> [held[e].row EXCEPT !.status = "PUBLISHED", !.publishAt = 0]
      [] held[e].op = "schedule" -> [held[e].row EXCEPT !.status = "SCHEDULED", !.publishAt = held[e].at]
      [] held[e].op = "cancel" -> [held[e].row EXCEPT !.status = "CANCELLED"]

SaveHomework(e) ==
    /\ held[e] # NoEdit /\ RowUnlocked
    /\ homework' = Saved(e)
    /\ held' = [held EXCEPT ![e] = NoEdit]
    /\ UNCHANGED <<now, edits, publishVars, submitVars, gradeVars, overtaken>>

(* sweep: the list of what is due, and the claim of each *)
FindDue ==
    /\ ~found /\ homework.status = "SCHEDULED" /\ homework.publishAt \in 1 .. now
    /\ found' = TRUE
    /\ UNCHANGED <<now, homework, editVars, releasing, submitVars, gradeVars, overtaken>>

BugClaimDue ==      \* claims by its id alone
    /\ found /\ found' = FALSE /\ RowUnlocked
    /\ homework' = [homework EXCEPT !.status = "PUBLISHED"]
    /\ UNCHANGED <<now, editVars, releasing, submitVars, gradeVars, overtaken>>

ClaimDue ==
    /\ found /\ found' = FALSE /\ RowUnlocked
    /\ homework' = IF homework.status = "SCHEDULED" THEN [homework EXCEPT !.status = "PUBLISHED"]
                                                    ELSE homework
    /\ UNCHANGED <<now, editVars, releasing, submitVars, gradeVars, overtaken>>

(* publishScores: the check ... *)
MayPublishScores ==
    /\ ~releasing /\ grades < MaxGrades /\ homework.status = "PUBLISHED"
    /\ releasing' = TRUE /\ grades' = grades + 1
    /\ UNCHANGED <<now, homework, editVars, found, submitVars, grading, redos, overtaken>>

(* ... and the update, by the homework's id and of its own columns only. *)
PublishScores ==
    /\ releasing /\ RowUnlocked
    /\ homework' = [homework EXCEPT !.scoresOut = TRUE]
    /\ releasing' = FALSE
    /\ UNCHANGED <<now, editVars, found, submitVars, gradeVars, overtaken>>

-----------------------------------------------------------------------------
(* submit: the homework is looked up before the transaction. *)
OpenHandIn(t) ==
    /\ t \notin handing /\ homework.status = "PUBLISHED"
    /\ handing' = handing \cup {t}
    /\ UNCHANGED <<now, homework, editVars, publishVars, versions, checked, gradeVars, overtaken>>

Latest == versions[Len(versions)]
NumReturned == Cardinality({i \in DOMAIN versions : versions[i] = "RETURNED"})

(* blockedBy; a late hand-in that the organisation refuses is a DropHandIn. *)
BugBlocked ==       \* a scored hand-in does not count
    versions # <<>> /\ Latest # "RETURNED" /\ Len(versions) >= Allowance + NumReturned
Blocked ==
    /\ versions # <<>>
    /\ \/ Latest = "SCORED"
       \/ Latest # "RETURNED" /\ Len(versions) >= Allowance + NumReturned

BugHandIn(t) ==     \* without the lock
    /\ t \in handing \ checked /\ ~Blocked
    /\ checked' = checked \cup {t}
    /\ UNCHANGED <<now, homework, editVars, publishVars, versions, handing, gradeVars, overtaken>>

(* submit: under the homework's row lock the versions are read and checked ... *)
HandIn(t) ==
    /\ t \in handing /\ checked = {} /\ ~Blocked
    /\ checked' = {t}
    /\ UNCHANGED <<now, homework, editVars, publishVars, versions, handing, gradeVars, overtaken>>

(* ... and one is added, whatever the others have become by now. *)
Scoring == {g \in Grader : grading[g].op = "score"}
SaveHandIn(t) ==
    /\ t \in checked
    /\ versions' = Append(versions, "SUBMITTED")
    /\ overtaken' = overtaken \cup {grading[g].version : g \in Scoring}
    /\ handing' = handing \ {t} /\ checked' = checked \ {t}
    /\ UNCHANGED <<now, homework, editVars, publishVars, gradeVars>>

(* It was refused, or died. *)
DropHandIn(t) ==
    /\ t \in handing
    /\ handing' = handing \ {t} /\ checked' = checked \ {t}
    /\ UNCHANGED <<now, homework, editVars, publishVars, versions, gradeVars, overtaken>>

-----------------------------------------------------------------------------
(* save and returnForRedo take the latest hand-in they read before, and no lock. *)
LoadHandIn(g, op) ==
    /\ grading[g] = NoGrade /\ grades < MaxGrades
    /\ homework.status = "PUBLISHED" /\ versions # <<>>
    /\ IF op = "score" THEN Latest # "SCORED" ELSE Latest # "RETURNED"
    /\ grading' = [grading EXCEPT ![g] = [op |-> op, version |-> Len(versions)]]
    /\ grades' = grades + 1
    /\ UNCHANGED <<now, homework, editVars, publishVars, submitVars, redos, overtaken>>

SaveGrade(g) ==
    /\ grading[g] # NoGrade
    /\ versions' = [versions EXCEPT ![grading[g].version] =
                        IF grading[g].op = "score" THEN "SCORED" ELSE "RETURNED"]
    /\ redos' = IF grading[g].op = "return" THEN redos + 1 ELSE redos
    /\ overtaken' = IF g \in Scoring /\ checked # {} THEN overtaken \cup {grading[g].version} ELSE overtaken
    /\ grading' = [grading EXCEPT ![g] = NoGrade]
    /\ UNCHANGED <<now, homework, editVars, publishVars, handing, checked, grades>>

-----------------------------------------------------------------------------
HomeworkNext ==
    \/ TickHomework \/ FindDue \/ ClaimDue \/ MayPublishScores \/ PublishScores
    \/ \E e \in Editor :
          (\E op \in {"update", "publish", "schedule", "cancel"} : LoadHomework(e, op)) \/ SaveHomework(e)
    \/ \E t \in Tab : OpenHandIn(t) \/ HandIn(t) \/ SaveHandIn(t) \/ DropHandIn(t)
    \/ \E g \in Grader : (\E op \in {"score", "return"} : LoadHandIn(g, op)) \/ SaveGrade(g)

HomeworkSpec == HomeworkInit /\ [][HomeworkNext]_homeworkVars

-----------------------------------------------------------------------------
(* However many tabs hand in while teachers score and return older versions,
   a student gets one hand-in, the resubmissions, and one for each return. *)
HandInsBounded == Len(versions) <= Allowance + redos

(* "A student may hand in again [...] until the teacher scores it": a scored hand-in
   is followed by another only if the two requests overlapped - the new one came
   after the teacher had loaded the old one, or the score after the check under
   the lock. *)
ScoredIsLast ==
    \A i \in DOMAIN versions : versions[i] = "SCORED" /\ i < Len(versions) => i \in overtaken

(* What was decided for the homework - withdrawn, published, scores out - is
   undone by nothing but an edit that works on a row it loaded before. *)
NothingUndone ==
    [][\/ homework.status = "CANCELLED" /\ homework'.status # "CANCELLED"
       \/ homework.status = "PUBLISHED" /\ homework'.status \in {"DRAFT", "SCHEDULED"}
       \/ homework.scoresOut /\ ~homework'.scoresOut
       => \E e \in Editor : held[e] # NoEdit /\ held'[e] = NoEdit /\ held[e].row # homework]_homeworkVars

(* A scheduled homework is published, or somebody takes it off the schedule. *)
NoneScheduled == homework.status # "SCHEDULED"
=============================================================================
