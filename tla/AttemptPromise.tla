--------------------------- MODULE AttemptPromise ---------------------------
(***************************************************************************)
(* What the exam-taking component promises about attempts, with no         *)
(* handlers, rows or locks: an attempt is started once, while there is a   *)
(* place; sheets are accepted while it is in progress; it is finalised     *)
(* once, and its score is that of the last accepted sheet.                 *)
(***************************************************************************)
EXTENDS Integers, FiniteSets

CONSTANTS Student, Answers, None, Cap, Objective

VARIABLES phase, sheet, score

vars == <<phase, sheet, score>>

Finalized == {"SUBMITTED", "AUTO_SUBMITTED", "DISQUALIFIED"}

Init ==
    /\ phase = [s \in Student |-> "NONE"]
    /\ sheet = [s \in Student |-> None]
    /\ score = [s \in Student |-> None]

Start(s) ==
    /\ phase[s] = "NONE"
    /\ Cap > 0 => Cardinality({t \in Student : phase[t] # "NONE"}) < Cap
    /\ phase' = [phase EXCEPT ![s] = "IN_PROGRESS"]
    /\ UNCHANGED <<sheet, score>>

Accept(s) ==
    /\ phase[s] = "IN_PROGRESS"
    /\ \E value \in Answers : sheet' = [sheet EXCEPT ![s] = value]
    /\ UNCHANGED <<phase, score>>

Finalise(s) ==
    /\ phase[s] = "IN_PROGRESS"
    /\ \E status \in Finalized : phase' = [phase EXCEPT ![s] = status]
    /\ score' = [score EXCEPT ![s] = IF Objective THEN sheet[s] ELSE None]
    /\ UNCHANGED sheet

Next == \E s \in Student : Start(s) \/ Accept(s) \/ Finalise(s)

Spec == Init /\ [][Next]_vars
=============================================================================
