---------------------------- MODULE FilePromise ----------------------------
(***************************************************************************)
(* What uploads promise to those who look at a file, with no requests,     *)
(* queue or workers: a file is reserved, uploaded and then READY, in this  *)
(* order; before that it may fail; FAILED is final, and READY is unless    *)
(* the bytes were replaced by others; and a file that was removed stays    *)
(* removed, whatever is still under way for it.                            *)
(***************************************************************************)
CONSTANT File

VARIABLES phase, removed, replaced

vars == <<phase, removed, replaced>>

Init ==
    /\ phase = [f \in File |-> "none"]
    /\ removed = [f \in File |-> FALSE]
    /\ replaced = [f \in File |-> FALSE]

Become(f, from, to) ==
    /\ phase[f] \in from
    /\ phase' = [phase EXCEPT ![f] = to]
    /\ UNCHANGED <<removed, replaced>>

Reserve(f) == Become(f, {"none"}, "reserved")
Upload(f) == Become(f, {"reserved"}, "uploaded")
Publish(f) == Become(f, {"uploaded"}, "READY")
Fail(f) == Become(f, {"reserved", "uploaded"}, "FAILED")
Revoke(f) == replaced[f] /\ Become(f, {"READY"}, "FAILED")

Remove(f) ==
    /\ phase[f] # "none" /\ ~removed[f]
    /\ removed' = [removed EXCEPT ![f] = TRUE]
    /\ UNCHANGED <<phase, replaced>>

Replace(f) ==
    /\ phase[f] # "none"
    /\ replaced' = [replaced EXCEPT ![f] = TRUE]
    /\ UNCHANGED <<phase, removed>>

Next == \E f \in File :
    Reserve(f) \/ Upload(f) \/ Publish(f) \/ Fail(f) \/ Revoke(f) \/ Remove(f) \/ Replace(f)

Spec == Init /\ [][Next]_vars
=============================================================================
