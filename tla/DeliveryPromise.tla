-------------------------- MODULE DeliveryPromise --------------------------
(***************************************************************************)
(* What the outbox promises about messages, with no workers, retries or    *)
(* locks: a message waits until it is settled, once; an organisation's SMS *)
(* is paid for before it goes out, is stopped only if it was not, and gets *)
(* its credits back only by failing.                                       *)
(***************************************************************************)
CONSTANTS Message, OrgSms

VARIABLES phase, credit

vars == <<phase, credit>>

Init ==
    /\ phase = [m \in Message |-> "NONE"]
    /\ credit = [m \in Message |-> "none"]

Settle(m, from, to) ==
    /\ phase[m] = from
    /\ phase' = [phase EXCEPT ![m] = to]

Queue(m) == Settle(m, "NONE", "waiting") /\ UNCHANGED credit

Pay(m) ==
    /\ m \in OrgSms /\ phase[m] = "waiting" /\ credit[m] = "none"
    /\ credit' = [credit EXCEPT ![m] = "taken"]
    /\ UNCHANGED phase

Deliver(m) ==
    /\ Settle(m, "waiting", "SENT")
    /\ m \in OrgSms => credit[m] = "taken"
    /\ UNCHANGED credit

Stop(m) ==
    /\ Settle(m, "waiting", "NO_CREDIT")
    /\ m \in OrgSms /\ credit[m] = "none"
    /\ UNCHANGED credit

Fail(m) ==
    /\ Settle(m, "waiting", "FAILED")
    /\ credit' = [credit EXCEPT ![m] = IF @ = "taken" THEN "returned" ELSE @]

(* Messages that may have gone out are given up; they keep what they took. *)
GiveUp ==
    /\ \E lost \in SUBSET {m \in Message : phase[m] = "waiting"} :
          phase' = [m \in Message |-> IF m \in lost THEN "FAILED" ELSE phase[m]]
    /\ UNCHANGED credit

Next == GiveUp \/ \E m \in Message : Queue(m) \/ Pay(m) \/ Deliver(m) \/ Stop(m) \/ Fail(m)

Spec == Init /\ [][Next]_vars
=============================================================================
