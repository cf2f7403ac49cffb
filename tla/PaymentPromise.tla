--------------------------- MODULE PaymentPromise ---------------------------
(***************************************************************************)
(* What gateway payments promise, with no callbacks, transactions, locks   *)
(* or connections: what is bought is fixed when the payment is stored; a   *)
(* payment may fail at any time, and even then it can still be granted,    *)
(* once, when all of the price has arrived; what a pack of SMS is worth is *)
(* credited in the very step that makes its payment PAID.                  *)
(***************************************************************************)
EXTENDS Naturals

CONSTANTS Payment, Item, Pack

VARIABLES status, item, received, credits

vars == <<status, item, received, credits>>

Init ==
    /\ status = [p \in Payment |-> "NONE"]
    /\ item = [p \in Payment |-> Pack]
    /\ received = [p \in Payment |-> "none"]
    /\ credits = [p \in Payment |-> 0]

Become(p, from, to) ==
    /\ status[p] \in from
    /\ status' = [status EXCEPT ![p] = to]

Choose(p) == \E i \in Item : item' = [item EXCEPT ![p] = i]

Open(p) ==
    /\ Become(p, {"NONE"}, "PENDING") /\ Choose(p)
    /\ received' = [received EXCEPT ![p] = "open"]
    /\ UNCHANGED credits

Refuse(p) == Become(p, {"NONE"}, "FAILED") /\ Choose(p) /\ UNCHANGED <<received, credits>>

Receive(p) ==
    /\ received[p] = "open"
    /\ \E sum \in {"short", "full"} : received' = [received EXCEPT ![p] = sum]
    /\ UNCHANGED <<status, item, credits>>

Fail(p) == Become(p, {"PENDING"}, "FAILED") /\ UNCHANGED <<item, received, credits>>

Grant(p) ==
    /\ Become(p, {"PENDING", "FAILED"}, "PAID")
    /\ received[p] = "full"
    /\ credits' = [credits EXCEPT ![p] = IF item[p] = Pack THEN @ + 1 ELSE @]
    /\ UNCHANGED <<item, received>>

Next == \E p \in Payment : Open(p) \/ Refuse(p) \/ Receive(p) \/ Fail(p) \/ Grant(p)

Spec == Init /\ [][Next]_vars
=============================================================================
