------------------------------ MODULE MCBilling ------------------------------
(* Instances of Billing for TLC. *)
EXTENDS Billing, TLC

BillingSymmetry == Permutations(Handler) \cup Permutations(Payment)
=============================================================================
