------------------------ MODULE MCNotificationDispatcher ------------------------
(* Instances of NotificationDispatcher for TLC. *)
EXTENDS NotificationDispatcher, TLC

SmsSymmetry == Permutations(Worker) \cup Permutations(OrgSms)
=============================================================================
