----------------------------- MODULE SmsCredits -----------------------------
(***************************************************************************)
(* The SMS credits of one organisation                                     *)
(* (backend/src/notifications/sms-credits.service.ts): a monthly allowance *)
(* and top-ups that carry over.  Every operation runs in a transaction     *)
(* under the organisation's advisory lock.  Here are the operations that   *)
(* are whole transactions, and the rules of the two that run inside the    *)
(* dispatcher's transactions, charge and refund (NotificationDispatcher).  *)
(***************************************************************************)
EXTENDS Integers, FiniteSets

CONSTANTS
    Message,        \* outbox rows
    Payment,        \* payments for a pack of SMS
    Pack,           \* credits of a pack
    Allowance,      \* sms_credits_per_month of the plan
    None,           \* nobody holds the lock
    MaxMonth        \* bound of the model

ASSUME CreditAssumption ==
    /\ Pack \in Nat /\ Allowance \in Nat /\ MaxMonth \in Nat

VARIABLES
    month,          \* the calendar month
    ledger,         \* month of the newest grant, and the balance of each bucket
    charged,        \* the SEND rows of each message: what it took from each bucket
    refunded,       \* messages with REFUND rows
    paid,           \* payments with a TOPUP row
    creditLock      \* who holds pg_advisory_xact_lock('sms-credits:...')

creditVars == <<month, ledger, charged, refunded, paid, creditLock>>

Buckets == [allowance : Nat, topUp : Nat]
Nothing == [allowance |-> 0, topUp |-> 0]
Ledger == [period : Nat, allowance : Nat, topUp : Nat]

CreditInit ==
    /\ month = 1
    /\ ledger = [period |-> 0, allowance |-> 0, topUp |-> 0]
    /\ charged = [m \in Message |-> Nothing]
    /\ refunded = {}
    /\ paid = {}
    /\ creditLock = None

-----------------------------------------------------------------------------
(* A definition named Bug... is a plausible mistake in the one after it. *)

BugGrantedCarriesOver(l, period) ==
    IF l.period = period THEN l
    ELSE [period |-> period, allowance |-> l.allowance + Allowance, topUp |-> 0]

(* ensurePeriod: the first touch in a month expires what is left of the last
   month's allowance and grants this month's. *)
Granted(l, period) ==
    IF l.period = period THEN l
    ELSE [period |-> period, allowance |-> Allowance, topUp |-> l.topUp]

Enough(l, credits) == l.allowance + l.topUp >= credits

(* The allowance first, then top-ups. *)
Share(l, credits) ==
    LET fromAllowance == IF l.allowance <= credits THEN l.allowance ELSE credits
    IN  [allowance |-> fromAllowance, topUp |-> credits - fromAllowance]

Less(l, share) ==
    [period |-> l.period, allowance |-> l.allowance - share.allowance,
     topUp |-> l.topUp - share.topUp]

IsCharged(m) == charged[m] # Nothing

BugChargeEveryAttempt(m) == TRUE

(* A row that was charged by an earlier attempt is not charged again. *)
MustCharge(m) == ~IsCharged(m)

(* refund: gives each bucket back what the message took, once; it does not look
   at the month. *)
Refund(m) ==
    /\ creditLock = None
    /\ ledger' = IF m \in refunded \/ ~IsCharged(m) THEN ledger
                 ELSE [ledger EXCEPT !.allowance = @ + charged[m].allowance,
                                     !.topUp = @ + charged[m].topUp]
    /\ refunded' = IF IsCharged(m) THEN refunded \cup {m} ELSE refunded
    /\ UNCHANGED <<month, charged, paid, creditLock>>

-----------------------------------------------------------------------------
(* addTopUp, in the settlement of a payment that may be reported many times. *)
TopUp(p) ==
    /\ creditLock = None
    /\ LET l == Granted(ledger, month) IN
       ledger' = IF p \in paid THEN l ELSE [l EXCEPT !.topUp = @ + Pack]
    /\ paid' = paid \cup {p}
    /\ UNCHANGED <<month, charged, refunded, creditLock>>

(* summary, and grantMonthlyAllowances for this organisation. *)
GrantMonth ==
    /\ creditLock = None
    /\ ledger' = Granted(ledger, month)
    /\ UNCHANGED <<month, charged, refunded, paid, creditLock>>

NextMonth ==
    /\ month < MaxMonth
    /\ month' = month + 1
    /\ UNCHANGED <<ledger, charged, refunded, paid, creditLock>>
=============================================================================
