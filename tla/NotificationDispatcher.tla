----------------------- MODULE NotificationDispatcher -----------------------
(***************************************************************************)
(* The notification outbox and the workers that send it                    *)
(* (backend/src/notifications/notification-dispatcher.service.ts): claim a *)
(* row in a transaction that also charges the organisation's SMS credits,  *)
(* call the provider with no transaction open, record the outcome; a sweep *)
(* fails the rows a dead worker left SENDING.                              *)
(*                                                                         *)
(* Time is relative: wait[m] is the time until send_after, age[m] the time *)
(* since updated_at of a row that is SENDING.                              *)
(***************************************************************************)
EXTENDS SmsCredits, FiniteSetsExt

CONSTANTS
    Worker,         \* dispatches that may run at the same time
    OrgSms,         \* messages that are SMS of an organisation
    InApp,          \* messages for the inbox of a user
    Sensitive,      \* messages whose variables are codes
    Costs,          \* SMS segments a message may take
    MaxAttempts, RetryDelay, StaleAfter,    \* DISPATCH_... constants
    LossyProvider,  \* may the answer to an accepted message get lost?
    PromptWorkers,  \* does a living worker hear from the provider before StaleAfter?
    MaxFailures     \* bound of the model

ASSUME DispatchAssumption ==
    /\ IsFiniteSet(Message)
    /\ OrgSms \subseteq Message /\ InApp \subseteq Message \ OrgSms
    /\ Sensitive \subseteq Message \ (OrgSms \cup InApp)
    /\ Costs \subseteq Nat \ {0}
    /\ MaxAttempts \in Nat \ {0}
    /\ {RetryDelay, StaleAfter, MaxFailures} \subseteq Nat
    /\ LossyProvider \in BOOLEAN /\ PromptWorkers \in BOOLEAN
    /\ None \notin Worker \cup Message

Final == {"SENT", "FAILED", "NO_CREDIT"}
Status == {"NONE", "PENDING", "SENDING"} \cup Final     \* NONE: no row yet

(* An outbox row: used is credits_used, secret tells whether the payload still
   holds its variables. *)
Row == [status : Status, attempts : Nat, used : Nat, secret : BOOLEAN]
NoRow == [status |-> "NONE", attempts |-> 0, used |-> 0, secret |-> FALSE]

Local == [pc : {"idle", "lockCredits", "charge", "send", "finish"},
          msg : Message \cup {None}, row : Row, cost : Nat, balance : Ledger, ok : BOOLEAN]
Idle == [pc |-> "idle", msg |-> None, row |-> NoRow, cost |-> 0,
         balance |-> [period |-> 0, allowance |-> 0, topUp |-> 0], ok |-> FALSE]

VARIABLES
    rows,           \* notification_outbox
    wait, age,
    worker,         \* what each running dispatch has loaded and where it is
    accepted,       \* history: how often a message got through (provider or inbox)
    failures        \* counted to bound the model

outboxVars == <<rows, wait, age, worker, accepted, failures>>
vars == <<creditVars, outboxVars>>

TypeOK ==
    /\ month \in Nat /\ ledger \in Ledger
    /\ charged \in [Message -> Buckets] /\ refunded \subseteq Message
    /\ paid \subseteq Payment /\ creditLock \in Worker \cup {None}
    /\ rows \in [Message -> Row]
    /\ wait \in [Message -> Nat] /\ age \in [Message -> Nat]
    /\ worker \in [Worker -> Local]
    /\ accepted \in [Message -> Nat] /\ failures \in Nat

Init ==
    /\ CreditInit
    /\ rows = [m \in Message |-> NoRow]
    /\ wait = [m \in Message |-> 0]
    /\ age = [m \in Message |-> 0]
    /\ worker = [w \in Worker |-> Idle]
    /\ accepted = [m \in Message |-> 0]
    /\ failures = 0

-----------------------------------------------------------------------------
(* A row is saved as the worker has it. *)
SaveRow(m, row) ==
    /\ rows' = [rows EXCEPT ![m] = row]
    /\ age' = [age EXCEPT ![m] = 0]

(* forgetSecrets *)
Forgotten(m, row) == IF m \in Sensitive THEN [row EXCEPT !.secret = FALSE] ELSE row

Claiming == {w \in Worker : worker[w].pc \in {"lockCredits", "charge"}}
Locked == {worker[w].msg : w \in Claiming}      \* rows locked FOR UPDATE

BugDueWhenStale(m) ==
    /\ rows[m].status = "PENDING" \/ (rows[m].status = "SENDING" /\ age[m] > StaleAfter)
    /\ wait[m] = 0 /\ m \notin Locked

BugDueOnFirstJobOnly(m) ==
    rows[m].status = "PENDING" /\ wait[m] = 0 /\ m \notin Locked /\ rows[m].attempts = 0

(* SKIP LOCKED: a row another claim has locked is left alone. *)
Due(m) == rows[m].status = "PENDING" /\ wait[m] = 0 /\ m \notin Locked

-----------------------------------------------------------------------------
(* NotificationsService.enqueue, possibly with a delay. *)
Enqueue(m) ==
    /\ rows[m].status = "NONE"
    /\ rows' = [rows EXCEPT ![m] = [NoRow EXCEPT !.status = "PENDING", !.secret = m \in Sensitive]]
    /\ \E delay \in {0, RetryDelay} : wait' = [wait EXCEPT ![m] = delay]
    /\ UNCHANGED <<creditVars, age, worker, accepted, failures>>

(* claim fails the row: no user or no address (one that was found once is kept
   in the row, so only on the first attempt). *)
ClaimUnreachable(w, m) ==
    /\ worker[w] = Idle /\ Due(m) /\ rows[m].attempts = 0
    /\ SaveRow(m, Forgotten(m, [rows[m] EXCEPT !.status = "FAILED"]))
    /\ UNCHANGED <<creditVars, wait, worker, accepted, failures>>

(* In-app: the inbox row, unique per outbox row, is written by the claim. *)
ClaimInApp(w, m) ==
    /\ worker[w] = Idle /\ Due(m) /\ m \in InApp
    /\ SaveRow(m, [rows[m] EXCEPT !.status = "SENT", !.attempts = @ + 1])
    /\ accepted' = [accepted EXCEPT ![m] = 1]
    /\ UNCHANGED <<creditVars, wait, worker, failures>>

Sending(m, used) ==
    [rows[m] EXCEPT !.status = "SENDING", !.attempts = @ + 1, !.used = used]

(* An e-mail, or an SMS of the platform. *)
ClaimFree(w, m) ==
    /\ worker[w] = Idle /\ Due(m) /\ m \notin InApp \cup OrgSms
    /\ SaveRow(m, Sending(m, 0))
    /\ worker' = [worker EXCEPT ![w] = [Idle EXCEPT !.pc = "send", !.msg = m,
                                                    !.row = Sending(m, 0)]]
    /\ UNCHANGED <<creditVars, wait, accepted, failures>>

(* An SMS of the organisation: the text decides its cost at every attempt. *)
ClaimSms(w, m, credits) ==
    /\ worker[w] = Idle /\ Due(m) /\ m \in OrgSms
    /\ worker' = [worker EXCEPT ![w] = [Idle EXCEPT !.pc = "lockCredits", !.msg = m,
                                                    !.cost = credits]]
    /\ UNCHANGED <<creditVars, rows, wait, age, accepted, failures>>

BugReadUnlocked(w) ==
    /\ worker[w].pc = "lockCredits"
    /\ worker' = [worker EXCEPT ![w].pc = "charge", ![w].balance = Granted(ledger, month)]
    /\ UNCHANGED <<creditVars, rows, wait, age, accepted, failures>>

LockCredits(w) ==
    /\ worker[w].pc = "lockCredits"
    /\ creditLock = None
    /\ creditLock' = w
    /\ worker' = [worker EXCEPT ![w].pc = "charge", ![w].balance = Granted(ledger, month)]
    /\ UNCHANGED <<month, ledger, charged, refunded, paid, rows, wait, age, accepted, failures>>

(* The rest of charge and of claim, and the commit. *)
Charge(w) ==
    /\ worker[w].pc = "charge"
    /\ LET m == worker[w].msg
           credits == worker[w].cost
           seen == worker[w].balance
           paying == MustCharge(m) /\ Enough(seen, credits)
           share == IF paying THEN Share(seen, credits) ELSE Nothing
           row == IF paying \/ ~MustCharge(m)
                  THEN Sending(m, credits)
                  ELSE Forgotten(m, [rows[m] EXCEPT !.status = "NO_CREDIT", !.used = 0])
       IN  /\ ledger' = Less(Granted(ledger, seen.period), share)
           /\ charged' = IF paying THEN [charged EXCEPT ![m] = share] ELSE charged
           /\ SaveRow(m, row)
           /\ worker' = [worker EXCEPT ![w] = IF row.status = "SENDING"
                              THEN [Idle EXCEPT !.pc = "send", !.msg = m, !.row = row] ELSE Idle]
    /\ creditLock' = IF creditLock = w THEN None ELSE creditLock
    /\ UNCHANGED <<month, refunded, paid, wait, accepted, failures>>

-----------------------------------------------------------------------------
(* The provider refuses the message, or takes it; then its answer may get lost,
   which the worker cannot tell from a refusal. *)
Send(w) ==
    /\ worker[w].pc = "send"
    /\ \E taken, ok \in BOOLEAN :
          /\ ok => taken
          /\ taken /\ ~ok => LossyProvider
          /\ accepted' = IF taken THEN [accepted EXCEPT ![worker[w].msg] = @ + 1] ELSE accepted
          /\ worker' = [worker EXCEPT ![w].pc = "finish", ![w].ok = ok]
    /\ UNCHANGED <<creditVars, rows, wait, age, failures>>

FinishSent(w) ==
    /\ worker[w].pc = "finish" /\ worker[w].ok
    /\ SaveRow(worker[w].msg, Forgotten(worker[w].msg, [worker[w].row EXCEPT !.status = "SENT"]))
    /\ worker' = [worker EXCEPT ![w] = Idle]
    /\ UNCHANGED <<creditVars, wait, accepted, failures>>

BugRetriesOnceMore(row) == row.attempts <= MaxAttempts
Retries(row) == row.attempts < MaxAttempts

BugRefundEveryFailure(w) ==
    /\ worker[w].pc = "finish" /\ ~worker[w].ok /\ Retries(worker[w].row)
    /\ IF worker[w].row.used > 0 THEN Refund(worker[w].msg) ELSE UNCHANGED creditVars
    /\ SaveRow(worker[w].msg, [worker[w].row EXCEPT !.status = "PENDING"])
    /\ wait' = [wait EXCEPT ![worker[w].msg] = RetryDelay]
    /\ worker' = [worker EXCEPT ![w] = Idle]
    /\ UNCHANGED <<accepted, failures>>

FinishRetry(w) ==
    /\ worker[w].pc = "finish" /\ ~worker[w].ok /\ Retries(worker[w].row)
    /\ SaveRow(worker[w].msg, [worker[w].row EXCEPT !.status = "PENDING"])
    /\ wait' = [wait EXCEPT ![worker[w].msg] = RetryDelay]
    /\ worker' = [worker EXCEPT ![w] = Idle]
    /\ UNCHANGED <<creditVars, accepted, failures>>

FinishFailed(w) ==
    /\ worker[w].pc = "finish" /\ ~worker[w].ok /\ ~Retries(worker[w].row)
    /\ IF worker[w].row.used > 0 THEN Refund(worker[w].msg) ELSE UNCHANGED creditVars
    /\ SaveRow(worker[w].msg,
               Forgotten(worker[w].msg, [worker[w].row EXCEPT !.status = "FAILED", !.used = 0]))
    /\ worker' = [worker EXCEPT ![w] = Idle]
    /\ UNCHANGED <<wait, accepted, failures>>

-----------------------------------------------------------------------------
(* The worker dies, or an await outside the try throws: an open transaction
   rolls back, a row that is SENDING stays so. *)
Fail(w) ==
    /\ worker[w] # Idle
    /\ failures < MaxFailures
    /\ failures' = failures + 1
    /\ worker' = [worker EXCEPT ![w] = Idle]
    /\ creditLock' = IF creditLock = w THEN None ELSE creditLock
    /\ UNCHANGED <<month, ledger, charged, refunded, paid, rows, wait, age, accepted>>

BugStaleTooSoon == {m \in Message : rows[m].status = "SENDING" /\ age[m] >= StaleAfter}
Stale == {m \in Message : rows[m].status = "SENDING" /\ age[m] > StaleAfter}

(* The first half of sweep, one UPDATE; the second dispatches the rows that are due. *)
SweepStale ==
    /\ Stale # {}
    /\ rows' = [m \in Message |-> IF m \in Stale THEN [rows[m] EXCEPT !.status = "FAILED"] ELSE rows[m]]
    /\ age' = [m \in Message |-> IF m \in Stale THEN 0 ELSE age[m]]
    /\ UNCHANGED <<creditVars, wait, worker, accepted, failures>>

Calling == {w \in Worker : worker[w].pc \in {"send", "finish"}}

Tick ==
    /\ PromptWorkers => \A w \in Calling : age[worker[w].msg] < StaleAfter
    /\ wait' = [m \in Message |-> IF wait[m] > 0 THEN wait[m] - 1 ELSE 0]
    /\ age' = [m \in Message |-> IF rows[m].status = "SENDING" /\ age[m] <= StaleAfter
                                 THEN age[m] + 1 ELSE age[m]]
    /\ UNCHANGED <<creditVars, rows, worker, accepted, failures>>

-----------------------------------------------------------------------------
Claim(m) ==
    \E w \in Worker :
        \/ ClaimUnreachable(w, m) \/ ClaimInApp(w, m) \/ ClaimFree(w, m)
        \/ \E credits \in Costs : ClaimSms(w, m, credits)

WorkerStep(w) ==
    LockCredits(w) \/ Charge(w) \/ Send(w) \/ FinishSent(w) \/ FinishRetry(w) \/ FinishFailed(w)

Credits ==
    /\ (\E p \in Payment : TopUp(p)) \/ GrantMonth \/ NextMonth
    /\ UNCHANGED outboxVars

Next ==
    \/ \E m \in Message : Enqueue(m) \/ Claim(m)
    \/ \E w \in Worker : WorkerStep(w) \/ Fail(w)
    \/ SweepStale \/ Tick \/ Credits

Spec == Init /\ [][Next]_vars

(* A dispatch that runs goes on (its awaits return or throw, the provider's call
   times out), the sweep comes every 30 seconds and dispatches what is due, and
   time goes on. *)
Fairness ==
    /\ WF_vars(Tick) /\ WF_vars(SweepStale)
    /\ \A m \in Message : WF_vars(Claim(m))
    /\ \A w \in Worker : WF_vars(WorkerStep(w))

FairSpec == Spec /\ Fairness

-----------------------------------------------------------------------------
(* Properties. *)

(* Two workers never spend the same credit: no bucket is overdrawn, however
   claims, top-ups and grants interleave. *)
NoOverdraft == ledger.allowance >= 0 /\ ledger.topUp >= 0

(* Bought credits are never lost and never invented: what is left is what was
   bought, each payment once, less what messages took and did not get back. *)
TopUpsKept ==
    ledger.topUp = Pack * Cardinality(paid)
                   - SumFunctionOnSet([m \in Message |-> charged[m].topUp], Message \ refunded)

(* The ledger and the message log agree: a message that went out, or waits for a
   retry, is paid for; one stopped for lack of credit was never charged; only
   one that failed for good got its credits back. *)
ChargeMatchesRow ==
    \A m \in OrgSms :
        /\ rows[m].status \in {"SENDING", "SENT"} => IsCharged(m) /\ m \notin refunded
        /\ rows[m].status = "PENDING" => (IsCharged(m) <=> rows[m].attempts > 0) /\ m \notin refunded
        /\ rows[m].status \in {"NONE", "NO_CREDIT"} => ~IsCharged(m)
        /\ m \in refunded => rows[m].status = "FAILED" /\ IsCharged(m)

(* A message is charged at most once, whatever the text costs on a retry. *)
ChargedOnce == [][\A m \in Message : IsCharged(m) => charged'[m] = charged[m]]_vars

(* No two workers have the same message in the provider's hands, not even when
   one was so slow that the sweep gave its row up. *)
OneSender ==
    \A v, w \in Calling : v # w => worker[v].msg # worker[w].msg

(* The provider is called at most MaxAttempts times for a message. *)
AttemptsBounded ==
    \A m \in Message : accepted[m] <= rows[m].attempts /\ rows[m].attempts <= MaxAttempts

(* A message gets through at most once, provided that no answer of the provider
   is lost: the retry after a lost answer sends it again. *)
NeverSentTwice == \A m \in Message : accepted[m] <= 1

(* A code is gone from its row when the row is settled. *)
SecretsForgotten == \A m \in Message : rows[m].status \in Final => ~rows[m].secret

(* The allowance left is never more than this month's grant. *)
AllowanceExpires == ledger.allowance <= Allowance

(* Every message is settled in the end. *)
AllSettled == \A m \in Message : rows[m].status = "PENDING" ~> rows[m].status \in Final

(* What the dispatcher promises (module DeliveryPromise). *)
Promise == INSTANCE DeliveryPromise WITH
    phase <- [m \in Message |-> IF rows[m].status \in {"PENDING", "SENDING"}
                                THEN "waiting" ELSE rows[m].status],
    credit <- [m \in Message |-> IF ~IsCharged(m) THEN "none"
                                 ELSE IF m \in refunded THEN "returned" ELSE "taken"]
KeepsPromise == Promise!Spec

-----------------------------------------------------------------------------
(* The inductive invariant of the proofs (NotificationProofs). *)

(* What a worker in the middle of a dispatch relies on: the row it is claiming
   is still waiting, the credits it read are still those of the ledger, and the
   row it sends is still its own, unless the sweep gave it up. *)
Holds(w) ==
    LET l == worker[w] IN
    /\ l.pc = "idle" <=> l.msg = None
    /\ l.pc \in {"lockCredits", "charge"} =>
          l.msg \in OrgSms /\ l.cost > 0 /\ rows[l.msg].status = "PENDING"
    /\ l.pc = "charge" => creditLock = w /\ l.balance = Granted(ledger, l.balance.period)
    /\ l.pc \in {"send", "finish"} =>
          /\ rows[l.msg].status \in {"SENDING", "FAILED"}
          /\ l.row.status = "SENDING" /\ l.row.attempts = rows[l.msg].attempts /\ l.row.attempts > 0
          /\ (l.row.used > 0) <=> (l.msg \in OrgSms)
          /\ l.msg \in OrgSms => IsCharged(l.msg) /\ l.msg \notin refunded
          /\ accepted[l.msg] + (IF l.pc = "send" THEN 1 ELSE 0) <= l.row.attempts
Holding == \A w \in Worker : Holds(w)

(* A message is in the hands of one worker. *)
Alone ==
    \A v, w \in Worker : v # w /\ worker[v].msg # None => worker[v].msg # worker[w].msg

(* Only a row with attempts left waits, and only an organisation's SMS is charged. *)
Waiting ==
    \A m \in Message :
        /\ rows[m].status \in {"NONE", "PENDING"} => rows[m].attempts < MaxAttempts
        /\ rows[m].status = "NONE" => rows[m].attempts = 0
        /\ m \notin OrgSms => ~IsCharged(m) /\ m \notin refunded

IndInv == TypeOK /\ Holding /\ Alone /\ Waiting /\ ChargeMatchesRow /\ AttemptsBounded

(* With a provider whose answers arrive, a message that may still be sent has
   not been. *)
SentInv ==
    /\ \A w \in Worker : worker[w].ok => worker[w].pc = "finish"
    /\ \A m \in Message :
        /\ accepted[m] <= 1
        /\ rows[m].status \in {"NONE", "PENDING"} => accepted[m] = 0
        /\ \A w \in Worker : worker[w].msg = m /\ ~worker[w].ok => accepted[m] = 0

(* With prompt workers, the sweep never takes the row of one that lives. *)
PromptInv ==
    \A w \in Calling : rows[worker[w].msg].status = "SENDING" /\ age[worker[w].msg] <= StaleAfter
=============================================================================
