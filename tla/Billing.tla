------------------------------- MODULE Billing -------------------------------
(***************************************************************************)
(* The plan of one organisation: gateway payments                          *)
(* (backend/src/modules/payment/payment.service.ts), the subscriptions     *)
(* they activate (backend/src/subscriptions/subscription.service.ts) and   *)
(* the cached entitlements that follow from them (entitlements.service.ts).*)
(* A settlement is one transaction under the payment's row lock, but the   *)
(* subscription is changed outside it, row by row, like in every other     *)
(* request that changes the plan.                                          *)
(***************************************************************************)
EXTENDS Naturals, FiniteSets, FiniteSetsExt

CONSTANTS
    Handler,        \* requests that may change the plan at the same time
    Reader,         \* requests that may look up entitlements at the same time
    Payment,        \* gateway payments
    PoolMax,        \* connections of the database pool
    MaxSubs,        \* bound: subscription rows
    MaxRequests,    \* bound: requests that change the plan
    MaxFailures,    \* bound: calls that fail, handlers that die
    None

Sub == 1 .. MaxSubs             \* in the order of created_at

ASSUME BillingAssumption ==
    /\ {PoolMax, MaxSubs, MaxRequests, MaxFailures} \subseteq Nat
    /\ None \notin Sub \cup Payment

VARIABLES
    subs,           \* account_subscriptions
    manual,         \* payment_history: the reference given at subscribe, for an admin to confirm;
                    \* OWED before its row is inserted
    booked,         \* payment_history: rows written for each gateway payment
    pays,           \* payments
    gateway,        \* the gateway's side of each payment
    credited,       \* TOPUP rows of the SMS ledger for each payment
    copy, loaded, tainted,      \* ent:{organization} (module CacheAside)
    proc,           \* what each handler has loaded and where it is
    overlapped,     \* history: did two requests that change the plan work at the same time?
    requests, failures          \* counted to bound the model

Ent == INSTANCE CacheAside WITH NoCopy <- None

subVars == <<subs, manual, booked>>
payVars == <<pays, gateway, credited>>
entVars == <<copy, loaded, tainted>>
histVars == <<overlapped, requests, failures>>
vars == <<subVars, payVars, entVars, proc, histVars>>

(* A subscription row: price tells whether price_due > 0, lapsed whether
   end_date is over, paid whether amount_paid was written by an activation. *)
SubRow == [status : {"NONE", "PENDING", "ACTIVE", "CANCELLED", "EXPIRED"},
           price : BOOLEAN, lapsed : BOOLEAN, paid : BOOLEAN]
NoSub == [status |-> "NONE", price |-> FALSE, lapsed |-> FALSE, paid |-> FALSE]

(* A payment row: sub is None for a pack of SMS; FAILED stands for CANCELLED, too,
   which is treated alike. *)
PayRow == [status : {"NONE", "PENDING", "PAID", "FAILED"}, sub : Sub \cup {None}]
NoPay == [status |-> "NONE", sub |-> None]

Ops == {"subscribe", "subscribeFree", "assignPlan", "cancel", "settle", "terminal", "confirm"}
Local == [op : Ops \cup {"idle"},
          pc : {"idle", "insert", "history", "save", "lock", "validate", "find", "cancelPrev", "write", "book", "commit"},
          sub : Sub \cup {None}, pay : Payment \cup {None}, prev : Sub \cup {None}]
Idle == [op |-> "idle", pc |-> "idle", sub |-> None, pay |-> None, prev |-> None]

(* A handler has what its step will use. *)
Equipped(h) ==
    /\ proc[h].op \in {"settle", "terminal"} <=> proc[h].pay # None
    /\ proc[h].op \in {"settle", "confirm"} /\ proc[h].pc \in {"save", "find", "cancelPrev", "write"} =>
          proc[h].sub # None /\ subs[proc[h].sub].status # "NONE"
    /\ proc[h].op = "subscribe" /\ proc[h].pc = "history" => proc[h].sub # None
    /\ proc[h].pc = "cancelPrev" => proc[h].prev # None /\ subs[proc[h].prev].status # "NONE"

TypeOK ==
    /\ subs \in [Sub -> SubRow]
    /\ manual \in [Sub -> {"NONE", "OWED", "PENDING", "COMPLETED"}]
    /\ booked \in [Payment -> Nat]
    /\ pays \in [Payment -> PayRow]
    /\ gateway \in [Payment -> {"none", "open", "short", "full"}]
    /\ credited \in [Payment -> Nat]
    /\ Ent!CacheTypeOK(0 .. MaxSubs)
    /\ proc \in [Handler -> Local] /\ \A h \in Handler : Equipped(h)
    /\ overlapped \in BOOLEAN /\ requests \in Nat /\ failures \in Nat

Init ==
    /\ subs = [s \in Sub |-> NoSub]
    /\ manual = [s \in Sub |-> "NONE"]
    /\ booked = [p \in Payment |-> 0]
    /\ pays = [p \in Payment |-> NoPay]
    /\ gateway = [p \in Payment |-> "none"]
    /\ credited = [p \in Payment |-> 0]
    /\ Ent!CacheInit
    /\ proc = [h \in Handler |-> Idle]
    /\ overlapped = FALSE /\ requests = 0 /\ failures = 0

-----------------------------------------------------------------------------
Active == {s \in Sub : subs[s].status = "ACTIVE"}

(* What entitlements are computed from: the newest ACTIVE row, 0 for the Free plan. *)
Newest(S) == IF S = {} THEN 0 ELSE Max(S)
Plan == Newest(Active)

(* A handler that changed what entitlements depend on drops the copy; a DEL
   that fails is only logged. *)
Invalidate ==
    \/ Ent!Drop /\ UNCHANGED failures
    \/ Ent!Miss /\ failures < MaxFailures /\ failures' = failures + 1

Goto(h, pc) == proc' = [proc EXCEPT ![h].pc = pc]
Done(h) == proc' = [proc EXCEPT ![h] = Idle]

(* A request arrives. *)
Begin(h, local) ==
    /\ proc[h] = Idle /\ requests < MaxRequests
    /\ requests' = requests + 1
    /\ proc' = [proc EXCEPT ![h] = local]
    /\ UNCHANGED failures

(* It starts to work on the plan, beside those that do. *)
Working == {h \in Handler : proc[h].op \notin {"idle", "terminal"} /\ proc[h].pc # "lock"}
Beside == overlapped' = (overlapped \/ Working # {})

Unused == {s \in Sub : subs[s].status = "NONE"}
Inserting == {h \in Handler : proc[h].op \in {"subscribe", "subscribeFree", "assignPlan"} /\ proc[h].pc # "history"}
Room == Cardinality(Inserting) < Cardinality(Unused)
Insert(row) == subs' = [subs EXCEPT ![Min(Unused)] = row]

(* Callbacks keep a connection of the pool from the start of their transaction, while
   they wait for the payment's row, to its commit; every other query needs one for itself. *)
Holding == {h \in Handler : proc[h].op \in {"settle", "terminal"}}
Connection == Cardinality(Holding) < PoolMax

-----------------------------------------------------------------------------
(* Changing the plan. *)

(* subscribe to a paid plan: older PENDING rows are cancelled, ... *)
Subscribe(h) ==
    /\ Room /\ Beside
    /\ Begin(h, [Idle EXCEPT !.op = "subscribe", !.pc = "insert"])
    /\ subs' = [s \in Sub |-> IF subs[s].status = "PENDING"
                              THEN [subs[s] EXCEPT !.status = "CANCELLED"] ELSE subs[s]]
    /\ UNCHANGED <<manual, booked, payVars, entVars>>

(* ... the new one is inserted ... *)
InsertPending(h) ==
    /\ proc[h].pc = "insert" /\ Connection
    /\ Insert([NoSub EXCEPT !.status = "PENDING", !.price = TRUE])
    /\ manual' = [manual EXCEPT ![Min(Unused)] = "OWED"]
    /\ proc' = [proc EXCEPT ![h].pc = "history", ![h].sub = Min(Unused)]
    /\ UNCHANGED <<booked, payVars, entVars, histVars>>

(* ... and a payment that an admin may confirm. *)
RecordReference(h) ==
    /\ proc[h].op = "subscribe" /\ proc[h].pc = "history" /\ Connection
    /\ manual' = [manual EXCEPT ![proc[h].sub] = "PENDING"]
    /\ Done(h)
    /\ UNCHANGED <<subs, booked, payVars, entVars, histVars>>

(* subscribe to a free plan, assignPlan, cancelSubscription. *)
Replace(h, op) ==
    /\ op = "cancel" \/ (op \in {"subscribeFree", "assignPlan"} /\ Room)
    /\ Beside
    /\ Begin(h, [Idle EXCEPT !.op = op, !.pc = "find"])
    /\ UNCHANGED <<subVars, payVars, entVars>>

(* confirmPayment: an admin confirms a reference that was not COMPLETED when read. *)
Confirm(h, s) ==
    /\ manual[s] = "PENDING" /\ Beside
    /\ Begin(h, [Idle EXCEPT !.op = "confirm", !.pc = "save", !.sub = s])
    /\ UNCHANGED <<subVars, payVars, entVars>>

SaveConfirmed(h) ==
    /\ proc[h].pc = "save" /\ Connection
    /\ manual' = [manual EXCEPT ![proc[h].sub] = "COMPLETED"]
    /\ Goto(h, "find")
    /\ UNCHANGED <<subs, booked, payVars, entVars, histVars>>

(* findActiveSubscription: the newest ACTIVE row, or none if that one has lapsed,
   which is marked EXPIRED on the way.  A swap cancels any row but its own. *)
Find(h) ==
    /\ proc[h].pc = "find" /\ Connection
    /\ LET found == Plan
           lapsed == found # 0 /\ subs[found].lapsed
           cancels == found # 0 /\ ~lapsed /\ found # proc[h].sub
       IN  /\ IF lapsed
              THEN /\ subs' = [subs EXCEPT ![found].status = "EXPIRED"]
                   /\ Invalidate
              ELSE UNCHANGED <<subs, entVars, failures>>
           /\ proc' = [proc EXCEPT ![h].pc = IF cancels THEN "cancelPrev" ELSE "write",
                                   ![h].prev = IF cancels THEN found ELSE None]
    /\ UNCHANGED <<manual, booked, payVars, overlapped, requests>>

BugCancelPrevForgotten(h) ==
    /\ proc[h].pc = "cancelPrev" /\ Connection
    /\ Goto(h, "write")
    /\ UNCHANGED <<subVars, payVars, entVars, histVars>>

(* The active row that was found is saved CANCELLED, whatever it is by now. *)
CancelPrev(h) ==
    /\ proc[h].pc = "cancelPrev" /\ Connection
    /\ subs' = [subs EXCEPT ![proc[h].prev].status = "CANCELLED"]
    /\ Goto(h, "write")
    /\ UNCHANGED <<manual, booked, payVars, entVars, histVars>>

(* The new plan becomes ACTIVE; nothing does for a cancellation. *)
NewPlan(h) ==
    CASE proc[h].op \in {"subscribeFree", "assignPlan"} ->
            Insert([NoSub EXCEPT !.status = "ACTIVE", !.price = (proc[h].op = "assignPlan"),
                                 !.paid = (proc[h].op = "assignPlan")])
      [] proc[h].op \in {"settle", "confirm"} ->
            subs' = [subs EXCEPT ![proc[h].sub].status = "ACTIVE", ![proc[h].sub].paid = TRUE]
      [] OTHER -> UNCHANGED subs

AfterWrite(h) ==
    IF proc[h].op \in {"settle", "assignPlan"}
    THEN Goto(h, IF proc[h].op = "settle" THEN "book" ELSE "history")
    ELSE Done(h)

BugWriteKeepsCopy(h) ==
    /\ proc[h].pc = "write" /\ Connection
    /\ NewPlan(h) /\ AfterWrite(h)
    /\ UNCHANGED <<manual, booked, payVars, entVars, histVars>>

(* Whatever was written, the copy is dropped; but assignPlan inserts a payment before. *)
Write(h) ==
    /\ proc[h].pc = "write" /\ Connection
    /\ NewPlan(h) /\ AfterWrite(h)
    /\ IF proc[h].op = "assignPlan" THEN UNCHANGED <<entVars, failures>> ELSE Invalidate
    /\ UNCHANGED <<manual, booked, payVars, overlapped, requests>>

(* That payment is COMPLETED from the start, and nothing is made of it. *)
RecordAssigned(h) ==
    /\ proc[h].op = "assignPlan" /\ proc[h].pc = "history" /\ Connection
    /\ Invalidate
    /\ Done(h)
    /\ UNCHANGED <<subVars, payVars, overlapped, requests>>

-----------------------------------------------------------------------------
(* Gateway payments. *)

(* initiatePayment, initiateSmsTopUp: the payment is stored before the gateway is
   asked for a session, and FAILED when that does not work. *)
Initiate(p) ==
    /\ pays[p].status = "NONE"
    /\ \E s \in {t \in Sub : subs[t].status = "PENDING"} \cup {None} :
       \/ /\ pays' = [pays EXCEPT ![p] = [status |-> "PENDING", sub |-> s]]
          /\ gateway' = [gateway EXCEPT ![p] = "open"]
       \/ /\ pays' = [pays EXCEPT ![p] = [status |-> "FAILED", sub |-> s]]
          /\ UNCHANGED gateway
    /\ UNCHANGED <<subVars, credited, entVars, proc, histVars>>

(* Payments whose row is locked FOR UPDATE by a settlement. *)
Locked == {proc[h].pay : h \in {g \in Handler : proc[g].op = "settle" /\ proc[g].pc # "lock"}}

(* settlePayment, for the IPN, the success callback or the customer's verify, and
   markTerminal, for a fail or cancel callback, whenever and as often as they come:
   a transaction is begun, and the payment's row is to be locked. *)
Settle(h, p) ==
    /\ pays[p].status # "NONE" /\ Connection
    /\ Begin(h, [Idle EXCEPT !.op = "settle", !.pc = "lock", !.pay = p])
    /\ UNCHANGED <<subVars, payVars, entVars, overlapped>>

Terminate(h, p) ==
    /\ pays[p].status # "NONE" /\ Connection
    /\ Begin(h, [Idle EXCEPT !.op = "terminal", !.pc = "lock", !.pay = p])
    /\ UNCHANGED <<subVars, payVars, entVars, overlapped>>

BugLockRow(h) ==        \* settles a payment again that is PAID
    /\ proc[h].op = "settle" /\ proc[h].pc = "lock" /\ proc[h].pay \notin Locked
    /\ Goto(h, "validate") /\ Beside
    /\ UNCHANGED <<subVars, payVars, entVars, requests, failures>>

(* There is nothing to do for a payment that is PAID by now. *)
LockRow(h) ==
    /\ proc[h].op = "settle" /\ proc[h].pc = "lock" /\ proc[h].pay \notin Locked
    /\ IF pays[proc[h].pay].status = "PAID"
       THEN Done(h) /\ UNCHANGED overlapped
       ELSE Goto(h, "validate") /\ Beside
    /\ UNCHANGED <<subVars, payVars, entVars, requests, failures>>

BugMarkTerminal(h) ==       \* overrides a payment that is PAID
    /\ proc[h].op = "terminal" /\ proc[h].pay \notin Locked
    /\ pays' = [pays EXCEPT ![proc[h].pay].status = "FAILED"]
    /\ Done(h)
    /\ UNCHANGED <<subVars, gateway, credited, entVars, histVars>>

MarkTerminal(h) ==
    /\ proc[h].op = "terminal" /\ proc[h].pay \notin Locked
    /\ pays' = [pays EXCEPT ![proc[h].pay].status = IF @ = "PENDING" THEN "FAILED" ELSE @]
    /\ Done(h)
    /\ UNCHANGED <<subVars, gateway, credited, entVars, histVars>>

(* What the customer has paid so far; what arrives may be less than asked. *)
Paid(p) == IF gateway[p] = "open" THEN {"open", "short", "full"} ELSE {gateway[p]}

BugAfterValidation(p) == "find"

(* addSmsCreditsIfNeeded and activateSubscriptionIfNeeded: a pack has nothing to activate. *)
AfterValidation(p) == IF pays[p].sub = None THEN "commit" ELSE "find"

BugValidateAnyAmount(h) ==
    /\ proc[h].pc = "validate"
    /\ LET p == proc[h].pay IN
       \E sum \in Paid(p) :
          /\ gateway' = [gateway EXCEPT ![p] = sum]
          /\ IF sum \in {"short", "full"}
             THEN proc' = [proc EXCEPT ![h].sub = pays[p].sub, ![h].pc = AfterValidation(p)]
             ELSE Done(h)
    /\ UNCHANGED <<subVars, pays, credited, entVars, histVars>>

(* The gateway is asked; unless all of the price was paid the transaction is
   rolled back. *)
Validate(h) ==
    /\ proc[h].pc = "validate"
    /\ LET p == proc[h].pay IN
       \E sum \in Paid(p) :
          /\ gateway' = [gateway EXCEPT ![p] = sum]
          /\ IF sum = "full"
             THEN proc' = [proc EXCEPT ![h].sub = pays[p].sub, ![h].pc = AfterValidation(p)]
             ELSE Done(h)
    /\ UNCHANGED <<subVars, pays, credited, entVars, histVars>>

(* The activation's payment_history row. *)
Book(h) ==
    /\ proc[h].pc = "book" /\ Connection
    /\ booked' = [booked EXCEPT ![proc[h].pay] = @ + 1]
    /\ Goto(h, "commit")
    /\ UNCHANGED <<subs, manual, payVars, entVars, histVars>>

BugCommitCreditsFirst(h) ==
    /\ proc[h].pc = "commit"
    /\ LET p == proc[h].pay IN
       IF pays[p].sub = None /\ credited[p] = 0
       THEN /\ credited' = [credited EXCEPT ![p] = 1]
            /\ UNCHANGED <<pays, proc>>
       ELSE /\ pays' = [pays EXCEPT ![p].status = "PAID"]
            /\ Done(h)
            /\ UNCHANGED credited
    /\ UNCHANGED <<subVars, gateway, entVars, histVars>>

(* PAID becomes visible together with the credits of an SMS pack, which are added
   once per payment. *)
Commit(h) ==
    /\ proc[h].pc = "commit"
    /\ LET p == proc[h].pay IN
       /\ pays' = [pays EXCEPT ![p].status = "PAID"]
       /\ credited' = [credited EXCEPT ![p] = IF pays[p].sub = None /\ @ = 0 THEN 1 ELSE @]
    /\ Done(h)
    /\ UNCHANGED <<subVars, gateway, entVars, histVars>>

(* A plan change that stops after it cancelled the old plan, or assigned the new one,
   never drops the copy. *)
HasToDrop(h) ==
    \/ proc[h].pc = "write" /\ proc[h].prev # None
    \/ proc[h].pc = "history" /\ proc[h].op = "assignPlan"
Abandon(h) == IF HasToDrop(h) THEN Ent!Miss ELSE UNCHANGED entVars

(* activateSubscriptionIfNeeded: whatever the activation throws is only logged. *)
GiveUp(h) ==
    /\ IF proc[h].op = "settle" THEN Goto(h, "commit") ELSE Done(h)
    /\ Abandon(h)

Querying == {"insert", "history", "save", "find", "cancelPrev", "write", "book"}

BugWaitsForConnection(h) == FALSE /\ proc[h] # Idle /\ UNCHANGED vars

(* connectionTimeoutMillis: the pool stayed empty for ten seconds, the query throws. *)
ConnectTimeout(h) ==
    /\ proc[h].pc \in Querying /\ ~Connection
    /\ GiveUp(h)
    /\ UNCHANGED <<subVars, payVars, histVars>>

(* A query throws. *)
QueryFails(h) ==
    /\ proc[h].pc \in Querying
    /\ failures < MaxFailures /\ failures' = failures + 1
    /\ GiveUp(h)
    /\ UNCHANGED <<subVars, payVars, overlapped, requests>>

(* The process dies, or a commit fails; a settlement's transaction is rolled back. *)
Die(h) ==
    /\ proc[h] # Idle
    /\ failures < MaxFailures /\ failures' = failures + 1
    /\ Done(h) /\ Abandon(h)
    /\ UNCHANGED <<subVars, payVars, overlapped, requests>>

-----------------------------------------------------------------------------
(* Entitlements. *)

(* getEntitlements after a miss: a lapsed subscription is marked EXPIRED first. *)
LoadEntitlements(r) ==
    /\ Connection
    /\ LET lapsed == Plan # 0 /\ subs[Plan].lapsed IN
       /\ subs' = IF lapsed THEN [subs EXCEPT ![Plan].status = "EXPIRED"] ELSE subs
       /\ loaded[r] = None
       /\ loaded' = [loaded EXCEPT ![r] = IF lapsed THEN 0 ELSE Plan]
       /\ copy' = IF lapsed THEN None ELSE copy
       /\ tainted' = IF lapsed THEN FALSE ELSE tainted
    /\ UNCHANGED <<manual, booked, payVars, proc, histVars>>

CacheEntitlements(r) ==
    /\ Ent!Fill(r, Plan) \/ Ent!SkipFill(r)
    /\ UNCHANGED <<subVars, payVars, proc, histVars>>

(* CACHE_SECONDS have passed. *)
ExpireEntitlements ==
    /\ Ent!Expire
    /\ UNCHANGED <<subVars, payVars, proc, histVars>>

(* The end date of an active subscription passes. *)
Lapse(s) ==
    /\ subs[s].status = "ACTIVE" /\ subs[s].price /\ ~subs[s].lapsed
    /\ subs' = [subs EXCEPT ![s].lapsed = TRUE]
    /\ UNCHANGED <<manual, booked, payVars, entVars, proc, histVars>>

-----------------------------------------------------------------------------
Arrive(h) ==
    \/ Subscribe(h)
    \/ \E op \in Ops : Replace(h, op)
    \/ \E s \in Sub : Confirm(h, s)
    \/ \E p \in Payment : Settle(h, p) \/ Terminate(h, p)

Step(h) ==
    \/ InsertPending(h) \/ RecordReference(h) \/ SaveConfirmed(h)
    \/ Find(h) \/ CancelPrev(h) \/ Write(h) \/ RecordAssigned(h)
    \/ LockRow(h) \/ MarkTerminal(h) \/ Validate(h) \/ Book(h) \/ Commit(h)
    \/ ConnectTimeout(h)

Next ==
    \/ \E h \in Handler : Arrive(h) \/ Step(h) \/ QueryFails(h) \/ Die(h)
    \/ \E p \in Payment : Initiate(p)
    \/ \E r \in Reader : LoadEntitlements(r) \/ CacheEntitlements(r)
    \/ ExpireEntitlements
    \/ \E s \in Sub : Lapse(s)

Spec == Init /\ [][Next]_vars

(* A request that was let in goes on: its queries return, throw or time out, and the
   database serves the callbacks that wait for a row. *)
FairSpec == Spec /\ \A h \in Handler : WF_vars(Step(h))

-----------------------------------------------------------------------------
(* Properties. *)

(* Callbacks may come late, twice and out of order: a PAID payment stays PAID. *)
PaidStays ==
    [][\A p \in Payment : pays[p].status = "PAID" => pays'[p].status = "PAID"]_vars

(* A pack's credits are added exactly when its payment becomes PAID, and once,
   whatever is repeated, rolled back or interrupted. *)
CreditsOnce ==
    \A p \in Payment :
        credited[p] = IF pays[p].status = "PAID" /\ pays[p].sub = None THEN 1 ELSE 0

(* Nobody gets a plan with a price unless all of it was paid for that very
   subscription, an admin confirmed it, or an admin assigned the plan. *)
OnlyPaidIsActive ==
    \A s \in Sub : subs[s].status = "ACTIVE" /\ subs[s].price =>
        \/ manual[s] = "COMPLETED"
        \/ manual[s] = "NONE"
        \/ \E p \in Payment : pays[p].sub = s /\ gateway[p] = "full"

(* The history shows a payment once, however often it is reported, unless a
   settlement was rolled back after its activation. *)
BookedOnce == \A p \in Payment : booked[p] <= 1 + failures

(* Two active subscriptions only ever come from requests that overlap: no order
   of requests, and no failure half way, leaves two. *)
OneActive == ~overlapped => Cardinality(Active) <= 1

(* The copy is out of date only for a known reason: it was filled by a reader that
   had loaded before a change, a DEL failed, a change stopped half way, or one is
   under way.  So no operation forgets to drop it. *)
StaleExplained ==
    Ent!Outdated(Plan) =>
        tainted \/ \E h \in Handler : HasToDrop(h)

(* Every request ends, though callbacks that wait for a payment's row hold the
   connections that the settlement which has locked it needs to go on. *)
NobodyStarves == \A h \in Handler : proc[h] # Idle ~> proc[h] = Idle

(* What a payment promises (module PaymentPromise): whatever callbacks, settlements,
   failures and timeouts come between, a payment is granted once, only for all of its
   price, for what was bought, and its credits come with it. *)
Promise == INSTANCE PaymentPromise WITH
    Item <- Sub \cup {None}, Pack <- None,
    status <- [p \in Payment |-> pays[p].status],
    item <- [p \in Payment |-> pays[p].sub],
    received <- gateway,
    credits <- credited

KeepsPromise == Promise!Spec

(* A payment that is PAID has activated its subscription. *)
PaidIsActivated ==
    \A p \in Payment : pays[p].status = "PAID" /\ pays[p].sub # None => subs[pays[p].sub].paid
=============================================================================
