------------------------- MODULE NotificationProofs -------------------------
(***************************************************************************)
(* Proofs about NotificationDispatcher, for every number of workers,       *)
(* messages and payments, all amounts, attempts, delays and bounds.        *)
(* OneMessage says what a step on one message has to keep; the Step        *)
(* lemmas show it for every action, and the theorems follow.  Then come    *)
(* the sums (bought credits, and what may come back of an allowance) and   *)
(* the codes; each has its invariant and a lemma per group of actions.     *)
(***************************************************************************)
EXTENDS NotificationDispatcher, SetLemmas

(* The part of the invariant that is about one message. *)
MessageInv(m) ==
    /\ m \in OrgSms =>
          /\ rows[m].status \in {"SENDING", "SENT"} => IsCharged(m) /\ m \notin refunded
          /\ rows[m].status = "PENDING" => (IsCharged(m) <=> rows[m].attempts > 0) /\ m \notin refunded
          /\ rows[m].status \in {"NONE", "NO_CREDIT"} => ~IsCharged(m)
          /\ m \in refunded => rows[m].status = "FAILED" /\ IsCharged(m)
    /\ accepted[m] <= rows[m].attempts /\ rows[m].attempts <= MaxAttempts
    /\ rows[m].status \in {"NONE", "PENDING"} => rows[m].attempts < MaxAttempts
    /\ rows[m].status = "NONE" => rows[m].attempts = 0
    /\ m \notin OrgSms => ~IsCharged(m) /\ m \notin refunded

(* IndInv, sorted by workers and messages. *)
LEMMA Parts == IndInv <=> TypeOK /\ Holding /\ Alone /\ \A m \in Message : MessageInv(m)
BY DispatchAssumption DEF IndInv, MessageInv, Waiting, ChargeMatchesRow, AttemptsBounded

-----------------------------------------------------------------------------
(* Types of the records. *)

(* What a row, a worker's record and the ledger are made of. *)
LEMMA RecordTypes ==
    /\ NoRow \in Row /\ Idle \in Local
    /\ \A l \in Local : /\ l.pc \in {"idle", "lockCredits", "charge", "send", "finish"}
                        /\ l.msg \in Message \cup {None} /\ l.row \in Row
                        /\ l.cost \in Nat /\ l.balance \in Ledger /\ l.ok \in BOOLEAN
    /\ \A r \in Row : /\ r.status \in Status /\ r.attempts \in Nat /\ r.used \in Nat
                      /\ r.secret \in BOOLEAN
    /\ \A l \in Ledger : l.period \in Nat /\ l.allowance \in Nat /\ l.topUp \in Nat
    /\ Idle.pc = "idle" /\ Idle.msg = None
BY DEF NoRow, Row, Status, Final, Idle, Local, Ledger

(* Redacting a delivered or failed message touches neither its status nor its attempts. *)
LEMMA ForgottenRow ==
    ASSUME NEW m, NEW r \in Row
    PROVE  /\ Forgotten(m, r) \in Row
           /\ Forgotten(m, r).status = r.status /\ Forgotten(m, r).attempts = r.attempts
BY DEF Forgotten, Row

(* The row of a message that a worker takes up: one attempt more, with what it used. *)
LEMMA SendingRow ==
    ASSUME NEW m \in Message, rows[m] \in Row, NEW used \in Nat
    PROVE  /\ Sending(m, used) \in Row /\ Sending(m, used).status = "SENDING"
           /\ Sending(m, used).attempts = rows[m].attempts + 1 /\ Sending(m, used).used = used
<1>1. ASSUME NEW r \in Row, NEW n \in Nat
      PROVE  LET next == [r EXCEPT !.status = "SENDING", !.attempts = n, !.used = used]
             IN  /\ next \in Row /\ next.status = "SENDING"
                 /\ next.attempts = n /\ next.used = used
    BY <1>1 DEF Row, Status
<1>2. rows[m].attempts + 1 \in Nat
    BY RecordTypes
<1> QED
    BY <1>1, <1>2 DEF Sending

(* A row of the right type is saved. *)
LEMMA SaveTypes ==
    ASSUME TypeOK, NEW m \in Message, NEW r \in Row, SaveRow(m, r)
    PROVE  /\ rows' \in [Message -> Row] /\ age' \in [Message -> Nat]
           /\ rows'[m] = r
           /\ \A x \in Message \ {m} : rows'[x] = rows[x]
BY DEF SaveRow, TypeOK

(* A worker's record is replaced. *)
LEMMA WorkerTypes ==
    ASSUME TypeOK, NEW w \in Worker, NEW l \in Local, worker' = [worker EXCEPT ![w] = l]
    PROVE  /\ worker' \in [Worker -> Local] /\ worker'[w] = l
           /\ \A v \in Worker \ {w} : worker'[v] = worker[v]
BY DEF TypeOK

-----------------------------------------------------------------------------
(* The ledger. *)

(* Granting a month twice is granting it once. *)
LEMMA GrantedLedger ==
    ASSUME NEW l \in Ledger, NEW period \in Nat
    PROVE  /\ Granted(l, period) \in Ledger
           /\ Granted(l, period).period = period
           /\ Granted(Granted(l, period), period) = Granted(l, period)
BY CreditAssumption DEF Granted, Ledger

(* What a message takes is what it costs, and there. *)
LEMMA ShareOf ==
    ASSUME NEW l \in Ledger, NEW credits \in Nat, credits > 0, Enough(l, credits)
    PROVE  /\ Share(l, credits) \in Buckets /\ Share(l, credits) # Nothing
           /\ Less(l, Share(l, credits)) \in Ledger
<1> DEFINE a == IF l.allowance <= credits THEN l.allowance ELSE credits
<1>1. /\ a \in Nat /\ a <= l.allowance /\ credits - a \in Nat
      /\ credits - a <= l.topUp
      /\ Share(l, credits) = [allowance |-> a, topUp |-> credits - a]
    BY DEF Enough, Ledger, Share
<1> HIDE DEF a
<1>2. Share(l, credits) \in Buckets /\ Share(l, credits) # Nothing
    BY <1>1 DEF Buckets, Nothing
<1>3. Less(l, Share(l, credits)) \in Ledger
    BY <1>1 DEF Less, Ledger
<1> QED
    BY <1>2, <1>3

(* Taking nothing leaves the ledger as it is. *)
LEMMA LessNothing ==
    ASSUME NEW l \in Ledger
    PROVE  Less(l, Nothing) = l
BY DEF Less, Nothing, Ledger

-----------------------------------------------------------------------------
(* Steps on one message. *)

(* What a worker relies on survives a step that leaves its message alone. *)
LEMMA HoldsFrame ==
    ASSUME NEW v \in Worker, Holds(v), worker'[v] = worker[v],
           LET x == worker[v].msg
           IN  x # None =>
                  /\ rows'[x] = rows[x] \/
                        (/\ rows[x].status = "SENDING" /\ rows'[x].status = "FAILED"
                         /\ rows'[x].attempts = rows[x].attempts)
                  /\ charged'[x] = charged[x] /\ (x \in refunded' <=> x \in refunded)
                  /\ accepted'[x] = accepted[x],
           worker[v].pc = "charge" => creditLock' = creditLock /\ ledger' = ledger,
           worker[v].pc \in {"idle", "lockCredits", "charge", "send", "finish"}
    PROVE  Holds(v)'
<1>1. CASE worker[v].pc = "idle"
    BY <1>1 DEF Holds
<1>2. CASE worker[v].pc \in {"lockCredits", "charge"}
    <2>1. worker[v].msg # None /\ rows'[worker[v].msg] = rows[worker[v].msg]
        BY <1>2 DEF Holds
    <2>2. worker[v].pc = "charge" =>
              worker[v].balance = Granted(ledger', worker[v].balance.period)
        BY <1>2 DEF Holds
    <2> QED
        BY <1>2, <2>1, <2>2 DEF Holds, Granted
<1>3. CASE worker[v].pc \in {"send", "finish"}
    <2>1. worker[v].msg # None
        BY <1>3 DEF Holds
    <2> QED
        BY <1>3, <2>1 DEF Holds, IsCharged
<1> QED
    BY <1>1, <1>2, <1>3

(* A message that a step leaves alone stays all right. *)
LEMMA MessageFrame ==
    ASSUME NEW x \in Message, MessageInv(x), rows'[x] = rows[x], charged'[x] = charged[x],
           x \in refunded' <=> x \in refunded, accepted'[x] = accepted[x]
    PROVE  MessageInv(x)'
BY DEF MessageInv, IsCharged

(* A message that is due, or not queued yet, is in nobody's hands. *)
LEMMA Unheld ==
    ASSUME IndInv, NEW m \in Message, Due(m) \/ rows[m].status = "NONE", NEW v \in Worker
    PROVE  worker[v].msg # m
<1>1. Holds(v) /\ worker[v].pc \in {"idle", "lockCredits", "charge", "send", "finish"} /\ m # None
    BY RecordTypes, DispatchAssumption DEF IndInv, Holding, TypeOK
<1>2. CASE worker[v].pc = "idle"
    BY <1>1, <1>2 DEF Holds
<1>3. CASE worker[v].pc \in {"lockCredits", "charge"}
    <2>1. v \in Claiming /\ worker[v].msg \in Locked
        BY <1>3 DEF Claiming, Locked
    <2> QED
        BY <1>1, <1>3, <2>1 DEF Holds, Due
<1>4. CASE worker[v].pc \in {"send", "finish"}
    BY <1>1, <1>4 DEF Holds, Due
<1> QED
    BY <1>1, <1>2, <1>3, <1>4

(* A step of worker w (or of nobody, w \notin Worker) on message m leaves the
   others alone, and leaves w and m all right. *)
Touches(w, m) ==
    /\ TypeOK'
    /\ \A v \in Worker \ {w} :
          /\ worker'[v] = worker[v] /\ worker[v].msg # m
          /\ worker[v].pc = "charge" => creditLock' = creditLock /\ ledger' = ledger
    /\ w \in Worker => Holds(w)' /\ worker'[w].msg \in {m, None}
    /\ \A x \in Message \ {m} :
          /\ rows'[x] = rows[x] /\ charged'[x] = charged[x]
          /\ (x \in refunded' <=> x \in refunded) /\ accepted'[x] = accepted[x]
    /\ MessageInv(m)'

(* A step that touches one message keeps the invariant. *)
LEMMA OneMessage ==
    ASSUME IndInv, NEW w, NEW m \in Message, Touches(w, m)
    PROVE  IndInv'
<1> USE DEF Touches
<1>1. ASSUME NEW v \in Worker PROVE Holds(v)'
    <2>1. CASE v = w
        BY <2>1
    <2>2. CASE v # w
        <3>1. Holds(v) /\ worker[v].msg \in Message \cup {None}
              /\ worker[v].pc \in {"idle", "lockCredits", "charge", "send", "finish"}
            BY RecordTypes DEF IndInv, Holding, TypeOK
        <3> QED
            BY <2>2, <3>1, HoldsFrame
    <2> QED
        BY <2>1, <2>2
<1>2. Alone'
    <2> SUFFICES ASSUME NEW u \in Worker, NEW v \in Worker, u # v, worker'[u].msg # None
                 PROVE  worker'[u].msg # worker'[v].msg
        BY DEF Alone
    <2>1. \A y \in Worker \ {w} : worker'[y].msg = worker[y].msg /\ worker[y].msg # m
        OBVIOUS
    <2>2. w \in Worker => worker'[w].msg \in {m, None}
        OBVIOUS
    <2> QED
        BY <2>1, <2>2 DEF IndInv, Alone
<1>3. ASSUME NEW x \in Message PROVE MessageInv(x)'
    BY MessageFrame, Parts
<1>4. Holding'
    BY <1>1 DEF Holding
<1>5. OrgSms \subseteq Message
    BY DispatchAssumption
<1> QED
    BY <1>2, <1>3, <1>4, <1>5 DEF IndInv, MessageInv, Waiting, ChargeMatchesRow, AttemptsBounded

-----------------------------------------------------------------------------
(* Claims. *)

(* A new row is in nobody's hands and has taken no credits. *)
LEMMA EnqueueStep ==
    ASSUME IndInv, NEW m \in Message, Enqueue(m)
    PROVE  IndInv'
<1> DEFINE r == [NoRow EXCEPT !.status = "PENDING", !.secret = m \in Sensitive]
<1>t. TypeOK
    BY DEF IndInv
<1>1. r \in Row /\ r.status = "PENDING" /\ r.attempts = 0
    <2>1. ASSUME NEW secret \in BOOLEAN
          PROVE  LET next == [NoRow EXCEPT !.status = "PENDING", !.secret = secret]
                 IN  next \in Row /\ next.status = "PENDING" /\ next.attempts = 0
        BY DEF NoRow, Row, Status
    <2>2. (m \in Sensitive) \in BOOLEAN
        OBVIOUS
    <2> QED
        BY <2>1, <2>2
<1> HIDE DEF r
<1>2. /\ rows' \in [Message -> Row] /\ rows'[m] = r /\ \A x \in Message \ {m} : rows'[x] = rows[x]
      /\ UNCHANGED <<creditVars, age, worker, accepted, failures>>
    BY <1>t, <1>1 DEF Enqueue, TypeOK, r
<1>3. wait' \in [Message -> Nat]
    BY <1>t, DispatchAssumption DEF Enqueue, TypeOK
<1>4. TypeOK'
    BY <1>t, <1>2, <1>3 DEF TypeOK, creditVars
<1>5. MessageInv(m)'
    <2>1. MessageInv(m) /\ rows[m].status = "NONE" /\ MaxAttempts \in Nat /\ MaxAttempts > 0
        BY Parts, DispatchAssumption DEF Enqueue
    <2> QED
        BY <1>1, <1>2, <2>1 DEF MessageInv, IsCharged, creditVars
<1>6. \A v \in Worker : worker[v].msg # m
    BY Unheld DEF Enqueue
<1>7. None \notin Worker
    BY DispatchAssumption
<1>8. Touches(None, m)
    BY <1>2, <1>4, <1>5, <1>6, <1>7 DEF creditVars, Touches
<1> QED
    BY <1>8, OneMessage

(* A message nobody can be reached by fails in the claim itself. *)
LEMMA ClaimUnreachableStep ==
    ASSUME IndInv, NEW w \in Worker, NEW m \in Message, ClaimUnreachable(w, m)
    PROVE  IndInv'
<1> DEFINE r == Forgotten(m, [rows[m] EXCEPT !.status = "FAILED"])
<1>t. TypeOK /\ rows[m] \in Row
    BY DEF IndInv, TypeOK
<1>1. r \in Row /\ r.status = "FAILED" /\ r.attempts = rows[m].attempts
    <2>1. LET next == [rows[m] EXCEPT !.status = "FAILED"]
          IN  next \in Row /\ next.status = "FAILED" /\ next.attempts = rows[m].attempts
        BY <1>t DEF Row, Status, Final
    <2> QED
        BY <2>1, ForgottenRow
<1>2. /\ rows' \in [Message -> Row] /\ age' \in [Message -> Nat]
      /\ rows'[m] = r /\ \A x \in Message \ {m} : rows'[x] = rows[x]
    BY <1>t, <1>1, SaveTypes DEF ClaimUnreachable
<1>3. UNCHANGED <<creditVars, wait, worker, accepted, failures>>
    BY DEF ClaimUnreachable
<1>4. TypeOK'
    BY <1>t, <1>2, <1>3 DEF TypeOK, creditVars
<1>5. MessageInv(m)'
    <2>1. MessageInv(m) /\ rows[m].status = "PENDING" /\ rows[m].attempts = 0
        BY Parts DEF ClaimUnreachable, Due
    <2> QED
        BY <1>1, <1>2, <1>3, <2>1 DEF MessageInv, IsCharged, creditVars
<1>6. \A v \in Worker : worker[v].msg # m
    BY Unheld DEF ClaimUnreachable
<1>7. None \notin Worker
    BY DispatchAssumption
<1>8. Touches(None, m)
    BY <1>2, <1>3, <1>4, <1>5, <1>6, <1>7 DEF creditVars, Touches
<1> QED
    BY <1>8, OneMessage

(* An in-app message is delivered in the claim itself. *)
LEMMA ClaimInAppStep ==
    ASSUME IndInv, NEW w \in Worker, NEW m \in Message, ClaimInApp(w, m)
    PROVE  IndInv'
<1> DEFINE r == [rows[m] EXCEPT !.status = "SENT", !.attempts = @ + 1]
<1>t. TypeOK /\ rows[m] \in Row /\ rows[m].attempts \in Nat
    BY RecordTypes DEF IndInv, TypeOK
<1>1. r \in Row /\ r.status = "SENT" /\ r.attempts = rows[m].attempts + 1
    <2>1. ASSUME NEW q \in Row, NEW n \in Nat
          PROVE  LET next == [q EXCEPT !.status = "SENT", !.attempts = n]
                 IN  next \in Row /\ next.status = "SENT" /\ next.attempts = n
        BY DEF Row, Status, Final
    <2>2. rows[m].attempts + 1 \in Nat
        BY <1>t
    <2> QED
        BY <1>t, <2>1, <2>2
<1>2. /\ rows' \in [Message -> Row] /\ age' \in [Message -> Nat]
      /\ rows'[m] = r /\ \A x \in Message \ {m} : rows'[x] = rows[x]
    BY <1>t, <1>1, SaveTypes DEF ClaimInApp
<1>3. UNCHANGED <<creditVars, wait, worker, failures>>
    BY DEF ClaimInApp
<1>a. /\ accepted' \in [Message -> Nat] /\ accepted'[m] = 1
      /\ \A x \in Message \ {m} : accepted'[x] = accepted[x]
    BY <1>t DEF ClaimInApp, TypeOK
<1>4. TypeOK'
    BY <1>t, <1>2, <1>3, <1>a DEF TypeOK, creditVars
<1>5. MessageInv(m)'
    <2>1. MessageInv(m) /\ rows[m].status = "PENDING" /\ m \notin OrgSms
        BY Parts, DispatchAssumption DEF ClaimInApp, Due
    <2> QED
        BY <1>t, <1>1, <1>2, <1>3, <1>a, <2>1, DispatchAssumption DEF MessageInv, IsCharged, creditVars
<1>6. \A v \in Worker : worker[v].msg # m
    BY Unheld DEF ClaimInApp
<1>7. None \notin Worker
    BY DispatchAssumption
<1>8. Touches(None, m)
    BY <1>2, <1>3, <1>4, <1>5, <1>6, <1>7, <1>a DEF creditVars, Touches
<1> QED
    BY <1>8, OneMessage

(* A message that costs nothing goes from the claim to the provider. *)
LEMMA ClaimFreeStep ==
    ASSUME IndInv, NEW w \in Worker, NEW m \in Message, ClaimFree(w, m)
    PROVE  IndInv'
<1> DEFINE r == Sending(m, 0)
           l == [Idle EXCEPT !.pc = "send", !.msg = m, !.row = r]
<1>t. TypeOK /\ rows[m] \in Row /\ rows[m].attempts \in Nat /\ MessageInv(m) /\ accepted[m] \in Nat
    BY RecordTypes, Parts DEF TypeOK
<1>1. /\ r \in Row /\ r.status = "SENDING" /\ r.attempts = rows[m].attempts + 1 /\ r.used = 0
    BY <1>t, SendingRow
<1> HIDE DEF r
<1>2. /\ rows' \in [Message -> Row] /\ age' \in [Message -> Nat]
      /\ rows'[m] = r /\ \A x \in Message \ {m} : rows'[x] = rows[x]
    BY <1>t, <1>1, SaveTypes DEF ClaimFree, r
<1>3. UNCHANGED <<creditVars, wait, accepted, failures>> /\ m \notin OrgSms
    BY DEF ClaimFree
<1>l. l \in Local
    BY <1>1, RecordTypes DEF Local
<1> HIDE DEF l
<1>w. /\ worker' \in [Worker -> Local] /\ worker'[w] = l
      /\ \A v \in Worker \ {w} : worker'[v] = worker[v]
    BY <1>t, <1>l DEF ClaimFree, TypeOK, l, r
<1>4. TypeOK'
    BY <1>t, <1>2, <1>3, <1>w DEF TypeOK, creditVars
<1>5. MessageInv(m)'
    <2>1. rows[m].status = "PENDING"
        BY DEF ClaimFree, Due
    <2> QED
        BY <1>t, <1>1, <1>2, <1>3, <2>1, DispatchAssumption DEF MessageInv, IsCharged, creditVars
<1>6. \A v \in Worker : worker[v].msg # m
    BY Unheld DEF ClaimFree
<1>7. Holds(w)' /\ worker'[w].msg = m
    <2>1. accepted'[m] + 1 <= r.attempts /\ r.attempts > 0 /\ m # None
        BY <1>t, <1>1, <1>3, DispatchAssumption DEF MessageInv
    <2> QED
        BY <1>1, <1>2, <1>3, <1>w, <2>1, RecordTypes DEF l, Holds, Local
<1>8. Touches(w, m)
    BY <1>2, <1>3, <1>4, <1>5, <1>6, <1>7, <1>w DEF creditVars, Touches
<1> QED
    BY <1>8, OneMessage

(* A message that costs credits goes on to the ledger, with its row locked. *)
LEMMA ClaimSmsStep ==
    ASSUME IndInv, NEW w \in Worker, NEW m \in Message, NEW credits \in Costs, ClaimSms(w, m, credits)
    PROVE  IndInv'
<1> DEFINE l == [Idle EXCEPT !.pc = "lockCredits", !.msg = m, !.cost = credits]
<1>t. TypeOK /\ credits \in Nat /\ credits > 0 /\ m # None
    BY DispatchAssumption DEF IndInv
<1>l. l \in Local /\ l.pc = "lockCredits" /\ l.msg = m /\ l.cost = credits
    BY <1>t, RecordTypes DEF Local
<1> HIDE DEF l
<1>w. /\ worker' \in [Worker -> Local] /\ worker'[w] = l
      /\ \A v \in Worker \ {w} : worker'[v] = worker[v]
    BY <1>t, <1>l, WorkerTypes DEF ClaimSms, l
<1>3. UNCHANGED <<creditVars, rows, wait, age, accepted, failures>>
    BY DEF ClaimSms
<1>4. TypeOK'
    BY <1>t, <1>3, <1>w DEF TypeOK, creditVars
<1>5. MessageInv(m)'
    BY <1>3, Parts DEF MessageInv, IsCharged, creditVars
<1>6. \A v \in Worker : worker[v].msg # m
    BY Unheld DEF ClaimSms
<1>7. Holds(w)'
    BY <1>t, <1>l, <1>w, <1>3 DEF Holds, ClaimSms, Due
<1>8. Touches(w, m)
    BY <1>3, <1>4, <1>5, <1>6, <1>7, <1>w, <1>l DEF creditVars, Touches
<1> QED
    BY <1>8, OneMessage

-----------------------------------------------------------------------------
(* Steps of a worker that holds a message. *)

(* What is known of the worker, its message and the others. *)
LEMMA Held ==
    ASSUME IndInv, NEW w \in Worker, worker[w].pc # "idle"
    PROVE  /\ TypeOK /\ Holds(w) /\ worker[w] \in Local
           /\ worker[w].msg \in Message /\ worker[w].msg # None
           /\ MessageInv(worker[w].msg)
           /\ rows[worker[w].msg] \in Row /\ rows[worker[w].msg].attempts \in Nat
           /\ accepted[worker[w].msg] \in Nat
           /\ \A v \in Worker \ {w} : worker[v].msg # worker[w].msg
<1>1. TypeOK /\ Holds(w) /\ Alone
    BY DEF IndInv, Holding
<1>2. worker[w] \in Local /\ worker[w].msg # None /\ worker[w].msg \in Message
    BY <1>1, RecordTypes DEF TypeOK, Holds
<1> QED
    BY <1>1, <1>2, Parts, RecordTypes DEF TypeOK, Alone

(* The ledger is locked and the month granted; the worker has the balance it read. *)
LEMMA LockCreditsStep ==
    ASSUME IndInv, NEW w \in Worker, LockCredits(w)
    PROVE  IndInv'
<1>m. PICK m \in Message : m = worker[w].msg
    BY Held DEF LockCredits
<1> DEFINE balance == Granted(ledger, month)
           l == [worker[w] EXCEPT !.pc = "charge", !.balance = balance]
<1>h. /\ TypeOK /\ Holds(w) /\ worker[w] \in Local /\ m # None /\ MessageInv(m)
      /\ \A v \in Worker \ {w} : worker[v].msg # m
    BY <1>m, Held DEF LockCredits
<1>b. /\ balance \in Ledger /\ balance = Granted(ledger, balance.period)
    BY <1>h, GrantedLedger DEF TypeOK
<1> HIDE DEF balance
<1>l. /\ l \in Local /\ l.pc = "charge" /\ l.msg = m /\ l.cost = worker[w].cost
      /\ l.balance = balance
    BY <1>h, <1>m, <1>b DEF Local
<1> HIDE DEF l
<1>w. /\ worker' \in [Worker -> Local] /\ worker'[w] = l
      /\ \A v \in Worker \ {w} : worker'[v] = worker[v]
    <2>1. worker' = [worker EXCEPT ![w] = l]
        BY DEF LockCredits, l, balance
    <2> QED
        BY <1>h, <1>l, <2>1, WorkerTypes
<1>3. /\ UNCHANGED <<month, ledger, charged, refunded, paid, rows, wait, age, accepted, failures>>
      /\ creditLock = None /\ creditLock' = w /\ worker[w].pc = "lockCredits"
    BY DEF LockCredits
<1>4. TypeOK'
    BY <1>h, <1>3, <1>w DEF TypeOK
<1>5. MessageInv(m)'
    BY <1>3, <1>h DEF MessageInv, IsCharged
<1>6. \A v \in Worker \ {w} : worker[v].pc # "charge"
    BY <1>3, DispatchAssumption DEF IndInv, Holding, Holds
<1>7. Holds(w)'
    BY <1>h, <1>m, <1>b, <1>l, <1>w, <1>3 DEF Holds, Granted
<1>8. Touches(w, m)
    BY <1>h, <1>3, <1>4, <1>5, <1>6, <1>7, <1>w, <1>l DEF Touches
<1> QED
    BY <1>8, OneMessage

(* Under the ledger's lock a message is charged once, or stopped for want of credits. *)
LEMMA ChargeStep ==
    ASSUME IndInv, NEW w \in Worker, Charge(w)
    PROVE  IndInv'
<1>m. PICK m \in Message : m = worker[w].msg
    BY Held DEF Charge
<1> DEFINE credits == worker[w].cost
           seen == worker[w].balance
           paying == MustCharge(m) /\ Enough(seen, credits)
           share == IF paying THEN Share(seen, credits) ELSE Nothing
           row == IF paying \/ ~MustCharge(m)
                  THEN Sending(m, credits)
                  ELSE Forgotten(m, [rows[m] EXCEPT !.status = "NO_CREDIT", !.used = 0])
           l == IF row.status = "SENDING"
                THEN [Idle EXCEPT !.pc = "send", !.msg = m, !.row = row] ELSE Idle
<1>h. /\ TypeOK /\ Holds(w) /\ worker[w] \in Local /\ m # None /\ MessageInv(m)
      /\ rows[m] \in Row /\ rows[m].attempts \in Nat /\ accepted[m] \in Nat
      /\ \A v \in Worker \ {w} : worker[v].msg # m
    BY <1>m, Held DEF Charge
<1>k. /\ m \in OrgSms /\ credits \in Nat /\ credits > 0 /\ rows[m].status = "PENDING"
      /\ creditLock = w /\ seen \in Ledger /\ seen = Granted(ledger, seen.period)
    BY <1>h, <1>m, RecordTypes DEF Charge, Holds
<1>a. /\ ledger' = Less(seen, share)
      /\ charged' = IF paying THEN [charged EXCEPT ![m] = share] ELSE charged
      /\ SaveRow(m, row) /\ worker' = [worker EXCEPT ![w] = l]
      /\ creditLock' = None /\ UNCHANGED <<month, refunded, paid, wait, accepted, failures>>
    BY <1>k, <1>m DEF Charge
<1>b. ledger' \in Ledger /\ share \in Buckets /\ (paying => share # Nothing)
    BY <1>a, <1>k, ShareOf, LessNothing DEF Buckets, Nothing
<1>s. /\ Sending(m, credits) \in Row /\ Sending(m, credits).status = "SENDING"
      /\ Sending(m, credits).attempts = rows[m].attempts + 1 /\ Sending(m, credits).used = credits
    BY <1>h, <1>k, SendingRow
<1>f. LET r == Forgotten(m, [rows[m] EXCEPT !.status = "NO_CREDIT", !.used = 0])
      IN  r \in Row /\ r.status = "NO_CREDIT" /\ r.attempts = rows[m].attempts
    <2>1. LET r == [rows[m] EXCEPT !.status = "NO_CREDIT", !.used = 0]
          IN  r \in Row /\ r.status = "NO_CREDIT" /\ r.attempts = rows[m].attempts
        BY <1>h DEF Row, Status, Final
    <2> QED
        BY <2>1, ForgottenRow
<1>r. /\ row \in Row
      /\ paying \/ ~MustCharge(m) => /\ row.status = "SENDING" /\ row.used = credits
                                      /\ row.attempts = rows[m].attempts + 1
      /\ ~paying /\ MustCharge(m) => row.status = "NO_CREDIT" /\ row.attempts = rows[m].attempts
    BY <1>s, <1>f
<1> HIDE DEF row, share
<1>l. /\ l \in Local /\ l.msg \in {m, None}
      /\ paying \/ ~MustCharge(m) => l.pc = "send" /\ l.msg = m /\ l.row = row
      /\ ~paying /\ MustCharge(m) => l = Idle
    BY <1>r, <1>h, RecordTypes DEF Local
<1> HIDE DEF l
<1>w. /\ worker' \in [Worker -> Local] /\ worker'[w] = l
      /\ \A v \in Worker \ {w} : worker'[v] = worker[v]
    BY <1>a, <1>h, <1>l, WorkerTypes
<1>2. /\ rows' \in [Message -> Row] /\ age' \in [Message -> Nat]
      /\ rows'[m] = row /\ \A x \in Message \ {m} : rows'[x] = rows[x]
    BY <1>a, <1>h, <1>r, SaveTypes
<1>c. /\ charged' \in [Message -> Buckets]
      /\ \A x \in Message \ {m} : charged'[x] = charged[x]
      /\ paying \/ ~MustCharge(m) => IsCharged(m)'
      /\ ~paying /\ MustCharge(m) => ~IsCharged(m)'
    BY <1>a, <1>b, <1>h DEF TypeOK, IsCharged, MustCharge
<1>4. TypeOK'
    BY <1>h, <1>a, <1>b, <1>c, <1>2, <1>w DEF TypeOK
<1>5. MessageInv(m)'
    <2>1. CASE paying \/ ~MustCharge(m)
        BY <2>1, <1>h, <1>k, <1>a, <1>c, <1>2, <1>r, DispatchAssumption DEF MessageInv
    <2>2. CASE ~paying /\ MustCharge(m)
        BY <2>2, <1>h, <1>k, <1>a, <1>c, <1>2, <1>r, DispatchAssumption DEF MessageInv
    <2> QED
        BY <2>1, <2>2
<1>6. \A v \in Worker \ {w} : worker[v].pc # "charge"
    BY <1>k DEF IndInv, Holding, Holds
<1>7. Holds(w)'
    <2>1. CASE paying \/ ~MustCharge(m)
        <3>1. m \notin refunded /\ accepted[m] <= rows[m].attempts
            BY <1>h, <1>k DEF MessageInv
        <3> QED
            BY <2>1, <3>1, <1>h, <1>k, <1>a, <1>c, <1>2, <1>r, <1>l, <1>w DEF Holds
    <2>2. CASE ~paying /\ MustCharge(m)
        BY <2>2, <1>l, <1>w, RecordTypes DEF Holds
    <2> QED
        BY <2>1, <2>2
<1>8. Touches(w, m)
    BY <1>h, <1>a, <1>c, <1>2, <1>4, <1>5, <1>6, <1>7, <1>w, <1>l DEF Touches
<1> QED
    BY <1>8, OneMessage

(* The provider accepts a message at most once per attempt. *)
LEMMA SendStep ==
    ASSUME IndInv, NEW w \in Worker, Send(w)
    PROVE  IndInv'
<1>m. PICK m \in Message : m = worker[w].msg
    BY Held DEF Send
<1>h. /\ TypeOK /\ Holds(w) /\ worker[w] \in Local /\ m # None /\ MessageInv(m)
      /\ accepted[m] \in Nat /\ \A v \in Worker \ {w} : worker[v].msg # m
    BY <1>m, Held DEF Send
<1>n. PICK taken \in BOOLEAN, ok \in BOOLEAN :
          /\ accepted' = IF taken THEN [accepted EXCEPT ![m] = @ + 1] ELSE accepted
          /\ worker' = [worker EXCEPT ![w].pc = "finish", ![w].ok = ok]
    BY <1>m DEF Send
<1> DEFINE l == [worker[w] EXCEPT !.pc = "finish", !.ok = ok]
<1>l. /\ l \in Local /\ l.pc = "finish" /\ l.msg = m /\ l.row = worker[w].row
    BY <1>h, <1>m DEF Local
<1>w. /\ worker' \in [Worker -> Local] /\ worker'[w] = l
      /\ \A v \in Worker \ {w} : worker'[v] = worker[v]
    <2>1. worker' = [worker EXCEPT ![w] = l]
        BY <1>n
    <2> HIDE DEF l
    <2> QED
        BY <1>h, <1>l, <2>1, WorkerTypes
<1> HIDE DEF l
<1>2. /\ accepted' \in [Message -> Nat]
      /\ accepted'[m] \in {accepted[m], accepted[m] + 1}
      /\ \A x \in Message \ {m} : accepted'[x] = accepted[x]
    BY <1>h, <1>n DEF TypeOK
<1>3. UNCHANGED <<creditVars, rows, wait, age, failures>> /\ worker[w].pc = "send"
    BY DEF Send
<1>4. TypeOK'
    BY <1>h, <1>2, <1>3, <1>w DEF TypeOK, creditVars
<1>k. /\ worker[w].row.attempts = rows[m].attempts /\ accepted[m] + 1 <= rows[m].attempts
      /\ rows[m].attempts \in Nat
    BY <1>h, <1>m, <1>3, Held DEF Holds
<1>5. MessageInv(m)'
    BY <1>2, <1>3, <1>h, <1>k, DispatchAssumption DEF MessageInv, IsCharged, creditVars
<1>7. Holds(w)'
    BY <1>h, <1>m, <1>k, <1>l, <1>w, <1>2, <1>3 DEF Holds, IsCharged, creditVars
<1>8. Touches(w, m)
    BY <1>h, <1>2, <1>3, <1>4, <1>5, <1>7, <1>w, <1>l DEF Touches, creditVars
<1> QED
    BY <1>8, OneMessage

(* The worker is done with its message: it saves its copy of the row, which has
   the attempts the stored row has, and lets go. *)
LEMMA FinishStep ==
    ASSUME IndInv, NEW w \in Worker, worker[w].pc = "finish",
           NEW r \in Row, SaveRow(worker[w].msg, r), r.attempts = worker[w].row.attempts,
           worker' = [worker EXCEPT ![w] = Idle],
           wait' \in [Message -> Nat], UNCHANGED <<month, charged, paid, creditLock, accepted, failures>>,
           ledger' \in Ledger, refunded' \subseteq Message,
           \A x \in Message \ {worker[w].msg} : x \in refunded' <=> x \in refunded,
           ledger' # ledger => creditLock = None,
           \/ r.status = "SENT" /\ refunded' = refunded
           \/ r.status = "PENDING" /\ refunded' = refunded /\ r.attempts < MaxAttempts
           \/ r.status = "FAILED" /\ (worker[w].msg \notin OrgSms => worker[w].msg \notin refunded')
    PROVE  IndInv'
<1>m. PICK m \in Message : m = worker[w].msg
    BY Held
<1>h. /\ TypeOK /\ Holds(w) /\ m # None /\ MessageInv(m)
      /\ accepted[m] \in Nat /\ rows[m].attempts \in Nat
      /\ \A v \in Worker \ {w} : worker[v].msg # m
    BY <1>m, Held
<1>k. /\ r.attempts = rows[m].attempts /\ r.attempts > 0
      /\ m \in OrgSms => IsCharged(m) /\ m \notin refunded
    BY <1>h, <1>m DEF Holds
<1>2. /\ rows' \in [Message -> Row] /\ age' \in [Message -> Nat]
      /\ rows'[m] = r /\ \A x \in Message \ {m} : rows'[x] = rows[x]
    BY <1>m, <1>h, SaveTypes
<1>w. /\ worker' \in [Worker -> Local] /\ worker'[w] = Idle
      /\ \A v \in Worker \ {w} : worker'[v] = worker[v]
    BY <1>h, RecordTypes, WorkerTypes
<1>4. TypeOK'
    BY <1>h, <1>2, <1>w DEF TypeOK
<1>5. MessageInv(m)'
    BY <1>2, <1>h, <1>k, <1>m DEF MessageInv, IsCharged
<1>6. \A v \in Worker \ {w} : worker[v].pc = "charge" => creditLock' = creditLock /\ ledger' = ledger
    BY DispatchAssumption DEF IndInv, Holding, Holds
<1>7. Holds(w)'
    BY <1>w, RecordTypes DEF Holds
<1>8. Touches(w, m)
    BY <1>h, <1>m, <1>2, <1>4, <1>5, <1>6, <1>7, <1>w, RecordTypes DEF Touches
<1> QED
    BY <1>8, OneMessage

(* A delivered message keeps its charge. *)
LEMMA FinishSentStep ==
    ASSUME IndInv, NEW w \in Worker, FinishSent(w)
    PROVE  IndInv'
<1> DEFINE q == [worker[w].row EXCEPT !.status = "SENT"]
           r == Forgotten(worker[w].msg, q)
<1>1. TypeOK /\ worker[w].row \in Row
    BY Held, RecordTypes DEF FinishSent
<1>2. q \in Row /\ q.status = "SENT" /\ q.attempts = worker[w].row.attempts
    BY <1>1 DEF Row, Status, Final
<1> HIDE DEF q
<1>3. r \in Row /\ r.status = "SENT" /\ r.attempts = worker[w].row.attempts
    BY <1>2, ForgottenRow
<1>4. SaveRow(worker[w].msg, r)
    BY DEF FinishSent, q
<1> HIDE DEF r
<1> QED
    BY <1>1, <1>3, <1>4, FinishStep DEF FinishSent, creditVars, TypeOK

(* A message that is tried again keeps its charge, for the next attempt. *)
LEMMA FinishRetryStep ==
    ASSUME IndInv, NEW w \in Worker, FinishRetry(w)
    PROVE  IndInv'
<1> DEFINE r == [worker[w].row EXCEPT !.status = "PENDING"]
<1>1. TypeOK /\ worker[w].row \in Row
    BY Held, RecordTypes DEF FinishRetry
<1>2. r \in Row /\ r.status = "PENDING" /\ r.attempts = worker[w].row.attempts
    BY <1>1 DEF Row, Status
<1>3. SaveRow(worker[w].msg, r)
    BY DEF FinishRetry
<1> HIDE DEF r
<1>4. r.attempts < MaxAttempts /\ wait' \in [Message -> Nat]
    BY <1>1, <1>2, DispatchAssumption DEF FinishRetry, Retries, TypeOK
<1> QED
    BY <1>1, <1>2, <1>3, <1>4, FinishStep DEF FinishRetry, creditVars, TypeOK

(* The refund gives back what was charged, as it was charged. *)
LEMMA RefundLedger ==
    ASSUME TypeOK, NEW m \in Message, Refund(m)
    PROVE  /\ ledger' \in Ledger /\ refunded' \subseteq refunded \cup {m}
           /\ refunded \subseteq refunded' /\ creditLock = None
           /\ UNCHANGED <<month, charged, paid, creditLock>>
<1>1. ASSUME NEW l \in Ledger, NEW a \in Nat, NEW t \in Nat
      PROVE  [l EXCEPT !.allowance = a, !.topUp = t] \in Ledger
    BY <1>1 DEF Ledger
<1>2. ledger \in Ledger /\ charged[m] \in Buckets
    BY DEF TypeOK
<1>3. ledger.allowance + charged[m].allowance \in Nat /\ ledger.topUp + charged[m].topUp \in Nat
    BY <1>2 DEF Ledger, Buckets
<1>4. [ledger EXCEPT !.allowance = @ + charged[m].allowance,
                     !.topUp = @ + charged[m].topUp] \in Ledger
    BY <1>1, <1>2, <1>3
<1> QED
    BY <1>2, <1>4 DEF Refund

(* A message that has no attempt left gets its credits back, once. *)
LEMMA FinishFailedStep ==
    ASSUME IndInv, NEW w \in Worker, FinishFailed(w)
    PROVE  IndInv'
<1> DEFINE q == [worker[w].row EXCEPT !.status = "FAILED", !.used = 0]
           r == Forgotten(worker[w].msg, q)
<1>1. TypeOK /\ worker[w].row \in Row /\ worker[w].msg \in Message /\ Holds(w)
      /\ MessageInv(worker[w].msg)
    BY Held, RecordTypes DEF FinishFailed
<1>2. q \in Row /\ q.status = "FAILED" /\ q.attempts = worker[w].row.attempts
    BY <1>1 DEF Row, Status, Final
<1> HIDE DEF q
<1>3. r \in Row /\ r.status = "FAILED" /\ r.attempts = worker[w].row.attempts
    BY <1>2, ForgottenRow
<1>4. SaveRow(worker[w].msg, r)
    BY DEF FinishFailed, q
<1> HIDE DEF r
<1>5. /\ worker[w].row.used \in Nat
      /\ (worker[w].row.used > 0) <=> (worker[w].msg \in OrgSms)
      /\ worker[w].msg \notin OrgSms => worker[w].msg \notin refunded
    BY <1>1, RecordTypes DEF FinishFailed, Holds, MessageInv
<1>6. CASE worker[w].msg \in OrgSms
    <2>1. Refund(worker[w].msg)
        BY <1>5, <1>6 DEF FinishFailed
    <2>2. /\ ledger' \in Ledger /\ refunded' \subseteq Message /\ creditLock = None
          /\ \A x \in Message \ {worker[w].msg} : x \in refunded' <=> x \in refunded
          /\ UNCHANGED <<month, charged, paid, creditLock>>
        BY <1>1, <2>1, RefundLedger DEF TypeOK
    <2> QED
        BY <1>1, <1>3, <1>4, <1>6, <2>2, FinishStep DEF FinishFailed, TypeOK
<1>7. CASE worker[w].msg \notin OrgSms
    <2>1. UNCHANGED creditVars
        BY <1>5, <1>7 DEF FinishFailed
    <2> QED
        BY <1>1, <1>3, <1>4, <1>5, <1>7, <2>1, FinishStep DEF FinishFailed, creditVars, TypeOK
<1> QED
    BY <1>6, <1>7

(* A worker that dies drops its locks and what it held in an open transaction. *)
LEMMA FailStep ==
    ASSUME IndInv, NEW w \in Worker, Fail(w)
    PROVE  IndInv'
<1>1. worker[w].pc # "idle" \/ worker[w].pc = "idle"
    OBVIOUS
<1>h. TypeOK /\ Holding /\ Alone /\ \A m \in Message : MessageInv(m)
    BY Parts
<1>2. UNCHANGED <<month, ledger, charged, refunded, paid, rows, wait, age, accepted>>
    BY DEF Fail
<1>w. /\ worker' \in [Worker -> Local] /\ worker'[w] = Idle
      /\ \A v \in Worker \ {w} : worker'[v] = worker[v]
    BY <1>h, RecordTypes, WorkerTypes DEF Fail
<1>3. creditLock' \in Worker \cup {None} /\ failures' \in Nat
    BY <1>h DEF Fail, TypeOK
<1>4. TypeOK'
    BY <1>h, <1>2, <1>3, <1>w DEF TypeOK
<1>5. ASSUME NEW v \in Worker PROVE Holds(v)'
    <2>1. CASE v = w
        BY <2>1, <1>w, RecordTypes DEF Holds
    <2>2. CASE v # w
        <3>1. /\ Holds(v) /\ worker'[v] = worker[v]
              /\ worker[v].pc \in {"idle", "lockCredits", "charge", "send", "finish"}
            BY <1>h, <1>w, <2>2, RecordTypes DEF Holding, TypeOK
        <3>2. worker[v].pc = "charge" => creditLock' = creditLock /\ ledger' = ledger
            BY <1>2, <2>2, <3>1 DEF Fail, Holds
        <3> QED
            BY <1>2, <3>1, <3>2, HoldsFrame
    <2> QED
        BY <2>1, <2>2
<1>6. Alone'
    BY <1>h, <1>w, RecordTypes DEF Alone
<1>7. ASSUME NEW m \in Message PROVE MessageInv(m)'
    BY <1>h, <1>2, MessageFrame
<1>8. OrgSms \subseteq Message
    BY DispatchAssumption
<1> QED
    BY <1>4, <1>5, <1>6, <1>7, <1>8 DEF IndInv, Holding, MessageInv, Waiting, ChargeMatchesRow, AttemptsBounded

-----------------------------------------------------------------------------
(* Steps of nobody's dispatch. *)

(* A step that moves no worker, and at most fails messages that are SENDING. *)
LEMMA NoWorkerStep ==
    ASSUME IndInv, TypeOK', UNCHANGED <<charged, refunded, worker, accepted, creditLock>>,
           \A m \in Message :
              rows'[m] = rows[m] \/
                 (/\ rows[m].status = "SENDING" /\ rows'[m].status = "FAILED"
                  /\ rows'[m].attempts = rows[m].attempts),
           ledger' # ledger => creditLock = None
    PROVE  IndInv'
<1>h. TypeOK /\ Holding /\ Alone /\ \A m \in Message : MessageInv(m)
    BY Parts
<1>1. ASSUME NEW v \in Worker PROVE Holds(v)'
    <2>1. /\ Holds(v) /\ worker[v].msg \in Message \cup {None}
          /\ worker[v].pc \in {"idle", "lockCredits", "charge", "send", "finish"}
        BY <1>h, RecordTypes DEF Holding, TypeOK
    <2>2. worker[v].pc = "charge" => creditLock' = creditLock /\ ledger' = ledger
        BY <2>1, DispatchAssumption DEF Holds
    <2> QED
        BY <2>1, <2>2, HoldsFrame
<1>2. Alone'
    BY <1>h DEF Alone
<1>3. ASSUME NEW m \in Message PROVE MessageInv(m)'
    <2>1. CASE rows'[m] = rows[m]
        BY <2>1, <1>h, MessageFrame
    <2>2. CASE /\ rows[m].status = "SENDING" /\ rows'[m].status = "FAILED"
               /\ rows'[m].attempts = rows[m].attempts
        BY <2>2, <1>h DEF MessageInv, IsCharged
    <2> QED
        BY <2>1, <2>2
<1>4. OrgSms \subseteq Message
    BY DispatchAssumption
<1> QED
    BY <1>1, <1>2, <1>3, <1>4 DEF IndInv, Holding, MessageInv, Waiting, ChargeMatchesRow, AttemptsBounded

(* The sweep fails rows in SENDING; a worker that still has one finds that out when it finishes. *)
LEMMA SweepStaleStep ==
    ASSUME IndInv, SweepStale
    PROVE  IndInv'
<1>1. TypeOK
    BY DEF IndInv
<1>2. ASSUME NEW r \in Row
      PROVE  LET next == [r EXCEPT !.status = "FAILED"]
             IN  next \in Row /\ next.status = "FAILED" /\ next.attempts = r.attempts
    BY <1>2 DEF Row, Status, Final
<1>3. \A m \in Message :
          /\ rows'[m] = rows[m] \/
                (/\ rows[m].status = "SENDING" /\ rows'[m].status = "FAILED"
                 /\ rows'[m].attempts = rows[m].attempts)
          /\ rows'[m] \in Row /\ age'[m] \in Nat
    <2> TAKE m \in Message
    <2>1. rows[m] \in Row /\ age[m] \in Nat
        BY <1>1 DEF TypeOK
    <2>2. rows'[m] = (IF m \in Stale THEN [rows[m] EXCEPT !.status = "FAILED"] ELSE rows[m])
        BY DEF SweepStale
    <2>3. age'[m] = IF m \in Stale THEN 0 ELSE age[m]
        BY DEF SweepStale
    <2>4. m \in Stale => rows[m].status = "SENDING"
        BY DEF Stale
    <2> QED
        BY <1>2, <2>1, <2>2, <2>3, <2>4
<1>4. rows' \in [Message -> Row] /\ age' \in [Message -> Nat]
    BY <1>3 DEF SweepStale
<1>5. TypeOK'
    BY <1>1, <1>4 DEF TypeOK, SweepStale, creditVars
<1> QED
    BY <1>3, <1>5, NoWorkerStep DEF SweepStale, creditVars

(* Time passes over rows only. *)
LEMMA TickStep ==
    ASSUME IndInv, Tick
    PROVE  IndInv'
<1>1. TypeOK
    BY DEF IndInv
<1>2. wait' \in [Message -> Nat] /\ age' \in [Message -> Nat]
    BY <1>1 DEF Tick, TypeOK
<1>3. TypeOK'
    BY <1>1, <1>2 DEF TypeOK, Tick, creditVars
<1> QED
    BY <1>3, NoWorkerStep DEF Tick, creditVars

(* Top-ups and grants wait for the lock of the ledger; a new month changes no balance. *)
LEMMA CreditsStep ==
    ASSUME IndInv, Credits
    PROVE  IndInv'
<1>1. TypeOK /\ Granted(ledger, month) \in Ledger
    BY GrantedLedger DEF IndInv, TypeOK
<1>2. /\ ledger' \in Ledger /\ month' \in Nat /\ paid' \subseteq Payment
      /\ UNCHANGED <<charged, refunded, creditLock>> /\ (ledger' # ledger => creditLock = None)
    <2>1. ASSUME NEW p \in Payment, TopUp(p)
          PROVE  ledger' \in Ledger
        <3>1. ASSUME NEW l \in Ledger PROVE [l EXCEPT !.topUp = @ + Pack] \in Ledger
            BY <3>1, CreditAssumption DEF Ledger
        <3> QED
            BY <1>1, <2>1, <3>1 DEF TopUp
    <2> QED
        BY <1>1, <2>1, CreditAssumption DEF Credits, TopUp, GrantMonth, NextMonth, TypeOK
<1>3. TypeOK'
    BY <1>1, <1>2 DEF TypeOK, Credits, outboxVars
<1> QED
    BY <1>2, <1>3, NoWorkerStep DEF Credits, outboxVars

(* The invariant says nothing of what a stutter changes. *)
LEMMA StutterStep ==
    ASSUME IndInv, UNCHANGED vars
    PROVE  IndInv'
<1>1. TypeOK'
    BY DEF IndInv, TypeOK, vars, creditVars, outboxVars
<1> QED
    BY <1>1, NoWorkerStep DEF vars, creditVars, outboxVars

-----------------------------------------------------------------------------
(* At first nothing is queued, held or charged. *)
LEMMA InitInv == Init => IndInv
<1> SUFFICES ASSUME Init PROVE IndInv
    OBVIOUS
<1> USE DEF Init, CreditInit
<1>1. TypeOK
    BY RecordTypes DEF TypeOK, Ledger, Buckets, Nothing
<1>2. Holding /\ Alone
    BY RecordTypes DEF Holding, Holds, Alone
<1>3. \A m \in Message : MessageInv(m)
    BY DispatchAssumption DEF MessageInv, IsCharged, NoRow
<1> QED
    BY <1>1, <1>2, <1>3, Parts

(* The invariant survives every step: one case per action. *)
LEMMA StepInv == IndInv /\ [Next]_vars => IndInv'
<1> SUFFICES ASSUME IndInv, [Next]_vars PROVE IndInv'
    OBVIOUS
<1>1. ASSUME NEW m \in Message, Enqueue(m) PROVE IndInv'
    BY <1>1, EnqueueStep
<1>2. ASSUME NEW m \in Message, Claim(m) PROVE IndInv'
    BY <1>2, ClaimUnreachableStep, ClaimInAppStep, ClaimFreeStep, ClaimSmsStep DEF Claim
<1>3. ASSUME NEW w \in Worker, WorkerStep(w) PROVE IndInv'
    BY <1>3, LockCreditsStep, ChargeStep, SendStep, FinishSentStep, FinishRetryStep,
       FinishFailedStep DEF WorkerStep
<1>4. ASSUME NEW w \in Worker, Fail(w) PROVE IndInv'
    BY <1>4, FailStep
<1>5. CASE SweepStale
    BY <1>5, SweepStaleStep
<1>6. CASE Tick
    BY <1>6, TickStep
<1>7. CASE Credits
    BY <1>7, CreditsStep
<1>8. CASE UNCHANGED vars
    BY <1>8, StutterStep
<1> QED
    BY <1>1, <1>2, <1>3, <1>4, <1>5, <1>6, <1>7, <1>8 DEF Next

-----------------------------------------------------------------------------
(* IndInv holds in every state: what a worker has loaded stays true of the rows
   and the ledger until it uses it. *)
THEOREM Inductive == Spec => []IndInv
BY InitInv, StepInv, PTL DEF Spec

(* The state keeps its types; no balance is ever fractional or negative. *)
THEOREM TypeCorrect == Spec => []TypeOK
<1>1. IndInv => TypeOK
    BY DEF IndInv
<1> QED
    BY <1>1, Inductive, PTL

(* No bucket is overdrawn, however many workers, top-ups and grants interleave:
   the lock is held from the read of the balance to the write. *)
THEOREM NeverOverdrawn == Spec => []NoOverdraft
<1>1. IndInv => NoOverdraft
    BY DEF IndInv, TypeOK, Ledger, NoOverdraft
<1> QED
    BY <1>1, Inductive, PTL

(* The ledger and the message log agree in every state. *)
THEOREM LogMatchesLedger == Spec => []ChargeMatchesRow
<1>1. IndInv => ChargeMatchesRow
    BY DEF IndInv
<1> QED
    BY <1>1, Inductive, PTL

(* A message is never in the provider's hands twice at the same time. *)
THEOREM NoTwoSenders == Spec => []OneSender
<1>1. IndInv => OneSender
    BY DispatchAssumption DEF IndInv, OneSender, Alone, Holding, Holds, Calling
<1> QED
    BY <1>1, Inductive, PTL

(* The provider gets a message at most MaxAttempts times. *)
THEOREM BoundedAttempts == Spec => []AttemptsBounded
<1>1. IndInv => AttemptsBounded
    BY DEF IndInv
<1> QED
    BY <1>1, Inductive, PTL

(* What a message was charged never changes. *)
THEOREM OneCharge == Spec => ChargedOnce
<1>1. IndInv /\ [Next]_vars => [\A m \in Message : IsCharged(m) => charged'[m] = charged[m]]_vars
    <2> SUFFICES ASSUME IndInv, [Next]_vars, NEW m \in Message, IsCharged(m)
                 PROVE  charged'[m] = charged[m]
        OBVIOUS
    <2>1. CASE charged' = charged
        BY <2>1
    <2>2. CASE charged' # charged
        <3>1. PICK w \in Worker : Charge(w)
            BY <2>2 DEF Next, Claim, Enqueue, ClaimUnreachable, ClaimInApp, ClaimFree, ClaimSms,
               WorkerStep, LockCredits, Send, FinishSent, FinishRetry, FinishFailed, Refund, Fail,
               SweepStale, Tick, Credits, TopUp, GrantMonth, NextMonth, vars, creditVars
        <3>2. charged \in [Message -> Buckets]
            BY DEF IndInv, TypeOK
        <3> QED
            BY <3>1, <3>2 DEF Charge, MustCharge
    <2> QED
        BY <2>1, <2>2
<1> QED
    BY <1>1, Inductive, PTL DEF Spec, ChargedOnce

-----------------------------------------------------------------------------
(* Bought credits.  A sum over the messages that keep what they took follows
   the top-up bucket through every step. *)

(* What messages took from the top-ups, those with a refund left out. *)
Spent(taken, back) == SumFunctionOnSet([m \in Message |-> taken[m].topUp], Message \ back)

BookInv == IsFiniteSet(paid) /\ TopUpsKept

(* The ledger's equation, in terms of Spent, ... *)
LEMMA Book == TopUpsKept <=> ledger.topUp = Pack * Cardinality(paid) - Spent(charged, refunded)
BY DEF TopUpsKept, Spent

(* ... and after a step. *)
LEMMA BookNext == TopUpsKept' <=> ledger'.topUp = Pack * Cardinality(paid') - Spent(charged', refunded')
BY DEF TopUpsKept, Spent

(* What is spent is a number. *)
LEMMA SpentType ==
    ASSUME NEW c \in [Message -> Buckets], NEW r
    PROVE  Spent(c, r) \in Nat
<1>1. IsFiniteSet(Message \ r)
    BY DispatchAssumption, FS_Subset
<1>2. \A m \in Message \ r : [x \in Message |-> c[x].topUp][m] \in Nat
    BY DEF Buckets
<1> QED
    BY <1>1, <1>2, SumType DEF Spent

(* A message that took nothing before takes its share. *)
LEMMA SpentMore ==
    ASSUME NEW c \in [Message -> Buckets], NEW r, NEW m \in Message \ r, c[m] = Nothing,
           NEW s \in Buckets
    PROVE  Spent([c EXCEPT ![m] = s], r) = Spent(c, r) + s.topUp
<1> DEFINE w == [x \in Message |-> c[x].topUp]
           v == [x \in Message |-> [c EXCEPT ![m] = s][x].topUp]
           S == Message \ r
<1>1. IsFiniteSet(S)
    BY DispatchAssumption, FS_Subset
<1>2. /\ \A x \in S : w[x] \in Int
      /\ \A x \in S : v[x] \in Int
      /\ \A x \in S \ {m} : w[x] = v[x]
      /\ w[m] = 0 /\ v[m] = s.topUp /\ m \in S
    BY DEF Buckets, Nothing
<1> HIDE DEF w, v, S
<1>3. SumFunctionOnSet(v, S) = SumFunctionOnSet(w, S) - PartOf(w, S, m) + PartOf(v, S, m)
    BY <1>1, <1>2, SumChange
<1>4. SumFunctionOnSet(w, S) \in Int /\ s.topUp \in Int
    BY <1>1, <1>2, SumType DEF Buckets
<1>5. SumFunctionOnSet(v, S) = SumFunctionOnSet(w, S) + s.topUp
    BY <1>2, <1>3, <1>4 DEF PartOf
<1> QED
    BY <1>5 DEF Spent, w, v, S

(* A message gets back what it took. *)
LEMMA SpentLess ==
    ASSUME NEW c \in [Message -> Buckets], NEW r, NEW m \in Message \ r
    PROVE  Spent(c, r \cup {m}) = Spent(c, r) - c[m].topUp
<1> DEFINE w == [x \in Message |-> c[x].topUp]
           S == Message \ r
           T == Message \ (r \cup {m})
<1>1. IsFiniteSet(S)
    BY DispatchAssumption, FS_Subset
<1>2. /\ \A x \in S : w[x] \in Int
      /\ \A x \in T : w[x] \in Int
      /\ S \ {m} = T \ {m} /\ w[m] = c[m].topUp /\ m \in S /\ m \notin T
    BY DEF Buckets
<1> HIDE DEF w, S, T
<1>3. SumFunctionOnSet(w, T) = SumFunctionOnSet(w, S) - PartOf(w, S, m) + PartOf(w, T, m)
    BY <1>1, <1>2, SumChange
<1>4. SumFunctionOnSet(w, S) \in Int /\ c[m].topUp \in Int
    BY <1>1, <1>2, SumType
<1>5. SumFunctionOnSet(w, T) = SumFunctionOnSet(w, S) - c[m].topUp
    BY <1>2, <1>3, <1>4 DEF PartOf
<1> QED
    BY <1>5 DEF Spent, w, S, T

(* At first nothing is bought and nothing spent. *)
LEMMA BookInit == Init => BookInv
<1> SUFFICES ASSUME Init PROVE BookInv
    OBVIOUS
<1>1. paid = {} /\ charged = [m \in Message |-> Nothing] /\ ledger.topUp = 0 /\ refunded = {}
    BY DEF Init, CreditInit
<1>2. \A m \in Message : [x \in Message |-> charged[x].topUp][m] = 0
    BY <1>1 DEF Nothing
<1> DEFINE zero == [m \in Message |-> 0]
<1>3. Spent(charged, refunded) = 0
    BY <1>1, <1>2, DispatchAssumption, SumType DEF Spent
<1>4. IsFiniteSet(paid) /\ Cardinality(paid) = 0
    BY <1>1, FS_EmptySet
<1> QED
    BY <1>1, <1>3, <1>4, Book, CreditAssumption DEF BookInv

(* What was bought, and what was taken of it, are numbers. *)
LEMMA BookTypes ==
    ASSUME IndInv, BookInv
    PROVE  /\ Spent(charged, refunded) \in Nat /\ Cardinality(paid) \in Nat
           /\ Pack * Cardinality(paid) \in Nat
<1>1. Spent(charged, refunded) \in Nat
    BY SpentType DEF IndInv, TypeOK
<1>2. Cardinality(paid) \in Nat /\ Pack \in Nat
    BY FS_CardinalityType, CreditAssumption DEF BookInv
<1>3. \A i, j \in Nat : i * j \in Nat
    OBVIOUS
<1> QED
    BY <1>1, <1>2, <1>3

(* Most steps leave the books alone. *)
LEMMA BookFrame ==
    ASSUME BookInv, UNCHANGED <<charged, refunded, paid>>, ledger'.topUp = ledger.topUp
    PROVE  BookInv'
BY Book, BookNext DEF BookInv

(* A charge takes from the top-up bucket what it writes to the log: the balance
   it goes by is still the ledger's. *)
LEMMA BookCharge ==
    ASSUME IndInv, BookInv, NEW w \in Worker, Charge(w)
    PROVE  BookInv'
<1>m. PICK m \in Message : m = worker[w].msg
    BY Held DEF Charge
<1> DEFINE credits == worker[w].cost
           seen == worker[w].balance
           paying == MustCharge(m) /\ Enough(seen, credits)
           share == IF paying THEN Share(seen, credits) ELSE Nothing
<1>h. /\ TypeOK /\ Holds(w) /\ worker[w] \in Local /\ MessageInv(m)
    BY <1>m, Held DEF Charge
<1>k. /\ m \in OrgSms /\ credits \in Nat /\ credits > 0 /\ rows[m].status = "PENDING"
      /\ seen \in Ledger /\ seen = Granted(ledger, seen.period) /\ m \notin refunded
    BY <1>h, <1>m, RecordTypes DEF Charge, Holds, MessageInv
<1>a. /\ ledger' = Less(seen, share)
      /\ charged' = IF paying THEN [charged EXCEPT ![m] = share] ELSE charged
      /\ UNCHANGED <<refunded, paid>>
    BY <1>k, <1>m DEF Charge
<1>1. seen.topUp = ledger.topUp /\ ledger.topUp \in Nat /\ share \in Buckets
    <2>1. ledger \in Ledger
        BY <1>h DEF TypeOK
    <2>2. seen.topUp = ledger.topUp
        BY <1>k DEF Granted
    <2>3. share \in Buckets
        BY <1>k, ShareOf DEF Buckets, Nothing
    <2> QED
        BY <2>1, <2>2, <2>3 DEF Ledger
<1>2. ledger'.topUp = ledger.topUp - share.topUp
    BY <1>a, <1>1 DEF Less
<1>3. Spent(charged', refunded') = Spent(charged, refunded) + share.topUp
    <2>1. CASE paying
        <3>1. charged \in [Message -> Buckets] /\ m \in Message \ refunded /\ charged[m] = Nothing
            BY <2>1, <1>h, <1>k DEF TypeOK, MustCharge, IsCharged
        <3>2. charged' = [charged EXCEPT ![m] = share] /\ refunded' = refunded
            BY <2>1, <1>a
        <3> HIDE DEF share
        <3>3. Spent([charged EXCEPT ![m] = share], refunded) = Spent(charged, refunded) + share.topUp
            BY <1>1, <3>1, SpentMore
        <3> QED
            BY <3>2, <3>3
    <2>2. CASE ~paying
        <3>1. Spent(charged, refunded) \in Nat
            BY BookTypes
        <3>2. share.topUp = 0
            BY <2>2 DEF Nothing
        <3>3. Spent(charged', refunded') = Spent(charged, refunded)
            BY <2>2, <1>a
        <3> HIDE DEF share
        <3> QED
            BY <3>1, <3>2, <3>3
    <2> QED
        BY <2>1, <2>2
<1>4. Spent(charged, refunded) \in Nat /\ share.topUp \in Nat /\ Pack * Cardinality(paid) \in Nat
    BY <1>1, BookTypes DEF Buckets
<1> HIDE DEF share
<1> QED
    BY <1>a, <1>1, <1>2, <1>3, <1>4, Book, BookNext DEF BookInv

(* A message that is given up gets back what it took, once. *)
LEMMA BookFailed ==
    ASSUME IndInv, BookInv, NEW w \in Worker, FinishFailed(w)
    PROVE  BookInv'
<1>m. PICK m \in Message : m = worker[w].msg
    BY Held DEF FinishFailed
<1>1. CASE UNCHANGED creditVars
    BY <1>1, BookFrame DEF creditVars
<1>2. CASE Refund(m) /\ worker[w].row.used > 0
    <2>1. TypeOK /\ Holds(w) /\ worker[w].row.used \in Nat
        BY <1>m, Held, RecordTypes DEF FinishFailed
    <2>2. m \in OrgSms /\ IsCharged(m) /\ m \notin refunded
        BY <1>2, <1>m, <2>1 DEF FinishFailed, Holds
    <2>3. /\ ledger' = [ledger EXCEPT !.allowance = @ + charged[m].allowance,
                                      !.topUp = @ + charged[m].topUp]
          /\ refunded' = refunded \cup {m} /\ UNCHANGED <<charged, paid>>
        BY <1>2, <2>2 DEF Refund
    <2>4. /\ ledger'.topUp = ledger.topUp + charged[m].topUp
          /\ ledger.topUp \in Nat /\ charged[m].topUp \in Nat
        BY <2>1, <2>3 DEF TypeOK, Ledger, Buckets
    <2>5. Spent(charged', refunded') = Spent(charged, refunded) - charged[m].topUp
        BY <2>1, <2>2, <2>3, SpentLess DEF TypeOK
    <2>6. Spent(charged, refunded) \in Nat /\ Pack * Cardinality(paid) \in Nat
        BY BookTypes
    <2> QED
        BY <2>3, <2>4, <2>5, <2>6, Book, BookNext DEF BookInv
<1> QED
    BY <1>m, <1>1, <1>2 DEF FinishFailed

(* A payment that is reported again adds nothing. *)
LEMMA BookTopUp ==
    ASSUME IndInv, BookInv, NEW p \in Payment, TopUp(p)
    PROVE  BookInv'
<1>1. TypeOK /\ ledger \in Ledger /\ Granted(ledger, month) \in Ledger
    BY GrantedLedger DEF IndInv, TypeOK
<1>2. Granted(ledger, month).topUp = ledger.topUp
    BY DEF Granted
<1>3. UNCHANGED <<charged, refunded>> /\ paid' = paid \cup {p}
    BY DEF TopUp
<1>4. CASE p \in paid
    <2>1. paid' = paid /\ ledger'.topUp = ledger.topUp
        BY <1>2, <1>3, <1>4 DEF TopUp
    <2> QED
        BY <1>3, <2>1, BookFrame
<1>5. CASE p \notin paid
    <2>1. ledger'.topUp = ledger.topUp + Pack
        BY <1>1, <1>2, <1>5 DEF TopUp, Ledger
    <2>2. IsFiniteSet(paid') /\ Cardinality(paid') = Cardinality(paid) + 1 /\ Cardinality(paid) \in Nat
        BY <1>3, <1>5, FS_AddElement, FS_CardinalityType DEF BookInv
    <2>3. Pack * Cardinality(paid') = Pack * Cardinality(paid) + Pack
        <3>1. \A i, j \in Nat : i * (j + 1) = i * j + i
            OBVIOUS
        <3> QED
            BY <2>2, <3>1, CreditAssumption
    <2>4. Spent(charged, refunded) \in Nat /\ Pack * Cardinality(paid) \in Nat
        BY BookTypes
    <2> QED
        BY <1>3, <2>1, <2>2, <2>3, <2>4, CreditAssumption, Book, BookNext DEF BookInv
<1> QED
    BY <1>4, <1>5

(* Each step moves both sides of the equation by as much: a pack, a charge, or a refund. *)
LEMMA BookStep == IndInv /\ BookInv /\ [Next]_vars => BookInv'
<1> SUFFICES ASSUME IndInv, BookInv, [Next]_vars PROVE BookInv'
    OBVIOUS
<1> USE DEF creditVars
<1>1. ASSUME NEW m \in Message, Enqueue(m) \/ Claim(m) PROVE BookInv'
    BY <1>1, BookFrame DEF Enqueue, Claim, ClaimUnreachable, ClaimInApp, ClaimFree, ClaimSms
<1>2. ASSUME NEW w \in Worker, WorkerStep(w) PROVE BookInv'
    BY <1>2, BookFrame, BookCharge, BookFailed DEF WorkerStep, LockCredits, Send, FinishSent, FinishRetry
<1>3. CASE (\E w \in Worker : Fail(w)) \/ SweepStale \/ Tick \/ UNCHANGED vars
    BY <1>3, BookFrame DEF Fail, SweepStale, Tick, vars
<1>4. CASE GrantMonth \/ NextMonth
    BY <1>4, BookFrame DEF GrantMonth, NextMonth, Granted
<1>5. ASSUME NEW p \in Payment, TopUp(p) PROVE BookInv'
    BY <1>5, BookTopUp
<1> QED
    BY <1>1, <1>2, <1>3, <1>4, <1>5 DEF Next, Credits

(* Bought credits are never lost and never invented, whatever the number of
   messages, payments and workers and however often a payment is reported. *)
THEOREM CreditsAddUp == Spec => []TopUpsKept
<1>1. BookInv => TopUpsKept
    BY DEF BookInv
<1> QED
    BY <1>1, BookInit, BookStep, Inductive, PTL DEF Spec

-----------------------------------------------------------------------------
(* Last month's allowance.  A refund may bring it back (AllowanceExpires does
   not hold), but only for a message that was on its way when the new month was
   granted. *)

(* Messages that may still get back what they took. *)
OnItsWay ==
    {m \in Message : /\ m \notin refunded
                     /\ rows[m].status = "PENDING" \/ \E w \in Calling : worker[w].msg = m}

(* A month is granted while a message is on its way that took of the last one. *)
OldCharge ==
    /\ ledger'.period # ledger.period
    /\ \E m \in OnItsWay : charged[m].allowance > 0

(* What messages on their way took from the allowance. *)
Underway(taken, way) == SumFunctionOnSet([m \in Message |-> taken[m].allowance], way)

(* What is left of the grant and what may come back are no more than the grant. *)
ExpiryInv == ledger.allowance + Underway(charged, OnItsWay) <= Allowance

(* The sum follows one message. *)
LEMMA UnderwayChange ==
    ASSUME NEW c \in [Message -> Buckets], NEW d \in [Message -> Buckets],
           NEW W \in SUBSET Message, NEW V \in SUBSET Message, NEW m \in Message,
           W \ {m} = V \ {m}, \A x \in Message \ {m} : c[x] = d[x]
    PROVE  /\ Underway(c, W) \in Nat /\ Underway(d, V) \in Nat
           /\ Underway(d, V) = Underway(c, W) - (IF m \in W THEN c[m].allowance ELSE 0)
                                              + (IF m \in V THEN d[m].allowance ELSE 0)
<1> DEFINE w == [x \in Message |-> c[x].allowance]
           v == [x \in Message |-> d[x].allowance]
<1>1. IsFiniteSet(W) /\ IsFiniteSet(V)
    BY DispatchAssumption, FS_Subset
<1>2. /\ \A x \in W : w[x] \in Nat
      /\ \A x \in V : v[x] \in Nat
      /\ \A x \in W \ {m} : w[x] = v[x]
      /\ w[m] = c[m].allowance /\ v[m] = d[m].allowance
    BY DEF Buckets
<1> HIDE DEF w, v
<1>3. SumFunctionOnSet(w, W) \in Nat /\ SumFunctionOnSet(v, V) \in Nat
    BY <1>1, <1>2, SumType
<1>4. (\A x \in W : w[x] \in Int) /\ (\A x \in V : v[x] \in Int)
    BY <1>2
<1>5. SumFunctionOnSet(v, V) = SumFunctionOnSet(w, W) - PartOf(w, W, m) + PartOf(v, V, m)
    BY <1>1, <1>2, <1>4, SumChange
<1>6. /\ PartOf(w, W, m) = IF m \in W THEN c[m].allowance ELSE 0
      /\ PartOf(v, V, m) = IF m \in V THEN d[m].allowance ELSE 0
    BY <1>2 DEF PartOf
<1> QED
    BY <1>3, <1>5, <1>6 DEF Underway, w, v

(* Nothing comes back if nothing was taken. *)
LEMMA UnderwayNothing ==
    ASSUME NEW c \in [Message -> Buckets], NEW W \in SUBSET Message,
           \A m \in W : ~(c[m].allowance > 0)
    PROVE  Underway(c, W) = 0
<1> DEFINE w == [x \in Message |-> c[x].allowance]
<1>1. IsFiniteSet(W)
    BY DispatchAssumption, FS_Subset
<1>2. \A x \in W : w[x] \in {0}
    BY DEF Buckets
<1> HIDE DEF w
<1>3. SumFunctionOnSet(w, W) \in {0}
    BY <1>1, <1>2, SumType
<1> QED
    BY <1>3 DEF Underway, w

(* A step that takes no charge back and grants nothing: no message that took of
   the allowance comes to be on its way. *)
LEMMA ExpiryFrame ==
    ASSUME IndInv, IndInv', ExpiryInv, ledger'.allowance = ledger.allowance, charged' = charged,
           NEW m \in Message, OnItsWay' \ {m} = OnItsWay \ {m},
           m \in OnItsWay' => m \in OnItsWay \/ ~IsCharged(m)
    PROVE  ExpiryInv'
<1>1. charged \in [Message -> Buckets] /\ charged' \in [Message -> Buckets] /\ ledger \in Ledger
    BY DEF IndInv, TypeOK
<1>2. OnItsWay \in SUBSET Message /\ OnItsWay' \in SUBSET Message
    BY DEF OnItsWay
<1>3. /\ Underway(charged, OnItsWay) \in Nat /\ Underway(charged', OnItsWay') \in Nat
      /\ Underway(charged', OnItsWay')
            = Underway(charged, OnItsWay) - (IF m \in OnItsWay THEN charged[m].allowance ELSE 0)
                                          + (IF m \in OnItsWay' THEN charged'[m].allowance ELSE 0)
    BY <1>1, <1>2, UnderwayChange
<1>4. charged[m].allowance \in Nat /\ (~IsCharged(m) => charged[m].allowance = 0)
    BY <1>1 DEF IsCharged, Nothing, Buckets
<1>5. Underway(charged', OnItsWay') <= Underway(charged, OnItsWay)
    BY <1>3, <1>4
<1> QED
    BY <1>1, <1>3, <1>5, CreditAssumption DEF ExpiryInv, Ledger

(* Worker w, and nobody else, has to do with message m, and only its row changes. *)
Acts(w, m) ==
    /\ \A v \in Worker \ {w} : worker'[v] = worker[v] /\ worker[v].msg # m
    /\ worker[w].msg \in {m, None} /\ worker'[w].msg \in {m, None}
    /\ \A x \in Message \ {m} : rows'[x] = rows[x]

(* A claim has to do with one message, ... *)
LEMMA ClaimActs ==
    ASSUME IndInv, NEW m \in Message, NEW w \in Worker,
           \/ ClaimUnreachable(w, m) \/ ClaimInApp(w, m) \/ ClaimFree(w, m)
           \/ \E credits \in Costs : ClaimSms(w, m, credits)
    PROVE  /\ Acts(w, m) /\ worker[w] = Idle /\ Due(m) /\ UNCHANGED creditVars
           /\ \A v \in Worker : worker[v].msg # m
<1>1. /\ Due(m) /\ worker[w] = Idle /\ UNCHANGED creditVars
      /\ \E r : rows' = [rows EXCEPT ![m] = r] \/ rows' = rows
      /\ worker' = worker \/ \E l : worker' = [worker EXCEPT ![w] = l] /\ l.msg = m
    <2>1. CASE ClaimUnreachable(w, m) \/ ClaimInApp(w, m)
        BY <2>1 DEF ClaimUnreachable, ClaimInApp, SaveRow
    <2>2. CASE ClaimFree(w, m)
        <3>1. [Idle EXCEPT !.pc = "send", !.msg = m, !.row = Sending(m, 0)].msg = m
            BY DEF Idle
        <3> QED
            BY <2>2, <3>1 DEF ClaimFree, SaveRow
    <2>3. CASE \E credits \in Costs : ClaimSms(w, m, credits)
        <3>1. PICK credits \in Costs : ClaimSms(w, m, credits)
            BY <2>3
        <3>2. [Idle EXCEPT !.pc = "lockCredits", !.msg = m, !.cost = credits].msg = m
            BY DEF Idle
        <3> QED
            BY <3>1, <3>2 DEF ClaimSms
    <2> QED
        BY <2>1, <2>2, <2>3
<1>2. \A v \in Worker : worker[v].msg # m
    BY <1>1, Unheld
<1>3. worker \in [Worker -> Local] /\ rows \in [Message -> Row]
    BY DEF IndInv, TypeOK
<1> QED
    BY <1>1, <1>2, <1>3, RecordTypes DEF Acts

(* ... and so has a step of a worker that holds one. *)
LEMMA WorkerActs ==
    ASSUME IndInv, NEW w \in Worker, worker[w].pc # "idle", WorkerStep(w) \/ Fail(w)
    PROVE  worker[w].msg \in Message /\ Acts(w, worker[w].msg)
<1>m. PICK m \in Message : m = worker[w].msg
    BY Held
<1>h. /\ worker \in [Worker -> Local] /\ rows \in [Message -> Row]
      /\ \A v \in Worker \ {w} : worker[v].msg # m
    BY <1>m, Held DEF TypeOK
<1>1. /\ \E r : rows' = [rows EXCEPT ![m] = r] \/ rows' = rows
      /\ \E l : worker' = [worker EXCEPT ![w] = l] /\ l.msg \in {m, None}
    <2>1. CASE LockCredits(w)
        <3>1. [worker[w] EXCEPT !.pc = "charge", !.balance = Granted(ledger, month)].msg = m
            BY <1>m, <1>h DEF Local
        <3> QED
            BY <2>1, <3>1 DEF LockCredits
    <2>2. CASE Charge(w)
        <3>1. PICK r : /\ SaveRow(m, r)
                       /\ worker' = [worker EXCEPT ![w] = IF r.status = "SENDING"
                              THEN [Idle EXCEPT !.pc = "send", !.msg = m, !.row = r] ELSE Idle]
            BY <2>2, <1>m DEF Charge
        <3>2. [Idle EXCEPT !.pc = "send", !.msg = m, !.row = r].msg = m /\ Idle.msg = None
            BY DEF Idle
        <3> QED
            BY <3>1, <3>2 DEF SaveRow
    <2>3. CASE Send(w)
        <3>1. PICK ok \in BOOLEAN : worker' = [worker EXCEPT ![w].pc = "finish", ![w].ok = ok]
            BY <2>3 DEF Send
        <3>2. [worker[w] EXCEPT !.pc = "finish", !.ok = ok].msg = m
            BY <1>m, <1>h DEF Local
        <3> QED
            BY <2>3, <3>1, <3>2 DEF Send
    <2>4. CASE FinishSent(w) \/ FinishRetry(w) \/ FinishFailed(w) \/ Fail(w)
        <3>1. worker' = [worker EXCEPT ![w] = Idle] /\ \E r : rows' = [rows EXCEPT ![m] = r] \/ rows' = rows
            BY <2>4, <1>m DEF FinishSent, FinishRetry, FinishFailed, Fail, SaveRow
        <3> QED
            BY <3>1, RecordTypes
    <2> QED
        BY <2>1, <2>2, <2>3, <2>4 DEF WorkerStep
<1> QED
    BY <1>m, <1>h, <1>1 DEF Acts

(* What is on its way after a step that has to do with m alone. *)
LEMMA ActsOnTheWay ==
    ASSUME NEW m \in Message, NEW w \in Worker, Acts(w, m),
           \A x \in Message \ {m} : x \in refunded' <=> x \in refunded
    PROVE  OnItsWay' \ {m} = OnItsWay \ {m}
<1> SUFFICES ASSUME NEW x \in Message \ {m} PROVE x \in OnItsWay' <=> x \in OnItsWay
    BY DEF OnItsWay
<1>1. (\E v \in Calling' : worker'[v].msg = x) <=> (\E v \in Calling : worker[v].msg = x)
    BY DispatchAssumption DEF Acts, Calling
<1> QED
    BY <1>1 DEF OnItsWay, Acts

(* A claim, or a new row: what comes to be on its way has taken nothing. *)
LEMMA ExpiryClaim ==
    ASSUME IndInv, IndInv', ExpiryInv, NEW m \in Message, Enqueue(m) \/ Claim(m)
    PROVE  ExpiryInv'
<1>1. /\ UNCHANGED creditVars /\ OnItsWay' \ {m} = OnItsWay \ {m}
      /\ m \in OnItsWay \/ ~IsCharged(m)
    <2>1. CASE Enqueue(m)
        <3>1. rows \in [Message -> Row] /\ MessageInv(m)
            BY Parts DEF TypeOK
        <3>2. ~IsCharged(m)
            BY <2>1, <3>1 DEF MessageInv, Enqueue
        <3> QED
            BY <2>1, <3>1, <3>2 DEF Enqueue, OnItsWay, Calling, creditVars
    <2>2. CASE Claim(m)
        <3>1. PICK w \in Worker : \/ ClaimUnreachable(w, m) \/ ClaimInApp(w, m) \/ ClaimFree(w, m)
                                  \/ \E credits \in Costs : ClaimSms(w, m, credits)
            BY <2>2 DEF Claim
        <3>2. Acts(w, m) /\ Due(m) /\ UNCHANGED creditVars /\ MessageInv(m)
            BY <3>1, ClaimActs, Parts
        <3>3. m \in OnItsWay \/ ~IsCharged(m)
            BY <3>2 DEF MessageInv, Due, OnItsWay
        <3> QED
            BY <3>2, <3>3, ActsOnTheWay DEF creditVars
    <2> QED
        BY <2>1, <2>2
<1> QED
    BY <1>1, ExpiryFrame DEF creditVars

(* A charge moves credits from the ledger to the sum; if it is the first of its
   month, nothing that took of the last one is on its way. *)
LEMMA ExpiryCharge ==
    ASSUME IndInv, IndInv', ExpiryInv, NEW w \in Worker, Charge(w), ~OldCharge
    PROVE  ExpiryInv'
<1>m. PICK m \in Message : m = worker[w].msg
    BY Held DEF Charge
<1> DEFINE credits == worker[w].cost
           seen == worker[w].balance
           paying == MustCharge(m) /\ Enough(seen, credits)
           share == IF paying THEN Share(seen, credits) ELSE Nothing
<1>h. /\ TypeOK /\ Holds(w) /\ worker[w] \in Local /\ MessageInv(m)
      /\ charged \in [Message -> Buckets] /\ charged' \in [Message -> Buckets] /\ ledger \in Ledger
    BY <1>m, Held DEF Charge, IndInv, TypeOK
<1>k. /\ m \in OrgSms /\ credits \in Nat /\ credits > 0 /\ rows[m].status = "PENDING"
      /\ seen \in Ledger /\ seen = Granted(ledger, seen.period) /\ m \notin refunded
    BY <1>h, <1>m, RecordTypes DEF Charge, Holds, MessageInv
<1>a. /\ ledger' = Less(seen, share)
      /\ charged' = IF paying THEN [charged EXCEPT ![m] = share] ELSE charged
      /\ UNCHANGED <<refunded, paid>>
    BY <1>k, <1>m DEF Charge
<1>w. OnItsWay \in SUBSET Message /\ OnItsWay' \in SUBSET Message /\ m \in OnItsWay
    BY <1>k DEF OnItsWay
<1>1. OnItsWay' \ {m} = OnItsWay \ {m}
    <2>1. Acts(w, m)
        BY <1>m, WorkerActs DEF Charge, WorkerStep
    <2> QED
        BY <1>a, <2>1, ActsOnTheWay
<1>2. share \in Buckets
    BY <1>k, ShareOf DEF Buckets, Nothing
<1>3. /\ charged'[m] = IF paying THEN share ELSE charged[m]
      /\ \A x \in Message \ {m} : charged'[x] = charged[x]
    BY <1>a, <1>h
<1>4. paying => charged[m].allowance = 0
    BY DEF MustCharge, IsCharged, Nothing
<1>5. ~paying => share.allowance = 0
    BY DEF Nothing
<1> HIDE DEF paying, share
<1>6. /\ ledger'.allowance = seen.allowance - share.allowance /\ ledger'.period = seen.period
      /\ share.allowance \in Nat /\ seen.allowance \in Nat /\ charged[m].allowance \in Nat
    BY <1>a, <1>2, <1>h, <1>k DEF Less, Buckets, Ledger
<1>7. /\ Underway(charged, OnItsWay) \in Nat /\ Underway(charged', OnItsWay') \in Nat
      /\ Underway(charged', OnItsWay')
            = Underway(charged, OnItsWay) - (IF m \in OnItsWay THEN charged[m].allowance ELSE 0)
                                          + (IF m \in OnItsWay' THEN charged'[m].allowance ELSE 0)
    BY <1>1, <1>3, <1>h, <1>w, UnderwayChange
<1>8. seen.allowance + Underway(charged, OnItsWay) <= Allowance
    <2>1. CASE seen.period = ledger.period
        BY <2>1, <1>k DEF Granted, ExpiryInv
    <2>2. CASE seen.period # ledger.period
        <3>1. \A x \in OnItsWay : ~(charged[x].allowance > 0)
            BY <2>2, <1>6 DEF OldCharge
        <3>2. Underway(charged, OnItsWay) = 0
            BY <3>1, <1>h, <1>w, UnderwayNothing
        <3>3. seen.allowance = Allowance
            BY <2>2, <1>k DEF Granted
        <3> QED
            BY <3>2, <3>3, CreditAssumption
    <2> QED
        BY <2>1, <2>2
<1>9. Underway(charged', OnItsWay') <= Underway(charged, OnItsWay) + share.allowance
    <2>1. CASE paying
        BY <2>1, <1>3, <1>4, <1>6, <1>7
    <2>2. CASE ~paying
        BY <2>2, <1>3, <1>5, <1>6, <1>7, <1>w
    <2> QED
        BY <2>1, <2>2
<1> QED
    BY <1>6, <1>7, <1>8, <1>9, CreditAssumption DEF ExpiryInv

(* A worker that goes on, or lets its message go with no refund. *)
LEMMA ExpiryWorker ==
    ASSUME IndInv, IndInv', ExpiryInv, NEW w \in Worker, worker[w].pc # "idle",
           \/ LockCredits(w) \/ Send(w) \/ FinishSent(w) \/ FinishRetry(w) \/ Fail(w)
           \/ FinishFailed(w) /\ UNCHANGED creditVars
    PROVE  ExpiryInv'
<1>m. PICK m \in Message : m = worker[w].msg
    BY Held
<1>1. Acts(w, m) /\ UNCHANGED <<ledger, charged, refunded>>
    BY <1>m, WorkerActs DEF WorkerStep, LockCredits, Send, FinishSent, FinishRetry, Fail, creditVars
<1>2. OnItsWay' \ {m} = OnItsWay \ {m}
    BY <1>1, ActsOnTheWay
<1>3. m \in OnItsWay \/ ~IsCharged(m)
    <2>1. Holds(w) /\ MessageInv(m) /\ worker[w] \in Local
        BY <1>m, Held
    <2>2. CASE worker[w].pc \in {"lockCredits", "charge"}
        BY <1>m, <2>1, <2>2 DEF Holds, MessageInv, OnItsWay
    <2>3. CASE worker[w].pc \in {"send", "finish"}
        BY <1>m, <2>1, <2>3 DEF Holds, MessageInv, OnItsWay, Calling
    <2> QED
        BY <2>1, <2>2, <2>3, RecordTypes
<1> QED
    BY <1>1, <1>2, <1>3, ExpiryFrame

(* A refund moves what the message took back from the sum to the ledger. *)
LEMMA ExpiryRefund ==
    ASSUME IndInv, IndInv', ExpiryInv, NEW w \in Worker, FinishFailed(w), Refund(worker[w].msg),
           worker[w].row.used > 0
    PROVE  ExpiryInv'
<1>m. PICK m \in Message : m = worker[w].msg
    BY Held DEF FinishFailed
<1>h. /\ TypeOK /\ Holds(w) /\ worker[w].row.used \in Nat /\ ledger \in Ledger
      /\ charged \in [Message -> Buckets]
    BY <1>m, Held, RecordTypes DEF FinishFailed, TypeOK
<1>1. m \in OrgSms /\ IsCharged(m) /\ m \notin refunded /\ m \in OnItsWay
    BY <1>m, <1>h DEF FinishFailed, Holds, OnItsWay, Calling
<1>2. /\ ledger' = [ledger EXCEPT !.allowance = @ + charged[m].allowance,
                                  !.topUp = @ + charged[m].topUp]
      /\ refunded' = refunded \cup {m} /\ charged' = charged
    BY <1>m, <1>1 DEF Refund
<1>3. OnItsWay' \ {m} = OnItsWay \ {m} /\ m \notin OnItsWay'
    <2>1. Acts(w, m)
        BY <1>m, WorkerActs DEF FinishFailed, WorkerStep
    <2> QED
        BY <1>2, <2>1, ActsOnTheWay DEF OnItsWay
<1>w. OnItsWay \in SUBSET Message /\ OnItsWay' \in SUBSET Message
    BY DEF OnItsWay
<1>4. /\ Underway(charged, OnItsWay) \in Nat /\ Underway(charged, OnItsWay') \in Nat
      /\ Underway(charged, OnItsWay')
            = Underway(charged, OnItsWay) - (IF m \in OnItsWay THEN charged[m].allowance ELSE 0)
                                          + (IF m \in OnItsWay' THEN charged[m].allowance ELSE 0)
    BY <1>3, <1>w, <1>h, UnderwayChange
<1>5. /\ ledger'.allowance = ledger.allowance + charged[m].allowance
      /\ ledger.allowance \in Nat /\ charged[m].allowance \in Nat
    BY <1>2, <1>h DEF Ledger, Buckets
<1>6. Underway(charged', OnItsWay') = Underway(charged, OnItsWay) - charged[m].allowance
    BY <1>1, <1>2, <1>3, <1>4, <1>5
<1> QED
    BY <1>4, <1>5, <1>6, CreditAssumption DEF ExpiryInv

(* The clock, the sweep and the other operations of the ledger move nothing on
   its way; a grant expires what is left. *)
LEMMA ExpiryOthers ==
    ASSUME IndInv, ExpiryInv, ~OldCharge, SweepStale \/ Tick \/ Credits \/ UNCHANGED vars
    PROVE  ExpiryInv'
<1>h. /\ ledger \in Ledger /\ charged \in [Message -> Buckets] /\ OnItsWay \in SUBSET Message
      /\ rows \in [Message -> Row]
    BY DEF IndInv, TypeOK, OnItsWay
<1>1. OnItsWay' = OnItsWay /\ charged' = charged
    <2>1. CASE SweepStale
        <3>1. \A m \in Message : rows'[m].status = "PENDING" <=> rows[m].status = "PENDING"
            <4> TAKE m \in Message
            <4>1. rows[m] \in Row /\ rows'[m] = IF m \in Stale THEN [rows[m] EXCEPT !.status = "FAILED"] ELSE rows[m]
                BY <2>1, <1>h DEF SweepStale
            <4>2. m \in Stale => rows[m].status = "SENDING" /\ [rows[m] EXCEPT !.status = "FAILED"].status = "FAILED"
                BY <4>1 DEF Stale, Row
            <4> QED
                BY <4>1, <4>2
        <3> QED
            BY <2>1, <3>1 DEF SweepStale, OnItsWay, Calling, creditVars
    <2>2. CASE Tick \/ Credits \/ UNCHANGED vars
        BY <2>2 DEF Tick, Credits, vars, TopUp, GrantMonth, NextMonth, OnItsWay, Calling,
           creditVars, outboxVars
    <2> QED
        BY <2>1, <2>2
<1>2. ledger'.allowance = ledger.allowance
      \/ /\ ledger'.allowance = Allowance /\ ledger'.period # ledger.period
    <2>1. Granted(ledger, month) \in Ledger
        BY GrantedLedger DEF IndInv, TypeOK
    <2>2. CASE GrantMonth \/ \E p \in Payment : TopUp(p)
        <3>1. /\ ledger'.allowance = Granted(ledger, month).allowance
              /\ ledger'.period = Granted(ledger, month).period
            BY <2>1, <2>2 DEF GrantMonth, TopUp, Ledger
        <3> QED
            BY <3>1 DEF Granted
    <2>3. CASE SweepStale \/ Tick \/ NextMonth \/ UNCHANGED vars
        BY <2>3 DEF SweepStale, Tick, NextMonth, vars, creditVars
    <2> QED
        BY <2>2, <2>3 DEF Credits
<1>3. CASE ledger'.allowance = ledger.allowance
    BY <1>1, <1>3 DEF ExpiryInv
<1>4. CASE ledger'.allowance = Allowance /\ ledger'.period # ledger.period
    <2>1. \A m \in OnItsWay : ~(charged[m].allowance > 0)
        BY <1>4 DEF OldCharge
    <2>2. Underway(charged, OnItsWay) = 0
        BY <2>1, <1>h, UnderwayNothing
    <2> QED
        BY <1>1, <1>4, <2>2, CreditAssumption DEF ExpiryInv
<1> QED
    BY <1>2, <1>3, <1>4

(* At first nothing is granted or taken. *)
LEMMA ExpiryInit == Init => ExpiryInv
<1> SUFFICES ASSUME Init PROVE ExpiryInv
    OBVIOUS
<1>1. charged \in [Message -> Buckets] /\ \A m \in Message : charged[m] = Nothing
    BY DEF Init, CreditInit, Buckets, Nothing
<1>2. Underway(charged, OnItsWay) = 0
    BY <1>1, UnderwayNothing DEF OnItsWay, Nothing
<1> QED
    BY <1>2, CreditAssumption DEF ExpiryInv, Init, CreditInit

(* Every step but the grant that OldCharge describes keeps the sum. *)
LEMMA ExpiryStep == IndInv /\ ExpiryInv /\ [Next]_vars /\ [~OldCharge]_vars => ExpiryInv'
<1> SUFFICES ASSUME IndInv, ExpiryInv, [Next]_vars, [~OldCharge]_vars PROVE ExpiryInv'
    OBVIOUS
<1>i. IndInv'
    BY StepInv
<1>o. ~OldCharge
    BY DEF OldCharge, vars, creditVars
<1>1. ASSUME NEW m \in Message, Enqueue(m) \/ Claim(m) PROVE ExpiryInv'
    BY <1>1, <1>i, ExpiryClaim
<1>2. ASSUME NEW w \in Worker, WorkerStep(w) PROVE ExpiryInv'
    <2>1. worker[w].pc # "idle"
        BY <1>2 DEF WorkerStep, LockCredits, Charge, Send, FinishSent, FinishRetry, FinishFailed
    <2>2. CASE Charge(w)
        BY <2>2, <1>i, <1>o, ExpiryCharge
    <2>3. CASE FinishFailed(w)
        BY <2>1, <2>3, <1>i, ExpiryRefund, ExpiryWorker DEF FinishFailed
    <2> QED
        BY <1>2, <2>1, <2>2, <2>3, <1>i, ExpiryWorker DEF WorkerStep
<1>3. ASSUME NEW w \in Worker, Fail(w) PROVE ExpiryInv'
    <2>1. CASE worker[w].pc # "idle"
        BY <1>3, <2>1, <1>i, ExpiryWorker
    <2>2. CASE worker[w].pc = "idle"
        <3>1. worker \in [Worker -> Local] /\ UNCHANGED <<rows, ledger, charged, refunded>>
            BY <1>3 DEF IndInv, TypeOK, Fail
        <3>2. worker'[w].pc = "idle" /\ \A v \in Worker \ {w} : worker'[v] = worker[v]
            BY <1>3, <3>1, RecordTypes DEF Fail
        <3>3. Calling' = Calling /\ \A v \in Calling : worker'[v] = worker[v]
            BY <2>2, <3>2 DEF Calling
        <3>4. OnItsWay' = OnItsWay
            BY <3>1, <3>3 DEF OnItsWay
        <3> QED
            BY <3>1, <3>4 DEF ExpiryInv
    <2> QED
        BY <2>1, <2>2
<1> QED
    BY <1>1, <1>2, <1>3, <1>o, ExpiryOthers DEF Next

(* What is left of an allowance expires with its month, unless a month is granted
   while a message that took of the last one is on its way: the refund of such a
   message is the only thing that brings an old allowance back. *)
THEOREM AllowanceExpiresOtherwise == Spec /\ [][~OldCharge]_vars => []AllowanceExpires
<1>1. IndInv /\ ExpiryInv => AllowanceExpires
    <2> SUFFICES ASSUME IndInv, ExpiryInv PROVE AllowanceExpires
        OBVIOUS
    <2>1. ledger \in Ledger /\ charged \in [Message -> Buckets] /\ OnItsWay \in SUBSET Message
        BY DEF IndInv, TypeOK, OnItsWay
    <2>2. Underway(charged, OnItsWay) \in Nat
        BY <2>1, DispatchAssumption, FS_Subset, SumType DEF Underway, Buckets
    <2> QED
        BY <2>1, <2>2, CreditAssumption DEF ExpiryInv, AllowanceExpires, Ledger
<1> QED
    BY <1>1, ExpiryInit, ExpiryStep, Inductive, PTL DEF Spec

-----------------------------------------------------------------------------
(* Codes.  The sweep fails a row without forgetting what it holds
   (SecretsForgotten does not hold); every other way to settle one forgets it. *)

(* The sweep gives up the row of a message that is a code. *)
CodeGivenUp == SweepStale /\ Stale \cap Sensitive # {}

(* Only codes are secret, ... *)
CodesOnly(m, row) == row.secret = TRUE => m \in Sensitive

(* ... in the table and in the workers' copies; what is settled is not. *)
SecretInv ==
    /\ \A m \in Message : CodesOnly(m, rows[m]) /\ (rows[m].status \in Final => rows[m].secret = FALSE)
    /\ \A w \in Calling : CodesOnly(worker[w].msg, worker[w].row)

(* A redacted row holds no secret. *)
LEMMA ForgottenSecret ==
    ASSUME NEW m, NEW r \in Row, CodesOnly(m, r)
    PROVE  Forgotten(m, r).secret = FALSE
BY DEF Forgotten, Row, CodesOnly

(* A row is saved, and its worker goes on with that row or lets it go. *)
LEMMA SecretSave ==
    ASSUME IndInv, SecretInv, NEW m \in Message, NEW r, SaveRow(m, r), CodesOnly(m, r),
           r.status \in Final => r.secret = FALSE,
           \A w \in Calling' : \/ w \in Calling /\ worker'[w] = worker[w]
                               \/ worker'[w].msg = m /\ worker'[w].row = r
    PROVE  SecretInv'
<1>1. rows \in [Message -> Row]
    BY DEF IndInv, TypeOK
<1>2. rows'[m] = r /\ \A x \in Message \ {m} : rows'[x] = rows[x]
    BY <1>1 DEF SaveRow
<1>3. ASSUME NEW x \in Message
      PROVE  CodesOnly(x, rows'[x]) /\ (rows'[x].status \in Final => rows'[x].secret = FALSE)
    BY <1>2 DEF SecretInv
<1>4. ASSUME NEW w \in Calling' PROVE CodesOnly(worker'[w].msg, worker'[w].row)
    BY DEF SecretInv
<1> QED
    BY <1>3, <1>4 DEF SecretInv, CodesOnly

(* No row is saved, and a worker that calls the provider has the row it had. *)
LEMMA SecretFrame ==
    ASSUME SecretInv, rows' = rows,
           \A w \in Calling' : w \in Calling /\ worker'[w].msg = worker[w].msg
                                             /\ worker'[w].row = worker[w].row
    PROVE  SecretInv'
BY DEF SecretInv, CodesOnly

(* A new row holds a secret only if it is a code, and waits. *)
LEMMA SecretEnqueue ==
    ASSUME IndInv, SecretInv, NEW m \in Message, Enqueue(m)
    PROVE  SecretInv'
<1> DEFINE r == [NoRow EXCEPT !.status = "PENDING", !.secret = m \in Sensitive]
<1>1. r.status = "PENDING" /\ (r.secret = TRUE => m \in Sensitive)
    BY DEF NoRow
<1>2. rows' = [rows EXCEPT ![m] = r] /\ worker' = worker
    BY DEF Enqueue
<1> HIDE DEF r
<1>3. rows \in [Message -> Row]
    BY DEF IndInv, TypeOK
<1>4. rows'[m] = r /\ \A x \in Message \ {m} : rows'[x] = rows[x]
    BY <1>2, <1>3
<1>5. \A x \in Message : CodesOnly(x, rows'[x]) /\ (rows'[x].status \in Final => rows'[x].secret = FALSE)
    BY <1>1, <1>4 DEF SecretInv, CodesOnly, Final
<1>6. \A w \in Calling' : CodesOnly(worker'[w].msg, worker'[w].row)
    BY <1>2 DEF SecretInv, Calling
<1> QED
    BY <1>5, <1>6 DEF SecretInv, CodesOnly

(* The row of a message that a worker takes up holds what it held. *)
LEMMA SendingSecret ==
    ASSUME IndInv, SecretInv, NEW m \in Message, NEW used \in Nat
    PROVE  CodesOnly(m, Sending(m, used)) /\ Sending(m, used).status = "SENDING"
<1>1. rows[m] \in Row /\ CodesOnly(m, rows[m])
    BY DEF IndInv, TypeOK, SecretInv
<1>2. Sending(m, used).status = "SENDING"
    BY <1>1, SendingRow
<1>3. Sending(m, used).secret = rows[m].secret
    BY <1>1 DEF Sending, Row
<1> QED
    BY <1>1, <1>2, <1>3 DEF CodesOnly

(* A claim fails the row and forgets, delivers what is no code, or goes on. *)
LEMMA SecretClaim ==
    ASSUME IndInv, SecretInv, NEW m \in Message, Claim(m)
    PROVE  SecretInv'
<1>h. rows[m] \in Row /\ CodesOnly(m, rows[m]) /\ worker \in [Worker -> Local]
    BY DEF IndInv, TypeOK, SecretInv
<1>1. ASSUME NEW w \in Worker, ClaimUnreachable(w, m) PROVE SecretInv'
    <2> DEFINE q == [rows[m] EXCEPT !.status = "FAILED"]
    <2>1. q \in Row /\ CodesOnly(m, q)
        BY <1>h DEF Row, Status, Final, CodesOnly
    <2> HIDE DEF q
    <2>2. Forgotten(m, q).secret = FALSE
        BY <2>1, ForgottenSecret
    <2>3. SaveRow(m, Forgotten(m, q)) /\ worker' = worker
        BY <1>1 DEF ClaimUnreachable, q
    <2> QED
        BY <2>2, <2>3, SecretSave DEF CodesOnly, Calling
<1>2. ASSUME NEW w \in Worker, ClaimInApp(w, m) PROVE SecretInv'
    <2> DEFINE q == [rows[m] EXCEPT !.status = "SENT", !.attempts = @ + 1]
    <2>1. q.secret = rows[m].secret
        BY <1>h DEF Row
    <2>2. rows[m].secret = FALSE
        BY <1>2, <1>h, DispatchAssumption DEF ClaimInApp, CodesOnly, Row
    <2>3. SaveRow(m, q) /\ worker' = worker
        BY <1>2 DEF ClaimInApp
    <2> HIDE DEF q
    <2> QED
        BY <2>1, <2>2, <2>3, SecretSave DEF CodesOnly, Calling
<1>3. ASSUME NEW w \in Worker, ClaimFree(w, m) PROVE SecretInv'
    <2> DEFINE r == Sending(m, 0)
               l == [Idle EXCEPT !.pc = "send", !.msg = m, !.row = r]
    <2>1. CodesOnly(m, r) /\ r.status = "SENDING"
        BY SendingSecret
    <2>2. SaveRow(m, r) /\ worker' = [worker EXCEPT ![w] = l]
        BY <1>3 DEF ClaimFree
    <2> HIDE DEF r
    <2>3. l.msg = m /\ l.row = r
        BY DEF Idle
    <2> HIDE DEF l
    <2>4. \A v \in Calling' : \/ v \in Calling /\ worker'[v] = worker[v]
                              \/ worker'[v].msg = m /\ worker'[v].row = r
        BY <1>h, <2>2, <2>3 DEF Calling
    <2>5. r.status \notin Final
        BY <2>1 DEF Final
    <2> QED
        BY <2>1, <2>2, <2>4, <2>5, SecretSave
<1>4. ASSUME NEW w \in Worker, NEW credits \in Costs, ClaimSms(w, m, credits) PROVE SecretInv'
    <2>1. rows' = rows /\ worker' = [worker EXCEPT ![w] = [Idle EXCEPT !.pc = "lockCredits", !.msg = m,
                                                                      !.cost = credits]]
        BY <1>4 DEF ClaimSms
    <2>2. worker'[w].pc = "lockCredits" /\ \A v \in Worker \ {w} : worker'[v] = worker[v]
        BY <1>h, <2>1 DEF Idle
    <2> QED
        BY <2>1, <2>2, SecretFrame DEF Calling
<1> QED
    BY <1>1, <1>2, <1>3, <1>4 DEF Claim

(* A charge sends the row as it was, or stops it; it is an organisation's, no code. *)
LEMMA SecretCharge ==
    ASSUME IndInv, SecretInv, NEW w \in Worker, Charge(w)
    PROVE  SecretInv'
<1>m. PICK m \in Message : m = worker[w].msg
    BY Held DEF Charge
<1>h. /\ rows[m] \in Row /\ CodesOnly(m, rows[m]) /\ worker[w] \in Local /\ worker \in [Worker -> Local]
      /\ worker[w].cost \in Nat
    BY <1>m, Held, RecordTypes DEF Charge, SecretInv, TypeOK
<1> DEFINE q == [rows[m] EXCEPT !.status = "NO_CREDIT", !.used = 0]
<1>1. q \in Row /\ CodesOnly(m, q)
    BY <1>h DEF Row, Status, Final, CodesOnly
<1>2. Forgotten(m, q).secret = FALSE
    <2> HIDE DEF q
    <2> QED
        BY <1>1, ForgottenSecret
<1>3. /\ CodesOnly(m, Sending(m, worker[w].cost)) /\ Sending(m, worker[w].cost).status = "SENDING"
    BY <1>h, SendingSecret
<1>4. PICK r \in {Sending(m, worker[w].cost), Forgotten(m, q)} :
          /\ SaveRow(m, r)
          /\ worker' = [worker EXCEPT ![w] = IF r.status = "SENDING"
                              THEN [Idle EXCEPT !.pc = "send", !.msg = m, !.row = r] ELSE Idle]
    BY <1>m DEF Charge
<1> HIDE DEF q
<1>5. CodesOnly(m, r) /\ (r.status \in Final => r.secret = FALSE)
    BY <1>2, <1>3, <1>4 DEF CodesOnly, Final
<1>6. /\ LET l == [Idle EXCEPT !.pc = "send", !.msg = m, !.row = r] IN l.msg = m /\ l.row = r
      /\ Idle.pc = "idle"
    BY DEF Idle
<1>7. \A v \in Calling' : \/ v \in Calling /\ worker'[v] = worker[v]
                          \/ worker'[v].msg = m /\ worker'[v].row = r
    BY <1>h, <1>4, <1>6 DEF Calling
<1> QED
    BY <1>4, <1>5, <1>7, SecretSave

(* A worker that is done forgets what it settles, and keeps what it tries again. *)
LEMMA SecretFinish ==
    ASSUME IndInv, SecretInv, NEW w \in Worker, FinishSent(w) \/ FinishRetry(w) \/ FinishFailed(w)
    PROVE  SecretInv'
<1>m. PICK m \in Message : m = worker[w].msg
    BY Held DEF FinishSent, FinishRetry, FinishFailed
<1>h. /\ worker[w].row \in Row /\ worker \in [Worker -> Local] /\ CodesOnly(m, worker[w].row)
      /\ worker' = [worker EXCEPT ![w] = Idle]
    BY <1>m, Held, RecordTypes DEF FinishSent, FinishRetry, FinishFailed, SecretInv, TypeOK, Calling
<1>1. \A v \in Calling' : v \in Calling /\ worker'[v] = worker[v]
    BY <1>h, RecordTypes DEF Calling
<1>2. CASE FinishRetry(w)
    <2> DEFINE r == [worker[w].row EXCEPT !.status = "PENDING"]
    <2>1. r.status = "PENDING" /\ CodesOnly(m, r)
        BY <1>h DEF Row, CodesOnly
    <2>2. SaveRow(m, r)
        BY <1>m, <1>2 DEF FinishRetry
    <2> HIDE DEF r
    <2> QED
        BY <1>1, <2>1, <2>2, SecretSave DEF Final
<1>3. CASE FinishSent(w)
    <2> DEFINE q == [worker[w].row EXCEPT !.status = "SENT"]
    <2>1. q \in Row /\ CodesOnly(m, q)
        BY <1>h DEF Row, Status, Final, CodesOnly
    <2>2. SaveRow(m, Forgotten(m, q))
        BY <1>m, <1>3 DEF FinishSent
    <2> HIDE DEF q
    <2> QED
        BY <1>1, <2>1, <2>2, ForgottenSecret, SecretSave DEF CodesOnly
<1>4. CASE FinishFailed(w)
    <2> DEFINE q == [worker[w].row EXCEPT !.status = "FAILED", !.used = 0]
    <2>1. q \in Row /\ CodesOnly(m, q)
        BY <1>h DEF Row, Status, Final, CodesOnly
    <2>2. SaveRow(m, Forgotten(m, q))
        BY <1>m, <1>4 DEF FinishFailed
    <2> HIDE DEF q
    <2> QED
        BY <1>1, <2>1, <2>2, ForgottenSecret, SecretSave DEF CodesOnly
<1> QED
    BY <1>2, <1>3, <1>4

(* A worker that takes the lock, hears from the provider or dies saves nothing. *)
LEMMA SecretKept ==
    ASSUME IndInv, SecretInv, NEW w \in Worker, LockCredits(w) \/ Send(w) \/ Fail(w)
    PROVE  SecretInv'
<1>h. worker \in [Worker -> Local] /\ worker[w] \in Local
    BY DEF IndInv, TypeOK
<1>1. CASE LockCredits(w)
    <2> DEFINE l == [worker[w] EXCEPT !.pc = "charge", !.balance = Granted(ledger, month)]
    <2>1. l.pc = "charge" /\ worker' = [worker EXCEPT ![w] = l] /\ rows' = rows
        BY <1>1, <1>h DEF LockCredits, Local
    <2> HIDE DEF l
    <2> QED
        BY <1>h, <2>1, SecretFrame DEF Calling
<1>2. CASE Send(w)
    <2>1. PICK ok \in BOOLEAN : worker' = [worker EXCEPT ![w].pc = "finish", ![w].ok = ok]
        BY <1>2 DEF Send
    <2> DEFINE l == [worker[w] EXCEPT !.pc = "finish", !.ok = ok]
    <2>2. l.msg = worker[w].msg /\ l.row = worker[w].row /\ worker' = [worker EXCEPT ![w] = l]
        BY <2>1, <1>h DEF Local
    <2>3. w \in Calling /\ rows' = rows
        BY <1>2 DEF Send, Calling
    <2> HIDE DEF l
    <2> QED
        BY <1>h, <2>2, <2>3, SecretFrame DEF Calling
<1>3. CASE Fail(w)
    BY <1>h, <1>3, RecordTypes, SecretFrame DEF Fail, Calling
<1> QED
    BY <1>1, <1>2, <1>3

(* A sweep that gives up no code settles rows that hold no secret. *)
LEMMA SecretSweep ==
    ASSUME IndInv, SecretInv, SweepStale, ~CodeGivenUp
    PROVE  SecretInv'
<1>1. worker' = worker /\ rows \in [Message -> Row]
    BY DEF SweepStale, IndInv, TypeOK
<1>2. ASSUME NEW m \in Message
      PROVE  CodesOnly(m, rows'[m]) /\ (rows'[m].status \in Final => rows'[m].secret = FALSE)
    <2>1. /\ rows[m] \in Row /\ CodesOnly(m, rows[m])
          /\ rows[m].status \in Final => rows[m].secret = FALSE
        BY <1>1 DEF SecretInv
    <2>2. rows'[m] = IF m \in Stale THEN [rows[m] EXCEPT !.status = "FAILED"] ELSE rows[m]
        BY DEF SweepStale
    <2>3. [rows[m] EXCEPT !.status = "FAILED"].secret = rows[m].secret
        BY <2>1 DEF Row
    <2>4. m \in Stale => rows[m].secret = FALSE
        BY <2>1 DEF CodeGivenUp, CodesOnly, Row
    <2> QED
        BY <2>1, <2>2, <2>3, <2>4 DEF CodesOnly
<1>3. \A w \in Calling' : CodesOnly(worker'[w].msg, worker'[w].row)
    BY <1>1 DEF SecretInv, Calling
<1> QED
    BY <1>2, <1>3 DEF SecretInv, CodesOnly

(* Every step but a sweep that gives up a code keeps secrets where they are needed. *)
LEMMA SecretStep == IndInv /\ SecretInv /\ [Next]_vars /\ [~CodeGivenUp]_vars => SecretInv'
<1> SUFFICES ASSUME IndInv, SecretInv, [Next]_vars, [~CodeGivenUp]_vars PROVE SecretInv'
    OBVIOUS
<1>1. ASSUME NEW m \in Message, Enqueue(m) \/ Claim(m) PROVE SecretInv'
    BY <1>1, SecretEnqueue, SecretClaim
<1>2. ASSUME NEW w \in Worker, WorkerStep(w) \/ Fail(w) PROVE SecretInv'
    BY <1>2, SecretCharge, SecretFinish, SecretKept DEF WorkerStep
<1>3. CASE Tick \/ Credits \/ UNCHANGED vars
    BY <1>3, SecretFrame DEF Tick, Credits, vars, outboxVars, Calling
<1>4. CASE SweepStale
    <2>1. CASE vars' = vars
        BY <2>1, SecretFrame DEF vars, outboxVars, Calling
    <2>2. CASE vars' # vars
        BY <1>4, <2>2, SecretSweep
    <2> QED
        BY <2>1, <2>2
<1> QED
    BY <1>1, <1>2, <1>3, <1>4 DEF Next

(* A settled row holds no code, unless the sweep gave it up: delivery, failure
   after the last attempt, want of an address and want of credits all forget it. *)
THEOREM SecretsForgottenOtherwise == Spec /\ [][~CodeGivenUp]_vars => []SecretsForgotten
<1>1. Init => SecretInv
    BY DEF Init, SecretInv, CodesOnly, NoRow, Idle, Calling, Final
<1>2. SecretInv => SecretsForgotten
    BY DEF SecretInv, SecretsForgotten
<1> QED
    BY <1>1, <1>2, SecretStep, Inductive, PTL DEF Spec
=============================================================================
