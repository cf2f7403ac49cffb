--------------------------- MODULE DeliveryProofs ---------------------------
(***************************************************************************)
(* What the outbox delivers, proved from the invariant of                  *)
(* NotificationProofs: no message goes out twice when the provider's       *)
(* answers arrive, and, when no living worker is slower than the sweep,    *)
(* the dispatcher implements DeliveryPromise.                              *)
(***************************************************************************)
EXTENDS NotificationProofs

-----------------------------------------------------------------------------
(* Once. *)

(* What SentInv says of one message and one worker. *)
SentOnce(m) ==
    /\ accepted[m] <= 1
    /\ rows[m].status \in {"NONE", "PENDING"} => accepted[m] = 0
    /\ \A w \in Worker : worker[w].msg = m /\ ~worker[w].ok => accepted[m] = 0

(* SentInv, sorted by workers and messages. *)
LEMMA SentParts ==
    SentInv <=> /\ \A w \in Worker : worker[w].ok => worker[w].pc = "finish"
                /\ \A m \in Message : SentOnce(m)
BY DEF SentInv, SentOnce

(* A step that accepts nothing: a row it puts back to PENDING, and a message it
   takes up, has not been accepted. *)
LEMMA SentFrame ==
    ASSUME SentInv, UNCHANGED accepted,
           \A w \in Worker :
              \/ worker'[w].msg = worker[w].msg /\ worker'[w].ok = worker[w].ok
              \/ worker'[w].msg \in Message => accepted[worker'[w].msg] = 0,
           \A w \in Worker : worker'[w].ok => worker'[w].pc = "finish",
           \A m \in Message :
              rows'[m].status \in {"NONE", "PENDING"} =>
                 rows[m].status \in {"NONE", "PENDING"} \/ accepted[m] = 0
    PROVE  SentInv'
<1>1. ASSUME NEW m \in Message PROVE SentOnce(m)'
    BY <1>1 DEF SentInv, SentOnce
<1> QED
    BY <1>1 DEF SentInv, SentOnce

(* A claimed message has not been accepted by the provider. *)
LEMMA SentClaims ==
    ASSUME IndInv, SentInv, NEW m \in Message, Claim(m)
    PROVE  SentInv'
<1>t. TypeOK /\ rows[m].status = "PENDING" /\ rows[m] \in Row /\ accepted[m] = 0 /\ Idle.ok = FALSE
    BY DEF IndInv, TypeOK, Claim, ClaimUnreachable, ClaimInApp, ClaimFree, ClaimSms, Due, SentInv, Idle
<1>p. PICK w \in Worker :
        \/ ClaimUnreachable(w, m) \/ ClaimInApp(w, m) \/ ClaimFree(w, m)
        \/ \E credits \in Costs : ClaimSms(w, m, credits)
    BY DEF Claim
<1>1. CASE ClaimUnreachable(w, m)
    BY <1>1, <1>t, SentFrame DEF ClaimUnreachable, SaveRow, SentInv, TypeOK
<1>2. CASE ClaimInApp(w, m)
    <2>1. /\ \A x \in Message \ {m} : accepted'[x] = accepted[x] /\ rows'[x] = rows[x]
          /\ accepted'[m] = 1 /\ UNCHANGED worker /\ rows'[m].status = "SENT"
        <3>1. ASSUME NEW n \in Nat PROVE [rows[m] EXCEPT !.status = "SENT", !.attempts = n].status = "SENT"
            BY <1>t, <3>1 DEF Row
        <3>2. rows[m].attempts + 1 \in Nat
            BY <1>t, RecordTypes
        <3>3. rows'[m] = [rows[m] EXCEPT !.status = "SENT", !.attempts = @ + 1]
            BY <1>2, <1>t DEF ClaimInApp, SaveRow, TypeOK
        <3> QED
            BY <1>2, <1>t, <3>1, <3>2, <3>3 DEF ClaimInApp, SaveRow, TypeOK
    <2>2. \A v \in Worker : worker[v].msg # m
        BY <1>2, Unheld DEF ClaimInApp
    <2>3. ASSUME NEW x \in Message PROVE SentOnce(x)'
        BY <2>1, <2>2, <2>3 DEF SentInv, SentOnce
    <2> QED
        BY <2>1, <2>3 DEF SentInv, SentOnce
<1>3. CASE ClaimFree(w, m)
    <2> DEFINE r == Sending(m, 0)
               l == [Idle EXCEPT !.pc = "send", !.msg = m, !.row = r]
    <2>1. r \in Row /\ r.status = "SENDING"
        BY <1>t, SendingRow
    <2> HIDE DEF r
    <2>2. l.msg = m /\ l.ok = FALSE
        BY DEF Idle
    <2> HIDE DEF l
    <2>3. /\ UNCHANGED accepted /\ worker'[w] = l
          /\ \A v \in Worker \ {w} : worker'[v] = worker[v]
          /\ rows'[m] = r /\ \A x \in Message \ {m} : rows'[x] = rows[x]
        BY <1>3, <1>t DEF ClaimFree, SaveRow, TypeOK, l, r
    <2> QED
        BY <1>t, <2>1, <2>2, <2>3, SentFrame DEF SentInv
<1>4. CASE \E credits \in Costs : ClaimSms(w, m, credits)
    <2>1. PICK credits \in Costs : ClaimSms(w, m, credits)
        BY <1>4
    <2> DEFINE l == [Idle EXCEPT !.pc = "lockCredits", !.msg = m, !.cost = credits]
    <2>2. l.msg = m /\ l.ok = FALSE
        BY DEF Idle
    <2> HIDE DEF l
    <2>3. /\ UNCHANGED <<accepted, rows>> /\ worker'[w] = l
          /\ \A v \in Worker \ {w} : worker'[v] = worker[v]
        BY <2>1, <1>t DEF ClaimSms, TypeOK, l
    <2> QED
        BY <1>t, <2>2, <2>3, SentFrame DEF SentInv
<1> QED
    BY <1>p, <1>1, <1>2, <1>3, <1>4

(* A provider that loses no answer accepts a message that was not accepted before. *)
LEMMA SentSend ==
    ASSUME IndInv, SentInv, ~LossyProvider, NEW w \in Worker, Send(w)
    PROVE  SentInv'
<1>m. PICK m \in Message : m = worker[w].msg
    BY Held DEF Send
<1>h. /\ TypeOK /\ worker[w] \in Local /\ \A v \in Worker \ {w} : worker[v].msg # m
      /\ worker[w].pc = "send" /\ ~worker[w].ok /\ accepted[m] = 0
      /\ rows[m].status \notin {"NONE", "PENDING"}
    BY <1>m, Held DEF Send, SentInv, Holds
<1>n. PICK ok \in BOOLEAN :
          /\ accepted' = IF ok THEN [accepted EXCEPT ![m] = @ + 1] ELSE accepted
          /\ worker' = [worker EXCEPT ![w].pc = "finish", ![w].ok = ok]
    BY <1>m DEF Send
<1>1. /\ worker'[w].pc = "finish" /\ worker'[w].ok = ok /\ worker'[w].msg = m
      /\ \A v \in Worker \ {w} : worker'[v] = worker[v]
    BY <1>h, <1>m, <1>n DEF TypeOK, Local
<1>2. /\ accepted'[m] \in {0, 1} /\ (~ok => accepted'[m] = 0)
      /\ \A x \in Message \ {m} : accepted'[x] = accepted[x]
      /\ UNCHANGED rows
    BY <1>h, <1>n DEF TypeOK, Send
<1>3. ASSUME NEW x \in Message PROVE SentOnce(x)'
    <2>1. CASE x = m
        BY <2>1, <1>h, <1>1, <1>2 DEF SentOnce
    <2>2. CASE x # m
        BY <2>2, <1>1, <1>2 DEF SentInv, SentOnce
    <2> QED
        BY <2>1, <2>2
<1>4. \A v \in Worker : worker'[v].ok => worker'[v].pc = "finish"
    BY <1>1 DEF SentInv
<1> QED
    BY <1>3, <1>4 DEF SentInv, SentOnce

(* The other steps accept nothing and take up nothing. *)
LEMMA SentRest ==
    ASSUME IndInv, SentInv, NEW w \in Worker,
           \/ LockCredits(w) \/ Charge(w) \/ FinishSent(w) \/ FinishRetry(w)
           \/ FinishFailed(w) \/ Fail(w)
    PROVE  SentInv'
<1>t. /\ TypeOK /\ worker[w] \in Local /\ worker[w].msg \in Message \cup {None}
      /\ None \notin Message /\ Idle.msg = None /\ ~Idle.ok
    BY RecordTypes, DispatchAssumption DEF IndInv, TypeOK, Idle
<1>1. CASE LockCredits(w)
    <2>1. /\ worker'[w].msg = worker[w].msg /\ worker'[w].ok = worker[w].ok
          /\ \A v \in Worker \ {w} : worker'[v] = worker[v]
          /\ UNCHANGED <<accepted, rows>> /\ worker[w].pc = "lockCredits"
        BY <1>1, <1>t DEF LockCredits, TypeOK, Local
    <2> QED
        BY <1>t, <2>1, SentFrame DEF SentInv
<1>2. CASE Charge(w)
    <2>m. PICK m \in Message : m = worker[w].msg
        BY <1>2, Held DEF Charge
    <2>1. /\ UNCHANGED accepted /\ worker[w].pc = "charge" /\ accepted[m] = 0
          /\ \A v \in Worker \ {w} : worker'[v] = worker[v]
          /\ \A x \in Message \ {m} : rows'[x] = rows[x]
        BY <1>2, <1>t, <2>m DEF Charge, SaveRow, TypeOK, SentInv
    <2>2. \/ worker'[w] = Idle
          \/ \E row : worker'[w] = [Idle EXCEPT !.pc = "send", !.msg = m, !.row = row]
        BY <1>2, <1>t, <2>m DEF Charge, TypeOK
    <2>3. worker'[w].msg \in {m, None} /\ ~worker'[w].ok
        BY <1>t, <2>2 DEF Idle
    <2> QED
        BY <1>t, <2>1, <2>3, SentFrame DEF SentInv
<1>3. CASE FinishSent(w) \/ FinishRetry(w) \/ FinishFailed(w)
    <2>m. PICK m \in Message : m = worker[w].msg
        BY <1>3, Held DEF FinishSent, FinishRetry, FinishFailed
    <2>1. /\ UNCHANGED accepted /\ worker'[w] = Idle
          /\ \A v \in Worker \ {w} : worker'[v] = worker[v]
          /\ \A x \in Message \ {m} : rows'[x] = rows[x]
        BY <1>3, <1>t, <2>m DEF FinishSent, FinishRetry, FinishFailed, SaveRow, TypeOK
    <2>2. CASE FinishRetry(w)
        <3>1. accepted[m] = 0
            BY <2>2, <2>m DEF FinishRetry, SentInv
        <3> QED
            BY <1>t, <2>1, <3>1, SentFrame DEF SentInv
    <2>3. CASE FinishSent(w) \/ FinishFailed(w)
        <3> DEFINE sent == [worker[w].row EXCEPT !.status = "SENT"]
                   failed == [worker[w].row EXCEPT !.status = "FAILED", !.used = 0]
        <3>1. /\ worker[w].row \in Row /\ rows \in [Message -> Row]
              /\ sent \in Row /\ sent.status = "SENT" /\ failed \in Row /\ failed.status = "FAILED"
            BY <1>t, RecordTypes DEF TypeOK, Row, Status, Final
        <3>2. rows'[m] = Forgotten(m, sent) \/ rows'[m] = Forgotten(m, failed)
            BY <2>3, <2>m, <3>1 DEF FinishSent, FinishFailed, SaveRow
        <3> HIDE DEF sent, failed
        <3>3. rows'[m].status \in {"SENT", "FAILED"}
            BY <3>1, <3>2, ForgottenRow
        <3> QED
            BY <1>t, <2>1, <3>3, SentFrame DEF SentInv
    <2> QED
        BY <1>3, <2>2, <2>3
<1>4. CASE Fail(w)
    <2>1. /\ UNCHANGED <<accepted, rows>> /\ worker'[w] = Idle
          /\ \A v \in Worker \ {w} : worker'[v] = worker[v]
        BY <1>4, <1>t DEF Fail, TypeOK
    <2> QED
        BY <1>t, <2>1, SentFrame DEF SentInv
<1> QED
    BY <1>1, <1>2, <1>3, <1>4

(* If no answer of the provider gets lost, a message goes out at most once. *)
THEOREM SentOnlyOnce == ASSUME ~LossyProvider PROVE Spec => []NeverSentTwice
<1>1. Init => SentInv
    BY RecordTypes, DispatchAssumption DEF Init, SentInv, Idle
<1>2. IndInv /\ SentInv /\ [Next]_vars => SentInv'
    <2> SUFFICES ASSUME IndInv, SentInv, [Next]_vars PROVE SentInv'
        OBVIOUS
    <2>1. ASSUME NEW m \in Message, Enqueue(m) PROVE SentInv'
        <3>1. /\ UNCHANGED <<accepted, worker>> /\ rows[m].status = "NONE"
              /\ \A x \in Message \ {m} : rows'[x] = rows[x]
            BY <2>1 DEF Enqueue, IndInv, TypeOK
        <3> QED
            BY <3>1, SentFrame DEF SentInv
    <2>2. ASSUME NEW w \in Worker, WorkerStep(w) \/ Fail(w) PROVE SentInv'
        BY <2>2, SentSend, SentRest DEF WorkerStep
    <2>3. CASE SweepStale
        <3>1. \A m \in Message :
                 rows'[m] = rows[m] \/ (rows[m].status = "SENDING" /\ rows'[m].status = "FAILED")
            <4> TAKE m \in Message
            <4>1. rows[m] \in Row
                BY DEF IndInv, TypeOK
            <4> DEFINE failed == [rows[m] EXCEPT !.status = "FAILED"]
            <4>2. failed.status = "FAILED"
                BY <4>1 DEF Row
            <4>3. rows'[m] = (IF m \in Stale THEN failed ELSE rows[m])
                BY <2>3 DEF SweepStale
            <4>4. m \in Stale => rows[m].status = "SENDING"
                BY DEF Stale
            <4> HIDE DEF failed
            <4> QED
                BY <4>2, <4>3, <4>4
        <3> QED
            BY <2>3, <3>1, SentFrame DEF SweepStale, SentInv
    <2>4. CASE Tick \/ Credits \/ UNCHANGED vars
        BY <2>4, SentFrame DEF Tick, Credits, vars, outboxVars, SentInv
    <2> QED
        BY <2>1, <2>2, <2>3, <2>4, SentClaims DEF Next
<1>3. SentInv => NeverSentTwice
    BY DEF SentInv, NeverSentTwice
<1> QED
    BY <1>1, <1>2, <1>3, Inductive, PTL DEF Spec

-----------------------------------------------------------------------------
(* Prompt workers. *)

(* A step of w on message m, or of nobody, keeps PromptInv if w does. *)
LEMMA PromptFrame ==
    ASSUME IndInv, PromptInv, NEW w, NEW m,
           \A u \in Worker \ {w} : worker'[u] = worker[u] /\ worker[u].msg # m,
           \A x \in Message \ {m} : rows'[x] = rows[x] /\ age'[x] = age[x],
           w \in Worker /\ worker'[w].pc \in {"send", "finish"} =>
              rows'[worker'[w].msg].status = "SENDING" /\ age'[worker'[w].msg] <= StaleAfter
    PROVE  PromptInv'
<1> SUFFICES ASSUME NEW u \in Worker, worker'[u].pc \in {"send", "finish"}
             PROVE  rows'[worker'[u].msg].status = "SENDING" /\ age'[worker'[u].msg] <= StaleAfter
    BY DEF PromptInv, Calling
<1>1. CASE u = w
    BY <1>1
<1>2. CASE u # w
    <2>1. worker'[u] = worker[u] /\ worker[u].msg \in Message \ {m}
        BY <1>2, Held
    <2> QED
        BY <1>2, <2>1 DEF PromptInv, Calling
<1> QED
    BY <1>1, <1>2

(* A message that is taken up now is not stale. *)
LEMMA PromptClaim ==
    ASSUME IndInv, PromptInv, NEW m \in Message, Claim(m)
    PROVE  PromptInv'
<1>t. /\ TypeOK /\ \A v \in Worker : worker[v].msg # m
      /\ rows[m] \in Row /\ 0 <= StaleAfter
    <2>1. Due(m)
        BY DEF Claim, ClaimUnreachable, ClaimInApp, ClaimFree, ClaimSms
    <2> QED
        BY <2>1, Unheld, DispatchAssumption DEF IndInv, TypeOK
<1>p. PICK w \in Worker :
        \/ ClaimUnreachable(w, m) \/ ClaimInApp(w, m) \/ ClaimFree(w, m)
        \/ \E credits \in Costs : ClaimSms(w, m, credits)
    BY DEF Claim
<1>1. CASE ClaimUnreachable(w, m) \/ ClaimInApp(w, m)
    <2>1. /\ UNCHANGED worker /\ worker[w].pc = "idle"
          /\ \A x \in Message \ {m} : rows'[x] = rows[x] /\ age'[x] = age[x]
        BY <1>1, <1>t, RecordTypes DEF ClaimUnreachable, ClaimInApp, SaveRow, TypeOK
    <2> QED
        BY <1>t, <2>1, PromptFrame
<1>2. CASE ClaimFree(w, m)
    <2> DEFINE r == Sending(m, 0)
               l == [Idle EXCEPT !.pc = "send", !.msg = m, !.row = r]
    <2>1. r.status = "SENDING" /\ l.msg = m
        BY <1>t, SendingRow DEF Idle
    <2>2. /\ worker'[w] = l /\ \A v \in Worker \ {w} : worker'[v] = worker[v]
          /\ rows'[m] = r /\ age'[m] = 0
          /\ \A x \in Message \ {m} : rows'[x] = rows[x] /\ age'[x] = age[x]
        <3> HIDE DEF r
        <3>1. worker' = [worker EXCEPT ![w] = l] /\ SaveRow(m, r)
            BY <1>2 DEF ClaimFree, r
        <3> HIDE DEF l
        <3> QED
            BY <1>t, <3>1 DEF SaveRow, TypeOK
    <2> HIDE DEF r, l
    <2>3. rows'[worker'[w].msg].status = "SENDING" /\ age'[worker'[w].msg] <= StaleAfter
        BY <1>t, <2>1, <2>2
    <2> QED
        BY <1>t, <2>2, <2>3, PromptFrame
<1>3. CASE \E credits \in Costs : ClaimSms(w, m, credits)
    <2>1. PICK credits \in Costs : ClaimSms(w, m, credits)
        BY <1>3
    <2> DEFINE l == [Idle EXCEPT !.pc = "lockCredits", !.msg = m, !.cost = credits]
    <2>2. l.pc = "lockCredits"
        BY DEF Idle
    <2> HIDE DEF l
    <2>3. /\ UNCHANGED <<rows, age>> /\ worker'[w] = l
          /\ \A v \in Worker \ {w} : worker'[v] = worker[v]
        BY <2>1, <1>t DEF ClaimSms, TypeOK, l
    <2> QED
        BY <1>t, <2>2, <2>3, PromptFrame
<1> QED
    BY <1>p, <1>1, <1>2, <1>3

(* A worker goes on with its message before that is stale, or lets go of it. *)
LEMMA PromptWork ==
    ASSUME IndInv, PromptInv, NEW w \in Worker, WorkerStep(w) \/ Fail(w)
    PROVE  PromptInv'
<1>t. /\ TypeOK /\ worker[w] \in Local /\ Idle.pc = "idle" /\ 0 <= StaleAfter
    BY RecordTypes, DispatchAssumption DEF IndInv, TypeOK
<1>1. CASE LockCredits(w)
    <2>1. /\ worker'[w].pc = "charge" /\ UNCHANGED <<rows, age>>
          /\ \A v \in Worker \ {w} : worker'[v] = worker[v]
        BY <1>1, <1>t DEF LockCredits, TypeOK, Local
    <2>2. PICK m \in Message : \A v \in Worker \ {w} : worker[v].msg # m
        BY <1>1, Held DEF LockCredits
    <2> QED
        BY <2>1, <2>2, PromptFrame
<1>2. CASE Charge(w)
    <2>m. PICK m \in Message : m = worker[w].msg
        BY <1>2, Held DEF Charge
    <2>1. /\ \A v \in Worker \ {w} : worker'[v] = worker[v] /\ worker[v].msg # m
          /\ \A x \in Message \ {m} : rows'[x] = rows[x] /\ age'[x] = age[x]
          /\ age'[m] = 0
        BY <1>2, <1>t, <2>m, Held DEF Charge, SaveRow, TypeOK
    <2>2. PICK r : /\ rows'[m] = r
                   /\ worker'[w] = IF r.status = "SENDING"
                                   THEN [Idle EXCEPT !.pc = "send", !.msg = m, !.row = r] ELSE Idle
        BY <1>2, <1>t, <2>m DEF Charge, SaveRow, TypeOK
    <2>3. worker'[w].pc # "idle" => r.status = "SENDING" /\ worker'[w].msg = m
        BY <1>t, <2>2 DEF Idle
    <2>4. worker'[w].pc # "idle" =>
             rows'[worker'[w].msg].status = "SENDING" /\ age'[worker'[w].msg] <= StaleAfter
        BY <1>t, <2>1, <2>2, <2>3
    <2> QED
        BY <2>1, <2>4, PromptFrame
<1>3. CASE Send(w)
    <2>m. PICK m \in Message : m = worker[w].msg
        BY <1>3, Held DEF Send
    <2>1. /\ worker'[w].msg = m /\ UNCHANGED <<rows, age>> /\ worker[w].pc = "send"
          /\ \A v \in Worker \ {w} : worker'[v] = worker[v] /\ worker[v].msg # m
        BY <1>3, <1>t, <2>m, Held DEF Send, TypeOK, Local
    <2> QED
        BY <2>1, <2>m, PromptFrame DEF PromptInv, Calling
<1>4. CASE FinishSent(w) \/ FinishRetry(w) \/ FinishFailed(w)
    <2>m. PICK m \in Message : m = worker[w].msg
        BY <1>4, Held DEF FinishSent, FinishRetry, FinishFailed
    <2>1. \A v \in Worker \ {w} : worker[v].msg # m
        BY <1>4, <2>m, Held DEF FinishSent, FinishRetry, FinishFailed
    <2>2. /\ worker'[w] = Idle /\ \A v \in Worker \ {w} : worker'[v] = worker[v]
          /\ \A x \in Message \ {m} : rows'[x] = rows[x] /\ age'[x] = age[x]
        BY <1>4, <1>t, <2>m DEF FinishSent, FinishRetry, FinishFailed, SaveRow, TypeOK
    <2> QED
        BY <1>t, <2>1, <2>2, PromptFrame
<1>5. CASE Fail(w)
    <2>1. /\ worker'[w] = Idle /\ UNCHANGED <<rows, age>>
          /\ \A v \in Worker \ {w} : worker'[v] = worker[v]
        BY <1>5, <1>t DEF Fail, TypeOK
    <2>2. PromptInv'
        BY <1>t, <2>1 DEF PromptInv, Calling
    <2> QED
        BY <2>2
<1> QED
    BY <1>1, <1>2, <1>3, <1>4, <1>5 DEF WorkerStep

(* The clock waits for prompt workers, and the sweep takes only stale rows. *)
LEMMA PromptRest ==
    ASSUME PromptWorkers, IndInv, PromptInv, SweepStale \/ Tick \/ Credits \/ UNCHANGED vars
    PROVE  PromptInv'
<1>t. TypeOK /\ StaleAfter \in Nat /\ \A w \in Calling : worker[w].msg \in Message
    BY Held, DispatchAssumption DEF IndInv, Calling
<1>1. CASE SweepStale
    <2>1. \A w \in Calling : worker[w].msg \notin Stale
        BY <1>t DEF PromptInv, Stale, TypeOK
    <2>2. \A x \in Message \ Stale : rows'[x] = rows[x] /\ age'[x] = age[x]
        BY <1>1 DEF SweepStale
    <2> QED
        BY <1>1, <1>t, <2>1, <2>2 DEF PromptInv, Calling, SweepStale
<1>2. CASE Tick
    <2>1. UNCHANGED <<rows, worker>> /\ \A w \in Calling : age[worker[w].msg] < StaleAfter
        BY <1>2 DEF Tick
    <2>2. \A m \in Message : age'[m] <= age[m] + 1 /\ age[m] \in Nat
        BY <1>2, <1>t DEF Tick, TypeOK
    <2>3. Calling' = Calling
        BY <2>1 DEF Calling
    <2>4. ASSUME NEW w \in Calling
          PROVE  rows'[worker'[w].msg].status = "SENDING" /\ age'[worker'[w].msg] <= StaleAfter
        <3>m. PICK m \in Message : m = worker[w].msg
            BY <1>t
        <3>1. age'[m] \in Nat
            BY <1>2, <1>t DEF Tick, TypeOK
        <3>2. age'[m] <= StaleAfter
            BY <1>t, <2>1, <2>2, <3>m, <3>1
        <3> QED
            BY <2>1, <3>m, <3>2 DEF PromptInv
    <2> QED
        BY <2>3, <2>4 DEF PromptInv
<1>3. CASE Credits \/ UNCHANGED vars
    BY <1>3 DEF Credits, vars, outboxVars, PromptInv, Calling
<1> QED
    BY <1>1, <1>2, <1>3

(* With prompt workers, nothing that a worker has at the provider is stale. *)
LEMMA PromptStep ==
    ASSUME PromptWorkers, IndInv, PromptInv, [Next]_vars
    PROVE  PromptInv'
<1>1. ASSUME NEW m \in Message, Enqueue(m) PROVE PromptInv'
    <2>1. /\ \A v \in Worker : worker[v].msg # m
          /\ UNCHANGED <<worker, age>> /\ \A x \in Message \ {m} : rows'[x] = rows[x]
        BY <1>1, Unheld DEF Enqueue, IndInv, TypeOK
    <2>2. None \notin Worker
        BY DispatchAssumption
    <2> QED
        BY <2>1, <2>2, PromptFrame
<1> QED
    BY <1>1, PromptClaim, PromptWork, PromptRest DEF Next

-----------------------------------------------------------------------------
(* The dispatcher implements DeliveryPromise. *)

(* The refinement mapping, message by message. *)
PhaseOf(m) == IF rows[m].status \in {"PENDING", "SENDING"} THEN "waiting" ELSE rows[m].status
CreditOf(m) == IF ~IsCharged(m) THEN "none" ELSE IF m \in refunded THEN "returned" ELSE "taken"
Phases == [m \in Message |-> PhaseOf(m)]
Credit == [m \in Message |-> CreditOf(m)]

(* The abstract specification, in the terms of the mapping. *)
LEMMA Mapping ==
    /\ Promise!Next <=>
         \/ /\ \E lost \in SUBSET {m \in Message : Phases[m] = "waiting"} :
                  Phases' = [m \in Message |-> IF m \in lost THEN "FAILED" ELSE Phases[m]]
            /\ UNCHANGED Credit
         \/ \E m \in Message :
              \/ /\ Phases[m] = "NONE" /\ Phases' = [Phases EXCEPT ![m] = "waiting"]
                 /\ UNCHANGED Credit
              \/ /\ m \in OrgSms /\ Phases[m] = "waiting" /\ Credit[m] = "none"
                 /\ Credit' = [Credit EXCEPT ![m] = "taken"] /\ UNCHANGED Phases
              \/ /\ Phases[m] = "waiting" /\ Phases' = [Phases EXCEPT ![m] = "SENT"]
                 /\ m \in OrgSms => Credit[m] = "taken"
                 /\ UNCHANGED Credit
              \/ /\ Phases[m] = "waiting" /\ Phases' = [Phases EXCEPT ![m] = "NO_CREDIT"]
                 /\ m \in OrgSms /\ Credit[m] = "none" /\ UNCHANGED Credit
              \/ /\ Phases[m] = "waiting" /\ Phases' = [Phases EXCEPT ![m] = "FAILED"]
                 /\ Credit' = [Credit EXCEPT ![m] = IF @ = "taken" THEN "returned" ELSE @]
    /\ Promise!Init <=> Phases = [m \in Message |-> "NONE"] /\ Credit = [m \in Message |-> "none"]
BY DEF Promise!Next, Promise!GiveUp, Promise!Queue, Promise!Pay, Promise!Deliver, Promise!Stop,
   Promise!Fail, Promise!Settle, Promise!Init, Phases, Credit, PhaseOf, CreditOf

(* What a step on message m may do. *)
Moves(m) ==
    LET p == PhaseOf(m)
        q == PhaseOf(m)'
        c == CreditOf(m)
        d == CreditOf(m)'
    IN  \/ q = p /\ d = c
        \/ p = "NONE" /\ q = "waiting" /\ d = c
        \/ p = "waiting" /\ q = p /\ m \in OrgSms /\ c = "none" /\ d = "taken"
        \/ p = "waiting" /\ q = "SENT" /\ d = c /\ (m \in OrgSms => c = "taken")
        \/ p = "waiting" /\ q = "NO_CREDIT" /\ d = c /\ m \in OrgSms /\ c = "none"
        \/ p = "waiting" /\ q = "FAILED" /\ d = IF c = "taken" THEN "returned" ELSE c

(* A step that moves one message as Moves allows is a step of the promise. *)
LEMMA MoveMaps ==
    ASSUME NEW m \in Message, Moves(m),
           \A x \in Message \ {m} : PhaseOf(x)' = PhaseOf(x) /\ CreditOf(x)' = CreditOf(x)
    PROVE  [Promise!Next]_(Promise!vars)
<1>1. /\ \A q : PhaseOf(m)' = q => Phases' = [Phases EXCEPT ![m] = q]
      /\ \A d : CreditOf(m)' = d => Credit' = [Credit EXCEPT ![m] = d]
      /\ PhaseOf(m)' = PhaseOf(m) => UNCHANGED Phases
      /\ CreditOf(m)' = CreditOf(m) => UNCHANGED Credit
      /\ Phases[m] = PhaseOf(m) /\ Credit[m] = CreditOf(m)
    BY DEF Phases, Credit
<1>2. CASE PhaseOf(m)' = PhaseOf(m) /\ CreditOf(m)' = CreditOf(m)
    BY <1>1, <1>2 DEF Promise!vars, Phases, Credit, PhaseOf, CreditOf
<1>3. CASE ~(PhaseOf(m)' = PhaseOf(m) /\ CreditOf(m)' = CreditOf(m))
    BY <1>1, <1>3, Mapping DEF Moves
<1> QED
    BY <1>2, <1>3

(* A message that keeps its charge and its refund keeps its credit. *)
LEMMA Charges ==
    ASSUME NEW m, charged'[m] = charged[m], m \in refunded' <=> m \in refunded
    PROVE  CreditOf(m)' = CreditOf(m)
BY DEF CreditOf, IsCharged

(* A step that charges and refunds nothing, on message m. *)
LEMMA FreeMove ==
    ASSUME NEW m \in Message, UNCHANGED <<charged, refunded>>,
           \A x \in Message \ {m} : rows'[x] = rows[x],
           \/ PhaseOf(m)' = PhaseOf(m)
           \/ PhaseOf(m) = "NONE" /\ PhaseOf(m)' = "waiting"
           \/ /\ PhaseOf(m) = "waiting" /\ PhaseOf(m)' = "SENT"
              /\ m \in OrgSms => CreditOf(m) = "taken"
           \/ PhaseOf(m) = "waiting" /\ PhaseOf(m)' = "FAILED" /\ CreditOf(m) = "none"
    PROVE  [Promise!Next]_(Promise!vars)
<1>1. \A x \in Message : CreditOf(x)' = CreditOf(x)
    BY Charges
<1>2. \A x \in Message \ {m} : PhaseOf(x)' = PhaseOf(x)
    BY DEF PhaseOf
<1>3. Moves(m)
    BY <1>1 DEF Moves
<1> QED
    BY <1>1, <1>2, <1>3, MoveMaps

(* Queuing and claiming: a message appears, fails, or is delivered in the claim. *)
LEMMA MapClaims ==
    ASSUME IndInv, NEW m \in Message, Enqueue(m) \/ Claim(m)
    PROVE  [Promise!Next]_(Promise!vars)
<1>t. TypeOK /\ rows[m] \in Row /\ rows[m].attempts \in Nat /\ MessageInv(m)
    BY Parts, RecordTypes DEF IndInv, TypeOK
<1>1. CASE Enqueue(m)
    <2>1. [NoRow EXCEPT !.status = "PENDING", !.secret = m \in Sensitive].status = "PENDING"
        BY DEF NoRow
    <2>2. /\ PhaseOf(m) = "NONE" /\ PhaseOf(m)' = "waiting" /\ UNCHANGED <<charged, refunded>>
          /\ \A x \in Message \ {m} : rows'[x] = rows[x]
        BY <1>1, <1>t, <2>1 DEF Enqueue, PhaseOf, TypeOK, creditVars
    <2> QED
        BY <2>2, FreeMove
<1>2. ASSUME NEW w \in Worker, ClaimUnreachable(w, m)
      PROVE  [Promise!Next]_(Promise!vars)
    <2> DEFINE q == [rows[m] EXCEPT !.status = "FAILED"]
    <2>1. q \in Row /\ q.status = "FAILED"
        BY <1>t DEF Row, Status, Final
    <2> HIDE DEF q
    <2>2. Forgotten(m, q).status = "FAILED"
        BY <2>1, ForgottenRow
    <2>3. /\ rows'[m] = Forgotten(m, q) /\ \A x \in Message \ {m} : rows'[x] = rows[x]
          /\ UNCHANGED <<charged, refunded>> /\ rows[m].status = "PENDING" /\ rows[m].attempts = 0
        BY <1>2, <1>t DEF ClaimUnreachable, SaveRow, Due, TypeOK, creditVars, q
    <2>4. PhaseOf(m) = "waiting" /\ PhaseOf(m)' = "FAILED" /\ CreditOf(m) = "none"
        BY <1>t, <2>2, <2>3 DEF PhaseOf, CreditOf, MessageInv
    <2> QED
        BY <2>3, <2>4, FreeMove
<1>3. ASSUME NEW w \in Worker, ClaimInApp(w, m)
      PROVE  [Promise!Next]_(Promise!vars)
    <2>1. ASSUME NEW r \in Row, NEW n \in Nat
          PROVE  [r EXCEPT !.status = "SENT", !.attempts = n].status = "SENT"
        BY <2>1 DEF Row
    <2>2. [rows[m] EXCEPT !.status = "SENT", !.attempts = @ + 1].status = "SENT"
        BY <1>t, <2>1
    <2>3. PhaseOf(m) = "waiting" /\ PhaseOf(m)' = "SENT" /\ m \notin OrgSms
        BY <1>3, <1>t, <2>2, DispatchAssumption DEF ClaimInApp, SaveRow, Due, PhaseOf, TypeOK
    <2>4. UNCHANGED <<charged, refunded>> /\ \A x \in Message \ {m} : rows'[x] = rows[x]
        BY <1>3, <1>t DEF ClaimInApp, SaveRow, TypeOK, creditVars
    <2> QED
        BY <2>3, <2>4, FreeMove
<1>4. ASSUME NEW w \in Worker, ClaimFree(w, m)
      PROVE  [Promise!Next]_(Promise!vars)
    <2>1. /\ rows'[m] = Sending(m, 0) /\ \A x \in Message \ {m} : rows'[x] = rows[x]
          /\ UNCHANGED <<charged, refunded>> /\ rows[m].status = "PENDING"
        BY <1>4, <1>t DEF ClaimFree, SaveRow, Due, TypeOK, creditVars
    <2>2. PhaseOf(m)' = PhaseOf(m)
        BY <1>t, <2>1, SendingRow DEF PhaseOf
    <2> QED
        BY <2>1, <2>2, FreeMove
<1>5. ASSUME NEW w \in Worker, NEW credits \in Costs, ClaimSms(w, m, credits)
      PROVE  [Promise!Next]_(Promise!vars)
    BY <1>5, FreeMove DEF ClaimSms, creditVars, PhaseOf
<1> QED
    BY <1>1, <1>2, <1>3, <1>4, <1>5 DEF Claim

(* Charging: the credits are taken, or the message is stopped for want of them. *)
LEMMA MapCharge ==
    ASSUME IndInv, NEW w \in Worker, Charge(w)
    PROVE  [Promise!Next]_(Promise!vars)
<1>m. PICK m \in Message : m = worker[w].msg
    BY Held DEF Charge
<1>h. /\ TypeOK /\ Holds(w) /\ worker[w] \in Local /\ rows[m] \in Row /\ MessageInv(m)
    BY <1>m, Held DEF Charge
<1> DEFINE credits == worker[w].cost
           seen == worker[w].balance
           paying == MustCharge(m) /\ Enough(seen, credits)
           share == IF paying THEN Share(seen, credits) ELSE Nothing
           q == [rows[m] EXCEPT !.status = "NO_CREDIT", !.used = 0]
           row == IF paying \/ ~MustCharge(m) THEN Sending(m, credits) ELSE Forgotten(m, q)
<1>k. /\ m \in OrgSms /\ m \notin refunded /\ rows[m].status = "PENDING"
      /\ credits \in Nat /\ credits > 0 /\ seen \in Ledger
    BY <1>h, <1>m, RecordTypes DEF Charge, Holds, MessageInv
<1>s. Sending(m, credits).status = "SENDING"
    BY <1>h, <1>k, SendingRow
<1>n. Forgotten(m, q).status = "NO_CREDIT"
    <2>1. q \in Row /\ q.status = "NO_CREDIT"
        BY <1>h DEF Row, Status, Final
    <2> HIDE DEF q
    <2> QED
        BY <2>1, ForgottenRow
<1> HIDE DEF q
<1>a. /\ rows'[m] = row /\ \A x \in Message \ {m} : rows'[x] = rows[x]
      /\ charged' = IF paying THEN [charged EXCEPT ![m] = share] ELSE charged
      /\ UNCHANGED refunded
    BY <1>h, <1>m DEF Charge, SaveRow, TypeOK, q
<1>b. paying => share # Nothing
    BY <1>k, ShareOf
<1> HIDE DEF share
<1>2. \A x \in Message \ {m} : PhaseOf(x)' = PhaseOf(x) /\ CreditOf(x)' = CreditOf(x)
    <2>1. \A x \in Message \ {m} : charged'[x] = charged[x]
        BY <1>a, <1>h DEF TypeOK
    <2> QED
        BY <1>a, <2>1 DEF PhaseOf, CreditOf, IsCharged
<1>3. CASE paying
    <2>1. PhaseOf(m) = "waiting" /\ PhaseOf(m)' = "waiting"
        BY <1>3, <1>k, <1>s, <1>a DEF PhaseOf
    <2>2. CreditOf(m) = "none" /\ CreditOf(m)' = "taken"
        BY <1>3, <1>k, <1>h, <1>a, <1>b DEF CreditOf, IsCharged, MustCharge, TypeOK
    <2>3. Moves(m)
        BY <1>k, <2>1, <2>2 DEF Moves
    <2> QED
        BY <1>2, <2>3, MoveMaps
<1>4. CASE ~MustCharge(m)
    <2>1. PhaseOf(m)' = PhaseOf(m) /\ CreditOf(m)' = CreditOf(m)
        BY <1>4, <1>k, <1>s, <1>a, Charges DEF PhaseOf
    <2>2. Moves(m)
        BY <2>1 DEF Moves
    <2> QED
        BY <1>2, <2>2, MoveMaps
<1>5. CASE ~paying /\ MustCharge(m)
    <2>1. PhaseOf(m) = "waiting" /\ PhaseOf(m)' = "NO_CREDIT"
        BY <1>5, <1>k, <1>n, <1>a DEF PhaseOf
    <2>2. CreditOf(m) = "none" /\ CreditOf(m)' = CreditOf(m)
        BY <1>5, <1>a DEF CreditOf, IsCharged, MustCharge
    <2>3. Moves(m)
        BY <1>k, <2>1, <2>2 DEF Moves
    <2> QED
        BY <1>2, <2>3, MoveMaps
<1> QED
    BY <1>3, <1>4, <1>5

(* Finishing: delivered, waiting again, or failed with the credits returned. *)
LEMMA MapFinish ==
    ASSUME IndInv, PromptInv, NEW w \in Worker, FinishSent(w) \/ FinishRetry(w) \/ FinishFailed(w)
    PROVE  [Promise!Next]_(Promise!vars)
<1>m. PICK m \in Message : m = worker[w].msg
    BY Held DEF FinishSent, FinishRetry, FinishFailed
<1> DEFINE sent == [worker[w].row EXCEPT !.status = "SENT"]
           retry == [worker[w].row EXCEPT !.status = "PENDING"]
           failed == [worker[w].row EXCEPT !.status = "FAILED", !.used = 0]
<1>h. TypeOK /\ Holds(w) /\ worker[w].row \in Row /\ MessageInv(m) /\ worker[w].row.used \in Nat
    BY <1>m, Held, RecordTypes DEF FinishSent, FinishRetry, FinishFailed
<1>k. /\ PhaseOf(m) = "waiting"
      /\ (worker[w].row.used > 0) <=> (m \in OrgSms)
      /\ m \in OrgSms => CreditOf(m) = "taken"
      /\ m \notin OrgSms => CreditOf(m) = "none"
    BY <1>h, <1>m DEF FinishSent, FinishRetry, FinishFailed, PromptInv, Calling, Holds, PhaseOf,
       CreditOf, MessageInv
<1>r. /\ sent \in Row /\ sent.status = "SENT" /\ retry.status = "PENDING"
      /\ failed \in Row /\ failed.status = "FAILED"
    BY <1>h DEF Row, Status, Final
<1> HIDE DEF sent, retry, failed
<1>f. Forgotten(m, sent).status = "SENT" /\ Forgotten(m, failed).status = "FAILED"
    BY <1>r, ForgottenRow
<1>x. \A x \in Message \ {m} : rows'[x] = rows[x]
    BY <1>h, <1>m DEF FinishSent, FinishRetry, FinishFailed, SaveRow, TypeOK
<1>1. CASE FinishSent(w)
    <2>1. rows'[m] = Forgotten(m, sent) /\ UNCHANGED <<charged, refunded>>
        BY <1>1, <1>h, <1>m DEF FinishSent, SaveRow, TypeOK, creditVars, sent
    <2>2. PhaseOf(m)' = "SENT"
        BY <2>1, <1>f DEF PhaseOf
    <2> QED
        BY <1>k, <1>x, <2>1, <2>2, FreeMove
<1>2. CASE FinishRetry(w)
    <2>1. rows'[m] = retry /\ UNCHANGED <<charged, refunded>>
        BY <1>2, <1>h, <1>m DEF FinishRetry, SaveRow, TypeOK, creditVars, retry
    <2>2. PhaseOf(m)' = PhaseOf(m)
        BY <2>1, <1>k, <1>r DEF PhaseOf
    <2> QED
        BY <1>x, <2>1, <2>2, FreeMove
<1>3. CASE FinishFailed(w)
    <2>1. rows'[m] = Forgotten(m, failed)
        BY <1>3, <1>h, <1>m DEF FinishFailed, SaveRow, TypeOK, failed
    <2>2. PhaseOf(m)' = "FAILED"
        BY <2>1, <1>f DEF PhaseOf
    <2>3. CASE m \notin OrgSms
        <3>1. UNCHANGED <<charged, refunded>>
            BY <1>3, <1>k, <1>h, <1>m, <2>3 DEF FinishFailed, creditVars
        <3> QED
            BY <1>k, <1>x, <2>2, <2>3, <3>1, FreeMove
    <2>4. CASE m \in OrgSms
        <3>1. Refund(m)
            BY <1>3, <1>k, <1>m, <2>4 DEF FinishFailed
        <3>2. IsCharged(m)
            BY <1>k, <2>4 DEF CreditOf
        <3>3. refunded' = refunded \cup {m} /\ UNCHANGED charged
            BY <3>1, <3>2 DEF Refund
        <3>4. CreditOf(m)' = "returned"
            BY <3>2, <3>3 DEF CreditOf, IsCharged
        <3>5. \A x \in Message \ {m} : PhaseOf(x)' = PhaseOf(x) /\ CreditOf(x)' = CreditOf(x)
            BY <1>x, <3>3, Charges DEF PhaseOf
        <3>6. Moves(m)
            BY <1>k, <2>2, <2>4, <3>4 DEF Moves
        <3> QED
            BY <3>5, <3>6, MoveMaps
    <2> QED
        BY <2>3, <2>4
<1> QED
    BY <1>1, <1>2, <1>3

(* The sweep gives messages up; locks, calls, time and months change no promise. *)
LEMMA MapRest ==
    ASSUME IndInv,
           \/ \E w \in Worker : LockCredits(w) \/ Send(w) \/ Fail(w)
           \/ SweepStale \/ Tick \/ Credits \/ UNCHANGED vars
    PROVE  [Promise!Next]_(Promise!vars)
<1>1. CASE SweepStale
    <2>1. ASSUME NEW m \in Message
          PROVE  /\ PhaseOf(m)' = IF m \in Stale THEN "FAILED" ELSE PhaseOf(m)
                 /\ m \in Stale => PhaseOf(m) = "waiting"
                 /\ CreditOf(m)' = CreditOf(m)
        <3> DEFINE failed == [rows[m] EXCEPT !.status = "FAILED"]
        <3>1. failed.status = "FAILED"
            BY DEF IndInv, TypeOK, Row
        <3>2. rows'[m] = (IF m \in Stale THEN failed ELSE rows[m])
            BY <1>1 DEF SweepStale
        <3>3. m \in Stale => rows[m].status = "SENDING"
            BY DEF Stale
        <3>4. UNCHANGED <<charged, refunded>>
            BY <1>1 DEF SweepStale, creditVars
        <3> HIDE DEF failed
        <3> QED
            BY <3>1, <3>2, <3>3, <3>4, Charges DEF PhaseOf
    <2>2. /\ Phases' = [m \in Message |-> IF m \in Stale THEN "FAILED" ELSE Phases[m]]
          /\ UNCHANGED Credit /\ Stale \in SUBSET {m \in Message : Phases[m] = "waiting"}
        BY <2>1 DEF Phases, Credit, Stale
    <2> QED
        BY <2>2, Mapping
<1>2. CASE ~SweepStale
    <2>1. UNCHANGED <<rows, charged, refunded>>
        BY <1>2 DEF LockCredits, Send, Fail, Tick, Credits, TopUp, GrantMonth, NextMonth, vars,
           creditVars, outboxVars
    <2>2. \A m \in Message : PhaseOf(m)' = PhaseOf(m) /\ CreditOf(m)' = CreditOf(m)
        BY <2>1, Charges DEF PhaseOf
    <2> QED
        BY <2>2 DEF Promise!vars, Phases, Credit, PhaseOf, CreditOf
<1> QED
    BY <1>1, <1>2

(* With prompt workers the dispatcher keeps DeliveryPromise: a message is settled
   once and for good, paid for before it is sent, and refunded only by failing. *)
THEOREM DispatcherKeepsPromise == ASSUME PromptWorkers PROVE Spec => KeepsPromise
<1>1. Init => PromptInv /\ Promise!Init
    <2> SUFFICES ASSUME Init PROVE PromptInv /\ Promise!Init
        OBVIOUS
    <2>1. PromptInv
        BY RecordTypes DEF Init, PromptInv, Calling
    <2>2. \A m \in Message : PhaseOf(m) = "NONE" /\ CreditOf(m) = "none"
        BY DEF Init, CreditInit, NoRow, PhaseOf, CreditOf, IsCharged
    <2> QED
        BY <2>1, <2>2, Mapping DEF Phases, Credit
<1>2. IndInv /\ PromptInv /\ [Next]_vars => PromptInv'
    BY PromptStep
<1>3. IndInv /\ PromptInv /\ [Next]_vars => [Promise!Next]_(Promise!vars)
    BY MapClaims, MapCharge, MapFinish, MapRest DEF Next, WorkerStep
<1> QED
    BY <1>1, <1>2, <1>3, Inductive, PTL DEF Spec, KeepsPromise, Promise!Spec
=============================================================================
