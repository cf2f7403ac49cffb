--------------------------- MODULE BillingProofs ----------------------------
(***************************************************************************)
(* Proofs about Billing, for any number of handlers, payments, plans and   *)
(* failures, and a pool of any size: what the row lock of a payment and    *)
(* the checks under it are worth, and what the requests that change the    *)
(* plan, which lock nothing, leave of the subscriptions and of the cached  *)
(* entitlements.                                                           *)
(***************************************************************************)
EXTENDS Billing, SetLemmas

(* Max of the community modules picks a member. *)
LEMMA MaxMember == ASSUME NEW n \in Nat, NEW S \in SUBSET (1 .. n), S # {} PROVE Max(S) \in S
<1> DEFINE T == {k \in 0 .. n : n - k \in S}
<1> DEFINE R == {ss \in Nat \X Nat : ss[1] < ss[2]}
<1>1. R = OpToRel(<, Nat)
  BY DEF OpToRel
<1>2. IsWellFoundedOn(R, Nat)
  BY <1>1, NatLessThanWellFounded
<1>3. T # {} /\ T \subseteq Nat
  <2> PICK x \in S : TRUE
    OBVIOUS
  <2>1. n - x \in 0 .. n /\ n - (n - x) = x
    OBVIOUS
  <2>2. n - x \in T
    BY <2>1
  <2>3. T \subseteq Nat
    OBVIOUS
  <2> HIDE DEF T
  <2> QED
    BY <2>2, <2>3
<1> HIDE DEF R
<1>4. PICK k \in T : \A y \in T : <<y, k>> \notin R
  BY <1>2, <1>3, WFMin
<1>5. n - k \in S /\ \A y \in S : n - k >= y
  <2> SUFFICES ASSUME NEW y \in S, y > n - k PROVE FALSE
    OBVIOUS
  <2>1. n - y \in T /\ n - y < k /\ k \in Nat
    OBVIOUS
  <2>2. <<n - y, k>> \in Nat \X Nat /\ <<n - y, k>>[1] < <<n - y, k>>[2]
    BY <1>3, <2>1
  <2>3. <<n - y, k>> \in R
    BY <2>2 DEF R
  <2> QED
    BY <1>4, <2>1, <2>3
<1> QED
  BY <1>5, Zenon DEF Max

-----------------------------------------------------------------------------
(* The types of the requests and of the payments. *)
ProcShape == proc \in [Handler -> Local]
PayShape == pays \in [Payment -> PayRow]

(* Requests that have the row of their payment locked, to settle it. *)
Owner(h) == proc[h].op = "settle" /\ proc[h].pc # "lock"

(* Each step belongs to the requests that take it, a callback is for a payment that is
   stored, and a settlement past the row lock for one that is not PAID. *)
Roles ==
    \A h \in Handler :
        /\ proc[h].pc \in {"validate", "book", "commit"} => proc[h].op = "settle"
        /\ proc[h].pc = "save" => proc[h].op = "confirm"
        /\ proc[h].pc = "insert" => proc[h].op = "subscribe"
        /\ proc[h].pc = "history" => proc[h].op \in {"subscribe", "assignPlan"}
        /\ proc[h].pc = "lock" => proc[h].op \in {"settle", "terminal"}
        /\ proc[h].op = "terminal" => proc[h].pc = "lock"
        /\ proc[h].op = "idle" => proc[h].pc = "idle"
        /\ proc[h].op = "confirm" => proc[h].sub \in Sub
        /\ proc[h].op \in {"settle", "terminal"} => proc[h].pay \in Payment /\ pays[proc[h].pay].status # "NONE"
        /\ Owner(h) => pays[proc[h].pay].status # "PAID"
(* The row lock: two requests never settle the same payment at once. *)
Exclusive == \A g, h \in Handler : Owner(g) /\ Owner(h) /\ proc[g].pay = proc[h].pay => g = h

(* The inductive invariant of what follows. *)
BillInv == ProcShape /\ PayShape /\ Roles /\ Exclusive

(* A request at rest has its type. *)
LEMMA IdleLocal == Idle \in Local /\ Idle.op = "idle" /\ Idle.pc = "idle"
  BY DEF Idle, Local

(* Every request that is about to insert a row will find one that is unused. *)
Roomy == IsFiniteSet(Inserting) /\ Cardinality(Inserting) <= Cardinality(Unused)

(* While a request is about to insert a row, there is an unused one, and Min finds it. *)
LEMMA UnusedLeft == ASSUME Roomy, Inserting # {} PROVE Min(Unused) \in Unused
<1>1. Unused # {}
  <2> SUFFICES ASSUME Unused = {} PROVE FALSE
    OBVIOUS
  <2>1. Cardinality(Inserting) <= 0 /\ Cardinality(Inserting) \in Nat /\ IsFiniteSet(Inserting)
    BY FS_EmptySet, FS_CardinalityType DEF Roomy
  <2> QED
    BY <2>1, FS_EmptySet
<1>2. Unused \in SUBSET Nat
  BY BillingAssumption DEF Unused, Sub
<1> QED
  BY <1>1, <1>2, MinMember

(* What a request begins with. *)
Fresh(y) ==
    /\ y \in Local /\ y.pc \in {"insert", "find", "save", "lock"} /\ y.op # "idle"
    /\ y.pc = "find" => y.op \notin {"settle", "terminal", "confirm"}
    /\ y.pc = "lock" <=> y.op \in {"settle", "terminal"}
    /\ y.pc = "save" => y.op = "confirm"
    /\ y.pc = "insert" => y.op = "subscribe"
    /\ y.op = "subscribe" => y.pc = "insert"
    /\ y.op \notin {"settle", "confirm"} => y.sub = None
    /\ y.op = "confirm" => y.sub \in Sub /\ manual[y.sub] = "PENDING"
    /\ y.op \in {"subscribe", "subscribeFree", "assignPlan"} => Room
    /\ y.op \in {"settle", "terminal"} => y.pay \in Payment /\ pays[y.pay].status # "NONE"
    /\ y.op \notin {"settle", "terminal"} => y.pay = None

(* Every kind of arriving request begins as Fresh says. *)
LEMMA ArriveSteps ==
    ASSUME NEW h \in Handler, Arrive(h)
    PROVE  \E y : Fresh(y) /\ proc' = [proc EXCEPT ![h] = y]
<1> USE IdleLocal
<1>1. CASE Subscribe(h)
  <2> DEFINE y == [Idle EXCEPT !.op = "subscribe", !.pc = "insert"]
  <2>1. proc' = [proc EXCEPT ![h] = y] /\ Room
    BY <1>1 DEF Subscribe, Begin
  <2>2. Fresh(y)
    BY <2>1 DEF Fresh, Idle, Local, Ops
  <2> QED
    BY <2>1, <2>2
<1>2. CASE \E op \in Ops : Replace(h, op)
  <2> PICK op \in Ops : Replace(h, op)
    BY <1>2
  <2> DEFINE y == [Idle EXCEPT !.op = op, !.pc = "find"]
  <2>1. proc' = [proc EXCEPT ![h] = y] /\ op \in {"cancel", "subscribeFree", "assignPlan"} /\ (op # "cancel" => Room)
    BY DEF Replace, Begin
  <2>2. Fresh(y)
    BY <2>1 DEF Fresh, Idle, Local, Ops
  <2> QED
    BY <2>1, <2>2
<1>3. CASE \E s \in Sub : Confirm(h, s)
  <2> PICK s \in Sub : Confirm(h, s)
    BY <1>3
  <2> DEFINE y == [Idle EXCEPT !.op = "confirm", !.pc = "save", !.sub = s]
  <2>1. proc' = [proc EXCEPT ![h] = y] /\ manual[s] = "PENDING"
    BY DEF Confirm, Begin
  <2>2. Fresh(y)
    BY <2>1 DEF Fresh, Idle, Local, Ops
  <2> QED
    BY <2>1, <2>2
<1>4. CASE \E p \in Payment : Settle(h, p) \/ Terminate(h, p)
  <2> PICK p \in Payment : Settle(h, p) \/ Terminate(h, p)
    BY <1>4
  <2> PICK op \in {"settle", "terminal"} :
          proc' = [proc EXCEPT ![h] = [Idle EXCEPT !.op = op, !.pc = "lock", !.pay = p]] /\ pays[p].status # "NONE"
    BY DEF Settle, Terminate, Begin
  <2> DEFINE y == [Idle EXCEPT !.op = op, !.pc = "lock", !.pay = p]
  <2>1. proc' = [proc EXCEPT ![h] = y]
    OBVIOUS
  <2>2. Fresh(y)
    BY <2>1 DEF Fresh, Idle, Local, Ops
  <2> QED
    BY <2>1, <2>2
<1> QED
  BY <1>1, <1>2, <1>3, <1>4 DEF Arrive

(* The steps of a handler: it is done, goes on with the same request, or begins one. *)
Follows(x, y) == y.op = x.op /\ y.pay = x.pay /\ (y.sub = x.sub \/ x.op \in {"settle", "subscribe"})
(* A callback that locks the row of a payment that is not PAID settles it. *)
LocksRow(h) ==
    /\ proc[h].op = "settle" /\ proc[h].pc = "lock" /\ proc[h].pay \notin Locked
    /\ pays[proc[h].pay].status # "PAID" /\ pays' = pays
    /\ Beside
(* What a step of request h does to it. *)
GoesOn(h) ==
    \/ Done(h)
    \/ \E y \in Local : /\ proc' = [proc EXCEPT ![h] = y] /\ Follows(proc[h], y)
                        /\ y.pc \in {"validate", "history", "find", "cancelPrev", "write", "book", "commit"}
                        /\ y.op \notin {"idle", "terminal"}
                        /\ y.pc \in {"validate", "book", "commit"} => y.op = "settle"
                        /\ y.pc = "history" => y.op \in {"subscribe", "assignPlan"}
                        /\ y.pc = "validate" => LocksRow(h)
                        /\ y.pc # "validate" => proc[h].pc # "lock"
                        /\ proc[h].pc # "history"

(* The plan that entitlements are computed from is an active subscription. *)
LEMMA PlanActive == Plan # 0 => Plan \in Active
<1>1. MaxSubs \in Nat /\ Active \in SUBSET (1 .. MaxSubs)
  BY BillingAssumption DEF Active, Sub
<1>2. Active # {} => Max(Active) \in Active
  BY <1>1, MaxMember
<1> QED
  BY <1>2 DEF Plan, Newest

(* What follows the write of a plan. *)
LEMMA WriteGoes ==
    ASSUME NEW h \in Handler, Write(h)
    PROVE  /\ proc[h].pc = "write"
           /\ \/ proc[h].op = "settle" /\ Goto(h, "book")
              \/ proc[h].op = "assignPlan" /\ Goto(h, "history")
              \/ proc[h].op \notin {"settle", "assignPlan"} /\ Done(h)
<1>1. proc[h].pc = "write" /\ AfterWrite(h)
  BY DEF Write
<1>2. CASE proc[h].op = "settle"
  BY <1>1, <1>2 DEF AfterWrite
<1>3. CASE proc[h].op = "assignPlan"
  BY <1>1, <1>3 DEF AfterWrite
<1>4. CASE proc[h].op \notin {"settle", "assignPlan"}
  BY <1>1, <1>4 DEF AfterWrite
<1> QED
  BY <1>1, <1>2, <1>3, <1>4

(* Every step of a request that is under way goes on or is done. *)
LEMMA HandlerSteps ==
    ASSUME BillInv, Roomy, NEW h \in Handler, Step(h) \/ QueryFails(h) \/ Die(h)
    PROVE  GoesOn(h)
<1> USE DEF BillInv, ProcShape, PayShape
<1>0. proc[h] \in Local
  OBVIOUS
<1>1. ASSUME NEW pc \in {"validate", "history", "find", "cancelPrev", "write", "book", "commit"}, Goto(h, pc),
             pc \in {"validate", "book", "commit"} => proc[h].op = "settle",
             pc = "history" => proc[h].op = "assignPlan",
             pc = "validate" => LocksRow(h),
             pc # "validate" => proc[h].pc \notin {"idle", "lock", "history"}
      PROVE  GoesOn(h)
  <2> DEFINE y == [proc[h] EXCEPT !.pc = pc]
  <2>1. y \in Local /\ y.pc = pc /\ Follows(proc[h], y) /\ y.op = proc[h].op
    BY <1>0 DEF Local, Follows
  <2>2. proc' = [proc EXCEPT ![h] = y]
    BY <1>1 DEF Goto
  <2>3. y.op \notin {"idle", "terminal"}
    BY <1>1, <2>1 DEF Roles
  <2> HIDE DEF y
  <2> QED
    BY <1>1, <2>1, <2>2, <2>3 DEF GoesOn, LocksRow
<1>2. CASE RecordReference(h) \/ RecordAssigned(h) \/ MarkTerminal(h) \/ Die(h) \/ Commit(h)
  BY <1>2 DEF RecordReference, RecordAssigned, MarkTerminal, Die, Commit, GoesOn
<1>9. CASE LockRow(h)
  <2>1. CASE Done(h)
    BY <2>1 DEF GoesOn
  <2>2. CASE ~Done(h)
    <3>1. Goto(h, "validate") /\ LocksRow(h) /\ proc[h].op = "settle"
      BY <1>9, <2>2 DEF LockRow, LocksRow, payVars
    <3> QED
      BY <1>1, <3>1
  <2> QED
    BY <2>1, <2>2
<1>10. CASE InsertPending(h)
  <2>a. h \in Inserting
    BY <1>10 DEF InsertPending, Inserting, Roles
  <2>b. Min(Unused) \in Unused
    BY <2>a, UnusedLeft
  <2>0. PICK m \in Sub : m = Min(Unused)
    BY <2>b DEF Unused
  <2> DEFINE y == [proc[h] EXCEPT !.pc = "history", !.sub = m]
  <2>1. proc' = [proc EXCEPT ![h] = y] /\ proc[h].op = "subscribe" /\ proc[h].pc = "insert"
    BY <1>10, <2>0 DEF InsertPending, Roles
  <2>2. y \in Local /\ y.pc = "history" /\ Follows(proc[h], y) /\ y.op = "subscribe"
    BY <1>0, <2>1 DEF Local, Follows
  <2> HIDE DEF y
  <2> QED
    BY <2>1, <2>2 DEF GoesOn
<1>3. CASE SaveConfirmed(h) \/ CancelPrev(h)
  BY <1>1, <1>3 DEF SaveConfirmed, CancelPrev
<1>4. CASE Find(h)
  <2>1. PICK pc \in {"cancelPrev", "write"}, s \in Sub \cup {None} : proc' = [proc EXCEPT ![h] = [proc[h] EXCEPT !.pc = pc, !.prev = s]]
    <3>1. Plan # 0 => Plan \in Sub
      BY PlanActive DEF Active
    <3> QED
      BY <1>4, <3>1 DEF Find
  <2> DEFINE y == [proc[h] EXCEPT !.pc = pc, !.prev = s]
  <2>2. y \in Local /\ y.pc = pc /\ Follows(proc[h], y) /\ y.op = proc[h].op
    BY <1>0 DEF Local, Follows
  <2>3. proc' = [proc EXCEPT ![h] = y]
    BY <2>1
  <2>4. proc[h].pc = "find" /\ proc[h].op \notin {"idle", "terminal"}
    BY <1>4 DEF Find, Roles
  <2> HIDE DEF y
  <2> QED
    BY <2>2, <2>3, <2>4 DEF GoesOn
<1>5. CASE Write(h)
  BY <1>1, <1>5, WriteGoes DEF GoesOn
<1>6. CASE Validate(h)
  <2>0. proc[h].op = "settle" /\ proc[h].pc = "validate" /\ proc[h].pay \in Payment
    BY <1>6 DEF Validate, Roles
  <2>1. CASE Done(h)
    BY <2>1 DEF GoesOn
  <2>2. CASE ~Done(h)
    <3> DEFINE s == pays[proc[h].pay].sub
               pc == AfterValidation(proc[h].pay)
               y == [proc[h] EXCEPT !.sub = s, !.pc = pc]
    <3>1. proc' = [proc EXCEPT ![h] = y]
      BY <1>6, <2>2 DEF Validate
    <3>2. s \in Sub \cup {None} /\ pc \in {"commit", "find"}
      BY <2>0 DEF PayRow, AfterValidation
    <3> HIDE DEF s, pc
    <3>3. y \in Local /\ y.pc = pc /\ Follows(proc[h], y) /\ y.op = proc[h].op
      BY <1>0, <2>0, <3>2 DEF Local, Follows
    <3> HIDE DEF y
    <3> QED
      BY <2>0, <3>1, <3>2, <3>3 DEF GoesOn
  <2> QED
    BY <2>1, <2>2
<1>7. CASE Book(h)
  BY <1>1, <1>7 DEF Book, Roles
<1>8. CASE ConnectTimeout(h) \/ QueryFails(h)
  <2>1. proc[h].pc \in Querying /\ GiveUp(h)
    BY <1>8 DEF ConnectTimeout, QueryFails
  <2>2. CASE proc[h].op = "settle"
    BY <1>1, <2>1, <2>2 DEF GiveUp, Querying, Roles
  <2> QED
    BY <2>1, <2>2 DEF GiveUp, GoesOn
<1> QED
  BY <1>2, <1>3, <1>4, <1>5, <1>6, <1>7, <1>8, <1>9, <1>10 DEF Step

(* It touches no other request. *)
LEMMA GoesOnAlone == ASSUME NEW h \in Handler, GoesOn(h) PROVE \E y \in Local : proc' = [proc EXCEPT ![h] = y]
  BY IdleLocal, Zenon DEF GoesOn, Done

(* The three kinds of steps: a request arrives, one goes on, or none is touched. *)
LEMMA NextSteps ==
    ASSUME [Next]_vars
    PROVE  \/ \E h \in Handler : Arrive(h) /\ UNCHANGED <<pays, credited, booked, gateway, failures>>
           \/ \E h \in Handler : Step(h) \/ QueryFails(h) \/ Die(h)
           \/ proc' = proc /\ UNCHANGED <<credited, booked, failures>>
  BY DEF Next, vars, subVars, payVars, histVars, Arrive, Subscribe, Replace, Confirm, Settle, Terminate, LockRow, Begin, Initiate, MarkTerminal,
         LoadEntitlements, CacheEntitlements, ExpireEntitlements, Lapse

(* A fail or cancel callback changes its payment while that is PENDING and not locked. *)
LEMMA TerminalSteps ==
    ASSUME BillInv, NEW h \in Handler, MarkTerminal(h)
    PROVE  /\ UNCHANGED <<gateway, credited>>
           /\ \/ pays' = pays
              \/ \E p \in Payment, y \in PayRow :
                    /\ p \notin Locked /\ pays[p].status = "PENDING" /\ pays' = [pays EXCEPT ![p] = y]
                    /\ y.status = "FAILED" /\ y.sub = pays[p].sub
<1>0. PICK p \in Payment : p = proc[h].pay /\ p \notin Locked
  BY DEF MarkTerminal, BillInv, Roles
<1> DEFINE y == [pays[p] EXCEPT !.status = IF @ = "PENDING" THEN "FAILED" ELSE @]
<1>1. pays' = [pays EXCEPT ![p] = y] /\ UNCHANGED <<gateway, credited>>
  BY <1>0 DEF MarkTerminal
<1>2. pays[p] \in PayRow /\ pays \in [Payment -> PayRow]
  BY DEF BillInv, PayShape
<1>3. CASE pays[p].status = "PENDING"
  <2>1. y \in PayRow /\ y.status = "FAILED" /\ y.sub = pays[p].sub
    BY <1>2, <1>3 DEF PayRow
  <2> HIDE DEF y
  <2> QED
    BY <1>0, <1>1, <1>3, <2>1
<1>4. CASE pays[p].status # "PENDING"
  <2>1. y = pays[p]
    BY <1>2, <1>4 DEF PayRow
  <2> HIDE DEF y
  <2> QED
    BY <1>1, <1>2, <2>1
<1> QED
  BY <1>3, <1>4

(* The status of a payment changes when it is initiated, when it is marked terminal while
   nobody settles it, and when its own settlement commits: never once it is PAID. *)
LEMMA PayChange ==
    ASSUME BillInv, [Next]_vars
    PROVE  /\ PayShape'
           /\ \A p \in Payment :
                 \/ pays'[p] = pays[p]
                 \/ pays[p].status = "NONE" /\ proc' = proc /\ pays'[p].status # "PAID"
                 \/ pays[p].status = "PENDING" /\ p \notin Locked /\ pays'[p].status = "FAILED"
                 \/ pays'[p].status = "PAID" /\ \E h \in Handler : Commit(h) /\ proc[h].pay = p
           /\ \A p \in Payment : pays[p].status # "NONE" => pays'[p].sub = pays[p].sub
<1> USE DEF BillInv, PayShape
<1>0. \A p \in Payment, st \in {"PAID", "FAILED"} : LET y == [pays[p] EXCEPT !.status = st]
                                                 IN  y \in PayRow /\ y.status = st /\ y.sub = pays[p].sub
  BY DEF PayRow
<1>1. CASE pays' = pays
  BY <1>1
<1>2. CASE \E p \in Payment : Initiate(p)
  <2> PICK p \in Payment : Initiate(p)
    BY <1>2
  <2>1. PICK y \in PayRow : pays' = [pays EXCEPT ![p] = y] /\ y.status # "PAID"
    BY DEF Initiate, PayRow
  <2>2. pays[p].status = "NONE" /\ proc' = proc
    BY DEF Initiate
  <2> QED
    BY <2>1, <2>2
<1>3. CASE \E h \in Handler : MarkTerminal(h)
  BY <1>3, TerminalSteps
<1>4. CASE \E h \in Handler : Commit(h)
  <2> PICK h \in Handler : Commit(h)
    BY <1>4
  <2>0. proc[h].pay \in Payment
    BY DEF Commit, Roles
  <2> DEFINE y == [pays[proc[h].pay] EXCEPT !.status = "PAID"]
  <2>1. pays' = [pays EXCEPT ![proc[h].pay] = y]
    BY DEF Commit
  <2>2. y \in PayRow /\ y.status = "PAID" /\ y.sub = pays[proc[h].pay].sub
    BY <1>0, <2>0
  <2> HIDE DEF y
  <2> QED
    BY <2>0, <2>1, <2>2
<1> QED
  BY <1>1, <1>2, <1>3, <1>4
  DEF Next, vars, subVars, payVars, Arrive, Step, Subscribe, InsertPending, RecordReference, Replace, Confirm, SaveConfirmed, Find, CancelPrev,
      Write, Settle, Terminate, LockRow, Validate, RecordAssigned, Book, ConnectTimeout, QueryFails, Die, LoadEntitlements, CacheEntitlements,
      ExpireEntitlements, Lapse

(* Every step keeps the row lock exclusive and a settlement on a payment that is stored and not PAID. *)
LEMMA BillInvStep == ASSUME BillInv, Roomy, [Next]_vars PROVE BillInv'
<1> USE DEF BillInv, ProcShape, Owner
<1>0. PayShape'
  BY PayChange
<1>1. \A p \in Payment : pays[p].status # "NONE" => pays'[p].status # "NONE"
  BY PayChange
<1>2. ASSUME NEW g \in Handler, Owner(g), Owner(g)', proc'[g].pay = proc[g].pay PROVE pays'[proc[g].pay].status # "PAID"
  <2>1. proc[g].pay \in Payment /\ pays[proc[g].pay].status # "PAID"
    BY <1>2 DEF Roles
  <2>2. ASSUME NEW k \in Handler, Commit(k), proc[k].pay = proc[g].pay PROVE FALSE
    <3>1. Owner(k) /\ proc'[k] = Idle
      BY <2>2 DEF Commit, Done, Roles
    <3>2. k = g
      BY <1>2, <2>2, <3>1 DEF Exclusive
    <3> QED
      BY <1>2, <3>1, <3>2, IdleLocal
  <2> QED
    BY <2>1, <2>2, PayChange
<1>3. ASSUME proc' = proc PROVE BillInv'
  <2>1. ASSUME NEW h \in Handler, Owner(h) PROVE pays'[proc[h].pay].status # "PAID"
    BY <1>2, <1>3, <2>1
  <2> QED
    BY <1>0, <1>1, <1>3, <2>1 DEF Roles, Exclusive
<1>4. ASSUME NEW h \in Handler, NEW y \in Local, proc' = [proc EXCEPT ![h] = y],
             y.op \in {"settle", "terminal"} => y.pay \in Payment /\ pays[y.pay].status # "NONE",
             \/ y = Idle
             \/ Fresh(y)
             \/ /\ Follows(proc[h], y) /\ y.op \notin {"idle", "terminal"}
                /\ y.pc \in {"validate", "history", "find", "cancelPrev", "write", "book", "commit"}
                /\ y.pc \in {"validate", "book", "commit"} => y.op = "settle"
                /\ y.pc = "history" => y.op \in {"subscribe", "assignPlan"}
                /\ y.pc = "validate" => LocksRow(h)
                /\ y.pc # "validate" => proc[h].pc # "lock"
      PROVE  BillInv'
  <2>1. \A g \in Handler : Owner(g)' => (Owner(g) /\ proc'[g].pay = proc[g].pay) \/ (g = h /\ LocksRow(h) /\ proc'[h].pay = proc[h].pay)
    BY <1>4, IdleLocal DEF Fresh, Follows
  <2>2. ASSUME NEW g \in Handler, Owner(g)' PROVE pays'[proc'[g].pay].status # "PAID"
    BY <1>2, <2>1, <2>2 DEF LocksRow
  <2>3. \A g \in Handler : Owner(g) /\ LocksRow(h) => proc[g].pay # proc[h].pay
    BY DEF LocksRow, Locked
  <2>4. Exclusive'
    BY <2>1, <2>3 DEF Exclusive
  <2>5. ASSUME NEW g \in Handler
        PROVE  /\ proc'[g].pc \in {"validate", "book", "commit"} => proc'[g].op = "settle"
               /\ proc'[g].pc = "save" => proc'[g].op = "confirm"
               /\ proc'[g].pc = "insert" => proc'[g].op = "subscribe"
               /\ proc'[g].pc = "history" => proc'[g].op \in {"subscribe", "assignPlan"}
               /\ proc'[g].pc = "lock" => proc'[g].op \in {"settle", "terminal"}
               /\ proc'[g].op = "terminal" => proc'[g].pc = "lock"
               /\ proc'[g].op = "idle" => proc'[g].pc = "idle"
    BY <1>4, IdleLocal DEF Roles, Fresh
  <2>6. ASSUME NEW g \in Handler
        PROVE  /\ proc'[g].op = "confirm" => proc'[g].sub \in Sub
               /\ proc'[g].op \in {"settle", "terminal"} => proc'[g].pay \in Payment /\ pays'[proc'[g].pay].status # "NONE"
    BY <1>1, <1>4, IdleLocal DEF Roles, Fresh, Follows
  <2> QED
    BY <1>0, <1>4, <2>2, <2>4, <2>5, <2>6 DEF Roles
<1>5. CASE \E h \in Handler : Arrive(h)
  <2> PICK h \in Handler : Arrive(h)
    BY <1>5
  <2>1. PICK y : Fresh(y) /\ proc' = [proc EXCEPT ![h] = y]
    BY ArriveSteps
  <2> QED
    BY <1>4, <2>1 DEF Fresh
<1>6. CASE \E h \in Handler : GoesOn(h)
  <2> PICK h \in Handler : GoesOn(h)
    BY <1>6
  <2>1. CASE Done(h)
    BY <1>4, <2>1, IdleLocal DEF Done
  <2>2. CASE ~Done(h)
    <3>1. PICK y \in Local : /\ proc' = [proc EXCEPT ![h] = y] /\ Follows(proc[h], y)
                             /\ y.pc \in {"validate", "history", "find", "cancelPrev", "write", "book", "commit"}
                             /\ y.op \notin {"idle", "terminal"}
                             /\ y.pc \in {"validate", "book", "commit"} => y.op = "settle"
                             /\ y.pc = "history" => y.op \in {"subscribe", "assignPlan"}
                             /\ y.pc = "validate" => LocksRow(h)
                             /\ y.pc # "validate" => proc[h].pc # "lock"
      BY <2>2 DEF GoesOn
    <3>2. y.op \in {"settle", "terminal"} => y.pay \in Payment /\ pays[y.pay].status # "NONE"
      BY <3>1 DEF Follows, Roles
    <3> QED
      BY <1>4, <3>1, <3>2
  <2> QED
    BY <2>1, <2>2
<1>7. CASE proc' = proc
  BY <1>3, <1>7
<1> QED
  BY <1>5, <1>6, <1>7, HandlerSteps, NextSteps

(* It holds at first. *)
LEMMA BillInvInit == Init => BillInv
<1> SUFFICES ASSUME Init PROVE BillInv
  OBVIOUS
<1>1. \A h \in Handler : proc[h] = Idle /\ ~Owner(h)
  BY IdleLocal DEF Init, Owner
<1> QED
  BY <1>1, IdleLocal DEF Init, BillInv, ProcShape, PayShape, Roles, Exclusive, PayRow, NoPay

(* The type of the credits. *)
CreditsShape == credited \in [Payment -> Nat]

(* Only the commit of a settlement adds credits, and it makes its payment PAID. *)
LEMMA CreditsStep ==
    ASSUME BillInv, CreditsShape, CreditsOnce, [Next]_vars
    PROVE  CreditsShape' /\ CreditsOnce'
<1> USE DEF CreditsShape, CreditsOnce
<1>1. CASE \E h \in Handler : Commit(h)
  <2> PICK h \in Handler : Commit(h)
    BY <1>1
  <2> DEFINE p == proc[h].pay
  <2>1. p \in Payment /\ pays[p].status # "PAID" /\ pays \in [Payment -> PayRow]
    BY DEF Commit, Roles, Owner, BillInv, PayShape
  <2>2. credited' = [credited EXCEPT ![p] = IF pays[p].sub = None /\ credited[p] = 0 THEN 1 ELSE credited[p]]
        /\ pays' = [pays EXCEPT ![p] = [pays[p] EXCEPT !.status = "PAID"]]
    BY DEF Commit
  <2>3. pays'[p].status = "PAID" /\ pays'[p].sub = pays[p].sub /\ \A q \in Payment : q # p => pays'[q] = pays[q]
    BY <2>1, <2>2 DEF PayRow
  <2>4. credited[p] = 0
    BY <2>1
  <2> QED
    BY <2>1, <2>2, <2>3, <2>4
<1>2. CASE credited' = credited /\ \A h \in Handler : ~Commit(h)
  BY <1>2, PayChange
<1> QED
  BY <1>1, <1>2
  DEF Next, vars, subVars, payVars, Arrive, Step, Subscribe, InsertPending, RecordReference, Replace, Confirm, SaveConfirmed, Find, CancelPrev,
      Write, Initiate, MarkTerminal, Settle, Terminate, LockRow, Validate, RecordAssigned, Book, ConnectTimeout, QueryFails, Die, LoadEntitlements,
      CacheEntitlements, ExpireEntitlements, Lapse

-----------------------------------------------------------------------------
(* A settlement that has done all but commit. *)
Committing(p) == \E h \in Handler : proc[h].op = "settle" /\ proc[h].pay = p /\ proc[h].pc = "commit"

BookShape == booked \in [Payment -> Nat] /\ failures \in Nat

(* Beyond the row of the settlement that commits or has committed, every row cost a failure. *)
BookInv == BookShape /\ \A p \in Payment : booked[p] <= failures + (IF pays[p].status = "PAID" \/ Committing(p) THEN 1 ELSE 0)

(* Failures are only counted up. *)
LEMMA FailuresGrow == ASSUME failures \in Nat, [Next]_vars PROVE failures' \in Nat /\ failures <= failures'
<1>1. CASE UNCHANGED failures
  BY <1>1
<1>2. CASE failures' = failures + 1
  BY <1>2
<1>3. ASSUME Invalidate PROVE failures' = failures \/ failures' = failures + 1
  BY <1>3 DEF Invalidate
<1> QED
  BY <1>1, <1>2, <1>3
  DEF Next, vars, histVars, Arrive, Step, Subscribe, InsertPending, RecordReference, Replace, Confirm, SaveConfirmed, Begin, Find, CancelPrev,
      Write, Initiate, MarkTerminal, Settle, Terminate, LockRow, Validate, RecordAssigned, Book, Commit, ConnectTimeout, QueryFails, Die, LoadEntitlements,
      CacheEntitlements, ExpireEntitlements, Lapse

(* Rows are booked by the step that says so. *)
LEMMA BookChange == ASSUME [Next]_vars PROVE booked' = booked \/ \E h \in Handler : Book(h)
  BY DEF Next, vars, subVars, Arrive, Step, Subscribe, InsertPending, RecordReference, Replace, Confirm, SaveConfirmed, Find, CancelPrev,
      Write, RecordAssigned, Initiate, MarkTerminal, Settle, Terminate, LockRow, Validate, Commit, ConnectTimeout, QueryFails, Die, LoadEntitlements,
      CacheEntitlements, ExpireEntitlements, Lapse

(* A settlement about to commit commits, or dies, which is counted. *)
LEMMA CommittingEnds ==
    ASSUME BillInv, Roomy, BookShape, [Next]_vars, NEW p \in Payment, Committing(p), ~Committing(p)'
    PROVE  pays'[p].status = "PAID" \/ failures' = failures + 1
<1> USE DEF BillInv, ProcShape, PayShape
<1>1. PICK g \in Handler : proc[g].op = "settle" /\ proc[g].pay = p /\ proc[g].pc = "commit"
  BY DEF Committing
<1>2. proc'[g] # proc[g]
  BY <1>1 DEF Committing
<1>3. ASSUME NEW h \in Handler, Arrive(h) PROVE FALSE
  <2>1. proc[h] = Idle /\ \E y : proc' = [proc EXCEPT ![h] = y]
    BY <1>3, ArriveSteps DEF Arrive, Subscribe, Replace, Confirm, Settle, Terminate, LockRow, Begin
  <2> QED
    BY <1>1, <1>2, <2>1, IdleLocal
<1>4. ASSUME NEW h \in Handler, Step(h) \/ QueryFails(h) \/ Die(h) PROVE h = g
  BY <1>2, <1>4, HandlerSteps DEF GoesOn, Done
<1>5. PICK h \in Handler : Step(h) \/ QueryFails(h) \/ Die(h)
  BY <1>2, <1>3, NextSteps
<1>6. Commit(g) \/ Die(g)
  BY <1>1, <1>4, <1>5
  DEF Step, InsertPending, RecordReference, SaveConfirmed, Find, CancelPrev, Write, RecordAssigned, LockRow, MarkTerminal,
      Validate, Book, ConnectTimeout, QueryFails, Querying
<1> QED
  BY <1>1, <1>6 DEF Commit, Die, PayRow

(* Every step keeps BookInv: the settlement that books holds the lock, so that none
   commits the same payment, and it is not PAID yet. *)
LEMMA BookStep == ASSUME BillInv, Roomy, BookInv, [Next]_vars PROVE BookInv'
<1> USE DEF BookInv, BookShape
<1>1. failures' \in Nat /\ failures <= failures'
  BY FailuresGrow
<1>2. \A p \in Payment : pays[p].status = "PAID" => pays'[p].status = "PAID"
  BY PayChange
<1>3. \A p \in Payment : Committing(p) => Committing(p)' \/ pays'[p].status = "PAID" \/ failures' = failures + 1
  BY CommittingEnds
<1>4. CASE booked' = booked
  <2> SUFFICES ASSUME NEW p \in Payment
               PROVE  booked[p] <= failures' + (IF pays'[p].status = "PAID" \/ Committing(p)' THEN 1 ELSE 0)
    BY <1>1, <1>4
  <2>1. booked[p] \in Nat /\ booked[p] <= failures + (IF pays[p].status = "PAID" \/ Committing(p) THEN 1 ELSE 0)
    OBVIOUS
  <2> QED
    BY <1>1, <1>2, <1>3, <2>1
<1>5. CASE \E h \in Handler : Book(h)
  <2> PICK h \in Handler : Book(h)
    BY <1>5
  <2>0. PICK q \in Payment : q = proc[h].pay
    BY DEF Book, BillInv, Roles, Owner
  <2>1. q \in Payment /\ q = proc[h].pay /\ proc[h].op = "settle" /\ pays[q].status # "PAID" /\ proc[h].pc = "book"
    BY <2>0 DEF Book, BillInv, Roles, Owner
  <2>2. ~Committing(q)
    BY <2>1 DEF Committing, BillInv, Exclusive, Owner
  <2>3. booked[q] <= failures
    BY <2>1, <2>2
  <2>4. Committing(q)'
    BY <2>1 DEF Book, Goto, Committing, BillInv, ProcShape, Local
  <2>5. booked' = [booked EXCEPT ![q] = @ + 1] /\ failures' = failures
    BY <2>0 DEF Book, histVars
  <2>6. \A p \in Payment \ {q} : booked'[p] = booked[p] /\ (Committing(p) => Committing(p)')
    BY <2>1, <2>5 DEF Book, Goto, Committing, BillInv, ProcShape, Local
  <2>7. booked' \in [Payment -> Nat]
    BY <2>1, <2>5
  <2> SUFFICES ASSUME NEW p \in Payment
               PROVE  booked'[p] <= failures' + (IF pays'[p].status = "PAID" \/ Committing(p)' THEN 1 ELSE 0)
    BY <1>1, <2>5, <2>7
  <2>8. CASE p = q
    <3>1. booked[q] \in Nat /\ booked'[q] = booked[q] + 1
      BY <2>1, <2>5
    <3> QED
      BY <2>3, <2>4, <2>5, <2>8, <3>1
  <2>9. CASE p # q
    <3>1. booked[p] <= failures + (IF pays[p].status = "PAID" \/ Committing(p) THEN 1 ELSE 0)
      OBVIOUS
    <3> QED
      BY <1>2, <2>5, <2>6, <2>9, <3>1
  <2> QED
    BY <2>8, <2>9
<1> QED
  BY <1>4, <1>5, BookChange

-----------------------------------------------------------------------------
(* The types of the subscriptions, of the manual references and of the gateway. *)
PlanShape ==
    /\ subs \in [Sub -> SubRow]
    /\ manual \in [Sub -> {"NONE", "OWED", "PENDING", "COMPLETED"}]
    /\ gateway \in [Payment -> {"none", "open", "short", "full"}]

(* References, payments and requests refer to rows that exist. *)
Backed ==
    /\ \A s \in Sub : subs[s].status = "NONE" => manual[s] = "NONE"
    /\ \A p \in Payment : pays[p].sub # None => subs[pays[p].sub].status # "NONE"
    /\ \A p \in Payment : pays[p].status = "NONE" => gateway[p] = "none" /\ pays[p].sub = None
    /\ \A h \in Handler : proc[h].op = "confirm" => manual[proc[h].sub] \in {"PENDING", "COMPLETED"}
    /\ \A h \in Handler : proc[h].pc = "cancelPrev" => proc[h].prev \in Sub /\ subs[proc[h].prev].status # "NONE"

(* Requests to subscribe that have inserted the subscription, but not its reference: each has
   one of its own. *)
Owing(h) == proc[h].op = "subscribe" /\ proc[h].pc = "history"
Owed ==
    /\ \A h \in Handler : Owing(h) => proc[h].sub \in Sub /\ manual[proc[h].sub] = "OWED"
    /\ \A g, h \in Handler : Owing(g) /\ Owing(h) /\ proc[g].sub = proc[h].sub => g = h

(* A request that will activate a subscription has seen it paid in full, or saved it
   as confirmed; only subscribe holds another. *)
Entitled(h) ==
    /\ proc[h].op = "subscribe" => proc[h].pc \in {"insert", "history"}
    /\ proc[h].op \notin {"settle", "confirm", "subscribe"} => proc[h].sub = None
    /\ proc[h].pc \in {"find", "cancelPrev", "write"} =>
        /\ proc[h].op = "settle" => /\ proc[h].sub \in Sub /\ proc[h].sub = pays[proc[h].pay].sub
                                    /\ gateway[proc[h].pay] = "full"
        /\ proc[h].op = "confirm" => manual[proc[h].sub] = "COMPLETED"

PlanInv == PlanShape /\ Backed /\ Owed /\ Roomy /\ (\A h \in Handler : Entitled(h)) /\ OnlyPaidIsActive

(* No row is used for the first time, none becomes an active one with a price. *)
Calm ==
    /\ subs' \in [Sub -> SubRow]
    /\ \A s \in Sub : /\ subs'[s].status = "NONE" <=> subs[s].status = "NONE"
                      /\ subs'[s].status = "ACTIVE" /\ subs'[s].price => subs[s].status = "ACTIVE" /\ subs[s].price

(* Request h uses the unused row s, and inserts no other. *)
Inserted(h, s) ==
    /\ h \in Inserting /\ s \in Unused
    /\ \E y \in Local : proc' = [proc EXCEPT ![h] = y] /\ (y = Idle \/ y.pc = "history")
    /\ \E row \in SubRow : /\ row.status # "NONE" /\ subs' = [subs EXCEPT ![s] = row]
                           /\ \/ manual' = manual
                              \/ manual' = [manual EXCEPT ![s] = "OWED"] /\ row.status = "PENDING"

(* Request h activates the subscription that it settles or confirms. *)
Activated(h) ==
    /\ proc[h].pc = "write" /\ proc[h].op \in {"settle", "confirm"} /\ manual' = manual
    /\ \E row \in SubRow : row.status # "NONE" /\ subs' = [subs EXCEPT ![proc[h].sub] = row]

(* Rows after the changes that the steps make. *)
LEMMA SubRows ==
    /\ \A x \in SubRow, st \in {"ACTIVE", "CANCELLED", "EXPIRED"} :
          LET y == [x EXCEPT !.status = st] IN y \in SubRow /\ y.status = st
    /\ \A x \in SubRow : LET y == [x EXCEPT !.lapsed = TRUE] IN y \in SubRow /\ y.status = x.status /\ y.price = x.price
    /\ \A x \in SubRow : LET y == [x EXCEPT !.status = "ACTIVE", !.paid = TRUE] IN y \in SubRow /\ y.status = "ACTIVE"
    /\ \A b \in BOOLEAN : LET y == [NoSub EXCEPT !.status = "ACTIVE", !.price = b, !.paid = b]
                          IN  y \in SubRow /\ y.status = "ACTIVE"
    /\ LET y == [NoSub EXCEPT !.status = "PENDING", !.price = TRUE] IN y \in SubRow /\ y.status = "PENDING"
  BY DEF SubRow, NoSub

(* What a step does to the subscriptions. *)
LEMMA SubsSteps ==
    ASSUME BillInv, PlanInv, [Next]_vars
    PROVE  Calm \/ (\E h \in Handler, s \in Sub : Inserted(h, s)) \/ \E h \in Handler : Activated(h)
<1> USE DEF BillInv, ProcShape, PlanInv, PlanShape
<1>0. Plan # 0 => Plan \in Sub /\ subs[Plan].status = "ACTIVE"
  BY PlanActive DEF Active
<1>1. CASE subs' = subs
  BY <1>1 DEF Calm
<1>2. ASSUME NEW s \in Sub, NEW st \in {"CANCELLED", "EXPIRED"}, subs[s].status # "NONE",
             subs' = [subs EXCEPT ![s].status = st]
      PROVE  Calm
  <2> DEFINE y == [subs[s] EXCEPT !.status = st]
  <2>1. subs' = [subs EXCEPT ![s] = y]
    BY <1>2
  <2>2. y \in SubRow /\ y.status = st
    BY DEF SubRow
  <2>3. st # "NONE" /\ st # "ACTIVE" /\ subs[s].status # "NONE"
    BY <1>2
  <2> HIDE DEF y
  <2> QED
    BY <2>1, <2>2, <2>3 DEF Calm
<1>3. CASE \E h \in Handler : Subscribe(h)
  <2> DEFINE y(s) == [subs[s] EXCEPT !.status = "CANCELLED"]
  <2>1. subs' = [s \in Sub |-> IF subs[s].status = "PENDING" THEN y(s) ELSE subs[s]]
    BY <1>3 DEF Subscribe
  <2>2. \A s \in Sub : y(s) \in SubRow /\ y(s).status = "CANCELLED"
    BY SubRows
  <2> HIDE DEF y
  <2> QED
    BY <2>1, <2>2 DEF Calm
<1>4. CASE \E h \in Handler : InsertPending(h)
  <2> PICK h \in Handler : InsertPending(h)
    BY <1>4
  <2>0. h \in Inserting
    BY DEF InsertPending, Inserting, Roles
  <2>b. Min(Unused) \in Unused
    BY <2>0, UnusedLeft
  <2> PICK m \in Sub : m = Min(Unused) /\ m \in Unused
    BY <2>b DEF Unused
  <2> DEFINE y == [NoSub EXCEPT !.status = "PENDING", !.price = TRUE]
             x == [proc[h] EXCEPT !.pc = "history", !.sub = m]
  <2>1. subs' = [subs EXCEPT ![m] = y] /\ manual' = [manual EXCEPT ![m] = "OWED"] /\ proc' = [proc EXCEPT ![h] = x]
    BY DEF InsertPending, Insert
  <2>2. y \in SubRow /\ y.status = "PENDING"
    BY SubRows
  <2>3. x \in Local /\ x.pc = "history"
    BY DEF Local
  <2> HIDE DEF x, y
  <2> QED
    BY <2>0, <2>1, <2>2, <2>3 DEF Inserted
<1>5. CASE \E h \in Handler : Find(h)
  <2>1. subs' = subs \/ (Plan # 0 /\ subs' = [subs EXCEPT ![Plan].status = "EXPIRED"])
    BY <1>5 DEF Find
  <2> QED
    BY <1>0, <1>1, <1>2, <2>1
<1>6. CASE \E h \in Handler : CancelPrev(h)
  BY <1>2, <1>6 DEF CancelPrev, Backed
<1>7. CASE \E h \in Handler : Write(h)
  <2> PICK h \in Handler : Write(h)
    BY <1>7
  <2>0. NewPlan(h) /\ manual' = manual /\ proc[h].pc = "write" /\ AfterWrite(h)
    BY DEF Write
  <2>1. CASE proc[h].op \in {"subscribeFree", "assignPlan"}
    <3> DEFINE b == proc[h].op = "assignPlan"
               y == [NoSub EXCEPT !.status = "ACTIVE", !.price = b, !.paid = b]
    <3>1. subs' = [subs EXCEPT ![Min(Unused)] = y]
      BY <2>0, <2>1 DEF NewPlan, Insert
    <3>2. y \in SubRow /\ y.status = "ACTIVE"
      BY SubRows
    <3> HIDE DEF y
    <3>3. h \in Inserting
      BY <2>0, <2>1 DEF Inserting
    <3>4. Min(Unused) \in Unused /\ Min(Unused) \in Sub
      BY <3>3, UnusedLeft DEF Unused
    <3>5. CASE proc[h].op = "subscribeFree"
      <4>1. proc' = [proc EXCEPT ![h] = Idle]
        BY <2>0, <3>5 DEF AfterWrite, Done
      <4> QED
        BY <2>0, <3>1, <3>2, <3>3, <3>4, <4>1, IdleLocal DEF Inserted
    <3>6. CASE proc[h].op = "assignPlan"
      <4> DEFINE x == [proc[h] EXCEPT !.pc = "history"]
      <4>1. proc' = [proc EXCEPT ![h] = x]
        BY <2>0, <3>6 DEF AfterWrite, Goto
      <4>2. x \in Local /\ x.pc = "history"
        BY DEF Local
      <4> HIDE DEF x
      <4> QED
        BY <2>0, <3>1, <3>2, <3>3, <3>4, <4>1, <4>2 DEF Inserted
    <3> QED
      BY <2>1, <3>5, <3>6
  <2>2. CASE proc[h].op \in {"settle", "confirm"}
    <3>1. proc[h].sub \in Sub
      BY <2>0, <2>2 DEF Entitled, Roles
    <3> DEFINE y == [subs[proc[h].sub] EXCEPT !.status = "ACTIVE", !.paid = TRUE]
    <3>2. subs' = [subs EXCEPT ![proc[h].sub] = y]
      BY <2>0, <2>2 DEF NewPlan
    <3>3. y \in SubRow /\ y.status = "ACTIVE"
      BY <3>1, SubRows
    <3> HIDE DEF y
    <3> QED
      BY <2>0, <2>2, <3>2, <3>3 DEF Activated
  <2>3. CASE proc[h].op \notin {"subscribeFree", "assignPlan", "settle", "confirm"}
    BY <1>1, <2>0, <2>3 DEF NewPlan
  <2> QED
    BY <2>1, <2>2, <2>3
<1>8. CASE \E r \in Reader : LoadEntitlements(r)
  <2>1. subs' = subs \/ (Plan # 0 /\ subs' = [subs EXCEPT ![Plan].status = "EXPIRED"])
    BY <1>8 DEF LoadEntitlements
  <2> QED
    BY <1>0, <1>1, <1>2, <2>1
<1>9. CASE \E s \in Sub : Lapse(s)
  <2> PICK s \in Sub : Lapse(s)
    BY <1>9
  <2> DEFINE y == [subs[s] EXCEPT !.lapsed = TRUE]
  <2>1. subs' = [subs EXCEPT ![s] = y]
    BY DEF Lapse
  <2>2. y \in SubRow /\ y.status = subs[s].status /\ y.price = subs[s].price
    BY SubRows
  <2> HIDE DEF y
  <2> QED
    BY <2>1, <2>2 DEF Calm
<1> QED
  BY <1>1, <1>3, <1>4, <1>5, <1>6, <1>7, <1>8, <1>9
  DEF Next, vars, subVars, Arrive, Step, Replace, Confirm, RecordReference, SaveConfirmed, RecordAssigned, Initiate,
      MarkTerminal, Settle, Terminate, LockRow, Validate, Book, Commit, ConnectTimeout, QueryFails, Die, CacheEntitlements,
      ExpireEntitlements

(* What the requests are about to activate exists. *)
LEMMA SubInUse ==
    ASSUME BillInv, PlanInv, NEW h \in Handler, proc[h].pc \in {"find", "cancelPrev", "write"},
           proc[h].op \in {"settle", "confirm"}
    PROVE  proc[h].sub \in Sub /\ subs[proc[h].sub].status # "NONE"
  BY BillingAssumption DEF BillInv, PlanInv, Roles, Backed, Entitled

(* Rows that are in use stay in use, and only an insertion uses another. *)
LEMMA UnusedSteps ==
    ASSUME BillInv, PlanInv, [Next]_vars
    PROVE  /\ subs' \in [Sub -> SubRow]
           /\ \A s \in Sub : subs[s].status # "NONE" => subs'[s].status # "NONE"
           /\ (\E h \in Handler, s \in Sub : Inserted(h, s)) \/ Unused' = Unused
<1>1. CASE Calm
  BY <1>1 DEF Calm, Unused
<1>2. CASE \E h \in Handler, s \in Sub : Inserted(h, s)
  BY <1>2 DEF Inserted, PlanInv, PlanShape
<1>3. CASE \E h \in Handler : Activated(h)
  BY <1>3, SubInUse DEF Activated, PlanInv, PlanShape, Unused
<1> QED
  BY <1>1, <1>2, <1>3, SubsSteps

(* What a step does to the references: each is inserted once, and COMPLETED at most later. *)
LEMMA ManualSteps ==
    ASSUME BillInv, PlanInv, [Next]_vars
    PROVE  /\ manual' \in [Sub -> {"NONE", "OWED", "PENDING", "COMPLETED"}]
           /\ \A s \in Sub : \/ manual'[s] = manual[s]
                             \/ manual[s] = "NONE" /\ subs[s].status = "NONE" /\ manual'[s] = "OWED"
                             \/ manual[s] = "OWED" /\ \E h \in Handler : Owing(h) /\ proc[h].sub = s /\ RecordReference(h) /\ manual'[s] = "PENDING"
                             \/ manual[s] \in {"PENDING", "COMPLETED"} /\ manual'[s] = "COMPLETED"
           /\ \A s \in Sub : subs'[s].status = "NONE" => manual'[s] = "NONE"
<1> USE DEF PlanInv, PlanShape, Backed
<1>1. CASE manual' = manual
  BY <1>1, UnusedSteps
<1>2. CASE \E h \in Handler : SaveConfirmed(h)
  <2> PICK h \in Handler : SaveConfirmed(h)
    BY <1>2
  <2>1. manual' = [manual EXCEPT ![proc[h].sub] = "COMPLETED"] /\ subs' = subs
    BY DEF SaveConfirmed
  <2>2. proc[h].sub \in Sub /\ manual[proc[h].sub] \in {"PENDING", "COMPLETED"}
    BY DEF SaveConfirmed, BillInv, Roles
  <2> QED
    BY <2>1, <2>2
<1>3. CASE \E h \in Handler : InsertPending(h)
  <2> PICK h \in Handler : InsertPending(h)
    BY <1>3
  <2>a. h \in Inserting
    BY DEF InsertPending, Inserting, BillInv, Roles
  <2>b. Min(Unused) \in Unused
    BY <2>a, UnusedLeft
  <2>0. PICK m \in Unused : m = Min(Unused)
    BY <2>b
  <2> DEFINE y == [NoSub EXCEPT !.status = "PENDING", !.price = TRUE]
  <2>1. manual' = [manual EXCEPT ![m] = "OWED"] /\ subs' = [subs EXCEPT ![m] = y]
    BY <2>0 DEF InsertPending, Insert
  <2>2. y.status = "PENDING" /\ m \in Sub /\ subs[m].status = "NONE"
    BY SubRows DEF Unused
  <2> HIDE DEF y
  <2> QED
    BY <2>1, <2>2
<1>4. CASE \E h \in Handler : RecordReference(h)
  <2> PICK h \in Handler : RecordReference(h)
    BY <1>4
  <2>1. Owing(h) /\ manual' = [manual EXCEPT ![proc[h].sub] = "PENDING"] /\ subs' = subs
    BY DEF RecordReference, Owing
  <2>2. proc[h].sub \in Sub /\ manual[proc[h].sub] = "OWED"
    BY <2>1 DEF Owed
  <2> QED
    BY <2>1, <2>2
<1> QED
  BY <1>1, <1>2, <1>3, <1>4
  DEF Next, vars, subVars, Arrive, Step, Subscribe, Replace, Confirm, Find, CancelPrev, Write, RecordAssigned, Initiate,
      MarkTerminal, Settle, Terminate, LockRow, Validate, Book, Commit, ConnectTimeout, QueryFails, Die, LoadEntitlements,
      CacheEntitlements, ExpireEntitlements, Lapse

(* What a step does to the gateway's side and to the subscriptions of payments. *)
LEMMA GatewaySteps ==
    ASSUME BillInv, PlanInv, [Next]_vars
    PROVE  /\ gateway' \in [Payment -> {"none", "open", "short", "full"}]
           /\ \A p \in Payment : gateway[p] = "full" => gateway'[p] = "full"
           /\ \A p \in Payment : pays'[p].status = "NONE" => gateway'[p] = "none" /\ pays'[p].sub = None
           /\ \A p \in Payment : pays'[p].sub # None => subs'[pays'[p].sub].status # "NONE"
<1> USE DEF BillInv, PayShape, PlanInv, PlanShape, Backed
<1>0. \A s \in Sub : subs[s].status # "NONE" => subs'[s].status # "NONE"
  BY UnusedSteps
<1>A. \A p \in Payment : pays[p].sub \in Sub \cup {None}
  BY DEF PayRow
<1>1. CASE pays' = pays /\ gateway' = gateway
  BY <1>0, <1>A, <1>1
<1>2. CASE \E p \in Payment : Initiate(p)
  <2> PICK p \in Payment : Initiate(p)
    BY <1>2
  <2>1. PICK s \in {t \in Sub : subs[t].status = "PENDING"} \cup {None}, st \in {"PENDING", "FAILED"} :
            pays' = [pays EXCEPT ![p] = [status |-> st, sub |-> s]]
    BY DEF Initiate
  <2>2. pays[p].status = "NONE" /\ subs' = subs /\ (gateway' = gateway \/ gateway' = [gateway EXCEPT ![p] = "open"])
    BY DEF Initiate, subVars
  <2> QED
    BY <1>A, <2>1, <2>2
<1>3. CASE \E h \in Handler : MarkTerminal(h)
  <2> PICK h \in Handler : MarkTerminal(h)
    BY <1>3
  <2>1. gateway' = gateway
    BY TerminalSteps
  <2> QED
    BY <1>0, <1>A, <1>1, <2>1, TerminalSteps
<1>4. CASE \E h \in Handler : Commit(h)
  <2> PICK h \in Handler : Commit(h)
    BY <1>4
  <2>0. PICK p \in Payment : p = proc[h].pay
    BY DEF Commit, Roles
  <2> DEFINE y == [pays[p] EXCEPT !.status = "PAID"]
  <2>1. pays' = [pays EXCEPT ![p] = y] /\ gateway' = gateway
    BY <2>0 DEF Commit
  <2>2. y.status = "PAID" /\ y.sub = pays[p].sub
    BY DEF PayRow
  <2> HIDE DEF y
  <2> QED
    BY <1>0, <1>A, <2>1, <2>2
<1>5. CASE \E h \in Handler : Validate(h)
  <2> PICK h \in Handler : Validate(h)
    BY <1>5
  <2>0. PICK p \in Payment : p = proc[h].pay /\ pays[p].status # "NONE"
    BY DEF Validate, Roles
  <2>1. PICK sum \in Paid(p) : gateway' = [gateway EXCEPT ![p] = sum]
    BY <2>0 DEF Validate
  <2>2. pays' = pays /\ subs' = subs
    BY DEF Validate, subVars
  <2>3. sum \in {"none", "open", "short", "full"} /\ (gateway[p] = "full" => sum = "full")
    BY DEF Paid
  <2> QED
    BY <2>0, <2>1, <2>2, <2>3
<1> QED
  BY <1>1, <1>2, <1>3, <1>4, <1>5
  DEF Next, vars, payVars, Arrive, Step, Subscribe, InsertPending, RecordReference, Replace, Confirm, SaveConfirmed, Find,
      CancelPrev, Write, RecordAssigned, Settle, Terminate, LockRow, Book, ConnectTimeout, QueryFails, Die, LoadEntitlements,
      CacheEntitlements, ExpireEntitlements, Lapse

(* What a request that does something holds afterwards. *)
Sound(x) ==
    /\ x.pc = "cancelPrev" => x.prev \in Sub /\ subs[x.prev].status # "NONE"
    /\ x.op = "subscribe" => x.pc \in {"insert", "history"}
    /\ x.op \notin {"settle", "confirm", "subscribe"} => x.sub = None
    /\ x.op = "confirm" => manual[x.sub] \in {"PENDING", "COMPLETED"}
    /\ x.pc \in {"find", "cancelPrev", "write"} =>
          /\ x.op = "settle" => x.sub \in Sub /\ x.sub = pays[x.pay].sub /\ gateway[x.pay] = "full"
          /\ x.op = "confirm" => manual[x.sub] = "COMPLETED"

(* What was sound stays so in every step that leaves the request alone. *)
LEMMA SoundStays ==
    ASSUME BillInv, PlanInv, [Next]_vars, NEW x \in Local, Sound(x), x.op = "confirm" => x.sub \in Sub,
           x.op = "settle" => x.pay \in Payment /\ pays[x.pay].status # "NONE"
    PROVE  Sound(x)'
<1>1. x.op = "confirm" => manual'[x.sub] \in {"PENDING", "COMPLETED"} /\ (manual[x.sub] = "COMPLETED" => manual'[x.sub] = "COMPLETED")
  BY ManualSteps DEF Sound, PlanInv, Backed
<1>2. x.op = "settle" => pays'[x.pay].sub = pays[x.pay].sub /\ (gateway[x.pay] = "full" => gateway'[x.pay] = "full")
  BY PayChange, GatewaySteps
<1>3. x.pc = "cancelPrev" => x.prev \in Sub /\ subs'[x.prev].status # "NONE"
  BY UnusedSteps DEF Sound
<1> QED
  BY <1>1, <1>2, <1>3 DEF Sound

(* The step of a request leaves it sound. *)
LEMMA SoundStep ==
    ASSUME BillInv, PlanInv, [Next]_vars, NEW h \in Handler, Step(h) \/ QueryFails(h) \/ Die(h)
    PROVE  Sound(proc[h])'
<1> USE DEF BillInv, ProcShape
<1>0. proc[h] \in Local /\ Sound(proc[h]) /\ (proc[h].op = "confirm" => proc[h].sub \in Sub)
      /\ (proc[h].op = "settle" => proc[h].pay \in Payment /\ pays[proc[h].pay].status # "NONE")
  BY DEF PlanInv, Backed, Entitled, Sound, Roles
<1>1. ASSUME Done(h) PROVE Sound(proc[h])'
  BY <1>1 DEF Done, Idle, Sound
<1>2. ASSUME NEW pc \in {"validate", "history", "write", "book", "commit"}, Goto(h, pc),
             proc[h].pc \in {"find", "cancelPrev", "write"} \/ pc # "write", proc[h].op # "subscribe"
      PROVE  Sound(proc[h])'
  <2> DEFINE y == [proc[h] EXCEPT !.pc = pc]
  <2>1. proc'[h] = y
    BY <1>2 DEF Goto
  <2>2. y \in Local /\ y.pc = pc /\ y.op = proc[h].op /\ y.sub = proc[h].sub /\ y.pay = proc[h].pay
    BY <1>0 DEF Local
  <2> HIDE DEF y
  <2>3. Sound(y)
    BY <1>0, <1>2, <2>2 DEF Sound
  <2>4. PICK x \in Local : x = y
    BY <2>2
  <2>5. Sound(x)'
    BY <1>0, <2>2, <2>3, <2>4, SoundStays
  <2> QED
    BY <2>1, <2>4, <2>5 DEF Sound
<1>3. CASE Find(h)
  <2>1. Plan # 0 => Plan \in Sub /\ subs[Plan].status # "NONE"
    BY PlanActive DEF Active
  <2>2. PICK pc \in {"cancelPrev", "write"}, s \in Sub \cup {None} :
            /\ proc' = [proc EXCEPT ![h] = [proc[h] EXCEPT !.pc = pc, !.prev = s]]
            /\ pc = "cancelPrev" => s \in Sub /\ subs[s].status # "NONE"
    BY <1>3, <2>1 DEF Find
  <2> DEFINE y == [proc[h] EXCEPT !.pc = pc, !.prev = s]
  <2>3. proc'[h] = y
    BY <2>2
  <2>4. y \in Local /\ y.pc = pc /\ y.op = proc[h].op /\ y.sub = proc[h].sub /\ y.pay = proc[h].pay /\ y.prev = s
    BY <1>0 DEF Local
  <2> HIDE DEF y
  <2>5. proc[h].pc = "find" /\ (pc = "cancelPrev" => s \in Sub /\ subs[s].status # "NONE")
    BY <1>3, <2>2 DEF Find
  <2>6. Sound(y)
    BY <1>0, <2>4, <2>5 DEF Sound
  <2>7. PICK x \in Local : x = y
    BY <2>4
  <2>8. Sound(x)'
    BY <1>0, <2>4, <2>6, <2>7, SoundStays
  <2> QED
    BY <2>3, <2>7, <2>8 DEF Sound
<1>4. CASE SaveConfirmed(h)
  <2> DEFINE y == [proc[h] EXCEPT !.pc = "find"]
  <2>1. proc'[h] = y /\ proc[h].op = "confirm" /\ manual'[proc[h].sub] = "COMPLETED"
    BY <1>0, <1>4 DEF SaveConfirmed, Goto, Roles, PlanInv, PlanShape
  <2>2. y.pc = "find" /\ y.op = proc[h].op /\ y.sub = proc[h].sub
    BY <1>0 DEF Local
  <2> HIDE DEF y
  <2> QED
    BY <2>1, <2>2 DEF Sound
<1>5. CASE Validate(h)
  <2>1. CASE ~Done(h)
    <3>0. PICK p \in Payment : p = proc[h].pay
      BY <1>5 DEF Validate, Roles
    <3> DEFINE y == [proc[h] EXCEPT !.sub = pays[p].sub, !.pc = AfterValidation(p)]
    <3>1. proc'[h] = y /\ pays' = pays /\ gateway' = [gateway EXCEPT ![p] = "full"] /\ proc[h].op = "settle"
      BY <1>5, <2>1, <3>0 DEF Validate, Roles
    <3>2. y.pc = AfterValidation(p) /\ y.op = proc[h].op /\ y.sub = pays[p].sub /\ y.pay = p
      BY <1>0, <3>0 DEF Local
    <3>3. pays[p].sub \in Sub \cup {None} /\ gateway'[p] = "full"
      BY <3>1 DEF PayShape, PayRow, PlanInv, PlanShape
    <3> HIDE DEF y
    <3> QED
      BY <3>1, <3>2, <3>3 DEF Sound, AfterValidation
  <2> QED
    BY <1>1, <2>1
<1>6. CASE RecordReference(h) \/ RecordAssigned(h) \/ MarkTerminal(h) \/ Commit(h) \/ Die(h)
  BY <1>1, <1>6 DEF RecordReference, RecordAssigned, MarkTerminal, Commit, Die
<1>7. CASE CancelPrev(h)
  BY <1>0, <1>2, <1>7 DEF CancelPrev, Sound
<1>8. CASE Book(h) \/ ConnectTimeout(h) \/ QueryFails(h)
  BY <1>0, <1>1, <1>2, <1>8 DEF Book, ConnectTimeout, QueryFails, GiveUp, Sound, Roles
<1>9. CASE Write(h)
  BY <1>0, <1>1, <1>2, <1>9, WriteGoes
<1>10. CASE LockRow(h)
  <2>1. Done(h) \/ (Goto(h, "validate") /\ proc[h].op = "settle")
    BY <1>10 DEF LockRow
  <2> QED
    BY <1>1, <1>2, <2>1
<1>11. CASE InsertPending(h)
  <2> DEFINE y == [proc[h] EXCEPT !.pc = "history", !.sub = Min(Unused)]
  <2>1. proc'[h] = y /\ proc[h].op = "subscribe"
    BY <1>11 DEF InsertPending, Roles
  <2>2. y.pc = "history" /\ y.op = proc[h].op
    BY <1>0 DEF Local
  <2> HIDE DEF y
  <2> QED
    BY <2>1, <2>2 DEF Sound
<1> QED
  BY <1>3, <1>4, <1>5, <1>6, <1>7, <1>8, <1>9, <1>10, <1>11 DEF Step

(* All requests stay sound. *)
LEMMA RequestSteps == ASSUME BillInv, PlanInv, [Next]_vars, NEW g \in Handler PROVE Sound(proc[g])'
<1> USE DEF BillInv, ProcShape
<1>1. CASE proc'[g] = proc[g]
  <2>1. PICK x \in Local : x = proc[g]
    OBVIOUS
  <2>2. Sound(x) /\ (x.op = "confirm" => x.sub \in Sub)
        /\ (x.op = "settle" => x.pay \in Payment /\ pays[x.pay].status # "NONE")
    BY <2>1 DEF PlanInv, Backed, Entitled, Sound, Roles
  <2>3. Sound(x)'
    BY <2>2, SoundStays
  <2> QED
    BY <1>1, <2>1, <2>3 DEF Sound
<1>2. CASE \E h \in Handler : Arrive(h)
  <2> PICK h \in Handler : Arrive(h)
    BY <1>2
  <2>1. PICK y : Fresh(y) /\ proc' = [proc EXCEPT ![h] = y]
    BY ArriveSteps
  <2>2. y.op = "confirm" => manual'[y.sub] \in {"PENDING", "COMPLETED"}
    BY <2>1, ManualSteps DEF Fresh, PlanInv, Backed
  <2>3. CASE g = h
    BY <2>1, <2>2, <2>3 DEF Fresh, Sound
  <2> QED
    BY <1>1, <2>1, <2>3
<1>3. CASE \E h \in Handler : Step(h) \/ QueryFails(h) \/ Die(h)
  <2> PICK h \in Handler : Step(h) \/ QueryFails(h) \/ Die(h)
    BY <1>3
  <2>1. CASE g = h
    BY <2>1, SoundStep
  <2>2. PICK y \in Local : proc' = [proc EXCEPT ![h] = y]
    BY HandlerSteps, GoesOnAlone DEF PlanInv
  <2> QED
    BY <1>1, <2>1, <2>2
<1> QED
  BY <1>1, <1>2, <1>3, NextSteps

(* One more element is at most one more. *)
LEMMA OneMore ==
    ASSUME NEW S, NEW x, IsFiniteSet(S)
    PROVE  IsFiniteSet(S \cup {x}) /\ Cardinality(S \cup {x}) <= Cardinality(S) + 1
<1> DEFINE c == Cardinality(S)
          d == Cardinality(S \cup {x})
<1>1. IsFiniteSet(S \cup {x}) /\ d = IF x \in S THEN c ELSE c + 1
  BY FS_AddElement
<1>2. c \in Nat
  BY FS_CardinalityType
<1> HIDE DEF c, d
<1>3. d <= c + 1
  BY <1>1, <1>2
<1> QED
  BY <1>1, <1>3 DEF c, d

(* A request that will insert is let in only while rows are left, and uses one as it leaves. *)
LEMMA RoomyStep == ASSUME BillInv, PlanInv, [Next]_vars PROVE Roomy'
<1> USE DEF BillInv, ProcShape, PlanInv
<1>0. IsFiniteSet(Unused) /\ IsFiniteSet(Inserting) /\ Cardinality(Inserting) \in Nat /\ Cardinality(Unused) \in Nat
  <2>1. IsFiniteSet(Sub)
    BY BillingAssumption, FS_Interval DEF Sub
  <2>2. IsFiniteSet(Unused)
    BY <2>1, FS_Subset DEF Unused
  <2> QED
    BY <2>2, FS_CardinalityType DEF Roomy
<1>1. CASE \E h \in Handler, s \in Sub : Inserted(h, s)
  <2> PICK h \in Handler, s \in Sub : Inserted(h, s)
    BY <1>1
  <2>1. h \in Inserting /\ Inserting' = Inserting \ {h}
    BY IdleLocal DEF Inserted, Done, Inserting
  <2>2. s \in Unused /\ Unused' = Unused \ {s}
    BY DEF Inserted, Unused, PlanShape
  <2>3. IsFiniteSet(Inserting \ {h}) /\ Cardinality(Inserting \ {h}) = Cardinality(Inserting) - 1
    BY <1>0, <2>1, FS_RemoveElement
  <2>4. Cardinality(Unused \ {s}) = Cardinality(Unused) - 1
    BY <1>0, <2>2, FS_RemoveElement
  <2> QED
    BY <1>0, <2>1, <2>2, <2>3, <2>4 DEF Roomy
<1>2. ASSUME Unused' = Unused, Inserting' \subseteq Inserting PROVE Roomy'
  <2>1. IsFiniteSet(Inserting') /\ Cardinality(Inserting') <= Cardinality(Inserting)
    BY <1>0, <1>2, FS_Subset
  <2>2. Cardinality(Inserting') \in Nat
    BY <2>1, FS_CardinalityType
  <2> QED
    BY <1>0, <1>2, <2>1, <2>2 DEF Roomy
<1>3. CASE Unused' = Unused
  <2>1. CASE \E h \in Handler : Arrive(h)
    <3> PICK h \in Handler : Arrive(h)
      BY <2>1
    <3>1. PICK y : Fresh(y) /\ proc' = [proc EXCEPT ![h] = y]
      BY ArriveSteps
    <3>2. Inserting' \subseteq Inserting \/ (Room /\ Inserting' \subseteq Inserting \cup {h})
      BY <3>1 DEF Inserting, Fresh
    <3>3. ASSUME Room, Inserting' \subseteq Inserting \cup {h} PROVE Roomy'
      <4>1. IsFiniteSet(Inserting \cup {h}) /\ Cardinality(Inserting \cup {h}) <= Cardinality(Inserting) + 1
        BY <1>0, OneMore
      <4>2. IsFiniteSet(Inserting') /\ Cardinality(Inserting') <= Cardinality(Inserting \cup {h})
        BY <3>3, <4>1, FS_Subset
      <4>3. Cardinality(Inserting') \in Nat /\ Cardinality(Inserting \cup {h}) \in Nat
        BY <4>1, <4>2, FS_CardinalityType
      <4> QED
        BY <1>0, <1>3, <3>3, <4>1, <4>2, <4>3 DEF Roomy, Room
    <3> QED
      BY <1>2, <1>3, <3>2, <3>3
  <2>2. CASE \E h \in Handler : GoesOn(h)
    <3>1. Inserting' \subseteq Inserting
      BY <2>2, IdleLocal DEF GoesOn, Done, Follows, Inserting
    <3> QED
      BY <1>2, <1>3, <3>1
  <2>3. CASE proc' = proc
    BY <1>2, <1>3, <2>3 DEF Inserting
  <2> QED
    BY <2>1, <2>2, <2>3, HandlerSteps, NextSteps
<1> QED
  BY <1>1, <1>3, UnusedSteps

(* A reference is owed for a subscription of its own until it is recorded. *)
LEMMA OwedStep == ASSUME BillInv, PlanInv, [Next]_vars PROVE Owed'
<1> USE DEF BillInv, ProcShape, PlanInv, Owed, Owing
<1>1. ASSUME NEW h \in Handler, Owing(h), proc'[h] = proc[h] PROVE manual'[proc[h].sub] = "OWED"
  <2>1. PICK s \in Sub : s = proc[h].sub /\ manual[s] = "OWED"
    BY <1>1
  <2>2. ASSUME NEW g \in Handler, Owing(g), proc[g].sub = s, RecordReference(g) PROVE FALSE
    <3>1. g = h /\ proc'[g] = Idle
      BY <1>1, <2>1, <2>2 DEF RecordReference, Done
    <3> QED
      BY <1>1, <3>1, IdleLocal
  <2> QED
    BY <2>1, <2>2, ManualSteps
<1>2. ASSUME NEW h \in Handler, InsertPending(h)
      PROVE  /\ proc'[h].sub \in Unused /\ manual'[proc'[h].sub] = "OWED"
             /\ \A g \in Handler : g # h => proc'[g] = proc[g]
  <2>1. h \in Inserting
    BY <1>2 DEF InsertPending, Inserting, Roles
  <2>2. Min(Unused) \in Unused
    BY <2>1, UnusedLeft
  <2> PICK m \in Sub : m = Min(Unused) /\ m \in Unused
    BY <2>2 DEF Unused
  <2> DEFINE x == [proc[h] EXCEPT !.pc = "history", !.sub = m]
  <2>3. proc' = [proc EXCEPT ![h] = x] /\ manual' = [manual EXCEPT ![m] = "OWED"]
    BY <1>2 DEF InsertPending
  <2>4. x.sub = m
    BY DEF Local
  <2> HIDE DEF x
  <2> QED
    BY <2>3, <2>4 DEF PlanShape
<1>3. \A h \in Handler : Owing(h) => proc[h].sub \in Sub \ Unused
  BY DEF Backed, Unused
<1>4. ASSUME NEW h \in Handler, Owing(h)' PROVE (Owing(h) /\ proc'[h] = proc[h]) \/ InsertPending(h)
  <2>1. CASE \E g \in Handler : Arrive(g)
    <3> PICK g \in Handler : Arrive(g)
      BY <2>1
    <3>1. PICK y : Fresh(y) /\ proc' = [proc EXCEPT ![g] = y]
      BY ArriveSteps
    <3> QED
      BY <1>4, <3>1 DEF Fresh
  <2>2. CASE \E g \in Handler : Step(g) \/ QueryFails(g) \/ Die(g)
    <3> PICK g \in Handler : Step(g) \/ QueryFails(g) \/ Die(g)
      BY <2>2
    <3>1. GoesOn(g)
      BY HandlerSteps
    <3>2. CASE g # h
      BY <1>4, <3>1, <3>2 DEF GoesOn, Done
    <3>3. CASE g = h /\ ~InsertPending(h)
      <4>1. ~Done(h) /\ proc'[h].op = proc[h].op
        BY <1>4, <3>1, <3>3, IdleLocal DEF GoesOn, Done, Follows
      <4>2. ASSUME NEW pc \in {"validate", "find", "write", "book", "commit"}, Goto(h, pc) PROVE FALSE
        BY <1>4, <4>2 DEF Goto, Local
      <4>3. ~RecordReference(h) /\ ~RecordAssigned(h) /\ ~MarkTerminal(h) /\ ~Commit(h) /\ ~Die(h)
        BY <4>1 DEF RecordReference, RecordAssigned, MarkTerminal, Commit, Die
      <4>4. ~Write(h)
        BY <1>4, <4>1, <4>2, WriteGoes
      <4>5. ~SaveConfirmed(h) /\ ~CancelPrev(h) /\ ~Book(h) /\ ~LockRow(h)
        BY <4>1, <4>2 DEF SaveConfirmed, CancelPrev, Book, LockRow
      <4>6. ~Validate(h) /\ ~Find(h)
        BY <1>4, <4>1 DEF Validate, Find, Roles, Entitled
      <4>7. ~ConnectTimeout(h) /\ ~QueryFails(h)
        BY <4>1, <4>2 DEF ConnectTimeout, QueryFails, GiveUp
      <4> QED
        BY <3>3, <4>3, <4>4, <4>5, <4>6, <4>7 DEF Step
    <3> QED
      BY <3>2, <3>3
  <2>3. CASE proc' = proc
    BY <1>4, <2>3
  <2> QED
    BY <2>1, <2>2, <2>3, NextSteps
<1>5. ASSUME NEW h \in Handler, Owing(h)' PROVE proc'[h].sub \in Sub /\ manual'[proc'[h].sub] = "OWED"
  BY <1>1, <1>2, <1>4, <1>5 DEF Unused
<1>6. ASSUME NEW g \in Handler, NEW h \in Handler, Owing(g)', Owing(h)', proc'[g].sub = proc'[h].sub PROVE g = h
  BY <1>2, <1>3, <1>4, <1>6
<1> QED
  BY <1>5, <1>6

(* Every step keeps PlanInv. *)
LEMMA PlanStep == ASSUME BillInv, PlanInv, [Next]_vars PROVE PlanInv'
<1>1. PlanShape' /\ Backed' /\ \A h \in Handler : Entitled(h)'
  BY UnusedSteps, ManualSteps, GatewaySteps, RequestSteps DEF PlanShape, Backed, Entitled, Sound
<1>2. ASSUME NEW s \in Sub, subs[s].status = "ACTIVE", subs[s].price
      PROVE  \/ manual'[s] = "COMPLETED"
             \/ manual'[s] = "NONE"
             \/ \E p \in Payment : pays'[p].sub = s /\ gateway'[p] = "full"
  <2>1. CASE manual[s] \in {"COMPLETED", "NONE"}
    BY <1>2, <2>1, ManualSteps
  <2>2. CASE \E p \in Payment : pays[p].sub = s /\ gateway[p] = "full"
    <3> PICK p \in Payment : pays[p].sub = s /\ gateway[p] = "full"
      BY <2>2
    <3>1. pays[p].status # "NONE"
      BY DEF PlanInv, Backed
    <3> QED
      BY <3>1, PayChange, GatewaySteps
  <2> QED
    BY <1>2, <2>1, <2>2 DEF PlanInv, OnlyPaidIsActive
<1>3. ASSUME Calm PROVE OnlyPaidIsActive'
  BY <1>2, <1>3 DEF Calm, OnlyPaidIsActive
<1>4. ASSUME NEW h \in Handler, NEW t \in Sub, Inserted(h, t) PROVE OnlyPaidIsActive'
  <2>1. \A s \in Sub : s # t => subs'[s] = subs[s]
    BY <1>4 DEF Inserted, PlanInv, PlanShape
  <2>2. subs'[t].status = "ACTIVE" => manual'[t] = "NONE"
    BY <1>4 DEF Inserted, PlanInv, PlanShape, Backed, Unused
  <2> QED
    BY <1>2, <2>1, <2>2 DEF OnlyPaidIsActive
<1>5. ASSUME NEW h \in Handler, Activated(h) PROVE OnlyPaidIsActive'
  <2>1. \A s \in Sub : s # proc[h].sub => subs'[s] = subs[s]
    BY <1>5 DEF Activated, PlanInv, PlanShape
  <2>2. CASE proc[h].op = "confirm"
    <3>1. manual'[proc[h].sub] = "COMPLETED"
      BY <1>5, <2>2 DEF Activated, PlanInv, Entitled
    <3> QED
      BY <1>2, <2>1, <3>1 DEF OnlyPaidIsActive
  <2>3. CASE proc[h].op = "settle"
    <3>1. PICK p \in Payment : pays[p].sub = proc[h].sub /\ gateway[p] = "full" /\ pays[p].status # "NONE"
      BY <1>5, <2>3 DEF Activated, PlanInv, Entitled, BillInv, Roles
    <3>2. pays'[p].sub = proc[h].sub /\ gateway'[p] = "full"
      BY <3>1, PayChange, GatewaySteps
    <3> QED
      BY <1>2, <2>1, <3>2 DEF OnlyPaidIsActive
  <2> QED
    BY <1>5, <2>2, <2>3 DEF Activated
<1> QED
  BY <1>1, <1>3, <1>4, <1>5, SubsSteps, OwedStep, RoomyStep DEF PlanInv

(* It holds at first. *)
LEMMA PlanInit == Init => PlanInv
<1> SUFFICES ASSUME Init PROVE PlanInv
  OBVIOUS
<1>1. PlanShape /\ Backed /\ Owed /\ (\A h \in Handler : Entitled(h)) /\ OnlyPaidIsActive
  BY IdleLocal DEF Init, Idle, PlanShape, Backed, Owed, Owing, Entitled, OnlyPaidIsActive, SubRow, NoSub, NoPay
<1>2. Inserting = {}
  BY IdleLocal DEF Init, Inserting
<1>3. IsFiniteSet(Unused)
  <2>1. IsFiniteSet(Sub)
    BY BillingAssumption, FS_Interval DEF Sub
  <2> QED
    BY <2>1, FS_Subset DEF Unused
<1>4. Roomy
  BY <1>2, <1>3, FS_EmptySet, FS_CardinalityType DEF Roomy
<1> QED
  BY <1>1, <1>4 DEF PlanInv

(* What is known of the requests, the payments and the subscriptions in every state. *)
LEMMA Invariants == Spec => [](BillInv /\ PlanInv /\ Roomy)
<1>1. PlanInv => Roomy
  BY DEF PlanInv
<1> QED
  BY <1>1, BillInvInit, BillInvStep, PlanInit, PlanStep, PTL DEF Spec

(* A PAID payment stays PAID, for any number of callbacks in any order (settlePayment,
   markTerminal). *)
THEOREM PaidStaysHolds == Spec => PaidStays
<1>1. BillInv /\ [Next]_vars => [\A p \in Payment : pays[p].status = "PAID" => pays'[p].status = "PAID"]_vars
  BY PayChange
<1> QED
  BY <1>1, Invariants, PTL DEF Spec, PaidStays

(* A payment adds its SMS credits once, however often the gateway calls back: the second
   settlement finds the payment PAID under the lock. *)
THEOREM CreditsOnceHolds == Spec => []CreditsOnce
<1>1. Init => CreditsShape /\ CreditsOnce
  BY DEF Init, CreditsShape, CreditsOnce, NoPay
<1> QED
  BY <1>1, Invariants, CreditsStep, PTL DEF Spec

(* The history shows a payment once, but for the settlements that were rolled back after
   they booked it (settlePayment's transaction does not hold the activation's). *)
THEOREM BookedOnceHolds == Spec => []BookedOnce
<1>1. Init => BookInv
  BY DEF Init, BookInv, BookShape
<1>2. BookInv => BookedOnce
  BY DEF BookInv, BookShape, BookedOnce
<1> QED
  BY <1>1, <1>2, Invariants, BookStep, PTL DEF Spec

(* Nobody has an active plan with a price but by a payment in full, an admin who confirmed
   the reference or an admin who assigned it, whatever the requests that change the plan do to
   each other. *)
THEOREM OnlyPaidHolds == Spec => []OnlyPaidIsActive
<1>1. PlanInv => OnlyPaidIsActive
  BY DEF PlanInv
<1> QED
  BY <1>1, Invariants, PTL DEF Spec

-----------------------------------------------------------------------------
(* What a step does to the active subscriptions. *)
LEMMA ActiveSteps ==
    ASSUME BillInv, PlanInv, [Next]_vars
    PROVE  \/ Active' = Active
           \/ Plan # 0 /\ Active' = Active \ {Plan} /\ \E h \in Handler : Find(h)
           \/ Plan # 0 /\ Active' = Active \ {Plan} /\ copy' = None /\ proc' = proc
           \/ \E h \in Handler : CancelPrev(h) /\ Active' = Active \ {proc[h].prev}
           \/ \E h \in Handler : Write(h)
<1> USE DEF BillInv, ProcShape, PlanInv, PlanShape
<1>0. Plan # 0 => Plan \in Sub /\ subs[Plan].status = "ACTIVE"
  BY PlanActive DEF Active
<1>1. CASE subs' = subs
  BY <1>1 DEF Active
<1>2. ASSUME NEW s \in Sub, NEW st \in {"CANCELLED", "EXPIRED"}, subs' = [subs EXCEPT ![s].status = st]
      PROVE  Active' = Active \ {s}
  <2> DEFINE y == [subs[s] EXCEPT !.status = st]
  <2>1. subs' = [subs EXCEPT ![s] = y]
    BY <1>2
  <2>2. y.status # "ACTIVE"
    BY DEF SubRow
  <2> HIDE DEF y
  <2> QED
    BY <2>1, <2>2 DEF Active
<1>3. CASE \E h \in Handler : Subscribe(h)
  <2> DEFINE y(s) == [subs[s] EXCEPT !.status = "CANCELLED"]
  <2>1. subs' = [s \in Sub |-> IF subs[s].status = "PENDING" THEN y(s) ELSE subs[s]]
    BY <1>3 DEF Subscribe
  <2>2. \A s \in Sub : y(s).status = "CANCELLED"
    BY SubRows
  <2> HIDE DEF y
  <2> QED
    BY <2>1, <2>2 DEF Active
<1>4. CASE \E h \in Handler : InsertPending(h)
  <2> PICK h \in Handler : InsertPending(h)
    BY <1>4
  <2>a. h \in Inserting
    BY DEF InsertPending, Inserting, Roles
  <2>b. Min(Unused) \in Unused
    BY <2>a, UnusedLeft
  <2>0. PICK m \in Unused : m = Min(Unused)
    BY <2>b
  <2> DEFINE y == [NoSub EXCEPT !.status = "PENDING", !.price = TRUE]
  <2>1. subs' = [subs EXCEPT ![m] = y]
    BY <2>0 DEF InsertPending, Insert
  <2>2. y.status = "PENDING" /\ m \in Sub /\ subs[m].status = "NONE"
    BY SubRows DEF Unused
  <2> HIDE DEF y
  <2> QED
    BY <2>1, <2>2 DEF Active
<1>5. CASE \E h \in Handler : Find(h)
  <2> PICK h \in Handler : Find(h)
    BY <1>5
  <2>1. subs' = subs \/ (Plan # 0 /\ subs' = [subs EXCEPT ![Plan].status = "EXPIRED"])
    BY DEF Find
  <2> QED
    BY <1>0, <1>1, <1>2, <2>1
<1>6. CASE \E h \in Handler : CancelPrev(h)
  BY <1>2, <1>6 DEF CancelPrev, Backed
<1>7. CASE \E r \in Reader : LoadEntitlements(r)
  <2>1. subs' = subs \/ (Plan # 0 /\ subs' = [subs EXCEPT ![Plan].status = "EXPIRED"] /\ copy' = None /\ proc' = proc)
    BY <1>7 DEF LoadEntitlements
  <2> QED
    BY <1>0, <1>1, <1>2, <2>1
<1>8. CASE \E s \in Sub : Lapse(s)
  <2> PICK s \in Sub : Lapse(s)
    BY <1>8
  <2> DEFINE y == [subs[s] EXCEPT !.lapsed = TRUE]
  <2>1. subs' = [subs EXCEPT ![s] = y]
    BY DEF Lapse
  <2>2. y.status = subs[s].status
    BY SubRows
  <2> HIDE DEF y
  <2> QED
    BY <2>1, <2>2 DEF Active
<1> QED
  BY <1>1, <1>3, <1>4, <1>5, <1>6, <1>7, <1>8
  DEF Next, vars, subVars, Arrive, Step, Replace, Confirm, RecordReference, SaveConfirmed, RecordAssigned, Initiate,
      MarkTerminal, Settle, Terminate, LockRow, Validate, Book, Commit, ConnectTimeout, QueryFails, Die, CacheEntitlements,
      ExpireEntitlements

(* The plan is a matter of the active subscriptions. *)
LEMMA PlanKept == ASSUME Active' = Active PROVE Plan' = Plan
  BY DEF Plan, Newest

(* A change that is under way ends by dropping the copy or by tainting it. *)
LEMMA ChangeEnds ==
    ASSUME BillInv, PlanInv, [Next]_vars, NEW h \in Handler, HasToDrop(h), ~HasToDrop(h)'
    PROVE  copy' = None \/ tainted'
<1> USE DEF BillInv, ProcShape
<1>1. proc'[h] # proc[h] /\ proc[h].pc \in {"write", "history"} /\ proc[h] # Idle
  BY IdleLocal DEF HasToDrop
<1>2. ASSUME NEW g \in Handler, Arrive(g) PROVE FALSE
  <2>1. proc[g] = Idle /\ \E y : proc' = [proc EXCEPT ![g] = y]
    BY <1>2, ArriveSteps DEF Arrive, Subscribe, Replace, Confirm, Settle, Terminate, Begin
  <2> QED
    BY <1>1, <2>1
<1>3. PICK g \in Handler : Step(g) \/ QueryFails(g) \/ Die(g)
  BY <1>1, <1>2, NextSteps
<1>4. g = h
  <2>1. PICK y \in Local : proc' = [proc EXCEPT ![g] = y]
    BY <1>3, HandlerSteps, GoesOnAlone DEF PlanInv
  <2> QED
    BY <1>1, <2>1
<1>5. proc[h].op \notin {"idle", "terminal"}
  BY <1>1 DEF Roles
<1>6. RecordReference(h) \/ RecordAssigned(h) \/ Write(h) \/ ConnectTimeout(h) \/ QueryFails(h) \/ Die(h)
  BY <1>1, <1>3, <1>4, <1>5
  DEF Step, InsertPending, SaveConfirmed, Find, CancelPrev, LockRow, MarkTerminal, Validate, Book, Commit
<1>7. RecordAssigned(h) => copy' = None \/ tainted'
  BY DEF RecordAssigned, Invalidate, Ent!Drop, Ent!Miss
<1>8. ASSUME Write(h) PROVE copy' = None \/ tainted'
  <2>1. CASE proc[h].op = "assignPlan"
    <3> DEFINE x == [proc[h] EXCEPT !.pc = "history"]
    <3>1. proc'[h] = x
      BY <1>8, <2>1, WriteGoes DEF Goto
    <3>2. x.pc = "history" /\ x.op = "assignPlan"
      BY <2>1 DEF Local
    <3> HIDE DEF x
    <3> QED
      BY <3>1, <3>2 DEF HasToDrop
  <2>2. CASE proc[h].op # "assignPlan"
    BY <1>8, <2>2 DEF Write, Invalidate, Ent!Drop, Ent!Miss
  <2> QED
    BY <2>1, <2>2
<1>9. Abandon(h) => tainted'
  BY DEF Abandon, Ent!Miss
<1>10. ~RecordReference(h)
  BY <1>1 DEF RecordReference, HasToDrop
<1> QED
  BY <1>6, <1>7, <1>8, <1>9, <1>10 DEF ConnectTimeout, QueryFails, Die, GiveUp

(* What a step does to the copy. *)
LEMMA CopySteps ==
    ASSUME [Next]_vars
    PROVE  \/ copy' = None \/ tainted'
           \/ copy' = copy /\ tainted' = tainted
           \/ UNCHANGED <<subs, proc>> /\ (copy' # Plan => tainted')
<1>1. ASSUME Invalidate \/ Ent!Expire PROVE copy' = None \/ tainted'
  BY <1>1 DEF Invalidate, Ent!Drop, Ent!Miss, Ent!Expire
<1>2. ASSUME NEW h \in Handler, Abandon(h) PROVE tainted' \/ (copy' = copy /\ tainted' = tainted)
  BY <1>2 DEF Abandon, Ent!Miss, entVars
<1>3. ASSUME NEW r \in Reader, CacheEntitlements(r)
      PROVE  (copy' = copy /\ tainted' = tainted) \/ (UNCHANGED <<subs, proc>> /\ (copy' # Plan => tainted'))
  BY <1>3 DEF CacheEntitlements, Ent!Fill, Ent!SkipFill, subVars
<1> QED
  BY <1>1, <1>2, <1>3
  DEF Next, vars, entVars, Arrive, Step, Subscribe, InsertPending, RecordReference, Replace, Confirm, SaveConfirmed, Find,
      CancelPrev, Write, RecordAssigned, Initiate, MarkTerminal, Settle, Terminate, LockRow, Validate, Book, Commit,
      ConnectTimeout, QueryFails, Die, GiveUp, LoadEntitlements, ExpireEntitlements, Lapse

(* Every step keeps that a copy which is out of date has an explanation. *)
LEMMA StaleStep == ASSUME BillInv, PlanInv, StaleExplained, [Next]_vars PROVE StaleExplained'
<1> USE DEF StaleExplained, Ent!Outdated
<1>1. CASE copy' = None \/ tainted'
  BY <1>1
<1>2. CASE UNCHANGED <<subs, proc>> /\ (copy' # Plan => tainted')
  <2>1. Plan' = Plan
    BY <1>2, PlanKept DEF Active
  <2> QED
    BY <1>2, <2>1
<1>3. CASE copy' = copy /\ ~tainted' /\ tainted' = tainted /\ copy' # None
  <2>1. CASE \E h \in Handler : HasToDrop(h)
    BY <1>3, <2>1, ChangeEnds
  <2>2. CASE ~ \E h \in Handler : HasToDrop(h)
    <3>1. copy = Plan
      BY <1>3, <2>2
    <3>2. CASE Active' = Active
      BY <1>3, <3>1, <3>2, PlanKept
    <3>3. ASSUME NEW h \in Handler, CancelPrev(h) PROVE StaleExplained'
      <4>1. proc[h].prev # None /\ proc[h] \in Local
        BY <3>3, BillingAssumption DEF CancelPrev, PlanInv, Backed, BillInv, ProcShape
      <4> DEFINE y == [proc[h] EXCEPT !.pc = "write"]
      <4>2. proc'[h] = y
        BY <3>3 DEF CancelPrev, Goto, BillInv, ProcShape
      <4>3. y.pc = "write" /\ y.prev = proc[h].prev
        BY <4>1 DEF Local
      <4> HIDE DEF y
      <4>4. HasToDrop(h)'
        BY <4>1, <4>2, <4>3 DEF HasToDrop
      <4> QED
        BY <4>4
    <3>4. ASSUME NEW h \in Handler, Write(h) PROVE StaleExplained'
      <4>1. CASE proc[h].op = "assignPlan"
        <5> DEFINE x == [proc[h] EXCEPT !.pc = "history"]
        <5>1. proc'[h] = x
          BY <3>4, <4>1, WriteGoes DEF Goto, BillInv, ProcShape
        <5>2. x.pc = "history" /\ x.op = "assignPlan"
          BY <4>1 DEF Local, BillInv, ProcShape
        <5> HIDE DEF x
        <5>3. HasToDrop(h)'
          BY <5>1, <5>2 DEF HasToDrop
        <5> QED
          BY <5>3
      <4>2. CASE proc[h].op # "assignPlan"
        BY <1>3, <3>4, <4>2 DEF Write, Invalidate, Ent!Drop, Ent!Miss
      <4> QED
        BY <4>1, <4>2
    <3>5. ASSUME NEW h \in Handler, Find(h), Active' # Active PROVE StaleExplained'
      <4>1. Invalidate
        BY <3>5 DEF Find, Active
      <4> QED
        BY <1>3, <4>1 DEF Invalidate, Ent!Drop, Ent!Miss
    <3> QED
      BY <1>3, <3>2, <3>3, <3>4, <3>5, ActiveSteps
  <2> QED
    BY <2>1, <2>2
<1> QED
  BY <1>1, <1>2, <1>3, CopySteps

(* Cached entitlements are those of the organisation's plan, unless a change is under way,
   one was lost or stopped half way, or a reader had loaded before it (EntitlementsService). *)
THEOREM StaleExplainedHolds == Spec => []StaleExplained
<1>1. Init => StaleExplained
  BY DEF Init, StaleExplained, Ent!Outdated, Ent!CacheInit
<1> QED
  BY <1>1, Invariants, StaleStep, PTL DEF Spec

-----------------------------------------------------------------------------
(* Requests that come one after the other: only one is under way, and what it has found
   is all there is. *)
Knows(h) ==
    /\ proc[h].pc = "cancelPrev" => Active \subseteq {proc[h].prev}
    /\ proc[h].pc = "write" => Active \subseteq {proc[h].sub}
Alone == \A g, h \in Working : g = h
AtMostOne == \A s, t \in Active : s = t
OneInv == ~overlapped => Alone /\ AtMostOne /\ \A h \in Handler : Knows(h)

(* A request starts to work on the plan when it arrives, or locks the row of its payment: alone,
   or it overlaps. *)
LEMMA WorkSteps ==
    ASSUME BillInv, PlanInv, [Next]_vars, ~overlapped'
    PROVE  /\ ~overlapped
           /\ \/ Working' \subseteq Working
              \/ Working = {} /\ \E h \in Handler : Working' \subseteq {h}
<1> USE DEF BillInv, ProcShape
<1>1. ASSUME NEW h \in Handler, NEW y, proc' = [proc EXCEPT ![h] = y] PROVE Working' \subseteq Working \cup {h}
  BY <1>1 DEF Working
<1>2. ASSUME NEW h \in Handler, NEW y, proc' = [proc EXCEPT ![h] = y], y.op \in {"idle", "terminal"} \/ y.pc = "lock"
      PROVE  Working' \subseteq Working
  BY <1>2 DEF Working
<1>3. ASSUME Beside PROVE ~overlapped /\ Working = {}
  BY <1>3, Zenon DEF Beside
<1>4. ASSUME NEW h \in Handler, Arrive(h) PROVE Beside \/ (overlapped' = overlapped /\ Working' \subseteq Working)
  <2>1. CASE \E p \in Payment : Settle(h, p) \/ Terminate(h, p)
    <3> PICK p \in Payment : Settle(h, p) \/ Terminate(h, p)
      BY <2>1
    <3> PICK op \in {"settle", "terminal"} :
            proc' = [proc EXCEPT ![h] = [Idle EXCEPT !.op = op, !.pc = "lock", !.pay = p]] /\ overlapped' = overlapped
      BY DEF Settle, Terminate, Begin
    <3> DEFINE y == [Idle EXCEPT !.op = op, !.pc = "lock", !.pay = p]
    <3>1. proc' = [proc EXCEPT ![h] = y] /\ y.pc = "lock"
      BY DEF Idle
    <3> HIDE DEF y
    <3>2. Working' \subseteq Working
      BY <1>2, <3>1
    <3> QED
      BY <3>2, Zenon
  <2>2. ASSUME Subscribe(h) \/ (\E op \in Ops : Replace(h, op)) \/ (\E s \in Sub : Confirm(h, s)) PROVE Beside
    BY <2>2, Zenon DEF Subscribe, Replace, Confirm
  <2> QED
    BY <1>4, <2>1, <2>2, Zenon DEF Arrive
<1>5. ASSUME NEW h \in Handler, Arrive(h)
      PROVE  ~overlapped /\ (Working' \subseteq Working \/ (Working = {} /\ Working' \subseteq {h}))
  <2>1. PICK y : proc' = [proc EXCEPT ![h] = y]
    BY <1>5, ArriveSteps
  <2>2. CASE Beside
    BY <1>1, <1>3, <2>1, <2>2
  <2>3. CASE overlapped' = overlapped /\ Working' \subseteq Working
    <3>1. ~overlapped
      BY <2>3
    <3> QED
      BY <2>3, <3>1
  <2> QED
    BY <1>4, <1>5, <2>2, <2>3
<1>6. ASSUME NEW h \in Handler, Step(h) \/ QueryFails(h) \/ Die(h)
      PROVE  ~overlapped /\ (Working' \subseteq Working \/ (Working = {} /\ Working' \subseteq {h}))
  <2>1. GoesOn(h)
    BY <1>6, HandlerSteps DEF PlanInv
  <2>2. PICK y \in Local : proc' = [proc EXCEPT ![h] = y]
    BY <2>1, GoesOnAlone
  <2>3. CASE Beside
    BY <1>1, <1>3, <2>2, <2>3
  <2>4. CASE ~Beside
    <3>1. overlapped' = overlapped
      BY <1>6, <2>4, Zenon
      DEF histVars, Step, InsertPending, RecordReference, SaveConfirmed, Find, CancelPrev, Write, RecordAssigned, LockRow,
          MarkTerminal, Validate, Book, Commit, ConnectTimeout, QueryFails, Die
    <3>2. ~overlapped
      BY <3>1
    <3>3. CASE Done(h)
      BY <1>2, <3>2, <3>3, IdleLocal DEF Done
    <3>4. CASE ~Done(h)
      <4>1. PICK x \in Local : /\ Follows(proc[h], x) /\ x.op \notin {"idle", "terminal"}
                               /\ (x.pc = "validate" => LocksRow(h)) /\ (x.pc # "validate" => proc[h].pc # "lock")
        BY <2>1, <3>4, Zenon DEF GoesOn
      <4>2. ~LocksRow(h)
        BY <2>4 DEF LocksRow
      <4>3. h \in Working
        BY <4>1, <4>2 DEF Follows, Working
      <4> QED
        BY <1>1, <2>2, <3>2, <4>3
    <3> QED
      BY <3>3, <3>4
  <2> QED
    BY <2>3, <2>4
<1>7. ASSUME proc' = proc, ~ \E h \in Handler : Arrive(h) \/ Step(h) \/ QueryFails(h) \/ Die(h)
      PROVE  ~overlapped /\ Working' = Working
  <2>1. overlapped' = overlapped
    BY <1>7, Zenon DEF Next, vars, histVars, Initiate, LoadEntitlements, CacheEntitlements, ExpireEntitlements, Lapse
  <2>2. ~overlapped
    BY <2>1, Zenon
  <2> QED
    BY <1>7, <2>2 DEF Working
<1> QED
  BY <1>5, <1>6, <1>7, NextSteps

(* After the search of a request that is alone it has the only active row: as the one to
   cancel, as its own, or there is none. *)
LEMMA FindKnows ==
    ASSUME BillInv, PlanInv, [Next]_vars, AtMostOne, NEW h \in Handler, Find(h)
    PROVE  AtMostOne' /\ Knows(h)'
<1> USE DEF BillInv, ProcShape, PlanInv, PlanShape
<1>0. proc[h] \in Local
  OBVIOUS
<1>1. Plan # 0 => Plan \in Active /\ Active \subseteq {Plan}
  BY PlanActive DEF AtMostOne
<1>2. Plan = 0 => Active = {}
  <2>1. MaxSubs \in Nat /\ Active \in SUBSET (1 .. MaxSubs)
    BY BillingAssumption DEF Active, Sub
  <2>2. Active # {} => Max(Active) \in Active
    BY <2>1, MaxMember
  <2> QED
    BY <2>1, <2>2 DEF Plan, Newest
<1>3. PICK pc \in {"cancelPrev", "write"}, s \in Sub \cup {None} :
          /\ proc' = [proc EXCEPT ![h] = [proc[h] EXCEPT !.pc = pc, !.prev = s]]
          /\ pc = "cancelPrev" => s = Plan /\ subs' = subs
          /\ pc = "write" => \/ Plan = 0 /\ subs' = subs
                             \/ Plan = proc[h].sub /\ subs' = subs
                             \/ Plan # 0 /\ subs' = [subs EXCEPT ![Plan].status = "EXPIRED"]
  <2>1. Plan # 0 => Plan \in Sub
    BY <1>1 DEF Active
  <2> QED
    BY <2>1 DEF Find
<1> DEFINE y == [proc[h] EXCEPT !.pc = pc, !.prev = s]
<1>4. proc'[h] = y
  BY <1>3
<1>5. y.pc = pc /\ y.sub = proc[h].sub /\ y.prev = s
  BY <1>0 DEF Local
<1> HIDE DEF y
<1>6. Active' \subseteq Active
  <2>1. CASE subs' = subs
    BY <2>1 DEF Active
  <2>2. CASE Plan # 0 /\ subs' = [subs EXCEPT ![Plan].status = "EXPIRED"]
    <3> DEFINE z == [subs[Plan] EXCEPT !.status = "EXPIRED"]
    <3>1. subs' = [subs EXCEPT ![Plan] = z]
      BY <2>2
    <3>2. z.status # "ACTIVE"
      BY <1>1, <2>2 DEF SubRow, Active
    <3> HIDE DEF z
    <3> QED
      BY <3>1, <3>2 DEF Active
  <2> QED
    BY <1>3, <2>1, <2>2
<1>7. pc = "cancelPrev" => Active' \subseteq {s}
  BY <1>1, <1>2, <1>3, <1>6
<1>8. pc = "write" => Active' \subseteq {proc[h].sub}
  <2>1. CASE subs' = subs /\ (Plan = 0 \/ Plan = proc[h].sub)
    BY <1>1, <1>2, <1>6, <2>1
  <2>2. CASE Plan # 0 /\ subs' = [subs EXCEPT ![Plan].status = "EXPIRED"]
    <3> DEFINE z == [subs[Plan] EXCEPT !.status = "EXPIRED"]
    <3>1. subs' = [subs EXCEPT ![Plan] = z]
      BY <2>2
    <3>2. z.status # "ACTIVE"
      BY <1>1, <2>2 DEF SubRow, Active
    <3> HIDE DEF z
    <3>3. Plan \notin Active'
      BY <1>1, <2>2, <3>1, <3>2 DEF Active
    <3> QED
      BY <1>1, <1>6, <2>2, <3>3
  <2> QED
    BY <1>3, <2>1, <2>2
<1> QED
  BY <1>4, <1>5, <1>6, <1>7, <1>8 DEF AtMostOne, Knows

(* A request that has cancelled what it found leaves none to the plan it writes. *)
LEMMA CancelKnows ==
    ASSUME BillInv, PlanInv, NEW h \in Handler, Knows(h), CancelPrev(h)
    PROVE  AtMostOne' /\ Knows(h)'
<1> USE DEF BillInv, ProcShape, PlanInv, PlanShape
<1> DEFINE y == [proc[h] EXCEPT !.pc = "write"]
           z == [subs[proc[h].prev] EXCEPT !.status = "CANCELLED"]
<1>0. proc[h] \in Local /\ proc[h].prev \in Sub /\ Active \subseteq {proc[h].prev}
  BY DEF CancelPrev, Backed, Knows
<1>1. proc'[h] = y /\ subs' = [subs EXCEPT ![proc[h].prev] = z]
  BY DEF CancelPrev, Goto
<1>2. y.pc = "write" /\ z.status # "ACTIVE"
  BY <1>0 DEF Local, SubRow
<1> HIDE DEF y, z
<1>3. Active' = {}
  BY <1>0, <1>1, <1>2 DEF Active
<1> QED
  BY <1>1, <1>2, <1>3 DEF AtMostOne, Knows

(* The plan that a request writes is the only active row, if the request knew all. *)
LEMMA WriteKnows ==
    ASSUME BillInv, PlanInv, NEW h \in Handler, Knows(h), Write(h)
    PROVE  AtMostOne'
<1> USE DEF BillInv, ProcShape, PlanInv, PlanShape
<1>0. proc[h] \in Local /\ NewPlan(h) /\ Active \subseteq {proc[h].sub} /\ None \notin Sub
  BY BillingAssumption DEF Write, Knows
<1>1. CASE proc[h].op \in {"subscribeFree", "assignPlan"}
  <2>0. PICK m \in Unused : m = Min(Unused)
    <3>1. h \in Inserting
      BY <1>1 DEF Write, Inserting
    <3> QED
      BY <3>1, UnusedLeft
  <2>1. PICK row : subs' = [subs EXCEPT ![m] = row]
    BY <1>0, <1>1, <2>0 DEF NewPlan, Insert
  <2>2. Active = {}
    BY <1>0, <1>1 DEF Entitled, Active
  <2> QED
    BY <2>1, <2>2 DEF AtMostOne, Active
<1>2. CASE proc[h].op \in {"settle", "confirm"}
  <2> DEFINE row == [subs[proc[h].sub] EXCEPT !.status = "ACTIVE", !.paid = TRUE]
  <2>1. subs' = [subs EXCEPT ![proc[h].sub] = row]
    BY <1>0, <1>2 DEF NewPlan
  <2> HIDE DEF row
  <2> QED
    BY <1>0, <2>1 DEF AtMostOne, Active
<1>3. CASE proc[h].op \notin {"subscribeFree", "assignPlan", "settle", "confirm"}
  <2>1. subs' = subs
    BY <1>0, <1>3 DEF NewPlan
  <2> QED
    BY <1>0, <2>1 DEF AtMostOne, Active
<1> QED
  BY <1>1, <1>2, <1>3

(* Only those two steps lead to where a request is about to change the plan. *)
LEMMA OtherSteps ==
    ASSUME BillInv, Roomy, NEW h \in Handler, Step(h) \/ QueryFails(h) \/ Die(h)
    PROVE  Find(h) \/ CancelPrev(h) \/ proc'[h].pc \notin {"cancelPrev", "write"}
<1> USE DEF BillInv, ProcShape
<1>0. proc[h] \in Local
  OBVIOUS
<1>1. ASSUME Done(h) PROVE proc'[h].pc \notin {"cancelPrev", "write"}
  BY <1>1, IdleLocal DEF Done
<1>2. ASSUME NEW pc \in {"validate", "history", "find", "book", "commit"}, Goto(h, pc)
      PROVE  proc'[h].pc \notin {"cancelPrev", "write"}
  <2> DEFINE y == [proc[h] EXCEPT !.pc = pc]
  <2>1. proc'[h] = y
    BY <1>2 DEF Goto
  <2>2. y.pc = pc
    BY <1>0 DEF Local
  <2> HIDE DEF y
  <2> QED
    BY <2>1, <2>2
<1>3. CASE Validate(h)
  <2>1. CASE ~Done(h)
    <3> DEFINE s == pays[proc[h].pay].sub
               pc == AfterValidation(proc[h].pay)
               y == [proc[h] EXCEPT !.sub = s, !.pc = pc]
    <3>1. proc'[h] = y
      BY <1>3, <2>1 DEF Validate
    <3>2. pc \in {"commit", "find"}
      BY DEF AfterValidation
    <3> HIDE DEF s, pc
    <3>3. y.pc = pc
      BY <1>0 DEF Local
    <3> HIDE DEF y
    <3> QED
      BY <3>1, <3>2, <3>3
  <2> QED
    BY <1>1, <2>1
<1>4. CASE RecordReference(h) \/ RecordAssigned(h) \/ MarkTerminal(h) \/ Commit(h) \/ Die(h)
  BY <1>1, <1>4 DEF RecordReference, RecordAssigned, MarkTerminal, Commit, Die
<1>5. CASE SaveConfirmed(h) \/ Book(h)
  BY <1>2, <1>5 DEF SaveConfirmed, Book
<1>6. CASE ConnectTimeout(h) \/ QueryFails(h)
  BY <1>1, <1>2, <1>6 DEF ConnectTimeout, QueryFails, GiveUp
<1>7. CASE Write(h)
  BY <1>1, <1>2, <1>7, WriteGoes
<1>8. CASE LockRow(h)
  BY <1>1, <1>2, <1>8 DEF LockRow
<1>9. CASE InsertPending(h)
  <2> DEFINE m == Min(Unused)
             y == [proc[h] EXCEPT !.pc = "history", !.sub = m]
  <2>1. proc'[h] = y
    BY <1>9 DEF InsertPending
  <2> HIDE DEF m
  <2>2. y.pc = "history"
    BY <1>0 DEF Local
  <2> HIDE DEF y
  <2> QED
    BY <2>1, <2>2
<1> QED
  BY <1>3, <1>4, <1>5, <1>6, <1>7, <1>8, <1>9 DEF Step

(* Every step keeps OneInv. *)
LEMMA OneStep == ASSUME BillInv, PlanInv, OneInv, [Next]_vars PROVE OneInv'
<1> USE DEF BillInv, ProcShape
<1> SUFFICES ASSUME ~overlapped' PROVE Alone' /\ AtMostOne' /\ \A h \in Handler : Knows(h)'
  BY DEF OneInv
<1>0. Alone /\ AtMostOne /\ \A h \in Handler : Knows(h)
  BY WorkSteps DEF OneInv
<1>1. Alone'
  BY <1>0, WorkSteps DEF Alone
<1>2. \A h \in Handler : proc[h].pc \in {"find", "cancelPrev", "write"} => h \in Working
  BY DEF Roles, Working
<1>3. ASSUME NEW h \in Handler, Find(h) \/ CancelPrev(h) \/ Write(h) PROVE AtMostOne' /\ \A g \in Handler : Knows(g)'
  <2>1. proc[h].pc \in {"find", "cancelPrev", "write"} /\ Step(h)
    BY <1>3 DEF Find, CancelPrev, Write, Step
  <2>2. PICK y \in Local : proc' = [proc EXCEPT ![h] = y]
    BY <2>1, HandlerSteps, GoesOnAlone DEF PlanInv
  <2>3. ASSUME NEW g \in Handler, g # h PROVE Knows(g)'
    <3>1. proc'[g] = proc[g] /\ proc[g].pc \notin {"cancelPrev", "write"}
      BY <1>0, <1>2, <2>1, <2>2, <2>3 DEF Alone
    <3> QED
      BY <3>1 DEF Knows
  <2>4. AtMostOne' /\ Knows(h)'
    <3>1. CASE Find(h)
      BY <1>0, <3>1, FindKnows
    <3>2. CASE CancelPrev(h)
      BY <1>0, <3>2, CancelKnows
    <3>3. CASE Write(h)
      <4>1. ~Find(h) /\ ~CancelPrev(h)
        BY <3>3 DEF Find, CancelPrev, Write
      <4>2. Knows(h)'
        BY <2>1, <4>1, OtherSteps DEF Knows, PlanInv
      <4> QED
        BY <1>0, <3>3, <4>2, WriteKnows
    <3> QED
      BY <1>3, <3>1, <3>2, <3>3
  <2> QED
    BY <2>3, <2>4
<1>4. CASE ~ \E h \in Handler : Find(h) \/ CancelPrev(h) \/ Write(h)
  <2>1. Active' \subseteq Active
    BY <1>4, ActiveSteps
  <2>2. ASSUME NEW g \in Handler PROVE Knows(g)'
    <3>1. CASE proc'[g] = proc[g]
      BY <1>0, <2>1, <3>1 DEF Knows
    <3>2. CASE \E h \in Handler : Arrive(h)
      <4> PICK h \in Handler : Arrive(h)
        BY <3>2
      <4>1. PICK y : Fresh(y) /\ proc' = [proc EXCEPT ![h] = y]
        BY ArriveSteps
      <4>2. CASE g = h
        BY <4>1, <4>2 DEF Fresh, Knows
      <4> QED
        BY <3>1, <4>1, <4>2
    <3>3. CASE \E h \in Handler : Step(h) \/ QueryFails(h) \/ Die(h)
      <4> PICK h \in Handler : Step(h) \/ QueryFails(h) \/ Die(h)
        BY <3>3
      <4>1. PICK y \in Local : proc' = [proc EXCEPT ![h] = y]
        BY HandlerSteps, GoesOnAlone DEF PlanInv
      <4>2. CASE g = h
        <5>1. proc'[g].pc \notin {"cancelPrev", "write"}
          BY <1>4, <4>2, OtherSteps DEF PlanInv
        <5> QED
          BY <5>1 DEF Knows
      <4> QED
        BY <3>1, <4>1, <4>2
    <3> QED
      BY <3>1, <3>2, <3>3, NextSteps
  <2>3. AtMostOne'
    BY <1>0, <2>1 DEF AtMostOne
  <2> QED
    BY <1>1, <2>2, <2>3
<1> QED
  BY <1>1, <1>3, <1>4

(* Requests that come one after the other leave one active subscription, whatever fails half
   way (activate, assignPlan, findActiveSubscription). *)
THEOREM OneActiveHolds == Spec => []OneActive
<1>1. Init => OneInv
  BY IdleLocal DEF Init, OneInv, Alone, Working, AtMostOne, Knows, Active, NoSub
<1>2. OneInv => OneActive
  <2> SUFFICES ASSUME AtMostOne PROVE Cardinality(Active) <= 1
    BY DEF OneInv, OneActive
  <2>1. CASE Active = {}
    BY <2>1, FS_EmptySet
  <2>2. ASSUME NEW s \in Active PROVE Cardinality(Active) <= 1
    <3>1. Active = {s}
      BY <2>2 DEF AtMostOne
    <3>2. Cardinality({s}) = 1
      BY FS_Singleton
    <3> QED
      BY <3>1, <3>2
  <2> QED
    BY <2>1, <2>2
<1> QED
  BY <1>1, <1>2, Invariants, OneStep, PTL DEF Spec
-----------------------------------------------------------------------------
(* The rest of the types: the cached copy, the history and the payment that only a
   callback holds. *)
Copies == 0 .. MaxSubs \cup {None}
CopyShape == copy \in Copies /\ loaded \in [Reader -> Copies] /\ tainted \in BOOLEAN
HistoryShape == overlapped \in BOOLEAN /\ requests \in Nat
PayHeld == \A h \in Handler : proc[h].op \notin {"settle", "terminal"} => proc[h].pay = None
RestInv == CopyShape /\ HistoryShape /\ PayHeld

(* The copy is dropped or is what a reader has loaded; readers load plans. *)
LEMMA CopyStep == ASSUME CopyShape, [Next]_vars PROVE CopyShape'
<1> USE DEF CopyShape
<1>0. Plan \in Copies /\ 0 \in Copies /\ None \in Copies
  BY PlanActive, BillingAssumption DEF Copies, Active, Sub
<1>1. CASE UNCHANGED entVars
  BY <1>1 DEF entVars
<1>2. CASE Ent!Drop \/ Ent!Miss \/ Ent!Expire
  BY <1>0, <1>2, Zenon DEF Ent!Drop, Ent!Miss, Ent!Expire
<1>3. CASE \E r \in Reader : LoadEntitlements(r)
  <2> PICK r \in Reader : LoadEntitlements(r)
    BY <1>3
  <2>1. PICK plan \in Copies : loaded' = [loaded EXCEPT ![r] = plan]
    BY <1>0 DEF LoadEntitlements
  <2>2. loaded' \in [Reader -> Copies]
    BY <2>1
  <2>3. (copy' = None \/ copy' = copy) /\ (tainted' = FALSE \/ tainted' = tainted)
    BY Zenon DEF LoadEntitlements
  <2> QED
    BY <1>0, <2>2, <2>3, Zenon
<1>4. CASE \E r \in Reader : CacheEntitlements(r)
  <2> PICK r \in Reader : CacheEntitlements(r)
    BY <1>4
  <2>1. loaded' = [loaded EXCEPT ![r] = None] /\ (copy' = copy \/ copy' = loaded[r])
    BY Zenon DEF CacheEntitlements, Ent!Fill, Ent!SkipFill
  <2>2. tainted' = tainted \/ tainted' = (loaded[r] # Plan)
    BY Zenon DEF CacheEntitlements, Ent!Fill, Ent!SkipFill
  <2>3. tainted' \in BOOLEAN
    BY <2>2, Zenon
  <2>4. loaded' \in [Reader -> Copies] /\ copy' \in Copies
    BY <1>0, <2>1
  <2> QED
    BY <2>3, <2>4
<1> QED
  BY <1>1, <1>2, <1>3, <1>4, Zenon
  DEF Next, vars, Arrive, Step, Subscribe, InsertPending, RecordReference, Replace, Confirm, SaveConfirmed, Find, CancelPrev,
      Write, RecordAssigned, Initiate, MarkTerminal, Settle, Terminate, LockRow, Validate, Book, Commit, ConnectTimeout,
      QueryFails, Die, GiveUp, Abandon, Invalidate, ExpireEntitlements, Lapse

(* Requests are counted when they begin, and an overlap is noted when one starts to work. *)
LEMMA HistoryStep == ASSUME HistoryShape, [Next]_vars PROVE HistoryShape'
<1> USE DEF HistoryShape
<1>1. UNCHANGED overlapped \/ Beside
  BY Zenon DEF Next, vars, histVars, Arrive, Step, Subscribe, InsertPending, RecordReference, Replace, Confirm, SaveConfirmed,
     Find, CancelPrev, Write, RecordAssigned, Initiate, MarkTerminal, Settle, Terminate, LockRow, Validate, Book, Commit,
     ConnectTimeout, QueryFails, Die, LoadEntitlements, CacheEntitlements, ExpireEntitlements, Lapse
<1>2. UNCHANGED requests \/ \E h \in Handler : \E y : Begin(h, y)
  BY Zenon DEF Next, vars, histVars, Arrive, Step, Subscribe, InsertPending, RecordReference, Replace, Confirm, SaveConfirmed,
     Find, CancelPrev, Write, RecordAssigned, Initiate, MarkTerminal, Settle, Terminate, LockRow, Validate, Book, Commit,
     ConnectTimeout, QueryFails, Die, LoadEntitlements, CacheEntitlements, ExpireEntitlements, Lapse
<1>3. overlapped' \in BOOLEAN
  BY <1>1, Zenon DEF Beside
<1>4. requests' \in Nat
  BY <1>2 DEF Begin
<1> QED
  BY <1>3, <1>4

(* Only a callback begins with a payment, and requests keep theirs. *)
LEMMA PayHeldStep == ASSUME BillInv, Roomy, PayHeld, [Next]_vars PROVE PayHeld'
<1> USE DEF PayHeld
<1>0. proc \in [Handler -> Local] /\ Idle.pay = None
  BY DEF BillInv, ProcShape, Idle
<1>1. CASE \E h \in Handler : Arrive(h)
  <2> PICK h \in Handler : Arrive(h)
    BY <1>1
  <2>1. PICK y : Fresh(y) /\ proc' = [proc EXCEPT ![h] = y]
    BY ArriveSteps
  <2> QED
    BY <1>0, <2>1 DEF Fresh
<1>2. CASE \E h \in Handler : Step(h) \/ QueryFails(h) \/ Die(h)
  <2> PICK h \in Handler : Step(h) \/ QueryFails(h) \/ Die(h)
    BY <1>2
  <2>1. GoesOn(h)
    BY HandlerSteps
  <2> QED
    BY <1>0, <2>1 DEF GoesOn, Follows, Done
<1> QED
  BY <1>1, <1>2, NextSteps

(* What a request holds is there: that follows from what is known of the rows. *)
LEMMA AllEquipped == ASSUME BillInv, PlanInv, PayHeld, NEW h \in Handler PROVE Equipped(h)
<1>1. proc[h].op \in {"settle", "terminal"} <=> proc[h].pay # None
  BY BillingAssumption DEF BillInv, Roles, PayHeld
<1>2. ASSUME proc[h].op = "confirm" PROVE proc[h].sub # None /\ subs[proc[h].sub].status # "NONE"
  BY <1>2, BillingAssumption DEF BillInv, Roles, PlanInv, Backed
<1>3. ASSUME proc[h].op = "settle", proc[h].pc \in {"save", "find", "cancelPrev", "write"}
      PROVE  proc[h].sub # None /\ subs[proc[h].sub].status # "NONE"
  <2>1. proc[h].pc # "save"
    BY <1>3 DEF BillInv, Roles
  <2>2. proc[h].sub \in Sub /\ proc[h].sub = pays[proc[h].pay].sub /\ proc[h].pay \in Payment
    BY <1>3, <2>1 DEF BillInv, Roles, PlanInv, Entitled
  <2> QED
    BY <2>2, BillingAssumption DEF PlanInv, Backed
<1>4. ASSUME proc[h].pc = "cancelPrev" PROVE proc[h].prev # None /\ subs[proc[h].prev].status # "NONE"
  BY <1>4, BillingAssumption DEF PlanInv, Backed
<1>5. ASSUME proc[h].op = "subscribe", proc[h].pc = "history" PROVE proc[h].sub # None
  BY <1>5, BillingAssumption DEF PlanInv, Owed, Owing
<1> QED
  BY <1>1, <1>2, <1>3, <1>4, <1>5 DEF Equipped

(* TypeOK: rows, payments and copies keep their types, and a request that is under way has
   the payment, the subscription and the earlier plan that its next step will use. *)
THEOREM BillingTypeCorrect == Spec => []TypeOK
<1>1. Init => RestInv /\ CreditsShape /\ BookInv
  <2> SUFFICES ASSUME Init PROVE RestInv /\ CreditsShape /\ BookInv
    OBVIOUS
  <2>1. tainted \in BOOLEAN /\ overlapped \in BOOLEAN
    BY Zenon DEF Init, Ent!CacheInit
  <2>2. copy \in Copies /\ loaded \in [Reader -> Copies] /\ requests \in Nat
    BY DEF Init, Copies, Ent!CacheInit
  <2>3. CreditsShape /\ BookInv
    BY DEF Init, CreditsShape, BookInv, BookShape
  <2>4. PayHeld
    BY DEF Init, PayHeld, Idle
  <2> QED
    BY <2>1, <2>2, <2>3, <2>4, Zenon DEF RestInv, CopyShape, HistoryShape
<1>2. BillInv /\ PlanInv /\ RestInv /\ CreditsShape /\ BookInv => TypeOK
  <2> SUFFICES ASSUME BillInv, PlanInv, RestInv, CreditsShape, BookInv PROVE TypeOK
    OBVIOUS
  <2>1. \A h \in Handler : Equipped(h)
    BY AllEquipped DEF RestInv
  <2>2. Ent!CacheTypeOK(0 .. MaxSubs)
    BY Zenon DEF RestInv, CopyShape, Copies, Ent!CacheTypeOK
  <2>3. proc \in [Handler -> Local] /\ pays \in [Payment -> PayRow]
    BY DEF BillInv, ProcShape, PayShape
  <2>4. overlapped \in BOOLEAN /\ requests \in Nat
    BY DEF RestInv, HistoryShape
  <2> QED
    BY <2>1, <2>2, <2>3, <2>4, Zenon DEF PlanInv, PlanShape, CreditsShape, BookInv, BookShape, TypeOK
<1>3. BillInv /\ Roomy /\ RestInv /\ [Next]_vars => RestInv'
  BY CopyStep, HistoryStep, PayHeldStep DEF RestInv
<1> QED
  BY <1>1, <1>2, <1>3, Invariants, BookStep, CreditsStep, CreditsOnceHolds, PTL DEF Spec
-----------------------------------------------------------------------------
(* A settlement goes past the gateway's answer only if the answer was all of the price. *)
Verified(x) ==
    x.op = "settle" /\ x.pc \in {"find", "cancelPrev", "write", "book", "commit"} => gateway[x.pay] = "full"
VerifiedInv == \A h \in Handler : Verified(proc[h])

(* A settlement that has verified the price keeps it verified, and one that starts has to ask. *)
LEMMA VerifiedStep == ASSUME BillInv, PlanInv, VerifiedInv, [Next]_vars PROVE VerifiedInv'
<1> USE DEF BillInv, ProcShape, VerifiedInv
<1>0. \A p \in Payment : gateway[p] = "full" => gateway'[p] = "full"
  BY GatewaySteps
<1>1. ASSUME NEW g \in Handler, proc'[g] = proc[g] PROVE Verified(proc[g])'
  BY <1>0, <1>1 DEF Verified, Roles
<1>2. ASSUME NEW h \in Handler, NEW pc \in {"find", "cancelPrev", "write", "book", "commit"}, NEW s,
             proc' = [proc EXCEPT ![h] = [proc[h] EXCEPT !.pc = pc, !.prev = s]],
             proc[h].pc \in {"find", "cancelPrev", "write", "book", "commit"} \/ proc[h].op # "settle"
      PROVE  Verified(proc[h])'
  <2> DEFINE y == [proc[h] EXCEPT !.pc = pc, !.prev = s]
  <2>1. y.pc = pc /\ y.op = proc[h].op /\ y.pay = proc[h].pay /\ proc'[h] = y
    BY <1>2 DEF Local
  <2> HIDE DEF y
  <2>2. proc[h].op = "settle" => proc[h].pay \in Payment /\ gateway[proc[h].pay] = "full"
    BY <1>2 DEF Verified, Roles
  <2> QED
    BY <1>0, <2>1, <2>2 DEF Verified
<1>3. ASSUME NEW h \in Handler, NEW pc \in {"find", "cancelPrev", "write", "book", "commit"}, Goto(h, pc),
             proc[h].pc \in {"find", "cancelPrev", "write", "book", "commit"} \/ proc[h].op # "settle"
      PROVE  Verified(proc[h])'
  <2>1. [proc[h] EXCEPT !.pc = pc] = [proc[h] EXCEPT !.pc = pc, !.prev = proc[h].prev]
    BY DEF Local
  <2>2. proc' = [proc EXCEPT ![h] = [proc[h] EXCEPT !.pc = pc, !.prev = proc[h].prev]]
    BY <1>3, <2>1 DEF Goto
  <2> QED
    BY <1>2, <1>3, <2>2
<1>4. ASSUME NEW h \in Handler, Done(h) PROVE Verified(proc[h])'
  BY <1>4 DEF Done, Verified, Idle
<1>5. ASSUME NEW h \in Handler, NEW pc \in {"validate", "history"}, Goto(h, pc) PROVE Verified(proc[h])'
  <2> DEFINE y == [proc[h] EXCEPT !.pc = pc]
  <2>1. proc'[h] = y
    BY <1>5 DEF Goto
  <2>2. y.pc = pc
    BY DEF Local
  <2> HIDE DEF y
  <2> QED
    BY <2>1, <2>2 DEF Verified
<1>6. ASSUME NEW h \in Handler, Validate(h) PROVE Verified(proc[h])'
  <2>1. CASE ~Done(h)
    <3>0. PICK p \in Payment : p = proc[h].pay
      BY <1>6 DEF Validate, Roles
    <3> DEFINE y == [proc[h] EXCEPT !.sub = pays[p].sub, !.pc = AfterValidation(p)]
    <3>1. proc'[h] = y /\ gateway' = [gateway EXCEPT ![p] = "full"] /\ gateway \in [Payment -> {"none", "open", "short", "full"}]
      BY <1>6, <2>1, <3>0 DEF Validate, PlanInv, PlanShape
    <3>2. y.pay = p
      BY <3>0 DEF Local
    <3> HIDE DEF y
    <3> QED
      BY <3>1, <3>2 DEF Verified
  <2> QED
    BY <1>4, <1>6, <2>1
<1>7. ASSUME NEW h \in Handler, Step(h) \/ QueryFails(h) \/ Die(h) PROVE Verified(proc[h])'
  <2>1. CASE SaveConfirmed(h)
    BY <1>3, <2>1 DEF SaveConfirmed, Roles
  <2>2. CASE Find(h)
    <3>1. PICK pc \in {"cancelPrev", "write"}, s \in Sub \cup {None} :
              proc' = [proc EXCEPT ![h] = [proc[h] EXCEPT !.pc = pc, !.prev = s]]
      BY <2>2, PlanActive DEF Find, Active
    <3> QED
      BY <1>2, <2>2, <3>1 DEF Find
  <2>3. CASE CancelPrev(h) \/ Book(h)
    BY <1>3, <2>3 DEF CancelPrev, Book
  <2>4. CASE Validate(h)
    BY <1>6, <2>4
  <2>5. CASE RecordReference(h) \/ RecordAssigned(h) \/ MarkTerminal(h) \/ Commit(h) \/ Die(h)
    BY <1>4, <2>5 DEF RecordReference, RecordAssigned, MarkTerminal, Commit, Die
  <2>6. CASE ConnectTimeout(h) \/ QueryFails(h)
    <3>1. proc[h].op = "settle" => proc[h].pc \in {"find", "cancelPrev", "write", "book"}
      BY <2>6 DEF ConnectTimeout, QueryFails, Querying, Roles
    <3> QED
      BY <1>3, <1>4, <2>6, <3>1 DEF ConnectTimeout, QueryFails, GiveUp
  <2>7. CASE Write(h)
    BY <1>3, <1>4, <1>5, <2>7, WriteGoes
  <2>8. CASE LockRow(h)
    BY <1>4, <1>5, <2>8 DEF LockRow
  <2>9. CASE InsertPending(h)
    <3>1. proc[h].op = "subscribe" /\ \E m : proc'[h] = [proc[h] EXCEPT !.pc = "history", !.sub = m]
      BY <2>9 DEF InsertPending, Roles
    <3> PICK m : proc'[h] = [proc[h] EXCEPT !.pc = "history", !.sub = m]
      BY <3>1
    <3>2. proc'[h].op = "subscribe"
      BY <3>1 DEF Local
    <3> QED
      BY <3>2 DEF Verified
  <2> QED
    BY <1>7, <2>1, <2>2, <2>3, <2>4, <2>5, <2>6, <2>7, <2>8, <2>9 DEF Step
<1>8. ASSUME NEW h \in Handler, Arrive(h) PROVE Verified(proc[h])'
  <2>1. PICK y : Fresh(y) /\ proc' = [proc EXCEPT ![h] = y]
    BY <1>8, ArriveSteps
  <2> QED
    BY <2>1 DEF Fresh, Verified
<1>9. \/ proc' = proc
      \/ \E h \in Handler : /\ Arrive(h) \/ Step(h) \/ QueryFails(h) \/ Die(h)
                           /\ \A g \in Handler : g # h => proc'[g] = proc[g]
  <2>1. ASSUME NEW h \in Handler, Step(h) \/ QueryFails(h) \/ Die(h)
        PROVE  \A g \in Handler : g # h => proc'[g] = proc[g]
    BY <2>1, HandlerSteps, GoesOnAlone DEF PlanInv
  <2>2. ASSUME NEW h \in Handler, Arrive(h) PROVE \A g \in Handler : g # h => proc'[g] = proc[g]
    BY <2>2, ArriveSteps
  <2> QED
    BY <2>1, <2>2, NextSteps
<1> QED
  BY <1>1, <1>7, <1>8, <1>9

-----------------------------------------------------------------------------
(* Payments implement PaymentPromise. *)
Statuses == [p \in Payment |-> pays[p].status]
Items == [p \in Payment |-> pays[p].sub]

(* The promise, in the terms of the rows. *)
LEMMA PromiseTerms ==
    /\ Promise!Init <=> /\ Statuses = [p \in Payment |-> "NONE"] /\ Items = [p \in Payment |-> None]
                        /\ gateway = [p \in Payment |-> "none"] /\ credited = [p \in Payment |-> 0]
    /\ \A p : Promise!Open(p) <=>
          /\ Statuses[p] \in {"NONE"} /\ Statuses' = [Statuses EXCEPT ![p] = "PENDING"]
          /\ \E i \in Sub \cup {None} : Items' = [Items EXCEPT ![p] = i]
          /\ gateway' = [gateway EXCEPT ![p] = "open"] /\ credited' = credited
    /\ \A p : Promise!Refuse(p) <=>
          /\ Statuses[p] \in {"NONE"} /\ Statuses' = [Statuses EXCEPT ![p] = "FAILED"]
          /\ \E i \in Sub \cup {None} : Items' = [Items EXCEPT ![p] = i]
          /\ gateway' = gateway /\ credited' = credited
    /\ \A p : Promise!Receive(p) <=>
          /\ gateway[p] = "open" /\ \E sum \in {"short", "full"} : gateway' = [gateway EXCEPT ![p] = sum]
          /\ Statuses' = Statuses /\ Items' = Items /\ credited' = credited
    /\ \A p : Promise!Fail(p) <=>
          /\ Statuses[p] \in {"PENDING"} /\ Statuses' = [Statuses EXCEPT ![p] = "FAILED"]
          /\ Items' = Items /\ gateway' = gateway /\ credited' = credited
    /\ \A p : Promise!Grant(p) <=>
          /\ Statuses[p] \in {"PENDING", "FAILED"} /\ Statuses' = [Statuses EXCEPT ![p] = "PAID"]
          /\ gateway[p] = "full"
          /\ credited' = [credited EXCEPT ![p] = IF Items[p] = None THEN credited[p] + 1 ELSE credited[p]]
          /\ Items' = Items /\ gateway' = gateway
    /\ Promise!Next <=>
          \E p \in Payment : Promise!Open(p) \/ Promise!Refuse(p) \/ Promise!Receive(p) \/ Promise!Fail(p) \/ Promise!Grant(p)
<1>1. Promise!Init <=> /\ Statuses = [p \in Payment |-> "NONE"] /\ Items = [p \in Payment |-> None]
                       /\ gateway = [p \in Payment |-> "none"] /\ credited = [p \in Payment |-> 0]
  BY DEF Promise!Init, Statuses, Items
<1>2. \A p : Promise!Open(p) <=>
          /\ Statuses[p] \in {"NONE"} /\ Statuses' = [Statuses EXCEPT ![p] = "PENDING"]
          /\ \E i \in Sub \cup {None} : Items' = [Items EXCEPT ![p] = i]
          /\ gateway' = [gateway EXCEPT ![p] = "open"] /\ credited' = credited
  BY DEF Promise!Open, Promise!Become, Promise!Choose, Statuses, Items
<1>3. \A p : Promise!Refuse(p) <=>
          /\ Statuses[p] \in {"NONE"} /\ Statuses' = [Statuses EXCEPT ![p] = "FAILED"]
          /\ \E i \in Sub \cup {None} : Items' = [Items EXCEPT ![p] = i]
          /\ gateway' = gateway /\ credited' = credited
  BY DEF Promise!Refuse, Promise!Become, Promise!Choose, Statuses, Items
<1>4. \A p : Promise!Receive(p) <=>
          /\ gateway[p] = "open" /\ \E sum \in {"short", "full"} : gateway' = [gateway EXCEPT ![p] = sum]
          /\ Statuses' = Statuses /\ Items' = Items /\ credited' = credited
  BY DEF Promise!Receive, Statuses, Items
<1>5. \A p : Promise!Fail(p) <=>
          /\ Statuses[p] \in {"PENDING"} /\ Statuses' = [Statuses EXCEPT ![p] = "FAILED"]
          /\ Items' = Items /\ gateway' = gateway /\ credited' = credited
  BY DEF Promise!Fail, Promise!Become, Statuses, Items
<1>6. \A p : Promise!Grant(p) <=>
          /\ Statuses[p] \in {"PENDING", "FAILED"} /\ Statuses' = [Statuses EXCEPT ![p] = "PAID"]
          /\ gateway[p] = "full"
          /\ credited' = [credited EXCEPT ![p] = IF Items[p] = None THEN credited[p] + 1 ELSE credited[p]]
          /\ Items' = Items /\ gateway' = gateway
  BY DEF Promise!Grant, Promise!Become, Statuses, Items
<1>7. Promise!Next <=>
          \E p \in Payment : Promise!Open(p) \/ Promise!Refuse(p) \/ Promise!Receive(p) \/ Promise!Fail(p) \/ Promise!Grant(p)
  BY DEF Promise!Next
<1> QED
  BY <1>1, <1>2, <1>3, <1>4, <1>5, <1>6, <1>7

(* A step of the payments as the promise sees it: storing, failing and committing, and the
   gateway's answer; all the rest goes unnoticed. *)
LEMMA PaymentMapping ==
    ASSUME BillInv, PlanInv, VerifiedInv, CreditsShape, CreditsOnce, [Next]_vars
    PROVE  [Promise!Next]_(Promise!vars)
<1> USE DEF BillInv, PayShape
<1>0. \A p \in Payment, st \in {"PAID", "FAILED"} : LET y == [pays[p] EXCEPT !.status = st]
                                                 IN  y.status = st /\ y.sub = pays[p].sub
  BY DEF PayRow
<1>1. CASE UNCHANGED payVars
  BY <1>1 DEF Promise!vars, payVars
<1>2. CASE \E p \in Payment : Initiate(p)
  <2> PICK p \in Payment : Initiate(p)
    BY <1>2
  <2>1. PICK s \in {t \in Sub : subs[t].status = "PENDING"} \cup {None}, st \in {"PENDING", "FAILED"} :
            /\ pays' = [pays EXCEPT ![p] = [status |-> st, sub |-> s]]
            /\ gateway' = IF st = "PENDING" THEN [gateway EXCEPT ![p] = "open"] ELSE gateway
    BY DEF Initiate
  <2>2. pays[p].status = "NONE" /\ credited' = credited /\ s \in Sub \cup {None}
    BY <2>1 DEF Initiate
  <2>3. Statuses' = [Statuses EXCEPT ![p] = st] /\ Items' = [Items EXCEPT ![p] = s] /\ Statuses[p] = "NONE"
    BY <2>1, <2>2 DEF Statuses, Items
  <2>4. Promise!Open(p) \/ Promise!Refuse(p)
    BY <2>1, <2>2, <2>3, PromiseTerms
  <2> QED
    BY <2>4, PromiseTerms
<1>3. CASE \E h \in Handler : MarkTerminal(h)
  <2>0. UNCHANGED <<gateway, credited>>
    BY <1>3, TerminalSteps
  <2>1. CASE pays' = pays
    BY <1>1, <2>0, <2>1 DEF payVars
  <2>2. ASSUME NEW p \in Payment, NEW y \in PayRow, pays[p].status = "PENDING", pays' = [pays EXCEPT ![p] = y],
               y.status = "FAILED", y.sub = pays[p].sub
        PROVE  Promise!Next
    <3>1. Statuses' = [Statuses EXCEPT ![p] = "FAILED"] /\ Items' = Items /\ Statuses[p] = "PENDING"
      BY <2>2 DEF Statuses, Items
    <3> QED
      BY <2>0, <3>1, PromiseTerms
  <2> QED
    BY <1>3, <2>1, <2>2, TerminalSteps
<1>4. CASE \E h \in Handler : Validate(h)
  <2> PICK h \in Handler : Validate(h)
    BY <1>4
  <2>0. PICK p \in Payment : p = proc[h].pay
    BY DEF Validate, Roles
  <2>1. PICK sum \in Paid(p) : gateway' = [gateway EXCEPT ![p] = sum]
    BY <2>0 DEF Validate
  <2>2. pays' = pays /\ credited' = credited /\ gateway \in [Payment -> {"none", "open", "short", "full"}]
    BY DEF Validate, PlanInv, PlanShape
  <2>3. Statuses' = Statuses /\ Items' = Items
    BY <2>2 DEF Statuses, Items
  <2>4. CASE sum = gateway[p]
    BY <1>1, <2>1, <2>2, <2>4 DEF payVars
  <2>5. CASE sum # gateway[p]
    <3>1. gateway[p] = "open" /\ sum \in {"short", "full"}
      BY <2>1, <2>5 DEF Paid
    <3> QED
      BY <2>1, <2>2, <2>3, <3>1, PromiseTerms
  <2> QED
    BY <2>4, <2>5
<1>5. CASE \E h \in Handler : Commit(h)
  <2> PICK h \in Handler : Commit(h)
    BY <1>5
  <2>0. PICK p \in Payment : p = proc[h].pay
    BY DEF Commit, Roles
  <2>1. pays[p].status \in {"PENDING", "FAILED"}
    <3>1. Owner(h) /\ pays[p] \in PayRow /\ proc[h].op = "settle"
      BY <2>0 DEF Commit, Roles, Owner
    <3>2. pays[p].status \notin {"NONE", "PAID"}
      BY <2>0, <3>1 DEF Roles
    <3> QED
      BY <3>1, <3>2 DEF PayRow
  <2>2. gateway[p] = "full"
    BY <2>0 DEF Commit, Roles, VerifiedInv, Verified
  <2>3. credited[p] = 0
    BY <2>1 DEF CreditsOnce
  <2> DEFINE y == [pays[p] EXCEPT !.status = "PAID"]
  <2>4. /\ pays' = [pays EXCEPT ![p] = y] /\ gateway' = gateway
        /\ credited' = [credited EXCEPT ![p] = IF pays[p].sub = None /\ credited[p] = 0 THEN 1 ELSE credited[p]]
    BY <2>0 DEF Commit
  <2>5. y.status = "PAID" /\ y.sub = pays[p].sub
    BY <1>0
  <2> HIDE DEF y
  <2>6. Statuses' = [Statuses EXCEPT ![p] = "PAID"] /\ Items' = Items /\ Statuses[p] \in {"PENDING", "FAILED"} /\ Items[p] = pays[p].sub
    BY <2>1, <2>4, <2>5 DEF Statuses, Items
  <2>7. credited' = [credited EXCEPT ![p] = IF Items[p] = None THEN credited[p] + 1 ELSE credited[p]]
    BY <2>3, <2>4, <2>6
  <2>8. Promise!Grant(p)
    BY <2>2, <2>4, <2>6, <2>7, PromiseTerms
  <2> QED
    BY <2>8, PromiseTerms
<1> QED
  BY <1>1, <1>2, <1>3, <1>4, <1>5, Zenon
  DEF Next, vars, payVars, Arrive, Step, Subscribe, InsertPending, RecordReference, Replace, Confirm, SaveConfirmed, Find,
      CancelPrev, Write, RecordAssigned, Settle, Terminate, LockRow, Book, ConnectTimeout, QueryFails, Die, LoadEntitlements,
      CacheEntitlements, ExpireEntitlements, Lapse

(* Callbacks, settlements that die, time out or are repeated, and activations that fail: the
   payments of payment.service.ts implement PaymentPromise, so each is granted once, only for
   all of its price, for what was bought, and its credits come with it. *)
THEOREM PaymentsKeepPromise == Spec => KeepsPromise
<1>1. Init => Promise!Init
  <2> SUFFICES ASSUME Init PROVE Promise!Init
    OBVIOUS
  <2>1. Statuses = [p \in Payment |-> "NONE"] /\ Items = [p \in Payment |-> None]
    BY DEF Init, NoPay, Statuses, Items
  <2> QED
    BY <2>1, PromiseTerms DEF Init
<1>2. Init => VerifiedInv /\ CreditsShape
  BY IdleLocal DEF Init, VerifiedInv, Verified, CreditsShape
<1>3. BillInv /\ PlanInv /\ VerifiedInv /\ [Next]_vars => (VerifiedInv)'
  BY VerifiedStep
<1>4. BillInv /\ PlanInv /\ VerifiedInv /\ CreditsShape /\ CreditsOnce /\ [Next]_vars => [Promise!Next]_(Promise!vars)
  BY PaymentMapping
<1>5. BillInv /\ CreditsShape /\ CreditsOnce /\ [Next]_vars => (CreditsShape)'
  BY CreditsStep
<1> QED
  BY <1>1, <1>2, <1>3, <1>4, <1>5, Invariants, CreditsOnceHolds,
     PTL DEF Spec, KeepsPromise, Promise!Spec

-----------------------------------------------------------------------------
(* What an activation leaves: the subscription shows that it was paid. *)
Shown(p) == pays[p].sub # None => subs[pays[p].sub].paid = TRUE

(* A settlement that comes to its end, and no other, has activated what it is for. *)
ShownInv ==
    /\ \A h \in Handler : proc[h].op = "settle" /\ proc[h].pc \in {"book", "commit"} => Shown(proc[h].pay)
    /\ \A p \in Payment : pays[p].status = "PAID" => Shown(p)

(* What a query does that throws while a settlement activates the plan: it is logged and the
   settlement goes on. *)
ActivationFails == \E h \in Holding : ConnectTimeout(h) \/ QueryFails(h)

(* A row in use keeps the amount that was paid, whatever happens to its status. *)
LEMMA PaidAmountStays ==
    ASSUME BillInv, PlanInv, [Next]_vars
    PROVE  \A s \in Sub : subs[s].status # "NONE" /\ subs[s].paid = TRUE => subs'[s].paid = TRUE
<1> DEFINE Kept == \A s \in Sub : subs[s].status # "NONE" /\ subs[s].paid = TRUE => subs'[s].paid = TRUE
<1> USE DEF BillInv, ProcShape, PlanInv, PlanShape
<1>1. ASSUME NEW s \in Sub, NEW y \in SubRow, subs' = [subs EXCEPT ![s] = y],
             subs[s].status = "NONE" \/ y.paid = subs[s].paid \/ y.paid = TRUE
      PROVE  Kept
  BY <1>1
<1>2. ASSUME NEW s \in Sub, NEW st \in {"CANCELLED", "EXPIRED"}, subs' = [subs EXCEPT ![s].status = st] PROVE Kept
  <2> DEFINE y == [subs[s] EXCEPT !.status = st]
  <2>1. subs' = [subs EXCEPT ![s] = y] /\ y \in SubRow /\ y.paid = subs[s].paid
    BY <1>2 DEF SubRow
  <2> HIDE DEF y
  <2> QED
    BY <1>1, <2>1
<1>3. Plan # 0 => Plan \in Sub
  BY PlanActive DEF Active
<1>4. CASE \E h \in Handler : Subscribe(h)
  <2> DEFINE y(s) == [subs[s] EXCEPT !.status = "CANCELLED"]
  <2>1. subs' = [s \in Sub |-> IF subs[s].status = "PENDING" THEN y(s) ELSE subs[s]]
    BY <1>4 DEF Subscribe
  <2>2. \A s \in Sub : y(s).paid = subs[s].paid
    BY DEF SubRow
  <2> HIDE DEF y
  <2> QED
    BY <2>1, <2>2
<1>5. CASE \E h \in Handler : InsertPending(h)
  <2>0. Inserting # {}
    BY <1>5 DEF InsertPending, Inserting, Roles
  <2>1. Min(Unused) \in Unused
    BY <2>0, UnusedLeft
  <2>2. PICK s \in Sub : s = Min(Unused) /\ subs[s].status = "NONE"
    BY <2>1 DEF Unused
  <2> DEFINE y == [NoSub EXCEPT !.status = "PENDING", !.price = TRUE]
  <2>3. subs' = [subs EXCEPT ![s] = y] /\ y \in SubRow
    BY <1>5, <2>2, SubRows DEF InsertPending, Insert
  <2> HIDE DEF y
  <2> QED
    BY <1>1, <2>2, <2>3
<1>6. CASE \E h \in Handler : Find(h)
  <2>1. subs' = subs \/ (Plan # 0 /\ subs' = [subs EXCEPT ![Plan].status = "EXPIRED"])
    BY <1>6 DEF Find
  <2> QED
    BY <1>2, <1>3, <2>1
<1>7. CASE \E h \in Handler : CancelPrev(h)
  BY <1>2, <1>7 DEF CancelPrev, Backed
<1>8. CASE \E h \in Handler : Write(h)
  <2> PICK h \in Handler : Write(h)
    BY <1>8
  <2>0. NewPlan(h) /\ proc[h].pc = "write"
    BY DEF Write
  <2>1. CASE proc[h].op \in {"subscribeFree", "assignPlan"}
    <3>0. h \in Inserting
      BY <2>0, <2>1 DEF Inserting
    <3>1. Min(Unused) \in Unused
      BY <3>0, UnusedLeft
    <3>2. PICK s \in Sub : s = Min(Unused) /\ subs[s].status = "NONE"
      BY <3>1 DEF Unused
    <3> DEFINE b == proc[h].op = "assignPlan"
               y == [NoSub EXCEPT !.status = "ACTIVE", !.price = b, !.paid = b]
    <3>3. subs' = [subs EXCEPT ![s] = y] /\ y \in SubRow
      BY <2>0, <2>1, <3>2, SubRows DEF NewPlan, Insert
    <3> HIDE DEF y
    <3> QED
      BY <1>1, <3>2, <3>3
  <2>2. CASE proc[h].op \in {"settle", "confirm"}
    <3>1. PICK s \in Sub : s = proc[h].sub
      BY <2>0, <2>2, SubInUse
    <3> DEFINE y == [subs[s] EXCEPT !.status = "ACTIVE", !.paid = TRUE]
    <3>2. subs' = [subs EXCEPT ![s] = y]
      BY <2>0, <2>2, <3>1 DEF NewPlan
    <3>3. y \in SubRow
      BY SubRows
    <3>4. y.paid = TRUE
      BY DEF SubRow
    <3> HIDE DEF y
    <3> QED
      BY <1>1, <3>2, <3>3, <3>4
  <2>3. CASE proc[h].op \notin {"subscribeFree", "assignPlan", "settle", "confirm"}
    BY <2>0, <2>3 DEF NewPlan
  <2> QED
    BY <2>1, <2>2, <2>3
<1>9. CASE \E r \in Reader : LoadEntitlements(r)
  <2>1. subs' = subs \/ (Plan # 0 /\ subs' = [subs EXCEPT ![Plan].status = "EXPIRED"])
    BY <1>9 DEF LoadEntitlements
  <2> QED
    BY <1>2, <1>3, <2>1
<1>10. CASE \E s \in Sub : Lapse(s)
  <2> PICK s \in Sub : Lapse(s)
    BY <1>10
  <2> DEFINE y == [subs[s] EXCEPT !.lapsed = TRUE]
  <2>1. subs' = [subs EXCEPT ![s] = y] /\ y \in SubRow
    BY SubRows DEF Lapse
  <2>2. y.paid = subs[s].paid
    BY DEF SubRow
  <2> HIDE DEF y
  <2> QED
    BY <1>1, <2>1, <2>2
<1>11. CASE subs' = subs
  BY <1>11
<1> QED
  BY <1>4, <1>5, <1>6, <1>7, <1>8, <1>9, <1>10, <1>11
  DEF Next, vars, subVars, Arrive, Step, Replace, Confirm, RecordReference, SaveConfirmed, RecordAssigned, Initiate,
      MarkTerminal, Settle, Terminate, LockRow, Validate, Book, Commit, ConnectTimeout, QueryFails, Die, CacheEntitlements,
      ExpireEntitlements

(* Unless a query of the activation throws, a settlement comes to its end by activating. *)
LEMMA ShownStep ==
    ASSUME BillInv, PlanInv, ShownInv, [Next]_vars, ~ActivationFails
    PROVE  ShownInv'
<1> USE DEF BillInv, ProcShape, PayShape
<1>1. ASSUME NEW p \in Payment, pays[p].status # "NONE", Shown(p) PROVE Shown(p)'
  <2>1. pays'[p].sub = pays[p].sub
    BY <1>1, PayChange
  <2>2. pays[p].sub # None => pays[p].sub \in Sub /\ subs[pays[p].sub].status # "NONE"
    BY DEF PlanInv, Backed, PayRow
  <2> QED
    BY <1>1, <2>1, <2>2, PaidAmountStays DEF Shown
<1>2. ASSUME NEW h \in Handler, proc'[h] = proc[h], proc'[h].op = "settle", proc'[h].pc \in {"book", "commit"}
      PROVE  Shown(proc[h].pay)'
  <2>1. PICK p \in Payment : p = proc[h].pay /\ pays[p].status # "NONE"
    BY <1>2 DEF Roles
  <2> QED
    BY <1>1, <1>2, <2>1 DEF ShownInv, Shown
<1>3. ASSUME NEW h \in Handler, Step(h) \/ QueryFails(h) \/ Die(h), proc'[h].op = "settle", proc'[h].pc \in {"book", "commit"}
      PROVE  Shown(proc[h].pay)'
  <2>1. ~Done(h)
    BY <1>3 DEF Done, Idle
  <2>2. proc'[h].op = proc[h].op /\ proc'[h].pay = proc[h].pay
    <3>1. GoesOn(h)
      BY <1>3, HandlerSteps DEF PlanInv
    <3> QED
      BY <2>1, <3>1 DEF GoesOn, Follows
  <2>3. PICK p \in Payment : p = proc[h].pay /\ pays[p].status # "NONE"
    BY <1>3, <2>2 DEF Roles
  <2>4. CASE Validate(h)
    <3>1. pays' = pays /\ subs' = subs /\ proc'[h] = [proc[h] EXCEPT !.sub = pays[p].sub, !.pc = AfterValidation(p)]
      BY <2>1, <2>3, <2>4 DEF Validate, subVars
    <3>2. proc'[h].pc = AfterValidation(p)
      BY <3>1 DEF Local
    <3>3. pays[p].sub = None
      BY <1>3, <3>2 DEF AfterValidation
    <3> QED
      BY <2>2, <2>3, <3>1, <3>3 DEF Shown
  <2>5. CASE Write(h)
    <3>1. proc[h].sub \in Sub /\ proc[h].sub = pays[p].sub
      BY <1>3, <2>2, <2>3, <2>5 DEF Write, PlanInv, Entitled
    <3> DEFINE y == [subs[proc[h].sub] EXCEPT !.status = "ACTIVE", !.paid = TRUE]
    <3>2. pays' = pays /\ subs' = [subs EXCEPT ![proc[h].sub] = y]
      BY <1>3, <2>2, <2>5, Zenon DEF Write, NewPlan, payVars
    <3>3. y.paid = TRUE
      BY <3>1 DEF PlanInv, PlanShape, SubRow
    <3> HIDE DEF y
    <3> QED
      BY <2>2, <2>3, <3>1, <3>2, <3>3 DEF Shown, PlanInv, PlanShape
  <2>6. CASE Book(h)
    <3>1. proc[h].pc = "book" /\ proc[h].op = "settle"
      BY <1>3, <2>2, <2>6 DEF Book
    <3> QED
      BY <1>1, <2>2, <2>3, <3>1 DEF ShownInv, Shown
  <2>7. CASE ConnectTimeout(h) \/ QueryFails(h)
    BY <1>3, <2>2, <2>7 DEF ActivationFails, Holding
  <2>8. CASE RecordReference(h) \/ RecordAssigned(h) \/ MarkTerminal(h) \/ Commit(h) \/ Die(h)
    BY <2>1, <2>8 DEF RecordReference, RecordAssigned, MarkTerminal, Commit, Die
  <2>9. CASE SaveConfirmed(h) \/ Find(h) \/ CancelPrev(h)
    BY <1>3, <2>9 DEF SaveConfirmed, Find, CancelPrev, Goto, Local
  <2>10. CASE LockRow(h)
    BY <1>3, <2>1, <2>10 DEF LockRow, Goto, Local
  <2>11. CASE InsertPending(h)
    BY <1>3, <2>2, <2>11 DEF InsertPending, Roles
  <2> QED
    BY <1>3, <2>4, <2>5, <2>6, <2>7, <2>8, <2>9, <2>10, <2>11 DEF Step
<1>4. ASSUME NEW h \in Handler, proc'[h].op = "settle", proc'[h].pc \in {"book", "commit"} PROVE Shown(proc[h].pay)'
  <2>1. CASE proc'[h] = proc[h]
    BY <1>2, <1>4, <2>1
  <2>2. CASE \E g \in Handler : Arrive(g)
    <3> PICK g \in Handler : Arrive(g)
      BY <2>2
    <3>1. PICK y : Fresh(y) /\ proc' = [proc EXCEPT ![g] = y]
      BY ArriveSteps
    <3> QED
      BY <1>4, <2>1, <3>1 DEF Fresh
  <2>3. CASE \E g \in Handler : Step(g) \/ QueryFails(g) \/ Die(g)
    <3> PICK g \in Handler : Step(g) \/ QueryFails(g) \/ Die(g)
      BY <2>3
    <3>1. PICK y \in Local : proc' = [proc EXCEPT ![g] = y]
      BY HandlerSteps, GoesOnAlone DEF PlanInv
    <3>2. CASE g = h
      BY <1>3, <1>4, <3>2
    <3> QED
      BY <2>1, <3>1, <3>2
  <2> QED
    BY <2>1, <2>2, <2>3, NextSteps
<1>5. ASSUME NEW p \in Payment, pays'[p].status = "PAID" PROVE Shown(p)'
  <2>1. CASE pays[p].status = "PAID"
    BY <1>1, <2>1 DEF ShownInv
  <2>2. CASE \E h \in Handler : Commit(h) /\ proc[h].pay = p
    BY <1>1, <2>2 DEF Commit, ShownInv, Roles
  <2> QED
    BY <1>5, <2>1, <2>2, PayChange
<1> QED
  BY <1>4, <1>5 DEF ShownInv

(* A payment that is PAID has activated its subscription, unless the pool ran empty under the
   activation or one of its queries threw: activateSubscriptionIfNeeded swallows only that.  So
   a customer pays for nothing in no other way: no order of callbacks, no settlement that is
   repeated, rolled back or races with a change of the plan loses an activation. *)
THEOREM PaidIsActivatedOtherwise == Spec /\ [][~ActivationFails]_vars => []PaidIsActivated
<1>1. Init => ShownInv
  BY IdleLocal DEF Init, ShownInv, NoPay
<1>2. BillInv /\ PlanInv /\ ShownInv /\ [Next]_vars /\ [~ActivationFails]_vars => (ShownInv)'
  <2> SUFFICES ASSUME BillInv, PlanInv, ShownInv, [Next]_vars, [~ActivationFails]_vars PROVE ShownInv'
    OBVIOUS
  <2>1. CASE ~ActivationFails
    BY <2>1, ShownStep
  <2>2. CASE UNCHANGED vars
    BY <2>2 DEF ShownInv, Shown, vars, subVars, payVars
  <2> QED
    BY <2>1, <2>2
<1>3. BillInv /\ PlanInv /\ ShownInv => PaidIsActivated
  <2> SUFFICES ASSUME ShownInv, NEW p \in Payment, pays[p].status = "PAID", pays[p].sub # None
               PROVE  subs[pays[p].sub].paid
    BY DEF PaidIsActivated
  <2> QED
    BY DEF ShownInv, Shown
<1> QED
  BY <1>1, <1>2, <1>3, Invariants, PTL DEF Spec

(* The pool never runs empty when it has more connections than there are requests that may
   settle payments at once. *)
LEMMA PoolSuffices == ASSUME IsFiniteSet(Handler), Cardinality(Handler) < PoolMax PROVE Connection
<1>1. Holding \subseteq Handler
  BY DEF Holding
<1>2. Cardinality(Holding) <= Cardinality(Handler) /\ Cardinality(Holding) \in Nat /\ Cardinality(Handler) \in Nat
  BY <1>1, FS_Subset, FS_CardinalityType
<1> QED
  BY <1>2, BillingAssumption DEF Connection

(* Hence, with a pool that large, only a query that throws can lose an activation: the
   customer who paid and got nothing had a pool that was exhausted, or a failing database. *)
THEOREM PaidIsActivatedWithLargePool ==
    ASSUME IsFiniteSet(Handler), Cardinality(Handler) < PoolMax
    PROVE  Spec /\ [][\A h \in Holding : ~QueryFails(h)]_vars => []PaidIsActivated
<1>1. (\A h \in Holding : ~QueryFails(h)) => ~ActivationFails
  BY PoolSuffices DEF ActivationFails, ConnectTimeout
<1> QED
  BY <1>1, PaidIsActivatedOtherwise, PTL
=============================================================================
