--------------------- MODULE CustomerCancellation_proofs ---------------------
(***************************************************************************)
(* Proofs about the refund and cancellation of an order, for any number of *)
(* children, workers, retries and interventions.                           *)
(***************************************************************************)
EXTENDS CustomerCancellation, TLAPS

-----------------------------------------------------------------------------
(* The inductive invariant *)

Done(i) == item[i] \in {"REFUNDED_AWAITING_ORDER_CANCEL", "APPROVED"}

\* A child that was approved has an attempt, with the one key it will ever have;
\* an attempt has FAILED only with an answer that says so.
AttemptInv ==
    \A i \in Items :
        /\ item[i] # "PENDING" => attempt[i].status # "none"
        /\ attempt[i].status # "none" => attempt[i].key = 1
        /\ attempt[i].status = "FAILED" =>
               \E r \in asked : r.item = i /\ r.answer = "rejected"

\* Shopify has at most one request for a child, and the saga's refund is its answer.
AskInv ==
    /\ \A r \in asked : r.key = 1 /\ attempt[r.item].status # "none"
    /\ \A r, s \in asked : r.item = s.item => r = s
    /\ \A r \in asked : r.answer = "refunded" => shop.refund[r.item] = "saga"
    /\ \A i \in Items : shop.refund[i] = "saga" =>
           \E r \in asked : r.item = i /\ r.answer = "refunded"

\* What a worker has seen stays true, even when it has been replaced.
WorkOK(w) ==
    /\ work[w].pc \in {"reclassify", "submit", "await"} => attempt[It(w)].status # "none"
    /\ At(w, "commit") => Returned(It(w)) /\ item[It(w)] # "PENDING"
    /\ work[w].pc \in {"cancelRead", "cancel", "persist", "poll", "finalize"} => Done(It(w))
    /\ At(w, "finalize") => Cancelled
    /\ work[w].outcome = "COMPLETED" => item[It(w)] = "APPROVED"

WorkInv == \A w \in Workers : WorkOK(w)

Safe == AttemptInv /\ AskInv /\ WorkInv /\ RowsAreTrue

IInv == TypeOK /\ Safe

-----------------------------------------------------------------------------
(* The steps, grouped by what they change *)

\* Steps that only read, or a process that dies.
Reads(w) ==
    \/ Reconcile(w) \/ Classify(w) \/ ReadCanonical(w) \/ Reclassify(w)
    \/ CancelRead(w) \/ Crash(w)

\* Steps on the job alone.
Runs(w) == (\E i \in Items : Claim(w, i)) \/ Heartbeat(w) \/ Finish(w)

\* Steps of a worker that write a child, its attempt or a request.
Writes(w) ==
    \/ ReconcileCommit(w) \/ Approve(w) \/ Submit(w) \/ Answer(w)
    \/ CancelOrder(w) \/ Persist(w) \/ Poll(w) \/ Finalize(w)

\* Steps of the others on one child.
Around(i) == RefundWebhook(i) \/ Spoil(i) \/ Expire(i)

\* Every step is of one of these groups.
LEMMA Groups ==
    ASSUME Next
    PROVE  \/ \E w \in Workers : Reads(w) \/ Runs(w) \/ Writes(w)
           \/ \E i \in Items : Around(i)
           \/ Shopify
BY DEF Next, Worker, Attempt, Reads, Runs, Writes, Around

\* Steps that read leave the rows and Shopify alone.
LEMMA ReadsQuiet == ASSUME NEW w, Reads(w) PROVE UNCHANGED <<Rows, External>>
BY DEF Reads, Reconcile, ReconcileRead, Classify, Reclassify, ClassifyLocal, ReadCanonical,
       CancelRead, Crash, Rows, External

\* Steps on the job leave everything else alone.
LEMMA RunsQuiet == ASSUME NEW w, Runs(w) PROVE UNCHANGED <<item, attempt, local, External>>
BY DEF Runs, Claim, Heartbeat, Finish, External

-----------------------------------------------------------------------------
(* Type correctness *)

\* A worker that has nothing to do is in a state of its type.
LEMMA IdleType == \A w \in Workers : Idle(w) \in Works
BY ConstantsAssumption DEF Idle, Works, Pc, Outcomes

\* Every initial state has the types of TypeOK.
LEMMA TypeInit == Init => TypeOK
<1>1. (CHOOSE w \in Workers : TRUE) \in Workers
  BY ConstantsAssumption
<1> QED
  BY <1>1, IdleType, ConstantsAssumption
     DEF Init, TypeOK, ItemStatus, Attempts, AttemptStatus, Jobs, JobStatus, Allocations,
         Orders, CancelStates, Requests

\* The moves of a worker, whatever else a step does.
LEMMA MoveTypes ==
    ASSUME TypeOK, NEW w \in Workers
    PROVE  /\ \A pc \in Pc : Goto(w, pc) => work' \in [Workers -> Works]
           /\ \A o \in Outcomes : Outcome(w, o) => work' \in [Workers -> Works]
<1>1. work \in [Workers -> Works] /\ work[w] \in Works
  BY DEF TypeOK
<1>2. \A pc \in Pc : [work[w] EXCEPT !.pc = pc] \in Works
  BY <1>1 DEF Works
<1>3. \A o \in Outcomes : [work[w] EXCEPT !.pc = "finish", !.outcome = o] \in Works
  BY <1>1 DEF Works, Pc
<1>4. \A pc \in Pc : Goto(w, pc) => work' \in [Workers -> Works]
  BY <1>1, <1>2 DEF Goto
<1>5. \A o \in Outcomes : Outcome(w, o) => work' \in [Workers -> Works]
  BY <1>1, <1>3 DEF Outcome
<1> QED BY <1>4, <1>5

\* A step that reads moves its worker to a state of its type.
LEMMA ReadsTypes == ASSUME TypeOK, NEW w \in Workers, Reads(w) PROVE TypeOK'
<1>1. UNCHANGED <<Rows, External>>
  BY ReadsQuiet
<1>2. work \in [Workers -> Works] /\ work[w] \in Works
  BY DEF TypeOK
<1>3. work' \in [Workers -> Works]
  <2>1. CASE Reconcile(w)
    BY <2>1, MoveTypes DEF Reconcile, ReconcileRead, Pc, Outcomes
  <2>2. CASE Classify(w)
    BY <2>2, MoveTypes DEF Classify, ClassifyLocal, Pc, Outcomes
  <2>3. CASE Reclassify(w)
    BY <2>3, MoveTypes DEF Reclassify, ClassifyLocal, Pc, Outcomes
  <2>4. CASE ReadCanonical(w)
    <3>1. RefundableShipping \in BOOLEAN
      BY ConstantsAssumption DEF RefundableShipping
    <3>2. [work[w] EXCEPT !.pc = "approve", !.ship = RefundableShipping] \in Works
      BY <1>2, <3>1 DEF Works, Pc
    <3> QED BY <1>2, <2>4, <3>2, MoveTypes DEF ReadCanonical, CanonicalRefuses, Outcomes
  <2>5. CASE CancelRead(w)
    BY <2>5, MoveTypes DEF CancelRead, Pc, Outcomes
  <2>6. CASE Crash(w)
    BY <1>2, <2>6, IdleType DEF Crash
  <2> QED BY <2>1, <2>2, <2>3, <2>4, <2>5, <2>6 DEF Reads
<1> QED BY <1>1, <1>3 DEF TypeOK, Rows, External

\* A claim, a heartbeat and the end of an attempt leave jobs of their type.
LEMMA RunsTypes == ASSUME TypeOK, NEW w \in Workers, Runs(w) PROVE TypeOK'
<1>1. UNCHANGED <<item, attempt, local, External>>
  BY RunsQuiet
<1>2. /\ work \in [Workers -> Works] /\ work[w] \in Works /\ It(w) \in Items
      /\ job \in [Items -> Jobs] /\ \A i \in Items : job[i] \in Jobs
  BY DEF TypeOK, It, Works
<1>3. ASSUME NEW i \in Items, Claim(w, i)
      PROVE  job' \in [Items -> Jobs] /\ work' \in [Workers -> Works]
  <2> DEFINE n == IF job[i].retry < MaxRetries THEN job[i].retry + 1 ELSE MaxRetries
  <2>1. n \in 0..MaxRetries
    BY <1>2, ConstantsAssumption DEF Jobs
  <2>2. [status |-> "PROCESSING", owner |-> w, lease |-> TRUE, retry |-> n] \in Jobs
    BY <2>1 DEF Jobs, JobStatus
  <2>3. [Idle(w) EXCEPT !.pc = "reconcile", !.item = i, !.attempt = n] \in Works
    BY <2>1, IdleType DEF Works, Pc
  <2> HIDE DEF n
  <2>4. /\ job' = [job EXCEPT ![i] = [status |-> "PROCESSING", owner |-> w,
                                      lease |-> TRUE, retry |-> n]]
        /\ work' = [work EXCEPT ![w] = [Idle(w) EXCEPT !.pc = "reconcile", !.item = i,
                                                       !.attempt = n]]
    BY <1>3 DEF Claim, n
  <2> QED BY <1>2, <2>2, <2>3, <2>4
<1>4. CASE Heartbeat(w)
  <2>1. [job[It(w)] EXCEPT !.lease = TRUE] \in Jobs
    BY <1>2 DEF Jobs
  <2>2. job' \in [Items -> Jobs] /\ work' = work
    BY <1>2, <1>4, <2>1 DEF Heartbeat
  <2> QED BY <1>1, <1>2, <2>2 DEF TypeOK, External
<1>5. CASE Finish(w)
  <2>1. \A s \in JobStatus : [job[It(w)] EXCEPT !.lease = FALSE, !.status = s] \in Jobs
    BY <1>2 DEF Jobs
  <2>2. job' \in [Items -> Jobs]
    BY <1>2, <1>5, <2>1 DEF Finish, JobStatus
  <2>3. work' \in [Workers -> Works]
    BY <1>2, <1>5, IdleType DEF Finish
  <2> QED BY <1>1, <2>2, <2>3 DEF TypeOK, External
<1> QED BY <1>1, <1>3, <1>4, <1>5 DEF Runs, TypeOK, External

\* A write of a worker leaves rows, requests and the order of their type.
LEMMA WritesTypes == ASSUME TypeOK, NEW w \in Workers, Writes(w) PROVE TypeOK'
<1> DEFINE i == It(w)
<1>1. /\ work \in [Workers -> Works] /\ work[w] \in Works /\ i \in Items
      /\ item \in [Items -> ItemStatus]
      /\ attempt \in [Items -> Attempts] /\ attempt[i] \in Attempts
      /\ job \in [Items -> Jobs] /\ job[i] \in Jobs
  BY DEF TypeOK, It, Works
<1>2. \A s \in AttemptStatus : [attempt[i] EXCEPT !.status = s] \in Attempts
  BY <1>1 DEF Attempts
<1>3. CASE ReconcileCommit(w)
  <2>1. item' \in [Items -> ItemStatus] /\ attempt' \in [Items -> Attempts]
    BY <1>1, <1>2, <1>3 DEF ReconcileCommit, Resolve, ItemStatus, AttemptStatus
  <2> QED BY <1>3, <2>1, MoveTypes DEF ReconcileCommit, TypeOK, Pc, External
<1>4. CASE Approve(w)
  <2>1. Upsert(i, w) \in Attempts
    BY <1>1 DEF Upsert, Attempts, AttemptStatus, Works
  <2>2. item' \in [Items -> ItemStatus] /\ attempt' \in [Items -> Attempts]
    BY <1>1, <1>4, <2>1 DEF Approve, ItemStatus
  <2>3. [work[w] EXCEPT !.pc = "reclassify", !.ship = FALSE] \in Works
    BY <1>1 DEF Works, Pc
  <2>4. work' \in [Workers -> Works]
    BY <1>1, <1>4, <2>3, MoveTypes DEF Approve, Outcomes
  <2> QED BY <1>4, <2>2, <2>4 DEF Approve, TypeOK, External
<1>5. CASE Submit(w)
  <2>1. [item |-> i, key |-> attempt[i].key, ship |-> RefundableShipping,
         answer |-> "none"] \in Requests
    BY <1>1, ConstantsAssumption DEF Requests, Attempts, RefundableShipping
  <2>2. asked' \subseteq Requests
    BY <1>5, <2>1 DEF Submit, TypeOK
  <2>3. work' \in [Workers -> Works]
    BY <1>5, MoveTypes DEF Submit, CanonicalRefuses, Pc, Outcomes
  <2> QED BY <1>5, <2>2, <2>3 DEF Submit, TypeOK, Rows
<1>6. CASE Answer(w)
  <2>1. \A s \in AttemptStatus :
            [attempt[i] EXCEPT !.cancelJob = FALSE, !.status = s] \in Attempts
    BY <1>1 DEF Attempts
  <2>2. attempt' \in [Items -> Attempts]
    BY <1>1, <1>6, <2>1 DEF Answer, AttemptStatus
  <2>3. work' \in [Workers -> Works]
    BY <1>6, MoveTypes DEF Answer, Pc, Outcomes
  <2> QED BY <1>6, <2>2, <2>3 DEF Answer, TypeOK, External
<1>7. CASE CancelOrder(w)
  <2>1. [work[w] EXCEPT !.pc = "persist", !.outcome = "TERMINAL_EXCEPTION"] \in Works
    BY <1>1 DEF Works, Pc, Outcomes
  <2>2. work' \in [Workers -> Works]
    BY <1>1, <1>7, <2>1, MoveTypes DEF CancelOrder, Pc, Outcomes
  <2>3. shop' \in Orders
    BY <1>7 DEF CancelOrder, TypeOK, Orders, CancelStates
  <2> QED BY <1>7, <2>2, <2>3 DEF CancelOrder, TypeOK, Rows
<1>8. CASE Persist(w)
  <2>1. [attempt[i] EXCEPT !.cancelJob = (work[w].outcome = "none")] \in Attempts
    BY <1>1 DEF Attempts
  <2>2. attempt' \in [Items -> Attempts]
    BY <1>1, <1>8, <2>1 DEF Persist
  <2> QED BY <1>8, <2>2, MoveTypes DEF Persist, TypeOK, Pc, External
<1>9. CASE Finalize(w)
  <2>1. [job[i] EXCEPT !.status = "COMPLETED", !.lease = FALSE] \in Jobs
    BY <1>1 DEF Jobs, JobStatus
  <2>2. item' \in [Items -> ItemStatus] /\ job' \in [Items -> Jobs]
    BY <1>1, <1>9, <2>1 DEF Finalize, ItemStatus
  <2> QED BY <1>9, <2>2, MoveTypes DEF Finalize, TypeOK, Outcomes, External
<1>10. CASE Poll(w)
  <2>1. [attempt[i] EXCEPT !.cancelJob = TRUE] \in Attempts
    BY <1>1 DEF Attempts
  <2>2. attempt' \in [Items -> Attempts]
    BY <1>1, <1>10, <2>1 DEF Poll
  <2>3. work' \in [Workers -> Works]
    BY <1>10, MoveTypes DEF Poll, Pc, Outcomes
  <2> QED BY <1>10, <2>2, <2>3 DEF Poll, TypeOK, External
<1> QED BY <1>3, <1>4, <1>5, <1>6, <1>7, <1>8, <1>9, <1>10 DEF Writes

\* The webhook, other work on the allocation and the end of a lease.
LEMMA AroundTypes == ASSUME TypeOK, NEW i \in Items, Around(i) PROVE TypeOK'
<1>1. /\ item \in [Items -> ItemStatus]
      /\ attempt \in [Items -> Attempts] /\ attempt[i] \in Attempts
      /\ job \in [Items -> Jobs] /\ job[i] \in Jobs
      /\ local \in [Items -> Allocations] /\ local[i] \in Allocations
  BY DEF TypeOK
<1>2. [attempt[i] EXCEPT !.status = "RESOLVED"] \in Attempts
  BY <1>1 DEF Attempts, AttemptStatus
<1>3. CASE RefundWebhook(i)
  <2>1. [local[i] EXCEPT !.booked = TRUE] \in Allocations
    BY <1>1 DEF Allocations
  <2>2. /\ item' \in [Items -> ItemStatus] /\ attempt' \in [Items -> Attempts]
        /\ local' \in [Items -> Allocations]
    BY <1>1, <1>2, <1>3, <2>1 DEF RefundWebhook, Resolve, ItemStatus
  <2> QED BY <1>3, <2>2 DEF RefundWebhook, TypeOK, External
<1>4. CASE Spoil(i)
  <2>1. [local[i] EXCEPT !.clean = FALSE] \in Allocations
    BY <1>1 DEF Allocations
  <2>2. staff' \in 0..MaxStaff
    BY <1>4, ConstantsAssumption DEF Spoil, Intervene, TypeOK
  <2> QED BY <1>1, <1>4, <2>1, <2>2 DEF Spoil, TypeOK
<1>5. CASE Expire(i)
  <2>1. [job[i] EXCEPT !.lease = FALSE] \in Jobs
    BY <1>1 DEF Jobs
  <2> QED BY <1>1, <1>5, <2>1 DEF Expire, TypeOK, External
<1> QED BY <1>3, <1>4, <1>5 DEF Around

\* What happens at Shopify leaves requests and the order of their type.
LEMMA ShopifyTypes == ASSUME TypeOK, Shopify PROVE TypeOK'
<1> USE DEF TypeOK
<1>1. ASSUME NEW r \in asked, Process(r) PROVE TypeOK'
  <2>1. r \in Requests /\ r.item \in Items
    BY DEF Requests
  <2>2. \A answer \in {"refunded", "rejected"} : [r EXCEPT !.answer = answer] \in Requests
    BY <2>1 DEF Requests
  <2>3. asked' \subseteq Requests
    BY <1>1, <2>2 DEF Process
  <2>4. [shop EXCEPT !.refund[r.item] = "saga", !.shipping = @ \/ r.ship] \in Orders
    BY <2>1 DEF Orders, Requests
  <2>5. shop' \in Orders
    BY <1>1, <2>4 DEF Process
  <2> QED BY <1>1, <2>3, <2>5 DEF Process, Rows
<1>2. CASE CancelEnds
  BY <1>2 DEF CancelEnds, Orders, CancelStates, Rows
<1>3. ASSUME NEW i \in Items, AdminRefund(i) PROVE TypeOK'
  <2>1. RefundableShipping \in BOOLEAN
    BY ConstantsAssumption DEF RefundableShipping
  <2>2. \A ship \in BOOLEAN :
            [shop EXCEPT !.refund[i] = "admin", !.shipping = @ \/ ship] \in Orders
    BY DEF Orders
  <2>3. shop' \in Orders
    BY <1>3, <2>1, <2>2 DEF AdminRefund
  <2>4. staff' \in 0..MaxStaff
    BY <1>3, ConstantsAssumption DEF AdminRefund, Intervene
  <2> QED BY <1>3, <2>3, <2>4 DEF AdminRefund, Rows
<1>4. CASE AdminCancel
  <2>1. shop' \in Orders
    BY <1>4 DEF AdminCancel, Orders, CancelStates
  <2>2. staff' \in 0..MaxStaff
    BY <1>4, ConstantsAssumption DEF AdminCancel, Intervene
  <2> QED BY <1>4, <2>1, <2>2 DEF AdminCancel, Rows
<1> QED BY <1>1, <1>2, <1>3, <1>4 DEF Shopify

\* Every step keeps the types.
LEMMA TypeNext == TypeOK /\ [Next]_vars => TypeOK'
<1>1. ASSUME TypeOK, Next PROVE TypeOK'
  BY <1>1, Groups, ReadsTypes, RunsTypes, WritesTypes, AroundTypes, ShopifyTypes
<1>2. ASSUME TypeOK, UNCHANGED vars PROVE TypeOK'
  BY <1>2 DEF TypeOK, vars
<1> QED BY <1>1, <1>2

\* TypeOK holds of every run of the executor, the webhook and Shopify.
THEOREM TypeCorrect == Spec => []TypeOK
BY TypeInit, TypeNext, PTL DEF Spec

-----------------------------------------------------------------------------
(* What no step takes back *)

\* The refunds, the shipping and the cancellation stay; a child does not go back,
\* and its attempt keeps what it intended.
Forward ==
    /\ \A i \in Items :
          /\ Refunded(i) => Refunded(i)'
          /\ shop.refund[i] = "saga" => shop'.refund[i] = "saga"
          /\ item[i] # "PENDING" => item'[i] # "PENDING"
          /\ Done(i) => Done(i)'
          /\ item[i] = "APPROVED" => item'[i] = "APPROVED"
          /\ attempt[i].status # "none" => /\ attempt'[i].status # "none"
                                           /\ attempt'[i].ship = attempt[i].ship
    /\ shop.shipping => shop'.shipping
    /\ Cancelled => Cancelled'

\* Steps that change neither a child, nor an attempt, nor the order.
LEMMA StillForward == ASSUME UNCHANGED <<item, attempt, shop>> PROVE Forward
BY DEF Forward, Refunded, Done, Cancelled

\* A write of a worker takes nothing back.
LEMMA WritesForward ==
    ASSUME TypeOK, NEW w \in Workers, Writes(w)
    PROVE  Forward
<1>1. /\ work \in [Workers -> Works] /\ work[w] \in Works /\ It(w) \in Items
      /\ item \in [Items -> ItemStatus] /\ attempt \in [Items -> Attempts]
      /\ \A i \in Items : attempt[i] \in Attempts
  BY DEF TypeOK, It, Works
<1>2. CASE ReconcileCommit(w)
  <2>1. UNCHANGED shop
    BY <1>2 DEF ReconcileCommit, External
  <2>2. CASE item[It(w)] = "APPROVED_FOR_REFUND"
    <3>1. /\ item' = [item EXCEPT ![It(w)] = "REFUNDED_AWAITING_ORDER_CANCEL"]
          /\ attempt' = [attempt EXCEPT ![It(w)].status = "RESOLVED"]
      BY <1>2, <2>2 DEF ReconcileCommit, Resolve
    <3> QED BY <1>1, <2>1, <2>2, <3>1 DEF Forward, Refunded, Done, Cancelled, Attempts
  <2>3. CASE item[It(w)] # "APPROVED_FOR_REFUND"
    BY <1>2, <2>1, <2>3, StillForward DEF ReconcileCommit, Resolve
  <2> QED BY <2>2, <2>3
<1>3. CASE Approve(w)
  <2>1. UNCHANGED shop
    BY <1>3 DEF Approve, External
  <2>2. CASE UNCHANGED <<item, attempt>>
    BY <2>1, <2>2, StillForward
  <2>3. CASE ~UNCHANGED <<item, attempt>>
    <3>1. /\ item[It(w)] \in Processable
          /\ item' = [item EXCEPT ![It(w)] = "APPROVED_FOR_REFUND"]
          /\ attempt' = [attempt EXCEPT ![It(w)] = Upsert(It(w), w)]
      BY <1>3, <2>3 DEF Approve
    <3> QED BY <1>1, <2>1, <3>1
            DEF Forward, Refunded, Done, Cancelled, Processable, Upsert
  <2> QED BY <2>2, <2>3
<1>4. CASE Submit(w)
  BY <1>4, StillForward DEF Submit, Rows
<1>5. CASE Answer(w)
  <2>1. UNCHANGED <<item, shop>>
    BY <1>5 DEF Answer, External
  <2>2. \A i \in Items : attempt[i].status # "none" =>
            attempt'[i].status # "none" /\ attempt'[i].ship = attempt[i].ship
    BY <1>1, <1>5 DEF Answer, Attempts
  <2> QED BY <2>1, <2>2 DEF Forward, Refunded, Done, Cancelled
<1>6. CASE CancelOrder(w)
  BY <1>6 DEF CancelOrder, Rows, TypeOK, Orders, Forward, Refunded, Done, Cancelled
<1>7. CASE Persist(w) \/ Poll(w)
  <2>1. UNCHANGED <<item, shop>>
    BY <1>7 DEF Persist, Poll, External
  <2>2. \A i \in Items : attempt[i].status # "none" =>
            attempt'[i].status # "none" /\ attempt'[i].ship = attempt[i].ship
    BY <1>1, <1>7 DEF Persist, Poll, Attempts
  <2> QED BY <2>1, <2>2 DEF Forward, Refunded, Done, Cancelled
<1>8. CASE Finalize(w)
  BY <1>1, <1>8 DEF Finalize, External, Forward, Refunded, Done, Cancelled
<1> QED BY <1>2, <1>3, <1>4, <1>5, <1>6, <1>7, <1>8 DEF Writes

\* The webhook takes nothing back.
LEMMA AroundForward ==
    ASSUME TypeOK, NEW i \in Items, Around(i)
    PROVE  Forward
<1>1. /\ item \in [Items -> ItemStatus] /\ attempt \in [Items -> Attempts]
      /\ \A j \in Items : attempt[j] \in Attempts
  BY DEF TypeOK
<1>2. CASE RefundWebhook(i)
  <2>1. UNCHANGED shop
    BY <1>2 DEF RefundWebhook, External
  <2>2. \A j \in Items : attempt[j].status # "none" =>
            attempt'[j].status # "none" /\ attempt'[j].ship = attempt[j].ship
    BY <1>1, <1>2 DEF RefundWebhook, Resolve, Attempts
  <2>3. \A j \in Items :
            \/ item'[j] = item[j]
            \/ item[j] = "APPROVED_FOR_REFUND" /\ item'[j] = "REFUNDED_AWAITING_ORDER_CANCEL"
    BY <1>1, <1>2 DEF RefundWebhook, Resolve
  <2> QED BY <2>1, <2>2, <2>3 DEF Forward, Refunded, Done, Cancelled
<1>3. CASE Spoil(i) \/ Expire(i)
  BY <1>3, StillForward DEF Spoil, Expire, External
<1> QED BY <1>2, <1>3 DEF Around

\* Nothing is taken back at Shopify: a line is refunded once, an order cancelled once.
LEMMA ShopifyForward == ASSUME TypeOK, Shopify PROVE Forward
<1>1. shop \in Orders /\ asked \subseteq Requests
  BY DEF TypeOK
<1>2. UNCHANGED <<item, attempt>>
  BY DEF Shopify, Process, CancelEnds, AdminRefund, AdminCancel, Rows
<1> DEFINE Kept == /\ \A i \in Items : shop.refund[i] # "none" =>
                                          shop'.refund[i] = shop.refund[i]
                   /\ shop.shipping => shop'.shipping
                   /\ Cancelled => Cancelled'
<1>3. Kept
  <2>1. ASSUME NEW r \in asked, Process(r) PROVE Kept
    <3>1. r.item \in Items
      BY <1>1 DEF Requests
    <3>2. CASE UNCHANGED shop
      BY <3>2 DEF Cancelled
    <3>3. CASE ~UNCHANGED shop
      <4>1. /\ ~Refunded(r.item)
            /\ shop' = [shop EXCEPT !.refund[r.item] = "saga", !.shipping = @ \/ r.ship]
        BY <2>1, <3>3 DEF Process
      <4> QED BY <1>1, <3>1, <4>1 DEF Refunded, Orders, Cancelled
    <3> QED BY <3>2, <3>3
  <2>2. CASE CancelEnds
    BY <1>1, <2>2 DEF CancelEnds, Orders, Cancelled
  <2>3. ASSUME NEW i \in Items, AdminRefund(i) PROVE Kept
    BY <1>1, <2>3 DEF AdminRefund, Refunded, Orders, Cancelled
  <2>4. CASE AdminCancel
    BY <1>1, <2>4 DEF AdminCancel, Orders, Cancelled
  <2> QED BY <2>1, <2>2, <2>3, <2>4 DEF Shopify
<1> QED BY <1>2, <1>3 DEF Forward, Refunded, Done

\* No step takes anything back.
LEMMA NextForward == ASSUME TypeOK, Next PROVE Forward
BY Groups, ReadsQuiet, RunsQuiet, StillForward, WritesForward, AroundForward, ShopifyForward
   DEF Rows, External

-----------------------------------------------------------------------------
(* Attempts and requests *)

\* Neither is changed by a step that leaves the rows, the requests and the order alone.
LEMMA StillAsked ==
    ASSUME AttemptInv, AskInv, UNCHANGED <<item, attempt, asked, shop>>
    PROVE  AttemptInv' /\ AskInv'
BY DEF AttemptInv, AskInv

\* What a worker writes about an attempt follows from the one request it made.
LEMMA WritesAsked ==
    ASSUME TypeOK, AttemptInv, AskInv, WorkInv, NEW w \in Workers, Writes(w)
    PROVE  AttemptInv' /\ AskInv'
<1>1. /\ work[w] \in Works /\ It(w) \in Items
      /\ item \in [Items -> ItemStatus] /\ attempt \in [Items -> Attempts]
      /\ \A i \in Items : attempt[i] \in Attempts
      /\ asked \subseteq Requests
      /\ \A r \in asked : r.item \in Items
  BY DEF TypeOK, It, Works, Requests
<1>2. CASE ReconcileCommit(w)
  <2>1. UNCHANGED <<asked, shop>>
    BY <1>2 DEF ReconcileCommit, External
  <2>2. AttemptInv'
    BY <1>1, <1>2, <2>1 DEF ReconcileCommit, Resolve, AttemptInv, Attempts
  <2>3. \A i \in Items : attempt[i].status # "none" => attempt'[i].status # "none"
    BY <1>1, <1>2 DEF ReconcileCommit, Resolve, Attempts
  <2> QED BY <1>1, <2>1, <2>2, <2>3 DEF AskInv
<1>3. CASE Approve(w)
  <2>1. UNCHANGED <<asked, shop>>
    BY <1>3 DEF Approve, External
  <2>2. CASE UNCHANGED <<item, attempt>>
    BY <2>1, <2>2, StillAsked
  <2>3. CASE ~UNCHANGED <<item, attempt>>
    <3>1. /\ item' = [item EXCEPT ![It(w)] = "APPROVED_FOR_REFUND"]
          /\ attempt' = [attempt EXCEPT ![It(w)] = Upsert(It(w), w)]
      BY <1>3, <2>3 DEF Approve
    <3>2. AttemptInv'
      BY <1>1, <2>1, <3>1 DEF AttemptInv, Upsert
    <3>3. \A i \in Items : attempt[i].status # "none" => attempt'[i].status # "none"
      BY <1>1, <3>1 DEF Upsert
    <3> QED BY <1>1, <2>1, <3>2, <3>3 DEF AskInv
  <2> QED BY <2>2, <2>3
<1>4. CASE Submit(w)
  <2>1. UNCHANGED <<item, attempt, shop>>
    BY <1>4 DEF Submit, Rows
  <2>2. CASE UNCHANGED asked
    BY <2>1, <2>2, StillAsked
  <2>3. CASE ~UNCHANGED asked
    <3> DEFINE new == [item |-> It(w), key |-> attempt[It(w)].key,
                       ship |-> RefundableShipping, answer |-> "none"]
    <3>1. /\ {r \in asked : r.item = It(w) /\ r.key = attempt[It(w)].key} = {}
          /\ asked' = asked \union {new}
          /\ attempt[It(w)].status # "none" /\ attempt[It(w)].key = 1
      BY <1>1, <1>4, <2>3 DEF Submit, WorkInv, WorkOK, At, AttemptInv
    <3>2. \A r \in asked : r.item # It(w)
      BY <3>1 DEF AskInv
    <3>3. AttemptInv'
      BY <2>1, <3>1 DEF AttemptInv
    <3>4. AskInv'
      BY <1>1, <2>1, <3>1, <3>2 DEF AskInv
    <3> QED BY <3>3, <3>4
  <2> QED BY <2>2, <2>3
<1>5. CASE Answer(w)
  <2>1. UNCHANGED <<item, asked, shop>> /\ attempt[It(w)].status # "none"
    BY <1>1, <1>5 DEF Answer, External, WorkInv, WorkOK, At
  <2>2. \A i \in Items : attempt[i].status # "none" => attempt'[i].status # "none"
    BY <1>1, <1>5 DEF Answer, Attempts
  <2>3. AttemptInv'
    BY <1>1, <1>5, <2>1 DEF Answer, AttemptInv, AskInv, Requests, Attempts
  <2> QED BY <1>1, <2>1, <2>2, <2>3 DEF AskInv
<1>6. CASE CancelOrder(w)
  <2>1. UNCHANGED <<item, attempt, asked>> /\ shop'.refund = shop.refund
    BY <1>6 DEF CancelOrder, Rows, TypeOK, Orders
  <2> QED BY <2>1 DEF AttemptInv, AskInv
<1>7. CASE Persist(w) \/ Poll(w)
  <2>1. UNCHANGED <<item, asked, shop>>
    BY <1>7 DEF Persist, Poll, External
  <2>2. \A i \in Items : /\ attempt'[i].status = attempt[i].status
                         /\ attempt'[i].key = attempt[i].key
    BY <1>1, <1>7 DEF Persist, Poll, Attempts
  <2> QED BY <1>1, <2>1, <2>2 DEF AttemptInv, AskInv
<1>8. CASE Finalize(w)
  <2>1. UNCHANGED <<attempt, asked, shop>>
    BY <1>8 DEF Finalize, External
  <2>2. \A i \in Items : item'[i] # "PENDING" => item[i] # "PENDING"
    BY <1>1, <1>8 DEF Finalize
  <2> QED BY <2>1, <2>2 DEF AttemptInv, AskInv
<1> QED BY <1>2, <1>3, <1>4, <1>5, <1>6, <1>7, <1>8 DEF Writes

\* The webhook resolves an attempt, and makes no request.
LEMMA AroundAsked ==
    ASSUME TypeOK, AttemptInv, AskInv, NEW i \in Items, Around(i)
    PROVE  AttemptInv' /\ AskInv'
<1>1. /\ item \in [Items -> ItemStatus] /\ attempt \in [Items -> Attempts]
      /\ \A j \in Items : attempt[j] \in Attempts
      /\ \A r \in asked : r.item \in Items
  BY DEF TypeOK, Requests
<1>2. CASE RefundWebhook(i)
  <2>1. UNCHANGED <<asked, shop>>
    BY <1>2 DEF RefundWebhook, External
  <2>2. AttemptInv'
    BY <1>1, <1>2, <2>1 DEF RefundWebhook, Resolve, AttemptInv, Attempts
  <2>3. \A j \in Items : attempt[j].status # "none" => attempt'[j].status # "none"
    BY <1>1, <1>2 DEF RefundWebhook, Resolve, Attempts
  <2> QED BY <1>1, <2>1, <2>2, <2>3 DEF AskInv
<1>3. CASE Spoil(i) \/ Expire(i)
  BY <1>3, StillAsked DEF Spoil, Expire, External
<1> QED BY <1>2, <1>3 DEF Around

\* Shopify answers a request once, and what it answers is so.
LEMMA ShopifyAsked ==
    ASSUME TypeOK, AttemptInv, AskInv, Shopify
    PROVE  AttemptInv' /\ AskInv'
<1>1. shop \in Orders /\ asked \subseteq Requests /\ \A r \in asked : r.item \in Items
  BY DEF TypeOK, Requests
<1>2. UNCHANGED <<item, attempt>>
  BY DEF Shopify, Process, CancelEnds, AdminRefund, AdminCancel, Rows
<1>3. ASSUME NEW r \in asked, Process(r) PROVE AttemptInv' /\ AskInv'
  <2>1. PICK answer \in {"refunded", "rejected"} :
            /\ answer = "refunded" => ~Refunded(r.item)
            /\ asked' = (asked \ {r}) \union {[r EXCEPT !.answer = answer]}
            /\ shop' = IF answer = "refunded"
                       THEN [shop EXCEPT !.refund[r.item] = "saga", !.shipping = @ \/ r.ship]
                       ELSE shop
    BY <1>3 DEF Process
  <2> DEFINE s == [r EXCEPT !.answer = answer]
  <2>2. s.item = r.item /\ s.key = r.key /\ s.answer = answer /\ r.answer = "none"
    BY <1>1, <1>3 DEF Requests, Process
  <2> HIDE DEF s
  <2>3. asked' = (asked \ {r}) \union {s}
    BY <2>1 DEF s
  <2>4. AttemptInv'
    BY <1>2, <2>2, <2>3 DEF AttemptInv
  <2>5. \A i \in Items : shop'.refund[i] =
            IF answer = "refunded" /\ i = r.item THEN "saga" ELSE shop.refund[i]
    BY <1>1, <2>1 DEF Orders
  <2>6. AskInv'
    BY <1>1, <1>2, <2>1, <2>2, <2>3, <2>5 DEF AskInv
  <2> QED BY <2>4, <2>6
<1>4. CASE CancelEnds
  BY <1>1, <1>2, <1>4 DEF CancelEnds, Orders, AttemptInv, AskInv
<1>5. ASSUME NEW i \in Items, AdminRefund(i) PROVE AttemptInv' /\ AskInv'
  <2>1. asked' = asked /\ \A j \in Items : shop'.refund[j] =
            IF j = i THEN "admin" ELSE shop.refund[j]
    BY <1>1, <1>5 DEF AdminRefund, Orders
  <2>2. shop.refund[i] = "none"
    BY <1>5 DEF AdminRefund, Refunded
  <2> QED BY <1>1, <1>2, <2>1, <2>2 DEF AttemptInv, AskInv
<1>6. CASE AdminCancel
  BY <1>1, <1>2, <1>6 DEF AdminCancel, Orders, AttemptInv, AskInv
<1> QED BY <1>3, <1>4, <1>5, <1>6 DEF Shopify

\* Every step keeps what is known of attempts and requests.
LEMMA NextAsked ==
    ASSUME TypeOK, AttemptInv, AskInv, WorkInv, Next
    PROVE  AttemptInv' /\ AskInv'
BY Groups, ReadsQuiet, RunsQuiet, StillAsked, WritesAsked, AroundAsked, ShopifyAsked
   DEF Rows, External

-----------------------------------------------------------------------------
(* What the workers rely on *)

\* A worker that does not move keeps what it relies on, whatever the others do.
LEMMA WaitingWork ==
    ASSUME TypeOK, AttemptInv, Forward, NEW v \in Workers, WorkOK(v), work'[v] = work[v]
    PROVE  WorkOK(v)'
<1>1. It(v) \in Items /\ It(v)' = It(v)
  BY DEF TypeOK, It, Works
<1>2. Returned(It(v)) /\ item[It(v)] # "PENDING" => Returned(It(v))'
  BY <1>1 DEF AttemptInv, Forward, Returned
<1> QED BY <1>1, <1>2 DEF WorkOK, Forward, At, Done, Cancelled

\* A worker that is idle relies on nothing.
LEMMA IdleWork ==
    ASSUME NEW w \in Workers, work'[w].pc \in {"idle", "reconcile", "classify", "canonical",
                                               "approve", "verify", "finish"},
           work'[w].outcome # "COMPLETED"
    PROVE  WorkOK(w)'
BY DEF WorkOK, At

\* A step that reads sees what it relies on.
LEMMA ReadsWork ==
    ASSUME TypeOK, AttemptInv, NEW w \in Workers, WorkOK(w), Reads(w)
    PROVE  WorkOK(w)'
<1> DEFINE i == It(w)
<1>1. /\ work \in [Workers -> Works] /\ work[w] \in Works /\ i \in Items
      /\ item \in [Items -> ItemStatus]
  BY DEF TypeOK, It, Works
<1>2. UNCHANGED <<item, attempt, shop>>
  BY ReadsQuiet DEF Rows, External
<1> USE DEF WorkOK, At, Goto, Outcome, It
<1>3. CASE Reconcile(w)
  <2>1. CASE Goto(w, "cancelRead") /\ item[i] = "REFUNDED_AWAITING_ORDER_CANCEL"
    BY <1>1, <1>2, <2>1 DEF Works, Done
  <2>2. CASE Goto(w, "commit") /\ Verified(i) /\ item[i] = "APPROVED_FOR_REFUND"
    BY <1>1, <1>2, <2>2 DEF Works, Verified, Returned, Refunded
  <2>3. CASE Goto(w, "classify") \/ Outcome(w, "RETRYABLE")
    BY <1>1, <1>2, <2>3 DEF Works
  <2> QED BY <1>3, <2>1, <2>2, <2>3 DEF Reconcile, ReconcileRead
<1>4. CASE Classify(w)
  BY <1>1, <1>2, <1>4 DEF Classify, ClassifyLocal, Works
<1>5. CASE Reclassify(w)
  BY <1>1, <1>2, <1>5 DEF Reclassify, ClassifyLocal, Works
<1>6. CASE ReadCanonical(w)
  BY <1>1, <1>2, <1>6 DEF ReadCanonical, CanonicalRefuses, Works
<1>7. CASE CancelRead(w)
  BY <1>1, <1>2, <1>7 DEF CancelRead, Works, Done, Cancelled, ItemStatus
<1>8. CASE Crash(w)
  BY <1>1, <1>8, IdleWork DEF Crash, Idle
<1> QED BY <1>3, <1>4, <1>5, <1>6, <1>7, <1>8 DEF Reads

\* A claim, a heartbeat and the end of an attempt rely on nothing new.
LEMMA RunsWork ==
    ASSUME TypeOK, NEW w \in Workers, WorkOK(w), Runs(w)
    PROVE  WorkOK(w)'
<1>1. work \in [Workers -> Works]
  BY DEF TypeOK
<1>2. UNCHANGED <<item, attempt, shop>>
  BY RunsQuiet DEF External
<1>3. ASSUME NEW i \in Items, Claim(w, i) PROVE WorkOK(w)'
  <2>1. work'[w].pc = "reconcile" /\ work'[w].outcome = "none"
    BY <1>1, <1>3 DEF Claim, Idle
  <2> QED BY <2>1, IdleWork
<1>4. CASE Heartbeat(w)
  BY <1>2, <1>4 DEF Heartbeat, WorkOK, At, It, Done, Cancelled, Returned, Refunded
<1>5. CASE Finish(w)
  BY <1>1, <1>5, IdleWork DEF Finish, Idle
<1> QED BY <1>3, <1>4, <1>5 DEF Runs

\* A worker that writes may rely on what it wrote.
LEMMA WritesWork ==
    ASSUME TypeOK, AttemptInv, Forward, NEW w \in Workers, WorkOK(w), Writes(w)
    PROVE  WorkOK(w)'
<1> DEFINE i == It(w)
<1>1. /\ work \in [Workers -> Works] /\ work[w] \in Works /\ i \in Items
      /\ item \in [Items -> ItemStatus]
      /\ attempt \in [Items -> Attempts] /\ attempt[i] \in Attempts
  BY DEF TypeOK, It, Works
<1>2. CASE ReconcileCommit(w)
  <2>1. work'[w] = [work[w] EXCEPT !.pc = "cancelRead"]
    BY <1>1, <1>2 DEF ReconcileCommit, Goto
  <2>2. item[i] # "PENDING" /\ work[w].pc = "commit"
    BY <1>2 DEF ReconcileCommit, WorkOK, At
  <2>3. item'[i] \in {"REFUNDED_AWAITING_ORDER_CANCEL", "APPROVED"}
    BY <1>1, <1>2, <2>1, <2>2 DEF ReconcileCommit, Resolve, Done, It, Works, ItemStatus
  <2> QED BY <1>1, <2>1, <2>3 DEF WorkOK, At, It, Works, Forward, Done
<1>3. CASE Approve(w)
  <2>1. CASE work' = [work EXCEPT ![w].pc = "reclassify", ![w].ship = FALSE]
    <3>1. attempt'[i].status # "none"
      BY <1>1, <1>3, <2>1 DEF Approve, Outcome, Upsert, At, Works
    <3> QED BY <1>1, <2>1, <3>1 DEF WorkOK, At, It, Works, Forward, Done
  <2>2. CASE Outcome(w, "RETRYABLE")
    BY <1>1, <2>2, IdleWork DEF Outcome, Works
  <2> QED BY <1>3, <2>1, <2>2 DEF Approve
<1>4. CASE Submit(w)
  <2>1. UNCHANGED <<item, attempt, shop>> /\ attempt[i].status # "none"
    BY <1>4 DEF Submit, Rows, WorkOK, At
  <2> QED BY <1>1, <1>4, <2>1
          DEF Submit, CanonicalRefuses, Goto, Outcome, WorkOK, At, It, Works
<1>5. CASE Answer(w)
  <2>1. \/ work'[w] = [work[w] EXCEPT !.pc = "verify"]
        \/ \E o \in {"RETRYABLE", "TERMINAL_EXCEPTION"} :
              work'[w] = [work[w] EXCEPT !.pc = "finish", !.outcome = o]
    BY <1>1, <1>5 DEF Answer, Goto, Outcome
  <2>2. item'[i] = item[i] /\ work[w].pc = "await"
    BY <1>5 DEF Answer, At
  <2> QED BY <1>1, <2>1, <2>2 DEF WorkOK, At, It, Works
<1>6. CASE CancelOrder(w)
  <2>1. item'[i] \in {"REFUNDED_AWAITING_ORDER_CANCEL", "APPROVED"}
    BY <1>6 DEF CancelOrder, Rows, WorkOK, At, Done
  <2>2. \/ work'[w] = [work[w] EXCEPT !.pc = "persist"]
        \/ work'[w] = [work[w] EXCEPT !.pc = "persist", !.outcome = "TERMINAL_EXCEPTION"]
        \/ work'[w] = [work[w] EXCEPT !.pc = "finish", !.outcome = "RETRYABLE"]
    BY <1>1, <1>6 DEF CancelOrder, Goto, Outcome
  <2>3. item' = item
    BY <1>6 DEF CancelOrder, Rows
  <2> QED BY <1>1, <2>1, <2>2, <2>3 DEF WorkOK, At, It, Works, Done
<1>7. CASE Persist(w)
  <2>1. item'[i] \in {"REFUNDED_AWAITING_ORDER_CANCEL", "APPROVED"}
    BY <1>7 DEF Persist, WorkOK, At, Done
  <2> QED BY <1>1, <1>7, <2>1 DEF Persist, Goto, WorkOK, At, It, Works, Forward
<1>8. CASE Finalize(w)
  <2>1. work'[w] = [work[w] EXCEPT !.pc = "finish", !.outcome = "COMPLETED"]
    BY <1>1, <1>8 DEF Finalize, Outcome
  <2>2. item'[i] = "APPROVED"
    BY <1>1, <1>8 DEF Finalize, WorkOK, At, Done
  <2> QED BY <1>1, <2>1, <2>2 DEF WorkOK, At, It, Works
<1>9. CASE Poll(w)
  <2>1. /\ UNCHANGED <<item, shop>>
        /\ item[i] \in {"REFUNDED_AWAITING_ORDER_CANCEL", "APPROVED"}
    BY <1>9 DEF Poll, External, WorkOK, At, Done
  <2>2. \/ work'[w] = [work[w] EXCEPT !.pc = "finalize"] /\ Cancelled
        \/ \E o \in {"RETRYABLE", "TERMINAL_EXCEPTION"} :
              work'[w] = [work[w] EXCEPT !.pc = "finish", !.outcome = o]
    BY <1>1, <1>9 DEF Poll, Goto, Outcome
  <2> QED BY <1>1, <2>1, <2>2 DEF WorkOK, At, It, Works, Done, Cancelled
<1> QED BY <1>2, <1>3, <1>4, <1>5, <1>6, <1>7, <1>8, <1>9 DEF Writes

\* A step of one worker moves that worker only.
LEMMA OthersWait ==
    ASSUME TypeOK, NEW w \in Workers, Reads(w) \/ Runs(w) \/ Writes(w),
           NEW v \in Workers, v # w
    PROVE  work'[v] = work[v]
<1>1. work \in [Workers -> Works]
  BY DEF TypeOK
<1>2. ASSUME NEW pc, Goto(w, pc) PROVE work'[v] = work[v]
  BY <1>1, <1>2 DEF Goto
<1>3. ASSUME NEW o, Outcome(w, o) PROVE work'[v] = work[v]
  BY <1>1, <1>3 DEF Outcome
<1>4. CASE Reads(w)
  BY <1>1, <1>2, <1>3, <1>4
     DEF Reads, Reconcile, ReconcileRead, Classify, Reclassify, ClassifyLocal, ReadCanonical,
         CanonicalRefuses, CancelRead, Crash
<1>5. CASE Runs(w)
  BY <1>1, <1>5 DEF Runs, Claim, Heartbeat, Finish
<1>6. CASE Writes(w)
  BY <1>1, <1>2, <1>3, <1>6
     DEF Writes, ReconcileCommit, Approve, Submit, CanonicalRefuses, Answer, CancelOrder,
         Persist, Poll, Finalize
<1> QED BY <1>4, <1>5, <1>6

\* Every step keeps what the workers rely on.
LEMMA NextWork ==
    ASSUME TypeOK, AttemptInv, WorkInv, Next
    PROVE  WorkInv'
<1>1. Forward
  BY NextForward
<1>2. ASSUME NEW w \in Workers, Reads(w) \/ Runs(w) \/ Writes(w), NEW v \in Workers
      PROVE  WorkOK(v)'
  <2>1. CASE v = w
    BY <1>1, <1>2, <2>1, ReadsWork, RunsWork, WritesWork DEF WorkInv
  <2>2. CASE v # w
    BY <1>1, <1>2, <2>2, OthersWait, WaitingWork DEF WorkInv
  <2> QED BY <2>1, <2>2
<1>3. ASSUME Shopify \/ \E i \in Items : Around(i), NEW v \in Workers
      PROVE  WorkOK(v)'
  <2>1. work' = work
    BY <1>3 DEF Around, RefundWebhook, Spoil, Expire, Shopify, Process, CancelEnds,
                AdminRefund, AdminCancel
  <2> QED BY <1>1, <2>1, WaitingWork DEF WorkInv
<1> QED BY <1>2, <1>3, Groups DEF WorkInv

-----------------------------------------------------------------------------
(* What the rows say *)

\* The part of RowsAreTrue about one child.
RowTrue(i) ==
    /\ Done(i) => Returned(i)
    /\ item[i] = "APPROVED" => Cancelled
    /\ item[i] = "APPROVED" <=> job[i].status = "COMPLETED"
    /\ attempt[i].status = "SHOPIFY_ACTION_PENDING" => shop.refund[i] = "saga"
    /\ attempt[i].status = "RESOLVED" => Refunded(i)
    /\ attempt[i].status = "FAILED" => shop.refund[i] # "saga"

\* RowsAreTrue says it of every child.
LEMMA RowsSplit == RowsAreTrue <=> \A i \in Items : RowTrue(i)
BY DEF RowsAreTrue, RowTrue, Done

\* A child whose rows do not change stays true: the refund an attempt FAILED
\* without will not be made later.
LEMMA StillTrue ==
    ASSUME AttemptInv, AttemptInv', AskInv', Forward, NEW i \in Items, RowTrue(i),
           item'[i] = item[i],
           attempt'[i].status = attempt[i].status,
           job'[i].status = "COMPLETED" <=> job[i].status = "COMPLETED"
    PROVE  RowTrue(i)'
<1>1. attempt'[i].status = "FAILED" => shop'.refund[i] # "saga"
  <2>1. SUFFICES ASSUME attempt'[i].status = "FAILED", shop'.refund[i] = "saga"
                 PROVE  FALSE
    OBVIOUS
  <2>2. PICK r \in asked' : r.item = i /\ r.answer = "rejected"
    BY <2>1 DEF AttemptInv
  <2>3. PICK s \in asked' : s.item = i /\ s.answer = "refunded"
    BY <2>1 DEF AskInv
  <2> QED BY <2>2, <2>3 DEF AskInv
<1>2. Done(i) => Returned(i)'
  <2>1. SUFFICES ASSUME Done(i) PROVE Returned(i)'
    OBVIOUS
  <2>2. attempt[i].status # "none" /\ Returned(i)
    BY <2>1 DEF AttemptInv, Done, RowTrue
  <2> QED BY <2>2 DEF Forward, Returned
<1> QED BY <1>1, <1>2 DEF RowTrue, Forward, Done, Refunded

\* A claim, a heartbeat and the end of an attempt complete no job: an attempt
\* ends as COMPLETED only when the job already is.
LEMMA RunsTrue ==
    ASSUME TypeOK, AttemptInv, WorkInv, RowsAreTrue, NEW w \in Workers, Runs(w),
           AttemptInv', AskInv', Forward, NEW i \in Items
    PROVE  RowTrue(i)'
<1>1. /\ work \in [Workers -> Works] /\ work[w] \in Works /\ It(w) \in Items
      /\ job \in [Items -> Jobs] /\ \A j \in Items : job[j] \in Jobs
  BY DEF TypeOK, It, Works
<1>2. UNCHANGED <<item, attempt>> /\ RowTrue(i)
  BY RunsQuiet, RowsSplit
<1>3. job'[i].status = "COMPLETED" <=> job[i].status = "COMPLETED"
  <2>1. ASSUME NEW j \in Items, Claim(w, j)
        PROVE  job'[i].status = "COMPLETED" <=> job[i].status = "COMPLETED"
    BY <1>1, <2>1 DEF Claim
  <2>2. CASE Heartbeat(w)
    BY <1>1, <2>2 DEF Heartbeat, Jobs
  <2>3. CASE Finish(w)
    <3>1. CASE Owns(w)
      <4>1. item[It(w)] # "APPROVED" /\ job[It(w)].status = "PROCESSING"
        BY <1>1, <3>1 DEF Owns, RowsAreTrue
      <4>2. work[w].outcome # "COMPLETED"
        BY <4>1 DEF WorkInv, WorkOK
      <4>3. PICK s \in {"FAILED", "RETRY_SCHEDULED"} :
                job' = [job EXCEPT ![It(w)].lease = FALSE, ![It(w)].status = s]
        BY <2>3, <3>1, <4>2 DEF Finish
      <4> QED BY <1>1, <4>1, <4>3 DEF Jobs
    <3>2. CASE ~Owns(w)
      BY <2>3, <3>2 DEF Finish
    <3> QED BY <3>1, <3>2
  <2> QED BY <2>1, <2>2, <2>3 DEF Runs
<1> QED BY <1>2, <1>3, StillTrue

\* What a worker writes, however late, is so.
LEMMA WritesTrue ==
    ASSUME TypeOK, AttemptInv, AskInv, WorkInv, RowsAreTrue, NEW w \in Workers, Writes(w),
           AttemptInv', AskInv', Forward, NEW i \in Items
    PROVE  RowTrue(i)'
<1>1. /\ work[w] \in Works /\ It(w) \in Items
      /\ item \in [Items -> ItemStatus]
      /\ attempt \in [Items -> Attempts] /\ \A j \in Items : attempt[j] \in Attempts
      /\ job \in [Items -> Jobs] /\ \A j \in Items : job[j] \in Jobs
  BY DEF TypeOK, It, Works
<1>2. RowTrue(i)
  BY RowsSplit
<1>3. CASE i # It(w)
  <2>1. /\ item'[i] = item[i] /\ job'[i] = job[i]
        /\ attempt'[i] = attempt[i]
    BY <1>1, <1>3 DEF Writes, ReconcileCommit, Resolve, Approve, Submit, Rows, Answer,
                      CancelOrder, Persist, Poll, Finalize
  <2> QED BY <1>2, <2>1, StillTrue
<1>4. CASE i = It(w)
  <2>1. CASE ReconcileCommit(w)
    <3>1. CASE item[i] = "APPROVED_FOR_REFUND"
      <4>1. Returned(i) /\ UNCHANGED <<job, shop>>
        BY <1>4, <2>1 DEF ReconcileCommit, External, WorkInv, WorkOK
      <4>2. /\ item'[i] = "REFUNDED_AWAITING_ORDER_CANCEL"
            /\ attempt'[i] = [attempt[i] EXCEPT !.status = "RESOLVED"]
        BY <1>1, <1>4, <2>1, <3>1 DEF ReconcileCommit, Resolve
      <4> QED BY <1>1, <1>2, <3>1, <4>1, <4>2 DEF RowTrue, Returned, Refunded, Done, Attempts
    <3>2. CASE item[i] # "APPROVED_FOR_REFUND"
      BY <1>2, <1>4, <2>1, <3>2, StillTrue DEF ReconcileCommit, Resolve
    <3> QED BY <3>1, <3>2
  <2>2. CASE Approve(w)
    <3>1. UNCHANGED <<job, shop>>
      BY <2>2 DEF Approve, External
    <3>2. CASE UNCHANGED <<item, attempt>>
      BY <1>2, <3>1, <3>2, StillTrue
    <3>3. CASE ~UNCHANGED <<item, attempt>>
      <4>1. /\ item[i] \in Processable /\ item'[i] = "APPROVED_FOR_REFUND"
            /\ attempt'[i] = Upsert(i, w)
        BY <1>1, <1>4, <2>2, <3>3 DEF Approve
      <4> QED BY <1>2, <3>1, <4>1 DEF RowTrue, Upsert, Done, Processable, Refunded
    <3> QED BY <3>2, <3>3
  <2>3. CASE Submit(w)
    BY <1>2, <2>3, StillTrue DEF Submit, Rows
  <2>4. CASE Answer(w)
    <3>1. UNCHANGED <<item, job, asked, shop>> /\ attempt[i].status # "none"
      BY <1>4, <2>4 DEF Answer, External, WorkInv, WorkOK, At
    <3>2. CASE UNCHANGED attempt
      BY <1>2, <3>1, <3>2, StillTrue
    <3>3. CASE ~UNCHANGED attempt
      <4>1. PICK r \in asked :
                /\ r.item = i /\ r.answer # "none"
                /\ attempt' = [attempt EXCEPT ![i].cancelJob = FALSE,
                                              ![i].status = IF r.answer = "refunded"
                                                            THEN "SHOPIFY_ACTION_PENDING"
                                                            ELSE "FAILED"]
        BY <1>4, <2>4, <3>3 DEF Answer
      <4>2. IF r.answer = "refunded" THEN shop.refund[i] = "saga" ELSE shop.refund[i] # "saga"
        BY <4>1 DEF AskInv
      <4>3. /\ attempt'[i].ship = attempt[i].ship
            /\ attempt'[i].status = IF r.answer = "refunded" THEN "SHOPIFY_ACTION_PENDING"
                                    ELSE "FAILED"
        BY <1>1, <4>1 DEF Attempts
      <4> QED BY <1>2, <3>1, <4>2, <4>3 DEF RowTrue, Returned, Refunded, Done, Cancelled
    <3> QED BY <3>2, <3>3
  <2>5. CASE CancelOrder(w)
    BY <1>2, <2>5, StillTrue DEF CancelOrder, Rows
  <2>6. CASE Persist(w) \/ Poll(w)
    <3>1. UNCHANGED <<item, job>> /\ attempt'[i].status = attempt[i].status
      BY <1>1, <2>6 DEF Persist, Poll, Attempts
    <3> QED BY <1>2, <3>1, StillTrue
  <2>7. CASE Finalize(w)
    <3>1. UNCHANGED <<attempt, shop>> /\ Cancelled /\ Done(i)
      BY <1>4, <2>7 DEF Finalize, External, WorkInv, WorkOK, At
    <3>2. item'[i] = "APPROVED" /\ job'[i].status = "COMPLETED"
      BY <1>1, <1>2, <1>4, <2>7, <3>1 DEF Finalize, Done, RowTrue, Jobs
    <3> QED BY <1>2, <3>1, <3>2 DEF RowTrue, Returned, Refunded, Done, Cancelled
  <2> QED BY <2>1, <2>2, <2>3, <2>4, <2>5, <2>6, <2>7 DEF Writes
<1> QED BY <1>3, <1>4

\* The webhook resolves a child whose money was returned.
LEMMA AroundTrue ==
    ASSUME TypeOK, AttemptInv, RowsAreTrue, NEW j \in Items, Around(j),
           AttemptInv', AskInv', Forward, NEW i \in Items
    PROVE  RowTrue(i)'
<1>1. /\ item \in [Items -> ItemStatus]
      /\ attempt \in [Items -> Attempts] /\ \A k \in Items : attempt[k] \in Attempts
      /\ job \in [Items -> Jobs] /\ \A k \in Items : job[k] \in Jobs
  BY DEF TypeOK
<1>2. RowTrue(i)
  BY RowsSplit
<1>3. CASE RefundWebhook(j)
  <2>1. UNCHANGED <<job, shop>> /\ Refunded(j)
    BY <1>3 DEF RefundWebhook, External
  <2>2. \/ UNCHANGED <<item, attempt>>
        \/ /\ item' = item /\ attempt' = [attempt EXCEPT ![j].status = "RESOLVED"]
        \/ /\ ~attempt[j].ship /\ item[j] = "APPROVED_FOR_REFUND"
           /\ item' = [item EXCEPT ![j] = "REFUNDED_AWAITING_ORDER_CANCEL"]
           /\ attempt' = [attempt EXCEPT ![j].status = "RESOLVED"]
    BY <1>3 DEF RefundWebhook, Resolve
  <2>3. CASE i # j \/ UNCHANGED <<item, attempt>>
    BY <1>1, <1>2, <2>1, <2>2, <2>3, StillTrue
  <2>4. CASE i = j /\ ~UNCHANGED <<item, attempt>>
    <3>1. attempt'[i].status = "RESOLVED" /\ attempt'[i].ship = attempt[i].ship
      BY <1>1, <2>2, <2>4 DEF Attempts
    <3>2. \/ item'[i] = item[i]
          \/ /\ ~attempt[i].ship /\ item[i] = "APPROVED_FOR_REFUND"
             /\ item'[i] = "REFUNDED_AWAITING_ORDER_CANCEL"
      BY <1>1, <2>2, <2>4
    <3> QED BY <1>2, <2>1, <2>4, <3>1, <3>2 DEF RowTrue, Returned, Refunded, Done, Cancelled
  <2> QED BY <2>3, <2>4
<1>4. CASE Spoil(j)
  BY <1>2, <1>4, StillTrue DEF Spoil
<1>5. CASE Expire(j)
  BY <1>1, <1>2, <1>5, StillTrue DEF Expire, Jobs
<1> QED BY <1>3, <1>4, <1>5 DEF Around

\* Every step leaves rows that are true.
LEMMA NextTrue ==
    ASSUME TypeOK, AttemptInv, AskInv, WorkInv, RowsAreTrue, Next
    PROVE  RowsAreTrue'
<1>1. AttemptInv' /\ AskInv' /\ Forward
  BY NextAsked, NextForward
<1>2. SUFFICES ASSUME NEW i \in Items PROVE RowTrue(i)'
  BY RowsSplit DEF RowsAreTrue, RowTrue, Done
<1>3. RowTrue(i)
  BY RowsSplit
<1>4. ASSUME NEW w \in Workers, Reads(w) PROVE RowTrue(i)'
  BY <1>1, <1>3, <1>4, ReadsQuiet, StillTrue DEF Rows
<1>5. CASE Shopify
  <2>1. UNCHANGED <<item, attempt, job>>
    BY <1>5 DEF Shopify, Process, CancelEnds, AdminRefund, AdminCancel, Rows
  <2> QED BY <1>1, <1>3, <2>1, StillTrue
<1> QED BY <1>1, <1>4, <1>5, Groups, RunsTrue, WritesTrue, AroundTrue

-----------------------------------------------------------------------------
(* The theorems *)

\* Nothing has been approved, requested or refunded yet.
LEMMA InitSafe == Init => Safe
<1>1. SUFFICES ASSUME Init PROVE Safe
  OBVIOUS
<1>2. AttemptInv /\ AskInv
  BY <1>1 DEF Init, AttemptInv, AskInv
<1>3. WorkInv
  BY <1>1 DEF Init, Idle, WorkInv, WorkOK, At
<1>4. RowsAreTrue
  BY <1>1 DEF Init, RowsAreTrue
<1> QED BY <1>2, <1>3, <1>4 DEF Safe

\* IInv is inductive.
LEMMA Inductive == IInv /\ [Next]_vars => IInv'
<1>1. ASSUME IInv, Next PROVE IInv'
  BY <1>1, TypeNext, NextAsked, NextWork, NextTrue DEF IInv, Safe
<1>2. ASSUME IInv, UNCHANGED vars PROVE IInv'
  <2>1. TypeOK'
    BY <1>2, TypeNext DEF IInv
  <2>2. AttemptInv' /\ AskInv'
    BY <1>2, StillAsked DEF IInv, Safe, vars
  <2>3. WorkInv'
    BY <1>2 DEF IInv, Safe, vars, WorkInv, WorkOK, At, It, Done, Returned, Refunded, Cancelled
  <2>4. RowsAreTrue'
    BY <1>2 DEF IInv, Safe, vars, RowsAreTrue, Returned, Refunded, Cancelled
  <2> QED BY <2>1, <2>2, <2>3, <2>4 DEF IInv, Safe
<1> QED BY <1>1, <1>2

\* IInv holds of every reachable state.
LEMMA Invariance == Spec => []IInv
BY TypeInit, InitSafe, Inductive, PTL DEF Spec, IInv

\* What the child, the attempt and the job say of the refund and the cancellation
\* is so at Shopify, though replaced workers write late and without a condition.
THEOREM RowsTrue == Spec => []RowsAreTrue
<1>1. IInv => RowsAreTrue
  BY DEF IInv, Safe
<1> QED BY <1>1, Invariance, PTL

\* No worker asks for the cancellation of the order before the child it acts for
\* has its money returned.
THEOREM RefundFirst == Spec => []CancelFollowsRefund
<1>1. IInv => CancelFollowsRefund
  <2>1. SUFFICES ASSUME IInv, NEW w \in Workers, At(w, "cancel") PROVE Returned(It(w))
    BY DEF CancelFollowsRefund
  <2>2. It(w) \in Items /\ Done(It(w))
    BY <2>1 DEF IInv, Safe, TypeOK, Works, It, WorkInv, WorkOK, At
  <2> QED BY <2>1, <2>2 DEF IInv, Safe, RowsAreTrue, Done
<1> QED BY <1>1, Invariance, PTL

-----------------------------------------------------------------------------
(* When a child is given up *)

\* A child that could still be refunded.
Open(i) == item[i] = "PENDING" /\ local[i].clean /\ ~Refunded(i) /\ ~Cancelled

\* Where a worker is that has not approved its child.
Early == {"idle", "reconcile", "classify", "canonical", "approve", "finish"}

\* A worker reports a terminal exception only of a child that can no longer be
\* refunded, and the retries its job was claimed with are those it will judge by.
GiveUpOK(w) ==
    /\ Open(It(w)) => work[w].pc \in Early
    /\ At(w, "finish") /\ work[w].outcome = "TERMINAL_EXCEPTION" => ~Open(It(w))
    /\ ~At(w, "idle") /\ Owns(w) => work[w].attempt = job[It(w)].retry

FailedInv == \A i \in Items : job[i].status = "FAILED" => ~Open(i) \/ job[i].retry = MaxRetries

\* A refund is booked after it was made, and a cancellation of the order is on
\* its way only for a child that was refunded.
OrderInv ==
    /\ \A i \in Items : local[i].booked => Refunded(i)
    /\ shop.cancel \in {"running", "cancelled"} => \E i \in Items : Done(i)

GiveUpInv == (\A w \in Workers : GiveUpOK(w)) /\ FailedInv /\ OrderInv

\* Nobody has begun.
LEMMA GiveUpInit == Init => GiveUpInv
<1>1. SUFFICES ASSUME Init PROVE GiveUpInv
  OBVIOUS
<1>2. \A w \in Workers : work[w].pc = "idle"
  BY <1>1 DEF Init, Idle
<1>3. \A w \in Workers : GiveUpOK(w)
  BY <1>2 DEF GiveUpOK, At, Early
<1>4. FailedInv /\ OrderInv
  BY <1>1 DEF Init, FailedInv, OrderInv
<1> QED BY <1>3, <1>4 DEF GiveUpInv

\* A child that can no longer be refunded stays so.
LEMMA OpenBefore ==
    ASSUME TypeOK, Next, NEW i \in Items, Open(i)'
    PROVE  Open(i)
<1>1. Forward
  BY NextForward
<1>2. local'[i].clean => local[i].clean
  <2>0. local \in [Items -> Allocations] /\ \A j \in Items : local[j] \in Allocations
    BY DEF TypeOK
  <2>1. ASSUME NEW w \in Workers, Reads(w) \/ Runs(w) PROVE local' = local
    BY <2>1, ReadsQuiet, RunsQuiet DEF Rows
  <2>2. ASSUME NEW w \in Workers, Writes(w) PROVE local' = local
    BY <2>2 DEF Writes, ReconcileCommit, Approve, Submit, Answer, CancelOrder, Persist, Poll, Finalize, Rows
  <2>3. ASSUME NEW j \in Items, Around(j) PROVE local'[i].clean => local[i].clean
    BY <2>0, <2>3 DEF Around, RefundWebhook, Spoil, Expire, Allocations
  <2>4. ASSUME Shopify PROVE local' = local
    BY <2>4 DEF Shopify, Process, CancelEnds, AdminRefund, AdminCancel, Rows
  <2> QED BY <2>1, <2>2, <2>3, <2>4, Groups
<1> QED BY <1>1, <1>2 DEF Open, Forward, Refunded, Cancelled

\* A worker that a step leaves alone, or moves with the job it owns.
LEMMA LeftAlone ==
    ASSUME TypeOK, Next, NEW w \in Workers, GiveUpOK(w), work'[w] = work[w],
           Owns(w)' => Owns(w) /\ job'[It(w)].retry = job[It(w)].retry
    PROVE  GiveUpOK(w)'
<1>1. It(w) \in Items
  BY DEF TypeOK, It, Works
<1>2. It(w)' = It(w) /\ work'[w].pc = work[w].pc /\ work'[w].outcome = work[w].outcome
      /\ work'[w].attempt = work[w].attempt
  BY DEF It
<1>3. Open(It(w))' => Open(It(w))
  <2>1. Open(It(w))' <=> Open(work[w].item)'
    BY <1>2 DEF It, Open, Refunded, Cancelled
  <2> QED BY <1>1, <2>1, OpenBefore DEF It
<1>4. Owns(w)' => job'[It(w)'].retry = job[It(w)].retry
  BY <1>2
<1> QED BY <1>2, <1>3, <1>4 DEF GiveUpOK, At

\* A worker that goes on with its child: it is judged by where it arrives.
LEMMA GoesOn ==
    ASSUME TypeOK, Next, NEW w \in Workers, GiveUpOK(w), ~At(w, "idle"),
           work'[w].item = It(w), work'[w].attempt = work[w].attempt,
           Owns(w)' => Owns(w) /\ job'[It(w)].retry = job[It(w)].retry,
           \/ ~Open(It(w))
           \/ item'[It(w)] # "PENDING"
           \/ work'[w].pc \in Early \ {"finish"}
           \/ work'[w].pc = "finish" /\ work'[w].outcome # "TERMINAL_EXCEPTION"
    PROVE  GiveUpOK(w)'
<1>1. It(w) \in Items /\ It(w)' = It(w)
  BY DEF TypeOK, It, Works
<1>2. Open(It(w))' => Open(It(w)) /\ item'[It(w)] = "PENDING"
  <2>1. Open(It(w))' <=> Open(work[w].item)'
    BY <1>1 DEF It, Open, Refunded, Cancelled
  <2> QED BY <1>1, <2>1, OpenBefore DEF It, Open
<1>3. Owns(w)' => work'[w].attempt = job'[It(w)'].retry
  BY <1>1 DEF GiveUpOK
<1> QED BY <1>2, <1>3 DEF GiveUpOK, At, Early

\* Steps that read: the classification and the reading of Shopify end with a
\* terminal exception only for what cannot change back.
LEMMA ReadsGiveUp ==
    ASSUME TypeOK, Safe, GiveUpInv, NEW w \in Workers, Reads(w), Next
    PROVE  GiveUpInv'
<1>1. /\ UNCHANGED <<Rows, External>> /\ work \in [Workers -> Works] /\ It(w) \in Items
      /\ \A v \in Workers : GiveUpOK(v)
  BY ReadsQuiet DEF TypeOK, It, Works, GiveUpInv
<1>2. FailedInv' /\ OrderInv'
  BY <1>1 DEF GiveUpInv, FailedInv, OrderInv, Open, Refunded, Cancelled, Done, Rows, External
<1>3. \A v \in Workers : v # w => work'[v] = work[v]
  BY <1>1 DEF Reads, Reconcile, ReconcileRead, Classify, Reclassify, ClassifyLocal, ReadCanonical,
              CanonicalRefuses, CancelRead, Crash, Goto, Outcome
<1>4. ASSUME NEW v \in Workers, v # w PROVE GiveUpOK(v)'
  BY <1>1, <1>3, <1>4, LeftAlone DEF Rows, Owns, It
<1>5. GiveUpOK(w)'
  <2>1. CASE Crash(w)
    <3>1. work'[w].pc = "idle"
      BY <1>1, <2>1 DEF Crash, Idle
    <3> QED BY <3>1 DEF GiveUpOK, At, Early
  <2>2. CASE ~Crash(w)
    <3>1. /\ ~At(w, "idle") /\ work'[w].item = It(w) /\ work'[w].attempt = work[w].attempt
      BY <1>1, <2>2 DEF Reads, Reconcile, ReconcileRead, Classify, Reclassify, ClassifyLocal, ReadCanonical,
              CanonicalRefuses, CancelRead, Goto, Outcome, At, It, Works
    <3>2. Owns(w)' => Owns(w) /\ job'[It(w)].retry = job[It(w)].retry
      BY <1>1, <3>1 DEF Owns, It, Rows
    <3> DEFINE Good == \/ ~Open(It(w))
                       \/ work'[w].pc \in Early \ {"finish"}
                       \/ work'[w].pc = "finish" /\ work'[w].outcome # "TERMINAL_EXCEPTION"
    <3>3. work[w].pc \notin Early => ~Open(It(w))
      BY <1>1 DEF GiveUpOK
    <3>4. ASSUME Reconcile(w) PROVE Good
      <4>1. \/ Goto(w, "classify")
            \/ Outcome(w, "RETRYABLE")
            \/ item[It(w)] # "PENDING"
        BY <3>4 DEF Reconcile, ReconcileRead
      <4>2. ASSUME \/ Goto(w, "classify")
                   \/ Outcome(w, "RETRYABLE")
            PROVE  Good
        BY <1>1, <4>2 DEF Goto, Outcome, Early, Works
      <4> QED BY <4>1, <4>2 DEF Open
    <3>5. ASSUME Classify(w) PROVE Good
      <4>1. \/ /\ item[It(w)] \notin Processable \/ ~local[It(w)].clean \/ local[It(w)].booked
               /\ Outcome(w, "TERMINAL_EXCEPTION")
            \/ Outcome(w, "RETRYABLE")
            \/ Goto(w, "canonical")
        BY <3>5 DEF Classify, ClassifyLocal
      <4>2. local[It(w)].booked => Refunded(It(w))
        BY <1>1 DEF GiveUpInv, OrderInv
      <4> QED BY <1>1, <4>1, <4>2 DEF Goto, Outcome, Open, Early, Processable, Works
    <3>6. ASSUME ReadCanonical(w) PROVE Good
      <4>1. \/ Outcome(w, "RETRYABLE")
            \/ ~Refundable(It(w))
            \/ work' = [work EXCEPT ![w].pc = "approve", ![w].ship = RefundableShipping]
        BY <3>6 DEF ReadCanonical, CanonicalRefuses
      <4> QED BY <1>1, <4>1 DEF Outcome, Open, Early, Refundable, Works
    <3>7. ASSUME Reclassify(w) \/ CancelRead(w) PROVE Good
      <4>1. work[w].pc \in {"reclassify", "cancelRead"}
        BY <3>7 DEF Reclassify, ClassifyLocal, CancelRead, At
      <4> QED BY <3>3, <4>1 DEF Early
    <3>8. Good
      BY <2>2, <3>4, <3>5, <3>6, <3>7 DEF Reads
    <3> QED BY <1>1, <3>1, <3>2, <3>8, GoesOn
  <2> QED BY <2>1, <2>2
<1> QED BY <1>2, <1>4, <1>5 DEF GiveUpInv

\* Claims and reports: a claim opens an attempt with the count it writes, and a
\* report gives the child up only for a terminal exception or the last retry.
LEMMA RunsGiveUp ==
    ASSUME TypeOK, Safe, GiveUpInv, NEW w \in Workers, Runs(w), Next
    PROVE  GiveUpInv'
<1>1. /\ UNCHANGED <<item, attempt, local, External>> /\ work \in [Workers -> Works] /\ It(w) \in Items
      /\ job \in [Items -> Jobs] /\ work[w] \in Works
      /\ \A v \in Workers : GiveUpOK(v) /\ It(v) \in Items
  BY RunsQuiet DEF TypeOK, It, Works, GiveUpInv
<1>2. OrderInv' /\ \A i \in Items : Open(i)' <=> Open(i)
  BY <1>1 DEF GiveUpInv, OrderInv, Open, Refunded, Cancelled, Done, External
<1>3. ASSUME NEW i \in Items, Claim(w, i) PROVE GiveUpInv'
  <2>1. PICK n : /\ job' = [job EXCEPT ![i] = [status |-> "PROCESSING", owner |-> w,
                                               lease |-> TRUE, retry |-> n]]
                 /\ work' = [work EXCEPT ![w] = [Idle(w) EXCEPT !.pc = "reconcile", !.item = i,
                                                                !.attempt = n]]
    BY <1>3 DEF Claim
  <2>2. /\ job'[i].status = "PROCESSING" /\ job'[i].owner = w /\ job'[i].retry = n
        /\ \A k \in Items : k # i => job'[k] = job[k]
    BY <1>1, <2>1
  <2>3. FailedInv'
    BY <1>2, <2>2 DEF GiveUpInv, FailedInv
  <2>4. ASSUME NEW v \in Workers, v # w PROVE GiveUpOK(v)'
    <3>1. work'[v] = work[v]
      BY <1>1, <2>1, <2>4
    <3>2. Owns(v)' => Owns(v) /\ job'[It(v)].retry = job[It(v)].retry
      BY <1>1, <2>2, <2>4, <3>1 DEF Owns, It
    <3> QED BY <1>1, <3>1, <3>2, LeftAlone
  <2>5. GiveUpOK(w)'
    <3>1. work'[w].pc = "reconcile" /\ work'[w].item = i /\ work'[w].attempt = n
      BY <1>1, <2>1 DEF Idle
    <3> QED BY <2>2, <3>1 DEF GiveUpOK, At, Early, It
  <2> QED BY <1>2, <2>3, <2>4, <2>5 DEF GiveUpInv
<1>4. CASE Heartbeat(w)
  <2>1. job' = [job EXCEPT ![It(w)].lease = TRUE] /\ work' = work
    BY <1>4 DEF Heartbeat
  <2>2. \A k \in Items : /\ job'[k].status = job[k].status /\ job'[k].owner = job[k].owner
                         /\ job'[k].retry = job[k].retry
    BY <1>1, <2>1 DEF Jobs
  <2>3. FailedInv'
    BY <1>2, <2>2 DEF GiveUpInv, FailedInv
  <2>4. ASSUME NEW v \in Workers PROVE GiveUpOK(v)'
    <3>2. Owns(v)' => Owns(v) /\ job'[It(v)].retry = job[It(v)].retry
      BY <1>1, <2>1, <2>2 DEF Owns, It
    <3> QED BY <1>1, <2>1, <3>2, LeftAlone
  <2> QED BY <1>2, <2>3, <2>4 DEF GiveUpInv
<1>5. CASE Finish(w)
  <2>0. work' = [work EXCEPT ![w] = Idle(w)] /\ At(w, "finish")
    BY <1>5 DEF Finish
  <2>1. PICK s : \/ job' = job
                 \/ /\ Owns(w)
                    /\ job' = [job EXCEPT ![It(w)].lease = FALSE, ![It(w)].status = s]
                    /\ s # "PROCESSING"
                    /\ s = "FAILED" => work[w].outcome = "TERMINAL_EXCEPTION" \/ Exhausted(w)
    <3> DEFINE s == CASE work[w].outcome = "COMPLETED" -> "COMPLETED"
                      [] work[w].outcome = "TERMINAL_EXCEPTION" -> "FAILED"
                      [] OTHER -> IF Exhausted(w) THEN "FAILED" ELSE "RETRY_SCHEDULED"
    <3>1. s # "PROCESSING" /\ (s = "FAILED" => work[w].outcome = "TERMINAL_EXCEPTION" \/ Exhausted(w))
      OBVIOUS
    <3>2. job' = IF Owns(w) THEN [job EXCEPT ![It(w)].lease = FALSE, ![It(w)].status = s] ELSE job
      BY <1>5 DEF Finish
    <3> HIDE DEF s
    <3> QED BY <3>1, <3>2
  <2>2. \A k \in Items : /\ job'[k].owner = job[k].owner /\ job'[k].retry = job[k].retry
                         /\ k # It(w) => job'[k].status = job[k].status
                         /\ job'[k].status = "PROCESSING" => job[k].status = "PROCESSING"
    BY <1>1, <2>1 DEF Jobs
  <2>3. FailedInv'
    <3>1. CASE job' = job
      BY <1>2, <3>1 DEF GiveUpInv, FailedInv
    <3>2. CASE /\ Owns(w)
               /\ job' = [job EXCEPT ![It(w)].lease = FALSE, ![It(w)].status = s]
               /\ s = "FAILED" => work[w].outcome = "TERMINAL_EXCEPTION" \/ Exhausted(w)
      <4>1. job'[It(w)].status = s
        BY <1>1, <3>2 DEF Jobs
      <4>2. Exhausted(w) => job[It(w)].retry = MaxRetries
        <5>1. work[w].attempt = job[It(w)].retry
          BY <1>1, <2>0, <3>2 DEF GiveUpOK, At
        <5>2. work[w].attempt \in 0..MaxRetries
          BY <1>1 DEF Works
        <5> QED BY <5>1, <5>2, ConstantsAssumption DEF Exhausted, ConstantsAssumption
      <4>3. s = "FAILED" => ~Open(It(w)) \/ job'[It(w)].retry = MaxRetries
        BY <1>1, <2>0, <2>2, <3>2, <4>2 DEF GiveUpOK
      <4> QED BY <1>1, <1>2, <2>2, <4>1, <4>3 DEF GiveUpInv, FailedInv
    <3> QED BY <2>1, <3>1, <3>2
  <2>4. ASSUME NEW v \in Workers, v # w PROVE GiveUpOK(v)'
    <3>1. work'[v] = work[v]
      BY <1>1, <2>0, <2>4
    <3>2. Owns(v)' => Owns(v) /\ job'[It(v)].retry = job[It(v)].retry
      BY <1>1, <2>2, <3>1 DEF Owns, It
    <3> QED BY <1>1, <3>1, <3>2, LeftAlone
  <2>5. GiveUpOK(w)'
    <3>1. work'[w].pc = "idle"
      BY <1>1, <2>0 DEF Idle
    <3> QED BY <3>1 DEF GiveUpOK, At, Early
  <2> QED BY <1>2, <2>3, <2>4, <2>5 DEF GiveUpInv
<1> QED BY <1>3, <1>4, <1>5 DEF Runs

\* Steps that write: past the approval there is nothing to give up, and an
\* order is cancelled for a child that was refunded.
LEMMA WritesGiveUp ==
    ASSUME TypeOK, Safe, GiveUpInv, NEW w \in Workers, Writes(w), Next
    PROVE  GiveUpInv'
<1>1. /\ work \in [Workers -> Works] /\ work[w] \in Works /\ It(w) \in Items
      /\ job \in [Items -> Jobs] /\ item \in [Items -> ItemStatus] /\ shop \in Orders
      /\ \A v \in Workers : GiveUpOK(v) /\ It(v) \in Items
  BY DEF TypeOK, It, Works, GiveUpInv
<1>2. Forward
  BY NextForward
<1>3. /\ local' = local /\ ~At(w, "idle")
      /\ work'[w].item = It(w) /\ work'[w].attempt = work[w].attempt
      /\ \A v \in Workers : v # w => work'[v] = work[v]
  <2>1. local' = local /\ ~At(w, "idle")
    BY DEF Writes, ReconcileCommit, Approve, Submit, Answer, CancelOrder, Persist, Poll, Finalize, Rows, At
  <2>2. \E u \in Works : work' = [work EXCEPT ![w] = u] /\ u.item = It(w) /\ u.attempt = work[w].attempt
    <3>1. \/ \E pc \in Pc : Goto(w, pc)
          \/ \E o \in Outcomes : Outcome(w, o)
          \/ work' = [work EXCEPT ![w].pc = "reclassify", ![w].ship = FALSE]
          \/ work' = [work EXCEPT ![w].pc = "persist", ![w].outcome = "TERMINAL_EXCEPTION"]
      BY DEF Writes, ReconcileCommit, Approve, Submit, Answer, CancelOrder, Persist, Poll, Finalize,
             CanonicalRefuses, Pc, Outcomes
    <3>2. ASSUME NEW pc \in Pc, Goto(w, pc)
          PROVE  LET u == [work[w] EXCEPT !.pc = pc]
                 IN  u \in Works /\ work' = [work EXCEPT ![w] = u] /\ u.item = It(w) /\ u.attempt = work[w].attempt
      BY <1>1, <3>2 DEF Goto, Works, It
    <3>3. ASSUME NEW o \in Outcomes, Outcome(w, o)
          PROVE  LET u == [work[w] EXCEPT !.pc = "finish", !.outcome = o]
                 IN  u \in Works /\ work' = [work EXCEPT ![w] = u] /\ u.item = It(w) /\ u.attempt = work[w].attempt
      BY <1>1, <3>3 DEF Outcome, Works, It, Pc
    <3>4. ASSUME work' = [work EXCEPT ![w].pc = "reclassify", ![w].ship = FALSE]
          PROVE  LET u == [work[w] EXCEPT !.pc = "reclassify", !.ship = FALSE]
                 IN  u \in Works /\ work' = [work EXCEPT ![w] = u] /\ u.item = It(w) /\ u.attempt = work[w].attempt
      BY <1>1, <3>4 DEF Works, It, Pc
    <3>5. ASSUME work' = [work EXCEPT ![w].pc = "persist", ![w].outcome = "TERMINAL_EXCEPTION"]
          PROVE  LET u == [work[w] EXCEPT !.pc = "persist", !.outcome = "TERMINAL_EXCEPTION"]
                 IN  u \in Works /\ work' = [work EXCEPT ![w] = u] /\ u.item = It(w) /\ u.attempt = work[w].attempt
      BY <1>1, <3>5 DEF Works, It, Pc, Outcomes
    <3> QED BY <3>1, <3>2, <3>3, <3>4, <3>5
  <2> QED BY <1>1, <2>1, <2>2
<1>4. \A k \in Items : /\ job'[k].owner = job[k].owner /\ job'[k].retry = job[k].retry
                       /\ job'[k].status \in {job[k].status, "COMPLETED"}
  <2>1. CASE Finalize(w)
    BY <1>1, <2>1 DEF Finalize, Jobs
  <2>2. CASE ~Finalize(w)
    <3>1. job' = job
      BY <2>2 DEF Writes, ReconcileCommit, Approve, Submit, Answer, CancelOrder, Persist, Poll, Rows
    <3> QED BY <3>1
  <2> QED BY <2>1, <2>2
<1>5. FailedInv'
  BY <1>4, OpenBefore DEF GiveUpInv, FailedInv
<1>6. OrderInv'
  <2>1. \A i \in Items : local'[i].booked => Refunded(i)'
    BY <1>2, <1>3 DEF GiveUpInv, OrderInv, Forward
  <2>2. shop'.cancel \in {"running", "cancelled"} => \E i \in Items : Done(i)
    <3>1. CASE CancelOrder(w)
      <4>1. Done(It(w))
        BY <3>1 DEF CancelOrder, At, Safe, WorkInv, WorkOK
      <4> QED BY <1>1, <4>1
    <3>2. CASE ~CancelOrder(w)
      <4>1. shop' = shop
        BY <3>2 DEF Writes, ReconcileCommit, Approve, Submit, Answer, Persist, Poll, Finalize, External
      <4> QED BY <4>1 DEF GiveUpInv, OrderInv
    <3> QED BY <3>1, <3>2
  <2>3. \A i \in Items : Done(i) => Done(i)'
    BY <1>2 DEF Forward
  <2> QED BY <2>1, <2>2, <2>3 DEF OrderInv
<1>7. ASSUME NEW v \in Workers, v # w PROVE GiveUpOK(v)'
  <2>1. Owns(v)' => Owns(v) /\ job'[It(v)].retry = job[It(v)].retry
    BY <1>1, <1>3, <1>4, <1>7 DEF Owns, It
  <2> QED BY <1>1, <1>3, <1>7, <2>1, LeftAlone
<1>8. GiveUpOK(w)'
  <2>1. Owns(w)' => Owns(w) /\ job'[It(w)].retry = job[It(w)].retry
    <3>1. It(w)' = It(w)
      BY <1>3 DEF It
    <3> QED BY <1>1, <1>4, <3>1 DEF Owns
  <2>2. \/ ~Open(It(w))
        \/ item'[It(w)] # "PENDING"
        \/ work'[w].pc = "finish" /\ work'[w].outcome # "TERMINAL_EXCEPTION"
    <3>1. CASE Approve(w)
      <4>1. \/ Outcome(w, "RETRYABLE")
            \/ item' = [item EXCEPT ![It(w)] = "APPROVED_FOR_REFUND"]
        BY <3>1 DEF Approve
      <4> QED BY <1>1, <4>1 DEF Outcome, Works
    <3>2. CASE ~Approve(w)
      <4>1. work[w].pc \in {"commit", "submit", "await", "cancel", "persist", "poll", "finalize"}
        BY <3>2 DEF Writes, ReconcileCommit, Submit, Answer, CancelOrder, Persist, Poll, Finalize, At
      <4> QED BY <1>1, <4>1 DEF GiveUpOK, Early
    <3> QED BY <3>1, <3>2
  <2> QED BY <1>1, <1>3, <2>1, <2>2, GoesOn
<1> QED BY <1>5, <1>6, <1>7, <1>8 DEF GiveUpInv

\* The others move no worker, and book what was refunded.
LEMMA OthersGiveUp ==
    ASSUME TypeOK, Safe, GiveUpInv, Next, Shopify \/ \E i \in Items : Around(i)
    PROVE  GiveUpInv'
<1>1. /\ work' = work /\ job \in [Items -> Jobs] /\ local \in [Items -> Allocations]
      /\ \A v \in Workers : GiveUpOK(v) /\ It(v) \in Items
      /\ \A i \in Items : local[i] \in Allocations
  BY DEF TypeOK, It, Works, GiveUpInv, Shopify, Process, CancelEnds, AdminRefund, AdminCancel,
         Around, RefundWebhook, Spoil, Expire
<1>2. Forward
  BY NextForward
<1>3. \A k \in Items : /\ job'[k].owner = job[k].owner /\ job'[k].retry = job[k].retry
                       /\ job'[k].status = job[k].status
  <2>1. CASE Shopify
    BY <2>1 DEF Shopify, Process, CancelEnds, AdminRefund, AdminCancel, Rows
  <2>2. ASSUME NEW i \in Items, Expire(i)
        PROVE  \A k \in Items : /\ job'[k].owner = job[k].owner /\ job'[k].retry = job[k].retry
                                /\ job'[k].status = job[k].status
    BY <1>1, <2>2 DEF Expire, Jobs
  <2>3. ASSUME NEW i \in Items, RefundWebhook(i) \/ Spoil(i) PROVE job' = job
    BY <2>3 DEF RefundWebhook, Spoil
  <2> QED BY <2>1, <2>2, <2>3 DEF Around
<1>4. FailedInv'
  BY <1>3, OpenBefore DEF GiveUpInv, FailedInv
<1>5. ASSUME NEW v \in Workers PROVE GiveUpOK(v)'
  <2>1. Owns(v)' => Owns(v) /\ job'[It(v)].retry = job[It(v)].retry
    BY <1>1, <1>3 DEF Owns, It
  <2> QED BY <1>1, <2>1, LeftAlone
<1>6. OrderInv'
  <2>1. \A i \in Items : local'[i].booked => local[i].booked \/ Refunded(i)
    <3>1. CASE Shopify
      BY <3>1 DEF Shopify, Process, CancelEnds, AdminRefund, AdminCancel, Rows
    <3>2. ASSUME NEW j \in Items, Around(j)
          PROVE  \A i \in Items : local'[i].booked => local[i].booked \/ Refunded(i)
      BY <1>1, <3>2 DEF Around, RefundWebhook, Spoil, Expire, Allocations
    <3> QED BY <3>1, <3>2
  <2>2. shop'.cancel \in {"running", "cancelled"} => shop.cancel \in {"running", "cancelled"}
    <3>1. shop \in Orders
      BY DEF TypeOK
    <3>2. CASE Shopify
      BY <3>1, <3>2 DEF Shopify, Process, CancelEnds, AdminRefund, AdminCancel, Orders
    <3>3. ASSUME NEW j \in Items, Around(j) PROVE shop' = shop
      BY <3>3 DEF Around, RefundWebhook, Spoil, Expire, External
    <3> QED BY <3>2, <3>3
  <2> QED BY <1>2, <2>1, <2>2 DEF GiveUpInv, OrderInv, Forward
<1> QED BY <1>4, <1>5, <1>6 DEF GiveUpInv

\* Every step keeps it.
LEMMA GiveUpStep == IInv /\ GiveUpInv /\ [Next]_vars => GiveUpInv'
<1>1. ASSUME IInv, GiveUpInv, Next PROVE GiveUpInv'
  BY <1>1, Groups, ReadsGiveUp, RunsGiveUp, WritesGiveUp, OthersGiveUp DEF IInv
<1>2. ASSUME GiveUpInv, UNCHANGED vars PROVE GiveUpInv'
  BY <1>2 DEF vars, GiveUpInv, GiveUpOK, FailedInv, OrderInv, Open, Refunded, Cancelled, Done, At, It, Owns
<1> QED BY <1>1, <1>2

\* A child that could be refunded is given up early only because the order was
\* cancelled, and unless the staff did it, for another child of the request:
\* a child that is alone always has all its retries.
THEOREM GivenUpForSiblings ==
    Spec => [](\A i \in Items :
                 job[i].status = "FAILED" /\ item[i] = "PENDING" /\ local[i].clean /\ ~Refunded(i)
                   => \/ shop.cancel = "admin"
                      \/ job[i].retry = MaxRetries
                      \/ shop.cancel = "cancelled" /\ \E j \in Items \ {i} : Done(j))
<1> DEFINE GivenUp ==
      \A i \in Items :
        job[i].status = "FAILED" /\ item[i] = "PENDING" /\ local[i].clean /\ ~Refunded(i)
          => \/ shop.cancel = "admin"
             \/ job[i].retry = MaxRetries
             \/ shop.cancel = "cancelled" /\ \E j \in Items \ {i} : Done(j)
<1>1. GiveUpInv => GivenUp
  BY DEF GiveUpInv, FailedInv, OrderInv, Open, Cancelled, Done
<1>2. Spec => []GiveUpInv
  BY GiveUpInit, GiveUpStep, Invariance, PTL DEF Spec
<1> QED BY <1>1, <1>2, PTL

\* docs/API_CONTRACTS.md:942 holds of a request with a single child.
THEOREM AloneDefers ==
    ASSUME \A i, j \in Items : i = j
    PROVE  Spec => []SiblingDefers
<1>1. GiveUpInv => SiblingDefers
  BY DEF GiveUpInv, FailedInv, OrderInv, Open, Cancelled, Done, SiblingDefers
<1>2. Spec => []GiveUpInv
  BY GiveUpInit, GiveUpStep, Invariance, PTL DEF Spec
<1> QED BY <1>1, <1>2, PTL

-----------------------------------------------------------------------------
(* What Shopify is asked to refund *)

\* An unanswered request that could still return the money of its child.
Outstanding(r) == r.answer = "none" /\ ~Refunded(r.item)

\* No two of these return the same money: a child is asked for once, children are
\* asked for one after the other, and the shipping again only after a refusal.
AskedOneByOne ==
    /\ \A r, s \in asked : r.item = s.item => r = s
    /\ \A r, s \in asked : Outstanding(r) /\ Outstanding(s) => r = s
    /\ \A r, s \in asked : r.ship /\ s.ship /\ r # s => "rejected" \in {r.answer, s.answer}

\* Who leaves the shipping out has seen that nothing of it was left.
ShippingSeen(ship) == ship \/ ~ShippingPaid \/ shop.shipping

ShippingInv ==
    /\ \A w \in Workers : At(w, "approve") => ShippingSeen(work[w].ship)
    /\ \A i \in Items : attempt[i].status # "none" => ShippingSeen(attempt[i].ship)
    /\ \A r \in asked : r.ship => ShippingPaid
    /\ \A r \in asked : r.ship /\ r.answer = "refunded" => shop.shipping
    /\ \A r, s \in asked : r.ship /\ s.ship /\ r # s => "rejected" \in {r.answer, s.answer}

Ready(i) == attempt[i].status = "READY_TO_SUBMIT"

\* A request that no longer counts: the staff refunded what it asks for.
Overtaken(r) == Refunded(r.item) /\ (r.ship => shop.shipping)

\* One attempt is ready at a time, and an unanswered request belongs to it.
TurnInv ==
    /\ \A i, j \in Items : Ready(i) /\ Ready(j) => i = j
    /\ \A r \in asked : r.answer = "none" => Ready(r.item) \/ Overtaken(r)

OneByOneInv == ShippingInv /\ TurnInv

\* Nothing was asked for yet.
LEMMA OneByOneInit == Init => OneByOneInv
BY DEF Init, Idle, OneByOneInv, ShippingInv, TurnInv, Ready, At

\* A step that makes no attempt and no request, and leaves an attempt with an
\* unanswered request ready unless the request was overtaken.
LEMMA OneByOneFrame ==
    ASSUME TypeOK, OneByOneInv, Forward, UNCHANGED asked,
           \A i \in Items : /\ Ready(i)' => Ready(i)
                            /\ attempt'[i].status # "none" => attempt[i].status # "none",
           \A r \in asked : r.answer = "none" /\ Ready(r.item) =>
                            Ready(r.item)' \/ Overtaken(r),
           \A w \in Workers : At(w, "approve")' =>
                \/ At(w, "approve") /\ work'[w].ship = work[w].ship
                \/ ShippingSeen(work'[w].ship)
    PROVE  OneByOneInv'
<1>1. \A r \in asked : r.item \in Items
  BY DEF TypeOK, Requests
<1>2. \A ship : ShippingSeen(ship) => ShippingSeen(ship)'
  BY DEF ShippingSeen, Forward
<1>3. \A r \in asked : Overtaken(r) => Overtaken(r)'
  BY <1>1 DEF Overtaken, Forward
<1>4. ShippingInv'
  <2>1. \A w \in Workers : At(w, "approve")' => ShippingSeen(work[w].ship)'
    BY <1>2 DEF OneByOneInv, ShippingInv, ShippingSeen
  <2>2. \A i \in Items : attempt'[i].status # "none" => ShippingSeen(attempt[i].ship)'
    BY <1>2 DEF OneByOneInv, ShippingInv, Forward, ShippingSeen
  <2> QED BY <2>1, <2>2 DEF OneByOneInv, ShippingInv, ShippingSeen, Forward
<1>5. TurnInv'
  <2>1. \A i, j \in Items : Ready(i)' /\ Ready(j)' => i = j
    BY DEF OneByOneInv, TurnInv
  <2>2. \A r \in asked : r.answer = "none" => Ready(r.item)' \/ Overtaken(r)'
    BY <1>3 DEF OneByOneInv, TurnInv
  <2> QED BY <2>1, <2>2 DEF TurnInv, Ready, Overtaken, Refunded
<1> QED BY <1>4, <1>5 DEF OneByOneInv

\* An attempt is made only while no sibling has one that is ready, and leaves the
\* shipping out only if the reading before it saw none.
LEMMA ApproveOneByOne ==
    ASSUME TypeOK, AskInv, OneByOneInv, Forward, NEW w \in Workers, Approve(w)
    PROVE  OneByOneInv'
<1> DEFINE i == It(w)
<1>1. /\ work \in [Workers -> Works] /\ work[w] \in Works /\ i \in Items
      /\ attempt \in [Items -> Attempts]
      /\ UNCHANGED <<asked, shop>> /\ At(w, "approve")
  BY DEF TypeOK, It, Works, Approve, External
<1>2. \A v \in Workers : At(v, "approve")' => At(v, "approve") /\ work'[v].ship = work[v].ship
  BY <1>1 DEF Approve, Outcome, At, Works
<1>3. CASE attempt' = attempt
  BY <1>1, <1>2, <1>3, OneByOneFrame DEF Ready
<1>4. CASE attempt' # attempt
  <2>1. /\ attempt[i].status = "none" /\ ~SiblingActive(i)
        /\ attempt' = [attempt EXCEPT ![i] = [status |-> "READY_TO_SUBMIT", key |-> 1,
                                              ship |-> work[w].ship, cancelJob |-> FALSE]]
    BY <1>1, <1>4 DEF Approve, Upsert
  <2>2. \A r \in asked : r.item \in Items /\ r.item # i
    BY <2>1 DEF AskInv, TypeOK, Requests
  <2>3. ShippingInv'
    BY <1>1, <1>2, <2>1 DEF OneByOneInv, ShippingInv, ShippingSeen
  <2>4. \A j \in Items : Ready(j)' <=> Ready(j) \/ j = i
    BY <1>1, <2>1 DEF Ready
  <2>5. \A j \in Items : Ready(j) => j = i
    BY <2>1 DEF Ready, SiblingActive, Active
  <2>6. \A j, k \in Items : Ready(j)' /\ Ready(k)' => j = k
    BY <2>4, <2>5
  <2>7. \A r \in asked : r.answer = "none" => Ready(r.item)' \/ Overtaken(r)
    BY <2>2, <2>4 DEF OneByOneInv, TurnInv
  <2>8. TurnInv'
    BY <1>1, <2>6, <2>7 DEF TurnInv, Ready, Overtaken, Refunded
  <2> QED BY <2>3, <2>8 DEF OneByOneInv
<1> QED BY <1>3, <1>4

\* A new request is made by the attempt whose turn it is, when every request before
\* it was answered or overtaken, and asks for the shipping if nobody returned it.
LEMMA SubmitOneByOne ==
    ASSUME TypeOK, Safe, OneByOneInv, Forward, NEW w \in Workers, Submit(w)
    PROVE  OneByOneInv'
<1> DEFINE i == It(w)
           new == [item |-> i, key |-> attempt[i].key, ship |-> RefundableShipping,
                   answer |-> "none"]
<1>1. /\ work \in [Workers -> Works] /\ work[w] \in Works /\ i \in Items
      /\ attempt[i] \in Attempts
      /\ \A r \in asked : r.item \in Items
      /\ UNCHANGED <<item, attempt, shop>> /\ At(w, "submit")
  BY DEF TypeOK, It, Works, Requests, Submit, Rows
<1>2. \A v \in Workers : At(v, "approve")' => At(v, "approve") /\ work'[v].ship = work[v].ship
  BY <1>1 DEF Submit, CanonicalRefuses, Goto, Outcome, At, Works
<1>3. CASE asked' = asked
  BY <1>1, <1>2, <1>3, OneByOneFrame DEF Ready
<1>4. CASE asked' # asked
  <2>1. /\ Refundable(i) /\ asked' = asked \union {new}
        /\ {r \in asked : r.item = i /\ r.key = attempt[i].key} = {}
    BY <1>4 DEF Submit
  <2>2. attempt[i].status # "none" /\ attempt[i].key = 1
    BY <1>1 DEF Safe, AttemptInv, WorkInv, WorkOK, At
  <2>3. \A r \in asked : r.item # i
    BY <2>1, <2>2 DEF Safe, AskInv
  <2>4. Ready(i)
    <3>1. attempt[i].status # "RESOLVED"
      BY <1>1, <2>1 DEF Safe, RowsAreTrue, Refundable
    <3>2. attempt[i].status \notin {"SHOPIFY_ACTION_PENDING", "FAILED"}
      BY <1>1, <2>3 DEF Safe, RowsAreTrue, AskInv, AttemptInv
    <3> QED BY <1>1, <2>2, <3>1, <3>2 DEF Ready, Attempts, AttemptStatus
  <2>5. \A r \in asked : r.answer = "none" => Overtaken(r)
    BY <1>1, <2>3, <2>4 DEF OneByOneInv, TurnInv
  <2>6. new.item = i /\ new.answer = "none" /\ (new.ship => ShippingPaid /\ ~shop.shipping)
    BY ConstantsAssumption DEF RefundableShipping
  <2> HIDE DEF new
  <2>7. \A r \in asked : r.ship /\ new.ship => r.answer = "rejected"
    <3>1. \A r \in asked : r.answer \in {"none", "refunded", "rejected"}
      BY DEF TypeOK, Requests
    <3> QED BY <2>5, <2>6, <3>1 DEF OneByOneInv, ShippingInv, Overtaken
  <2>8. ShippingInv'
    BY <1>1, <1>2, <2>1, <2>6, <2>7 DEF OneByOneInv, ShippingInv, ShippingSeen
  <2>9. TurnInv'
    BY <1>1, <2>1, <2>4, <2>6 DEF OneByOneInv, TurnInv, Ready, Overtaken, Refunded
  <2> QED BY <2>8, <2>9 DEF OneByOneInv
<1> QED BY <1>3, <1>4

\* An answer ends the turn of a request, and the shipping is what it says.
LEMMA ProcessOneByOne ==
    ASSUME TypeOK, AskInv, OneByOneInv, Forward, NEW r \in asked, Process(r)
    PROVE  OneByOneInv'
<1>1. /\ shop \in Orders /\ asked \subseteq Requests /\ \A s \in asked : s.item \in Items
      /\ UNCHANGED <<attempt, work>>
  BY DEF TypeOK, Requests, Process, Rows
<1>2. PICK answer \in {"refunded", "rejected"} :
          /\ asked' = (asked \ {r}) \union {[r EXCEPT !.answer = answer]}
          /\ shop' = IF answer = "refunded"
                     THEN [shop EXCEPT !.refund[r.item] = "saga", !.shipping = @ \/ r.ship]
                     ELSE shop
  BY DEF Process
<1> DEFINE s == [r EXCEPT !.answer = answer]
<1>3. s.item = r.item /\ s.ship = r.ship /\ s.answer = answer /\ r.answer = "none"
  BY <1>1 DEF Requests, Process
<1>4. s.ship /\ answer = "refunded" => shop'.shipping
  BY <1>1, <1>2, <1>3 DEF Orders
<1> HIDE DEF s
<1>5. asked' = (asked \ {r}) \union {s}
  BY <1>2 DEF s
<1>6. \A ship : ShippingSeen(ship) => ShippingSeen(ship)'
  BY DEF ShippingSeen, Forward
<1>7. ShippingInv'
  <2>1. \A v \in Workers : At(v, "approve")' => ShippingSeen(work[v].ship)'
    BY <1>1, <1>6 DEF OneByOneInv, ShippingInv, At
  <2>2. \A i \in Items : attempt'[i].status # "none" => ShippingSeen(attempt[i].ship)'
    BY <1>1, <1>6 DEF OneByOneInv, ShippingInv
  <2>3. \A q \in asked' : q.ship => ShippingPaid
    BY <1>3, <1>5 DEF OneByOneInv, ShippingInv
  <2>4. \A q \in asked' : q.ship /\ q.answer = "refunded" => shop'.shipping
    BY <1>3, <1>4, <1>5 DEF OneByOneInv, ShippingInv, Forward
  <2>5. \A p, q \in asked' : p.ship /\ q.ship /\ p # q => "rejected" \in {p.answer, q.answer}
    BY <1>3, <1>5 DEF OneByOneInv, ShippingInv
  <2> QED BY <2>1, <2>2, <2>3, <2>4, <2>5 DEF ShippingInv, At, ShippingSeen
<1>8. TurnInv'
  <2>1. \A q \in asked : Overtaken(q) => Overtaken(q)'
    BY <1>1 DEF Overtaken, Forward
  <2>2. \A q \in asked' : q.answer = "none" => Ready(q.item) \/ Overtaken(q)'
    BY <1>2, <1>3, <1>5, <2>1 DEF OneByOneInv, TurnInv
  <2>3. UNCHANGED attempt
    BY <1>1
  <2>4. \A i \in Items : Ready(i)' <=> Ready(i)
    BY <2>3 DEF Ready
  <2>5. \A q \in asked' : Ready(q.item) => Ready(q.item)'
    BY <2>3 DEF Ready
  <2> QED BY <2>2, <2>4, <2>5 DEF OneByOneInv, TurnInv, Ready, Overtaken, Refunded
<1> QED BY <1>7, <1>8 DEF OneByOneInv

\* The other steps of a worker.
LEMMA WorkerOneByOne ==
    ASSUME TypeOK, Safe, OneByOneInv, Forward, NEW w \in Workers,
           Reads(w) \/ Runs(w) \/ Writes(w)
    PROVE  OneByOneInv'
<1> DEFINE i == It(w)
<1>1. /\ work \in [Workers -> Works] /\ work[w] \in Works /\ i \in Items
      /\ attempt \in [Items -> Attempts] /\ \A j \in Items : attempt[j] \in Attempts
      /\ \A r \in asked : r.item \in Items
  BY DEF TypeOK, It, Works, Requests
<1>2. CASE Reads(w)
  <2>1. UNCHANGED <<Rows, External>>
    BY <1>2, ReadsQuiet
  <2>2. \A v \in Workers : v # w => work'[v] = work[v]
    BY <1>2, OthersWait
  <2>3. At(w, "approve")' => ShippingSeen(work'[w].ship)
    <3>1. \A pc : Goto(w, pc) => work'[w].pc = pc
      BY <1>1 DEF Goto, Works
    <3>2. \A o : Outcome(w, o) => work'[w].pc = "finish"
      BY <1>1 DEF Outcome, Works
    <3>3. CASE ReadCanonical(w)
      <4>1. CASE CanonicalRefuses(w)
        BY <3>2, <4>1 DEF CanonicalRefuses, At
      <4>2. CASE work' = [work EXCEPT ![w].pc = "approve", ![w].ship = RefundableShipping]
        <5>1. work'[w].ship = RefundableShipping
          BY <1>1, <4>2 DEF Works
        <5> QED BY <5>1 DEF ShippingSeen, RefundableShipping
      <4> QED BY <3>3, <4>1, <4>2 DEF ReadCanonical
    <3>4. CASE Crash(w)
      BY <1>1, <3>4 DEF Crash, Idle, At
    <3>5. CASE Reconcile(w) \/ Classify(w) \/ Reclassify(w) \/ CancelRead(w)
      BY <3>1, <3>2, <3>5
         DEF Reconcile, ReconcileRead, Classify, Reclassify, ClassifyLocal, CancelRead, At
    <3> QED BY <1>2, <3>3, <3>4, <3>5 DEF Reads
  <2> QED BY <2>1, <2>2, <2>3, OneByOneFrame DEF Rows, External, Ready, At
<1>3. CASE Runs(w)
  <2>1. UNCHANGED <<item, attempt, local, External>>
    BY <1>3, RunsQuiet
  <2>2. \A v \in Workers : v # w => work'[v] = work[v]
    BY <1>3, OthersWait
  <2>3. work'[w].pc # "approve" \/ work'[w] = work[w]
    <3>1. ASSUME NEW j \in Items, Claim(w, j) PROVE work'[w].pc = "reconcile"
      BY <1>1, <3>1 DEF Claim, Idle
    <3>2. Heartbeat(w) => work' = work
      BY DEF Heartbeat
    <3>3. Finish(w) => work'[w].pc = "idle"
      BY <1>1 DEF Finish, Idle
    <3> QED BY <1>3, <3>1, <3>2, <3>3 DEF Runs
  <2> QED BY <2>1, <2>2, <2>3, OneByOneFrame DEF External, Ready, At
<1>4. CASE Approve(w)
  BY <1>4, ApproveOneByOne DEF Safe
<1>5. CASE Submit(w)
  BY <1>5, SubmitOneByOne
<1>6. ASSUME UNCHANGED asked,
             \A v \in Workers : v # w => work'[v] = work[v],
             work'[w].pc # "approve",
             \A j \in Items : /\ Ready(j)' => Ready(j)
                              /\ attempt'[j].status # "none" => attempt[j].status # "none",
             \A r \in asked : r.answer = "none" /\ Ready(r.item) =>
                                Ready(r.item)' \/ Overtaken(r)
      PROVE  OneByOneInv'
  BY <1>6, OneByOneFrame DEF At
<1>7. CASE ReconcileCommit(w) \/ Answer(w) \/ CancelOrder(w) \/ Persist(w) \/ Poll(w)
            \/ Finalize(w)
  <2>1. UNCHANGED asked
    BY <1>7 DEF ReconcileCommit, Answer, CancelOrder, Persist, Poll, Finalize, External
  <2>2. \A v \in Workers : v # w => work'[v] = work[v]
    BY <1>7, OthersWait DEF Writes
  <2>3. work'[w].pc # "approve"
    BY <1>1, <1>7
       DEF ReconcileCommit, Answer, CancelOrder, Persist, Poll, Finalize, Goto, Outcome, Works
  <2>4. CASE ReconcileCommit(w)
    <3>1. Returned(i) /\ attempt[i].status # "none"
      BY <1>1, <2>4 DEF ReconcileCommit, Safe, WorkInv, WorkOK, AttemptInv, At
    <3>2. \A r \in asked : r.item = i => Overtaken(r)
      BY <1>1, <3>1 DEF OneByOneInv, ShippingInv, ShippingSeen, Overtaken, Returned
    <3>3. \A j \in Items : \/ attempt'[j].status = attempt[j].status
                           \/ j = i /\ attempt'[j].status = "RESOLVED"
      BY <1>1, <2>4 DEF ReconcileCommit, Resolve, Attempts
    <3> QED BY <1>1, <1>6, <2>1, <2>2, <2>3, <3>1, <3>2, <3>3 DEF Ready
  <2>5. CASE Answer(w)
    <3>1. \A j \in Items :
            \/ attempt'[j].status = attempt[j].status
            \/ /\ j = i /\ attempt'[j].status \in {"SHOPIFY_ACTION_PENDING", "FAILED"}
               /\ attempt[j].status # "none"
               /\ \E r \in asked : r.item = i /\ r.answer # "none"
      BY <1>1, <2>5 DEF Answer, Attempts, Safe, WorkInv, WorkOK, At
    <3>2. \A r, s \in asked : r.item = s.item => r = s
      BY DEF Safe, AskInv
    <3> QED BY <1>1, <1>6, <2>1, <2>2, <2>3, <3>1, <3>2 DEF Ready
  <2>6. CASE CancelOrder(w) \/ Persist(w) \/ Poll(w) \/ Finalize(w)
    <3>1. \A j \in Items : attempt'[j].status = attempt[j].status
      BY <1>1, <2>6 DEF CancelOrder, Persist, Poll, Finalize, Rows, Attempts
    <3> QED BY <1>1, <1>6, <2>1, <2>2, <2>3, <3>1 DEF Ready
  <2> QED BY <1>7, <2>4, <2>5, <2>6
<1> QED BY <1>2, <1>3, <1>4, <1>5, <1>7 DEF Writes

\* The webhook resolves only an attempt that was answered; the staff take no turn.
LEMMA OthersOneByOne ==
    ASSUME TypeOK, Safe, OneByOneInv, Forward, Shopify \/ \E i \in Items : Around(i)
    PROVE  OneByOneInv'
<1>1. work' = work /\ \A r \in asked : r.item \in Items
  BY DEF TypeOK, Requests, Around, RefundWebhook, Spoil, Expire, Shopify, Process,
         CancelEnds, AdminRefund, AdminCancel
<1>2. ASSUME NEW r \in asked, Process(r) PROVE OneByOneInv'
  BY <1>2, ProcessOneByOne DEF Safe
<1>3. CASE UNCHANGED <<attempt, asked>>
  BY <1>1, <1>3, OneByOneFrame DEF Ready, At
<1>4. ASSUME NEW i \in Items, RefundWebhook(i) PROVE OneByOneInv'
  <2>1. UNCHANGED asked
    BY <1>4 DEF RefundWebhook, External
  <2>2. attempt \in [Items -> Attempts] /\ \A j \in Items : attempt[j] \in Attempts
    BY DEF TypeOK
  <2>3. \A j \in Items :
          \/ attempt'[j].status = attempt[j].status
          \/ attempt[j].status = "SHOPIFY_ACTION_PENDING" /\ attempt'[j].status = "RESOLVED"
    BY <1>4, <2>2 DEF RefundWebhook, Resolve, Attempts
  <2>4. \A j \in Items : /\ Ready(j)' <=> Ready(j)
                         /\ attempt'[j].status # "none" => attempt[j].status # "none"
    BY <2>3 DEF Ready
  <2> QED BY <1>1, <2>1, <2>4, OneByOneFrame DEF At
<1>5. ASSUME NEW i \in Items, Spoil(i) \/ Expire(i) PROVE UNCHANGED <<attempt, asked>>
  BY <1>5 DEF Spoil, Expire, External
<1>6. CancelEnds \/ AdminCancel \/ (\E i \in Items : AdminRefund(i))
        => UNCHANGED <<attempt, asked>>
  BY DEF CancelEnds, AdminCancel, AdminRefund, Rows
<1> QED BY <1>2, <1>3, <1>4, <1>5, <1>6 DEF Shopify, Around

\* Every step keeps the turns.
LEMMA OneByOneStep == IInv /\ OneByOneInv /\ [Next]_vars => OneByOneInv'
<1>1. ASSUME IInv, OneByOneInv, Next PROVE OneByOneInv'
  BY <1>1, Groups, NextForward, WorkerOneByOne, OthersOneByOne DEF IInv
<1>2. ASSUME OneByOneInv, UNCHANGED vars PROVE OneByOneInv'
  BY <1>2 DEF vars, OneByOneInv, ShippingInv, TurnInv, ShippingSeen, Ready, Overtaken, Refunded, At
<1> QED BY <1>1, <1>2

\* However workers replace each other and write late, what Shopify is asked never
\* returns the same money twice: the key of an attempt gives one request for a child
\* in its life, the check of the siblings one outstanding request for an order, and
\* the two readings of the order one request for the shipping that is not refused.
THEOREM RefundsOneByOne == Spec => []AskedOneByOne
<1>1. IInv /\ OneByOneInv => AskedOneByOne
  <2>1. SUFFICES ASSUME IInv, OneByOneInv PROVE AskedOneByOne
    OBVIOUS
  <2>2. \A r, s \in asked : r.item = s.item => r = s
    BY <2>1 DEF IInv, Safe, AskInv
  <2>3. \A r \in asked : r.item \in Items
    BY <2>1 DEF IInv, TypeOK, Requests
  <2>4. \A r \in asked : Outstanding(r) => Ready(r.item)
    BY <2>1 DEF OneByOneInv, TurnInv, Outstanding, Overtaken
  <2>5. \A r, s \in asked : Outstanding(r) /\ Outstanding(s) => r = s
    BY <2>1, <2>2, <2>3, <2>4 DEF OneByOneInv, TurnInv
  <2> QED BY <2>1, <2>2, <2>5 DEF AskedOneByOne, OneByOneInv, ShippingInv
<1>2. Spec => [](IInv /\ OneByOneInv)
  BY OneByOneInit, OneByOneStep, Invariance, PTL DEF Spec
<1> QED BY <1>1, <1>2, PTL

=============================================================================
