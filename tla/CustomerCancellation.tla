------------------------ MODULE CustomerCancellation ------------------------
(***************************************************************************)
(* The automatic refund and cancellation of one order a customer           *)
(* cancelled.  The request has a child for every line; each child has a    *)
(* REFUND_SYNC job.  A worker refunds the child at Shopify, verifies the   *)
(* refund by reading it back, and only then cancels the order, without any *)
(* further refund.                                                         *)
(*                                                                         *)
(* A worker may die or stall between any two steps, and another takes its  *)
(* job over when the lease has run out.  The job is fenced by a generation, *)
(* the child and its attempt are guarded by their status under the order   *)
(* lock, except for the write that follows the answer to a refund.         *)
(***************************************************************************)
EXTENDS Naturals, FiniteSets

CONSTANTS Items,        \* the children of the request
          Workers,      \* executors
          MaxRetries,   \* maxRetries of the jobs
          ShippingPaid, \* the customer paid for shipping
          MaxStaff      \* bound: what others do to the order and its allocations

ASSUME ConstantsAssumption ==
    /\ MaxRetries \in Nat \ {0}
    /\ MaxStaff \in Nat
    /\ ShippingPaid \in BOOLEAN
    /\ Items # {} /\ Workers # {}

VARIABLES item,     \* status of each CustomerCancellationRequestItem
          attempt,  \* its OutboundShopifyRefundAttempt
          job,      \* its OperationalJob
          local,    \* its allocation
          work,     \* program counter and locals of each worker
          asked,    \* refundCreate requests by idempotency key
          shop,     \* the order at Shopify
          staff     \* number of interventions of others so far

vars == <<item, attempt, job, local, work, asked, shop, staff>>

-----------------------------------------------------------------------------
(* State *)

\* CONFLICTED, TOO_LATE and DECLINED are never assigned.
ItemStatus == {"PENDING", "APPROVED_FOR_REFUND", "REFUNDED_AWAITING_ORDER_CANCEL",
               "APPROVED"}
AttemptStatus == {"none", "READY_TO_SUBMIT", "SHOPIFY_ACTION_PENDING", "RESOLVED", "FAILED"}
JobStatus == {"PENDING", "PROCESSING", "RETRY_SCHEDULED", "COMPLETED", "FAILED"}

Processable == {"PENDING", "APPROVED_FOR_REFUND"}
Active == {"READY_TO_SUBMIT", "SHOPIFY_ACTION_PENDING"}

\* ship: a positive intendedShippingRefundAmount; cancelJob: the id of an
\* orderCancel job is in mutationResponseJson.
Attempts == [status : AttemptStatus, key : Nat, ship : BOOLEAN, cancelJob : BOOLEAN]

\* owner is the worker that holds the current processingGeneration.
Jobs == [status : JobStatus, owner : Workers, lease : BOOLEAN, retry : 0..MaxRetries]

\* booked: a local refund record; clean: nothing else stands against the refund.
\* Every child has an allocation of its own.
Allocations == [booked : BOOLEAN, clean : BOOLEAN]

\* An orderCancel job is asynchronous, and may end without a cancellation.
CancelStates == {"no", "running", "cancelled", "admin"}
Orders == [refund : [Items -> {"none", "saga", "admin"}], shipping : BOOLEAN,
           cancel : CancelStates, ended : BOOLEAN]

Requests == [item : Items, key : Nat, ship : BOOLEAN,
             answer : {"none", "refunded", "rejected"}]

Pc == {"idle", "reconcile", "classify", "canonical", "approve", "reclassify",
       "submit", "await", "verify", "commit", "cancelRead", "cancel", "persist",
       "poll", "finalize", "finish"}
Outcomes == {"none", "COMPLETED", "RETRYABLE", "TERMINAL_EXCEPTION"}
Works == [pc : Pc, item : Items, attempt : 0..MaxRetries, ship : BOOLEAN, outcome : Outcomes]

TypeOK ==
    /\ item \in [Items -> ItemStatus]
    /\ attempt \in [Items -> Attempts]
    /\ job \in [Items -> Jobs]
    /\ local \in [Items -> Allocations]
    /\ work \in [Workers -> Works]
    /\ asked \subseteq Requests
    /\ shop \in Orders
    /\ staff \in 0..MaxStaff

Idle(w) == [pc |-> "idle", item |-> CHOOSE i \in Items : TRUE, attempt |-> 0,
            ship |-> FALSE, outcome |-> "none"]

\* The request has been accepted: all children and jobs in one transaction.
Init ==
    /\ item = [i \in Items |-> "PENDING"]
    /\ attempt = [i \in Items |-> [status |-> "none", key |-> 0, ship |-> FALSE,
                                   cancelJob |-> FALSE]]
    /\ job = [i \in Items |-> [status |-> "PENDING", owner |-> CHOOSE w \in Workers : TRUE,
                               lease |-> FALSE, retry |-> 0]]
    /\ local = [i \in Items |-> [booked |-> FALSE, clean |-> TRUE]]
    /\ work = [w \in Workers |-> Idle(w)]
    /\ asked = {}
    /\ shop = [refund |-> [i \in Items |-> "none"], shipping |-> FALSE, cancel |-> "no",
               ended |-> FALSE]
    /\ staff = 0

-----------------------------------------------------------------------------
(* Helpers *)

At(w, pc) == work[w].pc = pc
It(w) == work[w].item

Goto(w, pc) == work' = [work EXCEPT ![w].pc = pc]
Outcome(w, outcome) == work' = [work EXCEPT ![w].pc = "finish", ![w].outcome = outcome]

Rows == <<item, attempt, job, local>>
External == <<asked, shop, staff>>

Cancelled == shop.cancel \in {"cancelled", "admin"}
Refunded(i) == shop.refund[i] # "none"

\* Children of one order are refunded one after the other.
SiblingActive(i) == \E j \in Items \ {i} : attempt[j].status \in Active

\* The generation the worker claimed is still the current one.
Owns(w) == job[It(w)].status = "PROCESSING" /\ job[It(w)].owner = w

-----------------------------------------------------------------------------
(* The executor: customer-cancellation-auto-refund-executor.service.ts *)

\* A waiting job, or one whose lease ran out; maxRetries is not looked at.
Claim(w, i) ==
    /\ At(w, "idle")
    /\ \/ job[i].status \in {"PENDING", "RETRY_SCHEDULED"}
       \/ job[i].status = "PROCESSING" /\ ~job[i].lease
    /\ LET n == IF job[i].retry < MaxRetries THEN job[i].retry + 1 ELSE MaxRetries
       IN  /\ job' = [job EXCEPT ![i] = [status |-> "PROCESSING", owner |-> w,
                                         lease |-> TRUE, retry |-> n]]
           /\ work' = [work EXCEPT ![w] = [Idle(w) EXCEPT !.pc = "reconcile", !.item = i,
                                                          !.attempt = n]]
    /\ UNCHANGED <<item, attempt, local, External>>

Heartbeat(w) ==
    /\ ~At(w, "idle") /\ Owns(w)
    /\ ~job[It(w)].lease
    /\ job' = [job EXCEPT ![It(w)].lease = TRUE]
    /\ UNCHANGED <<item, attempt, local, work, External>>

\* Mutant: one claim more than maxRetries is waited for.
ExhaustedLater(w) == work[w].attempt > MaxRetries

Exhausted(w) == work[w].attempt >= MaxRetries

\* Mutant: the outcome itself is written as the status.
FinishAsReported(w) ==
    /\ At(w, "finish")
    /\ job' = IF Owns(w)
              THEN [job EXCEPT ![It(w)].lease = FALSE, ![It(w)].status = work[w].outcome]
              ELSE job
    /\ work' = [work EXCEPT ![w] = Idle(w)]
    /\ UNCHANGED <<item, attempt, local, External>>

Finish(w) ==
    /\ At(w, "finish")
    /\ job' = IF Owns(w)
              THEN [job EXCEPT ![It(w)].lease = FALSE,
                               ![It(w)].status =
                     CASE work[w].outcome = "COMPLETED" -> "COMPLETED"
                       [] work[w].outcome = "TERMINAL_EXCEPTION" -> "FAILED"
                       [] OTHER -> IF Exhausted(w) THEN "FAILED" ELSE "RETRY_SCHEDULED"]
              ELSE job
    /\ work' = [work EXCEPT ![w] = Idle(w)]
    /\ UNCHANGED <<item, attempt, local, External>>

-----------------------------------------------------------------------------
(* reconcileCustomerCancellationItemFromCanonicalRefunds *)

\* Mutant: the shipping alone is compared.
VerifiedShipping(i) == attempt[i].ship = shop.shipping

\* Exactly one refund has the line, and all shipping refunded so far is what
\* the attempt intended.
Verified(i) == Refunded(i) /\ attempt[i].ship = shop.shipping

\* Before anything else, and again after the answer to a refund.  A read that
\* fails, or that does not show the refund yet, verifies nothing.
ReconcileRead(w, pc) ==
    /\ At(w, pc)
    /\ \/ item[It(w)] = "REFUNDED_AWAITING_ORDER_CANCEL" /\ Goto(w, "cancelRead")
       \/ item[It(w)] = "APPROVED_FOR_REFUND" /\ Verified(It(w)) /\ Goto(w, "commit")
       \/ item[It(w)] # "REFUNDED_AWAITING_ORDER_CANCEL" /\ pc = "reconcile" /\ Goto(w, "classify")
       \/ item[It(w)] # "REFUNDED_AWAITING_ORDER_CANCEL" /\ Outcome(w, "RETRYABLE")
    /\ UNCHANGED <<Rows, External>>

Reconcile(w) == ReconcileRead(w, "reconcile") \/ ReconcileRead(w, "verify")

\* Mutant: the status of the child is not read again under the lock.
ResolveUnseen(i) ==
    /\ item' = [item EXCEPT ![i] = "REFUNDED_AWAITING_ORDER_CANCEL"]
    /\ attempt' = [attempt EXCEPT ![i].status = "RESOLVED"]

\* The transition of the child and its attempt, under the order lock.
Resolve(i) ==
    IF item[i] = "APPROVED_FOR_REFUND"
    THEN /\ item' = [item EXCEPT ![i] = "REFUNDED_AWAITING_ORDER_CANCEL"]
         /\ attempt' = [attempt EXCEPT ![i].status = "RESOLVED"]
    ELSE UNCHANGED <<item, attempt>>

ReconcileCommit(w) ==
    /\ At(w, "commit")
    /\ Resolve(It(w))
    /\ Goto(w, "cancelRead")
    /\ UNCHANGED <<job, local, External>>

-----------------------------------------------------------------------------
(* classifyCustomerCancellationAutoRefundEligibility, before the approval and *)
(* again after it, and the approval between the two.                          *)

ClassifyLocal(w, pc, next) ==
    LET i == It(w)
    IN  /\ At(w, pc)
        /\ \/ /\ item[i] \notin Processable \/ ~local[i].clean \/ local[i].booked
              /\ Outcome(w, "TERMINAL_EXCEPTION")
           \/ /\ item[i] \in Processable /\ ~local[i].booked /\ SiblingActive(i)
              /\ Outcome(w, "RETRYABLE")
           \/ /\ item[i] \in Processable /\ ~local[i].booked /\ ~SiblingActive(i)
              /\ Goto(w, next)
        /\ UNCHANGED <<Rows, External>>

Classify(w) == ClassifyLocal(w, "classify", "canonical")
Reclassify(w) == ClassifyLocal(w, "reclassify", "submit")

\* Shopify shows the line neither cancelled, nor refunded, nor anything else
\* that stands against its refund.
Refundable(i) == local[i].clean /\ ~Refunded(i) /\ ~Cancelled
RefundableShipping == ShippingPaid /\ ~shop.shipping

\* Shopify cannot be read, or what it shows forbids the refund.
CanonicalRefuses(w) ==
    \/ Outcome(w, "RETRYABLE")
    \/ ~Refundable(It(w)) /\ Outcome(w, "TERMINAL_EXCEPTION")

ReadCanonical(w) ==
    /\ At(w, "canonical")
    /\ \/ CanonicalRefuses(w)
       \/ /\ Refundable(It(w))
          /\ work' = [work EXCEPT ![w].pc = "approve", ![w].ship = RefundableShipping]
    /\ UNCHANGED <<Rows, External>>

\* An attempt that exists is kept as it is.
Upsert(i, w) ==
    IF attempt[i].status = "none"
    THEN [status |-> "READY_TO_SUBMIT", key |-> 1, ship |-> work[w].ship, cancelJob |-> FALSE]
    ELSE attempt[i]

\* approveAndCreateAttempt, under the order lock.  It looks at some of what
\* keeps the allocation from being clean, and throws.
Approve(w) ==
    LET i == It(w)
    IN  /\ At(w, "approve")
        /\ \/ /\ item[i] \notin Processable \/ SiblingActive(i) \/ ~local[i].clean
              /\ Outcome(w, "RETRYABLE")
              /\ UNCHANGED <<item, attempt>>
           \/ /\ item[i] \in Processable /\ ~SiblingActive(i)
              /\ item' = [item EXCEPT ![i] = "APPROVED_FOR_REFUND"]
              /\ attempt' = [attempt EXCEPT ![i] = Upsert(i, w)]
              /\ IF attempt[i].status = "SHOPIFY_ACTION_PENDING"
                 THEN Outcome(w, "RETRYABLE")
                 ELSE work' = [work EXCEPT ![w].pc = "reclassify", ![w].ship = FALSE]
        /\ UNCHANGED <<job, local, External>>

\* The second reading of Shopify, and the request.  A repeated key is the same request.
Submit(w) ==
    LET i == It(w)
        Same == {r \in asked : r.item = i /\ r.key = attempt[i].key}
    IN  /\ At(w, "submit")
        /\ \/ CanonicalRefuses(w) /\ UNCHANGED asked
           \/ /\ Refundable(i)
              /\ asked' = IF Same # {} THEN asked
                          ELSE asked \union {[item |-> i, key |-> attempt[i].key,
                                              ship |-> RefundableShipping, answer |-> "none"]}
              /\ Goto(w, "await")
        /\ UNCHANGED <<Rows, shop, staff>>

\* The answer, at whatever time it is read.  What it says of the attempt is
\* written without a condition, and replaces what was kept of a cancellation.
Answer(w) ==
    LET i == It(w)
    IN  /\ At(w, "await")
        /\ \/ Outcome(w, "RETRYABLE") /\ UNCHANGED attempt
           \/ \E r \in asked :
                 /\ r.item = i /\ r.key = attempt[i].key /\ r.answer # "none"
                 /\ attempt' = [attempt EXCEPT ![i].cancelJob = FALSE,
                                               ![i].status = IF r.answer = "refunded"
                                                             THEN "SHOPIFY_ACTION_PENDING"
                                                             ELSE "FAILED"]
                 /\ IF r.answer = "refunded"
                    THEN Goto(w, "verify")
                    ELSE Outcome(w, "TERMINAL_EXCEPTION")
        /\ UNCHANGED <<item, job, local, External>>

-----------------------------------------------------------------------------
(* processCustomerCancellationOrderCancel *)

\* The child, its attempt and the order are read.  Nobody looks at the siblings.
CancelRead(w) ==
    LET i == It(w)
    IN  /\ At(w, "cancelRead")
        /\ \/ item[i] # "REFUNDED_AWAITING_ORDER_CANCEL" /\ Outcome(w, "COMPLETED")
           \/ item[i] = "REFUNDED_AWAITING_ORDER_CANCEL" /\ Outcome(w, "RETRYABLE")
           \/ /\ item[i] = "REFUNDED_AWAITING_ORDER_CANCEL"
              /\ Goto(w, IF Cancelled THEN "finalize"
                         ELSE IF attempt[i].cancelJob THEN "poll" ELSE "cancel")
        /\ UNCHANGED <<Rows, External>>

\* The orderCancel request: accepted and heard, accepted and lost, refused, or
\* never arrived.  Whatever is heard is kept next.
CancelOrder(w) ==
    /\ At(w, "cancel")
    /\ \/ /\ shop.cancel = "no"
          /\ shop' = [shop EXCEPT !.cancel = "running"]
          /\ Goto(w, "persist") \/ Outcome(w, "RETRYABLE")
       \/ /\ work' = [work EXCEPT ![w].pc = "persist", ![w].outcome = "TERMINAL_EXCEPTION"]
          /\ UNCHANGED shop
       \/ Outcome(w, "RETRYABLE") /\ UNCHANGED shop
    /\ UNCHANGED <<Rows, asked, staff>>

Persist(w) ==
    LET accepted == work[w].outcome = "none"
    IN  /\ At(w, "persist")
        /\ attempt' = [attempt EXCEPT ![It(w)].cancelJob = accepted]
        /\ Goto(w, IF accepted THEN "poll" ELSE "finish")
        /\ UNCHANGED <<item, job, local, External>>

\* The job whose id is kept may be one that ended before the job now running.
\* A job that is done without a cancellation is an exception.  The id is written
\* again with what is heard, unless that write fails.
Poll(w) ==
    /\ At(w, "poll")
    /\ \/ Outcome(w, "RETRYABLE") /\ UNCHANGED attempt
       \/ /\ attempt' = [attempt EXCEPT ![It(w)].cancelJob = TRUE]
          /\ \/ Outcome(w, "RETRYABLE")
             \/ Cancelled /\ Goto(w, "finalize")
             \/ ~Cancelled /\ shop.ended /\ Outcome(w, "TERMINAL_EXCEPTION")
    /\ UNCHANGED <<item, job, local, External>>

\* Under the order lock; the job is completed whoever holds it.
Finalize(w) ==
    LET i == It(w)
    IN  /\ At(w, "finalize")
        /\ IF item[i] = "REFUNDED_AWAITING_ORDER_CANCEL"
           THEN /\ item' = [item EXCEPT ![i] = "APPROVED"]
                /\ job' = [job EXCEPT ![i].status = "COMPLETED", ![i].lease = FALSE]
           ELSE UNCHANGED <<item, job>>
        /\ Outcome(w, "COMPLETED")
        /\ UNCHANGED <<attempt, local, External>>

-----------------------------------------------------------------------------
(* Around the executor *)

\* refunds/create, under the order lock.  The first delivery books the refund
\* and resolves a submitted attempt, before it looks for children whose attempt
\* is submitted; a later one, or one that is kept for review, only looks for these.
RefundWebhook(i) ==
    /\ Refunded(i)
    /\ LET submitted == attempt[i].status = "SHOPIFY_ACTION_PENDING"
       IN  \/ /\ ~local[i].booked
              /\ local' = [local EXCEPT ![i].booked = TRUE]
              /\ attempt' = IF submitted
                            THEN [attempt EXCEPT ![i].status = "RESOLVED"] ELSE attempt
              /\ UNCHANGED item
           \/ /\ submitted /\ ~attempt[i].ship /\ item[i] = "APPROVED_FOR_REFUND"
              /\ Resolve(i)
              /\ UNCHANGED local
    /\ UNCHANGED <<job, work, External>>

Intervene == staff < MaxStaff /\ staff' = staff + 1

\* Something else comes to stand against the refund: a shipment, a return, a
\* reassignment, a settlement, another refund attempt.
Spoil(i) ==
    /\ Intervene
    /\ local[i].clean
    /\ local' = [local EXCEPT ![i].clean = FALSE]
    /\ UNCHANGED <<item, attempt, job, work, asked, shop>>

\* The process dies; what it had sent goes on.
Crash(w) ==
    /\ ~At(w, "idle")
    /\ work' = [work EXCEPT ![w] = Idle(w)]
    /\ UNCHANGED <<Rows, External>>

\* The worker that owns the job is still at it.
Attended(i) == LET w == job[i].owner IN ~At(w, "idle") /\ It(w) = i

Expire(i) ==
    /\ job[i].status = "PROCESSING" /\ job[i].lease
    /\ job' = [job EXCEPT ![i].lease = FALSE]
    /\ UNCHANGED <<item, attempt, local, work, External>>

-----------------------------------------------------------------------------
(* Shopify (external) *)

\* A request is carried out once, early or late.  Shopify refunds a line and
\* the shipping once, and may refuse for reasons of its own.
Process(r) ==
    /\ r \in asked /\ r.answer = "none"
    /\ \E answer \in {"refunded", "rejected"} :
         /\ answer = "refunded" => ~Refunded(r.item) /\ (r.ship => ~shop.shipping)
         /\ asked' = (asked \ {r}) \union {[r EXCEPT !.answer = answer]}
         /\ shop' = IF answer = "refunded"
                    THEN [shop EXCEPT !.refund[r.item] = "saga", !.shipping = @ \/ r.ship]
                    ELSE shop
    /\ UNCHANGED <<Rows, work, staff>>

CancelEnds ==
    /\ shop.cancel = "running"
    /\ \E cancel \in {"no", "cancelled"} :
         shop' = [shop EXCEPT !.cancel = cancel, !.ended = TRUE]
    /\ UNCHANGED <<Rows, work, asked, staff>>

\* The staff of the shop refund a line, with or without the shipping, or cancel.
AdminRefund(i) ==
    /\ Intervene
    /\ ~Refunded(i)
    /\ \E ship \in {FALSE, RefundableShipping} :
         shop' = [shop EXCEPT !.refund[i] = "admin", !.shipping = @ \/ ship]
    /\ UNCHANGED <<Rows, work, asked>>

AdminCancel ==
    /\ Intervene
    /\ ~Cancelled
    /\ shop' = [shop EXCEPT !.cancel = "admin", !.ended = @ \/ shop.cancel = "running"]
    /\ UNCHANGED <<Rows, work, asked>>

-----------------------------------------------------------------------------
(* The specification *)

Attempt(w) ==
    \/ Reconcile(w) \/ ReconcileCommit(w)
    \/ Classify(w) \/ ReadCanonical(w) \/ Approve(w) \/ Reclassify(w)
    \/ Submit(w) \/ Answer(w)
    \/ CancelRead(w) \/ CancelOrder(w) \/ Persist(w) \/ Poll(w) \/ Finalize(w)
    \/ Finish(w)

Worker(w) == (\E i \in Items : Claim(w, i)) \/ Heartbeat(w) \/ Attempt(w) \/ Crash(w)

Shopify ==
    \/ (\E r \in asked : Process(r)) \/ CancelEnds
    \/ (\E i \in Items : AdminRefund(i)) \/ AdminCancel

Next ==
    \/ \E w \in Workers : Worker(w)
    \/ \E i \in Items : RefundWebhook(i) \/ Spoil(i) \/ Expire(i)
    \/ Shopify

Spec == Init /\ [][Next]_vars

\* From some time on no process dies, and heartbeats arrive in time.
Calm ==
    <>[][/\ \A w \in Workers : ~Crash(w)
         /\ \A i \in Items : Expire(i) => ~Attended(i)]_vars

\* Executors poll, an attempt moves on (every request has a deadline), and an
\* unattended lease runs out.
Fairness ==
    /\ \A i \in Items : SF_vars(\E w \in Workers : Claim(w, i))
    /\ \A w \in Workers : WF_vars(Attempt(w))
    /\ \A i \in Items : WF_vars(Expire(i) /\ ~Attended(i))

FairSpec == Spec /\ Calm /\ Fairness

-----------------------------------------------------------------------------
(* Properties *)

\* The child's line has been refunded, and the shipping if its attempt meant to.
Returned(i) == Refunded(i) /\ (attempt[i].ship => shop.shipping)

\* What the rows say is so at Shopify.  A child counts as refunded only when its
\* money was returned; it is APPROVED only with the order cancelled, together with
\* its job; an attempt is submitted or resolved only with the refund made, and FAILED
\* only when this child's own refund was not, whatever replaced workers wrote late.
\* When a child is APPROVED, and whether the shipping is returned, docs disagree: the
\* code and this property follow docs/SHOPIFY_DISCOVERIES.md:620 and 626 (after the
\* cancellation, with the shipping); docs/API_CONTRACTS.md:943 says at the verified
\* refund, and without it.
RowsAreTrue ==
    \A i \in Items :
      /\ item[i] \in {"REFUNDED_AWAITING_ORDER_CANCEL", "APPROVED"} => Returned(i)
      /\ item[i] = "APPROVED" => Cancelled
      /\ item[i] = "APPROVED" <=> job[i].status = "COMPLETED"
      /\ attempt[i].status = "SHOPIFY_ACTION_PENDING" => shop.refund[i] = "saga"
      /\ attempt[i].status = "RESOLVED" => Refunded(i)
      /\ attempt[i].status = "FAILED" => shop.refund[i] # "saga"

\* Whoever is about to cancel the order does it for a child whose money was
\* returned, even if it has been replaced in the meantime.
CancelFollowsRefund == \A w \in Workers : At(w, "cancel") => Returned(It(w))

\* Every child is carried through or handed to the Admin, and stays there:
\* no child is retried forever, and none is left in the hands of a dead worker.
EveryCancellationEnds ==
    \A i \in Items : <>[](job[i].status \in {"COMPLETED", "FAILED"})

\* docs/API_CONTRACTS.md:942: "an active sibling defers/retries instead of
\* becoming a terminal conflict, and the next child re-fetches canonical refund
\* authority before mutation".  A child that could be refunded, in an order
\* the staff did not touch, is given up only when its retries are used up.
SiblingDefers ==
    \A i \in Items :
      job[i].status = "FAILED" /\ item[i] = "PENDING" /\ local[i].clean /\ ~Refunded(i)
        => shop.cancel = "admin" \/ job[i].retry = MaxRetries

=============================================================================
