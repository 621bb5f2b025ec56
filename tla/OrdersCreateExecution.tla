------------------------ MODULE OrdersCreateExecution ------------------------
(***************************************************************************)
(* Fenced execution of Shopify orders/create deliveries.                   *)
(*                                                                         *)
(* The webhook route persists a delivery as a WebhookEvent row and answers *)
(* at once.  Executor processes, and operators through the recovery        *)
(* endpoint, claim a row with one conditional UPDATE, which opens a new    *)
(* generation under a lease, work on it while a heartbeat renews the       *)
(* lease, and commit the order and the row in one transaction that checks  *)
(* generation and lease again.  A process may die, lose its lease or its   *)
(* database connection at every step.  Current-State Repair creates the    *)
(* same orders under the same order-wide transaction lock.                 *)
(*                                                                         *)
(* Each action is one database statement or transaction, or one step of a  *)
(* process between two of them.  The ingestion transaction is one action:  *)
(* it holds the order lock and the row lock from its check to its commit.  *)
(* A deadline is kept as the time left until it (0: passed), so that time  *)
(* needs no bound.                                                         *)
(***************************************************************************)
EXTENDS Integers

CONSTANTS Events,        \* orders/create deliveries (rows of WebhookEvent)
          NoEvent,       \* not a delivery
          Legacy,        \* rows the synchronous route left behind, unenrolled
          Orders,        \* Shopify orders
          OrderOf,       \* the order in the payload of each delivery
          Executors,     \* executor processes, one attempt at a time each
          Admins,        \* concurrent calls of the recovery endpoint
          MaxAttempts,   \* executionMaxAttempts
          LeaseTicks,    \* SHOPIFY_ORDERS_CREATE_LEASE_MS
          BackoffTicks   \* the 60 seconds of the first retry delay

ASSUME ConstantsAssumption ==
    /\ NoEvent \notin Events
    /\ Legacy \subseteq Events
    /\ OrderOf \in [Events -> Orders]
    /\ Executors \cap Admins = {}
    /\ MaxAttempts \in Nat \ {0}
    /\ LeaseTicks \in Nat \ {0}
    /\ BackoffTicks \in Nat \ {0}
    /\ \A n \in 0..MaxAttempts : BackoffTicks * 2^n \in Nat

VARIABLES inbox,     \* the WebhookEvent rows
          creator,   \* who created the local ShopifyOrder of each order
          own,       \* the attempt each executor and operator is running
          job,       \* the OperationalJob that mirrors each event
          plan       \* the local state the repairs in progress have inspected

vars == <<inbox, creator, own, job, plan>>

Owners == Executors \cup Admins

NoTime == -1         \* NULL in a timestamp column

-----------------------------------------------------------------------------
(* Rows *)

Status == {"ABSENT", "RECEIVED", "PROCESSING", "PROCESSED", "FAILED"}

\* enrolled: sourceShopifyOrderId is set; avail: executionAvailableAt;
\* lease: processingLeaseExpiresAt.
Row(status, enrolled, avail) ==
    [status |-> status, enrolled |-> enrolled, avail |-> avail,
     attempts |-> 0, gen |-> 0, lease |-> NoTime]

Rows == [status : Status, enrolled : BOOLEAN, avail : Nat \cup {NoTime},
         attempts : Nat, gen : Nat, lease : Nat \cup {NoTime}]

Creators == {"nobody", "intake", "repair"}

Waiting(r) == r.status \in {"RECEIVED", "FAILED"}

\* Mutant: a NULL availability counts as due.
DueWhenNull(r) ==
    \/ Waiting(r) /\ r.avail <= 0
    \/ r.status = "PROCESSING" /\ r.lease = 0

\* claimPredicate: the row is due for one of the three automatic claims.
Due(r) ==
    \/ Waiting(r) /\ r.avail = 0
    \/ r.status = "PROCESSING" /\ r.lease = 0

\* Mutant: the automatic claim forgets the attempt budget.
ClaimableBeyondBudget(r) == r.enrolled /\ Due(r)

\* The WHERE clause of the automatic claim.
Claimable(r) == r.enrolled /\ r.attempts < MaxAttempts /\ Due(r)

\* Mutant: an off-by-one leaves the last expired attempt to nobody.
ExhaustedBeyondBudget(r) ==
    r.status = "PROCESSING" /\ r.enrolled /\ r.lease = 0 /\ r.attempts > MaxAttempts

\* An expired attempt that was the last one allowed.
Exhausted(r) ==
    r.status = "PROCESSING" /\ r.enrolled /\ r.lease = 0 /\ r.attempts >= MaxAttempts

\* Mutant: a claim keeps the generation of the attempt it replaces.
ClaimedSameGeneration(r) ==
    [status |-> "PROCESSING", enrolled |-> TRUE, avail |-> NoTime,
     attempts |-> r.attempts + 1, gen |-> r.gen, lease |-> LeaseTicks]

\* The row after a claim, automatic or by an operator.
Claimed(r) ==
    [status |-> "PROCESSING", enrolled |-> TRUE, avail |-> NoTime,
     attempts |-> r.attempts + 1, gen |-> r.gen + 1, lease |-> LeaseTicks]

\* The row after a failure, to be retried after a or never (NoTime).
Failed(r, a) == [r EXCEPT !.status = "FAILED", !.lease = NoTime, !.avail = a]

\* 60 seconds, doubled with every attempt made.
Backoff(attempts) == BackoffTicks * 2^(IF attempts > 0 THEN attempts - 1 ELSE 0)

\* Mutant: the last attempt still schedules a retry.
RetryAfterLastAttempt(r) ==
    IF r.attempts <= MaxAttempts THEN Backoff(r.attempts) ELSE NoTime

\* When a retryable failure is tried again: never after the last attempt.
RetryAfter(r) == IF r.attempts < MaxAttempts THEN Backoff(r.attempts) ELSE NoTime

\* isActionableOrdersCreateIntake
IsActionable(r) ==
    /\ r.enrolled
    /\ r.attempts < MaxAttempts
    /\ \/ Waiting(r) /\ r.avail # NoTime
       \/ r.status = "PROCESSING" /\ r.lease # NoTime

-----------------------------------------------------------------------------
(* Attempts *)

Pc == {"idle", "read", "claimed", "fetching", "ingesting",
       "retryable", "terminal", "committed", "mirroring"}

\* failed stands for the job states failed and permanently_failed.
JobState == {"none", "processing", "retrying", "retry_scheduled",
             "completed", "failed", "dead_letter_ready"}

\* seen: the status an operator read; legacy: the row was unenrolled then;
\* mirror: the state the next write of the job will give it.
Idle == [pc |-> "idle", ev |-> NoEvent, gen |-> 0, aborted |-> FALSE,
         seen |-> "ABSENT", legacy |-> FALSE, mirror |-> "none"]

Attempts == {a \in [pc : Pc, ev : Events \cup {NoEvent}, gen : Nat, aborted : BOOLEAN,
                    seen : Status, legacy : BOOLEAN, mirror : JobState] :
                a.pc # "idle" => a.ev \in Events}

\* Failure dispositions of classifyOrderIngestionException.
Disposition == {"retryable", "terminal"}

Active(o) == own[o].pc \in {"claimed", "fetching", "ingesting"} \cup Disposition

RowOf(o) == inbox[own[o].ev]

\* Mutant: the fence is the lease alone.
FencedByLease(o) ==
    RowOf(o).status = "PROCESSING" /\ RowOf(o).enrolled /\ RowOf(o).lease > 0

\* The WHERE clause every write of an owner carries: still the current
\* generation, and the lease has not run out.
Fenced(o) ==
    /\ RowOf(o).status = "PROCESSING"
    /\ RowOf(o).enrolled
    /\ RowOf(o).gen = own[o].gen
    /\ RowOf(o).lease > 0

\* Mutant: ingestion in the upsert mode, which takes an existing order over.
OrderExistsUnchecked(o) == FALSE

\* missing_order_only: the order of this attempt has a local copy already.
OrderExists(o) == creator[OrderOf[own[o].ev]] # "nobody"

SetRow(e, r) == inbox' = [inbox EXCEPT ![e] = r]
SetOwn(o, a) == own' = [own EXCEPT ![o] = a]
Goto(o, pc) == SetOwn(o, [own[o] EXCEPT !.pc = pc])
Stop(o) == SetOwn(o, Idle)

\* Only executors mirror the event into its job, and the write may fail.
Mirrored(o, state) ==
    \/ o \in Executors /\ job' = [job EXCEPT ![own[o].ev] = state]
    \/ UNCHANGED job

\* What an attempt does once process() has returned a failure.  An executor
\* whose heartbeat was rejected, or which is being shut down, writes nothing;
\* the recovery of a legacy row never schedules a retry.
Verdict(o, d) ==
    IF o \in Executors /\ own[o].aborted
    THEN Idle
    ELSE [own[o] EXCEPT !.pc = IF own[o].legacy THEN "terminal" ELSE d]

-----------------------------------------------------------------------------
(* Intake *)

\* The route persists and enrolls a new delivery in one transaction.  A
\* redelivery of a known one finds the unique key taken and changes nothing.
Receive(e) ==
    /\ inbox[e].status = "ABSENT"
    /\ SetRow(e, Row("RECEIVED", TRUE, 0))
    /\ UNCHANGED <<creator, own, job, plan>>

-----------------------------------------------------------------------------
(* Claims *)

\* An executor cycle takes a due row over, an expired PROCESSING one included.
ClaimDue(x, e) ==
    /\ own[x].pc = "idle"
    /\ Claimable(inbox[e])
    /\ SetRow(e, Claimed(inbox[e]))
    /\ SetOwn(x, [Idle EXCEPT !.pc = "claimed", !.ev = e, !.gen = Claimed(inbox[e]).gen,
                              !.mirror = IF inbox[e].attempts > 0
                                         THEN "retrying" ELSE "processing"])
    /\ UNCHANGED <<creator, job, plan>>

\* An executor cycle ends an expired attempt that was the last one allowed.
FenceExhausted(x, e) ==
    /\ own[x].pc = "idle"
    /\ Exhausted(inbox[e])
    /\ SetRow(e, [Failed(inbox[e], NoTime) EXCEPT !.gen = @ + 1])
    /\ SetOwn(x, [Idle EXCEPT !.pc = "mirroring", !.ev = e,
                              !.mirror = "dead_letter_ready"])
    /\ UNCHANGED <<creator, job, plan>>

\* An operator asks for recovery: the row is read and found recoverable.
AdminRead(a, e) ==
    /\ own[a].pc = "idle"
    /\ Waiting(inbox[e])
    /\ inbox[e].attempts < MaxAttempts
    /\ SetOwn(a, [Idle EXCEPT !.pc = "read", !.ev = e, !.seen = inbox[e].status,
                              !.legacy = ~inbox[e].enrolled /\ inbox[e].avail = NoTime])
    /\ UNCHANGED <<inbox, creator, job, plan>>

\* Mutant: the claim of the recovery forgets the expected status.
StillAsReadIgnoringStatus(a) == RowOf(a).attempts < MaxAttempts

\* The WHERE clause of the recovery's claim: the status is the one it read.
StillAsRead(a) ==
    /\ RowOf(a).status = own[a].seen
    /\ RowOf(a).attempts < MaxAttempts

\* The claim of the recovery, or the refusal when the row has moved on.
AdminClaim(a) ==
    /\ own[a].pc = "read"
    /\ \/ /\ StillAsRead(a)
          /\ SetRow(own[a].ev, Claimed(RowOf(a)))
          /\ SetOwn(a, [own[a] EXCEPT !.pc = "claimed", !.gen = Claimed(RowOf(a)).gen])
       \/ ~StillAsRead(a) /\ Stop(a) /\ UNCHANGED inbox
    /\ UNCHANGED <<creator, job, plan>>

-----------------------------------------------------------------------------
(* One attempt *)

\* The job is mirrored, then the heartbeat starts.
StartAttempt(o) ==
    /\ own[o].pc = "claimed"
    /\ Mirrored(o, own[o].mirror)
    /\ Goto(o, "fetching")
    /\ UNCHANGED <<inbox, creator, plan>>

\* The heartbeat runs until process() has returned; that of a recovery goes on
\* during the finalization.
Beating(o) ==
    \/ own[o].pc \in {"fetching", "ingesting", "committed"}
    \/ own[o].pc \in Disposition /\ o \in Admins

\* A pulse renews the lease of the current owner; a stale one is told so.
Heartbeat(o) ==
    /\ Beating(o)
    /\ \/ /\ Fenced(o)
          /\ SetRow(own[o].ev, [RowOf(o) EXCEPT !.lease = LeaseTicks])
          /\ UNCHANGED own
       \/ /\ ~Fenced(o)
          /\ SetOwn(o, [own[o] EXCEPT !.aborted = TRUE])
          /\ UNCHANGED inbox
    /\ UNCHANGED <<creator, job, plan>>

\* A pulse fails in the database, or the drain deadline of close() passes.
AbortAttempt(o) ==
    /\ Beating(o)
    /\ SetOwn(o, [own[o] EXCEPT !.aborted = TRUE])
    /\ UNCHANGED <<inbox, creator, job, plan>>

\* Everything was fetched from Shopify; the ingestion transaction begins.
ReachIngest(o) ==
    /\ own[o].pc = "fetching"
    /\ ~own[o].aborted
    /\ Goto(o, "ingesting")
    /\ UNCHANGED <<inbox, creator, job, plan>>

\* An aborted attempt stops at the next request and writes nothing.
Abandon(o) ==
    /\ own[o].pc = "fetching"
    /\ own[o].aborted
    /\ Stop(o)
    /\ UNCHANGED <<inbox, creator, job, plan>>

\* The retained payload is unusable, the seller data cannot be fetched, or
\* the transaction fails on an unknown vendor or on the database.
AttemptFails(o) ==
    /\ own[o].pc \in {"fetching", "ingesting"}
    /\ \E d \in Disposition : SetOwn(o, Verdict(o, d))
    /\ UNCHANGED <<inbox, creator, job, plan>>

\* The transaction finds itself fenced out and rolls back.
IngestLosesFence(o) ==
    /\ own[o].pc = "ingesting"
    /\ ~Fenced(o)
    /\ Stop(o)
    /\ UNCHANGED <<inbox, creator, job, plan>>

\* Mutant: an order that exists counts as a successful ingestion.
IngestFindsOrderAsSuccess(o) ==
    /\ own[o].pc = "ingesting"
    /\ Fenced(o)
    /\ OrderExists(o)
    /\ Goto(o, "committed")
    /\ UNCHANGED <<inbox, creator, job, plan>>

\* An order that exists is left to Current-State Repair.
IngestFindsOrder(o) ==
    /\ own[o].pc = "ingesting"
    /\ Fenced(o)
    /\ OrderExists(o)
    /\ SetOwn(o, Verdict(o, "terminal"))
    /\ UNCHANGED <<inbox, creator, job, plan>>

\* The order is created and the event is PROCESSED by the same transaction;
\* the answer to its COMMIT may be lost, which looks like any other failure.
IngestCommits(o) ==
    /\ own[o].pc = "ingesting"
    /\ Fenced(o)
    /\ ~OrderExists(o)
    /\ creator' = [creator EXCEPT ![OrderOf[own[o].ev]] = "intake"]
    /\ SetRow(own[o].ev, [RowOf(o) EXCEPT !.status = "PROCESSED",
                                          !.lease = NoTime, !.avail = NoTime])
    /\ \/ Goto(o, "committed")
       \/ \E d \in Disposition : SetOwn(o, Verdict(o, d))
    /\ UNCHANGED <<job, plan>>

\* A retry is scheduled while the budget lasts; the last attempt is a dead
\* letter.  A fenced-out owner is told so and stops.
FinalizeRetryable(o) ==
    /\ own[o].pc = "retryable"
    /\ \/ /\ Fenced(o)
          /\ SetRow(own[o].ev, Failed(RowOf(o), RetryAfter(RowOf(o))))
          /\ SetOwn(o, [own[o] EXCEPT !.pc = "mirroring",
                        !.mirror = IF RetryAfter(RowOf(o)) # NoTime
                                   THEN "retry_scheduled" ELSE "dead_letter_ready"])
       \/ ~Fenced(o) /\ Stop(o) /\ UNCHANGED inbox
    /\ UNCHANGED <<creator, job, plan>>

\* Mutant: the terminal finalization updates the row by its id alone.
FinalizeTerminalUnfenced(o) ==
    /\ own[o].pc = "terminal"
    /\ SetRow(own[o].ev, Failed(RowOf(o), NoTime))
    /\ SetOwn(o, [own[o] EXCEPT !.pc = "mirroring", !.mirror = "failed"])
    /\ UNCHANGED <<creator, job, plan>>

\* No retry is scheduled whatever the budget.
FinalizeTerminal(o) ==
    /\ own[o].pc = "terminal"
    /\ \/ /\ Fenced(o)
          /\ SetRow(own[o].ev, Failed(RowOf(o), NoTime))
          /\ SetOwn(o, [own[o] EXCEPT !.pc = "mirroring", !.mirror = "failed"])
       \/ ~Fenced(o) /\ Stop(o) /\ UNCHANGED inbox
    /\ UNCHANGED <<creator, job, plan>>

\* A success is mirrored only if no heartbeat was rejected meanwhile.
ReportCommit(o) ==
    /\ own[o].pc = "committed"
    /\ \/ ~own[o].aborted /\ Mirrored(o, "completed")
       \/ own[o].aborted /\ UNCHANGED job
    /\ Stop(o)
    /\ UNCHANGED <<inbox, creator, plan>>

\* The outcome written by a finalizer reaches the job later, or never.
MirrorOutcome(o) ==
    /\ own[o].pc = "mirroring"
    /\ Mirrored(o, own[o].mirror)
    /\ Stop(o)
    /\ UNCHANGED <<inbox, creator, plan>>

\* The process dies, or a finalizer fails in the database.
Crash(o) ==
    /\ own[o].pc # "idle"
    /\ Stop(o)
    /\ UNCHANGED <<inbox, creator, job, plan>>

-----------------------------------------------------------------------------
(* Current-State Repair *)

\* Local state as inspected before the transaction.
View(s) == IF creator[s] = "nobody" THEN "missing" ELSE "existing"

\* An operator executes a repair: local state is inspected.  The intake is read
\* after that, with no lock held, so what it shows is known by the next step.
RepairInspect(s) ==
    /\ plan' = [plan EXCEPT ![s] = @ \cup {View(s)}]
    /\ UNCHANGED <<inbox, creator, own, job>>

\* One repair with the view v ends; others may go on with the same view.
RepairEnds(s, v) ==
    /\ v \in plan[s]
    /\ plan' \in {plan, [plan EXCEPT ![s] = @ \ {v}]}

\* Mutant: a repair trusts the local state it inspected.
RepairExecuteStalePlan(s) ==
    /\ \A e \in Events : OrderOf[e] = s => ~IsActionable(inbox[e])
    /\ \E v \in plan[s] :
          /\ creator' = [creator EXCEPT ![s] = IF v = "missing" THEN "repair" ELSE @]
          /\ RepairEnds(s, v)
    /\ UNCHANGED <<inbox, own, job>>

\* Under the order lock both are checked again; a missing order is created,
\* an existing one is brought up to date.
RepairExecute(s) ==
    /\ \A e \in Events : OrderOf[e] = s => ~IsActionable(inbox[e])
    /\ RepairEnds(s, View(s))
    /\ creator' = [creator EXCEPT ![s] = IF @ = "nobody" THEN "repair" ELSE @]
    /\ UNCHANGED <<inbox, own, job>>

\* Intake became actionable, the view is stale, or the transaction failed.
RepairRefused(s) ==
    /\ \E v \in plan[s] : RepairEnds(s, v)
    /\ UNCHANGED <<inbox, creator, own, job>>

-----------------------------------------------------------------------------
(* Time *)

\* Mutant: a deadline that has passed keeps running.
SoonerPastZero(t) == t - 1

Sooner(t) == IF t > 0 THEN t - 1 ELSE t

Tick ==
    /\ \E e \in Events : inbox[e].lease > 0 \/ inbox[e].avail > 0
    /\ inbox' = [e \in Events |-> [inbox[e] EXCEPT !.lease = Sooner(@),
                                                   !.avail = Sooner(@)]]
    /\ UNCHANGED <<creator, own, job, plan>>

-----------------------------------------------------------------------------
(* Specification *)

\* The synchronous route left some rows behind, in every state it can leave.
Init ==
    /\ inbox \in {f \in [Events -> {Row(s, FALSE, NoTime) : s \in Status \ {"PROCESSED"}}] :
                    \A e \in Events : f[e].status = "ABSENT" <=> e \notin Legacy}
    /\ creator = [s \in Orders |-> "nobody"]
    /\ own = [o \in Owners |-> Idle]
    /\ job = [e \in Events |-> "none"]
    /\ plan = [s \in Orders |-> {}]

\* What an attempt does by itself, without faults.
Progress(o) ==
    \/ StartAttempt(o) \/ ReachIngest(o) \/ Abandon(o) \/ AttemptFails(o)
    \/ IngestLosesFence(o) \/ IngestFindsOrder(o) \/ IngestCommits(o)
    \/ FinalizeRetryable(o) \/ FinalizeTerminal(o)
    \/ ReportCommit(o) \/ MirrorOutcome(o)

Next ==
    \/ \E e \in Events : Receive(e)
    \/ \E x \in Executors, e \in Events : ClaimDue(x, e) \/ FenceExhausted(x, e)
    \/ \E a \in Admins, e \in Events : AdminRead(a, e)
    \/ \E a \in Admins : AdminClaim(a)
    \/ \E o \in Owners : Progress(o) \/ Heartbeat(o) \/ AbortAttempt(o) \/ Crash(o)
    \/ \E s \in Orders : RepairInspect(s) \/ RepairExecute(s) \/ RepairRefused(s)
    \/ Tick

Spec == Init /\ [][Next]_vars

\* Time passes; some executor polls on (a process that dies is restarted);
\* requests have deadlines and statements return, so an attempt moves on.
Fairness ==
    /\ WF_vars(Tick)
    /\ \A e \in Events : WF_vars(\E x \in Executors : ClaimDue(x, e) \/ FenceExhausted(x, e))
    /\ \A o \in Owners : WF_vars(Progress(o))

FairSpec == Spec /\ Fairness

-----------------------------------------------------------------------------
(* Properties *)

\* Rows, attempts, jobs and plans have the shape the schema and the code give
\* them, and a deadline never runs below "passed".
TypeOK ==
    /\ inbox \in [Events -> Rows]
    /\ creator \in [Orders -> Creators]
    /\ own \in [Owners -> Attempts]
    /\ job \in [Events -> JobState]
    /\ plan \in [Orders -> SUBSET {"missing", "existing"}]

\* Of all the attempts at work on one event, takeovers and recoveries included,
\* no two hold the same generation, and none is ahead of the row: at most one
\* can pass the fence of the ownership service.
AtMostOneWriter ==
    \A o, p \in Owners :
        /\ Active(o) => own[o].gen <= RowOf(o).gen
        /\ Active(o) /\ Active(p) /\ own[o].ev = own[p].ev /\ own[o].gen = own[p].gen
           => o = p

\* finalizeFencedOrdersCreateSuccess: an event is PROCESSED exactly when its
\* own transaction created the order, and no order has two such events.
ProcessedCreatedTheOrder ==
    /\ \A e \in Events : inbox[e].status = "PROCESSED" => creator[OrderOf[e]] = "intake"
    /\ \A s \in Orders : creator[s] = "intake" =>
           \E e \in Events : OrderOf[e] = s /\ inbox[e].status = "PROCESSED"
    /\ \A e, f \in Events : /\ inbox[e].status = "PROCESSED"
                            /\ inbox[f].status = "PROCESSED"
                            /\ OrderOf[e] = OrderOf[f]
                            => e = f

\* Retained payloads never rewrite an order: whoever created the local copy,
\* an attempt of intake or a repair, no other creation follows.
OrderCreatedOnce ==
    [][\A s \in Orders : creator[s] # "nobody" => creator'[s] = creator[s]]_vars

\* A PROCESSED event is a successful duplicate for ever: no late owner, no
\* takeover and no recovery changes the row again.
ProcessedIsFinal ==
    [][\A e \in Events : inbox[e].status = "PROCESSED" => inbox'[e] = inbox[e]]_vars

\* An owner that was replaced, or whose lease ran out, changes neither the
\* event nor an order, whatever it was in the middle of.
ReplacedOwnerIsHarmless ==
    [][\A o \in Owners :
          /\ Active(o)
          /\ RowOf(o).gen # own[o].gen \/ RowOf(o).lease <= 0
          /\ own'[o] # own[o]
          => UNCHANGED <<inbox, creator>>]_vars

\* A dead letter, a terminal failure and a row of the synchronous route wait
\* for an operator: only the recovery endpoint sets them to work again.
DeadLetterStaysManual ==
    [][\A e \in Events :
          /\ Waiting(inbox[e]) /\ inbox[e].avail = NoTime
          /\ inbox'[e].status = "PROCESSING"
          => \E a \in Admins : own[a].pc = "read" /\ own[a].ev = e /\ own'[a].pc = "claimed"]_vars

\* A scheduled retry is one the executors will find: the row is enrolled, is
\* not being worked on, and has an attempt left.
NoStrandedRetry ==
    \A e \in Events : inbox[e].avail # NoTime =>
        /\ Waiting(inbox[e])
        /\ inbox[e].enrolled
        /\ inbox[e].attempts < MaxAttempts

\* Every attempt is counted, a takeover and a recovery too, and the budget is
\* kept; a generation opened beyond the attempts belongs to a dead letter.
AttemptBudget ==
    \A e \in Events :
        /\ inbox[e].attempts <= MaxAttempts
        /\ inbox[e].gen # inbox[e].attempts =>
               /\ inbox[e].gen = MaxAttempts + 1
               /\ inbox[e].attempts = MaxAttempts
               /\ inbox[e].status = "FAILED"
               /\ inbox[e].avail = NoTime

\* A job is shown as completed only if its event is PROCESSED, although the
\* job is written after the commit, best-effort and unconditionally.
JobCompletionIsTrue ==
    \A e \in Events : job[e] = "completed" => inbox[e].status = "PROCESSED"

\* A row nobody works on and nobody is scheduled to.
Settled(r) == r.status = "PROCESSED" \/ (r.status = "FAILED" /\ r.avail = NoTime)

\* Every enrolled delivery comes to rest, as PROCESSED or as a dead letter that
\* an operator can see, however its owners crash and lose their leases.
EveryIntakeSettles ==
    \A e \in Events : <>[](inbox[e].enrolled => Settled(inbox[e]))

\* SHOPIFY_DISCOVERIES.md: a row of the synchronous route is never enrolled for
\* automatic execution, not by an explicit recovery either.
LegacyNeverAutomatic ==
    \A x \in Executors : own[x].pc # "idle" => own[x].ev \notin Legacy

-----------------------------------------------------------------------------
(* What intake promises *)

\* The abstract state of a row: a dead letter and a row of the synchronous
\* route are parked.
TaskOf(r) ==
    IF r.status = "ABSENT" THEN "unknown"
    ELSE IF r.status = "PROCESSED" THEN "done"
    ELSE IF Waiting(r) /\ r.avail # NoTime THEN "waiting"
    ELSE IF r.status = "PROCESSING" /\ r.lease # NoTime THEN "running"
    ELSE "parked"

Intake == INSTANCE OrderIntake WITH Tasks <- Events,
                                    task <- [e \in Events |-> TaskOf(inbox[e])]

\* Leases, generations, takeovers, crashes and retries implement order intake.
ImplementsOrderIntake == Intake!Spec
==============================================================================
