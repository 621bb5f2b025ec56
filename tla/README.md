# A TLA+ verification of 1vendor-dashboard

1vendor-dashboard is the back office of a Shopify marketplace: a Fastify and PostgreSQL
backend (`src/backend`) that takes Shopify orders in, splits them into vendor allocations,
pushes them to vendors and carriers, and settles the vendors' money, and a React frontend
(`src/src`).  The code that is hard to get right is in the backend: several processes, the
requests of operators and Shopify's redeliveries work on the same rows, and every process
may die between two statements.  These modules model that code, one part at a time.

Paths in this document are relative to the repository root.  In `PROJECT.json` and in the
comments of modules the same root is called `src/`.

## 1. Inventory

Backend modules are directories of `backend/src/modules`.

| Component | State it keeps | Operations | What must hold |
|---|---|---|---|
| orders/create fenced execution (`shopify/orders-create-*.service.ts`) | `WebhookEvent`: status, generation, lease, attempts, availability | claim, take over, heartbeat, ingest, finalize, fence exhausted | one writer at a time; PROCESSED exactly when the order was created; every delivery settles |
| Order ingestion (`shopify/order-ingestion.service.ts`) | `ShopifyOrder`, lines, allocations, sale ledger | one transaction per delivery, order lock | a retained payload never rewrites an order |
| Webhook intake (`shopify/webhook.routes.ts`, `webhook-idempotency.service.ts`) | `WebhookEvent` by unique key | persist and enrol, or process inline | duplicates change nothing; only recorded transient failures are retried |
| Recovery endpoint (`diagnostics/diagnostics.service.ts`) | the same rows, recovery jobs | read, claim by status, process, finalize | a PROCESSED event is never processed again |
| Current-State Repair (`shopify/current-state-order-repair.service.ts`) | orders, refunds, returns, repair jobs | fetch, inspect, recheck under the order lock, apply | never races with actionable intake |
| Operational jobs (`operational-jobs`) | `OperationalJob` | best-effort mirror, retry bookkeeping | never claims a completion that did not happen |
| Sopyo order push (`vendor-integration/sopyo-order-push-*`) | push rows with claim tokens | claim, POST, reconcile, finish | the external order is created at most once |
| Sopyo shipment and fulfillment (`vendor-integration/sopyo-ship*`, `sopyo-cargo-poll*`, `sopyo-shopify-*`, `fulfillments`) | `SopyoShipmentIntent`, plan, `Fulfillment`, allocation | poll cargo, plan, submit, reconcile, enter tracking by hand, take webhooks in, deliver | one create per intent, never beside a manual one; unknown outcomes resolved by reading |
| Customer cancellation (`orders/customer-cancellation-*`) | request and its children, refund attempts, jobs | claim, approve, refund, verify, cancel the order, exceptions | rows say what is so at Shopify; no order cancelled before the refund; every child ends |
| Outbound refunds and shipping claims (`orders/outbound-*`, `order-shipping-refund-claim`) | attempts, active claim key | reserve, submit, resolve | at most one active claim per order |
| Allocation split, actionability, terminal facts (`orders`) | allocations and their history | split, reassign, guard | quantities are preserved, terminal facts are final |
| Settlement schedule and drafts (`finance/settlement-schedule*`, `settlement-auto-draft*`) | job runs by date, draft payouts | one run a day, drafts per vendor | at most one run per date |
| Settlement approval (`finance/settlement-approval*`, `settlement-auto-approval*`) | settlement status, reviews | approve, hold, auto-approve under a gate | no approval of a settlement that changed since it was evaluated |
| Payout offsets (`finance/payout-offset-*`) | claims of batches on refund adjustments and debts | reserve, release, finalize | a refund is consumed at most once, claims follow their batch |
| Ledger and corrections (`finance/*`) | ledger entries, balances, corrections | append, transfer, correct | entries are append-only and idempotent |
| Commission invoices, Logo Isbasi (`finance/settlement-commission-*`, `logo-isbasi`) | invoice records | create externally, sync | one invoice per settlement |
| Returns, shipping, reconciliation, support, rules, automation, notifications, auth, vendors, product panel | own tables | request handlers and pollers | single-row transitions, outbox delivery |
| Frontend (`src/`) | none that is authoritative | reads and posts | - |

**How components interact.**  By shared rows, and by transactions on them.  Intake rows are written by the
webhook route, executors, the recovery endpoint and (read-only) by repair; the order rows by
ingestion, repair and backfill; an intent by its poller, planner and worker while the vendor and
webhooks write the allocation beside it; an adjustment by refund ingestion, drafts and
payouts; an attempt by its executor and the refund webhook.  Three mechanisms keep them apart:
conditional `UPDATE`s on the row (status, generation, lease), a PostgreSQL advisory lock per
order (`acquireShopifyOrderTransactionLock`), and in finance the row lock of the vendor with
SERIALIZABLE transactions.  Jobs of the intake and signals are projections written after the fact,
best-effort; the jobs of cancellations are the work queue itself.

**What is hard.**  A lease that runs out under a live owner; a process that dies after its
claim, after its commit, or before its job write; a COMMIT whose answer is lost; status read
in one statement and acted on in another; two deliveries of one order; a repair planned on
state that has changed; the boundary of the attempt budget; a create whose answer never comes,
at a service without idempotency keys; a transaction that waited for a lock and acts on the
snapshot from before; a refund that arrives between draft, approval and payout; a
replaced worker whose last write is unconditional.  `PROJECT.json` lists each hazard at
its line, with the properties that would catch it.

## 2. Modules

| Module | What it is |
|---|---|
| `OrderIntake` | Abstract specification: what order intake promises, with no leases, generations, retries or crashes |
| `OrdersCreateExecution` | The protocol of the code, with the properties and the refinement mapping |
| `MCOrdersCreateExecution` | Instances for TLC |
| `OrdersCreateExecution_proofs` | The theorems, with TLAPS proofs |
| `ExternalCreation` | Abstract specification: an object is created at most once in a system that cannot tell a repeated request from a new one |
| `SopyoOrderPush` | The dispatcher of order pushes, with the properties and the refinement mapping |
| `MCSopyoOrderPush` | Instances for TLC |
| `SopyoOrderPush_proofs` | The theorems, with TLAPS proofs |
| `SopyoFulfillment` | One shipment, from the cargo at Sopyo to the fulfillment at Shopify, with the vendor's manual path and webhooks |
| `MCSopyoFulfillment` | Instances for TLC |
| `SopyoFulfillment_proofs` | The theorems, with TLAPS proofs |
| `PayoutOffsets` | From sales and refunds of one vendor through settlement approvals to payout batches and their claims |
| `MCPayoutOffsets` | Instances for TLC |
| `Sums` | Sums of amounts over finite sets, as the models use them |
| `SumTheorems` | The laws of sums, proved for any finite set |
| `PayoutOffsets_proofs` | The theorems that need no arithmetic, with TLAPS proofs |
| `PayoutAmounts_proofs` | The theorems about amounts: conservation, no negative payout, releasable claims, the greedy allocation |
| `PayoutConsumption_proofs` | What exactly makes the two refuted properties fail |
| `CustomerCancellation` | The refund-then-cancel saga of one order a customer cancelled |
| `MCCustomerCancellation` | Instances for TLC |
| `CustomerCancellation_proofs` | The theorems, with TLAPS proofs |

The five parts share no rows that a property of two of them is about, so none is composed with
another; what one part needs of the rest is an action of its own (a webhook, a close of the
allocation, a hand in Shopify Admin).

### OrdersCreateExecution and the code

`inbox[e]` is a `WebhookEvent` row: `status`, `enrolled` (`sourceShopifyOrderId` is set),
`avail` (`executionAvailableAt`), `attempts`, `gen` (`processingGeneration`) and `lease`
(`processingLeaseExpiresAt`).  `creator[s]` says who created the local `ShopifyOrder`; it is
what the missing-order-only ingestion and the repair look at.  `own[o]` is the program
counter and the local variables of an executor or of one call of the recovery endpoint,
`job[e]` the mirrored `OperationalJob`, `plan[s]` the views of local state that repairs in progress hold
(a set: any number of repairs may run, and only the view tells them apart).

A deadline is modelled as the time left until it, so time is unbounded and states are
finite: `Tick` counts all of them down, 0 means passed, `NoTime` is NULL.

Each action is one SQL statement, one transaction, or one step between two of them:

| Code | Action |
|---|---|
| `getOrCreateWebhookEvent` with enrolment | `Receive` |
| `discover...` + `claimFencedOrdersCreateEvent` (three kinds) | `ClaimDue` |
| `fenceExpiredExhaustedOrdersCreateEvent` | `FenceExhausted` |
| `recoverWebhookEvent`: read, `claimOrdersCreateEventForAdminRecovery` | `AdminRead`, `AdminClaim` |
| mirror of the claim, start of the heartbeat | `StartAttempt` |
| `heartbeatOrdersCreateOwnership`, its rejection, its failure, drain deadline | `Heartbeat`, `AbortAttempt` |
| `process`: seller info, images, tax, abort checks | `ReachIngest`, `Abandon`, `AttemptFails` |
| `ingestShopifyOrderWebhook` (transaction) | `IngestCommits`, `IngestFindsOrder`, `IngestLosesFence`, `AttemptFails` |
| `finalizeRetryable...`, `finalizeTerminal...` | `FinalizeRetryable`, `FinalizeTerminal` |
| mirrors of outcomes | `ReportCommit`, `MirrorOutcome` |
| death of the process, exceptions of a finalizer | `Crash` |
| repair: inspection, transaction, refusal | `RepairInspect`, `RepairExecute`, `RepairRefused` |

The discovery query and the claim are one action because the claim repeats every condition of
the query; a candidate that has moved on is simply not claimed.  The ingestion transaction is
one action because it holds the order lock and the row lock from its check to its commit:
every statement that could interfere waits for one of them, and re-evaluates its condition on the
committed row.  A transaction that outlives its lease fails its final check and rolls back
(`IngestLosesFence`).  A commit whose answer is lost goes on like any other failure.

Left out: seconds (ticks), payload contents, seller mapping, allocations and ledger rows written inside the
transaction, log lines and HTTP answers, the batch order of discovery.  The finite range of
PostgreSQL's integers does not matter: generations and attempts are bounded by the budget
(`AttemptBudget`).

### SopyoOrderPush and the code

`row[p]` is a `SopyoOrderPush` row: `status`, `token` (`claimToken`) and `age` (the time until
`processingStartedAt` is stale).  `call[c]` is one invocation of `dispatchSopyoOrderPush`; a
member of `Senders` is called without `reconcileOnly` (worker, script), one of `Reconcilers`
with it.  `wire[p]` counts the POSTs for the order code by what became of them, and
`prior[p]` is an order that had the code before.

| Code | Action |
|---|---|
| `sopyoOrderPush.createMany` in the ingestion transaction | `Enqueue` |
| the two conditional `UPDATE`s at the start | `ClaimPending`, `ClaimReconcile` |
| payload, credential, bearer | `Prepare` |
| `ordersByCode` before the create, payload built again | `Lookup`, `Recheck` |
| `createOrderOnce`: the request leaves; its four kinds of answers | `SendPost`; `PostCreated`, `PostConflicts`, `PostRejected`, `PostAmbiguous` |
| lookup after an ambiguous answer | `LookAgain` |
| `finish` | `Finish` |
| death, exceptions of the database | `Crash` |
| Sopyo (external) processes a request, early or late | `Process` |

What is assumed of Sopyo, which is not in the repository: an answer 4xx other than 408, 409, 425
and 429 means that the request created nothing; a lookup shows an order that existed before the
dispatch, but may miss one that was just created; nobody else creates orders under
our allocation ids while a dispatch runs.  The content of payloads is left out: building one
succeeds or fails.

### SopyoFulfillment and the code

`intent` is the `SopyoShipmentIntent` row: `status`, `reason` (`conflictReason`), `cargo`, `plan`
(a plan row exists), `started` (`submittedStartedAt`) and `fid` (`shopifyFulfillmentId`).  `alloc` is
the `VendorAllocation`, `manual` the local `Fulfillment` row the vendor's path claims, `call[c]` one
invocation of a worker cycle, a poller, `updateAllocationTracking` or a webhook.  `shop` is the
sequence of fulfillments Shopify has for these lines, `wire` the creates it has not answered, and
`posts` counts creates by path.

| Code | Action |
|---|---|
| `processSopyoShopifySync`: choice of the candidate and its authority | `Scan` |
| `planSopyoShopifyFulfillment`: reads, then the transaction | `PlanRead`, `PlanCommit` |
| `executeSopyoShopifyFulfillment`: entry, canonical reads, claim | `ExecuteRead`, `ReadCanonical`, `ClaimSubmission` |
| `createSopyoFulfillment`, its answers and their writes | `CreateFulfillment`; `NoAnswer`, `RecordCreated`, `RecordNotCreated` |
| `reconcile`: complete, partial and failed reads; the verdict | `FetchComplete`, `FetchPartial`, `FetchFails`; `Settle` |
| `pollSopyoCargo`: list, detail, `recordVerifiedSopyoShipmentIntent` and its mismatch write, `project` | `PollScan`, `PollDetail`, `RecordIntent`, `RecordMismatch`, `ProjectCargo` |
| `updateAllocationTracking`: claim, lookup, create, answer, final writes | `ManualClaim`, `ManualLookup`, `ManualCreate`, `ManualNoAnswer`, `ManualRecord` |
| `ingestFulfillmentWebhook`: read before the lock, the transaction | `HookRead`, `HookApply` |
| refund, hold or cancellation closes the allocation | `Close` |
| death of a process | `Crash` |
| Shopify (external) | `Process`, `AdminFulfill`, `AdminCancel`, `AdminRetrack` |

Shopify is assumed to fulfill the lines at most once at a time, and to have no idempotency key for
a create; nothing is assumed about when it processes a request.  Left out: quantities and
several fulfillment orders (the plan covers the lines of one allocation), the delivered observation of a cargo
and its sync to Shopify events, carrier names beyond the identity of the cargo.

### PayoutOffsets and the code

One vendor.  `sale[s]` and `refund[r]` are ledger rows by `payoutStatus`, `adjustment[r]` is the
`SettlementRefundAdjustment` of a refund, `approval[a]` a settlement with its lines and ACTIVE
applications, `batch[b]` a payout batch with its lines and the refunds it was prepared
with, `claim[b]` its `PayoutOffsetClaim`s.  `arrival[r]` and `backfill[r]` are what a refund
ingestion or a backfill has read and not yet written.

| Code | Action |
|---|---|
| finance part of refund ingestion: decision, then writes | `RefundRead`, `RefundWrite` |
| backfill of missing adjustments | `BackfillRead`, `BackfillWrite`, `BackfillFails` |
| draft, approval, cancellation of a settlement | `Draft`, `Approve`, `CancelSettlement` |
| `preparePayoutBatchInTransaction`, `prepareR1PayoutBatchInTransaction` | `PrepareOrdinary`, `PrepareR1` |
| to review, without and with claims | `ReviewOrdinary`, `ReviewR1` |
| cancel a draft batch, cancel a batch in review with claims | `CancelDraftBatch`, `CancelR1Review` |
| paid without and with claims, completed without a transfer | `PayOrdinary`, `PayR1`, `CompleteCashless` |

*Isolation.*  Operations on batches and drafts lock the vendor row first, so each is one action; most are
SERIALIZABLE, the others (`VendorRowFree`) see what is there when they get the row.  What overlaps is modelled: a refund holds the row from `RefundRead` to `RefundWrite`;
`Approve` and the backfill do not take the row, so they may run in between; an operation that waited
for the row acts after the refund but on its older snapshot, which is `BeforeArrival` (the operation takes its step
first, the refund writes what it had read before).  At most one operation does so for each refund,
since two of them would conflict with each other.

Left out: currency and VAT, debts a refund of a paid sale opens and their claims, credits,
deductions, ledger corrections, commission invoices, finance holds and alerts, replacement
settlements, the automatic approval, and the cancellation of an ordinary batch in review, which goes through a Financial Correction.

### CustomerCancellation and the code

`item[i]` is the status of a child of the request, `attempt[i]` its
`OutboundShopifyRefundAttempt`, `job[i]` its REFUND_SYNC job with the owner of the current
`processingGeneration`, `local[i]` what its allocation says for or against the refund, `work[w]`
the place of an executor in its attempt.  `asked` is the set of `refundCreate` requests Shopify got,
by idempotency key, and `shop` the order there.  The intake of the request, one transaction, is `Init`.

| Code | Action |
|---|---|
| `discover`, `claim`; the heartbeat; `finish` | `Claim`; `Heartbeat`; `Finish` |
| `reconcileCustomerCancellationItemFromCanonicalRefunds`, at the start and after a refund: reads, transition | `Reconcile`; `ReconcileCommit` |
| `classifyCustomerCancellationAutoRefundEligibility`: local part, Shopify part, both again after the approval | `Classify`, `ReadCanonical`; `Reclassify`, `Submit` |
| `approveAndCreateAttempt` | `Approve` |
| `refundCreate` leaves; its answer and the unconditional write of the attempt | `Submit`; `Answer` |
| `processCustomerCancellationOrderCancel`: reads, `orderCancel`, `persistOrderCancelEvidence`, polling, `finalizeApproved` | `CancelRead`, `CancelOrder`, `Persist`, `Poll`, `Finalize` |
| `refunds/create` webhook | `RefundWebhook` |
| shipments, returns, settlements and the staff of the shop, `MaxStaff` times in all | `Spoil`, `AdminRefund`, `AdminCancel` |
| death of a process, end of a lease | `Crash`, `Expire` |
| Shopify (external) carries out a request or a cancellation, early or late | `Process`, `CancelEnds` |

Assumed of Shopify: a repeated idempotency key is the same request with the first answer (the
mutation is sent with `@idempotent(key: ...)`, `src/backend/src/modules/shopify/shopify-admin.service.ts:3743`), a line and the shipping are
refunded at most once, a cancelled order stays cancelled.  Each child has an allocation of its
own; children that share one would share the effect of a webhook.  `approveCustomerCancellationItemForRefund` has no caller and
is left out, as are amounts (shipping is meant to be refunded or not) and the queue of exceptions, which only reads.

## 3. Runs

| Run | Instance | What it shows |
|---|---|---|
| `takeover` | one delivery, 2 executors, 1 operator, 3 attempts, lease 2 ticks, fairness | `TypeOK`, `AtMostOneWriter`, `NoStrandedRetry`, `AttemptBudget`, `JobCompletionIsTrue`, `ProcessedIsFinal`, `ReplacedOwnerIsHarmless`, `EveryIntakeSettles` |
| `duplicate` | 2 deliveries of one order, one unenrolled, 1 executor, 1 operator, repairs, 2 attempts, fairness | `ProcessedCreatedTheOrder`, `OrderCreatedOnce`, `DeadLetterStaysManual`, `ImplementsOrderIntake`, `EveryIntakeSettles` |
| `legacy_recovery` | one unenrolled delivery, 1 executor, 1 operator | refutes `LegacyNeverAutomatic` |
| `push` | 2 rows, 2 sending calls, 1 reconcile-only call, staleness of 1 tick, fairness | `TypeOK`, `AtMostOnePost`, `OneOrderPerCode`, `SucceededIsTrue`, `BlockedLeftNothing`, `SettledIsFinal`, `ReplacedCallIsHarmless`, `ImplementsExternalCreation`, `EveryPushIsAnswered` |
| `fulfill` | 2 workers, 1 poller, 1 vendor, 1 webhook, 1 cargo, 1 manual submission | `TypeOK`, `OneSubmission`, `ClaimsExclusive`, `SubmissionRemembered`, `IdentityFixed` |
| `fulfill_settles` | 1 worker, 2 pollers, 2 cargos, 2 fulfillments made in Shopify Admin, fairness | `CreatedIsIdentified` |
| `proven_lost` | 1 worker, 1 poller, 1 webhook, 2 cargos | refutes `ProvenIsRecorded` |
| `payout` | 2 sales with a refund each, one of the whole sale and one of half, 2 drafts, 3 batches | `TypeOK`, `Conserved`, `ListedOnce`, `PaidStaysApproved`, `ClaimsFollowBatch`, `NeverNegative`, `RefundAccounted`, `ReviewReleasable` |
| `consumed_twice` | the same sales, 3 drafts, 2 batches | refutes `NotConsumedTwice` |
| `refund_left_out` | the same sales, 3 drafts, 2 batches | refutes `RefundReducesPayout` |
| `cancellation` | 2 children, an executor and one that takes it over, 1 retry, shipping paid, 1 intervention, fairness | `TypeOK`, `RowsAreTrue`, `CancelFollowsRefund`, `EveryCancellationEnds` |
| `siblings` | 2 children, 1 executor, 2 retries, nobody intervenes | refutes `SiblingDefers` |

**Bounds.**  No state constraint is used anywhere, and only `fulfill` uses symmetry (of workers, which
no definition tells apart; it checks no liveness).  Every bound is chosen so that a run ends within some
two minutes with TLC's coverage statistics on; what a smaller bound leaves out of a safety run is named here and is covered
by the theorems of section 4, which hold for all values of the constants.

*Order intake.*  `MaxAttempts` 3 is the value of the schema's default; with 2 a first, a middle and a last
attempt cannot be told apart, so `duplicate`, which is about orders, uses 2 and `takeover`, which is about
the budget, 3.  Two executors are what a takeover needs (replaced and replacing), one operator beside them what a
recovery racing with both needs.  A lease of 2 ticks lets a heartbeat arrive
before and after half of it; with 1 it is simply live or expired.  Backoff of 1 tick is
enough to separate "scheduled" from "due".  The attempt budget
bounds generations and countdowns bound time.

*Order push.*  Two sending calls are what a race for a claim needs, and one sending and one
reconcile-only call what a takeover needs; a call may be reused after it ended, so the number of
dispatches is unbounded.  A claim is stale after one tick; time may stand still or pass at any
moment, so more ticks would only delay that.  Nothing else needs a bound: claims and POSTs are limited by the
protocol itself.  The deadlock check is off because pushes do end: when every row
is decided there is nothing left to do.

*Fulfillment.*  Two cargos let a shipment disagree with itself: `fulfill_settles` and `proven_lost` have two.
`fulfill` is about who submits, with two workers and every other path; a second cargo makes it 11 times larger,
so that it has one, and a shipment that changes its cargo under it is left to the proofs.  `MaxForeign` bounds
fulfillments made in Shopify Admin and `MaxManual` manual submissions; a call may be reused, so cycles,
polls and crashes are unbounded.  The safety run needs no foreign fulfillments (cancellations of those
there are suffice to make lines free again), the liveness run has two, which a reconciliation may confuse with its own.

*Payouts.*  Two settlements let one be cancelled and drafted again, or follow a paid one whose refund it
carries; three batches let two payouts compete and one be prepared again after it was cancelled.  With `MaxApprovals` 3, as in
the two refuted runs, a settlement that carried a refund can be cancelled and drafted again; for the invariants
that is left to the proofs.  As for the amounts, a refund of the whole sale makes a payout without a transfer,
one of half a payment with an offset.  An applied portion needs a second sale.  The deadlock check is off because drafts and
batches are used up.

*Cancellation.*  Two children are what ordering among siblings needs; one retry tells
the first attempt from the last, at which the budget runs out.  `cancellation` has two executors, because a worker that
lives on after it was replaced, and writes late, needs another one that works beside it.  Two executors free to work on both
children have more than 12 million states, beyond the time of a run, so `MCNext` bounds the second one, in
the MC module and nowhere else: it comes in for the first child, by taking the
job of the running first executor over; the two may take it from each other again, but are never at two children
at once, and nobody intervenes while the second one is at it.  `MCNext` only leaves steps out, so
every behaviour of `MCSpec` is one of the specification.  It leaves to the proofs, which are for any number,
two executors at different children and interventions during a takeover.  `siblings` needs one executor only.
`MaxStaff` 1 lets the staff, or other work on an allocation, interfere at any one moment.  The deadlock
check is off because every child ends.

**Fairness** of `takeover` and `duplicate`.  Time passes.  For every delivery, some executor
eventually takes a claimable row: the executor polls on an interval, discovery takes the
oldest due rows first, and a claimed row moves to the back by its lease or backoff.  An
attempt that has not crashed moves on: Shopify requests have deadlines of half a lease, and
statements return.  Heartbeats, crashes, operators and repairs are given no fairness; crashes
may repeat forever and the property still holds, because every claim consumes an attempt.

Fairness of `push`: time passes, the worker takes pending rows (it scans on an
interval, oldest first, and every row it dispatches stops being PENDING), and a call that is not
dead moves on, since each of its requests has a deadline.  Operators are not assumed to do
anything, so `EveryPushIsAnswered` promises a decision or a row that can be reconciled, not
more; `docs/SHOPIFY_DISCOVERIES.md` says that there is no automatic reconciliation.

Fairness of `fulfill_settles`: an execution moves on and a verdict is written (weak fairness); the
worker's interval fires again and again, and some scan reaches a complete read, and a read that found something its
verdict, before the process dies again (strong fairness, since each of these may be interrupted by crashes without
end).  Shopify, pollers and people are given no fairness.

Fairness of `cancellation`, in `MCSpec` as in `FairSpec`: every waiting job is claimed (discovery runs on an interval; strong
fairness, since an executor is busy with the other child in between), an attempt moves on (each of its requests has a
deadline), and an unattended lease runs out.  `Calm` says that from some time on no process dies and
heartbeats, sent every third of a lease, arrive in time.  The property needs it: a
claim does not look at `maxRetries`
(`src/backend/src/modules/orders/customer-cancellation-auto-refund-executor.service.ts:29-62`), so a job whose
workers die again and again is claimed again and again.

**Findings.**  The first five are runs that TLC refutes.  The last one is a contradiction between two documents, which the
passing run decides.

- `legacy_recovery`.  `docs/SHOPIFY_DISCOVERIES.md:683` promises that recovering a row of the synchronous route
  never enrols it for automatic execution.  The claim of the recovery does
  (`orders-create-ownership.service.ts:178-182`): it fills `sourceShopifyOrderId` and sets a
  lease, so when the operator's request dies, the row is an expired PROCESSING candidate like
  any other and an executor takes it.  The code protects only the path in which the first recovery
  lives long enough to finalize its failure: a second recovery of the same row finds the column filled
  (`diagnostics.service.ts:4271-4274`), takes the row for an enrolled one, and schedules a retry when it fails.
  `LegacyStaysManual` proves that there is no third way.
- `proven_lost`.  A create succeeds and its answer matches, but meanwhile a webhook changed the tracking of
  the allocation and the cargo poller set `LOCAL_CARGO_MISMATCH`.  The write that keeps a proven identity on a
  conflict asks for the reasons of a cargo mismatch only
  (`sopyo-shopify-fulfillment-execution.service.ts:258`), although its comment (line 256) promises to
  never lose a proven Shopify identity; reconciliation refuses the row from then on, against
  `docs/SHOPIFY_DISCOVERIES.md:151`.  The proof attempt showed a second cause: another worker reconciles while the answer
  is still to be recorded, and what it reads is ambiguous, as after a cancellation in Shopify Admin.
  `LostOnlySo` proves that these two are all.
- `consumed_twice`.  The backfill asks whether the sale is in an approved settlement, not whether the refund
  already is a line of one
  (`settlement-refund-adjustment-eligibility-diagnostics.service.ts:326`), and the next draft takes the refund off once
  more.  `docs/audits/R1_PAYOUT_OFFSET_COMPATIBILITY_DESIGN.md:8` rules that out.  `ConsumedOnce` proves that the
  backfill is the only cause.
- `refund_left_out`.  A refund that arrives while its sale is only drafted is stored on HOLD, and nothing takes it
  off; redrafted and approved with its sale, it is filtered out of the payout (`finance.service.ts:963`), which
  pays the sale in full.  `docs/MARKETPLACE_FINANCE_WORKFLOW.md:524` says refund rows reduce payout
  preparation (and line 32 that they use HOLD).  `LeftOutOnlySo` proves that it takes a refund on HOLD in a
  settlement that stands, or one that got an adjustment beside its line.
- `siblings`.  The first refunded child cancels the whole order; the next one then finds a cancelled order and ends as a terminal
  conflict at its first attempt, its line not refunded
  (`customer-cancellation-order-cancel.service.ts:187`, `customer-cancellation-auto-refund.service.ts:242`).
  `docs/API_CONTRACTS.md:942` says siblings defer, and `docs/SHOPIFY_DISCOVERIES.md:626` that all
  cancelled lines are refunded.  `GivenUpForSiblings` proves that a child is given up early for nothing else (but
  the staff's own cancellation), and `AloneDefers` that the promise holds of a single child.
- `cancellation`.  `docs/API_CONTRACTS.md:943` says that an item becomes APPROVED when its line is verified as refunded, and
  that checkout shipping is not refunded.  `docs/SHOPIFY_DISCOVERIES.md:620`, 626 and 627 say that APPROVED waits
  for the confirmed cancellation of the order, and that the shipping is refunded as well.  The code does the second
  (`customer-cancellation-auto-refund.service.ts:489`, 536; `customer-cancellation-order-cancel.service.ts:107`), and
  `RowsAreTrue` states it: `RowsTrue` proves that no child is APPROVED before its order is cancelled, nor
  counts as refunded without the shipping its attempt meant to return, so line 943 is out of date.

Seen while reading, without a run of their own:

- the planner's write of PLAN_READY (`sopyo-shopify-fulfillment-plan.service.ts:236`) is unconditional and
  may clear a CONFLICT recorded in between;
- `fulfillment-ingestion.service.ts:280-292` lets an inbound cancellation overwrite a pending manual
  claim;
- a lookup that throws in `fulfillment.service.ts:336` leaves the claim of the manual path pending;
- an approval is refused (`ledger_paid`) once another portion of the same refund was paid;
- one cancelled origin stops every reservation of the vendor (`payout-offset-reservation.service.ts:222`), and cancelling a
  settlement under a batch in review leaves its claims reserved;
- a late SHOPIFY_ACTION_PENDING write of a replaced worker (`customer-cancellation-auto-refund.service.ts:601`)
  overwrites RESOLVED and forgets the cancel job, so siblings defer until their retries are used up;
- the shipping of a second child is compared with all shipping refunded on the order
  (`customer-cancellation-auto-refund.service.ts:470-472`), so it is never verified once the first child returned some.

## 4. Proofs

`OrdersCreateExecution_proofs` proves, for any sets of deliveries, orders, executors and operators and any budget, lease
and backoff, the type invariant, every safety property of the runs, and the refinement.  The
only assumption is `ConstantsAssumption` of the model.

The invariants are not inductive by themselves.  `IInv` adds to them:

- `RowInv`: what a row can look like.  A lease exists exactly on enrolled PROCESSING
  rows, availability only on rows that wait with an attempt left, and the generation equals the
  attempts except on a fenced dead letter.  Without it, nothing bounds the row that a claim starts from.
- `OwnInv`: what an owner knows about its row.  Its generation is never ahead of the row's;
  while it is the current one the row is PROCESSING or has been finished by this very owner;
  an owner that reports a commit has a PROCESSED row.

`RowWrites` and `RowStep` show that every step leaves each row alone, or writes it in one of five ways;
`RowsAdvance` that generations never go back; `OwnerStep` that an owner moves only by its
own actions.  `OneWriter` then follows because each claim opens a generation nobody holds yet.
`ProcessedMeansCreated` rests on `OnlyCommitsProcess`: the row becomes PROCESSED only in the step that finds no order
and creates it.  The action properties follow from `IInv` step by step.  For the
refinement, `TaskOf` maps a row to the abstract state and `Implementation` shows
that each step is an abstract step or a stutter; an executor that takes over an expired lease
stutters, since the abstract task was running already.

`LegacyStaysManual` proves the refuted `LegacyNeverAutomatic` under two hypotheses: the lease of a recovered
row of the synchronous route does not run out (`RecoveredInTime`), and no such row is recovered twice
(`RecoveredOnce`).  `ManualInv` is what is inductive under them: such a row is never scheduled, and a recovery
of one never gets to the write that schedules a retry.

`SopyoOrderPush_proofs` proves, for any number of rows and of calls of both kinds and any staleness,
the type invariant, the safety properties of the run `push`, and the refinement.  What makes the
properties inductive is `SenderInv`: a row has at most one sending call in its life, because
nothing makes a row PENDING again; until its POST that call knows that nothing was sent and nothing was there,
and the row cannot be BLOCKED while it lives.  `CallInv` says that what a call is
about to write is already true of the order code, even if the call was replaced long ago.  From
there `WireInv` follows (a POST finds a count of zero), and `RowInv` (a true
verdict stays true, since no request is under way).  There is one lemma for each kind of step:
`ProgressKeeps`, `PostKeeps`, `ClaimKeeps`, `EndKeeps`, `RowsKeep`, `ProcessKeeps`.

`SopyoFulfillment_proofs` proves, for any number of workers, pollers, vendors and webhooks and any cargos, the
type invariant and every safety property of `fulfill`.  `IInv` is `TypeOK /\ Safe`, and `Safe` adds to
`ClaimsExclusive`: `IntentInv` (an intent before its submission has not started, one that has started has a
plan, an identity exists only after the start), `WorkerInv` (whoever is about to create has claimed, nobody
has sent yet, and no other worker is there too), and `SentInv` (what is on the wire or at Shopify by the Sopyo
path was counted).  The unconditional PLAN_READY does not make a submission forgotten because it is written
only where there is no plan, and an intent that has started has one.  `OneSubmission` and
`SubmissionRemembered` follow; `IdentityFixed` is proved step by step.

`LostOnlySo` is about the refuted `ProvenIsRecorded`.  `ProofInv` says which conflicts a submitted intent can
have, and `AnswerInv` that one worker at most is between its claim and the record of its answer, and that none
is once a rejection was recorded; the step that records a success therefore finds the intent submitted,
identified, or in one of the two conflicts the theorem names.

Two theorems go beyond the runs' properties.  `GoodsLeaveOnce` turns `OneSubmission`, which counts what is sent,
into what Shopify makes of it: `MadeInv` says that a create of the Sopyo path is under way or a fulfillment
was made of one, never two of them together.  `IdentitiesAreReal` says that an
identity recorded for the intent or the manual path is that of a fulfillment Shopify made, and that a CONFIRMED
intent has one.  `NameInv` is inductive because it includes the calls: what a call is about to record, from
an answer, a reconciliation or a webhook, names a fulfillment already, and Shopify forgets none (`ShopGrows`).

`PayoutOffsets_proofs` proves, for any sales, refunds, amounts, drafts and batches, the type invariant and
`ListedOnce`, `PaidStaysApproved`, `ClaimsFollowBatch` and `RefundAccounted`.  `IInv` adds to
them: `OneSettlement` (two settlements that stand share no sale), `LinesInv` (what a batch lists was approved, and no
settlement approved meanwhile has one of its sales), `SettledListed` (a sale is paid only through a final
batch that lists it), `RowsInv` (direct refunds come with their sale, portions with an adjustment) and
`ArrivalInv` (a refund under way that found no settlement belongs to a sale that is not paid, and that no
batch can pay before the refund is written).  `RefundAccounted` is
the hard one: it needs `ArrivalInv`, since the refund's own transaction, the approval that takes no lock, and
a payout on an older snapshot all overlap.

`PayoutAmounts_proofs` proves `Conserved`, `NeverNegative` and `ReviewReleasable`, for any amounts.
`AmountInv` adds to `IInv`: `ArrivedInv` (what has an adjustment or a line has arrived), `UnusedInv` (a
settlement not made yet has applied nothing, and nothing is claimed of a refund without an adjustment),
`OrderInv` (refunds by arrival and settlements by approval are linear orders, which is what the greedy
allocation walks along), `Backed` (as long as its settlements stand, what a batch has reserved or consumed
fits in what it pays, in all and for each settlement) and `Conserved` itself.  `AllocationExact` says what the
allocation of a payout reserves, in every reachable state: of no refund more than is left of it, for no
settlement more than it pays, and in all the lesser of the two totals.

The sums are over sets of any finite size, so their laws need an induction over data.  `SumTheorems` builds
one without an operator as parameter: `SmallestSubset` takes from the library that the strict subsets of a
finite set are well-founded, and `SetInduction` concludes that a set of sets which has the empty set, and with
each set those of one more element, has every finite set.  Each law is then such a set of sets.  The other
modules use only the laws (a sum of zeros, of a changed item, of disjoint parts, of smaller items) and
`EndToEnd`: amounts laid end to end, each cut to a window, add up to the window cut to their total.  Sales and
refunds are assumed to be finite sets, as the rows of tables are.

`PayoutConsumption_proofs` is about the two properties that TLC refutes, and names what their refutation
needs.  `ConsumedOnce` assumes that nobody backfills (`WithoutBackfill`) and proves `NotConsumedTwice`: by
`OnceInv`, a refund has a direct line or an adjustment, never both; a direct line is paid once, and otherwise
the claims and portions that were paid are part of what is applied, which `Conserved` bounds by the refund.
`LeftOutOnlySo` assumes `DirectPayable` and proves `RefundReducesPayout`: by `PairInv`, a batch has a sale of
an approved settlement and the refund approved with it, or neither.  Both halves of `DirectPayable` are
needed: `refund_left_out` violates the property through the first one, and through the second TLC finds one
with three batches and a backfill (the refund is then taken off as a portion of another settlement, not beside
its sale).

`CustomerCancellation_proofs` proves, for any number of children, executors, retries and interventions, the type
invariant, `RowsAreTrue` and `CancelFollowsRefund`.  `RowsAreTrue` is not inductive, because a worker may
have been replaced and still write.  `IInv` adds `AttemptInv` (a child that was approved has an attempt with the one key
it will ever have; FAILED rests on a refusal), `AskInv` (at most one request for a child, and the saga's refund is
its answer) and `WorkInv` (what each place of a worker relies on: about to commit means the money was
returned, beyond it the child is refunded).  `Forward` collects what no step takes back; it carries
`WorkInv` across the steps of others (`WaitingWork`), so the argument holds for workers that were replaced long ago.
That a FAILED attempt is never followed by its refund rests on uniqueness of the request (`StillTrue`).

`GivenUpForSiblings` and `AloneDefers` are about the refuted `SiblingDefers`.  `GiveUpInv` says that a worker
whose child could still be refunded is at a place before its approval and never reports a terminal exception,
that a live worker judges by the retries its job has, and that a cancellation on its way to the order was
asked for by a child that was refunded: with a single child, that is the child itself.

`RefundsOneByOne` is about the requests themselves: Shopify is asked once for each child, never for two
children at a time unless the staff returned the money of one, and for the shipping again only after a refusal.  `OneByOneInv` adds to `IInv`: `TurnInv` (one attempt is
READY_TO_SUBMIT at a time, since the approval checks the siblings in its transaction, and an unanswered request belongs to it or
was overtaken by a refund of the staff) and `ShippingInv` (whoever leaves the shipping out has seen that
nothing of it was left to refund, and what a worker read before the approval it reads again before the submission).

Only model-checked: `EveryIntakeSettles`, `EveryPushIsAnswered`, `CreatedIsIdentified` and
`EveryCancellationEnds` (liveness under fairness is
beyond the prover).  Every other property of a passing run is stated by a theorem.

## 5. Plan

Done: order intake, order push, Sopyo fulfillment, payout offsets and customer cancellation, each with its runs
and proofs.  What would come next, in this order:

1. `SynchronousIntake`: the inline route, with writes conditional on nothing but the row id
   and retry evidence in jobs, together with the recovery endpoint.  To look at: a
   recovery that starts between the two FAILED writes of one handler, status ABA between a redelivery's look at the
   job and its claim, lost increments of the retry count.
2. Vendor debts in `PayoutOffsets`: the debt a refund of a paid sale opens, and claims on it.
3. `SettlementSchedule` and the automatic approval: one run per date, the review gate, staleness.
4. `OutboundRefund`: vendor rejections and shipping refunds, with their active claim keys, beside
   `CustomerCancellation`.
5. `VariantDisableOutbox`: claims and retries of the product panel.

**Not modelled.**  Of the modelled parts: the delivered observation of a shipment; debts, credits,
corrections, invoices and holds in finance; the intake of a cancellation request, children that share an allocation, and
the exception queue.  Of the rest of the system: adapters and HTTP clients (I/O whose outcomes are the
nondeterministic choices of the models), read models and previews, the arithmetic of money, returns, shipping labels,
support, rules, notifications and authentication (single-row transitions of one request), and the frontend, which keeps no
authoritative state.  `PROJECT.json` gives the reason for each component.
