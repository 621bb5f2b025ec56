-------------------------- MODULE SopyoFulfillment --------------------------
(***************************************************************************)
(* The shipment of one allocation whose order was pushed to Sopyo.         *)
(*                                                                         *)
(* Pollers find the cargo at Sopyo, record it as a SopyoShipmentIntent and *)
(* copy it to the allocation.  Workers plan a Shopify fulfillment from the *)
(* intent and submit it; after that they only look for it.  The vendor may *)
(* enter tracking by hand, which submits a fulfillment of its own, and     *)
(* fulfillments made or edited in Shopify come back as webhooks.           *)
(*                                                                         *)
(* Shopify accepts a create for the same lines more than once when the     *)
(* first fulfillment was cancelled in between, and it has no idempotency   *)
(* key.  What protects the shipment is the status of the intent, the claim *)
(* of the manual path on the local Fulfillment row, and the order lock     *)
(* under which both are taken.                                             *)
(***************************************************************************)
EXTENDS Naturals, Sequences, FiniteSets

CONSTANTS Workers,     \* processSopyoShopifySync cycles and operator calls
          Pollers,     \* pollSopyoCargo cycles
          Vendors,     \* updateAllocationTracking calls
          Hooks,       \* ingestFulfillmentWebhook calls
          Cargos,      \* pairs of carrier and tracking number
          NoCargo,
          MaxForeign,  \* fulfillments made in Shopify Admin
          MaxManual    \* manual submissions

Calls == Workers \cup Pollers \cup Vendors \cup Hooks

ASSUME ConstantsAssumption ==
    /\ NoCargo \notin Cargos
    /\ Workers \cap (Pollers \cup Vendors \cup Hooks) = {}
    /\ Pollers \cap (Vendors \cup Hooks) = {}
    /\ Vendors \cap Hooks = {}
    /\ MaxForeign \in Nat
    /\ MaxManual \in Nat

VARIABLES intent,    \* the SopyoShipmentIntent row and whether it has a plan
          alloc,     \* cargo and shipping status of the VendorAllocation
          manual,    \* the local Fulfillment row
          call,      \* program counter and locals of each call
          shop,      \* the fulfillments of these lines in Shopify, in order
          wire,      \* create requests Shopify has not answered
          posts      \* how many creates were sent, by path

vars == <<intent, alloc, manual, call, shop, wire, posts>>

-----------------------------------------------------------------------------
(* State *)

\* SELECTION_PENDING and RECONCILIATION_PENDING are never assigned.
Status == {"absent", "CARGO_VERIFIED", "PLAN_READY", "SUBMISSION_PENDING",
           "OUTCOME_UNKNOWN", "CONFIRMED", "CONFLICT"}
Reasons == {"none", "CARGO_MISMATCH", "LOCAL", "SHOPIFY_PLAN", "SHOPIFY_CREATE_REJECTED",
            "SHOPIFY_RECONCILIATION_AMBIGUOUS"}

ReconcilablePending == {"SUBMISSION_PENDING"}
Reconcilable == {"SUBMISSION_PENDING", "OUTCOME_UNKNOWN"}
BeforeSubmission == {"CARGO_VERIFIED", "PLAN_READY"}

\* started is submittedStartedAt # null; fid is shopifyFulfillmentId, 0 for
\* null, otherwise a position in shop.
Intents == [status : Status, reason : Reasons, cargo : Cargos \cup {NoCargo},
            plan : BOOLEAN, started : BOOLEAN, fid : Nat]

\* ship: before shipment, under way, or a status the projection does not know.
Allocations == [cargo : Cargos \cup {NoCargo}, ship : {"pre", "transit", "other"},
                open : BOOLEAN]

Sync == {"none", "pending", "submitted", "failed", "inbound", "cancelled"}
ManualRows == [sync : Sync, fid : Nat]

WorkerPc == {"planRead", "commit", "execute", "canonical", "cas",
             "create", "await", "answered", "fetch", "settle"}
PollerPc == {"detail", "record", "mismatch", "project"}
VendorPc == {"lookup", "post", "awaitManual", "answeredManual"}
Pc == {"idle", "apply"} \cup WorkerPc \cup PollerPc \cup VendorPc

\* What the last answer of an external service, or the last read, said.
Answers == {"none", "success", "rejected", "unknown",
            "exact", "some", "live", "cancelled"}
CallStates == [pc : Pc, got : Answers, fid : Nat, cargo : Cargos \cup {NoCargo}, aside : BOOLEAN]

Idle == [pc |-> "idle", got |-> "none", fid |-> 0, cargo |-> NoCargo, aside |-> FALSE]

Fulfillments == [cargo : Cargos \cup {NoCargo}, live : BOOLEAN, by : {"sopyo", "manual", "admin"}]
Requests == [caller : Workers \cup Vendors, cargo : Cargos \cup {NoCargo}]

TypeOK ==
    /\ intent \in Intents
    /\ alloc \in Allocations
    /\ manual \in ManualRows
    /\ call \in [Calls -> CallStates]
    /\ shop \in Seq(Fulfillments)
    /\ wire \subseteq Requests
    /\ posts \in [sopyo : Nat, manual : Nat]

Init ==
    /\ intent = [status |-> "absent", reason |-> "none", cargo |-> NoCargo,
                 plan |-> FALSE, started |-> FALSE, fid |-> 0]
    /\ alloc = [cargo |-> NoCargo, ship |-> "pre", open |-> TRUE]
    /\ manual = [sync |-> "none", fid |-> 0]
    /\ call = [c \in Calls |-> Idle]
    /\ shop = <<>>
    /\ wire = {}
    /\ posts = [sopyo |-> 0, manual |-> 0]

-----------------------------------------------------------------------------
(* Helpers *)

At(c, pc) == call[c].pc = pc

Goto(c, pc) == call' = [call EXCEPT ![c].pc = pc]
Return(c) == call' = [call EXCEPT ![c] = Idle]

\* The lines of the allocation are fulfilled at most once at a time.
Taken == \E i \in DOMAIN shop : shop[i].live

External == <<shop, wire, posts>>
Local == <<intent, alloc, manual>>

\* UPDATE ... WHERE status IN from SET status = to.
MoveFrom(from, to, reason) ==
    intent' = IF intent.status \in from
              THEN [intent EXCEPT !.status = to, !.reason = reason]
              ELSE intent

\* loadSopyoShopifyPlanningContext.  The status is read before the order lock
\* is waited for, so what follows relies on a status that may have changed.
ContextOk == intent.status \in BeforeSubmission /\ alloc.open

\* The shipment the worker's scan requires of the allocation.
Authority ==
    /\ alloc.cargo = intent.cargo
    /\ alloc.ship = "transit"
    /\ alloc.open
    /\ ~intent.started

\* A conflict the executor still reconciles.
CargoConflict ==
    intent.status = "CONFLICT" /\ intent.reason = "CARGO_MISMATCH" /\ intent.started

\* The manual path has claimed, or made, the fulfillment.
ManualHolds == manual.fid # 0 \/ manual.sync = "pending"

\* The Sopyo path has crossed submission, whatever became of it later.
SopyoHolds ==
    \/ intent.started
    \/ intent.fid # 0
    \/ intent.status \in Reconcilable \cup {"CONFIRMED"}

\* matchesSopyoShopifyExecutionPlan, for a fulfillment of these lines.
Matches(i) == shop[i].live /\ shop[i].cargo = intent.cargo

-----------------------------------------------------------------------------
(* The planner: the worker's scan, then planSopyoShopifyFulfillment *)

\* The scan and the planner's first look at the row.
Scan(w) ==
    /\ At(w, "idle")
    /\ intent.fid = 0
    /\ \/ /\ intent.status = "CARGO_VERIFIED" /\ ~intent.plan /\ Authority
          /\ Goto(w, "planRead")
       \/ intent.status = "PLAN_READY" /\ Authority /\ Goto(w, "execute")
       \/ intent.status \in Reconcilable /\ Goto(w, "execute")
    /\ UNCHANGED <<Local, External>>

\* The read of the fulfillment orders, and then of the intent by a transaction
\* that has yet to wait for the order lock.  Incomplete and unsafe answers
\* conflict.
PlanRead(w) ==
    /\ At(w, "planRead")
    /\ \/ ~Taken /\ ContextOk /\ Goto(w, "commit") /\ UNCHANGED intent
       \/ ~ContextOk /\ Return(w) /\ UNCHANGED intent
       \/ MoveFrom(BeforeSubmission, "CONFLICT", "SHOPIFY_PLAN") /\ Return(w)
    /\ UNCHANGED <<alloc, manual, External>>

PlanCommitAgain(w) ==
    /\ At(w, "commit")
    /\ intent' = [intent EXCEPT !.plan = TRUE, !.status = "PLAN_READY"]
    /\ Goto(w, "execute")
    /\ UNCHANGED <<alloc, manual, External>>

\* Under the lock: the plan that exists is kept when it is the same; a new one
\* is stored with PLAN_READY, whatever the status is by now.
PlanCommit(w) ==
    /\ At(w, "commit")
    /\ \/ /\ ~intent.plan
          /\ intent' = [intent EXCEPT !.plan = TRUE, !.status = "PLAN_READY"]
          /\ Goto(w, "execute")
       \/ /\ intent.plan
          /\ Goto(w, "execute")
          /\ UNCHANGED intent
       \/ /\ intent.plan    \* SHOPIFY_PLAN_CHANGED
          /\ MoveFrom(BeforeSubmission, "CONFLICT", "SHOPIFY_PLAN")
          /\ Return(w)
    /\ UNCHANGED <<alloc, manual, External>>

-----------------------------------------------------------------------------
(* The executor: executeSopyoShopifyFulfillment *)

\* What an execution may do with the row it has read.
MayExecute == intent.plan /\ intent.fid = 0 /\ intent.status = "PLAN_READY"
MayReconcile ==
    intent.plan /\ intent.fid = 0 /\ (intent.status \in Reconcilable \/ CargoConflict)

ExecuteRead(w) ==
    /\ At(w, "execute")
    /\ \/ MayExecute /\ Goto(w, "canonical")
       \/ /\ MayReconcile
          /\ call' = [call EXCEPT ![w].pc = "fetch", ![w].aside = CargoConflict]
       \/ ~MayExecute /\ ~MayReconcile /\ Return(w)
    /\ UNCHANGED <<Local, External>>

\* The fresh read of the fulfillment orders, and then of the intent by the
\* claim's transaction.  A failed read and a changed plan conflict, ...
ReadCanonical(w) ==
    /\ At(w, "canonical")
    /\ \/ ~Taken /\ ContextOk /\ Goto(w, "cas") /\ UNCHANGED intent
       \/ MoveFrom({"PLAN_READY"}, "CONFLICT", "SHOPIFY_PLAN") /\ Return(w)
    /\ UNCHANGED <<alloc, manual, External>>

\* ... then, under the order lock, updates the row if it is still claimable
\* and the manual path has not claimed.
ClaimableAsRead == intent.plan
Claimable == intent.status = "PLAN_READY" /\ ~intent.started /\ intent.fid = 0

ClaimSubmission(w) ==
    /\ At(w, "cas")
    /\ \/ /\ ~ManualHolds /\ Claimable
          /\ intent' = [intent EXCEPT !.status = "SUBMISSION_PENDING", !.started = TRUE]
          /\ Goto(w, "create")
       \/ /\ ~ManualHolds /\ ~Claimable
          /\ Return(w)
          /\ UNCHANGED intent
       \/ /\ ManualHolds
          /\ MoveFrom({"PLAN_READY"}, "CONFLICT", "SHOPIFY_PLAN")
          /\ Return(w)
    /\ UNCHANGED <<alloc, manual, External>>

Send(c, cargo, path) ==
    /\ wire' = wire \cup {[caller |-> c, cargo |-> cargo]}
    /\ posts' = [posts EXCEPT ![path] = @ + 1]

\* The one create, whatever became of the intent since the claim.
CreateFulfillment(w) ==
    /\ At(w, "create")
    /\ Send(w, intent.cargo, "sopyo")
    /\ Goto(w, "await")
    /\ UNCHANGED <<Local, shop>>

\* A timeout, a transport error or an answer that cannot be parsed.
NoAnswer(w) ==
    /\ At(w, "await")
    /\ call' = [call EXCEPT ![w].pc = "answered", ![w].got = "unknown"]
    /\ UNCHANGED <<Local, External>>

\* The fulfillment is proven: the conflict of a cargo correction is kept, and
\* the identity with it.
ProvenAnyConflict(fid) ==
    intent' = IF intent.status \in Reconcilable
              THEN [intent EXCEPT !.status = "CONFIRMED", !.fid = fid]
              ELSE IF intent.status = "CONFLICT" THEN [intent EXCEPT !.fid = fid] ELSE intent
Proven(fid) ==
    intent' = IF intent.status \in Reconcilable
              THEN [intent EXCEPT !.status = "CONFIRMED", !.fid = fid]
              ELSE IF /\ intent.status = "CONFLICT"
                      /\ intent.reason = "CARGO_MISMATCH"
                      /\ intent.fid = 0
                   THEN [intent EXCEPT !.fid = fid]
                   ELSE intent

RecordCreated(w) ==
    /\ At(w, "answered") /\ call[w].got = "success"
    /\ Proven(call[w].fid)
    /\ Return(w)
    /\ UNCHANGED <<alloc, manual, External>>

RecordNotCreated(w) ==
    /\ At(w, "answered") /\ call[w].got # "success"
    /\ IF call[w].got = "rejected"
       THEN MoveFrom({"SUBMISSION_PENDING"}, "CONFLICT", "SHOPIFY_CREATE_REJECTED")
       ELSE MoveFrom({"SUBMISSION_PENDING"}, "OUTCOME_UNKNOWN", intent.reason)
    /\ Return(w)
    /\ UNCHANGED <<alloc, manual, External>>

-----------------------------------------------------------------------------
(* Reconciliation, which never creates *)

\* One that overlaps the plan or has its tracking is a candidate; only a full
\* match is exact.  A cancelled one left its lines to a new fulfillment order.
OneExact(seen) == \E i \in seen : seen = {i} /\ Matches(i)

Fetched(w, seen) ==
    \/ /\ OneExact(seen)
       /\ \E i \in seen :
            call' = [call EXCEPT ![w].pc = "settle", ![w].got = "exact", ![w].fid = i]
    \/ /\ ~OneExact(seen) /\ seen # {}
       /\ call' = [call EXCEPT ![w].pc = "settle", ![w].got = "some"]
    \/ /\ seen = {}
       /\ call' = [call EXCEPT ![w].pc = "settle", ![w].got = "none"]

FetchComplete(w) ==
    /\ At(w, "fetch")
    /\ Fetched(w, {i \in DOMAIN shop : shop[i].live \/ shop[i].cargo = intent.cargo})
    /\ UNCHANGED <<Local, External>>

\* The pages are separate reads, and may lag behind.
FetchPartial(w) ==
    /\ At(w, "fetch")
    /\ \E seen \in SUBSET DOMAIN shop : Fetched(w, seen)
    /\ UNCHANGED <<Local, External>>

FetchFails(w) ==
    /\ At(w, "fetch")
    /\ MoveFrom(Reconcilable, "OUTCOME_UNKNOWN", intent.reason)
    /\ Return(w)
    /\ UNCHANGED <<alloc, manual, External>>

Settle(w) ==
    /\ At(w, "settle")
    /\ CASE call[w].got = "exact" /\ call[w].aside ->
              intent' = IF CargoConflict /\ intent.fid = 0
                        THEN [intent EXCEPT !.fid = call[w].fid] ELSE intent
         [] call[w].got = "exact" /\ ~call[w].aside ->
              intent' = IF intent.status \in Reconcilable
                        THEN [intent EXCEPT !.status = "CONFIRMED", !.fid = call[w].fid]
                        ELSE intent
         [] call[w].got = "some" ->
              MoveFrom(Reconcilable, "CONFLICT", "SHOPIFY_RECONCILIATION_AMBIGUOUS")
         [] OTHER -> MoveFrom(Reconcilable, "OUTCOME_UNKNOWN", intent.reason)
    /\ Return(w)
    /\ UNCHANGED <<alloc, manual, External>>

-----------------------------------------------------------------------------
(* The cargo poller *)

\* The allocation needs nothing more: projected() and the CONFLICT filter.
Projected == alloc.cargo = intent.cargo /\ alloc.ship # "pre"

PollScan(p) ==
    /\ At(p, "idle")
    /\ \/ intent.status = "absent" /\ Goto(p, "detail")
       \/ /\ intent.status \notin {"absent", "CONFLICT"} /\ ~Projected
          /\ Goto(p, "project")
    /\ UNCHANGED <<Local, External>>

\* The order detail: no cargo yet, or the cargo Sopyo has by now.  Sopyo's
\* users may correct it between two looks.
PollDetail(p) ==
    /\ At(p, "detail")
    /\ \/ Return(p)
       \/ \E c \in Cargos : call' = [call EXCEPT ![p].pc = "record", ![p].cargo = c]
    /\ UNCHANGED <<Local, External>>

\* recordVerifiedSopyoShipmentIntent reads the row under the order lock, which
\* the updates of the executor do not take: they may come before its own.
RecordIntent(p) ==
    /\ At(p, "record")
    /\ \/ ~alloc.open /\ Return(p) /\ UNCHANGED intent
       \/ /\ alloc.open /\ intent.status = "absent"
          /\ intent' = [intent EXCEPT !.status = "CARGO_VERIFIED", !.cargo = call[p].cargo]
          /\ Goto(p, "project")
       \/ /\ alloc.open /\ intent.status \notin {"absent", "CONFLICT"}
          /\ Goto(p, IF intent.cargo = call[p].cargo THEN "project" ELSE "mismatch")
          /\ UNCHANGED intent
       \/ /\ alloc.open /\ intent.status = "CONFLICT"
          /\ Return(p)
          /\ UNCHANGED intent
    /\ UNCHANGED <<alloc, manual, External>>

RecordMismatch(p) ==
    /\ At(p, "mismatch")
    /\ intent' = [intent EXCEPT !.status = "CONFLICT", !.reason = "CARGO_MISMATCH"]
    /\ Return(p)
    /\ UNCHANGED <<alloc, manual, External>>

\* projectVerifiedSopyoCargo, with both rows locked.
LocalAgrees == alloc.cargo \in {NoCargo, intent.cargo} /\ alloc.ship # "other"

ProjectCargo(p) ==
    /\ At(p, "project")
    /\ \/ /\ ~alloc.open \/ intent.status = "CONFLICT"
          /\ UNCHANGED <<intent, alloc>>
       \/ /\ alloc.open /\ intent.status # "CONFLICT" /\ ~LocalAgrees
          /\ intent' = [intent EXCEPT !.status = "CONFLICT", !.reason = "LOCAL"]
          /\ UNCHANGED alloc
       \/ /\ alloc.open /\ intent.status # "CONFLICT" /\ LocalAgrees
          /\ alloc' = [alloc EXCEPT !.cargo = intent.cargo, !.ship = "transit"]
          /\ UNCHANGED intent
    /\ Return(p)
    /\ UNCHANGED <<manual, External>>

-----------------------------------------------------------------------------
(* The manual path: updateAllocationTracking *)

\* The claim under the order lock.
ManualMayClaimAlone == alloc.open /\ ~ManualHolds
ManualMayClaim == alloc.open /\ ~ManualHolds /\ ~SopyoHolds

ManualClaim(v) ==
    /\ At(v, "idle")
    /\ posts.manual < MaxManual
    /\ \A r \in wire : r.caller # v      \* every call is a request of its own
    /\ ManualMayClaim
    /\ manual' = [manual EXCEPT !.sync = "pending"]
    /\ \E c \in Cargos : call' = [call EXCEPT ![v].pc = "lookup", ![v].cargo = c]
    /\ UNCHANGED <<intent, alloc, External>>

ManualFailedStuck(v) ==
    /\ manual' = [manual EXCEPT !.sync = "unknown"]
    /\ Return(v)
    /\ UNCHANGED <<intent, alloc>>

ManualFailed(v) ==
    /\ manual' = [manual EXCEPT !.sync = "failed"]
    /\ alloc' = [alloc EXCEPT !.cargo = call[v].cargo, !.ship = "pre"]
    /\ Return(v)
    /\ UNCHANGED intent

\* The open fulfillment orders; an error here leaves the row pending.
ManualLookup(v) ==
    /\ At(v, "lookup")
    /\ \/ ~Taken /\ Goto(v, "post") /\ UNCHANGED Local
       \/ Taken /\ ManualFailed(v)
       \/ Return(v) /\ UNCHANGED Local
    /\ UNCHANGED External

ManualCreate(v) ==
    /\ At(v, "post")
    /\ Send(v, call[v].cargo, "manual")
    /\ Goto(v, "awaitManual")
    /\ UNCHANGED <<Local, shop>>

ManualNoAnswer(v) ==
    /\ At(v, "awaitManual")
    /\ call' = [call EXCEPT ![v].pc = "answeredManual", ![v].got = "unknown"]
    /\ UNCHANGED <<Local, External>>

ManualRecord(v) ==
    /\ At(v, "answeredManual")
    /\ \/ /\ call[v].got = "success"
          /\ manual' = [sync |-> "submitted", fid |-> call[v].fid]
          /\ alloc' = [alloc EXCEPT !.cargo = call[v].cargo, !.ship = "transit"]
          /\ Return(v)
          /\ UNCHANGED intent
       \/ call[v].got # "success" /\ ManualFailed(v)
    /\ UNCHANGED External

-----------------------------------------------------------------------------
(* Fulfillment webhooks: ingestFulfillmentWebhook *)

\* The state of the order is read from Shopify, inside the transaction.
HookRead(h) ==
    /\ At(h, "idle")
    /\ \/ \E i \in DOMAIN shop :
            /\ shop[i].live
            /\ call' = [call EXCEPT ![h] = [pc |-> "apply", got |-> "live", fid |-> i,
                                           cargo |-> shop[i].cargo, aside |-> FALSE]]
       \/ /\ ~Taken /\ shop # <<>>
          /\ call' = [call EXCEPT ![h].pc = "apply", ![h].got = "cancelled"]
    /\ UNCHANGED <<Local, External>>

\* A failure event of the carrier gives a status the projection does not know.
HookApply(h) ==
    /\ At(h, "apply")
    /\ \/ /\ call[h].got = "live"
          /\ manual' = [sync |-> "inbound", fid |-> call[h].fid]
          /\ \E ship \in {"transit", "other"} :
                alloc' = [alloc EXCEPT !.cargo = call[h].cargo, !.ship = ship]
       \/ /\ call[h].got = "cancelled"
          /\ manual' = [manual EXCEPT !.sync = "cancelled"]
          /\ alloc' = [alloc EXCEPT !.cargo = NoCargo, !.ship = "pre"]
    /\ Return(h)
    /\ UNCHANGED <<intent, External>>

-----------------------------------------------------------------------------
(* The environment *)

\* The process dies: its open transaction is rolled back, a request that has
\* left is on its way.
Crash(c) ==
    /\ ~At(c, "idle")
    /\ Return(c)
    /\ UNCHANGED <<Local, External>>

Awaiting(r) == call[r.caller].pc \in {"await", "awaitManual"}

\* The caller hears the answer unless it has gone, or the answer is lost.
Answer(r, got, fid) ==
    \/ /\ Awaiting(r)
       /\ call' = [call EXCEPT ![r.caller].pc = IF @ = "await" THEN "answered" ELSE "answeredManual",
                               ![r.caller].got = got, ![r.caller].fid = fid]
    \/ UNCHANGED call

\* Shopify processes a create, whether or not anybody waits for the answer.
Process(r) ==
    /\ wire' = wire \ {r}
    /\ \/ /\ ~Taken
          /\ shop' = Append(shop, [cargo |-> r.cargo, live |-> TRUE,
                        by |-> IF r.caller \in Workers THEN "sopyo" ELSE "manual"])
          /\ Answer(r, "success", Len(shop) + 1)
       \/ /\ UNCHANGED shop
          /\ Answer(r, "rejected", 0)
    /\ UNCHANGED <<Local, posts>>

\* Somebody fulfills, cancels or corrects tracking in Shopify Admin.
AdminFulfill ==
    /\ ~Taken
    /\ Cardinality({i \in DOMAIN shop : shop[i].by = "admin"}) < MaxForeign
    /\ \E c \in Cargos :
         shop' = Append(shop, [cargo |-> c, live |-> TRUE, by |-> "admin"])
    /\ UNCHANGED <<Local, call, wire, posts>>

AdminCancel ==
    /\ \E i \in DOMAIN shop :
         shop[i].live /\ shop' = [shop EXCEPT ![i].live = FALSE]
    /\ UNCHANGED <<Local, call, wire, posts>>

AdminRetrack ==
    /\ \E i \in DOMAIN shop, c \in Cargos :
         shop[i].live /\ shop' = [shop EXCEPT ![i].cargo = c]
    /\ UNCHANGED <<Local, call, wire, posts>>

\* A cancellation, a hold or a refund closes the allocation.
Close ==
    /\ alloc' = [alloc EXCEPT !.open = FALSE]
    /\ UNCHANGED <<intent, manual, call, External>>

-----------------------------------------------------------------------------
(* Specification *)

Plan(w) == Scan(w) \/ PlanRead(w) \/ PlanCommit(w)

Execute(w) ==
    \/ ExecuteRead(w) \/ ReadCanonical(w) \/ ClaimSubmission(w)
    \/ CreateFulfillment(w)
    \/ NoAnswer(w) \/ RecordCreated(w) \/ RecordNotCreated(w)

Reconcile(w) ==
    FetchComplete(w) \/ FetchPartial(w) \/ FetchFails(w) \/ Settle(w)

Poll(p) ==
    \/ PollScan(p) \/ PollDetail(p) \/ RecordIntent(p) \/ RecordMismatch(p)
    \/ ProjectCargo(p)

Manual(v) ==
    \/ ManualClaim(v) \/ ManualLookup(v) \/ ManualCreate(v) \/ ManualNoAnswer(v)
    \/ ManualRecord(v)

Environment ==
    \/ \E r \in wire : Process(r)
    \/ AdminFulfill \/ AdminCancel \/ AdminRetrack \/ Close

Next ==
    \/ \E w \in Workers : Plan(w) \/ Execute(w) \/ Reconcile(w)
    \/ \E p \in Pollers : Poll(p)
    \/ \E v \in Vendors : Manual(v)
    \/ \E h \in Hooks : HookRead(h) \/ HookApply(h)
    \/ \E c \in Calls : Crash(c)
    \/ Environment

Spec == Init /\ [][Next]_vars

\* The worker's interval fires again and again, and sooner or later a
\* reconciliation runs through between two crashes, with a complete read.
Fairness ==
    \A w \in Workers :
        /\ WF_vars(Execute(w))
        /\ WF_vars(Settle(w))
        /\ SF_vars(Scan(w))
        /\ SF_vars(ExecuteRead(w))
        /\ SF_vars(FetchComplete(w))
        /\ SF_vars(Settle(w) /\ call[w].got # "none")

FairSpec == Spec /\ Fairness

-----------------------------------------------------------------------------
(* Properties *)

\* Shopify has no idempotency key for a fulfillment, so whatever the workers,
\* restarts, lost answers and conflicts, one intent is submitted once.
OneSubmission == posts.sopyo <= 1

\* The two paths that submit a fulfillment claim against each other: once the
\* Sopyo path has crossed submission the vendor's claim is refused, and the
\* other way round.
ClaimsExclusive == ~(manual.sync = "pending" /\ intent.started)

\* A submission is durable before it is sent, and no later write makes the
\* intent look unsubmitted: not the planner's PLAN_READY, which is written
\* without looking at the status again, nor the answer to an old call.
SopyoSent == posts.sopyo > 0 \/ \E i \in DOMAIN shop : shop[i].by = "sopyo"
SubmissionRemembered ==
    SopyoSent => intent.started /\ intent.status \notin {"absent"} \cup BeforeSubmission

\* An identity once proven is neither lost nor replaced.
IdentityFixed == [][intent.fid # 0 => intent'.fid = intent.fid]_vars

\* A fulfillment Shopify made for the intent, whose answer may have been lost,
\* is found in the end, unless the intent conflicts or somebody cancels or
\* changes the fulfillment.
Unidentified(i) ==
    /\ i \in DOMAIN shop
    /\ shop[i].by = "sopyo"
    /\ Matches(i)
    /\ intent.fid = 0
    /\ intent.status # "CONFLICT"

CreatedIsIdentified ==
    \A i \in 1..(MaxForeign + MaxManual + 1) : Unidentified(i) ~> ~Unidentified(i)

\* "never lose a proven Shopify identity": a create whose answer is a match is
\* recorded by the call that made it, also when the intent conflicts meanwhile.
ProvenIsRecorded ==
    [][\A w \in Workers : RecordCreated(w) => intent'.fid # 0]_vars

=============================================================================
