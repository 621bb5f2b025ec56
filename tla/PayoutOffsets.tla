--------------------------- MODULE PayoutOffsets ---------------------------
(***************************************************************************)
(* From a sale to the money of one vendor: settlement approvals, payout    *)
(* batches, and the refunds that have to be taken off on the way.          *)
(*                                                                         *)
(* A refund that finds its sale in no settlement is a line of the draft    *)
(* that takes the sale (a direct refund).  One that finds the sale         *)
(* approved becomes a SettlementRefundAdjustment, which later drafts apply *)
(* in portions and payout batches reserve ("R1" claims), consume when they *)
(* are paid and release when they are cancelled.                           *)
(*                                                                         *)
(* Operations lock the Vendor row first, so most are one action.  Three     *)
(* things overlap with others: a refund, which holds the row from what it  *)
(* reads to what it writes; the approval of a settlement and the backfill  *)
(* of adjustments, which do not take the row; and SERIALIZABLE operations  *)
(* that waited for the row, which still see what was there before.         *)
(***************************************************************************)
EXTENDS Integers, FiniteSets, Sums

CONSTANTS Sales,         \* allocations, with one sale ledger row each
          Refunds,       \* refund records, with one refund ledger row each
          SaleOf,        \* the sale a refund belongs to
          SaleAmount,    \* what the vendor is owed for a sale
          RefundAmount,  \* what a refund takes back from the vendor
          MaxApprovals,  \* settlement drafts ever made
          MaxBatches     \* payout batches ever made

Approvals == 1 .. MaxApprovals
Batches == 1 .. MaxBatches
NoApproval == 0

ASSUME ConstantsAssumption ==
    /\ IsFiniteSet(Sales) /\ IsFiniteSet(Refunds)
    /\ Sales \cap Refunds = {}
    /\ SaleOf \in [Refunds -> Sales]
    /\ SaleAmount \in [Sales -> Nat]
    /\ RefundAmount \in [Refunds -> Nat]
    /\ MaxApprovals \in Nat
    /\ MaxBatches \in Nat

VARIABLES sale,        \* payoutStatus of each sale ledger row
          refund,      \* payoutStatus of each refund ledger row, and its age
          adjustment,  \* SettlementRefundAdjustment of each refund
          approval,    \* SettlementApproval with its lines
          batch,       \* PayoutBatch with its lines
          claim,       \* PayoutOffsetClaims of each batch
          arrival,     \* the transaction that ingests a refund
          backfill     \* the origin a backfill has read for a refund

vars == <<sale, refund, adjustment, approval, batch, claim, arrival, backfill>>

-----------------------------------------------------------------------------
(* State *)

SaleStatus == {"pending", "paid", "cashless"}

\* "offset" is HOLD with the reason 'Refund offset required before payout.'
RefundStatus == {"absent", "pending", "hold", "offset", "paid", "cashless"}
RefundRows == [ledger : RefundStatus, before : SUBSET Refunds]

\* PENDING, PARTIALLY_APPLIED and APPLIED follow from applied and remaining.
Adjustments == [exists : BOOLEAN, origin : Approvals \cup {NoApproval},
                applied : Int, remaining : Nat, before : SUBSET Refunds]

\* applied holds the ACTIVE applications, by refund; known the refunds of its
\* sales that existed at the draft; before the approvals approved earlier.
ApprovalRows == [status : {"none", "draft", "approved", "cancelled"},
                 sales : SUBSET Sales, refunds : SUBSET Refunds,
                 applied : [Refunds -> Nat], known : SUBSET Refunds,
                 before : SUBSET Approvals]

Lines == [approval : Approvals, kind : {"sale"}, item : Sales]
             \cup [approval : Approvals, kind : {"refund", "adjustment"}, item : Refunds]

BatchRows == [status : {"none", "draft", "review", "paid", "cashless", "cancelled"},
              lines : SUBSET Lines, known : SUBSET Refunds]

Claims == [status : {"none", "RESERVED", "FINALIZED", "RELEASED"},
           amount : [Approvals -> [Refunds -> Nat]]]

\* "overtaken": an operation with an older snapshot has acted meanwhile.
Arrivals == [phase : {"none", "reading", "overtaken"}, ledger : RefundStatus,
             origin : Approvals \cup {NoApproval}]

Nothing == [r \in Refunds |-> 0]
NoArrival == [phase |-> "none", ledger |-> "absent", origin |-> NoApproval]
NoRefund == [ledger |-> "absent", before |-> {}]
NoAdjustment == [exists |-> FALSE, origin |-> NoApproval, applied |-> 0,
                 remaining |-> 0, before |-> {}]

\* The lines of a cancelled approval matter only through a batch that still
\* lists them, and a batch keeps its own copy.
Blank(status) == [status |-> status, sales |-> {}, refunds |-> {},
                  applied |-> Nothing, known |-> {}, before |-> {}]
NoBatch == [status |-> "none", lines |-> {}, known |-> {}]
NoClaim == [status |-> "none", amount |-> [a \in Approvals |-> Nothing]]

Init ==
    /\ sale = [s \in Sales |-> "pending"]
    /\ refund = [r \in Refunds |-> NoRefund]
    /\ adjustment = [r \in Refunds |-> NoAdjustment]
    /\ approval = [a \in Approvals |-> Blank("none")]
    /\ batch = [b \in Batches |-> NoBatch]
    /\ claim = [b \in Batches |-> NoClaim]
    /\ arrival = [r \in Refunds |-> NoArrival]
    /\ backfill = [r \in Refunds |-> NoApproval]

-----------------------------------------------------------------------------
(* Reading the tables *)

AtLeastZero(n) == IF n \in Nat THEN n ELSE 0

Arrived == {r \in Refunds : refund[r].ledger # "absent"}
RefundsOf(s) == {r \in Arrived : SaleOf[r] = s}

Live(a) == approval[a].status \in {"draft", "approved"}
Approved(a) == approval[a].status = "approved"
HasRefundRow(a, r) == r \in approval[a].refunds \/ approval[a].applied[r] > 0

LinesOf(a) ==
    [approval : {a}, kind : {"sale"}, item : approval[a].sales]
        \cup [approval : {a}, kind : {"refund"}, item : approval[a].refunds]
        \cup [approval : {a}, kind : {"adjustment"},
              item : {r \in Refunds : approval[a].applied[r] > 0}]

ApprovalsOf(lines) == {l.approval : l \in lines}

Impact(l) == CASE l.kind = "sale" -> SaleAmount[l.item]
               [] l.kind = "refund" -> -RefundAmount[l.item]
               [] l.kind = "adjustment" -> -approval[l.approval].applied[l.item]
Net(lines) == Sum([l \in lines |-> Impact(l)], lines)

\* Refund lines are not taken off what an approval can pay.
CapacityOfSales(a, lines) == Net({l \in lines : l.approval = a /\ l.kind = "sale"})

Capacity(a, lines) == Net({l \in lines : l.approval = a})

Open(b) == batch[b].status \in {"draft", "review"}
Final(b) == batch[b].status \in {"paid", "cashless"}
Active(b) == Open(b) \/ Final(b)

\* The search for other batches is dropped.
InOtherBatchUnseen(l, b) == FALSE

InOtherBatch(l, b) == \E c \in Batches \ {b} : Active(c) /\ l \in batch[c].lines
RowInOtherBatch(item, b) ==
    \E c \in Batches \ {b} : Active(c) /\ \E l \in batch[c].lines : l.item = item

NoBatchId == 0

\* A sale no live approval other than a has, and no batch.
RefundStillOffsets(r, a) ==
    /\ sale[SaleOf[r]] # "paid"
    /\ ~RowInOtherBatch(SaleOf[r], NoBatchId)
    /\ ~\E c \in Approvals \ {a} : Live(c) /\ SaleOf[r] \in approval[c].sales

ClaimOf(amount, r) == Sum([a \in Approvals |-> amount[a][r]], Approvals)
ClaimedOf(r, status) ==
    Sum([b \in Batches |-> IF claim[b].status = status THEN ClaimOf(claim[b].amount, r) ELSE 0],
        Batches)
Reserved(r) == ClaimedOf(r, "RESERVED")
Finalized(r) == ClaimedOf(r, "FINALIZED")
ActivelyApplied(r) == Sum([a \in Approvals |-> approval[a].applied[r]], Approvals)
Claimed(r) == Reserved(r) > 0 \/ Finalized(r) > 0

Outstanding == {r \in Refunds : adjustment[r].remaining > 0}

\* Drafts and reservations forget what other batches have reserved.
UnreservedAll(r) == adjustment[r].remaining

Unreserved(r) == adjustment[r].remaining - Reserved(r)

\* What the adjustment, its applications and its claims have to agree on
\* before any claim may be made or used.
Verified(r) ==
    /\ ~\E a \in Approvals : Live(a) /\ r \in approval[a].refunds
    /\ ActivelyApplied(r) + Finalized(r) = adjustment[r].applied
    /\ adjustment[r].applied + adjustment[r].remaining = RefundAmount[r]
    /\ Reserved(r) <= adjustment[r].remaining
AllVerified == \A r \in Refunds : adjustment[r].exists => Verified(r)

-----------------------------------------------------------------------------
(* Refunds *)

Opened(r, a) == [exists |-> TRUE, origin |-> a, applied |-> 0,
                 remaining |-> RefundAmount[r],
                 before |-> {q \in Refunds : adjustment[q].exists}]

\* Ingestion writes the settlement status into the payout status.
ArrivalLedgerSwapped(r) == IF RefundStillOffsets(r, NoApproval) THEN "pending" ELSE "held"

\* Ingestion looks for a batch that is not final yet.
ArrivalLedger(r) ==
    LET s == SaleOf[r]
        batched == \E b \in Batches : Open(b) /\ \E l \in batch[b].lines : l.item = s
        approved == \E a \in Approvals : Approved(a) /\ s \in approval[a].sales
        drafted == \E a \in Approvals : Live(a) /\ s \in approval[a].sales
    IN  IF approved THEN "hold"
        ELSE IF batched THEN "offset" ELSE IF drafted THEN "hold" ELSE "pending"

Origins(s) == {a \in Approvals : Approved(a) /\ s \in approval[a].sales}

VendorRowFree == \A r \in Refunds : arrival[r] = NoArrival
NoneOvertaken == \A r \in Refunds : arrival[r].phase # "overtaken"

\* A SERIALIZABLE operation that waited for the Vendor row acts after the
\* refund that held it, on the state before; one operation for each refund.
BeforeArrival ==
    /\ NoneOvertaken
    /\ arrival' = [r \in Refunds |->
           IF arrival[r].phase = "reading" THEN [arrival[r] EXCEPT !.phase = "overtaken"]
           ELSE arrival[r]]

\* A refund of a paid sale is a vendor debt, which is not modelled.
RefundRead(r) ==
    /\ VendorRowFree
    /\ r \notin Arrived
    /\ sale[SaleOf[r]] # "paid"
    /\ \E a \in Origins(SaleOf[r]) \cup {NoApproval} :
           /\ a = NoApproval => Origins(SaleOf[r]) = {}
           /\ arrival' = [arrival EXCEPT ![r] =
                  [phase |-> "reading", ledger |-> ArrivalLedger(r), origin |-> a]]
    /\ UNCHANGED <<sale, refund, adjustment, approval, batch, claim, backfill>>

\* The origin is looked for after the payout status is decided, so it may be
\* a settlement approved in between.
RefundWrite(r) ==
    /\ arrival[r].phase # "none"
    /\ refund' = [refund EXCEPT ![r] = [ledger |-> arrival[r].ledger, before |-> Arrived]]
    /\ \/ /\ arrival[r].origin = NoApproval
          /\ UNCHANGED adjustment
       \/ \E a \in IF arrival[r].origin = NoApproval THEN Origins(SaleOf[r])
                    ELSE {arrival[r].origin} :
              adjustment' = [adjustment EXCEPT ![r] = Opened(r, a)]
    /\ arrival' = [arrival EXCEPT ![r] = NoArrival]
    /\ UNCHANGED <<sale, approval, batch, claim, backfill>>

\* The operator's repair, one call at a time.  It does not look for a direct
\* line of the refund.
BackfillRead(r) ==
    /\ NoneOvertaken
    /\ backfill = [q \in Refunds |-> NoApproval]
    /\ r \in Arrived
    /\ ~adjustment[r].exists
    /\ sale[SaleOf[r]] # "paid"
    /\ \E a \in Origins(SaleOf[r]) : backfill' = [backfill EXCEPT ![r] = a]
    /\ UNCHANGED <<sale, refund, adjustment, approval, batch, claim, arrival>>

\* The upsert leaves an adjustment that exists by now.
BackfillWrite(r) ==
    /\ NoneOvertaken
    /\ backfill[r] # NoApproval
    /\ adjustment' = IF adjustment[r].exists THEN adjustment
                     ELSE [adjustment EXCEPT ![r] = Opened(r, backfill[r])]
    /\ backfill' = [backfill EXCEPT ![r] = NoApproval]
    /\ UNCHANGED <<sale, refund, approval, batch, claim, arrival>>

BackfillFails(r) ==
    /\ NoneOvertaken
    /\ backfill[r] # NoApproval
    /\ backfill' = [backfill EXCEPT ![r] = NoApproval]
    /\ UNCHANGED <<sale, refund, adjustment, approval, batch, claim, arrival>>

-----------------------------------------------------------------------------
(* Settlement approvals *)

DraftSales(scope) ==
    {s \in scope : sale[s] # "paid" /\ ~\E a \in Approvals : Live(a) /\ s \in approval[a].sales}

DraftRefunds(scope) ==
    {r \in Arrived : /\ SaleOf[r] \in scope
                     /\ refund[r].ledger # "paid"
                     /\ RefundStillOffsets(r, NoApproval)
                     /\ ~\E a \in Approvals : Live(a) /\ HasRefundRow(a, r)}

Amounts == {0} \cup UNION {0 .. RefundAmount[r] : r \in Refunds}
Portions == {f \in [Refunds -> Amounts] :
                 \A r \in Refunds : f[r] <= adjustment[r].remaining}

Consume(f) ==
    adjustment' = [r \in Refunds |->
        [adjustment[r] EXCEPT !.applied = @ + f[r], !.remaining = @ - f[r]]]

\* Adjustments in the order of their creation, each as far as the rest goes.
OldestFirst(f, available) ==
    \A r \in Refunds :
        LET rest == available - Sum(f, adjustment[r].before)
        IN  f[r] = IF r \in Outstanding
                   THEN AtLeastZero(IF rest < Unreserved(r) THEN rest ELSE Unreserved(r))
                   ELSE 0

NextApproval(a) == approval[a].status = "none" /\ \A c \in 1 .. (a - 1) : approval[c].status # "none"

Draft(a, scope) ==
    LET sales == DraftSales(scope)
        refunds == DraftRefunds(scope)
        net == Sum(SaleAmount, sales) - Sum(RefundAmount, refunds)
    IN
    /\ NextApproval(a)
    /\ sales \cup refunds # {}
    /\ \A r \in refunds : ~Claimed(r)
    /\ \A r \in Outstanding : Claimed(r) => Verified(r)
    /\ \E f \in Portions :
           /\ OldestFirst(f, AtLeastZero(net))
           /\ \A r \in refunds : f[r] = 0  \* one line for a ledger row
           /\ approval' = [approval EXCEPT ![a] =
                  [status |-> "draft", sales |-> sales, refunds |-> refunds, applied |-> f,
                   known |-> {r \in Arrived : SaleOf[r] \in sales}, before |-> {}]]
           /\ Consume(f)
    /\ BeforeArrival
    /\ UNCHANGED <<sale, refund, batch, claim, backfill>>

SaleApprovable(a, s) ==
    /\ sale[s] # "paid"
    /\ ~RowInOtherBatch(s, NoBatchId)
    /\ ~\E c \in Approvals \ {a} : Live(c) /\ s \in approval[c].sales
    /\ RefundsOf(s) \subseteq approval[a].known

RefundApprovable(a, r) ==
    /\ refund[r].ledger # "paid"
    /\ ~RowInOtherBatch(r, NoBatchId)
    /\ ~\E c \in Approvals \ {a} : Live(c) /\ HasRefundRow(c, r)
    /\ RefundStillOffsets(r, a)

\* Refused once another portion of the refund was paid (ledger_paid).
PortionApprovable(a, r) == refund[r].ledger # "paid"

Approve(a) ==
    /\ NoneOvertaken
    /\ approval[a].status = "draft"
    /\ \A s \in approval[a].sales : SaleApprovable(a, s)
    /\ \A r \in approval[a].refunds : RefundApprovable(a, r)
    /\ \A r \in Refunds : approval[a].applied[r] > 0 => PortionApprovable(a, r)
    /\ approval' = [approval EXCEPT ![a].status = "approved",
                                    ![a].before = {c \in Approvals : Approved(c)}]
    /\ UNCHANGED <<sale, refund, adjustment, batch, claim, arrival, backfill>>

\* A cashless payout does not hold its settlement.
HeldByPaidOnly(a) ==
    \E b \in Batches : batch[b].status = "paid" /\ \E l \in batch[b].lines : l.approval = a

\* Only a final batch holds an approval; one under way does not, nor do
\* reserved claims, nor adjustments that originate in it.
HeldByPayout(a) == \E b \in Batches : Final(b) /\ \E l \in batch[b].lines : l.approval = a

CancelSettlement(a) ==
    /\ Live(a)
    /\ ~HeldByPayout(a)
    /\ adjustment' = [r \in Refunds |->
           [adjustment[r] EXCEPT !.applied = @ - approval[a].applied[r],
                                 !.remaining = @ + approval[a].applied[r]]]
    /\ approval' = [approval EXCEPT ![a] = Blank("cancelled")]
    /\ BeforeArrival
    /\ UNCHANGED <<sale, refund, batch, claim, backfill>>

-----------------------------------------------------------------------------
(* Which approved lines a payout may take *)

\* A refund without an adjustment does not hold its sale.
UnsettledByAdjustment(r) == adjustment[r].remaining > 0

\* A refund no settlement has taken off yet.
Unsettled(r) ==
    \/ adjustment[r].remaining > 0
    \/ /\ sale[SaleOf[r]] # "paid"
       /\ ~\E a \in Approvals : Approved(a) /\ HasRefundRow(a, r)
       /\ \E a \in Approvals : Approved(a) /\ SaleOf[r] \in approval[a].sales

SaleAtRisk(s, covered) == \E r \in RefundsOf(s) \ covered : Unsettled(r)

RowPayable(l, covered) ==
    CASE l.kind = "adjustment" -> TRUE
      [] l.kind = "sale" -> sale[l.item] = "pending" /\ ~SaleAtRisk(l.item, covered)
      [] l.kind = "refund" ->
             /\ ~Unsettled(l.item)
             /\ \/ refund[l.item].ledger = "pending"
                \/ /\ refund[l.item].ledger \in {"hold", "offset"}
                   /\ RefundStillOffsets(l.item, NoApproval)

Selected(covered) ==
    {l \in UNION {LinesOf(a) : a \in {c \in Approvals : Approved(c)}} :
         ~InOtherBatch(l, NoBatchId) /\ RowPayable(l, covered)}

\* A selected line must not leave a refund of its own approval behind.
BlockedApprovals(covered) ==
    {a \in Approvals : /\ Approved(a)
                       /\ \/ \E s \in approval[a].sales : SaleAtRisk(s, covered)
                          \/ \E r \in Arrived : HasRefundRow(a, r) /\ Unsettled(r)}

Selectable(covered) ==
    /\ Selected(covered) # {}
    /\ ApprovalsOf(Selected(covered)) \cap BlockedApprovals(covered) = {}

NextBatch(b) == batch[b].status = "none" /\ \A c \in 1 .. (b - 1) : batch[c].status # "none"

\* Stamped after a refund it waited for, or before.
Prepared(b, lines) ==
    \E known \in {Arrived, Arrived \cup {r \in Refunds : arrival[r].phase = "reading"}} :
        batch' = [batch EXCEPT ![b] = [status |-> "draft", lines |-> lines, known |-> known]]

\* The route when R1 is off, or on and there is nothing to reserve.
PrepareOrdinary(b) ==
    /\ NextBatch(b)
    /\ Selectable({})
    /\ Prepared(b, Selected({}))
    /\ BeforeArrival
    /\ UNCHANGED <<sale, refund, adjustment, approval, claim, backfill>>

-----------------------------------------------------------------------------
(* Reserving adjustments for a payout *)

OriginLine(r) == [approval |-> adjustment[r].origin, kind |-> "sale", item |-> SaleOf[r]]

\* Adjustments whose original sale line may be paid together with the claim.
OwnRefunds == {r \in Outstanding : Verified(r) /\ Approved(adjustment[r].origin)}

PaidOut(l) ==
    \E b \in Batches :
        /\ l \in batch[b].lines
        /\ LET status == IF l.kind = "sale" THEN sale[l.item] ELSE refund[l.item].ledger
           IN  status \in {"paid", "cashless"} /\ batch[b].status = status

ReservedOn(a) ==
    Sum([b \in Batches |-> IF claim[b].status = "RESERVED" THEN Sum(claim[b].amount[a], Refunds) ELSE 0],
        Batches)

\* An approval older than all in the batch must be paid, held by its own
\* refund outside every batch, or reserved in full.
OlderSettled(lines) ==
    \A a \in Approvals \ ApprovalsOf(lines) :
        (Approved(a) /\ \A c \in ApprovalsOf(lines) : a \in approval[c].before) =>
            \/ \A l \in LinesOf(a) : PaidOut(l)
            \/ /\ \E r \in Outstanding : adjustment[r].origin = a
               /\ \A l \in LinesOf(a) : ~InOtherBatch(l, NoBatchId)
            \/ /\ Net(LinesOf(a)) > 0
               /\ ReservedOn(a) >= Net(LinesOf(a))

\* Every adjustment of the vendor has to qualify, even a consumed one.
SourcesQualify(lines) ==
    \A r \in Refunds : adjustment[r].exists =>
        /\ Approved(adjustment[r].origin)
        /\ adjustment[r].origin \in ApprovalsOf(lines) => OriginLine(r) \in lines

\* Approvals in the order of approval take refunds in the order of arrival:
\* each pair gets the overlap of their two stretches of the running total.
Allocation(lines) ==
    LET cap == [a \in Approvals |-> Capacity(a, lines)]
        free == [r \in Refunds |-> AtLeastZero(Unreserved(r))]
        capFrom(a) == Sum(cap, {c \in ApprovalsOf(lines) : c \in approval[a].before})
        freeFrom(r) == Sum(free, refund[r].before)
        lesser(m, n) == IF m < n THEN m ELSE n
        greater(m, n) == IF m > n THEN m ELSE n
    IN  [a \in Approvals |-> [r \in Refunds |->
            IF a \notin ApprovalsOf(lines) THEN 0
            ELSE AtLeastZero(lesser(capFrom(a) + cap[a], freeFrom(r) + free[r])
                                 - greater(capFrom(a), freeFrom(r)))]]

OffsetTotal(amount) == Sum([r \in Refunds |-> ClaimOf(amount, r)], Refunds)

\* assertR1PayoutMonetaryAuthority over the lines and claims of one batch.
Authority(lines, amount, ownCoverage) ==
    /\ \A a \in ApprovalsOf(lines) : Approved(a)
    /\ Net(lines) > 0
    /\ OffsetTotal(amount) > 0
    /\ OffsetTotal(amount) <= Net(lines)
    /\ \A a \in ApprovalsOf(lines) : Sum(amount[a], Refunds) <= Capacity(a, lines)
    /\ ownCoverage =>
           \A r \in Outstanding : OriginLine(r) \in lines =>
               ClaimOf(amount, r) = adjustment[r].remaining

PrepareR1(b) ==
    LET lines == Selected(OwnRefunds)
        amount == Allocation(lines)
    IN
    /\ NextBatch(b)
    /\ AllVerified
    /\ \E r \in Outstanding : Unreserved(r) > 0
    /\ Selectable(OwnRefunds)
    /\ \A a \in ApprovalsOf(lines) : Capacity(a, lines) >= 0
    /\ OlderSettled(lines)
    /\ SourcesQualify(lines)
    /\ Authority(lines, amount, TRUE)
    /\ Prepared(b, lines)
    /\ claim' = [claim EXCEPT ![b] = [status |-> "RESERVED", amount |-> amount]]
    /\ BeforeArrival
    /\ UNCHANGED <<sale, refund, adjustment, approval, backfill>>

-----------------------------------------------------------------------------
(* A batch on its way to the bank *)

Holding(b) == claim[b].status = "RESERVED"

\* Own refunds are demanded in full when a batch is released, too.
AuthorityWithOwn(b, ownCoverage) ==
    Holding(b) /\ AllVerified /\ Authority(batch[b].lines, claim[b].amount, TRUE)

AuthorityOf(b, ownCoverage) ==
    Holding(b) /\ AllVerified /\ Authority(batch[b].lines, claim[b].amount, ownCoverage)

SaleOfRow(l) == IF l.kind = "sale" THEN l.item ELSE SaleOf[l.item]

\* Only the sale row of an allocation is relieved of the covered refunds.
SeenBy(l, covered) ==
    IF l.kind = "sale" THEN RefundsOf(l.item) \ covered ELSE RefundsOf(SaleOfRow(l))

TransitionOk(b, covered) ==
    \A l \in batch[b].lines :
        /\ Approved(l.approval)
        /\ ~InOtherBatch(l, b)
        /\ SeenBy(l, covered) \subseteq batch[b].known
        /\ \A r \in SeenBy(l, covered) : refund[r].ledger # "offset"
        /\ l.kind # "adjustment" =>
               /\ RowPayable(l, covered)
               /\ ~RowInOtherBatch(l.item, b)
               /\ l.kind = "refund" => refund[l.item].ledger # "hold"

Covered(b) == {r \in Refunds : ClaimOf(claim[b].amount, r) > 0 /\ OriginLine(r) \in batch[b].lines}
CoverageHolds(b) == \A r \in Covered(b) : ClaimOf(claim[b].amount, r) = adjustment[r].remaining

ReviewOrdinary(b) ==
    /\ VendorRowFree
    /\ batch[b].status = "draft"
    /\ ~Holding(b)
    /\ TransitionOk(b, {})
    /\ batch' = [batch EXCEPT ![b].status = "review"]
    /\ UNCHANGED <<sale, refund, adjustment, approval, claim, arrival, backfill>>

ReviewR1(b) ==
    /\ batch[b].status = "draft"
    /\ AuthorityOf(b, TRUE)
    /\ CoverageHolds(b)
    /\ TransitionOk(b, Covered(b))
    /\ batch' = [batch EXCEPT ![b].status = "review"]
    /\ BeforeArrival
    /\ UNCHANGED <<sale, refund, adjustment, approval, claim, backfill>>

\* A cancelled batch keeps its claims.
ReleaseKeepsClaims(b) ==
    /\ batch' = [batch EXCEPT ![b].status = "cancelled"]
    /\ UNCHANGED <<sale, refund, adjustment, approval, claim, backfill>>

Release(b) ==
    /\ batch' = [batch EXCEPT ![b].status = "cancelled"]
    /\ claim' = IF Holding(b) THEN [claim EXCEPT ![b].status = "RELEASED"] ELSE claim
    /\ UNCHANGED <<sale, refund, adjustment, approval, backfill>>

CancelDraftBatch(b) ==
    /\ VendorRowFree
    /\ batch[b].status = "draft"
    /\ Release(b)
    /\ UNCHANGED arrival

CancelR1Review(b) ==
    /\ batch[b].status = "review"
    /\ AuthorityOf(b, FALSE)
    /\ Release(b)
    /\ BeforeArrival

\* Every ledger row with a line in the batch, an adjustment's refund included.
Settled(b, status) ==
    LET rows == {l.item : l \in batch[b].lines}
    IN  /\ sale' = [s \in Sales |-> IF s \in rows THEN status ELSE sale[s]]
        /\ refund' = [r \in Refunds |-> IF r \in rows THEN [refund[r] EXCEPT !.ledger = status]
                                        ELSE refund[r]]
        /\ batch' = [batch EXCEPT ![b].status = status]

PayOrdinary(b) ==
    /\ VendorRowFree
    /\ batch[b].status = "review"
    /\ ~Holding(b)
    /\ TransitionOk(b, {})
    /\ Settled(b, "paid")
    /\ UNCHANGED <<adjustment, approval, claim, arrival, backfill>>

FinalizeClaims(b) ==
    /\ \E f \in Portions :
           /\ \A r \in Refunds : f[r] = ClaimOf(claim[b].amount, r)
           /\ Consume(f)
    /\ claim' = [claim EXCEPT ![b].status = "FINALIZED"]
    /\ BeforeArrival
    /\ UNCHANGED <<approval, backfill>>

\* Refunds of the sales in the batch that neither a line nor a claim takes off.
Missed(b) ==
    {r \in Arrived : /\ \E l \in batch[b].lines : l.kind = "sale" /\ l.item = SaleOf[r]
                     /\ r \notin Covered(b)
                     /\ ~\E l \in batch[b].lines : l.kind # "sale" /\ l.item = r}

\* The transfer has already left the bank: a refund that came after the batch
\* was made does not stop it, if its adjustment will be taken off later.
PayR1(b) ==
    /\ batch[b].status = "review"
    /\ AuthorityOf(b, FALSE)
    /\ Net(batch[b].lines) > OffsetTotal(claim[b].amount)
    /\ CoverageHolds(b)
    /\ \A r \in Missed(b) : /\ r \notin batch[b].known
                            /\ adjustment[r].exists
                            /\ OriginLine(r) \in batch[b].lines
    /\ TransitionOk(b, Covered(b) \cup Missed(b))
    /\ FinalizeClaims(b)
    /\ Settled(b, "paid")

CompleteCashless(b) ==
    /\ batch[b].status = "review"
    /\ AuthorityOf(b, TRUE)
    /\ Net(batch[b].lines) = OffsetTotal(claim[b].amount)
    /\ CoverageHolds(b)
    /\ TransitionOk(b, Covered(b))
    /\ \A l \in batch[b].lines : l.kind # "sale" => refund[l.item].ledger # "paid"
    /\ FinalizeClaims(b)
    /\ Settled(b, "cashless")

-----------------------------------------------------------------------------

RefundSteps == \E r \in Refunds : \/ RefundRead(r)
                                  \/ RefundWrite(r)
                                  \/ BackfillRead(r)
                                  \/ BackfillWrite(r)
                                  \/ BackfillFails(r)

ApprovalSteps ==
    \E a \in Approvals : \/ \E scope \in SUBSET Sales : Draft(a, scope)
                         \/ Approve(a)
                         \/ CancelSettlement(a)

BatchSteps ==
    \E b \in Batches : \/ PrepareOrdinary(b)
                       \/ PrepareR1(b)
                       \/ ReviewOrdinary(b)
                       \/ ReviewR1(b)
                       \/ CancelDraftBatch(b)
                       \/ CancelR1Review(b)
                       \/ PayOrdinary(b)
                       \/ PayR1(b)
                       \/ CompleteCashless(b)

Next == RefundSteps \/ ApprovalSteps \/ BatchSteps

Spec == Init /\ [][Next]_vars

-----------------------------------------------------------------------------
(* What must hold *)

\* The tables have their types.
TypeOK ==
    /\ sale \in [Sales -> SaleStatus]
    /\ refund \in [Refunds -> RefundRows]
    /\ adjustment \in [Refunds -> Adjustments]
    /\ approval \in [Approvals -> ApprovalRows]
    /\ batch \in [Batches -> BatchRows]
    /\ claim \in [Batches -> Claims]
    /\ arrival \in [Refunds -> Arrivals]
    /\ backfill \in [Refunds -> Approvals \cup {NoApproval}]

\* What a refund takes back is neither lost nor made up while drafts apply it,
\* batches reserve, consume and release it and cancelled drafts give it back:
\* applied and remaining make up the refund, the active applications and the
\* finalized claims make up applied, and reservations fit in the rest.
Conserved ==
    \A r \in Refunds : adjustment[r].exists =>
        /\ adjustment[r].applied + adjustment[r].remaining = RefundAmount[r]
        /\ ActivelyApplied(r) + Finalized(r) = adjustment[r].applied
        /\ Reserved(r) <= adjustment[r].remaining

\* No sale is in two payouts under way or final, although its approval may be
\* cancelled while a batch lists its line, and the sale drafted again.
ListedOnce ==
    \A b, c \in Batches :
        \A l \in batch[b].lines, m \in batch[c].lines :
            (Active(b) /\ Active(c) /\ l.kind = "sale" /\ m.kind = "sale" /\ l.item = m.item) => b = c

\* The settlement a payout was made under is never cancelled afterwards.
PaidStaysApproved ==
    \A b \in Batches : Final(b) => \A l \in batch[b].lines : Approved(l.approval)

\* Claims are reserved exactly while their batch is under way, consumed when
\* it is paid and released when it is cancelled.
ClaimsFollowBatch ==
    \A b \in Batches :
        /\ claim[b].status = "RESERVED" => Open(b)
        /\ claim[b].status = "FINALIZED" => Final(b)
        /\ claim[b].status = "RELEASED" => batch[b].status = "cancelled"
        /\ batch[b].status = "cashless" => claim[b].status = "FINALIZED"

\* A payout never takes more off an approval than the approval pays, summed
\* over its sale, refund and adjustment lines: none is negative.
NeverNegative ==
    \A b \in Batches : (Final(b) /\ claim[b].status = "FINALIZED") =>
        \A a \in ApprovalsOf(batch[b].lines) :
            Sum(claim[b].amount[a], Refunds) <= Net({l \in batch[b].lines : l.approval = a})

\* When a sale is paid, each of its refunds has an adjustment or is a line of
\* an approved settlement: none is forgotten between the two.
RefundAccounted ==
    \A r \in Arrived : sale[SaleOf[r]] \in {"paid", "cashless"} =>
        \/ adjustment[r].exists
        \/ \E a \in Approvals : Approved(a) /\ HasRefundRow(a, r)

\* While its settlements stand and the vendor's adjustments are sound, a batch
\* in review with claims can still be released: a refund that arrives late, a
\* draft or another payout on the same adjustments does not strand its claims.
ReviewReleasable ==
    \A b \in Batches :
        (/\ batch[b].status = "review"
         /\ Holding(b)
         /\ AllVerified
         /\ \A l \in batch[b].lines : Approved(l.approval)) => AuthorityOf(b, FALSE)

\* Violated.  "Negatif payout ve aynı iadeye çift tüketim yoktur" (no negative
\* payout and no double consumption of one refund): what the final payouts
\* took off for a refund is at most the refund.
Deducted(r) ==
    Sum([b \in Batches |-> IF Final(b)
                           THEN ClaimOf(claim[b].amount, r)
                                    - Net({l \in batch[b].lines : l.kind # "sale" /\ l.item = r})
                           ELSE 0], Batches)
NotConsumedTwice == \A r \in Refunds : Deducted(r) <= RefundAmount[r]

\* Violated.  "refund rows reduce payout preparation": a payout of a sale takes
\* along the refunds of that sale that were approved with it.
RefundReducesPayout ==
    \A b \in Batches : Final(b) =>
        \A l \in batch[b].lines : l.kind = "sale" =>
            \A r \in approval[l.approval].refunds : SaleOf[r] = l.item =>
                \E c \in Batches : Active(c) /\ \E m \in batch[c].lines : m.kind = "refund" /\ m.item = r

=============================================================================
