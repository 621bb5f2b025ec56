------------------------- MODULE PayoutOffsets_proofs -------------------------
(***************************************************************************)
(* Proofs about the payouts of a vendor, for any sales and refunds, any    *)
(* amounts, and any number of settlements and batches.                     *)
(*                                                                         *)
(* Sums stay unexpanded: no fact below needs what they add up to.          *)
(***************************************************************************)
EXTENDS PayoutOffsets, TLAPS

-----------------------------------------------------------------------------
(* The inductive invariant *)

\* Two settlements that stand share no sale.
OneSettlement ==
    \A a, c \in Approvals :
        Live(a) /\ Live(c) /\ approval[a].sales \cap approval[c].sales # {} => a = c

\* A batch that is not cancelled lists what was approved, and no settlement
\* approved meanwhile has one of its sales.
LinesInv ==
    \A b \in Batches : Active(b) => \A l \in batch[b].lines :
        /\ approval[l.approval].status \in {"approved", "cancelled"}
        /\ l.kind = "adjustment" /\ Approved(l.approval) => approval[l.approval].applied[l.item] > 0
        /\ l.kind = "sale" =>
               /\ Approved(l.approval) => l.item \in approval[l.approval].sales
               /\ \A a \in Approvals :
                      Approved(a) /\ l.item \in approval[a].sales => a = l.approval

\* What was settled is in a final batch.
SettledListed ==
    \A s \in Sales : sale[s] # "pending" =>
        \E b \in Batches : Final(b) /\ \E l \in batch[b].lines : l.kind = "sale" /\ l.item = s

\* Direct refunds come with their sale, portions with an adjustment.
RowsInv ==
    /\ \A a \in Approvals : \A r \in approval[a].refunds : SaleOf[r] \in approval[a].sales
    /\ \A a \in Approvals, r \in Refunds : approval[a].applied[r] > 0 => adjustment[r].exists
    /\ \A r \in Refunds : adjustment[r].remaining > 0 => adjustment[r].exists

\* A refund that has read no origin belongs to a sale that is not settled and,
\* as long as nothing overtakes it, cannot be: no batch pays for it.
ArrivalInv ==
    \A r \in Refunds : (arrival[r].phase # "none" /\ arrival[r].origin = NoApproval) =>
        /\ sale[SaleOf[r]] = "pending"
        /\ arrival[r].phase = "reading" =>
               \A b \in Batches : Open(b) => \A l \in batch[b].lines :
                   (l.kind = "sale" /\ l.item = SaleOf[r]) => ~Approved(l.approval)

Safe == OneSettlement /\ LinesInv /\ ListedOnce /\ PaidStaysApproved /\ ClaimsFollowBatch

IInv == TypeOK /\ Safe /\ SettledListed /\ RowsInv /\ ArrivalInv /\ RefundAccounted

-----------------------------------------------------------------------------
(* Type correctness *)

\* The amounts that drafts apply are natural numbers.
LEMMA PortionsTyped == \A f \in Portions : f \in [Refunds -> Nat]
<1>1. Amounts \subseteq Nat
  BY ConstantsAssumption DEF Amounts
<1> QED BY <1>1 DEF Portions

\* Nothing is settled, drafted or batched at first.
LEMMA TypeInit == Init => TypeOK
<1> SUFFICES ASSUME Init PROVE TypeOK
  OBVIOUS
<1>1. NoRefund \in RefundRows /\ NoAdjustment \in Adjustments
  BY DEF NoRefund, RefundRows, RefundStatus, NoAdjustment, Adjustments, NoApproval
<1>2. Blank("none") \in ApprovalRows
  BY DEF Blank, ApprovalRows, Nothing
<1>3. NoBatch \in BatchRows /\ NoClaim \in Claims
  BY DEF NoBatch, BatchRows, NoClaim, Claims, Nothing
<1>4. NoArrival \in Arrivals
  BY DEF NoArrival, Arrivals, RefundStatus, NoApproval
<1> QED BY <1>1, <1>2, <1>3, <1>4 DEF Init, TypeOK, SaleStatus

\* Taking a portion off the adjustments keeps them, and their rest natural.
LEMMA ConsumeTypes ==
    ASSUME TypeOK, NEW f \in Portions, Consume(f)
    PROVE  /\ adjustment' \in [Refunds -> Adjustments]
           /\ \A r \in Refunds : /\ adjustment'[r].exists = adjustment[r].exists
                                 /\ adjustment'[r].remaining = adjustment[r].remaining - f[r]
<1>1. f \in [Refunds -> Nat] /\ \A r \in Refunds : f[r] <= adjustment[r].remaining
  BY PortionsTyped DEF Portions
<1>2. \A r \in Refunds : adjustment[r] \in Adjustments
  BY DEF TypeOK
<1> DEFINE row(r) == [adjustment[r] EXCEPT !.applied = @ + f[r], !.remaining = @ - f[r]]
<1>3. ASSUME NEW r \in Refunds
      PROVE  /\ row(r) \in Adjustments
             /\ row(r).exists = adjustment[r].exists
             /\ row(r).remaining = adjustment[r].remaining - f[r]
  <2> DEFINE applied == adjustment[r].applied + f[r]
             rest == adjustment[r].remaining - f[r]
  <2>1. applied \in Int /\ rest \in Nat
    BY <1>1, <1>2 DEF Adjustments
  <2> HIDE DEF applied, rest
  <2>2. LET y == [adjustment[r] EXCEPT !.applied = applied, !.remaining = rest]
        IN  y \in Adjustments /\ y.exists = adjustment[r].exists /\ y.remaining = rest
    BY <1>2, <2>1 DEF Adjustments
  <2> QED BY <2>2 DEF applied, rest
<1>4. adjustment' = [r \in Refunds |-> row(r)]
  BY DEF Consume
<1> HIDE DEF row
<1> QED BY <1>3, <1>4

\* A payout takes lines of approvals.
LEMMA SelectedTypes == ASSUME TypeOK, NEW covered PROVE Selected(covered) \subseteq Lines
<1> SUFFICES ASSUME NEW a \in Approvals PROVE LinesOf(a) \subseteq Lines
  BY DEF Selected
<1>1. approval[a] \in ApprovalRows
  BY DEF TypeOK
<1> QED BY <1>1 DEF LinesOf, Lines, ApprovalRows

\* What a reservation claims is a natural number, whatever the sums are.
LEMMA AllocationTypes ==
    ASSUME NEW lines PROVE Allocation(lines) \in [Approvals -> [Refunds -> Nat]]
<1>1. \A n : AtLeastZero(n) \in Nat
  BY DEF AtLeastZero
<1> QED BY <1>1 DEF Allocation

\* A new batch.
LEMMA PreparedTypes ==
    ASSUME TypeOK, NEW b \in Batches, NEW covered, Prepared(b, Selected(covered))
    PROVE  batch' \in [Batches -> BatchRows]
<1>1. Selected(covered) \subseteq Lines
  BY SelectedTypes
<1>2. PICK known \in SUBSET Refunds :
          batch' = [batch EXCEPT ![b] = [status |-> "draft", lines |-> Selected(covered),
                                         known |-> known]]
  BY DEF Prepared, Arrived
<1> QED BY <1>1, <1>2 DEF BatchRows, TypeOK

\* A refund that is overtaken.
LEMMA BeforeArrivalTypes ==
    ASSUME TypeOK, BeforeArrival
    PROVE  /\ arrival' \in [Refunds -> Arrivals]
           /\ \A r \in Refunds : /\ arrival'[r].origin = arrival[r].origin
                                 /\ arrival'[r].phase # "reading"
                                 /\ arrival'[r].phase # "none" => arrival[r].phase = "reading"
<1>1. ASSUME NEW r \in Refunds
      PROVE  LET row == [arrival[r] EXCEPT !.phase = "overtaken"]
             IN  row \in Arrivals /\ row.origin = arrival[r].origin /\ row.phase = "overtaken"
  BY DEF TypeOK, Arrivals
<1>2. \A r \in Refunds : arrival[r] \in Arrivals /\ arrival[r].phase # "overtaken"
  BY DEF TypeOK, BeforeArrival, NoneOvertaken
<1> QED BY <1>1, <1>2 DEF BeforeArrival, Arrivals

\* The rows a payout settles.
LEMMA SettledTypes ==
    ASSUME TypeOK, NEW b \in Batches, NEW status \in {"paid", "cashless"}, Settled(b, status)
    PROVE  /\ sale' \in [Sales -> SaleStatus]
           /\ refund' \in [Refunds -> RefundRows]
           /\ batch' \in [Batches -> BatchRows]
<1>1. \A r \in Refunds : [refund[r] EXCEPT !.ledger = status] \in RefundRows
  BY DEF TypeOK, RefundRows, RefundStatus
<1>2. [batch[b] EXCEPT !.status = status] \in BatchRows
  BY DEF TypeOK, BatchRows
<1> QED BY <1>1, <1>2 DEF TypeOK, Settled, SaleStatus

\* The claims a payout finalizes.
LEMMA FinalizeTypes ==
    ASSUME TypeOK, NEW b \in Batches, FinalizeClaims(b)
    PROVE  /\ adjustment' \in [Refunds -> Adjustments]
           /\ claim' \in [Batches -> Claims]
           /\ approval' \in [Approvals -> ApprovalRows]
           /\ \A r \in Refunds : adjustment'[r].exists = adjustment[r].exists
           /\ \A r \in Refunds : adjustment'[r].remaining <= adjustment[r].remaining
<1>1. PICK f \in Portions : Consume(f)
  BY DEF FinalizeClaims
<1>2. f \in [Refunds -> Nat] /\ adjustment \in [Refunds -> Adjustments]
  BY PortionsTyped DEF TypeOK
<1>3. [claim[b] EXCEPT !.status = "FINALIZED"] \in Claims
  BY DEF TypeOK, Claims
<1>4. claim' \in [Batches -> Claims] /\ approval' \in [Approvals -> ApprovalRows]
  BY <1>3 DEF FinalizeClaims, TypeOK
<1>5. \A r \in Refunds : adjustment[r].remaining \in Nat
  BY <1>2 DEF Adjustments
<1> QED BY <1>1, <1>2, <1>4, <1>5, ConsumeTypes

\* Refunds and their adjustments.
LEMMA RefundTypes == ASSUME TypeOK, RefundSteps PROVE TypeOK'
<1>1. PICK r \in Refunds : \/ RefundRead(r)
                           \/ RefundWrite(r)
                           \/ BackfillRead(r)
                           \/ BackfillWrite(r)
                           \/ BackfillFails(r)
  BY DEF RefundSteps
<1>2. \A a \in Approvals : Opened(r, a) \in Adjustments
  BY ConstantsAssumption DEF Opened, Adjustments
<1>3. CASE RefundRead(r)
  <2>1. PICK a \in Approvals \cup {NoApproval} :
            arrival' = [arrival EXCEPT ![r] =
                [phase |-> "reading", ledger |-> ArrivalLedger(r), origin |-> a]]
    BY <1>3 DEF RefundRead, Origins
  <2>2. ArrivalLedger(r) \in RefundStatus
    BY DEF ArrivalLedger, RefundStatus
  <2>3. [phase |-> "reading", ledger |-> ArrivalLedger(r), origin |-> a] \in Arrivals
    BY <2>2 DEF Arrivals
  <2> QED BY <1>3, <2>1, <2>3 DEF RefundRead, TypeOK
<1>4. CASE RefundWrite(r)
  <2>1. [ledger |-> arrival[r].ledger, before |-> Arrived] \in RefundRows
    BY DEF Arrived, RefundRows, TypeOK, Arrivals
  <2>2. refund' \in [Refunds -> RefundRows]
    BY <1>4, <2>1 DEF RefundWrite, TypeOK
  <2>3. adjustment' = adjustment
            \/ \E a \in Approvals : adjustment' = [adjustment EXCEPT ![r] = Opened(r, a)]
    BY <1>4 DEF RefundWrite, Origins, TypeOK, Arrivals
  <2>4. adjustment' \in [Refunds -> Adjustments]
    BY <1>2, <2>3 DEF TypeOK
  <2>5. NoArrival \in Arrivals
    BY DEF NoArrival, Arrivals, RefundStatus, NoApproval
  <2> QED BY <1>4, <2>2, <2>4, <2>5 DEF RefundWrite, TypeOK
<1>5. CASE BackfillRead(r)
  BY <1>5 DEF BackfillRead, Origins, TypeOK
<1>6. CASE BackfillWrite(r)
  <2>1. backfill[r] \in Approvals
    BY <1>6 DEF BackfillWrite, TypeOK
  <2> QED BY <1>2, <1>6, <2>1 DEF BackfillWrite, TypeOK
<1>7. CASE BackfillFails(r)
  BY <1>7 DEF BackfillFails, TypeOK
<1> QED BY <1>1, <1>3, <1>4, <1>5, <1>6, <1>7

\* Settlements.
LEMMA ApprovalTypes == ASSUME TypeOK, ApprovalSteps PROVE TypeOK'
<1>1. PICK a \in Approvals : \/ \E scope \in SUBSET Sales : Draft(a, scope)
                             \/ Approve(a)
                             \/ CancelSettlement(a)
  BY DEF ApprovalSteps
<1>2. ASSUME NEW scope \in SUBSET Sales, Draft(a, scope) PROVE TypeOK'
  <2> DEFINE row(f) == [status |-> "draft", sales |-> DraftSales(scope),
                        refunds |-> DraftRefunds(scope), applied |-> f,
                        known |-> {r \in Arrived : SaleOf[r] \in DraftSales(scope)},
                        before |-> {}]
  <2>1. PICK f \in Portions : approval' = [approval EXCEPT ![a] = row(f)] /\ Consume(f)
    BY <1>2 DEF Draft
  <2>2. DraftSales(scope) \subseteq Sales /\ DraftRefunds(scope) \subseteq Refunds
    BY DEF DraftSales, DraftRefunds, Arrived
  <2>3. f \in [Refunds -> Nat]
    BY PortionsTyped
  <2>4. row(f) \in ApprovalRows
    BY <2>2, <2>3 DEF ApprovalRows, Arrived
  <2>5. approval' \in [Approvals -> ApprovalRows]
    BY <2>1, <2>4 DEF TypeOK
  <2>6. adjustment' \in [Refunds -> Adjustments]
    BY <2>1, ConsumeTypes
  <2> QED BY <1>2, <2>5, <2>6, BeforeArrivalTypes DEF Draft, TypeOK
<1>3. CASE Approve(a)
  <2> DEFINE earlier == {c \in Approvals : Approved(c)}
             row == [approval[a] EXCEPT !.status = "approved", !.before = earlier]
  <2>1. earlier \subseteq Approvals /\ approval[a] \in ApprovalRows
    BY DEF TypeOK
  <2> HIDE DEF earlier
  <2>2. row \in ApprovalRows
    BY <2>1 DEF ApprovalRows
  <2> USE DEF earlier
  <2>3. approval' = [approval EXCEPT ![a] = row]
    BY <1>3 DEF Approve, TypeOK
  <2> QED BY <1>3, <2>2, <2>3 DEF Approve, TypeOK
<1>4. CASE CancelSettlement(a)
  <2>1. Blank("cancelled") \in ApprovalRows
    BY DEF Blank, ApprovalRows, Nothing
  <2>2. approval[a].applied \in [Refunds -> Nat] /\ \A r \in Refunds : adjustment[r] \in Adjustments
    BY DEF TypeOK, ApprovalRows
  <2>3. \A r \in Refunds :
            [adjustment[r] EXCEPT !.applied = @ - approval[a].applied[r],
                                  !.remaining = @ + approval[a].applied[r]] \in Adjustments
    <3> TAKE r \in Refunds
    <3> DEFINE applied == adjustment[r].applied - approval[a].applied[r]
               rest == adjustment[r].remaining + approval[a].applied[r]
    <3>1. applied \in Int /\ rest \in Nat /\ adjustment[r] \in Adjustments
      BY <2>2 DEF Adjustments
    <3> HIDE DEF applied, rest
    <3>2. LET y == [adjustment[r] EXCEPT !.applied = applied, !.remaining = rest]
          IN  y \in Adjustments /\ y.exists = adjustment[r].exists /\ y.remaining = rest
      BY <3>1 DEF Adjustments
    <3> QED BY <3>2 DEF applied, rest
  <2> QED BY <1>4, <2>1, <2>3, BeforeArrivalTypes DEF CancelSettlement, TypeOK
<1> QED BY <1>1, <1>2, <1>3, <1>4

\* Payout batches.
LEMMA BatchTypes == ASSUME TypeOK, BatchSteps PROVE TypeOK'
<1>1. PICK b \in Batches : \/ PrepareOrdinary(b)
                           \/ PrepareR1(b)
                           \/ ReviewOrdinary(b)
                           \/ ReviewR1(b)
                           \/ CancelDraftBatch(b)
                           \/ CancelR1Review(b)
                           \/ PayOrdinary(b)
                           \/ PayR1(b)
                           \/ CompleteCashless(b)
  BY DEF BatchSteps
<1>2. CASE PrepareOrdinary(b)
  BY <1>2, PreparedTypes, BeforeArrivalTypes DEF PrepareOrdinary, TypeOK
<1>3. CASE PrepareR1(b)
  <2>1. batch' \in [Batches -> BatchRows]
    BY <1>3, PreparedTypes DEF PrepareR1
  <2> DEFINE amount == Allocation(Selected(OwnRefunds))
  <2>2. amount \in [Approvals -> [Refunds -> Nat]]
    BY AllocationTypes
  <2>3. claim' = [claim EXCEPT ![b] = [status |-> "RESERVED", amount |-> amount]]
    BY <1>3 DEF PrepareR1
  <2> HIDE DEF amount
  <2>4. claim' \in [Batches -> Claims]
    BY <2>2, <2>3 DEF TypeOK, Claims
  <2> QED BY <1>3, <2>1, <2>4, BeforeArrivalTypes DEF PrepareR1, TypeOK
<1>4. CASE ReviewOrdinary(b) \/ ReviewR1(b)
  <2>1. [batch[b] EXCEPT !.status = "review"] \in BatchRows
    BY DEF TypeOK, BatchRows
  <2> QED BY <1>4, <2>1, BeforeArrivalTypes DEF ReviewOrdinary, ReviewR1, TypeOK
<1>5. CASE CancelDraftBatch(b) \/ CancelR1Review(b)
  <2>1. [batch[b] EXCEPT !.status = "cancelled"] \in BatchRows
    BY DEF TypeOK, BatchRows
  <2>2. [claim[b] EXCEPT !.status = "RELEASED"] \in Claims
    BY DEF TypeOK, Claims
  <2>3. Release(b)
    BY <1>5 DEF CancelDraftBatch, CancelR1Review
  <2>4. arrival' = arrival \/ BeforeArrival
    BY <1>5 DEF CancelDraftBatch, CancelR1Review
  <2> QED BY <2>1, <2>2, <2>3, <2>4, BeforeArrivalTypes DEF Release, TypeOK
<1>6. CASE PayOrdinary(b)
  BY <1>6, SettledTypes DEF PayOrdinary, TypeOK
<1>7. CASE PayR1(b) \/ CompleteCashless(b)
  <2>1. FinalizeClaims(b) /\ \E status \in {"paid", "cashless"} : Settled(b, status)
    BY <1>7 DEF PayR1, CompleteCashless
  <2>2. BeforeArrival /\ backfill' = backfill
    BY <2>1 DEF FinalizeClaims
  <2> QED BY <2>1, <2>2, FinalizeTypes, SettledTypes, BeforeArrivalTypes DEF TypeOK
<1> QED BY <1>1, <1>2, <1>3, <1>4, <1>5, <1>6, <1>7

\* Every step keeps the types.
LEMMA TypeStep == ASSUME TypeOK, [Next]_vars PROVE TypeOK'
<1>1. CASE UNCHANGED vars
  BY <1>1 DEF vars, TypeOK
<1> QED BY <1>1, RefundTypes, ApprovalTypes, BatchTypes DEF Next

\* The tables keep their types.
THEOREM TypeCorrect == Spec => []TypeOK
<1> QED BY TypeInit, TypeStep, PTL DEF Spec

-----------------------------------------------------------------------------
(* What a step does to the batches *)

\* A new batch is made of approved lines, or one under way moves on.
Lists(b) == NextBatch(b) /\ \E covered \in SUBSET Refunds : Prepared(b, Selected(covered))
Moves(b) ==
    \E status \in {"review", "cancelled", "paid", "cashless"} :
        /\ Open(b)
        /\ batch' = [batch EXCEPT ![b].status = status]
        /\ status \in {"paid", "cashless"} => \A l \in batch[b].lines : Approved(l.approval)

\* The lines of a new batch, and what they were selected for.
LEMMA SelectedLines ==
    ASSUME TypeOK, NEW covered, NEW l \in Selected(covered)
    PROVE  /\ l \in Lines
           /\ l.approval \in Approvals
           /\ Approved(l.approval)
           /\ l.kind = "sale" => l.item \in approval[l.approval].sales
           /\ l.kind = "adjustment" => approval[l.approval].applied[l.item] > 0
           /\ \A b \in Batches : Active(b) => l \notin batch[b].lines
<1>1. PICK a \in Approvals : Approved(a) /\ l \in LinesOf(a)
  BY DEF Selected
<1>2. /\ l.approval = a
      /\ l.kind = "sale" => l.item \in approval[a].sales
      /\ l.kind = "adjustment" => approval[a].applied[l.item] > 0
  BY <1>1 DEF LinesOf
<1>3. \A b \in Batches : b # NoBatchId
  BY ConstantsAssumption DEF Batches, NoBatchId
<1>4. \A b \in Batches : Active(b) => l \notin batch[b].lines
  BY <1>3 DEF Selected, InOtherBatch
<1>5. l \in Lines
  BY SelectedTypes
<1> QED BY <1>1, <1>2, <1>4, <1>5

\* Every batch step lists or moves one batch and leaves the settlements.
LEMMA BatchKinds ==
    ASSUME TypeOK, BatchSteps
    PROVE  approval' = approval /\ \E b \in Batches : Lists(b) \/ Moves(b)
<1>1. PICK b \in Batches : \/ PrepareOrdinary(b)
                           \/ PrepareR1(b)
                           \/ ReviewOrdinary(b)
                           \/ ReviewR1(b)
                           \/ CancelDraftBatch(b)
                           \/ CancelR1Review(b)
                           \/ PayOrdinary(b)
                           \/ PayR1(b)
                           \/ CompleteCashless(b)
  BY DEF BatchSteps
<1>2. CASE PrepareOrdinary(b) \/ PrepareR1(b)
  <2>1. {} \in SUBSET Refunds /\ OwnRefunds \in SUBSET Refunds
    BY DEF OwnRefunds, Outstanding
  <2> QED BY <1>2, <2>1 DEF PrepareOrdinary, PrepareR1, Lists
<1>3. CASE ReviewOrdinary(b) \/ ReviewR1(b) \/ CancelDraftBatch(b) \/ CancelR1Review(b)
  BY <1>3 DEF ReviewOrdinary, ReviewR1, CancelDraftBatch, CancelR1Review, Release, Moves, Open
<1>4. CASE PayOrdinary(b) \/ PayR1(b) \/ CompleteCashless(b)
  <2>1. \E covered : TransitionOk(b, covered)
    BY <1>4 DEF PayOrdinary, PayR1, CompleteCashless
  <2>2. \A l \in batch[b].lines : Approved(l.approval)
    BY <2>1 DEF TransitionOk
  <2>3. approval' = approval /\ Open(b)
    BY <1>4 DEF PayOrdinary, PayR1, CompleteCashless, FinalizeClaims, Open
  <2>4. \E status \in {"paid", "cashless"} : Settled(b, status)
    BY <1>4 DEF PayOrdinary, PayR1, CompleteCashless
  <2> QED BY <2>2, <2>3, <2>4 DEF Settled, Moves
<1> QED BY <1>1, <1>2, <1>3, <1>4

\* The refund steps leave settlements and batches.
LEMMA RefundFrame == RefundSteps => UNCHANGED <<sale, approval, batch, claim>>
BY DEF RefundSteps, RefundRead, RefundWrite, BackfillRead, BackfillWrite, BackfillFails

\* The steps of settlements leave ledger rows, batches and claims.
LEMMA ApprovalFrame == ApprovalSteps => UNCHANGED <<sale, refund, batch, claim>>
BY DEF ApprovalSteps, Draft, Approve, CancelSettlement

-----------------------------------------------------------------------------
(* Settlements and the lines of batches *)

\* A draft takes only sales that no standing settlement has.
LEMMA OneSettlementStep ==
    ASSUME TypeOK, OneSettlement, [Next]_vars PROVE OneSettlement'
<1>1. CASE UNCHANGED approval
  BY <1>1 DEF OneSettlement, Live
<1>2. CASE ApprovalSteps
  <2>1. PICK a \in Approvals : \/ \E scope \in SUBSET Sales : Draft(a, scope)
                               \/ Approve(a)
                               \/ CancelSettlement(a)
    BY <1>2 DEF ApprovalSteps
  <2>2. \A c \in Approvals \ {a} : approval'[c] = approval[c]
    BY <2>1 DEF Draft, Approve, CancelSettlement, TypeOK
  <2>3. ASSUME NEW c \in Approvals \ {a}, Live(c), Live(a)'
        PROVE  approval'[a].sales \cap approval[c].sales = {}
    <3>1. ASSUME NEW scope \in SUBSET Sales, Draft(a, scope)
          PROVE  approval'[a].sales = DraftSales(scope)
      BY <3>1 DEF Draft, TypeOK
    <3>2. \A scope : DraftSales(scope) \cap approval[c].sales = {}
      BY <2>3 DEF DraftSales
    <3>3. CASE Approve(a)
      <4>1. Live(a) /\ approval'[a].sales = approval[a].sales
        BY <3>3 DEF Approve, TypeOK, Live
      <4> QED BY <2>3, <4>1 DEF OneSettlement
    <3>4. CASE CancelSettlement(a)
      BY <3>4 DEF CancelSettlement, Blank, TypeOK
    <3> QED BY <2>1, <3>1, <3>2, <3>3, <3>4
  <2> QED BY <2>2, <2>3 DEF OneSettlement, Live
<1> QED BY <1>1, <1>2, RefundFrame, BatchKinds DEF Next, vars

\* What batches list stays approved or is cancelled.
LEMMA LinesInvStep ==
    ASSUME TypeOK, OneSettlement, LinesInv, [Next]_vars PROVE LinesInv'
<1>1. CASE UNCHANGED <<approval, batch>>
  BY <1>1 DEF LinesInv, Active, Open, Final, Approved
<1>2. CASE ApprovalSteps
  <2>1. PICK a \in Approvals : \/ \E scope \in SUBSET Sales : Draft(a, scope)
                               \/ Approve(a)
                               \/ CancelSettlement(a)
    BY <1>2 DEF ApprovalSteps
  <2>2. /\ batch' = batch
        /\ \A c \in Approvals \ {a} : approval'[c] = approval[c]
    BY <2>1 DEF Draft, Approve, CancelSettlement, TypeOK
  <2> SUFFICES ASSUME NEW b \in Batches, Active(b), NEW l \in batch[b].lines
      PROVE  /\ approval'[l.approval].status \in {"approved", "cancelled"}
             /\ l.kind = "adjustment" /\ Approved(l.approval)' =>
                    approval'[l.approval].applied[l.item] > 0
             /\ l.kind = "sale" =>
                    /\ Approved(l.approval)' => l.item \in approval'[l.approval].sales
                    /\ \A c \in Approvals :
                           Approved(c)' /\ l.item \in approval'[c].sales => c = l.approval
    BY <2>2 DEF LinesInv, Active, Open, Final
  <2>3. l \in Lines /\ l.approval \in Approvals
    BY DEF TypeOK, BatchRows, Lines
  <2>4. CASE CancelSettlement(a)
    <3>1. approval'[a].status = "cancelled"
      BY <2>4 DEF CancelSettlement, TypeOK, Blank
    <3> QED BY <2>2, <2>3, <3>1 DEF LinesInv, Approved
  <2>5. CASE Approve(a)
    <3>1. approval[a].status = "draft" /\ a # l.approval
      BY <2>5 DEF Approve, LinesInv
    <3>2. approval'[a].sales = approval[a].sales
      BY <2>5 DEF Approve, TypeOK
    <3>3. b # NoBatchId
      BY ConstantsAssumption DEF Batches, NoBatchId
    <3>4. l.item \notin approval[a].sales
      BY <2>5, <3>3 DEF Approve, SaleApprovable, RowInOtherBatch
    <3> QED BY <2>2, <2>3, <3>1, <3>2, <3>4 DEF LinesInv, Approved
  <2>6. CASE \E scope \in SUBSET Sales : Draft(a, scope)
    <3>1. approval[a].status = "none" /\ a # l.approval
      BY <2>6 DEF Draft, NextApproval, LinesInv
    <3>2. approval'[a].status = "draft"
      BY <2>6 DEF Draft, TypeOK
    <3> QED BY <2>2, <2>3, <3>1, <3>2 DEF LinesInv, Approved
  <2> QED BY <2>1, <2>4, <2>5, <2>6
<1>3. ASSUME approval' = approval, NEW b \in Batches, Moves(b) PROVE LinesInv'
  <2>1. \A c \in Batches : (Active(c)' => Active(c)) /\ batch'[c].lines = batch[c].lines
    BY <1>3 DEF Moves, Active, Open, Final, TypeOK
  <2> QED BY <1>3, <2>1 DEF LinesInv, Approved
<1>4. ASSUME approval' = approval, NEW b \in Batches, Lists(b) PROVE LinesInv'
  <2>1. PICK covered, known : batch' = [batch EXCEPT ![b] =
            [status |-> "draft", lines |-> Selected(covered), known |-> known]]
    BY <1>4 DEF Lists, Prepared
  <2>2. ASSUME NEW l \in Selected(covered)
        PROVE  /\ approval[l.approval].status = "approved"
               /\ l.kind = "adjustment" => approval[l.approval].applied[l.item] > 0
               /\ l.kind = "sale" =>
                      /\ l.item \in approval[l.approval].sales
                      /\ \A a \in Approvals :
                             Approved(a) /\ l.item \in approval[a].sales => a = l.approval
    BY <2>2, SelectedLines DEF OneSettlement, Live, Approved
  <2>3. \A c \in Batches \ {b} : batch'[c] = batch[c]
    BY <2>1 DEF TypeOK
  <2>4. batch'[b].lines = Selected(covered)
    BY <2>1 DEF TypeOK
  <2> QED BY <1>4, <2>2, <2>3, <2>4 DEF LinesInv, Approved, Active, Open, Final
<1> QED BY <1>1, <1>2, <1>3, <1>4, RefundFrame, BatchKinds DEF Next, vars

\* A sale in one batch is not selected for another.
LEMMA ListedOnceStep ==
    ASSUME TypeOK, OneSettlement, LinesInv, ListedOnce, [Next]_vars PROVE ListedOnce'
<1>1. CASE batch' = batch
  BY <1>1 DEF ListedOnce, Active, Open, Final
<1>2. ASSUME NEW b \in Batches, Moves(b) PROVE ListedOnce'
  <2>1. \A c \in Batches : (Active(c)' => Active(c)) /\ batch'[c].lines = batch[c].lines
    BY <1>2 DEF Moves, Active, Open, Final, TypeOK
  <2> QED BY <2>1 DEF ListedOnce
<1>3. ASSUME NEW b \in Batches, Lists(b) PROVE ListedOnce'
  <2>1. PICK covered, known : batch' = [batch EXCEPT ![b] =
            [status |-> "draft", lines |-> Selected(covered), known |-> known]]
    BY <1>3 DEF Lists, Prepared
  <2>2. ASSUME NEW c \in Batches, Active(c), NEW l \in Selected(covered),
               NEW m \in batch[c].lines, l.kind = "sale", m.kind = "sale", l.item = m.item
        PROVE  FALSE
    <3>1. /\ l \in Lines /\ Approved(l.approval) /\ l.approval \in Approvals
          /\ l.item \in approval[l.approval].sales
          /\ l \notin batch[c].lines
      BY <2>2, SelectedLines
    <3>2. l.approval = m.approval
      BY <2>2, <3>1 DEF LinesInv
    <3>3. m \in Lines
      BY DEF TypeOK, BatchRows
    <3>4. l = m
      BY <2>2, <3>1, <3>2, <3>3 DEF Lines
    <3> QED BY <3>1, <3>4
  <2>3. \A c \in Batches \ {b} : batch'[c] = batch[c]
    BY <2>1 DEF TypeOK
  <2>4. batch'[b].lines = Selected(covered)
    BY <2>1 DEF TypeOK
  <2> SUFFICES ASSUME NEW c \in Batches, NEW d \in Batches,
                      NEW l \in batch'[c].lines, NEW m \in batch'[d].lines,
                      Active(c)', Active(d)', l.kind = "sale", m.kind = "sale", l.item = m.item
      PROVE  c = d
    BY DEF ListedOnce
  <2>5. CASE c = b \/ d = b
    BY <2>2, <2>3, <2>4, <2>5 DEF Active, Open, Final
  <2>6. CASE c # b /\ d # b
    BY <2>3, <2>6 DEF ListedOnce, Active, Open, Final
  <2> QED BY <2>5, <2>6
<1> QED BY <1>1, <1>2, <1>3, RefundFrame, ApprovalFrame, BatchKinds DEF Next, vars

\* A settlement in a final batch is not cancelled.
LEMMA PaidStaysApprovedStep ==
    ASSUME TypeOK, PaidStaysApproved, [Next]_vars PROVE PaidStaysApproved'
<1>1. CASE UNCHANGED <<approval, batch>>
  BY <1>1 DEF PaidStaysApproved, Final, Approved
<1>2. CASE ApprovalSteps
  <2>1. PICK a \in Approvals : \/ \E scope \in SUBSET Sales : Draft(a, scope)
                               \/ Approve(a)
                               \/ CancelSettlement(a)
    BY <1>2 DEF ApprovalSteps
  <2>2. /\ batch' = batch
        /\ \A c \in Approvals \ {a} : approval'[c] = approval[c]
    BY <2>1 DEF Draft, Approve, CancelSettlement, TypeOK
  <2>3. ASSUME NEW b \in Batches, Final(b), NEW l \in batch[b].lines PROVE a # l.approval
    <3>1. approval[l.approval].status = "approved"
      BY <2>3 DEF PaidStaysApproved, Approved
    <3>2. CASE CancelSettlement(a)
      BY <2>3, <3>2 DEF CancelSettlement, HeldByPayout
    <3> QED BY <2>1, <3>1, <3>2 DEF Draft, NextApproval, Approve
  <2>4. \A b \in Batches : \A l \in batch[b].lines : l.approval \in Approvals
    BY DEF TypeOK, BatchRows, Lines
  <2> QED BY <2>2, <2>3, <2>4 DEF PaidStaysApproved, Final, Approved
<1>3. ASSUME approval' = approval, NEW b \in Batches, Moves(b) PROVE PaidStaysApproved'
  <2>1. PICK status \in {"review", "cancelled", "paid", "cashless"} :
            /\ batch' = [batch EXCEPT ![b].status = status]
            /\ status \in {"paid", "cashless"} => \A l \in batch[b].lines : Approved(l.approval)
    BY <1>3 DEF Moves
  <2>2. /\ batch'[b].status = status
        /\ \A c \in Batches : batch'[c].lines = batch[c].lines
        /\ \A c \in Batches \ {b} : batch'[c] = batch[c]
    BY <2>1 DEF TypeOK
  <2> QED BY <1>3, <2>1, <2>2 DEF PaidStaysApproved, Final, Approved
<1>4. ASSUME approval' = approval, NEW b \in Batches, Lists(b) PROVE PaidStaysApproved'
  <2>1. batch'[b].status = "draft" /\ \A c \in Batches \ {b} : batch'[c] = batch[c]
    BY <1>4 DEF Lists, Prepared, TypeOK
  <2> QED BY <1>4, <2>1 DEF PaidStaysApproved, Final, Approved
<1> QED BY <1>1, <1>2, <1>3, <1>4, RefundFrame, BatchKinds DEF Next, vars

\* Claims are made with their batch, and end with it.
LEMMA ClaimsFollowBatchStep ==
    ASSUME TypeOK, ClaimsFollowBatch, [Next]_vars PROVE ClaimsFollowBatch'
<1>1. CASE UNCHANGED <<batch, claim>>
  BY <1>1 DEF ClaimsFollowBatch, Open, Final
<1>2. ASSUME NEW b \in Batches,
             batch'[b].status # batch[b].status,
             \A c \in Batches \ {b} : batch'[c] = batch[c] /\ claim'[c] = claim[c],
             /\ claim'[b].status = "RESERVED" => batch'[b].status \in {"draft", "review"}
             /\ claim'[b].status = "FINALIZED" => batch'[b].status \in {"paid", "cashless"}
             /\ claim'[b].status = "RELEASED" => batch'[b].status = "cancelled"
             /\ batch'[b].status = "cashless" => claim'[b].status = "FINALIZED"
      PROVE  ClaimsFollowBatch'
  BY <1>2 DEF ClaimsFollowBatch, Open, Final
<1>3. CASE BatchSteps
  <2>1. PICK b \in Batches : \/ PrepareOrdinary(b)
                             \/ PrepareR1(b)
                             \/ ReviewOrdinary(b)
                             \/ ReviewR1(b)
                             \/ CancelDraftBatch(b)
                             \/ CancelR1Review(b)
                             \/ PayOrdinary(b)
                             \/ PayR1(b)
                             \/ CompleteCashless(b)
    BY <1>3 DEF BatchSteps
  <2>2. CASE PrepareOrdinary(b) \/ PrepareR1(b)
    <3>1. /\ batch[b].status = "none"
          /\ batch'[b].status = "draft"
          /\ \A c \in Batches \ {b} : batch'[c] = batch[c] /\ claim'[c] = claim[c]
          /\ claim'[b].status \in {claim[b].status, "RESERVED"}
      <4>1. NextBatch(b) /\ \E lines : Prepared(b, lines)
        BY <2>2 DEF PrepareOrdinary, PrepareR1
      <4>2. \E amount : \/ claim' = claim
                        \/ claim' = [claim EXCEPT ![b] = [status |-> "RESERVED", amount |-> amount]]
        BY <2>2 DEF PrepareOrdinary, PrepareR1
      <4> QED BY <4>1, <4>2 DEF Prepared, NextBatch, TypeOK
    <3>2. claim[b].status = "none"
      BY <3>1 DEF TypeOK, Claims, ClaimsFollowBatch, Open, Final
    <3> QED BY <1>2, <3>1, <3>2
  <2>3. CASE ReviewOrdinary(b) \/ ReviewR1(b)
    <3>1. /\ batch[b].status = "draft"
          /\ batch'[b].status = "review"
          /\ \A c \in Batches \ {b} : batch'[c] = batch[c]
          /\ claim' = claim
      BY <2>3 DEF ReviewOrdinary, ReviewR1, TypeOK, BatchRows
    <3> QED BY <1>2, <3>1 DEF ClaimsFollowBatch, Open, Final
  <2>4. CASE CancelDraftBatch(b) \/ CancelR1Review(b)
    <3>1. /\ Open(b)
          /\ batch'[b].status = "cancelled"
          /\ \A c \in Batches \ {b} : batch'[c] = batch[c] /\ claim'[c] = claim[c]
          /\ IF Holding(b) THEN claim'[b].status = "RELEASED" ELSE claim' = claim
      BY <2>4 DEF CancelDraftBatch, CancelR1Review, Release, Open, TypeOK, BatchRows, Claims
    <3> QED BY <1>2, <3>1 DEF ClaimsFollowBatch, Open, Final, Holding
  <2>5. CASE PayOrdinary(b)
    <3>1. /\ batch[b].status = "review" /\ ~Holding(b)
          /\ batch'[b].status = "paid"
          /\ \A c \in Batches \ {b} : batch'[c] = batch[c]
          /\ claim' = claim
      BY <2>5 DEF PayOrdinary, Settled, TypeOK, BatchRows
    <3> QED BY <1>2, <3>1 DEF ClaimsFollowBatch, Open, Final, Holding
  <2>6. CASE PayR1(b) \/ CompleteCashless(b)
    <3>1. /\ batch[b].status = "review"
          /\ batch'[b].status \in {"paid", "cashless"}
          /\ \A c \in Batches \ {b} : batch'[c] = batch[c] /\ claim'[c] = claim[c]
          /\ claim'[b].status = "FINALIZED"
      <4>1. /\ batch[b].status = "review" /\ FinalizeClaims(b)
            /\ \E status \in {"paid", "cashless"} : Settled(b, status)
        BY <2>6 DEF PayR1, CompleteCashless
      <4>2. batch'[b].status \in {"paid", "cashless"} /\ \A c \in Batches \ {b} : batch'[c] = batch[c]
        BY <4>1 DEF Settled, TypeOK, BatchRows
      <4>3. claim'[b].status = "FINALIZED" /\ \A c \in Batches \ {b} : claim'[c] = claim[c]
        BY <4>1 DEF FinalizeClaims, TypeOK, Claims
      <4> QED BY <4>1, <4>2, <4>3
    <3> QED BY <1>2, <3>1
  <2> QED BY <2>1, <2>2, <2>3, <2>4, <2>5, <2>6
<1> QED BY <1>1, <1>3, RefundFrame, ApprovalFrame DEF Next, vars

-----------------------------------------------------------------------------
(* No refund is forgotten *)

\* Only the final step of a batch touches the ledger rows.
Pays(b) == PayOrdinary(b) \/ PayR1(b) \/ CompleteCashless(b)

\* A batch that is not paid leaves ledger rows and settlements.
LEMMA NoPayFrame ==
    ASSUME TypeOK, BatchSteps, \A b \in Batches : ~Pays(b)
    PROVE  UNCHANGED <<sale, refund, adjustment, approval>>
BY DEF BatchSteps, Pays, PrepareOrdinary, PrepareR1, ReviewOrdinary, ReviewR1,
       CancelDraftBatch, CancelR1Review, Release

\* The covered refunds a payout leaves out of account all have adjustments.
LEMMA PaidLines ==
    ASSUME TypeOK, RowsInv, NEW b \in Batches, Pays(b)
    PROVE  /\ \E covered : /\ TransitionOk(b, covered)
                           /\ \A r \in Refunds \cap covered : adjustment[r].exists
           /\ batch[b].status = "review"
           /\ \E status \in {"paid", "cashless"} : Settled(b, status)
<1>1. ASSUME CoverageHolds(b) PROVE \A r \in Covered(b) : adjustment[r].exists
  <2> TAKE r \in Covered(b)
  <2>1. r \in Refunds /\ ClaimOf(claim[b].amount, r) > 0
    BY DEF Covered
  <2>2. adjustment[r].remaining > 0
    BY <1>1, <2>1 DEF CoverageHolds
  <2> QED BY <2>1, <2>2 DEF RowsInv
<1>2. CASE PayOrdinary(b)
  BY <1>2 DEF PayOrdinary
<1>3. CASE PayR1(b)
  <2>1. CoverageHolds(b) /\ \A r \in Missed(b) : adjustment[r].exists
    BY <1>3 DEF PayR1
  <2> QED BY <1>1, <1>3, <2>1 DEF PayR1
<1>4. CASE CompleteCashless(b)
  BY <1>1, <1>4 DEF CompleteCashless
<1> QED BY <1>2, <1>3, <1>4 DEF Pays

\* The step that settles a sale: it has a line in the batch, its settlement
\* stands, and none of its refunds is unaccounted for.
LEMMA SaleSettled ==
    ASSUME TypeOK, LinesInv, RowsInv, NEW b \in Batches, Pays(b),
           NEW s \in Sales, sale'[s] # sale[s]
    PROVE  /\ \E l \in batch[b].lines : l.kind = "sale" /\ l.item = s /\ Approved(l.approval)
           /\ \A r \in RefundsOf(s) :
                  \/ adjustment[r].exists
                  \/ \E a \in Approvals : Approved(a) /\ HasRefundRow(a, r)
<1>1. PICK covered : /\ TransitionOk(b, covered)
                     /\ \A r \in Refunds \cap covered : adjustment[r].exists
  BY PaidLines
<1>2. PICK status \in {"paid", "cashless"} : Settled(b, status)
  BY PaidLines
<1>3. s \in {l.item : l \in batch[b].lines}
  BY <1>2 DEF Settled, TypeOK
<1>4. PICK l \in batch[b].lines : l.item = s
  BY <1>3
<1>5. l \in Lines
  BY DEF TypeOK, BatchRows
<1>6. l.kind = "sale" /\ l.approval \in Approvals
  BY <1>4, <1>5, ConstantsAssumption DEF Lines
<1>7. /\ Approved(l.approval)
      /\ sale[s] = "pending"
      /\ ~SaleAtRisk(s, covered)
  BY <1>1, <1>4, <1>6 DEF TransitionOk, RowPayable
<1>8. Active(b)
  BY PaidLines DEF Active, Open
<1>9. s \in approval[l.approval].sales
  BY <1>4, <1>6, <1>7, <1>8 DEF LinesInv
<1>10. ASSUME NEW r \in RefundsOf(s), r \notin covered
       PROVE  \E a \in Approvals : Approved(a) /\ HasRefundRow(a, r)
  <2>1. SaleOf[r] = s /\ ~Unsettled(r)
    BY <1>7, <1>10 DEF SaleAtRisk, RefundsOf
  <2> QED BY <1>6, <1>7, <1>9, <2>1 DEF Unsettled
<1>11. \A r \in RefundsOf(s) : r \in Refunds
  BY DEF RefundsOf, Arrived
<1> QED BY <1>1, <1>4, <1>6, <1>7, <1>10, <1>11

\* A refund row enters a final batch only after it arrived or with an adjustment.
LEMMA RefundSettled ==
    ASSUME TypeOK, LinesInv, RowsInv, NEW b \in Batches, Pays(b), NEW r \in Refunds
    PROVE  /\ adjustment'[r].exists = adjustment[r].exists
           /\ r \in Arrived' => r \in Arrived \/ adjustment[r].exists
<1>1. PICK covered : TransitionOk(b, covered)
  BY PaidLines
<1>2. PICK status \in {"paid", "cashless"} : Settled(b, status)
  BY PaidLines
<1>3. adjustment'[r].exists = adjustment[r].exists
  BY FinalizeTypes DEF Pays, PayOrdinary, PayR1, CompleteCashless
<1>4. ASSUME r \in Arrived', r \notin Arrived PROVE adjustment[r].exists
  <2>1. r \in {l.item : l \in batch[b].lines}
    BY <1>2, <1>4 DEF Settled, TypeOK, Arrived
  <2>2. PICK l \in batch[b].lines : l.item = r
    BY <2>1
  <2>3. l \in Lines
    BY DEF TypeOK, BatchRows
  <2>4. l.kind \in {"refund", "adjustment"} /\ l.approval \in Approvals
    BY <2>2, <2>3, ConstantsAssumption DEF Lines
  <2>5. Active(b) /\ Approved(l.approval)
    BY <1>1, PaidLines DEF Active, Open, TransitionOk
  <2>6. CASE l.kind = "refund"
    <3>1. RowPayable(l, covered)
      BY <1>1, <2>6 DEF TransitionOk
    <3>2. refund[r].ledger \in {"pending", "hold", "offset"}
      BY <2>2, <2>6, <3>1 DEF RowPayable
    <3> QED BY <1>4, <3>2 DEF Arrived
  <2>7. CASE l.kind = "adjustment"
    BY <2>2, <2>4, <2>5, <2>7 DEF LinesInv, RowsInv
  <2> QED BY <2>4, <2>6, <2>7
<1> QED BY <1>3, <1>4

\* Direct refunds come with their sale, and no portion without an adjustment.
LEMMA RowsInvStep ==
    ASSUME TypeOK, RowsInv, [Next]_vars PROVE RowsInv'
<1>1. CASE UNCHANGED <<adjustment, approval>>
  BY <1>1 DEF RowsInv
<1>2. CASE RefundSteps
  <2>1. PICK r \in Refunds : \/ RefundRead(r)
                             \/ RefundWrite(r)
                             \/ BackfillRead(r)
                             \/ BackfillWrite(r)
                             \/ BackfillFails(r)
    BY <1>2 DEF RefundSteps
  <2>2. \A q \in Refunds : adjustment'[q] = adjustment[q] \/ adjustment'[q].exists
    BY <2>1 DEF RefundRead, RefundWrite, BackfillRead, BackfillWrite, BackfillFails, Opened, TypeOK
  <2>3. approval' = approval
    BY <1>2, RefundFrame
  <2> QED BY <2>2, <2>3 DEF RowsInv
<1>3. CASE BatchSteps
  <2>1. \A r \in Refunds : /\ adjustment'[r].exists = adjustment[r].exists
                           /\ adjustment'[r].remaining <= adjustment[r].remaining
                           /\ adjustment'[r].remaining \in Nat
                           /\ adjustment[r].remaining \in Nat
    <3>1. adjustment \in [Refunds -> Adjustments] /\ adjustment' \in [Refunds -> Adjustments]
      BY <1>3, BatchTypes DEF TypeOK
    <3>2. adjustment' = adjustment \/ \E b \in Batches : FinalizeClaims(b)
      BY <1>3 DEF BatchSteps, PrepareOrdinary, PrepareR1, ReviewOrdinary, ReviewR1,
             CancelDraftBatch, CancelR1Review, Release, PayOrdinary, PayR1, CompleteCashless
    <3>3. \A r \in Refunds : adjustment[r].remaining \in Nat /\ adjustment'[r].remaining \in Nat
      BY <3>1 DEF Adjustments
    <3> QED BY <3>2, <3>3, FinalizeTypes
  <2> QED BY <1>3, <2>1, BatchKinds DEF RowsInv
<1>4. CASE ApprovalSteps
  <2>1. PICK a \in Approvals : \/ \E scope \in SUBSET Sales : Draft(a, scope)
                               \/ Approve(a)
                               \/ CancelSettlement(a)
    BY <1>4 DEF ApprovalSteps
  <2>2. \A c \in Approvals \ {a} : approval'[c] = approval[c]
    BY <2>1 DEF Draft, Approve, CancelSettlement, TypeOK
  <2>3. \A r \in Refunds : adjustment[r].remaining \in Nat /\ approval[a].applied[r] \in Nat
    BY DEF TypeOK, Adjustments, ApprovalRows
  <2>4. CASE Approve(a)
    <3>1. approval'[a].refunds = approval[a].refunds /\ approval'[a].sales = approval[a].sales
          /\ approval'[a].applied = approval[a].applied /\ adjustment' = adjustment
      BY <2>4 DEF Approve, TypeOK
    <3> QED BY <2>2, <3>1 DEF RowsInv
  <2>5. CASE CancelSettlement(a)
    <3>1. approval'[a] = Blank("cancelled")
      BY <2>5 DEF CancelSettlement, TypeOK
    <3>2. ASSUME NEW r \in Refunds
          PROVE  /\ adjustment'[r].exists = adjustment[r].exists
                 /\ adjustment'[r].remaining > 0 => adjustment[r].exists
      <4> DEFINE applied == adjustment[r].applied - approval[a].applied[r]
                 rest == adjustment[r].remaining + approval[a].applied[r]
      <4>1. adjustment'[r] = [adjustment[r] EXCEPT !.applied = applied, !.remaining = rest]
        BY <2>5 DEF CancelSettlement
      <4>2. adjustment[r] \in Adjustments
        BY DEF TypeOK
      <4>3. rest > 0 => adjustment[r].remaining > 0 \/ approval[a].applied[r] > 0
        BY <2>3
      <4> HIDE DEF applied, rest
      <4>4. adjustment'[r].exists = adjustment[r].exists /\ adjustment'[r].remaining = rest
        BY <4>1, <4>2 DEF Adjustments
      <4> QED BY <4>3, <4>4 DEF RowsInv
    <3>3. Blank("cancelled").refunds = {} /\ \A r \in Refunds : Blank("cancelled").applied[r] = 0
      BY DEF Blank, Nothing
    <3> QED BY <2>2, <3>1, <3>2, <3>3 DEF RowsInv
  <2>6. ASSUME NEW scope \in SUBSET Sales, Draft(a, scope) PROVE RowsInv'
    <3>1. PICK f \in Portions : Consume(f) /\ approval'[a].applied = f
      BY <2>6 DEF Draft, TypeOK
    <3>2. /\ approval'[a].sales = DraftSales(scope)
          /\ approval'[a].refunds = DraftRefunds(scope)
      BY <2>6 DEF Draft, TypeOK
    <3>3. \A r \in DraftRefunds(scope) : SaleOf[r] \in DraftSales(scope)
      BY DEF DraftRefunds, DraftSales, RefundStillOffsets, NoApproval, Approvals
    <3>4. \A r \in Refunds : f[r] \in Nat /\ f[r] <= adjustment[r].remaining
      BY PortionsTyped DEF Portions
    <3>5. \A r \in Refunds : /\ adjustment'[r].exists = adjustment[r].exists
                             /\ adjustment'[r].remaining = adjustment[r].remaining - f[r]
      BY <3>1, ConsumeTypes
    <3>6. \A r \in Refunds : /\ f[r] > 0 => adjustment'[r].exists
                             /\ adjustment'[r].remaining > 0 => adjustment'[r].exists
      BY <2>3, <3>4, <3>5 DEF RowsInv
    <3> QED BY <2>2, <3>1, <3>2, <3>3, <3>5, <3>6 DEF RowsInv
  <2> QED BY <2>1, <2>4, <2>5, <2>6
<1> QED BY <1>1, <1>2, <1>3, <1>4 DEF Next, vars

\* A final batch stays what it is.
LEMMA FinalStays ==
    ASSUME TypeOK, [Next]_vars, NEW b \in Batches, Final(b)
    PROVE  batch'[b] = batch[b]
<1>1. ASSUME NEW c \in Batches, Lists(c) \/ Moves(c) PROVE batch'[b] = batch[b]
  <2>1. b # c /\ \E row : batch' = [batch EXCEPT ![c] = row]
    BY <1>1 DEF Lists, NextBatch, Prepared, Moves, Open, Final
  <2> QED BY <2>1 DEF TypeOK
<1> QED BY <1>1, RefundFrame, ApprovalFrame, BatchKinds DEF Next, vars

\* Sales are settled by a batch that lists them.
LEMMA SettledListedStep ==
    ASSUME TypeOK, LinesInv, RowsInv, SettledListed, [Next]_vars PROVE SettledListed'
<1> SUFFICES ASSUME NEW s \in Sales, sale'[s] # "pending"
    PROVE  \E b \in Batches :
               Final(b)' /\ \E l \in batch'[b].lines : l.kind = "sale" /\ l.item = s
  BY DEF SettledListed
<1>1. CASE sale'[s] = sale[s]
  <2>1. PICK b \in Batches : Final(b) /\ \E l \in batch[b].lines : l.kind = "sale" /\ l.item = s
    BY <1>1 DEF SettledListed
  <2>2. batch'[b] = batch[b]
    BY <2>1, FinalStays
  <2> QED BY <2>1, <2>2 DEF Final
<1>2. CASE sale'[s] # sale[s]
  <2>1. PICK b \in Batches : Pays(b)
    BY <1>2, RefundFrame, ApprovalFrame, NoPayFrame DEF Next, vars
  <2>2. \E l \in batch[b].lines : l.kind = "sale" /\ l.item = s
    BY <1>2, <2>1, SaleSettled
  <2>3. \E status \in {"paid", "cashless"} : batch' = [batch EXCEPT ![b].status = status]
    BY <2>1, PaidLines DEF Settled
  <2>4. batch'[b].lines = batch[b].lines /\ batch'[b].status \in {"paid", "cashless"}
    BY <2>3 DEF TypeOK, BatchRows
  <2> QED BY <2>2, <2>4 DEF Final
<1> QED BY <1>1, <1>2

\* The settlement a settled sale was paid under stands.
LEMMA SettledApproved ==
    ASSUME TypeOK, LinesInv, PaidStaysApproved, SettledListed, NEW s \in Sales, sale[s] # "pending"
    PROVE  \E a \in Approvals : /\ Approved(a) /\ s \in approval[a].sales
                                /\ HeldByPayout(a)
<1>1. PICK b \in Batches : Final(b) /\ \E l \in batch[b].lines : l.kind = "sale" /\ l.item = s
  BY DEF SettledListed
<1>2. PICK l \in batch[b].lines : l.kind = "sale" /\ l.item = s
  BY <1>1
<1>3. l.approval \in Approvals
  BY DEF TypeOK, BatchRows, Lines
<1>4. Approved(l.approval)
  BY <1>1 DEF PaidStaysApproved
<1>5. s \in approval[l.approval].sales
  BY <1>1, <1>2, <1>4 DEF LinesInv, Active
<1> QED BY <1>1, <1>3, <1>4, <1>5 DEF HeldByPayout

\* While a refund is ingested the row is free, or it is overtaken, or a
\* settlement is approved.
LEMMA ArrivalKinds ==
    ASSUME TypeOK, ApprovalSteps \/ BatchSteps
    PROVE  \/ VendorRowFree /\ arrival' = arrival
           \/ BeforeArrival
           \/ /\ UNCHANGED <<sale, batch, arrival>>
              /\ \E a \in Approvals : Approve(a)
<1>1. CASE ApprovalSteps
  BY <1>1 DEF ApprovalSteps, Draft, Approve, CancelSettlement
<1>2. CASE BatchSteps
  BY <1>2 DEF BatchSteps, PrepareOrdinary, PrepareR1, ReviewOrdinary, ReviewR1, CancelDraftBatch,
     CancelR1Review, PayOrdinary, PayR1, CompleteCashless, FinalizeClaims
<1> QED BY <1>1, <1>2

\* A refund without an origin is not overtaken by the payment of its sale.
LEMMA ArrivalInvStep ==
    ASSUME TypeOK, Safe, SettledListed, RowsInv, ArrivalInv, [Next]_vars
    PROVE  ArrivalInv'
<1> USE DEF Safe
<1>1. CASE UNCHANGED vars
  BY <1>1 DEF vars, ArrivalInv, Open, Approved
<1>2. CASE RefundSteps
  <2>1. PICK r \in Refunds : \/ RefundRead(r)
                             \/ RefundWrite(r)
                             \/ BackfillRead(r)
                             \/ BackfillWrite(r)
                             \/ BackfillFails(r)
    BY <1>2 DEF RefundSteps
  <2>2. UNCHANGED <<sale, approval, batch>>
    BY <1>2, RefundFrame
  <2>3. \A q \in Refunds \ {r} : arrival'[q] = arrival[q]
    BY <2>1 DEF RefundRead, RefundWrite, BackfillRead, BackfillWrite, BackfillFails, TypeOK
  <2>4. CASE RefundRead(r)
    <3> SUFFICES ASSUME arrival'[r].origin = NoApproval
        PROVE  /\ sale[SaleOf[r]] = "pending"
               /\ \A b \in Batches : Open(b) => \A l \in batch[b].lines :
                      (l.kind = "sale" /\ l.item = SaleOf[r]) => ~Approved(l.approval)
      BY <2>2, <2>3 DEF ArrivalInv, Open, Approved
    <3>1. SaleOf[r] \in Sales /\ Origins(SaleOf[r]) = {}
      <4>1. PICK c : /\ c = NoApproval => Origins(SaleOf[r]) = {}
                     /\ arrival' = [arrival EXCEPT ![r] =
                            [phase |-> "reading", ledger |-> ArrivalLedger(r), origin |-> c]]
        BY <2>4 DEF RefundRead
      <4>2. arrival'[r].origin = c
        BY <4>1 DEF TypeOK
      <4> QED BY <4>1, <4>2, ConstantsAssumption
    <3>2. sale[SaleOf[r]] = "pending"
      BY <3>1, SettledApproved DEF Origins
    <3>3. ASSUME NEW b \in Batches, Open(b), NEW l \in batch[b].lines,
                 l.kind = "sale", l.item = SaleOf[r], Approved(l.approval)
          PROVE  FALSE
      <4>1. l.approval \in Approvals
        BY DEF TypeOK, BatchRows, Lines
      <4>2. SaleOf[r] \in approval[l.approval].sales
        BY <3>3 DEF LinesInv, Active
      <4> QED BY <3>1, <3>3, <4>1, <4>2 DEF Origins
    <3> QED BY <3>2, <3>3
  <2>5. CASE RefundWrite(r)
    <3>1. arrival'[r].phase = "none"
      BY <2>5 DEF RefundWrite, NoArrival, TypeOK
    <3> QED BY <2>2, <2>3, <3>1 DEF ArrivalInv, Open, Approved
  <2>6. CASE arrival' = arrival
    BY <2>2, <2>6 DEF ArrivalInv, Open, Approved
  <2> QED BY <2>1, <2>4, <2>5, <2>6 DEF BackfillRead, BackfillWrite, BackfillFails
<1>3. CASE VendorRowFree /\ arrival' = arrival
  BY <1>3 DEF ArrivalInv, VendorRowFree, NoArrival
<1>4. ASSUME UNCHANGED <<sale, batch, arrival>>, NEW a \in Approvals, Approve(a) PROVE ArrivalInv'
  <2>1. /\ approval[a].status = "draft"
        /\ \A c \in Approvals \ {a} : approval'[c] = approval[c]
    BY <1>4 DEF Approve, TypeOK
  <2>2. ASSUME NEW b \in Batches, Open(b), NEW l \in batch[b].lines
        PROVE  l.approval \in Approvals \ {a}
    BY <2>1, <2>2 DEF LinesInv, Active, TypeOK, BatchRows, Lines
  <2> QED BY <1>4, <2>1, <2>2 DEF ArrivalInv, Open, Approved
<1>5. CASE BeforeArrival /\ (ApprovalSteps \/ BatchSteps)
  <2> SUFFICES ASSUME NEW r \in Refunds, arrival[r].phase = "reading",
                      arrival[r].origin = NoApproval
      PROVE  sale'[SaleOf[r]] = "pending"
    BY <1>5, BeforeArrivalTypes DEF ArrivalInv
  <2>1. SaleOf[r] \in Sales /\ sale[SaleOf[r]] = "pending"
    BY ConstantsAssumption DEF ArrivalInv
  <2>2. ASSUME NEW b \in Batches, Pays(b) PROVE sale'[SaleOf[r]] = sale[SaleOf[r]]
    <3>1. Open(b)
      BY <2>2, PaidLines DEF Open
    <3>2. \A l \in batch[b].lines :
              (l.kind = "sale" /\ l.item = SaleOf[r]) => ~Approved(l.approval)
      BY <3>1 DEF ArrivalInv
    <3> QED BY <2>1, <2>2, <3>2, SaleSettled
  <2> QED BY <1>5, <2>1, <2>2, NoPayFrame, ApprovalFrame
<1> QED BY <1>1, <1>2, <1>3, <1>4, <1>5, ArrivalKinds DEF Next

\* Whatever a refund of a settled sale was accounted by is not undone.
LEMMA RefundAccountedStep ==
    ASSUME TypeOK, Safe, SettledListed, RowsInv, ArrivalInv, RefundAccounted, [Next]_vars
    PROVE  RefundAccounted'
<1> USE DEF Safe
<1>1. CASE UNCHANGED <<sale, refund, adjustment, approval>>
  BY <1>1 DEF RefundAccounted, Arrived, Approved, HasRefundRow
<1>2. CASE RefundSteps
  <2>1. PICK r \in Refunds : \/ RefundRead(r)
                             \/ RefundWrite(r)
                             \/ BackfillRead(r)
                             \/ BackfillWrite(r)
                             \/ BackfillFails(r)
    BY <1>2 DEF RefundSteps
  <2>2. /\ \A q \in Refunds \ {r} : refund'[q] = refund[q]
        /\ \A q \in Refunds : adjustment'[q] = adjustment[q] \/ adjustment'[q].exists
        /\ ~RefundWrite(r) => refund' = refund
    BY <2>1 DEF RefundRead, RefundWrite, BackfillRead, BackfillWrite, BackfillFails, Opened, TypeOK
  <2>3. ASSUME RefundWrite(r), sale[SaleOf[r]] # "pending" PROVE adjustment'[r].exists
    <3>1. arrival[r].origin # NoApproval
      BY <2>3 DEF ArrivalInv, RefundWrite
    <3> QED BY <2>3, <3>1 DEF RefundWrite, Opened, TypeOK
  <2>4. sale' = sale /\ approval' = approval
    BY <1>2, RefundFrame
  <2> QED BY <2>1, <2>2, <2>3, <2>4 DEF RefundAccounted, Arrived, Approved, HasRefundRow
<1>3. CASE ApprovalSteps
  <2>1. PICK a \in Approvals : \/ \E scope \in SUBSET Sales : Draft(a, scope)
                               \/ Approve(a)
                               \/ CancelSettlement(a)
    BY <1>3 DEF ApprovalSteps
  <2>2. /\ sale' = sale /\ refund' = refund
        /\ \A c \in Approvals \ {a} : approval'[c] = approval[c]
    BY <2>1 DEF Draft, Approve, CancelSettlement, TypeOK
  <2>3. \A r \in Refunds : adjustment'[r].exists = adjustment[r].exists
    <3>1. CASE CancelSettlement(a)
      <4> TAKE r \in Refunds
      <4> DEFINE applied == adjustment[r].applied - approval[a].applied[r]
                 rest == adjustment[r].remaining + approval[a].applied[r]
      <4>1. adjustment'[r] = [adjustment[r] EXCEPT !.applied = applied, !.remaining = rest]
        BY <3>1 DEF CancelSettlement
      <4>2. adjustment[r] \in Adjustments
        BY DEF TypeOK
      <4> HIDE DEF applied, rest
      <4> QED BY <4>1, <4>2 DEF Adjustments
    <3>2. ASSUME NEW scope, Draft(a, scope)
          PROVE  \A r \in Refunds : adjustment'[r].exists = adjustment[r].exists
      BY <3>2, ConsumeTypes DEF Draft
    <3> QED BY <2>1, <3>1, <3>2 DEF Approve
  <2> SUFFICES ASSUME NEW r \in Arrived, sale[SaleOf[r]] # "pending", ~adjustment[r].exists
      PROVE  \E c \in Approvals : Approved(c)' /\ HasRefundRow(c, r)'
    BY <2>2, <2>3 DEF RefundAccounted, Arrived
  <2>4. r \in Refunds /\ SaleOf[r] \in Sales
    BY ConstantsAssumption DEF Arrived
  <2>5. PICK c \in Approvals : Approved(c) /\ HasRefundRow(c, r)
    BY <2>4 DEF RefundAccounted, TypeOK, SaleStatus
  <2>6. r \in approval[c].refunds /\ SaleOf[r] \in approval[c].sales
    BY <2>4, <2>5 DEF HasRefundRow, RowsInv
  <2>7. CASE c # a
    BY <2>2, <2>5, <2>7 DEF Approved, HasRefundRow
  <2>8. CASE c = a
    <3>1. PICK d \in Approvals : Approved(d) /\ SaleOf[r] \in approval[d].sales /\ HeldByPayout(d)
      BY <2>4, SettledApproved
    <3>2. c = d
      BY <2>5, <2>6, <3>1 DEF OneSettlement, Live, Approved
    <3>3. ~CancelSettlement(a)
      BY <2>8, <3>1, <3>2 DEF CancelSettlement
    <3> QED BY <2>1, <2>5, <2>8, <3>3 DEF Draft, NextApproval, Approve, Approved
  <2> QED BY <2>7, <2>8
<1>4. ASSUME NEW b \in Batches, Pays(b), approval' = approval PROVE RefundAccounted'
  <2> SUFFICES ASSUME NEW r \in Refunds, r \in Arrived', sale'[SaleOf[r]] # "pending"
      PROVE  \/ adjustment'[r].exists
             \/ \E a \in Approvals : Approved(a) /\ HasRefundRow(a, r)
    BY <1>4 DEF RefundAccounted, Arrived, Approved, HasRefundRow
  <2>1. SaleOf[r] \in Sales
    BY ConstantsAssumption
  <2>2. /\ adjustment'[r].exists = adjustment[r].exists
        /\ r \in Arrived \/ adjustment[r].exists
    BY <1>4, RefundSettled
  <2>3. CASE sale'[SaleOf[r]] # sale[SaleOf[r]]
    BY <1>4, <2>1, <2>2, <2>3, SaleSettled DEF RefundsOf
  <2>4. CASE sale'[SaleOf[r]] = sale[SaleOf[r]]
    BY <2>1, <2>2, <2>4 DEF RefundAccounted, TypeOK, SaleStatus
  <2> QED BY <2>3, <2>4
<1> QED BY <1>1, <1>2, <1>3, <1>4, NoPayFrame, BatchKinds DEF Next, vars

-----------------------------------------------------------------------------
(* The theorems *)

\* The strengthened invariant holds at first.
LEMMA IInvInit == Init => IInv
<1> SUFFICES ASSUME Init PROVE IInv
  OBVIOUS
<1>1. TypeOK
  BY TypeInit
<1>2. /\ \A s \in Sales : sale[s] = "pending"
      /\ \A r \in Refunds : refund[r].ledger = "absent" /\ adjustment[r].remaining = 0
      /\ \A a \in Approvals : /\ approval[a].status = "none"
                              /\ approval[a].refunds = {}
                              /\ \A r \in Refunds : approval[a].applied[r] = 0
      /\ \A b \in Batches : batch[b].status = "none" /\ claim[b].status = "none"
      /\ \A r \in Refunds : arrival[r].phase = "none"
  BY DEF Init, NoRefund, NoAdjustment, Blank, Nothing, NoBatch, NoClaim, NoArrival
<1>3. Safe
  BY <1>2 DEF Safe, OneSettlement, LinesInv, ListedOnce, PaidStaysApproved, ClaimsFollowBatch,
         Live, Active, Open, Final
<1>4. SettledListed /\ RowsInv /\ ArrivalInv /\ RefundAccounted
  BY <1>2 DEF SettledListed, RowsInv, ArrivalInv, RefundAccounted, Arrived
<1> QED BY <1>1, <1>3, <1>4 DEF IInv

\* IInv is inductive.
LEMMA IInvStep == IInv /\ [Next]_vars => IInv'
BY TypeStep, OneSettlementStep, LinesInvStep, ListedOnceStep, PaidStaysApprovedStep,
   ClaimsFollowBatchStep, SettledListedStep, RowsInvStep, ArrivalInvStep, RefundAccountedStep DEF IInv, Safe

\* IInv holds of every reachable state.
LEMMA Inductive == Spec => []IInv
BY IInvInit, IInvStep, PTL DEF Spec

\* However settlements are cancelled and drafted again while batches are under
\* way, a sale is in at most one payout that is not cancelled.
THEOREM PaidOnce == Spec => []ListedOnce
<1>1. IInv => ListedOnce
  BY DEF IInv, Safe
<1> QED BY <1>1, Inductive, PTL

\* A settlement that a payout was made under is never cancelled.
THEOREM SettlementKept == Spec => []PaidStaysApproved
<1>1. IInv => PaidStaysApproved
  BY DEF IInv, Safe
<1> QED BY <1>1, Inductive, PTL

\* Claims are reserved, consumed and released with their batch.
THEOREM ClaimsMatchBatch == Spec => []ClaimsFollowBatch
<1>1. IInv => ClaimsFollowBatch
  BY DEF IInv, Safe
<1> QED BY <1>1, Inductive, PTL

\* No refund of a paid sale is without an adjustment and without a settlement.
THEOREM NoRefundForgotten == Spec => []RefundAccounted
<1>1. IInv => RefundAccounted
  BY DEF IInv
<1> QED BY <1>1, Inductive, PTL

=============================================================================
