----------------------- MODULE PayoutConsumption_proofs -----------------------
(***************************************************************************)
(* Two properties are refuted for the payouts as they are.  These proofs   *)
(* name the only causes.  No refund is taken off twice, whatever drafts,   *)
(* approvals, payouts and late refunds do, as long as nobody backfills     *)
(* adjustments.  No payout leaves a refund of its settlement out, as long  *)
(* as no refund on HOLD is drafted and none in a settlement gets an        *)
(* adjustment.                                                             *)
(***************************************************************************)
EXTENDS PayoutAmounts_proofs

-----------------------------------------------------------------------------
(* The inductive invariant *)

\* Nobody is repairing adjustments.
WithoutBackfill == \A r \in Refunds : backfill[r] = NoApproval

\* A refund about to arrive as payable belongs to a sale that is not approved,
\* and nothing that is drafted can become so before it arrives.
LateInv ==
    \A r \in Refunds : (arrival[r].phase # "none" /\ arrival[r].ledger = "pending") =>
        /\ arrival[r].origin = NoApproval
        /\ \A a \in Approvals : SaleOf[r] \in approval[a].sales =>
               /\ ~Approved(a)
               /\ arrival[r].phase = "reading" => ~Live(a)

\* A refund with an adjustment is not payable by itself.
AdjustedInv == \A r \in Refunds : adjustment[r].exists => refund[r].ledger # "pending"

\* A refund is a direct line of one settlement that stands.
DirectInv ==
    /\ \A a, c \in Approvals :
           (Live(a) /\ Live(c) /\ approval[a].refunds \cap approval[c].refunds # {}) => a = c
    /\ \A b \in Batches : Active(b) => \A l \in batch[b].lines :
           (l.kind = "refund" /\ Approved(l.approval)) => l.item \in approval[l.approval].refunds

\* No line is in two batches.
LineOnce ==
    \A b, c \in Batches : (Active(b) /\ Active(c) /\ batch[b].lines \cap batch[c].lines # {}) => b = c

\* Direct lines that were paid: settled, without an adjustment, and one for
\* a refund.
PaidDirectInv ==
    \A b \in Batches : Final(b) => \A l \in batch[b].lines : l.kind = "refund" =>
        /\ ~adjustment[l.item].exists
        /\ refund[l.item].ledger \in {"paid", "cashless"}
        /\ \A c \in Batches : Final(c) => \A m \in batch[c].lines :
               (m.kind = "refund" /\ m.item = l.item) => b = c /\ l = m

\* A batch without claims has no amounts.
NoClaimInv == \A b \in Batches : claim[b].status = "none" => claim[b] = NoClaim

OnceInv == LateInv /\ AdjustedInv /\ DirectInv /\ LineOnce /\ PaidDirectInv /\ NoClaimInv

-----------------------------------------------------------------------------
(* Refunds that arrive *)

\* LateInv, for one refund.
Late(r) ==
    (arrival[r].phase # "none" /\ arrival[r].ledger = "pending") =>
        /\ arrival[r].origin = NoApproval
        /\ \A a \in Approvals : SaleOf[r] \in approval[a].sales =>
               /\ ~Approved(a)
               /\ arrival[r].phase = "reading" => ~Live(a)

\* A refund that nothing overtakes keeps what it read.
LEMMA LateRefunds ==
    ASSUME TypeOK, LateInv, RefundSteps, NEW r \in Refunds PROVE Late(r)'
<1>1. approval' = approval
  BY RefundFrame
<1>2. CASE arrival'[r] = arrival[r]
  BY <1>1, <1>2 DEF LateInv, Late, Approved, Live
<1>3. CASE arrival'[r] = NoArrival
  BY <1>3 DEF Late, NoArrival
<1>4. CASE RefundRead(r)
  <2>1. PICK a \in Origins(SaleOf[r]) \cup {NoApproval} :
            arrival' = [arrival EXCEPT ![r] = [phase |-> "reading", ledger |-> ArrivalLedger(r), origin |-> a]]
    BY <1>4 DEF RefundRead
  <2>2. arrival'[r].ledger = ArrivalLedger(r) /\ arrival'[r].origin = a
    BY <2>1 DEF TypeOK
  <2>3. ArrivalLedger(r) = "pending" =>
            \A c \in Approvals : SaleOf[r] \in approval[c].sales => ~Live(c)
    BY DEF ArrivalLedger
  <2>4. ArrivalLedger(r) = "pending" => a = NoApproval
    BY <2>3 DEF Origins, Approved, Live
  <2> QED BY <1>1, <2>2, <2>3, <2>4 DEF Late, Approved, Live
<1>5. PICK q \in Refunds : \/ RefundRead(q)
                           \/ RefundWrite(q)
                           \/ BackfillRead(q)
                           \/ BackfillWrite(q)
                           \/ BackfillFails(q)
  BY DEF RefundSteps
<1>6. CASE r # q
  <2>1. arrival'[r] = arrival[r]
    BY <1>5, <1>6 DEF RefundRead, RefundWrite, BackfillRead, BackfillWrite, BackfillFails, TypeOK
  <2> QED BY <1>2, <2>1
<1>7. CASE r = q
  BY <1>2, <1>3, <1>4, <1>5, <1>7 DEF RefundWrite, BackfillRead, BackfillWrite, BackfillFails, TypeOK
<1> QED BY <1>6, <1>7

\* Settlements and batches overtake a refund under way, and only its approval
\* does not wait: it does not find a sale that was in no draft when the refund
\* was read.
LEMMA LateInvStep == ASSUME TypeOK, LateInv, [Next]_vars PROVE LateInv'
<1> SUFFICES ASSUME NEW r \in Refunds PROVE Late(r)'
  BY DEF LateInv, Late
<1>1. Late(r)
  BY DEF LateInv, Late
<1>2. ASSUME BeforeArrival,
             \A a \in Approvals : Approved(a)' => Approved(a) /\ approval'[a].sales = approval[a].sales
      PROVE  Late(r)'
  <2>1. /\ arrival'[r].origin = arrival[r].origin /\ arrival'[r].phase # "reading"
        /\ arrival'[r].phase # "none" => arrival[r].phase = "reading"
    BY <1>2, BeforeArrivalTypes
  <2>2. arrival'[r].ledger = arrival[r].ledger
    BY <1>2 DEF BeforeArrival, TypeOK, Arrivals
  <2> QED BY <1>1, <1>2, <2>1, <2>2 DEF Late
<1>3. CASE arrival' = arrival /\ approval' = approval
  BY <1>1, <1>3 DEF Late, Approved, Live
<1>4. CASE ApprovalSteps
  <2>1. PICK a \in Approvals :
            /\ \A c \in Approvals \ {a} : approval'[c] = approval[c]
            /\ \/ /\ \E scope \in SUBSET Sales : Draft(a, scope)
                  /\ approval'[a].status = "draft"
               \/ /\ Approve(a)
                  /\ approval[a].status = "draft" /\ approval'[a].status = "approved"
                  /\ approval'[a].sales = approval[a].sales
               \/ /\ CancelSettlement(a)
                  /\ approval'[a].status = "cancelled"
    BY <1>4, ApprovalKinds
  <2>2. ASSUME BeforeArrival, approval'[a].status # "approved" PROVE Late(r)'
    BY <1>2, <2>1, <2>2 DEF Approved
  <2>3. CASE Approve(a) /\ approval[a].status = "draft" /\ approval'[a].sales = approval[a].sales
    <3>1. arrival' = arrival /\ arrival[r].phase # "overtaken" /\ arrival[r] \in Arrivals
      BY <2>3 DEF Approve, NoneOvertaken, TypeOK
    <3>2. arrival[r].phase = "reading" \/ arrival[r].phase = "none"
      BY <3>1 DEF Arrivals
    <3>3. Live(a)
      BY <2>3 DEF Live
    <3> QED BY <1>1, <2>1, <2>3, <3>1, <3>2, <3>3 DEF Late, Approved, Live
  <2> QED BY <2>1, <2>2, <2>3 DEF Draft, CancelSettlement
<1>5. CASE BatchSteps
  <2>1. approval' = approval
    BY <1>5, BatchKinds
  <2> QED BY <1>2, <1>3, <1>5, <2>1, ArrivalKinds DEF Approved
<1>6. CASE UNCHANGED vars
  BY <1>3, <1>6 DEF vars
<1> QED BY <1>4, <1>5, <1>6, LateRefunds DEF Next

\* The row of a refund changes when it is written and when it is settled.
LEMMA LedgerMoves ==
    ASSUME TypeOK, [Next]_vars, NEW r \in Refunds
    PROVE  \/ refund'[r] = refund[r]
           \/ RefundWrite(r) /\ refund'[r].ledger = arrival[r].ledger
           \/ refund'[r].ledger \in {"paid", "cashless"}
<1>1. CASE RefundSteps
  <2>1. PICK q \in Refunds : \/ RefundRead(q)
                             \/ RefundWrite(q)
                             \/ BackfillRead(q)
                             \/ BackfillWrite(q)
                             \/ BackfillFails(q)
    BY <1>1 DEF RefundSteps
  <2> QED BY <2>1 DEF RefundRead, RefundWrite, BackfillRead, BackfillWrite, BackfillFails, TypeOK
<1>2. CASE BatchSteps
  <2>1. ASSUME NEW b \in Batches, NEW status \in {"paid", "cashless"}, Settled(b, status)
        PROVE  refund'[r] = refund[r] \/ refund'[r].ledger = status
    BY <2>1 DEF Settled, TypeOK, RefundRows
  <2>2. refund' = refund \/ \E b \in Batches, status \in {"paid", "cashless"} : Settled(b, status)
    BY <1>2 DEF BatchSteps, PrepareOrdinary, PrepareR1, ReviewOrdinary, ReviewR1, CancelDraftBatch,
       CancelR1Review, Release, PayOrdinary, PayR1, CompleteCashless
  <2> QED BY <2>1, <2>2
<1> QED BY <1>1, <1>2, ApprovalFrame DEF Next, vars

\* Without the backfill, an adjustment is opened by the refund itself.
LEMMA OpenedByRefund ==
    ASSUME TypeOK, WithoutBackfill, [Next]_vars, NEW r \in Refunds,
           adjustment'[r].exists, ~adjustment[r].exists
    PROVE  RefundWrite(r)
BY AdjustmentsOpened DEF WithoutBackfill, BackfillWrite

\* A refund that gets an adjustment is not payable by itself.
LEMMA AdjustedInvStep ==
    ASSUME TypeOK, ArrivedInv, LateInv, AdjustedInv, WithoutBackfill, [Next]_vars
    PROVE  AdjustedInv'
<1> SUFFICES ASSUME NEW r \in Refunds, adjustment'[r].exists, refund'[r].ledger = "pending" PROVE FALSE
  BY DEF AdjustedInv
<1>1. CASE RefundWrite(r)
  <2>1. arrival[r].ledger = "pending" /\ arrival[r].phase # "none"
    BY <1>1 DEF RefundWrite, TypeOK
  <2>2. arrival[r].origin = NoApproval /\ Origins(SaleOf[r]) = {}
    BY <2>1 DEF LateInv, Origins
  <2>3. adjustment' = adjustment
    BY <1>1, <2>2 DEF RefundWrite
  <2>4. r \in Arrived /\ r \notin Arrived
    BY <2>1, <2>3 DEF ArrivedInv
  <2> QED BY <2>4
<1>2. CASE ~RefundWrite(r)
  <2>1. adjustment[r].exists
    BY <1>2, OpenedByRefund
  <2> QED BY <1>2, <2>1, LedgerMoves DEF AdjustedInv
<1> QED BY <1>1, <1>2

-----------------------------------------------------------------------------
(* Direct lines *)

\* A draft takes a refund that no standing settlement has, and a batch the
\* refunds of approved ones.
LEMMA DirectInvStep == ASSUME TypeOK, LinesInv, DirectInv, [Next]_vars PROVE DirectInv'
<1>1. ASSUME NEW a \in Approvals, NEW c \in Approvals, Live(a)', Live(c)',
             approval'[a].refunds \cap approval'[c].refunds # {}
      PROVE  a = c
  <2>1. CASE approval' = approval
    BY <1>1, <2>1 DEF DirectInv, Live
  <2>2. CASE ApprovalSteps
    <3>1. PICK d \in Approvals :
              /\ \A e \in Approvals \ {d} : approval'[e] = approval[e]
              /\ \/ \E scope \in SUBSET Sales : approval'[d].refunds = DraftRefunds(scope)
                 \/ approval[d].status = "draft" /\ approval'[d].refunds = approval[d].refunds
                 \/ approval'[d].status = "cancelled"
      BY <2>2, ApprovalKinds
    <3>2. CASE \E scope \in SUBSET Sales : approval'[d].refunds = DraftRefunds(scope)
      <4>1. \A e \in Approvals : Live(e) => approval'[d].refunds \cap approval[e].refunds = {}
        BY <3>2 DEF DraftRefunds, HasRefundRow
      <4> QED BY <1>1, <3>1, <4>1 DEF DirectInv, Live
    <3>3. CASE approval[d].status = "draft" /\ approval'[d].refunds = approval[d].refunds
      <4>1. Live(a) /\ Live(c) /\ approval[a].refunds \cap approval[c].refunds # {}
        BY <1>1, <3>1, <3>3 DEF Live
      <4> QED BY <4>1 DEF DirectInv
    <3>4. CASE approval'[d].status = "cancelled"
      BY <1>1, <3>1, <3>4 DEF DirectInv, Live
    <3> QED BY <3>1, <3>2, <3>3, <3>4
  <2> QED BY <2>1, <2>2, RefundFrame, BatchKinds DEF Next, vars
<1>2. ASSUME NEW b \in Batches, Active(b)', NEW l \in batch'[b].lines, l.kind = "refund",
             Approved(l.approval)'
      PROVE  l.item \in approval'[l.approval].refunds
  <2>1. ASSUME l \in batch[b].lines, Active(b) PROVE l.item \in approval'[l.approval].refunds
    <3>1. approval[l.approval].status \in {"approved", "cancelled"} /\ l.approval \in Approvals
      BY <2>1 DEF LinesInv, TypeOK, BatchRows, Lines
    <3>2. approval'[l.approval] = approval[l.approval]
      BY <1>2, <3>1, ApprovedKept DEF Approved
    <3> QED BY <1>2, <2>1, <3>2 DEF DirectInv, Approved
  <2>2. ASSUME NEW c \in Batches, Moves(c) PROVE l \in batch[b].lines /\ Active(b)
    BY <1>2, <2>2 DEF Moves, TypeOK, Active, Open, Final
  <2>3. ASSUME NEW c \in Batches, Lists(c), BatchSteps, ~(l \in batch[b].lines /\ Active(b))
        PROVE  l.item \in approval'[l.approval].refunds
    <3>1. PICK covered : l \in Selected(covered)
      BY <1>2, <2>3 DEF Lists, Prepared, TypeOK, Active, Open, Final
    <3>2. l.item \in approval[l.approval].refunds
      BY <1>2, <3>1 DEF Selected, LinesOf
    <3> QED BY <2>3, <3>2, BatchKinds
  <2>4. CASE batch' = batch
    BY <1>2, <2>1, <2>4 DEF Active, Open, Final
  <2> QED BY <2>1, <2>2, <2>3, <2>4, RefundFrame, ApprovalFrame, BatchKinds DEF Next, vars
<1> QED BY <1>1, <1>2 DEF DirectInv

\* A batch takes no line that another has.
LEMMA LineOnceStep == ASSUME TypeOK, LineOnce, [Next]_vars PROVE LineOnce'
<1> SUFFICES ASSUME NEW b \in Batches, NEW c \in Batches, Active(b)', Active(c)', b # c,
                    NEW l \in batch'[b].lines, l \in batch'[c].lines
             PROVE  FALSE
  BY DEF LineOnce
<1>1. CASE /\ Active(b) /\ l \in batch[b].lines
           /\ Active(c) /\ l \in batch[c].lines
  BY <1>1 DEF LineOnce
<1>2. CASE batch' = batch
  BY <1>1, <1>2 DEF Active, Open, Final
<1>3. ASSUME NEW d \in Batches, Moves(d) PROVE FALSE
  BY <1>1, <1>3 DEF Moves, TypeOK, Active, Open, Final
<1>4. ASSUME NEW d \in Batches, Lists(d) PROVE FALSE
  <2>1. PICK covered : \E known : batch' = [batch EXCEPT ![d] =
                           [status |-> "draft", lines |-> Selected(covered), known |-> known]]
    BY <1>4 DEF Lists, Prepared
  <2>2. batch'[d].lines = Selected(covered) /\ \A e \in Batches \ {d} : batch'[e] = batch[e]
    BY <2>1 DEF TypeOK
  <2>3. l \in Selected(covered) => \A e \in Batches : ~(Active(e) /\ l \in batch[e].lines)
    BY ConstantsAssumption DEF Selected, InOtherBatch, NoBatchId, Batches
  <2>4. \A e \in Batches \ {d} : Active(e)' => Active(e)
    BY <2>2 DEF Active, Open, Final
  <2>5. CASE b = d \/ c = d
    BY <2>2, <2>3, <2>4, <2>5
  <2>6. CASE b # d /\ c # d
    BY <1>1, <2>2, <2>4, <2>6
  <2> QED BY <2>5, <2>6
<1> QED BY <1>2, <1>3, <1>4, RefundFrame, ApprovalFrame, BatchKinds DEF Next, vars

\* A direct line is paid only while its refund is payable by itself.
LEMMA PaidDirect ==
    ASSUME TypeOK, RowsInv, DirectInv, AdjustedInv, NEW b \in Batches, Pays(b),
           NEW l \in batch[b].lines, l.kind = "refund"
    PROVE  /\ Approved(l.approval) /\ l.item \in approval[l.approval].refunds
           /\ refund[l.item].ledger = "pending" /\ ~adjustment[l.item].exists
           /\ refund'[l.item].ledger \in {"paid", "cashless"}
<1>1. PICK covered : TransitionOk(b, covered)
  BY PaidLines
<1>2. batch[b].status = "review" /\ \E status \in {"paid", "cashless"} : Settled(b, status)
  BY PaidLines
<1>3. l.item \in Refunds /\ l.approval \in Approvals
  BY DEF TypeOK, BatchRows, Lines
<1>4. /\ Approved(l.approval) /\ RowPayable(l, covered) /\ refund[l.item].ledger # "hold"
  BY <1>1 DEF TransitionOk
<1>5. l.item \in approval[l.approval].refunds
  BY <1>2, <1>4 DEF DirectInv, Active, Open
<1>6. SaleOf[l.item] \in approval[l.approval].sales /\ Live(l.approval)
  BY <1>3, <1>4, <1>5 DEF RowsInv, Approved, Live
<1>7. ~RefundStillOffsets(l.item, NoApproval)
  BY <1>3, <1>6, ConstantsAssumption DEF RefundStillOffsets, NoApproval, Approvals
<1>8. refund[l.item].ledger = "pending"
  BY <1>4, <1>7 DEF RowPayable
<1>9. refund'[l.item].ledger \in {"paid", "cashless"}
  BY <1>2, <1>3 DEF Settled, TypeOK, RefundRows
<1> QED BY <1>3, <1>4, <1>5, <1>8, <1>9 DEF AdjustedInv

\* A batch becomes final when it is paid.
LEMMA FinalByPaying ==
    ASSUME TypeOK, [Next]_vars, NEW b \in Batches, Final(b)', ~Final(b)
    PROVE  /\ Pays(b) /\ BatchSteps /\ batch'[b].lines = batch[b].lines
           /\ \A c \in Batches \ {b} : batch'[c] = batch[c]
<1>1. CASE batch' = batch
  BY <1>1 DEF Final
<1>2. CASE BatchSteps
  <2>1. PICK c \in Batches : \/ PrepareOrdinary(c)
                             \/ PrepareR1(c)
                             \/ ReviewOrdinary(c)
                             \/ ReviewR1(c)
                             \/ CancelDraftBatch(c)
                             \/ CancelR1Review(c)
                             \/ Pays(c)
    BY <1>2 DEF BatchSteps, Pays
  <2>2. ASSUME NEW row, batch' = [batch EXCEPT ![c] = row], row.status \notin {"paid", "cashless"}
        PROVE  FALSE
    BY <2>2 DEF Final, TypeOK
  <2>3. ASSUME NEW lines, Prepared(c, lines) PROVE FALSE
    BY <2>2, <2>3 DEF Prepared
  <2>4. ASSUME NEW status \in {"review", "cancelled"}, batch' = [batch EXCEPT ![c].status = status]
        PROVE  FALSE
    BY <2>4 DEF Final, TypeOK, BatchRows
  <2>5. CASE Pays(c)
    <3>1. PICK status \in {"paid", "cashless"} : batch' = [batch EXCEPT ![c].status = status]
      BY <2>5 DEF Pays, PayOrdinary, PayR1, CompleteCashless, Settled
    <3>2. b = c
      BY <3>1 DEF Final, TypeOK
    <3> QED BY <1>2, <2>5, <3>1, <3>2 DEF TypeOK, BatchRows
  <2> QED BY <2>1, <2>3, <2>4, <2>5
          DEF PrepareOrdinary, PrepareR1, ReviewOrdinary, ReviewR1, CancelDraftBatch, CancelR1Review, Release
<1> QED BY <1>1, <1>2, RefundFrame, ApprovalFrame DEF Next, vars

\* What was paid directly has no adjustment, and is not paid again.
LEMMA PaidDirectInvStep ==
    ASSUME TypeOK, RowsInv, ArrivedInv, DirectInv, AdjustedInv, PaidDirectInv, WithoutBackfill,
           [Next]_vars
    PROVE  PaidDirectInv'
<1>1. ASSUME NEW b \in Batches, Final(b), NEW l \in batch[b].lines, l.kind = "refund"
      PROVE  /\ ~adjustment'[l.item].exists
             /\ refund'[l.item].ledger \in {"paid", "cashless"}
  <2>1. l.item \in Refunds /\ l.item \in Arrived
    BY <1>1 DEF ArrivedInv, TypeOK, BatchRows, Lines
  <2>2. ~RefundWrite(l.item)
    BY <2>1 DEF RefundWrite, ArrivedInv
  <2> QED BY <1>1, <2>1, <2>2, OpenedByRefund, LedgerMoves DEF PaidDirectInv
<1>2. ASSUME NEW b \in Batches, Final(b)', ~Final(b), NEW l \in batch'[b].lines, l.kind = "refund"
      PROVE  /\ l \in batch[b].lines /\ Pays(b)
             /\ Approved(l.approval) /\ l.item \in approval[l.approval].refunds
             /\ refund[l.item].ledger = "pending"
             /\ ~adjustment'[l.item].exists
             /\ refund'[l.item].ledger \in {"paid", "cashless"}
  <2>1. l \in batch[b].lines /\ Pays(b) /\ BatchSteps
    BY <1>2, FinalByPaying
  <2>2. l.item \in Refunds
    BY <1>2, <2>1 DEF TypeOK, BatchRows, Lines
  <2>3. ~RefundWrite(l.item)
    <3>1. l.item \in Arrived
      BY <1>2, <2>1 DEF ArrivedInv
    <3> QED BY <2>2, <3>1 DEF RefundWrite, ArrivedInv
  <2> QED BY <1>2, <2>1, <2>2, <2>3, PaidDirect, OpenedByRefund
<1>3. \A b \in Batches : Final(b) => batch'[b].lines = batch[b].lines
  BY FinalStays
<1>4. ASSUME NEW b \in Batches, Final(b)', NEW l \in batch'[b].lines, l.kind = "refund"
      PROVE  /\ ~adjustment'[l.item].exists
             /\ refund'[l.item].ledger \in {"paid", "cashless"}
  BY <1>1, <1>2, <1>3, <1>4
<1>5. ASSUME NEW b \in Batches, Final(b)', NEW l \in batch'[b].lines, l.kind = "refund",
             NEW c \in Batches, Final(c)', NEW m \in batch'[c].lines, m.kind = "refund",
             m.item = l.item
      PROVE  b = c /\ l = m
  <2>1. CASE Final(b) /\ Final(c)
    BY <1>3, <1>5, <2>1 DEF PaidDirectInv
  <2>2. ASSUME Final(b), ~Final(c) PROVE FALSE
    <3>1. refund[m.item].ledger = "pending"
      BY <1>2, <1>5, <2>2
    <3>2. refund[l.item].ledger \in {"paid", "cashless"}
      BY <1>3, <1>5, <2>2 DEF PaidDirectInv
    <3> QED BY <1>5, <3>1, <3>2
  <2>3. ASSUME Final(c), ~Final(b) PROVE FALSE
    <3>1. refund[l.item].ledger = "pending"
      BY <1>2, <1>5, <2>3
    <3>2. refund[m.item].ledger \in {"paid", "cashless"}
      BY <1>3, <1>5, <2>3 DEF PaidDirectInv
    <3> QED BY <1>5, <3>1, <3>2
  <2>4. ASSUME ~Final(b), ~Final(c) PROVE b = c /\ l = m
    <3>1. b = c
      BY <1>5, <2>4, FinalByPaying DEF Final
    <3>2. /\ Approved(l.approval) /\ l.item \in approval[l.approval].refunds
          /\ Approved(m.approval) /\ m.item \in approval[m.approval].refunds
          /\ l \in batch[b].lines /\ m \in batch[c].lines
      BY <1>2, <1>5, <2>4
    <3>3. l \in Lines /\ m \in Lines
      BY <3>2 DEF TypeOK, BatchRows
    <3>4. l.approval \in Approvals /\ m.approval \in Approvals
      BY <3>3 DEF Lines
    <3>5. l.approval = m.approval
      BY <1>5, <3>2, <3>4 DEF DirectInv, Live, Approved
    <3>6. l = m
      BY <1>5, <3>3, <3>5 DEF Lines
    <3> QED BY <3>1, <3>6
  <2> QED BY <2>1, <2>2, <2>3, <2>4
<1> QED BY <1>4, <1>5 DEF PaidDirectInv

\* Amounts come with a reservation.
LEMMA NoClaimInvStep == ASSUME TypeOK, NoClaimInv, [Next]_vars PROVE NoClaimInv'
<1> SUFFICES ASSUME NEW b \in Batches, claim'[b].status = "none" PROVE claim'[b] = NoClaim
  BY DEF NoClaimInv
<1>1. CASE claim'[b] = claim[b]
  BY <1>1 DEF NoClaimInv
<1>2. ASSUME NEW c \in Batches,
             PrepareR1(c) \/ (Holding(c) /\ Release(c)) \/ (Holding(c) /\ FinalizeClaims(c))
      PROVE  claim'[b] = claim[b]
  <2>1. CASE PrepareR1(c)
    BY <2>1 DEF PrepareR1, TypeOK
  <2>2. ASSUME NEW status \in {"RELEASED", "FINALIZED"}, claim' = [claim EXCEPT ![c].status = status]
        PROVE  claim'[b] = claim[b]
    BY <2>2 DEF TypeOK, Claims
  <2>3. CASE Holding(c) /\ Release(c)
    BY <2>2, <2>3 DEF Release
  <2>4. CASE FinalizeClaims(c)
    BY <2>2, <2>4 DEF FinalizeClaims
  <2> QED BY <1>2, <2>1, <2>3, <2>4
<1> QED BY <1>1, <1>2, RefundFrame, ApprovalFrame, ClaimKinds DEF Next, vars

-----------------------------------------------------------------------------
(* Counting what the payouts took off *)

\* The lines of a batch that take a refund off, and what they take.
LinesFor(b, r) == {l \in batch[b].lines : l.kind # "sale" /\ l.item = r}
Taken(r) ==
    [b \in Batches |-> IF Final(b) THEN ClaimOf(claim[b].amount, r) - Net(LinesFor(b, r)) ELSE 0]

\* What was deducted is a sum over the batches, each of finitely many lines.
LEMMA TakenType ==
    ASSUME TypeOK, NEW r \in Refunds
    PROVE  /\ IsFiniteSet(Batches)
           /\ Deducted(r) = Sum(Taken(r), Batches)
           /\ \A b \in Batches : /\ LinesFor(b, r) \in SUBSET Lines
                                 /\ IsFiniteSet(LinesFor(b, r))
                                 /\ Net(LinesFor(b, r)) \in Int
                                 /\ Taken(r)[b] \in Int
<1>1. IsFiniteSet(Batches)
  BY ConstantsAssumption, FS_Interval DEF Batches
<1>2. Deducted(r) = Sum(Taken(r), Batches)
  BY DEF Deducted, Taken, LinesFor
<1>3. ASSUME NEW b \in Batches
      PROVE  /\ LinesFor(b, r) \in SUBSET Lines
             /\ IsFiniteSet(LinesFor(b, r))
             /\ Net(LinesFor(b, r)) \in Int
             /\ Taken(r)[b] \in Int
  <2>1. LinesFor(b, r) \in SUBSET Lines
    BY DEF LinesFor, TypeOK, BatchRows
  <2>2. IsFiniteSet(LinesFor(b, r))
    BY <2>1, LinesFinite, FS_Subset
  <2>3. Net(LinesFor(b, r)) \in Int
    BY <2>1, NetType
  <2>4. ClaimOf(claim[b].amount, r) \in Nat
    <3>1. claim[b].amount \in [Approvals -> [Refunds -> Nat]]
      BY DEF TypeOK, Claims
    <3> QED BY <3>1, ClaimOfType
  <2>5. Taken(r)[b] = IF Final(b) THEN ClaimOf(claim[b].amount, r) - Net(LinesFor(b, r)) ELSE 0
    BY DEF Taken
  <2> QED BY <2>1, <2>2, <2>3, <2>4, <2>5
<1> QED BY <1>1, <1>2, <1>3

\* A refund without an adjustment is taken off by one direct line at most.
LEMMA TakenDirectly ==
    ASSUME TypeOK, RowsInv, UnusedInv, PaidDirectInv, NEW r \in Refunds, ~adjustment[r].exists
    PROVE  Deducted(r) <= RefundAmount[r]
<1>1. ASSUME NEW b \in Batches PROVE ClaimOf(claim[b].amount, r) = 0
  BY ClaimsNeedAdjustment
<1>2. ASSUME NEW b \in Batches, NEW l \in LinesFor(b, r)
      PROVE  Impact(l) = IF l.kind = "refund" THEN -RefundAmount[r] ELSE 0
  <2>1. l \in Lines
    BY TakenType
  <2>2. /\ l.approval \in Approvals /\ l.item = r
        /\ l.kind = "refund" \/ l.kind = "adjustment"
    BY <2>1 DEF LinesFor, Lines
  <2>3. approval[l.approval].applied[r] = 0
    BY <2>2 DEF RowsInv, TypeOK, ApprovalRows
  <2> QED BY <2>2, <2>3 DEF Impact
<1>3. ASSUME NEW b \in Batches, Final(b) => \A l \in LinesFor(b, r) : l.kind # "refund"
      PROVE  Taken(r)[b] = 0
  <2>1. CASE Final(b)
    <3> DEFINE f == [l \in LinesFor(b, r) |-> Impact(l)]
    <3>1. \A l \in LinesFor(b, r) : f[l] = 0
      BY <1>2, <1>3, <2>1
    <3> HIDE DEF f
    <3>2. Sum(f, LinesFor(b, r)) = 0
      BY <3>1, TakenType, SumZero
    <3>3. Net(LinesFor(b, r)) = 0
      BY <3>2 DEF Net, f
    <3> QED BY <1>1, <3>3 DEF Taken
  <2> QED BY <2>1 DEF Taken
<1>4. CASE \A b \in Batches : Final(b) => \A l \in LinesFor(b, r) : l.kind # "refund"
  <2>1. \A b \in Batches : Taken(r)[b] = 0
    BY <1>3, <1>4
  <2>2. Deducted(r) = 0
    BY <2>1, TakenType, SumZero
  <2> QED BY <2>2, ConstantsAssumption
<1>5. ASSUME NEW b \in Batches, Final(b), NEW l \in LinesFor(b, r), l.kind = "refund"
      PROVE  Deducted(r) = RefundAmount[r]
  <2>1. \A c \in Batches : Final(c) => \A m \in LinesFor(c, r) : m.kind = "refund" => b = c /\ l = m
    BY <1>5 DEF PaidDirectInv, LinesFor
  <2>2. \A c \in Batches \ {b} : Taken(r)[c] = 0
    BY <1>3, <2>1
  <2>3. Net(LinesFor(b, r)) = -RefundAmount[r]
    <3> DEFINE f == [m \in LinesFor(b, r) |-> Impact(m)]
    <3>1. \A m \in LinesFor(b, r) \ {l} : f[m] = 0
      BY <1>2, <1>5, <2>1
    <3>2. f[l] = -RefundAmount[r] /\ f[l] \in Int
      BY <1>2, <1>5, ConstantsAssumption
    <3>3. IsFiniteSet(LinesFor(b, r)) /\ {l} \in SUBSET LinesFor(b, r) /\ \A m \in {l} : f[m] \in Int
      BY <3>2, TakenType
    <3> HIDE DEF f
    <3>4. Sum(f, LinesFor(b, r)) = Sum(f, {l})
      BY <3>1, <3>3, SumRestrict
    <3>5. Sum(f, {l}) = f[l]
      BY <3>2, SumOne
    <3> QED BY <3>2, <3>4, <3>5 DEF Net, f
  <2>4. Taken(r)[b] = RefundAmount[r]
    BY <1>1, <1>5, <2>3, ConstantsAssumption DEF Taken
  <2>5. Sum(Taken(r), Batches) = Sum(Taken(r), {b})
    <3>1. {b} \in SUBSET Batches /\ \A c \in {b} : Taken(r)[c] \in Int
      BY TakenType
    <3> QED BY <2>2, <3>1, TakenType, SumRestrict
  <2>6. Sum(Taken(r), {b}) = Taken(r)[b]
    BY TakenType, SumOne
  <2> QED BY <2>4, <2>5, <2>6, TakenType
<1> QED BY <1>4, <1>5, ConstantsAssumption

\* The batch a settlement's portion of a refund was paid with, or 0.
PaidWith(r) ==
    [a \in Approvals |->
        IF \E b \in Batches : Final(b) /\ \E l \in LinesFor(b, r) : l.approval = a
        THEN CHOOSE b \in Batches : Final(b) /\ \E l \in LinesFor(b, r) : l.approval = a
        ELSE 0]
Portion(r) == [a \in Approvals |-> approval[a].applied[r]]
PortionsOf(r) == [k \in {0} \cup Batches |-> Sum(Portion(r), {a \in Approvals : PaidWith(r)[a] = k})]

\* The lines of a final batch take off the portions that were paid with it.
LEMMA TakenByLines ==
    ASSUME TypeOK, LineOnce, PaidDirectInv, NEW r \in Refunds, adjustment[r].exists,
           NEW b \in Batches, Final(b)
    PROVE  Net(LinesFor(b, r)) = -PortionsOf(r)[b]
<1> DEFINE lines == LinesFor(b, r)
           A == ApprovalsOf(lines)
<1>1. lines \in SUBSET Lines /\ IsFiniteSet(lines)
  BY TakenType
<1>2. IsFiniteSet(Approvals) /\ A \subseteq Approvals
  <2>1. \A l \in Lines : l.approval \in Approvals
    BY DEF Lines
  <2>2. IsFiniteSet(Approvals)
    BY ConstantsAssumption, FS_Interval DEF Approvals
  <2> HIDE DEF lines
  <2> QED BY <1>1, <2>1, <2>2 DEF ApprovalsOf
<1>3. IsFiniteSet(A)
  BY <1>2, FS_Subset
<1>4. \A c \in Batches : Final(c) => \A l \in LinesFor(c, r) :
          l \in Lines /\ l.kind = "adjustment" /\ l.item = r
  <2> SUFFICES ASSUME NEW c \in Batches, Final(c), NEW l \in LinesFor(c, r)
               PROVE  l \in Lines /\ l.kind = "adjustment" /\ l.item = r
    OBVIOUS
  <2>1. l \in Lines
    BY TakenType
  <2>2. l.kind # "refund" /\ l.item = r /\ l.kind # "sale"
    BY DEF PaidDirectInv, LinesFor
  <2> QED BY <2>1, <2>2 DEF Lines
<1>5. A = {a \in Approvals : PaidWith(r)[a] = b}
  <2>1. ASSUME NEW a \in A PROVE PaidWith(r)[a] = b
    <3>1. PICK l \in lines : l.approval = a
      BY DEF ApprovalsOf
    <3> DEFINE c == CHOOSE d \in Batches : Final(d) /\ \E m \in LinesFor(d, r) : m.approval = a
    <3>2. c \in Batches /\ Final(c) /\ \E m \in LinesFor(c, r) : m.approval = a
      BY <3>1
    <3>3. PaidWith(r)[a] = c
      BY <1>2, <3>1 DEF PaidWith
    <3> HIDE DEF c
    <3>4. PICK m \in LinesFor(c, r) : m.approval = a
      BY <3>2
    <3>5. m = l
      BY <1>4, <3>1, <3>2, <3>4 DEF Lines
    <3>6. b = c
      BY <3>2, <3>4, <3>5 DEF LineOnce, Active, LinesFor
    <3> QED BY <3>3, <3>6
  <2>2. ASSUME NEW a \in Approvals, PaidWith(r)[a] = b PROVE a \in A
    <3>1. b # 0
      BY ConstantsAssumption DEF Batches
    <3>2. \E d \in Batches : Final(d) /\ \E m \in LinesFor(d, r) : m.approval = a
      BY <2>2, <3>1 DEF PaidWith
    <3>3. \E m \in LinesFor(b, r) : m.approval = a
      BY <2>2, <3>2 DEF PaidWith
    <3> QED BY <3>3 DEF ApprovalsOf
  <2> QED BY <1>2, <2>1, <2>2
<1>6. Net(lines) = Sum(Caps(lines), A)
  BY <1>1, NetByApproval
<1>7. ASSUME NEW a \in A PROVE Caps(lines)[a] = -Portion(r)[a] /\ Portion(r)[a] \in Nat
  <2>1. PICK l \in lines : l.approval = a
    BY DEF ApprovalsOf
  <2>2. a \in Approvals
    BY <1>2
  <2>3. {m \in lines : m.approval = a} = {l}
    BY <1>4, <2>1 DEF Lines
  <2> DEFINE f == [m \in {l} |-> Impact(m)]
  <2>4. l \in Lines /\ l.kind = "adjustment" /\ l.item = r
    BY <1>4
  <2>5. f[l] = -approval[a].applied[r] /\ approval[a].applied[r] \in Nat
    BY <2>1, <2>2, <2>4, BalanceTypes DEF Impact
  <2>6. Caps(lines)[a] = Sum(f, {l})
    BY <2>2, <2>3 DEF Caps, Capacity, Net
  <2> HIDE DEF f
  <2>7. Sum(f, {l}) = f[l]
    BY <2>5, SumOne
  <2> QED BY <2>2, <2>5, <2>6, <2>7 DEF Portion
<1>8. Sum(Caps(lines), A) + Sum(Portion(r), A) = 0 /\ Sum(Portion(r), A) \in Nat
  <2> DEFINE zero == [a \in A |-> 0]
  <2>1. \A a \in A : zero[a] = Caps(lines)[a] + Portion(r)[a] /\ zero[a] = 0
    BY <1>7
  <2>2. \A a \in A : Caps(lines)[a] \in Int /\ Portion(r)[a] \in Int
    BY <1>7
  <2> HIDE DEF zero, A, lines
  <2>3. Sum(zero, A) = Sum(Caps(lines), A) + Sum(Portion(r), A)
    BY <1>3, <2>1, <2>2, SumPlus
  <2>4. Sum(zero, A) = 0
    BY <1>3, <2>1, SumZero
  <2>5. Sum(Portion(r), A) \in Nat
    BY <1>3, <1>7, SumNat
  <2> QED BY <2>3, <2>4, <2>5
<1>9. Sum(Caps(lines), A) \in Int
  <2>1. \A a \in A : Caps(lines)[a] \in Int
    BY <1>7
  <2> QED BY <1>3, <2>1, SumType
<1>10. PortionsOf(r)[b] = Sum(Portion(r), A)
  BY <1>5 DEF PortionsOf
<1> QED BY <1>6, <1>8, <1>9, <1>10

\* The portions of a refund are amounts, of finitely many settlements.
LEMMA PortionType ==
    ASSUME TypeOK, NEW r \in Refunds
    PROVE  /\ IsFiniteSet(Approvals)
           /\ \A a \in Approvals : Portion(r)[a] \in Nat
           /\ ActivelyApplied(r) = Sum(Portion(r), Approvals)
           /\ ActivelyApplied(r) \in Nat
<1>1. IsFiniteSet(Approvals)
  BY ConstantsAssumption, FS_Interval DEF Approvals
<1>2. \A a \in Approvals : Portion(r)[a] \in Nat
  BY BalanceTypes DEF Portion
<1>3. ActivelyApplied(r) = Sum(Portion(r), Approvals)
  BY DEF ActivelyApplied, Portion
<1> QED BY <1>1, <1>2, <1>3, SumNat

\* What a final batch took of a refund with an adjustment: the claims it
\* consumed and the portions among its lines.
LEMMA TakenParts ==
    ASSUME TypeOK, ClaimsFollowBatch, LineOnce, PaidDirectInv, NoClaimInv,
           NEW r \in Refunds, adjustment[r].exists, NEW b \in Batches
    PROVE  /\ PortionsOf(r)[b] \in Nat
           /\ Taken(r)[b] = Share(r, "FINALIZED")[b] + PortionsOf(r)[b]
<1>1. IsFiniteSet(Approvals) /\ \A a \in Approvals : Portion(r)[a] \in Nat
  BY PortionType
<1> DEFINE paid == {a \in Approvals : PaidWith(r)[a] = b}
<1>2. PortionsOf(r)[b] = Sum(Portion(r), paid)
  BY DEF PortionsOf
<1>3. IsFiniteSet(paid) /\ \A a \in paid : Portion(r)[a] \in Nat
  BY <1>1, FS_Subset
<1>4. PortionsOf(r)[b] \in Nat
  <2> HIDE DEF paid
  <2> QED BY <1>2, <1>3, SumNat
<1>5. claim[b].status \in {"none", "RESERVED", "FINALIZED", "RELEASED"}
  BY DEF TypeOK, Claims
<1>6. CASE Final(b)
  <2>1. Net(LinesFor(b, r)) = -PortionsOf(r)[b]
    BY <1>6, TakenByLines
  <2>2. claim[b].status = "none" \/ claim[b].status = "FINALIZED"
    BY <1>5, <1>6 DEF ClaimsFollowBatch, Open, Final
  <2>3. claim[b].status = "none" => ClaimOf(claim[b].amount, r) = 0
    <3> DEFINE f == [a \in Approvals |-> claim[b].amount[a][r]]
    <3>1. claim[b].status = "none" => \A a \in Approvals : f[a] = 0
      BY DEF NoClaimInv, NoClaim, Nothing
    <3> HIDE DEF f
    <3>2. claim[b].status = "none" => Sum(f, Approvals) = 0
      BY <1>1, <3>1, SumZero
    <3> QED BY <3>2 DEF ClaimOf, f
  <2>4. Share(r, "FINALIZED")[b] = ClaimOf(claim[b].amount, r) /\ ClaimOf(claim[b].amount, r) \in Nat
    <3>1. claim[b].amount \in [Approvals -> [Refunds -> Nat]]
      BY DEF TypeOK, Claims
    <3> QED BY <2>2, <2>3, <3>1, ClaimOfType DEF Share
  <2>5. Taken(r)[b] = ClaimOf(claim[b].amount, r) - Net(LinesFor(b, r))
    BY <1>6 DEF Taken
  <2> QED BY <1>4, <2>1, <2>4, <2>5
<1>7. CASE ~Final(b)
  <2>1. \A a \in Approvals : PaidWith(r)[a] # b
    <3> SUFFICES ASSUME NEW a \in Approvals, PaidWith(r)[a] = b PROVE FALSE
      OBVIOUS
    <3>1. b # 0
      BY ConstantsAssumption DEF Batches
    <3>2. \E d \in Batches : Final(d) /\ \E m \in LinesFor(d, r) : m.approval = a
      BY <3>1 DEF PaidWith
    <3> QED BY <1>7, <3>2 DEF PaidWith
  <2>2. PortionsOf(r)[b] = 0
    BY <1>2, <2>1, SumEmpty
  <2>3. Share(r, "FINALIZED")[b] = 0
    BY <1>7 DEF Share, ClaimsFollowBatch
  <2> QED BY <1>7, <2>2, <2>3 DEF Taken
<1> QED BY <1>4, <1>6, <1>7

\* The portions paid are among the portions applied.
LEMMA PortionsPaid ==
    ASSUME TypeOK, NEW r \in Refunds, \A b \in Batches : PortionsOf(r)[b] \in Nat
    PROVE  Sum(PortionsOf(r), Batches) <= ActivelyApplied(r)
<1>1. /\ IsFiniteSet(Approvals) /\ IsFiniteSet(Batches) /\ 0 \notin Batches
      /\ \A a \in Approvals : Portion(r)[a] \in Nat
  <2>1. 0 \notin Batches
    BY ConstantsAssumption DEF Batches
  <2> QED BY <2>1, PortionType, TakenType
<1> DEFINE K == {0} \cup Batches
<1>2. IsFiniteSet(K) /\ K = Batches \cup {0}
  BY <1>1, FS_AddElement
<1>3. \A a \in Approvals : PaidWith(r)[a] \in K
  BY DEF PaidWith
<1>4. \A k \in K : PortionsOf(r)[k] = Sum(Portion(r), {a \in Approvals : PaidWith(r)[a] = k})
  BY DEF PortionsOf
<1>5. PortionsOf(r)[0] \in Nat
  <2> DEFINE unpaid == {a \in Approvals : PaidWith(r)[a] = 0}
  <2>1. IsFiniteSet(unpaid) /\ \A a \in unpaid : Portion(r)[a] \in Nat
    BY <1>1, FS_Subset
  <2>2. PortionsOf(r)[0] = Sum(Portion(r), unpaid)
    BY <1>4
  <2> HIDE DEF unpaid
  <2> QED BY <2>1, <2>2, SumNat
<1> HIDE DEF K
<1>6. Sum(PortionsOf(r), K) = Sum(Portion(r), Approvals)
  <2>1. \A a \in Approvals : Portion(r)[a] \in Int
    BY <1>1
  <2> QED BY <1>1, <1>2, <1>3, <1>4, <2>1, SumPartition
<1>7. Sum(PortionsOf(r), K) = PortionsOf(r)[0] + Sum(PortionsOf(r), Batches)
  <2>1. \A y \in Batches \cup {0} : PortionsOf(r)[y] \in Int
    BY <1>5
  <2> QED BY <1>1, <1>2, <2>1, SumAdd
<1>8. Sum(PortionsOf(r), Batches) \in Nat
  BY <1>1, SumNat
<1>9. ActivelyApplied(r) = Sum(Portion(r), Approvals)
  BY PortionType
<1>10. ActivelyApplied(r) = PortionsOf(r)[0] + Sum(PortionsOf(r), Batches)
  BY <1>6, <1>7, <1>9
<1> QED BY <1>5, <1>8, <1>10

\* A refund with an adjustment is taken off as far as it was applied.
LEMMA TakenAdjusted ==
    ASSUME TypeOK, ClaimsFollowBatch, Conserved, LineOnce, PaidDirectInv, NoClaimInv,
           NEW r \in Refunds, adjustment[r].exists
    PROVE  Deducted(r) <= RefundAmount[r]
<1>1. \A b \in Batches : /\ PortionsOf(r)[b] \in Nat
                         /\ Taken(r)[b] = Share(r, "FINALIZED")[b] + PortionsOf(r)[b]
  BY TakenParts
<1>2. /\ IsFiniteSet(Batches)
      /\ \A b \in Batches : Share(r, "FINALIZED")[b] \in Nat
      /\ Finalized(r) = Sum(Share(r, "FINALIZED"), Batches)
  BY ShareType DEF Finalized
<1>3. Sum(Taken(r), Batches) = Sum(Share(r, "FINALIZED"), Batches) + Sum(PortionsOf(r), Batches)
  <2>1. \A b \in Batches : /\ Share(r, "FINALIZED")[b] \in Int /\ PortionsOf(r)[b] \in Int
                           /\ Taken(r)[b] = Share(r, "FINALIZED")[b] + PortionsOf(r)[b]
    BY <1>1, <1>2
  <2> QED BY <1>2, <2>1, SumPlus
<1>4. Sum(PortionsOf(r), Batches) <= ActivelyApplied(r) /\ Sum(PortionsOf(r), Batches) \in Nat
  BY <1>1, <1>2, PortionsPaid, SumNat
<1>5. /\ adjustment[r].applied + adjustment[r].remaining = RefundAmount[r]
      /\ ActivelyApplied(r) + Finalized(r) = adjustment[r].applied
      /\ adjustment[r].applied \in Int /\ adjustment[r].remaining \in Nat
      /\ Finalized(r) \in Nat /\ RefundAmount[r] \in Nat
  BY BalanceTypes DEF Conserved
<1>6. ActivelyApplied(r) \in Nat
  BY PortionType
<1>7. Deducted(r) = Sum(Taken(r), Batches)
  BY TakenType
<1> QED BY <1>2, <1>3, <1>4, <1>5, <1>6, <1>7

-----------------------------------------------------------------------------
(* No refund is taken off twice *)

\* Nothing was taken off at first.
LEMMA OnceInvInit == Init => OnceInv
<1> SUFFICES ASSUME Init PROVE OnceInv
  OBVIOUS
<1>1. \A b \in Batches : ~Active(b) /\ ~Final(b) /\ claim[b] = NoClaim
  BY DEF Init, NoBatch, Active, Open, Final
<1>2. \A a \in Approvals : ~Live(a)
  BY DEF Init, Blank, Live
<1>3. \A r \in Refunds : ~adjustment[r].exists /\ arrival[r].phase = "none"
  BY DEF Init, NoAdjustment, NoArrival
<1> QED BY <1>1, <1>2, <1>3
        DEF OnceInv, LateInv, AdjustedInv, DirectInv, LineOnce, PaidDirectInv, NoClaimInv

\* OnceInv is inductive on steps that no backfill takes part in.
LEMMA OnceInvStep ==
    IInv /\ AmountInv /\ OnceInv /\ WithoutBackfill /\ [Next]_vars => OnceInv'
<1> SUFFICES ASSUME IInv, AmountInv, OnceInv, WithoutBackfill, [Next]_vars PROVE OnceInv'
  OBVIOUS
<1>1. TypeOK /\ LinesInv /\ RowsInv /\ ArrivedInv
  BY DEF IInv, Safe, AmountInv
<1> QED BY <1>1, LateInvStep, AdjustedInvStep, DirectInvStep, LineOnceStep, PaidDirectInvStep,
           NoClaimInvStep DEF OnceInv

\* What the final payouts took off for a refund is at most the refund, as long
\* as nobody backfills its adjustment: the backfill is the only way to take a
\* refund off twice.
THEOREM ConsumedOnce == Spec /\ []WithoutBackfill => []NotConsumedTwice
<1>1. IInv /\ AmountInv /\ OnceInv => NotConsumedTwice
  <2> SUFFICES ASSUME IInv, AmountInv, OnceInv, NEW r \in Refunds
               PROVE  Deducted(r) <= RefundAmount[r]
    BY DEF NotConsumedTwice
  <2>1. TypeOK /\ RowsInv /\ ClaimsFollowBatch /\ UnusedInv /\ Conserved
    BY DEF IInv, Safe, AmountInv
  <2> QED BY <2>1, TakenDirectly, TakenAdjusted DEF OnceInv
<1> QED BY <1>1, AmountsInductive, OnceInvInit, OnceInvStep, PTL DEF Spec

-----------------------------------------------------------------------------
(* Refunds left out of a payout *)

SaleLine(a, r) == [approval |-> a, kind |-> "sale", item |-> SaleOf[r]]
RefundLine(a, r) == [approval |-> a, kind |-> "refund", item |-> r]

\* The refunds of the settlements that stand neither wait on HOLD nor have an
\* adjustment beside their line.
DirectPayable ==
    \A a \in Approvals : Live(a) => \A r \in approval[a].refunds :
        refund[r].ledger \notin {"hold", "offset"} /\ ~adjustment[r].exists

\* A batch has a sale of an approved settlement and its refund, or neither.
PairInv ==
    \A b \in Batches : Active(b) => \A a \in Approvals : Approved(a) =>
        \A r \in approval[a].refunds :
            SaleLine(a, r) \in batch[b].lines <=> RefundLine(a, r) \in batch[b].lines

\* A refund that was settled without an adjustment was settled by its line.
SettledDirectly ==
    \A r \in Refunds : (refund[r].ledger \in {"paid", "cashless"} /\ ~adjustment[r].exists) =>
        \E b \in Batches, a \in Approvals : Final(b) /\ RefundLine(a, r) \in batch[b].lines

\* No refund arrives as settled.
ArrivalLedgers == \A r \in Refunds : arrival[r].ledger \notin {"paid", "cashless"}

TogetherInv == PairInv /\ SettledDirectly /\ ArrivalLedgers

\* An arriving refund is payable or held.
LEMMA ArrivalLedgersStep == ASSUME TypeOK, ArrivalLedgers, [Next]_vars PROVE ArrivalLedgers'
<1> SUFFICES ASSUME NEW r \in Refunds PROVE arrival'[r].ledger \notin {"paid", "cashless"}
  BY DEF ArrivalLedgers
<1>1. CASE arrival' = arrival
  BY <1>1 DEF ArrivalLedgers
<1>2. CASE BeforeArrival
  <2>1. arrival'[r] = arrival[r] \/ arrival'[r] = [arrival[r] EXCEPT !.phase = "overtaken"]
    BY <1>2 DEF BeforeArrival
  <2> QED BY <2>1 DEF ArrivalLedgers, TypeOK, Arrivals
<1>3. CASE RefundSteps
  <2>1. PICK q \in Refunds : \/ RefundRead(q)
                             \/ RefundWrite(q)
                             \/ BackfillRead(q)
                             \/ BackfillWrite(q)
                             \/ BackfillFails(q)
    BY <1>3 DEF RefundSteps
  <2>2. CASE RefundRead(q)
    <3>1. ArrivalLedger(q) \in {"hold", "offset", "pending"}
      BY DEF ArrivalLedger
    <3> QED BY <2>2, <3>1 DEF RefundRead, TypeOK, ArrivalLedgers
  <2>3. CASE RefundWrite(q)
    BY <2>3 DEF RefundWrite, TypeOK, ArrivalLedgers, NoArrival
  <2> QED BY <1>1, <2>1, <2>2, <2>3 DEF BackfillRead, BackfillWrite, BackfillFails
<1> QED BY <1>1, <1>2, <1>3, ArrivalKinds DEF Next, vars

\* A refund is settled when a batch is paid.
LEMMA LedgerPaid ==
    ASSUME TypeOK, ArrivalLedgers, [Next]_vars, NEW r \in Refunds,
           refund'[r].ledger \in {"paid", "cashless"}, refund[r].ledger \notin {"paid", "cashless"}
    PROVE  \E b \in Batches : Pays(b)
<1>1. ~RefundWrite(r) \/ refund'[r].ledger \notin {"paid", "cashless"}
  BY DEF RefundWrite, TypeOK, ArrivalLedgers
<1>2. CASE RefundSteps
  <2>1. PICK q \in Refunds : \/ RefundRead(q)
                             \/ RefundWrite(q)
                             \/ BackfillRead(q)
                             \/ BackfillWrite(q)
                             \/ BackfillFails(q)
    BY <1>2 DEF RefundSteps
  <2>2. refund'[r] = refund[r]
    BY <1>1, <2>1 DEF RefundRead, RefundWrite, BackfillRead, BackfillWrite, BackfillFails, TypeOK
  <2> QED BY <2>2
<1>3. CASE BatchSteps
  BY <1>3, NoPayFrame
<1> QED BY <1>2, <1>3, ApprovalFrame DEF Next, vars

\* A batch is made, or moves on.
LEMMA BatchMoves ==
    ASSUME TypeOK, BatchSteps
    PROVE  \E b \in Batches : PrepareOrdinary(b) \/ PrepareR1(b) \/ Moves(b)
<1>1. PICK b \in Batches : \/ PrepareOrdinary(b)
                           \/ PrepareR1(b)
                           \/ ReviewOrdinary(b)
                           \/ ReviewR1(b)
                           \/ CancelDraftBatch(b)
                           \/ CancelR1Review(b)
                           \/ Pays(b)
  BY DEF BatchSteps, Pays
<1>2. CASE ReviewOrdinary(b) \/ ReviewR1(b) \/ CancelDraftBatch(b) \/ CancelR1Review(b)
  BY <1>2 DEF ReviewOrdinary, ReviewR1, CancelDraftBatch, CancelR1Review, Release, Moves, Open
<1>3. CASE Pays(b)
  <2>1. \A l \in batch[b].lines : Approved(l.approval)
    <3>1. \E covered : TransitionOk(b, covered)
      BY <1>3 DEF Pays, PayOrdinary, PayR1, CompleteCashless
    <3> QED BY <3>1 DEF TransitionOk
  <2>2. Open(b) /\ \E status \in {"paid", "cashless"} : Settled(b, status)
    BY <1>3 DEF Pays, PayOrdinary, PayR1, CompleteCashless, Open
  <2> QED BY <2>1, <2>2 DEF Settled, Moves
<1> QED BY <1>1, <1>2, <1>3

\* A refund that is a line of a settlement is settled by that line.
LEMMA SettledByOwnLine ==
    ASSUME TypeOK, PaidStaysApproved, DirectInv, SettledDirectly, DirectPayable,
           NEW a \in Approvals, Approved(a), NEW r \in approval[a].refunds,
           refund[r].ledger \in {"paid", "cashless"}
    PROVE  \E b \in Batches : Active(b) /\ RefundLine(a, r) \in batch[b].lines
<1>1. r \in Refunds /\ ~adjustment[r].exists
  BY DEF TypeOK, ApprovalRows, DirectPayable, Live, Approved
<1>2. PICK b \in Batches, c \in Approvals : Final(b) /\ RefundLine(c, r) \in batch[b].lines
  BY <1>1 DEF SettledDirectly
<1>3. RefundLine(c, r).approval = c /\ RefundLine(c, r).kind = "refund" /\ RefundLine(c, r).item = r
  BY DEF RefundLine
<1>4. Approved(c) /\ Active(b)
  BY <1>2, <1>3 DEF PaidStaysApproved, Active
<1>5. r \in approval[c].refunds
  BY <1>2, <1>3, <1>4 DEF DirectInv
<1>6. a = c
  BY <1>4, <1>5 DEF DirectInv, Live, Approved
<1> QED BY <1>2, <1>4, <1>6

\* A sale of a settlement is settled by its line.
LEMMA SaleByOwnLine ==
    ASSUME TypeOK, LinesInv, SettledListed, NEW a \in Approvals, Approved(a),
           NEW s \in approval[a].sales, sale[s] # "pending"
    PROVE  \E b \in Batches :
               Active(b) /\ [approval |-> a, kind |-> "sale", item |-> s] \in batch[b].lines
<1>1. s \in Sales
  BY DEF TypeOK, ApprovalRows
<1>2. PICK b \in Batches : Final(b) /\ \E l \in batch[b].lines : l.kind = "sale" /\ l.item = s
  BY <1>1 DEF SettledListed
<1>3. PICK l \in batch[b].lines : l.kind = "sale" /\ l.item = s
  BY <1>2
<1>4. Active(b) /\ l.approval = a
  BY <1>2, <1>3 DEF LinesInv, Active
<1>5. l \in Lines
  BY DEF TypeOK, BatchRows
<1>6. l = [approval |-> a, kind |-> "sale", item |-> s]
  BY <1>3, <1>4, <1>5 DEF Lines
<1> QED BY <1>3, <1>4, <1>6

\* A new batch takes both or neither.
LEMMA SelectedTogether ==
    ASSUME TypeOK, LinesInv, PaidStaysApproved, SettledListed, RowsInv, ArrivedInv,
           DirectInv, PairInv, SettledDirectly, DirectPayable,
           NEW covered \in SUBSET Outstanding, Selectable(covered),
           NEW a \in Approvals, Approved(a), NEW r \in approval[a].refunds
    PROVE  SaleLine(a, r) \in Selected(covered) <=> RefundLine(a, r) \in Selected(covered)
<1>1. /\ r \in Refunds /\ r \in Arrived /\ SaleOf[r] \in Sales
      /\ SaleOf[r] \in approval[a].sales
      /\ ~adjustment[r].exists /\ refund[r].ledger \in {"pending", "paid", "cashless"}
  BY ConstantsAssumption DEF TypeOK, ApprovalRows, RefundRows, RefundStatus, RowsInv, ArrivedInv, Arrived,
     DirectPayable, Live, Approved
<1>2. r \in RefundsOf(SaleOf[r]) \ covered
  BY <1>1 DEF RefundsOf, RowsInv, Outstanding
<1>3. /\ SaleLine(a, r) \in LinesOf(a) /\ RefundLine(a, r) \in LinesOf(a)
      /\ SaleLine(a, r).kind = "sale" /\ SaleLine(a, r).item = SaleOf[r]
      /\ RefundLine(a, r).kind = "refund" /\ RefundLine(a, r).item = r
      /\ RefundLine(a, r).approval = a
  BY <1>1 DEF LinesOf, SaleLine, RefundLine
<1>4. InOtherBatch(SaleLine(a, r), NoBatchId) <=> InOtherBatch(RefundLine(a, r), NoBatchId)
  BY DEF InOtherBatch, PairInv
<1>5. ASSUME ~InOtherBatch(RefundLine(a, r), NoBatchId)
      PROVE  refund[r].ledger = "pending" /\ sale[SaleOf[r]] = "pending"
  <2>1. \A b \in Batches : b # NoBatchId
    BY ConstantsAssumption DEF Batches, NoBatchId
  <2>2. \A b \in Batches : ~(Active(b) /\ RefundLine(a, r) \in batch[b].lines)
    BY <1>5, <2>1 DEF InOtherBatch
  <2>3. refund[r].ledger = "pending"
    BY <1>1, <2>2, SettledByOwnLine
  <2>4. \A b \in Batches : ~(Active(b) /\ SaleLine(a, r) \in batch[b].lines)
    BY <1>4, <1>5, <2>1 DEF InOtherBatch
  <2>5. sale[SaleOf[r]] = "pending"
    BY <1>1, <2>4, SaleByOwnLine DEF SaleLine
  <2> QED BY <2>3, <2>5
<1>6. ASSUME SaleLine(a, r) \in Selected(covered) PROVE RefundLine(a, r) \in Selected(covered)
  <2>1. ~InOtherBatch(SaleLine(a, r), NoBatchId) /\ RowPayable(SaleLine(a, r), covered)
    BY <1>6 DEF Selected
  <2>2. ~Unsettled(r)
    BY <1>2, <1>3, <2>1 DEF RowPayable, SaleAtRisk
  <2>3. RowPayable(RefundLine(a, r), covered)
    BY <1>3, <1>4, <1>5, <2>1, <2>2 DEF RowPayable
  <2> QED BY <1>3, <1>4, <2>1, <2>3 DEF Selected
<1>7. ASSUME RefundLine(a, r) \in Selected(covered) PROVE SaleLine(a, r) \in Selected(covered)
  <2>1. ~InOtherBatch(RefundLine(a, r), NoBatchId)
    BY <1>7 DEF Selected
  <2>2. a \notin BlockedApprovals(covered)
    BY <1>3, <1>7 DEF Selectable, ApprovalsOf
  <2>3. ~SaleAtRisk(SaleOf[r], covered)
    BY <1>1, <2>2 DEF BlockedApprovals
  <2>4. RowPayable(SaleLine(a, r), covered)
    BY <1>3, <1>5, <2>1, <2>3 DEF RowPayable
  <2> QED BY <1>3, <1>4, <2>1, <2>4 DEF Selected
<1> QED BY <1>6, <1>7

\* A batch keeps the lines it was made with.
LEMMA PairInvStep ==
    ASSUME TypeOK, LinesInv, PaidStaysApproved, SettledListed, RowsInv, ArrivedInv,
           DirectInv, PairInv, SettledDirectly, DirectPayable, [Next]_vars
    PROVE  PairInv'
<1> SUFFICES ASSUME NEW b \in Batches, Active(b)', NEW a \in Approvals, Approved(a)',
                    NEW r \in approval'[a].refunds
             PROVE  SaleLine(a, r) \in batch'[b].lines <=> RefundLine(a, r) \in batch'[b].lines
  BY DEF PairInv, SaleLine, RefundLine
<1>1. CASE Active(b) /\ batch'[b].lines = batch[b].lines
  <2>1. CASE Approved(a) /\ approval'[a] = approval[a]
    BY <1>1, <2>1 DEF PairInv
  <2>2. CASE approval[a].status \notin {"approved", "cancelled"}
    <3>1. \A l \in batch[b].lines : l.approval # a
      BY <1>1, <2>2 DEF LinesInv
    <3>2. SaleLine(a, r).approval = a /\ RefundLine(a, r).approval = a
      BY DEF SaleLine, RefundLine
    <3> QED BY <1>1, <3>1, <3>2
  <2> QED BY <2>1, <2>2, ApprovedKept DEF Approved
<1>2. CASE batch' = batch
  BY <1>1, <1>2 DEF Active, Open, Final
<1>3. ASSUME NEW c \in Batches, NEW covered \in SUBSET Outstanding, NextBatch(c), Selectable(covered),
             Prepared(c, Selected(covered)), approval' = approval
      PROVE  SaleLine(a, r) \in batch'[b].lines <=> RefundLine(a, r) \in batch'[b].lines
  <2>1. CASE b = c
    <3>1. batch'[b].lines = Selected(covered)
      BY <1>3, <2>1 DEF Prepared, TypeOK
    <3>2. Approved(a) /\ r \in approval[a].refunds
      BY <1>3 DEF Approved
    <3> QED BY <1>3, <3>1, <3>2, SelectedTogether
  <2>2. CASE b # c
    BY <1>1, <1>3, <2>2 DEF Prepared, TypeOK, Active, Open, Final
  <2> QED BY <2>1, <2>2
<1>4. ASSUME NEW c \in Batches, Moves(c)
      PROVE  SaleLine(a, r) \in batch'[b].lines <=> RefundLine(a, r) \in batch'[b].lines
  <2>1. Active(b) /\ batch'[b].lines = batch[b].lines
    BY <1>4 DEF Moves, TypeOK, BatchRows, Active, Open, Final
  <2> QED BY <1>1, <2>1
<1>5. CASE BatchSteps
  <2>1. approval' = approval
    BY <1>5, BatchKinds
  <2>2. {} \in SUBSET Outstanding /\ OwnRefunds \in SUBSET Outstanding
    BY DEF OwnRefunds
  <2>3. \/ \E c \in Batches : PrepareOrdinary(c) \/ PrepareR1(c)
        \/ \E c \in Batches : Moves(c)
    BY <1>5, BatchMoves
  <2>4. ASSUME NEW c \in Batches, PrepareOrdinary(c)
        PROVE  SaleLine(a, r) \in batch'[b].lines <=> RefundLine(a, r) \in batch'[b].lines
    BY <1>3, <2>1, <2>2, <2>4 DEF PrepareOrdinary
  <2>5. ASSUME NEW c \in Batches, PrepareR1(c)
        PROVE  SaleLine(a, r) \in batch'[b].lines <=> RefundLine(a, r) \in batch'[b].lines
    BY <1>3, <2>1, <2>2, <2>5 DEF PrepareR1
  <2> QED BY <1>4, <2>3, <2>4, <2>5
<1> QED BY <1>2, <1>5, RefundFrame, ApprovalFrame DEF Next, vars

\* Refunds are settled by a batch that lists them, directly or as a portion.
LEMMA SettledDirectlyStep ==
    ASSUME TypeOK, LinesInv, RowsInv, ArrivalLedgers, SettledDirectly, [Next]_vars
    PROVE  SettledDirectly'
<1> SUFFICES ASSUME NEW r \in Refunds, refund'[r].ledger \in {"paid", "cashless"},
                    ~adjustment'[r].exists
             PROVE  \E b \in Batches, a \in Approvals :
                        Final(b)' /\ RefundLine(a, r) \in batch'[b].lines
  BY DEF SettledDirectly, RefundLine
<1>1. ~adjustment[r].exists
  BY AdjustmentsOpened
<1>2. CASE refund[r].ledger \in {"paid", "cashless"}
  <2>1. PICK b \in Batches, a \in Approvals : Final(b) /\ RefundLine(a, r) \in batch[b].lines
    BY <1>1, <1>2 DEF SettledDirectly
  <2>2. batch'[b] = batch[b]
    BY <2>1, FinalStays
  <2> QED BY <2>1, <2>2 DEF Final
<1>3. CASE refund[r].ledger \notin {"paid", "cashless"}
  <2>1. PICK b \in Batches : Pays(b)
    BY <1>3, LedgerPaid
  <2>2. PICK status \in {"paid", "cashless"} : Settled(b, status)
    BY <2>1, PaidLines
  <2>3. r \in {l.item : l \in batch[b].lines}
    BY <1>3, <2>2 DEF Settled, TypeOK
  <2>4. PICK l \in batch[b].lines : l.item = r
    BY <2>3
  <2>5. l \in Lines
    BY DEF TypeOK, BatchRows
  <2>6. l.kind \in {"refund", "adjustment"} /\ l.approval \in Approvals
    BY <2>4, <2>5, ConstantsAssumption DEF Lines
  <2>7. Active(b) /\ Approved(l.approval)
    BY <2>1, PaidLines DEF TransitionOk, Active, Open
  <2>8. l.kind = "refund"
    BY <1>1, <2>4, <2>6, <2>7 DEF LinesInv, RowsInv
  <2>9. l = RefundLine(l.approval, r)
    BY <2>4, <2>5, <2>8 DEF RefundLine, Lines
  <2>10. batch'[b].lines = batch[b].lines /\ Final(b)'
    BY <2>2 DEF Settled, TypeOK, BatchRows, Final
  <2> QED BY <2>4, <2>6, <2>9, <2>10
<1> QED BY <1>2, <1>3

\* There is nothing to keep together at first.
LEMMA TogetherInit == Init => DirectInv /\ TogetherInv
<1> SUFFICES ASSUME Init PROVE DirectInv /\ TogetherInv
  OBVIOUS
<1>1. \A b \in Batches : ~Active(b)
  BY DEF Init, NoBatch, Active, Open, Final
<1>2. \A a \in Approvals : ~Live(a)
  BY DEF Init, Blank, Live
<1>3. \A r \in Refunds : refund[r].ledger = "absent" /\ arrival[r].ledger = "absent"
  BY DEF Init, NoRefund, NoArrival
<1> QED BY <1>1, <1>2, <1>3 DEF DirectInv, TogetherInv, PairInv, SettledDirectly, ArrivalLedgers

\* They are kept together while every direct line stays payable.
LEMMA TogetherStep ==
    IInv /\ AmountInv /\ DirectInv /\ TogetherInv /\ DirectPayable /\ [Next]_vars
        => DirectInv' /\ TogetherInv'
<1> SUFFICES ASSUME IInv, AmountInv, DirectInv, TogetherInv, DirectPayable, [Next]_vars
             PROVE  DirectInv' /\ TogetherInv'
  OBVIOUS
<1>1. /\ TypeOK /\ LinesInv /\ PaidStaysApproved /\ SettledListed /\ RowsInv /\ ArrivedInv
      /\ PairInv /\ SettledDirectly /\ ArrivalLedgers
  BY DEF IInv, Safe, AmountInv, TogetherInv
<1>2. DirectInv'
  BY <1>1, DirectInvStep
<1>3. PairInv'
  BY <1>1, PairInvStep
<1>4. SettledDirectly'
  BY <1>1, SettledDirectlyStep
<1>5. ArrivalLedgers'
  BY <1>1, ArrivalLedgersStep
<1> QED BY <1>2, <1>3, <1>4, <1>5 DEF TogetherInv

\* A payout of a sale takes along the refunds approved with it, as long as no
\* settlement that stands has one that waits on HOLD or has an adjustment.
THEOREM LeftOutOnlySo == Spec /\ []DirectPayable => []RefundReducesPayout
<1>1. IInv /\ PairInv => RefundReducesPayout
  <2> SUFFICES ASSUME IInv, PairInv, NEW b \in Batches, Final(b),
                      NEW l \in batch[b].lines, l.kind = "sale",
                      NEW r \in approval[l.approval].refunds, SaleOf[r] = l.item
               PROVE  \E c \in Batches : /\ Active(c)
                                         /\ \E m \in batch[c].lines : m.kind = "refund" /\ m.item = r
    BY DEF RefundReducesPayout
  <2>1. l \in Lines /\ Approved(l.approval) /\ Active(b)
    BY DEF IInv, Safe, TypeOK, BatchRows, PaidStaysApproved, Active
  <2>2. l.approval \in Approvals /\ l = SaleLine(l.approval, r)
    BY <2>1 DEF Lines, SaleLine
  <2>3. RefundLine(l.approval, r) \in batch[b].lines
    BY <2>1, <2>2 DEF PairInv
  <2> QED BY <2>1, <2>3 DEF RefundLine
<1>2. TogetherInv => PairInv
  BY DEF TogetherInv
<1> QED BY <1>1, <1>2, AmountsInductive, TogetherInit, TogetherStep, PTL DEF Spec

=============================================================================
