------------------------- MODULE PayoutAmounts_proofs -------------------------
(***************************************************************************)
(* Proofs about the amounts of PayoutOffsets: what drafts apply, batches   *)
(* reserve, payouts consume and cancelled settlements give back adds up,   *)
(* for any sales and refunds, any amounts, and any number of settlements   *)
(* and batches.                                                            *)
(***************************************************************************)
EXTENDS PayoutOffsets_proofs, SumTheorems

-----------------------------------------------------------------------------
(* The inductive invariant *)

\* What has an adjustment, a row or a line has arrived; what is being ingested
\* has not.
ArrivedInv ==
    /\ \A r \in Refunds : adjustment[r].exists => r \in Arrived
    /\ \A r \in Refunds : backfill[r] # NoApproval => r \in Arrived
    /\ \A r \in Refunds : arrival[r].phase # "none" =>
           r \notin Arrived /\ arrival[r].ledger # "absent"
    /\ \A a \in Approvals : approval[a].refunds \subseteq Arrived
    /\ \A b \in Batches : \A l \in batch[b].lines : l.kind # "sale" => l.item \in Arrived

\* Neither a settlement not made yet nor an adjustment not opened yet has an
\* amount anywhere.
UnusedInv ==
    /\ \A a \in Approvals : approval[a].status = "none" => \A r \in Refunds : approval[a].applied[r] = 0
    /\ \A b \in Batches, a \in Approvals, r \in Refunds :
           claim[b].amount[a][r] > 0 => adjustment[r].exists

\* Refunds are ordered by their arrival, and the settlements that stand
\* approved by their approval.
OrderInv ==
    /\ Ordered([r \in Refunds |-> refund[r].before], Arrived)
    /\ \A r \in Refunds : refund[r].before \subseteq Arrived
    /\ Ordered([a \in Approvals |-> approval[a].before], {a \in Approvals : Approved(a)})
    /\ \A a \in Approvals : \A c \in approval[a].before : approval[c].status \in {"approved", "cancelled"}

\* As long as its settlements stand, the claims of a batch under way or final
\* fit in what it pays.
Backed ==
    \A b \in Batches :
        (/\ Active(b)
         /\ claim[b].status \in {"RESERVED", "FINALIZED"}
         /\ \A l \in batch[b].lines : Approved(l.approval)) =>
            Authority(batch[b].lines, claim[b].amount, FALSE)

AmountInv == ArrivedInv /\ UnusedInv /\ OrderInv /\ Backed /\ Conserved

-----------------------------------------------------------------------------
(* What has arrived *)

\* Only the write of an ingested refund makes it arrive.
LEMMA ArrivedGrows ==
    ASSUME TypeOK, ArrivedInv, [Next]_vars
    PROVE  \/ /\ Arrived' = Arrived
              /\ \A r \in Refunds : refund'[r].before = refund[r].before
           \/ \E r \in Refunds \ Arrived :
                  /\ RefundWrite(r)
                  /\ Arrived' = Arrived \cup {r}
                  /\ refund'[r].before = Arrived
                  /\ \A q \in Refunds \ {r} : refund'[q].before = refund[q].before
<1>1. CASE refund' = refund
  BY <1>1 DEF Arrived
<1>2. ASSUME NEW r \in Refunds, RefundWrite(r)
      PROVE  /\ r \notin Arrived
             /\ Arrived' = Arrived \cup {r}
             /\ refund'[r].before = Arrived
             /\ \A q \in Refunds \ {r} : refund'[q].before = refund[q].before
  <2>1. r \notin Arrived /\ arrival[r].ledger # "absent"
    BY <1>2 DEF RefundWrite, ArrivedInv
  <2>2. /\ refund'[r] = [ledger |-> arrival[r].ledger, before |-> Arrived]
        /\ \A q \in Refunds \ {r} : refund'[q] = refund[q]
    BY <1>2 DEF RefundWrite, TypeOK
  <2>3. Arrived' = Arrived \cup {r}
    BY <2>1, <2>2 DEF Arrived
  <2> QED BY <2>1, <2>2, <2>3
<1>3. ASSUME NEW b \in Batches, NEW status \in {"paid", "cashless"}, Settled(b, status)
      PROVE  Arrived' = Arrived /\ \A r \in Refunds : refund'[r].before = refund[r].before
  <2> DEFINE rows == {l.item : l \in batch[b].lines}
  <2>1. ASSUME NEW r \in Refunds, r \in rows PROVE r \in Arrived
    <3>1. PICK l \in batch[b].lines : l.item = r
      BY <2>1
    <3>2. l \in Lines
      BY DEF TypeOK, BatchRows
    <3>3. l.kind # "sale"
      BY <3>1, <3>2, ConstantsAssumption DEF Lines
    <3> QED BY <3>1, <3>3 DEF ArrivedInv
  <2>2. \A r \in Refunds : refund'[r] = IF r \in rows THEN [refund[r] EXCEPT !.ledger = status]
                                        ELSE refund[r]
    BY <1>3 DEF Settled
  <2> HIDE DEF rows
  <2>3. \A r \in Refunds : /\ refund'[r].before = refund[r].before
                           /\ r \in rows => refund'[r].ledger # "absent"
                           /\ r \notin rows => refund'[r] = refund[r]
    BY <2>2 DEF TypeOK, RefundRows
  <2> QED BY <2>1, <2>3 DEF Arrived
<1>4. CASE RefundSteps
  BY <1>1, <1>2, <1>4 DEF RefundSteps, RefundRead, BackfillRead, BackfillWrite, BackfillFails
<1>5. CASE BatchSteps
  <2>1. refund' = refund \/ \E b \in Batches, status \in {"paid", "cashless"} : Settled(b, status)
    BY <1>5 DEF BatchSteps, PrepareOrdinary, PrepareR1, ReviewOrdinary, ReviewR1, CancelDraftBatch,
       CancelR1Review, Release, PayOrdinary, PayR1, CompleteCashless
  <2> QED BY <1>1, <1>3, <2>1
<1> QED BY <1>1, <1>4, <1>5, ApprovalFrame DEF Next, vars

\* Adjustments are opened by the write of a refund and by the repair only, and
\* are never removed.
LEMMA AdjustmentsOpened ==
    ASSUME TypeOK, [Next]_vars, NEW r \in Refunds
    PROVE  /\ adjustment'[r].exists => adjustment[r].exists \/ RefundWrite(r) \/ BackfillWrite(r)
           /\ adjustment[r].exists => adjustment'[r].exists
<1>1. CASE RefundSteps
  <2>1. PICK q \in Refunds : \/ RefundRead(q)
                             \/ RefundWrite(q)
                             \/ BackfillRead(q)
                             \/ BackfillWrite(q)
                             \/ BackfillFails(q)
    BY <1>1 DEF RefundSteps
  <2>2. r # q => adjustment'[r] = adjustment[r]
    BY <2>1 DEF RefundRead, RefundWrite, BackfillRead, BackfillWrite, BackfillFails, TypeOK
  <2>3. adjustment'[q] = adjustment[q] \/ adjustment'[q].exists
    BY <2>1 DEF RefundRead, RefundWrite, BackfillRead, BackfillWrite, BackfillFails, Opened, TypeOK
  <2> QED BY <2>1, <2>2, <2>3 DEF RefundRead, BackfillRead, BackfillFails
<1>2. CASE ApprovalSteps
  <2>1. PICK a \in Approvals : \/ \E scope \in SUBSET Sales : Draft(a, scope)
                               \/ Approve(a)
                               \/ CancelSettlement(a)
    BY <1>2 DEF ApprovalSteps
  <2>2. CASE CancelSettlement(a)
    <3> DEFINE applied == adjustment[r].applied - approval[a].applied[r]
               rest == adjustment[r].remaining + approval[a].applied[r]
    <3>1. adjustment'[r] = [adjustment[r] EXCEPT !.applied = applied, !.remaining = rest]
      BY <2>2 DEF CancelSettlement
    <3>2. adjustment[r] \in Adjustments
      BY DEF TypeOK
    <3> HIDE DEF applied, rest
    <3> QED BY <3>1, <3>2 DEF Adjustments
  <2>3. ASSUME NEW scope, Draft(a, scope) PROVE adjustment'[r].exists = adjustment[r].exists
    BY <2>3, ConsumeTypes DEF Draft
  <2> QED BY <2>1, <2>2, <2>3 DEF Approve
<1>3. CASE BatchSteps
  <2>1. adjustment' = adjustment \/ \E b \in Batches : FinalizeClaims(b)
    BY <1>3 DEF BatchSteps, PrepareOrdinary, PrepareR1, ReviewOrdinary, ReviewR1,
       CancelDraftBatch, CancelR1Review, Release, PayOrdinary, PayR1, CompleteCashless
  <2> QED BY <2>1, FinalizeTypes
<1> QED BY <1>1, <1>2, <1>3 DEF Next, vars

\* A refund that is selected is one of its settlement, or has an adjustment.
LEMMA SelectedArrived ==
    ASSUME TypeOK, RowsInv, ArrivedInv, NEW covered, NEW l \in Selected(covered), l.kind # "sale"
    PROVE  l.item \in Arrived
<1>1. PICK a \in Approvals : l \in LinesOf(a)
  BY DEF Selected
<1>2. l.item \in Refunds /\ (l.item \in approval[a].refunds \/ approval[a].applied[l.item] > 0)
  BY <1>1 DEF LinesOf, TypeOK, ApprovalRows
<1> QED BY <1>2 DEF ArrivedInv, RowsInv

\* What is known of arrivals stays so.
LEMMA ArrivedInvStep ==
    ASSUME TypeOK, RowsInv, ArrivedInv, [Next]_vars PROVE ArrivedInv'
<1>1. Arrived \subseteq Arrived' /\ \A r \in Refunds : RefundWrite(r) => r \in Arrived'
  <2>1. ASSUME NEW r \in Refunds, RefundWrite(r) PROVE r \in Arrived'
    <3>1. refund'[r].ledger = arrival[r].ledger /\ arrival[r].ledger # "absent"
      BY <2>1 DEF RefundWrite, TypeOK, ArrivedInv
    <3> QED BY <3>1 DEF Arrived
  <2> QED BY <2>1, ArrivedGrows
<1>2. ASSUME NEW r \in Refunds, adjustment'[r].exists PROVE r \in Arrived'
  BY <1>1, <1>2, AdjustmentsOpened DEF ArrivedInv, BackfillWrite
<1>3. ASSUME NEW r \in Refunds, backfill'[r] # NoApproval PROVE r \in Arrived'
  <2>1. CASE backfill' = backfill
    BY <1>1, <1>3, <2>1 DEF ArrivedInv
  <2>2. ASSUME NEW q \in Refunds, BackfillRead(q) \/ BackfillWrite(q) \/ BackfillFails(q)
        PROVE  r \in Arrived'
    BY <1>1, <1>3, <2>2 DEF ArrivedInv, BackfillRead, BackfillWrite, BackfillFails, TypeOK
  <2>3. CASE RefundSteps
    BY <2>1, <2>2, <2>3 DEF RefundSteps, RefundRead, RefundWrite
  <2>4. CASE ApprovalSteps \/ BatchSteps \/ UNCHANGED vars
    <3>1. backfill' = backfill
      BY <2>4 DEF ApprovalSteps, Draft, Approve, CancelSettlement, BatchSteps, PrepareOrdinary,
         PrepareR1, ReviewOrdinary, ReviewR1, CancelDraftBatch, CancelR1Review, Release, PayOrdinary,
         PayR1, CompleteCashless, FinalizeClaims, vars
    <3> QED BY <2>1, <3>1
  <2> QED BY <2>3, <2>4 DEF Next
<1>4. ASSUME NEW r \in Refunds, arrival'[r].phase # "none"
      PROVE  r \notin Arrived' /\ arrival'[r].ledger # "absent"
  <2>1. ASSUME NEW q \in Refunds, RefundWrite(q)
        PROVE  r \notin Arrived' /\ arrival'[r].ledger # "absent"
    <3>1. arrival' = [arrival EXCEPT ![q] = NoArrival]
      BY <2>1 DEF RefundWrite
    <3>2. r # q /\ arrival'[r] = arrival[r]
      BY <1>4, <3>1 DEF TypeOK, NoArrival
    <3>3. r \notin Arrived /\ arrival[r].ledger # "absent"
      BY <1>4, <3>2 DEF ArrivedInv
    <3>4. refund'[r] = refund[r]
      BY <2>1, <3>2 DEF RefundWrite, TypeOK
    <3> QED BY <3>2, <3>3, <3>4 DEF Arrived
  <2> SUFFICES ASSUME \A q \in Refunds : ~RefundWrite(q)
      PROVE  r \notin Arrived /\ arrival'[r].ledger # "absent"
    BY <2>1, ArrivedGrows
  <2>2. ASSUME NEW q \in Refunds, RefundRead(q) PROVE r \notin Arrived /\ arrival'[r].ledger # "absent"
    <3>1. PICK c : arrival' = [arrival EXCEPT ![q] =
                       [phase |-> "reading", ledger |-> ArrivalLedger(q), origin |-> c]]
      BY <2>2 DEF RefundRead
    <3>2. ArrivalLedger(q) # "absent"
      BY DEF ArrivalLedger
    <3>3. CASE r = q
      BY <2>2, <3>1, <3>2, <3>3 DEF RefundRead, TypeOK
    <3>4. CASE r # q
      BY <1>4, <3>1, <3>4 DEF ArrivedInv, TypeOK
    <3> QED BY <3>3, <3>4
  <2>3. CASE arrival' = arrival
    BY <1>4, <2>3 DEF ArrivedInv
  <2>4. CASE BeforeArrival
    <3>1. arrival[r].phase = "reading" /\ arrival'[r] = [arrival[r] EXCEPT !.phase = "overtaken"]
      BY <1>4, <2>4, BeforeArrivalTypes DEF BeforeArrival
    <3>2. arrival'[r].ledger = arrival[r].ledger
      BY <3>1 DEF TypeOK, Arrivals
    <3> QED BY <3>1, <3>2 DEF ArrivedInv
  <2>5. CASE RefundSteps
    BY <2>2, <2>3, <2>5 DEF RefundSteps, BackfillRead, BackfillWrite, BackfillFails
  <2>6. CASE UNCHANGED vars
    BY <2>3, <2>6 DEF vars
  <2> QED BY <2>3, <2>4, <2>5, <2>6, ArrivalKinds DEF Next
<1>5. ASSUME NEW a \in Approvals PROVE approval'[a].refunds \subseteq Arrived'
  <2>1. CASE approval'[a].refunds = approval[a].refunds
    BY <1>1, <2>1 DEF ArrivedInv
  <2>2. ASSUME ApprovalSteps, approval'[a] # approval[a] PROVE approval'[a].refunds \subseteq Arrived'
    <3>1. \/ \E scope \in SUBSET Sales : Draft(a, scope)
          \/ Approve(a)
          \/ CancelSettlement(a)
      BY <2>2 DEF ApprovalSteps, Draft, Approve, CancelSettlement, TypeOK
    <3>2. ASSUME NEW scope, Draft(a, scope) PROVE approval'[a].refunds \subseteq Arrived
      BY <3>2 DEF Draft, DraftRefunds, TypeOK
    <3>3. CASE Approve(a)
      BY <2>1, <3>3 DEF Approve, TypeOK
    <3>4. CASE CancelSettlement(a)
      BY <3>4 DEF CancelSettlement, Blank, TypeOK
    <3> QED BY <1>1, <3>1, <3>2, <3>3, <3>4
  <2> QED BY <2>1, <2>2, RefundFrame, BatchKinds DEF Next, vars
<1>6. ASSUME NEW b \in Batches, NEW l \in batch'[b].lines, l.kind # "sale" PROVE l.item \in Arrived'
  <2>1. CASE l \in batch[b].lines
    BY <1>1, <1>6, <2>1 DEF ArrivedInv
  <2>2. ASSUME NEW c \in Batches, Moves(c) PROVE l \in batch[b].lines
    BY <1>6, <2>2 DEF Moves, TypeOK
  <2>3. ASSUME NEW c \in Batches, Lists(c), l \notin batch[b].lines PROVE l.item \in Arrived'
    <3>1. PICK covered : l \in Selected(covered)
      BY <1>6, <2>3 DEF Lists, Prepared, TypeOK
    <3> QED BY <1>1, <1>6, <3>1, SelectedArrived
  <2> QED BY <1>6, <2>1, <2>2, <2>3, RefundFrame, ApprovalFrame, BatchKinds DEF Next, vars
<1> QED BY <1>2, <1>3, <1>4, <1>5, <1>6 DEF ArrivedInv

-----------------------------------------------------------------------------
(* What an allocation reserves *)

\* What the settlements of a batch can pay, and what is left to reserve.
Caps(lines) == [a \in Approvals |-> Capacity(a, lines)]
Free == [r \in Refunds |-> AtLeastZero(Unreserved(r))]

\* There are finitely many lines.
LEMMA LinesFinite == IsFiniteSet(Lines)
<1>1. IsFiniteSet(Approvals)
  BY ConstantsAssumption, FS_Interval DEF Approvals
<1>2. ASSUME NEW K, NEW S, IsFiniteSet(K), IsFiniteSet(S)
      PROVE  IsFiniteSet([approval : Approvals, kind : K, item : S])
  <2> DEFINE D == (Approvals \X K) \X S
             R == [approval : Approvals, kind : K, item : S]
             f == [t \in D |-> [approval |-> t[1][1], kind |-> t[1][2], item |-> t[2]]]
  <2>1. IsFiniteSet(Approvals \X K)
    BY <1>1, <1>2, FS_Product
  <2>2. IsFiniteSet(D)
    BY <1>2, <2>1, FS_Product
  <2>3. f \in [D -> R]
    OBVIOUS
  <2>4. ASSUME NEW l \in R PROVE \E t \in D : f[t] = l
    <3>1. <<<<l.approval, l.kind>>, l.item>> \in D
      OBVIOUS
    <3>2. f[<<<<l.approval, l.kind>>, l.item>>] = l
      BY <3>1
    <3> QED BY <3>1, <3>2
  <2> HIDE DEF D, R, f
  <2>5. f \in Surjection(D, R)
    BY <2>3, <2>4 DEF Surjection
  <2>6. IsFiniteSet(R)
    BY <2>2, <2>5, FS_Surjection
  <2> QED BY <2>6 DEF R
<1>3. IsFiniteSet({"sale"}) /\ IsFiniteSet({"refund", "adjustment"})
  <2>1. IsFiniteSet({"sale"}) /\ IsFiniteSet({"refund"})
    BY FS_Singleton
  <2>2. {"refund", "adjustment"} = {"refund"} \cup {"adjustment"}
    OBVIOUS
  <2> QED BY <2>1, <2>2, FS_AddElement
<1>4. IsFiniteSet(Sales) /\ IsFiniteSet(Refunds)
  BY ConstantsAssumption
<1> QED BY <1>2, <1>3, <1>4, FS_Union DEF Lines

\* What a line adds is an integer.
LEMMA ImpactType == ASSUME TypeOK, NEW l \in Lines PROVE Impact(l) \in Int
<1>1. /\ l.approval \in Approvals
      /\ \/ l.kind = "sale" /\ l.item \in Sales
         \/ l.kind \in {"refund", "adjustment"} /\ l.item \in Refunds
  BY DEF Lines
<1>2. l.item \in Sales => SaleAmount[l.item] \in Int
  BY ConstantsAssumption
<1>3. l.item \in Refunds => /\ -RefundAmount[l.item] \in Int
                            /\ -approval[l.approval].applied[l.item] \in Int
  BY <1>1, ConstantsAssumption DEF TypeOK, ApprovalRows
<1> QED BY <1>1, <1>2, <1>3 DEF Impact

\* So is the net of several.
LEMMA NetType == ASSUME TypeOK, NEW lines \in SUBSET Lines PROVE Net(lines) \in Int
<1> DEFINE f == [l \in lines |-> Impact(l)]
<1>1. IsFiniteSet(lines)
  BY LinesFinite, FS_Subset
<1>2. \A l \in lines : f[l] \in Int
  BY ImpactType
<1> HIDE DEF f
<1>3. Sum(f, lines) \in Int
  BY <1>1, <1>2, SumType
<1> QED BY <1>3 DEF Net, f

\* What a refund has in front of it.
LEMMA FreeType ==
    ASSUME TypeOK, OrderInv
    PROVE  \A r \in Refunds : Free[r] \in Nat /\ Sum(Free, refund[r].before) \in Nat
<1>1. \A r \in Refunds : Free[r] \in Nat
  BY DEF Free, AtLeastZero
<1>2. ASSUME NEW r \in Refunds PROVE Sum(Free, refund[r].before) \in Nat
  <2>1. refund[r].before \in SUBSET Refunds
    BY DEF TypeOK, RefundRows
  <2>2. IsFiniteSet(refund[r].before)
    BY <2>1, ConstantsAssumption, FS_Subset
  <2> QED BY <1>1, <2>1, <2>2, SumNat
<1> QED BY <1>1, <1>2

\* The approvals of a batch are finitely many, and in an order.
LEMMA BatchApprovals ==
    ASSUME TypeOK, OrderInv, NEW lines \in SUBSET Lines, \A a \in ApprovalsOf(lines) : Approved(a)
    PROVE  /\ ApprovalsOf(lines) \in SUBSET Approvals
           /\ IsFiniteSet(Approvals) /\ IsFiniteSet(ApprovalsOf(lines))
           /\ Ordered([a \in Approvals |-> approval[a].before], ApprovalsOf(lines))
<1>1. ApprovalsOf(lines) \in SUBSET Approvals
  BY DEF ApprovalsOf, Lines
<1>2. IsFiniteSet(Approvals)
  BY ConstantsAssumption, FS_Interval DEF Approvals
<1>3. IsFiniteSet(ApprovalsOf(lines))
  BY <1>1, <1>2, FS_Subset
<1>4. ApprovalsOf(lines) \subseteq {a \in Approvals : Approved(a)}
  BY <1>1
<1> HIDE DEF Approvals
<1>5. Ordered([a \in Approvals |-> approval[a].before], ApprovalsOf(lines))
  BY <1>4 DEF OrderInv, Ordered
<1> QED BY <1>1, <1>2, <1>3, <1>5

\* What settlements can pay is an integer.
LEMMA CapsType ==
    ASSUME TypeOK, NEW lines \in SUBSET Lines
    PROVE  \A a \in Approvals : Caps(lines)[a] = Capacity(a, lines) /\ Caps(lines)[a] \in Int
<1> TAKE a \in Approvals
<1>1. {l \in lines : l.approval = a} \in SUBSET Lines
  OBVIOUS
<1> QED BY <1>1, NetType DEF Capacity, Caps

\* The part of one approval in the claims on one refund.
LEMMA AllocationPart ==
    ASSUME TypeOK, OrderInv, NEW lines \in SUBSET Lines,
           \A a \in ApprovalsOf(lines) : Approved(a) /\ Capacity(a, lines) >= 0,
           NEW a \in ApprovalsOf(lines), NEW r \in Refunds
    PROVE  LET p == Start(Caps(lines), [c \in Approvals |-> approval[c].before], ApprovalsOf(lines), a)
               q == Sum(Free, refund[r].before)
           IN  /\ p \in Nat /\ Caps(lines)[a] \in Nat
               /\ Allocation(lines)[a][r] = Clamp(p + Caps(lines)[a] - q, Free[r]) - Clamp(p - q, Free[r])
<1> DEFINE S == ApprovalsOf(lines)
           before == [c \in Approvals |-> approval[c].before]
           cap == Caps(lines)
           p == Start(cap, before, S, a)
           q == Sum(Free, refund[r].before)
<1>1. S \in SUBSET Approvals /\ IsFiniteSet(S) /\ a \in Approvals
  BY BatchApprovals
<1>2. \A c \in S : cap[c] \in Nat
  BY <1>1, CapsType
<1>3. p \in Nat
  <2> DEFINE T == {c \in S : c \in before[a]}
  <2>1. T \subseteq S
    OBVIOUS
  <2>2. IsFiniteSet(T) /\ \A c \in T : cap[c] \in Nat
    BY <1>1, <1>2, <2>1, FS_Subset
  <2> HIDE DEF T, cap
  <2>3. Sum(cap, T) \in Nat
    BY <2>2, SumNat
  <2> QED BY <2>3 DEF Start, T
<1>4. Free[r] \in Nat /\ q \in Nat
  BY FreeType
<1>5. Sum(cap, {c \in S : c \in approval[a].before}) = p
  <2>1. {c \in S : c \in approval[a].before} = {c \in S : c \in before[a]}
    BY <1>1
  <2> HIDE DEF cap, before
  <2> QED BY <2>1 DEF Start
<1>6. Allocation(lines)[a][r] =
          AtLeastZero((IF p + cap[a] < q + Free[r] THEN p + cap[a] ELSE q + Free[r])
                          - (IF p > q THEN p ELSE q))
  BY <1>1, <1>5 DEF Allocation, Caps, Free
<1> HIDE DEF p, q, cap
<1>7. Allocation(lines)[a][r] = Clamp(p + cap[a] - q, Free[r]) - Clamp(p - q, Free[r])
  <2> DEFINE c == cap[a]
             f == Free[r]
  <2>1. c \in Nat /\ f \in Nat
    BY <1>2, <1>4
  <2>2. Allocation(lines)[a][r] =
            AtLeastZero((IF p + c < q + f THEN p + c ELSE q + f) - (IF p > q THEN p ELSE q))
    BY <1>6
  <2> HIDE DEF c, f
  <2>3. AtLeastZero((IF p + c < q + f THEN p + c ELSE q + f) - (IF p > q THEN p ELSE q))
            = Clamp(p + c - q, f) - Clamp(p - q, f)
    BY <1>3, <1>4, <2>1 DEF AtLeastZero, Clamp
  <2> QED BY <2>2, <2>3 DEF c, f
<1> QED BY <1>2, <1>3, <1>7 DEF p, q, cap

\* The claims on a refund together.
LEMMA AllocationOfRefund ==
    ASSUME TypeOK, OrderInv, NEW lines \in SUBSET Lines,
           \A a \in ApprovalsOf(lines) : Approved(a) /\ Capacity(a, lines) >= 0,
           NEW r \in Refunds
    PROVE  ClaimOf(Allocation(lines), r)
               = Clamp(Sum(Caps(lines), ApprovalsOf(lines)) - Sum(Free, refund[r].before), Free[r])
<1> DEFINE S == ApprovalsOf(lines)
           before == [c \in Approvals |-> approval[c].before]
           cap == Caps(lines)
           q == Sum(Free, refund[r].before)
           part == [a \in Approvals |-> Allocation(lines)[a][r]]
<1>1. /\ S \in SUBSET Approvals
      /\ IsFiniteSet(Approvals) /\ IsFiniteSet(S)
      /\ Ordered(before, S)
  BY BatchApprovals
<1>2. \A a \in S : /\ cap[a] \in Nat
                   /\ part[a] = Clamp(Start(cap, before, S, a) + cap[a] - q, Free[r])
                                    - Clamp(Start(cap, before, S, a) - q, Free[r])
  BY <1>1, AllocationPart
<1>3. Free[r] \in Nat /\ q \in Nat
  BY FreeType
<1>4. Allocation(lines) \in [Approvals -> [Refunds -> Nat]]
  BY AllocationTypes
<1>5. \A a \in Approvals : part[a] \in Nat /\ (a \notin S => part[a] = 0)
  BY <1>4 DEF Allocation
<1> HIDE DEF cap, before, q, part
<1>6. Sum(part, S) = Clamp(Sum(cap, S) - q, Free[r])
  BY <1>1, <1>2, <1>3, EndToEnd
<1>7. Sum(part, Approvals) = Sum(part, S)
  BY <1>1, <1>5, SumRestrict
<1> QED BY <1>6, <1>7 DEF ClaimOf, cap, q, part

\* A claim and the claims together are natural numbers.
LEMMA ClaimOfType ==
    ASSUME NEW amount \in [Approvals -> [Refunds -> Nat]], NEW r \in Refunds
    PROVE  /\ ClaimOf(amount, r) \in Nat
           /\ \A a \in Approvals : amount[a][r] <= ClaimOf(amount, r)
<1> DEFINE f == [a \in Approvals |-> amount[a][r]]
<1>1. IsFiniteSet(Approvals)
  BY ConstantsAssumption, FS_Interval DEF Approvals
<1>2. \A a \in Approvals : f[a] \in Nat /\ f[a] = amount[a][r]
  OBVIOUS
<1> HIDE DEF f
<1>3. Sum(f, Approvals) \in Nat /\ \A a \in Approvals : f[a] <= Sum(f, Approvals)
  BY <1>1, <1>2, SumNat
<1> QED BY <1>2, <1>3 DEF ClaimOf, f

\* What the batches claim of a refund, by the state of their claims.
Share(r, status) ==
    [b \in Batches |-> IF claim[b].status = status THEN ClaimOf(claim[b].amount, r) ELSE 0]

\* The claims on a refund are a sum of natural numbers.
LEMMA ShareType ==
    ASSUME TypeOK, NEW r \in Refunds, NEW status
    PROVE  /\ IsFiniteSet(Batches)
           /\ \A b \in Batches : Share(r, status)[b] \in Nat
           /\ ClaimedOf(r, status) = Sum(Share(r, status), Batches)
           /\ ClaimedOf(r, status) \in Nat
<1>1. IsFiniteSet(Batches)
  BY ConstantsAssumption, FS_Interval DEF Batches
<1>2. \A b \in Batches : claim[b].amount \in [Approvals -> [Refunds -> Nat]]
  BY DEF TypeOK, Claims
<1>3. \A b \in Batches : ClaimOf(claim[b].amount, r) \in Nat
  BY <1>2, ClaimOfType
<1>4. \A b \in Batches : Share(r, status)[b] \in Nat
  BY <1>3 DEF Share
<1>5. ClaimedOf(r, status) = Sum(Share(r, status), Batches)
  BY DEF ClaimedOf, Share
<1> QED BY <1>1, <1>4, <1>5, SumNat

\* A batch whose claims change, and the claims together.
LEMMA ClaimMoves ==
    ASSUME TypeOK, TypeOK', NEW r \in Refunds, NEW status, NEW b \in Batches,
           \A c \in Batches \ {b} : claim'[c] = claim[c]
    PROVE  ClaimedOf(r, status)' =
               ClaimedOf(r, status)
                   + (IF claim'[b].status = status THEN ClaimOf(claim'[b].amount, r) ELSE 0)
                   - (IF claim[b].status = status THEN ClaimOf(claim[b].amount, r) ELSE 0)
<1> DEFINE f == Share(r, status)
           g == [c \in Batches |->
                     IF claim'[c].status = status THEN ClaimOf(claim'[c].amount, r) ELSE 0]
<1>1. /\ IsFiniteSet(Batches)
      /\ \A c \in Batches : f[c] \in Nat
      /\ ClaimedOf(r, status) = Sum(f, Batches)
      /\ ClaimedOf(r, status) \in Nat
  BY ShareType
<1>2. \A c \in Batches : claim'[c].amount \in [Approvals -> [Refunds -> Nat]]
  BY DEF TypeOK, Claims
<1>3. \A c \in Batches : ClaimOf(claim'[c].amount, r) \in Nat
  BY <1>2, ClaimOfType
<1>4. \A c \in Batches : g[c] \in Nat
  BY <1>3
<1>5. \A c \in Batches \ {b} : g[c] = f[c]
  BY DEF Share
<1>6. /\ f[b] = IF claim[b].status = status THEN ClaimOf(claim[b].amount, r) ELSE 0
      /\ g[b] = IF claim'[b].status = status THEN ClaimOf(claim'[b].amount, r) ELSE 0
  BY DEF Share
<1>7. ClaimedOf(r, status)' = Sum(g, Batches)
  BY DEF ClaimedOf
<1> HIDE DEF f, g
<1>8. Sum(g, Batches) = Sum(f, Batches) + g[b] - f[b]
  BY <1>1, <1>4, <1>5, SumUpdate
<1> QED BY <1>1, <1>6, <1>7, <1>8

\* A settlement whose portions change, and the portions together.
LEMMA PortionMoves ==
    ASSUME TypeOK, TypeOK', NEW r \in Refunds, NEW a \in Approvals,
           \A c \in Approvals \ {a} : approval'[c].applied = approval[c].applied
    PROVE  /\ ActivelyApplied(r) \in Nat
           /\ ActivelyApplied(r)' =
                  ActivelyApplied(r) + approval'[a].applied[r] - approval[a].applied[r]
<1> DEFINE f == [c \in Approvals |-> approval[c].applied[r]]
           g == [c \in Approvals |-> approval'[c].applied[r]]
<1>1. IsFiniteSet(Approvals)
  BY ConstantsAssumption, FS_Interval DEF Approvals
<1>2. \A c \in Approvals : f[c] \in Nat /\ g[c] \in Nat
  BY DEF TypeOK, ApprovalRows
<1>3. \A c \in Approvals \ {a} : g[c] = f[c]
  OBVIOUS
<1>4. f[a] = approval[a].applied[r] /\ g[a] = approval'[a].applied[r]
  OBVIOUS
<1>5. ActivelyApplied(r)' = Sum(g, Approvals) /\ ActivelyApplied(r) = Sum(f, Approvals)
  BY DEF ActivelyApplied
<1> HIDE DEF f, g
<1>6. Sum(f, Approvals) \in Nat
  BY <1>1, <1>2, SumNat
<1>7. Sum(g, Approvals) = Sum(f, Approvals) + g[a] - f[a]
  BY <1>1, <1>2, <1>3, SumUpdate
<1> QED BY <1>4, <1>5, <1>6, <1>7

\* Nothing is claimed of a refund without an adjustment.
LEMMA ClaimsNeedAdjustment ==
    ASSUME TypeOK, UnusedInv, NEW r \in Refunds, ~adjustment[r].exists
    PROVE  \A b \in Batches : ClaimOf(claim[b].amount, r) = 0
<1> TAKE b \in Batches
<1> DEFINE f == [a \in Approvals |-> claim[b].amount[a][r]]
<1>1. IsFiniteSet(Approvals)
  BY ConstantsAssumption, FS_Interval DEF Approvals
<1>2. \A a \in Approvals : f[a] = 0
  BY DEF UnusedInv, TypeOK, Claims
<1> HIDE DEF f
<1>3. Sum(f, Approvals) = 0
  BY <1>1, <1>2, SumZero
<1> QED BY <1>3 DEF ClaimOf, f

\* A refund without an adjustment is in no sum.
LEMMA NothingWithoutAdjustment ==
    ASSUME TypeOK, RowsInv, UnusedInv, NEW r \in Refunds, ~adjustment[r].exists
    PROVE  ActivelyApplied(r) = 0 /\ Finalized(r) = 0 /\ Reserved(r) = 0
<1>1. IsFiniteSet(Approvals)
  BY ConstantsAssumption, FS_Interval DEF Approvals
<1>2. ActivelyApplied(r) = 0
  <2> DEFINE f == [a \in Approvals |-> approval[a].applied[r]]
  <2>1. \A a \in Approvals : f[a] = 0
    BY DEF RowsInv, TypeOK, ApprovalRows
  <2> HIDE DEF f
  <2>2. Sum(f, Approvals) = 0
    BY <1>1, <2>1, SumZero
  <2> QED BY <2>2 DEF ActivelyApplied, f
<1>3. \A b \in Batches : ClaimOf(claim[b].amount, r) = 0
  BY ClaimsNeedAdjustment
<1>4. ASSUME NEW status PROVE ClaimedOf(r, status) = 0
  <2>1. \A b \in Batches : Share(r, status)[b] = 0
    BY <1>3 DEF Share
  <2> QED BY <2>1, ShareType, SumZero
<1> QED BY <1>2, <1>4 DEF Finalized, Reserved

\* A new reservation takes at most what is left of a refund.
LEMMA ReservationFits ==
    ASSUME TypeOK, OrderInv, NEW b \in Batches, PrepareR1(b), NEW r \in Refunds
    PROVE  LET amount == Allocation(Selected(OwnRefunds))
           IN  /\ claim' = [claim EXCEPT ![b] = [status |-> "RESERVED", amount |-> amount]]
               /\ ClaimOf(amount, r) <= Free[r]
<1> DEFINE lines == Selected(OwnRefunds)
<1>1. lines \in SUBSET Lines
  BY SelectedTypes
<1>2. \A a \in ApprovalsOf(lines) : Approved(a) /\ Capacity(a, lines) >= 0
  BY DEF PrepareR1, Authority
<1>3. claim' = [claim EXCEPT ![b] = [status |-> "RESERVED", amount |-> Allocation(lines)]]
  BY DEF PrepareR1
<1>4. /\ IsFiniteSet(ApprovalsOf(lines))
      /\ Free[r] \in Nat /\ Sum(Free, refund[r].before) \in Nat
  BY <1>1, <1>2, BatchApprovals, FreeType
<1> HIDE DEF lines
<1>5. ClaimOf(Allocation(lines), r)
          = Clamp(Sum(Caps(lines), ApprovalsOf(lines)) - Sum(Free, refund[r].before), Free[r])
  BY <1>1, <1>2, AllocationOfRefund
<1>6. Sum(Caps(lines), ApprovalsOf(lines)) \in Int
  <2>1. \A a \in ApprovalsOf(lines) : Caps(lines)[a] \in Int
    BY <1>1, <1>2, BatchApprovals, CapsType
  <2> QED BY <1>4, <2>1, SumType
<1>7. ClaimOf(Allocation(lines), r) <= Free[r]
  BY <1>4, <1>5, <1>6 DEF Clamp
<1> QED BY <1>3, <1>7 DEF lines

\* A refund that has not arrived has nothing to reserve.
LEMMA FreeArrived ==
    ASSUME TypeOK, RowsInv, ArrivedInv, NEW r \in Refunds, r \notin Arrived PROVE Free[r] = 0
<1>1. adjustment[r].remaining = 0
  BY DEF RowsInv, ArrivedInv, TypeOK, Adjustments
<1>2. Reserved(r) \in Nat
  BY ShareType DEF Reserved
<1> QED BY <1>1, <1>2 DEF Free, AtLeastZero, Unreserved

\* The claims of one approval together.
LEMMA AllocationOfApproval ==
    ASSUME TypeOK, RowsInv, ArrivedInv, OrderInv, NEW lines \in SUBSET Lines,
           \A a \in ApprovalsOf(lines) : Approved(a) /\ Capacity(a, lines) >= 0,
           NEW a \in ApprovalsOf(lines)
    PROVE  LET p == Start(Caps(lines), [c \in Approvals |-> approval[c].before], ApprovalsOf(lines), a)
           IN  /\ p \in Nat /\ Caps(lines)[a] \in Nat
               /\ Sum(Allocation(lines)[a], Refunds) = Clamp(Sum(Free, Arrived) - p, Caps(lines)[a])
<1> DEFINE p == Start(Caps(lines), [c \in Approvals |-> approval[c].before], ApprovalsOf(lines), a)
           c == Caps(lines)[a]
           before == [r \in Refunds |-> refund[r].before]
           part == Allocation(lines)[a]
<1>1. \A r \in Refunds : /\ p \in Nat /\ c \in Nat
                         /\ part[r] = Clamp(p + c - Sum(Free, refund[r].before), Free[r])
                                          - Clamp(p - Sum(Free, refund[r].before), Free[r])
  BY AllocationPart
<1>2. p \in Nat /\ c \in Nat
  <2>1. a \in Approvals
    BY BatchApprovals
  <2> DEFINE T == {d \in ApprovalsOf(lines) : d \in approval[a].before}
  <2>2. T = {d \in ApprovalsOf(lines) : d \in [e \in Approvals |-> approval[e].before][a]}
    BY <2>1
  <2>3. T \subseteq ApprovalsOf(lines) /\ ApprovalsOf(lines) \subseteq Approvals
    BY BatchApprovals
  <2>4. IsFiniteSet(T)
    BY <2>3, BatchApprovals, FS_Subset
  <2>5. \A d \in ApprovalsOf(lines) : Caps(lines)[d] \in Nat
    BY <2>3, CapsType
  <2>6. p = Sum(Caps(lines), T)
    BY <2>2 DEF Start
  <2> HIDE DEF T, p
  <2> QED BY <2>3, <2>4, <2>5, <2>6, SumNat
<1>3. /\ IsFiniteSet(Arrived) /\ Arrived \in SUBSET Refunds
      /\ Ordered(before, Arrived)
      /\ \A r \in Refunds : Free[r] \in Nat /\ Sum(Free, refund[r].before) \in Nat
  <2>1. Arrived \in SUBSET Refunds
    BY DEF Arrived
  <2> QED BY <2>1, ConstantsAssumption, FS_Subset, FreeType DEF OrderInv
<1>4. \A r \in Refunds : Start(Free, before, Arrived, r) = Sum(Free, refund[r].before)
  <2> TAKE r \in Refunds
  <2>1. {q \in Arrived : q \in before[r]} = refund[r].before
    BY DEF OrderInv
  <2> QED BY <2>1 DEF Start
<1> HIDE DEF p, c, before, part
<1>5. \A r \in Arrived : part[r] = Clamp(Start(Free, before, Arrived, r) + Free[r] - p, c)
                                      - Clamp(Start(Free, before, Arrived, r) - p, c)
  <2> TAKE r \in Arrived
  <2> DEFINE q == Sum(Free, refund[r].before)
             f == Free[r]
  <2>1. q \in Nat /\ f \in Nat /\ part[r] = Clamp(p + c - q, f) - Clamp(p - q, f)
        /\ Start(Free, before, Arrived, r) = q
    BY <1>1, <1>3, <1>4
  <2> HIDE DEF q, f
  <2>2. Clamp(p + c - q, f) - Clamp(p - q, f) = Clamp(q + f - p, c) - Clamp(q - p, c)
    BY <1>2, <2>1 DEF Clamp
  <2> QED BY <2>1, <2>2 DEF f
<1>6. Sum(part, Arrived) = Clamp(Sum(Free, Arrived) - p, c)
  BY <1>2, <1>3, <1>5, EndToEnd
<1>7. \A r \in Refunds \ Arrived : part[r] = 0
  BY <1>1, <1>2, <1>3, FreeArrived DEF Clamp
<1>8. \A r \in Refunds : part[r] \in Int
  <2>1. a \in Approvals
    BY BatchApprovals
  <2> QED BY <2>1, AllocationTypes DEF part
<1>9. Sum(part, Refunds) = Sum(part, Arrived)
  BY <1>3, <1>7, <1>8, ConstantsAssumption, SumRestrict
<1> QED BY <1>2, <1>6, <1>9 DEF p, c, part

\* All claims together.
LEMMA AllocationTotal ==
    ASSUME TypeOK, RowsInv, ArrivedInv, OrderInv, NEW lines \in SUBSET Lines,
           \A a \in ApprovalsOf(lines) : Approved(a) /\ Capacity(a, lines) >= 0
    PROVE  LET all == Sum(Caps(lines), ApprovalsOf(lines))
           IN  /\ all \in Nat /\ Sum(Free, Arrived) \in Nat
               /\ OffsetTotal(Allocation(lines)) = Clamp(Sum(Free, Arrived), all)
<1> DEFINE all == Sum(Caps(lines), ApprovalsOf(lines))
           before == [r \in Refunds |-> refund[r].before]
           part == [r \in Refunds |-> ClaimOf(Allocation(lines), r)]
<1>1. all \in Nat
  <2>1. ApprovalsOf(lines) \subseteq Approvals
    BY BatchApprovals
  <2>2. \A a \in ApprovalsOf(lines) : Caps(lines)[a] \in Nat
    BY <2>1, CapsType
  <2> QED BY <2>2, BatchApprovals, SumNat
<1>2. /\ IsFiniteSet(Arrived) /\ Arrived \in SUBSET Refunds
      /\ Ordered(before, Arrived)
      /\ \A r \in Refunds : Free[r] \in Nat /\ Sum(Free, refund[r].before) \in Nat
  <2>1. Arrived \in SUBSET Refunds
    BY DEF Arrived
  <2> QED BY <2>1, ConstantsAssumption, FS_Subset, FreeType DEF OrderInv
<1>3. \A r \in Refunds : Start(Free, before, Arrived, r) = Sum(Free, refund[r].before)
  <2> TAKE r \in Refunds
  <2>1. {q \in Arrived : q \in before[r]} = refund[r].before
    BY DEF OrderInv
  <2> QED BY <2>1 DEF Start
<1>4. \A r \in Refunds : part[r] = Clamp(all - Sum(Free, refund[r].before), Free[r])
  BY AllocationOfRefund
<1>5. OffsetTotal(Allocation(lines)) = Sum(part, Refunds)
  BY DEF OffsetTotal
<1> HIDE DEF all, before, part
<1>6. \A r \in Arrived : part[r] = Clamp(Start(Free, before, Arrived, r) + Free[r] - 0, all)
                                      - Clamp(Start(Free, before, Arrived, r) - 0, all)
  <2> TAKE r \in Arrived
  <2> DEFINE q == Sum(Free, refund[r].before)
             f == Free[r]
  <2>1. q \in Nat /\ f \in Nat /\ part[r] = Clamp(all - q, f)
        /\ Start(Free, before, Arrived, r) = q
    BY <1>2, <1>3, <1>4
  <2> HIDE DEF q, f
  <2>2. Clamp(all - q, f) = Clamp(q + f - 0, all) - Clamp(q - 0, all)
    BY <1>1, <2>1 DEF Clamp
  <2> QED BY <2>1, <2>2 DEF f
<1>7. Sum(part, Arrived) = Clamp(Sum(Free, Arrived) - 0, all)
  <2>1. 0 \in Nat
    OBVIOUS
  <2> QED BY <1>1, <1>2, <1>6, <2>1, EndToEnd
<1>8. \A r \in Refunds \ Arrived : part[r] = 0
  BY <1>1, <1>2, <1>4, FreeArrived DEF Clamp
<1>9. \A r \in Refunds : part[r] \in Int
  BY <1>1, <1>2, <1>4 DEF Clamp
<1>10. Sum(part, Refunds) = Sum(part, Arrived)
  BY <1>2, <1>8, <1>9, ConstantsAssumption, SumRestrict
<1>11. Sum(Free, Arrived) \in Nat
  BY <1>2, SumNat
<1> QED BY <1>1, <1>5, <1>7, <1>10, <1>11 DEF all

\* A batch pays what its settlements can pay together.
LEMMA NetByApproval ==
    ASSUME TypeOK, NEW lines \in SUBSET Lines
    PROVE  Net(lines) = Sum(Caps(lines), ApprovalsOf(lines))
<1> DEFINE f == [l \in lines |-> Impact(l)]
           key == [l \in lines |-> l.approval]
<1>1. IsFiniteSet(lines)
  BY LinesFinite, FS_Subset
<1>2. \A l \in lines : f[l] \in Int
  BY ImpactType
<1>3. /\ IsFiniteSet(ApprovalsOf(lines)) /\ ApprovalsOf(lines) \subseteq Approvals
      /\ \A l \in lines : key[l] \in ApprovalsOf(lines)
  <2>1. ApprovalsOf(lines) \subseteq Approvals
    BY DEF ApprovalsOf, Lines
  <2>2. IsFiniteSet(Approvals)
    BY ConstantsAssumption, FS_Interval DEF Approvals
  <2> QED BY <2>1, <2>2, FS_Subset DEF ApprovalsOf
<1>4. ASSUME NEW a \in ApprovalsOf(lines)
      PROVE  Caps(lines)[a] = Sum(f, {l \in lines : key[l] = a})
  <2> DEFINE some == {l \in lines : l.approval = a}
             g == [l \in some |-> Impact(l)]
  <2>1. some = {l \in lines : key[l] = a} /\ some \subseteq lines
    OBVIOUS
  <2>2. IsFiniteSet(some) /\ \A l \in some : g[l] = f[l] /\ f[l] \in Int
    BY <1>1, <1>2, <2>1, FS_Subset
  <2>3. Caps(lines)[a] = Sum(g, some)
    BY <1>3 DEF Caps, Capacity, Net
  <2> HIDE DEF some, f, g, key
  <2>4. Sum(f, some) = Sum(g, some)
    BY <2>2, SumSame
  <2> QED BY <2>1, <2>3, <2>4
<1>5. Net(lines) = Sum(f, lines)
  BY DEF Net
<1> HIDE DEF f, key
<1> QED BY <1>1, <1>2, <1>3, <1>4, <1>5, SumPartition

-----------------------------------------------------------------------------
(* What each step does to claims and portions *)

\* A batch step reserves what one new batch claims, or moves the claims of one
\* batch on; only their consumption touches adjustments.
LEMMA ClaimKinds ==
    ASSUME TypeOK, BatchSteps
    PROVE  \/ UNCHANGED <<adjustment, claim>>
           \/ \E b \in Batches :
                  \/ PrepareR1(b)
                  \/ Holding(b) /\ Release(b)
                  \/ Holding(b) /\ FinalizeClaims(b)
<1>1. PICK b \in Batches : \/ PrepareOrdinary(b)
                           \/ PrepareR1(b)
                           \/ ReviewOrdinary(b)
                           \/ ReviewR1(b)
                           \/ CancelDraftBatch(b)
                           \/ CancelR1Review(b)
                           \/ PayOrdinary(b)
                           \/ PayR1(b)
                           \/ CompleteCashless(b)
  BY DEF BatchSteps
<1>2. CASE PrepareOrdinary(b) \/ ReviewOrdinary(b) \/ ReviewR1(b) \/ PayOrdinary(b)
  BY <1>2 DEF PrepareOrdinary, ReviewOrdinary, ReviewR1, PayOrdinary
<1>3. CASE Release(b)
  BY <1>3 DEF Release
<1>4. CASE PayR1(b) \/ CompleteCashless(b)
  BY <1>4 DEF PayR1, CompleteCashless, AuthorityOf
<1> QED BY <1>1, <1>2, <1>3, <1>4 DEF CancelDraftBatch, CancelR1Review

\* Amounts change only where a batch reserves.
LEMMA AmountsKept ==
    ASSUME TypeOK, [Next]_vars, \A b \in Batches : ~PrepareR1(b)
    PROVE  \A b \in Batches : claim'[b].amount = claim[b].amount
<1>1. CASE claim' = claim
  BY <1>1
<1>2. ASSUME NEW c \in Batches, NEW status, claim' = [claim EXCEPT ![c].status = status]
      PROVE  \A b \in Batches : claim'[b].amount = claim[b].amount
  BY <1>2 DEF TypeOK, Claims
<1> QED BY <1>1, <1>2, RefundFrame, ApprovalFrame, ClaimKinds
        DEF Next, vars, Release, FinalizeClaims

\* What a reservation claims of a refund is left of it.
LEMMA ReservedOfExisting ==
    ASSUME TypeOK, RowsInv, OrderInv, NEW b \in Batches, PrepareR1(b),
           NEW a \in Approvals, NEW r \in Refunds, claim'[b].amount[a][r] > 0
    PROVE  adjustment[r].exists
<1> DEFINE amount == Allocation(Selected(OwnRefunds))
<1>1. amount \in [Approvals -> [Refunds -> Nat]]
  BY AllocationTypes
<1>2. claim' = [claim EXCEPT ![b] = [status |-> "RESERVED", amount |-> amount]]
      /\ ClaimOf(amount, r) <= Free[r]
  BY ReservationFits
<1> HIDE DEF amount
<1>3. amount[a][r] <= ClaimOf(amount, r) /\ ClaimOf(amount, r) \in Nat /\ amount[a][r] \in Nat
  BY <1>1, ClaimOfType
<1>4. claim'[b].amount = amount
  BY <1>2 DEF TypeOK
<1>5. Free[r] \in Nat
  BY FreeType
<1>6. Free[r] > 0
  BY <1>2, <1>3, <1>4, <1>5
<1>7. adjustment[r].remaining \in Nat /\ Reserved(r) \in Nat
  <2>1. adjustment[r] \in Adjustments
    BY DEF TypeOK
  <2> QED BY <2>1, ShareType DEF Adjustments, Reserved
<1>8. adjustment[r].remaining > 0
  BY <1>6, <1>7 DEF Free, AtLeastZero, Unreserved
<1> QED BY <1>8 DEF RowsInv

\* A settlement step concerns one settlement: a draft takes one that is not
\* made yet, and an approval or a cancellation one that is.
LEMMA ApprovalKinds ==
    ASSUME TypeOK, ApprovalSteps
    PROVE  \E a \in Approvals :
               /\ \A c \in Approvals \ {a} : approval'[c] = approval[c]
               /\ \/ /\ \E scope \in SUBSET Sales :
                            Draft(a, scope) /\ approval'[a].refunds = DraftRefunds(scope)
                     /\ approval[a].status = "none"
                     /\ approval'[a].status = "draft" /\ approval'[a].before = {}
                  \/ /\ Approve(a)
                     /\ approval[a].status = "draft" /\ approval'[a].status = "approved"
                     /\ approval'[a].sales = approval[a].sales
                     /\ approval'[a].refunds = approval[a].refunds
                     /\ approval'[a].applied = approval[a].applied
                     /\ approval'[a].before = {c \in Approvals : Approved(c)}
                  \/ /\ CancelSettlement(a)
                     /\ approval'[a].status = "cancelled" /\ approval'[a].before = {}
                     /\ approval'[a].applied = Nothing
<1>1. PICK a \in Approvals : \/ \E scope \in SUBSET Sales : Draft(a, scope)
                             \/ Approve(a)
                             \/ CancelSettlement(a)
  BY DEF ApprovalSteps
<1>2. ASSUME NEW scope, Draft(a, scope)
      PROVE  /\ \A c \in Approvals \ {a} : approval'[c] = approval[c]
             /\ approval[a].status = "none"
             /\ approval'[a].status = "draft" /\ approval'[a].before = {}
             /\ approval'[a].refunds = DraftRefunds(scope)
  <2> DEFINE row(f) == [status |-> "draft", sales |-> DraftSales(scope),
                        refunds |-> DraftRefunds(scope), applied |-> f,
                        known |-> {r \in Arrived : SaleOf[r] \in DraftSales(scope)},
                        before |-> {}]
  <2>1. PICK f : approval' = [approval EXCEPT ![a] = row(f)]
    BY <1>2 DEF Draft
  <2>2. row(f).status = "draft" /\ row(f).before = {} /\ row(f).refunds = DraftRefunds(scope)
    OBVIOUS
  <2> HIDE DEF row
  <2> QED BY <1>2, <2>1, <2>2 DEF Draft, NextApproval, TypeOK
<1>3. CASE Approve(a)
  <2> DEFINE old == {c \in Approvals : Approved(c)}
             row == [approval[a] EXCEPT !.status = "approved", !.before = old]
  <2>1. approval[a].status = "draft" /\ approval' = [approval EXCEPT ![a] = row]
    BY <1>3 DEF Approve, TypeOK
  <2>2. /\ row.status = "approved" /\ row.before = old
        /\ row.sales = approval[a].sales /\ row.refunds = approval[a].refunds
        /\ row.applied = approval[a].applied
    BY DEF TypeOK, ApprovalRows
  <2> HIDE DEF row
  <2>3. approval'[a] = row /\ \A c \in Approvals \ {a} : approval'[c] = approval[c]
    BY <2>1 DEF TypeOK
  <2> QED BY <1>3, <2>1, <2>2, <2>3
<1>4. CASE CancelSettlement(a)
  BY <1>4 DEF CancelSettlement, Blank, TypeOK
<1>5. CASE \E scope \in SUBSET Sales : Draft(a, scope)
  BY <1>2, <1>5
<1> QED BY <1>1, <1>3, <1>4, <1>5

\* Amounts appear only with a settlement and an adjustment.
LEMMA UnusedInvStep ==
    ASSUME TypeOK, TypeOK', RowsInv, UnusedInv, OrderInv, [Next]_vars
    PROVE  UnusedInv'
<1>1. ASSUME NEW a \in Approvals, approval'[a].status = "none", NEW r \in Refunds
      PROVE  approval'[a].applied[r] = 0
  <2>1. CASE approval'[a] = approval[a]
    BY <1>1, <2>1 DEF UnusedInv
  <2>2. CASE ApprovalSteps
    BY <1>1, <2>1, <2>2, ApprovalKinds DEF TypeOK
  <2> QED BY <2>1, <2>2, RefundFrame, BatchKinds DEF Next, vars
<1>2. ASSUME NEW b \in Batches, NEW a \in Approvals, NEW r \in Refunds,
             claim'[b].amount[a][r] > 0
      PROVE  adjustment'[r].exists
  <2>1. CASE claim'[b].amount = claim[b].amount
    BY <1>2, <2>1, AdjustmentsOpened DEF UnusedInv
  <2>2. ASSUME NEW c \in Batches, PrepareR1(c), c # b PROVE claim'[b].amount = claim[b].amount
    BY <2>2 DEF PrepareR1, TypeOK
  <2>3. CASE PrepareR1(b)
    BY <1>2, <2>3, ReservedOfExisting, AdjustmentsOpened
  <2> QED BY <2>1, <2>2, <2>3, AmountsKept
<1> QED BY <1>1, <1>2 DEF UnusedInv

\* A settlement that is approved or cancelled changes only by its cancellation.
LEMMA ApprovedKept ==
    ASSUME TypeOK, [Next]_vars, NEW a \in Approvals,
           approval[a].status \in {"approved", "cancelled"}
    PROVE  approval'[a] = approval[a] \/ approval'[a].status = "cancelled"
<1>1. CASE ApprovalSteps
  BY <1>1, ApprovalKinds
<1> QED BY <1>1, RefundFrame, BatchKinds DEF Next, vars

\* Refunds and settlements join their orders at the end.
LEMMA OrderInvStep ==
    ASSUME TypeOK, ArrivedInv, OrderInv, [Next]_vars PROVE OrderInv'
<1>1. /\ Ordered([r \in Refunds |-> refund'[r].before], Arrived')
      /\ \A r \in Refunds : refund'[r].before \subseteq Arrived'
  <2>1. CASE /\ Arrived' = Arrived
             /\ \A r \in Refunds : refund'[r].before = refund[r].before
    BY <2>1 DEF OrderInv, Ordered, Arrived
  <2>2. ASSUME NEW r \in Refunds \ Arrived,
               Arrived' = Arrived \cup {r},
               refund'[r].before = Arrived,
               \A q \in Refunds \ {r} : refund'[q].before = refund[q].before
        PROVE  /\ Ordered([q \in Refunds |-> refund'[q].before], Arrived')
               /\ \A q \in Refunds : refund'[q].before \subseteq Arrived'
    <3>1. Arrived \subseteq Refunds
      BY DEF Arrived
    <3>2. Ordered([q \in Refunds |-> refund[q].before], Arrived)
          /\ \A q \in Refunds : refund[q].before \subseteq Arrived
      BY DEF OrderInv
    <3> DEFINE before == [q \in Refunds |-> refund[q].before]
               after == [q \in Refunds |-> refund'[q].before]
    <3>3. after[r] = Arrived
      BY <2>2
    <3>4. \A q \in Arrived : after[q] = before[q] /\ r \notin before[q]
      BY <2>2, <3>1, <3>2
    <3> HIDE DEF before, after
    <3>5. Ordered(after, Arrived \cup {r})
      BY <3>2, <3>3, <3>4, OrderedAdd DEF before
    <3> QED BY <2>2, <3>2, <3>5 DEF after
  <2> QED BY <2>1, <2>2, ArrivedGrows
<1>2. /\ Ordered([a \in Approvals |-> approval'[a].before], {a \in Approvals : Approved(a)'})
      /\ \A a \in Approvals : \A c \in approval'[a].before :
             approval'[c].status \in {"approved", "cancelled"}
  <2>1. \A a \in Approvals : approval[a].before \subseteq Approvals
    BY DEF TypeOK, ApprovalRows
  <2>2. \A a \in Approvals : approval[a].status \in {"approved", "cancelled"} =>
            approval'[a].status \in {"approved", "cancelled"}
    BY ApprovedKept
  <2>3. CASE approval' = approval
    BY <2>3 DEF OrderInv, Approved
  <2>4. ASSUME NEW a \in Approvals, Approve(a)
        PROVE  <1>2!1 /\ <1>2!2
    <3> DEFINE old == {c \in Approvals : Approved(c)}
    <3>1. /\ approval'[a].before = old
          /\ \A c \in Approvals \ {a} : approval'[c] = approval[c]
          /\ approval[a].status = "draft" /\ approval'[a].status = "approved"
      BY <2>4 DEF Approve, TypeOK
    <3>2. {c \in Approvals : Approved(c)'} = old \cup {a} /\ a \notin old
      BY <3>1 DEF Approved
    <3>3. \A c \in Approvals : a \notin approval[c].before
      BY <3>1 DEF OrderInv
    <3>4. Ordered([c \in Approvals |-> approval[c].before], old) /\ old \subseteq Approvals
      BY DEF OrderInv
    <3>5. \A c \in old : approval[c].status = "approved"
      BY DEF Approved
    <3> HIDE DEF old
    <3>6. Ordered([c \in Approvals |-> approval'[c].before], old \cup {a})
      <4> DEFINE before == [c \in Approvals |-> approval[c].before]
                 after == [c \in Approvals |-> approval'[c].before]
      <4>1. after[a] = old /\ \A c \in old : after[c] = before[c] /\ a \notin before[c]
        BY <3>1, <3>2, <3>3, <3>4
      <4>2. Ordered(before, old)
        BY <3>4
      <4> HIDE DEF before, after
      <4>3. Ordered(after, old \cup {a})
        BY <3>2, <4>1, <4>2, OrderedAdd
      <4> QED BY <4>3 DEF after
    <3>7. \A c \in Approvals : \A d \in approval'[c].before :
              approval'[d].status \in {"approved", "cancelled"}
      BY <2>1, <2>2, <3>1, <3>4, <3>5 DEF OrderInv
    <3> QED BY <3>2, <3>6, <3>7
  <2>5. ASSUME NEW a \in Approvals, approval'[a].before = {}, approval'[a].status # "approved",
               \A c \in Approvals \ {a} : approval'[c] = approval[c]
        PROVE  <1>2!1 /\ <1>2!2
    <3>1. {c \in Approvals : Approved(c)'} \subseteq {c \in Approvals : Approved(c)} \ {a}
      BY <2>5 DEF Approved
    <3>2. Ordered([c \in Approvals |-> approval[c].before], {c \in Approvals : Approved(c)})
      BY DEF OrderInv
    <3>3. Ordered([c \in Approvals |-> approval'[c].before], {c \in Approvals : Approved(c)'})
      BY <2>5, <3>1, <3>2 DEF Ordered
    <3>4. \A c \in Approvals : \A d \in approval'[c].before :
              approval'[d].status \in {"approved", "cancelled"}
      BY <2>1, <2>2, <2>5 DEF OrderInv
    <3> QED BY <3>3, <3>4
  <2>6. CASE ApprovalSteps
    BY <2>4, <2>5, <2>6, ApprovalKinds
  <2> QED BY <2>3, <2>6, RefundFrame, BatchKinds DEF Next, vars
<1> QED BY <1>1, <1>2 DEF OrderInv

\* What a batch pays does not change while its settlements stand.
LEMMA AuthorityKept ==
    ASSUME TypeOK, NEW lines \in SUBSET Lines, NEW amount, Authority(lines, amount, FALSE),
           \A a \in ApprovalsOf(lines) : approval'[a] = approval[a]
    PROVE  Authority(lines, amount, FALSE)'
<1>1. ASSUME NEW some \in SUBSET lines PROVE Net(some)' = Net(some)
  <2>1. \A l \in some : Impact(l)' = Impact(l)
    BY DEF Impact, ApprovalsOf
  <2>2. [l \in some |-> Impact(l)'] = [l \in some |-> Impact(l)]
    BY <2>1
  <2> QED BY <2>2 DEF Net
<1>2. Net(lines)' = Net(lines)
  BY <1>1
<1>3. ASSUME NEW a \in ApprovalsOf(lines)
      PROVE  Approved(a)' /\ Capacity(a, lines)' = Capacity(a, lines)
  <2>1. Approved(a)'
    BY DEF Authority, Approved
  <2> QED BY <1>1, <2>1 DEF Capacity
<1>4. /\ Net(lines) > 0
      /\ OffsetTotal(amount) > 0 /\ OffsetTotal(amount) <= Net(lines)
      /\ \A a \in ApprovalsOf(lines) : Sum(amount[a], Refunds) <= Capacity(a, lines)
  BY DEF Authority
<1> QED BY <1>2, <1>3, <1>4 DEF Authority

\* A batch keeps its lines, and its amounts unless it is reserved for.
LEMMA BatchKept ==
    ASSUME TypeOK, [Next]_vars, NEW b \in Batches, batch[b].status # "none"
    PROVE  batch'[b].lines = batch[b].lines /\ claim'[b].amount = claim[b].amount
<1>1. ASSUME NEW c \in Batches, Lists(c) \/ Moves(c) PROVE batch'[b].lines = batch[b].lines
  <2>1. CASE Lists(c)
    BY <2>1 DEF Lists, NextBatch, Prepared, TypeOK
  <2>2. CASE Moves(c)
    BY <2>2 DEF Moves, TypeOK
  <2> QED BY <1>1, <2>1, <2>2
<1>2. batch'[b].lines = batch[b].lines
  BY <1>1, RefundFrame, ApprovalFrame, BatchKinds DEF Next, vars
<1>3. ASSUME NEW c \in Batches, PrepareR1(c) PROVE claim'[b] = claim[b]
  BY <1>3 DEF PrepareR1, NextBatch, TypeOK
<1>4. CASE \E c \in Batches : PrepareR1(c)
  BY <1>2, <1>3, <1>4
<1> QED BY <1>2, <1>4, AmountsKept

\* A batch that becomes active was prepared, and a claim that becomes reserved
\* was so with its batch.
LEMMA NewClaims ==
    ASSUME TypeOK, ClaimsFollowBatch, [Next]_vars, NEW b \in Batches,
           claim'[b].status \in {"RESERVED", "FINALIZED"}
    PROVE  \/ PrepareR1(b)
           \/ /\ claim[b].status \in {"RESERVED", "FINALIZED"}
              /\ Active(b) /\ batch[b].status # "none"
<1>1. ASSUME claim[b].status \in {"RESERVED", "FINALIZED"}
      PROVE  Active(b) /\ batch[b].status # "none"
  BY <1>1 DEF ClaimsFollowBatch, Active, Open, Final
<1>2. CASE claim' = claim
  BY <1>1, <1>2
<1>3. ASSUME NEW c \in Batches,
             PrepareR1(c) \/ (Holding(c) /\ Release(c)) \/ (Holding(c) /\ FinalizeClaims(c))
      PROVE  PrepareR1(b) \/ claim[b].status \in {"RESERVED", "FINALIZED"}
  <2>1. CASE b = c
    BY <1>3, <2>1 DEF Holding
  <2>2. CASE b # c
    BY <1>3, <2>2 DEF PrepareR1, Release, FinalizeClaims, TypeOK
  <2> QED BY <2>1, <2>2
<1> QED BY <1>1, <1>2, <1>3, RefundFrame, ApprovalFrame, ClaimKinds DEF Next, vars

\* The claims of a batch fit in what it pays when they are made, and nothing
\* changes what it pays unless one of its settlements is cancelled.
LEMMA BackedStep ==
    ASSUME TypeOK, LinesInv, ClaimsFollowBatch, Backed, [Next]_vars PROVE Backed'
<1> SUFFICES ASSUME NEW b \in Batches, claim'[b].status \in {"RESERVED", "FINALIZED"},
                    \A l \in batch'[b].lines : Approved(l.approval)',
                    NEW lines, lines = batch'[b].lines, NEW amount, amount = claim'[b].amount
             PROVE  Authority(lines, amount, FALSE)'
  BY DEF Backed
<1>1. CASE PrepareR1(b)
  <2>1. lines = Selected(OwnRefunds) /\ amount = Allocation(Selected(OwnRefunds))
    BY <1>1 DEF PrepareR1, Prepared, TypeOK
  <2>2. Authority(lines, amount, FALSE) /\ approval' = approval
    BY <1>1, <2>1 DEF PrepareR1, Authority
  <2>3. lines \in SUBSET Lines
    BY <2>1, SelectedTypes
  <2> QED BY <2>2, <2>3, AuthorityKept
<1>2. ASSUME claim[b].status \in {"RESERVED", "FINALIZED"}, Active(b), batch[b].status # "none"
      PROVE  Authority(lines, amount, FALSE)'
  <2>1. lines = batch[b].lines /\ amount = claim[b].amount
    BY <1>2, BatchKept
  <2>2. lines \in SUBSET Lines
    BY <2>1 DEF TypeOK, BatchRows
  <2>3. ASSUME NEW a \in ApprovalsOf(lines) PROVE Approved(a) /\ approval'[a] = approval[a]
    <3>1. PICK l \in lines : l.approval = a
      BY DEF ApprovalsOf
    <3>2. a \in Approvals
      BY <2>2, <3>1 DEF Lines
    <3>3. approval[a].status \in {"approved", "cancelled"} /\ approval'[a].status = "approved"
      BY <1>2, <2>1, <3>1 DEF LinesInv, Approved
    <3>4. approval'[a] = approval[a]
      BY <3>2, <3>3, ApprovedKept
    <3> QED BY <3>3, <3>4 DEF Approved
  <2>4. \A l \in lines : Approved(l.approval)
    BY <2>3 DEF ApprovalsOf
  <2>5. Authority(lines, amount, FALSE)
    BY <1>2, <2>1, <2>4 DEF Backed
  <2> QED BY <2>2, <2>3, <2>5, AuthorityKept
<1> QED BY <1>1, <1>2, NewClaims

\* Conserved, for one refund.
Balance(r) ==
    /\ adjustment[r].applied + adjustment[r].remaining = RefundAmount[r]
    /\ ActivelyApplied(r) + Finalized(r) = adjustment[r].applied
    /\ Reserved(r) <= adjustment[r].remaining

\* The amounts in a balance are numbers.
LEMMA BalanceTypes ==
    ASSUME TypeOK, NEW r \in Refunds
    PROVE  /\ adjustment[r].applied \in Int /\ adjustment[r].remaining \in Nat
           /\ \A a \in Approvals : approval[a].applied[r] \in Nat
           /\ Reserved(r) \in Nat /\ Finalized(r) \in Nat
           /\ RefundAmount[r] \in Nat
<1>1. adjustment[r] \in Adjustments
  BY DEF TypeOK
<1>2. \A a \in Approvals : approval[a].applied[r] \in Nat
  BY DEF TypeOK, ApprovalRows
<1> QED BY <1>1, <1>2, ShareType, ConstantsAssumption DEF Adjustments, Reserved, Finalized

\* Steps that leave the portions and claims leave the sums.
LEMMA SumsKept ==
    ASSUME TypeOK, TypeOK', NEW r \in Refunds
    PROVE  /\ claim' = claim => Reserved(r)' = Reserved(r) /\ Finalized(r)' = Finalized(r)
           /\ (\A a \in Approvals : approval'[a].applied = approval[a].applied) =>
                  ActivelyApplied(r)' = ActivelyApplied(r)
           /\ ActivelyApplied(r) \in Nat
<1>1. claim' = claim => Reserved(r)' = Reserved(r) /\ Finalized(r)' = Finalized(r)
  BY DEF Reserved, Finalized, ClaimedOf
<1>2. ASSUME \A a \in Approvals : approval'[a].applied = approval[a].applied
      PROVE  ActivelyApplied(r)' = ActivelyApplied(r)
  <2>1. [a \in Approvals |-> approval'[a].applied[r]] = [a \in Approvals |-> approval[a].applied[r]]
    BY <1>2
  <2> QED BY <2>1 DEF ActivelyApplied
<1>3. ActivelyApplied(r) \in Nat
  <2> DEFINE f == [a \in Approvals |-> approval[a].applied[r]]
  <2>1. IsFiniteSet(Approvals)
    BY ConstantsAssumption, FS_Interval DEF Approvals
  <2>2. \A a \in Approvals : f[a] \in Nat
    BY BalanceTypes
  <2> HIDE DEF f
  <2>3. Sum(f, Approvals) \in Nat
    BY <2>1, <2>2, SumNat
  <2> QED BY <2>3 DEF ActivelyApplied, f
<1> QED BY <1>1, <1>2, <1>3

\* An adjustment starts with the whole refund.
LEMMA BalanceOpened ==
    ASSUME TypeOK, TypeOK', RowsInv, UnusedInv, NEW r \in Refunds, NEW a,
           ~adjustment[r].exists, adjustment'[r] = Opened(r, a), UNCHANGED <<approval, claim>>
    PROVE  Balance(r)'
<1>1. ActivelyApplied(r) = 0 /\ Finalized(r) = 0 /\ Reserved(r) = 0
  BY NothingWithoutAdjustment
<1>2. ActivelyApplied(r)' = 0 /\ Finalized(r)' = 0 /\ Reserved(r)' = 0
  BY <1>1, SumsKept
<1>3. adjustment'[r].applied = 0 /\ adjustment'[r].remaining = RefundAmount[r]
  BY DEF Opened
<1> QED BY <1>2, <1>3, ConstantsAssumption DEF Balance

\* What a draft takes of an adjustment, no batch has reserved.
LEMMA DraftFits ==
    ASSUME TypeOK, NEW f \in Portions, NEW net, OldestFirst(f, AtLeastZero(net)),
           NEW r \in Refunds, Reserved(r) <= adjustment[r].remaining
    PROVE  f[r] \in Nat /\ f[r] <= adjustment[r].remaining - Reserved(r)
<1>1. f \in [Refunds -> Nat]
  BY PortionsTyped
<1>2. AtLeastZero(net) \in Nat
  BY DEF AtLeastZero
<1> DEFINE rest == AtLeastZero(net) - Sum(f, adjustment[r].before)
<1>3. Sum(f, adjustment[r].before) \in Nat
  <2>1. adjustment[r].before \in SUBSET Refunds
    BY DEF TypeOK, Adjustments
  <2>2. IsFiniteSet(adjustment[r].before)
    BY <2>1, ConstantsAssumption, FS_Subset
  <2> QED BY <1>1, <2>1, <2>2, SumNat
<1>4. rest \in Int
  BY <1>2, <1>3
<1>5. f[r] = IF r \in Outstanding
             THEN AtLeastZero(IF rest < Unreserved(r) THEN rest ELSE Unreserved(r))
             ELSE 0
  BY DEF OldestFirst
<1> HIDE DEF rest
<1>6. Unreserved(r) \in Nat
  BY BalanceTypes DEF Unreserved
<1>7. f[r] <= Unreserved(r)
  BY <1>4, <1>5, <1>6 DEF AtLeastZero
<1> QED BY <1>1, <1>7 DEF Unreserved

\* What is consumed moves from the rest to what is applied.
LEMMA ConsumeMoves ==
    ASSUME TypeOK, NEW f, Consume(f), NEW r \in Refunds
    PROVE  /\ adjustment'[r].applied = adjustment[r].applied + f[r]
           /\ adjustment'[r].remaining = adjustment[r].remaining - f[r]
<1> DEFINE applied == adjustment[r].applied + f[r]
           rest == adjustment[r].remaining - f[r]
<1>1. adjustment'[r] = [adjustment[r] EXCEPT !.applied = applied, !.remaining = rest]
  BY DEF Consume
<1>2. adjustment[r] \in Adjustments
  BY DEF TypeOK
<1> HIDE DEF applied, rest
<1>3. adjustment'[r].applied = applied /\ adjustment'[r].remaining = rest
  BY <1>1, <1>2 DEF Adjustments
<1> QED BY <1>3 DEF applied, rest

\* A draft moves what it takes from the rest to its own line.
LEMMA BalanceDrafted ==
    ASSUME TypeOK, TypeOK', UnusedInv, NEW a \in Approvals, NEW scope, Draft(a, scope),
           NEW r \in Refunds, Balance(r)
    PROVE  Balance(r)'
<1> DEFINE row(f) == [status |-> "draft", sales |-> DraftSales(scope),
                      refunds |-> DraftRefunds(scope), applied |-> f,
                      known |-> {q \in Arrived : SaleOf[q] \in DraftSales(scope)},
                      before |-> {}]
<1>1. PICK f \in Portions : /\ \E net : OldestFirst(f, AtLeastZero(net))
                            /\ approval' = [approval EXCEPT ![a] = row(f)]
                            /\ Consume(f)
  BY DEF Draft
<1>2. row(f).applied = f
  OBVIOUS
<1> HIDE DEF row
<1>3. f[r] \in Nat /\ f[r] <= adjustment[r].remaining - Reserved(r)
  BY <1>1, DraftFits DEF Balance
<1>4. approval'[a].applied[r] = f[r] /\ approval[a].applied[r] = 0
  <2>1. approval[a].status = "none"
    BY DEF Draft, NextApproval
  <2> QED BY <1>1, <1>2, <2>1 DEF TypeOK, UnusedInv
<1>5. ActivelyApplied(r)' = ActivelyApplied(r) + f[r] /\ ActivelyApplied(r) \in Nat
  <2>1. \A c \in Approvals \ {a} : approval'[c].applied = approval[c].applied
    BY <1>1 DEF TypeOK
  <2> QED BY <1>3, <1>4, <2>1, PortionMoves
<1>6. Reserved(r)' = Reserved(r) /\ Finalized(r)' = Finalized(r)
  BY SumsKept DEF Draft
<1>7. /\ adjustment'[r].applied = adjustment[r].applied + f[r]
      /\ adjustment'[r].remaining = adjustment[r].remaining - f[r]
  BY <1>1, ConsumeMoves
<1> QED BY <1>3, <1>5, <1>6, <1>7, BalanceTypes DEF Balance

\* A cancelled settlement gives back what its line took.
LEMMA BalanceCancelled ==
    ASSUME TypeOK, TypeOK', NEW a \in Approvals, CancelSettlement(a), NEW r \in Refunds, Balance(r)
    PROVE  Balance(r)'
<1>1. ActivelyApplied(r)' = ActivelyApplied(r) - approval[a].applied[r] /\ ActivelyApplied(r) \in Nat
  <2>1. /\ \A c \in Approvals \ {a} : approval'[c].applied = approval[c].applied
        /\ approval'[a].applied[r] = 0
    BY DEF CancelSettlement, Blank, Nothing, TypeOK
  <2> QED BY <2>1, PortionMoves, BalanceTypes
<1>2. Reserved(r)' = Reserved(r) /\ Finalized(r)' = Finalized(r)
  BY SumsKept DEF CancelSettlement
<1>3. /\ adjustment'[r].applied = adjustment[r].applied - approval[a].applied[r]
      /\ adjustment'[r].remaining = adjustment[r].remaining + approval[a].applied[r]
  <2> DEFINE applied == adjustment[r].applied - approval[a].applied[r]
             rest == adjustment[r].remaining + approval[a].applied[r]
  <2>1. adjustment'[r] = [adjustment[r] EXCEPT !.applied = applied, !.remaining = rest]
    BY DEF CancelSettlement
  <2>2. adjustment[r] \in Adjustments
    BY DEF TypeOK
  <2> HIDE DEF applied, rest
  <2>3. adjustment'[r].applied = applied /\ adjustment'[r].remaining = rest
    BY <2>1, <2>2 DEF Adjustments
  <2> QED BY <2>3 DEF applied, rest
<1> QED BY <1>1, <1>2, <1>3, BalanceTypes DEF Balance

\* A reservation leaves the adjustments.
LEMMA BalanceReserved ==
    ASSUME TypeOK, TypeOK', OrderInv, ClaimsFollowBatch, NEW b \in Batches, PrepareR1(b),
           NEW r \in Refunds, Balance(r)
    PROVE  Balance(r)'
<1> DEFINE amount == Allocation(Selected(OwnRefunds))
<1>1. claim' = [claim EXCEPT ![b] = [status |-> "RESERVED", amount |-> amount]]
      /\ ClaimOf(amount, r) <= Free[r]
  BY ReservationFits
<1>2. claim'[b].status = "RESERVED" /\ claim'[b].amount = amount
      /\ \A c \in Batches \ {b} : claim'[c] = claim[c]
  BY <1>1 DEF TypeOK
<1>3. claim[b].status = "none"
  <2>1. batch[b].status = "none" /\ claim[b] \in Claims
    BY DEF PrepareR1, NextBatch, TypeOK
  <2> QED BY <2>1 DEF ClaimsFollowBatch, Open, Final, Claims
<1>4. ClaimOf(amount, r) \in Nat
  BY AllocationTypes, ClaimOfType
<1> HIDE DEF amount
<1>5. Finalized(r)' = Finalized(r)
  BY <1>2, <1>3, ClaimMoves, BalanceTypes DEF Finalized
<1>6. Reserved(r)' = Reserved(r) + ClaimOf(amount, r)
  BY <1>2, <1>3, <1>4, ClaimMoves, BalanceTypes DEF Reserved
<1>7. ClaimOf(amount, r) <= adjustment[r].remaining - Reserved(r)
  <2>1. Unreserved(r) \in Nat
    BY BalanceTypes DEF Balance, Unreserved
  <2> QED BY <1>1, <2>1 DEF Free, AtLeastZero, Unreserved
<1>8. adjustment' = adjustment /\ ActivelyApplied(r)' = ActivelyApplied(r)
  BY SumsKept DEF PrepareR1
<1> QED BY <1>4, <1>5, <1>6, <1>7, <1>8, BalanceTypes DEF Balance

\* Claims that are released or consumed are reserved no more; consumed ones
\* leave the rest of their adjustment.
LEMMA BalanceEnded ==
    ASSUME TypeOK, TypeOK', NEW b \in Batches, Holding(b), Release(b) \/ FinalizeClaims(b),
           NEW r \in Refunds, Balance(r)
    PROVE  Balance(r)'
<1> DEFINE n == ClaimOf(claim[b].amount, r)
<1>1. n \in Nat
  <2>1. claim[b].amount \in [Approvals -> [Refunds -> Nat]]
    BY DEF TypeOK, Claims
  <2> QED BY <2>1, ClaimOfType
<1>2. PICK status \in {"RELEASED", "FINALIZED"} :
          /\ claim' = [claim EXCEPT ![b].status = status]
          /\ status = "RELEASED" => Release(b)
          /\ status = "FINALIZED" => FinalizeClaims(b)
  BY DEF Release, FinalizeClaims
<1>3. /\ claim'[b].status = status /\ claim'[b].amount = claim[b].amount
      /\ claim[b].status = "RESERVED"
      /\ \A c \in Batches \ {b} : claim'[c] = claim[c]
  BY <1>2 DEF TypeOK, Claims, Holding
<1> HIDE DEF n
<1>4. Reserved(r)' = Reserved(r) - n
  BY <1>1, <1>3, ClaimMoves, BalanceTypes DEF Reserved, n
<1>5. Finalized(r)' = Finalized(r) + (IF status = "FINALIZED" THEN n ELSE 0)
  BY <1>1, <1>3, ClaimMoves, BalanceTypes DEF Finalized, n
<1>6. ActivelyApplied(r)' = ActivelyApplied(r) /\ ActivelyApplied(r) \in Nat
  BY <1>2, SumsKept DEF Release, FinalizeClaims
<1>7. CASE status = "RELEASED"
  <2>1. adjustment' = adjustment
    BY <1>2, <1>7 DEF Release
  <2> QED BY <1>1, <1>4, <1>5, <1>6, <1>7, <2>1, BalanceTypes DEF Balance
<1>8. CASE status = "FINALIZED"
  <2>1. PICK f \in Portions : f[r] = n /\ Consume(f)
    BY <1>2, <1>8 DEF FinalizeClaims, n
  <2>2. /\ adjustment'[r].applied = adjustment[r].applied + n
        /\ adjustment'[r].remaining = adjustment[r].remaining - n
    BY <2>1, ConsumeMoves
  <2> QED BY <1>1, <1>4, <1>5, <1>6, <1>8, <2>2, BalanceTypes DEF Balance
<1> QED BY <1>7, <1>8

\* What a refund takes back stays accounted for.
LEMMA ConservedStep ==
    ASSUME TypeOK, TypeOK', RowsInv, ClaimsFollowBatch, AmountInv, [Next]_vars
    PROVE  Conserved'
<1> USE DEF AmountInv
<1> SUFFICES ASSUME NEW r \in Refunds, adjustment'[r].exists PROVE Balance(r)'
  BY DEF Conserved, Balance
<1>1. adjustment[r].exists => Balance(r)
  BY DEF Conserved, Balance
<1>2. ASSUME adjustment'[r] = adjustment[r], claim' = claim,
             \A a \in Approvals : approval'[a].applied = approval[a].applied
      PROVE  Balance(r)'
  BY <1>1, <1>2, SumsKept DEF Balance
<1>3. CASE RefundSteps
  <2>1. UNCHANGED <<approval, claim>>
    BY <1>3, RefundFrame
  <2>2. CASE adjustment'[r] = adjustment[r]
    BY <1>2, <2>1, <2>2
  <2>3. PICK q \in Refunds : \/ RefundRead(q)
                             \/ RefundWrite(q)
                             \/ BackfillRead(q)
                             \/ BackfillWrite(q)
                             \/ BackfillFails(q)
    BY <1>3 DEF RefundSteps
  <2>4. ASSUME adjustment'[r] # adjustment[r]
        PROVE  ~adjustment[r].exists /\ \E a : adjustment'[r] = Opened(r, a)
    <3>1. CASE RefundWrite(q)
      <4>1. ~adjustment[q].exists
        BY <3>1 DEF RefundWrite, ArrivedInv
      <4>2. r = q
        BY <2>4, <3>1 DEF RefundWrite, TypeOK
      <4> QED BY <2>4, <3>1, <4>1, <4>2 DEF RefundWrite, TypeOK
    <3>2. CASE BackfillWrite(q)
      BY <2>4, <3>2 DEF BackfillWrite, TypeOK
    <3> QED BY <2>3, <2>4, <3>1, <3>2 DEF RefundRead, BackfillRead, BackfillFails
  <2> QED BY <2>1, <2>2, <2>4, BalanceOpened
<1>4. CASE ApprovalSteps /\ adjustment[r].exists
  <2>1. PICK a \in Approvals :
            /\ \A c \in Approvals \ {a} : approval'[c] = approval[c]
            /\ \/ \E scope \in SUBSET Sales : Draft(a, scope)
               \/ Approve(a) /\ approval'[a].applied = approval[a].applied
               \/ CancelSettlement(a)
    BY <1>4, ApprovalKinds
  <2>2. adjustment[r].exists
    BY <1>4
  <2>3. CASE Approve(a) /\ approval'[a].applied = approval[a].applied
    BY <1>2, <2>1, <2>3 DEF Approve
  <2>4. CASE \E scope \in SUBSET Sales : Draft(a, scope)
    BY <1>1, <2>2, <2>4, BalanceDrafted
  <2> QED BY <1>1, <2>1, <2>2, <2>3, <2>4, BalanceCancelled
<1>5. CASE BatchSteps /\ adjustment[r].exists
  <2>1. approval' = approval
    BY <1>5, BatchKinds
  <2>2. CASE UNCHANGED <<adjustment, claim>>
    BY <1>2, <2>1, <2>2
  <2>3. adjustment[r].exists
    BY <1>5
  <2> QED BY <1>1, <1>5, <2>2, <2>3, ClaimKinds, BalanceReserved, BalanceEnded
<1>6. CASE UNCHANGED vars
  BY <1>2, <1>6 DEF vars
<1>7. adjustment[r].exists \/ RefundSteps
  BY AdjustmentsOpened DEF RefundSteps
<1> QED BY <1>3, <1>4, <1>5, <1>6, <1>7 DEF Next

-----------------------------------------------------------------------------
(* The theorems *)

\* Nothing has an amount at first.
LEMMA AmountInvInit == Init => AmountInv
<1> SUFFICES ASSUME Init PROVE AmountInv
  OBVIOUS
<1>1. Arrived = {} /\ \A r \in Refunds : ~adjustment[r].exists /\ refund[r].before = {}
  BY DEF Init, Arrived, NoRefund, NoAdjustment
<1>2. \A a \in Approvals : /\ approval[a].status = "none" /\ approval[a].before = {}
                           /\ approval[a].refunds = {}
                           /\ \A r \in Refunds : approval[a].applied[r] = 0
  BY DEF Init, Blank, Nothing
<1>3. \A b \in Batches : /\ batch[b].lines = {} /\ claim[b].status = "none"
                         /\ \A a \in Approvals, r \in Refunds : claim[b].amount[a][r] = 0
  BY DEF Init, NoBatch, NoClaim, Nothing
<1>4. ArrivedInv
  BY <1>1, <1>2, <1>3 DEF ArrivedInv, Init, NoArrival
<1>5. UnusedInv
  BY <1>2, <1>3 DEF UnusedInv
<1>6. OrderInv
  BY <1>1, <1>2 DEF OrderInv, Ordered, Approved
<1>7. Backed /\ Conserved
  BY <1>1, <1>3 DEF Backed, Conserved
<1> QED BY <1>4, <1>5, <1>6, <1>7 DEF AmountInv

\* AmountInv is inductive, together with IInv.
LEMMA AmountInvStep == IInv /\ AmountInv /\ [Next]_vars => AmountInv'
<1> SUFFICES ASSUME IInv, AmountInv, [Next]_vars PROVE AmountInv'
  OBVIOUS
<1>1. TypeOK /\ TypeOK' /\ LinesInv /\ ClaimsFollowBatch /\ RowsInv
  BY IInvStep DEF IInv, Safe
<1> QED BY <1>1, ArrivedInvStep, UnusedInvStep, OrderInvStep, BackedStep, ConservedStep DEF AmountInv

\* Both hold of every reachable state.
LEMMA AmountsInductive == Spec => [](IInv /\ AmountInv)
BY IInvInit, IInvStep, AmountInvInit, AmountInvStep, PTL DEF Spec

\* What a payout reserves, whatever the settlements, adjustments and
\* earlier claims are: of no refund more than is left of it, for no settlement
\* more than it pays, and altogether as much as the batch pays or all that is
\* left, whichever is less.
THEOREM AllocationExact ==
    ASSUME IInv, AmountInv, NEW lines \in SUBSET Lines,
           \A a \in ApprovalsOf(lines) : Approved(a) /\ Capacity(a, lines) >= 0
    PROVE  LET amount == Allocation(lines)
               left == Sum([r \in Refunds |-> AtLeastZero(Unreserved(r))], Refunds)
           IN  /\ \A r \in Refunds : ClaimOf(amount, r) <= Unreserved(r)
                                          \/ ClaimOf(amount, r) = 0
               /\ \A a \in ApprovalsOf(lines) : Sum(amount[a], Refunds) <= Capacity(a, lines)
               /\ OffsetTotal(amount) = IF Net(lines) < left THEN Net(lines) ELSE left
<1>1. TypeOK /\ RowsInv /\ ArrivedInv /\ OrderInv
  BY DEF IInv, AmountInv
<1>2. /\ \A r \in Refunds : Free[r] \in Nat /\ Sum(Free, refund[r].before) \in Nat
      /\ Arrived \in SUBSET Refunds /\ IsFiniteSet(Arrived)
  BY <1>1, FreeType, ConstantsAssumption, FS_Subset DEF Arrived
<1>3. Sum(Free, Refunds) = Sum(Free, Arrived)
  BY <1>1, <1>2, FreeArrived, ConstantsAssumption, SumRestrict
<1>4. Sum(Free, Arrived) \in Nat
  BY <1>2, SumNat
<1>5. ASSUME NEW r \in Refunds
      PROVE  ClaimOf(Allocation(lines), r) <= Unreserved(r) \/ ClaimOf(Allocation(lines), r) = 0
  <2>1. ClaimOf(Allocation(lines), r)
            = Clamp(Sum(Caps(lines), ApprovalsOf(lines)) - Sum(Free, refund[r].before), Free[r])
    BY <1>1, AllocationOfRefund
  <2>2. Sum(Caps(lines), ApprovalsOf(lines)) \in Nat
    BY <1>1, AllocationTotal
  <2>3. ClaimOf(Allocation(lines), r) <= Free[r] /\ ClaimOf(Allocation(lines), r) \in Nat
    BY <1>2, <2>1, <2>2 DEF Clamp
  <2>4. Free[r] = Unreserved(r) \/ Free[r] = 0
    BY DEF Free, AtLeastZero
  <2> QED BY <2>3, <2>4
<1>6. ASSUME NEW a \in ApprovalsOf(lines)
      PROVE  Sum(Allocation(lines)[a], Refunds) <= Capacity(a, lines)
  <2>1. PICK p \in Nat : Sum(Allocation(lines)[a], Refunds) = Clamp(Sum(Free, Arrived) - p, Caps(lines)[a])
    BY <1>1, AllocationOfApproval
  <2>2. a \in Approvals
    BY <1>1, BatchApprovals
  <2>3. Caps(lines)[a] = Capacity(a, lines) /\ Caps(lines)[a] \in Nat
    BY <1>1, <2>2, CapsType
  <2> QED BY <1>4, <2>1, <2>3 DEF Clamp
<1>7. OffsetTotal(Allocation(lines)) = IF Net(lines) < Sum(Free, Refunds) THEN Net(lines)
                                       ELSE Sum(Free, Refunds)
  <2>1. /\ OffsetTotal(Allocation(lines)) = Clamp(Sum(Free, Arrived), Net(lines))
        /\ Net(lines) \in Nat
    BY <1>1, AllocationTotal, NetByApproval
  <2> QED BY <1>3, <1>4, <2>1 DEF Clamp
<1> QED BY <1>5, <1>6, <1>7 DEF Free

\* However drafts, reservations, payouts and cancellations interleave, each
\* adjustment accounts for the whole refund: applied and remaining make it up,
\* the portions of standing settlements and the consumed claims make up what is
\* applied, and no more is reserved than remains.
THEOREM Conservation == Spec => []Conserved
<1>1. AmountInv => Conserved
  BY DEF AmountInv
<1> QED BY <1>1, AmountsInductive, PTL

\* No payout that consumes claims takes more off a settlement than it pays.
THEOREM NoNegativePayout == Spec => []NeverNegative
<1>1. IInv /\ AmountInv => NeverNegative
  <2> SUFFICES ASSUME IInv, AmountInv, NEW b \in Batches, Final(b),
                      claim[b].status = "FINALIZED", NEW a \in ApprovalsOf(batch[b].lines)
               PROVE  Sum(claim[b].amount[a], Refunds) <= Net({l \in batch[b].lines : l.approval = a})
    BY DEF NeverNegative
  <2>1. \A l \in batch[b].lines : Approved(l.approval)
    BY DEF IInv, Safe, PaidStaysApproved
  <2>2. Authority(batch[b].lines, claim[b].amount, FALSE)
    BY <2>1 DEF AmountInv, Backed, Active
  <2> QED BY <2>2 DEF Authority, Capacity
<1> QED BY <1>1, AmountsInductive, PTL

\* A batch in review can give its claims back as long as its settlements stand
\* and the adjustments of the vendor are sound.
THEOREM ClaimsNotStranded == Spec => []ReviewReleasable
<1>1. AmountInv => ReviewReleasable
  <2> SUFFICES ASSUME AmountInv, NEW b \in Batches, batch[b].status = "review", Holding(b),
                      AllVerified, \A l \in batch[b].lines : Approved(l.approval)
               PROVE  AuthorityOf(b, FALSE)
    BY DEF ReviewReleasable
  <2>1. Authority(batch[b].lines, claim[b].amount, FALSE)
    BY DEF AmountInv, Backed, Active, Open, Holding
  <2> QED BY <2>1 DEF AuthorityOf
<1> QED BY <1>1, AmountsInductive, PTL

=============================================================================
