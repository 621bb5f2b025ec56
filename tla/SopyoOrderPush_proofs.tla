------------------------- MODULE SopyoOrderPush_proofs -------------------------
(***************************************************************************)
(* Proofs about the Sopyo order push, for any number of rows and of calls  *)
(* of either kind.                                                         *)
(***************************************************************************)
EXTENDS SopyoOrderPush, TLAPS

-----------------------------------------------------------------------------
(* The inductive invariant *)

\* Exactly one order of ours, and nothing that could change it.
Created(p) ==
    /\ wire[p].made + (IF prior[p] = "api" THEN 1 ELSE 0) = 1
    /\ wire[p].odd = 0 /\ wire[p].flying = 0
    /\ prior[p] # "manual"

\* No POST created anything, and none is under way.
Nothing(p) == wire[p].flying = 0 /\ wire[p].made = 0 /\ wire[p].odd = 0

\* One POST at most, and none where there was an order before.
WireInv ==
    \A p \in Pushes :
        /\ Sent(p) <= 1
        /\ prior[p] # "none" => Sent(p) = 0

RowInv ==
    \A p \in Pushes :
        /\ row[p].status \in {"absent", "PENDING"} => Sent(p) = 0
        /\ row[p].status = "SUCCEEDED" => Created(p)
        /\ row[p].status = "BLOCKED" => Nothing(p)

\* What any call knows about its row, and how far a reconcile-only call gets.
CallInv ==
    \A c \in Calls :
        /\ At(c, "idle") <=> PushOf(c) = NoPush
        /\ c \in Reconcilers =>
              /\ call[c].pc \in {"idle", "prepare", "lookup", "finish"}
              /\ call[c].outcome # "BLOCKED"
        /\ At(c, "finish") =>
              /\ call[c].outcome \in {"SUCCEEDED", "BLOCKED", "RECONCILE_REQUIRED"}
              /\ call[c].outcome = "SUCCEEDED" => Created(PushOf(c))
              /\ call[c].outcome = "BLOCKED" => Nothing(PushOf(c))

\* A row has one sending call in its life, and that call is ahead of its POST
\* or has sent it.
SenderInv ==
    \A c \in Senders : ~At(c, "idle") =>
        /\ row[PushOf(c)].status \notin {"absent", "PENDING", "BLOCKED"}
        /\ call[c].pc \in {"prepare", "lookup", "recheck", "post"} => Sent(PushOf(c)) = 0
        /\ call[c].pc \in {"recheck", "post"} => prior[PushOf(c)] = "none"
        /\ \A d \in Senders : PushOf(d) = PushOf(c) => d = c

IInv == TypeOK /\ WireInv /\ RowInv /\ CallInv /\ SenderInv

-----------------------------------------------------------------------------
(* Type correctness *)

\* A call at work has a row.
LEMMA AtWork ==
    ASSUME TypeOK, CallInv, NEW c \in Calls, ~At(c, "idle")
    PROVE  /\ PushOf(c) \in Pushes
           /\ row[PushOf(c)] \in Rows
           /\ wire[PushOf(c)] \in Wires
BY DEF TypeOK, CallInv, CallStates, PushOf, At

\* Every reachable state has the types of TypeOK.
LEMMA TypeInit == Init => TypeOK
BY ConstantsAssumption
   DEF Init, TypeOK, Rows, Status, CallStates, Pc, Idle, Wires, Prior

\* The calls only move their program counter, or set an outcome.
LEMMA CallTypes ==
    /\ \A k \in CallStates, pc \in Pc : [k EXCEPT !.pc = pc] \in CallStates
    /\ \A k \in CallStates, s \in Status : [k EXCEPT !.pc = "finish", !.outcome = s] \in CallStates
    /\ \A p \in Pushes : [Idle EXCEPT !.pc = "prepare", !.push = p] \in CallStates
    /\ Idle \in CallStates
BY DEF CallStates, Pc, Status, Idle

\* Every step keeps the types.
LEMMA TypeStep == TypeOK /\ CallInv /\ [Next]_vars => TypeOK'
<1> SUFFICES ASSUME TypeOK, CallInv, [Next]_vars PROVE TypeOK'
  OBVIOUS
<1> USE DEF TypeOK
<1>m. ASSUME NEW c \in Calls, NEW pc \in Pc, MoveTo(c, pc)
      PROVE  call' \in [Calls -> CallStates] /\ UNCHANGED <<row, prior>>
  BY <1>m, CallTypes DEF MoveTo
<1>d. ASSUME NEW c \in Calls, NEW s \in Status, Decide(c, s) PROVE TypeOK'
  BY <1>d, CallTypes DEF Decide
<1>1. ASSUME NEW p \in Pushes, Enqueue(p) PROVE TypeOK'
  BY <1>1 DEF Enqueue, Rows, Status
<1>2. ASSUME NEW p \in Pushes, Process(p) PROVE TypeOK'
  <2>1. /\ wire[p].flying - 1 \in Nat /\ wire[p].made + 1 \in Nat
        /\ wire[p].odd + 1 \in Nat /\ wire[p].refused + 1 \in Nat
    BY <1>2 DEF Process, Wires
  <2>2. wire' \in [Pushes -> Wires]
    BY <1>2, <2>1 DEF Process, Wires
  <2> QED BY <1>2, <2>2 DEF Process
<1>3. ASSUME NEW c \in Calls, NEW p \in Pushes, Claim(c, p) PROVE TypeOK'
  <2>1. [status |-> "PROCESSING", token |-> c, age |-> StaleTicks] \in Rows
    BY ConstantsAssumption DEF Rows, Status
  <2> QED BY <1>3, <2>1, CallTypes DEF Claim
<1>4. ASSUME NEW c \in Calls, Progress(c) PROVE TypeOK'
  <2> USE DEF Pc, Status
  <2>1. CASE Prepare(c)
    BY <1>m, <1>d, <2>1 DEF Prepare, Setback
  <2>2. CASE Lookup(c)
    BY <1>m, <1>d, <2>2 DEF Lookup, Setback
  <2>3. CASE Recheck(c)
    BY <1>m, <1>d, <2>3 DEF Recheck
  <2>4. CASE SendPost(c)
    <3>1. PushOf(c) \in Pushes /\ wire[PushOf(c)] \in Wires
      BY <2>4, AtWork DEF SendPost, At
    <3>2. [wire[PushOf(c)] EXCEPT !.flying = @ + 1] \in Wires
      BY <3>1 DEF Wires
    <3>3. wire' \in [Pushes -> Wires]
      BY <2>4, <3>1, <3>2 DEF SendPost
    <3> QED BY <1>m, <2>4, <3>3 DEF SendPost
  <2>5. CASE PostCreated(c) \/ PostConflicts(c) \/ PostRejected(c)
    BY <1>d, <2>5 DEF PostCreated, PostConflicts, PostRejected
  <2>6. CASE PostAmbiguous(c)
    BY <1>m, <2>6 DEF PostAmbiguous
  <2>7. CASE LookAgain(c)
    BY <1>d, <2>7 DEF LookAgain
  <2>8. CASE Finish(c)
    <3>1. call' \in [Calls -> CallStates] /\ UNCHANGED <<wire, prior>>
      BY <2>8, CallTypes DEF Finish
    <3>2. PushOf(c) \in Pushes /\ row[PushOf(c)] \in Rows /\ call[c].outcome \in Status
      BY <2>8, AtWork DEF Finish, At, CallStates
    <3>3. [row[PushOf(c)] EXCEPT !.status = call[c].outcome, !.token = NoCall] \in Rows
      BY <3>2 DEF Rows
    <3>4. row' \in [Pushes -> Rows]
      BY <2>8, <3>2, <3>3 DEF Finish
    <3> QED BY <3>1, <3>4
  <2> QED BY <1>4, <2>1, <2>2, <2>3, <2>4, <2>5, <2>6, <2>7, <2>8 DEF Progress
<1>5. ASSUME NEW c \in Calls, Crash(c) PROVE TypeOK'
  BY <1>5, CallTypes DEF Crash
<1>6. CASE Tick
  <2>1. \A t \in 0..StaleTicks : Sooner(t) \in 0..StaleTicks
    BY ConstantsAssumption DEF Sooner
  <2>2. \A p \in Pushes : [row[p] EXCEPT !.age = Sooner(@)] \in Rows
    BY <2>1 DEF Rows
  <2> QED BY <1>6, <2>2 DEF Tick
<1>7. CASE UNCHANGED vars
  BY <1>7 DEF vars
<1> QED
  BY <1>1, <1>2, <1>3, <1>4, <1>5, <1>6, <1>7 DEF Next, ClaimPending, ClaimReconcile

-----------------------------------------------------------------------------
(* Preservation *)

\* The rest of the invariant.
FlowInv == WireInv /\ RowInv /\ CallInv /\ SenderInv

\* Nothing has been claimed or sent yet.
LEMMA FlowInit == Init => FlowInv
<1> SUFFICES ASSUME Init PROVE FlowInv
  OBVIOUS
<1>1. \A c \in Calls : call[c] = Idle
  BY DEF Init
<1>2. WireInv /\ RowInv
  BY DEF Init, WireInv, RowInv, Sent
<1>3. CallInv
  BY <1>1 DEF CallInv, At, PushOf, Idle
<1>4. SenderInv
  BY <1>1 DEF SenderInv, At, Idle, Calls
<1> QED BY <1>2, <1>3, <1>4 DEF FlowInv

\* A step that only moves one call, to a state that is true of its order code.
LEMMA CallKeeps ==
    ASSUME IInv, NEW c \in Calls, NEW k, call' = [call EXCEPT ![c] = k],
           UNCHANGED <<row, wire, prior>>,
           ~At(c, "idle"), k.pc # "idle", k.push = PushOf(c),
           c \in Reconcilers =>
              k.pc \in {"prepare", "lookup", "finish"} /\ k.outcome # "BLOCKED",
           k.pc = "finish" =>
              /\ k.outcome \in {"SUCCEEDED", "BLOCKED", "RECONCILE_REQUIRED"}
              /\ k.outcome = "SUCCEEDED" => Created(PushOf(c))
              /\ k.outcome = "BLOCKED" => Nothing(PushOf(c)),
           c \in Senders =>
              /\ k.pc \in {"prepare", "lookup", "recheck", "post"} => Sent(PushOf(c)) = 0
              /\ k.pc \in {"recheck", "post"} => prior[PushOf(c)] = "none"
    PROVE  FlowInv'
<1> USE DEF IInv
<1>1. call'[c] = k /\ \A d \in Calls : d # c => call'[d] = call[d]
  BY DEF TypeOK
<1>2. \A d \in Calls : call'[d].push = call[d].push
  BY <1>1 DEF PushOf
<1>3. WireInv' /\ RowInv'
  BY DEF WireInv, RowInv, Sent, Created, Nothing
<1>4. CallInv'
  <2> SUFFICES ASSUME NEW d \in Calls PROVE
        /\ call'[d].pc = "idle" <=> call'[d].push = NoPush
        /\ d \in Reconcilers =>
              /\ call'[d].pc \in {"idle", "prepare", "lookup", "finish"}
              /\ call'[d].outcome # "BLOCKED"
        /\ call'[d].pc = "finish" =>
              /\ call'[d].outcome \in {"SUCCEEDED", "BLOCKED", "RECONCILE_REQUIRED"}
              /\ call'[d].outcome = "SUCCEEDED" => Created(PushOf(d))
              /\ call'[d].outcome = "BLOCKED" => Nothing(PushOf(d))
    BY <1>2 DEF CallInv, At, PushOf, Created, Nothing
  <2>1. CASE d = c
    BY <1>1, <2>1 DEF CallInv, At, PushOf
  <2>2. CASE d # c
    BY <1>1, <2>2 DEF CallInv, At, PushOf
  <2> QED BY <2>1, <2>2
<1>5. SenderInv'
  <2> SUFFICES ASSUME NEW d \in Senders, call'[d].pc # "idle" PROVE
        /\ row[PushOf(d)].status \notin {"absent", "PENDING", "BLOCKED"}
        /\ call'[d].pc \in {"prepare", "lookup", "recheck", "post"} => Sent(PushOf(d)) = 0
        /\ call'[d].pc \in {"recheck", "post"} => prior[PushOf(d)] = "none"
        /\ \A e \in Senders : PushOf(e) = PushOf(d) => e = d
    BY <1>2 DEF SenderInv, PushOf, Sent, Calls, At
  <2>1. ~At(d, "idle")
    BY <1>1 DEF At, Calls
  <2> QED BY <1>1, <2>1 DEF SenderInv, Calls
<1> QED BY <1>3, <1>4, <1>5 DEF FlowInv

\* A call decides on a status that is true of its order code.
LEMMA DecideKeeps ==
    ASSUME IInv, NEW c \in Calls, NEW s, ~At(c, "idle"), Decide(c, s),
           s \in {"SUCCEEDED", "BLOCKED", "RECONCILE_REQUIRED"},
           s = "SUCCEEDED" => Created(PushOf(c)),
           s = "BLOCKED" => Nothing(PushOf(c)) /\ c \notin Reconcilers
    PROVE  FlowInv'
<1> DEFINE k == [call[c] EXCEPT !.pc = "finish", !.outcome = s]
<1>1. k.pc = "finish" /\ k.outcome = s /\ k.push = PushOf(c)
  BY DEF IInv, TypeOK, CallStates, PushOf
<1>2. call' = [call EXCEPT ![c] = k] /\ UNCHANGED <<row, wire, prior>>
  BY DEF Decide
<1> HIDE DEF k
<1> QED BY <1>1, <1>2, CallKeeps

\* A call goes on, and what the next step may take for granted is true.
LEMMA MoveKeeps ==
    ASSUME IInv, NEW c \in Calls, NEW pc, ~At(c, "idle"), MoveTo(c, pc), UNCHANGED wire,
           pc \in {"lookup", "recheck", "post", "lookAgain"},
           c \in Reconcilers => pc = "lookup",
           c \in Senders /\ pc # "lookAgain" => Sent(PushOf(c)) = 0,
           pc \in {"recheck", "post"} => prior[PushOf(c)] = "none"
    PROVE  FlowInv'
<1> DEFINE k == [call[c] EXCEPT !.pc = pc]
<1>1. k.pc = pc /\ k.outcome = call[c].outcome /\ k.push = PushOf(c)
  BY DEF IInv, TypeOK, CallStates, PushOf
<1>2. call' = [call EXCEPT ![c] = k] /\ UNCHANGED <<row, wire, prior>>
  BY DEF MoveTo
<1>3. c \in Reconcilers => k.outcome # "BLOCKED"
  BY <1>1 DEF IInv, CallInv
<1> HIDE DEF k
<1> QED BY <1>1, <1>2, <1>3, CallKeeps

\* The counts of POSTs add up.
LEMMA Counts ==
    ASSUME NEW p \in Pushes, wire[p] \in Wires
    PROVE  /\ wire[p].flying \in Nat /\ wire[p].made \in Nat
           /\ wire[p].odd \in Nat /\ wire[p].refused \in Nat
           /\ Sent(p) = 0 => /\ Nothing(p)
                             /\ wire[p].refused = 0
           /\ Sent(p) <= 1 /\ wire[p].made > 0 =>
                 wire[p].made = 1 /\ wire[p].flying = 0 /\ wire[p].odd = 0
           /\ Sent(p) <= 1 /\ wire[p].refused > 0 => Nothing(p)
<1> DEFINE f == wire[p].flying
           m == wire[p].made
           o == wire[p].odd
           r == wire[p].refused
<1>1. f \in Nat /\ m \in Nat /\ o \in Nat /\ r \in Nat
  BY DEF Wires
<1>2. Sent(p) = f + m + o + r
  BY DEF Sent
<1>3. Nothing(p) <=> f = 0 /\ m = 0 /\ o = 0
  BY DEF Nothing
<1> HIDE DEF f, m, o, r
<1>4. /\ Sent(p) = 0 => f = 0 /\ m = 0 /\ o = 0 /\ r = 0
      /\ Sent(p) <= 1 /\ m > 0 => m = 1 /\ f = 0 /\ o = 0
      /\ Sent(p) <= 1 /\ r > 0 => f = 0 /\ m = 0 /\ o = 0
  BY <1>1, <1>2
<1> QED BY <1>1, <1>3, <1>4 DEF f, m, o, r

\* What a lookup finds is there.
LEMMA AnswersAreTrue ==
    ASSUME NEW p \in Pushes, wire[p] \in Wires, prior[p] \in Prior,
           Sent(p) <= 1, prior[p] # "none" => Sent(p) = 0,
           NEW a \in Answers(p)
    PROVE  /\ OneOfOurs(a) => Created(p)
           /\ Empty(a) => prior[p] = "none"
<1>1. PICK m \in 0..wire[p].made, o \in 0..wire[p].odd :
        a = [ours   |-> m + (IF prior[p] = "api" THEN 1 ELSE 0),
             others |-> o + (IF prior[p] = "manual" THEN 1 ELSE 0)]
  BY DEF Answers
<1>2. /\ a.ours = m + (IF prior[p] = "api" THEN 1 ELSE 0)
      /\ a.others = o + (IF prior[p] = "manual" THEN 1 ELSE 0)
  BY <1>1
<1>3. /\ wire[p].made \in Nat /\ wire[p].odd \in Nat /\ m \in Nat /\ o \in Nat
      /\ m <= wire[p].made
  BY Counts
<1>4. ASSUME OneOfOurs(a) PROVE Created(p)
  <2>1. prior[p] # "manual"
    BY <1>2, <1>3, <1>4 DEF OneOfOurs
  <2>2. CASE prior[p] = "api"
    BY <2>2, Counts DEF Created, Nothing
  <2>3. CASE prior[p] = "none"
    <3>1. wire[p].made > 0
      BY <1>2, <1>3, <1>4, <2>3 DEF OneOfOurs
    <3> QED BY <2>3, <3>1, Counts DEF Created
  <2> QED BY <2>1, <2>2, <2>3 DEF Prior
<1>5. ASSUME Empty(a) PROVE prior[p] = "none"
  BY <1>2, <1>3, <1>5 DEF Empty, Prior
<1> QED BY <1>4, <1>5

\* What the steps of a call decide is true, and what they go on from is, too.
LEMMA ProgressKeeps ==
    ASSUME IInv, NEW c \in Calls, Progress(c), ~SendPost(c), ~Finish(c)
    PROVE  FlowInv'
<1> DEFINE p == PushOf(c)
<1>1. p \in Pushes /\ wire[p] \in Wires /\ ~At(c, "idle")
  BY AtWork DEF IInv, Progress, Prepare, Lookup, Recheck, PostCreated, PostConflicts,
                PostRejected, PostAmbiguous, LookAgain, At
<1>2. Sent(p) <= 1 /\ (prior[p] # "none" => Sent(p) = 0) /\ prior[p] \in Prior
  BY <1>1 DEF IInv, WireInv, TypeOK
<1>3. c \in Reconcilers => call[c].pc \in {"prepare", "lookup", "finish"}
  BY <1>1 DEF IInv, CallInv, At
<1>4. c \in Senders =>
        /\ call[c].pc \in {"prepare", "lookup", "recheck", "post"} => Sent(p) = 0
        /\ call[c].pc \in {"recheck", "post"} => prior[p] = "none"
  BY <1>1 DEF IInv, SenderInv
<1>5. c \notin Reconcilers => c \in Senders
  BY DEF Calls
<1>6. Sent(p) = 0 => Nothing(p)
  BY <1>1, Counts
<1>8. \A a \in Answers(p) : OneOfOurs(a) => Created(p)
  BY <1>1, <1>2, AnswersAreTrue
<1>9. \A a \in Answers(p) : Empty(a) => prior[p] = "none"
  BY <1>1, <1>2, AnswersAreTrue
<1>10. Setback(c) \in {"BLOCKED", "RECONCILE_REQUIRED"}
       /\ (Setback(c) = "BLOCKED" => c \notin Reconcilers)
  BY DEF Setback
<1>11. CASE Prepare(c)
  <2>1. At(c, "prepare")
    BY <1>11 DEF Prepare
  <2>2. CASE MoveTo(c, "lookup") /\ UNCHANGED wire
    BY <1>1, <1>4, <2>1, <2>2, MoveKeeps DEF At
  <2>3. CASE Decide(c, Setback(c))
    BY <1>1, <1>4, <1>5, <1>6, <1>10, <2>1, <2>3, DecideKeeps DEF At
  <2> QED BY <1>11, <2>2, <2>3 DEF Prepare
<1>12. CASE Lookup(c)
  <2>1. At(c, "lookup")
    BY <1>12 DEF Lookup
  <2>2. ASSUME NEW a \in Answers(p), GoesOn(c, a), MoveTo(c, "recheck"), UNCHANGED wire
        PROVE  FlowInv'
    <3>1. c \in Senders /\ c \notin Reconcilers /\ prior[p] = "none"
      BY <1>9, <2>2, ConstantsAssumption DEF GoesOn, ConstantsAssumption
    <3> QED BY <1>1, <1>4, <2>1, <2>2, <3>1, MoveKeeps DEF At
  <2>3. ASSUME NEW a \in Answers(p), OneOfOurs(a), Decide(c, "SUCCEEDED") PROVE FlowInv'
    BY <1>1, <1>8, <2>3, DecideKeeps
  <2>4. CASE Decide(c, "RECONCILE_REQUIRED")
    BY <1>1, <2>4, DecideKeeps
  <2>5. CASE Decide(c, Setback(c))
    BY <1>1, <1>4, <1>5, <1>6, <1>10, <2>1, <2>5, DecideKeeps DEF At
  <2> QED BY <1>12, <2>2, <2>3, <2>4, <2>5 DEF Lookup
<1>13. CASE Recheck(c)
  <2>1. At(c, "recheck") /\ c \notin Reconcilers /\ c \in Senders
    BY <1>3, <1>5, <1>13 DEF Recheck, At
  <2>2. CASE MoveTo(c, "post") /\ UNCHANGED wire
    BY <1>1, <1>4, <2>1, <2>2, MoveKeeps DEF At
  <2>3. CASE Decide(c, "BLOCKED")
    BY <1>1, <1>4, <1>6, <2>1, <2>3, DecideKeeps DEF At
  <2> QED BY <1>13, <2>2, <2>3 DEF Recheck
<1>14. CASE PostCreated(c)
  <2>1. Created(p)
    <3>1. wire[p].made = 1 /\ wire[p].flying = 0 /\ wire[p].odd = 0
      BY <1>1, <1>2, <1>14, Counts DEF PostCreated
    <3>2. prior[p] = "none"
      BY <1>1, <1>2, <3>1, Counts DEF Nothing
    <3> QED BY <3>1, <3>2 DEF Created
  <2> QED BY <1>1, <1>14, <2>1, DecideKeeps DEF PostCreated
<1>15. CASE PostConflicts(c)
  BY <1>1, <1>15, DecideKeeps DEF PostConflicts
<1>16. CASE PostRejected(c)
  <2>1. Nothing(p) /\ c \notin Reconcilers
    BY <1>1, <1>2, <1>3, <1>16, Counts DEF PostRejected, At
  <2> QED BY <1>1, <1>16, <2>1, DecideKeeps DEF PostRejected
<1>17. CASE PostAmbiguous(c)
  <2>1. c \notin Reconcilers
    BY <1>3, <1>17 DEF PostAmbiguous, At
  <2> QED BY <1>1, <1>17, <2>1, MoveKeeps DEF PostAmbiguous
<1>18. CASE LookAgain(c)
  <2>1. ASSUME NEW a \in Answers(p), OneOfOurs(a), Decide(c, "SUCCEEDED") PROVE FlowInv'
    BY <1>1, <1>8, <2>1, DecideKeeps
  <2>2. CASE Decide(c, "RECONCILE_REQUIRED")
    BY <1>1, <2>2, DecideKeeps
  <2> QED BY <1>18, <2>1, <2>2 DEF LookAgain
<1> QED
  BY <1>11, <1>12, <1>13, <1>14, <1>15, <1>16, <1>17, <1>18 DEF Progress

\* The POST is the first one for its order code, and finds nothing there.
LEMMA PostKeeps ==
    ASSUME IInv, NEW c \in Calls, SendPost(c)
    PROVE  FlowInv'
<1> DEFINE p == PushOf(c)
<1>1. p \in Pushes /\ wire[p] \in Wires /\ ~At(c, "idle") /\ call[c].pc = "post"
  BY AtWork DEF IInv, SendPost, At
<1>2. c \in Senders /\ c \notin Reconcilers
  BY <1>1 DEF IInv, CallInv, Calls
<1>3. /\ Sent(p) = 0 /\ prior[p] = "none"
      /\ row[p].status \notin {"absent", "PENDING", "BLOCKED"}
      /\ \A d \in Senders : PushOf(d) = p => d = c
  BY <1>1, <1>2 DEF IInv, SenderInv
<1>4. /\ wire' = [wire EXCEPT ![p] = [wire[p] EXCEPT !.flying = @ + 1]]
      /\ call' = [call EXCEPT ![c] = [call[c] EXCEPT !.pc = "posted"]]
      /\ UNCHANGED <<row, prior>>
  BY DEF SendPost, MoveTo
<1>5. /\ call'[c].pc = "posted" /\ call'[c].outcome = call[c].outcome
      /\ \A d \in Calls : call'[d].push = call[d].push /\ (d # c => call'[d] = call[d])
  BY <1>4 DEF IInv, TypeOK, CallStates
<1>6. Sent(p)' = 1 /\ \A q \in Pushes : q # p => wire'[q] = wire[q]
  <2>1. /\ wire'[p] = [wire[p] EXCEPT !.flying = @ + 1]
        /\ \A q \in Pushes : q # p => wire'[q] = wire[q]
    BY <1>1, <1>4 DEF IInv, TypeOK
  <2>2. /\ wire'[p].flying = wire[p].flying + 1 /\ wire'[p].made = wire[p].made
        /\ wire'[p].odd = wire[p].odd /\ wire'[p].refused = wire[p].refused
    BY <1>1, <2>1 DEF Wires
  <2>3. wire[p].flying = 0 /\ wire[p].made = 0 /\ wire[p].odd = 0 /\ wire[p].refused = 0
    BY <1>1, <1>3, Counts DEF Nothing
  <2>4. wire'[p].flying + wire'[p].made + wire'[p].odd + wire'[p].refused = 1
    BY <2>2, <2>3
  <2>5. PushOf(c)' = p
    BY <1>5 DEF PushOf
  <2> QED BY <2>1, <2>4, <2>5 DEF Sent
<1>7. PushOf(c)' = p
  BY <1>5 DEF PushOf
<1>8. ~Created(p)
  BY <1>1, <1>3, Counts DEF Created, Nothing
<1>9. WireInv'
  BY <1>3, <1>4, <1>6, <1>7 DEF IInv, WireInv, Sent
<1>10. RowInv'
  BY <1>3, <1>4, <1>6, <1>7, <1>8 DEF IInv, RowInv, Sent, Created, Nothing
<1>11. CallInv'
  <2> SUFFICES ASSUME NEW d \in Calls PROVE
        /\ call'[d].pc = "idle" <=> call'[d].push = NoPush
        /\ d \in Reconcilers =>
              /\ call'[d].pc \in {"idle", "prepare", "lookup", "finish"}
              /\ call'[d].outcome # "BLOCKED"
        /\ call'[d].pc = "finish" =>
              /\ call'[d].outcome \in {"SUCCEEDED", "BLOCKED", "RECONCILE_REQUIRED"}
              /\ call'[d].outcome = "SUCCEEDED" => Created(PushOf(d))'
              /\ call'[d].outcome = "BLOCKED" => Nothing(PushOf(d))'
    BY DEF CallInv, At, PushOf
  <2>1. CASE d = c
    BY <1>1, <1>2, <1>5, <2>1 DEF IInv, CallInv, At, PushOf
  <2>2. CASE d # c
    <3>1. call'[d] = call[d]
      BY <1>5, <2>2
    <3>2. call[d].pc = "finish" => PushOf(d) \in Pushes
      BY AtWork DEF IInv, At
    <3>3. call[d].pc = "finish" /\ PushOf(d) = p =>
             call[d].outcome \notin {"SUCCEEDED", "BLOCKED"}
      BY <1>3, <1>8, <2>2 DEF IInv, CallInv, At, Calls
    <3>4. call[d].pc = "finish" /\ PushOf(d) # p => wire'[PushOf(d)] = wire[PushOf(d)]
      BY <1>6, <3>2
    <3>5. PushOf(d)' = PushOf(d)
      BY <3>1 DEF PushOf
    <3>6. /\ call[d].pc = "idle" <=> call[d].push = NoPush
          /\ d \in Reconcilers =>
                /\ call[d].pc \in {"idle", "prepare", "lookup", "finish"}
                /\ call[d].outcome # "BLOCKED"
          /\ call[d].pc = "finish" =>
                /\ call[d].outcome \in {"SUCCEEDED", "BLOCKED", "RECONCILE_REQUIRED"}
                /\ call[d].outcome = "SUCCEEDED" => Created(PushOf(d))
                /\ call[d].outcome = "BLOCKED" => Nothing(PushOf(d))
      BY DEF IInv, CallInv, At, PushOf
    <3> QED BY <1>4, <3>1, <3>3, <3>4, <3>5, <3>6 DEF Created, Nothing
  <2> QED BY <2>1, <2>2
<1>12. SenderInv'
  <2> SUFFICES ASSUME NEW d \in Senders, call'[d].pc # "idle" PROVE
        /\ row[PushOf(d)].status \notin {"absent", "PENDING", "BLOCKED"}
        /\ call'[d].pc \in {"prepare", "lookup", "recheck", "post"} => Sent(PushOf(d))' = 0
        /\ call'[d].pc \in {"recheck", "post"} => prior[PushOf(d)] = "none"
        /\ \A e \in Senders : PushOf(e) = PushOf(d) => e = d
    BY <1>4, <1>5 DEF SenderInv, PushOf, Calls, At
  <2>1. CASE d = c
    BY <1>1, <1>2, <1>3, <1>5, <2>1
  <2>2. CASE d # c
    <3>1. call'[d] = call[d] /\ ~At(d, "idle") /\ PushOf(d) # p /\ d \in Calls
      BY <1>3, <1>5, <2>2 DEF At, Calls
    <3>2. PushOf(d)' = PushOf(d) /\ wire'[PushOf(d)] = wire[PushOf(d)]
      BY <1>6, <3>1, AtWork DEF IInv, PushOf
    <3> QED BY <3>1, <3>2 DEF IInv, SenderInv, Sent
  <2> QED BY <2>1, <2>2
<1> QED BY <1>9, <1>10, <1>11, <1>12 DEF FlowInv

\* A claim opens a call that knows nothing yet; a sending one finds nothing sent.
LEMMA ClaimKeeps ==
    ASSUME IInv, NEW c \in Calls, NEW p \in Pushes, ClaimPending(c, p) \/ ClaimReconcile(c, p)
    PROVE  FlowInv'
<1>1. /\ At(c, "idle")
      /\ row'[p].status = "PROCESSING" /\ \A q \in Pushes : q # p => row'[q] = row[q]
      /\ call'[c].pc = "prepare" /\ call'[c].push = p /\ call'[c].outcome = "absent"
      /\ \A d \in Calls : d # c => call'[d] = call[d]
      /\ UNCHANGED <<wire, prior>>
  <2>1. Claim(c, p)
    BY DEF ClaimPending, ClaimReconcile
  <2>2. /\ row'[p] = [status |-> "PROCESSING", token |-> c, age |-> StaleTicks]
        /\ \A q \in Pushes : q # p => row'[q] = row[q]
    BY <2>1 DEF Claim, IInv, TypeOK
  <2>3. /\ call'[c] = [Idle EXCEPT !.pc = "prepare", !.push = p]
        /\ \A d \in Calls : d # c => call'[d] = call[d]
    BY <2>1 DEF Claim, IInv, TypeOK
  <2>4. call'[c].pc = "prepare" /\ call'[c].push = p /\ call'[c].outcome = "absent"
    BY <2>3 DEF Idle
  <2> QED BY <2>1, <2>2, <2>3, <2>4 DEF Claim
<1>2. row[p].status \notin {"absent", "SUCCEEDED", "BLOCKED"}
  BY DEF ClaimPending, ClaimReconcile, Reconcilable
<1>3. WireInv'
  BY <1>1 DEF IInv, WireInv, Sent
<1>4. RowInv'
  BY <1>1 DEF IInv, RowInv, Sent, Created, Nothing
<1>5. CallInv'
  <2>1. p # NoPush
    BY ConstantsAssumption DEF ConstantsAssumption
  <2> SUFFICES ASSUME NEW d \in Calls PROVE
        /\ call'[d].pc = "idle" <=> call'[d].push = NoPush
        /\ d \in Reconcilers =>
              /\ call'[d].pc \in {"idle", "prepare", "lookup", "finish"}
              /\ call'[d].outcome # "BLOCKED"
        /\ call'[d].pc = "finish" =>
              /\ call'[d].outcome \in {"SUCCEEDED", "BLOCKED", "RECONCILE_REQUIRED"}
              /\ call'[d].outcome = "SUCCEEDED" => Created(PushOf(d))'
              /\ call'[d].outcome = "BLOCKED" => Nothing(PushOf(d))'
    BY DEF CallInv, At, PushOf
  <2>2. CASE d = c
    BY <1>1, <2>1, <2>2
  <2>3. CASE d # c
    BY <1>1, <2>3 DEF IInv, CallInv, At, PushOf, Created, Nothing
  <2> QED BY <2>2, <2>3
<1>6. SenderInv'
  <2> SUFFICES ASSUME NEW d \in Senders, call'[d].pc # "idle" PROVE
        /\ row'[call'[d].push].status \notin {"absent", "PENDING", "BLOCKED"}
        /\ call'[d].pc \in {"prepare", "lookup", "recheck", "post"} => Sent(call'[d].push) = 0
        /\ call'[d].pc \in {"recheck", "post"} => prior[call'[d].push] = "none"
        /\ \A e \in Senders : call'[e].push = call'[d].push => e = d
    BY <1>1 DEF SenderInv, PushOf, Sent, At
  <2>1. CASE c \in Senders
    <3>1. row[p].status = "PENDING"
      BY <2>1, ConstantsAssumption DEF ClaimPending, ClaimReconcile, ConstantsAssumption
    <3>2. Sent(p) = 0
      BY <3>1 DEF IInv, RowInv
    <3>3. \A e \in Senders : call[e].pc # "idle" => call[e].push # p
      BY <3>1 DEF IInv, SenderInv, PushOf, At
    <3>4. \A e \in Senders : call[e].push = p => call[e].pc # "idle"
      BY ConstantsAssumption DEF IInv, CallInv, PushOf, At, Calls, ConstantsAssumption
    <3>5. \A e \in Senders : e # c => call'[e] = call[e] /\ call[e].push # p
      BY <1>1, <3>3, <3>4 DEF Calls
    <3>6. CASE d = c
      BY <1>1, <3>2, <3>5, <3>6
    <3>7. CASE d # c
      <4>1. call[d].pc # "idle" /\ call'[d] = call[d] /\ call[d].push # p
        BY <3>5, <3>7
      <4>2. call[d].push \in Pushes
        BY <4>1, AtWork DEF IInv, At, PushOf, Calls
      <4>3. \A e \in Senders : call'[e].push = call[d].push => e = d
        BY <1>1, <3>5, <4>1 DEF IInv, SenderInv, PushOf, At
      <4> QED BY <1>1, <4>1, <4>2, <4>3 DEF IInv, SenderInv, PushOf, At
    <3> QED BY <3>6, <3>7
  <2>2. CASE c \notin Senders
    <3>1. \A e \in Senders : call'[e] = call[e]
      BY <1>1, <2>2 DEF Calls
    <3>2. call[d].push \in Pushes
      BY <3>1, AtWork DEF IInv, At, PushOf, Calls
    <3> QED BY <1>1, <3>1, <3>2 DEF IInv, SenderInv, PushOf, At
  <2> QED BY <2>1, <2>2
<1> QED BY <1>3, <1>4, <1>5, <1>6 DEF FlowInv

\* A call ends, and no row is turned into one its invariant forbids: by a crash,
\* or by finish, which writes what the call has found out.
LEMMA EndKeeps ==
    ASSUME IInv, NEW c \in Calls, ~At(c, "idle"),
           call' = [call EXCEPT ![c] = Idle], UNCHANGED <<wire, prior>>,
           \A p \in Pushes :
              \/ row'[p] = row[p]
              \/ /\ p = PushOf(c) /\ At(c, "finish")
                 /\ row'[p].status = call[c].outcome
    PROVE  FlowInv'
<1>1. call'[c] = Idle /\ \A d \in Calls : d # c => call'[d] = call[d]
  BY DEF IInv, TypeOK
<1>2. WireInv'
  BY DEF IInv, WireInv, Sent
<1>3. At(c, "finish") =>
        /\ call[c].outcome \in {"SUCCEEDED", "BLOCKED", "RECONCILE_REQUIRED"}
        /\ call[c].outcome = "SUCCEEDED" => Created(PushOf(c))
        /\ call[c].outcome = "BLOCKED" => Nothing(PushOf(c)) /\ c \notin Reconcilers
  BY DEF IInv, CallInv
<1>4. RowInv'
  BY <1>3 DEF IInv, RowInv, Sent, Created, Nothing
<1>5. CallInv'
  <2>1. call'[c].pc = "idle" /\ call'[c].push = NoPush /\ call'[c].outcome = "absent"
    BY <1>1 DEF Idle
  <2> SUFFICES ASSUME NEW d \in Calls PROVE
        /\ call'[d].pc = "idle" <=> call'[d].push = NoPush
        /\ d \in Reconcilers =>
              /\ call'[d].pc \in {"idle", "prepare", "lookup", "finish"}
              /\ call'[d].outcome # "BLOCKED"
        /\ call'[d].pc = "finish" =>
              /\ call'[d].outcome \in {"SUCCEEDED", "BLOCKED", "RECONCILE_REQUIRED"}
              /\ call'[d].outcome = "SUCCEEDED" => Created(PushOf(d))'
              /\ call'[d].outcome = "BLOCKED" => Nothing(PushOf(d))'
    BY DEF CallInv, At, PushOf
  <2>2. CASE d = c
    BY <2>1, <2>2
  <2>3. CASE d # c
    BY <1>1, <2>3 DEF IInv, CallInv, At, PushOf, Created, Nothing
  <2> QED BY <2>2, <2>3
<1>6. SenderInv'
  <2> SUFFICES ASSUME NEW d \in Senders, call'[d].pc # "idle" PROVE
        /\ row'[call'[d].push].status \notin {"absent", "PENDING", "BLOCKED"}
        /\ call'[d].pc \in {"prepare", "lookup", "recheck", "post"} => Sent(call'[d].push) = 0
        /\ call'[d].pc \in {"recheck", "post"} => prior[call'[d].push] = "none"
        /\ \A e \in Senders : call'[e].push = call'[d].push => e = d
    BY DEF SenderInv, PushOf, Sent, At
  <2>1. d # c /\ call'[d] = call[d] /\ d \in Calls
    BY <1>1 DEF Idle, Calls
  <2>2. call[d].push \in Pushes /\ call[d].push # NoPush
    BY <2>1, AtWork, ConstantsAssumption DEF IInv, At, PushOf, ConstantsAssumption
  <2>3. \A e \in Senders : call'[e].push = call[d].push => e = d
    <3>1. call'[c].push = NoPush
      BY <1>1 DEF Idle
    <3> QED BY <1>1, <2>1, <2>2, <3>1 DEF IInv, SenderInv, PushOf, At, Calls
  <2>4. row'[call[d].push].status \notin {"absent", "PENDING", "BLOCKED"}
    <3>1. row[call[d].push].status \notin {"absent", "PENDING", "BLOCKED"}
      BY <2>1 DEF IInv, SenderInv, PushOf, At
    <3>2. call[d].push = PushOf(c) => c \notin Senders
      BY <2>1 DEF IInv, SenderInv, PushOf, At
    <3> QED BY <1>3, <2>2, <3>1, <3>2 DEF Calls
  <2> QED BY <2>1, <2>3, <2>4 DEF IInv, SenderInv, PushOf, At
<1> QED BY <1>2, <1>4, <1>5, <1>6 DEF FlowInv

\* The last write of a call keeps the invariant: what it writes is true by then.
LEMMA FinishKeeps == ASSUME IInv, NEW c \in Calls, Finish(c) PROVE FlowInv'
<1>1. ~At(c, "idle") /\ At(c, "finish")
  BY DEF Finish, At
<1>2. PushOf(c) \in Pushes /\ row[PushOf(c)] \in Rows
  BY <1>1, AtWork DEF IInv
<1>3. \A p \in Pushes :
        \/ row'[p] = row[p]
        \/ p = PushOf(c) /\ row'[p].status = call[c].outcome
  <2>1. CASE Owns(c)
    <3>1. row' = [row EXCEPT ![PushOf(c)] =
                    [row[PushOf(c)] EXCEPT !.status = call[c].outcome, !.token = NoCall]]
      BY <1>2, <2>1 DEF Finish, IInv, TypeOK
    <3>2. [row[PushOf(c)] EXCEPT !.status = call[c].outcome, !.token = NoCall].status
            = call[c].outcome
      BY <1>2 DEF Rows
    <3> QED BY <1>2, <3>1, <3>2 DEF IInv, TypeOK
  <2>2. CASE ~Owns(c)
    BY <2>2 DEF Finish
  <2> QED BY <2>1, <2>2
<1> QED BY <1>1, <1>3, EndKeeps DEF Finish

\* A call that dies leaves true what the others know.
LEMMA CrashKeeps == ASSUME IInv, NEW c \in Calls, Crash(c) PROVE FlowInv'
BY EndKeeps DEF Crash

\* A new row has no calls, and time changes no status.
LEMMA RowsKeep ==
    ASSUME IInv, UNCHANGED <<call, wire, prior>>,
           \A p \in Pushes :
              \/ row'[p].status = row[p].status
              \/ row[p].status = "absent" /\ row'[p].status = "PENDING"
    PROVE  FlowInv'
<1>1. WireInv' /\ RowInv'
  BY DEF IInv, WireInv, RowInv, Sent, Created, Nothing
<1>2. CallInv'
  BY DEF IInv, CallInv, At, PushOf, Created, Nothing
<1>3. SenderInv'
  <2> SUFFICES ASSUME NEW d \in Senders, ~At(d, "idle")
               PROVE  row'[PushOf(d)].status \notin {"absent", "PENDING", "BLOCKED"}
    BY DEF IInv, SenderInv, At, PushOf, Sent
  <2> QED BY AtWork DEF IInv, SenderInv, Calls
<1> QED BY <1>1, <1>2, <1>3 DEF FlowInv

\* One request moves from flying to one of its results.
LEMMA ProcessCounts ==
    ASSUME IInv, NEW p \in Pushes, Process(p)
    PROVE  /\ wire[p] \in Wires /\ wire[p].flying > 0 /\ UNCHANGED <<row, call, prior>>
           /\ \A q \in Pushes : q # p => wire'[q] = wire[q]
           /\ wire'[p].flying = wire[p].flying - 1
           /\ \/ /\ wire'[p].made = wire[p].made + 1
                 /\ wire'[p].odd = wire[p].odd /\ wire'[p].refused = wire[p].refused
              \/ /\ wire'[p].odd = wire[p].odd + 1
                 /\ wire'[p].made = wire[p].made /\ wire'[p].refused = wire[p].refused
              \/ /\ wire'[p].refused = wire[p].refused + 1
                 /\ wire'[p].made = wire[p].made /\ wire'[p].odd = wire[p].odd
<1>1. wire[p] \in Wires
  BY DEF IInv, TypeOK
<1>2. /\ \/ wire'[p] = [wire[p] EXCEPT !.flying = @ - 1, !.made = @ + 1]
         \/ wire'[p] = [wire[p] EXCEPT !.flying = @ - 1, !.odd = @ + 1]
         \/ wire'[p] = [wire[p] EXCEPT !.flying = @ - 1, !.refused = @ + 1]
      /\ \A q \in Pushes : q # p => wire'[q] = wire[q]
  BY DEF Process, IInv, TypeOK
<1> QED BY <1>1, <1>2 DEF Process, Wires

\* A request that is processed was under way, so nobody has called its order
\* created or refused.
LEMMA ProcessKeeps == ASSUME IInv, NEW p \in Pushes, Process(p) PROVE FlowInv'
<1>1. wire[p] \in Wires /\ UNCHANGED <<row, call, prior>> /\ ~Created(p) /\ ~Nothing(p)
  BY ProcessCounts DEF Created, Nothing
<1>2. \A q \in Pushes : q # p => wire'[q] = wire[q]
  BY ProcessCounts
<1>3. Sent(p)' = Sent(p)
  <2>1. /\ wire[p].flying \in Nat /\ wire[p].made \in Nat
        /\ wire[p].odd \in Nat /\ wire[p].refused \in Nat
    BY <1>1, Counts
  <2>4. wire'[p].flying + wire'[p].made + wire'[p].odd + wire'[p].refused =
           wire[p].flying + wire[p].made + wire[p].odd + wire[p].refused
    BY <2>1, ProcessCounts
  <2> QED BY <2>4 DEF Sent
<1>4. WireInv'
  BY <1>1, <1>2, <1>3 DEF IInv, WireInv, Sent
<1>5. RowInv'
  BY <1>1, <1>2, <1>3 DEF IInv, RowInv, Sent, Created, Nothing
<1>6. CallInv'
  <2> SUFFICES ASSUME NEW d \in Calls, At(d, "finish") PROVE
        /\ call[d].outcome = "SUCCEEDED" => Created(PushOf(d))'
        /\ call[d].outcome = "BLOCKED" => Nothing(PushOf(d))'
    BY <1>1 DEF IInv, CallInv, At, PushOf
  <2>1. PushOf(d) \in Pushes /\ PushOf(d)' = PushOf(d)
    BY <1>1, AtWork DEF IInv, At, PushOf
  <2>2. CASE PushOf(d) = p
    BY <1>1, <2>2 DEF IInv, CallInv
  <2>3. CASE PushOf(d) # p
    <3>1. wire'[PushOf(d)] = wire[PushOf(d)]
      BY <1>2, <2>1, <2>3
    <3> QED BY <1>1, <2>1, <3>1 DEF IInv, CallInv, Created, Nothing
  <2> QED BY <2>2, <2>3
<1>7. SenderInv'
  <2>1. \A q \in Pushes : Sent(q)' = Sent(q)
    BY <1>2, <1>3 DEF Sent
  <2> SUFFICES ASSUME NEW d \in Senders, ~At(d, "idle"),
                      call[d].pc \in {"prepare", "lookup", "recheck", "post"}
               PROVE  Sent(PushOf(d))' = 0
    BY <1>1 DEF IInv, SenderInv, At, PushOf
  <2>2. PushOf(d) \in Pushes /\ PushOf(d)' = PushOf(d) /\ Sent(PushOf(d)) = 0
    BY <1>1, AtWork DEF IInv, SenderInv, PushOf, Calls
  <2>3. wire'[PushOf(d)].flying + wire'[PushOf(d)].made + wire'[PushOf(d)].odd
          + wire'[PushOf(d)].refused = 0
    BY <1>2, <1>3, <2>2 DEF Sent
  <2> QED BY <2>2, <2>3 DEF Sent
<1> QED BY <1>4, <1>5, <1>6, <1>7 DEF FlowInv

\* The strengthened invariant holds at first.
LEMMA InvInit == Init => IInv
BY TypeInit, FlowInit DEF IInv, FlowInv

\* IInv is inductive.
LEMMA InvStep == IInv /\ [Next]_vars => IInv'
<1> SUFFICES ASSUME IInv, [Next]_vars PROVE FlowInv'
  BY TypeStep DEF IInv, FlowInv
<1>1. ASSUME NEW p \in Pushes, Enqueue(p) PROVE FlowInv'
  <2>1. \A q \in Pushes :
          \/ row'[q].status = row[q].status
          \/ row[q].status = "absent" /\ row'[q].status = "PENDING"
    BY <1>1 DEF Enqueue, IInv, TypeOK, Rows
  <2> QED BY <1>1, <2>1, RowsKeep DEF Enqueue
<1>2. ASSUME NEW p \in Pushes, Process(p) PROVE FlowInv'
  BY <1>2, ProcessKeeps
<1>3. ASSUME NEW c \in Calls, NEW p \in Pushes, ClaimPending(c, p) \/ ClaimReconcile(c, p)
      PROVE  FlowInv'
  BY <1>3, ClaimKeeps
<1>4. ASSUME NEW c \in Calls, Progress(c) PROVE FlowInv'
  BY <1>4, ProgressKeeps, PostKeeps, FinishKeeps
<1>5. ASSUME NEW c \in Calls, Crash(c) PROVE FlowInv'
  BY <1>5, CrashKeeps
<1>6. CASE Tick
  <2>1. \A q \in Pushes : row'[q].status = row[q].status
    BY <1>6 DEF Tick, IInv, TypeOK, Rows
  <2> QED BY <1>6, <2>1, RowsKeep DEF Tick
<1>7. CASE UNCHANGED vars
  BY <1>7, RowsKeep DEF vars
<1> QED BY <1>1, <1>2, <1>3, <1>4, <1>5, <1>6, <1>7 DEF Next

-----------------------------------------------------------------------------
(* The safety properties of the runs *)

\* The strengthened invariant holds in every reachable state; every other
\* theorem rests on it (dispatchSopyoOrderPush).
THEOREM Invariance == Spec => []IInv
BY InvInit, InvStep, PTL DEF Spec

\* Rows, calls and counts always have their types (SopyoOrderPush rows).
THEOREM TypeCorrect == Spec => []TypeOK
<1>1. IInv => TypeOK
  BY DEF IInv
<1> QED BY <1>1, Invariance, PTL

\* At most one create POST for a push, for any number of workers, scripts and
\* operators that die or overtake each other.
THEOREM OnePost == Spec => []AtMostOnePost
<1>1. IInv => AtMostOnePost
  BY DEF IInv, WireInv, AtMostOnePost
<1> QED BY <1>1, Invariance, PTL

\* No POST adds an order to a code that has one (the lookup before createOrderOnce).
THEOREM NoSecondOrder == Spec => []OneOrderPerCode
<1>1. ASSUME IInv, NEW p \in Pushes
      PROVE  wire[p].flying + wire[p].made + wire[p].odd + (IF prior[p] = "none" THEN 0 ELSE 1) <= 1
  <2>1. wire[p] \in Wires /\ Sent(p) <= 1 /\ (prior[p] # "none" => Sent(p) = 0)
    BY <1>1 DEF IInv, WireInv, TypeOK
  <2>2. /\ wire[p].flying \in Nat /\ wire[p].made \in Nat
        /\ wire[p].odd \in Nat /\ wire[p].refused \in Nat
    BY <2>1, Counts
  <2>3. CASE prior[p] = "none"
    BY <2>1, <2>2, <2>3 DEF Sent
  <2>4. CASE prior[p] # "none"
    BY <2>1, <2>4, Counts DEF Nothing
  <2> QED BY <2>3, <2>4
<1>2. IInv => OneOrderPerCode
  BY <1>1 DEF OneOrderPerCode
<1> QED BY <1>2, Invariance, PTL

\* SUCCEEDED means that exactly one SOPYOAPI order exists (finish).
THEOREM SuccessIsTrue == Spec => []SucceededIsTrue
<1>1. IInv => SucceededIsTrue
  BY DEF IInv, RowInv, Created, SucceededIsTrue
<1> QED BY <1>1, Invariance, PTL

\* BLOCKED means that nothing was created and nothing can be (finish).
THEOREM BlockedIsTrue == Spec => []BlockedLeftNothing
<1>1. ASSUME IInv, NEW p \in Pushes, row[p].status = "BLOCKED", NEW c \in Senders
      PROVE  PushOf(c) # p
  <2>1. At(c, "idle") => PushOf(c) = NoPush
    BY <1>1 DEF IInv, CallInv, Calls
  <2>2. ~At(c, "idle") => PushOf(c) # p
    BY <1>1 DEF IInv, SenderInv
  <2> QED BY <2>1, <2>2, ConstantsAssumption DEF ConstantsAssumption
<1>2. IInv => BlockedLeftNothing
  BY <1>1 DEF IInv, RowInv, Nothing, BlockedLeftNothing
<1> QED BY <1>2, Invariance, PTL

-----------------------------------------------------------------------------
(* What no step may do *)

\* How each step writes the rows.
LEMMA RowWrites ==
    ASSUME IInv, [Next]_vars
    PROVE  \/ UNCHANGED row
           \/ Tick
           \/ \E p \in Pushes : Enqueue(p)
           \/ \E c \in Calls, p \in Pushes : ClaimPending(c, p) \/ ClaimReconcile(c, p)
           \/ \E c \in Calls : Finish(c) /\ Owns(c)
BY DEF Next, Progress, Prepare, Lookup, Recheck, SendPost, PostCreated, PostConflicts,
       PostRejected, PostAmbiguous, LookAgain, Finish, MoveTo, Decide, Crash, Process, vars

\* No step changes a settled row.
LEMMA SettledStep ==
    ASSUME IInv, [Next]_vars, NEW p \in Pushes, row[p].status \in {"SUCCEEDED", "BLOCKED"}
    PROVE  row'[p].status = row[p].status
<1>1. CASE Tick
  BY <1>1 DEF Tick, IInv, TypeOK, Rows
<1>2. ASSUME NEW q \in Pushes, Enqueue(q) PROVE row'[p].status = row[p].status
  BY <1>2 DEF Enqueue, IInv, TypeOK
<1>3. ASSUME NEW c \in Calls, NEW q \in Pushes, ClaimPending(c, q) \/ ClaimReconcile(c, q)
      PROVE  row'[p].status = row[p].status
  BY <1>3 DEF ClaimPending, ClaimReconcile, Reconcilable, Claim, IInv, TypeOK
<1>4. ASSUME NEW c \in Calls, Finish(c), Owns(c) PROVE row'[p].status = row[p].status
  BY <1>4 DEF Finish, Owns, IInv, TypeOK
<1> QED BY <1>1, <1>2, <1>3, <1>4, RowWrites

\* A SUCCEEDED or BLOCKED row keeps its status (the claims and finish).
THEOREM SettledStays == Spec => SettledIsFinal
<1>1. IInv /\ [Next]_vars => [\A p \in Pushes : row[p].status \in {"SUCCEEDED", "BLOCKED"} =>
                                 row'[p].status = row[p].status]_vars
  BY SettledStep
<1> QED BY <1>1, Invariance, PTL DEF Spec, SettledIsFinal

\* A step of a call that lost its claim writes no row.
LEMMA ReplacedStep ==
    ASSUME IInv, [Next]_vars, NEW c \in Calls,
           call'[c] # call[c], ~At(c, "idle"), row[PushOf(c)].token # c
    PROVE  row' = row
<1>1. CASE Tick
  BY <1>1 DEF Tick
<1>2. ASSUME NEW q \in Pushes, Enqueue(q) PROVE FALSE
  BY <1>2 DEF Enqueue
<1>3. ASSUME NEW d \in Calls, NEW q \in Pushes, ClaimPending(d, q) \/ ClaimReconcile(d, q)
      PROVE  FALSE
  <2>1. At(d, "idle") /\ d # c
    BY <1>3 DEF ClaimPending, ClaimReconcile, Claim
  <2> QED BY <1>3, <2>1 DEF ClaimPending, ClaimReconcile, Claim, IInv, TypeOK
<1>4. ASSUME NEW d \in Calls, Finish(d), Owns(d) PROVE FALSE
  <2>1. d # c
    BY <1>4 DEF Owns
  <2> QED BY <1>4, <2>1 DEF Finish, IInv, TypeOK
<1> QED BY <1>1, <1>2, <1>3, <1>4, RowWrites

\* A call that was replaced writes no row (the token in finish).
THEOREM ReplacedCallsAreHarmless == Spec => ReplacedCallIsHarmless
<1>1. IInv /\ [Next]_vars =>
        [\A c \in Calls : call'[c] # call[c] /\ ~At(c, "idle") /\ row[PushOf(c)].token # c
            => row' = row]_vars
  BY ReplacedStep
<1> QED BY <1>1, Invariance, PTL DEF Spec, ReplacedCallIsHarmless

-----------------------------------------------------------------------------
(* Refinement *)

\* The initial states are initial states of ExternalCreation.
LEMMA MapsInit == Init => Creation!Init
<1> SUFFICES ASSUME Init PROVE Creation!Init
  OBVIOUS
<1>1. \A p \in Pushes : RequestOf(p) = "unsent" /\ VerdictOf(p) = "open"
  <2> SUFFICES ASSUME NEW p \in Pushes PROVE RequestOf(p) = "unsent" /\ VerdictOf(p) = "open"
    OBVIOUS
  <2>1. /\ wire[p].flying = 0 /\ wire[p].made = 0 /\ wire[p].odd = 0 /\ wire[p].refused = 0
        /\ row[p].status = "absent"
    BY DEF Init
  <2> QED BY <2>1 DEF RequestOf, Sent, VerdictOf
<1>2. \A p \in Pushes : ThereOf(p) \in {"nothing", "ours", "other"}
  BY DEF ThereOf
<1> QED BY <1>1, <1>2 DEF Creation!Init

\* A step that leaves the POSTs alone and opens or closes no verdict is a stutter.
LEMMA Stutters ==
    ASSUME UNCHANGED <<wire, prior>>, \A p \in Pushes : VerdictOf(p)' = VerdictOf(p)
    PROVE  UNCHANGED Creation!vars
<1>1. \A p \in Pushes : RequestOf(p)' = RequestOf(p) /\ ThereOf(p)' = ThereOf(p)
  BY DEF RequestOf, ThereOf, Sent
<1> QED BY <1>1 DEF Creation!vars

\* A POST that leaves is the abstract request.
LEMMA PostRefines == ASSUME IInv, NEW c \in Calls, SendPost(c) PROVE Creation!Next
<1> DEFINE p == PushOf(c)
<1>1. p \in Pushes /\ wire[p] \in Wires /\ ~At(c, "idle") /\ call[c].pc = "post"
  BY AtWork DEF IInv, SendPost, At
<1>2. c \in Senders
  BY <1>1 DEF IInv, CallInv, Calls
<1>3. Sent(p) = 0 /\ prior[p] = "none" /\ row[p].status \notin {"absent", "PENDING", "BLOCKED"}
  BY <1>1, <1>2 DEF IInv, SenderInv
<1>4. /\ wire[p].flying = 0 /\ wire[p].made = 0 /\ wire[p].odd = 0
      /\ ~Created(p)
  BY <1>1, <1>3, Counts DEF Nothing, Created
<1>5. RequestOf(p) = "unsent" /\ ThereOf(p) = "nothing" /\ VerdictOf(p) = "open"
  <2>1. row[p].status # "SUCCEEDED"
    BY <1>1, <1>4 DEF IInv, RowInv
  <2> QED BY <1>3, <1>4, <2>1 DEF RequestOf, ThereOf, VerdictOf
<1>6. /\ wire'[p].flying = 1 /\ wire'[p].made = 0 /\ wire'[p].odd = 0
      /\ \A q \in Pushes : q # p => wire'[q] = wire[q]
      /\ UNCHANGED <<row, prior>>
  BY <1>1, <1>4 DEF SendPost, MoveTo, IInv, TypeOK, Wires
<1>7. \A q \in Pushes :
        /\ RequestOf(q)' = IF q = p THEN "flying" ELSE RequestOf(q)
        /\ ThereOf(q)' = ThereOf(q)
        /\ VerdictOf(q)' = VerdictOf(q)
  BY <1>4, <1>6 DEF RequestOf, ThereOf, VerdictOf, Sent
<1>8. Creation!Send(p)
  BY <1>1, <1>5, <1>7 DEF Creation!Send
<1> QED BY <1>1, <1>8 DEF Creation!Next

\* What Sopyo makes of a POST is what the abstract service does with a request.
LEMMA ProcessRefines == ASSUME IInv, NEW p \in Pushes, Process(p) PROVE Creation!Next
<1>1. /\ wire[p] \in Wires /\ wire[p].flying > 0 /\ UNCHANGED <<row, call, prior>>
      /\ \A q \in Pushes : q # p => wire'[q] = wire[q]
  BY ProcessCounts
<1>2. /\ wire[p].flying \in Nat /\ wire[p].made \in Nat
      /\ wire[p].odd \in Nat /\ wire[p].refused \in Nat
      /\ wire[p].flying + wire[p].made + wire[p].odd + wire[p].refused <= 1
  BY <1>1, Counts DEF IInv, WireInv, Sent
<1>3. wire[p].flying = 1 /\ wire[p].made = 0 /\ wire[p].odd = 0 /\ wire[p].refused = 0
  BY <1>1, <1>2
<1>4. /\ wire'[p].flying = 0
      /\ \/ wire'[p].made = 1 /\ wire'[p].odd = 0 /\ wire'[p].refused = 0
         \/ wire'[p].made = 0 /\ wire'[p].odd = 1 /\ wire'[p].refused = 0
         \/ wire'[p].made = 0 /\ wire'[p].odd = 0 /\ wire'[p].refused = 1
  BY <1>3, ProcessCounts
<1>5. RequestOf(p) = "flying" /\ RequestOf(p)' = "done"
  <2>1. wire'[p].flying + wire'[p].made + wire'[p].odd + wire'[p].refused = 1
    BY <1>4
  <2>2. Sent(p)' = 1
    BY <2>1 DEF Sent
  <2>3. RequestOf(p)' = IF wire'[p].flying > 0 THEN "flying"
                        ELSE IF Sent(p)' > 0 THEN "done" ELSE "unsent"
    BY DEF RequestOf
  <2> QED BY <1>1, <1>4, <2>2, <2>3 DEF RequestOf
<1>6. \A q \in Pushes :
        /\ RequestOf(q)' = IF q = p THEN "done" ELSE RequestOf(q)
        /\ ThereOf(q)' = IF q = p THEN ThereOf(p)' ELSE ThereOf(q)
        /\ VerdictOf(q)' = VerdictOf(q)
  BY <1>1, <1>5 DEF RequestOf, ThereOf, VerdictOf, Sent
<1>7. ThereOf(p)' \in {"nothing", "ours", "other"}
  BY DEF ThereOf
<1>8. Creation!Arrive(p)
  BY <1>5, <1>6, <1>7 DEF Creation!Arrive
<1> QED BY <1>8 DEF Creation!Next

\* The last write of a call is the abstract verdict, or a stutter.
LEMMA FinishRefines ==
    ASSUME IInv, NEW c \in Calls, Finish(c), Owns(c)
    PROVE  Creation!Next \/ UNCHANGED Creation!vars
<1> DEFINE p == PushOf(c)
           s == call[c].outcome
<1>1. p \in Pushes /\ row[p] \in Rows /\ wire[p] \in Wires /\ At(c, "finish")
  BY AtWork DEF IInv, Finish, At
<1>2. /\ s \in {"SUCCEEDED", "BLOCKED", "RECONCILE_REQUIRED"}
      /\ s = "SUCCEEDED" => Created(p)
      /\ s = "BLOCKED" => Nothing(p)
  BY <1>1 DEF IInv, CallInv
<1>3. /\ row'[p].status = s /\ \A q \in Pushes : q # p => row'[q] = row[q]
      /\ UNCHANGED <<wire, prior>>
  BY <1>1 DEF Finish, IInv, TypeOK, Rows
<1>4. VerdictOf(p) = "open"
  BY DEF Owns, VerdictOf
<1>5. \A q \in Pushes :
        /\ RequestOf(q)' = RequestOf(q) /\ ThereOf(q)' = ThereOf(q)
        /\ q # p => VerdictOf(q)' = VerdictOf(q)
  BY <1>3 DEF RequestOf, ThereOf, VerdictOf, Sent
<1>6. CASE s = "RECONCILE_REQUIRED"
  <2>2. \A q \in Pushes : VerdictOf(q)' = VerdictOf(q)
    BY <1>3, <1>4, <1>6 DEF VerdictOf
  <2> QED BY <1>3, <2>2, Stutters
<1>7. CASE s = "SUCCEEDED"
  <2>1. \A q \in Pushes : VerdictOf(q)' = IF q = p THEN "created" ELSE VerdictOf(q)
    BY <1>3, <1>7 DEF VerdictOf
  <2>2. ThereOf(p) = "ours"
    <3>1. wire[p].made \in Nat /\ wire[p].made + (IF prior[p] = "api" THEN 1 ELSE 0) = 1
      BY <1>1, <1>2, <1>7, Counts DEF Created
    <3> QED BY <3>1 DEF ThereOf
  <2>3. Creation!Confirm(p)
    BY <1>1, <1>4, <1>5, <2>1, <2>2 DEF Creation!Confirm
  <2> QED BY <1>1, <2>3 DEF Creation!Next
<1>8. CASE s = "BLOCKED"
  <2>1. \A q \in Pushes : VerdictOf(q)' = IF q = p THEN "refused" ELSE VerdictOf(q)
    BY <1>3, <1>8 DEF VerdictOf
  <2>2. Nothing(p)
    BY <1>2, <1>8
  <2>3. RequestOf(p) = "unsent" \/ (RequestOf(p) = "done" /\ ThereOf(p) = "nothing")
    <3>1. Sent(p) = 0 => RequestOf(p) = "unsent"
      BY <2>2 DEF RequestOf, Nothing
    <3>2. ASSUME Sent(p) # 0 PROVE RequestOf(p) = "done" /\ ThereOf(p) = "nothing"
      <4>1. prior[p] = "none"
        BY <1>1, <3>2 DEF IInv, WireInv
      <4>2. wire[p].refused > 0 /\ Sent(p) = wire[p].refused
        BY <1>1, <2>2, <3>2, Counts DEF Sent, Nothing
      <4> QED BY <1>1, <2>2, <4>1, <4>2 DEF RequestOf, ThereOf, Nothing
    <3> QED BY <3>1, <3>2
  <2>4. Creation!Refuse(p)
    BY <1>1, <1>4, <1>5, <2>1, <2>3 DEF Creation!Refuse
  <2> QED BY <1>1, <2>4 DEF Creation!Next
<1> QED BY <1>2, <1>6, <1>7, <1>8

\* Every step is a step of ExternalCreation or a stutter.
LEMMA StepRefines == IInv /\ [Next]_vars => [Creation!Next]_Creation!vars
<1> SUFFICES ASSUME IInv, [Next]_vars PROVE Creation!Next \/ UNCHANGED Creation!vars
  OBVIOUS
<1>1. CASE UNCHANGED <<row, wire, prior>>
  BY <1>1, Stutters DEF VerdictOf
<1>2. ASSUME NEW p \in Pushes, Process(p) PROVE Creation!Next
  BY <1>2, ProcessRefines
<1>3. ASSUME NEW c \in Calls, SendPost(c) PROVE Creation!Next
  BY <1>3, PostRefines
<1>4. ASSUME NEW c \in Calls, Finish(c) PROVE Creation!Next \/ UNCHANGED Creation!vars
  BY <1>1, <1>4, FinishRefines DEF Finish
<1>5. ASSUME NEW p \in Pushes, Enqueue(p) PROVE UNCHANGED Creation!vars
  <2>1. \A q \in Pushes : VerdictOf(q)' = VerdictOf(q)
    BY <1>5 DEF Enqueue, VerdictOf, IInv, TypeOK, Rows
  <2> QED BY <1>5, <2>1, Stutters DEF Enqueue
<1>6. ASSUME NEW c \in Calls, NEW p \in Pushes, ClaimPending(c, p) \/ ClaimReconcile(c, p)
      PROVE  UNCHANGED Creation!vars
  <2>1. row[p].status \notin {"SUCCEEDED", "BLOCKED"} /\ Claim(c, p)
    BY <1>6 DEF ClaimPending, ClaimReconcile, Reconcilable
  <2>2. row'[p].status = "PROCESSING" /\ \A q \in Pushes : q # p => row'[q] = row[q]
    BY <2>1 DEF Claim, IInv, TypeOK
  <2>3. \A q \in Pushes : VerdictOf(q)' = VerdictOf(q)
    BY <2>1, <2>2 DEF VerdictOf
  <2> QED BY <2>1, <2>3, Stutters DEF Claim
<1>7. CASE Tick
  <2>1. \A q \in Pushes : VerdictOf(q)' = VerdictOf(q)
    BY <1>7 DEF Tick, VerdictOf, IInv, TypeOK, Rows
  <2> QED BY <1>7, <2>1, Stutters DEF Tick
<1>8. ASSUME NEW c \in Calls, Crash(c) PROVE UNCHANGED <<row, wire, prior>>
  BY <1>8 DEF Crash
<1>9. ASSUME NEW c \in Calls, Progress(c), ~SendPost(c), ~Finish(c)
      PROVE  UNCHANGED <<row, wire, prior>>
  BY <1>9 DEF Progress, Prepare, Lookup, Recheck, PostCreated, PostConflicts, PostRejected,
              PostAmbiguous, LookAgain, MoveTo, Decide
<1>10. CASE UNCHANGED vars
  BY <1>1, <1>10 DEF vars
<1> QED BY <1>1, <1>2, <1>3, <1>4, <1>5, <1>6, <1>7, <1>8, <1>9, <1>10 DEF Next

\* The dispatcher implements ExternalCreation (dispatchSopyoOrderPush).
THEOREM Implementation == Spec => ImplementsExternalCreation
BY MapsInit, StepRefines, Invariance, PTL DEF Spec, ImplementsExternalCreation, Creation!Spec
==============================================================================
