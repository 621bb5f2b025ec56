-------------------- MODULE OrdersCreateExecution_proofs --------------------
(***************************************************************************)
(* Proofs about the fenced execution of orders/create deliveries, for any  *)
(* number of deliveries, orders, executors, recoveries and attempts.       *)
(***************************************************************************)
EXTENDS OrdersCreateExecution, TLAPS

-----------------------------------------------------------------------------
(* The backoff *)

\* The delay written by finalizeRetryableOrdersCreateFailure is a timestamp in
\* the future or NULL, for every attempt count the budget allows.
LEMMA RetryAfterType ==
    ASSUME NEW r, r.attempts \in Nat
    PROVE  RetryAfter(r) \in Nat \cup {NoTime}
<1>1. CASE r.attempts < MaxAttempts
  <2> DEFINE n == IF r.attempts > 0 THEN r.attempts - 1 ELSE 0
  <2>1. n \in 0..MaxAttempts
    BY <1>1, ConstantsAssumption DEF ConstantsAssumption
  <2> HIDE DEF n
  <2>2. BackoffTicks * 2^n \in Nat
    BY <2>1, ConstantsAssumption DEF ConstantsAssumption
  <2> QED BY <1>1, <2>2 DEF RetryAfter, Backoff, n
<1>2. CASE ~(r.attempts < MaxAttempts)
  BY <1>2 DEF RetryAfter
<1> QED BY <1>1, <1>2

-----------------------------------------------------------------------------
(* Type correctness *)

\* An owner with nothing to do is in a state of its type.
LEMMA IdleType == Idle \in Attempts
BY DEF Attempts, Idle, Pc, Status, JobState

\* An owner at work has an event with a row.
LEMMA OwnerType == ASSUME NEW o \in Owners, TypeOK, own[o].pc # "idle"
                   PROVE  /\ own[o] \in Attempts
                          /\ own[o].ev \in Events
                          /\ RowOf(o) \in Rows
BY DEF TypeOK, Attempts, RowOf

\* Everything an action makes of a row is a row.
LEMMA RowTypes ==
    /\ \A s \in Status, b \in BOOLEAN, a \in Nat \cup {NoTime} : Row(s, b, a) \in Rows
    /\ \A r \in Rows : Claimed(r) \in Rows
    /\ \A r \in Rows, a \in Nat \cup {NoTime} : Failed(r, a) \in Rows
    /\ \A r \in Rows : [Failed(r, NoTime) EXCEPT !.gen = @ + 1] \in Rows
    /\ \A r \in Rows : [r EXCEPT !.lease = LeaseTicks] \in Rows
    /\ \A r \in Rows : [r EXCEPT !.status = "PROCESSED", !.lease = NoTime, !.avail = NoTime] \in Rows
    /\ \A r \in Rows : [r EXCEPT !.lease = Sooner(@), !.avail = Sooner(@)] \in Rows
<1> USE DEF NoTime
<1>1. LeaseTicks \in Nat
  BY ConstantsAssumption DEF ConstantsAssumption
<1>2. {"PROCESSING", "PROCESSED", "FAILED"} \subseteq Status
  BY DEF Status
<1>3. \A s \in Status, b \in BOOLEAN, a \in Nat \cup {NoTime} : Row(s, b, a) \in Rows
  BY DEF Rows, Row
<1>4. \A r \in Rows : Claimed(r) \in Rows
  BY <1>1, <1>2 DEF Rows, Claimed
<1>5. \A r \in Rows, a \in Nat \cup {NoTime} : Failed(r, a) \in Rows
  BY <1>2 DEF Rows, Failed
<1>6. \A r \in Rows : [Failed(r, NoTime) EXCEPT !.gen = @ + 1] \in Rows
  <2>1. \A r \in Rows : [r EXCEPT !.gen = @ + 1] \in Rows
    BY DEF Rows
  <2>2. \A r \in Rows : Failed(r, NoTime) \in Rows
    BY <1>5
  <2> QED BY <2>1, <2>2
<1>7. \A r \in Rows : [r EXCEPT !.lease = LeaseTicks] \in Rows
  BY <1>1 DEF Rows
<1>8. \A r \in Rows : [r EXCEPT !.status = "PROCESSED", !.lease = NoTime, !.avail = NoTime] \in Rows
  BY <1>2 DEF Rows
<1>9. \A t \in Nat \cup {NoTime} : Sooner(t) \in Nat \cup {NoTime}
  BY DEF Sooner
<1>10. \A r \in Rows : [r EXCEPT !.lease = Sooner(@), !.avail = Sooner(@)] \in Rows
  BY <1>9 DEF Rows
<1> QED BY <1>3, <1>4, <1>5, <1>6, <1>7, <1>8, <1>10

\* Everything an action makes of an attempt is an attempt.
LEMMA AttemptTypes ==
    /\ \A a \in Attempts, pc \in Pc : a.ev \in Events => [a EXCEPT !.pc = pc] \in Attempts
    /\ \A a \in Attempts : [a EXCEPT !.aborted = TRUE] \in Attempts
    /\ \A a \in Attempts, m \in JobState :
          a.ev \in Events => [a EXCEPT !.pc = "mirroring", !.mirror = m] \in Attempts
    /\ \A a \in Attempts, g \in Nat :
          a.ev \in Events => [a EXCEPT !.pc = "claimed", !.gen = g] \in Attempts
    /\ \A e \in Events, g \in Nat, m \in JobState :
          [Idle EXCEPT !.pc = "claimed", !.ev = e, !.gen = g, !.mirror = m] \in Attempts
    /\ \A e \in Events :
          [Idle EXCEPT !.pc = "mirroring", !.ev = e, !.mirror = "dead_letter_ready"] \in Attempts
    /\ \A e \in Events, st \in Status, b \in BOOLEAN :
          [Idle EXCEPT !.pc = "read", !.ev = e, !.seen = st, !.legacy = b] \in Attempts
<1>1. /\ \A a \in Attempts, pc \in Pc : a.ev \in Events => [a EXCEPT !.pc = pc] \in Attempts
      /\ \A a \in Attempts : [a EXCEPT !.aborted = TRUE] \in Attempts
  BY DEF Attempts
<1>2. /\ {"claimed", "mirroring", "read"} \subseteq Pc
      /\ "dead_letter_ready" \in JobState
  BY DEF Pc, JobState
<1>3. /\ \A a \in Attempts, m \in JobState :
            a.ev \in Events => [a EXCEPT !.pc = "mirroring", !.mirror = m] \in Attempts
      /\ \A a \in Attempts, g \in Nat :
            a.ev \in Events => [a EXCEPT !.pc = "claimed", !.gen = g] \in Attempts
  BY <1>2 DEF Attempts
<1>4. /\ \A e \in Events, g \in Nat, m \in JobState :
            [Idle EXCEPT !.pc = "claimed", !.ev = e, !.gen = g, !.mirror = m] \in Attempts
      /\ \A e \in Events :
            [Idle EXCEPT !.pc = "mirroring", !.ev = e, !.mirror = "dead_letter_ready"] \in Attempts
      /\ \A e \in Events, st \in Status, b \in BOOLEAN :
            [Idle EXCEPT !.pc = "read", !.ev = e, !.seen = st, !.legacy = b] \in Attempts
  BY <1>2, IdleType DEF Attempts, Idle
<1> QED BY <1>1, <1>3, <1>4

\* The verdict on a failed attempt is an attempt.
LEMMA VerdictType ==
    ASSUME TypeOK, NEW o \in Owners, own[o].pc # "idle", NEW d \in Disposition
    PROVE  Verdict(o, d) \in Attempts
<1>1. (IF own[o].legacy THEN "terminal" ELSE d) \in Pc
  BY DEF Disposition, Pc
<1> QED BY <1>1, IdleType, OwnerType, AttemptTypes DEF Verdict

\* Every initial state has the types of TypeOK.
LEMMA InitType == Init => TypeOK
<1> SUFFICES ASSUME Init PROVE TypeOK
  OBVIOUS
<1>1. inbox \in [Events -> Rows]
  <2>1. \A st \in Status : Row(st, FALSE, NoTime) \in Rows
    BY RowTypes
  <2>2. inbox \in [Events -> {Row(st, FALSE, NoTime) : st \in Status \ {"PROCESSED"}}]
    BY DEF Init
  <2>3. {Row(st, FALSE, NoTime) : st \in Status \ {"PROCESSED"}} \subseteq Rows
    BY <2>1
  <2> QED BY <2>2, <2>3
<1>2. own \in [Owners -> Attempts]
  BY IdleType DEF Init
<1> QED BY <1>1, <1>2 DEF Init, TypeOK, Creators, JobState

\* The five forms a step gives the rows, the attempts and the jobs.
LEMMA SetType ==
    ASSUME TypeOK
    PROVE  /\ \A e \in Events, r \in Rows : SetRow(e, r) => inbox' \in [Events -> Rows]
           /\ \A o \in Owners, a \in Attempts : SetOwn(o, a) => own' \in [Owners -> Attempts]
           /\ \A o \in Owners : Stop(o) => own' \in [Owners -> Attempts]
           /\ \A o \in Owners, pc \in Pc : own[o].pc # "idle" /\ Goto(o, pc) => own' \in [Owners -> Attempts]
           /\ \A o \in Owners, j \in JobState : Mirrored(o, j) => job' \in [Events -> JobState]
<1>1. \A e \in Events, r \in Rows : SetRow(e, r) => inbox' \in [Events -> Rows]
  BY DEF TypeOK, SetRow
<1>2. \A o \in Owners, a \in Attempts : SetOwn(o, a) => own' \in [Owners -> Attempts]
  BY DEF TypeOK, SetOwn
<1>3. \A o \in Owners : Stop(o) => own' \in [Owners -> Attempts]
  BY <1>2, IdleType DEF Stop
<1>4. \A o \in Owners, pc \in Pc : own[o].pc # "idle" /\ Goto(o, pc) => own' \in [Owners -> Attempts]
  BY <1>2, OwnerType, AttemptTypes DEF Goto
<1>5. \A o \in Owners, j \in JobState : Mirrored(o, j) => job' \in [Events -> JobState]
  BY DEF TypeOK, Mirrored
<1> QED BY <1>1, <1>2, <1>3, <1>4, <1>5

\* Every step keeps the types.
LEMMA NextType == TypeOK /\ [Next]_vars => TypeOK'
<1> SUFFICES ASSUME TypeOK, [Next]_vars PROVE TypeOK'
  OBVIOUS
<1>0. CASE UNCHANGED vars
  BY <1>0 DEF TypeOK, vars
<1>1. ASSUME NEW e \in Events, Receive(e) PROVE TypeOK'
  <2>1. Row("RECEIVED", TRUE, 0) \in Rows
    BY RowTypes DEF Status
  <2> QED BY <1>1, <2>1, SetType DEF TypeOK, Receive
<1>2. ASSUME NEW x \in Executors, NEW e \in Events, ClaimDue(x, e) PROVE TypeOK'
  <2>1. inbox[e] \in Rows /\ Claimed(inbox[e]) \in Rows
    BY RowTypes DEF TypeOK
  <2>2. PICK m \in JobState : SetOwn(x, [Idle EXCEPT !.pc = "claimed", !.ev = e,
                                          !.gen = Claimed(inbox[e]).gen, !.mirror = m])
    BY <1>2 DEF ClaimDue, JobState
  <2>3. Claimed(inbox[e]).gen \in Nat
    BY <2>1 DEF Rows
  <2> QED BY <1>2, <2>1, <2>2, <2>3, AttemptTypes, SetType DEF TypeOK, ClaimDue, Owners
<1>3. ASSUME NEW x \in Executors, NEW e \in Events, FenceExhausted(x, e) PROVE TypeOK'
  BY <1>3, RowTypes, AttemptTypes, SetType DEF TypeOK, FenceExhausted, Owners
<1>4. ASSUME NEW a \in Admins, NEW e \in Events, AdminRead(a, e) PROVE TypeOK'
  <2>1. inbox[e].status \in Status
    BY DEF TypeOK, Rows
  <2> QED BY <1>4, <2>1, AttemptTypes, SetType DEF TypeOK, AdminRead, Owners
<1>5. ASSUME NEW a \in Admins, AdminClaim(a) PROVE TypeOK'
  <2>1. /\ a \in Owners
        /\ own[a].pc # "idle"
    BY <1>5 DEF AdminClaim, Owners
  <2>2. /\ own[a] \in Attempts /\ own[a].ev \in Events
        /\ Claimed(RowOf(a)) \in Rows
        /\ Claimed(RowOf(a)).gen \in Nat
    BY <2>1, OwnerType, RowTypes DEF Rows
  <2> QED BY <1>5, <2>1, <2>2, AttemptTypes, SetType DEF TypeOK, AdminClaim
<1>6. ASSUME NEW o \in Owners, StartAttempt(o) PROVE TypeOK'
  <2>1. own[o].mirror \in JobState
    BY DEF TypeOK, Attempts
  <2> QED BY <1>6, <2>1, SetType DEF TypeOK, StartAttempt, Pc
<1>7. ASSUME NEW o \in Owners, Heartbeat(o) PROVE TypeOK'
  <2>1. own[o].pc # "idle"
    BY <1>7 DEF Heartbeat, Beating, Disposition
  <2> QED BY <1>7, <2>1, OwnerType, RowTypes, AttemptTypes, SetType DEF TypeOK, Heartbeat
<1>8. ASSUME NEW o \in Owners, AbortAttempt(o) PROVE TypeOK'
  BY <1>8, AttemptTypes, SetType DEF TypeOK, AbortAttempt, Beating, Disposition
<1>9. ASSUME NEW o \in Owners, ReachIngest(o) PROVE TypeOK'
  BY <1>9, SetType DEF TypeOK, ReachIngest, Pc
<1>10. ASSUME NEW o \in Owners, Abandon(o) \/ IngestLosesFence(o) \/ Crash(o) PROVE TypeOK'
  BY <1>10, SetType DEF TypeOK, Abandon, IngestLosesFence, Crash
<1>11. ASSUME NEW o \in Owners, AttemptFails(o) \/ IngestFindsOrder(o) PROVE TypeOK'
  <2>1. PICK d \in Disposition : SetOwn(o, Verdict(o, d))
    BY <1>11 DEF AttemptFails, IngestFindsOrder, Disposition
  <2>2. own[o].pc # "idle"
    BY <1>11 DEF AttemptFails, IngestFindsOrder
  <2> QED BY <1>11, <2>1, <2>2, VerdictType, SetType DEF TypeOK, AttemptFails, IngestFindsOrder
<1>12. ASSUME NEW o \in Owners, IngestCommits(o) PROVE TypeOK'
  <2>1. own[o].pc # "idle"
    BY <1>12 DEF IngestCommits
  <2>2. inbox' \in [Events -> Rows]
    BY <1>12, <2>1, OwnerType, RowTypes, SetType DEF IngestCommits
  <2>3. creator' \in [Orders -> Creators]
    BY <1>12 DEF IngestCommits, TypeOK, Creators
  <2>4. own' \in [Owners -> Attempts]
    BY <1>12, <2>1, VerdictType, SetType DEF IngestCommits, Pc
  <2> QED BY <1>12, <2>2, <2>3, <2>4 DEF IngestCommits, TypeOK
<1>13. ASSUME NEW o \in Owners, FinalizeRetryable(o) PROVE TypeOK'
  <2>1. own[o].pc # "idle"
    BY <1>13 DEF FinalizeRetryable
  <2>2. own[o] \in Attempts /\ own[o].ev \in Events /\ RowOf(o) \in Rows
    BY <2>1, OwnerType
  <2>3. RetryAfter(RowOf(o)) \in Nat \cup {NoTime}
    BY <2>2, RetryAfterType DEF Rows
  <2>4. {"retry_scheduled", "dead_letter_ready"} \subseteq JobState
    BY DEF JobState
  <2>5. Failed(RowOf(o), RetryAfter(RowOf(o))) \in Rows
    BY <2>2, <2>3, RowTypes
  <2>6. inbox' \in [Events -> Rows]
    BY <1>13, <2>2, <2>5, SetType DEF TypeOK, FinalizeRetryable
  <2>7. own' \in [Owners -> Attempts]
    BY <1>13, <2>2, <2>4, AttemptTypes, SetType DEF FinalizeRetryable
  <2> QED BY <1>13, <2>6, <2>7 DEF TypeOK, FinalizeRetryable
<1>14. ASSUME NEW o \in Owners, FinalizeTerminal(o) PROVE TypeOK'
  <2>1. own[o].pc # "idle"
    BY <1>14 DEF FinalizeTerminal
  <2>2. own[o] \in Attempts /\ own[o].ev \in Events /\ RowOf(o) \in Rows /\ "failed" \in JobState
    BY <2>1, OwnerType DEF JobState
  <2> QED BY <1>14, <2>2, RowTypes, AttemptTypes, SetType DEF TypeOK, FinalizeTerminal
<1>15. ASSUME NEW o \in Owners, ReportCommit(o) \/ MirrorOutcome(o) PROVE TypeOK'
  <2>1. own[o].mirror \in JobState /\ "completed" \in JobState
    BY DEF TypeOK, Attempts, JobState
  <2> QED BY <1>15, <2>1, SetType DEF TypeOK, ReportCommit, MirrorOutcome
<1>16. ASSUME NEW s \in Orders, RepairInspect(s) \/ RepairExecute(s) \/ RepairRefused(s) PROVE TypeOK'
  BY <1>16 DEF TypeOK, Creators, RepairInspect, RepairExecute, RepairRefused, RepairEnds, View
<1>17. CASE Tick
  BY <1>17, RowTypes DEF TypeOK, Tick
<1> QED
  BY <1>0, <1>1, <1>2, <1>3, <1>4, <1>5, <1>6, <1>7, <1>8, <1>9, <1>10, <1>11, <1>12, <1>13,
     <1>14, <1>15, <1>16, <1>17 DEF Next, Progress

\* Rows, attempts, jobs and plans keep the shape the schema gives them.
THEOREM TypeCorrect == Spec => []TypeOK
<1>1. Init => TypeOK
  BY InitType
<1>2. TypeOK /\ [Next]_vars => TypeOK'
  BY NextType
<1> QED BY <1>1, <1>2, PTL DEF Spec

-----------------------------------------------------------------------------
(* The inductive invariant *)

\* A row holds a lease exactly while an enrolled attempt is open, is scheduled
\* only with an attempt left, and counts every claim in its generation.
RowOK(r) ==
    /\ r.status = "PROCESSING" => (r.enrolled <=> r.lease # NoTime)
    /\ r.status # "PROCESSING" => r.lease = NoTime
    /\ r.status = "ABSENT" => r.gen = 0
    /\ r.avail # NoTime => Waiting(r) /\ r.enrolled /\ r.attempts < MaxAttempts
    /\ r.attempts <= MaxAttempts
    /\ r.gen # r.attempts =>
           /\ r.gen = MaxAttempts + 1
           /\ r.attempts = MaxAttempts
           /\ r.status = "FAILED"
           /\ r.avail = NoTime

RowInv == \A e \in Events : RowOK(inbox[e])

\* An operator claims only what it read as waiting, an owner that has seen its
\* commit has a PROCESSED row, and no other step announces a completion.
OwnInv ==
    \A o \in Owners :
        /\ own[o].pc = "read" => own[o].seen \in {"RECEIVED", "FAILED"}
        /\ own[o].pc = "committed" => RowOf(o).status = "PROCESSED"
        /\ own[o].mirror # "completed"

IInv ==
    /\ TypeOK
    /\ RowInv
    /\ OwnInv
    /\ AtMostOneWriter
    /\ ProcessedCreatedTheOrder
    /\ JobCompletionIsTrue

\* The strengthened invariant holds at first.
LEMMA InitIInv == Init => IInv
<1> SUFFICES ASSUME Init PROVE IInv
  OBVIOUS
<1>1. TypeOK
  BY InitType
<1>2. \A e \in Events : \E st \in Status \ {"PROCESSED"} : inbox[e] = Row(st, FALSE, NoTime)
  BY DEF Init
<1>3. RowInv
  <2>1. ASSUME NEW st \in Status PROVE RowOK(Row(st, FALSE, NoTime))
    <3> DEFINE r == Row(st, FALSE, NoTime)
    <3>1. /\ r.status = st /\ r.enrolled = FALSE /\ r.avail = NoTime
          /\ r.attempts = 0 /\ r.gen = 0 /\ r.lease = NoTime
      BY DEF Row
    <3>2. r.enrolled <=> r.lease # NoTime
      BY <3>1, Zenon
    <3> HIDE DEF r
    <3>3. RowOK(r)
      BY <3>1, <3>2, ConstantsAssumption DEF RowOK, ConstantsAssumption
    <3> QED BY <3>3 DEF r
  <2> QED BY <1>2, <2>1 DEF RowInv
<1>4. OwnInv /\ AtMostOneWriter
  BY DEF Init, OwnInv, AtMostOneWriter, Active, Disposition, Idle
<1>5. \A e \in Events : inbox[e].status # "PROCESSED"
  <2>1. ASSUME NEW e \in Events PROVE inbox[e].status # "PROCESSED"
    <3>1. PICK st \in Status \ {"PROCESSED"} : inbox[e] = Row(st, FALSE, NoTime)
      BY <1>2
    <3>2. inbox[e].status = st
      BY <3>1 DEF Row
    <3> QED BY <3>1, <3>2
  <2> QED BY <2>1
<1>6. ProcessedCreatedTheOrder /\ JobCompletionIsTrue
  BY <1>5 DEF Init, ProcessedCreatedTheOrder, JobCompletionIsTrue
<1> QED BY <1>1, <1>3, <1>4, <1>6 DEF IInv

\* What each write of the ownership service leaves in a sound row.
LEMMA RowWrites ==
    ASSUME NEW r \in Rows, RowOK(r)
    PROVE  /\ r.attempts < MaxAttempts => RowOK(Claimed(r))
           /\ r.status = "PROCESSING" /\ r.enrolled =>
                 /\ RowOK(Failed(r, NoTime))
                 /\ RowOK(Failed(r, RetryAfter(r)))
                 /\ RowOK([r EXCEPT !.lease = LeaseTicks])
                 /\ RowOK([r EXCEPT !.status = "PROCESSED", !.lease = NoTime, !.avail = NoTime])
           /\ Exhausted(r) => RowOK([Failed(r, NoTime) EXCEPT !.gen = @ + 1])
           /\ RowOK([r EXCEPT !.lease = Sooner(@), !.avail = Sooner(@)])
<1>0. LeaseTicks \in Nat /\ LeaseTicks # NoTime /\ MaxAttempts \in Nat
  BY ConstantsAssumption DEF ConstantsAssumption, NoTime
<1>1. r.attempts < MaxAttempts => RowOK(Claimed(r))
  BY <1>0 DEF RowOK, Claimed, Rows
<1>2. ASSUME r.status = "PROCESSING", r.enrolled
      PROVE  /\ RowOK(Failed(r, NoTime))
             /\ RowOK([r EXCEPT !.lease = LeaseTicks])
             /\ RowOK([r EXCEPT !.status = "PROCESSED", !.lease = NoTime, !.avail = NoTime])
  BY <1>0, <1>2 DEF RowOK, Failed, Rows, Waiting
<1>3. ASSUME r.status = "PROCESSING", r.enrolled PROVE RowOK(Failed(r, RetryAfter(r)))
  <2>1. RetryAfter(r) # NoTime => r.attempts < MaxAttempts
    BY DEF RetryAfter
  <2> QED BY <1>0, <1>3, <2>1 DEF RowOK, Failed, Rows, Waiting
<1>4. ASSUME Exhausted(r) PROVE RowOK([Failed(r, NoTime) EXCEPT !.gen = @ + 1])
  <2>1. Failed(r, NoTime) \in Rows
    BY RowTypes DEF NoTime
  <2>2. /\ Failed(r, NoTime).gen = r.attempts
        /\ Failed(r, NoTime).attempts = MaxAttempts
        /\ Failed(r, NoTime).status = "FAILED"
        /\ Failed(r, NoTime).lease = NoTime
        /\ Failed(r, NoTime).avail = NoTime
    BY <1>0, <1>4 DEF RowOK, Failed, Rows, Exhausted
  <2>3. r.attempts = MaxAttempts
    BY <1>0, <1>4 DEF RowOK, Exhausted, Rows
  <2> QED BY <1>0, <2>1, <2>2, <2>3 DEF RowOK, Rows
<1>5. RowOK([r EXCEPT !.lease = Sooner(@), !.avail = Sooner(@)])
  <2>1. \A t \in Nat \cup {NoTime} : Sooner(t) # NoTime <=> t # NoTime
    BY DEF Sooner, NoTime
  <2> QED BY <2>1 DEF RowOK, Rows, Waiting
<1> QED BY <1>1, <1>2, <1>3, <1>4, <1>5

\* Apart from the passing of time and the commit of an ingestion, a step
\* rewrites at most one row, soundly, not a PROCESSED one and not into one,
\* and never turns its generation back.
Rewrites(e, r) ==
    /\ SetRow(e, r)
    /\ r \in Rows
    /\ RowOK(r)
    /\ inbox[e].status # "PROCESSED"
    /\ r.status # "PROCESSED"
    /\ r.gen >= inbox[e].gen

\* A step leaves the rows alone, or rewrites one in one of the ways of Rewrites.
LEMMA RowStep ==
    ASSUME TypeOK, RowInv, OwnInv, [Next]_vars
    PROVE  \/ UNCHANGED inbox
           \/ Tick
           \/ \E o \in Owners : IngestCommits(o)
           \/ \E e \in Events, r \in Rows : Rewrites(e, r)
<1> DEFINE P == \/ UNCHANGED inbox
                \/ \E e \in Events, r \in Rows : Rewrites(e, r)
<1>0. ASSUME NEW e \in Events PROVE inbox[e] \in Rows /\ RowOK(inbox[e])
  BY DEF TypeOK, RowInv
<1>1. ASSUME NEW e \in Events, Receive(e) PROVE P
  <2> DEFINE r == Row("RECEIVED", TRUE, 0)
  <2>1. r \in Rows
    BY RowTypes DEF Status
  <2>2. RowOK(r)
    BY ConstantsAssumption DEF RowOK, Row, Waiting, NoTime, ConstantsAssumption
  <2>3. inbox[e].gen = 0
    BY <1>1, <1>0 DEF Receive, RowOK
  <2>4. r.gen = 0 /\ r.status = "RECEIVED"
    BY DEF Row
  <2>5. SetRow(e, r) /\ inbox[e].status = "ABSENT"
    BY <1>1 DEF Receive
  <2> HIDE DEF r
  <2>6. Rewrites(e, r)
    BY <2>1, <2>2, <2>3, <2>4, <2>5 DEF Rewrites
  <2> QED BY <2>1, <2>6
<1>2. ASSUME NEW x \in Executors, NEW e \in Events, ClaimDue(x, e) PROVE P
  <2>1. Claimed(inbox[e]) \in Rows /\ RowOK(Claimed(inbox[e]))
    BY <1>0, <1>2, RowTypes, RowWrites DEF ClaimDue, Claimable
  <2>2. inbox[e].status # "PROCESSED"
    BY <1>2 DEF ClaimDue, Claimable, Due, Waiting
  <2>3. /\ Claimed(inbox[e]).gen >= inbox[e].gen
        /\ Claimed(inbox[e]).status = "PROCESSING"
    BY <1>0 DEF Claimed, Rows
  <2> QED BY <1>2, <2>1, <2>2, <2>3 DEF ClaimDue, Rewrites
<1>3. ASSUME NEW x \in Executors, NEW e \in Events, FenceExhausted(x, e) PROVE P
  <2> DEFINE r == [Failed(inbox[e], NoTime) EXCEPT !.gen = @ + 1]
  <2>1. r \in Rows /\ RowOK(r)
    BY <1>0, <1>3, RowTypes, RowWrites DEF FenceExhausted
  <2>2. Failed(inbox[e], NoTime) \in Rows
    BY <1>0, RowTypes DEF NoTime
  <2>3. Failed(inbox[e], NoTime).gen = inbox[e].gen /\ Failed(inbox[e], NoTime).status = "FAILED"
    BY <1>0 DEF Failed, Rows
  <2>4. r.gen = inbox[e].gen + 1 /\ r.status = "FAILED"
    BY <2>2, <2>3 DEF Rows
  <2>5. SetRow(e, r) /\ inbox[e].status # "PROCESSED"
    BY <1>3 DEF FenceExhausted, Exhausted
  <2> HIDE DEF r
  <2> QED BY <1>0, <2>1, <2>4, <2>5 DEF Rewrites, Rows
<1>4. ASSUME NEW a \in Admins, AdminClaim(a) PROVE P
  <2>1. CASE UNCHANGED inbox
    BY <2>1
  <2>2. CASE StillAsRead(a) /\ SetRow(own[a].ev, Claimed(RowOf(a)))
    <3>1. a \in Owners /\ own[a].pc = "read"
      BY <1>4 DEF AdminClaim, Owners
    <3>2. own[a].ev \in Events
      BY <3>1, OwnerType
    <3>3. RowOf(a).status \in {"RECEIVED", "FAILED"}
      BY <2>2, <3>1 DEF StillAsRead, OwnInv
    <3>4. Claimed(RowOf(a)) \in Rows /\ RowOK(Claimed(RowOf(a)))
      BY <1>0, <2>2, <3>2, RowTypes, RowWrites DEF StillAsRead, RowOf
    <3>5. /\ Claimed(RowOf(a)).gen >= RowOf(a).gen
          /\ Claimed(RowOf(a)).status = "PROCESSING"
          /\ RowOf(a) = inbox[own[a].ev]
      BY <1>0, <3>2 DEF Claimed, Rows, RowOf
    <3>6. Rewrites(own[a].ev, Claimed(RowOf(a)))
      BY <2>2, <3>3, <3>4, <3>5 DEF Rewrites
    <3> QED BY <3>2, <3>4, <3>6
  <2> QED BY <1>4, <2>1, <2>2 DEF AdminClaim
<1>5. ASSUME NEW o \in Owners, own[o].pc # "idle", Fenced(o)
      PROVE  /\ own[o].ev \in Events
             /\ RowOf(o) \in Rows
             /\ RowOK(RowOf(o))
             /\ RowOf(o) = inbox[own[o].ev]
             /\ RowOf(o).status = "PROCESSING" /\ RowOf(o).enrolled
  BY <1>0, <1>5, OwnerType DEF Fenced, RowOf
<1>6. ASSUME NEW o \in Owners, Heartbeat(o) PROVE P
  <2>1. CASE Fenced(o) /\ SetRow(own[o].ev, [RowOf(o) EXCEPT !.lease = LeaseTicks])
    <3>1. own[o].pc # "idle"
      BY <1>6 DEF Beating, Disposition, Heartbeat
    <3>2. [RowOf(o) EXCEPT !.lease = LeaseTicks] \in Rows /\ RowOK([RowOf(o) EXCEPT !.lease = LeaseTicks])
      BY <1>5, <2>1, <3>1, RowTypes, RowWrites
    <3>3. /\ [RowOf(o) EXCEPT !.lease = LeaseTicks].gen = RowOf(o).gen
          /\ [RowOf(o) EXCEPT !.lease = LeaseTicks].status = "PROCESSING"
          /\ RowOf(o).gen \in Nat
      BY <1>5, <2>1, <3>1 DEF Rows
    <3>4. Rewrites(own[o].ev, [RowOf(o) EXCEPT !.lease = LeaseTicks])
      <4> DEFINE r == [RowOf(o) EXCEPT !.lease = LeaseTicks]
      <4>1. r.gen >= inbox[own[o].ev].gen /\ r.status = "PROCESSING" /\ r \in Rows /\ RowOK(r)
        BY <1>5, <2>1, <3>1, <3>2, <3>3
      <4>2. SetRow(own[o].ev, r)
        BY <2>1
      <4> HIDE DEF r
      <4>3. Rewrites(own[o].ev, r)
        BY <1>5, <2>1, <3>1, <4>1, <4>2 DEF Rewrites
      <4> QED BY <4>3 DEF r
    <3>5. own[o].ev \in Events
      BY <1>5, <2>1, <3>1
    <3> QED BY <3>2, <3>4, <3>5
  <2> QED BY <1>6, <2>1 DEF Heartbeat
<1>7. ASSUME NEW o \in Owners, FinalizeRetryable(o) \/ FinalizeTerminal(o) PROVE P
  <2>1. ASSUME NEW a \in Nat \cup {NoTime}, Fenced(o), SetRow(own[o].ev, Failed(RowOf(o), a)),
               RowOK(Failed(RowOf(o), a))
        PROVE P
    <3>1. own[o].pc # "idle"
      BY <1>7 DEF FinalizeRetryable, FinalizeTerminal
    <3>2. Failed(RowOf(o), a) \in Rows
      BY <1>5, <2>1, <3>1, RowTypes
    <3>3. Failed(RowOf(o), a).gen = RowOf(o).gen /\ Failed(RowOf(o), a).status = "FAILED"
      BY <1>5, <2>1, <3>1 DEF Failed, Rows
    <3> QED BY <1>5, <2>1, <3>1, <3>2, <3>3 DEF Rewrites, Rows
  <2>2. ASSUME Fenced(o)
        PROVE  /\ RetryAfter(RowOf(o)) \in Nat \cup {NoTime}
               /\ RowOK(Failed(RowOf(o), RetryAfter(RowOf(o))))
               /\ RowOK(Failed(RowOf(o), NoTime))
    <3>1. own[o].pc # "idle"
      BY <1>7 DEF FinalizeRetryable, FinalizeTerminal
    <3>2. RowOf(o).attempts \in Nat
      BY <1>5, <2>2, <3>1 DEF Rows
    <3> QED BY <1>5, <2>2, <3>1, <3>2, RetryAfterType, RowWrites
  <2> QED BY <1>7, <2>1, <2>2 DEF FinalizeRetryable, FinalizeTerminal, NoTime
<1>8. ASSUME NEW o \in Owners,
             StartAttempt(o) \/ AbortAttempt(o) \/ ReachIngest(o) \/ Abandon(o) \/ AttemptFails(o)
             \/ IngestLosesFence(o) \/ IngestFindsOrder(o) \/ ReportCommit(o) \/ MirrorOutcome(o)
             \/ Crash(o)
      PROVE  UNCHANGED inbox
  BY <1>8 DEF StartAttempt, AbortAttempt, ReachIngest, Abandon, AttemptFails, IngestLosesFence,
              IngestFindsOrder, ReportCommit, MirrorOutcome, Crash
<1>9. ASSUME NEW s \in Orders, RepairInspect(s) \/ RepairExecute(s) \/ RepairRefused(s)
      PROVE  UNCHANGED inbox
  BY <1>9 DEF RepairInspect, RepairExecute, RepairRefused, RepairEnds, View
<1>10. ASSUME NEW a \in Admins, NEW e \in Events, AdminRead(a, e) PROVE UNCHANGED inbox
  BY <1>10 DEF AdminRead
<1>11. CASE UNCHANGED vars
  BY <1>11 DEF vars
<1> QED
  BY <1>1, <1>2, <1>3, <1>4, <1>6, <1>7, <1>8, <1>9, <1>10, <1>11 DEF Next, Progress

\* Time and the commit of an ingestion keep the rows sound as well.
LEMMA RowsAdvance ==
    ASSUME TypeOK, RowInv, OwnInv, [Next]_vars
    PROVE  /\ RowInv'
           /\ \A e \in Events : inbox'[e].gen >= inbox[e].gen
           /\ \A e \in Events : inbox[e].status = "PROCESSED" => inbox'[e] = inbox[e]
<1>0. ASSUME NEW e \in Events PROVE inbox[e] \in Rows /\ RowOK(inbox[e]) /\ inbox[e].gen >= inbox[e].gen
  BY DEF TypeOK, RowInv, Rows
<1>1. CASE UNCHANGED inbox
  BY <1>0, <1>1 DEF RowInv
<1>2. CASE Tick
  <2>1. ASSUME NEW e \in Events
        PROVE  /\ inbox'[e] = [inbox[e] EXCEPT !.lease = Sooner(@), !.avail = Sooner(@)]
               /\ RowOK(inbox'[e])
               /\ inbox'[e].gen = inbox[e].gen
    BY <1>0, <1>2, RowWrites DEF Tick, Rows
  <2>2. ASSUME NEW e \in Events, inbox[e].status = "PROCESSED" PROVE inbox'[e] = inbox[e]
    <3>1. inbox[e].lease = NoTime /\ inbox[e].avail = NoTime
      BY <1>0, <2>2 DEF RowOK, Waiting
    <3>2. Sooner(NoTime) = NoTime
      BY DEF Sooner, NoTime
    <3>3. inbox'[e] = [inbox[e] EXCEPT !.lease = NoTime, !.avail = NoTime]
      BY <2>1, <3>1, <3>2
    <3>4. inbox[e] \in Rows
      BY <1>0
    <3> QED BY <3>1, <3>3, <3>4 DEF Rows
  <2> QED BY <1>0, <2>1, <2>2 DEF RowInv
<1>3. ASSUME NEW o \in Owners, IngestCommits(o)
      PROVE  /\ RowInv'
             /\ \A e \in Events : inbox'[e].gen >= inbox[e].gen
             /\ \A e \in Events : inbox[e].status = "PROCESSED" => inbox'[e] = inbox[e]
  <2> DEFINE r == [RowOf(o) EXCEPT !.status = "PROCESSED", !.lease = NoTime, !.avail = NoTime]
  <2>1. own[o].ev \in Events /\ RowOf(o) \in Rows /\ RowOf(o) = inbox[own[o].ev] /\ Fenced(o)
    BY <1>3, OwnerType DEF IngestCommits, RowOf
  <2>2. RowOK(r) /\ RowOf(o).status = "PROCESSING"
    BY <1>0, <2>1, RowWrites DEF Fenced
  <2>3. r.gen = RowOf(o).gen
    BY <2>1 DEF Rows
  <2>4. inbox' = [inbox EXCEPT ![own[o].ev] = r]
    BY <1>3 DEF IngestCommits, SetRow
  <2> HIDE DEF r
  <2> QED BY <1>0, <2>1, <2>2, <2>3, <2>4 DEF RowInv, TypeOK
<1>4. ASSUME NEW e \in Events, NEW r \in Rows, Rewrites(e, r)
      PROVE  /\ RowInv'
             /\ \A f \in Events : inbox'[f].gen >= inbox[f].gen
             /\ \A f \in Events : inbox[f].status = "PROCESSED" => inbox'[f] = inbox[f]
  BY <1>0, <1>4 DEF Rewrites, SetRow, RowInv, TypeOK
<1> QED BY <1>1, <1>2, <1>3, <1>4, RowStep

\* An owner goes on with what it was doing, if with anything.
Follows(o) ==
    /\ own'[o].mirror # "completed"
    /\ own'[o].pc = "read" => own'[o].seen \in {"RECEIVED", "FAILED"}
    /\ own'[o].pc = "committed" => own[o].pc = "committed" /\ own'[o].ev = own[o].ev
    /\ Active(o)' => Active(o) /\ own'[o].ev = own[o].ev /\ own'[o].gen = own[o].gen

\* A claim opens a generation that no attempt had before.
Opens(x, e) ==
    /\ own'[x].pc = "claimed"
    /\ own'[x].mirror # "completed"
    /\ own'[x].ev = e
    /\ own'[x].gen = inbox'[e].gen
    /\ inbox'[e].gen = inbox[e].gen + 1
    /\ \A p \in Owners \ {x} : own'[p] = own[p]

\* An owner that moves to a state its row bears out leaves all owners following theirs.
LEMMA OneFollows ==
    ASSUME TypeOK, OwnInv, NEW o \in Owners, NEW a,
           SetOwn(o, a),
           a.mirror # "completed",
           a.pc = "read" => a.seen \in {"RECEIVED", "FAILED"},
           a.pc = "committed" => own[o].pc = "committed" /\ a.ev = own[o].ev,
           a.pc \in {"claimed", "fetching", "ingesting", "retryable", "terminal"} =>
               Active(o) /\ a.ev = own[o].ev /\ a.gen = own[o].gen
    PROVE  \A p \in Owners : Follows(p)
<1>1. own' = [own EXCEPT ![o] = a]
  BY DEF SetOwn
<1>2. own'[o] = a /\ \A p \in Owners \ {o} : own'[p] = own[p]
  BY <1>1 DEF TypeOK
<1>3. Follows(o)
  BY <1>2 DEF Follows, Active, Disposition
<1>4. ASSUME NEW p \in Owners, own'[p] = own[p] PROVE Follows(p)
  BY <1>4 DEF Follows, Active, OwnInv
<1> QED BY <1>2, <1>3, <1>4

\* A step lets owners follow their rows, opens a generation, or commits an order.
LEMMA OwnerStep ==
    ASSUME TypeOK, OwnInv, [Next]_vars
    PROVE  \/ \A p \in Owners : Follows(p)
           \/ \E x \in Owners, e \in Events : Opens(x, e)
           \/ \E o \in Owners : IngestCommits(o) /\ Goto(o, "committed")
<1> DEFINE P == \A p \in Owners : Follows(p)
<1>1. ASSUME UNCHANGED own PROVE P
  BY <1>1 DEF Follows, Active, OwnInv
<1>2. ASSUME NEW o \in Owners, Stop(o) PROVE P
  <2>1. Idle.mirror # "completed" /\ Idle.pc = "idle"
    BY DEF Idle
  <2> QED BY <1>2, <2>1, OneFollows DEF Stop
<1>3. ASSUME NEW o \in Owners, NEW pc \in {"fetching", "ingesting"}, Active(o), Goto(o, pc) PROVE P
  <2> DEFINE a == [own[o] EXCEPT !.pc = pc]
  <2>1. own[o] \in Attempts
    BY DEF TypeOK
  <2>2. a.pc = pc /\ a.ev = own[o].ev /\ a.gen = own[o].gen /\ a.mirror = own[o].mirror
    BY <2>1 DEF Attempts
  <2>3. SetOwn(o, a)
    BY <1>3 DEF Goto
  <2> HIDE DEF a
  <2> QED BY <1>3, <2>2, <2>3, OneFollows DEF OwnInv
<1>4. ASSUME NEW o \in Owners, NEW d \in Disposition, Active(o), SetOwn(o, Verdict(o, d)) PROVE P
  <2> DEFINE a == Verdict(o, d)
  <2>1. own[o] \in Attempts
    BY DEF TypeOK
  <2>2. \/ a = Idle
        \/ \E pc \in Disposition : a = [own[o] EXCEPT !.pc = pc]
    BY DEF Verdict, Disposition
  <2>3. \/ a.pc = "idle" /\ a.mirror # "completed"
        \/ /\ a.pc \in Disposition
           /\ a.ev = own[o].ev /\ a.gen = own[o].gen /\ a.mirror = own[o].mirror
    BY <2>1, <2>2 DEF Attempts, Idle
  <2>4. SetOwn(o, a)
    BY <1>4
  <2> HIDE DEF a
  <2> QED BY <1>4, <2>3, <2>4, OneFollows DEF OwnInv, Disposition
<1>5. ASSUME NEW o \in Owners, own[o].pc # "idle", own[o].pc # "read",
             SetOwn(o, [own[o] EXCEPT !.aborted = TRUE])
      PROVE  P
  <2> DEFINE a == [own[o] EXCEPT !.aborted = TRUE]
  <2>1. own[o] \in Attempts
    BY DEF TypeOK
  <2>2. a.pc = own[o].pc /\ a.ev = own[o].ev /\ a.gen = own[o].gen /\ a.mirror = own[o].mirror
    BY <2>1 DEF Attempts
  <2>3. SetOwn(o, a)
    BY <1>5
  <2> HIDE DEF a
  <2> QED BY <1>5, <2>2, <2>3, OneFollows DEF OwnInv, Active, Disposition
<1>6. ASSUME NEW o \in Owners, NEW m \in JobState \ {"completed"},
             SetOwn(o, [own[o] EXCEPT !.pc = "mirroring", !.mirror = m])
      PROVE  P
  <2> DEFINE a == [own[o] EXCEPT !.pc = "mirroring", !.mirror = m]
  <2>1. own[o] \in Attempts
    BY DEF TypeOK
  <2>2. a.pc = "mirroring" /\ a.mirror = m
    BY <2>1 DEF Attempts
  <2>3. SetOwn(o, a)
    BY <1>6
  <2> HIDE DEF a
  <2> QED BY <2>2, <2>3, OneFollows
<1>7. ASSUME NEW x \in Executors, NEW e \in Events, ClaimDue(x, e) PROVE Opens(x, e)
  <2>1. PICK m \in {"retrying", "processing"} :
            SetOwn(x, [Idle EXCEPT !.pc = "claimed", !.ev = e, !.gen = Claimed(inbox[e]).gen,
                                   !.mirror = m])
    BY <1>7 DEF ClaimDue
  <2> DEFINE a == [Idle EXCEPT !.pc = "claimed", !.ev = e, !.gen = Claimed(inbox[e]).gen, !.mirror = m]
  <2>2. a.pc = "claimed" /\ a.mirror = m /\ a.ev = e /\ a.gen = Claimed(inbox[e]).gen
    BY DEF Idle
  <2> HIDE DEF a
  <2>3. own' = [own EXCEPT ![x] = a]
    BY <2>1 DEF SetOwn, a
  <2>4. inbox'[e] = Claimed(inbox[e]) /\ Claimed(inbox[e]).gen = inbox[e].gen + 1
    BY <1>7 DEF ClaimDue, SetRow, TypeOK, Claimed
  <2> QED BY <2>2, <2>3, <2>4 DEF Opens, TypeOK, Owners
<1>8. ASSUME NEW a \in Admins, AdminClaim(a), ~Stop(a)
      PROVE  Opens(a, own[a].ev) /\ own[a].ev \in Events
  <2> DEFINE b == [own[a] EXCEPT !.pc = "claimed", !.gen = Claimed(RowOf(a)).gen]
  <2>1. a \in Owners /\ own[a].pc = "read"
    BY <1>8 DEF AdminClaim, Owners
  <2>2. own[a] \in Attempts /\ own[a].ev \in Events
    BY <2>1, OwnerType
  <2>3. b.pc = "claimed" /\ b.mirror = own[a].mirror /\ b.ev = own[a].ev /\ b.gen = Claimed(RowOf(a)).gen
    BY <2>2 DEF Attempts
  <2> HIDE DEF b
  <2>4. own' = [own EXCEPT ![a] = b]
    BY <1>8 DEF AdminClaim, SetOwn, b
  <2>5. inbox'[own[a].ev] = Claimed(RowOf(a)) /\ Claimed(RowOf(a)).gen = inbox[own[a].ev].gen + 1
    BY <1>8, <2>2 DEF AdminClaim, SetRow, TypeOK, Claimed, RowOf
  <2> QED BY <2>1, <2>2, <2>3, <2>4, <2>5 DEF Opens, TypeOK, OwnInv
<1>9. ASSUME NEW x \in Executors, NEW e \in Events, FenceExhausted(x, e) PROVE P
  <2> DEFINE a == [Idle EXCEPT !.pc = "mirroring", !.ev = e, !.mirror = "dead_letter_ready"]
  <2>1. a.pc = "mirroring" /\ a.mirror = "dead_letter_ready"
    BY DEF Idle
  <2>2. SetOwn(x, a) /\ x \in Owners
    BY <1>9 DEF FenceExhausted, Owners
  <2> HIDE DEF a
  <2> QED BY <2>1, <2>2, OneFollows
<1>10. ASSUME NEW x \in Admins, NEW e \in Events, AdminRead(x, e) PROVE P
  <2>1. PICK b \in BOOLEAN :
            SetOwn(x, [Idle EXCEPT !.pc = "read", !.ev = e, !.seen = inbox[e].status, !.legacy = b])
    BY <1>10 DEF AdminRead
  <2> DEFINE a == [Idle EXCEPT !.pc = "read", !.ev = e, !.seen = inbox[e].status, !.legacy = b]
  <2>2. a.pc = "read" /\ a.mirror = "none" /\ a.seen = inbox[e].status
    BY DEF Idle
  <2>3. SetOwn(x, a) /\ x \in Owners
    BY <2>1 DEF Owners
  <2> HIDE DEF a
  <2> QED BY <1>10, <2>2, <2>3, OneFollows DEF AdminRead, Waiting
<1>11. ASSUME NEW o \in Owners, Progress(o) \/ Heartbeat(o) \/ AbortAttempt(o) \/ Crash(o),
              ~(IngestCommits(o) /\ Goto(o, "committed"))
       PROVE  P
  <2>1. CASE StartAttempt(o) \/ ReachIngest(o)
    BY <1>3, <2>1 DEF StartAttempt, ReachIngest, Active
  <2>2. CASE Abandon(o) \/ IngestLosesFence(o) \/ ReportCommit(o) \/ MirrorOutcome(o) \/ Crash(o)
    BY <1>2, <2>2 DEF Abandon, IngestLosesFence, ReportCommit, MirrorOutcome, Crash
  <2>3. CASE AttemptFails(o) \/ IngestFindsOrder(o) \/ IngestCommits(o)
    <3>1. Active(o)
      BY <2>3 DEF AttemptFails, IngestFindsOrder, IngestCommits, Active
    <3>2. PICK d \in Disposition : SetOwn(o, Verdict(o, d))
      BY <1>11, <2>3 DEF AttemptFails, IngestFindsOrder, IngestCommits, Disposition
    <3> QED BY <1>4, <3>1, <3>2
  <2>4. CASE FinalizeRetryable(o) \/ FinalizeTerminal(o)
    <3>1. {"retry_scheduled", "dead_letter_ready", "failed"} \subseteq JobState \ {"completed"}
      BY DEF JobState
    <3>2. \/ Stop(o)
          \/ \E m \in {"retry_scheduled", "dead_letter_ready", "failed"} :
                SetOwn(o, [own[o] EXCEPT !.pc = "mirroring", !.mirror = m])
      BY <2>4 DEF FinalizeRetryable, FinalizeTerminal
    <3> QED BY <1>2, <1>6, <3>1, <3>2
  <2>5. CASE Heartbeat(o) \/ AbortAttempt(o)
    BY <1>1, <1>5, <2>5 DEF Heartbeat, AbortAttempt, Beating, Disposition
  <2> QED BY <1>11, <2>1, <2>2, <2>3, <2>4, <2>5 DEF Progress
<1>12. ASSUME NEW a \in Admins, AdminClaim(a) PROVE P \/ (Opens(a, own[a].ev) /\ own[a].ev \in Events)
  <2>1. a \in Owners
    BY DEF Owners
  <2>2. CASE Stop(a)
    BY <1>2, <2>1, <2>2
  <2>3. CASE ~Stop(a)
    BY <1>8, <1>12, <2>3
  <2> QED BY <2>2, <2>3
<1>13. ASSUME NEW e \in Events, Receive(e) PROVE P
  BY <1>1, <1>13 DEF Receive
<1>14. ASSUME NEW s \in Orders, RepairInspect(s) \/ RepairExecute(s) \/ RepairRefused(s) PROVE P
  BY <1>1, <1>14 DEF RepairInspect, RepairExecute, RepairRefused, RepairEnds, View
<1>15. ASSUME Tick \/ UNCHANGED vars PROVE P
  BY <1>1, <1>15 DEF Tick, vars
<1>16. Executors \subseteq Owners /\ Admins \subseteq Owners
  BY DEF Owners
<1> HIDE DEF P
<1>17. \/ P
       \/ \E x \in Owners, e \in Events : Opens(x, e)
       \/ \E o \in Owners : IngestCommits(o) /\ Goto(o, "committed")
  <2>1. ASSUME NEW x \in Executors, NEW e \in Events, ClaimDue(x, e) \/ FenceExhausted(x, e)
        PROVE  P \/ \E y \in Owners, f \in Events : Opens(y, f)
    BY <1>7, <1>9, <1>16, <2>1
  <2>2. ASSUME NEW a \in Admins, AdminClaim(a)
        PROVE  P \/ \E y \in Owners, f \in Events : Opens(y, f)
    BY <1>12, <1>16, <2>2
  <2>3. ASSUME NEW o \in Owners, Progress(o) \/ Heartbeat(o) \/ AbortAttempt(o) \/ Crash(o)
        PROVE  P \/ (IngestCommits(o) /\ Goto(o, "committed"))
    BY <1>11, <2>3
  <2>4. CASE \E x \in Executors, e \in Events : ClaimDue(x, e) \/ FenceExhausted(x, e)
    BY <2>1, <2>4
  <2>5. CASE \E a \in Admins : AdminClaim(a)
    BY <2>2, <2>5
  <2>6. CASE \E o \in Owners : Progress(o) \/ Heartbeat(o) \/ AbortAttempt(o) \/ Crash(o)
    BY <2>3, <2>6
  <2>7. CASE \E a \in Admins, e \in Events : AdminRead(a, e)
    BY <1>10, <2>7
  <2>8. CASE \E e \in Events : Receive(e)
    BY <1>13, <2>8
  <2>9. CASE \E s \in Orders : RepairInspect(s) \/ RepairExecute(s) \/ RepairRefused(s)
    BY <1>14, <2>9
  <2>10. CASE Tick \/ UNCHANGED vars
    BY <1>15, <2>10
  <2> QED BY <2>4, <2>5, <2>6, <2>7, <2>8, <2>9, <2>10 DEF Next
<1> QED BY <1>17 DEF P

-----------------------------------------------------------------------------
(* The parts of the invariant that relate several owners, rows and orders   *)

\* Every step keeps what the owners know about their rows.
LEMMA OwnInvNext == IInv /\ [Next]_vars => OwnInv'
<1> SUFFICES ASSUME IInv, [Next]_vars, NEW o \in Owners
             PROVE  /\ own'[o].pc = "read" => own'[o].seen \in {"RECEIVED", "FAILED"}
                    /\ own'[o].pc = "committed" => RowOf(o)'.status = "PROCESSED"
                    /\ own'[o].mirror # "completed"
  BY DEF OwnInv
<1>1. \A e \in Events : inbox[e].status = "PROCESSED" => inbox'[e] = inbox[e]
  BY RowsAdvance DEF IInv
<1>2. own[o].pc = "committed" => own[o].ev \in Events /\ inbox[own[o].ev].status = "PROCESSED"
  BY OwnerType DEF IInv, OwnInv, RowOf
<1>3. CASE Follows(o)
  BY <1>1, <1>2, <1>3 DEF Follows, RowOf
<1>4. ASSUME NEW x \in Owners, NEW e \in Events, Opens(x, e)
      PROVE  /\ own'[o].pc = "read" => own'[o].seen \in {"RECEIVED", "FAILED"}
             /\ own'[o].pc = "committed" => RowOf(o)'.status = "PROCESSED"
             /\ own'[o].mirror # "completed"
  <2>1. CASE o = x
    BY <1>4, <2>1 DEF Opens
  <2>2. CASE o # x
    BY <1>1, <1>2, <1>4, <2>2 DEF Opens, IInv, OwnInv, RowOf
  <2> QED BY <2>1, <2>2
<1>5. ASSUME NEW x \in Owners, IngestCommits(x), Goto(x, "committed")
      PROVE  /\ own'[o].pc = "read" => own'[o].seen \in {"RECEIVED", "FAILED"}
             /\ own'[o].pc = "committed" => RowOf(o)'.status = "PROCESSED"
             /\ own'[o].mirror # "completed"
  <2>1. /\ own[x] \in Attempts /\ own[x].ev \in Events /\ RowOf(x) \in Rows
        /\ own \in [Owners -> Attempts] /\ inbox \in [Events -> Rows]
    BY <1>5, OwnerType DEF IngestCommits, IInv, TypeOK
  <2>2. own' = [own EXCEPT ![x] = [own[x] EXCEPT !.pc = "committed"]]
    BY <1>5 DEF Goto, SetOwn
  <2>3. inbox'[own[x].ev].status = "PROCESSED"
    BY <1>5, <2>1 DEF IngestCommits, SetRow, Rows
  <2>4. CASE o = x
    <3>1. own'[o] = [own[o] EXCEPT !.pc = "committed"]
      BY <2>1, <2>2, <2>4
    <3>2. own'[o].pc = "committed" /\ own'[o].ev = own[o].ev /\ own'[o].mirror = own[o].mirror
      BY <2>1, <2>4, <3>1 DEF Attempts
    <3> QED BY <2>3, <2>4, <3>2 DEF IInv, OwnInv, RowOf
  <2>5. CASE o # x
    <3>1. own'[o] = own[o]
      BY <2>1, <2>2, <2>5
    <3> QED BY <1>1, <1>2, <3>1 DEF IInv, OwnInv, RowOf
  <2> QED BY <2>4, <2>5
<1> QED BY <1>3, <1>4, <1>5, OwnerStep DEF IInv

\* A generation is opened by one claim, above all that came before it.
LEMMA WriterNext == IInv /\ [Next]_vars => AtMostOneWriter'
<1> SUFFICES ASSUME IInv, [Next]_vars, NEW o \in Owners, NEW p \in Owners
             PROVE  /\ Active(o)' => own'[o].gen <= RowOf(o)'.gen
                    /\ Active(o)' /\ Active(p)' /\ own'[o].ev = own'[p].ev /\ own'[o].gen = own'[p].gen
                       => o = p
  BY DEF AtMostOneWriter
<1>1. \A e \in Events : /\ inbox[e].gen \in Nat /\ inbox'[e].gen \in Nat
                        /\ inbox'[e].gen >= inbox[e].gen
  BY RowsAdvance, NextType DEF IInv, TypeOK, Rows
<1>2. ASSUME NEW q \in Owners, Active(q)
      PROVE  /\ own[q].ev \in Events
             /\ own[q].gen \in Nat
             /\ own[q].gen <= inbox[own[q].ev].gen
  <2>1. own[q].pc # "idle"
    BY <1>2 DEF Active, Disposition
  <2> QED BY <1>2, <2>1, OwnerType DEF IInv, AtMostOneWriter, RowOf, Attempts
<1>3. Active(o) /\ Active(p) /\ own[o].ev = own[p].ev /\ own[o].gen = own[p].gen => o = p
  BY DEF IInv, AtMostOneWriter
<1>4. CASE \A q \in Owners : Follows(q)
  BY <1>1, <1>2, <1>3, <1>4 DEF Follows, RowOf
<1>5. ASSUME NEW x \in Owners, NEW e \in Events, Opens(x, e)
      PROVE  /\ Active(o)' => own'[o].gen <= RowOf(o)'.gen
             /\ Active(o)' /\ Active(p)' /\ own'[o].ev = own'[p].ev /\ own'[o].gen = own'[p].gen
                => o = p
  <2>1. ASSUME NEW q \in Owners, q # x
        PROVE  own'[q] = own[q] /\ (Active(q)' <=> Active(q))
    BY <1>5, <2>1 DEF Opens, Active
  <2>2. own'[x].ev = e /\ own'[x].gen = inbox'[e].gen /\ inbox'[e].gen = inbox[e].gen + 1
    BY <1>5 DEF Opens
  <2> QED BY <1>1, <1>2, <1>3, <2>1, <2>2 DEF RowOf
<1>6. ASSUME NEW x \in Owners, IngestCommits(x), Goto(x, "committed")
      PROVE  \A q \in Owners : Active(q)' => Active(q) /\ own'[q] = own[q]
  <2>1. own \in [Owners -> Attempts]
    BY DEF IInv, TypeOK
  <2>2. own' = [own EXCEPT ![x] = [own[x] EXCEPT !.pc = "committed"]]
    BY <1>6 DEF Goto, SetOwn
  <2>3. own'[x].pc = "committed"
    BY <2>1, <2>2 DEF Attempts
  <2>4. ~Active(x)'
    BY <2>3 DEF Active, Disposition
  <2>5. \A q \in Owners \ {x} : own'[q] = own[q]
    BY <2>1, <2>2
  <2> QED BY <2>4, <2>5 DEF Active
<1>7. CASE \E x \in Owners : IngestCommits(x) /\ Goto(x, "committed")
  <2>1. \A q \in Owners : Active(q)' => Active(q) /\ own'[q] = own[q]
    BY <1>6, <1>7
  <2> QED BY <1>1, <1>2, <1>3, <2>1 DEF RowOf
<1> QED BY <1>4, <1>5, <1>7, OwnerStep DEF IInv

\* Only the commit of an ingestion makes a row PROCESSED, and apart from a
\* repair of a missing order only it creates an order.
LEMMA OnlyCommitsProcess ==
    ASSUME IInv, [Next]_vars, ~ \E o \in Owners : IngestCommits(o)
    PROVE  /\ \A e \in Events : inbox'[e].status = "PROCESSED" <=> inbox[e].status = "PROCESSED"
           /\ \A s \in Orders : creator'[s] = "intake" <=> creator[s] = "intake"
           /\ \A s \in Orders : creator[s] # "nobody" => creator'[s] = creator[s]
<1>1. \A e \in Events : inbox'[e].status = "PROCESSED" <=> inbox[e].status = "PROCESSED"
  <2>1. CASE UNCHANGED inbox
    BY <2>1
  <2>2. CASE Tick
    BY <2>2 DEF Tick, IInv, TypeOK, Rows
  <2>3. ASSUME NEW e \in Events, NEW r \in Rows, Rewrites(e, r)
        PROVE  \A f \in Events : inbox'[f].status = "PROCESSED" <=> inbox[f].status = "PROCESSED"
    BY <2>3 DEF Rewrites, SetRow, IInv, TypeOK
  <2> QED BY <2>1, <2>2, <2>3, RowStep DEF IInv
<1>2. UNCHANGED creator \/ \E s \in Orders : RepairExecute(s)
  BY DEF Next, vars, Progress, Receive, ClaimDue, FenceExhausted, AdminRead, AdminClaim, StartAttempt,
         ReachIngest, Abandon, AttemptFails, IngestLosesFence, IngestFindsOrder, FinalizeRetryable,
         FinalizeTerminal, ReportCommit, MirrorOutcome, Heartbeat, AbortAttempt, Crash,
         RepairInspect, RepairRefused, Tick
<1>3. ASSUME NEW s \in Orders, RepairExecute(s)
      PROVE  /\ \A t \in Orders : creator'[t] = "intake" <=> creator[t] = "intake"
             /\ \A t \in Orders : creator[t] # "nobody" => creator'[t] = creator[t]
  BY <1>3 DEF RepairExecute, IInv, TypeOK
<1> QED BY <1>1, <1>2, <1>3

\* The commit of the ingestion creates the order and finishes the row, and nothing else.
LEMMA CommitEffect ==
    ASSUME IInv, NEW o \in Owners, IngestCommits(o)
    PROVE  LET e == own[o].ev
           IN  /\ e \in Events /\ OrderOf[e] \in Orders
               /\ inbox[e].status = "PROCESSING"
               /\ inbox'[e].status = "PROCESSED"
               /\ \A f \in Events \ {e} : inbox'[f] = inbox[f]
               /\ creator[OrderOf[e]] = "nobody"
               /\ creator'[OrderOf[e]] = "intake"
               /\ \A s \in Orders \ {OrderOf[e]} : creator'[s] = creator[s]
<1>1. own[o].ev \in Events /\ RowOf(o) \in Rows /\ RowOf(o) = inbox[own[o].ev]
  BY OwnerType DEF IngestCommits, IInv, RowOf
<1>2. OrderOf[own[o].ev] \in Orders
  BY <1>1, ConstantsAssumption DEF ConstantsAssumption
<1>3. RowOf(o).status = "PROCESSING" /\ creator[OrderOf[own[o].ev]] = "nobody"
  BY DEF IngestCommits, Fenced, OrderExists
<1>4. creator' = [creator EXCEPT ![OrderOf[own[o].ev]] = "intake"] /\ creator \in [Orders -> Creators]
  BY DEF IngestCommits, IInv, TypeOK
<1>5. inbox'[own[o].ev].status = "PROCESSED" /\ \A f \in Events \ {own[o].ev} : inbox'[f] = inbox[f]
  BY <1>1 DEF IngestCommits, SetRow, IInv, TypeOK, Rows
<1> QED BY <1>1, <1>2, <1>3, <1>4, <1>5

\* A row becomes PROCESSED only in the step that creates its order.
LEMMA ProcessedNext == IInv /\ [Next]_vars => ProcessedCreatedTheOrder'
<1> SUFFICES ASSUME IInv, [Next]_vars PROVE ProcessedCreatedTheOrder'
  OBVIOUS
<1>0. \A e \in Events : OrderOf[e] \in Orders
  BY ConstantsAssumption DEF ConstantsAssumption
<1>1. CASE ~ \E o \in Owners : IngestCommits(o)
  BY <1>0, <1>1, OnlyCommitsProcess DEF IInv, ProcessedCreatedTheOrder
<1>2. ASSUME NEW o \in Owners, IngestCommits(o) PROVE ProcessedCreatedTheOrder'
  BY <1>0, <1>2, CommitEffect DEF IInv, ProcessedCreatedTheOrder
<1> QED BY <1>1, <1>2

\* The job is completed only by an owner that has seen its commit.
LEMMA JobNext == IInv /\ [Next]_vars => JobCompletionIsTrue'
<1> SUFFICES ASSUME IInv, [Next]_vars, NEW e \in Events, job'[e] = "completed"
             PROVE  inbox'[e].status = "PROCESSED"
  BY DEF JobCompletionIsTrue
<1>1. inbox[e].status = "PROCESSED" => inbox'[e] = inbox[e]
  BY RowsAdvance DEF IInv
<1>2. CASE job'[e] = job[e]
  BY <1>1, <1>2 DEF IInv, JobCompletionIsTrue
<1>3. ASSUME NEW o \in Owners, StartAttempt(o) \/ MirrorOutcome(o) PROVE job'[e] = job[e]
  <2>1. own[o].mirror # "completed"
    BY DEF IInv, OwnInv
  <2> QED BY <1>3, <2>1 DEF StartAttempt, MirrorOutcome, Mirrored, IInv, TypeOK
<1>4. ASSUME NEW o \in Owners, ReportCommit(o) PROVE job'[e] = job[e] \/ inbox[e].status = "PROCESSED"
  <2>1. RowOf(o).status = "PROCESSED"
    BY <1>4 DEF ReportCommit, IInv, OwnInv
  <2> QED BY <1>4, <2>1 DEF ReportCommit, Mirrored, RowOf, IInv, TypeOK
<1>5. UNCHANGED job \/ \E o \in Owners : StartAttempt(o) \/ MirrorOutcome(o) \/ ReportCommit(o)
  BY DEF Next, vars, Progress, Receive, ClaimDue, FenceExhausted, AdminRead, AdminClaim,
         ReachIngest, Abandon, AttemptFails, IngestLosesFence, IngestFindsOrder, IngestCommits,
         FinalizeRetryable, FinalizeTerminal, Heartbeat, AbortAttempt, Crash,
         RepairInspect, RepairExecute, RepairRefused, RepairEnds, View, Tick
<1> QED BY <1>1, <1>2, <1>3, <1>4, <1>5

\* IInv is inductive.
LEMMA NextIInv == IInv /\ [Next]_vars => IInv'
<1> SUFFICES ASSUME IInv, [Next]_vars PROVE IInv'
  OBVIOUS
<1>1. TypeOK'
  BY NextType DEF IInv
<1>2. RowInv'
  BY RowsAdvance DEF IInv
<1> QED BY <1>1, <1>2, OwnInvNext, WriterNext, ProcessedNext, JobNext DEF IInv

\* IInv, on which every safety theorem about the executors rests, holds of every reachable state.
THEOREM Invariance == Spec => []IInv
<1>1. Init => IInv
  BY InitIInv
<1>2. IInv /\ [Next]_vars => IInv'
  BY NextIInv
<1> QED BY <1>1, <1>2, PTL DEF Spec

-----------------------------------------------------------------------------
(* What the invariant gives *)

\* The invariants of the runs follow from IInv.
LEMMA IInvGives ==
    IInv => AtMostOneWriter /\ NoStrandedRetry /\ AttemptBudget
            /\ ProcessedCreatedTheOrder /\ JobCompletionIsTrue
BY DEF IInv, RowInv, RowOK, NoStrandedRetry, AttemptBudget

\* However many executors and recoveries take an event over, at most one of
\* them can pass the fence.
THEOREM OneWriter == Spec => []AtMostOneWriter
BY Invariance, IInvGives, PTL

\* No retry is scheduled that the executors would never find.
THEOREM RetriesAreFound == Spec => []NoStrandedRetry
BY Invariance, IInvGives, PTL

\* Takeovers and recoveries together keep executionMaxAttempts.
THEOREM BudgetIsKept == Spec => []AttemptBudget
BY Invariance, IInvGives, PTL

\* PROCESSED events and the orders intake created correspond one to one.
THEOREM ProcessedMeansCreated == Spec => []ProcessedCreatedTheOrder
BY Invariance, IInvGives, PTL

\* A completed job belongs to a PROCESSED event.
THEOREM CompletionsAreTrue == Spec => []JobCompletionIsTrue
BY Invariance, IInvGives, PTL

\* No step rewrites a PROCESSED row.
THEOREM ProcessedStays == Spec => ProcessedIsFinal
<1>1. IInv /\ [Next]_vars =>
          [\A e \in Events : inbox[e].status = "PROCESSED" => inbox'[e] = inbox[e]]_vars
  BY RowsAdvance DEF IInv
<1> QED BY <1>1, Invariance, PTL DEF Spec, ProcessedIsFinal

\* No order is created twice, by whatever mix of attempts and repairs.
THEOREM NoSecondCreation == Spec => OrderCreatedOnce
<1>1. IInv /\ [Next]_vars =>
          [\A s \in Orders : creator[s] # "nobody" => creator'[s] = creator[s]]_vars
  <2> SUFFICES ASSUME IInv, [Next]_vars
               PROVE  \A s \in Orders : creator[s] # "nobody" => creator'[s] = creator[s]
    OBVIOUS
  <2>1. CASE ~ \E o \in Owners : IngestCommits(o)
    BY <2>1, OnlyCommitsProcess
  <2>2. ASSUME NEW o \in Owners, IngestCommits(o)
        PROVE  \A s \in Orders : creator[s] # "nobody" => creator'[s] = creator[s]
    BY <2>2, CommitEffect
  <2> QED BY <2>1, <2>2
<1> QED BY <1>1, Invariance, PTL DEF Spec, OrderCreatedOnce

\* An owner whose generation or lease is gone writes nothing any more.
THEOREM StaleOwnersAreHarmless == Spec => ReplacedOwnerIsHarmless
<1> DEFINE A == \A o \in Owners :
                   /\ Active(o)
                   /\ RowOf(o).gen # own[o].gen \/ RowOf(o).lease <= 0
                   /\ own'[o] # own[o]
                   => UNCHANGED <<inbox, creator>>
<1>1. IInv /\ [Next]_vars => [A]_vars
  <2> SUFFICES ASSUME IInv, Next, NEW o \in Owners, Active(o),
                      RowOf(o).gen # own[o].gen \/ RowOf(o).lease <= 0,
                      own'[o] # own[o]
               PROVE  UNCHANGED <<inbox, creator>>
    OBVIOUS
  <2>1. own \in [Owners -> Attempts] /\ RowOf(o) \in Rows
    <3>1. own[o].pc # "idle"
      BY DEF Active, Disposition
    <3> QED BY <3>1, OwnerType DEF IInv, TypeOK
  <2>2. ~Fenced(o)
    BY <2>1 DEF Fenced, Rows, NoTime
  <2>3. own[o].pc \notin {"idle", "read"}
    BY DEF Active, Disposition
  <2>4. ASSUME NEW p \in Owners, NEW a, own' = [own EXCEPT ![p] = a] PROVE p = o
    BY <2>1, <2>4
  <2>5. CASE \E e \in Events : Receive(e)
    BY <2>5 DEF Receive
  <2>6. ASSUME NEW x \in Executors, NEW e \in Events, ClaimDue(x, e) \/ FenceExhausted(x, e)
        PROVE  FALSE
    <3>1. x \in Owners /\ own[x].pc = "idle"
      BY <2>6 DEF ClaimDue, FenceExhausted, Owners
    <3>2. \E a : own' = [own EXCEPT ![x] = a]
      BY <2>6 DEF ClaimDue, FenceExhausted, SetOwn
    <3> QED BY <2>3, <2>4, <3>1, <3>2
  <2>7. CASE \E a \in Admins, e \in Events : AdminRead(a, e)
    BY <2>7 DEF AdminRead
  <2>8. ASSUME NEW a \in Admins, AdminClaim(a) PROVE FALSE
    <3>1. a \in Owners /\ own[a].pc = "read"
      BY <2>8 DEF AdminClaim, Owners
    <3>2. \E b : own' = [own EXCEPT ![a] = b]
      BY <2>8 DEF AdminClaim, SetOwn, Stop
    <3> QED BY <2>3, <2>4, <3>1, <3>2
  <2>9. ASSUME NEW p \in Owners, Progress(p) \/ Heartbeat(p) \/ AbortAttempt(p) \/ Crash(p)
        PROVE  UNCHANGED <<inbox, creator>>
    <3>1. UNCHANGED own \/ \E a : own' = [own EXCEPT ![p] = a]
      BY <2>9 DEF Progress, StartAttempt, ReachIngest, Abandon, AttemptFails, IngestLosesFence,
                  IngestFindsOrder, IngestCommits, FinalizeRetryable, FinalizeTerminal, ReportCommit,
                  MirrorOutcome, Heartbeat, AbortAttempt, Crash, Goto, Stop, SetOwn
    <3>2. p = o
      BY <2>4, <3>1
    <3> QED BY <2>2, <2>9, <3>2
            DEF Progress, StartAttempt, ReachIngest, Abandon, AttemptFails, IngestLosesFence,
                IngestFindsOrder, IngestCommits, FinalizeRetryable, FinalizeTerminal, ReportCommit,
                MirrorOutcome, Heartbeat, AbortAttempt, Crash
  <2>10. CASE \E s \in Orders : RepairInspect(s) \/ RepairExecute(s) \/ RepairRefused(s)
    BY <2>10 DEF RepairInspect, RepairExecute, RepairRefused, RepairEnds, View
  <2>11. CASE Tick
    BY <2>11 DEF Tick
  <2> QED BY <2>5, <2>6, <2>7, <2>8, <2>9, <2>10, <2>11 DEF Next
<1> QED BY <1>1, Invariance, PTL DEF Spec, ReplacedOwnerIsHarmless

\* A dead letter is set to work again by the recovery endpoint only.
THEOREM DeadLettersAreManual == Spec => DeadLetterStaysManual
<1>1. IInv /\ [Next]_vars =>
          [\A e \in Events :
              /\ Waiting(inbox[e]) /\ inbox[e].avail = NoTime
              /\ inbox'[e].status = "PROCESSING"
              => \E a \in Admins : own[a].pc = "read" /\ own[a].ev = e /\ own'[a].pc = "claimed"]_vars
  <2> SUFFICES ASSUME IInv, Next, NEW e \in Events,
                      Waiting(inbox[e]), inbox[e].avail = NoTime,
                      inbox'[e].status = "PROCESSING"
               PROVE  \E a \in Admins : own[a].pc = "read" /\ own[a].ev = e /\ own'[a].pc = "claimed"
    OBVIOUS
  <2>0. inbox \in [Events -> Rows] /\ inbox'[e].status # inbox[e].status
    BY DEF IInv, TypeOK, Waiting
  <2>1. ASSUME NEW f \in Events, Receive(f) PROVE FALSE
    BY <2>0, <2>1 DEF Receive, SetRow, Row, Waiting
  <2>2. ASSUME NEW x \in Executors, NEW f \in Events, ClaimDue(x, f) PROVE FALSE
    BY <2>0, <2>2 DEF ClaimDue, Claimable, Due, SetRow, Waiting, NoTime
  <2>3. ASSUME NEW x \in Executors, NEW f \in Events, FenceExhausted(x, f) PROVE FALSE
    BY <2>0, <2>3 DEF FenceExhausted, Exhausted, SetRow, Waiting
  <2>4. ASSUME NEW a \in Admins, AdminClaim(a)
        PROVE  own[a].pc = "read" /\ own[a].ev = e /\ own'[a].pc = "claimed"
    <3>1. own[a] \in Attempts /\ own[a].pc = "read" /\ a \in Owners /\ own \in [Owners -> Attempts]
      BY <2>4 DEF AdminClaim, IInv, TypeOK, Owners
    <3>2. /\ SetRow(own[a].ev, Claimed(RowOf(a)))
          /\ SetOwn(a, [own[a] EXCEPT !.pc = "claimed", !.gen = Claimed(RowOf(a)).gen])
      BY <2>0, <2>4 DEF AdminClaim
    <3>3. own[a].ev = e
      BY <2>0, <3>2 DEF SetRow
    <3>4. own'[a] = [own[a] EXCEPT !.pc = "claimed", !.gen = Claimed(RowOf(a)).gen]
      BY <3>1, <3>2 DEF SetOwn
    <3> QED BY <3>1, <3>3, <3>4 DEF Attempts
  <2>5. ASSUME NEW o \in Owners, Progress(o) \/ Heartbeat(o) \/ AbortAttempt(o) \/ Crash(o) PROVE FALSE
    <3>1. ~UNCHANGED inbox
      BY <2>0
    <3>2. own[o].pc # "idle" /\ Fenced(o) /\ \E r : inbox' = [inbox EXCEPT ![own[o].ev] = r]
      BY <2>5, <3>1
         DEF Beating, Disposition, Progress, StartAttempt, ReachIngest, Abandon, AttemptFails, IngestLosesFence,
             IngestFindsOrder, IngestCommits, FinalizeRetryable, FinalizeTerminal, ReportCommit,
             MirrorOutcome, Heartbeat, AbortAttempt, Crash, SetRow
    <3>3. inbox[own[o].ev].status = "PROCESSING"
      BY <3>2 DEF Fenced, RowOf
    <3>4. own[o].ev = e
      BY <2>0, <3>2
    <3> QED BY <3>3, <3>4 DEF Waiting
  <2>6. ASSUME NEW s \in Orders, RepairInspect(s) \/ RepairExecute(s) \/ RepairRefused(s) PROVE FALSE
    BY <2>0, <2>6 DEF RepairInspect, RepairExecute, RepairRefused, RepairEnds, View
  <2>7. ASSUME NEW a \in Admins, NEW f \in Events, AdminRead(a, f) PROVE FALSE
    BY <2>0, <2>7 DEF AdminRead
  <2>8. CASE Tick
    BY <2>0, <2>8 DEF Tick, Rows
  <2> QED BY <2>1, <2>2, <2>3, <2>4, <2>5, <2>6, <2>7, <2>8 DEF Next
<1> QED BY <1>1, Invariance, PTL DEF Spec, DeadLetterStaysManual

-----------------------------------------------------------------------------
(* Implementation of the abstract intake *)

\* One row rewritten is one task moved.
LEMMA TaskMoves ==
    ASSUME TypeOK, NEW e \in Events, NEW r \in Rows, SetRow(e, r)
    PROVE  [f \in Events |-> TaskOf(inbox[f])]' =
           [[f \in Events |-> TaskOf(inbox[f])] EXCEPT ![e] = TaskOf(r)]
<1>1. inbox' = [inbox EXCEPT ![e] = r] /\ inbox \in [Events -> Rows]
  BY DEF TypeOK, SetRow
<1>2. inbox'[e] = r /\ \A f \in Events \ {e} : inbox'[f] = inbox[f]
  BY <1>1
<1> QED BY <1>2

\* What each way of writing a row means for the abstract task.
LEMMA TaskOfRows ==
    ASSUME NEW r \in Rows, RowOK(r)
    PROVE  /\ TaskOf(Claimed(r)) = "running"
           /\ \A a \in Nat \cup {NoTime} : TaskOf(Failed(r, a)) \in {"waiting", "parked"}
           /\ TaskOf([Failed(r, NoTime) EXCEPT !.gen = @ + 1]) = "parked"
           /\ TaskOf([r EXCEPT !.status = "PROCESSED", !.lease = NoTime, !.avail = NoTime]) = "done"
           /\ TaskOf([r EXCEPT !.lease = Sooner(@), !.avail = Sooner(@)]) = TaskOf(r)
           /\ Waiting(r) => TaskOf(r) \in {"waiting", "parked"}
           /\ r.status = "PROCESSING" /\ r.enrolled => TaskOf(r) = "running"
<1>0. LeaseTicks # NoTime /\ "FAILED" \in Status
  BY ConstantsAssumption DEF ConstantsAssumption, NoTime, Status
<1>1. TaskOf(Claimed(r)) = "running"
  BY <1>0 DEF TaskOf, Claimed, Waiting
<1>2. ASSUME NEW a \in Nat \cup {NoTime} PROVE TaskOf(Failed(r, a)) \in {"waiting", "parked"}
  <2>1. Failed(r, a).status = "FAILED" /\ Failed(r, a).avail = a
    BY DEF Failed, Rows
  <2> QED BY <2>1 DEF TaskOf
<1>3. TaskOf([Failed(r, NoTime) EXCEPT !.gen = @ + 1]) = "parked"
  <2> DEFINE f == Failed(r, NoTime)
             g == [f EXCEPT !.gen = @ + 1]
  <2>1. f \in Rows
    BY RowTypes
  <2>2. f.status = "FAILED" /\ f.avail = NoTime
    BY DEF Failed, Rows
  <2> HIDE DEF f
  <2>3. g.status = "FAILED" /\ g.avail = NoTime
    BY <2>1, <2>2 DEF Rows
  <2> HIDE DEF g
  <2>4. TaskOf(g) = "parked"
    BY <2>3 DEF TaskOf
  <2> QED BY <2>4 DEF f, g
<1>4. TaskOf([r EXCEPT !.status = "PROCESSED", !.lease = NoTime, !.avail = NoTime]) = "done"
  BY DEF TaskOf, Rows
<1>5. TaskOf([r EXCEPT !.lease = Sooner(@), !.avail = Sooner(@)]) = TaskOf(r)
  <2> DEFINE g == [r EXCEPT !.lease = Sooner(@), !.avail = Sooner(@)]
  <2>1. \A t \in Nat \cup {NoTime} : Sooner(t) # NoTime <=> t # NoTime
    BY DEF Sooner, NoTime
  <2>2. /\ g.status = r.status
        /\ g.avail # NoTime <=> r.avail # NoTime
        /\ g.lease # NoTime <=> r.lease # NoTime
    BY <2>1 DEF Rows
  <2> HIDE DEF g
  <2>3. TaskOf(g) = TaskOf(r)
    BY <2>2 DEF TaskOf, Waiting
  <2> QED BY <2>3 DEF g
<1>6. Waiting(r) => TaskOf(r) \in {"waiting", "parked"}
  BY DEF Waiting, TaskOf
<1>7. r.status = "PROCESSING" /\ r.enrolled => TaskOf(r) = "running"
  BY DEF Waiting, TaskOf, RowOK
<1> QED BY <1>1, <1>2, <1>3, <1>4, <1>5, <1>6, <1>7

\* Every execution of the fenced implementation is one the abstract intake
\* allows.
THEOREM Implementation == Spec => ImplementsOrderIntake
<1> DEFINE task == [e \in Events |-> TaskOf(inbox[e])]
<1>1. Init => Intake!Init
  <2> SUFFICES ASSUME Init PROVE task \in [Events -> {"unknown", "parked"}]
    BY DEF Init, Intake!Init
  <2>1. ASSUME NEW st \in Status \ {"PROCESSED"} PROVE TaskOf(Row(st, FALSE, NoTime)) \in {"unknown", "parked"}
    BY DEF TaskOf, Row, Status, Waiting
  <2> QED BY <2>1 DEF Init
<1>2. IInv /\ [Next]_vars => [Intake!Next]_(Intake!vars)
  <2> SUFFICES ASSUME IInv, [Next]_vars PROVE [Intake!Next]_(Intake!vars)
    OBVIOUS
  <2>0. ASSUME NEW e \in Events PROVE inbox[e] \in Rows /\ RowOK(inbox[e])
    BY DEF IInv, TypeOK, RowInv
  <2>00. ASSUME UNCHANGED <<inbox, creator>> PROVE UNCHANGED Intake!vars
    BY <2>00 DEF Intake!vars
  <2>1. ASSUME NEW e \in Events, Receive(e) PROVE Intake!Accept(e)
    <3> DEFINE r == Row("RECEIVED", TRUE, 0)
    <3>1. r \in Rows
      BY RowTypes DEF Status
    <3>3. r.status = "RECEIVED" /\ r.avail = 0
      BY DEF Row
    <3>2. SetRow(e, r) /\ task[e] = "unknown" /\ UNCHANGED creator
      BY <2>1 DEF Receive, TaskOf
    <3> HIDE DEF r
    <3>4. TaskOf(r) = "waiting"
      BY <3>3 DEF TaskOf, Waiting, NoTime
    <3> QED BY <3>1, <3>2, <3>4, TaskMoves DEF Intake!Accept, IInv
  <2>2. ASSUME NEW e \in Events, SetRow(e, Claimed(inbox[e])), UNCHANGED creator,
               TaskOf(inbox[e]) \in {"waiting", "parked", "running"}
        PROVE  [Intake!Start(e)]_(Intake!vars)
    <3>1. Claimed(inbox[e]) \in Rows /\ TaskOf(Claimed(inbox[e])) = "running"
      BY <2>0, RowTypes, TaskOfRows
    <3>2. task' = [task EXCEPT ![e] = "running"]
      BY <2>2, <3>1, TaskMoves DEF IInv
    <3>3. CASE TaskOf(inbox[e]) = "running"
      BY <2>2, <3>2, <3>3 DEF Intake!vars
    <3>4. CASE TaskOf(inbox[e]) \in {"waiting", "parked"}
      BY <2>2, <3>2, <3>4 DEF Intake!Start
    <3> QED BY <2>2, <3>3, <3>4
  <2>3. ASSUME NEW x \in Executors, NEW e \in Events, ClaimDue(x, e) PROVE [Intake!Start(e)]_(Intake!vars)
    <3>1. TaskOf(inbox[e]) \in {"waiting", "parked", "running"}
      BY <2>0, <2>3, TaskOfRows DEF ClaimDue, Claimable, Due
    <3> QED BY <2>2, <2>3, <3>1 DEF ClaimDue
  <2>4. ASSUME NEW a \in Admins, AdminClaim(a)
        PROVE  \/ UNCHANGED Intake!vars
               \/ own[a].ev \in Events /\ [Intake!Start(own[a].ev)]_(Intake!vars)
    <3>1. a \in Owners /\ own[a].pc = "read"
      BY <2>4 DEF AdminClaim, Owners
    <3>2. own[a].ev \in Events /\ RowOf(a) = inbox[own[a].ev]
      BY <3>1, OwnerType DEF IInv, RowOf
    <3>3. CASE UNCHANGED inbox
      BY <2>00, <2>4, <3>3 DEF AdminClaim
    <3>4. CASE ~UNCHANGED inbox
      <4>1. SetRow(own[a].ev, Claimed(inbox[own[a].ev])) /\ UNCHANGED creator /\ StillAsRead(a)
        BY <2>4, <3>2, <3>4 DEF AdminClaim
      <4>2. Waiting(inbox[own[a].ev])
        BY <3>1, <3>2, <4>1 DEF StillAsRead, IInv, OwnInv, Waiting
      <4>3. TaskOf(inbox[own[a].ev]) \in {"waiting", "parked", "running"}
        BY <2>0, <3>2, <4>2, TaskOfRows
      <4> QED BY <2>2, <3>2, <4>1, <4>3
    <3> QED BY <3>3, <3>4
  <2>5. ASSUME NEW e \in Events, NEW r \in Rows, SetRow(e, r), UNCHANGED creator,
               TaskOf(inbox[e]) = "running", TaskOf(r) \in {"waiting", "parked"}
        PROVE  Intake!Fail(e)
    <3>1. task' = [task EXCEPT ![e] = TaskOf(r)]
      BY <2>5, TaskMoves DEF IInv
    <3> QED BY <2>5, <3>1 DEF Intake!Fail
  <2>6. ASSUME NEW x \in Executors, NEW e \in Events, FenceExhausted(x, e) PROVE Intake!Fail(e)
    <3> DEFINE r == [Failed(inbox[e], NoTime) EXCEPT !.gen = @ + 1]
    <3>1. r \in Rows /\ TaskOf(r) = "parked" /\ TaskOf(inbox[e]) = "running"
      BY <2>0, <2>6, RowTypes, TaskOfRows DEF FenceExhausted, Exhausted
    <3>2. SetRow(e, r) /\ UNCHANGED creator
      BY <2>6 DEF FenceExhausted
    <3> HIDE DEF r
    <3> QED BY <2>5, <3>1, <3>2
  <2>7. ASSUME NEW o \in Owners, own[o].pc # "idle", Fenced(o)
        PROVE  /\ own[o].ev \in Events
               /\ RowOf(o) = inbox[own[o].ev]
               /\ RowOf(o) \in Rows /\ RowOK(RowOf(o))
               /\ TaskOf(inbox[own[o].ev]) = "running"
    BY <2>0, <2>7, OwnerType, TaskOfRows DEF IInv, RowOf, Fenced
  <2>8. ASSUME NEW o \in Owners, FinalizeRetryable(o) \/ FinalizeTerminal(o)
        PROVE  UNCHANGED Intake!vars \/ \E e \in Events : Intake!Fail(e)
    <3>1. CASE UNCHANGED inbox
      BY <2>00, <2>8, <3>1 DEF FinalizeRetryable, FinalizeTerminal
    <3>2. CASE ~UNCHANGED inbox
      <4>1. own[o].pc # "idle" /\ Fenced(o) /\ UNCHANGED creator
        BY <2>8, <3>2 DEF FinalizeRetryable, FinalizeTerminal
      <4>2. PICK a \in {RetryAfter(RowOf(o)), NoTime} : SetRow(own[o].ev, Failed(RowOf(o), a))
        BY <2>8, <3>2 DEF FinalizeRetryable, FinalizeTerminal
      <4>3. RowOf(o).attempts \in Nat
        BY <2>7, <4>1 DEF Rows
      <4>4. a \in Nat \cup {NoTime}
        BY <4>3, RetryAfterType
      <4>5. Failed(RowOf(o), a) \in Rows /\ TaskOf(Failed(RowOf(o), a)) \in {"waiting", "parked"}
        BY <2>7, <4>1, <4>4, RowTypes, TaskOfRows
      <4> QED BY <2>5, <2>7, <4>1, <4>2, <4>5
    <3> QED BY <3>1, <3>2
  <2>9. ASSUME NEW o \in Owners, IngestCommits(o) PROVE \E e \in Events : Intake!Complete(e)
    <3> DEFINE r == [RowOf(o) EXCEPT !.status = "PROCESSED", !.lease = NoTime, !.avail = NoTime]
    <3>1. own[o].pc # "idle" /\ Fenced(o) /\ creator[OrderOf[own[o].ev]] = "nobody"
      BY <2>9 DEF IngestCommits, OrderExists
    <3>2. r \in Rows /\ TaskOf(r) = "done"
      BY <2>7, <3>1, RowTypes, TaskOfRows
    <3>3. SetRow(own[o].ev, r) /\ creator' = [creator EXCEPT ![OrderOf[own[o].ev]] = "intake"]
      BY <2>9 DEF IngestCommits
    <3> HIDE DEF r
    <3>4. task' = [task EXCEPT ![own[o].ev] = "done"]
      BY <2>7, <3>1, <3>2, <3>3, TaskMoves DEF IInv
    <3>5. Intake!Complete(own[o].ev)
      BY <2>7, <3>1, <3>3, <3>4 DEF Intake!Complete
    <3> QED BY <2>7, <3>1, <3>5
  <2>10. ASSUME NEW o \in Owners, Heartbeat(o) PROVE UNCHANGED Intake!vars
    <3>1. CASE UNCHANGED inbox
      BY <2>00, <2>10, <3>1 DEF Heartbeat
    <3>2. CASE ~UNCHANGED inbox
      <4> DEFINE r == [RowOf(o) EXCEPT !.lease = LeaseTicks]
      <4>1. own[o].pc # "idle" /\ Fenced(o) /\ SetRow(own[o].ev, r) /\ UNCHANGED creator
        BY <2>10, <3>2 DEF Beating, Disposition, Heartbeat
      <4>2. r \in Rows /\ r.status = "PROCESSING" /\ r.lease = LeaseTicks
        BY <2>7, <4>1, RowTypes DEF Fenced, Rows
      <4> HIDE DEF r
      <4>3. TaskOf(r) = "running"
        BY <4>2, ConstantsAssumption DEF TaskOf, Waiting, NoTime, ConstantsAssumption
      <4>4. task' = [task EXCEPT ![own[o].ev] = "running"]
        BY <2>7, <4>1, <4>2, <4>3, TaskMoves DEF IInv
      <4> QED BY <2>7, <4>1, <4>4 DEF Intake!vars
    <3> QED BY <3>1, <3>2
  <2>11. ASSUME NEW o \in Owners,
                StartAttempt(o) \/ AbortAttempt(o) \/ ReachIngest(o) \/ Abandon(o) \/ AttemptFails(o)
                \/ IngestLosesFence(o) \/ IngestFindsOrder(o) \/ ReportCommit(o) \/ MirrorOutcome(o)
                \/ Crash(o)
         PROVE  UNCHANGED Intake!vars
    <3>1. UNCHANGED <<inbox, creator>>
      BY <2>11 DEF StartAttempt, AbortAttempt, ReachIngest, Abandon, AttemptFails, IngestLosesFence,
                   IngestFindsOrder, ReportCommit, MirrorOutcome, Crash
    <3> QED BY <2>00, <3>1
  <2>12. ASSUME NEW s \in Orders, RepairExecute(s) PROVE UNCHANGED Intake!vars \/ Intake!Repair(s)
    <3>1. UNCHANGED task
      BY <2>12 DEF RepairExecute
    <3>2. CASE creator[s] = "nobody"
      <4>1. ASSUME NEW e \in Events, OrderOf[e] = s PROVE task[e] # "waiting"
        <5>1. ~IsActionable(inbox[e])
          BY <2>12, <4>1 DEF RepairExecute
        <5>2. inbox[e].avail # NoTime => Waiting(inbox[e]) /\ inbox[e].enrolled /\ inbox[e].attempts < MaxAttempts
          BY <2>0 DEF RowOK
        <5>3. ~(Waiting(inbox[e]) /\ inbox[e].avail # NoTime)
          BY <5>1, <5>2 DEF IsActionable
        <5> QED BY <5>3 DEF TaskOf
      <4> QED BY <2>12, <3>1, <3>2, <4>1 DEF RepairExecute, Intake!Repair
    <3>3. CASE creator[s] # "nobody"
      <4>1. UNCHANGED creator
        BY <2>12, <3>3 DEF RepairExecute, IInv, TypeOK
      <4> QED BY <3>1, <4>1 DEF Intake!vars
    <3> QED BY <3>2, <3>3
  <2>13. ASSUME NEW s \in Orders, RepairInspect(s) \/ RepairRefused(s) PROVE UNCHANGED Intake!vars
    BY <2>00, <2>13 DEF RepairInspect, RepairRefused
  <2>14. CASE Tick
    <3>1. ASSUME NEW e \in Events PROVE TaskOf(inbox'[e]) = TaskOf(inbox[e])
      BY <2>0, <2>14, TaskOfRows DEF Tick
    <3> QED BY <2>14, <3>1 DEF Tick, Intake!vars
  <2>15. ASSUME NEW a \in Admins, NEW e \in Events, AdminRead(a, e) PROVE UNCHANGED Intake!vars
    BY <2>00, <2>15 DEF AdminRead
  <2>16. CASE UNCHANGED vars
    BY <2>00, <2>16 DEF vars
  <2>17. ASSUME NEW o \in Owners, Progress(o) \/ Heartbeat(o) \/ AbortAttempt(o) \/ Crash(o)
         PROVE  UNCHANGED Intake!vars \/ \E e \in Events : Intake!Fail(e) \/ Intake!Complete(e)
    BY <2>8, <2>9, <2>10, <2>11, <2>17 DEF Progress
  <2> HIDE DEF task
  <2> QED
    BY <2>1, <2>3, <2>4, <2>6, <2>12, <2>13, <2>14, <2>15, <2>16, <2>17 DEF Next, Intake!Next
<1> QED BY <1>1, <1>2, Invariance, PTL DEF Spec, ImplementsOrderIntake, Intake!Spec

-----------------------------------------------------------------------------
(* Rows of the synchronous route *)

\* The operator's request lives on until it has finalized the recovery of a
\* row of the synchronous route: its lease does not run out.
RecoveredInTime == \A e \in Legacy : inbox[e].lease # 0

\* A row of the synchronous route is recovered at most once: the first claim
\* fills sourceShopifyOrderId, and a later recovery takes the row for enrolled.
RecoveredOnce == \A a \in Admins : own[a].pc # "idle" /\ own[a].ev \in Legacy => own[a].legacy

\* No such row is ever scheduled, no executor works on one, and no recovery of
\* one is about to schedule a retry.
ManualInv ==
    /\ \A e \in Legacy : inbox[e].status # "ABSENT" /\ inbox[e].avail = NoTime
    /\ LegacyNeverAutomatic
    /\ \A a \in Admins : own[a].ev \in Legacy => own[a].pc # "retryable"

\* What the synchronous route leaves behind waits for an operator.
LEMMA ManualInit == Init => ManualInv
<1> SUFFICES ASSUME Init PROVE ManualInv
  OBVIOUS
<1>1. ASSUME NEW e \in Legacy PROVE inbox[e].status # "ABSENT" /\ inbox[e].avail = NoTime
  <2>1. e \in Events
    BY ConstantsAssumption DEF ConstantsAssumption
  <2>2. PICK st \in Status \ {"PROCESSED"} : inbox[e] = Row(st, FALSE, NoTime)
    BY <2>1 DEF Init
  <2>3. inbox[e].avail = NoTime
    BY <2>2 DEF Row
  <2> QED BY <2>1, <2>3 DEF Init
<1>2. \A o \in Owners : own[o].pc = "idle"
  BY DEF Init, Idle
<1> QED BY <1>1, <1>2 DEF ManualInv, LegacyNeverAutomatic, Owners

\* Under both conditions, no step sets such a row to work by itself.
LEMMA ManualStep ==
    ASSUME TypeOK, ManualInv, RecoveredInTime, RecoveredOnce, [Next]_vars
    PROVE  ManualInv'
<1>0. CASE UNCHANGED vars
  BY <1>0 DEF vars, ManualInv, LegacyNeverAutomatic
<1>a. \A e \in Legacy : e \in Events
  BY ConstantsAssumption DEF ConstantsAssumption
<1>b. \A o \in Owners : own[o].pc # "idle" => own[o].ev \in Events
  BY DEF TypeOK, Attempts
<1>c. \A a \in Admins : a \in Owners /\ a \notin Executors
  BY ConstantsAssumption DEF ConstantsAssumption, Owners
<1> DEFINE RowsOK  == \A e \in Legacy : inbox[e].status # "ABSENT" /\ inbox[e].avail = NoTime
           OwnsOK  == LegacyNeverAutomatic
                      /\ \A a \in Admins : own[a].ev \in Legacy => own[a].pc # "retryable"
<1>d. RowsOK' /\ OwnsOK' => ManualInv'
  BY DEF ManualInv, LegacyNeverAutomatic
<1>e. UNCHANGED inbox => RowsOK'
  BY DEF ManualInv
<1>f. UNCHANGED own => OwnsOK'
  BY DEF ManualInv, LegacyNeverAutomatic
<1>g. ASSUME NEW e \in Events, NEW r, SetRow(e, r),
             e \in Legacy => r.status # "ABSENT" /\ r.avail = NoTime
      PROVE  RowsOK'
  BY <1>a, <1>g DEF ManualInv, SetRow, TypeOK
<1>h. ASSUME NEW o \in Owners, NEW a, SetOwn(o, a),
             /\ a.ev \in Legacy => a.pc # "retryable"
             /\ o \in Executors => a.pc = "idle" \/ a.ev \notin Legacy
      PROVE  OwnsOK'
  BY <1>c, <1>h DEF ManualInv, LegacyNeverAutomatic, SetOwn, TypeOK, Owners
<1>i. \A o \in Owners : Stop(o) => OwnsOK'
  <2>1. Idle.pc = "idle"
    BY DEF Idle
  <2> QED BY <1>h, <2>1 DEF Stop
<1>j. ASSUME NEW o \in Owners, own[o].pc # "idle",
             \/ \E pc \in Pc \ {"retryable"} : SetOwn(o, [own[o] EXCEPT !.pc = pc])
             \/ SetOwn(o, [own[o] EXCEPT !.aborted = TRUE])
             \/ \E m \in JobState : SetOwn(o, [own[o] EXCEPT !.pc = "mirroring", !.mirror = m])
             \/ \E g \in Nat : SetOwn(o, [own[o] EXCEPT !.pc = "claimed", !.gen = g])
      PROVE  OwnsOK'
  <2>1. own[o] \in Attempts
    BY DEF TypeOK
  <2>2. \E a : SetOwn(o, a) /\ a.ev = own[o].ev /\ (a.pc = "retryable" => own[o].pc = "retryable")
    <3>1. ASSUME NEW pc \in Pc \ {"retryable"} PROVE LET a == [own[o] EXCEPT !.pc = pc] IN a.ev = own[o].ev /\ a.pc = pc
      BY <2>1 DEF Attempts
    <3>2. LET a == [own[o] EXCEPT !.aborted = TRUE] IN a.ev = own[o].ev /\ a.pc = own[o].pc
      BY <2>1 DEF Attempts
    <3>3. ASSUME NEW m \in JobState
          PROVE  LET a == [own[o] EXCEPT !.pc = "mirroring", !.mirror = m] IN a.ev = own[o].ev /\ a.pc = "mirroring"
      BY <2>1 DEF Attempts
    <3>4. ASSUME NEW g \in Nat
          PROVE  LET a == [own[o] EXCEPT !.pc = "claimed", !.gen = g] IN a.ev = own[o].ev /\ a.pc = "claimed"
      BY <2>1 DEF Attempts
    <3>5. CASE \E pc \in Pc \ {"retryable"} : SetOwn(o, [own[o] EXCEPT !.pc = pc])
      BY <3>1, <3>5
    <3>6. CASE SetOwn(o, [own[o] EXCEPT !.aborted = TRUE])
      BY <3>2, <3>6
    <3>7. CASE \E m \in JobState : SetOwn(o, [own[o] EXCEPT !.pc = "mirroring", !.mirror = m])
      BY <3>3, <3>7
    <3>8. CASE \E g \in Nat : SetOwn(o, [own[o] EXCEPT !.pc = "claimed", !.gen = g])
      BY <3>4, <3>8
    <3> QED BY <1>j, <3>5, <3>6, <3>7, <3>8
  <2>3. o \in Executors => own[o].ev \notin Legacy
    BY <1>j DEF ManualInv, LegacyNeverAutomatic
  <2>4. own[o].ev \in Legacy => own[o].pc # "retryable"
    BY <2>3 DEF ManualInv, Owners
  <2> QED BY <1>h, <2>2, <2>3, <2>4
<1>k. ASSUME NEW o \in Owners, own[o].pc # "idle", NEW d \in Disposition, SetOwn(o, Verdict(o, d))
      PROVE  OwnsOK'
  <2>1. CASE o \in Executors /\ own[o].aborted
    BY <1>i, <1>k, <2>1 DEF Verdict, Stop
  <2>2. CASE ~(o \in Executors /\ own[o].aborted)
    <3> DEFINE pc == IF own[o].legacy THEN "terminal" ELSE d
               a == [own[o] EXCEPT !.pc = pc]
    <3>1. SetOwn(o, a)
      BY <1>k, <2>2 DEF Verdict
    <3>2. own[o] \in Attempts
      BY DEF TypeOK
    <3>3. a.ev = own[o].ev /\ a.pc = pc
      BY <3>2 DEF Attempts
    <3>4. o \in Executors => own[o].ev \notin Legacy
      BY <1>k DEF ManualInv, LegacyNeverAutomatic
    <3>5. own[o].ev \in Legacy => own[o].legacy
      BY <1>k, <3>4 DEF RecoveredOnce, Owners
    <3>6. a.ev \in Legacy => a.pc # "retryable"
      <4>1. own[o].ev \in Legacy => pc = "terminal"
        BY <3>5
      <4> QED BY <3>3, <4>1
    <3> HIDE DEF a, pc
    <3> QED BY <1>h, <3>1, <3>3, <3>4, <3>6
  <2> QED BY <2>1, <2>2
<1>1. ASSUME NEW e \in Events, Receive(e) PROVE ManualInv'
  BY <1>1, <1>d, <1>f, <1>g DEF Receive, ManualInv
<1>2. ASSUME NEW x \in Executors, NEW e \in Events, ClaimDue(x, e) \/ FenceExhausted(x, e)
      PROVE  ManualInv'
  <2>1. e \notin Legacy
    <3>1. SUFFICES ASSUME e \in Legacy PROVE FALSE
      OBVIOUS
    <3>2. inbox[e].avail = NoTime /\ inbox[e].lease # 0
      BY <3>1 DEF ManualInv, RecoveredInTime
    <3> QED BY <1>2, <3>2 DEF ClaimDue, FenceExhausted, Claimable, Due, Exhausted, NoTime
  <2>2. RowsOK'
    <3>1. PICK r : SetRow(e, r)
      BY <1>2 DEF ClaimDue, FenceExhausted
    <3> QED BY <1>g, <2>1, <3>1
  <2>3. \E a : SetOwn(x, a) /\ a.ev = e
    <3>1. CASE ClaimDue(x, e)
      <4>1. PICK m : SetOwn(x, [Idle EXCEPT !.pc = "claimed", !.ev = e,
                                            !.gen = Claimed(inbox[e]).gen, !.mirror = m])
        BY <3>1 DEF ClaimDue
      <4>2. [Idle EXCEPT !.pc = "claimed", !.ev = e,
                         !.gen = Claimed(inbox[e]).gen, !.mirror = m].ev = e
        BY DEF Idle
      <4> QED BY <4>1, <4>2
    <3>2. CASE FenceExhausted(x, e)
      <4>1. [Idle EXCEPT !.pc = "mirroring", !.ev = e, !.mirror = "dead_letter_ready"].ev = e
        BY DEF Idle
      <4> QED BY <3>2, <4>1 DEF FenceExhausted
    <3> QED BY <1>2, <3>1, <3>2
  <2>4. OwnsOK'
    BY <1>h, <2>1, <2>3 DEF Owners
  <2> QED BY <1>d, <2>2, <2>4
<1>3. ASSUME NEW a \in Admins, NEW e \in Events, AdminRead(a, e) PROVE ManualInv'
  <2> DEFINE b == [Idle EXCEPT !.pc = "read", !.ev = e, !.seen = inbox[e].status,
                              !.legacy = ~inbox[e].enrolled /\ inbox[e].avail = NoTime]
  <2>0. b.pc = "read"
    BY DEF Idle
  <2>1. SetOwn(a, b) /\ b.pc = "read"
    BY <1>3, <2>0 DEF AdminRead
  <2> HIDE DEF b
  <2>2. OwnsOK'
    BY <1>c, <1>h, <2>1
  <2> QED BY <1>3, <1>d, <1>e, <2>2 DEF AdminRead
<1>4. ASSUME NEW a \in Admins, AdminClaim(a) PROVE ManualInv'
  <2>1. a \in Owners /\ own[a].pc # "idle"
    BY <1>4, <1>c DEF AdminClaim
  <2>2. own[a].ev \in Events /\ RowOf(a) \in Rows
    BY <2>1, OwnerType
  <2>3. CASE StillAsRead(a) /\ SetRow(own[a].ev, Claimed(RowOf(a)))
             /\ SetOwn(a, [own[a] EXCEPT !.pc = "claimed", !.gen = Claimed(RowOf(a)).gen])
    <3>1. /\ Claimed(RowOf(a)).status = "PROCESSING" /\ Claimed(RowOf(a)).avail = NoTime
          /\ Claimed(RowOf(a)).gen \in Nat
      BY <2>2, RowTypes DEF Claimed, Rows
    <3>2. RowsOK'
      BY <1>g, <2>2, <2>3, <3>1
    <3>3. OwnsOK'
      BY <1>j, <2>1, <2>3, <3>1
    <3> QED BY <1>d, <3>2, <3>3
  <2>4. CASE Stop(a) /\ UNCHANGED inbox
    BY <1>d, <1>e, <1>i, <2>1, <2>4
  <2> QED BY <1>4, <2>3, <2>4 DEF AdminClaim
<1>5. ASSUME NEW o \in Owners,
             StartAttempt(o) \/ AbortAttempt(o) \/ ReachIngest(o)
      PROVE  ManualInv'
  <2>1. own[o].pc # "idle"
    BY <1>5 DEF StartAttempt, AbortAttempt, ReachIngest, Beating, Disposition
  <2>2. OwnsOK'
    BY <1>5, <1>j, <2>1 DEF StartAttempt, AbortAttempt, ReachIngest, Goto, Pc
  <2> QED BY <1>5, <1>d, <1>e, <2>2 DEF StartAttempt, AbortAttempt, ReachIngest
<1>6. ASSUME NEW o \in Owners, Heartbeat(o) PROVE ManualInv'
  <2>1. own[o].pc # "idle"
    BY <1>6 DEF Heartbeat, Beating, Disposition
  <2>2. own[o].ev \in Events /\ RowOf(o) \in Rows
    BY <2>1, OwnerType
  <2>3. CASE SetRow(own[o].ev, [RowOf(o) EXCEPT !.lease = LeaseTicks]) /\ UNCHANGED own
    <3> DEFINE r == [RowOf(o) EXCEPT !.lease = LeaseTicks]
    <3>1. r.status = RowOf(o).status /\ r.avail = RowOf(o).avail
      BY <2>2 DEF Rows
    <3>2. own[o].ev \in Legacy => r.status # "ABSENT" /\ r.avail = NoTime
      BY <3>1 DEF ManualInv, RowOf
    <3> HIDE DEF r
    <3>3. RowsOK'
      BY <1>g, <2>2, <2>3, <3>2 DEF r
    <3> QED BY <1>d, <1>f, <2>3, <3>3
  <2>4. CASE SetOwn(o, [own[o] EXCEPT !.aborted = TRUE]) /\ UNCHANGED inbox
    BY <1>d, <1>e, <1>j, <2>1, <2>4
  <2> QED BY <1>6, <2>3, <2>4 DEF Heartbeat
<1>7. ASSUME NEW o \in Owners,
             Abandon(o) \/ IngestLosesFence(o) \/ ReportCommit(o) \/ MirrorOutcome(o) \/ Crash(o)
      PROVE  ManualInv'
  BY <1>7, <1>d, <1>e, <1>i DEF Abandon, IngestLosesFence, ReportCommit, MirrorOutcome, Crash
<1>8. ASSUME NEW o \in Owners, AttemptFails(o) \/ IngestFindsOrder(o) PROVE ManualInv'
  BY <1>8, <1>d, <1>e, <1>k DEF AttemptFails, IngestFindsOrder, Disposition
<1>9. ASSUME NEW o \in Owners, IngestCommits(o) PROVE ManualInv'
  <2>1. own[o].pc # "idle"
    BY <1>9 DEF IngestCommits
  <2>2. own[o].ev \in Events /\ RowOf(o) \in Rows
    BY <2>1, OwnerType
  <2> DEFINE r == [RowOf(o) EXCEPT !.status = "PROCESSED", !.lease = NoTime, !.avail = NoTime]
  <2>3. r.status = "PROCESSED" /\ r.avail = NoTime
    BY <2>2 DEF Rows
  <2>4. SetRow(own[o].ev, r)
    BY <1>9 DEF IngestCommits
  <2> HIDE DEF r
  <2>5. RowsOK'
    BY <1>g, <2>2, <2>3, <2>4
  <2>6. OwnsOK'
    BY <1>9, <1>j, <1>k, <2>1 DEF IngestCommits, Goto, Pc
  <2> QED BY <1>d, <2>5, <2>6
<1>10. ASSUME NEW o \in Owners, FinalizeRetryable(o) \/ FinalizeTerminal(o) PROVE ManualInv'
  <2>1. own[o].pc # "idle"
    BY <1>10 DEF FinalizeRetryable, FinalizeTerminal
  <2>2. own[o].ev \in Events /\ RowOf(o) \in Rows
    BY <2>1, OwnerType
  <2>3. CASE Stop(o) /\ UNCHANGED inbox
    BY <1>d, <1>e, <1>i, <2>3
  <2>4. ASSUME SetRow(own[o].ev, Failed(RowOf(o), NoTime)) PROVE RowsOK'
    <3>1. Failed(RowOf(o), NoTime).status = "FAILED" /\ Failed(RowOf(o), NoTime).avail = NoTime
      BY <2>2 DEF Failed, Rows
    <3> QED BY <1>g, <2>2, <2>4, <3>1
  <2>5. ASSUME own[o].pc = "retryable", SetRow(own[o].ev, Failed(RowOf(o), RetryAfter(RowOf(o))))
        PROVE  RowsOK'
    <3>1. own[o].ev \notin Legacy
      BY <2>5 DEF ManualInv, LegacyNeverAutomatic, Owners
    <3> QED BY <1>g, <2>2, <2>5, <3>1
  <2>6. RowsOK'
    BY <1>10, <1>e, <2>4, <2>5 DEF FinalizeRetryable, FinalizeTerminal
  <2>7. OwnsOK'
    BY <1>10, <1>i, <1>j, <2>1 DEF FinalizeRetryable, FinalizeTerminal, JobState
  <2> QED BY <1>d, <2>6, <2>7
<1>11. ASSUME NEW s \in Orders, RepairInspect(s) \/ RepairExecute(s) \/ RepairRefused(s)
       PROVE  ManualInv'
  BY <1>11, <1>d, <1>e, <1>f DEF RepairInspect, RepairExecute, RepairRefused
<1>12. CASE Tick
  <2>1. ASSUME NEW e \in Legacy PROVE inbox'[e].status # "ABSENT" /\ inbox'[e].avail = NoTime
    <3>1. inbox'[e] = [inbox[e] EXCEPT !.lease = Sooner(@), !.avail = Sooner(@)] /\ inbox[e] \in Rows
      BY <1>12, <1>a DEF Tick, TypeOK
    <3>2. inbox'[e].status = inbox[e].status /\ inbox'[e].avail = Sooner(inbox[e].avail)
      BY <3>1 DEF Rows
    <3>3. Sooner(NoTime) = NoTime
      BY DEF Sooner, NoTime
    <3> QED BY <3>2, <3>3 DEF ManualInv
  <2> QED BY <1>12, <1>d, <1>f, <2>1 DEF Tick
<1> QED
  BY <1>0, <1>1, <1>2, <1>3, <1>4, <1>5, <1>6, <1>7, <1>8, <1>9, <1>10, <1>11, <1>12 DEF Next, Progress

\* Nothing but the death of the operator's request and a second recovery sets
\* an executor to work on a row of the synchronous route.
THEOREM LegacyStaysManual ==
    Spec /\ []RecoveredInTime /\ []RecoveredOnce => []LegacyNeverAutomatic
<1>1. Init => ManualInv
  BY ManualInit
<1>2. TypeOK /\ ManualInv /\ RecoveredInTime /\ RecoveredOnce /\ [Next]_vars => ManualInv'
  BY ManualStep
<1>3. ManualInv => LegacyNeverAutomatic
  BY DEF ManualInv
<1> QED BY <1>1, <1>2, <1>3, TypeCorrect, PTL DEF Spec
=============================================================================
