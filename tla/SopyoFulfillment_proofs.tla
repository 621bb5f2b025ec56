------------------------ MODULE SopyoFulfillment_proofs ------------------------
(***************************************************************************)
(* Proofs about the shipment of a Sopyo order, for any number of workers,  *)
(* pollers, vendor calls and webhooks, and any cargos.                     *)
(***************************************************************************)
EXTENDS SopyoFulfillment, SequenceTheorems, TLAPS

-----------------------------------------------------------------------------
(* The inductive invariant *)

\* Before the submission nothing has started; a plan precedes it.
IntentInv ==
    /\ intent.status \in {"absent"} \cup BeforeSubmission => ~intent.started
    /\ intent.status = "PLAN_READY" => intent.plan
    /\ intent.started => intent.plan
    /\ intent.status \in Reconcilable => intent.started /\ intent.fid = 0
    /\ intent.fid # 0 => intent.started

\* Only the worker that claimed sends, and it has not sent before.
WorkerInv ==
    \A w \in Workers :
        /\ At(w, "create") => /\ intent.started
                              /\ posts.sopyo = 0
                              /\ \A v \in Workers : At(v, "create") => v = w
        /\ call[w].pc \in {"await", "answered"} => intent.started

SentInv ==
    /\ posts.sopyo <= 1
    /\ posts.sopyo > 0 => intent.started
    /\ \A r \in wire : r.caller \in Workers => posts.sopyo > 0
    /\ \A i \in DOMAIN shop : shop[i].by = "sopyo" => posts.sopyo > 0

Safe == IntentInv /\ WorkerInv /\ SentInv /\ ClaimsExclusive

IInv == TypeOK /\ Safe

-----------------------------------------------------------------------------
(* Type correctness *)

\* Every reachable state has the types of TypeOK.
LEMMA TypeInit == Init => TypeOK
<1>1. Idle \in CallStates
  BY DEF Idle, CallStates, Pc, Answers
<1>2. <<>> \in Seq(Fulfillments)
  OBVIOUS
<1> QED BY <1>1, <1>2 DEF Init, TypeOK, Intents, Status, Reasons, Allocations, ManualRows, Sync

\* The moves of a call, whatever else a step does.
LEMMA CallTypes ==
    ASSUME TypeOK, NEW c \in Calls
    PROVE  /\ \A pc \in Pc : Goto(c, pc) => call' \in [Calls -> CallStates]
           /\ Return(c) => call' \in [Calls -> CallStates]
<1>1. call \in [Calls -> CallStates] /\ Idle \in CallStates
  BY DEF TypeOK, Idle, CallStates, Pc, Answers
<1>2. \A pc \in Pc : [call[c] EXCEPT !.pc = pc] \in CallStates
  BY <1>1 DEF CallStates
<1> QED BY <1>1, <1>2 DEF Goto, Return

\* A conditional update of the status.
LEMMA MoveTypes ==
    ASSUME TypeOK, NEW from, NEW to \in Status, NEW reason \in Reasons,
           MoveFrom(from, to, reason)
    PROVE  intent' \in Intents
BY DEF TypeOK, MoveFrom, Intents

\* A planner and an executor leave everything of its type.
LEMMA ExecuteTypes ==
    ASSUME TypeOK, NEW w \in Workers, Plan(w) \/ Execute(w) PROVE TypeOK'
<1> w \in Calls
  BY DEF Calls
<1> USE DEF TypeOK
<1>pc. WorkerPc \subseteq Pc
  BY DEF Pc
<1>v. intent \in Intents /\ intent.reason \in Reasons
  BY DEF Intents
<1>1. CASE Scan(w)
  BY <1>1, <1>pc, CallTypes DEF Scan, WorkerPc, Local, External
<1>2. CASE PlanRead(w)
  BY <1>2, <1>pc, CallTypes, MoveTypes DEF PlanRead, WorkerPc, External, Status, Reasons
<1>3. CASE PlanCommit(w)
  <2>1. [intent EXCEPT !.plan = TRUE, !.status = "PLAN_READY"] \in Intents
    BY <1>v DEF Intents, Status
  <2> QED
    BY <1>3, <1>pc, <2>1, CallTypes, MoveTypes DEF PlanCommit, WorkerPc, External, Status, Reasons
<1>4. CASE ExecuteRead(w)
  <2>1. [call[w] EXCEPT !.pc = "fetch", !.aside = CargoConflict] \in CallStates
    BY DEF CallStates, Pc, WorkerPc, CargoConflict
  <2> QED BY <1>4, <1>pc, <2>1, CallTypes DEF ExecuteRead, WorkerPc, Local, External
<1>5. CASE ReadCanonical(w)
  BY <1>5, <1>pc, CallTypes, MoveTypes DEF ReadCanonical, WorkerPc, External, Status, Reasons
<1>6. CASE ClaimSubmission(w)
  <2>1. [intent EXCEPT !.status = "SUBMISSION_PENDING", !.started = TRUE] \in Intents
    BY <1>v DEF Intents, Status
  <2> QED
    BY <1>6, <1>pc, <2>1, CallTypes, MoveTypes DEF ClaimSubmission, WorkerPc, External, Status, Reasons
<1>7. CASE CreateFulfillment(w)
  <2>1. posts' \in [sopyo : Nat, manual : Nat]
    BY <1>7 DEF CreateFulfillment, Send
  <2>2. wire' \subseteq Requests
    BY <1>7, <1>v DEF CreateFulfillment, Send, Requests, Intents
  <2> QED BY <1>7, <1>pc, <2>1, <2>2, CallTypes DEF CreateFulfillment, WorkerPc, Local
<1>8. CASE NoAnswer(w)
  <2>1. [call[w] EXCEPT !.pc = "answered", !.got = "unknown"] \in CallStates
    BY DEF CallStates, Pc, WorkerPc, Answers
  <2> QED BY <1>8, <2>1 DEF NoAnswer, Local, External
<1>9. CASE RecordCreated(w)
  <2>1. call[w].fid \in Nat
    BY DEF CallStates
  <2>2. intent' \in Intents
    BY <1>9, <1>v, <2>1 DEF RecordCreated, Proven, Intents, Status
  <2> QED BY <1>9, <2>2, CallTypes DEF RecordCreated, External
<1>10. CASE RecordNotCreated(w)
  BY <1>10, <1>v, CallTypes, MoveTypes DEF RecordNotCreated, External, Status, Reasons
<1> QED BY <1>1, <1>2, <1>3, <1>4, <1>5, <1>6, <1>7, <1>8, <1>9, <1>10 DEF Plan, Execute

\* A reconciliation leaves everything of its type.
LEMMA ReconcileTypes ==
    ASSUME TypeOK, NEW w \in Workers, Reconcile(w) PROVE TypeOK'
<1> w \in Calls
  BY DEF Calls
<1> USE DEF TypeOK
<1>v. intent \in Intents /\ intent.reason \in Reasons
  BY DEF Intents
<1>1. ASSUME NEW seen \in SUBSET DOMAIN shop, Fetched(w, seen)
      PROVE  call' \in [Calls -> CallStates]
  <2>1. \A i \in seen : i \in Nat
    OBVIOUS
  <2>2. \A i \in Nat : [call[w] EXCEPT !.pc = "settle", !.got = "exact", !.fid = i] \in CallStates
    BY DEF CallStates, Pc, WorkerPc, Answers
  <2>3. /\ [call[w] EXCEPT !.pc = "settle", !.got = "some"] \in CallStates
        /\ [call[w] EXCEPT !.pc = "settle", !.got = "none"] \in CallStates
    BY DEF CallStates, Pc, WorkerPc, Answers
  <2>4. CASE OneExact(seen)
    <3>1. PICK i \in seen :
            call' = [call EXCEPT ![w].pc = "settle", ![w].got = "exact", ![w].fid = i]
      BY <1>1, <2>4 DEF Fetched, OneExact
    <3> QED BY <2>1, <2>2, <3>1
  <2>5. CASE ~OneExact(seen)
    BY <1>1, <2>3, <2>5 DEF Fetched
  <2> QED BY <2>4, <2>5
<1>2. CASE FetchComplete(w) \/ FetchPartial(w)
  <2>1. {i \in DOMAIN shop : shop[i].live \/ shop[i].cargo = intent.cargo} \in SUBSET DOMAIN shop
    OBVIOUS
  <2>2. call' \in [Calls -> CallStates]
    BY <1>1, <1>2, <2>1 DEF FetchComplete, FetchPartial
  <2> QED BY <1>2, <2>2 DEF FetchComplete, FetchPartial, Local, External
<1>3. CASE FetchFails(w)
  BY <1>3, <1>v, CallTypes, MoveTypes DEF FetchFails, External, Status
<1>4. CASE Settle(w)
  <2>1. call[w].fid \in Nat
    BY DEF CallStates
  <2>2. \A fid \in Nat : /\ [intent EXCEPT !.fid = fid] \in Intents
                         /\ [intent EXCEPT !.status = "CONFIRMED", !.fid = fid] \in Intents
    BY <1>v DEF Intents, Status
  <2>3. intent' \in Intents
    BY <1>4, <1>v, <2>1, <2>2, MoveTypes DEF Settle, Status, Reasons
  <2> QED BY <1>4, <2>3, CallTypes DEF Settle, External
<1> QED BY <1>2, <1>3, <1>4 DEF Reconcile

\* A cargo poller leaves everything of its type.
LEMMA PollTypes ==
    ASSUME TypeOK, NEW p \in Pollers, Poll(p) PROVE TypeOK'
<1> p \in Calls
  BY DEF Calls
<1> USE DEF TypeOK
<1>pc. PollerPc \subseteq Pc
  BY DEF Pc
<1>v. intent \in Intents /\ intent.cargo \in Cargos \cup {NoCargo}
  BY DEF Intents
<1>1. CASE PollScan(p)
  BY <1>1, <1>pc, CallTypes DEF PollScan, PollerPc, Local, External
<1>2. CASE PollDetail(p)
  <2>1. \A c \in Cargos : [call[p] EXCEPT !.pc = "record", !.cargo = c] \in CallStates
    BY DEF CallStates, Pc, PollerPc
  <2> QED BY <1>2, <2>1, CallTypes DEF PollDetail, Local, External
<1>3. CASE RecordIntent(p)
  <2>1. call[p].cargo \in Cargos \cup {NoCargo}
    BY DEF CallStates
  <2>2. [intent EXCEPT !.status = "CARGO_VERIFIED", !.cargo = call[p].cargo] \in Intents
    BY <1>v, <2>1 DEF Intents, Status
  <2> QED BY <1>3, <1>pc, <2>2, CallTypes DEF RecordIntent, PollerPc, External
<1>4. CASE RecordMismatch(p)
  <2>1. [intent EXCEPT !.status = "CONFLICT", !.reason = "CARGO_MISMATCH"] \in Intents
    BY <1>v DEF Intents, Status, Reasons
  <2> QED BY <1>4, <2>1, CallTypes DEF RecordMismatch, External
<1>5. CASE ProjectCargo(p)
  <2>1. [intent EXCEPT !.status = "CONFLICT", !.reason = "LOCAL"] \in Intents
    BY <1>v DEF Intents, Status, Reasons
  <2>2. [alloc EXCEPT !.cargo = intent.cargo, !.ship = "transit"] \in Allocations
    BY <1>v DEF Allocations
  <2> QED BY <1>5, <2>1, <2>2, CallTypes DEF ProjectCargo, External
<1> QED BY <1>1, <1>2, <1>3, <1>4, <1>5 DEF Poll

\* The vendor's path leaves everything of its type.
LEMMA ManualTypes ==
    ASSUME TypeOK, NEW v \in Vendors, Manual(v) PROVE TypeOK'
<1> v \in Calls
  BY DEF Calls
<1> USE DEF TypeOK
<1>pc. VendorPc \subseteq Pc
  BY DEF Pc
<1>v. call[v].cargo \in Cargos \cup {NoCargo} /\ call[v].fid \in Nat
  BY DEF CallStates
<1>f. ASSUME ManualFailed(v)
      PROVE  /\ manual' \in ManualRows /\ alloc' \in Allocations /\ UNCHANGED intent
             /\ call' \in [Calls -> CallStates]
  BY <1>f, <1>v, CallTypes DEF ManualFailed, ManualRows, Allocations, Sync
<1>1. CASE ManualClaim(v)
  <2>1. \A c \in Cargos : [call[v] EXCEPT !.pc = "lookup", !.cargo = c] \in CallStates
    BY DEF CallStates, Pc, VendorPc
  <2>2. [manual EXCEPT !.sync = "pending"] \in ManualRows
    BY DEF ManualRows, Sync
  <2> QED BY <1>1, <2>1, <2>2 DEF ManualClaim, External
<1>2. CASE ManualLookup(v)
  BY <1>2, <1>f, <1>pc, CallTypes DEF ManualLookup, VendorPc, Local, External
<1>3. CASE ManualCreate(v)
  <2>1. posts' \in [sopyo : Nat, manual : Nat]
    BY <1>3 DEF ManualCreate, Send
  <2>2. wire' \subseteq Requests
    BY <1>3, <1>v DEF ManualCreate, Send, Requests
  <2> QED BY <1>3, <1>pc, <2>1, <2>2, CallTypes DEF ManualCreate, VendorPc, Local
<1>4. CASE ManualNoAnswer(v)
  <2>1. [call[v] EXCEPT !.pc = "answeredManual", !.got = "unknown"] \in CallStates
    BY DEF CallStates, Pc, VendorPc, Answers
  <2> QED BY <1>4, <2>1 DEF ManualNoAnswer, Local, External
<1>5. CASE ManualRecord(v)
  <2>1. [sync |-> "submitted", fid |-> call[v].fid] \in ManualRows
    BY <1>v DEF ManualRows, Sync
  <2>2. [alloc EXCEPT !.cargo = call[v].cargo, !.ship = "transit"] \in Allocations
    BY <1>v DEF Allocations
  <2> QED BY <1>5, <1>f, <2>1, <2>2, CallTypes DEF ManualRecord, External
<1> QED BY <1>1, <1>2, <1>3, <1>4, <1>5 DEF Manual

\* A fulfillment webhook leaves everything of its type.
LEMMA HookTypes ==
    ASSUME TypeOK, NEW h \in Hooks, HookRead(h) \/ HookApply(h) PROVE TypeOK'
<1> h \in Calls
  BY DEF Calls
<1> USE DEF TypeOK
<1>1. CASE HookRead(h)
  <2>0. \A i \in DOMAIN shop : i \in Nat /\ shop[i] \in Fulfillments
    OBVIOUS
  <2>1. \A i \in DOMAIN shop : i \in Nat /\ shop[i].cargo \in Cargos \cup {NoCargo}
    BY <2>0 DEF Fulfillments
  <2>2. \A i \in DOMAIN shop :
          [pc |-> "apply", got |-> "live", fid |-> i, cargo |-> shop[i].cargo, aside |-> FALSE]
            \in CallStates
    BY <2>1 DEF CallStates, Pc, Answers
  <2>3. [call[h] EXCEPT !.pc = "apply", !.got = "cancelled"] \in CallStates
    BY DEF CallStates, Pc, Answers
  <2> QED BY <1>1, <2>2, <2>3 DEF HookRead, Local, External
<1>2. CASE HookApply(h)
  <2>1. call[h].cargo \in Cargos \cup {NoCargo} /\ call[h].fid \in Nat
    BY DEF CallStates
  <2>2. alloc' \in Allocations
    BY <1>2, <2>1 DEF HookApply, Allocations
  <2>3. [sync |-> "inbound", fid |-> call[h].fid] \in ManualRows
    BY <2>1 DEF ManualRows, Sync
  <2>4. [manual EXCEPT !.sync = "cancelled"] \in ManualRows
    BY DEF ManualRows, Sync
  <2> QED BY <1>2, <2>2, <2>3, <2>4, CallTypes DEF HookApply, External
<1> QED BY <1>1, <1>2

\* Shopify and the closing of the allocation leave everything of its type.
LEMMA EnvironmentTypes == ASSUME TypeOK, Environment PROVE TypeOK'
<1> USE DEF TypeOK
<1>1. ASSUME NEW r \in wire, Process(r) PROVE TypeOK'
  <2>1. r.caller \in Calls /\ r.cargo \in Cargos \cup {NoCargo}
    BY DEF Requests, Calls
  <2>2. \A by \in {"sopyo", "manual"} :
          [cargo |-> r.cargo, live |-> TRUE, by |-> by] \in Fulfillments
    BY <2>1 DEF Fulfillments
  <2>3. shop' \in Seq(Fulfillments)
    <3>1. CASE UNCHANGED shop
      BY <3>1
    <3>2. CASE ~UNCHANGED shop
      <4>1. PICK by \in {"sopyo", "manual"} :
              shop' = Append(shop, [cargo |-> r.cargo, live |-> TRUE, by |-> by])
        BY <1>1, <3>2 DEF Process
      <4>2. PICK new \in Fulfillments : shop' = Append(shop, new)
        BY <2>2, <4>1
      <4> QED BY <4>2, AppendProperties
    <3> QED BY <3>1, <3>2
  <2>4. \A pc \in {"answered", "answeredManual"}, got \in {"success", "rejected"}, fid \in Nat :
          [call[r.caller] EXCEPT !.pc = pc, !.got = got, !.fid = fid] \in CallStates
    <3>1. call[r.caller] \in CallStates
      BY <2>1
    <3>2. {"answered", "answeredManual"} \subseteq Pc
      BY DEF Pc, WorkerPc, VendorPc
    <3>3. {"success", "rejected"} \subseteq Answers
      BY DEF Answers
    <3> HIDE DEF TypeOK
    <3>4. \A s \in CallStates, pc \in Pc, got \in Answers, fid \in Nat :
            [s EXCEPT !.pc = pc, !.got = got, !.fid = fid] \in CallStates
      BY DEF CallStates
    <3> QED BY <3>1, <3>2, <3>3, <3>4
  <2>5. Len(shop) + 1 \in Nat /\ 0 \in Nat
    OBVIOUS
  <2>6. call' \in [Calls -> CallStates]
    <3>1. PICK got \in {"success", "rejected"}, fid \in Nat : Answer(r, got, fid)
      BY <1>1, <2>5 DEF Process
    <3>2. CASE UNCHANGED call
      BY <3>2
    <3>3. CASE ~UNCHANGED call
      <4>1. PICK pc \in {"answered", "answeredManual"} :
              call' = [call EXCEPT ![r.caller].pc = pc, ![r.caller].got = got,
                                   ![r.caller].fid = fid]
        <5> DEFINE next == IF call[r.caller].pc = "await" THEN "answered" ELSE "answeredManual"
        <5>1. next \in {"answered", "answeredManual"}
          OBVIOUS
        <5>2. call' = [call EXCEPT ![r.caller].pc = next, ![r.caller].got = got,
                                   ![r.caller].fid = fid]
          BY <3>1, <3>3, <2>1 DEF Answer
        <5> QED BY <5>1, <5>2
      <4> QED BY <2>1, <2>4, <4>1
    <3> QED BY <3>2, <3>3
  <2> QED BY <1>1, <2>3, <2>6 DEF Process, Local
<1>2. CASE AdminFulfill
  <2>1. \A c \in Cargos : [cargo |-> c, live |-> TRUE, by |-> "admin"] \in Fulfillments
    BY DEF Fulfillments
  <2> QED BY <1>2, <2>1 DEF AdminFulfill, Local
<1>3. \A i \in DOMAIN shop : i \in 1..Len(shop) /\ shop[i] \in Fulfillments
  OBVIOUS
<1>4. CASE AdminCancel
  <2>1. PICK i \in DOMAIN shop : shop' = [shop EXCEPT ![i].live = FALSE]
    BY <1>4 DEF AdminCancel
  <2>2. [shop[i] EXCEPT !.live = FALSE] \in Fulfillments
    BY <1>3 DEF Fulfillments
  <2>3. shop' \in Seq(Fulfillments)
    BY <1>3, <2>1, <2>2, ExceptSeq
  <2> QED BY <1>4, <2>3 DEF AdminCancel, Local
<1>5. CASE AdminRetrack
  <2>1. PICK i \in DOMAIN shop, c \in Cargos : shop' = [shop EXCEPT ![i].cargo = c]
    BY <1>5 DEF AdminRetrack
  <2>2. [shop[i] EXCEPT !.cargo = c] \in Fulfillments
    BY <1>3 DEF Fulfillments
  <2>3. shop' \in Seq(Fulfillments)
    BY <1>3, <2>1, <2>2, ExceptSeq
  <2> QED BY <1>5, <2>3 DEF AdminRetrack, Local
<1>6. CASE Close
  BY <1>6 DEF Close, Allocations, External
<1> QED BY <1>1, <1>2, <1>4, <1>5, <1>6 DEF Environment

\* Every step keeps the types.
LEMMA TypeStep == TypeOK /\ [Next]_vars => TypeOK'
<1> SUFFICES ASSUME TypeOK, [Next]_vars PROVE TypeOK'
  OBVIOUS
<1>1. ASSUME NEW c \in Calls, Crash(c) PROVE TypeOK'
  BY <1>1, CallTypes DEF Crash, Local, External, TypeOK
<1>2. CASE UNCHANGED vars
  BY <1>2 DEF TypeOK, vars
<1> QED
  BY <1>1, <1>2, ExecuteTypes, ReconcileTypes, PollTypes, ManualTypes, HookTypes,
     EnvironmentTypes DEF Next

-----------------------------------------------------------------------------
(* Safety *)

Sending == {"await", "answered"}

\* No worker comes nearer to a create.
WorkersQuiet ==
    \A w \in Workers : /\ At(w, "create")' => At(w, "create")
                       /\ call'[w].pc \in Sending => call[w].pc \in Sending

\* Nothing is sent, and Shopify makes no fulfillment nobody asked for.
NothingSent ==
    /\ posts'.sopyo = posts.sopyo
    /\ \A r \in wire' : r.caller \in Workers => r \in wire
    /\ \A i \in DOMAIN shop' : shop'[i].by = "sopyo" => posts.sopyo > 0

\* All that a step must show that neither claims nor sends.
LEMMA Frame ==
    ASSUME Safe, IntentInv', intent'.started = intent.started,
           manual'.sync = "pending" => manual.sync = "pending",
           WorkersQuiet, NothingSent
    PROVE  Safe'
BY DEF Safe, WorkerInv, SentInv, ClaimsExclusive, WorkersQuiet, NothingSent, Sending

\* Nothing has been recorded, claimed or sent yet.
LEMMA InitSafe == Init => Safe
<1> SUFFICES ASSUME Init PROVE Safe
  OBVIOUS
<1>1. \A w \in Workers : call[w].pc = "idle"
  BY DEF Init, Idle, Calls
<1>2. IntentInv
  BY DEF Init, IntentInv, BeforeSubmission, Reconcilable
<1> QED BY <1>1, <1>2 DEF Init, Safe, WorkerInv, SentInv, ClaimsExclusive, At

\* Calls that move elsewhere, or return.
LEMMA QuietMoves ==
    ASSUME TypeOK, NEW c \in Calls
    PROVE  /\ \A pc \in Pc \ ({"create"} \cup Sending) : Goto(c, pc) => WorkersQuiet
           /\ Return(c) => WorkersQuiet
           /\ UNCHANGED call => WorkersQuiet
<1>1. call \in [Calls -> CallStates] /\ Workers \subseteq Calls
  BY DEF TypeOK, Calls
<1>2. Idle.pc = "idle"
  BY DEF Idle
<1>3. ASSUME NEW pc \in Pc \ ({"create"} \cup Sending), Goto(c, pc) PROVE WorkersQuiet
  <2>1. \A w \in Workers : call'[w].pc = IF w = c THEN pc ELSE call[w].pc
    BY <1>1, <1>3 DEF Goto, CallStates
  <2> QED BY <2>1 DEF WorkersQuiet, At
<1>4. Return(c) => WorkersQuiet
  BY <1>1, <1>2 DEF Return, WorkersQuiet, At, Sending
<1>5. UNCHANGED call => WorkersQuiet
  BY DEF WorkersQuiet, At
<1> QED BY <1>3, <1>4, <1>5

\* Any status becomes CONFLICT; only a submission becomes OUTCOME_UNKNOWN.
LEMMA MoveKeeps ==
    ASSUME TypeOK, IntentInv, NEW from, NEW to \in Status, NEW reason,
           to = "CONFLICT" \/ (to = "OUTCOME_UNKNOWN" /\ from \subseteq Reconcilable),
           MoveFrom(from, to, reason)
    PROVE  IntentInv' /\ intent'.started = intent.started
<1>1. intent \in Intents
  BY DEF TypeOK
<1> QED BY <1>1 DEF IntentInv, MoveFrom, Intents, Status, Reconcilable, BeforeSubmission

\* A step that leaves Shopify and the counts alone sends nothing.
LEMMA ShopUnchanged ==
    ASSUME Safe, UNCHANGED External PROVE NothingSent
BY DEF Safe, SentInv, NothingSent, External

\* A plan is stored only where there is none, so never after a submission.
LEMMA PlanSafe ==
    ASSUME TypeOK, Safe, NEW w \in Workers, Plan(w) PROVE Safe'
<1> w \in Calls
  BY DEF Calls
<1>v. intent \in Intents /\ IntentInv
  BY DEF TypeOK, Safe
<1>pc. {"planRead", "commit", "execute"} \subseteq Pc \ ({"create"} \cup Sending)
  BY DEF Pc, WorkerPc, Sending
<1>1. CASE Scan(w)
  <2>1. IntentInv' /\ intent'.started = intent.started /\ UNCHANGED <<manual, External>>
    BY <1>1, <1>v DEF Scan, Local, IntentInv
  <2>2. WorkersQuiet
    BY <1>1, <1>pc, QuietMoves DEF Scan
  <2> QED BY <2>1, <2>2, Frame, ShopUnchanged
<1>2. CASE PlanRead(w)
  <2>1. IntentInv' /\ intent'.started = intent.started
    <3>1. CASE UNCHANGED intent
      BY <1>v, <3>1 DEF IntentInv
    <3>2. CASE MoveFrom(BeforeSubmission, "CONFLICT", "SHOPIFY_PLAN")
      BY <1>v, <3>2, MoveKeeps DEF Status
    <3> QED BY <1>2, <3>1, <3>2 DEF PlanRead
  <2>2. WorkersQuiet /\ UNCHANGED <<manual, External>>
    BY <1>2, <1>pc, QuietMoves DEF PlanRead
  <2> QED BY <2>1, <2>2, Frame, ShopUnchanged
<1>3. CASE PlanCommit(w)
  <2>1. IntentInv' /\ intent'.started = intent.started
    <3>1. CASE UNCHANGED intent
      BY <1>v, <3>1 DEF IntentInv
    <3>2. CASE MoveFrom(BeforeSubmission, "CONFLICT", "SHOPIFY_PLAN")
      BY <1>v, <3>2, MoveKeeps DEF Status
    <3>3. CASE ~intent.plan /\ intent' = [intent EXCEPT !.plan = TRUE, !.status = "PLAN_READY"]
      BY <1>v, <3>3 DEF IntentInv, Intents, Reconcilable, BeforeSubmission
    <3> QED BY <1>3, <3>1, <3>2, <3>3 DEF PlanCommit
  <2>2. WorkersQuiet /\ UNCHANGED <<manual, External>>
    BY <1>3, <1>pc, QuietMoves DEF PlanCommit
  <2> QED BY <2>1, <2>2, Frame, ShopUnchanged
<1> QED BY <1>1, <1>2, <1>3 DEF Plan

\* The worker that claims is the only one that can send, and nothing was sent.
LEMMA ClaimSafe ==
    ASSUME TypeOK, Safe, NEW w \in Workers, ClaimSubmission(w) PROVE Safe'
<1> w \in Calls
  BY DEF Calls
<1>v. intent \in Intents /\ IntentInv /\ call \in [Calls -> CallStates] /\ Workers \subseteq Calls
  BY DEF TypeOK, Safe, Calls
<1>1. CASE /\ ~ManualHolds /\ Claimable
           /\ intent' = [intent EXCEPT !.status = "SUBMISSION_PENDING", !.started = TRUE]
           /\ Goto(w, "create")
  <2>1. ~intent.started /\ intent'.started /\ posts.sopyo <= 1
    BY <1>1, <1>v DEF Claimable, Intents, Safe, SentInv
  <2>2. IntentInv'
    BY <1>1, <1>v DEF Claimable, IntentInv, Intents, Reconcilable, BeforeSubmission
  <2>3. posts.sopyo = 0 /\ posts' = posts
    <3>1. posts.sopyo \in Nat
      BY DEF TypeOK
    <3> QED BY <2>1, <3>1 DEF Safe, SentInv, ClaimSubmission, External
  <2>4. \A v \in Workers : call'[v].pc = IF v = w THEN "create" ELSE call[v].pc
    BY <1>1, <1>v DEF Goto, CallStates
  <2>5. \A v \in Workers : ~At(v, "create")
    BY <2>1 DEF Safe, WorkerInv
  <2>6. WorkerInv'
    BY <2>1, <2>3, <2>4, <2>5 DEF WorkerInv, At
  <2>7. SentInv' /\ ClaimsExclusive'
    BY <1>1, <2>1 DEF Safe, SentInv, ClaimsExclusive, ManualHolds, ClaimSubmission, External
  <2> QED BY <2>2, <2>6, <2>7 DEF Safe
<1>2. CASE /\ Return(w)
           /\ UNCHANGED intent \/ MoveFrom({"PLAN_READY"}, "CONFLICT", "SHOPIFY_PLAN")
  <2>1. CASE UNCHANGED intent
    BY <1>2, <1>v, <2>1, QuietMoves, Frame, ShopUnchanged DEF ClaimSubmission, IntentInv
  <2>2. CASE MoveFrom({"PLAN_READY"}, "CONFLICT", "SHOPIFY_PLAN")
    <3>1. IntentInv' /\ intent'.started = intent.started
      BY <1>v, <2>2, MoveKeeps DEF Status
    <3> QED BY <1>2, <3>1, QuietMoves, Frame, ShopUnchanged DEF ClaimSubmission
  <2> QED BY <1>2, <2>1, <2>2
<1> QED BY <1>1, <1>2 DEF ClaimSubmission

\* The create of the worker that claimed is the first and the only one.
LEMMA CreateSafe ==
    ASSUME TypeOK, Safe, NEW w \in Workers, CreateFulfillment(w) PROVE Safe'
<1> w \in Calls
  BY DEF Calls
<1>v. call \in [Calls -> CallStates] /\ Workers \subseteq Calls /\ posts \in [sopyo : Nat, manual : Nat]
  BY DEF TypeOK, Calls
<1>1. intent.started /\ posts.sopyo = 0 /\ \A v \in Workers : At(v, "create") => v = w
  BY DEF Safe, WorkerInv, CreateFulfillment
<1>2. posts'.sopyo = 1
  BY <1>v, <1>1 DEF CreateFulfillment, Send
<1>3. \A v \in Workers : call'[v].pc = IF v = w THEN "await" ELSE call[v].pc
  BY <1>v DEF CreateFulfillment, Goto, CallStates
<1>4. UNCHANGED <<intent, manual, shop>>
  BY DEF CreateFulfillment, Local
<1>5. WorkerInv'
  BY <1>1, <1>3, <1>4 DEF WorkerInv, At, Safe
<1>6. IntentInv' /\ SentInv' /\ ClaimsExclusive'
  BY <1>1, <1>2, <1>4 DEF Safe, IntentInv, SentInv, ClaimsExclusive
<1> QED BY <1>5, <1>6 DEF Safe

\* Recording an identity, wherever it comes from.
LEMMA IdentityKeeps ==
    ASSUME TypeOK, IntentInv, NEW fid \in Nat,
           \/ /\ intent.status \in Reconcilable
              /\ intent' = [intent EXCEPT !.status = "CONFIRMED", !.fid = fid]
           \/ /\ intent.started /\ intent.status = "CONFLICT"
              /\ intent' = [intent EXCEPT !.fid = fid]
           \/ UNCHANGED intent
    PROVE  IntentInv' /\ intent'.started = intent.started
<1>1. intent \in Intents
  BY DEF TypeOK
<1>2. CASE /\ intent.status \in Reconcilable
           /\ intent' = [intent EXCEPT !.status = "CONFIRMED", !.fid = fid]
  BY <1>1, <1>2 DEF IntentInv, Intents, Reconcilable, BeforeSubmission
<1>3. CASE /\ intent.started /\ intent.status = "CONFLICT"
           /\ intent' = [intent EXCEPT !.fid = fid]
  BY <1>1, <1>3 DEF IntentInv, Intents, Reconcilable, BeforeSubmission
<1>4. CASE UNCHANGED intent
  BY <1>4 DEF IntentInv
<1> QED BY <1>2, <1>3, <1>4

\* The executor keeps the invariant.
LEMMA ExecuteSafe ==
    ASSUME TypeOK, Safe, NEW w \in Workers, Execute(w) PROVE Safe'
<1> w \in Calls
  BY DEF Calls
<1>v. /\ intent \in Intents /\ IntentInv /\ intent.reason \in Reasons
      /\ call \in [Calls -> CallStates] /\ Workers \subseteq Calls
  BY DEF TypeOK, Safe, Calls, Intents
<1>pc. {"canonical", "fetch", "cas"} \subseteq Pc \ ({"create"} \cup Sending)
  BY DEF Pc, WorkerPc, Sending
<1>1. CASE ExecuteRead(w)
  <2>1. IntentInv' /\ intent'.started = intent.started /\ UNCHANGED <<manual, External>>
    BY <1>1, <1>v DEF ExecuteRead, Local, IntentInv
  <2>2. WorkersQuiet
    <3>1. CASE call' = [call EXCEPT ![w].pc = "fetch", ![w].aside = CargoConflict]
      <4>1. \A v \in Workers : call'[v].pc = IF v = w THEN "fetch" ELSE call[v].pc
        BY <1>v, <3>1 DEF CallStates
      <4> QED BY <4>1 DEF WorkersQuiet, At, Sending
    <3> QED BY <1>1, <1>pc, <3>1, QuietMoves DEF ExecuteRead
  <2> QED BY <2>1, <2>2, Frame, ShopUnchanged
<1>2. CASE ReadCanonical(w)
  <2>1. IntentInv' /\ intent'.started = intent.started
    <3>1. CASE UNCHANGED intent
      BY <1>v, <3>1 DEF IntentInv
    <3>2. CASE MoveFrom({"PLAN_READY"}, "CONFLICT", "SHOPIFY_PLAN")
      BY <1>v, <3>2, MoveKeeps DEF Status
    <3> QED BY <1>2, <3>1, <3>2 DEF ReadCanonical
  <2>2. WorkersQuiet /\ UNCHANGED <<manual, External>>
    BY <1>2, <1>pc, QuietMoves DEF ReadCanonical
  <2> QED BY <2>1, <2>2, Frame, ShopUnchanged
<1>3. CASE NoAnswer(w)
  <2>1. \A v \in Workers : call'[v].pc = IF v = w THEN "answered" ELSE call[v].pc
    BY <1>3, <1>v DEF NoAnswer, CallStates
  <2>2. WorkersQuiet
    <3>1. call[w].pc = "await"
      BY <1>3 DEF NoAnswer, At
    <3> QED BY <2>1, <3>1 DEF WorkersQuiet, At, Sending
  <2>3. IntentInv' /\ intent'.started = intent.started /\ UNCHANGED <<manual, External>>
    BY <1>3, <1>v DEF NoAnswer, Local, IntentInv
  <2> QED BY <2>2, <2>3, Frame, ShopUnchanged
<1>4. CASE RecordCreated(w)
  <2>1. call[w].fid \in Nat /\ intent.started
    BY <1>4, <1>v DEF CallStates, RecordCreated, Safe, WorkerInv, At
  <2>2. IntentInv' /\ intent'.started = intent.started
    BY <1>4, <1>v, <2>1, IdentityKeeps DEF RecordCreated, Proven
  <2>3. WorkersQuiet /\ UNCHANGED <<manual, External>>
    BY <1>4, QuietMoves DEF RecordCreated
  <2> QED BY <2>2, <2>3, Frame, ShopUnchanged
<1>5. CASE RecordNotCreated(w)
  <2>1. IntentInv' /\ intent'.started = intent.started
    <3>1. CASE MoveFrom({"SUBMISSION_PENDING"}, "CONFLICT", "SHOPIFY_CREATE_REJECTED")
      BY <1>v, <3>1, MoveKeeps DEF Status
    <3>2. CASE MoveFrom({"SUBMISSION_PENDING"}, "OUTCOME_UNKNOWN", intent.reason)
      <4>1. {"SUBMISSION_PENDING"} \subseteq Reconcilable
        BY DEF Reconcilable
      <4> QED BY <1>v, <3>2, <4>1, MoveKeeps DEF Status
    <3> QED BY <1>5, <3>1, <3>2 DEF RecordNotCreated
  <2>2. WorkersQuiet /\ UNCHANGED <<manual, External>>
    BY <1>5, QuietMoves DEF RecordNotCreated
  <2> QED BY <2>1, <2>2, Frame, ShopUnchanged
<1> QED BY <1>1, <1>2, <1>3, <1>4, <1>5, ClaimSafe, CreateSafe DEF Execute

\* A reconciliation writes only where the submission has started.
LEMMA ReconcileSafe ==
    ASSUME TypeOK, Safe, NEW w \in Workers, Reconcile(w) PROVE Safe'
<1> w \in Calls
  BY DEF Calls
<1>v. /\ intent \in Intents /\ IntentInv /\ intent.reason \in Reasons
      /\ call \in [Calls -> CallStates] /\ Workers \subseteq Calls
  BY DEF TypeOK, Safe, Calls, Intents
<1>1. CASE FetchComplete(w) \/ FetchPartial(w)
  <2>1. PICK seen : Fetched(w, seen)
    BY <1>1 DEF FetchComplete, FetchPartial
  <2>2. \A v \in Workers : call'[v].pc = IF v = w THEN "settle" ELSE call[v].pc
    <3>1. CASE OneExact(seen)
      <4>1. PICK i \in seen :
              call' = [call EXCEPT ![w].pc = "settle", ![w].got = "exact", ![w].fid = i]
        BY <2>1, <3>1 DEF Fetched, OneExact
      <4> QED BY <1>v, <4>1 DEF CallStates
    <3>2. CASE ~OneExact(seen)
      BY <1>v, <2>1, <3>2 DEF Fetched, CallStates
    <3> QED BY <3>1, <3>2
  <2>3. WorkersQuiet
    BY <2>2 DEF WorkersQuiet, At, Sending
  <2>4. IntentInv' /\ intent'.started = intent.started /\ UNCHANGED <<manual, External>>
    BY <1>1, <1>v DEF FetchComplete, FetchPartial, Local, IntentInv
  <2> QED BY <2>3, <2>4, Frame, ShopUnchanged
<1>2. CASE FetchFails(w)
  <2>1. IntentInv' /\ intent'.started = intent.started
    BY <1>2, <1>v, MoveKeeps DEF FetchFails, Status
  <2>2. WorkersQuiet /\ UNCHANGED <<manual, External>>
    BY <1>2, QuietMoves DEF FetchFails
  <2> QED BY <2>1, <2>2, Frame, ShopUnchanged
<1>3. CASE Settle(w)
  <2>1. call[w].fid \in Nat
    BY <1>v DEF CallStates
  <2>2. IntentInv' /\ intent'.started = intent.started
    <3>1. CASE call[w].got = "exact" /\ call[w].aside
      BY <1>3, <1>v, <2>1, <3>1, IdentityKeeps DEF Settle, CargoConflict
    <3>2. CASE call[w].got = "exact" /\ ~call[w].aside
      BY <1>3, <1>v, <2>1, <3>2, IdentityKeeps DEF Settle
    <3>3. CASE call[w].got = "some"
      <4>1. MoveFrom(Reconcilable, "CONFLICT", "SHOPIFY_RECONCILIATION_AMBIGUOUS")
        BY <1>3, <3>3 DEF Settle
      <4> QED BY <1>v, <4>1, MoveKeeps DEF Status
    <3>4. CASE call[w].got \notin {"exact", "some"}
      <4>1. MoveFrom(Reconcilable, "OUTCOME_UNKNOWN", intent.reason)
        BY <1>3, <3>4 DEF Settle
      <4> QED BY <1>v, <4>1, MoveKeeps DEF Status
    <3> QED BY <3>1, <3>2, <3>3, <3>4
  <2>3. WorkersQuiet /\ UNCHANGED <<manual, External>>
    BY <1>3, QuietMoves DEF Settle
  <2> QED BY <2>2, <2>3, Frame, ShopUnchanged
<1> QED BY <1>1, <1>2, <1>3 DEF Reconcile

\* A poller writes the cargo only before the submission, and conflicts keep what was started.
LEMMA PollSafe ==
    ASSUME TypeOK, Safe, NEW p \in Pollers, Poll(p) PROVE Safe'
<1> p \in Calls
  BY DEF Calls
<1>v. intent \in Intents /\ IntentInv /\ call \in [Calls -> CallStates] /\ Workers \subseteq Calls
  BY DEF TypeOK, Safe, Calls
<1>pc. {"detail", "record", "mismatch", "project"} \subseteq Pc \ ({"create"} \cup Sending)
  BY DEF Pc, PollerPc, Sending
<1>c. ASSUME intent' = [intent EXCEPT !.status = "CONFLICT", !.reason = "CARGO_MISMATCH"]
             \/ intent' = [intent EXCEPT !.status = "CONFLICT", !.reason = "LOCAL"]
      PROVE  IntentInv' /\ intent'.started = intent.started
  BY <1>c, <1>v DEF IntentInv, Intents, Reconcilable, BeforeSubmission
<1>u. UNCHANGED intent => IntentInv' /\ intent'.started = intent.started
  BY <1>v DEF IntentInv
<1>1. CASE PollScan(p)
  <2>1. WorkersQuiet /\ UNCHANGED <<intent, manual, External>>
    BY <1>1, <1>pc, QuietMoves DEF PollScan, Local
  <2> QED BY <1>u, <2>1, Frame, ShopUnchanged
<1>2. CASE PollDetail(p)
  <2>1. ASSUME NEW c \in Cargos, call' = [call EXCEPT ![p].pc = "record", ![p].cargo = c]
        PROVE  WorkersQuiet
    <3>1. \A v \in Workers : call'[v].pc = IF v = p THEN "record" ELSE call[v].pc
      BY <1>v, <2>1 DEF CallStates
    <3> QED BY <3>1 DEF WorkersQuiet, At, Sending
  <2>2. WorkersQuiet /\ UNCHANGED <<intent, manual, External>>
    BY <1>2, <2>1, QuietMoves DEF PollDetail, Local
  <2> QED BY <1>u, <2>2, Frame, ShopUnchanged
<1>3. CASE RecordIntent(p)
  <2>1. IntentInv' /\ intent'.started = intent.started
    <3>1. CASE /\ intent.status = "absent"
               /\ intent' = [intent EXCEPT !.status = "CARGO_VERIFIED", !.cargo = call[p].cargo]
      BY <1>v, <3>1 DEF IntentInv, Intents, Reconcilable, BeforeSubmission
    <3> QED BY <1>3, <1>u, <3>1 DEF RecordIntent
  <2>2. WorkersQuiet /\ UNCHANGED <<manual, External>>
    BY <1>3, <1>pc, QuietMoves DEF RecordIntent
  <2> QED BY <2>1, <2>2, Frame, ShopUnchanged
<1>4. CASE RecordMismatch(p)
  <2>1. WorkersQuiet /\ UNCHANGED <<manual, External>>
    BY <1>4, QuietMoves DEF RecordMismatch
  <2> QED BY <1>4, <1>c, <2>1, Frame, ShopUnchanged DEF RecordMismatch
<1>5. CASE ProjectCargo(p)
  <2>1. IntentInv' /\ intent'.started = intent.started
    BY <1>5, <1>c, <1>u DEF ProjectCargo
  <2>2. WorkersQuiet /\ UNCHANGED <<manual, External>>
    BY <1>5, QuietMoves DEF ProjectCargo
  <2> QED BY <2>1, <2>2, Frame, ShopUnchanged
<1> QED BY <1>1, <1>2, <1>3, <1>4, <1>5 DEF Poll

\* The manual path claims only where the submission has not started.
LEMMA ManualSafe ==
    ASSUME TypeOK, Safe, NEW v \in Vendors, Manual(v) PROVE Safe'
<1> v \in Calls
  BY DEF Calls
<1>v. /\ intent \in Intents /\ manual \in ManualRows /\ posts \in [sopyo : Nat, manual : Nat]
      /\ call \in [Calls -> CallStates] /\ Workers \subseteq Calls /\ v \notin Workers
  BY ConstantsAssumption DEF TypeOK, Calls
<1>u. UNCHANGED intent => IntentInv' /\ intent'.started = intent.started
  BY DEF Safe, IntentInv
<1>w. ASSUME \A d \in Calls : d # v => call'[d] = call[d] PROVE WorkersQuiet
  BY <1>v, <1>w DEF WorkersQuiet, At
<1>f. ManualFailed(v) => /\ manual'.sync = "failed" /\ UNCHANGED intent
                         /\ \A d \in Calls : d # v => call'[d] = call[d]
  BY <1>v DEF ManualFailed, Return, ManualRows
<1>1. CASE ManualClaim(v)
  <2>1. ~intent.started /\ UNCHANGED <<intent, External>>
    BY <1>1 DEF ManualClaim, ManualMayClaim, SopyoHolds
  <2>2. WorkersQuiet
    BY <1>1, <1>v, <1>w DEF ManualClaim
  <2>3. IntentInv'
    BY <1>u, <2>1
  <2> QED BY <2>1, <2>2, <2>3
          DEF Safe, WorkerInv, SentInv, ClaimsExclusive, WorkersQuiet, Sending, External
<1>2. CASE ManualLookup(v)
  <2>1. \A d \in Calls : d # v => call'[d] = call[d]
    BY <1>2, <1>v, <1>f DEF ManualLookup, Goto, Return
  <2>2. /\ UNCHANGED <<intent, External>>
        /\ manual'.sync = "pending" => manual.sync = "pending"
    BY <1>2, <1>f DEF ManualLookup, Local
  <2> QED BY <1>u, <1>w, <2>1, <2>2, Frame, ShopUnchanged
<1>3. CASE ManualCreate(v)
  <2>1. \A d \in Calls : d # v => call'[d] = call[d]
    BY <1>3, <1>v DEF ManualCreate, Goto
  <2>2. UNCHANGED <<intent, manual, shop>>
    BY <1>3 DEF ManualCreate, Local
  <2>3. NothingSent
    BY <1>3, <1>v, <2>2 DEF ManualCreate, Send, NothingSent, Safe, SentInv
  <2> QED BY <1>u, <1>w, <2>1, <2>2, <2>3, Frame
<1>4. CASE ManualNoAnswer(v)
  <2>1. \A d \in Calls : d # v => call'[d] = call[d]
    BY <1>4, <1>v DEF ManualNoAnswer
  <2>2. UNCHANGED <<intent, manual, External>>
    BY <1>4 DEF ManualNoAnswer, Local
  <2> QED BY <1>u, <1>w, <2>1, <2>2, Frame, ShopUnchanged
<1>5. CASE ManualRecord(v)
  <2>1. \A d \in Calls : d # v => call'[d] = call[d]
    BY <1>5, <1>v, <1>f DEF ManualRecord, Return
  <2>2. /\ UNCHANGED <<intent, External>>
        /\ manual'.sync = "pending" => manual.sync = "pending"
    BY <1>5, <1>f DEF ManualRecord
  <2> QED BY <1>u, <1>w, <2>1, <2>2, Frame, ShopUnchanged
<1> QED BY <1>1, <1>2, <1>3, <1>4, <1>5 DEF Manual

\* A webhook makes no claim.
LEMMA HookSafe ==
    ASSUME TypeOK, Safe, NEW h \in Hooks, HookRead(h) \/ HookApply(h) PROVE Safe'
<1> h \in Calls
  BY DEF Calls
<1>v. /\ manual \in ManualRows /\ call \in [Calls -> CallStates]
      /\ Workers \subseteq Calls /\ h \notin Workers
  BY ConstantsAssumption DEF TypeOK, Calls
<1>1. \A d \in Calls : d # h => call'[d] = call[d]
  BY <1>v DEF HookRead, HookApply, Return
<1>2. WorkersQuiet
  BY <1>v, <1>1 DEF WorkersQuiet, At
<1>3. UNCHANGED <<intent, External>>
  BY DEF HookRead, HookApply, Local
<1>4. IntentInv' /\ intent'.started = intent.started
  BY <1>3 DEF Safe, IntentInv
<1>5. manual'.sync = "pending" => manual.sync = "pending"
  BY <1>v DEF HookRead, HookApply, Local, ManualRows
<1> QED BY <1>2, <1>3, <1>4, <1>5, Frame, ShopUnchanged

\* Whatever Shopify makes of the Sopyo path was sent.
LEMMA EnvironmentSafe == ASSUME TypeOK, Safe, Environment PROVE Safe'
<1>v. /\ call \in [Calls -> CallStates] /\ Workers \subseteq Calls /\ shop \in Seq(Fulfillments)
      /\ wire \subseteq Requests
  BY DEF TypeOK, Calls
<1>u. UNCHANGED intent => IntentInv' /\ intent'.started = intent.started
  BY DEF Safe, IntentInv
<1>s. \A i \in DOMAIN shop : i \in 1..Len(shop) /\ shop[i] \in Fulfillments
  BY <1>v
\* One fulfillment more, and not one of the worker's unless a worker asked.
<1>a. ASSUME NEW new \in Fulfillments, shop' = Append(shop, new), posts' = posts,
             wire' \subseteq wire, new.by = "sopyo" => posts.sopyo > 0
      PROVE  NothingSent
  <2>1. \A i \in DOMAIN shop' : shop'[i] = new \/ (i \in DOMAIN shop /\ shop'[i] = shop[i])
    BY <1>v, <1>a, AppendProperties
  <2> QED BY <1>a, <2>1 DEF NothingSent, Safe, SentInv
\* A fulfillment that is changed in Shopify remains its maker's.
<1>b. ASSUME \A i \in DOMAIN shop' : i \in DOMAIN shop /\ shop'[i].by = shop[i].by,
             UNCHANGED <<posts, wire>>
      PROVE  NothingSent
  BY <1>b DEF NothingSent, Safe, SentInv
<1>1. ASSUME NEW r \in wire, Process(r) PROVE Safe'
  <2>1. r.caller \in Calls /\ r.cargo \in Cargos \cup {NoCargo}
    BY <1>v DEF Requests, Calls
  <2>2. WorkersQuiet
    <3>1. PICK got, fid : Answer(r, got, fid)
      BY <1>1 DEF Process
    <3>2. CASE UNCHANGED call
      BY <3>2 DEF WorkersQuiet, At
    <3>3. CASE ~UNCHANGED call
      <4> DEFINE next == IF call[r.caller].pc = "await" THEN "answered" ELSE "answeredManual"
      <4>1. /\ call' = [call EXCEPT ![r.caller].pc = next, ![r.caller].got = got,
                                    ![r.caller].fid = fid]
            /\ call[r.caller].pc \in {"await", "awaitManual"}
        BY <1>v, <2>1, <3>1, <3>3 DEF Answer, Awaiting
      <4>2. \A w \in Workers : call'[w].pc = IF w = r.caller THEN next ELSE call[w].pc
        <5> HIDE DEF next
        <5> QED BY <1>v, <2>1, <4>1 DEF CallStates
      <4>3. next # "create" /\ (next \in Sending => call[r.caller].pc \in Sending)
        BY <4>1 DEF Sending
      <4> HIDE DEF next
      <4> QED BY <4>2, <4>3 DEF WorkersQuiet, At
    <3> QED BY <3>2, <3>3
  <2>3. NothingSent
    <3>1. CASE UNCHANGED shop
      BY <1>1, <1>b, <3>1 DEF Process, NothingSent, Safe, SentInv
    <3>2. CASE ~UNCHANGED shop
      <4> DEFINE new == [cargo |-> r.cargo, live |-> TRUE,
                         by |-> IF r.caller \in Workers THEN "sopyo" ELSE "manual"]
      <4>1. new \in Fulfillments /\ (new.by = "sopyo" => r.caller \in Workers)
        BY <2>1 DEF Fulfillments
      <4>2. shop' = Append(shop, new) /\ posts' = posts /\ wire' \subseteq wire
        BY <1>1, <3>2 DEF Process
      <4>3. r.caller \in Workers => posts.sopyo > 0
        BY DEF Safe, SentInv
      <4> HIDE DEF new
      <4> QED BY <1>a, <4>1, <4>2, <4>3
    <3> QED BY <3>1, <3>2
  <2> QED BY <1>1, <1>u, <2>2, <2>3, Frame DEF Process, Local
<1>q. UNCHANGED call => WorkersQuiet
  BY DEF WorkersQuiet, At
<1>2. CASE AdminFulfill
  <2>1. PICK c \in Cargos : shop' = Append(shop, [cargo |-> c, live |-> TRUE, by |-> "admin"])
    BY <1>2 DEF AdminFulfill
  <2>2. [cargo |-> c, live |-> TRUE, by |-> "admin"] \in Fulfillments
    BY DEF Fulfillments
  <2>3. NothingSent
    BY <1>2, <1>a, <2>1, <2>2 DEF AdminFulfill
  <2> QED BY <1>2, <1>q, <1>u, <2>3, Frame DEF AdminFulfill, Local
<1>3. CASE AdminCancel
  <2>1. \A i \in DOMAIN shop' : i \in DOMAIN shop /\ shop'[i].by = shop[i].by
    BY <1>3, <1>s DEF AdminCancel, Fulfillments
  <2> QED BY <1>3, <1>b, <1>q, <1>u, <2>1, Frame DEF AdminCancel, Local
<1>4. CASE AdminRetrack
  <2>1. \A i \in DOMAIN shop' : i \in DOMAIN shop /\ shop'[i].by = shop[i].by
    BY <1>4, <1>s DEF AdminRetrack, Fulfillments
  <2> QED BY <1>4, <1>b, <1>q, <1>u, <2>1, Frame DEF AdminRetrack, Local
<1>5. CASE Close
  BY <1>5, <1>q, <1>u, Frame, ShopUnchanged DEF Close
<1> QED BY <1>1, <1>2, <1>3, <1>4, <1>5 DEF Environment

\* Every step keeps the invariant.
LEMMA SafeStep == TypeOK /\ Safe /\ [Next]_vars => Safe'
<1> SUFFICES ASSUME TypeOK, Safe, [Next]_vars PROVE Safe'
  OBVIOUS
<1>u. UNCHANGED intent => IntentInv' /\ intent'.started = intent.started
  BY DEF Safe, IntentInv
<1>1. ASSUME NEW c \in Calls, Crash(c) PROVE Safe'
  BY <1>1, <1>u, QuietMoves, Frame, ShopUnchanged DEF Crash, Local
<1>2. CASE UNCHANGED vars
  BY <1>2, <1>u, Frame, ShopUnchanged DEF vars, External, WorkersQuiet, At
<1> QED
  BY <1>1, <1>2, PlanSafe, ExecuteSafe, ReconcileSafe, PollSafe, ManualSafe, HookSafe,
     EnvironmentSafe DEF Next

\* IInv holds of every reachable state.
LEMMA Invariance == Spec => []IInv
<1>1. Init => IInv
  BY TypeInit, InitSafe DEF IInv
<1>2. IInv /\ [Next]_vars => IInv'
  BY TypeStep, SafeStep DEF IInv
<1> QED BY <1>1, <1>2, PTL DEF Spec

-----------------------------------------------------------------------------
(* Theorems *)

\* The state of the intent, the local rows, the calls and Shopify has its type
\* whatever the workers, webhooks and administrators do.
THEOREM TypeCorrect == Spec => []TypeOK
<1>1. IInv => TypeOK
  BY DEF IInv
<1> QED BY <1>1, Invariance, PTL

\* The claim of the executor lets one create through for the intent, for any
\* number of workers and restarts.
THEOREM SubmitsOnce == Spec => []OneSubmission
<1>1. IInv => OneSubmission
  BY DEF IInv, Safe, SentInv, OneSubmission
<1> QED BY <1>1, Invariance, PTL

\* The manual claim and the claim of the executor exclude each other.
THEOREM Exclusion == Spec => []ClaimsExclusive
<1>1. IInv => ClaimsExclusive
  BY DEF IInv, Safe
<1> QED BY <1>1, Invariance, PTL

\* What was sent is remembered: no write of the planner, the poller or an old
\* call makes the intent look unsubmitted.
THEOREM Remembered == Spec => []SubmissionRemembered
<1>1. IInv => SubmissionRemembered
  BY DEF IInv, Safe, SentInv, IntentInv, SubmissionRemembered, SopyoSent
<1> QED BY <1>1, Invariance, PTL

\* No step replaces or loses a proven identity.
LEMMA IdentityStep ==
    ASSUME IInv, [Next]_vars, intent.fid # 0 PROVE intent'.fid = intent.fid
<1>v. intent \in Intents /\ intent.status \notin Reconcilable /\ intent.started
  BY DEF IInv, Safe, TypeOK, IntentInv
<1>m. \A from, to, reason : MoveFrom(from, to, reason) => intent'.fid = intent.fid
  BY <1>v DEF MoveFrom, Intents
<1>1. ASSUME NEW w \in Workers, Plan(w) \/ Execute(w) PROVE intent'.fid = intent.fid
  <2>1. CASE Plan(w)
    BY <1>v, <1>m, <2>1 DEF Plan, Scan, PlanRead, PlanCommit, Local, Intents
  <2>2. CASE ClaimSubmission(w)
    BY <1>m, <2>2 DEF ClaimSubmission, Claimable
  <2>3. CASE RecordCreated(w)
    BY <1>v, <2>3 DEF RecordCreated, Proven
  <2>4. CASE RecordNotCreated(w)
    BY <1>m, <2>4 DEF RecordNotCreated
  <2>5. CASE ReadCanonical(w)
    BY <1>m, <2>5 DEF ReadCanonical
  <2>6. CASE ExecuteRead(w) \/ CreateFulfillment(w) \/ NoAnswer(w)
    BY <2>6 DEF ExecuteRead, CreateFulfillment, NoAnswer, Local
  <2> QED BY <1>1, <2>1, <2>2, <2>3, <2>4, <2>5, <2>6 DEF Execute
<1>2. ASSUME NEW w \in Workers, Reconcile(w) PROVE intent'.fid = intent.fid
  <2>1. CASE Settle(w)
    <3>1. CASE call[w].got = "exact"
      BY <1>v, <2>1, <3>1 DEF Settle
    <3>2. CASE call[w].got # "exact"
      <4>1. \/ MoveFrom(Reconcilable, "CONFLICT", "SHOPIFY_RECONCILIATION_AMBIGUOUS")
            \/ MoveFrom(Reconcilable, "OUTCOME_UNKNOWN", intent.reason)
        BY <2>1, <3>2 DEF Settle
      <4> QED BY <1>m, <4>1
    <3> QED BY <3>1, <3>2
  <2>2. CASE FetchFails(w)
    BY <1>m, <2>2 DEF FetchFails
  <2>3. CASE FetchComplete(w) \/ FetchPartial(w)
    BY <2>3 DEF FetchComplete, FetchPartial, Local
  <2> QED BY <1>2, <2>1, <2>2, <2>3 DEF Reconcile
<1>3. ASSUME NEW p \in Pollers, Poll(p) PROVE intent'.fid = intent.fid
  BY <1>3, <1>v DEF Poll, PollScan, PollDetail, RecordIntent, RecordMismatch, ProjectCargo,
     Local, Intents
<1>4. ASSUME NEW v \in Vendors, Manual(v) PROVE UNCHANGED intent
  BY <1>4 DEF Manual, ManualClaim, ManualLookup, ManualCreate, ManualNoAnswer, ManualRecord,
     ManualFailed, Local
<1>5. ASSUME NEW h \in Hooks, HookRead(h) \/ HookApply(h) PROVE UNCHANGED intent
  BY <1>5 DEF HookRead, HookApply, Local
<1>6. ASSUME Environment PROVE UNCHANGED intent
  BY <1>6 DEF Environment, Process, AdminFulfill, AdminCancel, AdminRetrack, Close, Local
<1>7. ASSUME NEW c \in Calls, Crash(c) PROVE UNCHANGED intent
  BY <1>7 DEF Crash, Local
<1>8. CASE UNCHANGED vars
  BY <1>8 DEF vars
<1> QED BY <1>1, <1>2, <1>3, <1>4, <1>5, <1>6, <1>7, <1>8 DEF Next

\* An identity once recorded stays, through conflicts, corrections of the
\* cargo, late answers and cancellations in Shopify.
THEOREM IdentityKept == Spec => IdentityFixed
<1>1. IInv /\ [Next]_vars => [intent.fid # 0 => intent'.fid = intent.fid]_vars
  BY IdentityStep
<1> QED BY <1>1, Invariance, PTL DEF Spec, IdentityFixed

-----------------------------------------------------------------------------
(* What becomes of a proven identity *)

\* What a submitted intent may conflict about.
LateConflicts == {"CARGO_MISMATCH", "LOCAL", "SHOPIFY_CREATE_REJECTED",
                  "SHOPIFY_RECONCILIATION_AMBIGUOUS"}

\* Only a submission is rejected, a confirmed intent has its identity, and the
\* planner's conflict is not one of a submitted intent.
ProofInv ==
    /\ intent.status = "CONFIRMED" => intent.fid # 0
    /\ intent.started /\ intent.status = "CONFLICT" => intent.reason \in LateConflicts
    /\ intent.reason = "SHOPIFY_CREATE_REJECTED" => intent.started

\* A worker that has claimed and not yet recorded the answer.
Busy(w) == call[w].pc \in {"create"} \cup Sending

\* A success names a fulfillment, and so does an exact match.
Named(w) ==
    \/ call[w].pc = "answered" /\ call[w].got = "success"
    \/ call[w].pc = "settle" /\ call[w].got = "exact"
    => call[w].fid # 0

\* One worker at most is busy, and none once the rejection was recorded.
AnswerInv ==
    /\ \A w \in Workers : Named(w)
    /\ \A v, w \in Workers : Busy(v) /\ Busy(w) => v = w
    /\ \A w \in Workers : Busy(w) => intent.started
    /\ intent.reason = "SHOPIFY_CREATE_REJECTED" => \A w \in Workers : ~Busy(w)

Recorded == ProofInv /\ AnswerInv

\* Nothing was submitted yet.
LEMMA RecordedInit == Init => Recorded
<1> SUFFICES ASSUME Init PROVE Recorded
  OBVIOUS
<1>1. \A w \in Workers : call[w].pc = "idle"
  BY DEF Init, Idle, Calls
<1> QED BY <1>1 DEF Init, Recorded, ProofInv, AnswerInv, Busy, Named, Sending

\* Every write of the row keeps what it says of the submission.
LEMMA ProofKeeps ==
    ASSUME TypeOK, IntentInv, ProofInv
    PROVE  /\ \A from, to, reason :
                /\ MoveFrom(from, to, reason)
                /\ \/ to = "CONFLICT" /\ from \subseteq BeforeSubmission /\ reason = "SHOPIFY_PLAN"
                   \/ to = "CONFLICT" /\ from \subseteq Reconcilable /\ reason \in LateConflicts
                   \/ to = "OUTCOME_UNKNOWN" /\ reason = intent.reason
                => ProofInv'
           /\ \A reason \in {"CARGO_MISMATCH", "LOCAL"} :
                intent' = [intent EXCEPT !.status = "CONFLICT", !.reason = reason] => ProofInv'
           /\ \A fid \in Nat \ {0} :
                \/ intent' = [intent EXCEPT !.fid = fid]
                \/ intent' = [intent EXCEPT !.status = "CONFIRMED", !.fid = fid]
                => ProofInv'
           /\ UNCHANGED intent => ProofInv'
<1>1. intent \in Intents
  BY DEF TypeOK
<1>2. ASSUME NEW from, NEW to, NEW reason, MoveFrom(from, to, reason),
             \/ to = "CONFLICT" /\ from \subseteq BeforeSubmission /\ reason = "SHOPIFY_PLAN"
             \/ to = "CONFLICT" /\ from \subseteq Reconcilable /\ reason \in LateConflicts
             \/ to = "OUTCOME_UNKNOWN" /\ reason = intent.reason
      PROVE  ProofInv'
  <2>1. CASE intent.status \notin from
    BY <1>2, <2>1 DEF MoveFrom, ProofInv
  <2>2. CASE intent.status \in from
    <3>1. intent' = [intent EXCEPT !.status = to, !.reason = reason]
      BY <1>2, <2>2 DEF MoveFrom
    <3>2. /\ intent'.status = to /\ intent'.reason = reason
          /\ intent'.started = intent.started /\ intent'.fid = intent.fid
      BY <1>1, <3>1 DEF Intents
    <3> QED BY <1>2, <2>2, <3>2 DEF ProofInv, IntentInv, LateConflicts
  <2> QED BY <2>1, <2>2
<1>3. ASSUME NEW reason \in {"CARGO_MISMATCH", "LOCAL"},
             intent' = [intent EXCEPT !.status = "CONFLICT", !.reason = reason]
      PROVE  ProofInv'
  BY <1>1, <1>3 DEF ProofInv, Intents, LateConflicts
<1>4. ASSUME NEW fid \in Nat \ {0},
             \/ intent' = [intent EXCEPT !.fid = fid]
             \/ intent' = [intent EXCEPT !.status = "CONFIRMED", !.fid = fid]
      PROVE  ProofInv'
  BY <1>1, <1>4 DEF ProofInv, Intents
<1>5. UNCHANGED intent => ProofInv'
  BY DEF ProofInv
<1> QED BY <1>2, <1>3, <1>4, <1>5

\* A step after which no worker is busier or knows more than before.
Calm ==
    \A w \in Workers : /\ Busy(w)' => Busy(w)
                       /\ Named(w) => Named(w)'

\* All that a step must show that neither claims nor records a rejection.
LEMMA RecordedFrame ==
    ASSUME Recorded, ProofInv', Calm, intent'.started = intent.started,
           intent'.reason = "SHOPIFY_CREATE_REJECTED" => intent.reason = "SHOPIFY_CREATE_REJECTED"
    PROVE  Recorded'
<1>1. \A w \in Workers : Named(w)'
  BY DEF Recorded, AnswerInv, Calm, Named
<1>2. \A w \in Workers : Busy(w)' => Busy(w)
  BY DEF Calm, Busy
<1>3. \A v, w \in Workers : Busy(v)' /\ Busy(w)' => v = w
  BY <1>2 DEF Recorded, AnswerInv
<1>4. \A w \in Workers : Busy(w)' => intent'.started
  BY <1>2 DEF Recorded, AnswerInv
<1>5. intent'.reason = "SHOPIFY_CREATE_REJECTED" => \A w \in Workers : ~Busy(w)'
  BY <1>2 DEF Recorded, AnswerInv
<1> QED BY <1>1, <1>3, <1>4, <1>5 DEF Recorded, AnswerInv

\* Calls that move elsewhere, or return.
LEMMA CalmMoves ==
    ASSUME TypeOK, NEW c \in Calls
    PROVE  /\ \A pc \in Pc \ ({"create", "settle"} \cup Sending) : Goto(c, pc) => Calm
           /\ Return(c) => Calm
           /\ UNCHANGED call => Calm
           /\ c \notin Workers /\ (\A d \in Calls : d # c => call'[d] = call[d]) => Calm
<1>1. call \in [Calls -> CallStates] /\ Workers \subseteq Calls
  BY DEF TypeOK, Calls
<1>2. ASSUME NEW pc \in Pc \ ({"create", "settle"} \cup Sending), Goto(c, pc) PROVE Calm
  <2>1. \A w \in Workers : w # c => call'[w] = call[w]
    BY <1>1, <1>2 DEF Goto
  <2>2. call'[c].pc = pc
    BY <1>1, <1>2 DEF Goto, CallStates
  <2> QED BY <1>2, <2>1, <2>2 DEF Calm, Busy, Named, Sending
<1>3. ASSUME Return(c) PROVE Calm
  <2>1. call'[c].pc = "idle" /\ \A w \in Workers : w # c => call'[w] = call[w]
    BY <1>1, <1>3 DEF Return, Idle
  <2> QED BY <2>1 DEF Calm, Busy, Named, Sending
<1>4. UNCHANGED call => Calm
  BY DEF Calm, Busy, Named
<1>5. c \notin Workers /\ (\A d \in Calls : d # c => call'[d] = call[d]) => Calm
  BY <1>1 DEF Calm, Busy, Named
<1> QED BY <1>2, <1>3, <1>4, <1>5

\* A write that is not a rejection, by a call that moves elsewhere.
LEMMA PlanRecorded ==
    ASSUME TypeOK, Safe, Recorded, NEW w \in Workers, Plan(w) PROVE Recorded'
<1> w \in Calls
  BY DEF Calls
<1>v. intent \in Intents /\ IntentInv /\ ProofInv
  BY DEF TypeOK, Safe, Recorded
<1>pc. {"planRead", "commit", "execute"} \subseteq Pc \ ({"create", "settle"} \cup Sending)
  BY DEF Pc, WorkerPc, Sending
<1>m. ASSUME MoveFrom(BeforeSubmission, "CONFLICT", "SHOPIFY_PLAN")
      PROVE  /\ ProofInv' /\ intent'.started = intent.started
             /\ intent'.reason = "SHOPIFY_CREATE_REJECTED" => intent.reason = "SHOPIFY_CREATE_REJECTED"
  <2>1. ProofInv'
    BY <1>m, <1>v, ProofKeeps
  <2> QED BY <1>m, <1>v, <2>1 DEF MoveFrom, Intents
<1>u. ASSUME UNCHANGED intent
      PROVE  /\ ProofInv' /\ intent'.started = intent.started
             /\ intent'.reason = intent.reason
  BY <1>u, <1>v DEF ProofInv
<1>1. CASE Scan(w)
  BY <1>1, <1>u, <1>pc, CalmMoves, RecordedFrame DEF Scan, Local
<1>2. CASE PlanRead(w)
  <2>1. Calm
    BY <1>2, <1>pc, CalmMoves DEF PlanRead
  <2> QED BY <1>2, <1>m, <1>u, <2>1, RecordedFrame DEF PlanRead
<1>3. CASE PlanCommit(w)
  <2>1. Calm
    BY <1>3, <1>pc, CalmMoves DEF PlanCommit
  <2>2. CASE ~intent.plan /\ intent' = [intent EXCEPT !.plan = TRUE, !.status = "PLAN_READY"]
    <3>1. /\ intent'.status = "PLAN_READY" /\ intent'.reason = intent.reason
          /\ intent'.started = intent.started
      BY <1>v, <2>2 DEF Intents
    <3>2. ProofInv'
      BY <1>v, <3>1 DEF ProofInv
    <3> QED BY <2>1, <3>1, <3>2, RecordedFrame
  <2> QED BY <1>3, <1>m, <1>u, <2>1, <2>2, RecordedFrame DEF PlanCommit
<1> QED BY <1>1, <1>2, <1>3 DEF Plan

\* The claim makes the first busy worker; its answer is not known yet.
LEMMA ClaimRecorded ==
    ASSUME TypeOK, Safe, Recorded, NEW w \in Workers, ClaimSubmission(w) PROVE Recorded'
<1> w \in Calls
  BY DEF Calls
<1>v. intent \in Intents /\ IntentInv /\ ProofInv /\ call \in [Calls -> CallStates] /\ Workers \subseteq Calls
  BY DEF TypeOK, Safe, Recorded, Calls
<1>1. CASE /\ Claimable
           /\ intent' = [intent EXCEPT !.status = "SUBMISSION_PENDING", !.started = TRUE]
           /\ Goto(w, "create")
  <2>1. ~intent.started /\ intent.reason # "SHOPIFY_CREATE_REJECTED"
    BY <1>1, <1>v DEF Claimable, ProofInv
  <2>2. intent'.started /\ intent'.reason = intent.reason /\ intent'.status = "SUBMISSION_PENDING"
    BY <1>1, <1>v DEF Intents
  <2>3. ProofInv'
    BY <2>1, <2>2 DEF ProofInv
  <2>4. call'[w].pc = "create" /\ \A v \in Workers : v # w => call'[v] = call[v]
    BY <1>1, <1>v DEF Goto, CallStates
  <2>5. \A v \in Workers : ~Busy(v)
    BY <2>1 DEF Recorded, AnswerInv
  <2>6. \A v \in Workers : Busy(v)' => v = w
    BY <2>4, <2>5 DEF Busy
  <2>7. \A v \in Workers : Named(v)'
    BY <2>4 DEF Recorded, AnswerInv, Named
  <2>8. AnswerInv'
    BY <2>1, <2>2, <2>6, <2>7 DEF AnswerInv
  <2> QED BY <2>3, <2>8 DEF Recorded
<1>2. CASE /\ Return(w)
           /\ UNCHANGED intent \/ MoveFrom({"PLAN_READY"}, "CONFLICT", "SHOPIFY_PLAN")
  <2>1. Calm
    BY <1>2, CalmMoves
  <2>2. ProofInv'
    BY <1>2, <1>v, ProofKeeps DEF BeforeSubmission
  <2>3. /\ intent'.started = intent.started
        /\ intent'.reason = "SHOPIFY_CREATE_REJECTED" => intent.reason = "SHOPIFY_CREATE_REJECTED"
    BY <1>2, <1>v DEF MoveFrom, Intents
  <2> QED BY <2>1, <2>2, <2>3, RecordedFrame
<1> QED BY <1>1, <1>2 DEF ClaimSubmission

\* A worker on its way from the claim to the answer is as busy as before.
LEMMA BusyMoves ==
    ASSUME TypeOK, NEW w \in Calls, w \in Workers => Busy(w),
           \A d \in Calls : d # w => call'[d] = call[d],
           call'[w].pc # "settle",
           call'[w].pc = "answered" /\ call'[w].got = "success" => call'[w].fid # 0
    PROVE  Calm
<1>1. Workers \subseteq Calls
  BY DEF Calls
<1> QED BY <1>1 DEF Calm, Busy, Named, Sending

\* The executor keeps it: a rejection is recorded by the one busy worker, which returns.
LEMMA ExecuteRecorded ==
    ASSUME TypeOK, Safe, Recorded, NEW w \in Workers, Execute(w) PROVE Recorded'
<1> w \in Calls
  BY DEF Calls
<1>v. /\ intent \in Intents /\ IntentInv /\ ProofInv
      /\ call \in [Calls -> CallStates] /\ Workers \subseteq Calls
  BY DEF TypeOK, Safe, Recorded, Calls
<1>pc. {"canonical", "cas"} \subseteq Pc \ ({"create", "settle"} \cup Sending)
  BY DEF Pc, WorkerPc, Sending
<1>u. ASSUME UNCHANGED intent
      PROVE  /\ ProofInv' /\ intent'.started = intent.started
             /\ intent'.reason = intent.reason
  BY <1>u, <1>v DEF ProofInv
<1>1. CASE ExecuteRead(w)
  <2>1. Calm
    <3>1. CASE call' = [call EXCEPT ![w].pc = "fetch", ![w].aside = CargoConflict]
      <4>1. call'[w].pc = "fetch" /\ \A v \in Workers : v # w => call'[v] = call[v]
        BY <1>v, <3>1 DEF CallStates
      <4> QED BY <4>1 DEF Calm, Busy, Named, Sending
    <3> QED BY <1>1, <1>pc, <3>1, CalmMoves DEF ExecuteRead
  <2> QED BY <1>1, <1>u, <2>1, RecordedFrame DEF ExecuteRead, Local
<1>2. CASE ReadCanonical(w)
  <2>1. Calm
    BY <1>2, <1>pc, CalmMoves DEF ReadCanonical
  <2>2. CASE MoveFrom({"PLAN_READY"}, "CONFLICT", "SHOPIFY_PLAN")
    <3>1. ProofInv'
      BY <1>v, <2>2, ProofKeeps DEF BeforeSubmission
    <3>2. /\ intent'.started = intent.started
          /\ intent'.reason = "SHOPIFY_CREATE_REJECTED" => intent.reason = "SHOPIFY_CREATE_REJECTED"
      BY <2>2, <1>v DEF MoveFrom, Intents
    <3> QED BY <2>1, <3>1, <3>2, RecordedFrame
  <2> QED BY <1>2, <1>u, <2>1, <2>2, RecordedFrame DEF ReadCanonical
<1>3. CASE CreateFulfillment(w)
  <2>1. call'[w].pc = "await" /\ \A d \in Calls : d # w => call'[d] = call[d]
    BY <1>3, <1>v DEF CreateFulfillment, Goto, CallStates
  <2>2. Busy(w)
    BY <1>3 DEF CreateFulfillment, At, Busy
  <2>3. Calm
    BY <2>1, <2>2, BusyMoves
  <2> QED BY <1>3, <1>u, <2>3, RecordedFrame DEF CreateFulfillment, Local
<1>4. CASE NoAnswer(w)
  <2>1. call'[w].pc = "answered" /\ call'[w].got = "unknown" /\ \A d \in Calls : d # w => call'[d] = call[d]
    BY <1>4, <1>v DEF NoAnswer, CallStates
  <2>2. Busy(w)
    BY <1>4 DEF NoAnswer, At, Busy, Sending
  <2>3. Calm
    BY <2>1, <2>2, BusyMoves
  <2> QED BY <1>4, <1>u, <2>3, RecordedFrame DEF NoAnswer, Local
<1>5. CASE RecordCreated(w)
  <2>1. Calm
    BY <1>5, CalmMoves DEF RecordCreated
  <2>2. call[w].fid \in Nat \ {0}
    BY <1>5, <1>v DEF RecordCreated, Recorded, AnswerInv, Named, At, CallStates
  <2>3. ProofInv'
    BY <1>5, <1>v, <2>2, ProofKeeps DEF RecordCreated, Proven
  <2>4. intent'.started = intent.started /\ intent'.reason = intent.reason
    BY <1>5, <1>v DEF RecordCreated, Proven, Intents
  <2> QED BY <2>1, <2>3, <2>4, RecordedFrame
<1>6. CASE RecordNotCreated(w)
  <2>0. Calm
    BY <1>6, CalmMoves DEF RecordNotCreated
  <2>1. CASE MoveFrom({"SUBMISSION_PENDING"}, "CONFLICT", "SHOPIFY_CREATE_REJECTED")
    <3>1. ProofInv'
      BY <1>v, <2>1, ProofKeeps DEF Reconcilable, LateConflicts
    <3>2. Busy(w)
      BY <1>6 DEF RecordNotCreated, At, Busy, Sending
    <3>3. \A v \in Workers : ~Busy(v)'
      <4>1. call'[w].pc = "idle"
        BY <1>6, <1>v DEF RecordNotCreated, Return, Idle
      <4>2. ~Busy(w)'
        BY <4>1 DEF Busy, Sending
      <4> QED BY <2>0, <3>2, <4>2 DEF Calm, Recorded, AnswerInv, Busy
    <3>4. \A v \in Workers : Named(v)'
      BY <2>0 DEF Calm, Recorded, AnswerInv, Named
    <3> QED BY <3>1, <3>3, <3>4 DEF Recorded, AnswerInv
  <2>2. CASE MoveFrom({"SUBMISSION_PENDING"}, "OUTCOME_UNKNOWN", intent.reason)
    <3>1. ProofInv'
      BY <1>v, <2>2, ProofKeeps
    <3>2. intent'.started = intent.started /\ intent'.reason = intent.reason
      BY <2>2, <1>v DEF MoveFrom, Intents
    <3> QED BY <2>0, <3>1, <3>2, RecordedFrame
  <2> QED BY <1>6, <2>1, <2>2 DEF RecordNotCreated
<1> QED BY <1>1, <1>2, <1>3, <1>4, <1>5, <1>6, ClaimRecorded DEF Execute

\* A reconciliation confirms only what it found.
LEMMA ReconcileRecorded ==
    ASSUME TypeOK, Safe, Recorded, NEW w \in Workers, Reconcile(w) PROVE Recorded'
<1> w \in Calls
  BY DEF Calls
<1>v. /\ intent \in Intents /\ IntentInv /\ ProofInv /\ shop \in Seq(Fulfillments)
      /\ call \in [Calls -> CallStates] /\ Workers \subseteq Calls
  BY DEF TypeOK, Safe, Recorded, Calls
<1>1. CASE FetchComplete(w) \/ FetchPartial(w)
  <2>1. PICK seen \in SUBSET DOMAIN shop : Fetched(w, seen)
    BY <1>1 DEF FetchComplete, FetchPartial
  <2>2. /\ call'[w].pc = "settle" /\ (call'[w].got = "exact" => call'[w].fid # 0)
        /\ \A v \in Workers : v # w => call'[v] = call[v]
    <3>1. CASE OneExact(seen)
      <4>1. PICK i \in seen :
              call' = [call EXCEPT ![w].pc = "settle", ![w].got = "exact", ![w].fid = i]
        BY <2>1, <3>1 DEF Fetched, OneExact
      <4>2. i # 0
        BY <1>v
      <4> QED BY <1>v, <4>1, <4>2 DEF CallStates
    <3>2. CASE ~OneExact(seen)
      BY <1>v, <2>1, <3>2 DEF Fetched, CallStates
    <3> QED BY <3>1, <3>2
  <2>3. Calm
    BY <2>2 DEF Calm, Busy, Named, Sending
  <2>4. UNCHANGED intent
    BY <1>1 DEF FetchComplete, FetchPartial, Local
  <2> QED BY <1>v, <2>3, <2>4, RecordedFrame DEF ProofInv
<1>2. CASE FetchFails(w) \/ Settle(w)
  <2>1. Calm
    BY <1>2, CalmMoves DEF FetchFails, Settle
  <2>2. \/ UNCHANGED intent
        \/ MoveFrom(Reconcilable, "OUTCOME_UNKNOWN", intent.reason)
        \/ MoveFrom(Reconcilable, "CONFLICT", "SHOPIFY_RECONCILIATION_AMBIGUOUS")
        \/ /\ Settle(w) /\ call[w].got = "exact"
           /\ \/ intent' = [intent EXCEPT !.fid = call[w].fid]
              \/ intent' = [intent EXCEPT !.status = "CONFIRMED", !.fid = call[w].fid]
    <3>1. CASE FetchFails(w)
      BY <3>1 DEF FetchFails
    <3>2. CASE Settle(w)
      <4>1. CASE call[w].got = "exact"
        BY <3>2, <4>1 DEF Settle
      <4>2. CASE call[w].got = "some"
        BY <3>2, <4>2 DEF Settle
      <4>3. CASE call[w].got \notin {"exact", "some"}
        BY <3>2, <4>3 DEF Settle
      <4> QED BY <4>1, <4>2, <4>3
    <3> QED BY <1>2, <3>1, <3>2
  <2>3. Settle(w) /\ call[w].got = "exact" => call[w].fid \in Nat \ {0}
    BY <1>v DEF Settle, Recorded, AnswerInv, Named, At, CallStates
  <2>4. ProofInv'
    BY <1>v, <2>2, <2>3, ProofKeeps DEF LateConflicts
  <2>5. /\ intent'.started = intent.started
        /\ intent'.reason = "SHOPIFY_CREATE_REJECTED" => intent.reason = "SHOPIFY_CREATE_REJECTED"
    BY <1>v, <2>2 DEF MoveFrom, Intents
  <2> QED BY <2>1, <2>4, <2>5, RecordedFrame
<1> QED BY <1>1, <1>2 DEF Reconcile

\* A poller is no worker, and its conflicts are those of the cargo and of the
\* local rows.
LEMMA PollRecorded ==
    ASSUME TypeOK, Safe, Recorded, NEW p \in Pollers, Poll(p) PROVE Recorded'
<1> p \in Calls
  BY DEF Calls
<1>v. /\ intent \in Intents /\ IntentInv /\ ProofInv
      /\ call \in [Calls -> CallStates] /\ p \notin Workers
  BY ConstantsAssumption DEF TypeOK, Safe, Recorded
<1>1. \A d \in Calls : d # p => call'[d] = call[d]
  BY <1>v DEF Poll, PollScan, PollDetail, RecordIntent, RecordMismatch, ProjectCargo, Goto, Return
<1>2. Calm
  BY <1>v, <1>1, CalmMoves
<1>3. \/ UNCHANGED intent
      \/ \E reason \in {"CARGO_MISMATCH", "LOCAL"} :
            intent' = [intent EXCEPT !.status = "CONFLICT", !.reason = reason]
      \/ intent' = [intent EXCEPT !.status = "CARGO_VERIFIED", !.cargo = call[p].cargo]
  BY DEF Poll, PollScan, PollDetail, RecordIntent, RecordMismatch, ProjectCargo, Local
<1>4. ProofInv'
  <2>1. ASSUME intent' = [intent EXCEPT !.status = "CARGO_VERIFIED", !.cargo = call[p].cargo]
        PROVE  ProofInv'
    BY <1>v, <2>1 DEF ProofInv, Intents
  <2> QED BY <1>v, <1>3, <2>1, ProofKeeps
<1>5. /\ intent'.started = intent.started
      /\ intent'.reason = "SHOPIFY_CREATE_REJECTED" => intent.reason = "SHOPIFY_CREATE_REJECTED"
  BY <1>v, <1>3 DEF Intents
<1> QED BY <1>2, <1>4, <1>5, RecordedFrame

\* The others leave the intent alone; only Shopify's answer moves a worker.
LEMMA OthersRecorded ==
    ASSUME TypeOK, Safe, Recorded,
           \/ \E v \in Vendors : Manual(v)
           \/ \E h \in Hooks : HookRead(h) \/ HookApply(h)
           \/ \E c \in Calls : Crash(c)
           \/ Environment
           \/ UNCHANGED vars
    PROVE  Recorded'
<1>v. /\ call \in [Calls -> CallStates] /\ Workers \subseteq Calls
      /\ wire \subseteq Requests /\ shop \in Seq(Fulfillments)
  BY DEF TypeOK, Calls
<1>1. UNCHANGED intent
  BY DEF Manual, ManualClaim, ManualLookup, ManualCreate, ManualNoAnswer, ManualRecord, ManualFailed,
         HookRead, HookApply, Crash, Environment, Process, AdminFulfill, AdminCancel, AdminRetrack,
         Close, Local, vars
<1>2. ASSUME NEW v \in Vendors, Manual(v) PROVE Calm
  <2>1. v \in Calls /\ v \notin Workers
    BY ConstantsAssumption DEF Calls
  <2>2. \A d \in Calls : d # v => call'[d] = call[d]
    BY <1>2, <1>v DEF Manual, ManualClaim, ManualLookup, ManualCreate, ManualNoAnswer, ManualRecord,
                      ManualFailed, Goto, Return
  <2> QED BY <2>1, <2>2, CalmMoves
<1>3. ASSUME NEW h \in Hooks, HookRead(h) \/ HookApply(h) PROVE Calm
  <2>1. h \in Calls /\ h \notin Workers
    BY ConstantsAssumption DEF Calls
  <2>2. \A d \in Calls : d # h => call'[d] = call[d]
    BY <1>3, <1>v DEF HookRead, HookApply, Return
  <2> QED BY <2>1, <2>2, CalmMoves
<1>4. ASSUME NEW c \in Calls, Crash(c) PROVE Calm
  BY <1>4, CalmMoves DEF Crash
<1>5. ASSUME NEW r \in wire, Process(r) PROVE Calm
  <2>0. r.caller \in Calls
    BY <1>v DEF Requests, Calls
  <2>1. PICK got, fid : Answer(r, got, fid) /\ (got = "success" => fid # 0)
    <3>1. Len(shop) + 1 # 0
      BY <1>v
    <3> QED BY <1>5, <3>1 DEF Process
  <2>2. CASE UNCHANGED call
    BY <2>2 DEF Calm, Busy, Named
  <2>3. CASE ~UNCHANGED call
    <3> DEFINE next == IF call[r.caller].pc = "await" THEN "answered" ELSE "answeredManual"
    <3>1. /\ call' = [call EXCEPT ![r.caller].pc = next, ![r.caller].got = got,
                                  ![r.caller].fid = fid]
          /\ call[r.caller].pc \in {"await", "awaitManual"}
      BY <1>v, <2>0, <2>1, <2>3 DEF Answer, Awaiting
    <3>2. /\ call'[r.caller].pc = next /\ call'[r.caller].got = got /\ call'[r.caller].fid = fid
          /\ \A d \in Calls : d # r.caller => call'[d] = call[d]
      <4> HIDE DEF next
      <4> QED BY <1>v, <2>0, <3>1 DEF CallStates
    <3>3. CASE next = "answered"
      <4>1. Busy(r.caller)
        BY <3>3 DEF Busy, Sending
      <4> QED BY <2>0, <2>1, <3>2, <3>3, <4>1, BusyMoves
    <3>4. CASE next = "answeredManual"
      BY <1>v, <3>2, <3>4 DEF Calm, Busy, Named, Sending
    <3> QED BY <3>3, <3>4
  <2> QED BY <2>2, <2>3
<1>6. ASSUME AdminFulfill \/ AdminCancel \/ AdminRetrack \/ Close \/ UNCHANGED vars PROVE Calm
  <2>1. UNCHANGED call
    BY <1>6 DEF AdminFulfill, AdminCancel, AdminRetrack, Close, vars
  <2> QED BY <2>1 DEF Calm, Busy, Named
<1>7. Calm
  BY <1>2, <1>3, <1>4, <1>5, <1>6 DEF Environment
<1> QED BY <1>1, <1>7, RecordedFrame DEF Recorded, ProofInv

\* Every step keeps it.
LEMMA RecordedStep == TypeOK /\ Safe /\ Recorded /\ [Next]_vars => Recorded'
BY PlanRecorded, ExecuteRecorded, ReconcileRecorded, PollRecorded, OthersRecorded DEF Next

\* The answer of a create that succeeded is recorded by the call that made it,
\* unless the poller found that the local rows disagree, or a reconciliation
\* that ran meanwhile was ambiguous: no other conflict loses a proven identity.
THEOREM LostOnlySo ==
    Spec => [][\A w \in Workers : RecordCreated(w) =>
                  \/ intent'.fid # 0
                  \/ /\ intent.status = "CONFLICT"
                     /\ intent.reason \in {"LOCAL", "SHOPIFY_RECONCILIATION_AMBIGUOUS"}]_vars
<1>1. Init => Recorded
  BY RecordedInit
<1>2. IInv /\ Recorded /\ [Next]_vars => Recorded'
  BY RecordedStep DEF IInv
<1>3. ASSUME IInv, Recorded, NEW w \in Workers, RecordCreated(w)
      PROVE  \/ intent'.fid # 0
             \/ /\ intent.status = "CONFLICT"
                /\ intent.reason \in {"LOCAL", "SHOPIFY_RECONCILIATION_AMBIGUOUS"}
  <2>1. intent \in Intents
    BY <1>3 DEF IInv, TypeOK
  <2>2. Busy(w) /\ call[w].fid # 0
    BY <1>3 DEF RecordCreated, At, Busy, Sending, Recorded, AnswerInv, Named
  <2>3. intent.started /\ intent.reason # "SHOPIFY_CREATE_REJECTED"
    BY <1>3, <2>2 DEF Recorded, AnswerInv
  <2>4. intent.status \in Reconcilable \cup {"CONFIRMED", "CONFLICT"}
    BY <1>3, <2>1, <2>3 DEF IInv, Safe, IntentInv, Intents, Status, BeforeSubmission, Reconcilable
  <2>5. CASE intent.status \in Reconcilable
    BY <1>3, <2>1, <2>2, <2>5 DEF RecordCreated, Proven, Intents
  <2>6. CASE intent.status = "CONFIRMED"
    BY <1>3, <2>6 DEF RecordCreated, Proven, Recorded, ProofInv, Reconcilable
  <2>7. CASE intent.status = "CONFLICT"
    <3>1. intent.reason \in LateConflicts
      BY <1>3, <2>3, <2>7 DEF Recorded, ProofInv
    <3>2. CASE intent.reason = "CARGO_MISMATCH"
      BY <1>3, <2>1, <2>2, <2>7, <3>2 DEF RecordCreated, Proven, Intents, Reconcilable
    <3> QED BY <2>3, <2>7, <3>1, <3>2 DEF LateConflicts
  <2> QED BY <2>4, <2>5, <2>6, <2>7
<1>4. IInv /\ Recorded /\ [Next]_vars =>
        [\A w \in Workers : RecordCreated(w) =>
            \/ intent'.fid # 0
            \/ /\ intent.status = "CONFLICT"
               /\ intent.reason \in {"LOCAL", "SHOPIFY_RECONCILIATION_AMBIGUOUS"}]_vars
  BY <1>3
<1> QED BY <1>1, <1>2, <1>4, Invariance, PTL DEF Spec

-----------------------------------------------------------------------------
(* What Shopify makes of the submissions *)

\* The creates of the Sopyo path that Shopify has not answered, and its fulfillments.
Underway == {r \in wire : r.caller \in Workers}
Made == {i \in DOMAIN shop : shop[i].by = "sopyo"}

\* The fulfillments of the Sopyo path: one at most, whoever cancels it later.
FulfilledOnce == \A i, j \in Made : i = j

MadeInv ==
    /\ FulfilledOnce
    /\ \A r, s \in Underway : r = s
    /\ Underway = {} \/ Made = {}

\* A worker's steps other than the create, a poller's and a webhook's, and those
\* of the vendor other than the create, leave Shopify alone.
LEMMA ShopifyAlone ==
    ASSUME [Next]_vars, ~Environment,
           \A w \in Workers : ~CreateFulfillment(w), \A v \in Vendors : ~ManualCreate(v)
    PROVE  UNCHANGED <<shop, wire>>
<1>1. ASSUME NEW w \in Workers, Plan(w) \/ Execute(w) \/ Reconcile(w) PROVE UNCHANGED External
  BY <1>1 DEF Plan, Scan, PlanRead, PlanCommit, Execute, ExecuteRead, ReadCanonical,
       ClaimSubmission, NoAnswer, RecordCreated, RecordNotCreated, Reconcile, FetchComplete,
       FetchPartial, FetchFails, Settle
<1>2. ASSUME NEW p \in Pollers, Poll(p) PROVE UNCHANGED External
  BY <1>2 DEF Poll, PollScan, PollDetail, RecordIntent, RecordMismatch, ProjectCargo
<1>3. ASSUME NEW v \in Vendors, Manual(v) PROVE UNCHANGED External
  BY <1>3 DEF Manual, ManualClaim, ManualLookup, ManualNoAnswer, ManualRecord
<1>4. ASSUME NEW h \in Hooks, HookRead(h) \/ HookApply(h) PROVE UNCHANGED External
  BY <1>4 DEF HookRead, HookApply
<1>5. ASSUME NEW c \in Calls, Crash(c) PROVE UNCHANGED External
  BY <1>5 DEF Crash
<1> QED BY <1>1, <1>2, <1>3, <1>4, <1>5 DEF Next, vars, External

\* Nothing was sent yet.
LEMMA MadeInit == Init => MadeInv
BY DEF Init, MadeInv, FulfilledOnce, Underway, Made

\* The environment answers a create with one fulfillment at most, and makes none
\* of the Sopyo path by itself.
LEMMA EnvironmentMade == ASSUME TypeOK, MadeInv, Environment PROVE MadeInv'
<1>1. /\ shop \in Seq(Fulfillments) /\ wire \subseteq Requests
      /\ \A i \in DOMAIN shop : i \in 1..Len(shop) /\ shop[i] \in Fulfillments
  BY DEF TypeOK
<1>2. ASSUME NEW new \in Fulfillments, shop' = Append(shop, new)
      PROVE  Made' = IF new.by = "sopyo" THEN Made \cup {Len(shop) + 1} ELSE Made
  <2>1. /\ DOMAIN shop' = 1 .. Len(shop) + 1
        /\ shop'[Len(shop) + 1] = new
        /\ \A i \in 1..Len(shop) : shop'[i] = shop[i]
    BY <1>1, <1>2, AppendProperties
  <2>2. DOMAIN shop = 1..Len(shop) /\ Len(shop) \in Nat
    BY <1>1
  <2> QED BY <2>1, <2>2 DEF Made
<1>3. ASSUME NEW r \in wire, Process(r) PROVE MadeInv'
  <2>1. wire' = wire \ {r} /\ r \in Requests
    BY <1>1, <1>3 DEF Process
  <2>2. Underway' = Underway \ {r}
    BY <2>1 DEF Underway
  <2>3. CASE UNCHANGED shop
    BY <2>2, <2>3 DEF MadeInv, FulfilledOnce, Made
  <2>4. CASE ~UNCHANGED shop
    <3> DEFINE new == [cargo |-> r.cargo, live |-> TRUE,
                       by |-> IF r.caller \in Workers THEN "sopyo" ELSE "manual"]
    <3>1. new \in Fulfillments /\ (new.by = "sopyo" <=> r.caller \in Workers)
      BY <2>1 DEF Fulfillments, Requests
    <3>2. shop' = Append(shop, new)
      BY <1>3, <2>4 DEF Process
    <3> HIDE DEF new
    <3>3. CASE r.caller \in Workers
      <4>1. r \in Underway /\ Made = {} /\ Underway' = {}
        BY <2>2, <3>3 DEF MadeInv, Underway
      <4> QED BY <1>2, <3>1, <3>2, <3>3, <4>1 DEF MadeInv, FulfilledOnce
    <3>4. CASE r.caller \notin Workers
      <4>1. Made' = Made
        BY <1>2, <3>1, <3>2, <3>4
      <4> QED BY <2>2, <4>1 DEF MadeInv, FulfilledOnce
    <3> QED BY <3>3, <3>4
  <2> QED BY <2>3, <2>4
<1>4. ASSUME Made' = Made, wire' = wire PROVE MadeInv'
  BY <1>4 DEF MadeInv, FulfilledOnce, Underway
<1>5. CASE AdminFulfill
  <2>1. PICK c \in Cargos : shop' = Append(shop, [cargo |-> c, live |-> TRUE, by |-> "admin"])
    BY <1>5 DEF AdminFulfill
  <2>2. [cargo |-> c, live |-> TRUE, by |-> "admin"] \in Fulfillments
    BY DEF Fulfillments
  <2> QED BY <1>2, <1>4, <1>5, <2>1, <2>2 DEF AdminFulfill
<1>6. CASE AdminCancel
  <2>1. DOMAIN shop' = DOMAIN shop /\ \A i \in DOMAIN shop : shop'[i].by = shop[i].by
    BY <1>1, <1>6 DEF AdminCancel, Fulfillments
  <2> QED BY <1>4, <1>6, <2>1 DEF AdminCancel, Made
<1>7. CASE AdminRetrack
  <2>1. DOMAIN shop' = DOMAIN shop /\ \A i \in DOMAIN shop : shop'[i].by = shop[i].by
    BY <1>1, <1>7 DEF AdminRetrack, Fulfillments
  <2> QED BY <1>4, <1>7, <2>1 DEF AdminRetrack, Made
<1>8. CASE Close
  BY <1>4, <1>8 DEF Close, External, Made
<1> QED BY <1>3, <1>5, <1>6, <1>7, <1>8 DEF Environment

\* Every step keeps it: a worker creates only when nothing was sent before.
LEMMA MadeStep == IInv /\ MadeInv /\ [Next]_vars => MadeInv'
<1> SUFFICES ASSUME IInv, MadeInv, [Next]_vars PROVE MadeInv'
  OBVIOUS
<1>1. ASSUME NEW w \in Workers, CreateFulfillment(w) PROVE MadeInv'
  <2>1. posts.sopyo = 0
    BY <1>1 DEF IInv, Safe, WorkerInv, CreateFulfillment
  <2>2. Underway = {} /\ Made = {}
    BY <2>1 DEF IInv, Safe, SentInv, Underway, Made
  <2>3. PICK r : wire' = wire \cup {r} /\ shop' = shop
    BY <1>1 DEF CreateFulfillment, Send
  <2>4. Made' = {} /\ \A s \in Underway' : s = r
    BY <2>2, <2>3 DEF Made, Underway
  <2> QED BY <2>4 DEF MadeInv, FulfilledOnce
<1>2. ASSUME NEW v \in Vendors, ManualCreate(v) PROVE MadeInv'
  <2>1. v \notin Workers
    BY ConstantsAssumption
  <2>2. Underway' = Underway /\ Made' = Made
    BY <1>2, <2>1 DEF ManualCreate, Send, Underway, Made
  <2> QED BY <2>2 DEF MadeInv, FulfilledOnce
<1>3. CASE Environment
  BY <1>3, EnvironmentMade DEF IInv
<1>4. CASE UNCHANGED <<shop, wire>>
  BY <1>4 DEF MadeInv, FulfilledOnce, Underway, Made
<1> QED BY <1>1, <1>2, <1>3, <1>4, ShopifyAlone

\* Whatever the workers, restarts, lost answers, conflicts and cancellations in
\* Shopify, Shopify makes one fulfillment at most for the intent.
THEOREM GoodsLeaveOnce == Spec => []FulfilledOnce
<1>1. MadeInv => FulfilledOnce
  BY DEF MadeInv
<1> QED BY <1>1, MadeInit, MadeStep, Invariance, PTL DEF Spec

-----------------------------------------------------------------------------
(* What the recorded identities are *)

\* The answers that name a fulfillment.
Naming == {"success", "exact", "live"}

\* Every recorded identity, and every one a call is about to record, is a
\* fulfillment Shopify has or had, and a CONFIRMED intent has one.
IdentityIsReal ==
    /\ intent.fid # 0 => intent.fid \in DOMAIN shop
    /\ intent.status = "CONFIRMED" => intent.fid # 0
    /\ manual.fid # 0 => manual.fid \in DOMAIN shop

CallsName == \A c \in Calls : call[c].got \in Naming => call[c].fid \in DOMAIN shop

NameInv ==
    /\ CallsName
    /\ intent.fid # 0 => intent.fid \in DOMAIN shop
    /\ manual.fid # 0 => manual.fid \in DOMAIN shop

\* A step that learns no identity that Shopify does not have.
Learns ==
    /\ \A c \in Calls : call'[c].got \in Naming =>
          \/ call[c].got \in Naming /\ call'[c].fid = call[c].fid
          \/ call'[c].fid \in DOMAIN shop'
    /\ intent'.fid = intent.fid \/ intent'.fid \in DOMAIN shop
    /\ manual'.fid = manual.fid \/ manual'.fid \in DOMAIN shop

\* Fulfillments are cancelled and changed in Shopify, but never forgotten.
LEMMA ShopGrows == TypeOK /\ [Next]_vars => DOMAIN shop \subseteq DOMAIN shop'
<1> SUFFICES ASSUME TypeOK, [Next]_vars PROVE DOMAIN shop \subseteq DOMAIN shop'
  OBVIOUS
<1>1. shop \in Seq(Fulfillments)
  BY DEF TypeOK
<1>2. ASSUME NEW new \in Fulfillments, shop' = Append(shop, new)
      PROVE  DOMAIN shop \subseteq DOMAIN shop'
  <2>1. Len(shop) \in Nat /\ DOMAIN shop = 1..Len(shop) /\ DOMAIN shop' = 1 .. Len(shop) + 1
    BY <1>1, <1>2, AppendProperties
  <2> QED BY <2>1
<1>3. ASSUME NEW r \in wire, Process(r) PROVE DOMAIN shop \subseteq DOMAIN shop'
  <2> DEFINE new == [cargo |-> r.cargo, live |-> TRUE,
                     by |-> IF r.caller \in Workers THEN "sopyo" ELSE "manual"]
  <2>1. new \in Fulfillments
    BY DEF TypeOK, Requests, Fulfillments
  <2>2. UNCHANGED shop \/ shop' = Append(shop, new)
    BY <1>3 DEF Process
  <2> HIDE DEF new
  <2> QED BY <1>2, <2>1, <2>2
<1>4. CASE AdminFulfill
  <2>1. PICK c \in Cargos : shop' = Append(shop, [cargo |-> c, live |-> TRUE, by |-> "admin"])
    BY <1>4 DEF AdminFulfill
  <2>2. [cargo |-> c, live |-> TRUE, by |-> "admin"] \in Fulfillments
    BY DEF Fulfillments
  <2> QED BY <1>2, <2>1, <2>2
<1>5. CASE AdminCancel \/ AdminRetrack \/ Close
  BY <1>5 DEF AdminCancel, AdminRetrack, Close, External
<1>6. ASSUME NEW w \in Workers, CreateFulfillment(w) PROVE UNCHANGED shop
  BY <1>6 DEF CreateFulfillment
<1>7. ASSUME NEW v \in Vendors, ManualCreate(v) PROVE UNCHANGED shop
  BY <1>7 DEF ManualCreate
<1> QED BY <1>3, <1>4, <1>5, <1>6, <1>7, ShopifyAlone DEF Environment

\* Moves of a call learn nothing.
LEMMA MovesLearn ==
    ASSUME TypeOK, NEW c \in Calls,
           \/ \E pc : Goto(c, pc)
           \/ Return(c)
           \/ UNCHANGED call
           \/ \E pc, aside : call' = [call EXCEPT ![c].pc = pc, ![c].aside = aside]
           \/ \E pc, cargo : call' = [call EXCEPT ![c].pc = pc, ![c].cargo = cargo]
           \/ \E pc, got : got \notin Naming /\ call' = [call EXCEPT ![c].pc = pc, ![c].got = got]
    PROVE  \A d \in Calls : call'[d].got \in Naming =>
              call[d].got \in Naming /\ call'[d].fid = call[d].fid
<1>1. call \in [Calls -> CallStates] /\ call[c] \in CallStates
  BY DEF TypeOK
<1>2. CASE Return(c)
  BY <1>1, <1>2 DEF Return, Idle, Naming
<1>3. CASE UNCHANGED call
  BY <1>3
<1> DEFINE Same == \A d \in Calls : call'[d].got = call[d].got /\ call'[d].fid = call[d].fid
<1>4. ASSUME NEW pc, Goto(c, pc) PROVE Same
  BY <1>1, <1>4 DEF Goto, CallStates
<1>5. ASSUME NEW pc, NEW aside, call' = [call EXCEPT ![c].pc = pc, ![c].aside = aside] PROVE Same
  BY <1>1, <1>5 DEF CallStates
<1>6. ASSUME NEW pc, NEW cargo, call' = [call EXCEPT ![c].pc = pc, ![c].cargo = cargo] PROVE Same
  BY <1>1, <1>6 DEF CallStates
<1>7. CASE \E pc, got : got \notin Naming /\ call' = [call EXCEPT ![c].pc = pc, ![c].got = got]
  BY <1>1, <1>7 DEF CallStates
<1> QED BY <1>2, <1>3, <1>4, <1>5, <1>6, <1>7

\* A conditional update of the status leaves the identity alone.
LEMMA MoveLearns ==
    ASSUME TypeOK, NEW from, NEW to, NEW reason, MoveFrom(from, to, reason)
    PROVE  intent'.fid = intent.fid
BY DEF TypeOK, MoveFrom, Intents

\* A worker records what its own answer or its own reading of Shopify named.
LEMMA WorkerLearns ==
    ASSUME TypeOK, NameInv, NEW w \in Workers, Plan(w) \/ Execute(w) \/ Reconcile(w)
    PROVE  Learns
<1>1. /\ w \in Calls /\ intent \in Intents /\ call \in [Calls -> CallStates]
      /\ call[w] \in CallStates
  BY DEF TypeOK, Calls
<1>u. manual' = manual
  BY DEF Plan, Scan, PlanRead, PlanCommit, Execute, ExecuteRead, ReadCanonical, ClaimSubmission,
         CreateFulfillment, NoAnswer, RecordCreated, RecordNotCreated, Reconcile, FetchComplete,
         FetchPartial, FetchFails, Settle, Local
<1> DEFINE CallLearns == \A d \in Calls : call'[d].got \in Naming =>
                            call[d].got \in Naming /\ call'[d].fid = call[d].fid
<1>2. ASSUME CallLearns, intent'.fid = intent.fid PROVE Learns
  BY <1>u, <1>2 DEF Learns
<1>3. CASE Plan(w)
  <2>1. CallLearns
    BY <1>1, <1>3, MovesLearn DEF Plan, Scan, PlanRead, PlanCommit
  <2>2. intent'.fid = intent.fid
    BY <1>1, <1>3, MoveLearns DEF Plan, Scan, PlanRead, PlanCommit, Local, Intents
  <2> QED BY <1>2, <2>1, <2>2
<1>4. CASE ExecuteRead(w)
  <2>1. CallLearns
    BY <1>1, <1>4, MovesLearn DEF ExecuteRead
  <2> QED BY <1>2, <1>4, <2>1 DEF ExecuteRead, Local
<1>5. CASE ReadCanonical(w) \/ ClaimSubmission(w)
  <2>1. CallLearns
    BY <1>1, <1>5, MovesLearn DEF ReadCanonical, ClaimSubmission
  <2>2. intent'.fid = intent.fid
    BY <1>1, <1>5, MoveLearns DEF ReadCanonical, ClaimSubmission, Intents
  <2> QED BY <1>2, <2>1, <2>2
<1>6. CASE CreateFulfillment(w)
  <2>1. CallLearns
    BY <1>1, <1>6, MovesLearn DEF CreateFulfillment
  <2> QED BY <1>2, <1>6, <2>1 DEF CreateFulfillment, Local
<1>7. CASE NoAnswer(w)
  <2>1. CallLearns
    BY <1>1, <1>7, MovesLearn DEF NoAnswer, Naming
  <2> QED BY <1>2, <1>7, <2>1 DEF NoAnswer, Local
<1>8. CASE RecordCreated(w)
  <2>1. CallLearns
    BY <1>1, <1>8, MovesLearn DEF RecordCreated
  <2>2. call[w].fid \in DOMAIN shop
    BY <1>1, <1>8 DEF RecordCreated, NameInv, CallsName, Naming
  <2>3. intent'.fid \in {intent.fid, call[w].fid}
    BY <1>1, <1>8 DEF RecordCreated, Proven, Intents
  <2> QED BY <1>u, <2>1, <2>2, <2>3 DEF Learns
<1>9. CASE RecordNotCreated(w)
  <2>1. CallLearns
    BY <1>1, <1>9, MovesLearn DEF RecordNotCreated
  <2>2. intent'.fid = intent.fid
    BY <1>1, <1>9, MoveLearns DEF RecordNotCreated
  <2> QED BY <1>2, <2>1, <2>2
<1>10. ASSUME NEW seen \in SUBSET DOMAIN shop, Fetched(w, seen), UNCHANGED <<Local, External>>
       PROVE  Learns
  <2>1. UNCHANGED <<intent, manual, shop>>
    BY <1>10 DEF Local, External
  <2>2. \A d \in Calls : d # w => call'[d] = call[d]
    BY <1>1, <1>10 DEF Fetched
  <2>3. \/ call'[w].got = "exact" /\ call'[w].fid \in seen
        \/ call'[w].got \in {"some", "none"}
    BY <1>1, <1>10 DEF Fetched, CallStates
  <2> QED BY <2>1, <2>2, <2>3 DEF Learns, Naming
<1>11. CASE FetchComplete(w) \/ FetchPartial(w)
  BY <1>10, <1>11 DEF FetchComplete, FetchPartial
<1>12. CASE FetchFails(w)
  <2>1. CallLearns
    BY <1>1, <1>12, MovesLearn DEF FetchFails
  <2>2. intent'.fid = intent.fid
    BY <1>1, <1>12, MoveLearns DEF FetchFails
  <2> QED BY <1>2, <2>1, <2>2
<1>13. CASE Settle(w)
  <2>1. CallLearns
    BY <1>1, <1>13, MovesLearn DEF Settle
  <2>2. CASE call[w].got = "exact"
    <3>1. call[w].fid \in DOMAIN shop
      BY <1>1, <2>2 DEF NameInv, CallsName, Naming
    <3>2. intent'.fid \in {intent.fid, call[w].fid}
      BY <1>1, <1>13, <2>2 DEF Settle, Intents, CallStates
    <3> QED BY <1>u, <2>1, <3>1, <3>2 DEF Learns
  <2>3. CASE call[w].got # "exact"
    <3>1. intent'.fid = intent.fid
      BY <1>1, <1>13, <2>3, MoveLearns DEF Settle
    <3> QED BY <1>2, <2>1, <3>1
  <2> QED BY <2>2, <2>3
<1> QED BY <1>3, <1>4, <1>5, <1>6, <1>7, <1>8, <1>9, <1>11, <1>12, <1>13 DEF Execute, Reconcile

\* The poller learns no identity; the vendor's call and a webhook record the one
\* they were told.
LEMMA OthersLearn ==
    ASSUME TypeOK, NameInv,
           \/ \E p \in Pollers : Poll(p)
           \/ \E v \in Vendors : Manual(v)
           \/ \E h \in Hooks : HookRead(h) \/ HookApply(h)
           \/ \E c \in Calls : Crash(c)
    PROVE  Learns
<1>1. /\ intent \in Intents /\ manual \in ManualRows /\ call \in [Calls -> CallStates]
      /\ \A c \in Calls : call[c] \in CallStates
  BY DEF TypeOK
<1> DEFINE CallLearns == \A d \in Calls : call'[d].got \in Naming =>
                            call[d].got \in Naming /\ call'[d].fid = call[d].fid
<1>2. ASSUME CallLearns, intent'.fid = intent.fid, manual'.fid = manual.fid PROVE Learns
  BY <1>2 DEF Learns
<1>3. ASSUME NEW p \in Pollers, Poll(p) PROVE Learns
  <2>1. p \in Calls
    BY DEF Calls
  <2>2. CallLearns
    BY <1>3, <2>1, MovesLearn
       DEF Poll, PollScan, PollDetail, RecordIntent, RecordMismatch, ProjectCargo
  <2>3. intent'.fid = intent.fid /\ manual' = manual
    BY <1>1, <1>3
       DEF Poll, PollScan, PollDetail, RecordIntent, RecordMismatch, ProjectCargo, Local, Intents
  <2> QED BY <1>2, <2>2, <2>3
<1>4. ASSUME NEW v \in Vendors, Manual(v) PROVE Learns
  <2>1. v \in Calls /\ intent' = intent
    BY <1>4 DEF Calls, Manual, ManualClaim, ManualLookup, ManualFailed, ManualCreate,
                ManualNoAnswer, ManualRecord, Local
  <2>2. CallLearns
    <3>1. CASE ManualClaim(v) \/ ManualLookup(v) \/ ManualCreate(v)
      BY <2>1, <3>1, MovesLearn DEF ManualClaim, ManualLookup, ManualFailed, ManualCreate
    <3>2. CASE ManualNoAnswer(v) \/ ManualRecord(v)
      BY <2>1, <3>2, MovesLearn DEF ManualNoAnswer, ManualRecord, ManualFailed, Naming
    <3> QED BY <1>4, <3>1, <3>2 DEF Manual
  <2>3. manual'.fid = manual.fid \/ manual'.fid \in DOMAIN shop
    <3>1. CASE ManualRecord(v) /\ call[v].got = "success"
      BY <2>1, <3>1 DEF ManualRecord, NameInv, CallsName, Naming
    <3>2. CASE ~(ManualRecord(v) /\ call[v].got = "success")
      BY <1>1, <1>4, <3>2 DEF Manual, ManualClaim, ManualLookup, ManualFailed, ManualCreate,
                ManualNoAnswer, ManualRecord, Local, ManualRows
    <3> QED BY <3>1, <3>2
  <2> QED BY <2>1, <2>2, <2>3 DEF Learns
<1>5. ASSUME NEW h \in Hooks, HookRead(h) PROVE Learns
  <2>1. h \in Calls /\ UNCHANGED <<intent, manual, shop>>
    BY <1>5 DEF Calls, HookRead, Local, External
  <2>2. CASE ~Taken /\ shop # <<>>
             /\ call' = [call EXCEPT ![h].pc = "apply", ![h].got = "cancelled"]
    <3>1. CallLearns
      BY <2>1, <2>2, MovesLearn DEF Naming
    <3> QED BY <1>2, <2>1, <3>1
  <2>3. ASSUME NEW i \in DOMAIN shop,
               call' = [call EXCEPT ![h] = [pc |-> "apply", got |-> "live", fid |-> i,
                                           cargo |-> shop[i].cargo, aside |-> FALSE]]
        PROVE  Learns
    BY <1>1, <2>1, <2>3 DEF Learns
  <2> QED BY <1>5, <2>2, <2>3 DEF HookRead
<1>6. ASSUME NEW h \in Hooks, HookApply(h) PROVE Learns
  <2>1. h \in Calls /\ intent' = intent /\ Return(h)
    BY <1>6 DEF Calls, HookApply
  <2>2. CallLearns
    BY <2>1, MovesLearn
  <2>3. manual'.fid = manual.fid \/ manual'.fid \in DOMAIN shop
    <3>1. CASE call[h].got = "live" /\ manual' = [sync |-> "inbound", fid |-> call[h].fid]
      <4>1. call[h].fid \in DOMAIN shop
        BY <2>1, <3>1 DEF NameInv, CallsName, Naming
      <4> QED BY <3>1, <4>1
    <3>2. CASE manual' = [manual EXCEPT !.sync = "cancelled"]
      BY <1>1, <3>2 DEF ManualRows
    <3> QED BY <1>6, <3>1, <3>2 DEF HookApply
  <2> QED BY <2>1, <2>2, <2>3 DEF Learns
<1>7. ASSUME NEW c \in Calls, Crash(c) PROVE Learns
  <2>1. CallLearns
    BY <1>7, MovesLearn DEF Crash
  <2> QED BY <1>2, <1>7, <2>1 DEF Crash, Local
<1> QED BY <1>3, <1>4, <1>5, <1>6, <1>7

\* An answer names the fulfillment it was made with.
LEMMA EnvironmentLearns == ASSUME TypeOK, NameInv, Environment PROVE Learns
<1>1. ASSUME NEW r \in wire, Process(r) PROVE Learns
  <2>1. /\ r.caller \in Calls /\ call \in [Calls -> CallStates] /\ call[r.caller] \in CallStates
        /\ shop \in Seq(Fulfillments) /\ UNCHANGED <<intent, manual>>
    BY <1>1 DEF TypeOK, Requests, Calls, Process, Local
  <2>2. ASSUME NEW got, NEW fid, Answer(r, got, fid), got = "rejected" \/ fid \in DOMAIN shop'
        PROVE  Learns
    <3>1. CASE UNCHANGED call
      BY <2>1, <3>1 DEF Learns
    <3>2. CASE ~UNCHANGED call
      <4> DEFINE next == IF call[r.caller].pc = "await" THEN "answered" ELSE "answeredManual"
      <4>1. call' = [call EXCEPT ![r.caller].pc = next, ![r.caller].got = got,
                                 ![r.caller].fid = fid]
        BY <2>1, <2>2, <3>2 DEF Answer
      <4> HIDE DEF next
      <4>2. call'[r.caller].got = got /\ call'[r.caller].fid = fid
        BY <2>1, <4>1 DEF CallStates
      <4>3. \A d \in Calls : d # r.caller => call'[d] = call[d]
        BY <2>1, <4>1
      <4> QED BY <2>1, <2>2, <4>2, <4>3 DEF Learns, Naming
    <3> QED BY <3>1, <3>2
  <2>3. CASE Answer(r, "rejected", 0)
    BY <2>2, <2>3
  <2>4. CASE ~Answer(r, "rejected", 0)
    <3> DEFINE new == [cargo |-> r.cargo, live |-> TRUE,
                       by |-> IF r.caller \in Workers THEN "sopyo" ELSE "manual"]
    <3>1. shop' = Append(shop, new) /\ Answer(r, "success", Len(shop) + 1)
      BY <1>1, <2>4 DEF Process
    <3>2. new \in Fulfillments
      BY DEF TypeOK, Requests, Fulfillments
    <3> HIDE DEF new
    <3>3. Len(shop) + 1 \in DOMAIN shop'
      <4>1. Len(shop') = Len(shop) + 1 /\ Len(shop) \in Nat /\ DOMAIN shop' = 1..Len(shop')
        BY <2>1, <3>1, <3>2, AppendProperties
      <4> QED BY <4>1
    <3> QED BY <2>2, <3>1, <3>3
  <2> QED BY <2>3, <2>4
<1>2. AdminFulfill \/ AdminCancel \/ AdminRetrack \/ Close => UNCHANGED <<intent, manual, call>>
  BY DEF AdminFulfill, AdminCancel, AdminRetrack, Close, Local
<1> QED BY <1>1, <1>2 DEF Environment, Learns

\* What is learned is there, and stays there.
LEMMA NameStep == TypeOK /\ NameInv /\ [Next]_vars => NameInv'
<1> SUFFICES ASSUME TypeOK, NameInv, [Next]_vars PROVE NameInv'
  OBVIOUS
<1>1. DOMAIN shop \subseteq DOMAIN shop'
  BY ShopGrows
<1>2. Learns
  BY WorkerLearns, OthersLearn, EnvironmentLearns DEF Next, vars, Learns
<1> QED BY <1>1, <1>2 DEF NameInv, CallsName, Learns

\* The identity kept for the intent, and the one kept for the manual path, is that of
\* a fulfillment Shopify made, however the call that recorded it was overtaken.
THEOREM IdentitiesAreReal == Spec => []IdentityIsReal
<1>1. Init => NameInv
  BY DEF Init, NameInv, CallsName, Idle, Naming
<1>2. IInv /\ NameInv /\ [Next]_vars => NameInv'
  BY NameStep DEF IInv
<1>3. IInv /\ Recorded /\ [Next]_vars => Recorded'
  BY RecordedStep DEF IInv
<1>4. Recorded /\ NameInv => IdentityIsReal
  BY DEF Recorded, ProofInv, NameInv, IdentityIsReal
<1> QED BY <1>1, <1>2, <1>3, <1>4, RecordedInit, Invariance, PTL DEF Spec

=============================================================================
