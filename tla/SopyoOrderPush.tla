---------------------------- MODULE SopyoOrderPush ----------------------------
(***************************************************************************)
(* Pushing an order to Sopyo: dispatchSopyoOrderPush, called by the worker *)
(* that scans PENDING rows, by a script, and with reconcileOnly by an      *)
(* operator.                                                               *)
(*                                                                         *)
(* Sopyo creates an order for every POST, so a POST may be sent only once. *)
(* A row is claimed by a conditional UPDATE that stores a random token,    *)
(* and every result is written by an UPDATE conditional on that token.     *)
(* Nothing checks the token between the claim and the POST, and a request  *)
(* that timed out may still be processed.  A claim older than 30 minutes   *)
(* may be taken over, but only to look the order up.                       *)
(***************************************************************************)
EXTENDS Naturals

CONSTANTS Pushes,       \* SopyoOrderPush rows, one for each allocation
          Senders,      \* calls that may create: the worker, the script
          Reconcilers,  \* calls with reconcileOnly
          NoPush, NoCall,
          StaleTicks    \* STALE_PROCESSING_MS

Calls == Senders \cup Reconcilers

ASSUME ConstantsAssumption ==
    /\ NoPush \notin Pushes
    /\ NoCall \notin Calls
    /\ Senders \cap Reconcilers = {}
    /\ StaleTicks \in Nat \ {0}

VARIABLES row,    \* the rows
          call,   \* program counter and locals of each call
          wire,   \* what became of the POSTs for each order code
          prior   \* what Sopyo held under that code before

vars == <<row, call, wire, prior>>

-----------------------------------------------------------------------------
(* State *)

\* "absent" is a row the ingestion has not written yet.
Status == {"absent", "PENDING", "PROCESSING", "SUCCEEDED", "BLOCKED", "RECONCILE_REQUIRED"}

\* token is claimToken; age is the time left until processingStartedAt is stale.
Rows == [status : Status, token : Calls \cup {NoCall}, age : 0..StaleTicks]

Pc == {"idle", "prepare", "lookup", "recheck", "post", "posted", "lookAgain", "finish"}

\* outcome is the status a call is about to write.
CallStates == [pc : Pc, push : Pushes \cup {NoPush}, outcome : Status]

Idle == [pc |-> "idle", push |-> NoPush, outcome |-> "absent"]

\* The POSTs for one order code: still under way, processed with the order as
\* requested, with an order of another code or type, or with none.
Wires == [flying : Nat, made : Nat, odd : Nat, refused : Nat]

\* An order with the code that this system did not create: a Sopyo API order,
\* or one entered some other way.
Prior == {"none", "api", "manual"}

TypeOK ==
    /\ row \in [Pushes -> Rows]
    /\ call \in [Calls -> CallStates]
    /\ wire \in [Pushes -> Wires]
    /\ prior \in [Pushes -> Prior]

Init ==
    /\ row = [p \in Pushes |-> [status |-> "absent", token |-> NoCall, age |-> 0]]
    /\ call = [c \in Calls |-> Idle]
    /\ wire = [p \in Pushes |-> [flying |-> 0, made |-> 0, odd |-> 0, refused |-> 0]]
    /\ prior \in [Pushes -> Prior]

-----------------------------------------------------------------------------
(* Helpers *)

At(c, pc) == call[c].pc = pc
PushOf(c) == call[c].push

MoveTo(c, pc) ==
    /\ call' = [call EXCEPT ![c].pc = pc]
    /\ UNCHANGED <<row, prior>>

\* The call goes on to finish(status).
Decide(c, status) ==
    /\ call' = [call EXCEPT ![c].pc = "finish", ![c].outcome = status]
    /\ UNCHANGED <<row, wire, prior>>

\* What a failure before the POST means: nothing was sent by a call that may
\* send, but a call that only looks knows nothing about earlier POSTs.
SetbackBlocksAll(c) == "BLOCKED"
Setback(c) == IF c \in Reconcilers THEN "RECONCILE_REQUIRED" ELSE "BLOCKED"

\* What ordersByCode may return.  It may lag behind a POST, and an odd order
\* may carry another code; orders that were there before are found.
Answers(p) ==
    {[ours   |-> m + (IF prior[p] = "api" THEN 1 ELSE 0),
      others |-> o + (IF prior[p] = "manual" THEN 1 ELSE 0)] :
        m \in 0..wire[p].made, o \in 0..wire[p].odd}

Empty(a) == a.ours = 0 /\ a.others = 0

\* Exactly one order, and it is of type SOPYOAPI.
OneOfOursAnyType(a) == a.ours + a.others = 1
OneOfOurs(a) == a.ours = 1 /\ a.others = 0

\* Only a call that may create goes on, and only when nothing was found.
GoesOnAnyMode(c, a) == Empty(a)
GoesOnOtherType(c, a) == c \in Senders /\ a.ours = 0
GoesOn(c, a) == c \in Senders /\ Empty(a)

\* The rows a reconcile-only call may claim.
ReconcilableSettled(p) == row[p].status \notin {"absent", "PENDING", "PROCESSING"}
ReconcilableDecided(p) == row[p].status = "RECONCILE_REQUIRED"
Reconcilable(p) ==
    \/ row[p].status = "RECONCILE_REQUIRED"
    \/ row[p].status = "PROCESSING" /\ row[p].age = 0

\* The condition of the UPDATE in finish.
OwnsByStatus(c) == row[PushOf(c)].status = "PROCESSING"
Owns(c) == row[PushOf(c)].status = "PROCESSING" /\ row[PushOf(c)].token = c

-----------------------------------------------------------------------------
(* Intent and claim *)

\* Ingestion writes the row with the new allocation, in the same transaction.
Enqueue(p) ==
    /\ row[p].status = "absent"
    /\ row' = [row EXCEPT ![p].status = "PENDING"]
    /\ UNCHANGED <<call, wire, prior>>

Claim(c, p) ==
    /\ At(c, "idle")
    /\ row' = [row EXCEPT ![p] = [status |-> "PROCESSING", token |-> c, age |-> StaleTicks]]
    /\ call' = [call EXCEPT ![c] = [Idle EXCEPT !.pc = "prepare", !.push = p]]
    /\ UNCHANGED <<wire, prior>>

ClaimPending(c, p) == c \in Senders /\ row[p].status = "PENDING" /\ Claim(c, p)
ClaimReconcile(c, p) == c \in Reconcilers /\ Reconcilable(p) /\ Claim(c, p)

-----------------------------------------------------------------------------
(* The steps of one call *)

\* Canonical payload (or only authority, for reconcileOnly), credential, bearer.
Prepare(c) ==
    /\ At(c, "prepare")
    /\ \/ MoveTo(c, "lookup") /\ UNCHANGED wire
       \/ Decide(c, Setback(c))

\* The lookup before a create.
Lookup(c) ==
    /\ At(c, "lookup")
    /\ \/ \E a \in Answers(PushOf(c)) :
            \/ GoesOn(c, a) /\ MoveTo(c, "recheck") /\ UNCHANGED wire
            \/ ~GoesOn(c, a) /\ OneOfOurs(a) /\ Decide(c, "SUCCEEDED")
            \/ ~GoesOn(c, a) /\ ~OneOfOurs(a) /\ Decide(c, "RECONCILE_REQUIRED")
       \/ Decide(c, Setback(c))

\* The payload is built again and compared, just before it is sent.
Recheck(c) ==
    /\ At(c, "recheck")
    /\ \/ MoveTo(c, "post") /\ UNCHANGED wire
       \/ Decide(c, "BLOCKED")

\* The request leaves, whatever has become of the claim by now.
SendPost(c) ==
    /\ At(c, "post")
    /\ wire' = [wire EXCEPT ![PushOf(c)].flying = @ + 1]
    /\ MoveTo(c, "posted")

\* 201 with the code and the type that were asked for.
PostCreated(c) ==
    /\ At(c, "posted")
    /\ wire[PushOf(c)].made > 0
    /\ Decide(c, "SUCCEEDED")

\* 201 with another code or type.
PostConflicts(c) ==
    /\ At(c, "posted")
    /\ wire[PushOf(c)].odd > 0
    /\ Decide(c, "RECONCILE_REQUIRED")

\* A definite rejection: 4xx except 408, 409, 425 and 429.
PostRejected(c) ==
    /\ At(c, "posted")
    /\ wire[PushOf(c)].refused > 0
    /\ Decide(c, "BLOCKED")

\* Timeout, transport error, 5xx, unreadable answer: whatever happened to the
\* request, the call does not know.
PostAmbiguousBlocks(c) == At(c, "posted") /\ Decide(c, "BLOCKED")
PostAmbiguous(c) ==
    /\ At(c, "posted")
    /\ MoveTo(c, "lookAgain")
    /\ UNCHANGED wire

\* The one lookup after an ambiguous create; it may fail, too.
LookAgain(c) ==
    /\ At(c, "lookAgain")
    /\ \/ \E a \in Answers(PushOf(c)) : OneOfOurs(a) /\ Decide(c, "SUCCEEDED")
       \/ Decide(c, "RECONCILE_REQUIRED")

\* finish: the result is written if the claim still stands (else CLAIM_LOST).
Finish(c) ==
    /\ At(c, "finish")
    /\ row' = IF Owns(c)
              THEN [row EXCEPT ![PushOf(c)].status = call[c].outcome, ![PushOf(c)].token = NoCall]
              ELSE row
    /\ call' = [call EXCEPT ![c] = Idle]
    /\ UNCHANGED <<wire, prior>>

-----------------------------------------------------------------------------
(* The environment *)

\* The process dies, or the database throws: the row keeps its claim, and a
\* request that has left is on its way.
Crash(c) ==
    /\ ~At(c, "idle")
    /\ call' = [call EXCEPT ![c] = Idle]
    /\ UNCHANGED <<row, wire, prior>>

\* Sopyo processes a request, whether or not anybody waits for its answer.
Process(p) ==
    /\ wire[p].flying > 0
    /\ \/ wire' = [wire EXCEPT ![p].flying = @ - 1, ![p].made = @ + 1]
       \/ wire' = [wire EXCEPT ![p].flying = @ - 1, ![p].odd = @ + 1]
       \/ wire' = [wire EXCEPT ![p].flying = @ - 1, ![p].refused = @ + 1]
    /\ UNCHANGED <<row, call, prior>>

SoonerPastZero(t) == IF t = 0 THEN StaleTicks + 1 ELSE t - 1
Sooner(t) == IF t = 0 THEN 0 ELSE t - 1

Tick ==
    /\ \E p \in Pushes : row[p].age > 0
    /\ row' = [p \in Pushes |-> [row[p] EXCEPT !.age = Sooner(@)]]
    /\ UNCHANGED <<call, wire, prior>>

-----------------------------------------------------------------------------
(* Specification *)

Progress(c) ==
    \/ Prepare(c) \/ Lookup(c) \/ Recheck(c) \/ SendPost(c)
    \/ PostCreated(c) \/ PostConflicts(c) \/ PostRejected(c) \/ PostAmbiguous(c)
    \/ LookAgain(c) \/ Finish(c)

Next ==
    \/ \E p \in Pushes : Enqueue(p) \/ Process(p)
    \/ \E c \in Calls, p \in Pushes : ClaimPending(c, p) \/ ClaimReconcile(c, p)
    \/ \E c \in Calls : Progress(c) \/ Crash(c)
    \/ Tick

Spec == Init /\ [][Next]_vars

\* Time passes, the worker's interval scans PENDING rows oldest first, and a
\* call that has not died moves on, since every request has a deadline.
Fairness ==
    /\ WF_vars(Tick)
    /\ \A p \in Pushes : WF_vars(\E c \in Senders : ClaimPending(c, p))
    /\ \A c \in Calls : WF_vars(Progress(c))

FairSpec == Spec /\ Fairness

-----------------------------------------------------------------------------
(* Properties *)

Sent(p) == wire[p].flying + wire[p].made + wire[p].odd + wire[p].refused

\* At most one create POST is ever sent for a push, whatever times out, dies or
\* is taken over: dispatchSopyoOrderPush never returns a row to PENDING and a
\* stale claim is only taken over to look.
AtMostOnePost == \A p \in Pushes : Sent(p) <= 1

\* A POST never adds a second order to a code that has one, made by us or by
\* somebody else: createOrderOnce is reached only after an empty lookup.
OneOrderPerCode ==
    \A p \in Pushes :
        wire[p].flying + wire[p].made + wire[p].odd + (IF prior[p] = "none" THEN 0 ELSE 1) <= 1

\* SUCCEEDED, which fulfillment and delivery trust, means that Sopyo holds exactly one
\* order under the code, that it is a SOPYOAPI order, and that no request of
\* ours can add another.
SucceededIsTrue ==
    \A p \in Pushes : row[p].status = "SUCCEEDED" =>
        /\ wire[p].made + (IF prior[p] = "api" THEN 1 ELSE 0) = 1
        /\ wire[p].odd = 0 /\ wire[p].flying = 0
        /\ prior[p] # "manual"

\* BLOCKED, which nobody looks at again, means that no POST of ours created an
\* order and none is under way, or ever will be.
BlockedLeftNothing ==
    \A p \in Pushes : row[p].status = "BLOCKED" =>
        /\ wire[p].flying = 0 /\ wire[p].made = 0 /\ wire[p].odd = 0
        /\ \A c \in Senders : PushOf(c) # p

\* A row that is SUCCEEDED or BLOCKED never changes its status, whichever call
\* comes late (the claims and finish of dispatchSopyoOrderPush).
SettledIsFinal ==
    [][\A p \in Pushes : row[p].status \in {"SUCCEEDED", "BLOCKED"} =>
          row'[p].status = row[p].status]_vars

\* A call whose claim was taken over changes no row, whatever it found out.
ReplacedCallIsHarmless ==
    [][\A c \in Calls : call'[c] # call[c] /\ ~At(c, "idle") /\ row[PushOf(c)].token # c
          => row' = row]_vars

\* Every push that was enqueued is decided, or can be reconciled by an operator,
\* whatever calls die on the way: no row stays PROCESSING out of reach.
EveryPushIsAnswered ==
    \A p \in Pushes :
        row[p].status # "absent" ~> (row[p].status \in {"SUCCEEDED", "BLOCKED"} \/ Reconcilable(p))

\* The refinement mapping.
RequestOf(p) ==
    IF wire[p].flying > 0 THEN "flying" ELSE IF Sent(p) > 0 THEN "done" ELSE "unsent"

ThereOf(p) ==
    IF wire[p].made > 0 \/ prior[p] = "api" THEN "ours"
    ELSE IF wire[p].odd > 0 \/ prior[p] = "manual" THEN "other" ELSE "nothing"

VerdictOf(p) ==
    CASE row[p].status = "SUCCEEDED" -> "created"
      [] row[p].status = "BLOCKED"   -> "refused"
      [] OTHER                       -> "open"

Creation == INSTANCE ExternalCreation WITH
    Items   <- Pushes,
    request <- [p \in Pushes |-> RequestOf(p)],
    there   <- [p \in Pushes |-> ThereOf(p)],
    verdict <- [p \in Pushes |-> VerdictOf(p)]

\* The dispatcher implements ExternalCreation: one request, sent to an empty
\* place, and a verdict only on what is known.
ImplementsExternalCreation == Creation!Spec
==============================================================================
