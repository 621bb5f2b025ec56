----------------------- MODULE MCCustomerCancellation -----------------------
(* Instances of CustomerCancellation for TLC. *)
EXTENDS CustomerCancellation, TLC

CONSTANTS i1, i2, w1, w2

\* Bounds of a run with two executors.  The second one, w2, comes in only for the
\* first child and only while w1 is at it, by taking its job over; w1 may still be
\* running, and take the job back.  They never work on two children at once, and
\* nobody intervenes from the takeover on, as long as w2 works or holds a job.
TakesOver(i) ==
    /\ ~At(w1, "idle") /\ It(w1) = i
    /\ job[i].status = "PROCESSING"
    /\ \A j \in Items \ {i} : job[j].status = "PENDING"
    /\ staff = 0

Alone == At(w2, "idle") /\ \A i \in Items : job[i].owner = w2 => job[i].status = "PENDING"

MCNext ==
    \/ \E i \in Items : (At(w2, "idle") \/ It(w2) = i) /\ Claim(w1, i)
    \/ \E i \in Items : TakesOver(i) /\ Claim(w2, i)
    \/ \E w \in Workers : Heartbeat(w) \/ Attempt(w) \/ Crash(w)
    \/ \E i \in Items : RefundWebhook(i) \/ Expire(i)
    \/ \E i \in Items : Alone /\ (Spoil(i) \/ AdminRefund(i))
    \/ Alone /\ AdminCancel
    \/ (\E r \in asked : Process(r)) \/ CancelEnds

MCSpec == Init /\ [][MCNext]_vars /\ Calm /\ Fairness

=============================================================================
