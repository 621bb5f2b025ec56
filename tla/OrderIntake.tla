----------------------------- MODULE OrderIntake -----------------------------
(***************************************************************************)
(* What order intake promises, without leases, generations or retries.     *)
(*                                                                         *)
(* An intake task is a retained Shopify orders/create delivery.  It is     *)
(* started any number of times, but it is completed at most once, in the   *)
(* very step that creates its order, and an order is created only once,    *)
(* either by one of its tasks or by a Current-State Repair.                *)
(***************************************************************************)
CONSTANTS Tasks,      \* retained deliveries
          Orders,     \* Shopify orders
          OrderOf     \* the order each delivery announces

VARIABLES task,       \* the state of each delivery
          creator     \* who created the local copy of each order

vars == <<task, creator>>

TaskState == {"unknown", "waiting", "running", "parked", "done"}

Init ==
    /\ task \in [Tasks -> {"unknown", "parked"}]
    /\ creator = [o \in Orders |-> "nobody"]

\* A delivery is accepted and scheduled.
Accept(t) ==
    /\ task[t] = "unknown"
    /\ task' = [task EXCEPT ![t] = "waiting"]
    /\ UNCHANGED creator

\* A worker starts the task, or an operator restarts a parked one.
Start(t) ==
    /\ task[t] \in {"waiting", "parked"}
    /\ task' = [task EXCEPT ![t] = "running"]
    /\ UNCHANGED creator

\* An attempt failed: the task waits for a retry, or is left to an operator.
Fail(t) ==
    /\ task[t] = "running"
    /\ \E s \in {"waiting", "parked"} : task' = [task EXCEPT ![t] = s]
    /\ UNCHANGED creator

\* The task creates its order and is completed by the same step.
Complete(t) ==
    /\ task[t] = "running"
    /\ creator[OrderOf[t]] = "nobody"
    /\ task' = [task EXCEPT ![t] = "done"]
    /\ creator' = [creator EXCEPT ![OrderOf[t]] = "intake"]

\* An operator creates the missing order while none of its tasks is waiting.
Repair(o) ==
    /\ creator[o] = "nobody"
    /\ \A t \in Tasks : OrderOf[t] = o => task[t] # "waiting"
    /\ creator' = [creator EXCEPT ![o] = "repair"]
    /\ UNCHANGED task

Next ==
    \/ \E t \in Tasks : Accept(t) \/ Start(t) \/ Fail(t) \/ Complete(t)
    \/ \E o \in Orders : Repair(o)

Spec == Init /\ [][Next]_vars
==============================================================================
