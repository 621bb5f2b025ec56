--------------------------- MODULE ExternalCreation ---------------------------
(***************************************************************************)
(* Creating an object in somebody else's system that cannot tell a         *)
(* repeated request from a new one, at most once, when answers may be      *)
(* lost.                                                                   *)
(*                                                                         *)
(* One request may be sent for an item, and only while nothing is known to *)
(* exist.  The item may be called created only when the object is there,   *)
(* and refused only when no request of ours made or can still make one. An *)
(* outcome that is not known stays open, possibly forever.                 *)
(***************************************************************************)
CONSTANT Items

VARIABLES request,  \* the request sent for each item
          there,    \* what the other system holds for it
          verdict   \* what has been decided about it

vars == <<request, there, verdict>>

Init ==
    /\ request = [i \in Items |-> "unsent"]
    /\ there \in [Items -> {"nothing", "ours", "other"}]
    /\ verdict = [i \in Items |-> "open"]

Send(i) ==
    /\ verdict[i] = "open"
    /\ request[i] = "unsent"
    /\ there[i] = "nothing"
    /\ request' = [request EXCEPT ![i] = "flying"]
    /\ UNCHANGED <<there, verdict>>

\* The request is processed, with or without an object as its result, whether
\* or not anybody still waits for the answer.
Arrive(i) ==
    /\ request[i] = "flying"
    /\ request' = [request EXCEPT ![i] = "done"]
    /\ \E x \in {"nothing", "ours", "other"} : there' = [there EXCEPT ![i] = x]
    /\ UNCHANGED verdict

Confirm(i) ==
    /\ verdict[i] = "open"
    /\ there[i] = "ours"
    /\ verdict' = [verdict EXCEPT ![i] = "created"]
    /\ UNCHANGED <<request, there>>

Refuse(i) ==
    /\ verdict[i] = "open"
    /\ \/ request[i] = "unsent"
       \/ request[i] = "done" /\ there[i] = "nothing"
    /\ verdict' = [verdict EXCEPT ![i] = "refused"]
    /\ UNCHANGED <<request, there>>

Next == \E i \in Items : Send(i) \/ Arrive(i) \/ Confirm(i) \/ Refuse(i)

Spec == Init /\ [][Next]_vars
==============================================================================
