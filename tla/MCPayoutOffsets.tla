--------------------------- MODULE MCPayoutOffsets ---------------------------
(* Instances of PayoutOffsets for TLC. *)
EXTENDS PayoutOffsets, TLC

CONSTANTS s1, s2, r1, r2

\* r1 takes back all of s1, r2 half of s2.
SaleOfRefund == [r \in Refunds |-> IF r = r1 THEN s1 ELSE s2]
Owed == [s \in Sales |-> 2]
TakenBack == [r \in Refunds |-> IF r = r1 THEN 2 ELSE 1]

=============================================================================
