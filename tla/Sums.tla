-------------------------------- MODULE Sums --------------------------------
(***************************************************************************)
(* The sum of a function over a finite set of its arguments: the reduce    *)
(* over amounts that the settlement and payout services make everywhere.   *)
(***************************************************************************)
EXTENDS Integers, FiniteSetsExt

Sum(f, S) == MapThenSumSet(LAMBDA x : f[x], S)

=============================================================================
