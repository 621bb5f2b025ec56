------------------------ MODULE MCOrdersCreateExecution ------------------------
(***************************************************************************)
(* Instances of OrdersCreateExecution for TLC.                             *)
(***************************************************************************)
EXTENDS OrdersCreateExecution, TLC

CONSTANT s1

\* Both deliveries announce the same order: Shopify sends orders/create again
\* under a new webhook id, or the synchronous route left an older row.
OneOrder == [e \in Events |-> s1]

==============================================================================
