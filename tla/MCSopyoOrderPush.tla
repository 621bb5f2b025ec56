--------------------------- MODULE MCSopyoOrderPush ---------------------------
(***************************************************************************)
(* Instances of SopyoOrderPush for TLC.                                    *)
(***************************************************************************)
EXTENDS SopyoOrderPush, TLC

==============================================================================
