--------------------------- MODULE MCWithdrawals ---------------------------
(***************************************************************************)
(* The instances of MCGraphStore with the history of Withdrawals.          *)
(***************************************************************************)
EXTENDS Withdrawals, MCGraphStore
=============================================================================
