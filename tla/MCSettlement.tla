---------------------------- MODULE MCSettlement ----------------------------
(* The small network of MCAchNetwork, reconciled in every state.           *)
EXTENDS MCAchNetwork, Settlement
=============================================================================
