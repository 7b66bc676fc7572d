-------------------------- MODULE MCKeeperMonitor --------------------------
(***************************************************************************)
(* The contract's upkeep with the keeper's watch over it, on the instances *)
(* of MCLstCore.                                                           *)
(***************************************************************************)
EXTENDS KeeperMonitor, MCLstCore
=============================================================================
