------------------------------- MODULE MCSync -------------------------------
(***************************************************************************)
(* Sync on small instances: SyncLoops.cfg and SyncPrivateCopy.cfg.         *)
(***************************************************************************)
EXTENDS Sync
=============================================================================
