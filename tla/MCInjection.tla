---------------------------- MODULE MCInjection ----------------------------
(***************************************************************************)
(* Injection on small instances: InjectionMixed.cfg, InjectionOverlap.cfg  *)
(* and InjectionPaymentDir.cfg choose the requests and the directories.    *)
(***************************************************************************)
EXTENDS Injection
=============================================================================
