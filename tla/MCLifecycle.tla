---------------------------- MODULE MCLifecycle ----------------------------
(* The whole life of main, over and over: nothing has to be given a value   *)
(* but the bound on the requests.                                           *)
EXTENDS Lifecycle
=============================================================================
