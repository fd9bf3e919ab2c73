---------------------------- MODULE MCRemoteAmmo ----------------------------
(* Model checking RemoteAmmo on small instances.                           *)
EXTENDS RemoteAmmo
=============================================================================
