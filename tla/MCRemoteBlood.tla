---------------------------- MODULE MCRemoteBlood ---------------------------
(* The instances of RemoteBlood that TLC checks: the blood of a fresh, a   *)
(* nearly dead and a dead sentry, with a rise of exactly Jump between the  *)
(* two lower levels.                                                       *)
EXTENDS RemoteBlood

MCHpLevels == {0, 100, 400}
=============================================================================
