--------------------------- MODULE MCRecoveryAmmo ---------------------------
(* The instances of RecoveryAmmo that TLC checks: lots of 5 and 8 stand    *)
(* for the 50 and 80 bullets of the trees.                                 *)
EXTENDS RecoveryAmmo

MCLots == {5, 8}
=============================================================================
