---------------------------- MODULE MCModeChange ----------------------------
(***************************************************************************)
(* The orders of the trees in use and of those that control the gimbal     *)
(* without spinning.  Goals and CountSize are in the configuration.        *)
(***************************************************************************)
EXTENDS ModeChange

MCOrders == {<<0, 0>>, <<1, 0>>, <<1, 1>>}
=============================================================================
