---------------------------- MODULE MCSerialLink ----------------------------
(***************************************************************************)
(* Small frames: two bytes of head, one of tail.                           *)
(***************************************************************************)
EXTENDS SerialLink

MCDataSizes == {1, 5}
MCOneSize   == {2}
=============================================================================
