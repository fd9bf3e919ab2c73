---------------------------- MODULE MCNavigator -----------------------------
(***************************************************************************)
(* Three goals for a pose, of which one asks for another tree than the     *)
(* default, and one through poses with a tree that may fail to load.       *)
(***************************************************************************)
EXTENDS Navigator

MCGoals  == {"p1", "p2", "p3", "q1"}
MCNavOf  == [g \in MCGoals |-> IF g = "q1" THEN "poses" ELSE "pose"]
MCTreeOf == [g \in MCGoals |-> IF g \in {"p3", "q1"} THEN "other" ELSE ""]
=============================================================================
