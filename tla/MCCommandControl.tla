--------------------------- MODULE MCCommandControl -------------------------
(* Model checking CommandControl: keys are sent with no target; the target *)
(* is an ordinary point of the field, the missions patrol two goals.       *)
EXTENDS CommandControl

Key(k)    == [key |-> k, at |-> <<0, 0>>]
Target    == [key |-> "0", at |-> <<1200, 750>>]
MCCommands == {Target} \cup {Key(k) : k \in {"G", "H", "T", "W", "Y"}}
MCGoals   == {<<324, 1220>>, <<-602, 1780>>}
MCForced  == {Key("W")}
MCTarget  == {Target}
=============================================================================
