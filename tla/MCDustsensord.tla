--------------------------- MODULE MCDustsensord ----------------------------
(* A sensor, of whose two quantities one changes.                          *)
EXTENDS Dustsensord

TwoOfPM10 == {[pm25 |-> 1, pm10 |-> 2], [pm25 |-> 1, pm10 |-> 4]}

\* The client of that quantity may keep two messages.
TwoAndOne == [c \in Objects |-> IF c = "mqtt10" THEN 2 ELSE 1]

=============================================================================
