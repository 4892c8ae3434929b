---------------------------- MODULE MCFloorPlan ----------------------------
(* Tables of two beacons with two sensors each.                            *)
EXTENDS FloorPlan

UpperOf == [a |-> "A", B |-> "B", b |-> "B"]

Row(a, i, d) == [numbered |-> TRUE, address |-> a, index |-> i, board |-> d]

\* A row between two groups, with numbers but without an address.
Gap == Row("", 0, "")
\* The header, and any other row without numbers.
Words == [numbered |-> FALSE, address |-> "a", index |-> 0, board |-> ""]

\* Two groups; the last of them is complete, is not, and is preceded by a gap,
\* which makes the first beacon appear twice; a row that cannot be read; and a
\* table that is not there.
FiveTables ==
  LET a1 == Row("a", 1, "a1")
      b0 == Row("B", 0, "b0")
      b1 == Row("b", 1, "")
  IN  { <<Words, a1, b0, b1, Gap>>,
        <<Words, a1, b0>>,
        <<Words, a1, Gap, b0>>,
        <<Words, a1, Words>>,
        <<>> }

\* A step on the floor changes both bytes of a value; the low byte's sign bit
\* is set in one of the readings.
TwoReadings ==
  {[s \in Sensors |-> [high |-> 0, low |-> s]],
   [s \in Sensors |-> [high |-> 1 + s, low |-> 128]]}

\* The daemon on a platform where a plain char is signed: 0x0180 becomes 0xFF80.
Signed == INSTANCE Floorsensord WITH CharIsSigned <- TRUE

ASSUME SignCoversHighByte ==
  Signed!SensorValue([high |-> 1, low |-> 128]) = 65408

=============================================================================
