------------------------------- MODULE Mirror -------------------------------
(***************************************************************************)
(* What a display promises that is fed from afar with samples of a source: *)
(* it shows what the source was, in the order in which it was sampled.     *)
(*                                                                         *)
(* The sender may keep what it has sent, and send it once more when it     *)
(* does not know whether it came through: all that is kept then goes out   *)
(* again, in its order and before anything else.  So an older sample may   *)
(* come after a newer one, but only one that is kept; what has been        *)
(* forgotten never comes back.  Where the way is Lossy, a sample may be    *)
(* lost as well.                                                           *)
(***************************************************************************)
EXTENDS Naturals, Sequences

CONSTANTS
  Values,  \* what the source may be
  Shown,   \* what the display shows for each of them
  Lossy    \* whether a sample may be lost on the way

VARIABLES
  source,  \* what the source is now
  queue,   \* the samples that have still to go out, oldest first
  kept,    \* those that have gone out and may go out again
  way,     \* those that are on their way to the display
  shown    \* what the display shows

vars == <<source, queue, kept, way, shown>>

Init == source \in Values /\ queue = <<>> /\ kept = <<>> /\ way = <<>>

Change == source' \in Values /\ UNCHANGED <<queue, kept, way, shown>>

Sample == queue' = Append(queue, source) /\ UNCHANGED <<source, kept, way, shown>>

\* A sample goes out, and a copy is kept.
Send ==
  /\ queue # <<>>
  /\ queue' = Tail(queue)
  /\ kept' = Append(kept, Head(queue))
  /\ way' = Append(way, Head(queue))
  /\ UNCHANGED <<source, shown>>

\* The oldest copy is not needed any more.
Forget == kept # <<>> /\ kept' = Tail(kept) /\ UNCHANGED <<source, queue, way, shown>>

SendAgain ==
  /\ queue' = kept \o queue
  /\ kept' = <<>>
  /\ UNCHANGED <<source, way, shown>>

Without(i, s) == SubSeq(s, 1, i - 1) \o SubSeq(s, i + 1, Len(s))

Lose ==
  /\ Lossy
  /\ \/ \E i \in DOMAIN queue : queue' = Without(i, queue) /\ UNCHANGED way
     \/ \E i \in DOMAIN way : way' = Without(i, way) /\ UNCHANGED queue
  /\ UNCHANGED <<source, kept, shown>>

Show ==
  /\ way # <<>>
  /\ shown' = Shown[Head(way)]
  /\ way' = Tail(way)
  /\ UNCHANGED <<source, queue, kept>>

\* A sample that meets no other on its way is shown at once.
SendAndShow ==
  /\ queue # <<>> /\ way = <<>>
  /\ shown' = Shown[Head(queue)]
  /\ queue' = Tail(queue)
  /\ kept' \in {kept, Append(kept, Head(queue))}
  /\ UNCHANGED <<source, way>>

Next ==
  Change \/ Sample \/ Send \/ Forget \/ SendAgain \/ Lose \/ Show \/ SendAndShow

Spec == Init /\ [][Next]_vars

=============================================================================
