----------------------------- MODULE FrameSource -----------------------------
(***************************************************************************)
(* What the driver of a sensor promises to a daemon that calls read() in a *)
(* loop.  What the sensor sends is one stream of items; a call answers     *)
(* with the values of a frame that is in the stream, whole and in one      *)
(* piece, and takes the stream up to its end, or answers with nothing.     *)
(* What a call has taken is gone, but a frame at the front is not passed   *)
(* over: a call that takes it answers with it, and goes no further.        *)
(***************************************************************************)
EXTENDS Naturals, Sequences

CONSTANTS
  Frames,   \* the sequences of items that are a frame
  Size,     \* the length of a frame, not 0
  Meaning,  \* the values of each frame
  Nothing   \* the answer of a call that fails

VARIABLES
  stream,  \* what the sensor has sent and no call has taken, oldest first
  answer   \* the answer of the last call

vars == <<stream, answer>>

Init == stream = <<>> /\ answer = Nothing

\* Something is added to the stream.
Arrive ==
  /\ Len(stream) <= Len(stream')
  /\ SubSeq(stream', 1, Len(stream)) = stream
  /\ UNCHANGED answer

Taken(k) == stream' = SubSeq(stream, k + 1, Len(stream))

\* The items up to the k-th end with a frame.
EndsFrame(k) == Size <= k /\ SubSeq(stream, k - Size + 1, k) \in Frames

FrameInFront == Len(stream) >= Size /\ EndsFrame(Size)

ReadFrame ==
  \E k \in 1..Len(stream) :
    /\ EndsFrame(k)
    /\ FrameInFront => k = Size
    /\ Taken(k)
    /\ answer' = Meaning[SubSeq(stream, k - Size + 1, k)]

ReadNothing ==
  \E k \in 0..Len(stream) :
    /\ FrameInFront => k < Size
    /\ Taken(k)
    /\ answer' = Nothing

Next == Arrive \/ ReadFrame \/ ReadNothing

Spec == Init /\ [][Next]_vars

=============================================================================
