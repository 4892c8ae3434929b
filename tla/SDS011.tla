------------------------------- MODULE SDS011 -------------------------------
(***************************************************************************)
(* The driver of the SDS011 dust sensor.  The sensor sends frames of ten   *)
(* bytes over a serial line; each call of read() moves what the port has   *)
(* to a queue, and parses the queue byte by byte until it has found a      *)
(* frame or the queue is empty.  The state of the parser is local to the   *)
(* call, the queue is not.                                                 *)
(*                                                                         *)
(* taken is a history variable: the bytes the current or last call has     *)
(* taken from the queue.                                                   *)
(***************************************************************************)
EXTENDS Naturals, Sequences

CONSTANTS
  Payloads,   \* what the sensor may measure: six bytes per frame
  Noise,      \* bytes that turn up on the line, or replace one of a frame
  PortBytes,  \* how many bytes one call may get from the port (42 in the code)
  MaxLine,    \* bound on the bytes the port and the queue hold
  MaxErrors   \* bound on the errors of the line

Byte == 0..255
Word == 0..65535
SumRange == 0..1530

ASSUME BytesAssumption ==
  /\ Payloads \subseteq [1..6 -> Byte]
  /\ Noise \subseteq Byte
  /\ PortBytes \in Nat \ {0} /\ MaxLine \in Nat /\ MaxErrors \in Nat

VARIABLES
  errors,      \* how many errors the line has made
  line,        \* the bytes in the serial port, oldest first
  buffer,      \* the queue of the driver, oldest first
  control,     \* of read(): outside, in its loop, or returned true
  state,       \* state of the parser: the bytes of a frame seen so far
  pm25_raw, pm10_raw, id,
  checksum,    \* checksum_reference
  checksumOk,  \* checksum_ok
  taken        \* the bytes this call has taken from the queue

parser == <<pm25_raw, pm10_raw, id, checksum, checksumOk>>
vars == <<errors, line, buffer, control, state, parser, taken>>

Head1 == 170
Head2 == 192
TailByte == 171

Sum(p) == (p[1] + p[2] + p[3] + p[4] + p[5] + p[6]) % 256

\* The frame of a payload: PM2.5, PM10 and the id of the sensor.
Frame(p) ==
  <<Head1, Head2, p[1], p[2], p[3], p[4], p[5], p[6], Sum(p), TailByte>>

TypeOK ==
  /\ line \in Seq(Byte) /\ buffer \in Seq(Byte) /\ taken \in Seq(Byte)
  /\ control \in {"outside", "parsing", "success"}
  /\ errors \in 0..MaxErrors
  /\ state \in 0..9
  /\ pm25_raw \in Word /\ pm10_raw \in Word /\ id \in Word
  /\ checksum \in SumRange
  /\ checksumOk \in BOOLEAN

Init ==
  /\ line = <<>> /\ buffer = <<>> /\ taken = <<>>
  /\ control = "outside" /\ errors = 0
  /\ state = 0
  /\ pm25_raw = 0 /\ pm10_raw = 0 /\ id = 0
  /\ checksum = 0 /\ checksumOk = FALSE

-----------------------------------------------------------------------------
(* The sensor and the serial line.                                         *)

Arrive(bytes) ==
  /\ Len(line) + Len(buffer) + Len(bytes) <= MaxLine
  /\ line' = line \o bytes
  /\ UNCHANGED <<buffer, control, state, parser, taken>>

SendFrame ==
  /\ \E p \in Payloads : Arrive(Frame(p))
  /\ UNCHANGED errors

\* One byte of a frame arrives damaged, or there is a byte nobody sent.
SendWithError ==
  /\ errors < MaxErrors
  /\ errors' = errors + 1
  /\ \E n \in Noise :
       \/ \E p \in Payloads, i \in 1..10 : Arrive([Frame(p) EXCEPT ![i] = n])
       \/ Arrive(<<n>>)

\* What arrives during a call is for the next one.
Line == control # "parsing" /\ (SendFrame \/ SendWithError)

-----------------------------------------------------------------------------
(* read()                                                                  *)

ClearParser ==
  /\ pm25_raw' = 0 /\ pm10_raw' = 0 /\ id' = 0
  /\ checksum' = 0 /\ checksumOk' = FALSE

\* What ::read() may get of the bytes in the port; nothing if it fails.
PortRead == {n \in 0..Len(line) : n <= PortBytes}

\* Faulty: the queue is emptied first, as for a caller that wants fresh values.
BeginReadFresh ==
  /\ control # "parsing"
  /\ \E n \in PortRead :
       /\ buffer' = SubSeq(line, 1, n)
       /\ line' = SubSeq(line, n + 1, Len(line))
  /\ control' = IF buffer' = <<>> THEN "outside" ELSE "parsing"
  /\ state' = 0
  /\ ClearParser
  /\ taken' = <<>>

\* readSerialPort() gets some of the bytes, or none; a call that finds the
\* queue empty returns at once.
BeginRead ==
  /\ control # "parsing"
  /\ \E n \in PortRead :
       /\ buffer' = buffer \o SubSeq(line, 1, n)
       /\ line' = SubSeq(line, n + 1, Len(line))
  /\ control' = IF buffer' = <<>> THEN "outside" ELSE "parsing"
  /\ state' = 0
  /\ ClearParser
  /\ taken' = <<>>

\* The loop takes one byte ...
Take(value) ==
  /\ buffer' = Tail(buffer)
  /\ taken' = Append(taken, value)
  /\ UNCHANGED line

\* ... which is the one a frame has at this place, ...
Advance == state' = state + 1 /\ UNCHANGED control

\* ... or is not: the search for a head starts with the next byte.
Restart == state' = 0 /\ UNCHANGED <<control, parser>>

ParseHead(value) ==
  /\ state \in {0, 1}
  /\ IF value = (IF state = 0 THEN Head1 ELSE Head2)
     THEN Advance /\ UNCHANGED parser
     ELSE Restart

ParsePayload(value) ==
  /\ state \in 2..7
  /\ Advance
  /\ pm25_raw' = CASE state = 2 -> value
                   [] state = 3 -> pm25_raw + 256 * value
                   [] OTHER     -> pm25_raw
  /\ pm10_raw' = CASE state = 4 -> value
                   [] state = 5 -> pm10_raw + 256 * value
                   [] OTHER     -> pm10_raw
  /\ id' = CASE state = 6 -> 256 * value
             [] state = 7 -> (id + value) % 65536
             [] OTHER     -> id
  /\ checksum' = IF state = 2 THEN value ELSE checksum + value
  /\ UNCHANGED checksumOk

\* Faulty: a wrong checksum is logged and left to checksum_ok.
ParseChecksumLate(value) ==
  /\ state = 8
  /\ Advance
  /\ checksumOk' = (checksumOk \/ value = checksum % 256)
  /\ UNCHANGED <<pm25_raw, pm10_raw, id, checksum>>

\* Faulty: the sum is not cut to a byte.
ParseChecksumWide(value) ==
  /\ state = 8
  /\ IF value = checksum
     THEN Advance /\ checksumOk' = TRUE
          /\ UNCHANGED <<pm25_raw, pm10_raw, id, checksum>>
     ELSE Restart

\* The sum has to be right.
ParseChecksum(value) ==
  /\ state = 8
  /\ IF value = checksum % 256
     THEN Advance /\ checksumOk' = TRUE
          /\ UNCHANGED <<pm25_raw, pm10_raw, id, checksum>>
     ELSE Restart

\* Faulty: a wrong tail does not restart the search.
ParseTailOnwards(value) ==
  /\ state = 9
  /\ IF value # TailByte
     THEN Advance /\ UNCHANGED parser
     ELSE control' = "success" /\ UNCHANGED <<state, parser>>

\* The tail completes the frame, and the call; an old checksum_ok is not reset
\* by a restart.
ParseTail(value) ==
  /\ state = 9
  /\ IF value # TailByte
     THEN Restart
     ELSE /\ control' = IF checksumOk THEN "success" ELSE "outside"
          /\ UNCHANGED <<state, parser>>

ParseByte ==
  /\ control = "parsing"
  /\ buffer # <<>>
  /\ LET value == Head(buffer) IN
       /\ Take(value)
       /\ \/ ParseHead(value) \/ ParsePayload(value)
          \/ ParseChecksum(value) \/ ParseTail(value)

\* The queue is empty: the call fails, and the bytes of an unfinished frame are
\* gone with its locals.
Fail ==
  /\ control = "parsing"
  /\ buffer = <<>>
  /\ control' = "outside"
  /\ state' = 0 /\ taken' = <<>>
  /\ ClearParser
  /\ UNCHANGED <<line, buffer>>

Next ==
  \/ Line
  \/ (BeginRead \/ ParseByte \/ Fail) /\ UNCHANGED errors

Spec == Init /\ [][Next]_vars

-----------------------------------------------------------------------------
(* Properties.                                                             *)

\* Ten bytes are a frame.
IsFrame(t) ==
  /\ t[1] = Head1 /\ t[2] = Head2 /\ t[10] = TailByte
  /\ t[9] = (t[3] + t[4] + t[5] + t[6] + t[7] + t[8]) % 256

\* The last ten bytes that were taken.
Recent == [i \in 1..10 |-> taken[Len(taken) - 10 + i]]

\* read() returns true only for ten bytes in a row that are a frame, and with
\* the values of that frame, whatever it has skipped, whichever attempts it has
\* given up, and although checksum_ok outlives an attempt (SDS011.cpp:79-167).
ReportsFrames ==
  control = "success" =>
    /\ Len(taken) >= 10
    /\ LET t == Recent IN
         /\ IsFrame(t)
         /\ pm25_raw = t[3] + 256 * t[4]
         /\ pm10_raw = t[5] + 256 * t[6]
         /\ id = 256 * t[7] + t[8]

\* What the parser knows of the bytes of the frame it is in: the i-th of them is
\* At(i).
At(i) == taken[Len(taken) - state + i]

Window ==
  /\ state <= Len(taken)
  /\ state >= 1 => At(1) = Head1
  /\ state >= 2 => At(2) = Head2
  /\ state = 3 => pm25_raw = At(3)
  /\ state >= 4 => pm25_raw = At(3) + 256 * At(4)
  /\ state = 5 => pm10_raw = At(5)
  /\ state >= 6 => pm10_raw = At(5) + 256 * At(6)
  /\ state = 7 => id = 256 * At(7)
  /\ state >= 8 => id = 256 * At(7) + At(8)
  /\ state = 3 => checksum = At(3)
  /\ state = 4 => checksum = At(3) + At(4)
  /\ state = 5 => checksum = At(3) + At(4) + At(5)
  /\ state = 6 => checksum = At(3) + At(4) + At(5) + At(6)
  /\ state = 7 => checksum = At(3) + At(4) + At(5) + At(6) + At(7)
  /\ state >= 8 =>
       checksum = At(3) + At(4) + At(5) + At(6) + At(7) + At(8)
  /\ state = 9 => At(9) = checksum % 256 /\ checksumOk

\* The inductive invariant of the proofs.
ParserInv ==
  /\ TypeOK
  /\ control = "parsing" => Window
  /\ ReportsFrames

\* A frame at the front of the queue is the one read() returns: the parser has
\* no memory of earlier calls that could make it miss the frame
\* (SDS011.cpp:79-84).
FirstFrameWins ==
  Len(taken) >= 10 /\ IsFrame(SubSeq(taken, 1, 10)) =>
    control = "success" /\ Len(taken) = 10

\* The driver implements FrameSource: the stream is what is in the port, in the
\* queue, and in the hands of a call that has not decided yet, and what a call
\* takes from it are the bytes up to the end of the frame it reports.
RealFrames == {t \in [1..10 -> Byte] : IsFrame(t)}

Unread == (IF control = "parsing" THEN taken ELSE <<>>) \o buffer \o line

Reported == IF control = "success" THEN <<pm25_raw, pm10_raw, id>> ELSE <<>>

Source == INSTANCE FrameSource WITH
  Frames  <- RealFrames,
  Size    <- 10,
  Meaning <- [t \in RealFrames |->
                <<t[3] + 256 * t[4], t[5] + 256 * t[6], 256 * t[7] + t[8]>>],
  Nothing <- <<>>,
  stream  <- Unread,
  answer  <- Reported

\* No call reports what the sensor has not sent in one piece, none reports a
\* frame twice, and bytes are lost only with a call that fails or looks for a
\* head (SDS011.cpp:55-172).
ImplementsFrameSource == Source!Spec

=============================================================================
