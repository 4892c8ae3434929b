--------------------------- MODULE SDS011_proofs ---------------------------
(* Theorems about the SDS011 driver, for any measurements, line errors and *)
(* sizes of the port and the queue.                                        *)
EXTENDS SDS011, SequenceTheorems, TLAPS

-----------------------------------------------------------------------------
(* Facts about bytes on the line.                                          *)

\* The sum of a frame is one byte.
LEMMA ModByte ==
  ASSUME NEW n \in Nat
  PROVE  n % 256 \in Byte
BY DEF Byte

\* A frame is ten bytes.
LEMMA FrameType ==
  ASSUME NEW p \in Payloads
  PROVE  Frame(p) \in Seq(Byte) /\ Len(Frame(p)) = 10
<1>1. p \in [1..6 -> Byte]
  BY BytesAssumption
<1>2. \A i \in 1..6 : p[i] \in Byte /\ p[i] \in Nat
  BY <1>1 DEF Byte
<1>3. /\ p[1] \in Byte /\ p[2] \in Byte /\ p[3] \in Byte
      /\ p[4] \in Byte /\ p[5] \in Byte /\ p[6] \in Byte
  BY <1>2
<1>4. p[1] + p[2] + p[3] + p[4] + p[5] + p[6] \in Nat
  BY <1>2
<1>5. Sum(p) \in Byte
  BY <1>4, ModByte DEF Sum
<1>6. Head1 \in Byte /\ Head2 \in Byte /\ TailByte \in Byte
  BY DEF Head1, Head2, TailByte, Byte
<1> QED
  BY <1>3, <1>5, <1>6 DEF Frame

\* Arrivals change nothing but the line.
LEMMA LineStep ==
  ASSUME TypeOK, Line
  PROVE  /\ line' \in Seq(Byte)
         /\ errors' \in 0..MaxErrors
         /\ control # "parsing"
         /\ UNCHANGED <<buffer, control, state, parser, taken>>
         /\ \E b \in Seq(Byte) : line' = line \o b
<1>1. control # "parsing"
  BY DEF Line
<1>2. ASSUME NEW b \in Seq(Byte), Arrive(b)
      PROVE  /\ line' \in Seq(Byte) /\ line' = line \o b
             /\ UNCHANGED <<buffer, control, state, parser, taken>>
  BY <1>2, ConcatProperties DEF Arrive, TypeOK
<1>3. CASE SendFrame
  <2>1. PICK p \in Payloads : Arrive(Frame(p))
    BY <1>3 DEF SendFrame
  <2>2. errors' \in 0..MaxErrors
    BY <1>3 DEF SendFrame, TypeOK
  <2> QED
    BY <1>1, <1>2, <2>1, <2>2, FrameType
<1>4. CASE SendWithError
  <2>1. ASSUME NEW n \in Noise PROVE <<n>> \in Seq(Byte)
    BY BytesAssumption
  <2>2. ASSUME NEW n \in Noise, NEW p \in Payloads, NEW i \in 1..10
        PROVE  [Frame(p) EXCEPT ![i] = n] \in Seq(Byte)
    BY FrameType, BytesAssumption, ExceptSeq
  <2>3. PICK b \in Seq(Byte) : Arrive(b)
    BY <1>4, <2>1, <2>2 DEF SendWithError
  <2>4. errors' \in 0..MaxErrors
    BY <1>4, BytesAssumption DEF SendWithError, TypeOK
  <2> QED
    BY <1>1, <1>2, <2>3, <2>4
<1> QED
  BY <1>3, <1>4 DEF Line

-----------------------------------------------------------------------------
(* The parser.                                                             *)

\* A byte that is taken follows those that the parser has seen.
LEMMA TakeExtends ==
  ASSUME TypeOK, buffer # <<>>, Take(Head(buffer))
  PROVE  /\ Head(buffer) \in Byte
         /\ buffer' \in Seq(Byte) /\ taken' \in Seq(Byte) /\ line' = line
         /\ Len(taken) \in Nat /\ Len(taken') = Len(taken) + 1
         /\ taken'[Len(taken) + 1] = Head(buffer)
         /\ \A i \in 1..Len(taken) : taken'[i] = taken[i] /\ taken[i] \in Byte
<1>1. buffer \in Seq(Byte) /\ taken \in Seq(Byte)
  BY DEF TypeOK
<1>2. Head(buffer) \in Byte /\ Tail(buffer) \in Seq(Byte)
  BY <1>1, HeadTailProperties
<1>3. buffer' = Tail(buffer) /\ taken' = Append(taken, Head(buffer))
      /\ line' = line
  BY DEF Take
<1>4. taken' \in Seq(Byte) /\ Len(taken') = Len(taken) + 1
      /\ taken'[Len(taken) + 1] = Head(buffer)
      /\ \A i \in 1..Len(taken) : taken'[i] = taken[i]
  BY <1>1, <1>2, <1>3, AppendProperties
<1>5. Len(taken) \in Nat /\ \A i \in 1..Len(taken) : taken[i] \in Byte
  BY <1>1, LenProperties, ElementOfSeq
<1> QED
  BY <1>2, <1>3, <1>4, <1>5

\* A byte that belongs to the frame leaves what is known of the others.
LEMMA WindowGrows ==
  ASSUME TypeOK, Window, buffer # <<>>, Take(Head(buffer)), state' = state + 1
  PROVE  /\ state' <= Len(taken')
         /\ \A i \in 1..state : At(i)' = At(i) /\ At(i) \in Byte
         /\ \A i \in 1..10 : i = state + 1 => At(i)' = Head(buffer)
<1>1. /\ Len(taken) \in Nat /\ Len(taken') = Len(taken) + 1
      /\ taken'[Len(taken) + 1] = Head(buffer)
      /\ \A i \in 1..Len(taken) : taken'[i] = taken[i] /\ taken[i] \in Byte
  BY TakeExtends
<1>2. state \in Nat
  BY DEF TypeOK
<1>3. state <= Len(taken)
  BY DEF Window
<1>4. Len(taken') - state' = Len(taken) - state
  BY <1>1, <1>2
<1>5. ASSUME NEW i \in 1..state
      PROVE  At(i)' = At(i) /\ At(i) \in Byte
  <2>1. Len(taken) - state + i \in 1..Len(taken)
    BY <1>1, <1>2, <1>3
  <2> QED
    BY <1>1, <1>4, <2>1 DEF At
<1>6. ASSUME NEW i \in 1..10, i = state + 1
      PROVE  At(i)' = Head(buffer)
  <2>1. Len(taken') - state' + i = Len(taken) + 1
    BY <1>1, <1>2, <1>6
  <2> QED
    BY <1>1, <2>1 DEF At
<1> QED
  BY <1>1, <1>2, <1>3, <1>5, <1>6

\* What a step of the parser keeps, and what it has to establish.
Parsed ==
  /\ control \in {"outside", "parsing", "success"}
  /\ state \in 0..9
  /\ pm25_raw \in Word /\ pm10_raw \in Word /\ id \in Word
  /\ checksum \in SumRange
  /\ checksumOk \in BOOLEAN
  /\ control = "parsing" => Window

\* A byte that does not belong to the frame leaves nothing to know.
LEMMA RestartKeeps ==
  ASSUME TypeOK, Window, control = "parsing",
         buffer # <<>>, Take(Head(buffer)), Restart
  PROVE  Parsed' /\ control' = "parsing"
<1>1. state' = 0 /\ control' = "parsing"
      /\ UNCHANGED <<pm25_raw, pm10_raw, id, checksum, checksumOk>>
  BY DEF Restart, parser
<1>2. Len(taken') \in Nat
  BY TakeExtends
<1>3. Window'
  BY <1>1, <1>2 DEF Window
<1> QED
  BY <1>1, <1>3 DEF Parsed, TypeOK

\* The head of a frame.
LEMMA HeadKeeps ==
  ASSUME TypeOK, Window, control = "parsing",
         buffer # <<>>, Take(Head(buffer)), ParseHead(Head(buffer))
  PROVE  Parsed' /\ control' = "parsing"
<1>1. CASE Restart
  BY <1>1, RestartKeeps
<1>2. CASE /\ Head(buffer) = (IF state = 0 THEN Head1 ELSE Head2)
           /\ Advance /\ UNCHANGED parser
  <2>1. state' = state + 1 /\ control' = "parsing" /\ state \in {0, 1}
        /\ UNCHANGED <<pm25_raw, pm10_raw, id, checksum, checksumOk>>
    BY <1>2 DEF Advance, parser, ParseHead
  <2>2. /\ state' <= Len(taken')
        /\ \A i \in 1..state : At(i)' = At(i)
        /\ \A i \in 1..10 : i = state + 1 => At(i)' = Head(buffer)
    BY <2>1, WindowGrows
  <2>3. CASE state = 0
    <3>1. At(1)' = Head1 /\ state' = 1
      BY <1>2, <2>1, <2>2, <2>3
    <3>2. Window'
      BY <2>2, <3>1 DEF Window
    <3> QED
      BY <2>1, <3>1, <3>2 DEF Parsed, TypeOK
  <2>4. CASE state = 1
    <3>1. At(2)' = Head2 /\ state' = 2
      BY <1>2, <2>1, <2>2, <2>4
    <3>2. At(1)' = Head1
      BY <2>2, <2>4 DEF Window
    <3>3. Window'
      BY <2>2, <3>1, <3>2 DEF Window
    <3> QED
      BY <2>1, <3>1, <3>3 DEF Parsed, TypeOK
  <2> QED
    BY <2>1, <2>3, <2>4
<1> QED
  BY <1>1, <1>2 DEF ParseHead

\* The numbers up to a bound.
LEMMA UpTo ==
  ASSUME NEW N \in Nat, NEW m \in Nat
  PROVE  m \in 0..N <=> m <= N
OBVIOUS

LEMMA InWord ==
  ASSUME NEW m \in Nat, m <= 65535
  PROVE  m \in Word
<1> DEFINE N == 65535
<1>1. N \in Nat /\ m <= N
  OBVIOUS
<1>2. Word = 0..N
  BY DEF Word
<1> HIDE DEF N
<1> QED
  BY <1>1, <1>2, UpTo

LEMMA InSumRange ==
  ASSUME NEW m \in Nat, m <= 1530
  PROVE  m \in SumRange
<1> DEFINE N == 1530
<1>1. N \in Nat /\ m <= N
  OBVIOUS
<1>2. SumRange = 0..N
  BY DEF SumRange
<1> HIDE DEF N
<1> QED
  BY <1>1, <1>2, UpTo

\* One to six bytes have a sum in range.
LEMMA SumOfBytes ==
  ASSUME NEW a \in Byte, NEW b \in Byte, NEW c \in Byte,
         NEW d \in Byte, NEW e \in Byte, NEW f \in Byte
  PROVE  /\ a \in SumRange /\ a + b \in SumRange
         /\ a + b + c \in SumRange /\ a + b + c + d \in SumRange
         /\ a + b + c + d + e \in SumRange
         /\ a + b + c + d + e + f \in SumRange
<1>1. /\ a \in Nat /\ b \in Nat /\ c \in Nat
      /\ d \in Nat /\ e \in Nat /\ f \in Nat
  BY DEF Byte
<1>2. /\ a <= 255 /\ b <= 255 /\ c <= 255
      /\ d <= 255 /\ e <= 255 /\ f <= 255
  BY DEF Byte
<1>3. /\ a \in Nat /\ a <= 1530 /\ a + b \in Nat /\ a + b <= 1530
      /\ a + b + c \in Nat /\ a + b + c <= 1530
      /\ a + b + c + d \in Nat /\ a + b + c + d <= 1530
      /\ a + b + c + d + e \in Nat /\ a + b + c + d + e <= 1530
      /\ a + b + c + d + e + f \in Nat /\ a + b + c + d + e + f <= 1530
  BY <1>1, <1>2
<1> QED
  BY <1>3, InSumRange

\* Two bytes are a word.
LEMMA WordOfBytes ==
  ASSUME NEW a \in Byte, NEW b \in Byte
  PROVE  a \in Word /\ a + 256 * b \in Word /\ 256 * b + a \in Word
         /\ 256 * b \in Word /\ (256 * b + a) % 65536 = 256 * b + a
<1>1. /\ a \in Nat /\ b \in Nat /\ a <= 255 /\ b <= 255
  BY DEF Byte
<1>2. a + 256 * b <= 65535 /\ 256 * b <= 65535 /\ a <= 65535
      /\ a + 256 * b \in Nat /\ 256 * b \in Nat
  BY <1>1
<1>3. 256 * b + a = a + 256 * b
  BY <1>1
<1>4. ASSUME NEW m \in Nat, m <= 65535 PROVE m % 65536 = m
  BY <1>4
<1> QED
  BY <1>1, <1>2, <1>3, <1>4, InWord

\* The six bytes of the measurement: each goes to its half of a word, and to
\* the sum.
LEMMA PayloadKeeps ==
  ASSUME TypeOK, Window, control = "parsing",
         buffer # <<>>, Take(Head(buffer)), ParsePayload(Head(buffer))
  PROVE  Parsed' /\ control' = "parsing"
<1> DEFINE v == Head(buffer)
<1>1. state \in 2..7 /\ state' = state + 1 /\ control' = "parsing"
      /\ checksumOk' = checksumOk
  BY DEF ParsePayload, Advance
<1>2. /\ state' <= Len(taken')
      /\ \A i \in 1..state : At(i)' = At(i) /\ At(i)' \in Byte
      /\ \A i \in 1..10 : i = state + 1 => At(i)' = v
      /\ v \in Byte
  BY <1>1, WindowGrows, TakeExtends
<1>3. At(1)' = Head1 /\ At(2)' = Head2
  BY <1>1, <1>2 DEF Window
<1>4. Parsed' <=> /\ pm25_raw' \in Word /\ pm10_raw' \in Word /\ id' \in Word
                  /\ checksum' \in SumRange
                  /\ Window'
  BY <1>1 DEF Parsed, TypeOK
<1> HIDE DEF v
<1>5. CASE state = 2
  <2>1. /\ state' = 3
        /\ At(3)' \in Byte
    BY <1>1, <1>2, <1>5
  <2>2. /\ pm25_raw' = At(3)'
        /\ pm10_raw' = pm10_raw
        /\ id' = id
        /\ checksum' = At(3)'
    BY <1>1, <1>2, <1>5, <2>1, WordOfBytes DEF ParsePayload, Window, v
  <2>3. pm25_raw' \in Word /\ pm10_raw' \in Word /\ id' \in Word
    BY <2>1, <2>2, WordOfBytes DEF TypeOK
  <2>4. checksum' \in SumRange
    BY <2>1, <2>2, SumOfBytes
  <2>5. Window'
    BY <1>2, <1>3, <2>1, <2>2 DEF Window
  <2> QED
    BY <1>1, <1>4, <2>3, <2>4, <2>5
<1>6. CASE state = 3
  <2>1. /\ state' = 4
        /\ At(3)' \in Byte
        /\ At(4)' \in Byte
    BY <1>1, <1>2, <1>6
  <2>2. /\ pm25_raw' = At(3)' + 256 * At(4)'
        /\ pm10_raw' = pm10_raw
        /\ id' = id
        /\ checksum' = At(3)' + At(4)'
    BY <1>1, <1>2, <1>6, <2>1, WordOfBytes DEF ParsePayload, Window, v
  <2>3. pm25_raw' \in Word /\ pm10_raw' \in Word /\ id' \in Word
    BY <2>1, <2>2, WordOfBytes DEF TypeOK
  <2>4. checksum' \in SumRange
    BY <2>1, <2>2, SumOfBytes
  <2>5. Window'
    BY <1>2, <1>3, <2>1, <2>2 DEF Window
  <2> QED
    BY <1>1, <1>4, <2>3, <2>4, <2>5
<1>7. CASE state = 4
  <2>1. /\ state' = 5
        /\ At(3)' \in Byte
        /\ At(4)' \in Byte
        /\ At(5)' \in Byte
    BY <1>1, <1>2, <1>7
  <2>2. /\ pm25_raw' = At(3)' + 256 * At(4)'
        /\ pm10_raw' = At(5)'
        /\ id' = id
        /\ checksum' = At(3)' + At(4)' + At(5)'
    BY <1>1, <1>2, <1>7, <2>1, WordOfBytes DEF ParsePayload, Window, v
  <2>3. pm25_raw' \in Word /\ pm10_raw' \in Word /\ id' \in Word
    BY <2>1, <2>2, WordOfBytes DEF TypeOK
  <2>4. checksum' \in SumRange
    BY <2>1, <2>2, SumOfBytes
  <2>5. Window'
    BY <1>2, <1>3, <2>1, <2>2 DEF Window
  <2> QED
    BY <1>1, <1>4, <2>3, <2>4, <2>5
<1>8. CASE state = 5
  <2>1. /\ state' = 6
        /\ At(3)' \in Byte
        /\ At(4)' \in Byte
        /\ At(5)' \in Byte
        /\ At(6)' \in Byte
    BY <1>1, <1>2, <1>8
  <2>2. /\ pm25_raw' = At(3)' + 256 * At(4)'
        /\ pm10_raw' = At(5)' + 256 * At(6)'
        /\ id' = id
        /\ checksum' = At(3)' + At(4)' + At(5)' + At(6)'
    BY <1>1, <1>2, <1>8, <2>1, WordOfBytes DEF ParsePayload, Window, v
  <2>3. pm25_raw' \in Word /\ pm10_raw' \in Word /\ id' \in Word
    BY <2>1, <2>2, WordOfBytes DEF TypeOK
  <2>4. checksum' \in SumRange
    BY <2>1, <2>2, SumOfBytes
  <2>5. Window'
    BY <1>2, <1>3, <2>1, <2>2 DEF Window
  <2> QED
    BY <1>1, <1>4, <2>3, <2>4, <2>5
<1>9. CASE state = 6
  <2>1. /\ state' = 7
        /\ At(3)' \in Byte
        /\ At(4)' \in Byte
        /\ At(5)' \in Byte
        /\ At(6)' \in Byte
        /\ At(7)' \in Byte
    BY <1>1, <1>2, <1>9
  <2>2. /\ pm25_raw' = At(3)' + 256 * At(4)'
        /\ pm10_raw' = At(5)' + 256 * At(6)'
        /\ id' = 256 * At(7)'
        /\ checksum' = At(3)' + At(4)' + At(5)' + At(6)' + At(7)'
    BY <1>1, <1>2, <1>9, <2>1, WordOfBytes DEF ParsePayload, Window, v
  <2>3. pm25_raw' \in Word /\ pm10_raw' \in Word /\ id' \in Word
    BY <2>1, <2>2, WordOfBytes DEF TypeOK
  <2>4. checksum' \in SumRange
    BY <2>1, <2>2, SumOfBytes
  <2>5. Window'
    BY <1>2, <1>3, <2>1, <2>2 DEF Window
  <2> QED
    BY <1>1, <1>4, <2>3, <2>4, <2>5
<1>10. CASE state = 7
  <2>1. /\ state' = 8
        /\ At(3)' \in Byte
        /\ At(4)' \in Byte
        /\ At(5)' \in Byte
        /\ At(6)' \in Byte
        /\ At(7)' \in Byte
        /\ At(8)' \in Byte
    BY <1>1, <1>2, <1>10
  <2>2. /\ pm25_raw' = At(3)' + 256 * At(4)'
        /\ pm10_raw' = At(5)' + 256 * At(6)'
        /\ id' = 256 * At(7)' + At(8)'
        /\ checksum' = At(3)' + At(4)' + At(5)' + At(6)' + At(7)' + At(8)'
    BY <1>1, <1>2, <1>10, <2>1, WordOfBytes DEF ParsePayload, Window, v
  <2>3. pm25_raw' \in Word /\ pm10_raw' \in Word /\ id' \in Word
    BY <2>1, <2>2, WordOfBytes DEF TypeOK
  <2>4. checksum' \in SumRange
    BY <2>1, <2>2, SumOfBytes
  <2>5. Window'
    BY <1>2, <1>3, <2>1, <2>2 DEF Window
  <2> QED
    BY <1>1, <1>4, <2>3, <2>4, <2>5
<1> QED
  BY <1>1, <1>5, <1>6, <1>7, <1>8, <1>9, <1>10

\* The checksum of the frame.
LEMMA ChecksumKeeps ==
  ASSUME TypeOK, Window, control = "parsing",
         buffer # <<>>, Take(Head(buffer)), ParseChecksum(Head(buffer))
  PROVE  Parsed' /\ control' = "parsing"
<1>1. CASE Restart
  BY <1>1, RestartKeeps
<1>2. CASE /\ Head(buffer) = checksum % 256
           /\ Advance /\ checksumOk' = TRUE
           /\ UNCHANGED <<pm25_raw, pm10_raw, id, checksum>>
  <2>1. /\ state = 8 /\ state' = 9 /\ control' = "parsing"
        /\ checksumOk' = TRUE
        /\ UNCHANGED <<pm25_raw, pm10_raw, id, checksum>>
        /\ Head(buffer) = checksum % 256
    BY <1>2 DEF Advance, ParseChecksum
  <2>2. /\ state' <= Len(taken')
        /\ \A i \in 1..8 : At(i)' = At(i)
        /\ At(9)' = Head(buffer)
    BY <2>1, WindowGrows
  <2>3. /\ At(1)' = At(1) /\ At(2)' = At(2) /\ At(3)' = At(3)
        /\ At(4)' = At(4) /\ At(5)' = At(5) /\ At(6)' = At(6)
        /\ At(7)' = At(7) /\ At(8)' = At(8)
    BY <2>2
  <2>4. Window'
    BY <2>1, <2>2, <2>3 DEF Window
  <2> QED
    BY <2>1, <2>4 DEF Parsed, TypeOK
<1> QED
  BY <1>1, <1>2 DEF ParseChecksum

\* The tail of the frame: with it the last ten bytes are a frame.
LEMMA TailKeeps ==
  ASSUME TypeOK, Window, control = "parsing",
         buffer # <<>>, Take(Head(buffer)), ParseTail(Head(buffer))
  PROVE  Parsed' /\ ReportsFrames'
<1>1. CASE Restart
  <2>1. Parsed' /\ control' = "parsing"
    BY <1>1, RestartKeeps
  <2> QED
    BY <2>1 DEF ReportsFrames
<1>2. CASE /\ Head(buffer) = TailByte
           /\ control' = IF checksumOk THEN "success" ELSE "outside"
           /\ UNCHANGED <<state, parser>>
  <2>1. /\ state = 9 /\ state' = 9 /\ control' \in {"success", "outside"}
        /\ UNCHANGED <<pm25_raw, pm10_raw, id, checksum, checksumOk>>
        /\ Head(buffer) = TailByte
    BY <1>2 DEF ParseTail, parser
  <2>2. Parsed'
    BY <2>1 DEF Parsed, TypeOK
  <2>3. /\ Len(taken) \in Nat /\ Len(taken) >= 9
        /\ Len(taken') = Len(taken) + 1
        /\ taken'[Len(taken) + 1] = TailByte
        /\ \A i \in 1..Len(taken) : taken'[i] = taken[i]
    BY <2>1, TakeExtends DEF Window
  <2>4. ASSUME NEW i \in 1..9 PROVE Recent'[i] = At(i)
    <3>1. Recent'[i] = taken'[Len(taken') - 10 + i]
      BY DEF Recent
    <3>2. Len(taken') - 10 + i = Len(taken) - state + i
          /\ Len(taken) - state + i \in 1..Len(taken)
      BY <2>1, <2>3
    <3> QED
      BY <2>3, <3>1, <3>2 DEF At
  <2>5. Recent'[10] = TailByte
    <3>1. Recent'[10] = taken'[Len(taken') - 10 + 10]
      BY DEF Recent
    <3>2. Len(taken') - 10 + 10 = Len(taken) + 1
      BY <2>3
    <3> QED
      BY <2>3, <3>1, <3>2
  <2>6. /\ Recent'[1] = At(1) /\ Recent'[2] = At(2) /\ Recent'[3] = At(3)
        /\ Recent'[4] = At(4) /\ Recent'[5] = At(5) /\ Recent'[6] = At(6)
        /\ Recent'[7] = At(7) /\ Recent'[8] = At(8) /\ Recent'[9] = At(9)
    BY <2>4
  <2>7. /\ At(1) = Head1 /\ At(2) = Head2
        /\ pm25_raw = At(3) + 256 * At(4)
        /\ pm10_raw = At(5) + 256 * At(6)
        /\ id = 256 * At(7) + At(8)
        /\ checksum = At(3) + At(4) + At(5) + At(6) + At(7) + At(8)
        /\ At(9) = checksum % 256
    BY <2>1 DEF Window
  <2>8. IsFrame(Recent')
    BY <2>5, <2>6, <2>7 DEF IsFrame
  <2>9. Len(taken') >= 10
    BY <2>3
  <2>10. /\ pm25_raw' = Recent'[3] + 256 * Recent'[4]
         /\ pm10_raw' = Recent'[5] + 256 * Recent'[6]
         /\ id' = 256 * Recent'[7] + Recent'[8]
    BY <2>1, <2>6, <2>7
  <2>11. ReportsFrames'
    BY <2>8, <2>9, <2>10 DEF ReportsFrames, IsFrame
  <2> QED
    BY <2>2, <2>11
<1> QED
  BY <1>1, <1>2 DEF ParseTail

-----------------------------------------------------------------------------
(* The steps of the specification.                                         *)

\* ParserInv holds at the start.
LEMMA InitInv == Init => ParserInv
<1> SUFFICES ASSUME Init PROVE ParserInv
  OBVIOUS
<1>1. /\ 0 \in Word /\ 0 \in SumRange
  BY InWord, InSumRange
<1>2. line \in Seq(Byte) /\ buffer \in Seq(Byte) /\ taken \in Seq(Byte)
  BY EmptySeq DEF Init
<1>3. control \in {"outside", "parsing", "success"} /\ checksumOk \in BOOLEAN
  BY Zenon DEF Init
<1>7. state \in 0..9
  BY DEF Init
<1>4. errors \in 0..MaxErrors
  BY BytesAssumption DEF Init
<1>5. pm25_raw \in Word /\ pm10_raw \in Word /\ id \in Word
      /\ checksum \in SumRange
  BY <1>1 DEF Init
<1>6. TypeOK
  BY <1>2, <1>3, <1>7, <1>4, <1>5 DEF TypeOK
<1> QED
  BY <1>6 DEF Init, ParserInv, ReportsFrames

\* The start of a call leaves a parser that has seen nothing.
LEMMA BeginKeeps ==
  ASSUME ParserInv, BeginRead, UNCHANGED errors
  PROVE  ParserInv'
<1>1. TypeOK
  BY DEF ParserInv
<1>2. PICK n \in 0..Len(line) :
         /\ buffer' = buffer \o SubSeq(line, 1, n)
         /\ line' = SubSeq(line, n + 1, Len(line))
  BY DEF BeginRead, PortRead
<1>3. line \in Seq(Byte) /\ buffer \in Seq(Byte) /\ Len(line) \in Nat
  BY <1>1, LenProperties DEF TypeOK
<1>4. SubSeq(line, 1, n) \in Seq(Byte)
  <2>1. \A i \in 1..n : line[i] \in Byte
    BY <1>3, ElementOfSeq
  <2> QED
    BY <1>3, <2>1, SubSeqProperties
<1>5. SubSeq(line, n + 1, Len(line)) \in Seq(Byte)
  <2>1. \A i \in n + 1..Len(line) : line[i] \in Byte
    BY <1>3, ElementOfSeq
  <2> QED
    BY <1>3, <2>1, SubSeqProperties
<1>6. buffer' \in Seq(Byte) /\ line' \in Seq(Byte)
  BY <1>2, <1>3, <1>4, <1>5, ConcatProperties
<1>7. /\ control' \in {"outside", "parsing"}
      /\ state' = 0 /\ taken' = <<>>
      /\ pm25_raw' = 0 /\ pm10_raw' = 0 /\ id' = 0
      /\ checksum' = 0 /\ checksumOk' = FALSE
  BY DEF BeginRead, ClearParser
<1>8. 0 \in Word /\ 0 \in SumRange
  BY InWord, InSumRange
<1>9. TypeOK'
  <2>1. taken' \in Seq(Byte) /\ state' \in 0..9
    BY <1>7, EmptySeq
  <2>2. pm25_raw' \in Word /\ pm10_raw' \in Word /\ id' \in Word
        /\ checksum' \in SumRange /\ checksumOk' \in BOOLEAN
    BY <1>7, <1>8
  <2>3. errors' \in 0..MaxErrors
    BY <1>1 DEF TypeOK
  <2> QED
    BY <1>6, <1>7, <2>1, <2>2, <2>3 DEF TypeOK
<1>10. Window'
  <2>1. Len(taken') = 0
    BY <1>7, EmptySeq
  <2> QED
    BY <1>7, <2>1 DEF Window
<1>11. ReportsFrames'
  BY <1>7 DEF ReportsFrames
<1> QED
  BY <1>9, <1>10, <1>11 DEF ParserInv

\* A byte of the queue.
LEMMA ByteKeeps ==
  ASSUME ParserInv, ParseByte, UNCHANGED errors
  PROVE  ParserInv'
<1> DEFINE v == Head(buffer)
<1>1. TypeOK /\ Window /\ control = "parsing" /\ buffer # <<>>
  BY DEF ParserInv, ParseByte
<1>2. /\ Take(v)
      /\ ParseHead(v) \/ ParsePayload(v) \/ ParseChecksum(v) \/ ParseTail(v)
  BY DEF ParseByte
<1>3. Parsed' /\ ReportsFrames'
  <2>1. CASE ParseHead(v)
    <3>1. Parsed' /\ control' = "parsing"
      BY <1>1, <1>2, <2>1, HeadKeeps
    <3> QED
      BY <3>1 DEF ReportsFrames
  <2>2. CASE ParsePayload(v)
    <3>1. Parsed' /\ control' = "parsing"
      BY <1>1, <1>2, <2>2, PayloadKeeps
    <3> QED
      BY <3>1 DEF ReportsFrames
  <2>3. CASE ParseChecksum(v)
    <3>1. Parsed' /\ control' = "parsing"
      BY <1>1, <1>2, <2>3, ChecksumKeeps
    <3> QED
      BY <3>1 DEF ReportsFrames
  <2>4. CASE ParseTail(v)
    BY <1>1, <1>2, <2>4, TailKeeps
  <2> QED
    BY <1>2, <2>1, <2>2, <2>3, <2>4
<1>4. line' \in Seq(Byte) /\ buffer' \in Seq(Byte) /\ taken' \in Seq(Byte)
  <2>1. /\ buffer' \in Seq(Byte) /\ taken' \in Seq(Byte) /\ line' = line
    BY <1>1, <1>2, TakeExtends
  <2> QED
    BY <1>1, <2>1 DEF TypeOK
<1>5. errors' \in 0..MaxErrors
  BY <1>1 DEF TypeOK
<1>6. TypeOK' /\ (control' = "parsing" => Window')
  BY <1>3, <1>4, <1>5 DEF Parsed, TypeOK
<1> QED
  BY <1>3, <1>6 DEF ParserInv

\* A call that fails forgets what it has seen.
LEMMA FailKeeps ==
  ASSUME ParserInv, Fail, UNCHANGED errors
  PROVE  ParserInv'
<1>1. TypeOK
  BY DEF ParserInv
<1>2. /\ control' = "outside" /\ state' = 0 /\ taken' = <<>>
      /\ pm25_raw' = 0 /\ pm10_raw' = 0 /\ id' = 0
      /\ checksum' = 0 /\ checksumOk' = FALSE
      /\ line' = line /\ buffer' = buffer
  BY DEF Fail, ClearParser
<1>3. 0 \in Word /\ 0 \in SumRange
  BY InWord, InSumRange
<1>4. /\ line' \in Seq(Byte) /\ buffer' \in Seq(Byte) /\ taken' \in Seq(Byte)
      /\ errors' \in 0..MaxErrors
  <2>1. taken' \in Seq(Byte)
    BY <1>2, EmptySeq
  <2> QED
    BY <1>1, <1>2, <2>1 DEF TypeOK
<1>5. /\ state' \in 0..9 /\ checksumOk' \in BOOLEAN
      /\ pm25_raw' \in Word /\ pm10_raw' \in Word /\ id' \in Word
      /\ checksum' \in SumRange
  <2>1. state' \in 0..9
    BY <1>2
  <2>2. /\ pm25_raw' \in Word /\ pm10_raw' \in Word /\ id' \in Word
        /\ checksum' \in SumRange /\ checksumOk' \in BOOLEAN
    BY <1>2, <1>3
  <2> QED
    BY <2>1, <2>2
<1>6. TypeOK'
  BY <1>2, <1>4, <1>5 DEF TypeOK
<1> QED
  BY <1>2, <1>6 DEF ParserInv, ReportsFrames

\* Nothing the parser is about changes.
LEMMA QuietKeeps ==
  ASSUME ParserInv, UNCHANGED <<buffer, control, state, parser, taken>>,
         line' \in Seq(Byte), errors' \in 0..MaxErrors, control # "parsing"
  PROVE  ParserInv'
<1>1. TypeOK
  BY DEF ParserInv
<1>2. UNCHANGED <<buffer, control, state, taken, pm25_raw, pm10_raw, id,
                  checksum, checksumOk>>
  BY DEF parser
<1>3. TypeOK'
  BY <1>1, <1>2 DEF TypeOK
<1>4. Recent' = Recent
  BY <1>2 DEF Recent
<1>5. ReportsFrames'
  BY <1>2, <1>4 DEF ParserInv, ReportsFrames, IsFrame
<1> QED
  BY <1>2, <1>3, <1>5 DEF ParserInv

-----------------------------------------------------------------------------
(* The theorems.                                                           *)

\* ParserInv: the inductive invariant, in which the parser knows the bytes of
\* the frame it is in (SDS011.cpp:69-172).
THEOREM ParserInvariance == Spec => []ParserInv
<1>1. ParserInv /\ [Next]_vars => ParserInv'
  <2> SUFFICES ASSUME ParserInv, [Next]_vars PROVE ParserInv'
    OBVIOUS
  <2>1. CASE Line
    <3>1. TypeOK
      BY DEF ParserInv
    <3> QED
      BY <2>1, <3>1, LineStep, QuietKeeps
  <2>2. CASE BeginRead /\ UNCHANGED errors
    BY <2>2, BeginKeeps
  <2>3. CASE ParseByte /\ UNCHANGED errors
    BY <2>3, ByteKeeps
  <2>4. CASE Fail /\ UNCHANGED errors
    BY <2>4, FailKeeps
  <2>5. CASE UNCHANGED vars
    <3>1. UNCHANGED <<errors, line, buffer, control, state, pm25_raw, pm10_raw,
                      id, checksum, checksumOk, taken>>
      BY <2>5 DEF vars, parser
    <3>2. TypeOK'
      BY <3>1 DEF ParserInv, TypeOK
    <3>3. \A i : At(i)' = At(i)
      BY <3>1 DEF At
    <3>4. control' = "parsing" => Window'
      BY <3>1, <3>3 DEF ParserInv, Window
    <3>5. Recent' = Recent
      BY <3>1 DEF Recent
    <3>6. ReportsFrames'
      BY <3>1, <3>5 DEF ParserInv, ReportsFrames, IsFrame
    <3> QED
      BY <3>2, <3>4, <3>6 DEF ParserInv
  <2> QED
    BY <2>1, <2>2, <2>3, <2>4, <2>5 DEF Next
<1> QED
  BY <1>1, InitInv, PTL DEF Spec

\* ReportsFrames: what read() reports is the last ten bytes, and they are a
\* frame with a right checksum, whatever was on the line before.
THEOREM OnlyFrames == Spec => []ReportsFrames
<1>1. ParserInv => ReportsFrames
  BY DEF ParserInv
<1> QED
  BY <1>1, ParserInvariance, PTL

-----------------------------------------------------------------------------
(* The first frame of the queue.                                           *)

\* The first n bytes of t are those a frame begins with; n is at most 9.
Fits(t, n) ==
  /\ n >= 1 => t[1] = Head1
  /\ n >= 2 => t[2] = Head2
  /\ n >= 9 => t[9] = (t[3] + t[4] + t[5] + t[6] + t[7] + t[8]) % 256

\* A call that has taken nothing but the beginning of a frame has not restarted
\* its search; FirstFrameWins, byte by byte.
FrontInv ==
  /\ control = "parsing" /\ Len(taken) <= 9 /\ Fits(taken, Len(taken)) =>
       state = Len(taken)
  /\ Len(taken) >= 10 /\ Fits(taken, 9) /\ taken[10] = TailByte =>
       control = "success" /\ Len(taken) = 10

LEMMA FrontSuffices ==
  ASSUME TypeOK
  PROVE  FirstFrameWins <=>
           (Len(taken) >= 10 /\ Fits(taken, 9) /\ taken[10] = TailByte =>
              control = "success" /\ Len(taken) = 10)
<1>1. ASSUME Len(taken) >= 10
      PROVE  IsFrame(SubSeq(taken, 1, 10)) <=> Fits(taken, 9) /\ taken[10] = TailByte
  <2>1. \A i \in 1..10 : taken[i] \in Byte
    BY <1>1, LenProperties, ElementOfSeq DEF TypeOK
  <2>2. \A i \in 1..10 - 1 + 1 : SubSeq(taken, 1, 10)[i] = taken[1 + i - 1]
    BY <2>1, SubSeqProperties
  <2>3. \A i \in 1..10 : SubSeq(taken, 1, 10)[i] = taken[i]
    BY <2>2
  <2> DEFINE s == SubSeq(taken, 1, 10)
  <2>4. /\ s[1] = taken[1] /\ s[2] = taken[2] /\ s[3] = taken[3] /\ s[4] = taken[4]
        /\ s[5] = taken[5] /\ s[6] = taken[6] /\ s[7] = taken[7] /\ s[8] = taken[8]
        /\ s[9] = taken[9] /\ s[10] = taken[10]
    BY <2>3
  <2> HIDE DEF s
  <2>5. IsFrame(s) <=> Fits(taken, 9) /\ taken[10] = TailByte
    BY <2>4 DEF IsFrame, Fits
  <2> QED
    BY <2>5 DEF s
<1> QED
  BY <1>1 DEF FirstFrameWins

\* The byte that a frame has next is not passed over ...
LEMMA NextByteFits ==
  ASSUME ParserInv, FrontInv, ParseByte, Len(taken) <= 8,
         Fits(taken', Len(taken) + 1)
  PROVE  state' = Len(taken')
<1> DEFINE v == Head(buffer)
           n == Len(taken)
<1>1. TypeOK /\ Window /\ control = "parsing" /\ buffer # <<>> /\ Take(v)
  BY DEF ParserInv, ParseByte
<1>2. ParseHead(v) \/ ParsePayload(v) \/ ParseChecksum(v) \/ ParseTail(v)
  BY DEF ParseByte
<1>3. /\ n \in Nat /\ Len(taken') = n + 1 /\ taken'[n + 1] = v
      /\ \A i \in 1..n : taken'[i] = taken[i] /\ taken[i] \in Byte
  BY <1>1, TakeExtends
<1>4. n \in 0..8
  <2>1. n \in Nat /\ n <= 8
    BY <1>3
  <2> HIDE DEF n
  <2> QED
    BY <2>1
<1>5. Fits(taken, n)
  <2>1. n >= 1 => taken'[1] = taken[1]
    BY <1>3
  <2>2. n >= 2 => taken'[2] = taken[2]
    BY <1>3
  <2> HIDE DEF n
  <2> QED
    BY <1>4, <2>1, <2>2 DEF Fits, n
<1>6. state = n
  BY <1>1, <1>4, <1>5 DEF FrontInv
<1> HIDE DEF n, v
<1>7. CASE n = 0
  <2>1. v = Head1
    BY <1>3, <1>7 DEF Fits, n
  <2> QED
    BY <1>2, <1>3, <1>6, <1>7, <2>1
       DEF ParseHead, ParsePayload, ParseChecksum, ParseTail, Advance
<1>8. CASE n = 1
  <2>1. v = Head2
    BY <1>3, <1>8 DEF Fits, n
  <2> QED
    BY <1>2, <1>3, <1>6, <1>8, <2>1
       DEF ParseHead, ParsePayload, ParseChecksum, ParseTail, Advance
<1>9. CASE n \in 2..7
  BY <1>2, <1>3, <1>6, <1>9
     DEF ParseHead, ParsePayload, ParseChecksum, ParseTail, Advance
<1>10. CASE n = 8
  <2>1. v = (taken'[3] + taken'[4] + taken'[5] + taken'[6] + taken'[7] + taken'[8]) % 256
    BY <1>3, <1>10 DEF Fits, n
  <2>2. \A i \in 1..8 : taken'[i] = At(i)
    <3>1. \A i \in 1..8 : Len(taken) - state + i = i
      BY <1>6, <1>10 DEF n
    <3> QED
      BY <1>3, <1>10, <3>1 DEF At, n
  <2>3. checksum = At(3) + At(4) + At(5) + At(6) + At(7) + At(8)
    BY <1>1, <1>6, <1>10 DEF Window
  <2>4. v = checksum % 256
    BY <2>1, <2>2, <2>3
  <2> QED
    BY <1>2, <1>3, <1>6, <1>10, <2>4
       DEF ParseHead, ParsePayload, ParseChecksum, ParseTail, Advance
<1> QED
  BY <1>4, <1>7, <1>8, <1>9, <1>10

\* ... and the tenth ends the call.
LEMMA TenthByteEnds ==
  ASSUME ParserInv, FrontInv, ParseByte,
         Len(taken') >= 10, Fits(taken', 9), taken'[10] = TailByte
  PROVE  control' = "success" /\ Len(taken') = 10
<1> DEFINE v == Head(buffer)
           n == Len(taken)
<1>1. TypeOK /\ Window /\ control = "parsing" /\ buffer # <<>> /\ Take(v)
  BY DEF ParserInv, ParseByte
<1>2. ParseHead(v) \/ ParsePayload(v) \/ ParseChecksum(v) \/ ParseTail(v)
  BY DEF ParseByte
<1>3. /\ n \in Nat /\ Len(taken') = n + 1 /\ taken'[n + 1] = v
      /\ \A i \in 1..n : taken'[i] = taken[i]
  BY <1>1, TakeExtends
<1>4. n >= 9
  BY <1>3
<1>5. Fits(taken, 9)
  <2>1. /\ taken'[1] = taken[1] /\ taken'[2] = taken[2] /\ taken'[3] = taken[3]
        /\ taken'[4] = taken[4] /\ taken'[5] = taken[5] /\ taken'[6] = taken[6]
        /\ taken'[7] = taken[7] /\ taken'[8] = taken[8] /\ taken'[9] = taken[9]
    BY <1>3, <1>4
  <2> QED
    BY <2>1 DEF Fits
<1>6. n = 9
  <2>1. ASSUME n >= 10 PROVE FALSE
    <3>1. taken'[10] = taken[10]
      BY <1>3, <2>1
    <3> QED
      BY <1>1, <1>5, <2>1, <3>1 DEF FrontInv
  <2>2. n \in Nat /\ n >= 9 /\ ~(n >= 10)
    BY <1>3, <1>4, <2>1
  <2> HIDE DEF n
  <2> QED
    BY <2>2
<1>7. state = 9
  BY <1>1, <1>5, <1>6 DEF FrontInv
<1>8. checksumOk /\ v = TailByte
  BY <1>1, <1>3, <1>6, <1>7 DEF Window
<1> HIDE DEF v, n
<1> QED
  BY <1>2, <1>3, <1>6, <1>7, <1>8
     DEF ParseHead, ParsePayload, ParseChecksum, ParseTail

LEMMA FrontStep == ParserInv /\ FrontInv /\ [Next]_vars => FrontInv'
<1> SUFFICES ASSUME ParserInv, FrontInv, [Next]_vars PROVE FrontInv'
  OBVIOUS
<1>1. CASE ParseByte
  <2>1. Len(taken') = Len(taken) + 1 /\ Len(taken) \in Nat
    BY <1>1, TakeExtends DEF ParserInv, ParseByte
  <2>2. ASSUME Len(taken') <= 9, Fits(taken', Len(taken')) PROVE state' = Len(taken')
    BY <1>1, <2>1, <2>2, NextByteFits
  <2> QED
    BY <1>1, <2>2, TenthByteEnds DEF FrontInv
<1>2. CASE BeginRead \/ Fail
  <2>1. taken' = <<>> /\ state' = 0
    BY <1>2 DEF BeginRead, Fail
  <2> QED
    BY <2>1 DEF FrontInv
<1>3. CASE UNCHANGED <<taken, state, control>>
  BY <1>3 DEF FrontInv
<1> QED
  BY <1>1, <1>2, <1>3, LineStep DEF Next, vars, ParserInv

LEMMA FrontInit == Init => FrontInv
BY DEF Init, FrontInv

\* A frame at the front of the queue is the one read() returns, whatever earlier
\* calls have left behind (SDS011.cpp:79-84).
THEOREM FirstFrame == Spec => []FirstFrameWins
<1>1. ParserInv /\ FrontInv => FirstFrameWins
  BY FrontSuffices DEF ParserInv, FrontInv
<1> QED
  BY <1>1, FrontInit, FrontStep, ParserInvariance, PTL DEF Spec

-----------------------------------------------------------------------------
(* The driver implements FrameSource.                                      *)

\* The end of a sequence, and a part that lies in its front.
LEMMA Suffix ==
  ASSUME NEW s \in Seq(Byte), NEW t \in Seq(Byte)
  PROVE  SubSeq(s \o t, Len(s) + 1, Len(s \o t)) = t
<1> DEFINE u == s \o t
           m == Len(s)
           n == Len(t)
<1>1. /\ u \in Seq(Byte) /\ Len(u) = m + n /\ m \in Nat /\ n \in Nat
      /\ \A i \in 1..m + n : u[i] = IF i <= m THEN s[i] ELSE t[i - m]
      /\ \A i \in 1..n : t[i] \in Byte
  BY ConcatProperties, LenProperties, ElementOfSeq
<1> HIDE DEF u, m, n
<1>2. \A i \in m + 1..m + n : u[i] \in Byte
  BY <1>1
<1>3. /\ SubSeq(u, m + 1, m + n) \in Seq(Byte)
      /\ Len(SubSeq(u, m + 1, m + n)) = IF m + 1 <= m + n THEN m + n - (m + 1) + 1 ELSE 0
      /\ \A i \in 1..m + n - (m + 1) + 1 :
           SubSeq(u, m + 1, m + n)[i] = u[m + 1 + i - 1]
  BY <1>1, <1>2, SubSeqProperties
<1>4. Len(SubSeq(u, m + 1, m + n)) = n
  BY <1>1, <1>3
<1>5. ASSUME NEW i \in 1..n PROVE SubSeq(u, m + 1, m + n)[i] = t[i]
  <2>1. i \in 1..m + n - (m + 1) + 1 /\ m + 1 + i - 1 = m + i /\ m + i \in 1..m + n
        /\ ~(m + i <= m) /\ m + i - m = i
    BY <1>1
  <2> QED
    BY <1>1, <1>3, <2>1
<1>6. SubSeq(u, m + 1, m + n) = t
  BY <1>3, <1>4, <1>5, SeqEqual DEF n
<1> QED
  BY <1>1, <1>6 DEF u, m

LEMMA Prefix ==
  ASSUME NEW s \in Seq(Byte), NEW t \in Seq(Byte)
  PROVE  /\ Len(s) <= Len(s \o t)
         /\ SubSeq(s \o t, 1, Len(s)) = s
<1>1. Len(s) \in Nat /\ Len(t) \in Nat /\ Len(s \o t) = Len(s) + Len(t)
  BY ConcatProperties, LenProperties
<1>2. CASE s = <<>>
  <2>1. Len(s) = 0
    BY <1>2, EmptySeq
  <2> QED
    BY <1>1, <1>2, <2>1, SubSeqEmpty
<1>3. CASE s # <<>>
  <2>1. Len(s) # 0
    BY <1>3, EmptySeq
  <2>2. 1 \in 1..Len(s) /\ Len(s) \in 1..Len(s)
    BY <1>1, <2>1
  <2> QED
    BY <1>1, <2>2, SubSeqOfConcat1, SubSeqFull
<1> QED
  BY <1>2, <1>3

\* Three pieces of bytes, in whatever order they are put together.
LEMMA JoinBytes ==
  ASSUME NEW t \in Seq(Byte), NEW b \in Seq(Byte), NEW l \in Seq(Byte)
  PROVE  (t \o b) \o l = t \o (b \o l)
BY ConcatAssociative, SMTT(30)

\* What a call has in hand, the queue and the port.
LEMMA ThreeParts ==
  ASSUME NEW t \in Seq(Byte), NEW b \in Seq(Byte), NEW l \in Seq(Byte)
  PROVE  /\ b \o l \in Seq(Byte)
         /\ t \o b \o l = t \o (b \o l) /\ t \o (b \o l) \in Seq(Byte)
         /\ <<>> \o b \o l = b \o l
<1>1. b \o l \in Seq(Byte)
  BY ConcatProperties
<1>2. t \o b \o l = t \o (b \o l)
  BY JoinBytes, Zenon
<1>3. t \o (b \o l) \in Seq(Byte)
  BY <1>1, ConcatProperties
<1>4. <<>> \o b = b
  BY ConcatEmptySeq
<1> QED
  BY <1>1, <1>2, <1>3, <1>4, Zenon

LEMMA UnreadType ==
  ASSUME TypeOK
  PROVE  /\ line \in Seq(Byte) /\ buffer \in Seq(Byte) /\ taken \in Seq(Byte)
         /\ buffer \o line \in Seq(Byte)
         /\ Unread \in Seq(Byte)
         /\ control = "parsing" => Unread = taken \o (buffer \o line)
         /\ control # "parsing" => Unread = buffer \o line
<1>1. line \in Seq(Byte) /\ buffer \in Seq(Byte) /\ taken \in Seq(Byte)
  BY DEF TypeOK
<1>2. CASE control = "parsing"
  BY <1>1, <1>2, ThreeParts DEF Unread
<1>3. CASE control # "parsing"
  BY <1>1, <1>3, ThreeParts DEF Unread
<1> QED
  BY <1>2, <1>3

LEMMA UnreadTypeNext ==
  ASSUME TypeOK'
  PROVE  /\ line' \in Seq(Byte) /\ buffer' \in Seq(Byte) /\ taken' \in Seq(Byte)
         /\ buffer' \o line' \in Seq(Byte)
         /\ Unread' \in Seq(Byte)
         /\ control' = "parsing" => Unread' = taken' \o (buffer' \o line')
         /\ control' # "parsing" => Unread' = buffer' \o line'
<1>1. line' \in Seq(Byte) /\ buffer' \in Seq(Byte) /\ taken' \in Seq(Byte)
  BY DEF TypeOK
<1>2. CASE control' = "parsing"
  BY <1>1, <1>2, ThreeParts DEF Unread
<1>3. CASE control' # "parsing"
  BY <1>1, <1>3, ThreeParts DEF Unread
<1> QED
  BY <1>2, <1>3

\* Bytes that arrive.
LEMMA LineMaps ==
  ASSUME TypeOK, TypeOK', Line
  PROVE  Source!Arrive
<1>1. PICK b \in Seq(Byte) : line' = line \o b
  BY LineStep
<1>2. UNCHANGED <<buffer, control, pm25_raw, pm10_raw, id>> /\ control # "parsing"
  BY LineStep DEF parser
<1>3. Unread' = Unread \o b
  <2>1. Unread = buffer \o line /\ Unread' = buffer \o (line \o b)
    BY <1>1, <1>2, UnreadType, UnreadTypeNext
  <2>2. (buffer \o line) \o b = buffer \o (line \o b)
    <3>1. buffer \in Seq(Byte) /\ line \in Seq(Byte) /\ b \in Seq(Byte)
      BY UnreadType
    <3> QED
      BY <3>1, JoinBytes
  <2> QED
    BY <2>1, <2>2, Zenon
<1>4. Reported' = Reported
  BY <1>2 DEF Reported
<1> QED
  BY <1>3, <1>4, UnreadType, Prefix DEF Source!Arrive

\* The start of a call takes nothing.
LEMMA BeginMaps ==
  ASSUME TypeOK, TypeOK', BeginRead
  PROVE  Source!ReadNothing
<1>1. PICK n \in 0..Len(line) :
         /\ buffer' = buffer \o SubSeq(line, 1, n)
         /\ line' = SubSeq(line, n + 1, Len(line))
  BY DEF BeginRead, PortRead
<1>2. /\ control # "parsing" /\ control' \in {"outside", "parsing"} /\ taken' = <<>>
  BY DEF BeginRead
<1>3. buffer' \o line' = buffer \o line
  <2>1. line \in Seq(Byte) /\ buffer \in Seq(Byte) /\ Len(line) \in Nat
    BY LenProperties DEF TypeOK
  <2>2. SubSeq(line, 1, n) \o SubSeq(line, n + 1, Len(line)) = line
    <3>1. /\ 1 \in 1..Len(line) + 1 /\ n \in 1 - 1..Len(line)
          /\ Len(line) \in n..Len(line)
      BY <2>1
    <3> QED
      BY <2>1, <3>1, ConcatAdjacentSubSeq, SubSeqFull
  <2>3. SubSeq(line, 1, n) \in Seq(Byte)
    <3>1. \A i \in 1..n : line[i] \in Byte
      BY <2>1, ElementOfSeq
    <3> QED
      BY <2>1, <3>1, SubSeqProperties
  <2>4. line' \in Seq(Byte)
    BY UnreadTypeNext
  <2>5. buffer \o SubSeq(line, 1, n) \o line' = buffer \o (SubSeq(line, 1, n) \o line')
    <3> DEFINE got == SubSeq(line, 1, n)
    <3>1. got \in Seq(Byte)
      BY <2>3
    <3> HIDE DEF got
    <3>2. buffer \o got \o line' = buffer \o (got \o line')
      BY <2>1, <2>4, <3>1, ThreeParts
    <3> QED
      BY <3>2 DEF got
  <2> QED
    BY <1>1, <2>2, <2>5
<1>4. Unread' = Unread
  <2>1. Unread' = buffer' \o line'
    BY <1>2, UnreadTypeNext, ConcatEmptySeq
  <2> QED
    BY <1>2, <1>3, <2>1, UnreadType
<1>5. Reported' = <<>>
  BY <1>2 DEF Reported
<1>6. Source!Taken(0)
  BY <1>4, UnreadType, SubSeqFull DEF Source!Taken
<1>7. 0 \in 0..Len(Unread)
  BY UnreadType, LenProperties
<1> QED
  BY <1>5, <1>6, <1>7 DEF Source!ReadNothing

\* A frame in front of what is unread is one the call begins with.
LEMMA InFront ==
  ASSUME TypeOK, control = "parsing", FirstFrameWins, Source!FrameInFront
  PROVE  Len(taken) <= 9
<1> SUFFICES ASSUME ~(Len(taken) <= 9) PROVE FALSE
  OBVIOUS
<1>1. Len(taken) \in Nat /\ Len(taken) >= 10
  BY LenProperties DEF TypeOK
<1>2. SubSeq(Unread, 1, 10) \in RealFrames
  <2>1. 10 - 10 + 1 = 1
    OBVIOUS
  <2> QED
    BY <2>1 DEF Source!FrameInFront, Source!EndsFrame
<1>3. SubSeq(Unread, 1, 10) = SubSeq(taken, 1, 10)
  <2>1. 1 \in 1..Len(taken) /\ 10 \in 1..Len(taken)
    BY <1>1
  <2> QED
    BY <2>1, UnreadType, SubSeqOfConcat1
<1> QED
  BY <1>1, <1>2, <1>3 DEF FirstFrameWins, RealFrames

\* A call that finds the queue empty takes what it has seen.
LEMMA FailMaps ==
  ASSUME TypeOK, TypeOK', FirstFrameWins, Fail
  PROVE  Source!ReadNothing
<1>1. /\ control = "parsing" /\ control' = "outside"
      /\ UNCHANGED <<line, buffer>>
  BY DEF Fail
<1>2. Unread = taken \o (buffer \o line) /\ Unread' = buffer \o line
  BY <1>1, UnreadType, UnreadTypeNext
<1>3. Source!Taken(Len(taken))
  BY <1>2, UnreadType, Suffix DEF Source!Taken
<1>4. Reported' = <<>>
  BY <1>1 DEF Reported
<1>5. Len(taken) \in 0..Len(Unread)
  <2>1. Len(taken) \in Nat /\ Len(Unread) \in Nat /\ Len(taken) <= Len(Unread)
    BY <1>2, UnreadType, Prefix, LenProperties
  <2> QED
    BY <2>1
<1>6. Source!FrameInFront => Len(taken) < 10
  BY <1>1, <1>5, InFront
<1> QED
  BY <1>3, <1>4, <1>5, <1>6 DEF Source!ReadNothing

\* Most bytes only move from the queue to the hands of the call, ...
LEMMA ByteMoves ==
  ASSUME TypeOK, TypeOK', ParseByte
  PROVE  taken' \o (buffer' \o line') = Unread
<1> DEFINE v == Head(buffer)
<1>1. /\ control = "parsing" /\ buffer # <<>>
      /\ buffer' = Tail(buffer) /\ taken' = Append(taken, v) /\ line' = line
  BY DEF ParseByte, Take
<1>2. Unread = taken \o (buffer \o line)
  BY <1>1, UnreadType
<1>3. line \in Seq(Byte) /\ buffer \in Seq(Byte) /\ taken \in Seq(Byte)
  BY DEF TypeOK
<1>4. v \in Byte /\ Tail(buffer) \in Seq(Byte) /\ <<v>> \in Seq(Byte)
  BY <1>1, <1>3, HeadTailProperties
<1> HIDE DEF v
<1>5. buffer = <<v>> \o Tail(buffer)
  BY <1>1, <1>3 DEF v
<1>6. taken' = taken \o <<v>>
  BY <1>1, <1>3, <1>4, AppendIsConcat
<1>7. buffer' \o line' \in Seq(Byte)
  BY <1>1, <1>3, <1>4, ConcatProperties
<1>8. taken' \o (buffer' \o line') = taken \o (<<v>> \o (buffer' \o line'))
  BY <1>3, <1>4, <1>6, <1>7, JoinBytes, Zenon
<1>9. <<v>> \o (buffer' \o line') = buffer \o line
  <2>1. <<v>> \o (Tail(buffer) \o line) = (<<v>> \o Tail(buffer)) \o line
    BY <1>3, <1>4, JoinBytes, SMTT(30)
  <2> QED
    BY <1>1, <1>5, <2>1, Zenon
<1> QED
  BY <1>2, <1>8, <1>9

\* ... and the last byte of a frame ends the call with it.
LEMMA ByteMaps ==
  ASSUME ParserInv, ParserInv', FirstFrameWins', ParseByte
  PROVE  [Source!Next]_Source!vars
<1>1. TypeOK /\ TypeOK' /\ Window /\ control = "parsing"
  BY DEF ParserInv, ParseByte
<1>2. Unread = taken' \o (buffer' \o line')
  BY <1>1, ByteMoves
<1>3. /\ taken' \in Seq(Byte) /\ buffer' \o line' \in Seq(Byte)
      /\ (control' = "parsing" => Unread' = taken' \o (buffer' \o line'))
      /\ (control' # "parsing" => Unread' = buffer' \o line')
  BY <1>1, UnreadTypeNext
<1>4. control' \in {"parsing", "success"}
  BY <1>1 DEF ParseByte, ParseHead, ParsePayload, ParseChecksum, ParseTail, Advance,
     Restart, Window
<1>5. CASE control' = "parsing"
  BY <1>1, <1>2, <1>3, <1>5 DEF Reported, Source!vars
<1>6. CASE control' = "success"
  <2> DEFINE k == Len(taken')
             t == Recent'
  <2>1. /\ k \in Nat /\ k >= 10 /\ IsFrame(t)
        /\ pm25_raw' = t[3] + 256 * t[4]
        /\ pm10_raw' = t[5] + 256 * t[6]
        /\ id' = 256 * t[7] + t[8]
    BY <1>3, <1>6, LenProperties DEF ParserInv, ReportsFrames
  <2>2. k \in 1..Len(Unread) /\ Source!Taken(k)
    <3>1. k <= Len(Unread) /\ Len(Unread) \in Nat
      BY <1>1, <1>2, <1>3, UnreadType, Prefix, LenProperties
    <3>2. k \in 1..Len(Unread)
      BY <2>1, <3>1
    <3>3. Unread' = SubSeq(Unread, k + 1, Len(Unread))
      BY <1>2, <1>3, <1>6, Suffix
    <3> QED
      BY <3>2, <3>3 DEF Source!Taken
  <2>3. SubSeq(Unread, k - 10 + 1, k) = t /\ t \in RealFrames
    <3>1. SubSeq(Unread, k - 10 + 1, k) = SubSeq(taken', k - 10 + 1, k)
      <4>1. k - 10 + 1 \in 1..k /\ k \in 1..k
        BY <2>1
      <4> QED
        BY <1>2, <1>3, <4>1, SubSeqOfConcat1
    <3> DEFINE s == SubSeq(taken', k - 10 + 1, k)
    <3>2. \A i \in k - 10 + 1..k : taken'[i] \in Byte
      BY <1>3, <2>1, ElementOfSeq
    <3>3. /\ s \in Seq(Byte) /\ Len(s) = IF k - 10 + 1 <= k THEN k - (k - 10 + 1) + 1 ELSE 0
          /\ \A i \in 1..k - (k - 10 + 1) + 1 : s[i] = taken'[k - 10 + 1 + i - 1]
      BY <2>1, <3>2, SubSeqProperties
    <3> HIDE DEF s, k
    <3>4. k - 10 + 1 <= k /\ k - (k - 10 + 1) + 1 = 10
          /\ \A i \in 1..10 : k - 10 + 1 + i - 1 = k - 10 + i
      BY <2>1
    <3>5. Len(s) = 10 /\ \A i \in 1..10 : s[i] = taken'[k - 10 + i]
      BY <3>3, <3>4
    <3>6. s \in [1..10 -> Byte]
      BY <3>3, <3>5, LenProperties
    <3>7. t = [i \in 1..10 |-> taken'[k - 10 + i]]
      BY DEF Recent, k
    <3>8. s = t
      BY <3>5, <3>6, <3>7
    <3>9. t \in RealFrames
      BY <2>1, <3>6, <3>8 DEF RealFrames
    <3> QED
      BY <3>1, <3>8, <3>9 DEF s
  <2>4. Source!FrameInFront => k = 10
    <3> SUFFICES ASSUME Source!FrameInFront PROVE k = 10
      OBVIOUS
    <3>1. SubSeq(Unread, 1, 10) \in RealFrames
      <4>1. 10 - 10 + 1 = 1
        OBVIOUS
      <4> QED
        BY <4>1 DEF Source!FrameInFront, Source!EndsFrame
    <3>2. SubSeq(Unread, 1, 10) = SubSeq(taken', 1, 10)
      <4>1. 1 \in 1..k /\ 10 \in 1..k
        BY <2>1
      <4> QED
        BY <1>2, <1>3, <4>1, SubSeqOfConcat1
    <3> QED
      BY <2>1, <3>1, <3>2 DEF FirstFrameWins, RealFrames
  <2>5. Reported' = <<t[3] + 256 * t[4], t[5] + 256 * t[6], 256 * t[7] + t[8]>>
    BY <1>6, <2>1 DEF Reported
  <2> HIDE DEF k, t
  <2>6. Source!EndsFrame(k)
    BY <2>1, <2>3 DEF Source!EndsFrame
  <2>7. Source!ReadFrame
    <3>1. [u \in RealFrames |->
            <<u[3] + 256 * u[4], u[5] + 256 * u[6], 256 * u[7] + u[8]>>][t] = Reported'
      BY <2>3, <2>5
    <3> SUFFICES /\ k \in 1..Len(Unread) /\ Source!EndsFrame(k)
                 /\ Source!FrameInFront => k = 10
                 /\ Source!Taken(k)
                 /\ Reported' = [u \in RealFrames |->
                      <<u[3] + 256 * u[4], u[5] + 256 * u[6], 256 * u[7] + u[8]>>]
                        [SubSeq(Unread, k - 10 + 1, k)]
      BY Zenon DEF Source!ReadFrame
    <3> QED
      BY <2>2, <2>3, <2>4, <2>6, <3>1, Zenon
  <2> QED
    BY <2>7, Zenon DEF Source!Next
<1> QED
  BY <1>4, <1>5, <1>6

\* No call reports what the sensor has not sent in one piece, none reports a
\* frame twice, none passes over a frame at the front, and bytes are lost only
\* with a call that fails or looks for a head (SDS011.cpp:55-172).
THEOREM DriverIsFrameSource == Spec => ImplementsFrameSource
<1>1. Init => Source!Init
  <2> SUFFICES ASSUME Init PROVE Unread = <<>> /\ Reported = <<>>
    BY DEF Source!Init
  <2> QED
    BY DEF Init, Unread, Reported
<1>2. ParserInv /\ ParserInv' /\ FirstFrameWins /\ FirstFrameWins' /\ [Next]_vars
        => [Source!Next]_Source!vars
  <2> SUFFICES ASSUME ParserInv, ParserInv', FirstFrameWins, FirstFrameWins',
                      [Next]_vars
               PROVE  [Source!Next]_Source!vars
    OBVIOUS
  <2>1. TypeOK /\ TypeOK'
    BY DEF ParserInv
  <2>2. CASE Line
    BY <2>1, <2>2, LineMaps DEF Source!Next
  <2>3. CASE BeginRead
    BY <2>1, <2>3, BeginMaps DEF Source!Next
  <2>4. CASE ParseByte
    BY <2>4, ByteMaps
  <2>5. CASE Fail
    BY <2>1, <2>5, FailMaps DEF Source!Next
  <2>6. CASE UNCHANGED vars
    BY <2>6 DEF vars, parser, Unread, Reported, Source!vars
  <2> QED
    BY <2>2, <2>3, <2>4, <2>5, <2>6 DEF Next
<1> QED
  BY <1>1, <1>2, ParserInvariance, FirstFrame, PTL
     DEF Spec, ImplementsFrameSource, Source!Spec

=============================================================================
