------------------------- MODULE SlamReader_proofs -------------------------
(***************************************************************************)
(* The SLAM reader's safety, for every set of datagrams, every buffer and  *)
(* every sleep.                                                            *)
(*                                                                         *)
(* That a scan is not too old when it is read follows from a bound on      *)
(* every datagram that waits, by its place: each place before it costs one *)
(* sleep.  The invariant adds that bound, and what the phase says of the   *)
(* timer.                                                                  *)
(***************************************************************************)
EXTENDS SlamReader, Operators_proofs

\* The ticks that n datagrams take.
Sleeps(n) == n * SleepTicks

Schedule ==
  /\ timer <= SleepTicks
  /\ phase = "sleep" => timer > 0
  /\ phase = "receive" => timer = 0
  /\ phase = "start" => timer = 0 /\ buffer = << >> /\ scan = NoScan

\* A datagram at place i has waited for at most BufferSize - i others.
WaitBounded ==
  \A i \in 1 .. Len(buffer) : buffer[i].age < Sleeps(BufferSize - i) + Asleep

IInv == TypeOK /\ Schedule /\ WaitBounded /\ AgeBounded /\ OrderKept

-----------------------------------------------------------------------------
(* The scan of a packet.                                                   *)

\* The circle in sixteenths is a positive integer.
LEMMA FineTurnInt == FineTurn \in Int /\ FineTurn > 0
<1>1. NMeas \in Int /\ NMeas = 16
  BY DEF NMeas
<1> QED BY <1>1, TurnInt DEF FineTurn

\* Every remainder of the step's modulus is an integer.
LEMMA StepInt ==
  ASSUME NEW packet \in MSOPPacket
  PROVE  StepOf(packet) \in Int
<1>1. RawAzimuth(packet, 0) \in UInt16 /\ RawAzimuth(packet, 1) \in UInt16
  BY AzimuthField DEF RawAzimuth, NBlocks
<1>2. PICK a \in Int : a = RawAzimuth(packet, 1) - RawAzimuth(packet, 0) + FullTurn
  BY <1>1, TurnInt DEF UInt16
<1>3. Remainder(a, FullTurn) \in Int
  BY TurnInt DEF Remainder
<1> QED BY <1>2, <1>3 DEF StepOf

\* A beam is at an angle of the turn, whatever the offset and the azimuths.
LEMMA BeamAngleInTurn ==
  ASSUME NEW packet \in MSOPPacket, NEW b \in 0 .. NBlocks - 1, NEW i \in 0 .. NMeas - 1,
         NEW offset \in Int
  PROVE  BeamAngle(packet, b, i, offset) \in 0 .. FineTurn - 1
<1>1. PICK step \in Int : step = StepOf(packet)
  BY StepInt
<1>2. PICK raw \in Int : raw = RawAzimuth(packet, b)
  BY AzimuthField DEF RawAzimuth, UInt16
<1>3. i \in Int /\ NMeas \in Int
  BY DEF NMeas
<1>4. PICK product \in Int : product = step * i
  BY <1>3
<1>5. PICK x \in Int : x = NMeas * (raw + 100 * offset) + product
  BY <1>3 DEF NMeas
<1>6. x % FineTurn \in 0 .. FineTurn - 1
  BY FineTurnInt
<1> QED BY <1>1, <1>2, <1>4, <1>5, <1>6 DEF BeamAngle

\* A beam has an angle, a range and an intensity.
LEMMA BeamTyped ==
  ASSUME NEW packet \in MSOPPacket, NEW b \in 0 .. NBlocks - 1, NEW i \in 0 .. NMeas - 1,
         NEW offset \in Int
  PROVE  Beam(packet, b, i, offset) \in BeamType
<1>1. packet.data_blocks[b].measurements[i] \in MeasuringResult
  BY BlockFields
<1>2. /\ packet.data_blocks[b].measurements[i].rssi_strongest \in UInt8
      /\ packet.data_blocks[b].measurements[i].distance_strongest \in UInt16
  BY <1>1 DEF MeasuringResult
<1>3. RawDistance(packet, b, i) \in UInt16
  BY <1>2, SwapRange DEF RawDistance
<1>4. RawDistance(packet, b, i) \in 0 .. Infinite /\ Infinite \in 0 .. Infinite
  BY <1>3 DEF UInt16, Infinite
<1>5. 0 \in UInt8
  BY DEF UInt8
<1> QED BY <1>2, <1>4, <1>5, BeamAngleInTurn DEF Beam, BeamType

(***************************************************************************)
(* Every place of a scan holds a beam, in either mounting of the sensor:   *)
(* the index reversed for an inverted sensor stays inside the vector of    *)
(* 192 points.                                                             *)
(***************************************************************************)
THEOREM ScanTyped ==
  ASSUME NEW packet \in MSOPPacket, NEW offset \in Int, NEW inverted \in BOOLEAN
  PROVE  Scan(packet, offset, inverted) \in [Beams -> BeamType]
<1>1. ASSUME NEW idx \in Beams
      PROVE  Beam(packet, Place(idx, inverted) \div NMeas, Place(idx, inverted) % NMeas, offset)
               \in BeamType
  <2>1. PICK k \in Int : k = Place(idx, inverted)
    BY DEF Beams, Place, NBlocks, NMeas
  <2>2. 0 <= k /\ k <= 191
    BY <2>1 DEF Beams, Place, NBlocks, NMeas
  <2>3. k \div 16 \in 0 .. 11 /\ k % 16 \in 0 .. 15
    BY <2>2
  <2>4. k \div NMeas \in 0 .. NBlocks - 1 /\ k % NMeas \in 0 .. NMeas - 1
    BY <2>3 DEF NBlocks, NMeas
  <2> QED BY <2>1, <2>4, BeamTyped
<1> QED BY <1>1 DEF Scan

-----------------------------------------------------------------------------
(* The buffer.                                                             *)

Waiters == [age : Nat, datagram : Datagrams]

\* The sleep is an integer.
LEMMA SleepInt == SleepTicks \in Int /\ SleepTicks > 0
BY SleepTicksAssumption

\* What is zero is less than the age of a scan and the rest of a sleep.
LEMMA LaterThanNow ==
  ASSUME NEW age \in Int, age >= 0, NEW rest \in Int, NEW sleep \in Int, rest < sleep
  PROVE  0 < age + (sleep - rest)
OBVIOUS

\* One datagram more costs one sleep more.
LEMMA OneMoreSleep ==
  ASSUME NEW n \in Int
  PROVE  Sleeps(n) \in Int /\ Sleeps(n + 1) = Sleeps(n) + SleepTicks
BY SleepTicksAssumption DEF Sleeps

\* No wait is negative.
LEMMA SleepsNat ==
  ASSUME NEW n \in Nat
  PROVE  Sleeps(n) >= 0
BY SleepTicksAssumption DEF Sleeps

\* A tick later everything in the buffer is one tick older.
LEMMA AgedBuffer ==
  ASSUME buffer \in Seq(Waiters)
  PROVE  /\ Aged \in Seq(Waiters)
         /\ Len(Aged) = Len(buffer)
         /\ \A i \in 1 .. Len(buffer) : Aged[i].age = buffer[i].age + 1
<1>1. ASSUME NEW i \in 1 .. Len(buffer)
      PROVE  /\ [buffer[i] EXCEPT !.age = @ + 1] \in Waiters
             /\ [buffer[i] EXCEPT !.age = @ + 1].age = buffer[i].age + 1
  <2>1. buffer[i] \in Waiters
    OBVIOUS
  <2> QED BY <2>1 DEF Waiters
<1>2. Aged \in [1 .. Len(buffer) -> Waiters]
  BY <1>1 DEF Aged
<1>3. Len(buffer) \in Nat
  OBVIOUS
<1>4. Aged \in Seq(Waiters) /\ Len(Aged) = Len(buffer)
  BY <1>2, <1>3
<1> QED BY <1>1, <1>4 DEF Aged

\* Taking the first datagram moves the others one place forward.
LEMMA TailBuffer ==
  ASSUME buffer \in Seq(Waiters), buffer # << >>
  PROVE  /\ Tail(buffer) \in Seq(Waiters)
         /\ Len(Tail(buffer)) = Len(buffer) - 1
         /\ Len(buffer) \in Nat /\ Len(buffer) > 0
         /\ Head(buffer) = buffer[1] /\ Head(buffer) \in Waiters
         /\ \A i \in 1 .. Len(Tail(buffer)) : Tail(buffer)[i] = buffer[i + 1]
OBVIOUS

\* A packet that is long enough is one.
LEMMA HeadPacket ==
  ASSUME TypeOK, buffer # << >>
  PROVE  Head(buffer).datagram.packet \in MSOPPacket /\ Head(buffer).age \in Nat
<1>1. Head(buffer) \in Waiters
  BY TailBuffer DEF TypeOK, Waiters
<1> QED BY <1>1, DatagramsAssumption DEF Waiters, Datagram

-----------------------------------------------------------------------------
(* The invariant.                                                          *)

\* It holds before the socket is opened.
LEMMA InitIInv == Init => IInv
<1> SUFFICES ASSUME Init PROVE IInv
  OBVIOUS
<1>1. TypeOK
  BY SleepTicksAssumption, BufferSizeAssumption DEF Init, TypeOK
<1>2. Schedule /\ WaitBounded /\ OrderKept
  BY SleepTicksAssumption DEF Init, Schedule, WaitBounded, OrderKept
<1>3. AgeBounded
  <2>1. BufferSize * SleepTicks > 0
    BY SleepTicksAssumption, BufferSizeAssumption
  <2> QED BY <2>1 DEF Init, AgeBounded
<1> QED BY <1>1, <1>2, <1>3 DEF IInv

\* A step that leaves the buffer, the timer and the scan alone.
LEMMA QuietStep ==
  ASSUME IInv, UNCHANGED <<timer, buffer, scan, scan_age>>,
         phase' = phase \/ phase' = "dead" \/ (phase = "start" /\ phase' = "receive")
  PROVE  IInv'
<1>1. TypeOK'
  BY DEF IInv, TypeOK
<1>2. Schedule'
  BY DEF IInv, Schedule
<1>3. WaitBounded' /\ OrderKept'
  BY DEF IInv, WaitBounded, OrderKept, Asleep
<1>4. AgeBounded'
  BY DEF IInv, AgeBounded
<1> QED BY <1>1, <1>2, <1>3, <1>4 DEF IInv

\* When the first datagram is taken, each of the others is a sleep nearer.
LEMMA TakeStep ==
  ASSUME IInv, Waiting, buffer' = Tail(buffer), timer' \in {0, SleepTicks}
  PROVE  /\ WaitBounded'
         /\ \A i, j \in 1 .. Len(buffer') : i < j => buffer'[j].age < buffer'[i].age
         /\ \A i \in 1 .. Len(buffer') : buffer'[i].age < Head(buffer).age
         /\ buffer' \in Seq(Waiters) /\ Len(buffer') <= BufferSize
<1>1. /\ buffer \in Seq(Waiters) /\ buffer # << >> /\ timer = 0
      /\ Len(buffer) <= BufferSize
  BY DEF IInv, TypeOK, Waiting, Waiters, Schedule
<1>2. /\ buffer' \in Seq(Waiters) /\ Len(buffer') = Len(buffer) - 1
      /\ Len(buffer) \in Nat /\ Len(buffer) > 0 /\ Head(buffer) = buffer[1]
      /\ \A i \in 1 .. Len(buffer') : buffer'[i] = buffer[i + 1]
  BY <1>1, TailBuffer
<1>3. \A i \in 1 .. Len(buffer') : i + 1 \in 1 .. Len(buffer)
  BY <1>2
<1>4. \A i, j \in 1 .. Len(buffer') : i < j => buffer'[j].age < buffer'[i].age
  BY <1>2, <1>3 DEF IInv, OrderKept
<1>5. \A i \in 1 .. Len(buffer') : buffer'[i].age < Head(buffer).age
  <2>1. TAKE i \in 1 .. Len(buffer')
  <2>2. i + 1 \in 1 .. Len(buffer) /\ 1 \in 1 .. Len(buffer) /\ 1 < i + 1
    BY <1>2, <1>3
  <2> QED BY <1>2, <2>2 DEF IInv, OrderKept
<1>6. WaitBounded'
  <2>1. SUFFICES ASSUME NEW i \in 1 .. Len(buffer')
                 PROVE  buffer'[i].age < Sleeps(BufferSize - i) + (SleepTicks - timer')
    BY DEF WaitBounded, Asleep, Sleeps
  <2>2. buffer[i + 1].age < Sleeps(BufferSize - (i + 1)) + SleepTicks
    BY <1>1, <1>3, SleepTicksAssumption DEF IInv, WaitBounded, Asleep
  <2>3. PICK n \in Int : n = BufferSize - (i + 1)
    BY <1>2, BufferSizeAssumption
  <2>4. n + 1 = BufferSize - i
    BY <1>2, <2>3, BufferSizeAssumption
  <2>5. Sleeps(BufferSize - i) = Sleeps(n) + SleepTicks /\ Sleeps(n) \in Int
    BY <2>4, OneMoreSleep
  <2>6. buffer[i + 1] \in Waiters
    BY <1>1, <1>3
  <2>7. buffer[i + 1].age \in Nat
    BY <2>6 DEF Waiters
  <2>8. buffer[i + 1].age < Sleeps(BufferSize - i)
    BY <2>2, <2>3, <2>5
  <2> QED BY <1>2, <2>5, <2>7, <2>8, SleepTicksAssumption
<1>7. Len(buffer') <= BufferSize
  BY <1>1, <1>2, BufferSizeAssumption
<1> QED BY <1>2, <1>4, <1>5, <1>6, <1>7

\* A scan is read.
LEMMA ReadScanStep == IInv /\ readScan => IInv'
<1> SUFFICES ASSUME IInv, readScan PROVE IInv'
  OBVIOUS
<1>1. Waiting /\ buffer' = Tail(buffer) /\ timer' = SleepTicks /\ phase' = "sleep"
  BY DEF readScan
<1>2. scan' = Scan(Head(buffer).datagram.packet, AngleOffset, Inverted)
  BY DEF readScan
<1>3. scan_age' = Head(buffer).age
  BY DEF readScan
<1>4. buffer # << >> /\ TypeOK
  BY <1>1 DEF Waiting, IInv
<1>5. TypeOK'
  <2>1. scan' \in [Beams -> BeamType]
    BY <1>2, <1>4, HeadPacket, ScanTyped, AngleOffsetAssumption, InvertedAssumption
  <2>2. scan_age' \in Nat
    BY <1>3, <1>4, HeadPacket
  <2>3. buffer' \in Seq(Waiters) /\ Len(buffer') <= BufferSize
    BY <1>1, TakeStep
  <2>4. timer' \in 0 .. SleepTicks
    BY <1>1, SleepTicksAssumption
  <2> QED BY <1>1, <2>1, <2>2, <2>3, <2>4 DEF TypeOK, Waiters
<1>6. Schedule'
  BY <1>1, SleepTicksAssumption DEF Schedule
<1>7. WaitBounded'
  BY <1>1, TakeStep
<1>8. AgeBounded'
  <2>1. 1 \in 1 .. Len(buffer) /\ Head(buffer) = buffer[1]
    BY <1>4, TailBuffer DEF TypeOK, Waiters
  <2>2. timer = 0
    BY <1>1 DEF Waiting, IInv, Schedule
  <2>3. Head(buffer).age < Sleeps(BufferSize - 1) + SleepTicks
    BY <2>1, <2>2, SleepTicksAssumption DEF IInv, WaitBounded, Asleep
  <2>4. PICK n \in Int : n = BufferSize - 1
    BY BufferSizeAssumption
  <2>5. n + 1 = BufferSize
    BY <2>4, BufferSizeAssumption
  <2>6. Sleeps(BufferSize) = Sleeps(n) + SleepTicks
    BY <2>5, OneMoreSleep
  <2> QED BY <1>3, <2>3, <2>4, <2>6 DEF AgeBounded, Sleeps
<1>9. OrderKept'
  <2>1. \A i, j \in 1 .. Len(buffer') : i < j => buffer'[j].age < buffer'[i].age
    BY <1>1, TakeStep
  <2>2. \A i \in 1 .. Len(buffer') : buffer'[i].age < scan_age'
    BY <1>1, <1>3, TakeStep
  <2>3. scan_age' + (SleepTicks - timer') = scan_age'
    <3>1. scan_age' \in Int
      BY <1>3, <1>4, HeadPacket
    <3>2. timer' = SleepTicks
      BY <1>1
    <3>3. SleepTicks - timer' = 0
      BY <3>2, SleepInt
    <3> QED BY <3>1, <3>3
  <2> QED BY <2>1, <2>2, <2>3 DEF OrderKept, Asleep
<1> QED BY <1>5, <1>6, <1>7, <1>8, <1>9 DEF IInv

\* A short datagram ends the program; the scan before it stays.
LEMMA IncompletePacketStep == IInv /\ IncompletePacket => IInv'
<1> SUFFICES ASSUME IInv, IncompletePacket PROVE IInv'
  OBVIOUS
<1>1. Waiting /\ buffer' = Tail(buffer) /\ timer' = timer /\ phase' = "dead"
  BY DEF IncompletePacket
<1>2. scan' = scan /\ scan_age' = scan_age
  BY DEF IncompletePacket
<1>3. timer = 0 /\ timer' = 0
  BY <1>1 DEF IInv, Waiting, Schedule
<1>4. buffer # << >> /\ TypeOK
  BY <1>1 DEF Waiting, IInv
<1>5. /\ WaitBounded'
      /\ \A i, j \in 1 .. Len(buffer') : i < j => buffer'[j].age < buffer'[i].age
      /\ buffer' \in Seq(Waiters) /\ Len(buffer') <= BufferSize
  BY <1>1, <1>3, TakeStep
<1>6. TypeOK'
  BY <1>1, <1>2, <1>5 DEF IInv, TypeOK, Waiters
<1>7. Schedule'
  BY <1>1, <1>3, SleepTicksAssumption DEF Schedule
<1>8. AgeBounded'
  BY <1>2 DEF IInv, AgeBounded
<1>9. ASSUME scan # NoScan, NEW i \in 1 .. Len(buffer')
      PROVE  buffer'[i].age < scan_age + Asleep
  <2>1. /\ Len(buffer') = Len(buffer) - 1 /\ Len(buffer) \in Nat
        /\ buffer'[i] = buffer[i + 1]
    BY <1>1, <1>4, TailBuffer DEF TypeOK, Waiters
  <2>2. i + 1 \in 1 .. Len(buffer)
    BY <2>1
  <2> QED BY <1>9, <2>1, <2>2 DEF IInv, OrderKept
<1>10. OrderKept'
  BY <1>1, <1>2, <1>5, <1>9 DEF OrderKept, Asleep, NoScan
<1> QED BY <1>5, <1>6, <1>7, <1>8, <1>10 DEF IInv

\* What a tick does to the ages, and to the buffer's end.
LEMMA TickedBuffer ==
  ASSUME TypeOK, buffer' = Aged \/ \E d \in Datagrams : buffer' = Arrive(d)
  PROVE  /\ buffer' \in Seq(Waiters) /\ Len(buffer') <= BufferSize
         /\ Len(buffer) \in Nat /\ Len(buffer') \in {Len(buffer), Len(buffer) + 1}
         /\ \A i \in 1 .. Len(buffer) : buffer'[i].age = buffer[i].age + 1
         /\ Len(buffer') = Len(buffer) + 1 => buffer'[Len(buffer) + 1].age = 0
<1>1. /\ Aged \in Seq(Waiters)
      /\ Len(Aged) = Len(buffer)
      /\ \A i \in 1 .. Len(buffer) : Aged[i].age = buffer[i].age + 1
  BY AgedBuffer DEF TypeOK, Waiters
<1>2. Len(buffer) \in Nat /\ Len(buffer) <= BufferSize
  BY DEF TypeOK
<1>3. CASE buffer' = Aged
  BY <1>1, <1>2, <1>3
<1>4. ASSUME NEW d \in Datagrams, Len(buffer) < BufferSize,
             buffer' = Append(Aged, [age |-> 0, datagram |-> d])
      PROVE  /\ buffer' \in Seq(Waiters) /\ Len(buffer') = Len(buffer) + 1
             /\ \A i \in 1 .. Len(buffer) : buffer'[i] = Aged[i]
             /\ buffer'[Len(buffer) + 1].age = 0
  <2>1. [age |-> 0, datagram |-> d] \in Waiters
    BY DEF Waiters
  <2>2. buffer' \in Seq(Waiters) /\ Len(buffer') = Len(buffer) + 1
    BY <1>1, <1>2, <1>4, <2>1
  <2>3. \A i \in 1 .. Len(buffer) : buffer'[i] = Aged[i]
    BY <1>1, <1>2, <1>4
  <2>4. buffer'[Len(buffer) + 1] = [age |-> 0, datagram |-> d]
    BY <1>1, <1>2, <1>4
  <2> QED BY <2>2, <2>3, <2>4
<1>5. CASE \E d \in Datagrams : /\ Len(buffer) < BufferSize
                                /\ buffer' = Append(Aged, [age |-> 0, datagram |-> d])
  BY <1>1, <1>2, <1>4, <1>5, BufferSizeAssumption
<1> QED BY <1>3, <1>5 DEF Arrive

\* A tick of the clock, with or without a datagram.
LEMMA WaitStep ==
  ASSUME IInv, Wait, buffer' = Aged \/ \E d \in Datagrams : buffer' = Arrive(d)
  PROVE  IInv'
<1>1. /\ TypeOK /\ Schedule /\ scan' = scan /\ scan_age' = scan_age
      /\ timer \in Nat /\ timer <= SleepTicks
  BY DEF IInv, Wait, TypeOK
<1>2. /\ buffer' \in Seq(Waiters) /\ Len(buffer') <= BufferSize
      /\ Len(buffer) \in Nat /\ Len(buffer') \in {Len(buffer), Len(buffer) + 1}
      /\ \A i \in 1 .. Len(buffer) : buffer'[i].age = buffer[i].age + 1
      /\ Len(buffer') = Len(buffer) + 1 => buffer'[Len(buffer) + 1].age = 0
  BY <1>1, TickedBuffer
<1>3. \/ phase = "sleep" /\ timer > 0 /\ timer' = timer - 1
      \/ phase = "receive" /\ buffer = << >> /\ timer = 0 /\ timer' = 0
  BY <1>1 DEF Wait, Schedule
<1>4. timer' \in Nat /\ timer' < SleepTicks
  BY <1>1, <1>3, SleepTicksAssumption
<1>5. /\ phase' \in {"receive", "sleep"}
      /\ phase' = "sleep" => timer' > 0
      /\ phase' = "receive" => timer' = 0
  BY <1>1, <1>3 DEF Wait
<1>6. TypeOK'
  BY <1>1, <1>2, <1>4, <1>5, SleepTicksAssumption DEF TypeOK, Waiters
<1>7. Schedule'
  BY <1>4, <1>5, SleepTicksAssumption DEF Schedule
<1>8. AgeBounded'
  BY <1>1 DEF IInv, AgeBounded
<1>9. \A i \in 1 .. Len(buffer) : buffer[i].age \in Nat
  <2>1. buffer \in Seq(Waiters)
    BY <1>1 DEF TypeOK, Waiters
  <2>2. \A i \in 1 .. Len(buffer) : buffer[i] \in Waiters
    BY <2>1
  <2> QED BY <2>2 DEF Waiters
<1>10. ASSUME NEW i \in 1 .. Len(buffer')
       PROVE  \/ i \in 1 .. Len(buffer) /\ timer' = timer - 1
              \/ i = Len(buffer) + 1 /\ buffer'[i].age = 0
  BY <1>2, <1>3
<1>11. WaitBounded'
  <2>1. SUFFICES ASSUME NEW i \in 1 .. Len(buffer')
                 PROVE  buffer'[i].age < Sleeps(BufferSize - i) + (SleepTicks - timer')
    BY DEF WaitBounded, Asleep, Sleeps
  <2>2. BufferSize - i \in Nat
    BY <1>2, BufferSizeAssumption
  <2>3. Sleeps(BufferSize - i) \in Int
    BY <2>2, OneMoreSleep
  <2>4. CASE i \in 1 .. Len(buffer) /\ timer' = timer - 1
    <3>1. buffer[i].age < Sleeps(BufferSize - i) + (SleepTicks - timer)
      BY <2>4 DEF IInv, WaitBounded, Asleep
    <3>2. buffer'[i].age = buffer[i].age + 1 /\ buffer[i].age \in Nat
      BY <1>2, <1>9, <2>4
    <3> QED BY <1>1, <2>4, <2>3, <3>1, <3>2, SleepTicksAssumption
  <2>5. CASE buffer'[i].age = 0
    BY <1>4, <2>2, <2>5, <2>3, SleepsNat, SleepTicksAssumption
  <2> QED BY <1>10, <2>4, <2>5
<1>12. OrderKept'
  <2>1. ASSUME NEW i \in 1 .. Len(buffer'), NEW j \in 1 .. Len(buffer'), i < j
        PROVE  buffer'[j].age < buffer'[i].age
    <3>1. i \in 1 .. Len(buffer)
      BY <1>2, <2>1
    <3>2. buffer'[i].age = buffer[i].age + 1 /\ buffer[i].age \in Nat
      BY <1>2, <1>9, <3>1
    <3>3. CASE j \in 1 .. Len(buffer)
      <4>1. buffer[j].age < buffer[i].age /\ buffer'[j].age = buffer[j].age + 1
        BY <1>2, <2>1, <3>1, <3>3 DEF IInv, OrderKept
      <4>2. buffer[j].age \in Nat
        BY <1>9, <3>3
      <4> QED BY <3>2, <4>1, <4>2
    <3>4. CASE buffer'[j].age = 0
      BY <3>2, <3>4
    <3> QED BY <1>10, <3>3, <3>4
  <2>2. ASSUME scan # NoScan, NEW i \in 1 .. Len(buffer')
        PROVE  buffer'[i].age < scan_age + (SleepTicks - timer')
    <3>1. scan_age \in Int /\ scan_age >= 0
      BY <1>1 DEF TypeOK
    <3>2. CASE i \in 1 .. Len(buffer) /\ timer' = timer - 1
      <4>1. buffer[i].age < scan_age + (SleepTicks - timer)
        BY <2>2, <3>2 DEF IInv, OrderKept, Asleep
      <4>2. buffer'[i].age = buffer[i].age + 1 /\ buffer[i].age \in Nat
        BY <1>2, <1>9, <3>2
      <4> QED BY <1>1, <3>1, <3>2, <4>1, <4>2, SleepTicksAssumption
    <3>3. CASE buffer'[i].age = 0
      <4>1. timer' \in Int /\ timer' < SleepTicks
        BY <1>4
      <4> QED BY <3>1, <3>3, <4>1, SleepInt, LaterThanNow
    <3> QED BY <1>10, <3>2, <3>3
  <2> QED BY <1>1, <2>1, <2>2 DEF OrderKept, Asleep, NoScan
<1> QED BY <1>6, <1>7, <1>8, <1>11, <1>12 DEF IInv

\* Every step keeps the invariant.
LEMMA NextIInv == IInv /\ [Next]_vars => IInv'
<1> SUFFICES ASSUME IInv, [Next]_vars PROVE IInv'
  OBVIOUS
<1>1. CASE Construct
  BY <1>1, QuietStep DEF Construct
<1>2. CASE readScan
  BY <1>2, ReadScanStep
<1>3. CASE IncompletePacket
  BY <1>3, IncompletePacketStep
<1>4. CASE RecvError
  BY <1>4, QuietStep DEF RecvError
<1>5. CASE Silence
  BY <1>5, WaitStep DEF Silence
<1>6. ASSUME NEW d \in Datagrams, Arrival(d)
      PROVE  IInv'
  BY <1>6, WaitStep DEF Arrival
<1>7. CASE UNCHANGED vars
  BY <1>7, QuietStep DEF vars
<1> QED BY <1>1, <1>2, <1>3, <1>4, <1>5, <1>6, <1>7 DEF Next, Step, Dead

\* The invariant holds in every state the program reaches.
THEOREM Invariance == Spec => []IInv
BY InitIInv, NextIInv, PTL DEF Spec

(***************************************************************************)
(* Type correctness: the socket never holds more than its size, and every  *)
(* beam ever printed is at an angle of the turn.                           *)
(***************************************************************************)
THEOREM TypeCorrect == Spec => []TypeOK
<1>1. IInv => TypeOK
  BY DEF IInv
<1> QED BY <1>1, Invariance, PTL

(***************************************************************************)
(* However many datagrams the socket holds and however long main sleeps,   *)
(* no scan is older than a full socket takes to be emptied.                *)
(***************************************************************************)
THEOREM AgeCorrect == Spec => []AgeBounded
<1>1. IInv => AgeBounded
  BY DEF IInv
<1> QED BY <1>1, Invariance, PTL

(***************************************************************************)
(* Scans come out in the order of arrival, and none twice.                 *)
(***************************************************************************)
THEOREM OrderCorrect == Spec => []OrderKept
<1>1. IInv => OrderKept
  BY DEF IInv
<1> QED BY <1>1, Invariance, PTL

-----------------------------------------------------------------------------
(* The refinement of ScanStream.                                           *)

\* The datagrams of a buffer, in their order.
Contents(b) == [i \in 1 .. Len(b) |-> b[i].datagram]

LEMMA PendingContents ==
  /\ phase # "dead" => Pending = Contents(buffer)
  /\ phase = "dead" => Pending = << >>
  /\ phase' # "dead" => Pending' = Contents(buffer')
  /\ phase' = "dead" => Pending' = << >>
BY DEF Pending, Contents

\* They are a sequence.
LEMMA ContentsType ==
  ASSUME NEW b \in Seq(Waiters)
  PROVE  Contents(b) \in Seq(Datagrams) /\ Len(Contents(b)) = Len(b)
<1>1. ASSUME NEW i \in 1 .. Len(b)
      PROVE  b[i].datagram \in Datagrams
  <2>1. b[i] \in Waiters
    OBVIOUS
  <2> QED BY <2>1 DEF Waiters
<1>2. Contents(b) \in [1 .. Len(b) -> Datagrams]
  BY <1>1 DEF Contents
<1>3. Len(b) \in Nat
  OBVIOUS
<1> QED BY <1>2, <1>3

\* Reading moves all of them one place forward.
LEMMA ContentsTail ==
  ASSUME NEW b \in Seq(Waiters), b # << >>
  PROVE  /\ Contents(b) # << >>
         /\ Head(Contents(b)) = Head(b).datagram
         /\ Contents(Tail(b)) = Tail(Contents(b))
<1>1. Len(b) \in Nat /\ Len(b) > 0
  OBVIOUS
<1>2. Contents(b) \in Seq(Datagrams) /\ Len(Contents(b)) = Len(b)
  BY ContentsType
<1>3. Contents(b) # << >> /\ Head(Contents(b)) = Head(b).datagram
  BY <1>1, <1>2 DEF Contents
<1>4. /\ Tail(b) \in Seq(Waiters) /\ Len(Tail(b)) = Len(b) - 1
      /\ \A i \in 1 .. Len(b) - 1 : Tail(b)[i] = b[i + 1]
  BY <1>1
<1>5. /\ Contents(Tail(b)) \in Seq(Datagrams)
      /\ Len(Contents(Tail(b))) = Len(b) - 1
  BY <1>4, ContentsType
<1>6. /\ Tail(Contents(b)) \in Seq(Datagrams)
      /\ Len(Tail(Contents(b))) = Len(b) - 1
      /\ \A i \in 1 .. Len(b) - 1 : Tail(Contents(b))[i] = Contents(b)[i + 1]
  BY <1>1, <1>2
<1>7. ASSUME NEW i \in 1 .. Len(b) - 1
      PROVE  Contents(Tail(b))[i] = Tail(Contents(b))[i]
  <2>1. Contents(Tail(b))[i] = b[i + 1].datagram
    BY <1>4 DEF Contents
  <2>2. Contents(b)[i + 1] = b[i + 1].datagram
    BY <1>1 DEF Contents
  <2> QED BY <1>6, <2>1, <2>2
<1> QED BY <1>3, <1>5, <1>6, <1>7

\* A tick changes none of them, and adds at most the one that arrives.
LEMMA ContentsAged ==
  ASSUME TypeOK
  PROVE  /\ Contents(Aged) = Contents(buffer)
         /\ \A d \in Datagrams :
              Contents(Append(Aged, [age |-> 0, datagram |-> d])) =
                Append(Contents(buffer), d)
<1>1. buffer \in Seq(Waiters) /\ Len(buffer) \in Nat
  BY DEF TypeOK, Waiters
<1>2. Aged \in Seq(Waiters) /\ Len(Aged) = Len(buffer)
  BY <1>1, AgedBuffer
<1>3. ASSUME NEW i \in 1 .. Len(buffer)
      PROVE  Aged[i].datagram = buffer[i].datagram
  <2>1. buffer[i] \in Waiters
    BY <1>1
  <2>2. Aged[i] = [buffer[i] EXCEPT !.age = @ + 1]
    BY DEF Aged
  <2> QED BY <2>1, <2>2 DEF Waiters
<1>4. Contents(Aged) = Contents(buffer)
  BY <1>2, <1>3 DEF Contents
<1>5. ASSUME NEW d \in Datagrams
      PROVE  Contents(Append(Aged, [age |-> 0, datagram |-> d])) =
               Append(Contents(buffer), d)
  <2> DEFINE longer == Append(Aged, [age |-> 0, datagram |-> d])
             n == Len(buffer)
  <2>1. [age |-> 0, datagram |-> d] \in Waiters
    BY DEF Waiters
  <2>2. /\ longer \in Seq(Waiters) /\ Len(longer) = n + 1
        /\ \A i \in 1 .. n : longer[i] = Aged[i]
        /\ longer[n + 1] = [age |-> 0, datagram |-> d]
    BY <1>1, <1>2, <2>1
  <2>3. /\ Contents(longer) \in Seq(Datagrams) /\ Len(Contents(longer)) = n + 1
    BY <2>2, ContentsType
  <2>4. /\ Contents(buffer) \in Seq(Datagrams) /\ Len(Contents(buffer)) = n
    BY <1>1, ContentsType
  <2>5. /\ Append(Contents(buffer), d) \in Seq(Datagrams)
        /\ Len(Append(Contents(buffer), d)) = n + 1
        /\ \A i \in 1 .. n : Append(Contents(buffer), d)[i] = Contents(buffer)[i]
        /\ Append(Contents(buffer), d)[n + 1] = d
    BY <1>1, <2>4
  <2>6. ASSUME NEW i \in 1 .. n + 1
        PROVE  Contents(longer)[i] = Append(Contents(buffer), d)[i]
    <3>1. Contents(longer)[i] = longer[i].datagram
      BY <2>2 DEF Contents
    <3>2. CASE i = n + 1
      BY <2>2, <2>5, <3>1, <3>2
    <3>3. CASE i # n + 1
      <4>1. i \in 1 .. n
        BY <1>1, <3>3
      <4>2. Contents(buffer)[i] = buffer[i].datagram
        BY <4>1 DEF Contents
      <4> QED BY <1>3, <2>2, <2>5, <3>1, <4>1, <4>2
    <3> QED BY <3>2, <3>3
  <2> QED BY <2>3, <2>5, <2>6
<1> QED BY <1>4, <1>5

\* Each step of the program is a step of the stream, or none.
LEMMA StreamSimulation == IInv /\ [Next]_vars => [Stream!Next]_Stream!vars
<1> SUFFICES ASSUME IInv, [Next]_vars PROVE [Stream!Next]_Stream!vars
  OBVIOUS
<1> USE DEF Stream!Next, Stream!vars
<1>0. /\ TypeOK /\ Schedule
      /\ buffer \in Seq(Waiters) /\ Len(buffer) \in Nat
  BY DEF IInv, TypeOK, Waiters
<1> DEFINE Stops == phase # "dead" /\ phase' = "dead" /\ UNCHANGED scan
           Stutters == UNCHANGED <<Pending, scan, phase = "dead">>
<1>1. Stops => Stream!Stop
  BY PendingContents DEF Stream!Stop
<1>2. CASE Construct
  <2>1. CASE phase' = "receive"
    <3>1. Stutters
      BY <1>2, <2>1, PendingContents DEF Construct
    <3> QED BY <3>1
  <2>2. CASE phase' = "dead"
    BY <1>1, <1>2, <2>2 DEF Construct
  <2> QED BY <1>2, <2>1, <2>2 DEF Construct
<1>3. CASE readScan
  <2>1. /\ phase = "receive" /\ buffer # << >> /\ phase' = "sleep"
        /\ buffer' = Tail(buffer)
        /\ scan' = Scan(Head(buffer).datagram.packet, AngleOffset, Inverted)
    BY <1>3 DEF readScan, Waiting
  <2>2. Pending = Contents(buffer) /\ Pending' = Contents(Tail(buffer))
    BY <2>1, PendingContents
  <2>3. /\ Pending # << >> /\ Pending' = Tail(Pending)
        /\ Head(Pending) = Head(buffer).datagram
    BY <1>0, <2>1, <2>2, ContentsTail
  <2>4. Head(buffer).datagram \in {d \in Datagrams : d.size >= PacketSize}
    <3>1. Head(buffer).datagram \in Datagrams
      BY <1>0, <2>1, TailBuffer DEF Waiters
    <3> QED BY <1>3, <3>1 DEF readScan
  <2>5. Stream!Publish
    BY <2>1, <2>3, <2>4 DEF Stream!Publish
  <2> QED BY <2>5
<1>4. CASE IncompletePacket
  BY <1>1, <1>4 DEF IncompletePacket, Waiting
<1>5. CASE RecvError
  BY <1>1, <1>5 DEF RecvError
<1>6. ASSUME Wait
      PROVE  phase # "dead" /\ phase' # "dead" /\ UNCHANGED scan
  BY <1>6 DEF Wait
<1>7. ASSUME Wait, buffer' = Aged
      PROVE  Stutters
  <2>1. Pending' = Contents(Aged) /\ Pending = Contents(buffer)
    BY <1>6, <1>7, PendingContents
  <2> QED BY <1>0, <1>6, <1>7, <2>1, ContentsAged
<1>8. CASE Silence
  BY <1>7, <1>8 DEF Silence
<1>9. ASSUME NEW d \in Datagrams, Arrival(d)
      PROVE  [Stream!Next]_Stream!vars
  <2>1. CASE Len(buffer) < BufferSize
    <3>1. Wait /\ buffer' = Append(Aged, [age |-> 0, datagram |-> d])
      BY <1>9, <2>1 DEF Arrival, Arrive
    <3>2. Pending = Contents(buffer) /\ Pending' = Append(Contents(buffer), d)
      BY <1>0, <1>6, <3>1, PendingContents, ContentsAged
    <3>3. Len(Pending) < BufferSize
      BY <1>0, <2>1, <3>2, ContentsType
    <3>4. Stream!Hear
      BY <1>6, <3>1, <3>2, <3>3 DEF Stream!Hear
    <3> QED BY <3>4
  <2>2. CASE ~(Len(buffer) < BufferSize)
    BY <1>7, <1>9, <2>2 DEF Arrival, Arrive
  <2> QED BY <2>1, <2>2
<1>10. CASE Dead \/ UNCHANGED vars
  <2>1. phase' = phase /\ buffer' = buffer /\ scan' = scan
    BY <1>10 DEF Dead, vars
  <2>2. Stutters
    BY <2>1, PendingContents
  <2> QED BY <2>2
<1> QED BY <1>2, <1>3, <1>4, <1>5, <1>8, <1>9, <1>10 DEF Next, Step

(***************************************************************************)
(* Refinement: every behaviour of the SLAM reader is one of ScanStream,    *)
(* for every set of datagrams, socket, sleep, offset and mounting.         *)
(***************************************************************************)
THEOREM StreamCorrect == Spec => StreamsScans
<1>1. Init => Stream!Init
  BY DEF Init, Stream!Init, Pending
<1>2. IInv /\ [Next]_vars => [Stream!Next]_Stream!vars
  BY StreamSimulation
<1> QED BY <1>1, <1>2, Invariance, PTL DEF Spec, StreamsScans, Stream!Spec

=============================================================================
