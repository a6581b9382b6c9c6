-------------------------- MODULE Agreement_proofs --------------------------
(***************************************************************************)
(* The agreement of the readers of the format, for every set of datagrams. *)
(*                                                                         *)
(* The invariant says where the points and the rest of the information     *)
(* come from, whatever was parsed before; each agreement is then one       *)
(* between the operators, for every packet.                                *)
(***************************************************************************)
EXTENDS Agreement, Operators_proofs

-----------------------------------------------------------------------------
(* Flags and places.                                                       *)

\* Of a valid block one parser reads the flag as the host loads it, and the
\* other swaps it first; 0xFFFF reads the same either way.
LEMMA FlagsAgree ==
  ASSUME NEW v \in UInt16
  PROVE  /\ be16ToHost(v) = 65518 <=> v = 61183
         /\ be16ToHost(v) = 65535 <=> v = 65535
<1>1. be16ToHost(61183) = 65518 /\ be16ToHost(65518) = 61183 /\ be16ToHost(65535) = 65535
  BY DEF be16ToHost
<1>2. be16ToHost(be16ToHost(v)) = v
  BY SwapRange
<1> QED BY <1>1, <1>2

\* Which blocks the two parsers use.
LEMMA BlocksAgree ==
  ASSUME NEW packet \in MSOPPacket, NEW b \in 0 .. NBlocks - 1
  PROVE  /\ isValidBlock(packet.data_blocks[b]) <=> be16ToHost(packet.data_blocks[b].flag) = 65518
         /\ isValidDataBlock(packet.data_blocks[b]) <=>
              isValidBlock(packet.data_blocks[b]) /\ getAzimuth(packet, b) # 65535
<1>1. packet.data_blocks[b].flag \in UInt16
  BY BlockFields
<1>2. isValidBlock(packet.data_blocks[b]) <=> be16ToHost(packet.data_blocks[b].flag) = 65518
  BY <1>1, FlagsAgree DEF isValidBlock
<1> QED BY <1>2 DEF isValidDataBlock, getAzimuth

\* Block, measurement and return are found again in a slot.
LEMMA SlotParts ==
  ASSUME NEW b \in 0 .. NBlocks - 1, NEW m \in 0 .. NMeas - 1, NEW r \in 0 .. 1
  PROVE  /\ Slot(b, m, r) \div 2 = b * NMeas + m
         /\ (Slot(b, m, r) \div 2) % NMeas = m
         /\ Slot(b, m, r) \div (2 * NMeas) = b
         /\ Slot(b, m, r) < Slot(1, 0, 0) => b = 0
<1>1. /\ b \in Int /\ 0 <= b /\ m \in Int /\ 0 <= m /\ m <= 15
      /\ r \in Int /\ 0 <= r /\ r <= 1
  BY DEF NBlocks, NMeas
<1>2. PICK k \in Int : k = b * 16 + m
  BY <1>1
<1>3. PICK s \in Int : s = k * 2 + r
  BY <1>1, <1>2
<1>4. Slot(b, m, r) = s /\ NMeas = 16 /\ Slot(1, 0, 0) = 32
  BY <1>1, <1>2, <1>3 DEF Slot, NMeas
<1>5. s \div 2 = k /\ k % 16 = m /\ s \div 32 = b /\ (s < 32 => b = 0)
  BY <1>1, <1>2, <1>3
<1> QED BY <1>1, <1>2, <1>4, <1>5

\* What one parser pushes.
LEMMA ParsedIs ==
  ASSUME NEW packet, NEW p
  PROVE  p \in ParsedPoints(packet) <=>
           \E b \in 0 .. NBlocks - 1, m \in 0 .. NMeas - 1 :
             /\ isValidDataBlock(packet.data_blocks[b])
             /\ \/ StrongestReported(packet, b, m) /\ p = StrongestPoint(packet, b, m)
                \/ LastReported(packet, b, m) /\ p = LastPoint(packet, b, m)
<1>1. ASSUME NEW b \in 0 .. NBlocks - 1, NEW m \in 0 .. NMeas - 1,
             isValidDataBlock(packet.data_blocks[b])
      PROVE  <<b, m>> \in Readings(packet) /\ <<b, m>>[1] = b /\ <<b, m>>[2] = m
  BY <1>1 DEF Readings
<1>2. \A x \in Readings(packet) :
        /\ x[1] \in 0 .. NBlocks - 1 /\ x[2] \in 0 .. NMeas - 1
        /\ isValidDataBlock(packet.data_blocks[x[1]])
  BY DEF Readings
<1>3. ASSUME p \in ParsedPoints(packet)
      PROVE  \E x \in Readings(packet) :
               \/ StrongestReported(packet, x[1], x[2]) /\ p = StrongestPoint(packet, x[1], x[2])
               \/ LastReported(packet, x[1], x[2]) /\ p = LastPoint(packet, x[1], x[2])
  BY <1>3 DEF ParsedPoints
<1>4. ASSUME NEW x \in Readings(packet),
               \/ StrongestReported(packet, x[1], x[2]) /\ p = StrongestPoint(packet, x[1], x[2])
               \/ LastReported(packet, x[1], x[2]) /\ p = LastPoint(packet, x[1], x[2])
      PROVE  p \in ParsedPoints(packet)
  BY <1>4 DEF ParsedPoints
<1>5. ASSUME NEW b \in 0 .. NBlocks - 1, NEW m \in 0 .. NMeas - 1,
             isValidDataBlock(packet.data_blocks[b]),
             \/ StrongestReported(packet, b, m) /\ p = StrongestPoint(packet, b, m)
             \/ LastReported(packet, b, m) /\ p = LastPoint(packet, b, m)
      PROVE  p \in ParsedPoints(packet)
  <2>1. PICK x \in Readings(packet) : x[1] = b /\ x[2] = m
    BY <1>1, <1>5
  <2> QED BY <1>4, <1>5, <2>1
<1> QED BY <1>2, <1>3, <1>5

\* What the other one pushes.
LEMMA SlamIs ==
  ASSUME NEW packet, NEW p
  PROVE  p \in SlamPoints(packet) <=>
           \E b \in 0 .. NBlocks - 1, m \in 0 .. NMeas - 1 :
             /\ isValidBlock(packet.data_blocks[b])
             /\ \/ SlamStrongestReported(packet, b, m) /\ p = SlamStrongestPoint(packet, b, m)
                \/ SlamLastReported(packet, b, m) /\ p = SlamLastPoint(packet, b, m)
<1>1. ASSUME NEW b \in 0 .. NBlocks - 1, NEW m \in 0 .. NMeas - 1,
             isValidBlock(packet.data_blocks[b])
      PROVE  <<b, m>> \in SlamReadings(packet) /\ <<b, m>>[1] = b /\ <<b, m>>[2] = m
  BY <1>1 DEF SlamReadings
<1>2. \A x \in SlamReadings(packet) :
        /\ x[1] \in 0 .. NBlocks - 1 /\ x[2] \in 0 .. NMeas - 1
        /\ isValidBlock(packet.data_blocks[x[1]])
  BY DEF SlamReadings
<1>3. ASSUME p \in SlamPoints(packet)
      PROVE  \E x \in SlamReadings(packet) :
               \/ SlamStrongestReported(packet, x[1], x[2]) /\ p = SlamStrongestPoint(packet, x[1], x[2])
               \/ SlamLastReported(packet, x[1], x[2]) /\ p = SlamLastPoint(packet, x[1], x[2])
  BY <1>3 DEF SlamPoints
<1>4. ASSUME NEW x \in SlamReadings(packet),
               \/ SlamStrongestReported(packet, x[1], x[2]) /\ p = SlamStrongestPoint(packet, x[1], x[2])
               \/ SlamLastReported(packet, x[1], x[2]) /\ p = SlamLastPoint(packet, x[1], x[2])
      PROVE  p \in SlamPoints(packet)
  BY <1>4 DEF SlamPoints
<1>5. ASSUME NEW b \in 0 .. NBlocks - 1, NEW m \in 0 .. NMeas - 1,
             isValidBlock(packet.data_blocks[b]),
             \/ SlamStrongestReported(packet, b, m) /\ p = SlamStrongestPoint(packet, b, m)
             \/ SlamLastReported(packet, b, m) /\ p = SlamLastPoint(packet, b, m)
      PROVE  p \in SlamPoints(packet)
  <2>1. PICK x \in SlamReadings(packet) : x[1] = b /\ x[2] = m
    BY <1>1, <1>5
  <2> QED BY <1>4, <1>5, <2>1
<1> QED BY <1>2, <1>3, <1>5

-----------------------------------------------------------------------------
(* Which echoes are reported.                                              *)

\* The sensor's range holds neither mark for no return.
LEMMA RangeMarks ==
  ASSUME NEW d \in Distance
  PROVE  d \in Int /\ d # 0 /\ d # 65535 /\ d > 0 /\ isValidDistance(d)
<1>1. d \in Int /\ MinDistance <= d /\ d <= MaxDistance
  BY DEF Distance, MinDistance, MaxDistance
<1>2. MinDistance > 0 /\ MaxDistance < 65535 /\ MinDistance \in Int /\ MaxDistance \in Int
  BY DEF MinDistance, MaxDistance
<1> QED BY <1>1, <1>2 DEF isValidDistance

\* The angle of a point passes the test of the parser, always.
LEMMA AnglePasses ==
  ASSUME NEW packet \in MSOPPacket, NEW b \in 0 .. NBlocks - 1, NEW m \in 0 .. NMeas - 1
  PROVE  isValidAzimuth(PointAzimuth(packet, b, m))
<1>1. PointAzimuth(packet, b, m) \in Azimuth
  BY PointAzimuthType
<1> QED BY <1>1, TurnInt DEF Azimuth, isValidAzimuth

\* A return is plausible when its distance is within the range.
LEMMA PlausibleIs ==
  ASSUME NEW packet \in MSOPPacket, NEW b \in 0 .. NBlocks - 1, NEW m \in 0 .. NMeas - 1,
         NEW d \in UInt16
  PROVE  Plausible(packet, b, m, d) <=> d \in Distance
BY AnglePasses, RangeMarks, InRange DEF Plausible

\* Distances, in the two parsers: the second turns both marks into 0.
LEMMA DistancesAgree ==
  ASSUME NEW packet \in MSOPPacket, NEW b \in 0 .. NBlocks - 1, NEW m \in 0 .. NMeas - 1
  PROVE  /\ StrongestDistance(packet, b, m) \in UInt16 /\ LastDistance(packet, b, m) \in UInt16
         /\ Strongest(packet, b, m) =
              IF StrongestDistance(packet, b, m) = 65535 THEN 0 ELSE StrongestDistance(packet, b, m)
         /\ Last(packet, b, m) =
              IF LastDistance(packet, b, m) = 65535 THEN 0 ELSE LastDistance(packet, b, m)
         /\ Strongest(packet, b, m) \in UInt16 \ {65535} /\ Last(packet, b, m) \in UInt16 \ {65535}
<1>1. StrongestDistance(packet, b, m) \in UInt16 /\ LastDistance(packet, b, m) \in UInt16
  BY DistanceFields
<1>2. /\ Strongest(packet, b, m) =
           IF StrongestDistance(packet, b, m) = 65535 THEN 0 ELSE StrongestDistance(packet, b, m)
      /\ Last(packet, b, m) =
           IF LastDistance(packet, b, m) = 65535 THEN 0 ELSE LastDistance(packet, b, m)
  BY DEF Strongest, Last, getDistance, StrongestDistance, LastDistance
<1>3. 0 \in UInt16
  BY DEF UInt16
<1> QED BY <1>1, <1>2, <1>3

\* Within the range of the sensor the two parsers report the same returns.
LEMMA ReturnsAgree ==
  ASSUME NEW packet \in MSOPPacket, NEW b \in 0 .. NBlocks - 1, NEW m \in 0 .. NMeas - 1
  PROVE  /\ StrongestReported(packet, b, m) <=>
              SlamStrongestReported(packet, b, m) /\ Strongest(packet, b, m) \in Distance
         /\ StrongestReported(packet, b, m) => Strongest(packet, b, m) = StrongestDistance(packet, b, m)
         /\ LastReported(packet, b, m) <=>
              SlamLastReported(packet, b, m) /\ Last(packet, b, m) \in Distance
         /\ LastReported(packet, b, m) => Last(packet, b, m) = LastDistance(packet, b, m)
<1>1. /\ StrongestReported(packet, b, m) <=> StrongestDistance(packet, b, m) \in Distance
      /\ LastReported(packet, b, m) <=>
           /\ LastDistance(packet, b, m) \in Distance
           /\ LastDistance(packet, b, m) # StrongestDistance(packet, b, m)
  BY DistancesAgree, PlausibleIs DEF StrongestReported, LastReported
<1>2. 0 \notin Distance /\ 65535 \notin Distance
  BY RangeMarks
<1>3. \A d \in Distance : d > 0
  BY RangeMarks
<1> QED BY <1>1, <1>2, <1>3, DistancesAgree DEF SlamStrongestReported, SlamLastReported

-----------------------------------------------------------------------------
(* At which angle.                                                         *)

\* The turn in sixteenths is a positive integer.
LEMMA FineTurnIs == FineTurn \in Int /\ FineTurn > 0 /\ FineTurn = 16 * FullTurn /\ NMeas = 16
<1>1. NMeas \in Int /\ NMeas = 16
  BY DEF NMeas
<1> QED BY <1>1, TurnInt DEF FineTurn

\* The way round between two azimuths is one of three numbers: the
\* difference where it is half a turn or less, otherwise a turn off.
LEMMA WayRound ==
  ASSUME NEW d \in Int
  PROVE  /\ Wraparound(d) \in Int
         /\ 0 <= d /\ 2 * d <= FullTurn => Wraparound(d) = d
         /\ 2 * d < -FullTurn => Wraparound(d) = d + FullTurn
<1>1. PICK h \in Int : h = FullTurn \div 2
  BY TurnInt
<1>2. FullTurn = 2 * h /\ h > 0
  BY <1>1, Turn
<1>3. Wraparound(d) = CASE d < -h -> d + FullTurn [] d > h -> d - FullTurn [] OTHER -> d
  BY <1>1 DEF Wraparound
<1>4. CASE d < -h
  <2>1. Wraparound(d) = d + FullTurn
    BY <1>2, <1>3, <1>4
  <2> QED BY <1>2, <1>4, <2>1
<1>5. CASE d > h
  <2>1. ~(d < -h)
    BY <1>2, <1>5
  <2>2. Wraparound(d) = d - FullTurn
    BY <1>3, <1>5, <2>1
  <2> QED BY <1>2, <1>5, <2>1, <2>2
<1>6. CASE ~(d < -h) /\ ~(d > h)
  <2>1. Wraparound(d) = d
    BY <1>3, <1>6
  <2> QED BY <1>2, <1>6, <2>1
<1> QED BY <1>4, <1>5, <1>6

\* A step below half a turn is found again between two reduced azimuths.
LEMMA StepFound ==
  ASSUME NEW a \in Int, 0 <= a, a < FullTurn, NEW s \in Int, 0 <= s, 2 * s <= FullTurn,
         2 * s < FullTurn \/ a + s < FullTurn,
         NEW n \in Int, n = (a + s) % FullTurn
  PROVE  /\ Wraparound(n - a) = s
         /\ n = a + s \/ n < a
<1>1. FullTurn \in Int /\ FullTurn > 0
  BY TurnInt
<1>2. CASE a + s < FullTurn
  <2>1. n = a + s
    BY <1>1, <1>2
  <2> QED BY <2>1, WayRound
<1>3. CASE ~(a + s < FullTurn)
  <2>1. n = a + s - FullTurn
    <3>1. PICK t \in Int : t = a + s - FullTurn
      BY <1>1
    <3>2. 0 <= t /\ t < FullTurn /\ a + s = t + FullTurn
      BY <1>1, <1>3, <3>1
    <3>3. (t + FullTurn) % FullTurn = t
      BY <1>1, <3>2
    <3> QED BY <3>1, <3>2, <3>3
  <2>2. 2 * s < FullTurn
    BY <1>3
  <2>3. n - a \in Int /\ 2 * (n - a) < -FullTurn /\ n < a /\ (n - a) + FullTurn = s
    BY <1>1, <2>1, <2>2
  <2> QED BY <2>3, WayRound
<1> QED BY <1>2, <1>3

\* The azimuth interpolated towards is an integer, the angle of a point one
\* of the turn.
LEMMA SlamAzimuthType ==
  ASSUME NEW packet \in MSOPPacket, NEW b \in 0 .. NBlocks - 1, NEW m \in 0 .. NMeas - 1
  PROVE  SlamAzimuth(packet, b, m) \in FineAzimuth
<1>1. \A c \in 0 .. NBlocks - 1 : getAzimuth(packet, c) \in UInt16 /\ getAzimuth(packet, c) \in Int
  BY AzimuthField DEF getAzimuth, UInt16
<1>2. b \in 0 .. NBlocks - 1 /\ (b < NBlocks - 1 => b + 1 \in 0 .. NBlocks - 1)
      /\ (b = NBlocks - 1 => b - 1 \in 0 .. NBlocks - 1)
  BY DEF NBlocks
<1>3. nextAzimuth(packet, b) \in Int
  <2>1. b = NBlocks - 1 => Wraparound(getAzimuth(packet, b) - getAzimuth(packet, b - 1)) \in Int
    BY <1>1, <1>2, WayRound
  <2>2. \/ nextAzimuth(packet, b) = getAzimuth(packet, b)
        \/ b < NBlocks - 1 /\ nextAzimuth(packet, b) = getAzimuth(packet, b + 1)
        \/ /\ b = NBlocks - 1
           /\ nextAzimuth(packet, b) = getAzimuth(packet, b)
                + Wraparound(getAzimuth(packet, b) - getAzimuth(packet, b - 1))
    BY DEF nextAzimuth
  <2> QED BY <1>1, <1>2, <2>1, <2>2
<1>4. PICK w \in Int : w = Wraparound(nextAzimuth(packet, b) - getAzimuth(packet, b))
  BY <1>1, <1>3, WayRound
<1>5. PICK y \in Int : y = w * m
  BY DEF NMeas
<1>6. PICK x \in Int : x = NMeas * getAzimuth(packet, b) + y
  BY <1>1 DEF NMeas
<1>7. x % FineTurn \in 0 .. FineTurn - 1
  BY FineTurnIs
<1> QED BY <1>4, <1>5, <1>6, <1>7 DEF SlamAzimuth, calculatePointAzimuth, FineAzimuth

\* Sixteen times an angle, reduced to a turn in sixteenths.
LEMMA ScaledAngle ==
  ASSUME NEW x \in Int, 0 <= x, x < 2 * FullTurn
  PROVE  (16 * x) % FineTurn = 16 * (x % FullTurn)
<1>1. FullTurn \in Int /\ FullTurn > 0 /\ FineTurn \in Int /\ FineTurn = 16 * FullTurn
  BY FineTurnIs, TurnInt
<1>2. CASE x < FullTurn
  <2>1. x % FullTurn = x
    BY <1>1, <1>2
  <2>2. PICK y \in Int : y = 16 * x
    OBVIOUS
  <2>3. 0 <= y /\ y < FineTurn
    BY <1>1, <1>2, <2>2
  <2>4. y % FineTurn = y
    BY <1>1, <2>3
  <2> QED BY <2>1, <2>2, <2>4
<1>3. CASE ~(x < FullTurn)
  <2>1. PICK t \in Int : t = x - FullTurn
    BY <1>1
  <2>2. 0 <= t /\ t < FullTurn /\ x = t + FullTurn
    BY <1>1, <1>3, <2>1
  <2>3. x % FullTurn = t
    BY <1>1, <2>2
  <2>4. PICK y \in Int : y = 16 * t
    OBVIOUS
  <2>5. 0 <= y /\ y < FineTurn /\ 16 * x = y + FineTurn
    BY <1>1, <2>2, <2>4
  <2>6. (y + FineTurn) % FineTurn = y
    BY <1>1, <2>5
  <2> QED BY <2>3, <2>4, <2>5, <2>6
<1> QED BY <1>2, <1>3

\* Between blocks one step apart, and behind the last of them, the way
\* interpolated over is the step.
LEMMA SlamTowards ==
  ASSUME NEW packet \in MSOPPacket, NEW b \in 0 .. NBlocks - 1,
         NEW step \in Int, 0 <= step, 2 * step < FullTurn,
         getAzimuth(packet, b) < FullTurn,
         b < NBlocks - 1 => /\ isValidBlock(packet.data_blocks[b + 1])
                            /\ getAzimuth(packet, b + 1) = (getAzimuth(packet, b) + step) % FullTurn,
         b = NBlocks - 1 => /\ isValidBlock(packet.data_blocks[b - 1])
                            /\ getAzimuth(packet, b - 1) < FullTurn
                            /\ getAzimuth(packet, b) = (getAzimuth(packet, b - 1) + step) % FullTurn
  PROVE  Wraparound(nextAzimuth(packet, b) - getAzimuth(packet, b)) = step
<1>0. 2 * step <= FullTurn
  BY TurnInt
<1>1. \A c \in 0 .. NBlocks - 1 : getAzimuth(packet, c) \in Int /\ 0 <= getAzimuth(packet, c)
  BY AzimuthField DEF getAzimuth, UInt16
<1>2. CASE b < NBlocks - 1
  <2>1. b + 1 \in 0 .. NBlocks - 1 /\ b # NBlocks - 1
    BY <1>2 DEF NBlocks
  <2>2. nextAzimuth(packet, b) = getAzimuth(packet, b + 1)
    BY <1>2, <2>1 DEF nextAzimuth
  <2>3. PICK a \in Int, n \in Int :
          /\ a = getAzimuth(packet, b) /\ n = getAzimuth(packet, b + 1)
          /\ 0 <= a /\ a < FullTurn /\ n = (a + step) % FullTurn
    BY <1>1, <1>2, <2>1
  <2>4. Wraparound(n - a) = step
    BY <1>0, <2>3, StepFound
  <2> QED BY <2>2, <2>3, <2>4
<1>3. CASE b = NBlocks - 1
  <2>1. b - 1 \in 0 .. NBlocks - 1 /\ ~(b < NBlocks - 1)
    BY <1>3 DEF NBlocks
  <2>2. nextAzimuth(packet, b) = getAzimuth(packet, b)
          + Wraparound(getAzimuth(packet, b) - getAzimuth(packet, b - 1))
    BY <1>3, <2>1 DEF nextAzimuth
  <2>3. Wraparound(getAzimuth(packet, b) - getAzimuth(packet, b - 1)) = step
    <3>1. PICK a \in Int, n \in Int :
            /\ a = getAzimuth(packet, b - 1) /\ n = getAzimuth(packet, b)
            /\ 0 <= a /\ a < FullTurn /\ n = (a + step) % FullTurn
      BY <1>1, <1>3, <2>1
    <3>2. Wraparound(n - a) = step
      BY <1>0, <3>1, StepFound
    <3> QED BY <3>1, <3>2
  <2>4. Wraparound(step) = step
    BY <1>0, WayRound
  <2>5. (getAzimuth(packet, b) + step) - getAzimuth(packet, b) = step
    BY <1>1
  <2> QED BY <2>2, <2>3, <2>4, <2>5
<1>4. b < NBlocks - 1 \/ b = NBlocks - 1
  BY DEF NBlocks
<1> QED BY <1>2, <1>3, <1>4

\* The other parser, at the sensor's own resolution.
LEMMA ParserNominal ==
  ASSUME NEW packet \in MSOPPacket, NEW b \in 0 .. NBlocks - 1, NEW m \in 0 .. NMeas - 1,
         getAzimuth(packet, b) < FullTurn,
         b < NBlocks - 1 => /\ isValidBlock(packet.data_blocks[b + 1])
                            /\ getAzimuth(packet, b + 1) = (getAzimuth(packet, b) + 25 * NMeas) % FullTurn
  PROVE  PointAzimuth(packet, b, m) = (getAzimuth(packet, b) + 25 * m) % FullTurn
<1> DEFINE a == getAzimuth(packet, b)
           n == NextAzimuth(packet, b)
<1>1. a \in Int /\ 0 <= a /\ a < FullTurn /\ a = be16ToHost(packet.data_blocks[b].azimuth)
  BY AzimuthField DEF getAzimuth, UInt16
<1>2. Resolution(a, n) = 25
  <2>1. CASE n = a
    BY <1>1, <2>1 DEF Resolution
  <2>2. CASE n # a
    <3>1. /\ b < NBlocks - 1 /\ b + 1 \in 0 .. NBlocks - 1
          /\ n = be16ToHost(packet.data_blocks[b + 1].azimuth)
      BY <1>1, <2>2 DEF NextAzimuth, NBlocks
    <3>2. n = (a + 400) % FullTurn /\ n \in Int
      BY <1>1, <3>1, TurnInt DEF getAzimuth, NMeas
    <3>3. n = a + 400 \/ n < a
      <4>1. 2 * 400 < FullTurn /\ 2 * 400 <= FullTurn /\ 400 \in Int /\ 0 <= 400
        BY Turn
      <4> HIDE DEF a, n
      <4> QED BY <1>1, <3>2, <4>1, StepFound
    <3> HIDE DEF a, n
    <3> QED BY <1>1, <3>2, <3>3 DEF Resolution, NMeas
  <2> QED BY <2>1, <2>2
<1>3. m \in Int /\ 0 <= m /\ m <= 15
  BY DEF NMeas
<1>4. PICK x \in Int : x = a + 25 * m
  BY <1>1, <1>3
<1>5. 0 <= x /\ x < 2^16
  BY <1>1, <1>3, <1>4, Turn
<1>6. x % 2^16 = x
  BY <1>5
<1>7. PointAzimuth(packet, b, m) = calculateAzimuth(a, n, m)
  BY <1>1 DEF PointAzimuth
<1>8. calculateAzimuth(a, n, m) = (x % 2^16) % FullTurn
  BY <1>2, <1>4 DEF calculateAzimuth
<1> QED BY <1>4, <1>6, <1>7, <1>8

(***************************************************************************)
(* The two parsers give the same angle at the sensor's own resolution.     *)
(***************************************************************************)
LEMMA NominalAnglesAgree ==
  ASSUME NEW packet \in MSOPPacket, NEW b \in 0 .. NBlocks - 1, NEW m \in 0 .. NMeas - 1,
         getAzimuth(packet, b) < FullTurn,
         b < NBlocks - 1 => /\ isValidBlock(packet.data_blocks[b + 1])
                            /\ getAzimuth(packet, b + 1) = (getAzimuth(packet, b) + 25 * NMeas) % FullTurn,
         b = NBlocks - 1 => /\ isValidBlock(packet.data_blocks[b - 1])
                            /\ getAzimuth(packet, b - 1) < FullTurn
                            /\ getAzimuth(packet, b) = (getAzimuth(packet, b - 1) + 25 * NMeas) % FullTurn
  PROVE  SlamAzimuth(packet, b, m) = NMeas * PointAzimuth(packet, b, m)
<1>1. 25 * NMeas \in Int /\ 25 * NMeas = 400 /\ 0 <= 25 * NMeas /\ 2 * (25 * NMeas) < FullTurn
  BY Turn DEF NMeas
<1>2. Wraparound(nextAzimuth(packet, b) - getAzimuth(packet, b)) = 25 * NMeas
  BY <1>1, SlamTowards
<1>3. PICK a \in Int : a = getAzimuth(packet, b) /\ 0 <= a /\ a < FullTurn
  BY AzimuthField DEF getAzimuth, UInt16
<1>4. m \in Int /\ 0 <= m /\ m <= 15
  BY DEF NMeas
<1>5. PICK x \in Int : x = a + 25 * m
  BY <1>4
<1>6. 0 <= x /\ x < 2 * FullTurn /\ 16 * a + 400 * m = 16 * x
  BY <1>3, <1>4, <1>5, Turn
<1>7. SlamAzimuth(packet, b, m) = (16 * a + 400 * m) % FineTurn
  <2>1. NMeas = 16
    BY DEF NMeas
  <2> QED BY <1>1, <1>2, <1>3, <2>1 DEF SlamAzimuth, calculatePointAzimuth
<1>8. PointAzimuth(packet, b, m) = x % FullTurn
  BY <1>3, <1>5, ParserNominal
<1>9. (16 * x) % FineTurn = 16 * (x % FullTurn)
  BY <1>6, ScaledAngle
<1>10. NMeas = 16
  BY DEF NMeas
<1> QED BY <1>6, <1>7, <1>8, <1>9, <1>10

(***************************************************************************)
(* At any other resolution the step of reader2.0 is rounded down, by less  *)
(* than one hundredth of a degree for each measurement.                    *)
(***************************************************************************)
LEMMA AnglesLag ==
  ASSUME NEW packet \in MSOPPacket, NEW b \in 0 .. NBlocks - 1, NEW m \in 0 .. NMeas - 1,
         b < NBlocks - 1, isValidBlock(packet.data_blocks[b + 1]),
         getAzimuth(packet, b + 1) < FullTurn,
         getAzimuth(packet, b) < getAzimuth(packet, b + 1),
         getAzimuth(packet, b + 1) - getAzimuth(packet, b) <= FullTurn \div 2
  PROVE  SlamAzimuth(packet, b, m) - NMeas * PointAzimuth(packet, b, m) \in 0 .. (NMeas - 1) * m
<1>1. b + 1 \in 0 .. NBlocks - 1 /\ b # NBlocks - 1
  BY DEF NBlocks
<1>2. PICK a \in Int, n \in Int :
        /\ a = getAzimuth(packet, b) /\ n = getAzimuth(packet, b + 1)
        /\ 0 <= a /\ a < n /\ n < FullTurn /\ n - a <= FullTurn \div 2
  BY <1>1, AzimuthField DEF getAzimuth, UInt16
<1>3. m \in Int /\ 0 <= m /\ m <= 15 /\ NMeas = 16
  BY DEF NMeas
<1>4. PICK r \in Int, e \in Int : r = (n - a) \div 16 /\ e = (n - a) % 16
  OBVIOUS
<1>5. n - a = 16 * r + e /\ 0 <= e /\ e <= 15 /\ 0 <= r
  BY <1>2, <1>4
<1>6. PICK p \in Int, d \in Int : p = r * m /\ d = m * e
  BY <1>3
<1>7. 0 <= p /\ p <= 15 * r /\ 0 <= d /\ d <= 15 * m
  BY <1>3, <1>5, <1>6, StepBelow
<1>8. (n - a) * m = 16 * p + d
  <2>1. (16 * r + e) * m = 16 * (r * m) + m * e
    BY <1>3
  <2> QED BY <1>5, <1>6, <2>1
<1>9. PointAzimuth(packet, b, m) = a + p
  <2>1. isValidDataBlock(packet.data_blocks[b + 1])
    <3>1. getAzimuth(packet, b + 1) # 65535
      BY <1>2, Turn
    <3> QED BY <1>1, <3>1, BlocksAgree
  <2>2. NextAzimuth(packet, b) = n /\ be16ToHost(packet.data_blocks[b].azimuth) = a
    BY <1>2, <2>1 DEF NextAzimuth, getAzimuth
  <2>3. Resolution(a, n) = r
    BY <1>2, <1>3, <1>4 DEF Resolution
  <2>4. PICK x \in Int : x = a + p
    OBVIOUS
  <2>5. 0 <= x /\ x < FullTurn /\ x < 2^16
    BY <1>2, <1>5, <1>7, <2>4, Turn
  <2>6. (x % 2^16) % FullTurn = x
    <3>1. x % 2^16 = x
      BY <2>5
    <3>2. x % FullTurn = x
      BY <2>5, TurnInt
    <3> QED BY <3>1, <3>2
  <2> QED BY <1>6, <2>2, <2>3, <2>4, <2>6 DEF PointAzimuth, calculateAzimuth
<1>10. SlamAzimuth(packet, b, m) = 16 * a + (16 * p + d)
  <2>1. nextAzimuth(packet, b) = n
    BY <1>1, <1>2 DEF nextAzimuth
  <2>2. Wraparound(n - a) = n - a
    <3>1. 2 * (n - a) <= FullTurn /\ 0 <= n - a /\ n - a \in Int
      BY <1>2, Turn
    <3> QED BY <3>1, WayRound
  <2>3. SlamAzimuth(packet, b, m) = (16 * a + (n - a) * m) % FineTurn
    BY <1>2, <1>3, <2>1, <2>2 DEF SlamAzimuth, calculatePointAzimuth
  <2>4. PICK x \in Int : x = 16 * a + (16 * p + d)
    OBVIOUS
  <2>5. 0 <= x /\ x < FineTurn
    <3>1. 16 * p + d <= 15 * (n - a)
      BY <1>3, <1>5, <1>7, <1>8, StepBelow
    <3> QED BY <1>2, <1>7, <2>4, <3>1, FineTurnIs, TurnInt
  <2>6. x % FineTurn = x
    BY <2>5, FineTurnIs
  <2> QED BY <1>8, <2>3, <2>4, <2>6
<1> QED BY <1>3, <1>7, <1>9, <1>10

-----------------------------------------------------------------------------
(* The invariant: what was found is of the datagram that is there.         *)

Described ==
  [timestamp |-> be32ToHost(raw.packet.timestamp),
   factory   |-> be16ToHost(raw.packet.factory_info),
   last      |-> slamIsLastPacket(raw.packet)]

IInv ==
  /\ raw \in Datagrams
  /\ \/ stage = "validate" /\ points = {} /\ info = NoInfo
     \/ /\ stage = "refused" /\ points = {} /\ info = NoInfo
        /\ raw.size = PacketSize => ~validatePacket(raw.packet)
     \/ stage = "parse" /\ points = {} /\ info = NoInfo /\ raw.size = PacketSize
     \/ /\ stage = "describe" /\ points = SlamPoints(raw.packet) /\ info = NoInfo
        /\ raw.size = PacketSize
     \/ /\ stage = "done" /\ points = SlamPoints(raw.packet) /\ info = Described
        /\ raw.size = PacketSize

\* The packet of a datagram is one of the format.
LEMMA Packets == ASSUME IInv PROVE raw.packet \in MSOPPacket
BY DatagramsAssumption DEF IInv, Datagram

\* The invariant holds in every state of the example.
THEOREM Invariance == Spec => []IInv
<1>1. Init => IInv
  BY DEF Init, IInv
<1>2. IInv /\ [Next]_vars => IInv'
  <2> SUFFICES ASSUME IInv, [Next]_vars PROVE IInv'
    OBVIOUS
  <2>1. CASE Validate
    BY <2>1 DEF Validate, IInv
  <2>2. CASE Parse
    BY <2>2 DEF Parse, IInv
  <2>3. CASE Describe
    BY <2>3 DEF Describe, IInv, Described
  <2>4. CASE Again
    BY <2>4 DEF Again, IInv
  <2>5. CASE UNCHANGED vars
    BY <2>5 DEF vars, IInv, Described
  <2> QED BY <2>1, <2>2, <2>3, <2>4, <2>5 DEF Next
<1> QED BY <1>1, <1>2, PTL DEF Spec

-----------------------------------------------------------------------------
(* The agreements.                                                         *)

\* A point of the second parser is on the circle, and neither mark for no
\* return is its distance.
LEMMA SlamTyped ==
  ASSUME NEW packet \in MSOPPacket
  PROVE  SlamPoints(packet) \subseteq SlamPoint
<1> SUFFICES ASSUME NEW p \in SlamPoints(packet) PROVE p \in SlamPoint
  OBVIOUS
<1>1. PICK b \in 0 .. NBlocks - 1, m \in 0 .. NMeas - 1 :
        \/ SlamStrongestReported(packet, b, m) /\ p = SlamStrongestPoint(packet, b, m)
        \/ SlamLastReported(packet, b, m) /\ p = SlamLastPoint(packet, b, m)
  BY SlamIs
<1>2. SlamAzimuth(packet, b, m) \in FineAzimuth
  BY SlamAzimuthType
<1>3. Slot(b, m, 0) \in Slots /\ Slot(b, m, 1) \in Slots
  BY SlotRange
<1>4. CASE SlamStrongestReported(packet, b, m) /\ p = SlamStrongestPoint(packet, b, m)
  <2>1. Strongest(packet, b, m) \in UInt16 \ {0, 65535}
    BY <1>4, DistancesAgree DEF SlamStrongestReported
  <2>2. packet.data_blocks[b].measurements[m].rssi_strongest \in UInt8
    BY DistanceFields
  <2> QED BY <1>2, <1>3, <1>4, <2>1, <2>2 DEF SlamStrongestPoint, SlamPoint
<1>5. CASE SlamLastReported(packet, b, m) /\ p = SlamLastPoint(packet, b, m)
  <2>1. Last(packet, b, m) \in UInt16 \ {0, 65535}
    BY <1>5, DistancesAgree DEF SlamLastReported
  <2>2. packet.data_blocks[b].measurements[m].rssi_last \in UInt8
    BY DistanceFields
  <2> QED BY <1>2, <1>3, <1>5, <2>1, <2>2 DEF SlamLastPoint, SlamPoint
<1> QED BY <1>1, <1>4, <1>5

(***************************************************************************)
(* Whatever the azimuths of the blocks are, every angle of the second      *)
(* parser is on the circle and both marks for no return are gone.          *)
(***************************************************************************)
THEOREM TypeCorrect == Spec => []TypeOK
<1>1. ASSUME IInv PROVE TypeOK
  <2>1. raw.packet \in MSOPPacket
    BY <1>1, Packets
  <2>2. points \subseteq SlamPoint
    BY <1>1, <2>1, SlamTyped DEF IInv
  <2>3. NoInfo \in [timestamp : [1 .. 4 -> UInt8], factory : UInt16, last : BOOLEAN]
    BY DEF NoInfo, UInt8, UInt16
  <2>4. Described \in [timestamp : [1 .. 4 -> UInt8], factory : UInt16, last : BOOLEAN]
    <3>1. raw.packet.timestamp \in [1 .. 4 -> UInt8] /\ raw.packet.factory_info \in UInt16
      BY <2>1 DEF MSOPPacket
    <3>2. be32ToHost(raw.packet.timestamp) \in [1 .. 4 -> UInt8]
      BY <3>1 DEF be32ToHost
    <3>3. be16ToHost(raw.packet.factory_info) \in UInt16
      BY <3>1, SwapRange
    <3>4. slamIsLastPacket(raw.packet) \in BOOLEAN
      BY DEF slamIsLastPacket
    <3> QED BY <3>2, <3>3, <3>4 DEF Described
  <2>5. /\ raw \in Datagrams /\ stage \in {"validate", "parse", "describe", "done", "refused"}
        /\ info = NoInfo \/ info = Described
    BY <1>1 DEF IInv
  <2> QED BY <2>2, <2>3, <2>4, <2>5 DEF TypeOK
<1> QED BY <1>1, Invariance, PTL

\* Both parsers report the same echoes within the range of the sensor.
LEMMA PacketEchoesAgree ==
  ASSUME NEW packet \in MSOPPacket,
         \A b \in 0 .. NBlocks - 1 :
           isValidBlock(packet.data_blocks[b]) => getAzimuth(packet, b) # 65535
  PROVE  {Echo(p) : p \in ParsedPoints(packet)}
           = {Echo(q) : q \in {x \in SlamPoints(packet) : x.distance \in Distance}}
<1>1. ASSUME NEW p \in ParsedPoints(packet)
      PROVE  \E q \in SlamPoints(packet) : q.distance \in Distance /\ Echo(p) = Echo(q)
  <2>1. PICK b \in 0 .. NBlocks - 1, m \in 0 .. NMeas - 1 :
          /\ isValidDataBlock(packet.data_blocks[b])
          /\ \/ StrongestReported(packet, b, m) /\ p = StrongestPoint(packet, b, m)
             \/ LastReported(packet, b, m) /\ p = LastPoint(packet, b, m)
    BY ParsedIs
  <2>2. isValidBlock(packet.data_blocks[b])
    BY <2>1, BlocksAgree
  <2>3. CASE StrongestReported(packet, b, m) /\ p = StrongestPoint(packet, b, m)
    <3>1. SlamStrongestPoint(packet, b, m) \in SlamPoints(packet)
      BY <2>2, <2>3, ReturnsAgree, SlamIs
    <3>2. /\ SlamStrongestPoint(packet, b, m).distance \in Distance
          /\ Echo(p) = Echo(SlamStrongestPoint(packet, b, m))
      <4>1. Strongest(packet, b, m) \in Distance /\ Strongest(packet, b, m) = StrongestDistance(packet, b, m)
        BY <2>3, ReturnsAgree
      <4> QED BY <2>3, <4>1 DEF Echo, SlamStrongestPoint, StrongestPoint
    <3> QED BY <3>1, <3>2
  <2>4. CASE LastReported(packet, b, m) /\ p = LastPoint(packet, b, m)
    <3>1. SlamLastPoint(packet, b, m) \in SlamPoints(packet)
      BY <2>2, <2>4, ReturnsAgree, SlamIs
    <3>2. /\ SlamLastPoint(packet, b, m).distance \in Distance
          /\ Echo(p) = Echo(SlamLastPoint(packet, b, m))
      <4>1. Last(packet, b, m) \in Distance /\ Last(packet, b, m) = LastDistance(packet, b, m)
        BY <2>4, ReturnsAgree
      <4> QED BY <2>4, <4>1 DEF Echo, SlamLastPoint, LastPoint
    <3> QED BY <3>1, <3>2
  <2> QED BY <2>1, <2>3, <2>4
<1>2. ASSUME NEW q \in SlamPoints(packet), q.distance \in Distance
      PROVE  \E p \in ParsedPoints(packet) : Echo(q) = Echo(p)
  <2>1. PICK b \in 0 .. NBlocks - 1, m \in 0 .. NMeas - 1 :
          /\ isValidBlock(packet.data_blocks[b])
          /\ \/ SlamStrongestReported(packet, b, m) /\ q = SlamStrongestPoint(packet, b, m)
             \/ SlamLastReported(packet, b, m) /\ q = SlamLastPoint(packet, b, m)
    BY SlamIs
  <2>2. isValidDataBlock(packet.data_blocks[b])
    BY <2>1, BlocksAgree
  <2>3. CASE SlamStrongestReported(packet, b, m) /\ q = SlamStrongestPoint(packet, b, m)
    <3>1. Strongest(packet, b, m) \in Distance
      BY <1>2, <2>3 DEF SlamStrongestPoint
    <3>2. StrongestReported(packet, b, m) /\ Strongest(packet, b, m) = StrongestDistance(packet, b, m)
      BY <2>3, <3>1, ReturnsAgree
    <3>3. StrongestPoint(packet, b, m) \in ParsedPoints(packet)
      BY <2>2, <3>2, ParsedIs
    <3>4. Echo(q) = Echo(StrongestPoint(packet, b, m))
      BY <2>3, <3>2 DEF Echo, SlamStrongestPoint, StrongestPoint
    <3> QED BY <3>3, <3>4
  <2>4. CASE SlamLastReported(packet, b, m) /\ q = SlamLastPoint(packet, b, m)
    <3>1. Last(packet, b, m) \in Distance
      BY <1>2, <2>4 DEF SlamLastPoint
    <3>2. LastReported(packet, b, m) /\ Last(packet, b, m) = LastDistance(packet, b, m)
      BY <2>4, <3>1, ReturnsAgree
    <3>3. LastPoint(packet, b, m) \in ParsedPoints(packet)
      BY <2>2, <3>2, ParsedIs
    <3>4. Echo(q) = Echo(LastPoint(packet, b, m))
      BY <2>4, <3>2 DEF Echo, SlamLastPoint, LastPoint
    <3> QED BY <3>3, <3>4
  <2> QED BY <2>1, <2>3, <2>4
<1> QED BY <1>1, <1>2

(***************************************************************************)
(* Both parsers find the same echoes, whatever was parsed before; a packet *)
(* that one of them refuses has none for the other.                        *)
(***************************************************************************)
THEOREM EchoesCorrect == Spec => []EchoesAgree
<1>1. ASSUME IInv PROVE EchoesAgree
  <2> SUFFICES ASSUME stage \in {"done", "refused"}, raw.size = PacketSize,
                      \A b \in Blocks : SlamValid(b) => BlockAzimuth(b) # 65535
               PROVE  {Echo(p) : p \in ParsedPoints(raw.packet)}
                        = {Echo(q) : q \in {x \in points : x.distance \in Distance}}
    BY DEF EchoesAgree
  <2>1. raw.packet \in MSOPPacket
    BY <1>1, Packets
  <2>2. CASE stage = "done"
    <3>1. points = SlamPoints(raw.packet)
      BY <1>1, <2>2 DEF IInv
    <3>2. \A b \in 0 .. NBlocks - 1 :
            isValidBlock(raw.packet.data_blocks[b]) => getAzimuth(raw.packet, b) # 65535
      BY DEF Blocks, SlamValid, BlockAzimuth
    <3>3. {Echo(p) : p \in ParsedPoints(raw.packet)}
            = {Echo(q) : q \in {x \in SlamPoints(raw.packet) : x.distance \in Distance}}
      BY <2>1, <3>2, PacketEchoesAgree
    <3> QED BY <3>1, <3>3
  <2>3. CASE stage = "refused"
    <3>1. points = {} /\ ~validatePacket(raw.packet)
      BY <1>1, <2>3 DEF IInv
    <3>2. ASSUME NEW b \in 0 .. NBlocks - 1 PROVE ~isValidDataBlock(raw.packet.data_blocks[b])
      <4>1. ~isValidBlock(raw.packet.data_blocks[b])
        BY <3>1 DEF validatePacket
      <4> QED BY <2>1, <4>1, BlocksAgree
    <3>3. \A p : p \notin ParsedPoints(raw.packet)
      BY <3>2, ParsedIs
    <3> QED BY <3>1, <3>3
  <2> QED BY <2>2, <2>3
<1> QED BY <1>1, Invariance, PTL

\* The block and the measurement of two points in one slot.
LEMMA SameSlot ==
  ASSUME NEW packet, NEW p \in ParsedPoints(packet), NEW q \in SlamPoints(packet), p.slot = q.slot
  PROVE  \E b \in 0 .. NBlocks - 1, m \in 0 .. NMeas - 1 :
           /\ isValidDataBlock(packet.data_blocks[b])
           /\ p.azimuth = PointAzimuth(packet, b, m) /\ q.azimuth = SlamAzimuth(packet, b, m)
           /\ p.slot \div (2 * NMeas) = b /\ (p.slot \div 2) % NMeas = m
<1>1. PICK b \in 0 .. NBlocks - 1, m \in 0 .. NMeas - 1, r \in 0 .. 1 :
        /\ isValidDataBlock(packet.data_blocks[b])
        /\ p.slot = Slot(b, m, r) /\ p.azimuth = PointAzimuth(packet, b, m)
  <2>1. PICK b \in 0 .. NBlocks - 1, m \in 0 .. NMeas - 1 :
          /\ isValidDataBlock(packet.data_blocks[b])
          /\ p = StrongestPoint(packet, b, m) \/ p = LastPoint(packet, b, m)
    BY ParsedIs
  <2>2. CASE p = StrongestPoint(packet, b, m)
    <3>1. p.slot = Slot(b, m, 0) /\ p.azimuth = PointAzimuth(packet, b, m)
      BY <2>2 DEF StrongestPoint
    <3> QED BY <2>1, <3>1
  <2>3. CASE p = LastPoint(packet, b, m)
    <3>1. p.slot = Slot(b, m, 1) /\ p.azimuth = PointAzimuth(packet, b, m)
      BY <2>3 DEF LastPoint
    <3> QED BY <2>1, <3>1
  <2> QED BY <2>1, <2>2, <2>3
<1>2. PICK c \in 0 .. NBlocks - 1, n \in 0 .. NMeas - 1, s \in 0 .. 1 :
        q.slot = Slot(c, n, s) /\ q.azimuth = SlamAzimuth(packet, c, n)
  <2>1. PICK c \in 0 .. NBlocks - 1, n \in 0 .. NMeas - 1 :
          q = SlamStrongestPoint(packet, c, n) \/ q = SlamLastPoint(packet, c, n)
    BY SlamIs
  <2>2. CASE q = SlamStrongestPoint(packet, c, n)
    <3>1. q.slot = Slot(c, n, 0) /\ q.azimuth = SlamAzimuth(packet, c, n)
      BY <2>2 DEF SlamStrongestPoint
    <3> QED BY <3>1
  <2>3. CASE q = SlamLastPoint(packet, c, n)
    <3>1. q.slot = Slot(c, n, 1) /\ q.azimuth = SlamAzimuth(packet, c, n)
      BY <2>3 DEF SlamLastPoint
    <3> QED BY <3>1
  <2> QED BY <2>1, <2>2, <2>3
<1>3. b = c /\ m = n
  <2>1. Slot(b, m, r) = Slot(c, n, s)
    BY <1>1, <1>2
  <2> QED BY <2>1, SlotInjective
<1>4. Slot(b, m, r) \div (2 * NMeas) = b /\ (Slot(b, m, r) \div 2) % NMeas = m
  BY SlotParts
<1> QED BY <1>1, <1>2, <1>3, <1>4

\* In a packet at the sensor's resolution a valid block is followed by one a
\* step further on, and so is the one before it if it is the last.
LEMMA NominalBlocks ==
  ASSUME Nominal, NEW b \in 0 .. NBlocks - 1, isValidBlock(raw.packet.data_blocks[b])
  PROVE  /\ getAzimuth(raw.packet, b) < FullTurn
         /\ b < NBlocks - 1 =>
              /\ isValidBlock(raw.packet.data_blocks[b + 1])
              /\ getAzimuth(raw.packet, b + 1) = (getAzimuth(raw.packet, b) + 25 * NMeas) % FullTurn
         /\ b = NBlocks - 1 =>
              /\ isValidBlock(raw.packet.data_blocks[b - 1])
              /\ getAzimuth(raw.packet, b - 1) < FullTurn
              /\ getAzimuth(raw.packet, b) = (getAzimuth(raw.packet, b - 1) + 25 * NMeas) % FullTurn
<1>1. ASSUME NEW c \in 0 .. NBlocks - 1, isValidBlock(raw.packet.data_blocks[c])
      PROVE  /\ getAzimuth(raw.packet, c) < FullTurn
             /\ c < NBlocks - 1 =>
                  /\ isValidBlock(raw.packet.data_blocks[c + 1])
                  /\ getAzimuth(raw.packet, c + 1) = (getAzimuth(raw.packet, c) + 25 * NMeas) % FullTurn
  <2>1. c \in Blocks /\ SlamValid(c)
    BY <1>1 DEF Blocks, SlamValid
  <2>2. /\ BlockAzimuth(c) < FullTurn
        /\ c < NBlocks - 1 =>
             SlamValid(c + 1) /\ BlockAzimuth(c + 1) = (BlockAzimuth(c) + 25 * NMeas) % FullTurn
    BY <2>1 DEF Nominal
  <2> QED BY <2>2 DEF SlamValid, BlockAzimuth
<1>2. CASE b = NBlocks - 1
  <2>1. isValidBlock(raw.packet.data_blocks[b - 1])
    <3>1. NBlocks - 1 - 1 = NBlocks - 2
      BY DEF NBlocks
    <3> QED BY <1>2, <3>1 DEF Nominal, SlamValid
  <2>2. b - 1 \in 0 .. NBlocks - 1 /\ b - 1 < NBlocks - 1 /\ (b - 1) + 1 = b /\ ~(b < NBlocks - 1)
    BY <1>2 DEF NBlocks
  <2>3. getAzimuth(raw.packet, b - 1) < FullTurn
        /\ getAzimuth(raw.packet, b) = (getAzimuth(raw.packet, b - 1) + 25 * NMeas) % FullTurn
    BY <1>1, <2>1, <2>2
  <2> QED BY <1>1, <2>1, <2>2, <2>3
<1>3. CASE b # NBlocks - 1
  BY <1>1, <1>3
<1> QED BY <1>2, <1>3

(***************************************************************************)
(* At the sensor's own resolution both parsers give every echo the same    *)
(* angle, across 360 degrees and in the last block too.                    *)
(***************************************************************************)
THEOREM AnglesCorrect == Spec => []AnglesAgree
<1>1. ASSUME IInv PROVE AnglesAgree
  <2> SUFFICES ASSUME stage = "done", Nominal,
                      NEW p \in ParsedPoints(raw.packet), NEW q \in points, p.slot = q.slot
               PROVE  q.azimuth = NMeas * p.azimuth
    BY DEF AnglesAgree
  <2>1. raw.packet \in MSOPPacket /\ q \in SlamPoints(raw.packet)
    BY <1>1, Packets DEF IInv
  <2>2. PICK b \in 0 .. NBlocks - 1, m \in 0 .. NMeas - 1 :
          /\ isValidDataBlock(raw.packet.data_blocks[b])
          /\ p.azimuth = PointAzimuth(raw.packet, b, m) /\ q.azimuth = SlamAzimuth(raw.packet, b, m)
    BY <2>1, SameSlot
  <2>3. isValidBlock(raw.packet.data_blocks[b])
    BY <2>1, <2>2, BlocksAgree
  <2>4. SlamAzimuth(raw.packet, b, m) = NMeas * PointAzimuth(raw.packet, b, m)
    BY <2>1, <2>3, NominalBlocks, NominalAnglesAgree
  <2> QED BY <2>2, <2>4
<1> QED BY <1>1, Invariance, PTL

(***************************************************************************)
(* In a block that a valid one follows forwards, by half a turn at most    *)
(* and in the same turn, the angles of reader2.0 lag behind by less than   *)
(* one hundredth of a degree for each measurement.                         *)
(***************************************************************************)
THEOREM LagCorrect == Spec => []LagBounded
<1>1. ASSUME IInv PROVE LagBounded
  <2> SUFFICES ASSUME stage = "done",
                      NEW p \in ParsedPoints(raw.packet), NEW q \in points, p.slot = q.slot,
                      FollowedForward(p.slot \div (2 * NMeas))
               PROVE  q.azimuth - NMeas * p.azimuth \in 0 .. (NMeas - 1) * ((p.slot \div 2) % NMeas)
    BY DEF LagBounded
  <2>1. raw.packet \in MSOPPacket /\ q \in SlamPoints(raw.packet)
    BY <1>1, Packets DEF IInv
  <2>2. PICK b \in 0 .. NBlocks - 1, m \in 0 .. NMeas - 1 :
          /\ p.azimuth = PointAzimuth(raw.packet, b, m) /\ q.azimuth = SlamAzimuth(raw.packet, b, m)
          /\ p.slot \div (2 * NMeas) = b /\ (p.slot \div 2) % NMeas = m
    BY <2>1, SameSlot
  <2>3. /\ b < NBlocks - 1 /\ isValidBlock(raw.packet.data_blocks[b + 1])
        /\ getAzimuth(raw.packet, b + 1) < FullTurn
        /\ getAzimuth(raw.packet, b) < getAzimuth(raw.packet, b + 1)
        /\ getAzimuth(raw.packet, b + 1) - getAzimuth(raw.packet, b) <= FullTurn \div 2
    BY <2>2 DEF FollowedForward, SlamValid, BlockAzimuth
  <2>4. SlamAzimuth(raw.packet, b, m) - NMeas * PointAzimuth(raw.packet, b, m) \in 0 .. (NMeas - 1) * m
    BY <2>1, <2>3, AnglesLag
  <2> QED BY <2>2, <2>4
<1> QED BY <1>1, Invariance, PTL

\* The second half of a packet.
LEMMA HalfIs ==
  6 .. NBlocks - 1 = 6 .. 11 /\ IsFiniteSet(6 .. 11) /\ Cardinality(6 .. 11) = 6
<1>1. PICK i \in Int, j \in Int : i = 6 /\ j = 11
  OBVIOUS
<1>2. IsFiniteSet(i .. j) /\ Cardinality(i .. j) = IF i > j THEN 0 ELSE j - i + 1
  BY FS_Interval
<1>3. (IF i > j THEN 0 ELSE j - i + 1) = 6
  BY <1>1
<1>4. 6 .. NBlocks - 1 = 6 .. 11
  BY DEF NBlocks
<1> QED BY <1>1, <1>2, <1>3, <1>4

\* The points of the second half come from its valid blocks, three at most
\* where three or more are not valid.
LEMMA FewSources ==
  ASSUME NEW packet, slamIsLastPacket(packet), NEW Sources,
         Sources = {b \in 6 .. NBlocks - 1 :
                      \E q \in SlamPoints(packet) : q.slot \div (2 * NMeas) = b}
  PROVE  Cardinality(Sources) <= 3
<1> DEFINE Bad == InvalidAtEnd(packet)
<1>1. Sources \subseteq 6 .. 11 \ Bad
  <2> SUFFICES ASSUME NEW b \in Sources PROVE b \in 6 .. 11 /\ b \notin Bad
    OBVIOUS
  <2>1. PICK q \in SlamPoints(packet) : q.slot \div (2 * NMeas) = b
    OBVIOUS
  <2>2. PICK c \in 0 .. NBlocks - 1, m \in 0 .. NMeas - 1 :
          /\ isValidBlock(packet.data_blocks[c])
          /\ q.slot = Slot(c, m, 0) \/ q.slot = Slot(c, m, 1)
    BY SlamIs DEF SlamStrongestPoint, SlamLastPoint
  <2>3. c = b
    BY <2>1, <2>2, SlotParts
  <2> QED BY <2>2, <2>3, HalfIs DEF InvalidAtEnd
<1>2. Bad \subseteq 6 .. 11 /\ Cardinality(Bad) >= 3
  BY HalfIs DEF InvalidAtEnd, slamIsLastPacket
<1> HIDE DEF Bad
<1>3. IsFiniteSet(Bad)
  BY <1>2, HalfIs, FS_Subset
<1>4. (6 .. 11) \cap Bad = Bad
  BY <1>2
<1>5. /\ IsFiniteSet(6 .. 11 \ Bad)
      /\ Cardinality(6 .. 11 \ Bad) = 6 - Cardinality(Bad)
  BY <1>4, HalfIs, FS_Difference
<1>6. Cardinality(Bad) \in Nat /\ Cardinality(6 .. 11 \ Bad) <= 3
  BY <1>2, <1>3, <1>5, FS_CardinalityType
<1>7. IsFiniteSet(Sources) /\ Cardinality(Sources) <= Cardinality(6 .. 11 \ Bad)
  BY <1>1, <1>5, FS_Subset
<1>8. Cardinality(Sources) \in Nat /\ Cardinality(6 .. 11 \ Bad) \in Nat
  BY <1>5, <1>7, FS_CardinalityType
<1> QED BY <1>6, <1>7, <1>8

(***************************************************************************)
(* The two tests for the last packet of a rotation agree wherever the      *)
(* second half of the packet is all valid or all marked; what reader2.0    *)
(* takes for the last one the other does too; and what that one takes for  *)
(* the last one has points from at most three blocks of its second half.   *)
(***************************************************************************)
THEOREM LastCorrect == Spec => []LastPacketsAgree
<1>1. ASSUME IInv PROVE LastPacketsAgree
  <2> DEFINE blocks == raw.packet.data_blocks
             Half == 6 .. NBlocks - 1
             Sources == {b \in 6 .. NBlocks - 1 : \E q \in points : q.slot \div (2 * NMeas) = b}
  <2> SUFFICES ASSUME stage = "done"
               PROVE  /\ isLastPacket(raw.packet) => info.last
                      /\ \/ \A b \in Half : isValidBlock(blocks[b])
                         \/ \A b \in Half : blocks[b].flag = 65535
                         => (info.last <=> isLastPacket(raw.packet))
                      /\ info.last => Cardinality(Sources) <= 3
    BY DEF LastPacketsAgree, SlamValid
  <2>1. raw.packet \in MSOPPacket
    BY <1>1, Packets
  <2>2. info.last = slamIsLastPacket(raw.packet)
    BY <1>1 DEF IInv, Described
  <2>3. ASSUME NEW b \in Half
        PROVE  /\ be16ToHost(blocks[b].flag) = 65535 <=> blocks[b].flag = 65535
               /\ be16ToHost(blocks[b].flag) = 65518 <=> isValidBlock(blocks[b])
               /\ isValidBlock(blocks[b]) => blocks[b].flag # 65535
    <3>1. b \in 0 .. NBlocks - 1
      OBVIOUS
    <3>2. blocks[b].flag \in UInt16
      BY <2>1, <3>1, BlockFields
    <3> QED BY <3>2, FlagsAgree DEF isValidBlock
  <2>4. isLastPacket(raw.packet) <=> \A b \in Half : blocks[b].flag = 65535
    BY <2>3 DEF isLastPacket
  <2>5. ASSUME \A b \in Half : blocks[b].flag = 65535 PROVE slamIsLastPacket(raw.packet)
    <3>1. InvalidAtEnd(raw.packet) = Half
      BY <2>3, <2>5 DEF InvalidAtEnd
    <3>2. Cardinality(Half) = 6
      BY HalfIs
    <3> HIDE DEF Half
    <3> QED BY <3>1, <3>2 DEF slamIsLastPacket
  <2>6. ASSUME \A b \in Half : isValidBlock(blocks[b])
        PROVE  ~slamIsLastPacket(raw.packet) /\ ~isLastPacket(raw.packet)
    <3>1. InvalidAtEnd(raw.packet) = {}
      BY <2>6 DEF InvalidAtEnd
    <3>2. ~slamIsLastPacket(raw.packet)
      <4>1. Cardinality({}) = 0
        BY FS_EmptySet
      <4> QED BY <3>1, <4>1 DEF slamIsLastPacket
    <3>3. 6 \in Half
      BY DEF NBlocks
    <3> QED BY <2>3, <2>4, <2>6, <3>2, <3>3
  <2>7. ASSUME info.last PROVE Cardinality(Sources) <= 3
    <3>1. points = SlamPoints(raw.packet)
      BY <1>1 DEF IInv
    <3> QED BY <2>2, <2>7, <3>1, FewSources
  <2> HIDE DEF Half, blocks, Sources
  <2> QED BY <2>2, <2>4, <2>5, <2>6, <2>7
<1> QED BY <1>1, Invariance, PTL

-----------------------------------------------------------------------------
(* The debugging tools.                                                    *)

\* The points of the first block.
LEMMA FirstPointIs ==
  ASSUME raw.packet \in MSOPPacket, NEW p
  PROVE  p \in FirstBlockPoints <=>
           \E m \in 0 .. NMeas - 1 :
             /\ FirstBlockUsed(raw.packet)
             /\ \/ StrongestReported(raw.packet, 0, m) /\ p = StrongestPoint(raw.packet, 0, m)
                \/ LastReported(raw.packet, 0, m) /\ p = LastPoint(raw.packet, 0, m)
<1>1. 0 \in 0 .. NBlocks - 1 /\ 0 \in 0 .. 1 /\ 1 \in 0 .. 1
  BY DEF NBlocks
<1>2. FirstBlockUsed(raw.packet) <=> isValidDataBlock(raw.packet.data_blocks[0])
  BY DEF FirstBlockUsed, isValidDataBlock
<1>3. ASSUME p \in FirstBlockPoints
      PROVE  \E m \in 0 .. NMeas - 1 :
               /\ FirstBlockUsed(raw.packet)
               /\ \/ StrongestReported(raw.packet, 0, m) /\ p = StrongestPoint(raw.packet, 0, m)
                  \/ LastReported(raw.packet, 0, m) /\ p = LastPoint(raw.packet, 0, m)
  <2>1. p \in ParsedPoints(raw.packet) /\ p.slot < Slot(1, 0, 0)
    BY <1>3 DEF FirstBlockPoints
  <2>2. PICK b \in 0 .. NBlocks - 1, m \in 0 .. NMeas - 1 :
          /\ isValidDataBlock(raw.packet.data_blocks[b])
          /\ \/ StrongestReported(raw.packet, b, m) /\ p = StrongestPoint(raw.packet, b, m)
             \/ LastReported(raw.packet, b, m) /\ p = LastPoint(raw.packet, b, m)
    BY <2>1, ParsedIs
  <2>3. p.slot = Slot(b, m, 0) \/ p.slot = Slot(b, m, 1)
    BY <2>2 DEF StrongestPoint, LastPoint
  <2>4. b = 0
    BY <1>1, <2>1, <2>3, SlotParts
  <2> QED BY <1>2, <2>2, <2>4
<1>4. ASSUME NEW m \in 0 .. NMeas - 1, FirstBlockUsed(raw.packet),
             \/ StrongestReported(raw.packet, 0, m) /\ p = StrongestPoint(raw.packet, 0, m)
             \/ LastReported(raw.packet, 0, m) /\ p = LastPoint(raw.packet, 0, m)
      PROVE  p \in FirstBlockPoints
  <2>1. p \in ParsedPoints(raw.packet)
    BY <1>1, <1>2, <1>4, ParsedIs
  <2>2. p.slot = Slot(0, m, 0) \/ p.slot = Slot(0, m, 1)
    BY <1>4 DEF StrongestPoint, LastPoint
  <2>3. Slot(0, m, 0) < Slot(1, 0, 0) /\ Slot(0, m, 1) < Slot(1, 0, 0)
    BY DEF Slot, NMeas
  <2> QED BY <2>1, <2>2, <2>3 DEF FirstBlockPoints
<1> QED BY <1>3, <1>4

\* The measurement of a point of the first block.
LEMMA FirstBlockPlace ==
  ASSUME NEW m \in 0 .. NMeas - 1, NEW r \in 0 .. 1
  PROVE  Slot(0, m, r) \div 2 = m
<1>1. 0 \in 0 .. NBlocks - 1
  BY DEF NBlocks
<1>2. Slot(0, m, r) \div 2 = 0 * NMeas + m
  BY <1>1, SlotParts
<1>3. 0 * NMeas + m = m
  BY DEF NMeas
<1> QED BY <1>2, <1>3

\* At the sensor's resolution the angles of the first block go up by 0.25
\* degrees.
LEMMA FirstBlockNominal ==
  ASSUME raw.packet \in MSOPPacket, Nominal, FirstBlockUsed(raw.packet), NEW m \in 0 .. NMeas - 1
  PROVE  PointAzimuth(raw.packet, 0, m)
           = (be16ToHost(raw.packet.data_blocks[0].azimuth) + 25 * m) % FullTurn
<1>1. 0 \in 0 .. NBlocks - 1
  BY DEF NBlocks
<1>2. isValidBlock(raw.packet.data_blocks[0])
  BY <1>1, BlocksAgree DEF FirstBlockUsed
<1>3. PointAzimuth(raw.packet, 0, m) = (getAzimuth(raw.packet, 0) + 25 * m) % FullTurn
  BY <1>1, <1>2, NominalBlocks, ParserNominal
<1> QED BY <1>3 DEF getAzimuth

\* The return that lakibeam_reader chooses is one of the two, and reported
\* when it is within the range.
LEMMA ChosenReported ==
  ASSUME raw.packet \in MSOPPacket, FirstBlockUsed(raw.packet), NEW m \in 0 .. NMeas - 1,
         Chosen(raw.packet, m).distance \in Distance
  PROVE  \E p \in FirstBlockPoints :
           /\ p.slot \div 2 = m /\ p.azimuth = PointAzimuth(raw.packet, 0, m)
           /\ p.distance = Chosen(raw.packet, m).distance /\ p.rssi = Chosen(raw.packet, m).rssi
<1>1. 0 \in 0 .. NBlocks - 1 /\ 0 \in 0 .. 1 /\ 1 \in 0 .. 1
  BY DEF NBlocks
<1>2. StrongestDistance(raw.packet, 0, m) \in UInt16 /\ LastDistance(raw.packet, 0, m) \in UInt16
  BY <1>1, DistancesAgree
<1>3. CASE StrongestDistance(raw.packet, 0, m) \notin NoReturn
  <2>1. /\ Chosen(raw.packet, m).distance = StrongestDistance(raw.packet, 0, m)
        /\ Chosen(raw.packet, m).rssi = StrongestPoint(raw.packet, 0, m).rssi
    BY <1>3 DEF Chosen, StrongestEcho, StrongestPoint
  <2>2. StrongestReported(raw.packet, 0, m)
    BY <1>1, <1>2, <2>1, PlausibleIs DEF StrongestReported
  <2>3. StrongestPoint(raw.packet, 0, m) \in FirstBlockPoints
    BY <2>2, FirstPointIs
  <2>4. /\ StrongestPoint(raw.packet, 0, m).slot \div 2 = m
        /\ StrongestPoint(raw.packet, 0, m).azimuth = PointAzimuth(raw.packet, 0, m)
        /\ StrongestPoint(raw.packet, 0, m).distance = StrongestDistance(raw.packet, 0, m)
    BY <1>1, FirstBlockPlace DEF StrongestPoint
  <2> QED BY <2>1, <2>3, <2>4
<1>4. CASE StrongestDistance(raw.packet, 0, m) \in NoReturn
  <2>1. /\ Chosen(raw.packet, m).distance = LastDistance(raw.packet, 0, m)
        /\ Chosen(raw.packet, m).rssi = LastPoint(raw.packet, 0, m).rssi
    BY <1>4 DEF Chosen, LastEcho, LastPoint
  <2>2. LastDistance(raw.packet, 0, m) # StrongestDistance(raw.packet, 0, m)
    BY <1>4, <2>1, RangeMarks DEF NoReturn
  <2>3. LastReported(raw.packet, 0, m)
    BY <1>1, <1>2, <2>1, <2>2, PlausibleIs DEF LastReported
  <2>4. LastPoint(raw.packet, 0, m) \in FirstBlockPoints
    BY <2>3, FirstPointIs
  <2>5. /\ LastPoint(raw.packet, 0, m).slot \div 2 = m
        /\ LastPoint(raw.packet, 0, m).azimuth = PointAzimuth(raw.packet, 0, m)
        /\ LastPoint(raw.packet, 0, m).distance = LastDistance(raw.packet, 0, m)
    BY <1>1, FirstBlockPlace DEF LastPoint
  <2> QED BY <2>1, <2>4, <2>5
<1> QED BY <1>3, <1>4

\* What keeps a reported return of the first block from being chosen.
LEMMA LeftOut ==
  ASSUME raw.packet \in MSOPPacket, NEW p \in FirstBlockPoints
  PROVE  \E m \in 0 .. NMeas - 1 :
           /\ FirstBlockUsed(raw.packet) /\ p.slot \div 2 = m
           /\ \/ Seen(Chosen(raw.packet, m))
              \/ p.rssi = 0
              \/ /\ StrongestDistance(raw.packet, 0, m) \notin NoReturn
                 /\ StrongestEcho(raw.packet, m).rssi = 0
<1>1. 0 \in 0 .. NBlocks - 1 /\ 0 \in 0 .. 1 /\ 1 \in 0 .. 1
  BY DEF NBlocks
<1>2. PICK m \in 0 .. NMeas - 1 :
        /\ FirstBlockUsed(raw.packet)
        /\ \/ StrongestReported(raw.packet, 0, m) /\ p = StrongestPoint(raw.packet, 0, m)
           \/ LastReported(raw.packet, 0, m) /\ p = LastPoint(raw.packet, 0, m)
  BY FirstPointIs
<1>3. p.slot \div 2 = m
  <2>1. p.slot = Slot(0, m, 0) \/ p.slot = Slot(0, m, 1)
    BY <1>2 DEF StrongestPoint, LastPoint
  <2> QED BY <1>1, <2>1, FirstBlockPlace
<1>4. /\ raw.packet.data_blocks[0].measurements[m].rssi_strongest \in Nat
      /\ raw.packet.data_blocks[0].measurements[m].rssi_last \in Nat
  BY <1>1, DistanceFields DEF UInt8
<1>5. \A d \in Distance : d \notin NoReturn
  BY RangeMarks DEF NoReturn
<1>6. CASE StrongestDistance(raw.packet, 0, m) \notin NoReturn
  <2>1. Chosen(raw.packet, m) = StrongestEcho(raw.packet, m)
    BY <1>6 DEF Chosen
  <2>2. Seen(Chosen(raw.packet, m)) \/ StrongestEcho(raw.packet, m).rssi = 0
    BY <1>4, <1>6, <2>1 DEF Seen, StrongestEcho
  <2> QED BY <1>2, <1>3, <1>6, <2>2
<1>7. CASE StrongestDistance(raw.packet, 0, m) \in NoReturn
  <2>1. Chosen(raw.packet, m) = LastEcho(raw.packet, m)
    BY <1>7 DEF Chosen
  <2>2. ~StrongestReported(raw.packet, 0, m)
    BY <1>1, <1>5, <1>7, DistancesAgree, PlausibleIs DEF StrongestReported
  <2>3. LastReported(raw.packet, 0, m) /\ p = LastPoint(raw.packet, 0, m)
    BY <1>2, <2>2
  <2>4. LastDistance(raw.packet, 0, m) \notin NoReturn
    BY <1>1, <1>5, <2>3, DistancesAgree, PlausibleIs DEF LastReported
  <2>5. Seen(Chosen(raw.packet, m)) \/ p.rssi = 0
    BY <1>4, <2>1, <2>3, <2>4 DEF Seen, LastEcho, LastPoint
  <2> QED BY <1>2, <1>3, <2>5
<1> QED BY <1>6, <1>7

(***************************************************************************)
(* What lakibeam_reader prints within the range of the sensor is a point   *)
(* of the parser, and what it leaves out of the first block has no signal  *)
(* or stands behind a strongest return that has none.                      *)
(***************************************************************************)
THEOREM LakibeamCorrect == Spec => []LakibeamAgrees
<1>1. ASSUME IInv PROVE LakibeamAgrees
  <2> DEFINE shown == LakibeamEchoes(raw.packet)
  <2>1. raw.packet \in MSOPPacket
    BY <1>1, Packets
  <2>2. ASSUME NEW e \in shown, e.echo.distance \in Distance
        PROVE  \E p \in FirstBlockPoints :
                 /\ p.slot \div 2 = e.m /\ p.distance = e.echo.distance /\ p.rssi = e.echo.rssi
                 /\ Nominal => p.azimuth = e.azimuth % FullTurn
    <3>1. PICK m \in 0 .. NMeas - 1 :
            /\ FirstBlockUsed(raw.packet) /\ Seen(Chosen(raw.packet, m))
            /\ e = [m |-> m, azimuth |-> be16ToHost(raw.packet.data_blocks[0].azimuth) + 25 * m,
                    echo |-> Chosen(raw.packet, m)]
      BY DEF LakibeamEchoes
    <3>2. /\ e.m = m /\ e.echo = Chosen(raw.packet, m)
          /\ e.azimuth = be16ToHost(raw.packet.data_blocks[0].azimuth) + 25 * m
      BY <3>1
    <3>3. PICK p \in FirstBlockPoints :
            /\ p.slot \div 2 = m /\ p.azimuth = PointAzimuth(raw.packet, 0, m)
            /\ p.distance = Chosen(raw.packet, m).distance /\ p.rssi = Chosen(raw.packet, m).rssi
      BY <2>1, <2>2, <3>1, <3>2, ChosenReported
    <3>4. Nominal => p.azimuth = e.azimuth % FullTurn
      BY <2>1, <3>1, <3>2, <3>3, FirstBlockNominal
    <3> QED BY <3>2, <3>3, <3>4
  <2>3. ASSUME NEW p \in FirstBlockPoints
        PROVE  \/ p.slot \div 2 \in {e.m : e \in shown}
               \/ p.rssi = 0
               \/ /\ StrongestDistance(raw.packet, 0, p.slot \div 2) \notin NoReturn
                  /\ StrongestEcho(raw.packet, p.slot \div 2).rssi = 0
    <3>1. PICK m \in 0 .. NMeas - 1 :
            /\ FirstBlockUsed(raw.packet) /\ p.slot \div 2 = m
            /\ \/ Seen(Chosen(raw.packet, m))
               \/ p.rssi = 0
               \/ /\ StrongestDistance(raw.packet, 0, m) \notin NoReturn
                  /\ StrongestEcho(raw.packet, m).rssi = 0
      BY <2>1, LeftOut
    <3>2. ASSUME Seen(Chosen(raw.packet, m)) PROVE m \in {e.m : e \in shown}
      <4> DEFINE e == [m |-> m, azimuth |-> be16ToHost(raw.packet.data_blocks[0].azimuth) + 25 * m,
                       echo |-> Chosen(raw.packet, m)]
      <4>1. e \in shown /\ e.m = m
        BY <3>1, <3>2 DEF LakibeamEchoes
      <4> HIDE DEF e, shown
      <4> QED BY <4>1
    <3> QED BY <3>1, <3>2
  <2> QED BY <2>2, <2>3 DEF LakibeamAgrees
<1> QED BY <1>1, Invariance, PTL

\* A turn more or less makes no difference.
LEMMA TurnMore ==
  ASSUME NEW u \in Int
  PROVE  (u + FullTurn) % FullTurn = u % FullTurn
<1>1. PICK q \in Int, r \in Int : q = u \div FullTurn /\ r = u % FullTurn
  BY TurnInt
<1>2. u = 36000 * q + r /\ 0 <= r /\ r < 36000
  BY <1>1, Turn
<1>3. (u + 36000) % 36000 = r
  BY <1>2
<1> QED BY <1>1, <1>3, Turn

\* A sum reduced to one turn is ahead of its first part by the second.
LEMMA Ahead ==
  ASSUME NEW a \in Int, 0 <= a, a < FullTurn, NEW s \in Int, 0 <= s, s < FullTurn
  PROVE  (((a + s) % FullTurn) - a) % FullTurn = s
<1>1. FullTurn \in Int /\ FullTurn > 0
  BY TurnInt
<1>2. PICK x \in Int : x = a + s
  OBVIOUS
<1>3. s % FullTurn = s
  BY <1>1
<1>4. CASE x < FullTurn
  <2>1. x % FullTurn = x
    BY <1>1, <1>2, <1>4
  <2>2. x - a = s
    BY <1>2
  <2> QED BY <1>2, <1>3, <2>1, <2>2
<1>5. CASE ~(x < FullTurn)
  <2>1. PICK t \in Int : t = x - FullTurn
    BY <1>1
  <2>2. 0 <= t /\ t < FullTurn /\ x = t + FullTurn
    BY <1>1, <1>2, <1>5, <2>1
  <2>3. x % FullTurn = t
    BY <1>1, <2>2
  <2>4. PICK u \in Int : u = t - a
    OBVIOUS
  <2>5. s = u + FullTurn
    BY <1>1, <1>2, <2>2, <2>4
  <2>6. u % FullTurn = (u + FullTurn) % FullTurn
    BY TurnMore
  <2> QED BY <1>2, <1>3, <2>3, <2>4, <2>5, <2>6
<1> QED BY <1>4, <1>5

(***************************************************************************)
(* What lidar_plotter draws is nearer than 5.68 m and lakibeam_reader      *)
(* prints it; what that one prints of the strongest returns is drawn if it *)
(* is nearer than 4 m or no further than another echo that is drawn; and a *)
(* drawn echo is at most fifteen steps of the sensor's own resolution      *)
(* behind the parser's angle.                                              *)
(***************************************************************************)
THEOREM PlotterCorrect == Spec => []PlotterAgrees
<1>1. ASSUME IInv PROVE PlotterAgrees
  <2> DEFINE plotted == PlottedEchoes(raw.packet)
             printed == {x \in LakibeamEchoes(raw.packet) :
                           StrongestDistance(raw.packet, 0, x.m) \notin NoReturn}
             azimuth == be16ToHost(raw.packet.data_blocks[0].azimuth)
             limit == Reach[azimuth]
             Shows(e, x) == e.m = x.m /\ e.echo = x.echo
  <2>1. raw.packet \in MSOPPacket
    BY <1>1, Packets
  <2>2. limit \in Int /\ 3999 <= limit /\ limit <= 5671
    <3>1. 0 \in 0 .. NBlocks - 1
      BY DEF NBlocks
    <3>2. azimuth \in UInt16
      BY <2>1, <3>1, AzimuthField
    <3> HIDE DEF azimuth
    <3> QED BY <3>2, ReachAssumption
  <2>3. \A m \in 0 .. NMeas - 1 :
          StrongestDistance(raw.packet, 0, m) \in Int
    <3>1. 0 \in 0 .. NBlocks - 1
      BY DEF NBlocks
    <3> QED BY <2>1, <3>1, DistanceFields DEF UInt16
  <2>4. \A m \in 0 .. NMeas - 1 :
          Drawn(azimuth, StrongestEcho(raw.packet, m)) <=>
            /\ StrongestDistance(raw.packet, 0, m) \notin NoReturn
            /\ Seen(Chosen(raw.packet, m))
            /\ StrongestDistance(raw.packet, 0, m) <= limit
    BY DEF Drawn, Seen, Chosen, StrongestEcho, OnCanvas
  <2>5. \A m \in 0 .. NMeas - 1 :
          StrongestDistance(raw.packet, 0, m) \notin NoReturn =>
            Chosen(raw.packet, m) = StrongestEcho(raw.packet, m)
    BY DEF Chosen
  <2>6. ASSUME NEW e \in plotted
        PROVE  /\ e.echo.distance \in Int /\ e.echo.distance <= limit
               /\ \E x \in printed : Shows(e, x)
    <3>1. PICK m \in 0 .. NMeas - 1 :
            /\ FirstBlockUsed(raw.packet) /\ Drawn(azimuth, StrongestEcho(raw.packet, m))
            /\ e.m = m /\ e.echo = StrongestEcho(raw.packet, m)
      BY DEF PlottedEchoes
    <3> DEFINE x == [m |-> m, azimuth |-> azimuth + 25 * m,
                     echo |-> Chosen(raw.packet, m)]
    <3>2. x \in LakibeamEchoes(raw.packet) /\ x.m = m /\ x.echo = Chosen(raw.packet, m)
      BY <2>4, <3>1 DEF LakibeamEchoes
    <3>3. x \in printed /\ x.echo = e.echo
      BY <2>4, <2>5, <3>1, <3>2
    <3>4. e.echo.distance \in Int /\ e.echo.distance <= limit
      BY <2>4, <2>3, <3>1 DEF StrongestEcho
    <3> HIDE DEF x, printed, limit
    <3> QED BY <3>1, <3>2, <3>3, <3>4
  <2>7. ASSUME NEW x \in printed, x.echo.distance <= limit
        PROVE  \E e \in plotted : Shows(e, x)
    <3>1. PICK m \in 0 .. NMeas - 1 :
            /\ FirstBlockUsed(raw.packet) /\ Seen(Chosen(raw.packet, m))
            /\ x.m = m /\ x.echo = Chosen(raw.packet, m)
      BY DEF LakibeamEchoes
    <3>2. StrongestDistance(raw.packet, 0, m) \notin NoReturn
      BY <3>1
    <3>3. Drawn(azimuth, StrongestEcho(raw.packet, m))
      BY <2>4, <2>5, <2>7, <3>1, <3>2 DEF StrongestEcho
    <3> DEFINE e == [m |-> m, azimuth |-> azimuth, echo |-> StrongestEcho(raw.packet, m)]
    <3>4. e \in plotted /\ e.m = m /\ e.echo = x.echo
      BY <2>5, <3>1, <3>2, <3>3 DEF PlottedEchoes
    <3> HIDE DEF e, plotted
    <3> QED BY <3>1, <3>4
  <2>8. ASSUME NEW x \in printed,
               x.echo.distance < 4000 \/ \E f \in plotted : x.echo.distance <= f.echo.distance
        PROVE  \E e \in plotted : Shows(e, x)
    <3>1. x.echo.distance \in Int
      <4>1. PICK m \in 0 .. NMeas - 1 :
              x.m = m /\ x.echo = Chosen(raw.packet, m)
        BY DEF LakibeamEchoes
      <4>2. StrongestDistance(raw.packet, 0, m) \notin NoReturn
        BY <4>1
      <4>3. x.echo = StrongestEcho(raw.packet, m)
        BY <2>5, <4>1, <4>2
      <4>4. StrongestEcho(raw.packet, m).distance \in Int
        BY <2>3 DEF StrongestEcho
      <4> QED BY <4>3, <4>4
    <3> HIDE DEF plotted, printed, limit
    <3>2. x.echo.distance <= limit
      BY <2>6, <2>8, <2>2, <3>1
    <3> QED BY <2>7, <3>2
  <2>9. ASSUME Nominal, NEW e \in plotted, NEW p \in FirstBlockPoints, p.slot = Slot(0, e.m, 0)
        PROVE  (p.azimuth - e.azimuth) % FullTurn <= 25 * (NMeas - 1)
    <3>1. PICK m \in 0 .. NMeas - 1 :
            /\ FirstBlockUsed(raw.packet) /\ e.m = m
            /\ e.azimuth = be16ToHost(raw.packet.data_blocks[0].azimuth)
      BY DEF PlottedEchoes
    <3>2. PICK n \in 0 .. NMeas - 1 :
            /\ p.azimuth = PointAzimuth(raw.packet, 0, n)
            /\ p.slot = Slot(0, n, 0) \/ p.slot = Slot(0, n, 1)
      BY <2>1, FirstPointIs DEF StrongestPoint, LastPoint
    <3>3. m = n
      <4>1. 0 \in 0 .. NBlocks - 1 /\ 0 \in 0 .. 1 /\ 1 \in 0 .. 1
        BY DEF NBlocks
      <4>2. p.slot \div 2 = m /\ p.slot \div 2 = n
        BY <2>9, <3>1, <3>2, <4>1, FirstBlockPlace
      <4> QED BY <4>2
    <3>4. PICK a \in Int : a = e.azimuth /\ 0 <= a /\ a < FullTurn
      <4>1. 0 \in 0 .. NBlocks - 1
        BY DEF NBlocks
      <4>2. isValidBlock(raw.packet.data_blocks[0])
        BY <2>1, <3>1, <4>1, BlocksAgree DEF FirstBlockUsed
      <4>3. getAzimuth(raw.packet, 0) < FullTurn
        BY <2>9, <4>1, <4>2, NominalBlocks
      <4>4. e.azimuth = getAzimuth(raw.packet, 0) /\ getAzimuth(raw.packet, 0) \in UInt16
        BY <2>1, <3>1, <4>1, AzimuthField DEF getAzimuth
      <4> QED BY <4>3, <4>4 DEF UInt16
    <3>5. p.azimuth = (a + 25 * m) % FullTurn
      BY <2>1, <2>9, <3>1, <3>2, <3>3, <3>4, FirstBlockNominal
    <3>6. PICK s \in Int : s = 25 * m /\ 0 <= s /\ s <= 25 * (NMeas - 1) /\ s < FullTurn
      BY Turn DEF NMeas
    <3>7. (((a + s) % FullTurn) - a) % FullTurn = s
      BY <3>4, <3>6, Ahead
    <3> QED BY <3>4, <3>5, <3>6, <3>7
  <2>10. \A e \in plotted : e.echo.distance < 5680 /\ \E x \in printed : Shows(e, x)
    <3> HIDE DEF plotted, printed, limit
    <3> QED BY <2>6, <2>2
  <2> QED BY <2>8, <2>9, <2>10 DEF PlotterAgrees
<1> QED BY <1>1, Invariance, PTL

-----------------------------------------------------------------------------
(* readScan.                                                               *)

\* In an evenly spaced packet the two programs interpolate over one step.
LEMMA EvenStep ==
  ASSUME raw.packet \in MSOPPacket, EvenlySpaced
  PROVE  /\ StepOf(raw.packet) \in Int /\ 0 <= StepOf(raw.packet) /\ 2 * StepOf(raw.packet) < FullTurn
         /\ \A b \in 0 .. NBlocks - 1 :
              /\ isValidBlock(raw.packet.data_blocks[b]) /\ getAzimuth(raw.packet, b) < FullTurn
              /\ b < NBlocks - 1 =>
                   getAzimuth(raw.packet, b + 1) = (getAzimuth(raw.packet, b) + StepOf(raw.packet)) % FullTurn
<1>1. 0 \in 0 .. NBlocks - 1 /\ 1 \in 0 .. NBlocks - 1
  BY DEF NBlocks
<1>2. PICK step : step = (getAzimuth(raw.packet, 1) - getAzimuth(raw.packet, 0)) % FullTurn
  OBVIOUS
<1>3. /\ step < FullTurn \div 2
      /\ \A b \in 0 .. NBlocks - 1 :
           /\ isValidBlock(raw.packet.data_blocks[b]) /\ getAzimuth(raw.packet, b) < FullTurn
           /\ b < NBlocks - 1 =>
                getAzimuth(raw.packet, b + 1) = (getAzimuth(raw.packet, b) + step) % FullTurn
  BY <1>2 DEF EvenlySpaced, Blocks, SlamValid, BlockAzimuth
<1>4. PICK a \in Int, n \in Int :
        /\ a = getAzimuth(raw.packet, 0) /\ n = getAzimuth(raw.packet, 1)
        /\ 0 <= a /\ a < FullTurn /\ 0 <= n /\ n < FullTurn
  BY <1>1, <1>3, AzimuthField DEF getAzimuth, UInt16
<1>5. FullTurn \in Int /\ FullTurn > 0
  BY TurnInt
<1>6. PICK d \in Int : d = n - a
  OBVIOUS
<1>7. step = d % FullTurn /\ step \in Int /\ 0 <= step /\ 2 * step < FullTurn
  <2>1. step = d % FullTurn
    BY <1>2, <1>4, <1>6
  <2>2. step \in Int /\ 0 <= step
    BY <1>5, <2>1
  <2> QED BY <1>3, <2>1, <2>2, Turn
<1>8. StepOf(raw.packet) = step
  <2>1. StepOf(raw.packet) = Remainder(n - a + FullTurn, FullTurn)
    BY <1>4 DEF StepOf, RawAzimuth, getAzimuth
  <2>2. PICK e \in Int : e = d + FullTurn
    BY <1>5
  <2>3. e >= 0 /\ n - a + FullTurn = e
    BY <1>4, <1>5, <1>6, <2>2
  <2>4. e % FullTurn = d % FullTurn
    BY <2>2, TurnMore
  <2> QED BY <1>7, <2>1, <2>3, <2>4 DEF Remainder
<1> QED BY <1>3, <1>7, <1>8

\* The beams and the points of such a packet have the same angles.
LEMMA BeamAngles ==
  ASSUME raw.packet \in MSOPPacket, EvenlySpaced, NEW b \in 0 .. NBlocks - 1, NEW m \in 0 .. NMeas - 1
  PROVE  BeamAngle(raw.packet, b, m, 0) = SlamAzimuth(raw.packet, b, m)
<1> DEFINE step == StepOf(raw.packet)
<1>1. /\ step \in Int /\ 0 <= step /\ 2 * step < FullTurn
      /\ \A c \in 0 .. NBlocks - 1 :
           /\ isValidBlock(raw.packet.data_blocks[c]) /\ getAzimuth(raw.packet, c) < FullTurn
           /\ c < NBlocks - 1 => getAzimuth(raw.packet, c + 1) = (getAzimuth(raw.packet, c) + step) % FullTurn
  BY EvenStep
<1>2. b < NBlocks - 1 => b + 1 \in 0 .. NBlocks - 1
  BY DEF NBlocks
<1>3. b = NBlocks - 1 => b - 1 \in 0 .. NBlocks - 1 /\ b - 1 < NBlocks - 1 /\ (b - 1) + 1 = b
  BY DEF NBlocks
<1>4. Wraparound(nextAzimuth(raw.packet, b) - getAzimuth(raw.packet, b)) = step
  <2> HIDE DEF step
  <2> QED BY <1>1, <1>2, <1>3, SlamTowards
<1>5. PICK a \in Int : a = getAzimuth(raw.packet, b) /\ a = RawAzimuth(raw.packet, b)
  BY AzimuthField DEF getAzimuth, RawAzimuth, UInt16
<1>6. a + 100 * 0 = a
  OBVIOUS
<1> QED BY <1>4, <1>5, <1>6 DEF BeamAngle, SlamAzimuth, calculatePointAzimuth

\* The beam of a measurement: the strongest return, if there is one.
LEMMA BeamIs ==
  ASSUME raw.packet \in MSOPPacket, EvenlySpaced, NEW b \in 0 .. NBlocks - 1, NEW m \in 0 .. NMeas - 1
  PROVE  LET beam == Beam(raw.packet, b, m, 0)
         IN  /\ beam.angle = SlamAzimuth(raw.packet, b, m)
             /\ beam.range \notin {65535, Infinite} <=> SlamStrongestReported(raw.packet, b, m)
             /\ SlamStrongestReported(raw.packet, b, m) => beam.range = Strongest(raw.packet, b, m)
<1> DEFINE d == StrongestDistance(raw.packet, b, m)
           beam == Beam(raw.packet, b, m, 0)
<1>1. beam.angle = SlamAzimuth(raw.packet, b, m)
  BY BeamAngles DEF Beam
<1>2. Returned(raw.packet, b, m) <=> d > 0
  <2>1. be16ToHost(raw.packet.data_blocks[b].flag) = 65518
    BY EvenStep, BlocksAgree
  <2> QED BY <2>1 DEF Returned, RawDistance, StrongestDistance
<1>3. beam.range = IF d > 0 THEN d ELSE Infinite
  BY <1>2 DEF Beam, RawDistance, StrongestDistance
<1>4. d \in UInt16 /\ Strongest(raw.packet, b, m) = IF d = 65535 THEN 0 ELSE d
  BY DistancesAgree
<1>5. d \in Int /\ 0 <= d /\ d # Infinite
  BY <1>4 DEF UInt16, Infinite
<1>6. SlamStrongestReported(raw.packet, b, m) <=> d > 0 /\ d # 65535
  <2> HIDE DEF d
  <2> QED BY <1>4, <1>5 DEF SlamStrongestReported
<1>7. /\ beam.range \notin {65535, Infinite} <=> SlamStrongestReported(raw.packet, b, m)
      /\ SlamStrongestReported(raw.packet, b, m) => beam.range = Strongest(raw.packet, b, m)
  <2> HIDE DEF d, beam
  <2>1. CASE d > 0 /\ d # 65535
    <3>1. beam.range = d /\ Strongest(raw.packet, b, m) = d
      BY <1>3, <1>4, <2>1
    <3> QED BY <1>5, <1>6, <2>1, <3>1
  <2>2. CASE ~(d > 0)
    <3>1. beam.range = Infinite
      BY <1>3, <2>2
    <3> QED BY <1>6, <2>2, <3>1
  <2>3. CASE d = 65535
    <3>1. beam.range = 65535
      BY <1>3, <2>3
    <3> QED BY <1>6, <2>3, <3>1
  <2> QED BY <2>1, <2>2, <2>3
<1> QED BY <1>1, <1>7

\* The number of the beam of a measurement.
Numbered(k, b, m) == k = b * NMeas + m /\ k \div NMeas = b /\ k % NMeas = m

\* Every beam has a measurement, and every measurement a beam.
LEMMA BeamPlace ==
  /\ \A k \in Beams : \E b \in 0 .. NBlocks - 1, m \in 0 .. NMeas - 1 : Numbered(k, b, m)
  /\ \A b \in 0 .. NBlocks - 1, m \in 0 .. NMeas - 1 : \E k \in Beams : Numbered(k, b, m)
<1>1. Beams = 0 .. 191 /\ NBlocks - 1 = 11 /\ NMeas = 16
  BY DEF Beams, NBlocks, NMeas
<1>2. ASSUME NEW k \in 0 .. 191
      PROVE  \E b \in 0 .. 11, m \in 0 .. 15 : Numbered(k, b, m)
  <2>1. PICK b \in Int, m \in Int : b = k \div 16 /\ m = k % 16
    OBVIOUS
  <2>2. k = b * 16 + m /\ 0 <= m /\ m <= 15 /\ 0 <= b /\ b <= 11
    BY <2>1
  <2> QED BY <1>1, <2>1, <2>2 DEF Numbered
<1>3. ASSUME NEW b \in 0 .. 11, NEW m \in 0 .. 15
      PROVE  \E k \in 0 .. 191 : Numbered(k, b, m)
  <2>1. PICK k \in Int : k = b * 16 + m
    OBVIOUS
  <2>2. 0 <= k /\ k <= 191 /\ k \div 16 = b /\ k % 16 = m
    BY <2>1
  <2> QED BY <1>1, <2>1, <2>2 DEF Numbered
<1>4. \A k \in Beams : \E b \in 0 .. NBlocks - 1, m \in 0 .. NMeas - 1 : Numbered(k, b, m)
  <2>1. NMeas - 1 = 15
    BY <1>1
  <2> QED BY <1>1, <1>2, <2>1
<1>5. \A b \in 0 .. NBlocks - 1, m \in 0 .. NMeas - 1 : \E k \in Beams : Numbered(k, b, m)
  <2>1. NMeas - 1 = 15
    BY <1>1
  <2> QED BY <1>1, <1>3, <2>1
<1> QED BY <1>4, <1>5

(***************************************************************************)
(* readScan agrees with the parser beside it, beam by beam, as long as the *)
(* blocks are all valid and evenly spaced below half a turn.               *)
(***************************************************************************)
THEOREM ScanCorrect == Spec => []ScanAgrees
<1>1. ASSUME IInv PROVE ScanAgrees
  <2> DEFINE scan == DefaultScan(raw.packet)
             Hits == {j \in Beams : scan[j].range \notin {65535, Infinite}}
             Echoes == {q \in points : q.is_strongest}
             OfBeam(k) == [k |-> k, angle |-> scan[k].angle, range |-> scan[k].range]
             OfPoint(p) == [k |-> p.slot \div 2, angle |-> p.azimuth, range |-> p.distance]
  <2> SUFFICES ASSUME stage = "done", EvenlySpaced
               PROVE  {OfBeam(k) : k \in Hits} = {OfPoint(p) : p \in Echoes}
    BY DEF ScanAgrees
  <2>1. raw.packet \in MSOPPacket /\ points = SlamPoints(raw.packet)
    BY <1>1, Packets DEF IInv
  <2>2. \A b \in 0 .. NBlocks - 1 : isValidBlock(raw.packet.data_blocks[b])
    BY <2>1, EvenStep
  <2>3. \A k \in Beams : scan[k] = Beam(raw.packet, k \div NMeas, k % NMeas, 0)
    BY DEF DefaultScan, Scan, Place
  <2>4. ASSUME NEW k \in Beams, NEW b \in 0 .. NBlocks - 1, NEW m \in 0 .. NMeas - 1,
               Numbered(k, b, m), SlamStrongestReported(raw.packet, b, m)
        PROVE  /\ k \in Hits
               /\ SlamStrongestPoint(raw.packet, b, m) \in Echoes
               /\ OfBeam(k) = OfPoint(SlamStrongestPoint(raw.packet, b, m))
    <3> DEFINE p == SlamStrongestPoint(raw.packet, b, m)
    <3>1. scan[k] = Beam(raw.packet, b, m, 0)
      <4> HIDE DEF scan
      <4> QED BY <2>3, <2>4 DEF Numbered
    <3>2. /\ scan[k].angle = SlamAzimuth(raw.packet, b, m)
          /\ scan[k].range \notin {65535, Infinite} /\ scan[k].range = Strongest(raw.packet, b, m)
      <4> HIDE DEF scan
      <4> QED BY <2>1, <2>4, <3>1, BeamIs
    <3>3. p \in points
      BY <2>1, <2>2, <2>4, SlamIs
    <3>4. p.slot \div 2 = k
      <4>1. p.slot = Slot(b, m, 0) /\ 0 \in 0 .. 1
        BY DEF SlamStrongestPoint
      <4> HIDE DEF p
      <4> QED BY <2>4, <4>1, SlotParts DEF Numbered
    <3>5. p.is_strongest /\ p.azimuth = SlamAzimuth(raw.packet, b, m) /\ p.distance = Strongest(raw.packet, b, m)
      BY DEF SlamStrongestPoint
    <3> HIDE DEF p, scan
    <3>6. k \in Hits /\ p \in Echoes
      BY <3>2, <3>3, <3>5
    <3>7. OfBeam(k) = OfPoint(p)
      BY <3>2, <3>4, <3>5
    <3> HIDE DEF Hits, Echoes, OfBeam, OfPoint
    <3> QED BY <3>6, <3>7 DEF p
  <2>5. ASSUME NEW k \in Hits PROVE \E p \in Echoes : OfBeam(k) = OfPoint(p)
    <3>1. k \in Beams /\ scan[k].range \notin {65535, Infinite}
      <4> HIDE DEF scan
      <4> QED OBVIOUS
    <3> HIDE DEF Hits, Echoes, OfBeam, OfPoint, scan
    <3>2. PICK b \in 0 .. NBlocks - 1, m \in 0 .. NMeas - 1 : Numbered(k, b, m)
      BY <3>1, BeamPlace
    <3>3. scan[k] = Beam(raw.packet, b, m, 0)
      BY <2>3, <3>1, <3>2 DEF Numbered
    <3>4. SlamStrongestReported(raw.packet, b, m)
      BY <2>1, <3>1, <3>3, BeamIs
    <3> QED BY <2>4, <3>1, <3>2, <3>4
  <2>6. ASSUME NEW p \in Echoes PROVE \E k \in Hits : OfBeam(k) = OfPoint(p)
    <3>1. PICK b \in 0 .. NBlocks - 1, m \in 0 .. NMeas - 1 :
            \/ SlamStrongestReported(raw.packet, b, m) /\ p = SlamStrongestPoint(raw.packet, b, m)
            \/ p = SlamLastPoint(raw.packet, b, m)
      BY <2>1, SlamIs
    <3>2. p # SlamLastPoint(raw.packet, b, m)
      BY DEF SlamLastPoint
    <3>3. PICK k \in Beams : Numbered(k, b, m)
      BY BeamPlace
    <3> HIDE DEF Hits, Echoes, OfBeam, OfPoint, scan
    <3> QED BY <2>4, <3>1, <3>2, <3>3
  <2> HIDE DEF Hits, Echoes, OfBeam, OfPoint, scan
  <2>7. \A y : (\E k \in Hits : y = OfBeam(k)) <=> (\E p \in Echoes : y = OfPoint(p))
    BY <2>5, <2>6
  <2> QED BY <2>7
<1> QED BY <1>1, Invariance, PTL

=============================================================================
