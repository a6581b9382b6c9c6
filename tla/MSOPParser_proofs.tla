-------------------------- MODULE MSOPParser_proofs --------------------------
(***************************************************************************)
(* The properties of MSOPParser, for every set of datagrams.               *)
(*                                                                         *)
(* The vector of points is a function of the buffer as long as the latest  *)
(* call accepted it, and empty otherwise.  With that as the invariant, what*)
(* is said of the points is a fact about ParsedPoints of one packet.       *)
(***************************************************************************)
EXTENDS MSOPParser, Operators_proofs

PointsOfBuffer ==
  /\ ok => /\ buffer.size = PacketSize
           /\ points = ParsedPoints(buffer.packet)
           /\ last_timestamp_ = be32ToHost(buffer.packet.timestamp)
           /\ last_factory_info_ = be16ToHost(buffer.packet.factory_info)
  /\ ~ok => points = {}

IInv == TypeOK /\ PointsOfBuffer

-----------------------------------------------------------------------------

\* The packet of a datagram has the layout of MSOPPacket.
LEMMA Packets ==
  ASSUME NEW d \in Datagrams
  PROVE  d.packet \in MSOPPacket
BY DatagramsAssumption DEF Datagram

\* Swapping the four bytes of the timestamp gives four bytes.
LEMMA TimestampType ==
  ASSUME NEW packet \in MSOPPacket
  PROVE  be32ToHost(packet.timestamp) \in [1 .. 4 -> UInt8]
<1>1. packet.timestamp \in [1 .. 4 -> UInt8]
  BY DEF MSOPPacket
<1>2. \A i \in 1 .. 4 : 5 - i \in 1 .. 4
  OBVIOUS
<1> QED BY <1>1, <1>2 DEF be32ToHost

\* The vector of a new parser is empty.
LEMMA InitIInv == Init => IInv
<1> SUFFICES ASSUME Init PROVE IInv
  OBVIOUS
<1>1. Zero32 \in [1 .. 4 -> UInt8]
  BY DEF Zero32, UInt8
<1>2. 0 \in UInt16
  BY DEF UInt16
<1> QED BY <1>1, <1>2 DEF Init, IInv, TypeOK, PointsOfBuffer

\* A call keeps the invariant, whether it accepts or refuses the datagram.
LEMMA NextIInv == IInv /\ [Next]_vars => IInv'
<1> SUFFICES ASSUME IInv, [Next]_vars PROVE IInv'
  OBVIOUS
<1> USE DEF IInv
<1>1. CASE UNCHANGED vars
  BY <1>1 DEF vars, TypeOK, PointsOfBuffer
<1>2. ASSUME NEW d \in Datagrams, buffer' = d, Reject(d)
      PROVE  IInv'
  BY <1>2 DEF Reject, TypeOK, PointsOfBuffer
<1>3. ASSUME NEW d \in Datagrams, buffer' = d, Accept(d)
      PROVE  IInv'
  <2>1. d.packet \in MSOPPacket
    BY Packets
  <2>2. points' \in SUBSET Point
    BY <1>3, <2>1, ParsedArePoints DEF Accept
  <2>3. last_timestamp_' \in [1 .. 4 -> UInt8]
    BY <1>3, <2>1, TimestampType DEF Accept
  <2>4. last_factory_info_' \in UInt16
    <3>1. d.packet.factory_info \in UInt16
      BY <2>1 DEF MSOPPacket
    <3> QED BY <1>3, <3>1, SwapRange DEF Accept
  <2>5. TypeOK'
    BY <1>3, <2>2, <2>3, <2>4 DEF Accept, TypeOK
  <2>6. PointsOfBuffer'
    BY <1>3 DEF Accept, PointsOfBuffer
  <2> QED BY <2>5, <2>6
<1> QED BY <1>1, <1>2, <1>3 DEF Next, parsePacket

(***************************************************************************)
(* The invariant holds in every behaviour.                                 *)
(***************************************************************************)
THEOREM Invariance == Spec => []IInv
BY InitIInv, NextIInv, PTL DEF Spec

(***************************************************************************)
(* Type correctness: every point ever in the vector is at an angle of one  *)
(* turn and within the range of the sensor, whatever was received.         *)
(***************************************************************************)
THEOREM TypeCorrect == Spec => []TypeOK
<1>1. IInv => TypeOK
  BY DEF IInv
<1> QED BY <1>1, Invariance, PTL

(***************************************************************************)
(* Points, timestamp and factory word are those of one datagram.           *)
(***************************************************************************)
THEOREM MetadataCorrect == Spec => []PointsMatchMetadata
<1>1. IInv => PointsMatchMetadata
  BY DEF IInv, PointsOfBuffer, PointsMatchMetadata, be32ToHost
<1> QED BY <1>1, Invariance, PTL

-----------------------------------------------------------------------------
(* What the elements of the vector are.                                    *)

\* A point of the vector is the strongest or the last return of a valid block.
LEMMA ReadingOf ==
  ASSUME NEW packet, NEW p \in ParsedPoints(packet)
  PROVE  \E b \in ValidBlocks(packet), m \in 0 .. NMeas - 1 :
           \/ StrongestReported(packet, b, m) /\ p = StrongestPoint(packet, b, m)
           \/ LastReported(packet, b, m) /\ p = LastPoint(packet, b, m)
BY DEF ParsedPoints, Readings, ValidBlocks

\* A reported return is in the vector.
LEMMA InVector ==
  ASSUME NEW packet, NEW b \in ValidBlocks(packet), NEW m \in 0 .. NMeas - 1
  PROVE  /\ StrongestReported(packet, b, m) => StrongestPoint(packet, b, m) \in ParsedPoints(packet)
         /\ LastReported(packet, b, m) => LastPoint(packet, b, m) \in ParsedPoints(packet)
<1>1. <<b, m>> \in Readings(packet)
  BY DEF Readings, ValidBlocks
<1> QED BY <1>1 DEF ParsedPoints

\* The slot of a point tells its block, measurement and return.
LEMMA OfSlot ==
  ASSUME NEW packet, NEW p \in ParsedPoints(packet),
         NEW b \in 0 .. NBlocks - 1, NEW m \in 0 .. NMeas - 1
  PROVE  /\ p.slot = Slot(b, m, 0) => /\ b \in ValidBlocks(packet)
                                      /\ StrongestReported(packet, b, m)
                                      /\ p = StrongestPoint(packet, b, m)
         /\ p.slot = Slot(b, m, 1) => /\ b \in ValidBlocks(packet)
                                      /\ LastReported(packet, b, m)
                                      /\ p = LastPoint(packet, b, m)
<1>1. PICK c \in ValidBlocks(packet), n \in 0 .. NMeas - 1 :
         \/ StrongestReported(packet, c, n) /\ p = StrongestPoint(packet, c, n)
         \/ LastReported(packet, c, n) /\ p = LastPoint(packet, c, n)
  BY ReadingOf
<1>2. c \in 0 .. NBlocks - 1
  BY DEF ValidBlocks
<1>3. 0 \in 0 .. 1 /\ 1 \in 0 .. 1 /\ 0 # 1
  OBVIOUS
<1>4. CASE StrongestReported(packet, c, n) /\ p = StrongestPoint(packet, c, n)
  <2>1. p.slot = Slot(c, n, 0)
    BY <1>4 DEF StrongestPoint
  <2>2. p.slot = Slot(b, m, 0) => c = b /\ n = m
    BY <1>2, <1>3, <2>1, SlotInjective
  <2>3. p.slot # Slot(b, m, 1)
    BY <1>2, <1>3, <2>1, SlotInjective
  <2> QED BY <1>4, <2>2, <2>3
<1>5. CASE LastReported(packet, c, n) /\ p = LastPoint(packet, c, n)
  <2>1. p.slot = Slot(c, n, 1)
    BY <1>5 DEF LastPoint
  <2>2. p.slot = Slot(b, m, 1) => c = b /\ n = m
    BY <1>2, <1>3, <2>1, SlotInjective
  <2>3. p.slot # Slot(b, m, 0)
    BY <1>2, <1>3, <2>1, SlotInjective
  <2> QED BY <1>5, <2>2, <2>3
<1> QED BY <1>1, <1>4, <1>5

-----------------------------------------------------------------------------
(* Every echo once.                                                        *)

(***************************************************************************)
(* The limits of the sensor exclude both marks for "no return", and the    *)
(* check of the angle never rejects a point.                               *)
(***************************************************************************)
LEMMA PlausibleIsInRange ==
  ASSUME NEW packet \in MSOPPacket, NEW b \in 0 .. NBlocks - 1, NEW m \in 0 .. NMeas - 1,
         NEW e \in UInt16
  PROVE  Plausible(packet, b, m, e) <=> e \in Distance
<1>1. PointAzimuth(packet, b, m) \in Azimuth
  BY PointAzimuthType
<1>2. isValidAzimuth(PointAzimuth(packet, b, m))
  BY <1>1, TurnInt DEF Azimuth, isValidAzimuth
<1>3. isValidDistance(e) => e \in Distance
  BY InRange
<1>4. e \in Distance => isValidDistance(e)
  <2>1. MinDistance \in Int /\ MaxDistance \in Int
    BY DEF MinDistance, MaxDistance
  <2> QED BY <2>1 DEF Distance, isValidDistance
<1>5. isValidDistance(e) => e # 0 /\ e # 65535
  BY DEF isValidDistance, MinDistance, MaxDistance
<1> QED BY <1>2, <1>3, <1>4, <1>5 DEF Plausible

\* An echo of a valid block is reported once, of another block not at all.
LEMMA EchoesOfOneReading ==
  ASSUME NEW packet \in MSOPPacket, NEW b \in 0 .. NBlocks - 1, NEW m \in 0 .. NMeas - 1,
         NEW e, e \in {StrongestDistance(packet, b, m), LastDistance(packet, b, m)},
         NEW Q, Q = {p \in ParsedPoints(packet) :
                       p.slot \in {Slot(b, m, 0), Slot(b, m, 1)} /\ p.distance = e}
  PROVE  Cardinality(Q) = IF isValidDataBlock(packet.data_blocks[b]) /\ e \in Distance
                          THEN 1 ELSE 0
<1> DEFINE sd == StrongestDistance(packet, b, m)
           ld == LastDistance(packet, b, m)
           sp == StrongestPoint(packet, b, m)
           lp == LastPoint(packet, b, m)
<1>1. /\ sp.slot = Slot(b, m, 0) /\ sp.distance = sd
      /\ lp.slot = Slot(b, m, 1) /\ lp.distance = ld
  BY DEF StrongestPoint, LastPoint
<1>2. sd \in UInt16 /\ ld \in UInt16
  BY DistanceFields
<1>3. /\ StrongestReported(packet, b, m) <=> sd \in Distance
      /\ LastReported(packet, b, m) <=> ld \in Distance /\ ld # sd
  BY <1>2, PlausibleIsInRange DEF StrongestReported, LastReported
<1>4. ASSUME NEW p \in Q
      PROVE  /\ b \in ValidBlocks(packet)
             /\ \/ p = sp /\ sd \in Distance /\ e = sd
                \/ p = lp /\ ld \in Distance /\ ld # sd /\ e = ld
  BY <1>1, <1>3, OfSlot
<1>5. CASE isValidDataBlock(packet.data_blocks[b]) /\ e \in Distance
  <2>1. b \in ValidBlocks(packet)
    BY <1>5 DEF ValidBlocks
  <2>2. CASE e = sd
    <3>1. sp \in ParsedPoints(packet)
      BY <1>3, <1>5, <2>1, <2>2, InVector
    <3>2. Q = {sp}
      BY <1>1, <1>4, <2>2, <3>1
    <3> QED BY <1>5, <3>2, FS_Singleton
  <2>3. CASE e = ld /\ ld # sd
    <3>1. lp \in ParsedPoints(packet)
      BY <1>3, <1>5, <2>1, <2>3, InVector
    <3>2. Q = {lp}
      BY <1>1, <1>4, <2>3, <3>1
    <3> QED BY <1>5, <3>2, FS_Singleton
  <2> QED BY <2>2, <2>3
<1>6. CASE ~(isValidDataBlock(packet.data_blocks[b]) /\ e \in Distance)
  <2>1. Q = {}
    BY <1>4, <1>6 DEF ValidBlocks
  <2> QED BY <1>6, <2>1, FS_EmptySet
<1> QED BY <1>5, <1>6

(***************************************************************************)
(* Every valid echo is reported exactly once, in every packet.             *)
(***************************************************************************)
THEOREM EchoesCorrect == Spec => []EveryEchoOnce
<1>1. IInv => EveryEchoOnce
  <2> SUFFICES ASSUME IInv, ok,
                      NEW b \in 0 .. NBlocks - 1, NEW m \in 0 .. NMeas - 1,
                      NEW e \in Echoes(b, m)
               PROVE  Cardinality({p \in PointsOf(b, m) : p.distance = e}) =
                        IF isValidDataBlock(buffer.packet.data_blocks[b]) /\ e \in Distance
                        THEN 1 ELSE 0
    BY DEF EveryEchoOnce
  <2>1. buffer.packet \in MSOPPacket
    BY Packets DEF IInv, TypeOK
  <2>2. points = ParsedPoints(buffer.packet)
    BY DEF IInv, PointsOfBuffer
  <2>3. {p \in PointsOf(b, m) : p.distance = e} =
          {p \in ParsedPoints(buffer.packet) :
             p.slot \in {Slot(b, m, 0), Slot(b, m, 1)} /\ p.distance = e}
    BY <2>2 DEF PointsOf
  <2> QED BY <2>1, <2>3, EchoesOfOneReading DEF Echoes
<1> QED BY <1>1, Invariance, PTL

-----------------------------------------------------------------------------

(***************************************************************************)
(* A packet recognised as the last of a rotation has points from its first *)
(* half only.                                                              *)
(***************************************************************************)
THEOREM LastPacketCorrect == Spec => []LastPacketHalfEmpty
<1>1. IInv => LastPacketHalfEmpty
  <2> SUFFICES ASSUME IInv, ok, isLastPacket(buffer.packet), NEW p \in points
               PROVE  p.slot < Slot(6, 0, 0)
    BY DEF LastPacketHalfEmpty
  <2>1. p \in ParsedPoints(buffer.packet)
    BY DEF IInv, PointsOfBuffer
  <2>2. PICK b \in ValidBlocks(buffer.packet), m \in 0 .. NMeas - 1, r \in 0 .. 1 :
           p.slot = Slot(b, m, r)
    <3>1. 0 \in 0 .. 1 /\ 1 \in 0 .. 1
      OBVIOUS
    <3> QED BY <2>1, <3>1, ReadingOf DEF StrongestPoint, LastPoint
  <2>3. b \in 0 .. NBlocks - 1 /\ be16ToHost(buffer.packet.data_blocks[b].flag) = 65518
    BY DEF ValidBlocks, isValidDataBlock
  <2>4. b \notin 6 .. NBlocks - 1
    BY <2>3 DEF isLastPacket
  <2>5. /\ b \in Int /\ 0 <= b /\ b <= 5
        /\ m \in Int /\ 0 <= m /\ m <= 15
        /\ r \in Int /\ 0 <= r /\ r <= 1
    BY <2>3, <2>4 DEF NBlocks, NMeas
  <2>6. (b * 16 + m) * 2 + r < (6 * 16 + 0) * 2 + 0
    BY <2>5
  <2> QED BY <2>2, <2>6 DEF Slot, NMeas
<1> QED BY <1>1, Invariance, PTL

-----------------------------------------------------------------------------
(* The sweep is not folded.                                                *)

\* Multiplication by a natural number keeps the order.
LEMMA Monotone ==
  ASSUME NEW r \in Int, 0 <= r, NEW i \in Int, NEW j \in Int, 0 <= i, i <= j
  PROVE  r * i <= r * j
<1>1. PICK k \in Int : k = j - i
  OBVIOUS
<1>2. 0 <= r * k
  BY <1>1
<1>3. r * j = r * i + r * k
  BY <1>1
<1> QED BY <1>2, <1>3

(***************************************************************************)
(* In a clockwise packet the angles of a block grow by one step r, which   *)
(* is the default before a gap and does not reach the next block without   *)
(* one.                                                                    *)
(***************************************************************************)
LEMMA LinearInBlock ==
  ASSUME NEW packet \in MSOPPacket, Clockwise(packet), NEW b \in ValidBlocks(packet)
  PROVE  \E r \in Int :
           /\ 0 <= r
           /\ \A m \in 0 .. NMeas - 1 : PointAzimuth(packet, b, m) = Az(packet, b) + r * m
           /\ IF b + 1 \in ValidBlocks(packet)
              THEN Az(packet, b) + 16 * r <= Az(packet, b + 1)
              ELSE r = 25
<1>1. PICK a \in Int : a = Az(packet, b)
  <2>1. b \in 0 .. NBlocks - 1
    BY DEF ValidBlocks
  <2> QED BY <2>1, AzimuthField DEF Az, UInt16
<1>2. 0 <= a /\ a < 35600
  <2>1. b \in 0 .. NBlocks - 1
    BY DEF ValidBlocks
  <2>2. 0 <= a
    BY <1>1, <2>1, AzimuthField DEF Az, UInt16
  <2>3. a < 35600
    BY <1>1, Turn DEF Clockwise, NMeas
  <2> QED BY <2>2, <2>3
<1>3. ASSUME NEW r \in Int, 0 <= r, NEW n,
             n = NextAzimuth(packet, b), r = Resolution(a, n),
             NEW m \in 0 .. NMeas - 1, a + 15 * r < 36000
      PROVE  PointAzimuth(packet, b, m) = a + r * m
  <2>1. m \in Int /\ 0 <= m /\ m <= 15
    BY DEF NMeas
  <2>2. PICK p : p = r * m
    OBVIOUS
  <2>3. p \in Int /\ 0 <= p /\ p <= 15 * r
    BY <1>3, <2>1, <2>2, StepBelow
  <2>4. PICK x \in Int : x = a + p
    BY <2>3
  <2>5. 0 <= x /\ x < FullTurn
    BY <1>2, <1>3, <2>3, <2>4, Turn
  <2>6. PointAzimuth(packet, b, m) = (x % 2^16) % FullTurn
    BY <1>1, <1>3, <2>2, <2>4 DEF PointAzimuth, calculateAzimuth, Az
  <2> QED BY <2>2, <2>4, <2>5, <2>6, Reduced
<1>4. CASE b + 1 \in ValidBlocks(packet)
  <2>1. b \in 0 .. NBlocks - 1 /\ b + 1 \in 0 .. NBlocks - 1
    BY <1>4 DEF ValidBlocks
  <2>2. b < NBlocks - 1 /\ b < b + 1
    BY <2>1 DEF NBlocks
  <2>3. PICK n \in Int : n = Az(packet, b + 1)
    BY <2>1, AzimuthField DEF Az, UInt16
  <2>4. n = NextAzimuth(packet, b)
    BY <1>4, <2>2, <2>3 DEF NextAzimuth, Az, ValidBlocks
  <2>5. a < n
    BY <1>1, <1>4, <2>2, <2>3 DEF Clockwise
  <2>6. n < 35600
    BY <1>4, <2>3, Turn DEF Clockwise, NMeas
  <2>7. PICK r : r = (n - a) \div 16
    OBVIOUS
  <2>8. r \in Int /\ 0 <= r /\ 16 * r <= n - a
    BY <2>5, <2>7
  <2>9. r = Resolution(a, n)
    BY <2>5, <2>7 DEF Resolution, NMeas
  <2>10. a + 15 * r < 36000
    BY <2>6, <2>8
  <2>11. \A m \in 0 .. NMeas - 1 : PointAzimuth(packet, b, m) = a + r * m
    BY <1>3, <2>4, <2>8, <2>9, <2>10
  <2>12. a + 16 * r <= n
    BY <2>8
  <2> QED BY <1>1, <1>4, <2>3, <2>8, <2>11, <2>12
<1>5. CASE b + 1 \notin ValidBlocks(packet)
  <2>1. b \in 0 .. NBlocks - 1
    BY DEF ValidBlocks
  <2>2. b < NBlocks - 1 => b + 1 \in 0 .. NBlocks - 1
    BY <2>1 DEF NBlocks
  <2>3. a = NextAzimuth(packet, b)
    BY <1>1, <1>5, <2>2 DEF NextAzimuth, Az, ValidBlocks
  <2>4. 25 = Resolution(a, a)
    BY DEF Resolution
  <2>5. a + 15 * 25 < 36000
    BY <1>2
  <2>6. \A m \in 0 .. NMeas - 1 : PointAzimuth(packet, b, m) = a + 25 * m
    BY <1>3, <2>3, <2>4, <2>5
  <2> QED BY <1>1, <1>5, <2>6
<1> QED BY <1>4, <1>5

\* In a clockwise packet a later measurement is not at a smaller angle.
LEMMA SweepOfPacket ==
  ASSUME NEW packet \in MSOPPacket, Clockwise(packet),
         NEW b \in ValidBlocks(packet), NEW c \in ValidBlocks(packet),
         NEW m \in 0 .. NMeas - 1, NEW n \in 0 .. NMeas - 1,
         b < c \/ (b = c /\ m <= n)
  PROVE  PointAzimuth(packet, b, m) <= PointAzimuth(packet, c, n)
<1>1. PICK r \in Int :
        /\ 0 <= r
        /\ \A i \in 0 .. NMeas - 1 : PointAzimuth(packet, b, i) = Az(packet, b) + r * i
        /\ IF b + 1 \in ValidBlocks(packet)
           THEN Az(packet, b) + 16 * r <= Az(packet, b + 1)
           ELSE r = 25
  BY LinearInBlock
<1>2. PICK s \in Int :
        /\ 0 <= s
        /\ \A i \in 0 .. NMeas - 1 : PointAzimuth(packet, c, i) = Az(packet, c) + s * i
  BY LinearInBlock
<1>3. b \in 0 .. NBlocks - 1 /\ c \in 0 .. NBlocks - 1
  BY DEF ValidBlocks
<1>4. PICK ab \in Int, ac \in Int : ab = Az(packet, b) /\ ac = Az(packet, c)
  BY <1>3, AzimuthField DEF Az, UInt16
<1>5. m \in Int /\ 0 <= m /\ m <= 15 /\ n \in Int /\ 0 <= n /\ n <= 15
  BY DEF NMeas
<1>6. PICK rm \in Int, sn \in Int : rm = r * m /\ sn = s * n /\ 0 <= sn /\ rm <= 15 * r
  BY <1>1, <1>2, <1>5, StepBelow
<1>7. PointAzimuth(packet, b, m) = ab + rm /\ PointAzimuth(packet, c, n) = ac + sn
  BY <1>1, <1>2, <1>4, <1>6
<1>8. CASE b = c /\ m <= n
  <2>1. PointAzimuth(packet, c, n) = ab + r * n
    BY <1>1, <1>4, <1>8
  <2>2. r * m <= r * n /\ r * n \in Int
    BY <1>1, <1>5, <1>8, Monotone, StepBelow
  <2> QED BY <1>6, <1>7, <2>1, <2>2
<1>9. CASE b < c
  <2>1. ab + rm <= ac
    <3>1. CASE b + 1 \in ValidBlocks(packet)
      <4>1. b + 1 \in 0 .. NBlocks - 1
        BY <3>1 DEF ValidBlocks
      <4>2. PICK d \in Int : d = Az(packet, b + 1)
        BY <4>1, AzimuthField DEF Az, UInt16
      <4>3. d <= ac
        <5>1. CASE b + 1 = c
          BY <1>4, <4>2, <5>1
        <5>2. CASE b + 1 # c
          <6>1. b + 1 < c
            BY <1>3, <1>9, <5>2
          <6>2. d < ac \/ d + 25 * (NMeas - 1) <= ac
            BY <1>4, <3>1, <4>2, <6>1 DEF Clockwise
          <6> QED BY <6>2 DEF NMeas
        <5> QED BY <5>1, <5>2
      <4>4. ab + 16 * r <= d
        BY <1>1, <1>4, <3>1, <4>2
      <4> QED BY <1>1, <1>6, <4>3, <4>4
    <3>2. CASE b + 1 \notin ValidBlocks(packet)
      <4>1. r = 25 /\ c # b + 1
        BY <1>1, <3>2
      <4>2. ab + 25 * (NMeas - 1) <= ac
        BY <1>4, <1>9, <4>1 DEF Clockwise
      <4> QED BY <1>6, <4>1, <4>2 DEF NMeas
    <3> QED BY <3>1, <3>2
  <2> QED BY <1>6, <1>7, <2>1
<1> QED BY <1>8, <1>9

(***************************************************************************)
(* The sweep is not folded, for every clockwise packet of twelve blocks:   *)
(* whatever the distances between blocks and wherever the gaps are.        *)
(***************************************************************************)
THEOREM SweepCorrect == Spec => []SweepInOrder
<1>1. IInv => SweepInOrder
  <2> SUFFICES ASSUME IInv, ok, Clockwise(buffer.packet),
                      NEW p \in points, NEW q \in points, p.slot < q.slot
               PROVE  p.azimuth <= q.azimuth
    BY DEF SweepInOrder
  <2>1. buffer.packet \in MSOPPacket
    BY Packets DEF IInv, TypeOK
  <2>2. p \in ParsedPoints(buffer.packet) /\ q \in ParsedPoints(buffer.packet)
    BY DEF IInv, PointsOfBuffer
  <2>3. 0 \in 0 .. 1 /\ 1 \in 0 .. 1
    OBVIOUS
  <2>4. PICK b \in ValidBlocks(buffer.packet), m \in 0 .. NMeas - 1, r \in 0 .. 1 :
           p.slot = Slot(b, m, r) /\ p.azimuth = PointAzimuth(buffer.packet, b, m)
    BY <2>2, <2>3, ReadingOf DEF StrongestPoint, LastPoint
  <2>5. PICK c \in ValidBlocks(buffer.packet), n \in 0 .. NMeas - 1, s \in 0 .. 1 :
           q.slot = Slot(c, n, s) /\ q.azimuth = PointAzimuth(buffer.packet, c, n)
    BY <2>2, <2>3, ReadingOf DEF StrongestPoint, LastPoint
  <2>6. b < c \/ (b = c /\ m <= n)
    <3>1. (b * 16 + m) * 2 + r < (c * 16 + n) * 2 + s
      BY <2>4, <2>5 DEF Slot, NMeas
    <3>2. /\ b \in Int /\ c \in Int
          /\ m \in Int /\ 0 <= m /\ m <= 15 /\ n \in Int /\ 0 <= n /\ n <= 15
          /\ r \in Int /\ 0 <= r /\ r <= 1 /\ s \in Int /\ 0 <= s /\ s <= 1
      BY DEF ValidBlocks, NMeas
    <3> QED BY <3>1, <3>2
  <2> QED BY <2>1, <2>4, <2>5, <2>6, SweepOfPacket
<1> QED BY <1>1, Invariance, PTL

=============================================================================
