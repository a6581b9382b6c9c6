------------------------ MODULE PacketReader_proofs -------------------------
(***************************************************************************)
(* The packet reader's reports, for every set of datagrams and every       *)
(* largest count.                                                          *)
(*                                                                         *)
(* What was printed last depends on the datagram received last and on      *)
(* nothing earlier: that is the invariant.  The rest is about the report   *)
(* of one set of points.                                                   *)
(***************************************************************************)
EXTENDS PacketReader, Operators_proofs

-----------------------------------------------------------------------------
(* The report of a set of points.                                          *)

\* The elements of P before p in the order of the vector.
Before(P, p) == {q \in P : q.slot < p.slot}

\* Points at places of their own.
Ordered(P) ==
  /\ IsFiniteSet(P)
  /\ \A p \in P : p.slot \in Int
  /\ \A p, q \in P : p.slot = q.slot => p = q

\* What is true of a set of points is true of its subsets.
LEMMA OrderedSubset ==
  ASSUME NEW P, Ordered(P), NEW Q, Q \subseteq P
  PROVE  Ordered(Q)
BY FS_Subset DEF Ordered

\* A last element stands behind all the others, and before none.
LEMMA BehindTheOthers ==
  ASSUME NEW P, Ordered(P), NEW z \in P, \A q \in P : q.slot <= z.slot
  PROVE  /\ Before(P, z) = P \ {z}
         /\ \A p \in P \ {z} : Before(P, p) = Before(P \ {z}, p)
<1>1. ASSUME NEW q \in P
      PROVE  q.slot < z.slot <=> q # z
  BY DEF Ordered
<1>2. Before(P, z) = P \ {z}
  BY <1>1 DEF Before
<1>3. ASSUME NEW p \in P \ {z}
      PROVE  ~(z.slot < p.slot)
  BY DEF Ordered
<1>4. \A p \in P \ {z} : Before(P, p) = Before(P \ {z}, p)
  BY <1>3 DEF Before
<1> QED BY <1>2, <1>4

(***************************************************************************)
(* The first few are five, or all where there are not more.                *)
(***************************************************************************)
LEMMA FirstFewCount ==
  ASSUME NEW P, Ordered(P)
  PROVE  Cardinality(FirstFew(P)) = IF Cardinality(P) > 5 THEN 5 ELSE Cardinality(P)
<1> DEFINE Right(T) == Cardinality(FirstFew(T)) = IF Cardinality(T) > 5 THEN 5 ELSE Cardinality(T)
           F == {T \in SUBSET P : ~Right(T)}
<1> SUFFICES ASSUME F # {} PROVE FALSE
  OBVIOUS
<1>1. PICK T \in F : \A U \in F : ~(U \subseteq T /\ U # T)
  <2>1. F \subseteq SUBSET P /\ IsFiniteSet(P)
    BY DEF Ordered
  <2> HIDE DEF F
  <2> QED BY <2>1, MinimalSubset
<1>2. Ordered(T) /\ IsFiniteSet(T)
  BY OrderedSubset DEF Ordered
<1>3. CASE T = {}
  <2>1. FirstFew(T) = {} /\ Cardinality(T) = 0
    BY <1>3, FS_EmptySet DEF FirstFew
  <2> QED BY <1>3, <2>1
<1>4. CASE T # {}
  <2> DEFINE f == [p \in T |-> p.slot]
  <2>1. PICK z \in T : \A q \in T : q.slot <= z.slot
    <3>1. \A p \in T : f[p] \in Int
      BY <1>2 DEF Ordered
    <3>2. \E z \in T : \A q \in T : f[q] <= f[z]
      <4> HIDE DEF f
      <4> QED BY <1>2, <1>4, <3>1, LargestAt
    <3> QED BY <3>2
  <2> DEFINE U == T \ {z}
  <2>2. U \in SUBSET P /\ U \subseteq T /\ U # T
    OBVIOUS
  <2>3. Right(U)
    BY <1>1, <2>2
  <2>4. /\ IsFiniteSet(U) /\ Cardinality(U) \in Nat
        /\ Cardinality(T) = Cardinality(U) + 1
    <3>1. IsFiniteSet(U) /\ Cardinality(U) = Cardinality(T) - 1
      BY <1>2, FS_RemoveElement
    <3>2. Cardinality(T) \in Nat /\ Cardinality(U) \in Nat
      BY <1>2, <3>1, FS_CardinalityType
    <3> QED BY <3>1, <3>2
  <2>5. FirstFew(T) = FirstFew(U) \cup {p \in {z} : Cardinality(U) < 5}
    <3>1. \A p \in T : p \in FirstFew(T) <=> Cardinality(Before(T, p)) < 5
      BY DEF FirstFew, Before
    <3>2. \A p \in U : p \in FirstFew(U) <=> Cardinality(Before(U, p)) < 5
      BY DEF FirstFew, Before
    <3>3. Before(T, z) = U /\ \A p \in U : Before(T, p) = Before(U, p)
      BY <1>2, <2>1, BehindTheOthers
    <3>4. FirstFew(T) \subseteq T /\ FirstFew(U) \subseteq U
      BY DEF FirstFew
    <3> HIDE DEF U
    <3>5. T = U \cup {z} /\ z \notin U
      BY DEF U
    <3> QED BY <3>1, <3>2, <3>3, <3>4, <3>5
  <2>6. FirstFew(U) \subseteq U
    BY DEF FirstFew
  <2>7. IsFiniteSet(FirstFew(U))
    BY <2>4, <2>6, FS_Subset
  <2>8. CASE Cardinality(U) < 5
    <3>1. FirstFew(T) = FirstFew(U) \cup {z} /\ z \notin FirstFew(U)
      BY <2>5, <2>6, <2>8
    <3>2. Cardinality(FirstFew(T)) = Cardinality(FirstFew(U)) + 1
      BY <2>7, <3>1, FS_AddElement
    <3>3. Right(T)
      BY <2>3, <2>4, <2>8, <3>2
    <3> QED BY <1>1, <3>3
  <2>9. CASE ~(Cardinality(U) < 5)
    <3>1. FirstFew(T) = FirstFew(U)
      BY <2>5, <2>9
    <3>2. Right(T)
      BY <2>3, <2>4, <2>9, <3>1
    <3> QED BY <1>1, <3>2
  <2> QED BY <2>4, <2>8, <2>9
<1> QED BY <1>3, <1>4

\* Of two finite sets, one inside the other, the inner is not the larger.
LEMMA NotLarger ==
  ASSUME NEW S, IsFiniteSet(S), NEW T, T \subseteq S
  PROVE  /\ IsFiniteSet(T) /\ Cardinality(T) <= Cardinality(S)
         /\ Cardinality(T) \in Nat /\ Cardinality(S) \in Nat
BY FS_Subset, FS_CardinalityType

(***************************************************************************)
(* What is left out of the examples stands behind each of them, and there  *)
(* is more than the examples then.                                         *)
(***************************************************************************)
LEMMA LeftOutBehind ==
  ASSUME NEW P, Ordered(P), NEW p \in P \ FirstFew(P)
  PROVE  /\ Cardinality(P) > 5
         /\ \A e \in FirstFew(P) : e.slot < p.slot
<1>1. Before(P, p) \subseteq P \ {p}
  BY DEF Before, Ordered
<1>2. IsFiniteSet(P) /\ IsFiniteSet(P \ {p}) /\ Cardinality(P \ {p}) = Cardinality(P) - 1
  BY FS_RemoveElement DEF Ordered
<1>3. Cardinality(Before(P, p)) >= 5
  <2>1. Cardinality(Before(P, p)) \in Nat
    BY <1>1, <1>2, NotLarger
  <2>2. ~(Cardinality(Before(P, p)) < 5)
    BY DEF FirstFew, Before
  <2> QED BY <2>1, <2>2
<1>4. Cardinality(P) > 5
  <2>1. Cardinality(Before(P, p)) <= Cardinality(P \ {p}) /\ Cardinality(Before(P, p)) \in Nat
    BY <1>1, <1>2, NotLarger
  <2>2. Cardinality(P) \in Nat
    BY <1>2, FS_CardinalityType
  <2> QED BY <1>2, <1>3, <2>1, <2>2
<1>5. ASSUME NEW e \in FirstFew(P)
      PROVE  e.slot < p.slot
  <2>1. e \in P /\ Cardinality(Before(P, e)) < 5
    BY DEF FirstFew, Before
  <2>2. SUFFICES ASSUME ~(e.slot < p.slot) PROVE FALSE
    OBVIOUS
  <2>3. Before(P, p) \subseteq Before(P, e)
    BY <2>1, <2>2 DEF Before, Ordered
  <2>4. Before(P, e) \subseteq P
    BY DEF Before
  <2>5. IsFiniteSet(Before(P, e))
    BY <1>2, <2>4, NotLarger
  <2>6. /\ Cardinality(Before(P, p)) <= Cardinality(Before(P, e))
        /\ Cardinality(Before(P, p)) \in Nat /\ Cardinality(Before(P, e)) \in Nat
    BY <2>3, <2>5, NotLarger
  <2> QED BY <1>3, <2>1, <2>6
<1> QED BY <1>4, <1>5

-----------------------------------------------------------------------------
(* The statistics.                                                         *)

\* What the minima start with is an integer, above all distances and angles.
LEMMA StartsAbove ==
  /\ StartDistance \in Int /\ Distance \subseteq 0 .. StartDistance - 1
  /\ StartAzimuth \in Int /\ Azimuth \subseteq 0 .. StartAzimuth - 1
<1>1. StartDistance \in Int /\ 15000 < StartDistance
  BY DEF StartDistance
<1>2. StartAzimuth \in Int /\ 36000 < StartAzimuth
  BY DEF StartAzimuth
<1>3. ASSUME NEW d \in Distance
      PROVE  d \in Int /\ 0 <= d /\ d <= 15000
  BY DEF Distance, MinDistance, MaxDistance
<1>4. ASSUME NEW a \in Azimuth
      PROVE  a \in Int /\ 0 <= a /\ a < 36000
  BY Turn DEF Azimuth
<1>5. \A d \in Distance : d \in 0 .. StartDistance - 1
  BY <1>1, <1>3
<1>6. \A a \in Azimuth : a \in 0 .. StartAzimuth - 1
  BY <1>2, <1>4
<1> QED BY <1>1, <1>2, <1>5, <1>6

(***************************************************************************)
(* Of values between the starts of the maximum and the minimum, the range  *)
(* is of two of them, with all the others between.                         *)
(***************************************************************************)
LEMMA RangeAround ==
  ASSUME NEW start \in Int, NEW values, IsFiniteSet(values), values # {},
         values \subseteq 0 .. start - 1
  PROVE  /\ RangeOf(values, start).lo \in values /\ RangeOf(values, start).hi \in values
         /\ \A v \in values : /\ RangeOf(values, start).lo <= v
                              /\ v <= RangeOf(values, start).hi
<1> DEFINE low  == {start} \cup values
           high == {0} \cup values
           least == RangeOf(values, start).lo
           most  == RangeOf(values, start).hi
<1>0. least = Min(low) /\ most = Max(high)
  BY DEF RangeOf
<1>1. IsFiniteSet(low) /\ IsFiniteSet(high)
  <2>1. IsFiniteSet({start}) /\ IsFiniteSet({0})
    BY FS_Singleton
  <2> QED BY <2>1, FS_Union
<1>2. low \subseteq Int /\ high \subseteq Int /\ low # {} /\ high # {}
  OBVIOUS
<1>3. \A v \in values : v \in Int /\ 0 <= v /\ v < start /\ v \in low /\ v \in high
  OBVIOUS
<1>4. start \in low /\ 0 \in high
  OBVIOUS
<1>5. (\A v \in low : v = start \/ v \in values) /\ (\A v \in high : v = 0 \/ v \in values)
  OBVIOUS
<1>6. PICK v \in values : TRUE
  OBVIOUS
<1> HIDE DEF low, high, least, most
<1>7. least \in low /\ \A w \in low : least <= w
  <2>1. \E x \in low : \A y \in low : x <= y
    BY <1>1, <1>2, LargestOf
  <2> QED BY <1>0, <2>1 DEF Min
<1>8. most \in high /\ \A w \in high : w <= most
  <2>1. PICK x \in high : \A y \in high : y <= x
    BY <1>1, <1>2, LargestOf
  <2>2. \A y \in high : x >= y
    BY <1>2, <2>1
  <2>3. most \in high /\ \A w \in high : most >= w
    BY <1>0, <2>2 DEF Max
  <2> QED BY <1>2, <2>3
<1>9. least \in values
  BY <1>3, <1>5, <1>6, <1>7
<1>10. most \in values
  BY <1>3, <1>5, <1>6, <1>8
<1> QED BY <1>3, <1>7, <1>8, <1>9, <1>10 DEF least, most

\* The values of a field are as finite as the points.
LEMMA FieldsFinite ==
  ASSUME NEW P, IsFiniteSet(P)
  PROVE  /\ IsFiniteSet({p.distance : p \in P})
         /\ IsFiniteSet({p.azimuth : p \in P})
<1> DEFINE d == [p \in P |-> p.distance]
           a == [p \in P |-> p.azimuth]
<1>1. IsFiniteSet({d[p] : p \in P})
  <2>1. d = [p \in P |-> d[p]]
    OBVIOUS
  <2> HIDE DEF d
  <2> QED BY <2>1, ImageFinite
<1>2. IsFiniteSet({a[p] : p \in P})
  <2>1. a = [p \in P |-> a[p]]
    OBVIOUS
  <2> HIDE DEF a
  <2> QED BY <2>1, ImageFinite
<1>3. {d[p] : p \in P} = {p.distance : p \in P} /\ {a[p] : p \in P} = {p.azimuth : p \in P}
  OBVIOUS
<1> QED BY <1>1, <1>2, <1>3

(***************************************************************************)
(* The statistics of points are of their own distances and angles, and     *)
(* have every point between them.                                          *)
(***************************************************************************)
LEMMA RangesOfPoints ==
  ASSUME NEW P, P \subseteq Point, IsFiniteSet(P), P # {}
  PROVE  /\ {Ranges(P).distance.lo, Ranges(P).distance.hi} \subseteq Distance
         /\ {Ranges(P).azimuth.lo, Ranges(P).azimuth.hi} \subseteq Azimuth
         /\ \A p \in P : /\ Ranges(P).distance.lo <= p.distance
                         /\ p.distance <= Ranges(P).distance.hi
                         /\ Ranges(P).azimuth.lo <= p.azimuth
                         /\ p.azimuth <= Ranges(P).azimuth.hi
         /\ Ranges(P) \in Stats
<1> DEFINE D == {p.distance : p \in P}
           A == {p.azimuth : p \in P}
           dist == RangeOf(D, StartDistance)
           azim == RangeOf(A, StartAzimuth)
<1>1. IsFiniteSet(D) /\ IsFiniteSet(A)
  BY FieldsFinite
<1>2. D \subseteq Distance /\ A \subseteq Azimuth /\ D # {} /\ A # {}
  BY DEF Point
<1>3. Ranges(P) = [distance |-> dist, azimuth |-> azim]
  BY DEF Ranges
<1>4. \A p \in P : p.distance \in D /\ p.azimuth \in A
  OBVIOUS
<1>5. dist = [lo |-> dist.lo, hi |-> dist.hi] /\ azim = [lo |-> azim.lo, hi |-> azim.hi]
  BY DEF RangeOf
<1> HIDE DEF D, A
<1>6. dist.lo \in D /\ dist.hi \in D /\ \A v \in D : dist.lo <= v /\ v <= dist.hi
  <2>1. D \subseteq 0 .. StartDistance - 1
    BY <1>2, StartsAbove
  <2> QED BY <1>1, <1>2, <2>1, RangeAround, StartsAbove
<1>7. azim.lo \in A /\ azim.hi \in A /\ \A v \in A : azim.lo <= v /\ v <= azim.hi
  <2>1. A \subseteq 0 .. StartAzimuth - 1
    BY <1>2, StartsAbove
  <2> QED BY <1>1, <1>2, <2>1, RangeAround, StartsAbove
<1> HIDE DEF dist, azim
<1>8. Ranges(P) \in Stats
  <2> DEFINE low(start) == 0 .. start - 1
  <2>0. ASSUME NEW start \in Int, NEW v \in low(start)
        PROVE  v \in 0 .. start
    OBVIOUS
  <2>1. dist.lo \in 0 .. StartDistance /\ dist.hi \in 0 .. StartDistance
    <3>1. dist.lo \in low(StartDistance) /\ dist.hi \in low(StartDistance)
      BY <1>2, <1>6, StartsAbove
    <3> QED BY <2>0, <3>1, StartsAbove
  <2>2. azim.lo \in 0 .. StartAzimuth /\ azim.hi \in 0 .. StartAzimuth
    <3>1. azim.lo \in low(StartAzimuth) /\ azim.hi \in low(StartAzimuth)
      BY <1>2, <1>7, StartsAbove
    <3> QED BY <2>0, <3>1, StartsAbove
  <2>3. /\ dist \in [lo : 0 .. StartDistance, hi : 0 .. StartDistance]
        /\ azim \in [lo : 0 .. StartAzimuth, hi : 0 .. StartAzimuth]
    BY <1>5, <2>1, <2>2
  <2> QED BY <1>3, <2>3 DEF Stats
<1> QED BY <1>2, <1>3, <1>4, <1>6, <1>7, <1>8

-----------------------------------------------------------------------------
(* The invariant.                                                          *)

\* The report of a packet: all of it is computed from that packet, and there
\* are no statistics without points.
OfPacket(packet, stats) ==
  PacketInfo(ParsedPoints(packet), be32ToHost(packet.timestamp),
             be16ToHost(packet.factory_info), stats)

ReportOf(packet) ==
  \E stats \in SUBSET {Ranges(ParsedPoints(packet))} :
    /\ stats # {} => ParsedPoints(packet) # {}
    /\ report = OfPacket(packet, stats)

LatestReport ==
  \/ report \in {Blank("nothing"), Blank("unexpected")}
  \/ received.size \in {PacketSize, PacketSize + HeaderSize} /\ ReportOf(received.packet)

Counters ==
  /\ phase \in {"start", "listen", "failed"}
  /\ packet_count \in -CountMax - 1 .. CountMax
  /\ received \in Datagrams

IInv == Counters /\ Parser!TypeOK /\ LatestReport

\* The packet of a datagram has the layout of MSOPPacket.
LEMMA Packets ==
  ASSUME NEW d \in Datagrams
  PROVE  /\ d.packet \in MSOPPacket /\ d.size \in Nat
         /\ d = [size |-> d.size, packet |-> d.packet]
         /\ [size |-> PacketSize, packet |-> d.packet] \in Arguments
BY DatagramsAssumption DEF Datagram, Arguments

\* The operators that the parser's module has from MSOPFormat are those of
\* this one.
LEMMA ParserOperators ==
  /\ Parser!PacketSize = PacketSize /\ Parser!UInt8 = UInt8 /\ Parser!UInt16 = UInt16
  /\ Parser!Point = Point
  /\ \A v : Parser!be16ToHost(v) = be16ToHost(v) /\ Parser!be32ToHost(v) = be32ToHost(v)
  /\ \A packet : Parser!ParsedPoints(packet) = ParsedPoints(packet)
<1>1. /\ Parser!PacketSize = PacketSize /\ Parser!UInt8 = UInt8 /\ Parser!UInt16 = UInt16
      /\ Parser!NBlocks = NBlocks /\ Parser!NMeas = NMeas
      /\ Parser!FullTurn = FullTurn
  BY DEF Parser!PacketSize, PacketSize, Parser!UInt8, UInt8, Parser!UInt16, UInt16,
         Parser!NBlocks, NBlocks, Parser!NMeas, NMeas, Parser!FullTurn, FullTurn
<1>2. Parser!Slots = Slots /\ Parser!Azimuth = Azimuth /\ Parser!Distance = Distance
  BY <1>1 DEF Parser!Slots, Slots, Parser!Azimuth, Azimuth, Parser!Distance, Distance,
         Parser!MinDistance, MinDistance, Parser!MaxDistance, MaxDistance
<1>3. Parser!Point = Point
  BY <1>1, <1>2 DEF Parser!Point, Point
<1>4. \A v : Parser!be16ToHost(v) = be16ToHost(v) /\ Parser!be32ToHost(v) = be32ToHost(v)
  BY DEF Parser!be16ToHost, be16ToHost, Parser!be32ToHost, be32ToHost
<1>5. \A block : Parser!isValidDataBlock(block) = isValidDataBlock(block)
  BY <1>4 DEF Parser!isValidDataBlock, isValidDataBlock
<1>6. \A a, n, i : Parser!calculateAzimuth(a, n, i) = calculateAzimuth(a, n, i)
  BY <1>1 DEF Parser!calculateAzimuth, calculateAzimuth, Parser!Resolution, Resolution
<1>7. \A packet, b, m : Parser!PointAzimuth(packet, b, m) = PointAzimuth(packet, b, m)
  BY <1>1, <1>4, <1>5, <1>6
  DEF Parser!PointAzimuth, PointAzimuth, Parser!NextAzimuth, NextAzimuth
<1>8. \A packet, b, m :
        /\ Parser!StrongestDistance(packet, b, m) = StrongestDistance(packet, b, m)
        /\ Parser!LastDistance(packet, b, m) = LastDistance(packet, b, m)
  BY <1>4 DEF Parser!StrongestDistance, StrongestDistance, Parser!LastDistance, LastDistance
<1>9. \A b, m, r : Parser!Slot(b, m, r) = Slot(b, m, r)
  BY <1>1 DEF Parser!Slot, Slot
<1>10. \A packet, b, m :
         /\ Parser!StrongestPoint(packet, b, m) = StrongestPoint(packet, b, m)
         /\ Parser!LastPoint(packet, b, m) = LastPoint(packet, b, m)
  BY <1>7, <1>8, <1>9
  DEF Parser!StrongestPoint, StrongestPoint, Parser!LastPoint, LastPoint
<1>11. \A packet, b, m, d : Parser!Plausible(packet, b, m, d) = Plausible(packet, b, m, d)
  BY <1>1, <1>7 DEF Parser!Plausible, Plausible, Parser!isValidAzimuth, isValidAzimuth,
     Parser!isValidDistance, isValidDistance, Parser!MinDistance, MinDistance,
     Parser!MaxDistance, MaxDistance
<1>12. \A packet, b, m :
         /\ Parser!StrongestReported(packet, b, m) = StrongestReported(packet, b, m)
         /\ Parser!LastReported(packet, b, m) = LastReported(packet, b, m)
  BY <1>8, <1>11 DEF Parser!StrongestReported, StrongestReported, Parser!LastReported, LastReported
<1>13. \A packet : Parser!Readings(packet) = Readings(packet)
  BY <1>1, <1>5 DEF Parser!Readings, Readings
<1>14. \A packet : Parser!ParsedPoints(packet) = ParsedPoints(packet)
  BY <1>10, <1>12, <1>13 DEF Parser!ParsedPoints, ParsedPoints
<1> QED BY <1>1, <1>3, <1>4, <1>14

\* What the parser is given is a datagram of its own module.
LEMMA ArgumentsType == Arguments \subseteq Datagram
<1>1. PacketSize \in Nat
  BY DEF PacketSize
<1> QED BY <1>1, Packets DEF Arguments, Datagram

\* Swapping the four bytes of the timestamp gives four bytes.
LEMMA TimestampBytes ==
  ASSUME NEW packet \in MSOPPacket
  PROVE  be32ToHost(packet.timestamp) \in [1 .. 4 -> UInt8]
<1>1. packet.timestamp \in [1 .. 4 -> UInt8]
  BY DEF MSOPPacket
<1>2. \A i \in 1 .. 4 : 5 - i \in 1 .. 4
  OBVIOUS
<1> QED BY <1>1, <1>2 DEF be32ToHost

\* Nothing has been counted, parsed or printed at the start.
LEMMA InitIInv == Init => IInv
<1> SUFFICES ASSUME Init PROVE IInv
  OBVIOUS
<1>1. Counters
  BY CountMaxAssumption DEF Init, Counters
<1>2. Parser!TypeOK
  <2>1. Parser!Zero32 \in [1 .. 4 -> UInt8]
    BY DEF Parser!Zero32, UInt8
  <2>2. 0 \in UInt16
    BY DEF UInt16
  <2> QED BY <2>1, <2>2, ParserOperators DEF Init, Parser!Init, Parser!TypeOK
<1>3. LatestReport
  BY DEF Init, LatestReport
<1> QED BY <1>1, <1>2, <1>3 DEF IInv

\* A datagram that the program receives is counted, with an overflow or not.
LEMMA ReceiveCounters ==
  ASSUME Counters, NEW d \in Datagrams, Receive(d)
  PROVE  Counters' /\ received' = d
<1>1. packet_count' \in -CountMax - 1 .. CountMax
  BY CountMaxAssumption DEF Counters, Receive
<1> QED BY <1>1 DEF Counters, Receive

\* The parser accepts a packet of full size.
LEMMA ParsesAll ==
  ASSUME NEW packet \in MSOPPacket,
         NEW a \in Arguments, a = [size |-> PacketSize, packet |-> packet],
         Parser!parsePacket(a)
  PROVE  /\ Parser!TypeOK' /\ Parser!Next /\ ok'
         /\ points' = ParsedPoints(packet)
         /\ last_timestamp_' = be32ToHost(packet.timestamp)
         /\ last_factory_info_' = be16ToHost(packet.factory_info)
<1>1. a.size = PacketSize /\ a.packet = packet
  OBVIOUS
<1>2. Parser!Accept(a) /\ data' = a
  BY <1>1, ParserOperators DEF Parser!parsePacket, Parser!Reject
<1>3. /\ ok' /\ ok' \in BOOLEAN
      /\ points' = ParsedPoints(packet)
      /\ last_timestamp_' = be32ToHost(packet.timestamp)
      /\ last_factory_info_' = be16ToHost(packet.factory_info)
  BY <1>1, <1>2, ParserOperators DEF Parser!Accept
<1>4. packet.factory_info \in UInt16
  BY DEF MSOPPacket
<1>5. Parser!TypeOK'
  BY <1>2, <1>3, <1>4, ParsedArePoints, TimestampBytes, SwapRange, ParserOperators
  DEF Parser!TypeOK
<1>6. Parser!Next
  BY DEF Parser!Next
<1> QED BY <1>3, <1>5, <1>6

\* The report of a call of the parser with a packet of full size.
LEMMA PrintedIsReport ==
  ASSUME NEW packet, NEW stats, ok',
         points' = ParsedPoints(packet),
         last_timestamp_' = be32ToHost(packet.timestamp),
         last_factory_info_' = be16ToHost(packet.factory_info),
         report' = Printed(stats),
         stats \subseteq {Ranges(ParsedPoints(packet))},
         stats # {} => ParsedPoints(packet) # {}
  PROVE  ReportOf(packet)'
<1>1. report' = OfPacket(packet, stats)
  BY DEF Printed, OfPacket
<1> QED BY <1>1 DEF ReportOf

\* One turn of the loop with a packet, without headers or with them.
LEMMA PacketStep ==
  ASSUME IInv, NEW d \in Datagrams, Packet(d)
  PROVE  IInv' /\ Parser!Next
<1>1. Counters' /\ received' = d /\ d.size = PacketSize
  BY ReceiveCounters DEF IInv, Packet
<1>2. d.packet \in MSOPPacket /\ d \in Arguments /\ d = [size |-> PacketSize, packet |-> d.packet]
  BY <1>1, Packets
<1>3. Parser!parsePacket(d)
  BY DEF Packet
<1>4. /\ Parser!TypeOK' /\ Parser!Next /\ ok'
      /\ points' = ParsedPoints(d.packet)
      /\ last_timestamp_' = be32ToHost(d.packet.timestamp)
      /\ last_factory_info_' = be16ToHost(d.packet.factory_info)
  BY <1>2, <1>3, ParsesAll
<1>5. report' = Printed(RangeStats(packet_count', points'))
  BY DEF Packet
<1>6. /\ RangeStats(packet_count', points') \subseteq {Ranges(ParsedPoints(d.packet))}
      /\ RangeStats(packet_count', points') # {} => ParsedPoints(d.packet) # {}
  BY <1>4 DEF RangeStats, NoStats
<1>7. ReportOf(d.packet)'
  BY <1>4, <1>5, <1>6, PrintedIsReport
<1>8. LatestReport'
  BY <1>1, <1>7 DEF LatestReport
<1> QED BY <1>1, <1>4, <1>8 DEF IInv

\* A raw capture: what the parser gets is the packet behind the headers.
LEMMA CaptureStep ==
  ASSUME IInv, NEW d \in Datagrams, Capture(d)
  PROVE  IInv' /\ Parser!Next
<1> DEFINE a == [d EXCEPT !.size = @ - HeaderSize]
<1>1. Counters' /\ received' = d /\ d.size = PacketSize + HeaderSize
  BY ReceiveCounters DEF IInv, Capture
<1>2. d.packet \in MSOPPacket /\ a \in Arguments /\ a = [size |-> PacketSize, packet |-> d.packet]
  <2>1. d = [size |-> PacketSize + HeaderSize, packet |-> d.packet]
    BY <1>1, Packets
  <2>2. d.size - HeaderSize = PacketSize
    BY <1>1 DEF PacketSize, HeaderSize
  <2>3. a = [size |-> PacketSize, packet |-> d.packet]
    <3>1. ASSUME NEW long, NEW short, NEW packet, NEW e, e = [size |-> long, packet |-> packet]
          PROVE  [e EXCEPT !.size = short] = [size |-> short, packet |-> packet]
      BY <3>1
    <3>2. a = [d EXCEPT !.size = PacketSize]
      BY <2>2
    <3> QED BY <2>1, <3>1, <3>2
  <2> QED BY <2>3, Packets
<1>3. Parser!parsePacket(a) /\ report' = Printed(NoStats)
  BY DEF Capture
<1> HIDE DEF a
<1>4. /\ Parser!TypeOK' /\ Parser!Next /\ ok'
      /\ points' = ParsedPoints(d.packet)
      /\ last_timestamp_' = be32ToHost(d.packet.timestamp)
      /\ last_factory_info_' = be16ToHost(d.packet.factory_info)
  BY <1>2, <1>3, ParsesAll
<1>5. NoStats \subseteq {Ranges(ParsedPoints(d.packet))} /\ (NoStats # {} => ParsedPoints(d.packet) # {})
  BY DEF NoStats
<1>6. ReportOf(d.packet)'
  BY <1>3, <1>4, <1>5, PrintedIsReport
<1>7. LatestReport'
  BY <1>1, <1>6 DEF LatestReport
<1> QED BY <1>1, <1>4, <1>7 DEF IInv

\* A stray changes neither the vector nor the getters.
LEMMA UnexpectedStep ==
  ASSUME IInv, NEW d \in Datagrams, Unexpected(d)
  PROVE  IInv' /\ UNCHANGED parser
<1>1. Counters' /\ UNCHANGED parser /\ report' = Blank("unexpected")
  BY ReceiveCounters DEF IInv, Unexpected
<1>2. LatestReport'
  BY <1>1 DEF LatestReport
<1>3. Parser!TypeOK'
  BY <1>1 DEF IInv, parser, Parser!TypeOK
<1> QED BY <1>1, <1>2, <1>3 DEF IInv

\* Opening the socket, a failed call and the end leave all but the phase.
LEMMA QuietStep ==
  ASSUME IInv, Initialize \/ ReceiveError \/ Failed \/ UNCHANGED vars
  PROVE  IInv' /\ UNCHANGED parser
<1>1. /\ UNCHANGED <<packet_count, received, report>> /\ UNCHANGED parser
      /\ phase' \in {"start", "listen", "failed"}
  BY DEF Initialize, ReceiveError, Failed, vars, IInv, Counters
<1>2. Parser!TypeOK'
  BY <1>1 DEF IInv, parser, Parser!TypeOK
<1>3. LatestReport'
  BY <1>1 DEF IInv, LatestReport, ReportOf
<1> QED BY <1>1, <1>2, <1>3 DEF IInv, Counters

\* Every step keeps the invariant, and is a call of the parser or none.
LEMMA NextIInv == IInv /\ [Next]_vars => IInv' /\ (Parser!Next \/ UNCHANGED parser)
<1> SUFFICES ASSUME IInv, [Next]_vars PROVE IInv' /\ (Parser!Next \/ UNCHANGED parser)
  OBVIOUS
<1>1. CASE Initialize \/ ReceiveError \/ Failed \/ UNCHANGED vars
  BY <1>1, QuietStep
<1>2. ASSUME NEW d \in Datagrams, Packet(d) \/ Capture(d) \/ Unexpected(d)
      PROVE  IInv' /\ (Parser!Next \/ UNCHANGED parser)
  BY <1>2, PacketStep, CaptureStep, UnexpectedStep
<1> QED BY <1>1, <1>2 DEF Next

\* The invariant holds in every state the program reaches.
THEOREM Invariance == Spec => []IInv
<1>1. IInv /\ [Next]_vars => IInv'
  BY NextIInv
<1> QED BY <1>1, InitIInv, PTL DEF Spec

-----------------------------------------------------------------------------
(* What a report of one packet says.                                       *)

\* The points of a packet have places of their own.
LEMMA ParsedOrdered ==
  ASSUME NEW packet \in MSOPPacket
  PROVE  /\ Ordered(ParsedPoints(packet)) /\ IsFiniteSet(ParsedPoints(packet))
         /\ ParsedPoints(packet) \subseteq Point
<1>1. ParsedPoints(packet) \subseteq Point /\ IsFiniteSet(ParsedPoints(packet))
  BY ParsedArePoints, ParsedFinite
<1>2. \A p \in Point : p.slot \in Int
  BY DEF Point, Slots, NBlocks, NMeas
<1>3. \A p, q \in ParsedPoints(packet) : p.slot = q.slot => p = q
  BY SlotsDiffer
<1> QED BY <1>1, <1>2, <1>3 DEF Ordered

\* The fields of the report of a packet.
LEMMA ReportFields ==
  ASSUME IInv
  PROVE  \/ report.kind \in {"nothing", "unexpected"} /\ report.examples = {} /\ report.stats = {}
         \/ \E stats \in SUBSET {Ranges(ParsedPoints(received.packet))} :
              LET P == ParsedPoints(received.packet)
                  R == {p \in P : Reliable(p)}
              IN  /\ received.size \in {PacketSize, PacketSize + HeaderSize}
                  /\ stats # {} => P # {}
                  /\ report.kind = "packet"
                  /\ report.timestamp = be32ToHost(received.packet.timestamp)
                  /\ report.factory = be16ToHost(received.packet.factory_info)
                  /\ report.points = Cardinality(P)
                  /\ report.reliable = Cardinality(R)
                  /\ report.examples = FirstFew(R)
                  /\ report.more = IF Cardinality(R) > 5 THEN Cardinality(R) - 5 ELSE 0
                  /\ report.stats = stats
<1>1. CASE report \in {Blank("nothing"), Blank("unexpected")}
  BY <1>1 DEF Blank, NoStats
<1>2. CASE received.size \in {PacketSize, PacketSize + HeaderSize} /\ ReportOf(received.packet)
  <2>1. PICK stats \in SUBSET {Ranges(ParsedPoints(received.packet))} :
          /\ stats # {} => ParsedPoints(received.packet) # {}
          /\ report = OfPacket(received.packet, stats)
    BY <1>2 DEF ReportOf
  <2> QED BY <1>2, <2>1 DEF OfPacket, PacketInfo
<1> QED BY <1>1, <1>2 DEF IInv, LatestReport

\* The examples are reliable points of the packet.
LEMMA ExamplesReliable ==
  ASSUME NEW P, NEW p \in FirstFew({q \in P : Reliable(q)})
  PROVE  p \in P /\ Reliable(p)
BY DEF FirstFew

(***************************************************************************)
(* Type correctness: what is printed of examples and statistics is in      *)
(* range, and a datagram of either known length is always parsed.          *)
(***************************************************************************)
THEOREM TypeCorrect == Spec => []TypeOK
<1>1. ASSUME IInv PROVE TypeOK
  <2> DEFINE packet == received.packet
  <2>1. packet \in MSOPPacket
    BY <1>1, Packets DEF IInv, Counters
  <2>2. /\ ParsedPoints(packet) \subseteq Point /\ IsFiniteSet(ParsedPoints(packet))
    BY <2>1, ParsedOrdered
  <2>3. /\ report.kind \in {"nothing", "packet", "unexpected"}
        /\ report.examples \subseteq Point
        /\ report.stats \subseteq Stats
    <3>1. CASE /\ report.kind \in {"nothing", "unexpected"}
               /\ report.examples = {} /\ report.stats = {}
      BY <3>1
    <3>2. ASSUME NEW stats \in SUBSET {Ranges(ParsedPoints(packet))},
                 stats # {} => ParsedPoints(packet) # {},
                 report.kind = "packet", report.stats = stats,
                 report.examples = FirstFew({p \in ParsedPoints(packet) : Reliable(p)})
          PROVE  /\ report.kind = "packet"
                 /\ report.examples \subseteq Point /\ report.stats \subseteq Stats
      <4>1. report.examples \subseteq Point
        BY <2>2, <3>2, ExamplesReliable
      <4>2. CASE stats = {}
        BY <3>2, <4>1, <4>2
      <4>3. CASE stats # {}
        <5>1. Ranges(ParsedPoints(packet)) \in Stats
          BY <2>2, <3>2, <4>3, RangesOfPoints
        <5> QED BY <3>2, <4>1, <5>1
      <4> QED BY <4>2, <4>3
    <3> QED BY <1>1, <3>1, <3>2, ReportFields
  <2> QED BY <1>1, <2>3 DEF IInv, Counters, TypeOK
<1> QED BY <1>1, Invariance, PTL

(***************************************************************************)
(* Whatever was received before, a report is of the packet received last,  *)
(* with headers or without.                                                *)
(***************************************************************************)
THEOREM ReportCorrect == Spec => []ReportOfOnePacket
<1>1. ASSUME IInv PROVE ReportOfOnePacket
  <2> SUFFICES ASSUME report.kind = "packet"
               PROVE  ReportOfOnePacket
    BY DEF ReportOfOnePacket
  <2>1. /\ received.size \in {PacketSize, PacketSize + HeaderSize}
        /\ report.timestamp = be32ToHost(received.packet.timestamp)
        /\ report.factory = be16ToHost(received.packet.factory_info)
        /\ report.points = Cardinality(ParsedPoints(received.packet))
        /\ report.examples = FirstFew({p \in ParsedPoints(received.packet) : Reliable(p)})
    BY <1>1, ReportFields
  <2>2. report.examples \subseteq ParsedPoints(received.packet)
    BY <2>1, ExamplesReliable
  <2>3. \A i \in 1 .. 4 : report.timestamp[i] = received.packet.timestamp[5 - i]
    BY <2>1 DEF be32ToHost
  <2> QED BY <2>1, <2>2, <2>3 DEF ReportOfOnePacket
<1> QED BY <1>1, Invariance, PTL

(***************************************************************************)
(* A point that this program calls reliable passes the limits of the       *)
(* visualizer and, alone in its bin, is kept by its filter.                *)
(***************************************************************************)
THEOREM ReliableCorrect == Spec => []ReliableIsKept
<1>1. ASSUME IInv PROVE ReliableIsKept
  <2> SUFFICES ASSUME NEW p \in report.examples
               PROVE  Credible(p) /\ Kept({p}) = {p}
    BY DEF ReliableIsKept
  <2>1. p \in FirstFew({q \in ParsedPoints(received.packet) : Reliable(q)})
    BY <1>1, ReportFields
  <2>2. p \in ParsedPoints(received.packet) /\ Reliable(p)
    BY <2>1, ExamplesReliable
  <2>3. p.distance \in Int /\ p.rssi \in Int
    <3>1. received.packet \in MSOPPacket
      BY <1>1, Packets DEF IInv, Counters
    <3>2. p \in Point
      BY <2>2, <3>1, ParsedArePoints
    <3>3. p.distance \in Distance /\ p.rssi \in UInt8
      BY <3>2 DEF Point
    <3>4. Distance \subseteq Int /\ UInt8 \subseteq Int
      BY DEF Distance, UInt8
    <3> QED BY <3>3, <3>4
  <2>4. Credible(p)
    BY <2>2, <2>3 DEF Credible, Reliable
  <2>5. Cardinality({p}) = 1
    BY FS_Singleton
  <2>6. Kept({p}) = KeptOfOne({p})
    BY <2>5 DEF Kept
  <2>7. KeptOfOne({p}) = {p}
    BY <2>2, <2>3 DEF KeptOfOne, Reliable
  <2> QED BY <2>4, <2>6, <2>7
<1> QED BY <1>1, Invariance, PTL

(***************************************************************************)
(* The numbers of a report add up: examples and the rest are the reliable  *)
(* points, the examples come first, and the ranges are of points.          *)
(***************************************************************************)
THEOREM SumsCorrect == Spec => []ReportAddsUp
<1>1. ASSUME IInv PROVE ReportAddsUp
  <2> SUFFICES ASSUME report.kind = "packet"
               PROVE  ReportAddsUp
    BY DEF ReportAddsUp
  <2> DEFINE P == ParsedPoints(received.packet)
             R == {p \in P : Reliable(p)}
  <2>1. PICK stats \in SUBSET {Ranges(P)} :
          /\ stats # {} => P # {}
          /\ report.reliable = Cardinality(R)
          /\ report.examples = FirstFew(R)
          /\ report.more = IF Cardinality(R) > 5 THEN Cardinality(R) - 5 ELSE 0
          /\ report.stats = stats
    BY <1>1, ReportFields
  <2>2. Ordered(P) /\ IsFiniteSet(P) /\ P \subseteq Point
    <3>1. received.packet \in MSOPPacket
      BY <1>1, Packets DEF IInv, Counters
    <3> QED BY <3>1, ParsedOrdered
  <2>3. Ordered(R) /\ Cardinality(R) \in Nat
    <3>1. R \subseteq P
      OBVIOUS
    <3>2. Ordered(R)
      BY <2>2, <3>1, OrderedSubset
    <3> QED BY <3>2, FS_CardinalityType DEF Ordered
  <2>4. Cardinality(report.examples) + report.more = report.reliable
    <3>1. Cardinality(FirstFew(R)) = IF Cardinality(R) > 5 THEN 5 ELSE Cardinality(R)
      BY <2>3, FirstFewCount
    <3> QED BY <2>1, <2>3, <3>1
  <2>5. ASSUME NEW p \in R \ report.examples
        PROVE  report.more > 0 /\ \A e \in report.examples : e.slot < p.slot
    <3>1. p \in R \ FirstFew(R)
      BY <2>1
    <3>2. Cardinality(R) > 5 /\ \A e \in FirstFew(R) : e.slot < p.slot
      BY <2>3, <3>1, LeftOutBehind
    <3> QED BY <2>1, <2>3, <3>2
  <2>6. ASSUME NEW s \in report.stats
        PROVE  /\ {s.distance.lo, s.distance.hi} \subseteq Distance
               /\ {s.azimuth.lo, s.azimuth.hi} \subseteq Azimuth
               /\ \A e \in report.examples :
                    /\ s.distance.lo <= e.distance /\ e.distance <= s.distance.hi
                    /\ s.azimuth.lo <= e.azimuth /\ e.azimuth <= s.azimuth.hi
    <3>1. s = Ranges(P) /\ P # {}
      BY <2>1, <2>6
    <3>2. \A e \in report.examples : e \in P
      BY <2>1, ExamplesReliable
    <3> HIDE DEF P
    <3> QED BY <2>2, <3>1, <3>2, RangesOfPoints
  <2> QED BY <2>4, <2>5, <2>6 DEF ReportAddsUp
<1> QED BY <1>1, Invariance, PTL

(***************************************************************************)
(* The program's calls are those of MSOPParser, on packets of full size:   *)
(* the theorems about that component hold inside this one.                 *)
(***************************************************************************)
THEOREM UseCorrect == Spec => UsesParser
<1>1. Init => Parser!Init
  BY DEF Init
<1>2. IInv /\ [Next]_vars => [Parser!Next]_(Parser!vars)
  <2>1. UNCHANGED parser => UNCHANGED Parser!vars
    BY DEF parser, Parser!vars
  <2> QED BY <2>1, NextIInv
<1> QED BY <1>1, <1>2, Invariance, PTL DEF Spec, UsesParser, Parser!Spec

=============================================================================
