-------------------------- MODULE Operators_proofs --------------------------
(***************************************************************************)
(* Facts about the operators that the components are built from: the       *)
(* parser's functions, for every packet, and the choice of a sample, for   *)
(* every finite set of samples.                                            *)
(***************************************************************************)
EXTENDS MSOPFormat, SampleFilter, FiniteSetTheorems, TLAPS

-----------------------------------------------------------------------------
(* Finite sets.                                                            *)

(***************************************************************************)
(* The image of a finite set is finite.                                    *)
(***************************************************************************)
LEMMA ImageFinite ==
  ASSUME NEW S, IsFiniteSet(S), NEW f, f = [x \in S |-> f[x]]
  PROVE  IsFiniteSet({f[x] : x \in S})
<1> DEFINE T == {f[x] : x \in S}
<1>1. f \in Surjection(S, T)
  BY DEF Surjection
<1> QED BY <1>1, FS_Surjection

\* A set of two is its two elements.
LEMMA TwoElements ==
  ASSUME NEW S, IsFiniteSet(S), Cardinality(S) = 2, NEW x \in S, NEW y \in S, x # y
  PROVE  S = {x, y}
<1>1. IsFiniteSet(S \ {x}) /\ Cardinality(S \ {x}) = 1
  BY FS_RemoveElement
<1>2. PICK z : S \ {x} = {z}
  BY <1>1, FS_Singleton
<1> QED BY <1>2

\* A set of at most one has no two elements.
LEMMA AtMostOneElement ==
  ASSUME NEW S, IsFiniteSet(S), Cardinality(S) \in {0, 1}, NEW x \in S, NEW y \in S
  PROVE  x = y
<1>1. CASE Cardinality(S) = 0
  BY <1>1, FS_EmptySet
<1>2. CASE Cardinality(S) = 1
  <2>1. PICK z : S = {z}
    BY <1>2, FS_Singleton
  <2> QED BY <2>1
<1> QED BY <1>1, <1>2

(***************************************************************************)
(* Among subsets of a finite set one has no other below it.  Applied to    *)
(* the subsets that lack a property, this is induction over finite sets.   *)
(***************************************************************************)
LEMMA MinimalSubset ==
  ASSUME NEW S, IsFiniteSet(S), NEW F, F \subseteq SUBSET S, F # {}
  PROVE  \E T \in F : \A U \in F : ~(U \subseteq T /\ U # T)
<1>1. IsWellFoundedOn(StrictSubsetOrdering(S), FiniteSubsetsOf(S))
  BY FS_StrictSubsetOrderingWellFounded
<1>2. F \subseteq FiniteSubsetsOf(S)
  BY FS_FiniteSubsetsOfFinite
<1>3. \E x \in F : \A y \in F : ~ (<<y, x>> \in StrictSubsetOrdering(S))
  BY <1>1, <1>2, WFMin
<1>4. ASSUME NEW T \in F, NEW U \in F, U \subseteq T, U # T
      PROVE  <<U, T>> \in StrictSubsetOrdering(S)
  BY <1>4 DEF StrictSubsetOrdering
<1> QED BY <1>3, <1>4

\* A finite set has an element at which an integer is largest.
LEMMA LargestAt ==
  ASSUME NEW S, IsFiniteSet(S), S # {}, NEW f, \A x \in S : f[x] \in Int
  PROVE  \E x \in S : \A y \in S : f[y] <= f[x]
<1> DEFINE Has(T) == \E x \in T : \A y \in T : f[y] <= f[x]
           F == {T \in SUBSET S : T # {} /\ ~Has(T)}
<1> SUFFICES ASSUME F # {} PROVE FALSE
  OBVIOUS
<1>1. PICK T \in F : \A U \in F : ~(U \subseteq T /\ U # T)
  <2>1. F \subseteq SUBSET S
    OBVIOUS
  <2> HIDE DEF F
  <2> QED BY <2>1, MinimalSubset
<1>2. PICK z \in T : TRUE
  OBVIOUS
<1>3. CASE T = {z}
  <2>1. f[z] <= f[z]
    BY <1>2
  <2> QED BY <1>3, <2>1
<1>4. CASE T # {z}
  <2>1. T \ {z} # {} /\ T \ {z} \subseteq T /\ T \ {z} # T /\ T \ {z} \in SUBSET S
    BY <1>2, <1>4
  <2>2. Has(T \ {z})
    BY <1>1, <2>1
  <2>3. PICK x \in T \ {z} : \A y \in T \ {z} : f[y] <= f[x]
    BY <2>2
  <2>4. f[x] \in Int /\ f[z] \in Int
    BY <1>2
  <2>5. CASE f[z] <= f[x]
    BY <2>3, <2>5
  <2>6. CASE ~(f[z] <= f[x])
    <3>1. \A y \in T : f[y] <= f[z]
      BY <2>3, <2>4, <2>6
    <3> QED BY <1>2, <3>1
  <2> QED BY <2>5, <2>6
<1> QED BY <1>3, <1>4

\* A finite set of integers has a largest and a smallest element.
LEMMA LargestOf ==
  ASSUME NEW S, IsFiniteSet(S), S # {}, S \subseteq Int
  PROVE  /\ \E x \in S : \A y \in S : y <= x
         /\ \E x \in S : \A y \in S : x <= y
<1>1. \E x \in S : \A y \in S : y <= x
  <2> DEFINE f == [x \in S |-> x]
  <2>1. \A x \in S : f[x] \in Int
    OBVIOUS
  <2>2. \E x \in S : \A y \in S : f[y] <= f[x]
    <3> HIDE DEF f
    <3> QED BY <2>1, LargestAt
  <2> QED BY <2>2
<1>2. \E x \in S : \A y \in S : x <= y
  <2> DEFINE f == [x \in S |-> -x]
  <2>1. \A x \in S : f[x] \in Int
    OBVIOUS
  <2>2. PICK x \in S : \A y \in S : f[y] <= f[x]
    <3> HIDE DEF f
    <3> QED BY <2>1, LargestAt
  <2>3. \A y \in S : x <= y
    BY <2>2
  <2> QED BY <2>3
<1> QED BY <1>1, <1>2

-----------------------------------------------------------------------------
(* The parser's functions.                                                 *)

(***************************************************************************)
(* be16ToHost maps 16-bit words to 16-bit words and is its own inverse:    *)
(* swapping the bytes of a field loses nothing.                            *)
(***************************************************************************)
LEMMA SwapRange ==
  ASSUME NEW v \in UInt16
  PROVE  be16ToHost(v) \in UInt16 /\ be16ToHost(be16ToHost(v)) = v
<1>1. PICK hi \in Int : hi = v \div 256
  BY DEF UInt16
<1>2. PICK lo \in Int : lo = v % 256
  BY DEF UInt16
<1>3. v \in Int /\ 0 <= v /\ v < 2^16
  BY DEF UInt16
<1>4. 0 <= hi /\ hi <= 255 /\ 0 <= lo /\ lo <= 255 /\ v = hi * 256 + lo
  BY <1>1, <1>2, <1>3
<1>5. PICK w \in Int : w = lo * 256 + hi
  OBVIOUS
<1>6. be16ToHost(v) = w
  BY <1>1, <1>2, <1>5 DEF be16ToHost
<1>7. 0 <= w /\ w < 2^16 /\ w % 256 = hi /\ w \div 256 = lo
  BY <1>4, <1>5
<1>8. be16ToHost(w) = v
  BY <1>4, <1>7 DEF be16ToHost
<1>9. w \in UInt16
  BY <1>7 DEF UInt16
<1> QED BY <1>6, <1>8, <1>9

(***************************************************************************)
(* Interpolation multiplies the resolution by an index below 16.           *)
(***************************************************************************)
LEMMA StepBelow ==
  ASSUME NEW r \in Int, 0 <= r, NEW i \in Int, 0 <= i, i <= 15
  PROVE  r * i \in Int /\ 0 <= r * i /\ r * i <= 15 * r
<1>1. CASE i <= 7
  BY <1>1
<1>2. CASE i > 7
  BY <1>2
<1> QED BY <1>1, <1>2

\* The number of hundredths of a degree in a turn.
LEMMA Turn == FullTurn = 36000
BY DEF FullTurn

\* The turn as a positive integer, its numeral hidden.
LEMMA TurnInt == FullTurn \in Int /\ FullTurn > 0
BY DEF FullTurn

\* Reducing an angle to one turn gives an angle of the turn.
LEMMA Reduced ==
  ASSUME NEW x \in Int, 0 <= x
  PROVE  /\ (x % 2^16) % FullTurn \in Azimuth
         /\ x < FullTurn => (x % 2^16) % FullTurn = x
<1>1. PICK y \in Int : y = x % 2^16
  OBVIOUS
<1>2. 0 <= y /\ (x < FullTurn => y = x)
  BY <1>1, Turn
<1>3. PICK z \in Int : z = y % FullTurn
  BY TurnInt
<1>4. 0 <= z /\ z < FullTurn /\ (y < FullTurn => z = y)
  BY <1>2, <1>3, Turn
<1>5. (x % 2^16) % FullTurn = z
  BY <1>1, <1>3
<1>6. z \in Azimuth
  BY <1>4, TurnInt DEF Azimuth
<1> QED BY <1>2, <1>4, <1>5, <1>6

(***************************************************************************)
(* Every point lies on the circle: whatever two 16-bit azimuths a packet   *)
(* carries, legal or not, the angle is reduced to less than one turn.      *)
(***************************************************************************)
LEMMA AzimuthOnCircle ==
  ASSUME NEW block_azimuth \in UInt16, NEW next_block_azimuth \in UInt16,
         NEW i \in 0 .. NMeas - 1
  PROVE  calculateAzimuth(block_azimuth, next_block_azimuth, i) \in Azimuth
<1>1. PICK r : r = Resolution(block_azimuth, next_block_azimuth)
  OBVIOUS
<1>2. r \in Int /\ 0 <= r
  BY <1>1 DEF Resolution, UInt16, NMeas
<1>3. i \in Int /\ 0 <= i /\ i <= 15
  BY DEF NMeas
<1>4. PICK x : x = block_azimuth + r * i
  OBVIOUS
<1>5. r * i \in Int /\ 0 <= r * i
  BY <1>2, <1>3, StepBelow
<1>6. x \in Int /\ 0 <= x
  BY <1>4, <1>5 DEF UInt16
<1>7. calculateAzimuth(block_azimuth, next_block_azimuth, i) = (x % 2^16) % FullTurn
  BY <1>1, <1>4 DEF calculateAzimuth
<1> QED BY <1>6, <1>7, Reduced

(***************************************************************************)
(* Interpolation stays inside its block: between two blocks that follow    *)
(* each other clockwise below 360 degrees, every angle lies at or after    *)
(* the first and before the second.                                        *)
(***************************************************************************)
LEMMA InterpolationInside ==
  ASSUME NEW a \in Azimuth, NEW n \in Azimuth, a < n, NEW i \in 0 .. NMeas - 1
  PROVE  a <= calculateAzimuth(a, n, i) /\ calculateAzimuth(a, n, i) < n
<1>1. PICK r : r = (n - a) \div 16
  OBVIOUS
<1>2. /\ a \in Int /\ 0 <= a
      /\ n \in Int /\ n < FullTurn
      /\ i \in Int /\ 0 <= i /\ i <= 15
  BY Turn DEF NMeas, Azimuth
<1>3. r \in Int /\ 0 <= r /\ 16 * r <= n - a
  BY <1>1, <1>2
<1>4. PICK p : p = r * i
  OBVIOUS
<1>5. p \in Int /\ 0 <= p /\ p <= 15 * r
  BY <1>2, <1>3, <1>4, StepBelow
<1>6. PICK x \in Int : x = a + p
  BY <1>2, <1>5
<1>7. 0 <= x /\ x < FullTurn /\ a <= x /\ x < n
  BY <1>2, <1>3, <1>5, <1>6, TurnInt
<1>8. calculateAzimuth(a, n, i) = (x % 2^16) % FullTurn
  BY <1>1, <1>4, <1>6 DEF calculateAzimuth, Resolution, NMeas
<1> QED BY <1>7, <1>8, Reduced

(***************************************************************************)
(* The fields of a packet have their widths, and so have the angle and the *)
(* distances computed from them.                                           *)
(***************************************************************************)
LEMMA BlockFields ==
  ASSUME NEW packet \in MSOPPacket, NEW b \in 0 .. NBlocks - 1
  PROVE  /\ packet.data_blocks[b].flag \in UInt16
         /\ packet.data_blocks[b].azimuth \in UInt16
         /\ \A m \in 0 .. NMeas - 1 : packet.data_blocks[b].measurements[m] \in MeasuringResult
<1>1. packet.data_blocks \in [0 .. NBlocks - 1 -> DataBlock]
  BY DEF MSOPPacket
<1>2. packet.data_blocks[b] \in DataBlock
  BY <1>1
<1> QED BY <1>2 DEF DataBlock

\* The azimuth of a block, once swapped, is a 16-bit word.
LEMMA AzimuthField ==
  ASSUME NEW packet \in MSOPPacket, NEW b \in 0 .. NBlocks - 1
  PROVE  be16ToHost(packet.data_blocks[b].azimuth) \in UInt16
BY BlockFields, SwapRange

\* The angle of a point is one of the turn.
LEMMA PointAzimuthType ==
  ASSUME NEW packet \in MSOPPacket, NEW b \in 0 .. NBlocks - 1, NEW m \in 0 .. NMeas - 1
  PROVE  PointAzimuth(packet, b, m) \in Azimuth
<1>1. be16ToHost(packet.data_blocks[b].azimuth) \in UInt16
  BY AzimuthField
<1>2. CASE b < NBlocks - 1
  <2>1. b + 1 \in 0 .. NBlocks - 1
    BY <1>2 DEF NBlocks
  <2>2. be16ToHost(packet.data_blocks[b + 1].azimuth) \in UInt16
    BY <2>1, AzimuthField
  <2>3. NextAzimuth(packet, b) \in UInt16
    BY <1>1, <2>2 DEF NextAzimuth
  <2> QED BY <1>1, <2>3, AzimuthOnCircle DEF PointAzimuth
<1>3. CASE ~(b < NBlocks - 1)
  <2>1. NextAzimuth(packet, b) \in UInt16
    BY <1>1, <1>3 DEF NextAzimuth
  <2> QED BY <1>1, <2>1, AzimuthOnCircle DEF PointAzimuth
<1> QED BY <1>2, <1>3

\* The two distances of a measurement, once swapped, are 16-bit words.
LEMMA DistanceFields ==
  ASSUME NEW packet \in MSOPPacket, NEW b \in 0 .. NBlocks - 1, NEW m \in 0 .. NMeas - 1
  PROVE  /\ StrongestDistance(packet, b, m) \in UInt16
         /\ LastDistance(packet, b, m) \in UInt16
         /\ packet.data_blocks[b].measurements[m].rssi_strongest \in UInt8
         /\ packet.data_blocks[b].measurements[m].rssi_last \in UInt8
<1>1. packet.data_blocks[b].measurements[m] \in MeasuringResult
  BY BlockFields
<1>2. /\ packet.data_blocks[b].measurements[m].distance_strongest \in UInt16
      /\ packet.data_blocks[b].measurements[m].distance_last \in UInt16
      /\ packet.data_blocks[b].measurements[m].rssi_strongest \in UInt8
      /\ packet.data_blocks[b].measurements[m].rssi_last \in UInt8
  BY <1>1 DEF MeasuringResult
<1> QED BY <1>2, SwapRange DEF StrongestDistance, LastDistance

(***************************************************************************)
(* The position of a return: below 2 * NMeas * NBlocks, in the order of    *)
(* the blocks, different for different returns.                            *)
(***************************************************************************)
LEMMA SlotRange ==
  ASSUME NEW b \in 0 .. NBlocks - 1, NEW m \in 0 .. NMeas - 1, NEW r \in 0 .. 1
  PROVE  Slot(b, m, r) \in Slots
<1>1. /\ b \in Int /\ 0 <= b /\ b <= 11
      /\ m \in Int /\ 0 <= m /\ m <= 15
      /\ r \in Int /\ 0 <= r /\ r <= 1
  BY DEF NBlocks, NMeas
<1>2. PICK s \in Int : s = (b * 16 + m) * 2 + r
  BY <1>1
<1>3. 0 <= s /\ s < 384
  BY <1>1, <1>2
<1>4. PICK n \in Int : n = NBlocks * NMeas * 2
  BY DEF NBlocks, NMeas
<1>5. n = 384
  BY <1>4 DEF NBlocks, NMeas
<1>6. s \in 0 .. n - 1
  BY <1>3, <1>5
<1>7. Slot(b, m, r) = s
  BY <1>2 DEF Slot, NMeas
<1> QED BY <1>4, <1>6, <1>7 DEF Slots

\* Different returns have different positions in the vector.
LEMMA SlotInjective ==
  ASSUME NEW b \in 0 .. NBlocks - 1, NEW m \in 0 .. NMeas - 1, NEW r \in 0 .. 1,
         NEW c \in 0 .. NBlocks - 1, NEW n \in 0 .. NMeas - 1, NEW s \in 0 .. 1,
         Slot(b, m, r) = Slot(c, n, s)
  PROVE  b = c /\ m = n /\ r = s
<1>1. /\ b \in Int /\ c \in Int
      /\ m \in Int /\ 0 <= m /\ m <= 15 /\ n \in Int /\ 0 <= n /\ n <= 15
      /\ r \in Int /\ 0 <= r /\ r <= 1 /\ s \in Int /\ 0 <= s /\ s <= 1
  BY DEF NMeas
<1>2. (b * 16 + m) * 2 + r = (c * 16 + n) * 2 + s
  BY DEF Slot, NMeas
<1> QED BY <1>1, <1>2

\* What isValidDistance accepts is within the range of the sensor.
LEMMA InRange ==
  ASSUME NEW d \in UInt16, isValidDistance(d)
  PROVE  d \in Distance
<1>1. MinDistance \in Int /\ MaxDistance \in Int
  BY DEF MinDistance, MaxDistance
<1>2. d \in Int
  BY DEF UInt16
<1> QED BY <1>1, <1>2 DEF isValidDistance, Distance

(***************************************************************************)
(* Every element that parsePacket pushes is a point: an angle of one turn, *)
(* a distance within the range of the sensor.                              *)
(***************************************************************************)
LEMMA ParsedArePoints ==
  ASSUME NEW packet \in MSOPPacket
  PROVE  ParsedPoints(packet) \subseteq Point
<1>1. ASSUME NEW b \in 0 .. NBlocks - 1, NEW m \in 0 .. NMeas - 1, StrongestReported(packet, b, m)
      PROVE  StrongestPoint(packet, b, m) \in Point
  <2>1. StrongestDistance(packet, b, m) \in Distance
    BY <1>1, DistanceFields, InRange DEF StrongestReported, Plausible
  <2> QED BY <2>1, PointAzimuthType, DistanceFields, SlotRange DEF StrongestPoint, Point
<1>2. ASSUME NEW b \in 0 .. NBlocks - 1, NEW m \in 0 .. NMeas - 1, LastReported(packet, b, m)
      PROVE  LastPoint(packet, b, m) \in Point
  <2>1. LastDistance(packet, b, m) \in Distance
    BY <1>2, DistanceFields, InRange DEF LastReported, Plausible
  <2> QED BY <2>1, PointAzimuthType, DistanceFields, SlotRange DEF LastPoint, Point
<1>3. ASSUME NEW p \in ParsedPoints(packet)
      PROVE  \E b \in 0 .. NBlocks - 1, m \in 0 .. NMeas - 1 :
               \/ StrongestReported(packet, b, m) /\ p = StrongestPoint(packet, b, m)
               \/ LastReported(packet, b, m) /\ p = LastPoint(packet, b, m)
  BY DEF ParsedPoints, Readings
<1> QED BY <1>1, <1>2, <1>3

\* Different points have different positions in the vector.
LEMMA SlotsDiffer ==
  ASSUME NEW packet, NEW p \in ParsedPoints(packet), NEW q \in ParsedPoints(packet),
         p.slot = q.slot
  PROVE  p = q
<1> DEFINE Blocks == 0 .. NBlocks - 1
           Indices == 0 .. NMeas - 1
<1>1. ASSUME NEW x \in ParsedPoints(packet)
      PROVE  \E b \in Blocks, m \in Indices :
               \/ x = StrongestPoint(packet, b, m) /\ x.slot = Slot(b, m, 0)
               \/ x = LastPoint(packet, b, m) /\ x.slot = Slot(b, m, 1)
  <2>1. PICK b \in Blocks, m \in Indices : x = StrongestPoint(packet, b, m) \/ x = LastPoint(packet, b, m)
    BY DEF ParsedPoints, Readings
  <2>2. StrongestPoint(packet, b, m).slot = Slot(b, m, 0) /\ LastPoint(packet, b, m).slot = Slot(b, m, 1)
    BY DEF StrongestPoint, LastPoint
  <2> QED BY <2>1, <2>2
<1>2. PICK b \in Blocks, m \in Indices :
         \/ p = StrongestPoint(packet, b, m) /\ p.slot = Slot(b, m, 0)
         \/ p = LastPoint(packet, b, m) /\ p.slot = Slot(b, m, 1)
  BY <1>1
<1>3. PICK c \in Blocks, n \in Indices :
         \/ q = StrongestPoint(packet, c, n) /\ q.slot = Slot(c, n, 0)
         \/ q = LastPoint(packet, c, n) /\ q.slot = Slot(c, n, 1)
  BY <1>1
<1>4. 0 \in 0 .. 1 /\ 1 \in 0 .. 1 /\ 0 # 1
  OBVIOUS
<1>5. ASSUME NEW r \in 0 .. 1, NEW s \in 0 .. 1, p.slot = Slot(b, m, r), q.slot = Slot(c, n, s)
      PROVE  b = c /\ m = n /\ r = s
  <2>1. Slot(b, m, r) = Slot(c, n, s)
    BY <1>5
  <2> HIDE DEF Blocks, Indices
  <2>2. b \in 0 .. NBlocks - 1 /\ c \in 0 .. NBlocks - 1 /\ m \in 0 .. NMeas - 1 /\ n \in 0 .. NMeas - 1
    BY DEF Blocks, Indices
  <2> QED BY <2>1, <2>2, SlotInjective
<1> QED BY <1>2, <1>3, <1>4, <1>5

(***************************************************************************)
(* A packet has finitely many points.                                      *)
(***************************************************************************)
LEMMA ParsedFinite ==
  ASSUME NEW packet
  PROVE  IsFiniteSet(ParsedPoints(packet))
<1> DEFINE cells == (0 .. NBlocks - 1) \X (0 .. NMeas - 1)
           strongest == {x \in Readings(packet) : StrongestReported(packet, x[1], x[2])}
           last == {x \in Readings(packet) : LastReported(packet, x[1], x[2])}
           f == [x \in strongest |-> StrongestPoint(packet, x[1], x[2])]
           g == [x \in last |-> LastPoint(packet, x[1], x[2])]
<1>1. IsFiniteSet(cells)
  <2>1. NBlocks - 1 \in Int /\ NMeas - 1 \in Int /\ 0 \in Int
    BY DEF NBlocks, NMeas
  <2> QED BY <2>1, FS_Interval, FS_Product
<1>2. strongest \subseteq cells /\ last \subseteq cells
  BY DEF Readings
<1>3. IsFiniteSet(strongest) /\ IsFiniteSet(last)
  BY <1>1, <1>2, FS_Subset
<1> HIDE DEF cells, strongest, last
<1>4. IsFiniteSet({f[x] : x \in strongest})
  BY <1>3, ImageFinite
<1>5. IsFiniteSet({g[x] : x \in last})
  BY <1>3, ImageFinite
<1>6. ParsedPoints(packet) = {f[x] : x \in strongest} \cup {g[x] : x \in last}
  BY DEF ParsedPoints, strongest, last
<1> QED BY <1>4, <1>5, <1>6, FS_Union

-----------------------------------------------------------------------------
(* The choice of one sample.                                               *)

\* What the filter keeps is a sample of the bin.
LEMMA KeptAreSamples ==
  ASSUME NEW samples
  PROVE  Kept(samples) \subseteq samples
<1>1. FilteredSamples(samples) \subseteq samples
  BY DEF FilteredSamples
<1>2. KeptOfMany(samples) \subseteq samples
  BY <1>1 DEF KeptOfMany
<1>3. KeptOfTwo(samples) \subseteq samples /\ KeptOfOne(samples) \subseteq samples
  BY DEF KeptOfTwo, KeptOfOne
<1> QED BY <1>2, <1>3 DEF Kept

(***************************************************************************)
(* A bin contributes at most one point, ties of RSSI included.             *)
(***************************************************************************)
LEMMA AtMostOneKept ==
  ASSUME NEW samples, IsFiniteSet(samples),
         \A s \in samples : s.at \in Int /\ s.rssi \in Int,
         NEW p \in Kept(samples), NEW q \in Kept(samples)
  PROVE  p = q
<1>1. p \in samples /\ q \in samples
  BY KeptAreSamples
<1>2. Cardinality(samples) \in Nat
  BY FS_CardinalityType
<1>3. CASE Cardinality(samples) >= 3
  <2>1. p \in KeptOfMany(samples) /\ q \in KeptOfMany(samples)
    BY <1>3 DEF Kept
  <2> QED BY <2>1 DEF KeptOfMany
<1>4. CASE Cardinality(samples) = 2
  <2> SUFFICES ASSUME p # q PROVE FALSE
    OBVIOUS
  <2>1. p \in KeptOfTwo(samples) /\ q \in KeptOfTwo(samples)
    BY <1>4 DEF Kept
  <2>2. samples = {p, q}
    BY <1>1, <1>4, TwoElements
  <2>3. p.rssi > q.rssi \/ (p.rssi = q.rssi /\ p.at > q.at)
    BY <2>1, <2>2 DEF KeptOfTwo
  <2>4. q.rssi > p.rssi \/ (q.rssi = p.rssi /\ q.at > p.at)
    BY <2>1, <2>2 DEF KeptOfTwo
  <2> QED BY <1>1, <2>3, <2>4
<1>5. CASE Cardinality(samples) \in {0, 1}
  BY <1>1, <1>5, AtMostOneElement
<1> QED BY <1>2, <1>3, <1>4, <1>5

=============================================================================
