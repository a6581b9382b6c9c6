--------------------------- MODULE SlamMSOPParser ---------------------------
(***************************************************************************)
(* The functions of slam_lidar_cpp/src/msop_parser.cpp, the second parser  *)
(* of the same packets.  Its object keeps nothing between calls.           *)
(*                                                                         *)
(* Angles are sixteenths of a hundredth of a degree: a sixteenth of the    *)
(* way between two azimuths is a whole number of them.                     *)
(***************************************************************************)
EXTENDS MSOPFormat, FiniteSets

FineAzimuth == 0 .. FineTurn - 1

\* VALID_FLAG is compared with the flag as the host loads it, 0xEEFF.
isValidBlock(block) == block.flag = 61183

getAzimuth(packet, b) == be16ToHost(packet.data_blocks[b].azimuth)

\* Mutant: only 0 is a mark.
OneMark(raw) == be16ToHost(raw)

\* Both marks for "no return" become 0.
getDistance(raw) ==
  LET distance == be16ToHost(raw)
  IN  IF distance = 65535 THEN 0 ELSE distance

\* The shorter way round between two azimuths.
Wraparound(difference) ==
  CASE difference < -(FullTurn \div 2) -> difference + FullTurn
    [] difference >   FullTurn \div 2  -> difference - FullTurn
    [] OTHER                           -> difference

\* Mutant: the last point of a block reaches the next block.
FifteenSteps(current, next, m) ==
  (NMeas * current + ((NMeas * Wraparound(next - current)) \div (NMeas - 1)) * m) % FineTurn

calculatePointAzimuth(current, next, m) ==
  (NMeas * current + Wraparound(next - current) * m) % FineTurn

\* Mutant: the last block is not extrapolated.
NoExtrapolation(packet, b) ==
  IF b < NBlocks - 1 /\ isValidBlock(packet.data_blocks[b + 1])
  THEN getAzimuth(packet, b + 1)
  ELSE getAzimuth(packet, b)

\* The azimuth interpolated towards: the next block's, for the last block as
\* far again as from the one before, and the block's own where that one is
\* not valid - all its points then share one angle.
nextAzimuth(packet, b) ==
  LET current == getAzimuth(packet, b)
      Known(c) == c \in 0 .. NBlocks - 1 /\ isValidBlock(packet.data_blocks[c])
  IN  CASE b < NBlocks - 1 /\ Known(b + 1) -> getAzimuth(packet, b + 1)
        [] b = NBlocks - 1 /\ Known(b - 1) ->
             current + Wraparound(current - getAzimuth(packet, b - 1))
        [] OTHER                           -> current

SlamAzimuth(packet, b, m) ==
  calculatePointAzimuth(getAzimuth(packet, b), nextAzimuth(packet, b), m)

SlamReadings(packet) ==
  {bm \in (0 .. NBlocks - 1) \X (0 .. NMeas - 1) : isValidBlock(packet.data_blocks[bm[1]])}

Strongest(packet, b, m) ==
  getDistance(packet.data_blocks[b].measurements[m].distance_strongest)

Last(packet, b, m) ==
  getDistance(packet.data_blocks[b].measurements[m].distance_last)

SlamStrongestPoint(packet, b, m) ==
  [slot |-> Slot(b, m, 0), azimuth |-> SlamAzimuth(packet, b, m),
   distance |-> Strongest(packet, b, m),
   rssi |-> packet.data_blocks[b].measurements[m].rssi_strongest,
   is_strongest |-> TRUE]

SlamLastPoint(packet, b, m) ==
  [slot |-> Slot(b, m, 1), azimuth |-> SlamAzimuth(packet, b, m),
   distance |-> Last(packet, b, m),
   rssi |-> packet.data_blocks[b].measurements[m].rssi_last,
   is_strongest |-> FALSE]

SlamStrongestReported(packet, b, m) == Strongest(packet, b, m) > 0

\* Mutant: the last return is only looked at when the strongest one counts.
LastAfterStrongest(packet, b, m) ==
  /\ Strongest(packet, b, m) > 0
  /\ Last(packet, b, m) > 0
  /\ Last(packet, b, m) # Strongest(packet, b, m)

SlamLastReported(packet, b, m) ==
  /\ Last(packet, b, m) > 0
  /\ Last(packet, b, m) # Strongest(packet, b, m)

\* parsePacket; the vector is the set ordered by slot.
SlamPoints(packet) ==
    {SlamStrongestPoint(packet, bm[1], bm[2]) :
        bm \in {x \in SlamReadings(packet) : SlamStrongestReported(packet, x[1], x[2])}}
  \cup
    {SlamLastPoint(packet, bm[1], bm[2]) :
        bm \in {x \in SlamReadings(packet) : SlamLastReported(packet, x[1], x[2])}}

InvalidAtEnd(packet) == {i \in 6 .. NBlocks - 1 : ~isValidBlock(packet.data_blocks[i])}

\* Mutant: the count must be exact.
ExactlyHalf(packet) == Cardinality(InvalidAtEnd(packet)) = 3

slamIsLastPacket(packet) == Cardinality(InvalidAtEnd(packet)) >= 3

validatePacket(packet) == \E i \in 0 .. NBlocks - 1 : isValidBlock(packet.data_blocks[i])

=============================================================================
