----------------------------- MODULE MSOPFormat -----------------------------
(***************************************************************************)
(* The MSOP packet of the LakiBeam1(L) and the pure functions of           *)
(* reader2.0/msop_parser: which returns of a packet become points, and at  *)
(* which angle.                                                            *)
(*                                                                         *)
(* Units are the integers of the wire: angles in hundredths of a degree,   *)
(* distances in millimetres.  The program divides them by 100.0f and       *)
(* 1000.0f; every comparison it makes is stated here on the integers.      *)
(*                                                                         *)
(* A packet holds the fields as the little-endian host loads them, so the  *)
(* byte swaps of the parser are real operations of the model.              *)
(***************************************************************************)
EXTENDS Integers

NBlocks == 12
NMeas   == 16

UInt8  == 0 .. 2^8 - 1
UInt16 == 0 .. 2^16 - 1

\* One turn, and the range of the sensor.  The programs of slam_lidar_cpp
\* interpolate with doubles: in sixteenths their angles are whole numbers.
FullTurn    == 36000
FineTurn    == NMeas * FullTurn
MinDistance == 100
MaxDistance == 15000

MeasuringResult == [distance_strongest : UInt16, rssi_strongest : UInt8,
                    distance_last      : UInt16, rssi_last      : UInt8]

DataBlock == [flag : UInt16, azimuth : UInt16,
              measurements : [0 .. NMeas - 1 -> MeasuringResult]]

\* The timestamp is the tuple of its four bytes: TLC's integers are too short
\* for 32 bits, and the program only copies and prints it.
MSOPPacket == [data_blocks  : [0 .. NBlocks - 1 -> DataBlock],
               timestamp    : [1 .. 4 -> UInt8],
               factory_info : UInt16]

\* sizeof(MSOPPacket), and the headers a raw capture puts before it.
PacketSize == 1206
HeaderSize == 42

(***************************************************************************)
(* A UDP datagram: its length and the packet found in it, at offset 0 or,  *)
(* for the length 1248, behind the headers.  The packet of a datagram of   *)
(* any other length is never looked at.                                    *)
(***************************************************************************)
Datagram == [size : Nat, packet : MSOPPacket]

\* A position in the vector of points: block, measurement, and 0 for the
\* strongest return or 1 for the last one, in the order they are pushed.
Slots == 0 .. NBlocks * NMeas * 2 - 1

Azimuth  == 0 .. FullTurn - 1
Distance == MinDistance .. MaxDistance

Point == [slot : Slots, azimuth : Azimuth, distance : Distance,
          rssi : UInt8, is_strongest : BOOLEAN]

-----------------------------------------------------------------------------

be16ToHost(value) == (value % 256) * 256 + value \div 256

be32ToHost(value) == [i \in 1 .. 4 |-> value[5 - i]]

isValidDataBlock(block) ==
  /\ be16ToHost(block.flag) = 65518           \* 0xFFEE
  /\ be16ToHost(block.azimuth) # 65535        \* 0xFFFF

\* The header documents 45 to 315 degrees; the code accepts the whole circle.
isValidAzimuth(azimuth) == 0 <= azimuth /\ azimuth <= FullTurn

isValidDistance(distance) == MinDistance <= distance /\ distance <= MaxDistance

\* Mutant: the fixed resolution of lakibeam_reader.cpp.
FixedResolution(block_azimuth, next_block_azimuth) == 25

Resolution(block_azimuth, next_block_azimuth) ==
  IF next_block_azimuth > block_azimuth
  THEN (next_block_azimuth - block_azimuth) \div NMeas
  ELSE 25

\* Mutant: the angle is not reduced to one turn.
UnreducedAzimuth(block_azimuth, next_block_azimuth, measurement_index) ==
  (block_azimuth + Resolution(block_azimuth, next_block_azimuth) * measurement_index)
    % 2^16

\* The sum is stored in a uint16_t before it is reduced to one turn.
calculateAzimuth(block_azimuth, next_block_azimuth, measurement_index) ==
  ((block_azimuth + Resolution(block_azimuth, next_block_azimuth) * measurement_index)
     % 2^16) % FullTurn

\* The azimuth interpolated towards: that of the following block, or the
\* block's own when the following one is absent or not valid.
NextAzimuth(packet, b) ==
  IF b < NBlocks - 1 /\ isValidDataBlock(packet.data_blocks[b + 1])
  THEN be16ToHost(packet.data_blocks[b + 1].azimuth)
  ELSE be16ToHost(packet.data_blocks[b].azimuth)

PointAzimuth(packet, b, m) ==
  calculateAzimuth(be16ToHost(packet.data_blocks[b].azimuth), NextAzimuth(packet, b), m)

StrongestDistance(packet, b, m) ==
  be16ToHost(packet.data_blocks[b].measurements[m].distance_strongest)

LastDistance(packet, b, m) ==
  be16ToHost(packet.data_blocks[b].measurements[m].distance_last)

Plausible(packet, b, m, distance) ==
  /\ distance # 0
  /\ distance # 65535
  /\ isValidAzimuth(PointAzimuth(packet, b, m))
  /\ isValidDistance(distance)

Slot(b, m, r) == (b * NMeas + m) * 2 + r

StrongestPoint(packet, b, m) ==
  [slot |-> Slot(b, m, 0), azimuth |-> PointAzimuth(packet, b, m),
   distance |-> StrongestDistance(packet, b, m),
   rssi |-> packet.data_blocks[b].measurements[m].rssi_strongest,
   is_strongest |-> TRUE]

LastPoint(packet, b, m) ==
  [slot |-> Slot(b, m, 1), azimuth |-> PointAzimuth(packet, b, m),
   distance |-> LastDistance(packet, b, m),
   rssi |-> packet.data_blocks[b].measurements[m].rssi_last,
   is_strongest |-> FALSE]

StrongestReported(packet, b, m) ==
  Plausible(packet, b, m, StrongestDistance(packet, b, m))

\* Mutant: a last return equal to the strongest is reported again.
LastAlwaysReported(packet, b, m) == Plausible(packet, b, m, LastDistance(packet, b, m))

LastReported(packet, b, m) ==
  /\ Plausible(packet, b, m, LastDistance(packet, b, m))
  /\ LastDistance(packet, b, m) # StrongestDistance(packet, b, m)

Readings(packet) ==
  {bm \in (0 .. NBlocks - 1) \X (0 .. NMeas - 1) : isValidDataBlock(packet.data_blocks[bm[1]])}

(***************************************************************************)
(* The points parsePacket pushes.  The vector is the set ordered by slot.  *)
(***************************************************************************)
ParsedPoints(packet) ==
    {StrongestPoint(packet, bm[1], bm[2]) :
        bm \in {x \in Readings(packet) : StrongestReported(packet, x[1], x[2])}}
  \cup
    {LastPoint(packet, bm[1], bm[2]) :
        bm \in {x \in Readings(packet) : LastReported(packet, x[1], x[2])}}

\* Mutant: one block without data is taken for the end of the rotation.
AnyBlockInvalid(packet) ==
  \E i \in 6 .. NBlocks - 1 : be16ToHost(packet.data_blocks[i].flag) = 65535

isLastPacket(packet) ==
  \A i \in 6 .. NBlocks - 1 : be16ToHost(packet.data_blocks[i].flag) = 65535

=============================================================================
