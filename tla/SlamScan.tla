------------------------------ MODULE SlamScan ------------------------------
(***************************************************************************)
(* LiDARReader::readScan of slam_lidar_cpp/src/lidar_reader.cpp: the 192   *)
(* beams made of one packet.  Only the strongest returns are used.         *)
(*                                                                         *)
(* Angles are sixteenths of a hundredth of a degree, and ranges are        *)
(* millimetres.  The source names the fields of an older data_type.h; the  *)
(* layout is that of MSOPFormat.                                           *)
(***************************************************************************)
EXTENDS MSOPFormat

Beams == 0 .. NBlocks * NMeas - 1

\* INF_DIST: more than any 16-bit number of millimetres.
Infinite == 2^16

\* The remainder of C++, which has the sign of the dividend.
Remainder(a, n) == IF a >= 0 THEN a % n ELSE -((-a) % n)

RawAzimuth(packet, b) == be16ToHost(packet.data_blocks[b].azimuth)

\* Mutant: the difference is not wrapped.
PlainStep(packet) == RawAzimuth(packet, 1) - RawAzimuth(packet, 0)

\* One step for the whole packet, from its first two blocks, valid or not.
StepOf(packet) == Remainder(RawAzimuth(packet, 1) - RawAzimuth(packet, 0) + FullTurn, FullTurn)

\* Mutant: the angle is not brought back into the turn.
UnreducedAngle(packet, b, i, angle_offset) ==
  NMeas * (RawAzimuth(packet, b) + 100 * angle_offset) + StepOf(packet) * i

\* angle_offset is in whole degrees, of either sign.
BeamAngle(packet, b, i, angle_offset) ==
  (NMeas * (RawAzimuth(packet, b) + 100 * angle_offset) + StepOf(packet) * i) % FineTurn

RawDistance(packet, b, i) ==
  be16ToHost(packet.data_blocks[b].measurements[i].distance_strongest)

Returned(packet, b, i) ==
  /\ be16ToHost(packet.data_blocks[b].flag) = 65518
  /\ RawDistance(packet, b, i) > 0

Beam(packet, b, i, angle_offset) ==
  [angle     |-> BeamAngle(packet, b, i, angle_offset),
   range     |-> IF Returned(packet, b, i) THEN RawDistance(packet, b, i) ELSE Infinite,
   intensity |-> IF Returned(packet, b, i)
                 THEN packet.data_blocks[b].measurements[i].rssi_strongest ELSE 0]

\* Where beam number k of the packet is put, and the beam found at place k.
Place(k, inverted) == IF inverted THEN NBlocks * NMeas - 1 - k ELSE k

Scan(packet, angle_offset, inverted) ==
  [idx \in Beams |->
     LET k == Place(idx, inverted)
     IN  Beam(packet, k \div NMeas, k % NMeas, angle_offset)]

\* The scan of a reader built with the default arguments.
DefaultScan(packet) == Scan(packet, 0, FALSE)

=============================================================================
