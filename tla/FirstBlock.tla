----------------------------- MODULE FirstBlock -----------------------------
(***************************************************************************)
(* The two debugging tools of slam_lidar_cpp that interpret a packet,      *)
(* lakibeam_reader.cpp and lidar_plotter.cpp.  Both look at its first      *)
(* block only.                                                             *)
(***************************************************************************)
EXTENDS MSOPFormat

\* How far the canvas of lidar_plotter reaches along the ray of an azimuth, in
\* millimetres: a pixel's coordinates grow with the distance, so a ray leaves
\* the canvas once.  400 pixels of 10 mm from the centre are 4 m towards an
\* edge, less one where the edge belongs to the next pixel, and at most 401
\* times the square root of 2 towards a corner.
CONSTANT Reach

ASSUME ReachAssumption == Reach \in [UInt16 -> 3999 .. 5671]

\* The tools compare flag and azimuth one after the other; nothing is shown of
\* a block that fails either test.
FirstBlockUsed(packet) ==
  LET block == packet.data_blocks[0]
  IN  be16ToHost(block.flag) = 65518 /\ be16ToHost(block.azimuth) # 65535

NoReturn == {0, 65535}

StrongestEcho(packet, m) ==
  [distance |-> StrongestDistance(packet, 0, m),
   rssi     |-> packet.data_blocks[0].measurements[m].rssi_strongest]

LastEcho(packet, m) ==
  [distance |-> LastDistance(packet, 0, m),
   rssi     |-> packet.data_blocks[0].measurements[m].rssi_last]

\* Mutant: the distance of one return with the signal of the other.
ChosenMixed(packet, m) ==
  IF StrongestDistance(packet, 0, m) \notin NoReturn THEN StrongestEcho(packet, m)
  ELSE [LastEcho(packet, m) EXCEPT !.rssi = StrongestEcho(packet, m).rssi]

\* lakibeam_reader: the strongest return, or the last where there is none.
Chosen(packet, m) ==
  IF StrongestDistance(packet, 0, m) \notin NoReturn THEN StrongestEcho(packet, m)
  ELSE LastEcho(packet, m)

Seen(e) == e.distance \notin NoReturn /\ e.rssi > 0

\* A fixed step of 0.25 degrees; the sum is printed as it is, past a turn too.
LakibeamEchoes(packet) ==
  {[m |-> m, azimuth |-> be16ToHost(packet.data_blocks[0].azimuth) + 25 * m,
    echo |-> Chosen(packet, m)] :
     m \in {i \in 0 .. NMeas - 1 : FirstBlockUsed(packet) /\ Seen(Chosen(packet, i))}}

\* The pixel lies on the canvas.
OnCanvas(azimuth, distance) == distance <= Reach[azimuth]

\* Mutant: echoes without a signal are drawn too.
DrawnUnseen(azimuth, e) == e.distance \notin NoReturn /\ OnCanvas(azimuth, e.distance)

Drawn(azimuth, e) == e.distance \notin NoReturn /\ e.rssi > 0 /\ OnCanvas(azimuth, e.distance)

\* lidar_plotter: strongest returns only, all sixteen on the ray of the block.
PlottedEchoes(packet) ==
  LET azimuth == be16ToHost(packet.data_blocks[0].azimuth)
  IN  {[m |-> m, azimuth |-> azimuth, echo |-> StrongestEcho(packet, m)] :
         m \in {i \in 0 .. NMeas - 1 :
                 FirstBlockUsed(packet) /\ Drawn(azimuth, StrongestEcho(packet, i))}}

=============================================================================
