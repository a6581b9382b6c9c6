----------------------------- MODULE Agreement ------------------------------
(***************************************************************************)
(* The repository reads one packet format in five pieces of code: the      *)
(* parser of reader2.0 (MSOPFormat), the parser of slam_lidar_cpp          *)
(* (SlamMSOPParser), readScan (SlamScan), and, its first block only, with  *)
(* two debugging tools (FirstBlock).  Here example_usage of the second     *)
(* parser, lines 271 to 306, runs on datagram after datagram, and the      *)
(* properties compare what it finds with what the others would.            *)
(***************************************************************************)
EXTENDS SlamMSOPParser, SlamScan, FirstBlock

CONSTANT Datagrams

ASSUME DatagramsAssumption == Datagrams \subseteq Datagram

VARIABLES raw, stage, points, info

vars == <<raw, stage, points, info>>

NoInfo == [timestamp |-> [i \in 1 .. 4 |-> 0], factory |-> 0, last |-> FALSE]

Init ==
  /\ raw \in Datagrams
  /\ stage = "validate"
  /\ points = {}
  /\ info = NoInfo

Validate ==
  /\ stage = "validate"
  /\ stage' = IF raw.size = PacketSize /\ validatePacket(raw.packet) THEN "parse" ELSE "refused"
  /\ UNCHANGED <<raw, points, info>>

Parse ==
  /\ stage = "parse"
  /\ points' = SlamPoints(raw.packet)
  /\ stage' = "describe"
  /\ UNCHANGED <<raw, info>>

\* getTimestamp, getFactoryInfo and isLastPacket, on a packet of full size.
Describe ==
  /\ stage = "describe"
  /\ info' = [timestamp |-> be32ToHost(raw.packet.timestamp),
              factory   |-> be16ToHost(raw.packet.factory_info),
              last      |-> slamIsLastPacket(raw.packet)]
  /\ stage' = "done"
  /\ UNCHANGED <<raw, points>>

\* The caller comes with another datagram.
Again ==
  /\ stage \in {"done", "refused"}
  /\ raw' \in Datagrams
  /\ stage' = "validate"
  /\ points' = {}
  /\ info' = NoInfo

Next == Validate \/ Parse \/ Describe \/ Again

Spec == Init /\ [][Next]_vars

-----------------------------------------------------------------------------

SlamPoint == [slot : Slots, azimuth : FineAzimuth, distance : UInt16 \ {0, 65535},
              rssi : UInt8, is_strongest : BOOLEAN]

(***************************************************************************)
(* Whatever the azimuths of the blocks are, every angle is on the circle   *)
(* after one or two ways round, and both marks for no return are gone.     *)
(***************************************************************************)
TypeOK ==
  /\ raw \in Datagrams
  /\ stage \in {"validate", "parse", "describe", "done", "refused"}
  /\ points \subseteq SlamPoint
  /\ info \in [timestamp : [1 .. 4 -> UInt8], factory : UInt16, last : BOOLEAN]

Blocks == 0 .. NBlocks - 1

SlamValid(b) == isValidBlock(raw.packet.data_blocks[b])

BlockAzimuth(b) == getAzimuth(raw.packet, b)

(***************************************************************************)
(* Both parsers find the same echoes: the same returns of the same blocks, *)
(* with the same signal strength, apart from distances out of the range    *)
(* that only reader2.0 checks and from blocks with the azimuth 0xFFFF that *)
(* only reader2.0 refuses.  The two read the flag of a block differently,  *)
(* treat the marks for no return differently, and only one calls           *)
(* validatePacket first.                                                   *)
(***************************************************************************)
Echo(p) == [slot |-> p.slot, distance |-> p.distance, rssi |-> p.rssi,
            is_strongest |-> p.is_strongest]

EchoesAgree ==
  (/\ stage \in {"done", "refused"}
   /\ raw.size = PacketSize
   /\ \A b \in Blocks : SlamValid(b) => BlockAzimuth(b) # 65535)
    => {Echo(p) : p \in ParsedPoints(raw.packet)}
         = {Echo(q) : q \in {x \in points : x.distance \in Distance}}

(***************************************************************************)
(* At the sensor's own resolution both parsers give every echo the same    *)
(* angle: across 360 degrees, where one falls back to its default step and *)
(* the other goes the shorter way round, and in the last block, which one  *)
(* extrapolates and the other does not.                                    *)
(***************************************************************************)
Nominal ==
  /\ \A b \in Blocks : SlamValid(b) =>
       /\ BlockAzimuth(b) < FullTurn
       /\ b < NBlocks - 1 =>
            SlamValid(b + 1) /\ BlockAzimuth(b + 1) = (BlockAzimuth(b) + 25 * NMeas) % FullTurn
  /\ SlamValid(NBlocks - 1) => SlamValid(NBlocks - 2)

AnglesAgree ==
  (stage = "done" /\ Nominal) =>
    \A p \in ParsedPoints(raw.packet), q \in points :
      p.slot = q.slot => q.azimuth = NMeas * p.azimuth

(***************************************************************************)
(* At any other resolution the angles of reader2.0, which rounds the step  *)
(* down to a hundredth of a degree, lag behind by less than one hundredth  *)
(* for each measurement, in every block that a valid one follows at a      *)
(* larger azimuth of the same turn, by half a turn at most.  Beyond that,  *)
(* and where an invalid block follows, the two parsers take different      *)
(* steps.                                                                  *)
(***************************************************************************)
FollowedForward(b) ==
  /\ b < NBlocks - 1 /\ SlamValid(b) /\ SlamValid(b + 1)
  /\ BlockAzimuth(b + 1) < FullTurn
  /\ BlockAzimuth(b) < BlockAzimuth(b + 1)
  /\ BlockAzimuth(b + 1) - BlockAzimuth(b) <= FullTurn \div 2

LagBounded ==
  stage = "done" =>
    \A p \in ParsedPoints(raw.packet), q \in points :
      LET b == p.slot \div (2 * NMeas)
          m == (p.slot \div 2) % NMeas
      IN  (p.slot = q.slot /\ FollowedForward(b)) =>
            q.azimuth - NMeas * p.azimuth \in 0 .. (NMeas - 1) * m

(***************************************************************************)
(* readScan agrees with the parser beside it, beam by beam, as long as the *)
(* blocks are all valid and evenly spaced below half a turn, also across   *)
(* 360 degrees: it uses one step for all twelve blocks where the parser    *)
(* interpolates each.  (A strongest return of 0xFFFF is no return for the  *)
(* parser and a beam of 65.535 m for readScan.)                            *)
(***************************************************************************)
EvenlySpaced ==
  LET step == (BlockAzimuth(1) - BlockAzimuth(0)) % FullTurn
  IN  /\ step < FullTurn \div 2
      /\ \A b \in Blocks :
           /\ SlamValid(b)
           /\ BlockAzimuth(b) < FullTurn
           /\ b < NBlocks - 1 => BlockAzimuth(b + 1) = (BlockAzimuth(b) + step) % FullTurn

ScanAgrees ==
  (stage = "done" /\ EvenlySpaced) =>
    LET scan == DefaultScan(raw.packet)
    IN  {[k |-> k, angle |-> scan[k].angle, range |-> scan[k].range] :
           k \in {j \in Beams : scan[j].range \notin {65535, Infinite}}}
        = {[k |-> p.slot \div 2, angle |-> p.azimuth, range |-> p.distance] :
             p \in {q \in points : q.is_strongest}}

(***************************************************************************)
(* The two tests for the last packet of a rotation: what reader2.0 takes   *)
(* for the last one slam_lidar_cpp does too, and where the second half of  *)
(* the packet is all valid or all marked they agree.  In between, what     *)
(* only slam_lidar_cpp takes for the last one still has points behind its  *)
(* middle, from at most three of the six blocks there.                     *)
(***************************************************************************)
LastPacketsAgree ==
  LET SecondHalf == 6 .. NBlocks - 1
      Marked(b)  == raw.packet.data_blocks[b].flag = 65535
      Sources    == {b \in SecondHalf : \E q \in points : q.slot \div (2 * NMeas) = b}
  IN  stage = "done" =>
        /\ isLastPacket(raw.packet) => info.last
        /\ (\A b \in SecondHalf : SlamValid(b)) \/ (\A b \in SecondHalf : Marked(b))
             => (info.last <=> isLastPacket(raw.packet))
        /\ info.last => Cardinality(Sources) <= 3

(***************************************************************************)
(* What lakibeam_reader prints within the range of the sensor is a point   *)
(* of the parser with the same signal, and at the sensor's own resolution  *)
(* at the same angle, up to a turn; what it leaves out of the first block  *)
(* has no signal or stands behind a strongest return that has none.        *)
(***************************************************************************)
FirstBlockPoints == {p \in ParsedPoints(raw.packet) : p.slot < Slot(1, 0, 0)}

LakibeamAgrees ==
  raw.size = PacketSize =>
    LET shown == LakibeamEchoes(raw.packet)
    IN  /\ \A e \in shown : e.echo.distance \in Distance =>
             \E p \in FirstBlockPoints :
               /\ p.slot \div 2 = e.m /\ p.distance = e.echo.distance /\ p.rssi = e.echo.rssi
               /\ Nominal => p.azimuth = e.azimuth % FullTurn
        /\ \A p \in FirstBlockPoints : LET m == p.slot \div 2 IN
             \/ m \in {e.m : e \in shown}
             \/ p.rssi = 0
             \/ /\ StrongestDistance(raw.packet, 0, m) \notin NoReturn
                /\ StrongestEcho(raw.packet, m).rssi = 0

(***************************************************************************)
(* What lidar_plotter draws lakibeam_reader prints.  What that one prints  *)
(* of the strongest returns the plotter draws if it is nearer than 4 m, or *)
(* no further than another echo of the block that is drawn; it draws a     *)
(* whole block on one ray, and nothing from 5.68 m on.  At the sensor's    *)
(* own resolution the parser's point is at most fifteen steps, 3.75        *)
(* degrees, further on.                                                    *)
(***************************************************************************)
PlotterAgrees ==
  raw.size = PacketSize =>
    LET plotted == PlottedEchoes(raw.packet)
        printed == {x \in LakibeamEchoes(raw.packet) :
                      StrongestDistance(raw.packet, 0, x.m) \notin NoReturn}
        Shows(e, x) == e.m = x.m /\ e.echo = x.echo
    IN  /\ \A e \in plotted : e.echo.distance < 5680 /\ \E x \in printed : Shows(e, x)
        /\ \A x \in printed :
             (x.echo.distance < 4000 \/ \E f \in plotted : x.echo.distance <= f.echo.distance)
               => \E e \in plotted : Shows(e, x)
        /\ Nominal => \A e \in plotted, p \in FirstBlockPoints :
             p.slot = Slot(0, e.m, 0) => (p.azimuth - e.azimuth) % FullTurn <= 25 * (NMeas - 1)

=============================================================================
