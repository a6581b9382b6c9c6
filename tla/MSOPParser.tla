----------------------------- MODULE MSOPParser -----------------------------
(***************************************************************************)
(* The MSOPParser object of reader2.0 and the points vector its caller     *)
(* passes to every call: one parsePacket after another, on whatever        *)
(* datagrams arrive.  `buffer` is the caller's receive buffer, the data    *)
(* argument of the latest call.                                            *)
(***************************************************************************)
EXTENDS MSOPFormat, FiniteSets

CONSTANT Datagrams      \* the datagrams that may arrive

ASSUME DatagramsAssumption == Datagrams \subseteq Datagram

VARIABLES points, last_timestamp_, last_factory_info_, buffer, ok

vars == <<points, last_timestamp_, last_factory_info_, buffer, ok>>

Zero32 == [i \in 1 .. 4 |-> 0]

(***************************************************************************)
(* Whatever arrives, points are at 0 to 359.99 degrees and 0.1 m to 15 m,  *)
(* and the getters return words of their widths.                           *)
(***************************************************************************)
TypeOK ==
  /\ points \in SUBSET Point
  /\ last_timestamp_ \in [1 .. 4 -> UInt8]
  /\ last_factory_info_ \in UInt16
  /\ buffer \in Datagrams
  /\ ok \in BOOLEAN

\* Before the first call the buffer holds anything and nothing has been parsed.
Init ==
  /\ points = {}
  /\ last_timestamp_ = Zero32
  /\ last_factory_info_ = 0
  /\ buffer \in Datagrams
  /\ ok = FALSE

\* Mutant: the points are cleared after the size check.
RejectKeepsPoints(d) ==
  /\ d.size # PacketSize
  /\ ok' = FALSE
  /\ UNCHANGED <<points, last_timestamp_, last_factory_info_>>

\* points.clear() comes before the size check, so a refused datagram leaves
\* no points of an earlier one behind.
Reject(d) ==
  /\ d.size # PacketSize
  /\ points' = {}
  /\ ok' = FALSE
  /\ UNCHANGED <<last_timestamp_, last_factory_info_>>

Accept(d) ==
  /\ d.size = PacketSize
  /\ last_timestamp_' = be32ToHost(d.packet.timestamp)
  /\ last_factory_info_' = be16ToHost(d.packet.factory_info)
  /\ points' = ParsedPoints(d.packet)
  /\ ok' = TRUE

parsePacket(d) ==
  /\ buffer' = d
  /\ Reject(d) \/ Accept(d)

Next == \E d \in Datagrams : parsePacket(d)

Spec == Init /\ [][Next]_vars

-----------------------------------------------------------------------------

(***************************************************************************)
(* Every valid echo once: for each measurement of a valid block, each      *)
(* distance within range that the sensor returned appears in exactly one   *)
(* point, whether it was the strongest return, the last, or both, and      *)
(* blocks that are not valid give none.                                    *)
(***************************************************************************)
Echoes(b, m) == {StrongestDistance(buffer.packet, b, m), LastDistance(buffer.packet, b, m)}

PointsOf(b, m) == {p \in points : p.slot \in {Slot(b, m, 0), Slot(b, m, 1)}}

EveryEchoOnce ==
  ok => \A b \in 0 .. NBlocks - 1, m \in 0 .. NMeas - 1 : \A e \in Echoes(b, m) :
          Cardinality({p \in PointsOf(b, m) : p.distance = e}) =
            IF isValidDataBlock(buffer.packet.data_blocks[b]) /\ e \in Distance
            THEN 1 ELSE 0

(***************************************************************************)
(* The sweep is not folded: while the valid blocks of a packet follow each *)
(* other clockwise at least NMeas default steps apart, later points never  *)
(* lie at a smaller angle than earlier ones, across blocks and across gaps *)
(* left by blocks that are not valid.  Interpolation must not overshoot    *)
(* the next block.                                                         *)
(***************************************************************************)
ValidBlocks(packet) ==
  {b \in 0 .. NBlocks - 1 : isValidDataBlock(packet.data_blocks[b])}

Az(packet, b) == be16ToHost(packet.data_blocks[b].azimuth)

\* Consecutive blocks may be closer: their resolution comes from their distance.
\* No block is so near the end of the turn that default steps would leave it.
Clockwise(packet) ==
  /\ \A b \in ValidBlocks(packet) : Az(packet, b) < FullTurn - 25 * NMeas
  /\ \A b, c \in ValidBlocks(packet) :
       b < c => IF c = b + 1 THEN Az(packet, b) < Az(packet, c)
                ELSE Az(packet, b) + 25 * (NMeas - 1) <= Az(packet, c)

SweepInOrder ==
  (ok /\ Clockwise(buffer.packet)) =>
     \A p, q \in points : p.slot < q.slot => p.azimuth <= q.azimuth

(***************************************************************************)
(* Points and the getters agree: whenever the vector holds points, the     *)
(* timestamp and the factory word the getters return are those of the      *)
(* datagram the points came from, over any sequence of accepted and        *)
(* refused calls.  main.cpp prints the three together.                     *)
(***************************************************************************)
PointsMatchMetadata ==
  points # {} =>
    /\ buffer.size = PacketSize
    /\ \A i \in 1 .. 4 : last_timestamp_[i] = buffer.packet.timestamp[5 - i]
    /\ last_factory_info_ = be16ToHost(buffer.packet.factory_info)
    /\ points \subseteq ParsedPoints(buffer.packet)

(***************************************************************************)
(* A packet that isLastPacket recognises as the end of a rotation has      *)
(* points from its first half only.                                        *)
(***************************************************************************)
LastPacketHalfEmpty ==
  (ok /\ isLastPacket(buffer.packet)) => \A p \in points : p.slot < Slot(6, 0, 0)

-----------------------------------------------------------------------------
(* What the documentation says and the code does not do.                   *)

(***************************************************************************)
(* "azimuth is within valid 270 degree range (45 to 315)", msop_parser.h   *)
(* line 75, of the check every point passes.                               *)
(***************************************************************************)
PointsInFieldOfView == \A p \in points : 4500 <= p.azimuth /\ p.azimuth <= 31500

=============================================================================
