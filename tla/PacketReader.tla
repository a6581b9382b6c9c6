---------------------------- MODULE PacketReader ----------------------------
(***************************************************************************)
(* The program of reader2.0/main.cpp: it receives datagrams for ever, lets *)
(* the parser make points of those of the two known lengths, and prints a  *)
(* report of each.                                                         *)
(*                                                                         *)
(* The parser is the component MSOPParser: its buffer is the part of the   *)
(* receive buffer that the latest call was given, and its vector of points *)
(* is the one of main().  The network is the choice of the next datagram.  *)
(***************************************************************************)
EXTENDS MSOPFormat, SampleFilter, FiniteSetsExt

CONSTANTS Datagrams,
          CountMax      \* the largest int, 2^31 - 1 in the code

ASSUME DatagramsAssumption == Datagrams \subseteq Datagram
ASSUME CountMaxAssumption  == CountMax \in Nat \ {0}

VARIABLES
  phase,            \* "start", "listen", or "failed"
  packet_count,
  received,         \* what recvfrom returned last
  report,           \* what was printed last
  points, last_timestamp_, last_factory_info_, data, ok    \* of the parser

parser == <<points, last_timestamp_, last_factory_info_, data, ok>>

vars == <<phase, packet_count, received, report, parser>>

\* What the parser may be given: full-size packets, the headers skipped.
Arguments == {[size |-> PacketSize, packet |-> d.packet] : d \in Datagrams}

Parser == INSTANCE MSOPParser WITH Datagrams <- Arguments, buffer <- data

-----------------------------------------------------------------------------
(* printPacketInfo and the range statistics.                               *)

\* Mutant: the limit that the report prints, "RSSI>20".
ReliableAsPrinted(p) == p.distance > 100 /\ p.distance < 13000 /\ p.rssi > 20

Reliable(p) == p.distance > 100 /\ p.distance < 13000 /\ p.rssi > 25

FirstFew(P) == {p \in P : Cardinality({q \in P : q.slot < p.slot}) < 5}

\* The minima start at 999.0f metres and degrees, and the maxima at 0.
StartDistance == 999000
StartAzimuth  == 99900

RangeOf(values, start) == [lo |-> Min({start} \cup values), hi |-> Max({0} \cup values)]

NoStats == {}

Ranges(P) == [distance |-> RangeOf({p.distance : p \in P}, StartDistance),
              azimuth  |-> RangeOf({p.azimuth : p \in P}, StartAzimuth)]

\* Mutant: the vector may be empty.
StatsOfAnything(count, P) == IF count <= 5 THEN {Ranges(P)} ELSE NoStats

\* One record, or none after the first packets and for a vector without points.
RangeStats(count, P) == IF count <= 5 /\ P # {} THEN {Ranges(P)} ELSE NoStats

Blank(kind) == [kind |-> kind, timestamp |-> Parser!Zero32, factory |-> 0, points |-> 0,
                reliable |-> 0, examples |-> {}, more |-> 0, stats |-> NoStats]

PacketInfo(P, timestamp, factory_info, stats) ==
  LET reliable == {p \in P : Reliable(p)}
      n        == Cardinality(reliable)
  IN  [kind |-> "packet", timestamp |-> timestamp, factory |-> factory_info,
       points |-> Cardinality(P), reliable |-> n, examples |-> FirstFew(reliable),
       more |-> IF n > 5 THEN n - 5 ELSE 0, stats |-> stats]

-----------------------------------------------------------------------------

Init ==
  /\ phase = "start"
  /\ packet_count = 0
  /\ received \in Datagrams       \* an uninitialised buffer
  /\ report = Blank("nothing")
  /\ Parser!Init

\* socket, setsockopt and bind; main returns -1 when one of them fails.
Initialize ==
  /\ phase = "start"
  /\ phase' \in {"listen", "failed"}
  /\ UNCHANGED <<packet_count, received, report, parser>>

\* A failed recvfrom is reported and tried again.
ReceiveError ==
  /\ phase = "listen"
  /\ UNCHANGED vars

\* Every datagram counts.  The count is a signed int and overflows by wrapping,
\* which is what the compiled increment does.
Receive(d) ==
  /\ phase = "listen"
  /\ received' = d
  /\ packet_count' = IF packet_count = CountMax THEN -CountMax - 1 ELSE packet_count + 1
  /\ UNCHANGED phase

\* The report of a call of the parser.
Printed(stats) ==
  IF ok' THEN PacketInfo(points', last_timestamp_', last_factory_info_', stats)
  ELSE Blank("not parsed")

Packet(d) ==
  /\ Receive(d)
  /\ d.size = PacketSize
  /\ Parser!parsePacket(d)
  /\ report' = Printed(RangeStats(packet_count', points'))

\* Mutant: the headers are not skipped.
CaptureWithHeaders(d) ==
  /\ Receive(d)
  /\ d.size = PacketSize + HeaderSize
  /\ Parser!parsePacket(d)
  /\ report' = Printed(NoStats)

\* Mutant: the timestamp is fetched before the packet is parsed.
CaptureEarlyTimestamp(d) ==
  /\ Receive(d)
  /\ d.size = PacketSize + HeaderSize
  /\ Parser!parsePacket([d EXCEPT !.size = @ - HeaderSize])
  /\ report' = [Printed(NoStats) EXCEPT !.timestamp = last_timestamp_]

\* A raw capture: the headers are skipped, and there are no range statistics.
Capture(d) ==
  /\ Receive(d)
  /\ d.size = PacketSize + HeaderSize
  /\ Parser!parsePacket([d EXCEPT !.size = @ - HeaderSize])
  /\ report' = Printed(NoStats)

\* Any other length: points and getters keep what an earlier packet left.
Unexpected(d) ==
  /\ Receive(d)
  /\ d.size \notin {PacketSize, PacketSize + HeaderSize}
  /\ report' = Blank("unexpected")
  /\ UNCHANGED parser

Failed == phase = "failed" /\ UNCHANGED vars

Next ==
  \/ Initialize
  \/ ReceiveError
  \/ \E d \in Datagrams : Packet(d) \/ Capture(d) \/ Unexpected(d)
  \/ Failed

Spec == Init /\ [][Next]_vars

-----------------------------------------------------------------------------

Stats == [distance : [lo : 0 .. StartDistance, hi : 0 .. StartDistance],
          azimuth  : [lo : 0 .. StartAzimuth, hi : 0 .. StartAzimuth]]

(***************************************************************************)
(* The examples printed are points on the circle and in range, and the     *)
(* branch "Failed to parse MSOP packet" is never taken: a datagram of      *)
(* either length reaches the parser at the length it checks for.           *)
(***************************************************************************)
TypeOK ==
  /\ phase \in {"start", "listen", "failed"}
  /\ packet_count \in -CountMax - 1 .. CountMax
  /\ received \in Datagrams
  /\ report.kind \in {"nothing", "packet", "unexpected"}
  /\ report.examples \subseteq Point
  /\ report.stats \subseteq Stats
  /\ Parser!TypeOK

(***************************************************************************)
(* A report is of one packet, the one received last: timestamp, factory    *)
(* word, number of points and examples belong together and to that         *)
(* datagram, with headers or without, after any sequence of packets,       *)
(* strays and errors.  Points and getters outlive a stray datagram.        *)
(***************************************************************************)
ReportOfOnePacket ==
  report.kind = "packet" =>
    /\ received.size \in {PacketSize, PacketSize + HeaderSize}
    /\ \A i \in 1 .. 4 : report.timestamp[i] = received.packet.timestamp[5 - i]
    /\ report.factory = be16ToHost(received.packet.factory_info)
    /\ report.points = Cardinality(ParsedPoints(received.packet))
    /\ report.examples \subseteq ParsedPoints(received.packet)

(***************************************************************************)
(* What this program calls reliable the visualizer keeps: a reliable point *)
(* passes the limits of its collection, and alone in its half degree it    *)
(* becomes a row of the scan.  The two programs have thresholds of their   *)
(* own (lines 85 and 86, and lines 233 and 323 of lidar_visualizer.cpp).   *)
(***************************************************************************)
ReliableIsKept ==
  \A p \in report.examples : Credible(p) /\ Kept({p}) = {p}

(***************************************************************************)
(* The parts of a report fit each other, which are computed in separate    *)
(* loops: the examples are the first reliable points in the order of the   *)
(* packet, they and the "more" of the last line are all of them, and the   *)
(* range statistics are of points, never the values that minima and        *)
(* maxima start with, and have the examples between them.                  *)
(***************************************************************************)
ReportAddsUp ==
  report.kind = "packet" =>
    /\ Cardinality(report.examples) + report.more = report.reliable
    /\ \A p \in {q \in ParsedPoints(received.packet) : Reliable(q)} \ report.examples :
         report.more > 0 /\ \A e \in report.examples : e.slot < p.slot
    /\ \A s \in report.stats :
         /\ {s.distance.lo, s.distance.hi} \subseteq Distance
         /\ {s.azimuth.lo, s.azimuth.hi} \subseteq Azimuth
         /\ \A e \in report.examples :
              /\ s.distance.lo <= e.distance /\ e.distance <= s.distance.hi
              /\ s.azimuth.lo <= e.azimuth /\ e.azimuth <= s.azimuth.hi

(***************************************************************************)
(* The program uses its parser as MSOPParser describes it, on full-size    *)
(* packets alone: what holds of the parser holds inside this program.      *)
(***************************************************************************)
UsesParser == Parser!Spec

=============================================================================
