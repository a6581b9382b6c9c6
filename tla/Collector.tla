----------------------------- MODULE Collector ------------------------------
(***************************************************************************)
(* The program lidar_visualizer: it receives MaxPackets datagrams, files   *)
(* their points in half-degree bins, keeps at most one point of each bin,  *)
(* writes lidar_scan.csv and the plotting script, prints statistics and    *)
(* exits.  Ctrl+C, which no handler catches, may end it at any moment.     *)
(*                                                                         *)
(* The network is the choice of the next datagram: loss, duplication and   *)
(* reordering change which datagram recvfrom returns next, and every       *)
(* choice is allowed.  The two files are opened and written one after the  *)
(* other, and each may fail by itself: it cannot be opened, or its stream  *)
(* goes bad in the middle.                                                 *)
(***************************************************************************)
EXTENDS MSOPFormat, SampleFilter

CONSTANTS Datagrams,    \* what may arrive on the port
          MaxPackets    \* max_packets, 150 in the code

ASSUME DatagramsAssumption == Datagrams \subseteq Datagram
ASSUME MaxPacketsAssumption == MaxPackets \in Nat

VARIABLES
  phase,            \* where main() stands
  packet_count,
  angle_map,        \* bin |-> its samples; the map's keys are its domain
  unique_points,    \* the vector, ordered by azimuth
  filtered_bins,
  csv,              \* lidar_scan.csv: how far it is written, its rows, and
                    \* whether its stream is still good
  script,           \* what this run wrote of visualize_lidar.py
  reported          \* the closing message

vars == <<phase, packet_count, angle_map, unique_points, filtered_bins,
          csv, script, reported>>

SlotsPerPacket == NBlocks * NMeas * 2

Sample == [at : Nat, azimuth : Azimuth, distance : Distance,
           rssi : UInt8, is_strongest : BOOLEAN]

Bins == 0 .. FullTurn \div 50 - 1

Phases == {"start", "collect", "save", "write", "script", "fill", "stats",
           "done", "failed", "killed"}

Ended == {"done", "failed", "killed"}

\* Mutant: quarter degrees.
QuarterDegree(azimuth) == azimuth \div 25

\* static_cast<int>(azimuth * 2.0f)
AngleBin(azimuth) == azimuth \div 50

-----------------------------------------------------------------------------
(* One datagram.                                                           *)

\* The bytes left for the parser: a capture of 1248 bytes loses its headers.
DataSize(d) == IF d.size = PacketSize + HeaderSize THEN d.size - HeaderSize ELSE d.size

\* The points of the n-th datagram that are filed, in their order of arrival.
NewSamples(d, n) ==
  IF DataSize(d) # PacketSize THEN {}
  ELSE {[at |-> n * SlotsPerPacket + p.slot, azimuth |-> p.azimuth,
         distance |-> p.distance, rssi |-> p.rssi, is_strongest |-> p.is_strongest] :
          p \in {q \in ParsedPoints(d.packet) : Credible(q)}}

Occupied(S) == {AngleBin(s.azimuth) : s \in S}

\* Mutant: the bin is the nearest half degree.
FileRounded(map, S) ==
  LET Nearest(s) == (s.azimuth + 25) \div 50
  IN  [b \in DOMAIN map \cup {Nearest(s) : s \in S} |->
         (IF b \in DOMAIN map THEN map[b] ELSE {}) \cup {s \in S : Nearest(s) = b}]

\* Mutant: a datagram replaces the samples of the bins it reaches.
FileReplaces(map, S) ==
  [b \in DOMAIN map \cup Occupied(S) |->
     IF b \in Occupied(S) THEN {s \in S : AngleBin(s.azimuth) = b} ELSE map[b]]

\* angle_map[angle_bin].samples.push_back(point): a new key starts empty.
File(map, S) ==
  [b \in DOMAIN map \cup Occupied(S) |->
     (IF b \in DOMAIN map THEN map[b] ELSE {}) \cup {s \in S : AngleBin(s.azimuth) = b}]

-----------------------------------------------------------------------------

NoMap == [b \in {} |-> {}]

Init ==
  /\ phase = "start"
  /\ packet_count = 0
  /\ angle_map = NoMap
  /\ unique_points = {}
  /\ filtered_bins = 0
  /\ csv \in [status : {"absent", "stale"}, rows : {{}}, good : {TRUE}]
  /\ script = "none"
  /\ reported = "nothing"

\* socket, setsockopt and bind; main returns -1 when one of them fails.
Initialize ==
  /\ phase = "start"
  /\ phase' \in {"collect", "failed"}
  /\ UNCHANGED <<packet_count, angle_map, unique_points, filtered_bins,
                 csv, script, reported>>

\* A failed recvfrom is reported and tried again.
ReceiveError ==
  /\ phase = "collect"
  /\ packet_count < MaxPackets
  /\ UNCHANGED vars

\* Every datagram counts towards the budget, whatever its length.
Receive(d) ==
  /\ phase = "collect"
  /\ packet_count < MaxPackets
  /\ packet_count' = packet_count + 1
  /\ angle_map' = File(angle_map, NewSamples(d, packet_count + 1))
  /\ UNCHANGED <<phase, unique_points, filtered_bins, csv, script, reported>>

\* Mutant: one point for each kind of return.
KeptPerReturn(map) ==
  UNION {Kept({s \in map[b] : s.is_strongest}) \cup Kept({s \in map[b] : ~s.is_strongest}) :
           b \in DOMAIN map}

KeptPoints(map) == UNION {Kept(map[b]) : b \in DOMAIN map}

\* Mutant: the file is opened before the map is looked at.
TruncateFirst ==
  /\ phase = "collect"
  /\ packet_count = MaxPackets
  /\ DOMAIN angle_map = {}
  /\ csv' = [status |-> "closed", rows |-> {}, good |-> TRUE]
  /\ phase' = "done"
  /\ reported' = "no valid points"
  /\ UNCHANGED <<packet_count, angle_map, unique_points, filtered_bins, script>>

\* The end of the loop, with nothing filed and with something to choose from.
NothingCollected ==
  /\ phase = "collect"
  /\ packet_count = MaxPackets
  /\ DOMAIN angle_map = {}
  /\ phase' = "done"
  /\ reported' = "no valid points"
  /\ UNCHANGED <<packet_count, angle_map, unique_points, filtered_bins, csv, script>>

\* Mutant: a single weak sample is dropped without being counted.
SelectUncounted ==
  /\ phase = "collect"
  /\ packet_count = MaxPackets
  /\ DOMAIN angle_map # {}
  /\ unique_points' = KeptPoints(angle_map)
  /\ filtered_bins' = Cardinality({b \in DOMAIN angle_map : /\ Kept(angle_map[b]) = {}
                                                           /\ Cardinality(angle_map[b]) > 1})
  /\ phase' = "save"
  /\ UNCHANGED <<packet_count, angle_map, csv, script, reported>>

SelectPoints ==
  /\ phase = "collect"
  /\ packet_count = MaxPackets
  /\ DOMAIN angle_map # {}
  /\ unique_points' = KeptPoints(angle_map)
  /\ filtered_bins' = Cardinality({b \in DOMAIN angle_map : Kept(angle_map[b]) = {}})
  /\ phase' = "save"
  /\ UNCHANGED <<packet_count, angle_map, csv, script, reported>>

-----------------------------------------------------------------------------
(* savePointsToCSV                                                         *)

Printable(p) == p.distance > 100 /\ p.distance < 15000

\* Opening truncates what an earlier run left.
OpenCSV ==
  /\ phase = "save"
  /\ csv' = [status |-> "open", rows |-> {}, good |-> TRUE]
  /\ phase' = "write"
  /\ UNCHANGED <<packet_count, angle_map, unique_points, filtered_bins, script, reported>>

\* The error is printed, the function returns, and main goes on.
OpenCSVFails ==
  /\ phase = "save"
  /\ phase' = "script"
  /\ UNCHANGED <<packet_count, angle_map, unique_points, filtered_bins,
                 csv, script, reported>>

Unwritten == {p \in unique_points : Printable(p)} \ csv.rows

\* Mutant: the vector is not sorted.
WriteAnyRow ==
  /\ phase = "write"
  /\ csv.good
  /\ \E p \in Unwritten : csv' = [csv EXCEPT !.rows = @ \cup {p}]
  /\ UNCHANGED <<phase, packet_count, angle_map, unique_points, filtered_bins,
                 script, reported>>

WriteRow ==
  /\ phase = "write"
  /\ csv.good
  /\ \E p \in Unwritten :
       /\ \A q \in Unwritten : p.azimuth <= q.azimuth
       /\ csv' = [csv EXCEPT !.rows = @ \cup {p}]
  /\ UNCHANGED <<phase, packet_count, angle_map, unique_points, filtered_bins,
                 script, reported>>

\* The disk is full, or gone: the stream goes bad, and nobody looks at it.
CSVGoesBad ==
  /\ phase = "write"
  /\ csv.good
  /\ csv' = [csv EXCEPT !.good = FALSE]
  /\ UNCHANGED <<phase, packet_count, angle_map, unique_points, filtered_bins,
                 script, reported>>

\* Mutant: the file is not closed before every row is in it.
CloseWholeCSV ==
  /\ phase = "write"
  /\ Unwritten = {}
  /\ csv' = [csv EXCEPT !.status = "closed"]
  /\ phase' = "script"
  /\ UNCHANGED <<packet_count, angle_map, unique_points, filtered_bins, script, reported>>

\* What is written to a bad stream is lost, and so the loop gets to its end.
CloseCSV ==
  /\ phase = "write"
  /\ Unwritten = {} \/ ~csv.good
  /\ csv' = [csv EXCEPT !.status = "closed"]
  /\ phase' = "script"
  /\ UNCHANGED <<packet_count, angle_map, unique_points, filtered_bins, script, reported>>

-----------------------------------------------------------------------------

(* generatePythonVisualizer, whatever became of the other file.            *)

OpenScript ==
  /\ phase = "script"
  /\ script' = "part"
  /\ phase' = "fill"
  /\ UNCHANGED <<packet_count, angle_map, unique_points, filtered_bins, csv, reported>>

\* Nobody asks whether the file is open; the text goes nowhere.
OpenScriptFails ==
  /\ phase = "script"
  /\ phase' = "stats"
  /\ UNCHANGED <<packet_count, angle_map, unique_points, filtered_bins,
                 csv, script, reported>>

\* The stream may go bad before all of the text is out.
WriteScript ==
  /\ phase = "fill"
  /\ script' \in {"part", "whole"}
  /\ phase' = "stats"
  /\ UNCHANGED <<packet_count, angle_map, unique_points, filtered_bins, csv, reported>>

PrintStatistics ==
  /\ phase = "stats"
  /\ unique_points # {}
  /\ phase' = "done"
  /\ reported' = "complete"
  /\ UNCHANGED <<packet_count, angle_map, unique_points, filtered_bins, csv, script>>

\* front() and back() of an empty vector are undefined: the program prints
\* whatever it reads there, or does not survive reading it.
StatisticsOfNothing ==
  /\ phase = "stats"
  /\ unique_points = {}
  /\ \/ phase' = "done"   /\ reported' = "garbage"
     \/ phase' = "killed" /\ UNCHANGED reported
  /\ UNCHANGED <<packet_count, angle_map, unique_points, filtered_bins, csv, script>>

\* Ctrl+C.  What is on the disk stays there.
Interrupt ==
  /\ phase \notin Ended
  /\ phase' = "killed"
  /\ UNCHANGED <<packet_count, angle_map, unique_points, filtered_bins,
                 csv, script, reported>>

Over == phase \in Ended /\ UNCHANGED vars

Step ==
  \/ Initialize
  \/ NothingCollected
  \/ SelectPoints
  \/ OpenCSV
  \/ OpenCSVFails
  \/ WriteRow
  \/ CloseCSV
  \/ OpenScript
  \/ OpenScriptFails
  \/ WriteScript
  \/ PrintStatistics
  \/ StatisticsOfNothing

Next ==
  \/ Step
  \/ \E d \in Datagrams : Receive(d)
  \/ ReceiveError
  \/ CSVGoesBad
  \/ Interrupt
  \/ Over

Spec == Init /\ [][Next]_vars

\* The program runs whenever it can, and the lidar keeps sending.
Fairness == WF_vars(Step) /\ WF_vars(\E d \in Datagrams : Receive(d))

FairSpec == Spec /\ Fairness

-----------------------------------------------------------------------------

(***************************************************************************)
(* The variables of main() stay in their types: the keys are the 720 half  *)
(* degrees of one turn whatever the packets say, and the budget of packets *)
(* is never exceeded.                                                      *)
(***************************************************************************)
TypeOK ==
  /\ phase \in Phases
  /\ packet_count \in 0 .. MaxPackets
  /\ DOMAIN angle_map \subseteq Bins
  /\ \A b \in DOMAIN angle_map : angle_map[b] \subseteq Sample
  /\ unique_points \subseteq Sample
  /\ filtered_bins \in Nat
  /\ csv \in [status : {"absent", "stale", "open", "closed"}, rows : SUBSET Sample,
              good : BOOLEAN]
  /\ script \in {"none", "part", "whole"}
  /\ reported \in {"nothing", "no valid points", "complete", "garbage"}

(***************************************************************************)
(* Each sample is in the bin of its own azimuth and in no other, however   *)
(* many datagrams reached the bin; no bin is empty; all samples have       *)
(* passed the distance and signal limits.                                  *)
(***************************************************************************)
Filed ==
  \A b \in DOMAIN angle_map :
    /\ angle_map[b] # {}
    /\ \A s \in angle_map[b] : AngleBin(s.azimuth) = b /\ Credible(s)

(***************************************************************************)
(* One point for each half degree: two rows of the scan never share a bin, *)
(* so their angles differ and the sort of line 347 has one result.         *)
(***************************************************************************)
OneRowPerBin ==
  \A p, q \in unique_points : AngleBin(p.azimuth) = AngleBin(q.azimuth) => p = q

(***************************************************************************)
(* "Saved N points", N the size of the vector, is the number of rows: the  *)
(* limits of the collection imply those of savePointsToCSV, so no chosen   *)
(* point is skipped while the stream is good.  The script of this run may  *)
(* stand beside a file that is not this run's, or not all of it, but only  *)
(* because that one could not be opened or its stream went bad: Ctrl+C     *)
(* between two rows leaves no new script beside them.                      *)
(***************************************************************************)
SavedIsWritten ==
  /\ (csv.status = "closed" /\ csv.good) => csv.rows = unique_points
  /\ script # "none" => csv.status # "open"

(***************************************************************************)
(* However the run ends - Ctrl+C between two rows, a full disk - the rows  *)
(* on the disk are the scan up to some angle: no gaps.                     *)
(***************************************************************************)
RowsArePrefix ==
  /\ csv.rows \subseteq unique_points
  /\ \A p \in csv.rows, q \in unique_points \ csv.rows : p.azimuth < q.azimuth

(***************************************************************************)
(* Each bin is kept or counted as filtered out: the two numbers of the     *)
(* report add up to the angles announced when the collection ends.         *)
(***************************************************************************)
BinsAccounted ==
  (phase \in {"save", "write", "script", "fill", "stats"} \/ reported = "complete") =>
    Cardinality(unique_points) + filtered_bins = Cardinality(DOMAIN angle_map)

(***************************************************************************)
(* Without any filed sample the file of an earlier run is never touched.   *)
(* (A run that files samples and then filters out every bin does give it   *)
(* up, for a file without rows.)                                           *)
(***************************************************************************)
OldScanKept == DOMAIN angle_map = {} => csv.status \in {"absent", "stale"}

(***************************************************************************)
(* The visualizer is a ScanCollection: what it has heard are the samples   *)
(* of all bins, and the scan is frozen once it is chosen.                  *)
(***************************************************************************)
Abs_stage ==
  IF phase \in {"start", "collect"} THEN "listen"
  ELSE IF phase \in {"save", "write"} THEN "store" ELSE "over"

Heard == UNION {angle_map[b] : b \in DOMAIN angle_map}

Promise == INSTANCE ScanCollection WITH
  Measurement <- Sample, heard <- Heard, scan <- unique_points,
  file <- csv.rows, stage <- Abs_stage

KeepsPromise == Promise!Spec

(***************************************************************************)
(* While datagrams arrive the program comes to an end, whatever their      *)
(* lengths, what they contain and what the disk does.                      *)
(***************************************************************************)
Terminates == <>(phase \in Ended)

-----------------------------------------------------------------------------
(* What the program says and does not do.                                  *)

(***************************************************************************)
(* "No valid points collected!", line 373, is the message for a run that   *)
(* ends without a point; statistics are for a scan that has one.           *)
(***************************************************************************)
EmptyScanReported ==
  (phase = "done" /\ unique_points = {}) => reported = "no valid points"

(***************************************************************************)
(* "Files created:", lines 368 to 370: after that message this run has     *)
(* created the two files that it names, however much is in them.           *)
(***************************************************************************)
FilesCreated == reported = "complete" => (csv.status = "closed" /\ script # "none")

=============================================================================
