--------------------------- MODULE Collector_proofs ---------------------------
(***************************************************************************)
(* The visualizer's safety, for every set of datagrams and every budget of *)
(* packets, and its refinement of ScanCollection.                          *)
(*                                                                         *)
(* The safety properties are not inductive by themselves: a row is in      *)
(* order because the rows were chosen from bins that hold only samples of  *)
(* their own half degree, and nothing is skipped because what was filed    *)
(* can be printed.  The invariant adds what relates the phase to the       *)
(* vector, the file and the script.                                        *)
(***************************************************************************)
EXTENDS Collector, Operators_proofs

\* Each bin has finitely many samples.
BinsFinite == \A b \in DOMAIN angle_map : IsFiniteSet(angle_map[b])

\* The scan is what the filter keeps of the bins, once it is chosen.
Chosen ==
  /\ phase \in {"start", "collect"} => unique_points = {}
  /\ unique_points = {} \/ unique_points = KeptPoints(angle_map)
  /\ phase \in {"save", "write", "script", "fill", "stats"} => DOMAIN angle_map # {}

\* Where the program stands tells how far the file and the script are.
Progress ==
  /\ phase \in {"start", "collect", "save"} =>
       csv.status \in {"absent", "stale"} /\ csv.rows = {} /\ script = "none"
  /\ phase = "write" => csv.status = "open"
  /\ phase \in {"write", "script"} => script = "none"
  /\ csv.status = "open" => phase \in {"write", "killed"}
  /\ csv.status = "closed" => phase \in {"script", "fill", "stats"} \cup Ended

IInv ==
  /\ TypeOK
  /\ BinsFinite
  /\ Filed
  /\ Chosen
  /\ Progress
  /\ RowsArePrefix
  /\ SavedIsWritten
  /\ OldScanKept

-----------------------------------------------------------------------------
(* One datagram.                                                           *)

\* An angle of the turn falls into one of the 720 bins.
LEMMA BinOfAzimuth ==
  ASSUME NEW a \in Azimuth
  PROVE  AngleBin(a) \in Bins
<1>1. FullTurn \div 50 - 1 = 719
  BY Turn
<1>2. a \in Int /\ 0 <= a /\ a < 36000
  BY Turn DEF Azimuth
<1>3. PICK q \in Int : q = a \div 50
  BY <1>2
<1>4. 0 <= q /\ q <= 719
  BY <1>2, <1>3
<1>5. PICK top \in Int : top = FullTurn \div 50 - 1
  BY Turn
<1>6. q \in 0 .. top
  BY <1>1, <1>4, <1>5
<1> QED BY <1>3, <1>5, <1>6 DEF AngleBin, Bins

\* A datagram gives finitely many samples, within the limits.
LEMMA NewSamplesType ==
  ASSUME NEW d \in Datagrams, NEW n \in Nat
  PROVE  /\ NewSamples(d, n) \subseteq Sample
         /\ \A s \in NewSamples(d, n) : Credible(s)
         /\ IsFiniteSet(NewSamples(d, n))
<1>1. CASE DataSize(d) # PacketSize
  BY <1>1, FS_EmptySet DEF NewSamples
<1>2. CASE DataSize(d) = PacketSize
  <2> DEFINE pts == {q \in ParsedPoints(d.packet) : Credible(q)}
             f == [p \in pts |->
                     [at |-> n * SlotsPerPacket + p.slot, azimuth |-> p.azimuth,
                      distance |-> p.distance, rssi |-> p.rssi,
                      is_strongest |-> p.is_strongest]]
  <2>1. NewSamples(d, n) = {f[p] : p \in pts}
    BY <1>2 DEF NewSamples
  <2>2. d.packet \in MSOPPacket
    BY DatagramsAssumption DEF Datagram
  <2>3. ParsedPoints(d.packet) \subseteq Point /\ IsFiniteSet(ParsedPoints(d.packet))
    BY <2>2, ParsedArePoints, ParsedFinite
  <2>4. IsFiniteSet(pts)
    BY <2>3, FS_Subset
  <2>5. IsFiniteSet({f[p] : p \in pts})
    BY <2>4, ImageFinite
  <2>6. ASSUME NEW p \in pts
        PROVE  f[p] \in Sample /\ Credible(f[p])
    <3>1. p \in Point /\ Credible(p)
      BY <2>3
    <3>2. n * SlotsPerPacket + p.slot \in Nat
      <4>1. p.slot \in Nat
        BY <3>1 DEF Point, Slots
      <4>2. SlotsPerPacket = 384
        BY DEF SlotsPerPacket, NBlocks, NMeas
      <4> QED BY <4>1, <4>2
    <3> QED BY <3>1, <3>2 DEF Point, Sample, Credible
  <2> QED BY <2>1, <2>5, <2>6
<1> QED BY <1>1, <1>2

(***************************************************************************)
(* Filing keeps the map in order: keys are bins of a turn, bins are        *)
(* finite and hold samples of their own half degree, and no sample is      *)
(* lost.                                                                   *)
(***************************************************************************)
LEMMA FileKeepsOrder ==
  ASSUME NEW map, NEW S, S \subseteq Sample, IsFiniteSet(S), \A s \in S : Credible(s),
         DOMAIN map \subseteq Bins,
         \A b \in DOMAIN map : /\ map[b] \subseteq Sample
                               /\ IsFiniteSet(map[b])
                               /\ map[b] # {}
                               /\ \A s \in map[b] : AngleBin(s.azimuth) = b /\ Credible(s),
         NEW new, new = File(map, S)
  PROVE  /\ DOMAIN new \subseteq Bins
         /\ \A b \in DOMAIN new : /\ new[b] \subseteq Sample
                                  /\ IsFiniteSet(new[b])
                                  /\ new[b] # {}
                                  /\ \A s \in new[b] : AngleBin(s.azimuth) = b /\ Credible(s)
         /\ DOMAIN map \subseteq DOMAIN new
         /\ \A b \in DOMAIN map : map[b] \subseteq new[b]
<1> DEFINE old(b) == IF b \in DOMAIN map THEN map[b] ELSE {}
           came(b) == {s \in S : AngleBin(s.azimuth) = b}
<1>1. DOMAIN new = DOMAIN map \cup Occupied(S)
  BY DEF File
<1>2. \A b \in DOMAIN new : new[b] = old(b) \cup came(b)
  BY <1>1 DEF File
<1>3. Occupied(S) \subseteq Bins
  <2> SUFFICES ASSUME NEW s \in S PROVE AngleBin(s.azimuth) \in Bins
    BY DEF Occupied
  <2> QED BY BinOfAzimuth DEF Sample
<1>4. \A b : IsFiniteSet(came(b))
  BY FS_Subset
<1>5. ASSUME NEW b \in DOMAIN new
      PROVE  IsFiniteSet(old(b))
  BY FS_EmptySet
<1>6. ASSUME NEW b \in DOMAIN new
      PROVE  IsFiniteSet(new[b])
  <2>1. PICK A : A = old(b) /\ IsFiniteSet(A)
    BY <1>5, <1>6
  <2>2. PICK B : B = came(b) /\ IsFiniteSet(B)
    BY <1>4
  <2>3. new[b] = A \cup B
    BY <1>2, <1>6, <2>1, <2>2
  <2>4. IsFiniteSet(A \cup B)
    BY <2>1, <2>2, FS_Union
  <2> QED BY <2>3, <2>4
<1>7. ASSUME NEW b \in DOMAIN new
      PROVE  new[b] # {}
  <2>1. CASE b \in DOMAIN map
    BY <1>2, <2>1
  <2>2. CASE b \in Occupied(S)
    BY <1>2, <2>2 DEF Occupied
  <2> QED BY <1>1, <2>1, <2>2
<1>8. ASSUME NEW b \in DOMAIN new, NEW s \in new[b]
      PROVE  s \in Sample /\ AngleBin(s.azimuth) = b /\ Credible(s)
  BY <1>2, <1>8
<1>9. \A b \in DOMAIN map : map[b] \subseteq new[b]
  BY <1>1, <1>2
<1> QED BY <1>1, <1>3, <1>6, <1>7, <1>8, <1>9

-----------------------------------------------------------------------------
(* What the filter keeps of the bins.                                      *)

\* Bytes are integers, their range left unexpanded.
LEMMA ByteInt == \A x \in UInt8 : x \in Int
<1>1. 2^8 - 1 \in Int
  OBVIOUS
<1> QED BY <1>1 DEF UInt8

\* Distances are integers, their range left unexpanded.
LEMMA DistanceInt == \A x \in Distance : x \in Int
<1>1. MinDistance \in Int /\ MaxDistance \in Int
  BY DEF MinDistance, MaxDistance
<1> QED BY <1>1 DEF Distance

\* What is kept was filed, so it is credible and can be printed.
LEMMA KeptPointsFiled ==
  ASSUME IInv, NEW p \in KeptPoints(angle_map)
  PROVE  /\ p \in Sample
         /\ Credible(p)
         /\ Printable(p)
         /\ AngleBin(p.azimuth) \in DOMAIN angle_map
         /\ p \in Kept(angle_map[AngleBin(p.azimuth)])
<1>1. PICK b \in DOMAIN angle_map : p \in Kept(angle_map[b])
  BY DEF KeptPoints
<1>2. p \in angle_map[b]
  BY <1>1, KeptAreSamples
<1>3. p \in Sample /\ Credible(p) /\ AngleBin(p.azimuth) = b
  BY <1>2 DEF IInv, TypeOK, Filed
<1>4. Printable(p)
  <2>1. p.distance \in Int
    BY <1>3, DistanceInt DEF Sample
  <2> QED BY <1>3, <2>1 DEF Credible, Printable
<1> QED BY <1>1, <1>3, <1>4

\* Two kept points of one bin are the same point.
LEMMA OneKeptPerBin ==
  ASSUME IInv, NEW p \in KeptPoints(angle_map), NEW q \in KeptPoints(angle_map),
         AngleBin(p.azimuth) = AngleBin(q.azimuth)
  PROVE  p = q
<1> DEFINE b == AngleBin(p.azimuth)
<1>1. b \in DOMAIN angle_map /\ p \in Kept(angle_map[b]) /\ q \in Kept(angle_map[b])
  BY KeptPointsFiled
<1>2. IsFiniteSet(angle_map[b])
  BY <1>1 DEF IInv, BinsFinite
<1>3. \A s \in angle_map[b] : s.at \in Int /\ s.rssi \in Int
  <2>1. angle_map[b] \subseteq Sample
    BY <1>1 DEF IInv, TypeOK
  <2> QED BY <2>1, ByteInt DEF Sample
<1> QED BY <1>1, <1>2, <1>3, AtMostOneKept

\* The invariant gives one row for each bin.
LEMMA OneRow == IInv => OneRowPerBin
BY OneKeptPerBin DEF IInv, Chosen, OneRowPerBin

\* Nothing chosen is skipped when the rows are written.
LEMMA NothingSkipped == IInv => {p \in unique_points : Printable(p)} = unique_points
BY KeptPointsFiled DEF IInv, Chosen

\* Two chosen points differ in their angles.
LEMMA AnglesDiffer ==
  ASSUME IInv, NEW p \in unique_points, NEW q \in unique_points, p # q
  PROVE  p.azimuth \in Int /\ q.azimuth \in Int /\ p.azimuth # q.azimuth
<1>1. p \in Sample /\ q \in Sample
  BY DEF IInv, TypeOK
<1>2. p.azimuth \in Int /\ q.azimuth \in Int
  <2>1. p.azimuth \in Azimuth /\ q.azimuth \in Azimuth
    BY <1>1 DEF Sample
  <2> QED BY <2>1, TurnInt DEF Azimuth
<1> QED BY <1>2, OneRow DEF OneRowPerBin

-----------------------------------------------------------------------------
(* The invariant holds initially and is kept by every action.              *)

\* The invariant holds when main() starts.
LEMMA InitIInv == Init => IInv
<1> SUFFICES ASSUME Init PROVE IInv
  OBVIOUS
<1>1. DOMAIN angle_map = {} /\ unique_points = {} /\ csv.rows = {}
  BY DEF Init, NoMap
<1>2. TypeOK
  <2>1. packet_count \in 0 .. MaxPackets /\ filtered_bins \in Nat
    BY MaxPacketsAssumption DEF Init
  <2>2. csv \in [status : {"absent", "stale", "open", "closed"}, rows : SUBSET Sample,
                 good : BOOLEAN]
    BY DEF Init
  <2> QED BY <1>1, <2>1, <2>2 DEF Init, TypeOK, Phases
<1>3. BinsFinite /\ Filed
  BY <1>1 DEF BinsFinite, Filed
<1>4. Chosen /\ Progress
  BY <1>1 DEF Init, Chosen, Progress, Ended
<1>5. RowsArePrefix /\ SavedIsWritten /\ OldScanKept
  BY <1>1 DEF Init, RowsArePrefix, SavedIsWritten, OldScanKept
<1> QED BY <1>2, <1>3, <1>4, <1>5 DEF IInv

\* What is filed stays in order while the map does.
LEMMA MapUnchanged ==
  IInv /\ UNCHANGED angle_map => BinsFinite' /\ Filed'
BY DEF IInv, BinsFinite, Filed, AngleBin, Credible

\* A datagram keeps the invariant.
LEMMA ReceiveKeeps ==
  ASSUME IInv, NEW d \in Datagrams, Receive(d)
  PROVE  IInv'
<1> DEFINE S == NewSamples(d, packet_count + 1)
<1>1. packet_count \in 0 .. MaxPackets /\ packet_count' \in 0 .. MaxPackets
  <2>1. packet_count \in 0 .. MaxPackets
    BY DEF IInv, TypeOK
  <2> QED BY <2>1, MaxPacketsAssumption DEF Receive
<1>2. S \subseteq Sample /\ IsFiniteSet(S) /\ \A s \in S : Credible(s)
  <2>1. packet_count + 1 \in Nat
    BY <1>1, MaxPacketsAssumption
  <2> QED BY <2>1, NewSamplesType
<1>3. angle_map' = File(angle_map, S)
  BY DEF Receive
<1>4. /\ DOMAIN angle_map \subseteq Bins
      /\ \A b \in DOMAIN angle_map :
           /\ angle_map[b] \subseteq Sample
           /\ IsFiniteSet(angle_map[b])
           /\ angle_map[b] # {}
           /\ \A s \in angle_map[b] : AngleBin(s.azimuth) = b /\ Credible(s)
  BY DEF IInv, TypeOK, BinsFinite, Filed
<1> HIDE DEF S
<1>5. /\ DOMAIN angle_map' \subseteq Bins
      /\ \A b \in DOMAIN angle_map' :
           /\ angle_map'[b] \subseteq Sample
           /\ IsFiniteSet(angle_map'[b])
           /\ angle_map'[b] # {}
           /\ \A s \in angle_map'[b] : AngleBin(s.azimuth) = b /\ Credible(s)
      /\ DOMAIN angle_map \subseteq DOMAIN angle_map'
  BY <1>2, <1>3, <1>4, FileKeepsOrder
<1>6. TypeOK'
  BY <1>1, <1>5 DEF IInv, TypeOK, Receive
<1>7. BinsFinite' /\ Filed'
  BY <1>5 DEF BinsFinite, Filed
<1>8. Chosen' /\ Progress'
  BY DEF IInv, Receive, Chosen, Progress
<1>9. RowsArePrefix' /\ SavedIsWritten'
  BY DEF IInv, Receive, RowsArePrefix, SavedIsWritten
<1>10. OldScanKept'
  BY <1>5 DEF IInv, Receive, OldScanKept
<1> QED BY <1>6, <1>7, <1>8, <1>9, <1>10 DEF IInv

\* Choosing the scan keeps the invariant.
LEMMA SelectKeeps ==
  ASSUME IInv, SelectPoints
  PROVE  IInv'
<1>1. TypeOK'
  <2>1. KeptPoints(angle_map) \subseteq Sample
    BY KeptPointsFiled
  <2>2. IsFiniteSet(DOMAIN angle_map)
    <3>1. FullTurn \div 50 - 1 \in Int
      BY TurnInt
    <3>2. IsFiniteSet(Bins)
      BY <3>1, FS_Interval DEF Bins
    <3> QED BY <3>2, FS_Subset DEF IInv, TypeOK
  <2>3. filtered_bins' \in Nat
    BY <2>2, FS_Subset, FS_CardinalityType DEF SelectPoints
  <2> QED BY <2>1, <2>3 DEF IInv, TypeOK, SelectPoints, Phases
<1>2. BinsFinite' /\ Filed'
  BY MapUnchanged DEF SelectPoints
<1>3. Chosen'
  BY DEF IInv, SelectPoints, Chosen, KeptPoints
<1>4. Progress' /\ RowsArePrefix' /\ SavedIsWritten' /\ OldScanKept'
  BY DEF IInv, SelectPoints, Progress, Ended, RowsArePrefix, SavedIsWritten, OldScanKept
<1> QED BY <1>1, <1>2, <1>3, <1>4 DEF IInv

\* Writing the next row keeps the invariant.
LEMMA WriteRowKeeps ==
  ASSUME IInv, WriteRow
  PROVE  IInv'
<1>1. PICK p \in Unwritten : /\ \A q \in Unwritten : p.azimuth <= q.azimuth
                             /\ csv' = [csv EXCEPT !.rows = @ \cup {p}]
  BY DEF WriteRow
<1>2. Unwritten = unique_points \ csv.rows
  BY NothingSkipped DEF Unwritten
<1>3. /\ csv'.rows = csv.rows \cup {p} /\ csv'.status = csv.status /\ csv'.good = csv.good
      /\ csv.status = "open"
  BY <1>1 DEF IInv, TypeOK, Progress, WriteRow
<1>4. TypeOK'
  BY <1>1, <1>2 DEF IInv, TypeOK, WriteRow
<1>5. BinsFinite' /\ Filed' /\ OldScanKept'
  BY <1>3, MapUnchanged DEF WriteRow, IInv, Chosen, OldScanKept
<1>6. Chosen' /\ Progress' /\ SavedIsWritten'
  BY <1>3 DEF IInv, WriteRow, Chosen, KeptPoints, Progress, SavedIsWritten
<1>7. RowsArePrefix'
  <2>1. csv'.rows \subseteq unique_points'
    BY <1>2, <1>3 DEF IInv, RowsArePrefix, WriteRow
  <2>2. ASSUME NEW r \in csv'.rows, NEW q \in unique_points' \ csv'.rows
        PROVE  r.azimuth < q.azimuth
    <3>1. q \in Unwritten /\ q \in unique_points /\ q \notin csv.rows /\ q # p
      BY <1>2, <1>3, <2>2 DEF WriteRow
    <3>2. CASE r \in csv.rows
      BY <3>1, <3>2 DEF IInv, RowsArePrefix
    <3>3. CASE r = p
      BY <1>1, <1>2, <3>1, <3>3, AnglesDiffer
    <3> QED BY <1>3, <3>2, <3>3
  <2> QED BY <2>1, <2>2 DEF RowsArePrefix
<1> QED BY <1>4, <1>5, <1>6, <1>7 DEF IInv

\* Closing the file, whole or not, keeps the invariant.
LEMMA CloseKeeps ==
  ASSUME IInv, CloseCSV
  PROVE  IInv'
<1>1. csv'.rows = csv.rows /\ csv'.status = "closed" /\ csv'.good = csv.good
  BY DEF IInv, TypeOK, CloseCSV
<1>2. TypeOK'
  BY DEF IInv, TypeOK, CloseCSV, Phases
<1>3. BinsFinite' /\ Filed' /\ OldScanKept'
  BY MapUnchanged DEF CloseCSV, IInv, Chosen, OldScanKept
<1>4. Chosen' /\ Progress'
  BY <1>1 DEF IInv, CloseCSV, Chosen, KeptPoints, Progress
<1>5. RowsArePrefix'
  BY <1>1 DEF IInv, CloseCSV, RowsArePrefix
<1>6. SavedIsWritten'
  <2>1. Unwritten = unique_points \ csv.rows
    BY NothingSkipped DEF Unwritten
  <2> QED BY <1>1, <2>1 DEF IInv, CloseCSV, SavedIsWritten, RowsArePrefix, Progress
<1> QED BY <1>2, <1>3, <1>4, <1>5, <1>6 DEF IInv

\* The other actions move the phase, the messages and the script.
LEMMA NextIInv == IInv /\ [Next]_vars => IInv'
<1> SUFFICES ASSUME IInv, [Next]_vars PROVE IInv'
  OBVIOUS
<1> USE DEF IInv, TypeOK, Chosen, Progress, RowsArePrefix, SavedIsWritten,
            OldScanKept, Phases, Ended
<1>1. CASE Initialize
  BY <1>1, MapUnchanged DEF Initialize
<1>2. CASE NothingCollected
  BY <1>2, MapUnchanged DEF NothingCollected
<1>3. CASE SelectPoints
  BY <1>3, SelectKeeps
<1>4. CASE OpenCSV
  BY <1>4, MapUnchanged DEF OpenCSV
<1>5. CASE OpenCSVFails
  BY <1>5, MapUnchanged DEF OpenCSVFails
<1>6. CASE WriteRow
  BY <1>6, WriteRowKeeps
<1>7. CASE CloseCSV
  BY <1>7, CloseKeeps
<1>8. CASE OpenScript \/ OpenScriptFails \/ WriteScript
  <2> USE DEF OpenScript, OpenScriptFails, WriteScript
  <2>1. TypeOK'
    BY <1>8
  <2>2. BinsFinite' /\ Filed'
    BY <1>8, MapUnchanged
  <2>3. Chosen'
    BY <1>8
  <2>4. Progress'
    BY <1>8
  <2>5. RowsArePrefix' /\ SavedIsWritten' /\ OldScanKept'
    BY <1>8
  <2> QED BY <2>1, <2>2, <2>3, <2>4, <2>5
<1>9. CASE PrintStatistics
  <2>1. TypeOK'
    BY <1>9 DEF PrintStatistics
  <2>2. BinsFinite' /\ Filed'
    BY <1>9, MapUnchanged DEF PrintStatistics
  <2>3. Chosen'
    BY <1>9 DEF PrintStatistics
  <2>4. Progress'
    BY <1>9 DEF PrintStatistics
  <2>5. RowsArePrefix' /\ SavedIsWritten' /\ OldScanKept'
    BY <1>9 DEF PrintStatistics
  <2> QED BY <2>1, <2>2, <2>3, <2>4, <2>5
<1>10. CASE StatisticsOfNothing
  <2>1. TypeOK'
    BY <1>10 DEF StatisticsOfNothing
  <2>2. BinsFinite' /\ Filed'
    BY <1>10, MapUnchanged DEF StatisticsOfNothing
  <2>3. Chosen'
    BY <1>10 DEF StatisticsOfNothing
  <2>4. Progress'
    BY <1>10 DEF StatisticsOfNothing
  <2>5. RowsArePrefix' /\ SavedIsWritten' /\ OldScanKept'
    BY <1>10 DEF StatisticsOfNothing
  <2> QED BY <2>1, <2>2, <2>3, <2>4, <2>5
<1>11. ASSUME NEW d \in Datagrams, Receive(d) PROVE IInv'
  BY <1>11, ReceiveKeeps
<1>12. CASE Interrupt
  BY <1>12, MapUnchanged DEF Interrupt
<1>13. CASE ReceiveError \/ Over \/ UNCHANGED vars
  <2>1. UNCHANGED vars
    BY <1>13 DEF ReceiveError, Over
  <2>2. TypeOK' /\ BinsFinite' /\ Filed'
    BY <2>1, MapUnchanged DEF vars
  <2>3. Chosen' /\ Progress'
    BY <2>1 DEF vars
  <2>4. RowsArePrefix' /\ SavedIsWritten' /\ OldScanKept'
    BY <2>1 DEF vars
  <2> QED BY <2>2, <2>3, <2>4
<1>14. CASE CSVGoesBad
  <2>1. csv'.rows = csv.rows /\ csv'.status = csv.status /\ ~csv'.good
    BY <1>14 DEF CSVGoesBad
  <2>2. TypeOK'
    BY <1>14 DEF CSVGoesBad
  <2>3. BinsFinite' /\ Filed'
    BY <1>14, MapUnchanged DEF CSVGoesBad
  <2>4. Chosen' /\ Progress'
    BY <1>14, <2>1 DEF CSVGoesBad
  <2>5. RowsArePrefix' /\ SavedIsWritten' /\ OldScanKept'
    BY <1>14, <2>1 DEF CSVGoesBad
  <2> QED BY <2>2, <2>3, <2>4, <2>5
<1> QED BY <1>1, <1>2, <1>3, <1>4, <1>5, <1>6, <1>7, <1>8, <1>9, <1>10, <1>11,
           <1>12, <1>13, <1>14 DEF Next, Step

-----------------------------------------------------------------------------
(* The safety properties.                                                  *)

(***************************************************************************)
(* The invariant holds in every behaviour.                                 *)
(***************************************************************************)
THEOREM Invariance == Spec => []IInv
BY InitIInv, NextIInv, PTL DEF Spec

(***************************************************************************)
(* Type correctness, for all datagrams and budgets: the keys of the map    *)
(* are half degrees of one turn and the budget is never exceeded.          *)
(***************************************************************************)
THEOREM TypeCorrect == Spec => []TypeOK
<1>1. IInv => TypeOK
  BY DEF IInv
<1> QED BY <1>1, Invariance, PTL

(***************************************************************************)
(* Every sample is in the bin of its azimuth, and no bin is empty.         *)
(***************************************************************************)
THEOREM FilingCorrect == Spec => []Filed
<1>1. IInv => Filed
  BY DEF IInv
<1> QED BY <1>1, Invariance, PTL

(***************************************************************************)
(* The scan never has two points of one half degree.                       *)
(***************************************************************************)
THEOREM ScanCorrect == Spec => []OneRowPerBin
BY OneRow, Invariance, PTL

(***************************************************************************)
(* The number announced by "Saved N points" is the number of rows unless   *)
(* the stream went bad, and no script of this run appears beside a file    *)
(* that Ctrl+C cut off.                                                    *)
(***************************************************************************)
THEOREM SavingCorrect == Spec => []SavedIsWritten
<1>1. IInv => SavedIsWritten
  BY DEF IInv
<1> QED BY <1>1, Invariance, PTL

(***************************************************************************)
(* Wherever the program stops, the rows on the disk are the scan up to     *)
(* some angle.                                                             *)
(***************************************************************************)
THEOREM PrefixCorrect == Spec => []RowsArePrefix
<1>1. IInv => RowsArePrefix
  BY DEF IInv
<1> QED BY <1>1, Invariance, PTL

(***************************************************************************)
(* Without any filed sample an earlier file is never touched.              *)
(***************************************************************************)
THEOREM OldScanCorrect == Spec => []OldScanKept
<1>1. IInv => OldScanKept
  BY DEF IInv
<1> QED BY <1>1, Invariance, PTL

-----------------------------------------------------------------------------
(* The counters of the report.                                             *)

\* Bins that contribute a point, and bins that are filtered out.
KeptBins(map) == {b \in DOMAIN map : Kept(map[b]) # {}}
LostBins(map) == {b \in DOMAIN map : Kept(map[b]) = {}}

\* Since when the scan is chosen, its counters are those of the map.
Counted ==
  (phase \in {"save", "write", "script", "fill", "stats"} \/ reported = "complete") =>
    /\ unique_points = KeptPoints(angle_map)
    /\ filtered_bins = Cardinality(LostBins(angle_map))

\* While the program listens it has reported nothing.
Silent == phase \in {"start", "collect"} => reported = "nothing"

(***************************************************************************)
(* As many points are chosen as there are bins that contribute one.        *)
(***************************************************************************)
LEMMA PointsPerBin ==
  ASSUME IInv
  PROVE  /\ IsFiniteSet(DOMAIN angle_map)
         /\ Cardinality(KeptPoints(angle_map)) = Cardinality(KeptBins(angle_map))
<1> DEFINE f == [b \in KeptBins(angle_map) |-> CHOOSE p : p \in Kept(angle_map[b])]
<1>1. IsFiniteSet(DOMAIN angle_map)
  <2>1. FullTurn \div 50 - 1 \in Int
    BY TurnInt
  <2>2. IsFiniteSet(Bins)
    BY <2>1, FS_Interval DEF Bins
  <2> QED BY <2>2, FS_Subset DEF IInv, TypeOK
<1>2. IsFiniteSet(KeptBins(angle_map))
  BY <1>1, FS_Subset DEF KeptBins
<1>3. ASSUME NEW b \in KeptBins(angle_map)
      PROVE  /\ f[b] \in Kept(angle_map[b])
             /\ f[b] \in KeptPoints(angle_map)
             /\ AngleBin(f[b].azimuth) = b
  <2>1. b \in DOMAIN angle_map /\ f[b] \in Kept(angle_map[b])
    BY DEF KeptBins
  <2>2. f[b] \in KeptPoints(angle_map)
    BY <2>1 DEF KeptPoints
  <2>3. f[b] \in angle_map[b]
    BY <2>1, KeptAreSamples
  <2> QED BY <2>1, <2>2, <2>3 DEF IInv, Filed
<1>4. ASSUME NEW p \in KeptPoints(angle_map)
      PROVE  \E b \in KeptBins(angle_map) : f[b] = p
  <2>1. AngleBin(p.azimuth) \in KeptBins(angle_map)
    BY KeptPointsFiled DEF KeptBins
  <2>2. PICK b \in KeptBins(angle_map) : b = AngleBin(p.azimuth)
    BY <2>1
  <2>3. f[b] \in KeptPoints(angle_map) /\ AngleBin(f[b].azimuth) = b
    BY <1>3
  <2>4. PICK q \in KeptPoints(angle_map) : q = f[b]
    BY <2>3
  <2> HIDE DEF f
  <2>5. q = p
    BY <2>2, <2>3, <2>4, OneKeptPerBin
  <2> QED BY <2>4, <2>5
<1>5. f \in [KeptBins(angle_map) -> KeptPoints(angle_map)]
  BY <1>3
<1> HIDE DEF f
<1>6. \A b, c \in KeptBins(angle_map) : f[b] = f[c] => b = c
  BY <1>3
<1>7. f \in Bijection(KeptBins(angle_map), KeptPoints(angle_map))
  BY <1>4, <1>5, <1>6 DEF Bijection, Injection, Surjection, IsInjective
<1>8. ExistsBijection(KeptBins(angle_map), KeptPoints(angle_map))
  BY <1>7 DEF ExistsBijection
<1> QED BY <1>1, <1>2, <1>8, FS_Bijection

\* Counted and Silent hold initially and are kept by every action.
LEMMA CountersKept ==
  /\ Init => Counted /\ Silent
  /\ Counted /\ Silent /\ [Next]_vars => Counted' /\ Silent'
<1>1. Init => Counted /\ Silent
  BY DEF Init, Counted, Silent
<1>2. ASSUME Counted, Silent, [Next]_vars PROVE Counted' /\ Silent'
  <2> USE DEF Counted, Silent
  <2>1. CASE SelectPoints
    BY <1>2, <2>1 DEF SelectPoints, LostBins
  <2>2. CASE Initialize \/ NothingCollected
    BY <1>2, <2>2 DEF Initialize, NothingCollected
  <2>3. CASE OpenCSV \/ OpenCSVFails \/ WriteRow \/ CSVGoesBad \/ CloseCSV
    BY <1>2, <2>3 DEF OpenCSV, OpenCSVFails, WriteRow, CSVGoesBad, CloseCSV
  <2>4. CASE OpenScript \/ OpenScriptFails \/ WriteScript \/ PrintStatistics \/ StatisticsOfNothing
    BY <1>2, <2>4 DEF OpenScript, OpenScriptFails, WriteScript, PrintStatistics, StatisticsOfNothing
  <2>5. ASSUME NEW d \in Datagrams, Receive(d) PROVE Counted' /\ Silent'
    BY <1>2, <2>5 DEF Receive
  <2>6. CASE Interrupt
    BY <1>2, <2>6 DEF Interrupt, Ended
  <2>7. CASE ReceiveError \/ Over \/ UNCHANGED vars
    BY <1>2, <2>7 DEF ReceiveError, Over, vars
  <2> QED BY <1>2, <2>1, <2>2, <2>3, <2>4, <2>5, <2>6, <2>7 DEF Next, Step
<1> QED BY <1>1, <1>2

(***************************************************************************)
(* The report adds up: each angle announced is a row of the scan or is     *)
(* counted as filtered out, for every map.                                 *)
(***************************************************************************)
THEOREM ReportCorrect == Spec => []BinsAccounted
<1>1. IInv /\ Counted => BinsAccounted
  <2> SUFFICES ASSUME IInv, Counted,
                      phase \in {"save", "write", "script", "fill", "stats"} \/ reported = "complete"
               PROVE  Cardinality(unique_points) + filtered_bins
                        = Cardinality(DOMAIN angle_map)
    BY DEF BinsAccounted
  <2> DEFINE K == KeptBins(angle_map)
             L == LostBins(angle_map)
  <2>1. IsFiniteSet(K) /\ IsFiniteSet(L)
    BY PointsPerBin, FS_Subset DEF KeptBins, LostBins
  <2>2. DOMAIN angle_map = K \cup L /\ K \cap L = {}
    BY DEF KeptBins, LostBins
  <2>3. Cardinality(unique_points) = Cardinality(K) /\ filtered_bins = Cardinality(L)
    BY PointsPerBin DEF Counted
  <2> HIDE DEF K, L
  <2>4. Cardinality(K \cup L) = Cardinality(K) + Cardinality(L) - Cardinality(K \cap L)
    BY <2>1, FS_Union
  <2>5. Cardinality(K \cap L) = 0
    BY <2>2, FS_EmptySet
  <2>6. Cardinality(K) \in Nat /\ Cardinality(L) \in Nat
    BY <2>1, FS_CardinalityType
  <2> QED BY <2>2, <2>3, <2>4, <2>5, <2>6
<1>2. Spec => []Counted
  <2>1. Init => Counted /\ Silent
    BY CountersKept
  <2>2. (Counted /\ Silent) /\ [Next]_vars => (Counted /\ Silent)'
    BY CountersKept
  <2> QED BY <2>1, <2>2, PTL DEF Spec
<1> QED BY <1>1, <1>2, Invariance, PTL

-----------------------------------------------------------------------------
(* The visualizer implements ScanCollection.                               *)

\* What was heard stays heard, and the datagram's samples are added.
LEMMA ReceiveIsHear ==
  ASSUME IInv, NEW d \in Datagrams, Receive(d)
  PROVE  Promise!Hear
<1> DEFINE S == NewSamples(d, packet_count + 1)
<1>1. IInv'
  BY ReceiveKeeps
<1>2. angle_map' = File(angle_map, S)
  BY DEF Receive
<1> HIDE DEF S
<1>3. \A b \in DOMAIN angle_map : b \in DOMAIN angle_map' /\ angle_map[b] \subseteq angle_map'[b]
  BY <1>2 DEF File
<1>4. Heard \subseteq Heard'
  BY <1>3 DEF Heard
<1>5. Heard' \subseteq Sample
  BY <1>1 DEF IInv, TypeOK, Heard
<1>6. Abs_stage = "listen" /\ Abs_stage' = "listen"
  BY DEF Receive, Abs_stage
<1> QED BY <1>4, <1>5, <1>6 DEF Promise!Hear, Receive

\* The chosen points were heard, at most one in each half degree.
LEMMA SelectIsChoose ==
  ASSUME IInv, SelectPoints
  PROVE  Promise!Choose
<1>1. OneRowPerBin'
  <2>1. IInv'
    BY SelectKeeps
  <2> QED BY <2>1, OneRow, PTL
<1>2. Promise!OnePerHalfDegree(unique_points')
  BY <1>1 DEF OneRowPerBin, Promise!OnePerHalfDegree, Promise!HalfDegree, AngleBin
<1>3. unique_points' \subseteq Heard
  BY KeptAreSamples DEF SelectPoints, KeptPoints, Heard
<1>4. Abs_stage = "listen" /\ Abs_stage' = "store" /\ Heard' = Heard
  BY DEF SelectPoints, Abs_stage, Heard
<1> QED BY <1>2, <1>3, <1>4 DEF Promise!Choose, SelectPoints

\* The row written is the next point of the scan.
LEMMA WriteRowIsStore ==
  ASSUME IInv, WriteRow
  PROVE  Promise!Store
<1>1. Unwritten = unique_points \ csv.rows
  BY NothingSkipped DEF Unwritten
<1>2. PICK p \in Unwritten : /\ \A q \in Unwritten : p.azimuth <= q.azimuth
                             /\ csv' = [csv EXCEPT !.rows = @ \cup {p}]
  BY DEF WriteRow
<1>3. csv'.rows = csv.rows \cup {p}
  BY <1>2 DEF IInv, TypeOK
<1>4. Abs_stage = "store" /\ Abs_stage' = "store" /\ Heard' = Heard
  BY DEF WriteRow, Abs_stage, Heard
<1> QED BY <1>1, <1>2, <1>3, <1>4 DEF Promise!Store, WriteRow

\* Every other step stops the scan or is not visible in it.
LEMMA StepSimulation ==
  ASSUME IInv, [Next]_vars
  PROVE  [Promise!Next]_Promise!vars
<1> USE DEF Promise!Next, Promise!vars, Promise!Stop
<1>1. CASE Initialize \/ NothingCollected
  <2>1. UNCHANGED <<Heard, unique_points, csv.rows>>
    BY <1>1 DEF Initialize, NothingCollected, Heard
  <2>2. Abs_stage' = Abs_stage \/ Abs_stage' = "over"
    BY <1>1 DEF Initialize, NothingCollected, Abs_stage
  <2> QED BY <2>1, <2>2
<1>2. CASE SelectPoints
  BY <1>2, SelectIsChoose
<1>3. CASE OpenCSV
  <2>1. csv.rows = {} /\ csv'.rows = {}
    BY <1>3 DEF OpenCSV, IInv, Progress
  <2>2. UNCHANGED <<Heard, unique_points, Abs_stage>>
    BY <1>3 DEF OpenCSV, Heard, Abs_stage
  <2> QED BY <2>1, <2>2
<1>4. CASE OpenCSVFails \/ CloseCSV
  <2>1. UNCHANGED <<Heard, unique_points>>
    BY <1>4 DEF OpenCSVFails, CloseCSV, Heard
  <2>2. csv'.rows = csv.rows
    BY <1>4 DEF OpenCSVFails, CloseCSV, IInv, TypeOK
  <2>3. Abs_stage' = "over"
    BY <1>4 DEF OpenCSVFails, CloseCSV, Abs_stage
  <2> QED BY <2>1, <2>2, <2>3
<1>5. CASE WriteRow
  BY <1>5, WriteRowIsStore
<1>6. CASE OpenScript \/ OpenScriptFails \/ WriteScript \/ PrintStatistics \/ StatisticsOfNothing
  <2> USE DEF OpenScript, OpenScriptFails, WriteScript, PrintStatistics, StatisticsOfNothing
  <2>1. UNCHANGED <<Heard, unique_points, csv.rows>>
    BY <1>6 DEF Heard
  <2>2. Abs_stage' = "over"
    BY <1>6 DEF Abs_stage
  <2> QED BY <2>1, <2>2
<1>7. ASSUME NEW d \in Datagrams, Receive(d) PROVE [Promise!Next]_Promise!vars
  BY <1>7, ReceiveIsHear
<1>8. CASE Interrupt
  <2>1. UNCHANGED <<Heard, unique_points, csv.rows>>
    BY <1>8 DEF Interrupt, Heard
  <2>2. Abs_stage' = "over"
    BY <1>8 DEF Interrupt, Abs_stage
  <2> QED BY <2>1, <2>2
<1>9. CASE ReceiveError \/ Over \/ UNCHANGED vars
  BY <1>9 DEF ReceiveError, Over, vars, Heard, Abs_stage
<1>10. CASE CSVGoesBad
  <2>1. csv'.rows = csv.rows
    BY <1>10 DEF CSVGoesBad, IInv, TypeOK
  <2>2. UNCHANGED <<Heard, unique_points, Abs_stage>>
    BY <1>10 DEF CSVGoesBad, Heard, Abs_stage
  <2> QED BY <2>1, <2>2
<1> QED BY <1>1, <1>2, <1>3, <1>4, <1>5, <1>6, <1>7, <1>8, <1>9, <1>10 DEF Next, Step

(***************************************************************************)
(* Refinement: every behaviour of the visualizer is one of ScanCollection, *)
(* for all datagrams and budgets, whatever becomes of the files.           *)
(***************************************************************************)
THEOREM Refinement == Spec => KeepsPromise
<1>1. Init => Promise!Init
  BY DEF Init, NoMap, Promise!Init, Heard, Abs_stage
<1>2. IInv /\ [Next]_vars => [Promise!Next]_Promise!vars
  BY StepSimulation
<1> QED BY <1>1, <1>2, Invariance, PTL DEF Spec, KeepsPromise, Promise!Spec

=============================================================================
