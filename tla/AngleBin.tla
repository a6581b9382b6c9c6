------------------------------ MODULE AngleBin ------------------------------
(***************************************************************************)
(* The life of one bin of the angle map: samples are pushed one by one,    *)
(* and after any number of them the filter may be run.  Each reachable     *)
(* sequence of samples is one input of the filter, so the invariants below *)
(* say what the choice promises for every order of arrival.                *)
(***************************************************************************)
EXTENDS SampleFilter

CONSTANTS Distances,    \* millimetres
          Rssis,
          MaxSamples    \* bound on the samples of the bin

\* What lets a point into a bin: lidar_visualizer.cpp lines 233 to 235.
ASSUME DistancesAssumption == Distances \subseteq 101 .. 13999
ASSUME RssisAssumption == Rssis \subseteq 16 .. 255
ASSUME MaxSamplesAssumption == MaxSamples \in Nat

VARIABLE samples

Sample == [at : 1 .. MaxSamples, distance : Distances, rssi : Rssis]

Init == samples = {}

PushBack(d, r) ==
  /\ Cardinality(samples) < MaxSamples
  /\ samples' = samples \cup {[at |-> Cardinality(samples) + 1, distance |-> d, rssi |-> r]}

Full == Cardinality(samples) = MaxSamples /\ UNCHANGED samples

Next == (\E d \in Distances, r \in Rssis : PushBack(d, r)) \/ Full

Spec == Init /\ [][Next]_samples

-----------------------------------------------------------------------------

(***************************************************************************)
(* The samples are numbered in their order of arrival, and the filter      *)
(* keeps at most one of them.                                              *)
(***************************************************************************)
TypeOK ==
  /\ samples \in SUBSET Sample
  /\ {s.at : s \in samples} = 1 .. Cardinality(samples)
  /\ Cardinality(Kept(samples)) <= 1

(***************************************************************************)
(* Outliers cannot win: when half of the three or more samples of a bin    *)
(* lie at some distance or further, the kept point is at half of it at     *)
(* least, and when more than half lie up to some distance, it is at 150%   *)
(* of it at most, whatever the other samples are.  The difference is the   *)
(* even case: of two samples in the middle the median is the upper one, so *)
(* half of the samples hold it up but do not hold it down.                 *)
(***************************************************************************)
MajorityRules ==
  LET n == Cardinality(samples)
  IN  n >= 3 => \A d \in Distances, k \in Kept(samples) :
        /\ 2 * Cardinality({s \in samples : s.distance >= d}) >= n => 2 * k.distance >= d
        /\ 2 * Cardinality({s \in samples : s.distance <= d}) > n  => 2 * k.distance <= 3 * d

(***************************************************************************)
(* The tolerance of 0.1 m adds up, and this is as far as it goes: over n   *)
(* accepted samples the kept one is less than (n - 1) * 0.1 m further from *)
(* the median than the closest one.                                        *)
(***************************************************************************)
DriftBounded ==
  LET median   == MedianDistance(samples)
      accepted == FilteredSamples(samples)
      kept     == Kept(samples)
  IN  Cardinality(samples) >= 3 =>
        \A k \in kept, s \in accepted \ kept :
          Abs(k.distance - median)
            < Abs(s.distance - median) + 100 * (Cardinality(accepted) - 1)

(***************************************************************************)
(* A bin is kept on strong evidence only: at least half of its samples are *)
(* above RSSI 20, however many of them there are.                          *)
(***************************************************************************)
MostlyStrong ==
  Kept(samples) # {} =>
    2 * Cardinality({s \in samples : s.rssi > 20}) >= Cardinality(samples)

-----------------------------------------------------------------------------
(* What the documentation says and the code does not do.                   *)

(***************************************************************************)
(* "Select the sample closest to median distance with good RSSI",          *)
(* lidar_visualizer.cpp line 289: no accepted sample is closer by 0.1 m or *)
(* more, the tolerance of the comparison.                                  *)
(***************************************************************************)
ClosestToMedian ==
  LET median == MedianDistance(samples)
  IN  Cardinality(samples) >= 3 =>
        \A k \in Kept(samples), s \in FilteredSamples(samples) :
          Abs(k.distance - median) < Abs(s.distance - median) + 100

=============================================================================
