---------------------------- MODULE SampleFilter ----------------------------
(***************************************************************************)
(* Which points lidar_visualizer.cpp collects, and how it chooses at most  *)
(* one of them for a half-degree bin.                                      *)
(*                                                                         *)
(* A bin's vector of samples is the set of its samples; the field `at`,    *)
(* different for each, is the order in which push_back was called.         *)
(* Distances are millimetres, and each floating-point comparison is stated *)
(* as the exact one between integers.                                      *)
(***************************************************************************)
EXTENDS Integers, FiniteSets

\* Mutant: the upper limit of the distance is forgotten.
Near(p) == p.distance > 100 /\ p.rssi > 15

\* The limits a point must pass to be filed, inside those of the parser.
Credible(p) == p.distance > 100 /\ p.distance < 14000 /\ p.rssi > 15

Abs(x) == IF x < 0 THEN -x ELSE x

\* sorted[size / 2] of the values of f: with an even number of values the
\* upper one of the two in the middle.
UpperMedian(f) ==
  CHOOSE v \in {f[s] : s \in DOMAIN f} :
    /\ Cardinality({s \in DOMAIN f : f[s] < v}) <= Cardinality(DOMAIN f) \div 2
    /\ Cardinality({s \in DOMAIN f : f[s] <= v}) > Cardinality(DOMAIN f) \div 2

\* Mutant: the value in the middle of the unsorted vector.
UnsortedMedian(samples) ==
  (CHOOSE s \in samples : Cardinality({t \in samples : t.at < s.at}) =
                            Cardinality(samples) \div 2).distance

MedianDistance(samples) == UpperMedian([s \in samples |-> s.distance])

\* Mutant: the largest value instead of the one in the middle.
HighestRssi(samples) == CHOOSE r \in {s.rssi : s \in samples} : \A s \in samples : s.rssi <= r

MedianRssi(samples) == UpperMedian([s \in samples |-> s.rssi])

\* At most 50% off the median distance and at least 70% of the median RSSI.
FilteredSamples(samples) ==
  LET median_distance == MedianDistance(samples)
      median_rssi     == MedianRssi(samples)
  IN  {s \in samples : /\ 2 * Abs(s.distance - median_distance) <= median_distance
                       /\ 10 * s.rssi >= 7 * median_rssi}

\* Mutant: the tolerance is not symmetric.
BetterEitherWay(a, b, median) ==
  LET da == Abs(a.distance - median)
      db == Abs(b.distance - median)
  IN  IF da - db < 100 THEN a.rssi > b.rssi ELSE da < db

\* The comparison given to min_element.  It is not transitive: samples less
\* than 0.1 m apart in their distance to the median compare by RSSI.
Better(a, b, median) ==
  LET da == Abs(a.distance - median)
      db == Abs(b.distance - median)
  IN  IF Abs(da - db) < 100 THEN a.rssi > b.rssi ELSE da < db

\* std::min_element: one pass in arrival order that keeps the best so far.
MinElement(samples, median) ==
  LET best[S \in SUBSET samples] ==
        LET last   == CHOOSE s \in S : \A t \in S : t.at <= s.at
            before == S \ {last}
        IN  IF before = {} THEN last
            ELSE LET b == best[before] IN IF Better(last, b, median) THEN last ELSE b
  IN  best[samples]

KeptOfMany(samples) ==
  LET filtered == FilteredSamples(samples)
      best     == MinElement(filtered, MedianDistance(samples))
  IN  {s \in filtered : MedianRssi(samples) > 20 /\ s = best}

\* Mutant: two equally strong samples are both kept.
KeptOfTwoTied(samples) ==
  {s \in samples : \E t \in samples \ {s} :
     /\ 20 * Abs(s.distance - t.distance) <= 3 * (s.distance + t.distance)
     /\ s.rssi > 20 /\ t.rssi > 20
     /\ s.rssi >= t.rssi}

\* Two samples: their distances within 30% of the mean, both above RSSI 20;
\* the stronger is kept, the later one when they are equal.
KeptOfTwo(samples) ==
  {s \in samples : \E t \in samples \ {s} :
     /\ 20 * Abs(s.distance - t.distance) <= 3 * (s.distance + t.distance)
     /\ s.rssi > 20 /\ t.rssi > 20
     /\ s.rssi > t.rssi \/ (s.rssi = t.rssi /\ s.at > t.at)}

KeptOfOne(samples) == {s \in samples : s.rssi > 25}

\* The points a bin contributes to unique_points: one or none.
Kept(samples) ==
  LET n == Cardinality(samples)
  IN  IF n >= 3 THEN KeptOfMany(samples)
      ELSE IF n = 2 THEN KeptOfTwo(samples)
      ELSE KeptOfOne(samples)

=============================================================================
