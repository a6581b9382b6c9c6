--------------------------- MODULE ScanCollection ---------------------------
(***************************************************************************)
(* What the visualizer promises, without datagrams, bins or filters:       *)
(* measurements are heard; at some moment a scan is chosen among those     *)
(* heard, with at most one point for each half degree; from then on the    *)
(* scan is fixed and goes to a file from its smallest angle upwards.  The  *)
(* user may stop everything at any moment.                                 *)
(***************************************************************************)
EXTENDS Integers

CONSTANT Measurement    \* what can be heard, records with an azimuth

VARIABLES heard, scan, file, stage

vars == <<heard, scan, file, stage>>

HalfDegree(m) == m.azimuth \div 50

OnePerHalfDegree(S) == \A m, n \in S : HalfDegree(m) = HalfDegree(n) => m = n

Init ==
  /\ heard = {}
  /\ scan = {}
  /\ file = {}
  /\ stage = "listen"

Hear ==
  /\ stage = "listen"
  /\ heard \subseteq heard'
  /\ heard' \subseteq Measurement
  /\ UNCHANGED <<scan, file, stage>>

Choose ==
  /\ stage = "listen"
  /\ scan' \subseteq heard
  /\ OnePerHalfDegree(scan')
  /\ stage' = "store"
  /\ UNCHANGED <<heard, file>>

\* The next point in the order of the angle.
Store ==
  /\ stage = "store"
  /\ \E m \in scan \ file :
       /\ \A n \in scan \ file : m.azimuth <= n.azimuth
       /\ file' = file \cup {m}
  /\ UNCHANGED <<heard, scan, stage>>

Stop ==
  /\ stage' = "over"
  /\ UNCHANGED <<heard, scan, file>>

Next == Hear \/ Choose \/ Store \/ Stop

Spec == Init /\ [][Next]_vars

=============================================================================
