----------------------------- MODULE ScanStream -----------------------------
(***************************************************************************)
(* What readScan promises to the program that calls it, without sockets,   *)
(* clocks, sleeping or errors: datagrams are pending in the order in which *)
(* they arrived, no more than a capacity of them; what is published is the *)
(* scan of the first pending one, which is pending no longer; in front of  *)
(* one that has no scan, or at any other moment, the stream stops for      *)
(* good.                                                                   *)
(***************************************************************************)
EXTENDS Sequences, Naturals

CONSTANTS Datagrams, Capacity,
          ScanOf,     \* the scan of each datagram that has one
          Nothing     \* before the first scan

VARIABLES pending, scan, stopped

vars == <<pending, scan, stopped>>

Init ==
  /\ pending = << >>
  /\ scan = Nothing
  /\ stopped = FALSE

Hear ==
  /\ ~stopped
  /\ Len(pending) < Capacity
  /\ \E d \in Datagrams : pending' = Append(pending, d)
  /\ UNCHANGED <<scan, stopped>>

Publish ==
  /\ ~stopped
  /\ pending # << >>
  /\ Head(pending) \in DOMAIN ScanOf
  /\ scan' = ScanOf[Head(pending)]
  /\ pending' = Tail(pending)
  /\ UNCHANGED stopped

Stop ==
  /\ ~stopped
  /\ stopped' = TRUE
  /\ pending' = << >>
  /\ UNCHANGED scan

Next == Hear \/ Publish \/ Stop

Spec == Init /\ [][Next]_vars

=============================================================================
