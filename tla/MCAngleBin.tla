----------------------------- MODULE MCAngleBin -----------------------------
(***************************************************************************)
(* Bins of up to four samples.  The distances are near each other          *)
(* (steps below and above 0.1 m), on both sides of the 30% and 50% limits; *)
(* none lies exactly on a limit, where the program's                       *)
(* single-precision quotients could round either way.  The RSSIs lie on    *)
(* both sides of each threshold: 20, 25 and 70% of the median.             *)
(***************************************************************************)
EXTENDS AngleBin

MCDistances == {1000, 1090, 1180, 1700, 2500}
MCRssis     == {16, 21, 26, 40}
=============================================================================
