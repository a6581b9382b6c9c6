------------------------------ MODULE MCParser ------------------------------
(***************************************************************************)
(* Full-size packets for MSOPParser: twelve blocks of sixteen              *)
(* measurements whose angles advance by a fixed step from a base, some of  *)
(* them not valid, with returns at both ends of a block.  Bases, steps and *)
(* distances sit on the boundaries of the code: the 0.1 m and 15 m limits, *)
(* both "no return" distances, steps above and below the default           *)
(* resolution, sweeps that turn back, that pass 360 degrees and that pass  *)
(* 65535.                                                                  *)
(***************************************************************************)
EXTENDS MSOPParser, TLC

Wire(v) == (v % 256) * 256 + v \div 256

Nothing == [distance_strongest |-> 0, rssi_strongest |-> 0,
            distance_last |-> Wire(65535), rssi_last |-> 0]

Measured(d1, d2) == [distance_strongest |-> Wire(d1), rssi_strongest |-> 90,
                     distance_last |-> Wire(d2), rssi_last |-> 30]

\* Returns of measurements 0, 1, 7, 14 and 15 of every block.
Patterns == {
  [i \in 0 .. 15 |-> IF i \in {0, 7, 15} THEN Measured(5000, 5000) ELSE Nothing],
  [i \in 0 .. 15 |-> CASE i = 0  -> Measured(100, 15000)
                       [] i = 1  -> Measured(99, 15001)
                       [] i = 14 -> Measured(65535, 2300)
                       [] i = 15 -> Measured(2300, 0)
                       [] OTHER  -> Nothing] }

\* Which blocks are flagged not valid, and which carry the azimuth 0xFFFF.
Defects == {<<{}, {}>>, <<{1, 5}, {}>>, <<{}, {0, 11}>>, <<6 .. 11, {}>>, <<1 .. 11, {}>>, <<{1, 6}, {}>>,
            <<7 .. 11, {6}>>}

Packet(base, step, defect, pattern) ==
  [data_blocks |->
     [b \in 0 .. NBlocks - 1 |->
        [flag    |-> IF b \in defect[1] THEN 65535 ELSE Wire(65518),
         azimuth |-> IF b \in defect[2] THEN 65535 ELSE Wire((base + step * b) % 65535),
         measurements |-> pattern]],
   timestamp    |-> <<base % 256, 1, 2, IF step < 0 THEN 0 ELSE step % 256>>,
   factory_info |-> Wire(14144)]

Sweeps == {<<0, 200>>, <<4500, 400>>, <<4500, 10>>, <<31500, -400>>, <<35200, 100>>,
           <<65000, 50>>}

Packets == {Packet(s[1], s[2], d, p) : s \in Sweeps, d \in Defects, p \in Patterns}

MCDatagrams ==
  {[size |-> PacketSize, packet |-> p] : p \in Packets}
    \cup {[size |-> 100, packet |-> Packet(4500, 400, <<{}, {}>>, p)] : p \in Patterns}

=============================================================================
