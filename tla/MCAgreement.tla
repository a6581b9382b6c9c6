----------------------------- MODULE MCAgreement ----------------------------
(***************************************************************************)
(* Packets for all readers of the format: sweeps that begin at the         *)
(* start of the turn, in its middle and shortly before its end, with       *)
(* blocks at the sensor's resolution, at one that 16 does not divide, far  *)
(* apart and backwards, and with blocks that are not valid at either end,  *)
(* in the middle and in half of the second half.                           *)
(***************************************************************************)
EXTENDS Agreement, TLC

Wire(v) == (v % 256) * 256 + v \div 256

Measured(d1, r1, d2, r2) == [distance_strongest |-> Wire(d1), rssi_strongest |-> r1,
                             distance_last |-> Wire(d2), rssi_last |-> r2]

\* Every combination of a return in range, out of range and missing, returns
\* without a signal, and distances at the edge of the plotter's canvas.
Returns == <<Measured(2000, 30, 2500, 20), Measured(20000, 30, 700, 40),
               Measured(65535, 9, 65535, 9), Measured(0, 0, 15000, 3),
               Measured(99, 30, 100, 30), Measured(3000, 30, 3000, 30),
               Measured(65535, 0, 2600, 7), Measured(4000, 0, 4100, 30),
               Measured(4005, 30, 0, 0), Measured(3999, 12, 5000, 30)>>

Packet(base, step, valid, mark) ==
  [data_blocks |->
     [b \in 0 .. NBlocks - 1 |->
        [flag    |-> Wire(IF b \in valid THEN 65518 ELSE mark),
         azimuth |-> Wire((base + b * step) % 36000),
         measurements |-> [m \in 0 .. NMeas - 1 |-> Returns[((m + b) % 10) + 1]]]],
   timestamp    |-> <<1, 2, 3, 4>>,
   factory_info |-> 258]

Bases  == {0, 9000, 33700, 35990}
Steps  == {400, 407, 3, 5500, 36000 - 400}
Valids == {0 .. 11, 3 .. 11, 0 .. 5, 0 .. 8, 0 .. 9, (0 .. 11) \ {4}, (0 .. 11) \ {10}, {11}, {}}

\* What the code draws in the directions of the blocks at 0, 90, 337 and 359.9
\* degrees.
MCReach == [a \in UInt16 |-> IF a = 9000 THEN 4009 ELSE IF a = 33700 THEN 4345
                             ELSE IF a = 35990 THEN 4000 ELSE 3999]

Sweeps == {Packet(b, s, v, 65535) : b \in Bases, s \in Steps, v \in Valids}

\* Azimuths outside the turn, and blocks marked with another flag.
Strange ==
  {[Packet(9000, 400, 0 .. 11, 0) EXCEPT !.data_blocks[4].azimuth = Wire(a),
                                         !.data_blocks[11].azimuth = Wire(c)] :
     a \in {36001, 65535, 65534}, c \in {13400, 65534, 0}}
  \cup {Packet(9000, 400, 0 .. 5, 0)}

MCDatagrams ==
  {[size |-> PacketSize, packet |-> p] : p \in Sweeps \cup Strange}
    \cup {[size |-> 1205, packet |-> Packet(0, 400, 0 .. 11, 65535)]}
=============================================================================
