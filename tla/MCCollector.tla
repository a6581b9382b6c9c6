---------------------------- MODULE MCCollector -----------------------------
(***************************************************************************)
(* Five datagrams for the visualizer: a capture with its headers and one   *)
(* without, whose samples share a bin; one that crosses 360 degrees inside *)
(* a block and has a return at 15 m; one too weak to be kept alone; a      *)
(* stray of another length.  Two or three of them fill a bin beyond the    *)
(* three samples from which medians are used.                              *)
(***************************************************************************)
EXTENDS Collector, TLC

Wire(v) == (v % 256) * 256 + v \div 256

Measured(d1, r1, d2, r2) == [distance_strongest |-> Wire(d1), rssi_strongest |-> r1,
                             distance_last |-> Wire(d2), rssi_last |-> r2]

\* A packet whose first block alone is valid.
Packet(azimuth, readings) ==
  [data_blocks |->
     [b \in 0 .. NBlocks - 1 |->
        [flag    |-> IF b = 0 THEN Wire(65518) ELSE 65535,
         azimuth |-> Wire(azimuth),
         measurements |-> [m \in 0 .. NMeas - 1 |->
            IF b = 0 /\ m \in DOMAIN readings THEN readings[m]
            ELSE Measured(0, 0, 0, 0)]]],
   timestamp    |-> <<0, 0, 0, 0>>,
   factory_info |-> 0]

Plain == [size |-> PacketSize,
          packet |-> Packet(9000, 0 :> Measured(2000, 30, 14500, 40))]

\* Its measurements 0, 1 and 2 fall into the bins 180, 180 and 181.
Captured == [size |-> PacketSize + HeaderSize,
             packet |-> Packet(9010, 0 :> Measured(2070, 24, 2070, 24)
                                  @@ 1 :> Measured(9000, 22, 9000, 22)
                                  @@ 2 :> Measured(3000, 16, 0, 0))]

Seam == [size |-> PacketSize,
         packet |-> Packet(35990, 0 :> Measured(700, 28, 100, 60)
                               @@ 1 :> Measured(800, 28, 850, 29)
                               @@ 4 :> Measured(15000, 28, 0, 0))]

Weak == [size |-> PacketSize, packet |-> Packet(9000, 0 :> Measured(2010, 18, 0, 0))]

Stray == [size |-> 512, packet |-> Plain.packet]

MCDatagrams == {Plain, Captured, Seam, Weak, Stray}
=============================================================================
