--------------------------- MODULE MCPacketReader ---------------------------
(***************************************************************************)
(* Datagrams for the packet reader: a full packet with more reliable       *)
(* points than are printed, whose block crosses 360 degrees; captures with *)
(* signals on both sides of the limits of the two programs; a packet       *)
(* without points; strays, shorter and of an odd length.                   *)
(***************************************************************************)
EXTENDS PacketReader, TLC

Wire(v) == (v % 256) * 256 + v \div 256

Measured(d1, r1, d2, r2) == [distance_strongest |-> Wire(d1), rssi_strongest |-> r1,
                             distance_last |-> Wire(d2), rssi_last |-> r2]

\* A packet whose blocks 0 and 1 are valid and carry the same readings.
Packet2(azimuth, readings, timestamp) ==
  [data_blocks |->
     [b \in 0 .. NBlocks - 1 |->
        [flag    |-> IF b < 2 THEN Wire(65518) ELSE 65535,
         azimuth |-> Wire((azimuth + 400 * b) % FullTurn),
         measurements |-> [m \in 0 .. NMeas - 1 |->
            IF m \in DOMAIN readings THEN readings[m] ELSE Measured(0, 0, 65535, 0)]]],
   timestamp    |-> timestamp,
   factory_info |-> azimuth]

Rich  == Packet2(35900, 0 :> Measured(2000, 30, 14500, 90) @@ 4 :> Measured(900, 26, 950, 25)
                     @@ 8 :> Measured(12999, 200, 13000, 200)
                     @@ 15 :> Measured(101, 26, 100, 60), <<1, 2, 3, 4>>)
Faint == Packet2(9000, 2 :> Measured(3000, 22, 3100, 15) @@ 5 :> Measured(4000, 26, 0, 0),
                 <<9, 8, 7, 6>>)
Empty == Packet2(18000, 0 :> Measured(99, 99, 15001, 99), <<5, 5, 5, 0>>)

MCDatagrams ==
  {[size |-> s, packet |-> p] : s \in {PacketSize, PacketSize + HeaderSize}, p \in {Rich, Faint, Empty}}
    \cup {[size |-> 512, packet |-> Rich], [size |-> 1207, packet |-> Faint]}
=============================================================================
