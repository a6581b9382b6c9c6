---------------------------- MODULE MCSlamReader ----------------------------
(***************************************************************************)
(* Three datagrams for the SLAM reader: a packet, a capture with its       *)
(* headers in front, which readScan takes for a packet whose flags are     *)
(* wrong and whose azimuths are no angles, and a short one.                *)
(***************************************************************************)
EXTENDS SlamReader

Wire(v) == (v % 256) * 256 + v \div 256

Packet(flag, base, step, distance) ==
  [data_blocks |->
     [b \in 0 .. NBlocks - 1 |->
        [flag |-> Wire(flag), azimuth |-> Wire((base + b * step) % 2^16),
         measurements |-> [m \in 0 .. NMeas - 1 |->
            [distance_strongest |-> Wire(distance), rssi_strongest |-> 30,
             distance_last |-> 0, rssi_last |-> 0]]]],
   timestamp    |-> [i \in 1 .. 4 |-> 0],
   factory_info |-> 0]

MCDatagrams ==
  {[size |-> PacketSize,              packet |-> Packet(65518, 35000, 400, 2000)],
   [size |-> PacketSize + HeaderSize, packet |-> Packet(2048, 65535, 1, 65535)],
   [size |-> 46,                      packet |-> Packet(0, 0, 0, 0)]}

MCAngleOffset == -400
=============================================================================
