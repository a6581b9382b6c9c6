------------------------------- MODULE MCPort -------------------------------
(***************************************************************************)
(* Lengths on both sides of what the programs check: less than a block,    *)
(* one block, a packet, and a packet with its headers, which some of them  *)
(* have no room for.  Two programs at a time, every pair, one after        *)
(* another.                                                                *)
(***************************************************************************)
EXTENDS Port

MCSizes == {99, 100, PacketSize, PacketSize + HeaderSize}

=============================================================================
