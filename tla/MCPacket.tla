------------------------------ MODULE MCPacket ------------------------------
(* An instance of Packet for TLC: two units of one kind and one of another.*)
EXTENDS Packet

Units == 1..3
Kinds == <<"grunt", "shaman", "grunt">>

=============================================================================
