--------------------------- MODULE MCSentPackets ----------------------------
(* Instances of SentPackets for TLC.                                       *)
EXTENDS SentPackets
=============================================================================
