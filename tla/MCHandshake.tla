---------------------------- MODULE MCHandshake ----------------------------
(* One connection: the dialer knows the server or does not, the server may *)
(* refuse every hello, and every packet may be lost, repeated or overtaken. *)
EXTENDS Handshake
=============================================================================
