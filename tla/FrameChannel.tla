---------------------------- MODULE FrameChannel ----------------------------
(***************************************************************************)
(* What a QUIC connection promises the streams above it: a frame that was  *)
(* handed over reaches the peer at least once, in any order relative to    *)
(* the others, and the sender is told once, afterwards, that it has        *)
(* (StreamNotifierInterface::OnStreamFrameAcked).  A frame may be given    *)
(* up: the frames of a reset stream, and those of an encryption level that *)
(* is no longer used.                                                      *)
(*                                                                         *)
(* SentPackets shows that loss recovery keeps the promise; Stream is built *)
(* on it.                                                                  *)
(***************************************************************************)
EXTENDS Naturals

CONSTANT Frame

VARIABLES
  handed,     \* frames handed to the connection
  delivered,  \* frames the peer has received
  notices,    \* notices[f]: how often the sender was told of f
  givenUp     \* frames that need not arrive

vars == <<handed, delivered, notices, givenUp>>

Init ==
  /\ handed = {} /\ delivered = {} /\ givenUp = {}
  /\ notices = [f \in Frame |-> 0]

HandOver ==
  /\ \E F \in SUBSET (Frame \ handed) : handed' = handed \cup F
  /\ UNCHANGED <<delivered, notices>>
  /\ \E G \in SUBSET handed' : givenUp' = givenUp \cup G

(* The whole content of a packet arrives at once; parts of it may have     *)
(* arrived before.                                                         *)
Deliver ==
  /\ \E F \in SUBSET handed : delivered' = delivered \cup F
  /\ UNCHANGED <<handed, notices, givenUp>>

(* An ack tells of frames that have arrived and were not told of.          *)
Notify ==
  /\ \E F \in SUBSET {f \in delivered : notices[f] = 0} :
       notices' = [f \in Frame |-> IF f \in F THEN 1 ELSE notices[f]]
  /\ UNCHANGED <<handed, delivered, givenUp>>

Next == HandOver \/ Deliver \/ Notify

Spec == Init /\ [][Next]_vars
=============================================================================
