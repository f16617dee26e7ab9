---------------------------- MODULE SentPackets -----------------------------
(***************************************************************************)
(* Loss recovery of a QUIC connection, seen from one end: the packets that *)
(* are not acknowledged yet (QuicUnackedPacketMap), the decision to send   *)
(* one again (QuicSentPacketManager, GeneralLossAlgorithm) and the part of *)
(* QuicConnection that writes packets, queues them when the packet writer  *)
(* is blocked, and keeps the retransmission alarm.  The peer receives      *)
(* packets that are lost, delayed and reordered, and acknowledges them.    *)
(*                                                                         *)
(* `conn' is the state of the connection; the methods are operators from   *)
(* the state before the call to the state after it, and an action is one   *)
(* event with everything it calls.  The frames of a packet are lost, sent  *)
(* again and acknowledged together; a new packet carries one of a stream   *)
(* and the control frames the packet generator holds.                      *)
(*                                                                         *)
(* Time is abstracted: an alarm that is set may go off.  `room' is the     *)
(* number of datagrams the packet writer takes before it blocks, `burst'   *)
(* the number of packets the pacer lets through, during one event.         *)
(***************************************************************************)
EXTENDS Integers, Sequences, FiniteSetsExt

CONSTANTS
  NumFrames,     \* bound: frames of the streams and control frames
  Crypto,        \* the ones of the crypto stream
  Control,       \* control frames: RST_STREAM, WINDOW_UPDATE
  MaxPings,      \* bound: pings
  MaxPacket,     \* bound: packet numbers
  Cwnd,          \* congestion window, in packets
  Nacks,         \* kNumberOfNacksBeforeRetransmission
  MaxTlp,        \* max_tail_loss_probes_
  MaxRtoPackets, \* kMaxRetransmissionsOnTimeout
  MaxMishaps     \* bound: packets lost, alarms that beat an ack on its way,
                 \*        packets without retransmittable frames

Data == 1..NumFrames
StreamData == Data \ (Crypto \cup Control)
Ping == NumFrames + 1..NumFrames + MaxPings
Frame == Data \cup Ping
Num == Nat \ {0}

ASSUME SentPacketsAssumption ==
  /\ {NumFrames, MaxPings, MaxTlp, MaxMishaps} \subseteq Nat
  /\ {MaxPacket, Cwnd, Nacks, MaxRtoPackets} \subseteq Nat \ {0}
  /\ Crypto \subseteq Data /\ Control \subseteq Data \ Crypto

VARIABLES
  conn,      \* the connection
  peer,      \* what the peer has received and still waits for
  handed,    \* frames handed to the connection
  givenUp,   \* frames of reset streams and of the handshake's encryption
  mishaps    \* how many of MaxMishaps have happened

vars == <<conn, peer, handed, givenUp, mishaps>>

(* QuicTransmissionInfo: `frames' are its retransmittable_frames, `next'   *)
(* the packet that retransmits it.                                         *)
TransmissionInfo ==
  [frames : SUBSET Frame, inFlight : BOOLEAN, unackable : BOOLEAN,
   next : Nat, crypto : BOOLEAN]

NoInfo ==
  [frames |-> {}, inFlight |-> FALSE, unackable |-> TRUE,
   next |-> 0, crypto |-> FALSE]

(* SerializedPacket: `frames' are its retransmittable_frames, which a      *)
(* retransmission leaves with packet `orig'; `content' is on the wire.     *)
SerializedPacket ==
  [num : Num, frames : SUBSET Frame, orig : Nat,
   linked : BOOLEAN, content : SUBSET Frame]

(* `control' and `sendAck' are what the packet generator holds, its        *)
(* queued_control_frames_ and should_send_ack_.                            *)
Connection ==
  [info : Seq(TransmissionInfo), least : Num, largest : Nat,
   observed : Nat, newest : Nat, newlyAcked : Nat,
   pending : SUBSET Num, unlinked : SUBSET Num,
   cryptoCount : Nat, timer : Nat, tlp : Nat, rto : Nat,
   lossAlarm : Nat, confirmed : BOOLEAN,
   alarm : BOOLEAN, sendAlarm : {"no", "now", "later"}, blocked : BOOLEAN,
   serial : Nat, queue : Seq(SerializedPacket),
   control : SUBSET Frame, sendAck : BOOLEAN,
   ready : SUBSET Frame, wire : SUBSET [num : Num, content : SUBSET Frame],
   notices : [Frame -> Nat], room : Nat, burst : Nat]

Init ==
  /\ conn =
       [info |-> <<>>, least |-> 1, largest |-> 0,
        observed |-> 0, newest |-> 0, newlyAcked |-> 0,
        pending |-> {}, unlinked |-> {}, cryptoCount |-> 0,
        timer |-> 0, tlp |-> 0, rto |-> 0, lossAlarm |-> 0,
        confirmed |-> FALSE, alarm |-> FALSE, sendAlarm |-> "no",
        blocked |-> FALSE, serial |-> 0, queue |-> <<>>,
        control |-> {}, sendAck |-> FALSE, ready |-> {},
        wire |-> {}, notices |-> [f \in Frame |-> 0], room |-> 0, burst |-> 0]
  /\ peer = [received |-> {}, told |-> {}, least |-> 0, frames |-> {}]
  /\ handed = {} /\ givenUp = {}
  /\ mishaps = 0

-----------------------------------------------------------------------------
(* QuicUnackedPacketMap *)

Tracked(s) == s.least..s.largest
InFlight(s) == {p \in Tracked(s) : s.info[p].inFlight}
HasFrames(s, p) == s.info[p].frames # {}
HasUnackedRetransmittableFrames(s) == \E p \in InFlight(s) : HasFrames(s, p)

IsPacketUseless(s, p) ==
  /\ s.info[p].unackable \/ p <= s.observed
  /\ ~s.info[p].inFlight
  /\ s.info[p].frames = {} /\ s.info[p].next <= s.observed

IsUnacked(s, p) == p \in Tracked(s) /\ ~IsPacketUseless(s, p)

RemoveObsoletePackets(s) ==
  LET useful == {p \in Tracked(s) : ~IsPacketUseless(s, p)}
      least == IF useful = {} THEN s.largest + 1 ELSE Min(useful)
  IN [s EXCEPT !.least = least,
               !.info = [p \in DOMAIN s.info |->
                           IF p < least THEN NoInfo ELSE s.info[p]]]

RemoveFromInFlight(s, P) ==
  [s EXCEPT !.info =
     [p \in DOMAIN s.info |->
        [s.info[p] EXCEPT !.inFlight = @ /\ p \notin P]]]

(* The transmissions of a packet's frames, from p to the newest.           *)
Chain(s, p) ==
  LET from[q \in DOMAIN s.info] ==
        {q} \cup IF s.info[q].next = 0 THEN {} ELSE from[s.info[q].next]
  IN from[p]
GetNewestRetransmission(s, p) == Max(Chain(s, p))

RemoveRetransmittability(s, p) ==
  LET chain == Chain(s, p)
      last == Max(chain)
  IN [s EXCEPT
        !.cryptoCount = IF s.info[last].crypto THEN @ - 1 ELSE @,
        !.info = [q \in DOMAIN s.info |->
          IF q = last THEN [s.info[q] EXCEPT !.frames = {}, !.crypto = FALSE]
          ELSE IF q \in chain THEN [s.info[q] EXCEPT !.next = 0] ELSE s.info[q]]]

(* TransferRetransmissionInfo, with what it leaves in the new packet.  A   *)
(* packet that was queued may find its original gone.                      *)
TransferRetransmissionInfo(s, pkt) ==
  IF pkt.orig < s.least
  THEN [conn |-> s, frames |-> {}, crypto |-> FALSE]
  ELSE LET old == s.info[pkt.orig]
           left == [old EXCEPT !.frames = {}, !.crypto = FALSE,
                               !.unackable = @ \/ ~pkt.linked,
                               !.next = IF pkt.linked THEN pkt.num ELSE @]
       IN [conn |-> RemoveObsoletePackets([s EXCEPT !.info[pkt.orig] = left]),
           frames |-> old.frames, crypto |-> old.crypto]

(* Numbers that were serialized and never sent leave a gap.                *)
AddSentPacket(s, pkt) ==
  LET gap == [s EXCEPT
                !.largest = pkt.num - 1,
                !.info = [p \in 1..pkt.num - 1 |->
                            IF p <= s.largest THEN s.info[p] ELSE NoInfo]]
      new == [conn |-> gap, frames |-> pkt.frames,
              crypto |-> pkt.frames \cap Crypto # {}]
      sent == IF pkt.orig = 0 THEN new ELSE TransferRetransmissionInfo(gap, pkt)
      inFlight == pkt.orig # 0 \/ pkt.frames # {}
  IN [sent.conn EXCEPT
        !.largest = pkt.num,
        !.newest = IF inFlight THEN pkt.num ELSE @,
        !.cryptoCount = IF pkt.orig = 0 /\ sent.crypto THEN @ + 1 ELSE @,
        !.info = Append(@, [frames |-> sent.frames, inFlight |-> inFlight,
                            unackable |-> FALSE, next |-> 0,
                            crypto |-> sent.crypto])]

NotifyStreamFramesAcked(s, p) ==
  [s EXCEPT !.notices =
     [f \in Frame |-> IF f \in s.info[p].frames THEN @[f] + 1 ELSE @[f]]]

-----------------------------------------------------------------------------
(* QuicSentPacketManager and GeneralLossAlgorithm *)

Unmark(s, P) == [s EXCEPT !.pending = @ \ P, !.unlinked = @ \ P]

(* Tail loss probes and retransmission timeouts leave the packet in        *)
(* flight.  A packet that is pending already keeps its kind.               *)
MarkForRetransmission(s, P, kind) ==
  LET t == IF kind \in {"TLP", "RTO"} THEN s ELSE RemoveFromInFlight(s, P)
  IN [t EXCEPT !.pending = @ \cup P,
               !.unlinked = IF kind = "ALL" THEN @ \cup (P \ s.pending) ELSE @]

NeuterUnencryptedPackets(s) ==
  LET out == {p \in Tracked(s) : s.info[p].frames \cap Crypto # {}}
      t == RemoveFromInFlight(Unmark(s, out), out)
      neutered[p \in 0..s.largest] ==
        IF p = 0 THEN t
        ELSE IF p \in out THEN RemoveRetransmittability(neutered[p - 1], p)
        ELSE neutered[p - 1]
  IN neutered[s.largest]

(* Seeded bugs: the frames stay with the newest transmission; the newest   *)
(* transmission stays pending.                                             *)
MarkPacketHandled_KeepsFrames(s, p) ==
  LET newest == GetNewestRetransmission(s, p)
      t == NotifyStreamFramesAcked(Unmark(s, {newest}), newest)
  IN [RemoveFromInFlight(t, {p}) EXCEPT !.info[p].unackable = TRUE]
MarkPacketHandled_StaysPending(s, p) ==
  LET t == NotifyStreamFramesAcked(s, GetNewestRetransmission(s, p))
      u == RemoveRetransmittability(RemoveFromInFlight(t, {p}), p)
  IN [u EXCEPT !.info[p].unackable = TRUE]

MarkPacketHandled(s, p) ==
  LET newest == GetNewestRetransmission(s, p)
      t == NotifyStreamFramesAcked(Unmark(s, {newest}), newest)
      out == IF newest # p /\ s.info[newest].crypto THEN {p, newest} ELSE {p}
      u == RemoveRetransmittability(RemoveFromInFlight(t, out), p)
  IN [u EXCEPT !.info[p].unackable = TRUE]

(* HandleAckForSentPackets: in the order of the packet numbers.            *)
HandleAckForSentPackets(s, acked) ==
  LET hit(t, p) == p \in acked /\ p \in Tracked(s) /\ ~t.info[p].unackable
      handled[p \in 0..s.largest] ==
        IF p = 0 THEN [conn |-> s, flying |-> {}]
        ELSE LET before == handled[p - 1]
                 t == before.conn
             IN IF ~hit(t, p) THEN before
                ELSE IF t.info[p].inFlight
                THEN [conn |-> MarkPacketHandled(t, p),
                      flying |-> before.flying \cup {p}]
                ELSE [conn |-> MarkPacketHandled(
                                 [t EXCEPT !.newlyAcked = p], p),
                      flying |-> before.flying]
      done == handled[s.largest]
  IN IF done.flying = {} THEN done.conn
     ELSE [done.conn EXCEPT !.newlyAcked = Max(done.flying)]

(* Packets up to number `late' were sent so long ago that they count as    *)
(* lost once a later one is acknowledged and nothing else was sent; those  *)
(* up to `slow' were sent a round trip before the one acknowledged.  The   *)
(* first packet that is not late yet sets the loss alarm (`lossAlarm' is   *)
(* its number) and ends the search.                                        *)
Candidates(s) == {p \in InFlight(s) : p <= s.newlyAcked}
Nacked(s, p) == s.newlyAcked - p >= Nacks
Early(s, p) == HasFrames(s, p) /\ s.newest <= s.newlyAcked
Waiting(s, late) ==
  {p \in Candidates(s) : ~Nacked(s, p) /\ Early(s, p) /\ p > late}

DetectLosses(s, late, slow) ==
  LET wait == Waiting(s, late)
      end == IF wait = {} THEN s.largest + 1 ELSE Min(wait)
  IN {p \in Candidates(s) :
        /\ p < end
        /\ Nacked(s, p) \/ Early(s, p) \/ p <= slow}

(* Seeded bug: lost packets leave flight and are not sent again.           *)
InvokeLossDetection_OnlyRemoves(s, late, slow) ==
  [RemoveFromInFlight(s, DetectLosses(s, late, slow)) EXCEPT !.lossAlarm = 0]

InvokeLossDetection(s, late, slow) ==
  LET lost == DetectLosses(s, late, slow)
      again == {p \in lost : HasFrames(s, p)}
      t == RemoveFromInFlight(s, lost \ again)
      wait == Waiting(s, late)
  IN MarkForRetransmission(
       [t EXCEPT !.lossAlarm = IF wait = {} THEN 0 ELSE Min(wait)], again, "LOSS")

(* OnIncomingAck.  The backoff counters are reset when the ack gives a     *)
(* round trip time, that is when its largest packet was of interest.       *)
OnIncomingAck(s, acked, largest, late, slow) ==
  LET rttUpdated == IsUnacked(s, largest)
      handled == HandleAckForSentPackets([s EXCEPT !.observed = largest], acked)
      t == RemoveObsoletePackets(InvokeLossDetection(handled, late, slow))
  IN IF rttUpdated THEN [t EXCEPT !.rto = 0, !.tlp = 0] ELSE t

(* Seeded bug: the packet a timer asked for is not counted as sent.        *)
OnPacketSent_KeepsTimer(s, pkt) == AddSentPacket(Unmark(s, {pkt.orig}), pkt)

OnPacketSent(s, pkt) ==
  AddSentPacket([Unmark(s, {pkt.orig})
                 EXCEPT !.timer = IF @ > 0 THEN @ - 1 ELSE 0], pkt)

GetRetransmissionMode(s) ==
  CASE ~s.confirmed /\ s.cryptoCount # 0 -> "HANDSHAKE"
    [] s.lossAlarm # 0 -> "LOSS"
    [] s.tlp < MaxTlp /\ HasUnackedRetransmittableFrames(s) -> "TLP"
    [] OTHER -> "RTO"

RetransmitCryptoPackets(s) ==
  LET again == {p \in InFlight(s) : HasFrames(s, p) /\ s.info[p].crypto}
  IN [MarkForRetransmission(s, again, "HANDSHAKE")
      EXCEPT !.timer = @ + Cardinality(again)]

(* The oldest packets with frames, in flight or not, are sent again; those *)
(* in flight that have nothing left to send are abandoned.                 *)
RetransmitRtoPackets(s) ==
  LET framed == {p \in Tracked(s) : HasFrames(s, p)}
      again == {p \in framed :
                  Cardinality({q \in framed : q < p}) + s.timer < MaxRtoPackets}
      idle == {p \in InFlight(s) : ~HasFrames(s, p) /\ s.info[p].next = 0}
      t == MarkForRetransmission(RemoveFromInFlight(s, idle), again, "RTO")
      timer == s.timer + Cardinality(again)
  IN [t EXCEPT !.timer = timer, !.rto = IF timer > 0 THEN @ + 1 ELSE @]

(* The mode decides; a tail loss probe first gives the connection a chance *)
(* to write new data.                                                      *)
OnRetransmissionTimeout(s, late, slow) ==
  CASE GetRetransmissionMode(s) = "HANDSHAKE" -> RetransmitCryptoPackets(s)
    [] GetRetransmissionMode(s) = "LOSS" -> InvokeLossDetection(s, late, slow)
    [] GetRetransmissionMode(s) = "TLP" ->
         [s EXCEPT !.tlp = @ + 1, !.timer = 1]
    [] OTHER -> RetransmitRtoPackets(s)

(* The packet to probe with, if a probe is due and there is one.           *)
TailLossProbe(s) ==
  {p \in InFlight(s) : /\ s.timer > 0 /\ HasFrames(s, p)
                       /\ \A q \in InFlight(s) : HasFrames(s, q) => p <= q}

NextPendingRetransmission(s) ==
  LET crypto == {p \in s.pending : s.info[p].crypto}
  IN IF s.cryptoCount # 0 /\ crypto # {} THEN Min(crypto) ELSE Min(s.pending)

CancelRetransmissionsForStream(s, f) ==
  LET t == [s EXCEPT !.info = [p \in DOMAIN s.info |->
                                [s.info[p] EXCEPT !.frames = @ \ {f}]]]
  IN Unmark(t, {p \in s.pending : ~HasFrames(t, p)})

-----------------------------------------------------------------------------
(* QuicConnection: writing *)

SetRetransmissionAlarm(s) ==
  [s EXCEPT !.alarm = s.timer = 0 /\ HasUnackedRetransmittableFrames(s)]

(* TimeUntilSend: a timer's packets go out whatever the congestion window  *)
(* and the pacer say; the pacer lets the first packet through.             *)
WindowOpen(s) == Cardinality(InFlight(s)) < Cwnd
Paced(s) == s.timer = 0 /\ WindowOpen(s) /\ s.burst = 0 /\ InFlight(s) # {}
CanWrite(s) ==
  /\ ~s.blocked /\ s.sendAlarm = "no"
  /\ s.timer > 0 \/ (WindowOpen(s) /\ ~Paced(s))
(* What asking CanWrite in vain leaves behind.                             *)
Refused(s) ==
  IF ~s.blocked /\ s.sendAlarm = "no" /\ Paced(s)
  THEN [s EXCEPT !.sendAlarm = "later"] ELSE s

(* Handshake packets of the first encryption level are dropped once the    *)
(* connection is forward secure.                                           *)
ShouldDiscardPacket(s, pkt) == s.confirmed /\ pkt.content \cap Crypto # {}

(* WritePacket fails when the writer is blocked or blocks.                 *)
WriteFails(s, pkt) ==
  ~ShouldDiscardPacket(s, pkt) /\ (s.blocked \/ s.room = 0)
(* Seeded bug: only new frames set the retransmission alarm.               *)
WritePacket_AlarmForNew(s, pkt) ==
  IF ShouldDiscardPacket(s, pkt) THEN s
  ELSE IF WriteFails(s, pkt) THEN [s EXCEPT !.blocked = TRUE]
  ELSE LET t == OnPacketSent(
                  [s EXCEPT
                     !.room = @ - 1,
                     !.wire = @ \cup {[num |-> pkt.num,
                                       content |-> pkt.content]}], pkt)
       IN IF pkt.frames # {} THEN SetRetransmissionAlarm(t) ELSE t

WritePacket(s, pkt) ==
  IF ShouldDiscardPacket(s, pkt) THEN s
  ELSE IF WriteFails(s, pkt) THEN [s EXCEPT !.blocked = TRUE]
  ELSE LET inFlight == pkt.orig # 0 \/ pkt.frames # {}
           t == OnPacketSent(
                  [s EXCEPT
                     !.room = @ - 1,
                     !.burst = IF @ > 0 /\ inFlight THEN @ - 1 ELSE @,
                     !.wire = @ \cup {[num |-> pkt.num,
                                       content |-> pkt.content]}], pkt)
       IN IF inFlight \/ ~s.alarm THEN SetRetransmissionAlarm(t) ELSE t

SendOrQueuePacket(s, pkt) ==
  LET t == [s EXCEPT !.serial = pkt.num]
  IN IF s.queue # <<>> THEN [t EXCEPT !.queue = Append(@, pkt)]
     ELSE IF WriteFails(t, pkt)
     THEN [t EXCEPT !.blocked = TRUE, !.queue = Append(@, pkt)]
     ELSE WritePacket(t, pkt)

SendFrames(s, F) ==
  SendOrQueuePacket(s, [num |-> s.serial + 1, frames |-> F, orig |-> 0,
                        linked |-> FALSE, content |-> F])

(* QuicPacketGenerator.  What it holds goes into one packet, which the     *)
(* frames F of the streams join: an ack unless the writer is blocked,      *)
(* control frames while CanWrite lets them (SendQueuedFrames).             *)
HasPendingFrames(s) == s.sendAck \/ s.control # {}
SendWithQueued(s, F) ==
  SendFrames([s EXCEPT !.control = {}, !.sendAck = FALSE], s.control \cup F)
FlushAllQueuedFrames(s) ==
  IF HasPendingFrames(s) THEN SendWithQueued(s, {}) ELSE s
(* Flush, when the last ScopedPacketFlusher goes.                          *)
Flush(s) ==
  IF s.control = {} \/ CanWrite(s)
  THEN IF HasPendingFrames(s) /\ ~s.blocked THEN SendWithQueued(s, {}) ELSE s
  ELSE IF s.sendAck /\ ~s.blocked
  THEN SendFrames([Refused(s) EXCEPT !.sendAck = FALSE], {})
  ELSE Refused(s)

WriteQueuedPackets(s) ==
  LET written[n \in 0..Len(s.queue)] ==
        IF n = 0 THEN s
        ELSE LET t == written[n - 1]
             IN IF t.blocked THEN t
                ELSE IF WriteFails(t, Head(t.queue))
                THEN WritePacket(t, Head(t.queue))
                ELSE WritePacket([t EXCEPT !.queue = Tail(@)], Head(t.queue))
  IN written[Len(s.queue)]

(* ReserializeAllFrames: the frames of the pending packet, unchanged, in a *)
(* packet with a new number.                                               *)
ReserializeAllFrames(s, p) ==
  SendOrQueuePacket(s, [num |-> s.serial + 1, frames |-> {}, orig |-> p,
                        linked |-> p \notin s.unlinked,
                        content |-> s.info[p].frames])

WritePendingRetransmissions(s) ==
  LET written[n \in 0..Cardinality(s.pending) + 1] ==
        IF n = 0 THEN s
        ELSE LET t == written[n - 1]
             IN IF t.pending = {} THEN t
                ELSE IF ~CanWrite(t) THEN Refused(t)
                ELSE ReserializeAllFrames(FlushAllQueuedFrames(t),
                                          NextPendingRetransmission(t))
  IN written[Cardinality(s.pending) + 1]

(* The streams write what they have while the connection lets them.        *)
WriteStreams(s) ==
  LET written[n \in 0..Cardinality(s.ready)] ==
        IF n = 0 THEN s
        ELSE LET t == written[n - 1]
             IN IF t.ready = {} \/ t.queue # <<>> THEN t
                ELSE IF ~CanWrite(t) THEN Refused(t)
                ELSE LET f == Min(t.ready)
                     IN SendWithQueued([t EXCEPT !.ready = @ \ {f}], {f})
  IN written[Cardinality(s.ready)]

WriteNewData(s) == IF CanWrite(s) THEN Flush(WriteStreams(s)) ELSE Refused(s)
OnCanWrite(s) ==
  WriteNewData(WritePendingRetransmissions(WriteQueuedPackets(s)))

WriteIfNotBlocked(s) == IF s.blocked THEN s ELSE OnCanWrite(s)

-----------------------------------------------------------------------------
(* The events of the connection.  Roomy leaves numbers for every packet an *)
(* event may send.                                                         *)

Roomy ==
  conn.serial + Cardinality(conn.pending \cup conn.ready \cup conn.control)
    + MaxRtoPackets + 2 <= MaxPacket

With(room, burst) == [conn EXCEPT !.room = room, !.burst = burst]
Done(s) == [s EXCEPT !.room = 0, !.burst = 0]
Room == {0, 1, MaxPacket}
Burst == {0, MaxPacket}

(* Frames are numbered in the order they are handed over.                  *)
IsNext(f, F) == f \in F \ handed /\ \A g \in F \ handed : f <= g

(* A stream writes a frame.                                                *)
Write(f, room, burst) ==
  /\ Roomy /\ IsNext(f, StreamData) /\ conn.confirmed
  /\ handed' = handed \cup {f}
  /\ conn' = Done(Flush(WriteStreams(
                     [With(room, burst) EXCEPT !.ready = @ \cup {f}])))
  /\ UNCHANGED <<peer, givenUp, mishaps>>

(* SendHandshakeMessage: earlier messages are neutered, the new one is     *)
(* serialized whatever the congestion window and the writer say; an ack    *)
(* that is held goes along unless the writer is blocked.                   *)
SendHandshakeMessage(f, room) ==
  /\ Roomy /\ IsNext(f, Crypto) /\ ~conn.confirmed
  /\ handed' = handed \cup {f}
  /\ givenUp' = givenUp \cup (Crypto \cap handed)
  /\ LET s == SetRetransmissionAlarm(NeuterUnencryptedPackets(With(room, 0)))
     IN conn' = Done(IF s.blocked THEN SendFrames(s, {f})
                     ELSE SendWithQueued(s, {f}))
  /\ UNCHANGED <<peer, mishaps>>

(* HANDSHAKE_CONFIRMED, once the peer has what this end had to say.  The   *)
(* generator is flushed at the old encryption level.                       *)
HandshakeConfirmed(room) ==
  /\ Roomy /\ ~conn.confirmed /\ Crypto \subseteq peer.frames
  /\ givenUp' = givenUp \cup Crypto
  /\ conn' = Done(SetRetransmissionAlarm(NeuterUnencryptedPackets(
               [FlushAllQueuedFrames(With(room, 0)) EXCEPT !.confirmed = TRUE])))
  /\ UNCHANGED <<peer, handed, mishaps>>

(* Queued packets with nothing but frames of the stream are erased.        *)
RemoveQueued(s, f) ==
  LET kept[n \in 0..Len(s.queue)] ==
        IF n = 0 THEN <<>>
        ELSE IF s.queue[n].frames = {f} THEN kept[n - 1]
        ELSE Append(kept[n - 1], [s.queue[n] EXCEPT !.frames = @ \ {f}])
  IN [s EXCEPT !.queue = kept[Len(s.queue)]]

(* AddControlFrame, in a flusher of its own.                               *)
AddControlFrame(s, c) == Flush([s EXCEPT !.control = @ \cup {c}])

(* SendRstStream for the stream of frame f; the RST is frame r.  Whether r *)
(* may go out does not depend on what is cancelled.                        *)
SendRstStream(f, r, room, burst) ==
  /\ Roomy /\ conn.confirmed
  /\ f \in (handed \cap StreamData) \ givenUp
  /\ IsNext(r, Control)
  /\ handed' = handed \cup {r}
  /\ givenUp' = givenUp \cup {f}
  /\ LET t == RemoveQueued(CancelRetransmissionsForStream(With(room, burst), f), f)
     IN conn' = Done(AddControlFrame([t EXCEPT !.ready = @ \ {f}], r))
  /\ UNCHANGED <<peer, mishaps>>

(* The application has read: a flow controller sends a WINDOW_UPDATE.      *)
SendWindowUpdate(c, room, burst) ==
  /\ Roomy /\ IsNext(c, Control) /\ conn.confirmed
  /\ handed' = handed \cup {c}
  /\ conn' = Done(AddControlFrame(With(room, burst), c))
  /\ UNCHANGED <<peer, givenUp, mishaps>>

(* The writer has room again: OnBlockedWriterCanWrite.                     *)
Unblocked(room, burst) ==
  Done(OnCanWrite([With(room, burst) EXCEPT !.blocked = FALSE]))
OnBlockedWriterCanWrite(room, burst) ==
  /\ Roomy /\ conn.blocked
  /\ conn' = Unblocked(room, burst)
  /\ UNCHANGED <<peer, handed, givenUp, mishaps>>

OnSendAlarm(s) ==
  LET t == [s EXCEPT !.sendAlarm = "no"]
  IN IF s.blocked THEN t ELSE Flush(OnCanWrite(t))
SendAlarm(room, burst) ==
  /\ Roomy /\ conn.sendAlarm # "no"
  /\ conn' = Done(OnSendAlarm(With(room, burst)))
  /\ UNCHANGED <<peer, handed, givenUp, mishaps>>

(* Nothing is under way that would make the alarm unnecessary.             *)
Quiet == conn.wire = {} /\ peer.told = peer.received
TooEarly ==
  \/ Quiet /\ UNCHANGED mishaps
  \/ ~Quiet /\ mishaps < MaxMishaps /\ mishaps' = mishaps + 1

(* QuicConnection::OnRetransmissionTimeout.  When the loss alarm goes off  *)
(* the packet it was set for is late.  A send alarm that is due goes off   *)
(* in the same pass of the loop over its timers.                           *)
MaybeRetransmitTailLossProbe(s) ==
  IF TailLossProbe(s) = {} THEN s
  ELSE WriteIfNotBlocked(MarkForRetransmission(s, TailLossProbe(s), "TLP"))
HasQueuedData(s) == s.queue # <<>> \/ HasPendingFrames(s)
EnsureAlarm(s) ==
  IF ~HasQueuedData(s) /\ ~s.alarm THEN SetRetransmissionAlarm(s) ELSE s
DueSendAlarm(s) == IF s.sendAlarm = "now" THEN OnSendAlarm(s) ELSE s
TimedOut(room, burst, late, slow) ==
  Done(DueSendAlarm(EnsureAlarm(MaybeRetransmitTailLossProbe(
    WriteIfNotBlocked(OnRetransmissionTimeout(
      [With(room, burst) EXCEPT !.alarm = FALSE], late, slow))))))
RetransmissionAlarm(room, burst, late, slow) ==
  /\ Roomy /\ conn.alarm /\ TooEarly /\ late >= conn.lossAlarm
  /\ conn' = TimedOut(room, burst, late, slow)
  /\ UNCHANGED <<peer, handed, givenUp>>

(* ENCRYPTION_REESTABLISHED or a version negotiation: everything is sent   *)
(* again, and what was sent before cannot be acknowledged.                 *)
RetransmitUnackedPackets(room, burst) ==
  /\ Roomy /\ ~conn.confirmed /\ mishaps < MaxMishaps
  /\ \E p \in Tracked(conn) : HasFrames(conn, p)
  /\ mishaps' = mishaps + 1
  /\ LET all == {p \in Tracked(conn) : HasFrames(conn, p)}
     IN conn' = Done(WriteIfNotBlocked(
                       MarkForRetransmission(With(room, burst), all, "ALL")))
  /\ UNCHANGED <<peer, handed, givenUp>>

(* The client's ping alarm: SendPing, past the congestion window, if the   *)
(* retransmission alarm is not set.  Only the pings of a connection that   *)
(* waits for something are modelled.                                       *)
PingDue(f) ==
  /\ Roomy /\ IsNext(f, Ping) /\ conn.confirmed
  /\ Quiet /\ ~conn.alarm /\ ~conn.blocked /\ conn.sendAlarm = "no"
  /\ conn.ready \cup conn.control \cup conn.pending \cup InFlight(conn) # {}
PingAlarm(f, room) ==
  /\ PingDue(f)
  /\ handed' = handed \cup {f}
  /\ LET s == With(room, 0)
     IN conn' = Done(SendWithQueued(IF CanWrite(s) THEN s ELSE Refused(s), {f}))
  /\ UNCHANGED <<peer, givenUp, mishaps>>

(* An ack of the peer's data, in a packet of its own: the ack alarm.  A    *)
(* blocked writer leaves it in the generator.  It takes the whole bound of *)
(* a behaviour.                                                            *)
AckAlarm(room, burst) ==
  /\ Roomy /\ mishaps = 0
  /\ mishaps' = MaxMishaps
  /\ conn' = Done(Flush([With(room, burst) EXCEPT !.sendAck = TRUE]))
  /\ UNCHANGED <<peer, handed, givenUp>>

(* OnAckFrame, and MaybeSendInResponseToPacket.  The ack arrives with what *)
(* the peer has received now: one that is on its way longer arrives as if  *)
(* the later packets were, and one that is overtaken is ignored.           *)
OnAckFrame(late, slow) ==
  /\ peer.told # peer.received
  /\ LET acked == {p \in peer.received : p >= peer.least}
         t == OnIncomingAck([conn EXCEPT !.sendAlarm = "no"],
                            acked, Max(peer.received), late, slow)
     IN conn' = [SetRetransmissionAlarm(t) EXCEPT !.sendAlarm = "now"]
  /\ peer' = [peer EXCEPT !.told = peer.received]
  /\ UNCHANGED <<handed, givenUp, mishaps>>

-----------------------------------------------------------------------------
(* The network and the peer (QuicReceivedPacketManager).                   *)

Receive(pkt) ==
  /\ pkt \in conn.wire /\ pkt.num >= peer.least
  /\ conn' = [conn EXCEPT !.wire = @ \ {pkt}]
  /\ peer' = [peer EXCEPT !.received = @ \cup {pkt.num},
                          !.frames = @ \cup pkt.content]
  /\ UNCHANGED <<handed, givenUp, mishaps>>

(* A packet the peer no longer waits for is dropped: a STOP_WAITING frame  *)
(* was there before it (DontWaitForPacketsBefore).  peer.least is the      *)
(* least number that frame can have carried; what it says of packets that  *)
(* have arrived is of no consequence, the sender has forgotten those.      *)
StopWaiting(pkt) ==
  /\ pkt \in conn.wire /\ pkt.num < conn.least
  /\ conn' = [conn EXCEPT !.wire = @ \ {pkt}]
  /\ peer' = [peer EXCEPT !.least = Max({@, pkt.num + 1})]
  /\ UNCHANGED <<handed, givenUp, mishaps>>

Lose(pkt) ==
  /\ pkt \in conn.wire /\ mishaps < MaxMishaps
  /\ conn' = [conn EXCEPT !.wire = @ \ {pkt}]
  /\ mishaps' = mishaps + 1
  /\ UNCHANGED <<peer, handed, givenUp>>

(* The packets up to which time may have run out: none, or one in flight,  *)
(* or the one the loss alarm was set for.                                  *)
Since == {0, conn.lossAlarm} \cup InFlight(conn)

Next ==
  \/ \E f \in StreamData, room \in Room, burst \in Burst : Write(f, room, burst)
  \/ \E f \in Crypto, room \in Room : SendHandshakeMessage(f, room)
  \/ \E room \in Room : HandshakeConfirmed(room)
  \/ \E f \in StreamData, r \in Control, room \in Room, burst \in Burst :
       SendRstStream(f, r, room, burst)
  \/ \E c \in Control, room \in Room, burst \in Burst :
       SendWindowUpdate(c, room, burst)
  \/ \E room \in Room, burst \in Burst : OnBlockedWriterCanWrite(room, burst)
  \/ \E room \in Room, burst \in Burst : SendAlarm(room, burst)
  \/ \E room \in Room, burst \in Burst, late \in Since,
        slow \in Since : RetransmissionAlarm(room, burst, late, slow)
  \/ \E room \in Room, burst \in Burst : RetransmitUnackedPackets(room, burst)
  \/ \E f \in Ping, room \in Room : PingAlarm(f, room)
  \/ \E room \in Room, burst \in Burst : AckAlarm(room, burst)
  \/ \E late \in Since, slow \in Since : OnAckFrame(late, slow)
  \/ \E pkt \in conn.wire : Receive(pkt) \/ StopWaiting(pkt) \/ Lose(pkt)

Spec == Init /\ [][Next]_vars

(* The loop does not stop while something is due that changes the state.   *)
(* A blocked writer is given its turn with room for all it has (Dialer and *)
(* Listener wake a writer when every request is back), the pacer holds a   *)
(* packet only for a while, an alarm that is set goes off, packets arrive, *)
(* and the client pings.                                                   *)
SomethingDue ==
  \/ Roomy /\ conn.blocked /\ Unblocked(MaxPacket, MaxPacket) # conn
  \/ Roomy /\ conn.sendAlarm # "no"
       /\ Done(OnSendAlarm(With(MaxPacket, MaxPacket))) # conn
  \/ \E late \in Since, slow \in Since :
       /\ Roomy /\ conn.alarm /\ Quiet /\ late >= conn.lossAlarm
       /\ TimedOut(MaxPacket, MaxPacket, late, slow) # conn
  \/ peer.told # peer.received
  \/ \E f \in Ping : PingDue(f)
  \/ conn.wire # {}

FairSpec == Spec /\ ([]<>~SomethingDue \/ []<><<TRUE>>_vars)

-----------------------------------------------------------------------------
(* Properties *)

(* The types of the state; MapSound includes it.                           *)
TypeOK ==
  /\ conn \in Connection /\ Len(conn.info) = conn.largest
  /\ peer \in [received : SUBSET Num, told : SUBSET Num,
               least : Nat, frames : SUBSET Frame]
  /\ handed \subseteq Frame /\ givenUp \subseteq Frame
  /\ mishaps \in 0..MaxMishaps

Channel == INSTANCE FrameChannel WITH
  delivered <- peer.frames, notices <- conn.notices

(* Loss recovery keeps the promise of FrameChannel: what the peer receives *)
(* was handed over, and a stream hears of each of its frames once, after   *)
(* the frame arrived, although every transmission of it may be             *)
(* acknowledged (MarkPacketHandled, RemoveRetransmittability).             *)
ImplementsChannel == Channel!Spec

Unfinished == {f \in handed \ givenUp : conn.notices[f] = 0}
Holders(f) ==
  {p \in Tracked(conn) : f \in conn.info[p].frames}

(* A frame nobody was told of is in one place: with its stream, held by    *)
(* the packet generator, in a queued new packet, or in one transmission,   *)
(* which is in flight or pending (TransferRetransmissionInfo moves frames  *)
(* between transmissions, InvokeLossDetection and the timers decide which  *)
(* are sent again).                                                        *)
NothingForgotten ==
  \A f \in Unfinished :
    LET queued == {i \in DOMAIN conn.queue : f \in conn.queue[i].frames}
    IN /\ Cardinality(Holders(f)) + Cardinality(queued)
            + (IF f \in conn.ready THEN 1 ELSE 0)
            + (IF f \in conn.control THEN 1 ELSE 0) = 1
       /\ \A p \in Holders(f) : conn.info[p].inFlight \/ p \in conn.pending

(* The numbers the sent packet manager keeps are those of packets still in *)
(* the deque, which it indexes without a check: a pending retransmission   *)
(* has frames to send, a link leads to a packet, and queued packets come   *)
(* after everything sent, so that none is "written out of order".          *)
MapSound ==
  /\ TypeOK
  /\ \A p \in conn.pending : p \in Tracked(conn) /\ HasFrames(conn, p)
  /\ \A p \in Tracked(conn) : conn.info[p].next # 0 =>
       conn.info[p].next > p /\ conn.info[p].next \in Tracked(conn)
  /\ conn.cryptoCount =
       Cardinality({p \in Tracked(conn) : conn.info[p].crypto})
  /\ \A i \in DOMAIN conn.queue :
       /\ conn.queue[i].num > conn.largest
       /\ \A j \in 1..i - 1 : conn.queue[j].num < conn.queue[i].num

(* While a frame is in flight the retransmission alarm is set, or packets  *)
(* a timer asked for are counted as coming, or HasQueuedData has something *)
(* to send: a packet queued while the writer was blocked, or a control     *)
(* frame or an ack the generator holds, for which OnRetransmissionTimeout  *)
(* leaves the alarm unset (GetRetransmissionTime, HasQueuedData).  An      *)
(* alarm that goes off finds no packets counted, as it asserts.            *)
AlarmKept ==
  /\ HasUnackedRetransmittableFrames(conn) =>
       conn.alarm \/ conn.timer > 0 \/ HasQueuedData(conn)
  /\ conn.alarm => conn.timer = 0

(* "Ensure the retransmission alarm is always set if there are unacked     *)
(* packets and nothing waiting to be sent." (the comment in                *)
(* QuicConnection::OnRetransmissionTimeout)                                *)
AlarmSetIfNothingToSend ==
  /\ HasUnackedRetransmittableFrames(conn)
  /\ ~HasQueuedData(conn) /\ conn.pending = {} /\ conn.ready = {}
  /\ conn.sendAlarm = "no" /\ ~conn.blocked
  => conn.alarm

(* Every frame handed over is acknowledged or given up, with losses,       *)
(* spurious timeouts and a writer that blocks.                             *)
Reliable == Unfinished # {} ~> Unfinished = {}

=============================================================================
