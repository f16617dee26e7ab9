------------------------------ MODULE Handshake ------------------------------
(***************************************************************************)
(* The QUIC crypto handshake of one PUIC connection, from CryptoConnect to *)
(* the preset stream of both ends and to the close of both.                *)
(*                                                                         *)
(* An end is a QuicConnection with its framer's two decrypters, its queue  *)
(* of packets it cannot decrypt yet, the handshaker on its crypto stream,  *)
(* the PUIC session and the library's connection object above it.  The     *)
(* methods of the code are operators from an end to an end; an action is a *)
(* packet's arrival, a timeout or a call of the application, with          *)
(* everything it calls.                                                    *)
(*                                                                         *)
(* The network holds every packet ever sent and may deliver any of them,   *)
(* in any order, again and again or never.  A packet is its encryption     *)
(* level, the number of the client hello its keys come from, and the one   *)
(* frame that matters: a handshake message with its place in the crypto    *)
(* stream, a piece of application data, an ack or a connection close.      *)
(* What loss recovery (see SentPackets) still has to get across is owed.   *)
(***************************************************************************)
EXTENDS Naturals, Sequences

CONSTANTS
    kMaxClientHellos,        \* QuicCryptoClientStream::kMaxClientHellos
    MaxUndecryptable         \* max_undecryptable_packets_

ASSUME LimitsAssumption ==
    kMaxClientHellos \in Nat /\ MaxUndecryptable \in Nat

VARIABLES
    client,                  \* the end that dials
    server                   \* the end that accepts

vars == <<client, server>>

Level == {"NONE", "INITIAL", "FORWARD_SECURE"}
Hello == {"inchoate CHLO", "CHLO", "REJ", "SHLO"}
FrameType == Hello \cup {"DATA", "ACK", "CLOSE"}

(* A decrypter is the level and the hello of its keys.                     *)
NoDecrypter == [level |-> "none set", key |-> 0]
NullDecrypter == [level |-> "NONE", key |-> 0]

Readable(d, p) == d # NoDecrypter /\ d = [level |-> p.level, key |-> p.key]
CanDecrypt(e, p) == Readable(e.dec, p) \/ Readable(e.alt, p)

-----------------------------------------------------------------------------
(* Sending.                                                                *)

(* Unencrypted packets have no keys.                                       *)
Packet(e, type, n) ==
    [level |-> e.level, key |-> IF e.level = "NONE" THEN 0 ELSE e.key,
     type |-> type, n |-> n]

(* Whatever was sent in the clear is not retransmitted any more.           *)
NeuterUnencryptedPackets(e) ==
    [e EXCEPT !.owed = {p \in @ : p.level # "NONE"}]

SendHandshakeMessage(e, type) ==
    LET p == Packet(e, type, e.written)
        f == NeuterUnencryptedPackets(e)
    IN  [f EXCEPT !.sent = @ \cup {p}, !.owed = @ \cup {p}, !.written = @ + 1]

(* Seeded bug: the client's connection object asks for a finished          *)
(* handshake too.                                                          *)
OnConnectionClosed_OnlyHandshaked(e) ==
    IF e.app = "unaware" THEN e ELSE [e EXCEPT !.app = "told of the end"]

(* The session ends; so does the library's connection object above it, and *)
(* the application hears of it, except that a server's connection that     *)
(* never finished its handshake stays behind, unknown to the application.  *)
OnConnectionClosed(e) ==
    IF e.isServer /\ e.app = "unaware" THEN e ELSE [e EXCEPT !.app = "told of the end"]

TearDownLocalConnectionState(e, why) ==
    IF ~e.connected THEN e
    ELSE OnConnectionClosed(
            [e EXCEPT !.connected = FALSE, !.why = why, !.owed = {}])

CloseConnection(e, why) ==
    IF ~e.connected THEN e
    ELSE TearDownLocalConnectionState(
            [e EXCEPT !.sent = @ \cup {Packet(e, "CLOSE", 0)}], why)

-----------------------------------------------------------------------------
(* HANDSHAKE_CONFIRMED: the preset stream comes into being at both ends    *)
(* under the same id, and the application gets its connection.             *)

CreateDataStream(e) == [e EXCEPT !.preset = e.established]

OnCryptoHandshakeConfirmed(e) ==
    LET f == CreateDataStream(NeuterUnencryptedPackets(e))
    IN  [f EXCEPT !.app = "connected"]

-----------------------------------------------------------------------------
(* The client's handshaker.  The proof is verified and the channel id is   *)
(* not required, both on the spot, so that a rejection leads straight to   *)
(* the next hello.                                                         *)

(* Seeded bug: the initial keys replace the null decrypter at once.        *)
DoSendCHLO_NoWayBack(c) ==
    LET next == [c EXCEPT !.level = "NONE", !.established = FALSE, !.hellos = @ + 1]
        full == SendHandshakeMessage([next EXCEPT !.state = "RECV_SHLO"], "CHLO")
    IN  IF c.hellos > kMaxClientHellos
        THEN CloseConnection([c EXCEPT !.state = "IDLE"], "too many rejects")
        ELSE IF ~next.cached
        THEN SendHandshakeMessage([next EXCEPT !.state = "RECV_REJ"],
                                  "inchoate CHLO")
        ELSE [full EXCEPT !.dec = [level |-> "INITIAL", key |-> full.hellos],
                          !.key = full.hellos,
                          !.level = "INITIAL",
                          !.established = TRUE]

DoSendCHLO(c) ==
    LET plain == [c EXCEPT !.level = "NONE", !.established = FALSE]
        next == [plain EXCEPT !.hellos = @ + 1]
        full == SendHandshakeMessage([next EXCEPT !.state = "RECV_SHLO"], "CHLO")
    IN  IF plain.hellos > kMaxClientHellos
        THEN CloseConnection([plain EXCEPT !.state = "IDLE"], "too many rejects")
        ELSE IF ~next.cached
        THEN SendHandshakeMessage([next EXCEPT !.state = "RECV_REJ"],
                                  "inchoate CHLO")
        ELSE [full EXCEPT !.alt = [level |-> "INITIAL", key |-> full.hellos],
                          !.latch = TRUE,
                          !.key = full.hellos,
                          !.level = "INITIAL",
                          !.established = TRUE]

DoReceiveREJ(c, p) ==
    IF p.type # "REJ"
    THEN CloseConnection([c EXCEPT !.state = "NONE"], "expected REJ")
    ELSE DoSendCHLO([NeuterUnencryptedPackets(c) EXCEPT !.cached = TRUE])

DoReceiveSHLO(c, p) ==
    LET d == [c EXCEPT !.state = "NONE"]
    IN  CASE p.type = "REJ" /\ d.alt = NoDecrypter ->
                 CloseConnection(d, "encrypted REJ")
          [] p.type = "REJ" /\ d.alt # NoDecrypter -> DoReceiveREJ(d, p)
          [] p.type \notin {"REJ", "SHLO"} ->
                 CloseConnection(d, "expected SHLO or REJ")
          [] p.type = "SHLO" /\ d.alt # NoDecrypter ->
                 CloseConnection(d, "unencrypted SHLO")
          [] OTHER ->
                 OnCryptoHandshakeConfirmed(
                     [d EXCEPT !.alt = [level |-> "FORWARD_SECURE", key |-> d.key],
                               !.latch = FALSE,
                               !.level = "FORWARD_SECURE",
                               !.confirmed = TRUE])

ClientOnHandshakeMessage(c, p) ==
    IF c.confirmed THEN CloseConnection(c, "message after the handshake")
    ELSE CASE c.state = "RECV_REJ"  -> DoReceiveREJ(c, p)
           [] c.state = "RECV_SHLO" -> DoReceiveSHLO(c, p)
           [] OTHER -> CloseConnection(c, "handshake in idle state")

-----------------------------------------------------------------------------
(* The server's handshaker.  A hello is validated and answered within the  *)
(* call; a full one may still be refused (a server config, an address      *)
(* token or a nonce the server does not know).                             *)

(* Seeded bug: the server hello is sent before the keys are switched.      *)
AcceptClientHello_Plain(s, p) ==
    LET answered == SendHandshakeMessage(s, "SHLO")
    IN  OnCryptoHandshakeConfirmed(
            [answered EXCEPT !.key = p.n, !.level = "FORWARD_SECURE",
                             !.dec = [level |-> "INITIAL", key |-> p.n],
                             !.alt = [level |-> "FORWARD_SECURE", key |-> p.n],
                             !.latch = FALSE,
                             !.established = TRUE,
                             !.confirmed = TRUE])

(* The server hello goes out under the initial keys, everything after it   *)
(* under the forward-secure ones.                                          *)
AcceptClientHello(s, p) ==
    LET initial == [s EXCEPT !.key = p.n, !.level = "INITIAL",
                             !.dec = [level |-> "INITIAL", key |-> p.n]]
        answered == SendHandshakeMessage(initial, "SHLO")
    IN  OnCryptoHandshakeConfirmed(
            [answered EXCEPT !.level = "FORWARD_SECURE",
                             !.alt = [level |-> "FORWARD_SECURE", key |-> p.n],
                             !.latch = FALSE,
                             !.established = TRUE,
                             !.confirmed = TRUE])

(* Seeded bug: a full hello that is refused gets no answer.                *)
ServerOnHandshakeMessage_Mute(s, p, accept) ==
    IF s.confirmed THEN CloseConnection(s, "message after the handshake")
    ELSE IF p.type \notin {"CHLO", "inchoate CHLO"}
    THEN CloseConnection(s, "not a CHLO")
    ELSE IF p.type = "CHLO" THEN IF accept THEN AcceptClientHello(s, p) ELSE s
    ELSE SendHandshakeMessage(s, "REJ")

ServerOnHandshakeMessage(s, p, accept) ==
    IF s.confirmed THEN CloseConnection(s, "message after the handshake")
    ELSE IF p.type \notin {"CHLO", "inchoate CHLO"}
    THEN CloseConnection(s, "not a CHLO")
    ELSE IF p.type = "CHLO" /\ accept THEN AcceptClientHello(s, p)
    ELSE SendHandshakeMessage(s, "REJ")

-----------------------------------------------------------------------------
(* Receiving.                                                              *)

(* The decrypter that reads the packet comes first from now on; one that   *)
(* latches leaves the other behind.                                        *)
DecryptPayload(e, p) ==
    IF Readable(e.dec, p) THEN e
    ELSE [e EXCEPT !.dec = e.alt,
                   !.alt = IF e.latch THEN NoDecrypter ELSE e.dec]

(* Data in the clear, or for a stream this end has not opened yet, is an   *)
(* error; a server opens the stream that the peer's data asks for.         *)
OnStreamFrame(e, p) ==
    LET f == IF e.isServer /\ ~e.preset THEN CreateDataStream(e) ELSE e
    IN  IF p.level = "NONE" THEN CloseConnection(e, "unencrypted stream data")
        ELSE IF ~e.isServer /\ ~e.preset
        THEN CloseConnection(e, "data for nonexistent stream")
        ELSE [f EXCEPT !.got = f.preset]

(* The crypto stream hands out each message once.  A message is never      *)
(* ahead of the one expected: every hello answers the message before it.   *)
OnCryptoFrame(e, p, accept) ==
    LET f == [e EXCEPT !.expected = @ + 1]
    IN  IF p.n # e.expected THEN e
        ELSE IF e.isServer THEN ServerOnHandshakeMessage(f, p, accept)
        ELSE ClientOnHandshakeMessage(f, p)

ProcessPacket(e, p, accept) ==
    LET f == DecryptPayload(e, p)
    IN  CASE p.type \in Hello -> OnCryptoFrame(f, p, accept)
          [] p.type = "DATA"  -> OnStreamFrame(f, p)
          [] p.type = "ACK"   -> f
          [] p.type = "CLOSE" -> TearDownLocalConnectionState(f, "peer")

(* From the front, up to the first packet that still cannot be read.  Once *)
(* the keys are final the rest is dropped.                                 *)
MaybeProcessUndecryptablePackets(e) ==
    LET n == Len(e.undecryptable)
        after[k \in 0 .. n] ==
            IF k = 0 THEN [end |-> e, stop |-> 0]
            ELSE LET prev == after[k - 1]
                     p == e.undecryptable[k]
                 IN  IF prev.stop = k - 1 /\ prev.end.connected
                        /\ CanDecrypt(prev.end, p)
                     THEN [end |-> ProcessPacket(prev.end, p, FALSE), stop |-> k]
                     ELSE prev
        f == after[n].end
    IN  IF e.level = "NONE" THEN e
        ELSE [f EXCEPT !.undecryptable =
                           IF f.level = "FORWARD_SECURE" THEN <<>>
                           ELSE SubSeq(@, after[n].stop + 1, n)]

QueueUndecryptablePacket(e, p) ==
    IF e.level # "FORWARD_SECURE" /\ Len(e.undecryptable) < MaxUndecryptable
    THEN [e EXCEPT !.undecryptable = Append(@, p)]
    ELSE e

ProcessUdpPacket(e, p, accept) ==
    IF ~e.connected THEN e
    ELSE IF CanDecrypt(e, p)
    THEN MaybeProcessUndecryptablePackets(ProcessPacket(e, p, accept))
    ELSE QueueUndecryptablePacket(e, p)

-----------------------------------------------------------------------------
(* The ends.                                                               *)

NewEnd(isServer, cached) ==
    [isServer |-> isServer, connected |-> TRUE, why |-> "open",
     level |-> "NONE", key |-> 0,
     dec |-> NullDecrypter, alt |-> NoDecrypter, latch |-> FALSE,
     undecryptable |-> <<>>,
     state |-> IF isServer THEN "NONE" ELSE "IDLE",
     hellos |-> 0, cached |-> cached,
     written |-> 1, expected |-> 1,
     established |-> FALSE, confirmed |-> FALSE,
     preset |-> FALSE, app |-> "unaware", wrote |-> FALSE, got |-> FALSE,
     sent |-> {}, owed |-> {}]

(* The dialer's crypto config may know the server from an earlier          *)
(* connection, and the first hello is sent before Dial returns.            *)
CryptoConnect(cached) == DoSendCHLO(NewEnd(FALSE, cached))

Init ==
    /\ client \in {CryptoConnect(cached) : cached \in BOOLEAN}
    /\ server = NewEnd(TRUE, FALSE)

-----------------------------------------------------------------------------
(* Actions.                                                                *)

(* The dispatcher creates the server's end for the first client hello;     *)
(* what arrives before it is the dispatcher's business (see Dispatcher).   *)
Accepted == server.expected > 1

(* A packet reaches the client; a packet reaches the server, which accepts *)
(* or refuses a full hello.                                                *)
ClientReceives(p) ==
    /\ client' = ProcessUdpPacket(client, p, FALSE)
    /\ UNCHANGED server

ServerReceives(p, accept) ==
    /\ Accepted \/ p.type \in Hello
    /\ server' = ProcessUdpPacket(server, p, accept)
    /\ UNCHANGED client

(* An end acknowledges something, at the level it sends at.                *)
SendAck(e) == [e EXCEPT !.sent = @ \cup {Packet(e, "ACK", 0)}]

(* The application writes to the preset stream it was given.               *)
WriteData(e) ==
    LET p == Packet(e, "DATA", 0)
    IN  [e EXCEPT !.wrote = TRUE, !.sent = @ \cup {p}, !.owed = @ \cup {p}]

(* The timeout alarm: nothing was heard for long, or the handshake takes   *)
(* too long.                                                               *)
CheckForTimeout(e) == CloseConnection(e, "timeout")

(* The application closes the connection it was given.                     *)
Close(e) == CloseConnection(e, "application")

ClientAcks ==
    /\ client.connected
    /\ client' = SendAck(client) /\ UNCHANGED server
ServerAcks ==
    /\ server.connected /\ Accepted
    /\ server' = SendAck(server) /\ UNCHANGED client

ClientWrites ==
    /\ client.app = "connected" /\ ~client.wrote
    /\ client' = WriteData(client) /\ UNCHANGED server
ServerWrites ==
    /\ server.app = "connected" /\ ~server.wrote
    /\ server' = WriteData(server) /\ UNCHANGED client

ClientTimesOut ==
    /\ client.connected
    /\ client' = CheckForTimeout(client) /\ UNCHANGED server
ServerTimesOut ==
    /\ server.connected /\ Accepted
    /\ server' = CheckForTimeout(server) /\ UNCHANGED client

ClientCloses ==
    /\ client.app = "connected"
    /\ client' = Close(client) /\ UNCHANGED server
ServerCloses ==
    /\ server.app = "connected"
    /\ server' = Close(server) /\ UNCHANGED client

Next ==
    \/ \E p \in server.sent : ClientReceives(p)
    \/ \E p \in client.sent, accept \in BOOLEAN : ServerReceives(p, accept)
    \/ ClientAcks \/ ServerAcks
    \/ ClientWrites \/ ServerWrites
    \/ ClientTimesOut \/ ServerTimesOut
    \/ ClientCloses \/ ServerCloses

Spec == Init /\ [][Next]_vars

(* Loss recovery repeats an owed packet until the peer has it, and a peer  *)
(* that can read it takes it in.                                           *)
Awaits(e, p) ==
    /\ e.connected /\ CanDecrypt(e, p)
    /\ IF p.type = "DATA" THEN ~e.got ELSE p.n = e.expected

OwedArrives ==
    \/ \E p \in server.owed : Awaits(client, p) /\ ClientReceives(p)
    \/ \E p \in client.owed, accept \in BOOLEAN :
           Awaits(server, p) /\ ServerReceives(p, accept)
OwedDue ==
    \/ \E p \in server.owed : Awaits(client, p)
    \/ \E p \in client.owed : Awaits(server, p)

(* The timeout alarm of an end whose peer is gone: nothing arrives any     *)
(* more, and what the end sends by itself does not push the deadline out.  *)
LonelyTimeout ==
    \/ ~server.connected /\ ClientTimesOut
    \/ ~client.connected /\ ServerTimesOut
Lonely ==
    \/ ~server.connected /\ client.connected
    \/ ~client.connected /\ server.connected /\ Accepted

Fairness ==
    /\ []<>~OwedDue \/ []<><<OwedArrives>>_vars
    /\ []<>~Lonely \/ []<><<LonelyTimeout>>_vars

FairSpec == Spec /\ Fairness

-----------------------------------------------------------------------------
(* Properties.                                                             *)

IsPacket(p) ==
    /\ p.level \in Level /\ p.key \in 0 .. kMaxClientHellos + 1
    /\ p.type \in FrameType /\ p.n \in 0 .. kMaxClientHellos + 2

(* The types of the two ends.  The preset stream exists exactly when the   *)
(* handshake is confirmed, and the application has a connection exactly    *)
(* while it is confirmed and open.  NoProtocolError includes it.           *)
TypeOK ==
    \A e \in {client, server} :
        /\ e.level \in Level
        /\ \A p \in e.sent : IsPacket(p)
        /\ e.owed \subseteq e.sent
        /\ Len(e.undecryptable) <= MaxUndecryptable
        /\ e.hellos \in 0 .. kMaxClientHellos + 1
        /\ e.expected \in 1 .. kMaxClientHellos + 2
        /\ e.preset = e.confirmed
        /\ e.app = "connected" <=> (e.connected /\ e.confirmed)

(* Two correct ends never end a connection over the protocol itself,       *)
(* whatever is lost, repeated or reordered: no hello meets a handshaker    *)
(* that does not expect it or comes at the wrong level, and no data        *)
(* reaches a session before it has opened the preset stream                *)
(* (PuicSessionBase::OnCryptoHandshakeEvent opens it on both sides without *)
(* telling the peer).                                                      *)
NoProtocolError ==
    /\ TypeOK
    /\ \A e \in {client, server} :
           e.why \in {"open", "peer", "timeout", "application", "too many rejects"}

OwedTo(e) == IF e.isServer THEN client.owed ELSE server.owed
Has(e, p) == IF p.type = "DATA" THEN e.got ELSE p.n < e.expected

(* Nothing is sent that cannot be read: a packet an end keeps repeating is *)
(* one the peer has keys for, or gets them from a hello that is itself on  *)
(* its way and readable.  The client drops no decrypter that a late        *)
(* rejection still needs, the server's hello goes out under keys the       *)
(* client already has, and neither neuters a hello the other still needs.  *)
NobodyStranded ==
    /\ \A e \in {client, server} : e.connected =>
           \A p \in OwedTo(e) :
              \/ Has(e, p) \/ CanDecrypt(e, p)
              \/ \E h \in OwedTo(e) : h.type = "SHLO" /\ Awaits(e, h)
    /\ client.connected /\ server.connected /\ ~(client.confirmed /\ server.confirmed)
          => \E p \in client.owed \cup server.owed : p.type \in Hello

(* The handshake comes to an end: both ends have confirmed it and opened   *)
(* the preset stream, and what their applications wrote has arrived, or    *)
(* the connection is closed at one end (a timeout, the application, more   *)
(* than kMaxClientHellos rejections).                                      *)
HandshakeCompletes ==
    <>[](\/ ~client.connected \/ ~server.connected
         \/ /\ client.preset /\ server.preset
            /\ client.wrote => server.got
            /\ server.wrote => client.got)

(* Neither end outlives the other: when one has closed, the other closes   *)
(* too, by the close packet or, if that is lost or cannot be read, by its  *)
(* own timeout; and an application that was given the connection is told.  *)
ClosedTogether ==
    [](~client.connected \/ ~server.connected
        => <>(/\ ~client.connected /\ (~server.connected \/ ~Accepted)
              /\ client.app = "told of the end"
              /\ server.app \in {"unaware", "told of the end"}))
=============================================================================
