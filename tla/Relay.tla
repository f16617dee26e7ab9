------------------------------- MODULE Relay --------------------------------
(***************************************************************************)
(* What the agent and the proxy have in common: a TCP connection           *)
(* (AgentConn in puicagent/src/agent_server.cc, TCPConn in                 *)
(* puicproxy/src/puic_proxy.cc) and a PUIC connection, tied together by a  *)
(* ProxyJob that copies bytes both ways and passes on the two half-closes. *)
(* The two programs carry two copies of this code that differ in how a job *)
(* starts; AgentRelay and ProxyRelay add that.  The definitions here are   *)
(* taken from the agent's copy.                                            *)
(*                                                                         *)
(* An action is one libuv callback or one callback of the PUIC session,    *)
(* with everything it calls.  The methods of the TCP connection are        *)
(* operators from the object before the call to the object after it.  A    *)
(* call into PUIC may find the connection broken; then OnDisconnected, and *)
(* with it clean(), runs before the call returns.                          *)
(*                                                                         *)
(* Bytes are counted; the bytes going down (PUIC to TCP) are numbered, so  *)
(* that a lost, repeated or reordered one shows.                           *)
(***************************************************************************)
EXTENDS Integers, Sequences, FiniteSetsExt

CONSTANTS
  Job,          \* relayed connections, each with its ProxyJob
  Lower,        \* PUICCONN_WRITEBUF_LOWER
  Upper,        \* PUICCONN_WRITEBUF_UPPER
  ReadSize,     \* TCPCONN_READBUF_SIZE
  RegionBytes,  \* what the (at most 4) regions of one uv_write hold
  UpBytes,      \* bound: bytes a TCP peer sends
  DownBytes     \* bound: bytes the PUIC peer sends on a stream

ASSUME RelayAssumption ==
  /\ Lower \in Nat /\ Upper \in Nat /\ Lower < Upper
  /\ ReadSize \in Nat \ {0} /\ RegionBytes \in Nat \ {0}
  /\ UpBytes \in Nat /\ DownBytes \in Nat

VARIABLES
  serving,  \* between ProxyManager::Start and Stop
  job,      \* job[j]: "none", "running", "toclean" (in m_cleanJobs), "deleted"
  tcp,      \* tcp[j]: the TCP connection object and its libuv handle
  puic,     \* puic[j]: the PUIC connection and its preset stream
  peer      \* peer[j]: the program at the other end of the TCP connection

vars == <<serving, job, tcp, puic, peer>>

(* m_closed is the job's wish to be rid of the object; uv is the state of  *)
(* the handle: "closing" after uv_close(), "closed" after its callback     *)
(* (m_uvclosed).  The write request in flight covers `len' bytes of the    *)
(* stream's buffer, behind byte `base'; the last `left' are not written.   *)
(* The proxy connects its handle itself: until then it is `connecting',    *)
(* with a PROXY protocol header (`pph') at the head of its write queue; a  *)
(* shutdown request libuv will not look at again is `stuck'.               *)
TcpConn ==
  [uv : {"none", "open", "closing", "closed", "deleted"},
   callback : BOOLEAN, reading : BOOLEAN, readeof : BOOLEAN,
   writing : BOOLEAN, writeof : BOOLEAN, closed : BOOLEAN,
   shutting : BOOLEAN, connecting : BOOLEAN, pph : BOOLEAN, stuck : BOOLEAN,
   rcvd : 0..UpBytes,
   base : 0..DownBytes, len : 0..DownBytes, left : 0..DownBytes]

PuicConn ==
  [conn : {"none", "handshaking", "connected", "closed"},
   buffered : 0..UpBytes, sent : 0..UpBytes,
   finBuffered : BOOLEAN, finSent : BOOLEAN,
   received : 0..DownBytes, finReceived : BOOLEAN,
   consumed : 0..DownBytes, readClosed : BOOLEAN]

TcpPeer == [sent : 0..UpBytes, fin : BOOLEAN, got : Seq(1..DownBytes)]

NewConn ==
  [uv |-> "none", callback |-> FALSE, reading |-> FALSE, readeof |-> FALSE,
   writing |-> FALSE, writeof |-> FALSE, closed |-> FALSE,
   shutting |-> FALSE, connecting |-> FALSE, pph |-> FALSE, stuck |-> FALSE,
   rcvd |-> 0, base |-> 0, len |-> 0, left |-> 0]

NoPuic ==
  [conn |-> "none", buffered |-> 0, sent |-> 0,
   finBuffered |-> FALSE, finSent |-> FALSE,
   received |-> 0, finReceived |-> FALSE, consumed |-> 0, readClosed |-> FALSE]

Init ==
  /\ serving = TRUE
  /\ job = [j \in Job |-> "none"]
  /\ tcp = [j \in Job |-> NewConn]
  /\ puic = [j \in Job |-> NoPuic]
  /\ peer = [j \in Job |-> [sent |-> 0, fin |-> FALSE, got |-> <<>>]]

-----------------------------------------------------------------------------
(* The TCP connection.  The error branches of StartRead and Write (libuv   *)
(* refuses a handle that is closing) are dead: see ClosesWhenDone.         *)

close(t) == IF t.uv = "open" THEN [t EXCEPT !.uv = "closing"] ELSE t

(* Seeded bugs: m_closed is set, but the handle is not closed; the handle  *)
(* is closed, but m_closed is not set.                                     *)
Close_NoUvClose(t) ==
  IF t.uv = "closed" THEN [t EXCEPT !.closed = TRUE, !.uv = "deleted"]
                     ELSE [t EXCEPT !.closed = TRUE]

Close_ForgetsClosed(t) ==
  IF t.uv = "closed" THEN [t EXCEPT !.uv = "deleted"] ELSE close(t)

Close(t) ==
  IF t.uv = "closed" THEN [t EXCEPT !.closed = TRUE, !.uv = "deleted"]
                     ELSE close([t EXCEPT !.closed = TRUE])

StartRead(t) == IF t.reading \/ t.readeof THEN t ELSE [t EXCEPT !.reading = TRUE]

StopRead(t) == IF ~t.reading \/ t.readeof THEN t ELSE [t EXCEPT !.reading = FALSE]

Write(t, base, n) ==
  IF t.writing \/ n = 0 \/ t.writeof THEN t
  ELSE [t EXCEPT !.writing = TRUE, !.base = base, !.len = n, !.left = n]

(* uv_shutdown() refuses a second request, and its result is not looked at. *)
Shutdown(t) ==
  IF t.writeof \/ t.uv # "open" THEN t ELSE [t EXCEPT !.shutting = TRUE]

-----------------------------------------------------------------------------
(* The preset stream, as PuicStream and QuicStream provide it.             *)

Readable(p) == p.received - p.consumed
StreamClosed(p) == p.readClosed /\ p.finSent

(* WriteBufferedData(): the connection takes a part of the buffer, as flow *)
(* and congestion control allow; the FIN goes with or after the last byte. *)
WriteBufferedData(p) ==
  {[p EXCEPT !.sent = @ + n, !.buffered = @ - n] : n \in 0..p.buffered}
    \cup {q \in {[p EXCEPT !.sent = @ + p.buffered, !.buffered = 0, !.finSent = TRUE]} :
            p.finBuffered}

(* PUICCLIENT_ConnWrite, PuicStream::Write: the outcomes when the          *)
(* connection survives.  Only an empty buffer is written through.          *)
ConnWrite(p, n, fin) ==
  IF p.finSent \/ p.finBuffered THEN {p}
  ELSE LET q == [p EXCEPT !.buffered = @ + n, !.finBuffered = fin]
       IN  IF p.buffered > 0 THEN {q} ELSE WriteBufferedData(q)

MarkConsumed(p, n) == [p EXCEPT !.consumed = @ + n]

(* Seeing the end of the stream (IsEOF) closes its read side. *)
StopReading(p) == [p EXCEPT !.readClosed = TRUE]

-----------------------------------------------------------------------------
(* ProxyJob.                                                               *)

(* Seeded bugs: reading never stops; it does not restart at the low mark.  *)
may_tcp_to_puic_NeverStops(t, buffered) ==
  IF buffered <= Lower THEN StartRead(t) ELSE t

may_tcp_to_puic_BelowLower(t, buffered) ==
  IF buffered >= Upper THEN StopRead(t)
  ELSE IF buffered < Lower THEN StartRead(t)
  ELSE t

may_tcp_to_puic(t, buffered) ==
  IF buffered >= Upper THEN StopRead(t)
  ELSE IF buffered <= Lower THEN StartRead(t)
  ELSE t

(* PUICLIERR_EOF: nothing is left to read and nothing more will come. *)
AtEOF(t, p) == ~t.writing /\ Readable(p) = 0 /\ p.finReceived

(* Seeded bug: the bytes are consumed when the write starts. *)
may_puic_to_tcp_ConsumesEarly(j, t, p) ==
  LET n == Min({Readable(p), RegionBytes})
  IN  /\ tcp' = [tcp EXCEPT ![j] =
           IF t.writing THEN t
           ELSE IF AtEOF(t, p) THEN Shutdown(t)
           ELSE Write(t, p.consumed, n)]
      /\ puic' = [puic EXCEPT ![j] =
           IF t.writing THEN p ELSE IF AtEOF(t, p) THEN StopReading(p) ELSE MarkConsumed(p, n)]

may_puic_to_tcp(j, t, p) ==
  /\ tcp' = [tcp EXCEPT ![j] =
       IF t.writing THEN t
       ELSE IF AtEOF(t, p) THEN Shutdown(t)
       ELSE Write(t, p.consumed, Min({Readable(p), RegionBytes}))]
  /\ puic' = [puic EXCEPT ![j] = IF AtEOF(t, p) THEN StopReading(p) ELSE p]

(* Also for a job whose PUIC connection could not be created: the model    *)
(* does not tell "never created" from "closed".                            *)
clean(j, t) ==
  /\ job' = [job EXCEPT ![j] = "toclean"]
  /\ tcp' = [tcp EXCEPT ![j] = Close(t)]
  /\ puic' = [puic EXCEPT ![j].conn = "closed"]

-----------------------------------------------------------------------------
(* Events of the PUIC connection.                                          *)

(* The connection is closed by its peer, a timeout or an error. *)
OnPUICDisconnected(j) ==
  /\ puic[j].conn \in {"handshaking", "connected"}
  /\ clean(j, tcp[j])
  /\ UNCHANGED <<serving, peer>>

(* In-order data or the FIN arrives.  The sequencer announces it only when *)
(* nothing older is waiting to be consumed.                                *)
OnStreamFrame(j) ==
  /\ puic[j].conn = "connected" /\ ~puic[j].finReceived
  /\ \E n \in 0..(DownBytes - puic[j].received), fin \in BOOLEAN :
       LET p == [puic[j] EXCEPT !.received = @ + n, !.finReceived = fin]
       IN  /\ n > 0 \/ fin
           /\ IF Readable(puic[j]) = 0
                THEN may_puic_to_tcp(j, tcp[j], p)
                ELSE puic' = [puic EXCEPT ![j] = p] /\ UNCHANGED tcp
  /\ UNCHANGED <<serving, job, peer>>

(* Seeded bug: the job is not told that the buffer drains. *)
OnCanWrite_NotTold(j) ==
  /\ puic[j].conn = "connected" /\ ~puic[j].finSent
  /\ puic' \in {[puic EXCEPT ![j] = p] : p \in WriteBufferedData(puic[j])}
  /\ UNCHANGED <<serving, job, tcp, peer>>

(* PuicStream::OnCanWrite, OnPUICConnCanWrite. *)
OnCanWrite(j) ==
  /\ puic[j].conn = "connected" /\ ~puic[j].finSent
  /\ \E p \in WriteBufferedData(puic[j]) :
       /\ puic' = [puic EXCEPT ![j] = p]
       /\ tcp' = [tcp EXCEPT ![j] = IF p.finBuffered THEN @
                                    ELSE may_tcp_to_puic(@, p.buffered)]
  /\ UNCHANGED <<serving, job, peer>>

-----------------------------------------------------------------------------
(* Callbacks of the TCP handle.                                            *)

Connected(j) == tcp[j].uv = "open" /\ ~tcp[j].connecting

OnConnRcvd(j, t, n) ==
  \/ \E p \in ConnWrite(puic[j], n, FALSE) :
       /\ puic' = [puic EXCEPT ![j] = p]
       /\ tcp' = [tcp EXCEPT ![j] = may_tcp_to_puic(t, p.buffered)]
       /\ UNCHANGED job
  \/ clean(j, t)               \* the write broke the connection

on_uv_read(j) ==
  /\ Connected(j) /\ tcp[j].reading
  /\ \E n \in 1..Min({ReadSize, peer[j].sent - tcp[j].rcvd}) :
       OnConnRcvd(j, [tcp[j] EXCEPT !.rcvd = @ + n], n)
  /\ UNCHANGED <<serving, peer>>

(* The FIN is written; the TCP connection becomes t. *)
OnConnEOF(j, t) ==
  \/ /\ \E p \in ConnWrite(puic[j], 0, TRUE) : puic' = [puic EXCEPT ![j] = p]
     /\ tcp' = [tcp EXCEPT ![j] = IF t.writeof THEN close(t) ELSE t]
     /\ UNCHANGED job
  \/ clean(j, t)

(* The UV_EOF branch: the job is told first, then the object changes; the  *)
(* job looks at nothing that changes.                                      *)
on_uv_read_eof(j) ==
  /\ Connected(j) /\ tcp[j].reading
  /\ peer[j].fin /\ tcp[j].rcvd = peer[j].sent
  /\ OnConnEOF(j, [tcp[j] EXCEPT !.reading = FALSE, !.readeof = TRUE])
  /\ UNCHANGED <<serving, peer>>

(* libuv writes a byte of the request in flight, straight from the         *)
(* stream's buffer.                                                        *)
uv__write(j) ==
  /\ Connected(j) /\ ~tcp[j].pph /\ tcp[j].left > 0
  /\ tcp' = [tcp EXCEPT ![j].left = @ - 1]
  /\ peer' = [peer EXCEPT ![j].got =
       Append(@, tcp[j].base + tcp[j].len - tcp[j].left + 1)]
  /\ UNCHANGED <<serving, job, puic>>

(* Seeded bug: the next write starts before the last one is consumed. *)
on_uv_write_PollsFirst(j) ==
  /\ Connected(j) /\ tcp[j].writing /\ tcp[j].left = 0
  /\ LET t == [tcp[j] EXCEPT !.writing = FALSE, !.base = 0, !.len = 0]
     IN  /\ tcp' = [tcp EXCEPT ![j] =
              Write(t, puic[j].consumed, Min({Readable(puic[j]), RegionBytes}))]
         /\ puic' = [puic EXCEPT ![j] = MarkConsumed(@, tcp[j].len)]
  /\ UNCHANGED <<serving, job, peer>>

OnConnSent(j, t, len) ==
  \/ may_puic_to_tcp(j, t, MarkConsumed(puic[j], len)) /\ UNCHANGED job
  \/ clean(j, t)               \* MarkConsumed sent a window update, and failed

on_uv_write(j) ==
  /\ Connected(j) /\ tcp[j].writing /\ tcp[j].left = 0
  /\ OnConnSent(j, [tcp[j] EXCEPT !.writing = FALSE, !.base = 0, !.len = 0], tcp[j].len)
  /\ UNCHANGED <<serving, peer>>

(* uv__drain(): the queue is empty, and libuv still watches the handle. *)
ShutdownDue(j) ==
  Connected(j) /\ tcp[j].shutting /\ ~tcp[j].writing /\ ~tcp[j].pph /\ ~tcp[j].stuck

on_uv_shutdown(j) ==
  /\ ShutdownDue(j)
  /\ LET t == [tcp[j] EXCEPT !.shutting = FALSE, !.writing = FALSE, !.writeof = TRUE]
     IN  tcp' = [tcp EXCEPT ![j] = IF t.readeof THEN close(t) ELSE t]
  /\ UNCHANGED <<serving, job, puic, peer>>

(* A connect, read, write or shutdown request is called back with an error. *)
OnConnErr(j) ==
  /\ tcp[j].uv = "open"
  /\ tcp[j].connecting \/ tcp[j].reading \/ tcp[j].writing \/ tcp[j].shutting
  /\ clean(j, tcp[j])
  /\ UNCHANGED <<serving, peer>>

(* Seeded bug: the object is deleted without looking at m_closed. *)
on_uv_close_Deletes(j) ==
  /\ tcp[j].uv = "closing"
  /\ tcp' = [tcp EXCEPT ![j] = [NewConn EXCEPT !.uv = "deleted"]]
  /\ UNCHANGED <<serving, job, puic, peer>>

(* Pending write and shutdown requests are cancelled first; their          *)
(* callbacks see a closing handle and return.                              *)
on_uv_close(j) ==
  /\ tcp[j].uv = "closing"
  /\ tcp' = [tcp EXCEPT ![j] =
       [@ EXCEPT !.callback = FALSE, !.reading = FALSE, !.readeof = TRUE,
                 !.writing = FALSE, !.writeof = TRUE, !.shutting = FALSE,
                 !.connecting = FALSE, !.pph = FALSE, !.stuck = FALSE,
                 !.base = 0, !.len = 0, !.left = 0,
                 !.uv = IF tcp[j].closed THEN "deleted" ELSE "closed"]]
  /\ UNCHANGED <<serving, job, puic, peer>>

-----------------------------------------------------------------------------
(* ProxyManager.                                                           *)

(* The prepare callback of every loop iteration. *)
Monitor ==
  /\ serving
  /\ \E j \in Job : job[j] = "toclean"
  /\ job' = [j \in Job |-> IF job[j] = "toclean" THEN "deleted" ELSE job[j]]
  /\ UNCHANGED <<serving, tcp, puic, peer>>

(* Stop closes the listener and the dialer; closing the dialer disconnects *)
(* every open connection, which cleans its job.                            *)
Stop ==
  LET open == {j \in Job : puic[j].conn \in {"handshaking", "connected"}}
  IN  /\ serving
      /\ serving' = FALSE
      /\ job' = [j \in Job |-> IF j \in open THEN "toclean" ELSE job[j]]
      /\ tcp' = [j \in Job |-> IF j \in open THEN Close(tcp[j]) ELSE tcp[j]]
      /\ puic' = [j \in Job |-> IF j \in open THEN [puic[j] EXCEPT !.conn = "closed"]
                                              ELSE puic[j]]
      /\ UNCHANGED peer

(* The TCP peer sends a byte, or its FIN. *)
PeerSends(j) ==
  /\ Connected(j) /\ ~peer[j].fin
  /\ \/ peer[j].sent < UpBytes /\ peer' = [peer EXCEPT ![j].sent = @ + 1]
     \/ peer' = [peer EXCEPT ![j].fin = TRUE]
  /\ UNCHANGED <<serving, job, tcp, puic>>

RelayNext ==
  \/ Monitor
  \/ Stop
  \/ \E j \in Job :
       \/ OnPUICDisconnected(j) \/ OnStreamFrame(j) \/ OnCanWrite(j)
       \/ on_uv_read(j) \/ on_uv_read_eof(j) \/ uv__write(j) \/ on_uv_write(j)
       \/ on_uv_shutdown(j) \/ OnConnErr(j) \/ on_uv_close(j)
       \/ PeerSends(j)

(* The loop runs close callbacks and the prepare callback, reads a socket  *)
(* that is readable, and finishes writes the TCP peer makes room for.      *)
(* Reading is switched off and on again, hence its strong fairness.  The   *)
(* PUIC peer is assumed to keep taking bytes.  A connection whose only     *)
(* stream is closed times out.                                             *)
RelayFairness ==
  /\ WF_vars(Monitor)
  /\ \A j \in Job :
       /\ WF_vars(on_uv_close(j))
       /\ SF_vars(on_uv_read(j)) /\ SF_vars(on_uv_read_eof(j))
       /\ WF_vars(uv__write(j)) /\ WF_vars(on_uv_write(j)) /\ WF_vars(on_uv_shutdown(j))
       /\ WF_vars(OnCanWrite(j) /\ puic' # puic)
       /\ WF_vars(StreamClosed(puic[j]) /\ OnPUICDisconnected(j))

-----------------------------------------------------------------------------
(* Properties.                                                             *)

(* Type invariant. *)
TypeOK ==
  /\ serving \in BOOLEAN
  /\ job \in [Job -> {"none", "running", "toclean", "deleted"}]
  /\ tcp \in [Job -> TcpConn]
  /\ puic \in [Job -> PuicConn]
  /\ peer \in [Job -> TcpPeer]

(* assert(running()) in every callback of ProxyJob: an open handle that    *)
(* calls a job, and an open PUIC connection that carries its ConnData,     *)
(* belong to a job that is running, never to a cleaned or deleted one.     *)
CallbacksReachRunningJob ==
  \A j \in Job :
    /\ tcp[j].uv = "open" /\ tcp[j].callback => job[j] = "running"
    /\ puic[j].conn \in {"handshaking", "connected"} <=> job[j] = "running"

(* The object is not deleted while the job still points to it, although it *)
(* may be closed without the job's doing; and a closed object that nobody  *)
(* points to any more is not leaked: Close and on_uv_close agree on which  *)
(* of them deletes.                                                        *)
DeletedByTheLast ==
  \A j \in Job :
    /\ job[j] = "running" => tcp[j].uv \in {"open", "closing", "closed"}
    /\ tcp[j].uv = "closed" => job[j] = "running"

(* Under a running job the handle closes only when both halves are done.   *)
(* So StartRead and Write never meet a closing handle.                     *)
ClosesWhenDone ==
  \A j \in Job :
    job[j] = "running" /\ tcp[j].uv # "open" => tcp[j].readeof /\ tcp[j].writeof

(* Nothing that was read is dropped on the way up, and the FIN is sent     *)
(* only behind the TCP peer's last byte.                                   *)
UpIntact ==
  \A j \in Job :
    job[j] = "running" =>
      /\ tcp[j].rcvd = puic[j].sent + puic[j].buffered
      /\ puic[j].finSent => peer[j].fin /\ puic[j].sent = peer[j].sent

(* The TCP peer gets the stream's bytes in order, each once, and sees a    *)
(* shutdown only after every byte of a finished stream.                    *)
DownIntact ==
  \A j \in Job :
    /\ \A i \in DOMAIN peer[j].got : peer[j].got[i] = i
    /\ tcp[j].uv = "open" /\ (tcp[j].shutting \/ tcp[j].writeof) =>
         /\ ~tcp[j].writing
         /\ puic[j].finReceived /\ Len(peer[j].got) = puic[j].received

(* The bytes of a write in flight are still in the stream's buffer: they   *)
(* are neither consumed nor released before libuv is done with them.       *)
RegionsHeld ==
  \A j \in Job :
    tcp[j].uv = "open" /\ tcp[j].writing =>
      /\ puic[j].conn = "connected" /\ ~puic[j].readClosed
      /\ tcp[j].base = puic[j].consumed /\ tcp[j].len <= Readable(puic[j])

(* The session deletes a stream both of whose sides are closed, and nobody *)
(* clears preset_stream_.  No TCP callback that would use it may come.     *)
NoCallIntoClosedStream ==
  \A j \in Job :
    tcp[j].uv = "open" /\ (tcp[j].reading \/ tcp[j].writing) => ~StreamClosed(puic[j])

(* Nothing is lost, repeated or cut short between the TCP peer and the     *)
(* PUIC stream, in either direction.                                       *)
BytesIntact == TypeOK /\ UpIntact /\ DownIntact

(* Every call finds its object: callbacks reach a running job, the TCP     *)
(* object is deleted by the last who knows it, it closes under a running   *)
(* job only when both halves are done, and nobody uses a deleted stream.   *)
CallsFindTheirObject ==
  /\ CallbacksReachRunningJob
  /\ DeletedByTheLast
  /\ ClosesWhenDone
  /\ NoCallIntoClosedStream

(* Backpressure: the stream buffers less than Upper plus one read. *)
BufferBounded == \A j \in Job : puic[j].buffered < Upper + ReadSize

(* Neither direction waits for an event that will not come.  Reading is    *)
(* off only while the stream holds more than Lower, so that its draining   *)
(* will turn it on again.  The sequencer does not repeat itself: data or a *)
(* FIN it has announced is being written, or nothing of it is left.        *)
NoStall ==
  \A j \in Job : puic[j].conn = "connected" =>
    /\ Connected(j) /\ ~tcp[j].reading /\ ~tcp[j].readeof => puic[j].buffered > Lower
    /\ ~tcp[j].writing =>
         /\ Readable(puic[j]) = 0
         /\ puic[j].finReceived => tcp[j].shutting \/ tcp[j].writeof

(* Every byte and the FIN of either end reach the other one, through any   *)
(* number of pauses, unless the job ends first.                            *)
Delivered ==
  \A j \in Job :
    LET Running == job[j] = "running"
    IN  /\ \A n \in 1..UpBytes :
             Running /\ peer[j].sent >= n ~> puic[j].sent >= n \/ ~Running
        /\ Running /\ peer[j].fin ~> puic[j].finSent \/ ~Running
        /\ \A n \in 1..DownBytes :
             Running /\ puic[j].received >= n ~> Len(peer[j].got) >= n \/ ~Running
        /\ Running /\ puic[j].finReceived ~> tcp[j].writeof \/ ~Running

(* libuv on uv_shutdown: "The cb is called after shutdown is complete."  A *)
(* shutdown asked for is carried out, unless the connection ends first.    *)
ShutdownCompletes == \A j \in Job : tcp[j].shutting ~> ~tcp[j].shutting

(* A job both of whose directions have ended goes away, with its objects. *)
FinishedJobEnds ==
  \A j \in Job :
    (job[j] = "running" /\ puic[j].finReceived /\ peer[j].fin)
      ~> (job[j] \in {"toclean", "deleted"} /\ tcp[j].uv = "deleted")

(* A job that was cleaned is deleted while the manager serves, and every   *)
(* handle is released after Stop: the second uv_run() of the program ends. *)
CleanedAreDeleted ==
  \A j \in Job :
    /\ job[j] = "toclean" ~> (job[j] = "deleted" \/ ~serving)
    /\ ~serving ~> tcp[j].uv \in {"none", "deleted"}

(* Every job comes to its end and releases what it holds. *)
JobsEnd == FinishedJobEnds /\ CleanedAreDeleted
=============================================================================
