----------------------------- MODULE ProxyRelay -----------------------------
(***************************************************************************)
(* The proxy (puicproxy): for each PUIC connection it accepts it connects  *)
(* to the forward server.  The PUIC connection is up from the start, so    *)
(* data, its FIN and write events may all come while the TCP connection is *)
(* still connecting.                                                       *)
(*                                                                         *)
(* puic_proxy.cc has its own copies of the classes that Relay models.  The *)
(* definitions named for its handlers say which action of Relay each copy  *)
(* takes.                                                                  *)
(***************************************************************************)
EXTENDS Relay

CONSTANT UseProxyProtocol

ASSUME ProxyAssumption == UseProxyProtocol \in BOOLEAN

(* Seeded bug: the header is not sent. *)
TCPConnStart_NoPPH(t) == [t EXCEPT !.connecting = TRUE]

(* The connect is under way, with the header queued behind it. *)
TCPConnStart(t) == [t EXCEPT !.connecting = TRUE, !.pph = UseProxyProtocol]

(* ProxyJob::Start: uv_tcp_connect() fails, or not. *)
JobStart(j, t) ==
  \/ clean(j, t)
  \/ /\ tcp' = [tcp EXCEPT ![j] = TCPConnStart(t)]
     /\ job' = [job EXCEPT ![j] = "running"]
     /\ puic' = [puic EXCEPT ![j].conn = "connected"]

OnPUICAccept(j) ==
  /\ serving /\ tcp[j].uv = "none"
  /\ JobStart(j, [tcp[j] EXCEPT !.uv = "open", !.callback = TRUE])
  /\ UNCHANGED <<serving, peer>>

(* uv__stream_connect(): libuv stops watching for writability when its     *)
(* write queue is empty, whether or not a shutdown is pending.             *)
StopsWatching(t) == t.shutting /\ ~t.writing /\ ~t.pph

(* Seeded bug: OnTCPConnBound does not start to read. *)
on_uv_connect_NoRead(j) ==
  /\ tcp[j].uv = "open" /\ tcp[j].connecting
  /\ tcp' = [tcp EXCEPT ![j] =
       [@ EXCEPT !.connecting = FALSE, !.stuck = StopsWatching(tcp[j])]]
  /\ UNCHANGED <<serving, job, puic, peer>>

on_uv_connect(j) ==
  /\ tcp[j].uv = "open" /\ tcp[j].connecting
  /\ tcp' = [tcp EXCEPT ![j] =
       StartRead([@ EXCEPT !.connecting = FALSE, !.stuck = StopsWatching(tcp[j])])]
  /\ UNCHANGED <<serving, job, puic, peer>>

(* The header leaves; its request has no callback. *)
SendPPH(j) ==
  /\ Connected(j) /\ tcp[j].pph
  /\ tcp' = [tcp EXCEPT ![j].pph = FALSE]
  /\ UNCHANGED <<serving, job, puic, peer>>

-----------------------------------------------------------------------------
(* The handlers of puic_proxy.cc that do what Relay says.                  *)

OnTCPConnRcvd(j) == on_uv_read(j)
OnTCPConnEOF(j) == on_uv_read_eof(j)
OnTCPConnSent(j) == on_uv_write(j)
TCPConnShutdown(j) == on_uv_shutdown(j)
OnTCPConnErr(j) == OnConnErr(j)
TCPConnClosed(j) == on_uv_close(j)
OnPUICConnErr(j) == OnPUICDisconnected(j)
OnPUICConnCanRead(j) == OnStreamFrame(j)
OnPUICConnCanWrite(j) == OnCanWrite(j)

ProxyMonitor == Monitor
ProxyStop == Stop

Next ==
  \/ ProxyMonitor
  \/ ProxyStop
  \/ \E j \in Job :
       \/ OnPUICAccept(j) \/ on_uv_connect(j) \/ SendPPH(j)
       \/ OnTCPConnRcvd(j) \/ OnTCPConnEOF(j) \/ uv__write(j) \/ OnTCPConnSent(j)
       \/ TCPConnShutdown(j) \/ OnTCPConnErr(j) \/ TCPConnClosed(j)
       \/ OnPUICConnErr(j) \/ OnPUICConnCanRead(j) \/ OnPUICConnCanWrite(j)
       \/ PeerSends(j)

Spec == Init /\ [][Next]_vars

(* A connect ends, one way or the other, and the socket takes the header. *)
FairSpec ==
  /\ Spec /\ RelayFairness
  /\ \A j \in Job : WF_vars(on_uv_connect(j)) /\ WF_vars(SendPPH(j))
=============================================================================
