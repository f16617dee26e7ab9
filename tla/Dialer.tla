------------------------------- MODULE Dialer -------------------------------
(***************************************************************************)
(* PuicDialer (puicclient/src/puic_client.cc): the client's UDP endpoint.  *)
(* It owns one socket, a pool of MaxFlyingMessages send requests, the      *)
(* connections that write through the socket and the alarm that deletes    *)
(* closed connections.  When the last connection is gone the alarm also    *)
(* stops the dialer; the next CreateConn starts it again.                  *)
(*                                                                         *)
(* Everything runs in callbacks of one libuv loop, so an action is one     *)
(* callback or API call.  Two handlers run other components' code half way *)
(* through (wakeup() and stop()); they are split at those calls, and       *)
(* `frame' says which of them is on the call stack.                        *)
(***************************************************************************)
EXTENDS Integers, SequencesExt

CONSTANTS
  Conn,               \* identities of PuicClientConn objects
  MaxFlyingMessages,  \* size of the send request pool
  SendMayFail         \* may uv_udp_send() return an error?

ASSUME DialerAssumption ==
  /\ MaxFlyingMessages \in Nat \ {0}
  /\ SendMayFail \in BOOLEAN

VARIABLES
  phase,         \* "new", "serving" (Start called) or "deleted" (DialerClose returned)
  cryptoConfig,  \* m_cryptoConfig # nullptr: the dialer is started
  socket,        \* m_socket # nullptr
  writeBlocked,  \* m_writeBlocked
  avail,         \* m_availSendReqs.size()
  flying,        \* requests queued on m_socket
  cancelled,     \* requests queued on sockets that are closing
  conns,         \* m_conns
  closedConns,   \* m_closedConns
  blockedConns,  \* m_blockedConns, in insertion order
  blocked,       \* connections whose PuicPerSessionWriter has blocked_ set
  armed,         \* m_deleteConnsAlarm is set
  frame          \* dialer code on the call stack: "loop" (none), "waking" (at the
                 \* while of wakeup()), "canwrite" (in a call wakeup() makes) or
                 \* "closing" (in the while of stop(), under DialerClose)

life      == <<phase, cryptoConfig, socket>>
pool      == <<avail, flying, cancelled>>
sessions  == <<conns, closedConns, blockedConns, blocked>>
vars      == <<life, writeBlocked, pool, sessions, armed, frame>>

(* Requests that are neither in the pool nor queued on the socket. *)
Lost == MaxFlyingMessages - avail - flying

Init ==
  /\ phase = "new" /\ cryptoConfig = FALSE /\ socket = FALSE
  /\ writeBlocked = TRUE
  /\ avail = MaxFlyingMessages /\ flying = 0 /\ cancelled = 0
  /\ conns = {} /\ closedConns = {} /\ blockedConns = <<>> /\ blocked = {}
  /\ armed = FALSE
  /\ frame = "loop"

-----------------------------------------------------------------------------
(* start() and stop().                                                     *)

(* A failed bind or recv_start closes the fresh socket and changes nothing *)
(* else, so a failing start is a stuttering step.                          *)
start ==
  /\ ~cryptoConfig
  /\ socket' = TRUE
  /\ writeBlocked' = FALSE
  /\ armed' = FALSE          \* the old alarm object is destroyed
  /\ cryptoConfig' = TRUE

DialerStart ==
  /\ phase = "new"
  /\ phase' = "serving"
  /\ start
  /\ UNCHANGED <<pool, sessions, frame>>

(* The part of stop() before its loop.  uv_close() leaves the requests     *)
(* queued on the socket to be called back with ECANCELED.                  *)
CloseSocket ==
  /\ socket' = FALSE
  /\ cancelled' = cancelled + flying
  /\ flying' = 0
  /\ writeBlocked' = TRUE
  /\ UNCHANGED avail

-----------------------------------------------------------------------------
(* WritePacket() and what a connection does with its result.               *)

WriteOk ==
  /\ ~writeBlocked /\ avail > 0
  /\ avail' = avail - 1
  /\ flying' = flying + 1
  /\ UNCHANGED <<writeBlocked, cancelled>>

WriteBlocked ==
  /\ writeBlocked \/ avail = 0
  /\ writeBlocked' = TRUE
  /\ UNCHANGED pool

(* uv_udp_send() failed: the request has left the pool and is on no queue. *)
WriteError ==
  /\ SendMayFail
  /\ ~writeBlocked /\ avail > 0
  /\ avail' = avail - 1
  /\ UNCHANGED <<writeBlocked, flying, cancelled>>

(* Seeded bug: the connection that blocks again goes first. *)
Insert_Front(s, c) == IF c \in ToSet(s) THEN s ELSE <<c>> \o s

(* m_blockedConns.insert() keeps the place of a key it already has. *)
Insert(s, c) == IF c \in ToSet(s) THEN s ELSE Append(s, c)

OnConnWriteBlocked(c) == blockedConns' = Insert(blockedConns, c)

Erase(s, c) ==
  IF c \in ToSet(s) THEN RemoveAt(s, CHOOSE i \in DOMAIN s : s[i] = c) ELSE s

(* Seeded bug: the test that decides whether the alarm is already set is   *)
(* inverted.                                                               *)
OnConnClosed_NoAlarm(c) ==
  /\ armed' = (armed \/ closedConns # {})
  /\ closedConns' = closedConns \cup {c}
  /\ conns' = conns \ {c}
  /\ blockedConns' = Erase(blockedConns, c)
  /\ blocked' = blocked \ {c}

(* PuicClientConn::OnClosed: the user is told, then the dialer parks the   *)
(* connection for the alarm.  The writer of a torn-down connection is not  *)
(* asked again, so its flag is dropped.                                    *)
OnConnClosed(c) ==
  /\ armed' = (armed \/ closedConns = {})
  /\ closedConns' = closedConns \cup {c}
  /\ conns' = conns \ {c}
  /\ blockedConns' = Erase(blockedConns, c)
  /\ blocked' = blocked \ {c}

(* Where a connection's own code may run: under a loop callback or under   *)
(* OnTransportCanWrite().                                                  *)
InSession == frame \in {"loop", "canwrite"}

(* A connection writes a packet. *)
ConnWrite(c) ==
  /\ c \in conns /\ InSession
  /\ \/ /\ c \notin blocked
        /\ WriteOk
        /\ UNCHANGED <<blocked, blockedConns>>
     \/ /\ c \notin blocked
        /\ WriteBlocked
        /\ blocked' = blocked \cup {c}
        /\ OnConnWriteBlocked(c)
     \/ /\ c \in blocked       \* QuicConnection::CanWrite() asks the writer first
        /\ OnConnWriteBlocked(c)
        /\ UNCHANGED <<blocked, writeBlocked, pool>>
  /\ UNCHANGED <<life, conns, closedConns, armed, frame>>

(* A failed write tears the connection down without a close packet. *)
ConnWriteError(c) ==
  /\ c \in conns /\ InSession
  /\ c \notin blocked
  /\ WriteError
  /\ OnConnClosed(c)
  /\ UNCHANGED <<life, frame>>

(* session()->Close(): a close packet, if the writer takes it, then teardown. *)
SessionClose(c) ==
  /\ c \in conns
  /\ IF c \in blocked THEN UNCHANGED <<writeBlocked, pool>>
                      ELSE WriteOk \/ WriteBlocked \/ WriteError
  /\ OnConnClosed(c)

ConnDisconnect(c) ==
  /\ InSession
  /\ SessionClose(c)
  /\ UNCHANGED <<life, frame>>

(* Closed by the peer, or silently by a timeout: no packet is written. *)
ConnLost(c) ==
  /\ c \in conns /\ InSession
  /\ OnConnClosed(c)
  /\ UNCHANGED <<life, writeBlocked, pool, frame>>

(* The connection object is new: its writer is not blocked. *)
CreateConn(c) ==
  /\ phase = "serving" /\ InSession
  /\ c \notin conns \cup closedConns
  /\ IF cryptoConfig THEN UNCHANGED <<cryptoConfig, socket, writeBlocked, armed>>
                     ELSE start
  /\ conns' = conns \cup {c}
  /\ UNCHANGED <<phase, pool, closedConns, blockedConns, blocked, frame>>

-----------------------------------------------------------------------------
(* Callbacks of the loop.                                                  *)

(* A queued packet has been sent.  A blocked dialer waits for its whole    *)
(* pool before it wakes the connections.                                   *)
on_uv_send ==
  /\ frame = "loop" /\ flying > 0
  /\ flying' = flying - 1
  /\ avail' = avail + 1
  /\ IF writeBlocked /\ avail' = MaxFlyingMessages
       THEN writeBlocked' = FALSE /\ frame' = "waking"
       ELSE UNCHANGED <<writeBlocked, frame>>
  /\ UNCHANGED <<life, cancelled, sessions, armed>>

(* The callback of a request whose socket is closing frees the request. *)
on_uv_send_closing ==
  /\ frame = "loop" /\ cancelled > 0
  /\ cancelled' = cancelled - 1
  /\ UNCHANGED <<life, writeBlocked, avail, flying, sessions, armed, frame>>

(* One turn of the while of wakeup(), up to the call of                    *)
(* OnTransportCanWrite(), which first makes the session's writer writable. *)
wakeup ==
  /\ frame = "waking"
  /\ blockedConns # <<>> /\ ~writeBlocked
  /\ blocked' = blocked \ {Head(blockedConns)}
  /\ blockedConns' = Tail(blockedConns)
  /\ frame' = "canwrite"
  /\ UNCHANGED <<life, writeBlocked, pool, conns, closedConns, armed>>

OnTransportCanWriteReturns ==
  /\ frame = "canwrite"
  /\ frame' = "waking"
  /\ UNCHANGED <<life, writeBlocked, pool, sessions, armed>>

(* Seeded bug: wakeup() wakes one connection only. *)
wakeupReturns_AfterOne ==
  /\ frame = "waking"
  /\ frame' = "loop"
  /\ UNCHANGED <<life, writeBlocked, pool, sessions, armed>>

wakeupReturns ==
  /\ frame = "waking"
  /\ blockedConns = <<>> \/ writeBlocked
  /\ frame' = "loop"
  /\ UNCHANGED <<life, writeBlocked, pool, sessions, armed>>

(* Seeded bugs: the alarm stops the dialer without looking at m_conns; it  *)
(* never stops it.                                                         *)
DeleteConnsAlarm_AlwaysStops ==
  /\ frame = "loop" /\ armed
  /\ armed' = FALSE
  /\ closedConns' = {}
  /\ IF cryptoConfig
       THEN CloseSocket /\ cryptoConfig' = FALSE
       ELSE UNCHANGED <<cryptoConfig, socket, writeBlocked, pool>>
  /\ UNCHANGED <<phase, conns, blockedConns, blocked, frame>>

DeleteConnsAlarm_NeverStops ==
  /\ frame = "loop" /\ armed
  /\ armed' = FALSE
  /\ closedConns' = {}
  /\ UNCHANGED <<life, writeBlocked, pool, conns, blockedConns, blocked, frame>>

(* The alarm: DeleteConns(true).  With no connection left it stops the     *)
(* dialer, whose loop over the connections then has nothing to do.         *)
DeleteConnsAlarm ==
  /\ frame = "loop" /\ armed
  /\ armed' = FALSE
  /\ closedConns' = {}
  /\ IF conns = {} /\ cryptoConfig
       THEN CloseSocket /\ cryptoConfig' = FALSE
       ELSE UNCHANGED <<cryptoConfig, socket, writeBlocked, pool>>
  /\ UNCHANGED <<phase, conns, blockedConns, blocked, frame>>

-----------------------------------------------------------------------------
(* PUICCLIENT_DialerClose: Stop() and delete.                              *)

DialerClose ==
  /\ phase = "serving" /\ frame = "loop"
  /\ armed' = FALSE
  /\ IF cryptoConfig
       THEN CloseSocket /\ frame' = "closing" /\ UNCHANGED phase
       ELSE phase' = "deleted" /\ UNCHANGED <<socket, writeBlocked, pool, frame>>
  /\ UNCHANGED <<cryptoConfig, sessions>>

(* One turn of the while of stop(). *)
StopClosesConn(c) ==
  /\ frame = "closing"
  /\ SessionClose(c)
  /\ UNCHANGED <<life, frame>>

(* The rest of stop(), and the destructor, which destroys the alarm that   *)
(* closing the connections may have set again.                             *)
StopReturns ==
  /\ frame = "closing" /\ conns = {}
  /\ closedConns' = {}
  /\ cryptoConfig' = FALSE
  /\ phase' = "deleted"
  /\ armed' = FALSE
  /\ frame' = "loop"
  /\ UNCHANGED <<socket, writeBlocked, pool, conns, blockedConns, blocked>>

-----------------------------------------------------------------------------
Next ==
  \/ DialerStart
  \/ \E c \in Conn :
       \/ CreateConn(c)
       \/ ConnWrite(c)
       \/ ConnWriteError(c)
       \/ ConnDisconnect(c)
       \/ ConnLost(c)
       \/ StopClosesConn(c)
  \/ on_uv_send
  \/ on_uv_send_closing
  \/ wakeup
  \/ OnTransportCanWriteReturns
  \/ wakeupReturns
  \/ DeleteConnsAlarm
  \/ DialerClose
  \/ StopReturns

Spec == Init /\ [][Next]_vars

(* Code on the stack returns, and every iteration of the loop runs the due *)
(* timers and the completed requests; a callback is not due while another  *)
(* is on the stack, hence strong fairness.  Nothing obliges a user or a    *)
(* peer to act.                                                            *)
Fairness ==
  /\ SF_vars(on_uv_send)
  /\ SF_vars(on_uv_send_closing)
  /\ WF_vars(wakeup)
  /\ WF_vars(OnTransportCanWriteReturns)
  /\ WF_vars(wakeupReturns)
  /\ SF_vars(DeleteConnsAlarm)
  /\ WF_vars(\E c \in Conn : StopClosesConn(c))
  /\ WF_vars(StopReturns)

FairSpec == Spec /\ Fairness

-----------------------------------------------------------------------------
(* Properties.                                                             *)

(* The pool counters stay within the pool. *)
PoolTypeOK ==
  /\ avail \in 0..MaxFlyingMessages
  /\ flying \in 0..MaxFlyingMessages
  /\ cancelled \in 0..MaxFlyingMessages

(* Type invariant. *)
TypeOK ==
  /\ PoolTypeOK
  /\ phase \in {"new", "serving", "deleted"}
  /\ cryptoConfig \in BOOLEAN /\ socket \in BOOLEAN /\ writeBlocked \in BOOLEAN
  /\ conns \subseteq Conn /\ closedConns \subseteq Conn
  /\ blockedConns \in Seq(Conn) /\ blocked \subseteq Conn
  /\ armed \in BOOLEAN
  /\ frame \in {"loop", "waking", "canwrite", "closing"}

(* A request is never in two places: m_availSendReqs cannot grow past the  *)
(* size on_uv_send compares it with, which is what makes `==' enough.      *)
RequestsConserved == avail + flying + cancelled <= MaxFlyingMessages

(* WritePacket never hands a request to a null m_socket, although stop()   *)
(* closes connections, and they write close packets, after nulling it.     *)
SendsOnLiveSocket == flying > 0 => socket

(* Every connection whose writer reported "blocked" is queued exactly once *)
(* for wakeup(), and only open connections are: wakeup() neither misses a  *)
(* connection nor touches a closed or deleted one.                         *)
BlockedAreQueued ==
  /\ ToSet(blockedConns) = blocked
  /\ blocked \subseteq conns
  /\ IsInjective(blockedConns)

(* Outside wakeup() nobody waits for a dialer that is writable: the while  *)
(* of wakeup() may stop early only because a write blocked again.          *)
NoMissedWakeup == blocked # {} => writeBlocked \/ frame \in {"waking", "canwrite"}

(* While no request has been lost, a started dialer that refuses writes    *)
(* has a send completion coming that will make it writable.                *)
WakeupComing ==
  cryptoConfig /\ socket /\ writeBlocked /\ Lost = 0 => flying > 0

(* Closed connections wait for an alarm that is really set: stop() cancels *)
(* it and start() replaces it, neither may strand a connection.            *)
ClosedAreScheduled == closedConns # {} => armed \/ frame = "closing"

(* A dialer that is stopped, by the alarm or by DialerClose, has no        *)
(* connection left in any of its tables, no socket, and refuses writes.    *)
StoppedIsEmpty ==
  ~cryptoConfig =>
    /\ conns = {} /\ closedConns = {} /\ blockedConns = <<>>
    /\ ~socket /\ writeBlocked /\ flying = 0

(* Outside DialerClose the socket is closed only when no connection uses   *)
(* it: an auto-stop never pulls the socket from under a connection.        *)
SocketOutlivesConns ==
  [][socket /\ ~socket' => conns' = {} \/ frame' = "closing"]_vars

(* Every closed connection is deleted. *)
ClosedAreDeleted == \A c \in Conn : c \in closedConns ~> c \notin closedConns

(* When its last connection closes the dialer gives its socket back,       *)
(* unless a new connection arrives first.                                  *)
IdleDialerStops == (conns = {} /\ closedConns # {}) ~> (~socket \/ conns # {})

(* No starvation: as long as no request has been lost, a blocked           *)
(* connection gets its turn to write or is closed, however many other      *)
(* connections fill the pool again first.                                  *)
BlockedGetTurn == \A c \in Conn : c \in blocked ~> (c \notin blocked \/ Lost > 0)

(* What ties the flags together between two callbacks.  Not interesting in *)
(* itself: the strengthening that makes the safety invariants inductive.   *)
FlagsAgree ==
  /\ phase # "serving" => ~cryptoConfig /\ frame = "loop"
  /\ cryptoConfig => (socket <=> frame # "closing")
  /\ frame # "loop" => cryptoConfig
  /\ frame = "closing" => writeBlocked
  /\ conns \cap closedConns = {}

(* The inductive invariant. *)
DialerInv ==
  /\ TypeOK
  /\ FlagsAgree
  /\ RequestsConserved
  /\ SendsOnLiveSocket
  /\ BlockedAreQueued
  /\ NoMissedWakeup
  /\ WakeupComing
  /\ ClosedAreScheduled
  /\ StoppedIsEmpty

(* The promise of QuicBlockedWriterInterface: a blocked writer is called   *)
(* when the socket becomes writable.  So a connection may wait only while  *)
(* there is something on the socket still to be sent.                      *)
BlockedWriterIsCalled == frame = "loop" /\ blocked # {} => flying > 0
=============================================================================
