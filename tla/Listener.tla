------------------------------ MODULE Listener ------------------------------
(***************************************************************************)
(* PuicListener and PuicServerConn (puicserver/src/puic_server.cc): the    *)
(* server's UDP endpoint.  It owns one socket and a pool of                *)
(* MaxFlyingMessages send requests, and wraps every session the dispatcher *)
(* makes in a connection object that lives on its own.  Two kinds of       *)
(* writers share the pool: the sessions, through their per-session         *)
(* writers, and the dispatcher's time-wait list manager, which answers     *)
(* packets of connections that are gone.  The dispatcher queues those that *)
(* find the listener blocked.  Which packet makes a session is the         *)
(* business of module Dispatcher; here sessions just appear and disappear. *)
(*                                                                         *)
(* An action is one loop callback or API call, split where the dispatcher  *)
(* calls into a session in the middle of a loop; `frame' says which loop   *)
(* is on the call stack.                                                   *)
(***************************************************************************)
EXTENDS Integers, SequencesExt

CONSTANTS
  Session,            \* identities of PuicServerSession objects
  TimeWait,           \* the time-wait list manager, as a blocked writer
  MaxFlyingMessages,  \* size of the send request pool
  SendMayFail,        \* may uv_udp_send() return an error?
  MaxPending          \* bound on the time-wait list manager's queue

ASSUME ListenerAssumption ==
  /\ TimeWait \notin Session
  /\ MaxFlyingMessages \in Nat \ {0}
  /\ SendMayFail \in BOOLEAN
  /\ MaxPending \in Nat

VARIABLES
  phase,             \* "new", "serving" (Start succeeded) or "deleted"
  callbacks,         \* m_callbacks is filled in
  socket,            \* m_socket # nullptr
  writeBlocked,      \* m_writeBlocked
  avail,             \* m_availSendReqs.size()
  flying,            \* requests queued on m_socket
  cancelled,         \* requests queued on the closing socket
  session,           \* "none", "open" (in session_map_) or "closed" (in
                     \* closed_session_list_)
  conn,              \* the PuicServerConn of a session: "none", "new" (made,
                     \* m_handshaked = false) or "accepted"
  writeBlockedList,  \* write_blocked_list_, in insertion order
  blocked,           \* sessions whose PuicPerSessionWriter has blocked_ set
  pending,           \* length of pending_packets_queue_ of TimeWait
  deleteAlarm,       \* delete_sessions_alarm_ is set
  frame              \* "loop" (none), "waking" (the while of OnCanWrite()),
                     \* "canwrite" (in a call it makes to a session) or
                     \* "closing" (the while of Shutdown())

pool  == <<avail, flying, cancelled>>
life  == <<phase, callbacks, socket>>
lists == <<writeBlockedList, blocked, pending>>
vars  == <<life, writeBlocked, pool, session, conn, lists, deleteAlarm, frame>>

Init ==
  /\ phase = "new" /\ callbacks = FALSE /\ socket = FALSE
  /\ writeBlocked = TRUE
  /\ avail = MaxFlyingMessages /\ flying = 0 /\ cancelled = 0
  /\ session = [s \in Session |-> "none"] /\ conn = [s \in Session |-> "none"]
  /\ writeBlockedList = <<>> /\ blocked = {} /\ pending = 0
  /\ deleteAlarm = FALSE
  /\ frame = "loop"

Open == {s \in Session : session[s] = "open"}
Closed == {s \in Session : session[s] = "closed"}

(* Requests that are neither in the pool nor queued on the socket. *)
Lost == MaxFlyingMessages - avail - flying

(* A failing bind or recv_start leaves the listener as it was. *)
Start ==
  /\ phase = "new"
  /\ phase' = "serving"
  /\ socket' = TRUE
  /\ writeBlocked' = FALSE
  /\ callbacks' = TRUE
  /\ UNCHANGED <<pool, session, conn, lists, deleteAlarm, frame>>

-----------------------------------------------------------------------------
(* WritePacket() and its callers.                                          *)

WriteOk ==
  /\ ~writeBlocked /\ avail > 0
  /\ avail' = avail - 1
  /\ flying' = flying + 1
  /\ UNCHANGED <<writeBlocked, cancelled>>

WriteBlocked ==
  /\ writeBlocked \/ avail = 0
  /\ writeBlocked' = TRUE
  /\ UNCHANGED pool

(* uv_udp_send() failed: the request has left the pool and is on no queue. *)
WriteError ==
  /\ SendMayFail
  /\ ~writeBlocked /\ avail > 0
  /\ avail' = avail - 1
  /\ UNCHANGED <<writeBlocked, flying, cancelled>>

(* Seeded bug: a writer that blocks again goes first. *)
OnWriteBlocked_Front(list, w) == IF w \in ToSet(list) THEN list ELSE <<w>> \o list

(* write_blocked_list_.insert() keeps the place of a key it has. *)
OnWriteBlocked(list, w) == IF w \in ToSet(list) THEN list ELSE Append(list, w)

Erase(s, w) ==
  IF w \in ToSet(s) THEN RemoveAt(s, CHOOSE i \in DOMAIN s : s[i] = w) ELSE s

(* Seeded bug: CleanUpSession leaves the connection in the list. *)
OnClosed_StaysQueued(s) ==
  /\ session' = [session EXCEPT ![s] = "closed"]
  /\ deleteAlarm' = (deleteAlarm \/ Closed = {})
  /\ blocked' = blocked \ {s}
  /\ conn' = [conn EXCEPT ![s] = IF @ = "accepted" THEN "none" ELSE @]
  /\ UNCHANGED <<writeBlockedList, pending>>

(* The connection of a session is torn down: QuicDispatcher keeps the      *)
(* session for its alarm and takes it off its lists, then the delegate is  *)
(* told.  An accepted connection tells the user and deletes itself; one    *)
(* without a handshake returns and is never deleted.                       *)
OnClosed(s) ==
  /\ session' = [session EXCEPT ![s] = "closed"]
  /\ deleteAlarm' = (deleteAlarm \/ Closed = {})
  /\ writeBlockedList' = Erase(writeBlockedList, s)
  /\ blocked' = blocked \ {s}
  /\ conn' = [conn EXCEPT ![s] = IF @ = "accepted" THEN "none" ELSE @]
  /\ UNCHANGED pending

(* Where a session's own code may run: under a loop callback or under      *)
(* OnBlockedWriterCanWrite().                                              *)
InSession == frame \in {"loop", "canwrite"}

SessionWrite(s) ==
  /\ session[s] = "open" /\ InSession
  /\ \/ /\ s \notin blocked
        /\ WriteOk
        /\ UNCHANGED <<blocked, writeBlockedList>>
     \/ /\ s \notin blocked
        /\ WriteBlocked
        /\ blocked' = blocked \cup {s}
        /\ writeBlockedList' = OnWriteBlocked(writeBlockedList, s)
     \/ /\ s \in blocked /\ writeBlocked   \* else the dispatcher refuses it
        /\ writeBlockedList' = OnWriteBlocked(writeBlockedList, s)
        /\ UNCHANGED <<blocked, writeBlocked, pool>>
  /\ UNCHANGED <<life, session, conn, pending, deleteAlarm, frame>>

(* A failed write tears the connection down without a close packet. *)
SessionWriteError(s) ==
  /\ session[s] = "open" /\ InSession
  /\ s \notin blocked
  /\ WriteError
  /\ OnClosed(s)
  /\ UNCHANGED <<life, frame>>

(* CloseConnection(): a close packet, if the writer takes it, then teardown. *)
CloseConnection(s) ==
  /\ session[s] = "open"
  /\ IF s \in blocked THEN UNCHANGED <<writeBlocked, pool>>
                      ELSE WriteOk \/ WriteBlocked \/ WriteError
  /\ OnClosed(s)

(* The user disconnects, or the session gives up (timeouts, errors). *)
SessionCloses(s) ==
  /\ InSession
  /\ CloseConnection(s)
  /\ UNCHANGED <<life, frame>>

(* Closed by the peer: no packet is written. *)
SessionLost(s) ==
  /\ session[s] = "open" /\ InSession
  /\ OnClosed(s)
  /\ UNCHANGED <<life, writeBlocked, pool, frame>>

-----------------------------------------------------------------------------
(* New sessions, and callbacks of the loop.                                *)

(* CreateQuicSession calls OnNewSession. *)
OnNewSession(s) ==
  /\ phase = "serving" /\ frame = "loop"
  /\ session[s] = "none"
  /\ session' = [session EXCEPT ![s] = "open"]
  /\ conn' = [conn EXCEPT ![s] = "new"]
  /\ UNCHANGED <<life, writeBlocked, pool, lists, deleteAlarm, frame>>

(* The user is given the connection (OnAccept). *)
OnHandshaked(s) ==
  /\ frame = "loop"
  /\ session[s] = "open" /\ conn[s] = "new"
  /\ conn' = [conn EXCEPT ![s] = "accepted"]
  /\ UNCHANGED <<life, writeBlocked, pool, session, lists, deleteAlarm, frame>>

(* A packet for a connection in time-wait, or of an unknown version, is    *)
(* answered: SendOrQueuePacket().  A failed send counts as sent.           *)
TimeWaitSend ==
  /\ phase = "serving" /\ frame = "loop"
  /\ \/ /\ WriteOk \/ WriteError
        /\ UNCHANGED <<pending, writeBlockedList>>
     \/ /\ pending < MaxPending
        /\ WriteBlocked
        /\ pending' = pending + 1
        /\ writeBlockedList' = OnWriteBlocked(writeBlockedList, TimeWait)
  /\ UNCHANGED <<life, session, conn, blocked, deleteAlarm, frame>>

(* Seeded bug: the size is compared before the push. *)
on_uv_send_ComparesFirst ==
  /\ frame = "loop" /\ flying > 0
  /\ flying' = flying - 1
  /\ avail' = avail + 1
  /\ IF writeBlocked /\ avail = MaxFlyingMessages
       THEN writeBlocked' = FALSE /\ frame' = "waking"
       ELSE UNCHANGED <<writeBlocked, frame>>
  /\ UNCHANGED <<life, cancelled, session, conn, lists, deleteAlarm>>

(* A queued packet has been sent.  A blocked listener waits for its whole  *)
(* pool before it calls OnTransportCanWrite().                             *)
on_uv_send ==
  /\ frame = "loop" /\ flying > 0
  /\ flying' = flying - 1
  /\ avail' = avail + 1
  /\ IF writeBlocked /\ avail' = MaxFlyingMessages
       THEN writeBlocked' = FALSE /\ frame' = "waking"
       ELSE UNCHANGED <<writeBlocked, frame>>
  /\ UNCHANGED <<life, cancelled, session, conn, lists, deleteAlarm>>

on_uv_send_closing ==
  /\ frame = "loop" /\ cancelled > 0
  /\ cancelled' = cancelled - 1
  /\ UNCHANGED <<life, writeBlocked, avail, flying, session, conn, lists, deleteAlarm, frame>>

(* One turn of the while of OnCanWrite(), up to the call of a session's    *)
(* OnBlockedWriterCanWrite(), which first makes its writer writable.       *)
OnCanWrite ==
  /\ frame = "waking"
  /\ writeBlockedList # <<>> /\ ~writeBlocked
  /\ Head(writeBlockedList) # TimeWait
  /\ blocked' = blocked \ {Head(writeBlockedList)}
  /\ writeBlockedList' = Tail(writeBlockedList)
  /\ frame' = "canwrite"
  /\ UNCHANGED <<life, writeBlocked, pool, session, conn, pending, deleteAlarm>>

OnBlockedWriterCanWriteReturns ==
  /\ frame = "canwrite"
  /\ frame' = "waking"
  /\ UNCHANGED <<life, writeBlocked, pool, session, conn, lists, deleteAlarm>>

(* The same turn for the time-wait list manager: it writes its queue until *)
(* the listener blocks it again.                                           *)
TimeWaitCanWrite ==
  /\ frame = "waking"
  /\ writeBlockedList # <<>> /\ ~writeBlocked
  /\ Head(writeBlockedList) = TimeWait
  /\ LET n == Min({pending, avail})
     IN  \E failed \in 0..(IF SendMayFail THEN n ELSE 0) :
           /\ avail' = avail - n
           /\ flying' = flying + n - failed
           /\ pending' = pending - n
  /\ writeBlocked' = (pending' > 0)
  /\ writeBlockedList' = IF pending' > 0
                           THEN OnWriteBlocked(Tail(writeBlockedList), TimeWait)
                           ELSE Tail(writeBlockedList)
  /\ UNCHANGED <<life, cancelled, session, conn, blocked, deleteAlarm, frame>>

OnCanWriteReturns ==
  /\ frame = "waking"
  /\ writeBlockedList = <<>> \/ writeBlocked
  /\ frame' = "loop"
  /\ UNCHANGED <<life, writeBlocked, pool, session, conn, lists, deleteAlarm>>

(* The alarm; an object without a handshake outlives its session. *)
DeleteSessions ==
  /\ frame = "loop" /\ deleteAlarm
  /\ session' = [s \in Session |-> IF s \in Closed THEN "none" ELSE session[s]]
  /\ deleteAlarm' = FALSE
  /\ UNCHANGED <<life, writeBlocked, pool, conn, lists, frame>>

-----------------------------------------------------------------------------
(* PUICSERVER_ListenerClose: Stop() and delete.                            *)

(* Seeded bug: the callbacks are cleared before the sessions are closed. *)
Stop_ClearsFirst ==
  /\ phase = "serving" /\ frame = "loop"
  /\ socket' = FALSE /\ callbacks' = FALSE
  /\ cancelled' = cancelled + flying /\ flying' = 0
  /\ writeBlocked' = TRUE
  /\ frame' = "closing"
  /\ UNCHANGED <<phase, avail, session, conn, lists, deleteAlarm>>

(* Up to the dispatcher's Shutdown().  uv_close() leaves the requests      *)
(* queued on the socket to be called back with ECANCELED.  (The Stop() of  *)
(* a listener that was never started returns at once.)                     *)
Stop ==
  /\ phase = "serving" /\ frame = "loop"
  /\ socket' = FALSE
  /\ cancelled' = cancelled + flying /\ flying' = 0
  /\ writeBlocked' = TRUE
  /\ frame' = "closing"
  /\ UNCHANGED <<phase, callbacks, avail, session, conn, lists, deleteAlarm>>

(* One turn of the while of Shutdown(). *)
Shutdown(s) ==
  /\ frame = "closing"
  /\ CloseConnection(s)
  /\ UNCHANGED <<life, frame>>

(* The rest: the sessions and the dispatcher, with its time-wait list, are *)
(* deleted, the callbacks cleared, the listener deleted.                   *)
StopReturns ==
  /\ frame = "closing" /\ Open = {}
  /\ session' = [s \in Session |-> "none"]
  /\ writeBlockedList' = <<>> /\ pending' = 0
  /\ deleteAlarm' = FALSE
  /\ callbacks' = FALSE
  /\ phase' = "deleted"
  /\ frame' = "loop"
  /\ UNCHANGED <<socket, writeBlocked, pool, conn, blocked>>

-----------------------------------------------------------------------------
Next ==
  \/ Start
  \/ \E s \in Session :
       \/ OnNewSession(s)
       \/ OnHandshaked(s)
       \/ SessionWrite(s)
       \/ SessionWriteError(s)
       \/ SessionCloses(s)
       \/ SessionLost(s)
       \/ Shutdown(s)
  \/ TimeWaitSend
  \/ on_uv_send
  \/ on_uv_send_closing
  \/ OnCanWrite
  \/ OnBlockedWriterCanWriteReturns
  \/ TimeWaitCanWrite
  \/ OnCanWriteReturns
  \/ DeleteSessions
  \/ Stop
  \/ StopReturns

Spec == Init /\ [][Next]_vars

(* Code on the stack returns, and every iteration of the loop runs the due *)
(* timers and the completed requests; a callback is not due while another  *)
(* is on the stack, hence strong fairness.                                 *)
FairSpec ==
  /\ Spec
  /\ SF_vars(on_uv_send)
  /\ SF_vars(on_uv_send_closing)
  /\ WF_vars(OnCanWrite)
  /\ WF_vars(OnBlockedWriterCanWriteReturns)
  /\ WF_vars(TimeWaitCanWrite)
  /\ WF_vars(OnCanWriteReturns)
  /\ SF_vars(DeleteSessions)
  /\ WF_vars(\E s \in Session : Shutdown(s))
  /\ WF_vars(StopReturns)

-----------------------------------------------------------------------------
(* Properties.                                                             *)

(* Type invariant. *)
TypeOK ==
  /\ phase \in {"new", "serving", "deleted"}
  /\ callbacks \in BOOLEAN /\ socket \in BOOLEAN
  /\ writeBlocked \in BOOLEAN /\ deleteAlarm \in BOOLEAN
  /\ avail \in 0..MaxFlyingMessages
  /\ flying \in 0..MaxFlyingMessages
  /\ cancelled \in 0..MaxFlyingMessages
  /\ session \in [Session -> {"none", "open", "closed"}]
  /\ conn \in [Session -> {"none", "new", "accepted"}]
  /\ writeBlockedList \in Seq(Session \cup {TimeWait})
  /\ blocked \subseteq Session
  /\ pending \in 0..MaxPending
  /\ frame \in {"loop", "waking", "canwrite", "closing"}

(* The dispatcher's list holds exactly the writers that wait, each once:   *)
(* the open sessions whose writer is blocked, and the time-wait list       *)
(* manager while it has packets queued.  OnCanWrite() calls nobody else,   *)
(* in particular no session that is closed or deleted.                     *)
BlockedAreQueued ==
  /\ TypeOK
  /\ ToSet(writeBlockedList) \cap Session = blocked
  /\ TimeWait \in ToSet(writeBlockedList) <=> pending > 0
  /\ blocked \subseteq Open
  /\ IsInjective(writeBlockedList)

(* Nobody waits for a listener that is writable, outside OnCanWrite(); and *)
(* a started listener that refuses writes, and has lost no request, has a  *)
(* send completion coming that will make it writable.                      *)
WakeupComing ==
  /\ writeBlockedList # <<>> => writeBlocked \/ frame \in {"waking", "canwrite"}
  /\ socket /\ writeBlocked /\ Lost = 0 => flying > 0

(* Every connection the user has accepted is still to be told to the user: *)
(* while there is one, its session is open and the callbacks are there to  *)
(* be called, through all of Stop().                                       *)
AcceptedAreTold ==
  \A s \in Session : conn[s] = "accepted" => session[s] = "open" /\ callbacks

(* No starvation: while no request is lost, a blocked session is called or *)
(* closed, however many other writers fill the pool again first.  The      *)
(* call may find the pool just emptied, so it does not promise a packet.   *)
BlockedGetTurn == \A s \in Session : s \in blocked ~> s \notin blocked \/ Lost > 0
=============================================================================
