---------------------------- MODULE DialerProofs ----------------------------
(* Proofs that the safety invariants of Dialer hold for any set of         *)
(* connections and any pool size.                                          *)
EXTENDS Dialer, SequenceTheorems, TLAPS

(* Erasing from a queue without repetitions removes exactly that element:  *)
(* m_blockedConns.erase(conn).                                             *)
LEMMA EraseLemma ==
  ASSUME NEW S, NEW s \in Seq(S), IsInjective(s), NEW c
  PROVE  /\ Erase(s, c) \in Seq(S)
         /\ ToSet(Erase(s, c)) = ToSet(s) \ {c}
         /\ IsInjective(Erase(s, c))
<1>1. CASE c \notin ToSet(s)
  BY <1>1 DEF Erase, ToSet
<1>2. CASE c \in ToSet(s)
  <2> DEFINE i == CHOOSE j \in DOMAIN s : s[j] = c
             t == RemoveAt(s, i)
  <2>1. i \in 1..Len(s) /\ s[i] = c
    BY <1>2 DEF ToSet
  <2>2. Erase(s, c) = t
    BY <1>2 DEF Erase
  <2> HIDE DEF i
  <2>3. /\ t \in Seq(S)
        /\ Len(t) = Len(s) - 1
        /\ \A k \in 1..Len(t) : t[k] = IF k < i THEN s[k] ELSE s[k + 1]
    <3> DEFINE a == SubSeq(s, 1, i - 1)
               b == SubSeq(s, i + 1, Len(s))
    <3>1. /\ a \in Seq(S) /\ Len(a) = i - 1
          /\ \A k \in 1..(i - 1) : a[k] = s[k]
      BY <2>1, SubSeqProperties
    <3>2. /\ b \in Seq(S) /\ Len(b) = Len(s) - i
          /\ \A k \in 1..(Len(s) - i) : b[k] = s[k + i]
      BY <2>1, SubSeqProperties
    <3>3. t = a \o b
      BY DEF RemoveAt
    <3> HIDE DEF a, b, t
    <3>4. /\ t \in Seq(S) /\ Len(t) = Len(a) + Len(b)
          /\ \A k \in 1..Len(t) : t[k] = IF k <= Len(a) THEN a[k] ELSE b[k - Len(a)]
      BY <3>1, <3>2, <3>3, ConcatProperties
    <3>5. ASSUME NEW k \in 1..Len(t)
          PROVE  t[k] = IF k < i THEN s[k] ELSE s[k + 1]
      <4>1. CASE k < i
        BY <2>1, <3>1, <3>2, <3>4, <4>1
      <4>2. CASE ~(k < i)
        <5>1. k - Len(a) \in 1..(Len(s) - i) /\ (k - Len(a)) + i = k + 1 /\ ~(k <= Len(a))
          BY <2>1, <3>1, <3>2, <3>4, <4>2
        <5> QED BY <3>2, <3>4, <4>2, <5>1
      <4> QED BY <4>1, <4>2
    <3> QED BY <2>1, <3>1, <3>2, <3>4, <3>5
  <2> HIDE DEF t
  <2>4. IsInjective(t)
    <3> SUFFICES ASSUME NEW k \in 1..Len(t), NEW l \in 1..Len(t), t[k] = t[l]
                 PROVE  k = l
      BY <2>3 DEF IsInjective
    <3> DEFINE pos(m) == IF m < i THEN m ELSE m + 1
    <3>1. pos(k) \in 1..Len(s) /\ pos(l) \in 1..Len(s) /\ s[pos(k)] = s[pos(l)]
      BY <2>1, <2>3
    <3>2. pos(k) = pos(l)
      BY <3>1 DEF IsInjective
    <3> QED BY <2>1, <3>2
  <2>5. ToSet(t) = ToSet(s) \ {c}
    <3>1. ASSUME NEW k \in 1..Len(t) PROVE t[k] \in ToSet(s) \ {c}
      BY <2>1, <2>3, <3>1 DEF IsInjective, ToSet
    <3>2. ASSUME NEW x \in ToSet(s) \ {c} PROVE \E k \in 1..Len(t) : t[k] = x
      <4>1. PICK j \in 1..Len(s) : s[j] = x
        BY <3>2 DEF ToSet
      <4>2. CASE j < i
        BY <2>1, <2>3, <4>1, <4>2
      <4>3. CASE j > i
        <5>1. j - 1 \in 1..Len(t) /\ t[j - 1] = x
          BY <2>1, <2>3, <4>1, <4>3
        <5> QED BY <5>1
      <4> QED BY <2>1, <3>2, <4>1, <4>2, <4>3
    <3>3. ToSet(t) = {t[k] : k \in 1..Len(t)}
      BY <2>3 DEF ToSet
    <3> QED BY <3>1, <3>2, <3>3
  <2> QED BY <2>2, <2>3, <2>4, <2>5
<1> QED BY <1>1, <1>2

(* A connection that blocks joins the queue once: m_blockedConns.insert(). *)
LEMMA InsertLemma ==
  ASSUME NEW S, NEW s \in Seq(S), IsInjective(s), NEW c \in S
  PROVE  /\ Insert(s, c) \in Seq(S)
         /\ ToSet(Insert(s, c)) = ToSet(s) \cup {c}
         /\ IsInjective(Insert(s, c))
<1>1. CASE c \in ToSet(s)
  BY <1>1 DEF Insert
<1>2. CASE c \notin ToSet(s)
  <2> DEFINE t == Append(s, c)
  <2>1. t \in Seq(S) /\ Len(t) = Len(s) + 1 /\ t[Len(t)] = c
        /\ \A k \in 1..Len(s) : t[k] = s[k]
    OBVIOUS
  <2> HIDE DEF t
  <2>2. IsInjective(t)
    BY <1>2, <2>1 DEF IsInjective, ToSet
  <2>3. ToSet(t) = ToSet(s) \cup {c}
    BY <2>1 DEF ToSet
  <2> QED BY <1>2, <2>1, <2>2, <2>3 DEF t, Insert
<1> QED BY <1>1, <1>2

(* wakeup() takes the first connection off the queue. *)
LEMMA TailLemma ==
  ASSUME NEW S, NEW s \in Seq(S), IsInjective(s), s # <<>>
  PROVE  /\ Head(s) \in ToSet(s)
         /\ Tail(s) \in Seq(S)
         /\ ToSet(Tail(s)) = ToSet(s) \ {Head(s)}
         /\ IsInjective(Tail(s))
<1> DEFINE t == Tail(s)
<1>1. t \in Seq(S) /\ Len(t) = Len(s) - 1 /\ Len(s) > 0 /\ Head(s) = s[1]
      /\ \A k \in 1..Len(t) : t[k] = s[k + 1]
  OBVIOUS
<1> HIDE DEF t
<1>2. IsInjective(t)
  <2> SUFFICES ASSUME NEW k \in 1..Len(t), NEW l \in 1..Len(t), t[k] = t[l]
               PROVE  k = l
    BY <1>1 DEF IsInjective
  <2>1. k + 1 \in 1..Len(s) /\ l + 1 \in 1..Len(s) /\ s[k + 1] = s[l + 1]
    BY <1>1
  <2>2. k + 1 = l + 1
    BY <2>1 DEF IsInjective
  <2> QED BY <2>2
<1>3. ToSet(t) = ToSet(s) \ {Head(s)}
  <2>1. ASSUME NEW k \in 1..Len(t) PROVE t[k] \in ToSet(s) \ {Head(s)}
    BY <1>1, <2>1 DEF IsInjective, ToSet
  <2>2. ASSUME NEW x \in ToSet(s) \ {Head(s)} PROVE \E k \in 1..Len(t) : t[k] = x
    <3>1. PICK j \in 1..Len(s) : s[j] = x
      BY <2>2 DEF ToSet
    <3>2. j - 1 \in 1..Len(t) /\ t[j - 1] = x
      BY <1>1, <2>2, <3>1
    <3> QED BY <3>2
  <2>3. ToSet(t) = {t[k] : k \in 1..Len(t)}
    BY <1>1 DEF ToSet
  <2> QED BY <2>1, <2>2, <2>3
<1> QED BY <1>1, <1>2, <1>3 DEF t, ToSet

-----------------------------------------------------------------------------
(* Whatever WritePacket answers, the pool stays whole, nothing is queued   *)
(* on a null socket, and a dialer it leaves blocked has a completion       *)
(* coming unless a request was lost.                                       *)
LEMMA WritePacketLemma ==
  ASSUME TypeOK, RequestsConserved, SendsOnLiveSocket, WakeupComing,
         cryptoConfig, ~writeBlocked => socket,
         UNCHANGED <<cryptoConfig, socket>>,
         WriteOk \/ WriteBlocked \/ WriteError
  PROVE  /\ PoolTypeOK' /\ RequestsConserved' /\ SendsOnLiveSocket' /\ WakeupComing'
         /\ writeBlocked' \in BOOLEAN /\ (writeBlocked => writeBlocked')
<1> USE DialerAssumption DEF TypeOK, PoolTypeOK, RequestsConserved, pool
<1>1. CASE WriteOk
  <2>1. PoolTypeOK' /\ RequestsConserved'
    BY <1>1 DEF WriteOk
  <2>2. SendsOnLiveSocket'
    BY <1>1 DEF WriteOk, SendsOnLiveSocket
  <2>3. ~writeBlocked'
    BY <1>1 DEF WriteOk
  <2> QED BY <1>1, <2>1, <2>2, <2>3 DEF WriteOk, WakeupComing
<1>2. CASE WriteBlocked
  <2>1. PoolTypeOK' /\ RequestsConserved' /\ SendsOnLiveSocket'
    BY <1>2 DEF WriteBlocked, SendsOnLiveSocket
  <2>2. CASE writeBlocked
    BY <1>2, <2>1, <2>2 DEF WriteBlocked, WakeupComing, Lost
  <2>3. CASE ~writeBlocked
    <3>1. avail = 0 /\ UNCHANGED <<avail, flying>>
      BY <1>2, <2>3 DEF WriteBlocked
    <3>2. Lost' = 0 => flying' > 0
      BY <3>1 DEF Lost
    <3> QED BY <1>2, <2>1, <2>3, <3>2 DEF WriteBlocked, WakeupComing
  <2> QED BY <2>2, <2>3
<1>3. CASE WriteError
  <2>1. PoolTypeOK' /\ RequestsConserved'
    BY <1>3 DEF WriteError
  <2>2. ~writeBlocked' /\ SendsOnLiveSocket'
    BY <1>3 DEF WriteError, SendsOnLiveSocket
  <2> QED BY <1>3, <2>1, <2>2 DEF WriteError, WakeupComing
<1> QED BY <1>1, <1>2, <1>3

(* Every way of closing a connection keeps the queue of wakeup() exact:    *)
(* OnConnClosed removes the connection from all the tables it is in.       *)
LEMMA OnConnClosedQueue ==
  ASSUME TypeOK, BlockedAreQueued, NEW c \in Conn, OnConnClosed(c)
  PROVE  BlockedAreQueued' /\ blockedConns' \in Seq(Conn)
<1>1. /\ blockedConns' \in Seq(Conn)
      /\ ToSet(blockedConns') = ToSet(blockedConns) \ {c}
      /\ IsInjective(blockedConns')
  BY EraseLemma DEF TypeOK, BlockedAreQueued, OnConnClosed
<1> QED BY <1>1 DEF BlockedAreQueued, OnConnClosed

(* A connection that writes, whether or not the dialer takes the packet,   *)
(* keeps the dialer's invariants.                                          *)
LEMMA ConnWriteStep ==
  ASSUME DialerInv, NEW c \in Conn, ConnWrite(c)
  PROVE  DialerInv'
<1> USE DEF DialerInv, life
<1>1. /\ cryptoConfig /\ (~writeBlocked => socket)
      /\ UNCHANGED <<phase, cryptoConfig, socket, conns, closedConns, armed, frame>>
  BY DEF ConnWrite, InSession, FlagsAgree, StoppedIsEmpty
<1>2. /\ PoolTypeOK' /\ RequestsConserved' /\ SendsOnLiveSocket' /\ WakeupComing'
      /\ writeBlocked' \in BOOLEAN /\ (writeBlocked => writeBlocked')
  <2>1. CASE c \notin blocked
    BY <1>1, <2>1, WritePacketLemma DEF ConnWrite
  <2>2. CASE c \in blocked
    BY <1>1, <2>2 DEF ConnWrite, TypeOK, PoolTypeOK, RequestsConserved,
       SendsOnLiveSocket, WakeupComing, Lost, pool
  <2> QED BY <2>1, <2>2
<1>3. OnConnWriteBlocked(c) => /\ blockedConns' \in Seq(Conn)
                               /\ ToSet(blockedConns') = ToSet(blockedConns) \cup {c}
                               /\ IsInjective(blockedConns')
  BY InsertLemma DEF OnConnWriteBlocked, BlockedAreQueued, TypeOK
<1>4. BlockedAreQueued' /\ blockedConns' \in Seq(Conn)
  BY <1>3 DEF ConnWrite, BlockedAreQueued, TypeOK
<1>5. NoMissedWakeup'
  BY <1>1 DEF ConnWrite, NoMissedWakeup, WriteOk, WriteBlocked
<1>6. TypeOK'
  BY <1>1, <1>2, <1>4 DEF ConnWrite, TypeOK
<1>7. FlagsAgree' /\ ClosedAreScheduled' /\ StoppedIsEmpty'
  BY <1>1, <1>2 DEF FlagsAgree, ClosedAreScheduled, StoppedIsEmpty
<1> QED BY <1>2, <1>4, <1>5, <1>6, <1>7

(* A connection that closes, with or without a last packet, keeps the      *)
(* dialer's invariants: the alarm is set whenever there is something to    *)
(* delete.                                                                 *)
LEMMA ConnCloseStep ==
  ASSUME DialerInv, NEW c \in conns, OnConnClosed(c), UNCHANGED <<life, frame>>,
         \/ UNCHANGED <<writeBlocked, pool>>
         \/ WriteOk \/ WriteBlocked \/ WriteError
  PROVE  DialerInv'
<1> USE DEF DialerInv, life
<1>1. /\ c \in Conn /\ cryptoConfig /\ (~writeBlocked => socket)
      /\ UNCHANGED <<phase, cryptoConfig, socket, frame>>
  BY DEF FlagsAgree, StoppedIsEmpty, TypeOK
<1>2. /\ PoolTypeOK' /\ RequestsConserved' /\ SendsOnLiveSocket' /\ WakeupComing'
      /\ writeBlocked' \in BOOLEAN /\ (writeBlocked => writeBlocked')
  <2>1. CASE WriteOk \/ WriteBlocked \/ WriteError
    BY <1>1, <2>1, WritePacketLemma
  <2>2. CASE UNCHANGED <<writeBlocked, pool>>
    BY <1>1, <2>2 DEF TypeOK, PoolTypeOK, RequestsConserved, SendsOnLiveSocket,
       WakeupComing, Lost, pool
  <2> QED BY <2>1, <2>2
<1>3. BlockedAreQueued' /\ blockedConns' \in Seq(Conn)
  BY <1>1, OnConnClosedQueue
<1>4. TypeOK'
  BY <1>1, <1>2, <1>3 DEF OnConnClosed, TypeOK
<1>5. FlagsAgree'
  BY <1>1, <1>2 DEF OnConnClosed, FlagsAgree
<1>6. ClosedAreScheduled'
  BY <1>1 DEF OnConnClosed, ClosedAreScheduled, TypeOK
<1>7. NoMissedWakeup'
  BY <1>1, <1>2 DEF OnConnClosed, NoMissedWakeup
<1>8. StoppedIsEmpty'
  BY <1>1 DEF StoppedIsEmpty
<1> QED BY <1>2, <1>3, <1>4, <1>5, <1>6, <1>7, <1>8

(* With no request lost, an incomplete pool means requests on the socket.  *)
LEMMA PoolArithmetic ==
  \A a, f \in 0..MaxFlyingMessages :
    a # MaxFlyingMessages /\ MaxFlyingMessages - a - f = 0 => f > 0
BY DialerAssumption

(* on_uv_send keeps the dialer's invariants: it takes the last request     *)
(* back only together with the block.                                      *)
LEMMA SendStep ==
  ASSUME DialerInv, on_uv_send
  PROVE  DialerInv'
<1> USE DialerAssumption DEF DialerInv, life, sessions
<1>1. PoolTypeOK' /\ RequestsConserved' /\ SendsOnLiveSocket'
  BY DEF on_uv_send, TypeOK, PoolTypeOK, RequestsConserved, SendsOnLiveSocket
<1>2. TypeOK'
  BY <1>1 DEF on_uv_send, TypeOK
<1>3. WakeupComing'
  <2> SUFFICES (writeBlocked /\ Lost = 0)' => (flying > 0)'
    BY DEF WakeupComing
  <2>1. writeBlocked' => avail' # MaxFlyingMessages
    BY DEF on_uv_send, TypeOK
  <2>2. avail' \in 0..MaxFlyingMessages /\ flying' \in 0..MaxFlyingMessages
    BY <1>1 DEF PoolTypeOK
  <2>3. avail' # MaxFlyingMessages /\ Lost' = 0 => flying' > 0
    BY <2>2, PoolArithmetic, Zenon DEF Lost
  <2> QED BY <2>1, <2>3
<1>4. cryptoConfig /\ socket
  BY DEF on_uv_send, SendsOnLiveSocket, StoppedIsEmpty, TypeOK, PoolTypeOK
<1>5. FlagsAgree' /\ StoppedIsEmpty' /\ ClosedAreScheduled' /\ NoMissedWakeup' /\ BlockedAreQueued'
  BY <1>4 DEF on_uv_send, FlagsAgree, StoppedIsEmpty, ClosedAreScheduled, NoMissedWakeup,
     BlockedAreQueued
<1> QED BY <1>1, <1>2, <1>3, <1>5

(* Both ways of stopping keep the dialer's invariants: the socket goes     *)
(* with its requests, and only an empty dialer ends up stopped.            *)
LEMMA StopSteps ==
  ASSUME DialerInv, DeleteConnsAlarm \/ DialerClose \/ StopReturns
  PROVE  DialerInv'
<1> USE DialerAssumption DEF DialerInv, pool, sessions
<1>1. conns = {} => blockedConns = <<>>
  <2>1. blocked = {} => ToSet(blockedConns) = {}
    BY DEF BlockedAreQueued
  <2>2. ToSet(blockedConns) = {} => blockedConns = <<>>
    BY TailLemma DEF TypeOK, BlockedAreQueued
  <2> QED BY <2>1, <2>2 DEF BlockedAreQueued
<1>2. PoolTypeOK' /\ RequestsConserved'
  BY DEF DeleteConnsAlarm, DialerClose, StopReturns, CloseSocket, TypeOK, PoolTypeOK,
     RequestsConserved
<1>3. TypeOK'
  BY <1>2 DEF DeleteConnsAlarm, DialerClose, StopReturns, CloseSocket, TypeOK
<1>4. SendsOnLiveSocket' /\ WakeupComing'
  BY DEF DeleteConnsAlarm, DialerClose, StopReturns, CloseSocket, SendsOnLiveSocket,
     WakeupComing, Lost
<1>5. /\ BlockedAreQueued'
      /\ NoMissedWakeup'
      /\ ClosedAreScheduled'
  <2>1. BlockedAreQueued'
    BY DEF DeleteConnsAlarm, DialerClose, StopReturns, BlockedAreQueued
  <2>2. NoMissedWakeup'
    BY DEF DeleteConnsAlarm, DialerClose, StopReturns, CloseSocket, NoMissedWakeup,
       FlagsAgree
  <2>3. ClosedAreScheduled'
    BY DEF DeleteConnsAlarm, DialerClose, StopReturns, ClosedAreScheduled,
       StoppedIsEmpty
  <2> QED BY <2>1, <2>2, <2>3
<1>6. FlagsAgree'
  BY DEF DeleteConnsAlarm, DialerClose, StopReturns, CloseSocket, FlagsAgree
<1>7. StoppedIsEmpty'
  BY <1>1 DEF DeleteConnsAlarm, DialerClose, StopReturns, CloseSocket, StoppedIsEmpty,
     FlagsAgree, SendsOnLiveSocket, TypeOK, PoolTypeOK
<1> QED BY <1>2, <1>3, <1>4, <1>5, <1>6, <1>7

-----------------------------------------------------------------------------
(* The safety invariants of the dialer are inductive: no callback, API     *)
(* call or connection step breaks them.                                    *)
LEMMA DialerStep == DialerInv /\ [Next]_vars => DialerInv'
<1> SUFFICES ASSUME DialerInv, [Next]_vars PROVE DialerInv'
  OBVIOUS
<1> USE DialerAssumption DEF DialerInv, TypeOK, FlagsAgree, RequestsConserved,
      SendsOnLiveSocket, NoMissedWakeup, WakeupComing, ClosedAreScheduled,
      StoppedIsEmpty, PoolTypeOK, Lost, life, pool, sessions
<1>1. CASE DialerStart
  BY <1>1 DEF DialerStart, start, BlockedAreQueued
<1>2. ASSUME NEW c \in Conn, CreateConn(c) PROVE DialerInv'
  BY <1>2 DEF CreateConn, InSession, start, BlockedAreQueued
<1>3. ASSUME NEW c \in Conn, ConnWrite(c) PROVE DialerInv'
  BY <1>3, ConnWriteStep
<1>4. ASSUME NEW c \in Conn,
             ConnWriteError(c) \/ ConnDisconnect(c) \/ ConnLost(c) \/ StopClosesConn(c)
      PROVE  DialerInv'
  <2>1. /\ c \in conns /\ OnConnClosed(c) /\ UNCHANGED <<life, frame>>
        /\ \/ UNCHANGED <<writeBlocked, pool>>
           \/ WriteOk \/ WriteBlocked \/ WriteError
    BY <1>4 DEF ConnWriteError, ConnDisconnect, ConnLost, StopClosesConn, SessionClose
  <2> QED BY <2>1, ConnCloseStep
<1>5. CASE on_uv_send
  BY <1>5, SendStep
<1>6. CASE on_uv_send_closing
  BY <1>6 DEF on_uv_send_closing, BlockedAreQueued
<1>7. CASE wakeup
  <2>1. /\ blockedConns' \in Seq(Conn)
        /\ ToSet(blockedConns') = ToSet(blockedConns) \ {Head(blockedConns)}
        /\ IsInjective(blockedConns')
    BY <1>7, TailLemma DEF wakeup, BlockedAreQueued
  <2> QED BY <1>7, <2>1 DEF wakeup, BlockedAreQueued
<1>8. CASE OnTransportCanWriteReturns
  BY <1>8 DEF OnTransportCanWriteReturns, BlockedAreQueued
<1>9. CASE wakeupReturns
  <2>1. blockedConns = <<>> => blocked = {}
    BY DEF BlockedAreQueued, ToSet
  <2> QED BY <1>9, <2>1 DEF wakeupReturns, BlockedAreQueued
<1>10. CASE DeleteConnsAlarm \/ DialerClose \/ StopReturns
  BY <1>10, StopSteps
<1>11. CASE UNCHANGED vars
  BY <1>11 DEF vars, BlockedAreQueued
<1> QED
  BY <1>1, <1>2, <1>3, <1>4, <1>5, <1>6, <1>7, <1>8, <1>9, <1>10, <1>11 DEF Next

(* The dialer's safety invariants hold in every reachable state, for every *)
(* set of connections and every pool size, whether or not sends may fail.  *)
THEOREM DialerSafe == Spec => []DialerInv
<1>1. Init => DialerInv
  <2> SUFFICES ASSUME Init PROVE DialerInv
    OBVIOUS
  <2>1. BlockedAreQueued
    BY DEF Init, BlockedAreQueued, ToSet, IsInjective
  <2>2. PoolTypeOK /\ RequestsConserved /\ SendsOnLiveSocket /\ WakeupComing
    BY DialerAssumption DEF Init, PoolTypeOK, RequestsConserved, SendsOnLiveSocket,
       WakeupComing
  <2>3. TypeOK
    <3>1. blockedConns \in Seq(Conn)
      BY DEF Init
    <3> QED BY <2>2, <3>1 DEF Init, TypeOK
  <2> QED BY <2>1, <2>2, <2>3 DEF Init, DialerInv, FlagsAgree, NoMissedWakeup,
             ClosedAreScheduled, StoppedIsEmpty
<1> QED BY <1>1, DialerStep, PTL DEF Spec

(* The variables of the dialer keep their types; the pool counters in      *)
(* particular never leave 0..MaxFlyingMessages.                            *)
THEOREM DialerTypes == Spec => []TypeOK
<1>1. DialerInv => TypeOK
  BY DEF DialerInv
<1> QED BY <1>1, DialerSafe, PTL

(* No lost wakeup: blocked connections are queued exactly once, wakeup()   *)
(* leaves nobody behind at a writable dialer, and while no request is lost *)
(* a blocked dialer has a completion coming.                               *)
THEOREM NoLostWakeup == Spec => [](BlockedAreQueued /\ NoMissedWakeup /\ WakeupComing)
<1>1. DialerInv => BlockedAreQueued /\ NoMissedWakeup /\ WakeupComing
  BY DEF DialerInv
<1> QED BY <1>1, DialerSafe, PTL

(* The socket is never closed under an open connection, except by          *)
(* DialerClose, which closes the connections too.                          *)
THEOREM SocketOutlives == Spec => SocketOutlivesConns
<1>1. DialerInv /\ [Next]_vars => [socket /\ ~socket' => conns' = {} \/ frame' = "closing"]_vars
  <2> SUFFICES ASSUME DialerInv, Next, socket, ~socket'
               PROVE  conns' = {} \/ frame' = "closing"
    OBVIOUS
  <2>1. CASE DialerStart \/ \E c \in Conn : CreateConn(c)
    BY <2>1 DEF DialerStart, CreateConn, start
  <2>2. CASE \E c \in Conn : \/ ConnWrite(c) \/ ConnWriteError(c) \/ ConnDisconnect(c)
                            \/ ConnLost(c) \/ StopClosesConn(c)
    BY <2>2 DEF ConnWrite, ConnWriteError, ConnDisconnect, ConnLost, StopClosesConn, life
  <2>3. CASE on_uv_send \/ on_uv_send_closing \/ wakeup \/ wakeupReturns
             \/ OnTransportCanWriteReturns
    BY <2>3 DEF on_uv_send, on_uv_send_closing, wakeup, wakeupReturns,
       OnTransportCanWriteReturns, life
  <2>4. CASE DeleteConnsAlarm
    BY <2>4 DEF DeleteConnsAlarm
  <2>5. CASE DialerClose
    BY <2>5 DEF DialerClose
  <2>6. CASE StopReturns
    BY <2>6 DEF StopReturns
  <2> QED BY <2>1, <2>2, <2>3, <2>4, <2>5, <2>6 DEF Next
<1> QED BY <1>1, DialerSafe, PTL DEF Spec, SocketOutlivesConns
=============================================================================
