----------------------------- MODULE Dispatcher -----------------------------
(***************************************************************************)
(* The server's dispatcher (puicbase/puic/puic_dispatcher.cc over          *)
(* QuicDispatcher and QuicBufferedPacketStore): where a received packet    *)
(* goes.  A connection id is known through its session, through packets    *)
(* that wait in the store for a CHLO or for the next batch of sessions, or *)
(* through the time-wait list; otherwise it is unknown.                    *)
(*                                                                         *)
(* Every action is one callback of the loop.  The stateless rejector is    *)
(* asked about a CHLO in the same call: its proof source answers at once.  *)
(***************************************************************************)
EXTENDS Integers, SequencesExt

CONSTANTS
  Id,                       \* connection ids
  MaxConnectionsInStore,    \* kDefaultMaxConnectionsInStore
  MaxUndecryptablePackets,  \* kDefaultMaxUndecryptablePackets
  MaxPer100ms               \* max_new_sessions_per_sec / 10 + 1

ASSUME DispatcherAssumption ==
  /\ MaxConnectionsInStore \in Nat
  /\ MaxUndecryptablePackets \in Nat \ {0}
  /\ MaxPer100ms \in Nat \ {0}

(* kMaxConnectionsWithoutCHLO *)
MaxConnectionsWithoutCHLO == MaxConnectionsInStore \div 2

VARIABLES
  open,             \* the dispatcher exists (Close() has not been called)
  sessions,         \* keys of session_map_
  closed,           \* closed_session_list_
  deleteAlarm,      \* delete_sessions_alarm_ is set
  timeWait,         \* keys of the time-wait list manager's map
  undecryptable,    \* keys of undecryptable_packets_, in insertion order
  packets,          \* the packets buffered for an id
  withChlo,         \* connections_with_chlo_, in insertion order
  expirationAlarm,  \* expiration_alarm_ is set
  old,              \* ids that were in the store when that alarm was set
  allowed           \* new_sessions_allowed_per_event_loop_

store == <<undecryptable, packets, withChlo, expirationAlarm, old>>
vars  == <<open, sessions, closed, deleteAlarm, timeWait, store, allowed>>

(* CreatePuicDispatcher() runs ProcessBufferedSessions() once. *)
Init ==
  /\ open = TRUE
  /\ sessions = {} /\ closed = {} /\ deleteAlarm = FALSE
  /\ timeWait = {}
  /\ undecryptable = <<>> /\ packets = [id \in Id |-> <<>>]
  /\ withChlo = <<>>
  /\ expirationAlarm = FALSE /\ old = {}
  /\ allowed = MaxPer100ms

-----------------------------------------------------------------------------
(* QuicBufferedPacketStore.                                                *)

HasBufferedPackets(id) == id \in ToSet(undecryptable)

HasChloForConnection(id) == id \in ToSet(withChlo)

(* Seeded bug: packets without a CHLO may fill the store. *)
ShouldBufferPacket_OneLimit(isChlo) == Len(undecryptable) >= MaxConnectionsInStore

(* Named the other way round in the code: true when the packet is dropped. *)
ShouldBufferPacket(isChlo) ==
  \/ Len(undecryptable) >= MaxConnectionsInStore
  \/ /\ ~isChlo
     /\ Len(undecryptable) - Len(withChlo) >= MaxConnectionsWithoutCHLO

TooManyPackets(id, isChlo) ==
  LET nonChlo == IF HasChloForConnection(id) THEN Len(packets[id]) - 1
                                             ELSE Len(packets[id])
  IN  ~isChlo /\ nonChlo >= MaxUndecryptablePackets

MaybeSetExpirationAlarm(ids) ==
  /\ expirationAlarm' = TRUE
  /\ old' = IF expirationAlarm THEN old ELSE ids

(* Seeded bug: the CHLO is queued behind the packets that came before it. *)
EnqueuePacket_ChloLast(id, isChlo) ==
  IF \/ ~HasBufferedPackets(id) /\ ShouldBufferPacket(isChlo)
     \/ TooManyPackets(id, isChlo)
    THEN UNCHANGED store
    ELSE /\ undecryptable' = IF HasBufferedPackets(id) THEN undecryptable
                                                       ELSE Append(undecryptable, id)
         /\ packets' = [packets EXCEPT ![id] =
                          Append(@, IF isChlo THEN "chlo" ELSE "early")]
         /\ withChlo' = IF isChlo /\ ~HasChloForConnection(id) THEN Append(withChlo, id)
                                                               ELSE withChlo
         /\ MaybeSetExpirationAlarm(ToSet(undecryptable'))

(* A full store and a full queue drop the packet.  A CHLO goes before the  *)
(* packets that overtook it.                                               *)
EnqueuePacket(id, isChlo) ==
  IF \/ ~HasBufferedPackets(id) /\ ShouldBufferPacket(isChlo)
     \/ TooManyPackets(id, isChlo)
    THEN UNCHANGED store
    ELSE /\ undecryptable' = IF HasBufferedPackets(id) THEN undecryptable
                                                       ELSE Append(undecryptable, id)
         /\ packets' = [packets EXCEPT ![id] =
                          IF isChlo THEN <<"chlo">> \o @ ELSE Append(@, "early")]
         /\ withChlo' = IF isChlo /\ ~HasChloForConnection(id) THEN Append(withChlo, id)
                                                               ELSE withChlo
         /\ MaybeSetExpirationAlarm(ToSet(undecryptable'))

(* A sequence without the members of a set. *)
Without(s, ids) == SelectSeq(s, LAMBDA id : id \notin ids)

(* undecryptable_packets_ loses ids. *)
EraseBuffered(ids) ==
  /\ undecryptable' = Without(undecryptable, ids)
  /\ packets' = [id \in Id |-> IF id \in ids THEN <<>> ELSE packets[id]]
  /\ old' = old \ ids

(* For the sessions of ids.  connections_with_chlo_ is left to the caller. *)
DeliverPackets(ids) == EraseBuffered(ids) /\ UNCHANGED expirationAlarm

DiscardPackets(id) ==
  /\ EraseBuffered({id})
  /\ withChlo' = Without(withChlo, {id})
  /\ UNCHANGED expirationAlarm

-----------------------------------------------------------------------------
(* Sessions.                                                               *)

(* OnConnectionClosed and CleanUpSession for the sessions of ids, which    *)
(* are, or by now would be, in session_map_ with the sessions `all'.       *)
OnConnectionClosed(all, ids) ==
  /\ sessions' = all \ ids
  /\ closed' = closed \cup ids
  /\ deleteAlarm' = (deleteAlarm \/ (closed = {} /\ ids # {}))
  /\ timeWait' = timeWait \cup ids

(* CreateQuicSession for the ids that leave the store, and the delivery of *)
(* their packets, which closes some of the sessions again.                 *)
CreateSessions(ids) ==
  \E failed \in SUBSET ids : OnConnectionClosed(sessions \cup ids, failed)

(* A received packet of an id that is still unknown: a CHLO, a packet that *)
(* came before its CHLO, or one that cannot start a connection (without a  *)
(* version, with a bad packet number, or a CHLO the rejector turns down).  *)
Kind == {"chlo", "early", "refused"}

(* kFateBuffer *)
BufferEarlyPacket(id) ==
  /\ EnqueuePacket(id, FALSE)
  /\ UNCHANGED <<sessions, closed, deleteAlarm, timeWait, allowed>>

(* kFateTimeWait.  Nothing may stay buffered for the id. *)
AddToTimeWait(id) ==
  /\ timeWait' = timeWait \cup {id}
  /\ DiscardPackets(id)
  /\ UNCHANGED <<sessions, closed, deleteAlarm, allowed>>

(* Seeded bug: the early packets of the new session stay in the store. *)
ProcessChlo_LeavesPackets(id) ==
  IF allowed = 0
    THEN /\ EnqueuePacket(id, TRUE)
         /\ UNCHANGED <<sessions, closed, deleteAlarm, timeWait, allowed>>
    ELSE /\ CreateSessions({id})
         /\ allowed' = allowed - 1
         /\ UNCHANGED store

(* kFateProcess: the CHLO waits for the next batch, or starts a session    *)
(* that also gets the packets that came before it.                         *)
ProcessChlo(id) ==
  IF allowed = 0
    THEN /\ EnqueuePacket(id, TRUE)
         /\ UNCHANGED <<sessions, closed, deleteAlarm, timeWait, allowed>>
    ELSE /\ CreateSessions({id})
         /\ DeliverPackets({id})
         /\ allowed' = allowed - 1
         /\ UNCHANGED withChlo

ProcessUnknown(id, kind) ==
  CASE kind = "early"   -> BufferEarlyPacket(id)
    [] kind = "refused" -> AddToTimeWait(id)
    [] kind = "chlo"    -> ProcessChlo(id)

(* The session of the id handles the packet, which may close it. *)
SessionCloses(id) ==
  /\ open /\ id \in sessions
  /\ OnConnectionClosed(sessions, {id})
  /\ UNCHANGED <<open, store, allowed>>

(* A packet for an id without a session.  The time-wait list answers for   *)
(* the ids it holds, without remembering anything but a count; everything  *)
(* that follows a buffered CHLO is buffered with it.                       *)
OnTransportReceived(id, kind) ==
  /\ open /\ id \notin sessions \cup timeWait
  /\ IF HasChloForConnection(id) THEN BufferEarlyPacket(id)
                                 ELSE ProcessUnknown(id, kind)
  /\ UNCHANGED open

-----------------------------------------------------------------------------
(* Alarms and shutdown.                                                    *)

(* Every 100 ms, sessions for the CHLOs that have waited longest. *)
ProcessBufferedSessions ==
  LET n     == Min({MaxPer100ms, Len(withChlo)})
      first == SubSeq(withChlo, 1, n)
  IN  /\ open
      /\ withChlo' = SubSeq(withChlo, n + 1, Len(withChlo))
      /\ CreateSessions(ToSet(first))
      /\ DeliverPackets(ToSet(first))
      /\ allowed' = MaxPer100ms - n
      /\ UNCHANGED open

(* Seeded bug: the alarm is not set again for what is left. *)
OnExpirationTimeout_NotSetAgain ==
  /\ open /\ expirationAlarm
  /\ \E n \in 0..Len(undecryptable) :
       LET expired == ToSet(SubSeq(undecryptable, 1, n))
       IN  /\ old \subseteq expired
           /\ EraseBuffered(expired)
           /\ withChlo' = Without(withChlo, expired)
           /\ timeWait' = timeWait \cup expired
  /\ expirationAlarm' = FALSE
  /\ UNCHANGED <<open, sessions, closed, deleteAlarm, allowed>>

(* The oldest entries go to the time-wait list: all that were in the store *)
(* when the alarm was set, and more if it fires late.  If some are left    *)
(* the alarm is set again.                                                 *)
OnExpirationTimeout ==
  /\ open /\ expirationAlarm
  /\ \E n \in 0..Len(undecryptable) :
       LET expired == ToSet(SubSeq(undecryptable, 1, n))
           rest    == SubSeq(undecryptable, n + 1, Len(undecryptable))
       IN  /\ old \subseteq expired
           /\ undecryptable' = rest
           /\ packets' = [id \in Id |-> IF id \in expired THEN <<>> ELSE packets[id]]
           /\ withChlo' = Without(withChlo, expired)
           /\ timeWait' = timeWait \cup expired
           /\ expirationAlarm' = (rest # <<>>)
           /\ old' = ToSet(rest)
  /\ UNCHANGED <<open, sessions, closed, deleteAlarm, allowed>>

DeleteSessions ==
  /\ open /\ deleteAlarm
  /\ closed' = {} /\ deleteAlarm' = FALSE
  /\ UNCHANGED <<open, sessions, timeWait, store, allowed>>

(* An id leaves the time-wait list after 200 s; the alarm that deletes its *)
(* session is due at once.                                                 *)
CleanUpOldConnectionIds(id) ==
  /\ open /\ id \in timeWait /\ closed = {}
  /\ timeWait' = timeWait \ {id}
  /\ UNCHANGED <<open, sessions, closed, deleteAlarm, store, allowed>>

(* Shutdown() closes and deletes every session; PuicListener::Stop then    *)
(* destroys the dispatcher with its lists and its alarms.                  *)
Close ==
  /\ open
  /\ open' = FALSE
  /\ sessions' = {} /\ closed' = {} /\ deleteAlarm' = FALSE
  /\ timeWait' = {}
  /\ undecryptable' = <<>> /\ packets' = [id \in Id |-> <<>>]
  /\ withChlo' = <<>>
  /\ expirationAlarm' = FALSE /\ old' = {}
  /\ UNCHANGED allowed

Next ==
  \/ \E id \in Id :
       \/ \E kind \in Kind : OnTransportReceived(id, kind)
       \/ SessionCloses(id)
       \/ CleanUpOldConnectionIds(id)
  \/ ProcessBufferedSessions
  \/ OnExpirationTimeout
  \/ DeleteSessions
  \/ Close

Spec == Init /\ [][Next]_vars

(* The loop runs its timers. *)
FairSpec ==
  /\ Spec
  /\ WF_vars(ProcessBufferedSessions)
  /\ WF_vars(OnExpirationTimeout)
  /\ WF_vars(DeleteSessions)

-----------------------------------------------------------------------------
(* Properties.                                                             *)

(* Type invariant. *)
TypeOK ==
  /\ open \in BOOLEAN /\ deleteAlarm \in BOOLEAN /\ expirationAlarm \in BOOLEAN
  /\ sessions \subseteq Id /\ closed \subseteq Id /\ timeWait \subseteq Id
  /\ undecryptable \in Seq(Id) /\ withChlo \in Seq(Id) /\ old \subseteq Id
  /\ packets \in [Id -> Seq({"chlo", "early"})]
  /\ allowed \in 0..MaxPer100ms

(* An id has at most one home: while it has a session nothing is buffered  *)
(* for it (the DCHECK of OnUnauthenticatedPublicHeader), so that the       *)
(* insertion of a new session into session_map_ always succeeds, and an id *)
(* that is refused has neither.                                            *)
OneHome ==
  /\ sessions \cap timeWait = {}
  /\ sessions \cap ToSet(undecryptable) = {}
  /\ timeWait \cap ToSet(undecryptable) = {}

(* The two maps of the store agree: an id in connections_with_chlo_ has    *)
(* buffered packets, of which the first and no other is the CHLO, and the  *)
(* other ids have none.  The code checks it only where it takes packets    *)
(* out ("Try to deliver connectons without CHLO").                         *)
StoreConsistent ==
  /\ IsInjective(undecryptable) /\ IsInjective(withChlo)
  /\ ToSet(undecryptable) = {id \in Id : packets[id] # <<>>}
  /\ \A id \in Id : \A i \in DOMAIN packets[id] :
       packets[id][i] = "chlo" <=> i = 1 /\ HasChloForConnection(id)
  /\ ToSet(withChlo) \subseteq ToSet(undecryptable)

(* What clients can make the server keep is bounded: connections, those    *)
(* without a CHLO (so that they leave room for the others; the subtraction *)
(* of two unsigned sizes does not wrap), and packets of each.  The budget  *)
(* of new sessions, an int16, stays between zero and its limit (TypeOK).   *)
StoreBounded ==
  /\ TypeOK
  /\ Len(undecryptable) <= MaxConnectionsInStore
  /\ Len(undecryptable) - Len(withChlo) \in 0..MaxConnectionsWithoutCHLO
  /\ \A id \in Id :
       Len(packets[id]) <=
         MaxUndecryptablePackets + (IF HasChloForConnection(id) THEN 1 ELSE 0)

(* No id stays in the store: its CHLO is given a session, or it expires,   *)
(* even if the alarm was set for an entry that has long left.              *)
BufferedLeave ==
  \A id \in Id : HasBufferedPackets(id) ~> ~HasBufferedPackets(id)
=============================================================================
