# A TLA+ development for puic

puic relays TCP connections over "PUIC", a stripped-down QUIC. An **agent**
accepts TCP connections and opens one PUIC connection per TCP connection; a
**proxy** accepts PUIC connections and opens one TCP connection per PUIC
connection. Both are single-threaded libuv programs on top of a client library,
a server library and a vendored copy of Chromium's QUIC.

This directory holds TLA+ modules for the parts of the system in which state,
ordering and lifetimes are hard to get right, TLC configurations that check
them on small instances, and TLAPS proofs for the core. Paths below are relative to
`src/`. `PROJECT.json` maps every definition to the lines it models.

## 1. The system

| Part | Source | State | Operations | Modelled in |
|---|---|---|---|---|
| Dialer | `puicclient/src/puic_client.cc` | socket, pool of send requests, `m_conns`, `m_closedConns`, `m_blockedConns`, `m_writeBlocked`, delete alarm | start, stop, CreateConn, WritePacket, on_uv_send, wakeup, OnConnClosed, the alarm | `Dialer` |
| Client C API | `puicclient/src/puic_client_lib.cc` | none of its own | DialerStart/Close, CreateConn, ConnDisconnect, ConnReadableRegions, ConnMarkConsumed, ConnWrite | `Dialer`, `Relay` |
| Per-session writer | `puicbase/puic/puic_per_session_writer.cc` | `blocked_` | WritePacket, SetWritable | `Dialer`, `Listener` |
| Agent TCP side | `puicagent/src/agent_server.cc` | handle, `m_reading`, `m_writing`, the two eof flags, `m_closed`, `m_uvclosed` | Accept, Close, StartRead, StopRead, Write, Shutdown and the uv callbacks | `Relay`, `AgentRelay` |
| Agent relay | `puicagent/src/puic_agent.cc` | jobs, `m_cleanJobs` | ProxyJob callbacks, both copy directions, clean, Monitor, Stop | `Relay`, `AgentRelay` |
| Proxy | `puicproxy/src/puic_proxy.cc` | the same, plus connect phase and PROXY header | the same, plus connect and SendPPH | `Relay`, `ProxyRelay` |
| PUIC stream | `puicbase/puic/puic_stream.cc` | send and receive buffers, FINs | Write, GetReadableRegions, MarkConsumed, IsEOF, OnCanWrite | `Relay` (what it promises), `Stream` (how) |
| Dispatcher | `puicbase/puic/puic_dispatcher.cc`, `puicbase/net/tools/quic/quic_dispatcher.cc` | session map, closed sessions, packet store, time-wait list, session budget | packet routing, batches of sessions, expiry, deletion, Shutdown | `Dispatcher` |
| Packet store | `puicbase/net/quic/core/quic_buffered_packet_store.cc` | two linked maps and an alarm | EnqueuePacket, DeliverPackets, DiscardPackets, OnExpirationTimeout | `Dispatcher` |
| Listener | `puicserver/src/puic_server.cc` | socket, pool, `m_writeBlocked`, callbacks, one connection object per session | Start, Stop, WritePacket, on_uv_send, OnNewSession, OnHandshaked, OnClosed | `Listener` |
| Time-wait list | `puicbase/net/tools/quic/quic_time_wait_list_manager.cc` | ids, queue of unsent answers | add, expire, send or queue, drain | `Dispatcher`, `Listener` |
| Streams, flow control | `puicbase/net/quic/core/quic_stream*.cc`, `quic_flow_controller.cc` | send slices, ring of receive blocks, four windows, write-blocked list | write, frame, ack, window update, read | `Stream`, `Pipe` |
| Loss recovery | `puicbase/net/quic/core/quic_sent_packet_manager.cc`, `quic_unacked_packet_map.cc`, `quic_connection.cc` | unacked packets, pending retransmissions, queued packets, alarms | send, ack, loss, probe, timeout, neuter | `SentPackets`, `FrameChannel` |
| Crypto handshake | `puicbase/net/quic/core/quic_crypto_*handshaker.cc` | handshaker states, encryption levels, decrypters | hellos, rejections, timeouts, close | `Handshake` |
| Sessions | `puicbase/puic/puic_*session*.cc` | handshake, preset stream | OnCryptoHandshakeEvent, Close, OnConnectionClosed, OnTransportCanWrite | `Handshake`, `Dialer`, `Listener`, `Stream` |
| Supervisor | `puic{agent,proxy}/src/multi_proxy_main.cc` | children | spawn, respawn, stop | `Supervisor` |
| `main`, `proxy_main` | `puic{agent,proxy}/src/` | | start, stop, drain | `Supervisor`, `Relay`, in part |
| Alarms, address parsing | `puicbase/puic_uv/`, `common/ip_util.h` | | | not modelled |

How the parts interact:

```
 TCP peer <-> AgentConn <-> ProxyJob <-> PuicStream / session <-> Dialer <-> UDP
 UDP <-> Listener <-> Dispatcher <-> session / PuicStream <-> ProxyJob <-> TCPConn <-> TCP peer
```

What makes the code hard:

* **Re-entrancy.** A write can fail, tear down its connection, tell the user and
  clean the job, all inside the call. A wake-up loop runs session code that
  changes the list being walked.
* **Zero-copy.** The relay hands libuv pointers into the stream's receive buffer.
* **Edge-triggered events.** The stream's sequencer announces data once; reading
  from TCP is resumed only at a low-water mark; a blocked endpoint is writable
  again only when its *whole* pool has come back.
* **Two owners.** Jobs, TCP objects and libuv handles end in different orders;
  sessions are deleted later than the objects they call.
* **Half-closes** in both orders, with data in flight, also before a connect is done.
* **Stop and restart.** The dialer stops itself and is restarted by CreateConn.
* **Limits.** The store of early packets, the session budget, the send buffer.

## 2. Modules

| Module | Extends | Contents |
|---|---|---|
| `Dialer` | | the client's UDP endpoint |
| `DialerProofs` | `Dialer` | its inductive invariant and theorems |
| `Relay` | | what agent and proxy share: TCP object, preset stream, job, manager |
| `AgentRelay`, `ProxyRelay` | `Relay` | how a job starts in each program |
| `Dispatcher` | | where a received packet goes; store, batches, expiry |
| `Listener` | | the server's UDP endpoint and its connection objects |
| `SentPackets` | | loss recovery of one end of a connection, against a lossy network |
| `FrameChannel` | | what it promises the streams: its abstract specification |
| `Stream` | | one direction of a stream, from Write to the reported end |
| `Pipe` | | what it promises the applications: its abstract specification |
| `Handshake` | | the two ends of a connection, from the first hello to both closes |
| `Supervisor` | | the parent process and its children |
| `MC*` | one of the above | the modules of the runs; the `.cfg` files give the constants |

A definition whose name ends in `_Something` and whose comment says "Seeded bug"
is a mutated form of the definition that follows it; `PROJECT.json` names the
property each of them breaks.

### Granularity

Everything runs on one thread, so an action is one libuv callback or one API
call from the top of the loop, with everything it calls.

* In `Dialer` and `Listener`, `wakeup()`/`OnCanWrite()` and `stop()`/`Shutdown()`
  call other components' code in the middle of a loop. They are split at those
  calls. The variable `frame` says which one is on the stack, and session code
  may run only at `frame = "loop"` or `frame = "canwrite"`.
* In `Relay`, methods of the TCP object are operators from the object before the
  call to the object after it, so that a callback is their composition. A call
  into PUIC has a second outcome, in which the connection broke and `clean()` ran
  before the call returned.
* In `Dispatcher` every callback is atomic.

### Dialer

Variables are the members of `PuicDialer`. The request pool is three counters:
`avail` (in `m_availSendReqs`), `flying` (queued on the open socket) and
`cancelled` (queued on a socket that is closing, to be freed by `on_uv_send`).
`blockedConns` keeps insertion order, as the linked hash map does. `blocked` is
the `blocked_` flag of each connection's `PuicPerSessionWriter`.

* A failing `start()` changes nothing and is a stuttering step.
* `DialerClose` is called from the top of the loop only, as the agent does; from
  inside `OnDisconnected` it would delete the dialer on the stack.
* `on_uv_recv` is left out: what a received packet does to a connection is any
  of the session's actions.

### Relay, AgentRelay, ProxyRelay

`tcp[j]` is an `AgentConn`/`TCPConn` with its handle, `puic[j]` the connection with
its preset stream, `job[j]` the `ProxyJob`, `peer[j]` the program at the other end of
the TCP connection. Bytes going up are counted; bytes going down are numbered, so
a lost, repeated or reordered one shows in `peer[j].got`. The write in flight is
`base`, `len`, `left`: where in the stream it starts, how long it is, what libuv has
not written.

* The two programs have two copies of the relay code. `Relay` is taken from
  the agent's, and `ProxyRelay` gives the proxy's copies their own names, each mapped to the proxy's lines.
* The error branches of `StartRead` and `Write` are dead code by `ClosesWhenDone`, a part of
  `CallsFindTheirObject`.
* libuv's `uv_shutdown` during a connect is modelled from libuv's source (`stuck`).
* Not told apart: a PUIC connection that could not be created, and one that closed.
* Left out: resets of the preset stream (neither program sends one) and writes of
  the PROXY header that fail without the read side noticing.

### Dispatcher

A connection id is in `sessions` (`session_map_`), in the store (`undecryptable`,
`packets`, `withChlo`), in `timeWait`, or unknown. A packet of an unknown id is a
CHLO, an early packet, or one that is refused.

* The stateless rejector answers in the same call, because the proof source is
  synchronous; a CHLO it turns down is a refused packet.
* Expiry is by age: `old` holds the ids that were in the store when the alarm was
  set, and when it fires all of these have expired, and possibly more.
* An id leaves time-wait only after the due deletions; 200 s lie in between.
* Left out: the trimming of the time-wait list at 600000 entries, and
  `StopAcceptingNewConnections`, which nothing calls.

### Listener

The dialer's pool and blocking rule again, with two differences: there is no
restart, and the blocked writers are sessions *and* the time-wait list manager,
which has a queue of its own (`pending`). `conn[s]` is the `PuicServerConn`: it
deletes itself when an accepted session closes, and stays for ever when the session
closes before its handshake (the code's early return in `OnClosed`).

### SentPackets and FrameChannel

`conn` is the connection: `info` is the unacked packet map, `pending` the pending
retransmissions, `queue` the packets a blocked writer left behind, `control` and `sendAck`
the control frames and the ack the packet generator holds, `timer` is
`pending_timer_transmission_count_`, `alarm` and `sendAlarm` the two alarms. Methods are
operators from `conn` to `conn`. An action is an event, with all the writing it sets off.
`room` and `burst` are what the writer and the pacer allow during that event.

* Time is abstracted: an alarm that is set may go off, also before an ack that is on
  its way (`MaxMishaps` bounds how often, together with the losses).
* The congestion window is a constant; a new packet carries one frame of a stream, and
  with it the frames the generator holds.
* A RST_STREAM or WINDOW_UPDATE goes to the generator, which sends it if `CanWrite` agrees
  and otherwise keeps it: for the next packet, the next retransmission, the next ping, or
  the next flush at which `CanWrite` agrees. An ack is kept only by a blocked writer.
* `HasQueuedData` counts what the generator keeps, so `OnRetransmissionTimeout` leaves the
  alarm unset while a control frame is held. `AlarmKept` has that exception. Nothing is
  due that would send the held frame; it goes when an ack opens the window, or with the
  client's ping.
* A STOP_WAITING frame is modelled by what it can do to a packet that is still on its way:
  the peer drops it.
* A frame is given up when its stream is reset or its encryption level is left.

### Stream and Pipe

A byte is its offset, so misplaced, freed or overwritten memory shows. Frames arrive in
any order and any number of times and are acked once, which is what `FrameChannel`
promises. One session carries one data stream, the preset one.

* Left out: BLOCKED frames (the receiver only logs them), `ShouldYield` (it chooses among
  several streams), `StreamDraining`, resets, and `EnsureWindowAtLeast`, which returns at
  its first line under the limits the sessions set (`WindowsAssumption`).

### Handshake

An end has an encryption level, the framer's two decrypters, the queue of packets it
cannot decrypt, the handshaker's state and the application's view. The network keeps
every packet and may deliver each at any time, again, or never. `owed` is what loss
recovery still repeats.

* Validation of hellos and verification of proofs answer within the call.
* Acks are abstracted: a packet is owed until it was received or neutered.
* Packets before the first hello are the dispatcher's business (`Dispatcher`).
* Left out: version negotiation, server config updates, stateless rejects.

### Supervisor

A child is a process that can be signalled before it has handlers, crash at any time,
or fail to start; the parent hears of its end when its loop runs `child_exit_cb`. A stop
from a terminal reaches parent and children, and the parent's SIGTERM comes on top.

## 3. Runs

| Run | Instance | Shows |
|---|---|---|
| `dialer` | 3 connections, 3 requests, sends may fail | the inductive invariant `DialerInv` (blocked connections are queued exactly once, none waits for a writable dialer, a completion is coming); the socket outlives the connections; closed connections are deleted, an idle dialer stops, no starvation |
| `dialer_lost_requests` | 2 connections, 2 requests | **violation**, finding 1 |
| `agent_relay` | 1 job, 5 bytes up, 3 down, marks 1 and 3 | bytes and half-closes intact, buffers held while libuv uses them, every call finds its object, bounded buffer, no stall, delivery, end of jobs and release of handles |
| `proxy_relay` | 1 job, 3 bytes each way, marks 1 and 2, header | buffers and lifetimes with a connect phase, delivery, completion of shutdowns |
| `proxy_early_fin` | 1 job, 1 byte, no header | **violation**, finding 2 |
| `dispatcher` | 4 ids, store of 3 (1 without CHLO), 2 early packets each, batches of 2 | one home per id, the store's maps agree, limits hold, nothing stays in the store |
| `listener` | 3 sessions, 3 requests, 4 pending answers, sends may fail | blocked writers are queued exactly once, wake-ups come, accepted connections are told, no session starves |
| `sent_packets` | 3 frames (handshake, stream, control), 1 ping, window 2, 2 mishaps | no frame is forgotten, the maps agree, the alarm is kept, `FrameChannel` is implemented, every frame is acked or given up |
| `sent_packets_alarm` | the same | **violation**, finding 3 |
| `stream` | 5 bytes, ring of 4 in blocks of 3, three pairs of windows | no connection error, no memory freed early, no missed wake-up, `Pipe` is implemented, everything is delivered |
| `handshake` | 3 hellos, 2 undecryptable packets | no protocol error between correct ends, nobody waits for what it cannot read, the handshake completes, both ends close |
| `supervisor` | 3 children, 2 crashes | crashed children are restarted; the parent told to stop quits, unless a child was restarted after the SIGTERMs |

`StopReachesAll` states its exception because the code has it: `child_exit_cb` respawns
while the parent drains, so a child that dies abnormally around the stop leaves the
parent waiting. That can be a crash, a SIGTERM before the child has its handlers, or a
second signal after it has stopped them.

**Bounds.** Three writers on three requests are enough for one to hold the
pool, one to block and one to overtake; a wake-up can meet a connection that
blocks again, closes, or closes another. The relay's bytes cross the upper mark,
fall to the lower one and rise again, and a write covers a part of what is readable.
Jobs meet only in Monitor and Stop, so the relay runs have one job. The dispatcher has
one id more than the store holds and more CHLOs than a batch takes. `MaxPending` exceeds
the pool, so the time-wait list blocks in the middle of draining. The stream has more
bytes than its ring, whose last block is shorter than the first, and windows that bind
at the stream, at the session, or at both. `MaxPacket` is never reached: a frame stuck
at that bound would violate `Reliable`.

Bounds on the environment, not constants of the code: `UpBytes`, `DownBytes`,
`MaxPending`, `NumFrames`, `MaxPings`, `MaxPacket`, `MaxMishaps`, `NumBytes`, `MaxCrashes`.

Other instances that were checked and are not among the runs: two agent jobs with one
byte each way (invariants only, 903,834 states) and the proxy without the header
(invariants only, 36,831 states) pass, and so does, with all properties of its run, the
stream with 6 bytes and blocks of 2 (2,581,054 states, 12 minutes), and loss recovery
after the handshake with two frames of streams and a control frame (`Crypto = {}`,
`NumFrames = 3`, `Control = {3}`, `MaxPacket = 18`; 973,468 states). The last one reaches
the case `AlarmKept` excepts, which the run's three frames do not: an ack starts the loss
timer, its packet has been sent again when it goes off, and a control frame is held
because the two packets in flight fill the window. In the run the alarm, the timer's count
or a queued packet is always there.

`Reliable` needs the ping: with `MaxPings = 0` it is violated. In TLC's counterexample a
stream is reset, which takes the frames out of two packets that fill the congestion
window; both are lost, no retransmission alarm is set for packets without frames, and
the generator holds the RST_STREAM, which waits for the window. Only the client has a ping alarm, so a server in
that state depends on its peer's traffic.

**Symmetry** is not used: every passing run checks a temporal property.

**Deadlock** is not checked: a deleted dialer or listener, a closed dispatcher, a closed
connection, a finished transfer and a program with all handles closed really stop.

**Fairness.**
* Code on the call stack returns (weak fairness of the `...Returns` actions and
  loop turns).
* Each iteration of the loop runs due timers, completed requests, close callbacks
  and the prepare callback. Where such a callback cannot run while other code is
  on the stack, or reading is switched off and on, the action is strongly fair.
* The relay's liveness also assumes a network that works: the PUIC peer keeps
  taking bytes, the TCP peer makes room, handshakes and connects end, and an idle
  connection times out (QUIC's idle timeout).
* `BlockedGetTurn` holds while no request is lost (`Lost = 0`); finding 1 is what
  happens otherwise. It promises a *call*. A session may use up the last request
  without `m_writeBlocked` being set, and then the next writer's turn is void and it
  queues up again. For the time-wait list this may repeat without end.

* `SentPackets` and `Stream`: the system does not stop while something is due. Due are a
  packet or update on its way, an alarm that is set, a writer that may write (`Dialer` and
  `Listener` show that its turn comes), an application that was told to read, and the
  client's ping. Nothing makes losses stop but their bound.
* `Handshake`: an owed packet the peer can read arrives in the end (`SentPackets`), and an
  end whose peer is gone times out, since nothing pushes its deadline out.
* `Supervisor`: the parent's code and loop go on, and a child told to stop stops (which
  `JobsEnd` shows for the agent). Nothing is assumed of signals, crashes and failures.

## 4. Findings

1. **The dialer's pool shrinks over auto-stop and restart**
   (`puicclient/src/puic_client.cc:454`, run `dialer_lost_requests`). Requests
   queued on the socket when the dialer stops itself are freed, not returned. After
   a restart `m_availSendReqs.size() == MaxFlyingMessages` is never true again, and a
   dialer that blocks stays blocked; `quic_blocked_writer_interface.h:20-21` promises
   a blocked writer its call.
2. **A FIN before the TCP connect is not passed on**
   (`puicproxy/src/puic_proxy.cc:184`, run `proxy_early_fin`). `uv_shutdown` on a
   connecting handle with an empty write queue is never carried out by this version
   of libuv, although its documentation says the callback comes.
3. **A stale count suppresses the retransmission alarm**
   (`puicbase/net/quic/core/quic_sent_packet_manager.cc:735`, run `sent_packets_alarm`). A
   timer asks for two packets, the writer blocks, an ack cancels one of them and the
   other is sent. The count of packets asked for stays at 1, and while it is positive no
   retransmission alarm is set. `quic_connection.cc:2002-2003` says it is "always set if
   there are unacked packets and nothing waiting to be sent". That comment stands at the
   end of one function; the property states it for every state between two events.

## 5. Proofs

`DialerProofs` holds for any set of connections, any pool size of at least one and
with or without failing sends (`DialerAssumption`).

| Theorem | Statement |
|---|---|
| `DialerSafe` | `Spec => []DialerInv` |
| `DialerTypes` | `Spec => []TypeOK` |
| `NoLostWakeup` | `Spec => [](BlockedAreQueued /\ NoMissedWakeup /\ WakeupComing)` |
| `SocketOutlives` | `Spec => SocketOutlivesConns`, an action property |

`WakeupComing` is not inductive. That a blocked dialer has a packet in flight needs
`RequestsConserved` (no request is counted twice), `SendsOnLiveSocket` (nothing flies on
a closed socket) and `FlagsAgree` (how `phase`, `m_cryptoConfig`, the socket and
`m_writeBlocked` go together, also half way through stop). `BlockedAreQueued` carries
the list's freedom from repetitions, without which taking the head of the list
could leave the same connection queued. `ClosedAreScheduled` and `StoppedIsEmpty` are
needed for the restart: `start()` drops the alarm, which is safe only because a
stopped dialer has no closed connection left. `SocketOutlivesConns` then follows from
a case split over the actions. `DialerInv` is the conjunction; TLC checks it
in the run `dialer`.

The proof has a lemma per list operation (`EraseLemma`, `InsertLemma`, `TailLemma`: what
happens to the range and to injectivity), one for the three outcomes of
`WritePacket`, and one per group of actions; `DialerStep` collects them, one step per
action, and the theorems follow by temporal logic.

**Only model-checked:** all liveness (the prover has no ENABLED), and everything about
the modules other than `Dialer`, the two refinements included. `Dispatcher` uses
`SelectSeq`, whose general facts need an induction that the prover cannot do; a proof
needs it restated on positions.

## 6. Not modelled

* The map covers about 7.5% of the lines under `src/`. Most of the rest is vendored:
  Chromium's base library, cryptography, packet formats, HPACK and HTTP/2, zlib,
  congestion control. Where the modelled code calls it, the
  modules abstract it to its outcomes; nothing is claimed about the code itself.
* libuv's alarms adapter: a flag that may go off, in every module that has an alarm.
* Address parsing: a function on strings over `inet_pton` and `strtol`.
* Congestion control, RTT estimation, MTU discovery, connection migration.
* Streams other than the preset one; stream resets by the application.
* `DialerClose` from inside a callback; a PROXY header whose write fails unnoticed.
* Allocation failures.
* Agent and proxy are not composed with each other: `Relay` assumes of a stream what
  `Pipe` promises, and no run checks the two together. `Stream` likewise assumes what
  `FrameChannel` promises.

## 7. Further work

1. `Tunnel`: agent and proxy composed over two `Pipe`s, shown to implement a pair of FIFO
   byte pipes with half-close.
2. `BlockedWriters`: an abstract specification of a shared, blocking packet writer that
   both `Dialer` and `Listener` implement.
3. Proofs: an inductive invariant for `Listener` (the dialer's, with the time-wait list as
   a further writer); `Supervisor`'s safety; `CallsFindTheirObject` and `RegionsHeld` for
   `Relay`; the refinements of `Pipe` and `FrameChannel`.
