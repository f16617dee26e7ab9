-------------------------------- MODULE Stream --------------------------------
(***************************************************************************)
(* One direction of a PUIC stream: the QuicStream that writes, with its    *)
(* QuicStreamSendBuffer and its place in the session's write blocked list; *)
(* the QuicStream that reads, with its QuicStreamSequencer and the         *)
(* circular QuicStreamSequencerBuffer of blocks; and the four flow         *)
(* controllers between them, one for the stream and one for the session at *)
(* each end (src/puicbase/net/quic/core, src/puicbase/puic/puic_stream.cc).*)
(*                                                                         *)
(* Frames travel as FrameChannel promises: in any order, any number of     *)
(* times, and acked once after they have arrived.  WINDOW_UPDATE frames go *)
(* the other way, in any order too.  A session carries one data stream     *)
(* (the preset stream), so what the stream has sent or consumed is what    *)
(* the session has.                                                        *)
(*                                                                         *)
(* A byte is named by its offset, so a byte that comes out in the wrong    *)
(* place, or out of memory that was freed or overwritten, shows.           *)
(***************************************************************************)
EXTENDS Integers, Sequences, FiniteSets, FiniteSetsExt

CONSTANTS
  NumBytes,       \* bytes the writing application has to send
  WriteSizes,     \* how many bytes one call of Write may add
  SliceSize,      \* FLAGS_quic_send_buffer_max_data_slice_size
  FrameSize,      \* the most bytes that fit one frame
  BlockSize,      \* kBlockSizeBytes of the sequencer's buffer
  Capacity,       \* its capacity, and the limit of the stream's window:
                  \* both are kStreamReceiveWindowLimit
  SessionLimit,   \* kSessionReceiveWindowLimit
  Windows,        \* pairs of initial windows <<stream, session>>
  AutoTune        \* TRUE at a server: the reader's windows may grow

Byte == 0 .. NumBytes - 1
Offset == 0 .. NumBytes
Nothing == -1                      \* the content of freed memory
NoOffset == NumBytes + 1           \* close_offset_ when no FIN has come
Blocks == 0 .. (Capacity - 1) \div BlockSize

ASSUME SizesAssumption ==
  /\ NumBytes \in Nat /\ SliceSize \in Nat \ {0} /\ FrameSize \in Nat \ {0}
  /\ BlockSize \in Nat \ {0} /\ Capacity \in Nat \ {0}
  /\ WriteSizes \subseteq Nat /\ AutoTune \in BOOLEAN

\* Half of a window must be at least a byte, or no WINDOW_UPDATE is ever sent;
\* the least window the code accepts is 16 KB (kMinimumFlowControlSendWindow).
\* The limits are 16 MB and 24 MB, so EnsureWindowAtLeast, which is to widen the
\* session's window when a stream's has grown, returns at its first line.
ASSUME WindowsAssumption ==
  /\ \A w \in Windows : w[1] \in 2 .. Capacity /\ w[2] \in 2 .. SessionLimit
  /\ 2 * SessionLimit >= 3 * Capacity

VARIABLES
  snd,       \* the writing end
  rcv,       \* the reading end
  handed,    \* frames handed to the connection
  arrived,   \* frames that have arrived at least once
  acked,     \* frames whose acknowledgement was reported
  updates,   \* WINDOW_UPDATE frames sent: <<"stream" or "session", offset>>
  taken      \* bytes the reading application has got

vars == <<snd, rcv, handed, arrived, acked, updates, taken>>

Least(a, b) == IF a < b THEN a ELSE b

-------------------------------------------------------------------------------
(* QuicStreamSendBuffer                                                    *)

\* Data is kept in slices of at most SliceSize bytes.
SaveStreamData(s, n) ==
  LET start(i) == (i - 1) * SliceSize
      slice(i) == [offset |-> s.saved + start(i),
                   length |-> Least(SliceSize, n - start(i)),
                   outstanding |-> Least(SliceSize, n - start(i))]
  IN [s EXCEPT !.slices = @ \o [i \in 1 .. (n + SliceSize - 1) \div SliceSize |-> slice(i)],
               !.saved = @ + n]

Holds(slice) == slice.offset .. slice.offset + slice.length - 1
Bytes(f) == f.offset .. f.offset + f.length - 1

\* Whether the bytes of a frame can be copied out of the slices, in one pass
\* from the front.
WriteStreamData(s, f) == Bytes(f) \subseteq UNION {Holds(s.slices[i]) : i \in DOMAIN s.slices}

OnStreamDataAcked(s, f) ==
  LET less == [i \in DOMAIN s.slices |->
                 [s.slices[i] EXCEPT !.outstanding = @ - Cardinality(Bytes(f) \cap Holds(s.slices[i]))]]
      kept == {i \in DOMAIN less : \E j \in 1 .. i : less[j].outstanding # 0}
  IN [s EXCEPT !.outstanding = @ - f.length,
               !.slices = SubSeq(less, Len(less) - Cardinality(kept) + 1, Len(less))]

-------------------------------------------------------------------------------
(* The writing QuicStream.  Its flow controllers count the bytes written.  *)

HasBufferedData(s) == s.saved > s.written
SendWindowSize(limit, sent) == IF sent > limit THEN 0 ELSE limit - sent
StreamWindow(s) == SendWindowSize(s.limit, s.written)
SessionWindow(s) == SendWindowSize(s.sessionLimit, s.written)

MarkConnectionLevelWriteBlocked(s) == [s EXCEPT !.listed = TRUE]

\* Seeded bug: a stream that the session's window stops is not put on the list.
MaybeSendBlocked_NotListed(s) == s

\* BLOCKED frames are left out: the peer only logs them.
MaybeSendBlocked(s) ==
  IF SessionWindow(s) = 0 /\ StreamWindow(s) # 0
  THEN MarkConnectionLevelWriteBlocked(s) ELSE s

IsWaitingForAcks(s) == s.outstanding > 0 \/ s.finOutstanding

\* PuicSessionBase::CloseStream takes the stream off the write blocked list; a
\* stream that waits for acks stays as a zombie.
CloseStream(s) ==
  [s EXCEPT !.listed = FALSE,
            !.place = IF IsWaitingForAcks(s) THEN "zombie" ELSE "closed"]

CloseWriteSide(s) ==
  LET closed == [s EXCEPT !.writeClosed = TRUE]
  IN IF s.readClosed THEN CloseStream(closed) ELSE closed

CloseReadSide(s) ==
  LET closed == [s EXCEPT !.readClosed = TRUE]
  IN IF s.writeClosed THEN CloseStream(closed) ELSE closed

-------------------------------------------------------------------------------
(* QuicStream::WriteBufferedData: the part flow control permits is offered *)
(* to the connection, which takes what congestion control and the socket   *)
(* allow.                                                                  *)

\* Seeded bug: the session's window is forgotten.
Permitted_StreamOnly(s) == Least(s.saved - s.written, StreamWindow(s))

Permitted(s) == Least(s.saved - s.written, Least(StreamWindow(s), SessionWindow(s)))
FinOffered(s) == s.finBuffered /\ s.saved - s.written = Permitted(s)
FinOnly(s) == s.finBuffered /\ ~HasBufferedData(s)
Shut(s) == Permitted(s) = 0 /\ ~FinOnly(s)

\* What the connection may take of an offer.  The FIN goes with the last byte.
Consumptions(s) ==
  IF FinOnly(s) THEN [bytes : {0}, fin : BOOLEAN]
  ELSE {[bytes |-> n, fin |-> FinOffered(s) /\ n = Permitted(s)] : n \in 0 .. Permitted(s)}

\* The frames a consumption becomes.  The first one shares its packet with what
\* was in it before and may have to be short.
FramesOf(s, c, first) ==
  LET cut(i) == IF i = 0 THEN 0 ELSE Least(first + (i - 1) * FrameSize, c.bytes)
      frame(i) == [offset |-> s.written + cut(i - 1), length |-> cut(i) - cut(i - 1),
                   fin |-> c.fin /\ cut(i) = c.bytes]
  IN IF c.bytes = 0
     THEN IF c.fin THEN {[offset |-> s.written, length |-> 0, fin |-> TRUE]} ELSE {}
     ELSE {frame(i) : i \in {j \in 1 .. c.bytes : cut(j - 1) < c.bytes}}

WriteBufferedData(s, c) ==
  LET sent == [s EXCEPT !.written = @ + c.bytes, !.outstanding = @ + c.bytes]
      blocked == IF FinOnly(s) THEN sent ELSE MaybeSendBlocked(sent)
  IN CASE Shut(s) -> MaybeSendBlocked(s)
       [] ~Shut(s) /\ c.bytes < Permitted(s) -> MarkConnectionLevelWriteBlocked(sent)
       [] ~Shut(s) /\ c.bytes = Permitted(s) /\ c.fin ->
            CloseWriteSide([blocked EXCEPT !.finSent = TRUE, !.finOutstanding = TRUE])
       [] OTHER -> IF FinOffered(s) THEN MarkConnectionLevelWriteBlocked(blocked) ELSE blocked

-------------------------------------------------------------------------------
(* QuicStreamSequencerBuffer: a ring of blocks, and the list of gaps, here *)
(* the set got of all bytes received so far.                               *)

Position(offset) == offset % Capacity
GetBlockIndex(offset) == Position(offset) \div BlockSize
PositionsOf(block) == {p \in 0 .. Capacity - 1 : p \div BlockSize = block}

FirstGap(r) == Min(Offset \ r.got)
ReadableBytes(r) == FirstGap(r) - r.read
Empty(r) == r.got = 0 .. r.read - 1
\* Where the first gap ends, when it is not the last one.
FirstGapEnd(r) == Min({b \in r.got : b > FirstGap(r)})

RetireBlock(r, block) ==
  [r EXCEPT !.blocks = @ \ {block},
            !.memory = [p \in DOMAIN @ |-> IF p \in PositionsOf(block) THEN Nothing ELSE @[p]]]

\* Everything is dropped, as if what lies after the read bytes had never come.
Clear(r) ==
  [r EXCEPT !.blocks = {}, !.memory = [p \in DOMAIN @ |-> Nothing], !.got = 0 .. r.read - 1]

\* Seeded bug: data behind the gap, in the same block, is overlooked.
RetireBlockIfEmpty_AtGap(r, block) ==
  IF ~Empty(r) /\ GetBlockIndex(Max(r.got)) = block THEN r ELSE RetireBlock(r, block)

RetireBlockIfEmpty(r, block) ==
  IF /\ ~Empty(r)
     /\ \/ GetBlockIndex(Max(r.got)) = block
        \/ /\ GetBlockIndex(r.read) = block
           /\ GetBlockIndex(FirstGapEnd(r)) = block
  THEN r ELSE RetireBlock(r, block)

\* A frame that fits a gap is copied, one that was received before is ignored,
\* and one that is partly new is an error.
Overlaps(r, f) == Bytes(f) \cap r.got # {} /\ ~(Bytes(f) \subseteq r.got)
BeyondRange(r, f) == f.offset + f.length > r.read + Capacity

\* Seeded bug: a frame that wraps round the ring goes on behind it.
CopyStreamData_NoWrap(r, f) ==
  LET at(p) == {b \in Bytes(f) : Position(f.offset) + b - f.offset = p}
  IN [r EXCEPT !.blocks = @ \cup {GetBlockIndex(b) : b \in Bytes(f)},
               !.memory = [p \in DOMAIN @ |-> IF at(p) = {} THEN @[p] ELSE Max(at(p))],
               !.got = @ \cup Bytes(f)]

CopyStreamData(r, f) ==
  LET used == {GetBlockIndex(b) : b \in Bytes(f)}
      at(p) == {b \in Bytes(f) : Position(b) = p}
  IN [r EXCEPT !.blocks = @ \cup used,
               !.memory = [p \in DOMAIN @ |-> IF at(p) = {} THEN @[p] ELSE Max(at(p))],
               !.got = @ \cup Bytes(f)]

\* n bytes are consumed, block by block: a block is retired, if empty, when its
\* end or a gap is reached.
MarkConsumed(r, n) ==
  LET next(q) ==
        LET moved == [q EXCEPT !.read = @ + 1]
        IN IF ReadableBytes(moved) = 0 \/ GetBlockIndex(moved.read) # GetBlockIndex(q.read)
           THEN RetireBlockIfEmpty(moved, GetBlockIndex(q.read)) ELSE moved
      after[k \in 0 .. n] == IF k = 0 THEN r ELSE next(after[k - 1])
  IN after[n]

\* The regions handed to the application without copying: the rest of the first
\* block, whole blocks, and the beginning of the last one.  At most count.
GetReadableRegions(r, count) ==
  LET last == FirstGap(r) - 1
      start == GetBlockIndex(r.read)
      final == GetBlockIndex(last)
      position(block) == block * BlockSize
      rest == [from |-> Position(r.read), to |-> Least(position(start) + BlockSize, Capacity) - 1]
      whole(block) == [from |-> position(block), to |-> Least(position(block) + BlockSize, Capacity) - 1]
      between == CHOOSE k \in 1 .. Cardinality(Blocks) : (start + k) % Cardinality(Blocks) = final
      middle == [i \in 1 .. between - 1 |-> whole((start + i) % Cardinality(Blocks))]
      all == <<rest>> \o middle \o <<[from |-> position(final), to |-> Position(last)]>>
  IN CASE ReadableBytes(r) = 0 -> <<>>
       [] ReadableBytes(r) > 0 /\ start = final /\ Position(r.read) <= Position(last) ->
            <<[from |-> Position(r.read), to |-> Position(last)]>>
       [] OTHER -> SubSeq(all, 1, Least(count, Len(all)))

\* The bytes found in a sequence of regions.
Content(r, regions) ==
  LET piece(i) == [k \in 1 .. regions[i].to - regions[i].from + 1 |-> r.memory[regions[i].from + k - 1]]
      upTo[i \in 0 .. Len(regions)] == IF i = 0 THEN <<>> ELSE upTo[i - 1] \o piece(i)
  IN upTo[Len(regions)]

-------------------------------------------------------------------------------
(* QuicFlowController, receiving                                           *)

UpdateHighestReceivedOffset(fc, offset) == [fc EXCEPT !.highest = Max({@, offset})]
FlowControlViolation(fc) == fc.highest > fc.offset

\* The window grows if two updates follow each other within two round trips,
\* which the model leaves open; only a server tunes its windows.
IncreaseWindowSize(fc) == [fc EXCEPT !.size = Least(2 * @, fc.limit)]

UpdateReceiveWindowOffset(fc, available) == [fc EXCEPT !.offset = @ + fc.size - available]

AddBytesConsumed(fc, n, fast) ==
  LET used == [fc EXCEPT !.consumed = @ + n]
      available == used.offset - used.consumed
      tuned == IF fast /\ AutoTune THEN IncreaseWindowSize(used) ELSE used
  IN IF available >= used.size \div 2 THEN used ELSE UpdateReceiveWindowOffset(tuned, available)

-------------------------------------------------------------------------------
(* The reading QuicStream and its QuicStreamSequencer                      *)

IsClosed(r) == r.read >= r.close

\* PuicStream::OnDataAvailable: the application knows that it has to look.
OnDataAvailable(r) == [r EXCEPT !.told = TRUE]

\* Seeded bug: the end is left for the application to find.
MaybeCloseStream_Silent(r) == IF IsClosed(r) THEN Clear(r) ELSE r

MaybeCloseStream(r) == IF IsClosed(r) THEN Clear(OnDataAvailable(r)) ELSE r

CloseStreamAtOffset(r, offset) ==
  IF r.close \notin {NoOffset, offset} THEN [r EXCEPT !.error = "end moved"]
  ELSE MaybeCloseStream([r EXCEPT !.close = offset])

SequencerOnStreamFrame(r, f) ==
  LET q == IF f.fin THEN CloseStreamAtOffset(r, f.offset + f.length) ELSE r
      copied == CopyStreamData(q, f)
  IN CASE f.length = 0 \/ Bytes(f) \subseteq q.got -> q
       [] f.length # 0 /\ Overlaps(q, f) -> [q EXCEPT !.error = "overlapping data"]
       [] f.length # 0 /\ Bytes(f) \cap q.got = {} /\ BeyondRange(q, f) ->
            [q EXCEPT !.error = "beyond range"]
       [] OTHER -> IF f.offset = q.read THEN OnDataAvailable(copied) ELSE copied

OnStreamFrame(r, f) ==
  LET high(fc) == IF f.length = 0 THEN fc ELSE UpdateHighestReceivedOffset(fc, f.offset + f.length)
      seen == [r EXCEPT !.stream = high(@), !.session = high(@)]
  IN CASE r.readClosed -> r
       [] ~r.readClosed /\ (FlowControlViolation(seen.stream) \/ FlowControlViolation(seen.session)) ->
            [seen EXCEPT !.error = "flow control"]
       [] OTHER -> SequencerOnStreamFrame(seen, f)

\* QuicStream::AddBytesConsumed: both controllers count, and either may send a
\* WINDOW_UPDATE; fast[level] says whether its window is due to grow.
BytesConsumed(r, n, fast) ==
  [r EXCEPT !.stream = AddBytesConsumed(@, n, fast.stream),
            !.session = AddBytesConsumed(@, n, fast.session)]

UpdatesSent(r, q) == {<<level, q[level].offset>> : level \in {l \in {"stream", "session"} : q[l].offset # r[l].offset}}

\* PuicStream::IsEOF at the end: StopReading drops what is buffered, and the
\* sequencer, which now ignores data, reports the end by OnFinRead, which closes
\* the read side.
StopReading(r) == [Clear([r EXCEPT !.read = Max({@} \cup {b + 1 : b \in r.got})]) EXCEPT !.readClosed = TRUE]

-------------------------------------------------------------------------------

Init ==
  \E w \in Windows :
    /\ snd = [saved |-> 0, written |-> 0, outstanding |-> 0, slices |-> <<>>,
              finBuffered |-> FALSE, finSent |-> FALSE, finOutstanding |-> FALSE,
              writeClosed |-> FALSE, readClosed |-> FALSE, place |-> "open",
              listed |-> FALSE, limit |-> w[1], sessionLimit |-> w[2], error |-> "none"]
    /\ rcv = [read |-> 0, got |-> {}, blocks |-> {},
              memory |-> [p \in 0 .. Capacity - 1 |-> Nothing], close |-> NoOffset,
              stream |-> [consumed |-> 0, highest |-> 0, offset |-> w[1], size |-> w[1],
                          limit |-> Capacity],
              session |-> [consumed |-> 0, highest |-> 0, offset |-> w[2], size |-> w[2],
                           limit |-> SessionLimit],
              readClosed |-> FALSE, told |-> FALSE, error |-> "none"]
    /\ handed = {} /\ arrived = {} /\ acked = {} /\ updates = {}
    /\ taken = <<>>

\* The connection takes some of what the stream may send.
SendBuffered(s, offers) ==
  \E c \in offers, first \in 1 .. FrameSize :
    /\ snd' = WriteBufferedData(s, c)
    /\ handed' = handed \cup (IF Shut(s) THEN {} ELSE FramesOf(s, c, first))

\* PuicStream::Write, which is WriteOrBufferData: data is written at once only
\* if none was waiting.
Write(n, fin) ==
  /\ snd.saved + n <= NumBytes
  /\ n > 0 \/ fin
  /\ ~snd.finBuffered /\ ~snd.writeClosed
  /\ LET s == [SaveStreamData(snd, n) EXCEPT !.finBuffered = fin]
     IN IF HasBufferedData(snd)
        THEN snd' = s /\ UNCHANGED handed
        ELSE SendBuffered(s, Consumptions(s))
  /\ UNCHANGED <<rcv, arrived, acked, updates, taken>>

\* PuicStream::OnCanWrite.  The application, told then that it may write, does so
\* by a Write of its own.
StreamOnCanWrite(s, offers) ==
  IF ~s.writeClosed /\ (HasBufferedData(s) \/ s.finBuffered)
  THEN SendBuffered(s, offers)
  ELSE snd' = s /\ UNCHANGED handed

\* QuicSession::OnCanWrite, called when the connection can write: then it takes
\* at least a byte, or the FIN.  A stream that is itself blocked is dropped from
\* the list.
OnCanWrite ==
  /\ snd.listed
  /\ SessionWindow(snd) # 0
  /\ LET s == [snd EXCEPT !.listed = FALSE]
     IN IF StreamWindow(s) = 0
        THEN snd' = s /\ UNCHANGED handed
        ELSE StreamOnCanWrite(s, {c \in Consumptions(s) : c.bytes > 0 \/ c.fin \/ Shut(s)})
  /\ UNCHANGED <<rcv, arrived, acked, updates, taken>>

\* A frame arrives, for the first time or again.
Deliver(f) ==
  /\ f \in handed
  /\ rcv' = OnStreamFrame(rcv, f)
  /\ arrived' = arrived \cup {f}
  /\ UNCHANGED <<snd, handed, acked, updates, taken>>

\* QuicSession::OnStreamFrameAcked finds open and zombie streams; a zombie whose
\* last ack this is is closed.
OnStreamFrameAcked(s, f) ==
  LET q == OnStreamDataAcked(s, f)
      noted == IF f.fin THEN [q EXCEPT !.finOutstanding = FALSE] ELSE q
  IN CASE s.place = "closed" -> s
       [] s.place # "closed" /\ (s.outstanding < f.length \/ (f.fin /\ ~s.finSent)) ->
            [s EXCEPT !.error = "ack of unsent data"]
       [] OTHER -> IF s.place = "zombie" /\ ~IsWaitingForAcks(noted)
                   THEN [noted EXCEPT !.place = "closed"] ELSE noted

Ack(f) ==
  /\ f \in arrived \ acked
  /\ snd' = OnStreamFrameAcked(snd, f)
  /\ acked' = acked \cup {f}
  /\ UNCHANGED <<rcv, handed, arrived, updates, taken>>

\* QuicSession::OnWindowUpdateFrame.  The session's controller only notes the
\* offset; the stream, if still open, writes when it was blocked until now.
OnWindowUpdateFrame(u) ==
  /\ u \in updates
  /\ CASE u[1] = "session" ->
            /\ snd' = [snd EXCEPT !.sessionLimit = Max({@, u[2]})]
            /\ UNCHANGED handed
       [] u[1] = "stream" /\ snd.place # "open" -> UNCHANGED <<snd, handed>>
       [] OTHER -> LET s == [snd EXCEPT !.limit = Max({@, u[2]})]
                   IN IF u[2] > snd.limit /\ StreamWindow(snd) = 0
                      THEN StreamOnCanWrite(s, Consumptions(s))
                      ELSE snd' = s /\ UNCHANGED handed
  /\ UNCHANGED <<rcv, arrived, acked, updates, taken>>

\* The other direction has been read to its end.
ReadToEnd ==
  /\ ~snd.readClosed
  /\ snd' = CloseReadSide(snd)
  /\ UNCHANGED <<rcv, handed, arrived, acked, updates, taken>>

\* The application, told that there is something, takes n of the bytes found in
\* at most count regions (GetReadableRegions, then MarkConsumed).  Readv copies
\* the same bytes out of the same blocks.
Consume(count, n, fast) ==
  /\ rcv.told /\ ~rcv.readClosed
  /\ LET content == Content(rcv, GetReadableRegions(rcv, count))
     IN /\ n \in 1 .. Len(content)
        /\ taken' = taken \o SubSeq(content, 1, n)
  /\ rcv' = BytesConsumed(MarkConsumed(rcv, n), n, fast)
  /\ updates' = updates \cup UpdatesSent(rcv, rcv')
  /\ UNCHANGED <<snd, handed, arrived, acked>>

\* Having taken everything, it asks for the end (PuicStream::IsEOF) and then
\* waits to be told again.
IsEOF ==
  /\ rcv.told /\ ~rcv.readClosed
  /\ ReadableBytes(rcv) = 0
  /\ rcv' = [IF IsClosed(rcv) THEN StopReading(rcv) ELSE rcv EXCEPT !.told = FALSE]
  /\ UNCHANGED <<snd, handed, arrived, acked, updates, taken>>

Fast == [stream : BOOLEAN, session : BOOLEAN]

Next ==
  \/ \E n \in WriteSizes \cup {0}, fin \in BOOLEAN : Write(n, fin)
  \/ OnCanWrite
  \/ \E f \in handed : Deliver(f)
  \/ \E f \in arrived : Ack(f)
  \/ \E u \in updates : OnWindowUpdateFrame(u)
  \/ ReadToEnd
  \/ \E count \in 1 .. Cardinality(Blocks) + 1, n \in 1 .. Capacity, fast \in Fast : Consume(count, n, fast)
  \/ IsEOF

Spec == Init /\ [][Next]_vars

\* What must happen eventually: the connection gets to write, every frame
\* arrives, and the application looks when it was told to.
Due ==
  \/ snd.listed /\ SessionWindow(snd) # 0
  \/ handed # arrived
  \/ \E u \in updates :
       \/ u[1] = "session" /\ u[2] > snd.sessionLimit
       \/ u[1] = "stream" /\ u[2] > snd.limit /\ snd.place = "open"
  \/ rcv.told

FairSpec == Spec /\ ([]<>~Due \/ []<><<TRUE>>_vars)
-------------------------------------------------------------------------------
(* Properties                                                              *)

Controller == [consumed : Offset, highest : Offset, offset : Nat, size : Nat, limit : Nat]
Frame == [offset : Offset, length : Offset, fin : BOOLEAN]

\* The types of the state of both ends and of what travels between them.
TypeOK ==
  /\ snd.saved \in Offset /\ snd.written \in 0 .. snd.saved /\ snd.outstanding \in 0 .. snd.written
  /\ snd.place \in {"open", "zombie", "closed"}
  /\ rcv.read \in Offset /\ rcv.got \subseteq Byte /\ rcv.blocks \subseteq Blocks
  /\ rcv.close \in Offset \cup {NoOffset}
  /\ rcv.stream \in Controller /\ rcv.session \in Controller
  /\ acked \subseteq arrived /\ arrived \subseteq handed /\ handed \subseteq Frame
  /\ updates \subseteq {"stream", "session"} \X Nat
  /\ taken \in Seq(Byte \cup {Nothing})

\* No end ever closes the connection over this stream: whatever the order in
\* which frames, acks and window updates arrive, the reader sees no flow control
\* violation at either level (quic_stream.cc:128), no partly overlapping frame
\* and none beyond its buffer (quic_stream_sequencer_buffer.cc:128, :153), no
\* second end (quic_stream_sequencer.cc:90), and the writer is not told of data
\* it has not sent (quic_stream.cc:569).
ConnectionKept == TypeOK /\ snd.error = "none" /\ rcv.error = "none"

\* Memory is kept as long as it is needed.  A frame that may still have to be
\* sent again has its bytes in the slices of a stream that can be found, open or
\* zombie, although slices are freed in order and frames acked in any order
\* (quic_stream_send_buffer.cc:101).  A byte received and not yet read is in its
\* block, although blocks are freed when a gap is reached and reused round the
\* ring (quic_stream_sequencer_buffer.cc:529).
NothingFreedEarly ==
  /\ \A f \in handed \ acked : snd.place # "closed" /\ WriteStreamData(snd, f)
  /\ \A b \in rcv.got : b >= rcv.read => rcv.memory[Position(b)] = b

\* Nobody waits for something that will not come.  What is readable, or an end
\* that was reached, the reading application has been told of, although it is
\* told only when a frame starts where it stopped reading
\* (quic_stream_sequencer.cc:75).  A writer with something to send is on the
\* write blocked list, or the stream's window is shut and a WINDOW_UPDATE that
\* opens it is on its way or follows from bytes not read yet; on the list while
\* the session's window is shut, the same is true of the session
\* (quic_stream.cc:290, quic_session.cc:267).
NoMissedWakeup ==
  LET comes(level, limit) == \/ rcv.read < snd.written
                             \/ \E u \in updates : (u[1] = level /\ u[2] > limit)
  IN /\ ~rcv.readClosed /\ (ReadableBytes(rcv) > 0 \/ IsClosed(rcv)) => rcv.told
     /\ (HasBufferedData(snd) \/ (snd.finBuffered /\ ~snd.finSent)) =>
          IF snd.listed THEN SessionWindow(snd) = 0 => comes("session", snd.sessionLimit)
          ELSE StreamWindow(snd) = 0 /\ comes("stream", snd.limit)

pipe == INSTANCE Pipe WITH
          written <- [i \in 1 .. snd.saved |-> i - 1],
          finished <- snd.finBuffered,
          ended <- rcv.readClosed

\* The stream is a pipe: the bytes written come out once each, in order and
\* unchanged, and the end after the last of them.
ImplementsPipe == pipe!Spec

\* All that was written is read in the end, and the end reported, however small
\* the windows are (they open again by WINDOW_UPDATEs only).
Delivered == []<>(Len(taken) = snd.saved /\ (snd.finBuffered => rcv.readClosed))
===============================================================================
