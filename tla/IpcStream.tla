------------------------------ MODULE IpcStream -----------------------------
(***************************************************************************)
(* One direction of an IPC connection: enqueueFrame copies an encoded      *)
(* frame into the transmit ring, handleSend moves bytes to the socket,     *)
(* handleRecv moves them into the receive ring and drainRxFrames cuts      *)
(* frames out of it.  Both rings are ByteRingBuffers.  A byte is the frame *)
(* it belongs to and its place in it; a frame's length is in its header.   *)
(***************************************************************************)
EXTENDS Naturals, Sequences, SequencesExt, FiniteSetsExt

CONSTANTS
  StreamFrames,  \* frames, as numbers
  LengthOf,      \* bytes of each frame, its header included
  HeaderLen,     \* sizeof(IpcWireHeader)
  MaxFrameSize,  \* IPC_MAX_FRAME_SIZE
  RingSize,      \* configured buffer size of both rings
  SocketSize     \* bytes the kernel holds between the two processes

ASSUME IpcStreamAssumption ==
  /\ {HeaderLen, MaxFrameSize, RingSize, SocketSize} \subseteq Nat \ {0}
  /\ HeaderLen <= MaxFrameSize
  /\ \A f \in StreamFrames : LengthOf[f] \in HeaderLen..(MaxFrameSize + 1)

VARIABLES
  txRing, rxRing,  \* IpcConnection::m_tx of the sender, m_rx of the receiver
  socket,          \* bytes in the kernel
  wantOut,         \* whether the sender's epoll entry has EPOLLOUT
  streamOpen,      \* neither side has closed the connection
  accepted,        \* frames enqueueFrame took, in order
  handedUp         \* frames ingress decoded, in order

streamVars == <<txRing, rxRing, socket, wantOut, streamOpen, accepted, handedUp>>

(***************************************************************************)
(* ByteRingBuffer: buf, head, tail and size.                               *)
(***************************************************************************)
NoByte == <<0, 0>>
NewRing(size) == [buf |-> [i \in 1..size |-> NoByte], head |-> 0, tail |-> 0, size |-> 0]

\* IpcConnection's constructor: a ring holds at least the largest frame.
RingCapacity == Max({RingSize, MaxFrameSize})

capacity(r) == Len(r.buf)
readable(r) == r.size
writable(r) == capacity(r) - r.size
Least(a, b) == IF a < b THEN a ELSE b

\* The part that can be written, or read, without wrapping.
writeLen(r) == IF writable(r) = 0 THEN 0 ELSE Least(capacity(r) - r.tail, writable(r))

produce(r, n) == [r EXCEPT !.tail = (@ + n) % capacity(r), !.size = @ + n]
consume(r, n) == [r EXCEPT !.head = (@ + n) % capacity(r), !.size = @ - n]

\* memcpy to writePtr: bytes past the end of the buffer are not stored.
Copy(r, data) ==
  [r EXCEPT !.buf = SubSeq(@, 1, r.tail) \o SubSeq(data, 1, Least(Len(data), capacity(r) - r.tail))
                    \o SubSeq(@, r.tail + Len(data) + 1, capacity(r))]

\* One turn of write()'s loop, or one ::recv into the ring.
WriteChunk(r, data) ==
  LET n == Least(writeLen(r), Len(data)) IN produce(Copy(r, SubSeq(data, 1, n)), n)

\* write(): to the end of the buffer, then from its start.
write(r, data) ==
  LET n == Least(writeLen(r), Len(data))
  IN  WriteChunk(WriteChunk(r, data), SubSeq(data, n + 1, Len(data)))

\* Fault: the wrapped part starts one byte late.
peekLate(r, n) ==
  LET toRead == Least(n, r.size)
      first  == Least(toRead, capacity(r) - r.head)
  IN  SubSeq(r.buf, r.head + 1, r.head + first) \o SubSeq(r.buf, 2, toRead - first + 1)

\* peek(): the first n bytes, in one or two pieces; read() is peek and consume.
peek(r, n) ==
  LET toRead == Least(n, r.size)
      first  == Least(toRead, capacity(r) - r.head)
  IN  SubSeq(r.buf, r.head + 1, r.head + first) \o SubSeq(r.buf, 1, toRead - first)

(***************************************************************************)
(* IpcCodec.                                                               *)
(***************************************************************************)
\* A frame larger than the limit is encoded as nothing and never enqueued.
encode(f) == IF LengthOf[f] > MaxFrameSize THEN <<>> ELSE [i \in 1..LengthOf[f] |-> <<f, i>>]

\* The size a header names: readable only when its bytes are the first of one frame.
peekFrameSize(bytes) ==
  IF \A i \in 1..HeaderLen : bytes[i] = <<bytes[1][1], i>> /\ bytes[1][1] \in StreamFrames
  THEN LengthOf[bytes[1][1]] ELSE 0

\* The frame these bytes are, or 0 when the decoder refuses them.
decode(bytes) ==
  IF bytes = encode(bytes[1][1]) THEN bytes[1][1] ELSE 0

(***************************************************************************)
(* The operations.                                                         *)
(***************************************************************************)
StreamInit ==
  /\ txRing = NewRing(RingCapacity) /\ rxRing = NewRing(RingCapacity)
  /\ socket = <<>> /\ wantOut = FALSE /\ streamOpen = TRUE
  /\ accepted = <<>> /\ handedUp = <<>>

\* Every frame is sent at most once, so that frames can be told apart.
\* enqueueFrame: all of the frame or nothing; a full ring drops it with a warning.
enqueueFrame(f) ==
  /\ streamOpen
  /\ f \notin ToSet(accepted)
  /\ encode(f) # <<>>
  /\ Len(encode(f)) <= writable(txRing)
  /\ txRing' = write(txRing, encode(f))
  /\ wantOut' = TRUE
  /\ accepted' = Append(accepted, f)
  /\ UNCHANGED <<rxRing, socket, streamOpen, handedUp>>

\* Fault: EPOLLOUT is dropped although bytes are left.
EpollOutNever(left) == FALSE

\* handleSend: send() until the ring is empty or the socket takes no more.
EpollOut(left) == left > 0

handleSend ==
  LET n == Least(readable(txRing), SocketSize - Len(socket))
  IN  /\ streamOpen /\ wantOut
      /\ n > 0 \/ readable(txRing) = 0
      /\ socket' = socket \o peek(txRing, n)
      /\ txRing' = consume(txRing, n)
      /\ wantOut' = EpollOut(readable(txRing'))
      /\ UNCHANGED <<rxRing, streamOpen, accepted, handedUp>>

\* recv(): into the ring until the socket is dry.  A ring that is full at the next turn is
\* an error, before the frames it holds are looked at.
Received(r) == write(r, socket)
BufferFull(r) == Len(socket) >= writable(r)

\* One turn of drainRxFrames: cut off a complete frame; an incomplete one ends the loop and
\* a bad one closes the connection.
DrainOne(d) ==
  LET size == peekFrameSize(peek(d.ring, HeaderLen))
      f    == decode(peek(d.ring, size))
  IN  IF ~d.more \/ readable(d.ring) < HeaderLen THEN [d EXCEPT !.more = FALSE]
      ELSE IF size = 0 \/ size > MaxFrameSize THEN [d EXCEPT !.ok = FALSE, !.more = FALSE]
      ELSE IF readable(d.ring) < size THEN [d EXCEPT !.more = FALSE]
      ELSE IF f = 0 THEN [d EXCEPT !.ok = FALSE, !.more = FALSE]
      ELSE [d EXCEPT !.ring = consume(d.ring, size), !.got = Append(@, f)]

\* drainRxFrames: as many turns as a ring of headers could need.  (The choice from a singleton
\* makes TLC evaluate a turn once.)
Drained(r) ==
  LET most == capacity(r) \div HeaderLen + 1
      turn[i \in 0..most] ==
        IF i = 0 THEN [ring |-> r, got |-> <<>>, ok |-> TRUE, more |-> TRUE]
        ELSE CHOOSE d \in {DrainOne(p) : p \in {turn[i - 1]}} : TRUE
  IN  turn[most]

\* handleRecv: false closes the connection, and with it both rings.
handleRecv ==
  /\ streamOpen /\ socket # <<>>
  /\ \E d \in {IF BufferFull(rxRing) THEN [Drained(rxRing) EXCEPT !.got = <<>>, !.ok = FALSE]
               ELSE Drained(Received(rxRing))} :
       /\ handedUp' = handedUp \o d.got
       /\ streamOpen' = d.ok
       /\ rxRing' = IF d.ok THEN d.ring ELSE NewRing(RingCapacity)
       /\ txRing' = IF d.ok THEN txRing ELSE NewRing(RingCapacity)
       /\ wantOut' = (wantOut /\ d.ok)
  /\ socket' = <<>>
  /\ UNCHANGED accepted

StreamNext == (\E f \in StreamFrames : enqueueFrame(f)) \/ handleSend \/ handleRecv

StreamSpec == StreamInit /\ [][StreamNext]_streamVars

-----------------------------------------------------------------------------
\* Every byte between enqueueFrame and ingress, oldest first.
Content == peek(rxRing, readable(rxRing)) \o socket \o peek(txRing, readable(txRing))

\* The bytes in flight cut into frames: the queue IpcStream stands for.
FramesOf(bytes) ==
  LET ends == SelectSeq(bytes, LAMBDA b : b[2] = LengthOf[b[1]])
  IN  [i \in 1..Len(ends) |-> ends[i][1]]

Queue == INSTANCE FrameQueue WITH
  Frames <- StreamFrames, inside <- FramesOf(Content), out <- handedUp, open <- streamOpen

\* Frames come out whole, once and in order, however they lie in the rings and however the
\* socket cuts them, and a frame that does not fit is dropped whole.
ImplementsQueue == Queue!QueueSpec

\* What was accepted is handed up, unless the connection breaks: EPOLLOUT is asked for as long
\* as bytes are left, also when a frame came while an earlier one was being sent.
AcceptedArrives == []<>(accepted = handedUp \/ ~streamOpen)

\* The connection is not closed for want of room while both processes live: what the sender
\* may put into its ring, the receiver can take.
StaysOpen == streamOpen

=============================================================================
