----------------------------- MODULE Connection -----------------------------
(***************************************************************************)
(* One client connection of TcpServer as a byte stream in each direction:  *)
(* FrameReader, WriteBuffer, TokenBucket and the timers of Session, and    *)
(* what a turn of the event loop (TcpServer::run) does with them.          *)
(*                                                                         *)
(* pc is where the network thread is with the connection: a step is one    *)
(* call of recv() or send(), one frame or one event, so that the client,   *)
(* the matching thread and the clock go on in between.                     *)
(*                                                                         *)
(* input holds all bytes of the client, <<kind, k>> the k-th of a frame of *)
(* that kind; arrived of them are in the kernel and taken of them have     *)
(* left it.  output holds all bytes the kernel took for the client, which  *)
(* has read received of them.  <<"message", k>> is the k-th byte of all    *)
(* replies, heartbeats and events ever handed to queue(), so that a lost   *)
(* or cut one leaves a gap; <<"update", k>> is one of a BookUpdate behind  *)
(* it.                                                                     *)
(***************************************************************************)
EXTENDS Integers, Sequences

CONSTANTS HeaderSize, MaxPayload,      \* protocol::kHeaderSize, kMaxPayloadSize
          RecvSize,                    \* the buffer recv() is given
          MaxRead, MaxWrite, SndSize,  \* max_read_buffer, max_write_buffer, the kernel's
          Threshold,                   \* kCompactThreshold of both buffers
          MessageSize, UpdateSize,
          Rate, Burst, Cost,           \* RiskConfig; a message takes Cost parts of a token
          Interval, TimeoutTicks,      \* SessionConfig, in ticks
          MaxStall,                    \* a turn comes within this many ticks
          MaxInputs, MaxTime           \* bounds; inputs are frames, events and updates

ASSUME SizesAssumption ==
  /\ HeaderSize \in Nat \ {0} /\ RecvSize \in Nat \ {0} /\ Threshold \in Nat \ {0}
  /\ MessageSize \in Nat \ {0} /\ UpdateSize \in Nat \ {0}
  /\ MaxPayload \in Nat /\ MaxRead \in Nat /\ MaxWrite \in Nat /\ SndSize \in Nat

ASSUME RateAssumption == Rate \in Nat /\ Burst \in Nat /\ Cost \in Nat /\ MaxTime \in Nat

ASSUME TimesAssumption ==
  Interval \in Nat /\ TimeoutTicks \in Nat /\ MaxStall \in 0 .. TimeoutTicks - 1

VARIABLES pc, poll, closing,
          reader, writer, bucket, session,
          input, net, output, received,
          frames, client, now,
          events,             \* events and updates there were for the client
          dispatched,         \* the kinds of the frames dispatched
          since,              \* since[t]: messages the bucket let pass from tick t on
          handed,             \* the message bytes given to queue(): how many, the last it kept
          visited, timedout   \* when the timers were last served, did they give up?

history == <<dispatched, since, handed, visited, timedout>>
outside == <<input, received, frames, client, now>>
connection == <<pc, poll, closing, reader, writer, bucket, session, net, output, events,
                outside, history>>

(* What a client may send: a "short" frame is one that dispatch refuses after
   the rate limit, for its type, its payload or its values. *)
Kind == {"order", "short", "version", "heartbeat", "oversized"}
PayloadSize(kind) == CASE kind = "short" -> 0
                       [] kind = "oversized" -> MaxPayload + 1
                       [] OTHER -> MaxPayload

(* Of an oversized frame only the header is ever sent. *)
FrameSize(kind) == HeaderSize + (IF kind = "oversized" THEN 0 ELSE PayloadSize(kind))
encode_frame(kind) == [k \in 1 .. FrameSize(kind) |-> <<kind, k>>]

NoEvents == [in |-> FALSE, out |-> FALSE, re |-> "none", full |-> FALSE]

ConnectionInit ==
  /\ pc = "poll" /\ poll = NoEvents /\ closing = FALSE
  /\ reader = [buf |-> <<>>, pos |-> 0, failed |-> FALSE]
  /\ writer = [buf |-> <<>>, pos |-> 0]
  /\ bucket = [tokens |-> Burst, last_ns |-> 0]
  /\ session = [last_inbound |-> 0, last_heartbeat |-> 0]
  /\ input = <<>> /\ output = <<>>
  /\ net = [arrived |-> 0, taken |-> 0, hup |-> FALSE] /\ received = 0
  /\ now = 0
  /\ frames = <<>>
  /\ client = [spoke |-> 0, silent |-> FALSE] /\ events = 0
  /\ dispatched = <<>> /\ since = [t \in 0 .. MaxTime |-> 0]
  /\ handed = [all |-> 0, kept |-> 0] /\ visited = 0 /\ timedout = FALSE
-----------------------------------------------------------------------------
Least(a, b) == IF a <= b THEN a ELSE b

(* WriteBuffer *)
pending(w) == Len(w.buf) - w.pos
unsent(w) == SubSeq(w.buf, w.pos + 1, Len(w.buf))
fits(w, n) == pending(w) + n <= MaxWrite

AppendBytes(w, bytes) ==
  LET compacts == Len(w.buf) + Len(bytes) > MaxWrite /\ w.pos > 0
  IN  [buf |-> (IF compacts THEN SubSeq(w.buf, w.pos + 1, Len(w.buf)) ELSE w.buf) \o bytes,
       pos |-> IF compacts THEN 0 ELSE w.pos]

consume(w, n) ==
  LET pos == w.pos + n
  IN  IF pos = Len(w.buf) THEN [buf |-> <<>>, pos |-> 0]
      ELSE IF pos >= Threshold THEN [buf |-> SubSeq(w.buf, pos + 1, Len(w.buf)), pos |-> 0]
      ELSE [w EXCEPT !.pos = pos]

(* queue(): all of the bytes or, when they do not fit, none, and the connection
   of a client that does not read goes. *)
Message == [k \in 1 .. MessageSize |-> <<"message", handed.all + k>>]
Update == [k \in 1 .. UpdateSize |-> <<"update", handed.kept>>]

(* The message is dropped and the connection kept. *)
QueueOrDrop(bytes) ==
  /\ writer' = IF fits(writer, Len(bytes)) THEN AppendBytes(writer, bytes) ELSE writer
  /\ UNCHANGED closing

queue(bytes) ==
  IF fits(writer, Len(bytes))
    THEN writer' = AppendBytes(writer, bytes) /\ UNCHANGED closing
    ELSE closing' = TRUE /\ UNCHANGED writer

(* A reply, a heartbeat or an event. *)
queue_message ==
  /\ queue(Message)
  /\ handed' = [all |-> handed.all + MessageSize,
                kept |-> IF fits(writer, MessageSize) THEN handed.all + MessageSize
                                                      ELSE handed.kept]
-----------------------------------------------------------------------------
(* TokenBucket *)
(* The allowance starts anew with every tick. *)
RefillWindow(b, t) == IF t <= b.last_ns THEN b ELSE [last_ns |-> t, tokens |-> Burst]

refill(b, t) ==
  IF t <= b.last_ns THEN b
  ELSE [last_ns |-> t, tokens |-> Least(b.tokens + (t - b.last_ns) * Rate, Burst)]

(* FrameReader *)
append(r, bytes) == IF r.failed THEN r ELSE [r EXCEPT !.buf = @ \o bytes]

available(r) == Len(r.buf) - r.pos
HeaderAt(r) == r.buf[r.pos + 1][1]
need(r) == HeaderSize + PayloadSize(HeaderAt(r))
HasHeader(r) == ~r.failed /\ available(r) >= HeaderSize
HasFrame(r) == HasHeader(r) /\ PayloadSize(HeaderAt(r)) <= MaxPayload /\ available(r) >= need(r)

(* The rest of a buffer that is dropped with the frame in front of it. *)
CompactAway(r) == IF r.pos >= Threshold THEN [r EXCEPT !.buf = <<>>, !.pos = 0] ELSE r

compact_if_needed(r) ==
  IF r.pos = Len(r.buf) THEN [r EXCEPT !.buf = <<>>, !.pos = 0]
  ELSE IF r.pos >= Threshold THEN [r EXCEPT !.buf = SubSeq(@, r.pos + 1, Len(@)), !.pos = 0]
  ELSE r

(* next_frame() when it returns none: a header that claims too much fails. *)
NoFrame(r) ==
  [r EXCEPT !.failed = @ \/ (HasHeader(r) /\ PayloadSize(HeaderAt(r)) > MaxPayload)]
-----------------------------------------------------------------------------
(* poll() returns: bytes to read or a hang-up, bytes to write, and for a hang-up
   perhaps POLLHUP or an error.  The timers come first. *)
Room == SndSize - (Len(output) - received)
Polled(re) == [in |-> net.taken < net.arrived \/ net.hup,
               out |-> pending(writer) > 0 /\ (Room > 0 \/ net.hup),
               re |-> re, full |-> FALSE]

(* A session given up after one heartbeat interval. *)
TimersTooSoon == now - session.last_inbound >= Interval

TimedOut == now - session.last_inbound >= TimeoutTicks
HeartbeatDue == ~TimedOut /\ now - session.last_heartbeat >= Interval

service_timers ==
  /\ visited' = now
  /\ \/ /\ TimedOut /\ closing' = TRUE /\ timedout' = TRUE
        /\ UNCHANGED <<writer, session, handed>>
     \/ /\ HeartbeatDue /\ queue_message
        /\ session' = [session EXCEPT !.last_heartbeat = now] /\ UNCHANGED timedout
     \/ /\ ~TimedOut /\ ~HeartbeatDue
        /\ UNCHANGED <<closing, writer, session, handed, timedout>>

Poll(re) ==
  /\ pc = "poll" /\ (re # "none" => net.hup)
  /\ pc' = "write" /\ poll' = Polled(re) /\ service_timers
  /\ UNCHANGED <<reader, bucket, net, output, events, outside, dispatched, since>>

(* The socket is closed and the buffers are never looked at again. *)
close_connection ==
  /\ pc' = "closed" /\ poll' = NoEvents /\ closing' = FALSE
  /\ reader' = [buf |-> <<>>, pos |-> 0, failed |-> FALSE]
  /\ writer' = [buf |-> <<>>, pos |-> 0]
  /\ bucket' = [tokens |-> 0, last_ns |-> 0]
  /\ session' = [last_inbound |-> 0, last_heartbeat |-> 0]
  /\ UNCHANGED <<net, events, outside, history>>

PollError == pc = "write" /\ poll.re = "error" /\ close_connection /\ UNCHANGED output

(* The socket takes what it has room for; a broken one closes the connection. *)
Writable == Least(pending(writer), Room)
handle_writable(broken) ==
  \/ /\ pending(writer) > 0 /\ broken /\ closing' = TRUE /\ UNCHANGED <<writer, output>>
  \/ /\ ~broken /\ Writable > 0 /\ writer' = consume(writer, Writable)
     /\ output' = output \o SubSeq(writer.buf, writer.pos + 1, writer.pos + Writable)
     /\ UNCHANGED closing
  \/ ~broken /\ Writable = 0 /\ UNCHANGED <<writer, output, closing>>

Write(broken) ==
  /\ pc = "write" /\ poll.re # "error" /\ (broken => net.hup /\ poll.out)
  /\ IF poll.out THEN handle_writable(broken) ELSE UNCHANGED <<writer, output, closing>>
  /\ pc' = IF poll.in THEN "recv" ELSE "polled"
  /\ poll' = [poll EXCEPT !.in = FALSE, !.out = FALSE]
  /\ UNCHANGED <<reader, bucket, session, net, events, outside, history>>

(* handle_readable: the bytes of one recv() ... *)
Readable == Least(RecvSize, net.arrived - net.taken)
Recv ==
  /\ pc = "recv"
  /\ IF Readable = 0
       THEN /\ closing' = (closing \/ net.hup) /\ pc' = "polled"
            /\ UNCHANGED <<poll, reader, session, net>>
       ELSE /\ reader' = append(reader, SubSeq(input, net.taken + 1, net.taken + Readable))
            /\ net' = [net EXCEPT !.taken = @ + Readable]
            /\ session' = [session EXCEPT !.last_inbound = now]
            /\ poll' = [poll EXCEPT !.full = Readable = RecvSize]
            /\ pc' = "frames" /\ UNCHANGED closing
  /\ UNCHANGED <<writer, bucket, output, events, outside, history>>

(* ... and each complete frame.  It is answered here, or submitted if the
   inbound queue has room. *)
admit(b) ==
  /\ bucket' = [b EXCEPT !.tokens = @ - Cost]
  /\ since' = [t \in 0 .. MaxTime |-> IF t <= now THEN since[t] + 1 ELSE since[t]]

dispatch(kind, room) ==
  LET fresh == refill(bucket, now)
  IN  \/ kind = "version" /\ queue_message /\ UNCHANGED <<bucket, since>>
      \/ kind = "heartbeat" /\ UNCHANGED <<bucket, since, writer, closing, handed>>
      \/ /\ kind \in {"order", "short"} /\ fresh.tokens < Cost
         /\ queue_message /\ bucket' = fresh /\ UNCHANGED since
      \/ /\ kind = "order" /\ room /\ fresh.tokens >= Cost
         /\ admit(fresh) /\ UNCHANGED <<writer, closing, handed>>
      \/ /\ kind = "short" \/ (kind = "order" /\ ~room)
         /\ fresh.tokens >= Cost /\ admit(fresh) /\ queue_message

Dispatch(room) ==
  /\ pc = "frames" /\ HasFrame(reader)
  /\ reader' = compact_if_needed([reader EXCEPT !.pos = @ + need(reader)])
  /\ dispatch(HeaderAt(reader), room)
  /\ dispatched' = Append(dispatched, HeaderAt(reader))
  /\ pc' = IF closing' THEN "polled" ELSE "frames"
  /\ UNCHANGED <<poll, session, net, output, events, outside, visited, timedout>>

(* There is no other frame: a failed reader, or one that holds too much, closes
   the connection; a buffer that was filled is filled again. *)
LastFrame ==
  LET fatal == reader'.failed \/ available(reader') > MaxRead
  IN  /\ pc = "frames" /\ ~HasFrame(reader)
      /\ reader' = NoFrame(reader)
      /\ closing' = (closing \/ fatal)
      /\ pc' = IF ~fatal /\ poll.full THEN "recv" ELSE "polled"
      /\ poll' = [poll EXCEPT !.full = FALSE]
      /\ UNCHANGED <<writer, bucket, session, net, output, events, outside, history>>

(* The end of the connection's part of the first loop: POLLHUP closes it. *)
EndPolled ==
  /\ pc = "polled"
  /\ IF closing \/ poll.re = "hup" THEN close_connection
     ELSE /\ pc' = "egress" /\ poll' = NoEvents
          /\ UNCHANGED <<closing, reader, writer, bucket, session, net, events, outside, history>>
  /\ UNCHANGED output

Input == events + Len(frames) < MaxInputs

(* drain_egress: an event of the matching thread, or its queue has overflowed. *)
Deliver ==
  /\ pc = "egress" /\ ~closing /\ Input
  /\ queue_message
  /\ events' = events + 1
  /\ UNCHANGED <<pc, poll, reader, bucket, session, net, output, outside,
                 dispatched, since, visited, timedout>>

Overflowed ==
  /\ pc = "egress" /\ ~closing /\ closing' = TRUE
  /\ UNCHANGED <<pc, poll, reader, writer, bucket, session, net, output, events, outside, history>>

(* drain_market_data, whether or not the connection is closing. *)
DrainMarketData(md) ==
  /\ pc = "egress" /\ pc' = "flush" /\ (md => Input)
  /\ IF md THEN queue(Update) /\ events' = events + 1
           ELSE UNCHANGED <<writer, closing, events>>
  /\ UNCHANGED <<poll, reader, bucket, session, net, output, outside, history>>

(* The second loop ends with a send. *)
FlushOut(broken) ==
  /\ pc = "flush" /\ (broken => net.hup) /\ handle_writable(broken)
  /\ pc' = "ready"
  /\ UNCHANGED <<poll, reader, bucket, session, net, events, outside, history>>

Ready ==
  /\ pc = "ready"
  /\ IF closing THEN close_connection
     ELSE /\ pc' = "poll"
          /\ UNCHANGED <<poll, closing, reader, writer, bucket, session, net, events,
                          outside, history>>
  /\ UNCHANGED output
-----------------------------------------------------------------------------
(* The client and the network, the matching thread and the clock. *)
Open == pc # "closed"
server == <<pc, poll, closing, reader, writer, bucket, session, output, events, history>>

(* A first part of a new frame arrives, or some more of the last one. *)
Begin(kind) ==
  /\ Open /\ ~net.hup /\ net.arrived = Len(input) /\ Input
  /\ \A i \in DOMAIN frames : frames[i].kind # "oversized"
  /\ \E n \in 1 .. FrameSize(kind) : net' = [net EXCEPT !.arrived = @ + n]
  /\ input' = input \o encode_frame(kind)
  /\ frames' = Append(frames, [kind |-> kind, start |-> Len(input)])
  /\ client' = [client EXCEPT !.spoke = now]
  /\ UNCHANGED <<server, received, now>>

GoOn ==
  /\ Open /\ ~net.hup
  /\ \E n \in 1 .. Len(input) - net.arrived : net' = [net EXCEPT !.arrived = @ + n]
  /\ client' = [client EXCEPT !.spoke = now]
  /\ UNCHANGED <<server, input, received, frames, now>>

Receive == /\ received < Len(output)
           /\ received' = Len(output)
           /\ UNCHANGED <<server, net, input, frames, client, now>>

HangUp == /\ Open /\ ~net.hup
          /\ net' = [net EXCEPT !.hup = TRUE]
          /\ UNCHANGED <<server, outside>>

Tick == /\ Open /\ now < MaxTime /\ now - visited < MaxStall
        /\ now' = now + 1
        /\ client' = [client EXCEPT !.silent =
                         @ \/ now + 1 - client.spoke >= TimeoutTicks - MaxStall]
        /\ UNCHANGED <<server, net, input, received, frames>>

ConnectionNext ==
  \/ \E re \in {"none", "hup", "error"} : Poll(re)
  \/ PollError \/ Recv \/ LastFrame \/ EndPolled \/ Deliver \/ Overflowed \/ Ready
  \/ \E broken \in BOOLEAN : Write(broken) \/ FlushOut(broken)
  \/ \E room \in BOOLEAN : Dispatch(room)
  \/ \E md \in BOOLEAN : DrainMarketData(md)
  \/ \E kind \in Kind : Begin(kind)
  \/ GoOn \/ Receive \/ HangUp \/ Tick

ConnectionSpec == ConnectionInit /\ [][ConnectionNext]_connection
-----------------------------------------------------------------------------
(* Where the first n frames of the client end in its stream. *)
Boundary(n) ==
  IF n = 0 THEN 0 ELSE frames[n].start + FrameSize(frames[n].kind)

(* "one recv() is not one frame" (frame_reader.hpp:6): however the bytes are cut
   and whenever the buffer is compacted, the frames dispatched are the first of
   those the client sent, in order; the bytes held are the next of its stream,
   from the first of the first frame not yet dispatched; and no complete frame
   is left waiting "until the peer happens to send more" (:55) when the reader
   has been left, except on a connection that is about to close. *)
FramesExact ==
  LET base == net.taken - available(reader)
  IN  /\ Len(dispatched) <= Len(frames)
      /\ \A i \in 1 .. Len(dispatched) : dispatched[i] = frames[i].kind
      /\ Open =>
           /\ base = Boundary(Len(dispatched))
           /\ \A k \in 1 .. available(reader) : reader.buf[reader.pos + k] = input[base + k]
           /\ pc \notin {"frames", "polled"} \/ (pc = "polled" /\ ~closing)
                => ~HasFrame(reader) /\ available(reader) <= MaxRead

(* The numbers of the bytes go on from n, one by one for those of messages. *)
InOrder(bytes, n) ==
  \A i \in 1 .. Len(bytes) :
    bytes[i][2] = (IF i = 1 THEN n ELSE bytes[i - 1][2])
                  + (IF bytes[i][1] = "message" THEN 1 ELSE 0)
Number(bytes, n) == IF bytes = <<>> THEN n ELSE bytes[Len(bytes)][2]

(* Of replies, heartbeats and events the client gets a prefix of what was handed
   to queue(): none is cut, reordered or left out, and none follows one that
   found the buffer full.  While the connection is not about to close none has
   been refused, and the buffer keeps within its cap, "on MEMORY HELD, not just
   unsent bytes" (write_buffer.hpp:61). *)
StreamExact ==
  /\ InOrder(output, 0)
  /\ Len(writer.buf) <= MaxWrite
  /\ Open /\ ~closing =>
       LET sent == Number(output, 0)
       IN  InOrder(unsent(writer), sent) /\ Number(unsent(writer), sent) = handed.all

(* "Burst is bounded by capacity at every instant, not just at arbitrary window
   edges" (token_bucket.hpp:17): in no interval are more messages admitted than
   the burst and what has accrued since its start. *)
RateBounded ==
  \A from \in 0 .. now : Cost * since[from] <= Burst + Rate * (now - from)

(* "a client streaming orders is obviously alive and should never time out"
   (session.hpp:65): the timer closes only the connection of a client that once
   was silent for the timeout, less the time between two turns of the loop. *)
OnlySilenceTimesOut == timedout => client.silent
=============================================================================
