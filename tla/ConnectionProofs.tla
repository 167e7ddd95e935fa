-------------------------- MODULE ConnectionProofs --------------------------
(***************************************************************************)
(* Proofs about Connection: what the network thread reads from and sends   *)
(* to a client, for every size of a frame, a read, a message and a buffer, *)
(* every rate and every timeout.                                           *)
(*                                                                         *)
(* Each of its properties needs an inductive invariant.  InputInv, of the  *)
(* client's stream, and ReaderInv: what the reader holds is the stream     *)
(* from the end of the last frame dispatched on.  StreamInv: what is to be *)
(* sent goes on from what was sent, as long as anything may still be sent  *)
(* (Sends).  RateInv: the messages admitted and the tokens held, together, *)
(* stay within what has accrued (Spare).  SilenceInv: how old the last     *)
(* byte can be that the timers know of.                                    *)
(***************************************************************************)
EXTENDS Connection, TLAPS

(* The clock part of the state, and how long the client can have been quiet: a
   turn that finds nothing to read looks at what the client said before it; one
   that finds something is about to read it. *)
Unread == net.taken < net.arrived
AboutToRead == Unread /\ (pc = "recv" \/ (pc = "write" /\ poll.in))

NetOK == /\ net \in [arrived : Nat, taken : Nat, hup : BOOLEAN]
         /\ net.taken <= net.arrived /\ net.arrived <= Len(input)

ClockOK ==
  /\ now \in Nat /\ visited \in 0 .. now /\ timedout \in BOOLEAN
  /\ client \in [spoke : 0 .. now, silent : BOOLEAN]
  /\ session \in [last_inbound : 0 .. now, last_heartbeat : 0 .. now]

PollOK == poll \in [in : BOOLEAN, out : BOOLEAN, re : {"none", "hup", "error"}, full : BOOLEAN]

SilenceInv ==
  ~client.silent =>
    /\ ~timedout
    /\ now - client.spoke < TimeoutTicks - MaxStall
    /\ Open => /\ now - visited <= MaxStall
               /\ ~Unread => client.spoke <= session.last_inbound
               /\ AboutToRead \/ visited - session.last_inbound < TimeoutTicks - MaxStall

(* What a bucket that held b at time l holds at time t. *)
Fill(b, l, t) == Least(b + (t - l) * Rate, Burst)
Accrued == Fill(bucket.tokens, bucket.last_ns, now)

(* n messages since some time are not too many, and would not be if what is held
   were spent as well. *)
Allowed(n, from, t) == Cost * n <= Burst + Rate * (t - from)
Spare(n, left, from, t) == Cost * n + left <= Burst + Rate * (t - from)

RateInv ==
  /\ now \in 0 .. MaxTime
  /\ bucket \in [tokens : 0 .. Burst, last_ns : 0 .. now]
  /\ since \in [0 .. MaxTime -> Nat]
  /\ \A t \in 0 .. MaxTime : now < t => since[t] = 0
  /\ \A from \in 0 .. now : Allowed(since[from], from, now)
  /\ Open => \A from \in 0 .. now : Spare(since[from], Accrued, from, now)

InByte == Kind \X Nat
Typed == input \in Seq(InByte) /\ frames \in Seq([kind : Kind, start : Nat])

LaidOut(i) ==
  /\ frames[i].start = Boundary(i - 1) /\ Boundary(i) <= Len(input)
  /\ \A k \in 1 .. FrameSize(frames[i].kind) : input[frames[i].start + k] = <<frames[i].kind, k>>

InputInv == /\ Typed
            /\ Boundary(Len(frames)) = Len(input)
            /\ \A i \in 1 .. Len(frames) : LaidOut(i)

Reader == [buf : Seq(InByte), pos : Nat, failed : BOOLEAN]
ReaderOK(r) == r \in Reader /\ r.pos <= Len(r.buf)

(* The reader has been left: the loop of handle_readable is over and nothing
   that happened in it closes the connection. *)
Left == pc \notin {"frames", "polled"} \/ (pc = "polled" /\ ~closing)

InStep == /\ Len(dispatched) <= Len(frames)
          /\ \A i \in 1 .. Len(dispatched) : dispatched[i] = frames[i].kind

Base == net.taken - available(reader)
Held == \A k \in 1 .. available(reader) : reader.buf[reader.pos + k] = input[Base + k]

ReaderInv ==
  /\ ReaderOK(reader) /\ closing \in BOOLEAN /\ dispatched \in Seq(Kind) /\ InStep
  /\ Open => /\ Base = Boundary(Len(dispatched)) /\ Held
             /\ reader.failed => pc = "polled" /\ closing
             /\ Left => ~HasFrame(reader) /\ available(reader) <= MaxRead

OutByte == {"message", "update"} \X Nat
Handed == [all : Nat, kept : Nat]
Writer == [buf : Seq(OutByte), pos : Nat]
WriterOK(w) == w \in Writer /\ w.pos <= Len(w.buf) /\ Len(w.buf) <= MaxWrite

(* What is still to be sent goes on from what was sent.  On a connection that is
   closing a reply to a frame may stand behind one that was refused, but then
   nothing is sent any more. *)
GoesOn(w, kept, n) == InOrder(unsent(w), n) /\ Number(unsent(w), n) = kept
Sends == Open /\ (closing => pc \in {"write", "egress", "flush"})
StreamInv ==
  /\ WriterOK(writer) /\ output \in Seq(OutByte) /\ received \in Nat
  /\ handed \in Handed /\ closing \in BOOLEAN
  /\ InOrder(output, 0)
  /\ Sends => GoesOn(writer, handed.kept, Number(output, 0))
  /\ Open /\ ~closing => handed.kept = handed.all
  /\ closing => pc # "poll"
-----------------------------------------------------------------------------
(* u is s with t behind it. *)
Joins(S, u, s, t) ==
  /\ u \in Seq(S) /\ Len(s) \in Nat /\ Len(t) \in Nat /\ Len(u) = Len(s) + Len(t)
  /\ \A k \in 1 .. Len(s) : u[k] = s[k]
  /\ \A k \in 1 .. Len(t) : u[Len(s) + k] = t[k]

(* What a concatenation is made of. *)
LEMMA Joined ==
  ASSUME NEW S, NEW s \in Seq(S), NEW t \in Seq(S)
  PROVE  Joins(S, s \o t, s, t)
  BY DEF Joins

(* u is what stands in s behind a and up to b. *)
PartOf(S, u, s, a, b) ==
  u \in Seq(S) /\ Len(u) = b - a /\ \A k \in 1 .. b - a : u[k] = s[a + k]

(* What a part of a sequence is made of. *)
LEMMA PartOK ==
  ASSUME NEW S, NEW s \in Seq(S), NEW a \in Nat, NEW b \in Nat, a <= b, b <= Len(s)
  PROVE  PartOf(S, SubSeq(s, a + 1, b), s, a, b)
  BY DEF PartOf

(* An element of a sequence. *)
LEMMA ElementOK == ASSUME NEW S, NEW s \in Seq(S), NEW i \in 1 .. Len(s) PROVE s[i] \in S
  OBVIOUS

(* What stands in s behind a and up to c, cut at b. *)
CutAt(s, a, b, c) == SubSeq(s, a + 1, b) \o SubSeq(s, b + 1, c) = SubSeq(s, a + 1, c)

(* Two parts next to each other. *)
LEMMA PartsJoin ==
  ASSUME NEW S, NEW s \in Seq(S), NEW a \in Nat, NEW b \in Nat, NEW c \in Nat,
         a <= b, b <= c, c <= Len(s)
  PROVE  CutAt(s, a, b, c)
  BY DEF CutAt

(* Two sequences with the same elements are the same. *)
LEMMA SameSeq ==
  ASSUME NEW S, NEW s \in Seq(S), NEW t \in Seq(S), Len(s) = Len(t),
         \A k \in 1 .. Len(s) : s[k] = t[k]
  PROVE  s = t
  OBVIOUS

(* Where the elements behind the first p of m and n more stand: the m - p of the
   first part, then the n of the second. *)
BothIndexes(m, n, p) ==
  \A k \in 1 .. (m + n) - p :
    IF k <= m - p THEN k \in 1 .. m - p /\ p + k \in 1 .. m
    ELSE k - (m - p) \in 1 .. n /\ p + k = m + (k - (m - p)) /\ k = (m - p) + (k - (m - p))

(* They stand there. *)
LEMMA BothParts == \A m, n \in Nat : \A p \in 0 .. m :
  BothIndexes(m, n, p) /\ (m + n) - p = (m - p) + n /\ m + n \in Nat /\ p <= m + n
  BY DEF BothIndexes

(* The end of a sequence that something was put behind. *)
LEMMA EndOfJoin ==
  ASSUME NEW S, NEW s \in Seq(S), NEW t \in Seq(S), NEW p \in 0 .. Len(s)
  PROVE  SubSeq(s \o t, p + 1, Len(s \o t)) = SubSeq(s, p + 1, Len(s)) \o t
<1> DEFINE u == s \o t
           e == SubSeq(s, p + 1, Len(s))
           v == e \o t
           w == SubSeq(u, p + 1, Len(u))
<1>1. PICK m \in Nat : m = Len(s)
  OBVIOUS
<1>2. PICK n \in Nat : n = Len(t)
  OBVIOUS
<1>3. p \in 0 .. m /\ p \in Nat /\ p <= m /\ m <= m
  BY <1>1
<1>4. Joins(S, u, s, t)
  BY Joined, Zenon
<1>5. PartOf(S, e, s, p, m)
  BY <1>1, <1>3, PartOK, Zenon
<1>6. e \in Seq(S) /\ Len(e) = m - p /\ \A k \in 1 .. m - p : e[k] = s[p + k]
  BY <1>5, Zenon DEF PartOf
<1> HIDE DEF e
<1>7. Joins(S, v, e, t)
  BY <1>6, Joined, Zenon
<1>8. /\ u \in Seq(S) /\ Len(u) = m + n /\ \A k \in 1 .. m : u[k] = s[k]
      /\ \A k \in 1 .. n : u[m + k] = t[k]
  BY <1>1, <1>2, <1>4, Zenon DEF Joins
<1>9. /\ v \in Seq(S) /\ Len(v) = (m - p) + n /\ \A k \in 1 .. m - p : v[k] = e[k]
      /\ \A k \in 1 .. n : v[(m - p) + k] = t[k]
  BY <1>2, <1>6, <1>7, Zenon DEF Joins
<1> HIDE DEF u, v
<1>10. BothIndexes(m, n, p) /\ (m + n) - p = (m - p) + n /\ m + n \in Nat /\ p <= m + n
  BY <1>3, BothParts, Zenon
<1>11. m + n <= Len(u)
  <2>1. m + n <= m + n
    BY <1>10
  <2> QED BY <1>8, <2>1, Zenon
<1>12. PartOf(S, w, u, p, m + n)
  BY <1>3, <1>8, <1>10, <1>11, PartOK, Zenon
<1> HIDE DEF w
<1>13. w \in Seq(S) /\ Len(w) = Len(v) /\ \A k \in 1 .. (m + n) - p : w[k] = u[p + k]
  BY <1>9, <1>10, <1>12, Zenon DEF PartOf
<1>14. ASSUME NEW k \in 1 .. (m + n) - p PROVE w[k] = v[k]
  <2>1. CASE k <= m - p
    <3>1. k \in 1 .. m - p /\ p + k \in 1 .. m
      BY <1>10, <2>1, Zenon DEF BothIndexes
    <3> QED BY <1>6, <1>8, <1>9, <1>13, <3>1, Zenon
  <2>2. CASE ~(k <= m - p)
    <3>1. k - (m - p) \in 1 .. n /\ p + k = m + (k - (m - p)) /\ k = (m - p) + (k - (m - p))
      BY <1>10, <2>2, Zenon DEF BothIndexes
    <3>2. w[k] = t[k - (m - p)]
      BY <1>8, <1>13, <3>1, Zenon
    <3>3. v[(m - p) + (k - (m - p))] = t[k - (m - p)]
      BY <1>9, <3>1, Zenon
    <3> QED BY <3>1, <3>2, <3>3, Zenon
  <2> QED BY <2>1, <2>2, Zenon
<1>15. w = v
  BY <1>9, <1>10, <1>13, <1>14, SameSeq, Zenon
<1> QED BY <1>15, Zenon DEF w, v, u, e

(* A sequence is a part of itself. *)
LEMMA WholePart == ASSUME NEW S, NEW s \in Seq(S) PROVE SubSeq(s, 1, Len(s)) = s
  OBVIOUS

(* A frame has at least a header, and what the client sends of one that is not
   too large is what next_frame() waits for. *)
LEMMA FrameSizes ==
  \A kind \in Kind : /\ PayloadSize(kind) \in Nat /\ FrameSize(kind) \in Nat \ {0}
                     /\ PayloadSize(kind) <= MaxPayload =>
                          FrameSize(kind) = HeaderSize + PayloadSize(kind)
  BY SizesAssumption DEF Kind, PayloadSize, FrameSize

(* Only the client's actions and recv() touch what has come from the client. *)
LEMMA InputSteps ==
  ASSUME [ConnectionNext]_connection
  PROVE  \/ UNCHANGED <<input, frames, net>>
         \/ Recv \/ GoOn \/ HangUp
         \/ \E kind \in Kind : Begin(kind)
<1> USE DEF outside, server
<1>1. CASE \E re \in {"none", "hup", "error"} : Poll(re)
  BY <1>1 DEF Poll
<1>2. CASE PollError \/ EndPolled \/ Ready
  BY <1>2 DEF PollError, EndPolled, Ready, close_connection
<1>3. CASE LastFrame \/ Deliver \/ Overflowed
  BY <1>3 DEF LastFrame, Deliver, Overflowed
<1>4. CASE \E broken \in BOOLEAN : Write(broken) \/ FlushOut(broken)
  BY <1>4 DEF Write, FlushOut
<1>5. CASE \E room \in BOOLEAN : Dispatch(room)
  BY <1>5 DEF Dispatch
<1>6. CASE \E md \in BOOLEAN : DrainMarketData(md)
  BY <1>6 DEF DrainMarketData
<1>7. CASE Receive \/ Tick
  BY <1>7 DEF Receive, Tick
<1>8. CASE UNCHANGED connection
  BY <1>8 DEF connection
<1> QED
  BY <1>1, <1>2, <1>3, <1>4, <1>5, <1>6, <1>7, <1>8 DEF ConnectionNext

(* A new frame goes behind what there is. *)
Begun(kind) ==
  /\ Typed'
  /\ Len(input') = Len(input) + FrameSize(kind) /\ Len(frames') = Len(frames) + 1
  /\ \A k \in 1 .. Len(input) : input'[k] = input[k]
  /\ \A k \in 1 .. FrameSize(kind) : input'[Len(input) + k] = <<kind, k>>
  /\ \A i \in 1 .. Len(frames) : frames'[i] = frames[i]
  /\ frames'[Len(frames) + 1].kind = kind /\ frames'[Len(frames) + 1].start = Len(input)
  /\ \A i \in 0 .. Len(frames) : Boundary(i)' = Boundary(i)

(* Begin() does that, and leaves the ends of the earlier frames alone. *)
LEMMA BeginOK ==
  ASSUME Typed, NEW kind \in Kind, Begin(kind)
  PROVE  Begun(kind)
<1> DEFINE size == FrameSize(kind)
           frame == [kind |-> kind, start |-> Len(input)]
           bytes == encode_frame(kind)
           Frame == [kind : Kind, start : Nat]
<1>1. size \in Nat \ {0}
  BY FrameSizes
<1>2. bytes \in Seq(InByte) /\ Len(bytes) = size /\ \A k \in 1 .. size : bytes[k] = <<kind, k>>
  BY <1>1 DEF encode_frame, InByte
<1>3. input' = input \o bytes /\ frames' = Append(frames, frame)
  BY DEF Begin
<1>4. input \in Seq(InByte) /\ frames \in Seq(Frame) /\ Len(frames) \in Nat /\ Len(input) \in Nat
  BY DEF Typed
<1>5. frame \in Frame /\ frame.kind = kind /\ frame.start = Len(input)
  BY <1>4
<1> HIDE DEF size, bytes, frame, Frame
<1>6. /\ frames' \in Seq(Frame) /\ Len(frames') = Len(frames) + 1
      /\ \A i \in 1 .. Len(frames) : frames'[i] = frames[i]
      /\ frames'[Len(frames) + 1] = frame
  BY <1>3, <1>4, <1>5
<1>7. /\ input' \in Seq(InByte) /\ Len(input') = Len(input) + size
      /\ \A k \in 1 .. Len(input) : input'[k] = input[k]
      /\ \A k \in 1 .. size : input'[Len(input) + k] = bytes[k]
  <2>1. Joins(InByte, input', input, bytes)
    BY <1>2, <1>3, <1>4, Joined, Zenon
  <2> QED
    BY <1>2, <2>1, Zenon DEF Joins
<1>8. \A i \in 0 .. Len(frames) : Boundary(i)' = Boundary(i)
  BY <1>4, <1>6 DEF Boundary
<1>9. Typed'
  BY <1>6, <1>7 DEF Typed, Frame
<1> QED
  BY <1>2, <1>5, <1>6, <1>7, <1>8, <1>9, Zenon DEF Begun, size

(* The client's stream is its frames, one after the other. *)
LEMMA InputLaidOut == ConnectionSpec => [](InputInv /\ NetOK)
<1>1. ConnectionInit => InputInv /\ NetOK
  BY DEF ConnectionInit, InputInv, Typed, NetOK, Boundary
<1>2. InputInv /\ NetOK /\ [ConnectionNext]_connection => (InputInv /\ NetOK)'
  <2> SUFFICES ASSUME InputInv, NetOK, [ConnectionNext]_connection PROVE (InputInv /\ NetOK)'
    OBVIOUS
  <2>1. Typed /\ Len(input) \in Nat /\ Len(frames) \in Nat
    BY DEF InputInv, Typed
  <2>2. ASSUME UNCHANGED <<input, frames>> PROVE InputInv'
    BY <2>2, Zenon DEF InputInv, Typed, LaidOut, Boundary
  <2>3. CASE UNCHANGED <<input, frames, net>>
    BY <2>2, <2>3 DEF NetOK
  <2>4. CASE Recv
    <3>1. /\ UNCHANGED <<input, frames>>
          /\ UNCHANGED net \/ net' = [net EXCEPT !.taken = @ + Readable]
      BY <2>4 DEF Recv, outside
    <3>2. Readable \in Nat /\ net.taken + Readable <= net.arrived
      BY SizesAssumption DEF NetOK, Readable, Least
    <3>3. NetOK'
      BY <3>1, <3>2 DEF NetOK
    <3> QED
      BY <2>2, <3>1, <3>3
  <2>5. CASE GoOn
    <3>1. PICK n \in 1 .. Len(input) - net.arrived : net' = [net EXCEPT !.arrived = @ + n]
      BY <2>5 DEF GoOn
    <3>2. UNCHANGED <<input, frames>>
      BY <2>5 DEF GoOn
    <3>3. NetOK'
      BY <2>1, <3>1, <3>2 DEF NetOK
    <3> QED
      BY <2>2, <3>2, <3>3
  <2>6. CASE HangUp
    <3>1. UNCHANGED <<input, frames>> /\ net' = [net EXCEPT !.hup = TRUE]
      BY <2>6 DEF HangUp, outside
    <3>2. NetOK'
      BY <3>1, Zenon DEF NetOK
    <3> QED
      BY <2>2, <3>1, <3>2
  <2>7. ASSUME NEW kind \in Kind, Begin(kind) PROVE (InputInv /\ NetOK)'
    <3> DEFINE size == FrameSize(kind)
    <3> PICK n \in Nat : n = Len(frames)
      BY <2>1
    <3>1. size \in Nat \ {0}
      BY FrameSizes
    <3>2. PICK m \in 1 .. size : net' = [net EXCEPT !.arrived = @ + m]
      BY <2>7 DEF Begin
    <3>3. net.arrived = Len(input)
      BY <2>7 DEF Begin
    <3> HIDE DEF size
    <3>4. Begun(kind)
      BY <2>1, <2>7, BeginOK
    <3>5. Len(input') = Len(input) + size /\ Len(frames') = n + 1
      BY <3>4 DEF Begun, size
    <3>6. NetOK'
      BY <2>1, <3>1, <3>2, <3>3, <3>5 DEF NetOK
    <3>7. Boundary(n + 1)' = Len(input')
      <4>1. frames'[n + 1].start = Len(input) /\ frames'[n + 1].kind = kind
        BY <3>4 DEF Begun
      <4> QED
        BY <2>1, <3>5, <4>1 DEF Boundary, size
    <3>8. ASSUME NEW i \in 1 .. n PROVE LaidOut(i)'
      <4>1. LaidOut(i) /\ frames'[i] = frames[i]
        BY <3>4 DEF InputInv, Begun
      <4>2. Boundary(i)' = Boundary(i) /\ Boundary(i - 1)' = Boundary(i - 1)
        <5>1. i \in 0 .. n /\ i - 1 \in 0 .. n
          BY <2>1
        <5> QED
          BY <3>4, <5>1 DEF Begun
      <4>3. Boundary(i) = frames[i].start + FrameSize(frames[i].kind)
        BY <2>1 DEF Boundary
      <4>4. frames[i] \in [kind : Kind, start : Nat]
        BY <2>1, ElementOK, Zenon DEF Typed
      <4>5. frames[i].start \in Nat /\ FrameSize(frames[i].kind) \in Nat
        BY <4>4, FrameSizes
      <4>6. Boundary(i) <= Len(input)
        BY <4>1 DEF LaidOut
      <4>7. ASSUME NEW k \in 1 .. FrameSize(frames[i].kind)
            PROVE  frames[i].start + k \in 1 .. Len(input)
        <5>1. PICK b \in Nat, z \in Nat, l \in Nat :
                b = frames[i].start /\ z = FrameSize(frames[i].kind) /\ l = Len(input)
          BY <2>1, <4>5, Zenon
        <5>2. b + z <= l /\ k \in 1 .. z
          BY <4>3, <4>6, <5>1, Zenon
        <5>3. b + k \in 1 .. l
          BY <5>2
        <5> QED
          BY <5>1, <5>3, Zenon
      <4>8. \A k \in 1 .. FrameSize(frames[i].kind) :
              input'[frames[i].start + k] = input[frames[i].start + k]
        BY <3>4, <4>7, Zenon DEF Begun
      <4>9. Boundary(i) <= Len(input')
        BY <2>1, <3>1, <3>5, <4>3, <4>5, <4>6
      <4> QED
        BY <4>1, <4>2, <4>8, <4>9, Zenon DEF LaidOut
    <3>9. LaidOut(n + 1)'
      <4>1. Boundary(n)' = Len(input) /\ (n + 1) - 1 = n
        BY <2>1, <3>4 DEF InputInv, Begun
      <4>2. Len(input') \in Nat /\ Len(input') <= Len(input')
        BY <2>1, <3>1, <3>5
      <4>3. /\ frames'[n + 1].start = Len(input) /\ frames'[n + 1].kind = kind
            /\ \A k \in 1 .. FrameSize(kind) : input'[Len(input) + k] = <<kind, k>>
        BY <3>4 DEF Begun
      <4> QED
        BY <3>7, <4>1, <4>2, <4>3, Zenon DEF LaidOut
    <3>10. \A i \in 1 .. Len(frames') : LaidOut(i)'
      BY <2>1, <3>5, <3>8, <3>9
    <3>11. Typed'
      BY <3>4, Zenon DEF Begun
    <3> QED
      BY <3>5, <3>6, <3>7, <3>10, <3>11 DEF InputInv
  <2> QED
    BY <2>3, <2>4, <2>5, <2>6, <2>7, InputSteps
<1> QED
  BY <1>1, <1>2, PTL DEF ConnectionSpec
-----------------------------------------------------------------------------
(* Which steps touch the clock and the times of the session. *)
LEMMA ClockSteps ==
  ASSUME [ConnectionNext]_connection
  PROVE  \/ UNCHANGED <<now, visited, timedout, client, session>>
         \/ /\ pc' = "closed" /\ UNCHANGED <<now, visited, timedout, client>>
            /\ session' = [last_inbound |-> 0, last_heartbeat |-> 0]
         \/ \E re \in {"none", "hup", "error"} : Poll(re)
         \/ Recv \/ Tick \/ GoOn \/ \E kind \in Kind : Begin(kind)
<1> USE DEF outside, history, server
<1>1. CASE PollError \/ EndPolled \/ Ready
  BY <1>1 DEF PollError, EndPolled, Ready, close_connection
<1>2. CASE LastFrame \/ Deliver \/ Overflowed
  BY <1>2 DEF LastFrame, Deliver, Overflowed
<1>3. CASE \E broken \in BOOLEAN : Write(broken) \/ FlushOut(broken)
  BY <1>3 DEF Write, FlushOut
<1>4. CASE \E room \in BOOLEAN : Dispatch(room)
  BY <1>4 DEF Dispatch
<1>5. CASE \E md \in BOOLEAN : DrainMarketData(md)
  BY <1>5 DEF DrainMarketData
<1>6. CASE Receive \/ HangUp
  BY <1>6 DEF Receive, HangUp
<1>7. CASE UNCHANGED connection
  BY <1>7 DEF connection
<1> QED
  BY <1>1, <1>2, <1>3, <1>4, <1>5, <1>6, <1>7, Zenon DEF ConnectionNext

(* What a turn does to the times. *)
LEMMA PollTimes ==
  ASSUME NEW re \in {"none", "hup", "error"}, Poll(re)
  PROVE  /\ pc = "poll" /\ pc' = "write" /\ poll' = Polled(re)
         /\ visited' = now /\ UNCHANGED <<now, client, net>>
         /\ TimedOut => timedout' = TRUE /\ UNCHANGED session
         /\ ~TimedOut => /\ UNCHANGED timedout
                         /\ \/ UNCHANGED session
                            \/ session' = [session EXCEPT !.last_heartbeat = now]
<1>1. service_timers /\ pc = "poll" /\ pc' = "write" /\ poll' = Polled(re)
      /\ UNCHANGED <<now, client, net>>
  BY DEF Poll, outside
<1>2. CASE TimedOut
  BY <1>1, <1>2 DEF service_timers, HeartbeatDue
<1>3. CASE ~TimedOut
  BY <1>1, <1>3 DEF service_timers
<1> QED
  BY <1>1, <1>2, <1>3, Zenon

(* The times stay in order. *)
LEMMA ClockKept == ConnectionSpec => []ClockOK
<1>1. ConnectionInit => ClockOK
  <2> SUFFICES ASSUME ConnectionInit PROVE ClockOK
    OBVIOUS
  <2>1. /\ now = 0 /\ visited = 0 /\ timedout = FALSE
        /\ client = [spoke |-> 0, silent |-> FALSE]
        /\ session = [last_inbound |-> 0, last_heartbeat |-> 0]
    BY Zenon DEF ConnectionInit
  <2>2. 0 \in Nat /\ 0 \in 0 .. 0 /\ FALSE \in BOOLEAN
    OBVIOUS
  <2>3. client \in [spoke : 0 .. now, silent : BOOLEAN]
    BY <2>1, <2>2, Zenon
  <2>4. session \in [last_inbound : 0 .. now, last_heartbeat : 0 .. now]
    BY <2>1, <2>2, Zenon
  <2> QED
    BY <2>1, <2>2, <2>3, <2>4, Zenon DEF ClockOK
<1>2. ClockOK /\ [ConnectionNext]_connection => ClockOK'
  <2> SUFFICES ASSUME ClockOK, [ConnectionNext]_connection PROVE ClockOK'
    OBVIOUS
  <2>1. CASE UNCHANGED <<now, visited, timedout, client, session>>
    BY <2>1 DEF ClockOK
  <2>2. CASE /\ pc' = "closed" /\ UNCHANGED <<now, visited, timedout, client>>
             /\ session' = [last_inbound |-> 0, last_heartbeat |-> 0]
    BY <2>2 DEF ClockOK
  <2>3. ASSUME NEW re \in {"none", "hup", "error"}, Poll(re) PROVE ClockOK'
    <3>1. /\ visited' = now /\ now' = now /\ client' = client /\ timedout' \in BOOLEAN
          /\ session' = session \/ session' = [session EXCEPT !.last_heartbeat = now]
      BY <2>3, PollTimes, Zenon DEF ClockOK
    <3> QED
      BY <3>1 DEF ClockOK
  <2>4. CASE Recv
    <3>1. /\ UNCHANGED <<now, visited, timedout, client>>
          /\ session' = session \/ session' = [session EXCEPT !.last_inbound = now]
      BY <2>4 DEF Recv, outside, history
    <3> QED
      BY <3>1 DEF ClockOK
  <2>5. CASE Tick
    <3>1. /\ now' = now + 1 /\ UNCHANGED <<visited, timedout, session>>
          /\ \E b \in BOOLEAN : client' = [client EXCEPT !.silent = b]
      BY <2>5, Zenon DEF Tick, server, history, ClockOK
    <3> QED
      BY <3>1 DEF ClockOK
  <2>6. CASE GoOn \/ \E kind \in Kind : Begin(kind)
    <3>1. /\ UNCHANGED <<now, visited, timedout, session>>
          /\ client' = [client EXCEPT !.spoke = now]
      BY <2>6, Zenon DEF GoOn, Begin, server, history
    <3> QED
      BY <3>1 DEF ClockOK
  <2> QED
    BY <2>1, <2>2, <2>3, <2>4, <2>5, <2>6, ClockSteps
<1> QED
  BY <1>1, <1>2, PTL DEF ConnectionSpec

(* What poll() reported is a record of four. *)
LEMMA PollKept == ConnectionSpec => []PollOK
<1>1. ConnectionInit => PollOK
  BY DEF ConnectionInit, PollOK, NoEvents
<1>2. PollOK /\ [ConnectionNext]_connection => PollOK'
  <2> SUFFICES ASSUME PollOK, [ConnectionNext]_connection PROVE PollOK'
    OBVIOUS
  <2>1. ASSUME NEW re \in {"none", "hup", "error"}, Poll(re) PROVE PollOK'
    BY <2>1 DEF Poll, Polled, PollOK
  <2>2. CASE PollError \/ EndPolled \/ Ready
    <3>1. poll' = NoEvents \/ poll' = poll
      BY <2>2 DEF PollError, EndPolled, Ready, close_connection
    <3>2. NoEvents \in [in : BOOLEAN, out : BOOLEAN, re : {"none", "hup", "error"},
                        full : BOOLEAN]
      BY DEF NoEvents
    <3> QED
      BY <3>1, <3>2, Zenon DEF PollOK
  <2>3. CASE LastFrame \/ Recv
    <3>1. poll' = poll \/ \E b \in BOOLEAN : poll' = [poll EXCEPT !.full = b]
      BY <2>3, Zenon DEF LastFrame, Recv
    <3> QED
      BY <3>1 DEF PollOK
  <2>4. ASSUME NEW broken \in BOOLEAN, Write(broken) PROVE PollOK'
    <3>1. poll' = [poll EXCEPT !.in = FALSE, !.out = FALSE]
      BY <2>4 DEF Write
    <3> QED
      BY <3>1, Zenon DEF PollOK
  <2>5. CASE UNCHANGED poll
    BY <2>5 DEF PollOK
  <2>6. \/ UNCHANGED poll \/ PollError \/ EndPolled \/ Ready \/ LastFrame \/ Recv
        \/ \E re \in {"none", "hup", "error"} : Poll(re)
        \/ \E broken \in BOOLEAN : Write(broken)
    BY ZenonT(30) DEF ConnectionNext, connection, Deliver, Overflowed, FlushOut, Dispatch,
       DrainMarketData, Begin, GoOn, Receive, HangUp, Tick, server
  <2> QED
    BY <2>1, <2>2, <2>3, <2>4, <2>5, <2>6
<1> QED
  BY <1>1, <1>2, PTL DEF ConnectionSpec

(* How a step may change what SilenceInv speaks of. *)
LEMMA SilenceSteps ==
  ASSUME [ConnectionNext]_connection, PollOK, NetOK
  PROVE  \/ /\ UNCHANGED <<now, visited, timedout, client, session>>
            /\ Unread' = Unread /\ (Open' => Open) /\ (AboutToRead => AboutToRead' \/ ~Open')
         \/ pc' = "closed" /\ UNCHANGED <<now, visited, timedout, client>>
         \/ \E re \in {"none", "hup", "error"} : Poll(re)
         \/ Recv /\ Readable # 0
         \/ Tick \/ GoOn \/ \E kind \in Kind : Begin(kind)
<1> USE DEF outside, history, server, Open, Unread, AboutToRead
<1>1. CASE PollError \/ EndPolled \/ Ready
  BY <1>1 DEF PollError, EndPolled, Ready, close_connection
<1>2. CASE LastFrame \/ Deliver \/ Overflowed
  BY <1>2 DEF LastFrame, Deliver, Overflowed
<1>3. ASSUME NEW broken \in BOOLEAN, Write(broken)
      PROVE  /\ UNCHANGED <<now, visited, timedout, client, session>>
             /\ Unread' = Unread /\ (Open' => Open) /\ (AboutToRead => AboutToRead')
  BY <1>3, Zenon DEF Write
<1>4. CASE \E broken \in BOOLEAN : FlushOut(broken)
  BY <1>4 DEF FlushOut
<1>5. CASE Recv /\ Readable = 0
  <2>1. ~Unread
    BY <1>5, SizesAssumption DEF Readable, Least, NetOK
  <2> QED
    BY <1>5, <2>1 DEF Recv
<1>6. CASE \E room \in BOOLEAN : Dispatch(room)
  BY <1>6 DEF Dispatch
<1>7. CASE \E md \in BOOLEAN : DrainMarketData(md)
  BY <1>7 DEF DrainMarketData
<1>8. CASE Receive
  BY <1>8 DEF Receive
<1>9. CASE HangUp
  BY <1>9 DEF HangUp, NetOK
<1>10. CASE UNCHANGED connection
  BY <1>10 DEF connection
<1> QED
  BY <1>1, <1>2, <1>3, <1>4, <1>5, <1>6, <1>7, <1>8, <1>9, <1>10, Zenon DEF ConnectionNext

(* service_timers gives up only a connection whose client was silent for the
   timeout, less the time between two turns: whatever else the client, the
   buffers and the matching thread do. *)
THEOREM SilenceOnly == ConnectionSpec => []OnlySilenceTimesOut
<1>1. ConnectionInit => SilenceInv
  BY TimesAssumption DEF ConnectionInit, SilenceInv, Unread
<1>2. ClockOK /\ PollOK /\ NetOK /\ Typed /\ SilenceInv /\ [ConnectionNext]_connection
        => SilenceInv'
  <2> SUFFICES ASSUME ClockOK, PollOK, NetOK, Typed, SilenceInv, [ConnectionNext]_connection,
                      ~client'.silent
               PROVE  SilenceInv'
    BY DEF SilenceInv
  <2>1. /\ now \in Nat /\ visited \in 0 .. now /\ client.spoke \in 0 .. now
        /\ client.silent \in BOOLEAN /\ session.last_inbound \in 0 .. now
        /\ TimeoutTicks \in Nat /\ MaxStall \in Nat /\ MaxStall < TimeoutTicks
    BY TimesAssumption DEF ClockOK
  <2>2. CASE /\ UNCHANGED <<now, visited, timedout, client, session>>
             /\ Unread' = Unread /\ (Open' => Open) /\ (AboutToRead => AboutToRead' \/ ~Open')
    BY <2>2 DEF SilenceInv
  <2>3. CASE pc' = "closed" /\ UNCHANGED <<now, visited, timedout, client>>
    BY <2>3 DEF SilenceInv, Open
  <2>4. ASSUME NEW re \in {"none", "hup", "error"}, Poll(re) PROVE SilenceInv'
    <3>1. /\ pc = "poll" /\ pc' = "write" /\ poll' = Polled(re) /\ visited' = now
          /\ UNCHANGED <<now, client, net>>
      BY <2>4, PollTimes, Zenon
    <3>2. /\ ~timedout /\ now - client.spoke < TimeoutTicks - MaxStall /\ now - visited <= MaxStall
          /\ ~Unread => client.spoke <= session.last_inbound
          /\ visited - session.last_inbound < TimeoutTicks - MaxStall
      BY <3>1 DEF SilenceInv, AboutToRead, Open
    <3>3. ~TimedOut
      BY <2>1, <3>2 DEF TimedOut
    <3>4. session'.last_inbound = session.last_inbound /\ ~timedout'
      BY <2>4, <3>2, <3>3, PollTimes, Zenon DEF ClockOK
    <3>5. Unread' = Unread /\ (Unread => AboutToRead')
      BY <3>1, Zenon DEF Unread, AboutToRead, Polled
    <3> QED
      BY <2>1, <3>1, <3>2, <3>4, <3>5 DEF SilenceInv
  <2>5. CASE Recv /\ Readable # 0
    <3>1. /\ UNCHANGED <<client, now, visited, timedout>> /\ pc = "recv"
          /\ session' = [session EXCEPT !.last_inbound = now]
      BY <2>5 DEF Recv, outside, history
    <3>2. session'.last_inbound = now
      BY <3>1 DEF ClockOK
    <3>3. ~timedout /\ now - client.spoke < TimeoutTicks - MaxStall /\ now - visited <= MaxStall
      BY <3>1 DEF SilenceInv, Open
    <3> QED
      BY <2>1, <3>1, <3>2, <3>3 DEF SilenceInv
  <2>6. CASE Tick
    <3>1. /\ Open /\ now' = now + 1 /\ now - visited < MaxStall
          /\ UNCHANGED <<pc, poll, net, session, visited, timedout>>
          /\ client' = [client EXCEPT !.silent =
                           @ \/ now + 1 - client.spoke >= TimeoutTicks - MaxStall]
      BY <2>6 DEF Tick, server, history
    <3>2. /\ client'.spoke = client.spoke /\ ~client.silent
          /\ ~(now + 1 - client.spoke >= TimeoutTicks - MaxStall)
      BY <3>1, Zenon DEF ClockOK
    <3>3. Unread' = Unread /\ AboutToRead' = AboutToRead /\ Open'
      BY <3>1 DEF Unread, AboutToRead, Open
    <3> QED
      BY <2>1, <3>1, <3>2, <3>3 DEF SilenceInv
  <2>7. CASE GoOn \/ \E kind \in Kind : Begin(kind)
    <3>1. \E n \in Nat \ {0} : net' = [net EXCEPT !.arrived = @ + n]
      <4>1. CASE GoOn
        <5>1. Len(input) - net.arrived \in Nat
          BY DEF NetOK, Typed
        <5> QED
          BY <4>1, <5>1 DEF GoOn
      <4>2. CASE \E kind \in Kind : Begin(kind)
        <5>1. PICK kind \in Kind : Begin(kind)
          BY <4>2
        <5>2. PICK z \in Nat : z = FrameSize(kind)
          BY FrameSizes
        <5>3. PICK n \in 1 .. z : net' = [net EXCEPT !.arrived = @ + n]
          BY <5>1, <5>2, Zenon DEF Begin
        <5>4. n \in Nat \ {0}
          BY <5>3
        <5> QED
          BY <5>3, <5>4, Zenon
      <4> QED
        BY <2>7, <4>1, <4>2
    <3>2. Unread' /\ net'.taken = net.taken
      BY <3>1 DEF NetOK, Unread
    <3>3. /\ Open /\ UNCHANGED <<pc, poll, session, now, visited, timedout>>
          /\ client' = [client EXCEPT !.spoke = now]
      BY <2>7, Zenon DEF GoOn, Begin, server, history
    <3>4. client'.spoke = now /\ client'.silent = client.silent
      BY <3>3 DEF ClockOK
    <3>5. AboutToRead => AboutToRead'
      BY <3>2, <3>3 DEF AboutToRead
    <3> QED
      BY <2>1, <3>2, <3>3, <3>4, <3>5 DEF SilenceInv
  <2> QED
    BY <2>2, <2>3, <2>4, <2>5, <2>6, <2>7, SilenceSteps, Zenon
<1>3. ClockOK /\ SilenceInv => OnlySilenceTimesOut
  BY DEF ClockOK, SilenceInv, OnlySilenceTimesOut
<1>4. InputInv => Typed
  BY Zenon DEF InputInv
<1> QED
  BY <1>1, <1>2, <1>3, <1>4, ClockKept, PollKept, InputLaidOut, PTL DEF ConnectionSpec
-----------------------------------------------------------------------------
(* Only a frame that is dispatched and the clock touch what the bucket has. *)
LEMMA RateSteps ==
  ASSUME [ConnectionNext]_connection
  PROVE  \/ UNCHANGED <<bucket, since, now>> /\ (Open' => Open)
         \/ ~Open' /\ UNCHANGED <<since, now>> /\ bucket' = [tokens |-> 0, last_ns |-> 0]
         \/ Tick
         \/ \E room \in BOOLEAN : Dispatch(room)
<1> USE DEF Open, outside, history, server
<1>1. CASE \E re \in {"none", "hup", "error"} : Poll(re)
  BY <1>1, Zenon DEF Poll
<1>2. CASE PollError \/ EndPolled \/ Ready
  BY <1>2, Zenon DEF PollError, EndPolled, Ready, close_connection
<1>3. CASE Recv \/ LastFrame \/ Deliver \/ Overflowed
  BY <1>3 DEF Recv, LastFrame, Deliver, Overflowed
<1>4. CASE \E broken \in BOOLEAN : Write(broken) \/ FlushOut(broken)
  BY <1>4, Zenon DEF Write, FlushOut
<1>5. CASE \E md \in BOOLEAN : DrainMarketData(md)
  BY <1>5 DEF DrainMarketData
<1>6. CASE GoOn \/ Receive \/ HangUp \/ \E kind \in Kind : Begin(kind)
  BY <1>6, Zenon DEF GoOn, Receive, HangUp, Begin
<1>7. CASE UNCHANGED connection
  BY <1>7, Zenon DEF connection
<1> QED
  BY <1>1, <1>2, <1>3, <1>4, <1>5, <1>6, <1>7, Zenon DEF ConnectionNext

(* What a bucket holds is at most the burst, and grows by the rate. *)
LEMMA Fills ==
  ASSUME NEW b \in 0 .. Burst, NEW t \in Nat, NEW l \in 0 .. t
  PROVE  /\ Fill(b, l, t) \in 0 .. Burst /\ Fill(b, l, t + 1) \in 0 .. Burst
         /\ Fill(b, l, t + 1) <= Fill(b, l, t) + Rate
         /\ t <= l => Fill(b, l, t) = b
<1>1. PICK r \in Nat : r = (t - l) * Rate
  BY RateAssumption
<1>2. ((t + 1) - l) * Rate = r + Rate
  BY <1>1, RateAssumption
<1>3. t <= l => r = 0
  BY <1>1, RateAssumption
<1>4. Rate \in Nat /\ Burst \in Nat
  BY RateAssumption
<1> QED BY <1>1, <1>2, <1>3, <1>4 DEF Fill, Least

(* A tick later the rate more is allowed. *)
LEMMA SpareLater ==
  ASSUME NEW n \in Nat, NEW h \in Nat, NEW g \in Nat, g <= h + Rate,
         NEW t \in Nat, NEW from \in 0 .. t, Spare(n, h, from, t)
  PROVE  Spare(n, g, from, t + 1)
<1>1. PICK r \in Nat : r = Rate * (t - from)
  BY RateAssumption
<1>2. PICK c \in Nat : c = Cost * n
  BY RateAssumption
<1>3. Rate * ((t + 1) - from) = r + Rate
  BY <1>1, RateAssumption
<1>4. Rate \in Nat /\ Burst \in Nat
  BY RateAssumption
<1> QED BY <1>1, <1>2, <1>3, <1>4 DEF Spare

(* No message at all is allowed at once, whatever is held. *)
LEMMA SpareAtOnce ==
  ASSUME NEW g \in 0 .. Burst, NEW t \in Nat
  PROVE  Spare(0, g, t, t)
<1>1. Cost * 0 = 0 /\ Rate * (t - t) = 0
  BY RateAssumption
<1> QED BY <1>1, RateAssumption DEF Spare

(* What is held pays for one more message. *)
LEMMA SpareOne ==
  ASSUME NEW n \in Nat, NEW h \in Nat, Cost <= h, NEW t \in Nat, NEW from \in 0 .. t,
         Spare(n, h, from, t)
  PROVE  Spare(n + 1, h - Cost, from, t)
<1>1. PICK r \in Nat : r = Rate * (t - from)
  BY RateAssumption
<1>2. PICK c \in Nat : c = Cost * n
  BY RateAssumption
<1>3. Cost * (n + 1) = c + Cost
  BY <1>2, RateAssumption
<1>4. Cost \in Nat /\ Burst \in Nat
  BY RateAssumption
<1> QED BY <1>1, <1>2, <1>3, <1>4 DEF Spare

(* What leaves something to spare is allowed. *)
LEMMA SpareAllowed ==
  ASSUME NEW n \in Nat, NEW h \in Nat, NEW t \in Nat, NEW from \in 0 .. t, Spare(n, h, from, t)
  PROVE  Allowed(n, from, t)
<1>1. PICK r \in Nat : r = Rate * (t - from)
  BY RateAssumption
<1>2. PICK c \in Nat : c = Cost * n
  BY RateAssumption
<1>3. Burst \in Nat
  BY RateAssumption
<1> QED BY <1>1, <1>2, <1>3 DEF Spare, Allowed

(* try_consume lets no more messages pass in any interval than the burst and
   what accrues in it, for every rate, burst and cost. *)
THEOREM RateKept == ConnectionSpec => []RateBounded
<1>1. ConnectionInit => RateInv
  <2> SUFFICES ASSUME ConnectionInit PROVE RateInv
    OBVIOUS
  <2>1. /\ now = 0 /\ bucket = [tokens |-> Burst, last_ns |-> 0]
        /\ since = [t \in 0 .. MaxTime |-> 0]
    BY Zenon DEF ConnectionInit
  <2>2. /\ now \in 0 .. MaxTime /\ bucket \in [tokens : 0 .. Burst, last_ns : 0 .. now]
        /\ bucket.tokens \in 0 .. Burst /\ bucket.last_ns = 0
    BY <2>1, RateAssumption
  <2>3. since \in [0 .. MaxTime -> Nat] /\ \A t \in 0 .. MaxTime : since[t] = 0
    BY <2>1
  <2>4. Accrued \in 0 .. Burst
    <3>1. 0 \in Nat /\ 0 \in 0 .. 0
      OBVIOUS
    <3> QED BY <2>1, <2>2, <3>1, Fills, Zenon DEF Accrued
  <2>5. ASSUME NEW from \in 0 .. now
        PROVE  Spare(since[from], Accrued, from, now) /\ Allowed(since[from], from, now)
    <3>1. from = 0 /\ 0 \in 0 .. MaxTime /\ 0 \in Nat /\ 0 \in 0 .. 0 /\ Accrued \in Nat
      BY <2>1, <2>4, RateAssumption
    <3>2. Spare(0, Accrued, 0, 0)
      BY <2>4, <3>1, SpareAtOnce, Zenon
    <3>3. Allowed(0, 0, 0)
      BY <3>1, <3>2, SpareAllowed, Zenon
    <3> QED BY <2>1, <2>3, <3>1, <3>2, <3>3, Zenon
  <2> QED BY <2>2, <2>3, <2>5, Zenon DEF RateInv
<1>2. RateInv /\ [ConnectionNext]_connection => RateInv'
  <2> SUFFICES ASSUME RateInv, [ConnectionNext]_connection PROVE RateInv'
    OBVIOUS
  <2>1. /\ now \in 0 .. MaxTime /\ bucket \in [tokens : 0 .. Burst, last_ns : 0 .. now]
        /\ since \in [0 .. MaxTime -> Nat]
    BY Zenon DEF RateInv
  <2>2. now \in Nat /\ MaxTime \in Nat /\ Burst \in Nat /\ Cost \in Nat
    BY <2>1, RateAssumption
  <2>3. bucket.tokens \in 0 .. Burst /\ bucket.last_ns \in 0 .. now
    BY <2>1
  <2>4. Accrued \in 0 .. Burst /\ Accrued \in Nat
    <3>1. Accrued \in 0 .. Burst
      BY <2>2, <2>3, Fills, Zenon DEF Accrued
    <3> QED BY <2>2, <3>1
  <2>5. ASSUME NEW from \in 0 .. now PROVE since[from] \in Nat /\ from \in 0 .. MaxTime
    <3>1. from \in 0 .. MaxTime
      BY <2>1, <2>2
    <3> QED BY <2>1, <3>1, Zenon
  <2>6. CASE UNCHANGED <<bucket, since, now>> /\ (Open' => Open)
    BY <2>6, Zenon DEF RateInv, Accrued
  <2>7. CASE ~Open' /\ UNCHANGED <<since, now>> /\ bucket' = [tokens |-> 0, last_ns |-> 0]
    <3>1. bucket' \in [tokens : 0 .. Burst, last_ns : 0 .. now]
      BY <2>2, <2>7
    <3> QED BY <2>7, <3>1, Zenon DEF RateInv
  <2>8. CASE Tick
    <3>1. Open /\ now < MaxTime /\ now' = now + 1 /\ UNCHANGED <<bucket, since>>
      BY <2>8, Zenon DEF Tick, server, history
    <3>2. Accrued' = Fill(bucket.tokens, bucket.last_ns, now + 1)
      BY <3>1, Zenon DEF Accrued
    <3>3. Accrued' \in 0 .. Burst /\ Accrued' <= Accrued + Rate
      <4>1. /\ Fill(bucket.tokens, bucket.last_ns, now + 1) \in 0 .. Burst
            /\ Fill(bucket.tokens, bucket.last_ns, now + 1)
                 <= Fill(bucket.tokens, bucket.last_ns, now) + Rate
        BY <2>2, <2>3, Fills, Zenon
      <4> QED BY <3>2, <4>1, Zenon DEF Accrued
    <3>4. now' \in 0 .. MaxTime /\ now' \in Nat /\ Accrued' \in Nat
      BY <2>2, <3>1, <3>3
    <3>5. bucket' \in [tokens : 0 .. Burst, last_ns : 0 .. now']
      <4>1. bucket.last_ns \in 0 .. now'
        BY <2>2, <2>3, <3>1
      <4> QED BY <2>1, <3>1, <4>1
    <3>6. ASSUME NEW t \in 0 .. MaxTime, now' < t PROVE since'[t] = 0
      <4>1. now < t
        BY <2>2, <3>1, <3>6
      <4> QED BY <3>1, <4>1, Zenon DEF RateInv
    <3>7. ASSUME NEW from \in 0 .. now'
          PROVE  /\ Spare(since'[from], Accrued', from, now')
                 /\ since'[from] \in Nat
      <4>1. CASE from = now'
        <5>1. now < from
          BY <2>2, <3>1, <4>1
        <5>2. since'[from] = 0
          BY <3>1, <3>4, <4>1, <5>1, Zenon DEF RateInv
        <5>3. 0 \in Nat
          OBVIOUS
        <5> QED BY <3>3, <3>4, <4>1, <5>2, <5>3, SpareAtOnce, Zenon
      <4>2. CASE from # now'
        <5>1. from \in 0 .. now
          BY <2>2, <3>1, <4>2
        <5>2. Spare(since[from], Accrued, from, now) /\ since[from] \in Nat
          BY <2>5, <3>1, <5>1, Zenon DEF RateInv
        <5>3. Spare(since[from], Accrued', from, now + 1)
          BY <2>2, <2>4, <3>3, <3>4, <5>1, <5>2, SpareLater, Zenon
        <5> QED BY <3>1, <5>2, <5>3, Zenon
      <4> QED BY <4>1, <4>2, Zenon
    <3>8. \A from \in 0 .. now' : Allowed(since'[from], from, now')
      BY <3>4, <3>7, SpareAllowed, Zenon
    <3> QED BY <2>1, <3>1, <3>4, <3>5, <3>6, <3>7, <3>8, Zenon DEF RateInv
  <2>9. ASSUME NEW room \in BOOLEAN, Dispatch(room) PROVE RateInv'
    <3> DEFINE fresh == refill(bucket, now)
    <3>1. Open /\ now' = now
      BY <2>9, Zenon DEF Dispatch, Open, outside
    <3>2. fresh = [tokens |-> Accrued, last_ns |-> now]
      <4>1. CASE now <= bucket.last_ns
        <5>1. bucket.last_ns = now
          BY <2>2, <2>3, <4>1
        <5>2. Accrued = bucket.tokens
          BY <2>2, <2>3, <4>1, Fills, Zenon DEF Accrued
        <5>3. bucket = [tokens |-> bucket.tokens, last_ns |-> bucket.last_ns]
          BY <2>1
        <5> QED BY <4>1, <5>1, <5>2, <5>3, Zenon DEF refill
      <4>2. CASE ~(now <= bucket.last_ns)
        <5>1. fresh = [last_ns |-> now, tokens |-> Accrued]
          BY <4>2, Zenon DEF refill, Accrued, Fill
        <5> QED BY <5>1
      <4> QED BY <4>1, <4>2, Zenon
    <3>3. \/ UNCHANGED <<bucket, since>>
          \/ bucket' = fresh /\ UNCHANGED since
          \/ fresh.tokens >= Cost /\ admit(fresh)
      BY <2>9, Zenon DEF Dispatch, dispatch
    <3> HIDE DEF fresh
    <3>4. CASE UNCHANGED <<bucket, since>>
      BY <3>1, <3>4, Zenon DEF RateInv, Accrued
    <3>5. ASSUME NEW h \in 0 .. Burst, bucket' = [tokens |-> h, last_ns |-> now]
          PROVE  bucket' \in [tokens : 0 .. Burst, last_ns : 0 .. now'] /\ Accrued' = h
      <4>1. now \in 0 .. now /\ now <= now
        BY <2>2
      <4>2. bucket'.tokens = h /\ bucket'.last_ns = now
        BY <3>5
      <4>3. Accrued' = h
        BY <2>2, <3>1, <4>1, <4>2, Fills, Zenon DEF Accrued
      <4> QED BY <3>1, <3>5, <4>1, <4>3
    <3>6. CASE bucket' = fresh /\ UNCHANGED since
      <4>1. bucket' \in [tokens : 0 .. Burst, last_ns : 0 .. now'] /\ Accrued' = Accrued
        BY <2>4, <3>2, <3>5, <3>6, Zenon
      <4> QED BY <3>1, <3>6, <4>1, Zenon DEF RateInv
    <3>7. CASE fresh.tokens >= Cost /\ admit(fresh)
      <4>1. fresh.tokens = Accrued /\ [fresh EXCEPT !.tokens = @ - Cost]
                                        = [tokens |-> Accrued - Cost, last_ns |-> now]
        BY <3>2
      <4>2. bucket' = [tokens |-> Accrued - Cost, last_ns |-> now] /\ Accrued >= Cost
        BY <3>7, <4>1, Zenon DEF admit
      <4>3. Accrued - Cost \in 0 .. Burst /\ Cost <= Accrued /\ Accrued - Cost \in Nat
        BY <2>2, <2>4, <4>2
      <4>4. /\ bucket' \in [tokens : 0 .. Burst, last_ns : 0 .. now']
            /\ Accrued' = Accrued - Cost
        BY <3>5, <4>2, <4>3, Zenon
      <4>5. since' = [t \in 0 .. MaxTime |-> IF t <= now THEN since[t] + 1 ELSE since[t]]
        BY <3>7, Zenon DEF admit
      <4>6. /\ \A t \in 0 .. MaxTime : t <= now => since'[t] = since[t] + 1
            /\ \A t \in 0 .. MaxTime : ~(t <= now) => since'[t] = since[t]
        BY <4>5, Zenon
      <4>7. since' \in [0 .. MaxTime -> Nat]
        <5>1. ASSUME NEW t \in 0 .. MaxTime
              PROVE  (IF t <= now THEN since[t] + 1 ELSE since[t]) \in Nat
          <6>1. PICK x \in Nat : x = since[t]
            BY <2>1, Zenon
          <6>2. x \in Nat /\ x + 1 \in Nat
            BY <6>1
          <6> QED BY <6>1, <6>2, Zenon
        <5> QED BY <4>5, <5>1, Zenon
      <4>8. ASSUME NEW t \in 0 .. MaxTime, now' < t PROVE since'[t] = 0
        <5>1. now < t /\ ~(t <= now)
          BY <2>2, <3>1, <4>8
        <5> QED BY <4>6, <5>1, Zenon DEF RateInv
      <4>9. ASSUME NEW from \in 0 .. now
            PROVE  Spare(since'[from], Accrued', from, now) /\ since'[from] \in Nat
        <5>1. Spare(since[from], Accrued, from, now) /\ since[from] \in Nat
          BY <2>5, <3>1, Zenon DEF RateInv
        <5>2. from <= now /\ from \in 0 .. MaxTime
          BY <2>2, <2>5
        <5>3. since'[from] = since[from] + 1
          BY <4>6, <5>2, Zenon
        <5>4. Spare(since[from] + 1, Accrued - Cost, from, now)
          BY <2>2, <2>4, <4>3, <5>1, SpareOne, Zenon
        <5> QED BY <4>4, <4>7, <5>2, <5>3, <5>4, Zenon
      <4>10. \A from \in 0 .. now : Allowed(since'[from], from, now)
        BY <2>2, <4>3, <4>4, <4>9, SpareAllowed, Zenon
      <4> QED BY <2>1, <3>1, <4>4, <4>7, <4>8, <4>9, <4>10, Zenon DEF RateInv
    <3> QED BY <3>3, <3>4, <3>6, <3>7, Zenon
  <2> QED BY <2>6, <2>7, <2>8, <2>9, RateSteps, Zenon
<1>3. RateInv => RateBounded
  BY Zenon DEF RateInv, RateBounded, Allowed
<1> QED
  BY <1>1, <1>2, <1>3, PTL DEF ConnectionSpec
-----------------------------------------------------------------------------
(* Only recv(), next_frame() and a new frame of the client touch what is read
   and dispatched; no other step leaves the reader. *)
LEMMA ReaderSteps ==
  ASSUME [ConnectionNext]_connection, NetOK, closing \in BOOLEAN
  PROVE  \/ /\ UNCHANGED <<reader, dispatched, input, frames>> /\ net'.taken = net.taken
            /\ closing' \in BOOLEAN
            /\ Open' => /\ Open /\ (Left' => Left)
                        /\ pc = "polled" /\ closing => pc' = "polled" /\ closing'
         \/ /\ ~Open' /\ UNCHANGED <<dispatched, frames>> /\ closing' = FALSE
            /\ reader' = [buf |-> <<>>, pos |-> 0, failed |-> FALSE]
         \/ Recv \/ LastFrame
         \/ \E room \in BOOLEAN : Dispatch(room)
         \/ \E kind \in Kind : Begin(kind)
<1> USE DEF Open, Left, outside, history, server
<1>1. CASE \E re \in {"none", "hup", "error"} : Poll(re)
  BY <1>1, Zenon DEF Poll, service_timers, queue_message, queue
<1>2. CASE PollError \/ EndPolled \/ Ready
  BY <1>2 DEF PollError, EndPolled, Ready, close_connection
<1>3. CASE Deliver \/ Overflowed
  BY <1>3, Zenon DEF Deliver, Overflowed, queue_message, queue
<1>4. CASE \E broken \in BOOLEAN : Write(broken) \/ FlushOut(broken)
  BY <1>4, Zenon DEF Write, FlushOut, handle_writable
<1>5. CASE \E md \in BOOLEAN : DrainMarketData(md)
  BY <1>5, Zenon DEF DrainMarketData, queue
<1>6. CASE GoOn \/ HangUp
  BY <1>6 DEF GoOn, HangUp, NetOK
<1>7. CASE Receive \/ Tick
  BY <1>7, Zenon DEF Receive, Tick
<1>8. CASE UNCHANGED connection
  BY <1>8 DEF connection
<1> QED
  BY <1>1, <1>2, <1>3, <1>4, <1>5, <1>6, <1>7, <1>8, Zenon DEF ConnectionNext

(* The parts of a reader. *)
LEMMA ReaderParts ==
  ASSUME NEW r \in Reader
  PROVE  r.buf \in Seq(InByte) /\ r.pos \in Nat /\ r.failed \in BOOLEAN
  BY Zenon DEF Reader

(* c is a reader with these parts. *)
Parts(c, b, p, f) == c \in Reader /\ c.buf = b /\ c.pos = p /\ c.failed = f

(* A reader that is given another buffer and position. *)
LEMMA BothUpdated ==
  ASSUME NEW r \in Reader, NEW b \in Seq(InByte), NEW p \in Nat
  PROVE  Parts([r EXCEPT !.buf = b, !.pos = p], b, p, r.failed)
  BY Zenon DEF Reader, Parts

(* A reader that is given another buffer. *)
LEMMA BufUpdated ==
  ASSUME NEW r \in Reader, NEW b \in Seq(InByte)
  PROVE  Parts([r EXCEPT !.buf = b], b, r.pos, r.failed)
  BY Zenon DEF Reader, Parts

(* A reader that is given another position. *)
LEMMA PosUpdated ==
  ASSUME NEW r \in Reader, NEW p \in Nat
  PROVE  Parts([r EXCEPT !.pos = p], r.buf, p, r.failed)
  BY Zenon DEF Reader, Parts

(* A reader that finds no frame. *)
LEMMA FailedUpdated ==
  ASSUME NEW r \in Reader, NEW f \in BOOLEAN
  PROVE  Parts([r EXCEPT !.failed = f], r.buf, r.pos, f)
  BY Zenon DEF Reader, Parts

(* How many bytes are held. *)
LEMMA AvailableOK ==
  ASSUME NEW r \in Reader, r.pos <= Len(r.buf)
  PROVE  available(r) \in Nat /\ r.pos + available(r) = Len(r.buf) /\ Len(r.buf) \in Nat
<1>1. r.buf \in Seq(InByte) /\ r.pos \in Nat
  BY ReaderParts, Zenon
<1>2. Len(r.buf) \in Nat
  <2> HIDE DEF InByte
  <2> QED BY <1>1
<1>3. PICK l \in Nat : l = Len(r.buf)
  BY <1>2
<1>4. PICK p \in Nat : p = r.pos
  BY <1>1
<1>5. available(r) = l - p /\ p <= l
  BY <1>3, <1>4, Zenon DEF available
<1>6. l - p \in Nat /\ p + (l - p) = l
  BY <1>5
<1> QED BY <1>3, <1>4, <1>5, <1>6, Zenon

(* The reader of a connection that starts or is closed. *)
LEMMA EmptyReader == ReaderOK([buf |-> <<>>, pos |-> 0, failed |-> FALSE])
<1> DEFINE r == [buf |-> <<>>, pos |-> 0, failed |-> FALSE]
<1>1. <<>> \in Seq(InByte) /\ 0 \in Nat /\ FALSE \in BOOLEAN /\ Len(<<>>) = 0 /\ 0 <= 0
  <2> HIDE DEF InByte
  <2> QED OBVIOUS
<1>2. r \in Reader /\ r.buf = <<>> /\ r.pos = 0
  BY <1>1, Zenon DEF Reader
<1> QED BY <1>1, <1>2, Zenon DEF ReaderOK

(* c holds the bytes that r holds. *)
SameHeld(c, r) == /\ ReaderOK(c) /\ c.failed = r.failed /\ available(c) = available(r)
                  /\ \A k \in 1 .. available(r) : c.buf[c.pos + k] = r.buf[r.pos + k]

(* Compaction moves the bytes that are left to the front and keeps each. *)
LEMMA Compacted == ASSUME NEW r, ReaderOK(r) PROVE SameHeld(compact_if_needed(r), r)
<1>1. r \in Reader /\ r.pos <= Len(r.buf) /\ r.buf \in Seq(InByte) /\ r.pos \in Nat
  BY ReaderParts, Zenon DEF ReaderOK
<1>2. available(r) \in Nat /\ available(r) = Len(r.buf) - r.pos /\ Len(r.buf) \in Nat
  BY <1>1, AvailableOK, Zenon DEF available
<1>3. ASSUME NEW b \in Seq(InByte), Len(b) = available(r),
             \A k \in 1 .. available(r) : b[k] = r.buf[r.pos + k],
             compact_if_needed(r) = [r EXCEPT !.buf = b, !.pos = 0]
      PROVE  SameHeld(compact_if_needed(r), r)
  <2> DEFINE c == compact_if_needed(r)
  <2>1. 0 \in Nat /\ r.failed \in BOOLEAN
    BY <1>1, ReaderParts, Zenon
  <2>2. c \in Reader /\ c.buf = b /\ c.pos = 0 /\ c.failed = r.failed
    <3>1. Parts(c, b, 0, r.failed)
      BY <1>1, <1>3, <2>1, BothUpdated, Zenon
    <3> QED BY <3>1, Zenon DEF Parts
  <2> HIDE DEF c
  <2>3. 0 <= available(r) /\ available(r) - 0 = available(r)
        /\ \A k \in 1 .. available(r) : 0 + k = k
    BY <1>2
  <2>4. ReaderOK(c) /\ available(c) = available(r)
    <3>1. available(c) = Len(c.buf) - c.pos
      BY Zenon DEF available
    <3> QED BY <1>3, <2>2, <2>3, <3>1, Zenon DEF ReaderOK
  <2>5. \A k \in 1 .. available(r) : c.buf[c.pos + k] = r.buf[r.pos + k]
    BY <1>3, <2>2, <2>3, Zenon
  <2> QED BY <2>2, <2>4, <2>5, Zenon DEF SameHeld, c
<1>4. CASE r.pos = Len(r.buf)
  <2>1. <<>> \in Seq(InByte) /\ Len(<<>>) = 0
    <3> HIDE DEF InByte
    <3> QED OBVIOUS
  <2>2. available(r) = 0 /\ 1 .. 0 = {}
    BY <1>2, <1>4
  <2>3. compact_if_needed(r) = [r EXCEPT !.buf = <<>>, !.pos = 0]
    BY <1>4, Zenon DEF compact_if_needed
  <2> QED BY <1>3, <2>1, <2>2, <2>3, Zenon
<1>5. CASE r.pos # Len(r.buf) /\ r.pos >= Threshold
  <2> DEFINE rest == SubSeq(r.buf, r.pos + 1, Len(r.buf))
  <2>1. Len(r.buf) <= Len(r.buf)
    BY <1>2
  <2>2. PartOf(InByte, rest, r.buf, r.pos, Len(r.buf))
    BY <1>1, <1>2, <2>1, PartOK, Zenon
  <2>3. compact_if_needed(r) = [r EXCEPT !.buf = rest, !.pos = 0]
    BY <1>5, Zenon DEF compact_if_needed
  <2> HIDE DEF rest
  <2> QED BY <1>2, <1>3, <2>2, <2>3, Zenon DEF PartOf
<1>6. CASE r.pos # Len(r.buf) /\ ~(r.pos >= Threshold)
  BY <1>6, Zenon DEF compact_if_needed, SameHeld
<1> QED BY <1>4, <1>5, <1>6, Zenon

(* Where the k-th byte held stands after n more were read: a were held before, from
   the p-th of l in the buffer, and t had been read. *)
ReadIndexes(a, p, l, t, n) ==
  /\ (l + n) - p = a + n /\ (t + n) - (a + n) = t - a /\ p <= l + n
  /\ \A k \in 1 .. a + n :
       IF k <= a THEN k \in 1 .. a /\ p + k \in 1 .. l
       ELSE /\ k - a \in 1 .. n /\ p + k = l + (k - a) /\ t + (k - a) = (t - a) + k

(* It stands there. *)
LEMMA ReadIndexed ==
  ASSUME NEW a \in Nat, NEW p \in Nat, NEW l \in Nat, NEW t \in Nat, NEW n \in Nat, p + a = l
  PROVE  ReadIndexes(a, p, l, t, n)
  BY DEF ReadIndexes

(* recv() appends the next bytes of the stream. *)
LEMMA RecvOK ==
  ASSUME ReaderInv, Typed, NetOK, Recv, Readable # 0
  PROVE  ReaderInv'
<1> DEFINE n == Readable
           bytes == SubSeq(input, net.taken + 1, net.taken + n)
           a == available(reader)
           l == Len(reader.buf)
<1>1. n \in Nat \ {0} /\ net.taken + n <= Len(input) /\ net.taken \in Nat
  BY SizesAssumption DEF NetOK, Typed, Readable, Least
<1>2. /\ n \in Nat /\ net.taken + n \in Nat /\ net.taken <= net.taken + n
      /\ (net.taken + n) - net.taken = n
  BY <1>1
<1>3. bytes \in Seq(InByte) /\ Len(bytes) = n /\ \A k \in 1 .. n : bytes[k] = input[net.taken + k]
  <2>1. PartOf(InByte, bytes, input, net.taken, net.taken + n)
    BY <1>1, <1>2, PartOK, Zenon DEF Typed
  <2> QED BY <1>2, <2>1, Zenon DEF PartOf
<1>4. /\ pc = "recv" /\ pc' = "frames" /\ reader' = append(reader, bytes)
      /\ net'.taken = net.taken + n /\ UNCHANGED <<closing, dispatched, input, frames>>
  BY DEF Recv, NetOK, outside, history
<1> HIDE DEF n, bytes
<1>5. Open /\ "recv" # "polled"
  BY <1>4 DEF Open
<1>6. /\ reader \in Reader /\ reader.pos <= Len(reader.buf) /\ Base = Boundary(Len(dispatched))
      /\ Held /\ InStep /\ ~reader.failed /\ closing \in BOOLEAN /\ dispatched \in Seq(Kind)
  BY <1>4, <1>5, Zenon DEF ReaderInv, ReaderOK
<1>7. reader.buf \in Seq(InByte) /\ reader.pos \in Nat /\ reader.failed = FALSE
  BY <1>6, ReaderParts, Zenon
<1>8. a \in Nat /\ reader.pos + a = l /\ l \in Nat
  BY <1>6, AvailableOK, Zenon
<1>9. Joins(InByte, reader.buf \o bytes, reader.buf, bytes)
  BY <1>3, <1>7, Joined, Zenon
<1>10. /\ reader' \in Reader /\ reader'.buf = reader.buf \o bytes
       /\ reader'.pos = reader.pos /\ reader'.failed = FALSE
  <2>1. reader.buf \o bytes \in Seq(InByte) /\ reader' = [reader EXCEPT !.buf = reader.buf \o bytes]
    BY <1>4, <1>6, <1>9, Zenon DEF append, Joins
  <2>2. Parts(reader', reader.buf \o bytes, reader.pos, reader.failed)
    BY <1>6, <2>1, BufUpdated, Zenon
  <2> QED BY <1>7, <2>2, Zenon DEF Parts
<1>11. /\ Len(reader'.buf) = l + n
       /\ \A k \in 1 .. l : reader'.buf[k] = reader.buf[k]
       /\ \A k \in 1 .. n : reader'.buf[l + k] = bytes[k]
  <2>1. Joins(InByte, reader'.buf, reader.buf, bytes)
    BY <1>9, <1>10, Zenon
  <2> QED BY <1>3, <2>1, Zenon DEF Joins
<1> HIDE DEF a, l
<1>12. /\ ReadIndexes(a, reader.pos, l, net.taken, n) /\ (l + n) - reader.pos = a + n
       /\ (net.taken + n) - (a + n) = net.taken - a /\ reader.pos <= l + n
  <2>1. ReadIndexes(a, reader.pos, l, net.taken, n)
    BY <1>1, <1>2, <1>7, <1>8, ReadIndexed, Zenon
  <2> QED BY <2>1, Zenon DEF ReadIndexes
<1>13. available(reader') = a + n /\ Base' = net.taken - a /\ Base = net.taken - a
  <2>1. available(reader') = Len(reader'.buf) - reader'.pos
    BY Zenon DEF available
  <2>2. available(reader') = a + n
    BY <1>10, <1>11, <1>12, <2>1, Zenon
  <2>3. Base' = net'.taken - available(reader') /\ Base = net.taken - a
    BY Zenon DEF Base, a
  <2> QED BY <1>4, <1>12, <2>2, <2>3, Zenon
<1>14. ASSUME NEW k \in 1 .. a + n
       PROVE  reader'.buf[reader'.pos + k] = input'[Base' + k]
  <2>1. CASE k <= a
    <3>1. k \in 1 .. a /\ reader.pos + k \in 1 .. l
      BY <1>12, <2>1, Zenon DEF ReadIndexes
    <3>2. reader.buf[reader.pos + k] = input[Base + k]
      BY <1>6, <3>1, Zenon DEF Held, a
    <3> QED BY <1>4, <1>10, <1>11, <1>13, <3>1, <3>2, Zenon
  <2>2. CASE ~(k <= a)
    <3>1. /\ k - a \in 1 .. n /\ reader.pos + k = l + (k - a)
          /\ net.taken + (k - a) = (net.taken - a) + k
      BY <1>12, <2>2, Zenon DEF ReadIndexes
    <3>2. reader'.buf[l + (k - a)] = input[net.taken + (k - a)]
      BY <1>3, <1>11, <3>1, Zenon
    <3> QED BY <1>4, <1>10, <1>13, <3>1, <3>2, Zenon
  <2> QED BY <2>1, <2>2, Zenon
<1>15. Held'
  BY <1>13, <1>14, Zenon DEF Held
<1>16. Boundary(Len(dispatched))' = Boundary(Len(dispatched)) /\ InStep'
  BY <1>4, <1>6, Zenon DEF Boundary, InStep
<1>17. ~Left'
  BY <1>4 DEF Left
<1>18. ReaderOK(reader')
  BY <1>10, <1>11, <1>12, Zenon DEF ReaderOK
<1> QED BY <1>4, <1>6, <1>10, <1>13, <1>15, <1>16, <1>17, <1>18, Zenon DEF ReaderInv

(* Where the k-th byte held stands after z of the a that were held are taken: p is the
   position in the buffer and b the one in the stream. *)
TakeIndexes(a, p, b, z) ==
  \A k \in 1 .. a - z : /\ z + k \in 1 .. a /\ (p + z) + k = p + (z + k)
                        /\ (b + z) + k = b + (z + k)

(* It stands there. *)
LEMMA TakeIndexed ==
  ASSUME NEW a \in Nat, NEW p \in Nat, NEW b \in Int, NEW z \in Nat
  PROVE  TakeIndexes(a, p, b, z)
  BY DEF TakeIndexes

(* next_frame() takes the next frame of the client, whole. *)
LEMMA DispatchOK ==
  ASSUME ReaderInv, InputInv, NetOK, NEW room \in BOOLEAN, Dispatch(room)
  PROVE  ReaderInv'
<1> DEFINE m == Len(dispatched)
           kind == HeaderAt(reader)
           size == need(reader)
           cut == [reader EXCEPT !.pos = @ + size]
<1>1. /\ pc = "frames" /\ reader' = compact_if_needed(cut) /\ dispatched' = Append(dispatched, kind)
      /\ UNCHANGED <<input, frames, net>> /\ closing' \in BOOLEAN
      /\ pc' = IF closing' THEN "polled" ELSE "frames"
  BY Zenon DEF Dispatch, dispatch, queue_message, queue, outside, ReaderInv
<1>2. /\ reader.failed = FALSE /\ Base = Boundary(m) /\ Held /\ InStep
      /\ reader.buf \in Seq(InByte) /\ reader.pos \in Nat /\ reader.pos <= Len(reader.buf)
      /\ reader \in Reader /\ dispatched \in Seq(Kind)
  BY <1>1, ReaderParts, Zenon DEF ReaderInv, ReaderOK, Open
<1>3. /\ available(reader) >= HeaderSize /\ available(reader) >= size
      /\ PayloadSize(kind) <= MaxPayload
  BY DEF Dispatch, HasFrame, HasHeader
<1>4. Len(reader.buf) \in Nat /\ m \in Nat /\ HeaderSize \in Nat \ {0} /\ Len(frames) \in Nat
  BY <1>2, SizesAssumption DEF InputInv, Typed
<1>5. available(reader) \in Nat /\ 1 \in 1 .. available(reader)
  BY <1>2, <1>3, <1>4 DEF available
<1>6. reader.buf[reader.pos + 1] = input[Base + 1]
  BY <1>2, <1>5 DEF Held
<1>7. /\ net.taken \in Nat /\ net.taken <= Len(input) /\ Len(input) \in Nat
      /\ Base \in Int /\ Base < Len(input)
  BY <1>5 DEF NetOK, InputInv, Typed, Base
<1>8. m + 1 \in 1 .. Len(frames)
  BY <1>2, <1>4, <1>7 DEF InputInv, InStep
<1>9. LaidOut(m + 1) /\ frames[m + 1] \in [kind : Kind, start : Nat]
  BY <1>8, ElementOK, Zenon DEF InputInv, Typed
<1>10. frames[m + 1].start = Base
  <2>1. (m + 1) - 1 = m
    BY <1>4
  <2> QED
    BY <1>2, <1>9, <2>1 DEF LaidOut
<1>11. frames[m + 1].kind = kind
  <2>1. 1 \in 1 .. FrameSize(frames[m + 1].kind)
    BY <1>9, FrameSizes
  <2>2. input[Base + 1] = <<frames[m + 1].kind, 1>>
    BY <1>9, <1>10, <2>1, Zenon DEF LaidOut
  <2> QED
    BY <1>6, <2>2 DEF HeaderAt
<1>12. kind \in Kind
  BY <1>9, <1>11, Zenon
<1>13. size = FrameSize(kind) /\ size \in Nat
  BY <1>3, <1>12, FrameSizes, Zenon DEF need
<1>14. Boundary(m + 1) = Base + size
  BY <1>4, <1>10, <1>11, <1>13 DEF Boundary
<1> HIDE DEF kind, size
<1>15. ReaderOK(cut) /\ cut.failed = FALSE /\ cut.buf = reader.buf /\ cut.pos = reader.pos + size
  <2>1. reader.pos + size \in Nat /\ reader.pos + size <= Len(reader.buf)
    BY <1>2, <1>3, <1>4, <1>13 DEF available
  <2>2. Parts(cut, reader.buf, reader.pos + size, reader.failed)
    BY <1>2, <2>1, PosUpdated, Zenon
  <2> QED BY <1>2, <2>1, <2>2, Zenon DEF Parts, ReaderOK
<1>16. available(cut) = available(reader) - size
  BY <1>2, <1>4, <1>13, <1>15 DEF available
<1> HIDE DEF cut
<1>17. /\ ReaderOK(reader') /\ reader'.failed = FALSE /\ available(reader') = available(cut)
       /\ \A k \in 1 .. available(cut) : reader'.buf[reader'.pos + k] = cut.buf[cut.pos + k]
  <2>1. SameHeld(reader', cut)
    BY <1>1, <1>15, Compacted, Zenon
  <2> QED BY <1>15, <2>1, Zenon DEF SameHeld
<1>18. Base' = Base + size
  BY <1>1, <1>5, <1>7, <1>13, <1>16, <1>17 DEF Base
<1>19. ASSUME NEW k \in 1 .. available(reader')
       PROVE  reader'.buf[reader'.pos + k] = input'[Base' + k]
  <2>1. /\ size + k \in 1 .. available(reader) /\ k \in 1 .. available(cut)
        /\ cut.pos + k = reader.pos + (size + k) /\ (Base + size) + k = Base + (size + k)
    <3>1. TakeIndexes(available(reader), reader.pos, Base, size)
      BY <1>2, <1>5, <1>7, <1>13, TakeIndexed, Zenon
    <3>2. k \in 1 .. available(reader) - size
      BY <1>16, <1>17, Zenon
    <3> QED BY <1>15, <1>17, <3>1, <3>2, Zenon DEF TakeIndexes
  <2>2. reader.buf[reader.pos + (size + k)] = input[Base + (size + k)]
    BY <1>2, <2>1, Zenon DEF Held
  <2> QED
    BY <1>1, <1>15, <1>17, <1>18, <2>1, <2>2, Zenon
<1>20. /\ dispatched' \in Seq(Kind) /\ Len(dispatched') = m + 1
       /\ \A i \in 1 .. m : dispatched'[i] = dispatched[i]
       /\ dispatched'[m + 1] = kind
  BY <1>1, <1>2, <1>12
<1>21. InStep'
  <2>1. Len(dispatched') <= Len(frames')
    BY <1>1, <1>4, <1>8, <1>20
  <2>2. ASSUME NEW i \in 1 .. m + 1 PROVE dispatched'[i] = frames[i].kind
    <3>1. CASE i = m + 1
      BY <1>11, <1>20, <3>1, Zenon
    <3>2. CASE i \in 1 .. m
      BY <1>2, <1>20, <3>2, Zenon DEF InStep
    <3> QED
      BY <1>4, <3>1, <3>2
  <2> QED
    BY <1>1, <1>20, <2>1, <2>2, Zenon DEF InStep
<1>22. Boundary(Len(dispatched))' = Boundary(m + 1)
  BY <1>1, <1>20 DEF Boundary
<1>23. ~Left'
  BY <1>1, Zenon DEF Left
<1>24. Held'
  BY <1>19 DEF Held
<1> QED
  BY <1>1, <1>14, <1>17, <1>18, <1>20, <1>21, <1>22, <1>23, <1>24 DEF ReaderInv

(* However the client's bytes are cut into reads and whenever the buffer is
   compacted, the frames dispatched are those it sent, in order, and what is
   held is the rest: for every frame, read and buffer size. *)
THEOREM FramesKept == ConnectionSpec => []FramesExact
<1>1. ConnectionInit => ReaderInv
  <2> SUFFICES ASSUME ConnectionInit PROVE ReaderInv
    OBVIOUS
  <2>1. /\ reader = [buf |-> <<>>, pos |-> 0, failed |-> FALSE] /\ closing = FALSE
        /\ dispatched = <<>> /\ frames = <<>> /\ net = [arrived |-> 0, taken |-> 0, hup |-> FALSE]
    BY Zenon DEF ConnectionInit
  <2>2. reader.failed = FALSE /\ reader.pos = 0 /\ reader.buf = <<>> /\ net.taken = 0
    BY <2>1, Zenon
  <2>3. ReaderOK(reader)
    BY <2>1, EmptyReader, Zenon
  <2>4. available(reader) = 0
    BY <2>2 DEF available
  <2>5. dispatched \in Seq(Kind) /\ Len(dispatched) = 0 /\ Len(frames) = 0
    BY <2>1
  <2>6. InStep /\ Held
    BY <2>4, <2>5 DEF InStep, Held
  <2>7. Base = 0 /\ Boundary(Len(dispatched)) = 0
    BY <2>2, <2>4, <2>5 DEF Base, Boundary
  <2>8. ~HasFrame(reader) /\ available(reader) <= MaxRead
    BY <2>4, SizesAssumption DEF HasFrame, HasHeader
  <2> QED
    BY <2>1, <2>2, <2>3, <2>5, <2>6, <2>7, <2>8, Zenon DEF ReaderInv
<1>2. InputInv /\ NetOK /\ ReaderInv /\ [ConnectionNext]_connection => ReaderInv'
  <2> SUFFICES ASSUME InputInv, NetOK, ReaderInv, [ConnectionNext]_connection PROVE ReaderInv'
    OBVIOUS
  <2>1. Typed /\ closing \in BOOLEAN
    BY Zenon DEF InputInv, ReaderInv
  <2>2. CASE /\ UNCHANGED <<reader, dispatched, input, frames>> /\ net'.taken = net.taken
             /\ closing' \in BOOLEAN
             /\ Open' => /\ Open /\ (Left' => Left)
                         /\ pc = "polled" /\ closing => pc' = "polled" /\ closing'
    <3>1. Base' = Base /\ InStep' = InStep /\ Boundary(Len(dispatched))' = Boundary(Len(dispatched))
      BY <2>2, Zenon DEF Base, InStep, Boundary
    <3>2. Held' = Held
      BY <2>2, <3>1 DEF Held
    <3> QED
      BY <2>2, <3>1, <3>2, Zenon DEF ReaderInv
  <2>3. CASE /\ ~Open' /\ UNCHANGED <<dispatched, frames>> /\ closing' = FALSE
             /\ reader' = [buf |-> <<>>, pos |-> 0, failed |-> FALSE]
    <3>1. ReaderOK(reader')
      BY <2>3, EmptyReader, Zenon
    <3>2. InStep'
      BY <2>3, Zenon DEF ReaderInv, InStep
    <3> QED
      BY <2>3, <3>1, <3>2, Zenon DEF ReaderInv
  <2>4. CASE Recv
    <3>1. CASE Readable # 0
      BY <2>1, <2>4, <3>1, RecvOK, Zenon
    <3>2. CASE Readable = 0
      <4>1. /\ pc = "recv" /\ pc' = "polled" /\ closing' = (closing \/ net.hup)
            /\ UNCHANGED <<reader, dispatched, input, frames, net>>
        BY <2>4, <3>2, Zenon DEF Recv, outside, history
      <4>2. Base' = Base /\ InStep' = InStep
            /\ Boundary(Len(dispatched))' = Boundary(Len(dispatched))
        BY <4>1, Zenon DEF Base, InStep, Boundary
      <4>3. Held' = Held
        BY <4>1, <4>2 DEF Held
      <4> QED
        BY <4>1, <4>2, <4>3 DEF ReaderInv, Left, Open
    <3> QED
      BY <3>1, <3>2
  <2>5. CASE LastFrame
    <3> DEFINE fatal == reader'.failed \/ available(reader') > MaxRead
    <3>1. /\ pc = "frames" /\ ~HasFrame(reader) /\ reader' = NoFrame(reader)
          /\ closing' = (closing \/ fatal)
          /\ pc' = (IF ~fatal /\ poll.full THEN "recv" ELSE "polled")
          /\ UNCHANGED <<dispatched, input, frames, net>>
      BY <2>5 DEF LastFrame, outside, history
    <3>2. ReaderOK(reader') /\ reader'.buf = reader.buf /\ reader'.pos = reader.pos
      <4> DEFINE f == \/ reader.failed
                      \/ HasHeader(reader) /\ PayloadSize(HeaderAt(reader)) > MaxPayload
      <4>1. f \in BOOLEAN /\ reader' = [reader EXCEPT !.failed = f]
        BY <3>1, Zenon DEF NoFrame
      <4> HIDE DEF f
      <4>2. Parts(reader', reader.buf, reader.pos, f)
        BY <4>1, FailedUpdated, Zenon DEF ReaderInv, ReaderOK
      <4> QED BY <4>2, Zenon DEF Parts, ReaderInv, ReaderOK
    <3>3. available(reader') = available(reader) /\ HeaderAt(reader') = HeaderAt(reader)
      BY <3>2, Zenon DEF available, HeaderAt
    <3>4. Base' = Base /\ InStep' = InStep
          /\ Boundary(Len(dispatched))' = Boundary(Len(dispatched))
      BY <3>1, <3>3, Zenon DEF Base, InStep, Boundary
    <3>5. Held' = Held
      BY <3>1, <3>2, <3>3, <3>4, Zenon DEF Held
    <3>6. ~reader.failed /\ Open
      BY <3>1, Zenon DEF ReaderInv, Open
    <3>7. ~reader'.failed => ~HasFrame(reader')
      BY <3>1, <3>3, <3>6 DEF HasFrame, HasHeader, need
    <3>8. available(reader) \in Int /\ MaxRead \in Int
      <4>1. available(reader) \in Nat
        BY AvailableOK, Zenon DEF ReaderInv, ReaderOK
      <4> QED BY <4>1, SizesAssumption
    <3>9. /\ Left' => ~fatal
          /\ reader'.failed => pc' = "polled" /\ closing'
          /\ closing' \in BOOLEAN
      BY <2>1, <3>1, <3>2, Zenon DEF Left, ReaderOK
    <3> QED
      BY <3>1, <3>2, <3>3, <3>4, <3>5, <3>6, <3>7, <3>8, <3>9 DEF ReaderInv
  <2>6. ASSUME NEW room \in BOOLEAN, Dispatch(room) PROVE ReaderInv'
    BY <2>6, DispatchOK, Zenon
  <2>7. ASSUME NEW kind \in Kind, Begin(kind) PROVE ReaderInv'
    <3>1. Begun(kind)
      BY <2>1, <2>7, BeginOK
    <3>2. UNCHANGED <<pc, closing, reader, dispatched>> /\ net'.taken = net.taken /\ Open
      <4>1. UNCHANGED <<pc, closing, reader, dispatched>> /\ Open
        BY <2>7, Zenon DEF Begin, server, history
      <4>2. \E n \in 1 .. FrameSize(kind) : net' = [net EXCEPT !.arrived = @ + n]
        BY <2>7, Zenon DEF Begin
      <4> QED BY <4>1, <4>2 DEF NetOK
    <3>3. InStep /\ Len(dispatched) \in Nat /\ Len(frames) \in Nat /\ Len(input) \in Nat
      BY <2>1 DEF ReaderInv, Typed
    <3>4. InStep' /\ Boundary(Len(dispatched))' = Boundary(Len(dispatched))
      BY <3>1, <3>2, <3>3 DEF InStep, Begun
    <3>5. Base' = Base /\ available(reader) \in Nat /\ net.taken <= Len(input) /\ net.taken \in Nat
      <4>1. available(reader) \in Nat
        BY AvailableOK, Zenon DEF ReaderInv, ReaderOK
      <4>2. Base' = Base
        BY <3>2, Zenon DEF Base
      <4>3. net.taken <= Len(input) /\ net.taken \in Nat
        BY <3>3 DEF NetOK
      <4> QED BY <4>1, <4>2, <4>3, Zenon
    <3>6. Base \in Nat
      <4>1. Base = Boundary(Len(dispatched))
        BY <3>2 DEF ReaderInv
      <4>2. CASE Len(dispatched) = 0
        BY <4>1, <4>2, Zenon DEF Boundary
      <4>3. CASE Len(dispatched) # 0
        <5>1. Len(dispatched) \in 1 .. Len(frames)
          BY <3>3, <4>3 DEF InStep
        <5>2. frames[Len(dispatched)] \in [kind : Kind, start : Nat]
          BY <2>1, <5>1, ElementOK, Zenon DEF Typed
        <5> QED
          BY <4>1, <4>3, <5>2, FrameSizes DEF Boundary
      <4> QED
        BY <4>2, <4>3
    <3>7. \A k \in 1 .. available(reader) : Base + k \in 1 .. Len(input)
      BY <3>3, <3>5, <3>6 DEF Base
    <3>8. Held'
      BY <3>1, <3>2, <3>5, <3>7, Zenon DEF ReaderInv, Held, Begun
    <3>9. Left' = Left
      BY <3>2, Zenon DEF Left
    <3> QED
      BY <3>2, <3>4, <3>5, <3>8, <3>9 DEF ReaderInv
  <2> QED
    BY <2>1, <2>2, <2>3, <2>4, <2>5, <2>6, <2>7, ReaderSteps, Zenon
<1>3. ReaderInv => FramesExact
  BY DEF ReaderInv, FramesExact, Left, InStep, Held, Base
<1> QED
  BY <1>1, <1>2, <1>3, InputLaidOut, PTL DEF ConnectionSpec
-----------------------------------------------------------------------------
(* Byte b is numbered on from m; m is the number before the i-th byte. *)
Numbered(b, m) == b[2] = m + (IF b[1] = "message" THEN 1 ELSE 0)
Before(s, n, i) == IF i = 1 THEN n ELSE s[i - 1][2]

(* InOrder, byte for byte. *)
LEMMA InOrderIs ==
  ASSUME NEW s, NEW n
  PROVE  InOrder(s, n) <=> \A i \in 1 .. Len(s) : Numbered(s[i], Before(s, n, i))
  BY Zenon DEF InOrder, Numbered, Before

(* The last number is the one before the byte that would come next. *)
LEMMA NumberIs ==
  ASSUME NEW S, NEW s \in Seq(S), NEW n
  PROVE  Number(s, n) = Before(s, n, Len(s) + 1)
<1>1. Len(s) \in Nat /\ (s = <<>> <=> Len(s) = 0)
  OBVIOUS
<1>2. (Len(s) + 1 = 1 <=> Len(s) = 0) /\ (Len(s) + 1) - 1 = Len(s)
  BY <1>1
<1> QED BY <1>1, <1>2, Zenon DEF Number, Before

(* Where the bytes of a piece of m and of one of l stand in both together. *)
JoinIndexes(m, l) ==
  /\ \A i \in 1 .. m : i \in 1 .. m + 1 /\ i \in 1 .. m + l
  /\ \A i \in 1 .. l : i \in 1 .. l + 1 /\ m + i \in 1 .. m + l
  /\ \A i \in 1 .. m + l : i \in 1 .. m \/ (i - m \in 1 .. l /\ m + (i - m) = i)
  /\ m + 1 \in 1 .. m + 1 /\ l + 1 \in 1 .. l + 1 /\ (m + l) + 1 = m + (l + 1)
  /\ \A i \in 1 .. m + 1 : i = 1 \/ i - 1 \in 1 .. m
  /\ \A i \in 1 .. l + 1 : i = 1 \/ (i - 1 \in 1 .. l /\ m + i # 1 /\ (m + i) - 1 = m + (i - 1))

(* They stand there. *)
LEMMA JoinIndexed == ASSUME NEW m \in Nat, NEW l \in Nat PROVE JoinIndexes(m, l)
  BY DEF JoinIndexes

(* What is before a byte of u is what is before it in s, or in t behind s. *)
BeforeBoth(u, s, t, n) ==
  /\ \A i \in 1 .. Len(s) + 1 : Before(u, n, i) = Before(s, n, i)
  /\ \A i \in 1 .. Len(t) + 1 : Before(u, n, Len(s) + i) = Before(t, Number(s, n), i)

(* What is before a byte of the first and of the second of two pieces. *)
LEMMA BeforeJoined ==
  ASSUME NEW s \in Seq(OutByte), NEW t \in Seq(OutByte), NEW n, NEW u, Joins(OutByte, u, s, t)
  PROVE  BeforeBoth(u, s, t, n)
<1>1. Len(s) \in Nat /\ Len(t) \in Nat
  BY Zenon DEF Joins
<1>2. JoinIndexes(Len(s), Len(t))
  BY <1>1, JoinIndexed, Zenon
<1>3. ASSUME NEW i \in 1 .. Len(s) + 1 PROVE Before(u, n, i) = Before(s, n, i)
  <2>1. CASE i = 1
    BY <2>1, Zenon DEF Before
  <2>2. CASE i # 1
    <3>1. i - 1 \in 1 .. Len(s)
      BY <1>2, <2>2, Zenon DEF JoinIndexes
    <3>2. u[i - 1] = s[i - 1]
      BY <3>1, Zenon DEF Joins
    <3> QED BY <2>2, <3>2, Zenon DEF Before
  <2> QED BY <2>1, <2>2, Zenon
<1>4. ASSUME NEW i \in 1 .. Len(t) + 1
      PROVE  Before(u, n, Len(s) + i) = Before(t, Number(s, n), i)
  <2>1. CASE i = 1
    <3>1. Before(t, Number(s, n), i) = Number(s, n)
      BY <2>1, Zenon DEF Before
    <3>2. Number(s, n) = Before(s, n, Len(s) + 1)
      BY NumberIs, Zenon
    <3>3. Len(s) + 1 \in 1 .. Len(s) + 1
      BY <1>2, Zenon DEF JoinIndexes
    <3>4. Before(u, n, Len(s) + 1) = Before(s, n, Len(s) + 1)
      BY <1>3, <3>3, Zenon
    <3> QED BY <2>1, <3>1, <3>2, <3>4, Zenon
  <2>2. CASE i # 1
    <3>1. i - 1 \in 1 .. Len(t) /\ Len(s) + i # 1 /\ (Len(s) + i) - 1 = Len(s) + (i - 1)
      BY <1>2, <2>2, Zenon DEF JoinIndexes
    <3>2. u[Len(s) + (i - 1)] = t[i - 1]
      BY <3>1, Zenon DEF Joins
    <3>3. Before(u, n, Len(s) + i) = u[(Len(s) + i) - 1][2]
      BY <3>1, Zenon DEF Before
    <3>4. Before(t, Number(s, n), i) = t[i - 1][2]
      BY <2>2, Zenon DEF Before
    <3> QED BY <3>1, <3>2, <3>3, <3>4, Zenon
  <2> QED BY <2>1, <2>2, Zenon
<1> QED BY <1>3, <1>4, Zenon DEF BeforeBoth

(* Two pieces of the outgoing stream, the second numbered on from the first. *)
LEMMA OrderJoined ==
  ASSUME NEW s \in Seq(OutByte), NEW t \in Seq(OutByte), NEW n \in Nat,
         InOrder(s, n), InOrder(t, Number(s, n))
  PROVE  InOrder(s \o t, n) /\ Number(s \o t, n) = Number(t, Number(s, n))
<1> DEFINE u == s \o t
<1>1. Joins(OutByte, u, s, t)
  BY Joined, Zenon
<1>2. /\ Len(s) \in Nat /\ Len(t) \in Nat /\ Len(u) = Len(s) + Len(t) /\ u \in Seq(OutByte)
      /\ \A k \in 1 .. Len(s) : u[k] = s[k]
      /\ \A k \in 1 .. Len(t) : u[Len(s) + k] = t[k]
  BY <1>1, Zenon DEF Joins
<1> HIDE DEF u
<1>3. JoinIndexes(Len(s), Len(t))
  BY <1>2, JoinIndexed, Zenon
<1>4. /\ \A i \in 1 .. Len(s) + 1 : Before(u, n, i) = Before(s, n, i)
      /\ \A i \in 1 .. Len(t) + 1 : Before(u, n, Len(s) + i) = Before(t, Number(s, n), i)
  <2>1. BeforeBoth(u, s, t, n)
    BY <1>1, BeforeJoined, Zenon
  <2> QED BY <2>1, Zenon DEF BeforeBoth
<1>5. /\ \A i \in 1 .. Len(s) : Numbered(s[i], Before(s, n, i))
      /\ \A i \in 1 .. Len(t) : Numbered(t[i], Before(t, Number(s, n), i))
  BY InOrderIs, Zenon
<1>6. ASSUME NEW i \in 1 .. Len(u) PROVE Numbered(u[i], Before(u, n, i))
  <2>1. CASE i \in 1 .. Len(s)
    <3>1. i \in 1 .. Len(s) + 1
      BY <1>3, <2>1, Zenon DEF JoinIndexes
    <3> QED BY <1>2, <1>4, <1>5, <2>1, <3>1, Zenon
  <2>2. CASE ~(i \in 1 .. Len(s))
    <3>1. PICK j \in 1 .. Len(t) : Len(s) + j = i /\ j \in 1 .. Len(t) + 1
      BY <1>2, <1>3, <2>2, Zenon DEF JoinIndexes
    <3>2. Numbered(t[j], Before(t, Number(s, n), j))
      BY <1>5, <3>1, Zenon
    <3>3. Numbered(u[Len(s) + j], Before(u, n, Len(s) + j))
      BY <1>2, <1>4, <3>1, <3>2, Zenon
    <3> QED BY <3>1, <3>3, Zenon
  <2> QED BY <2>1, <2>2, Zenon
<1>7. InOrder(u, n)
  BY <1>6, InOrderIs, Zenon
<1>8. Number(u, n) = Before(u, n, Len(s) + (Len(t) + 1))
  <2>1. Number(u, n) = Before(u, n, Len(u) + 1)
    BY <1>2, NumberIs, Zenon
  <2>2. Len(u) + 1 = Len(s) + (Len(t) + 1)
    BY <1>2, <1>3, Zenon DEF JoinIndexes
  <2> QED BY <2>1, <2>2, Zenon
<1>9. Number(t, Number(s, n)) = Before(t, Number(s, n), Len(t) + 1)
  BY NumberIs, Zenon
<1>10. Len(t) + 1 \in 1 .. Len(t) + 1
  BY <1>3, Zenon DEF JoinIndexes
<1>11. Number(u, n) = Number(t, Number(s, n))
  BY <1>4, <1>8, <1>9, <1>10, Zenon
<1> QED BY <1>7, <1>11, Zenon DEF u

(* A part of the outgoing stream cut in two. *)
LEMMA OrderCut ==
  ASSUME NEW s \in Seq(OutByte), NEW t \in Seq(OutByte), NEW n \in Nat, InOrder(s \o t, n)
  PROVE  InOrder(s, n) /\ InOrder(t, Number(s, n))
<1> DEFINE u == s \o t
<1>1. Joins(OutByte, u, s, t)
  BY Joined, Zenon
<1>2. /\ Len(s) \in Nat /\ Len(t) \in Nat /\ Len(u) = Len(s) + Len(t)
      /\ \A k \in 1 .. Len(s) : u[k] = s[k]
      /\ \A k \in 1 .. Len(t) : u[Len(s) + k] = t[k]
  BY <1>1, Zenon DEF Joins
<1>3. JoinIndexes(Len(s), Len(t))
  BY <1>2, JoinIndexed, Zenon
<1>4. \A i \in 1 .. Len(u) : Numbered(u[i], Before(u, n, i))
  BY InOrderIs, Zenon
<1> HIDE DEF u
<1>5. /\ \A i \in 1 .. Len(s) + 1 : Before(u, n, i) = Before(s, n, i)
      /\ \A i \in 1 .. Len(t) + 1 : Before(u, n, Len(s) + i) = Before(t, Number(s, n), i)
  <2>1. BeforeBoth(u, s, t, n)
    BY <1>1, BeforeJoined, Zenon
  <2> QED BY <2>1, Zenon DEF BeforeBoth
<1>6. ASSUME NEW i \in 1 .. Len(s) PROVE Numbered(s[i], Before(s, n, i))
  <2>1. i \in 1 .. Len(s) + 1 /\ i \in 1 .. Len(u)
    BY <1>2, <1>3, Zenon DEF JoinIndexes
  <2>2. Numbered(u[i], Before(u, n, i))
    BY <1>4, <2>1, Zenon
  <2> QED BY <1>2, <1>5, <2>1, <2>2, Zenon
<1>7. ASSUME NEW i \in 1 .. Len(t) PROVE Numbered(t[i], Before(t, Number(s, n), i))
  <2>1. i \in 1 .. Len(t) + 1 /\ Len(s) + i \in 1 .. Len(u)
    BY <1>2, <1>3, Zenon DEF JoinIndexes
  <2>2. Numbered(u[Len(s) + i], Before(u, n, Len(s) + i))
    BY <1>4, <2>1, Zenon
  <2> QED BY <1>2, <1>5, <2>1, <2>2, Zenon
<1> QED BY <1>6, <1>7, InOrderIs, Zenon

(* The numbers of the bytes are numbers. *)
LEMMA NumberOK ==
  ASSUME NEW s \in Seq(OutByte), NEW n \in Nat PROVE Number(s, n) \in Nat
  BY DEF Number, OutByte

(* c is a write buffer with these parts. *)
WriterIs(c, b, p) == c \in Writer /\ c.buf = b /\ c.pos = p

(* A write buffer made from its parts. *)
LEMMA WriterMade ==
  ASSUME NEW b \in Seq(OutByte), NEW p \in Nat PROVE WriterIs([buf |-> b, pos |-> p], b, p)
  BY Zenon DEF Writer, WriterIs

(* A write buffer that is given another position. *)
LEMMA WriterMoved ==
  ASSUME NEW w \in Writer, NEW p \in Nat PROVE WriterIs([w EXCEPT !.pos = p], w.buf, p)
  BY Zenon DEF Writer, WriterIs

(* The parts of a write buffer, and how many bytes are left in it. *)
LEMMA WriterParts ==
  ASSUME NEW w, WriterOK(w)
  PROVE  /\ w.buf \in Seq(OutByte) /\ w.pos \in Nat /\ Len(w.buf) \in Nat /\ w.pos <= Len(w.buf)
         /\ Len(w.buf) <= MaxWrite /\ pending(w) = Len(w.buf) - w.pos /\ pending(w) \in Nat
<1>1. w.buf \in Seq(OutByte) /\ w.pos \in Nat /\ w.pos <= Len(w.buf) /\ Len(w.buf) <= MaxWrite
  BY Zenon DEF WriterOK, Writer
<1>2. PICK p \in Nat : p = w.pos
  BY <1>1
<1>3. PICK l \in Nat : l = Len(w.buf)
  <2> HIDE DEF OutByte
  <2> QED BY <1>1
<1>4. p <= l
  BY <1>1, <1>2, <1>3, Zenon
<1>5. l - p \in Nat
  BY <1>4
<1> QED BY <1>1, <1>2, <1>3, <1>5, Zenon DEF pending

(* The bytes that are left of a write buffer. *)
LEMMA UnsentOK ==
  ASSUME NEW w, WriterOK(w)
  PROVE  unsent(w) \in Seq(OutByte) /\ Len(unsent(w)) = pending(w) /\ pending(w) \in Nat
<1>1. /\ w.buf \in Seq(OutByte) /\ w.pos \in Nat /\ Len(w.buf) \in Nat /\ w.pos <= Len(w.buf)
      /\ pending(w) = Len(w.buf) - w.pos /\ pending(w) \in Nat
  BY WriterParts, Zenon
<1>2. Len(w.buf) <= Len(w.buf)
  BY <1>1
<1>3. PartOf(OutByte, unsent(w), w.buf, w.pos, Len(w.buf))
  BY <1>1, <1>2, PartOK, Zenon DEF unsent
<1> QED BY <1>1, <1>3, Zenon DEF PartOf

(* All of a buffer that starts with its first byte is left. *)
LEMMA UnsentWhole ==
  ASSUME NEW c, NEW b \in Seq(OutByte), WriterIs(c, b, 0) PROVE unsent(c) = b
<1>1. 0 + 1 = 1
  OBVIOUS
<1>2. unsent(c) = SubSeq(b, 0 + 1, Len(b))
  BY Zenon DEF WriterIs, unsent
<1> QED BY <1>1, <1>2, WholePart, Zenon

(* append() keeps what is there and puts the message behind it, in the cap. *)
LEMMA Appended ==
  ASSUME NEW w, WriterOK(w), NEW bytes \in Seq(OutByte), fits(w, Len(bytes))
  PROVE  /\ WriterOK(AppendBytes(w, bytes))
         /\ unsent(AppendBytes(w, bytes)) = unsent(w) \o bytes
<1> DEFINE compacts == Len(w.buf) + Len(bytes) > MaxWrite /\ w.pos > 0
           new == AppendBytes(w, bytes)
<1>1. /\ w.buf \in Seq(OutByte) /\ w.pos \in Nat /\ Len(w.buf) \in Nat /\ w.pos <= Len(w.buf)
      /\ Len(w.buf) <= MaxWrite /\ pending(w) = Len(w.buf) - w.pos /\ pending(w) \in Nat
  BY WriterParts, Zenon
<1>2. PICK l \in Nat : l = Len(w.buf)
  BY <1>1
<1>3. PICK p \in Nat : p = w.pos
  BY <1>1
<1>4. PICK m \in Nat : m = Len(bytes)
  <2> HIDE DEF OutByte
  <2> QED OBVIOUS
<1>5. PICK max \in Nat : max = MaxWrite
  BY SizesAssumption
<1>6. p <= l /\ l <= max /\ (l - p) + m <= max
  BY <1>1, <1>2, <1>3, <1>4, <1>5, Zenon DEF fits
<1>7. unsent(w) \in Seq(OutByte) /\ Len(unsent(w)) = l - p
  BY <1>1, <1>2, <1>3, UnsentOK, Zenon
<1>8. CASE compacts
  <2> DEFINE buf == unsent(w) \o bytes
  <2>1. new = [buf |-> buf, pos |-> 0]
    BY <1>8, Zenon DEF AppendBytes, unsent
  <2>2. buf \in Seq(OutByte) /\ Len(buf) = (l - p) + m
    <3>1. Joins(OutByte, buf, unsent(w), bytes)
      BY <1>7, Joined, Zenon
    <3> QED BY <1>4, <1>7, <3>1, Zenon DEF Joins
  <2> HIDE DEF new, buf
  <2>3. 0 \in Nat /\ 0 <= (l - p) + m
    BY <1>6
  <2>4. WriterIs(new, buf, 0)
    BY <2>1, <2>2, <2>3, WriterMade, Zenon
  <2>5. WriterOK(new)
    BY <1>5, <1>6, <2>2, <2>3, <2>4, Zenon DEF WriterOK, WriterIs
  <2>6. unsent(new) = buf
    BY <2>2, <2>4, UnsentWhole, Zenon
  <2> QED BY <2>5, <2>6, Zenon DEF new, buf
<1>9. CASE ~compacts
  <2> DEFINE buf == w.buf \o bytes
  <2>1. new = [buf |-> buf, pos |-> w.pos]
    BY <1>9, Zenon DEF AppendBytes
  <2>2. buf \in Seq(OutByte) /\ Len(buf) = l + m
    <3>1. Joins(OutByte, buf, w.buf, bytes)
      BY <1>1, Joined, Zenon
    <3> QED BY <1>2, <1>4, <3>1, Zenon DEF Joins
  <2>3. l + m <= max /\ p <= l + m
    <3>1. ~(l + m > max /\ p > 0)
      BY <1>2, <1>3, <1>4, <1>5, <1>9, Zenon
    <3> QED BY <1>6, <3>1
  <2>4. p \in 0 .. l
    BY <1>6
  <2>5. SubSeq(w.buf \o bytes, w.pos + 1, Len(w.buf \o bytes))
          = SubSeq(w.buf, w.pos + 1, Len(w.buf)) \o bytes
    BY <1>1, <1>2, <1>3, <2>4, EndOfJoin, Zenon
  <2>6. WriterIs(new, buf, w.pos)
    BY <1>1, <2>1, <2>2, WriterMade, Zenon
  <2>7. unsent(new) = unsent(w) \o bytes
    <3> HIDE DEF new
    <3> QED BY <2>5, <2>6, Zenon DEF unsent, WriterIs
  <2> HIDE DEF new, buf
  <2>8. WriterOK(new)
    BY <1>3, <1>5, <2>2, <2>3, <2>6, Zenon DEF WriterOK, WriterIs
  <2> QED BY <2>7, <2>8, Zenon DEF new
<1> QED BY <1>8, <1>9, Zenon

(* consume() takes the front and keeps the rest. *)
LEMMA Consumed ==
  ASSUME NEW w, WriterOK(w), NEW n \in 1 .. pending(w)
  PROVE  LET front == SubSeq(w.buf, w.pos + 1, w.pos + n)
         IN  /\ WriterOK(consume(w, n)) /\ front \in Seq(OutByte)
             /\ unsent(w) = front \o unsent(consume(w, n))
<1> DEFINE front == SubSeq(w.buf, w.pos + 1, w.pos + n)
           rest == SubSeq(w.buf, (w.pos + n) + 1, Len(w.buf))
           c == consume(w, n)
<1>1. /\ w.buf \in Seq(OutByte) /\ w.pos \in Nat /\ Len(w.buf) \in Nat /\ w.pos <= Len(w.buf)
      /\ Len(w.buf) <= MaxWrite /\ pending(w) = Len(w.buf) - w.pos /\ pending(w) \in Nat
  BY WriterParts, Zenon
<1>2. PICK l \in Nat : l = Len(w.buf)
  BY <1>1
<1>3. PICK p \in Nat : p = w.pos
  BY <1>1
<1>4. PICK max \in Nat : max = MaxWrite
  BY SizesAssumption
<1>5. n \in 1 .. l - p /\ p <= l /\ l <= max
  BY <1>1, <1>2, <1>3, <1>4, Zenon
<1>6. /\ p + n \in Nat /\ p <= p + n /\ p + n <= l /\ l <= l /\ l - (p + n) <= max
      /\ 0 <= l - (p + n) /\ 0 <= max /\ 0 <= 0 /\ 0 \in Nat
  BY <1>5
<1>7. w.pos + n \in Nat /\ w.pos <= w.pos + n /\ w.pos + n <= Len(w.buf) /\ Len(w.buf) <= Len(w.buf)
  BY <1>2, <1>3, <1>6, Zenon
<1>8. front \in Seq(OutByte)
  <2>1. PartOf(OutByte, front, w.buf, w.pos, w.pos + n)
    BY <1>1, <1>7, PartOK, Zenon
  <2> QED BY <2>1, Zenon DEF PartOf
<1>9. rest \in Seq(OutByte) /\ Len(rest) = l - (p + n)
  <2>1. PartOf(OutByte, rest, w.buf, w.pos + n, Len(w.buf))
    BY <1>1, <1>7, PartOK, Zenon
  <2> QED BY <1>2, <1>3, <2>1, Zenon DEF PartOf
<1>10. unsent(w) = front \o rest
  <2>1. front \o rest = SubSeq(w.buf, w.pos + 1, Len(w.buf))
    <3>1. CutAt(w.buf, w.pos, w.pos + n, Len(w.buf))
      BY <1>1, <1>7, PartsJoin, Zenon
    <3> QED BY <3>1, Zenon DEF CutAt
  <2> QED BY <2>1, Zenon DEF unsent
<1>11. WriterOK(c) /\ unsent(c) = rest
  <2>1. CASE w.pos + n = Len(w.buf)
    <3>1. c = [buf |-> <<>>, pos |-> 0]
      BY <2>1, Zenon DEF consume
    <3>2. <<>> \in Seq(OutByte) /\ Len(<<>>) = 0
      <4> HIDE DEF OutByte
      <4> QED OBVIOUS
    <3>3. WriterIs(c, <<>>, 0)
      BY <1>6, <3>1, <3>2, WriterMade, Zenon
    <3>4. unsent(c) = <<>>
      BY <3>2, <3>3, UnsentWhole, Zenon
    <3>5. rest = <<>>
      <4>1. l - (p + n) = 0
        BY <1>2, <1>3, <1>6, <2>1
      <4>2. \A u \in Seq(OutByte) : Len(u) = 0 => u = <<>>
        <5> HIDE DEF OutByte
        <5> QED OBVIOUS
      <4> QED BY <1>9, <4>1, <4>2, Zenon
    <3> HIDE DEF c
    <3>6. WriterOK(c)
      BY <1>4, <1>6, <3>2, <3>3, Zenon DEF WriterOK, WriterIs
    <3> QED BY <3>4, <3>5, <3>6, Zenon
  <2>2. CASE w.pos + n # Len(w.buf) /\ w.pos + n >= Threshold
    <3>1. c = [buf |-> rest, pos |-> 0]
      BY <2>2, Zenon DEF consume
    <3> HIDE DEF c, rest
    <3>2. WriterIs(c, rest, 0)
      BY <1>6, <1>9, <3>1, WriterMade, Zenon
    <3>3. unsent(c) = rest
      BY <1>9, <3>2, UnsentWhole, Zenon
    <3>4. WriterOK(c)
      BY <1>4, <1>6, <1>9, <3>2, Zenon DEF WriterOK, WriterIs
    <3> QED BY <3>3, <3>4, Zenon
  <2>3. CASE w.pos + n # Len(w.buf) /\ ~(w.pos + n >= Threshold)
    <3>1. c = [w EXCEPT !.pos = w.pos + n]
      BY <2>3, Zenon DEF consume
    <3> HIDE DEF c
    <3>2. WriterIs(c, w.buf, w.pos + n)
      BY <1>7, <3>1, WriterMoved, Zenon DEF WriterOK
    <3>3. unsent(c) = rest
      BY <3>2, Zenon DEF unsent, WriterIs
    <3>4. WriterOK(c)
      BY <1>1, <1>7, <3>2, Zenon DEF WriterOK, WriterIs
    <3> QED BY <3>3, <3>4, Zenon
  <2> QED BY <2>1, <2>2, <2>3, Zenon
<1> HIDE DEF front, rest, c
<1>12. WriterOK(c) /\ front \in Seq(OutByte) /\ unsent(w) = front \o unsent(c)
  BY <1>8, <1>10, <1>11, Zenon
<1> QED BY <1>12, Zenon DEF front, c

(* A message is numbered on from the last one handed over. *)
LEMMA MessageOK ==
  ASSUME handed \in Handed
  PROVE  /\ Message \in Seq(OutByte) /\ Len(Message) = MessageSize
         /\ InOrder(Message, handed.all)
         /\ \A n \in Nat : Number(Message, n) = handed.all + MessageSize
<1>1. MessageSize \in Nat \ {0} /\ handed.all \in Nat
  BY SizesAssumption DEF Handed
<1>2. /\ Message \in Seq(OutByte) /\ Len(Message) = MessageSize
      /\ \A k \in 1 .. MessageSize : Message[k] = <<"message", handed.all + k>>
  BY <1>1 DEF Message, OutByte
<1>3. InOrder(Message, handed.all)
  <2> SUFFICES ASSUME NEW i \in 1 .. MessageSize
               PROVE  Message[i][2] = (IF i = 1 THEN handed.all ELSE Message[i - 1][2])
                                      + (IF Message[i][1] = "message" THEN 1 ELSE 0)
    BY <1>2 DEF InOrder
  <2>1. i # 1 => i - 1 \in 1 .. MessageSize
    BY <1>1
  <2>2. Message[i] = <<"message", handed.all + i>>
    BY <1>2, Zenon
  <2>3. i # 1 => Message[i - 1] = <<"message", handed.all + (i - 1)>>
    BY <1>2, <2>1, Zenon
  <2> QED
    BY <1>1, <2>2, <2>3
<1>4. \A n \in Nat : Number(Message, n) = handed.all + MessageSize
  <2>1. Message # <<>> /\ Message[Len(Message)] = <<"message", handed.all + MessageSize>>
    BY <1>1, <1>2
  <2> QED
    BY <2>1 DEF Number
<1> QED
  BY <1>2, <1>3, <1>4

(* An update is numbered like the last message that was kept. *)
LEMMA UpdateOK ==
  ASSUME handed \in Handed
  PROVE  /\ Update \in Seq(OutByte) /\ Len(Update) = UpdateSize
         /\ InOrder(Update, handed.kept)
         /\ Number(Update, handed.kept) = handed.kept
<1>1. UpdateSize \in Nat \ {0} /\ handed.kept \in Nat
  BY SizesAssumption DEF Handed
<1>2. /\ Update \in Seq(OutByte) /\ Len(Update) = UpdateSize
      /\ \A k \in 1 .. UpdateSize : Update[k] = <<"update", handed.kept>>
  BY <1>1 DEF Update, OutByte
<1>3. InOrder(Update, handed.kept)
  <2> SUFFICES ASSUME NEW i \in 1 .. UpdateSize
               PROVE  Update[i][2] = (IF i = 1 THEN handed.kept ELSE Update[i - 1][2])
                                     + (IF Update[i][1] = "message" THEN 1 ELSE 0)
    BY <1>2 DEF InOrder
  <2>1. i # 1 => i - 1 \in 1 .. UpdateSize
    BY <1>1
  <2>2. Update[i] = <<"update", handed.kept>>
    BY <1>2, Zenon
  <2>3. i # 1 => Update[i - 1] = <<"update", handed.kept>>
    BY <1>2, <2>1, Zenon
  <2> QED
    BY <1>1, <2>2, <2>3
<1>4. Number(Update, handed.kept) = handed.kept
  <2>1. Update # <<>> /\ Update[Len(Update)] = <<"update", handed.kept>>
    BY <1>1, <1>2
  <2> QED
    BY <2>1 DEF Number
<1> QED
  BY <1>2, <1>3, <1>4

(* The counts of the messages handed over. *)
LEMMA HandedOK ==
  /\ \A h \in Handed : h.all \in Nat /\ h.kept \in Nat
  /\ \A a, k \in Nat : /\ [all |-> a, kept |-> k] \in Handed
                       /\ [all |-> a, kept |-> k].all = a /\ [all |-> a, kept |-> k].kept = k
  BY Zenon DEF Handed

(* What queue() of a message does: what is to be sent still goes on from n, as long
   as no message was refused before. *)
MessageKept(n) ==
  /\ WriterOK(writer') /\ handed' \in Handed /\ closing' \in BOOLEAN /\ (closing => closing')
  /\ GoesOn(writer, handed.kept, n) /\ handed.kept = handed.all =>
       GoesOn(writer', handed'.kept, n) /\ (~closing' => handed'.kept = handed'.all)

(* It does. *)
LEMMA MessageQueued ==
  ASSUME WriterOK(writer), handed \in Handed, closing \in BOOLEAN, queue_message, NEW n \in Nat
  PROVE  MessageKept(n)
<1>1. /\ Message \in Seq(OutByte) /\ Len(Message) = MessageSize /\ InOrder(Message, handed.all)
      /\ \A m \in Nat : Number(Message, m) = handed.all + MessageSize
  BY MessageOK, Zenon
<1>2. handed.all \in Nat /\ handed.kept \in Nat /\ handed.all + MessageSize \in Nat
  <2>1. handed.all \in Nat /\ handed.kept \in Nat
    BY HandedOK, Zenon
  <2> QED BY <2>1, SizesAssumption
<1>3. CASE fits(writer, MessageSize)
  <2>1. /\ writer' = AppendBytes(writer, Message) /\ closing' = closing
        /\ handed' = [all |-> handed.all + MessageSize, kept |-> handed.all + MessageSize]
    BY <1>1, <1>3, Zenon DEF queue_message, queue
  <2>2. WriterOK(writer') /\ unsent(writer') = unsent(writer) \o Message
    BY <1>1, <1>3, <2>1, Appended, Zenon
  <2>3. /\ handed' \in Handed /\ handed'.all = handed.all + MessageSize
        /\ handed'.kept = handed.all + MessageSize
    BY <1>2, <2>1, HandedOK, Zenon
  <2>4. ASSUME GoesOn(writer, handed.kept, n), handed.kept = handed.all
        PROVE  GoesOn(writer', handed'.kept, n)
    <3>1. unsent(writer) \in Seq(OutByte)
      BY UnsentOK, Zenon
    <3>2. /\ InOrder(unsent(writer), n) /\ Number(unsent(writer), n) = handed.all
          /\ InOrder(Message, Number(unsent(writer), n))
      BY <1>1, <2>4, Zenon DEF GoesOn
    <3>3. /\ InOrder(unsent(writer) \o Message, n)
          /\ Number(unsent(writer) \o Message, n) = Number(Message, Number(unsent(writer), n))
      BY <1>1, <3>1, <3>2, OrderJoined, Zenon
    <3>4. Number(Message, Number(unsent(writer), n)) = handed'.kept
      BY <1>1, <1>2, <2>3, <3>2, Zenon
    <3> QED BY <2>2, <3>3, <3>4, Zenon DEF GoesOn
  <2> QED BY <2>1, <2>2, <2>3, <2>4, Zenon DEF MessageKept
<1>4. CASE ~fits(writer, MessageSize)
  <2>1. /\ writer' = writer /\ closing' = TRUE
        /\ handed' = [all |-> handed.all + MessageSize, kept |-> handed.kept]
    BY <1>1, <1>4, Zenon DEF queue_message, queue
  <2>2. handed' \in Handed /\ handed'.kept = handed.kept
    BY <1>2, <2>1, HandedOK, Zenon
  <2> QED BY <2>1, <2>2, Zenon DEF MessageKept
<1> QED BY <1>3, <1>4, Zenon

(* What queue() of a book update does, also behind a message that was refused. *)
UpdateKept(n) == /\ WriterOK(writer') /\ closing' \in BOOLEAN /\ (closing => closing')
                 /\ GoesOn(writer', handed.kept, n)

(* It does. *)
LEMMA UpdateQueued ==
  ASSUME WriterOK(writer), handed \in Handed, closing \in BOOLEAN, queue(Update),
         NEW n \in Nat, GoesOn(writer, handed.kept, n)
  PROVE  UpdateKept(n)
<1>1. /\ Update \in Seq(OutByte) /\ InOrder(Update, handed.kept)
      /\ Number(Update, handed.kept) = handed.kept
  BY UpdateOK, Zenon
<1>2. CASE fits(writer, Len(Update))
  <2>1. writer' = AppendBytes(writer, Update) /\ closing' = closing
    BY <1>2, Zenon DEF queue
  <2>2. WriterOK(writer') /\ unsent(writer') = unsent(writer) \o Update
    BY <1>1, <1>2, <2>1, Appended, Zenon
  <2>3. /\ InOrder(unsent(writer), n) /\ Number(unsent(writer), n) = handed.kept
        /\ InOrder(Update, Number(unsent(writer), n))
    BY <1>1, Zenon DEF GoesOn
  <2>4. unsent(writer) \in Seq(OutByte)
    BY UnsentOK, Zenon
  <2>5. /\ InOrder(unsent(writer) \o Update, n)
        /\ Number(unsent(writer) \o Update, n) = Number(Update, Number(unsent(writer), n))
    BY <1>1, <2>3, <2>4, OrderJoined, Zenon
  <2>6. GoesOn(writer', handed.kept, n)
    BY <1>1, <2>2, <2>3, <2>5, Zenon DEF GoesOn
  <2> QED BY <2>1, <2>2, <2>6, Zenon DEF UpdateKept
<1>3. CASE ~fits(writer, Len(Update))
  BY <1>3, Zenon DEF queue, UpdateKept
<1> QED BY <1>2, <1>3, Zenon

(* The write buffer of a connection that starts or is closed. *)
LEMMA EmptyWriter ==
  WriterOK([buf |-> <<>>, pos |-> 0]) /\ unsent([buf |-> <<>>, pos |-> 0]) = <<>>
<1> DEFINE w == [buf |-> <<>>, pos |-> 0]
<1>1. <<>> \in Seq(OutByte) /\ 0 \in Nat /\ Len(<<>>) = 0 /\ 0 <= 0 /\ 0 <= MaxWrite
  <2> HIDE DEF OutByte
  <2> QED BY SizesAssumption
<1>2. WriterIs(w, <<>>, 0)
  BY <1>1, WriterMade, Zenon
<1> HIDE DEF w
<1>3. WriterOK(w) /\ unsent(w) = <<>>
  BY <1>1, <1>2, UnsentWhole, Zenon DEF WriterOK, WriterIs
<1> QED BY <1>3, Zenon DEF w

(* What a send() leaves: more was sent, and the rest goes on from it. *)
SentOn == /\ WriterOK(writer') /\ output' \in Seq(OutByte) /\ InOrder(output', 0)
          /\ GoesOn(writer', handed'.kept, Number(output', 0))
          /\ closing' \in BOOLEAN /\ (closing => closing')

(* What send() takes goes behind what was sent. *)
LEMMA Sent ==
  ASSUME StreamInv, Sends, NEW broken \in BOOLEAN, handle_writable(broken), UNCHANGED handed
  PROVE  SentOn
<1>1. /\ WriterOK(writer) /\ output \in Seq(OutByte) /\ closing \in BOOLEAN
      /\ InOrder(output, 0) /\ received \in Nat
      /\ GoesOn(writer, handed.kept, Number(output, 0))
  BY Zenon DEF StreamInv
<1>2. 0 \in Nat
  OBVIOUS
<1>3. PICK n \in Nat : n = Number(output, 0)
  BY <1>1, <1>2, NumberOK, Zenon
<1>4. CASE UNCHANGED <<writer, output>> /\ (closing' = closing \/ closing' = TRUE)
  BY <1>1, <1>4, Zenon DEF SentOn
<1>5. CASE /\ Writable > 0 /\ writer' = consume(writer, Writable) /\ UNCHANGED closing
           /\ output' = output \o SubSeq(writer.buf, writer.pos + 1, writer.pos + Writable)
  <2> DEFINE front == SubSeq(writer.buf, writer.pos + 1, writer.pos + Writable)
  <2>1. pending(writer) \in Nat
    BY <1>1, UnsentOK, Zenon
  <2>2. Len(output) \in Nat /\ SndSize \in Nat
    <3> HIDE DEF OutByte
    <3> QED BY <1>1, SizesAssumption
  <2>3. Writable \in 1 .. pending(writer)
    BY <1>1, <1>5, <2>1, <2>2 DEF Writable, Room, Least
  <2>4. /\ WriterOK(writer') /\ front \in Seq(OutByte)
        /\ unsent(writer) = front \o unsent(writer')
    BY <1>1, <1>5, <2>3, Consumed, Zenon
  <2>5. output' = output \o front
    BY <1>5, Zenon
  <2> HIDE DEF front
  <2>6. unsent(writer') \in Seq(OutByte)
    BY <2>4, UnsentOK, Zenon
  <2>7. InOrder(front \o unsent(writer'), n)
        /\ Number(front \o unsent(writer'), n) = handed.kept
    BY <1>1, <1>3, <2>4, Zenon DEF GoesOn
  <2>8. InOrder(front, n) /\ InOrder(unsent(writer'), Number(front, n))
    BY <1>3, <2>4, <2>6, <2>7, OrderCut, Zenon
  <2>9. Number(front \o unsent(writer'), n) = Number(unsent(writer'), Number(front, n))
    BY <1>3, <2>4, <2>6, <2>8, OrderJoined, Zenon
  <2>10. /\ InOrder(output \o front, 0)
         /\ Number(output \o front, 0) = Number(front, Number(output, 0))
    <3>1. InOrder(front, Number(output, 0))
      BY <1>3, <2>8, Zenon
    <3> QED BY <1>1, <1>2, <2>4, <3>1, OrderJoined, Zenon
  <2>11. output' \in Seq(OutByte)
    <3>1. Joins(OutByte, output', output, front)
      BY <1>1, <2>4, <2>5, Joined, Zenon
    <3> QED BY <3>1, Zenon DEF Joins
  <2>12. GoesOn(writer', handed'.kept, Number(output', 0))
    BY <1>3, <2>5, <2>7, <2>8, <2>9, <2>10, Zenon DEF GoesOn
  <2> QED BY <1>1, <1>5, <2>4, <2>5, <2>10, <2>11, <2>12, Zenon DEF SentOn
<1> QED BY <1>4, <1>5, Zenon DEF handle_writable

(* The steps that touch neither the buffer nor what was sent. *)
LEMMA StreamSteps ==
  ASSUME [ConnectionNext]_connection, StreamInv
  PROVE  \/ /\ UNCHANGED <<writer, output, handed, received>> /\ closing' \in BOOLEAN
            /\ Open' => Open /\ (closing => closing') /\ (Sends' => Sends)
            /\ closing' => pc' # "poll"
         \/ /\ ~Open' /\ UNCHANGED <<output, handed, received>> /\ closing' = FALSE
            /\ writer' = [buf |-> <<>>, pos |-> 0]
         \/ Receive \/ Deliver
         \/ \E re \in {"none", "hup", "error"} : Poll(re)
         \/ \E room \in BOOLEAN : Dispatch(room)
         \/ \E broken \in BOOLEAN : Write(broken) \/ FlushOut(broken)
         \/ \E md \in BOOLEAN : DrainMarketData(md)
<1>1. closing \in BOOLEAN /\ (closing => pc # "poll")
  BY DEF StreamInv
<1> USE DEF Open, Sends, outside, history, server
<1>2. CASE PollError \/ EndPolled \/ Ready
  <2>1. CASE PollError
    BY <1>1, <2>1 DEF PollError, close_connection
  <2>2. CASE EndPolled
    BY <1>1, <2>2 DEF EndPolled, close_connection
  <2>3. CASE Ready
    BY <1>1, <2>3 DEF Ready, close_connection
  <2> QED BY <1>2, <2>1, <2>2, <2>3, Zenon
<1>3. CASE Recv
  BY <1>1, <1>3, Zenon DEF Recv
<1>4. CASE LastFrame \/ Overflowed
  BY <1>1, <1>4, Zenon DEF LastFrame, Overflowed
<1>5. CASE GoOn \/ HangUp \/ Tick \/ \E kind \in Kind : Begin(kind)
  BY <1>1, <1>5, Zenon DEF GoOn, HangUp, Begin, Tick
<1>6. CASE UNCHANGED connection
  BY <1>1, <1>6 DEF connection
<1> QED
  BY <1>2, <1>3, <1>4, <1>5, <1>6, Zenon DEF ConnectionNext

(* Whatever send() takes and wherever in a turn the buffer is found full, the
   client gets a prefix of the messages handed to queue(), and all of them while
   the connection is kept: for every size of message and buffer. *)
THEOREM StreamKept == ConnectionSpec => []StreamExact
<1>1. ConnectionInit => StreamInv
  <2> SUFFICES ASSUME ConnectionInit PROVE StreamInv
    OBVIOUS
  <2>1. /\ writer = [buf |-> <<>>, pos |-> 0] /\ output = <<>> /\ closing = FALSE /\ received = 0
        /\ handed = [all |-> 0, kept |-> 0]
    BY Zenon DEF ConnectionInit
  <2>2. WriterOK(writer) /\ unsent(writer) = <<>>
    BY <2>1, EmptyWriter, Zenon
  <2>3. /\ <<>> \in Seq(OutByte) /\ InOrder(<<>>, 0) /\ Number(<<>>, 0) = 0 /\ 0 \in Nat
    <3> HIDE DEF OutByte
    <3> QED BY DEF InOrder, Number
  <2>4. handed \in Handed /\ handed.all = 0 /\ handed.kept = 0
    BY <2>1, <2>3, HandedOK, Zenon
  <2> QED BY <2>1, <2>2, <2>3, <2>4, Zenon DEF StreamInv, GoesOn
<1>2. StreamInv /\ [ConnectionNext]_connection => StreamInv'
  <2> SUFFICES ASSUME StreamInv, [ConnectionNext]_connection PROVE StreamInv'
    OBVIOUS
  <2>1. /\ WriterOK(writer) /\ output \in Seq(OutByte) /\ closing \in BOOLEAN
        /\ handed \in Handed /\ received \in Nat /\ InOrder(output, 0)
    BY Zenon DEF StreamInv
  <2>2. PICK n \in Nat : n = Number(output, 0)
    <3>1. 0 \in Nat
      OBVIOUS
    <3> QED BY <2>1, <3>1, NumberOK, Zenon
  <2>3. /\ Sends => GoesOn(writer, handed.kept, n)
        /\ Open /\ ~closing => handed.kept = handed.all
    BY <2>2, Zenon DEF StreamInv
  <2>4. ASSUME WriterOK(writer'), output' = output, closing' \in BOOLEAN, received' = received,
               handed' \in Handed,
               Sends' => GoesOn(writer', handed'.kept, n),
               Open' /\ ~closing' => handed'.kept = handed'.all,
               closing' => pc' # "poll"
        PROVE  StreamInv'
    BY <2>1, <2>2, <2>4, Zenon DEF StreamInv
  <2>5. CASE /\ UNCHANGED <<writer, output, handed, received>> /\ closing' \in BOOLEAN
             /\ Open' => Open /\ (closing => closing') /\ (Sends' => Sends)
             /\ closing' => pc' # "poll"
    <3>1. Sends' => Open'
      BY Zenon DEF Sends
    <3> QED BY <2>1, <2>3, <2>4, <2>5, <3>1, Zenon
  <2>6. CASE /\ ~Open' /\ UNCHANGED <<output, handed, received>> /\ closing' = FALSE
             /\ writer' = [buf |-> <<>>, pos |-> 0]
    <3>1. WriterOK(writer')
      BY <2>6, EmptyWriter, Zenon
    <3> QED BY <2>1, <2>4, <2>6, <3>1, Zenon DEF Sends
  <2>7. CASE Receive
    <3>1. /\ UNCHANGED <<pc, writer, output, handed, closing>> /\ received' = Len(output)
      BY <2>7, Zenon DEF Receive, server, history
    <3>2. received' \in Nat
      <4> HIDE DEF OutByte
      <4> QED BY <2>1, <3>1
    <3> QED BY <3>1, <3>2, Zenon DEF StreamInv, Sends, Open
  <2>8. CASE Deliver
    <3>1. /\ pc = "egress" /\ pc' = pc /\ ~closing /\ queue_message /\ output' = output
          /\ received' = received
      BY <2>8, Zenon DEF Deliver, outside
    <3>2. Sends /\ Open /\ pc' # "poll"
      BY <3>1 DEF Sends, Open
    <3>3. MessageKept(n)
      BY <2>1, <2>2, <3>1, MessageQueued, Zenon
    <3> QED BY <2>3, <2>4, <3>1, <3>2, <3>3, Zenon DEF MessageKept
  <2>9. ASSUME NEW re, Poll(re) PROVE StreamInv'
    <3>1. /\ pc = "poll" /\ pc' = "write" /\ service_timers /\ output' = output
          /\ received' = received
      BY <2>9, Zenon DEF Poll, outside
    <3>2. ~closing /\ Open /\ Sends /\ pc' # "poll"
      BY <3>1 DEF StreamInv, Open, Sends
    <3>3. CASE queue_message
      <4>1. MessageKept(n)
        BY <2>1, <2>2, <3>3, MessageQueued, Zenon
      <4> QED BY <2>3, <2>4, <3>1, <3>2, <4>1, Zenon DEF MessageKept
    <3>4. CASE UNCHANGED <<writer, handed>> /\ (closing' = closing \/ closing' = TRUE)
      BY <2>1, <2>3, <2>4, <3>1, <3>2, <3>4, Zenon
    <3> QED BY <3>1, <3>3, <3>4, Zenon DEF service_timers
  <2>10. ASSUME NEW room \in BOOLEAN, Dispatch(room) PROVE StreamInv'
    <3>1. /\ pc = "frames" /\ pc' = (IF closing' THEN "polled" ELSE "frames") /\ output' = output
          /\ received' = received
          /\ queue_message \/ UNCHANGED <<writer, closing, handed>>
      BY <2>10 DEF Dispatch, dispatch, outside
    <3>2. Open /\ (~closing => Sends) /\ pc' # "poll" /\ (Sends' => ~closing')
      BY <3>1 DEF Open, Sends
    <3>3. CASE queue_message
      <4>1. MessageKept(n)
        BY <2>1, <2>2, <3>3, MessageQueued, Zenon
      <4> QED BY <2>3, <2>4, <3>1, <3>2, <4>1, Zenon DEF MessageKept
    <3>4. CASE UNCHANGED <<writer, closing, handed>>
      BY <2>1, <2>3, <2>4, <3>1, <3>2, <3>4, Zenon
    <3> QED BY <3>1, <3>3, <3>4, Zenon
  <2>11. ASSUME NEW broken \in BOOLEAN, Write(broken) \/ FlushOut(broken) PROVE StreamInv'
    <3>1. /\ pc \in {"write", "flush"} /\ pc' \in {"recv", "polled", "ready"}
          /\ UNCHANGED <<handed, received>>
          /\ handle_writable(broken) \/ UNCHANGED <<writer, output, closing>>
      BY <2>11, Zenon DEF Write, FlushOut, outside, history
    <3>2. Sends /\ Open /\ Open' /\ pc' # "poll"
      BY <3>1 DEF Sends, Open
    <3>3. CASE handle_writable(broken)
      <4>1. SentOn
        BY <3>1, <3>2, <3>3, Sent, Zenon
      <4> QED BY <2>1, <2>3, <3>1, <3>2, <4>1, Zenon DEF StreamInv, SentOn
    <3>4. CASE UNCHANGED <<writer, output, closing>>
      BY <2>1, <2>3, <2>4, <3>1, <3>2, <3>4, Zenon
    <3> QED BY <3>1, <3>3, <3>4, Zenon
  <2>12. ASSUME NEW md \in BOOLEAN, DrainMarketData(md) PROVE StreamInv'
    <3>1. /\ pc = "egress" /\ pc' = "flush" /\ UNCHANGED <<handed, received, output>>
          /\ queue(Update) \/ UNCHANGED <<writer, closing>>
      BY <2>12 DEF DrainMarketData, outside, history
    <3>2. Sends /\ Open /\ Open' /\ pc' # "poll"
      BY <3>1 DEF Sends, Open
    <3>3. CASE queue(Update)
      <4>1. UpdateKept(n)
        BY <2>1, <2>2, <2>3, <3>2, <3>3, UpdateQueued, Zenon
      <4> QED BY <2>1, <2>3, <2>4, <3>1, <3>2, <4>1, Zenon DEF UpdateKept
    <3>4. CASE UNCHANGED <<writer, closing>>
      BY <2>1, <2>3, <2>4, <3>1, <3>2, <3>4, Zenon
    <3> QED BY <3>1, <3>3, <3>4, Zenon
  <2> QED BY <2>5, <2>6, <2>7, <2>8, <2>9, <2>10, <2>11, <2>12, StreamSteps, Zenon
<1>3. StreamInv => StreamExact
  BY Zenon DEF StreamInv, StreamExact, WriterOK, Sends, GoesOn
<1> QED BY <1>1, <1>2, <1>3, PTL DEF ConnectionSpec
=============================================================================
