-------------------------- MODULE MuxTunnelProofs ---------------------------
(***************************************************************************)
(* Type correctness and flow control of the work connections, for every    *)
(* number of clients, every window and frame size, and every workload.     *)
(***************************************************************************)
EXTENDS MuxTunnel, SequenceTheorems, TLAPS

-----------------------------------------------------------------------------
(* The operators of the mux layer *)

\* The number of frames tmux_stream_write cuts a buffer into: every frame but
\* the last is full, so each one starts inside the buffer.
LEMMA FrameCountLemma ==
    ASSUME NEW n \in Nat
    PROVE  /\ FrameCount(n) \in Nat
           /\ \A i \in 1 .. FrameCount(n) : /\ (i - 1) * MaxFrame \in Nat
                                           /\ (i - 1) * MaxFrame < n
           /\ n = 0 => FrameCount(n) = 0
<1>1. MaxFrame \in Nat /\ MaxFrame > 0
  BY WindowAssumption
<1>2. FrameCount(n) \in Nat /\ FrameCount(n) * MaxFrame <= n + MaxFrame - 1
  BY <1>1 DEF FrameCount
<1>3. ASSUME NEW i \in 1 .. FrameCount(n)
      PROVE  (i - 1) * MaxFrame \in Nat /\ (i - 1) * MaxFrame < n
  <2>1. i * MaxFrame <= FrameCount(n) * MaxFrame
    BY <1>1, <1>2
  <2>2. (i - 1) * MaxFrame = i * MaxFrame - MaxFrame /\ (i - 1) * MaxFrame \in Nat
    BY <1>1, <1>2
  <2> QED
    BY <1>1, <1>2, <2>1, <2>2
<1> QED
  BY <1>2, <1>3

\* The frames of a series of writes carry data of their stream, and no FIN.
LEMMA DataFramesLemma ==
    ASSUME NEW id \in Ids, NEW flags \in SUBSET {"SYN", "ACK"}, NEW bytes \in Seq(Int)
    PROVE  LET out == DataFrames(id, flags, bytes)
           IN  /\ out \in Seq(Frame)
               /\ \A i \in 1 .. Len(out) : out[i].id = id /\ ~IsFin(out[i])
               /\ bytes = <<>> => Len(out) = 0
<1> DEFINE n == FrameCount(Len(bytes))
           lo(i) == (i - 1) * MaxFrame + 1
           hi(i) == Least(i * MaxFrame, Len(bytes))
           fl(i) == IF i = 1 THEN flags ELSE {}
           f(i) == Data(id, fl(i), SubSeq(bytes, lo(i), hi(i)))
<1>1. Len(bytes) \in Nat /\ n \in Nat /\ MaxFrame \in Nat /\ \A i \in 1 .. Len(bytes) : bytes[i] \in Int
  BY FrameCountLemma, WindowAssumption, LenProperties
<1>2. ASSUME NEW i \in 1 .. n
      PROVE  f(i) \in Frame /\ f(i).id = id /\ ~IsFin(f(i))
  <2>1. (i - 1) * MaxFrame \in Nat /\ (i - 1) * MaxFrame < Len(bytes)
    BY <1>1, FrameCountLemma
  <2>2. i * MaxFrame \in Int
    BY <1>1
  <2>3. lo(i) \in Int /\ hi(i) \in Int /\ lo(i) >= 1 /\ hi(i) <= Len(bytes)
    BY <1>1, <2>1, <2>2 DEF Least
  <2>4. \A k \in lo(i) .. hi(i) : bytes[k] \in Int
    BY <1>1, <2>3
  <2> HIDE DEF lo, hi
  <2>5. SubSeq(bytes, lo(i), hi(i)) \in Seq(Int)
    BY <2>3, <2>4, SubSeqProperties
  <2> QED
    BY <2>5 DEF Data, Frame, IsFin, Flags
<1> HIDE DEF f
<1>3. DataFrames(id, flags, bytes) = [i \in 1 .. n |-> f(i)]
  BY DEF DataFrames, f
<1>4. bytes = <<>> => n = 0
  BY FrameCountLemma, <1>1
<1> HIDE DEF n
<1> QED
  BY <1>1, <1>2, <1>3, <1>4

-----------------------------------------------------------------------------
(* What every handler guarantees.  A client that is Shut writes no data.   *)

Shut(c) == ~c.live \/ WriteRefused(c.state)

FinDiscipline(c, r) ==
    /\ \A j \in 1 .. Len(r.out) : r.out[j].type = "DATA" =>
          ~WriteRefused(c.state) /\ \A i \in 1 .. j - 1 : ~IsFin(r.out[i])
    /\ WriteRefused(c.state) => Shut(r.c)
    /\ \A i \in 1 .. Len(r.out) : IsFin(r.out[i]) => Shut(r.c)

ResultOK(id, c, r) ==
    /\ r.c \in Client
    /\ r.out \in Seq(Frame)
    /\ \A i \in 1 .. Len(r.out) : r.out[i].id = id
    /\ r.c.live => (c.live /\ (Credit(c) => Credit(r.c)))
    /\ ~r.c.live => r.c.bev = "none"
    /\ FinDiscipline(c, r)

\* A deleted client is a well-typed record that is not live and has no local
\* connection.
LEMMA DeletedLemma ==
    /\ NewClient \in Client /\ NewClient.live /\ Credit(NewClient)
    /\ Deleted \in Client /\ ~Deleted.live /\ Deleted.bev = "none"
<1>1. NewClient \in Client
  <2>1. <<>> \in Seq(Int) /\ "INIT" \in StreamStates
        /\ InitialSendWindow \in Nat /\ MaxStreamWindow \in Nat
    BY WindowAssumption, EmptySeq DEF StreamStates
  <2> QED
    BY <2>1 DEF NewClient, Client
<1>2. NewClient.live /\ NewClient.bev = "none"
  BY DEF NewClient
<1>3. Credit(NewClient)
  BY WindowAssumption DEF NewClient, Credit
<1>4. Deleted \in Client
  BY <1>1 DEF Deleted, Client
<1>5. Deleted.bev = "none"
  BY <1>1, <1>2 DEF Deleted, Client
<1>6. Deleted.live = FALSE
  BY <1>1 DEF Deleted, Client
<1> QED
  BY <1>1, <1>2, <1>3, <1>4, <1>5, <1>6

\* tmux_stream_write takes no more than the window, and nothing once closed.
LEMMA WriteLemma ==
    ASSUME NEW id \in Ids, NEW c \in Client, NEW buf \in Seq(Int)
    PROVE  LET w == Write(id, c, buf)
           IN  /\ w.c \in Client /\ w.rest \in Seq(Int) /\ w.out \in Seq(Frame)
               /\ \A i \in 1 .. Len(w.out) : w.out[i].id = id /\ ~IsFin(w.out[i])
               /\ Credit(c) => Credit(w.c)
               /\ w.c.live <=> c.live
               /\ WriteRefused(c.state) => w.c.state = c.state /\ Len(w.out) = 0
<1> DEFINE n == Writable(c.state, c.send_window, Len(buf))
           w == Write(id, c, buf)
<1>1. /\ c.send_window \in Nat /\ c.sent \in Nat /\ c.granted \in Nat
      /\ c.state \in StreamStates /\ Len(buf) \in Nat
      /\ \A i \in 1 .. Len(buf) : buf[i] \in Int
  BY LenProperties DEF Client
<1>2. n \in Nat /\ n <= c.send_window /\ n <= Len(buf) /\ (WriteRefused(c.state) => n = 0)
  BY <1>1 DEF Writable, Least
<1> HIDE DEF n
<1>3. SubSeq(buf, 1, n) \in Seq(Int) /\ (n = 0 => SubSeq(buf, 1, n) = <<>>)
  <2>1. \A i \in 1 .. n : buf[i] \in Int
    BY <1>1, <1>2
  <2> QED
    BY <1>2, <2>1, SubSeqProperties, SubSeqEmpty
<1>4. Drain(buf, n) \in Seq(Int)
  <2>1. \A i \in n + 1 .. Len(buf) : buf[i] \in Int
    BY <1>1, <1>2
  <2> QED
    BY <1>1, <1>2, <2>1, SubSeqProperties DEF Drain
<1>5. get_send_flags(c.state) \in SUBSET {"SYN", "ACK"} /\ AfterSend(c.state) \in StreamStates
  BY <1>1 DEF get_send_flags, AfterSend, StreamStates
<1>6. /\ w.c = [c EXCEPT !.state = IF n > 0 THEN AfterSend(@) ELSE @,
                         !.send_window = @ - n,
                         !.sent = @ + n]
      /\ w.rest = Drain(buf, n)
      /\ w.out = DataFrames(id, get_send_flags(c.state), SubSeq(buf, 1, n))
  BY DEF Write, n
<1> HIDE DEF w
<1>7. /\ w.c.state = IF n > 0 THEN AfterSend(c.state) ELSE c.state
      /\ w.c.send_window = c.send_window - n
      /\ w.c.sent = c.sent + n
      /\ w.c.granted = c.granted
  BY <1>6 DEF Client
<1>8. w.c.live <=> c.live
  BY <1>6 DEF Client
<1>9. w.c \in Client
  <2>1. /\ (IF n > 0 THEN AfterSend(c.state) ELSE c.state) \in StreamStates
        /\ c.send_window - n \in Nat /\ c.sent + n \in Nat
    BY <1>1, <1>2, <1>5
  <2> QED
    BY <1>6, <2>1 DEF Client
<1>10. Credit(c) => Credit(w.c)
  BY <1>1, <1>2, <1>7, WindowAssumption DEF Credit
<1>11. WriteRefused(c.state) => w.c.state = c.state
  BY <1>2, <1>7
<1>12. /\ w.out \in Seq(Frame)
       /\ \A i \in 1 .. Len(w.out) : w.out[i].id = id /\ ~IsFin(w.out[i])
       /\ n = 0 => Len(w.out) = 0
  <2> DEFINE b == SubSeq(buf, 1, n)
             fl == get_send_flags(c.state)
  <2>1. b \in Seq(Int) /\ (n = 0 => b = <<>>) /\ fl \in SUBSET {"SYN", "ACK"}
        /\ w.out = DataFrames(id, fl, b)
    BY <1>3, <1>5, <1>6
  <2> HIDE DEF b, fl
  <2> QED
    BY <2>1, DataFramesLemma
<1> QED
  BY <1>2, <1>4, <1>6, <1>8, <1>9, <1>10, <1>11, <1>12 DEF w

\* A WINDOW_UPDATE frame is well typed and carries a FIN exactly when its flags
\* say so.
LEMMA WindowUpdateLemma ==
    ASSUME NEW id \in Ids, NEW flags \in SUBSET Flags, NEW inc \in Nat
    PROVE  LET q == <<WindowUpdate(id, flags, inc)>>
           IN  /\ q \in Seq(Frame) /\ Len(q) = 1
               /\ \A i \in 1 .. Len(q) : /\ q[i].id = id /\ q[i].type # "DATA"
                                         /\ IsFin(q[i]) <=> "FIN" \in flags
<1>1. WindowUpdate(id, flags, inc) \in Frame
  BY EmptySeq DEF WindowUpdate, Frame
<1>2. WindowUpdate(id, flags, inc).type # "DATA" /\ WindowUpdate(id, flags, inc).id = id
  BY DEF WindowUpdate
<1>3. IsFin(WindowUpdate(id, flags, inc)) <=> "FIN" \in flags
  BY DEF WindowUpdate, IsFin
<1> QED
  BY <1>1, <1>2, <1>3

\* Frames without data and without FIN.
Quiet(id, out) ==
    /\ out \in Seq(Frame)
    /\ \A i \in 1 .. Len(out) : out[i].id = id /\ out[i].type # "DATA" /\ ~IsFin(out[i])

\* An empty output is quiet, and so is a window update without FIN.
LEMMA QuietLemma ==
    ASSUME NEW id \in Ids
    PROVE  /\ Quiet(id, <<>>)
           /\ \A flags \in SUBSET Flags : \A inc \in Nat :
                 "FIN" \notin flags => Quiet(id, <<WindowUpdate(id, flags, inc)>>)
<1>1. Quiet(id, <<>>)
  BY EmptySeq DEF Quiet
<1>2. ASSUME NEW flags \in SUBSET Flags, NEW inc \in Nat, "FIN" \notin flags
      PROVE  Quiet(id, <<WindowUpdate(id, flags, inc)>>)
  <2> DEFINE q == <<WindowUpdate(id, flags, inc)>>
  <2>1. /\ q \in Seq(Frame)
        /\ \A i \in 1 .. Len(q) : q[i].id = id /\ q[i].type # "DATA" /\ ~IsFin(q[i])
    BY <1>2, WindowUpdateLemma
  <2> HIDE DEF q
  <2>2. Quiet(id, q)
    BY <2>1 DEF Quiet
  <2> QED
    BY <2>2 DEF q
<1> QED
  BY <1>1, <1>2

\* A handler whose output is quiet and that keeps credit and shut streams is
\* correct.
LEMMA QuietResult ==
    ASSUME NEW id \in Ids, NEW c \in Client, NEW r, r.c \in Client, Quiet(id, r.out),
           r.c.live => c.live /\ (Credit(c) => Credit(r.c)),
           ~r.c.live => r.c.bev = "none",
           WriteRefused(c.state) => Shut(r.c)
    PROVE  ResultOK(id, c, r)
BY DEF ResultOK, FinDiscipline, Quiet

\* A handler that deletes the client and is quiet is correct.
LEMMA DeletedResult ==
    ASSUME NEW id \in Ids, NEW c \in Client, NEW r, r.c = Deleted, Quiet(id, r.out)
    PROVE  ResultOK(id, c, r)
BY DeletedLemma, QuietResult DEF Shut

\* send_window_update changes no send window, and never carries a FIN.
LEMMA SendWindowUpdateLemma ==
    ASSUME NEW id \in Ids, NEW c \in Client, NEW n \in Nat, c.live
    PROVE  LET r == SendWindowUpdate(id, c, n)
           IN  ResultOK(id, c, r) /\ Quiet(id, r.out) /\ r.c.live
<1> DEFINE r == SendWindowUpdate(id, c, n)
           delta == MaxStreamWindow - c.recv_window
           flags == get_send_flags(c.state)
           d == [c EXCEPT !.state = AfterSend(@)]
           e == [d EXCEPT !.recv_window = MaxStreamWindow]
<1>1. /\ c.state \in StreamStates /\ c.recv_window \in Nat /\ MaxStreamWindow \in Nat
      /\ c.send_window \in Nat /\ c.sent \in Nat /\ c.granted \in Nat
  BY WindowAssumption DEF Client
<1>2. flags \in SUBSET Flags /\ "FIN" \notin flags /\ AfterSend(c.state) \in StreamStates
      /\ (WriteRefused(c.state) => AfterSend(c.state) = c.state)
  BY <1>1 DEF get_send_flags, AfterSend, StreamStates, Flags, WriteRefused
<1>3. delta \in Int
  BY <1>1
<1>4. c \in Client /\ d \in Client /\ e \in Client
  BY <1>1, <1>2 DEF Client
<1>5. d.live = c.live /\ e.live = c.live
  BY <1>4 DEF Client
<1>6. (Credit(c) => Credit(d)) /\ (Credit(c) => Credit(e))
  BY <1>4 DEF Client, Credit
<1>7. (WriteRefused(c.state) => Shut(d)) /\ (WriteRefused(c.state) => Shut(e))
      /\ (WriteRefused(c.state) => Shut(c))
  <2>1. d.state = AfterSend(c.state) /\ e.state = AfterSend(c.state)
    BY <1>4 DEF Client
  <2> QED
    BY <1>2, <2>1 DEF Shut
<1>8. r = IF n = 0
          THEN [c |-> d, out |-> IF flags = {} THEN <<>> ELSE <<WindowUpdate(id, flags, 0)>>]
          ELSE IF delta <= 0 THEN [c |-> c, out |-> <<>>]
          ELSE [c |-> e, out |-> <<WindowUpdate(id, flags, delta)>>]
  BY DEF SendWindowUpdate
<1> HIDE DEF r, delta, flags, d, e
<1>9. r.c \in {c, d, e}
  BY <1>8
<1>10. Quiet(id, r.out)
  <2>1. Quiet(id, <<>>) /\ Quiet(id, <<WindowUpdate(id, flags, 0)>>)
    BY <1>2, QuietLemma
  <2>2. ~(delta <= 0) => Quiet(id, <<WindowUpdate(id, flags, delta)>>)
    BY <1>2, <1>3, QuietLemma
  <2> QED
    BY <1>8, <2>1, <2>2
<1>11. r.c \in Client /\ r.c.live /\ (Credit(c) => Credit(r.c))
       /\ (WriteRefused(c.state) => Shut(r.c))
  BY <1>4, <1>5, <1>6, <1>7, <1>9
<1>12. ResultOK(id, c, r)
  BY <1>10, <1>11, QuietResult
<1> QED
  BY <1>10, <1>11, <1>12 DEF r

\* tmux_stream_close: at most a FIN, and no data can follow it.
LEMMA StreamCloseLemma ==
    ASSUME NEW id \in Ids, NEW c \in Client, c.live
    PROVE  LET r == StreamClose(id, c)
           IN  /\ ResultOK(id, c, r)
               /\ \A i \in 1 .. Len(r.out) : r.out[i].type # "DATA"
<1> DEFINE r == StreamClose(id, c)
           d == [c EXCEPT !.state = AfterClose(@)]
           q == <<WindowUpdate(id, {"FIN"}, 0)>>
<1>1. c.state \in StreamStates /\ AfterClose(c.state) \in StreamStates
  BY DEF Client, AfterClose, StreamStates
<1>2. d \in Client /\ d.state = AfterClose(c.state)
  BY <1>1 DEF Client
<1>3. d.live = c.live
  BY DEF Client
<1>4. Credit(c) => Credit(d)
  BY DEF Client, Credit
<1>5. q \in Seq(Frame) /\ \A i \in 1 .. Len(q) : q[i].id = id /\ q[i].type # "DATA"
  BY WindowUpdateLemma DEF Flags
<1> HIDE DEF d, q
<1>6. CASE CloseIgnored(c.state)
  <2>1. r.c = c /\ r.out = <<>>
    BY <1>6 DEF StreamClose
  <2>2. Quiet(id, r.out)
    BY <2>1, QuietLemma
  <2>3. ResultOK(id, c, r)
    BY <2>1, <2>2, QuietResult DEF Shut
  <2> QED
    BY <2>2, <2>3 DEF Quiet, r
<1>7. CASE ~CloseIgnored(c.state)
  <2>1. r.c = IF CloseDeletes(c.state) THEN Deleted ELSE d
    BY <1>7 DEF StreamClose, d
  <2>2. r.out = q
    BY <1>7 DEF StreamClose, q
  <2>3. ~CloseDeletes(c.state) => WriteRefused(AfterClose(c.state))
    BY <1>1, <1>7 DEF CloseDeletes, CloseIgnored, AfterClose, WriteRefused, StreamStates
  <2> HIDE DEF r
  <2>4. r.c \in Client /\ (~r.c.live => r.c.bev = "none") /\ Shut(r.c)
        /\ (r.c.live => c.live /\ (Credit(c) => Credit(r.c)))
    BY <1>2, <1>3, <1>4, <2>1, <2>3, DeletedLemma DEF Shut
  <2>5. ResultOK(id, c, r)
    BY <1>5, <2>2, <2>4 DEF ResultOK, FinDiscipline
  <2> QED
    BY <1>5, <2>2, <2>5 DEF r
<1> QED
  BY <1>6, <1>7

\* Frames without FIN followed by frames without data.
LEMMA ConcatLemma ==
    ASSUME NEW id \in Ids, NEW u \in Seq(Frame), NEW v \in Seq(Frame),
           \A i \in 1 .. Len(u) : u[i].id = id /\ ~IsFin(u[i]),
           \A i \in 1 .. Len(v) : v[i].id = id /\ v[i].type # "DATA"
    PROVE  LET q == u \o v
           IN  /\ q \in Seq(Frame)
               /\ \A i \in 1 .. Len(q) : q[i].id = id
               /\ \A j \in 1 .. Len(q) : q[j].type = "DATA" =>
                     Len(u) > 0 /\ \A i \in 1 .. j - 1 : ~IsFin(q[i])
               /\ \A i \in 1 .. Len(q) : IsFin(q[i]) => \E j \in 1 .. Len(v) : IsFin(v[j])
<1> DEFINE q == u \o v
<1>1. /\ q \in Seq(Frame) /\ Len(q) = Len(u) + Len(v)
      /\ Len(u) \in Nat /\ Len(v) \in Nat
      /\ \A i \in 1 .. Len(q) : q[i] = IF i <= Len(u) THEN u[i] ELSE v[i - Len(u)]
  BY ConcatProperties, LenProperties
<1> HIDE DEF q
<1>2. \A i \in 1 .. Len(q) : \/ i \in 1 .. Len(u) /\ q[i] = u[i]
                             \/ i > Len(u) /\ i - Len(u) \in 1 .. Len(v) /\ q[i] = v[i - Len(u)]
  BY <1>1
<1>3. \A i \in 1 .. Len(q) : q[i].id = id
  BY <1>2
<1>4. \A i \in 1 .. Len(q) : IsFin(q[i]) => \E j \in 1 .. Len(v) : IsFin(v[j])
  BY <1>2
<1>5. ASSUME NEW j \in 1 .. Len(q), q[j].type = "DATA"
      PROVE  Len(u) > 0 /\ \A i \in 1 .. j - 1 : ~IsFin(q[i])
  <2>1. j \in 1 .. Len(u)
    BY <1>2, <1>5
  <2> QED
    BY <1>1, <2>1
<1> QED
  BY <1>1, <1>3, <1>4, <1>5 DEF q

\* handle_proxy_disconnect: the remaining data goes before the FIN.
LEMMA DisconnectLemma ==
    ASSUME NEW id \in Ids, NEW c \in Client, c.live
    PROVE  ResultOK(id, c, Disconnect(id, c))
<1> DEFINE w == Write(id, c, c.input)
           d == [w.c EXCEPT !.bev = "none", !.ev_read = FALSE, !.input = <<>>, !.output = <<>>]
           k == StreamClose(id, d)
           p == [d EXCEPT !.pending_close = TRUE]
           r == Disconnect(id, c)
<1>1. /\ w.c \in Client /\ w.out \in Seq(Frame)
      /\ \A i \in 1 .. Len(w.out) : w.out[i].id = id /\ ~IsFin(w.out[i])
      /\ Credit(c) => Credit(w.c)
      /\ w.c.live <=> c.live
      /\ WriteRefused(c.state) => w.c.state = c.state /\ Len(w.out) = 0
  <2> DEFINE b == c.input
  <2>1. b \in Seq(Int) /\ w = Write(id, c, b)
    BY DEF Client
  <2> HIDE DEF b, w
  <2>2. /\ w.c \in Client /\ w.out \in Seq(Frame)
        /\ \A i \in 1 .. Len(w.out) : w.out[i].id = id /\ ~IsFin(w.out[i])
    BY <2>1, WriteLemma
  <2>3. Credit(c) => Credit(w.c)
    BY <2>1, WriteLemma
  <2>4. w.c.live <=> c.live
    BY <2>1, WriteLemma
  <2>5. WriteRefused(c.state) => w.c.state = c.state /\ Len(w.out) = 0
    BY <2>1, WriteLemma
  <2> QED
    BY <2>2, <2>3, <2>4, <2>5
<1>2. r = IF d.send_window = 0 THEN [c |-> p, out |-> w.out]
          ELSE [c |-> k.c, out |-> w.out \o k.out]
  BY DEF Disconnect
<1> HIDE DEF w
<1>3. d \in Client /\ p \in Client /\ d.state = w.c.state /\ p.state = w.c.state
      /\ d.bev = "none" /\ p.bev = "none"
  BY <1>1, EmptySeq DEF Client
<1>4. (d.live <=> w.c.live) /\ (p.live <=> w.c.live)
  BY <1>1 DEF Client
<1>5. (Credit(w.c) => Credit(d)) /\ (Credit(w.c) => Credit(p))
  BY <1>1 DEF Client, Credit
<1> HIDE DEF d, p
<1>6. ResultOK(id, d, k) /\ \A i \in 1 .. Len(k.out) : k.out[i].type # "DATA"
  BY <1>1, <1>3, <1>4, StreamCloseLemma
<1> HIDE DEF k, r
<1>7. CASE d.send_window = 0
  <2>1. r.c = p /\ r.out = w.out
    BY <1>2, <1>7
  <2>2. FinDiscipline(c, r)
    BY <1>1, <1>3, <2>1 DEF FinDiscipline, Shut
  <2> QED
    BY <1>1, <1>3, <1>4, <1>5, <2>1, <2>2 DEF ResultOK, r
<1>8. CASE d.send_window # 0
  <2>1. r.c = k.c /\ r.out = w.out \o k.out
    BY <1>2, <1>8
  <2>2. k.out \in Seq(Frame) /\ \A i \in 1 .. Len(k.out) : k.out[i].id = id
    BY <1>6 DEF ResultOK
  <2> DEFINE u == w.out
             v == k.out
  <2>3. /\ u \in Seq(Frame) /\ \A i \in 1 .. Len(u) : u[i].id = id /\ ~IsFin(u[i])
        /\ v \in Seq(Frame) /\ \A i \in 1 .. Len(v) : v[i].id = id /\ v[i].type # "DATA"
        /\ r.out = u \o v
    BY <1>1, <1>6, <2>1, <2>2
  <2>4. WriteRefused(c.state) => Len(u) = 0
    BY <1>1
  <2>7. \A i \in 1 .. Len(v) : IsFin(v[i]) => Shut(r.c)
    BY <1>6, <2>1 DEF ResultOK, FinDiscipline
  <2>5. /\ r.c \in Client /\ (~r.c.live => r.c.bev = "none")
        /\ r.c.live => c.live /\ (Credit(c) => Credit(r.c))
    BY <1>1, <1>4, <1>5, <1>6, <2>1 DEF ResultOK
  <2>8. WriteRefused(c.state) => Shut(r.c)
    BY <1>1, <1>3, <1>6, <2>1 DEF ResultOK, FinDiscipline
  <2> HIDE DEF u, v
  <2>9. /\ r.out \in Seq(Frame)
        /\ \A i \in 1 .. Len(r.out) : r.out[i].id = id
        /\ \A j \in 1 .. Len(r.out) : r.out[j].type = "DATA" =>
              Len(u) > 0 /\ \A i \in 1 .. j - 1 : ~IsFin(r.out[i])
        /\ \A i \in 1 .. Len(r.out) : IsFin(r.out[i]) => \E j \in 1 .. Len(v) : IsFin(v[j])
    BY <2>3, ConcatLemma
  <2>10. FinDiscipline(c, r)
    BY <2>3, <2>4, <2>7, <2>8, <2>9 DEF FinDiscipline
  <2> QED
    BY <2>5, <2>9, <2>10 DEF ResultOK, r
<1> QED
  BY <1>7, <1>8

\* A handler that first changes the client in a harmless way.
LEMMA ResultAfter ==
    ASSUME NEW id \in Ids, NEW c \in Client, NEW d \in Client, NEW r,
           d.live <=> c.live, Credit(c) => Credit(d),
           WriteRefused(c.state) => WriteRefused(d.state),
           ResultOK(id, d, r)
    PROVE  ResultOK(id, c, r)
BY DEF ResultOK, FinDiscipline

\* Encryption and decryption map byte sequences to byte sequences.
LEMMA CryptLemma ==
    ASSUME NEW bytes \in Seq(Int)
    PROVE  Crypt(bytes) \in Seq(Int)
<1>1. Len(bytes) \in Nat /\ DOMAIN bytes = 1 .. Len(bytes)
      /\ \A i \in 1 .. Len(bytes) : -bytes[i] \in Int
  BY LenProperties
<1> QED
  BY <1>1 DEF Crypt

\* tcp_proxy_c2s_cb
LEMMA C2SLemma ==
    ASSUME NEW id \in Ids, NEW c \in Client, c.live
    PROVE  ResultOK(id, c, C2S(id, c))
<1> DEFINE b == C2SBuffer(c)
           w == Write(id, c, b)
           d == [w.c EXCEPT !.ev_read = @ /\ w.rest = <<>>]
           e == C2SKeep(d, w.rest)
           r == C2S(id, c)
<1>1. b \in Seq(Int)
  <2>1. c.input \in Seq(Int) /\ c.enc_pending \in Seq(Int)
    BY DEF Client
  <2>2. Crypt(c.input) \in Seq(Int)
    BY <2>1, CryptLemma
  <2> QED
    BY <2>1, <2>2, ConcatProperties DEF C2SBuffer
<1>2. r = IF c.input = <<>> THEN [c |-> c, out |-> <<>>]
          ELSE IF WriteRefused(c.state) THEN [c |-> Deleted, out |-> <<>>]
          ELSE [c |-> e, out |-> w.out]
  BY DEF C2S
<1> HIDE DEF b, r
<1>3. /\ w.c \in Client /\ w.rest \in Seq(Int) /\ w.out \in Seq(Frame)
      /\ \A i \in 1 .. Len(w.out) : w.out[i].id = id /\ ~IsFin(w.out[i])
  BY <1>1, WriteLemma
<1>4. Credit(c) => Credit(w.c)
  BY <1>1, WriteLemma
<1>5. w.c.live <=> c.live
  BY <1>1, WriteLemma
<1> HIDE DEF w
<1>6. d \in Client
  <2>1. (w.c.ev_read /\ w.rest = <<>>) \in BOOLEAN
    OBVIOUS
  <2> QED
    BY <1>3, <2>1 DEF Client
<1>7. d.live <=> w.c.live
  BY <1>3 DEF Client
<1>8. Credit(w.c) => Credit(d)
  BY <1>3 DEF Client, Credit
<1> HIDE DEF d
<1>9. e \in Client
  BY <1>3, <1>6, EmptySeq DEF Client, C2SKeep
<1>10. e.live <=> d.live
  BY <1>6 DEF Client, C2SKeep
<1>11. Credit(d) => Credit(e)
  BY <1>6 DEF Client, Credit, C2SKeep
<1> HIDE DEF e
<1>12. CASE c.input = <<>>
  <2>1. r.c = c /\ r.out = <<>>
    BY <1>2, <1>12
  <2>2. Quiet(id, r.out)
    BY <2>1, QuietLemma
  <2>3. ResultOK(id, c, r)
    BY <2>1, <2>2, QuietResult DEF Shut
  <2> QED
    BY <2>3 DEF r
<1>13. CASE c.input # <<>> /\ WriteRefused(c.state)
  <2>1. r.c = Deleted /\ r.out = <<>>
    BY <1>2, <1>13
  <2>2. ResultOK(id, c, r)
    BY <2>1, QuietLemma, DeletedResult
  <2> QED
    BY <2>2 DEF r
<1>14. CASE c.input # <<>> /\ ~WriteRefused(c.state)
  <2>1. r.c = e /\ r.out = w.out
    BY <1>2, <1>14
  <2>2. FinDiscipline(c, r)
    BY <1>3, <1>14, <2>1 DEF FinDiscipline
  <2>3. r.c.live /\ (Credit(c) => Credit(r.c))
    BY <1>4, <1>5, <1>7, <1>8, <1>10, <1>11, <2>1
  <2>4. ResultOK(id, c, r)
    BY <1>3, <1>9, <2>1, <2>2, <2>3 DEF ResultOK
  <2> QED
    BY <2>4 DEF r
<1> QED
  BY <1>12, <1>13, <1>14

\* process_flags never reopens a stream for writing.
LEMMA ProcessFlagsLemma ==
    ASSUME NEW flags \in SUBSET Flags, NEW st \in StreamStates
    PROVE  LET p == process_flags(flags, st)
           IN  /\ p.state \in StreamStates
               /\ WriteRefused(st) => WriteRefused(p.state)
<1> DEFINE a == AfterAck(flags, st)
<1>1. a \in StreamStates /\ (WriteRefused(st) => a = st)
  BY DEF AfterAck, StreamStates, WriteRefused
<1>2. AfterFin(a) \in StreamStates /\ (WriteRefused(a) => WriteRefused(AfterFin(a)))
  BY <1>1 DEF AfterFin, StreamStates, WriteRefused
<1>3. "RESET" \in StreamStates /\ WriteRefused("RESET")
  BY DEF StreamStates, WriteRefused
<1>4. process_flags(flags, st).state \in {a, "RESET", AfterFin(a)}
  BY DEF process_flags
<1> QED
  BY <1>1, <1>2, <1>3, <1>4

\* incr_send_window adds no more credit than the frame carries.
LEMMA IncrSendWindowLemma ==
    ASSUME NEW window \in Nat, NEW inc \in Nat
    PROVE  /\ IncrSendWindow(window, inc) \in Nat
           /\ IncrementValid(inc) => IncrSendWindow(window, inc) <= window + inc
           /\ IncrSendWindow(window, inc) <= MaxYamuxWindow
BY WindowAssumption DEF IncrSendWindow, IncrementValid

\* A GO_AWAY frame is well typed and quiet.
LEMMA GoAwayLemma ==
    ASSUME NEW id \in Ids
    PROVE  Quiet(id, <<GoAway(id)>>)
<1>1. GoAway(id) \in Frame
  BY EmptySeq DEF GoAway, Frame
<1>2. GoAway(id).id = id /\ GoAway(id).type # "DATA" /\ ~IsFin(GoAway(id))
  BY DEF GoAway, IsFin
<1> QED
  BY <1>1, <1>2 DEF Quiet

\* handle_tcp_mux_stream
LEMMA IncrStepLemma ==
    ASSUME NEW id \in Ids, NEW c \in Client, NEW f \in Frame, c.live
    PROVE  ResultOK(id, c, IncrSendWindowStep(id, c, f))
<1> DEFINE p == process_flags(f.flags, c.state)
           b == [c EXCEPT !.state = p.state]
           d == [c EXCEPT !.state = p.state,
                          !.send_window = IncrSendWindow(@, f.inc),
                          !.granted = @ + f.inc]
           e == [d EXCEPT !.ev_read = @ \/ (/\ c.send_window = 0
                                           /\ d.send_window > 0
                                           /\ d.bev # "none")]
           r == IncrSendWindowStep(id, c, f)
<1>1. /\ f.flags \in SUBSET Flags /\ f.inc \in Nat /\ c.state \in StreamStates
      /\ c.send_window \in Nat /\ c.sent \in Nat /\ c.granted \in Nat
  BY DEF Frame, Client
<1>2. p.state \in StreamStates /\ (WriteRefused(c.state) => WriteRefused(p.state))
  <2> DEFINE fl == f.flags
             st == c.state
  <2>1. fl \in SUBSET Flags /\ st \in StreamStates /\ p = process_flags(fl, st)
    BY <1>1
  <2> HIDE DEF fl, st, p
  <2>2. p.state \in StreamStates /\ (WriteRefused(st) => WriteRefused(p.state))
    BY <2>1, ProcessFlagsLemma
  <2> QED
    BY <2>2 DEF st
<1>3. r = CASE ~p.ok -> [c |-> b, out |-> <<GoAway(id)>>]
            [] p.ok /\ p.close -> [c |-> Deleted, out |-> <<>>]
            [] p.ok /\ ~p.close /\ ~IncrementValid(f.inc) -> [c |-> b, out |-> <<GoAway(id)>>]
            [] OTHER -> IF DeferredClose(d) THEN StreamClose(id, d)
                        ELSE [c |-> e, out |-> <<>>]
  BY DEF IncrSendWindowStep
<1> HIDE DEF p, r
<1>4. /\ IncrSendWindow(c.send_window, f.inc) \in Nat
      /\ IncrementValid(f.inc) => IncrSendWindow(c.send_window, f.inc) <= c.send_window + f.inc
      /\ IncrSendWindow(c.send_window, f.inc) <= MaxYamuxWindow
  BY <1>1, IncrSendWindowLemma
<1>5. b \in Client /\ d \in Client
  <2>1. c.granted + f.inc \in Nat
    BY <1>1
  <2>2. b \in Client
    BY <1>2 DEF Client
  <2>3. d \in Client
    BY <1>2, <1>4, <2>1 DEF Client
  <2> QED
    BY <2>2, <2>3
<1>6. (b.live <=> c.live) /\ (d.live <=> c.live)
  BY DEF Client
<1>7. /\ b.state = p.state /\ d.state = p.state
      /\ d.send_window = IncrSendWindow(c.send_window, f.inc)
      /\ d.sent = c.sent /\ d.granted = c.granted + f.inc
  BY DEF Client
<1>8. (Credit(c) => Credit(b)) /\ (Credit(c) /\ IncrementValid(f.inc) => Credit(d))
  <2>1. Credit(c) => Credit(b)
    BY DEF Client, Credit
  <2> HIDE DEF d
  <2>2. Credit(c) /\ IncrementValid(f.inc) => Credit(d)
    BY <1>1, <1>4, <1>7, WindowAssumption DEF Credit
  <2> QED
    BY <2>1, <2>2
<1>9. e \in Client /\ e.state = d.state
  <2>1. (d.ev_read \/ (c.send_window = 0 /\ d.send_window > 0 /\ d.bev # "none")) \in BOOLEAN
    OBVIOUS
  <2> HIDE DEF d
  <2> QED
    BY <1>5, <2>1 DEF Client
<1>10. (e.live <=> d.live) /\ (Credit(d) => Credit(e))
  <2> HIDE DEF d
  <2> QED
    BY <1>5 DEF Client, Credit
<1> HIDE DEF b, d, e
<1>11. CASE r = [c |-> b, out |-> <<GoAway(id)>>]
  <2>1. r.c = b /\ Quiet(id, r.out)
    BY <1>11, GoAwayLemma
  <2>2. ResultOK(id, c, r)
    BY <1>2, <1>5, <1>6, <1>7, <1>8, <2>1, QuietResult DEF Shut
  <2> QED
    BY <2>2 DEF r
<1>12. CASE r = [c |-> Deleted, out |-> <<>>]
  <2>1. r.c = Deleted /\ Quiet(id, r.out)
    BY <1>12, QuietLemma
  <2>2. ResultOK(id, c, r)
    BY <2>1, DeletedResult
  <2> QED
    BY <2>2 DEF r
<1>13. CASE IncrementValid(f.inc) /\ r = StreamClose(id, d)
  <2>1. ResultOK(id, d, r)
    BY <1>5, <1>6, <1>13, StreamCloseLemma
  <2>2. ResultOK(id, c, r)
    BY <1>2, <1>5, <1>6, <1>7, <1>8, <1>13, <2>1, ResultAfter
  <2> QED
    BY <2>2 DEF r
<1>14. CASE IncrementValid(f.inc) /\ r = [c |-> e, out |-> <<>>]
  <2>1. r.c = e /\ Quiet(id, r.out)
    BY <1>14, QuietLemma
  <2>2. ResultOK(id, c, r)
    BY <1>2, <1>6, <1>7, <1>8, <1>9, <1>10, <1>14, <2>1, QuietResult DEF Shut
  <2> QED
    BY <2>2 DEF r
<1> QED
  BY <1>3, <1>11, <1>12, <1>13, <1>14

\* process_data, with every outcome of StartWorkConn
LEMMA ProcessDataLemma ==
    ASSUME NEW id \in Ids, NEW c \in Client, NEW f \in Frame, c.live,
           Len(f.data) <= c.recv_window, NEW r \in ProcessData(id, c, f)
    PROVE  ResultOK(id, c, r)
<1> DEFINE n == Len(f.data)
           d == [c EXCEPT !.recv_window = @ - n]
           o == [d EXCEPT !.output = @ \o Crypt(f.data)]
           s == [d EXCEPT !.started = TRUE, !.bev = "connecting", !.ev_read = TRUE]
           done(e) == SendWindowUpdate(id, e, n)
<1>1. n \in Nat /\ f.data \in Seq(Int) /\ c.recv_window \in Nat
  BY LenProperties DEF Frame, Client
<1>2. d \in Client
  <2>1. c.recv_window - n \in Nat
    BY <1>1
  <2> QED
    BY <2>1 DEF Client
<1>3. /\ d.live <=> c.live
      /\ Credit(c) => Credit(d)
      /\ d.state = c.state
  BY DEF Client, Credit
<1>4. \/ r = done(o)
      \/ r = done(d)
      \/ r = done(s)
      \/ r.c = Deleted /\ r.out = <<>>
      \/ r.c = Deleted /\ r.out = done(d).out
  <2> DEFINE start == {IF e.live THEN done(e) ELSE [c |-> e, out |-> <<>>] : e \in StartWorkConn(d)}
                      \cup {[c |-> Deleted, out |-> done(d).out]}
  <2>1. ProcessData(id, c, f) \in {{done(o)}, start, {done(d)}}
    BY DEF ProcessData
  <2>2. StartWorkConn(d) = {d, s, Deleted}
    BY DEF StartWorkConn, StartTunnel
  <2> HIDE DEF d, o, s, done
  <2>3. ASSUME r \in start
        PROVE  \/ r = done(d)
               \/ r = done(s)
               \/ r.c = Deleted /\ r.out = <<>>
               \/ r.c = Deleted /\ r.out = done(d).out
    <3>1. CASE \E e \in StartWorkConn(d) : r = IF e.live THEN done(e) ELSE [c |-> e, out |-> <<>>]
      <4>1. PICK e \in {d, s, Deleted} : r = IF e.live THEN done(e) ELSE [c |-> e, out |-> <<>>]
        BY <2>2, <3>1
      <4>2. d.live
        BY <1>3
      <4>3. s.live
        BY <1>2, <4>2 DEF Client, s
      <4>4. ~Deleted.live
        BY DeletedLemma
      <4>5. CASE e = d
        BY <4>1, <4>2, <4>5
      <4>6. CASE e = s
        BY <4>1, <4>3, <4>6
      <4>7. CASE e = Deleted
        <5>1. r = [c |-> Deleted, out |-> <<>>]
          BY <4>1, <4>4, <4>7
        <5> QED
          BY <5>1
      <4> QED
        BY <4>5, <4>6, <4>7
    <3>2. CASE r = [c |-> Deleted, out |-> done(d).out]
      BY <3>2
    <3> QED
      BY <2>3, <3>1, <3>2
  <2> HIDE DEF start
  <2> QED
    BY <2>1, <2>3
<1>5. o \in Client /\ s \in Client
  <2> HIDE DEF d
  <2>1. d.output \in Seq(Int) /\ Crypt(f.data) \in Seq(Int)
    BY <1>1, <1>2, CryptLemma DEF Client
  <2>2. d.output \o Crypt(f.data) \in Seq(Int)
    BY <2>1, ConcatProperties
  <2> QED
    BY <1>2, <2>2 DEF Client
<1>6. (o.live <=> d.live) /\ (s.live <=> d.live)
  <2> HIDE DEF d
  <2> QED
    BY <1>2 DEF Client
<1>7. /\ (Credit(d) => Credit(o)) /\ (Credit(d) => Credit(s))
      /\ o.state = d.state /\ s.state = d.state
  <2> HIDE DEF d
  <2> QED
    BY <1>2 DEF Client, Credit
<1> HIDE DEF n, d, o, s
<1>8. ASSUME NEW e \in {d, o, s}
      PROVE  ResultOK(id, c, done(e)) /\ Quiet(id, done(e).out)
  <2>1. e \in Client /\ (e.live <=> c.live) /\ (Credit(c) => Credit(e)) /\ e.state = c.state
    BY <1>2, <1>3, <1>5, <1>6, <1>7
  <2>2. ResultOK(id, e, done(e)) /\ Quiet(id, done(e).out)
    BY <1>1, <2>1, SendWindowUpdateLemma
  <2> QED
    BY <2>1, <2>2, ResultAfter
<1> HIDE DEF done
<1>9. Quiet(id, <<>>) /\ Quiet(id, done(d).out)
  BY <1>8, QuietLemma
<1>10. CASE r.c = Deleted /\ (r.out = <<>> \/ r.out = done(d).out)
  BY <1>9, <1>10, DeletedResult
<1> QED
  BY <1>4, <1>8, <1>10

-----------------------------------------------------------------------------
(* The inductive invariant.  NoDataAfterFin is not inductive by itself: it *)
(* needs that a client whose FIN is out can write no more, and that no FIN *)
(* of an id is out before its client exists.                               *)

FinSent(id) ==
    \/ frps[id].fin
    \/ \E i \in 1 .. Len(to_frps) : to_frps[i].id = id /\ IsFin(to_frps[i])

\* The part that the client's handlers work on.
ClientInv ==
    /\ pc \in [Ids -> Client]
    /\ to_frps \in Seq(Frame)
    /\ FlowControl
    /\ NoDataAfterFin
    /\ \A id \in Ids : ~pc[id].live => pc[id].bev = "none"
    /\ \A id \in Ids : FinSent(id) => Shut(pc[id])
    /\ \A id \in Ids : id > next_id => ~pc[id].live /\ ~FinSent(id)

IInv ==
    /\ TypeOK
    /\ ClientInv
    /\ \A id \in Ids : frps[id].recv_window <= MaxYamuxWindow

\* A handler that guarantees ResultOK preserves the client's part.
LEMMA FinishLemma ==
    ASSUME IInv, NEW id \in Ids, NEW c \in Client, NEW r,
           c.live, Credit(c), FinSent(id) => Shut(c), ResultOK(id, c, r), Finish(id, r),
           frps' = frps, next_id' \in Nat, next_id <= next_id', id <= next_id'
    PROVE  ClientInv'
<1> DEFINE q == to_frps
           o == r.out
           t == to_frps'
<1>1. /\ q \in Seq(Frame) /\ o \in Seq(Frame) /\ t = q \o o
      /\ pc \in [Ids -> Client] /\ r.c \in Client /\ pc' = [pc EXCEPT ![id] = r.c]
      /\ next_id \in Nat
  BY DEF IInv, ClientInv, TypeOK, ResultOK, Finish
<1>2. /\ t \in Seq(Frame) /\ Len(q) \in Nat /\ Len(o) \in Nat /\ Len(t) = Len(q) + Len(o)
      /\ \A i \in 1 .. Len(t) : t[i] = IF i <= Len(q) THEN q[i] ELSE o[i - Len(q)]
  <2> HIDE DEF q, o, t
  <2> QED
    BY <1>1, ConcatProperties, LenProperties
<1>3. /\ \A i \in 1 .. Len(o) : o[i].id = id
      /\ \A i \in 1 .. Len(o) : IsFin(o[i]) => Shut(r.c)
      /\ \A j \in 1 .. Len(o) : o[j].type = "DATA" =>
            ~WriteRefused(c.state) /\ \A i \in 1 .. j - 1 : ~IsFin(o[i])
      /\ WriteRefused(c.state) => Shut(r.c)
  BY DEF ResultOK, FinDiscipline
<1>4. pc' \in [Ids -> Client] /\ pc'[id] = r.c /\ \A x \in Ids : x # id => pc'[x] = pc[x]
  BY <1>1
<1>5. FlowControl'
  BY <1>4 DEF IInv, ClientInv, FlowControl, ResultOK
<1>6. \A x \in Ids : ~pc'[x].live => pc'[x].bev = "none"
  BY <1>4 DEF IInv, ClientInv, ResultOK
<1>7. FinSent(id) => WriteRefused(c.state)
  BY DEF Shut
<1>8. ASSUME NEW x \in Ids, FinSent(x)'
      PROVE  FinSent(x) \/ (x = id /\ Shut(r.c))
  <2>1. CASE frps'[x].fin
    BY <2>1 DEF FinSent
  <2>2. CASE \E i \in 1 .. Len(t) : t[i].id = x /\ IsFin(t[i])
    <3>1. PICK i \in 1 .. Len(t) : t[i].id = x /\ IsFin(t[i])
      BY <2>2
    <3> HIDE DEF o, t
    <3>2. CASE i <= Len(q)
      <4>1. i \in 1 .. Len(q) /\ q[i].id = x /\ IsFin(q[i])
        BY <1>2, <3>1, <3>2
      <4> QED
        BY <4>1 DEF FinSent
    <3>3. CASE i > Len(q)
      <4>1. i - Len(q) \in 1 .. Len(o) /\ o[i - Len(q)].id = x /\ IsFin(o[i - Len(q)])
        BY <1>2, <3>1, <3>3
      <4> QED
        BY <1>3, <4>1
    <3> QED
      BY <1>2, <3>2, <3>3
  <2> QED
    BY <1>8, <2>1, <2>2 DEF FinSent
<1>9. \A x \in Ids : FinSent(x)' => Shut(pc'[x])
  BY <1>3, <1>4, <1>7, <1>8 DEF IInv, ClientInv
<1>10. \A x \in Ids : x > next_id' => ~pc'[x].live /\ ~FinSent(x)'
  BY <1>1, <1>4, <1>8 DEF IInv, ClientInv, Ids
<1>11. NoDataAfterFin'
  <2>1. SUFFICES ASSUME NEW j \in 1 .. Len(t), t[j].type = "DATA"
                 PROVE  /\ ~frps'[t[j].id].fin
                        /\ \A i \in 1 .. j - 1 : t[i].id = t[j].id => ~IsFin(t[i])
    BY DEF NoDataAfterFin
  <2> HIDE DEF o, t
  <2>2. CASE j <= Len(q)
    <3>1. j \in 1 .. Len(q) /\ t[j] = q[j] /\ \A i \in 1 .. j - 1 : t[i] = q[i]
      BY <1>2, <2>2
    <3>2. /\ ~frps[q[j].id].fin
          /\ \A i \in 1 .. j - 1 : q[i].id = q[j].id => ~IsFin(q[i])
      BY <2>1, <3>1 DEF IInv, ClientInv, NoDataAfterFin
    <3> QED
      BY <3>1, <3>2
  <2>3. CASE j > Len(q)
    <3>1. j - Len(q) \in 1 .. Len(o) /\ t[j] = o[j - Len(q)]
      BY <1>2, <2>3
    <3>2. t[j].id = id /\ ~WriteRefused(c.state)
          /\ \A i \in 1 .. (j - Len(q)) - 1 : ~IsFin(o[i])
      BY <1>3, <2>1, <3>1
    <3>3. ~frps[id].fin /\ \A i \in 1 .. Len(q) : q[i].id = id => ~IsFin(q[i])
      BY <1>7, <3>2 DEF FinSent
    <3>4. ASSUME NEW i \in 1 .. j - 1, t[i].id = t[j].id
          PROVE  ~IsFin(t[i])
      <4>1. CASE i <= Len(q)
        BY <1>2, <3>2, <3>3, <3>4, <4>1
      <4>2. CASE i > Len(q)
        BY <1>2, <3>2, <4>2
      <4> QED
        BY <1>2, <4>1, <4>2
    <3> QED
      BY <3>2, <3>3, <3>4
  <2> QED
    BY <1>2, <2>2, <2>3
<1> QED
  BY <1>2, <1>4, <1>5, <1>6, <1>9, <1>10, <1>11 DEF ClientInv

-----------------------------------------------------------------------------
(* The actions of xfrpc *)

\* Steps in which only the handler of one live client runs.
LEMMA ClientStep ==
    ASSUME IInv, NEW id \in Ids, NEW c \in Client, NEW r,
           pc[id].live, c.live, Credit(pc[id]) => Credit(c),
           WriteRefused(pc[id].state) => WriteRefused(c.state),
           ResultOK(id, c, r), Finish(id, r), UNCHANGED <<next_id, frps>>
    PROVE  ClientInv'
<1>1. next_id \in Nat /\ id <= next_id
  BY TunnelAssumption DEF IInv, TypeOK, ClientInv, Ids
<1>2. Credit(c) /\ (FinSent(id) => Shut(c))
  BY DEF IInv, ClientInv, FlowControl, Shut
<1> QED
  BY <1>1, <1>2, FinishLemma

\* new_client_connect preserves the invariant.
LEMMA NewWorkConnStep ==
    ASSUME IInv, NewWorkConn
    PROVE  IInv'
<1> DEFINE id == next_id + 1
           s == SendWindowUpdate(id, NewClient, 0)
           w == Write(id, s.c, <<0>>)
           r == [c |-> w.c, out |-> s.out \o w.out]
<1>1. /\ next_id \in Nat /\ MaxClients \in Nat /\ next_id < MaxClients
      /\ next_id' = id /\ Finish(id, r)
      /\ UNCHANGED <<to_client, local, frps, session_err, misparsed>>
  BY TunnelAssumption DEF NewWorkConn, IInv, TypeOK
<1>2. id \in Ids /\ id > next_id /\ id \in 0 .. MaxClients
  BY <1>1 DEF Ids
<1> HIDE DEF id
<1>3. ResultOK(id, NewClient, s) /\ Quiet(id, s.out) /\ s.c.live
  BY <1>2, DeletedLemma, SendWindowUpdateLemma
<1> HIDE DEF s
<1>4. s.c \in Client /\ Credit(s.c)
  BY <1>3, DeletedLemma DEF ResultOK
<1>5. <<0>> \in Seq(Int)
  OBVIOUS
<1>6. /\ w.c \in Client /\ w.out \in Seq(Frame)
      /\ \A i \in 1 .. Len(w.out) : w.out[i].id = id /\ ~IsFin(w.out[i])
      /\ Credit(w.c)
  <2> DEFINE b == <<0>>
  <2> HIDE DEF b
  <2>1. b \in Seq(Int) /\ w = Write(id, s.c, b)
    BY <1>5 DEF b
  <2> HIDE DEF w
  <2>2. /\ w.c \in Client /\ w.out \in Seq(Frame)
        /\ \A i \in 1 .. Len(w.out) : w.out[i].id = id /\ ~IsFin(w.out[i])
    BY <1>2, <1>4, <2>1, WriteLemma
  <2>3. Credit(s.c) => Credit(w.c)
    BY <1>2, <1>4, <2>1, WriteLemma
  <2> QED
    BY <1>4, <2>2, <2>3
<1>7. w.c.live
  <2> DEFINE b == <<0>>
  <2> HIDE DEF b
  <2>1. b \in Seq(Int) /\ w = Write(id, s.c, b)
    BY <1>5 DEF b
  <2> HIDE DEF w
  <2> QED
    BY <1>2, <1>3, <1>4, <2>1, WriteLemma
<1> HIDE DEF w
<1>8. /\ r.out \in Seq(Frame)
      /\ \A i \in 1 .. Len(r.out) : r.out[i].id = id /\ ~IsFin(r.out[i])
  <2> DEFINE u == s.out
             v == w.out
  <2>1. /\ u \in Seq(Frame) /\ \A i \in 1 .. Len(u) : u[i].id = id /\ ~IsFin(u[i])
        /\ v \in Seq(Frame) /\ \A i \in 1 .. Len(v) : v[i].id = id /\ ~IsFin(v[i])
        /\ r.out = u \o v
    BY <1>3, <1>6 DEF Quiet
  <2> HIDE DEF u, v, r
  <2>2. /\ u \o v \in Seq(Frame) /\ Len(u \o v) = Len(u) + Len(v)
        /\ Len(u) \in Nat /\ Len(v) \in Nat
        /\ \A i \in 1 .. Len(u) + Len(v) :
              (u \o v)[i] = IF i <= Len(u) THEN u[i] ELSE v[i - Len(u)]
    BY <2>1, ConcatProperties, LenProperties
  <2> DEFINE q == u \o v
  <2> HIDE DEF q
  <2>3. \A i \in 1 .. Len(q) : \/ i \in 1 .. Len(u) /\ q[i] = u[i]
                               \/ i - Len(u) \in 1 .. Len(v) /\ q[i] = v[i - Len(u)]
    BY <2>2 DEF q
  <2>4. \A i \in 1 .. Len(q) : q[i].id = id /\ ~IsFin(q[i])
    BY <2>1, <2>3
  <2> QED
    BY <2>1, <2>2, <2>4 DEF q
<1>9. ~WriteRefused(NewClient.state)
  BY DEF NewClient, WriteRefused
<1>10. ResultOK(id, NewClient, r)
  <2>1. r.c = w.c
    OBVIOUS
  <2> HIDE DEF r
  <2> QED
    BY <1>6, <1>7, <1>8, <1>9, <2>1, DeletedLemma DEF ResultOK, FinDiscipline
<1>11. ~FinSent(id)
  BY <1>2 DEF IInv, ClientInv
<1> HIDE DEF r
<1>12. ClientInv'
  BY <1>1, <1>2, <1>10, <1>11, DeletedLemma, FinishLemma
<1> QED
  BY <1>1, <1>2, <1>12 DEF IInv, TypeOK, ClientInv

\* A frame for a deleted stream preserves the invariant.
LEMMA RecvUnknownStep ==
    ASSUME IInv, RecvUnknown
    PROVE  IInv'
<1>1. to_client' \in Seq(Frame)
  BY HeadTailProperties DEF RecvUnknown, RecvFrame, IInv, TypeOK
<1>2. ClientInv'
  BY DEF RecvUnknown, RecvFrame, IInv, ClientInv, FlowControl, NoDataAfterFin, FinSent
<1> QED
  BY <1>1, <1>2 DEF RecvUnknown, RecvFrame, IInv, TypeOK

\* incr_send_window preserves the invariant.
LEMMA RecvWindowUpdateStep ==
    ASSUME IInv, RecvWindowUpdate
    PROVE  IInv'
<1> DEFINE f == Head(to_client)
           r == IncrSendWindowStep(f.id, pc[f.id], f)
<1>1. f \in Frame /\ to_client' \in Seq(Frame)
  BY HeadTailProperties DEF RecvWindowUpdate, RecvFrame, IInv, TypeOK
<1>2. /\ pc[f.id].live /\ Finish(f.id, r)
      /\ UNCHANGED <<next_id, local, frps, session_err, misparsed>>
  BY DEF RecvWindowUpdate, RecvFrame
<1> HIDE DEF f
<1>3. f.id \in Ids /\ pc[f.id] \in Client
  BY <1>1 DEF Frame, IInv, TypeOK
<1>4. ResultOK(f.id, pc[f.id], r)
  BY <1>1, <1>2, <1>3, IncrStepLemma
<1> HIDE DEF r
<1>5. ClientInv'
  BY <1>2, <1>3, <1>4, ClientStep
<1> QED
  BY <1>1, <1>2, <1>5 DEF IInv, TypeOK, ClientInv

\* process_data preserves the invariant.
LEMMA RecvDataStep ==
    ASSUME IInv, RecvData
    PROVE  IInv'
<1> DEFINE f == Head(to_client)
           c == pc[f.id]
           p == process_flags(f.flags, c.state)
           d == [c EXCEPT !.state = p.state]
           g == [c |-> IF p.close THEN Deleted ELSE d, out |-> <<>>]
<1>1. f \in Frame /\ to_client' \in Seq(Frame)
  BY HeadTailProperties DEF RecvData, RecvFrame, IInv, TypeOK
<1>2. /\ c.live
      /\ UNCHANGED <<next_id, local, frps, session_err>>
      /\ \/ /\ Len(f.data) <= c.recv_window
            /\ \E r \in ProcessData(f.id, d, f) : Finish(f.id, r)
            /\ misparsed' \in {misparsed, misparsed \cup {f.id}}
         \/ Finish(f.id, g) /\ misparsed' = misparsed
  BY DEF RecvData, RecvFrame
<1> HIDE DEF f
<1>3. f.id \in Ids /\ c \in Client /\ f.flags \in SUBSET Flags /\ c.state \in StreamStates
  BY <1>1 DEF Frame, IInv, TypeOK, Client
<1>4. misparsed' \in SUBSET Ids
  BY <1>2, <1>3 DEF IInv, TypeOK
<1> HIDE DEF c
<1>5. p.state \in StreamStates /\ (WriteRefused(c.state) => WriteRefused(p.state))
  <2> DEFINE fl == f.flags
             st == c.state
  <2>1. fl \in SUBSET Flags /\ st \in StreamStates /\ p = process_flags(fl, st)
    BY <1>3
  <2> HIDE DEF fl, st, p
  <2>2. p.state \in StreamStates /\ (WriteRefused(st) => WriteRefused(p.state))
    BY <2>1, ProcessFlagsLemma
  <2> QED
    BY <2>2 DEF st
<1> HIDE DEF p
<1>6. d \in Client /\ d.state = p.state /\ d.recv_window = c.recv_window
  BY <1>3, <1>5 DEF Client
<1>7. d.live <=> c.live
  BY <1>3 DEF Client
<1>8. Credit(c) => Credit(d)
  BY <1>3 DEF Client, Credit
<1> HIDE DEF d
<1>9. ResultOK(f.id, d, g)
  <2>1. g.c \in {Deleted, d} /\ g.out = <<>>
    OBVIOUS
  <2>2. Quiet(f.id, g.out)
    BY <1>3, <2>1, QuietLemma
  <2> HIDE DEF g
  <2>3. CASE g.c = Deleted
    BY <1>3, <1>6, <2>2, <2>3, DeletedResult
  <2>4. CASE g.c = d
    BY <1>2, <1>3, <1>6, <1>7, <2>2, <2>4, QuietResult DEF Shut
  <2> QED
    BY <2>1, <2>3, <2>4
<1> HIDE DEF g
<1>10. ASSUME NEW r \in ProcessData(f.id, d, f), Len(f.data) <= c.recv_window
       PROVE  ResultOK(f.id, d, r)
  BY <1>1, <1>2, <1>3, <1>6, <1>7, <1>10, ProcessDataLemma
<1>11. PICK r : ResultOK(f.id, d, r) /\ Finish(f.id, r)
  BY <1>2, <1>9, <1>10
<1>12. ClientInv'
  BY <1>2, <1>3, <1>5, <1>6, <1>7, <1>8, <1>11, ClientStep DEF c
<1> QED
  BY <1>1, <1>2, <1>4, <1>12 DEF IInv, TypeOK, ClientInv

\* A client with a local connection is live, and may take in more bytes.
LEMMA BevLive ==
    ASSUME IInv, NEW id \in Ids, pc[id].bev # "none"
    PROVE  pc[id].live /\ pc[id] \in Client
BY DEF IInv, ClientInv

\* Bytes read into the input buffer change neither credit nor the stream.
LEMMA InputLemma ==
    ASSUME NEW c \in Client, NEW bytes \in Seq(Int)
    PROVE  LET d == [c EXCEPT !.input = @ \o bytes]
           IN  d \in Client /\ (d.live <=> c.live) /\ (Credit(c) => Credit(d)) /\ d.state = c.state
<1> DEFINE d == [c EXCEPT !.input = @ \o bytes]
<1>1. c.input \o bytes \in Seq(Int)
  <2>1. c.input \in Seq(Int)
    BY DEF Client
  <2> QED
    BY <2>1, ConcatProperties
<1>2. d \in Client
  BY <1>1 DEF Client
<1>3. d.live <=> c.live
  BY DEF Client
<1>4. (Credit(c) => Credit(d)) /\ d.state = c.state
  BY DEF Client, Credit
<1> QED
  BY <1>2, <1>3, <1>4

\* Steps of a client that send nothing and touch neither window nor state.
LEMMA SilentStep ==
    ASSUME IInv, NEW id \in Ids, NEW d \in Client, pc[id].live, d.live,
           Credit(pc[id]) => Credit(d), d.state = pc[id].state,
           pc' = [pc EXCEPT ![id] = d], UNCHANGED <<to_frps, next_id, frps>>
    PROVE  ClientInv'
<1> DEFINE r == [c |-> d, out |-> <<>>]
<1>1. to_frps \in Seq(Frame) /\ pc[id] \in Client
  BY DEF IInv, TypeOK
<1>2. Finish(id, r)
  BY <1>1, ConcatEmptySeq DEF Finish
<1>3. r.c = d /\ Quiet(id, r.out)
  BY QuietLemma
<1> HIDE DEF r
<1>4. ResultOK(id, pc[id], r)
  BY <1>1, <1>3, QuietResult DEF Shut
<1> QED
  BY <1>1, <1>2, <1>4, ClientStep

\* Records of the local service keep their type.
LEMMA ServiceLemma ==
    ASSUME NEW v \in Service, NEW n \in 0 .. Len(v.sock), NEW bytes \in Seq(Int)
    PROVE  /\ Len(v.sock) \in Nat
           /\ SubSeq(v.sock, 1, n) \in Seq(Int)
           /\ [v EXCEPT !.sock = Drain(@, n), !.read = @ + n] \in Service
           /\ [v EXCEPT !.rcvd = @ \o bytes] \in Service
<1>1. /\ v.sock \in Seq(Int) /\ v.rcvd \in Seq(Int) /\ v.read \in Nat /\ Len(v.sock) \in Nat
      /\ \A i \in 1 .. Len(v.sock) : v.sock[i] \in Int
  BY LenProperties DEF Service
<1>2. SubSeq(v.sock, 1, n) \in Seq(Int)
  <2>1. \A i \in 1 .. n : v.sock[i] \in Int
    BY <1>1
  <2> QED
    BY <1>1, <2>1, SubSeqProperties
<1>3. Drain(v.sock, n) \in Seq(Int)
  <2>1. \A i \in n + 1 .. Len(v.sock) : v.sock[i] \in Int
    BY <1>1
  <2> QED
    BY <1>1, <2>1, SubSeqProperties DEF Drain
<1>4. v.rcvd \o bytes \in Seq(Int) /\ v.read + n \in Nat
  BY <1>1, ConcatProperties
<1> QED
  BY <1>1, <1>2, <1>3, <1>4 DEF Service

\* A successful local connect preserves the invariant.
LEMMA LocalConnectedStep ==
    ASSUME IInv, NEW id \in Ids, LocalConnected(id)
    PROVE  IInv'
<1> DEFINE d == [pc[id] EXCEPT !.bev = "open", !.ev_read = TRUE]
           v == [local[id] EXCEPT !.open = TRUE]
<1>1. pc[id].live /\ pc[id] \in Client /\ local[id] \in Service
  BY BevLive DEF LocalConnected, IInv, TypeOK
<1>2. /\ pc' = [pc EXCEPT ![id] = d] /\ local' = [local EXCEPT ![id] = v]
      /\ UNCHANGED <<next_id, to_frps, to_client, frps, session_err, misparsed>>
  BY DEF LocalConnected
<1>3. d \in Client /\ d.state = pc[id].state
  BY <1>1 DEF Client
<1>4. d.live <=> pc[id].live
  BY <1>1 DEF Client
<1>5. Credit(pc[id]) => Credit(d)
  BY <1>1 DEF Client, Credit
<1>6. v \in Service
  BY <1>1 DEF Service
<1> HIDE DEF d, v
<1>7. ClientInv'
  BY <1>1, <1>2, <1>3, <1>4, <1>5, SilentStep
<1> QED
  BY <1>2, <1>6, <1>7 DEF IInv, TypeOK, ClientInv

\* So does a failed one, through handle_proxy_disconnect.
LEMMA LocalConnectFailedStep ==
    ASSUME IInv, NEW id \in Ids, LocalConnectFailed(id)
    PROVE  IInv'
<1>1. pc[id].live /\ pc[id] \in Client
  BY BevLive DEF LocalConnectFailed
<1>2. ResultOK(id, pc[id], Disconnect(id, pc[id]))
  BY <1>1, DisconnectLemma
<1>3. ClientInv'
  BY <1>1, <1>2, ClientStep DEF LocalConnectFailed
<1> QED
  BY <1>3 DEF LocalConnectFailed, IInv, TypeOK, ClientInv

\* tcp_proxy_c2s_cb preserves the invariant.
LEMMA LocalReadStep ==
    ASSUME IInv, NEW id \in Ids, LocalRead(id)
    PROVE  IInv'
<1>1. pc[id].live /\ pc[id] \in Client /\ local[id] \in Service
  BY BevLive DEF LocalRead, IInv, TypeOK
<1>2. PICK n \in 1 .. Len(local[id].sock) :
         /\ Finish(id, C2S(id, [pc[id] EXCEPT !.input = @ \o SubSeq(local[id].sock, 1, n)]))
         /\ local' = [local EXCEPT ![id].sock = Drain(@, n), ![id].read = @ + n]
  BY DEF LocalRead
<1> DEFINE b == SubSeq(local[id].sock, 1, n)
           c == [pc[id] EXCEPT !.input = @ \o b]
           v == [local[id] EXCEPT !.sock = Drain(@, n), !.read = @ + n]
<1>3. b \in Seq(Int) /\ v \in Service
  <2>1. Len(local[id].sock) \in Nat
    BY <1>1, LenProperties DEF Service
  <2>2. n \in 0 .. Len(local[id].sock) /\ <<>> \in Seq(Int)
    BY <2>1, EmptySeq
  <2> QED
    BY <1>1, <2>2, ServiceLemma
<1>4. local' = [local EXCEPT ![id] = v]
  BY <1>2
<1> HIDE DEF b, v
<1>5. c \in Client /\ (c.live <=> pc[id].live) /\ (Credit(pc[id]) => Credit(c))
      /\ c.state = pc[id].state
  BY <1>1, <1>3, InputLemma
<1>6. Finish(id, C2S(id, c))
  BY <1>2 DEF b
<1> HIDE DEF c
<1>7. ResultOK(id, c, C2S(id, c))
  BY <1>1, <1>5, C2SLemma
<1>8. ClientInv'
  BY <1>1, <1>5, <1>6, <1>7, ClientStep DEF LocalRead
<1> QED
  BY <1>3, <1>4, <1>8 DEF LocalRead, IInv, TypeOK, ClientInv

\* The end of the local connection preserves the invariant.
LEMMA LocalEofStep ==
    ASSUME IInv, NEW id \in Ids, LocalEof(id)
    PROVE  IInv'
<1> DEFINE b == local[id].sock
           c == [pc[id] EXCEPT !.input = @ \o b]
           v == [local[id] EXCEPT !.sock = <<>>, !.read = @ + Len(b)]
<1>1. pc[id].live /\ pc[id] \in Client /\ local[id] \in Service
  BY BevLive DEF LocalEof, IInv, TypeOK
<1>2. Finish(id, Disconnect(id, c)) /\ local' = [local EXCEPT ![id] = v]
      /\ UNCHANGED <<next_id, to_client, frps, session_err, misparsed>>
  BY DEF LocalEof
<1>3. b \in Seq(Int) /\ v \in Service
  <2>1. b \in Seq(Int) /\ local[id].read \in Nat
    BY <1>1 DEF Service
  <2>2. local[id].read + Len(b) \in Nat /\ <<>> \in Seq(Int)
    BY <2>1, LenProperties, EmptySeq
  <2> QED
    BY <1>1, <2>1, <2>2 DEF Service
<1> HIDE DEF b, v
<1>4. c \in Client /\ (c.live <=> pc[id].live) /\ (Credit(pc[id]) => Credit(c))
      /\ c.state = pc[id].state
  BY <1>1, <1>3, InputLemma
<1> HIDE DEF c
<1>5. ResultOK(id, c, Disconnect(id, c))
  BY <1>1, <1>4, DisconnectLemma
<1>6. ClientInv'
  BY <1>1, <1>2, <1>4, <1>5, ClientStep
<1> QED
  BY <1>2, <1>3, <1>6 DEF IInv, TypeOK, ClientInv

\* Flushing the local output preserves the invariant.
LEMMA LocalFlushStep ==
    ASSUME IInv, NEW id \in Ids, LocalFlush(id)
    PROVE  IInv'
<1>1. pc[id].live /\ pc[id] \in Client /\ local[id] \in Service
  BY BevLive DEF LocalFlush, IInv, TypeOK
<1>2. PICK n \in 1 .. Len(pc[id].output) :
         /\ pc' = [pc EXCEPT ![id].output = Drain(@, n)]
         /\ local' = [local EXCEPT ![id].rcvd = @ \o SubSeq(pc[id].output, 1, n)]
  BY DEF LocalFlush
<1> DEFINE o == pc[id].output
           b == SubSeq(o, 1, n)
           d == [pc[id] EXCEPT !.output = Drain(o, n)]
           v == [local[id] EXCEPT !.rcvd = @ \o b]
<1>3. o \in Seq(Int) /\ Len(o) \in Nat /\ \A i \in 1 .. Len(o) : o[i] \in Int
  <2>1. o \in Seq(Int)
    BY <1>1 DEF Client
  <2> QED
    BY <2>1, LenProperties
<1>4. b \in Seq(Int) /\ Drain(o, n) \in Seq(Int)
  <2>1. (\A i \in 1 .. n : o[i] \in Int) /\ (\A i \in n + 1 .. Len(o) : o[i] \in Int)
    BY <1>3
  <2> HIDE DEF o
  <2> QED
    BY <1>2, <1>3, <2>1, SubSeqProperties DEF Drain
<1>5. pc' = [pc EXCEPT ![id] = d] /\ local' = [local EXCEPT ![id] = v]
  BY <1>2
<1> HIDE DEF b
<1>6. v \in Service
  <2>1. local[id].rcvd \o b \in Seq(Int)
    <3>1. local[id].rcvd \in Seq(Int)
      BY <1>1 DEF Service
    <3> QED
      BY <1>4, <3>1, ConcatProperties
  <2> QED
    BY <1>1, <2>1 DEF Service
<1>7. d \in Client /\ d.state = pc[id].state
  BY <1>1, <1>4 DEF Client
<1>8. d.live <=> pc[id].live
  BY <1>1 DEF Client
<1>9. Credit(pc[id]) => Credit(d)
  BY <1>1 DEF Client, Credit
<1> HIDE DEF d, v
<1>10. ClientInv'
  BY <1>1, <1>5, <1>7, <1>8, <1>9, SilentStep DEF LocalFlush
<1> QED
  BY <1>5, <1>6, <1>10 DEF LocalFlush, IInv, TypeOK, ClientInv

\* A write error on the local connection preserves the invariant.
LEMMA LocalFlushFailedStep ==
    ASSUME IInv, NEW id \in Ids, LocalFlushFailed(id)
    PROVE  IInv'
<1> DEFINE v == [local[id] EXCEPT !.sock = <<>>]
<1>1. pc[id].live /\ pc[id] \in Client /\ local[id] \in Service
  BY BevLive DEF LocalFlushFailed, IInv, TypeOK
<1>2. ResultOK(id, pc[id], Disconnect(id, pc[id]))
  BY <1>1, DisconnectLemma
<1>3. ClientInv'
  BY <1>1, <1>2, ClientStep DEF LocalFlushFailed
<1>4. local' = [local EXCEPT ![id] = v] /\ v \in Service
  BY <1>1, EmptySeq DEF LocalFlushFailed, Service
<1> HIDE DEF v
<1> QED
  BY <1>3, <1>4 DEF LocalFlushFailed, IInv, TypeOK, ClientInv

-----------------------------------------------------------------------------
(* The local service and frps *)

\* Steps of the local service preserve the invariant.
LEMMA ServiceStep ==
    ASSUME IInv, NEW id \in Ids, SvcWrite(id) \/ SvcClose(id)
    PROVE  IInv'
<1>1. /\ UNCHANGED <<next_id, pc, to_frps, to_client, frps, session_err, misparsed>>
      /\ local[id] \in Service
  BY DEF SvcWrite, SvcClose, IInv, TypeOK
<1>2. local' \in [Ids -> Service]
  <2>1. CASE SvcWrite(id)
    <3> DEFINE n == local[id].wrote + 1
               q == Append(local[id].sock, n)
               v == [local[id] EXCEPT !.wrote = n, !.sock = q]
    <3>1. n \in Nat
      BY <1>1 DEF Service
    <3>2. q \in Seq(Int)
      <4>1. local[id].sock \in Seq(Int)
        BY <1>1 DEF Service
      <4> QED
        BY <3>1, <4>1, AppendProperties
    <3>3. local' = [local EXCEPT ![id] = v]
      BY <2>1 DEF SvcWrite
    <3> HIDE DEF n, q
    <3>4. v \in Service
      BY <1>1, <3>1, <3>2 DEF Service
    <3> HIDE DEF v
    <3> QED
      BY <3>3, <3>4 DEF IInv, TypeOK
  <2>2. CASE SvcClose(id)
    <3> DEFINE v == [local[id] EXCEPT !.open = FALSE]
    <3>1. local' = [local EXCEPT ![id] = v] /\ v \in Service
      BY <1>1, <2>2 DEF SvcClose, Service
    <3> HIDE DEF v
    <3> QED
      BY <3>1 DEF IInv, TypeOK
  <2> QED
    BY <2>1, <2>2
<1>3. ClientInv'
  BY <1>1 DEF IInv, ClientInv, FlowControl, NoDataAfterFin, FinSent
<1> QED
  BY <1>1, <1>2, <1>3 DEF IInv, TypeOK

\* What frps does with a frame.
LEMMA FrpsHandleLemma ==
    ASSUME NEW p \in Stream, NEW f \in Frame, p.recv_window <= MaxYamuxWindow
    PROVE  LET r == FrpsHandle(p, f)
           IN  /\ r.p \in Stream /\ r.p.recv_window <= MaxYamuxWindow
               /\ r.out \in Seq(Frame)
               /\ r.err \in {"none", "window", "fin", "go_away"}
               /\ r.p.fin => p.fin \/ IsFin(f)
<1> DEFINE r == FrpsHandle(p, f)
<1>1. /\ f.id \in Ids /\ f.flags \in SUBSET Flags /\ f.inc \in Nat /\ f.data \in Seq(Int)
      /\ p.recv_window \in Nat /\ p.send_window \in Nat /\ p.unread \in Nat
      /\ p.up \in Seq(Int) /\ p.state \in StreamStates /\ MaxYamuxWindow \in Nat
  BY WindowAssumption DEF Frame, Stream
<1>2. /\ Len(f.data) \in Nat /\ <<>> \in Seq(Frame) /\ p.up \o f.data \in Seq(Int)
  BY <1>1, LenProperties, EmptySeq, ConcatProperties
<1>3. \/ r.err \in {"none", "window", "fin", "go_away"} /\ r = FrpsRefuse(p, r.err)
      \/ r = FrpsAccept(f.id, p)
      \/ Len(f.data) <= p.recv_window /\ r = FrpsData(p, f.data)
      \/ r = FrpsUpdate(p, f)
  <2>1. \/ r \in {FrpsRefuse(p, "none"), FrpsRefuse(p, "window"), FrpsRefuse(p, "fin"),
                  FrpsRefuse(p, "go_away")}
        \/ r = FrpsAccept(f.id, p)
        \/ Len(f.data) <= p.recv_window /\ r = FrpsData(p, f.data)
        \/ r = FrpsUpdate(p, f)
    BY <1>1, <1>2 DEF FrpsHandle
  <2>2. \A e : FrpsRefuse(p, e).err = e
    BY DEF FrpsRefuse
  <2> QED
    BY <2>1, <2>2
<1> HIDE DEF r
<1>4. CASE r.err \in {"none", "window", "fin", "go_away"} /\ r = FrpsRefuse(p, r.err)
  <2>1. r.p = p /\ r.out = <<>>
    BY <1>4 DEF FrpsRefuse
  <2> QED
    BY <1>2, <1>4, <2>1 DEF r
<1>5. CASE r = FrpsAccept(f.id, p)
  <2> DEFINE d == [p EXCEPT !.state = "ESTABLISHED", !.recv_window = MaxYamuxWindow]
             inc == MaxYamuxWindow - p.recv_window
             q == <<WindowUpdate(f.id, {"ACK"}, inc)>>
  <2>1. r.p = d /\ r.out = q /\ r.err = "none"
    BY <1>5 DEF FrpsAccept
  <2>2. d \in Stream /\ d.recv_window = MaxYamuxWindow
    BY <1>1 DEF Stream, StreamStates
  <2>3. d.fin <=> p.fin
    BY DEF Stream
  <2>4. inc \in Nat
    BY <1>1
  <2> HIDE DEF inc
  <2>5. q \in Seq(Frame)
    BY <1>1, <2>4, WindowUpdateLemma DEF Flags
  <2> HIDE DEF d, q
  <2> QED
    BY <1>1, <2>1, <2>2, <2>3, <2>5 DEF r
<1>6. CASE Len(f.data) <= p.recv_window /\ r = FrpsData(p, f.data)
  <2> DEFINE wk == p.work \/ f.data = <<0>>
             u == IF f.data = <<0>> THEN p.up ELSE p.up \o f.data
             m == p.recv_window - Len(f.data)
             k == p.unread + Len(f.data)
             d == [p EXCEPT !.recv_window = m, !.unread = k, !.work = wk, !.up = u]
  <2>1. r.p = d /\ r.out = <<>> /\ r.err = "none"
    BY <1>6 DEF FrpsData
  <2>2. wk \in BOOLEAN
    OBVIOUS
  <2>3. m \in Nat /\ m <= MaxYamuxWindow /\ k \in Nat /\ u \in Seq(Int)
    BY <1>1, <1>2, <1>6
  <2> HIDE DEF wk, u, m, k
  <2>4. d \in Stream /\ d.recv_window = m
    BY <2>2, <2>3 DEF Stream
  <2>5. d.fin <=> p.fin
    BY DEF Stream
  <2> HIDE DEF d
  <2> QED
    BY <1>2, <2>1, <2>3, <2>4, <2>5 DEF r
<1>7. CASE r = FrpsUpdate(p, f)
  <2> DEFINE m == p.send_window + f.inc
             st == process_flags(f.flags, p.state).state
             fn == p.fin \/ "FIN" \in f.flags
             d == [p EXCEPT !.send_window = m, !.state = st, !.fin = fn]
  <2>1. r.p = d /\ r.out = <<>> /\ r.err = "none"
    BY <1>7 DEF FrpsUpdate
  <2>2. m \in Nat
    BY <1>1
  <2>3. st \in StreamStates
    <3> DEFINE a == f.flags
               b == p.state
    <3>1. a \in SUBSET Flags /\ b \in StreamStates /\ st = process_flags(a, b).state
      BY <1>1
    <3> HIDE DEF a, b, st
    <3> QED
      BY <3>1, ProcessFlagsLemma
  <2>4. fn \in BOOLEAN /\ (fn => p.fin \/ IsFin(f))
    BY DEF IsFin
  <2> HIDE DEF m, st, fn
  <2>5. d \in Stream /\ d.recv_window = p.recv_window
    BY <2>2, <2>3, <2>4 DEF Stream
  <2>6. d.fin <=> fn
    BY DEF Stream
  <2> HIDE DEF d
  <2> QED
    BY <1>2, <2>1, <2>4, <2>5, <2>6 DEF r
<1> QED
  BY <1>3, <1>4, <1>5, <1>6, <1>7

\* A frame that frps takes, and with it perhaps the FIN, only moves on what the
\* queue already held.
LEMMA FrpsRecvStep ==
    ASSUME IInv, FrpsRecv
    PROVE  IInv'
<1> DEFINE q == to_frps
           t == Tail(to_frps)
           f == Head(to_frps)
           i0 == f.id
           p == frps[i0]
           r == FrpsHandle(p, f)
<1>1. /\ q \in Seq(Frame) /\ q # <<>> /\ to_frps' = t
      /\ UNCHANGED <<next_id, pc, local, misparsed>>
  BY DEF FrpsRecv, IInv, TypeOK
<1>2. /\ Len(q) \in Nat /\ Len(q) >= 1 /\ f = q[1] /\ f \in Frame
      /\ t \in Seq(Frame) /\ Len(t) = Len(q) - 1
      /\ \A i \in 1 .. Len(t) : t[i] = q[i + 1]
  BY <1>1, HeadTailProperties, LenProperties, EmptySeq
<1>3. i0 \in Ids /\ p \in Stream /\ p.recv_window <= MaxYamuxWindow
  BY <1>2 DEF Frame, IInv, TypeOK
<1>4. /\ frps' = [frps EXCEPT ![i0] = r.p]
      /\ to_client' = to_client \o r.out
      /\ session_err' = r.err
  BY DEF FrpsRecv
<1> HIDE DEF q, t, f, i0, p
<1>5. /\ r.p \in Stream /\ r.p.recv_window <= MaxYamuxWindow
      /\ r.out \in Seq(Frame)
      /\ r.err \in {"none", "window", "fin", "go_away"}
      /\ r.p.fin => p.fin \/ IsFin(f)
  BY <1>2, <1>3, FrpsHandleLemma
<1> HIDE DEF r
<1>6. TypeOK'
  BY <1>1, <1>2, <1>3, <1>4, <1>5, ConcatProperties DEF IInv, TypeOK
<1>7. \A id \in Ids : frps'[id].recv_window <= MaxYamuxWindow
  BY <1>3, <1>4, <1>5 DEF IInv, TypeOK
<1>8. \A id \in Ids : frps'[id].fin => frps[id].fin \/ (id = f.id /\ IsFin(f))
  BY <1>3, <1>4, <1>5 DEF IInv, TypeOK, p, i0
<1>9. \A id \in Ids : FinSent(id)' => FinSent(id)
  <2> SUFFICES ASSUME NEW id \in Ids, FinSent(id)'
               PROVE  FinSent(id)
    OBVIOUS
  <2>1. CASE frps'[id].fin
    BY <1>2, <1>8, <2>1 DEF FinSent, q
  <2>2. CASE \E i \in 1 .. Len(t) : t[i].id = id /\ IsFin(t[i])
    <3>1. PICK i \in 1 .. Len(t) : t[i].id = id /\ IsFin(t[i])
      BY <2>2
    <3>2. i + 1 \in 1 .. Len(q) /\ q[i + 1].id = id /\ IsFin(q[i + 1])
      BY <1>2, <3>1
    <3> QED
      BY <3>2 DEF FinSent, q
  <2> QED
    BY <1>1, <2>1, <2>2 DEF FinSent
<1>10. NoDataAfterFin'
  <2> SUFFICES ASSUME NEW j \in 1 .. Len(t), t[j].type = "DATA"
               PROVE  /\ ~frps'[t[j].id].fin
                      /\ \A i \in 1 .. j - 1 : t[i].id = t[j].id => ~IsFin(t[i])
    BY <1>1 DEF NoDataAfterFin
  <2>1. j + 1 \in 1 .. Len(q) /\ t[j] = q[j + 1] /\ t[j].id \in Ids /\ j \in Int
    <3>1. j + 1 \in 1 .. Len(q) /\ t[j] = q[j + 1] /\ j \in Int
      BY <1>2
    <3>2. t[j] \in Frame
      BY <1>2, ElementOfSeq
    <3> QED
      BY <3>1, <3>2 DEF Frame
  <2>2. /\ ~frps[q[j + 1].id].fin
        /\ \A i \in 1 .. j : q[i].id = q[j + 1].id => ~IsFin(q[i])
    <3>1. \A k \in 1 .. Len(q) : q[k].type = "DATA" =>
             /\ ~frps[q[k].id].fin
             /\ \A i \in 1 .. k - 1 : q[i].id = q[k].id => ~IsFin(q[i])
      BY DEF IInv, ClientInv, NoDataAfterFin, q
    <3>2. (j + 1) - 1 = j
      BY <2>1
    <3> QED
      BY <2>1, <3>1, <3>2
  <2>3. 1 \in 1 .. j
    BY <2>1
  <2>4. ~frps'[t[j].id].fin
    BY <1>2, <1>8, <2>1, <2>2, <2>3
  <2>5. ASSUME NEW i \in 1 .. j - 1, t[i].id = t[j].id
        PROVE  ~IsFin(t[i])
    <3>1. i + 1 \in 1 .. j /\ t[i] = q[i + 1]
      BY <1>2, <2>1
    <3> QED
      BY <2>1, <2>2, <2>5, <3>1
  <2> QED
    BY <2>4, <2>5
<1>11. ClientInv'
  <2>1. UNCHANGED <<pc, next_id>> /\ (to_frps \in Seq(Frame))'
    BY <1>1, <1>2
  <2>2. FlowControl'
    BY <2>1 DEF IInv, ClientInv, FlowControl
  <2>3. \A id \in Ids : FinSent(id)' => Shut(pc'[id])
    BY <1>9, <2>1 DEF IInv, ClientInv
  <2> QED
    BY <1>9, <1>10, <2>1, <2>2, <2>3 DEF IInv, ClientInv
<1> QED
  BY <1>6, <1>7, <1>11 DEF IInv

\* The other steps of frps change one stream, not its fin, and may send one
\* frame.
LEMMA FrpsQuietStep ==
    ASSUME IInv, NEW id \in Ids, NEW p \in Stream, p.fin <=> frps[id].fin,
           p.recv_window <= MaxYamuxWindow,
           frps' = [frps EXCEPT ![id] = p], to_client' \in Seq(Frame),
           UNCHANGED <<next_id, pc, to_frps, local, session_err, misparsed>>
    PROVE  IInv'
<1>1. \A k \in Ids : (frps'[k].fin <=> frps[k].fin) /\ frps'[k].recv_window <= MaxYamuxWindow
  BY DEF IInv, TypeOK
<1>2. TypeOK'
  BY DEF IInv, TypeOK
<1>3. \A k \in Ids : FinSent(k)' <=> FinSent(k)
  BY <1>1 DEF FinSent
<1>4. NoDataAfterFin'
  <2>1. \A j \in 1 .. Len(to_frps) : to_frps[j] \in Frame
    BY ElementOfSeq DEF IInv, TypeOK
  <2>2. \A j \in 1 .. Len(to_frps) : to_frps[j].id \in Ids
    BY <2>1 DEF Frame
  <2> QED
    BY <1>1, <2>2 DEF IInv, ClientInv, NoDataAfterFin
<1>5. ClientInv'
  <2>1. FlowControl' /\ pc' \in [Ids -> Client] /\ to_frps' \in Seq(Frame)
    BY DEF IInv, ClientInv, FlowControl
  <2>2. \A k \in Ids : FinSent(k)' => Shut(pc'[k])
    BY <1>3 DEF IInv, ClientInv
  <2> QED
    BY <1>3, <1>4, <2>1, <2>2 DEF IInv, ClientInv
<1> QED
  BY <1>1, <1>2, <1>5 DEF IInv

\* Returning credit preserves the invariant.
LEMMA FrpsReadStep ==
    ASSUME IInv, NEW id \in Ids, FrpsRead(id)
    PROVE  IInv'
<1>1. PICK n \in 1 .. frps[id].unread :
        LET p     == [frps[id] EXCEPT !.unread = @ - n]
            delta == MaxYamuxWindow - p.unread - p.recv_window
        IN  IF delta < MaxYamuxWindow \div 2
            THEN frps' = [frps EXCEPT ![id] = p] /\ UNCHANGED to_client
            ELSE /\ frps' = [frps EXCEPT ![id] = [p EXCEPT !.recv_window = @ + delta]]
                 /\ to_client' = Append(to_client, WindowUpdate(id, {}, delta))
  BY DEF FrpsRead
<1> DEFINE m == frps[id].unread - n
           p == [frps[id] EXCEPT !.unread = m]
           delta == MaxYamuxWindow - m - p.recv_window
           w == p.recv_window + delta
           d == [p EXCEPT !.recv_window = w]
<1>2. /\ frps[id] \in Stream /\ to_client \in Seq(Frame) /\ MaxYamuxWindow \in Nat
      /\ frps[id].recv_window <= MaxYamuxWindow
      /\ UNCHANGED <<next_id, pc, to_frps, local, session_err, misparsed>>
  BY WindowAssumption DEF FrpsRead, IInv, TypeOK
<1>3. frps[id].unread \in Nat /\ frps[id].recv_window \in Nat
  BY <1>2 DEF Stream
<1>4. m \in Nat
  BY <1>3
<1>5. IF delta < MaxYamuxWindow \div 2
      THEN frps' = [frps EXCEPT ![id] = p] /\ UNCHANGED to_client
      ELSE /\ frps' = [frps EXCEPT ![id] = d]
           /\ to_client' = Append(to_client, WindowUpdate(id, {}, delta))
  <2>1. p.unread = m
    BY <1>2 DEF Stream
  <2> QED
    BY <1>1, <2>1
<1> HIDE DEF m
<1>6. p \in Stream /\ p.recv_window = frps[id].recv_window /\ (p.fin <=> frps[id].fin)
  BY <1>2, <1>4 DEF Stream
<1> HIDE DEF p
<1>7. CASE delta < MaxYamuxWindow \div 2
  BY <1>2, <1>5, <1>6, <1>7, FrpsQuietStep
<1>8. CASE ~(delta < MaxYamuxWindow \div 2)
  <2>1. delta \in Nat /\ w \in Nat /\ w <= MaxYamuxWindow
    <3>1. MaxYamuxWindow \div 2 \in Nat
      BY <1>2
    <3>2. delta \in Int
      BY <1>2, <1>3, <1>4, <1>6
    <3>3. delta \in Nat
      BY <1>8, <3>1, <3>2
    <3> QED
      BY <1>2, <1>3, <1>4, <1>6, <3>3
  <2> HIDE DEF w
  <2>2. d \in Stream /\ d.recv_window = w /\ (d.fin <=> p.fin)
    BY <1>6, <2>1 DEF Stream
  <2> HIDE DEF d, delta
  <2>3. WindowUpdate(id, {}, delta) \in Frame
    BY <2>1, EmptySeq DEF WindowUpdate, Frame
  <2>4. to_client' \in Seq(Frame)
    BY <1>2, <1>5, <1>8, <2>3, AppendProperties
  <2> QED
    BY <1>2, <1>5, <1>6, <1>8, <2>1, <2>2, <2>4, FrpsQuietStep
<1> QED
  BY <1>7, <1>8

\* Data of the remote user preserves the invariant.
LEMMA FrpsSendStep ==
    ASSUME IInv, NEW id \in Ids, FrpsSend(id)
    PROVE  IInv'
<1> DEFINE p == frps[id]
<1>1. PICK n \in 1 .. Least(p.send_window, MaxDown + 1 - p.down) :
        /\ to_client' = Append(to_client,
                               Data(id, {}, Crypt([i \in 1 .. n |-> p.down + i - 1])))
        /\ frps' = [frps EXCEPT ![id].down = @ + n, ![id].send_window = @ - n]
  BY DEF FrpsSend
<1>2. /\ p \in Stream /\ to_client \in Seq(Frame)
      /\ p.recv_window <= MaxYamuxWindow
      /\ UNCHANGED <<next_id, pc, to_frps, local, session_err, misparsed>>
  BY DEF FrpsSend, IInv, TypeOK
<1>3. p.down \in Nat /\ p.send_window \in Nat /\ MaxDown \in Nat
  BY <1>2, TunnelAssumption DEF Stream
<1>4. n \in Nat /\ n <= p.send_window
  BY <1>1, <1>3 DEF Least
<1> DEFINE a == p.down + n
           b == p.send_window - n
           d == [p EXCEPT !.down = a, !.send_window = b]
           bytes == [i \in 1 .. n |-> p.down + i - 1]
           data == Crypt(bytes)
<1>5. frps' = [frps EXCEPT ![id] = d]
  BY <1>1, <1>2 DEF IInv, TypeOK
<1>6. a \in Nat /\ b \in Nat
  BY <1>3, <1>4
<1>7. bytes \in Seq(Int)
  <2>1. \A i \in 1 .. n : p.down + i - 1 \in Int
    BY <1>3, <1>4
  <2> QED
    BY <1>4, <2>1, IsASeq
<1> HIDE DEF p, a, b, bytes
<1>8. data \in Seq(Int)
  BY <1>7, CryptLemma
<1>9. d \in Stream /\ d.recv_window = p.recv_window /\ (d.fin <=> p.fin)
  BY <1>2, <1>6 DEF Stream
<1>10. to_client' = Append(to_client, Data(id, {}, data))
  BY <1>1 DEF bytes
<1> HIDE DEF d, data
<1>11. Data(id, {}, data) \in Frame
  BY <1>8 DEF Data, Frame
<1>12. to_client' \in Seq(Frame)
  BY <1>2, <1>10, <1>11, AppendProperties
<1>13. d.fin <=> frps[id].fin
  BY <1>9 DEF p
<1> QED
  BY <1>2, <1>5, <1>9, <1>12, <1>13, FrpsQuietStep

\* A close or a reset by frps preserves the invariant.
LEMMA FrpsCloseStep ==
    ASSUME IInv, NEW id \in Ids, FrpsClose(id) \/ FrpsCloseTimeout(id)
    PROVE  IInv'
<1>1. /\ frps[id] \in Stream /\ to_client \in Seq(Frame)
      /\ frps[id].recv_window <= MaxYamuxWindow
      /\ UNCHANGED <<next_id, pc, to_frps, local, session_err, misparsed>>
  BY DEF FrpsClose, FrpsCloseTimeout, IInv, TypeOK
<1>2. PICK st \in StreamStates, flag \in Flags :
        /\ frps' = [frps EXCEPT ![id].state = st]
        /\ to_client' = Append(to_client, WindowUpdate(id, {flag}, 0))
  <2>1. CASE FrpsClose(id)
    <3>1. AfterClose(frps[id].state) \in StreamStates
      BY <1>1 DEF Stream, StreamStates, AfterClose
    <3>2. frps' = [frps EXCEPT ![id].state = AfterClose(frps[id].state)]
      BY <2>1 DEF FrpsClose
    <3> QED
      BY <2>1, <3>1, <3>2 DEF FrpsClose, Flags
  <2>2. CASE FrpsCloseTimeout(id)
    BY <2>2 DEF FrpsCloseTimeout, Flags, StreamStates
  <2> QED
    BY <2>1, <2>2
<1> DEFINE d == [frps[id] EXCEPT !.state = st]
<1>3. /\ d \in Stream /\ d.recv_window = frps[id].recv_window
      /\ (d.fin <=> frps[id].fin)
  BY <1>1 DEF Stream
<1>4. frps' = [frps EXCEPT ![id] = d]
  BY <1>2 DEF IInv, TypeOK
<1> HIDE DEF d
<1>5. WindowUpdate(id, {flag}, 0) \in Frame
  BY EmptySeq DEF WindowUpdate, Frame
<1>6. to_client' \in Seq(Frame)
  BY <1>1, <1>2, <1>5, AppendProperties
<1> QED
  BY <1>1, <1>3, <1>4, <1>6, FrpsQuietStep

-----------------------------------------------------------------------------
(* The theorems *)

\* The invariant holds at the start.
LEMMA InitInv == Init => IInv
<1> SUFFICES ASSUME Init
             PROVE  IInv
  OBVIOUS
<1>1. /\ Deleted \in Client /\ ~Deleted.live /\ Deleted.bev = "none"
  BY DeletedLemma
<1>2. NoService \in Service
  BY EmptySeq DEF NoService, Service
<1>3. NoStream \in Stream /\ NoStream.recv_window <= MaxYamuxWindow /\ ~NoStream.fin
  BY EmptySeq, WindowAssumption DEF NoStream, Stream, StreamStates
<1>4. TypeOK
  BY <1>1, <1>2, <1>3, EmptySeq, TunnelAssumption DEF Init, TypeOK
<1>5. Len(to_frps) = 0
  BY DEF Init
<1>6. \A id \in Ids : ~FinSent(id) /\ pc[id] = Deleted
  BY <1>3, <1>5 DEF Init, FinSent
<1>7. ClientInv
  <2>1. FlowControl
    BY <1>1, <1>6 DEF FlowControl
  <2>2. NoDataAfterFin
    BY <1>5 DEF NoDataAfterFin
  <2> QED
    BY <1>1, <1>4, <1>6, <2>1, <2>2 DEF ClientInv, TypeOK
<1>8. \A id \in Ids : frps[id].recv_window <= MaxYamuxWindow
  BY <1>3 DEF Init
<1> QED
  BY <1>4, <1>7, <1>8 DEF IInv

\* and every step preserves it.
LEMMA NextInv == IInv /\ [Next]_vars => IInv'
<1> SUFFICES ASSUME IInv, [Next]_vars
             PROVE  IInv'
  OBVIOUS
<1>1. CASE NewWorkConn
  BY <1>1, NewWorkConnStep
<1>2. CASE RecvUnknown
  BY <1>2, RecvUnknownStep
<1>3. CASE RecvWindowUpdate
  BY <1>3, RecvWindowUpdateStep
<1>4. CASE RecvData
  BY <1>4, RecvDataStep
<1>5. CASE FrpsRecv
  BY <1>5, FrpsRecvStep
<1>6. ASSUME NEW id \in Ids, LocalStep(id)
      PROVE  IInv'
  BY <1>6, LocalConnectedStep, LocalConnectFailedStep, LocalReadStep, LocalEofStep,
     LocalFlushStep, LocalFlushFailedStep DEF LocalStep
<1>7. ASSUME NEW id \in Ids, SvcWrite(id) \/ SvcClose(id)
      PROVE  IInv'
  BY <1>7, ServiceStep
<1>8. ASSUME NEW id \in Ids,
             FrpsRead(id) \/ FrpsSend(id) \/ FrpsClose(id) \/ FrpsCloseTimeout(id)
      PROVE  IInv'
  BY <1>8, FrpsReadStep, FrpsSendStep, FrpsCloseStep
<1>9. CASE UNCHANGED vars
  BY <1>9 DEF vars, IInv, TypeOK, ClientInv, FlowControl, NoDataAfterFin, FinSent
<1> QED
  BY <1>1, <1>2, <1>3, <1>4, <1>5, <1>6, <1>7, <1>8, <1>9 DEF Next, Recv

\* So it holds in every reachable state.
LEMMA Inductive == Spec => []IInv
  BY InitInv, NextInv, PTL DEF Spec

\* For any number of clients and any windows, every variable keeps its type:
\* no handler of xfrpc drives a window below zero.
THEOREM TypeCorrect == Spec => []TypeOK
<1>1. IInv => TypeOK
  BY DEF IInv
<1> QED
  BY <1>1, Inductive, PTL

\* For any number of clients and any windows, no stream carries more bytes than
\* frps granted credit for, and no send window exceeds the cap of
\* incr_send_window.
THEOREM FlowControlHolds == Spec => []FlowControl
<1>1. IInv => FlowControl
  BY DEF IInv, ClientInv
<1> QED
  BY <1>1, Inductive, PTL

\* For any number of clients and any windows, no DATA frame follows the FIN of
\* its stream: neither a late read of the local socket, nor the flush of
\* handle_proxy_disconnect, nor a deferred close can put one there.
THEOREM NoDataAfterFinHolds == Spec => []NoDataAfterFin
<1>1. IInv => NoDataAfterFin
  BY DEF IInv, ClientInv
<1> QED
  BY <1>1, Inductive, PTL
=============================================================================
