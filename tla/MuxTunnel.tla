----------------------------- MODULE MuxTunnel ------------------------------
(***************************************************************************)
(* A work connection carried by tcp_mux: the proxy client of xfrpc         *)
(* (src/client.c, src/proxy_tcp.c) with its stream (src/tcpmux.c), the     *)
(* local service it bridges to, and the frps end of the mux session.       *)
(*                                                                         *)
(* A byte of the proxied connection is its number, 1, 2, 3 ... in each     *)
(* direction; -n is the ciphertext of byte n; 0 is a whole frp message     *)
(* (NewWorkConn upwards, StartWorkConn downwards), one unit of window.     *)
(*                                                                         *)
(* xfrpc handles one event at a time on its loop task, so every handler is *)
(* one action.  A handler is an operator from the client's record to the   *)
(* new record "c" and the frames "out" it queues for frps.                 *)
(***************************************************************************)
EXTENDS Tmux

CONSTANTS
    MaxClients,  \* bound: proxy clients created in a behaviour
    MaxUp,       \* bound: bytes each local service writes
    MaxDown,     \* bound: bytes the remote user sends on each connection
    Encrypt      \* ps->use_encryption of the proxy

ASSUME TunnelAssumption ==
    /\ MaxClients \in Nat
    /\ MaxUp \in Nat
    /\ MaxDown \in Nat
    /\ Encrypt \in BOOLEAN

\* The i-th proxy client; its session id is 2i + 1 (get_next_session_id).
Ids == 1 .. MaxClients

VARIABLES
    next_id,      \* clients created so far (g_session_id)
    pc,           \* all_pc and all_stream: the proxy client of each id
    to_frps,      \* frames written to the control connection, in order
    to_client,    \* frames frps wrote, in order
    local,        \* the local services
    frps,         \* the frps end of each stream
    session_err,  \* why frps aborted the mux session, or "none"
    misparsed     \* clients whose tunnel bytes were parsed as frp messages

vars == <<next_id, pc, to_frps, to_client, local, frps, session_err, misparsed>>

-----------------------------------------------------------------------------
(* Frames *)

Frame == [type: {"DATA", "WINDOW_UPDATE", "GO_AWAY"}, id: Ids,
          flags: SUBSET Flags, inc: Nat, data: Seq(Int)]

WindowUpdate(id, flags, inc) ==
    [type |-> "WINDOW_UPDATE", id |-> id, flags |-> flags, inc |-> inc, data |-> <<>>]

Data(id, flags, data) ==
    [type |-> "DATA", id |-> id, flags |-> flags, inc |-> 0, data |-> data]

GoAway(id) ==
    [type |-> "GO_AWAY", id |-> id, flags |-> {}, inc |-> 0, data |-> <<>>]

-----------------------------------------------------------------------------
(* The proxy client.  sent and granted are history: DATA bytes written to  *)
(* the stream, and the credit received for it.                             *)

Client == [live: BOOLEAN, state: StreamStates, send_window: Nat, recv_window: Nat,
           started: BOOLEAN, pending_close: BOOLEAN,
           bev: {"none", "connecting", "open"}, ev_read: BOOLEAN,
           input: Seq(Int), enc_pending: Seq(Int), output: Seq(Int),
           sent: Nat, granted: Nat]

\* new_proxy_client / init_tmux_stream
NewClient ==
    [live |-> TRUE, state |-> "INIT", send_window |-> InitialSendWindow,
     recv_window |-> MaxStreamWindow, started |-> FALSE, pending_close |-> FALSE,
     bev |-> "none", ev_read |-> FALSE, input |-> <<>>, enc_pending |-> <<>>,
     output |-> <<>>, sent |-> 0, granted |-> InitialSendWindow]

\* del_proxy_client_by_stream_id: stream and client leave their tables, the
\* local bufferevent and all buffers are freed.
Deleted == [NewClient EXCEPT !.live = FALSE]

\* evbuffer_drain.  Mutation: one byte too few.
MutDrain(buf, n) == SubSeq(buf, IF n = 0 THEN 1 ELSE n, Len(buf))

Drain(buf, n) == SubSeq(buf, n + 1, Len(buf))

(* tmux_stream_write, called until the buffer is empty or the call returns *)
(* 0 or an error: one frame of at most MaxFrame bytes per call.            *)
FrameCount(n) == (n + MaxFrame - 1) \div MaxFrame

DataFrames(id, flags, bytes) ==
    [i \in 1 .. FrameCount(Len(bytes)) |->
        Data(id, IF i = 1 THEN flags ELSE {},
             SubSeq(bytes, (i - 1) * MaxFrame + 1, Least(i * MaxFrame, Len(bytes))))]

Write(id, c, buf) ==
    LET n == Writable(c.state, c.send_window, Len(buf))
    IN  [c    |-> [c EXCEPT !.state = IF n > 0 THEN AfterSend(@) ELSE @,
                            !.send_window = @ - n,
                            !.sent = @ + n],
         rest |-> Drain(buf, n),
         out  |-> DataFrames(id, get_send_flags(c.state), SubSeq(buf, 1, n))]

\* send_window_update.  Mutation: the receive window is not restored.
MutSendWindowUpdate(id, c, length) ==
    [c   |-> [c EXCEPT !.state = AfterSend(@)],
     out |-> <<WindowUpdate(id, get_send_flags(c.state), MaxStreamWindow - c.recv_window)>>]

SendWindowUpdate(id, c, length) ==
    LET delta == MaxStreamWindow - c.recv_window
        flags == get_send_flags(c.state)
        d     == [c EXCEPT !.state = AfterSend(@)]
    IN  IF length = 0
        THEN [c |-> d, out |-> IF flags = {} THEN <<>> ELSE <<WindowUpdate(id, flags, 0)>>]
        ELSE IF delta <= 0 THEN [c |-> c, out |-> <<>>]
        ELSE [c   |-> [d EXCEPT !.recv_window = MaxStreamWindow],
              out |-> <<WindowUpdate(id, flags, delta)>>]

\* tmux_stream_close
StreamClose(id, c) ==
    IF CloseIgnored(c.state) THEN [c |-> c, out |-> <<>>]
    ELSE [c   |-> IF CloseDeletes(c.state) THEN Deleted
                  ELSE [c EXCEPT !.state = AfterClose(@)],
          out |-> <<WindowUpdate(id, {"FIN"}, 0)>>]

\* Mutation: the stream is closed before the rest of the input is written.
MutDisconnect(id, c) ==
    LET w == Write(id, c, c.input)
        k == StreamClose(id, [w.c EXCEPT !.bev = "none", !.input = <<>>, !.output = <<>>])
    IN  [c |-> k.c, out |-> k.out \o w.out]

\* handle_proxy_disconnect: what is left in the local input is written as it
\* is, the local bufferevent is freed, and the FIN is sent or deferred.
Disconnect(id, c) ==
    LET w == Write(id, c, c.input)
        d == [w.c EXCEPT !.bev = "none", !.ev_read = FALSE, !.input = <<>>, !.output = <<>>]
        k == StreamClose(id, d)
    IN  IF d.send_window = 0
        THEN [c |-> [d EXCEPT !.pending_close = TRUE], out |-> w.out]
        ELSE [c |-> k.c, out |-> w.out \o k.out]

\* crypto_encode_evbuffer and proxy_crypto_decode_evbuffer: one byte out for
\* each byte in.  The IV and compression are not modelled.
Crypt(bytes) == IF Encrypt THEN [i \in DOMAIN bytes |-> -bytes[i]] ELSE bytes

\* tcp_proxy_c2s_cb: what it writes, and what it keeps of the rest when the
\* window is exhausted.  Mutations: the stash goes after the new bytes; the
\* rest is dropped.
MutC2SBuffer(c) == Crypt(c.input) \o c.enc_pending

C2SBuffer(c) == IF Encrypt THEN c.enc_pending \o Crypt(c.input) ELSE c.input

MutC2SKeep(c, rest) == [c EXCEPT !.input = <<>>]

C2SKeep(c, rest) ==
    IF Encrypt THEN [c EXCEPT !.input = <<>>, !.enc_pending = rest]
    ELSE [c EXCEPT !.input = rest]

C2S(id, c) ==
    LET w == Write(id, c, C2SBuffer(c))
        d == [w.c EXCEPT !.ev_read = @ /\ w.rest = <<>>]
    IN  IF c.input = <<>> THEN [c |-> c, out |-> <<>>]
        ELSE IF WriteRefused(c.state) THEN [c |-> Deleted, out |-> <<>>]
        ELSE [c |-> C2SKeep(d, w.rest), out |-> w.out]

\* incr_send_window sends the FIN that handle_proxy_disconnect put off.
\* Mutation: it does not.
MutDeferredClose(c) == FALSE

DeferredClose(c) == c.send_window > 0 /\ c.pending_close

\* handle_tcp_mux_stream / incr_send_window on a stream of the table
IncrSendWindowStep(id, c, f) ==
    LET p == process_flags(f.flags, c.state)
        d == [c EXCEPT !.state = p.state,
                       !.send_window = IncrSendWindow(@, f.inc),
                       !.granted = @ + f.inc]
    IN  CASE ~p.ok -> [c |-> [c EXCEPT !.state = p.state], out |-> <<GoAway(id)>>]
          [] p.ok /\ p.close -> [c |-> Deleted, out |-> <<>>]
          [] p.ok /\ ~p.close /\ ~IncrementValid(f.inc) ->
                [c |-> [c EXCEPT !.state = p.state], out |-> <<GoAway(id)>>]
          [] OTHER ->
                IF DeferredClose(d) THEN StreamClose(id, d)
                ELSE [c   |-> [d EXCEPT !.ev_read = @ \/ (/\ c.send_window = 0
                                                          /\ d.send_window > 0
                                                          /\ d.bev # "none")],
                      out |-> <<>>]

\* start_xfrp_tunnel / setup_local_connection: the connection to the local
\* service is under way, or it fails at once and the client is deleted.
StartTunnel(c) ==
    {[c EXCEPT !.started = TRUE, !.bev = "connecting", !.ev_read = TRUE], Deleted}

\* handle_type_start_work_conn does nothing more when the service is unknown or
\* outside its hours.
StartWorkConn(c) == {c} \cup StartTunnel(c)

\* process_data, once the flags are processed and the window has room.  After
\* a failed start the stream read by send_window_update is freed memory: the
\* update is sent or not.
ProcessData(id, c, f) ==
    LET n     == Len(f.data)
        d     == [c EXCEPT !.recv_window = @ - n]
        done(e) == SendWindowUpdate(id, e, n)
        start == {IF e.live THEN done(e) ELSE [c |-> e, out |-> <<>>] : e \in StartWorkConn(d)}
                 \cup {[c |-> Deleted, out |-> done(d).out]}
    IN  CASE c.bev # "none" -> {done([d EXCEPT !.output = @ \o Crypt(f.data)])}
          [] c.bev = "none" /\ f.data = <<0>> /\ ~c.started -> start
          [] OTHER -> {done(d)}

-----------------------------------------------------------------------------
(* Actions of xfrpc *)

Finish(id, r) ==
    /\ pc' = [pc EXCEPT ![id] = r.c]
    /\ to_frps' = to_frps \o r.out

\* ReqWorkConn arrives: new_client_connect, init_tcp_mux_client: SYN, then
\* the NewWorkConn message.
NewWorkConn ==
    /\ next_id < MaxClients
    /\ LET id == next_id + 1
           s  == SendWindowUpdate(id, NewClient, 0)
           w  == Write(id, s.c, <<0>>)
       IN  /\ next_id' = id
           /\ Finish(id, [c |-> w.c, out |-> s.out \o w.out])
    /\ UNCHANGED <<to_client, local, frps, session_err, misparsed>>

\* handle_tcp_mux takes the next whole frame.
RecvFrame ==
    /\ to_client # <<>>
    /\ to_client' = Tail(to_client)
    /\ UNCHANGED <<next_id, local, frps, session_err>>

\* A frame for a stream that is no longer in all_stream: ignored or drained.
RecvUnknown ==
    /\ RecvFrame
    /\ ~pc[Head(to_client).id].live
    /\ UNCHANGED <<pc, to_frps, misparsed>>

RecvWindowUpdate ==
    /\ RecvFrame
    /\ LET f == Head(to_client)
       IN  /\ f.type = "WINDOW_UPDATE"
           /\ pc[f.id].live
           /\ Finish(f.id, IncrSendWindowStep(f.id, pc[f.id], f))
    /\ UNCHANGED misparsed

\* process_data passes the bytes of a client with no local connection to
\* handle_frps_msg.  Mutation: those of a client still connecting too.
MutToParser(c, f) == c.bev # "open" /\ f.data # <<0>>

ToParser(c, f) == c.bev = "none" /\ f.data # <<0>>

\* process_data gives the frame up when its flags are refused, when they close
\* the stream, or when the receive window is exceeded; otherwise it delivers.
RecvData ==
    /\ RecvFrame
    /\ LET f == Head(to_client)
           c == pc[f.id]
           p == process_flags(f.flags, c.state)
           d == [c EXCEPT !.state = p.state]
       IN  /\ f.type = "DATA"
           /\ c.live
           /\ IF p.ok /\ ~p.close /\ Len(f.data) <= c.recv_window
              THEN /\ \E r \in ProcessData(f.id, d, f) : Finish(f.id, r)
                   /\ misparsed' = IF ToParser(c, f) THEN misparsed \cup {f.id} ELSE misparsed
              ELSE /\ Finish(f.id, [c |-> IF p.close THEN Deleted ELSE d, out |-> <<>>])
                   /\ UNCHANGED misparsed

\* bev_check_connect: BEV_EVENT_CONNECTED
LocalConnected(id) ==
    /\ pc[id].bev = "connecting"
    /\ pc' = [pc EXCEPT ![id].bev = "open", ![id].ev_read = TRUE]
    /\ local' = [local EXCEPT ![id].open = TRUE]
    /\ UNCHANGED <<next_id, to_frps, to_client, frps, session_err, misparsed>>

\* bev_check_connect: BEV_EVENT_ERROR, xfrp_proxy_event_cb
LocalConnectFailed(id) ==
    /\ pc[id].bev = "connecting"
    /\ Finish(id, Disconnect(id, pc[id]))
    /\ UNCHANGED <<next_id, to_client, local, frps, session_err, misparsed>>

\* bev_read_input reads some bytes and calls tcp_proxy_c2s_cb.
LocalRead(id) ==
    /\ pc[id].bev = "open" /\ pc[id].ev_read
    /\ \E n \in 1 .. Len(local[id].sock) :
         /\ Finish(id, C2S(id, [pc[id] EXCEPT !.input = @ \o SubSeq(local[id].sock, 1, n)]))
         /\ local' = [local EXCEPT ![id].sock = Drain(@, n),
                                   ![id].read = @ + n]
    /\ UNCHANGED <<next_id, to_client, frps, session_err, misparsed>>

\* bev_read_input meets the end of the stream: whatever it read before goes
\* into the input buffer, but only the event callback is called.
LocalEof(id) ==
    /\ pc[id].bev = "open" /\ pc[id].ev_read
    /\ ~local[id].open
    /\ Finish(id, Disconnect(id, [pc[id] EXCEPT !.input = @ \o local[id].sock]))
    /\ local' = [local EXCEPT ![id].sock = <<>>, ![id].read = @ + Len(local[id].sock)]
    /\ UNCHANGED <<next_id, to_client, frps, session_err, misparsed>>

\* bev_flush_output hands the output to the local service,
LocalFlush(id) ==
    /\ pc[id].bev = "open" /\ pc[id].output # <<>>
    /\ local[id].open
    /\ \E n \in 1 .. Len(pc[id].output) :
         /\ pc' = [pc EXCEPT ![id].output = Drain(@, n)]
         /\ local' = [local EXCEPT ![id].rcvd = @ \o SubSeq(pc[id].output, 1, n)]
    /\ UNCHANGED <<next_id, to_frps, to_client, frps, session_err, misparsed>>

\* or finds it gone: BEV_EVENT_ERROR; what was in the socket is lost.
LocalFlushFailed(id) ==
    /\ pc[id].bev = "open" /\ pc[id].output # <<>>
    /\ ~local[id].open
    /\ Finish(id, Disconnect(id, pc[id]))
    /\ local' = [local EXCEPT ![id].sock = <<>>]
    /\ UNCHANGED <<next_id, to_client, frps, session_err, misparsed>>

-----------------------------------------------------------------------------
(* The local service *)

SvcWrite(id) ==
    /\ pc[id].bev = "open" /\ local[id].open
    /\ local[id].wrote < MaxUp
    /\ local' = [local EXCEPT ![id].wrote = @ + 1,
                              ![id].sock = Append(@, local[id].wrote + 1)]
    /\ UNCHANGED <<next_id, pc, to_frps, to_client, frps, session_err, misparsed>>

SvcClose(id) ==
    /\ pc[id].bev = "open" /\ local[id].open
    /\ local' = [local EXCEPT ![id].open = FALSE]
    /\ UNCHANGED <<next_id, pc, to_frps, to_client, frps, session_err, misparsed>>

-----------------------------------------------------------------------------
(* The frps end: yamux with frps's MaxStreamWindowSize, and the server that *)
(* joins the stream to the remote user's connection.                        *)

FrpsOpen(p) == p.state \in {"ESTABLISHED", "REMOTE_CLOSE"}

\* Accepting a stream opens the receive window to its maximum at once.  The
\* result of a frame: the stream "p", the answer "out", the error "err".
FrpsAccept(id, p) ==
    [p   |-> [p EXCEPT !.state = "ESTABLISHED", !.recv_window = MaxYamuxWindow],
     out |-> <<WindowUpdate(id, {"ACK"}, MaxYamuxWindow - p.recv_window)>>,
     err |-> "none"]

FrpsData(p, data) ==
    [p   |-> [p EXCEPT !.recv_window = @ - Len(data), !.unread = @ + Len(data),
                       !.work = @ \/ data = <<0>>,
                       !.up = IF data = <<0>> THEN @ ELSE @ \o data],
     out |-> <<>>,
     err |-> "none"]

FrpsUpdate(p, f) ==
    [p   |-> [p EXCEPT !.send_window = @ + f.inc,
                       !.state = process_flags(f.flags, @).state,
                       !.fin = @ \/ "FIN" \in f.flags],
     out |-> <<>>,
     err |-> "none"]

FrpsRefuse(p, why) == [p |-> p, out |-> <<>>, err |-> why]

\* Frames of a stream that frps has closed are discarded.
FrpsHandle(p, f) ==
    CASE f.type = "GO_AWAY" -> FrpsRefuse(p, "go_away")
      [] f.type # "GO_AWAY" /\ p.state = "INIT" ->
            IF "SYN" \in f.flags THEN FrpsAccept(f.id, p) ELSE FrpsRefuse(p, "none")
      [] f.type # "GO_AWAY" /\ p.state \in {"CLOSED", "RESET"} -> FrpsRefuse(p, "none")
      [] f.type = "DATA" /\ p.state \notin {"INIT", "CLOSED", "RESET"} ->
            IF Len(f.data) > p.recv_window THEN FrpsRefuse(p, "window")
            ELSE FrpsData(p, f.data)
      [] OTHER ->
            IF process_flags(f.flags, p.state).ok THEN FrpsUpdate(p, f)
            ELSE FrpsRefuse(p, "fin")

FrpsRecv ==
    /\ to_frps # <<>>
    /\ to_frps' = Tail(to_frps)
    /\ LET f == Head(to_frps)
           r == FrpsHandle(frps[f.id], f)
       IN  /\ frps' = [frps EXCEPT ![f.id] = r.p]
           /\ to_client' = to_client \o r.out
           /\ session_err' = r.err
    /\ UNCHANGED <<next_id, pc, local, misparsed>>

\* Reading returns the credit once half a window is free.
FrpsRead(id) ==
    /\ FrpsOpen(frps[id])
    /\ \E n \in 1 .. frps[id].unread :
         LET p     == [frps[id] EXCEPT !.unread = @ - n]
             delta == MaxYamuxWindow - p.unread - p.recv_window
         IN  IF delta < MaxYamuxWindow \div 2
             THEN frps' = [frps EXCEPT ![id] = p] /\ UNCHANGED to_client
             ELSE /\ frps' = [frps EXCEPT ![id] = [p EXCEPT !.recv_window = @ + delta]]
                  /\ to_client' = Append(to_client, WindowUpdate(id, {}, delta))
    /\ UNCHANGED <<next_id, pc, to_frps, local, session_err, misparsed>>

\* StartWorkConn answers NewWorkConn; then the bytes of the remote user.
FrpsSend(id) ==
    /\ FrpsOpen(frps[id])
    /\ frps[id].work
    /\ \E n \in 1 .. Least(frps[id].send_window, MaxDown + 1 - frps[id].down) :
         /\ frps[id].down = 0 => n = 1
         /\ LET first == frps[id].down
            IN  to_client' = Append(to_client,
                                Data(id, {}, Crypt([i \in 1 .. n |-> first + i - 1])))
         /\ frps' = [frps EXCEPT ![id].down = @ + n, ![id].send_window = @ - n]
    /\ UNCHANGED <<next_id, pc, to_frps, local, session_err, misparsed>>

FrpsClose(id) ==
    /\ FrpsOpen(frps[id])
    /\ frps' = [frps EXCEPT ![id].state = AfterClose(@)]
    /\ to_client' = Append(to_client, WindowUpdate(id, {"FIN"}, 0))
    /\ UNCHANGED <<next_id, pc, to_frps, local, session_err, misparsed>>

\* yamux resets a half-closed stream after StreamCloseTimeout.
FrpsCloseTimeout(id) ==
    /\ frps[id].state = "LOCAL_CLOSE"
    /\ frps' = [frps EXCEPT ![id].state = "RESET"]
    /\ to_client' = Append(to_client, WindowUpdate(id, {"RST"}, 0))
    /\ UNCHANGED <<next_id, pc, to_frps, local, session_err, misparsed>>

-----------------------------------------------------------------------------
NoService == [sock |-> <<>>, wrote |-> 0, read |-> 0, open |-> FALSE, rcvd |-> <<>>]

NoStream == [state |-> "INIT", send_window |-> InitialSendWindow,
             recv_window |-> InitialSendWindow, unread |-> 0, up |-> <<>>,
             work |-> FALSE, down |-> 0, fin |-> FALSE]

Init ==
    /\ next_id = 0
    /\ pc = [id \in Ids |-> Deleted]
    /\ to_frps = <<>> /\ to_client = <<>>
    /\ local = [id \in Ids |-> NoService]
    /\ frps = [id \in Ids |-> NoStream]
    /\ session_err = "none"
    /\ misparsed = {}

LocalStep(id) ==
    \/ LocalConnected(id) \/ LocalConnectFailed(id) \/ LocalRead(id)
    \/ LocalEof(id) \/ LocalFlush(id) \/ LocalFlushFailed(id)

Recv == RecvUnknown \/ RecvWindowUpdate \/ RecvData

\* Once frps has aborted the session the control connection is lost and
\* clear_main_control drops every stream: the behaviour of this module ends.
Running == session_err = "none"

Next ==
    /\ Running
    /\ \/ NewWorkConn
       \/ Recv
       \/ FrpsRecv
       \/ \E id \in Ids :
            \/ LocalStep(id)
            \/ SvcWrite(id) \/ SvcClose(id)
            \/ FrpsRead(id) \/ FrpsSend(id) \/ FrpsClose(id) \/ FrpsCloseTimeout(id)

Spec == Init /\ [][Next]_vars

\* The loop task serves every ready descriptor in each round, TCP delivers,
\* and yamux runs a reader and a close timer for each stream; frps closes a
\* stream it has read to its end.  Nothing makes the service or the user act.
Fairness ==
    /\ WF_vars(Running /\ Recv)
    /\ WF_vars(Running /\ FrpsRecv)
    /\ \A id \in Ids :
         /\ WF_vars(Running /\ (LocalConnected(id) \/ LocalConnectFailed(id)))
         /\ WF_vars(Running /\ LocalRead(id))
         /\ WF_vars(Running /\ LocalEof(id))
         /\ WF_vars(Running /\ (LocalFlush(id) \/ LocalFlushFailed(id)))
         /\ WF_vars(Running /\ FrpsRead(id))
         /\ WF_vars(Running /\ FrpsCloseTimeout(id))
         /\ WF_vars(Running /\ frps[id].state = "REMOTE_CLOSE" /\ frps[id].unread = 0
                    /\ FrpsClose(id))

FairSpec == Spec /\ Fairness

-----------------------------------------------------------------------------
(* Properties *)

Service == [sock: Seq(Int), wrote: Nat, read: Nat, open: BOOLEAN, rcvd: Seq(Int)]

Stream == [state: StreamStates, send_window: Nat, recv_window: Nat, unread: Nat,
           up: Seq(Int), work: BOOLEAN, down: Nat, fin: BOOLEAN]

\* Every variable keeps its type; in particular no window goes below zero
\* (they are uint32_t in struct tmux_stream and would wrap).
TypeOK ==
    /\ next_id \in 0 .. MaxClients
    /\ pc \in [Ids -> Client]
    /\ to_frps \in Seq(Frame)
    /\ to_client \in Seq(Frame)
    /\ local \in [Ids -> Service]
    /\ frps \in [Ids -> Stream]
    /\ session_err \in {"none", "window", "fin", "go_away"}
    /\ misparsed \in SUBSET Ids

Credit(c) ==
    /\ c.sent + c.send_window <= c.granted
    /\ c.send_window <= MaxYamuxWindow

\* Flow control: the client never writes more on a stream than the credit
\* frps granted for it (tmux_stream_write against incr_send_window), however
\* writes, disconnects and WINDOW_UPDATE frames interleave.
FlowControl == \A id \in Ids : pc[id].live => Credit(pc[id])

\* frps never has to abort the session because a stream overran its receive
\* window, or because xfrpc took one of its frames for a protocol error.
NoWindowAbort == session_err \notin {"window", "go_away"}

Magnitude(b) == IF b < 0 THEN -b ELSE b

\* Bytes of the local service reach frps in order, each at most once, whether
\* or not they are encrypted, across stalls on an exhausted window
\* (tcp_proxy_c2s_cb, enc_pending) and the flush of handle_proxy_disconnect.
UpOrdered ==
    \A id \in Ids : \A i, j \in 1 .. Len(frps[id].up) :
        i < j => Magnitude(frps[id].up[i]) < Magnitude(frps[id].up[j])

IsFin(f) == "FIN" \in f.flags

\* After its FIN a stream carries no further data: a DATA frame is never
\* queued behind the FIN of its stream, nor arrives at frps after it
\* (handle_proxy_disconnect, tmux_stream_close, tmux_stream_write).
NoDataAfterFin ==
    \A j \in 1 .. Len(to_frps) : to_frps[j].type = "DATA" =>
        /\ ~frps[to_frps[j].id].fin
        /\ \A i \in 1 .. j - 1 : to_frps[i].id = to_frps[j].id => ~IsFin(to_frps[i])

\* "pending_close; local proxy closed, waiting for WUP to send FIN": the FIN
\* of a stream is sent once, so frps never meets a FIN it must refuse.
SingleFin == session_err # "fin"

\* handle_proxy_disconnect "flushes remaining data from the local proxy
\* bufferevent into the MUX stream before closing": when the FIN of a stream
\* arrives, so has every byte xfrpc read from the local service.
FlushedBeforeFin ==
    \A id \in Ids : frps[id].fin => Len(frps[id].up) = local[id].read

\* use_encryption: no byte of an encrypted proxy crosses the stream as it is.
UpEncrypted ==
    Encrypt => \A id \in Ids : \A i \in 1 .. Len(frps[id].up) : frps[id].up[i] < 0

\* A local service that ends its connection: the three claims are joined by \/ so
\* that a behaviour that refutes the property refutes each of them.
CleanDisconnect == SingleFin \/ FlushedBeforeFin \/ UpEncrypted

\* process_data hands the bytes of a TCP proxy to the parser of frp messages
\* only when the client has no local connection and never gets one again: a
\* tunnel that is being set up or is up loses no byte that way.
TunnelBytesNotParsed == \A id \in misparsed : pc[id].bev = "none"

\* The encrypted remainder that tcp_proxy_c2s_cb puts aside when the window is
\* exhausted "will be flushed first on the next callback": it does not stay
\* behind while the connection is up at both ends.
StashFlushed ==
    \A id \in Ids :
        (pc[id].enc_pending # <<>>) ~>
            (pc[id].enc_pending = <<>> \/ pc[id].bev # "open"
               \/ frps[id].state # "ESTABLISHED" \/ session_err # "none")

\* A client whose local connection has ended is removed, with its stream:
\* a deferred FIN is sent when credit returns, and frps answers it.
ClosedClientFreed ==
    \A id \in Ids :
        (pc[id].live /\ pc[id].started /\ pc[id].bev = "none") ~>
            (~pc[id].live \/ session_err # "none")

\* A client whose stream frps has closed is removed too, whatever its local
\* connection does, at the latest when frps resets the stream.
RemoteCloseFreed ==
    \A id \in Ids :
        (frps[id].state \in {"LOCAL_CLOSE", "CLOSED", "RESET"}) ~>
            (~pc[id].live \/ session_err # "none")
=============================================================================
