------------------------------ MODULE Receive -------------------------------
(***************************************************************************)
(* What xfrpc makes of the bytes frps sends it, however TCP cuts them into *)
(* reads: recv_cb and everything below it.  With tcp_mux all streams come  *)
(* over one connection and handle_tcp_mux cuts it into frames; without it  *)
(* the control channel and each work connection are connections of their   *)
(* own (handle_non_mux).  On the control channel the login and then, in    *)
(* protocol v1, AES-CFB, or in v2 frames and AEAD records; on a work        *)
(* connection StartWorkConn and then the bytes of the remote user.          *)
(*                                                                         *)
(* The state of xfrpc is one record x; a handler is an operator on it, so   *)
(* that handlers call each other as the functions of the code do.  "ok" is *)
(* whether a connection to the local service can be started in this call.   *)
(* A session ends at any point (clear_main_control) and the next begins.    *)
(***************************************************************************)
EXTENDS Bridge, ServiceHours, FiniteSetsExt

CONSTANTS
    Confs,        \* the configurations: [tcp_mux, v2, tls, kind, hours],
                  \* and magic: frps begins a stream of protocol v2 with the magic
    UserBytes,    \* bound: bytes the remote user sends after a negotiation
    MaxSessions,  \* bound: logins in a behaviour
    MaxWire       \* bound: tokens in flight on one connection

LOCAL TM == INSTANCE Tmux WITH MaxStreamWindow <- 1, MaxYamuxWindow <- 1,
                               InitialSendWindow <- 1, MaxFrame <- 1

\* The hour of the day; it stays the same.
Hour == 12

VARIABLES
    conf,    \* the configuration of this behaviour
    frps,    \* what frps still has to send
    wire,    \* bytes in flight on the control and on the work connection
    input,   \* the input buffers of the two bufferevents
    len,     \* bytes handle_tcp_mux has still to look at; 0: it has returned
    parser,  \* its static variables and cur_stream
    lost,    \* it has taken for a header what is none
    cut,     \* without tcp_mux: a read did not hold exactly one message
    x        \* the rest of xfrpc's state

vars == <<conf, frps, wire, input, len, parser, lost, cut, x>>

Conns == {"ctl", "work"}

Main == 1        \* the stream of the control channel
Work == 3        \* the stream of the work connection
NoStream == 0
Abandon == -1    \* abandon_stream

-----------------------------------------------------------------------------
(* Sending on the control channel.  sent is what was written, asked the     *)
(* messages it should hold.                                                 *)

Put(y, bytes) == [y EXCEPT !.sent = @ \o bytes]

(* send_enc_msg_frp_server in protocol v1: the encoder is made on first use *)
(* and its IV sent once.  Without tcp_mux the bytes are written to the      *)
(* descriptor of the bufferevent, which a TLS one does not give.            *)
SendEncV1(y, m) ==
    LET fresh == y.enc = NoCoder
        r     == encrypt_data(IF fresh THEN Coder(y.sess) ELSE y.enc, Message(m))
        z     == [y EXCEPT !.enc = r.coder]
    IN  IF conf.tls /\ ~conf.tcp_mux THEN z
        ELSE Put(z, (IF fresh THEN IV(y.sess) ELSE <<>>) \o r.out)

SendEncV2(y, m) ==
    LET r == aead_writer_seal(y.aw, V2Frame(m))
    IN  IF y.got_hello THEN Put([y EXCEPT !.aw = r.w], r.out) ELSE y

send_enc_msg_frp_server(y, m) ==
    LET z == [y EXCEPT !.asked = Append(@, m)]
    IN  IF conf.v2 THEN SendEncV2(z, m) ELSE SendEncV1(z, m)

\* login and v2_send_login_handshake
LoginBytes ==
    IF conf.v2 THEN Magic \o V2Frame("ClientHello") \o V2Frame("Login")
    ELSE Message("Login")

\* start_proxy_services, with one proxy and no visitors, and the status
StartProxyServices(y) ==
    IF y.status THEN y
    ELSE [send_enc_msg_frp_server(y, "NewProxy") EXCEPT !.status = TRUE]

-----------------------------------------------------------------------------
(* Messages of frps *)

Handled(y, m) == [y EXCEPT !.handled = Append(@, m)]

\* handle_login_response.  A LoginResp whose body is missing is read beyond its
\* end and refused.
LoginResponse(y, buf) ==
    IF FrontMessage(buf) = "LoginResp"
    THEN StartProxyServices([Handled(y, "LoginResp") EXCEPT !.is_login = TRUE])
    ELSE y

\* handle_type_req_work_conn, new_client_connect
ReqWorkConn(y) == [StartProxyServices(y) EXCEPT !.pc = NewClient(conf.tcp_mux)]

\* start_xfrp_tunnel, setup_local_connection: SOCKS5 and XDPI clients connect
\* later, and return before the callbacks of a direct connection are set.
StartTunnel(c, ok) ==
    CASE conf.kind \in {"socks5", "xdpi"} -> c
      [] conf.kind \in {"tcp", "enc"} /\ ok -> [Connect(c) EXCEPT !.fwd = ~conf.tcp_mux]
      [] OTHER -> Del(c)

\* handle_type_start_work_conn; tail is what came behind the message.
StartWorkConn(y, tail, ok) ==
    IF ~is_service_available(conf.hours[1], conf.hours[2], Hour) THEN y
    ELSE [y EXCEPT !.pc = StartTunnel([@ EXCEPT !.ps = TRUE, !.tail = tail], ok)]

\* handle_control_work behind the decryption: ctx is the client, if any.
Dispatch(y, buf, ctx, ok) ==
    LET m == FrontMessage(buf)
    IN  CASE m = "none" -> y
          [] m = "ReqWorkConn" -> ReqWorkConn(Handled(y, m))
          [] m = "StartWorkConn" -> IF ctx THEN StartWorkConn(y, Drop(buf, 2), ok) ELSE y
          [] OTHER -> Handled(y, m)

handle_control_work(y, buf, ctx, ok) ==
    LET r == IF ctx \/ conf.v2 THEN [coder |-> y.dec, out |-> buf]
             ELSE handle_enc_msg(y.dec, buf)
    IN  Dispatch([y EXCEPT !.dec = r.coder], r.out, ctx, ok)

-----------------------------------------------------------------------------
(* Protocol v2: v2_handle_bytes and v2_consume_plain_frames.                *)

V2Rx(y, ctx) == IF ctx THEN y.pc.rx ELSE y.rx

SetV2Rx(y, ctx, bytes) ==
    IF ctx THEN (IF y.pc.live THEN [y EXCEPT !.pc.rx = bytes] ELSE y)
    ELSE [y EXCEPT !.rx = bytes]

\* v2_dispatch_v1_buf: the payload of the frame as a v1 message
V2Dispatch(y, m, ctx, ok) ==
    IF ~y.is_login THEN LoginResponse(y, Message(m))
    ELSE handle_control_work(y, Message(m), ctx, ok)

\* Frames of the type of a ServerHello; the second names no cipher xfrpc has.
Hellos == {"ServerHello", "BadHello"}

\* The frame at the front of the receive buffer.  v2_init_aead_from_hello
\* makes the keys of both directions, or rejects the ServerHello.
V2Frame1(y, m, ctx, ok) ==
    IF ~y.got_hello /\ ~ctx
    THEN IF m = "ServerHello"
         THEN [y EXCEPT !.got_hello = TRUE, !.aw = Writer(y.sess),
                        !.ar = [NoReader EXCEPT !.key = TRUE]]
         ELSE y
    ELSE IF m \in Hellos THEN y ELSE V2Dispatch(y, m, ctx, ok)

\* A frame that was not the ServerHello expected, or a rejected one, ends the loop.
V2Stops(y, m, ctx) == ~y.got_hello /\ ~ctx /\ m # "ServerHello"

\* The login is over: the bytes behind its frame are records already.
AeadBegins(w, ctx) == ~ctx /\ w.is_login /\ w.got_hello /\ ~w.aead_ready

BeginAead(w) ==
    LET f == aead_reader_feed(w.ar, w.rx)
    IN  [w EXCEPT !.aead_ready = TRUE, !.ar = f.r, !.rx = IF f.ok THEN f.pt ELSE <<>>]

RECURSIVE v2_consume_plain_frames(_, _, _)

\* The loop goes on behind a frame, unless all that is left is sealed.
V2GoOn(w, b, ctx, ok) ==
    IF b /\ w.rx = <<>> THEN w ELSE v2_consume_plain_frames(w, ctx, ok)

V2Behind(w, stops, ctx, ok) ==
    IF stops THEN w
    ELSE V2GoOn(IF AeadBegins(w, ctx) THEN BeginAead(w) ELSE w, AeadBegins(w, ctx), ctx, ok)

v2_consume_plain_frames(y, ctx, ok) ==
    LET rx == V2Rx(y, ctx)
        m  == ParseFrame(rx)
    IN  CASE m = "wait" -> y
          [] m = "error" -> SetV2Rx(y, ctx, <<>>)
          [] OTHER -> V2Behind(SetV2Rx(V2Frame1(y, m, ctx, ok), ctx, Drop(rx, 2)),
                               V2Stops(y, m, ctx), ctx, ok)

\* v2_handle_bytes: the magic is stripped once on a stream, when a read begins
\* with the whole of it.
MagicSeen(y, ctx) == IF ctx THEN y.pc.magic ELSE y.magic

BeginsWithMagic(y, buf, ctx) == ~MagicSeen(y, ctx) /\ IsPrefix(Magic, buf)

SetMagicSeen(y, ctx) == IF ctx THEN [y EXCEPT !.pc.magic = TRUE] ELSE [y EXCEPT !.magic = TRUE]

V2Bytes(y, buf, ctx, ok) ==
    LET sealed == y.aead_ready /\ ~ctx
        f      == aead_reader_feed(y.ar, buf)
        z      == [y EXCEPT !.ar = f.r]
    IN  IF sealed /\ ~f.ok THEN z
        ELSE v2_consume_plain_frames(
               IF sealed THEN [z EXCEPT !.rx = @ \o f.pt]
               ELSE SetV2Rx(y, ctx, V2Rx(y, ctx) \o buf), ctx, ok)

v2_handle_bytes(y, buf, ctx, ok) ==
    IF BeginsWithMagic(y, buf, ctx) THEN V2Bytes(SetMagicSeen(y, ctx), Drop(buf, 2), ctx, ok)
    ELSE V2Bytes(y, buf, ctx, ok)

-----------------------------------------------------------------------------
handle_frps_msg(y, buf, ctx, ok) ==
    IF conf.v2 THEN v2_handle_bytes(y, buf, ctx, ok)
    ELSE IF ~y.is_login THEN LoginResponse(y, buf)
    ELSE handle_control_work(y, buf, ctx, ok)

(* process_data: where the payload of a whole frame goes.  Unread: it stays *)
(* in the input although the caller counts it as gone.                      *)
Deferred(c) == c.ps /\ conf.kind \in {"socks5", "xdpi"}

Unread(y, sid) == sid = Work /\ conf.kind = "socks5" /\ y.pc.ps /\ Socks5Unread(y.pc)

process_data(y, sid, bytes, ok) ==
    LET c == y.pc
    IN  CASE sid = Main \/ (sid = Work /\ c.bev = "none" /\ ~Deferred(c)) ->
                handle_frps_msg(y, bytes, sid = Work, ok)
          [] sid = Work /\ Deferred(c) ->
                [y EXCEPT !.pc = IF conf.kind = "xdpi" THEN handle_xdpi(c, bytes, ok)
                                 ELSE handle_socks5(c, bytes, ok)]
          [] OTHER ->
                IF conf.kind = "enc"
                THEN IF DecodeWaits(c, bytes) THEN y
                     ELSE [y EXCEPT !.pc = ForwardDecoded(c, bytes)]
                ELSE [y EXCEPT !.pc = Forward(c, bytes)]

(* handle_tcp_mux_stream, handle_tcp_mux_ping, handle_tcp_mux_go_away: the  *)
(* frames without payload.  remote_go_away is set and never read.           *)
ControlFrame(y, h) ==
    LET p == TM!process_flags(h.flags, y.pc.st)
    IN  CASE h.type = "PING" -> [y EXCEPT !.pongs = @ + 1]
          [] h.type = "WINDOW_UPDATE" /\ y.pc.live ->
                [y EXCEPT !.pc = IF p.close THEN Del(@) ELSE [@ EXCEPT !.st = p.state]]
          [] OTHER -> y

-----------------------------------------------------------------------------
(* handle_tcp_mux.  A frame header is two tokens.                           *)

MuxHeader(h) == <<<<"mux", 1, h>>, <<"mux", 2, h>>>>

Frame(type, sid, flags, bytes) ==
    MuxHeader([type |-> type, sid |-> sid, flags |-> flags, len |-> Len(bytes)]) \o bytes

NoParser == [hdr |-> <<>>, left |-> 0, cur |-> NoStream]

IsHeader(two) == /\ two[1][1] = "mux" /\ two[1][2] = 1
                 /\ two[2] = <<"mux", 2, two[1][3]>>

InTable(sid) == sid = Main \/ (sid = Work /\ x.pc.live)

\* The handler returns, with what it leaves in the input.
Return(in) == len' = 0 /\ input' = [input EXCEPT !["ctl"] = in]

GoOn(in, n) == len' = n /\ input' = [input EXCEPT !["ctl"] = in]

\* Payload of the frame p.left of stream cur, n bytes of input to look at.
Payload(p, cur, in, n, ok) ==
    LET k == Min({n, p.left})
    IN  CASE p.left = 0 ->
                (* An empty frame is "unexpected": frps sends none. *)
                /\ Return(in)
                /\ parser' = p
                /\ UNCHANGED <<x, lost>>
          [] p.left > 0 /\ cur = Abandon ->
                (* The rest is abandoned too, if cur_stream was set before. *)
                /\ GoOn(Drop(in, k), n - k)
                /\ parser' = [p EXCEPT !.left = @ - k,
                                       !.cur = IF k = p.left THEN NoStream ELSE @]
                /\ UNCHANGED <<x, lost>>
          [] p.left > 0 /\ cur # Abandon /\ k < p.left ->
                /\ Return(in)
                /\ parser' = [p EXCEPT !.cur = cur]
                /\ UNCHANGED <<x, lost>>
          [] OTHER ->
                /\ x' = process_data(x, cur, Take(in, k), ok)
                /\ lost' = Unread(x, cur)
                /\ parser' = NoParser
                /\ GoOn(IF Unread(x, cur) THEN in ELSE Drop(in, k), n - k)

\* The header of a frame is complete; n bytes of input are left to look at.
Header(h, in, n, ok) ==
    LET known == InTable(h.sid)
        p     == [NoParser EXCEPT !.left = h.len]
    IN  CASE h.type # "DATA" ->
                /\ x' = ControlFrame(x, h)
                /\ parser' = NoParser
                /\ GoOn(in, n)
                /\ UNCHANGED lost
          [] h.type = "DATA" /\ ~known /\ h.len = 0 ->
                /\ parser' = NoParser
                /\ GoOn(in, n)
                /\ UNCHANGED <<x, lost>>
          [] h.type = "DATA" /\ (known \/ h.len > 0) /\ n = 0 ->
                /\ parser' = [p EXCEPT !.cur = IF known THEN h.sid ELSE Abandon]
                /\ Return(in)
                /\ UNCHANGED <<x, lost>>
          [] OTHER -> Payload(p, IF known THEN h.sid ELSE Abandon, in, n, ok)

\* One turn of the loop in handle_tcp_mux.
MuxTurn ==
    LET in  == input["ctl"]
        k   == Min({2 - Len(parser.hdr), len})
        hdr == parser.hdr \o Take(in, k)
    IN  /\ len > 0 /\ ~lost
        /\ \E ok \in BOOLEAN :
             IF parser.cur # NoStream THEN Payload(parser, parser.cur, in, len, ok)
             ELSE IF Len(hdr) < 2
             THEN /\ parser' = [parser EXCEPT !.hdr = hdr]
                  /\ Return(Drop(in, k))
                  /\ UNCHANGED <<x, lost>>
             ELSE IF IsHeader(hdr) THEN Header(hdr[1][3], Drop(in, k), len - k, ok)
             ELSE /\ lost' = TRUE
                  /\ Return(Drop(in, k))
                  /\ UNCHANGED <<x, parser>>
        /\ UNCHANGED <<conf, frps, wire, cut>>

\* recv_cb with tcp_mux: bev_read_input has read some bytes.
RecvMux ==
    /\ conf.tcp_mux /\ len = 0 /\ ~lost
    /\ \E n \in 1 .. Len(wire["ctl"]) :
         LET in == input["ctl"] \o Take(wire["ctl"], n)
         IN  /\ wire' = [wire EXCEPT !["ctl"] = Drop(@, n)]
             /\ input' = [input EXCEPT !["ctl"] = in]
             /\ len' = Len(in)
    /\ UNCHANGED <<conf, frps, parser, lost, cut, x>>

-----------------------------------------------------------------------------
(* Connections without tcp_mux.                                             *)

(* handle_non_mux hands over all there is and drains it, except that of a   *)
(* LoginResp only the message itself is drained; recv_cb calls it again     *)
(* when that leaves bytes behind a successful login.                        *)
\* Mutation: all is drained at once.
MutDrained(y, buf) == Len(buf)

Drained(y, buf) ==
    IF ~y.is_login /\ Len(buf) >= 2 /\ buf[1] = <<"hdr", "LoginResp">> THEN 2 ELSE Len(buf)

RecvAgain(y, z, left, ctx, ok) ==
    IF ~y.is_login /\ z.is_login /\ left # <<>>
    THEN [x |-> handle_frps_msg(z, left, ctx, ok), left |-> <<>>]
    ELSE [x |-> z, left |-> left]

RecvNonMux(y, buf, ctx, ok) ==
    RecvAgain(y, handle_frps_msg(y, buf, ctx, ok), Drop(buf, Drained(y, buf)), ctx, ok)

(* Protocol v1 on the control connection relies on every read holding whole *)
(* messages, and one at most behind the IV; protocol v2 on the magic coming *)
(* in one read, and once although the stream outlives the session.          *)
Starts(t) == t[1] = "hdr" \/ (t[1] = "iv" /\ t[3] = 1) \/ (t[1] = "ct" /\ t[3] % 2 = 1)
Ends(t)   == t[1] = "body" \/ (t[1] = "iv" /\ t[3] = 2) \/ (t[1] = "ct" /\ t[3] % 2 = 0)

OneMessage(buf) ==
    /\ Starts(buf[1]) /\ Ends(Last(buf))
    /\ Cardinality({i \in DOMAIN buf : buf[i][1] = "ct"}) <= 2

MagicCut(y, buf, ctx) == buf[1][1] = "magic" /\ ~BeginsWithMagic(y, buf, ctx)

RecvCtl ==
    /\ ~conf.tcp_mux
    /\ \E n \in 1 .. Len(wire["ctl"]), ok \in BOOLEAN :
         LET buf == input["ctl"] \o Take(wire["ctl"], n)
         IN  /\ wire' = [wire EXCEPT !["ctl"] = Drop(@, n)]
             /\ \E r \in {RecvNonMux(x, buf, FALSE, ok)} :
                  /\ input' = [input EXCEPT !["ctl"] = r.left]
                  /\ x' = r.x
             /\ cut' = (cut \/ IF conf.v2 THEN MagicCut(x, buf, FALSE) ELSE ~OneMessage(buf))
    /\ UNCHANGED <<conf, frps, len, parser, lost>>

(* The work connection: recv_cb until the tunnel starts, then               *)
(* tcp_proxy_s2c_cb, which reads nothing while there is no local end or no  *)
(* whole IV.  StartWorkConn must come in one read, in protocol v2 with      *)
(* nothing behind it, in v1 not with half of an IV, and what did come       *)
(* behind it must not be overtaken.                                         *)
S2C(y, buf) ==
    IF y.pc.bev = "none" \/ (conf.kind = "enc" /\ DecodeWaits(y.pc, buf))
    THEN [x |-> y, left |-> buf]
    ELSE [x |-> [y EXCEPT !.pc = IF conf.kind = "enc" THEN ForwardDecoded(@, buf)
                                 ELSE Forward(@, buf)],
          left |-> <<>>]

StartCut(c, buf) ==
    IF c.fwd THEN c.tail # <<>>
    ELSE IF conf.v2
    THEN \/ MagicCut(x, buf, TRUE)
         \/ Len(c.rx \o buf) > (IF BeginsWithMagic(x, buf, TRUE) THEN 4 ELSE 2)
    ELSE Len(buf) < 2 \/ (conf.kind = "enc" /\ Len(buf) = 3)

RecvWork ==
    /\ ~conf.tcp_mux /\ x.pc.live
    /\ \E n \in 1 .. Len(wire["work"]), ok \in BOOLEAN :
         LET buf == input["work"] \o Take(wire["work"], n)
         IN  /\ wire' = [wire EXCEPT !["work"] = Drop(@, n)]
             /\ \E r \in {IF x.pc.fwd THEN S2C(x, buf) ELSE RecvNonMux(x, buf, TRUE, ok)} :
                  /\ input' = [input EXCEPT !["work"] = r.left]
                  /\ x' = r.x
             /\ cut' = (cut \/ StartCut(x.pc, buf))
    /\ UNCHANGED <<conf, frps, len, parser, lost>>

-----------------------------------------------------------------------------
(* The local end, between two callbacks of the control connection.          *)

\* handle_post_connection_data, send_client_data_tail
\* Mutation: what came before the connection was up is forgotten.
MutPostConnection(c) == [c EXCEPT !.bev = "open", !.buf = <<>>, !.tail = <<>>,
                                  !.state = "ESTABLISHED"]

PostConnection(c) ==
    LET d == [c EXCEPT !.bev = "open"]
    IN  IF conf.kind = "socks5"
        THEN [Forward(d, d.buf) EXCEPT !.buf = <<>>, !.state = "ESTABLISHED"]
        ELSE IF d.tail = <<>> THEN d
        ELSE [(IF conf.kind = "enc" THEN ForwardDecoded(d, d.tail) ELSE Forward(d, d.tail))
                EXCEPT !.tail = <<>>]

LocalConnected ==
    /\ len = 0 /\ x.pc.bev = "connecting"
    /\ x' = [x EXCEPT !.pc = PostConnection(@)]
    /\ UNCHANGED <<conf, frps, wire, input, len, parser, lost, cut>>

\* handle_proxy_disconnect and tmux_stream_close, with a send window to spare
\* Mutation: the client is deleted with its local end.
MutDisconnect(c) == Del(c)

Disconnect(c) ==
    LET d == [c EXCEPT !.bev = "none"]
    IN  CASE TM!CloseDeletes(c.st) -> Del(c)
          [] TM!CloseIgnored(c.st) -> d
          [] OTHER -> [d EXCEPT !.st = TM!AfterClose(@)]

\* The connection to the local service fails or is closed by it.
LocalClosed ==
    /\ len = 0 /\ x.pc.bev # "none"
    /\ x' = [x EXCEPT !.pc = Disconnect(@)]
    /\ UNCHANGED <<conf, frps, wire, input, len, parser, lost, cut>>

\* tcp_proxy_c2s_cb finds the stream closed for writing and deletes the client.
LocalWriteRefused ==
    /\ len = 0 /\ x.pc.bev = "open"
    /\ TM!WriteRefused(x.pc.st)
    /\ x' = [x EXCEPT !.pc = Del(@)]
    /\ UNCHANGED <<conf, frps, wire, input, len, parser, lost, cut>>

\* heartbeat_sender, once logged in
Heartbeat ==
    /\ len = 0 /\ ~lost /\ x.status
    /\ "Ping" \notin Range(x.asked)
    /\ x' = send_enc_msg_frp_server(x, "Ping")
    /\ UNCHANGED <<conf, frps, wire, input, len, parser, lost, cut>>

-----------------------------------------------------------------------------
(* frps.  ctl is what it has still to write on the control channel, script  *)
(* what the remote user has still to send; writes are as frps makes them,   *)
(* and with tcp_mux each is a frame.                                        *)

\* The first write on a stream of protocol v2
V2First(m) == (IF conf.magic THEN Magic ELSE <<>>) \o V2Frame(m)

\* The messages of frps, in its order.
Plan == <<"LoginResp", "ReqWorkConn", "NewProxyResp">>

CtlWrites(s, hello) ==
    LET e1 == encrypt_data(Coder(10 + s), Message(Plan[2]))
        e2 == encrypt_data(e1.coder, Message(Plan[3]))
        a1 == aead_writer_seal(Writer(10 + s), V2Frame(Plan[2]))
        a2 == aead_writer_seal(a1.w, V2Frame(Plan[3]))
    IN  IF conf.v2 THEN <<V2First(hello), V2Frame("LoginResp"), a1.out, a2.out>>
        ELSE <<Message("LoginResp"), IV(10 + s), e1.out, e2.out>>

UserData == [i \in 1 .. UserBytes |-> <<"u", i>>]

Scripts(kind) ==
    CASE kind = "socks5" -> {<<G1, G2, R1, R2>> \o UserData, UserData}
      [] kind = "xdpi"   -> {<<B1, B2>> \o UserData, UserData}
      [] OTHER           -> {UserData}

Frps(script) == [ctl |-> 0, hello |-> "none", start |-> FALSE, script |-> script, sent |-> <<>>,
                 enc |-> NoCoder, ended |-> FALSE, pings |-> 0]

Room(c) == len = 0 /\ Len(wire[c]) < MaxWire

Write(c, bytes) == wire' = [wire EXCEPT ![c] = @ \o bytes]

OnStream(sid, bytes) ==
    IF conf.tcp_mux THEN Frame("DATA", sid, {}, bytes) ELSE bytes

\* NewProxyResp is the answer to NewProxy, if that has arrived.
FrpsControl ==
    /\ Room("ctl")
    /\ frps.ctl < 4
    /\ frps.ctl = 3 => x.asked # <<>> /\ x.sent # LoginBytes
    /\ \E hello \in IF conf.v2 /\ frps.ctl = 0 THEN Hellos ELSE {frps.hello} :
         /\ frps' = [frps EXCEPT !.ctl = @ + 1, !.hello = hello]
         /\ Write("ctl", OnStream(Main, CtlWrites(x.sess, hello)[frps.ctl + 1]))
    /\ UNCHANGED <<conf, input, len, parser, lost, cut, x>>

WorkConn == IF conf.tcp_mux THEN "ctl" ELSE "work"

\* frps has a user for the work connection.
FrpsStart ==
    LET m == "StartWorkConn"
        w == IF conf.v2 THEN V2First(m) ELSE Message(m)
    IN  /\ Room(WorkConn)
        /\ x.pc.live /\ ~frps.start
        /\ frps' = [frps EXCEPT !.start = TRUE]
        /\ Write(WorkConn, IF conf.tcp_mux
                           THEN Frame("WINDOW_UPDATE", Work, {"ACK"}, <<>>) \o OnStream(Work, w)
                           ELSE w)
        /\ UNCHANGED <<conf, input, len, parser, lost, cut, x>>

\* An encrypting frps writes the IV before the first bytes.
FrpsUser ==
    /\ Room(WorkConn)
    /\ frps.start /\ ~frps.ended
    /\ IF conf.kind = "enc" /\ frps.enc = NoCoder
       THEN /\ frps' = [frps EXCEPT !.enc = Coder(30 + x.sess)]
            /\ Write(WorkConn, OnStream(Work, IV(30 + x.sess)))
       ELSE \E n \in 1 .. Len(frps.script) :
              LET text == Take(frps.script, n)
                  e    == encrypt_data(frps.enc, text)
              IN  /\ frps' = [frps EXCEPT !.script = Drop(@, n), !.sent = @ \o text,
                                          !.enc = IF conf.kind = "enc" THEN e.coder ELSE @]
                  /\ Write(WorkConn, OnStream(Work, IF conf.kind = "enc" THEN e.out ELSE text))
    /\ UNCHANGED <<conf, input, len, parser, lost, cut, x>>

\* The user closes, or the stream is reset.
FrpsEnd ==
    /\ conf.tcp_mux /\ Room("ctl")
    /\ frps.start /\ ~frps.ended
    /\ frps' = [frps EXCEPT !.ended = TRUE]
    /\ \E flag \in {"FIN", "RST"} : Write("ctl", Frame("WINDOW_UPDATE", Work, {flag}, <<>>))
    /\ UNCHANGED <<conf, input, len, parser, lost, cut, x>>

\* Keep-alive of the mux session, and its announced end.
FrpsSession ==
    /\ conf.tcp_mux /\ Room("ctl")
    /\ \/ /\ frps.pings = 0
          /\ frps' = [frps EXCEPT !.pings = 1]
          /\ Write("ctl", Frame("PING", NoStream, {"SYN"}, <<>>))
       \/ /\ frps.pings = 1
          /\ frps' = [frps EXCEPT !.pings = 2]
          /\ Write("ctl", Frame("GO_AWAY", NoStream, {}, <<>>))
    /\ UNCHANGED <<conf, input, len, parser, lost, cut, x>>

-----------------------------------------------------------------------------
Session(s, rx, magic) ==
    [sess |-> s, is_login |-> FALSE, status |-> FALSE, dec |-> NoCoder, enc |-> NoCoder,
     got_hello |-> FALSE, aead_ready |-> FALSE, aw |-> NoWriter, ar |-> NoReader, rx |-> rx, magic |-> magic,
     sent |-> LoginBytes, asked |-> <<>>, handled |-> <<>>, pc |-> NoClient, pongs |-> 0]

(* clear_main_control and the connection that replaces the lost one.  The   *)
(* receive buffer of protocol v2 and v2_magic_seen are part of the stream,  *)
(* which is made anew only with tcp_mux.                                    *)
\* Mutation: the parser of the frames keeps what it has.
MutSessionLost ==
    /\ len = 0 /\ x.sess < MaxSessions
    /\ x' = Session(x.sess + 1, <<>>, FALSE)
    /\ lost' = FALSE /\ cut' = FALSE
    /\ wire' = [c \in Conns |-> <<>>] /\ input' = [c \in Conns |-> <<>>]
    /\ \E script \in Scripts(conf.kind) : frps' = Frps(script)
    /\ UNCHANGED <<conf, len, parser>>

SessionLost ==
    LET rx == IF conf.tcp_mux THEN <<>> ELSE x.rx
    IN  /\ len = 0 /\ x.sess < MaxSessions
        /\ x' = Session(x.sess + 1, rx, ~conf.tcp_mux /\ x.magic)
        /\ parser' = NoParser
        /\ lost' = FALSE /\ cut' = (rx # <<>>)
        /\ wire' = [c \in Conns |-> <<>>] /\ input' = [c \in Conns |-> <<>>]
        /\ \E script \in Scripts(conf.kind) : frps' = Frps(script)
        /\ UNCHANGED <<conf, len>>

Init ==
    /\ conf \in Confs
    /\ x = Session(1, <<>>, FALSE)
    /\ parser = NoParser /\ len = 0
    /\ lost = FALSE /\ cut = FALSE
    /\ wire = [c \in Conns |-> <<>>] /\ input = [c \in Conns |-> <<>>]
    /\ \E script \in Scripts(conf.kind) : frps = Frps(script)

Next ==
    \/ RecvMux \/ MuxTurn \/ RecvCtl \/ RecvWork
    \/ LocalConnected \/ LocalClosed \/ LocalWriteRefused \/ Heartbeat
    \/ FrpsControl \/ FrpsStart \/ FrpsUser \/ FrpsEnd \/ FrpsSession
    \/ SessionLost

Spec == Init /\ [][Next]_vars

-----------------------------------------------------------------------------
(* Properties *)

\* The state of the handlers has its type.
TypeOK ==
    /\ conf \in Confs
    /\ len \in 0 .. Len(input["ctl"])
    /\ parser.left \in Nat /\ parser.cur \in {NoStream, Abandon, Main, Work}
    /\ Len(parser.hdr) < 2
    /\ x.pc.bev \in {"none", "connecting", "open"}
    /\ x.pc.st \in TM!StreamStates
    /\ x.pc.bev # "none" => x.pc.live /\ x.pc.conns # <<>>

(* The parser of handle_tcp_mux stays in step with the frames of frps,      *)
(* however they are cut into reads, and starts in step in every session.    *)
(* Two cases are excepted, in which it does not: the payload for a deleted  *)
(* client comes in pieces and the rest of it is forgotten (left without     *)
(* cur_stream), or handle_socks5 has left a payload unread.                 *)
InStep ==
    lost => \/ parser.left > 0 /\ parser.cur = NoStream
            \/ Unread(x, Work)

(* cur_stream, kept from one read to the next, is a stream that still       *)
(* exists: no client is deleted while part of its payload is awaited.  An   *)
(* XDPI client that has connected a second time is excepted.                *)
CurLive ==
    parser.cur = Work => \/ x.pc.live
                         \/ conf.kind = "xdpi" /\ Len(x.pc.conns) > 1

\* All that frps has written has been read and looked at.
Quiet == len = 0 /\ wire["ctl"] = <<>> /\ wire["work"] = <<>> /\ ~lost /\ ~cut

\* How many messages of the plan frps has written.
Written == IF frps.ctl = 1 /\ ~conf.v2 THEN 1 ELSE Max({0, frps.ctl - 1})

\* A session whose ServerHello is rejected handles nothing.
Expected == IF frps.hello = "BadHello" THEN 0 ELSE Written

(* Every message frps writes on the control channel is handled, once and in *)
(* order, and every PING is answered, whatever reads they come in.  Without *)
(* tcp_mux this asks of protocol v1 that reads hold whole messages          *)
(* (NonMuxSound), and of v2 that the magic comes whole, and once.           *)
ControlHandled ==
    ~cut => /\ IsPrefix(x.handled, Plan)
            /\ Quiet => /\ Len(x.handled) = Expected
                        /\ x.pongs = Min({1, frps.pings})

FrpsReads ==
    LET bytes == Drop(x.sent, Len(LoginBytes))
    IN  IF bytes = <<>> THEN <<>>
        ELSE IF conf.v2 THEN aead_reader_feed(NoReader, bytes).pt
        ELSE handle_enc_msg(NoCoder, bytes).out

\* frps can decipher what xfrpc has written, and it is what xfrpc meant to say.
AllSent ==
    FrpsReads = FlattenSeq([i \in DOMAIN x.asked |->
                    IF conf.v2 THEN V2Frame(x.asked[i]) ELSE Message(x.asked[i])])

(* One IV or nonce in front, and no gap in the key stream, in every session *)
(* and configuration but that of NonMuxSound (send_enc_msg_frp_server).     *)
SentDecodes == conf.tcp_mux \/ conf.v2 \/ ~conf.tls => AllSent

(* "if the message is still incomplete the data stays in the evbuffer [...] *)
(* and the next recv_cb continues decryption" (recv_cb).                    *)
SplitHandled == wire["ctl"] = <<>> => Len(x.handled) = Expected

(* Protocol v1 over TLS without tcp_mux: what xfrpc says gets to frps,      *)
(* since callers of bufferevent_getfd "fall back to bufferevent_write()",   *)
(* and what frps says is handled, also when it comes in pieces.  The two    *)
(* are joined by \/ so that a behaviour that refutes the property refutes   *)
(* each of them.                                                            *)
NonMuxSound == AllSent \/ SplitHandled

\* What the local service should get of what the user has sent.
Meant == IF frps.sent # <<>> /\ frps.sent[1] = G1 THEN Drop(frps.sent, 4) ELSE frps.sent

(* The local service gets the user's bytes, decrypted and without the       *)
(* negotiation, in order and without gaps; and nothing of a connection that *)
(* is refused.  Excepted: an XDPI client that has connected again.          *)
LocalPrefix ==
    ~cut => \/ \A i \in DOMAIN x.pc.conns : IsPrefix(x.pc.conns[i], Meant)
            \/ conf.kind = "xdpi" /\ Len(x.pc.conns) > 1

(* While the local end is open nothing is held back: once the reads have    *)
(* been handled, all the user has sent is on its way.                       *)
LocalComplete ==
    Quiet /\ x.pc.bev = "open" /\ Len(x.pc.conns) = 1 => x.pc.conns[1] = Meant

(* A work connection is bridged in the hours of the proxy, and only then:   *)
(* once StartWorkConn has been handled its proxy is set, and a local        *)
(* connection is never begun outside the hours.                             *)
ServedInHours ==
    LET open == InWindow(conf.hours[1], conf.hours[2], Hour)
    IN  /\ x.pc.ps \/ x.pc.conns # <<>> => open
        /\ Quiet /\ frps.start /\ x.pc.live /\ open => x.pc.ps
=============================================================================
