------------------------------- MODULE Bridge -------------------------------
(***************************************************************************)
(* A proxy client and the local end it bridges to, for the four ways bytes *)
(* of the remote user reach the local service: as they are ("tcp"),         *)
(* decrypted ("enc", src/crypto_stream.c), after a SOCKS5 negotiation       *)
(* ("socks5") and after a look at the protocol ("xdpi"); src/proxy_tcp.c    *)
(* and src/client.c.  Pure operators on the record of a client.             *)
(***************************************************************************)
EXTENDS Wire

(* conns is history: the bytes handed to each local connection the client   *)
(* had; replies counts the answers to a SOCKS5 greeting.                    *)
NoClient ==
    [live |-> FALSE, st |-> "INIT", ps |-> FALSE, bev |-> "none", fwd |-> FALSE,
     state |-> "INIT", buf |-> <<>>, xdpi |-> "INIT", dec |-> NoCoder,
     tail |-> <<>>, rx |-> <<>>, magic |-> FALSE, conns |-> <<>>, replies |-> 0]

\* new_proxy_client; with tcp_mux the SYN goes out at once.
NewClient(tcp_mux) ==
    [NoClient EXCEPT !.live = TRUE, !.st = IF tcp_mux THEN "SYN_SEND" ELSE "INIT"]

\* del_proxy_client_by_stream_id; what the local connections got is kept.
\* Mutation: the local bufferevent is not freed.
MutDel(c) == [NoClient EXCEPT !.bev = c.bev, !.conns = c.conns]

Del(c) == [NoClient EXCEPT !.conns = c.conns, !.replies = c.replies]

\* evbuffer_add, evbuffer_zc_transfer or bufferevent_write to the local output
Forward(c, bytes) == [c EXCEPT !.conns[Len(c.conns)] = @ \o bytes]

\* connect_server, socks5_proxy_connect
Connect(c) == [c EXCEPT !.bev = "connecting", !.conns = Append(@, <<>>)]

-----------------------------------------------------------------------------
(* Decryption: proxy_crypto_decode_evbuffer.  Without a whole IV nothing is *)
(* read; the caller decides whether the bytes are kept.                     *)
Decode(c, bytes) == handle_enc_msg(c.dec, bytes)

DecodeWaits(c, bytes) == c.dec = NoCoder /\ Len(bytes) < 2

ForwardDecoded(c, bytes) ==
    LET r == Decode(c, bytes) IN Forward([c EXCEPT !.dec = r.coder], r.out)

-----------------------------------------------------------------------------
(* SOCKS5.  The greeting is g1 (version, count and the first method) and g2 *)
(* (a second method); the request is r1 (up to the type of address) and r2  *)
(* (address and port).                                                      *)

G1 == <<"g1">>
G2 == <<"g2">>
R1 == <<"r1">>
R2 == <<"r2">>

\* SOCKS5_INIT: the reply goes out before the list of methods is complete.
Greet(c) ==
    CASE c.buf[1] # G1 -> [c EXCEPT !.state = "CLOSED"]
      [] c.buf[1] = G1 /\ Len(c.buf) < 2 -> [c EXCEPT !.replies = @ + 1]
      [] OTHER -> [c EXCEPT !.replies = @ + 1, !.state = "HANDSHAKE", !.buf = Drop(@, 2)]

\* SOCKS5_HANDSHAKE; ok: the connection to the target could be started.
\* Mutation: what follows the request is dropped.
MutRequest(c, ok) ==
    CASE c.buf[1] # R1 -> [c EXCEPT !.state = "CLOSED"]
      [] c.buf[1] = R1 /\ (Len(c.buf) < 2 \/ ~ok) -> c
      [] OTHER -> [Connect(c) EXCEPT !.state = "CONNECT", !.buf = <<>>]

Request(c, ok) ==
    CASE c.buf[1] # R1 -> [c EXCEPT !.state = "CLOSED"]
      [] c.buf[1] = R1 /\ (Len(c.buf) < 2 \/ ~ok) -> c
      [] OTHER -> [Forward(Connect(c), Drop(c.buf, 2)) EXCEPT
                     !.state = "CONNECT", !.buf = <<>>]

Negotiate(c, ok) ==
    LET d == IF c.state = "INIT" /\ c.buf # <<>> THEN Greet(c) ELSE c
    IN  IF d.state = "HANDSHAKE" /\ d.buf # <<>> THEN Request(d, ok) ELSE d

\* An established client without its local end does not read the bytes.
Socks5Unread(c) == c.state = "ESTABLISHED" /\ c.bev = "none"

handle_socks5(c, bytes, ok) ==
    CASE Socks5Unread(c) -> c
      [] c.state = "ESTABLISHED" /\ c.bev # "none" -> Forward(c, bytes)
      [] OTHER -> Negotiate([c EXCEPT !.buf = @ \o bytes], ok)

-----------------------------------------------------------------------------
(* XDPI.  The protocol is told by its first two tokens, b1 and b2.          *)

B1 == <<"b1">>
B2 == <<"b2">>

\* xdpi_engine: the verdict is final, and it is reached on what is there.
xdpi_engine(c) ==
    CASE c.xdpi # "INIT" -> c.xdpi = "VERIFIED"
      [] OTHER -> Len(c.buf) >= 2 /\ c.buf[1] = B1 /\ c.buf[2] = B2

handle_xdpi(c, bytes, ok) ==
    LET d == [c EXCEPT !.buf = @ \o bytes]
        v == [d EXCEPT !.xdpi = "VERIFIED"]
        w == IF d.bev = "none" THEN Connect(v) ELSE v
    IN  IF c.xdpi = "VERIFIED" /\ c.bev # "none" THEN Forward(c, bytes)
        ELSE IF ~xdpi_engine(d) THEN [d EXCEPT !.xdpi = "BLOCKED", !.buf = <<>>]
        ELSE IF d.bev = "none" /\ ~ok THEN v
        ELSE [Forward(w, w.buf) EXCEPT !.buf = <<>>]
=============================================================================
