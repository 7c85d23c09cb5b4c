# A TLA+ model of xfrpc for the ESP32

xfrpc is a client of the frp reverse proxy. It keeps one control connection to
the server, frps, registers proxies on it, and for each user of a proxy bridges
a *work connection* to a service on the local network. This directory models
the parts of it whose correctness depends on the order in which things happen,
model-checks them with TLC on small instances, and proves the central
invariants with TLAPS for all sizes.

Paths below are relative to the repository (`src/` there is `src/src/` in
`PROJECT.json`).

## 1. Inventory

| Part | Source | State | Operations | Modelled by |
|---|---|---|---|---|
| tcp_mux streams | `src/tcpmux.c` | per stream: state, send and receive window; table `all_stream` | encode and send frames; `process_flags`, `incr_send_window`, `process_data`, `tmux_stream_write`, `tmux_stream_close` | `Tmux`, `MuxTunnel` |
| frame parser | `handle_tcp_mux` in `src/control.c` | half-read header, bytes left of a payload, current stream | cut the byte stream into frames | `Receive` |
| proxy clients | `src/client.c` | table `all_pc`; per client: local bufferevent, `pending_close`, `work_started`, `enc_pending`, data tail | create, start the tunnel, disconnect, delete | `MuxTunnel`, `Bridge`, `LoopClients` |
| TCP forwarding, SOCKS5, XDPI | `src/proxy_tcp.c` | cipher state, stash, negotiation buffer and state | `tcp_proxy_c2s_cb`, `tcp_proxy_s2c_cb`, `proxy_crypto_decode_evbuffer`, `handle_socks5`, `handle_xdpi` | `MuxTunnel` (up), `Bridge` (down) |
| control connection | `src/control.c`, `src/login.c` | `main_ctl`, login flag, status, timers, `pong_time`, back-off count | connect, log in, register proxies, heartbeat, time out, reconnect | `Control` |
| control messages | `src/control.c`, `src/crypto.c`, `src/wire_v2.c`, `src/aead_stream.c` | coders with IV and position, v2 receive buffer, nonce counters | frame, encipher, decipher, take apart, dispatch by type | `Wire`, `Receive` |
| event loop | `port/mini_event.c` | list of bufferevents, timers, sockets, break and stop flags | `event_base_dispatch` and what it calls | `EventLoop`, `LoopClients`; flags and timers in `Control` |
| TLS | `port/mini_event_ssl.c`, `port/tls.c` | handshake done or not; the shared TLS configuration | handshake, classify the result, init, clean up | `Control`, `XfrpcApi` |
| public API | `port/xfrpc_api.c`, `src/xfrpc.c` | `g_api.running`, `g_fatal`, the state last reported | the start calls, `xfrpc_stop`, the event task | `XfrpcApi` |
| configuration | `src/config.c` | `c_conf`, `all_ps` | load from C structures, INI, TOML; defaults; validation | `Config`, `XfrpcApi` |
| health checks | `src/health_check.c` | per proxy: failures, connection, timer, verdict | start, check, judge, schedule, stop | `HealthCheck`, `LoopClients` |
| service hours | `src/control.c`, `src/health_check.c` | none | two formulas for one window | `ServiceHours` |
| messages, logging | `src/msg.c`, `src/debug.c`, ... | none that matters here | conversions | not modelled |
| QUIC | `src/quic_client_transport.c` | | | stub in the ESP32 build |

How they interact. One task runs the event loop; every callback runs to its
end on it. Concurrency comes from outside that task: the application calls
`xfrpc_stop` from its own task, and the network, frps, the remote users and the
local services act at any time. All work connections share the control
connection, so a protocol error on one stream ends all of them. What makes the
code hard to test is listed, line by line, under `hazards` in `PROJECT.json`;
in short: windows that run out at an awkward moment, reads that end in the
middle of a header, an IV or a negotiation, ends of a connection that close
while the other still sends, callbacks that free what the loop is about to
visit, several ways to lose the control connection racing with the timers that
bring it back, and a stop or restart at any time.

## 2. Modules

`Tmux` holds the pure operators of a stream, under the names of the code:
`process_flags`, `get_send_flags`, the window arithmetic, what a write may move
and what a close does.

`MuxTunnel` is a set of work connections over one mux session. `pc[id]` is the
proxy client with its stream, `to_frps` and `to_client` the two directions of
the control connection as queues of frames, `local[id]` the service, and
`frps[id]` the server's end of the stream. A handler of xfrpc is one action: it
computes the client's new record and the frames it queues (`Finish`), all calls
it makes included. `LocalRead`, for example, is `bev_read_input` with
`tcp_proxy_c2s_cb` and the series of `tmux_stream_write` calls in it. Bytes are
numbered, so that order, loss and repetition are visible; ciphertext is the
negated number; one frp message counts as one unit. The server's end follows
yamux as frps uses it and is marked external: it accepts a stream with a full
window, returns credit when half of it is free, aborts the session when a
window is overrun or a FIN comes twice, and resets a half-closed stream after a
timeout. When frps aborts the session the behaviour ends, because the loss of
the control connection drops every stream; what follows is `Control`'s subject.
The read of freed memory in `process_data` after a failed start of a tunnel is
a choice between its outcomes.

`BytePipe` is what a connection promises in one direction: what goes in comes
out, in order, without gaps or repetitions, and may be cut at its end.
`MCMuxTunnel` instantiates it for each direction and adds the invariants that
sum over frames in flight.

`Wire` says how control messages are put on the wire and taken off it, in both
wire protocols. A byte is a token; what the code reads in one piece is two
tokens where it must cope with half of it. A coder works by position, so a
message that is enciphered or deciphered out of turn is unreadable from then
on. `Bridge` is a proxy client seen from frps: the four ways in which bytes of
the user reach the local service (plain, decrypted, behind a SOCKS5
negotiation, behind the XDPI gate). `Receive` joins them to `recv_cb`: frps
writes frames and messages, TCP cuts them into reads of any length, and
`handle_tcp_mux` goes through a read one turn of its loop at a time. Without
tcp_mux, `handle_non_mux` reads the control channel and the work connection as
connections of their own. In protocol v2 frps may put the magic in front of
what it writes on a stream, and its ServerHello may be one that xfrpc rejects,
after which nothing of the session is handled. Sessions end at any point and
the next one begins, so whatever a session leaves in a static is met by its
successor. The windows are left to `MuxTunnel`.

`EventLoop` is the memory of the loop: blocks, the list of bufferevents and the
sockets, with an allocator that hands out the lowest free block and descriptor,
which makes reuse as early as it can be. `HealthCheck` has the handlers of the
health checks on that state. `LoopClients` is a pass of the loop over the
bufferevents of the control connection, two clients and a check: `select`, the
timers that are due, and the walk, one callback per step, with the pointer the
walk has saved (`cur`) as a variable. What a callback reads and writes matters
only by what it allocates and frees.

`ServiceHours` has both formulas for the daily window of a proxy beside the one
definition they should agree with.

`Config` loads a configuration from a source: C structures, INI or TOML. A
source is a record of options, each given or left out; the three loaders differ
in defaults and checks as they do in the code.

`Control` is the control connection on the event loop: connecting, with or
without TLS, logging in, registering proxies, heartbeats and the server
timeout, losing the connection, backing off and coming back. `ctl` gathers
`main_ctl` with the statics that `clear_main_control` resets; `ctl.session`
names what a session leaves behind. Time passes in ticks of a second (`Tick`),
and not while this host has something to do. The wall clock, which the server
timeout reads, may be set forward (`ClockStep`). What the handlers do when a
call of theirs fails is there too: a login that cannot be sent is fatal
(`Login`), a heartbeat that cannot be set up leaves the connection without one
(`KeepControlAlive`), and a reconnect timer that cannot be made is replaced by
an immediate reconnect (`ConnectionFailure`). Each of these counts against
`MaxFaults`. It is the tcp_mux build; the messages are `Wire`'s subject.

`XfrpcApi` extends `Control` with the application: starts from any source,
those that are refused at each check, stops from another task (the read of
`main_ctl` and the write of the flag are two steps), the event task from its
first to its last report, and restarts with another configuration.

`MCReceive`, `MCLoopClients` and `MCXfrpcApi` hold the configurations of the
runs. `MuxTunnelProofs`, `XfrpcApiProofs`, `ConfigProofs` and
`ServiceHoursProofs` hold the theorems.

## 3. Runs

Passing runs:

* **tunnel** (`MCMuxTunnel.cfg`, 417,000 states): one unencrypted connection,
  windows 2 (initial), 4 (yamux) and 5 (xfrpc), frames of up to 2, 5 bytes up
  and 2 down. No window goes below zero (`TypeOK`); the client never writes
  beyond its credit (`FlowControl`) and frps never has to abort for it
  (`NoWindowAbort`); credit is conserved exactly in both directions
  (`CreditConserved`, `RecvWindowHolds`); no data follows a FIN
  (`NoDataAfterFin`); a tunnel that is being set up or is up loses nothing to
  the message parser (`TunnelBytesNotParsed`); and each direction refines a
  byte pipe (`UpIsPipe`, `DownIsPipe`).
* **tunnel_encrypted** (`MCTunnelEnc.cfg`, 30,000 states): with encryption, and
  windows of 2 so that stalls are frequent. Bytes stay in order across the
  stash (`UpOrdered`); downwards the connection is still a pipe; and under
  fairness a client whose local end or whose stream at frps is gone is removed
  (`ClosedClientFreed`, `RemoteCloseFreed`).
* **receive** (`MCReceive.cfg`, 1,175,000 states): 21 configurations, from
  tcp_mux or not, v1 or v2, with the magic or not, TLS or not, the four kinds of
  proxy and windows of hours; two sessions. The parser stays in step with the frames (`InStep`) and
  never waits for the payload of a client that is gone (`CurLive`); control
  messages are handled once, in order (`ControlHandled`); frps can decipher what
  it gets (`SentDecodes`); the local service gets the user's bytes in order,
  without the negotiation (`LocalPrefix`), and all of them (`LocalComplete`);
  and only in the hours of its proxy (`ServedInHours`). Where the code does not
  keep one of these, the property names the case; section 5 lists them.
* **loop** (`MCLoopClients.cfg`, 2,960,000 states): two clients, one health
  check, two sessions, with and without tcp_mux, TCP and HTTP checks. A
  bufferevent that is connecting has a socket (`TypeOK`, `CanConnect`). The saved
  pointer of the walk
  stays in the list (`WalkSound`), because new bufferevents go to its head: those
  of a client are visited before the control connection, whose callbacks free
  them; no connect is reported
  for another socket with the same number (`NoFalseConnect`); every pointer of a
  session, client or check is live and no callback has lost its context
  (`PointersLive`); open sockets are those of the list (`SocketsOwned`); a check
  is either scheduled or under way, never both (`HcDriven`), and does not hang
  (`HcOnTime`).
* **api** (`MCXfrpcApi.cfg`, 201,000 states): two starts from 15 sources (three
  good ones, one of each kind, and twelve that are refused for different
  reasons), one stop, three faults. A dead connection always has a retry
  pending (`LossRetried`); every attempt starts clean (`SessionClean`); silence
  is noticed within the timeout and one heartbeat (`PongBounded`); the loop only
  runs on a complete configuration (`ConfigComplete`); who is logged in has
  registered the proxies of this configuration on this session
  (`ProxiesRegistered`); the certificates are those of this start (`TlsFresh`);
  LOGIN_OK is what the application was told last exactly while the client is
  logged in (`LoginReported`); without TLS the client always logs in again
  (`Recovers`); and a stop that reaches the loop ends the task (`StopHonoured`).

Runs that show where the code departs from what its comments and documents say.
Each departure is a finding in `PROJECT.json`, with the line it contradicts. Where
a run has several, its property is their disjunction: the behaviour TLC finds
refutes each of them.

* **tunnel_disconnect** (`CleanDisconnect`), the end of an encrypted local
  connection. Bytes read together with the end leave unencrypted
  (`UpEncrypted`); bytes still in the input are dropped when the window is
  exhausted (`FlushedBeforeFin`); `pending_close` is not cleared, so two
  WINDOW_UPDATE frames bring two FINs and frps aborts the whole session
  (`SingleFin`).
* **tunnel_stash** (`StashFlushed`): the encrypted remainder waits for more local
  data instead of for the window; a service that waits for an answer waits for
  ever.
* **api_tls_refused** (`TlsRetried`): with TLS, a refused connection is never
  retried, since every pass of the loop arms the reconnect timer anew
  (`FailedRetried`); and a handshake is never aborted, since `connect_event_cb`
  does not look at the event its deadline brings (`HandshakeEnds`).
* **api_stop** (`StopEndsTask`): a stop before the control structure exists is
  lost.
* **api_restart** (`CleanEnd`), the end of a task that was stopped. The table of
  streams keeps the stream of the freed control structure (`StreamTableLive`);
  RECONNECTING is reported before every end (`RetriedAfterReconnecting`); and
  `g_fatal` is never reset, so the end is reported as FATAL when an earlier task
  had a fatal error (`FatalTrue`).
* **api_documented** (`AsDocumented`), a running client. `xfrpc_is_connected`
  stays true from the loss of the connection until the reconnect timer fires
  (`StatusTrue`); CONNECTED is never reported (`ConnectedTold`); a
  `heartbeat_timeout` that equals the interval is accepted (`TimeoutGreater`).
* **receive_no_mux** (`NonMuxSound`), protocol v1 over TLS without tcp_mux.
  Nothing enciphered is sent, because the raw descriptor is asked for and there
  is none (`AllSent`); half a message is not kept for the next read
  (`SplitHandled`).

Bounds. The tunnel runs have one client: clients share only the queue of
frames, and the proofs below cover any number. The windows differ from each
other and from the frame size so that each cap and each remainder is met; five
bytes fill the window, stall, and go on after credit. In `receive` three tokens
in flight (`MaxWire`) let a read end inside every header, IV and negotiation and
hold parts of two frames; two bytes of the user tell order from loss; the second
session meets what the first has left. In `loop` there are fewer descriptors (3)
than connections that may be wanted (4, or 6 without tcp_mux), so exhaustion and
reuse both happen. `RetryCap`
is where the back-off stops growing, `MaxRetryDelay` = 3 is met by the second
attempt. Three faults are enough for a loss, a failed retry and a loss after
recovery. One stop in `api` falls anywhere in either of the two starts, with the
other start before or after it; the proofs cover any number. Deadlock checking is off because a connection may simply be over,
because the counters of sessions and faults are bounded, and because the
application need not call.

Fairness. The loop serves every ready descriptor and timer in each pass, so
its handlers are weakly fair; TCP delivers; frps reads, answers and runs its
close timer. Nothing is assumed of the local service, the remote user or the
application, and faults are never forced. `Recovers` is restricted to
connections without TLS because of the findings of **api_tls_refused**, and it
excepts a connection whose heartbeat could not be set up (`Unwatched`).

## 4. Proofs

`MuxTunnelProofs` proves, for every number of clients, all window and frame
sizes with `0 < InitialSendWindow <= MaxYamuxWindow <= MaxStreamWindow` and
`0 < MaxFrame`, with and without encryption:

* `TypeCorrect`: `Spec => []TypeOK`;
* `FlowControlHolds`: `Spec => []FlowControl`;
* `NoDataAfterFinHolds`: `Spec => []NoDataAfterFin`.

The inductive invariant `IInv` joins the three. `NoDataAfterFin` needs two
facts more: once the FIN of a stream is out, its client is closed or deleted
and cannot write (`FinSent(id) => Shut(pc[id])`), and no FIN of an id precedes
its client. Type correctness of frps's end needs that its receive window stays
within the maximum. The argument goes by handlers: a lemma for each operator
(`WriteLemma`, `DisconnectLemma`, `IncrStepLemma`, ...) shows that its result
is well typed, within credit, and has no data behind a FIN (`ResultOK`);
`FinishLemma` shows once that queueing such a result preserves the invariant;
one lemma per action does the rest.

`XfrpcApiProofs` proves all safety properties of the run **api** for every set
of sources (any number of proxies, any heartbeat, also nonsense that is
refused), every back-off and any number of starts, stops and faults:
`TypeCorrect`, `LossRetriedHolds`, `SessionHolds` (`SessionClean`),
`PongBoundedHolds`, `ConfigCompleteHolds`, `ProxiesRegisteredHolds`,
`TlsFreshHolds` and `LoginReportedHolds`. The inductive invariant `IInv` has two halves. `CtlOK` is
what the callbacks keep of the connection alone. Its interesting conjunct is
the one behind `PongBounded`: the age of the last Pong *plus what the heartbeat
ticker has left* stays within the timeout and one interval, so that a tick moves
weight from one to the other and only a heartbeat that finds the timeout not yet
passed may wind the ticker up again. A connection may be without a ticker, so
that a Pong can only be on its way where there is one is part of it. `TaskOK`
and `CertsOK` tie the connection to where the event task is: there is none
outside the loop, a requested reconnect has already cleared it, and the
certificates are loaded exactly while the task may connect. The
lemmas follow the handlers (`FailureLemma`, `PongLemma`, `HeartbeatLemma`,
`ReconnectingLemma`, ...). The
assumptions are `ConfigAssumption` and `ControlAssumption` on the constants:
the default heartbeat passes the code's own check, and the back-off is at least
two seconds and constant from `RetryCap` on.

`ConfigProofs` proves of all sources, of all three kinds, that a configuration
which loads is complete (`LoadComplete`), that its service hours are hours of
the day unless it comes from TOML (`LoadHours`), and that a source that asks for
TLS gets it or is refused (`TlsKept`). `XfrpcApiProofs` rests on the first. The
table of proxies is defined by what counts for each name: the last entry
(`NamedLast`), or for INI, where sections of one name are merged, the last one
that gives the option (`MergedValue`). No induction over the list is needed.

`ServiceHoursProofs` proves that `is_service_available` is the arc of the clock
from `start_time` up to `end_time`, across midnight too (`ServedOnArc`), and
that the health checks' own formula never disagrees with it (`HoursAgree`).

Only model-checked: the liveness properties (fairness is out of the prover's
reach), the sums over queues (`CreditConserved`, `RecvWindowHolds`), the
refinement of `BytePipe`, `Receive` (its parsers are recursive operators, which
the prover cannot use) and `LoopClients`.

## 5. What the models had to leave room for

Reading the code closely enough to model it showed places where it does less
than one would wish. Those that contradict a line of the repository are the
findings of section 3. The others are kept in the models as they are, and the
properties name them as exceptions:

* Framing (`InStep`): the payload of a deleted client that arrives in several
  reads is not skipped to its end (`src/control.c:1652`), and a SOCKS5 client
  that has lost its local end leaves its bytes in the input
  (`src/proxy_tcp.c:240`); in both cases payload is then read as a header.
* XDPI (`CurLive`, `LocalPrefix`): a client whose local end has closed connects
  again in the middle of the user's stream; a banner split over two reads is
  judged by its first part.
* SOCKS5: the greeting is answered again when its methods come in two reads.
* Without tcp_mux (`ControlHandled`, `LocalPrefix`, `LocalComplete`: the variable
  `cut`): in protocol v1 a read has to hold whole messages, the split ones being
  a finding, and not two of them; half an IV behind StartWorkConn is lost, and
  whole bytes behind it are delivered after later ones. SOCKS5 and XDPI clients
  get no callback for what frps sends. In protocol v2 the magic has to come
  whole, it is not stripped again in a later session, and the receive buffer
  survives the loss of a session. `SentDecodes` leaves out v1 over TLS, where
  nothing is sent: that is the finding.
* Heartbeat (`Recovers`): when the timer of the heartbeat cannot be made, the
  connection goes on without one, and a peer that falls silent is not noticed.
* Without tcp_mux (`PointersLive`, `SocketsOwned`): the bufferevent of a work
  connection outlives the client it calls back for.
* Health checks: an HTTP answer that arrives with the end of its stream is
  judged failed, because the loop reports only the end; a service that drips its
  status line restarts the timeout with every byte; when no socket is left, the
  check counts as failed although the service was not asked. The registration
  skips unhealthy proxies, but checks begin after it.
* Configuration (`LoadHours`): TOML takes any number for an hour.
* `tcp_mux_flag` remembers the setting of the first start.

## 6. Not modelled

* The arithmetic of ciphers and of compression: ciphertext is a symbol with a
  key, a position and a text, which is what order and loss depend on.
* The texts of messages and configuration files: conversions without state. A
  source is the record of options a parser finds.
* The send window of the control stream: frps returns its credit as it reads,
  and a message is far below the initial 256 KiB. The bound of a local output
  buffer: the code has none.
* A wall clock that is set back: it puts the server timeout off by as much, and
  nothing in the repository bounds it.
* UDP, plugins, visitors and NAT hole punching are stubs in the ESP32 build, as
  is QUIC. mbedtls, lwip, FreeRTOS, snappy and the TOML parser are third-party
  code; the models see them through their results.
