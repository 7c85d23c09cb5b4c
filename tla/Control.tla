------------------------------ MODULE Control -------------------------------
(***************************************************************************)
(* The control connection to frps (src/control.c) on the event loop of     *)
(* port/mini_event.c: connecting, logging in, heartbeats, losing the       *)
(* connection and coming back.  Its task is driven by module XfrpcApi.     *)
(*                                                                         *)
(* One tick is one second.  A timer is the number of ticks it has left, or *)
(* -1 when it is not pending; the loop makes at least ten passes a second, *)
(* so no tick goes by while a timer is due.                                *)
(***************************************************************************)
EXTENDS Config

CONSTANTS
    RetryDelay,         \* RETRY_DELAY_SECONDS, 2 in the code
    MaxRetryDelay,      \* MAX_RETRY_DELAY_SECONDS, 60
    RetryCap,           \* bound: retry_times is counted up to this number
    MaxFaults           \* bound: what may go wrong outside xfrpc

\* 1 << shift, for the shifts of reconnect_backoff_seconds
Doublings == <<1, 2, 4, 8, 16, 32>>

\* The back-off is constant from RetryCap on, and always longer than a pass of
\* the loop.
ASSUME ControlAssumption ==
    /\ RetryDelay \in Nat \ {0, 1}
    /\ MaxRetryDelay \in Nat /\ RetryDelay <= MaxRetryDelay
    /\ RetryCap \in Nat \ {0}
    /\ MaxFaults \in Nat
    /\ RetryCap < 6 => RetryDelay * Doublings[RetryCap] >= MaxRetryDelay

VARIABLES
    task,         \* where the event task is in xfrpc_loop, or "off"
    conf,         \* the configuration, c_conf and all_ps
    base,         \* which main_ctl and connect_base exist; 0 for none
    ctl,          \* main_ctl and the statics that clear_main_control resets
    all_stream,   \* the main_ctl whose stream is in the table of streams (tcp_mux)
    retry_times,  \* static of connect_event_cb
    reconnect,    \* g_reconnect_requested
    brk, stop,    \* break_flag and stop_flag of the base
    fatal,        \* g_fatal: the start that set it last; 0 while it is 0
    report,       \* the state last reported to the application
    driven,       \* the loop has made a pass in this second
    faults        \* faults so far

cvars == <<task, conf, base, ctl, all_stream, retry_times, reconnect, brk, stop,
           fatal, report, driven, faults>>

tls == conf.tls_enable
HeartbeatInterval == conf.heartbeat_interval
HeartbeatTimeout == conf.heartbeat_timeout

-----------------------------------------------------------------------------
(* The state of a connection.  bev is the control bufferevent as the loop  *)
(* treats it ("handshake" until ssl_hs_done), net the TCP connection under *)
(* it, tx and rx the messages on it.  session names what a connection      *)
(* leaves behind: a half-read frame, the ciphers, proxy clients, checks.   *)

Items == {"parser", "crypto", "clients", "health"}
Requests == {"Login", "Ping"}
Replies == {"LoginResp", "LoginRefused", "ReqWorkConn", "Pong"}

\* How long ago the last Pong came, by the wall clock: counted up to PongCap,
\* and Stepped after somebody set the clock forward.
PongCap == HeartbeatTimeout + HeartbeatInterval + 1
Stepped == PongCap + 1

Ctl == [bev: {"none", "connecting", "handshake", "open", "disabled"},
        net: {"none", "syn", "failed", "up", "silent", "closed"},
        tx: SUBSET Requests, rx: SUBSET Replies,
        is_login: BOOLEAN, status: BOOLEAN, session: SUBSET Items,
        registered: SUBSET DOMAIN conf.all_ps,
        reconnect_timer: -1 .. MaxRetryDelay,
        ticker: {-1} \cup 0 .. HeartbeatInterval, pong_age: {-1} \cup 0 .. Stepped]

Cleared == [bev |-> "none", net |-> "none", tx |-> {}, rx |-> {},
            is_login |-> FALSE, status |-> FALSE, session |-> {}, registered |-> {},
            reconnect_timer |-> -1, ticker |-> -1, pong_age |-> -1]

\* clear_main_control.  Mutations: the ciphers survive; the status survives.
MutClearCrypto(c) == [Cleared EXCEPT !.session = c.session \cap {"crypto"}]
MutClearStatus(c) == [Cleared EXCEPT !.status = c.status]

ClearMainControl(c) == Cleared

\* reconnect_backoff_seconds
Factor(n) == Doublings[IF n < 1 THEN 1 ELSE IF n > 6 THEN 6 ELSE n]

\* Mutation: the delay is not limited.
MutBackoff(n) == RetryDelay * Factor(n)

reconnect_backoff_seconds(n) ==
    LET delay == RetryDelay * Factor(n)
    IN  IF delay > MaxRetryDelay THEN MaxRetryDelay ELSE delay

Retry == IF retry_times < RetryCap THEN retry_times + 1 ELSE retry_times

\* n things go wrong, outside xfrpc or for want of memory.
Faults(n) == faults + n <= MaxFaults /\ faults' = faults + n

Fault == Faults(1)

\* clear_main_control, then the loop is left to connect again.
\* Mutation: the application is not told.
MutReconnecting(c) ==
    /\ ctl' = ClearMainControl(c)
    /\ all_stream' = {base}
    /\ reconnect' = TRUE /\ brk' = TRUE
    /\ UNCHANGED report

Reconnecting(c) ==
    /\ ctl' = ClearMainControl(c)
    /\ all_stream' = {base}
    /\ report' = "RECONNECTING"
    /\ reconnect' = TRUE /\ brk' = TRUE

\* handle_connection_failure, after n faults: one reconnect timer, armed anew;
\* without memory for it the connection is made again at once.
\* Mutation: it gives up after RetryCap attempts (MAX_RETRY_TIMES).
MutConnectionFailure(c, n) ==
    /\ ctl' = [c EXCEPT !.reconnect_timer = IF retry_times = RetryCap THEN -1
                                            ELSE reconnect_backoff_seconds(Retry)]
    /\ retry_times' = Retry
    /\ Faults(n)
    /\ UNCHANGED <<all_stream, report, reconnect, brk>>

ConnectionFailure(c, n) ==
    /\ retry_times' = Retry
    /\ \/ /\ ctl' = [c EXCEPT !.reconnect_timer = reconnect_backoff_seconds(Retry)]
          /\ Faults(n)
          /\ UNCHANGED <<all_stream, report, reconnect, brk>>
       \/ Reconnecting(c) /\ Faults(n + 1)

\* xfrpc_fatal in a task of start s: the loop ends as soon as it can, if there
\* is one.
XfrpcFatal(s) == fatal' = s /\ stop' = (stop \/ base # 0)

\* login; ok: there is memory for the message, and an OIDC token in it.
Login(c, ok) == IF ok THEN [c EXCEPT !.tx = @ \cup {"Login"}] ELSE c

\* keep_control_alive; ok: there is memory for the ticker, and the time.
KeepControlAlive(c, ok) == IF ok THEN [c EXCEPT !.ticker = 1, !.pong_age = 0] ELSE c

\* handle_connection_success: the heartbeat is set up also when the login could
\* not be sent.
ConnectionSuccess(c) ==
    /\ \E sent, alive \in BOOLEAN :
         /\ ctl' = KeepControlAlive(Login([c EXCEPT !.bev = "open"], sent), alive)
         /\ IF sent THEN UNCHANGED <<stop, fatal>> ELSE XfrpcFatal(base)
         /\ Faults(IF sent /\ alive THEN 0 ELSE 1)
    /\ retry_times' = 0
    /\ UNCHANGED <<all_stream, report, reconnect, brk>>

-----------------------------------------------------------------------------
(* The event task: run_control *)

\* init_server_connection: connect_server returns a bufferevent.
InitServerConnection(c) == [c EXCEPT !.bev = "connecting", !.net = "syn"]

\* start_base_connect, when connect_server returns a bufferevent, and the entry
\* to event_base_dispatch.  Mutation: the entry clears the stop flag too.
MutStartBaseConnect ==
    /\ task = "connect"
    /\ task' = "loop"
    /\ reconnect' = FALSE /\ brk' = FALSE /\ stop' = FALSE
    /\ ctl' = InitServerConnection(ctl)
    /\ UNCHANGED <<conf, base, all_stream, retry_times, fatal, report, driven, faults>>

StartBaseConnect ==
    /\ task = "connect"
    /\ task' = "loop"
    /\ reconnect' = FALSE /\ brk' = FALSE
    /\ ctl' = InitServerConnection(ctl)
    /\ UNCHANGED <<conf, base, all_stream, retry_times, stop, fatal, report, driven, faults>>

\* start_base_connect, when the name does not resolve or there is no route.
StartBaseConnectFails ==
    /\ task = "connect"
    /\ Fault
    /\ task' = "loop"
    /\ reconnect' = FALSE /\ brk' = FALSE
    /\ XfrpcFatal(base)
    /\ UNCHANGED <<conf, base, ctl, all_stream, retry_times, report, driven>>

Idle == ctl.bev \in {"none", "disabled"} /\ ctl.reconnect_timer = -1 /\ ctl.ticker = -1

\* event_base_dispatch returns; run_control goes round or returns.
DispatchReturns ==
    /\ task = "loop"
    /\ brk \/ stop \/ Idle
    /\ task' = IF reconnect THEN "connect" ELSE "close"
    /\ UNCHANGED <<conf, base, ctl, all_stream, retry_times, reconnect, brk, stop,
                   fatal, report, driven, faults>>

-----------------------------------------------------------------------------
(* Callbacks of the control bufferevent *)

\* A pass of the loop serves the timers first.
Handler ==
    /\ task = "loop"
    /\ ctl.ticker # 0 /\ ctl.reconnect_timer # 0
    /\ UNCHANGED <<task, conf, base>>

\* A callback that only changes the connection.
Quiet == Handler /\ UNCHANGED <<all_stream, retry_times, reconnect, brk, stop, fatal, driven, faults>>

\* bev_check_connect: without TLS the connection is ready,
Connected ==
    /\ Handler
    /\ ctl.bev = "connecting" /\ ctl.net \in {"up", "silent", "closed"} /\ ~tls
    /\ ConnectionSuccess(ctl)
    /\ UNCHANGED driven

\* with TLS the handshake begins.
TcpConnected ==
    /\ Quiet
    /\ ctl.bev = "connecting" /\ ctl.net \in {"up", "silent", "closed"} /\ tls
    /\ ctl' = [ctl EXCEPT !.bev = "handshake"]
    /\ UNCHANGED report

\* connect_event_cb on an error, after n faults
ErrorEvent(c, n) == Handler /\ ConnectionFailure(c, n) /\ UNCHANGED <<stop, fatal>>

\* It disables the bufferevent, which takes it out of the loop unless its
\* handshake is not done.
ConnectFailed ==
    /\ ctl.bev = "connecting" /\ ctl.net \in {"failed", "closed"}
    /\ ErrorEvent([ctl EXCEPT !.bev = IF tls THEN "handshake" ELSE "disabled"], 0)
    /\ UNCHANGED driven

\* bev_ssl_drive_handshake.  A handshake that hangs brings BEV_EVENT_TIMEOUT,
\* which connect_event_cb does not look at.
HandshakeDone ==
    /\ Handler
    /\ ctl.bev = "handshake" /\ ctl.net = "up"
    /\ ConnectionSuccess(ctl)
    /\ UNCHANGED driven

\* The handshake is refused: what mbedtls answers when it is driven again is
\* an error, or a wish for more data.
HandshakeRefused ==
    /\ ctl.bev = "handshake" /\ ctl.net = "up"
    /\ \E n \in {"failed", "silent"} : ErrorEvent([ctl EXCEPT !.net = n], 1)
    /\ UNCHANGED driven

\* Every pass drives a handshake that is not done, also on a failed socket.
HandshakeFails ==
    /\ ctl.bev = "handshake" /\ ctl.net \in {"failed", "closed"} /\ ~driven
    /\ ErrorEvent(ctl, 0)
    /\ driven' = TRUE

\* BEV_EVENT_EOF or BEV_EVENT_ERROR on the established connection
ConnectionLost ==
    /\ ctl.bev = "open" /\ ctl.net = "closed"
    /\ ErrorEvent([ctl EXCEPT !.bev = "disabled"], 0)
    /\ UNCHANGED driven

\* recv_cb: handle_login_response before the login, handle_control_work after.
\* The read may end in the middle of the next frame.
Received(m, mid) ==
    [ctl EXCEPT !.rx = @ \ {m},
                !.session = (@ \ {"parser"}) \cup (IF mid THEN {"parser"} ELSE {})]

\* start_proxy_services, unless they are started: the proxies are registered
\* on the encrypted channel and their health checks begin.
StartProxyServices(c) ==
    IF c.status THEN c
    ELSE [c EXCEPT !.status = TRUE, !.registered = DOMAIN conf.all_ps,
                   !.session = @ \cup {"crypto", "health"}]

\* handle_login_response
RecvLoginResp ==
    /\ Quiet
    /\ ctl.bev = "open" /\ "LoginResp" \in ctl.rx /\ ~ctl.is_login
    /\ \E mid \in BOOLEAN :
         ctl' = StartProxyServices([Received("LoginResp", mid) EXCEPT !.is_login = TRUE])
    /\ report' = "LOGIN_OK"

\* A refused login is logged; frps ends the connection or the timeout does.
RecvLoginRefused ==
    /\ Quiet
    /\ ctl.bev = "open" /\ "LoginRefused" \in ctl.rx
    /\ ctl' = Received("LoginRefused", FALSE)
    /\ UNCHANGED report

\* handle_type_req_work_conn / new_client_connect
RecvReqWorkConn ==
    /\ Quiet
    /\ ctl.bev = "open" /\ "ReqWorkConn" \in ctl.rx /\ ctl.is_login
    /\ \E mid \in BOOLEAN :
         ctl' = StartProxyServices(
                    [Received("ReqWorkConn", mid) EXCEPT !.session = @ \cup {"clients", "crypto"}])
    /\ UNCHANGED report

\* handle_control_work, TypePong
RecvPong ==
    /\ Quiet
    /\ ctl.bev = "open" /\ "Pong" \in ctl.rx /\ ctl.is_login
    /\ \E mid \in BOOLEAN : ctl' = [Received("Pong", mid) EXCEPT !.pong_age = 0]
    /\ UNCHANGED report

-----------------------------------------------------------------------------
(* Timers *)

\* Mutation: the timer is set again only while connected.
MutRescheduled(c) == IF c.status THEN HeartbeatInterval ELSE -1

Rescheduled(c) == HeartbeatInterval

\* ping writes to a bufferevent that may be disabled.
Ping(c) == [c EXCEPT !.tx = IF c.bev = "open" THEN @ \cup {"Ping"} ELSE @]

\* check_server_timeout
ServerTimeout(c) == c.pong_age > HeartbeatTimeout

\* heartbeat_handler
Heartbeat ==
    /\ task = "loop"
    /\ ctl.ticker = 0
    /\ LET c == [IF ctl.status THEN Ping(ctl) ELSE ctl EXCEPT !.ticker = Rescheduled(ctl)]
       IN  IF ServerTimeout(c) THEN Reconnecting(c)
           ELSE ctl' = c /\ UNCHANGED <<all_stream, report, reconnect, brk>>
    /\ UNCHANGED <<task, conf, base, retry_times, stop, fatal, driven, faults>>

\* reconnect_timer_cb
ReconnectTimer ==
    /\ task = "loop"
    /\ ctl.reconnect_timer = 0
    /\ Reconnecting(ctl)
    /\ UNCHANGED <<task, conf, base, retry_times, stop, fatal, driven, faults>>

Less(timer) == IF timer > 0 THEN timer - 1 ELSE timer

\* What this host, or frps, answers within the second when nothing is wrong.
LocalWork ==
    \/ ctl.bev = "connecting" /\ ctl.net \in {"up", "silent", "closed", "failed"}
    \/ ctl.bev = "handshake" /\ ctl.net \in {"failed", "closed"} /\ ~driven
    \/ ctl.bev = "open" /\ (ctl.net = "closed" \/ ctl.rx # {})

RemoteWork ==
    \/ ctl.net = "syn"
    \/ ctl.net = "up" /\ (ctl.bev = "handshake" \/ ctl.tx # {})

Tick ==
    /\ task = "loop" /\ ~brk /\ ~stop
    /\ ctl.reconnect_timer # 0 /\ ctl.ticker # 0
    /\ ~LocalWork
    /\ Faults(IF RemoteWork THEN 1 ELSE 0)
    /\ ctl' = [ctl EXCEPT !.reconnect_timer = Less(@), !.ticker = Less(@),
                          !.pong_age = IF @ \in 0 .. PongCap - 1 THEN @ + 1 ELSE @]
    /\ driven' = FALSE
    /\ UNCHANGED <<task, conf, base, all_stream, retry_times, reconnect, brk, stop,
                   fatal, report>>

-----------------------------------------------------------------------------
(* The network and frps *)

Outside ==
    UNCHANGED <<task, conf, base, all_stream, retry_times, reconnect, brk, stop,
                fatal, report, driven>>

FrpsAccepts ==
    /\ Outside
    /\ ctl.net = "syn"
    /\ ctl' = [ctl EXCEPT !.net = "up"]
    /\ UNCHANGED faults

FrpsAnswers ==
    /\ Outside
    /\ ctl.net = "up"
    /\ \E m \in ctl.tx :
         ctl' = [ctl EXCEPT !.tx = @ \ {m},
                            !.rx = @ \cup {IF m = "Login" THEN "LoginResp" ELSE "Pong"}]
    /\ UNCHANGED faults

FrpsReqWorkConn ==
    /\ Outside
    /\ ctl.net = "up" /\ ctl.is_login
    /\ "clients" \notin ctl.session
    /\ ctl' = [ctl EXCEPT !.rx = @ \cup {"ReqWorkConn"}]
    /\ UNCHANGED faults

FrpsRefusesLogin ==
    /\ Outside /\ Fault
    /\ ctl.net = "up" /\ "Login" \in ctl.tx
    /\ ctl' = [ctl EXCEPT !.tx = @ \ {"Login"}, !.rx = @ \cup {"LoginRefused"}]

\* The connection is refused, closed, or falls silent.
NetworkFault ==
    /\ Outside /\ Fault
    /\ \/ ctl.net = "syn" /\ ctl' = [ctl EXCEPT !.net = "failed"]
       \/ ctl.net = "up" /\ \E n \in {"closed", "silent"} : ctl' = [ctl EXCEPT !.net = n]

\* SNTP sets the clock that check_server_timeout reads.
ClockStep ==
    /\ Outside /\ Fault
    /\ ctl.pong_age >= 0
    /\ ctl' = [ctl EXCEPT !.pong_age = Stepped]

Callback ==
    \/ Connected \/ TcpConnected \/ ConnectFailed
    \/ HandshakeDone \/ HandshakeRefused \/ HandshakeFails \/ ConnectionLost
    \/ RecvLoginResp \/ RecvLoginRefused \/ RecvReqWorkConn \/ RecvPong

Environment ==
    \/ FrpsAccepts \/ FrpsAnswers \/ FrpsReqWorkConn
    \/ FrpsRefusesLogin \/ NetworkFault \/ ClockStep

RunControl ==
    \/ StartBaseConnect \/ StartBaseConnectFails \/ DispatchReturns
    \/ Callback \/ Heartbeat \/ ReconnectTimer \/ Tick
    \/ Environment
=============================================================================
