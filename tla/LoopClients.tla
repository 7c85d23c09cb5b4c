---------------------------- MODULE LoopClients -----------------------------
(***************************************************************************)
(* The bufferevents of the control connection, of work connections, of      *)
(* local connections and of health checks on one event loop, which create   *)
(* and free each other in their callbacks while event_base_dispatch walks   *)
(* over the list: port/mini_event.c with the callbacks of src/control.c,    *)
(* src/client.c and src/health_check.c.                                     *)
(*                                                                         *)
(* A pass of the loop is select, the timers that are due, and the walk,     *)
(* one bufferevent at a time.  cur is the pointer the walk has saved before *)
(* it called the last callback.  What the callbacks read and write is left  *)
(* to Receive and MuxTunnel; here it matters what they allocate and free.   *)
(***************************************************************************)
EXTENDS HealthCheck

CONSTANTS
    Confs,        \* configurations: [tcp_mux, http, hours]
    Clients,      \* clients made in a behaviour, 1 .. n
    Proxies,      \* proxies with a health check, a set of positive numbers
    MaxSessions   \* bound: connections to frps in a behaviour

VARIABLES
    conf,  \* the configuration
    pos,   \* where event_base_dispatch and run_control are
    cur,   \* the bufferevent the walk comes to next; 0: none
    rfds,  \* what select() has reported
    wfds,
    y      \* everything the callbacks change

vars == <<conf, pos, cur, rfds, wfds, y>>

NoPc == [live |-> FALSE, loc |-> 0, work |-> 0, started |-> FALSE,
         fin |-> FALSE, pending |-> FALSE, closed |-> FALSE]

-----------------------------------------------------------------------------
(* Clients *)

\* del_proxy_client_by_stream_id: a work connection is not freed with it.
DelClient(z, i) == [Freed(z, z.pc[i].loc) EXCEPT !.pc[i] = NoPc]

\* new_client_connect; without tcp_mux a work connection is opened.
NewClient(z, i, ok) ==
    LET n == [z EXCEPT !.pc[i] = [NoPc EXCEPT !.live = TRUE], !.made = i]
        c == connect_server(n, "work", i, ok)
    IN  IF conf.tcp_mux THEN n
        ELSE IF c.b = 0 THEN DelClient(n, i)
        ELSE [c.y EXCEPT !.pc[i].work = c.b]

\* handle_type_start_work_conn, start_xfrp_tunnel
StartWork(z, i, ok) ==
    LET c == connect_server(z, "local", i, ok)
    IN  IF c.b = 0 THEN DelClient(z, i)
        ELSE [c.y EXCEPT !.pc[i].loc = c.b, !.pc[i].started = TRUE]

\* tmux_stream_close; a stream both ends have closed takes the client along.
CloseStream(z, i) ==
    IF z.pc[i].fin THEN DelClient(z, i) ELSE [z EXCEPT !.pc[i].closed = TRUE]

\* handle_proxy_disconnect: without credit the close is deferred, without
\* tcp_mux there is no stream.  Mutation: local_proxy_bev is not cleared.
MutDisconnect(z, i) ==
    LET n == Freed(z, z.pc[i].loc)
    IN  IF conf.tcp_mux THEN {CloseStream(n, i), [n EXCEPT !.pc[i].pending = TRUE]} ELSE {n}

Disconnect(z, i) ==
    LET n == [Freed(z, z.pc[i].loc) EXCEPT !.pc[i].loc = 0]
    IN  IF conf.tcp_mux THEN {CloseStream(n, i), [n EXCEPT !.pc[i].pending = TRUE]} ELSE {n}

\* FIN of frps
RemoteFin(z, i) ==
    IF z.pc[i].closed THEN DelClient(z, i) ELSE [z EXCEPT !.pc[i].fin = TRUE]

-----------------------------------------------------------------------------
(* The control connection *)

\* handle_login_response, start_proxy_services
Login(z) == [health_check_start_all(z) EXCEPT !.login = TRUE]

Live(z) == {i \in Clients : z.pc[i].live}

\* One message or frame of frps: the states it may lead to.  A WINDOW_UPDATE
\* brings the close that was deferred.
Message(z) ==
    IF ~z.login THEN {Login(z)}
    ELSE {z} \cup {NewClient(z, i, ok) : i \in {z.made + 1} \cap Clients, ok \in BOOLEAN}
         \cup (IF ~conf.tcp_mux THEN {}
               ELSE {StartWork(z, i, ok) : i \in {j \in Live(z) : ~z.pc[j].started},
                                           ok \in BOOLEAN}
                    \cup {RemoteFin(z, i) : i \in {j \in Live(z) : ~z.pc[j].fin}}
                    \cup {CloseStream(z, i) : i \in {j \in Live(z) : z.pc[j].pending}}
                    \cup {DelClient(z, i) : i \in Live(z)})

\* recv_cb: one read holds one or two of them.
ControlRead(z) == Message(z) \cup UNION {Message(n) : n \in Message(z)}

\* connect_event_cb and handle_connection_failure
ControlLost(z, b) ==
    [z EXCEPT !.mem[b].enabled = FALSE, !.mem[b].connecting = FALSE, !.reconnect = TRUE]

\* clear_main_control
ClearMainControl(z) ==
    LET locals == {z.pc[i].loc : i \in Clients} \ {0}
        n      == bufferevent_free(health_check_stop_all(z), locals \cup ({z.ctl} \ {0}))
    IN  [n EXCEPT !.pc = [i \in Clients |-> NoPc], !.ctl = 0, !.login = FALSE,
                  !.reconnect = FALSE, !.ping = FALSE, !.brk = TRUE, !.sess = @ + 1]

-----------------------------------------------------------------------------
(* What visiting a bufferevent may lead to. *)

Own(z, b) == z.mem[b].own

\* bev_check_connect and the event callback
OnConnect(z, b) ==
    LET k == z.mem[b].kind
        n == Connected(z, b)
        i == Own(z, b)
    IN  CASE k = "control" -> IF ConnectError(z, b) THEN {ControlLost(z, b)}
                              ELSE {[n EXCEPT !.ping = TRUE]}
          [] k = "local"   -> IF ConnectError(z, b) THEN Disconnect(n, i) ELSE {n}
          [] k = "work"    -> IF ConnectError(z, b) THEN {DelClient(Freed(n, b), i)} ELSE {n}
          [] OTHER         -> IF ConnectError(z, b) THEN {hc_error(n, i)}
                              ELSE {hc_connected(n, i, conf.http)}

\* bev_read_input: at the end of the stream only the event callback is called.
OnRead(z, b) ==
    LET k   == z.mem[b].kind
        n   == Taken(z, b)
        i   == Own(z, b)
        eof == z.sock[z.mem[b].fd] # "data"
    IN  CASE k = "control" -> IF eof THEN {ControlLost(n, b)} ELSE ControlRead(n)
          [] k = "local"   -> IF eof THEN Disconnect(n, i) ELSE {n}
          [] k = "work" /\ ~z.pc[i].started ->
                IF eof THEN {DelClient(Freed(n, b), i)}
                ELSE {n} \cup {StartWork(n, i, ok) : ok \in BOOLEAN}
          [] k = "work" /\ z.pc[i].started ->
                IF eof THEN {[Freed(n, b) EXCEPT !.pc[i].work = 0]} ELSE {n}
          [] OTHER -> IF eof THEN {hc_error(n, i)}
                      ELSE {hc_http_read_cb(n, i, line) : line \in StatusLines}

OnTimeout(z, b) ==
    IF z.mem[b].kind = "check" /\ Expired(z.hc[Own(z, b)]) THEN {hc_error(z, Own(z, b))}
    ELSE {z}

Ready(z, b) == z.mem[b].fd \in (IF z.mem[b].connecting THEN wfds ELSE rfds)

Outcomes(z, b) ==
    IF ~Ready(z, b) THEN OnTimeout(z, b)
    ELSE IF z.mem[b].connecting THEN OnConnect(z, b) ELSE OnRead(z, b)

\* The context of its callbacks has been freed.
Orphan(z, b) == z.mem[b].kind = "work" /\ z.pc[Own(z, b)].work # b

-----------------------------------------------------------------------------
(* event_base_dispatch and run_control *)

Select(tick) ==
    /\ pos = "select"
    /\ y' = IF tick THEN [y EXCEPT !.hc = [p \in Proxies |-> Aged(@[p])]] ELSE y
    /\ rfds' = Readable(y) /\ wfds' = Writable(y)
    /\ pos' = "timers"
    /\ UNCHANGED <<conf, cur>>

Due(p) == y.hc[p].timer /\ y.hc[p].wait = 0

\* Hours a clock may show, in and out of the window of the proxy.
ClockHours == {12, 20}

HcTimer ==
    /\ pos = "timers"
    /\ \E p \in Proxies, hour \in ClockHours, ok \in BOOLEAN :
         /\ Due(p)
         /\ y' = hc_timer_cb(y, p, conf.hours, hour, ok)
    /\ UNCHANGED <<conf, pos, cur, rfds, wfds>>

\* reconnect_timer_cb
ReconnectTimer ==
    /\ pos = "timers" /\ y.reconnect
    /\ y.sess < MaxSessions
    /\ y' = ClearMainControl(y)
    /\ UNCHANGED <<conf, pos, cur, rfds, wfds>>

\* heartbeat_handler finds that the server has been silent for too long.
PingTimer ==
    /\ pos = "timers" /\ y.ping
    /\ y.sess < MaxSessions
    /\ y' = ClearMainControl(y)
    /\ UNCHANGED <<conf, pos, cur, rfds, wfds>>

\* Where a pass goes on: at bufferevent b of the list, or with the next pass.
GoTo(b) ==
    /\ cur' = b
    /\ IF b # 0 THEN pos' = "walk" /\ UNCHANGED <<rfds, wfds>>
       ELSE pos' = "select" /\ rfds' = {} /\ wfds' = {}

TimersDone ==
    /\ pos = "timers"
    /\ \A p \in Proxies : ~Due(p)
    /\ IF y.brk THEN pos' = "connect" /\ cur' = 0 /\ rfds' = {} /\ wfds' = {}
       ELSE GoTo(Head0(y))
    /\ UNCHANGED <<conf, y>>

Visit ==
    /\ pos = "walk"
    /\ IF Linked(y, cur) /\ ~(Orphan(y, cur) /\ Ready(y, cur))
       THEN y' \in Outcomes(y, cur) /\ GoTo(NextBev(y, cur))
       ELSE pos' = "wild" /\ UNCHANGED <<cur, rfds, wfds, y>>
    /\ UNCHANGED conf

\* start_base_connect in run_control; without a socket it is fatal.
Connect ==
    LET c == connect_server([y EXCEPT !.brk = FALSE], "control", 0, TRUE)
    IN  /\ pos = "connect"
        /\ y' = [c.y EXCEPT !.ctl = c.b]
        /\ pos' = IF c.b = 0 THEN "fatal" ELSE "select"
        /\ UNCHANGED <<conf, cur, rfds, wfds>>

-----------------------------------------------------------------------------
(* Peers: external *)

\* What may become of the socket of b.
Arrivals(b) ==
    LET s == y.sock[y.mem[b].fd]
    IN  CASE s = "pending" -> {"idle", "refused"}
          [] s = "idle" /\ ~y.mem[b].connecting -> {"data", "eof"}
          [] s = "data" -> {"data_eof"}
          [] OTHER -> {}

Arrive ==
    /\ pos = "select"
    /\ \E i \in DOMAIN y.bevs :
         /\ y.mem[y.bevs[i]].enabled
         /\ \E s \in Arrivals(y.bevs[i]) : y' = [y EXCEPT !.sock[y.mem[y.bevs[i]].fd] = s]
    /\ UNCHANGED <<conf, pos, cur, rfds, wfds>>

-----------------------------------------------------------------------------
Init ==
    /\ conf \in Confs
    /\ pos = "connect" /\ cur = 0
    /\ rfds = {} /\ wfds = {}
    /\ y = [mem |-> [b \in Blocks |-> NoBev], bevs |-> <<>>,
            sock |-> [f \in Fds |-> "closed"],
            hc |-> [p \in Proxies |-> NoEntry], pc |-> [i \in Clients |-> NoPc],
            made |-> 0, ctl |-> 0, login |-> FALSE, reconnect |-> FALSE, ping |-> FALSE,
            brk |-> FALSE, sess |-> 1]

Loop == \/ Select(TRUE) \/ Select(FALSE)
        \/ HcTimer \/ ReconnectTimer \/ PingTimer \/ TimersDone
        \/ Visit \/ Connect

Next == Loop \/ Arrive

Spec == Init /\ [][Next]_vars

-----------------------------------------------------------------------------
(* Properties *)

\* The state is well typed, and a bufferevent that is connecting has a socket,
\* also where the sockets run out (bufferevent_socket_connect, connect_server).
TypeOK ==
    /\ pos \in {"select", "timers", "walk", "connect", "wild", "fatal"}
    /\ cur \in Blocks \cup {0}
    /\ \A b \in Blocks : /\ y.mem[b].kind \in Kinds
                         /\ y.mem[b].fd \in IF y.mem[b].connecting THEN Fds ELSE Fds \cup {0}
    /\ \A f \in Fds : y.sock[f] \in SocketStates
    /\ \A p \in Proxies : /\ y.hc[p].age \in Nat
                          /\ y.hc[p].wait \in 0 .. Interval
                          /\ y.hc[p].failed_count \in 0 .. MaxFailed

\* The pointer the walk of event_base_dispatch has saved before a callback is
\* still in the list when the walk comes to it: bev->fd is read there before
\* bev_linked is asked.
WalkSound == pos = "walk" => Linked(y, cur)

\* BEV_EVENT_CONNECTED is never reported for a socket that is still
\* connecting: the set of select() does not outlive the bufferevent it was
\* made for, although descriptors are used again within a pass.
NoFalseConnect ==
    pos = "walk" /\ Linked(y, cur) /\ y.mem[cur].connecting /\ Ready(y, cur)
        => y.sock[y.mem[cur].fd] # "pending"

Holder(b) ==
    LET k == y.mem[b].kind
        i == Own(y, b)
    IN  \/ k = "control" /\ y.ctl = b
        \/ k = "local" /\ y.pc[i].live /\ y.pc[i].loc = b
        \/ k = "work" /\ y.pc[i].live /\ y.pc[i].work = b
        \/ k = "check" /\ y.hc[i].live /\ y.hc[i].check_bev = b

Pointers ==
    {<<"control", 0, y.ctl>>}
        \cup {<<"local", i, y.pc[i].loc>> : i \in Clients}
        \cup {<<"work", i, y.pc[i].work>> : i \in Clients}
        \cup {<<"check", p, y.hc[p].check_bev>> : p \in Proxies}

\* Callbacks and their contexts live equally long.  Every bufferevent of the
\* loop belongs to the session, client or health check that still points to
\* it, and no such pointer dangles; with tcp_mux no callback is ever called
\* with a context that is gone.  (Without tcp_mux the bufferevent of a work
\* connection outlives a client that is deleted.)
PointersLive ==
    /\ \A i \in DOMAIN y.bevs :
         Holder(y.bevs[i]) \/ (~conf.tcp_mux /\ y.mem[y.bevs[i]].kind = "work")
    /\ \A q \in Pointers :
         q[3] # 0 => /\ Linked(y, q[3])
                     /\ y.mem[q[3]].kind = q[1] /\ Own(y, q[3]) = q[2]
    /\ pos = "wild" => ~conf.tcp_mux

\* No socket leaks and none is shared: the open sockets are those of the
\* bufferevents in the list, one each (bufferevent_free), and with tcp_mux a
\* new session always finds one (start_base_connect is fatal without).
SocketsOwned ==
    /\ \A f \in Fds :
         (y.sock[f] # "closed")
            <=> \E i \in DOMAIN y.bevs : y.mem[y.bevs[i]].fd = f
    /\ \A i, j \in DOMAIN y.bevs :
         i # j => y.mem[y.bevs[i]].fd # y.mem[y.bevs[j]].fd
    /\ pos = "fatal" => ~conf.tcp_mux

\* A health check never stops by itself and never runs twice: an entry has
\* its timer pending or a check under way, not both, whatever failed in
\* hc_start_check and whichever callback ended the check.
HcDriven ==
    \A p \in Proxies :
        LET e == y.hc[p]
        IN  /\ e.live => (e.timer <=> e.check_bev = 0)
            /\ (e.state # "IDLE") <=> (e.check_bev # 0)

\* No check hangs: when a pass is over, every check that is under way has
\* waited for less than its timeout, whether the service accepts, refuses or
\* never answers, and although only the visit of its bufferevent ends it
\* (bev_check_timeouts).
HcOnTime ==
    pos = "select" => \A p \in Proxies : y.hc[p].state # "IDLE" => y.hc[p].age < Timeout

=============================================================================
