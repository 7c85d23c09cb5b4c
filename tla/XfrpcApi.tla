------------------------------ MODULE XfrpcApi ------------------------------
(***************************************************************************)
(* The public API (port/xfrpc_api.c): the application starts the event     *)
(* task and stops it from any task, while the event task runs xfrpc_loop   *)
(* (src/xfrpc.c) with the control connection of module Control.            *)
(*                                                                         *)
(* xfrpc_stop reads main_ctl and its base in one step and sets the flag in *)
(* another: the event task runs in between.  Starts come from one task.    *)
(***************************************************************************)
EXTENDS Control

CONSTANTS
    MaxStarts,  \* bound: start calls that launch a task
    MaxStops,   \* bound: calls of xfrpc_stop
    Sources     \* configurations the application may start with

ASSUME ApiAssumption ==
    /\ MaxStarts \in Nat /\ MaxStops \in Nat
    /\ Sources \subseteq Source

VARIABLES
    running,     \* g_api.running
    starts,      \* tasks launched so far
    stops,       \* calls of xfrpc_stop so far
    g_tls,       \* the start whose certificates xfrpc_tls_init loaded; 0 for none
    held,        \* the base xfrpc_stop is about to flag; 0 for none
    asked        \* xfrpc_stop was called while this task was running

avars == <<running, starts, stops, g_tls, held, asked>>

vars == <<cvars, avars>>

\* c_conf is NULL before the first start.
Unset == free_common_config(init_common_config)

Init ==
    /\ task = "off" /\ conf = Unset /\ base = 0 /\ ctl = Cleared /\ all_stream = {}
    /\ retry_times = 0 /\ reconnect = FALSE /\ brk = FALSE /\ stop = FALSE
    /\ fatal = 0 /\ report = "INIT" /\ driven = FALSE /\ faults = 0
    /\ running = FALSE /\ starts = 0 /\ stops = 0 /\ held = 0
    /\ g_tls = 0 /\ asked = FALSE

-----------------------------------------------------------------------------
(* xfrpc_start, xfrpc_task, xfrpc_loop *)

\* While a task is running a start call returns 1 and does nothing else.
\* Mutation: the check comes after the configuration is read.
MutStartRefused ==
    /\ \E src \in Sources : ~Load(src, conf).ok /\ conf' = Load(src, conf).conf
    /\ UNCHANGED <<task, base, ctl, all_stream, retry_times, reconnect, brk, stop, fatal,
                   report, driven, faults, avars>>

\* A configuration that is not accepted (-1)
StartRefused ==
    /\ ~running
    /\ \E src \in Sources : ~Load(src, conf).ok /\ conf' = Load(src, conf).conf
    /\ UNCHANGED <<task, base, ctl, all_stream, retry_times, reconnect, brk, stop, fatal,
                   report, driven, faults, avars>>

\* xfrpc_start, xfrpc_start_from_file, xfrpc_start_from_string; xfrpc_launch
Start ==
    /\ ~running
    /\ starts < MaxStarts
    /\ starts' = starts + 1
    /\ \E src \in Sources : Load(src, conf).ok /\ conf' = Load(src, conf).conf
    /\ running' = TRUE /\ asked' = FALSE
    /\ task' = "created"
    /\ UNCHANGED <<base, ctl, all_stream, retry_times, reconnect, brk, stop, fatal,
                   report, driven, faults, stops, g_tls, held>>

\* xfrpc_launch, when xTaskCreate finds no memory
LaunchFails ==
    /\ ~running
    /\ Fault
    /\ \E src \in Sources : Load(src, conf).ok /\ conf' = Load(src, conf).conf
    /\ UNCHANGED <<task, base, ctl, all_stream, retry_times, reconnect, brk, stop, fatal,
                   report, driven, avars>>

\* xfrpc_task up to xfrpc_loop, init_login included
TaskBegins ==
    /\ task = "created"
    /\ task' = "init"
    /\ report' = "CONNECTING"
    /\ UNCHANGED <<conf, base, ctl, all_stream, retry_times, reconnect, brk, stop,
                   fatal, driven, faults, avars>>

\* init_login fails, for want of a MAC address for instance: there is no loop
\* yet to stop, and the task goes on.
InitLoginFails ==
    /\ task = "created"
    /\ Fault
    /\ task' = "init"
    /\ report' = "CONNECTING"
    /\ XfrpcFatal(starts)
    /\ UNCHANGED <<conf, base, ctl, all_stream, retry_times, reconnect, brk, driven, avars>>

\* init_main_control with xfrpc_tls_init, which loads nothing when something
\* is loaded.
InitMainControl ==
    /\ task = "init"
    /\ task' = "connect"
    /\ base' = starts /\ all_stream' = all_stream \cup {starts}
    /\ brk' = FALSE /\ stop' = FALSE
    /\ g_tls' = IF tls /\ g_tls = 0 THEN starts ELSE g_tls
    /\ UNCHANGED <<conf, ctl, retry_times, reconnect, fatal, report, driven, faults,
                   running, starts, stops, held, asked>>

\* It fails, with a TLS configuration that cannot be loaded for instance, and
\* leaves main_ctl NULL; run_control uses main_ctl all the same.
InitMainControlFails ==
    /\ task = "init"
    /\ Fault
    /\ task' = "crashed"
    /\ XfrpcFatal(starts)
    /\ all_stream' \in {all_stream, all_stream \cup {starts}}
    /\ UNCHANGED <<conf, base, ctl, retry_times, reconnect, brk, report, driven, avars>>

Step(A) == A /\ UNCHANGED avars

RunControlStep == Step(RunControl)

\* close_main_control, with xfrpc_tls_cleanup.
\* Mutation: the certificates stay loaded.
MutCloseMainControl ==
    /\ task = "close"
    /\ task' = "final"
    /\ ctl' = ClearMainControl(ctl)
    /\ all_stream' = {base}
    /\ base' = 0
    /\ report' = "RECONNECTING"
    /\ UNCHANGED <<conf, retry_times, reconnect, brk, stop, fatal, driven, faults, avars>>

CloseMainControl ==
    /\ task = "close"
    /\ task' = "final"
    /\ ctl' = ClearMainControl(ctl)
    /\ all_stream' = {base}
    /\ base' = 0
    /\ report' = "RECONNECTING"
    /\ g_tls' = 0
    /\ UNCHANGED <<conf, retry_times, reconnect, brk, stop, fatal, driven, faults,
                   running, starts, stops, held, asked>>

\* The end of xfrpc_loop frees the configuration; xfrpc_task reports.
FinalReport ==
    /\ task = "final"
    /\ task' = "ending"
    /\ conf' = free_common_config(free_all_proxy_services(conf))
    /\ report' = IF fatal # 0 THEN "FATAL" ELSE "STOPPED"
    /\ UNCHANGED <<base, ctl, all_stream, retry_times, reconnect, brk, stop,
                   fatal, driven, faults, avars>>

TaskEnds ==
    /\ task = "ending"
    /\ task' = "off"
    /\ running' = FALSE
    /\ UNCHANGED <<conf, base, ctl, all_stream, retry_times, reconnect, brk, stop,
                   fatal, report, driven, faults, starts, stops, g_tls, held, asked>>

-----------------------------------------------------------------------------
(* xfrpc_stop *)

\* It finds main_ctl and its base, or only a warning to log.
StopReads ==
    /\ held = 0
    /\ stops < MaxStops /\ stops' = stops + 1
    /\ held' = base
    /\ asked' = (asked \/ running)
    /\ UNCHANGED <<cvars, running, starts, g_tls>>

\* mini_event_base_stop.  A base freed in between may be the memory of the
\* base of a later start.
StopWrites ==
    /\ held # 0
    /\ held' = 0
    /\ IF held = base THEN stop' = TRUE
       ELSE stop' \in {stop, stop \/ base # 0}
    /\ UNCHANGED <<task, conf, base, ctl, all_stream, retry_times, reconnect, brk,
                   fatal, report, driven, faults, running, starts, stops, g_tls,
                   asked>>

Task ==
    \/ TaskBegins \/ InitLoginFails \/ InitMainControl \/ InitMainControlFails
    \/ RunControlStep
    \/ CloseMainControl \/ FinalReport \/ TaskEnds

Next == Start \/ StartRefused \/ LaunchFails \/ Task \/ StopReads \/ StopWrites

Spec == Init /\ [][Next]_vars

\* The event task and the calling task are scheduled, a loop that runs serves
\* its timers and its bufferevent, and what is not a fault of the network
\* answers.  Nothing makes the application call, or a fault happen.
Lifecycle ==
    \/ TaskBegins \/ InitLoginFails \/ InitMainControl \/ Step(StartBaseConnect)
    \/ CloseMainControl \/ FinalReport \/ TaskEnds

Fairness ==
    /\ WF_vars(Lifecycle) /\ WF_vars(StopWrites)
    /\ WF_vars(Step(DispatchReturns))
    /\ WF_vars(Step(Callback)) /\ WF_vars(Step(Heartbeat \/ ReconnectTimer))
    /\ WF_vars(Step(Tick))
    /\ WF_vars(Step(FrpsAccepts \/ FrpsAnswers))

FairSpec == Spec /\ Fairness

-----------------------------------------------------------------------------
(* Properties *)

Tasks == {"off", "created", "init", "connect", "loop", "close", "final", "ending", "crashed"}
Reports == {"INIT", "CONNECTING", "LOGIN_OK", "RECONNECTING", "FATAL", "STOPPED"}

\* Every variable keeps its type.
TypeOK ==
    /\ task \in Tasks /\ IsConf(conf) /\ g_tls \in 0 .. MaxStarts /\ base \in 0 .. MaxStarts
    /\ ctl \in Ctl /\ all_stream \subseteq 1 .. MaxStarts /\ retry_times \in 0 .. RetryCap
    /\ reconnect \in BOOLEAN /\ brk \in BOOLEAN /\ stop \in BOOLEAN /\ fatal \in 0 .. MaxStarts
    /\ report \in Reports /\ driven \in BOOLEAN /\ faults \in 0 .. MaxFaults
    /\ running \in BOOLEAN /\ starts \in 0 .. MaxStarts /\ stops \in 0 .. MaxStops
    /\ held \in 0 .. MaxStarts /\ asked \in BOOLEAN

\* The loop never runs on with a dead control connection and nothing pending
\* that would replace it: a reconnect timer, or the way out of the loop
\* (handle_connection_failure, check_server_timeout, reconnect_timer_cb).
LossRetried ==
    task = "loop" /\ ctl.bev \in {"none", "disabled"} =>
        ctl.reconnect_timer >= 0 \/ brk \/ stop

\* A connection attempt starts with nothing left of the session before it: no
\* half-read frame, cipher, proxy client or health check, and logged out
\* (clear_main_control on each way to start_base_connect, restarts included).
SessionClean ==
    ctl.bev \in {"none", "connecting", "handshake"} =>
        ctl.session = {} /\ ~ctl.is_login /\ ~ctl.status

\* A peer that falls silent is noticed one heartbeat after the timeout at the
\* latest, whatever else the control connection is doing.
\* (A clock that is set forward is noticed as a timeout.)
PongBounded ==
    ctl.pong_age <= HeartbeatTimeout + HeartbeatInterval \/ ctl.pong_age \in {-1, Stepped}

\* From launch to close the task works with the configuration it was launched
\* with, and that configuration is complete: the start calls that are refused,
\* before it or meanwhile, leave nothing of theirs in it (xfrpc_start,
\* load_config_file, validate_loaded_config, xfrpc_loop).
ConfigComplete ==
    task \in {"created", "init", "connect", "loop", "close"} => Complete(conf)

\* Whoever is logged in has registered every proxy of the configuration on this
\* very session, also after a reconnect or a restart with another one
\* (handle_login_response, start_proxy_services, clear_main_control).
ProxiesRegistered == ctl.is_login => ctl.registered = DOMAIN conf.all_ps

\* A TLS connection is made with the certificates of the configuration that is
\* running, not with those of a start before it (xfrpc_tls_init,
\* xfrpc_tls_cleanup).
TlsFresh == tls /\ ctl.bev # "none" => g_tls = starts

\* What the application was told last agrees with the session: LOGIN_OK from the
\* login until the session is cleared, and nothing else meanwhile
\* (handle_login_response, clear_main_control on every way out, xfrpc_task).
LoginReported == (report = "LOGIN_OK") <=> ctl.is_login

\* A connection whose heartbeat could not be set up (keep_control_alive): if the
\* peer falls silent on it, nothing tells.
Unwatched == ctl.bev = "open" /\ ctl.ticker = -1

\* Without TLS, a running client is logged in again and again until it is told
\* to stop (xfrpc_stop, xfrpc_fatal): finitely many faults only delay it, and
\* the loop is not left for want of anything to wait for.
Recovers ==
    (~tls /\ task \in {"connect", "loop"}) ~> (ctl.is_login \/ stop \/ Unwatched)

\* A stop that reached the base of the running loop ends the task.
StopHonoured == (stop /\ task = "loop") ~> (task = "off")

\* "Disabling here makes the reconnect timer the sole driver of retries"
\* (connect_event_cb): a failed connection is given up and tried anew.
FailedRetried == (ctl.net = "failed") ~> (ctl.net # "failed")

\* "Abort (and let the client reconnect) when the TLS handshake has not
\* completed within this many seconds" (Kconfig).
HandshakeEnds == (ctl.bev = "handshake") ~> (ctl.bev # "handshake")

\* A TLS connection that cannot be made is tried anew.  The two are joined by \/
\* so that a behaviour that refutes the property refutes each of them.
TlsRetried == FailedRetried \/ HandshakeEnds

\* "Request a clean stop; the event task exits asynchronously" (xfrpc_stop).
StopEndsTask == asked ~> (task \in {"off", "crashed"})

\* xfrpc_is_connected: "true while the control connection is up and logged in".
StatusTrue == ctl.status => ctl.is_login /\ ctl.bev = "open"

\* CONNECTED, "TCP connection established": it is reported for a connection.
ConnectedTold == (ctl.bev = "open") ~> (report = "CONNECTED")

\* "Ensures heartbeat interval is positive and timeout is greater than interval"
\* (validate_heartbeat_config).
TimeoutGreater == task \in {"connect", "loop"} => HeartbeatTimeout > HeartbeatInterval

\* What the API says of a running client.  The three are joined by \/ so that a
\* behaviour that refutes the property refutes each of them.
AsDocumented == []StatusTrue \/ ConnectedTold \/ []TimeoutGreater

\* clear_main_control "returns the control state to its initial state": the
\* table of streams refers to no control structure that is freed.
StreamTableLive == all_stream \subseteq {base}

\* RECONNECTING, "connection lost, retrying": it is not the last thing an
\* application hears before the task is over.
RetriedAfterReconnecting == report # "RECONNECTING"

\* FATAL, "unrecoverable error": one of this task.
FatalTrue == report' = "FATAL" => fatal = starts

\* Each of the three holds when a task makes its final report.  They are joined
\* by \/ so that a behaviour that refutes the property refutes each of them.
CleanEnd ==
    [][task = "final" /\ task' = "ending" =>
           StreamTableLive' \/ RetriedAfterReconnecting \/ FatalTrue]_vars
=============================================================================
