---------------------------- MODULE HealthCheck -----------------------------
(***************************************************************************)
(* The health checks of src/health_check.c.  Operators on a record y that   *)
(* has, beside the loop's lists, y.hc: for every proxy its entry.  Time is  *)
(* counted in ticks; age is how long the check has been waiting, wait how   *)
(* long the timer still runs.                                               *)
(***************************************************************************)
EXTENDS EventLoop, ServiceHours

CONSTANTS
    MaxFailed,   \* health_check_max_failed
    Interval,    \* health_check_interval, in ticks
    Timeout      \* health_check_timeout, in ticks

\* struct health_check_entry; failed_count is counted up to max_failed.
NoEntry == [live |-> FALSE, is_healthy |-> TRUE, failed_count |-> 0, state |-> "IDLE",
            check_bev |-> 0, timer |-> FALSE, wait |-> 0, age |-> 0]

\* health_check_start_all: the first check is due at once.
health_check_start_all(y) ==
    [y EXCEPT !.hc = [p \in DOMAIN @ |-> [NoEntry EXCEPT !.live = TRUE, !.timer = TRUE]]]

\* health_check_stop_all
health_check_stop_all(y) ==
    [bufferevent_free(y, {y.hc[p].check_bev : p \in DOMAIN y.hc} \ {0}) EXCEPT
       !.hc = [p \in DOMAIN @ |-> NoEntry]]

hc_schedule_next(y, p) == [y EXCEPT !.hc[p].timer = TRUE, !.hc[p].wait = Interval]

(* hc_finish_check.  The callback on a change of health sends a message and *)
(* touches nothing here.                                                    *)
\* Mutation: the next check is not scheduled.
MutFinishCheck(y, p, healthy) ==
    LET e == y.hc[p]
        n == IF healthy THEN 0 ELSE Min({e.failed_count + 1, MaxFailed})
        z == Freed(y, e.check_bev)
    IN  [z EXCEPT !.hc[p].check_bev = 0, !.hc[p].state = "IDLE", !.hc[p].age = 0,
                  !.hc[p].failed_count = n]

hc_finish_check(y, p, healthy) ==
    LET e == y.hc[p]
        n == IF healthy THEN 0 ELSE Min({e.failed_count + 1, MaxFailed})
        z == [Freed(y, e.check_bev) EXCEPT
                !.hc[p].check_bev = 0, !.hc[p].state = "IDLE", !.hc[p].age = 0,
                !.hc[p].failed_count = n,
                !.hc[p].is_healthy = healthy \/ (@ /\ n < MaxFailed)]
    IN  hc_schedule_next(z, p)

\* hc_start_check; a connect() that fails at once is a failed check.
hc_start_check(y, p, ok) ==
    LET z == Freed(y, y.hc[p].check_bev)
        c == connect_server(z, "check", p, ok)
    IN  IF c.b = 0 THEN hc_finish_check([z EXCEPT !.hc[p].check_bev = 0], p, FALSE)
        ELSE [c.y EXCEPT !.hc[p].check_bev = c.b, !.hc[p].state = "CONNECTING",
                         !.hc[p].age = 0]

\* hc_timer_cb; the loop has cleared pending.
hc_timer_cb(y, p, hours, hour, ok) ==
    LET z == [y EXCEPT !.hc[p].timer = FALSE]
    IN  IF hc_outside_window(hours[1], hours[2], hour) THEN hc_schedule_next(z, p)
        ELSE hc_start_check(z, p, ok)

\* hc_tcp_event_cb, hc_http_event_cb
hc_connected(y, p, http) ==
    IF http THEN [y EXCEPT !.hc[p].state = "READING", !.hc[p].age = 0]
    ELSE hc_finish_check(y, p, TRUE)

hc_error(y, p) == hc_finish_check(y, p, FALSE)

(* hc_http_read_cb: line is the status line as far as it is there.  Bytes   *)
(* start the read timeout anew.                                             *)
StatusLines == {"partial", "ok", "bad"}

hc_http_read_cb(y, p, line) ==
    IF line = "partial" THEN [y EXCEPT !.hc[p].age = 0]
    ELSE hc_finish_check(y, p, line = "ok")

\* bev_check_timeouts
\* Mutation: only a check that reads can time out.
MutExpired(e) == e.state = "READING" /\ e.age >= Timeout

Expired(e) == e.state # "IDLE" /\ e.age >= Timeout

(* The clock of this model: a tick passes for an entry.  An age is counted  *)
(* up to Timeout; Expired tells no longer ones apart.                       *)
Aged(e) == [e EXCEPT !.age = IF e.state = "IDLE" THEN 0 ELSE Min({@ + 1, Timeout}),
                     !.wait = Max({@ - 1, 0})]
=============================================================================
