---------------------------- MODULE ServiceHours ----------------------------
(***************************************************************************)
(* The daily window in which a proxy is served, start_time and end_time of *)
(* struct proxy_service.  The code tests it in two places with two          *)
(* different formulas; both are compared with one definition.               *)
(***************************************************************************)
EXTENDS Integers

Hours == 0 .. 23

\* is_service_available (src/control.c): may a work connection be started now?
\* Mutation: the last hour counts.
MutServiceAvailable(start, end, hour) ==
    \/ start = 0 /\ end = 0
    \/ end < start /\ (hour >= start \/ hour <= end)
    \/ start <= end /\ hour >= start /\ hour <= end

is_service_available(start, end, hour) ==
    \/ start = 0 /\ end = 0
    \/ end < start /\ (hour >= start \/ hour < end)
    \/ start <= end /\ hour >= start /\ hour < end

\* hc_timer_cb (src/health_check.c): is the check skipped at this hour?
hc_outside_window(start, end, hour) ==
    /\ ~(start = 0 /\ end = 0)
    /\ \/ start <= end /\ (hour < start \/ hour >= end)
       \/ start > end /\ hour < start /\ hour >= end

\* The window as an arc of the clock: from start, going forward, up to end.
\* A window from an hour to itself is empty, except that 0-0 is the whole day.
InWindow(start, end, hour) ==
    (start = 0 /\ end = 0) \/ (hour - start) % 24 < (end - start) % 24
=============================================================================
