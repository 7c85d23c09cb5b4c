------------------------- MODULE ServiceHoursProofs -------------------------
(* The two tests of the service hours are the same test, for all hours.     *)
EXTENDS ServiceHours, TLAPS

\* Going forward on the clock from hour b to hour a.
LEMMA Forward ==
  ASSUME NEW a \in Hours, NEW b \in Hours
  PROVE  (a - b) % 24 = IF b <= a THEN a - b ELSE a - b + 24
  BY DEF Hours

(* is_service_available (src/control.c) is the arc of the clock from        *)
(* start_time up to end_time, whether or not it crosses midnight.           *)
THEOREM ServedOnArc ==
  ASSUME NEW start \in Hours, NEW end \in Hours, NEW hour \in Hours
  PROVE  is_service_available(start, end, hour) <=> InWindow(start, end, hour)
<1>1. CASE start <= hour /\ start <= end
  BY <1>1, Forward DEF is_service_available, InWindow, Hours
<1>2. CASE hour < start /\ start <= end
  BY <1>2, Forward DEF is_service_available, InWindow, Hours
<1>3. CASE start <= hour /\ end < start
  BY <1>3, Forward DEF is_service_available, InWindow, Hours
<1>4. CASE hour < start /\ end < start
  BY <1>4, Forward DEF is_service_available, InWindow, Hours
<1> QED
  BY <1>1, <1>2, <1>3, <1>4 DEF Hours

(* hc_timer_cb (src/health_check.c) skips a check exactly when              *)
(* handle_type_start_work_conn would not serve a user: the two places, with *)
(* formulas of their own, never disagree, even on hours no clock shows.     *)
THEOREM HoursAgree ==
  ASSUME NEW start \in Int, NEW end \in Int, NEW hour \in Hours
  PROVE  hc_outside_window(start, end, hour) <=> ~is_service_available(start, end, hour)
  BY DEF hc_outside_window, is_service_available, Hours
=============================================================================
