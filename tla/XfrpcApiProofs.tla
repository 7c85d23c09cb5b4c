--------------------------- MODULE XfrpcApiProofs ---------------------------
(***************************************************************************)
(* The invariants of the control connection and of the task that runs it,  *)
(* for every configuration, every back-off and any number of starts, stops *)
(* and faults.  CtlOK is what the callbacks keep of the connection alone,  *)
(* TaskOK ties it to where the event task is.                              *)
(***************************************************************************)
EXTENDS XfrpcApi, ConfigProofs

\* The connection by itself.  The last two conjuncts are why a silent peer is
\* noticed in time: a Pong is on its way, and is waited for, only while the
\* ticker runs, and what that has left is within the bound.
CtlOK(c) ==
    /\ c \in Ctl
    /\ c.bev = "none" => c = Cleared
    /\ c.bev \in {"none", "connecting", "handshake"} =>
         c.session = {} /\ ~c.is_login /\ ~c.status
    /\ c.status => c.is_login
    /\ c.bev = "disabled" => c.reconnect_timer >= 0
    /\ c.is_login => c.registered = DOMAIN conf.all_ps
    /\ "Ping" \in c.tx \/ "Pong" \in c.rx => c.ticker >= 0
    /\ c.pong_age >= 0 =>
         /\ c.ticker >= 0
         /\ \/ c.pong_age = Stepped
            \/ c.pong_age + c.ticker <= HeartbeatTimeout + HeartbeatInterval

Unconnected == {"off", "created", "init", "connect", "final", "ending", "crashed"}
Connects == {"connect", "loop", "close"}

CertsOK ==
    /\ task \notin Connects => g_tls = 0
    /\ task \in Connects /\ tls => g_tls = starts

TaskOK ==
    /\ ~running => task = "off"
    /\ task # "off" => starts # 0
    /\ task \in Connects => base # 0
    /\ task \in Unconnected => ctl = Cleared
    /\ task = "loop" /\ reconnect => ctl = Cleared /\ brk

IInv == TypeOK /\ CtlOK(ctl) /\ TaskOK /\ ConfigComplete /\ LossRetried /\ CertsOK /\ LoginReported
-----------------------------------------------------------------------------
(* The connection *)

\* A heartbeat that validate_heartbeat_config accepts
Beats ==
    /\ HeartbeatInterval \in Nat \ {0}
    /\ HeartbeatTimeout \in Nat
    /\ HeartbeatInterval <= HeartbeatTimeout

\* The back-off is at least a second and at most MaxRetryDelay.
LEMMA BackoffLemma ==
    ASSUME NEW n \in Nat
    PROVE  reconnect_backoff_seconds(n) \in 1 .. MaxRetryDelay
<1> DEFINE k == IF n < 1 THEN 1 ELSE IF n > 6 THEN 6 ELSE n
<1>1. k \in 1 .. 6
  OBVIOUS
<1>2. Doublings[k] \in {1, 2, 4, 8, 16, 32}
  <2> HIDE DEF k
  <2>1. k = 1 \/ k = 2 \/ k = 3 \/ k = 4 \/ k = 5 \/ k = 6
    BY <1>1
  <2> QED
    BY <2>1 DEF Doublings
<1>3. Factor(n) = Doublings[k]
  BY DEF Factor
<1> HIDE DEF k
<1>4. RetryDelay * Factor(n) \in Nat \ {0}
  BY <1>2, <1>3, ControlAssumption
<1> QED
  BY <1>4, ControlAssumption DEF reconnect_backoff_seconds

LEMMA RetryLemma ==
    ASSUME retry_times \in 0 .. RetryCap
    PROVE  Retry \in 0 .. RetryCap /\ reconnect_backoff_seconds(Retry) \in 1 .. MaxRetryDelay
<1>1. Retry \in 0 .. RetryCap /\ Retry \in Nat
  BY ControlAssumption DEF Retry
<1> QED
  BY <1>1, BackoffLemma

LEMMA ClearedLemma == CtlOK(Cleared)
BY ControlAssumption DEF CtlOK, Ctl, Cleared, Items, Requests, Replies

\* handle_connection_failure, on a bufferevent that is open, disabled or still
\* in its handshake
LEMMA FailureLemma ==
    ASSUME NEW c, CtlOK(c), retry_times \in 0 .. RetryCap,
           NEW b \in {"handshake", "disabled"},
           NEW net \in {"none", "syn", "failed", "up", "silent", "closed"},
           b = "handshake" => c.bev \in {"connecting", "handshake"}
    PROVE  CtlOK([c EXCEPT !.bev = b, !.net = net,
                           !.reconnect_timer = reconnect_backoff_seconds(Retry)])
<1> DEFINE s == reconnect_backoff_seconds(Retry)
           d == [c EXCEPT !.bev = b, !.net = net, !.reconnect_timer = s]
<1>1. s \in 1 .. MaxRetryDelay /\ s \in -1 .. MaxRetryDelay /\ s >= 0
  BY RetryLemma, ControlAssumption
<1> HIDE DEF s
<1>2. c \in Ctl
  BY DEF CtlOK
<1>3. /\ d \in Ctl /\ d.bev = b /\ d.reconnect_timer = s /\ d.tx = c.tx /\ d.rx = c.rx
      /\ d.session = c.session /\ d.is_login = c.is_login /\ d.status = c.status
      /\ d.registered = c.registered /\ d.ticker = c.ticker /\ d.pong_age = c.pong_age
  BY <1>1, <1>2 DEF Ctl
<1> HIDE DEF d
<1>4. CtlOK(d)
  BY <1>1, <1>3 DEF CtlOK
<1> QED
  BY <1>4 DEF d, s

\* handle_connection_success, on a connection that was not established yet,
\* whether or not the login could be sent and the heartbeat set up
LEMMA SuccessLemma ==
    ASSUME NEW c, CtlOK(c), Beats, c.bev \in {"connecting", "handshake"},
           NEW sent \in BOOLEAN, NEW alive \in BOOLEAN
    PROVE  LET d == KeepControlAlive(Login([c EXCEPT !.bev = "open"], sent), alive)
           IN  CtlOK(d) /\ d.is_login = c.is_login /\ d.bev = "open"
<1> DEFINE d  == KeepControlAlive(Login([c EXCEPT !.bev = "open"], sent), alive)
           tx == IF sent THEN c.tx \cup {"Login"} ELSE c.tx
           t  == IF alive THEN 1 ELSE c.ticker
           p  == IF alive THEN 0 ELSE c.pong_age
<1>1. c \in Ctl
  BY DEF CtlOK
<1>2. d = [c EXCEPT !.bev = "open", !.tx = tx, !.ticker = t, !.pong_age = p]
  <2>1. Login([c EXCEPT !.bev = "open"], sent) = [c EXCEPT !.bev = "open", !.tx = tx]
    BY <1>1 DEF Login, Ctl
  <2> HIDE DEF tx
  <2> QED
    BY <1>1, <2>1 DEF KeepControlAlive, Ctl
<1>3. t \in {-1} \cup 0 .. HeartbeatInterval /\ p \in {-1} \cup 0 .. Stepped
  BY <1>1 DEF Ctl, Beats, Stepped, PongCap
<1>4. tx \in SUBSET Requests /\ ("Ping" \in tx => "Ping" \in c.tx)
  BY <1>1 DEF Ctl, Requests
<1>5. "Ping" \in tx \/ "Pong" \in c.rx => t >= 0
  BY <1>4 DEF CtlOK
<1>6. p >= 0 => /\ t >= 0
                /\ p = Stepped \/ p + t <= HeartbeatTimeout + HeartbeatInterval
  BY DEF CtlOK, Beats
<1> HIDE DEF d, tx, t, p
<1>7. /\ d \in Ctl /\ d.bev = "open" /\ d.tx = tx /\ d.rx = c.rx /\ d.ticker = t
      /\ d.pong_age = p /\ d.session = c.session /\ d.is_login = c.is_login
      /\ d.status = c.status /\ d.registered = c.registered
  BY <1>1, <1>2, <1>3, <1>4 DEF Ctl
<1>8. CtlOK(d)
  BY <1>5, <1>6, <1>7 DEF CtlOK
<1> QED
  BY <1>7, <1>8 DEF d

\* A change of what is on the way, or of the parser while the connection is
\* open, leaves the rest as it is.
LEMMA TrafficLemma ==
    ASSUME NEW c, CtlOK(c), NEW d \in Ctl, c.bev # "none",
           d.bev = c.bev \/ (c.bev = "connecting" /\ d.bev = "handshake"),
           d.session = c.session \/ c.bev = "open",
           d.is_login = c.is_login, d.status = c.status, d.registered = c.registered,
           d.reconnect_timer = c.reconnect_timer, d.ticker = c.ticker, d.pong_age = c.pong_age,
           "Ping" \in d.tx \/ "Pong" \in d.rx => "Ping" \in c.tx \/ "Pong" \in c.rx
    PROVE  CtlOK(d)
BY DEF CtlOK

LEMMA ReceivedLemma ==
    ASSUME CtlOK(ctl), ctl.bev = "open", NEW m, NEW mid \in BOOLEAN
    PROVE  /\ CtlOK(Received(m, mid))
           /\ Received(m, mid).bev = "open"
           /\ Received(m, mid).is_login = ctl.is_login
           /\ Received(m, mid).status = ctl.status
           /\ Received(m, mid).ticker = ctl.ticker
<1> DEFINE d == Received(m, mid)
           s == (ctl.session \ {"parser"}) \cup (IF mid THEN {"parser"} ELSE {})
<1>1. ctl \in Ctl
  BY DEF CtlOK
<1>2. d = [ctl EXCEPT !.rx = ctl.rx \ {m}, !.session = s]
  BY DEF Received
<1>3. s \in SUBSET Items
  BY <1>1 DEF Ctl, Items
<1> HIDE DEF d, s
<1>4. d \in Ctl
  BY <1>1, <1>2, <1>3 DEF Ctl
<1>5. /\ d.bev = ctl.bev /\ d.is_login = ctl.is_login /\ d.status = ctl.status
      /\ d.registered = ctl.registered /\ d.reconnect_timer = ctl.reconnect_timer
      /\ d.ticker = ctl.ticker /\ d.pong_age = ctl.pong_age
      /\ d.tx = ctl.tx /\ d.rx \subseteq ctl.rx
  BY <1>1, <1>2 DEF Ctl
<1>6. CtlOK(d)
  BY <1>4, <1>5, TrafficLemma
<1> QED
  BY <1>5, <1>6 DEF d

\* start_proxy_services after a login: whatever is left to register is.
LEMMA StartProxiesLemma ==
    ASSUME NEW c, CtlOK(c), c.bev = "open"
    PROVE  LET d == StartProxyServices([c EXCEPT !.is_login = TRUE])
           IN  CtlOK(d) /\ d.is_login = TRUE
<1> DEFINE e == [c EXCEPT !.is_login = TRUE]
           d == StartProxyServices(e)
           s == c.session \cup {"crypto", "health"}
<1>1. c \in Ctl
  BY DEF CtlOK
<1>2. e \in Ctl /\ e.is_login = TRUE /\ e.status = c.status
  BY <1>1 DEF Ctl
<1>3. CASE c.status
  <2>1. d = e
    BY <1>2, <1>3 DEF StartProxyServices
  <2>2. c.registered = DOMAIN conf.all_ps
    BY <1>3 DEF CtlOK
  <2>3. /\ e.bev = c.bev /\ e.session = c.session /\ e.registered = c.registered
        /\ e.reconnect_timer = c.reconnect_timer /\ e.ticker = c.ticker
        /\ e.pong_age = c.pong_age /\ e.tx = c.tx /\ e.rx = c.rx
    BY <1>1 DEF Ctl
  <2> HIDE DEF e
  <2>4. CtlOK(e)
    BY <1>2, <2>2, <2>3 DEF CtlOK
  <2> QED
    BY <1>2, <2>1, <2>4 DEF e
<1>4. CASE ~c.status
  <2>1. d = [c EXCEPT !.is_login = TRUE, !.status = TRUE, !.registered = DOMAIN conf.all_ps,
                      !.session = s]
    BY <1>1, <1>2, <1>4 DEF StartProxyServices, Ctl
  <2>2. s \in SUBSET Items
    BY <1>1 DEF Ctl, Items
  <2> HIDE DEF d, s, e
  <2>3. d \in Ctl
    BY <1>1, <2>1, <2>2 DEF Ctl
  <2>4. /\ d.bev = "open" /\ d.is_login = TRUE /\ d.status = TRUE
        /\ d.registered = DOMAIN conf.all_ps
        /\ d.ticker = c.ticker /\ d.pong_age = c.pong_age
        /\ d.tx = c.tx /\ d.rx = c.rx
    BY <1>1, <2>1 DEF Ctl
  <2>5. CtlOK(d)
    BY <2>3, <2>4 DEF CtlOK
  <2> QED
    BY <2>4, <2>5 DEF d, e
<1> QED
  BY <1>3, <1>4

\* The request for a work connection, which needs a login
LEMMA ReqWorkConnLemma ==
    ASSUME NEW c, CtlOK(c), c.bev = "open", c.is_login = TRUE
    PROVE  LET d == StartProxyServices([c EXCEPT !.session = @ \cup {"clients", "crypto"}])
           IN  CtlOK(d) /\ d.is_login = TRUE
<1> DEFINE t == c.session \cup {"clients", "crypto"}
           e == [c EXCEPT !.session = t]
<1>1. c \in Ctl
  BY DEF CtlOK
<1>2. t \in SUBSET Items
  BY <1>1 DEF Ctl, Items
<1> HIDE DEF t
<1>3. /\ e \in Ctl /\ e.bev = c.bev /\ e.is_login = c.is_login /\ e.status = c.status
      /\ e.registered = c.registered /\ e.reconnect_timer = c.reconnect_timer
      /\ e.ticker = c.ticker /\ e.pong_age = c.pong_age /\ e.tx = c.tx /\ e.rx = c.rx
  BY <1>1, <1>2 DEF Ctl
<1>4. e = [e EXCEPT !.is_login = TRUE]
  BY <1>1, <1>2 DEF Ctl
<1> HIDE DEF e
<1>5. CtlOK(e)
  BY <1>3, TrafficLemma
<1>6. CtlOK(StartProxyServices(e)) /\ StartProxyServices(e).is_login = TRUE
  BY <1>3, <1>4, <1>5, StartProxiesLemma
<1> QED
  BY <1>6 DEF e, t

\* A Pong starts the wait anew.
LEMMA PongLemma ==
    ASSUME NEW c, CtlOK(c), Beats, c.bev = "open", c.ticker >= 0
    PROVE  CtlOK([c EXCEPT !.pong_age = 0])
<1> DEFINE d == [c EXCEPT !.pong_age = 0]
<1>1. c \in Ctl
  BY DEF CtlOK
<1>2. 0 \in {-1} \cup 0 .. Stepped
  BY DEF Beats, Stepped, PongCap
<1>3. d \in Ctl
  BY <1>1, <1>2 DEF Ctl
<1>4. /\ d.bev = c.bev /\ d.is_login = c.is_login /\ d.status = c.status
      /\ d.session = c.session /\ d.registered = c.registered /\ d.ticker = c.ticker
      /\ d.reconnect_timer = c.reconnect_timer /\ d.pong_age = 0
  BY <1>1 DEF Ctl
<1> HIDE DEF d
<1>5. c.ticker \in {-1} \cup 0 .. HeartbeatInterval
  BY <1>1 DEF Ctl
<1>6. 0 + c.ticker <= HeartbeatTimeout + HeartbeatInterval
  BY <1>5 DEF Beats
<1>7. CtlOK(d)
  BY <1>3, <1>4, <1>6 DEF CtlOK
<1> QED
  BY <1>7 DEF d

\* heartbeat_handler, when the server has not timed out
LEMMA HeartbeatLemma ==
    ASSUME CtlOK(ctl), Beats, ctl.bev # "none"
    PROVE  LET c == [IF ctl.status THEN Ping(ctl) ELSE ctl EXCEPT !.ticker = Rescheduled(ctl)]
           IN  /\ ~ServerTimeout(c) => CtlOK(c)
               /\ c.is_login = ctl.is_login /\ c.bev = ctl.bev
               /\ c.reconnect_timer = ctl.reconnect_timer
<1> DEFINE c == [IF ctl.status THEN Ping(ctl) ELSE ctl EXCEPT !.ticker = Rescheduled(ctl)]
<1>1. ctl \in Ctl
  BY DEF CtlOK
<1>2. PICK tx \in SUBSET Requests : (IF ctl.status THEN Ping(ctl) ELSE ctl) = [ctl EXCEPT !.tx = tx]
  <2>1. CASE ctl.status
    <3> DEFINE tx == IF ctl.bev = "open" THEN ctl.tx \cup {"Ping"} ELSE ctl.tx
    <3>1. tx \in SUBSET Requests
      BY <1>1 DEF Ctl, Requests
    <3>2. Ping(ctl) = [ctl EXCEPT !.tx = tx]
      BY DEF Ping
    <3> QED
      BY <2>1, <3>1, <3>2
  <2>2. CASE ~ctl.status
    <3>1. ctl = [ctl EXCEPT !.tx = ctl.tx] /\ ctl.tx \in SUBSET Requests
      BY <1>1 DEF Ctl
    <3> QED
      BY <2>2, <3>1
  <2> QED
    BY <2>1, <2>2
<1>3. c = [ctl EXCEPT !.tx = tx, !.ticker = HeartbeatInterval]
  BY <1>2 DEF Rescheduled
<1> HIDE DEF c
<1>4. c \in Ctl
  <2>1. HeartbeatInterval \in {-1} \cup 0 .. HeartbeatInterval
    BY DEF Beats
  <2> QED
    BY <1>1, <1>3, <2>1 DEF Ctl
<1>5. /\ c.bev = ctl.bev /\ c.is_login = ctl.is_login /\ c.status = ctl.status
      /\ c.session = ctl.session /\ c.registered = ctl.registered
      /\ c.reconnect_timer = ctl.reconnect_timer /\ c.pong_age = ctl.pong_age
      /\ c.ticker = HeartbeatInterval
  BY <1>1, <1>3 DEF Ctl
<1>6. ASSUME ~ServerTimeout(c) PROVE CtlOK(c)
  <2>1. c.pong_age \in Int /\ c.pong_age <= HeartbeatTimeout
    <3>1. c.pong_age \in {-1} \cup 0 .. Stepped /\ Stepped \in Int
      BY <1>4 DEF Ctl, Beats, Stepped, PongCap
    <3> QED
      BY <1>6, <3>1 DEF ServerTimeout, Beats
  <2>2. c.pong_age + HeartbeatInterval <= HeartbeatTimeout + HeartbeatInterval
        /\ HeartbeatInterval >= 0
    BY <2>1 DEF Beats
  <2> QED
    BY <1>4, <1>5, <2>2 DEF CtlOK
<1> QED
  BY <1>5, <1>6 DEF c

\* A second passes.
LEMMA TickLemma ==
    ASSUME CtlOK(ctl), Beats, ctl.bev # "none", ctl.ticker # 0
    PROVE  LET d == [ctl EXCEPT !.reconnect_timer = Less(@), !.ticker = Less(@),
                                !.pong_age = IF @ \in 0 .. PongCap - 1 THEN @ + 1 ELSE @]
           IN  CtlOK(d) /\ d.bev = ctl.bev /\ d.is_login = ctl.is_login
<1> DEFINE p == IF ctl.pong_age \in 0 .. PongCap - 1 THEN ctl.pong_age + 1 ELSE ctl.pong_age
           d == [ctl EXCEPT !.reconnect_timer = Less(ctl.reconnect_timer),
                            !.ticker = Less(ctl.ticker), !.pong_age = p]
<1>1. ctl \in Ctl
  BY DEF CtlOK
<1>2. /\ ctl.reconnect_timer \in -1 .. MaxRetryDelay
      /\ ctl.ticker \in {-1} \cup 0 .. HeartbeatInterval
      /\ ctl.pong_age \in {-1} \cup 0 .. Stepped
  BY <1>1 DEF Ctl
<1>3. PongCap = HeartbeatTimeout + HeartbeatInterval + 1 /\ Stepped = PongCap + 1
      /\ PongCap \in Nat
  BY DEF PongCap, Stepped, Beats
<1>4. /\ Less(ctl.reconnect_timer) \in -1 .. MaxRetryDelay
      /\ ctl.reconnect_timer >= 0 => Less(ctl.reconnect_timer) >= 0
  BY <1>2, ControlAssumption DEF Less
<1>5. /\ Less(ctl.ticker) \in {-1} \cup 0 .. HeartbeatInterval
      /\ ctl.ticker >= 0 => Less(ctl.ticker) >= 0 /\ Less(ctl.ticker) = ctl.ticker - 1
  BY <1>2 DEF Less, Beats
<1>6. p \in {-1} \cup 0 .. Stepped
  BY <1>2, <1>3
<1>7. ASSUME p >= 0
      PROVE  /\ Less(ctl.ticker) >= 0
             /\ p = Stepped \/ p + Less(ctl.ticker) <= HeartbeatTimeout + HeartbeatInterval
  <2>1. ctl.pong_age >= 0
    BY <1>2, <1>3, <1>7
  <2>2. ctl.ticker >= 0
    BY <2>1 DEF CtlOK
  <2>3. CASE ctl.pong_age = Stepped
    BY <1>3, <1>5, <2>2, <2>3
  <2>4. CASE ctl.pong_age + ctl.ticker <= HeartbeatTimeout + HeartbeatInterval
    <3>1. ctl.pong_age \in Nat /\ ctl.ticker \in Nat
      BY <1>2, <1>3, <2>1, <2>2 DEF Beats
    <3>2. ctl.pong_age \in 0 .. PongCap - 1
      BY <1>3, <2>4, <3>1 DEF Beats
    <3>3. p = ctl.pong_age + 1
      BY <3>2
    <3> QED
      BY <1>5, <2>2, <2>4, <3>1, <3>3 DEF Beats
  <2> QED
    BY <2>1, <2>3, <2>4 DEF CtlOK
<1> HIDE DEF p
<1>8. /\ d \in Ctl /\ d.bev = ctl.bev /\ d.is_login = ctl.is_login /\ d.status = ctl.status
      /\ d.session = ctl.session /\ d.registered = ctl.registered /\ d.pong_age = p
      /\ d.reconnect_timer = Less(ctl.reconnect_timer) /\ d.ticker = Less(ctl.ticker)
      /\ d.tx = ctl.tx /\ d.rx = ctl.rx
  BY <1>1, <1>4, <1>5, <1>6 DEF Ctl
<1> HIDE DEF d
<1>9. CtlOK(d)
  BY <1>4, <1>5, <1>7, <1>8 DEF CtlOK
<1> QED
  BY <1>8, <1>9 DEF d, p

\* The clock is set forward.
LEMMA ClockLemma ==
    ASSUME CtlOK(ctl), Beats, ctl.pong_age >= 0
    PROVE  LET d == [ctl EXCEPT !.pong_age = Stepped]
           IN  CtlOK(d) /\ d.bev = ctl.bev /\ d.is_login = ctl.is_login
<1> DEFINE d == [ctl EXCEPT !.pong_age = Stepped]
<1>1. ctl \in Ctl
  BY DEF CtlOK
<1>2. Stepped \in 0 .. Stepped
  BY DEF Beats, Stepped, PongCap
<1>3. /\ d \in Ctl /\ d.bev = ctl.bev /\ d.is_login = ctl.is_login /\ d.status = ctl.status
      /\ d.session = ctl.session /\ d.registered = ctl.registered /\ d.ticker = ctl.ticker
      /\ d.reconnect_timer = ctl.reconnect_timer /\ d.pong_age = Stepped
      /\ d.tx = ctl.tx /\ d.rx = ctl.rx
  BY <1>1, <1>2 DEF Ctl
<1>4. ctl.bev # "none"
  BY DEF CtlOK, Cleared
<1> HIDE DEF d
<1>5. CtlOK(d)
  BY <1>3, <1>4 DEF CtlOK
<1> QED
  BY <1>3, <1>5 DEF d

-----------------------------------------------------------------------------
(* The task *)

\* A running client has a heartbeat that makes sense.
LEMMA BeatsLemma ==
    ASSUME IInv, task \in {"created", "init", "connect", "loop", "close"}
    PROVE  Beats
<1>1. conf.heartbeat_interval \in Int /\ conf.heartbeat_timeout \in Int
  BY DEF IInv, TypeOK, IsConf
<1>2. 0 < conf.heartbeat_interval /\ conf.heartbeat_interval <= conf.heartbeat_timeout
  BY DEF IInv, ConfigComplete, Complete
<1> QED
  BY <1>1, <1>2 DEF Beats, HeartbeatInterval, HeartbeatTimeout

\* A connection exists only in the loop and until it is closed, and then the
\* loop is not about to connect.
LEMMA ConnectedLemma ==
    ASSUME IInv, ctl.bev # "none"
    PROVE  /\ task \in {"loop", "close"}
           /\ ~(task = "loop" /\ reconnect)
           /\ Beats
<1>1. ctl # Cleared
  BY DEF Cleared
<1>2. task \in {"loop", "close"} /\ ~(task = "loop" /\ reconnect)
  BY <1>1 DEF IInv, TaskOK, TypeOK, Tasks, Unconnected
<1> QED
  BY <1>2, BeatsLemma

\* The type of the connection does not change with the connection.
LEMMA SameConf ==
    ASSUME conf' = conf, CtlOK(ctl')
    PROVE  CtlOK(ctl)'
BY DEF CtlOK, Ctl, HeartbeatInterval, HeartbeatTimeout, Stepped, PongCap

LEMMA ClearedPrime ==
    ASSUME ctl' = Cleared
    PROVE  CtlOK(ctl)'
BY ControlAssumption DEF CtlOK, Ctl, Cleared, Items, Requests, Replies

\* A callback, a tick or an event outside that changes the connection keeps the
\* invariant when it keeps CtlOK and reports a login as what it is.
LEMMA StepLemma ==
    ASSUME IInv, ctl.bev # "none", CtlOK(ctl'), ctl'.bev # "none",
           UNCHANGED <<task, conf, base, all_stream, reconnect, brk>>,
           UNCHANGED avars, stop' \in BOOLEAN, fatal' \in 0 .. MaxStarts,
           retry_times' \in 0 .. RetryCap, faults' \in 0 .. MaxFaults, driven' \in BOOLEAN,
           report' \in Reports, ctl'.is_login <=> report' = "LOGIN_OK"
    PROVE  IInv'
<1>1. task \in {"loop", "close"} /\ ~(task = "loop" /\ reconnect)
  BY ConnectedLemma
<1>2. CtlOK(ctl)'
  BY SameConf
<1>3. TypeOK'
  <2>1. ctl' \in Ctl'
    BY <1>2 DEF CtlOK
  <2> QED
    BY <2>1 DEF IInv, TypeOK, avars
<1>4. TaskOK'
  BY <1>1 DEF IInv, TaskOK, avars, Unconnected
<1>5. ConfigComplete'
  BY DEF IInv, ConfigComplete
<1>6. LossRetried'
  <2>1. ctl'.bev = "disabled" => ctl'.reconnect_timer >= 0
    BY DEF CtlOK
  <2> QED
    BY <2>1 DEF LossRetried
<1>7. CertsOK'
  BY DEF IInv, CertsOK, tls, avars
<1>8. LoginReported'
  BY DEF LoginReported
<1> QED
  BY <1>2, <1>3, <1>4, <1>5, <1>6, <1>7, <1>8 DEF IInv

\* The same when nothing is reported and nobody logs in or out.
LEMMA QuietLemma ==
    ASSUME IInv, ctl.bev # "none", CtlOK(ctl'), ctl'.bev # "none",
           UNCHANGED <<task, conf, base, all_stream, reconnect, brk, stop, fatal, report>>,
           UNCHANGED avars,
           retry_times' \in 0 .. RetryCap, faults' \in 0 .. MaxFaults, driven' \in BOOLEAN,
           ctl'.is_login = ctl.is_login
    PROVE  IInv'
<1>1. report' \in Reports /\ (ctl'.is_login <=> report' = "LOGIN_OK")
  BY DEF IInv, TypeOK, LoginReported
<1>2. stop' \in BOOLEAN /\ fatal' \in 0 .. MaxStarts
  BY DEF IInv, TypeOK
<1> QED
  BY <1>1, <1>2, StepLemma

LEMMA FaultType ==
    ASSUME IInv
    PROVE  /\ retry_times \in 0 .. RetryCap /\ driven \in BOOLEAN /\ faults \in 0 .. MaxFaults
           /\ 0 \in 0 .. RetryCap
BY ControlAssumption DEF IInv, TypeOK

LEMMA FaultsType ==
    ASSUME IInv, NEW n \in Nat, Faults(n)
    PROVE  faults' \in 0 .. MaxFaults
BY ControlAssumption DEF IInv, TypeOK, Faults

LEMMA OneFault ==
    ASSUME IInv, Fault
    PROVE  faults' \in 0 .. MaxFaults
BY FaultsType DEF Fault

\* clear_main_control and the way out of the loop
LEMMA ReconnectingLemma ==
    ASSUME IInv, task = "loop", NEW c, Reconnecting(c),
           UNCHANGED <<task, conf, base, stop, fatal>>, UNCHANGED avars,
           retry_times' \in 0 .. RetryCap, faults' \in 0 .. MaxFaults, driven' \in BOOLEAN
    PROVE  IInv'
<1>1. ctl' = Cleared /\ all_stream' = {base} /\ report' = "RECONNECTING"
      /\ reconnect' = TRUE /\ brk' = TRUE
  BY DEF Reconnecting, ClearMainControl
<1>2. CtlOK(ctl)'
  BY <1>1, ClearedPrime
<1>3. TypeOK'
  <2>1. ctl' \in Ctl'
    BY <1>2 DEF CtlOK
  <2>2. all_stream' \subseteq 1 .. MaxStarts
    BY <1>1, ApiAssumption DEF IInv, TypeOK, TaskOK, Connects
  <2>3. report' \in Reports /\ reconnect' \in BOOLEAN /\ brk' \in BOOLEAN
    BY <1>1 DEF Reports
  <2> QED
    BY <2>1, <2>2, <2>3 DEF IInv, TypeOK, avars
<1>4. TaskOK'
  BY <1>1 DEF IInv, TaskOK, avars
<1>5. ConfigComplete' /\ LossRetried'
  BY <1>1 DEF IInv, ConfigComplete, LossRetried
<1>6. CertsOK'
  BY DEF IInv, CertsOK, tls, avars
<1>7. LoginReported'
  BY <1>1 DEF LoginReported, Cleared
<1> QED
  BY <1>2, <1>3, <1>4, <1>5, <1>6, <1>7 DEF IInv

\* connect_event_cb with an error or an end, or a handshake that fails
LEMMA FailedStep ==
    ASSUME IInv, UNCHANGED avars, ctl.bev # "none", NEW n \in Nat,
           NEW b \in {"handshake", "disabled"},
           NEW net \in {"none", "syn", "failed", "up", "silent", "closed"},
           b = "handshake" => ctl.bev \in {"connecting", "handshake"},
           ErrorEvent([ctl EXCEPT !.bev = b, !.net = net], n), driven' \in BOOLEAN
    PROVE  IInv'
<1> DEFINE c == [ctl EXCEPT !.bev = b, !.net = net]
           d == [c EXCEPT !.reconnect_timer = reconnect_backoff_seconds(Retry)]
<1>1. CtlOK(ctl) /\ ctl \in Ctl /\ retry_times \in 0 .. RetryCap
  BY DEF IInv, CtlOK, TypeOK
<1>2. /\ task = "loop" /\ UNCHANGED <<task, conf, base, stop, fatal>>
      /\ retry_times' = Retry
      /\ \/ ctl' = d /\ Faults(n) /\ UNCHANGED <<all_stream, report, reconnect, brk>>
         \/ Reconnecting(c) /\ Faults(n + 1)
  BY DEF ErrorEvent, Handler, ConnectionFailure
<1>3. Retry \in 0 .. RetryCap
  BY <1>1, RetryLemma
<1>4. faults' \in 0 .. MaxFaults
  BY <1>2, FaultsType
<1>5. CASE Reconnecting(c)
  <2> HIDE DEF c
  <2> QED
    BY <1>2, <1>3, <1>4, <1>5, ReconnectingLemma
<1>6. CASE ctl' = d /\ UNCHANGED <<all_stream, report, reconnect, brk>>
  <2>1. d = [ctl EXCEPT !.bev = b, !.net = net,
                        !.reconnect_timer = reconnect_backoff_seconds(Retry)]
    OBVIOUS
  <2>2. CtlOK(d)
    BY <1>1, <2>1, FailureLemma
  <2>3. d.bev = b /\ d.is_login = ctl.is_login
    BY <1>1 DEF Ctl
  <2> HIDE DEF d
  <2> QED
    BY <1>2, <1>3, <1>4, <1>6, <2>2, <2>3, QuietLemma
<1> QED
  BY <1>2, <1>5, <1>6

LEMMA CallbackLemma ==
    ASSUME IInv, Callback, UNCHANGED avars
    PROVE  IInv'
<1>1. CtlOK(ctl) /\ ctl \in Ctl
  BY DEF IInv, CtlOK
<1>2. CASE Connected \/ HandshakeDone
  <2>1. /\ ctl.bev \in {"connecting", "handshake"} /\ Handler
        /\ ConnectionSuccess(ctl) /\ UNCHANGED driven
    BY <1>2 DEF Connected, HandshakeDone
  <2>2. Beats
    BY <2>1, ConnectedLemma
  <2>3. PICK sent \in BOOLEAN, alive \in BOOLEAN :
          /\ ctl' = KeepControlAlive(Login([ctl EXCEPT !.bev = "open"], sent), alive)
          /\ IF sent THEN UNCHANGED <<stop, fatal>> ELSE XfrpcFatal(base)
          /\ Faults(IF sent /\ alive THEN 0 ELSE 1)
    BY <2>1 DEF ConnectionSuccess
  <2>4. CtlOK(ctl') /\ ctl'.is_login = ctl.is_login /\ ctl'.bev = "open"
    BY <1>1, <2>1, <2>2, <2>3, SuccessLemma
  <2>5. stop' \in BOOLEAN /\ fatal' \in 0 .. MaxStarts
    BY <2>3 DEF IInv, TypeOK, XfrpcFatal
  <2>6. faults' \in 0 .. MaxFaults
    BY <2>3, FaultsType
  <2>7. /\ retry_times' = 0 /\ driven' \in BOOLEAN
        /\ UNCHANGED <<task, conf, base, all_stream, report, reconnect, brk>>
    BY <2>1, FaultType DEF ConnectionSuccess, Handler
  <2>8. report' \in Reports /\ (ctl'.is_login <=> report' = "LOGIN_OK")
    BY <2>4, <2>7 DEF IInv, TypeOK, LoginReported
  <2> QED
    BY <2>1, <2>4, <2>5, <2>6, <2>7, <2>8, FaultType, StepLemma
<1>3. CASE TcpConnected
  <2>1. ctl.bev = "connecting" /\ Quiet /\ UNCHANGED report
    BY <1>3 DEF TcpConnected
  <2>2. ctl' = [ctl EXCEPT !.bev = "handshake"]
    BY <1>3 DEF TcpConnected
  <2>3. /\ ctl' \in Ctl /\ ctl'.bev = "handshake" /\ ctl'.session = ctl.session
        /\ ctl'.is_login = ctl.is_login /\ ctl'.status = ctl.status
        /\ ctl'.registered = ctl.registered /\ ctl'.reconnect_timer = ctl.reconnect_timer
        /\ ctl'.ticker = ctl.ticker /\ ctl'.pong_age = ctl.pong_age
        /\ ctl'.tx = ctl.tx /\ ctl'.rx = ctl.rx
    BY <1>1, <2>2 DEF Ctl
  <2>4. CtlOK(ctl')
    BY <1>1, <2>1, <2>3, TrafficLemma
  <2> QED
    BY <2>1, <2>3, <2>4, FaultType, QuietLemma DEF Quiet, Handler
<1>4. CASE ConnectFailed
  <2> DEFINE b == IF tls THEN "handshake" ELSE "disabled"
  <2>1. ctl.bev = "connecting" /\ driven' = driven
    BY <1>4 DEF ConnectFailed
  <2>2. ErrorEvent([ctl EXCEPT !.bev = b], 0)
    BY <1>4 DEF ConnectFailed
  <2>3. [ctl EXCEPT !.bev = b] = [ctl EXCEPT !.bev = b, !.net = ctl.net]
        /\ ctl.net \in {"none", "syn", "failed", "up", "silent", "closed"}
    BY <1>1 DEF Ctl
  <2>4. b \in {"handshake", "disabled"}
    OBVIOUS
  <2> HIDE DEF b
  <2> QED
    BY <2>1, <2>2, <2>3, <2>4, FaultType, FailedStep
<1>5. CASE HandshakeRefused
  <2>1. ctl.bev = "handshake" /\ driven' = driven
    BY <1>5 DEF HandshakeRefused
  <2>2. PICK n \in {"failed", "silent"} : ErrorEvent([ctl EXCEPT !.net = n], 1)
    BY <1>5 DEF HandshakeRefused
  <2>3. [ctl EXCEPT !.net = n] = [ctl EXCEPT !.bev = "handshake", !.net = n]
    BY <1>1, <2>1 DEF Ctl
  <2> QED
    BY <2>1, <2>2, <2>3, FaultType, FailedStep
<1>6. CASE HandshakeFails
  <2>1. ctl.bev = "handshake" /\ driven' = TRUE /\ ErrorEvent(ctl, 0)
    BY <1>6 DEF HandshakeFails
  <2>2. ctl = [ctl EXCEPT !.bev = "handshake", !.net = ctl.net]
        /\ ctl.net \in {"none", "syn", "failed", "up", "silent", "closed"}
    BY <1>1, <2>1 DEF Ctl
  <2>3. ErrorEvent([ctl EXCEPT !.bev = "handshake", !.net = ctl.net], 0) /\ driven' \in BOOLEAN
    BY <2>1, <2>2
  <2> QED
    BY <2>1, <2>2, <2>3, FaultType, FailedStep
<1>7. CASE ConnectionLost
  <2>1. ctl.bev = "open" /\ driven' = driven
        /\ ErrorEvent([ctl EXCEPT !.bev = "disabled"], 0)
    BY <1>7 DEF ConnectionLost
  <2>2. [ctl EXCEPT !.bev = "disabled"] = [ctl EXCEPT !.bev = "disabled", !.net = ctl.net]
        /\ ctl.net \in {"none", "syn", "failed", "up", "silent", "closed"}
    BY <1>1 DEF Ctl
  <2> QED
    BY <2>1, <2>2, FaultType, FailedStep
<1>8. CASE RecvLoginResp
  <2>1. ctl.bev = "open" /\ Quiet /\ report' = "LOGIN_OK"
    BY <1>8 DEF RecvLoginResp
  <2>2. PICK mid \in BOOLEAN :
          ctl' = StartProxyServices([Received("LoginResp", mid) EXCEPT !.is_login = TRUE])
    BY <1>8 DEF RecvLoginResp
  <2>3. CtlOK(Received("LoginResp", mid)) /\ Received("LoginResp", mid).bev = "open"
    BY <1>1, <2>1, ReceivedLemma
  <2>4. CtlOK(ctl') /\ ctl'.is_login = TRUE
    BY <2>2, <2>3, StartProxiesLemma
  <2>5. ctl'.bev # "none"
    BY <2>4 DEF CtlOK, Cleared
  <2>6. stop' \in BOOLEAN /\ fatal' \in 0 .. MaxStarts /\ report' \in Reports
    BY <2>1 DEF IInv, TypeOK, Quiet, Reports
  <2> QED
    BY <2>1, <2>4, <2>5, <2>6, FaultType, StepLemma DEF Quiet, Handler
<1>9. CASE RecvLoginRefused
  <2>1. ctl.bev = "open" /\ Quiet /\ UNCHANGED report
        /\ ctl' = Received("LoginRefused", FALSE)
    BY <1>9 DEF RecvLoginRefused
  <2>2. CtlOK(ctl') /\ ctl'.bev = "open" /\ ctl'.is_login = ctl.is_login
    BY <1>1, <2>1, ReceivedLemma
  <2> QED
    BY <2>1, <2>2, FaultType, QuietLemma DEF Quiet, Handler
<1>10. CASE RecvReqWorkConn
  <2>1. ctl.bev = "open" /\ Quiet /\ UNCHANGED report
        /\ ctl.is_login
    BY <1>10 DEF RecvReqWorkConn
  <2>2. PICK mid \in BOOLEAN :
          ctl' = StartProxyServices([Received("ReqWorkConn", mid) EXCEPT
                                        !.session = @ \cup {"clients", "crypto"}])
    BY <1>10 DEF RecvReqWorkConn
  <2>3. ctl.is_login = TRUE
    BY <1>1, <2>1 DEF Ctl
  <2>4. CtlOK(Received("ReqWorkConn", mid)) /\ Received("ReqWorkConn", mid).bev = "open"
        /\ Received("ReqWorkConn", mid).is_login = TRUE
    BY <1>1, <2>1, <2>3, ReceivedLemma
  <2>5. CtlOK(ctl') /\ ctl'.is_login = ctl.is_login
    BY <2>2, <2>3, <2>4, ReqWorkConnLemma
  <2>6. ctl'.bev # "none"
    BY <2>3, <2>5 DEF CtlOK, Cleared
  <2> QED
    BY <2>1, <2>5, <2>6, FaultType, QuietLemma DEF Quiet, Handler
<1>11. CASE RecvPong
  <2>1. ctl.bev = "open" /\ Quiet /\ UNCHANGED report
    BY <1>11 DEF RecvPong
  <2>2. PICK mid \in BOOLEAN : ctl' = [Received("Pong", mid) EXCEPT !.pong_age = 0]
    BY <1>11 DEF RecvPong
  <2>3. CtlOK(Received("Pong", mid)) /\ Received("Pong", mid).bev = "open"
        /\ Received("Pong", mid).is_login = ctl.is_login
        /\ Received("Pong", mid).ticker >= 0
    BY <1>1, <1>11, <2>1, ReceivedLemma DEF RecvPong, CtlOK
  <2>4. CtlOK(ctl')
    BY <2>1, <2>2, <2>3, ConnectedLemma, PongLemma
  <2>5. ctl'.bev = "open" /\ ctl'.is_login = ctl.is_login
    BY <2>2, <2>3 DEF CtlOK, Ctl
  <2> QED
    BY <2>1, <2>4, <2>5, FaultType, QuietLemma DEF Quiet, Handler
<1> QED
  BY <1>2, <1>3, <1>4, <1>5, <1>6, <1>7, <1>8, <1>9, <1>10, <1>11 DEF Callback

LEMMA TimerLemma ==
    ASSUME IInv, Heartbeat \/ ReconnectTimer \/ Tick, UNCHANGED avars
    PROVE  IInv'
<1>1. CtlOK(ctl) /\ ctl \in Ctl /\ task = "loop"
  BY DEF IInv, CtlOK, Heartbeat, ReconnectTimer, Tick
<1>2. CASE Heartbeat
  <2> DEFINE c == [IF ctl.status THEN Ping(ctl) ELSE ctl EXCEPT !.ticker = Rescheduled(ctl)]
  <2>1. /\ ctl.ticker = 0
        /\ IF ServerTimeout(c) THEN Reconnecting(c)
           ELSE ctl' = c /\ UNCHANGED <<all_stream, report, reconnect, brk>>
        /\ UNCHANGED <<task, conf, base, retry_times, stop, fatal, driven, faults>>
    BY <1>2 DEF Heartbeat
  <2>2. ctl.bev # "none"
    BY <1>1, <2>1 DEF CtlOK, Cleared
  <2>3. /\ ~ServerTimeout(c) => CtlOK(c)
        /\ c.is_login = ctl.is_login /\ c.bev = ctl.bev
    BY <1>1, <2>2, ConnectedLemma, HeartbeatLemma
  <2> HIDE DEF c
  <2>4. CASE ServerTimeout(c)
    BY <1>1, <2>1, <2>4, FaultType, ReconnectingLemma
  <2>5. CASE ~ServerTimeout(c)
    BY <2>1, <2>2, <2>3, <2>5, FaultType, QuietLemma
  <2> QED
    BY <2>4, <2>5
<1>3. CASE ReconnectTimer
  BY <1>1, <1>3, FaultType, ReconnectingLemma DEF ReconnectTimer
<1>4. CASE Tick
  <2>1. /\ ~brk /\ ~stop /\ ctl.ticker # 0
        /\ driven' = FALSE
        /\ UNCHANGED <<task, conf, base, all_stream, retry_times, reconnect, brk, stop,
                       fatal, report>>
    BY <1>4 DEF Tick
  <2>2. ctl' = [ctl EXCEPT !.reconnect_timer = Less(@), !.ticker = Less(@),
                           !.pong_age = IF @ \in 0 .. PongCap - 1 THEN @ + 1 ELSE @]
    BY <1>4 DEF Tick
  <2>3. faults' \in 0 .. MaxFaults
    BY <1>4, FaultsType DEF Tick
  <2>4. ctl.bev # "none"
    <3>1. SUFFICES ASSUME ctl = Cleared PROVE FALSE
      BY <1>1 DEF CtlOK
    <3>2. ctl.bev = "none" /\ ctl.reconnect_timer = -1
      BY <3>1 DEF Cleared
    <3> QED
      BY <1>1, <2>1, <3>2 DEF IInv, LossRetried
  <2>5. CtlOK(ctl') /\ ctl'.bev = ctl.bev /\ ctl'.is_login = ctl.is_login
    BY <1>1, <2>1, <2>2, <2>4, ConnectedLemma, TickLemma
  <2>6. driven' \in BOOLEAN
    BY <2>1
  <2> QED
    BY <2>1, <2>3, <2>4, <2>5, <2>6, FaultType, QuietLemma
<1> QED
  BY <1>2, <1>3, <1>4

\* The network and frps change what is on the way, and the clock the age of the
\* last Pong.
LEMMA EnvironmentLemma ==
    ASSUME IInv, Environment, UNCHANGED avars
    PROVE  IInv'
<1>1. CtlOK(ctl) /\ ctl \in Ctl
  BY DEF IInv, CtlOK
<1>2. Outside
  BY DEF Environment, FrpsAccepts, FrpsAnswers, FrpsReqWorkConn, FrpsRefusesLogin,
         NetworkFault, ClockStep
<1>3. faults' \in 0 .. MaxFaults
  BY FaultType, OneFault DEF Environment, FrpsAccepts, FrpsAnswers, FrpsReqWorkConn,
                             FrpsRefusesLogin, NetworkFault, ClockStep
<1>4. ctl.bev # "none"
  <2>1. SUFFICES ASSUME ctl = Cleared PROVE FALSE
    BY <1>1 DEF CtlOK
  <2>2. ctl.net = "none" /\ ctl.pong_age = -1
    BY <2>1 DEF Cleared
  <2> QED
    BY <2>2 DEF Environment, FrpsAccepts, FrpsAnswers, FrpsReqWorkConn, FrpsRefusesLogin,
                NetworkFault, ClockStep
<1>5. CASE ClockStep
  <2>1. CtlOK(ctl') /\ ctl'.bev = ctl.bev /\ ctl'.is_login = ctl.is_login
    BY <1>1, <1>4, <1>5, ConnectedLemma, ClockLemma DEF ClockStep
  <2> QED
    BY <1>2, <1>3, <1>4, <2>1, FaultType, QuietLemma DEF Outside
<1>6. CASE ~ClockStep
  <2>1. PICK net \in {"failed", "up", "silent", "closed"},
             tx \in SUBSET Requests, rx \in SUBSET Replies :
          /\ ctl' = [ctl EXCEPT !.net = net, !.tx = tx, !.rx = rx]
          /\ "Ping" \in tx \/ "Pong" \in rx => "Ping" \in ctl.tx \/ "Pong" \in ctl.rx
    <3>1. /\ ctl.net \in {"none", "syn", "failed", "up", "silent", "closed"}
          /\ ctl.tx \in SUBSET Requests /\ ctl.rx \in SUBSET Replies
      BY <1>1 DEF Ctl
    <3>2. CASE FrpsAccepts
      <4>1. ctl' = [ctl EXCEPT !.net = "up", !.tx = ctl.tx, !.rx = ctl.rx]
        BY <1>1, <3>2 DEF FrpsAccepts, Ctl
      <4> QED
        BY <3>1, <4>1
    <3>3. CASE FrpsAnswers
      <4>1. PICK m \in ctl.tx :
              ctl' = [ctl EXCEPT !.tx = @ \ {m},
                                 !.rx = @ \cup {IF m = "Login" THEN "LoginResp" ELSE "Pong"}]
        BY <3>3 DEF FrpsAnswers
      <4> DEFINE rx == ctl.rx \cup {IF m = "Login" THEN "LoginResp" ELSE "Pong"}
      <4>2. /\ rx \in SUBSET Replies /\ ctl.tx \ {m} \in SUBSET Requests
            /\ "Pong" \in rx => "Ping" \in ctl.tx \/ "Pong" \in ctl.rx
        BY <3>1 DEF Replies, Requests
      <4>3. ctl.net = "up"
        BY <3>3 DEF FrpsAnswers
      <4>4. ctl' = [ctl EXCEPT !.net = "up", !.tx = ctl.tx \ {m}, !.rx = rx]
        BY <1>1, <4>1, <4>3 DEF Ctl
      <4> HIDE DEF rx
      <4> QED
        BY <4>2, <4>4
    <3>4. CASE FrpsReqWorkConn
      <4>1. ctl.rx \cup {"ReqWorkConn"} \in SUBSET Replies
        BY <3>1 DEF Replies
      <4>2. ctl' = [ctl EXCEPT !.net = "up", !.tx = ctl.tx, !.rx = ctl.rx \cup {"ReqWorkConn"}]
        BY <1>1, <3>4 DEF FrpsReqWorkConn, Ctl
      <4> QED
        BY <3>1, <4>1, <4>2
    <3>5. CASE FrpsRefusesLogin
      <4>1. ctl.rx \cup {"LoginRefused"} \in SUBSET Replies /\ ctl.tx \ {"Login"} \in SUBSET Requests
        BY <3>1 DEF Replies
      <4>2. ctl' = [ctl EXCEPT !.net = "up", !.tx = ctl.tx \ {"Login"},
                               !.rx = ctl.rx \cup {"LoginRefused"}]
        BY <1>1, <3>5 DEF FrpsRefusesLogin, Ctl
      <4> QED
        BY <3>1, <4>1, <4>2
    <3>6. CASE NetworkFault
      <4>1. PICK n \in {"failed", "closed", "silent"} : ctl' = [ctl EXCEPT !.net = n]
        BY <3>6 DEF NetworkFault
      <4>2. ctl' = [ctl EXCEPT !.net = n, !.tx = ctl.tx, !.rx = ctl.rx]
        BY <1>1, <4>1 DEF Ctl
      <4> QED
        BY <3>1, <4>2
    <3> QED
      BY <1>6, <3>2, <3>3, <3>4, <3>5, <3>6 DEF Environment
  <2>2. /\ ctl' \in Ctl /\ ctl'.bev = ctl.bev /\ ctl'.session = ctl.session
        /\ ctl'.is_login = ctl.is_login /\ ctl'.status = ctl.status
        /\ ctl'.registered = ctl.registered /\ ctl'.reconnect_timer = ctl.reconnect_timer
        /\ ctl'.ticker = ctl.ticker /\ ctl'.pong_age = ctl.pong_age
        /\ "Ping" \in ctl'.tx \/ "Pong" \in ctl'.rx => "Ping" \in ctl.tx \/ "Pong" \in ctl.rx
    BY <1>1, <2>1 DEF Ctl
  <2>3. CtlOK(ctl')
    BY <1>1, <1>4, <2>2, TrafficLemma
  <2> QED
    BY <1>2, <1>3, <1>4, <2>2, <2>3, FaultType, QuietLemma DEF Outside
<1> QED
  BY <1>5, <1>6

\* run_control around the loop
LEMMA RunControlLemma ==
    ASSUME IInv, StartBaseConnect \/ StartBaseConnectFails \/ DispatchReturns, UNCHANGED avars
    PROVE  IInv'
<1>1. CtlOK(ctl) /\ TypeOK /\ TaskOK /\ LossRetried /\ ConfigComplete /\ CertsOK /\ LoginReported
  BY DEF IInv
<1>2. CASE StartBaseConnect
  <2>1. /\ task = "connect" /\ task' = "loop" /\ reconnect' = FALSE /\ brk' = FALSE
        /\ UNCHANGED <<conf, base, all_stream, retry_times, stop, fatal, report, driven, faults>>
    BY <1>2 DEF StartBaseConnect
  <2>2. ctl' = [Cleared EXCEPT !.bev = "connecting", !.net = "syn"] /\ ctl = Cleared
    BY <1>1, <1>2, <2>1 DEF StartBaseConnect, InitServerConnection, TaskOK, Unconnected
  <2>3. CtlOK(ctl')
    <3>1. Cleared \in Ctl
      BY ClearedLemma DEF CtlOK
    <3>2. ctl' \in Ctl
      BY <2>2, <3>1 DEF Ctl
    <3>3. /\ ctl'.bev = "connecting" /\ ctl'.session = {} /\ ctl'.is_login = FALSE
          /\ ctl'.status = FALSE /\ ctl'.pong_age = -1 /\ ctl'.tx = {} /\ ctl'.rx = {}
      BY <2>2 DEF Cleared
    <3> QED
      BY <3>2, <3>3 DEF CtlOK
  <2>4. CtlOK(ctl)'
    BY <2>1, <2>3, SameConf
  <2>5. TypeOK'
    <3>1. ctl' \in Ctl'
      BY <2>4 DEF CtlOK
    <3> QED
      BY <1>1, <2>1, <3>1 DEF TypeOK, Tasks, avars
  <2>6. TaskOK' /\ ConfigComplete' /\ CertsOK'
    BY <1>1, <2>1 DEF TaskOK, Connects, Unconnected, ConfigComplete, CertsOK, tls, avars
  <2>7. ctl'.bev = "connecting" /\ ctl'.is_login = FALSE /\ ctl.is_login = FALSE
    BY <2>2 DEF Cleared
  <2>8. LossRetried'
    BY <2>7 DEF LossRetried
  <2>9. LoginReported'
    BY <1>1, <2>1, <2>7 DEF LoginReported
  <2> QED
    BY <2>4, <2>5, <2>6, <2>8, <2>9 DEF IInv
<1>3. CASE StartBaseConnectFails
  <2>1. /\ task = "connect" /\ task' = "loop" /\ reconnect' = FALSE /\ brk' = FALSE
        /\ UNCHANGED <<conf, base, ctl, all_stream, retry_times, report, driven>>
        /\ fatal' = base
    BY <1>3 DEF StartBaseConnectFails, XfrpcFatal
  <2>2. stop' = TRUE
    BY <1>1, <1>3, <2>1 DEF StartBaseConnectFails, XfrpcFatal, TaskOK, Connects
  <2>3. faults' \in 0 .. MaxFaults
    BY <1>3, OneFault DEF StartBaseConnectFails
  <2>4. CtlOK(ctl)'
    BY <1>1, <2>1, SameConf
  <2>5. TypeOK'
    <3>1. ctl' \in Ctl'
      BY <2>4 DEF CtlOK
    <3> QED
      BY <1>1, <2>1, <2>2, <2>3, <3>1 DEF TypeOK, Tasks, avars
  <2>6. TaskOK' /\ ConfigComplete' /\ CertsOK'
    BY <1>1, <2>1 DEF TaskOK, Connects, Unconnected, ConfigComplete, CertsOK, tls, avars
  <2>7. LossRetried' /\ LoginReported'
    BY <1>1, <2>1, <2>2 DEF LossRetried, LoginReported
  <2> QED
    BY <2>4, <2>5, <2>6, <2>7 DEF IInv
<1>4. CASE DispatchReturns
  <2>1. /\ task = "loop" /\ task' = (IF reconnect THEN "connect" ELSE "close")
        /\ UNCHANGED <<conf, base, ctl, all_stream, retry_times, reconnect, brk, stop,
                       fatal, report, driven, faults>>
    BY <1>4 DEF DispatchReturns
  <2>2. task' \in {"connect", "close"} /\ (task' = "connect" => ctl' = Cleared)
    BY <1>1, <2>1 DEF TaskOK
  <2>3. CtlOK(ctl)'
    BY <1>1, <2>1, SameConf
  <2>4. TypeOK'
    <3>1. ctl' \in Ctl'
      BY <2>3 DEF CtlOK
    <3> QED
      BY <1>1, <2>1, <2>2, <3>1 DEF TypeOK, Tasks, avars
  <2>5. TaskOK' /\ ConfigComplete' /\ CertsOK'
    BY <1>1, <2>1, <2>2 DEF TaskOK, Connects, Unconnected, ConfigComplete, CertsOK, tls, avars
  <2>6. LossRetried' /\ LoginReported'
    BY <1>1, <2>1, <2>2 DEF LossRetried, LoginReported
  <2> QED
    BY <2>3, <2>4, <2>5, <2>6 DEF IInv
<1> QED
  BY <1>2, <1>3, <1>4

\* The start calls: they find no task, and what they launch is complete.
LEMMA StartLemma ==
    ASSUME IInv, Start \/ StartRefused \/ LaunchFails
    PROVE  IInv'
<1>1. TypeOK /\ TaskOK /\ LossRetried /\ CertsOK /\ LoginReported
  BY DEF IInv
<1>2. task = "off" /\ ctl = Cleared
  BY <1>1 DEF Start, StartRefused, LaunchFails, TaskOK, Unconnected
<1>3. PICK src \in Sources :
        conf' = Load(src, conf).conf /\ (Start => Load(src, conf).ok)
  BY DEF Start, StartRefused, LaunchFails
<1>4. src \in Source /\ IsConf(conf)
  BY <1>1, ApiAssumption DEF TypeOK
<1>5. IsConf(conf')
  BY <1>3, <1>4, LoadType
<1>6. Start => Complete(conf')
  BY <1>3, <1>4, LoadComplete
<1>7. UNCHANGED <<base, ctl, all_stream, retry_times, reconnect, brk, stop, fatal,
                  report, driven, stops, g_tls, held>> /\ faults' \in 0 .. MaxFaults
  BY FaultType, OneFault DEF Start, StartRefused, LaunchFails, avars
<1>8. CtlOK(ctl)'
  BY <1>2, <1>7, ClearedPrime
<1>9. IsConf(conf)' /\ ctl' \in Ctl'
  BY <1>5, <1>8 DEF IsConf, CtlOK
<1>10. CASE Start
  <2>1. /\ task' = "created" /\ running' = TRUE /\ asked' = FALSE
        /\ starts' = starts + 1 /\ starts < MaxStarts
    BY <1>10 DEF Start
  <2>2. starts' \in 0 .. MaxStarts /\ starts' # 0
    BY <1>1, <2>1, ApiAssumption DEF TypeOK
  <2>3. TypeOK'
    BY <1>1, <1>7, <1>9, <2>1, <2>2 DEF TypeOK, Tasks
  <2>4. TaskOK'
    BY <1>2, <1>7, <2>1, <2>2 DEF TaskOK, Connects, Unconnected
  <2>5. ConfigComplete'
    BY <1>6, <1>10 DEF ConfigComplete, Complete
  <2>6. LossRetried' /\ CertsOK' /\ LoginReported'
    BY <1>1, <1>2, <1>7, <2>1 DEF LossRetried, CertsOK, LoginReported, Connects
  <2> QED
    BY <1>8, <2>3, <2>4, <2>5, <2>6 DEF IInv
<1>11. CASE StartRefused \/ LaunchFails
  <2>1. UNCHANGED <<task, running, starts, asked>>
    BY <1>11 DEF StartRefused, LaunchFails, avars
  <2>2. TypeOK'
    BY <1>1, <1>7, <1>9, <2>1 DEF TypeOK
  <2>3. TaskOK' /\ ConfigComplete'
    BY <1>1, <1>2, <1>7, <2>1 DEF TaskOK, Connects, ConfigComplete
  <2>4. LossRetried' /\ CertsOK' /\ LoginReported'
    BY <1>1, <1>2, <1>7, <2>1 DEF LossRetried, CertsOK, LoginReported, Connects
  <2> QED
    BY <1>8, <2>2, <2>3, <2>4 DEF IInv
<1> QED
  BY <1>10, <1>11

\* Free configurations are configurations.
LEMMA FreeLemma ==
    ASSUME NEW c, IsConf(c)
    PROVE  IsConf(free_common_config(free_all_proxy_services(c)))
<1> DEFINE d == free_common_config(free_all_proxy_services(c))
<1>1. d = [c EXCEPT !.all_ps = NoProxies, !.server_addr = "", !.wire_protocol = ""]
  BY DEF free_common_config, free_all_proxy_services
<1>2. d.all_ps = NoProxies /\ DOMAIN NoProxies = {}
  BY <1>1 DEF IsConf, NoProxies
<1>3. d \in [server_addr: {"", "127.0.0.1", "host"}, heartbeat_interval: Int,
             heartbeat_timeout: Int, wire_protocol: {"", "v1", "v2", "v3"},
             tls_enable: BOOLEAN, all_ps: {d.all_ps}]
  BY <1>1, <1>2 DEF IsConf
<1> HIDE DEF d
<1>4. IsConf(d)
  BY <1>2, <1>3 DEF IsConf
<1> QED
  BY <1>4 DEF d

\* xfrpc_task and xfrpc_loop before the connection
LEMMA BeginLemma ==
    ASSUME IInv, TaskBegins \/ InitLoginFails \/ InitMainControl \/ InitMainControlFails
    PROVE  IInv'
<1>1. TypeOK /\ TaskOK /\ LossRetried /\ CertsOK /\ LoginReported /\ ConfigComplete
  BY DEF IInv
<1>2. task \in {"created", "init"} /\ ctl = Cleared /\ ctl' = ctl /\ conf' = conf
  BY <1>1 DEF TaskBegins, InitLoginFails, InitMainControl, InitMainControlFails,
              TaskOK, Unconnected
<1>3. CtlOK(ctl)'
  BY <1>2, ClearedPrime
<1>4. IsConf(conf)' /\ ctl' \in Ctl' /\ ctl.is_login = FALSE
  BY <1>1, <1>2, <1>3 DEF TypeOK, CtlOK, Cleared
<1>5. faults' \in 0 .. MaxFaults
  BY FaultType, OneFault DEF TaskBegins, InitLoginFails, InitMainControl, InitMainControlFails
<1>6. CASE TaskBegins \/ InitLoginFails
  <2>1. /\ task = "created" /\ task' = "init" /\ report' = "CONNECTING"
        /\ UNCHANGED <<base, all_stream, retry_times, reconnect, brk, driven, avars>>
    BY <1>6 DEF TaskBegins, InitLoginFails
  <2>2. stop' \in BOOLEAN /\ fatal' \in 0 .. MaxStarts
    BY <1>1, <1>6 DEF TaskBegins, InitLoginFails, XfrpcFatal, TypeOK
  <2>3. TypeOK'
    BY <1>1, <1>4, <1>5, <2>1, <2>2 DEF TypeOK, Tasks, Reports, avars
  <2>4. TaskOK' /\ ConfigComplete' /\ LossRetried'
    BY <1>1, <1>2, <2>1 DEF TaskOK, Connects, Unconnected, ConfigComplete, LossRetried, avars
  <2>5. CertsOK' /\ LoginReported'
    BY <1>1, <1>2, <1>4, <2>1 DEF CertsOK, LoginReported, Connects, avars
  <2> QED
    BY <1>3, <2>3, <2>4, <2>5 DEF IInv
<1>7. CASE InitMainControl
  <2>1. /\ task = "init" /\ task' = "connect" /\ base' = starts
        /\ all_stream' = all_stream \cup {starts} /\ brk' = FALSE /\ stop' = FALSE
        /\ g_tls' = (IF tls /\ g_tls = 0 THEN starts ELSE g_tls)
        /\ UNCHANGED <<retry_times, reconnect, fatal, report, driven, running, starts, stops,
                       held, asked>>
    BY <1>7 DEF InitMainControl
  <2>2. starts \in 1 .. MaxStarts
    BY <1>1, <2>1, ApiAssumption DEF TypeOK, TaskOK
  <2>3. g_tls = 0
    BY <1>1, <2>1 DEF CertsOK, Connects
  <2>4. TypeOK'
    <3>1. all_stream' \subseteq 1 .. MaxStarts /\ base' \in 0 .. MaxStarts
          /\ g_tls' \in 0 .. MaxStarts
      BY <1>1, <2>1, <2>2, ApiAssumption DEF TypeOK
    <3> QED
      BY <1>1, <1>4, <1>5, <2>1, <3>1 DEF TypeOK, Tasks
  <2>5. TaskOK'
    BY <1>1, <1>2, <2>1, <2>2 DEF TaskOK, Connects, Unconnected
  <2>6. ConfigComplete' /\ LossRetried'
    BY <1>1, <1>2, <2>1 DEF ConfigComplete, LossRetried
  <2>7. CertsOK'
    BY <1>2, <2>1, <2>3 DEF CertsOK, Connects, tls
  <2>8. LoginReported'
    BY <1>1, <1>2, <2>1 DEF LoginReported
  <2> QED
    BY <1>3, <2>4, <2>5, <2>6, <2>7, <2>8 DEF IInv
<1>8. CASE InitMainControlFails
  <2>1. /\ task = "init" /\ task' = "crashed"
        /\ all_stream' \in {all_stream, all_stream \cup {starts}}
        /\ UNCHANGED <<base, retry_times, reconnect, brk, report, driven, avars>>
    BY <1>8 DEF InitMainControlFails
  <2>2. starts \in 1 .. MaxStarts
    BY <1>1, <2>1, ApiAssumption DEF TypeOK, TaskOK
  <2>3. stop' \in BOOLEAN /\ fatal' \in 0 .. MaxStarts
    BY <1>1, <1>8 DEF InitMainControlFails, XfrpcFatal, TypeOK
  <2>4. TypeOK'
    <3>1. all_stream' \subseteq 1 .. MaxStarts
      BY <1>1, <2>1, <2>2 DEF TypeOK
    <3> QED
      BY <1>1, <1>4, <1>5, <2>1, <2>3, <3>1 DEF TypeOK, Tasks, avars
  <2>5. TaskOK' /\ ConfigComplete' /\ LossRetried'
    BY <1>1, <1>2, <2>1 DEF TaskOK, Connects, Unconnected, ConfigComplete, LossRetried, avars
  <2>6. CertsOK' /\ LoginReported'
    BY <1>1, <1>2, <1>4, <2>1 DEF CertsOK, LoginReported, Connects, avars
  <2> QED
    BY <1>3, <2>4, <2>5, <2>6 DEF IInv
<1> QED
  BY <1>6, <1>7, <1>8

\* xfrpc_loop and xfrpc_task after it
LEMMA EndLemma ==
    ASSUME IInv, CloseMainControl \/ FinalReport \/ TaskEnds
    PROVE  IInv'
<1>1. TypeOK /\ TaskOK /\ CertsOK /\ LoginReported
  BY DEF IInv
<1>2. ctl' = Cleared /\ task' \in {"final", "ending", "off"}
  BY <1>1 DEF CloseMainControl, FinalReport, TaskEnds, ClearMainControl, TaskOK, Unconnected
<1>3. CtlOK(ctl)' /\ ctl' \in Ctl'
  BY <1>2, ClearedPrime DEF CtlOK
<1>4. ConfigComplete' /\ LossRetried'
  BY <1>2 DEF ConfigComplete, LossRetried
<1>5. CASE CloseMainControl
  <2>1. /\ task = "close" /\ task' = "final" /\ all_stream' = {base} /\ base' = 0
        /\ report' = "RECONNECTING" /\ g_tls' = 0
        /\ UNCHANGED <<conf, retry_times, reconnect, brk, stop, fatal, driven, faults,
                       running, starts, stops, held, asked>>
    BY <1>5 DEF CloseMainControl
  <2>2. base \in 1 .. MaxStarts
    BY <1>1, <2>1, ApiAssumption DEF TypeOK, TaskOK, Connects
  <2>3. TypeOK'
    <3>1. all_stream' \subseteq 1 .. MaxStarts /\ base' \in 0 .. MaxStarts
          /\ g_tls' \in 0 .. MaxStarts
      BY <2>1, <2>2, ApiAssumption
    <3> QED
      BY <1>1, <1>3, <2>1, <3>1 DEF TypeOK, Tasks, Reports
  <2>4. TaskOK'
    BY <1>1, <1>2, <2>1 DEF TaskOK, Connects, Unconnected
  <2>5. CertsOK' /\ LoginReported'
    BY <1>2, <2>1 DEF CertsOK, LoginReported, Connects, Cleared
  <2> QED
    BY <1>3, <1>4, <2>3, <2>4, <2>5 DEF IInv
<1>6. CASE FinalReport
  <2>1. /\ task = "final" /\ task' = "ending"
        /\ conf' = free_common_config(free_all_proxy_services(conf))
        /\ report' = (IF fatal # 0 THEN "FATAL" ELSE "STOPPED")
        /\ UNCHANGED <<base, ctl, all_stream, retry_times, reconnect, brk, stop,
                       fatal, driven, faults, avars>>
    BY <1>6 DEF FinalReport
  <2>2. IsConf(conf')
    BY <1>1, <2>1, FreeLemma DEF TypeOK
  <2>3. report' \in {"FATAL", "STOPPED"}
    BY <2>1
  <2>4. TypeOK'
    <3>1. IsConf(conf)'
      BY <2>2 DEF IsConf
    <3>2. report' \in Reports
      BY <2>3 DEF Reports
    <3> QED
      BY <1>1, <1>3, <2>1, <3>1, <3>2 DEF TypeOK, Tasks, avars
  <2>5. TaskOK'
    BY <1>1, <1>2, <2>1 DEF TaskOK, Connects, Unconnected, avars
  <2>6. CertsOK' /\ LoginReported'
    BY <1>1, <1>2, <2>1, <2>3 DEF CertsOK, LoginReported, Connects, Cleared, avars
  <2> QED
    BY <1>3, <1>4, <2>4, <2>5, <2>6 DEF IInv
<1>7. CASE TaskEnds
  <2>1. /\ task = "ending" /\ task' = "off" /\ running' = FALSE
        /\ UNCHANGED <<conf, base, ctl, all_stream, retry_times, reconnect, brk, stop,
                       fatal, report, driven, faults, starts, stops, g_tls, held, asked>>
    BY <1>7 DEF TaskEnds
  <2>2. TypeOK'
    BY <1>1, <1>3, <2>1 DEF TypeOK, Tasks, IsConf
  <2>3. TaskOK'
    BY <1>1, <1>2, <2>1 DEF TaskOK, Connects, Unconnected
  <2>4. CertsOK' /\ LoginReported'
    BY <1>1, <2>1 DEF CertsOK, LoginReported, Connects
  <2> QED
    BY <1>3, <1>4, <2>2, <2>3, <2>4 DEF IInv
<1> QED
  BY <1>5, <1>6, <1>7

\* xfrpc_stop only ever sets the flag.
LEMMA StopLemma ==
    ASSUME IInv, StopReads \/ StopWrites
    PROVE  IInv'
<1>1. CtlOK(ctl) /\ TypeOK /\ TaskOK /\ LossRetried /\ CertsOK /\ LoginReported /\ ConfigComplete
  BY DEF IInv
<1>2. UNCHANGED <<task, conf, base, ctl, all_stream, retry_times, reconnect, brk, fatal,
                  report, driven, faults, running, starts, g_tls>>
  BY DEF StopReads, StopWrites, cvars
<1>3. stop' \in BOOLEAN /\ (stop => stop') /\ held' \in 0 .. MaxStarts
      /\ stops' \in 0 .. MaxStops /\ asked' \in BOOLEAN
  <2>1. CASE StopReads
    BY <1>1, <2>1, ApiAssumption DEF StopReads, TypeOK, cvars
  <2>2. CASE StopWrites
    <3>1. stop \in BOOLEAN /\ (stop' = TRUE \/ stop' = stop \/ stop' = (stop \/ base # 0))
      BY <1>1, <2>2 DEF StopWrites, TypeOK
    <3>2. stop' \in BOOLEAN /\ (stop => stop')
      BY <3>1, Zenon
    <3>3. held' = 0 /\ UNCHANGED <<stops, asked>>
      BY <2>2 DEF StopWrites
    <3>4. held' \in 0 .. MaxStarts /\ stops' \in 0 .. MaxStops /\ asked' \in BOOLEAN
      BY <1>1, <3>3, ApiAssumption DEF TypeOK
    <3> QED
      BY <3>2, <3>4
  <2> QED
    BY <2>1, <2>2
<1>4. CtlOK(ctl)'
  BY <1>1, <1>2, SameConf
<1>5. TypeOK'
  <2>1. ctl' \in Ctl' /\ IsConf(conf)'
    BY <1>1, <1>2, <1>4 DEF CtlOK, TypeOK, IsConf
  <2> QED
    BY <1>1, <1>2, <1>3, <2>1 DEF TypeOK
<1>6. TaskOK' /\ ConfigComplete' /\ LossRetried'
  BY <1>1, <1>2, <1>3 DEF TaskOK, ConfigComplete, LossRetried
<1>7. CertsOK' /\ LoginReported'
  BY <1>1, <1>2 DEF CertsOK, LoginReported, tls
<1> QED
  BY <1>4, <1>5, <1>6, <1>7 DEF IInv

-----------------------------------------------------------------------------
(* The invariant *)

LEMMA InitLemma == Init => IInv
<1> SUFFICES ASSUME Init PROVE IInv
  OBVIOUS
<1>1. IsConf(conf)
  <2> DEFINE i == init_common_config
  <2>1. i \in Common /\ i.all_ps = NoProxies
    BY InitCommon DEF init_common_config
  <2>2. conf = [i EXCEPT !.server_addr = "", !.wire_protocol = ""]
    BY DEF Init, Unset, free_common_config
  <2> HIDE DEF i
  <2>3. conf.all_ps = NoProxies /\ DOMAIN NoProxies = {}
    BY <2>1, <2>2 DEF Common, NoProxies
  <2>4. conf \in [server_addr: {"", "127.0.0.1", "host"}, heartbeat_interval: Int,
                  heartbeat_timeout: Int, wire_protocol: {"", "v1", "v2", "v3"},
                  tls_enable: BOOLEAN, all_ps: {conf.all_ps}]
    BY <2>1, <2>2, <2>3 DEF Common
  <2> QED
    BY <2>3, <2>4 DEF IsConf
<1>2. ctl = Cleared /\ CtlOK(ctl)
  BY ClearedLemma DEF Init
<1>3. TypeOK
  <2>1. 0 \in 0 .. MaxStarts /\ 0 \in 0 .. MaxStops /\ 0 \in 0 .. RetryCap /\ 0 \in 0 .. MaxFaults
    BY ControlAssumption, ApiAssumption
  <2>2. task \in Tasks /\ report \in Reports /\ ctl \in Ctl
    BY <1>2 DEF Init, Tasks, Reports, CtlOK
  <2> QED
    BY <1>1, <2>1, <2>2 DEF Init, TypeOK
<1>4. TaskOK /\ ConfigComplete /\ LossRetried
  BY <1>2 DEF Init, TaskOK, ConfigComplete, LossRetried, Connects
<1>5. CertsOK /\ LoginReported
  BY DEF Init, CertsOK, LoginReported, Connects, Cleared
<1> QED
  BY <1>2, <1>3, <1>4, <1>5 DEF IInv

LEMMA StutterLemma ==
    ASSUME IInv, UNCHANGED vars
    PROVE  IInv'
<1>1. CtlOK(ctl)' /\ CtlOK(ctl)
  BY SameConf DEF IInv, vars, cvars
<1>2. TypeOK'
  <2>1. ctl' \in Ctl' /\ IsConf(conf)'
    BY <1>1 DEF IInv, CtlOK, TypeOK, IsConf, vars, cvars
  <2> QED
    BY <2>1 DEF IInv, TypeOK, vars, cvars, avars
<1>3. TaskOK' /\ ConfigComplete' /\ LossRetried'
  BY DEF IInv, TaskOK, ConfigComplete, LossRetried, vars, cvars, avars
<1>4. CertsOK' /\ LoginReported'
  BY DEF IInv, CertsOK, LoginReported, tls, vars, cvars, avars
<1> QED
  BY <1>1, <1>2, <1>3, <1>4 DEF IInv

LEMMA NextLemma == IInv /\ [Next]_vars => IInv'
<1> SUFFICES ASSUME IInv, [Next]_vars PROVE IInv'
  OBVIOUS
<1>1. CASE Start \/ StartRefused \/ LaunchFails
  BY <1>1, StartLemma
<1>2. CASE TaskBegins \/ InitLoginFails \/ InitMainControl \/ InitMainControlFails
  BY <1>2, BeginLemma
<1>3. CASE RunControlStep
  BY <1>3, RunControlLemma, CallbackLemma, TimerLemma, EnvironmentLemma
     DEF RunControlStep, Step, RunControl
<1>4. CASE CloseMainControl \/ FinalReport \/ TaskEnds
  BY <1>4, EndLemma
<1>5. CASE StopReads \/ StopWrites
  BY <1>5, StopLemma
<1>6. CASE UNCHANGED vars
  BY <1>6, StutterLemma
<1> QED
  BY <1>1, <1>2, <1>3, <1>4, <1>5, <1>6 DEF Next, Task

\* The invariant holds in every run of the client.
THEOREM Invariance == Spec => []IInv
BY InitLemma, NextLemma, PTL DEF Spec

\* Every variable keeps its type, whatever the sources say: numbers out of
\* range in a refused configuration included.
THEOREM TypeCorrect == Spec => []TypeOK
<1>1. IInv => TypeOK
  BY DEF IInv
<1> QED
  BY <1>1, Invariance, PTL

\* The loop never runs on with a dead control connection and nothing pending
\* that would replace it (handle_connection_failure, check_server_timeout).
THEOREM LossRetriedHolds == Spec => []LossRetried
<1>1. IInv => LossRetried
  BY DEF IInv
<1> QED
  BY <1>1, Invariance, PTL

\* Every connection attempt starts with nothing left of the session before it
\* (clear_main_control on each way to start_base_connect).
THEOREM SessionHolds == Spec => []SessionClean
<1>1. IInv => SessionClean
  BY DEF IInv, CtlOK, SessionClean
<1> QED
  BY <1>1, Invariance, PTL

\* A silent peer is noticed within the timeout and one heartbeat, for every
\* heartbeat that validate_heartbeat_config accepts (check_server_timeout).
THEOREM PongBoundedHolds == Spec => []PongBounded
<1>1. IInv => PongBounded
  <2> SUFFICES ASSUME IInv PROVE PongBounded
    OBVIOUS
  <2>1. CtlOK(ctl) /\ ctl \in Ctl
    BY DEF IInv, CtlOK
  <2>2. CASE ctl.pong_age >= 0
    <3>1. Beats
      <4>1. ctl.bev # "none"
        BY <2>1, <2>2 DEF CtlOK, Cleared
      <4> QED
        BY <4>1, ConnectedLemma
    <3>2. Stepped \in Int
      BY <3>1 DEF Beats, Stepped, PongCap
    <3>3. ctl.pong_age \in Int /\ ctl.ticker \in Int
      BY <2>1, <3>1, <3>2 DEF Ctl, Beats
    <3>4. /\ ctl.ticker >= 0
          /\ \/ ctl.pong_age = Stepped
             \/ ctl.pong_age + ctl.ticker <= HeartbeatTimeout + HeartbeatInterval
      BY <2>1, <2>2 DEF CtlOK
    <3> QED
      BY <3>1, <3>3, <3>4 DEF PongBounded, Beats
  <2>3. CASE ~(ctl.pong_age >= 0)
    <3>1. ctl.pong_age = -1
      BY <2>1, <2>3 DEF Ctl
    <3> QED
      BY <3>1 DEF PongBounded
  <2> QED
    BY <2>2, <2>3
<1> QED
  BY <1>1, Invariance, PTL

\* A task runs with a complete configuration whatever else the application
\* tries to start (xfrpc_start, load_config_file).
THEOREM ConfigCompleteHolds == Spec => []ConfigComplete
<1>1. IInv => ConfigComplete
  BY DEF IInv
<1> QED
  BY <1>1, Invariance, PTL

\* Whoever is logged in has registered every proxy on this session
\* (handle_login_response, start_proxy_services, clear_main_control).
THEOREM ProxiesRegisteredHolds == Spec => []ProxiesRegistered
<1>1. IInv => ProxiesRegistered
  BY DEF IInv, CtlOK, ProxiesRegistered
<1> QED
  BY <1>1, Invariance, PTL

\* A TLS connection uses the certificates of the running configuration
\* (xfrpc_tls_init, xfrpc_tls_cleanup).
THEOREM TlsFreshHolds == Spec => []TlsFresh
<1>1. IInv => TlsFresh
  BY ConnectedLemma DEF IInv, CertsOK, Connects, TlsFresh
<1> QED
  BY <1>1, Invariance, PTL

\* Whoever is logged in was told so, and told nothing since; whoever was told
\* so last is logged in (handle_login_response, clear_main_control, xfrpc_task).
THEOREM LoginReportedHolds == Spec => []LoginReported
<1>1. IInv => LoginReported
  BY DEF IInv
<1> QED
  BY <1>1, Invariance, PTL
=============================================================================
