------------------------------- MODULE Config -------------------------------
(***************************************************************************)
(* The configuration (src/config.c) and how the three start calls of       *)
(* port/xfrpc_api.c fill it: from C structures, from INI and from TOML.    *)
(*                                                                         *)
(* A source is what the application hands over.  An option that may be     *)
(* left out is <<>> or <<value>>.  Of a proxy's options only those are     *)
(* kept on which a decision depends; Keys are options that matter only by  *)
(* being there.                                                            *)
(***************************************************************************)
EXTENDS Integers, Sequences

CONSTANTS
    Names,            \* names of proxies
    DefaultInterval,  \* heartbeat_interval unless given, 30 in the code
    DefaultTimeout,   \* heartbeat_timeout unless given, 90
    BuildTls,         \* CONFIG_XFRPC_ENABLE_TLS
    BuildPem          \* certificates are compiled in (CONFIG_XFRPC_TLS_*_PEM)

ASSUME ConfigAssumption ==
    /\ DefaultInterval \in Nat \ {0}
    /\ DefaultTimeout \in Nat /\ DefaultInterval <= DefaultTimeout
    /\ BuildTls \in BOOLEAN /\ BuildPem \in BOOLEAN

Option(S) == {opt \in Seq(S) : Len(opt) <= 1}

Given(opt, old) == IF opt = <<>> THEN old ELSE opt[1]

ValidTypes ==
    {"tcp", "udp", "socks5", "http", "https", "tcpmux", "stcp", "xtcp", "sudp"}

Keys == {"local_ip", "local_port", "remote_port", "custom_domains", "subdomain", "sk"}

Endpoint == {"local_ip", "local_port"}

\* struct proxy_service; the type is "none" until it is set.
Proxy == [proxy_type: ValidTypes \cup {"none"}, given: SUBSET Keys,
          start_time: Int, end_time: Int]

\* What a source says of one proxy.
Section ==
    [name: Option(Names), enabled: BOOLEAN, proxy_type: Option(ValidTypes \cup {"other"}),
     given: SUBSET Keys, start_time: Option(Int), end_time: Option(Int)]

\* readable: the file is there and its syntax is right.
Source ==
    [via: {"api", "ini", "toml"}, readable: BOOLEAN, server_addr: Option({"", "host"}),
     heartbeat_interval: Option(Int), heartbeat_timeout: Option(Int),
     wire_protocol: Option({"v1", "v2", "v3"}), tls_enable: Option(BOOLEAN),
     tls_pem: BOOLEAN, proxies: Seq(Section)]

NoProxies == [n \in {} |-> 0]

\* c_conf and all_ps; "" also stands for a string that is freed.
IsConf(c) ==
    /\ c \in [server_addr: {"", "127.0.0.1", "host"}, heartbeat_interval: Int,
              heartbeat_timeout: Int, wire_protocol: {"", "v1", "v2", "v3"},
              tls_enable: BOOLEAN, all_ps: {c.all_ps}]
    /\ DOMAIN c.all_ps \subseteq Names
    /\ \A n \in DOMAIN c.all_ps : c.all_ps[n] \in Proxy

\* init_common_conf, init_common_config
init_common_config ==
    [server_addr |-> "127.0.0.1", heartbeat_interval |-> DefaultInterval,
     heartbeat_timeout |-> DefaultTimeout, wire_protocol |-> "v1",
     tls_enable |-> BuildTls /\ BuildPem, all_ps |-> NoProxies]

\* free_common_config keeps the numbers.
free_common_config(c) == [c EXCEPT !.server_addr = "", !.wire_protocol = ""]

free_all_proxy_services(c) == [c EXCEPT !.all_ps = NoProxies]

-----------------------------------------------------------------------------
(* Validation *)

validate_heartbeat_config(c) ==
    /\ c.heartbeat_interval > 0
    /\ c.heartbeat_timeout >= c.heartbeat_interval

validate_proxy(p) ==
    /\ p.proxy_type # "none"
    /\ p.proxy_type # "socks5" => Endpoint \subseteq p.given
    /\ p.proxy_type = "socks5" => "remote_port" \in p.given
    /\ p.proxy_type \in {"http", "https", "tcpmux"} =>
         ("custom_domains" \in p.given) # ("subdomain" \in p.given)
    /\ p.proxy_type \in {"stcp", "xtcp", "sudp"} => "sk" \in p.given

\* TLS asked of a build that has none
TlsMissing(c) == c.tls_enable /\ ~BuildTls

\* validate_loaded_config, of src/config.c and then of port/xfrpc_api.c
LoadedValid(c) ==
    /\ c.server_addr # ""
    /\ c.wire_protocol \in {"v1", "v2"}
    /\ validate_heartbeat_config(c)
    /\ \A n \in DOMAIN c.all_ps : validate_proxy(c.all_ps[n])

-----------------------------------------------------------------------------
(* Proxies *)

Last(I) == CHOOSE i \in I : \A j \in I : j <= i

\* The entries among I with the name n, and the names that have any
Named(secs, I, n) == {i \in I : secs[i].name = <<n>>}

NamesIn(secs, I) == {n \in Names : Named(secs, I, n) # {}}

\* config_add_proxy_service: a later entry replaces an earlier one.
ApiProxy(sec) ==
    [proxy_type |-> "tcp", given |-> sec.given \cap (Endpoint \cup {"remote_port"}),
     start_time |-> 0, end_time |-> 0]

ApiSectionOk(sec) == sec.name # <<>> /\ Endpoint \subseteq sec.given

ApiProxies(secs, k) ==
    [n \in NamesIn(secs, 1 .. k) |-> ApiProxy(secs[Last(Named(secs, 1 .. k, n))])]

\* load_toml_proxies and add_or_replace_proxy_service; hours are not looked at.
TomlProxy(sec) ==
    [proxy_type |-> sec.proxy_type[1], given |-> sec.given,
     start_time |-> Given(sec.start_time, 0), end_time |-> Given(sec.end_time, 0)]

TomlSectionOk(sec) ==
    /\ sec.name # <<>>
    /\ sec.enabled => sec.proxy_type # <<>> /\ sec.proxy_type[1] \in ValidTypes

TomlProxies(secs) ==
    LET I == {i \in DOMAIN secs : secs[i].enabled}
    IN  [n \in NamesIn(secs, I) |-> TomlProxy(secs[Last(Named(secs, I, n))])]

\* proxy_service_handler and get_or_create_proxy_service: sections of one name
\* are one proxy, for which the last value of an option counts.
Merged(opts, default) ==
    LET G == {i \in DOMAIN opts : opts[i] # <<>>}
    IN  IF G = {} THEN default ELSE opts[Last(G)][1]

IniProxy(secs, I) ==
    LET socks5 == \E i \in I : secs[i].proxy_type = <<"socks5">>
    IN  [proxy_type |-> Merged([i \in I |-> secs[i].proxy_type], "none"),
         given |-> (UNION {secs[i].given : i \in I})
                    \cup (IF socks5 THEN {"remote_port"} ELSE {}),
         start_time |-> Merged([i \in I |-> secs[i].start_time], 0),
         end_time |-> Merged([i \in I |-> secs[i].end_time], 0)]

Hour(opt) == opt # <<>> => opt[1] \in 0 .. 23

IniSectionOk(sec) ==
    /\ sec.name # <<>>
    /\ sec.proxy_type # <<>> => sec.proxy_type[1] \in ValidTypes
    /\ Hour(sec.start_time) /\ Hour(sec.end_time)

IniProxies(secs) ==
    LET I == DOMAIN secs
    IN  [n \in NamesIn(secs, I) |-> IniProxy(secs, Named(secs, I, n))]

-----------------------------------------------------------------------------
(* Loading.  A result says whether to launch, and what c_conf and all_ps   *)
(* are then.                                                               *)

Result(ok, c) == [ok |-> ok, conf |-> c]

Positive(opt, old) == IF opt # <<>> /\ opt[1] > 0 THEN opt[1] ELSE old

\* xfrpc_start, the common part.  TLS is turned on, never off.
ApiCommon(src) ==
    [init_common_config EXCEPT
        !.server_addr = src.server_addr[1],
        !.heartbeat_interval = Positive(src.heartbeat_interval, @),
        !.heartbeat_timeout = Positive(src.heartbeat_timeout, @),
        !.tls_enable = @ \/ src.tls_enable = <<TRUE>> \/ src.tls_pem]

\* xfrpc_start up to xfrpc_launch.  A proxy that is refused leaves the ones
\* before it behind.
xfrpc_start(src, c) ==
    LET cc == ApiCommon(src)
        bad == {i \in DOMAIN src.proxies : ~ApiSectionOk(src.proxies[i])}
        added(k) == [cc EXCEPT !.all_ps = ApiProxies(src.proxies, k)]
    IN  IF Given(src.server_addr, "") = "" THEN Result(FALSE, c)
        ELSE IF TlsMissing(cc) \/ ~validate_heartbeat_config(cc) THEN Result(FALSE, cc)
        ELSE IF bad # {} THEN Result(FALSE, added((CHOOSE i \in bad : \A j \in bad : i <= j) - 1))
        ELSE Result(TRUE, added(Len(src.proxies)))

\* common_handler, load_toml_common
FileCommon(src) ==
    [init_common_config EXCEPT
        !.server_addr = Given(src.server_addr, @),
        !.heartbeat_interval = Given(src.heartbeat_interval, @),
        !.heartbeat_timeout = Given(src.heartbeat_timeout, @),
        !.wire_protocol = Given(src.wire_protocol, @),
        !.tls_enable = Given(src.tls_enable, @)]

SectionOk(src, sec) == IF src.via = "ini" THEN IniSectionOk(sec) ELSE TomlSectionOk(sec)

Loaded(src) ==
    [FileCommon(src) EXCEPT
        !.all_ps = IF src.via = "ini" THEN IniProxies(src.proxies) ELSE TomlProxies(src.proxies)]

\* load_config_file and load_config_string: a failure frees what was loaded.
load_config(src) ==
    LET parsed == /\ src.readable
                  /\ \A i \in DOMAIN src.proxies : SectionOk(src, src.proxies[i])
    IN  IF parsed /\ LoadedValid(Loaded(src)) THEN Result(TRUE, Loaded(src))
        ELSE Result(FALSE, free_common_config(free_all_proxy_services(FileCommon(src))))

\* xfrpc_start_from_file, xfrpc_start_from_string
start_from(src) ==
    LET r == load_config(src)
    IN  Result(r.ok /\ ~TlsMissing(r.conf), r.conf)

\* The three start calls, from the configuration c to the launch.
Load(src, c) == IF src.via = "api" THEN xfrpc_start(src, c) ELSE start_from(src)

-----------------------------------------------------------------------------
(* What the client relies on while it runs. *)

\* A service to connect to, or a SOCKS5 proxy with its port at frps
Usable(p) ==
    /\ p.proxy_type \in ValidTypes
    /\ IF p.proxy_type = "socks5" THEN "remote_port" \in p.given ELSE Endpoint \subseteq p.given

Complete(c) ==
    /\ c.server_addr # ""
    /\ 0 < c.heartbeat_interval /\ c.heartbeat_interval <= c.heartbeat_timeout
    /\ c.tls_enable => BuildTls
    /\ \A n \in DOMAIN c.all_ps : Usable(c.all_ps[n])

\* Service hours on the clock, as is_service_available expects them
HoursOk(c) ==
    \A n \in DOMAIN c.all_ps :
        c.all_ps[n].start_time \in 0 .. 23 /\ c.all_ps[n].end_time \in 0 .. 23

\* The source asks for TLS.
AsksTls(src) == src.tls_enable = <<TRUE>> \/ (src.via = "api" /\ src.tls_pem)
=============================================================================
