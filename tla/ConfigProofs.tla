---------------------------- MODULE ConfigProofs ----------------------------
(***************************************************************************)
(* What the start calls make of any source, however many proxies it has:   *)
(* a configuration that is launched is complete, has its service hours on  *)
(* the clock unless it comes from TOML, and keeps the TLS it asks for.     *)
(***************************************************************************)
EXTENDS Config, WellFoundedInduction, TLAPS

\* A set of positions that is not empty has a last one.
LEMMA Least ==
    ASSUME NEW T, T \subseteq Nat, T # {}
    PROVE  \E x \in T : \A y \in T : x <= y
<1> DEFINE R == OpToRel(<, Nat)
<1>1. PICK x \in T : \A y \in T : ~(<<y, x>> \in R)
  <2>1. IsWellFoundedOn(R, Nat)
    BY NatLessThanWellFounded
  <2> HIDE DEF R
  <2> QED
    BY <2>1, WFMin
<1>2. \A y \in T : <<y, x>> \in R <=> y < x
  BY DEF OpToRel
<1>3. x \in Nat /\ \A y \in T : y \in Nat
  OBVIOUS
<1>4. \A y \in T : ~(y < x)
  BY <1>1, <1>2
<1>5. \A y \in T : x <= y
  BY <1>3, <1>4
<1> QED
  BY <1>5

LEMMA LastIn ==
    ASSUME NEW n \in Nat, NEW T, T \subseteq 1 .. n, T # {}
    PROVE  Last(T) \in T
<1> DEFINE U == {n - i : i \in T}
<1>1. PICK u \in U : \A v \in U : u <= v
  <2>1. \A i \in T : i \in Nat /\ n - i \in Nat
    OBVIOUS
  <2>2. U \subseteq Nat
    BY <2>1
  <2>3. U # {}
    OBVIOUS
  <2> HIDE DEF U
  <2> QED
    BY <2>2, <2>3, Least
<1>2. PICK x \in T : u = n - x
  OBVIOUS
<1>3. \A y \in T : n - x <= n - y
  BY <1>1, <1>2
<1>4. \A y \in T : y <= x
  BY <1>3
<1> QED
  BY <1>4 DEF Last

\* An option that is given has one value, and that value has its type.
LEMMA OptionValue ==
    ASSUME NEW S, NEW opt \in Option(S), opt # <<>>
    PROVE  opt[1] \in S
BY DEF Option

\* The entry that counts for a name is one of the entries with that name.
LEMMA NamedLast ==
    ASSUME NEW secs \in Seq(Section), NEW I, I \subseteq DOMAIN secs, NEW n \in NamesIn(secs, I)
    PROVE  /\ Last(Named(secs, I, n)) \in I
           /\ secs[Last(Named(secs, I, n))] \in Section
           /\ n \in Names
<1>1. Named(secs, I, n) \subseteq 1 .. Len(secs) /\ Named(secs, I, n) # {}
  BY DEF Named, NamesIn
<1>2. Last(Named(secs, I, n)) \in Named(secs, I, n)
  BY <1>1, LastIn
<1>3. Last(Named(secs, I, n)) \in I
  BY <1>2 DEF Named
<1> QED
  BY <1>3 DEF NamesIn

-----------------------------------------------------------------------------
(* The tables of proxies *)

Table(ps) == DOMAIN ps \subseteq Names /\ \A n \in DOMAIN ps : ps[n] \in Proxy

Hours == 0 .. 23

OnTheClock(ps) == \A n \in DOMAIN ps : ps[n].start_time \in Hours /\ ps[n].end_time \in Hours

LEMMA ApiTable ==
    ASSUME NEW secs \in Seq(Section), NEW k \in 0 .. Len(secs)
    PROVE  /\ Table(ApiProxies(secs, k)) /\ OnTheClock(ApiProxies(secs, k))
           /\ (\A i \in 1 .. k : ApiSectionOk(secs[i])) =>
                \A n \in DOMAIN ApiProxies(secs, k) : Usable(ApiProxies(secs, k)[n])
<1> DEFINE I == 1 .. k
           L(n) == Last(Named(secs, I, n))
<1>1. \A n \in NamesIn(secs, I) : L(n) \in I /\ secs[L(n)] \in Section /\ n \in Names
  <2>1. I \subseteq DOMAIN secs
    OBVIOUS
  <2> HIDE DEF I
  <2> QED
    BY <2>1, NamedLast
<1>2. ApiProxies(secs, k) = [n \in NamesIn(secs, I) |-> ApiProxy(secs[L(n)])]
  BY DEF ApiProxies
<1> HIDE DEF I, L
<1>3. \A sec \in Section :
        /\ ApiProxy(sec) \in Proxy
        /\ ApiProxy(sec).start_time = 0 /\ ApiProxy(sec).end_time = 0
        /\ ApiSectionOk(sec) => Usable(ApiProxy(sec))
  BY DEF ApiProxy, Proxy, Section, ApiSectionOk, Usable, Endpoint, Keys, ValidTypes
<1>4. Table(ApiProxies(secs, k)) /\ OnTheClock(ApiProxies(secs, k))
  <2>1. 0 \in Hours
    BY DEF Hours
  <2> QED
    BY <1>1, <1>2, <1>3, <2>1 DEF Table, OnTheClock
<1>5. ASSUME \A i \in 1 .. k : ApiSectionOk(secs[i])
      PROVE  \A n \in DOMAIN ApiProxies(secs, k) : Usable(ApiProxies(secs, k)[n])
  BY <1>1, <1>2, <1>3, <1>5 DEF I
<1> QED
  BY <1>4, <1>5

LEMMA TomlTable ==
    ASSUME NEW secs \in Seq(Section), \A i \in DOMAIN secs : TomlSectionOk(secs[i])
    PROVE  Table(TomlProxies(secs))
<1> DEFINE I == {i \in DOMAIN secs : secs[i].enabled}
           L(n) == Last(Named(secs, I, n))
<1>1. \A n \in NamesIn(secs, I) : L(n) \in I /\ secs[L(n)] \in Section /\ n \in Names
  <2>1. I \subseteq DOMAIN secs
    OBVIOUS
  <2> HIDE DEF I
  <2> QED
    BY <2>1, NamedLast
<1>2. TomlProxies(secs) = [n \in NamesIn(secs, I) |-> TomlProxy(secs[L(n)])]
  BY DEF TomlProxies
<1>3. \A i \in I : secs[i].enabled /\ TomlSectionOk(secs[i])
  OBVIOUS
<1> HIDE DEF I, L
<1>4. ASSUME NEW sec \in Section, sec.enabled, TomlSectionOk(sec)
      PROVE  TomlProxy(sec) \in Proxy
  <2>1. sec.proxy_type[1] \in ValidTypes /\ sec.given \in SUBSET Keys
    BY <1>4 DEF TomlSectionOk, Section
  <2>2. Given(sec.start_time, 0) \in Int /\ Given(sec.end_time, 0) \in Int
    BY OptionValue DEF Given, Section
  <2> QED
    BY <2>1, <2>2 DEF TomlProxy, Proxy
<1> QED
  BY <1>1, <1>2, <1>3, <1>4 DEF Table

LEMMA MergedValue ==
    ASSUME NEW m \in Nat, NEW I, I \subseteq 1 .. m, NEW S, NEW default,
           NEW opts \in [I -> Option(S)], NEW T, default \in T,
           \A i \in I : opts[i] # <<>> => opts[i][1] \in T
    PROVE  Merged(opts, default) \in T
<1> DEFINE G == {i \in I : opts[i] # <<>>}
<1>1. CASE G = {}
  BY <1>1 DEF Merged
<1>2. CASE G # {}
  <2>1. G \subseteq 1 .. m
    OBVIOUS
  <2>2. Last(G) \in G
    BY <1>2, <2>1, LastIn
  <2> QED
    BY <1>2, <2>2 DEF Merged
<1> QED
  BY <1>1, <1>2

LEMMA IniTable ==
    ASSUME NEW secs \in Seq(Section), \A i \in DOMAIN secs : IniSectionOk(secs[i])
    PROVE  Table(IniProxies(secs)) /\ OnTheClock(IniProxies(secs))
<1> DEFINE N(n) == Named(secs, DOMAIN secs, n)
<1>1. IniProxies(secs) = [n \in NamesIn(secs, DOMAIN secs) |-> IniProxy(secs, N(n))]
  BY DEF IniProxies
<1>2. ASSUME NEW I \in SUBSET DOMAIN secs
      PROVE  /\ IniProxy(secs, I) \in Proxy
             /\ IniProxy(secs, I).start_time \in Hours /\ IniProxy(secs, I).end_time \in Hours
  <2> DEFINE Y == [i \in I |-> secs[i].proxy_type]
             B == [i \in I |-> secs[i].start_time]
             E == [i \in I |-> secs[i].end_time]
  <2>a. 0 \in Hours /\ Hours \subseteq Int
    BY DEF Hours
  <2>0. Len(secs) \in Nat /\ I \subseteq 1 .. Len(secs) /\ \A i \in I : secs[i] \in Section
    OBVIOUS
  <2>1. Merged(Y, "none") \in ValidTypes \cup {"none"}
    <3>1. Y \in [I -> Option(ValidTypes \cup {"other"})]
      BY <2>0 DEF Section
    <3>2. \A i \in I : Y[i] # <<>> => Y[i][1] \in ValidTypes \cup {"none"}
      BY DEF IniSectionOk
    <3> HIDE DEF Y
    <3> QED
      BY <2>0, <2>a, <3>1, <3>2, MergedValue
  <2>2. Merged(B, 0) \in Hours
    <3>1. B \in [I -> Option(Int)]
      BY <2>0 DEF Section
    <3>2. \A i \in I : B[i] # <<>> => B[i][1] \in Hours
      BY DEF IniSectionOk, Hour, Hours
    <3> HIDE DEF B
    <3> QED
      BY <2>0, <2>a, <3>1, <3>2, MergedValue
  <2>3. Merged(E, 0) \in Hours
    <3>1. E \in [I -> Option(Int)]
      BY <2>0 DEF Section
    <3>2. \A i \in I : E[i] # <<>> => E[i][1] \in Hours
      BY DEF IniSectionOk, Hour, Hours
    <3> HIDE DEF E
    <3> QED
      BY <2>0, <2>a, <3>1, <3>2, MergedValue
  <2>4. IniProxy(secs, I).given \in SUBSET Keys
    <3>1. \A i \in I : secs[i].given \subseteq Keys
      BY <2>0 DEF Section
    <3> QED
      BY <3>1 DEF IniProxy, Keys
  <2> QED
    BY <2>a, <2>1, <2>2, <2>3, <2>4 DEF IniProxy, Proxy
<1>3. \A n \in NamesIn(secs, DOMAIN secs) : N(n) \in SUBSET DOMAIN secs /\ n \in Names
  BY DEF NamesIn, Named
<1> HIDE DEF N
<1> QED
  BY <1>1, <1>2, <1>3 DEF Table, OnTheClock

-----------------------------------------------------------------------------
(* Loading *)

\* The common part of a configuration, whatever its proxies are
Common ==
    [server_addr: {"", "127.0.0.1", "host"}, heartbeat_interval: Int, heartbeat_timeout: Int,
     wire_protocol: {"", "v1", "v2", "v3"}, tls_enable: BOOLEAN, all_ps: {NoProxies}]

LEMMA EmptyTable == Table(NoProxies)
BY DEF Table, NoProxies

LEMMA ConfOf ==
    ASSUME NEW c \in Common, NEW ps, Table(ps)
    PROVE  /\ IsConf([c EXCEPT !.all_ps = ps])
           /\ [c EXCEPT !.all_ps = ps].all_ps = ps
           /\ [c EXCEPT !.all_ps = ps].server_addr = c.server_addr
           /\ [c EXCEPT !.all_ps = ps].heartbeat_interval = c.heartbeat_interval
           /\ [c EXCEPT !.all_ps = ps].heartbeat_timeout = c.heartbeat_timeout
           /\ [c EXCEPT !.all_ps = ps].wire_protocol = c.wire_protocol
           /\ [c EXCEPT !.all_ps = ps].tls_enable = c.tls_enable
BY DEF Common, IsConf, Table

LEMMA InitCommon == init_common_config \in Common
BY ConfigAssumption DEF init_common_config, Common

LEMMA ApiCommonType ==
    ASSUME NEW src \in Source, src.server_addr # <<>>
    PROVE  ApiCommon(src) \in Common
<1>1. src.server_addr[1] \in {"", "host"}
  BY OptionValue DEF Source
<1>2. \A old \in Int : /\ Positive(src.heartbeat_interval, old) \in Int
                       /\ Positive(src.heartbeat_timeout, old) \in Int
  BY OptionValue DEF Source, Positive
<1>3. src.tls_pem \in BOOLEAN
  BY DEF Source
<1> QED
  BY <1>1, <1>2, <1>3, InitCommon DEF ApiCommon, Common

LEMMA FileCommonType ==
    ASSUME NEW src \in Source
    PROVE  FileCommon(src) \in Common
<1>1. \A old \in {"127.0.0.1"} : Given(src.server_addr, old) \in {"", "127.0.0.1", "host"}
  BY OptionValue DEF Source, Given
<1>2. \A old \in Int : /\ Given(src.heartbeat_interval, old) \in Int
                       /\ Given(src.heartbeat_timeout, old) \in Int
  BY OptionValue DEF Source, Given
<1>3. \A old \in {"v1"} : Given(src.wire_protocol, old) \in {"", "v1", "v2", "v3"}
  BY OptionValue DEF Source, Given
<1>4. \A old \in BOOLEAN : Given(src.tls_enable, old) \in BOOLEAN
  BY OptionValue DEF Source, Given
<1>5. init_common_config.server_addr = "127.0.0.1" /\ init_common_config.wire_protocol = "v1"
  BY DEF init_common_config
<1> QED
  BY <1>1, <1>2, <1>3, <1>4, <1>5, InitCommon DEF FileCommon, Common

\* xfrpc_start
LEMMA ApiResult ==
    ASSUME NEW src \in Source, NEW c, IsConf(c), src.via = "api"
    PROVE  LET r == xfrpc_start(src, c)
           IN  /\ IsConf(r.conf)
               /\ r.ok => /\ Complete(r.conf) /\ HoursOk(r.conf)
                          /\ AsksTls(src) => r.conf.tls_enable
<1> DEFINE cc == ApiCommon(src)
           secs == src.proxies
           bad == {i \in DOMAIN secs : ~ApiSectionOk(secs[i])}
           first == CHOOSE i \in bad : \A j \in bad : i <= j
           added(k) == [cc EXCEPT !.all_ps = ApiProxies(secs, k)]
<1>1. secs \in Seq(Section) /\ Len(secs) \in Nat
  <2>1. secs \in Seq(Section)
    BY DEF Source
  <2> HIDE DEF secs
  <2> QED
    BY <2>1
<1>2. CASE Given(src.server_addr, "") = ""
  BY <1>2 DEF xfrpc_start, Result
<1>3. ASSUME Given(src.server_addr, "") # ""
      PROVE  /\ cc \in Common /\ cc.server_addr = "host"
             /\ AsksTls(src) => cc.tls_enable
  <2>1. src.server_addr \in Option({"", "host"}) /\ src.server_addr # <<>>
    BY <1>3 DEF Source, Given
  <2>2. src.server_addr[1] = "host"
    BY <1>3, <2>1, OptionValue DEF Given
  <2>3. cc \in Common
    BY <2>1, ApiCommonType
  <2> QED
    BY <2>2, <2>3, InitCommon DEF ApiCommon, Common, AsksTls
<1>4. \A k \in 0 .. Len(secs) : Table(ApiProxies(secs, k)) /\ OnTheClock(ApiProxies(secs, k))
  BY <1>1, ApiTable
<1>5. ASSUME cc \in Common, TlsMissing(cc) \/ ~validate_heartbeat_config(cc)
      PROVE  IsConf(cc)
  <2>1. cc.all_ps = NoProxies
    BY <1>5 DEF Common
  <2> QED
    BY <1>5, <2>1, EmptyTable DEF Common, IsConf, Table
<1>6. ASSUME cc \in Common, NEW k \in 0 .. Len(secs)
      PROVE  /\ IsConf(added(k)) /\ added(k).all_ps = ApiProxies(secs, k)
             /\ added(k).server_addr = cc.server_addr
             /\ added(k).heartbeat_interval = cc.heartbeat_interval
             /\ added(k).heartbeat_timeout = cc.heartbeat_timeout
             /\ added(k).tls_enable = cc.tls_enable
  BY <1>4, <1>6, ConfOf
<1>7. ASSUME bad # {}
      PROVE  first - 1 \in 0 .. Len(secs)
  <2>1. bad \subseteq Nat
    BY <1>1
  <2>2. first \in bad
    BY <1>7, <2>1, Least
  <2> QED
    BY <1>1, <2>2
<1>8. ASSUME bad = {}, cc \in Common, cc.server_addr = "host", ~TlsMissing(cc),
             validate_heartbeat_config(cc)
      PROVE  Complete(added(Len(secs))) /\ HoursOk(added(Len(secs)))
  <2>1. Len(secs) \in 0 .. Len(secs)
    BY <1>1
  <2>2. \A i \in 1 .. Len(secs) : ApiSectionOk(secs[i])
    BY <1>1, <1>8
  <2>3. \A n \in DOMAIN ApiProxies(secs, Len(secs)) : Usable(ApiProxies(secs, Len(secs))[n])
    BY <1>1, <2>1, <2>2, ApiTable
  <2>4. OnTheClock(ApiProxies(secs, Len(secs)))
    BY <1>4, <2>1
  <2>5. cc.tls_enable => BuildTls
    BY <1>8 DEF TlsMissing
  <2>6. 0 < cc.heartbeat_interval /\ cc.heartbeat_interval <= cc.heartbeat_timeout
    BY <1>8 DEF validate_heartbeat_config, Common
  <2> HIDE DEF cc, secs, added
  <2> QED
    BY <1>6, <1>8, <2>1, <2>3, <2>4, <2>5, <2>6 DEF Complete, HoursOk, OnTheClock, Hours
<1>9. CASE Given(src.server_addr, "") # ""
  <2>1. xfrpc_start(src, c) =
          IF TlsMissing(cc) \/ ~validate_heartbeat_config(cc) THEN Result(FALSE, cc)
          ELSE IF bad # {} THEN Result(FALSE, added(first - 1))
          ELSE Result(TRUE, added(Len(secs)))
    BY <1>9 DEF xfrpc_start
  <2>2. Len(secs) \in 0 .. Len(secs)
    BY <1>1
  <2>3. cc \in Common /\ cc.server_addr = "host" /\ (AsksTls(src) => cc.tls_enable)
    BY <1>3, <1>9
  <2> HIDE DEF cc, secs, bad, first, added
  <2>4. CASE TlsMissing(cc) \/ ~validate_heartbeat_config(cc)
    BY <1>5, <2>1, <2>3, <2>4 DEF Result
  <2>5. CASE ~(TlsMissing(cc) \/ ~validate_heartbeat_config(cc)) /\ bad # {}
    BY <1>6, <1>7, <2>1, <2>3, <2>5 DEF Result
  <2>6. CASE ~(TlsMissing(cc) \/ ~validate_heartbeat_config(cc)) /\ bad = {}
    BY <1>6, <1>8, <2>1, <2>2, <2>3, <2>6 DEF Result
  <2> QED
    BY <2>4, <2>5, <2>6
<1> QED
  BY <1>2, <1>9

\* xfrpc_start_from_file, xfrpc_start_from_string
LEMMA FileResult ==
    ASSUME NEW src \in Source, src.via # "api"
    PROVE  LET r == start_from(src)
           IN  /\ IsConf(r.conf)
               /\ r.ok => /\ Complete(r.conf)
                          /\ src.via = "ini" => HoursOk(r.conf)
                          /\ AsksTls(src) => r.conf.tls_enable
<1> DEFINE cc == FileCommon(src)
           ps == IF src.via = "ini" THEN IniProxies(src.proxies) ELSE TomlProxies(src.proxies)
           parsed == /\ src.readable
                     /\ \A i \in DOMAIN src.proxies : SectionOk(src, src.proxies[i])
           good == parsed /\ LoadedValid(Loaded(src))
           freed == free_common_config(free_all_proxy_services(cc))
<1>1. src.proxies \in Seq(Section) /\ src.via \in {"ini", "toml"} /\ src.readable \in BOOLEAN
  BY DEF Source
<1>2. cc \in Common
  BY FileCommonType
<1>3. Loaded(src) = [cc EXCEPT !.all_ps = ps]
  BY DEF Loaded
<1>4. load_config(src) = IF good THEN Result(TRUE, Loaded(src)) ELSE Result(FALSE, freed)
  BY DEF load_config
<1>5. IsConf(freed)
  BY <1>2, EmptyTable DEF Common, IsConf, Table, free_common_config, free_all_proxy_services
<1>6. ASSUME parsed
      PROVE  Table(ps) /\ (src.via = "ini" => OnTheClock(ps))
  <2>1. CASE src.via = "ini"
    BY <1>1, <1>6, <2>1, IniTable DEF SectionOk
  <2>2. CASE src.via = "toml"
    BY <1>1, <1>6, <2>2, TomlTable DEF SectionOk
  <2> QED
    BY <1>1, <2>1, <2>2
<1>7. AsksTls(src) => cc.tls_enable
  <2>1. SUFFICES ASSUME AsksTls(src)
                 PROVE  cc.tls_enable = TRUE
    OBVIOUS
  <2>2. src.tls_enable = <<TRUE>>
    BY <2>1 DEF AsksTls
  <2>3. Given(src.tls_enable, init_common_config.tls_enable) = TRUE
    BY <2>2 DEF Given
  <2> QED
    BY <2>3, InitCommon DEF FileCommon, Common
<1> HIDE DEF cc, ps, parsed, freed
<1>8. ASSUME good
      PROVE  /\ IsConf(Loaded(src))
             /\ ~TlsMissing(Loaded(src)) => Complete(Loaded(src))
             /\ src.via = "ini" => HoursOk(Loaded(src))
             /\ AsksTls(src) => Loaded(src).tls_enable
  <2> DEFINE c == Loaded(src)
  <2>1. Table(ps) /\ parsed
    BY <1>6, <1>8
  <2>2. /\ IsConf(c) /\ c.all_ps = ps
        /\ c.heartbeat_interval = cc.heartbeat_interval
        /\ c.heartbeat_timeout = cc.heartbeat_timeout /\ c.tls_enable = cc.tls_enable
    BY <1>2, <1>3, <2>1, ConfOf
  <2>3. src.via = "ini" => HoursOk(c)
    BY <1>6, <2>1, <2>2 DEF HoursOk, OnTheClock, Hours
  <2>4. LoadedValid(c)
    BY <1>8
  <2>5. \A p \in Proxy : validate_proxy(p) => Usable(p)
    BY DEF Proxy, validate_proxy, Usable
  <2>6. ASSUME ~TlsMissing(c)
        PROVE  Complete(c)
    <3>1. c.heartbeat_interval \in Int /\ c.heartbeat_timeout \in Int
      BY <1>2, <2>2 DEF Common
    <3>2. \A n \in DOMAIN c.all_ps : Usable(c.all_ps[n])
      BY <2>1, <2>2, <2>4, <2>5 DEF Table, LoadedValid
    <3>3. c.tls_enable => BuildTls
      BY <2>6 DEF TlsMissing
    <3> HIDE DEF c
    <3> QED
      BY <2>4, <3>1, <3>2, <3>3 DEF Complete, LoadedValid, validate_heartbeat_config
  <2> QED
    BY <1>7, <2>2, <2>3, <2>6
<1> HIDE DEF good
<1>9. CASE good
  <2>1. load_config(src).ok = TRUE /\ load_config(src).conf = Loaded(src)
    BY <1>4, <1>9 DEF Result
  <2>2. /\ start_from(src).conf = Loaded(src)
        /\ start_from(src).ok => ~TlsMissing(Loaded(src))
    BY <2>1 DEF start_from, Result, TlsMissing
  <2> QED
    BY <1>8, <1>9, <2>2
<1>10. CASE ~good
  <2>1. load_config(src).ok = FALSE /\ load_config(src).conf = freed
    BY <1>4, <1>10 DEF Result
  <2>2. start_from(src).conf = freed /\ ~start_from(src).ok
    BY <2>1 DEF start_from, Result, TlsMissing
  <2> QED
    BY <1>5, <2>2
<1> QED
  BY <1>9, <1>10

\* No start call leaves a configuration of the wrong form.
LEMMA LoadType ==
    ASSUME NEW src \in Source, NEW c, IsConf(c)
    PROVE  IsConf(Load(src, c).conf)
BY ApiResult, FileResult DEF Load

\* A start call launches the task only with a complete configuration: an address,
\* a heartbeat that can be kept, TLS only where it is built in, and for each
\* proxy what the client will use of it; for all sources, of all three kinds.
THEOREM LoadComplete ==
    ASSUME NEW src \in Source, NEW c, IsConf(c), Load(src, c).ok
    PROVE  Complete(Load(src, c).conf)
BY ApiResult, FileResult DEF Load

\* The service hours of a configuration that is launched are hours of the day,
\* unless it comes from TOML, where load_toml_proxies takes any number.
THEOREM LoadHours ==
    ASSUME NEW src \in Source, NEW c, IsConf(c), Load(src, c).ok, src.via # "toml"
    PROVE  HoursOk(Load(src, c).conf)
<1>1. src.via \in {"api", "ini", "toml"}
  BY DEF Source
<1> QED
  BY <1>1, ApiResult, FileResult DEF Load

\* A source that asks for TLS is launched with TLS or not at all.
THEOREM TlsKept ==
    ASSUME NEW src \in Source, NEW c, IsConf(c), Load(src, c).ok, AsksTls(src)
    PROVE  Load(src, c).conf.tls_enable /\ BuildTls
<1>1. Load(src, c).conf.tls_enable
  BY ApiResult, FileResult DEF Load
<1>2. Complete(Load(src, c).conf)
  BY LoadComplete
<1> QED
  BY <1>1, <1>2 DEF Complete
=============================================================================
