----------------------------- MODULE MCXfrpcApi -----------------------------
(***************************************************************************)
(* Configurations for model checking XfrpcApi.                             *)
(***************************************************************************)
EXTENDS XfrpcApi

Section0 == [name |-> <<"a">>, enabled |-> TRUE, proxy_type |-> <<"tcp">>,
             given |-> {"local_ip", "local_port"}, start_time |-> <<>>, end_time |-> <<>>]

Source0 == [via |-> "api", readable |-> TRUE, server_addr |-> <<"host">>,
            heartbeat_interval |-> <<>>, heartbeat_timeout |-> <<>>, wire_protocol |-> <<>>,
            tls_enable |-> <<>>, tls_pem |-> FALSE, proxies |-> <<Section0>>]

\* From C structures, without TLS: one proxy given twice.
ApiSource == [Source0 EXCEPT !.proxies = <<Section0, Section0>>]

\* From INI: the same proxy in two sections, and a heartbeat_timeout that is
\* not greater than the interval.
IniSource ==
    [Source0 EXCEPT !.via = "ini", !.heartbeat_interval = <<3>>,
        !.proxies = <<[Section0 EXCEPT !.given = {"local_ip"}],
                      [Section0 EXCEPT !.given = {"local_port"}, !.proxy_type = <<>>]>>]

\* From TOML, with TLS: two proxies, and one that is disabled.
TomlSource ==
    [Source0 EXCEPT !.via = "toml", !.server_addr = <<>>, !.tls_enable = <<TRUE>>,
        !.proxies = <<[Section0 EXCEPT !.name = <<"b">>, !.proxy_type = <<"stcp">>,
                                       !.given = @ \cup {"sk"}, !.start_time = <<8>>],
                      [Section0 EXCEPT !.enabled = FALSE, !.proxy_type = <<>>],
                      Section0>>]

\* Sources that are refused, each for another reason.
BadSources ==
    {[ApiSource EXCEPT !.server_addr = <<"">>],
     [ApiSource EXCEPT !.heartbeat_interval = <<9>>],
     [ApiSource EXCEPT !.proxies = <<Section0, [Section0 EXCEPT !.given = {"local_ip"}]>>],
     [IniSource EXCEPT !.heartbeat_interval = <<0>>],
     [IniSource EXCEPT !.proxies = <<[Section0 EXCEPT !.end_time = <<24>>]>>],
     [IniSource EXCEPT !.proxies = <<[Section0 EXCEPT !.proxy_type = <<>>]>>],
     [IniSource EXCEPT !.wire_protocol = <<"v3">>],
     [TomlSource EXCEPT !.readable = FALSE],
     [TomlSource EXCEPT !.proxies = <<[Section0 EXCEPT !.name = <<>>]>>],
     [TomlSource EXCEPT !.proxies = <<[Section0 EXCEPT !.proxy_type = <<"socks5">>]>>],
     [TomlSource EXCEPT !.proxies = <<[Section0 EXCEPT !.proxy_type = <<"stcp">>,
                                                       !.given = {"sk"}]>>],
     [TomlSource EXCEPT !.proxies = <<[Section0 EXCEPT !.proxy_type = <<"http">>]>>]}

MCSources == {ApiSource, IniSource, TomlSource} \cup BadSources

PlainOnly == {ApiSource}
EqualBeat == {IniSource}
TlsOnly == {TomlSource}
=============================================================================
