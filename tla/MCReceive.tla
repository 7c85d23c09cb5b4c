----------------------------- MODULE MCReceive ------------------------------
(* The configurations under which Receive is checked. *)
EXTENDS Receive

Conf(mux, v2, tls, kind, hours) ==
    [tcp_mux |-> mux, v2 |-> v2, tls |-> tls, kind |-> kind, hours |-> hours, magic |-> FALSE]

AllDay == <<0, 0>>

\* Windows that begin or end at the hour of the model, two across midnight.
Windows == {<<12, 13>>, <<9, 12>>, <<22, 12>>, <<13, 12>>}

MCConfs ==
    {Conf(TRUE, v2, FALSE, kind, AllDay) :
        v2 \in BOOLEAN, kind \in {"tcp", "enc", "socks5", "xdpi"}}
    \cup {Conf(FALSE, v2, FALSE, kind, AllDay) :
             v2 \in BOOLEAN, kind \in {"tcp", "enc", "socks5"}}
    \cup {Conf(FALSE, FALSE, TRUE, "tcp", AllDay)}
    \cup {Conf(TRUE, FALSE, FALSE, "tcp", hours) : hours \in Windows}
    \cup {[Conf(mux, TRUE, FALSE, "tcp", AllDay) EXCEPT !.magic = TRUE] : mux \in BOOLEAN}

NoMuxTls == {Conf(FALSE, FALSE, TRUE, "tcp", AllDay)}
=============================================================================
