--------------------------- MODULE MCLoopClients ----------------------------
(***************************************************************************)
(* Instances of LoopClients: tcp checks around the clock, with and without  *)
(* tcp_mux, and http checks in a window of hours.                           *)
(***************************************************************************)
EXTENDS LoopClients

Conf(mux, http, hours) == [tcp_mux |-> mux, http |-> http, hours |-> hours]

MCConfs == {Conf(mux, FALSE, <<0, 0>>) : mux \in BOOLEAN}
           \cup {Conf(TRUE, TRUE, <<8, 18>>)}
=============================================================================
