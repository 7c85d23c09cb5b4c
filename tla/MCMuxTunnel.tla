---------------------------- MODULE MCMuxTunnel -----------------------------
(***************************************************************************)
(* The work connection for TLC, with the properties that sum over the      *)
(* frames in flight and the refinement of BytePipe in each direction.      *)
(***************************************************************************)
EXTENDS MuxTunnel, SequencesExt

\* Bytes of DATA, and credit, on their way in a queue for one stream.
DataInFlight(q, id) ==
    FoldLeft(LAMBDA n, f : IF f.id = id THEN n + Len(f.data) ELSE n, 0, q)

CreditInFlight(q, id) ==
    FoldLeft(LAMBDA n, f : IF f.id = id THEN n + f.inc ELSE n, 0, q)

Accepted(id) == frps[id].state \in {"ESTABLISHED", "REMOTE_CLOSE", "LOCAL_CLOSE"}

\* No credit is lost or made up: what frps is still willing to receive on a
\* stream is what the client may still send, plus the data and the credit on
\* their way.  In particular the cap in incr_send_window never bites.
CreditConserved ==
    \A id \in Ids :
        pc[id].live /\ Accepted(id) =>
            frps[id].recv_window = pc[id].send_window + DataInFlight(to_frps, id)
                                   + CreditInFlight(to_client, id)

\* The other direction: frps never has more data in flight to a live stream
\* than the client's receive window holds (process_data would leave the
\* payload in the control connection and lose the framing), and the client
\* returns exactly the credit of what it takes.
RecvWindowHolds ==
    \A id \in Ids : pc[id].live =>
        /\ DataInFlight(to_client, id) <= pc[id].recv_window
        /\ Accepted(id) => frps[id].send_window + DataInFlight(to_client, id)
                            + CreditInFlight(to_frps, id) = InitialSendWindow

Up == INSTANCE BytePipe WITH
    Conns <- Ids,
    given <- [id \in Ids |-> local[id].wrote],
    delivered <- [id \in Ids |-> frps[id].up]

\* StartWorkConn is the first unit frps sends, and no byte of the user.
Down == INSTANCE BytePipe WITH
    Conns <- Ids,
    given <- [id \in Ids |-> IF frps[id].down = 0 THEN 0 ELSE frps[id].down - 1],
    delivered <- [id \in Ids |-> local[id].rcvd]

\* An unencrypted work connection implements a byte pipe from the local
\* service to frps: what tcp_proxy_c2s_cb and handle_proxy_disconnect send is
\* what the service wrote, cut at most at its end.
UpIsPipe == Up!Spec

\* And one from frps to the local service (process_data, bev_flush_output).
DownIsPipe == Down!Spec
=============================================================================
