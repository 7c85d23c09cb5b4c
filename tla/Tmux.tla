-------------------------------- MODULE Tmux --------------------------------
(***************************************************************************)
(* The per-stream arithmetic of the tcp_mux layer (src/tcpmux.c): the      *)
(* stream state machine, the send window and the receive window.  Pure     *)
(* operators, shared by every module in which a stream lives.              *)
(***************************************************************************)
EXTENDS Integers, Sequences

CONSTANTS
    MaxStreamWindow,    \* MAX_STREAM_WINDOW_SIZE, 8 MB in the code
    MaxYamuxWindow,     \* MAX_YAMUX_WINDOW_SIZE, 6 MB
    InitialSendWindow,  \* initial send_window, 256 KB
    MaxFrame            \* DEFAULT_MAX_FRAME_SIZE, 256 KB

ASSUME WindowAssumption ==
    /\ MaxStreamWindow \in Nat
    /\ MaxYamuxWindow \in Nat
    /\ InitialSendWindow \in Nat \ {0}
    /\ MaxFrame \in Nat \ {0}
    /\ InitialSendWindow <= MaxYamuxWindow
    /\ MaxYamuxWindow <= MaxStreamWindow

\* enum tcp_mux_state
StreamStates == {"INIT", "SYN_SEND", "SYN_RECEIVED", "ESTABLISHED",
                 "LOCAL_CLOSE", "REMOTE_CLOSE", "CLOSED", "RESET"}

\* enum tcp_mux_flag: a frame carries a set of flags
Flags == {"SYN", "ACK", "FIN", "RST"}

Least(a, b) == IF a <= b THEN a ELSE b

-----------------------------------------------------------------------------
(* process_flags: what the flags of a received frame do to a stream.       *)
(* "ok" is the return value, "close" is should_close: the proxy client and *)
(* its stream are deleted.                                                 *)

AfterAck(flags, st) ==
    IF "ACK" \in flags /\ st = "SYN_SEND" THEN "ESTABLISHED" ELSE st

AfterFin(st) ==
    CASE st \in {"SYN_SEND", "SYN_RECEIVED", "ESTABLISHED"} -> "REMOTE_CLOSE"
      [] st = "LOCAL_CLOSE" -> "CLOSED"
      [] st = "INIT" -> "RESET"
      [] OTHER -> st

FinIgnored(st)  == st \in {"CLOSED", "RESET"}    \* return 1, RST not looked at
FinRejected(st) == st = "REMOTE_CLOSE"           \* return 0
FinCloses(st)   == st \in {"LOCAL_CLOSE", "INIT"}

\* Mutation: a reset does not delete the stream.
MutProcessFlags(flags, st) ==
    LET acked == AfterAck(flags, st)
        fin   == "FIN" \in flags
    IN  [ok |-> TRUE, state |-> IF fin THEN AfterFin(acked) ELSE acked,
         close |-> fin /\ FinCloses(acked)]

process_flags(flags, st) ==
    LET acked == AfterAck(flags, st)
        fin   == "FIN" \in flags
        rst   == "RST" \in flags
    IN  IF fin /\ (FinIgnored(acked) \/ FinRejected(acked))
        THEN [ok |-> FinIgnored(acked), state |-> acked, close |-> FALSE]
        ELSE [ok    |-> TRUE,
              state |-> IF rst THEN "RESET"
                        ELSE IF fin THEN AfterFin(acked) ELSE acked,
              close |-> rst \/ (fin /\ FinCloses(acked))]

(* get_send_flags: the flags of the next frame sent, and the state after.  *)
get_send_flags(st) ==
    CASE st = "INIT" -> {"SYN"}
      [] st = "SYN_RECEIVED" -> {"ACK"}
      [] OTHER -> {}

AfterSend(st) ==
    CASE st = "INIT" -> "SYN_SEND"
      [] st = "SYN_RECEIVED" -> "ESTABLISHED"
      [] OTHER -> st

-----------------------------------------------------------------------------
(* incr_send_window: uint32 arithmetic guarded against overflow, capped at *)
(* 8 MB and then at 6 MB.                                                  *)
IncrementValid(inc) == inc <= MaxStreamWindow

\* Mutations: the window is opened fully; the increment replaces the window.
MutIncrSendWindowMax(window, inc) == MaxYamuxWindow

MutIncrSendWindowSet(window, inc) == Least(inc, MaxYamuxWindow)

IncrSendWindow(window, inc) ==
    LET grown == IF window > MaxStreamWindow - inc THEN MaxStreamWindow
                 ELSE window + inc
    IN  IF grown > MaxYamuxWindow THEN MaxYamuxWindow ELSE grown

(* tmux_stream_write refuses to write on a closed stream, and a series of  *)
(* calls on one buffer moves this many bytes before it returns 0.          *)
WriteRefused(st) == st \in {"LOCAL_CLOSE", "CLOSED", "RESET"}

\* Mutation: the write does not look at the window.
MutWritable(st, window, available) ==
    IF WriteRefused(st) THEN 0 ELSE available

Writable(st, window, available) ==
    IF WriteRefused(st) THEN 0 ELSE Least(available, window)

(* tmux_stream_close: the state after, and whether the stream is deleted.  *)
CloseIgnored(st) == st \in {"CLOSED", "RESET", "INIT"}

AfterClose(st) ==
    CASE st \in {"SYN_SEND", "SYN_RECEIVED", "ESTABLISHED"} -> "LOCAL_CLOSE"
      [] st \in {"LOCAL_CLOSE", "REMOTE_CLOSE"} -> "CLOSED"
      [] OTHER -> st

CloseDeletes(st) == st \in {"LOCAL_CLOSE", "REMOTE_CLOSE"}
=============================================================================
