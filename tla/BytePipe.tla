------------------------------ MODULE BytePipe ------------------------------
(***************************************************************************)
(* What a tunnel promises in one direction: the bytes handed to each       *)
(* connection come out at its other end in order, without gaps or          *)
(* repetitions; it may stop delivering at any point (a connection may be   *)
(* cut).                                                                   *)
(***************************************************************************)
EXTENDS Integers, Sequences

CONSTANT Conns  \* the connections

VARIABLES
    given,     \* for each connection, its source has written 1 .. given
    delivered  \* the bytes that came out

Init ==
    /\ given = [c \in Conns |-> 0]
    /\ delivered = [c \in Conns |-> <<>>]

Give(c) ==
    /\ given'[c] > given[c]
    /\ given' = [given EXCEPT ![c] = given'[c]]
    /\ UNCHANGED delivered

Deliver(c) ==
    /\ UNCHANGED given
    /\ \E n \in 1 .. given[c] - Len(delivered[c]) :
         delivered' = [delivered EXCEPT ![c] = @ \o [i \in 1 .. n |-> Len(@) + i]]

Next == \E c \in Conns : Give(c) \/ Deliver(c)

Spec == Init /\ [][Next]_<<given, delivered>>
=============================================================================
