----------------------------- MODULE EventLoop ------------------------------
(***************************************************************************)
(* The lists and sockets of the event loop (port/mini_event.c).  Operators *)
(* on a record y with the fields                                            *)
(*   mem   the memory of the bufferevents: what each block holds            *)
(*   bevs  base->bevs, the list of bufferevents, its head first             *)
(*   sock  the sockets, by descriptor                                       *)
(* The allocator and lwip hand out the lowest block and descriptor that is  *)
(* free, so that both are used again as soon as possible.                   *)
(***************************************************************************)
EXTENDS Integers, Sequences, SequencesExt, FiniteSetsExt

CONSTANTS
    Blocks,   \* blocks of memory for bufferevents, a set of positive numbers
    Fds       \* descriptors lwip can hand out, a set of positive numbers

\* struct bufferevent: whose callbacks it has (kind) and for whom (own).
NoBev == [kind |-> "none", own |-> 0, fd |-> 0, connecting |-> FALSE, enabled |-> FALSE]

Kinds == {"none", "control", "local", "work", "check"}

\* A socket: as connect() left it, as the peer answered, and what it has sent.
SocketStates == {"closed", "pending", "refused", "idle", "data", "eof", "data_eof"}

LowestFree(S) == IF S = {} THEN 0 ELSE Min(S)

FreeFd(y) == LowestFree({f \in Fds : y.sock[f] = "closed"})

FreeBlock(y) == LowestFree({b \in Blocks : y.mem[b].kind = "none"})

Linked(y, b) == \E i \in DOMAIN y.bevs : y.bevs[i] = b

\* bev->next; 0 is the end of the list.
NextBev(y, b) ==
    LET i == CHOOSE i \in DOMAIN y.bevs : y.bevs[i] = b
    IN  IF i = Len(y.bevs) THEN 0 ELSE y.bevs[i + 1]

Head0(y) == IF y.bevs = <<>> THEN 0 ELSE Head(y.bevs)

\* Mutation: new bufferevents go to the end of the list.
MutBevNew(y, kind, own) ==
    LET b == FreeBlock(y)
    IN  [y EXCEPT !.mem[b] = [NoBev EXCEPT !.kind = kind, !.own = own],
                  !.bevs = Append(@, b)]

\* bufferevent_socket_new, bufferevent_setcb; the new one is at the head.
bev_new(y, kind, own) ==
    LET b == FreeBlock(y)
    IN  [y EXCEPT !.mem[b] = [NoBev EXCEPT !.kind = kind, !.own = own],
                  !.bevs = <<b>> \o @]

\* Mutation: the socket stays open.
MutBuffereventFree(y, B) ==
    [y EXCEPT !.mem = [b \in Blocks |-> IF b \in B THEN NoBev ELSE @[b]],
              !.bevs = SelectSeq(@, LAMBDA b : b \notin B)]

\* bufferevent_free, called for each of B: close, unlink, free.
bufferevent_free(y, B) ==
    LET closed == {y.mem[b].fd : b \in B}
    IN  [y EXCEPT !.mem = [b \in Blocks |-> IF b \in B THEN NoBev ELSE @[b]],
                  !.bevs = SelectSeq(@, LAMBDA b : b \notin B),
                  !.sock = [f \in Fds |-> IF f \in closed THEN "closed" ELSE @[f]]]

\* A pointer to a bufferevent is freed unless it is NULL.
Freed(y, b) == bufferevent_free(y, {b} \ {0})

\* bufferevent_socket_connect, which the caller knows to succeed.
bufferevent_socket_connect(y, b) ==
    LET f == FreeFd(y)
    IN  [y EXCEPT !.mem[b].fd = f, !.mem[b].connecting = TRUE, !.mem[b].enabled = TRUE,
                  !.sock[f] = "pending"]

(* connect_server: a bufferevent that is connecting, or none; ok is that    *)
(* connect() does not fail at once.                                         *)
\* Mutation: socket() is not asked whether it failed.
MutCanConnect(y, ok) == ok

CanConnect(y, ok) == ok /\ FreeFd(y) # 0

connect_server(y, kind, own, ok) ==
    LET b == FreeBlock(y)
        z == bev_new(y, kind, own)
    IN  IF CanConnect(y, ok) THEN [y |-> bufferevent_socket_connect(z, b), b |-> b]
        ELSE [y |-> y, b |-> 0]

-----------------------------------------------------------------------------
(* The descriptor sets of event_base_dispatch, as select() returns them.    *)

Readable(y) ==
    {y.mem[b].fd : b \in {b \in Blocks : /\ ~y.mem[b].connecting /\ y.mem[b].enabled
                                         /\ y.mem[b].fd # 0
                                         /\ y.sock[y.mem[b].fd] \in {"data", "eof", "data_eof"}}}

Writable(y) ==
    {y.mem[b].fd : b \in {b \in Blocks : /\ y.mem[b].connecting /\ y.mem[b].fd # 0
                                         /\ y.sock[y.mem[b].fd] # "pending"}}

\* bev_check_connect: SO_ERROR of a socket that is still pending is 0, too.
ConnectError(y, b) == y.sock[y.mem[b].fd] = "refused"

Connected(y, b) == [y EXCEPT !.mem[b].connecting = FALSE]

\* What a pass can get from the socket is taken.
Taken(y, b) ==
    LET f == y.mem[b].fd
    IN  [y EXCEPT !.sock[f] = IF @ = "data" THEN "idle" ELSE @]
=============================================================================
