------------------------------- MODULE Socket -------------------------------
(***************************************************************************)
(* Unix domain stream sockets (socket.rs): one named listener, a few       *)
(* connections with an end and a byte ring for each side, and the one      *)
(* descriptor that may be under way to each side (SCM_RIGHTS).             *)
(*                                                                         *)
(* Each operation is a function of the kernel record k it changes, of      *)
(* which it uses the fields listener, conn and waiting.  A byte ring is    *)
(* the sequence of its bytes; the ring itself is modelled in Ring.         *)
(***************************************************************************)
EXTENDS Integers, Sequences, FiniteSetsExt

CONSTANTS
    Conns,          \* connection slots, 0 .. MAX_CONNECTIONS - 1
    SocketRing,     \* SOCKET_RING, the bytes one direction holds
    NoShm           \* None, in pending_fd

ASSUME SocketAssumption ==
    SocketRing \in Nat \ {0} /\ Conns \subseteq Nat /\ IsFiniteSet(Conns)

Sides == {"client", "server"}
peer(s) == IF s = "client" THEN "server" ELSE "client"

EmptyListener == [in_use |-> FALSE, listening |-> FALSE]
EmptyConnection ==
    [in_use |-> FALSE, accepted |-> FALSE, open |-> [s \in Sides |-> FALSE],
     ring |-> [s \in Sides |-> <<>>], pending_fd |-> [s \in Sides |-> NoShm]]

\* Wait: what a task can sleep on.
Acceptable == <<"acceptable">>
Readable(c, s) == <<"readable", c, s>>
Writable(c, s) == <<"writable", c, s>>

\* Mutant: nobody is woken.
wake_nobody(k, on) == k

\* wake_tasks_waiting_on: a task that waits for on, perhaps among others, is runnable again;
\* and so for each of several signals.
WakeAll(k, signals) ==
    [k EXCEPT !.waiting = [t \in DOMAIN @ |-> IF @[t] \cap signals # {} THEN {} ELSE @[t]]]
wake_tasks_waiting_on(k, on) == WakeAll(k, {on})

----------------------------------------------------------------------------
(* The listener *)

bind(k) == [k EXCEPT !.listener = [in_use |-> TRUE, listening |-> FALSE]]

listen(k) == [k EXCEPT !.listener.listening = TRUE]

CanConnect(k) ==
    k.listener.in_use /\ k.listener.listening /\ \E c \in Conns : ~k.conn[c].in_use

\* The slot connect takes: the first free one.
ConnectSlot(k) == Min({c \in Conns : ~k.conn[c].in_use})

connect(k) ==
    wake_tasks_waiting_on(
        [k EXCEPT !.conn[ConnectSlot(k)] =
            [EmptyConnection EXCEPT !.in_use = TRUE, !.open = [s \in Sides |-> TRUE]]],
        Acceptable)

\* The connections accept looks for, found by listener and accepted alone.
Backlog(k) == {c \in Conns : k.conn[c].in_use /\ ~k.conn[c].accepted}

acceptable(k) == k.listener.in_use /\ k.listener.listening /\ Backlog(k) # {}

accept(k, c) == [k EXCEPT !.conn[c].accepted = TRUE]

----------------------------------------------------------------------------
(* A connection *)

\* readable_or_gone, and readable, which says no when the connection is gone.
readable_or_gone(k, c, s) ==
    ~k.conn[c].in_use \/ k.conn[c].ring[s] # <<>> \/ ~k.conn[c].open[peer(s)]
readable(k, c, s) == k.conn[c].in_use /\ readable_or_gone(k, c, s)

\* read_into: at most n bytes, and the peer's writer is woken when there were any.
ReadBytes(k, c, s, n) == SubSeq(k.conn[c].ring[s], 1, Min({n, Len(k.conn[c].ring[s])}))
read_into(k, c, s, n) ==
    IF ReadBytes(k, c, s, n) = <<>> THEN k
    ELSE wake_tasks_waiting_on(
            [k EXCEPT !.conn[c].ring[s] = SubSeq(@, Len(ReadBytes(k, c, s, n)) + 1, Len(@))],
            Writable(c, peer(s)))

\* write_from: what write_from answers, and what it does when it takes bytes.
WriteOutcome(k, c, s) ==
    IF ~k.conn[c].in_use THEN "NoConnection"
    ELSE IF ~k.conn[c].open[peer(s)] THEN "PeerClosed"
    ELSE IF Len(k.conn[c].ring[peer(s)]) = SocketRing THEN "Full" ELSE "Bytes"
write_from(k, c, s, src) ==
    LET room == SocketRing - Len(k.conn[c].ring[peer(s)]) IN
    wake_tasks_waiting_on(
        [k EXCEPT !.conn[c].ring[peer(s)] = @ \o SubSeq(src, 1, Min({Len(src), room}))],
        Readable(c, peer(s)))

\* Mutant: the slot is not given back when both ends are closed.
SlotKept(conn) == conn

\* A connection both of whose ends are closed is emptied.
ReleaseSlot(conn) == IF \A s \in Sides : ~conn.open[s] THEN EmptyConnection ELSE conn

\* close_end, for some connections one after the other: none has to do with another's.
\* The peer's reader and writer are woken.
Closing(k, cs, s) == {c \in cs : k.conn[c].in_use /\ k.conn[c].open[s]}
close_ends(k, cs, s) ==
    WakeAll([k EXCEPT !.conn = [c \in Conns |-> IF c \in Closing(k, cs, s)
                                                THEN ReleaseSlot([@[c] EXCEPT !.open[s] = FALSE])
                                                ELSE @[c]]],
            UNION {{Readable(c, peer(s)), Writable(c, peer(s))} : c \in Closing(k, cs, s)})
close_end(k, c, s) == close_ends(k, {c}, s)

\* close_listener: the name is free, and the server ends not yet accepted are closed.
close_listener(k) ==
    IF ~k.listener.in_use THEN k
    ELSE close_ends([k EXCEPT !.listener = EmptyListener], Backlog(k), "server")

\* queue_fd succeeds when nothing is under way; whether the peer is still there is not asked.
CanQueueFd(k, c, s) == k.conn[c].in_use /\ k.conn[c].pending_fd[peer(s)] = NoShm
queue_fd(k, c, s, shm) ==
    wake_tasks_waiting_on([k EXCEPT !.conn[c].pending_fd[peer(s)] = shm], Readable(c, peer(s)))

\* take_fd: the descriptor under way to side s, NoShm when there is none.
PendingFd(k, c, s) == IF k.conn[c].in_use THEN k.conn[c].pending_fd[s] ELSE NoShm
take_fd(k, c, s) ==
    IF k.conn[c].in_use THEN [k EXCEPT !.conn[c].pending_fd[s] = NoShm] ELSE k
=============================================================================
