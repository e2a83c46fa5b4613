----------------------------- MODULE FdPassing -----------------------------
(***************************************************************************)
(* Two user programs that talk over a socket and pass shared memory        *)
(* through it: the system calls of syscall.rs on sockets and shared        *)
(* memory, and the file tables (vfs.rs) whose closing gives ends and       *)
(* references back.                                                        *)
(*                                                                         *)
(* A system call runs with interrupts off and under the big kernel lock,   *)
(* both up to its next wait, so each stretch of it is one step.  Programs  *)
(* are arbitrary and the scheduler may run either whenever it does not     *)
(* wait.  A call that fails and changes nothing is no step.  Borrowing the *)
(* frame allocator always succeeds (AllocatorAvailable in Pipeline).       *)
(***************************************************************************)
EXTENDS Socket, Shm, SequencesExt

CONSTANTS
    Tasks,          \* the tasks that run user programs
    MaxFds,         \* entries of a file table beside the terminal's (MAX_OPEN_FILES - 3)
    MaxBinds,       \* bound: how often the listener slot is taken
    MaxMessages     \* bound: sendmsg calls that pass a descriptor

ASSUME BoundsAssumption == MaxFds \in Nat /\ MaxBinds \in Nat /\ MaxMessages \in Nat
ASSUME TasksAssumption == IsFiniteSet(Tasks) /\ NoShm \notin Shms

VARIABLES
    kernel,         \* LISTENERS, CONNECTIONS, SHMS, the allocator, the tasks' wait sets
    files,          \* per task: its file table
    call,           \* per task: the system call it is inside of, or Idle
    binds,          \* history: how often bind succeeded
    messages,       \* history: how many sendmsg calls passed a descriptor
    passed,         \* history, per connection and side: the last message sent there
    taken,          \* history: the last message whose descriptor recvmsg took there
    shown           \* history: the last message whose first byte recvmsg returned there

history == <<binds, messages, passed, taken, shown>>
vars == <<kernel, files, call, history>>

Fds == 1 .. MaxFds
NoFile == [kind |-> "none"]
Unbound == [kind |-> "unbound"]
Listener == [kind |-> "listener"]
Stream(c, s) == [kind |-> "stream", conn |-> c, side |-> s]
ShmFile(m) == [kind |-> "shm", shm |-> m]

Idle == [op |-> "idle"]
Ready(t) == kernel.waiting[t] = {}
InUser(t) == Ready(t) /\ call[t] = Idle

\* FileTable::insert takes the lowest free number.
HasRoom(t) == \E fd \in Fds : files[t][fd] = NoFile
LowestFd(t) == Min({fd \in Fds : files[t][fd] = NoFile})
Insert(t, file) == files' = [files EXCEPT ![t][LowestFd(t)] = file]

\* set_current_waiting: the call goes on when one of the reasons is signalled.
Wait(t, reasons, pending) ==
    /\ kernel' = [kernel EXCEPT !.waiting[t] = reasons]
    /\ call' = [call EXCEPT ![t] = pending]

Return(t) == call' = [call EXCEPT ![t] = Idle]

\* File::release_end.
release_end(k, file) ==
    CASE file.kind = "stream" -> close_end(k, file.conn, file.side)
      [] file.kind = "listener" -> close_listener(k)
      [] file.kind = "shm" -> detach(k, file.shm)
      [] OTHER -> k

SYS_CLOSE(t, fd) ==
    /\ InUser(t) /\ files[t][fd] # NoFile
    /\ kernel' = release_end(kernel, files[t][fd])
    /\ files' = [files EXCEPT ![t][fd] = NoFile]
    /\ UNCHANGED <<call, history>>

\* The end of a program: FileTable::drop, in the order of the numbers.
Released(k, table) ==
    LET after[fd \in 0 .. MaxFds] == IF fd = 0 THEN k ELSE release_end(after[fd - 1], table[fd])
    IN  after[MaxFds]
DropFileTable(t) ==
    /\ InUser(t) /\ \E fd \in Fds : files[t][fd] # NoFile
    /\ kernel' = Released(kernel, files[t])
    /\ files' = [files EXCEPT ![t] = [fd \in Fds |-> NoFile]]
    /\ UNCHANGED <<call, history>>

----------------------------------------------------------------------------
(* Setting a connection up *)

socket_from_ring3(t) ==
    /\ InUser(t) /\ HasRoom(t)
    /\ Insert(t, Unbound)
    /\ UNCHANGED <<kernel, call, history>>

bind_from_ring3(t, fd) ==
    /\ InUser(t) /\ files[t][fd] = Unbound
    /\ ~kernel.listener.in_use /\ binds < MaxBinds
    /\ kernel' = bind(kernel)
    /\ files' = [files EXCEPT ![t][fd] = Listener]
    /\ binds' = binds + 1
    /\ UNCHANGED <<call, messages, passed, taken, shown>>

listen_from_ring3(t, fd) ==
    /\ InUser(t) /\ files[t][fd] = Listener
    /\ kernel' = listen(kernel)
    /\ UNCHANGED <<files, call, history>>

connect_from_ring3(t, fd) ==
    LET c == ConnectSlot(kernel)
        unsent == [s \in Sides |-> 0]
    IN
    /\ InUser(t) /\ files[t][fd] = Unbound
    /\ CanConnect(kernel)
    /\ kernel' = connect(kernel)
    /\ files' = [files EXCEPT ![t][fd] = Stream(c, "client")]
    /\ passed' = [passed EXCEPT ![c] = unsent]
    /\ taken' = [taken EXCEPT ![c] = unsent]
    /\ shown' = [shown EXCEPT ![c] = unsent]
    /\ UNCHANGED <<call, binds, messages>>

\* One turn of accept's loop: the first connection waiting, or a wait.  A full file
\* table closes the server end again.
Accepting(t) ==
    LET c == Min(Backlog(kernel)) IN
    /\ kernel.listener.in_use /\ kernel.listener.listening
    /\ IF Backlog(kernel) = {}
       THEN Wait(t, {Acceptable}, [op |-> "accept"]) /\ UNCHANGED files
       ELSE /\ Return(t)
            /\ IF HasRoom(t)
               THEN kernel' = accept(kernel, c) /\ Insert(t, Stream(c, "server"))
               ELSE kernel' = close_end(accept(kernel, c), c, "server") /\ UNCHANGED files
    /\ UNCHANGED history

accept_from_ring3(t, fd) == InUser(t) /\ files[t][fd] = Listener /\ Accepting(t)

----------------------------------------------------------------------------
(* Bytes *)

\* One turn of write_to_socket's loop, on the kernel state k that earlier parts of the
\* same call have left.
Writing(t, k, c, s, src) ==
    CASE WriteOutcome(k, c, s) = "Full" ->
            /\ kernel' = [k EXCEPT !.waiting[t] = {Writable(c, s)}]
            /\ call' = [call EXCEPT ![t] = [op |-> "write", conn |-> c, side |-> s, src |-> src]]
      [] WriteOutcome(k, c, s) = "Bytes" -> kernel' = write_from(k, c, s, src) /\ Return(t)
      [] OTHER -> kernel' = k /\ Return(t)

\* A byte that belongs to no descriptor is 0.
write_to_socket(t, fd) ==
    /\ InUser(t) /\ files[t][fd].kind = "stream"
    /\ Writing(t, kernel, files[t][fd].conn, files[t][fd].side, <<0>>)
    /\ UNCHANGED <<files, history>>

\* One turn of read_from_socket's loop.
Reading(t, c, s, n) ==
    /\ IF readable_or_gone(kernel, c, s)
       THEN kernel' = read_into(kernel, c, s, n) /\ Return(t)
       ELSE Wait(t, {Readable(c, s)}, [op |-> "read", conn |-> c, side |-> s, n |-> n])
    /\ UNCHANGED <<files, history>>

read_from_socket(t, fd, n) ==
    /\ InUser(t) /\ files[t][fd].kind = "stream"
    /\ Reading(t, files[t][fd].conn, files[t][fd].side, n)

\* poll with POLLIN and no time limit on some of the task's sockets.
poll_reason_of(file) == IF file.kind = "listener" THEN Acceptable ELSE Readable(file.conn, file.side)
poll_is_ready(on) ==
    IF on = Acceptable THEN acceptable(kernel) ELSE readable(kernel, on[2], on[3])

Polling(t, reasons) ==
    /\ IF \E on \in reasons : poll_is_ready(on)
       THEN Return(t) /\ UNCHANGED kernel
       ELSE Wait(t, reasons, [op |-> "poll", reasons |-> reasons])
    /\ UNCHANGED <<files, history>>

poll_from_ring3(t, fds) ==
    /\ InUser(t) /\ fds # {} /\ \A fd \in fds : files[t][fd].kind \in {"listener", "stream"}
    /\ Polling(t, {poll_reason_of(files[t][fd]) : fd \in fds})

----------------------------------------------------------------------------
(* Shared memory and its passing *)

memfd_create_from_ring3(t) ==
    /\ InUser(t) /\ CanCreate(kernel) /\ HasRoom(t)
    /\ Insert(t, ShmFile(CreateSlot(kernel)))
    /\ kernel' = create(kernel)
    /\ UNCHANGED <<call, history>>

ftruncate_from_ring3(t, fd, got) ==
    /\ InUser(t) /\ files[t][fd].kind = "shm" /\ got # {}
    /\ CanSetSize(kernel, files[t][fd].shm, got)
    /\ kernel' = set_size(kernel, files[t][fd].shm, got)
    /\ UNCHANGED <<files, call, history>>

\* sendmsg with a descriptor: it is queued and counted, then the bytes are written.  The
\* first byte names the message.  Without bytes (none given, or not readable) only the
\* descriptor goes.  The cut of a write at SOCKET_RING bytes is that of the ring's room.
sendmsg_from_ring3(t, fd, shm_fd, with_bytes) ==
    LET c == files[t][fd].conn
        s == files[t][fd].side
        m == files[t][shm_fd].shm
        sent == attach(queue_fd(kernel, c, s, m), m)
        id == messages + 1
    IN
    /\ InUser(t) /\ files[t][fd].kind = "stream" /\ files[t][shm_fd].kind = "shm"
    /\ CanQueueFd(kernel, c, s) /\ id <= MaxMessages
    /\ messages' = id /\ passed' = [passed EXCEPT ![c][peer(s)] = id]
    /\ IF with_bytes THEN Writing(t, sent, c, s, <<id, 0>>)
                     ELSE kernel' = sent /\ Return(t)
    /\ UNCHANGED <<files, binds, taken, shown>>

\* The last part of recvmsg on a readable connection: take the descriptor, install it,
\* read.  A full table drops the descriptor; a control buffer that is too small, or a
\* buffer that is empty or not writable, ends the call with the descriptor installed.
\* Neither reads a byte.
Receiving(t, c, s, n, buffers_ok) ==
    LET m == PendingFd(kernel, c, s)
        k == take_fd(kernel, c, s)
        told == ReadBytes(k, c, s, n)
    IN
    /\ Return(t)
    /\ files' = IF m # NoShm /\ HasRoom(t)
                THEN [files EXCEPT ![t][LowestFd(t)] = ShmFile(m)] ELSE files
    /\ taken' = IF m # NoShm THEN [taken EXCEPT ![c][s] = passed[c][s]] ELSE taken
    /\ IF m # NoShm /\ ~(HasRoom(t) /\ buffers_ok)
       THEN /\ kernel' = IF HasRoom(t) THEN k ELSE detach(k, m)
            /\ UNCHANGED shown
       ELSE /\ kernel' = read_into(k, c, s, n)
            /\ shown' = [shown EXCEPT ![c][s] = Max({@} \union ToSet(told))]
    /\ UNCHANGED <<binds, messages, passed>>

\* Mutant: the descriptor is looked for before the wait, as the code once did: after the
\* wait only the bytes are read.
RecvmsgTakesFdFirst(t, c, s, n, buffers_ok, first) ==
    IF first /\ ~readable_or_gone(kernel, c, s)
    THEN /\ Wait(t, {Readable(c, s)}, [op |-> "recvmsg", conn |-> c, side |-> s, n |-> n])
         /\ UNCHANGED <<files, history>>
    ELSE IF first THEN Receiving(t, c, s, n, buffers_ok)
    ELSE /\ readable_or_gone(kernel, c, s)
         /\ kernel' = read_into(kernel, c, s, n) /\ Return(t)
         /\ shown' = [shown EXCEPT ![c][s] = Max({@} \union ToSet(ReadBytes(kernel, c, s, n)))]
         /\ UNCHANGED <<files, binds, messages, passed, taken>>

\* recvmsg from its entry (first) or after a wait: wait_until_readable, then the rest.
Recvmsg(t, c, s, n, buffers_ok, first) ==
    IF readable_or_gone(kernel, c, s)
    THEN Receiving(t, c, s, n, buffers_ok)
    ELSE /\ Wait(t, {Readable(c, s)}, [op |-> "recvmsg", conn |-> c, side |-> s, n |-> n])
         /\ UNCHANGED <<files, history>>

recvmsg_from_ring3(t, fd, n, buffers_ok) ==
    /\ InUser(t) /\ files[t][fd].kind = "stream"
    /\ Recvmsg(t, files[t][fd].conn, files[t][fd].side, n, buffers_ok, TRUE)

\* A call that was woken takes the next turn of its loop.
Resume(t) ==
    LET p == call[t] IN
    /\ Ready(t)
    /\ \/ p.op = "accept" /\ Accepting(t)
       \/ p.op = "write" /\ Writing(t, kernel, p.conn, p.side, p.src) /\ UNCHANGED <<files, history>>
       \/ p.op = "read" /\ Reading(t, p.conn, p.side, p.n)
       \/ p.op = "poll" /\ Polling(t, p.reasons)
       \/ p.op = "recvmsg" /\ \E buffers_ok \in BOOLEAN :
             Recvmsg(t, p.conn, p.side, p.n, buffers_ok, FALSE)

----------------------------------------------------------------------------
Init ==
    /\ kernel = [listener |-> EmptyListener, conn |-> [c \in Conns |-> EmptyConnection],
                 shm |-> [m \in Shms |-> EmptyShm], free |-> ShmFrames, held |-> 0,
                 waiting |-> [t \in Tasks |-> {}]]
    /\ files = [t \in Tasks |-> [fd \in Fds |-> NoFile]]
    /\ call = [t \in Tasks |-> Idle]
    /\ binds = 0 /\ messages = 0
    /\ passed = [c \in Conns |-> [s \in Sides |-> 0]]
    /\ taken = passed /\ shown = passed

Chunks == 1 .. SocketRing       \* how many bytes one read asks for

Next ==
    \E t \in Tasks :
        \/ socket_from_ring3(t) \/ memfd_create_from_ring3(t) \/ DropFileTable(t) \/ Resume(t)
        \/ \E fds \in SUBSET Fds : poll_from_ring3(t, fds)
        \/ \E fd \in Fds :
              \/ SYS_CLOSE(t, fd) \/ bind_from_ring3(t, fd) \/ listen_from_ring3(t, fd)
              \/ connect_from_ring3(t, fd) \/ accept_from_ring3(t, fd) \/ write_to_socket(t, fd)
              \/ \E n \in Chunks : read_from_socket(t, fd, n)
              \/ \E n \in Chunks, buffers_ok \in BOOLEAN : recvmsg_from_ring3(t, fd, n, buffers_ok)
              \/ \E got \in SUBSET ShmFrames : ftruncate_from_ring3(t, fd, got)
              \/ \E shm_fd \in Fds, with_bytes \in BOOLEAN :
                    sendmsg_from_ring3(t, fd, shm_fd, with_bytes)

Spec == Init /\ [][Next]_vars

----------------------------------------------------------------------------
(* Properties *)

\* The table entries that name a file, and who holds a shared memory object: descriptors,
\* and messages under way.
Holding(file) == {h \in Tasks \X Fds : files[h[1]][h[2]] = file}
UnderWay(m) == {e \in Conns \X Sides : kernel.conn[e[1]].pending_fd[e[2]] = m}
Holders(m) == Cardinality(Holding(ShmFile(m))) + Cardinality(UnderWay(m))

\* A shared memory object lives as long as a descriptor or a message names it: nobody's
\* close returns its frames or gives its slot away too early (attach in sendmsg_from_ring3,
\* detach in close, exit and the failing recvmsg).
ShmOutlivesItsHolders ==
    \A m \in Shms : Holders(m) > 0 => kernel.shm[m].in_use /\ kernel.shm[m].refs >= Holders(m)

\* Every frame is free or belongs to exactly one object, and SHARED_FRAMES_HELD, which the
\* accounting of spawn subtracts, is the number of those that are not free.
FramesAccounted ==
    /\ kernel.held = Cardinality(ShmFrames \ kernel.free)
    /\ \A f \in ShmFrames :
          Cardinality({m \in Shms : f \in kernel.shm[m].frames}) = IF f \in kernel.free THEN 0 ELSE 1

\* Whoever gets the first byte of a message from recvmsg has been offered the descriptor
\* sent with it, even when the receiver waited first or the sender had to (the order
\* queue_fd, write; wait_until_readable, take_fd, read).
FdComesWithItsBytes == \A c \in Conns, s \in Sides : shown[c][s] <= taken[c][s]

\* An end is open exactly while one descriptor holds it, or while it waits to be accepted
\* by a listener that is still there; a slot is in use exactly while an end is open.
EndsAreHeld ==
    \A c \in Conns :
        LET conn == kernel.conn[c]
            queued == conn.in_use /\ ~conn.accepted /\ kernel.listener.in_use /\ conn.open["server"]
            held(s) == Cardinality(Holding(Stream(c, s)))
        IN
        /\ held("client") = IF conn.open["client"] THEN 1 ELSE 0
        /\ held("server") = IF conn.open["server"] /\ ~queued THEN 1 ELSE 0
        /\ conn.in_use <=> \E s \in Sides : conn.open[s]

\* Who sleeps has something to sleep for: a reader an empty ring and a living peer, a
\* writer a full one, accept an empty backlog; poll only what is not ready.
NoLostWakeUp ==
    \A t \in Tasks : \A on \in kernel.waiting[t] :
        CASE on = Acceptable -> ~acceptable(kernel)
          [] on[1] = "readable" -> ~readable_or_gone(kernel, on[2], on[3])
          [] on[1] = "writable" -> WriteOutcome(kernel, on[2], on[3]) = "Full"

\* What shm.rs says of refs, "the number of fds that name this object; at 0 the frames are
\* returned": an object nobody names any more is gone.
UnnamedShmIsReturned == \A m \in Shms : kernel.shm[m].in_use => Holders(m) > 0

\* What the comments on accepted and close_listener say: before accept the listener has
\* the server end, and closing the listener closes it.  So a stream descriptor is an open
\* end of its connection.
DescriptorIsOpenEnd ==
    \A t \in Tasks, fd \in Fds :
        LET file == files[t][fd] IN
        file.kind = "stream" => kernel.conn[file.conn].open[file.side]

\* What is said of the two closes: the last close of a connection leaves no object that
\* nobody names, or the close of a listener leaves no end to be accepted.  At least one of
\* the two is true: a behaviour that breaks this breaks both.
ClosesAreClean == UnnamedShmIsReturned \/ DescriptorIsOpenEnd
============================================================================
