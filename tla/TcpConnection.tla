---------------------------- MODULE TcpConnection ----------------------------
(***************************************************************************)
(* net/TcpConnection.cpp on one I/O loop: poll, the callbacks of the       *)
(* channel poll reported, then the functors that were pending; and user    *)
(* threads calling send, shutdown and forceClose.  state_ is a plain       *)
(* member: a user thread reads it, and writes it later.                    *)
(*                                                                         *)
(* The output buffer is abstracted to "not empty".  The functor queues are *)
(* FIFO queues, which module EventLoop justifies.  A TcpConnection exists  *)
(* as long as a shared_ptr to it does; functors bound to a raw this are    *)
(* marked and do not count.                                                *)
(***************************************************************************)
EXTENDS Channel

CONSTANTS Users,      \* threads other than the I/O loop and the base loop
          UserOps,    \* what those threads call
          MaxCalls    \* bound on the calls made by all of them

ASSUME UserAssumption == /\ UserOps \subseteq {"send", "shutdown", "forceClose"}
                         /\ MaxCalls \in Nat

VARIABLES
    state_,         \* connection -> StateE, or "none" before it is created
    outputBuffer_,  \* connection -> outputBuffer_ holds bytes
    writeShut,      \* connection -> socket_->shutdownWrite() was called
    loop_,          \* connection -> generation of the I/O loop it was given to
    generation,     \* generation of the present I/O loop; stop() and start() replace it
    connections_,   \* the server's map: "absent", "present", or "null" pointer
    iopc,           \* the I/O loop: "poll", "callbacks", "functors", "exited"
    current,        \* the connection whose channel is being handled, or None
    todo,           \* callbacks of its revents still to be made
    ioQueue,        \* pendingFunctors_ of the I/O loop
    batch,          \* how many of them belong to the batch being run
    ioQuit,         \* quit_ of the I/O loop
    baseQueue,      \* pendingFunctors_ of the base loop: removeConnectionInLoop
    upc,            \* user thread -> the call it is in and where
    calls,          \* calls begun by user threads
    closes,         \* history: connection -> closeCallback_ invocations
    ub              \* history: undefined behaviour met, by kind

connVars == <<state_, outputBuffer_, writeShut>>
loopVars == <<iopc, current, todo, batch, ioQuit>>
userVars == <<upc, calls>>
serverVars == <<loop_, generation, connections_>>

States == {"none", "kConnecting", "kConnected", "kDisconnecting", "kDisconnected"}
Callbacks == {"close", "error", "read", "write"}
Functions == {"connectEstablished", "connectDestroyed", "forceCloseInLoop",
              "sendInLoop", "shutdownInLoop"}
\* Functors bound to this rather than to shared_from_this().
Raw == {"sendInLoop", "shutdownInLoop"}

\* A pending functor; fresh: a raw one queued while the state was kConnected.
Functor == [fn : Functions, c : Conns, fresh : BOOLEAN]
Bind(fn, c) == [fn |-> fn, c |-> c, fresh |-> fn \in Raw /\ state_[c] = "kConnected"]
Idle == [op |-> "none", c |-> None, at |-> "idle"]

InUse(queue, c) == \E i \in 1..Len(queue) : queue[i].c = c /\ queue[i].fn \notin Raw

\* Some shared_ptr to the connection exists.
Alive(c) == /\ state_[c] # "none"
            /\ \/ connections_[c] = "present"
               \/ current = c
               \/ InUse(ioQueue, c)
               \/ \E i \in 1..Len(baseQueue) : baseQueue[i] = c
               \/ \E u \in Users : upc[u].c = c

\* The EventLoop that getLoop() points to still exists.
LoopAlive(c) == loop_[c] = generation /\ iopc # "exited"

ConnTypeOK ==
    /\ ChannelTypeOK
    /\ state_ \in [Conns -> States]
    /\ outputBuffer_ \in [Conns -> BOOLEAN]
    /\ writeShut \in [Conns -> BOOLEAN]
    /\ loop_ \in [Conns -> Nat] /\ generation \in Nat
    /\ connections_ \in [Conns -> {"absent", "present", "null"}]
    /\ iopc \in {"poll", "callbacks", "functors", "exited"}
    /\ current \in Conns \cup {None}
    /\ todo \in SUBSET Callbacks
    /\ ioQueue \in Seq(Functor)
    /\ batch \in Nat
    /\ ioQuit \in BOOLEAN
    /\ baseQueue \in Seq(Conns)
    /\ calls \in 0..MaxCalls
    /\ closes \in [Conns -> Nat]
    /\ ub \in SUBSET {"dead connection", "dead loop", "null connection"}

ConnInit ==
    /\ ChannelInit
    /\ state_ = [c \in Conns |-> "none"]
    /\ outputBuffer_ = [c \in Conns |-> FALSE]
    /\ writeShut = [c \in Conns |-> FALSE]
    /\ loop_ = [c \in Conns |-> 0] /\ generation = 0
    /\ connections_ = [c \in Conns |-> "absent"]
    /\ iopc = "poll" /\ current = None /\ todo = {} /\ batch = 0 /\ ioQuit = FALSE
    /\ ioQueue = <<>> /\ baseQueue = <<>>
    /\ upc = [u \in Users |-> Idle] /\ calls = 0
    /\ closes = [c \in Conns |-> 0]
    /\ ub = {}

-----------------------------------------------------------------------------
(* Handlers, all in the I/O loop thread *)

\* Mutant of handleClose: no test of the state.
CloseAgain(c) ==
    /\ state_' = [state_ EXCEPT ![c] = "kDisconnected"]
    /\ DisableAll(c)
    /\ baseQueue' = Append(baseQueue, c)
    /\ closes' = [closes EXCEPT ![c] = @ + 1]
    /\ UNCHANGED <<outputBuffer_, writeShut>>

\* Once only: kDisconnected, disableAll, connectionCallback_ (down), and
\* closeCallback_, which is TcpServer::removeConnection.
HandleClose(c) ==
    IF state_[c] = "kDisconnected"
    THEN UNCHANGED <<channelVars, connVars, baseQueue, closes>>
    ELSE /\ state_' = [state_ EXCEPT ![c] = "kDisconnected"]
         /\ DisableAll(c)
         /\ baseQueue' = Append(baseQueue, c)
         /\ closes' = [closes EXCEPT ![c] = @ + 1]
         /\ UNCHANGED <<outputBuffer_, writeShut>>

\* Mutant of SendInLoop: bytes are buffered but writing is not enabled.
BufferSilently(c) ==
    /\ \E left \in BOOLEAN :
          outputBuffer_' = [outputBuffer_ EXCEPT ![c] = @ \/ (left /\ state_[c] # "kDisconnected")]
    /\ UNCHANGED <<channelVars, state_, writeShut>>

\* sendInLoop.  With nothing queued the bytes are written directly: all of
\* them, some of them, or none (EWOULDBLOCK, or EPIPE/ECONNRESET, which drops
\* them); what is left is queued and writing enabled.
SendInLoop(c) ==
    /\ UNCHANGED <<state_, writeShut>>
    /\ IF state_[c] = "kDisconnected" THEN UNCHANGED <<channelVars, outputBuffer_>>
       ELSE \/ /\ "W" \notin events_[c] /\ ~outputBuffer_[c]   \* all written, or dropped
               /\ UNCHANGED <<channelVars, outputBuffer_>>
            \/ /\ "W" \notin events_[c] /\ ~outputBuffer_[c] => ~writeShut[c]
               /\ outputBuffer_' = [outputBuffer_ EXCEPT ![c] = TRUE]
               /\ IF "W" \in events_[c] THEN UNCHANGED channelVars
                  ELSE EnableWriting(c)

ShutdownInLoop(c) ==
    /\ writeShut' = [writeShut EXCEPT ![c] = @ \/ "W" \notin events_[c]]
    /\ UNCHANGED <<channelVars, state_, outputBuffer_>>

\* What messageCallback_ may do with the connection, in the loop thread.
Message(c) ==
    \/ UNCHANGED <<channelVars, connVars, ioQueue>>
    \/ state_[c] = "kConnected" /\ SendInLoop(c) /\ UNCHANGED ioQueue
    \/ /\ state_[c] = "kConnected"                                   \* shutdown()
       /\ state_' = [state_ EXCEPT ![c] = "kDisconnecting"]
       /\ writeShut' = [writeShut EXCEPT ![c] = @ \/ "W" \notin events_[c]]
       /\ UNCHANGED <<channelVars, outputBuffer_, ioQueue>>
    \/ /\ state_[c] \in {"kConnected", "kDisconnecting"}             \* forceClose()
       /\ state_' = [state_ EXCEPT ![c] = "kDisconnecting"]
       /\ ioQueue' = Append(ioQueue, Bind("forceCloseInLoop", c))
       /\ UNCHANGED <<channelVars, outputBuffer_, writeShut>>

\* n > 0: messageCallback_; n = 0: handleClose; n < 0: handleError, the same.
HandleRead(c) ==
    \/ Message(c) /\ UNCHANGED <<baseQueue, closes>>
    \/ HandleClose(c) /\ UNCHANGED ioQueue

\* Mutant of HandleWrite: a drained connection keeps its write interest.
WriteStaysEnabled(c) ==
    /\ "W" \in events_[c]
    /\ \E left \in BOOLEAN : outputBuffer_' = [outputBuffer_ EXCEPT ![c] = left]
    /\ UNCHANGED <<channelVars, state_, writeShut, baseQueue, closes, ioQueue>>

HandleWrite(c) ==
    /\ UNCHANGED ioQueue
    /\ \/ /\ "W" \notin events_[c]
          /\ UNCHANGED <<channelVars, connVars, baseQueue, closes>>
       \/ /\ "W" \in events_[c]                       \* something is left
          /\ UNCHANGED <<channelVars, connVars, baseQueue, closes>>
       \/ /\ "W" \in events_[c]                       \* all written
          /\ outputBuffer_' = [outputBuffer_ EXCEPT ![c] = FALSE]
          /\ DisableWriting(c)
          /\ writeShut' = [writeShut EXCEPT ![c] = @ \/ state_[c] = "kDisconnecting"]
          /\ UNCHANGED <<state_, baseQueue, closes>>
       \/ "W" \in events_[c] /\ HandleClose(c)        \* write failed

\* connectEstablished; enableReading fails when the descriptor is still in
\* channels_ or epoll_ctl refuses it, and then the connection is closed.
ConnectEstablished(c) ==
    /\ UNCHANGED <<outputBuffer_, writeShut>>
    /\ IF state_[c] # "kConnecting"
       THEN UNCHANGED <<channelVars, state_, baseQueue, closes>>
       ELSE \E ctlAdd \in BOOLEAN :
              LET failed == ~ctlAdd \/ ~UpdateAllowed(c)
              IN  IF failed
                  THEN /\ state_' = [state_ EXCEPT ![c] = "kDisconnected"]
                       /\ channels_' = IF UpdateAllowed(c)
                                       THEN [channels_ EXCEPT ![fd_[c]] = c] ELSE channels_
                       /\ index_' = IF UpdateAllowed(c)
                                    THEN [index_ EXCEPT ![c] = "kAdded"] ELSE index_
                       /\ UNCHANGED <<events_, epoll_>>      \* enabled, then disableAll
                       /\ baseQueue' = Append(baseQueue, c)
                       /\ closes' = [closes EXCEPT ![c] = @ + 1]
                  ELSE /\ state_' = [state_ EXCEPT ![c] = "kConnected"]
                       /\ EnableReading(c)
                       /\ UNCHANGED <<baseQueue, closes>>

\* connectDestroyed: a connection that is still up is taken down first.  The
\* disableAll and the remove that follows it leave no registration behind.
ConnectDestroyed(c) ==
    /\ IF state_[c] = "kConnected"
       THEN /\ state_' = [state_ EXCEPT ![c] = "kDisconnected"]
            /\ events_' = [events_ EXCEPT ![c] = {}]
            /\ IF Mapped(c)
               THEN /\ channels_' = [channels_ EXCEPT ![fd_[c]] = None]
                    /\ epoll_' = epoll_ \ {c}
                    /\ index_' = [index_ EXCEPT ![c] = "kNew"]
               ELSE UNCHANGED <<channels_, epoll_, index_>>
       ELSE Remove(c) /\ UNCHANGED state_
    /\ UNCHANGED <<outputBuffer_, writeShut, baseQueue, closes>>

ForceCloseInLoop(c) ==
    IF state_[c] \in {"kConnected", "kDisconnecting"} THEN HandleClose(c)
    ELSE UNCHANGED <<channelVars, connVars, baseQueue, closes>>

-----------------------------------------------------------------------------
(* The I/O loop *)

\* poll() reports a channel that channels_ confirms (fillActiveChannels), with
\* some revents; nothing it did not ask for but errors and hang-ups.
IoPoll(c) ==
    /\ iopc = "poll"
    /\ c \in epoll_ /\ Alive(c) /\ Mapped(c)
    /\ \E cbs \in SUBSET Callbacks \ {{}} :
          /\ "read" \in cbs => "R" \in events_[c]
          /\ "write" \in cbs => "W" \in events_[c]
          /\ todo' = cbs
    /\ current' = c
    /\ iopc' = "callbacks"
    /\ UNCHANGED <<fd_, channelVars, connVars, batch, ioQuit, ioQueue, baseQueue,
                   userVars, serverVars, closes, ub>>

\* Channel::handleEventWithGuard: close, error, read, write, in this order and
\* each one if its event was reported, whatever an earlier one has done.
IoCallback(cb) ==
    /\ iopc = "callbacks" /\ cb \in todo
    /\ CASE cb = "close" -> TRUE
         [] cb = "error" -> "close" \notin todo
         [] cb = "read"  -> todo \cap {"close", "error"} = {}
         [] cb = "write" -> todo = {"write"}
    /\ CASE cb \in {"close", "error"} -> HandleClose(current) /\ UNCHANGED ioQueue
         [] cb = "read"  -> HandleRead(current)
         [] cb = "write" -> HandleWrite(current)
    /\ todo' = todo \ {cb}
    /\ UNCHANGED <<fd_, iopc, current, batch, ioQuit, userVars, serverVars, ub>>

\* The callbacks are done, or poll() timed out or was woken: the pending
\* functors are swapped into a batch.
IoSwap ==
    /\ iopc = "poll" \/ (iopc = "callbacks" /\ todo = {})
    /\ iopc' = "functors" /\ current' = None
    /\ batch' = Len(ioQueue)
    /\ UNCHANGED <<fd_, channelVars, connVars, todo, ioQuit, ioQueue, baseQueue,
                   userVars, serverVars, closes, ub>>

\* One functor of the batch.  A raw functor whose connection is gone runs on
\* freed memory; that is recorded, and nothing is said of what it does.
IoFunctor ==
    /\ iopc = "functors" /\ batch > 0
    /\ LET f == Head(ioQueue) IN
         IF f.fn \in Raw /\ ~Alive(f.c)
         THEN /\ ub' = ub \cup {"dead connection"}
              /\ UNCHANGED <<channelVars, connVars, baseQueue, closes>>
         ELSE /\ UNCHANGED ub
              /\ CASE f.fn = "connectEstablished" -> ConnectEstablished(f.c)
                   [] f.fn = "connectDestroyed"   -> ConnectDestroyed(f.c)
                   [] f.fn = "forceCloseInLoop"   -> ForceCloseInLoop(f.c)
                   [] f.fn = "sendInLoop"  -> SendInLoop(f.c) /\ UNCHANGED <<baseQueue, closes>>
                   [] f.fn = "shutdownInLoop" ->
                        ShutdownInLoop(f.c) /\ UNCHANGED <<baseQueue, closes>>
    /\ ioQueue' = Tail(ioQueue)
    /\ batch' = batch - 1
    /\ UNCHANGED <<fd_, iopc, current, todo, ioQuit, userVars, serverVars>>

\* End of an iteration; a loop that was told to quit ends, and its pending
\* functors and its poller are destroyed with it.
IoIterate ==
    /\ iopc = "functors" /\ batch = 0
    /\ IF ioQuit
       THEN /\ iopc' = "exited" /\ ioQueue' = <<>>
            /\ channels_' = [f \in Fds |-> None] /\ epoll_' = {}
       ELSE iopc' = "poll" /\ UNCHANGED <<ioQueue, channels_, epoll_>>
    /\ UNCHANGED <<fd_, events_, index_, connVars, current, todo, batch, ioQuit, baseQueue,
                   userVars, serverVars, closes, ub>>

-----------------------------------------------------------------------------
(* User threads, holding a shared_ptr for the time of the call *)

\* The test of state_ that every call begins with.
UserTest(u, op, c) ==
    /\ upc[u] = Idle /\ calls < MaxCalls
    /\ Alive(c)
    /\ state_[c] = "kConnected" \/ (op = "forceClose" /\ state_[c] = "kDisconnecting")
    /\ upc' = [upc EXCEPT ![u] = [op |-> op, c |-> c, at |-> "tested"]]
    /\ calls' = calls + 1
    /\ UNCHANGED <<fd_, channelVars, connVars, loopVars, ioQueue, baseQueue, serverVars,
                   closes, ub>>

\* setState(kDisconnecting) in shutdown and forceClose.
UserSetState(u) ==
    /\ upc[u].at = "tested" /\ upc[u].op # "send"
    /\ state_' = [state_ EXCEPT ![upc[u].c] = "kDisconnecting"]
    /\ upc' = [upc EXCEPT ![u].at = "set"]
    /\ UNCHANGED <<fd_, channelVars, outputBuffer_, writeShut, loopVars, ioQueue, baseQueue,
                   calls, serverVars, closes, ub>>

InLoopName == [send |-> "sendInLoop", shutdown |-> "shutdownInLoop",
               forceClose |-> "forceCloseInLoop"]

\* runInLoop or queueInLoop, and the return from the call.
UserQueue(u) ==
    /\ \/ upc[u].at = "tested" /\ upc[u].op = "send"
       \/ upc[u].at = "set"
    /\ IF LoopAlive(upc[u].c)
       THEN ioQueue' = Append(ioQueue, Bind(InLoopName[upc[u].op], upc[u].c)) /\ UNCHANGED ub
       ELSE ub' = ub \cup {"dead loop"} /\ UNCHANGED ioQueue
    /\ upc' = [upc EXCEPT ![u] = Idle]
    /\ UNCHANGED <<fd_, channelVars, connVars, loopVars, baseQueue, calls, serverVars, closes>>

IoNext ==
    \/ \E c \in Conns : IoPoll(c)
    \/ \E cb \in Callbacks : IoCallback(cb)
    \/ IoSwap \/ IoFunctor \/ IoIterate

UserNext ==
    \E u \in Users :
       \/ \E op \in UserOps, c \in Conns : UserTest(u, op, c)
       \/ UserSetState(u)
       \/ UserQueue(u)
==============================================================================
