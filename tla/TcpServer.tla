------------------------------ MODULE TcpServer ------------------------------
(***************************************************************************)
(* net/TcpServer.cpp: the base loop accepts connections and hands each one *)
(* to the I/O loop, takes closed ones out of its map and has the I/O loop  *)
(* destroy them; stop() takes all of them down and joins the I/O loop.     *)
(* Composed with TcpConnection (one I/O loop, where all the connections    *)
(* live, and the user threads).                                            *)
(***************************************************************************)
EXTENDS TcpConnection

CONSTANTS MaxStops   \* bound on the calls of stop()
ASSUME StopsAssumption == MaxStops \in Nat

VARIABLES started_,
          bpc,       \* the base loop's thread: "loop", "stopping", "joining"
          toStop,    \* the entries of connections_ that stop() has yet to visit
          stops      \* calls of stop() so far

baseVars == <<started_, bpc, toStop, stops>>
vars == <<fd_, channelVars, connVars, loopVars, ioQueue, baseQueue, userVars, serverVars,
          closes, ub, baseVars>>

TypeOK ==
    /\ ConnTypeOK
    /\ started_ \in BOOLEAN
    /\ bpc \in {"loop", "stopping", "joining"}
    /\ toStop \in SUBSET Conns
    /\ stops \in 0..MaxStops

Init ==
    /\ ConnInit
    /\ started_ = TRUE /\ bpc = "loop" /\ toStop = {} /\ stops = 0

\* Mutant of RemoveConnectionInLoop: the connection is destroyed but its map
\* entry kept.
RemoveKeepsEntry ==
    /\ bpc = "loop" /\ baseQueue # <<>>
    /\ baseQueue' = Tail(baseQueue)
    /\ ioQueue' = Append(ioQueue, Bind("connectDestroyed", Head(baseQueue)))
    /\ UNCHANGED <<fd_, channelVars, connVars, loopVars, userVars,
                   loop_, generation, connections_, closes, ub, baseVars>>

\* Mutant of RemoveConnectionInLoop: the map entry goes, connectDestroyed is
\* never asked for.
RemoveWithoutDestroy ==
    /\ bpc = "loop" /\ baseQueue # <<>>
    /\ baseQueue' = Tail(baseQueue)
    /\ connections_' = [connections_ EXCEPT ![Head(baseQueue)] = "absent"]
    /\ UNCHANGED <<fd_, channelVars, connVars, loopVars, ioQueue, userVars,
                   loop_, generation, closes, ub, baseVars>>

\* Mutant of RemoveConnectionInLoop: the pointer is reset, the entry stays.
RemoveLeavesNull ==
    /\ bpc = "loop" /\ baseQueue # <<>>
    /\ baseQueue' = Tail(baseQueue)
    /\ connections_' = [connections_ EXCEPT ![Head(baseQueue)] = "null"]
    /\ ioQueue' = Append(ioQueue, Bind("connectDestroyed", Head(baseQueue)))
    /\ UNCHANGED <<fd_, channelVars, connVars, loopVars, userVars,
                   loop_, generation, closes, ub, baseVars>>

\* Mutant of StopPool: the I/O loop is joined but never told to quit.
JoinWithoutQuit ==
    /\ bpc = "stopping" /\ toStop = {}
    /\ bpc' = "joining"
    /\ UNCHANGED <<fd_, channelVars, connVars, loopVars, ioQueue, baseQueue,
                   userVars, serverVars, closes, ub, started_, toStop, stops>>

\* newConnection, with a descriptor that no living connection owns: the map
\* entry, and connectEstablished queued in the I/O loop that the pool returns,
\* which after stop() is one that no longer exists.
NewConnection(c, f) ==
    /\ bpc = "loop"
    /\ state_[c] = "none"
    /\ \A d \in Conns : fd_[d] = f => ~Alive(d)
    /\ state_' = [state_ EXCEPT ![c] = "kConnecting"]
    /\ fd_' = [fd_ EXCEPT ![c] = f]
    /\ loop_' = [loop_ EXCEPT ![c] = generation]
    /\ connections_' = [connections_ EXCEPT ![c] = "present"]
    /\ IF iopc # "exited"
       THEN ioQueue' = Append(ioQueue, Bind("connectEstablished", c)) /\ UNCHANGED ub
       ELSE ub' = ub \cup {"dead loop"} /\ UNCHANGED ioQueue
    /\ UNCHANGED <<channelVars, outputBuffer_, writeShut, loopVars, baseQueue, userVars,
                   generation, closes, baseVars>>

\* removeConnectionInLoop; the I/O loop of the connection may be gone when
\* stop() ran before it.
RemoveConnectionInLoop ==
    /\ bpc = "loop" /\ baseQueue # <<>>
    /\ baseQueue' = Tail(baseQueue)
    /\ LET c == Head(baseQueue) IN
         IF connections_[c] = "absent"
         THEN UNCHANGED <<connections_, ioQueue, ub>>
         ELSE /\ connections_' = [connections_ EXCEPT ![c] = "absent"]
              /\ IF LoopAlive(c)
                 THEN ioQueue' = Append(ioQueue, Bind("connectDestroyed", c)) /\ UNCHANGED ub
                 ELSE ub' = ub \cup {"dead loop"} /\ UNCHANGED ioQueue
    /\ UNCHANGED <<fd_, channelVars, connVars, loopVars, userVars, loop_, generation,
                   closes, baseVars>>

\* stop(): every entry's pointer is reset, the entry itself stays.
Stop ==
    /\ bpc = "loop" /\ started_ /\ stops < MaxStops
    /\ bpc' = "stopping" /\ stops' = stops + 1
    /\ toStop' = {c \in Conns : connections_[c] # "absent"}
    /\ UNCHANGED <<fd_, channelVars, connVars, loopVars, ioQueue, baseQueue, userVars,
                   serverVars, closes, ub, started_>>

StopConnection(c) ==
    /\ bpc = "stopping" /\ c \in toStop
    /\ toStop' = toStop \ {c}
    /\ IF connections_[c] = "null"
       THEN ub' = ub \cup {"null connection"} /\ UNCHANGED <<connections_, ioQueue>>
       ELSE /\ connections_' = [connections_ EXCEPT ![c] = "null"]
            /\ IF LoopAlive(c)
               THEN ioQueue' = Append(ioQueue, Bind("connectDestroyed", c)) /\ UNCHANGED ub
               ELSE ub' = ub \cup {"dead loop"} /\ UNCHANGED ioQueue
    /\ UNCHANGED <<fd_, channelVars, connVars, loopVars, baseQueue, userVars, loop_,
                   generation, closes, started_, bpc, stops>>

\* eventLoopThreadPool_->stop(): quit, then join.
StopPool ==
    /\ bpc = "stopping" /\ toStop = {}
    /\ bpc' = "joining" /\ ioQuit' = TRUE
    /\ UNCHANGED <<fd_, channelVars, connVars, iopc, current, todo, batch, ioQueue, baseQueue,
                   userVars, serverVars, closes, ub, started_, toStop, stops>>

StopJoined ==
    /\ bpc = "joining" /\ iopc = "exited"
    /\ bpc' = "loop" /\ started_' = FALSE
    /\ UNCHANGED <<fd_, channelVars, connVars, loopVars, ioQueue, baseQueue, userVars,
                   serverVars, closes, ub, toStop, stops>>

\* start() after stop(): a new pool with a new loop.
Start ==
    /\ bpc = "loop" /\ ~started_
    /\ started_' = TRUE
    /\ iopc' = "poll" /\ ioQuit' = FALSE
    /\ generation' = generation + 1
    /\ UNCHANGED <<fd_, channelVars, connVars, current, todo, batch, ioQueue, baseQueue,
                   userVars, loop_, connections_, closes, ub, bpc, toStop, stops>>

BaseNext ==
    \/ \E c \in Conns, f \in Fds : NewConnection(c, f)
    \/ RemoveConnectionInLoop
    \/ Stop \/ StopPool \/ StopJoined \/ Start
    \/ \E c \in Conns : StopConnection(c)

Next ==
    \/ IoNext /\ UNCHANGED baseVars
    \/ UserNext /\ UNCHANGED baseVars
    \/ BaseNext

SafeSpec == Init /\ [][Next]_vars

\* Both loops and the user threads inside a call are scheduled.  Nothing is
\* assumed of peers, of poll results, or of who calls what.
Spec ==
    /\ SafeSpec
    /\ WF_vars((IoSwap \/ IoFunctor \/ IoIterate \/ \E cb \in Callbacks : IoCallback(cb))
                  /\ UNCHANGED baseVars)
    /\ WF_vars(RemoveConnectionInLoop \/ StopPool \/ StopJoined \/ \E c \in Conns : StopConnection(c))
    /\ WF_vars(\E u \in Users : (UserSetState(u) \/ UserQueue(u)) /\ UNCHANGED baseVars)

-----------------------------------------------------------------------------
(* Properties *)

\* Write interest is registered exactly while outputBuffer_ holds bytes, for
\* every connection that is up: with less the bytes would never leave, with
\* more handleWrite would write nothing, get 0 and close the connection.
WriteInterest ==
    \A c \in Conns :
       Alive(c) /\ state_[c] \in {"kConnected", "kDisconnecting"}
          => (("W" \in events_[c]) <=> outputBuffer_[c])

\* channels_ never keeps a channel whose connection has been destroyed: the
\* connection lives until connectDestroyed has removed the channel in the I/O
\* loop, so a descriptor that accept() hands out again is free in channels_.
NoStaleChannel ==
    \A c \in Conns : (state_[c] # "none" /\ ~Alive(c)) => \A f \in Fds : channels_[f] # c

\* stop() may leave such a channel, when it destroys a connection that is
\* kDisconnecting with events registered; but never in a loop that the base
\* loop can still give a new connection to.
StaleOnlyWhileStopping == bpc = "loop" => NoStaleChannel

\* A connection is closed, and its user told so, at most once, although
\* hang-up, error, a failed read, a failed write and forceClose may each ask
\* for it (the comment in TcpConnection::handleClose).
ClosedOnce == \A c \in Conns : closes[c] <= 1

\* Until stop() is called, a send or shutdown bound to a raw this, queued while
\* the connection was still kConnected, runs on a connection that exists:
\* connectDestroyed is always behind it in the queue.  (stop() queues
\* connectDestroyed for connections that are still kConnected.)
RawFunctorsSafe ==
    stops = 0 => \A i \in 1..Len(ioQueue) :
                    ioQueue[i].fn \in Raw /\ ioQueue[i].fresh => Alive(ioQueue[i].c)

\* A closed connection is eventually destroyed and its descriptor released.
ClosedIsDestroyed ==
    \A c \in Conns : (state_[c] = "kDisconnected") ~> ~Alive(c)

\* stop() returns.
StopReturns == (bpc = "stopping") ~> (bpc = "loop")

\* stop() dereferences the pointer of every entry and leaves the entries with
\* null pointers behind: no first stop() meets a null entry, whatever
\* removeConnectionInLoop did before it; only one after another start() may.
NullOnlyAfterRestart == "null connection" \in ub => generation > 0
==============================================================================
