------------------------------ MODULE Connector ------------------------------
(***************************************************************************)
(* net/Connector.cpp: one attempt at a time to connect a non-blocking      *)
(* socket, its channel in the poller, the deferred reset of that channel,  *)
(* and the part of the event loop they run in.  The loop thread makes one  *)
(* call of calls per step, so that other threads come in between.          *)
(*                                                                         *)
(* Left out: the delay of retry(), whose runAfter is commented out in the  *)
(* source, so that a failed attempt is simply over.                        *)
(***************************************************************************)
EXTENDS Naturals, Sequences, SequencesExt

CONSTANTS Fds,   \* descriptors; the lowest free one is handed out
          None

ASSUME FdsAssumption == Fds \subseteq Nat /\ None \notin Fds

VARIABLES state_,      \* Connector::state_
          connect_,    \* Connector::connect_
          channel_,    \* the descriptor of the channel object, None if reset
          registered,  \* descriptors whose channels are in the epoll set
          open,        \* descriptors in use
          lpc,         \* the loop thread: "poll", "events", "functors"
          active,      \* callbacks of the active channel still to be made
          calls,       \* calls the current callback or functor still makes
          queue,       \* EventLoop::pendingFunctors_
          batch,       \* functors swapped out by doPendingFunctors
          overlap,     \* history: a channel was made with a reset outstanding
          ub           \* the dead or null object that was used

connectorVars == <<state_, connect_, channel_, overlap>>
loopVars == <<lpc, active, batch>>

Call(name, f) == <<name, f>>

\* A functor that the loop has yet to run.
Outstanding(name) == \E i \in 1..Len(queue \o batch) : (queue \o batch)[i][1] = name

ConnectorInit ==
    /\ state_ = "kDisconnected" /\ connect_ = FALSE /\ channel_ = None
    /\ registered = {} /\ open = {}
    /\ lpc = "poll" /\ active = <<>> /\ calls = <<>> /\ queue = <<>> /\ batch = <<>>
    /\ overlap = FALSE /\ ub = "none"

FreeFd == CHOOSE f \in Fds \ open : \A g \in Fds \ open : f <= g

\* Mutant of Connecting: write interest is not enabled.
ConnectingSilently ==
    /\ Fds \ open # {}
    /\ state_' = "kConnecting" /\ channel_' = FreeFd /\ open' = open \cup {FreeFd}
    /\ overlap' = (overlap \/ Outstanding("resetChannel"))
    /\ UNCHANGED <<connect_, registered, ub>>

\* connecting(): the old channel object dies when channel_ is assigned, also
\* when the loop is inside of its handleEvent.  With no descriptor left
\* createNonblockingOrDie has ended the process.
Connecting ==
    /\ Fds \ open # {}
    /\ state_' = "kConnecting" /\ channel_' = FreeFd /\ open' = open \cup {FreeFd}
    /\ registered' = registered \cup {FreeFd}
    /\ overlap' = (overlap \/ Outstanding("resetChannel"))
    /\ ub' = IF \E i \in 1..Len(calls) : calls[i] = Call("return", channel_)
             THEN "runningChannel" ELSE ub
    /\ UNCHANGED connect_

\* startInLoop() and connect(): an attempt that fails at once closes its socket
\* and leaves kDisconnected, whether through retry() or not.
StartInLoop ==
    IF state_ = "kDisconnected" /\ connect_
    THEN Connecting \/ UNCHANGED <<connectorVars, registered, open, ub>>
    ELSE UNCHANGED <<connectorVars, registered, open, ub>>

\* removeAndResetChannel() followed by retry() or close() of the socket.
DropAttempt(f, state) ==
    /\ state_' = state
    /\ registered' = registered \ {f}
    /\ open' = open \ {f}
    /\ queue' = Append(queue, Call("resetChannel", None))

\* Mutant of StopInLoop: the socket is not closed.
StopLeavesSocket ==
    /\ IF state_ = "kConnecting"
       THEN /\ state_' = "kDisconnected" /\ registered' = registered \ {channel_}
            /\ queue' = Append(queue, Call("resetChannel", None))
            /\ ub' = IF channel_ = None THEN "nullChannel" ELSE ub
       ELSE UNCHANGED <<state_, registered, queue, ub>>
    /\ UNCHANGED <<connect_, channel_, overlap, open>>

\* stopInLoop(): removeAndResetChannel() goes through channel_.
StopInLoop ==
    /\ IF state_ # "kConnecting" THEN UNCHANGED <<state_, registered, open, queue, ub>>
       ELSE IF channel_ = None
       THEN ub' = "nullChannel" /\ UNCHANGED <<state_, registered, open, queue>>
       ELSE DropAttempt(channel_, "kDisconnected") /\ UNCHANGED ub
    /\ UNCHANGED <<connect_, channel_, overlap>>

ResetChannel ==
    /\ channel_' = None
    /\ UNCHANGED <<state_, connect_, overlap, registered, open, queue, ub>>

\* Mutant of HandleWrite: kConnected is not set.
WriteLeavesDisconnected(f) ==
    /\ IF state_ # "kConnecting" THEN UNCHANGED <<state_, registered, open, queue, calls>>
       ELSE /\ state_' = "kDisconnected"
            /\ registered' = registered \ {f}
            /\ queue' = Append(queue, Call("resetChannel", None))
            /\ calls' = <<Call("newConnection", f), Call("return", f)>>
            /\ UNCHANGED open
    /\ UNCHANGED <<connect_, channel_, overlap, ub>>

\* handleWrite(): SO_ERROR or a self connection ends the attempt; otherwise
\* connect_ decides what becomes of the socket.
HandleWrite(f) ==
    /\ IF state_ # "kConnecting" THEN UNCHANGED <<state_, registered, open, queue, calls>>
       ELSE \/ DropAttempt(f, "kDisconnected") /\ UNCHANGED calls
            \/ ~connect_ /\ DropAttempt(f, "kConnected") /\ UNCHANGED calls
            \/ /\ connect_
               /\ state_' = "kConnected"
               /\ registered' = registered \ {f}
               /\ queue' = Append(queue, Call("resetChannel", None))
               /\ calls' = <<Call("newConnection", f), Call("return", f)>>
               /\ UNCHANGED open
    /\ UNCHANGED <<connect_, channel_, overlap, ub>>

HandleError(f) ==
    /\ IF state_ = "kConnecting" THEN DropAttempt(f, "kDisconnected")
       ELSE UNCHANGED <<state_, registered, open, queue>>
    /\ UNCHANGED <<connect_, channel_, overlap, calls, ub>>
==============================================================================
