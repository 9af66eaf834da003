------------------------------ MODULE TcpClient ------------------------------
(***************************************************************************)
(* net/TcpClient.cpp over Connector: connect(), disconnect(), stop() and   *)
(* the destructor, called in the loop thread or in any other, against the  *)
(* connection attempts, the connection they end in and its close.  The     *)
(* TcpConnection is reduced to its state_ and its close callback; module   *)
(* TcpConnection has the rest of it.                                       *)
(***************************************************************************)
EXTENDS Connector

CONSTANTS Users,     \* threads other than the loop's
          MaxCalls   \* bound on the calls made on the client

ASSUME CallsAssumption == MaxCalls \in Nat

VARIABLES retry_, clientConnect,  \* TcpClient::retry_ and connect_
          connection_,   \* the descriptor of TcpClient::connection_
          conn,          \* descriptor -> state_ of its TcpConnection
          closeCallback, \* descriptor -> whose removeConnection it calls
          clientAlive,
          upc,           \* user thread -> steps left of its call
          made,          \* calls made so far
          quiet,         \* history: "asked" when stop() is called with no connect()
                         \* under way, "yes" when the last stopInLoop has run
          risky          \* history: destroyed by another thread, or with a
                         \* connection and a startInLoop outstanding

clientVars == <<retry_, clientConnect, connection_, conn, closeCallback, clientAlive>>
userVars == <<upc, made, quiet, risky>>
vars == <<connectorVars, registered, open, loopVars, calls, queue, ub, clientVars, userVars>>

ConnStates == {"none", "kConnecting", "kConnected", "kDisconnecting", "kDisconnected"}

TypeOK ==
    /\ state_ \in {"kDisconnected", "kConnecting", "kConnected"}
    /\ channel_ \in Fds \cup {None} /\ connection_ \in Fds \cup {None}
    /\ registered \subseteq Fds /\ open \subseteq Fds
    /\ conn \in [Fds -> ConnStates]
    /\ made \in 0..MaxCalls

Init ==
    /\ ConnectorInit
    /\ retry_ \in BOOLEAN /\ clientConnect = TRUE /\ connection_ = None
    /\ conn = [f \in Fds |-> "none"] /\ closeCallback = [f \in Fds |-> "client"]
    /\ clientAlive = TRUE
    /\ upc = [u \in Users |-> <<>>] /\ made = 0 /\ quiet = "no" /\ risky = FALSE

\* The connector lives as long as its client or a functor bound to a shared_ptr.
ConnectorAlive == clientAlive \/ Outstanding("stopInLoop") \/ Outstanding("resetChannel")

Live(f) == conn[f] \in {"kConnecting", "kConnected", "kDisconnecting"}

Running == ub = "none"

-----------------------------------------------------------------------------
(* The loop thread: poll, the callbacks of the active channel, functors.     *)

\* A connecting socket reports an error, writability or both; a connection is
\* reported only when it is to be closed (the rest is TcpConnection's).
Reports(f) == IF conn[f] = "none"
              THEN {<<Call("error", f)>>, <<Call("write", f)>>, <<Call("error", f), Call("write", f)>>}
              ELSE {<<Call("close", f)>>}

\* poll() returns with an active channel (registered never has two of them) or
\* because of a wakeup.
Poll ==
    /\ Running /\ lpc = "poll" /\ calls = <<>>
    /\ \/ \E f \in registered : \E r \in Reports(f) : active' = r
       \/ queue # <<>> /\ active' = <<>>
    /\ lpc' = "events"
    /\ UNCHANGED <<connectorVars, registered, open, calls, batch, queue, ub, clientVars, userVars>>

\* Channel::handleEvent on a connector's channel; a channel that is registered
\* but no longer channel_ is a dead object.
ConnectorEvent ==
    /\ Running /\ lpc = "events" /\ calls = <<>> /\ active # <<>>
    /\ Head(active)[1] \in {"error", "write"}
    /\ LET f == Head(active)[2] IN
       IF f # channel_ \/ ~ConnectorAlive
       THEN ub' = "deadChannel" /\ UNCHANGED <<connectorVars, registered, open, calls, queue>>
       ELSE IF Head(active)[1] = "error" THEN HandleError(f) ELSE HandleWrite(f)
    /\ active' = Tail(active)
    /\ UNCHANGED <<lpc, batch, clientVars, userVars>>

\* TcpConnection::handleClose.
Close(f) ==
    /\ conn' = [conn EXCEPT ![f] = "kDisconnected"]
    /\ registered' = registered \ {f}
    /\ calls' = <<Call("closeCallback", f)>> \o calls

ConnectionEvent ==
    /\ Running /\ lpc = "events" /\ calls = <<>> /\ active # <<>>
    /\ Head(active)[1] = "close"
    /\ IF Live(Head(active)[2]) THEN Close(Head(active)[2])
       ELSE UNCHANGED <<conn, registered, calls>>
    /\ active' = Tail(active)
    /\ UNCHANGED <<connectorVars, open, lpc, batch, queue, ub, retry_, clientConnect, connection_,
                   closeCallback, clientAlive, userVars>>

Swap ==
    /\ Running /\ lpc = "events" /\ calls = <<>> /\ active = <<>>
    /\ lpc' = "functors" /\ batch' = queue /\ queue' = <<>>
    /\ UNCHANGED <<connectorVars, registered, open, active, calls, ub, clientVars, userVars>>

Iterate ==
    /\ Running /\ lpc = "functors" /\ calls = <<>> /\ batch = <<>>
    /\ lpc' = "poll"
    /\ UNCHANGED <<connectorVars, registered, open, active, batch, calls, queue, ub, clientVars, userVars>>

NextFunctor(name) ==
    /\ Running /\ lpc = "functors" /\ calls = <<>> /\ batch # <<>> /\ Head(batch)[1] = name
    /\ batch' = Tail(batch)
    /\ UNCHANGED <<lpc, active, made, upc, risky>>

\* Bound to a raw this; made a call of its own below.
RunStartInLoop ==
    /\ NextFunctor("startInLoop")
    /\ IF ConnectorAlive THEN calls' = <<Call("startInLoop", None)>> /\ UNCHANGED ub
       ELSE ub' = "deadConnector" /\ UNCHANGED calls
    /\ UNCHANGED <<connectorVars, registered, open, queue, clientVars, quiet>>

Pending(step) == \E u \in Users : Call(step, None) \in Range(upc[u])

RunStopInLoop ==
    /\ NextFunctor("stopInLoop")
    /\ StopInLoop
    /\ quiet' = IF quiet = "asked" /\ ~Pending("queueStop") /\ Call("stopInLoop", None) \notin Range(queue \o Tail(batch))
                THEN "yes" ELSE quiet
    /\ UNCHANGED <<calls, clientVars>>

RunResetChannel ==
    /\ NextFunctor("resetChannel")
    /\ ResetChannel
    /\ UNCHANGED <<calls, clientVars, quiet>>

RunSetCloseCallback ==
    /\ NextFunctor("setCloseCallback")
    /\ closeCallback' = [closeCallback EXCEPT ![Head(batch)[2]] = "detail"]
    /\ UNCHANGED <<connectorVars, registered, open, queue, calls, ub, retry_, clientConnect,
                   connection_, conn, clientAlive, quiet>>

\* TcpConnection::shutdownInLoop, bound to a raw this.
RunShutdownInLoop ==
    /\ NextFunctor("shutdownInLoop")
    /\ ub' = IF conn[Head(batch)[2]] = "none" THEN "deadConnection" ELSE ub
    /\ UNCHANGED <<connectorVars, registered, open, queue, calls, clientVars, quiet>>

RunForceCloseInLoop ==
    /\ NextFunctor("forceCloseInLoop")
    /\ IF conn[Head(batch)[2]] \in {"kConnected", "kDisconnecting"} THEN Close(Head(batch)[2])
       ELSE UNCHANGED <<conn, registered, calls>>
    /\ UNCHANGED <<connectorVars, open, queue, ub, retry_, clientConnect, connection_,
                   closeCallback, clientAlive, quiet>>

\* connectDestroyed() and, its functor holding the last reference, ~TcpConnection.
RunConnectDestroyed ==
    /\ NextFunctor("connectDestroyed")
    /\ LET f == Head(batch)[2] IN
       /\ conn' = [conn EXCEPT ![f] = "none"]
       /\ closeCallback' = [closeCallback EXCEPT ![f] = "client"]
       /\ registered' = registered \ {f}
       /\ open' = open \ {f}
    /\ UNCHANGED <<connectorVars, queue, calls, ub, retry_, clientConnect, connection_,
                   clientAlive, quiet>>

-----------------------------------------------------------------------------
(* Calls made by the callbacks above, one step each.                         *)

NextCall(name) ==
    /\ Running /\ calls # <<>> /\ Head(calls)[1] = name
    /\ UNCHANGED <<loopVars, userVars, retry_, clientConnect>>

Return ==
    /\ NextCall("return")
    /\ calls' = Tail(calls)
    /\ UNCHANGED <<connectorVars, registered, open, queue, ub, connection_, conn, closeCallback, clientAlive>>

CallStartInLoop ==
    /\ NextCall("startInLoop")
    /\ StartInLoop
    /\ calls' = Tail(calls)
    /\ UNCHANGED <<queue, connection_, conn, closeCallback, clientAlive>>

\* Connector::restart.
CallRestart ==
    /\ NextCall("restart")
    /\ state_' = "kDisconnected" /\ connect_' = TRUE
    /\ calls' = <<Call("startInLoop", None)>> \o Tail(calls)
    /\ UNCHANGED <<channel_, overlap, registered, open, queue, ub, connection_, conn,
                   closeCallback, clientAlive>>

\* TcpClient::newConnection, bound to a raw this.
CallNewConnection ==
    /\ NextCall("newConnection")
    /\ LET f == Head(calls)[2] IN
       IF ~clientAlive
       THEN ub' = "deadClient" /\ UNCHANGED <<conn, connection_, calls>>
       ELSE /\ conn' = [conn EXCEPT ![f] = "kConnecting"]
            /\ connection_' = f
            /\ calls' = <<Call("connectEstablished", f)>> \o Tail(calls)
            /\ UNCHANGED ub
    /\ UNCHANGED <<connectorVars, registered, open, queue, closeCallback, clientAlive>>

\* TcpConnection::connectEstablished: enableReading may fail.
CallConnectEstablished ==
    /\ NextCall("connectEstablished")
    /\ LET f == Head(calls)[2] IN
       \/ /\ conn' = [conn EXCEPT ![f] = "kConnected"]
          /\ registered' = registered \cup {f}
          /\ calls' = Tail(calls)
       \/ /\ conn' = [conn EXCEPT ![f] = "kDisconnected"]
          /\ calls' = <<Call("closeCallback", f)>> \o Tail(calls)
          /\ UNCHANGED registered
    /\ UNCHANGED <<connectorVars, open, queue, ub, connection_, closeCallback, clientAlive>>

\* TcpClient::removeConnection, or the function of the same name that the
\* destructor puts in its place.
RemoveConnection(f) ==
    LET known == closeCallback[f] = "detail" \/ connection_ = f IN
    IF closeCallback[f] = "client" /\ ~clientAlive
    THEN ub' = "deadClient" /\ UNCHANGED <<connection_, queue, calls>>
    ELSE /\ connection_' = IF closeCallback[f] = "client" /\ known THEN None ELSE connection_
         /\ queue' = IF known THEN Append(queue, Call("connectDestroyed", f)) ELSE queue
         /\ calls' = IF closeCallback[f] = "client" /\ known /\ retry_ /\ clientConnect
                     THEN <<Call("restart", None)>> \o Tail(calls) ELSE Tail(calls)
         /\ UNCHANGED ub

CallCloseCallback ==
    /\ NextCall("closeCallback")
    /\ RemoveConnection(Head(calls)[2])
    /\ UNCHANGED <<connectorVars, registered, open, conn, closeCallback, clientAlive>>
-----------------------------------------------------------------------------
(* The client's users: other threads, a call of which takes several steps,   *)
(* and callbacks and timers in the loop thread itself.                       *)

Ops == {"connect", "disconnect", "stop", "destroy"}

\* Mutant of Steps: stop() leaves TcpClient::connect_ alone.
StopConnectorOnly(op) ==
    CASE op = "connect" -> <<Call("client", TRUE), Call("connector", TRUE), Call("queueStart", None)>>
      [] op = "stop" -> <<Call("connector", FALSE), Call("queueStop", None)>>
      [] op = "disconnect" -> <<Call("client", FALSE), Call("shutdown", None)>>
      [] op = "destroy" -> <<Call("look", None)>>

\* What connect(), stop(), disconnect() and the destructor do, in order.
Steps(op) ==
    CASE op = "connect" -> <<Call("client", TRUE), Call("connector", TRUE), Call("queueStart", None)>>
      [] op = "stop" -> <<Call("client", FALSE), Call("connector", FALSE), Call("queueStop", None)>>
      [] op = "disconnect" -> <<Call("client", FALSE), Call("shutdown", None)>>
      [] op = "destroy" -> <<Call("look", None)>>

\* The object is not destroyed while it is being called, and not called after.
MayCall(op) ==
    /\ Running /\ clientAlive /\ made < MaxCalls
    /\ \A u \in Users : upc[u] # <<>> => /\ op # "destroy"
                                        /\ Last(upc[u])[1] \notin {"look", "dies"}

Quietness(op) == IF op = "connect" THEN "no"
                 ELSE IF op = "stop" /\ quiet = "no" /\ ~Pending("queueStart") THEN "asked"
                 ELSE quiet

Begin(u, op) ==
    /\ MayCall(op) /\ upc[u] = <<>>
    /\ upc' = [upc EXCEPT ![u] = Steps(op)]
    /\ made' = made + 1
    /\ quiet' = Quietness(op)
    /\ UNCHANGED <<connectorVars, registered, open, loopVars, calls, queue, ub, clientVars, risky>>

NextStep(u, name) ==
    /\ Running /\ upc[u] # <<>> /\ Head(upc[u])[1] = name
    /\ UNCHANGED <<state_, channel_, overlap, registered, open, loopVars, calls, ub, retry_,
                   connection_, closeCallback, made, quiet>>

Done(u) == upc' = [upc EXCEPT ![u] = Tail(@)]

SetClient(u) ==
    /\ NextStep(u, "client") /\ Done(u)
    /\ clientConnect' = Head(upc[u])[2]
    /\ UNCHANGED <<connect_, queue, conn, clientAlive, risky>>

SetConnector(u) ==
    /\ NextStep(u, "connector") /\ Done(u)
    /\ connect_' = Head(upc[u])[2]
    /\ UNCHANGED <<queue, clientConnect, conn, clientAlive, risky>>

Queues(u) ==
    /\ \/ NextStep(u, "queueStart") /\ queue' = Append(queue, Call("startInLoop", None))
       \/ NextStep(u, "queueStop") /\ queue' = Append(queue, Call("stopInLoop", None))
    /\ Done(u)
    /\ UNCHANGED <<connect_, clientConnect, conn, clientAlive, risky>>

\* disconnect(), under mutex_: connection_->shutdown() if there is one.
ShutsDown(u) ==
    /\ NextStep(u, "shutdown") /\ Done(u)
    /\ IF connection_ # None /\ conn[connection_] = "kConnected"
       THEN /\ conn' = [conn EXCEPT ![connection_] = "kDisconnecting"]
            /\ queue' = Append(queue, Call("shutdownInLoop", connection_))
       ELSE UNCHANGED <<conn, queue>>
    /\ UNCHANGED <<connect_, clientConnect, clientAlive, risky>>

\* ~TcpClient, under mutex_: unique is whether nobody else holds the connection.
Looks(u) ==
    /\ NextStep(u, "look")
    /\ IF connection_ = None
       THEN upc' = [upc EXCEPT ![u] = <<Call("connector", FALSE), Call("queueStop", None), Call("dies", None)>>]
       ELSE \E unique \in BOOLEAN :
              /\ unique => \A i \in 1..Len(calls) : calls[i][2] # connection_
              /\ upc' = [upc EXCEPT ![u] = <<Call("setCloseCallback", connection_)>>
                            \o (IF unique THEN <<Call("forceClose", connection_)>> ELSE <<>>)
                            \o <<Call("dies", None)>>]
    /\ UNCHANGED <<connect_, queue, clientConnect, conn, clientAlive, risky>>

Replaces(u) ==
    /\ NextStep(u, "setCloseCallback") /\ Done(u)
    /\ queue' = Append(queue, Head(upc[u]))
    /\ UNCHANGED <<connect_, clientConnect, conn, clientAlive, risky>>

ForceClose(f) ==
    IF conn[f] \in {"kConnected", "kDisconnecting"}
    THEN /\ conn' = [conn EXCEPT ![f] = "kDisconnecting"]
         /\ queue' = Append(queue, Call("forceCloseInLoop", f))
    ELSE UNCHANGED <<conn, queue>>

Forces(u) ==
    /\ NextStep(u, "forceClose") /\ Done(u)
    /\ ForceClose(Head(upc[u])[2])
    /\ UNCHANGED <<connect_, clientConnect, clientAlive, risky>>

Dies(u) ==
    /\ NextStep(u, "dies") /\ Done(u)
    /\ clientAlive' = FALSE /\ risky' = TRUE
    /\ UNCHANGED <<connect_, queue, clientConnect, conn>>

\* A callback of another channel, a functor or a timer calls the client: the
\* loop thread is not inside of one of the handlers above.
LoopMayCall(op) == /\ MayCall(op) /\ calls = <<>> /\ active = <<>>
                   /\ made' = made + 1
                   /\ quiet' = Quietness(op)
                   /\ UNCHANGED <<loopVars, state_, channel_, overlap, registered, open, ub,
                                  retry_, connection_, upc>>

LoopConnect ==
    /\ LoopMayCall("connect")
    /\ clientConnect' = TRUE /\ connect_' = TRUE
    /\ calls' = <<Call("startInLoop", None)>>
    /\ UNCHANGED <<queue, conn, closeCallback, clientAlive, risky>>

LoopStop ==
    /\ LoopMayCall("stop")
    /\ clientConnect' = FALSE /\ connect_' = FALSE
    /\ queue' = Append(queue, Call("stopInLoop", None))
    /\ UNCHANGED <<calls, conn, closeCallback, clientAlive, risky>>

LoopDisconnect ==
    /\ LoopMayCall("disconnect")
    /\ clientConnect' = FALSE
    /\ conn' = [f \in Fds |-> IF f = connection_ /\ conn[f] = "kConnected"
                              THEN "kDisconnecting" ELSE conn[f]]
    /\ UNCHANGED <<connect_, queue, calls, closeCallback, clientAlive, risky>>

\* Mutant of LoopDestroy: the close callback of the connection is kept.
DestroyKeepsCallback ==
    /\ LoopMayCall("destroy")
    /\ clientAlive' = FALSE
    /\ IF connection_ = None
       THEN /\ connect_' = FALSE
            /\ queue' = Append(queue, Call("stopInLoop", None))
            /\ UNCHANGED <<conn, closeCallback, risky>>
       ELSE /\ risky' = Outstanding("startInLoop")
            /\ \E unique \in BOOLEAN : IF unique THEN ForceClose(connection_)
                                       ELSE UNCHANGED <<conn, queue>>
            /\ UNCHANGED <<connect_, closeCallback>>
    /\ UNCHANGED <<calls, clientConnect>>

LoopDestroy ==
    /\ LoopMayCall("destroy")
    /\ clientAlive' = FALSE
    /\ IF connection_ = None
       THEN /\ connect_' = FALSE
            /\ queue' = Append(queue, Call("stopInLoop", None))
            /\ UNCHANGED <<conn, closeCallback, risky>>
       ELSE /\ closeCallback' = [closeCallback EXCEPT ![connection_] = "detail"]
            /\ risky' = Outstanding("startInLoop")
            /\ \E unique \in BOOLEAN : IF unique THEN ForceClose(connection_)
                                       ELSE UNCHANGED <<conn, queue>>
            /\ UNCHANGED connect_
    /\ UNCHANGED <<calls, clientConnect>>

-----------------------------------------------------------------------------
LoopStep == \/ Poll \/ ConnectorEvent \/ ConnectionEvent \/ Swap \/ Iterate
            \/ RunStartInLoop \/ RunStopInLoop \/ RunResetChannel \/ RunSetCloseCallback
            \/ RunShutdownInLoop \/ RunForceCloseInLoop \/ RunConnectDestroyed
            \/ Return \/ CallStartInLoop \/ CallRestart \/ CallNewConnection
            \/ CallConnectEstablished \/ CallCloseCallback

UserStep(u) == \/ SetClient(u) \/ SetConnector(u) \/ Queues(u) \/ ShutsDown(u)
               \/ Looks(u) \/ Replaces(u) \/ Forces(u) \/ Dies(u)

Next == \/ LoopStep
        \/ \E u \in Users : UserStep(u) \/ \E op \in Ops : Begin(u, op)
        \/ LoopConnect \/ LoopStop \/ LoopDisconnect \/ LoopDestroy

SafeSpec == Init /\ [][Next]_vars

\* The loop thread keeps running, and the kernel ends every attempt to connect
\* (with success, an error or its own timeout), so poll() returns.
Spec == SafeSpec /\ WF_vars(LoopStep)

-----------------------------------------------------------------------------
\* No null, dead or running object is touched, in whatever order the threads
\* call, except in two situations: a new channel was made while the resetChannel
\* functor of the one before was outstanding (Connector.cpp:158), or the client
\* was destroyed by a thread other than the loop's, or with a connection while a
\* startInLoop bound to a raw pointer was outstanding (TcpClient.cpp:77).
OnlyKnownDangers == ub # "none" => overlap \/ risky

\* Every open descriptor has one owner: the attempt of a connecting connector,
\* or a connection; nothing is leaked by the failure, stop or restart of an
\* attempt, and nothing that is owned is closed.
SocketsOwned ==
    calls = <<>> /\ Running /\ ~overlap =>
      open = {f \in Fds : f = channel_ /\ state_ = "kConnecting"} \cup {f \in Fds : conn[f] # "none"}

\* At most one connection is up, and the client knows it as connection_ until it
\* is closed: no attempt can end in a second one.
SingleConnection ==
    Running /\ clientAlive => \A f \in Fds : Live(f) => connection_ = f

\* Once stopInLoop has run with no connect() under way, nothing connects again
\* before the next connect(): no attempt begins and none ends in a connection,
\* whatever closes meanwhile.
StoppedStaysStopped ==
    [][quiet = "yes" /\ quiet' = "yes" /\ Running' => /\ ~(state_ # "kConnecting" /\ state_' = "kConnecting")
                                      /\ \A f \in Fds : Live(f)' => Live(f)]_vars

\* An attempt never hangs: a connecting connector is eventually connected or
\* disconnected, unless its channel was lost to an earlier reset.
AttemptEnds == state_ = "kConnecting" ~> (state_ # "kConnecting" \/ overlap \/ ub # "none")
==============================================================================
