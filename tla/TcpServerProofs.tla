---------------------------- MODULE TcpServerProofs ----------------------------
(***************************************************************************)
(* Proofs about TcpServer composed with TcpConnection and Channel, for     *)
(* every number of connections, descriptors and user threads and every     *)
(* number of stops and restarts.                                           *)
(*                                                                         *)
(* RawFunctorsSafe and NullOnlyAfterRestart hold whatever user threads     *)
(* call.  The others need that state_ has one writer, the I/O loop: user   *)
(* threads only send (SendOnly).  The run tcpserver_force_close shows what *)
(* happens otherwise.                                                      *)
(***************************************************************************)
EXTENDS TcpServer, SequenceTheorems, TLAPS

-----------------------------------------------------------------------------
(* The inductive invariant, whatever user threads call *)

UserCall == [op : UserOps, c : Conns, at : {"tested", "set"}]
UserType == upc \in [Users -> UserCall \cup {Idle}]

\* The I/O loop has a current connection exactly while it makes callbacks, and
\* its batch is part of the queue.
LoopInv ==
    /\ current # None <=> iopc = "callbacks"
    /\ batch <= Len(ioQueue)

\* Whatever refers to a connection refers to one that was created.
CreatedInv ==
    /\ current # None => state_[current] # "none"
    /\ \A i \in 1..Len(ioQueue) : state_[ioQueue[i].c] # "none"
    /\ \A u \in Users : upc[u] # Idle => state_[upc[u].c] # "none"
    /\ \A i \in 1..Len(baseQueue) : state_[baseQueue[i]] \in {"kDisconnected", "kDisconnecting"}

\* Before the first stop() there is one I/O loop, it runs, and every
\* connection was given to it.
FirstInv ==
    stops = 0 =>
       /\ bpc = "loop" /\ started_ /\ ~ioQuit /\ iopc # "exited"
       /\ generation = 0 /\ \A c \in Conns : loop_[c] = 0

\* Before the first stop() a connection that is not closed is in the map.
PresentInv ==
    stops = 0 => \A c \in Conns : state_[c] \in {"kConnecting", "kConnected"} => connections_[c] = "present"

\* Before the first stop(), the connection of a raw functor is in the map or
\* its connectDestroyed is behind the functor in the queue.
RawInv ==
    stops = 0 => \A i \in 1..Len(ioQueue) : ioQueue[i].fn \in Raw /\ ioQueue[i].fresh =>
       \/ connections_[ioQueue[i].c] = "present"
       \/ \E j \in 1..Len(ioQueue) : i < j /\ ioQueue[j].c = ioQueue[i].c /\ ioQueue[j].fn = "connectDestroyed"

\* The first stop() finds no null pointer and meets every entry once.
NullInv ==
    generation = 0 =>
       /\ bpc = "loop" /\ started_ => \A c \in Conns : connections_[c] # "null"
       /\ bpc = "stopping" => \A c \in toStop : connections_[c] # "null"
       /\ bpc # "loop" => started_

\* The entries of the map, and those that stop() is to visit, were created.
MappedInv ==
    /\ \A c \in Conns : connections_[c] # "absent" => state_[c] # "none"
    /\ \A c \in toStop : state_[c] # "none"

\* The phases of stop() and start(), and the loop they leave.
PhaseInv ==
    /\ bpc = "loop" => (started_ <=> iopc # "exited")
    /\ bpc # "joining" /\ iopc # "exited" => ~ioQuit
    /\ bpc = "stopping" => iopc # "exited"
    /\ iopc = "exited" => ioQueue = <<>>

GInv == /\ TypeOK /\ UserType /\ LoopInv /\ CreatedInv /\ FirstInv /\ PresentInv /\ RawInv /\ NullInv
        /\ MappedInv /\ PhaseInv
        /\ NullOnlyAfterRestart

-----------------------------------------------------------------------------
(* The inductive invariant when user threads only send *)

SendOnly == UserOps \subseteq {"send"}

Up == {"kConnected", "kDisconnecting"}
Begun(c) == state_[c] \in Up \cup {"kDisconnected"}

\* Nothing is done to a connection before connectEstablished has run.
BegunInv ==
    /\ current # None => Begun(current)
    /\ \A i \in 1..Len(ioQueue) : ioQueue[i].fn \in Raw \cup {"forceCloseInLoop"} => Begun(ioQueue[i].c)
    /\ \A u \in Users : upc[u] # Idle => Begun(upc[u].c)
    /\ \A i \in 1..Len(baseQueue) : state_[baseQueue[i]] = "kDisconnected"

\* Interest, buffer and closes as functions of the state.
StateInv ==
    \A c \in Conns :
       /\ ~Begun(c) => events_[c] = {} /\ ~outputBuffer_[c]
       /\ state_[c] \in Up => (("W" \in events_[c]) <=> outputBuffer_[c])
       /\ state_[c] = "kDisconnected" => events_[c] = {}
       /\ state_[c] # "kDisconnected" => closes[c] = 0
       /\ closes[c] <= 1
       /\ state_[c] # "none" => fd_[c] \in Fds

\* What the present I/O loop works on was given to it.
OwnInv ==
    /\ \A c \in Conns : loop_[c] <= generation
    /\ current # None => loop_[current] = generation
    /\ \A i \in 1..Len(ioQueue) : loop_[ioQueue[i].c] = generation

\* A channel in channels_ is under its own descriptor and registered.
ChannelInv ==
    \A f \in Fds : channels_[f] # None =>
       /\ fd_[channels_[f]] = f /\ index_[channels_[f]] # "kNew" /\ Begun(channels_[f])
       /\ loop_[channels_[f]] = generation /\ iopc # "exited"

\* While the base loop can accept, a connection that is up is in the map, and
\* only closed connections are to be destroyed.
MapInv ==
    bpc = "loop" /\ iopc # "exited" =>
       /\ \A c \in Conns : loop_[c] = generation /\ state_[c] \in Up \cup {"kConnecting"} => connections_[c] = "present"
       /\ \A i \in 1..Len(ioQueue) : ioQueue[i].fn = "connectDestroyed" => state_[ioQueue[i].c] = "kDisconnected"

\* ... and a channel in channels_ belongs to a connection that is in the map
\* or is about to be destroyed.
StaleInv ==
    bpc = "loop" => \A f \in Fds : channels_[f] # None =>
       \/ connections_[channels_[f]] = "present"
       \/ \E i \in 1..Len(ioQueue) : ioQueue[i].c = channels_[f] /\ ioQueue[i].fn = "connectDestroyed"

SInv == BegunInv /\ StateInv /\ OwnInv /\ ChannelInv /\ MapInv /\ StaleInv

-----------------------------------------------------------------------------
(* What one handler does to its connection c *)

\* The types of what handlers write.
HandledType ==
    /\ events_ \in [Conns -> SUBSET {"R", "W"}]
    /\ index_ \in [Conns -> {"kNew", "kAdded", "kDeleted"}]
    /\ channels_ \in [Fds -> Conns \cup {None}]
    /\ epoll_ \in SUBSET Conns
    /\ state_ \in [Conns -> States]
    /\ outputBuffer_ \in [Conns -> BOOLEAN]
    /\ writeShut \in [Conns -> BOOLEAN]
    /\ baseQueue \in Seq(Conns)
    /\ closes \in [Conns -> Nat]

\* Channel::update: at most c is mapped, under its own descriptor, and no
\* channel becomes new.
Registers(c) ==
    /\ \A f \in Fds : \/ channels_'[f] = channels_[f]
                      \/ f = fd_[c] /\ channels_'[f] = c /\ index_'[c] # "kNew"
    /\ \A d \in Conns : index_[d] # "kNew" => index_'[d] # "kNew"

\* Channel::remove: at most c is unmapped, and it is if it has no interest.
Unregisters(c) ==
    /\ \A f \in Fds : \/ channels_'[f] = channels_[f]
                      \/ f = fd_[c] /\ channels_[f] = c /\ channels_'[f] = None
    /\ \A d \in Conns \ {c} : index_'[d] = index_[d]
    /\ index_'[c] = index_[c] \/ channels_'[fd_[c]] = None
    /\ events_'[c] = {} /\ index_[c] # "kNew" => channels_'[fd_[c]] # c

Stays == UNCHANGED <<events_, index_, channels_, state_, outputBuffer_, baseQueue, closes>>

Closes(c) ==
    /\ state_[c] # "kDisconnected"
    /\ state_' = [state_ EXCEPT ![c] = "kDisconnected"]
    /\ \/ events_' = [events_ EXCEPT ![c] = {}]
       \/ state_[c] = "kConnecting" /\ events_' = events_
    /\ Registers(c)
    /\ baseQueue' = Append(baseQueue, c)
    /\ closes' = [closes EXCEPT ![c] = closes[c] + 1]
    /\ UNCHANGED outputBuffer_

Buffers(c) ==
    /\ state_[c] # "kDisconnected"
    /\ outputBuffer_' = [outputBuffer_ EXCEPT ![c] = TRUE]
    /\ events_' = [events_ EXCEPT ![c] = events_[c] \cup {"W"}]
    /\ Registers(c)
    /\ UNCHANGED <<state_, baseQueue, closes>>

Drains(c) ==
    /\ "W" \in events_[c]
    /\ outputBuffer_' = [outputBuffer_ EXCEPT ![c] = FALSE]
    /\ events_' = [events_ EXCEPT ![c] = events_[c] \ {"W"}]
    /\ Registers(c)
    /\ UNCHANGED <<state_, baseQueue, closes>>

GoesDown(c) ==
    /\ state_[c] \in Up
    /\ state_' = [state_ EXCEPT ![c] = "kDisconnecting"]
    /\ UNCHANGED <<events_, index_, channels_, outputBuffer_, baseQueue, closes>>

Establishes(c) ==
    /\ state_[c] = "kConnecting"
    /\ state_' = [state_ EXCEPT ![c] = "kConnected"]
    /\ events_' = [events_ EXCEPT ![c] = events_[c] \cup {"R"}]
    /\ Registers(c)
    /\ UNCHANGED <<outputBuffer_, baseQueue, closes>>

Destroys(c) ==
    /\ \/ /\ state_[c] = "kConnected"
          /\ state_' = [state_ EXCEPT ![c] = "kDisconnected"]
          /\ events_' = [events_ EXCEPT ![c] = {}]
       \/ state_[c] # "kConnected" /\ state_' = state_ /\ events_' = events_
    /\ fd_[c] \in Fds => Unregisters(c)
    /\ UNCHANGED <<outputBuffer_, baseQueue, closes>>

LEMMA UpdateEffect ==
    ASSUME TypeOK, NEW c \in Conns, NEW E \in SUBSET {"R", "W"}, Update(c, E)
    PROVE  /\ events_' = [events_ EXCEPT ![c] = E]
           /\ Registers(c)
           /\ events_' \in [Conns -> SUBSET {"R", "W"}]
           /\ index_' \in [Conns -> {"kNew", "kAdded", "kDeleted"}]
           /\ channels_' \in [Fds -> Conns \cup {None}]
           /\ epoll_' \in SUBSET Conns
<1>. USE DEF TypeOK, ConnTypeOK, ChannelTypeOK
<1>1. events_' = [events_ EXCEPT ![c] = E] /\ events_' \in [Conns -> SUBSET {"R", "W"}]
  BY DEF Update
<1>2. CASE UNCHANGED <<index_, channels_, epoll_>>
  BY <1>1, <1>2 DEF Registers
<1>3. CASE /\ channels_' = [channels_ EXCEPT ![fd_[c]] = c]
           /\ index_' = [index_ EXCEPT ![c] = "kAdded"]
           /\ epoll_' = epoll_ \cup {c}
  <2>1. index_' \in [Conns -> {"kNew", "kAdded", "kDeleted"}] /\ index_'[c] = "kAdded"
    BY <1>3
  <2>2. channels_' \in [Fds -> Conns \cup {None}]
    BY <1>3
  <2>3. epoll_' \in SUBSET Conns
    BY <1>3
  <2>4. Registers(c)
    BY <1>3, <2>1 DEF Registers
  <2>. QED  BY <1>1, <2>1, <2>2, <2>3, <2>4
<1>4. CASE /\ index_' = IF E = {} /\ c \in epoll_ THEN [index_ EXCEPT ![c] = "kDeleted"] ELSE index_
           /\ epoll_' = IF E = {} THEN epoll_ \ {c} ELSE epoll_
           /\ UNCHANGED channels_
  <2>1. index_' \in [Conns -> {"kNew", "kAdded", "kDeleted"}]
    BY <1>4
  <2>2. epoll_' \in SUBSET Conns
    BY <1>4
  <2>3. Registers(c)
    BY <1>4 DEF Registers
  <2>. QED  BY <1>1, <1>4, <2>1, <2>2, <2>3
<1>. QED  BY <1>2, <1>3, <1>4 DEF Update

LEMMA CloseEffect ==
    ASSUME TypeOK, NEW c \in Conns, HandleClose(c)
    PROVE  HandledType' /\ (Stays \/ Closes(c))
<1>1. CASE state_[c] = "kDisconnected"
  BY <1>1 DEF HandleClose, channelVars, connVars, HandledType, Stays, TypeOK, ConnTypeOK, ChannelTypeOK
<1>2. CASE state_[c] # "kDisconnected"
  <2>1. /\ state_' = [state_ EXCEPT ![c] = "kDisconnected"]
        /\ Update(c, {})
        /\ baseQueue' = Append(baseQueue, c)
        /\ closes' = [closes EXCEPT ![c] = closes[c] + 1]
        /\ UNCHANGED <<outputBuffer_, writeShut>>
    BY <1>2 DEF HandleClose, DisableAll
  <2>2. /\ events_' = [events_ EXCEPT ![c] = {}]
        /\ Registers(c)
        /\ events_' \in [Conns -> SUBSET {"R", "W"}]
        /\ index_' \in [Conns -> {"kNew", "kAdded", "kDeleted"}]
        /\ channels_' \in [Fds -> Conns \cup {None}]
        /\ epoll_' \in SUBSET Conns
    BY <2>1, UpdateEffect
  <2>3. baseQueue' \in Seq(Conns)
    BY <2>1, AppendProperties DEF TypeOK, ConnTypeOK
  <2>4. closes' \in [Conns -> Nat]
    <3>1. closes \in [Conns -> Nat] /\ closes' = [closes EXCEPT ![c] = closes[c] + 1]
      BY <2>1 DEF TypeOK, ConnTypeOK
    <3>. QED  BY ONLY <3>1
  <2>7. state_' \in [Conns -> States]
    BY <2>1 DEF TypeOK, ConnTypeOK, States
  <2>5. HandledType'
    BY <2>1, <2>2, <2>3, <2>4, <2>7 DEF HandledType, TypeOK, ConnTypeOK
  <2>6. Closes(c)
    BY <1>2, <2>1, <2>2 DEF Closes
  <2>. QED  BY <2>5, <2>6
<1>. QED  BY <1>1, <1>2

LEMMA SendEffect ==
    ASSUME TypeOK, NEW c \in Conns, SendInLoop(c), UNCHANGED <<baseQueue, closes>>
    PROVE  HandledType' /\ (Stays \/ Buffers(c))
<1>. UNCHANGED <<state_, writeShut>>
  BY DEF SendInLoop
<1>1. CASE UNCHANGED <<channelVars, outputBuffer_>>
  BY <1>1 DEF channelVars, HandledType, Stays, TypeOK, ConnTypeOK, ChannelTypeOK
<1>2. CASE /\ state_[c] # "kDisconnected"
           /\ outputBuffer_' = [outputBuffer_ EXCEPT ![c] = TRUE]
           /\ "W" \in events_[c] /\ UNCHANGED channelVars
  <2>3. events_[c] \cup {"W"} = events_[c]
    BY <1>2
  <2>4. events_' = [events_ EXCEPT ![c] = events_[c] \cup {"W"}]
    BY <1>2, <2>3 DEF channelVars, TypeOK, ConnTypeOK, ChannelTypeOK
  <2>1. Registers(c)
    BY <1>2 DEF channelVars, Registers
  <2>2. HandledType'
    BY <1>2 DEF channelVars, HandledType, TypeOK, ConnTypeOK, ChannelTypeOK
  <2>. QED  BY <1>2, <2>1, <2>2, <2>4 DEF Buffers
<1>3. CASE /\ state_[c] # "kDisconnected"
           /\ outputBuffer_' = [outputBuffer_ EXCEPT ![c] = TRUE]
           /\ EnableWriting(c)
  <2>1. Update(c, events_[c] \cup {"W"}) /\ events_[c] \cup {"W"} \in SUBSET {"R", "W"}
    BY <1>3 DEF EnableWriting, TypeOK, ConnTypeOK, ChannelTypeOK
  <2>2. /\ events_' = [events_ EXCEPT ![c] = events_[c] \cup {"W"}]
        /\ Registers(c)
        /\ events_' \in [Conns -> SUBSET {"R", "W"}]
        /\ index_' \in [Conns -> {"kNew", "kAdded", "kDeleted"}]
        /\ channels_' \in [Fds -> Conns \cup {None}]
        /\ epoll_' \in SUBSET Conns
    BY <2>1, UpdateEffect
  <2>3. HandledType'
    BY <1>3, <2>2 DEF HandledType, TypeOK, ConnTypeOK
  <2>. QED  BY <1>3, <2>2, <2>3 DEF Buffers
<1>. QED  BY <1>1, <1>2, <1>3 DEF SendInLoop

LEMMA MessageEffect ==
    ASSUME TypeOK, NEW c \in Conns, Message(c), UNCHANGED <<baseQueue, closes>>
    PROVE  /\ HandledType'
           /\ Stays \/ Buffers(c) \/ GoesDown(c)
           /\ ioQueue' = ioQueue \/ ioQueue' = Append(ioQueue, Bind("forceCloseInLoop", c))
<1>1. CASE UNCHANGED <<channelVars, connVars, ioQueue>>
  BY <1>1 DEF channelVars, connVars, HandledType, Stays, TypeOK, ConnTypeOK, ChannelTypeOK
<1>2. CASE SendInLoop(c) /\ UNCHANGED ioQueue
  BY <1>2, SendEffect
<1>3. CASE /\ state_[c] \in Up
           /\ state_' = [state_ EXCEPT ![c] = "kDisconnecting"]
           /\ \/ writeShut' = writeShut
              \/ writeShut' = [writeShut EXCEPT ![c] = writeShut[c] \/ "W" \notin events_[c]]
           /\ UNCHANGED <<channelVars, outputBuffer_>>
           /\ ioQueue' = ioQueue \/ ioQueue' = Append(ioQueue, Bind("forceCloseInLoop", c))
  <2>1. state_' \in [Conns -> States]
    BY <1>3 DEF TypeOK, ConnTypeOK, States
  <2>2. writeShut' \in [Conns -> BOOLEAN]
    BY <1>3 DEF TypeOK, ConnTypeOK
  <2>3. HandledType'
    BY <1>3, <2>1, <2>2 DEF channelVars, HandledType, TypeOK, ConnTypeOK, ChannelTypeOK
  <2>4. GoesDown(c)
    BY <1>3 DEF channelVars, GoesDown
  <2>. QED  BY <1>3, <2>3, <2>4
<1>. QED  BY <1>1, <1>2, <1>3 DEF Message, Up

LEMMA WriteEffect ==
    ASSUME TypeOK, NEW c \in Conns, HandleWrite(c)
    PROVE  HandledType' /\ (Stays \/ Closes(c) \/ Drains(c)) /\ ioQueue' = ioQueue
<1>1. CASE UNCHANGED <<channelVars, connVars, baseQueue, closes>>
  BY <1>1 DEF HandleWrite, channelVars, connVars, HandledType, Stays, TypeOK, ConnTypeOK, ChannelTypeOK
<1>2. CASE HandleClose(c)
  BY <1>2, CloseEffect DEF HandleWrite
<1>3. CASE /\ "W" \in events_[c]
           /\ outputBuffer_' = [outputBuffer_ EXCEPT ![c] = FALSE]
           /\ DisableWriting(c)
           /\ writeShut' = [writeShut EXCEPT ![c] = writeShut[c] \/ state_[c] = "kDisconnecting"]
           /\ UNCHANGED <<state_, baseQueue, closes>>
  <2>1. Update(c, events_[c] \ {"W"}) /\ events_[c] \ {"W"} \in SUBSET {"R", "W"}
    BY <1>3 DEF DisableWriting, TypeOK, ConnTypeOK, ChannelTypeOK
  <2>2. /\ events_' = [events_ EXCEPT ![c] = events_[c] \ {"W"}]
        /\ Registers(c)
        /\ events_' \in [Conns -> SUBSET {"R", "W"}]
        /\ index_' \in [Conns -> {"kNew", "kAdded", "kDeleted"}]
        /\ channels_' \in [Fds -> Conns \cup {None}]
        /\ epoll_' \in SUBSET Conns
    BY <2>1, UpdateEffect
  <2>3. outputBuffer_' \in [Conns -> BOOLEAN]
    BY <1>3 DEF TypeOK, ConnTypeOK
  <2>4. writeShut' \in [Conns -> BOOLEAN]
    BY <1>3 DEF TypeOK, ConnTypeOK
  <2>5. HandledType'
    BY <1>3, <2>2, <2>3, <2>4 DEF HandledType, TypeOK, ConnTypeOK
  <2>6. Drains(c)
    BY <1>3, <2>2 DEF Drains
  <2>. QED  BY <2>5, <2>6 DEF HandleWrite
<1>. QED  BY <1>1, <1>2, <1>3 DEF HandleWrite

LEMMA ShutdownEffect ==
    ASSUME TypeOK, NEW c \in Conns, ShutdownInLoop(c), UNCHANGED <<baseQueue, closes>>
    PROVE  HandledType' /\ Stays
<1>1. writeShut' \in [Conns -> BOOLEAN]
  BY DEF ShutdownInLoop, TypeOK, ConnTypeOK
<1>. QED
  BY <1>1 DEF ShutdownInLoop, channelVars, HandledType, Stays, TypeOK, ConnTypeOK, ChannelTypeOK

LEMMA EstablishEffect ==
    ASSUME TypeOK, NEW c \in Conns, ConnectEstablished(c)
    PROVE  HandledType' /\ (Stays \/ Closes(c) \/ Establishes(c))
<1>. UNCHANGED <<outputBuffer_, writeShut>>
  BY DEF ConnectEstablished
<1>1. CASE UNCHANGED <<channelVars, state_, baseQueue, closes>>
  BY <1>1 DEF channelVars, HandledType, Stays, TypeOK, ConnTypeOK, ChannelTypeOK
<1>2. CASE /\ state_[c] = "kConnecting"
           /\ state_' = [state_ EXCEPT ![c] = "kDisconnected"]
           /\ channels_' = IF UpdateAllowed(c) THEN [channels_ EXCEPT ![fd_[c]] = c] ELSE channels_
           /\ index_' = IF UpdateAllowed(c) THEN [index_ EXCEPT ![c] = "kAdded"] ELSE index_
           /\ UNCHANGED <<events_, epoll_>>
           /\ baseQueue' = Append(baseQueue, c)
           /\ closes' = [closes EXCEPT ![c] = closes[c] + 1]
  <2>1. baseQueue' \in Seq(Conns)
    BY <1>2, AppendProperties DEF TypeOK, ConnTypeOK
  <2>2. closes' \in [Conns -> Nat]
    <3>1. closes \in [Conns -> Nat] /\ closes' = [closes EXCEPT ![c] = closes[c] + 1]
      BY <1>2 DEF TypeOK, ConnTypeOK
    <3>. QED  BY ONLY <3>1
  <2>3. state_' \in [Conns -> States]
    BY <1>2 DEF TypeOK, ConnTypeOK, States
  <2>4. channels_' \in [Fds -> Conns \cup {None}]
    BY <1>2 DEF TypeOK, ConnTypeOK, ChannelTypeOK
  <2>5. index_' \in [Conns -> {"kNew", "kAdded", "kDeleted"}]
    BY <1>2 DEF TypeOK, ConnTypeOK, ChannelTypeOK
  <2>6. HandledType'
    BY <1>2, <2>1, <2>2, <2>3, <2>4, <2>5 DEF HandledType, TypeOK, ConnTypeOK, ChannelTypeOK
  <2>7. Registers(c)
    BY <1>2 DEF Registers, TypeOK, ConnTypeOK, ChannelTypeOK
  <2>8. Closes(c)
    BY <1>2, <2>7 DEF Closes
  <2>. QED  BY <2>6, <2>8
<1>3. CASE /\ state_[c] = "kConnecting"
           /\ state_' = [state_ EXCEPT ![c] = "kConnected"]
           /\ EnableReading(c)
           /\ UNCHANGED <<baseQueue, closes>>
  <2>1. Update(c, events_[c] \cup {"R"}) /\ events_[c] \cup {"R"} \in SUBSET {"R", "W"}
    BY <1>3 DEF EnableReading, TypeOK, ConnTypeOK, ChannelTypeOK
  <2>2. /\ events_' = [events_ EXCEPT ![c] = events_[c] \cup {"R"}]
        /\ Registers(c)
        /\ events_' \in [Conns -> SUBSET {"R", "W"}]
        /\ index_' \in [Conns -> {"kNew", "kAdded", "kDeleted"}]
        /\ channels_' \in [Fds -> Conns \cup {None}]
        /\ epoll_' \in SUBSET Conns
    BY <2>1, UpdateEffect
  <2>3. state_' \in [Conns -> States]
    BY <1>3 DEF TypeOK, ConnTypeOK, States
  <2>4. HandledType'
    BY <1>3, <2>2, <2>3 DEF HandledType, TypeOK, ConnTypeOK
  <2>. QED  BY <1>3, <2>2, <2>4 DEF Establishes
<1>. QED  BY <1>1, <1>2, <1>3 DEF ConnectEstablished

LEMMA DestroyEffect ==
    ASSUME TypeOK, NEW c \in Conns, ConnectDestroyed(c)
    PROVE  HandledType' /\ Destroys(c)
<1>. UNCHANGED <<outputBuffer_, writeShut, baseQueue, closes>>
  BY DEF ConnectDestroyed
<1>. USE NoneAssumption
<1>1. state_' \in [Conns -> States]
  BY DEF ConnectDestroyed, TypeOK, ConnTypeOK, States
<1>2. events_' \in [Conns -> SUBSET {"R", "W"}]
  BY DEF ConnectDestroyed, Remove, channelVars, TypeOK, ConnTypeOK, ChannelTypeOK
<1>3. \/ UNCHANGED <<channels_, epoll_, index_>>
      \/ /\ channels_' = [channels_ EXCEPT ![fd_[c]] = None]
         /\ epoll_' = epoll_ \ {c}
         /\ index_' = [index_ EXCEPT ![c] = "kNew"]
         /\ Mapped(c)
  BY DEF ConnectDestroyed, Remove, channelVars
<1>4. channels_' \in [Fds -> Conns \cup {None}]
  BY <1>3 DEF TypeOK, ConnTypeOK, ChannelTypeOK
<1>9. epoll_' \in SUBSET Conns
  BY <1>3 DEF TypeOK, ConnTypeOK, ChannelTypeOK
<1>5. index_' \in [Conns -> {"kNew", "kAdded", "kDeleted"}]
  BY <1>3 DEF TypeOK, ConnTypeOK, ChannelTypeOK
<1>6. HandledType'
  BY <1>1, <1>2, <1>4, <1>5, <1>9 DEF HandledType, TypeOK, ConnTypeOK
<1>7. ASSUME fd_[c] \in Fds  PROVE  Unregisters(c)
  <2>1. \A f \in Fds : \/ channels_'[f] = channels_[f]
                       \/ f = fd_[c] /\ channels_[f] = c /\ channels_'[f] = None
    <3>1. CASE UNCHANGED channels_
      BY <3>1
    <3>2. CASE channels_' = [channels_ EXCEPT ![fd_[c]] = None] /\ channels_[fd_[c]] = c
      <4>1. channels_ \in [Fds -> Conns \cup {None}]
        BY DEF TypeOK, ConnTypeOK, ChannelTypeOK
      <4>. QED  BY ONLY <3>2, <4>1, <1>7
    <3>. QED  BY <1>3, <3>1, <3>2 DEF Mapped
  <2>2. /\ \A d \in Conns \ {c} : index_'[d] = index_[d]
        /\ index_'[c] = index_[c] \/ channels_'[fd_[c]] = None
    BY <1>3, <1>7 DEF TypeOK, ConnTypeOK, ChannelTypeOK
  <2>3. events_'[c] = {} /\ index_[c] # "kNew" => channels_'[fd_[c]] # c
    BY <1>7 DEF ConnectDestroyed, Remove, Mapped, channelVars, TypeOK, ConnTypeOK, ChannelTypeOK
  <2>. QED  BY <2>1, <2>2, <2>3 DEF Unregisters
<1>8. \/ /\ state_[c] = "kConnected"
         /\ state_' = [state_ EXCEPT ![c] = "kDisconnected"]
         /\ events_' = [events_ EXCEPT ![c] = {}]
      \/ state_[c] # "kConnected" /\ state_' = state_ /\ events_' = events_
  BY DEF ConnectDestroyed, Remove, channelVars
<1>. QED  BY <1>6, <1>7, <1>8 DEF Destroys

-----------------------------------------------------------------------------
(* What the I/O loop does in one step *)

\* A callback is one of the moves of the current connection; it may queue
\* forceCloseInLoop.
CallbackMove(c) ==
    /\ current = c
    /\ Stays \/ Closes(c) \/ Buffers(c) \/ Drains(c) \/ GoesDown(c)
    /\ ioQueue' = ioQueue \/ ioQueue' = Append(ioQueue, Bind("forceCloseInLoop", c))
    /\ UNCHANGED <<fd_, iopc, current, batch, ioQuit, userVars, serverVars, ub>>

LEMMA CallbackEffect ==
    ASSUME TypeOK, LoopInv, NEW cb \in Callbacks, IoCallback(cb)
    PROVE  HandledType' /\ (\E c \in Conns : CallbackMove(c)) /\ todo' \in SUBSET Callbacks
<1>. PICK c \in Conns : c = current
  BY DEF IoCallback, LoopInv, TypeOK, ConnTypeOK
<1>1. /\ cb \in {"close", "error"} => HandleClose(c) /\ UNCHANGED ioQueue
      /\ cb = "read" => HandleRead(c)
      /\ cb = "write" => HandleWrite(c)
  <2>1. CASE cb \in {"close", "error"}
    <3>1. cb # "read" /\ cb # "write"
      BY <2>1
    <3>. QED  BY <2>1, <3>1, Zenon DEF IoCallback
  <2>2. CASE cb = "read"
    <3>1. cb \notin {"close", "error"} /\ cb # "write"
      BY <2>2
    <3>. QED  BY <2>2, <3>1, Zenon DEF IoCallback
  <2>3. CASE cb = "write"
    <3>1. cb \notin {"close", "error"} /\ cb # "read"
      BY <2>3
    <3>. QED  BY <2>3, <3>1, Zenon DEF IoCallback
  <2>. QED  BY <2>1, <2>2, <2>3 DEF Callbacks
<1>2. /\ HandledType'
      /\ Stays \/ Closes(c) \/ Buffers(c) \/ Drains(c) \/ GoesDown(c)
      /\ ioQueue' = ioQueue \/ ioQueue' = Append(ioQueue, Bind("forceCloseInLoop", c))
  <2>1. CASE cb \in {"close", "error"}
    BY <1>1, <2>1, CloseEffect
  <2>2. CASE cb = "read"
    BY <1>1, <2>2, CloseEffect, MessageEffect DEF HandleRead
  <2>3. CASE cb = "write"
    BY <1>1, <2>3, WriteEffect
  <2>. QED  BY <2>1, <2>2, <2>3 DEF Callbacks
<1>3. todo' = todo \ {cb} /\ UNCHANGED <<fd_, iopc, current, batch, ioQuit, userVars, serverVars, ub>>
  BY DEF IoCallback
<1>4. todo' \in SUBSET Callbacks
  BY <1>3 DEF TypeOK, ConnTypeOK
<1>. QED  BY <1>2, <1>3, <1>4 DEF CallbackMove

\* A functor is one of the moves of its connection, given by its function.
FunctorMove(f) ==
    /\ ioQueue # <<>> /\ f = Head(ioQueue) /\ ioQueue' = Tail(ioQueue)
    /\ f.fn = "connectEstablished" => Stays \/ Closes(f.c) \/ Establishes(f.c)
    /\ f.fn = "connectDestroyed" => Destroys(f.c)
    /\ f.fn \in Raw \cup {"forceCloseInLoop"} => Stays \/ Closes(f.c) \/ Buffers(f.c)
    /\ iopc = "functors" /\ batch > 0 /\ batch' = batch - 1
    /\ UNCHANGED <<fd_, iopc, current, todo, ioQuit, userVars, serverVars>>

LEMMA FunctorEffect ==
    ASSUME TypeOK, LoopInv, IoFunctor
    PROVE  /\ HandledType'
           /\ \E f \in Functor : FunctorMove(f)
           /\ ub' = ub \/ ub' = ub \cup {"dead connection"}
<1>1. ioQueue \in Seq(Functor) /\ ioQueue # <<>>
  <2>1. ioQueue \in Seq(Functor) /\ batch \in Nat /\ batch > 0 /\ batch <= Len(ioQueue)
    BY DEF IoFunctor, LoopInv, TypeOK, ConnTypeOK
  <2>2. Len(ioQueue) # 0
    BY <2>1
  <2>. QED  BY <2>1, <2>2, EmptySeq
<1>2. Head(ioQueue) \in Functor
  BY <1>1, HeadTailProperties
<1>. PICK f \in Functor : f = Head(ioQueue)
  BY <1>2
<1>. DEFINE c == f.c
<1>3. c \in Conns /\ f.fn \in Functions
  BY DEF Functor
<1>4. /\ iopc = "functors" /\ batch > 0 /\ batch' = batch - 1 /\ ioQueue' = Tail(ioQueue)
      /\ UNCHANGED <<fd_, iopc, current, todo, ioQuit, userVars, serverVars>>
  BY DEF IoFunctor
<1>5. CASE f.fn \in Raw /\ ~Alive(c)
  <2>1. UNCHANGED <<channelVars, connVars, baseQueue, closes>> /\ ub' = ub \cup {"dead connection"}
    BY <1>5, Zenon DEF IoFunctor
  <2>2. HandledType' /\ Stays
    BY <2>1 DEF channelVars, connVars, HandledType, Stays, TypeOK, ConnTypeOK, ChannelTypeOK
  <2>3. f.fn # "connectEstablished" /\ f.fn # "connectDestroyed"
    BY <1>5 DEF Raw
  <2>. QED  BY <1>1, <1>4, <2>1, <2>2, <2>3 DEF FunctorMove
<1>6. CASE ~(f.fn \in Raw /\ ~Alive(c))
  <2>. DEFINE Effect == CASE f.fn = "connectEstablished" -> ConnectEstablished(c)
                          [] f.fn = "connectDestroyed"   -> ConnectDestroyed(c)
                          [] f.fn = "forceCloseInLoop"   -> ForceCloseInLoop(c)
                          [] f.fn = "sendInLoop"  -> SendInLoop(c) /\ UNCHANGED <<baseQueue, closes>>
                          [] f.fn = "shutdownInLoop" ->
                               ShutdownInLoop(c) /\ UNCHANGED <<baseQueue, closes>>
  <2>1. ub' = ub /\ Effect
    BY <1>6, Zenon DEF IoFunctor
  <2>2. CASE f.fn = "connectEstablished"
    <3>1. /\ f.fn # "connectDestroyed" /\ f.fn # "forceCloseInLoop"
          /\ f.fn # "sendInLoop" /\ f.fn # "shutdownInLoop"
      BY <2>2
    <3>2. ConnectEstablished(c)
      BY <2>1, <2>2, <3>1, Zenon
    <3>3. HandledType' /\ (Stays \/ Closes(c) \/ Establishes(c))
      BY <1>3, <3>2, EstablishEffect
    <3>4. f.fn \notin Raw \cup {"forceCloseInLoop"}
      BY <3>1 DEF Raw
    <3>. QED  BY <1>1, <1>4, <2>1, <3>1, <3>3, <3>4 DEF FunctorMove
  <2>3. CASE f.fn = "connectDestroyed"
    <3>1. /\ f.fn # "connectEstablished" /\ f.fn # "forceCloseInLoop"
          /\ f.fn # "sendInLoop" /\ f.fn # "shutdownInLoop"
      BY <2>3
    <3>2. ConnectDestroyed(c)
      BY <2>1, <2>3, <3>1, Zenon
    <3>3. HandledType' /\ Destroys(c)
      BY <1>3, <3>2, DestroyEffect
    <3>4. f.fn \notin Raw \cup {"forceCloseInLoop"}
      BY <3>1 DEF Raw
    <3>. QED  BY <1>1, <1>4, <2>1, <3>1, <3>3, <3>4 DEF FunctorMove
  <2>4. CASE f.fn = "forceCloseInLoop"
    <3>1. /\ f.fn # "connectEstablished" /\ f.fn # "connectDestroyed"
          /\ f.fn # "sendInLoop" /\ f.fn # "shutdownInLoop"
      BY <2>4
    <3>2. ForceCloseInLoop(c)
      BY <2>1, <2>4, <3>1, Zenon
    <3>3. CASE HandleClose(c)
      BY <1>1, <1>3, <1>4, <2>1, <3>1, <3>3, CloseEffect DEF FunctorMove
    <3>4. CASE UNCHANGED <<channelVars, connVars, baseQueue, closes>>
      <4>1. HandledType' /\ Stays
        BY <3>4 DEF channelVars, connVars, HandledType, Stays, TypeOK, ConnTypeOK, ChannelTypeOK
      <4>. QED  BY <1>1, <1>4, <2>1, <3>1, <4>1 DEF FunctorMove
    <3>. QED  BY <3>2, <3>3, <3>4 DEF ForceCloseInLoop
  <2>5. CASE f.fn = "sendInLoop"
    <3>1. /\ f.fn # "connectEstablished" /\ f.fn # "connectDestroyed"
          /\ f.fn # "forceCloseInLoop" /\ f.fn # "shutdownInLoop"
      BY <2>5
    <3>2. SendInLoop(c) /\ UNCHANGED <<baseQueue, closes>>
      BY <2>1, <2>5, <3>1, Zenon
    <3>3. HandledType' /\ (Stays \/ Buffers(c))
      BY <1>3, <3>2, SendEffect
    <3>. QED  BY <1>1, <1>4, <2>1, <3>1, <3>3 DEF FunctorMove
  <2>6. CASE f.fn = "shutdownInLoop"
    <3>1. /\ f.fn # "connectEstablished" /\ f.fn # "connectDestroyed"
          /\ f.fn # "forceCloseInLoop" /\ f.fn # "sendInLoop"
      BY <2>6
    <3>2. ShutdownInLoop(c) /\ UNCHANGED <<baseQueue, closes>>
      BY <2>1, <2>6, <3>1, Zenon
    <3>3. HandledType' /\ Stays
      BY <1>3, <3>2, ShutdownEffect
    <3>. QED  BY <1>1, <1>4, <2>1, <3>1, <3>3 DEF FunctorMove
  <2>. QED  BY <1>3, <2>2, <2>3, <2>4, <2>5, <2>6 DEF Functions
<1>. QED  BY <1>5, <1>6

-----------------------------------------------------------------------------
(* The functor queues *)

LEMMA AppendEffect ==
    ASSUME NEW S, NEW q \in Seq(S), NEW x \in S, NEW r, r = Append(q, x)
    PROVE  /\ r \in Seq(S) /\ Len(r) = Len(q) + 1 /\ Len(q) \in Nat
           /\ \A i \in 1..Len(q) : r[i] = q[i]
           /\ r[Len(q) + 1] = x
           /\ \A i \in 1..Len(r) : i \in 1..Len(q) \/ i = Len(q) + 1
BY AppendProperties, LenProperties

LEMMA TailEffect ==
    ASSUME NEW S, NEW q \in Seq(S), q # <<>>, NEW r, r = Tail(q)
    PROVE  /\ r \in Seq(S) /\ Len(q) \in Nat /\ Len(q) >= 1 /\ Len(r) = Len(q) - 1
           /\ Head(q) = q[1] /\ Head(q) \in S
           /\ \A i \in 1..Len(r) : r[i] = q[i + 1] /\ i + 1 \in 1..Len(q)
BY HeadTailProperties, LenProperties, EmptySeq

LEMMA BindEffect ==
    ASSUME NEW fn \in Functions, NEW c \in Conns
    PROVE  /\ Bind(fn, c) \in Functor /\ Bind(fn, c).fn = fn /\ Bind(fn, c).c = c
           /\ Bind(fn, c).fresh => state_[c] = "kConnected"
BY DEF Bind, Functor

-----------------------------------------------------------------------------
(* Types *)

OtherType ==
    /\ fd_ \in [Conns -> Fds \cup {None}]
    /\ loop_ \in [Conns -> Nat] /\ generation \in Nat
    /\ connections_ \in [Conns -> {"absent", "present", "null"}]
    /\ iopc \in {"poll", "callbacks", "functors", "exited"}
    /\ current \in Conns \cup {None}
    /\ todo \in SUBSET Callbacks
    /\ ioQueue \in Seq(Functor)
    /\ batch \in Nat
    /\ ioQuit \in BOOLEAN
    /\ calls \in 0..MaxCalls
    /\ ub \in SUBSET {"dead connection", "dead loop", "null connection"}
    /\ started_ \in BOOLEAN
    /\ bpc \in {"loop", "stopping", "joining"}
    /\ toStop \in SUBSET Conns
    /\ stops \in 0..MaxStops

LEMMA TypeParts ==
    /\ TypeOK <=> HandledType /\ OtherType
    /\ TypeOK' <=> HandledType' /\ OtherType'
BY DEF TypeOK, ConnTypeOK, ChannelTypeOK, HandledType, OtherType

\* What a user thread calls.
LEMMA CallEffect ==
    ASSUME TypeOK, UserType, NEW u \in Users, upc[u].at \in {"tested", "set"}
    PROVE  /\ upc[u] \in UserCall /\ upc[u] # Idle
           /\ upc[u].c \in Conns /\ upc[u].op \in UserOps /\ InLoopName[upc[u].op] \in Functions
           /\ SendOnly => InLoopName[upc[u].op] \in Raw
<1>1. upc[u] \in UserCall \cup {Idle} /\ upc[u] # Idle
  BY DEF UserType, Idle
<1>2. upc[u] \in UserCall
  BY <1>1
<1>3. upc[u].c \in Conns /\ upc[u].op \in UserOps
  BY <1>2 DEF UserCall
<1>4. upc[u].op \in {"send", "shutdown", "forceClose"}
  BY <1>3, UserAssumption
<1>5. InLoopName[upc[u].op] \in Functions
  BY <1>4 DEF InLoopName, Functions
<1>6. SendOnly => InLoopName[upc[u].op] \in Raw
  <2>. HAVE SendOnly
  <2>1. upc[u].op = "send"
    BY <1>3 DEF SendOnly
  <2>. QED  BY <2>1 DEF InLoopName, Raw
<1>. QED  BY <1>1, <1>2, <1>3, <1>5, <1>6

LEMMA TypeInit ==
    ASSUME Init PROVE TypeOK /\ UserType
<1>. USE DEF Init, ConnInit, ChannelInit
<1>1. /\ events_ \in [Conns -> SUBSET {"R", "W"}] /\ index_ \in [Conns -> {"kNew", "kAdded", "kDeleted"}]
      /\ channels_ \in [Fds -> Conns \cup {None}] /\ epoll_ \in SUBSET Conns
  OBVIOUS
<1>2. /\ state_ \in [Conns -> States] /\ outputBuffer_ \in [Conns -> BOOLEAN]
      /\ writeShut \in [Conns -> BOOLEAN] /\ closes \in [Conns -> Nat]
  BY DEF States
<1>3. baseQueue \in Seq(Conns) /\ ioQueue \in Seq(Functor)
  BY EmptySeq
<1>4. /\ fd_ \in [Conns -> Fds \cup {None}] /\ loop_ \in [Conns -> Nat] /\ generation \in Nat
      /\ connections_ \in [Conns -> {"absent", "present", "null"}]
  OBVIOUS
<1>5. /\ iopc \in {"poll", "callbacks", "functors", "exited"} /\ current \in Conns \cup {None}
      /\ todo \in SUBSET Callbacks /\ batch \in Nat /\ ioQuit \in BOOLEAN
      /\ ub \in SUBSET {"dead connection", "dead loop", "null connection"}
  OBVIOUS
<1>6. calls \in 0..MaxCalls /\ stops \in 0..MaxStops
  BY UserAssumption, StopsAssumption
<1>7. started_ \in BOOLEAN /\ bpc \in {"loop", "stopping", "joining"} /\ toStop \in SUBSET Conns
  OBVIOUS
<1>8. UserType
  BY DEF UserType
<1>9. TypeOK
  BY <1>1, <1>2, <1>3, <1>4, <1>5, <1>6, <1>7 DEF TypeOK, ConnTypeOK, ChannelTypeOK
<1>. QED  BY <1>8, <1>9

LEMMA IoTypes ==
    ASSUME TypeOK, UserType, LoopInv, IoNext, UNCHANGED baseVars
    PROVE  TypeOK' /\ UserType'
<1>. USE TypeParts
<1>1. ASSUME NEW c \in Conns, IoPoll(c)  PROVE  TypeOK' /\ UserType'
  <2>1. todo' \in SUBSET Callbacks
    BY <1>1 DEF IoPoll
  <2>. QED  BY <1>1, <2>1 DEF IoPoll, channelVars, connVars, userVars, serverVars, baseVars, HandledType, OtherType, UserType
<1>2. ASSUME NEW cb \in Callbacks, IoCallback(cb)  PROVE  TypeOK' /\ UserType'
  <2>1. HandledType' /\ todo' \in SUBSET Callbacks
    BY <1>2, CallbackEffect
  <2>2. PICK c \in Conns : CallbackMove(c)
    BY <1>2, CallbackEffect
  <2>3. ioQueue' \in Seq(Functor)
    <3>1. Bind("forceCloseInLoop", c) \in Functor
      BY BindEffect DEF Functions
    <3>2. ioQueue \in Seq(Functor)
      BY DEF OtherType
    <3>. QED  BY <2>2, <3>1, <3>2, AppendProperties DEF CallbackMove
  <2>. QED  BY <2>1, <2>2, <2>3 DEF CallbackMove, userVars, serverVars, baseVars, OtherType, UserType
<1>3. CASE IoSwap
  <2>1. batch' \in Nat
    BY <1>3, LenProperties DEF IoSwap, OtherType
  <2>. QED  BY <1>3, <2>1 DEF IoSwap, channelVars, connVars, userVars, serverVars, baseVars, HandledType, OtherType, UserType
<1>4. CASE IoFunctor
  <2>1. HandledType' /\ (ub' = ub \/ ub' = ub \cup {"dead connection"})
    BY <1>4, FunctorEffect
  <2>2. PICK f \in Functor : FunctorMove(f)
    BY <1>4, FunctorEffect
  <2>3. ioQueue' \in Seq(Functor)
    BY <2>2, TailEffect DEF FunctorMove, OtherType
  <2>4. batch' \in Nat
    <3>1. batch \in Nat /\ batch > 0 /\ batch' = batch - 1
      BY <2>2 DEF FunctorMove, OtherType
    <3>. QED  BY ONLY <3>1
  <2>5. ub' \in SUBSET {"dead connection", "dead loop", "null connection"}
    BY <2>1 DEF OtherType
  <2>. QED  BY <2>1, <2>2, <2>3, <2>4, <2>5 DEF FunctorMove, userVars, serverVars, baseVars, OtherType, UserType
<1>5. CASE IoIterate
  <2>1. ioQueue' \in Seq(Functor) /\ epoll_' \in SUBSET Conns
    <3>1. ioQueue \in Seq(Functor) /\ epoll_ \in SUBSET Conns
      BY DEF OtherType, HandledType
    <3>2. (ioQueue' = <<>> \/ ioQueue' = ioQueue) /\ (epoll_' = {} \/ epoll_' = epoll_)
      BY <1>5, Zenon DEF IoIterate
    <3>3. <<>> \in Seq(Functor)
      BY EmptySeq
    <3>. QED  BY <3>1, <3>2, <3>3
  <2>2. channels_' \in [Fds -> Conns \cup {None}]
    BY <1>5 DEF IoIterate, HandledType
  <2>3. iopc' \in {"poll", "callbacks", "functors", "exited"}
    BY <1>5 DEF IoIterate
  <2>. QED  BY <1>5, <2>1, <2>2, <2>3 DEF IoIterate, connVars, userVars, serverVars, baseVars, HandledType, OtherType, UserType
<1>. QED  BY <1>1, <1>2, <1>3, <1>4, <1>5 DEF IoNext

LEMMA UserTypes ==
    ASSUME TypeOK, UserType, UserNext, UNCHANGED baseVars
    PROVE  TypeOK' /\ UserType'
<1>. USE TypeParts
<1>. PICK u \in Users : \/ \E op \in UserOps, c \in Conns : UserTest(u, op, c)
                        \/ UserSetState(u)
                        \/ UserQueue(u)
  BY DEF UserNext
<1>1. ASSUME NEW op \in UserOps, NEW c \in Conns, UserTest(u, op, c)  PROVE  TypeOK' /\ UserType'
  <2>1. calls' \in 0..MaxCalls
    <3>1. calls \in 0..MaxCalls /\ calls < MaxCalls /\ calls' = calls + 1 /\ MaxCalls \in Nat
      BY <1>1, UserAssumption DEF UserTest, OtherType
    <3>. QED  BY ONLY <3>1
  <2>2. [op |-> op, c |-> c, at |-> "tested"] \in UserCall
    BY DEF UserCall
  <2>3. UserType'
    BY <1>1, <2>2 DEF UserTest, UserType
  <2>. QED  BY <1>1, <2>1, <2>3 DEF UserTest, channelVars, connVars, loopVars, serverVars, baseVars, HandledType, OtherType
<1>2. CASE UserSetState(u)
  <2>1. upc[u] \in UserCall
    BY <1>2, CallEffect DEF UserSetState
  <2>2. [upc[u] EXCEPT !.at = "set"] \in UserCall
    BY <2>1 DEF UserCall
  <2>3. upc' = [upc EXCEPT ![u] = [upc[u] EXCEPT !.at = "set"]]
    BY <1>2 DEF UserSetState
  <2>4. UserType'
    BY <2>2, <2>3 DEF UserType
  <2>5. state_' \in [Conns -> States]
    BY <1>2 DEF UserSetState, HandledType, States
  <2>. QED  BY <1>2, <2>4, <2>5 DEF UserSetState, channelVars, loopVars, serverVars, baseVars, HandledType, OtherType
<1>3. CASE UserQueue(u)
  <2>1. upc[u].c \in Conns /\ InLoopName[upc[u].op] \in Functions
    BY <1>3, CallEffect DEF UserQueue
  <2>2. ioQueue' \in Seq(Functor)
    <3>1. Bind(InLoopName[upc[u].op], upc[u].c) \in Functor
      BY <2>1, BindEffect
    <3>2. ioQueue \in Seq(Functor)
      BY DEF OtherType
    <3>3. ioQueue' = ioQueue \/ ioQueue' = Append(ioQueue, Bind(InLoopName[upc[u].op], upc[u].c))
      BY <1>3 DEF UserQueue
    <3>. QED  BY <3>1, <3>2, <3>3, AppendProperties
  <2>3. ub' \in SUBSET {"dead connection", "dead loop", "null connection"}
    BY <1>3 DEF UserQueue, OtherType
  <2>4. UserType'
    BY <1>3 DEF UserQueue, UserType
  <2>. QED  BY <1>3, <2>2, <2>3, <2>4 DEF UserQueue, channelVars, connVars, loopVars, serverVars, baseVars, HandledType, OtherType
<1>. QED  BY <1>1, <1>2, <1>3

LEMMA BaseTypes ==
    ASSUME TypeOK, UserType, BaseNext
    PROVE  TypeOK' /\ UserType'
<1>. USE TypeParts
<1>0. ioQueue \in Seq(Functor) /\ baseQueue \in Seq(Conns)
  BY DEF OtherType, HandledType
<1>1. ASSUME NEW c \in Conns, NEW f \in Fds, NewConnection(c, f)  PROVE  TypeOK' /\ UserType'
  <2>1. Bind("connectEstablished", c) \in Functor
    BY BindEffect DEF Functions
  <2>2. ioQueue' \in Seq(Functor)
    BY <1>0, <1>1, <2>1, AppendProperties DEF NewConnection
  <2>3. ub' \in SUBSET {"dead connection", "dead loop", "null connection"}
    BY <1>1 DEF NewConnection, OtherType
  <2>4. state_' \in [Conns -> States]
    BY <1>1 DEF NewConnection, HandledType, States
  <2>5. fd_' \in [Conns -> Fds \cup {None}] /\ loop_' \in [Conns -> Nat]
    BY <1>1 DEF NewConnection, OtherType
  <2>6. connections_' \in [Conns -> {"absent", "present", "null"}]
    BY <1>1 DEF NewConnection, OtherType
  <2>7. UNCHANGED <<channelVars, outputBuffer_, writeShut, loopVars, baseQueue, userVars, generation, closes, baseVars>>
    BY <1>1 DEF NewConnection
  <2>. QED  BY <2>2, <2>3, <2>4, <2>5, <2>6, <2>7
            DEF channelVars, loopVars, userVars, baseVars, HandledType, OtherType, UserType
<1>2. CASE RemoveConnectionInLoop
  <2>1. PICK c \in Conns : c = Head(baseQueue)
    BY <1>0, <1>2, HeadTailProperties DEF RemoveConnectionInLoop
  <2>2. Bind("connectDestroyed", c) \in Functor
    BY BindEffect DEF Functions
  <2>3. ioQueue' = ioQueue \/ ioQueue' = Append(ioQueue, Bind("connectDestroyed", c))
    BY <1>2, <2>1 DEF RemoveConnectionInLoop
  <2>4. ioQueue' \in Seq(Functor)
    BY <1>0, <2>2, <2>3, AppendProperties
  <2>5. ub' \in SUBSET {"dead connection", "dead loop", "null connection"}
    BY <1>2 DEF RemoveConnectionInLoop, OtherType
  <2>6. connections_' \in [Conns -> {"absent", "present", "null"}]
    BY <1>2 DEF RemoveConnectionInLoop, OtherType
  <2>7. baseQueue' \in Seq(Conns)
    BY <1>0, <1>2, HeadTailProperties DEF RemoveConnectionInLoop
  <2>8. UNCHANGED <<fd_, channelVars, connVars, loopVars, userVars, loop_, generation, closes, baseVars>>
    BY <1>2 DEF RemoveConnectionInLoop
  <2>. QED  BY <2>4, <2>5, <2>6, <2>7, <2>8
            DEF channelVars, connVars, loopVars, userVars, baseVars, HandledType, OtherType, UserType
<1>3. CASE Stop
  <2>1. stops' \in 0..MaxStops
    <3>1. stops \in 0..MaxStops /\ stops < MaxStops /\ stops' = stops + 1 /\ MaxStops \in Nat
      BY <1>3, StopsAssumption DEF Stop, OtherType
    <3>. QED  BY ONLY <3>1
  <2>2. toStop' \in SUBSET Conns
    BY <1>3 DEF Stop
  <2>. QED  BY <1>3, <2>1, <2>2
            DEF Stop, channelVars, connVars, loopVars, userVars, serverVars, HandledType, OtherType, UserType
<1>4. ASSUME NEW c \in Conns, StopConnection(c)  PROVE  TypeOK' /\ UserType'
  <2>1. Bind("connectDestroyed", c) \in Functor
    BY BindEffect DEF Functions
  <2>2. ioQueue' \in Seq(Functor)
    <3>1. ioQueue' = ioQueue \/ ioQueue' = Append(ioQueue, Bind("connectDestroyed", c))
      BY <1>4 DEF StopConnection
    <3>. QED  BY <1>0, <2>1, <3>1, AppendProperties
  <2>3. ub' \in SUBSET {"dead connection", "dead loop", "null connection"}
    BY <1>4 DEF StopConnection, OtherType
  <2>4. connections_' \in [Conns -> {"absent", "present", "null"}]
    BY <1>4 DEF StopConnection, OtherType
  <2>5. toStop' \in SUBSET Conns
    BY <1>4 DEF StopConnection, OtherType
  <2>6. UNCHANGED <<fd_, channelVars, connVars, loopVars, baseQueue, userVars, loop_, generation, closes, started_, bpc, stops>>
    BY <1>4 DEF StopConnection
  <2>. QED  BY <2>2, <2>3, <2>4, <2>5, <2>6
            DEF channelVars, connVars, loopVars, userVars, HandledType, OtherType, UserType
<1>5. CASE StopPool
  BY <1>5 DEF StopPool, channelVars, connVars, userVars, serverVars, HandledType, OtherType, UserType
<1>6. CASE StopJoined
  BY <1>6 DEF StopJoined, channelVars, connVars, loopVars, userVars, serverVars, HandledType, OtherType, UserType
<1>7. CASE Start
  <2>1. generation' \in Nat
    <3>1. generation \in Nat /\ generation' = generation + 1
      BY <1>7 DEF Start, OtherType
    <3>. QED  BY ONLY <3>1
  <2>. QED  BY <1>7, <2>1 DEF Start, channelVars, connVars, userVars, HandledType, OtherType, UserType
<1>. QED  BY <1>1, <1>2, <1>3, <1>4, <1>5, <1>6, <1>7 DEF BaseNext

LEMMA TypeStep ==
    ASSUME TypeOK, UserType, LoopInv, [Next]_vars
    PROVE  TypeOK' /\ UserType'
<1>1. CASE UNCHANGED vars
  BY <1>1, TypeParts DEF vars, channelVars, connVars, loopVars, userVars, serverVars, baseVars,
                         HandledType, OtherType, UserType
<1>. QED  BY <1>1, IoTypes, UserTypes, BaseTypes DEF Next

-----------------------------------------------------------------------------
(* The invariant whatever user threads call *)

\* A queue that one functor may have been added to.
LEMMA GrowEffect ==
    ASSUME NEW S, NEW q \in Seq(S), NEW x \in S, NEW r, r = q \/ r = Append(q, x)
    PROVE  /\ Len(q) \in Nat /\ Len(r) \in Nat /\ Len(q) <= Len(r)
           /\ \A i \in 1..Len(q) : i \in 1..Len(r) /\ r[i] = q[i]
           /\ \A i \in 1..Len(r) : (i \in 1..Len(q) /\ r[i] = q[i]) \/ r[i] = x
           /\ r = Append(q, x) => Len(q) < Len(r) /\ Len(r) \in 1..Len(r) /\ r[Len(r)] = x
<1>1. Len(q) \in Nat
  BY LenProperties
<1>2. CASE r = q
  <2>1. Append(q, x) # q
    <3>1. Len(Append(q, x)) = Len(q) + 1
      BY AppendProperties
    <3>. QED  BY <1>1, <3>1
  <2>. QED  BY <1>1, <1>2, <2>1
<1>3. CASE r = Append(q, x)
  <2>1. /\ Len(r) = Len(q) + 1
        /\ \A i \in 1..Len(q) : r[i] = q[i]
        /\ r[Len(q) + 1] = x
        /\ \A i \in 1..Len(r) : i \in 1..Len(q) \/ i = Len(q) + 1
    BY <1>3, AppendEffect
  <2>. QED  BY <1>1, <2>1
<1>. QED  BY <1>2, <1>3

LEMMA QueueTyped ==
    ASSUME TypeOK
    PROVE  /\ ioQueue \in Seq(Functor) /\ Len(ioQueue) \in Nat /\ batch \in Nat
           /\ \A i \in 1..Len(ioQueue) : ioQueue[i] \in Functor /\ ioQueue[i].c \in Conns /\ ioQueue[i].fn \in Functions
<1>1. ioQueue \in Seq(Functor) /\ batch \in Nat
  BY DEF TypeOK, ConnTypeOK
<1>2. Len(ioQueue) \in Nat
  BY <1>1, LenProperties
<1>3. ASSUME NEW i \in 1..Len(ioQueue)
      PROVE  ioQueue[i] \in Functor /\ ioQueue[i].c \in Conns /\ ioQueue[i].fn \in Functions
  <2>1. ioQueue[i] \in Functor
    BY <1>1, ElementOfSeq
  <2>. QED  BY <2>1 DEF Functor
<1>. QED  BY <1>1, <1>2, <1>3

Moves(c) == \/ Stays \/ Closes(c) \/ Buffers(c) \/ Drains(c) \/ GoesDown(c)
            \/ Establishes(c) \/ Destroys(c)

\* State changes go one way, and what is handed to the base loop is closed.
LEMMA MoveEffect ==
    ASSUME TypeOK, NEW c \in Conns, Moves(c)
    PROVE  /\ \A d \in Conns : state_[d] # "none" => state_'[d] # "none"
           /\ \A d \in Conns : state_'[d] \in {"kConnecting", "kConnected"} => state_[d] \in {"kConnecting", "kConnected"}
           /\ \A d \in Conns : state_[d] \in {"kDisconnected", "kDisconnecting"}
                                => state_'[d] \in {"kDisconnected", "kDisconnecting"}
           /\ baseQueue' = baseQueue \/ (baseQueue' = Append(baseQueue, c) /\ state_'[c] = "kDisconnected")
<1>0. state_ \in [Conns -> States]
  BY DEF TypeOK, ConnTypeOK
<1>1. \/ state_' = state_
      \/ state_' = [state_ EXCEPT ![c] = "kDisconnected"]
      \/ state_' = [state_ EXCEPT ![c] = "kDisconnecting"] /\ state_[c] \in Up
      \/ state_' = [state_ EXCEPT ![c] = "kConnected"] /\ state_[c] = "kConnecting"
  BY DEF Moves, Stays, Closes, Buffers, Drains, GoesDown, Establishes, Destroys
<1>2. baseQueue' = baseQueue \/ (baseQueue' = Append(baseQueue, c) /\ state_'[c] = "kDisconnected")
  BY <1>0 DEF Moves, Stays, Closes, Buffers, Drains, GoesDown, Establishes, Destroys
<1>3. /\ \A d \in Conns \ {c} : state_'[d] = state_[d]
      /\ \/ state_'[c] = state_[c] \/ state_'[c] = "kDisconnected"
         \/ state_'[c] = "kDisconnecting" /\ state_[c] \in Up
         \/ state_'[c] = "kConnected" /\ state_[c] = "kConnecting"
  BY <1>0, <1>1
<1>. QED  BY <1>2, <1>3 DEF Up

\* References to created connections, through a move.
LEMMA CreatedMove ==
    ASSUME TypeOK, CreatedInv, UserType, UserType', NEW c \in Conns, Moves(c), state_[c] # "none", UNCHANGED upc
    PROVE  /\ \A u \in Users : upc'[u] # Idle => state_'[upc'[u].c] # "none"
           /\ \A i \in 1..Len(baseQueue') : state_'[baseQueue'[i]] \in {"kDisconnected", "kDisconnecting"}
<1>. USE MoveEffect
<1>1. ASSUME NEW u \in Users, upc'[u] # Idle  PROVE  state_'[upc'[u].c] # "none"
  <2>1. upc[u] \in UserCall
    BY <1>1 DEF UserType
  <2>2. upc[u].c \in Conns
    BY <2>1 DEF UserCall
  <2>. QED  BY <1>1, <2>2 DEF CreatedInv
<1>2. ASSUME NEW i \in 1..Len(baseQueue')  PROVE  state_'[baseQueue'[i]] \in {"kDisconnected", "kDisconnecting"}
  <2>1. baseQueue \in Seq(Conns)
    BY DEF TypeOK, ConnTypeOK
  <2>2. baseQueue' = baseQueue \/ baseQueue' = Append(baseQueue, c)
    OBVIOUS
  <2>3. (i \in 1..Len(baseQueue) /\ baseQueue'[i] = baseQueue[i]) \/ (baseQueue'[i] = c /\ baseQueue' # baseQueue)
    BY <2>1, <2>2, GrowEffect
  <2>4. CASE i \in 1..Len(baseQueue) /\ baseQueue'[i] = baseQueue[i]
    <3>1. baseQueue[i] \in Conns
      BY <2>1, <2>4, ElementOfSeq
    <3>. QED  BY <2>4, <3>1 DEF CreatedInv
  <2>5. CASE baseQueue'[i] = c /\ baseQueue' # baseQueue
    BY <2>5
  <2>. QED  BY <2>3, <2>4, <2>5
<1>. QED  BY <1>1, <1>2

\* A call on a loop that is gone is another kind of undefined behaviour.
LEMMA DeadLoopEffect ==
    ASSUME NullOnlyAfterRestart, generation' = generation, ub' = ub \/ ub' = ub \cup {"dead loop"}
    PROVE  NullOnlyAfterRestart'
<1>1. CASE ub' = ub
  BY <1>1, Zenon DEF NullOnlyAfterRestart
<1>2. CASE ub' = ub \cup {"dead loop"}
  BY <1>2, Zenon DEF NullOnlyAfterRestart
<1>. QED  BY <1>1, <1>2

LEMMA MapTyped ==
    ASSUME TypeOK
    PROVE  /\ connections_ \in [Conns -> {"absent", "present", "null"}]
           /\ loop_ \in [Conns -> Nat] /\ generation \in Nat
           /\ toStop \in SUBSET Conns /\ bpc \in {"loop", "stopping", "joining"}
           /\ stops \in Nat
<1>1. /\ connections_ \in [Conns -> {"absent", "present", "null"}]
      /\ loop_ \in [Conns -> Nat] /\ generation \in Nat
      /\ toStop \in SUBSET Conns /\ bpc \in {"loop", "stopping", "joining"}
  BY Zenon DEF TypeOK, ConnTypeOK
<1>2. stops \in 0..MaxStops
  BY Zenon DEF TypeOK
<1>3. stops \in Nat
  BY ONLY <1>2, StopsAssumption
<1>. QED  BY <1>1, <1>3, Zenon

LEMMA GInit ==
    ASSUME Init PROVE GInv
<1>1. TypeOK /\ UserType
  BY TypeInit
<1>2. Len(ioQueue) = 0 /\ Len(baseQueue) = 0
  BY EmptySeq DEF Init, ConnInit
<1>3. LoopInv /\ CreatedInv /\ RawInv
  BY <1>2 DEF Init, ConnInit, LoopInv, CreatedInv, RawInv
<1>4. FirstInv /\ PresentInv /\ NullInv /\ NullOnlyAfterRestart
  BY DEF Init, ConnInit, FirstInv, PresentInv, NullInv, NullOnlyAfterRestart
<1>5. MappedInv /\ PhaseInv
  BY DEF Init, ConnInit, MappedInv, PhaseInv
<1>. QED  BY <1>1, <1>3, <1>4, <1>5 DEF GInv

LEMMA GCallback ==
    ASSUME GInv, TypeOK', UserType', NEW cb \in Callbacks, IoCallback(cb), UNCHANGED baseVars
    PROVE  GInv'
<1>0. TypeOK /\ UserType /\ LoopInv /\ CreatedInv /\ FirstInv /\ PresentInv /\ RawInv /\ NullInv /\ NullOnlyAfterRestart
      /\ MappedInv /\ PhaseInv
  BY DEF GInv
<1>1. PICK c \in Conns : CallbackMove(c)
  BY <1>0, CallbackEffect
<1>2. /\ current = c /\ Moves(c)
      /\ UNCHANGED <<fd_, iopc, current, batch, ioQuit, upc, calls, loop_, generation, connections_, ub>>
      /\ UNCHANGED <<started_, bpc, toStop, stops>>
  BY <1>1 DEF CallbackMove, Moves, userVars, serverVars, baseVars
<1>3. state_[c] # "none" /\ c # None
  BY <1>0, <1>2, NoneAssumption DEF CreatedInv
<1>4. PICK x \in Functor : /\ x.fn = "forceCloseInLoop" /\ x.c = c
                           /\ ioQueue' = ioQueue \/ ioQueue' = Append(ioQueue, x)
  BY <1>1, BindEffect DEF CallbackMove, Functions
<1>5. /\ ioQueue \in Seq(Functor) /\ batch \in Nat
      /\ \A i \in 1..Len(ioQueue) : ioQueue[i] \in Functor /\ ioQueue[i].c \in Conns
  BY <1>0, QueueTyped
<1>6. /\ Len(ioQueue) \in Nat /\ Len(ioQueue') \in Nat /\ Len(ioQueue) <= Len(ioQueue')
      /\ \A i \in 1..Len(ioQueue) : i \in 1..Len(ioQueue') /\ ioQueue'[i] = ioQueue[i]
      /\ \A i \in 1..Len(ioQueue') : (i \in 1..Len(ioQueue) /\ ioQueue'[i] = ioQueue[i]) \/ ioQueue'[i] = x
  BY <1>4, <1>5, GrowEffect
<1>7. /\ \A d \in Conns : state_[d] # "none" => state_'[d] # "none"
      /\ \A d \in Conns : state_'[d] \in {"kConnecting", "kConnected"} => state_[d] \in {"kConnecting", "kConnected"}
  BY <1>0, <1>2, MoveEffect
<1>8. LoopInv'
  <2>1. batch <= Len(ioQueue) /\ batch' = batch
    BY <1>0, <1>2 DEF LoopInv
  <2>2. batch' <= Len(ioQueue')
    BY <1>5, <1>6, <2>1
  <2>. QED  BY <1>0, <1>2, <2>2 DEF LoopInv
<1>9. CreatedInv'
  <2>1. \A i \in 1..Len(ioQueue') : state_'[ioQueue'[i].c] # "none"
    <3>. SUFFICES ASSUME NEW i \in 1..Len(ioQueue')  PROVE  state_'[ioQueue'[i].c] # "none"
      OBVIOUS
    <3>1. CASE i \in 1..Len(ioQueue) /\ ioQueue'[i] = ioQueue[i]
      BY <1>0, <1>5, <1>7, <3>1 DEF CreatedInv
    <3>2. CASE ioQueue'[i] = x
      BY <1>3, <1>4, <1>7, <3>2
    <3>. QED  BY <1>6, <3>1, <3>2
  <2>2. /\ \A u \in Users : upc'[u] # Idle => state_'[upc'[u].c] # "none"
        /\ \A i \in 1..Len(baseQueue') : state_'[baseQueue'[i]] \in {"kDisconnected", "kDisconnecting"}
    BY <1>0, <1>2, <1>3, CreatedMove
  <2>. QED  BY <1>2, <1>3, <1>7, <2>1, <2>2 DEF CreatedInv
<1>10. FirstInv' /\ PresentInv'
  BY <1>0, <1>2, <1>7 DEF FirstInv, PresentInv
<1>11. RawInv'
  <2>. SUFFICES ASSUME stops = 0, NEW i \in 1..Len(ioQueue'), ioQueue'[i].fn \in Raw, ioQueue'[i].fresh
       PROVE  \/ connections_[ioQueue'[i].c] = "present"
              \/ \E j \in 1..Len(ioQueue') : i < j /\ ioQueue'[j].c = ioQueue'[i].c /\ ioQueue'[j].fn = "connectDestroyed"
    BY <1>2 DEF RawInv
  <2>1. i \in 1..Len(ioQueue) /\ ioQueue'[i] = ioQueue[i]
    <3>1. ioQueue'[i] # x
      BY <1>4 DEF Raw
    <3>. QED  BY <1>6, <3>1
  <2>. QED  BY <1>0, <1>6, <2>1 DEF RawInv
<1>12. NullInv' /\ NullOnlyAfterRestart'
  BY <1>0, <1>2 DEF NullInv, NullOnlyAfterRestart
<1>13. MappedInv'
  BY <1>0, <1>2, <1>7, MapTyped DEF MappedInv
<1>14. PhaseInv'
  <2>1. iopc = "callbacks" /\ iopc' = iopc
    BY <1>0, <1>2, <1>3 DEF LoopInv
  <2>. QED  BY <1>0, <1>2, <2>1 DEF PhaseInv
<1>. QED  BY <1>8, <1>9, <1>10, <1>11, <1>12, <1>13, <1>14 DEF GInv

LEMMA GFunctor ==
    ASSUME GInv, TypeOK', UserType', IoFunctor, UNCHANGED baseVars
    PROVE  GInv'
<1>0. TypeOK /\ UserType /\ LoopInv /\ CreatedInv /\ FirstInv /\ PresentInv /\ RawInv /\ NullInv /\ NullOnlyAfterRestart
      /\ MappedInv /\ PhaseInv
  BY DEF GInv
<1>1. PICK f \in Functor : FunctorMove(f)
  BY <1>0, FunctorEffect
<1>2. ub' = ub \/ ub' = ub \cup {"dead connection"}
  BY <1>0, FunctorEffect
<1>. DEFINE c == f.c
<1>3. /\ c \in Conns /\ Moves(c) /\ iopc = "functors" /\ batch > 0 /\ batch' = batch - 1
      /\ UNCHANGED <<fd_, iopc, current, todo, ioQuit, upc, calls, loop_, generation, connections_>>
      /\ UNCHANGED <<started_, bpc, toStop, stops>>
  BY <1>1 DEF FunctorMove, Moves, Functor, Functions, Raw, userVars, serverVars, baseVars
<1>4. ioQueue \in Seq(Functor) /\ ioQueue # <<>> /\ ioQueue' = Tail(ioQueue)
  BY <1>0, <1>1 DEF FunctorMove, TypeOK, ConnTypeOK
<1>5. /\ Len(ioQueue) \in Nat /\ Len(ioQueue) >= 1 /\ Len(ioQueue') = Len(ioQueue) - 1
      /\ Head(ioQueue) = ioQueue[1]
      /\ \A i \in 1..Len(ioQueue') : ioQueue'[i] = ioQueue[i + 1] /\ i + 1 \in 1..Len(ioQueue)
  BY <1>4, TailEffect
<1>6. \A i \in 1..Len(ioQueue) : ioQueue[i] \in Functor /\ ioQueue[i].c \in Conns
  BY <1>0, QueueTyped
<1>7. state_[c] # "none"
  <2>1. f = ioQueue[1] /\ 1 \in 1..Len(ioQueue)
    BY <1>1, <1>5 DEF FunctorMove
  <2>. QED  BY <1>0, <2>1 DEF CreatedInv
<1>8. /\ \A d \in Conns : state_[d] # "none" => state_'[d] # "none"
      /\ \A d \in Conns : state_'[d] \in {"kConnecting", "kConnected"} => state_[d] \in {"kConnecting", "kConnected"}
  BY <1>0, <1>3, MoveEffect
<1>9. LoopInv'
  <2>1. batch' <= Len(ioQueue')
    <3>1. batch <= Len(ioQueue) /\ batch \in Nat
      BY <1>0 DEF LoopInv, TypeOK, ConnTypeOK
    <3>. QED  BY <1>3, <1>5, <3>1
  <2>. QED  BY <1>0, <1>3, <2>1 DEF LoopInv
<1>10. CreatedInv'
  <2>1. \A i \in 1..Len(ioQueue') : state_'[ioQueue'[i].c] # "none"
    BY <1>0, <1>5, <1>6, <1>8 DEF CreatedInv
  <2>2. /\ \A u \in Users : upc'[u] # Idle => state_'[upc'[u].c] # "none"
        /\ \A i \in 1..Len(baseQueue') : state_'[baseQueue'[i]] \in {"kDisconnected", "kDisconnecting"}
    BY <1>0, <1>3, <1>7, CreatedMove
  <2>3. current' = None
    BY <1>0, <1>3 DEF LoopInv
  <2>. QED  BY <2>1, <2>2, <2>3 DEF CreatedInv
<1>11. FirstInv' /\ PresentInv'
  BY <1>0, <1>3, <1>8 DEF FirstInv, PresentInv
<1>12. RawInv'
  <2>. SUFFICES ASSUME stops = 0, NEW i \in 1..Len(ioQueue'), ioQueue'[i].fn \in Raw, ioQueue'[i].fresh,
                       connections_[ioQueue'[i].c] # "present"
       PROVE  \E j \in 1..Len(ioQueue') : i < j /\ ioQueue'[j].c = ioQueue'[i].c /\ ioQueue'[j].fn = "connectDestroyed"
    BY <1>3 DEF RawInv
  <2>1. i + 1 \in 1..Len(ioQueue) /\ ioQueue'[i] = ioQueue[i + 1]
    BY <1>5
  <2>2. PICK j \in 1..Len(ioQueue) : i + 1 < j /\ ioQueue[j].c = ioQueue[i + 1].c /\ ioQueue[j].fn = "connectDestroyed"
    BY <1>0, <2>1 DEF RawInv
  <2>3. j - 1 \in 1..Len(ioQueue') /\ i < j - 1 /\ (j - 1) + 1 = j
    BY <1>5, <2>2
  <2>4. ioQueue'[j - 1] = ioQueue[j]
    BY <1>5, <2>3
  <2>. QED  BY <2>1, <2>2, <2>3, <2>4
<1>13. NullInv' /\ NullOnlyAfterRestart'
  BY <1>0, <1>2, <1>3 DEF NullInv, NullOnlyAfterRestart
<1>14. MappedInv'
  BY <1>0, <1>3, <1>8, MapTyped DEF MappedInv
<1>15. PhaseInv'
  BY <1>0, <1>3 DEF PhaseInv
<1>. QED  BY <1>9, <1>10, <1>11, <1>12, <1>13, <1>14, <1>15 DEF GInv

\* Steps of the I/O loop that run no handler.
LEMMA GLoop ==
    ASSUME GInv, TypeOK', UserType', UNCHANGED baseVars,
           (\E c \in Conns : IoPoll(c)) \/ IoSwap \/ IoIterate
    PROVE  GInv'
<1>0. TypeOK /\ UserType /\ LoopInv /\ CreatedInv /\ FirstInv /\ PresentInv /\ RawInv /\ NullInv /\ NullOnlyAfterRestart
      /\ MappedInv /\ PhaseInv
  BY DEF GInv
<1>. USE DEF connVars, userVars, serverVars, baseVars
<1>1. ASSUME NEW c \in Conns, IoPoll(c)  PROVE  GInv'
  <2>1. LoopInv' /\ CreatedInv'
    BY <1>0, <1>1, NoneAssumption DEF IoPoll, Alive, LoopInv, CreatedInv
  <2>2. FirstInv' /\ PresentInv' /\ RawInv' /\ NullInv' /\ NullOnlyAfterRestart'
    BY <1>0, <1>1 DEF IoPoll, FirstInv, PresentInv, RawInv, NullInv, NullOnlyAfterRestart
  <2>3. MappedInv' /\ PhaseInv'
    BY <1>0, <1>1 DEF IoPoll, MappedInv, PhaseInv
  <2>. QED  BY <2>1, <2>2, <2>3 DEF GInv
<1>2. CASE IoSwap
  <2>1. LoopInv' /\ CreatedInv'
    BY <1>0, <1>2, QueueTyped DEF IoSwap, LoopInv, CreatedInv
  <2>2. FirstInv' /\ PresentInv' /\ RawInv' /\ NullInv' /\ NullOnlyAfterRestart'
    BY <1>0, <1>2 DEF IoSwap, FirstInv, PresentInv, RawInv, NullInv, NullOnlyAfterRestart
  <2>3. MappedInv' /\ PhaseInv'
    BY <1>0, <1>2 DEF IoSwap, MappedInv, PhaseInv
  <2>. QED  BY <2>1, <2>2, <2>3 DEF GInv
<1>3. CASE IoIterate
  <2>1. Len(ioQueue') \in Nat /\ (Len(ioQueue') = 0 \/ ioQueue' = ioQueue) /\ batch' = 0
    BY <1>0, <1>3, QueueTyped, EmptySeq DEF IoIterate
  <2>2. LoopInv' /\ CreatedInv'
    BY <1>0, <1>3, <2>1 DEF IoIterate, LoopInv, CreatedInv
  <2>3. FirstInv' /\ PresentInv' /\ NullInv' /\ NullOnlyAfterRestart'
    BY <1>0, <1>3 DEF IoIterate, FirstInv, PresentInv, NullInv, NullOnlyAfterRestart
  <2>4. RawInv'
    BY <1>0, <1>3, <2>1 DEF IoIterate, RawInv
  <2>5. MappedInv' /\ PhaseInv'
    BY <1>0, <1>3 DEF IoIterate, MappedInv, PhaseInv
  <2>. QED  BY <2>2, <2>3, <2>4, <2>5 DEF GInv
<1>. QED  BY <1>1, <1>2, <1>3

LEMMA GUser ==
    ASSUME GInv, TypeOK', UserType', UserNext, UNCHANGED baseVars
    PROVE  GInv'
<1>0. TypeOK /\ UserType /\ LoopInv /\ CreatedInv /\ FirstInv /\ PresentInv /\ RawInv /\ NullInv /\ NullOnlyAfterRestart
      /\ MappedInv /\ PhaseInv
  BY DEF GInv
<1>. USE DEF loopVars, serverVars, baseVars
<1>u. PICK u \in Users : \/ \E op \in UserOps, c \in Conns : UserTest(u, op, c)
                         \/ UserSetState(u)
                         \/ UserQueue(u)
  BY DEF UserNext
<1>1. ASSUME NEW op \in UserOps, NEW c \in Conns, UserTest(u, op, c)  PROVE  GInv'
  <2>0. upc' = [upc EXCEPT ![u] = [op |-> op, c |-> c, at |-> "tested"]]
    BY <1>1 DEF UserTest
  <2>1. /\ state_[c] # "none"
        /\ UNCHANGED <<state_, current, ioQueue, baseQueue, connections_, iopc, batch, ioQuit, generation, loop_, ub>>
        /\ UNCHANGED <<started_, bpc, toStop, stops>>
    BY <1>1 DEF UserTest, connVars
  <2>2. \A v \in Users : upc'[v] # Idle => state_'[upc'[v].c] # "none"
    BY <1>0, <2>0, <2>1 DEF CreatedInv, UserType
  <2>3. CreatedInv'
    BY <1>0, <2>1, <2>2 DEF CreatedInv
  <2>4. LoopInv' /\ FirstInv' /\ PresentInv' /\ RawInv'
    BY <1>0, <2>1 DEF LoopInv, FirstInv, PresentInv, RawInv
  <2>5. NullInv'
    BY <1>0, <2>1 DEF NullInv
  <2>6. NullOnlyAfterRestart'
    BY <1>0, <2>1, Zenon DEF NullOnlyAfterRestart
  <2>7. MappedInv' /\ PhaseInv'
    BY <1>0, <2>1 DEF MappedInv, PhaseInv
  <2>. QED  BY <2>3, <2>4, <2>5, <2>6, <2>7 DEF GInv
<1>2. CASE UserSetState(u)
  <2>1. PICK c \in Conns : c = upc[u].c
    BY <1>0, <1>2, CallEffect DEF UserSetState
  <2>2. upc[u] # Idle /\ upc[u] \in UserCall
    BY <1>0, <1>2, CallEffect DEF UserSetState
  <2>0. upc' = [upc EXCEPT ![u].at = "set"]
    BY <1>2 DEF UserSetState
  <2>3. /\ state_' = [state_ EXCEPT ![c] = "kDisconnecting"]
        /\ UNCHANGED <<current, ioQueue, baseQueue, connections_, iopc, batch, ioQuit, generation, loop_, ub>>
        /\ UNCHANGED <<started_, bpc, toStop, stops>>
    BY <1>2, <2>1 DEF UserSetState
  <2>4. state_'[c] = "kDisconnecting" /\ \A d \in Conns \ {c} : state_'[d] = state_[d]
    BY <1>0, <2>3 DEF TypeOK, ConnTypeOK
  <2>5. upc'[u].c = c /\ \A v \in Users \ {u} : upc'[v] = upc[v]
    BY <1>0, <2>0, <2>1, <2>2 DEF UserType, UserCall
  <2>6. \A v \in Users : upc[v] # Idle => upc[v].c \in Conns
    BY <1>0 DEF UserType, UserCall
  <2>7. \A v \in Users : upc'[v] # Idle => state_'[upc'[v].c] # "none"
    BY <1>0, <2>4, <2>5, <2>6 DEF CreatedInv
  <2>8. \A i \in 1..Len(ioQueue) : state_'[ioQueue[i].c] # "none"
    BY <1>0, <2>4, QueueTyped DEF CreatedInv
  <2>9. \A i \in 1..Len(baseQueue) : state_'[baseQueue[i]] \in {"kDisconnected", "kDisconnecting"}
    <3>1. \A i \in 1..Len(baseQueue) : baseQueue[i] \in Conns
      BY <1>0, ElementOfSeq DEF TypeOK, ConnTypeOK
    <3>. QED  BY <1>0, <2>4, <3>1 DEF CreatedInv
  <2>10. current # None => state_'[current] # "none"
    <3>1. current # None => current \in Conns
      BY <1>0 DEF TypeOK, ConnTypeOK
    <3>. QED  BY <1>0, <2>4, <3>1 DEF CreatedInv
  <2>11. CreatedInv'
    BY <2>3, <2>7, <2>8, <2>9, <2>10 DEF CreatedInv
  <2>12. PresentInv'
    BY <1>0, <2>3, <2>4 DEF PresentInv
  <2>13. LoopInv' /\ FirstInv' /\ RawInv'
    BY <1>0, <2>3 DEF LoopInv, FirstInv, RawInv
  <2>14. NullInv'
    BY <1>0, <2>3 DEF NullInv
  <2>15. NullOnlyAfterRestart'
    BY <1>0, <2>3, Zenon DEF NullOnlyAfterRestart
  <2>16. MappedInv' /\ PhaseInv'
    BY <1>0, <2>3, <2>4, MapTyped DEF MappedInv, PhaseInv
  <2>. QED  BY <2>11, <2>12, <2>13, <2>14, <2>15, <2>16 DEF GInv
<1>3. CASE UserQueue(u)
  <2>1. PICK c \in Conns : c = upc[u].c
    BY <1>0, <1>3, CallEffect DEF UserQueue
  <2>2. InLoopName[upc[u].op] \in Functions /\ state_[c] # "none"
    BY <1>0, <1>3, <2>1, CallEffect DEF UserQueue, CreatedInv
  <2>3. PICK x \in Functor : /\ x.c = c /\ (x.fresh => state_[c] = "kConnected")
                             /\ ioQueue' = ioQueue \/ ioQueue' = Append(ioQueue, x)
    <3>1. ioQueue' = ioQueue \/ ioQueue' = Append(ioQueue, Bind(InLoopName[upc[u].op], c))
      BY <1>3, <2>1 DEF UserQueue
    <3>. QED  BY <2>2, <3>1, BindEffect
  <2>4. /\ Len(ioQueue) \in Nat /\ Len(ioQueue') \in Nat /\ Len(ioQueue) <= Len(ioQueue')
        /\ \A i \in 1..Len(ioQueue) : i \in 1..Len(ioQueue') /\ ioQueue'[i] = ioQueue[i]
        /\ \A i \in 1..Len(ioQueue') : (i \in 1..Len(ioQueue) /\ ioQueue'[i] = ioQueue[i]) \/ ioQueue'[i] = x
    BY <1>0, <2>3, QueueTyped, GrowEffect
  <2>0. upc' = [upc EXCEPT ![u] = Idle]
    BY <1>3 DEF UserQueue
  <2>5. /\ UNCHANGED <<state_, current, baseQueue, connections_, iopc, batch, ioQuit, generation, loop_>>
        /\ UNCHANGED <<started_, bpc, toStop, stops>>
    BY <1>3 DEF UserQueue, connVars
  <2>6. LoopInv'
    <3>1. batch' = batch /\ batch \in Nat /\ batch <= Len(ioQueue)
      BY <1>0, <2>5, QueueTyped DEF LoopInv
    <3>2. batch' <= Len(ioQueue')
      BY <2>4, <3>1
    <3>. QED  BY <1>0, <2>5, <3>2 DEF LoopInv
  <2>7. \A v \in Users : upc'[v] # Idle => state_'[upc'[v].c] # "none"
    BY <1>0, <2>0, <2>5 DEF CreatedInv, UserType
  <2>8. \A i \in 1..Len(ioQueue') : state_[ioQueue'[i].c] # "none"
    BY <1>0, <2>2, <2>3, <2>4 DEF CreatedInv
  <2>9. CreatedInv'
    BY <1>0, <2>5, <2>7, <2>8 DEF CreatedInv
  <2>10. RawInv'
    <3>. SUFFICES ASSUME stops = 0, NEW i \in 1..Len(ioQueue'), ioQueue'[i].fn \in Raw, ioQueue'[i].fresh
         PROVE  \/ connections_[ioQueue'[i].c] = "present"
                \/ \E j \in 1..Len(ioQueue') : i < j /\ ioQueue'[j].c = ioQueue'[i].c /\ ioQueue'[j].fn = "connectDestroyed"
      BY <2>5 DEF RawInv
    <3>1. CASE i \in 1..Len(ioQueue) /\ ioQueue'[i] = ioQueue[i]
      BY <1>0, <2>4, <3>1 DEF RawInv
    <3>2. CASE ioQueue'[i] = x
      BY <1>0, <2>3, <3>2 DEF PresentInv
    <3>. QED  BY <2>4, <3>1, <3>2
  <2>11. FirstInv' /\ PresentInv'
    BY <1>0, <2>5 DEF FirstInv, PresentInv
  <2>12. NullInv'
    BY <1>0, <2>5 DEF NullInv
  <2>13. NullOnlyAfterRestart'
    <3>1. ub' = ub \/ ub' = ub \cup {"dead loop"}
      BY <1>3, Zenon DEF UserQueue
    <3>. QED  BY <1>0, <2>5, <3>1, DeadLoopEffect, Zenon
  <2>14. MappedInv'
    BY <1>0, <2>5 DEF MappedInv
  <2>15. PhaseInv'
    <3>1. iopc = "exited" => ioQueue' = ioQueue
      BY <1>3, Zenon DEF UserQueue, LoopAlive
    <3>. QED  BY <1>0, <2>5, <3>1 DEF PhaseInv
  <2>. QED  BY <2>6, <2>9, <2>10, <2>11, <2>12, <2>13, <2>14, <2>15 DEF GInv
<1>. QED  BY <1>u, <1>1, <1>2, <1>3

LEMMA GNewConnection ==
    ASSUME GInv, TypeOK', UserType', NEW c \in Conns, NEW f \in Fds, NewConnection(c, f)
    PROVE  GInv'
<1>0. TypeOK /\ UserType /\ LoopInv /\ CreatedInv /\ FirstInv /\ PresentInv /\ RawInv /\ NullInv /\ NullOnlyAfterRestart
      /\ MappedInv /\ PhaseInv
  BY DEF GInv
<1>1. /\ state_[c] = "none"
      /\ state_' = [state_ EXCEPT ![c] = "kConnecting"]
      /\ loop_' = [loop_ EXCEPT ![c] = generation]
      /\ connections_' = [connections_ EXCEPT ![c] = "present"]
      /\ UNCHANGED <<current, baseQueue, upc, generation, iopc, batch, ioQuit>>
      /\ UNCHANGED <<started_, bpc, toStop, stops>>
  BY DEF NewConnection, loopVars, userVars, baseVars
<1>2. PICK x \in Functor : /\ x.fn = "connectEstablished" /\ x.c = c
                           /\ ioQueue' = ioQueue \/ ioQueue' = Append(ioQueue, x)
  <2>1. ioQueue' = ioQueue \/ ioQueue' = Append(ioQueue, Bind("connectEstablished", c))
    BY Zenon DEF NewConnection
  <2>. QED  BY <2>1, BindEffect DEF Functions
<1>3. /\ Len(ioQueue) \in Nat /\ Len(ioQueue') \in Nat /\ Len(ioQueue) <= Len(ioQueue')
      /\ \A i \in 1..Len(ioQueue) : i \in 1..Len(ioQueue') /\ ioQueue'[i] = ioQueue[i]
      /\ \A i \in 1..Len(ioQueue') : (i \in 1..Len(ioQueue) /\ ioQueue'[i] = ioQueue[i]) \/ ioQueue'[i] = x
  BY <1>0, <1>2, QueueTyped, GrowEffect
<1>4. /\ state_'[c] = "kConnecting" /\ loop_'[c] = generation /\ connections_'[c] = "present"
      /\ \A d \in Conns \ {c} : state_'[d] = state_[d] /\ loop_'[d] = loop_[d] /\ connections_'[d] = connections_[d]
  BY <1>0, <1>1 DEF TypeOK, ConnTypeOK
<1>5. LoopInv'
  <2>1. batch' = batch /\ batch \in Nat /\ batch <= Len(ioQueue)
    BY <1>0, <1>1, QueueTyped DEF LoopInv
  <2>2. batch' <= Len(ioQueue')
    BY <1>3, <2>1
  <2>. QED  BY <1>0, <1>1, <2>2 DEF LoopInv
<1>6. CreatedInv'
  <2>1. current # None => state_'[current] # "none"
    BY <1>0, <1>4 DEF CreatedInv, TypeOK, ConnTypeOK
  <2>2. \A i \in 1..Len(ioQueue') : state_'[ioQueue'[i].c] # "none"
    <3>. SUFFICES ASSUME NEW i \in 1..Len(ioQueue')  PROVE  state_'[ioQueue'[i].c] # "none"
      OBVIOUS
    <3>1. CASE i \in 1..Len(ioQueue) /\ ioQueue'[i] = ioQueue[i]
      BY <1>0, <1>4, <3>1, QueueTyped DEF CreatedInv
    <3>2. CASE ioQueue'[i] = x
      BY <1>2, <1>4, <3>2
    <3>. QED  BY <1>3, <3>1, <3>2
  <2>3. \A u \in Users : upc[u] # Idle => upc[u].c \in Conns
    BY <1>0 DEF UserType, UserCall
  <2>4. \A u \in Users : upc[u] # Idle => state_'[upc[u].c] # "none"
    BY <1>0, <1>4, <2>3 DEF CreatedInv
  <2>5. \A i \in 1..Len(baseQueue) : baseQueue[i] \in Conns
    BY <1>0, ElementOfSeq DEF TypeOK, ConnTypeOK
  <2>6. \A i \in 1..Len(baseQueue) : state_'[baseQueue[i]] \in {"kDisconnected", "kDisconnecting"}
    BY <1>0, <1>1, <1>4, <2>5 DEF CreatedInv
  <2>. QED  BY <1>1, <2>1, <2>2, <2>4, <2>6 DEF CreatedInv
<1>7. FirstInv'
  BY <1>0, <1>1, <1>4 DEF FirstInv
<1>8. PresentInv' /\ NullInv'
  BY <1>0, <1>1, <1>4 DEF PresentInv, NullInv, TypeOK
<1>9. RawInv'
  <2>. SUFFICES ASSUME stops = 0, NEW i \in 1..Len(ioQueue'), ioQueue'[i].fn \in Raw, ioQueue'[i].fresh,
                       connections_'[ioQueue'[i].c] # "present"
       PROVE  \E j \in 1..Len(ioQueue') : i < j /\ ioQueue'[j].c = ioQueue'[i].c /\ ioQueue'[j].fn = "connectDestroyed"
    BY <1>1 DEF RawInv
  <2>1. i \in 1..Len(ioQueue) /\ ioQueue'[i] = ioQueue[i]
    <3>1. ioQueue'[i] # x
      BY <1>2 DEF Raw
    <3>. QED  BY <1>3, <3>1
  <2>2. connections_[ioQueue[i].c] # "present"
    BY <1>0, <1>4, <2>1, QueueTyped
  <2>. QED  BY <1>0, <1>3, <2>1, <2>2 DEF RawInv
<1>10. NullOnlyAfterRestart'
  <2>1. (ub' = ub \/ ub' = ub \cup {"dead loop"}) /\ generation' = generation
    BY Zenon DEF NewConnection
  <2>. QED  BY <1>0, <2>1, DeadLoopEffect, Zenon
<1>11. MappedInv'
  BY <1>0, <1>1, <1>4, MapTyped DEF MappedInv
<1>12. PhaseInv'
  <2>1. iopc = "exited" => ioQueue' = ioQueue
    BY Zenon DEF NewConnection
  <2>. QED  BY <1>0, <1>1, <2>1 DEF PhaseInv
<1>. QED  BY <1>5, <1>6, <1>7, <1>8, <1>9, <1>10, <1>11, <1>12 DEF GInv

LEMMA GRemove ==
    ASSUME GInv, TypeOK', UserType', RemoveConnectionInLoop
    PROVE  GInv'
<1>0. TypeOK /\ UserType /\ LoopInv /\ CreatedInv /\ FirstInv /\ PresentInv /\ RawInv /\ NullInv /\ NullOnlyAfterRestart
      /\ MappedInv /\ PhaseInv
  BY DEF GInv
<1>1. baseQueue \in Seq(Conns) /\ baseQueue # <<>> /\ baseQueue' = Tail(baseQueue)
  BY <1>0 DEF RemoveConnectionInLoop, TypeOK, ConnTypeOK
<1>2. /\ Len(baseQueue) \in Nat /\ Len(baseQueue) >= 1 /\ Len(baseQueue') = Len(baseQueue) - 1
      /\ Head(baseQueue) = baseQueue[1] /\ Head(baseQueue) \in Conns
      /\ \A i \in 1..Len(baseQueue') : baseQueue'[i] = baseQueue[i + 1] /\ i + 1 \in 1..Len(baseQueue)
  BY <1>1, TailEffect
<1>3. PICK c \in Conns : c = Head(baseQueue)
  BY <1>2
<1>4. state_[c] \in {"kDisconnected", "kDisconnecting"}
  <2>1. c = baseQueue[1] /\ 1 \in 1..Len(baseQueue)
    BY <1>2, <1>3
  <2>. QED  BY <1>0, <2>1 DEF CreatedInv
<1>5. UNCHANGED <<state_, current, iopc, batch, ioQuit, upc, loop_, generation>> /\ UNCHANGED <<started_, bpc, toStop, stops>>
  BY DEF RemoveConnectionInLoop, connVars, loopVars, userVars, baseVars
<1>6. PICK x \in Functor :
         /\ x.fn = "connectDestroyed" /\ x.c = c
         /\ ioQueue' = ioQueue \/ ioQueue' = Append(ioQueue, x)
         /\ connections_' = connections_ \/ connections_' = [connections_ EXCEPT ![c] = "absent"]
         /\ connections_' # connections_ /\ LoopAlive(c) => ioQueue' = Append(ioQueue, x)
  <2>. DEFINE b == Bind("connectDestroyed", c)
  <2>1. b \in Functor /\ b.fn = "connectDestroyed" /\ b.c = c
    BY BindEffect DEF Functions
  <2>2. ioQueue' = ioQueue \/ ioQueue' = Append(ioQueue, b)
    BY <1>3, Zenon DEF RemoveConnectionInLoop
  <2>3. connections_' = connections_ \/ connections_' = [connections_ EXCEPT ![c] = "absent"]
    BY <1>3, Zenon DEF RemoveConnectionInLoop
  <2>4. connections_' # connections_ /\ LoopAlive(c) => ioQueue' = Append(ioQueue, b)
    BY <1>3, Zenon DEF RemoveConnectionInLoop
  <2>. HIDE DEF b
  <2>. QED  BY <2>1, <2>2, <2>3, <2>4
<1>7. /\ Len(ioQueue) \in Nat /\ Len(ioQueue') \in Nat /\ Len(ioQueue) <= Len(ioQueue')
      /\ \A i \in 1..Len(ioQueue) : i \in 1..Len(ioQueue') /\ ioQueue'[i] = ioQueue[i]
      /\ \A i \in 1..Len(ioQueue') : (i \in 1..Len(ioQueue) /\ ioQueue'[i] = ioQueue[i]) \/ ioQueue'[i] = x
      /\ ioQueue' = Append(ioQueue, x) => /\ Len(ioQueue) < Len(ioQueue') /\ Len(ioQueue') \in 1..Len(ioQueue')
                                         /\ ioQueue'[Len(ioQueue')] = x
  BY <1>0, <1>6, QueueTyped, GrowEffect
<1>8. /\ \A d \in Conns \ {c} : connections_'[d] = connections_[d]
      /\ connections_'[c] = connections_[c] \/ connections_'[c] = "absent"
  BY <1>0, <1>6, MapTyped
<1>9. LoopInv'
  <2>1. batch' = batch /\ batch \in Nat /\ batch <= Len(ioQueue)
    BY <1>0, <1>5, QueueTyped DEF LoopInv
  <2>2. batch' <= Len(ioQueue')
    BY <1>7, <2>1
  <2>. QED  BY <1>0, <1>5, <2>2 DEF LoopInv
<1>10. CreatedInv'
  <2>1. \A i \in 1..Len(ioQueue') : state_[ioQueue'[i].c] # "none"
    BY <1>0, <1>4, <1>6, <1>7 DEF CreatedInv
  <2>2. \A i \in 1..Len(baseQueue') : state_[baseQueue'[i]] \in {"kDisconnected", "kDisconnecting"}
    BY <1>0, <1>2 DEF CreatedInv
  <2>. QED  BY <1>0, <1>5, <2>1, <2>2 DEF CreatedInv
<1>11. FirstInv' /\ PresentInv'
  BY <1>0, <1>4, <1>5, <1>8 DEF FirstInv, PresentInv
<1>12. RawInv'
  <2>. SUFFICES ASSUME stops = 0, NEW i \in 1..Len(ioQueue'), ioQueue'[i].fn \in Raw, ioQueue'[i].fresh,
                       connections_'[ioQueue'[i].c] # "present"
       PROVE  \E j \in 1..Len(ioQueue') : i < j /\ ioQueue'[j].c = ioQueue'[i].c /\ ioQueue'[j].fn = "connectDestroyed"
    BY <1>5 DEF RawInv
  <2>1. i \in 1..Len(ioQueue) /\ ioQueue'[i] = ioQueue[i]
    <3>1. ioQueue'[i] # x
      BY <1>6 DEF Raw
    <3>. QED  BY <1>7, <3>1
  <2>2. CASE connections_[ioQueue[i].c] # "present"
    BY <1>0, <1>7, <2>1, <2>2 DEF RawInv
  <2>3. CASE connections_[ioQueue[i].c] = "present"
    <3>1. ioQueue[i].c = c /\ connections_' # connections_
      BY <1>0, <1>8, <2>1, <2>3, QueueTyped
    <3>2. LoopAlive(c)
      BY <1>0 DEF FirstInv, LoopAlive
    <3>3. ioQueue' = Append(ioQueue, x)
      BY <1>6, <3>1, <3>2
    <3>. QED  BY <1>6, <1>7, <2>1, <3>1, <3>3
  <2>. QED  BY <2>2, <2>3
<1>13. NullInv'
  BY <1>0, <1>5, <1>8 DEF NullInv, TypeOK
<1>14. NullOnlyAfterRestart'
  <2>1. (ub' = ub \/ ub' = ub \cup {"dead loop"}) /\ generation' = generation
    BY Zenon DEF RemoveConnectionInLoop
  <2>. QED  BY <1>0, <2>1, DeadLoopEffect, Zenon
<1>15. MappedInv'
  BY <1>0, <1>4, <1>5, <1>8 DEF MappedInv
<1>16. PhaseInv'
  <2>1. iopc = "exited" => ioQueue' = ioQueue
    BY Zenon DEF RemoveConnectionInLoop, LoopAlive
  <2>. QED  BY <1>0, <1>5, <2>1 DEF PhaseInv
<1>. QED  BY <1>9, <1>10, <1>11, <1>12, <1>13, <1>14, <1>15, <1>16 DEF GInv

LEMMA GStopConnection ==
    ASSUME GInv, TypeOK', UserType', NEW c \in Conns, StopConnection(c)
    PROVE  GInv'
<1>0. TypeOK /\ UserType /\ LoopInv /\ CreatedInv /\ FirstInv /\ PresentInv /\ RawInv /\ NullInv /\ NullOnlyAfterRestart
      /\ MappedInv /\ PhaseInv
  BY DEF GInv
<1>1. /\ bpc = "stopping" /\ c \in toStop /\ toStop' = toStop \ {c}
      /\ UNCHANGED <<state_, current, iopc, batch, ioQuit, baseQueue, upc, loop_, generation, started_, bpc, stops>>
  BY DEF StopConnection, connVars, loopVars, userVars
<1>2. stops # 0 /\ stops' # 0 /\ bpc' = "stopping"
  BY <1>0, <1>1 DEF FirstInv
<1>3. PICK x \in Functor : x.c = c /\ (ioQueue' = ioQueue \/ ioQueue' = Append(ioQueue, x))
  <2>1. ioQueue' = ioQueue \/ ioQueue' = Append(ioQueue, Bind("connectDestroyed", c))
    BY Zenon DEF StopConnection
  <2>. QED  BY <2>1, BindEffect DEF Functions
<1>4. /\ Len(ioQueue) \in Nat /\ Len(ioQueue') \in Nat /\ Len(ioQueue) <= Len(ioQueue')
      /\ \A i \in 1..Len(ioQueue') : (i \in 1..Len(ioQueue) /\ ioQueue'[i] = ioQueue[i]) \/ ioQueue'[i] = x
  BY <1>0, <1>3, QueueTyped, GrowEffect
<1>5. LoopInv'
  <2>1. batch' = batch /\ batch \in Nat /\ batch <= Len(ioQueue)
    BY <1>0, <1>1, QueueTyped DEF LoopInv
  <2>2. batch' <= Len(ioQueue')
    BY <1>4, <2>1
  <2>. QED  BY <1>0, <1>1, <2>2 DEF LoopInv
<1>6. FirstInv' /\ PresentInv' /\ RawInv'
  BY <1>2 DEF FirstInv, PresentInv, RawInv
<1>9. state_[c] # "none"
  BY <1>0, <1>1 DEF MappedInv
<1>10. CreatedInv'
  <2>1. \A i \in 1..Len(ioQueue') : state_[ioQueue'[i].c] # "none"
    BY <1>0, <1>3, <1>4, <1>9 DEF CreatedInv
  <2>. QED  BY <1>0, <1>1, <2>1 DEF CreatedInv
<1>11. PhaseInv'
  <2>1. iopc = "exited" => ioQueue' = ioQueue
    BY Zenon DEF StopConnection, LoopAlive
  <2>. QED  BY <1>0, <1>1, <2>1 DEF PhaseInv
<1>7. CASE connections_[c] = "null"
  <2>1. UNCHANGED <<connections_, ioQueue>>
    BY <1>7, Zenon DEF StopConnection
  <2>2. MappedInv'
    BY <1>0, <1>1, <2>1 DEF MappedInv
  <2>3. generation # 0
    BY <1>0, <1>1, <1>7 DEF NullInv
  <2>4. generation' > 0 /\ generation' # 0
    BY <1>0, <1>1, <2>3, MapTyped
  <2>5. NullInv' /\ NullOnlyAfterRestart'
    BY <2>4, Zenon DEF NullInv, NullOnlyAfterRestart
  <2>. QED  BY <1>5, <1>6, <1>10, <1>11, <2>2, <2>5 DEF GInv
<1>8. CASE connections_[c] # "null"
  <2>1. connections_' = [connections_ EXCEPT ![c] = "null"]
    BY <1>8, Zenon DEF StopConnection
  <2>2. \A d \in Conns \ {c} : connections_'[d] = connections_[d]
    BY <1>0, <2>1, MapTyped
  <2>3. \A d \in toStop' : d \in toStop /\ d \in Conns \ {c}
    BY <1>0, <1>1, MapTyped
  <2>4. NullInv'
    BY <1>0, <1>1, <1>2, <2>2, <2>3 DEF NullInv
  <2>5. ub' = ub \/ ub' = ub \cup {"dead loop"}
    BY <1>8, Zenon DEF StopConnection
  <2>6. NullOnlyAfterRestart'
    BY <1>0, <1>1, <2>5, DeadLoopEffect, Zenon
  <2>7. MappedInv'
    BY <1>0, <1>1, <1>9, <2>2, <2>3 DEF MappedInv
  <2>. QED  BY <1>5, <1>6, <1>10, <1>11, <2>4, <2>6, <2>7 DEF GInv
<1>. QED  BY <1>7, <1>8

LEMMA GPhases ==
    ASSUME GInv, TypeOK', UserType', Stop \/ StopPool \/ StopJoined \/ Start
    PROVE  GInv'
<1>0. TypeOK /\ UserType /\ LoopInv /\ CreatedInv /\ FirstInv /\ PresentInv /\ RawInv /\ NullInv /\ NullOnlyAfterRestart
      /\ MappedInv /\ PhaseInv
  BY DEF GInv
<1>. USE DEF connVars, userVars
<1>1. CASE Stop
  <2>1. /\ bpc = "loop" /\ started_ /\ bpc' = "stopping" /\ started_' = started_ /\ stops' = stops + 1
        /\ toStop' = {c \in Conns : connections_[c] # "absent"}
        /\ UNCHANGED <<state_, current, iopc, ioQuit, batch, ioQueue, baseQueue, upc, generation, connections_>>
    BY <1>1 DEF Stop, loopVars, serverVars
  <2>2. stops' # 0
    BY <1>0, <2>1, MapTyped
  <2>3. LoopInv' /\ CreatedInv' /\ FirstInv' /\ PresentInv' /\ RawInv'
    BY <1>0, <2>1, <2>2 DEF LoopInv, CreatedInv, FirstInv, PresentInv, RawInv
  <2>4. NullInv'
    BY <1>0, <2>1 DEF NullInv
  <2>5. NullOnlyAfterRestart'
    BY <1>0, <1>1, Zenon DEF Stop, serverVars, NullOnlyAfterRestart
  <2>6. MappedInv' /\ PhaseInv'
    BY <1>0, <2>1 DEF MappedInv, PhaseInv
  <2>. QED  BY <2>3, <2>4, <2>5, <2>6 DEF GInv
<1>2. CASE StopPool
  <2>1. /\ bpc = "stopping" /\ bpc' = "joining"
        /\ UNCHANGED <<state_, current, iopc, batch, ioQueue, baseQueue, upc, generation, connections_, started_, toStop, stops>>
    BY <1>2 DEF StopPool, serverVars
  <2>2. stops' # 0
    BY <1>0, <2>1 DEF FirstInv
  <2>3. LoopInv' /\ CreatedInv' /\ FirstInv' /\ PresentInv' /\ RawInv'
    BY <1>0, <2>1, <2>2 DEF LoopInv, CreatedInv, FirstInv, PresentInv, RawInv
  <2>4. NullInv'
    BY <1>0, <2>1 DEF NullInv
  <2>5. NullOnlyAfterRestart'
    BY <1>0, <1>2, Zenon DEF StopPool, serverVars, NullOnlyAfterRestart
  <2>6. MappedInv' /\ PhaseInv'
    BY <1>0, <2>1 DEF MappedInv, PhaseInv
  <2>. QED  BY <2>3, <2>4, <2>5, <2>6 DEF GInv
<1>3. CASE StopJoined
  <2>1. /\ bpc = "joining" /\ bpc' = "loop" /\ started_' = FALSE /\ iopc = "exited"
        /\ UNCHANGED <<state_, current, iopc, batch, ioQueue, baseQueue, upc, generation, connections_, toStop, stops>>
    BY <1>3 DEF StopJoined, loopVars, serverVars
  <2>2. stops' # 0
    BY <1>0, <2>1 DEF FirstInv
  <2>3. LoopInv' /\ CreatedInv' /\ FirstInv' /\ PresentInv' /\ RawInv'
    BY <1>0, <2>1, <2>2 DEF LoopInv, CreatedInv, FirstInv, PresentInv, RawInv
  <2>4. NullInv'
    BY <1>0, <2>1 DEF NullInv
  <2>5. NullOnlyAfterRestart'
    BY <1>0, <1>3, Zenon DEF StopJoined, serverVars, NullOnlyAfterRestart
  <2>6. MappedInv' /\ PhaseInv'
    BY <1>0, <2>1 DEF MappedInv, PhaseInv
  <2>. QED  BY <2>3, <2>4, <2>5, <2>6 DEF GInv
<1>4. CASE Start
  <2>1. /\ bpc = "loop" /\ ~started_ /\ started_' = TRUE /\ iopc' = "poll" /\ ioQuit' = FALSE
        /\ generation' = generation + 1
        /\ UNCHANGED <<state_, current, batch, ioQueue, baseQueue, upc, connections_, toStop, stops, bpc>>
    BY <1>4 DEF Start
  <2>2. stops' # 0
    BY <1>0, <2>1 DEF FirstInv
  <2>3. generation' > 0 /\ generation' # 0
    BY <1>0, <2>1, MapTyped
  <2>4. NullInv' /\ NullOnlyAfterRestart'
    BY <2>3, Zenon DEF NullInv, NullOnlyAfterRestart
  <2>5. CreatedInv' /\ FirstInv' /\ PresentInv' /\ RawInv'
    BY <1>0, <2>1, <2>2 DEF CreatedInv, FirstInv, PresentInv, RawInv
  <2>6. LoopInv'
    BY <1>0, <2>1 DEF LoopInv, PhaseInv
  <2>7. MappedInv' /\ PhaseInv'
    BY <1>0, <2>1 DEF MappedInv, PhaseInv
  <2>. QED  BY <2>4, <2>5, <2>6, <2>7 DEF GInv
<1>. QED  BY <1>1, <1>2, <1>3, <1>4

LEMMA GStep ==
    ASSUME GInv, [Next]_vars
    PROVE  GInv'
<1>1. TypeOK' /\ UserType'
  BY TypeStep DEF GInv
<1>2. CASE UNCHANGED vars
  <2>1. /\ UNCHANGED <<state_, current, iopc, ioQuit, batch, ioQueue, baseQueue, upc, generation, loop_, connections_>>
        /\ UNCHANGED <<started_, bpc, toStop, stops>>
    BY <1>2 DEF vars, connVars, loopVars, userVars, serverVars, baseVars
  <2>2. ub' = ub
    BY <1>2 DEF vars
  <2>3. LoopInv' /\ CreatedInv' /\ FirstInv' /\ PresentInv' /\ RawInv'
    BY <2>1 DEF GInv, LoopInv, CreatedInv, FirstInv, PresentInv, RawInv
  <2>4. NullInv' /\ MappedInv' /\ PhaseInv'
    BY <2>1 DEF GInv, NullInv, MappedInv, PhaseInv
  <2>5. NullOnlyAfterRestart'
    BY <2>1, <2>2, DeadLoopEffect, Zenon DEF GInv
  <2>. QED  BY <1>1, <2>3, <2>4, <2>5 DEF GInv
<1>3. CASE IoNext /\ UNCHANGED baseVars
  BY <1>1, <1>3, GCallback, GFunctor, GLoop DEF IoNext
<1>4. CASE UserNext /\ UNCHANGED baseVars
  BY <1>1, <1>4, GUser
<1>5. CASE BaseNext
  BY <1>1, <1>5, GNewConnection, GRemove, GStopConnection, GPhases DEF BaseNext
<1>. QED  BY <1>2, <1>3, <1>4, <1>5 DEF Next

LEMMA GSafe == SafeSpec => []GInv
<1>1. Init => GInv
  BY GInit
<1>2. GInv /\ [Next]_vars => GInv'
  BY GStep
<1>. QED  BY <1>1, <1>2, PTL DEF SafeSpec

\* TcpServer::stop() dereferences every pointer of connections_ and leaves
\* null ones behind; no first stop() meets one.
THEOREM FirstStopIsClean == SafeSpec => []NullOnlyAfterRestart
<1>1. GInv => NullOnlyAfterRestart
  BY DEF GInv
<1>. QED  BY <1>1, GSafe, PTL

\* Until stop(), a functor that TcpConnection::send or shutdown bound to a raw
\* this while the connection was kConnected finds it alive, whatever other
\* threads call: removeConnectionInLoop queues connectDestroyed behind it.
THEOREM RawThisIsSafe == SafeSpec => []RawFunctorsSafe
<1>1. ASSUME GInv PROVE RawFunctorsSafe
  <2>. SUFFICES ASSUME stops = 0, NEW i \in 1..Len(ioQueue), ioQueue[i].fn \in Raw, ioQueue[i].fresh
       PROVE  Alive(ioQueue[i].c)
    BY DEF RawFunctorsSafe
  <2>1. state_[ioQueue[i].c] # "none"
    BY <1>1 DEF GInv, CreatedInv
  <2>2. CASE connections_[ioQueue[i].c] = "present"
    BY <2>1, <2>2 DEF Alive
  <2>3. ASSUME NEW j \in 1..Len(ioQueue), ioQueue[j].c = ioQueue[i].c, ioQueue[j].fn = "connectDestroyed"
        PROVE  Alive(ioQueue[i].c)
    <3>1. ioQueue[j].fn \notin Raw
      BY <2>3 DEF Raw
    <3>2. InUse(ioQueue, ioQueue[i].c)
      BY <2>3, <3>1 DEF InUse
    <3>. QED  BY <2>1, <3>2 DEF Alive
  <2>. QED  BY <1>1, <2>2, <2>3 DEF GInv, RawInv
<1>. QED  BY <1>1, GSafe, PTL

-----------------------------------------------------------------------------
(* The invariant when user threads only send *)

\* A move of a handler that runs when it may run.
Handles(c) ==
    /\ state_[c] # "none"
    /\ \/ Stays \/ Closes(c) \/ GoesDown(c) \/ Establishes(c) \/ Destroys(c)
       \/ Begun(c) /\ (Buffers(c) \/ Drains(c))

LEMMA HandledStates ==
    ASSUME TypeOK, NEW c \in Conns, Handles(c)
    PROVE  /\ \A d \in Conns : Begun(d) => state_'[d] \in Up \cup {"kDisconnected"}
           /\ \A d \in Conns : state_[d] = "kDisconnected" => state_'[d] = "kDisconnected"
           /\ \A d \in Conns : state_'[d] \in Up \cup {"kConnecting"} => state_[d] \in Up \cup {"kConnecting"}
<1>0. state_ \in [Conns -> States]
  BY DEF TypeOK, ConnTypeOK
<1>1. \/ state_' = state_
      \/ state_' = [state_ EXCEPT ![c] = "kDisconnected"]
      \/ state_' = [state_ EXCEPT ![c] = "kDisconnecting"] /\ state_[c] \in Up
      \/ state_' = [state_ EXCEPT ![c] = "kConnected"] /\ state_[c] = "kConnecting"
  BY DEF Handles, Stays, Closes, Buffers, Drains, GoesDown, Establishes, Destroys
<1>2. /\ \A d \in Conns \ {c} : state_'[d] = state_[d]
      /\ \/ state_'[c] = state_[c] \/ state_'[c] = "kDisconnected"
         \/ state_'[c] = "kDisconnecting" /\ state_[c] \in Up
         \/ state_'[c] = "kConnected" /\ state_[c] = "kConnecting"
  BY <1>0, <1>1
<1>. QED  BY <1>2 DEF Up, Begun

LEMMA HandledStateInv ==
    ASSUME TypeOK, StateInv, NEW c \in Conns, Handles(c), fd_' = fd_
    PROVE  StateInv'
<1>0. /\ state_ \in [Conns -> States] /\ outputBuffer_ \in [Conns -> BOOLEAN]
      /\ events_ \in [Conns -> SUBSET {"R", "W"}] /\ closes \in [Conns -> Nat]
  BY Zenon, TypeParts DEF HandledType
<1>. DEFINE Good(st, ev, buf, cl) ==
              /\ st \notin Up \cup {"kDisconnected"} => ev = {} /\ ~buf
              /\ st \in Up => (("W" \in ev) <=> buf)
              /\ st = "kDisconnected" => ev = {}
              /\ st # "kDisconnected" => cl = 0
              /\ cl <= 1
<1>1. \A d \in Conns : Good(state_[d], events_[d], outputBuffer_[d], closes[d])
  BY DEF StateInv, Begun
<1>2. (\A d \in Conns : Good(state_'[d], events_'[d], outputBuffer_'[d], closes'[d])
                       /\ (state_'[d] # "none" => fd_[d] \in Fds)) => StateInv'
  BY DEF StateInv, Begun
<1>3. \A d \in Conns \ {c} : /\ state_'[d] = state_[d] /\ events_'[d] = events_[d]
                             /\ outputBuffer_'[d] = outputBuffer_[d] /\ closes'[d] = closes[d]
  BY <1>0 DEF Handles, Stays, Closes, Buffers, Drains, GoesDown, Establishes, Destroys
<1>4. Good(state_'[c], events_'[c], outputBuffer_'[c], closes'[c])
  <2>1. CASE Stays
    BY <1>1, <2>1 DEF Stays
  <2>2. CASE Closes(c)
    <3>1. /\ state_[c] # "kDisconnected" /\ state_'[c] = "kDisconnected" /\ closes'[c] = closes[c] + 1
          /\ events_'[c] = {} \/ (state_[c] = "kConnecting" /\ events_'[c] = events_[c])
      BY <1>0, <2>2 DEF Closes
    <3>2. events_'[c] = {}
      BY <1>1, <3>1 DEF Up
    <3>3. closes'[c] = 1
      BY <1>1, <3>1
    <3>. QED  BY <3>1, <3>2, <3>3 DEF Up
  <2>3. CASE Begun(c) /\ Buffers(c)
    <3>1. /\ state_'[c] = state_[c] /\ state_[c] \in Up /\ closes'[c] = closes[c]
          /\ outputBuffer_'[c] = TRUE /\ "W" \in events_'[c]
      BY <1>0, <2>3 DEF Buffers, Begun
    <3>. QED  BY <1>1, <3>1 DEF Up
  <2>4. CASE Begun(c) /\ Drains(c)
    <3>1. /\ state_'[c] = state_[c] /\ state_[c] \in Up /\ closes'[c] = closes[c]
          /\ outputBuffer_'[c] = FALSE /\ "W" \notin events_'[c]
      BY <1>0, <1>1, <2>4 DEF Drains, Begun
    <3>. QED  BY <1>1, <3>1 DEF Up
  <2>5. CASE GoesDown(c)
    <3>1. /\ state_'[c] = "kDisconnecting" /\ state_[c] \in Up /\ closes'[c] = closes[c]
          /\ outputBuffer_'[c] = outputBuffer_[c] /\ events_'[c] = events_[c]
      BY <1>0, <2>5 DEF GoesDown
    <3>. QED  BY <1>1, <3>1 DEF Up
  <2>6. CASE Establishes(c)
    <3>1. /\ state_'[c] = "kConnected" /\ state_[c] = "kConnecting" /\ closes'[c] = closes[c]
          /\ outputBuffer_'[c] = outputBuffer_[c] /\ events_'[c] = events_[c] \cup {"R"}
      BY <1>0, <2>6 DEF Establishes
    <3>2. events_[c] = {} /\ ~outputBuffer_[c] /\ closes[c] = 0
      BY <1>1, <3>1 DEF Up
    <3>. QED  BY <3>1, <3>2 DEF Up
  <2>7. CASE Destroys(c)
    <3>1. /\ closes'[c] = closes[c] /\ outputBuffer_'[c] = outputBuffer_[c]
          /\ \/ state_'[c] = state_[c] /\ events_'[c] = events_[c]
             \/ state_'[c] = "kDisconnected" /\ events_'[c] = {}
      BY <1>0, <2>7 DEF Destroys
    <3>. QED  BY <1>1, <3>1 DEF Up
  <2>. QED  BY <2>1, <2>2, <2>3, <2>4, <2>5, <2>6, <2>7 DEF Handles
<1>5. \A d \in Conns : state_'[d] # "none" => fd_[d] \in Fds
  BY <1>3 DEF StateInv, Handles
<1>. HIDE DEF Good
<1>6. \A d \in Conns : Good(state_'[d], events_'[d], outputBuffer_'[d], closes'[d])
  BY <1>1, <1>3, <1>4
<1>. QED  BY <1>2, <1>5, <1>6

LEMMA HandledBaseQueue ==
    ASSUME TypeOK, BegunInv, NEW c \in Conns, Handles(c)
    PROVE  \A i \in 1..Len(baseQueue') : state_'[baseQueue'[i]] = "kDisconnected"
<1>1. baseQueue \in Seq(Conns) /\ state_ \in [Conns -> States]
  BY Zenon, TypeParts DEF HandledType
<1>2. baseQueue' = baseQueue \/ baseQueue' = Append(baseQueue, c)
  BY DEF Handles, Stays, Closes, Buffers, Drains, GoesDown, Establishes, Destroys
<1>3. baseQueue' # baseQueue => state_'[c] = "kDisconnected"
  BY <1>1 DEF Handles, Stays, Closes, Buffers, Drains, GoesDown, Establishes, Destroys
<1>. SUFFICES ASSUME NEW i \in 1..Len(baseQueue')  PROVE  state_'[baseQueue'[i]] = "kDisconnected"
  OBVIOUS
<1>4. (i \in 1..Len(baseQueue) /\ baseQueue'[i] = baseQueue[i]) \/ (baseQueue'[i] = c /\ baseQueue' # baseQueue)
  BY <1>1, <1>2, GrowEffect
<1>5. CASE i \in 1..Len(baseQueue) /\ baseQueue'[i] = baseQueue[i]
  <2>1. baseQueue[i] \in Conns
    BY <1>1, <1>5, ElementOfSeq
  <2>. QED  BY <1>5, <2>1, HandledStates DEF BegunInv
<1>6. CASE baseQueue'[i] = c /\ baseQueue' # baseQueue
  BY <1>3, <1>6
<1>. QED  BY <1>4, <1>5, <1>6

\* What a move maps is its own connection, which was not closed.
LEMMA HandledMapping ==
    ASSUME TypeOK, StateInv, NEW c \in Conns, Handles(c), NEW f \in Fds, channels_'[f] # None
    PROVE  \/ channels_'[f] = channels_[f]
           \/ f = fd_[c] /\ channels_'[f] = c /\ index_'[c] # "kNew" /\ state_[c] \in Up \cup {"kConnecting"}
<1>1. state_ \in [Conns -> States] /\ fd_[c] \in Fds
  BY Zenon, TypeParts DEF HandledType, StateInv, Handles
<1>2. CASE Stays \/ GoesDown(c)
  BY <1>2 DEF Stays, GoesDown
<1>3. CASE Closes(c)
  BY <1>1, <1>3 DEF Closes, Registers, Handles, Up, States
<1>4. CASE Begun(c) /\ Buffers(c)
  BY <1>4 DEF Buffers, Registers, Begun, Up
<1>5. CASE Begun(c) /\ Drains(c)
  <2>1. state_[c] \in Up
    BY <1>5 DEF Drains, StateInv, Begun
  <2>. QED  BY <1>5, <2>1 DEF Drains, Registers
<1>6. CASE Establishes(c)
  BY <1>6 DEF Establishes, Registers
<1>7. CASE Destroys(c)
  BY <1>1, <1>7 DEF Destroys, Unregisters
<1>. QED  BY <1>2, <1>3, <1>4, <1>5, <1>6, <1>7 DEF Handles

LEMMA HandledChannels ==
    ASSUME TypeOK, TypeOK', StateInv, ChannelInv, NEW c \in Conns, Handles(c), loop_[c] = generation, iopc # "exited",
           UNCHANGED <<fd_, loop_, generation, iopc>>
    PROVE  ChannelInv'
<1>1. /\ state_ \in [Conns -> States] /\ fd_[c] \in Fds /\ c # None
      /\ channels_ \in [Fds -> Conns \cup {None}] /\ state_' \in [Conns -> States]
  <2>1. HandledType /\ HandledType'
    BY TypeParts
  <2>. QED  BY <2>1, NoneAssumption DEF HandledType, StateInv, Handles
<1>. SUFFICES ASSUME NEW f \in Fds, channels_'[f] # None
     PROVE  /\ fd_[channels_'[f]] = f /\ index_'[channels_'[f]] # "kNew"
            /\ state_'[channels_'[f]] \in Up \cup {"kDisconnected"}
            /\ loop_[channels_'[f]] = generation
  BY DEF ChannelInv, Begun
<1>2. CASE channels_'[f] = channels_[f]
  <2>1. PICK d \in Conns : d = channels_[f] /\ d = channels_'[f]
    BY <1>1, <1>2
  <2>2. fd_[d] = f /\ index_[d] # "kNew" /\ Begun(d) /\ loop_[d] = generation
    BY <1>2, <2>1 DEF ChannelInv
  <2>3. index_'[d] # "kNew"
    <3>1. CASE Stays \/ GoesDown(c)
      BY <2>2, <3>1 DEF Stays, GoesDown
    <3>2. CASE Closes(c) \/ Buffers(c) \/ Drains(c) \/ Establishes(c)
      BY <2>2, <3>2 DEF Closes, Buffers, Drains, Establishes, Registers
    <3>3. CASE Destroys(c)
      BY <1>1, <2>1, <2>2, <3>3 DEF Destroys, Unregisters
    <3>. QED  BY <3>1, <3>2, <3>3 DEF Handles
  <2>4. state_'[d] \in Up \cup {"kDisconnected"}
    BY <2>2, HandledStates
  <2>. QED  BY <2>1, <2>2, <2>3, <2>4
<1>3. CASE /\ f = fd_[c] /\ channels_'[f] = c /\ index_'[c] # "kNew" /\ channels_'[f] # channels_[f]
           /\ state_[c] \in Up \cup {"kConnecting"}
  <2>1. state_'[c] \in Up \cup {"kDisconnected"}
    <3>1. CASE Begun(c)
      BY <3>1, HandledStates
    <3>2. CASE Closes(c) \/ Establishes(c)
      BY <1>1, <3>2 DEF Closes, Establishes, Up
    <3>3. CASE Stays \/ GoesDown(c)
      BY <1>3, <3>3 DEF Stays, GoesDown
    <3>4. CASE Destroys(c)
      BY <1>1, <1>3, <3>4 DEF Destroys, Unregisters
    <3>. QED  BY <3>1, <3>2, <3>3, <3>4 DEF Handles
  <2>. QED  BY <1>3, <2>1
<1>. QED  BY <1>2, <1>3, HandledMapping

LEMMA SInit ==
    ASSUME Init PROVE SInv
<1>1. Len(ioQueue) = 0 /\ Len(baseQueue) = 0
  BY EmptySeq DEF Init, ConnInit
<1>. USE DEF Init, ConnInit, ChannelInit
<1>2. BegunInv /\ OwnInv
  BY <1>1 DEF BegunInv, OwnInv
<1>3. StateInv
  BY DEF StateInv, Begun, Up
<1>4. ChannelInv /\ StaleInv
  BY DEF ChannelInv, StaleInv
<1>5. MapInv
  BY <1>1 DEF MapInv, Up
<1>. QED  BY <1>2, <1>3, <1>4, <1>5 DEF SInv

LEMMA SCallback ==
    ASSUME GInv, SInv, TypeOK', NEW cb \in Callbacks, IoCallback(cb), UNCHANGED baseVars
    PROVE  SInv'
<1>0. /\ TypeOK /\ UserType /\ LoopInv /\ CreatedInv /\ PhaseInv
      /\ BegunInv /\ StateInv /\ OwnInv /\ ChannelInv /\ MapInv /\ StaleInv
  BY DEF GInv, SInv
<1>1. PICK c \in Conns : CallbackMove(c)
  BY <1>0, CallbackEffect
<1>2. /\ current = c
      /\ UNCHANGED <<fd_, iopc, current, upc, loop_, generation, connections_>>
      /\ UNCHANGED <<started_, bpc, toStop, stops>>
  BY <1>1 DEF CallbackMove, userVars, serverVars, baseVars
<1>3. state_[c] # "none" /\ c # None /\ Begun(c) /\ loop_[c] = generation /\ iopc # "exited"
  BY <1>0, <1>2, NoneAssumption DEF CreatedInv, BegunInv, OwnInv, LoopInv
<1>4. Handles(c)
  BY <1>1, <1>3 DEF CallbackMove, Handles
<1>5. PICK x \in Functor : /\ x.fn = "forceCloseInLoop" /\ x.c = c
                           /\ ioQueue' = ioQueue \/ ioQueue' = Append(ioQueue, x)
  BY <1>1, BindEffect DEF CallbackMove, Functions
<1>6. /\ \A i \in 1..Len(ioQueue) : i \in 1..Len(ioQueue') /\ ioQueue'[i] = ioQueue[i]
      /\ \A i \in 1..Len(ioQueue') : (i \in 1..Len(ioQueue) /\ ioQueue'[i] = ioQueue[i]) \/ ioQueue'[i] = x
  BY <1>0, <1>5, QueueTyped, GrowEffect
<1>7. /\ \A d \in Conns : Begun(d) => state_'[d] \in Up \cup {"kDisconnected"}
      /\ \A d \in Conns : state_[d] = "kDisconnected" => state_'[d] = "kDisconnected"
      /\ \A d \in Conns : state_'[d] \in Up \cup {"kConnecting"} => state_[d] \in Up \cup {"kConnecting"}
  BY <1>0, <1>4, HandledStates
<1>8. StateInv'
  BY <1>0, <1>2, <1>4, HandledStateInv
<1>9. ChannelInv'
  BY <1>0, <1>2, <1>3, <1>4, HandledChannels
<1>10. BegunInv'
  <2>1. \A i \in 1..Len(baseQueue') : state_'[baseQueue'[i]] = "kDisconnected"
    BY <1>0, <1>4, HandledBaseQueue
  <2>2. state_'[c] \in Up \cup {"kDisconnected"}
    BY <1>3, <1>7
  <2>3. ASSUME NEW i \in 1..Len(ioQueue'), ioQueue'[i].fn \in Raw \cup {"forceCloseInLoop"}
        PROVE  state_'[ioQueue'[i].c] \in Up \cup {"kDisconnected"}
    <3>1. CASE i \in 1..Len(ioQueue) /\ ioQueue'[i] = ioQueue[i]
      <4>1. ioQueue[i].c \in Conns /\ Begun(ioQueue[i].c)
        BY <1>0, <2>3, <3>1, QueueTyped DEF BegunInv
      <4>. QED  BY <1>7, <3>1, <4>1
    <3>2. CASE ioQueue'[i] = x
      BY <1>5, <2>2, <3>2
    <3>. QED  BY <1>6, <3>1, <3>2
  <2>4. ASSUME NEW u \in Users, upc[u] # Idle  PROVE  state_'[upc[u].c] \in Up \cup {"kDisconnected"}
    <3>1. upc[u].c \in Conns
      BY <1>0, <2>4 DEF UserType, UserCall
    <3>2. Begun(upc[u].c)
      BY <1>0, <2>4 DEF BegunInv
    <3>. QED  BY <1>7, <3>1, <3>2
  <2>. QED  BY <1>2, <2>1, <2>2, <2>3, <2>4 DEF BegunInv, Begun
<1>11. OwnInv'
  <2>1. \A i \in 1..Len(ioQueue') : loop_[ioQueue'[i].c] = generation
    BY <1>0, <1>3, <1>5, <1>6 DEF OwnInv
  <2>. QED  BY <1>0, <1>2, <2>1 DEF OwnInv
<1>12. MapInv'
  <2>. SUFFICES ASSUME bpc = "loop"
       PROVE  /\ \A d \in Conns : loop_[d] = generation /\ state_'[d] \in Up \cup {"kConnecting"} => connections_[d] = "present"
              /\ \A i \in 1..Len(ioQueue') : ioQueue'[i].fn = "connectDestroyed" => state_'[ioQueue'[i].c] = "kDisconnected"
    BY <1>2 DEF MapInv
  <2>1. /\ \A d \in Conns : loop_[d] = generation /\ state_[d] \in Up \cup {"kConnecting"} => connections_[d] = "present"
        /\ \A i \in 1..Len(ioQueue) : ioQueue[i].fn = "connectDestroyed" => state_[ioQueue[i].c] = "kDisconnected"
    BY <1>0, <1>3 DEF MapInv
  <2>2. ASSUME NEW i \in 1..Len(ioQueue'), ioQueue'[i].fn = "connectDestroyed"
        PROVE  state_'[ioQueue'[i].c] = "kDisconnected"
    <3>1. i \in 1..Len(ioQueue) /\ ioQueue'[i] = ioQueue[i]
      <4>1. ioQueue'[i] # x
        BY <1>5, <2>2
      <4>. QED  BY <1>6, <4>1
    <3>2. ioQueue[i].c \in Conns /\ state_[ioQueue[i].c] = "kDisconnected"
      BY <1>0, <2>1, <2>2, <3>1, QueueTyped
    <3>. QED  BY <1>7, <3>1, <3>2
  <2>. QED  BY <1>7, <2>1, <2>2
<1>13. StaleInv'
  <2>. SUFFICES ASSUME bpc = "loop", NEW f \in Fds, channels_'[f] # None, connections_[channels_'[f]] # "present"
       PROVE  \E i \in 1..Len(ioQueue') : ioQueue'[i].c = channels_'[f] /\ ioQueue'[i].fn = "connectDestroyed"
    BY <1>2 DEF StaleInv
  <2>1. channels_'[f] = channels_[f]
    <3>1. channels_'[f] # channels_[f] => channels_'[f] = c /\ state_[c] \in Up \cup {"kConnecting"}
      BY <1>0, <1>4, HandledMapping
    <3>2. state_[c] \in Up \cup {"kConnecting"} => connections_[c] = "present"
      BY <1>0, <1>3 DEF MapInv
    <3>. QED  BY <3>1, <3>2
  <2>2. PICK i \in 1..Len(ioQueue) : ioQueue[i].c = channels_[f] /\ ioQueue[i].fn = "connectDestroyed"
    BY <1>0, <2>1 DEF StaleInv
  <2>. QED  BY <1>6, <2>1, <2>2
<1>. QED  BY <1>8, <1>9, <1>10, <1>11, <1>12, <1>13 DEF SInv

LEMMA SFunctor ==
    ASSUME GInv, SInv, TypeOK', IoFunctor, UNCHANGED baseVars
    PROVE  SInv'
<1>0. /\ TypeOK /\ UserType /\ LoopInv /\ CreatedInv /\ PhaseInv
      /\ BegunInv /\ StateInv /\ OwnInv /\ ChannelInv /\ MapInv /\ StaleInv
  BY DEF GInv, SInv
<1>1. PICK f \in Functor : FunctorMove(f)
  BY <1>0, FunctorEffect
<1>. DEFINE c == f.c
<1>2. /\ c \in Conns /\ f.fn \in Functions /\ iopc = "functors"
      /\ UNCHANGED <<fd_, iopc, current, upc, loop_, generation, connections_>>
      /\ UNCHANGED <<started_, bpc, toStop, stops>>
  BY <1>1 DEF FunctorMove, Functor, userVars, serverVars, baseVars
<1>3. ioQueue \in Seq(Functor) /\ ioQueue # <<>> /\ ioQueue' = Tail(ioQueue)
  BY <1>0, <1>1, QueueTyped DEF FunctorMove
<1>4. /\ Len(ioQueue) \in Nat /\ Len(ioQueue) >= 1 /\ Len(ioQueue') = Len(ioQueue) - 1
      /\ Head(ioQueue) = ioQueue[1]
      /\ \A i \in 1..Len(ioQueue') : ioQueue'[i] = ioQueue[i + 1] /\ i + 1 \in 1..Len(ioQueue)
  BY <1>3, TailEffect
<1>5. f = ioQueue[1] /\ 1 \in 1..Len(ioQueue)
  BY <1>1, <1>4 DEF FunctorMove
<1>6. state_[c] # "none" /\ loop_[c] = generation /\ (f.fn \in Raw \cup {"forceCloseInLoop"} => Begun(c))
  BY <1>0, <1>5 DEF CreatedInv, OwnInv, BegunInv
<1>7. Handles(c)
  <2>1. CASE f.fn = "connectEstablished"
    BY <1>1, <1>6, <2>1 DEF FunctorMove, Handles
  <2>2. CASE f.fn = "connectDestroyed"
    BY <1>1, <1>6, <2>2 DEF FunctorMove, Handles
  <2>3. CASE f.fn \in Raw \cup {"forceCloseInLoop"}
    BY <1>1, <1>6, <2>3 DEF FunctorMove, Handles
  <2>. QED  BY <1>2, <2>1, <2>2, <2>3 DEF Functions, Raw
<1>8. /\ \A d \in Conns : Begun(d) => state_'[d] \in Up \cup {"kDisconnected"}
      /\ \A d \in Conns : state_[d] = "kDisconnected" => state_'[d] = "kDisconnected"
      /\ \A d \in Conns : state_'[d] \in Up \cup {"kConnecting"} => state_[d] \in Up \cup {"kConnecting"}
  BY <1>0, <1>2, <1>7, HandledStates
<1>9. StateInv'
  BY <1>0, <1>2, <1>7, HandledStateInv
<1>10. ChannelInv'
  BY <1>0, <1>2, <1>6, <1>7, HandledChannels
<1>11. current' = None
  BY <1>0, <1>2 DEF LoopInv
<1>12. BegunInv'
  <2>1. \A i \in 1..Len(baseQueue') : state_'[baseQueue'[i]] = "kDisconnected"
    BY <1>0, <1>2, <1>7, HandledBaseQueue
  <2>2. ASSUME NEW i \in 1..Len(ioQueue'), ioQueue'[i].fn \in Raw \cup {"forceCloseInLoop"}
        PROVE  state_'[ioQueue'[i].c] \in Up \cup {"kDisconnected"}
    <3>1. ioQueue'[i] = ioQueue[i + 1] /\ i + 1 \in 1..Len(ioQueue)
      BY <1>4
    <3>2. ioQueue[i + 1].c \in Conns /\ Begun(ioQueue[i + 1].c)
      BY <1>0, <2>2, <3>1, QueueTyped DEF BegunInv
    <3>. QED  BY <1>8, <3>1, <3>2
  <2>3. ASSUME NEW u \in Users, upc[u] # Idle  PROVE  state_'[upc[u].c] \in Up \cup {"kDisconnected"}
    <3>1. upc[u].c \in Conns
      BY <1>0, <2>3 DEF UserType, UserCall
    <3>2. Begun(upc[u].c)
      BY <1>0, <2>3 DEF BegunInv
    <3>. QED  BY <1>8, <3>1, <3>2
  <2>. QED  BY <1>2, <1>11, <2>1, <2>2, <2>3 DEF BegunInv, Begun
<1>13. OwnInv'
  <2>1. \A i \in 1..Len(ioQueue') : loop_[ioQueue'[i].c] = generation
    BY <1>0, <1>4 DEF OwnInv
  <2>. QED  BY <1>0, <1>2, <1>11, <2>1 DEF OwnInv
<1>14. MapInv'
  <2>. SUFFICES ASSUME bpc = "loop"
       PROVE  /\ \A d \in Conns : loop_[d] = generation /\ state_'[d] \in Up \cup {"kConnecting"} => connections_[d] = "present"
              /\ \A i \in 1..Len(ioQueue') : ioQueue'[i].fn = "connectDestroyed" => state_'[ioQueue'[i].c] = "kDisconnected"
    BY <1>2 DEF MapInv
  <2>1. /\ \A d \in Conns : loop_[d] = generation /\ state_[d] \in Up \cup {"kConnecting"} => connections_[d] = "present"
        /\ \A i \in 1..Len(ioQueue) : ioQueue[i].fn = "connectDestroyed" => state_[ioQueue[i].c] = "kDisconnected"
    BY <1>0, <1>2 DEF MapInv
  <2>2. ASSUME NEW i \in 1..Len(ioQueue'), ioQueue'[i].fn = "connectDestroyed"
        PROVE  state_'[ioQueue'[i].c] = "kDisconnected"
    <3>1. ioQueue'[i] = ioQueue[i + 1] /\ i + 1 \in 1..Len(ioQueue)
      BY <1>4
    <3>2. ioQueue[i + 1].c \in Conns /\ state_[ioQueue[i + 1].c] = "kDisconnected"
      BY <1>0, <2>1, <2>2, <3>1, QueueTyped
    <3>. QED  BY <1>8, <3>1, <3>2
  <2>. QED  BY <1>8, <2>1, <2>2
<1>15. StaleInv'
  <2>. SUFFICES ASSUME bpc = "loop", NEW g \in Fds, channels_'[g] # None, connections_[channels_'[g]] # "present"
       PROVE  \E i \in 1..Len(ioQueue') : ioQueue'[i].c = channels_'[g] /\ ioQueue'[i].fn = "connectDestroyed"
    BY <1>2 DEF StaleInv
  <2>1. channels_'[g] = channels_[g]
    <3>1. channels_'[g] # channels_[g] => channels_'[g] = c /\ state_[c] \in Up \cup {"kConnecting"}
      BY <1>0, <1>2, <1>7, HandledMapping
    <3>2. state_[c] \in Up \cup {"kConnecting"} => connections_[c] = "present"
      BY <1>0, <1>2, <1>6 DEF MapInv
    <3>. QED  BY <3>1, <3>2
  <2>2. PICK i \in 1..Len(ioQueue) : ioQueue[i].c = channels_[g] /\ ioQueue[i].fn = "connectDestroyed"
    BY <1>0, <2>1 DEF StaleInv
  <2>3. i # 1
    <3>. SUFFICES ASSUME i = 1  PROVE  FALSE
      OBVIOUS
    <3>1. f.fn = "connectDestroyed" /\ channels_[g] = c
      BY <1>5, <2>2
    <3>2. fd_[c] = g /\ index_[c] # "kNew"
      BY <1>0, <2>1, <3>1 DEF ChannelInv
    <3>3. state_[c] = "kDisconnected"
      BY <1>0, <1>2, <2>2, <3>1 DEF MapInv
    <3>4. events_[c] = {}
      BY <1>0, <1>2, <3>3 DEF StateInv
    <3>5. Destroys(c)
      BY <1>1, <3>1 DEF FunctorMove
    <3>6. Unregisters(c) /\ events_'[c] = {}
      BY <3>2, <3>3, <3>4, <3>5 DEF Destroys
    <3>. QED  BY <2>1, <3>1, <3>2, <3>6 DEF Unregisters
  <2>4. i - 1 \in 1..Len(ioQueue') /\ (i - 1) + 1 = i
    BY <1>4, <2>2, <2>3
  <2>5. ioQueue'[i - 1] = ioQueue[i]
    BY <1>4, <2>4
  <2>. QED  BY <2>1, <2>2, <2>4, <2>5
<1>. QED  BY <1>9, <1>10, <1>12, <1>13, <1>14, <1>15 DEF SInv

LEMMA SLoop ==
    ASSUME GInv, SInv, UNCHANGED baseVars,
           (\E c \in Conns : IoPoll(c)) \/ IoSwap \/ IoIterate
    PROVE  SInv'
<1>0. /\ TypeOK /\ UserType /\ LoopInv /\ CreatedInv /\ PhaseInv
      /\ BegunInv /\ StateInv /\ OwnInv /\ ChannelInv /\ MapInv /\ StaleInv
  BY DEF GInv, SInv
<1>1. ASSUME NEW c \in Conns, IoPoll(c)  PROVE  SInv'
  <2>1. /\ current' = c /\ iopc' = "callbacks" /\ iopc = "poll" /\ state_[c] # "none" /\ channels_[fd_[c]] = c
        /\ UNCHANGED <<fd_, events_, index_, channels_, state_, outputBuffer_, ioQueue, baseQueue, upc, loop_,
                       generation, connections_, closes, bpc>>
    BY <1>1 DEF IoPoll, Alive, Mapped, channelVars, connVars, userVars, serverVars, baseVars
  <2>2. fd_[c] \in Fds /\ c # None
    BY <1>0, <2>1, NoneAssumption DEF StateInv
  <2>3. Begun(c) /\ loop_[c] = generation
    BY <1>0, <2>1, <2>2 DEF ChannelInv
  <2>4. BegunInv'
    BY <1>0, <2>1, <2>3 DEF BegunInv, Begun
  <2>5. OwnInv'
    BY <1>0, <2>1, <2>3 DEF OwnInv
  <2>6. StateInv' /\ ChannelInv'
    BY <1>0, <2>1 DEF StateInv, ChannelInv, Begun
  <2>7. MapInv' /\ StaleInv'
    BY <1>0, <2>1 DEF MapInv, StaleInv
  <2>. QED  BY <2>4, <2>5, <2>6, <2>7 DEF SInv
<1>2. CASE IoSwap
  <2>1. /\ current' = None /\ iopc' = "functors" /\ iopc # "exited"
        /\ UNCHANGED <<fd_, events_, index_, channels_, state_, outputBuffer_, ioQueue, baseQueue, upc, loop_,
                       generation, connections_, closes, bpc>>
    BY <1>2 DEF IoSwap, channelVars, connVars, userVars, serverVars, baseVars
  <2>2. BegunInv' /\ OwnInv'
    BY <1>0, <2>1 DEF BegunInv, OwnInv, Begun
  <2>3. StateInv' /\ ChannelInv'
    BY <1>0, <2>1 DEF StateInv, ChannelInv, Begun
  <2>4. MapInv' /\ StaleInv'
    BY <1>0, <2>1 DEF MapInv, StaleInv
  <2>. QED  BY <2>2, <2>3, <2>4 DEF SInv
<1>3. CASE IoIterate
  <2>1. /\ iopc = "functors"
        /\ UNCHANGED <<fd_, events_, index_, state_, outputBuffer_, current, baseQueue, upc, loop_,
                       generation, connections_, closes, bpc>>
    BY <1>3 DEF IoIterate, connVars, userVars, serverVars, baseVars
  <2>2. CASE ioQuit
    <3>1. iopc' = "exited" /\ ioQueue' = <<>> /\ channels_' = [f \in Fds |-> None]
      BY <1>3, <2>2 DEF IoIterate
    <3>2. Len(ioQueue') = 0 /\ \A f \in Fds : channels_'[f] = None
      BY <3>1, EmptySeq
    <3>3. BegunInv' /\ OwnInv'
      BY <1>0, <2>1, <3>2 DEF BegunInv, OwnInv, Begun
    <3>4. StateInv' /\ ChannelInv'
      BY <1>0, <2>1, <3>2 DEF StateInv, ChannelInv, Begun
    <3>5. MapInv' /\ StaleInv'
      BY <3>1, <3>2 DEF MapInv, StaleInv
    <3>. QED  BY <3>3, <3>4, <3>5 DEF SInv
  <2>3. CASE ~ioQuit
    <3>1. iopc' = "poll" /\ UNCHANGED <<ioQueue, channels_>>
      BY <1>3, <2>3 DEF IoIterate
    <3>2. BegunInv' /\ OwnInv'
      BY <1>0, <2>1, <3>1 DEF BegunInv, OwnInv, Begun
    <3>3. StateInv' /\ ChannelInv'
      BY <1>0, <2>1, <3>1 DEF StateInv, ChannelInv, Begun
    <3>4. MapInv' /\ StaleInv'
      BY <1>0, <2>1, <3>1 DEF MapInv, StaleInv
    <3>. QED  BY <3>2, <3>3, <3>4 DEF SInv
  <2>. QED  BY <2>2, <2>3
<1>. QED  BY <1>1, <1>2, <1>3

LEMMA SUser ==
    ASSUME SendOnly, GInv, SInv, UserNext, UNCHANGED baseVars
    PROVE  SInv'
<1>0. /\ TypeOK /\ UserType /\ LoopInv /\ CreatedInv /\ PhaseInv
      /\ BegunInv /\ StateInv /\ OwnInv /\ ChannelInv /\ MapInv /\ StaleInv
  BY DEF GInv, SInv
<1>u. PICK u \in Users : \/ \E op \in UserOps, c \in Conns : UserTest(u, op, c)
                         \/ UserSetState(u)
                         \/ UserQueue(u)
  BY DEF UserNext
<1>1. ASSUME NEW op \in UserOps, NEW c \in Conns, UserTest(u, op, c)  PROVE  SInv'
  <2>1. upc' = [upc EXCEPT ![u] = [op |-> op, c |-> c, at |-> "tested"]]
    BY <1>1 DEF UserTest
  <2>2. UNCHANGED <<fd_, events_, index_, channels_, state_, outputBuffer_, ioQueue, baseQueue, iopc, current, loop_,
                    generation, connections_, closes, bpc>>
    BY <1>1 DEF UserTest, channelVars, connVars, loopVars, serverVars, baseVars
  <2>3. Begun(c)
    BY <1>1 DEF UserTest, Begun, Up
  <2>4. \A v \in Users : upc'[v] # Idle => Begun(upc'[v].c)
    BY <1>0, <2>1, <2>3 DEF BegunInv, UserType
  <2>5. BegunInv'
    BY <1>0, <2>2, <2>4 DEF BegunInv, Begun
  <2>6. OwnInv' /\ StateInv' /\ ChannelInv'
    BY <1>0, <2>2 DEF OwnInv, StateInv, ChannelInv, Begun
  <2>7. MapInv' /\ StaleInv'
    BY <1>0, <2>2 DEF MapInv, StaleInv
  <2>. QED  BY <2>5, <2>6, <2>7 DEF SInv
<1>2. CASE UserSetState(u)
  <2>1. upc[u].op \in UserOps /\ upc[u].op # "send"
    BY <1>0, <1>2, CallEffect DEF UserSetState
  <2>. QED  BY <2>1 DEF SendOnly
<1>3. CASE UserQueue(u)
  <2>1. PICK c \in Conns : c = upc[u].c
    BY <1>0, <1>3, CallEffect DEF UserQueue
  <2>2. InLoopName[upc[u].op] \in Functions /\ InLoopName[upc[u].op] \in Raw /\ upc[u] # Idle
    BY <1>0, <1>3, CallEffect DEF UserQueue
  <2>3. Begun(c)
    BY <1>0, <2>1, <2>2 DEF BegunInv
  <2>4. PICK x \in Functor : /\ x.c = c /\ x.fn \in Raw
                             /\ ioQueue' = ioQueue \/ (ioQueue' = Append(ioQueue, x) /\ loop_[c] = generation)
    <3>1. \/ ioQueue' = ioQueue
          \/ ioQueue' = Append(ioQueue, Bind(InLoopName[upc[u].op], c)) /\ loop_[c] = generation
      BY <1>3, <2>1 DEF UserQueue, LoopAlive
    <3>. QED  BY <2>2, <3>1, BindEffect
  <2>5. /\ \A i \in 1..Len(ioQueue) : i \in 1..Len(ioQueue') /\ ioQueue'[i] = ioQueue[i]
        /\ \A i \in 1..Len(ioQueue') : (i \in 1..Len(ioQueue) /\ ioQueue'[i] = ioQueue[i]) \/ ioQueue'[i] = x
    BY <1>0, <2>4, QueueTyped, GrowEffect
  <2>6. UNCHANGED <<fd_, events_, index_, channels_, state_, outputBuffer_, baseQueue, iopc, current, loop_,
                    generation, connections_, closes, bpc>>
    BY <1>3 DEF UserQueue, channelVars, connVars, loopVars, serverVars, baseVars
  <2>7. upc' = [upc EXCEPT ![u] = Idle]
    BY <1>3 DEF UserQueue
  <2>8. \A v \in Users : upc'[v] # Idle => Begun(upc'[v].c)
    BY <1>0, <2>7 DEF BegunInv, UserType
  <2>9. BegunInv'
    <3>1. \A i \in 1..Len(ioQueue') : ioQueue'[i].fn \in Raw \cup {"forceCloseInLoop"} => Begun(ioQueue'[i].c)
      BY <1>0, <2>3, <2>4, <2>5 DEF BegunInv
    <3>. QED  BY <1>0, <2>6, <2>8, <3>1 DEF BegunInv, Begun
  <2>10. OwnInv'
    <3>1. \A i \in 1..Len(ioQueue') : loop_[ioQueue'[i].c] = generation
      BY <1>0, <2>4, <2>5 DEF OwnInv
    <3>. QED  BY <1>0, <2>6, <3>1 DEF OwnInv
  <2>11. StateInv' /\ ChannelInv'
    BY <1>0, <2>6 DEF StateInv, ChannelInv, Begun
  <2>12. MapInv'
    <3>1. \A i \in 1..Len(ioQueue') : ioQueue'[i].fn = "connectDestroyed" => i \in 1..Len(ioQueue) /\ ioQueue'[i] = ioQueue[i]
      BY <2>4, <2>5 DEF Raw
    <3>. QED  BY <1>0, <2>6, <3>1 DEF MapInv
  <2>13. StaleInv'
    BY <1>0, <2>5, <2>6 DEF StaleInv
  <2>. QED  BY <2>9, <2>10, <2>11, <2>12, <2>13 DEF SInv
<1>. QED  BY <1>u, <1>1, <1>2, <1>3

LEMMA SNewConnection ==
    ASSUME GInv, SInv, NEW c \in Conns, NEW f \in Fds, NewConnection(c, f)
    PROVE  SInv'
<1>0. /\ TypeOK /\ UserType /\ LoopInv /\ CreatedInv /\ PhaseInv
      /\ BegunInv /\ StateInv /\ OwnInv /\ ChannelInv /\ MapInv /\ StaleInv
  BY DEF GInv, SInv
<1>1. /\ state_[c] = "none"
      /\ state_' = [state_ EXCEPT ![c] = "kConnecting"]
      /\ fd_' = [fd_ EXCEPT ![c] = f]
      /\ loop_' = [loop_ EXCEPT ![c] = generation]
      /\ connections_' = [connections_ EXCEPT ![c] = "present"]
      /\ UNCHANGED <<events_, index_, channels_, outputBuffer_, baseQueue, iopc, current, upc, generation, closes, bpc>>
  BY DEF NewConnection, channelVars, loopVars, userVars, baseVars
<1>2. PICK x \in Functor : /\ x.fn = "connectEstablished" /\ x.c = c
                           /\ ioQueue' = ioQueue \/ ioQueue' = Append(ioQueue, x)
  <2>1. ioQueue' = ioQueue \/ ioQueue' = Append(ioQueue, Bind("connectEstablished", c))
    BY Zenon DEF NewConnection
  <2>. QED  BY <2>1, BindEffect DEF Functions
<1>3. /\ \A i \in 1..Len(ioQueue) : i \in 1..Len(ioQueue') /\ ioQueue'[i] = ioQueue[i]
      /\ \A i \in 1..Len(ioQueue') : (i \in 1..Len(ioQueue) /\ ioQueue'[i] = ioQueue[i]) \/ ioQueue'[i] = x
  BY <1>0, <1>2, QueueTyped, GrowEffect
<1>4. /\ state_'[c] = "kConnecting" /\ fd_'[c] = f /\ loop_'[c] = generation /\ connections_'[c] = "present"
      /\ \A d \in Conns \ {c} : /\ state_'[d] = state_[d] /\ fd_'[d] = fd_[d] /\ loop_'[d] = loop_[d]
                                 /\ connections_'[d] = connections_[d]
  <2>1. state_ \in [Conns -> States] /\ fd_ \in [Conns -> Fds \cup {None}]
    BY <1>0, TypeParts DEF HandledType, OtherType
  <2>. QED  BY <1>0, <1>1, <2>1, MapTyped
<1>5. ~Begun(c) /\ \A d \in Conns : Begun(d) => d \in Conns \ {c}
  BY <1>1 DEF Begun, Up
\* Whatever the queue holds is of another connection.
<1>6. \A i \in 1..Len(ioQueue) : ioQueue[i].c \in Conns \ {c}
  BY <1>0, <1>1, QueueTyped DEF CreatedInv
<1>7. current # None => current \in Conns \ {c}
  BY <1>0, <1>1 DEF CreatedInv, TypeOK, ConnTypeOK
<1>8. \A g \in Fds : channels_[g] # None => channels_[g] \in Conns \ {c}
  <2>1. channels_ \in [Fds -> Conns \cup {None}]
    BY <1>0, TypeParts DEF HandledType
  <2>. QED  BY <1>0, <1>5, <2>1 DEF ChannelInv
<1>9. BegunInv'
  <2>1. \A i \in 1..Len(ioQueue') : ioQueue'[i].fn \in Raw \cup {"forceCloseInLoop"}
                                  => i \in 1..Len(ioQueue) /\ ioQueue'[i] = ioQueue[i]
    BY <1>2, <1>3 DEF Raw
  <2>2. \A d \in Conns : Begun(d) => state_'[d] \in Up \cup {"kDisconnected"}
    BY <1>4, <1>5 DEF Begun
  <2>3. \A i \in 1..Len(ioQueue') : ioQueue'[i].fn \in Raw \cup {"forceCloseInLoop"}
                                  => state_'[ioQueue'[i].c] \in Up \cup {"kDisconnected"}
    BY <1>0, <1>6, <2>1, <2>2 DEF BegunInv
  <2>4. \A u \in Users : upc[u] # Idle => upc[u].c \in Conns
    BY <1>0 DEF UserType, UserCall
  <2>5. \A u \in Users : upc[u] # Idle => state_'[upc[u].c] \in Up \cup {"kDisconnected"}
    BY <1>0, <2>2, <2>4 DEF BegunInv
  <2>6. \A i \in 1..Len(baseQueue) : baseQueue[i] \in Conns
    <3>1. baseQueue \in Seq(Conns)
      BY <1>0, TypeParts DEF HandledType
    <3>. QED  BY <3>1, ElementOfSeq
  <2>7. \A i \in 1..Len(baseQueue) : state_'[baseQueue[i]] = "kDisconnected"
    BY <1>0, <1>1, <1>4, <2>6 DEF BegunInv
  <2>8. current # None => state_'[current] \in Up \cup {"kDisconnected"}
    BY <1>0, <1>7, <2>2 DEF BegunInv
  <2>. QED  BY <1>1, <2>3, <2>5, <2>7, <2>8 DEF BegunInv, Begun
<1>10. StateInv'
  <2>1. events_[c] = {} /\ ~outputBuffer_[c] /\ closes[c] = 0
    BY <1>0, <1>1, <1>5 DEF StateInv
  <2>2. ASSUME NEW d \in Conns
        PROVE  /\ state_'[d] \notin Up \cup {"kDisconnected"} => events_[d] = {} /\ ~outputBuffer_[d]
               /\ state_'[d] \in Up => (("W" \in events_[d]) <=> outputBuffer_[d])
               /\ state_'[d] = "kDisconnected" => events_[d] = {}
               /\ state_'[d] # "kDisconnected" => closes[d] = 0
               /\ closes[d] <= 1
               /\ state_'[d] # "none" => fd_'[d] \in Fds
    <3>1. CASE d = c
      BY <1>4, <2>1, <3>1 DEF Up
    <3>2. CASE d # c
      BY <1>0, <1>4, <3>2 DEF StateInv, Begun
    <3>. QED  BY <3>1, <3>2
  <2>. QED  BY <1>1, <2>2 DEF StateInv, Begun
<1>11. OwnInv'
  <2>1. \A i \in 1..Len(ioQueue') : loop_'[ioQueue'[i].c] = generation
    BY <1>0, <1>2, <1>3, <1>4, <1>6 DEF OwnInv
  <2>2. \A d \in Conns : loop_'[d] <= generation
    BY <1>0, <1>4, MapTyped DEF OwnInv
  <2>3. current # None => loop_'[current] = generation
    BY <1>0, <1>4, <1>7 DEF OwnInv
  <2>. QED  BY <1>1, <2>1, <2>2, <2>3 DEF OwnInv
<1>12. ChannelInv'
  BY <1>0, <1>1, <1>4, <1>8 DEF ChannelInv, Begun
<1>13. MapInv'
  <2>1. \A i \in 1..Len(ioQueue') : ioQueue'[i].fn = "connectDestroyed" => i \in 1..Len(ioQueue) /\ ioQueue'[i] = ioQueue[i]
    BY <1>2, <1>3
  <2>2. bpc = "loop" /\ iopc # "exited" => \A i \in 1..Len(ioQueue') :
           ioQueue'[i].fn = "connectDestroyed" => state_'[ioQueue'[i].c] = "kDisconnected"
    BY <1>0, <1>4, <1>6, <2>1 DEF MapInv
  <2>3. bpc = "loop" /\ iopc # "exited" => \A d \in Conns :
           loop_'[d] = generation /\ state_'[d] \in Up \cup {"kConnecting"} => connections_'[d] = "present"
    BY <1>0, <1>4 DEF MapInv
  <2>. QED  BY <1>1, <2>2, <2>3 DEF MapInv
<1>14. StaleInv'
  BY <1>0, <1>1, <1>3, <1>4, <1>8 DEF StaleInv
<1>. QED  BY <1>9, <1>10, <1>11, <1>12, <1>13, <1>14 DEF SInv

LEMMA SRemove ==
    ASSUME GInv, SInv, RemoveConnectionInLoop
    PROVE  SInv'
<1>0. /\ TypeOK /\ UserType /\ LoopInv /\ CreatedInv /\ PhaseInv
      /\ BegunInv /\ StateInv /\ OwnInv /\ ChannelInv /\ MapInv /\ StaleInv
  BY DEF GInv, SInv
<1>1. baseQueue \in Seq(Conns) /\ baseQueue # <<>> /\ baseQueue' = Tail(baseQueue)
  BY <1>0, TypeParts, Zenon DEF RemoveConnectionInLoop, HandledType
<1>2. /\ Len(baseQueue) \in Nat /\ Len(baseQueue) >= 1
      /\ Head(baseQueue) = baseQueue[1] /\ Head(baseQueue) \in Conns
      /\ \A i \in 1..Len(baseQueue') : baseQueue'[i] = baseQueue[i + 1] /\ i + 1 \in 1..Len(baseQueue)
  BY <1>1, TailEffect
<1>3. PICK c \in Conns : c = Head(baseQueue)
  BY <1>2
<1>4. state_[c] = "kDisconnected"
  <2>1. c = baseQueue[1] /\ 1 \in 1..Len(baseQueue)
    BY <1>2, <1>3
  <2>. QED  BY <1>0, <2>1 DEF BegunInv
<1>5. UNCHANGED <<fd_, events_, index_, channels_, state_, outputBuffer_, iopc, current, upc, loop_, generation, closes, bpc>>
  BY DEF RemoveConnectionInLoop, channelVars, connVars, loopVars, userVars, baseVars
<1>6. PICK x \in Functor :
         /\ x.fn = "connectDestroyed" /\ x.c = c
         /\ ioQueue' = ioQueue \/ (ioQueue' = Append(ioQueue, x) /\ LoopAlive(c))
         /\ connections_' = connections_ \/ connections_' = [connections_ EXCEPT ![c] = "absent"]
         /\ connections_' # connections_ /\ LoopAlive(c) => ioQueue' = Append(ioQueue, x)
  <2>. DEFINE b == Bind("connectDestroyed", c)
  <2>1. b \in Functor /\ b.fn = "connectDestroyed" /\ b.c = c
    BY BindEffect DEF Functions
  <2>2. ioQueue' = ioQueue \/ (ioQueue' = Append(ioQueue, b) /\ LoopAlive(c))
    BY <1>3, Zenon DEF RemoveConnectionInLoop
  <2>3. connections_' = connections_ \/ connections_' = [connections_ EXCEPT ![c] = "absent"]
    BY <1>3, Zenon DEF RemoveConnectionInLoop
  <2>4. connections_' # connections_ /\ LoopAlive(c) => ioQueue' = Append(ioQueue, b)
    BY <1>3, Zenon DEF RemoveConnectionInLoop
  <2>. HIDE DEF b
  <2>. QED  BY <2>1, <2>2, <2>3, <2>4
<1>7. /\ Len(ioQueue) \in Nat /\ Len(ioQueue') \in Nat
      /\ \A i \in 1..Len(ioQueue) : i \in 1..Len(ioQueue') /\ ioQueue'[i] = ioQueue[i]
      /\ \A i \in 1..Len(ioQueue') : (i \in 1..Len(ioQueue) /\ ioQueue'[i] = ioQueue[i]) \/ ioQueue'[i] = x
      /\ ioQueue' = Append(ioQueue, x) => Len(ioQueue') \in 1..Len(ioQueue') /\ ioQueue'[Len(ioQueue')] = x
  BY <1>0, <1>6, QueueTyped, GrowEffect
<1>8. /\ \A d \in Conns \ {c} : connections_'[d] = connections_[d]
      /\ connections_'[c] = connections_[c] \/ connections_'[c] = "absent"
  BY <1>0, <1>6, MapTyped
<1>9. BegunInv'
  <2>1. \A i \in 1..Len(ioQueue') : ioQueue'[i].fn \in Raw \cup {"forceCloseInLoop"} => Begun(ioQueue'[i].c)
    BY <1>0, <1>4, <1>6, <1>7 DEF BegunInv, Begun
  <2>2. \A i \in 1..Len(baseQueue') : state_[baseQueue'[i]] = "kDisconnected"
    BY <1>0, <1>2 DEF BegunInv
  <2>. QED  BY <1>0, <1>5, <2>1, <2>2 DEF BegunInv, Begun
<1>10. StateInv' /\ ChannelInv'
  BY <1>0, <1>5 DEF StateInv, ChannelInv, Begun
<1>11. OwnInv'
  <2>1. \A i \in 1..Len(ioQueue') : loop_[ioQueue'[i].c] = generation
    <3>1. CASE ioQueue' = ioQueue
      BY <1>0, <3>1 DEF OwnInv
    <3>2. CASE LoopAlive(c)
      BY <1>0, <1>6, <1>7, <3>2 DEF OwnInv, LoopAlive
    <3>. QED  BY <1>6, <3>1, <3>2
  <2>. QED  BY <1>0, <1>5, <2>1 DEF OwnInv
<1>12. MapInv'
  <2>. SUFFICES ASSUME bpc = "loop", iopc # "exited"
       PROVE  /\ \A d \in Conns : loop_[d] = generation /\ state_[d] \in Up \cup {"kConnecting"} => connections_'[d] = "present"
              /\ \A i \in 1..Len(ioQueue') : ioQueue'[i].fn = "connectDestroyed" => state_[ioQueue'[i].c] = "kDisconnected"
    BY <1>5 DEF MapInv
  <2>1. c \in Conns /\ state_[c] \notin Up \cup {"kConnecting"}
    BY <1>4 DEF Up
  <2>2. \A d \in Conns : loop_[d] = generation /\ state_[d] \in Up \cup {"kConnecting"} => connections_'[d] = "present"
    BY <1>0, <1>8, <2>1 DEF MapInv
  <2>3. \A i \in 1..Len(ioQueue') : ioQueue'[i].fn = "connectDestroyed" => state_[ioQueue'[i].c] = "kDisconnected"
    BY <1>0, <1>4, <1>6, <1>7 DEF MapInv
  <2>. QED  BY <2>2, <2>3
<1>13. StaleInv'
  <2>. SUFFICES ASSUME bpc = "loop", NEW f \in Fds, channels_[f] # None, connections_'[channels_[f]] # "present"
       PROVE  \E i \in 1..Len(ioQueue') : ioQueue'[i].c = channels_[f] /\ ioQueue'[i].fn = "connectDestroyed"
    BY <1>5 DEF StaleInv
  <2>1. CASE connections_[channels_[f]] # "present"
    <3>1. PICK i \in 1..Len(ioQueue) : ioQueue[i].c = channels_[f] /\ ioQueue[i].fn = "connectDestroyed"
      BY <1>0, <2>1 DEF StaleInv
    <3>. QED  BY <1>7, <3>1
  <2>2. CASE connections_[channels_[f]] = "present"
    <3>1. channels_[f] \in Conns
      BY <1>0, TypeParts DEF HandledType
    <3>2. channels_[f] = c /\ connections_' # connections_
      BY <1>8, <2>2, <3>1
    <3>3. LoopAlive(c)
      BY <1>0, <3>2 DEF ChannelInv, LoopAlive
    <3>. QED  BY <1>6, <1>7, <3>2, <3>3
  <2>. QED  BY <2>1, <2>2
<1>. QED  BY <1>9, <1>10, <1>11, <1>12, <1>13 DEF SInv

LEMMA SStopConnection ==
    ASSUME GInv, SInv, NEW c \in Conns, StopConnection(c)
    PROVE  SInv'
<1>0. /\ TypeOK /\ UserType /\ LoopInv /\ CreatedInv /\ PhaseInv
      /\ BegunInv /\ StateInv /\ OwnInv /\ ChannelInv /\ MapInv /\ StaleInv
  BY DEF GInv, SInv
<1>1. /\ bpc = "stopping"
      /\ UNCHANGED <<fd_, events_, index_, channels_, state_, outputBuffer_, baseQueue, iopc, current, upc, loop_,
                     generation, closes, bpc>>
  BY DEF StopConnection, channelVars, connVars, loopVars, userVars
<1>2. PICK x \in Functor : /\ x.fn = "connectDestroyed" /\ x.c = c
                           /\ ioQueue' = ioQueue \/ (ioQueue' = Append(ioQueue, x) /\ loop_[c] = generation)
  <2>1. ioQueue' = ioQueue \/ (ioQueue' = Append(ioQueue, Bind("connectDestroyed", c)) /\ loop_[c] = generation)
    BY Zenon DEF StopConnection, LoopAlive
  <2>. QED  BY <2>1, BindEffect DEF Functions
<1>3. \A i \in 1..Len(ioQueue') : (i \in 1..Len(ioQueue) /\ ioQueue'[i] = ioQueue[i]) \/ ioQueue'[i] = x
  BY <1>0, <1>2, QueueTyped, GrowEffect
<1>4. BegunInv'
  <2>1. \A i \in 1..Len(ioQueue') : ioQueue'[i].fn \in Raw \cup {"forceCloseInLoop"} => Begun(ioQueue'[i].c)
    BY <1>0, <1>2, <1>3 DEF BegunInv, Raw
  <2>. QED  BY <1>0, <1>1, <2>1 DEF BegunInv, Begun
<1>5. StateInv' /\ ChannelInv'
  BY <1>0, <1>1 DEF StateInv, ChannelInv, Begun
<1>6. OwnInv'
  <2>1. \A i \in 1..Len(ioQueue') : loop_[ioQueue'[i].c] = generation
    BY <1>0, <1>2, <1>3 DEF OwnInv
  <2>. QED  BY <1>0, <1>1, <2>1 DEF OwnInv
<1>7. MapInv' /\ StaleInv'
  BY <1>1 DEF MapInv, StaleInv
<1>. QED  BY <1>4, <1>5, <1>6, <1>7 DEF SInv

LEMMA SPhases ==
    ASSUME GInv, SInv, Stop \/ StopPool \/ StopJoined \/ Start
    PROVE  SInv'
<1>0. /\ TypeOK /\ UserType /\ LoopInv /\ CreatedInv /\ PhaseInv
      /\ BegunInv /\ StateInv /\ OwnInv /\ ChannelInv /\ MapInv /\ StaleInv
  BY DEF GInv, SInv
<1>1. CASE Stop \/ StopPool
  <2>1. /\ bpc' # "loop"
        /\ UNCHANGED <<fd_, events_, index_, channels_, state_, outputBuffer_, ioQueue, baseQueue, iopc, current, upc, loop_,
                       generation, closes>>
    BY <1>1 DEF Stop, StopPool, channelVars, connVars, loopVars, userVars, serverVars
  <2>2. BegunInv' /\ OwnInv'
    BY <1>0, <2>1 DEF BegunInv, OwnInv, Begun
  <2>3. StateInv' /\ ChannelInv'
    BY <1>0, <2>1 DEF StateInv, ChannelInv, Begun
  <2>4. MapInv' /\ StaleInv'
    BY <2>1 DEF MapInv, StaleInv
  <2>. QED  BY <2>2, <2>3, <2>4 DEF SInv
\* No channel is left in a loop that has exited.
<1>2. CASE StopJoined
  <2>1. /\ iopc = "exited"
        /\ UNCHANGED <<fd_, events_, index_, channels_, state_, outputBuffer_, ioQueue, baseQueue, iopc, current, upc, loop_,
                       generation, closes>>
    BY <1>2 DEF StopJoined, channelVars, connVars, loopVars, userVars, serverVars
  <2>2. BegunInv' /\ OwnInv'
    BY <1>0, <2>1 DEF BegunInv, OwnInv, Begun
  <2>3. StateInv' /\ ChannelInv'
    BY <1>0, <2>1 DEF StateInv, ChannelInv, Begun
  <2>4. \A f \in Fds : channels_[f] = None
    BY <1>0, <2>1 DEF ChannelInv
  <2>5. MapInv' /\ StaleInv'
    BY <2>1, <2>4 DEF MapInv, StaleInv
  <2>. QED  BY <2>2, <2>3, <2>5 DEF SInv
\* The new loop owns no connection yet.
<1>3. CASE Start
  <2>1. /\ bpc = "loop" /\ ~started_ /\ generation' = generation + 1
        /\ UNCHANGED <<fd_, events_, index_, channels_, state_, outputBuffer_, ioQueue, baseQueue, current, upc, loop_,
                       connections_, closes, bpc>>
    BY <1>3 DEF Start, channelVars, connVars, userVars
  <2>2. iopc = "exited" /\ ioQueue = <<>>
    BY <1>0, <2>1 DEF PhaseInv
  <2>3. Len(ioQueue) = 0 /\ current = None
    BY <1>0, <2>2, EmptySeq DEF LoopInv
  <2>4. \A f \in Fds : channels_[f] = None
    BY <1>0, <2>2 DEF ChannelInv
  <2>5. BegunInv' /\ StateInv'
    BY <1>0, <2>1, <2>3 DEF BegunInv, StateInv, Begun
  <2>6. \A d \in Conns : loop_[d] <= generation' /\ loop_[d] # generation'
    BY <1>0, <2>1, MapTyped DEF OwnInv
  <2>7. OwnInv'
    BY <2>1, <2>3, <2>6 DEF OwnInv
  <2>8. ChannelInv' /\ StaleInv'
    BY <2>1, <2>4 DEF ChannelInv, StaleInv
  <2>9. MapInv'
    BY <2>1, <2>3, <2>6 DEF MapInv
  <2>. QED  BY <2>5, <2>7, <2>8, <2>9 DEF SInv
<1>. QED  BY <1>1, <1>2, <1>3

LEMMA SStep ==
    ASSUME SendOnly, GInv, GInv', SInv, [Next]_vars
    PROVE  SInv'
<1>1. TypeOK'
  BY DEF GInv
<1>2. CASE UNCHANGED vars
  <2>1. UNCHANGED <<fd_, events_, index_, channels_, state_, outputBuffer_, ioQueue, baseQueue, iopc, current, upc, loop_,
                    generation, connections_, closes, bpc>>
    BY <1>2 DEF vars, channelVars, connVars, loopVars, userVars, serverVars, baseVars
  <2>2. BegunInv' /\ OwnInv'
    BY <2>1 DEF SInv, BegunInv, OwnInv, Begun
  <2>3. StateInv' /\ ChannelInv'
    BY <2>1 DEF SInv, StateInv, ChannelInv, Begun
  <2>4. MapInv' /\ StaleInv'
    BY <2>1 DEF SInv, MapInv, StaleInv
  <2>. QED  BY <2>2, <2>3, <2>4 DEF SInv
<1>3. CASE IoNext /\ UNCHANGED baseVars
  BY <1>1, <1>3, SCallback, SFunctor, SLoop DEF IoNext
<1>4. CASE UserNext /\ UNCHANGED baseVars
  BY <1>4, SUser
<1>5. CASE BaseNext
  BY <1>5, SNewConnection, SRemove, SStopConnection, SPhases DEF BaseNext
<1>. QED  BY <1>2, <1>3, <1>4, <1>5 DEF Next

LEMMA SSafe ==
    ASSUME SendOnly
    PROVE  SafeSpec => [](GInv /\ SInv)
<1>1. Init => SInv
  BY SInit
<1>2. GInv /\ GInv' /\ SInv /\ [Next]_vars => SInv'
  BY SStep
<1>. QED  BY <1>1, <1>2, GSafe, PTL DEF SafeSpec

\* With one writer of state_, TcpConnection keeps write interest exactly while
\* outputBuffer_ holds bytes, through every order of sends, callbacks, closes,
\* stops and restarts.
THEOREM InterestFollowsBuffer ==
    ASSUME SendOnly
    PROVE  SafeSpec => []WriteInterest
<1>1. SInv => WriteInterest
  BY DEF SInv, StateInv, WriteInterest, Up
<1>. QED  BY <1>1, SSafe, PTL

\* TcpConnection::handleClose tells the server of a close at most once.
THEOREM CloseIsToldOnce ==
    ASSUME SendOnly
    PROVE  SafeSpec => []ClosedOnce
<1>1. SInv => ClosedOnce
  BY DEF SInv, StateInv, ClosedOnce
<1>. QED  BY <1>1, SSafe, PTL

\* While the base loop can accept, EPollPoller::channels_ names no destroyed
\* connection, so a descriptor that is handed out again is free there.
THEOREM DescriptorsAreFree ==
    ASSUME SendOnly
    PROVE  SafeSpec => []StaleOnlyWhileStopping
<1>1. ASSUME GInv, SInv PROVE StaleOnlyWhileStopping
  <2>. SUFFICES ASSUME bpc = "loop", NEW c \in Conns, NEW f \in Fds, channels_[f] = c
       PROVE  Alive(c)
    BY DEF StaleOnlyWhileStopping, NoStaleChannel
  <2>1. c # None
    BY NoneAssumption
  <2>2. state_[c] # "none"
    BY <1>1, <2>1 DEF SInv, ChannelInv, Begun, Up
  <2>3. CASE connections_[c] = "present"
    BY <2>2, <2>3 DEF Alive
  <2>4. ASSUME NEW i \in 1..Len(ioQueue), ioQueue[i].c = c, ioQueue[i].fn = "connectDestroyed"
        PROVE  Alive(c)
    <3>1. ioQueue[i].fn \notin Raw
      BY <2>4 DEF Raw
    <3>2. InUse(ioQueue, c)
      BY <2>4, <3>1 DEF InUse
    <3>. QED  BY <2>2, <3>2 DEF Alive
  <2>. QED  BY <1>1, <2>1, <2>3, <2>4 DEF SInv, StaleInv
<1>. QED  BY <1>1, SSafe, PTL
=============================================================================
