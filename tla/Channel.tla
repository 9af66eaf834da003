------------------------------- MODULE Channel -------------------------------
(***************************************************************************)
(* net/Channel.cpp and net/EpollPoller.cpp of one I/O loop: the interest   *)
(* set of each channel, its registration index, the poller's map from file *)
(* descriptor to channel, and the kernel's epoll set.  A channel is named  *)
(* by the connection that owns it.                                         *)
(***************************************************************************)
EXTENDS Naturals, Sequences, FiniteSets

CONSTANTS Conns,   \* connections ever accepted
          Fds,     \* file descriptors; accept() reuses those that are closed
          None

ASSUME NoneAssumption == None \notin Conns

VARIABLES fd_,        \* connection -> its descriptor (None before it exists)
          events_,    \* connection -> events asked for, of "R" and "W"
          index_,     \* connection -> kNew, kAdded or kDeleted
          channels_,  \* EPollPoller::channels_: descriptor -> connection or None
          epoll_      \* connections whose descriptor is in the epoll set

channelVars == <<events_, index_, channels_, epoll_>>

ChannelTypeOK ==
    /\ fd_ \in [Conns -> Fds \cup {None}]
    /\ events_ \in [Conns -> SUBSET {"R", "W"}]
    /\ index_ \in [Conns -> {"kNew", "kAdded", "kDeleted"}]
    /\ channels_ \in [Fds -> Conns \cup {None}]
    /\ epoll_ \in SUBSET Conns

ChannelInit ==
    /\ fd_ = [c \in Conns |-> None]
    /\ events_ = [c \in Conns |-> {}]
    /\ index_ = [c \in Conns |-> "kNew"]
    /\ channels_ = [f \in Fds |-> None]
    /\ epoll_ = {}

\* Mutant of Remove: the channel is taken out of epoll but left in channels_.
RemoveFromEpollOnly(c) ==
    /\ epoll_' = epoll_ \ {c}
    /\ index_' = [index_ EXCEPT ![c] = "kNew"]
    /\ UNCHANGED <<events_, channels_>>

\* The channel is the one channels_ knows for its descriptor.
Mapped(c) == channels_[fd_[c]] = c

\* EPollPoller::updateChannel goes ahead only if channels_ agrees with index_.
UpdateAllowed(c) ==
    IF index_[c] = "kNew" THEN channels_[fd_[c]] = None ELSE Mapped(c)

\* The interest set is changed first, then Channel::update.  ADD succeeds here
\* (TcpConnection!ConnectEstablished has the case where it does not); a DEL or
\* MOD succeeds exactly when the descriptor is in the set.
Update(c, events) ==
    /\ events_' = [events_ EXCEPT ![c] = events]
    /\ IF ~UpdateAllowed(c)
       THEN UNCHANGED <<index_, channels_, epoll_>>
       ELSE IF index_[c] # "kAdded"
       THEN /\ channels_' = [channels_ EXCEPT ![fd_[c]] = c]
            /\ index_' = [index_ EXCEPT ![c] = "kAdded"]
            /\ epoll_' = epoll_ \cup {c}
       ELSE /\ index_' = IF events = {} /\ c \in epoll_
                         THEN [index_ EXCEPT ![c] = "kDeleted"] ELSE index_
            /\ epoll_' = IF events = {} THEN epoll_ \ {c} ELSE epoll_
            /\ UNCHANGED channels_

EnableReading(c) == Update(c, events_[c] \cup {"R"})
EnableWriting(c) == Update(c, events_[c] \cup {"W"})
DisableWriting(c) == Update(c, events_[c] \ {"W"})
DisableAll(c) == Update(c, {})

\* Channel::remove and EPollPoller::removeChannel, with their early returns.
Remove(c) ==
    IF events_[c] = {} /\ Mapped(c) /\ index_[c] # "kNew"
    THEN /\ channels_' = [channels_ EXCEPT ![fd_[c]] = None]
         /\ epoll_' = epoll_ \ {c}
         /\ index_' = [index_ EXCEPT ![c] = "kNew"]
         /\ UNCHANGED events_
    ELSE UNCHANGED channelVars
==============================================================================
