--------------------------- MODULE TcpClientProofs ---------------------------
(***************************************************************************)
(* Proofs about TcpClient over Connector, for every set of descriptors,    *)
(* every number of other threads and every number of calls: only the two   *)
(* known situations touch a dead object, every open descriptor has its     *)
(* owner, there is one connection, and a stopped client stays stopped.     *)
(***************************************************************************)
EXTENDS TcpClient, SequenceTheorems, WellFoundedInduction, TLAPS

-----------------------------------------------------------------------------
(* Numbers and sequences *)

\* A nonempty set of numbers has a least one.
LEMMA LeastNumber ==
  ASSUME NEW T \in SUBSET Nat, T # {}
  PROVE  \E n \in T : \A m \in T : n <= m
<1> DEFINE Less == {ss \in Nat \X Nat : ss[1] < ss[2]}
<1>1. IsWellFoundedOn(Less, Nat)
  BY NatLessThanWellFounded DEF OpToRel
<1> HIDE DEF Less
<1>2. PICK x \in T : \A y \in T : ~(<<y, x>> \in Less)
  BY <1>1, WFMin
<1>3. ASSUME NEW y \in T PROVE x <= y
  <2>1. <<y, x>> \in Nat \X Nat /\ ~(<<y, x>> \in Less)
    BY <1>2
  <2>2. ~(y < x)
    BY <2>1 DEF Less
  <2> QED
    BY <2>2
<1> QED
  BY <1>3

\* Putting one element in front of a sequence shifts it by one place.
LEMMA ConcatShift ==
  ASSUME NEW S, NEW h \in Seq(S), NEW u \in Seq(S), NEW t \in Seq(S), Len(h) = 1,
         Len(t) = Len(u) + 1, h[1] = t[1], \A i \in 1..Len(u) : u[i] = t[i + 1]
  PROVE  h \o u = t
<1>1. h \o u \in Seq(S) /\ Len(h \o u) = Len(h) + Len(u)
  BY ConcatProperties
<1>2. Len(u) \in Nat /\ Len(h \o u) = Len(t)
  BY <1>1, LenProperties
<1>3. ASSUME NEW i \in 1..Len(t) PROVE (h \o u)[i] = t[i]
  <2>1. CASE i = 1
    BY <2>1, <1>2
  <2>2. CASE i # 1
    <3>1. i - 1 \in 1..Len(u) /\ ~(i <= 1) /\ (i - 1) + 1 = i
      BY <2>2, <1>2
    <3>2. u[i - 1] = t[i]
      BY <3>1
    <3> QED
      BY <3>1, <3>2, <1>2
  <2> QED
    BY <2>1, <2>2
<1> QED
  BY <1>1, <1>2, <1>3, SeqEqual

\* Sequences put together from single elements.
LEMMA ConcatUnits ==
  ASSUME NEW x, NEW y, NEW z
  PROVE  <<x>> \o <<>> \o <<z>> = <<x, z>> /\ <<x>> \o <<y>> \o <<z>> = <<x, y, z>>
<1> DEFINE S == {x, y, z}
<1>1. <<x>> \in Seq(S) /\ <<y>> \in Seq(S) /\ <<z>> \in Seq(S) /\ <<y, z>> \in Seq(S) /\ <<x, z>> \in Seq(S)
      /\ <<x, y, z>> \in Seq(S)
  OBVIOUS
<1> HIDE DEF S
<1>2. <<x>> \o <<>> = <<x>> /\ (<<x>> \o <<y>>) \o <<z>> = <<x>> \o (<<y>> \o <<z>>)
  BY <1>1, ConcatEmptySeq, ConcatAssociative
<1>3. Len(<<x>>) = 1 /\ Len(<<y>>) = 1 /\ <<x>>[1] = x /\ <<y>>[1] = y
  OBVIOUS
<1>4. ASSUME NEW a, <<a, z>> \in Seq(S), <<a>> \in Seq(S) PROVE <<a>> \o <<z>> = <<a, z>>
  <2>1. Len(<<a>>) = 1 /\ Len(<<a, z>>) = Len(<<z>>) + 1 /\ <<a>>[1] = <<a, z>>[1]
    OBVIOUS
  <2>2. ASSUME NEW i \in 1..Len(<<z>>) PROVE <<z>>[i] = <<a, z>>[i + 1]
    <3>1. i = 1
      OBVIOUS
    <3>2. <<z>>[1] = <<a, z>>[1 + 1]
      OBVIOUS
    <3>. QED  BY <3>1, <3>2, Zenon
  <2>. QED  BY <2>1, <2>2, <1>1, <1>4, ConcatShift
<1>5. <<x>> \o <<y, z>> = <<x, y, z>>
  <2>1. Len(<<x, y, z>>) = Len(<<y, z>>) + 1 /\ <<x>>[1] = <<x, y, z>>[1]
    OBVIOUS
  <2>2. ASSUME NEW i \in 1..Len(<<y, z>>) PROVE <<y, z>>[i] = <<x, y, z>>[i + 1]
    <3>1. i = 1 \/ i = 2
      OBVIOUS
    <3>2. <<y, z>>[1] = <<x, y, z>>[1 + 1] /\ <<y, z>>[2] = <<x, y, z>>[2 + 1]
      OBVIOUS
    <3>. QED  BY <3>1, <3>2, Zenon
  <2>. QED  BY <2>1, <2>2, <1>1, <1>3, ConcatShift
<1>6. <<x>> \o <<z>> = <<x, z>> /\ <<y>> \o <<z>> = <<y, z>>
  BY <1>1, <1>4
<1>. QED  BY <1>2, <1>5, <1>6, Zenon

-----------------------------------------------------------------------------
(* The inductive invariant *)

\* The functors the loop has yet to run, in the order in which it will.
Line == batch \o queue

Plain == {"startInLoop", "stopInLoop", "resetChannel"}
Bound == {"setCloseCallback", "shutdownInLoop", "forceCloseInLoop", "connectDestroyed"}
Functors == (Plain \X {None}) \cup (Bound \X Fds)
Waits(name) == \E i \in 1..Len(Line) : Line[i][1] = name

CallSet == ({"startInLoop", "restart"} \X {None})
              \cup ({"newConnection", "connectEstablished", "closeCallback", "return"} \X Fds)
Doing(name) == calls # <<>> /\ calls[1][1] = name
Returning == \E i \in 1..Len(calls) : calls[i][1] = "return"

\* What is left of the calls of other threads.
ClientOn == Call("client", TRUE)
ClientOff == Call("client", FALSE)
ConnectorOn == Call("connector", TRUE)
ConnectorOff == Call("connector", FALSE)
QueueStart == Call("queueStart", None)
QueueStop == Call("queueStop", None)
Shutdown == Call("shutdown", None)
Look == Call("look", None)
Die == Call("dies", None)
Replacing(f) == Call("setCloseCallback", f)
Forcing(f) == Call("forceClose", f)

ConnectPlans == {<<ClientOn, ConnectorOn, QueueStart>>, <<ConnectorOn, QueueStart>>, <<QueueStart>>}
StopPlans == {<<ClientOff, ConnectorOff, QueueStop>>, <<ConnectorOff, QueueStop>>, <<QueueStop>>}
DisconnectPlans == {<<ClientOff, Shutdown>>, <<Shutdown>>}
DestroyPlans == {<<Look>>, <<ConnectorOff, QueueStop, Die>>, <<QueueStop, Die>>, <<Die>>}
             \cup {<<Replacing(f), Die>> : f \in Fds}
             \cup {<<Replacing(f), Forcing(f), Die>> : f \in Fds}
             \cup {<<Forcing(f), Die>> : f \in Fds}
Plans == {<<>>} \cup ConnectPlans \cup StopPlans \cup DisconnectPlans \cup DestroyPlans

\* The callbacks of the active channel that are still to be made.
ActiveType == {<<>>} \cup {<<Call("error", f)>> : f \in Fds} \cup {<<Call("write", f)>> : f \in Fds}
                 \cup {<<Call("error", f), Call("write", f)>> : f \in Fds} \cup {<<Call("close", f)>> : f \in Fds}

TypeInv ==
    /\ TypeOK
    /\ connect_ \in BOOLEAN /\ clientConnect \in BOOLEAN /\ retry_ \in BOOLEAN
    /\ overlap \in BOOLEAN /\ risky \in BOOLEAN /\ clientAlive \in BOOLEAN
    /\ closeCallback \in [Fds -> {"client", "detail"}]
    /\ lpc \in {"poll", "events", "functors"} /\ quiet \in {"no", "asked", "yes"}
    /\ queue \in Seq(Functors) /\ batch \in Seq(Functors)
    /\ calls \in Seq(CallSet)
    /\ active \in ActiveType
    /\ upc \in [Users -> Plans]

\* The loop is in one thing at a time, and what handleWrite calls returns into
\* a channel whose reset is queued.
LoopInv ==
    /\ active # <<>> => calls = <<>> /\ lpc = "events"
    /\ lpc # "functors" => batch = <<>>
    /\ Len(calls) <= 2
    /\ Len(calls) = 2 => calls[2][1] = "return"
    /\ Returning => Waits("resetChannel")

\* A descriptor in use is open; the attempt of a connecting connector is no
\* connection, and its channel is the only one that is not a connection's.
OpenInv ==
    /\ \A f \in Fds : conn[f] # "none" => f \in open
    /\ state_ = "kConnecting" /\ channel_ # None => channel_ \in open /\ conn[channel_] = "none"
    /\ Doing("newConnection") => calls[1][2] \in open /\ conn[calls[1][2]] = "none"
    /\ ~overlap => \A f \in open : \/ state_ = "kConnecting" /\ f = channel_
                                   \/ conn[f] # "none"
                                   \/ Doing("newConnection") /\ calls[1][2] = f
    /\ ~overlap => \A f \in registered : conn[f] = "none" => state_ = "kConnecting" /\ channel_ = f

\* There is a connection, or one about to be made, only in state kConnected,
\* and it is the only one.
SingleInv ==
    /\ connection_ # None => state_ = "kConnected"
    /\ \A f \in Fds : Live(f) => /\ state_ = "kConnected" /\ \A g \in Fds : Live(g) => g = f
                                 /\ connection_ = f
    /\ Doing("newConnection") => state_ = "kConnected" /\ connection_ = None
    /\ Doing("connectEstablished") => conn[calls[1][2]] = "kConnecting"
    /\ Doing("closeCallback") => state_ = "kConnected" /\ conn[calls[1][2]] = "kDisconnected" /\ \A f \in Fds : ~Live(f)
    /\ Doing("restart") => state_ = "kConnected" /\ connection_ = None

\* connectDestroyed is queued once, for a closed connection, behind its
\* shutdownInLoop.
DestroyInv ==
    /\ \A i \in 1..Len(Line) : Line[i][1] = "connectDestroyed" =>
          /\ conn[Line[i][2]] = "kDisconnected"
          /\ \A j \in 1..Len(Line) : Line[j] = Line[i] => j = i
          /\ \A j \in 1..Len(Line) : Line[j] = <<"shutdownInLoop", Line[i][2]>> => j < i
          /\ Doing("closeCallback") => calls[1][2] # Line[i][2]
    /\ \A i \in 1..Len(Line) : Line[i][1] = "shutdownInLoop" => conn[Line[i][2]] # "none"

\* Without an overlap an attempt has its channel, and no reset is queued.
AttemptInv ==
    ~overlap => /\ state_ = "kConnecting" => channel_ # None /\ ~Waits("resetChannel")
                /\ \A i \in 1..Len(active) : active[i][1] \in {"error", "write"} =>
                      active[i][2] = channel_ /\ (state_ = "kConnecting" \/ Waits("resetChannel"))

\* A client that was destroyed by the loop leaves a connector that its queued
\* stopInLoop keeps alive, or a connection that does not call it back.
DeadInv ==
    ~clientAlive /\ ~risky =>
       /\ \A u \in Users : upc[u] = <<>>
       /\ connect_ = FALSE \/ connection_ # None
       /\ ~Doing("newConnection") /\ ~Doing("restart")
       /\ state_ = "kConnecting" => Waits("stopInLoop")
       /\ \A i \in 1..Len(Line) : Line[i][1] = "startInLoop" =>
             \E j \in 1..Len(Line) : i < j /\ Line[j][1] = "stopInLoop"
       /\ \A f \in Fds : Live(f) \/ (Doing("closeCallback") /\ calls[1][2] = f) => closeCallback[f] = "detail"

\* From a stop() with no connect() under way on, no start is added, and the
\* last stop has yet to be queued or is behind every start.
QuietInv ==
    /\ quiet # "no" => \A u \in Users : upc[u] \notin ConnectPlans
    /\ quiet = "asked" =>
          /\ ~clientConnect \/ \E u \in Users : upc[u] = Steps("stop")
          /\ \/ Pending("queueStop")
             \/ \E i \in 1..Len(Line) : /\ Line[i][1] = "stopInLoop"
                                        /\ \A j \in 1..Len(Line) : i < j => Line[j][1] # "startInLoop"
    /\ quiet = "yes" =>
          /\ ~clientConnect /\ ~Waits("startInLoop") /\ state_ # "kConnecting"
          /\ ~Doing("newConnection") /\ ~Doing("restart") /\ ~Doing("startInLoop")

Parts == LoopInv /\ OpenInv /\ SingleInv /\ DestroyInv /\ AttemptInv /\ DeadInv /\ QuietInv

IInv == TypeInv /\ OnlyKnownDangers /\ (Running => Parts)

-----------------------------------------------------------------------------
(* The functors of the loop *)

\* The line loses its first d functors and gains n at its end, x if any.
Moved(d, n, x) ==
    /\ d \in 0..1 /\ n \in 0..1 /\ d <= Len(Line) /\ Len(Line) \in Nat
    /\ Len(Line') = Len(Line) - d + n
    /\ \A i \in 1..(Len(Line) - d) : Line'[i] = Line[i + d]
    /\ n = 1 => Line'[Len(Line) - d + 1] = x

\* Which functors wait, in terms of the positions of the line.
LEMMA LineFacts ==
  ASSUME TypeInv
  PROVE  /\ Line \in Seq(Functors) /\ Len(Line) \in Nat /\ Len(Line) = Len(batch) + Len(queue)
         /\ Len(batch) \in Nat /\ Len(queue) \in Nat
         /\ \A i \in 1..Len(Line) : Line[i] \in Functors
         /\ \A i \in 1..Len(batch) : Line[i] = batch[i]
         /\ \A i \in 1..Len(queue) : Line[Len(batch) + i] = queue[i]
<1>1. batch \in Seq(Functors) /\ queue \in Seq(Functors)
  BY DEF TypeInv
<1>2. Line \in Seq(Functors) /\ Len(batch) \in Nat /\ Len(queue) \in Nat
  BY <1>1, ConcatProperties, LenProperties DEF Line
<1>3. /\ Len(Line) = Len(batch) + Len(queue)
      /\ \A i \in 1..Len(Line) : Line[i] = IF i <= Len(batch) THEN batch[i] ELSE queue[i - Len(batch)]
  BY <1>1, ConcatProperties DEF Line
<1>4. \A i \in 1..Len(Line) : Line[i] \in Functors
  BY <1>2, ElementOfSeq
<1>5. \A i \in 1..Len(batch) : Line[i] = batch[i]
  BY <1>2, <1>3
<1>6. \A i \in 1..Len(queue) : Line[Len(batch) + i] = queue[i]
  BY <1>2, <1>3
<1>. QED  BY <1>2, <1>3, <1>4, <1>5, <1>6

\* Outstanding looks at the line in another order.
LEMMA OutstandingWaits ==
  ASSUME TypeInv, NEW name
  PROVE  Outstanding(name) <=> Waits(name)
<1>1. batch \in Seq(Functors) /\ queue \in Seq(Functors)
  BY DEF TypeInv
<1>2. /\ Len(queue \o batch) = Len(queue) + Len(batch)
      /\ \A i \in 1..Len(queue \o batch) : (queue \o batch)[i] = IF i <= Len(queue) THEN queue[i] ELSE batch[i - Len(queue)]
  BY <1>1, ConcatProperties
<1>3. ASSUME NEW i \in 1..Len(queue \o batch)
      PROVE  \E j \in 1..Len(Line) : Line[j] = (queue \o batch)[i]
  <2>1. CASE i <= Len(queue)
    <3>1. Len(batch) + i \in 1..Len(Line) /\ Line[Len(batch) + i] = (queue \o batch)[i]
      BY <2>1, <1>2, LineFacts
    <3>. QED  BY <3>1
  <2>2. CASE ~(i <= Len(queue))
    <3>1. i - Len(queue) \in 1..Len(batch)
      BY <2>2, <1>2, LineFacts
    <3>2. i - Len(queue) \in 1..Len(Line) /\ Line[i - Len(queue)] = batch[i - Len(queue)]
      BY <3>1, LineFacts
    <3>3. (queue \o batch)[i] = batch[i - Len(queue)]
      BY <2>2, <1>2
    <3>. QED  BY <3>2, <3>3
  <2>. QED  BY <2>1, <2>2
<1>4. ASSUME NEW j \in 1..Len(Line)
      PROVE  \E i \in 1..Len(queue \o batch) : Line[j] = (queue \o batch)[i]
  <2>1. CASE j <= Len(batch)
    <3>1. Len(queue) + j \in 1..Len(queue \o batch) /\ ~(Len(queue) + j <= Len(queue)) /\ (Len(queue) + j) - Len(queue) = j
      BY <2>1, <1>2, LineFacts
    <3>2. (queue \o batch)[Len(queue) + j] = batch[j]
      BY <3>1, <1>2
    <3>. QED  BY <2>1, <3>1, <3>2, LineFacts
  <2>2. CASE ~(j <= Len(batch))
    <3>1. j - Len(batch) \in 1..Len(queue) /\ Len(batch) + (j - Len(batch)) = j
      BY <2>2, LineFacts
    <3>2. j - Len(batch) \in 1..Len(queue \o batch) /\ (queue \o batch)[j - Len(batch)] = queue[j - Len(batch)]
      BY <3>1, <1>2, LineFacts
    <3>3. Line[j] = queue[j - Len(batch)]
      BY <3>1, LineFacts
    <3>. QED  BY <3>2, <3>3
  <2>. QED  BY <2>1, <2>2
<1>5. Outstanding(name) => Waits(name)
  BY <1>3 DEF Outstanding, Waits
<1>6. Waits(name) => Outstanding(name)
  BY <1>4 DEF Outstanding, Waits
<1>. QED  BY <1>5, <1>6

\* The four ways in which steps change the line.
LEMMA LineSame ==
  ASSUME TypeInv, batch' = batch, queue' = queue
  PROVE  Moved(0, 0, None)
<1>1. Line' = Line
  BY DEF Line
<1>. QED  BY <1>1, LineFacts DEF Moved

\* A step queues one functor at the end of the line.
LEMMA LineGrows ==
  ASSUME TypeInv, NEW x \in Functors, batch' = batch, queue' = Append(queue, x)
  PROVE  Moved(0, 1, x) /\ queue' \in Seq(Functors)
<1>1. /\ batch \in Seq(Functors) /\ queue \in Seq(Functors) /\ queue' \in Seq(Functors) /\ Len(queue') = Len(queue) + 1
      /\ \A i \in 1..Len(queue) : queue'[i] = queue[i]
      /\ queue'[Len(queue) + 1] = x
  BY AppendProperties DEF TypeInv
<1>2. /\ Len(Line') = Len(batch) + Len(queue')
      /\ \A i \in 1..Len(Line') : Line'[i] = IF i <= Len(batch) THEN batch[i] ELSE queue'[i - Len(batch)]
  BY <1>1, ConcatProperties DEF Line
<1>3. ASSUME NEW i \in 1..Len(Line) PROVE Line'[i] = Line[i]
  <2>1. CASE i <= Len(batch)
    BY <2>1, <1>1, <1>2, LineFacts
  <2>2. CASE ~(i <= Len(batch))
    <3>1. i - Len(batch) \in 1..Len(queue) /\ Len(batch) + (i - Len(batch)) = i
      BY <2>2, LineFacts
    <3>2. Line[i] = queue[i - Len(batch)]
      BY <3>1, LineFacts
    <3>3. i \in 1..Len(Line')
      BY <1>1, <1>2, LineFacts
    <3>. QED  BY <2>2, <3>1, <3>2, <3>3, <1>1, <1>2
  <2>. QED  BY <2>1, <2>2
<1>4. Len(Line) + 1 = Len(Line') /\ Line'[Len(Line) + 1] = x
  <2>1. /\ Len(Line') = Len(batch) + (Len(queue) + 1) /\ Len(Line) = Len(batch) + Len(queue)
        /\ Len(batch) \in Nat /\ Len(queue) \in Nat
    BY <1>1, <1>2, LineFacts, Zenon
  <2>2. /\ Len(Line) + 1 = Len(Line') /\ Len(Line) + 1 \in 1..Len(Line') /\ ~(Len(Line) + 1 <= Len(batch))
        /\ (Len(Line) + 1) - Len(batch) = Len(queue) + 1
    BY <2>1
  <2>. QED  BY <2>2, <1>1, <1>2
<1>. QED  BY <1>1, <1>3, <1>4, LineFacts DEF Moved

\* The loop takes the first functor of its batch off the line.
LEMMA LineShifts ==
  ASSUME TypeInv, batch # <<>>, batch' = Tail(batch), queue' = queue
  PROVE  /\ Moved(1, 0, None) /\ Line[1] = Head(batch) /\ batch' \in Seq(Functors)
         /\ 1 \in 1..Len(Line) /\ Head(batch) \in Functors
<1>1. /\ batch \in Seq(Functors) /\ queue \in Seq(Functors) /\ batch' \in Seq(Functors) /\ Len(batch') = Len(batch) - 1
      /\ \A i \in 1..Len(batch') : batch'[i] = batch[i + 1]
      /\ Head(batch) = batch[1] /\ Head(batch) \in Functors /\ Len(batch) \in Nat \ {0}
  BY HeadTailProperties, EmptySeq, LenProperties DEF TypeInv
<1>2. /\ Len(Line') = Len(batch') + Len(queue)
      /\ \A i \in 1..Len(Line') : Line'[i] = IF i <= Len(batch') THEN batch'[i] ELSE queue[i - Len(batch')]
  BY <1>1, ConcatProperties DEF Line
<1>3. Len(Line') = Len(Line) - 1 /\ 1 \in 1..Len(Line)
  <2>1. /\ Len(Line') = Len(batch') + Len(queue) /\ Len(Line) = Len(batch) + Len(queue)
        /\ Len(batch') = Len(batch) - 1 /\ Len(batch) \in Nat \ {0} /\ Len(queue) \in Nat
    BY <1>1, <1>2, LineFacts, Zenon
  <2>. QED  BY <2>1
<1>4. ASSUME NEW i \in 1..(Len(Line) - 1) PROVE Line'[i] = Line[i + 1]
  <2>0. i \in 1..Len(Line')
    BY <1>3
  <2>1. CASE i <= Len(batch')
    <3>1. i \in 1..Len(batch') /\ i + 1 \in 1..Len(batch)
      BY <2>1, <1>1
    <3>2. Line[i + 1] = batch[i + 1]
      BY <3>1, LineFacts
    <3>. QED  BY <2>0, <2>1, <3>1, <3>2, <1>1, <1>2
  <2>2. CASE ~(i <= Len(batch'))
    <3>1. i - Len(batch') \in 1..Len(queue) /\ Len(batch) + (i - Len(batch')) = i + 1
      BY <2>2, <1>1, LineFacts
    <3>2. Line[i + 1] = queue[i - Len(batch')]
      BY <3>1, LineFacts
    <3>. QED  BY <2>0, <2>2, <3>2, <1>2
  <2>. QED  BY <2>1, <2>2
<1>5. Line[1] = Head(batch)
  <2>1. 1 \in 1..Len(batch)
    BY <1>1
  <2>. QED  BY <2>1, <1>1, LineFacts
<1>. QED  BY <1>1, <1>3, <1>4, <1>5, LineFacts DEF Moved

\* The loop takes the first functor, which queues another.
LEMMA LineShiftsGrows ==
  ASSUME TypeInv, NEW x \in Functors, batch # <<>>, batch' = Tail(batch), queue' = Append(queue, x)
  PROVE  /\ Moved(1, 1, x) /\ Line[1] = Head(batch) /\ batch' \in Seq(Functors) /\ queue' \in Seq(Functors)
         /\ 1 \in 1..Len(Line) /\ Head(batch) \in Functors
<1>1. /\ batch \in Seq(Functors) /\ queue \in Seq(Functors) /\ batch' \in Seq(Functors) /\ Len(batch') = Len(batch) - 1
      /\ \A i \in 1..Len(batch') : batch'[i] = batch[i + 1]
      /\ Head(batch) = batch[1] /\ Head(batch) \in Functors /\ Len(batch) \in Nat \ {0}
  BY HeadTailProperties, EmptySeq, LenProperties DEF TypeInv
<1>2. /\ queue' \in Seq(Functors) /\ Len(queue') = Len(queue) + 1
      /\ \A i \in 1..Len(queue) : queue'[i] = queue[i]
      /\ queue'[Len(queue) + 1] = x
  BY AppendProperties DEF TypeInv
<1>3. /\ Len(Line') = Len(batch') + Len(queue')
      /\ \A i \in 1..Len(Line') : Line'[i] = IF i <= Len(batch') THEN batch'[i] ELSE queue'[i - Len(batch')]
  BY <1>1, <1>2, ConcatProperties DEF Line
<1>4. Len(Line') = Len(Line) /\ 1 \in 1..Len(Line)
  <2>1. /\ Len(Line') = Len(batch') + Len(queue') /\ Len(Line) = Len(batch) + Len(queue)
        /\ Len(batch') = Len(batch) - 1 /\ Len(queue') = Len(queue) + 1
        /\ Len(batch) \in Nat \ {0} /\ Len(queue) \in Nat
    BY <1>1, <1>2, <1>3, LineFacts, Zenon
  <2>. QED  BY <2>1
<1>5. ASSUME NEW i \in 1..(Len(Line) - 1) PROVE Line'[i] = Line[i + 1]
  <2>0. i \in 1..Len(Line')
    <3>1. Len(Line') = Len(Line) /\ Len(Line) \in Nat
      BY <1>4, LineFacts, Zenon
    <3>. QED  BY <3>1
  <2>1. CASE i <= Len(batch')
    <3>1. i \in 1..Len(batch') /\ i + 1 \in 1..Len(batch)
      BY <2>1, <1>1
    <3>2. Line[i + 1] = batch[i + 1]
      BY <3>1, LineFacts
    <3>. QED  BY <2>0, <2>1, <3>1, <3>2, <1>1, <1>3
  <2>2. CASE ~(i <= Len(batch'))
    <3>1. i - Len(batch') \in 1..Len(queue) /\ Len(batch) + (i - Len(batch')) = i + 1
      BY <2>2, <1>1, LineFacts
    <3>2. Line[i + 1] = queue[i - Len(batch')]
      BY <3>1, LineFacts
    <3>. QED  BY <2>0, <2>2, <3>1, <3>2, <1>2, <1>3
  <2>. QED  BY <2>1, <2>2
<1>6. Line'[Len(Line) - 1 + 1] = x
  <2>1. /\ Len(Line) - 1 + 1 \in 1..Len(Line') /\ ~(Len(Line) - 1 + 1 <= Len(batch'))
        /\ (Len(Line) - 1 + 1) - Len(batch') = Len(queue) + 1
    <3>1. /\ Len(Line') = Len(Line) /\ Len(Line) = Len(batch) + Len(queue) /\ Len(batch') = Len(batch) - 1
          /\ Len(batch) \in Nat \ {0} /\ Len(queue) \in Nat
      BY <1>1, <1>4, LineFacts
    <3>. QED  BY <3>1
  <2>. QED  BY <2>1, <1>2, <1>3
<1>7. Line[1] = Head(batch)
  <2>1. 1 \in 1..Len(batch)
    BY <1>1
  <2>. QED  BY <2>1, <1>1, LineFacts
<1>. QED  BY <1>1, <1>2, <1>4, <1>5, <1>6, <1>7, LineFacts DEF Moved

\* doPendingFunctors swaps the queue into an empty batch.
LEMMA LineSwaps ==
  ASSUME TypeInv, batch = <<>>, batch' = queue, queue' = <<>>
  PROVE  Moved(0, 0, None) /\ batch' \in Seq(Functors) /\ queue' \in Seq(Functors)
<1>1. Line = queue /\ Line' = queue
  BY ConcatEmptySeq DEF TypeInv, Line
<1>. QED  BY <1>1, LineFacts DEF Moved, TypeInv

\* What waits after a step waited before it or is new, and stays unless it
\* was the first.
LEMMA WaitsMoves ==
  ASSUME NEW d, NEW n, NEW x, NEW name, Moved(d, n, x)
  PROVE  /\ Waits(name)' => Waits(name) \/ (n = 1 /\ x[1] = name)
         /\ Waits(name) => Waits(name)' \/ (d = 1 /\ Line[1][1] = name)
         /\ n = 1 => Waits(x[1])'
<1>1. ASSUME NEW i \in 1..Len(Line') PROVE (n = 1 /\ Line'[i] = x) \/ \E j \in 1..Len(Line) : Line'[i] = Line[j]
  <2>1. CASE i \in 1..(Len(Line) - d)
    <3>1. i + d \in 1..Len(Line) /\ Line'[i] = Line[i + d]
      BY <2>1 DEF Moved
    <3>. QED  BY <3>1
  <2>2. CASE i \notin 1..(Len(Line) - d)
    BY <2>2 DEF Moved
  <2>. QED  BY <2>1, <2>2
<1>2. ASSUME NEW j \in 1..Len(Line), ~(d = 1 /\ j = 1) PROVE \E i \in 1..Len(Line') : Line'[i] = Line[j]
  <2>1. j - d \in 1..(Len(Line) - d) /\ j - d \in 1..Len(Line') /\ (j - d) + d = j
    BY <1>2 DEF Moved
  <2>2. Line'[j - d] = Line[j]
    BY <2>1 DEF Moved
  <2>. QED  BY <2>1, <2>2
<1>3. n = 1 => Waits(x[1])'
  <2>1. n = 1 => Len(Line) - d + 1 \in 1..Len(Line')
    BY DEF Moved
  <2>2. n = 1 => Line'[Len(Line) - d + 1] = x
    BY DEF Moved
  <2>. QED  BY <2>1, <2>2, Zenon DEF Waits
<1>4. Waits(name)' => Waits(name) \/ (n = 1 /\ x[1] = name)
  BY <1>1 DEF Waits
<1>5. Waits(name) => Waits(name)' \/ (d = 1 /\ Line[1][1] = name)
  BY <1>2 DEF Waits
<1>. QED  BY <1>3, <1>4, <1>5

-----------------------------------------------------------------------------
(* The calls of a callback *)

\* The call at the top is over.
LEMMA CallsPop ==
  ASSUME TypeInv, LoopInv, calls # <<>>, calls' = Tail(calls)
  PROVE  /\ calls' \in Seq(CallSet) /\ Len(calls') <= 1
         /\ Head(calls) = calls[1] /\ calls[1] \in CallSet
         /\ \A name : Doing(name)' => name = "return"
         /\ Returning' => Returning
<1>1. /\ calls \in Seq(CallSet) /\ calls' \in Seq(CallSet) /\ Len(calls') = Len(calls) - 1 /\ Len(calls) \in Nat \ {0}
      /\ \A i \in 1..Len(calls') : calls'[i] = calls[i + 1]
      /\ Head(calls) = calls[1] /\ calls[1] \in CallSet
  BY HeadTailProperties, EmptySeq, LenProperties DEF TypeInv
<1>2. Len(calls') <= 1 /\ Len(calls') \in Nat
  BY <1>1 DEF LoopInv
<1>3. ASSUME NEW name, Doing(name)' PROVE name = "return"
  <2>1. Len(calls') = 1 /\ Len(calls) = 2
    BY <1>1, <1>2, <1>3, EmptySeq DEF Doing
  <2>2. calls'[1] = calls[2]
    BY <1>1, <2>1
  <2>. QED  BY <1>3, <2>1, <2>2 DEF LoopInv, Doing
<1>4. ASSUME NEW i \in 1..Len(calls'), calls'[i][1] = "return" PROVE Returning
  <2>1. i + 1 \in 1..Len(calls) /\ calls[i + 1][1] = "return"
    BY <1>1, <1>4
  <2>. QED  BY <2>1 DEF Returning
<1>. QED  BY <1>1, <1>2, <1>3, <1>4 DEF Returning

\* The call at the top makes the next call in its place.
LEMMA CallsReplace ==
  ASSUME TypeInv, LoopInv, NEW x \in CallSet, x[1] # "return", calls # <<>>, calls' = <<x>> \o Tail(calls)
  PROVE  /\ calls' \in Seq(CallSet) /\ calls' # <<>> /\ calls'[1] = x
         /\ Len(calls') <= 2 /\ (Len(calls') = 2 => calls'[2][1] = "return")
         /\ Returning' => Returning
<1>1. /\ calls \in Seq(CallSet) /\ Tail(calls) \in Seq(CallSet) /\ Len(Tail(calls)) = Len(calls) - 1 /\ Len(calls) \in Nat \ {0}
      /\ \A i \in 1..Len(Tail(calls)) : Tail(calls)[i] = calls[i + 1]
  BY HeadTailProperties, EmptySeq, LenProperties DEF TypeInv
<1>2. <<x>> \in Seq(CallSet) /\ Len(<<x>>) = 1 /\ <<x>>[1] = x
  OBVIOUS
<1>3. /\ calls' \in Seq(CallSet) /\ Len(calls') = 1 + (Len(calls) - 1)
      /\ \A i \in 1..Len(calls') : calls'[i] = IF i <= 1 THEN <<x>>[i] ELSE Tail(calls)[i - 1]
  BY <1>1, <1>2, ConcatProperties
<1>4. Len(calls') = Len(calls) /\ calls'[1] = x /\ calls' # <<>>
  BY <1>1, <1>2, <1>3, EmptySeq
<1>5. ASSUME NEW i \in 1..Len(calls'), i # 1 PROVE calls'[i] = calls[i]
  <2>1. i - 1 \in 1..Len(Tail(calls)) /\ (i - 1) + 1 = i /\ ~(i <= 1)
    BY <1>1, <1>4, <1>5
  <2>. QED  BY <2>1, <1>1, <1>3
<1>6. Returning' => Returning
  BY <1>4, <1>5 DEF Returning
<1>. QED  BY <1>3, <1>4, <1>5, <1>6 DEF LoopInv

\* A functor or a callback makes its first call.
LEMMA CallsBegin ==
  ASSUME TypeInv, NEW x \in CallSet, x[1] # "return", calls = <<>>,
         calls' = <<x>> \/ calls' = <<x>> \o calls
  PROVE  /\ calls' \in Seq(CallSet) /\ calls' # <<>> /\ calls'[1] = x /\ Len(calls') = 1
         /\ ~Returning'
<1>1. <<x>> \in Seq(CallSet) /\ <<x>> \o <<>> = <<x>>
  BY ConcatEmptySeq
<1>2. calls' = <<x>>
  BY <1>1
<1>. QED  BY <1>1, <1>2 DEF Returning

\* A call goes on below the one it makes.
LEMMA CallsTwo ==
  ASSUME NEW f \in Fds, calls' = <<Call("newConnection", f), Call("return", f)>>
  PROVE  /\ calls' \in Seq(CallSet) /\ calls' # <<>> /\ calls'[1] = <<"newConnection", f>> /\ Len(calls') = 2
         /\ calls'[2] = <<"return", f>> /\ \A name : Doing(name)' => name = "newConnection"
<1>1. <<"newConnection", f>> \in CallSet /\ <<"return", f>> \in CallSet
  BY DEF CallSet
<1>. QED  BY <1>1 DEF Call, Doing

-----------------------------------------------------------------------------
(* The calls of other threads *)

HasStop(p) == \E i \in DOMAIN p : p[i] = QueueStop

\* What the steps are called, and that they differ.
LEMMA StepNames ==
  /\ ClientOn[1] = "client" /\ ClientOn[2] = TRUE /\ ClientOff[1] = "client" /\ ClientOff[2] = FALSE
  /\ ConnectorOn[1] = "connector" /\ ConnectorOn[2] = TRUE /\ ConnectorOff[1] = "connector" /\ ConnectorOff[2] = FALSE
  /\ QueueStart[1] = "queueStart" /\ QueueStop[1] = "queueStop" /\ Shutdown[1] = "shutdown"
  /\ Look[1] = "look" /\ Die[1] = "dies"
  /\ \A f : Replacing(f)[1] = "setCloseCallback" /\ Replacing(f)[2] = f /\ Forcing(f)[1] = "forceClose" /\ Forcing(f)[2] = f
BY DEF ClientOn, ClientOff, ConnectorOn, ConnectorOff, QueueStart, QueueStop, Shutdown, Look, Die, Replacing, Forcing, Call

\* The steps of stop().
LEMMA StopSteps == Steps("stop") = <<ClientOff, ConnectorOff, QueueStop>>
BY DEF Steps, ClientOff, ConnectorOff, QueueStop

\* One step of a plan, and what is left of it.
NextOf(p) ==
    /\ Tail(p) \in Plans /\ Tail(p) # Steps("stop")
    /\ Tail(p) \in ConnectPlans => p \in ConnectPlans
    /\ Head(p)[1] \in {"client", "connector"} => Head(p)[2] \in BOOLEAN /\ (Head(p)[2] = TRUE => p \in ConnectPlans)
    /\ Head(p)[1] = "queueStart" => p \in ConnectPlans
    /\ p = Steps("stop") => Head(p) = ClientOff
    /\ HasStop(p) => Head(p)[1] = "queueStop" \/ HasStop(Tail(p))
    /\ Head(p)[1] = "look" => ~HasStop(p)
    /\ Head(p)[1] = "setCloseCallback" => \E f \in Fds : Head(p) = Replacing(f)
    /\ Head(p)[1] = "forceClose" => \E f \in Fds : Head(p) = Forcing(f)

\* What each plan of a user is once its first step is done.
LEMMA NextOfPlan ==
  ASSUME NEW p \in Plans, p # <<>>
  PROVE  NextOf(p)
<1>1. CASE p = <<ClientOn, ConnectorOn, QueueStart>>
  <2>1. Head(p) = ClientOn /\ Tail(p) = <<ConnectorOn, QueueStart>> /\ Tail(p) \in Plans /\ p \in ConnectPlans
    BY <1>1 DEF ConnectPlans, StopPlans, DisconnectPlans, DestroyPlans, Plans
  <2>2. ~HasStop(p)
    BY <1>1, StepNames DEF HasStop
  <2>3. p # Steps("stop") /\ Tail(p) # Steps("stop")
    BY <1>1, <2>1, StepNames, StopSteps
  <2>. QED  BY <2>1, <2>2, <2>3, StepNames DEF NextOf
<1>2. CASE p = <<ConnectorOn, QueueStart>>
  <2>1. Head(p) = ConnectorOn /\ Tail(p) = <<QueueStart>> /\ Tail(p) \in Plans /\ p \in ConnectPlans
    BY <1>2 DEF ConnectPlans, StopPlans, DisconnectPlans, DestroyPlans, Plans
  <2>2. ~HasStop(p)
    BY <1>2, StepNames DEF HasStop
  <2>3. p # Steps("stop") /\ Tail(p) # Steps("stop")
    BY <1>2, <2>1, StepNames, StopSteps
  <2>. QED  BY <2>1, <2>2, <2>3, StepNames DEF NextOf
<1>3. CASE p = <<QueueStart>>
  <2>1. Head(p) = QueueStart /\ Tail(p) = <<>> /\ Tail(p) \in Plans /\ p \in ConnectPlans
    BY <1>3 DEF ConnectPlans, StopPlans, DisconnectPlans, DestroyPlans, Plans
  <2>2. ~HasStop(p)
    BY <1>3, StepNames DEF HasStop
  <2>3. p # Steps("stop") /\ Tail(p) # Steps("stop")
    BY <1>3, <2>1, StepNames, StopSteps
  <2>. QED  BY <2>1, <2>2, <2>3, StepNames DEF NextOf
<1>4. CASE p = <<ClientOff, ConnectorOff, QueueStop>>
  <2>1. Head(p) = ClientOff /\ Tail(p) = <<ConnectorOff, QueueStop>> /\ Tail(p) \in Plans
    BY <1>4 DEF ConnectPlans, StopPlans, DisconnectPlans, DestroyPlans, Plans
  <2>2. Tail(p) \notin ConnectPlans
    BY <2>1, StepNames DEF ConnectPlans
  <2>3. HasStop(Tail(p))
    <3>1. 2 \in DOMAIN <<ConnectorOff, QueueStop>> /\ <<ConnectorOff, QueueStop>>[2] = QueueStop
      OBVIOUS
    <3>. QED  BY <2>1, <3>1 DEF HasStop
  <2>4. Tail(p) # Steps("stop")
    <3>1. <<ConnectorOff, QueueStop>> # <<ClientOff, ConnectorOff, QueueStop>>
      BY StepNames
    <3>. QED  BY <2>1, <3>1, StopSteps, Zenon
  <2>. QED  BY <2>1, <2>2, <2>3, <2>4, StepNames DEF NextOf
<1>5. CASE p = <<ConnectorOff, QueueStop>>
  <2>1. Head(p) = ConnectorOff /\ Tail(p) = <<QueueStop>> /\ Tail(p) \in Plans
    BY <1>5 DEF ConnectPlans, StopPlans, DisconnectPlans, DestroyPlans, Plans
  <2>2. Tail(p) \notin ConnectPlans
    BY <2>1, StepNames DEF ConnectPlans
  <2>3. HasStop(Tail(p))
    <3>1. 1 \in DOMAIN <<QueueStop>> /\ <<QueueStop>>[1] = QueueStop
      OBVIOUS
    <3>. QED  BY <2>1, <3>1 DEF HasStop
  <2>4. p # Steps("stop") /\ Tail(p) # Steps("stop")
    BY <1>5, <2>1, StepNames, StopSteps
  <2>. QED  BY <2>1, <2>2, <2>3, <2>4, StepNames DEF NextOf
<1>6. CASE p = <<QueueStop>>
  <2>1. Head(p) = QueueStop /\ Tail(p) = <<>> /\ Tail(p) \in Plans
    BY <1>6 DEF ConnectPlans, StopPlans, DisconnectPlans, DestroyPlans, Plans
  <2>2. Tail(p) \notin ConnectPlans
    BY <2>1, StepNames DEF ConnectPlans
  <2>3. p # Steps("stop") /\ Tail(p) # Steps("stop")
    BY <1>6, <2>1, StepNames, StopSteps
  <2>. QED  BY <2>1, <2>2, <2>3, StepNames DEF NextOf
<1>7. CASE p = <<ClientOff, Shutdown>>
  <2>1. Head(p) = ClientOff /\ Tail(p) = <<Shutdown>> /\ Tail(p) \in Plans
    BY <1>7 DEF ConnectPlans, StopPlans, DisconnectPlans, DestroyPlans, Plans
  <2>2. Tail(p) \notin ConnectPlans
    BY <2>1, StepNames DEF ConnectPlans
  <2>3. ~HasStop(p)
    BY <1>7, StepNames DEF HasStop
  <2>4. p # Steps("stop") /\ Tail(p) # Steps("stop")
    BY <1>7, <2>1, StepNames, StopSteps
  <2>. QED  BY <2>1, <2>2, <2>3, <2>4, StepNames DEF NextOf
<1>8. CASE p = <<Shutdown>>
  <2>1. Head(p) = Shutdown /\ Tail(p) = <<>> /\ Tail(p) \in Plans
    BY <1>8 DEF ConnectPlans, StopPlans, DisconnectPlans, DestroyPlans, Plans
  <2>2. Tail(p) \notin ConnectPlans
    BY <2>1, StepNames DEF ConnectPlans
  <2>3. ~HasStop(p)
    BY <1>8, StepNames DEF HasStop
  <2>4. p # Steps("stop") /\ Tail(p) # Steps("stop")
    BY <1>8, <2>1, StepNames, StopSteps
  <2>. QED  BY <2>1, <2>2, <2>3, <2>4, StepNames DEF NextOf
<1>9. CASE p = <<Look>>
  <2>1. Head(p) = Look /\ Tail(p) = <<>> /\ Tail(p) \in Plans
    BY <1>9 DEF ConnectPlans, StopPlans, DisconnectPlans, DestroyPlans, Plans
  <2>2. Tail(p) \notin ConnectPlans
    BY <2>1, StepNames DEF ConnectPlans
  <2>3. ~HasStop(p)
    BY <1>9, StepNames DEF HasStop
  <2>4. p # Steps("stop") /\ Tail(p) # Steps("stop")
    BY <1>9, <2>1, StepNames, StopSteps
  <2>. QED  BY <2>1, <2>2, <2>3, <2>4, StepNames DEF NextOf
<1>10. CASE p = <<ConnectorOff, QueueStop, Die>>
  <2>1. Head(p) = ConnectorOff /\ Tail(p) = <<QueueStop, Die>> /\ Tail(p) \in Plans
    BY <1>10 DEF ConnectPlans, StopPlans, DisconnectPlans, DestroyPlans, Plans
  <2>2. Tail(p) \notin ConnectPlans
    BY <2>1, StepNames DEF ConnectPlans
  <2>3. HasStop(Tail(p))
    <3>1. 1 \in DOMAIN <<QueueStop, Die>> /\ <<QueueStop, Die>>[1] = QueueStop
      OBVIOUS
    <3>. QED  BY <2>1, <3>1 DEF HasStop
  <2>4. p # Steps("stop") /\ Tail(p) # Steps("stop")
    BY <1>10, <2>1, StepNames, StopSteps
  <2>. QED  BY <2>1, <2>2, <2>3, <2>4, StepNames DEF NextOf
<1>11. CASE p = <<QueueStop, Die>>
  <2>1. Head(p) = QueueStop /\ Tail(p) = <<Die>> /\ Tail(p) \in Plans
    BY <1>11 DEF ConnectPlans, StopPlans, DisconnectPlans, DestroyPlans, Plans
  <2>2. Tail(p) \notin ConnectPlans
    BY <2>1, StepNames DEF ConnectPlans
  <2>3. p # Steps("stop") /\ Tail(p) # Steps("stop")
    BY <1>11, <2>1, StepNames, StopSteps
  <2>. QED  BY <2>1, <2>2, <2>3, StepNames DEF NextOf
<1>12. CASE p = <<Die>>
  <2>1. Head(p) = Die /\ Tail(p) = <<>> /\ Tail(p) \in Plans
    BY <1>12 DEF ConnectPlans, StopPlans, DisconnectPlans, DestroyPlans, Plans
  <2>2. Tail(p) \notin ConnectPlans
    BY <2>1, StepNames DEF ConnectPlans
  <2>3. ~HasStop(p)
    BY <1>12, StepNames DEF HasStop
  <2>4. p # Steps("stop") /\ Tail(p) # Steps("stop")
    BY <1>12, <2>1, StepNames, StopSteps
  <2>. QED  BY <2>1, <2>2, <2>3, <2>4, StepNames DEF NextOf
<1>13. ASSUME NEW f \in Fds, p = <<Replacing(f), Die>> PROVE NextOf(p)
  <2>1. Head(p) = Replacing(f) /\ Tail(p) = <<Die>> /\ Tail(p) \in Plans
    BY <1>13 DEF ConnectPlans, StopPlans, DisconnectPlans, DestroyPlans, Plans
  <2>2. Tail(p) \notin ConnectPlans
    BY <2>1, StepNames DEF ConnectPlans
  <2>3. ~HasStop(p)
    BY <1>13, StepNames DEF HasStop
  <2>4. p # Steps("stop") /\ Tail(p) # Steps("stop")
    BY <1>13, <2>1, StepNames, StopSteps
  <2>. QED  BY <2>1, <2>2, <2>3, <2>4, StepNames DEF NextOf
<1>14. ASSUME NEW f \in Fds, p = <<Replacing(f), Forcing(f), Die>> PROVE NextOf(p)
  <2>1. Head(p) = Replacing(f) /\ Tail(p) = <<Forcing(f), Die>> /\ Tail(p) \in Plans
    BY <1>14 DEF ConnectPlans, StopPlans, DisconnectPlans, DestroyPlans, Plans
  <2>2. Tail(p) \notin ConnectPlans
    BY <2>1, StepNames DEF ConnectPlans
  <2>3. ~HasStop(p)
    BY <1>14, StepNames DEF HasStop
  <2>4. p # Steps("stop") /\ Tail(p) # Steps("stop")
    BY <1>14, <2>1, StepNames, StopSteps
  <2>. QED  BY <2>1, <2>2, <2>3, <2>4, StepNames DEF NextOf
<1>15. ASSUME NEW f \in Fds, p = <<Forcing(f), Die>> PROVE NextOf(p)
  <2>1. Head(p) = Forcing(f) /\ Tail(p) = <<Die>> /\ Tail(p) \in Plans
    BY <1>15 DEF ConnectPlans, StopPlans, DisconnectPlans, DestroyPlans, Plans
  <2>2. Tail(p) \notin ConnectPlans
    BY <2>1, StepNames DEF ConnectPlans
  <2>3. ~HasStop(p)
    BY <1>15, StepNames DEF HasStop
  <2>4. p # Steps("stop") /\ Tail(p) # Steps("stop")
    BY <1>15, <2>1, StepNames, StopSteps
  <2>. QED  BY <2>1, <2>2, <2>3, <2>4, StepNames DEF NextOf
<1>. QED  BY <1>1, <1>2, <1>3, <1>4, <1>5, <1>6, <1>7, <1>8, <1>9, <1>10, <1>11, <1>12, <1>13, <1>14, <1>15
          DEF Plans, ConnectPlans, StopPlans, DisconnectPlans, DestroyPlans

\* A step that is not the last of its plan, in the plans of all threads.
LEMMA DoneStep ==
  ASSUME TypeInv, NEW u \in Users, upc[u] # <<>>, Done(u)
  PROVE  /\ upc' \in [Users -> Plans] /\ upc[u] \in Plans /\ NextOf(upc[u])
         /\ \A v \in Users : upc'[v] \in ConnectPlans => upc[v] \in ConnectPlans
         /\ \A v \in Users : upc[v] = Steps("stop") => upc'[v] = upc[v] \/ Head(upc[u]) = ClientOff
         /\ Pending("queueStop") => Pending("queueStop")' \/ Head(upc[u])[1] = "queueStop"
<1>1. upc \in [Users -> Plans] /\ upc' = [upc EXCEPT ![u] = Tail(upc[u])] /\ upc[u] \in Plans
  BY DEF TypeInv, Done
<1>2. \A v \in Users : upc'[v] = IF v = u THEN Tail(upc[u]) ELSE upc[v]
  BY <1>1
<1>3. NextOf(upc[u])
  BY <1>1, NextOfPlan
<1>4. upc' \in [Users -> Plans]
  BY <1>1, <1>3 DEF NextOf
<1>5. \A v \in Users : HasStop(upc[v]) => HasStop(upc'[v]) \/ Head(upc[u])[1] = "queueStop"
  BY <1>1, <1>2, <1>3 DEF NextOf
<1>6. Pending("queueStop") => Pending("queueStop")' \/ Head(upc[u])[1] = "queueStop"
  BY <1>5 DEF Pending, HasStop, Range, QueueStop
<1>7. \A v \in Users : upc'[v] \in ConnectPlans => upc[v] \in ConnectPlans
  BY <1>2, <1>3 DEF NextOf
<1>8. \A v \in Users : upc[v] = Steps("stop") => upc'[v] = upc[v] \/ Head(upc[u]) = ClientOff
  BY <1>2, <1>3 DEF NextOf
<1>. QED  BY <1>1, <1>3, <1>4, <1>6, <1>7, <1>8

-----------------------------------------------------------------------------
(* Parts of the invariant that the line takes part in *)

\* Functors that leave or enter the line keep connectDestroyed in its place,
\* if it is queued only by the close callback that is under way.
LEMMA DestroyMoves ==
  ASSUME TypeInv, DestroyInv, NEW d, NEW n, NEW x, Moved(d, n, x), \A i \in 1..Len(Line) : Line[i] \in Functors,
         \A f \in Fds : conn[f] = "kDisconnected" =>
            conn'[f] = "kDisconnected" \/ (d = 1 /\ Line[1] = <<"connectDestroyed", f>>),
         \A f \in Fds : conn[f] # "none" =>
            conn'[f] # "none" \/ (d = 1 /\ Line[1] = <<"connectDestroyed", f>>),
         n = 1 => x \in Functors,
         n = 1 /\ x[1] = "connectDestroyed" => /\ conn'[x[2]] = "kDisconnected"
                                               /\ Doing("closeCallback") /\ calls[1][2] = x[2]
                                               /\ ~Doing("closeCallback")',
         n = 1 /\ x[1] = "shutdownInLoop" => Live(x[2]) /\ conn'[x[2]] # "none",
         Doing("closeCallback")' => \/ Doing("closeCallback") /\ calls'[1][2] = calls[1][2]
                                    \/ Live(calls'[1][2])
  PROVE  DestroyInv'
<1>1. ASSUME NEW i \in 1..Len(Line')
      PROVE  \/ i \in 1..(Len(Line) - d) /\ i + d \in 1..Len(Line) /\ Line'[i] = Line[i + d]
             \/ n = 1 /\ i = Len(Line) - d + 1 /\ Line'[i] = x
  BY DEF Moved
<1>2. d \in 0..1 /\ n \in 0..1 /\ Len(Line) \in Nat /\ d <= Len(Line) /\ Len(Line') = Len(Line) - d + n
  BY DEF Moved
<1>3. \A y \in Functors : y = <<y[1], y[2]>> /\ (y[1] \in Bound => y[2] \in Fds)
  BY DEF Functors, Plain, Bound
<1>4. ASSUME NEW i \in 1..Len(Line'), Line'[i][1] = "connectDestroyed"
      PROVE  /\ conn'[Line'[i][2]] = "kDisconnected"
             /\ \A j \in 1..Len(Line') : Line'[j] = Line'[i] => j = i
             /\ \A j \in 1..Len(Line') : Line'[j] = <<"shutdownInLoop", Line'[i][2]>> => j < i
             /\ Doing("closeCallback")' => calls'[1][2] # Line'[i][2]
  <2>1. CASE i \in 1..(Len(Line) - d) /\ i + d \in 1..Len(Line) /\ Line'[i] = Line[i + d]
    <3> DEFINE f == Line'[i][2]
    <3>0. f \in Fds /\ Line[i + d] = <<"connectDestroyed", f>> /\ Line[i + d][1] = "connectDestroyed" /\ Line[i + d][2] = f
      BY <2>1, <1>3, <1>4 DEF Bound
    <3>1. /\ f \in Fds /\ conn[f] = "kDisconnected" /\ Line[i + d] = <<"connectDestroyed", f>>
          /\ \A j \in 1..Len(Line) : Line[j] = Line[i + d] => j = i + d
          /\ \A j \in 1..Len(Line) : Line[j] = <<"shutdownInLoop", f>> => j < i + d
          /\ Doing("closeCallback") => calls[1][2] # f
      BY <3>0, <2>1 DEF DestroyInv
    <3> HIDE DEF f
    <3>2. ~(d = 1 /\ Line[1] = <<"connectDestroyed", f>>)
      <4>1. ASSUME d = 1, Line[1] = <<"connectDestroyed", f>> PROVE FALSE
        <5>1. 1 \in 1..Len(Line) /\ Line[1] = Line[i + d]
          BY <4>1, <3>1, <2>1, <1>2
        <5>2. 1 = i + d
          BY <5>1, <3>1
        <5>. QED  BY <5>2, <4>1, <2>1, <1>2
      <4>. QED  BY <4>1
    <3>3. conn'[f] = "kDisconnected"
      BY <3>1, <3>2
    <3>4. ASSUME NEW j \in 1..Len(Line'), Line'[j] = Line'[i] PROVE j = i
      <4>1. CASE j + d \in 1..Len(Line) /\ Line'[j] = Line[j + d]
        <5>1. Line[j + d] = Line[i + d]
          BY <4>1, <3>4, <2>1
        <5>2. j + d = i + d
          BY <4>1, <5>1, <3>1
        <5>. QED  BY <5>2, <1>2
      <4>2. CASE n = 1 /\ Line'[j] = x
        BY <4>2, <3>1, <3>4, <2>1
      <4>. QED  BY <4>1, <4>2, <1>1
    <3>5. ASSUME NEW j \in 1..Len(Line'), Line'[j] = <<"shutdownInLoop", f>> PROVE j < i
      <4>1. CASE j + d \in 1..Len(Line) /\ Line'[j] = Line[j + d]
        <5>1. Line[j + d] = <<"shutdownInLoop", f>>
          BY <4>1, <3>5
        <5>2. j + d < i + d
          BY <4>1, <5>1, <3>1
        <5>. QED  BY <5>2, <1>2
      <4>2. CASE n = 1 /\ Line'[j] = x
        BY <4>2, <3>1, <3>5 DEF Live
      <4>. QED  BY <4>1, <4>2, <1>1
    <3>6. Doing("closeCallback")' => calls'[1][2] # f
      BY <3>1 DEF Live
    <3>. QED  BY <3>3, <3>4, <3>5, <3>6 DEF f
  <2>2. CASE n = 1 /\ i = Len(Line) - d + 1 /\ Line'[i] = x
    <3>1. ASSUME NEW j \in 1..Len(Line'), Line'[j] = Line'[i] PROVE j = i
      <4>1. CASE j + d \in 1..Len(Line) /\ Line'[j] = Line[j + d]
        <5>1. Line[j + d] = x /\ x[1] = "connectDestroyed" /\ Doing("closeCallback") /\ calls[1][2] = x[2]
          BY <4>1, <3>1, <2>2, <1>4
        <5>2. calls[1][2] # Line[j + d][2]
          BY <5>1, <4>1 DEF DestroyInv
        <5>. QED  BY <5>1, <5>2
      <4>2. CASE n = 1 /\ j = Len(Line) - d + 1
        BY <4>2, <2>2
      <4>. QED  BY <4>1, <4>2, <1>1
    <3>2. ASSUME NEW j \in 1..Len(Line'), Line'[j] = <<"shutdownInLoop", x[2]>> PROVE j < i
      <4>1. CASE j \in 1..(Len(Line) - d)
        BY <4>1, <2>2, <1>2
      <4>2. CASE Line'[j] = x
        <5>1. x[1] = "connectDestroyed"
          BY <2>2, <1>4
        <5>2. x = <<"shutdownInLoop", x[2]>> /\ <<"shutdownInLoop", x[2]>>[1] = "shutdownInLoop"
          BY <4>2, <3>2
        <5>3. x[1] = "shutdownInLoop"
          BY <5>2, Zenon
        <5>. QED  BY <5>1, <5>3
      <4>. QED  BY <4>1, <4>2, <1>1
    <3>. QED  BY <3>1, <3>2, <2>2, <1>4
  <2>. QED  BY <2>1, <2>2, <1>1
<1>5. ASSUME NEW i \in 1..Len(Line'), Line'[i][1] = "shutdownInLoop" PROVE conn'[Line'[i][2]] # "none"
  <2>1. CASE i \in 1..(Len(Line) - d) /\ i + d \in 1..Len(Line) /\ Line'[i] = Line[i + d]
    <3> DEFINE f == Line'[i][2]
    <3>1. f \in Fds /\ conn[f] # "none" /\ Line[i + d] = <<"shutdownInLoop", f>>
      BY <2>1, <1>3, <1>5 DEF DestroyInv, Bound
    <3>2. CASE d = 1 /\ Line[1] = <<"connectDestroyed", f>>
      <4>1. 1 \in 1..Len(Line) /\ Line[1][1] = "connectDestroyed" /\ Line[1][2] = f
        BY <3>2, <1>2
      <4>2. \A j \in 1..Len(Line) : Line[j] = <<"shutdownInLoop", f>> => j < 1
        BY <4>1 DEF DestroyInv
      <4>. QED  BY <4>2, <3>1, <2>1
    <3>. QED  BY <3>1, <3>2
  <2>2. CASE n = 1 /\ Line'[i] = x
    BY <2>2, <1>5
  <2>. QED  BY <2>1, <2>2, <1>1
<1>. QED  BY <1>4, <1>5 DEF DestroyInv

\* A step of the loop after the client has gone.
LEMMA DeadMoves ==
  ASSUME TypeInv, DeadInv, NEW d, NEW n, NEW x, Moved(d, n, x),
         clientAlive' = clientAlive, risky' = risky, upc' = upc,
         n = 1 => x[1] # "startInLoop",
         ~clientAlive /\ ~risky =>
            /\ connect_' = connect_ /\ connection_' = connection_
            /\ ~Doing("newConnection")' /\ ~Doing("restart")'
            /\ state_' = "kConnecting" => state_ = "kConnecting" /\ ~(d = 1 /\ Line[1][1] = "stopInLoop")
            /\ \A f \in Fds : Live(f)' => Live(f) /\ closeCallback'[f] \in {closeCallback[f], "detail"}
            /\ \A f \in Fds : Doing("closeCallback")' /\ calls'[1][2] = f =>
                  /\ closeCallback'[f] \in {closeCallback[f], "detail"}
                  /\ Live(f) \/ (Doing("closeCallback") /\ calls[1][2] = f)
  PROVE  DeadInv'
<1>. SUFFICES ASSUME ~clientAlive, ~risky
     PROVE  /\ \A u \in Users : upc'[u] = <<>>
            /\ connect_' = FALSE \/ connection_' # None
            /\ ~Doing("newConnection")' /\ ~Doing("restart")'
            /\ state_' = "kConnecting" => Waits("stopInLoop")'
            /\ \A i \in 1..Len(Line') : Line'[i][1] = "startInLoop" =>
                  \E j \in 1..Len(Line') : i < j /\ Line'[j][1] = "stopInLoop"
            /\ \A f \in Fds : Live(f)' \/ (Doing("closeCallback")' /\ calls'[1][2] = f) => closeCallback'[f] = "detail"
  BY DEF DeadInv
<1>1. /\ \A u \in Users : upc'[u] = <<>>
      /\ connect_' = FALSE \/ connection_' # None
      /\ ~Doing("newConnection")' /\ ~Doing("restart")'
      /\ \A f \in Fds : Live(f)' \/ (Doing("closeCallback")' /\ calls'[1][2] = f) => closeCallback'[f] = "detail"
  BY DEF DeadInv
<1>2. state_' = "kConnecting" => Waits("stopInLoop")'
  BY WaitsMoves DEF DeadInv
<1>3. ASSUME NEW i \in 1..Len(Line'), Line'[i][1] = "startInLoop"
      PROVE  \E j \in 1..Len(Line') : i < j /\ Line'[j][1] = "stopInLoop"
  <2>1. d \in 0..1 /\ n \in 0..1 /\ Len(Line) \in Nat /\ d <= Len(Line) /\ Len(Line') = Len(Line) - d + n
    BY DEF Moved
  <2>2. i \in 1..(Len(Line) - d) /\ i + d \in 1..Len(Line) /\ Line'[i] = Line[i + d]
    BY <1>3 DEF Moved
  <2>3. PICK k \in 1..Len(Line) : i + d < k /\ Line[k][1] = "stopInLoop"
    BY <2>2, <1>3 DEF DeadInv
  <2>4. k - d \in 1..(Len(Line) - d) /\ k - d \in 1..Len(Line') /\ i < k - d /\ (k - d) + d = k
    BY <2>1, <2>2, <2>3
  <2>5. Line'[k - d] = Line[k]
    BY <2>4 DEF Moved
  <2>. QED  BY <2>3, <2>4, <2>5
<1>. QED  BY <1>1, <1>2, <1>3

\* The last stop stays behind every start.
LEMMA StopStaysLast ==
  ASSUME NEW d, NEW n, NEW x, Moved(d, n, x), n = 1 => x[1] # "startInLoop",
         ~(d = 1 /\ Line[1][1] = "stopInLoop") \/ Waits("stopInLoop")',
         \E i \in 1..Len(Line) : /\ Line[i][1] = "stopInLoop"
                                 /\ \A j \in 1..Len(Line) : i < j => Line[j][1] # "startInLoop"
  PROVE  \E i \in 1..Len(Line') : /\ Line'[i][1] = "stopInLoop"
                                  /\ \A j \in 1..Len(Line') : i < j => Line'[j][1] # "startInLoop"
<1>1. d \in 0..1 /\ n \in 0..1 /\ Len(Line) \in Nat /\ d <= Len(Line) /\ Len(Line') = Len(Line) - d + n
  BY DEF Moved
<1>2. PICK k \in 1..Len(Line) : /\ Line[k][1] = "stopInLoop"
                                /\ \A j \in 1..Len(Line) : k < j => Line[j][1] # "startInLoop"
  OBVIOUS
<1>3. ASSUME NEW j \in 1..Len(Line'), k < j + d PROVE Line'[j][1] # "startInLoop"
  <2>1. CASE j \in 1..(Len(Line) - d)
    <3>1. j + d \in 1..Len(Line)
      BY <2>1, <1>1
    <3>2. Line'[j] = Line[j + d]
      BY <2>1 DEF Moved
    <3>. QED  BY <3>1, <3>2, <1>2, <1>3
  <2>2. CASE j \notin 1..(Len(Line) - d)
    <3>1. n = 1 /\ j = Len(Line) - d + 1
      BY <2>2, <1>1
    <3>2. n = 1 => Line'[Len(Line) - d + 1] = x
      BY DEF Moved
    <3>. QED  BY <3>1, <3>2, Zenon
  <2>. QED  BY <2>1, <2>2
<1>4. CASE d < k
  <2>1. k - d \in 1..(Len(Line) - d) /\ k - d \in 1..Len(Line') /\ (k - d) + d = k
    BY <1>1, <1>4
  <2>2. Line'[k - d] = Line[k]
    BY <2>1 DEF Moved
  <2>3. \A j \in 1..Len(Line') : k - d < j => k < j + d
    BY <1>1
  <2>. QED  BY <1>2, <1>3, <2>1, <2>2, <2>3
<1>5. CASE ~(d < k)
  <2>1. d = 1 /\ k = 1
    BY <1>1, <1>5
  <2>2. PICK i \in 1..Len(Line') : Line'[i][1] = "stopInLoop"
    BY <2>1, <1>2 DEF Waits
  <2>3. \A j \in 1..Len(Line') : k < j + d
    BY <2>1, <1>1
  <2>. QED  BY <2>2, <2>3, <1>3
<1>. QED  BY <1>4, <1>5

\* A step of the loop that is not the end of a stop().
LEMMA QuietMoves ==
  ASSUME TypeInv, QuietInv, NEW d, NEW n, NEW x, Moved(d, n, x),
         quiet' = quiet, clientConnect' = clientConnect, upc' = upc,
         n = 1 => x[1] # "startInLoop",
         ~(d = 1 /\ Line[1][1] = "stopInLoop"),
         quiet = "yes" => /\ state_' # "kConnecting"
                          /\ ~Doing("newConnection")' /\ ~Doing("restart")' /\ ~Doing("startInLoop")'
  PROVE  QuietInv'
<1>1. quiet' # "no" => \A u \in Users : upc'[u] \notin ConnectPlans
  BY DEF QuietInv
<1>2. ASSUME quiet' = "asked"
      PROVE  /\ ~clientConnect' \/ \E u \in Users : upc'[u] = Steps("stop")
             /\ \/ Pending("queueStop")'
                \/ \E i \in 1..Len(Line') : /\ Line'[i][1] = "stopInLoop"
                                            /\ \A j \in 1..Len(Line') : i < j => Line'[j][1] # "startInLoop"
  <2>1. ~clientConnect' \/ \E u \in Users : upc'[u] = Steps("stop")
    BY <1>2 DEF QuietInv
  <2>2. CASE Pending("queueStop")
    BY <2>1, <2>2 DEF Pending
  <2>3. CASE \E i \in 1..Len(Line) : /\ Line[i][1] = "stopInLoop"
                                     /\ \A j \in 1..Len(Line) : i < j => Line[j][1] # "startInLoop"
    BY <2>1, <2>3, StopStaysLast
  <2>. QED  BY <2>2, <2>3, <1>2 DEF QuietInv
<1>3. quiet' = "yes" => /\ ~clientConnect' /\ ~Waits("startInLoop")' /\ state_' # "kConnecting"
                        /\ ~Doing("newConnection")' /\ ~Doing("restart")' /\ ~Doing("startInLoop")'
  BY WaitsMoves DEF QuietInv
<1>. QED  BY <1>1, <1>2, <1>3 DEF QuietInv

-----------------------------------------------------------------------------
(* Steps that leave a part's variables alone *)

\* The parts of the invariant read only these variables.
LEMMA KeepLoop ==
  ASSUME LoopInv, UNCHANGED <<active, calls, lpc, batch, queue>> PROVE LoopInv'
BY DEF LoopInv, Returning, Waits, Line

\* What OpenInv reads.
LEMMA KeepOpen ==
  ASSUME OpenInv, UNCHANGED <<conn, open, state_, channel_, calls, overlap, registered>> PROVE OpenInv'
BY DEF OpenInv, Doing

\* What SingleInv reads.
LEMMA KeepSingle ==
  ASSUME SingleInv, UNCHANGED <<connection_, state_, conn, calls>> PROVE SingleInv'
BY DEF SingleInv, Doing, Live

\* What AttemptInv reads.
LEMMA KeepAttempt ==
  ASSUME AttemptInv, UNCHANGED <<overlap, state_, channel_, active, batch, queue>> PROVE AttemptInv'
BY DEF AttemptInv, Waits, Line

\* What DestroyInv reads.
LEMMA KeepDestroy ==
  ASSUME DestroyInv, UNCHANGED <<conn, calls, batch, queue>> PROVE DestroyInv'
BY DEF DestroyInv, Doing, Line

\* What DeadInv reads.
LEMMA KeepDead ==
  ASSUME DeadInv, UNCHANGED <<clientAlive, risky, upc, connect_, connection_, calls, state_, batch, queue, conn, closeCallback>>
  PROVE  DeadInv'
BY DEF DeadInv, Doing, Line, Waits, Live

\* What QuietInv reads.
LEMMA KeepQuiet ==
  ASSUME QuietInv, UNCHANGED <<quiet, upc, clientConnect, calls, state_, batch, queue>> PROVE QuietInv'
BY DEF QuietInv, Doing, Line, Waits, Pending

\* The callbacks of the active channel.
LEMMA ActiveFacts ==
  ASSUME TypeInv, active # <<>>
  PROVE  /\ Head(active) = active[1] /\ 1 \in 1..Len(active)
         /\ Head(active)[1] \in {"error", "write", "close"} /\ Head(active)[2] \in Fds
         /\ Tail(active) = <<>> \/ Tail(active) = <<<<"write", Head(active)[2]>>>>
         /\ Head(active)[1] # "error" => Tail(active) = <<>>
         /\ \A i \in 1..Len(Tail(active)) : Tail(active)[i] = <<"write", Head(active)[2]>>
<1>1. ASSUME NEW f \in Fds, NEW name \in {"error", "write", "close"}, active = <<Call(name, f)>>
      PROVE  /\ Head(active) = active[1] /\ 1 \in 1..Len(active) /\ Tail(active) = <<>>
             /\ Head(active)[1] = name /\ Head(active)[2] = f
  BY <1>1 DEF Call
<1>2. ASSUME NEW f \in Fds, active = <<Call("error", f), Call("write", f)>>
      PROVE  /\ Head(active) = active[1] /\ 1 \in 1..Len(active) /\ Tail(active) = <<<<"write", f>>>>
             /\ Head(active)[1] = "error" /\ Head(active)[2] = f
  BY <1>2 DEF Call
<1>3. \/ \E f \in Fds, name \in {"error", "write", "close"} : active = <<Call(name, f)>>
      \/ \E f \in Fds : active = <<Call("error", f), Call("write", f)>>
  BY DEF TypeInv, ActiveType
<1>4. /\ Head(active) = active[1] /\ 1 \in 1..Len(active)
      /\ Head(active)[1] \in {"error", "write", "close"} /\ Head(active)[2] \in Fds
      /\ Tail(active) = <<>> \/ Tail(active) = <<<<"write", Head(active)[2]>>>>
      /\ Head(active)[1] # "error" => Tail(active) = <<>>
  BY <1>1, <1>2, <1>3
<1>5. \A i \in 1..Len(Tail(active)) : Tail(active)[i] = <<"write", Head(active)[2]>>
  <2>1. CASE Tail(active) = <<>>
    <3>1. \A i \in 1..Len(<<>>) : FALSE
      OBVIOUS
    <3>. QED  BY <2>1, <3>1, Zenon
  <2>2. CASE Tail(active) = <<<<"write", Head(active)[2]>>>>
    <3>1. \A x : \A i \in 1..Len(<<x>>) : <<x>>[i] = x
      OBVIOUS
    <3>. QED  BY <2>2, <3>1, Zenon
  <2>. QED  BY <2>1, <2>2, <1>4
<1>. QED  BY <1>4, <1>5

\* The callbacks left after the first.
LEMMA ActiveTail ==
  ASSUME TypeInv, active # <<>>
  PROVE  Tail(active) \in ActiveType
BY ActiveFacts DEF ActiveType, Call

-----------------------------------------------------------------------------
(* The loop: poll, callbacks and functors *)

\* removeAndResetChannel and the end of an attempt, in a callback or a functor.
LEMMA DropParts ==
  ASSUME TypeInv, LoopInv, OpenInv, SingleInv, DestroyInv, AttemptInv, DeadInv,
         state_ = "kConnecting", channel_ \in Fds, calls = <<>>, calls' = calls,
         NEW state \in {"kDisconnected", "kConnected"}, DropAttempt(channel_, state),
         NEW d, Moved(d, 1, <<"resetChannel", None>>), lpc' # "functors" => batch' = <<>>, lpc' = lpc,
         active' # <<>> => lpc' = "events",
         \A i \in 1..Len(active') : active'[i][2] = channel_ \/ overlap,
         ~(d = 1 /\ Line[1][1] \in Bound),
         UNCHANGED <<channel_, overlap, conn, connection_, closeCallback, clientAlive, risky, upc, connect_>>
  PROVE  LoopInv' /\ OpenInv' /\ SingleInv' /\ DestroyInv' /\ AttemptInv' /\ DeadInv'
<1>1. /\ state_' = state /\ registered' = registered \ {channel_} /\ open' = open \ {channel_}
  BY DEF DropAttempt
<1>2. /\ \A f \in Fds : ~Live(f)
      /\ connection_ = None /\ conn[channel_] = "none" /\ channel_ # None
  BY FdsAssumption DEF SingleInv, OpenInv
<1>3. \A name : ~Doing(name) /\ ~Doing(name)'
  BY DEF Doing
<1>4. Waits("resetChannel")'
  <2>1. <<"resetChannel", None>>[1] = "resetChannel"
    OBVIOUS
  <2>. QED  BY <2>1, WaitsMoves
<1>5. LoopInv'
  BY <1>4 DEF LoopInv
<1>6. OpenInv'
  BY <1>1, <1>2, <1>3 DEF OpenInv
<1>7. SingleInv'
  BY <1>1, <1>2, <1>3 DEF SingleInv, Live
<1>8. DestroyInv'
  <2>1. <<"resetChannel", None>> \in Functors /\ <<"resetChannel", None>>[1] = "resetChannel"
    BY DEF Functors, Plain
  <2>2. \A f \in Fds : <<"connectDestroyed", f>>[1] \in Bound
    BY DEF Bound
  <2>3. ~(d = 1 /\ \E f \in Fds : Line[1] = <<"connectDestroyed", f>>)
    BY <2>2, Zenon
  <2>. QED  BY <2>1, <2>3, <1>3, LineFacts, DestroyMoves
<1>9. AttemptInv'
  BY <1>1, <1>4 DEF AttemptInv
<1>10. DeadInv'
  <2>1. <<"resetChannel", None>>[1] # "startInLoop"
    OBVIOUS
  <2>2. state_' # "kConnecting" /\ \A f \in Fds : ~Live(f)'
    BY <1>1, <1>2 DEF Live
  <2>. QED  BY <2>1, <2>2, <1>3, DeadMoves
<1>. QED  BY <1>5, <1>6, <1>7, <1>8, <1>9, <1>10

\* poll() picks a channel that is the attempt's or a connection's.
LEMMA PollStep ==
  ASSUME TypeInv, Parts, Poll
  PROVE  TypeInv' /\ Parts'
<1>1. /\ calls = <<>> /\ lpc = "poll" /\ lpc' = "events"
      /\ UNCHANGED <<connectorVars, registered, open, calls, batch, queue, ub, clientVars, userVars>>
  BY DEF Poll
<1>2. active' \in ActiveType
  BY DEF Poll, Reports, ActiveType, TypeInv, TypeOK
<1>3. TypeInv'
  BY <1>1, <1>2 DEF TypeInv, TypeOK, connectorVars, clientVars, userVars
<1>4. LoopInv'
  BY <1>1 DEF Parts, LoopInv, Returning, Waits, Line
<1>5. AttemptInv'
  <2>1. ASSUME ~overlap, NEW i \in 1..Len(active'), active'[i][1] \in {"error", "write"}
        PROVE  active'[i][2] = channel_ /\ state_ = "kConnecting"
    <3>1. CASE active' = <<>>
      <4>1. \A j \in 1..Len(<<>>) : FALSE
        OBVIOUS
      <4>. QED  BY <3>1, <4>1, <2>1, Zenon
    <3>2. ASSUME NEW f \in registered, active' \in Reports(f) PROVE active'[i][2] = channel_ /\ state_ = "kConnecting"
      <4>1. CASE conn[f] = "none"
        <5>1. state_ = "kConnecting" /\ channel_ = f
          BY <2>1, <4>1 DEF Parts, OpenInv
        <5>2. active'[i][2] = f
          BY <2>1, <3>2, <4>1 DEF Reports, Call
        <5>. QED  BY <5>1, <5>2
      <4>2. CASE conn[f] # "none"
        BY <2>1, <3>2, <4>2 DEF Reports, Call
      <4>. QED  BY <4>1, <4>2
    <3>. QED  BY <3>1, <3>2 DEF Poll
  <2>. QED  BY <2>1, <1>1 DEF Parts, AttemptInv, connectorVars, Waits, Line
<1>6. OpenInv' /\ SingleInv' /\ DestroyInv' /\ DeadInv' /\ QuietInv'
  BY <1>1, KeepOpen, KeepSingle, KeepDestroy, KeepDead, KeepQuiet DEF Parts, connectorVars, clientVars, userVars
<1>. QED  BY <1>3, <1>4, <1>5, <1>6 DEF Parts

\* doPendingFunctors takes the queue.
LEMMA SwapStep ==
  ASSUME TypeInv, Parts, Swap
  PROVE  TypeInv' /\ Parts'
<1>1. /\ calls = <<>> /\ active = <<>> /\ lpc = "events" /\ lpc' = "functors" /\ batch' = queue /\ queue' = <<>>
      /\ UNCHANGED <<connectorVars, registered, open, active, calls, ub, clientVars, userVars>>
  BY DEF Swap
<1>2. batch = <<>>
  BY <1>1 DEF Parts, LoopInv
<1>3. Line' = Line /\ batch' \in Seq(Functors) /\ queue' \in Seq(Functors)
  BY <1>1, <1>2, ConcatEmptySeq DEF Line, TypeInv
<1>4. TypeInv'
  BY <1>1, <1>3 DEF TypeInv, TypeOK, connectorVars, clientVars, userVars
<1>5. LoopInv'
  BY <1>1, <1>3 DEF Parts, LoopInv, Returning, Waits
<1>6. DestroyInv' /\ DeadInv' /\ AttemptInv'
  BY <1>1, <1>3 DEF Parts, DestroyInv, DeadInv, AttemptInv, Doing, Waits, Live, connectorVars, clientVars, userVars
<1>7. QuietInv'
  BY <1>1, <1>3 DEF Parts, QuietInv, Doing, Waits, Pending, connectorVars, clientVars, userVars
<1>8. OpenInv' /\ SingleInv'
  BY <1>1, KeepOpen, KeepSingle DEF Parts, connectorVars, clientVars, userVars
<1>. QED  BY <1>4, <1>5, <1>6, <1>7, <1>8 DEF Parts

\* The loop goes back to poll() when the batch is done.
LEMMA IterateStep ==
  ASSUME TypeInv, Parts, Iterate
  PROVE  TypeInv' /\ Parts'
<1>1. /\ calls = <<>> /\ batch = <<>> /\ lpc = "functors" /\ lpc' = "poll"
      /\ UNCHANGED <<connectorVars, registered, open, active, batch, calls, queue, ub, clientVars, userVars>>
  BY DEF Iterate
<1>2. TypeInv'
  BY <1>1 DEF TypeInv, TypeOK, connectorVars, clientVars, userVars
<1>3. LoopInv'
  BY <1>1 DEF Parts, LoopInv, Returning, Waits, Line
<1>4. OpenInv' /\ SingleInv' /\ DestroyInv' /\ AttemptInv' /\ DeadInv' /\ QuietInv'
  BY <1>1, KeepOpen, KeepSingle, KeepDestroy, KeepAttempt, KeepDead, KeepQuiet DEF Parts, connectorVars, clientVars, userVars
<1>. QED  BY <1>2, <1>3, <1>4 DEF Parts

\* resetChannel as it is queued.
LEMMA ResetFunctor == Call("resetChannel", None) = <<"resetChannel", None>> /\ <<"resetChannel", None>> \in Functors
                      /\ <<"resetChannel", None>>[1] = "resetChannel"
BY DEF Call, Functors, Plain

\* A callback of the connector's channel.
LEMMA ConnectorEventStep ==
  ASSUME TypeInv, Parts, ConnectorEvent
  PROVE  IInv'
<1> DEFINE f == Head(active)[2]
<1>1. /\ Running /\ lpc = "events" /\ calls = <<>> /\ active # <<>> /\ Head(active)[1] \in {"error", "write"}
      /\ active' = Tail(active)
      /\ UNCHANGED <<lpc, batch, clientVars, userVars>>
  BY DEF ConnectorEvent
<1>2. /\ Head(active) = active[1] /\ 1 \in 1..Len(active) /\ f \in Fds
      /\ Head(active)[1] # "error" => active' = <<>>
      /\ \A i \in 1..Len(active') : active'[i] = <<"write", f>>
      /\ active' \in ActiveType
  BY <1>1, ActiveFacts, ActiveTail
<1>3. \A i \in 1..Len(active') : active'[i][2] = f
  BY <1>2
<1> HIDE DEF f
<1>4. batch = <<>>
  BY <1>1 DEF Parts, LoopInv
<1>5. CASE f # channel_ \/ ~ConnectorAlive
  <2>1. ub' = "deadChannel" /\ UNCHANGED <<connectorVars, registered, open, calls, queue>>
    BY <1>5 DEF ConnectorEvent, f
  <2>2. TypeInv'
    BY <1>1, <1>2, <2>1 DEF TypeInv, TypeOK, connectorVars, clientVars, userVars
  <2>3. overlap \/ risky
    <3>1. SUFFICES ASSUME ~overlap, ~risky PROVE FALSE
      OBVIOUS
    <3>2. f = channel_ /\ (state_ = "kConnecting" \/ Waits("resetChannel"))
      BY <1>1, <1>2, <3>1 DEF Parts, AttemptInv, f
    <3>3. ~clientAlive /\ ~Waits("stopInLoop") /\ ~Waits("resetChannel")
      BY <1>5, <3>2, OutstandingWaits DEF ConnectorAlive
    <3>. QED  BY <3>1, <3>2, <3>3 DEF Parts, DeadInv
  <2>4. ~Running' /\ (overlap \/ risky)'
    BY <2>1, <2>3, <1>1 DEF Running, connectorVars, userVars
  <2>. QED  BY <2>2, <2>4 DEF IInv, OnlyKnownDangers
<1>6. CASE f = channel_ /\ ConnectorAlive
  <2>0. (Head(active)[1] = "error" /\ HandleError(f)) \/ (Head(active)[1] = "write" /\ HandleWrite(f))
    <3>1. IF Head(active)[1] = "error" THEN HandleError(f) ELSE HandleWrite(f)
      BY <1>6, Zenon DEF ConnectorEvent, f
    <3>2. Head(active)[1] = "error" \/ (Head(active)[1] = "write" /\ Head(active)[1] # "error")
      BY <1>1
    <3>. QED  BY <3>1, <3>2, Zenon
  <2>1. UNCHANGED <<connect_, channel_, overlap, ub>> /\ Running'
    BY <2>0, <1>1 DEF HandleError, HandleWrite, Running
  <2>2. CASE UNCHANGED <<state_, registered, open, queue, calls>>
    <3>1. TypeInv'
      BY <1>1, <1>2, <2>1, <2>2 DEF TypeInv, TypeOK, connectorVars, clientVars, userVars
    <3>2. LoopInv'
      BY <1>1, <2>2 DEF Parts, LoopInv, Returning, Waits, Line
    <3>3. AttemptInv'
      BY <1>1, <1>2, <1>3, <2>1, <2>2 DEF Parts, AttemptInv, Waits, Line, f
    <3>4. OpenInv' /\ SingleInv' /\ DestroyInv' /\ DeadInv' /\ QuietInv'
      BY <1>1, <2>1, <2>2, KeepOpen, KeepSingle, KeepDestroy, KeepDead, KeepQuiet DEF Parts, connectorVars, clientVars, userVars
    <3>. QED  BY <3>1, <3>2, <3>3, <3>4, <2>1 DEF IInv, OnlyKnownDangers, Parts, Running
  <2>3. ASSUME state_ = "kConnecting", NEW state \in {"kDisconnected", "kConnected"}, DropAttempt(f, state), calls' = calls
        PROVE  IInv'
    <3>1. queue' = Append(queue, <<"resetChannel", None>>) /\ state_' = state
          /\ registered' = registered \ {f} /\ open' = open \ {f}
      BY <2>3, ResetFunctor DEF DropAttempt
    <3>2. Moved(0, 1, <<"resetChannel", None>>) /\ queue' \in Seq(Functors)
      BY <3>1, <1>1, LineGrows, ResetFunctor
    <3>3. TypeInv'
      BY <1>1, <1>2, <2>1, <2>3, <3>1, <3>2 DEF TypeInv, TypeOK, connectorVars, clientVars, userVars
    <3>4. LoopInv' /\ OpenInv' /\ SingleInv' /\ DestroyInv' /\ AttemptInv' /\ DeadInv'
      <4>1. channel_ \in Fds /\ DropAttempt(channel_, state)
        BY <1>2, <1>6, <2>3
      <4>2. /\ \A i \in 1..Len(active') : active'[i][2] = channel_ \/ overlap
            /\ lpc' # "functors" => batch' = <<>>
            /\ lpc' = lpc /\ lpc' = "events" /\ ~(0 = 1 /\ Line[1][1] \in Bound)
        BY <1>1, <1>3, <1>4, <1>6
      <4>3. UNCHANGED <<channel_, overlap, conn, connection_, closeCallback, clientAlive, risky, upc, connect_>>
        BY <1>1, <2>1 DEF clientVars, userVars
      <4>. QED  BY <1>1, <2>3, <3>2, <4>1, <4>2, <4>3, DropParts DEF Parts
    <3>5. QuietInv'
      <4>1. \A name : ~Doing(name)'
        BY <1>1, <2>3 DEF Doing
      <4>2. QuietInv /\ UNCHANGED <<upc, clientConnect, quiet>>
        BY <1>1 DEF Parts, clientVars, userVars
      <4>. QED  BY <2>1, <3>1, <3>2, <4>1, <4>2, ResetFunctor, QuietMoves
    <3>. QED  BY <3>3, <3>4, <3>5, <2>1 DEF IInv, OnlyKnownDangers, Parts, Running
  <2>4. ASSUME state_ = "kConnecting", Head(active)[1] = "write", connect_, state_' = "kConnected", registered' = registered \ {f},
               queue' = Append(queue, Call("resetChannel", None)),
               calls' = <<Call("newConnection", f), Call("return", f)>>, UNCHANGED open
        PROVE  IInv'
    <3>1. /\ calls' \in Seq(CallSet) /\ calls' # <<>> /\ calls'[1] = <<"newConnection", f>> /\ Len(calls') = 2
          /\ calls'[2] = <<"return", f>> /\ \A name : Doing(name)' => name = "newConnection"
      BY <1>2, <2>4, CallsTwo
    <3>2. Moved(0, 1, <<"resetChannel", None>>) /\ queue' \in Seq(Functors)
      BY <2>4, <1>1, LineGrows, ResetFunctor
    <3>3. active' = <<>> /\ Waits("resetChannel")'
      BY <1>2, <2>4, <3>2, WaitsMoves, ResetFunctor
    <3>4. TypeInv'
      BY <1>1, <1>2, <2>1, <2>4, <3>1, <3>2 DEF TypeInv, TypeOK, connectorVars, clientVars, userVars
    <3>5. (\A g \in Fds : ~Live(g)) /\ connection_ = None /\ f \in open /\ conn[f] = "none"
      BY <1>2, <1>6, <2>4, FdsAssumption DEF Parts, SingleInv, OpenInv
    <3>6. <<"newConnection", f>>[2] = f /\ <<"return", f>>[1] = "return"
      OBVIOUS
    <3>7. LoopInv'
      BY <1>1, <1>4, <3>1, <3>3, <3>6 DEF Parts, LoopInv
    <3>8. OpenInv'
      BY <1>1, <1>6, <2>1, <2>4, <3>1, <3>5, <3>6 DEF Parts, OpenInv, Doing, clientVars
    <3>9. SingleInv'
      BY <1>1, <2>4, <3>1, <3>5, <3>6 DEF Parts, SingleInv, Live, clientVars
    <3>10. DestroyInv'
      <4>1. conn' = conn /\ ~Doing("closeCallback")'
        BY <1>1, <3>1 DEF clientVars
      <4>. QED  BY <3>2, <4>1, LineFacts, DestroyMoves, ResetFunctor DEF Parts
    <3>11. AttemptInv'
      <4>1. \A i \in 1..Len(<<>>) : FALSE
        OBVIOUS
      <4>2. \A i \in 1..Len(active') : FALSE
        BY <3>3, <4>1, Zenon
      <4>. QED  BY <2>4, <4>2 DEF AttemptInv
    <3>12. clientAlive \/ risky
      BY <2>4, <3>5 DEF Parts, DeadInv
    <3>13. DeadInv'
      BY <1>1, <3>12 DEF DeadInv, clientVars, userVars
    <3>14. QuietInv'
      <4>1. quiet # "yes"
        BY <2>4 DEF Parts, QuietInv
      <4>. QED  BY <1>1, <3>2, <4>1, ResetFunctor, QuietMoves DEF Parts, clientVars, userVars
    <3>. QED  BY <3>4, <3>7, <3>8, <3>9, <3>10, <3>11, <3>13, <3>14, <2>1 DEF IInv, OnlyKnownDangers, Parts, Running
  <2>. QED  BY <2>0, <2>2, <2>3, <2>4 DEF HandleError, HandleWrite
<1>. QED  BY <1>5, <1>6

\* handleClose of the one connection that is up, in a callback or a functor.
LEMMA CloseParts ==
  ASSUME TypeInv, Parts, calls = <<>>, NEW f \in Fds, Live(f), Close(f),
         NEW d, Moved(d, 0, None), ~(d = 1 /\ Line[1][1] \in {"stopInLoop", "connectDestroyed"}),
         active' = <<>>, lpc' # "functors" => batch' = <<>>,
         UNCHANGED <<connectorVars, open, connection_, closeCallback, clientAlive, clientConnect, upc, quiet, risky>>
  PROVE  Parts' /\ calls' \in Seq(CallSet) /\ conn' \in [Fds -> ConnStates] /\ registered' \subseteq registered
<1>1. /\ conn' = [conn EXCEPT ![f] = "kDisconnected"] /\ registered' = registered \ {f}
      /\ calls' = <<Call("closeCallback", f)>> \o calls
  BY DEF Close
<1>2. <<"closeCallback", f>> \in CallSet /\ <<"closeCallback", f>>[1] = "closeCallback" /\ <<"closeCallback", f>>[2] = f
      /\ Call("closeCallback", f) = <<"closeCallback", f>>
  BY DEF CallSet, Call
<1>3. /\ calls' \in Seq(CallSet) /\ calls' # <<>> /\ calls'[1] = <<"closeCallback", f>> /\ Len(calls') = 1
      /\ ~Returning'
  BY <1>1, <1>2, CallsBegin
<1>4. calls'[1][1] = "closeCallback" /\ calls'[1][2] = f
  BY <1>2, <1>3
<1>5. /\ \A name : ~Doing(name)
      /\ \A name : Doing(name)' <=> name = "closeCallback"
  BY <1>3, <1>4 DEF Doing
<1>6. /\ conn' \in [Fds -> ConnStates]
      /\ \A g \in Fds : conn'[g] = IF g = f THEN "kDisconnected" ELSE conn[g]
  BY <1>1 DEF TypeInv, TypeOK, ConnStates
<1>7. /\ state_ = "kConnected" /\ \A g \in Fds : Live(g) => g = f
      /\ conn[f] # "none" /\ conn[f] # "kDisconnected"
  BY DEF Parts, SingleInv, Live
<1>8. \A g \in Fds : ~Live(g)'
  BY <1>6, <1>7 DEF Live
<1>9. UNCHANGED <<state_, channel_, connect_, overlap>>
  BY DEF connectorVars
<1>10. LoopInv'
  BY <1>3 DEF LoopInv
<1>11. OpenInv'
  BY <1>1, <1>5, <1>6, <1>7, <1>9 DEF Parts, OpenInv
<1>12. SingleInv'
  BY <1>4, <1>5, <1>6, <1>7, <1>8, <1>9 DEF Parts, SingleInv
<1>13. DestroyInv'
  <2>1. /\ \A g \in Fds : conn[g] = "kDisconnected" => conn'[g] = "kDisconnected"
        /\ \A g \in Fds : conn[g] # "none" => conn'[g] # "none"
    BY <1>6
  <2>2. Live(calls'[1][2])
    BY <1>4
  <2>. QED  BY <2>1, <2>2, LineFacts, DestroyMoves DEF Parts
<1>14. AttemptInv'
  <2>1. \A i \in 1..Len(<<>>) : FALSE
    OBVIOUS
  <2>2. \A i \in 1..Len(active') : FALSE
    BY <2>1, Zenon
  <2>. QED  BY <2>2, <1>7, <1>9 DEF AttemptInv
<1>15. DeadInv'
  <2>1. state_' # "kConnecting"
    BY <1>7, <1>9
  <2>2. \A g \in Fds : Doing("closeCallback")' /\ calls'[1][2] = g => closeCallback'[g] = closeCallback[g] /\ Live(g)
    BY <1>4
  <2>. QED  BY <2>1, <2>2, <1>5, <1>8, <1>9, DeadMoves DEF Parts
<1>16. QuietInv'
  <2>1. state_' # "kConnecting"
    BY <1>7, <1>9
  <2>. QED  BY <2>1, <1>5, QuietMoves DEF Parts
<1>. QED  BY <1>1, <1>3, <1>6, <1>10, <1>11, <1>12, <1>13, <1>14, <1>15, <1>16 DEF Parts

\* A connection is reported only to be closed.
LEMMA ConnectionEventStep ==
  ASSUME TypeInv, Parts, ConnectionEvent
  PROVE  TypeInv' /\ Parts'
<1> DEFINE f == Head(active)[2]
<1>1. /\ lpc = "events" /\ calls = <<>> /\ active # <<>> /\ Head(active)[1] = "close"
      /\ active' = Tail(active)
      /\ UNCHANGED <<connectorVars, open, lpc, batch, queue, ub, retry_, clientConnect, connection_,
                     closeCallback, clientAlive, userVars>>
      /\ IF Live(f) THEN Close(f) ELSE UNCHANGED <<conn, registered, calls>>
  BY DEF ConnectionEvent
<1>2. f \in Fds /\ active' = <<>> /\ active' \in ActiveType
  BY <1>1, ActiveFacts, ActiveTail
<1> HIDE DEF f
<1>3. batch = <<>> /\ Moved(0, 0, None)
  BY <1>1, LineSame DEF Parts, LoopInv
<1>4. CASE Live(f)
  <2>1. Parts' /\ calls' \in Seq(CallSet) /\ conn' \in [Fds -> ConnStates] /\ registered' \subseteq registered
    BY <1>1, <1>2, <1>3, <1>4, CloseParts DEF userVars
  <2>2. TypeInv'
    BY <1>1, <1>2, <2>1 DEF TypeInv, TypeOK, connectorVars, userVars
  <2>. QED  BY <2>1, <2>2
<1>5. CASE ~Live(f)
  <2>1. UNCHANGED <<conn, registered, calls>>
    BY <1>1, <1>5
  <2>2. TypeInv'
    BY <1>1, <1>2, <2>1 DEF TypeInv, TypeOK, connectorVars, userVars
  <2>3. LoopInv'
    BY <1>1, <1>2, <2>1 DEF Parts, LoopInv, Returning, Waits, Line
  <2>4. AttemptInv'
    <3>1. \A i \in 1..Len(<<>>) : FALSE
      OBVIOUS
    <3>2. \A i \in 1..Len(active') : FALSE
      BY <3>1, <1>2, Zenon
    <3>. QED  BY <3>2, <1>1 DEF Parts, AttemptInv, Waits, Line, connectorVars
  <2>5. OpenInv' /\ SingleInv' /\ DestroyInv' /\ DeadInv' /\ QuietInv'
    BY <1>1, <2>1, KeepOpen, KeepSingle, KeepDestroy, KeepDead, KeepQuiet DEF Parts, connectorVars, userVars
  <2>. QED  BY <2>2, <2>3, <2>4, <2>5 DEF Parts
<1>. QED  BY <1>4, <1>5

\* What every functor starts from.
LEMMA FunctorFacts ==
  ASSUME TypeInv, Parts, NEW name, NextFunctor(name)
  PROVE  /\ Running /\ active = <<>> /\ calls = <<>> /\ lpc' = "functors" /\ active' = <<>>
         /\ batch # <<>> /\ batch' = Tail(batch) /\ batch' \in Seq(Functors)
         /\ 1 \in 1..Len(Line) /\ Line[1] = Head(batch) /\ Line[1] \in Functors /\ Line[1][1] = name
         /\ name \in Bound => Head(batch)[2] \in Fds /\ Line[1] = <<name, Head(batch)[2]>>
         /\ UNCHANGED <<lpc, active, made, upc, risky>>
         /\ \A n : ~Doing(n)
<1>1. /\ Running /\ lpc = "functors" /\ calls = <<>> /\ batch # <<>> /\ Head(batch)[1] = name
      /\ batch' = Tail(batch) /\ UNCHANGED <<lpc, active, made, upc, risky>>
  BY DEF NextFunctor
<1>2. active = <<>>
  BY <1>1 DEF Parts, LoopInv
<1>3. /\ batch \in Seq(Functors) /\ batch' \in Seq(Functors) /\ Head(batch) = batch[1] /\ Head(batch) \in Functors
      /\ Len(batch) \in Nat \ {0}
  BY <1>1, HeadTailProperties, EmptySeq, LenProperties DEF TypeInv
<1>4. 1 \in 1..Len(batch) /\ 1 \in 1..Len(Line)
  BY <1>3, LineFacts
<1>5. Line[1] = Head(batch)
  BY <1>3, <1>4, LineFacts
<1>6. name \in Bound => Head(batch)[2] \in Fds /\ Head(batch) = <<name, Head(batch)[2]>>
  BY <1>1, <1>3 DEF Functors, Plain, Bound
<1>. QED  BY <1>1, <1>2, <1>3, <1>4, <1>5, <1>6 DEF Doing

\* A functor that makes no call and queues nothing.
LEMMA RunsQuietly ==
  ASSUME TypeInv, Parts, NEW name, NextFunctor(name), UNCHANGED <<queue, calls>>
  PROVE  /\ LoopInv' /\ Moved(1, 0, None)
         /\ \A n : ~Doing(n)'
<1>1. LoopInv'
  BY FunctorFacts DEF Parts, LoopInv, Returning
<1>2. Moved(1, 0, None)
  BY FunctorFacts, LineShifts
<1>. QED  BY <1>1, <1>2, FunctorFacts DEF Doing

\* shutdownInLoop finds its connection: connectDestroyed is behind it.
LEMMA RunShutdownInLoopStep ==
  ASSUME TypeInv, Parts, RunShutdownInLoop
  PROVE  TypeInv' /\ Parts' /\ ub' = ub
<1>1. NextFunctor("shutdownInLoop") /\ UNCHANGED <<connectorVars, registered, open, queue, calls, clientVars, quiet>>
  BY DEF RunShutdownInLoop
<1>2. LoopInv' /\ Moved(1, 0, None) /\ \A n : ~Doing(n)'
  BY <1>1, RunsQuietly
<1>3. conn[Head(batch)[2]] # "none"
  BY <1>1, FunctorFacts DEF Parts, DestroyInv, Bound
<1>4. ub' = ub
  BY <1>3 DEF RunShutdownInLoop
<1>5. TypeInv'
  BY <1>1, FunctorFacts DEF TypeInv, TypeOK, connectorVars, clientVars
<1>6. OpenInv' /\ SingleInv'
  BY <1>1, KeepOpen, KeepSingle DEF Parts, connectorVars, clientVars
<1>7. DestroyInv'
  BY <1>1, <1>2, LineFacts, DestroyMoves DEF Parts, clientVars
<1>8. AttemptInv'
  BY <1>1, <1>2, FunctorFacts, WaitsMoves DEF Parts, AttemptInv, connectorVars
<1>9. DeadInv'
  BY <1>1, <1>2, FunctorFacts, DeadMoves DEF Parts, connectorVars, clientVars, Live
<1>10. QuietInv'
  BY <1>1, <1>2, FunctorFacts, QuietMoves DEF Parts, QuietInv, connectorVars, clientVars
<1>. QED  BY <1>2, <1>4, <1>5, <1>6, <1>7, <1>8, <1>9, <1>10 DEF Parts

\* forceCloseInLoop closes a connection that is still up.
LEMMA RunForceCloseInLoopStep ==
  ASSUME TypeInv, Parts, RunForceCloseInLoop
  PROVE  TypeInv' /\ Parts'
<1> DEFINE f == Head(batch)[2]
<1>1. /\ NextFunctor("forceCloseInLoop")
      /\ UNCHANGED <<connectorVars, open, queue, ub, retry_, clientConnect, connection_, closeCallback, clientAlive, quiet>>
      /\ IF conn[f] \in {"kConnected", "kDisconnecting"} THEN Close(f) ELSE UNCHANGED <<conn, registered, calls>>
  BY DEF RunForceCloseInLoop
<1>2. f \in Fds
  BY <1>1, FunctorFacts DEF Bound
<1> HIDE DEF f
<1>3. CASE conn[f] \in {"kConnected", "kDisconnecting"}
  <2>1. Live(f) /\ Close(f)
    BY <1>1, <1>3 DEF Live
  <2>2. Moved(1, 0, None)
    BY <1>1, FunctorFacts, LineShifts
  <2>3. Parts' /\ calls' \in Seq(CallSet) /\ conn' \in [Fds -> ConnStates] /\ registered' \subseteq registered
    BY <1>1, <1>2, <2>1, <2>2, FunctorFacts, CloseParts
  <2>4. TypeInv'
    BY <1>1, <2>3, FunctorFacts DEF TypeInv, TypeOK, connectorVars
  <2>. QED  BY <2>3, <2>4
<1>4. CASE conn[f] \notin {"kConnected", "kDisconnecting"}
  <2>1. UNCHANGED <<conn, registered, calls>>
    BY <1>1, <1>4
  <2>2. LoopInv' /\ Moved(1, 0, None) /\ \A n : ~Doing(n)'
    BY <1>1, <2>1, RunsQuietly
  <2>3. TypeInv'
    BY <1>1, <2>1, FunctorFacts DEF TypeInv, TypeOK, connectorVars
  <2>4. OpenInv' /\ SingleInv'
    BY <1>1, <2>1, KeepOpen, KeepSingle DEF Parts, connectorVars
  <2>5. DestroyInv'
    BY <2>1, <2>2, LineFacts, DestroyMoves DEF Parts
  <2>6. AttemptInv'
    BY <1>1, <2>2, FunctorFacts, WaitsMoves DEF Parts, AttemptInv, connectorVars
  <2>7. DeadInv'
    BY <1>1, <2>1, <2>2, FunctorFacts, DeadMoves DEF Parts, connectorVars, Live
  <2>8. QuietInv'
    BY <1>1, <2>2, FunctorFacts, QuietMoves DEF Parts, QuietInv, connectorVars
  <2>. QED  BY <2>2, <2>3, <2>4, <2>5, <2>6, <2>7, <2>8 DEF Parts
<1>. QED  BY <1>3, <1>4

\* The destructor's functor that replaces the close callback.
LEMMA RunSetCloseCallbackStep ==
  ASSUME TypeInv, Parts, RunSetCloseCallback
  PROVE  TypeInv' /\ Parts'
<1>1. /\ NextFunctor("setCloseCallback")
      /\ closeCallback' = [closeCallback EXCEPT ![Head(batch)[2]] = "detail"]
      /\ UNCHANGED <<connectorVars, registered, open, queue, calls, ub, retry_, clientConnect,
                     connection_, conn, clientAlive, quiet>>
  BY DEF RunSetCloseCallback
<1>2. LoopInv' /\ Moved(1, 0, None) /\ \A n : ~Doing(n)'
  BY <1>1, RunsQuietly
<1>3. /\ closeCallback' \in [Fds -> {"client", "detail"}]
      /\ \A g \in Fds : closeCallback'[g] \in {closeCallback[g], "detail"}
  BY <1>1 DEF TypeInv
<1>4. TypeInv'
  BY <1>1, <1>3, FunctorFacts DEF TypeInv, TypeOK, connectorVars
<1>5. OpenInv' /\ SingleInv'
  BY <1>1, KeepOpen, KeepSingle DEF Parts, connectorVars
<1>6. DestroyInv'
  BY <1>1, <1>2, LineFacts, DestroyMoves DEF Parts
<1>7. AttemptInv'
  BY <1>1, <1>2, FunctorFacts, WaitsMoves DEF Parts, AttemptInv, connectorVars
<1>8. DeadInv'
  BY <1>1, <1>2, <1>3, FunctorFacts, DeadMoves DEF Parts, connectorVars, Live
<1>9. QuietInv'
  BY <1>1, <1>2, FunctorFacts, QuietMoves DEF Parts, QuietInv, connectorVars
<1>. QED  BY <1>2, <1>4, <1>5, <1>6, <1>7, <1>8, <1>9 DEF Parts

\* The reset of a channel whose attempt is over.
LEMMA RunResetChannelStep ==
  ASSUME TypeInv, Parts, RunResetChannel
  PROVE  TypeInv' /\ Parts'
<1>1. /\ NextFunctor("resetChannel") /\ channel_' = None
      /\ UNCHANGED <<state_, connect_, overlap, registered, open, queue, ub, calls, clientVars, quiet>>
  BY DEF RunResetChannel, ResetChannel
<1>2. LoopInv' /\ Moved(1, 0, None) /\ \A n : ~Doing(n)'
  BY <1>1, RunsQuietly
<1>3. Waits("resetChannel")
  BY <1>1, FunctorFacts DEF Waits
<1>4. overlap \/ state_ # "kConnecting"
  BY <1>3 DEF Parts, AttemptInv
<1>5. TypeInv'
  BY <1>1, FunctorFacts DEF TypeInv, TypeOK, clientVars
<1>6. SingleInv'
  BY <1>1, KeepSingle DEF Parts, clientVars
<1>7. OpenInv'
  BY <1>1, <1>2, <1>4, FunctorFacts DEF Parts, OpenInv, clientVars
<1>8. DestroyInv'
  BY <1>1, <1>2, LineFacts, DestroyMoves DEF Parts, clientVars
<1>9. AttemptInv'
  <2>1. \A i \in 1..Len(<<>>) : FALSE
    OBVIOUS
  <2>2. \A i \in 1..Len(active') : FALSE
    BY <2>1, <1>1, FunctorFacts, Zenon
  <2>. QED  BY <2>2, <1>1, <1>4 DEF AttemptInv
<1>10. DeadInv'
  BY <1>1, <1>2, FunctorFacts, DeadMoves DEF Parts, clientVars, Live
<1>11. QuietInv'
  BY <1>1, <1>2, FunctorFacts, QuietMoves DEF Parts, QuietInv, clientVars
<1>. QED  BY <1>2, <1>5, <1>6, <1>7, <1>8, <1>9, <1>10, <1>11 DEF Parts

\* connectDestroyed and ~TcpConnection, of a connection that was closed.
LEMMA RunConnectDestroyedStep ==
  ASSUME TypeInv, Parts, RunConnectDestroyed
  PROVE  TypeInv' /\ Parts'
<1> DEFINE f == Head(batch)[2]
<1>1. /\ NextFunctor("connectDestroyed")
      /\ conn' = [conn EXCEPT ![f] = "none"] /\ closeCallback' = [closeCallback EXCEPT ![f] = "client"]
      /\ registered' = registered \ {f} /\ open' = open \ {f}
      /\ UNCHANGED <<connectorVars, queue, calls, ub, retry_, clientConnect, connection_, clientAlive, quiet>>
  BY DEF RunConnectDestroyed
<1>2. LoopInv' /\ Moved(1, 0, None) /\ \A n : ~Doing(n)'
  BY <1>1, RunsQuietly
<1>3. f \in Fds /\ Line[1] = <<"connectDestroyed", f>> /\ 1 \in 1..Len(Line)
  BY <1>1, FunctorFacts DEF Bound
<1> HIDE DEF f
<1>4. conn[f] = "kDisconnected"
  <2>1. Line[1][1] = "connectDestroyed" /\ Line[1][2] = f
    BY <1>3
  <2>. QED  BY <1>3, <2>1 DEF Parts, DestroyInv
<1>5. /\ conn' \in [Fds -> ConnStates] /\ closeCallback' \in [Fds -> {"client", "detail"}]
      /\ \A g \in Fds : conn'[g] = IF g = f THEN "none" ELSE conn[g]
      /\ \A g \in Fds : g # f => closeCallback'[g] = closeCallback[g]
  BY <1>1 DEF TypeInv, TypeOK, ConnStates
<1>6. \A g \in Fds : (Live(g)' <=> Live(g)) /\ (Live(g) => g # f)
  BY <1>4, <1>5 DEF Live
<1>7. UNCHANGED <<state_, channel_, connect_, overlap>> /\ \A n : ~Doing(n)
  BY <1>1, FunctorFacts DEF connectorVars
<1>8. TypeInv'
  BY <1>1, <1>5, FunctorFacts DEF TypeInv, TypeOK, connectorVars
<1>9. OpenInv'
  BY <1>1, <1>2, <1>3, <1>4, <1>5, <1>7 DEF Parts, OpenInv, TypeInv, TypeOK
<1>10. SingleInv'
  BY <1>1, <1>2, <1>6, <1>7 DEF Parts, SingleInv
<1>11. DestroyInv'
  BY <1>2, <1>3, <1>5, LineFacts, DestroyMoves DEF Parts
<1>12. AttemptInv'
  BY <1>1, <1>2, <1>7, FunctorFacts, WaitsMoves DEF Parts, AttemptInv
<1>13. DeadInv'
  <2>1. ~(1 = 1 /\ Line[1][1] = "stopInLoop")
    BY <1>3
  <2>. QED  BY <1>1, <1>2, <1>5, <1>6, <1>7, <2>1, FunctorFacts, DeadMoves DEF Parts
<1>14. QuietInv'
  <2>1. ~(1 = 1 /\ Line[1][1] = "stopInLoop")
    BY <1>3
  <2>. QED  BY <1>1, <1>2, <1>7, <2>1, FunctorFacts, QuietMoves DEF Parts, QuietInv
<1>. QED  BY <1>2, <1>8, <1>9, <1>10, <1>11, <1>12, <1>13, <1>14 DEF Parts

\* startInLoop, as a functor, connects if it is still wanted.
LEMMA RunStartInLoopStep ==
  ASSUME TypeInv, Parts, RunStartInLoop
  PROVE  IInv'
<1>1. /\ NextFunctor("startInLoop") /\ UNCHANGED <<connectorVars, registered, open, queue, clientVars, quiet>>
      /\ IF ConnectorAlive THEN calls' = <<Call("startInLoop", None)>> /\ UNCHANGED ub
         ELSE ub' = "deadConnector" /\ UNCHANGED calls
  BY DEF RunStartInLoop
<1>2. 1 \in 1..Len(Line) /\ Line[1][1] = "startInLoop"
  BY <1>1, FunctorFacts
<1>3. CASE ~ConnectorAlive
  <2>1. ub' = "deadConnector" /\ UNCHANGED calls
    BY <1>1, <1>3
  <2>2. TypeInv'
    BY <1>1, <2>1, FunctorFacts DEF TypeInv, TypeOK, connectorVars, clientVars
  <2>3. ~clientAlive /\ ~Waits("stopInLoop")
    BY <1>3, OutstandingWaits DEF ConnectorAlive
  <2>4. risky
    BY <1>2, <2>3 DEF Parts, DeadInv, Waits
  <2>5. ~Running' /\ risky'
    BY <1>1, <2>1, <2>4, FunctorFacts DEF Running
  <2>. QED  BY <2>2, <2>5 DEF IInv, OnlyKnownDangers
<1>4. CASE ConnectorAlive
  <2>1. calls' = <<Call("startInLoop", None)>> /\ UNCHANGED ub
    BY <1>1, <1>4
  <2>2. <<"startInLoop", None>> \in CallSet /\ <<"startInLoop", None>>[1] = "startInLoop"
        /\ Call("startInLoop", None) = <<"startInLoop", None>>
    BY DEF CallSet, Call
  <2>3. /\ calls' \in Seq(CallSet) /\ calls' # <<>> /\ calls'[1] = <<"startInLoop", None>> /\ Len(calls') = 1
        /\ ~Returning'
    BY <1>1, <2>1, <2>2, FunctorFacts, CallsBegin
  <2>4. \A n : Doing(n)' <=> n = "startInLoop"
    BY <2>2, <2>3 DEF Doing
  <2>5. TypeInv'
    BY <1>1, <2>3, FunctorFacts DEF TypeInv, TypeOK, connectorVars, clientVars
  <2>6. Moved(1, 0, None)
    BY <1>1, FunctorFacts, LineShifts
  <2>7. LoopInv'
    BY <1>1, <2>3, FunctorFacts DEF LoopInv
  <2>8. OpenInv'
    BY <1>1, <2>4, FunctorFacts DEF Parts, OpenInv, connectorVars, clientVars
  <2>9. SingleInv'
    BY <1>1, <2>4, FunctorFacts DEF Parts, SingleInv, Live, connectorVars, clientVars
  <2>10. DestroyInv'
    BY <1>1, <1>2, <2>4, <2>6, LineFacts, DestroyMoves DEF Parts, clientVars
  <2>11. AttemptInv'
    BY <1>1, <2>6, FunctorFacts, WaitsMoves DEF Parts, AttemptInv, connectorVars
  <2>12. DeadInv'
    BY <1>1, <1>2, <2>4, <2>6, FunctorFacts, DeadMoves DEF Parts, connectorVars, clientVars, Live
  <2>13. QuietInv'
    <3>1. quiet # "yes"
      BY <1>2 DEF Parts, QuietInv, Waits
    <3>. QED  BY <1>1, <1>2, <2>6, <3>1, FunctorFacts, QuietMoves DEF Parts, clientVars
  <2>. QED  BY <1>1, <2>1, <2>5, <2>7, <2>8, <2>9, <2>10, <2>11, <2>12, <2>13, FunctorFacts
            DEF IInv, OnlyKnownDangers, Parts, Running
<1>. QED  BY <1>3, <1>4

\* Whether another stopInLoop is queued behind the one that runs.
LEMMA StopLeft ==
  ASSUME TypeInv, batch # <<>>
  PROVE  Call("stopInLoop", None) \in Range(queue \o Tail(batch))
           <=> \E i \in 1..Len(Line) : i # 1 /\ Line[i][1] = "stopInLoop"
<1>1. /\ batch \in Seq(Functors) /\ queue \in Seq(Functors) /\ Tail(batch) \in Seq(Functors)
      /\ Len(Tail(batch)) = Len(batch) - 1 /\ Len(batch) \in Nat \ {0}
      /\ \A i \in 1..Len(Tail(batch)) : Tail(batch)[i] = batch[i + 1]
  <2>1. batch \in Seq(Functors) /\ queue \in Seq(Functors)
    BY DEF TypeInv
  <2>2. Len(batch) \in Nat /\ Len(batch) # 0
    BY <2>1, EmptySeq, LenProperties
  <2>. QED  BY <2>1, <2>2, HeadTailProperties
<1>2. Range(queue \o Tail(batch)) = {queue[i] : i \in 1..Len(queue)} \cup {Tail(batch)[i] : i \in 1..Len(Tail(batch))}
  <2>1. Range(queue \o Tail(batch)) = Range(queue) \cup Range(Tail(batch))
    <3>1. queue \in Seq(Functors) /\ Tail(batch) \in Seq(Functors)
      BY <1>1
    <3>. QED  BY <3>1, RangeConcatenation, Zenon
  <2>2. Range(queue) = {queue[i] : i \in 1..Len(queue)}
    BY <1>1, RangeEquality
  <2>3. Range(Tail(batch)) = {Tail(batch)[i] : i \in 1..Len(Tail(batch))}
    BY <1>1, RangeEquality
  <2>. QED  BY <2>1, <2>2, <2>3, Zenon
<1>3. \A y \in Functors : y[1] = "stopInLoop" <=> y = Call("stopInLoop", None)
  BY DEF Functors, Plain, Bound, Call
<1>4. \A i \in 1..Len(Line) : Line[i][1] = "stopInLoop" <=> Line[i] = Call("stopInLoop", None)
  BY <1>3, LineFacts
<1>5. ASSUME NEW i \in 1..Len(Line), i # 1
      PROVE  Line[i] \in Range(queue \o Tail(batch))
  <2>1. CASE i <= Len(batch)
    <3>1. i - 1 \in 1..Len(Tail(batch)) /\ (i - 1) + 1 = i /\ i \in 1..Len(batch)
      BY <2>1, <1>1, <1>5
    <3>2. Tail(batch)[i - 1] = Line[i]
      BY <3>1, <1>1, LineFacts
    <3>. QED  BY <3>1, <3>2, <1>2
  <2>2. CASE ~(i <= Len(batch))
    <3>1. i - Len(batch) \in 1..Len(queue) /\ Len(batch) + (i - Len(batch)) = i
      BY <2>2, LineFacts
    <3>2. queue[i - Len(batch)] = Line[i]
      BY <3>1, LineFacts
    <3>. QED  BY <3>1, <3>2, <1>2
  <2>. QED  BY <2>1, <2>2
<1>6. ASSUME NEW y \in Range(queue \o Tail(batch)) PROVE \E i \in 1..Len(Line) : i # 1 /\ Line[i] = y
  <2>1. ASSUME NEW i \in 1..Len(queue), y = queue[i] PROVE \E j \in 1..Len(Line) : j # 1 /\ Line[j] = y
    <3>1. Len(batch) + i \in 1..Len(Line) /\ Len(batch) + i # 1
      BY <1>1, LineFacts
    <3>. QED  BY <2>1, <3>1, LineFacts
  <2>2. ASSUME NEW i \in 1..Len(Tail(batch)), y = Tail(batch)[i] PROVE \E j \in 1..Len(Line) : j # 1 /\ Line[j] = y
    <3>1. i + 1 \in 1..Len(batch) /\ i + 1 \in 1..Len(Line) /\ i + 1 # 1
      BY <1>1, LineFacts
    <3>2. Line[i + 1] = y
      BY <2>2, <3>1, <1>1, LineFacts
    <3>. QED  BY <3>1, <3>2
  <2>. QED  BY <2>1, <2>2, <1>2
<1>. QED  BY <1>4, <1>5, <1>6

\* The end of a stop(): the last stopInLoop leaves no start behind.
LEMMA StopQuiet ==
  ASSUME TypeInv, Parts, RunStopInLoop, state_' # "kConnecting", NEW n, NEW x, Moved(1, n, x),
         n = 1 => x[1] # "startInLoop"
  PROVE  QuietInv' /\ quiet' \in {"no", "asked", "yes"}
<1>1. /\ NextFunctor("stopInLoop") /\ UNCHANGED <<calls, clientVars>>
      /\ quiet' = IF quiet = "asked" /\ ~Pending("queueStop") /\ Call("stopInLoop", None) \notin Range(queue \o Tail(batch))
                  THEN "yes" ELSE quiet
  BY DEF RunStopInLoop
<1>2. /\ batch # <<>> /\ upc' = upc /\ clientConnect' = clientConnect /\ (\A m : ~Doing(m)')
      /\ 1 \in 1..Len(Line) /\ Line[1][1] = "stopInLoop" /\ Len(Line) \in Nat
  BY <1>1, FunctorFacts, LineFacts DEF clientVars, Doing
<1>3. CASE quiet = "asked" /\ ~Pending("queueStop") /\ ~\E i \in 1..Len(Line) : i # 1 /\ Line[i][1] = "stopInLoop"
  <2>1. quiet' = "yes"
    BY <1>1, <1>2, <1>3, StopLeft
  <2>2. PICK k \in 1..Len(Line) : /\ Line[k][1] = "stopInLoop"
                                  /\ \A j \in 1..Len(Line) : k < j => Line[j][1] # "startInLoop"
    BY <1>3 DEF Parts, QuietInv
  <2>3. k = 1
    BY <1>3, <2>2
  <2>4. \A j \in 1..Len(Line) : Line[j][1] # "startInLoop"
    <3>1. ASSUME NEW j \in 1..Len(Line), Line[j][1] = "startInLoop" PROVE FALSE
      <4>1. j # 1
        BY <3>1, <1>2
      <4>2. 1 < j
        BY <4>1
      <4>. QED  BY <4>2, <3>1, <2>2, <2>3
    <3>. QED  BY <3>1
  <2>5. ~Waits("startInLoop")'
    <3>1. ~Waits("startInLoop")
      BY <2>4 DEF Waits
    <3>. QED  BY <3>1, WaitsMoves
  <2>6. ~clientConnect'
    <3>1. ASSUME NEW u \in Users, upc[u] = Steps("stop") PROVE Pending("queueStop")
      <4>1. 3 \in DOMAIN <<ClientOff, ConnectorOff, QueueStop>> /\ <<ClientOff, ConnectorOff, QueueStop>>[3] = QueueStop
        OBVIOUS
      <4>2. HasStop(upc[u])
        BY <3>1, <4>1, StopSteps DEF HasStop
      <4>. QED  BY <4>2 DEF Pending, HasStop, Range, QueueStop
    <3>. QED  BY <3>1, <1>2, <1>3 DEF Parts, QuietInv
  <2>7. \A u \in Users : upc'[u] \notin ConnectPlans
    BY <1>2, <1>3 DEF Parts, QuietInv
  <2>. QED  BY <1>2, <2>1, <2>5, <2>6, <2>7 DEF QuietInv
<1>4. CASE ~(quiet = "asked" /\ ~Pending("queueStop") /\ ~\E i \in 1..Len(Line) : i # 1 /\ Line[i][1] = "stopInLoop")
  <2>1. quiet' = quiet
    BY <1>1, <1>2, <1>4, StopLeft
  <2>2. \A u \in Users : quiet' # "no" => upc'[u] \notin ConnectPlans
    BY <1>2, <2>1 DEF Parts, QuietInv
  <2>3. ASSUME quiet = "asked"
        PROVE  /\ ~clientConnect' \/ \E u \in Users : upc'[u] = Steps("stop")
               /\ \/ Pending("queueStop")'
                  \/ \E i \in 1..Len(Line') : /\ Line'[i][1] = "stopInLoop"
                                              /\ \A j \in 1..Len(Line') : i < j => Line'[j][1] # "startInLoop"
    <3>1. ~clientConnect' \/ \E u \in Users : upc'[u] = Steps("stop")
      BY <1>2, <2>3 DEF Parts, QuietInv
    <3>2. CASE Pending("queueStop")
      BY <3>1, <3>2, <1>2 DEF Pending
    <3>3. CASE ~Pending("queueStop")
      <4>1. PICK i \in 1..Len(Line) : i # 1 /\ Line[i][1] = "stopInLoop"
        BY <1>4, <2>3, <3>3
      <4>2. i - 1 \in 1..(Len(Line) - 1) /\ i - 1 \in 1..Len(Line') /\ (i - 1) + 1 = i
        BY <4>1, <1>2 DEF Moved
      <4>3. Line'[i - 1] = Line[i]
        BY <4>2 DEF Moved
      <4>4. Waits("stopInLoop")'
        BY <4>1, <4>2, <4>3 DEF Waits
      <4>. QED  BY <2>3, <3>1, <3>3, <4>4, StopStaysLast DEF Parts, QuietInv
    <3>. QED  BY <3>2, <3>3
  <2>4. quiet = "yes" => ~clientConnect' /\ ~Waits("startInLoop")'
    BY <1>2, WaitsMoves DEF Parts, QuietInv
  <2>. QED  BY <1>2, <2>1, <2>2, <2>3, <2>4 DEF QuietInv, TypeInv
<1>. QED  BY <1>3, <1>4

\* stopInLoop removes the channel of an attempt and closes its socket.
LEMMA RunStopInLoopStep ==
  ASSUME TypeInv, Parts, RunStopInLoop
  PROVE  IInv'
<1>1. /\ NextFunctor("stopInLoop") /\ StopInLoop /\ UNCHANGED <<connect_, channel_, overlap, calls, clientVars>>
  BY DEF RunStopInLoop, StopInLoop
<1>2. Line[1][1] = "stopInLoop" /\ \A m : ~Doing(m)'
  BY <1>1, FunctorFacts DEF Doing
<1>3. CASE state_ # "kConnecting"
  <2>1. UNCHANGED <<state_, registered, open, queue, ub>>
    BY <1>1, <1>3 DEF StopInLoop
  <2>2. LoopInv' /\ Moved(1, 0, None)
    BY <1>1, <2>1, RunsQuietly
  <2>3. QuietInv' /\ quiet' \in {"no", "asked", "yes"}
    BY <1>3, <2>1, <2>2, StopQuiet
  <2>4. TypeInv'
    BY <1>1, <2>1, <2>3, FunctorFacts DEF TypeInv, TypeOK, clientVars
  <2>5. OpenInv' /\ SingleInv'
    BY <1>1, <2>1, KeepOpen, KeepSingle DEF Parts, clientVars
  <2>6. DestroyInv'
    BY <1>1, <1>2, <2>2, LineFacts, DestroyMoves DEF Parts, clientVars
  <2>7. AttemptInv'
    <3>1. \A i \in 1..Len(<<>>) : FALSE
      OBVIOUS
    <3>2. \A i \in 1..Len(active') : FALSE
      BY <3>1, <1>1, FunctorFacts, Zenon
    <3>. QED  BY <3>2, <2>1, <1>3 DEF AttemptInv
  <2>8. DeadInv'
    BY <1>1, <1>2, <1>3, <2>1, <2>2, FunctorFacts, DeadMoves DEF Parts, clientVars, Live
  <2>. QED  BY <1>1, <2>1, <2>2, <2>3, <2>4, <2>5, <2>6, <2>7, <2>8, FunctorFacts DEF IInv, OnlyKnownDangers, Parts, Running
<1>4. CASE state_ = "kConnecting" /\ channel_ = None
  <2>1. ub' = "nullChannel" /\ UNCHANGED <<state_, registered, open, queue>>
    BY <1>1, <1>4 DEF StopInLoop
  <2>2. quiet' \in {"no", "asked", "yes"}
    BY DEF RunStopInLoop, TypeInv
  <2>3. TypeInv'
    BY <1>1, <2>1, <2>2, FunctorFacts DEF TypeInv, TypeOK, clientVars
  <2>4. overlap' /\ ~Running'
    BY <1>1, <1>4, <2>1 DEF Parts, AttemptInv, Running, TypeInv
  <2>. QED  BY <2>3, <2>4 DEF IInv, OnlyKnownDangers
<1>5. CASE state_ = "kConnecting" /\ channel_ # None
  <2>1. DropAttempt(channel_, "kDisconnected") /\ UNCHANGED ub /\ channel_ \in Fds
    BY <1>1, <1>5 DEF StopInLoop, TypeInv, TypeOK
  <2>2. /\ state_' = "kDisconnected" /\ registered' = registered \ {channel_} /\ open' = open \ {channel_}
        /\ queue' = Append(queue, <<"resetChannel", None>>)
    BY <2>1, ResetFunctor DEF DropAttempt
  <2>3. Moved(1, 1, <<"resetChannel", None>>) /\ queue' \in Seq(Functors)
    BY <1>1, <2>2, FunctorFacts, LineShiftsGrows, ResetFunctor
  <2>4. QuietInv' /\ quiet' \in {"no", "asked", "yes"}
    BY <2>2, <2>3, StopQuiet, ResetFunctor
  <2>5. TypeInv'
    BY <1>1, <2>1, <2>2, <2>3, <2>4, FunctorFacts DEF TypeInv, TypeOK, clientVars
  <2>6. LoopInv' /\ OpenInv' /\ SingleInv' /\ DestroyInv' /\ AttemptInv' /\ DeadInv'
    <3>1. /\ lpc' # "functors" => batch' = <<>>
          /\ lpc' = lpc /\ (active' # <<>> => lpc' = "events") /\ ~(1 = 1 /\ Line[1][1] \in Bound)
          /\ calls = <<>> /\ calls' = calls
      BY <1>1, <1>2, FunctorFacts DEF Bound
    <3>2. \A i \in 1..Len(active') : active'[i][2] = channel_ \/ overlap
      <4>1. \A i \in 1..Len(<<>>) : FALSE
        OBVIOUS
      <4>. QED  BY <4>1, <1>1, FunctorFacts, Zenon
    <3>3. UNCHANGED <<channel_, overlap, conn, connection_, closeCallback, clientAlive, risky, upc, connect_>>
      BY <1>1, FunctorFacts DEF clientVars
    <3>. QED  BY <1>5, <2>1, <2>3, <3>1, <3>2, <3>3, DropParts DEF Parts
  <2>. QED  BY <1>1, <2>1, <2>4, <2>5, <2>6, FunctorFacts DEF IInv, OnlyKnownDangers, Parts, Running
<1>. QED  BY <1>3, <1>4, <1>5

-----------------------------------------------------------------------------
(* The calls of callbacks and functors *)

\* What every call of the loop starts from.
LEMMA CallFacts ==
  ASSUME TypeInv, Parts, NEW name, NextCall(name)
  PROVE  /\ Running /\ active = <<>> /\ active' = <<>> /\ calls # <<>>
         /\ Head(calls) = calls[1] /\ calls[1] \in CallSet /\ calls[1][1] = name
         /\ name \in {"newConnection", "connectEstablished", "closeCallback", "return"} => calls[1][2] \in Fds
         /\ \A n : Doing(n) <=> n = name
         /\ UNCHANGED <<lpc, active, batch, upc, made, quiet, risky, retry_, clientConnect>>
<1>1. /\ Running /\ calls # <<>> /\ Head(calls)[1] = name
      /\ UNCHANGED <<lpc, active, batch, upc, made, quiet, risky, retry_, clientConnect>>
  BY DEF NextCall, loopVars, userVars
<1>2. active = <<>>
  BY <1>1 DEF Parts, LoopInv
<1>3. calls \in Seq(CallSet) /\ Head(calls) = calls[1] /\ calls[1] \in CallSet
  BY <1>1, HeadTailProperties, EmptySeq DEF TypeInv
<1>4. name \in {"newConnection", "connectEstablished", "closeCallback", "return"} => calls[1][2] \in Fds
  BY <1>1, <1>3 DEF CallSet
<1>. QED  BY <1>1, <1>2, <1>3, <1>4 DEF Doing

\* While a call is made from a functor there is no active channel.
LEMMA NoActive ==
  ASSUME active' = <<>>
  PROVE  \A i \in 1..Len(active') : FALSE
<1>1. \A i \in 1..Len(<<>>) : FALSE
  OBVIOUS
<1>. QED  BY <1>1, Zenon

\* A call returns, and what called it goes on.
LEMMA PopParts ==
  ASSUME TypeInv, Parts, NEW name \in {"return", "startInLoop"}, NextCall(name), calls' = Tail(calls),
         UNCHANGED <<connectorVars, registered, open, queue, connection_, conn, closeCallback, clientAlive>>
  PROVE  TypeInv' /\ Parts'
<1>1. /\ calls' \in Seq(CallSet) /\ Len(calls') <= 1
      /\ \A n : Doing(n)' => n = "return"
      /\ Returning' => Returning
  BY CallFacts, CallsPop DEF Parts
<1>2. Moved(0, 0, None)
  BY CallFacts, LineSame
<1>3. UNCHANGED <<state_, connect_, channel_, overlap>>
  BY DEF connectorVars
<1>4. TypeInv'
  BY <1>1, <1>3, CallFacts DEF TypeInv, TypeOK
<1>5. LoopInv'
  <2>1. Returning' => Waits("resetChannel")'
    BY <1>1, <1>2, WaitsMoves DEF Parts, LoopInv
  <2>2. Len(calls') \in Nat
    BY <1>1, LenProperties
  <2>3. Len(calls') # 2 /\ Len(calls') <= 2
    BY <1>1, <2>2
  <2>4. active' = <<>> /\ lpc' = lpc /\ batch' = batch
    BY CallFacts
  <2>. QED  BY <2>1, <2>3, <2>4 DEF Parts, LoopInv
<1>6. OpenInv'
  BY <1>1, <1>3, CallFacts DEF Parts, OpenInv
<1>7. SingleInv'
  BY <1>1, <1>3, CallFacts DEF Parts, SingleInv, Live
<1>8. DestroyInv'
  BY <1>1, <1>2, LineFacts, DestroyMoves DEF Parts
<1>9. AttemptInv'
  BY <1>3, CallFacts, KeepAttempt DEF Parts
<1>10. DeadInv'
  BY <1>1, <1>2, <1>3, CallFacts, DeadMoves DEF Parts, Live
<1>11. QuietInv'
  BY <1>1, <1>2, <1>3, CallFacts, QuietMoves DEF Parts, QuietInv
<1>. QED  BY <1>4, <1>5, <1>6, <1>7, <1>8, <1>9, <1>10, <1>11 DEF Parts

\* A call that has nothing more to do.
LEMMA ReturnStep ==
  ASSUME TypeInv, Parts, Return
  PROVE  TypeInv' /\ Parts' /\ ub' = ub
BY PopParts DEF Return

\* The lowest free descriptor is a free descriptor.
LEMMA FreeFdIsFree ==
  ASSUME Fds \ open # {}
  PROVE  FreeFd \in Fds \ open
<1>1. \E f \in Fds \ open : \A g \in Fds \ open : f <= g
  BY FdsAssumption, LeastNumber
<1>. QED  BY <1>1 DEF FreeFd

\* A new attempt: only with a reset outstanding does it find a running channel.
LEMMA CallStartInLoopStep ==
  ASSUME TypeInv, Parts, CallStartInLoop
  PROVE  IInv'
<1>1. /\ NextCall("startInLoop") /\ StartInLoop /\ calls' = Tail(calls)
      /\ UNCHANGED <<queue, connection_, conn, closeCallback, clientAlive>>
  BY DEF CallStartInLoop
<1>2. CASE UNCHANGED <<connectorVars, registered, open, ub>>
  <2>1. TypeInv' /\ Parts'
    BY <1>1, <1>2, PopParts
  <2>2. Running'
    BY <1>1, <1>2, CallFacts DEF Running
  <2>. QED  BY <2>1, <2>2 DEF IInv, OnlyKnownDangers, Running
<1>3. CASE state_ = "kDisconnected" /\ connect_ /\ Connecting
  <2> DEFINE g == FreeFd
  <2>1. /\ state_' = "kConnecting" /\ channel_' = g /\ open' = open \cup {g} /\ registered' = registered \cup {g}
        /\ overlap' = (overlap \/ Waits("resetChannel"))
        /\ ub' = IF \E i \in 1..Len(calls) : calls[i] = Call("return", channel_) THEN "runningChannel" ELSE ub
        /\ connect_' = connect_ /\ Fds \ open # {}
    BY <1>3, OutstandingWaits DEF Connecting
  <2>2. g \in Fds /\ g \notin open /\ g # None
    BY <2>1, FreeFdIsFree, FdsAssumption
  <2> HIDE DEF g
  <2>3. /\ calls' \in Seq(CallSet) /\ Len(calls') <= 1
        /\ \A n : Doing(n)' => n = "return"
        /\ Returning' => Returning
    BY <1>1, CallFacts, CallsPop DEF Parts
  <2>4. Moved(0, 0, None)
    BY <1>1, CallFacts, LineSame
  <2>5. TypeInv'
    BY <1>1, <2>1, <2>2, <2>3, CallFacts DEF TypeInv, TypeOK
  <2>6. ub' # "none" => overlap'
    <3>1. \A i \in 1..Len(calls) : calls[i] = Call("return", channel_) => calls[i][1] = "return"
      BY DEF Call
    <3>2. (\E i \in 1..Len(calls) : calls[i] = Call("return", channel_)) => Returning
      BY <3>1 DEF Returning
    <3>. QED  BY <1>1, <2>1, <3>2, CallFacts DEF Parts, LoopInv, Running
  <2>7. LoopInv'
    BY <1>1, <2>3, <2>4, CallFacts, WaitsMoves DEF Parts, LoopInv
  <2>8. /\ connection_ = None /\ \A f \in Fds : ~Live(f)
        /\ conn[g] = "none"
    BY <1>3, <2>2 DEF Parts, SingleInv, OpenInv
  <2>9. \A n : Doing(n) <=> n = "startInLoop"
    BY <1>1, CallFacts
  <2>10. OpenInv'
    BY <1>1, <1>3, <2>1, <2>2, <2>3, <2>8, <2>9 DEF Parts, OpenInv, TypeInv, TypeOK
  <2>11. SingleInv'
    BY <1>1, <2>3, <2>8 DEF SingleInv, Live
  <2>12. DestroyInv'
    BY <1>1, <2>3, <2>4, LineFacts, DestroyMoves DEF Parts
  <2>13. AttemptInv'
    <3>1. Waits("resetChannel")' => Waits("resetChannel")
      BY <2>4, WaitsMoves
    <3>. QED  BY <1>1, <2>1, <2>2, <3>1, CallFacts, NoActive DEF AttemptInv
  <2>14. DeadInv'
    <3>1. clientAlive \/ risky
      BY <1>3, <2>8 DEF Parts, DeadInv
    <3>. QED  BY <1>1, <3>1, CallFacts DEF DeadInv
  <2>15. QuietInv'
    <3>1. quiet # "yes"
      BY <2>9 DEF Parts, QuietInv
    <3>. QED  BY <1>1, <2>4, <3>1, CallFacts, QuietMoves DEF Parts
  <2>. QED  BY <2>5, <2>6, <2>7, <2>10, <2>11, <2>12, <2>13, <2>14, <2>15 DEF IInv, OnlyKnownDangers, Parts, Running
<1>. QED  BY <1>1, <1>2, <1>3 DEF StartInLoop

\* restart(), from a lost connection.
LEMMA CallRestartStep ==
  ASSUME TypeInv, Parts, CallRestart
  PROVE  TypeInv' /\ Parts' /\ ub' = ub
<1>1. /\ NextCall("restart") /\ state_' = "kDisconnected" /\ connect_' = TRUE
      /\ calls' = <<Call("startInLoop", None)>> \o Tail(calls)
      /\ UNCHANGED <<channel_, overlap, registered, open, queue, ub, connection_, conn, closeCallback, clientAlive>>
  BY DEF CallRestart
<1>2. <<"startInLoop", None>> \in CallSet /\ <<"startInLoop", None>>[1] = "startInLoop"
      /\ Call("startInLoop", None) = <<"startInLoop", None>>
  BY DEF CallSet, Call
<1>3. /\ calls' \in Seq(CallSet) /\ calls' # <<>> /\ calls'[1] = <<"startInLoop", None>>
      /\ Len(calls') <= 2 /\ (Len(calls') = 2 => calls'[2][1] = "return")
      /\ Returning' => Returning
  <2>1. <<"startInLoop", None>>[1] # "return"
    OBVIOUS
  <2>. QED  BY <1>1, <1>2, <2>1, CallFacts, CallsReplace DEF Parts
<1>4. /\ \A n : Doing(n) <=> n = "restart"
      /\ \A n : Doing(n)' <=> n = "startInLoop"
  BY <1>1, <1>2, <1>3, CallFacts DEF Doing
<1>5. Moved(0, 0, None)
  BY <1>1, CallFacts, LineSame
<1>6. state_ = "kConnected" /\ connection_ = None /\ \A f \in Fds : ~Live(f)
  BY <1>4, FdsAssumption DEF Parts, SingleInv
<1>7. TypeInv'
  BY <1>1, <1>3, CallFacts DEF TypeInv, TypeOK
<1>8. LoopInv'
  BY <1>1, <1>3, <1>5, CallFacts, WaitsMoves DEF Parts, LoopInv
<1>9. OpenInv'
  BY <1>1, <1>4, <1>6 DEF Parts, OpenInv
<1>10. SingleInv'
  BY <1>1, <1>4, <1>6 DEF SingleInv, Live
<1>11. DestroyInv'
  BY <1>1, <1>4, <1>5, LineFacts, DestroyMoves DEF Parts
<1>12. AttemptInv'
  BY <1>1, CallFacts, NoActive DEF AttemptInv
<1>13. DeadInv'
  BY <1>1, <1>4, CallFacts DEF Parts, DeadInv
<1>14. QuietInv'
  <2>1. quiet # "yes"
    BY <1>4 DEF Parts, QuietInv
  <2>. QED  BY <1>1, <1>5, <2>1, CallFacts, QuietMoves DEF Parts
<1>. QED  BY <1>1, <1>7, <1>8, <1>9, <1>10, <1>11, <1>12, <1>13, <1>14 DEF Parts

\* newConnection finds its client unless the client was destroyed dangerously.
LEMMA CallNewConnectionStep ==
  ASSUME TypeInv, Parts, CallNewConnection
  PROVE  IInv'
<1> DEFINE f == Head(calls)[2]
<1>1. /\ NextCall("newConnection")
      /\ UNCHANGED <<connectorVars, registered, open, queue, closeCallback, clientAlive>>
      /\ IF ~clientAlive
         THEN ub' = "deadClient" /\ UNCHANGED <<conn, connection_, calls>>
         ELSE /\ conn' = [conn EXCEPT ![f] = "kConnecting"] /\ connection_' = f
              /\ calls' = <<Call("connectEstablished", f)>> \o Tail(calls)
              /\ UNCHANGED ub
  BY DEF CallNewConnection
<1>2. f \in Fds /\ calls[1][2] = f
  BY <1>1, CallFacts
<1> HIDE DEF f
<1>3. \A n : Doing(n) <=> n = "newConnection"
  BY <1>1, CallFacts
<1>4. UNCHANGED <<state_, connect_, channel_, overlap>>
  BY <1>1 DEF connectorVars
<1>5. CASE ~clientAlive
  <2>1. risky
    BY <1>3, <1>5 DEF Parts, DeadInv
  <2>2. TypeInv'
    BY <1>1, <1>4, <1>5, CallFacts DEF TypeInv, TypeOK
  <2>3. risky' /\ ~Running'
    BY <1>1, <1>5, <2>1, CallFacts DEF Running
  <2>. QED  BY <2>2, <2>3 DEF IInv, OnlyKnownDangers
<1>6. CASE clientAlive
  <2>1. /\ conn' = [conn EXCEPT ![f] = "kConnecting"] /\ connection_' = f /\ UNCHANGED ub
        /\ calls' = <<Call("connectEstablished", f)>> \o Tail(calls)
    BY <1>1, <1>6
  <2>2. <<"connectEstablished", f>> \in CallSet /\ <<"connectEstablished", f>>[1] = "connectEstablished"
        /\ Call("connectEstablished", f) = <<"connectEstablished", f>> /\ <<"connectEstablished", f>>[2] = f
    BY <1>2 DEF CallSet, Call
  <2>3. /\ calls' \in Seq(CallSet) /\ calls' # <<>> /\ calls'[1] = <<"connectEstablished", f>>
        /\ Len(calls') <= 2 /\ (Len(calls') = 2 => calls'[2][1] = "return")
        /\ Returning' => Returning
    <3>1. <<"connectEstablished", f>>[1] # "return"
      OBVIOUS
    <3>. QED  BY <1>1, <2>1, <2>2, <3>1, CallFacts, CallsReplace DEF Parts
  <2>4. (\A n : Doing(n)' <=> n = "connectEstablished") /\ calls'[1][2] = f
    BY <2>2, <2>3 DEF Doing
  <2>5. Moved(0, 0, None)
    BY <1>1, CallFacts, LineSame
  <2>6. /\ f \in open /\ conn[f] = "none" /\ state_ = "kConnected" /\ connection_ = None /\ \A h \in Fds : ~Live(h)
    BY <1>2, <1>3, FdsAssumption DEF Parts, OpenInv, SingleInv
  <2>7. /\ conn' \in [Fds -> ConnStates]
        /\ \A h \in Fds : conn'[h] = IF h = f THEN "kConnecting" ELSE conn[h]
    BY <2>1 DEF TypeInv, TypeOK, ConnStates
  <2>8. \A h \in Fds : Live(h)' => h = f
    BY <2>6, <2>7 DEF Live
  <2>9. TypeInv'
    BY <1>1, <1>2, <1>4, <2>1, <2>3, <2>7, CallFacts DEF TypeInv, TypeOK
  <2>10. LoopInv'
    BY <1>1, <2>3, <2>5, CallFacts, WaitsMoves DEF Parts, LoopInv
  <2>11. OpenInv'
    BY <1>1, <1>2, <1>3, <1>4, <2>4, <2>6, <2>7 DEF Parts, OpenInv, TypeInv, TypeOK
  <2>12. SingleInv'
    BY <1>2, <1>4, <2>1, <2>4, <2>6, <2>7, <2>8 DEF SingleInv
  <2>13. DestroyInv'
    <3>1. /\ \A h \in Fds : conn[h] = "kDisconnected" => conn'[h] = "kDisconnected"
          /\ \A h \in Fds : conn[h] # "none" => conn'[h] # "none"
      BY <2>6, <2>7
    <3>. QED  BY <2>4, <2>5, <3>1, LineFacts, DestroyMoves DEF Parts
  <2>14. AttemptInv'
    BY <1>1, <1>4, CallFacts, KeepAttempt DEF Parts
  <2>15. DeadInv'
    BY <1>1, <1>6 DEF DeadInv
  <2>16. QuietInv'
    <3>1. quiet # "yes"
      BY <1>3 DEF Parts, QuietInv
    <3>. QED  BY <1>1, <2>5, <3>1, CallFacts, QuietMoves DEF Parts
  <2>. QED  BY <1>1, <2>1, <2>9, <2>10, <2>11, <2>12, <2>13, <2>14, <2>15, <2>16, CallFacts
            DEF IInv, OnlyKnownDangers, Parts, Running
<1>. QED  BY <1>5, <1>6

\* connectEstablished, then the connection callback.
LEMMA CallConnectEstablishedStep ==
  ASSUME TypeInv, Parts, CallConnectEstablished
  PROVE  TypeInv' /\ Parts' /\ ub' = ub
<1> DEFINE f == Head(calls)[2]
<1>1. /\ NextCall("connectEstablished")
      /\ UNCHANGED <<connectorVars, open, queue, ub, connection_, closeCallback, clientAlive>>
      /\ \/ /\ conn' = [conn EXCEPT ![f] = "kConnected"] /\ registered' = registered \cup {f}
            /\ calls' = Tail(calls)
         \/ /\ conn' = [conn EXCEPT ![f] = "kDisconnected"] /\ UNCHANGED registered
            /\ calls' = <<Call("closeCallback", f)>> \o Tail(calls)
  BY DEF CallConnectEstablished
<1>2. f \in Fds /\ calls[1][2] = f
  BY <1>1, CallFacts
<1> HIDE DEF f
<1>3. \A n : Doing(n) <=> n = "connectEstablished"
  BY <1>1, CallFacts
<1>4. UNCHANGED <<state_, connect_, channel_, overlap>> /\ Moved(0, 0, None)
  BY <1>1, CallFacts, LineSame DEF connectorVars
<1>5. Live(f) /\ state_ = "kConnected" /\ \A h \in Fds : Live(h) => h = f
  BY <1>2, <1>3 DEF Parts, SingleInv, Live
<1>6. conn[f] # "none" /\ conn[f] # "kDisconnected"
  BY <1>5 DEF Live
<1>7. AttemptInv'
  BY <1>1, <1>4, CallFacts, KeepAttempt DEF Parts
<1>8. CASE conn' = [conn EXCEPT ![f] = "kConnected"] /\ registered' = registered \cup {f} /\ calls' = Tail(calls)
  <2>1. /\ calls' \in Seq(CallSet) /\ Len(calls') <= 1
        /\ \A n : Doing(n)' => n = "return"
        /\ Returning' => Returning
    BY <1>1, <1>8, CallFacts, CallsPop DEF Parts
  <2>2. /\ conn' \in [Fds -> ConnStates]
        /\ \A h \in Fds : conn'[h] = IF h = f THEN "kConnected" ELSE conn[h]
    BY <1>8 DEF TypeInv, TypeOK, ConnStates
  <2>3. \A h \in Fds : Live(h)' <=> Live(h)
    BY <1>5, <2>2 DEF Live
  <2>4. TypeInv'
    BY <1>1, <1>2, <1>4, <1>8, <2>1, <2>2, CallFacts DEF TypeInv, TypeOK
  <2>5. LoopInv'
    BY <1>1, <1>4, <2>1, CallFacts, WaitsMoves DEF Parts, LoopInv
  <2>6. OpenInv'
    BY <1>1, <1>3, <1>4, <1>5, <1>6, <1>8, <2>1, <2>2 DEF Parts, OpenInv, TypeInv, TypeOK
  <2>7. SingleInv'
    BY <1>1, <1>4, <1>5, <2>1, <2>3 DEF Parts, SingleInv
  <2>8. DestroyInv'
    BY <1>4, <1>6, <2>1, <2>2, LineFacts, DestroyMoves DEF Parts
  <2>9. DeadInv'
    BY <1>1, <1>4, <1>5, <2>1, <2>3, CallFacts, DeadMoves DEF Parts
  <2>10. QuietInv'
    BY <1>1, <1>4, <1>5, <2>1, CallFacts, QuietMoves DEF Parts
  <2>. QED  BY <1>1, <1>7, <2>4, <2>5, <2>6, <2>7, <2>8, <2>9, <2>10 DEF Parts
<1>9. CASE /\ conn' = [conn EXCEPT ![f] = "kDisconnected"] /\ UNCHANGED registered
           /\ calls' = <<Call("closeCallback", f)>> \o Tail(calls)
  <2>1. <<"closeCallback", f>> \in CallSet /\ <<"closeCallback", f>>[1] = "closeCallback"
        /\ Call("closeCallback", f) = <<"closeCallback", f>> /\ <<"closeCallback", f>>[2] = f
    BY <1>2 DEF CallSet, Call
  <2>2. /\ calls' \in Seq(CallSet) /\ calls' # <<>> /\ calls'[1] = <<"closeCallback", f>>
        /\ Len(calls') <= 2 /\ (Len(calls') = 2 => calls'[2][1] = "return")
        /\ Returning' => Returning
    <3>1. <<"closeCallback", f>>[1] # "return"
      OBVIOUS
    <3>. QED  BY <1>1, <1>9, <2>1, <3>1, CallFacts, CallsReplace DEF Parts
  <2>3. (\A n : Doing(n)' <=> n = "closeCallback") /\ calls'[1][2] = f
    BY <2>1, <2>2 DEF Doing
  <2>4. /\ conn' \in [Fds -> ConnStates]
        /\ \A h \in Fds : conn'[h] = IF h = f THEN "kDisconnected" ELSE conn[h]
    BY <1>9 DEF TypeInv, TypeOK, ConnStates
  <2>5. \A h \in Fds : ~Live(h)'
    BY <1>5, <2>4 DEF Live
  <2>6. TypeInv'
    BY <1>1, <1>4, <1>9, <2>2, <2>4, CallFacts DEF TypeInv, TypeOK
  <2>7. LoopInv'
    BY <1>1, <1>4, <2>2, CallFacts, WaitsMoves DEF Parts, LoopInv
  <2>8. OpenInv'
    BY <1>1, <1>3, <1>4, <1>5, <1>6, <1>9, <2>3, <2>4 DEF Parts, OpenInv
  <2>9. SingleInv'
    BY <1>1, <1>2, <1>4, <1>5, <2>3, <2>4, <2>5 DEF Parts, SingleInv
  <2>10. DestroyInv'
    <3>1. /\ \A h \in Fds : conn[h] = "kDisconnected" => conn'[h] = "kDisconnected"
          /\ \A h \in Fds : conn[h] # "none" => conn'[h] # "none"
      BY <1>6, <2>4
    <3>2. Live(calls'[1][2])
      BY <1>5, <2>3
    <3>. QED  BY <1>4, <3>1, <3>2, LineFacts, DestroyMoves DEF Parts
  <2>11. DeadInv'
    <3>1. \A h \in Fds : Doing("closeCallback")' /\ calls'[1][2] = h => closeCallback'[h] = closeCallback[h] /\ Live(h)
      BY <1>1, <1>5, <2>3
    <3>2. state_' # "kConnecting"
      BY <1>4, <1>5
    <3>. QED  BY <1>1, <1>4, <2>3, <2>5, <3>1, <3>2, CallFacts, DeadMoves DEF Parts
  <2>12. QuietInv'
    BY <1>1, <1>4, <1>5, <2>3, CallFacts, QuietMoves DEF Parts
  <2>. QED  BY <1>1, <1>7, <2>6, <2>7, <2>8, <2>9, <2>10, <2>11, <2>12 DEF Parts
<1>. QED  BY <1>1, <1>8, <1>9

\* removeConnection finds its client or has been replaced.
LEMMA CallCloseCallbackStep ==
  ASSUME TypeInv, Parts, CallCloseCallback
  PROVE  IInv'
<1> DEFINE f == Head(calls)[2]
           known == closeCallback[f] = "detail" \/ connection_ = f
<1>1. /\ NextCall("closeCallback") /\ RemoveConnection(f)
      /\ UNCHANGED <<connectorVars, registered, open, conn, closeCallback, clientAlive>>
  BY DEF CallCloseCallback
<1>2. f \in Fds /\ calls[1][2] = f
  BY <1>1, CallFacts
<1>3. IF closeCallback[f] = "client" /\ ~clientAlive
      THEN ub' = "deadClient" /\ UNCHANGED <<connection_, queue, calls>>
      ELSE /\ connection_' = IF closeCallback[f] = "client" /\ known THEN None ELSE connection_
           /\ queue' = IF known THEN Append(queue, Call("connectDestroyed", f)) ELSE queue
           /\ calls' = IF closeCallback[f] = "client" /\ known /\ retry_ /\ clientConnect
                       THEN <<Call("restart", None)>> \o Tail(calls) ELSE Tail(calls)
           /\ UNCHANGED ub
  BY <1>1, Zenon DEF RemoveConnection
<1> HIDE DEF f, known
<1>4. \A n : Doing(n) <=> n = "closeCallback"
  BY <1>1, CallFacts
<1>5. state_ = "kConnected" /\ conn[f] = "kDisconnected" /\ \A h \in Fds : ~Live(h)
  BY <1>2, <1>4 DEF Parts, SingleInv
<1>6. UNCHANGED <<state_, connect_, channel_, overlap>>
  BY <1>1 DEF connectorVars
<1>7. CASE closeCallback[f] = "client" /\ ~clientAlive
  <2>1. risky
    BY <1>2, <1>4, <1>7 DEF Parts, DeadInv
  <2>2. TypeInv'
    BY <1>1, <1>3, <1>6, <1>7, CallFacts DEF TypeInv, TypeOK
  <2>3. risky' /\ ~Running'
    BY <1>1, <1>3, <1>7, <2>1, CallFacts DEF Running
  <2>. QED  BY <2>2, <2>3 DEF IInv, OnlyKnownDangers
<1>8. CASE ~(closeCallback[f] = "client" /\ ~clientAlive)
  <2> DEFINE again == closeCallback[f] = "client" /\ known /\ retry_ /\ clientConnect
             x == <<"connectDestroyed", f>>
  <2>1. /\ connection_' = IF closeCallback[f] = "client" /\ known THEN None ELSE connection_
        /\ queue' = IF known THEN Append(queue, x) ELSE queue
        /\ calls' = IF again THEN <<<<"restart", None>>>> \o Tail(calls) ELSE Tail(calls)
        /\ UNCHANGED ub
    BY <1>3, <1>8 DEF Call
  <2>2. x \in Functors /\ x[1] = "connectDestroyed" /\ x[2] = f /\ x[1] # "startInLoop"
        /\ <<"restart", None>> \in CallSet /\ <<"restart", None>>[1] = "restart" /\ <<"restart", None>>[1] # "return"
    BY <1>2 DEF Functors, Bound, CallSet
  <2> HIDE DEF x, again
  <2>3. /\ calls' \in Seq(CallSet) /\ Len(calls') <= 2 /\ (Len(calls') = 2 => calls'[2][1] = "return")
        /\ Returning' => Returning
        /\ \A n : Doing(n)' => n = "return" \/ (n = "restart" /\ again)
    <3>1. CASE again
      BY <1>1, <2>1, <2>2, <3>1, CallFacts, CallsReplace DEF Parts, Doing
    <3>2. CASE ~again
      <4>0. calls' = Tail(calls) /\ calls # <<>>
        BY <1>1, <2>1, <3>2, CallFacts
      <4>1. /\ calls' \in Seq(CallSet) /\ Len(calls') <= 1
            /\ Returning' => Returning
            /\ \A n : Doing(n)' => n = "return"
        BY <4>0, CallsPop DEF Parts
      <4>2. Len(calls') \in Nat
        BY <4>1, LenProperties
      <4>. QED  BY <4>1, <4>2
    <3>. QED  BY <3>1, <3>2
  <2>4. PICK n \in 0..1 : Moved(0, n, x) /\ queue' \in Seq(Functors) /\ (n = 1 => known)
    <3>1. CASE known
      BY <1>1, <2>1, <2>2, <3>1, CallFacts, LineGrows
    <3>2. CASE ~known
      <4>1. Moved(0, 0, None) /\ queue' \in Seq(Functors)
        BY <1>1, <2>1, <3>2, CallFacts, LineSame DEF TypeInv
      <4>2. Moved(0, 0, x)
        BY <4>1 DEF Moved
      <4>. QED  BY <4>1, <4>2
    <3>. QED  BY <3>1, <3>2
  <2>5. TypeInv'
    BY <1>1, <1>6, <2>1, <2>3, <2>4, CallFacts DEF TypeInv, TypeOK
  <2>6. LoopInv'
    BY <1>1, <2>3, <2>4, CallFacts, WaitsMoves DEF Parts, LoopInv
  <2>7. OpenInv'
    BY <1>1, <1>4, <1>6, <2>3 DEF Parts, OpenInv
  <2>8. SingleInv'
    <3>1. again => connection_' = None
      BY <2>1 DEF again
    <3>. QED  BY <1>1, <1>5, <1>6, <2>3, <3>1 DEF SingleInv, Live
  <2>9. DestroyInv'
    <3>1. n = 1 /\ x[1] = "connectDestroyed" => /\ conn'[x[2]] = "kDisconnected"
                                                /\ Doing("closeCallback") /\ calls[1][2] = x[2]
      BY <1>1, <1>2, <1>4, <1>5, <2>2
    <3>2. ~Doing("closeCallback")'
      BY <2>3
    <3>. QED  BY <1>1, <2>2, <2>4, <3>1, <3>2, LineFacts, DestroyMoves DEF Parts
  <2>10. AttemptInv'
    BY <1>1, <1>5, <1>6, CallFacts, NoActive DEF AttemptInv
  <2>11. DeadInv'
    <3>1. ~clientAlive => connection_' = connection_ /\ ~again
      BY <1>8, <2>1 DEF again
    <3>2. \A h \in Fds : ~Live(h)'
      BY <1>1, <1>5 DEF Live
    <3>. QED  BY <1>1, <1>5, <1>6, <2>2, <2>3, <2>4, <3>1, <3>2, CallFacts, DeadMoves DEF Parts
  <2>12. QuietInv'
    <3>1. quiet = "yes" => ~again
      BY DEF Parts, QuietInv, again
    <3>. QED  BY <1>1, <1>5, <1>6, <2>2, <2>3, <2>4, <3>1, CallFacts, QuietMoves DEF Parts
  <2>. QED  BY <1>1, <2>1, <2>5, <2>6, <2>7, <2>8, <2>9, <2>10, <2>11, <2>12, CallFacts
            DEF IInv, OnlyKnownDangers, Parts, Running
<1>. QED  BY <1>7, <1>8

-----------------------------------------------------------------------------
(* The client's users *)

\* What a user can do to the loop: queue a functor that runs later, and begin
\* the end of a connection that is up.
LEMMA UserParts ==
  ASSUME TypeInv, Parts, NEW n, NEW x, Moved(0, n, x),
         n = 1 => x \in Functors /\ x[1] \notin {"resetChannel", "connectDestroyed"},
         n = 1 /\ x[1] = "shutdownInLoop" => Live(x[2]),
         \A f \in Fds : conn'[f] = conn[f] \/ (conn[f] \in {"kConnected", "kDisconnecting"} /\ conn'[f] = "kDisconnecting"),
         UNCHANGED <<loopVars, calls, state_, channel_, overlap, registered, open, connection_>>
  PROVE  LoopInv' /\ OpenInv' /\ SingleInv' /\ DestroyInv' /\ AttemptInv'
<1>1. \A f \in Fds : (Live(f)' <=> Live(f)) /\ (conn'[f] = "none" <=> conn[f] = "none")
  BY DEF Live
<1>2. /\ \A f \in Fds : conn[f] = "kConnecting" => conn'[f] = "kConnecting"
      /\ \A f \in Fds : conn[f] = "kDisconnected" => conn'[f] = "kDisconnected"
  OBVIOUS
<1>3. UNCHANGED <<lpc, active, batch>> /\ \A m : Doing(m)' <=> Doing(m)
  BY DEF loopVars, Doing
<1>4. Waits("resetChannel")' <=> Waits("resetChannel")
  BY WaitsMoves
<1>5. LoopInv'
  BY <1>3, <1>4 DEF Parts, LoopInv, Returning
<1>6. OpenInv'
  <2>1. /\ Doing("newConnection") => calls[1][2] \in open
        /\ open \subseteq Fds /\ registered \subseteq Fds
    BY DEF Parts, OpenInv, TypeInv, TypeOK
  <2>2. channel_ # None => channel_ \in Fds
    BY DEF TypeInv, TypeOK
  <2>. QED  BY <1>1, <1>3, <2>1, <2>2 DEF Parts, OpenInv
<1>7. SingleInv'
  <2>1. Doing("connectEstablished") \/ Doing("closeCallback") => calls[1][2] \in Fds
    <3>1. calls # <<>> => calls[1] \in CallSet
      BY EmptySeq, HeadTailProperties DEF TypeInv
    <3>. QED  BY <3>1 DEF Doing, CallSet
  <2>. QED  BY <1>1, <1>2, <1>3, <2>1 DEF Parts, SingleInv
<1>8. DestroyInv'
  <2>1. n = 1 /\ x[1] = "shutdownInLoop" => x[2] \in Fds
    BY DEF Functors, Plain, Bound
  <2>2. n = 1 /\ x[1] = "shutdownInLoop" => conn'[x[2]] # "none"
    BY <1>1, <2>1 DEF Live
  <2>. QED  BY <1>1, <1>2, <1>3, <2>2, LineFacts, DestroyMoves DEF Parts
<1>9. AttemptInv'
  BY <1>3, <1>4 DEF Parts, AttemptInv
<1>. QED  BY <1>5, <1>6, <1>7, <1>8, <1>9

\* A functor at the end of the line.
LEMMA LastOfLine ==
  ASSUME NEW x, Moved(0, 1, x)
  PROVE  /\ Len(Line') \in 1..Len(Line') /\ Line'[Len(Line')] = x /\ Len(Line') \in Nat
         /\ \A j \in 1..Len(Line') : ~(Len(Line') < j)
         /\ \A j \in 1..Len(Line') : Line'[j] # x => j < Len(Line')
<1>1. Len(Line') = Len(Line) + 1 /\ Len(Line) \in Nat /\ Line'[Len(Line) - 0 + 1] = x
  BY DEF Moved
<1>2. Len(Line) - 0 + 1 = Len(Line')
  BY <1>1
<1>3. Line'[Len(Line')] = x
  BY <1>1, <1>2
<1>4. ASSUME NEW j \in 1..Len(Line'), Line'[j] # x PROVE j < Len(Line')
  <2>1. j # Len(Line')
    BY <1>3, <1>4
  <2>. QED  BY <2>1, <1>1
<1>. QED  BY <1>1, <1>3, <1>4

\* No user but connect() disturbs what stop() has begun.
LEMMA UserQuiet ==
  ASSUME QuietInv, NEW n, NEW x, Moved(0, n, x), quiet' = quiet, UNCHANGED <<calls, state_>>,
         clientConnect' = FALSE \/ clientConnect' = clientConnect,
         n = 1 /\ x[1] = "startInLoop" => quiet = "no",
         \A v \in Users : upc'[v] \in ConnectPlans => upc[v] \in ConnectPlans,
         \A v \in Users : upc[v] = Steps("stop") => upc'[v] = upc[v] \/ clientConnect' = FALSE,
         Pending("queueStop") => Pending("queueStop")' \/ (n = 1 /\ x[1] = "stopInLoop")
  PROVE  QuietInv'
<1>1. quiet' # "no" => \A u \in Users : upc'[u] \notin ConnectPlans
  BY DEF QuietInv
<1>2. quiet' = "asked" => ~clientConnect' \/ \E u \in Users : upc'[u] = Steps("stop")
  BY DEF QuietInv
<1>3. ASSUME quiet' = "asked", ~Pending("queueStop")'
      PROVE  \E i \in 1..Len(Line') : /\ Line'[i][1] = "stopInLoop"
                                      /\ \A j \in 1..Len(Line') : i < j => Line'[j][1] # "startInLoop"
  <2>1. CASE n = 1 /\ x[1] = "stopInLoop"
    BY <2>1, LastOfLine
  <2>2. CASE \E i \in 1..Len(Line) : /\ Line[i][1] = "stopInLoop"
                                     /\ \A j \in 1..Len(Line) : i < j => Line[j][1] # "startInLoop"
    BY <2>2, <1>3, StopStaysLast
  <2>. QED  BY <2>1, <2>2, <1>3 DEF QuietInv
<1>4. quiet' = "yes" => /\ ~clientConnect' /\ ~Waits("startInLoop")' /\ state_' # "kConnecting"
                        /\ ~Doing("newConnection")' /\ ~Doing("restart")' /\ ~Doing("startInLoop")'
  BY WaitsMoves DEF QuietInv, Doing
<1>. QED  BY <1>1, <1>2, <1>3, <1>4 DEF QuietInv

\* What every step of a user's call starts from.
LEMMA UserFacts ==
  ASSUME TypeInv, Parts, NEW u \in Users, NEW name, NextStep(u, name)
  PROVE  /\ Running /\ Running' /\ upc[u] # <<>> /\ Head(upc[u])[1] = name /\ (clientAlive \/ risky)
         /\ upc[u] \in Plans /\ NextOf(upc[u])
         /\ UNCHANGED <<loopVars, state_, channel_, overlap, registered, open, calls, ub, retry_,
                        connection_, closeCallback, made, quiet>>
<1>1. /\ Running /\ upc[u] # <<>> /\ Head(upc[u])[1] = name
      /\ UNCHANGED <<loopVars, state_, channel_, overlap, registered, open, calls, ub, retry_,
                     connection_, closeCallback, made, quiet>>
  BY DEF NextStep
<1>2. clientAlive \/ risky
  BY <1>1 DEF Parts, DeadInv
<1>3. upc[u] \in Plans
  BY DEF TypeInv
<1>. QED  BY <1>1, <1>2, <1>3, NextOfPlan DEF Running

\* A step that queues at most one functor.
LEMMA UserStepDone ==
  ASSUME TypeInv, Parts, NEW u \in Users, NEW name, NextStep(u, name), Done(u), NEW n, NEW x, Moved(0, n, x),
         queue' \in Seq(Functors), conn' \in [Fds -> ConnStates], connect_' \in BOOLEAN,
         clientAlive' \in BOOLEAN, risky' \in BOOLEAN, risky' \/ (clientAlive' = clientAlive /\ risky' = risky),
         n = 1 => x \in Functors /\ x[1] \notin {"resetChannel", "connectDestroyed"},
         n = 1 /\ x[1] = "shutdownInLoop" => Live(x[2]),
         n = 1 /\ x[1] = "startInLoop" => name = "queueStart",
         name = "queueStop" => n = 1 /\ x[1] = "stopInLoop",
         \A f \in Fds : conn'[f] = conn[f] \/ (conn[f] \in {"kConnected", "kDisconnecting"} /\ conn'[f] = "kDisconnecting"),
         IF name = "client" THEN clientConnect' = Head(upc[u])[2] ELSE clientConnect' = clientConnect
  PROVE  IInv'
<1>1. /\ Running /\ Running' /\ upc[u] # <<>> /\ Head(upc[u])[1] = name /\ (clientAlive \/ risky)
      /\ upc[u] \in Plans /\ NextOf(upc[u])
      /\ UNCHANGED <<loopVars, state_, channel_, overlap, registered, open, calls, ub, retry_,
                     connection_, closeCallback, made, quiet>>
  BY UserFacts
<1>2. /\ upc' \in [Users -> Plans]
      /\ \A v \in Users : upc'[v] \in ConnectPlans => upc[v] \in ConnectPlans
      /\ \A v \in Users : upc[v] = Steps("stop") => upc'[v] = upc[v] \/ Head(upc[u]) = ClientOff
      /\ Pending("queueStop") => Pending("queueStop")' \/ name = "queueStop"
  BY <1>1, DoneStep
<1>3. name = "client" => clientConnect' \in BOOLEAN /\ (clientConnect' = TRUE => upc[u] \in ConnectPlans)
  BY <1>1 DEF NextOf
<1>4. TypeInv'
  <2>1. clientConnect' \in BOOLEAN
    BY <1>3 DEF TypeInv
  <2>. QED  BY <1>1, <1>2, <2>1 DEF TypeInv, TypeOK, loopVars
<1>5. LoopInv' /\ OpenInv' /\ SingleInv' /\ DestroyInv' /\ AttemptInv'
  BY <1>1, UserParts
<1>6. DeadInv'
  BY <1>1 DEF DeadInv
<1>7. QuietInv'
  <2>1. CASE quiet = "no"
    BY <1>1, <2>1 DEF QuietInv
  <2>2. CASE quiet # "no"
    <3>1. upc[u] \notin ConnectPlans
      BY <2>2 DEF Parts, QuietInv
    <3>2. name # "queueStart" /\ (clientConnect' = FALSE \/ clientConnect' = clientConnect)
      BY <1>1, <1>3, <3>1 DEF NextOf
    <3>3. ASSUME NEW v \in Users, upc[v] = Steps("stop") PROVE upc'[v] = upc[v] \/ clientConnect' = FALSE
      <4>1. CASE Head(upc[u]) = ClientOff
        <5>1. name = "client"
          BY <1>1, <4>1, StepNames
        <5>. QED  BY <5>1, <3>1, <1>3
      <4>. QED  BY <3>3, <4>1, <1>2
    <3>. QED  BY <1>1, <1>2, <3>2, <3>3, UserQuiet DEF Parts
  <2>. QED  BY <2>1, <2>2
<1>. QED  BY <1>1, <1>4, <1>5, <1>6, <1>7 DEF IInv, OnlyKnownDangers, Parts, Running

\* A user sets the client's connect_.
LEMMA SetClientStep ==
  ASSUME TypeInv, Parts, NEW u \in Users, SetClient(u)
  PROVE  IInv'
<1>1. /\ NextStep(u, "client") /\ Done(u) /\ clientConnect' = Head(upc[u])[2]
      /\ UNCHANGED <<connect_, queue, conn, clientAlive, risky>>
  BY DEF SetClient
<1>2. Moved(0, 0, None)
  BY <1>1, UserFacts, LineSame DEF loopVars
<1>. QED  BY <1>1, <1>2, UserStepDone DEF TypeInv, TypeOK

\* A user sets the connector's connect_.
LEMMA SetConnectorStep ==
  ASSUME TypeInv, Parts, NEW u \in Users, SetConnector(u)
  PROVE  IInv'
<1>1. /\ NextStep(u, "connector") /\ Done(u) /\ connect_' = Head(upc[u])[2]
      /\ UNCHANGED <<queue, clientConnect, conn, clientAlive, risky>>
  BY DEF SetConnector
<1>2. Moved(0, 0, None)
  BY <1>1, UserFacts, LineSame DEF loopVars
<1>3. connect_' \in BOOLEAN
  BY <1>1, UserFacts DEF NextOf
<1>. QED  BY <1>1, <1>2, <1>3, UserStepDone DEF TypeInv, TypeOK

\* A user queues startInLoop or stopInLoop.
LEMMA QueuesStep ==
  ASSUME TypeInv, Parts, NEW u \in Users, Queues(u)
  PROVE  IInv'
<1>1. /\ Done(u) /\ UNCHANGED <<connect_, clientConnect, conn, clientAlive, risky>>
      /\ conn' \in [Fds -> ConnStates] /\ connect_' \in BOOLEAN /\ clientAlive' \in BOOLEAN /\ risky' \in BOOLEAN
  BY DEF Queues, TypeInv, TypeOK
<1>2. ASSUME NEW name \in {"startInLoop", "stopInLoop"}
      PROVE  /\ Call(name, None) \in Functors /\ Call(name, None)[1] = name
  BY DEF Call, Functors, Plain
<1>3. CASE NextStep(u, "queueStart") /\ queue' = Append(queue, Call("startInLoop", None))
  <2>1. Moved(0, 1, Call("startInLoop", None)) /\ queue' \in Seq(Functors)
    BY <1>2, <1>3, UserFacts, LineGrows DEF loopVars
  <2>. QED  BY <1>1, <1>2, <1>3, <2>1, UserStepDone
<1>4. CASE NextStep(u, "queueStop") /\ queue' = Append(queue, Call("stopInLoop", None))
  <2>1. Moved(0, 1, Call("stopInLoop", None)) /\ queue' \in Seq(Functors)
    BY <1>2, <1>4, UserFacts, LineGrows DEF loopVars
  <2>. QED  BY <1>1, <1>2, <1>4, <2>1, UserStepDone
<1>. QED  BY <1>3, <1>4 DEF Queues

\* Setting a connection that is up to kDisconnecting, and queueing the rest.
LEMMA HalfClose ==
  ASSUME TypeInv, NEW f \in Fds, conn[f] \in {"kConnected", "kDisconnecting"},
         conn' = [conn EXCEPT ![f] = "kDisconnecting"]
  PROVE  /\ conn' \in [Fds -> ConnStates] /\ Live(f)
         /\ \A g \in Fds : conn'[g] = conn[g] \/ (conn[g] \in {"kConnected", "kDisconnecting"} /\ conn'[g] = "kDisconnecting")
BY DEF TypeInv, TypeOK, ConnStates, Live

\* A user shuts the connection down.
LEMMA ShutsDownStep ==
  ASSUME TypeInv, Parts, NEW u \in Users, ShutsDown(u)
  PROVE  IInv'
<1>1. /\ NextStep(u, "shutdown") /\ Done(u) /\ UNCHANGED <<connect_, clientConnect, clientAlive, risky>>
      /\ connect_' \in BOOLEAN /\ clientAlive' \in BOOLEAN /\ risky' \in BOOLEAN
  BY DEF ShutsDown, TypeInv
<1>2. CASE connection_ # None /\ conn[connection_] = "kConnected"
  <2> DEFINE x == <<"shutdownInLoop", connection_>>
  <2>1. conn' = [conn EXCEPT ![connection_] = "kDisconnecting"] /\ queue' = Append(queue, x) /\ connection_ \in Fds
    BY <1>2 DEF ShutsDown, Call, TypeInv, TypeOK
  <2>2. x \in Functors /\ x[1] = "shutdownInLoop" /\ x[2] = connection_
    BY <2>1 DEF Functors, Bound
  <2> HIDE DEF x
  <2>3. Moved(0, 1, x) /\ queue' \in Seq(Functors)
    BY <1>1, <2>1, <2>2, UserFacts, LineGrows DEF loopVars
  <2>4. /\ conn' \in [Fds -> ConnStates] /\ Live(connection_)
        /\ \A g \in Fds : conn'[g] = conn[g] \/ (conn[g] \in {"kConnected", "kDisconnecting"} /\ conn'[g] = "kDisconnecting")
    BY <1>2, <2>1, HalfClose
  <2>. QED  BY <1>1, <2>2, <2>3, <2>4, UserStepDone
<1>3. CASE ~(connection_ # None /\ conn[connection_] = "kConnected")
  <2>1. UNCHANGED <<conn, queue>>
    BY <1>3 DEF ShutsDown
  <2>2. Moved(0, 0, None)
    BY <1>1, <2>1, UserFacts, LineSame DEF loopVars
  <2>. QED  BY <1>1, <2>1, <2>2, UserStepDone DEF TypeInv, TypeOK
<1>. QED  BY <1>2, <1>3

\* The destructor, on another thread, replaces the close callback.
LEMMA ReplacesStep ==
  ASSUME TypeInv, Parts, NEW u \in Users, Replaces(u)
  PROVE  IInv'
<1>1. /\ NextStep(u, "setCloseCallback") /\ Done(u) /\ queue' = Append(queue, Head(upc[u]))
      /\ UNCHANGED <<connect_, clientConnect, conn, clientAlive, risky>>
      /\ conn' \in [Fds -> ConnStates] /\ connect_' \in BOOLEAN /\ clientAlive' \in BOOLEAN /\ risky' \in BOOLEAN
  BY DEF Replaces, TypeInv, TypeOK
<1>2. PICK f \in Fds : Head(upc[u]) = Replacing(f)
  BY <1>1, UserFacts DEF NextOf
<1>3. Head(upc[u]) \in Functors /\ Head(upc[u])[1] = "setCloseCallback"
  BY <1>2 DEF Replacing, Call, Functors, Bound
<1>4. Moved(0, 1, Head(upc[u])) /\ queue' \in Seq(Functors)
  BY <1>1, <1>3, UserFacts, LineGrows DEF loopVars
<1>. QED  BY <1>1, <1>3, <1>4, UserStepDone

\* The destructor, on another thread, forces the connection to close.
LEMMA ForcesStep ==
  ASSUME TypeInv, Parts, NEW u \in Users, Forces(u)
  PROVE  IInv'
<1>1. /\ NextStep(u, "forceClose") /\ Done(u) /\ ForceClose(Head(upc[u])[2])
      /\ UNCHANGED <<connect_, clientConnect, clientAlive, risky>>
      /\ connect_' \in BOOLEAN /\ clientAlive' \in BOOLEAN /\ risky' \in BOOLEAN
  BY DEF Forces, TypeInv
<1>2. PICK f \in Fds : Head(upc[u]) = Forcing(f)
  BY <1>1, UserFacts DEF NextOf
<1>3. ForceClose(f)
  BY <1>1, <1>2, StepNames
<1>4. CASE conn[f] \in {"kConnected", "kDisconnecting"}
  <2> DEFINE x == <<"forceCloseInLoop", f>>
  <2>1. conn' = [conn EXCEPT ![f] = "kDisconnecting"] /\ queue' = Append(queue, x)
    BY <1>3, <1>4 DEF ForceClose, Call
  <2>2. x \in Functors /\ x[1] = "forceCloseInLoop"
    BY <2>1 DEF Functors, Bound
  <2> HIDE DEF x
  <2>3. Moved(0, 1, x) /\ queue' \in Seq(Functors)
    BY <1>1, <2>1, <2>2, UserFacts, LineGrows DEF loopVars
  <2>4. /\ conn' \in [Fds -> ConnStates]
        /\ \A g \in Fds : conn'[g] = conn[g] \/ (conn[g] \in {"kConnected", "kDisconnecting"} /\ conn'[g] = "kDisconnecting")
    BY <1>4, <2>1, HalfClose
  <2>. QED  BY <1>1, <2>2, <2>3, <2>4, UserStepDone
<1>5. CASE conn[f] \notin {"kConnected", "kDisconnecting"}
  <2>1. UNCHANGED <<conn, queue>>
    BY <1>3, <1>5 DEF ForceClose
  <2>2. Moved(0, 0, None)
    BY <1>1, <2>1, UserFacts, LineSame DEF loopVars
  <2>. QED  BY <1>1, <2>1, <2>2, UserStepDone DEF TypeInv, TypeOK
<1>. QED  BY <1>4, <1>5

\* The destructor, on another thread, is over.
LEMMA DiesStep ==
  ASSUME TypeInv, Parts, NEW u \in Users, Dies(u)
  PROVE  IInv'
<1>1. /\ NextStep(u, "dies") /\ Done(u) /\ clientAlive' = FALSE /\ risky' = TRUE
      /\ UNCHANGED <<connect_, queue, clientConnect, conn>>
  BY DEF Dies
<1>2. Moved(0, 0, None)
  BY <1>1, UserFacts, LineSame DEF loopVars
<1>3. queue' \in Seq(Functors) /\ conn' \in [Fds -> ConnStates] /\ connect_' \in BOOLEAN /\ conn' = conn
  BY <1>1 DEF TypeInv, TypeOK
<1>4. /\ clientAlive' \in BOOLEAN /\ risky' \in BOOLEAN /\ risky'
      /\ NextStep(u, "dies") /\ Done(u) /\ clientConnect' = clientConnect
  BY <1>1
<1>. QED  BY <1>2, <1>3, <1>4, UserStepDone

\* Plans that begin or go on after a look.
LEMMA NewPlans ==
  /\ <<ClientOff, ConnectorOff, QueueStop>> \in Plans \ ConnectPlans
  /\ <<ClientOff, Shutdown>> \in Plans \ ConnectPlans /\ <<Look>> \in Plans \ ConnectPlans
  /\ <<ConnectorOff, QueueStop, Die>> \in Plans \ ConnectPlans
  /\ <<ClientOn, ConnectorOn, QueueStart>> \in Plans /\ <<>> \notin ConnectPlans
  /\ \A f \in Fds : /\ <<Replacing(f), Die>> \in Plans \ ConnectPlans
                    /\ <<Replacing(f), Forcing(f), Die>> \in Plans \ ConnectPlans
<1>1. \A x, y : /\ x[1] \notin {"connector", "queueStart"} => <<x, y>> \notin ConnectPlans /\ <<x>> \notin ConnectPlans
                /\ y[1] # "connector" => \A z : <<x, y, z>> \notin ConnectPlans
  BY StepNames DEF ConnectPlans
<1>2. <<ClientOff, ConnectorOff, QueueStop>> \notin ConnectPlans
  BY StepNames DEF ConnectPlans
<1>3. <<>> \notin ConnectPlans
  BY DEF ConnectPlans
<1>. QED  BY <1>1, <1>2, <1>3, StepNames DEF Plans, ConnectPlans, StopPlans, DisconnectPlans, DestroyPlans

\* Which plans have a start in them.
LEMMA StartPending ==
  ASSUME NEW p \in ConnectPlans
  PROVE  QueueStart \in Range(p)
<1>1. CASE p = <<ClientOn, ConnectorOn, QueueStart>>
  <2>1. 3 \in DOMAIN <<ClientOn, ConnectorOn, QueueStart>> /\ <<ClientOn, ConnectorOn, QueueStart>>[3] = QueueStart
    OBVIOUS
  <2>. QED  BY <1>1, <2>1 DEF Range
<1>2. CASE p = <<ConnectorOn, QueueStart>>
  <2>1. 2 \in DOMAIN <<ConnectorOn, QueueStart>> /\ <<ConnectorOn, QueueStart>>[2] = QueueStart
    OBVIOUS
  <2>. QED  BY <1>2, <2>1 DEF Range
<1>3. CASE p = <<QueueStart>>
  <2>1. 1 \in DOMAIN <<QueueStart>> /\ <<QueueStart>>[1] = QueueStart
    OBVIOUS
  <2>. QED  BY <1>3, <2>1 DEF Range
<1>. QED  BY <1>1, <1>2, <1>3 DEF ConnectPlans

\* Pending("queueStop") in terms of the plans.
LEMMA PendingStop == Pending("queueStop") <=> \E v \in Users : HasStop(upc[v])
BY DEF Pending, HasStop, Range, QueueStop

\* The destructor finds a connection, or none.
LEMMA LooksStep ==
  ASSUME TypeInv, Parts, NEW u \in Users, Looks(u)
  PROVE  IInv'
<1>1. /\ NextStep(u, "look") /\ UNCHANGED <<connect_, queue, clientConnect, conn, clientAlive, risky>>
  BY DEF Looks
<1>2. PICK p \in Plans \ ConnectPlans : upc' = [upc EXCEPT ![u] = p]
  <2>1. CASE connection_ = None
    <3>1. upc' = [upc EXCEPT ![u] = <<ConnectorOff, QueueStop, Die>>]
      BY <2>1 DEF Looks, ConnectorOff, QueueStop, Die
    <3>. QED  BY <3>1, NewPlans
  <2>2. CASE connection_ # None
    <3>1. PICK unique \in BOOLEAN : upc' = [upc EXCEPT ![u] = <<Replacing(connection_)>>
                            \o (IF unique THEN <<Forcing(connection_)>> ELSE <<>>) \o <<Die>>]
      BY <2>2 DEF Looks, Replacing, Forcing, Die
    <3>2. \A x, y, z : <<x>> \o <<>> \o <<z>> = <<x, z>> /\ <<x>> \o <<y>> \o <<z>> = <<x, y, z>>
      BY ConcatUnits
    <3>3. <<Replacing(connection_)>> \o (IF unique THEN <<Forcing(connection_)>> ELSE <<>>) \o <<Die>>
             \in {<<Replacing(connection_), Die>>, <<Replacing(connection_), Forcing(connection_), Die>>}
      BY <3>2
    <3>4. connection_ \in Fds
      BY <2>2 DEF TypeInv, TypeOK
    <3>. QED  BY <3>1, <3>3, <3>4, NewPlans
  <2>. QED  BY <2>1, <2>2
<1>3. /\ upc' \in [Users -> Plans]
      /\ \A v \in Users : upc'[v] = IF v = u THEN p ELSE upc[v]
  BY <1>2 DEF TypeInv
<1>4. upc[u] # Steps("stop") /\ ~HasStop(upc[u])
  <2>1. NextOf(upc[u]) /\ Head(upc[u])[1] = "look"
    BY <1>1, UserFacts
  <2>. QED  BY <2>1, StepNames DEF NextOf
<1>5. Moved(0, 0, None)
  BY <1>1, UserFacts, LineSame DEF loopVars
<1>6. TypeInv'
  BY <1>1, <1>3, UserFacts DEF TypeInv, TypeOK, loopVars
<1>7. LoopInv' /\ OpenInv' /\ SingleInv' /\ DestroyInv' /\ AttemptInv'
  BY <1>1, <1>5, UserFacts, UserParts
<1>8. DeadInv'
  BY <1>1, UserFacts DEF DeadInv
<1>9. QuietInv'
  <2>1. \A v \in Users : HasStop(upc[v]) => upc'[v] = upc[v]
    BY <1>3, <1>4
  <2>2. Pending("queueStop") => Pending("queueStop")'
    BY <2>1, PendingStop DEF Pending, HasStop, Range, QueueStop
  <2>3. \A v \in Users : upc'[v] \in ConnectPlans => upc[v] \in ConnectPlans
    BY <1>2, <1>3
  <2>4. \A v \in Users : upc[v] = Steps("stop") => upc'[v] = upc[v]
    BY <1>3, <1>4
  <2>5. quiet' = quiet /\ UNCHANGED <<calls, state_>> /\ clientConnect' = clientConnect
    BY <1>1, UserFacts
  <2>6. QuietInv /\ calls' = calls /\ state_' = state_ /\ 0 # 1
    BY <2>5 DEF Parts
  <2>. QED  BY <1>5, <2>2, <2>3, <2>4, <2>5, <2>6, UserQuiet, Zenon
<1>. QED  BY <1>1, <1>6, <1>7, <1>8, <1>9, UserFacts DEF IInv, OnlyKnownDangers, Parts, Running

\* What stop() makes true of the calls of other threads.
LEMMA StopAsked ==
  ASSUME TypeInv, QuietInv, Quietness("stop") # "no"
  PROVE  /\ \A v \in Users : upc[v] \notin ConnectPlans
         /\ Quietness("stop") \in {"asked", "yes"} /\ (Quietness("stop") = "yes" => quiet = "yes")
<1>1. Quietness("stop") = IF quiet = "no" /\ ~Pending("queueStart") THEN "asked" ELSE quiet
  BY DEF Quietness
<1>2. ~Pending("queueStart") => \A v \in Users : upc[v] \notin ConnectPlans
  BY StartPending DEF Pending, QueueStart
<1>. QED  BY <1>1, <1>2 DEF QuietInv, TypeInv

\* A user thread begins a call.
LEMMA BeginStep ==
  ASSUME TypeInv, Parts, NEW u \in Users, NEW op \in Ops, Begin(u, op)
  PROVE  IInv'
<1>1. /\ MayCall(op) /\ upc[u] = <<>> /\ upc' = [upc EXCEPT ![u] = Steps(op)] /\ made' = made + 1
      /\ quiet' = Quietness(op)
      /\ UNCHANGED <<connectorVars, registered, open, loopVars, calls, queue, ub, clientVars, risky>>
  BY DEF Begin
<1>2. Running /\ clientAlive /\ made < MaxCalls
  BY <1>1 DEF MayCall
<1>3. Steps(op) \in Plans /\ (op # "connect" => Steps(op) \notin ConnectPlans)
  BY NewPlans DEF Ops, Steps, ClientOn, ClientOff, ConnectorOn, ConnectorOff, QueueStart, QueueStop, Shutdown, Look
<1>4. /\ upc' \in [Users -> Plans]
      /\ \A v \in Users : upc'[v] = IF v = u THEN Steps(op) ELSE upc[v]
  BY <1>1, <1>3 DEF TypeInv
<1>5. quiet' \in {"no", "asked", "yes"}
  BY <1>1 DEF Quietness, TypeInv
<1>6. made' \in 0..MaxCalls
  BY <1>1, <1>2, CallsAssumption DEF TypeInv, TypeOK
<1>7. TypeInv'
  BY <1>1, <1>4, <1>5, <1>6 DEF TypeInv, TypeOK, connectorVars, loopVars, clientVars
<1>8. LoopInv' /\ OpenInv' /\ SingleInv' /\ DestroyInv' /\ AttemptInv'
  BY <1>1, KeepLoop, KeepOpen, KeepSingle, KeepDestroy, KeepAttempt DEF Parts, connectorVars, loopVars, clientVars
<1>9. DeadInv'
  BY <1>1, <1>2 DEF DeadInv, clientVars
<1>10. Moved(0, 0, None) /\ calls' = calls /\ state_' = state_ /\ clientConnect' = clientConnect
  BY <1>1, LineSame DEF loopVars, connectorVars, clientVars
<1>11. QuietInv'
  <2>1. CASE op = "connect"
    <3>1. quiet' = "no"
      BY <1>1, <2>1 DEF Quietness
    <3>. QED  BY <3>1 DEF QuietInv
  <2>2. CASE op = "stop"
    <3>1. quiet' # "no" => /\ \A v \in Users : upc'[v] \notin ConnectPlans
                           /\ quiet' \in {"asked", "yes"} /\ (quiet' = "yes" => quiet = "yes")
      BY <1>1, <1>3, <1>4, <2>2, StopAsked DEF Parts
    <3>2. upc'[u] = Steps("stop")
      BY <1>4, <2>2
    <3>3. Pending("queueStop")'
      <4>1. 3 \in DOMAIN <<ClientOff, ConnectorOff, QueueStop>> /\ <<ClientOff, ConnectorOff, QueueStop>>[3] = QueueStop
        OBVIOUS
      <4>2. HasStop(upc'[u])
        BY <3>2, <4>1, StopSteps DEF HasStop
      <4>. QED  BY <4>2 DEF Pending, HasStop, Range, QueueStop
    <3>4. quiet = "yes" => /\ ~clientConnect' /\ ~Waits("startInLoop")' /\ state_' # "kConnecting"
                           /\ ~Doing("newConnection")' /\ ~Doing("restart")' /\ ~Doing("startInLoop")'
      BY <1>10, WaitsMoves DEF Parts, QuietInv, Doing
    <3>. QED  BY <3>1, <3>2, <3>3, <3>4 DEF QuietInv
  <2>3. CASE op \in {"disconnect", "destroy"}
    <3>1. quiet' = quiet
      BY <1>1, <2>3 DEF Quietness
    <3>2. \A v \in Users : upc'[v] \in ConnectPlans => upc[v] \in ConnectPlans
      BY <1>3, <1>4, <2>3
    <3>3. upc[u] # Steps("stop") /\ ~HasStop(upc[u])
      <4>1. <<>> # <<ClientOff, ConnectorOff, QueueStop>> /\ DOMAIN <<>> = {}
        OBVIOUS
      <4>. QED  BY <1>1, <4>1, StopSteps, Zenon DEF HasStop
    <3>4. \A v \in Users : upc[v] = Steps("stop") \/ HasStop(upc[v]) => upc'[v] = upc[v]
      BY <1>4, <3>3
    <3>5. Pending("queueStop") => Pending("queueStop")'
      BY <3>4, PendingStop DEF Pending, HasStop, Range, QueueStop
    <3>6. QuietInv /\ 0 # 1
      BY DEF Parts
    <3>. QED  BY <1>10, <3>1, <3>2, <3>4, <3>5, <3>6, UserQuiet, Zenon
  <2>. QED  BY <2>1, <2>2, <2>3 DEF Ops
<1>12. Running'
  BY <1>1, <1>2 DEF Running
<1>. QED  BY <1>7, <1>8, <1>9, <1>11, <1>12 DEF IInv, OnlyKnownDangers, Parts, Running

\* What a call from the loop thread starts from.
LEMMA LoopCallFacts ==
  ASSUME TypeInv, Parts, NEW op \in Ops, LoopMayCall(op)
  PROVE  /\ Running /\ Running' /\ clientAlive /\ calls = <<>> /\ active = <<>> /\ active' = <<>>
         /\ made' \in 0..MaxCalls /\ quiet' = Quietness(op) /\ quiet' \in {"no", "asked", "yes"}
         /\ \A n : ~Doing(n)
         /\ op = "destroy" => \A u \in Users : upc[u] = <<>>
         /\ UNCHANGED <<lpc, active, batch, state_, channel_, overlap, registered, open, ub, retry_, connection_, upc>>
<1>1. /\ MayCall(op) /\ calls = <<>> /\ active = <<>> /\ made' = made + 1 /\ quiet' = Quietness(op)
      /\ UNCHANGED <<lpc, active, batch, state_, channel_, overlap, registered, open, ub, retry_, connection_, upc>>
  BY DEF LoopMayCall, loopVars
<1>2. Running /\ clientAlive /\ made < MaxCalls /\ (op = "destroy" => \A u \in Users : upc[u] = <<>>)
  BY <1>1 DEF MayCall
<1>3. made' \in 0..MaxCalls
  BY <1>1, <1>2, CallsAssumption DEF TypeInv, TypeOK
<1>4. quiet' \in {"no", "asked", "yes"}
  BY <1>1 DEF Quietness, TypeInv
<1>. QED  BY <1>1, <1>2, <1>3, <1>4 DEF Doing, Running

\* connect() from a callback in the loop.
LEMMA LoopConnectStep ==
  ASSUME TypeInv, Parts, LoopConnect
  PROVE  IInv'
<1>1. /\ LoopMayCall("connect") /\ clientConnect' = TRUE /\ connect_' = TRUE /\ calls' = <<Call("startInLoop", None)>>
      /\ UNCHANGED <<queue, conn, closeCallback, clientAlive, risky>>
  BY DEF LoopConnect
<1>2. "connect" \in Ops
  BY DEF Ops
<1>3. <<"startInLoop", None>> \in CallSet /\ <<"startInLoop", None>>[1] = "startInLoop"
      /\ Call("startInLoop", None) = <<"startInLoop", None>>
  BY DEF CallSet, Call
<1>4. /\ calls' \in Seq(CallSet) /\ calls' # <<>> /\ calls'[1] = <<"startInLoop", None>> /\ Len(calls') = 1
      /\ ~Returning'
  BY <1>1, <1>2, <1>3, LoopCallFacts, CallsBegin
<1>5. \A n : Doing(n)' <=> n = "startInLoop"
  BY <1>3, <1>4 DEF Doing
<1>6. Moved(0, 0, None)
  BY <1>1, <1>2, LoopCallFacts, LineSame
<1>7. quiet' = "no"
  BY <1>1, <1>2, LoopCallFacts DEF Quietness
<1>8. TypeInv'
  BY <1>1, <1>2, <1>4, LoopCallFacts DEF TypeInv, TypeOK
<1>9. LoopInv'
  BY <1>1, <1>2, <1>4, LoopCallFacts DEF Parts, LoopInv
<1>10. OpenInv'
  BY <1>1, <1>2, <1>5, LoopCallFacts DEF Parts, OpenInv
<1>11. SingleInv'
  BY <1>1, <1>2, <1>5, LoopCallFacts DEF Parts, SingleInv, Live
<1>12. DestroyInv'
  BY <1>1, <1>5, <1>6, LineFacts, DestroyMoves DEF Parts
<1>13. AttemptInv'
  BY <1>1, <1>2, LoopCallFacts, KeepAttempt DEF Parts
<1>14. DeadInv' /\ QuietInv'
  BY <1>1, <1>2, <1>7, LoopCallFacts DEF DeadInv, QuietInv
<1>. QED  BY <1>2, <1>1, <1>8, <1>9, <1>10, <1>11, <1>12, <1>13, <1>14, LoopCallFacts
          DEF IInv, OnlyKnownDangers, Parts, Running

\* stopInLoop as it is queued.
LEMMA StopFunctor == Call("stopInLoop", None) = <<"stopInLoop", None>> /\ <<"stopInLoop", None>> \in Functors
                     /\ <<"stopInLoop", None>>[1] = "stopInLoop"
BY DEF Call, Functors, Plain

\* stop() from a callback in the loop.
LEMMA LoopStopStep ==
  ASSUME TypeInv, Parts, LoopStop
  PROVE  IInv'
<1>1. /\ LoopMayCall("stop") /\ clientConnect' = FALSE /\ connect_' = FALSE
      /\ queue' = Append(queue, <<"stopInLoop", None>>)
      /\ UNCHANGED <<calls, conn, closeCallback, clientAlive, risky>>
  BY StopFunctor DEF LoopStop
<1>2. "stop" \in Ops
  BY DEF Ops
<1>3. Moved(0, 1, <<"stopInLoop", None>>) /\ queue' \in Seq(Functors)
  BY <1>1, <1>2, LoopCallFacts, LineGrows, StopFunctor
<1>4. TypeInv'
  BY <1>1, <1>2, <1>3, LoopCallFacts DEF TypeInv, TypeOK
<1>5. LoopInv' /\ OpenInv' /\ SingleInv' /\ DestroyInv' /\ AttemptInv'
  <2>1. UNCHANGED <<loopVars, calls, state_, channel_, overlap, registered, open, connection_>>
    BY <1>1, <1>2, LoopCallFacts DEF loopVars
  <2>2. \A f \in Fds : conn'[f] = conn[f]
    BY <1>1
  <2>. QED  BY <1>3, <2>1, <2>2, UserParts, StopFunctor
<1>6. DeadInv'
  BY <1>1, <1>2, LoopCallFacts DEF DeadInv
<1>7. QuietInv'
  <2>1. quiet' # "no" => /\ \A v \in Users : upc'[v] \notin ConnectPlans
                         /\ quiet' \in {"asked", "yes"} /\ (quiet' = "yes" => quiet = "yes")
    BY <1>1, <1>2, LoopCallFacts, StopAsked DEF Parts
  <2>2. \E i \in 1..Len(Line') : /\ Line'[i][1] = "stopInLoop"
                                 /\ \A j \in 1..Len(Line') : i < j => Line'[j][1] # "startInLoop"
    BY <1>3, LastOfLine, StopFunctor
  <2>3. quiet = "yes" => /\ ~Waits("startInLoop")' /\ state_' # "kConnecting"
                         /\ ~Doing("newConnection")' /\ ~Doing("restart")' /\ ~Doing("startInLoop")'
    <3>1. Waits("startInLoop")' => Waits("startInLoop") \/ <<"stopInLoop", None>>[1] = "startInLoop"
      BY <1>3, WaitsMoves
    <3>2. Waits("startInLoop")' => Waits("startInLoop")
      BY <3>1, StopFunctor
    <3>3. state_' = state_ /\ calls' = calls
      BY <1>1, <1>2, LoopCallFacts
    <3>. QED  BY <3>2, <3>3 DEF Parts, QuietInv, Doing
  <2>. QED  BY <1>1, <2>1, <2>2, <2>3 DEF QuietInv
<1>. QED  BY <1>1, <1>2, <1>4, <1>5, <1>6, <1>7, LoopCallFacts DEF IInv, OnlyKnownDangers, Parts, Running

\* disconnect() from a callback in the loop.
LEMMA LoopDisconnectStep ==
  ASSUME TypeInv, Parts, LoopDisconnect
  PROVE  IInv'
<1>1. /\ LoopMayCall("disconnect") /\ clientConnect' = FALSE
      /\ conn' = [f \in Fds |-> IF f = connection_ /\ conn[f] = "kConnected" THEN "kDisconnecting" ELSE conn[f]]
      /\ UNCHANGED <<connect_, queue, calls, closeCallback, clientAlive, risky>>
  BY DEF LoopDisconnect
<1>2. "disconnect" \in Ops
  BY DEF Ops
<1>3. Moved(0, 0, None)
  BY <1>1, <1>2, LoopCallFacts, LineSame
<1>4. /\ conn' \in [Fds -> ConnStates]
      /\ \A g \in Fds : conn'[g] = conn[g] \/ (conn[g] \in {"kConnected", "kDisconnecting"} /\ conn'[g] = "kDisconnecting")
  BY <1>1 DEF TypeInv, TypeOK, ConnStates
<1>5. TypeInv'
  BY <1>1, <1>2, <1>4, LoopCallFacts DEF TypeInv, TypeOK
<1>6. LoopInv' /\ OpenInv' /\ SingleInv' /\ DestroyInv' /\ AttemptInv'
  <2>1. UNCHANGED <<loopVars, calls, state_, channel_, overlap, registered, open, connection_>>
    BY <1>1, <1>2, LoopCallFacts DEF loopVars
  <2>. QED  BY <1>3, <1>4, <2>1, UserParts
<1>7. DeadInv'
  BY <1>1, <1>2, LoopCallFacts DEF DeadInv
<1>8. QuietInv'
  <2>1. quiet' = quiet /\ upc' = upc /\ calls' = calls /\ state_' = state_ /\ 0 # 1 /\ QuietInv
    BY <1>1, <1>2, LoopCallFacts DEF Quietness, Parts
  <2>2. Pending("queueStop") => Pending("queueStop")'
    BY <2>1 DEF Pending
  <2>3. (\A v \in Users : upc'[v] = upc[v]) /\ clientConnect' = FALSE
    BY <1>1, <2>1
  <2>. QED  BY <1>3, <2>1, <2>2, <2>3, UserQuiet, Zenon
<1>. QED  BY <1>1, <1>2, <1>5, <1>6, <1>7, <1>8, LoopCallFacts DEF IInv, OnlyKnownDangers, Parts, Running

\* The destructor, called in the loop.
LEMMA LoopDestroyStep ==
  ASSUME TypeInv, Parts, LoopDestroy
  PROVE  IInv'
<1>1. /\ LoopMayCall("destroy") /\ clientAlive' = FALSE /\ UNCHANGED <<calls, clientConnect>>
      /\ \/ /\ connection_ = None /\ connect_' = FALSE /\ queue' = Append(queue, <<"stopInLoop", None>>)
            /\ UNCHANGED <<conn, closeCallback, risky>>
         \/ /\ connection_ # None /\ closeCallback' = [closeCallback EXCEPT ![connection_] = "detail"]
            /\ risky' = Outstanding("startInLoop") /\ connect_' = connect_
            /\ ForceClose(connection_) \/ UNCHANGED <<conn, queue>>
  BY StopFunctor DEF LoopDestroy
<1>2. "destroy" \in Ops
  BY DEF Ops
<1>3. /\ Running' /\ calls = <<>> /\ upc' = upc /\ (\A u \in Users : upc[u] = <<>>) /\ (\A n : ~Doing(n))
      /\ state_' = state_ /\ connection_' = connection_ /\ calls' = calls /\ batch' = batch
      /\ quiet' = quiet
      /\ UNCHANGED <<loopVars, calls, state_, channel_, overlap, registered, open, connection_>>
  BY <1>1, <1>2, LoopCallFacts DEF loopVars, Quietness
<1>4. \A n : ~Doing(n)'
  BY <1>3 DEF Doing
<1>5. QuietInv /\ Pending("queueStop") = Pending("queueStop")' /\ (\A v \in Users : upc'[v] = upc[v])
  BY <1>3 DEF Parts, Pending
<1>6. CASE /\ connection_ = None /\ connect_' = FALSE /\ queue' = Append(queue, <<"stopInLoop", None>>)
           /\ UNCHANGED <<conn, closeCallback, risky>>
  <2>1. Moved(0, 1, <<"stopInLoop", None>>) /\ queue' \in Seq(Functors)
    BY <1>3, <1>6, LineGrows, StopFunctor
  <2>2. TypeInv'
    BY <1>1, <1>2, <1>6, <2>1, LoopCallFacts DEF TypeInv, TypeOK
  <2>3. LoopInv' /\ OpenInv' /\ SingleInv' /\ DestroyInv' /\ AttemptInv'
    BY <1>3, <1>6, <2>1, UserParts, StopFunctor
  <2>4. DeadInv'
    <3>1. Waits("stopInLoop")'
      BY <2>1, WaitsMoves, StopFunctor
    <3>2. ASSUME NEW i \in 1..Len(Line'), Line'[i][1] = "startInLoop"
          PROVE  \E j \in 1..Len(Line') : i < j /\ Line'[j][1] = "stopInLoop"
      BY <2>1, <3>2, LastOfLine, StopFunctor
    <3>3. \A f \in Fds : ~Live(f)'
      BY <1>6, FdsAssumption DEF Parts, SingleInv, Live
    <3>. QED  BY <1>3, <1>4, <1>6, <3>1, <3>2, <3>3 DEF DeadInv
  <2>5. QuietInv'
    BY <1>1, <1>3, <1>5, <2>1, UserQuiet, StopFunctor
  <2>. QED  BY <1>3, <2>2, <2>3, <2>4, <2>5 DEF IInv, OnlyKnownDangers, Parts, Running
<1>7. CASE /\ connection_ # None /\ closeCallback' = [closeCallback EXCEPT ![connection_] = "detail"]
           /\ risky' = Outstanding("startInLoop") /\ connect_' = connect_
           /\ ForceClose(connection_) \/ UNCHANGED <<conn, queue>>
  <2> DEFINE x == <<"forceCloseInLoop", connection_>>
  <2>1. connection_ \in Fds /\ x \in Functors /\ x[1] = "forceCloseInLoop" /\ state_ = "kConnected"
    BY <1>7 DEF TypeInv, TypeOK, Functors, Bound, Parts, SingleInv
  <2>2. PICK n \in 0..1 : /\ Moved(0, n, x) /\ queue' \in Seq(Functors) /\ conn' \in [Fds -> ConnStates]
                          /\ \A g \in Fds : conn'[g] = conn[g] \/ (conn[g] \in {"kConnected", "kDisconnecting"} /\ conn'[g] = "kDisconnecting")
    <3>1. CASE UNCHANGED <<conn, queue>>
      <4>1. Moved(0, 0, None)
        BY <1>3, <3>1, LineSame
      <4>2. Moved(0, 0, x)
        BY <4>1 DEF Moved
      <4>. QED  BY <3>1, <4>2 DEF TypeInv, TypeOK
    <3>2. CASE conn[connection_] \in {"kConnected", "kDisconnecting"} /\ ForceClose(connection_)
      <4>1. conn' = [conn EXCEPT ![connection_] = "kDisconnecting"] /\ queue' = Append(queue, x)
        BY <3>2 DEF ForceClose, Call
      <4>2. Moved(0, 1, x) /\ queue' \in Seq(Functors)
        BY <1>3, <2>1, <4>1, LineGrows
      <4>3. /\ conn' \in [Fds -> ConnStates]
            /\ \A g \in Fds : conn'[g] = conn[g] \/ (conn[g] \in {"kConnected", "kDisconnecting"} /\ conn'[g] = "kDisconnecting")
        BY <2>1, <3>2, <4>1, HalfClose
      <4>. QED  BY <4>2, <4>3
    <3>. QED  BY <1>7, <3>1, <3>2 DEF ForceClose
  <2> HIDE DEF x
  <2>3. closeCallback' \in [Fds -> {"client", "detail"}] /\ closeCallback'[connection_] = "detail" /\ risky' \in BOOLEAN
    BY <1>7, <2>1 DEF TypeInv, Outstanding
  <2>4. TypeInv'
    BY <1>1, <1>2, <1>7, <2>2, <2>3, LoopCallFacts DEF TypeInv, TypeOK
  <2>5. LoopInv' /\ OpenInv' /\ SingleInv' /\ DestroyInv' /\ AttemptInv'
    BY <1>3, <2>1, <2>2, UserParts
  <2>6. DeadInv'
    <3>1. Waits("startInLoop")' => Waits("startInLoop")
      BY <2>1, <2>2, WaitsMoves
    <3>2. ~risky' => \A i \in 1..Len(Line') : Line'[i][1] # "startInLoop"
      <4>1. ~risky' => ~Waits("startInLoop")
        BY <1>7, OutstandingWaits
      <4>. QED  BY <3>1, <4>1 DEF Waits
    <3>3. \A f \in Fds : Live(f)' => closeCallback'[f] = "detail"
      BY <1>3, <2>3, <2>5 DEF SingleInv
    <3>. QED  BY <1>3, <1>4, <1>7, <2>1, <3>2, <3>3 DEF DeadInv
  <2>7. QuietInv'
    BY <1>1, <1>3, <1>5, <2>1, <2>2, UserQuiet
  <2>. QED  BY <1>3, <2>4, <2>5, <2>6, <2>7 DEF IInv, OnlyKnownDangers, Parts, Running
<1>. QED  BY <1>1, <1>6, <1>7

-----------------------------------------------------------------------------
(* The invariant *)

\* The invariant holds at the start.
LEMMA InitStep == Init => IInv
<1>. SUFFICES ASSUME Init PROVE IInv
  OBVIOUS
<1>1. /\ state_ = "kDisconnected" /\ connect_ = FALSE /\ channel_ = None /\ registered = {} /\ open = {}
      /\ lpc = "poll" /\ active = <<>> /\ calls = <<>> /\ queue = <<>> /\ batch = <<>> /\ overlap = FALSE /\ ub = "none"
      /\ retry_ \in BOOLEAN /\ clientConnect = TRUE /\ connection_ = None
      /\ conn = [f \in Fds |-> "none"] /\ closeCallback = [f \in Fds |-> "client"]
      /\ clientAlive = TRUE /\ upc = [u \in Users |-> <<>>] /\ made = 0 /\ quiet = "no" /\ risky = FALSE
  BY DEF Init, ConnectorInit
<1>2. conn \in [Fds -> ConnStates] /\ upc \in [Users -> Plans] /\ active \in ActiveType
  BY <1>1 DEF ConnStates, Plans, ActiveType
<1>3. queue \in Seq(Functors) /\ batch \in Seq(Functors) /\ calls \in Seq(CallSet)
  BY <1>1
<1>4. TypeInv
  <2>1. TypeOK
    BY <1>1, <1>2, CallsAssumption DEF TypeOK
  <2>2. /\ connect_ \in BOOLEAN /\ clientConnect \in BOOLEAN /\ retry_ \in BOOLEAN
        /\ overlap \in BOOLEAN /\ risky \in BOOLEAN /\ clientAlive \in BOOLEAN
    BY <1>1
  <2>3. closeCallback \in [Fds -> {"client", "detail"}]
    BY <1>1
  <2>. QED  BY <1>1, <1>2, <1>3, <2>1, <2>2, <2>3 DEF TypeInv
<1>5. Len(Line) = 0
  BY <1>1, <1>4, LineFacts
<1>6. \A i \in 1..Len(Line) : FALSE
  BY <1>5
<1>7. (\A i \in 1..Len(calls) : FALSE) /\ (\A i \in 1..Len(active) : FALSE)
  <2>1. \A i \in 1..Len(<<>>) : FALSE
    OBVIOUS
  <2>. QED  BY <1>1, <2>1, Zenon
<1>8. \A n : ~Doing(n)
  BY <1>1 DEF Doing
<1>9. LoopInv
  <2>1. Len(calls) = 0
    BY <1>1
  <2>. QED  BY <1>1, <1>7, <2>1 DEF LoopInv, Returning
<1>10. OpenInv /\ SingleInv
  BY <1>1, <1>8 DEF OpenInv, SingleInv, Live
<1>11. DestroyInv /\ AttemptInv /\ DeadInv /\ QuietInv
  BY <1>1, <1>6, <1>7 DEF DestroyInv, AttemptInv, DeadInv, QuietInv
<1>. QED  BY <1>1, <1>4, <1>9, <1>10, <1>11 DEF IInv, OnlyKnownDangers, Parts

\* Nothing runs on after a dead or null object was used.
LEMMA OnlyRunning == Next => Running
BY DEF Next, LoopStep, UserStep, Poll, ConnectorEvent, ConnectionEvent, Swap, Iterate, NextFunctor, NextCall,
       RunStartInLoop, RunStopInLoop, RunResetChannel, RunSetCloseCallback, RunShutdownInLoop, RunForceCloseInLoop,
       RunConnectDestroyed, Return, CallStartInLoop, CallRestart, CallNewConnection, CallConnectEstablished,
       CallCloseCallback, Begin, MayCall, NextStep, SetClient, SetConnector, Queues, ShutsDown, Looks, Replaces,
       Forces, Dies, LoopMayCall, LoopConnect, LoopStop, LoopDisconnect, LoopDestroy

\* It is kept by every step of the loop.
LEMMA LoopSteps ==
  ASSUME TypeInv, Parts, Running, LoopStep
  PROVE  IInv'
<1>1. TypeInv' /\ Parts' /\ ub' = ub => IInv'
  BY DEF IInv, OnlyKnownDangers, Running
<1>2. ASSUME Poll PROVE IInv'
  BY <1>1, <1>2, PollStep DEF Poll
<1>3. ASSUME ConnectionEvent PROVE IInv'
  BY <1>1, <1>3, ConnectionEventStep DEF ConnectionEvent
<1>4. ASSUME Swap PROVE IInv'
  BY <1>1, <1>4, SwapStep DEF Swap
<1>5. ASSUME Iterate PROVE IInv'
  BY <1>1, <1>5, IterateStep DEF Iterate
<1>6. ASSUME RunResetChannel PROVE IInv'
  BY <1>1, <1>6, RunResetChannelStep DEF RunResetChannel, ResetChannel
<1>7. ASSUME RunSetCloseCallback PROVE IInv'
  BY <1>1, <1>7, RunSetCloseCallbackStep DEF RunSetCloseCallback
<1>8. ASSUME RunShutdownInLoop PROVE IInv'
  BY <1>1, <1>8, RunShutdownInLoopStep
<1>9. ASSUME RunForceCloseInLoop PROVE IInv'
  BY <1>1, <1>9, RunForceCloseInLoopStep DEF RunForceCloseInLoop
<1>10. ASSUME RunConnectDestroyed PROVE IInv'
  BY <1>1, <1>10, RunConnectDestroyedStep DEF RunConnectDestroyed
<1>11. ASSUME Return \/ CallRestart \/ CallConnectEstablished PROVE IInv'
  BY <1>1, <1>11, ReturnStep, CallRestartStep, CallConnectEstablishedStep
<1>12. ASSUME ConnectorEvent \/ RunStartInLoop \/ RunStopInLoop \/ CallStartInLoop \/ CallNewConnection \/ CallCloseCallback
       PROVE  IInv'
  BY <1>12, ConnectorEventStep, RunStartInLoopStep, RunStopInLoopStep, CallStartInLoopStep, CallNewConnectionStep,
     CallCloseCallbackStep
<1>. QED  BY <1>2, <1>3, <1>4, <1>5, <1>6, <1>7, <1>8, <1>9, <1>10, <1>11, <1>12 DEF LoopStep

\* It is kept by every step of a user thread.
LEMMA UserSteps ==
  ASSUME TypeInv, Parts, NEW u \in Users, UserStep(u)
  PROVE  IInv'
BY SetClientStep, SetConnectorStep, QueuesStep, ShutsDownStep, LooksStep, ReplacesStep, ForcesStep, DiesStep DEF UserStep

\* It is kept by every step.
LEMMA NextSteps == IInv /\ [Next]_vars => IInv'
<1>. SUFFICES ASSUME IInv, [Next]_vars PROVE IInv'
  OBVIOUS
<1>1. CASE UNCHANGED vars
  <2>1. TypeInv'
    BY <1>1 DEF IInv, TypeInv, TypeOK, vars, connectorVars, loopVars, clientVars, userVars
  <2>2. Parts => Parts'
    BY <1>1, KeepLoop, KeepOpen, KeepSingle, KeepDestroy, KeepAttempt, KeepDead, KeepQuiet
       DEF Parts, vars, connectorVars, loopVars, clientVars, userVars
  <2>. QED  BY <1>1, <2>1, <2>2 DEF IInv, OnlyKnownDangers, Running, vars, connectorVars, userVars
<1>2. CASE Next
  <2>1. TypeInv /\ Parts /\ Running
    BY <1>2, OnlyRunning DEF IInv
  <2>2. CASE LoopStep
    BY <2>1, <2>2, LoopSteps
  <2>3. ASSUME NEW u \in Users, UserStep(u) PROVE IInv'
    BY <2>1, <2>3, UserSteps
  <2>4. ASSUME NEW u \in Users, NEW op \in Ops, Begin(u, op) PROVE IInv'
    BY <2>1, <2>4, BeginStep
  <2>5. CASE LoopConnect \/ LoopStop \/ LoopDisconnect \/ LoopDestroy
    BY <2>1, <2>5, LoopConnectStep, LoopStopStep, LoopDisconnectStep, LoopDestroyStep
  <2>. QED  BY <1>2, <2>2, <2>3, <2>4, <2>5 DEF Next
<1>. QED  BY <1>1, <1>2

\* It holds always.
LEMMA ClientInvariant == SafeSpec => []IInv
<1>. QED  BY InitStep, NextSteps, PTL DEF SafeSpec

-----------------------------------------------------------------------------
(* What the invariant gives *)

\* Whatever the order in which the loop and the client's users run, no null,
\* dead or running object is used, but for the two situations that are known.
THEOREM OnlyKnownDangersReached == SafeSpec => []OnlyKnownDangers
<1>1. IInv => OnlyKnownDangers
  BY DEF IInv
<1>. QED  BY <1>1, ClientInvariant, PTL

\* Failure, stop and restart of attempts, close and destruction of connections
\* leave every open descriptor with its one owner.
THEOREM SocketsAreOwned == SafeSpec => []SocketsOwned
<1>1. ASSUME IInv, calls = <<>>, Running, ~overlap
      PROVE  open = {f \in Fds : f = channel_ /\ state_ = "kConnecting"} \cup {f \in Fds : conn[f] # "none"}
  <2>1. /\ OpenInv /\ AttemptInv /\ open \subseteq Fds
        /\ \A n : ~Doing(n)
    BY <1>1 DEF IInv, Parts, TypeInv, TypeOK, Doing
  <2>2. ASSUME NEW f \in open PROVE (f = channel_ /\ state_ = "kConnecting") \/ conn[f] # "none"
    BY <1>1, <2>1 DEF OpenInv
  <2>3. ASSUME NEW f \in Fds, f = channel_, state_ = "kConnecting" PROVE f \in open
    BY <2>1, <2>3, FdsAssumption DEF OpenInv
  <2>4. ASSUME NEW f \in Fds, conn[f] # "none" PROVE f \in open
    BY <2>1, <2>4 DEF OpenInv
  <2>. QED  BY <2>1, <2>2, <2>3, <2>4
<1>2. IInv => SocketsOwned
  BY <1>1 DEF SocketsOwned
<1>. QED  BY <1>2, ClientInvariant, PTL

\* newConnection, connectEstablished and removeConnection never have two
\* connections up, and the client knows the one there is.
THEOREM ConnectionIsSingle == SafeSpec => []SingleConnection
<1>1. IInv => SingleConnection
  BY DEF IInv, Parts, SingleInv, SingleConnection
<1>. QED  BY <1>1, ClientInvariant, PTL

\* Only newConnection brings a connection up.
LEMMA OnlyNewConnection ==
  ASSUME TypeInv, Parts, Next, ~Doing("newConnection"), NEW f \in Fds, Live(f)'
  PROVE  Live(f)
<1>1. CASE conn' = conn
  BY <1>1 DEF Live
<1>2. ASSUME NEW g \in Fds, NEW s \in ConnStates, conn' = [conn EXCEPT ![g] = s], Live(g) \/ s \notin {"kConnecting", "kConnected", "kDisconnecting"}
      PROVE  Live(f)
  BY <1>2 DEF Live, TypeInv, TypeOK
<1>3. ASSUME ConnectionEvent PROVE Live(f)
  <2>1. Head(active)[2] \in Fds
    BY <1>3, ActiveFacts DEF ConnectionEvent
  <2>. QED  BY <1>1, <1>2, <1>3, <2>1 DEF ConnectionEvent, Close, ConnStates
<1>4. ASSUME RunForceCloseInLoop PROVE Live(f)
  <2>1. Head(batch)[2] \in Fds
    BY <1>4, FunctorFacts DEF RunForceCloseInLoop, Bound
  <2>. QED  BY <1>1, <1>2, <1>4, <2>1 DEF RunForceCloseInLoop, Close, ConnStates
<1>5. ASSUME RunConnectDestroyed PROVE Live(f)
  <2>1. Head(batch)[2] \in Fds
    BY <1>5, FunctorFacts DEF RunConnectDestroyed, Bound
  <2>. QED  BY <1>2, <1>5, <2>1 DEF RunConnectDestroyed, ConnStates
<1>6. ASSUME CallConnectEstablished PROVE Live(f)
  <2>1. Head(calls)[2] \in Fds /\ Head(calls)[2] = calls[1][2] /\ Doing("connectEstablished")
    BY <1>6, CallFacts DEF CallConnectEstablished
  <2>2. Live(Head(calls)[2])
    BY <2>1 DEF Parts, SingleInv, Live
  <2>. QED  BY <1>2, <1>6, <2>1, <2>2 DEF CallConnectEstablished, ConnStates
<1>7. ASSUME CallNewConnection PROVE Live(f)
  BY <1>7, CallFacts DEF CallNewConnection
<1>8. ASSUME NEW u \in Users, ShutsDown(u) PROVE Live(f)
  <2>1. CASE connection_ # None /\ conn[connection_] = "kConnected"
    <3>1. conn' = [conn EXCEPT ![connection_] = "kDisconnecting"] /\ connection_ \in Fds /\ Live(connection_)
      BY <1>8, <2>1 DEF ShutsDown, TypeInv, TypeOK, Live
    <3>. QED  BY <3>1, <1>2 DEF ConnStates
  <2>2. CASE ~(connection_ # None /\ conn[connection_] = "kConnected")
    BY <1>1, <1>8, <2>2 DEF ShutsDown
  <2>. QED  BY <2>1, <2>2
<1>9. ASSUME NEW g \in Fds, ForceClose(g) PROVE Live(f)
  <2>1. CASE conn[g] \in {"kConnected", "kDisconnecting"}
    BY <1>2, <1>9, <2>1 DEF ForceClose, Live, ConnStates
  <2>2. CASE conn[g] \notin {"kConnected", "kDisconnecting"}
    BY <1>1, <1>9, <2>2 DEF ForceClose
  <2>. QED  BY <2>1, <2>2
<1>10. ASSUME NEW u \in Users, Forces(u) PROVE Live(f)
  <2>1. NextStep(u, "forceClose") /\ ForceClose(Head(upc[u])[2])
    BY <1>10 DEF Forces
  <2>2. \E g \in Fds : Head(upc[u]) = Forcing(g)
    BY <2>1, UserFacts DEF NextOf
  <2>3. Head(upc[u])[2] \in Fds
    BY <2>2, StepNames
  <2>. QED  BY <2>1, <2>3, <1>9
<1>11. ASSUME LoopDisconnect PROVE Live(f)
  BY <1>11 DEF LoopDisconnect, Live
<1>12. ASSUME LoopDestroy PROVE Live(f)
  <2>1. conn' = conn \/ (connection_ # None /\ ForceClose(connection_))
    BY <1>12 DEF LoopDestroy
  <2>2. connection_ # None => connection_ \in Fds
    BY DEF TypeInv, TypeOK
  <2>. QED  BY <2>1, <2>2, <1>1, <1>9
<1>13. ASSUME \/ Poll \/ ConnectorEvent \/ Swap \/ Iterate \/ RunStartInLoop \/ RunStopInLoop \/ RunResetChannel
              \/ RunSetCloseCallback \/ RunShutdownInLoop \/ Return \/ CallStartInLoop \/ CallRestart \/ CallCloseCallback
       PROVE  Live(f)
  BY <1>1, <1>13 DEF Poll, ConnectorEvent, Swap, Iterate, RunStartInLoop, RunStopInLoop, RunResetChannel,
     RunSetCloseCallback, RunShutdownInLoop, Return, CallStartInLoop, CallRestart, CallCloseCallback, clientVars
<1>14. ASSUME NEW u \in Users,
              SetClient(u) \/ SetConnector(u) \/ Queues(u) \/ Looks(u) \/ Replaces(u) \/ Dies(u) \/ \E op \in Ops : Begin(u, op)
       PROVE  Live(f)
  BY <1>1, <1>14 DEF SetClient, SetConnector, Queues, Looks, Replaces, Dies, Begin, clientVars
<1>15. ASSUME LoopConnect \/ LoopStop PROVE Live(f)
  BY <1>1, <1>15 DEF LoopConnect, LoopStop
<1>. QED  BY <1>3, <1>4, <1>5, <1>6, <1>7, <1>8, <1>10, <1>11, <1>12, <1>13, <1>14, <1>15 DEF Next, LoopStep, UserStep

\* After stopInLoop, neither a queued start nor a restart nor an attempt under
\* way ends in a connection before the next connect().
THEOREM StoppedClientStaysStopped == SafeSpec => StoppedStaysStopped
<1>1. ASSUME IInv, IInv', Next, quiet = "yes", quiet' = "yes", Running'
      PROVE  /\ ~(state_ # "kConnecting" /\ state_' = "kConnecting")
             /\ \A f \in Fds : Live(f)' => Live(f)
  <2>1. TypeInv /\ Parts /\ Parts'
    BY <1>1, OnlyRunning DEF IInv
  <2>2. state_' # "kConnecting" /\ ~Doing("newConnection")
    BY <1>1, <2>1 DEF Parts, QuietInv
  <2>. QED  BY <1>1, <2>1, <2>2, OnlyNewConnection
<1>2. IInv /\ IInv' /\ [Next]_vars =>
        [quiet = "yes" /\ quiet' = "yes" /\ Running' => /\ ~(state_ # "kConnecting" /\ state_' = "kConnecting")
                                                       /\ \A f \in Fds : Live(f)' => Live(f)]_vars
  BY <1>1
<1>. QED  BY <1>2, ClientInvariant, PTL DEF SafeSpec, StoppedStaysStopped

=============================================================================
