--------------------------- MODULE EventLoopProofs ---------------------------
(***************************************************************************)
(* Proofs, for every set of threads and of functors, that the functor      *)
(* queue of EventLoop loses nothing, keeps the order of the pushes, is     *)
(* never slept on, and implements FunctorQueue.                            *)
(***************************************************************************)
EXTENDS EventLoop, SequenceTheorems, TLAPS

-----------------------------------------------------------------------------
(* Sequences used as queues *)

\* Appending commutes with putting a prefix in front.
LEMMA ConcatAppend ==
  ASSUME NEW S, NEW s \in Seq(S), NEW t \in Seq(S), NEW e \in S
  PROVE  s \o Append(t, e) = Append(s \o t, e)
<1>1. /\ Append(t, e) = t \o <<e>> /\ <<e>> \in Seq(S) /\ s \o t \in Seq(S)
  BY AppendIsConcat, ConcatProperties
<1>2. Append(s \o t, e) = (s \o t) \o <<e>>
  BY <1>1, AppendIsConcat
<1> QED
  BY <1>1, <1>2, ConcatAssociative

\* Moving the head of the second sequence to the end of the first one does
\* not change their concatenation.
LEMMA MoveHead ==
  ASSUME NEW S, NEW s \in Seq(S), NEW t \in Seq(S), t # <<>>
  PROVE  Append(s, Head(t)) \o Tail(t) = s \o t
<1>1. /\ Head(t) \in S /\ Tail(t) \in Seq(S) /\ Head(t) = t[1]
      /\ Len(t) \in Nat /\ 1 \in 1..Len(t) /\ Len(t) \in 1..Len(t)
  BY HeadTailProperties, EmptySeq
<1>2. t = <<Head(t)>> \o Tail(t)
  <2>1. SubSeq(t, 1, Len(t)) = <<t[1]>> \o SubSeq(t, 1 + 1, Len(t))
    BY <1>1, SubSeqRecursiveFirst
  <2>2. SubSeq(t, 1, Len(t)) = t /\ Tail(t) = SubSeq(t, 2, Len(t)) /\ 1 + 1 = 2
    BY SubSeqFull, TailIsSubSeq
  <2>. QED  BY <1>1, <2>1, <2>2
<1>3. Append(s, Head(t)) = s \o <<Head(t)>> /\ <<Head(t)>> \in Seq(S)
  BY <1>1, AppendIsConcat
<1>4. (s \o <<Head(t)>>) \o Tail(t) = s \o (<<Head(t)>> \o Tail(t))
  BY <1>1, <1>3, ConcatAssociative
<1>. QED  BY <1>2, <1>3, <1>4

-----------------------------------------------------------------------------
(* Type correctness *)

\* The constructor of EventLoop establishes the types.
LEMMA TypeInit == Init => TypeOK
BY EmptySeq DEF Init, TypeOK, Phases, Channels

\* Every step of the loop, of a callback or of another thread keeps the types.
LEMMA TypeNext == TypeOK /\ [Next]_vars => TypeOK'
<1> SUFFICES ASSUME TypeOK, [Next]_vars PROVE TypeOK'
  OBVIOUS
<1>1. CASE LoopEnter
  BY <1>1 DEF TypeOK, LoopEnter, Phases
<1>2. CASE LoopTest
  BY <1>2 DEF TypeOK, LoopTest, Phases
<1>3. CASE TimersDone
  BY <1>3 DEF TypeOK, TimersDone, Phases
<1>4. CASE Poll
  BY <1>4 DEF TypeOK, Poll, Phases, Channels
<1>5. ASSUME NEW ch \in Channels, HandleEvent(ch) PROVE TypeOK'
  BY <1>5 DEF TypeOK, HandleEvent, Phases, Channels
<1>6. CASE EventsDone
  BY <1>6 DEF TypeOK, EventsDone, Phases
<1>7. CASE SwapFunctors
  BY <1>7, EmptySeq DEF TypeOK, SwapFunctors, Phases
<1>8. CASE RunFunctor
  <2>1. Head(functors) \in Functors /\ Tail(functors) \in Seq(Functors)
    BY <1>8, HeadTailProperties DEF TypeOK, RunFunctor
  <2>2. Append(executed, Head(functors)) \in Seq(Functors)
    BY <2>1, AppendProperties DEF TypeOK
  <2> QED
    BY <1>8, <2>1, <2>2 DEF TypeOK, RunFunctor, Phases
<1>9. CASE FunctorsDone
  BY <1>9 DEF TypeOK, FunctorsDone, Phases
<1>10. CASE FrameDone
  BY <1>10 DEF TypeOK, FrameDone, Phases
<1>11. CASE CallbackReturns
  BY <1>11 DEF TypeOK, CallbackReturns, Phases
<1>12. CASE LoopQuit
  BY <1>12 DEF TypeOK, LoopQuit, Phases
<1>13. ASSUME NEW f \in Functors, LoopQueueInLoop(f) PROVE TypeOK'
  <2>1. Append(pendingFunctors_, f) \in Seq(Functors) /\ Append(posted, f) \in Seq(Functors)
    BY AppendProperties DEF TypeOK
  <2> QED
    BY <1>13, <2>1 DEF TypeOK, LoopQueueInLoop, Phases
<1>14. ASSUME NEW t \in Threads, Quit(t) PROVE TypeOK'
  BY <1>14 DEF TypeOK, Quit, loopVars, Phases
<1>15. ASSUME NEW t \in Threads, Wakeup(t) PROVE TypeOK'
  BY <1>15 DEF TypeOK, Wakeup, loopVars, Phases
<1>16. ASSUME NEW t \in Threads, NEW f \in Functors, QueueInLoop(t, f) PROVE TypeOK'
  <2>1. Append(pendingFunctors_, f) \in Seq(Functors) /\ Append(posted, f) \in Seq(Functors)
    BY AppendProperties DEF TypeOK
  <2> QED
    BY <1>16, <2>1 DEF TypeOK, QueueInLoop, Phases
<1>17. CASE UNCHANGED vars
  BY <1>17 DEF TypeOK, vars, Phases
<1> QED
  BY <1>1, <1>2, <1>3, <1>4, <1>5, <1>6, <1>7, <1>8, <1>9, <1>10, <1>11, <1>12,
     <1>13, <1>14, <1>15, <1>16, <1>17 DEF Next, LoopStep

\* Every step of the loop thread, its callbacks and the other threads keeps
\* the variables of EventLoop in their types.
THEOREM TypeCorrect == SafeSpec => []TypeOK
BY TypeInit, TypeNext, PTL DEF SafeSpec

-----------------------------------------------------------------------------
(* The inductive invariant *)

\* Queueing a functor behind the pending ones extends ExecutionOrder.
LEMMA QueueKeepsOrder ==
  ASSUME TypeOK, ExecutionOrder, NEW f \in Functors,
         pendingFunctors_' = Append(pendingFunctors_, f), posted' = Append(posted, f),
         UNCHANGED <<executed, functors>>
  PROVE  ExecutionOrder'
<1>1. executed \o functors \in Seq(Functors) /\ pendingFunctors_ \in Seq(Functors)
  BY ConcatProperties DEF TypeOK
<1>2. (executed \o functors) \o Append(pendingFunctors_, f)
         = Append((executed \o functors) \o pendingFunctors_, f)
  BY <1>1, ConcatAppend
<1> QED
  BY <1>2 DEF ExecutionOrder

\* Append adds exactly one element to what is in the queue.
LEMMA InQueueAppend ==
  ASSUME NEW q \in Seq(Functors), NEW f \in Functors, NEW g
  PROVE  InQueue(g, Append(q, f)) <=> InQueue(g, q) \/ g = f
<1> DEFINE a == Append(q, f)
<1>1. /\ Len(q) \in Nat /\ Len(a) = Len(q) + 1 /\ a[Len(q) + 1] = f
      /\ \A i \in 1..Len(q) : a[i] = q[i]
  BY AppendProperties, LenProperties
<1>2. \A i \in 1..Len(a) : i \in 1..Len(q) \/ i = Len(q) + 1
  BY <1>1
<1>3. 1..Len(q) \subseteq 1..Len(a) /\ Len(q) + 1 \in 1..Len(a)
  BY <1>1
<1> HIDE DEF a
<1>4. InQueue(g, a) <=> InQueue(g, q) \/ g = f
  BY <1>1, <1>2, <1>3 DEF InQueue
<1> QED
  BY <1>4 DEF a

\* The constructor establishes the inductive invariant.
LEMMA InitIInv == Init => IInv
<1> SUFFICES ASSUME Init PROVE IInv
  OBVIOUS
<1>1. TypeOK
  BY TypeInit
<1>2. ExecutionOrder
  BY EmptySeq, ConcatEmptySeq DEF Init, ExecutionOrder
<1> QED
  BY <1>1, <1>2 DEF Init, IInv, BatchInv, WakeupInv, PromptPosted, InQueue

\* Every step keeps the inductive invariant, action by action.
LEMMA NextIInv == IInv /\ [Next]_vars => IInv'
<1> SUFFICES ASSUME IInv, [Next]_vars PROVE IInv'
  OBVIOUS
<1> USE DEF IInv
<1>t. TypeOK'
  BY TypeNext
<1>q. /\ executed \in Seq(Functors) /\ functors \in Seq(Functors)
      /\ pendingFunctors_ \in Seq(Functors)
  BY DEF TypeOK
<1>1. CASE LoopEnter
  BY <1>1, <1>t DEF LoopEnter, BatchInv, ExecutionOrder, WakeupInv, PromptPosted, InQueue
<1>2. CASE LoopTest
  BY <1>2, <1>t DEF LoopTest, BatchInv, ExecutionOrder, WakeupInv, PromptPosted, InQueue
<1>3. CASE TimersDone
  BY <1>3, <1>t DEF TimersDone, BatchInv, ExecutionOrder, WakeupInv, PromptPosted, InQueue
<1>4. CASE Poll
  BY <1>4, <1>t DEF Poll, BatchInv, ExecutionOrder, WakeupInv, PromptPosted, InQueue
<1>5. ASSUME NEW ch \in Channels, HandleEvent(ch) PROVE IInv'
  BY <1>5, <1>t DEF HandleEvent, BatchInv, ExecutionOrder, WakeupInv, PromptPosted, InQueue
<1>6. CASE EventsDone
  BY <1>6, <1>t DEF EventsDone, BatchInv, ExecutionOrder, WakeupInv, PromptPosted, InQueue
<1>7. CASE SwapFunctors
  <2>1. ExecutionOrder'
    <3>1. functors = <<>> /\ functors' = pendingFunctors_ /\ pendingFunctors_' = <<>>
          /\ UNCHANGED <<executed, posted>>
      BY <1>7 DEF SwapFunctors, BatchInv
    <3>2. /\ executed \o functors = executed
          /\ (executed \o pendingFunctors_) \o <<>> = executed \o pendingFunctors_
      BY <3>1, <1>q, ConcatEmptySeq, ConcatProperties
    <3> QED
      BY <3>1, <3>2 DEF ExecutionOrder
  <2>2. BatchInv'
    BY <1>7 DEF SwapFunctors, BatchInv
  <2>3. WakeupInv' /\ PromptPosted'
    BY <1>7 DEF SwapFunctors, WakeupInv, PromptPosted, InQueue
  <2> QED
    BY <1>t, <2>1, <2>2, <2>3
<1>8. CASE RunFunctor
  <2>1. Append(executed, Head(functors)) \o Tail(functors) = executed \o functors
    BY <1>8, <1>q, MoveHead DEF RunFunctor
  <2> QED
    BY <1>8, <1>t, <2>1 DEF RunFunctor, BatchInv, ExecutionOrder, WakeupInv, PromptPosted, InQueue
<1>9. CASE FunctorsDone
  BY <1>9, <1>t DEF FunctorsDone, BatchInv, ExecutionOrder, WakeupInv, PromptPosted, InQueue
<1>10. CASE FrameDone
  BY <1>10, <1>t DEF FrameDone, BatchInv, ExecutionOrder, WakeupInv, PromptPosted, InQueue
<1>11. CASE CallbackReturns
  BY <1>11, <1>t DEF CallbackReturns, BatchInv, ExecutionOrder, WakeupInv, PromptPosted, InQueue
<1>12. CASE LoopQuit
  BY <1>12, <1>t DEF LoopQuit, BatchInv, ExecutionOrder, WakeupInv, PromptPosted, InQueue
<1>13. ASSUME NEW f \in Functors, LoopQueueInLoop(f) PROVE IInv'
  <2>1. ExecutionOrder'
    BY <1>13, QueueKeepsOrder DEF LoopQueueInLoop
  <2>2. BatchInv'
    BY <1>13 DEF LoopQueueInLoop, BatchInv
  <2>3. WakeupInv'
    <3>1. CASE callingPendingFunctors_
      BY <1>13, <3>1 DEF LoopQueueInLoop, WakeupInv, TypeOK
    <3>2. CASE ~callingPendingFunctors_
      <4>1. prompt' = prompt /\ wakeupFd_' = wakeupFd_ /\ pc' = pc /\ tpc' = tpc
        BY <1>13, <3>2 DEF LoopQueueInLoop, BatchInv, TypeOK
      <4>2. ASSUME NEW g \in prompt, InQueue(g, Append(pendingFunctors_, f))
            PROVE  InQueue(g, pendingFunctors_)
        <5>1. g # f
          BY <1>13 DEF LoopQueueInLoop, PromptPosted
        <5> QED
          BY <4>2, <5>1, InQueueAppend DEF TypeOK
      <4> QED
        BY <1>13, <4>1, <4>2 DEF LoopQueueInLoop, WakeupInv
    <3> QED
      BY <3>1, <3>2
  <2>4. PromptPosted'
    BY <1>13, InQueueAppend DEF LoopQueueInLoop, PromptPosted, TypeOK
  <2> QED
    BY <1>t, <2>1, <2>2, <2>3, <2>4
<1>14. ASSUME NEW t \in Threads, Quit(t) PROVE IInv'
  BY <1>14, <1>t DEF Quit, loopVars, TypeOK, BatchInv, ExecutionOrder, WakeupInv, PromptPosted, InQueue
<1>15. ASSUME NEW t \in Threads, Wakeup(t) PROVE IInv'
  BY <1>15, <1>t DEF Wakeup, loopVars, BatchInv, ExecutionOrder, WakeupInv, PromptPosted, InQueue
<1>16. ASSUME NEW t \in Threads, NEW f \in Functors, QueueInLoop(t, f) PROVE IInv'
  <2>1. ExecutionOrder'
    BY <1>16, QueueKeepsOrder DEF QueueInLoop
  <2>2. BatchInv'
    BY <1>16 DEF QueueInLoop, BatchInv
  <2>3. WakeupInv'
    BY <1>16 DEF QueueInLoop, WakeupInv, TypeOK
  <2>4. PromptPosted'
    BY <1>16, InQueueAppend DEF QueueInLoop, PromptPosted, TypeOK
  <2> QED
    BY <1>t, <2>1, <2>2, <2>3, <2>4
<1>17. CASE UNCHANGED vars
  BY <1>17, <1>t DEF vars, BatchInv, ExecutionOrder, WakeupInv, PromptPosted, InQueue
<1> QED
  BY <1>1, <1>2, <1>3, <1>4, <1>5, <1>6, <1>7, <1>8, <1>9, <1>10, <1>11, <1>12,
     <1>13, <1>14, <1>15, <1>16, <1>17 DEF Next, LoopStep

\* The inductive invariant holds in every reachable state of the loop.
LEMMA IInvHolds == SafeSpec => []IInv
BY InitIInv, NextIInv, PTL DEF SafeSpec

\* No functor handed to the loop is lost, run twice or run out of order: the
\* batch swap and the pushes of any thread only move the two boundaries in the
\* sequence of queued functors.
THEOREM OrderKept == SafeSpec => []ExecutionOrder
BY IInvHolds, PTL DEF IInv

\* The loop never goes to sleep in poll() on a functor whose queueInLoop owes
\* it a wakeup.
THEOREM NoLostWakeup == SafeSpec => []PromptWakeup
<1>1. IInv => PromptWakeup
  BY DEF IInv, WakeupInv, PromptWakeup
<1> QED
  BY <1>1, IInvHolds, PTL

-----------------------------------------------------------------------------
(* Refinement *)

\* What FunctorQueue!Run needs of the order: the head of the batch is the
\* first queued functor that has not been started.
LEMMA NextInOrder ==
  ASSUME TypeOK, ExecutionOrder, functors # <<>>
  PROVE  Len(executed) < Len(posted) /\ posted[Len(executed) + 1] = Head(functors)
<1> DEFINE rest == functors \o pendingFunctors_
<1>1. /\ executed \in Seq(Functors) /\ functors \in Seq(Functors)
      /\ pendingFunctors_ \in Seq(Functors)
  BY DEF TypeOK
<1>2. rest \in Seq(Functors) /\ Len(rest) = Len(functors) + Len(pendingFunctors_)
  BY <1>1, ConcatProperties
<1>3. Len(functors) \in Nat \ {0} /\ Len(pendingFunctors_) \in Nat /\ Len(executed) \in Nat
  BY <1>1, EmptySeq, LenProperties
<1>4. rest[1] = Head(functors)
  BY <1>1, <1>3
<1>5. posted = executed \o rest
  <2>1. (executed \o functors) \o pendingFunctors_ = executed \o rest
    BY <1>1, ConcatAssociative
  <2> QED
    BY <2>1 DEF ExecutionOrder
<1> HIDE DEF rest
<1>6. Len(posted) = Len(executed) + Len(rest)
  BY <1>1, <1>2, <1>5, ConcatProperties
<1>7. (executed \o rest)[Len(executed) + 1] = rest[1]
  <2>1. Len(rest) \in Nat \ {0}
    BY <1>2, <1>3
  <2> QED
    BY <1>1, <1>2, <1>3, <2>1
<1> QED
  BY <1>2, <1>3, <1>4, <1>5, <1>6, <1>7

\* Every step of EventLoop is a step of the promised queue or leaves it alone.
THEOREM RefinesQueue == SafeSpec => Promise!SafeSpec
<1>1. Init => Promise!Init
  BY DEF Init, Promise!Init
<1>2. IInv /\ [Next]_vars => [Promise!Next]_Promise!vars
  <2> SUFFICES ASSUME IInv, [Next]_vars PROVE Promise!Next \/ UNCHANGED Promise!vars
    OBVIOUS
  <2> USE DEF Promise!vars
  <2>1. CASE LoopTest
    BY <2>1 DEF LoopTest, Promise!Next, Promise!Stop
  <2>2. CASE RunFunctor
    <3>1. Len(executed) < Len(posted) /\ posted[Len(executed) + 1] = Head(functors)
      BY <2>2, NextInOrder DEF RunFunctor, IInv
    <3> QED
      BY <2>2, <3>1 DEF RunFunctor, Promise!Next, Promise!Run
  <2>3. ASSUME NEW f \in Functors, LoopQueueInLoop(f) PROVE Promise!Post(f)
    BY <2>3 DEF LoopQueueInLoop, Promise!Post, InQueue
  <2>4. ASSUME NEW t \in Threads, NEW f \in Functors, QueueInLoop(t, f) PROVE Promise!Post(f)
    BY <2>4 DEF QueueInLoop, Promise!Post, InQueue
  <2>5. CASE \/ LoopEnter \/ TimersDone \/ Poll \/ EventsDone \/ SwapFunctors
             \/ FunctorsDone \/ FrameDone \/ CallbackReturns \/ LoopQuit
             \/ \E ch \in Channels : HandleEvent(ch)
             \/ \E t \in Threads : Quit(t) \/ Wakeup(t)
             \/ UNCHANGED vars
    BY <2>5 DEF LoopEnter, TimersDone, Poll, EventsDone, SwapFunctors, FunctorsDone,
       FrameDone, CallbackReturns, LoopQuit, HandleEvent, Quit, Wakeup, vars, loopVars
  <2> QED
    BY <2>1, <2>2, <2>3, <2>4, <2>5 DEF Next, LoopStep, Promise!Next
<1> QED
  BY <1>1, <1>2, IInvHolds, PTL DEF SafeSpec, Promise!SafeSpec

==============================================================================
