---------------------------- MODULE TaskPoolProofs ----------------------------
(***************************************************************************)
(* Proofs, for every number of workers, callers and tasks, that the pool   *)
(* runs its tasks one at a time in the order of addTask, and that at most  *)
(* one task begins after stop().                                           *)
(***************************************************************************)
EXTENDS TaskPool, SequenceTheorems, TLAPS

-----------------------------------------------------------------------------
(* Sequences used as queues *)

\* Appending commutes with putting a prefix in front.
LEMMA ConcatAppend ==
  ASSUME NEW S, NEW s \in Seq(S), NEW t \in Seq(S), NEW e \in S
  PROVE  s \o Append(t, e) = Append(s \o t, e)
<1>1. /\ Append(t, e) = t \o <<e>> /\ <<e>> \in Seq(S) /\ s \o t \in Seq(S)
  BY AppendIsConcat, ConcatProperties
<1>2. Append(s \o t, e) = (s \o t) \o <<e>>
  BY <1>1, AppendIsConcat
<1> QED
  BY <1>1, <1>2, ConcatAssociative

\* Moving the head of the second sequence to the end of the first one does
\* not change their concatenation.
LEMMA MoveHead ==
  ASSUME NEW S, NEW s \in Seq(S), NEW t \in Seq(S), t # <<>>
  PROVE  Append(s, Head(t)) \o Tail(t) = s \o t
<1>1. /\ Head(t) \in S /\ Tail(t) \in Seq(S) /\ Head(t) = t[1]
      /\ Len(t) \in Nat /\ 1 \in 1..Len(t) /\ Len(t) \in 1..Len(t)
  BY HeadTailProperties, EmptySeq
<1>2. t = <<Head(t)>> \o Tail(t)
  <2>1. SubSeq(t, 1, Len(t)) = <<t[1]>> \o SubSeq(t, 1 + 1, Len(t))
    BY <1>1, SubSeqRecursiveFirst
  <2>2. SubSeq(t, 1, Len(t)) = t /\ Tail(t) = SubSeq(t, 2, Len(t)) /\ 1 + 1 = 2
    BY SubSeqFull, TailIsSubSeq
  <2>. QED  BY <1>1, <2>1, <2>2
<1>3. Append(s, Head(t)) = s \o <<Head(t)>> /\ <<Head(t)>> \in Seq(S)
  BY <1>1, AppendIsConcat
<1>4. (s \o <<Head(t)>>) \o Tail(t) = s \o (<<Head(t)>> \o Tail(t))
  BY <1>1, <1>3, ConcatAssociative
<1>. QED  BY <1>2, <1>3, <1>4

\* Cutting as many elements from the end of a concatenation as its second
\* part has leaves the first part.
LEMMA CutSuffix ==
  ASSUME NEW S, NEW s \in Seq(S), NEW t \in Seq(S)
  PROVE  SubSeq(s \o t, 1, Len(s \o t) - Len(t)) = s
<1>1. Len(s) \in Nat /\ Len(t) \in Nat /\ Len(s \o t) - Len(t) = Len(s)
  BY ConcatProperties, LenProperties
<1>2. CASE s = <<>>
  BY <1>1, <1>2, SubSeqEmpty
<1>3. CASE s # <<>>
  <2>1. 1 \in 1..Len(s) /\ Len(s) \in 1..Len(s)
    BY <1>3, EmptySeq
  <2>. QED  BY <1>1, <2>1, SubSeqOfConcat1, SubSeqFull
<1>. QED  BY <1>2, <1>3

\* The pool's state has its type in the state that init() leaves.
LEMMA PoolTypeInit == Init => TypeOK
BY EmptySeq DEF Init, TypeOK

\* Every step of a worker, a caller or stop() keeps the types.
LEMMA PoolTypeNext == TypeOK /\ ListInv /\ [Next]_vars => TypeOK'
<1> SUFFICES ASSUME TypeOK, ListInv, [Next]_vars PROVE TypeOK'
  OBVIOUS
<1>1. ASSUME NEW w \in Workers, Lock(w) PROVE TypeOK'
  BY <1>1 DEF TypeOK, Lock
<1>2. ASSUME NEW w \in Workers, Wait(w) PROVE TypeOK'
  BY <1>2 DEF TypeOK, Wait
<1>3. ASSUME NEW w \in Workers, StartTask(w) PROVE TypeOK'
  <2>1. Head(m_taskList) \in Tasks /\ Tail(m_taskList) \in Seq(Tasks)
    BY <1>3, HeadTailProperties DEF TypeOK, ListInv, StartTask
  <2> QED
    BY <1>3, <2>1 DEF TypeOK, StartTask
<1>4. ASSUME NEW w \in Workers, SkipTask(w) PROVE TypeOK'
  <2>1. Head(m_taskList) \in Tasks /\ Tail(m_taskList) \in Seq(Tasks)
    BY <1>4, HeadTailProperties DEF TypeOK, ListInv, SkipTask
  <2>2. Append(finished, Head(m_taskList)) \in Seq(Tasks)
    BY <2>1, AppendProperties DEF TypeOK
  <2> QED
    BY <1>4, <2>1, <2>2 DEF TypeOK, SkipTask
<1>5. ASSUME NEW w \in Workers, FinishTask(w) PROVE TypeOK'
  <2>1. Append(finished, running[w]) \in Seq(Tasks)
    BY <1>5, AppendProperties DEF TypeOK, ListInv, FinishTask
  <2> QED
    BY <1>5, <2>1 DEF TypeOK, FinishTask
<1>6. ASSUME NEW c \in Callers, NEW x \in Tasks, AddTask(c, x) PROVE TypeOK'
  <2>1. Append(m_taskList, x) \in Seq(Tasks) /\ Append(wanted, x) \in Seq(Tasks)
    BY AppendProperties DEF TypeOK
  <2> QED
    BY <1>6, <2>1 DEF TypeOK, AddTask
<1>7. ASSUME NEW c \in Callers, NotifyOne(c) PROVE TypeOK'
  BY <1>7 DEF TypeOK, NotifyOne, Waiting
<1>8. CASE RemoveAllTasks
  <2>1. Len(wanted) \in Nat /\ Len(m_taskList) \in Nat
    BY LenProperties DEF TypeOK
  <2>2. \A i \in 1..(Len(wanted) - Len(m_taskList)) : wanted[i] \in Tasks
    BY <2>1, ElementOfSeq DEF TypeOK
  <2>3. SubSeq(wanted, 1, Len(wanted) - Len(m_taskList)) \in Seq(Tasks)
    BY <2>1, <2>2, SubSeqProperties
  <2>4. <<>> \in Seq(Tasks)
    BY EmptySeq
  <2> QED
    BY <1>8, <2>3, <2>4 DEF TypeOK, RemoveAllTasks
<1>9. CASE StopFlag
  BY <1>9 DEF TypeOK, StopFlag
<1>10. CASE StopNotify
  BY <1>10 DEF TypeOK, StopNotify
<1>11. CASE StopJoin
  BY <1>11 DEF TypeOK, StopJoin
<1>12. CASE UNCHANGED vars
  BY <1>12 DEF TypeOK, vars
<1> QED
  BY <1>1, <1>2, <1>3, <1>4, <1>5, <1>6, <1>7, <1>8, <1>9, <1>10, <1>11, <1>12
     DEF Next, WorkerStep

\* The order of tasks is kept by a step of a worker.
LEMMA WorkerKeepsOrder ==
  ASSUME IInv, NEW w \in Workers, WorkerStep(w)
  PROVE  SerialOrder'
<1> USE DEF IInv
<1>1. CASE Lock(w)
  BY <1>1 DEF Lock, SerialOrder, TypeOK
<1>2. CASE Wait(w)
  BY <1>2 DEF Wait, SerialOrder, TypeOK
<1>3. ASSUME pc[w] = "take"
      PROVE  /\ Append(finished, Head(m_taskList)) \o Tail(m_taskList) = finished \o m_taskList
             /\ finished \o m_taskList = wanted
             /\ \A v \in Workers : pc[v] # "run"
  <2>1. \A v \in Workers : pc[v] # "run"
    BY <1>3 DEF MutexInv, TypeOK
  <2> QED
    BY <1>3, <2>1, MoveHead DEF TypeOK, ListInv, SerialOrder
<1>4. CASE StartTask(w)
  <2>1. pc' = [pc EXCEPT ![w] = "run"] /\ running'[w] = Head(m_taskList)
    BY <1>4 DEF StartTask, TypeOK
  <2>2. \A v \in Workers : pc'[v] = "run" <=> v = w
    BY <1>3, <1>4, <2>1 DEF StartTask, TypeOK
  <2> QED
    BY <1>3, <1>4, <2>1, <2>2 DEF StartTask, SerialOrder
<1>5. CASE SkipTask(w)
  <2>1. \A v \in Workers : pc'[v] # "run"
    BY <1>3, <1>5 DEF SkipTask, TypeOK
  <2> QED
    BY <1>3, <1>5, <2>1 DEF SkipTask, SerialOrder
<1>6. CASE FinishTask(w)
  <2>1. \A v \in Workers : pc[v] = "run" => v = w
    BY <1>6 DEF FinishTask, MutexInv, TypeOK
  <2>2. \A v \in Workers : pc'[v] # "run"
    BY <1>6, <2>1 DEF FinishTask, TypeOK
  <2> QED
    BY <1>6, <2>2 DEF FinishTask, SerialOrder
<1> QED
  BY <1>1, <1>2, <1>4, <1>5, <1>6 DEF WorkerStep

\* The order of tasks is kept by addTask and by removeAllTasks, which run
\* while nobody holds the mutex and so while no task is in progress.
LEMMA CallerKeepsOrder ==
  ASSUME IInv, RemoveAllTasks \/ \E c \in Callers, x \in Tasks : AddTask(c, x)
  PROVE  SerialOrder'
<1> USE DEF IInv
<1>1. holder = NoOne /\ pc' = pc /\ running' = running /\ finished' = finished
  BY DEF RemoveAllTasks, AddTask
<1>2. \A w \in Workers : pc[w] # "run"
  BY <1>1, PoolAssumption DEF MutexInv, TypeOK
<1>3. finished \o m_taskList = wanted
  BY <1>2 DEF SerialOrder
<1>4. CASE RemoveAllTasks
  <2>1. wanted' = finished
    BY <1>3, <1>4, CutSuffix DEF RemoveAllTasks, TypeOK
  <2>2. finished \o <<>> = finished
    BY ConcatEmptySeq DEF TypeOK
  <2> QED
    BY <1>1, <1>2, <1>4, <2>1, <2>2 DEF RemoveAllTasks, SerialOrder
<1>5. ASSUME NEW c \in Callers, NEW x \in Tasks, AddTask(c, x) PROVE SerialOrder'
  <2>1. finished \o Append(m_taskList, x) = Append(wanted, x)
    BY <1>3, ConcatAppend DEF TypeOK
  <2> QED
    BY <1>1, <1>2, <1>5, <2>1 DEF AddTask, SerialOrder
<1> QED
  BY <1>4, <1>5

\* init() establishes the inductive invariant.
LEMMA PoolInit == Init => IInv
<1> SUFFICES ASSUME Init PROVE IInv
  OBVIOUS
<1>1. <<>> \o <<>> = <<>>
  OBVIOUS
<1>2. SerialOrder
  BY <1>1 DEF Init, SerialOrder
<1> QED
  BY <1>2, PoolTypeInit, PoolAssumption DEF Init, IInv, MutexInv, ListInv, LateInv, AtMostOneAfterStop

\* The mutex is held exactly in the phases the code holds it in.
LEMMA MutexKept == IInv /\ [Next]_vars => MutexInv'
<1> SUFFICES ASSUME IInv, [Next]_vars PROVE MutexInv'
  OBVIOUS
<1> USE PoolAssumption DEF IInv, TypeOK, MutexInv
<1>1. ASSUME NEW w \in Workers, Lock(w) PROVE MutexInv'
  BY <1>1 DEF Lock
<1>2. ASSUME NEW w \in Workers, Wait(w) PROVE MutexInv'
  BY <1>2 DEF Wait
<1>3. ASSUME NEW w \in Workers, StartTask(w) PROVE MutexInv'
  BY <1>3 DEF StartTask
<1>4. ASSUME NEW w \in Workers, SkipTask(w) PROVE MutexInv'
  BY <1>4 DEF SkipTask
<1>5. ASSUME NEW w \in Workers, FinishTask(w) PROVE MutexInv'
  BY <1>5 DEF FinishTask
<1>6. ASSUME NEW c \in Callers, NotifyOne(c) PROVE MutexInv'
  BY <1>6 DEF NotifyOne, Waiting
<1>7. CASE StopNotify
  BY <1>7 DEF StopNotify
<1>8. CASE UNCHANGED <<pc, holder>>
  BY <1>8
<1> QED
  BY <1>1, <1>2, <1>3, <1>4, <1>5, <1>6, <1>7, <1>8
     DEF Next, WorkerStep, AddTask, RemoveAllTasks, StopFlag, StopJoin, vars

\* A worker that has seen a task in the list still finds it there.
LEMMA ListKept == IInv /\ [Next]_vars => ListInv'
<1> SUFFICES ASSUME IInv, [Next]_vars PROVE ListInv'
  OBVIOUS
<1> USE PoolAssumption DEF IInv, TypeOK, MutexInv, ListInv
<1>1. ASSUME NEW w \in Workers, Lock(w) PROVE ListInv'
  BY <1>1 DEF Lock
<1>2. ASSUME NEW w \in Workers, Wait(w) PROVE ListInv'
  BY <1>2 DEF Wait
<1>3. ASSUME NEW w \in Workers, StartTask(w) PROVE ListInv'
  <2>1. Head(m_taskList) \in Tasks
    BY <1>3, HeadTailProperties DEF StartTask
  <2>2. \A v \in Workers : pc[v] \in {"take", "run"} => v = w
    BY <1>3 DEF StartTask
  <2> QED
    BY <1>3, <2>1, <2>2 DEF StartTask
<1>4. ASSUME NEW w \in Workers, SkipTask(w) PROVE ListInv'
  <2>1. \A v \in Workers : pc[v] \in {"take", "run"} => v = w
    BY <1>4 DEF SkipTask
  <2> QED
    BY <1>4, <2>1 DEF SkipTask
<1>5. ASSUME NEW w \in Workers, FinishTask(w) PROVE ListInv'
  BY <1>5 DEF FinishTask
<1>6. ASSUME NEW c \in Callers, NotifyOne(c) PROVE ListInv'
  BY <1>6 DEF NotifyOne, Waiting
<1>7. CASE StopNotify
  BY <1>7 DEF StopNotify
<1>8. ASSUME NEW c \in Callers, NEW x \in Tasks, AddTask(c, x) PROVE ListInv'
  <2>1. \A v \in Workers : pc[v] # "take"
    BY <1>8 DEF AddTask
  <2> QED
    BY <1>8, <2>1 DEF AddTask
<1>9. CASE RemoveAllTasks
  <2>1. \A v \in Workers : pc[v] # "take"
    BY <1>9 DEF RemoveAllTasks
  <2> QED
    BY <1>9, <2>1 DEF RemoveAllTasks
<1>10. CASE UNCHANGED <<pc, running, m_taskList>>
  BY <1>10
<1> QED
  BY <1>1, <1>2, <1>3, <1>4, <1>5, <1>6, <1>7, <1>8, <1>9, <1>10
     DEF Next, WorkerStep, StopFlag, StopJoin, vars

\* Only the worker that had tested m_bRunning before stop() starts a task late.
LEMMA LateKept == IInv /\ [Next]_vars => LateInv' /\ AtMostOneAfterStop'
<1> SUFFICES ASSUME IInv, [Next]_vars PROVE LateInv' /\ AtMostOneAfterStop'
  OBVIOUS
<1> USE DEF IInv, TypeOK, MutexInv, LateInv, AtMostOneAfterStop
<1>1. ASSUME NEW w \in Workers, Lock(w) PROVE LateInv' /\ AtMostOneAfterStop'
  BY <1>1 DEF Lock
<1>2. ASSUME NEW w \in Workers, Wait(w) PROVE LateInv' /\ AtMostOneAfterStop'
  BY <1>2 DEF Wait
<1>3. ASSUME NEW w \in Workers, StartTask(w) PROVE LateInv' /\ AtMostOneAfterStop'
  <2>1. lateStarts = 0 /\ \A v \in Workers : pc[v] = "take" => v = w
    BY <1>3 DEF StartTask
  <2>2. \A v \in Workers : pc'[v] # "take"
    BY <1>3, <2>1 DEF StartTask
  <2> QED
    BY <1>3, <2>1, <2>2 DEF StartTask
<1>4. ASSUME NEW w \in Workers, SkipTask(w) PROVE LateInv' /\ AtMostOneAfterStop'
  BY <1>4 DEF SkipTask
<1>5. ASSUME NEW w \in Workers, FinishTask(w) PROVE LateInv' /\ AtMostOneAfterStop'
  BY <1>5 DEF FinishTask
<1>6. ASSUME NEW c \in Callers, NotifyOne(c) PROVE LateInv' /\ AtMostOneAfterStop'
  BY <1>6 DEF NotifyOne, Waiting
<1>7. CASE StopNotify
  BY <1>7 DEF StopNotify
<1>8. CASE StopFlag
  BY <1>8 DEF StopFlag
<1>9. CASE UNCHANGED <<pc, m_bRunning, lateStarts>>
  BY <1>9
<1> QED
  BY <1>1, <1>2, <1>3, <1>4, <1>5, <1>6, <1>7, <1>8, <1>9
     DEF Next, WorkerStep, AddTask, RemoveAllTasks, StopJoin, vars

\* Every step keeps the order of tasks; those that neither move a task nor
\* begin or end a doIt() leave all it is about alone.
LEMMA OrderStep == IInv /\ [Next]_vars => SerialOrder'
<1> SUFFICES ASSUME IInv, [Next]_vars PROVE SerialOrder'
  OBVIOUS
<1>1. ASSUME NEW c \in Callers, NotifyOne(c) PROVE SerialOrder'
  <2>1. \A w \in Workers : pc'[w] = "run" <=> pc[w] = "run"
    BY <1>1 DEF NotifyOne, Waiting, IInv, TypeOK
  <2> QED
    BY <1>1, <2>1 DEF NotifyOne, IInv, SerialOrder
<1>2. CASE StopNotify
  <2>1. \A w \in Workers : pc'[w] = "run" <=> pc[w] = "run"
    BY <1>2 DEF StopNotify, IInv, TypeOK
  <2> QED
    BY <1>2, <2>1 DEF StopNotify, IInv, SerialOrder
<1>3. CASE UNCHANGED <<pc, running, m_taskList, finished, wanted>>
  BY <1>3 DEF IInv, SerialOrder
<1> QED
  BY <1>1, <1>2, <1>3, WorkerKeepsOrder, CallerKeepsOrder DEF Next, StopFlag, StopJoin, vars

\* The inductive invariant holds in every reachable state of the pool.
LEMMA PoolInvariant == SafeSpec => []IInv
<1>1. IInv /\ [Next]_vars => IInv'
  BY PoolTypeNext, MutexKept, ListKept, OrderStep, LateKept DEF IInv
<1> QED
  BY <1>1, PoolInit, PTL DEF SafeSpec

\* threadFunc and addTask: tasks are run one at a time, in the order they were
\* added, whatever the number of workers.
THEOREM PoolRunsInOrder == SafeSpec => []SerialOrder
<1>1. IInv => SerialOrder
  BY DEF IInv
<1> QED
  BY <1>1, PoolInvariant, PTL

\* stop(): at most one task begins after m_bRunning is cleared.
THEOREM PoolStopsPromptly == SafeSpec => []AtMostOneAfterStop
<1>1. IInv => AtMostOneAfterStop
  BY DEF IInv
<1> QED
  BY <1>1, PoolInvariant, PTL
==============================================================================
