------------------------------- MODULE TaskPool -------------------------------
(***************************************************************************)
(* Chapter03/code/TaskPool.cpp: worker threads that take tasks from one    *)
(* list under m_mutexList.  threadFunc's guard lives to the end of the     *)
(* loop's body, so a worker holds the mutex while doIt() runs; stop() sets *)
(* m_bRunning and notifies without the mutex.                              *)
(***************************************************************************)
EXTENDS Naturals, Sequences, SequencesExt, FiniteSets

CONSTANTS Workers,   \* m_threads
          Callers,   \* threads that call addTask
          Tasks,     \* the tasks added, each once
          NullTasks, \* those of them that are null pointers
          NoTask,    \* not a task
          NoOne      \* nobody holds the mutex

ASSUME PoolAssumption == NullTasks \subseteq Tasks /\ NoTask \notin Tasks /\ NoOne \notin Workers

VARIABLES
    m_taskList,
    m_bRunning,
    holder,      \* the worker that holds m_mutexList, or NoOne
    pc,          \* worker -> where it is in threadFunc
    running,     \* worker -> the task whose doIt() it runs
    notifying,   \* callers between addTask's unlock and its notify_one
    stopper,     \* where the caller of stop() is
    wanted,      \* history: the tasks added and not removed, in order
    finished,    \* history: the tasks whose doIt() has returned, or that were skipped
    lateStarts   \* history: doIt() begun after stop() cleared m_bRunning

vars == <<m_taskList, m_bRunning, holder, pc, running, notifying, stopper, wanted, finished, lateStarts>>

TypeOK ==
    /\ m_taskList \in Seq(Tasks)
    /\ m_bRunning \in BOOLEAN
    /\ holder \in Workers \cup {NoOne}
    /\ pc \in [Workers -> {"lock", "empty", "wait", "take", "run", "exit"}]
    /\ running \in [Workers -> Tasks \cup {NoTask}]
    /\ notifying \in SUBSET Callers
    /\ stopper \in {"no", "notify", "join", "done"}
    /\ wanted \in Seq(Tasks) /\ finished \in Seq(Tasks)
    /\ lateStarts \in Nat

\* The state after init(): the workers have been started.
Init ==
    /\ m_taskList = <<>>
    /\ m_bRunning = TRUE
    /\ holder = NoOne
    /\ pc = [w \in Workers |-> "lock"]
    /\ running = [w \in Workers |-> NoTask]
    /\ notifying = {}
    /\ stopper = "no"
    /\ wanted = <<>> /\ finished = <<>>
    /\ lateStarts = 0

Waiting == {w \in Workers : pc[w] = "wait"}

-----------------------------------------------------------------------------
(* Mutants *)

\* addTask forgets notify_one.
NotifyNobody(c) ==
    /\ c \in notifying
    /\ notifying' = notifying \ {c}
    /\ UNCHANGED <<m_taskList, m_bRunning, holder, pc, running, stopper, wanted, finished, lateStarts>>

\* The guard's scope ends before doIt().
UnlockThenRun(w) ==
    /\ pc[w] = "take" /\ Head(m_taskList) \notin NullTasks
    /\ running' = [running EXCEPT ![w] = Head(m_taskList)]
    /\ m_taskList' = Tail(m_taskList)
    /\ pc' = [pc EXCEPT ![w] = "run"]
    /\ holder' = NoOne
    /\ lateStarts' = IF m_bRunning THEN lateStarts ELSE lateStarts + 1
    /\ UNCHANGED <<m_bRunning, notifying, stopper, wanted, finished>>

\* threadFunc without its second test of m_bRunning: it drains the list.
DrainAfterStop(w) ==
    /\ pc[w] = "lock" /\ holder = NoOne
    /\ holder' = IF m_taskList = <<>> /\ ~m_bRunning THEN NoOne ELSE w
    /\ pc' = [pc EXCEPT ![w] = IF m_taskList # <<>> THEN "take" ELSE IF m_bRunning THEN "empty" ELSE "exit"]
    /\ UNCHANGED <<m_taskList, m_bRunning, running, notifying, stopper, wanted, finished, lateStarts>>

\* threadFunc without its tests of m_bRunning.
IgnoresStop(w) ==
    /\ pc[w] = "lock" /\ holder = NoOne
    /\ holder' = w
    /\ pc' = [pc EXCEPT ![w] = IF m_taskList = <<>> THEN "empty" ELSE "take"]
    /\ UNCHANGED <<m_taskList, m_bRunning, running, notifying, stopper, wanted, finished, lateStarts>>

-----------------------------------------------------------------------------
(* threadFunc *)

\* Lock (or, after a wake-up, lock again), test the list, test m_bRunning.
\* With a false m_bRunning the thread leaves, whatever is in the list.
Lock(w) ==
    /\ pc[w] = "lock" /\ holder = NoOne
    /\ holder' = IF m_bRunning THEN w ELSE NoOne
    /\ pc' = [pc EXCEPT ![w] = IF ~m_bRunning THEN "exit"
                               ELSE IF m_taskList = <<>> THEN "empty" ELSE "take"]
    /\ UNCHANGED <<m_taskList, m_bRunning, running, notifying, stopper, wanted, finished, lateStarts>>

\* m_cv.wait: unlock and sleep in one step.
Wait(w) ==
    /\ pc[w] = "empty"
    /\ pc' = [pc EXCEPT ![w] = "wait"]
    /\ holder' = NoOne
    /\ UNCHANGED <<m_taskList, m_bRunning, running, notifying, stopper, wanted, finished, lateStarts>>

\* front, pop_front, and doIt() begins; the mutex stays locked.
StartTask(w) ==
    /\ pc[w] = "take" /\ Head(m_taskList) \notin NullTasks
    /\ running' = [running EXCEPT ![w] = Head(m_taskList)]
    /\ m_taskList' = Tail(m_taskList)
    /\ pc' = [pc EXCEPT ![w] = "run"]
    /\ lateStarts' = IF m_bRunning THEN lateStarts ELSE lateStarts + 1
    /\ UNCHANGED <<m_bRunning, holder, notifying, stopper, wanted, finished>>

\* A null task is popped and skipped.
SkipTask(w) ==
    /\ pc[w] = "take" /\ Head(m_taskList) \in NullTasks
    /\ m_taskList' = Tail(m_taskList)
    /\ finished' = Append(finished, Head(m_taskList))
    /\ pc' = [pc EXCEPT ![w] = "lock"]
    /\ holder' = NoOne
    /\ UNCHANGED <<m_bRunning, running, notifying, stopper, wanted, lateStarts>>

\* doIt() returns and the end of the loop's body unlocks.
FinishTask(w) ==
    /\ pc[w] = "run"
    /\ finished' = Append(finished, running[w])
    /\ running' = [running EXCEPT ![w] = NoTask]
    /\ pc' = [pc EXCEPT ![w] = "lock"]
    /\ holder' = IF holder = w THEN NoOne ELSE holder
    /\ UNCHANGED <<m_taskList, m_bRunning, notifying, stopper, wanted, lateStarts>>

-----------------------------------------------------------------------------
(* Callers *)

AddTask(c, x) ==
    /\ c \notin notifying /\ holder = NoOne
    /\ x \notin ToSet(wanted)
    /\ m_taskList' = Append(m_taskList, x)
    /\ wanted' = Append(wanted, x)
    /\ notifying' = notifying \cup {c}
    /\ UNCHANGED <<m_bRunning, holder, pc, running, stopper, finished, lateStarts>>

\* notify_one, after the mutex is unlocked.
NotifyOne(c) ==
    /\ c \in notifying
    /\ notifying' = notifying \ {c}
    /\ IF Waiting = {} THEN pc' = pc ELSE \E w \in Waiting : pc' = [pc EXCEPT ![w] = "lock"]
    /\ UNCHANGED <<m_taskList, m_bRunning, holder, running, stopper, wanted, finished, lateStarts>>

\* removeAllTasks; the removed tasks were the last of wanted.
RemoveAllTasks ==
    /\ holder = NoOne /\ m_taskList # <<>>
    /\ m_taskList' = <<>>
    /\ wanted' = SubSeq(wanted, 1, Len(wanted) - Len(m_taskList))
    /\ UNCHANGED <<m_bRunning, holder, pc, running, notifying, stopper, finished, lateStarts>>

StopFlag ==
    /\ stopper = "no"
    /\ m_bRunning' = FALSE
    /\ stopper' = "notify"
    /\ UNCHANGED <<m_taskList, holder, pc, running, notifying, wanted, finished, lateStarts>>

StopNotify ==
    /\ stopper = "notify"
    /\ pc' = [w \in Workers |-> IF pc[w] = "wait" THEN "lock" ELSE pc[w]]
    /\ stopper' = "join"
    /\ UNCHANGED <<m_taskList, m_bRunning, holder, running, notifying, wanted, finished, lateStarts>>

\* join() of every thread.
StopJoin ==
    /\ stopper = "join"
    /\ \A w \in Workers : pc[w] = "exit"
    /\ stopper' = "done"
    /\ UNCHANGED <<m_taskList, m_bRunning, holder, pc, running, notifying, wanted, finished, lateStarts>>

-----------------------------------------------------------------------------
WorkerStep(w) == Lock(w) \/ Wait(w) \/ StartTask(w) \/ SkipTask(w) \/ FinishTask(w)

Next ==
    \/ \E w \in Workers : WorkerStep(w)
    \/ \E c \in Callers, x \in Tasks : AddTask(c, x)
    \/ \E c \in Callers : NotifyOne(c)
    \/ RemoveAllTasks \/ StopFlag \/ StopNotify \/ StopJoin

SafeSpec == Init /\ [][Next]_vars

\* Every thread that can run does; doIt() returns.  Nobody must call the pool.
Spec ==
    /\ SafeSpec
    /\ \A w \in Workers : WF_vars(WorkerStep(w))
    /\ \A c \in Callers : WF_vars(NotifyOne(c))
    /\ WF_vars(StopNotify \/ StopJoin)

-----------------------------------------------------------------------------
(* Properties *)

\* However many workers there are, tasks are run one after the other, in the
\* order in which they were added: those finished, then the one in progress,
\* then those in the list, are the tasks added and not removed.
SerialOrder ==
    /\ (\A w \in Workers : pc[w] # "run") => finished \o m_taskList = wanted
    /\ \A w \in Workers : pc[w] = "run" => Append(finished, running[w]) \o m_taskList = wanted

\* Once stop() has cleared m_bRunning, at most one more task begins: a worker
\* that had tested m_bRunning just before.
AtMostOneAfterStop == lateStarts <= 1

\* The inductive strengthening of the two: the mutex is held from the test of
\* the list to the end of doIt(), so that nobody empties the list in between,
\* and a late start is made by the worker that held it when stop() came.
MutexInv == \A w \in Workers : pc[w] \in {"empty", "take", "run"} <=> holder = w
ListInv == \A w \in Workers :
               /\ pc[w] = "take" => m_taskList # <<>>
               /\ pc[w] = "run" => running[w] \in Tasks
LateInv == (m_bRunning \/ \E w \in Workers : pc[w] = "take") => lateStarts = 0
IInv == TypeOK /\ MutexInv /\ ListInv /\ SerialOrder /\ LateInv /\ AtMostOneAfterStop

\* No notification is lost between addTask's unlock and a worker's wait: a
\* task that stays in the list is run, unless the pool is stopped.
TasksRun ==
    \A x \in Tasks : (x \in ToSet(m_taskList)) ~> (x \notin ToSet(wanted) \/ x \in ToSet(finished) \/ ~m_bRunning)

\* stop() clears m_bRunning and notifies without the mutex.  When no worker is
\* asleep or about to sleep as stop() comes to its joins, every thread sees the
\* flag, also behind a task that is running, and stop() returns.  (In the window
\* between a worker's test of the flag and its wait the notification is lost,
\* and stop() may wait for ever.)
StopReturns ==
    (stopper = "join" /\ \A w \in Workers : pc[w] \notin {"empty", "wait"}) ~> (stopper = "done")
==============================================================================
