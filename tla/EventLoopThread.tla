--------------------------- MODULE EventLoopThread ---------------------------
(***************************************************************************)
(* net/EventLoopThread.cpp: the owner (the thread that starts the pool)    *)
(* creates a thread, waits on a condition variable until that thread has   *)
(* published its loop, may then queue functors, and finally stops the loop *)
(* and joins the thread.  Composed with the loop itself, module EventLoop, *)
(* of which Owner is one of the foreign threads.                           *)
(*                                                                         *)
(* Loops of the pool are quit only through stopLoop or ~EventLoopThread,   *)
(* so callbacks running in the loop do not call quit() here.               *)
(***************************************************************************)
EXTENDS EventLoop

CONSTANT Owner
ASSUME OwnerAssumption == Owner \in Threads

VARIABLES loop_,   \* the member EventLoopThread::loop_: "NULL" or "loop"
          thr,     \* threadFunc: "none", "ctor", "callback", "published", "ended"
          opc      \* the owner's program counter

threadVars == <<loop_, thr, opc>>
allVars == <<vars, threadVars>>

ThreadTypeOK ==
    /\ TypeOK
    /\ loop_ \in {"NULL", "loop"}
    /\ thr \in {"none", "ctor", "callback", "published", "ended"}
    /\ opc \in {"idle", "check", "waiting", "return", "started", "startedNull",
                "quit", "join", "joined"}

ThreadInit ==
    /\ Init
    /\ loop_ = "NULL" /\ thr = "none" /\ opc = "idle"

-----------------------------------------------------------------------------
(* Mutants *)

\* threadFunc publishes the loop but forgets cond_.notify_all().
PublishSilently ==
    /\ thr = "callback" /\ ~inCallback
    /\ loop_' = "loop" /\ thr' = "published"
    /\ UNCHANGED <<vars, opc>>

-----------------------------------------------------------------------------
(* threadFunc *)

\* EventLoop loop; callback_(&loop) if there is one.
ThreadCallback ==
    /\ thr = "ctor"
    /\ thr' = "callback"
    /\ inCallback' \in BOOLEAN
    /\ UNCHANGED <<pc, quit_, callingPendingFunctors_, pendingFunctors_, functors, wakeupFd_,
                   activeChannels_, tpc, posted, executed, prompt, loop_, opc>>

\* loop_ = &loop and notify_all, under mutex_.
ThreadPublish ==
    /\ thr = "callback" /\ ~inCallback
    /\ loop_' = "loop" /\ thr' = "published"
    /\ opc' = IF opc = "waiting" THEN "check" ELSE opc
    /\ UNCHANGED vars

\* loop.loop(), and the calls its callbacks make.
ThreadLoop ==
    /\ \/ thr = "published" /\ LoopStep
       \/ thr = "callback" /\ CallbackReturns
       \/ \E f \in Functors : LoopQueueInLoop(f)
    /\ UNCHANGED threadVars

\* loop_ = NULL, without the mutex; the loop object dies with the frame.
ThreadEnd ==
    /\ pc = "exited" /\ thr = "published"
    /\ loop_' = "NULL" /\ thr' = "ended"
    /\ UNCHANGED <<vars, opc>>

-----------------------------------------------------------------------------
(* The owner *)

StartLoop ==
    /\ opc = "idle"
    /\ opc' = "check" /\ thr' = "ctor"
    /\ UNCHANGED <<vars, loop_>>

\* while (loop_ == NULL) cond_.wait(lock)
StartLoopWait ==
    /\ opc = "check"
    /\ opc' = IF loop_ = "NULL" THEN "waiting" ELSE "return"
    /\ UNCHANGED <<vars, loop_, thr>>

\* return loop_, read after the mutex is released.
StartLoopReturn ==
    /\ opc = "return"
    /\ opc' = IF loop_ = "NULL" THEN "startedNull" ELSE "started"
    /\ UNCHANGED <<vars, loop_, thr>>

\* The owner hands callbacks to the loop it was given.
OwnerQueues(f) ==
    /\ opc = "started" /\ QueueInLoop(Owner, f)
    /\ UNCHANGED threadVars

\* stopLoop and ~EventLoopThread: if (loop_ != NULL) loop_->quit().
StopLoop ==
    /\ opc = "started"
    /\ IF loop_ = "NULL" THEN opc' = "join" /\ UNCHANGED vars
                         ELSE Quit(Owner) /\ opc' = "quit"
    /\ UNCHANGED <<loop_, thr>>

\* The wakeup() that ends queueInLoop or quit.
OwnerWakeup ==
    /\ Wakeup(Owner)
    /\ opc' = IF opc = "quit" THEN "join" ELSE opc
    /\ UNCHANGED <<loop_, thr>>

Join ==
    /\ opc = "join" /\ thr = "ended"
    /\ opc' = "joined"
    /\ UNCHANGED <<vars, loop_, thr>>

-----------------------------------------------------------------------------
ThreadStep == ThreadCallback \/ ThreadPublish \/ ThreadLoop \/ ThreadEnd
OwnerStep == StartLoopWait \/ StartLoopReturn \/ OwnerWakeup \/ Join

ThreadNext == ThreadStep \/ OwnerStep \/ StartLoop \/ StopLoop \/ \E f \in Functors : OwnerQueues(f)

\* Both threads are scheduled; the owner is free to start or stop or not, and
\* to queue or not.
ThreadSpec ==
    /\ ThreadInit /\ [][ThreadNext]_allVars
    /\ WF_allVars(ThreadCallback \/ ThreadPublish \/ ThreadEnd)
    /\ WF_allVars(LoopStep /\ ThreadLoop)
    /\ WF_allVars(OwnerStep)

-----------------------------------------------------------------------------
(* Properties *)

\* startLoop returns, and returns a loop: whether threadFunc publishes and
\* notifies before or after the owner starts to wait.
StartLoopReturns == (opc = "check") ~> (opc = "started")

\* stopLoop joins and so relies on quit().  When quit() finds loop() entered,
\* stopLoop ends: the loop sees quit_, leaves loop(), threadFunc ends and the
\* join returns.  (A quit() that comes between the publication of loop_ and the
\* entry of loop() is overwritten by quit_ = false, the code's FIXME.)
StopReachesRunningLoop == (opc = "quit" /\ quit_ /\ pc # "created") ~> (opc = "joined")
==============================================================================
