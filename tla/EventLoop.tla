------------------------------ MODULE EventLoop ------------------------------
(***************************************************************************)
(* The reactor of WebSocketServer/net/EventLoop.cpp: one loop thread that  *)
(* repeats timers, poll, channel events, pending functors, frame functor;  *)
(* and other threads that hand callbacks to it (queueInLoop) or stop it    *)
(* (quit), waking it through an eventfd.                                   *)
(*                                                                         *)
(* The wakeup counter is abstracted to "readable or not": one read resets  *)
(* it, so nothing else about it matters.  While user code runs in the loop *)
(* thread (a timer, channel, pending or frame callback), inCallback holds  *)
(* and that code may itself call queueInLoop or quit.  runInLoop called in *)
(* the loop thread is a plain call and leaves this state alone; called     *)
(* from another thread it is queueInLoop.                                  *)
(***************************************************************************)
EXTENDS Naturals, Sequences, FiniteSets

CONSTANTS Threads,   \* threads other than the loop thread
          Functors   \* callbacks; each is handed to the loop at most once

VARIABLES
    pc,              \* where the loop thread is in loop()
    inCallback,      \* user code is running in the loop thread
    quit_,
    callingPendingFunctors_,
    pendingFunctors_,
    functors,        \* the local batch of doPendingFunctors
    wakeupFd_,       \* the eventfd counter is not zero
    activeChannels_, \* channels poll() reported and not yet handled
    tpc,             \* per thread: "idle", or "wakeup" = about to call wakeup()
    posted,          \* history: functors in the order they were queued
    executed,        \* history: functors in the order they were started
    prompt           \* history: functors whose queueInLoop owes a wakeup

loopVars == <<pc, inCallback, callingPendingFunctors_, functors, activeChannels_, executed>>
vars == <<pc, inCallback, quit_, callingPendingFunctors_, pendingFunctors_, functors,
          wakeupFd_, activeChannels_, tpc, posted, executed, prompt>>

\* The loop thread's phases, in the order loop() goes through them.
Phases == {"created", "while", "timers", "poll", "events", "swap", "functors", "frame", "exited"}

\* "wakeup" is the eventfd's channel, "io" stands for all the others.
Channels == {"wakeup", "io"}

TypeOK ==
    /\ pc \in Phases
    /\ inCallback \in BOOLEAN
    /\ quit_ \in BOOLEAN
    /\ callingPendingFunctors_ \in BOOLEAN
    /\ pendingFunctors_ \in Seq(Functors)
    /\ functors \in Seq(Functors)
    /\ wakeupFd_ \in BOOLEAN
    /\ activeChannels_ \in SUBSET Channels
    /\ tpc \in [Threads -> {"idle", "wakeup"}]
    /\ posted \in Seq(Functors)
    /\ executed \in Seq(Functors)
    /\ prompt \in SUBSET Functors

InQueue(f, queue) == \E i \in 1..Len(queue) : queue[i] = f

Init ==
    /\ pc = "created"
    /\ inCallback = FALSE
    /\ quit_ = FALSE
    /\ callingPendingFunctors_ = FALSE
    /\ pendingFunctors_ = <<>>
    /\ functors = <<>>
    /\ wakeupFd_ = FALSE
    /\ activeChannels_ = {}
    /\ tpc = [t \in Threads |-> "idle"]
    /\ posted = <<>>
    /\ executed = <<>>
    /\ prompt = {}

-----------------------------------------------------------------------------
(* Mutants: plausible slips in the code, each of which a property catches. *)

\* queueInLoop in the loop thread never wakes the loop.
NoSelfWakeup(f) ==
    /\ inCallback
    /\ ~InQueue(f, posted)
    /\ pendingFunctors_' = Append(pendingFunctors_, f)
    /\ posted' = Append(posted, f)
    /\ prompt' = IF pc = "functors" THEN prompt \cup {f} ELSE prompt
    /\ UNCHANGED <<pc, inCallback, quit_, callingPendingFunctors_, functors, wakeupFd_,
                   activeChannels_, tpc, executed>>

\* doPendingFunctors pushes the batch back to front.
ReversedBatch ==
    /\ pc = "swap"
    /\ callingPendingFunctors_' = TRUE
    /\ functors' = [i \in 1..Len(pendingFunctors_) |->
                       pendingFunctors_[Len(pendingFunctors_) + 1 - i]]
    /\ pendingFunctors_' = <<>>
    /\ pc' = "functors"
    /\ UNCHANGED <<inCallback, quit_, wakeupFd_, activeChannels_, tpc, posted, executed, prompt>>

\* The batch is copied, not swapped: pendingFunctors_ is never cleared.
BatchNotCleared ==
    /\ pc = "swap"
    /\ callingPendingFunctors_' = TRUE
    /\ functors' = pendingFunctors_
    /\ pc' = "functors"
    /\ UNCHANGED <<inCallback, quit_, pendingFunctors_, wakeupFd_, activeChannels_,
                   tpc, posted, executed, prompt>>

\* The loop condition is never tested again after entry.
LoopForever ==
    /\ pc = "while"
    /\ pc' = "timers" /\ inCallback' \in BOOLEAN
    /\ UNCHANGED <<quit_, callingPendingFunctors_, pendingFunctors_, functors,
                   wakeupFd_, activeChannels_, tpc, posted, executed, prompt>>

-----------------------------------------------------------------------------
(* The loop thread *)

\* Entry of loop(): whatever quit() stored before is forgotten.
LoopEnter ==
    /\ pc = "created"
    /\ quit_' = FALSE
    /\ pc' = "while"
    /\ UNCHANGED <<inCallback, callingPendingFunctors_, pendingFunctors_, functors,
                   wakeupFd_, activeChannels_, tpc, posted, executed, prompt>>

\* while (!quit_); doTimer() may or may not have a timer to run.
LoopTest ==
    /\ pc = "while"
    /\ IF quit_ THEN pc' = "exited" /\ inCallback' = FALSE
                ELSE pc' = "timers" /\ inCallback' \in BOOLEAN
    /\ UNCHANGED <<quit_, callingPendingFunctors_, pendingFunctors_, functors,
                   wakeupFd_, activeChannels_, tpc, posted, executed, prompt>>

TimersDone ==
    /\ pc = "timers" /\ ~inCallback
    /\ pc' = "poll"
    /\ UNCHANGED <<inCallback, quit_, callingPendingFunctors_, pendingFunctors_, functors,
                   wakeupFd_, activeChannels_, tpc, posted, executed, prompt>>

\* poll(kPollTimeMs): returns on a ready channel or after one millisecond.
Poll ==
    /\ pc = "poll"
    /\ \E io \in SUBSET {"io"} :
          activeChannels_' = io \cup (IF wakeupFd_ THEN {"wakeup"} ELSE {})
    /\ pc' = "events"
    /\ UNCHANGED <<inCallback, quit_, callingPendingFunctors_, pendingFunctors_, functors,
                   wakeupFd_, tpc, posted, executed, prompt>>

\* EventLoop::handleRead resets the counter; another channel runs user code.
HandleEvent(ch) ==
    /\ pc = "events" /\ ~inCallback
    /\ ch \in activeChannels_
    /\ activeChannels_' = activeChannels_ \ {ch}
    /\ IF ch = "wakeup" THEN wakeupFd_' = FALSE /\ UNCHANGED inCallback
                        ELSE inCallback' = TRUE /\ UNCHANGED wakeupFd_
    /\ UNCHANGED <<pc, quit_, callingPendingFunctors_, pendingFunctors_, functors,
                   tpc, posted, executed, prompt>>

EventsDone ==
    /\ pc = "events" /\ ~inCallback /\ activeChannels_ = {}
    /\ pc' = "swap"
    /\ UNCHANGED <<inCallback, quit_, callingPendingFunctors_, pendingFunctors_, functors,
                   wakeupFd_, activeChannels_, tpc, posted, executed, prompt>>

\* doPendingFunctors: the flag, then the swap under mutex_ (the flag is only
\* read in the loop thread, so the two are one step).
SwapFunctors ==
    /\ pc = "swap"
    /\ callingPendingFunctors_' = TRUE
    /\ functors' = pendingFunctors_
    /\ pendingFunctors_' = <<>>
    /\ pc' = "functors"
    /\ UNCHANGED <<inCallback, quit_, wakeupFd_, activeChannels_, tpc, posted, executed, prompt>>

RunFunctor ==
    /\ pc = "functors" /\ ~inCallback /\ functors # <<>>
    /\ executed' = Append(executed, Head(functors))
    /\ functors' = Tail(functors)
    /\ inCallback' = TRUE
    /\ UNCHANGED <<pc, quit_, callingPendingFunctors_, pendingFunctors_, wakeupFd_,
                   activeChannels_, tpc, posted, prompt>>

\* End of doPendingFunctors; frameFunctor_ may or may not be set.
FunctorsDone ==
    /\ pc = "functors" /\ ~inCallback /\ functors = <<>>
    /\ callingPendingFunctors_' = FALSE
    /\ pc' = "frame"
    /\ inCallback' \in BOOLEAN
    /\ UNCHANGED <<quit_, pendingFunctors_, functors, wakeupFd_, activeChannels_,
                   tpc, posted, executed, prompt>>

FrameDone ==
    /\ pc = "frame" /\ ~inCallback
    /\ pc' = "while"
    /\ UNCHANGED <<inCallback, quit_, callingPendingFunctors_, pendingFunctors_, functors,
                   wakeupFd_, activeChannels_, tpc, posted, executed, prompt>>

CallbackReturns ==
    /\ inCallback
    /\ inCallback' = FALSE
    /\ UNCHANGED <<pc, quit_, callingPendingFunctors_, pendingFunctors_, functors,
                   wakeupFd_, activeChannels_, tpc, posted, executed, prompt>>

\* queueInLoop called by user code in the loop thread: it wakes the loop only
\* while pending functors are being called.
LoopQueueInLoop(f) ==
    /\ inCallback
    /\ ~InQueue(f, posted)
    /\ pendingFunctors_' = Append(pendingFunctors_, f)
    /\ wakeupFd_' = (wakeupFd_ \/ callingPendingFunctors_)
    /\ posted' = Append(posted, f)
    /\ prompt' = IF pc = "functors" THEN prompt \cup {f} ELSE prompt
    /\ UNCHANGED <<pc, inCallback, quit_, callingPendingFunctors_, functors,
                   activeChannels_, tpc, executed>>

\* quit() in the loop thread needs no wakeup.
LoopQuit ==
    /\ inCallback
    /\ quit_' = TRUE
    /\ UNCHANGED <<pc, inCallback, callingPendingFunctors_, pendingFunctors_, functors,
                   wakeupFd_, activeChannels_, tpc, posted, executed, prompt>>

-----------------------------------------------------------------------------
(* The other threads *)

\* queueInLoop from another thread: the push under mutex_; wakeup() follows.
QueueInLoop(t, f) ==
    /\ tpc[t] = "idle"
    /\ ~InQueue(f, posted)
    /\ pendingFunctors_' = Append(pendingFunctors_, f)
    /\ tpc' = [tpc EXCEPT ![t] = "wakeup"]
    /\ posted' = Append(posted, f)
    /\ prompt' = prompt \cup {f}
    /\ UNCHANGED <<pc, inCallback, quit_, callingPendingFunctors_, functors, wakeupFd_,
                   activeChannels_, executed>>

Quit(t) ==
    /\ tpc[t] = "idle"
    /\ quit_' = TRUE
    /\ tpc' = [tpc EXCEPT ![t] = "wakeup"]
    /\ UNCHANGED <<loopVars, pendingFunctors_, wakeupFd_, posted, prompt>>

Wakeup(t) ==
    /\ tpc[t] = "wakeup"
    /\ wakeupFd_' = TRUE
    /\ tpc' = [tpc EXCEPT ![t] = "idle"]
    /\ UNCHANGED <<loopVars, quit_, pendingFunctors_, posted, prompt>>

-----------------------------------------------------------------------------
\* The steps of loop() itself, as opposed to those of the callbacks it runs.
LoopStep ==
    \/ LoopEnter \/ LoopTest \/ TimersDone \/ Poll
    \/ \E ch \in Channels : HandleEvent(ch)
    \/ EventsDone \/ SwapFunctors \/ RunFunctor \/ FunctorsDone \/ FrameDone
    \/ CallbackReturns

Next ==
    \/ LoopStep
    \/ LoopQuit
    \/ \E f \in Functors : LoopQueueInLoop(f)
    \/ \E t \in Threads : Quit(t) \/ Wakeup(t)
    \/ \E t \in Threads, f \in Functors : QueueInLoop(t, f)

SafeSpec == Init /\ [][Next]_vars

\* The loop thread is scheduled and its callbacks return; a thread inside
\* queueInLoop or quit finishes the call.  Nobody has to start one.
Spec == /\ SafeSpec
        /\ WF_vars(LoopStep)
        /\ \A t \in Threads : WF_vars(Wakeup(t))

-----------------------------------------------------------------------------
(* Properties *)

\* queueInLoop/doPendingFunctors lose, duplicate and reorder nothing: the
\* functors started so far, the rest of the batch being run and the pending
\* ones are together exactly the functors queued, in the order of the pushes
\* under mutex_, whichever threads pushed them.
ExecutionOrder == executed \o functors \o pendingFunctors_ = posted

\* When the loop enters poll() with a functor pending that another thread
\* queued, or that a pending functor queued, the eventfd is already readable
\* or the thread that queued one is just about to write it: poll() does not
\* sleep on such a functor, although handleRead may have drained the eventfd
\* while the functor was being pushed.
PromptWakeup ==
    (pc = "poll" /\ \E f \in prompt : InQueue(f, pendingFunctors_))
        => (wakeupFd_ \/ \E t \in Threads : tpc[t] = "wakeup")

\* The inductive strengthening of the two invariants above: the batch and the
\* flag callingPendingFunctors_ live exactly as long as doPendingFunctors, and
\* the eventfd may be drained early only in an iteration that has its swap
\* still ahead.
BatchInv == /\ callingPendingFunctors_ = (pc = "functors")
            /\ pc # "functors" => functors = <<>>
WakeupInv == (\E f \in prompt : InQueue(f, pendingFunctors_))
                => (wakeupFd_ \/ pc \in {"events", "swap"} \/ \E t \in Threads : tpc[t] = "wakeup")
PromptPosted == \A f \in prompt : InQueue(f, posted)
IInv == TypeOK /\ BatchInv /\ ExecutionOrder /\ WakeupInv /\ PromptPosted

\* Once loop() has been entered, a quit() from any thread or callback makes
\* it return.
QuitStopsLoop == (quit_ /\ pc # "created") ~> (pc = "exited")

\* The loop implements the promise of EventLoop.h, including that a functor
\* queued while the loop is not stopped runs eventually.
Promise == INSTANCE FunctorQueue WITH stopped <- (pc = "exited")
ImplementsQueue == Promise!Spec
==============================================================================
