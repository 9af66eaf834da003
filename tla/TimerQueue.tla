------------------------------ MODULE TimerQueue ------------------------------
(***************************************************************************)
(* net/TimerQueue.cpp and net/Timer.h: the timers of one event loop.       *)
(* doTimer() walks the set timers_, which is ordered by the expiration a   *)
(* timer had when it was inserted (and then by address), and stops at the  *)
(* first timer that is not due.  Timers are added, removed and cancelled   *)
(* in the loop thread, at once, or from another thread, through the        *)
(* loop's functor queue.                                                   *)
(*                                                                         *)
(* A timer is a number that stands for its address; as any unused one may  *)
(* be taken, addresses are in no relation to the order of creation.        *)
(***************************************************************************)
EXTENDS Integers, Sequences, FiniteSets

CONSTANTS Timers,     \* addresses of the timers ever created
          Kinds,      \* records [delay, interval, repeat, byRef]: what callers ask for
          MaxTime,    \* bound on the clock
          MaxPending  \* bound on the functors pending from other threads

ASSUME TimerAssumption ==
    /\ Timers \subseteq Nat /\ MaxTime \in Nat /\ MaxPending \in Nat
    /\ \A k \in Kinds : /\ k.delay \in Nat /\ k.interval \in Nat
                        /\ k.repeat \in {-1} \cup (Nat \ {0}) /\ k.byRef \in BOOLEAN

Nil == -1      \* no timer, or no time
NoKind == [delay |-> 0, interval |-> 0, repeat |-> -1, byRef |-> FALSE]

VARIABLES
    now,          \* the clock
    created,      \* timers that exist (they are never deleted while the loop lives)
    kind,         \* timer -> what its creator asked for
    key,          \* timer -> Entry::first: expiration when it was inserted
    expiration_, repeatCount_, canceled_,   \* timer -> members of Timer
    timers_,      \* the timers in the set
    pass,         \* doTimer: the value of its local now, or Nil outside of it
    iter,         \* doTimer: the timer its iterator is at, or Nil at the end
    inCallback,   \* callback_() of the timer at iter is running
    pending,      \* <<op, timer>> posted by other threads
    removed,      \* history: timers removeTimerInLoop took out
    runs,         \* history: timer -> times its callback was started
    late          \* history: timers that were due in a doTimer that did not reach them

timerVars == <<created, kind, key, expiration_, repeatCount_>>
passVars == <<pass, iter, inCallback>>
vars == <<now, timerVars, canceled_, timers_, passVars, pending, removed, runs, late>>

Ops == {"add", "remove", "cancel", "enable"}

TypeOK ==
    /\ now \in 0..MaxTime
    /\ created \in SUBSET Timers
    /\ kind \in [Timers -> Kinds \cup {NoKind}]
    /\ key \in [Timers -> Nat] /\ expiration_ \in [Timers -> Nat]
    /\ repeatCount_ \in [Timers -> Int]
    /\ canceled_ \in [Timers -> BOOLEAN]
    /\ timers_ \in SUBSET created
    /\ pass \in {Nil} \cup 0..MaxTime
    /\ iter \in timers_ \cup {Nil}
    /\ inCallback \in BOOLEAN
    /\ pending \in Seq(Ops \X Timers)
    /\ removed \in SUBSET created
    /\ runs \in [Timers -> Nat]
    /\ late \in SUBSET created

Init ==
    /\ now = 0
    /\ created = {}
    /\ kind = [t \in Timers |-> NoKind]
    /\ key = [t \in Timers |-> 0]
    /\ expiration_ = [t \in Timers |-> 0]
    /\ repeatCount_ = [t \in Timers |-> -1]
    /\ canceled_ = [t \in Timers |-> FALSE]
    /\ timers_ = {}
    /\ pass = Nil /\ iter = Nil /\ inCallback = FALSE
    /\ pending = <<>>
    /\ removed = {}
    /\ runs = [t \in Timers |-> 0]
    /\ late = {}

\* std::set<std::pair<Timestamp, Timer*>>: by key, then by address.
Before(s, t) == key[s] < key[t] \/ (key[s] = key[t] /\ s < t)
FirstOf(S) == IF S = {} THEN Nil ELSE CHOOSE t \in S : \A s \in S \ {t} : Before(t, s)
After(t) == FirstOf({s \in timers_ : Before(t, s)})

\* Timer::run: -1 stands for "repeat for ever".
Decremented(count) == IF count = -1 THEN -1 ELSE count - 1

-----------------------------------------------------------------------------
(* Mutants *)

\* Timer::run forgets to advance the expiration by the interval.
RunsEveryPass ==
    /\ inCallback
    /\ inCallback' = FALSE
    /\ iter' = After(iter)
    /\ UNCHANGED <<now, timerVars, canceled_, timers_, pass, pending, removed, runs, late>>

\* Timer::run: repeatCount_ tested before it is decremented.
OneRunTooMany ==
    /\ inCallback
    /\ LET count == Decremented(repeatCount_[iter])
       IN  /\ inCallback' = FALSE
           /\ repeatCount_' = [repeatCount_ EXCEPT ![iter] = count]
           /\ expiration_' = [expiration_ EXCEPT ![iter] = @ + kind[iter].interval]
           /\ timers_' = IF repeatCount_[iter] = 0 THEN timers_ \ {iter} ELSE timers_
           /\ iter' = After(iter)
           /\ UNCHANGED <<now, created, kind, key, canceled_, pass, pending, removed, runs, late>>

\* removeTimer only marks the timer.
RemoveOnlyMarks(op, t) ==
    /\ removed' = IF op = "remove" /\ t \in timers_ THEN removed \cup {t} ELSE removed
    /\ timers_' = IF op = "add" THEN timers_ \cup {t} ELSE timers_
    /\ canceled_' = IF op \in {"cancel", "enable"} /\ t \in timers_
                    THEN [canceled_ EXCEPT ![t] = (op = "cancel")] ELSE canceled_

\* doTimer ends a pass as soon as one timer has been looked at.
OneTimerPerPass ==
    /\ pass # Nil /\ ~inCallback
    /\ pass' = Nil /\ iter' = Nil
    /\ late' = IF iter = Nil THEN late
               ELSE late \cup {t \in timers_ : Before(iter, t) /\ ~canceled_[t] /\ expiration_[t] <= pass}
    /\ UNCHANGED <<now, timerVars, canceled_, timers_, inCallback, pending, removed, runs>>

-----------------------------------------------------------------------------
(* Operations on the set, in the loop thread *)

\* addTimerInLoop, removeTimerInLoop and cancelTimerInLoop; the last two look
\* the timer up and do nothing when it is not in the set.
Apply(op, t) ==
    /\ timers_' = CASE op = "add"    -> timers_ \cup {t}
                    [] op = "remove" -> timers_ \ {t}
                    [] OTHER         -> timers_
    /\ removed' = IF op = "remove" /\ t \in timers_ THEN removed \cup {t} ELSE removed
    /\ canceled_' = IF op \in {"cancel", "enable"} /\ t \in timers_
                    THEN [canceled_ EXCEPT ![t] = (op = "cancel")] ELSE canceled_

\* The loop thread may call the queue between two doTimer() and inside of a
\* callback; a callback that removes its own timer would invalidate the
\* iterator doTimer() is at, so callbacks are taken not to do it.
LoopMayCall(op, t) == pass = Nil \/ (inCallback /\ ~(op = "remove" /\ t = iter))

\* new Timer(...) in addTimer: the overload for const TimerCallback& does not
\* pass repeatCount on, and the constructor's default is -1.
Construct(t, k) ==
    /\ t \notin created
    /\ created' = created \cup {t}
    /\ kind' = [kind EXCEPT ![t] = k]
    /\ key' = [key EXCEPT ![t] = now + k.delay]
    /\ expiration_' = [expiration_ EXCEPT ![t] = now + k.delay]
    /\ repeatCount_' = [repeatCount_ EXCEPT ![t] = IF k.byRef THEN -1 ELSE k.repeat]

\* runAt, runAfter, runEvery in the loop thread.
AddTimer(t, k) ==
    /\ LoopMayCall("add", t)
    /\ Construct(t, k)
    /\ Apply("add", t)
    /\ UNCHANGED <<now, passVars, pending, runs, late>>

\* The same from another thread.
AddTimerElsewhere(t, k) ==
    /\ Len(pending) < MaxPending
    /\ Construct(t, k)
    /\ pending' = Append(pending, <<"add", t>>)
    /\ UNCHANGED <<now, canceled_, timers_, passVars, removed, runs, late>>

\* remove(timerId) and cancel(timerId, off) in the loop thread.
ChangeTimer(op, t) ==
    /\ LoopMayCall(op, t) /\ t \in created
    /\ Apply(op, t)
    /\ UNCHANGED <<now, timerVars, passVars, pending, runs, late>>

ChangeTimerElsewhere(op, t) ==
    /\ Len(pending) < MaxPending /\ t \in created
    /\ pending' = Append(pending, <<op, t>>)
    /\ UNCHANGED <<now, timerVars, canceled_, timers_, passVars, removed, runs, late>>

\* doPendingFunctors of the loop, which never runs inside of doTimer().
RunPending ==
    /\ pass = Nil /\ pending # <<>>
    /\ Apply(Head(pending)[1], Head(pending)[2])
    /\ pending' = Tail(pending)
    /\ UNCHANGED <<now, timerVars, passVars, runs, late>>

-----------------------------------------------------------------------------
(* doTimer *)

DoTimerBegin ==
    /\ pass = Nil
    /\ pass' = now
    /\ iter' = FirstOf(timers_)
    /\ UNCHANGED <<now, timerVars, canceled_, timers_, inCallback, pending, removed, runs, late>>

\* The timer at iter is due and Timer::run() starts its callback.
DoTimerRun ==
    /\ pass # Nil /\ ~inCallback /\ iter # Nil
    /\ expiration_[iter] <= pass
    /\ ~canceled_[iter]
    /\ inCallback' = TRUE
    /\ runs' = [runs EXCEPT ![iter] = @ + 1]
    /\ UNCHANGED <<now, timerVars, canceled_, timers_, pass, iter, pending, removed, late>>

\* Timer::run() returns at once from a cancelled timer, which keeps its place.
DoTimerSkip ==
    /\ pass # Nil /\ ~inCallback /\ iter # Nil
    /\ expiration_[iter] <= pass
    /\ canceled_[iter]
    /\ iter' = After(iter)
    /\ UNCHANGED <<now, timerVars, canceled_, timers_, pass, inCallback, pending, removed, runs, late>>

\* The rest of Timer::run(), and erase or ++iter.
DoTimerReturn ==
    /\ inCallback
    /\ LET count == Decremented(repeatCount_[iter])
       IN  /\ inCallback' = FALSE
           /\ repeatCount_' = [repeatCount_ EXCEPT ![iter] = count]
           /\ expiration_' = IF count = 0 THEN expiration_
                             ELSE [expiration_ EXCEPT ![iter] = @ + kind[iter].interval]
           /\ timers_' = IF count = 0 THEN timers_ \ {iter} ELSE timers_
           /\ iter' = After(iter)
           /\ UNCHANGED <<now, created, kind, key, canceled_, pass, pending, removed, runs, late>>

\* The end of the set, or the break at a timer that is not due.
DoTimerEnd ==
    /\ pass # Nil /\ ~inCallback
    /\ IF iter = Nil THEN TRUE ELSE expiration_[iter] > pass
    /\ pass' = Nil /\ iter' = Nil
    /\ late' = IF iter = Nil THEN late
               ELSE late \cup {t \in timers_ : Before(iter, t) /\ ~canceled_[t] /\ expiration_[t] <= pass}
    /\ UNCHANGED <<now, timerVars, canceled_, timers_, inCallback, pending, removed, runs>>

Tick ==
    /\ now < MaxTime
    /\ now' = now + 1
    /\ UNCHANGED <<timerVars, canceled_, timers_, passVars, pending, removed, runs, late>>

-----------------------------------------------------------------------------
Next ==
    \/ Tick \/ RunPending
    \/ DoTimerBegin \/ DoTimerRun \/ DoTimerSkip \/ DoTimerReturn \/ DoTimerEnd
    \/ \E t \in Timers, k \in Kinds : AddTimer(t, k) \/ AddTimerElsewhere(t, k)
    \/ \E t \in Timers, op \in Ops \ {"add"} : ChangeTimer(op, t) \/ ChangeTimerElsewhere(op, t)

Spec == Init /\ [][Next]_vars

-----------------------------------------------------------------------------
(* Properties *)

\* Timer::run advances expiration_ by the interval and never from the clock, so
\* a periodic timer does not drift: however late doTimer() comes, and however
\* often the timer is cancelled and re-enabled, its n-th run is not before its
\* first expiration plus n-1 intervals, and its next expiration is the first
\* one plus one interval per completed run.
NoDrift ==
    \A t \in created : repeatCount_[t] = -1 =>
       LET done == IF inCallback /\ iter = t THEN runs[t] - 1 ELSE runs[t]
       IN  /\ expiration_[t] = key[t] + done * kind[t].interval
           /\ runs[t] > 0 => key[t] + (runs[t] - 1) * kind[t].interval <= now

\* A timer created with a repeat count runs at most that often, and it is in
\* the set only while runs are left.
RepeatCountKept ==
    \A t \in created : repeatCount_[t] # -1 =>
       /\ runs[t] <= kind[t].repeat
       /\ t \in timers_ /\ ~(inCallback /\ iter = t) => runs[t] < kind[t].repeat

\* Once removeTimerInLoop has taken a timer out, its callback never starts
\* again, even when the removal was made by another timer's callback in the
\* middle of doTimer().
RemovedNeverRuns == [][\A t \in removed : runs'[t] = runs[t]]_vars

\* doTimer() stops at the first timer that is not due, relying on "Timer list
\* sorted by expiration" (TimerQueue.h).  A repeated timer keeps its place
\* after its expiration has moved, so a due timer may be passed over; but only
\* behind a timer that has run before, never through the ordering of the set.
PassedOverByRepeated ==
    [][\A t \in late' \ late : \E s \in timers_ : Before(s, t) /\ runs[s] > 0 /\ expiration_[s] > pass]_vars
==============================================================================
