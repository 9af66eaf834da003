--------------------------- MODULE TimerQueueProofs ---------------------------
(***************************************************************************)
(* Proofs, for every set of timers, every mix of intervals and repeat      *)
(* counts and every bound on the clock, that a periodic timer does not     *)
(* drift, that repeat counts and removals are kept, and that a due timer   *)
(* is passed over only behind one that has been repeated.                  *)
(***************************************************************************)
EXTENDS TimerQueue, SequenceTheorems, WellFoundedInduction, TLAPS

-----------------------------------------------------------------------------
(* Numbers *)

\* A nonempty set of numbers has a least one.
LEMMA LeastNumber ==
  ASSUME NEW T \in SUBSET Nat, T # {}
  PROVE  \E n \in T : \A m \in T : n <= m
<1> DEFINE Less == {ss \in Nat \X Nat : ss[1] < ss[2]}
<1>1. IsWellFoundedOn(Less, Nat)
  BY NatLessThanWellFounded DEF OpToRel
<1> HIDE DEF Less
<1>2. PICK x \in T : \A y \in T : ~(<<y, x>> \in Less)
  BY <1>1, WFMin
<1>3. ASSUME NEW y \in T PROVE x <= y
  <2>1. <<y, x>> \in Nat \X Nat /\ ~(<<y, x>> \in Less)
    BY <1>2
  <2>2. ~(y < x)
    BY <2>1 DEF Less
  <2> QED
    BY <2>2
<1> QED
  BY <1>3

-----------------------------------------------------------------------------
(* The inductive invariant *)

\* Completed runs of a timer: the run in progress is not counted.
Done(t) == IF inCallback /\ iter = t THEN runs[t] - 1 ELSE runs[t]

\* doTimer's locals: now was read from the clock, and while a callback runs
\* the iterator is at a timer that was due.
PassInv ==
    /\ pass = Nil => iter = Nil /\ ~inCallback
    /\ pass # Nil => pass <= now
    /\ inCallback => iter # Nil /\ runs[iter] > 0 /\ expiration_[iter] <= pass

\* A timer has no history before it is constructed, and a removed one is no
\* longer in the set.
CreationInv ==
    /\ \A t \in created : kind[t] \in Kinds
    /\ \A t \in Timers \ created : runs[t] = 0
    /\ removed \cap timers_ = {}

\* A timer waits at most once to be added, and until then it was neither in
\* the set nor removed from it, and has not run.
PendingInv ==
    \A i \in 1..Len(pending) :
       /\ pending[i][2] \in created
       /\ pending[i][1] = "add" =>
            /\ pending[i][2] \notin timers_ \cup removed
            /\ runs[pending[i][2]] = 0 /\ repeatCount_[pending[i][2]] # 0
            /\ \A j \in 1..Len(pending) : pending[j] = pending[i] => j = i

\* Expirations only move on, and only by running.
ScheduleInv ==
    \A t \in created : /\ key[t] <= expiration_[t]
                       /\ runs[t] = 0 => expiration_[t] = key[t]

\* The count of runs left and the completed runs make up the repeat count.
CountInv ==
    \A t \in created :
       /\ repeatCount_[t] # -1 => /\ repeatCount_[t] >= 0 /\ kind[t].repeat \in Nat
                                  /\ repeatCount_[t] + Done(t) = kind[t].repeat
       /\ t \in timers_ => repeatCount_[t] # 0

IInv == TypeOK /\ PassInv /\ CreationInv /\ PendingInv /\ ScheduleInv /\ CountInv /\ NoDrift

-----------------------------------------------------------------------------
(* The order of the set *)

\* Every nonempty part of the set has a first timer in the order of
\* std::set<std::pair<Timestamp, Timer*>>, and FirstOf is that timer.
LEMMA FirstOfSet ==
  ASSUME key \in [Timers -> Nat], NEW S \in SUBSET Timers
  PROVE  FirstOf(S) \in S \cup {Nil} /\ (FirstOf(S) # Nil => \A s \in S \ {FirstOf(S)} : Before(FirstOf(S), s))
<1>1. CASE S = {}
  BY <1>1 DEF FirstOf
<1>2. CASE S # {}
  <2>1. PICK k \in {key[s] : s \in S} : \A m \in {key[s] : s \in S} : k <= m
    <3>1. {key[s] : s \in S} \in SUBSET Nat /\ {key[s] : s \in S} # {}
      BY <1>2
    <3> QED
      BY <3>1, LeastNumber
  <2>2. PICK t \in {s \in S : key[s] = k} : \A u \in {s \in S : key[s] = k} : t <= u
    <3>1. {s \in S : key[s] = k} \in SUBSET Nat /\ {s \in S : key[s] = k} # {}
      BY <2>1, TimerAssumption
    <3> QED
      BY <3>1, LeastNumber
  <2>3. ASSUME NEW s \in S \ {t} PROVE Before(t, s)
    <3>1. key[t] = k /\ key[s] \in Nat /\ k \in Nat /\ k <= key[s] /\ t \in Nat /\ s \in Nat
      BY <2>1, <2>2, TimerAssumption
    <3>2. CASE key[s] = k
      BY <2>2, <2>3, <3>1, <3>2 DEF Before
    <3>3. CASE key[s] # k
      BY <3>1, <3>3 DEF Before
    <3> QED
      BY <3>2, <3>3
  <2>4. \E u \in S : \A s \in S \ {u} : Before(u, s)
    BY <2>2, <2>3
  <2>5. FirstOf(S) = CHOOSE u \in S : \A s \in S \ {u} : Before(u, s)
    BY <1>2 DEF FirstOf
  <2> HIDE DEF Before
  <2> QED
    BY <2>4, <2>5
<1> QED
  BY <1>1, <1>2

\* ++iter leads to another timer of the set or to its end.
LEMMA AfterInSet ==
  ASSUME TypeOK, iter # Nil
  PROVE  After(iter) \in (timers_ \ {iter}) \cup {Nil}
<1> DEFINE S == {s \in timers_ : Before(iter, s)}
<1>1. S \in SUBSET Timers
  BY DEF TypeOK
<1>2. FirstOf(S) \in S \cup {Nil}
  BY <1>1, FirstOfSet DEF TypeOK
<1>3. iter \in Nat /\ key[iter] \in Nat
  BY TimerAssumption DEF TypeOK
<1>4. ~Before(iter, iter)
  BY <1>3 DEF Before
<1> QED
  BY <1>2, <1>4 DEF After

-----------------------------------------------------------------------------
(* The invariant holds initially and is kept by every step *)

\* A TimerQueue is constructed empty.
LEMMA TimerInit == Init => IInv
<1> SUFFICES ASSUME Init PROVE IInv
  OBVIOUS
<1>1. TypeOK
  <2>1. <<>> \in Seq(Ops \X Timers)
    BY EmptySeq
  <2>2. canceled_ \in [Timers -> BOOLEAN]
    BY DEF Init
  <2>3. kind \in [Timers -> Kinds \cup {NoKind}]
    BY DEF Init
  <2>4. /\ key \in [Timers -> Nat] /\ expiration_ \in [Timers -> Nat]
        /\ repeatCount_ \in [Timers -> Int] /\ runs \in [Timers -> Nat]
    BY DEF Init
  <2>5. now \in 0..MaxTime
    BY TimerAssumption DEF Init
  <2>6. /\ created \in SUBSET Timers /\ timers_ \in SUBSET created
        /\ removed \in SUBSET created /\ late \in SUBSET created
    BY DEF Init
  <2> QED
    BY <2>1, <2>2, <2>3, <2>4, <2>5, <2>6 DEF Init, TypeOK
<1>2. PassInv /\ CreationInv /\ ScheduleInv /\ CountInv /\ NoDrift
  BY DEF Init, PassInv, CreationInv, ScheduleInv, CountInv, NoDrift
<1>3. PendingInv
  BY DEF Init, PendingInv
<1> QED
  BY <1>1, <1>2, <1>3 DEF IInv

\* What addTimerInLoop, removeTimerInLoop and cancelTimerInLoop do to the set
\* and to the history of removals.
LEMMA ApplyEffect ==
  ASSUME NEW op, NEW t, Apply(op, t)
  PROVE  /\ op = "add" => timers_' = timers_ \cup {t}
         /\ op = "remove" => timers_' = timers_ \ {t}
         /\ op \notin {"add", "remove"} => timers_' = timers_
         /\ op = "remove" /\ t \in timers_ => removed' = removed \cup {t}
         /\ ~(op = "remove" /\ t \in timers_) => removed' = removed
         /\ TypeOK => canceled_' \in [Timers -> BOOLEAN]
<1>1. op = "add" => timers_' = timers_ \cup {t}
  BY DEF Apply
<1>2. op = "remove" => timers_' = timers_ \ {t}
  BY DEF Apply
<1>3. op \notin {"add", "remove"} => timers_' = timers_
  <2> SUFFICES ASSUME op # "add", op # "remove" PROVE timers_' = timers_
    OBVIOUS
  <2> QED
    BY Zenon DEF Apply
<1>4. TypeOK => canceled_' \in [Timers -> BOOLEAN]
  BY DEF Apply, TypeOK
<1> QED
  BY <1>1, <1>2, <1>3, <1>4 DEF Apply

\* Construct writes only well-typed members.
LEMMA ConstructType ==
  ASSUME TypeOK, NEW t \in Timers, NEW k \in Kinds, Construct(t, k)
  PROVE  /\ created' \in SUBSET Timers /\ created \subseteq created'
         /\ kind' \in [Timers -> Kinds \cup {NoKind}]
         /\ key' \in [Timers -> Nat] /\ expiration_' \in [Timers -> Nat]
         /\ repeatCount_' \in [Timers -> Int]
<1>1. now + k.delay \in Nat /\ k.repeat \in Int
  BY TimerAssumption DEF TypeOK
<1> QED
  BY <1>1 DEF Construct, TypeOK

\* Every operation, functor and step of doTimer() keeps the types; that the
\* iterator stays in the set is the part that is not syntactic.
LEMMA TimerTypeStep == IInv /\ [Next]_vars => TypeOK'
<1> SUFFICES ASSUME IInv, [Next]_vars PROVE TypeOK'
  OBVIOUS
<1> USE DEF IInv
<1>1. CASE Tick
  BY <1>1, TimerAssumption DEF Tick, TypeOK, timerVars, passVars, PassInv
<1>2. CASE RunPending
  <2>1. /\ Head(pending) \in Ops \X Timers /\ Tail(pending) \in Seq(Ops \X Timers)
        /\ Head(pending)[2] \in created
    <3>1. Head(pending) = pending[1] /\ 1 \in 1..Len(pending)
      BY <1>2, EmptySeq, LenProperties DEF RunPending, TypeOK
    <3> QED
      BY <1>2, <3>1, HeadTailProperties DEF RunPending, TypeOK, PendingInv
  <2>2. timers_' \subseteq timers_ \cup {Head(pending)[2]} /\ removed' \subseteq removed \cup timers_ /\ canceled_' \in [Timers -> BOOLEAN]
    BY <1>2, ApplyEffect DEF RunPending
  <2> QED
    BY <1>2, <2>1, <2>2 DEF RunPending, TypeOK, timerVars, passVars, PassInv
<1>3. CASE DoTimerBegin
  <2>1. FirstOf(timers_) \in timers_ \cup {Nil}
    BY FirstOfSet DEF TypeOK
  <2> QED
    BY <1>3, <2>1 DEF DoTimerBegin, TypeOK, timerVars
<1>4. CASE DoTimerRun
  BY <1>4 DEF DoTimerRun, TypeOK, timerVars
<1>5. CASE DoTimerSkip
  <2>1. After(iter) \in timers_ \cup {Nil}
    BY <1>5, AfterInSet DEF DoTimerSkip
  <2> QED
    BY <1>5, <2>1 DEF DoTimerSkip, TypeOK, timerVars
<1>6. CASE DoTimerReturn
  <2>1. iter \in timers_ /\ iter \in created /\ iter \in Timers
    BY <1>6 DEF DoTimerReturn, PassInv, TypeOK
  <2>2. After(iter) \in (timers_ \ {iter}) \cup {Nil}
    BY <1>6, AfterInSet DEF DoTimerReturn, PassInv
  <2>3. Decremented(repeatCount_[iter]) \in Int
    BY <2>1 DEF Decremented, TypeOK
  <2>4. expiration_[iter] + kind[iter].interval \in Nat
    BY <2>1, TimerAssumption DEF TypeOK, CreationInv
  <2> QED
    BY <1>6, <2>1, <2>2, <2>3, <2>4 DEF DoTimerReturn, TypeOK
<1>7. CASE DoTimerEnd
  BY <1>7 DEF DoTimerEnd, TypeOK, timerVars
<1>8. ASSUME NEW t \in Timers, NEW k \in Kinds, AddTimer(t, k) PROVE TypeOK'
  <2>1. Construct(t, k) /\ t \in created'
    BY <1>8 DEF AddTimer, Construct
  <2>2. timers_' = timers_ \cup {t} /\ removed' = removed /\ canceled_' \in [Timers -> BOOLEAN]
    BY <1>8, ApplyEffect DEF AddTimer
  <2> QED
    BY <1>8, <2>1, <2>2, ConstructType DEF AddTimer, TypeOK, passVars
<1>9. ASSUME NEW t \in Timers, NEW k \in Kinds, AddTimerElsewhere(t, k) PROVE TypeOK'
  <2>1. Construct(t, k)
    BY <1>9 DEF AddTimerElsewhere
  <2>2. Append(pending, <<"add", t>>) \in Seq(Ops \X Timers)
    BY AppendProperties DEF TypeOK, Ops
  <2> QED
    BY <1>9, <2>1, <2>2, ConstructType DEF AddTimerElsewhere, TypeOK, passVars
<1>10. ASSUME NEW t \in Timers, NEW op \in Ops \ {"add"}, ChangeTimer(op, t) PROVE TypeOK'
  <2>1. /\ timers_ \ {t} \subseteq timers_' /\ timers_' \subseteq timers_ /\ (op # "remove" => timers_' = timers_)
        /\ removed' \subseteq removed \cup timers_ /\ canceled_' \in [Timers -> BOOLEAN]
    BY <1>10, ApplyEffect DEF ChangeTimer
  <2> QED
    BY <1>10, <2>1 DEF ChangeTimer, LoopMayCall, TypeOK, timerVars, passVars, PassInv
<1>11. ASSUME NEW t \in Timers, NEW op \in Ops \ {"add"}, ChangeTimerElsewhere(op, t) PROVE TypeOK'
  <2>1. Append(pending, <<op, t>>) \in Seq(Ops \X Timers)
    BY AppendProperties DEF TypeOK
  <2> QED
    BY <1>11, <2>1 DEF ChangeTimerElsewhere, TypeOK, timerVars, passVars
<1>12. CASE UNCHANGED vars
  BY <1>12 DEF vars, TypeOK, timerVars, passVars
<1> QED
  BY <1>1, <1>2, <1>3, <1>4, <1>5, <1>6, <1>7, <1>8, <1>9, <1>10, <1>11, <1>12 DEF Next

\* doTimer's locals stay consistent with the clock and the timers.
LEMMA PassStep == IInv /\ [Next]_vars => PassInv'
<1> SUFFICES ASSUME IInv, [Next]_vars PROVE PassInv'
  OBVIOUS
<1> USE DEF IInv, PassInv
<1>1. CASE Tick
  BY <1>1, TimerAssumption DEF Tick, TypeOK, Nil, timerVars, passVars
<1>2. CASE DoTimerBegin
  <2>1. pass' = now /\ now' = now /\ inCallback' = FALSE /\ now \in Nat
    BY <1>2, TimerAssumption DEF DoTimerBegin, TypeOK
  <2> QED
    BY <2>1 DEF Nil
<1>3. CASE DoTimerRun
  BY <1>3 DEF DoTimerRun, TypeOK, timerVars
<1>4. CASE DoTimerSkip
  BY <1>4 DEF DoTimerSkip
<1>5. CASE DoTimerReturn
  BY <1>5 DEF DoTimerReturn
<1>6. CASE DoTimerEnd
  BY <1>6 DEF DoTimerEnd
<1>7. ASSUME NEW t \in Timers, NEW k \in Kinds, AddTimer(t, k) \/ AddTimerElsewhere(t, k) PROVE PassInv'
  <2>1. UNCHANGED <<pass, iter, inCallback, runs, now>> /\ t \notin created
    BY <1>7 DEF AddTimer, AddTimerElsewhere, passVars, Construct
  <2>2. inCallback => iter \in created /\ iter # t
    BY <2>1 DEF TypeOK
  <2>3. inCallback => expiration_'[iter] = expiration_[iter]
    BY <1>7, <2>2 DEF AddTimer, AddTimerElsewhere, Construct, TypeOK
  <2> QED
    BY <2>1, <2>3
<1>8. CASE UNCHANGED <<pass, iter, inCallback, runs, now, expiration_>>
  BY <1>8
<1> QED
  BY <1>1, <1>2, <1>3, <1>4, <1>5, <1>6, <1>7, <1>8
     DEF Next, vars, timerVars, passVars, RunPending, ChangeTimer, ChangeTimerElsewhere

\* The head of the functor queue is one of the posted operations.
LEMMA PendingHead ==
  ASSUME IInv, pending # <<>>
  PROVE  /\ Head(pending) = pending[1] /\ 1 \in 1..Len(pending)
         /\ Head(pending) \in Ops \X Timers
         /\ Tail(pending) \in Seq(Ops \X Timers) /\ Len(Tail(pending)) = Len(pending) - 1
         /\ \A i \in 1..Len(Tail(pending)) : Tail(pending)[i] = pending[i + 1] /\ i + 1 \in 1..Len(pending)
<1>1. Len(pending) \in Nat /\ Len(pending) # 0 /\ Head(pending) = pending[1]
  BY EmptySeq, LenProperties DEF IInv, TypeOK
<1>2. /\ Head(pending) \in Ops \X Timers
      /\ Tail(pending) \in Seq(Ops \X Timers) /\ Len(Tail(pending)) = Len(pending) - 1
      /\ \A i \in 1..Len(Tail(pending)) : Tail(pending)[i] = pending[i + 1]
  BY HeadTailProperties DEF IInv, TypeOK
<1> QED
  BY <1>1, <1>2

\* A constructed timer has no history, and a removed one is out of the set.
LEMMA CreationStep == IInv /\ [Next]_vars => CreationInv'
<1> SUFFICES ASSUME IInv, [Next]_vars PROVE CreationInv'
  OBVIOUS
<1> USE DEF IInv, CreationInv
<1>1. CASE RunPending
  <2>1. Head(pending)[1] = "add" => Head(pending)[2] \notin removed
    BY <1>1, PendingHead DEF RunPending, PendingInv
  <2>2. removed' \cap timers_' = {}
    BY <1>1, <2>1, ApplyEffect DEF RunPending
  <2> QED
    BY <1>1, <2>2 DEF RunPending, timerVars
<1>2. CASE DoTimerRun
  BY <1>2 DEF DoTimerRun, TypeOK, timerVars
<1>3. CASE DoTimerReturn
  BY <1>3 DEF DoTimerReturn
<1>4. ASSUME NEW t \in Timers, NEW k \in Kinds, AddTimer(t, k) PROVE CreationInv'
  <2>1. removed' = removed /\ timers_' = timers_ \cup {t}
    BY <1>4, ApplyEffect DEF AddTimer
  <2>2. removed' \cap timers_' = {}
    BY <1>4, <2>1 DEF AddTimer, Construct, TypeOK
  <2> QED
    BY <1>4, <2>2 DEF AddTimer, Construct, TypeOK
<1>5. ASSUME NEW t \in Timers, NEW k \in Kinds, AddTimerElsewhere(t, k) PROVE CreationInv'
  BY <1>5 DEF AddTimerElsewhere, Construct, TypeOK
<1>6. ASSUME NEW t \in Timers, NEW op \in Ops \ {"add"}, ChangeTimer(op, t) PROVE CreationInv'
  <2>1. removed' \cap timers_' = {}
    BY <1>6, ApplyEffect DEF ChangeTimer
  <2> QED
    BY <1>6, <2>1 DEF ChangeTimer, timerVars
<1>7. CASE UNCHANGED <<created, kind, runs, removed, timers_>>
  BY <1>7
<1> QED
  BY <1>1, <1>2, <1>3, <1>4, <1>5, <1>6, <1>7
     DEF Next, vars, timerVars, Tick, DoTimerBegin, DoTimerSkip, DoTimerEnd, ChangeTimerElsewhere

\* Expirations only move on, and only by running.
LEMMA ScheduleStep == IInv /\ [Next]_vars => ScheduleInv'
<1> SUFFICES ASSUME IInv, [Next]_vars PROVE ScheduleInv'
  OBVIOUS
<1> USE DEF IInv, ScheduleInv
<1>1. CASE DoTimerRun
  BY <1>1 DEF DoTimerRun, TypeOK, timerVars
<1>2. CASE DoTimerReturn
  <2>1. iter \in created /\ runs[iter] > 0 /\ created' = created /\ key' = key /\ runs' = runs
    BY <1>2 DEF DoTimerReturn, PassInv, TypeOK
  <2>2. kind[iter].interval \in Nat
    BY <2>1, TimerAssumption DEF CreationInv
  <2>3. \A t \in created \ {iter} : expiration_'[t] = expiration_[t]
    BY <1>2 DEF DoTimerReturn, TypeOK
  <2>4. expiration_'[iter] \in {expiration_[iter], expiration_[iter] + kind[iter].interval}
    BY <1>2, <2>1 DEF DoTimerReturn, TypeOK
  <2>5. key[iter] <= expiration_'[iter]
    BY <2>1, <2>2, <2>4 DEF TypeOK
  <2> QED
    BY <2>1, <2>3, <2>5
<1>3. ASSUME NEW t \in Timers, NEW k \in Kinds, AddTimer(t, k) \/ AddTimerElsewhere(t, k) PROVE ScheduleInv'
  <2>1. Construct(t, k) /\ runs' = runs /\ now + k.delay \in Nat
    BY <1>3, TimerAssumption DEF AddTimer, AddTimerElsewhere, TypeOK
  <2> QED
    BY <2>1 DEF Construct, TypeOK
<1>4. CASE UNCHANGED <<created, key, expiration_, runs>>
  BY <1>4
<1> QED
  BY <1>1, <1>2, <1>3, <1>4
     DEF Next, vars, timerVars, Tick, RunPending, DoTimerBegin, DoTimerSkip, DoTimerEnd,
         ChangeTimer, ChangeTimerElsewhere

\* A timer is added at most once: its functor leaves the queue as it enters
\* the set, and no operation posts a second one.
LEMMA PendingStep == IInv /\ [Next]_vars => PendingInv'
<1> SUFFICES ASSUME IInv, [Next]_vars PROVE PendingInv'
  OBVIOUS
<1> USE DEF IInv
<1>1. CASE RunPending
  <2>1. /\ pending' = Tail(pending) /\ Apply(Head(pending)[1], Head(pending)[2])
        /\ UNCHANGED <<created, runs, repeatCount_>> /\ pending # <<>>
    BY <1>1 DEF RunPending, timerVars
  <2> SUFFICES ASSUME NEW i \in 1..Len(Tail(pending))
               PROVE  /\ Tail(pending)[i][2] \in created
                      /\ Tail(pending)[i][1] = "add" =>
                           /\ Tail(pending)[i][2] \notin timers_' \cup removed'
                           /\ runs[Tail(pending)[i][2]] = 0 /\ repeatCount_[Tail(pending)[i][2]] # 0
                           /\ \A j \in 1..Len(Tail(pending)) : Tail(pending)[j] = Tail(pending)[i] => j = i
    BY <2>1 DEF PendingInv
  <2>2. Tail(pending)[i] = pending[i + 1] /\ i + 1 \in 1..Len(pending)
    BY <2>1, PendingHead
  <2>3. \A j \in 1..Len(Tail(pending)) : Tail(pending)[j] = pending[j + 1] /\ j + 1 \in 1..Len(pending)
    BY <2>1, PendingHead
  <2>4. /\ pending[i + 1][2] \in created
        /\ pending[i + 1][1] = "add" =>
             /\ pending[i + 1][2] \notin timers_ \cup removed
             /\ runs[pending[i + 1][2]] = 0 /\ repeatCount_[pending[i + 1][2]] # 0
             /\ \A j \in 1..Len(pending) : pending[j] = pending[i + 1] => j = i + 1
    BY <2>2 DEF PendingInv
  <2>5. ASSUME pending[i + 1][1] = "add" PROVE pending[i + 1][2] \notin timers_' \cup removed'
    <3>1. pending[1] # pending[i + 1]
      BY <2>1, <2>2, <2>4, <2>5, PendingHead
    <3>2. pending[1] \in Ops \X Timers /\ pending[i + 1] \in Ops \X Timers
      BY <2>2, <2>1, PendingHead, ElementOfSeq DEF TypeOK
    <3>3. ~(pending[1][1] = "add" /\ pending[1][2] = pending[i + 1][2])
      BY <3>1, <3>2, <2>5
    <3>4. timers_' \subseteq timers_ \cup {pending[1][2]} /\ (pending[1][1] # "add" => timers_' \subseteq timers_) /\ removed' \subseteq removed \cup timers_
      BY <2>1, PendingHead, ApplyEffect
    <3> QED
      BY <2>4, <2>5, <3>3, <3>4
  <2>6. ASSUME pending[i + 1][1] = "add", NEW j \in 1..Len(Tail(pending)), Tail(pending)[j] = Tail(pending)[i]
        PROVE  j = i
    <3>1. pending[j + 1] = pending[i + 1] /\ j + 1 \in 1..Len(pending)
      BY <2>2, <2>3, <2>6
    <3>2. j + 1 = i + 1
      BY <2>4, <2>6, <3>1
    <3> QED
      BY <3>2
  <2> QED
    BY <2>2, <2>4, <2>5, <2>6
<1>2. ASSUME NEW t \in Timers, NEW op \in Ops, pending' = Append(pending, <<op, t>>), t \in created',
             op = "add" => t \notin created /\ repeatCount_'[t] # 0,
             \A u \in created : repeatCount_'[u] = repeatCount_[u],
             created \subseteq created', UNCHANGED <<timers_, removed, runs>>
      PROVE  PendingInv'
  <2>1. /\ Len(pending) \in Nat /\ Len(pending') = Len(pending) + 1
        /\ \A i \in 1..Len(pending) : pending'[i] = pending[i]
        /\ pending'[Len(pending) + 1] = <<op, t>>
    BY <1>2, AppendProperties, LenProperties DEF TypeOK
  <2>2. \A i \in 1..Len(pending) : pending[i] # <<op, t>> \/ op # "add"
    BY <1>2 DEF PendingInv
  <2>3. op = "add" => runs[t] = 0 /\ t \notin timers_ \cup removed
    BY <1>2 DEF CreationInv, TypeOK
  <2> SUFFICES ASSUME NEW i \in 1..Len(pending')
               PROVE  /\ pending'[i][2] \in created'
                      /\ pending'[i][1] = "add" =>
                           /\ pending'[i][2] \notin timers_ \cup removed
                           /\ runs[pending'[i][2]] = 0 /\ repeatCount_'[pending'[i][2]] # 0
                           /\ \A j \in 1..Len(pending') : pending'[j] = pending'[i] => j = i
    BY <1>2 DEF PendingInv
  <2>4. CASE i = Len(pending) + 1
    <3>1. pending'[i] = <<op, t>>
      BY <2>1, <2>4
    <3>2. op = "add" => \A j \in 1..Len(pending') : pending'[j] = <<op, t>> => j = i
      BY <2>1, <2>2, <2>4
    <3> QED
      BY <1>2, <2>3, <3>1, <3>2
  <2>5. CASE i # Len(pending) + 1
    <3>1. i \in 1..Len(pending) /\ pending'[i] = pending[i]
      BY <2>1, <2>5
    <3>2. /\ pending[i][2] \in created
          /\ pending[i][1] = "add" =>
             /\ pending[i][2] \notin timers_ \cup removed
             /\ runs[pending[i][2]] = 0 /\ repeatCount_[pending[i][2]] # 0
             /\ \A j \in 1..Len(pending) : pending[j] = pending[i] => j = i
      BY <3>1 DEF PendingInv
    <3>3. pending[i] \in Ops \X Timers
      BY <3>1, ElementOfSeq DEF TypeOK
    <3>4. ASSUME pending[i][1] = "add", NEW j \in 1..Len(pending'), pending'[j] = pending[i] PROVE j = i
      <4>1. CASE j = Len(pending) + 1
        BY <2>1, <2>2, <3>1, <3>4, <4>1
      <4>2. CASE j # Len(pending) + 1
        BY <2>1, <3>2, <3>4, <4>2
      <4> QED
        BY <4>1, <4>2
    <3> QED
      BY <1>2, <3>1, <3>2, <3>4
  <2> QED
    BY <2>4, <2>5
<1>3. ASSUME UNCHANGED pending, created \subseteq created',
             \A t \in created \ timers_ : runs'[t] = runs[t] /\ repeatCount_'[t] = repeatCount_[t],
             \A t \in created : t \in timers_' \cup removed' => t \in timers_ \cup removed
      PROVE  PendingInv'
  BY <1>3 DEF PendingInv
<1>4. CASE DoTimerRun
  BY <1>3, <1>4 DEF DoTimerRun, TypeOK, timerVars
<1>5. CASE DoTimerReturn
  <2>1. iter \in timers_
    BY <1>5 DEF DoTimerReturn, PassInv, TypeOK
  <2> QED
    BY <1>3, <1>5, <2>1 DEF DoTimerReturn, TypeOK
<1>6. ASSUME NEW t \in Timers, NEW k \in Kinds, AddTimer(t, k) PROVE PendingInv'
  <2>1. removed' = removed /\ timers_' = timers_ \cup {t}
    BY <1>6, ApplyEffect DEF AddTimer
  <2> QED
    BY <1>3, <1>6, <2>1 DEF AddTimer, Construct, TypeOK
<1>7. ASSUME NEW t \in Timers, NEW k \in Kinds, AddTimerElsewhere(t, k) PROVE PendingInv'
  <2>1. k.repeat # 0
    BY TimerAssumption
  <2>2. repeatCount_'[t] # 0
    BY <1>7, <2>1 DEF AddTimerElsewhere, Construct, TypeOK
  <2> QED
    BY <1>2, <1>7, <2>2 DEF AddTimerElsewhere, Construct, TypeOK, Ops
<1>8. ASSUME NEW t \in Timers, NEW op \in Ops \ {"add"}, ChangeTimer(op, t) PROVE PendingInv'
  <2>1. \A u \in created : u \in timers_' \cup removed' => u \in timers_ \cup removed
    BY <1>8, ApplyEffect DEF ChangeTimer
  <2> QED
    BY <1>3, <1>8, <2>1 DEF ChangeTimer, timerVars
<1>9. ASSUME NEW t \in Timers, NEW op \in Ops \ {"add"}, ChangeTimerElsewhere(op, t) PROVE PendingInv'
  BY <1>2, <1>9 DEF ChangeTimerElsewhere, timerVars
<1>10. CASE UNCHANGED <<pending, created, timers_, removed, runs, repeatCount_>>
  BY <1>3, <1>10
<1> QED
  BY <1>1, <1>4, <1>5, <1>6, <1>7, <1>8, <1>9, <1>10
     DEF Next, vars, timerVars, Tick, DoTimerBegin, DoTimerSkip, DoTimerEnd

\* The repeat count and the completed runs move together in Timer::run().
LEMMA CountStep == IInv /\ [Next]_vars => CountInv'
<1> SUFFICES ASSUME IInv, [Next]_vars PROVE CountInv'
  OBVIOUS
<1> USE DEF IInv
<1>1. CASE RunPending
  <2>1. Head(pending)[1] = "add" => Head(pending)[2] \in created /\ repeatCount_[Head(pending)[2]] # 0
    BY <1>1, PendingHead DEF RunPending, PendingInv
  <2>2. \A t \in timers_' : t \in timers_ \/ repeatCount_[t] # 0
    BY <1>1, <2>1, ApplyEffect DEF RunPending
  <2>3. UNCHANGED <<created, kind, repeatCount_, runs, inCallback, iter>>
    BY <1>1 DEF RunPending, timerVars, passVars
  <2> QED
    BY <2>2, <2>3 DEF CountInv, Done
<1>2. CASE DoTimerBegin
  BY <1>2 DEF DoTimerBegin, PassInv, CountInv, Done, timerVars
<1>3. CASE DoTimerRun
  <2>1. \A t \in created : Done(t)' = Done(t)
    BY <1>3 DEF DoTimerRun, Done, TypeOK
  <2> QED
    BY <1>3, <2>1 DEF DoTimerRun, CountInv, timerVars
<1>4. CASE DoTimerSkip
  BY <1>4 DEF DoTimerSkip, CountInv, Done, timerVars
<1>5. CASE DoTimerReturn
  <2>1. iter \in timers_ /\ iter \in created /\ iter \in Timers /\ inCallback
    BY <1>5 DEF DoTimerReturn, PassInv, TypeOK
  <2> PICK c \in timers_ : c = iter
    BY <2>1
  <2>2. Done(c)' = Done(c) + 1
    BY <1>5, <2>1 DEF DoTimerReturn, Done, TypeOK
  <2>3. \A t \in created \ {c} : Done(t)' = Done(t) /\ repeatCount_'[t] = repeatCount_[t]
    BY <1>5 DEF DoTimerReturn, Done, TypeOK
  <2>4. repeatCount_'[c] = Decremented(repeatCount_[c]) /\ repeatCount_[c] # 0
    BY <1>5, <2>1 DEF DoTimerReturn, CountInv, TypeOK
  <2>5. c \in timers_' => repeatCount_'[c] # 0
    BY <1>5, <2>4 DEF DoTimerReturn
  <2>6. repeatCount_'[c] # -1 => /\ repeatCount_'[c] >= 0 /\ kind[c].repeat \in Nat
                                    /\ repeatCount_'[c] + Done(c)' = kind[c].repeat
    <3>1. CASE repeatCount_[c] = -1
      BY <2>4, <3>1 DEF Decremented
    <3>2. CASE repeatCount_[c] # -1
      <4>1. /\ repeatCount_[c] \in Nat \ {0} /\ repeatCount_'[c] = repeatCount_[c] - 1
            /\ repeatCount_[c] + Done(c) = kind[c].repeat /\ kind[c].repeat \in Nat
        BY <2>1, <2>4, <3>2 DEF Decremented, CountInv, TypeOK
      <4>2. Done(c) \in Int
        BY <2>1 DEF Done, TypeOK
      <4> QED
        BY <2>2, <4>1, <4>2
    <3> QED
      BY <3>1, <3>2
  <2>7. created' = created /\ kind' = kind /\ timers_' \subseteq timers_
    BY <1>5 DEF DoTimerReturn
  <2> QED
    BY <2>1, <2>3, <2>5, <2>6, <2>7 DEF CountInv
<1>6. CASE DoTimerEnd
  BY <1>6 DEF DoTimerEnd, CountInv, Done, timerVars
<1>7. ASSUME NEW t \in Timers, NEW k \in Kinds, AddTimer(t, k) \/ AddTimerElsewhere(t, k) PROVE CountInv'
  <2>1. Construct(t, k) /\ UNCHANGED <<runs, inCallback, iter>> /\ timers_' \subseteq timers_ \cup {t}
    BY <1>7, ApplyEffect DEF AddTimer, AddTimerElsewhere, passVars
  <2>2. \A u \in created : Done(u)' = Done(u) /\ repeatCount_'[u] = repeatCount_[u] /\ kind'[u] = kind[u] /\ u # t
    BY <2>1 DEF Construct, Done, TypeOK
  <2>3. ~(inCallback /\ iter = t) /\ runs[t] = 0
    BY <2>1 DEF Construct, TypeOK, PassInv, CreationInv
  <2>4. Done(t)' = 0
    BY <2>1, <2>3 DEF Done
  <2>5. kind'[t] = k /\ repeatCount_'[t] = IF k.byRef THEN -1 ELSE k.repeat
    BY <2>1 DEF Construct, TypeOK
  <2>6. /\ repeatCount_'[t] # 0
        /\ repeatCount_'[t] # -1 => repeatCount_'[t] \in Nat /\ kind'[t].repeat = repeatCount_'[t]
    BY <2>5, TimerAssumption
  <2> QED
    BY <2>1, <2>2, <2>4, <2>6 DEF CountInv, Construct
<1>8. ASSUME NEW t \in Timers, NEW op \in Ops \ {"add"}, ChangeTimer(op, t) PROVE CountInv'
  <2>1. timers_' \subseteq timers_
    BY <1>8, ApplyEffect DEF ChangeTimer
  <2> QED
    BY <1>8, <2>1 DEF ChangeTimer, CountInv, Done, timerVars, passVars
<1>9. CASE UNCHANGED <<created, kind, repeatCount_, runs, inCallback, iter, timers_>>
  BY <1>9 DEF CountInv, Done
<1> QED
  BY <1>1, <1>2, <1>3, <1>4, <1>5, <1>6, <1>7, <1>8, <1>9
     DEF Next, vars, timerVars, passVars, Tick, ChangeTimerElsewhere

\* Timer::run() moves the expiration by exactly one interval per run.
LEMMA DriftStep == IInv /\ [Next]_vars => NoDrift'
<1> SUFFICES ASSUME IInv, [Next]_vars PROVE NoDrift'
  OBVIOUS
<1> USE DEF IInv
<1> DEFINE Due(t) == /\ expiration_[t] = key[t] + Done(t) * kind[t].interval
                     /\ runs[t] > 0 => key[t] + (runs[t] - 1) * kind[t].interval <= now
<1>1. /\ \A t \in created : repeatCount_[t] = -1 => Due(t)
      /\ (\A t \in created' : repeatCount_'[t] = -1 => Due(t)') => NoDrift'
  BY DEF NoDrift, Done
<1>3. CASE Tick
  <2>1. \A t \in created : Done(t)' = Done(t)
    BY <1>3 DEF Tick, Done, passVars
  <2>2. UNCHANGED <<created, kind, key, expiration_, repeatCount_, runs>> /\ now' = now + 1 /\ now \in Nat
    BY <1>3, TimerAssumption DEF Tick, timerVars, TypeOK
  <2>3. ASSUME NEW t \in created, repeatCount_[t] = -1 PROVE Due(t)'
    <3>1. (runs[t] - 1) * kind[t].interval \in Int /\ key[t] \in Nat
      BY <2>3, TimerAssumption DEF TypeOK, CreationInv
    <3> QED
      BY <1>1, <2>1, <2>2, <2>3, <3>1
  <2> QED
    BY <1>1, <2>2, <2>3
<1>4. CASE DoTimerRun
  <2>1. \A t \in created : Done(t)' = Done(t)
    BY <1>4 DEF DoTimerRun, Done, TypeOK
  <2>2. UNCHANGED <<created, kind, key, expiration_, repeatCount_, now>>
    BY <1>4 DEF DoTimerRun, timerVars
  <2>3. ASSUME NEW t \in created, repeatCount_[t] = -1 PROVE Due(t)'
    <3>1. CASE t = iter
      <4>1. Done(t) = runs[t] /\ runs'[t] = runs[t] + 1 /\ runs[t] \in Nat /\ expiration_[t] <= now
        BY <1>4, <3>1, TimerAssumption DEF DoTimerRun, Done, TypeOK, PassInv
      <4>2. runs'[t] - 1 = runs[t]
        BY <4>1
      <4> QED
        BY <1>1, <2>1, <2>2, <2>3, <4>1, <4>2
    <3>2. CASE t # iter
      BY <1>1, <1>4, <2>1, <2>2, <2>3, <3>2 DEF DoTimerRun, TypeOK
    <3> QED
      BY <3>1, <3>2
  <2> QED
    BY <1>1, <2>2, <2>3
<1>5. CASE DoTimerReturn
  <2>1. UNCHANGED <<created, kind, key, runs, now>> /\ inCallback' = FALSE /\ inCallback
    BY <1>5 DEF DoTimerReturn
  <2>2. iter \in created /\ repeatCount_[iter] # 0 /\ repeatCount_[iter] \in Int
    BY <1>5 DEF DoTimerReturn, PassInv, CountInv, TypeOK
  <2>3. ASSUME NEW t \in created, repeatCount_'[t] = -1 PROVE Due(t)'
    <3>1. CASE t = iter
      <4>1. repeatCount_[t] = -1 /\ Decremented(repeatCount_[t]) = -1
        BY <1>5, <2>2, <2>3, <3>1 DEF DoTimerReturn, Decremented, CountInv, TypeOK
      <4>2. expiration_'[t] = expiration_[t] + kind[t].interval
        BY <1>5, <3>1, <4>1 DEF DoTimerReturn, TypeOK
      <4>3. Done(t) = runs[t] - 1 /\ Done(t)' = runs[t]
        BY <2>1, <3>1 DEF Done
      <4>4. kind[t].interval \in Nat /\ runs[t] \in Nat /\ key[t] \in Nat
        BY <2>3, TimerAssumption DEF CreationInv, TypeOK
      <4>5. (runs[t] - 1) * kind[t].interval + kind[t].interval = runs[t] * kind[t].interval
        BY <4>4
      <4>6. (runs[t] - 1) * kind[t].interval \in Int /\ runs[t] * kind[t].interval \in Int
        BY <4>4
      <4>7. expiration_[t] = key[t] + (runs[t] - 1) * kind[t].interval
        BY <1>1, <2>3, <4>1, <4>3
      <4>8. expiration_'[t] = key[t] + runs[t] * kind[t].interval
        BY <4>2, <4>4, <4>5, <4>6, <4>7
      <4> QED
        BY <1>1, <2>1, <2>3, <4>1, <4>3, <4>8
    <3>2. CASE t # iter
      <4>1. repeatCount_'[t] = repeatCount_[t] /\ expiration_'[t] = expiration_[t] /\ Done(t)' = Done(t)
        BY <1>5, <3>2 DEF DoTimerReturn, Done, TypeOK
      <4> QED
        BY <1>1, <2>1, <2>3, <4>1
    <3> QED
      BY <3>1, <3>2
  <2> QED
    BY <1>1, <2>1, <2>3
<1>6. ASSUME NEW t \in Timers, NEW k \in Kinds, AddTimer(t, k) \/ AddTimerElsewhere(t, k) PROVE NoDrift'
  <2>1. Construct(t, k) /\ UNCHANGED <<runs, inCallback, iter, now>>
    BY <1>6 DEF AddTimer, AddTimerElsewhere, passVars
  <2>2. ~(inCallback /\ iter = t) /\ runs[t] = 0 /\ created' = created \cup {t}
    BY <2>1 DEF Construct, TypeOK, PassInv, CreationInv
  <2>3. Due(t)'
    <3>1. Done(t)' = 0 /\ runs'[t] = 0 /\ kind'[t] = k /\ key'[t] = expiration_'[t] /\ key'[t] \in Nat
      BY <2>1, <2>2, TimerAssumption DEF Done, Construct, TypeOK
    <3>2. 0 * k.interval = 0
      BY TimerAssumption
    <3> QED
      BY <3>1, <3>2
  <2>4. ASSUME NEW u \in created, repeatCount_'[u] = -1 PROVE Due(u)'
    <3>1. /\ UNCHANGED <<kind[u], key[u], expiration_[u], repeatCount_[u]>> /\ Done(u)' = Done(u)
      BY <2>1 DEF Construct, TypeOK, Done
    <3> QED
      BY <1>1, <2>1, <2>4, <3>1
  <2> QED
    BY <1>1, <2>2, <2>3, <2>4
<1>7. ASSUME UNCHANGED <<timerVars, runs, now>>, ~inCallback, ~inCallback' PROVE NoDrift'
  BY <1>7 DEF NoDrift, timerVars
<1>8. CASE DoTimerBegin
  BY <1>7, <1>8 DEF DoTimerBegin, PassInv
<1>9. CASE DoTimerSkip
  BY <1>7, <1>9 DEF DoTimerSkip
<1>10. CASE DoTimerEnd
  BY <1>7, <1>10 DEF DoTimerEnd
<1>11. CASE UNCHANGED <<timerVars, runs, now, iter, inCallback>>
  BY <1>11 DEF NoDrift, timerVars
<1> QED
  BY <1>3, <1>4, <1>5, <1>6, <1>8, <1>9, <1>10, <1>11
     DEF Next, vars, passVars, RunPending, ChangeTimer, ChangeTimerElsewhere

\* The inductive invariant holds in every reachable state of the queue.
LEMMA TimerInvariant == Spec => []IInv
<1>1. IInv /\ [Next]_vars => IInv'
  BY TimerTypeStep, PassStep, CreationStep, PendingStep, ScheduleStep, CountStep, DriftStep DEF IInv
<1> QED
  BY <1>1, TimerInit, PTL DEF Spec

-----------------------------------------------------------------------------
(* The theorems *)

\* TimerQueue keeps its types; in particular doTimer's iterator is always at a
\* timer of the set or at its end, whatever callbacks add and remove.
THEOREM IteratorStaysValid == Spec => []TypeOK
<1>1. IInv => TypeOK
  BY DEF IInv
<1> QED
  BY <1>1, TimerInvariant, PTL

\* Timer::run: a periodic timer does not drift, whatever its interval, however
\* late doTimer() comes and whatever other timers and threads do.
THEOREM PeriodicTimersKeepTime == Spec => []NoDrift
<1>1. IInv => NoDrift
  BY DEF IInv
<1> QED
  BY <1>1, TimerInvariant, PTL

\* Timer::run and doTimer: a timer with a repeat count runs at most that often
\* and leaves the set with its last run.
THEOREM RepeatCountsRespected == Spec => []RepeatCountKept
<1>1. ASSUME IInv PROVE RepeatCountKept
  <2> SUFFICES ASSUME NEW t \in created, repeatCount_[t] # -1
               PROVE  /\ runs[t] <= kind[t].repeat
                      /\ t \in timers_ /\ ~(inCallback /\ iter = t) => runs[t] < kind[t].repeat
    BY DEF RepeatCountKept
  <2>1. /\ repeatCount_[t] >= 0 /\ kind[t].repeat \in Nat /\ runs[t] \in Nat /\ repeatCount_[t] \in Int
        /\ repeatCount_[t] + Done(t) = kind[t].repeat
        /\ t \in timers_ => repeatCount_[t] # 0
    BY <1>1 DEF IInv, CountInv, TypeOK
  <2>2. CASE inCallback /\ iter = t
    <3>1. t \in timers_ /\ Done(t) = runs[t] - 1
      BY <1>1, <2>2 DEF IInv, TypeOK, PassInv, Done
    <3> QED
      BY <2>1, <2>2, <3>1
  <2>3. CASE ~(inCallback /\ iter = t)
    <3>1. Done(t) = runs[t]
      BY <2>3 DEF Done
    <3> QED
      BY <2>1, <2>3, <3>1
  <2> QED
    BY <2>2, <2>3
<1> QED
  BY <1>1, TimerInvariant, PTL

\* removeTimerInLoop: the callback of a removed timer never starts again.
THEOREM RemovalIsFinal == Spec => RemovedNeverRuns
<1>1. ASSUME IInv, [Next]_vars, NEW t \in removed PROVE runs'[t] = runs[t]
  <2>1. CASE DoTimerRun
    <3>1. iter \in timers_ /\ iter # t /\ t \in Timers
      BY <1>1, <2>1 DEF DoTimerRun, IInv, TypeOK, CreationInv
    <3> QED
      BY <1>1, <2>1, <3>1 DEF DoTimerRun, IInv, TypeOK
  <2>2. CASE ~DoTimerRun
    BY <1>1, <2>2 DEF Next, vars, Tick, RunPending, DoTimerBegin, DoTimerSkip, DoTimerReturn, DoTimerEnd,
                      AddTimer, AddTimerElsewhere, ChangeTimer, ChangeTimerElsewhere
  <2> QED
    BY <2>1, <2>2
<1>2. IInv /\ [Next]_vars => [\A t \in removed : runs'[t] = runs[t]]_vars
  BY <1>1
<1> QED
  BY <1>2, TimerInvariant, PTL DEF Spec, RemovedNeverRuns

\* doTimer: a timer that is due when a pass ends was passed over behind a timer
\* that has run before; as long as no timer in it has run, the order of the set
\* is the order of the expirations.
THEOREM OnlyRepeatsPassOver == Spec => PassedOverByRepeated
<1>1. ASSUME IInv, [Next]_vars, NEW t \in late' \ late
      PROVE  \E s \in timers_ : Before(s, t) /\ runs[s] > 0 /\ expiration_[s] > pass
  <2>1. DoTimerEnd /\ iter # Nil
    BY <1>1 DEF Next, vars, Tick, RunPending, DoTimerBegin, DoTimerSkip, DoTimerReturn, DoTimerRun, DoTimerEnd,
                AddTimer, AddTimerElsewhere, ChangeTimer, ChangeTimerElsewhere
  <2>2. /\ iter \in timers_ /\ expiration_[iter] > pass
        /\ t \in timers_ /\ Before(iter, t) /\ expiration_[t] <= pass
    BY <1>1, <2>1 DEF DoTimerEnd, IInv, TypeOK
  <2>3. /\ key[iter] \in Nat /\ key[t] \in Nat /\ expiration_[iter] \in Nat /\ expiration_[t] \in Nat
        /\ pass \in Int /\ runs[iter] \in Nat
    BY <1>1, <2>2, TimerAssumption DEF IInv, TypeOK, Nil
  <2>4. key[iter] <= key[t] /\ key[t] <= expiration_[t]
    BY <1>1, <2>2, <2>3 DEF Before, IInv, ScheduleInv, TypeOK
  <2>5. runs[iter] # 0
    BY <1>1, <2>2, <2>3, <2>4 DEF IInv, ScheduleInv, TypeOK
  <2> QED
    BY <2>2, <2>3, <2>5
<1>2. IInv /\ [Next]_vars
      => [\A t \in late' \ late : \E s \in timers_ : Before(s, t) /\ runs[s] > 0 /\ expiration_[s] > pass]_vars
  BY <1>1
<1> QED
  BY <1>2, TimerInvariant, PTL DEF Spec, PassedOverByRepeated
=============================================================================
