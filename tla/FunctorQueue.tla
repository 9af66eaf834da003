---------------------------- MODULE FunctorQueue ----------------------------
(***************************************************************************)
(* What EventLoop promises its callers (the comments on runInLoop and      *)
(* queueInLoop in net/EventLoop.h): a callback handed to the loop from any *)
(* thread runs in the loop thread, exactly once, in the order in which the *)
(* callbacks were handed over, and it does run unless the loop is stopped. *)
(***************************************************************************)
EXTENDS Naturals, Sequences

CONSTANT Functors    \* the callbacks, each handed over at most once

VARIABLES posted,    \* callbacks handed over, in order
          executed,  \* callbacks started, in order
          stopped    \* the loop has left loop()

vars == <<posted, executed, stopped>>

Init == posted = <<>> /\ executed = <<>> /\ stopped = FALSE

Post(f) == /\ \A i \in 1..Len(posted) : posted[i] # f
           /\ posted' = Append(posted, f)
           /\ UNCHANGED <<executed, stopped>>

Run == /\ ~stopped
       /\ Len(executed) < Len(posted)
       /\ executed' = Append(executed, posted[Len(executed) + 1])
       /\ UNCHANGED <<posted, stopped>>

Stop == stopped' = TRUE /\ UNCHANGED <<posted, executed>>

Next == Run \/ Stop \/ \E f \in Functors : Post(f)

SafeSpec == Init /\ [][Next]_vars
Spec == SafeSpec /\ WF_vars(Run)
=============================================================================
