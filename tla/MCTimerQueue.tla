---------------------------- MODULE MCTimerQueue ----------------------------
(* TimerQueue with the kinds of timers that EventLoop creates.  A one-shot  *)
(* timer made through the const-reference overload of addTimer is left out: *)
(* its repeat count is -1 and its interval 0, so it runs in every pass for  *)
(* ever and the count of its runs has no bound.                             *)
EXTENDS TimerQueue

RunEvery(d) == [delay |-> d, interval |-> d, repeat |-> -1, byRef |-> TRUE]
RunAfterMoved(d) == [delay |-> d, interval |-> 0, repeat |-> 1, byRef |-> FALSE]
Thrice(d) == [delay |-> d, interval |-> d, repeat |-> 3, byRef |-> FALSE]

KindsPeriodic == {RunEvery(1), RunEvery(2), RunAfterMoved(1), Thrice(1)}
=============================================================================
