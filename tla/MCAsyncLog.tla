----------------------------- MODULE MCAsyncLog -----------------------------
(* AsyncLog with lines whose number gives their level and their length. *)
EXTENDS AsyncLog

OfLines(s) == [l \in Lines |-> s[l]]
Levels == OfLines(<<LOG_LEVEL_INFO, LOG_LEVEL_CRITICAL, LOG_LEVEL_SYSERROR, LOG_LEVEL_FATAL, LOG_LEVEL_INFO>>)
Lengths == OfLines(<<1, 2, 1, 1, 1>>)
=============================================================================
