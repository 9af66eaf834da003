------------------------------- MODULE AsyncLog -------------------------------
(***************************************************************************)
(* base/AsyncLog.cpp: callers append lines to a list under a mutex, one    *)
(* write thread takes them out and writes them to files that it rolls by   *)
(* size; SYSERROR and FATAL lines are written by the caller itself, with   *)
(* no lock.  A file is named after the second in which it is opened, and   *)
(* is opened with "w+".                                                    *)
(***************************************************************************)
EXTENDS Integers, Sequences, FiniteSets, SequencesExt

CONSTANTS Threads,   \* threads that call Output
          Writer,    \* the write thread
          Lines,     \* the lines they may output, each at most once
          Level,     \* line -> its LOG_LEVEL
          Length,    \* line -> its length
          RollSize,  \* m_nFileRollSize
          MaxTime,   \* bound on the clock, in seconds
          MaxLines,  \* bound on the lines output
          MayFail    \* may fopen and fwrite fail?

LOG_LEVEL_INFO == 2
LOG_LEVEL_ERROR == 4
LOG_LEVEL_SYSERROR == 5
LOG_LEVEL_FATAL == 6
LOG_LEVEL_CRITICAL == 7

ASSUME LogAssumption ==
    /\ Writer \notin Threads /\ 0 \notin Lines
    /\ Level \in [Lines -> 0..LOG_LEVEL_CRITICAL]
    /\ Length \in [Lines -> Nat \ {0}]
    /\ RollSize \in Nat \ {0} /\ MaxTime \in Nat /\ MayFail \in BOOLEAN

None == 0                   \* no line
Procs == Threads \cup {Writer}
nullptr == -1
Names == 0..MaxTime         \* file names: the second of their creation

VARIABLES
    now,                    \* time(NULL)
    m_listLinesToWrite,
    m_bExit,
    m_nCurrentLevel,
    m_hLogFile,             \* name of the file it stands for, or nullptr
    isOpen,                 \* it has not been passed to fclose
    m_nCurrentWrittenSize,
    file,                   \* name -> the lines in the file
    pc,                     \* process -> where it is
    hand,                   \* process -> the line it is about to write
    name,                   \* process -> the name of the file it is about to open, or 0
    uninit,                 \* where the caller of Uninit is
    crashed,                \* the process has died
    accepted,               \* history: the lines pushed, in order
    handled,                \* history: the lines the write thread took to the end
    returned,               \* history: SYSERROR lines whose Output has returned true
    failed                  \* history: a failed fopen or fwrite has ended the write thread

envVars == <<now, m_nCurrentLevel>>
listVars == <<m_listLinesToWrite, accepted>>
exitVars == <<m_bExit, uninit>>
fileVars == <<m_hLogFile, isOpen, file>>
localVars == <<hand, name>>
doneVars == <<handled, returned, failed>>
vars == <<envVars, listVars, exitVars, fileVars, m_nCurrentWrittenSize, pc, localVars, crashed, doneVars>>

TypeOK ==
    /\ now \in 0..MaxTime
    /\ m_listLinesToWrite \in Seq(Lines)
    /\ m_bExit \in BOOLEAN /\ isOpen \in BOOLEAN /\ crashed \in BOOLEAN
    /\ m_nCurrentLevel \in 0..LOG_LEVEL_CRITICAL
    /\ m_hLogFile \in Names \cup {nullptr}
    /\ m_nCurrentWrittenSize \in Nat
    /\ file \in [Names -> Seq(Lines)]
    /\ pc \in [Procs -> {"idle", "check", "roll", "close", "open", "write", "lock", "empty", "wait", "done"}]
    /\ hand \in [Procs -> Lines \cup {None}]
    /\ name \in [Procs -> Names]
    /\ uninit \in {"no", "notify", "join", "done"}
    /\ accepted \in Seq(Lines) /\ handled \in Seq(Lines) /\ returned \in SUBSET Lines /\ failed \in BOOLEAN

\* The state after Init(): the write thread has just been started.
Init ==
    /\ now = 0
    /\ m_listLinesToWrite = <<>>
    /\ m_bExit = FALSE
    /\ m_nCurrentLevel = LOG_LEVEL_INFO
    /\ m_hLogFile = nullptr /\ isOpen = FALSE
    /\ m_nCurrentWrittenSize = 0
    /\ file = [n \in Names |-> <<>>]
    /\ pc = [p \in Procs |-> IF p = Writer THEN "roll" ELSE "idle"]
    /\ hand = [p \in Procs |-> None]
    /\ name = [p \in Procs |-> 0]
    /\ uninit = "no"
    /\ crashed = FALSE
    /\ accepted = <<>> /\ handled = <<>> /\ returned = {} /\ failed = FALSE

IsSync(l) == Level[l] \in {LOG_LEVEL_SYSERROR, LOG_LEVEL_FATAL}
Goto(p, where) == pc' = [pc EXCEPT ![p] = where]

\* m_cvWrite.notify_one(): only a thread that is waiting is woken.
Notify == pc' = IF pc[Writer] = "wait" THEN [pc EXCEPT ![Writer] = "lock"] ELSE pc

\* Each line is output once.
Out == ToSet(accepted) \cup returned \cup ({hand[t] : t \in Threads} \ {None})
Fresh(l) == l \notin Out /\ Cardinality(Out) < MaxLines

-----------------------------------------------------------------------------
(* Mutants *)

\* Output does not notify the write thread.
PushSilently(t, l) ==
    /\ ~crashed /\ pc[t] = "idle" /\ Fresh(l) /\ ~IsSync(l)
    /\ Level[l] = LOG_LEVEL_CRITICAL \/ Level[l] >= m_nCurrentLevel
    /\ pc[Writer] # "empty"
    /\ m_listLinesToWrite' = Append(m_listLinesToWrite, l)
    /\ accepted' = Append(accepted, l)
    /\ UNCHANGED <<envVars, exitVars, fileVars, localVars, doneVars, m_nCurrentWrittenSize, pc, crashed>>

\* The write thread takes the newest line.
TakeNewest ==
    /\ ~crashed /\ pc[Writer] = "lock" /\ m_listLinesToWrite # <<>>
    /\ hand' = [hand EXCEPT ![Writer] = Last(m_listLinesToWrite)]
    /\ m_listLinesToWrite' = Front(m_listLinesToWrite)
    /\ Goto(Writer, "write")
    /\ UNCHANGED <<envVars, exitVars, fileVars, doneVars, accepted, m_nCurrentWrittenSize, name, crashed>>

\* The write thread rolls only when the size is above the limit.
RollOneLate ==
    /\ ~crashed /\ pc[Writer] = "roll"
    /\ IF m_hLogFile = nullptr \/ m_nCurrentWrittenSize > RollSize
       THEN /\ m_nCurrentWrittenSize' = 0
            /\ name' = [name EXCEPT ![Writer] = now]
            /\ Goto(Writer, "close")
       ELSE /\ Goto(Writer, "lock")
            /\ UNCHANGED <<m_nCurrentWrittenSize, name>>
    /\ UNCHANGED <<envVars, listVars, exitVars, fileVars, doneVars, hand, crashed>>

\* The write thread, woken with an empty list, waits again without looking at
\* m_bExit.
NeverSeesExit ==
    /\ ~crashed /\ pc[Writer] = "lock"
    /\ m_listLinesToWrite = <<>>
    /\ Goto(Writer, "empty")
    /\ UNCHANGED <<envVars, listVars, exitVars, fileVars, localVars, doneVars, m_nCurrentWrittenSize, crashed>>

-----------------------------------------------------------------------------
(* Callers *)

\* Output at a level that is written by the write thread (and OutputBinary):
\* push_back and notify_one under the mutex, which the write thread holds
\* from its test of the list until it waits.  A line below the current level
\* is dropped, unless it is CRITICAL.
Output(t, l) ==
    /\ ~crashed /\ pc[t] = "idle" /\ Fresh(l) /\ ~IsSync(l)
    /\ Level[l] = LOG_LEVEL_CRITICAL \/ Level[l] >= m_nCurrentLevel
    /\ pc[Writer] # "empty"
    /\ m_listLinesToWrite' = Append(m_listLinesToWrite, l)
    /\ accepted' = Append(accepted, l)
    /\ Notify
    /\ UNCHANGED <<envVars, exitVars, fileVars, localVars, doneVars, m_nCurrentWrittenSize, crashed>>

\* Output of a SYSERROR or FATAL line, up to the test of m_hLogFile.
OutputSync(t, l) ==
    /\ ~crashed /\ pc[t] = "idle" /\ Fresh(l) /\ IsSync(l)
    /\ Level[l] >= m_nCurrentLevel
    /\ hand' = [hand EXCEPT ![t] = l]
    /\ Goto(t, "check")
    /\ UNCHANGED <<envVars, listVars, exitVars, fileVars, doneVars, m_nCurrentWrittenSize, name, crashed>>

CheckFile(t) ==
    /\ ~crashed /\ pc[t] = "check"
    /\ name' = [name EXCEPT ![t] = IF m_hLogFile = nullptr THEN now ELSE 0]
    /\ Goto(t, IF m_hLogFile = nullptr THEN "close" ELSE "write")
    /\ UNCHANGED <<envVars, listVars, exitVars, fileVars, doneVars, m_nCurrentWrittenSize, hand, crashed>>

SetLevel(n) ==
    /\ ~crashed
    /\ m_nCurrentLevel # n
    /\ m_nCurrentLevel' = n
    /\ UNCHANGED <<listVars, exitVars, fileVars, localVars, doneVars, now, m_nCurrentWrittenSize, pc, crashed>>

-----------------------------------------------------------------------------
(* Files *)

\* CreateNewFile: fclose of the file there is.  Passing a closed FILE to
\* fclose is undefined: the process may die.
CloseFile(p) ==
    /\ ~crashed /\ pc[p] = "close"
    /\ isOpen' = FALSE
    /\ crashed' \in (IF m_hLogFile # nullptr /\ ~isOpen THEN BOOLEAN ELSE {FALSE})
    /\ Goto(p, "open")
    /\ UNCHANGED <<envVars, listVars, exitVars, localVars, doneVars, m_hLogFile, file, m_nCurrentWrittenSize>>

\* CreateNewFile: fopen(name, "w+") empties a file of that name.
OpenFile(p) ==
    /\ ~crashed /\ pc[p] = "open"
    /\ m_hLogFile' = name[p]
    /\ isOpen' = TRUE
    /\ file' = [file EXCEPT ![name[p]] = <<>>]
    /\ name' = [name EXCEPT ![p] = 0]
    /\ Goto(p, IF p = Writer THEN "lock" ELSE "write")
    /\ UNCHANGED <<envVars, listVars, exitVars, hand, doneVars, m_nCurrentWrittenSize, crashed>>

\* fopen fails: the write thread ends, Output returns false.
OpenFails(p) ==
    /\ MayFail /\ ~crashed /\ pc[p] = "open"
    /\ m_hLogFile' = nullptr /\ isOpen' = FALSE
    /\ Goto(p, IF p = Writer THEN "done" ELSE "idle")
    /\ hand' = [hand EXCEPT ![p] = None]
    /\ name' = [name EXCEPT ![p] = 0]
    /\ failed' = (failed \/ p = Writer)
    /\ UNCHANGED <<envVars, listVars, exitVars, handled, returned, file, m_nCurrentWrittenSize, crashed>>

\* WriteToFile(hand[p]).  The result of fflush is not looked at, so a line may
\* be lost and the call still succeed.  On a null or a closed FILE the call is
\* undefined: the line goes nowhere, or the process dies.
WriteToFile(p) ==
    /\ hand' = [hand EXCEPT ![p] = None]
    /\ \/ isOpen /\ file' = [file EXCEPT ![m_hLogFile] = Append(@, hand[p])]
       \/ (MayFail \/ ~isOpen) /\ UNCHANGED file
AfterWrite == IF isOpen THEN {FALSE} ELSE BOOLEAN   \* outcomes for crashed

-----------------------------------------------------------------------------
(* Callers: the end of a synchronous Output *)

\* The line is written, or not, and Output returns true.
SysErrorWrite(t) ==
    /\ ~crashed /\ pc[t] = "write" /\ Level[hand[t]] = LOG_LEVEL_SYSERROR
    /\ WriteToFile(t)
    /\ crashed' \in AfterWrite
    /\ returned' = returned \cup {hand[t]}
    /\ Goto(t, "idle")
    /\ UNCHANGED <<envVars, listVars, exitVars, m_hLogFile, isOpen, m_nCurrentWrittenSize, name, handled, failed>>

\* The line is written and Crash() ends the process.
FatalWrite(t) ==
    /\ ~crashed /\ pc[t] = "write" /\ Level[hand[t]] = LOG_LEVEL_FATAL
    /\ WriteToFile(t)
    /\ crashed' = TRUE
    /\ Goto(t, "done")
    /\ UNCHANGED <<envVars, listVars, exitVars, doneVars, m_hLogFile, isOpen, m_nCurrentWrittenSize, name>>

-----------------------------------------------------------------------------
(* WriteThreadProc *)

\* The top of the loop: a new file the first time and at the roll size.
RollFile ==
    /\ ~crashed /\ pc[Writer] = "roll"
    /\ IF m_hLogFile = nullptr \/ m_nCurrentWrittenSize >= RollSize
       THEN /\ m_nCurrentWrittenSize' = 0
            /\ name' = [name EXCEPT ![Writer] = now]
            /\ Goto(Writer, "close")
       ELSE /\ Goto(Writer, "lock")
            /\ UNCHANGED <<m_nCurrentWrittenSize, name>>
    /\ UNCHANGED <<envVars, listVars, exitVars, fileVars, doneVars, hand, crashed>>

TakeLine ==
    /\ ~crashed /\ pc[Writer] = "lock" /\ m_listLinesToWrite # <<>>
    /\ hand' = [hand EXCEPT ![Writer] = Head(m_listLinesToWrite)]
    /\ m_listLinesToWrite' = Tail(m_listLinesToWrite)
    /\ Goto(Writer, "write")
    /\ UNCHANGED <<envVars, exitVars, fileVars, doneVars, accepted, m_nCurrentWrittenSize, name, crashed>>

\* The list is empty and m_bExit is set.
ExitThread ==
    /\ ~crashed /\ pc[Writer] = "lock"
    /\ m_listLinesToWrite = <<>> /\ m_bExit
    /\ Goto(Writer, "done")
    /\ UNCHANGED <<envVars, listVars, exitVars, fileVars, localVars, doneVars, m_nCurrentWrittenSize, crashed>>

\* The list is empty and m_bExit is not set: the thread still holds the mutex.
SeesEmpty ==
    /\ ~crashed /\ pc[Writer] = "lock"
    /\ m_listLinesToWrite = <<>> /\ ~m_bExit
    /\ Goto(Writer, "empty")
    /\ UNCHANGED <<envVars, listVars, exitVars, fileVars, localVars, doneVars, m_nCurrentWrittenSize, crashed>>

\* m_cvWrite.wait: unlock and sleep in one step.
Wait ==
    /\ ~crashed /\ pc[Writer] = "empty"
    /\ Goto(Writer, "wait")
    /\ UNCHANGED <<envVars, listVars, exitVars, fileVars, localVars, doneVars, m_nCurrentWrittenSize, crashed>>

WriteLine ==
    /\ ~crashed /\ pc[Writer] = "write"
    /\ WriteToFile(Writer)
    /\ crashed' \in AfterWrite
    /\ m_nCurrentWrittenSize' = m_nCurrentWrittenSize + Length[hand[Writer]]
    /\ handled' = Append(handled, hand[Writer])
    /\ Goto(Writer, "roll")
    /\ UNCHANGED <<envVars, listVars, exitVars, m_hLogFile, isOpen, name, returned, failed>>

\* fwrite returns 0, as it may on a closed FILE: the line is dropped and the
\* thread ends.
WriteFails ==
    /\ MayFail \/ ~isOpen
    /\ ~crashed /\ pc[Writer] = "write"
    /\ hand' = [hand EXCEPT ![Writer] = None]
    /\ handled' = Append(handled, hand[Writer])
    /\ failed' = TRUE
    /\ Goto(Writer, "done")
    /\ UNCHANGED <<envVars, listVars, exitVars, fileVars, m_nCurrentWrittenSize, name, crashed, returned>>

-----------------------------------------------------------------------------
(* Uninit, without the mutex *)

UninitFlag ==
    /\ ~crashed /\ uninit = "no"
    /\ m_bExit' = TRUE
    /\ uninit' = "notify"
    /\ UNCHANGED <<envVars, listVars, fileVars, localVars, doneVars, m_nCurrentWrittenSize, pc, crashed>>

UninitNotify ==
    /\ ~crashed /\ uninit = "notify"
    /\ Notify
    /\ uninit' = "join"
    /\ UNCHANGED <<envVars, listVars, fileVars, localVars, doneVars, m_bExit, m_nCurrentWrittenSize, crashed>>

\* join() returns and the file is closed.
UninitJoin ==
    /\ ~crashed /\ uninit = "join" /\ pc[Writer] = "done"
    /\ m_hLogFile' = nullptr /\ isOpen' = FALSE
    /\ uninit' = "done"
    /\ UNCHANGED <<envVars, listVars, localVars, doneVars, m_bExit, file, m_nCurrentWrittenSize, pc, crashed>>

Tick ==
    /\ now < MaxTime
    /\ now' = now + 1
    /\ UNCHANGED <<listVars, exitVars, fileVars, localVars, doneVars, m_nCurrentLevel, m_nCurrentWrittenSize, pc, crashed>>

-----------------------------------------------------------------------------
CallerStep(t) == CheckFile(t) \/ CloseFile(t) \/ OpenFile(t) \/ OpenFails(t) \/ SysErrorWrite(t) \/ FatalWrite(t)
WriterStep ==
    \/ RollFile \/ CloseFile(Writer) \/ OpenFile(Writer) \/ OpenFails(Writer)
    \/ TakeLine \/ ExitThread \/ SeesEmpty \/ Wait \/ WriteLine \/ WriteFails
UninitStep == UninitFlag \/ UninitNotify \/ UninitJoin

Next ==
    \/ \E t \in Threads, l \in Lines : Output(t, l) \/ OutputSync(t, l)
    \/ \E t \in Threads : CallerStep(t)
    \/ \E n \in {LOG_LEVEL_INFO, LOG_LEVEL_ERROR} : SetLevel(n)
    \/ WriterStep \/ UninitStep \/ Tick

SafeSpec == Init /\ [][Next]_vars

\* The scheduler runs every thread that can run; nobody must log, and Uninit,
\* once begun, goes on.
Spec ==
    /\ SafeSpec
    /\ WF_vars(WriterStep)
    /\ WF_vars(UninitNotify \/ UninitJoin)
    /\ \A t \in Threads : WF_vars(CallerStep(t))

-----------------------------------------------------------------------------
(* Properties *)

\* As long as no caller writes to the file itself, the files, read in the order
\* of their names, hold lines in the order in which they were pushed: rolling,
\* and opening again after a failure, never puts a line into an older file.
LogOrder ==
    returned = {} /\ ~crashed /\ (\A t \in Threads : pc[t] = "idle") =>
        \A m, n \in Names : \A i \in DOMAIN file[m], j \in DOMAIN file[n] :
            (m < n \/ (m = n /\ i < j)) =>
                \E a, b \in DOMAIN accepted : a < b /\ accepted[a] = file[m][i] /\ accepted[b] = file[n][j]

\* The bytes of the lines among the first n of s that came through the list.
Queued(l) == IF IsSync(l) THEN 0 ELSE Length[l]
QueuedSize(s, n) == LET sum[i \in 0..n] == IF i = 0 THEN 0 ELSE sum[i - 1] + Queued(s[i]) IN sum[n]

\* A file never receives a line through the write thread once those lines fill
\* the roll size: what they had put there before each of them is less than
\* RollSize bytes.  It holds with callers that write SYSERROR lines into the
\* same file.
RollBound ==
    \A n \in Names : \A i \in DOMAIN file[n] : ~IsSync(file[n][i]) => QueuedSize(file[n], i - 1) < RollSize

\* The lines pushed before the write thread ends are all written, also those
\* pushed after Uninit has set m_bExit: the thread never sleeps with a line in
\* the list and leaves only when the list is empty, unless a call on a file
\* fails in it or the process dies.
LinesWritten ==
    (accepted # handled /\ pc[Writer] # "done") ~> (accepted = handled \/ failed \/ crashed)

\* Uninit sets m_bExit and notifies without the mutex.  When the write thread
\* is not asleep nor just about to sleep as Uninit comes to its join(), it sees
\* the flag, writes what is left, ends, and Uninit returns.  (In the window
\* between the thread's test of the flag and its wait the notification is lost,
\* and Uninit may wait for ever.)
UninitReturns == (uninit = "join" /\ pc[Writer] \notin {"empty", "wait"}) ~> (uninit = "done" \/ crashed)
==============================================================================
