---------------------------- MODULE AsyncLogProofs ----------------------------
(***************************************************************************)
(* Proofs, for every set of callers and of lines, every level and length   *)
(* of a line, every roll size and every bound on the clock, that a file is *)
(* rolled in time, and that the files hold the queued lines in the order   *)
(* in which they were pushed as long as nobody else writes to them.        *)
(***************************************************************************)
EXTENDS AsyncLog, SequenceTheorems, WellFoundedInduction, TLAPS

-----------------------------------------------------------------------------
(* Sums over the positions of a sequence.  QueuedSize is defined by         *)
(* recursion on the position; that the recursion defines a function, and    *)
(* only one, is shown on the least position where it would not.             *)

\* A nonempty set of numbers has a least one.
LEMMA LeastNumber ==
  ASSUME NEW T \in SUBSET Nat, T # {}
  PROVE  \E n \in T : \A m \in T : n <= m
<1> DEFINE Less == {ss \in Nat \X Nat : ss[1] < ss[2]}
<1>1. IsWellFoundedOn(Less, Nat)
  BY NatLessThanWellFounded DEF OpToRel
<1> HIDE DEF Less
<1>2. PICK x \in T : \A y \in T : ~(<<y, x>> \in Less)
  BY <1>1, WFMin
<1>3. ASSUME NEW y \in T PROVE x <= y
  <2>1. <<y, x>> \in Nat \X Nat /\ ~(<<y, x>> \in Less)
    BY <1>2
  <2>2. ~(y < x)
    BY <2>1 DEF Less
  <2> QED
    BY <2>2
<1> QED
  BY <1>3

\* g maps each position up to n to the sum up to it.
IsSum(g, s, n) == g = [i \in 0..n |-> IF i = 0 THEN 0 ELSE g[i - 1] + Queued(s[i])]

\* The bytes of a line are a number.
LEMMA QueuedNat ==
  ASSUME NEW l \in Lines
  PROVE  Queued(l) \in Nat
BY LogAssumption DEF Queued

\* What the recursion says of each position.
LEMMA SumAt ==
  ASSUME NEW s, NEW n \in Nat, NEW g, IsSum(g, s, n)
  PROVE  g[0] = 0 /\ \A i \in 1..n : g[i] = g[i - 1] + Queued(s[i])
<1>1. \A i \in 0..n : g[i] = IF i = 0 THEN 0 ELSE g[i - 1] + Queued(s[i])
  BY DEF IsSum
<1>2. 0 \in 0..n
  OBVIOUS
<1>3. ASSUME NEW i \in 1..n PROVE i \in 0..n /\ i # 0
  OBVIOUS
<1>. QED  BY <1>1, <1>2, <1>3, Zenon

\* There are sums up to every position.
LEMMA SumExists ==
  ASSUME NEW s \in Seq(Lines), NEW n \in 0..Len(s)
  PROVE  \E g \in [0..n -> Nat] : IsSum(g, s, n)
<1> DEFINE Bad == {k \in 0..n : ~\E g \in [0..k -> Nat] : IsSum(g, s, k)}
<1>1. n \in Nat
  BY LenProperties
<1>2. ASSUME Bad # {} PROVE FALSE
  <2>1. PICK k \in Bad : \A m \in Bad : k <= m
    <3>1. Bad \in SUBSET Nat
      BY <1>1
    <3> HIDE DEF Bad
    <3>. QED  BY <1>2, <3>1, LeastNumber
  <2>2. k \in 0..n /\ ~\E g \in [0..k -> Nat] : IsSum(g, s, k)
    BY <2>1
  <2>3. CASE k = 0
    <3> DEFINE z == [i \in 0..0 |-> 0]
    <3>1. z \in [0..0 -> Nat] /\ IsSum(z, s, 0)
      BY DEF IsSum
    <3>. QED  BY <2>2, <2>3, <3>1
  <2>4. CASE k # 0
    <3>1. k - 1 \in 0..n /\ k - 1 \in Nat /\ ~(k <= k - 1) /\ k \in 1..n /\ k \in Nat /\ n \in Nat
      BY <1>1, <2>2, <2>4
    <3>2. k - 1 \notin Bad
      BY <2>1, <3>1
    <3>3. PICK g \in [0..(k - 1) -> Nat] : IsSum(g, s, k - 1)
      BY <3>1, <3>2
    <3>4. g[0] = 0 /\ \A i \in 1..(k - 1) : g[i] = g[i - 1] + Queued(s[i])
      BY <3>1, <3>3, SumAt
    <3>5. s[k] \in Lines
      BY <1>1, <3>1, ElementOfSeq, LenProperties
    <3>6. Queued(s[k]) \in Nat
      BY <3>5, QueuedNat
    <3> DEFINE h == [i \in 0..k |-> IF i = k THEN g[k - 1] + Queued(s[k]) ELSE g[i]]
    <3>7. ASSUME NEW i \in 0..k PROVE h[i] \in Nat
      BY <3>1, <3>6
    <3>8. ASSUME NEW i \in 0..k PROVE h[i] = IF i = 0 THEN 0 ELSE h[i - 1] + Queued(s[i])
      <4>1. CASE i = 0
        BY <4>1, <3>1, <3>4
      <4>2. CASE i = k
        BY <4>2, <3>1
      <4>3. CASE i # 0 /\ i # k
        <5>1. i \in 1..(k - 1) /\ i - 1 \in 0..k /\ i - 1 # k
          BY <4>3, <3>1
        <5>2. h[i] = g[i] /\ h[i - 1] = g[i - 1]
          BY <4>3, <5>1
        <5>. QED  BY <3>4, <4>3, <5>1, <5>2
      <4>. QED  BY <4>1, <4>2, <4>3
    <3>9. h \in [0..k -> Nat]
      BY <3>7
    <3>10. IsSum(h, s, k)
      <4>1. h = [i \in 0..k |-> h[i]]
        OBVIOUS
      <4> HIDE DEF h
      <4>. QED  BY <3>8, <4>1 DEF IsSum
    <3>. QED  BY <2>2, <3>9, <3>10
  <2>. QED  BY <2>3, <2>4
<1>3. n \in 0..n
  BY <1>1
<1>4. n \notin Bad
  <2> HIDE DEF Bad
  <2>. QED  BY <1>2
<1>. QED  BY <1>3, <1>4

\* Sums agree as far as their sequences do.
LEMMA SumsAgree ==
  ASSUME NEW s, NEW t, NEW n \in Nat, NEW m \in Nat, NEW g, NEW h,
         IsSum(g, s, n), IsSum(h, t, m),
         NEW k \in Nat, k <= n, k <= m, \A i \in 1..k : s[i] = t[i]
  PROVE  g[k] = h[k]
<1> DEFINE Bad == {i \in 0..k : g[i] # h[i]}
<1>1. ASSUME Bad # {} PROVE FALSE
  <2>1. PICK i \in Bad : \A j \in Bad : i <= j
    <3>1. Bad \in SUBSET Nat
      OBVIOUS
    <3> HIDE DEF Bad
    <3>. QED  BY <1>1, <3>1, LeastNumber
  <2>2. /\ g[0] = 0 /\ \A j \in 1..n : g[j] = g[j - 1] + Queued(s[j])
        /\ h[0] = 0 /\ \A j \in 1..m : h[j] = h[j - 1] + Queued(t[j])
    BY SumAt
  <2>3. i \in 0..k /\ g[i] # h[i]
    BY <2>1
  <2>4. i # 0
    BY <2>2, <2>3
  <2>5. /\ i \in 1..n /\ i \in 1..m /\ i \in 1..k
        /\ i - 1 \in 0..k /\ ~(i <= i - 1)
    BY <2>3, <2>4
  <2>6. i - 1 \notin Bad
    BY <2>1, <2>5
  <2>7. g[i - 1] = h[i - 1] /\ s[i] = t[i]
    BY <2>5, <2>6
  <2>8. g[i] = g[i - 1] + Queued(s[i]) /\ h[i] = h[i - 1] + Queued(t[i])
    BY <2>2, <2>5
  <2>. QED  BY <2>3, <2>7, <2>8, Zenon
<1>2. k \in 0..k
  OBVIOUS
<1>3. k \notin Bad
  <2> HIDE DEF Bad
  <2>. QED  BY <1>1
<1>. QED  BY <1>2, <1>3

\* QueuedSize is the last of the sums.
LEMMA QueuedSizeIsSum ==
  ASSUME NEW s \in Seq(Lines), NEW n \in 0..Len(s)
  PROVE  \E g : IsSum(g, s, n) /\ QueuedSize(s, n) = g[n] /\ QueuedSize(s, n) \in Nat
<1>1. QueuedSize(s, n) = (CHOOSE g : IsSum(g, s, n))[n]
  BY DEF QueuedSize, IsSum
<1>2. PICK h \in [0..n -> Nat] : IsSum(h, s, n)
  BY SumExists
<1> DEFINE g == CHOOSE f : IsSum(f, s, n)
<1>3. IsSum(g, s, n)
  BY <1>2
<1>4. n \in Nat /\ n <= n /\ n \in 0..n
  BY LenProperties
<1> HIDE DEF g
<1>5. g[n] = h[n]
  BY <1>2, <1>3, <1>4, SumsAgree
<1>6. h[n] \in Nat
  BY <1>2, <1>4
<1>7. QueuedSize(s, n) = g[n]
  BY <1>1 DEF g
<1>. QED  BY <1>3, <1>5, <1>6, <1>7, Zenon

\* The sum starts with 0.
LEMMA QueuedSizeZero ==
  ASSUME NEW s \in Seq(Lines)
  PROVE  QueuedSize(s, 0) = 0
<1>1. 0 \in 0..Len(s) /\ 0 \in Nat
  BY LenProperties
<1>2. PICK g : IsSum(g, s, 0) /\ QueuedSize(s, 0) = g[0]
  BY <1>1, QueuedSizeIsSum
<1>. QED  BY <1>1, <1>2, SumAt

\* A position adds the bytes of its line.
LEMMA QueuedSizeNext ==
  ASSUME NEW s \in Seq(Lines), NEW n \in 0..Len(s), n # Len(s)
  PROVE  QueuedSize(s, n + 1) = QueuedSize(s, n) + Queued(s[n + 1])
<1>1. /\ n \in Nat /\ n + 1 \in Nat /\ n + 1 \in 0..Len(s) /\ n <= n /\ n <= n + 1
      /\ n + 1 \in 1..(n + 1) /\ (n + 1) - 1 = n
  BY LenProperties
<1>2. PICK g : IsSum(g, s, n + 1) /\ QueuedSize(s, n + 1) = g[n + 1]
  BY <1>1, QueuedSizeIsSum
<1>3. PICK h : IsSum(h, s, n) /\ QueuedSize(s, n) = h[n]
  BY <1>1, QueuedSizeIsSum
<1>4. g[n] = h[n]
  BY <1>1, <1>2, <1>3, SumsAgree
<1>5. g[n + 1] = g[(n + 1) - 1] + Queued(s[n + 1])
  BY <1>1, <1>2, SumAt
<1>6. g[(n + 1) - 1] = g[n]
  BY <1>1
<1>. QED  BY <1>2, <1>3, <1>4, <1>5, <1>6, Zenon

\* Appending a line leaves the sums up to the old ones as they are.
LEMMA QueuedSizeAppend ==
  ASSUME NEW s \in Seq(Lines), NEW l \in Lines
  PROVE  /\ \A n \in 0..Len(s) : QueuedSize(Append(s, l), n) = QueuedSize(s, n)
         /\ QueuedSize(Append(s, l), Len(s) + 1) = QueuedSize(s, Len(s)) + Queued(l)
<1> DEFINE t == Append(s, l)
<1>1. /\ t \in Seq(Lines) /\ Len(t) = Len(s) + 1 /\ Len(s) \in Nat
      /\ \A i \in 1..Len(s) : t[i] = s[i]
      /\ t[Len(s) + 1] = l
  BY AppendProperties, LenProperties
<1> HIDE DEF t
<1>2. ASSUME NEW n \in 0..Len(s) PROVE QueuedSize(t, n) = QueuedSize(s, n)
  <2>1. n \in Nat /\ n <= n /\ n \in 0..Len(t) /\ \A i \in 1..n : t[i] = s[i]
    BY <1>1
  <2>2. PICK g : IsSum(g, t, n) /\ QueuedSize(t, n) = g[n]
    BY <1>1, <2>1, QueuedSizeIsSum
  <2>3. PICK h : IsSum(h, s, n) /\ QueuedSize(s, n) = h[n]
    BY QueuedSizeIsSum
  <2>4. g[n] = h[n]
    BY <2>1, <2>2, <2>3, SumsAgree
  <2>. QED  BY <2>2, <2>3, <2>4
<1>3. Len(s) \in 0..Len(t) /\ Len(s) # Len(t) /\ Len(s) \in 0..Len(s)
  BY <1>1
<1>4. QueuedSize(t, Len(s) + 1) = QueuedSize(t, Len(s)) + Queued(t[Len(s) + 1])
  BY <1>1, <1>3, QueuedSizeNext
<1>5. QueuedSize(t, Len(s) + 1) = QueuedSize(s, Len(s)) + Queued(l)
  BY <1>1, <1>2, <1>3, <1>4
<1>. QED  BY <1>2, <1>5 DEF t

-----------------------------------------------------------------------------
(* The inductive invariant *)

\* Who can be where, and with what in hand.
HandInv ==
    /\ \A t \in Threads : pc[t] \in {"idle", "check", "close", "open", "write", "done"}
    /\ pc[Writer] \in {"roll", "close", "open", "lock", "empty", "wait", "write", "done"}
    /\ \A t \in Threads : pc[t] \in {"check", "close", "open", "write"} => hand[t] \in Lines
    /\ pc[Writer] = "write" => hand[Writer] \in Lines
    /\ isOpen => m_hLogFile # nullptr

\* The number of lines that the write thread has taken from the list.
Taken == Len(handled) + (IF pc[Writer] = "write" THEN 1 ELSE 0)

\* The lines pushed are those taken, in order, followed by those in the list.
ListInv ==
    /\ Len(accepted) = Taken + Len(m_listLinesToWrite)
    /\ \A i \in 1..Len(m_listLinesToWrite) : m_listLinesToWrite[i] = accepted[Taken + i]
    /\ pc[Writer] = "write" => hand[Writer] = accepted[Len(handled) + 1]

\* No caller has begun to write to the file itself.
Undisturbed == returned = {} /\ ~crashed /\ \A t \in Threads : pc[t] # "write"

\* Line i of file m comes before line j of file n when the files are read in
\* the order of their names.
Earlier(m, i, n, j) == m < n \/ (m = n /\ i < j)

\* The files hold lines in the order in which they were pushed.
FilesInOrder ==
    \A m, n \in Names : \A i \in DOMAIN file[m], j \in DOMAIN file[n] :
        Earlier(m, i, n, j) =>
            \E a, b \in DOMAIN accepted : a < b /\ accepted[a] = file[m][i] /\ accepted[b] = file[n][j]

\* All that is in the files has been handled, and nothing is in a file newer
\* than the clock, than the file in use, or than the one about to be opened.
FilesHandled ==
    \A n \in Names : \A i \in DOMAIN file[n] :
        \E a \in 1..Len(handled) : a \in DOMAIN accepted /\ accepted[a] = file[n][i]
NewestIs(m) == m <= now /\ \A n \in Names : file[n] # <<>> => n <= m
FilesNewest ==
    /\ NewestIs(now)
    /\ m_hLogFile # nullptr => NewestIs(m_hLogFile)
    /\ pc[Writer] \in {"close", "open"} => NewestIs(name[Writer])

OrderInv == Undisturbed => FilesInOrder /\ FilesHandled /\ FilesNewest

\* m_nCurrentWrittenSize bounds what the write thread has put into the file in
\* use, except between the top of the loop, which resets it, and the fclose.
SizeInv ==
    /\ pc[Writer] \in {"close", "open"} => m_nCurrentWrittenSize = 0
    /\ pc[Writer] \in {"lock", "empty", "wait", "write"} => m_nCurrentWrittenSize < RollSize
    /\ isOpen /\ pc[Writer] # "close" =>
            QueuedSize(file[m_hLogFile], Len(file[m_hLogFile])) <= m_nCurrentWrittenSize

IInv == TypeOK /\ HandInv /\ ListInv /\ OrderInv /\ SizeInv /\ RollBound

-----------------------------------------------------------------------------
(* Types *)

LEMMA TypeInit ==
  ASSUME Init
  PROVE  TypeOK
<1>1. 0 \in 0..MaxTime /\ 0 \in Names /\ now \in 0..MaxTime /\ m_nCurrentWrittenSize \in Nat
  BY LogAssumption DEF Init, Names
<1>2. m_nCurrentLevel \in 0..LOG_LEVEL_CRITICAL
  BY DEF Init, LOG_LEVEL_INFO, LOG_LEVEL_CRITICAL
<1>3. /\ m_listLinesToWrite \in Seq(Lines) /\ accepted \in Seq(Lines) /\ handled \in Seq(Lines)
      /\ file \in [Names -> Seq(Lines)]
  BY EmptySeq DEF Init
<1>4. /\ m_bExit \in BOOLEAN /\ isOpen \in BOOLEAN /\ crashed \in BOOLEAN /\ failed \in BOOLEAN
      /\ returned \in SUBSET Lines
  BY DEF Init
<1>5. pc \in [Procs -> {"idle", "check", "roll", "close", "open", "write", "lock", "empty", "wait", "done"}]
  BY DEF Init
<1>6. hand \in [Procs -> Lines \cup {None}] /\ name \in [Procs -> Names]
  BY <1>1 DEF Init
<1>7. m_hLogFile \in Names \cup {nullptr} /\ uninit \in {"no", "notify", "join", "done"}
  BY DEF Init
<1>. QED  BY <1>1, <1>2, <1>3, <1>4, <1>5, <1>6, <1>7 DEF TypeOK

LEMMA CallTypes ==
  ASSUME TypeOK, NEW t \in Threads, NEW l \in Lines, Output(t, l) \/ OutputSync(t, l)
  PROVE  TypeOK'
<1>1. Writer \in Procs /\ t \in Procs
  BY DEF Procs
<1>2. CASE Output(t, l)
  <2>1. m_listLinesToWrite' \in Seq(Lines) /\ accepted' \in Seq(Lines)
    BY <1>2, AppendProperties DEF Output, TypeOK
  <2>. QED  BY <1>1, <1>2, <2>1 DEF Output, Notify, TypeOK, envVars, exitVars, fileVars, localVars, doneVars
<1>3. CASE OutputSync(t, l)
  BY <1>1, <1>3 DEF OutputSync, Goto, TypeOK, envVars, listVars, exitVars, fileVars, doneVars
<1>. QED  BY <1>2, <1>3

LEMMA FileTypes ==
  ASSUME TypeOK, NEW p \in Procs, CloseFile(p) \/ OpenFile(p) \/ OpenFails(p)
  PROVE  TypeOK'
<1>1. <<>> \in Seq(Lines) /\ 0 \in Names
  BY LogAssumption, EmptySeq DEF Names
<1>2. CASE CloseFile(p)
  BY <1>2 DEF CloseFile, Goto, TypeOK, envVars, listVars, exitVars, localVars, doneVars
<1>3. CASE OpenFile(p)
  BY <1>1, <1>3 DEF OpenFile, Goto, TypeOK, envVars, listVars, exitVars, doneVars
<1>4. CASE OpenFails(p)
  BY <1>1, <1>4 DEF OpenFails, Goto, TypeOK, envVars, listVars, exitVars, None
<1>. QED  BY <1>2, <1>3, <1>4

\* Writing to a file appends to it or leaves it.
LEMMA WriteFile ==
  ASSUME TypeOK, NEW p \in Procs, WriteToFile(p), hand[p] \in Lines, isOpen => m_hLogFile # nullptr
  PROVE  /\ file' \in [Names -> Seq(Lines)] /\ hand' = [hand EXCEPT ![p] = None]
         /\ hand' \in [Procs -> Lines \cup {None}]
         /\ \/ file' = file
            \/ /\ isOpen /\ m_hLogFile \in Names
               /\ file' = [file EXCEPT ![m_hLogFile] = Append(file[m_hLogFile], hand[p])]
<1>1. hand' = [hand EXCEPT ![p] = None]
  BY DEF WriteToFile
<1>2. hand' \in [Procs -> Lines \cup {None}]
  BY <1>1 DEF TypeOK
<1>3. CASE isOpen /\ file' = [file EXCEPT ![m_hLogFile] = Append(@, hand[p])]
  <2>1. m_hLogFile \in Names
    BY <1>3 DEF TypeOK
  <2>2. Append(file[m_hLogFile], hand[p]) \in Seq(Lines)
    BY <2>1, AppendProperties DEF TypeOK
  <2>. QED  BY <1>1, <1>2, <1>3, <2>1, <2>2 DEF TypeOK
<1>4. CASE UNCHANGED file
  BY <1>1, <1>2, <1>4 DEF TypeOK
<1>. QED  BY <1>3, <1>4 DEF WriteToFile

LEMMA ThreadTypes ==
  ASSUME TypeOK, HandInv, NEW t \in Threads, CheckFile(t) \/ SysErrorWrite(t) \/ FatalWrite(t)
  PROVE  TypeOK'
<1>1. t \in Procs
  BY DEF Procs
<1>2. CASE CheckFile(t)
  BY <1>1, <1>2, LogAssumption DEF CheckFile, Goto, TypeOK, Names, envVars, listVars, exitVars, fileVars, doneVars
<1>3. CASE SysErrorWrite(t)
  <2>1. hand[t] \in Lines
    BY <1>3 DEF SysErrorWrite, HandInv
  <2>2. file' \in [Names -> Seq(Lines)] /\ hand' \in [Procs -> Lines \cup {None}]
    BY <1>1, <1>3, <2>1, WriteFile DEF SysErrorWrite, HandInv
  <2>3. crashed' \in BOOLEAN
    BY <1>3 DEF SysErrorWrite, AfterWrite
  <2>. QED  BY <1>1, <1>3, <2>1, <2>2, <2>3 DEF SysErrorWrite, Goto, TypeOK, envVars, listVars, exitVars
<1>4. CASE FatalWrite(t)
  <2>1. hand[t] \in Lines
    BY <1>4 DEF FatalWrite, HandInv
  <2>2. file' \in [Names -> Seq(Lines)] /\ hand' \in [Procs -> Lines \cup {None}]
    BY <1>1, <1>4, <2>1, WriteFile DEF FatalWrite, HandInv
  <2>. QED  BY <1>1, <1>4, <2>2 DEF FatalWrite, Goto, TypeOK, envVars, listVars, exitVars, doneVars
<1>. QED  BY <1>2, <1>3, <1>4

LEMMA WriterTypes ==
  ASSUME TypeOK, HandInv, RollFile \/ TakeLine \/ ExitThread \/ SeesEmpty \/ Wait \/ WriteLine \/ WriteFails
  PROVE  TypeOK'
<1>1. Writer \in Procs
  BY DEF Procs
<1>2. CASE RollFile
  <2>1. now \in Names
    BY DEF TypeOK, Names
  <2>2. m_nCurrentWrittenSize' \in Nat /\ name' \in [Procs -> Names]
    <3>1. m_nCurrentWrittenSize' \in {0, m_nCurrentWrittenSize} /\ name' \in {name, [name EXCEPT ![Writer] = now]}
      BY <1>2 DEF RollFile
    <3>2. 0 \in Nat /\ m_nCurrentWrittenSize \in Nat /\ name \in [Procs -> Names]
      BY DEF TypeOK
    <3>. QED  BY <2>1, <3>1, <3>2
  <2>3. pc' = [pc EXCEPT ![Writer] = "close"] \/ pc' = [pc EXCEPT ![Writer] = "lock"]
    BY <1>2 DEF RollFile, Goto
  <2>. QED  BY <1>2, <2>2, <2>3 DEF RollFile, TypeOK, envVars, listVars, exitVars, fileVars, doneVars
<1>3. CASE TakeLine
  <2>1. Head(m_listLinesToWrite) \in Lines /\ Tail(m_listLinesToWrite) \in Seq(Lines)
    BY <1>3, HeadTailProperties DEF TakeLine, TypeOK
  <2>. QED  BY <1>1, <1>3, <2>1 DEF TakeLine, Goto, TypeOK, envVars, exitVars, fileVars, doneVars
<1>4. CASE ExitThread \/ SeesEmpty \/ Wait
  BY <1>1, <1>4
     DEF ExitThread, SeesEmpty, Wait, Goto, TypeOK, envVars, listVars, exitVars, fileVars, localVars, doneVars
<1>5. CASE WriteLine
  <2>1. hand[Writer] \in Lines
    BY <1>5 DEF WriteLine, HandInv
  <2>2. file' \in [Names -> Seq(Lines)] /\ hand' \in [Procs -> Lines \cup {None}]
    BY <1>1, <1>5, <2>1, WriteFile DEF WriteLine, HandInv
  <2>3. crashed' \in BOOLEAN
    BY <1>5 DEF WriteLine, AfterWrite
  <2>4. Length[hand[Writer]] \in Nat /\ m_nCurrentWrittenSize' \in Nat
    BY <1>5, <2>1, LogAssumption DEF WriteLine, TypeOK
  <2>5. handled' \in Seq(Lines)
    BY <1>5, <2>1, AppendProperties DEF WriteLine, TypeOK
  <2>. QED  BY <1>1, <1>5, <2>2, <2>3, <2>4, <2>5 DEF WriteLine, Goto, TypeOK, envVars, listVars, exitVars
<1>6. CASE WriteFails
  <2>1. hand[Writer] \in Lines
    BY <1>6 DEF WriteFails, HandInv
  <2>2. handled' \in Seq(Lines)
    BY <1>6, <2>1, AppendProperties DEF WriteFails, TypeOK
  <2>. QED  BY <1>1, <1>6, <2>2 DEF WriteFails, Goto, TypeOK, None, envVars, listVars, exitVars, fileVars
<1>. QED  BY <1>2, <1>3, <1>4, <1>5, <1>6

LEMMA OtherTypes ==
  ASSUME TypeOK, UninitStep \/ Tick \/ \E n \in {LOG_LEVEL_INFO, LOG_LEVEL_ERROR} : SetLevel(n)
  PROVE  TypeOK'
<1>1. CASE UninitFlag
  BY <1>1 DEF UninitFlag, TypeOK, envVars, listVars, fileVars, localVars, doneVars
<1>2. CASE UninitNotify
  <2>1. Writer \in Procs
    BY DEF Procs
  <2>. QED  BY <1>2, <2>1 DEF UninitNotify, Notify, TypeOK, envVars, listVars, fileVars, localVars, doneVars
<1>3. CASE UninitJoin
  BY <1>3 DEF UninitJoin, TypeOK, envVars, listVars, localVars, doneVars
<1>4. CASE Tick
  BY <1>4, LogAssumption DEF Tick, TypeOK, listVars, exitVars, fileVars, localVars, doneVars
<1>5. ASSUME NEW n \in {LOG_LEVEL_INFO, LOG_LEVEL_ERROR}, SetLevel(n) PROVE TypeOK'
  <2>1. n \in 0..LOG_LEVEL_CRITICAL
    BY DEF LOG_LEVEL_INFO, LOG_LEVEL_ERROR, LOG_LEVEL_CRITICAL
  <2>. QED  BY <1>5, <2>1 DEF SetLevel, TypeOK, listVars, exitVars, fileVars, localVars, doneVars
<1>. QED  BY <1>1, <1>2, <1>3, <1>4, <1>5 DEF UninitStep

LEMMA TypeNext ==
  ASSUME TypeOK, HandInv, [Next]_vars
  PROVE  TypeOK'
<1>1. Threads \subseteq Procs /\ Writer \in Procs
  BY DEF Procs
<1>2. CASE UNCHANGED vars
  BY <1>2 DEF vars, TypeOK, envVars, listVars, exitVars, fileVars, localVars, doneVars
<1>. QED  BY <1>1, <1>2, CallTypes, FileTypes, ThreadTypes, WriterTypes, OtherTypes
             DEF Next, CallerStep, WriterStep

-----------------------------------------------------------------------------
(* The places of the processes, and the list *)

LEMMA InitParts ==
  ASSUME Init
  PROVE  HandInv /\ ListInv /\ OrderInv /\ SizeInv /\ RollBound
<1>1. Writer \in Procs /\ Threads \subseteq Procs /\ Writer \notin Threads
  BY LogAssumption DEF Procs
<1>2. /\ pc[Writer] = "roll" /\ \A t \in Threads : pc[t] = "idle"
      /\ isOpen = FALSE /\ m_hLogFile = nullptr /\ \A n \in Names : file[n] = <<>>
  BY <1>1 DEF Init
<1>3. HandInv
  BY <1>2 DEF HandInv
<1>4. ListInv
  <2>1. m_listLinesToWrite = <<>> /\ accepted = <<>> /\ handled = <<>>
    BY DEF Init
  <2>2. Len(accepted) = 0 /\ Len(handled) = 0 /\ Len(m_listLinesToWrite) = 0
    BY <2>1, EmptySeq
  <2>. QED  BY <1>2, <2>2 DEF ListInv, Taken
<1>5. \A n \in Names : DOMAIN file[n] = {}
  BY <1>2, EmptySeq, LenProperties
<1>6. OrderInv
  <2>1. FilesInOrder /\ FilesHandled
    BY <1>5 DEF FilesInOrder, FilesHandled
  <2>2. FilesNewest
    BY <1>2 DEF FilesNewest, NewestIs, Init
  <2>. QED  BY <2>1, <2>2 DEF OrderInv
<1>7. SizeInv
  BY <1>2 DEF SizeInv
<1>8. RollBound
  BY <1>5 DEF RollBound
<1>. QED  BY <1>3, <1>4, <1>6, <1>7, <1>8

LEMMA HandNext ==
  ASSUME TypeOK, HandInv, [Next]_vars
  PROVE  HandInv'
<1>1. Writer \in Procs /\ Threads \subseteq Procs /\ Writer \notin Threads /\ None \notin Lines
  BY LogAssumption DEF Procs, None
<1>2. ASSUME NEW t \in Threads, NEW l \in Lines, Output(t, l) PROVE HandInv'
  BY <1>1, <1>2 DEF Output, Notify, HandInv, TypeOK, fileVars, localVars
<1>3. ASSUME NEW t \in Threads, NEW l \in Lines, OutputSync(t, l) PROVE HandInv'
  BY <1>1, <1>3 DEF OutputSync, Goto, HandInv, TypeOK, fileVars
<1>4. ASSUME NEW t \in Threads, CheckFile(t) PROVE HandInv'
  BY <1>1, <1>4 DEF CheckFile, Goto, HandInv, TypeOK, fileVars
<1>5. ASSUME NEW p \in Procs, CloseFile(p) PROVE HandInv'
  BY <1>1, <1>5 DEF CloseFile, Goto, HandInv, TypeOK, localVars, Procs
<1>6. ASSUME NEW p \in Procs, OpenFile(p) PROVE HandInv'
  <2>1. name[p] # nullptr
    BY <1>6, LogAssumption DEF TypeOK, Names, nullptr
  <2>. QED  BY <1>1, <1>6, <2>1 DEF OpenFile, Goto, HandInv, TypeOK, Procs
<1>7. ASSUME NEW p \in Procs, OpenFails(p) PROVE HandInv'
  BY <1>1, <1>7 DEF OpenFails, Goto, HandInv, TypeOK, Procs
<1>8. ASSUME NEW t \in Threads, SysErrorWrite(t) \/ FatalWrite(t) PROVE HandInv'
  <2>1. /\ pc' = [pc EXCEPT ![t] = "idle"] \/ pc' = [pc EXCEPT ![t] = "done"]
        /\ hand' = [hand EXCEPT ![t] = None] /\ UNCHANGED <<m_hLogFile, isOpen>>
    BY <1>8 DEF SysErrorWrite, FatalWrite, WriteToFile, Goto
  <2>. QED  BY <1>1, <2>1 DEF HandInv, TypeOK
<1>9. CASE RollFile \/ ExitThread \/ SeesEmpty \/ Wait
  <2>1. /\ \E w \in {"close", "lock", "done", "empty", "wait"} : pc' = [pc EXCEPT ![Writer] = w]
        /\ UNCHANGED <<hand, m_hLogFile, isOpen>>
    BY <1>9 DEF RollFile, ExitThread, SeesEmpty, Wait, Goto, fileVars, localVars
  <2>. QED  BY <1>1, <2>1 DEF HandInv, TypeOK
<1>10. CASE TakeLine
  <2>1. Head(m_listLinesToWrite) \in Lines
    BY <1>10, HeadTailProperties DEF TakeLine, TypeOK
  <2>2. /\ pc' = [pc EXCEPT ![Writer] = "write"]
        /\ hand' = [hand EXCEPT ![Writer] = Head(m_listLinesToWrite)] /\ UNCHANGED <<m_hLogFile, isOpen>>
    BY <1>10 DEF TakeLine, Goto, fileVars
  <2>3. \A t \in Threads : pc'[t] = pc[t] /\ hand'[t] = hand[t]
    BY <1>1, <2>2 DEF TypeOK
  <2>4. pc'[Writer] = "write" /\ hand'[Writer] \in Lines
    BY <1>1, <2>1, <2>2 DEF TypeOK
  <2>. QED  BY <2>2, <2>3, <2>4 DEF HandInv
<1>11. CASE WriteLine \/ WriteFails
  <2>1. /\ pc' = [pc EXCEPT ![Writer] = "roll"] \/ pc' = [pc EXCEPT ![Writer] = "done"]
        /\ hand' = [hand EXCEPT ![Writer] = None] /\ UNCHANGED <<m_hLogFile, isOpen>>
    BY <1>11 DEF WriteLine, WriteFails, WriteToFile, Goto, fileVars
  <2>2. \A t \in Threads : pc'[t] = pc[t] /\ hand'[t] = hand[t]
    BY <1>1, <2>1 DEF TypeOK
  <2>3. pc'[Writer] \in {"roll", "done"}
    BY <1>1, <2>1 DEF TypeOK
  <2>. QED  BY <2>1, <2>2, <2>3 DEF HandInv
<1>12. CASE UninitStep
  <2>1. /\ pc' = pc \/ (pc[Writer] = "wait" /\ pc' = [pc EXCEPT ![Writer] = "lock"])
        /\ hand' = hand /\ (isOpen' => isOpen /\ m_hLogFile' = m_hLogFile)
    BY <1>12 DEF UninitStep, UninitFlag, UninitNotify, UninitJoin, Notify, fileVars, localVars
  <2>. QED  BY <1>1, <2>1 DEF HandInv, TypeOK
<1>13. CASE Tick \/ \E n \in {LOG_LEVEL_INFO, LOG_LEVEL_ERROR} : SetLevel(n)
  BY <1>13 DEF Tick, SetLevel, HandInv, fileVars, localVars
<1>14. CASE UNCHANGED vars
  BY <1>14 DEF vars, HandInv, fileVars, localVars
<1>. QED  BY <1>1, <1>2, <1>3, <1>4, <1>5, <1>6, <1>7, <1>8, <1>9, <1>10, <1>11, <1>12, <1>13, <1>14
             DEF Next, CallerStep, WriterStep

\* A step that leaves the list, and does not take the write thread to or from
\* the writing of a line.
LEMMA ListKept ==
  ASSUME ListInv, UNCHANGED <<accepted, handled, m_listLinesToWrite>>,
         pc'[Writer] = "write" <=> pc[Writer] = "write",
         pc[Writer] = "write" => hand'[Writer] = hand[Writer]
  PROVE  ListInv'
<1>1. Taken' = Taken
  BY DEF Taken
<1>. QED  BY <1>1 DEF ListInv

LEMMA ListNext ==
  ASSUME TypeOK, HandInv, ListInv, [Next]_vars
  PROVE  ListInv'
<1>1. Writer \in Procs /\ Threads \subseteq Procs /\ Writer \notin Threads
  BY LogAssumption DEF Procs
<1>2. Len(accepted) \in Nat /\ Len(handled) \in Nat /\ Len(m_listLinesToWrite) \in Nat /\ Taken \in Nat
  BY LenProperties DEF TypeOK, Taken
<1>3. ASSUME NEW t \in Threads, NEW l \in Lines, Output(t, l) PROVE ListInv'
  <2>1. /\ accepted' = Append(accepted, l) /\ m_listLinesToWrite' = Append(m_listLinesToWrite, l)
        /\ handled' = handled /\ hand' = hand
        /\ pc'[Writer] = "write" <=> pc[Writer] = "write"
    BY <1>1, <1>3 DEF Output, Notify, TypeOK, localVars, doneVars
  <2>2. Taken' = Taken
    BY <2>1 DEF Taken
  <2>3. /\ Len(accepted') = Len(accepted) + 1 /\ Len(m_listLinesToWrite') = Len(m_listLinesToWrite) + 1
        /\ \A i \in 1..Len(accepted) : accepted'[i] = accepted[i]
        /\ accepted'[Len(accepted) + 1] = l
        /\ \A i \in 1..Len(m_listLinesToWrite) : m_listLinesToWrite'[i] = m_listLinesToWrite[i]
        /\ m_listLinesToWrite'[Len(m_listLinesToWrite) + 1] = l
    BY <2>1, AppendProperties DEF TypeOK
  <2>4. Len(accepted') = Taken' + Len(m_listLinesToWrite')
    BY <1>2, <2>2, <2>3 DEF ListInv
  <2>5. ASSUME NEW i \in 1..Len(m_listLinesToWrite') PROVE m_listLinesToWrite'[i] = accepted'[Taken' + i]
    <3>1. CASE i = Len(m_listLinesToWrite) + 1
      <4>1. Taken' + i = Len(accepted) + 1
        BY <1>2, <2>2, <3>1 DEF ListInv
      <4>. QED  BY <2>3, <3>1, <4>1
    <3>2. CASE i # Len(m_listLinesToWrite) + 1
      <4>1. i \in 1..Len(m_listLinesToWrite)
        BY <1>2, <2>3, <3>2
      <4>2. Taken + i \in 1..Len(accepted)
        BY <1>2, <4>1 DEF ListInv
      <4>3. m_listLinesToWrite[i] = accepted[Taken + i]
        BY <4>1 DEF ListInv
      <4>. QED  BY <2>2, <2>3, <4>1, <4>2, <4>3
    <3>. QED  BY <3>1, <3>2
  <2>6. pc'[Writer] = "write" => hand'[Writer] = accepted'[Len(handled') + 1]
    <3> SUFFICES ASSUME pc[Writer] = "write" PROVE hand[Writer] = accepted'[Len(handled) + 1]
      BY <2>1
    <3>1. hand[Writer] = accepted[Len(handled) + 1] /\ Taken = Len(handled) + 1
      BY DEF ListInv, Taken
    <3>2. Len(handled) + 1 \in 1..Len(accepted)
      BY <1>2, <3>1 DEF ListInv
    <3>. QED  BY <2>3, <3>1, <3>2
  <2>. QED  BY <2>4, <2>5, <2>6 DEF ListInv
<1>4. ASSUME NEW t \in Threads, NEW l \in Lines, OutputSync(t, l) PROVE ListInv'
  BY <1>1, <1>4, ListKept DEF OutputSync, Goto, TypeOK, listVars, doneVars
<1>5. ASSUME NEW t \in Threads, CheckFile(t) \/ SysErrorWrite(t) \/ FatalWrite(t) PROVE ListInv'
  <2>1. t # Writer
    BY <1>1
  <2>. QED  BY <1>1, <1>5, <2>1, ListKept
               DEF CheckFile, SysErrorWrite, FatalWrite, WriteToFile, Goto, TypeOK, listVars, doneVars
<1>6. ASSUME NEW p \in Procs, CloseFile(p) \/ OpenFile(p) \/ OpenFails(p) PROVE ListInv'
  <2>1. CASE p = Writer
    <3>1. pc[Writer] # "write" /\ pc'[Writer] # "write"
      BY <1>1, <1>6, <2>1 DEF CloseFile, OpenFile, OpenFails, Goto, TypeOK
    <3>2. UNCHANGED <<accepted, handled, m_listLinesToWrite>>
      BY <1>6 DEF CloseFile, OpenFile, OpenFails, listVars, doneVars
    <3>. QED  BY <3>1, <3>2, ListKept
  <2>2. CASE p # Writer
    <3>1. pc'[Writer] = pc[Writer] /\ hand'[Writer] = hand[Writer]
      BY <1>1, <1>6, <2>2 DEF CloseFile, OpenFile, OpenFails, Goto, TypeOK, localVars
    <3>2. UNCHANGED <<accepted, handled, m_listLinesToWrite>>
      BY <1>6 DEF CloseFile, OpenFile, OpenFails, listVars, doneVars
    <3>. QED  BY <3>1, <3>2, ListKept
  <2>. QED  BY <2>1, <2>2
<1>7. CASE RollFile \/ ExitThread \/ SeesEmpty \/ Wait
  <2>1. pc[Writer] # "write" /\ pc'[Writer] # "write"
    BY <1>1, <1>7 DEF RollFile, ExitThread, SeesEmpty, Wait, Goto, TypeOK
  <2>2. UNCHANGED <<accepted, handled, m_listLinesToWrite>>
    BY <1>7 DEF RollFile, ExitThread, SeesEmpty, Wait, listVars, doneVars
  <2>. QED  BY <2>1, <2>2, ListKept
<1>8. CASE TakeLine
  <2>1. /\ accepted' = accepted /\ handled' = handled
        /\ hand'[Writer] = Head(m_listLinesToWrite) /\ m_listLinesToWrite' = Tail(m_listLinesToWrite)
        /\ pc'[Writer] = "write" /\ pc[Writer] = "lock" /\ m_listLinesToWrite # <<>>
    BY <1>1, <1>8 DEF TakeLine, Goto, TypeOK, doneVars
  <2>2. Taken = Len(handled) /\ Taken' = Len(handled) + 1
    BY <1>2, <2>1 DEF Taken
  <2>3. /\ Len(m_listLinesToWrite) # 0 /\ Head(m_listLinesToWrite) = m_listLinesToWrite[1]
        /\ Len(m_listLinesToWrite') = Len(m_listLinesToWrite) - 1
        /\ \A i \in 1..Len(m_listLinesToWrite') : m_listLinesToWrite'[i] = m_listLinesToWrite[i + 1]
    BY <2>1, HeadTailProperties, EmptySeq DEF TypeOK
  <2>4. Len(accepted') = Taken' + Len(m_listLinesToWrite')
    BY <1>2, <2>1, <2>2, <2>3 DEF ListInv
  <2>5. ASSUME NEW i \in 1..Len(m_listLinesToWrite') PROVE m_listLinesToWrite'[i] = accepted'[Taken' + i]
    <3>1. i + 1 \in 1..Len(m_listLinesToWrite) /\ Taken + (i + 1) = Taken' + i
      BY <1>2, <2>2, <2>3
    <3>2. m_listLinesToWrite[i + 1] = accepted[Taken + (i + 1)]
      BY <3>1 DEF ListInv
    <3>. QED  BY <2>1, <2>3, <3>1, <3>2
  <2>6. hand'[Writer] = accepted'[Len(handled') + 1]
    <3>1. 1 \in 1..Len(m_listLinesToWrite)
      BY <1>2, <2>3
    <3>2. m_listLinesToWrite[1] = accepted[Taken + 1]
      BY <3>1 DEF ListInv
    <3>. QED  BY <2>1, <2>2, <2>3, <3>2
  <2>. QED  BY <2>4, <2>5, <2>6 DEF ListInv
<1>9. CASE WriteLine \/ WriteFails
  <2>1. /\ accepted' = accepted /\ m_listLinesToWrite' = m_listLinesToWrite
        /\ handled' = Append(handled, hand[Writer]) /\ hand[Writer] \in Lines
        /\ pc[Writer] = "write" /\ pc'[Writer] # "write"
    BY <1>1, <1>9 DEF WriteLine, WriteFails, Goto, TypeOK, HandInv, listVars
  <2>2. Len(handled') = Len(handled) + 1
    BY <2>1, AppendProperties DEF TypeOK
  <2>3. Taken' = Taken
    BY <1>2, <2>1, <2>2 DEF Taken
  <2>. QED  BY <2>1, <2>3 DEF ListInv
<1>10. CASE UninitStep
  <2>1. pc'[Writer] = "write" <=> pc[Writer] = "write"
    BY <1>1, <1>10 DEF UninitStep, UninitFlag, UninitNotify, UninitJoin, Notify, TypeOK
  <2>2. UNCHANGED <<accepted, handled, m_listLinesToWrite, hand>>
    BY <1>10 DEF UninitStep, UninitFlag, UninitNotify, UninitJoin, listVars, localVars, doneVars
  <2>. QED  BY <2>1, <2>2, ListKept
<1>11. CASE Tick \/ \E n \in {LOG_LEVEL_INFO, LOG_LEVEL_ERROR} : SetLevel(n)
  BY <1>11, ListKept DEF Tick, SetLevel, listVars, localVars, doneVars
<1>12. CASE UNCHANGED vars
  BY <1>12, ListKept DEF vars, listVars, localVars, doneVars
<1>. QED  BY <1>1, <1>3, <1>4, <1>5, <1>6, <1>7, <1>8, <1>9, <1>10, <1>11, <1>12
             DEF Next, CallerStep, WriterStep

-----------------------------------------------------------------------------
(* The order of the lines in the files *)

\* Once a caller writes to the file itself the queued lines are disturbed for
\* ever: it ends its write by returning or by ending the process.
LEMMA StaysDisturbed ==
  ASSUME TypeOK, HandInv, [Next]_vars, Undisturbed'
  PROVE  Undisturbed
<1>1. Writer \in Procs /\ Threads \subseteq Procs /\ Writer \notin Threads
  BY LogAssumption DEF Procs
<1>2. ASSUME NEW t \in Threads, NEW l \in Lines, Output(t, l) PROVE Undisturbed
  BY <1>1, <1>2 DEF Output, Notify, Undisturbed, TypeOK, doneVars
<1>3. ASSUME NEW t \in Threads, NEW l \in Lines, OutputSync(t, l) PROVE Undisturbed
  BY <1>1, <1>3 DEF OutputSync, Goto, Undisturbed, TypeOK, doneVars
<1>4. ASSUME NEW p \in Procs, CloseFile(p) \/ OpenFile(p) \/ OpenFails(p) PROVE Undisturbed
  <2>1. /\ pc[p] # "write" /\ ~crashed /\ returned' = returned
        /\ \E w : pc' = [pc EXCEPT ![p] = w]
    BY <1>4 DEF CloseFile, OpenFile, OpenFails, Goto, doneVars
  <2>2. \A t \in Threads : t # p => pc'[t] = pc[t]
    BY <1>1, <2>1 DEF TypeOK
  <2>. QED  BY <2>1, <2>2 DEF Undisturbed
<1>5. ASSUME NEW t \in Threads, CheckFile(t) PROVE Undisturbed
  <2>1. /\ pc[t] # "write" /\ ~crashed /\ returned' = returned
        /\ \E w : pc' = [pc EXCEPT ![t] = w]
    BY <1>5 DEF CheckFile, Goto, doneVars
  <2>2. \A u \in Threads : u # t => pc'[u] = pc[u]
    BY <1>1, <2>1 DEF TypeOK
  <2>. QED  BY <2>1, <2>2 DEF Undisturbed
<1>6. ASSUME NEW t \in Threads, SysErrorWrite(t) \/ FatalWrite(t) PROVE FALSE
  <2>1. returned' # {} \/ crashed'
    BY <1>6 DEF SysErrorWrite, FatalWrite
  <2>. QED  BY <2>1 DEF Undisturbed
<1>7. CASE RollFile \/ TakeLine \/ ExitThread \/ SeesEmpty \/ Wait \/ WriteLine \/ WriteFails
  <2>1. ~crashed /\ returned' = returned /\ \E w : pc' = [pc EXCEPT ![Writer] = w]
    BY <1>7 DEF RollFile, TakeLine, ExitThread, SeesEmpty, Wait, WriteLine, WriteFails, Goto, doneVars
  <2>2. \A t \in Threads : pc'[t] = pc[t]
    BY <1>1, <2>1 DEF TypeOK
  <2>. QED  BY <2>1, <2>2 DEF Undisturbed
<1>8. CASE UninitStep
  <2>1. ~crashed /\ returned' = returned /\ \A t \in Threads : pc'[t] = pc[t]
    BY <1>1, <1>8 DEF UninitStep, UninitFlag, UninitNotify, UninitJoin, Notify, TypeOK, doneVars
  <2>. QED  BY <2>1 DEF Undisturbed
<1>9. CASE Tick \/ (\E n \in {LOG_LEVEL_INFO, LOG_LEVEL_ERROR} : SetLevel(n)) \/ UNCHANGED vars
  BY <1>9 DEF Tick, SetLevel, vars, Undisturbed, doneVars
<1>. QED  BY <1>1, <1>2, <1>3, <1>4, <1>5, <1>6, <1>7, <1>8, <1>9 DEF Next, CallerStep, WriterStep

\* The histories only grow.
Grows ==
    /\ DOMAIN accepted \subseteq DOMAIN accepted' /\ \A a \in DOMAIN accepted : accepted'[a] = accepted[a]
    /\ 1..Len(handled) \subseteq 1..Len(handled')

\* No file gets a line.
NoLine == \A n \in Names : file'[n] = file[n] \/ file'[n] = <<>>

LEMMA InOrderKept ==
  ASSUME FilesInOrder, FilesHandled, Grows, NoLine
  PROVE  FilesInOrder' /\ FilesHandled'
<1>1. \A n \in Names : \A i \in DOMAIN file'[n] : i \in DOMAIN file[n] /\ file'[n][i] = file[n][i]
  <2>1. DOMAIN <<>> = {}
    OBVIOUS
  <2>. QED  BY <2>1 DEF NoLine
<1>2. FilesInOrder'
  <2> SUFFICES ASSUME NEW m \in Names, NEW n \in Names, NEW i \in DOMAIN file'[m], NEW j \in DOMAIN file'[n],
                      Earlier(m, i, n, j)
               PROVE  \E a, b \in DOMAIN accepted' :
                          a < b /\ accepted'[a] = file'[m][i] /\ accepted'[b] = file'[n][j]
    BY DEF FilesInOrder, Earlier
  <2>1. PICK a \in DOMAIN accepted, b \in DOMAIN accepted :
            a < b /\ accepted[a] = file[m][i] /\ accepted[b] = file[n][j]
    BY <1>1 DEF FilesInOrder
  <2>2. /\ a \in DOMAIN accepted' /\ b \in DOMAIN accepted'
        /\ accepted'[a] = file'[m][i] /\ accepted'[b] = file'[n][j]
    BY <1>1, <2>1 DEF Grows
  <2>. QED  BY <2>1, <2>2
<1>3. FilesHandled'
  <2> SUFFICES ASSUME NEW n \in Names, NEW i \in DOMAIN file'[n]
               PROVE  \E a \in 1..Len(handled') : a \in DOMAIN accepted' /\ accepted'[a] = file'[n][i]
    BY DEF FilesHandled
  <2>1. PICK a \in 1..Len(handled) : a \in DOMAIN accepted /\ accepted[a] = file[n][i]
    BY <1>1 DEF FilesHandled
  <2>. QED  BY <1>1, <2>1 DEF Grows
<1>. QED  BY <1>2, <1>3

\* The file in use and the one about to be opened stay the newest.
LEMMA NewestKept ==
  ASSUME FilesNewest, NoLine, now \in Int, now' \in Int, now <= now', name[Writer] \in Int,
         m_hLogFile \in Int,
         m_hLogFile' = m_hLogFile \/ m_hLogFile' = nullptr,
         pc'[Writer] \in {"close", "open"} => pc[Writer] \in {"close", "open"} /\ name'[Writer] = name[Writer]
  PROVE  FilesNewest'
<1>1. \A n \in Names : file'[n] # <<>> => file[n] # <<>>
  BY DEF NoLine
<1>2. ASSUME NEW m \in Int, NewestIs(m), NEW k, k = m PROVE k <= now' /\ \A n \in Names : file'[n] # <<>> => n <= k
  BY <1>1, <1>2 DEF NewestIs
<1>3. \A n \in Names : file'[n] # <<>> => n <= now'
  BY <1>1, LogAssumption DEF FilesNewest, NewestIs, Names
<1>4. NewestIs(now)'
  BY <1>3 DEF NewestIs
<1>5. m_hLogFile' # nullptr => NewestIs(m_hLogFile)'
  BY <1>2 DEF FilesNewest, NewestIs
<1>6. pc'[Writer] \in {"close", "open"} => NewestIs(name[Writer])'
  BY <1>2 DEF FilesNewest, NewestIs
<1>. QED  BY <1>4, <1>5, <1>6 DEF FilesNewest

\* The next line handled goes to the end of the newest file.
LEMMA AppendInOrder ==
  ASSUME TypeOK, ListInv, FilesInOrder, FilesHandled, NewestIs(m_hLogFile), m_hLogFile \in Names,
         hand[Writer] \in Lines, pc[Writer] = "write",
         accepted' = accepted, handled' = Append(handled, hand[Writer]),
         file' = [file EXCEPT ![m_hLogFile] = Append(file[m_hLogFile], hand[Writer])]
  PROVE  FilesInOrder' /\ FilesHandled'
<1> DEFINE k == Len(handled) + 1
           f == m_hLogFile
           l == hand[Writer]
           e == Len(file[f]) + 1
<1>1. Len(accepted) \in Nat /\ Len(handled) \in Nat /\ Len(m_listLinesToWrite) \in Nat /\ DOMAIN accepted = 1..Len(accepted)
  BY LenProperties DEF TypeOK
<1>2. k \in DOMAIN accepted /\ accepted[k] = l /\ 1..Len(handled) \subseteq DOMAIN accepted
  BY <1>1 DEF ListInv, Taken
<1>3. Len(handled') = k
  BY AppendProperties DEF TypeOK
<1>4. /\ file'[f] = Append(file[f], l) /\ \A n \in Names : n # f => file'[n] = file[n]
      /\ file[f] \in Seq(Lines)
  BY DEF TypeOK
<1>5. /\ Len(file[f]) \in Nat /\ DOMAIN file[f] = 1..Len(file[f])
      /\ file'[f] \in Seq(Lines) /\ Len(file'[f]) = e
      /\ \A i \in 1..Len(file[f]) : file'[f][i] = file[f][i]
      /\ file'[f][e] = l
  BY <1>4, AppendProperties, LenProperties
<1>6. DOMAIN file'[f] = 1..e
  BY <1>5, LenProperties
<1>7. ASSUME NEW n \in Names, NEW i \in DOMAIN file'[n], ~(n = f /\ i = e)
      PROVE  i \in DOMAIN file[n] /\ file'[n][i] = file[n][i]
  <2>1. CASE n # f
    BY <1>4, <2>1
  <2>2. CASE n = f
    <3>1. i \in 1..Len(file[f])
      BY <1>5, <1>6, <1>7, <2>2
    <3>. QED  BY <1>5, <2>2, <3>1
  <2>. QED  BY <2>1, <2>2
<1>8. ASSUME NEW n \in Names, NEW j \in DOMAIN file'[n], Earlier(f, e, n, j) PROVE FALSE
  <2>1. CASE n = f
    <3>1. j <= e /\ j \in Int
      BY <1>5, <1>6, <2>1
    <3>2. ~(f < f)
      BY LogAssumption DEF Names
    <3>. QED  BY <1>5, <1>8, <2>1, <3>1, <3>2 DEF Earlier
  <2>2. CASE n # f
    <3>1. file[n] # <<>>
      BY <1>4, <2>2
    <3>2. n <= f
      BY <3>1 DEF NewestIs
    <3>. QED  BY <1>8, <2>2, <3>2, LogAssumption DEF Earlier, Names
  <2>. QED  BY <2>1, <2>2
<1>9. FilesInOrder'
  <2> SUFFICES ASSUME NEW m \in Names, NEW n \in Names, NEW i \in DOMAIN file'[m], NEW j \in DOMAIN file'[n],
                      Earlier(m, i, n, j)
               PROVE  \E a, b \in DOMAIN accepted :
                          a < b /\ accepted[a] = file'[m][i] /\ accepted[b] = file'[n][j]
    BY DEF FilesInOrder, Earlier
  <2>1. ~(m = f /\ i = e)
    BY <1>8
  <2>2. i \in DOMAIN file[m] /\ file'[m][i] = file[m][i]
    BY <1>7, <2>1
  <2>3. CASE n = f /\ j = e
    <3>1. PICK a \in 1..Len(handled) : a \in DOMAIN accepted /\ accepted[a] = file[m][i]
      BY <2>2 DEF FilesHandled
    <3>2. a < k
      BY <1>1
    <3>3. file'[n][j] = l
      BY <1>5, <2>3
    <3> HIDE DEF k, l
    <3>. QED  BY <1>2, <2>2, <3>1, <3>2, <3>3
  <2>4. CASE ~(n = f /\ j = e)
    <3>1. j \in DOMAIN file[n] /\ file'[n][j] = file[n][j]
      BY <1>7, <2>4
    <3>. QED  BY <2>2, <3>1 DEF FilesInOrder
  <2>. QED  BY <2>3, <2>4
<1>10. FilesHandled'
  <2> SUFFICES ASSUME NEW n \in Names, NEW i \in DOMAIN file'[n]
               PROVE  \E a \in 1..k : a \in DOMAIN accepted /\ accepted[a] = file'[n][i]
    BY <1>3 DEF FilesHandled
  <2>1. CASE n = f /\ i = e
    <3>1. k \in 1..k
      BY <1>1
    <3>. QED  BY <1>2, <1>5, <2>1, <3>1
  <2>2. CASE ~(n = f /\ i = e)
    <3>1. i \in DOMAIN file[n] /\ file'[n][i] = file[n][i]
      BY <1>7, <2>2
    <3>2. PICK a \in 1..Len(handled) : a \in DOMAIN accepted /\ accepted[a] = file[n][i]
      BY <3>1 DEF FilesHandled
    <3>3. a \in 1..k
      BY <1>1
    <3>. QED  BY <3>1, <3>2, <3>3
  <2>. QED  BY <2>1, <2>2
<1>. QED  BY <1>9, <1>10

LEMMA OrderNext ==
  ASSUME TypeOK, HandInv, ListInv, OrderInv, [Next]_vars
  PROVE  OrderInv'
<1> SUFFICES ASSUME Undisturbed' PROVE (FilesInOrder /\ FilesHandled /\ FilesNewest)'
  BY DEF OrderInv
<1>1. FilesInOrder /\ FilesHandled /\ FilesNewest
  BY StaysDisturbed DEF OrderInv
<1>2. Writer \in Procs /\ Threads \subseteq Procs /\ Writer \notin Threads
  BY LogAssumption DEF Procs
<1>3. now \in Int /\ name[Writer] \in Int /\ m_hLogFile \in Int /\ now <= now
  BY <1>2, LogAssumption DEF TypeOK, Names, nullptr
<1>4. accepted' = accepted /\ handled' = handled => Grows
  BY DEF Grows
<1>5. file' = file => NoLine
  BY DEF NoLine
<1>6. ASSUME NEW t \in Threads, NEW l \in Lines, Output(t, l) PROVE (FilesInOrder /\ FilesHandled /\ FilesNewest)'
  <2>1. /\ accepted' = Append(accepted, l)
        /\ UNCHANGED <<now, m_hLogFile, file, name, handled>>
        /\ pc'[Writer] \in {"close", "open"} => pc[Writer] \in {"close", "open"}
    BY <1>2, <1>6 DEF Output, Notify, TypeOK, envVars, fileVars, localVars, doneVars
  <2>2. Grows
    <3>1. /\ Len(accepted') = Len(accepted) + 1 /\ accepted' \in Seq(Lines)
          /\ \A a \in 1..Len(accepted) : accepted'[a] = accepted[a]
      BY <2>1, AppendProperties DEF TypeOK
    <3>2. DOMAIN accepted = 1..Len(accepted) /\ DOMAIN accepted' = 1..Len(accepted') /\ Len(accepted) \in Nat
      BY <3>1, LenProperties DEF TypeOK
    <3>. QED  BY <2>1, <3>1, <3>2 DEF Grows
  <2>. QED  BY <1>1, <1>3, <1>5, <2>1, <2>2, InOrderKept, NewestKept
<1>7. ASSUME NEW t \in Threads, NEW l \in Lines, OutputSync(t, l)
      PROVE  (FilesInOrder /\ FilesHandled /\ FilesNewest)'
  <2>1. UNCHANGED <<now, m_hLogFile, file, name, accepted, handled>> /\ pc'[Writer] = pc[Writer]
    BY <1>2, <1>7 DEF OutputSync, Goto, TypeOK, envVars, listVars, fileVars, doneVars
  <2>. QED  BY <1>1, <1>3, <1>4, <1>5, <2>1, InOrderKept, NewestKept
<1>8. ASSUME NEW t \in Threads, CheckFile(t) PROVE (FilesInOrder /\ FilesHandled /\ FilesNewest)'
  <2>1. /\ UNCHANGED <<now, m_hLogFile, file, accepted, handled>>
        /\ pc'[Writer] = pc[Writer] /\ name'[Writer] = name[Writer]
    BY <1>2, <1>8 DEF CheckFile, Goto, TypeOK, envVars, listVars, fileVars, doneVars
  <2>. QED  BY <1>1, <1>3, <1>4, <1>5, <2>1, InOrderKept, NewestKept
<1>9. ASSUME NEW p \in Procs, CloseFile(p) PROVE (FilesInOrder /\ FilesHandled /\ FilesNewest)'
  <2>1. /\ UNCHANGED <<now, m_hLogFile, file, accepted, handled, name>>
        /\ pc'[Writer] \in {"close", "open"} => pc[Writer] \in {"close", "open"}
    BY <1>2, <1>9 DEF CloseFile, Goto, TypeOK, envVars, listVars, localVars, doneVars
  <2>. QED  BY <1>1, <1>3, <1>4, <1>5, <2>1, InOrderKept, NewestKept
<1>10. ASSUME NEW t \in Threads, OpenFile(t) PROVE FALSE
  BY <1>2, <1>10 DEF OpenFile, Goto, Undisturbed, TypeOK
<1>11. CASE OpenFile(Writer)
  <2>1. /\ UNCHANGED <<now, accepted, handled>> /\ m_hLogFile' = name[Writer]
        /\ file' = [file EXCEPT ![name[Writer]] = <<>>]
        /\ pc[Writer] = "open" /\ pc'[Writer] = "lock"
    BY <1>2, <1>11 DEF OpenFile, Goto, TypeOK, envVars, listVars, doneVars
  <2>2. NoLine
    BY <2>1 DEF NoLine, TypeOK
  <2>3. NewestIs(name[Writer]) /\ NewestIs(now)
    BY <1>1, <2>1 DEF FilesNewest
  <2>4. (\A n \in Names : file'[n] # <<>> => n <= now /\ n <= name[Writer]) /\ name[Writer] <= now
    BY <2>2, <2>3 DEF NoLine, NewestIs
  <2>5. FilesNewest'
    BY <1>3, <2>1, <2>4 DEF FilesNewest, NewestIs
  <2>. QED  BY <1>1, <1>4, <2>1, <2>2, <2>5, InOrderKept
<1>12. ASSUME NEW p \in Procs, OpenFails(p) PROVE (FilesInOrder /\ FilesHandled /\ FilesNewest)'
  <2>1. /\ UNCHANGED <<now, file, accepted, handled>> /\ m_hLogFile' = nullptr
        /\ pc'[Writer] \in {"close", "open"} => pc[Writer] \in {"close", "open"} /\ name'[Writer] = name[Writer]
    BY <1>2, <1>12 DEF OpenFails, Goto, TypeOK, envVars, listVars
  <2>. QED  BY <1>1, <1>3, <1>4, <1>5, <2>1, InOrderKept, NewestKept
<1>13. ASSUME NEW t \in Threads, SysErrorWrite(t) \/ FatalWrite(t) PROVE FALSE
  <2>1. returned' # {} \/ crashed'
    BY <1>13 DEF SysErrorWrite, FatalWrite
  <2>. QED  BY <2>1 DEF Undisturbed
<1>14. CASE RollFile
  <2>1. UNCHANGED <<now, file, m_hLogFile, accepted, handled>>
    BY <1>14 DEF RollFile, envVars, listVars, fileVars, doneVars
  <2>2. CASE name'[Writer] = now
    BY <1>1, <1>4, <1>5, <2>1, <2>2, InOrderKept DEF FilesNewest, NewestIs
  <2>3. CASE pc' = [pc EXCEPT ![Writer] = "lock"]
    <3>1. pc'[Writer] = "lock"
      BY <1>2, <2>3 DEF TypeOK
    <3>. QED  BY <1>1, <1>3, <1>4, <1>5, <2>1, <3>1, InOrderKept, NewestKept
  <2>. QED  BY <1>2, <1>14, <2>2, <2>3 DEF RollFile, Goto, TypeOK
<1>15. CASE TakeLine \/ ExitThread \/ SeesEmpty \/ Wait
  <2>1. UNCHANGED <<now, file, m_hLogFile, accepted, handled>> /\ pc'[Writer] \notin {"close", "open"}
    BY <1>2, <1>15 DEF TakeLine, ExitThread, SeesEmpty, Wait, Goto, TypeOK, envVars, listVars, fileVars, doneVars
  <2>. QED  BY <1>1, <1>3, <1>4, <1>5, <2>1, InOrderKept, NewestKept
<1>16. ASSUME handled' = Append(handled, hand[Writer]), hand[Writer] \in Lines, accepted' = accepted PROVE Grows
  <2>1. Len(handled') = Len(handled) + 1 /\ Len(handled) \in Nat
    BY <1>16, AppendProperties, LenProperties DEF TypeOK
  <2>. QED  BY <1>16, <2>1 DEF Grows
<1>17. CASE WriteLine
  <2>1. /\ UNCHANGED <<now, m_hLogFile, accepted>> /\ handled' = Append(handled, hand[Writer])
        /\ pc[Writer] = "write" /\ pc'[Writer] = "roll" /\ hand[Writer] \in Lines /\ WriteToFile(Writer)
    BY <1>2, <1>17 DEF WriteLine, HandInv, Goto, TypeOK, envVars, listVars
  <2>2. \/ file' = file
        \/ /\ isOpen /\ m_hLogFile \in Names
           /\ file' = [file EXCEPT ![m_hLogFile] = Append(file[m_hLogFile], hand[Writer])]
    BY <1>2, <2>1, WriteFile DEF HandInv
  <2>3. CASE file' = file
    BY <1>1, <1>3, <1>5, <1>16, <2>1, <2>3, InOrderKept, NewestKept
  <2>4. CASE /\ isOpen /\ m_hLogFile \in Names
             /\ file' = [file EXCEPT ![m_hLogFile] = Append(file[m_hLogFile], hand[Writer])]
    <3>1. NewestIs(m_hLogFile) /\ NewestIs(now)
      BY <1>1, <2>4 DEF FilesNewest, HandInv
    <3>2. FilesInOrder' /\ FilesHandled'
      BY <1>1, <2>1, <2>4, <3>1, AppendInOrder
    <3>3. ASSUME NEW n \in Names, file'[n] # <<>> PROVE n <= m_hLogFile /\ n <= now
      <4>1. CASE n = m_hLogFile
        <5>1. n <= n
          BY LogAssumption DEF Names
        <5>. QED  BY <3>1, <4>1, <5>1 DEF NewestIs
      <4>2. CASE n # m_hLogFile
        <5>1. file'[n] = file[n]
          BY <2>4, <4>2 DEF TypeOK
        <5>. QED  BY <3>1, <3>3, <5>1 DEF NewestIs
      <4>. QED  BY <4>1, <4>2
    <3>4. FilesNewest'
      BY <1>3, <2>1, <3>1, <3>3 DEF FilesNewest, NewestIs
    <3>. QED  BY <3>2, <3>4
  <2>. QED  BY <2>2, <2>3, <2>4
<1>18. CASE WriteFails
  <2>1. /\ UNCHANGED <<now, m_hLogFile, file, accepted>> /\ handled' = Append(handled, hand[Writer])
        /\ pc'[Writer] = "done" /\ hand[Writer] \in Lines
    BY <1>2, <1>18 DEF WriteFails, HandInv, Goto, TypeOK, envVars, listVars, fileVars
  <2>. QED  BY <1>1, <1>3, <1>5, <1>16, <2>1, InOrderKept, NewestKept
<1>19. CASE UninitStep
  <2>1. /\ UNCHANGED <<now, file, name, accepted, handled>> /\ (m_hLogFile' = m_hLogFile \/ m_hLogFile' = nullptr)
        /\ pc'[Writer] \in {"close", "open"} => pc[Writer] \in {"close", "open"}
    BY <1>2, <1>19 DEF UninitStep, UninitFlag, UninitNotify, UninitJoin, Notify, TypeOK,
                       envVars, listVars, fileVars, localVars, doneVars
  <2>. QED  BY <1>1, <1>3, <1>4, <1>5, <2>1, InOrderKept, NewestKept
<1>20. CASE Tick
  <2>1. UNCHANGED <<file, m_hLogFile, name, accepted, handled, pc>> /\ now' \in Int /\ now <= now'
    BY <1>3, <1>20 DEF Tick, listVars, fileVars, localVars, doneVars
  <2>. QED  BY <1>1, <1>3, <1>4, <1>5, <2>1, InOrderKept, NewestKept
<1>21. CASE (\E n \in {LOG_LEVEL_INFO, LOG_LEVEL_ERROR} : SetLevel(n)) \/ UNCHANGED vars
  <2>1. UNCHANGED <<now, file, m_hLogFile, name, accepted, handled, pc>>
    BY <1>21 DEF SetLevel, vars, envVars, listVars, fileVars, localVars, doneVars
  <2>. QED  BY <1>1, <1>3, <1>4, <1>5, <2>1, InOrderKept, NewestKept
<1>. QED  BY <1>2, <1>6, <1>7, <1>8, <1>9, <1>10, <1>11, <1>12, <1>13, <1>14, <1>15, <1>17, <1>18, <1>19, <1>20, <1>21
             DEF Next, CallerStep, WriterStep, Procs

-----------------------------------------------------------------------------
(* The size of the files *)

\* The bytes in a file are a number.
LEMMA FileSizeNat ==
  ASSUME TypeOK, NEW n \in Names
  PROVE  QueuedSize(file[n], Len(file[n])) \in Nat
<1>1. file[n] \in Seq(Lines) /\ Len(file[n]) \in 0..Len(file[n])
  BY LenProperties DEF TypeOK
<1>. QED  BY <1>1, QueuedSizeIsSum

\* A file keeps its bound when it is emptied.
LEMMA BoundKept ==
  ASSUME RollBound, NoLine
  PROVE  RollBound'
<1>1. DOMAIN <<>> = {}
  OBVIOUS
<1>. QED  BY <1>1 DEF RollBound, NoLine

\* One more line in the file in use: a line of a caller counts for nothing, a
\* line of the write thread is allowed below the roll size.
LEMMA BoundAppended ==
  ASSUME TypeOK, RollBound, NEW f \in Names, NEW l \in Lines,
         file' = [file EXCEPT ![f] = Append(file[f], l)],
         ~IsSync(l) => QueuedSize(file[f], Len(file[f])) < RollSize
  PROVE  /\ RollBound'
         /\ QueuedSize(file'[f], Len(file'[f])) = QueuedSize(file[f], Len(file[f])) + Queued(l)
<1>1. file'[f] = Append(file[f], l) /\ (\A n \in Names : n # f => file'[n] = file[n]) /\ file[f] \in Seq(Lines)
  BY DEF TypeOK
<1>2. /\ Len(file[f]) \in Nat /\ DOMAIN file[f] = 1..Len(file[f])
      /\ Len(file'[f]) = Len(file[f]) + 1 /\ DOMAIN file'[f] = 1..(Len(file[f]) + 1)
      /\ \A i \in 1..Len(file[f]) : file'[f][i] = file[f][i]
      /\ file'[f][Len(file[f]) + 1] = l
  <2>1. file'[f] \in Seq(Lines)
    BY <1>1, AppendProperties
  <2>. QED  BY <1>1, <2>1, AppendProperties, LenProperties
<1>3. /\ \A n \in 0..Len(file[f]) : QueuedSize(file'[f], n) = QueuedSize(file[f], n)
      /\ QueuedSize(file'[f], Len(file[f]) + 1) = QueuedSize(file[f], Len(file[f])) + Queued(l)
  BY <1>1, QueuedSizeAppend
<1>4. ASSUME NEW n \in Names, NEW i \in DOMAIN file'[n], ~IsSync(file'[n][i])
      PROVE  QueuedSize(file'[n], i - 1) < RollSize
  <2>1. CASE n # f
    BY <1>1, <1>4, <2>1 DEF RollBound
  <2>2. CASE n = f /\ i = Len(file[f]) + 1
    <3>1. i - 1 = Len(file[f]) /\ Len(file[f]) \in 0..Len(file[f])
      BY <1>2, <2>2
    <3>. QED  BY <1>2, <1>3, <1>4, <2>2, <3>1
  <2>3. CASE n = f /\ i # Len(file[f]) + 1
    <3>1. i \in 1..Len(file[f]) /\ i - 1 \in 0..Len(file[f])
      BY <1>2, <2>3
    <3>2. QueuedSize(file[f], i - 1) < RollSize
      BY <1>2, <1>4, <2>3, <3>1 DEF RollBound
    <3>. QED  BY <1>3, <2>3, <3>1, <3>2
  <2>. QED  BY <2>1, <2>2, <2>3
<1>5. RollBound'
  BY <1>4 DEF RollBound
<1>. QED  BY <1>2, <1>3, <1>5

\* A step that writes no line, opens no file and moves the write thread only
\* where the size allows it.
LEMMA SizeKept ==
  ASSUME SizeInv, RollBound, file' = file, m_nCurrentWrittenSize' = m_nCurrentWrittenSize,
         isOpen' => isOpen /\ m_hLogFile' = m_hLogFile,
         \/ pc'[Writer] = pc[Writer]
         \/ pc'[Writer] \in {"done", "idle"} /\ pc[Writer] # "close"
         \/ pc'[Writer] \in {"lock", "empty", "wait", "write"} /\ pc[Writer] \in {"lock", "empty", "wait", "write"}
  PROVE  SizeInv' /\ RollBound'
<1>1. RollBound'
  BY BoundKept DEF NoLine
<1>2. SizeInv'
  BY DEF SizeInv
<1>. QED  BY <1>1, <1>2

LEMMA SizeNext ==
  ASSUME TypeOK, HandInv, SizeInv, RollBound, [Next]_vars
  PROVE  SizeInv' /\ RollBound'
<1>1. Writer \in Procs /\ Threads \subseteq Procs /\ Writer \notin Threads
  BY LogAssumption DEF Procs
<1>2. m_nCurrentWrittenSize \in Nat /\ RollSize \in Nat \ {0}
  BY LogAssumption DEF TypeOK
<1>3. ASSUME NEW t \in Threads, NEW l \in Lines, Output(t, l) \/ OutputSync(t, l) PROVE SizeInv' /\ RollBound'
  <2>1. /\ UNCHANGED <<file, m_hLogFile, isOpen, m_nCurrentWrittenSize>>
        /\ pc'[Writer] = pc[Writer] \/ (pc[Writer] = "wait" /\ pc'[Writer] = "lock")
    BY <1>1, <1>3 DEF Output, OutputSync, Notify, Goto, TypeOK, fileVars
  <2>. QED  BY <2>1, SizeKept
<1>4. ASSUME NEW t \in Threads, CheckFile(t) PROVE SizeInv' /\ RollBound'
  <2>1. UNCHANGED <<file, m_hLogFile, isOpen, m_nCurrentWrittenSize>> /\ pc'[Writer] = pc[Writer]
    BY <1>1, <1>4 DEF CheckFile, Goto, TypeOK, fileVars
  <2>. QED  BY <2>1, SizeKept
<1>5. ASSUME NEW p \in Procs, CloseFile(p) PROVE SizeInv' /\ RollBound'
  <2>1. UNCHANGED <<file, m_nCurrentWrittenSize>> /\ isOpen' = FALSE
    BY <1>5 DEF CloseFile
  <2>2. CASE p # Writer
    <3>1. pc'[Writer] = pc[Writer]
      BY <1>1, <1>5, <2>2 DEF CloseFile, Goto, TypeOK
    <3>. QED  BY <2>1, <3>1, SizeKept
  <2>3. CASE p = Writer
    <3>1. pc[Writer] = "close" /\ pc'[Writer] = "open"
      BY <1>1, <1>5, <2>3 DEF CloseFile, Goto, TypeOK
    <3>2. RollBound'
      BY <2>1, BoundKept DEF NoLine
    <3>. QED  BY <2>1, <3>1, <3>2 DEF SizeInv
  <2>. QED  BY <2>2, <2>3
<1>6. ASSUME NEW p \in Procs, OpenFile(p) PROVE SizeInv' /\ RollBound'
  <2>1. /\ name[p] \in Names /\ m_hLogFile' = name[p] /\ file' = [file EXCEPT ![name[p]] = <<>>]
        /\ m_nCurrentWrittenSize' = m_nCurrentWrittenSize
    BY <1>6 DEF OpenFile, TypeOK
  <2>2. file'[name[p]] = <<>> /\ NoLine
    BY <2>1 DEF NoLine, TypeOK
  <2>3. QueuedSize(file'[m_hLogFile'], Len(file'[m_hLogFile'])) = 0
    <3>1. <<>> \in Seq(Lines) /\ Len(<<>>) = 0
      BY EmptySeq
    <3>. QED  BY <2>1, <2>2, <3>1, QueuedSizeZero
  <2>4. \/ pc'[Writer] = pc[Writer]
        \/ pc[Writer] = "open" /\ pc'[Writer] = "lock"
    <3>1. CASE p = Writer
      BY <1>1, <1>6, <3>1 DEF OpenFile, Goto, TypeOK
    <3>2. CASE p # Writer
      BY <1>1, <1>6, <3>2 DEF OpenFile, Goto, TypeOK
    <3>. QED  BY <3>1, <3>2
  <2>5. SizeInv'
    BY <1>2, <2>1, <2>3, <2>4 DEF SizeInv
  <2>. QED  BY <2>2, <2>5, BoundKept
<1>7. ASSUME NEW p \in Procs, OpenFails(p) PROVE SizeInv' /\ RollBound'
  <2>1. UNCHANGED <<file, m_nCurrentWrittenSize>> /\ isOpen' = FALSE /\ pc[p] = "open"
    BY <1>7 DEF OpenFails
  <2>2. CASE p # Writer
    <3>1. pc'[Writer] = pc[Writer]
      BY <1>1, <1>7, <2>2 DEF OpenFails, Goto, TypeOK
    <3>. QED  BY <2>1, <3>1, SizeKept
  <2>3. CASE p = Writer
    <3>1. pc'[Writer] = "done"
      BY <1>1, <1>7, <2>3 DEF OpenFails, Goto, TypeOK
    <3>. QED  BY <2>1, <2>3, <3>1, SizeKept
  <2>. QED  BY <2>2, <2>3
<1>8. ASSUME NEW t \in Threads, SysErrorWrite(t) \/ FatalWrite(t) PROVE SizeInv' /\ RollBound'
  <2>1. /\ WriteToFile(t) /\ UNCHANGED <<m_hLogFile, isOpen, m_nCurrentWrittenSize>>
        /\ hand[t] \in Lines /\ IsSync(hand[t])
    BY <1>8 DEF SysErrorWrite, FatalWrite, HandInv, IsSync
  <2>2. pc'[Writer] = pc[Writer]
    BY <1>1, <1>8 DEF SysErrorWrite, FatalWrite, Goto, TypeOK
  <2>3. \/ file' = file
        \/ /\ isOpen /\ m_hLogFile \in Names
           /\ file' = [file EXCEPT ![m_hLogFile] = Append(file[m_hLogFile], hand[t])]
    BY <1>1, <2>1, WriteFile DEF HandInv
  <2>4. CASE file' = file
    BY <2>1, <2>2, <2>4, SizeKept
  <2>5. CASE /\ isOpen /\ m_hLogFile \in Names
             /\ file' = [file EXCEPT ![m_hLogFile] = Append(file[m_hLogFile], hand[t])]
    <3>1. /\ RollBound'
          /\ QueuedSize(file'[m_hLogFile], Len(file'[m_hLogFile]))
                = QueuedSize(file[m_hLogFile], Len(file[m_hLogFile])) + Queued(hand[t])
      BY <2>1, <2>5, BoundAppended
    <3>2. Queued(hand[t]) = 0 /\ QueuedSize(file[m_hLogFile], Len(file[m_hLogFile])) \in Nat
      BY <2>1, <2>5, FileSizeNat DEF Queued
    <3>3. QueuedSize(file'[m_hLogFile], Len(file'[m_hLogFile])) = QueuedSize(file[m_hLogFile], Len(file[m_hLogFile]))
      BY <3>1, <3>2
    <3>. QED  BY <2>1, <2>2, <3>1, <3>3 DEF SizeInv
  <2>. QED  BY <2>3, <2>4, <2>5
<1>9. CASE RollFile
  <2>1. UNCHANGED <<file, m_hLogFile, isOpen>>
    BY <1>9 DEF RollFile, fileVars
  <2>2. RollBound'
    BY <2>1, BoundKept DEF NoLine
  <2>3. \/ pc'[Writer] = "close" /\ m_nCurrentWrittenSize' = 0
        \/ /\ pc[Writer] = "roll" /\ pc'[Writer] = "lock" /\ m_nCurrentWrittenSize' = m_nCurrentWrittenSize
           /\ ~(m_nCurrentWrittenSize >= RollSize)
    BY <1>1, <1>9 DEF RollFile, Goto, TypeOK
  <2>4. SizeInv'
    BY <1>2, <2>1, <2>3 DEF SizeInv
  <2>. QED  BY <2>2, <2>4
<1>10. CASE TakeLine \/ ExitThread \/ SeesEmpty \/ Wait
  <2>1. /\ UNCHANGED <<file, m_hLogFile, isOpen, m_nCurrentWrittenSize>>
        /\ pc[Writer] \in {"lock", "empty"} /\ pc'[Writer] \in {"empty", "wait", "write", "done"}
    BY <1>1, <1>10 DEF TakeLine, ExitThread, SeesEmpty, Wait, Goto, TypeOK, fileVars
  <2>. QED  BY <2>1, SizeKept
<1>11. CASE WriteLine
  <2>1. /\ WriteToFile(Writer) /\ UNCHANGED <<m_hLogFile, isOpen>> /\ hand[Writer] \in Lines
        /\ pc[Writer] = "write" /\ pc'[Writer] = "roll"
        /\ m_nCurrentWrittenSize' = m_nCurrentWrittenSize + Length[hand[Writer]]
    BY <1>1, <1>11 DEF WriteLine, HandInv, Goto, TypeOK
  <2>2. \/ file' = file
        \/ /\ isOpen /\ m_hLogFile \in Names
           /\ file' = [file EXCEPT ![m_hLogFile] = Append(file[m_hLogFile], hand[Writer])]
    BY <1>1, <2>1, WriteFile DEF HandInv
  <2>3. Length[hand[Writer]] \in Nat /\ Queued(hand[Writer]) \in {0, Length[hand[Writer]]}
    BY <2>1, LogAssumption DEF Queued
  <2>4. isOpen => m_hLogFile \in Names
    BY DEF HandInv, TypeOK
  <2>5. isOpen => /\ QueuedSize(file[m_hLogFile], Len(file[m_hLogFile])) \in Nat
                  /\ QueuedSize(file[m_hLogFile], Len(file[m_hLogFile])) <= m_nCurrentWrittenSize
    BY <2>1, <2>4, FileSizeNat DEF SizeInv
  <2>6. CASE file' = file
    <3>1. RollBound'
      BY <2>6, BoundKept DEF NoLine
    <3>2. isOpen => QueuedSize(file[m_hLogFile], Len(file[m_hLogFile])) <= m_nCurrentWrittenSize'
      BY <1>2, <2>1, <2>3, <2>5
    <3>. QED  BY <2>1, <2>6, <3>1, <3>2 DEF SizeInv
  <2>7. CASE /\ isOpen /\ m_hLogFile \in Names
             /\ file' = [file EXCEPT ![m_hLogFile] = Append(file[m_hLogFile], hand[Writer])]
    <3>1. m_nCurrentWrittenSize < RollSize
      BY <2>1 DEF SizeInv
    <3>2. QueuedSize(file[m_hLogFile], Len(file[m_hLogFile])) < RollSize
      BY <1>2, <2>5, <2>7, <3>1
    <3>3. /\ RollBound'
          /\ QueuedSize(file'[m_hLogFile], Len(file'[m_hLogFile]))
                = QueuedSize(file[m_hLogFile], Len(file[m_hLogFile])) + Queued(hand[Writer])
      BY <2>1, <2>7, <3>2, BoundAppended
    <3>4. QueuedSize(file'[m_hLogFile], Len(file'[m_hLogFile])) <= m_nCurrentWrittenSize'
      BY <1>2, <2>1, <2>3, <2>5, <2>7, <3>3
    <3>. QED  BY <2>1, <3>3, <3>4 DEF SizeInv
  <2>. QED  BY <2>2, <2>6, <2>7
<1>12. CASE WriteFails
  <2>1. /\ UNCHANGED <<file, m_hLogFile, isOpen, m_nCurrentWrittenSize>>
        /\ pc[Writer] = "write" /\ pc'[Writer] = "done"
    BY <1>1, <1>12 DEF WriteFails, Goto, TypeOK, fileVars
  <2>. QED  BY <2>1, SizeKept
<1>13. CASE UninitStep
  <2>1. /\ UNCHANGED <<file, m_nCurrentWrittenSize>> /\ (isOpen' => isOpen /\ m_hLogFile' = m_hLogFile)
        /\ pc'[Writer] = pc[Writer] \/ (pc[Writer] = "wait" /\ pc'[Writer] = "lock")
    BY <1>1, <1>13 DEF UninitStep, UninitFlag, UninitNotify, UninitJoin, Notify, TypeOK, fileVars
  <2>. QED  BY <2>1, SizeKept
<1>14. CASE Tick \/ (\E n \in {LOG_LEVEL_INFO, LOG_LEVEL_ERROR} : SetLevel(n)) \/ UNCHANGED vars
  <2>1. UNCHANGED <<file, m_hLogFile, isOpen, m_nCurrentWrittenSize, pc>>
    BY <1>14 DEF Tick, SetLevel, vars, fileVars
  <2>. QED  BY <2>1, SizeKept
<1>. QED  BY <1>1, <1>3, <1>4, <1>5, <1>6, <1>7, <1>8, <1>9, <1>10, <1>11, <1>12, <1>13, <1>14
             DEF Next, CallerStep, WriterStep

-----------------------------------------------------------------------------
(* Theorems *)

\* Every reachable state satisfies the invariant.
LEMMA Invariant == SafeSpec => []IInv
<1>1. Init => IInv
  BY TypeInit, InitParts DEF IInv
<1>2. IInv /\ [Next]_vars => IInv'
  BY TypeNext, HandNext, ListNext, OrderNext, SizeNext DEF IInv
<1>. QED  BY <1>1, <1>2, PTL DEF SafeSpec

\* WriteThreadProc rolls in time: whatever the callers of Output do to the
\* file they share with it, and whatever fails, it never adds a line to a file
\* in which its lines fill m_nFileRollSize.
THEOREM RollsInTime == SafeSpec => []RollBound
<1>1. IInv => RollBound
  BY DEF IInv
<1>. QED  BY <1>1, Invariant, PTL

\* WriteThreadProc keeps the order of Output: as long as no SYSERROR or FATAL
\* line has been written by its caller, the files in the order of their names
\* hold the lines in the order in which they were pushed onto
\* m_listLinesToWrite.
THEOREM KeepsOrder == SafeSpec => []LogOrder
<1>1. IInv => LogOrder
  BY DEF IInv, OrderInv, Undisturbed, FilesInOrder, Earlier, LogOrder
<1>. QED  BY <1>1, Invariant, PTL

===============================================================================
