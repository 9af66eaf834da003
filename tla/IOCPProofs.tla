------------------------------ MODULE IOCPProofs ------------------------------
(***************************************************************************)
(* Proofs, for every number of worker threads, clients, posted accepts and *)
(* socket handles, that a socket context outlives the operations and the   *)
(* workers that use it, and that Stop() leaves no socket open and no       *)
(* context behind but the ones _DoAccept forgets.                          *)
(***************************************************************************)
EXTENDS IOCPModel, SequenceTheorems, FiniteSetTheorems, TLAPS

-----------------------------------------------------------------------------
(* The inductive invariant *)

\* Where a worker is in _DoAccept with the new context before the first
\* WSARecv is posted, and after it but before the context is listed.
Early == {"associate", "show_discard", "discard", "postRecv"}
Late == {"show_drop", "drop", "add"}
\* Where a worker is with an accept in hand that it may post again.
Accepting == {"show_accept", "accept", "postAccept"} \cup Early \cup Late
\* Where a worker is with a completed WSARecv.
Receiving == {"show_recv", "recv", "show_remove", "remove", "release"}

Holds(w, s) == slot[w] = s /\ pc[w] \in Accepting
Has(w, c, where) == client[w] = c /\ pc[w] \in where

\* The port has one entry for each operation that is complete and not yet
\* handled, whoever aborted or completed it.
PortInv ==
    \A i \in 1..Len(port) : port[i][1] # EXIT_CODE =>
       /\ op[port[i][1]] = "queued"
       /\ \A j \in 1..Len(port) : port[j][1] = port[i][1] => j = i

\* The workers' pointers to an accept and to a context are set where used.
LocalInv ==
    \A w \in Workers :
       /\ pc[w] \in Accepting => slot[w] \in Slots
       /\ pc[w] \in {"show_accept", "accept"} => m_sockAccept[slot[w]] \in Sockets
       /\ pc[w] \in Early \cup Late \cup {"show_recv", "recv", "release"} => client[w] \in Clients
       /\ pc[w] = "release" => client[w] \in m_arrayClientContext
       /\ pc[w] = "associate" => m_Socket[client[w]] = m_sockAccept[slot[w]]

\* An accept is posted, queued, or in the hands of one worker.
SlotInv ==
    \A s \in Slots :
       /\ op[s] # "idle" => /\ m_sockAccept[s] \in Sockets
                            /\ \A w \in Workers : ~Holds(w, s)
       /\ \A w, v \in Workers : Holds(w, s) /\ Holds(v, s) => w = v

\* A context's WSARecv is posted or queued, or one worker has it in hand.
TokenInv ==
    \A c \in Clients : \A w \in Workers : Has(w, c, Early \cup Receiving) =>
       /\ op[c] = "idle"
       /\ \A v \in Workers : Has(v, c, Early \cup Receiving) => v = w

\* One worker accepts a context, and the context is not listed before it is
\* through with it.
AcceptInv ==
    \A c \in Clients : \A w \in Workers : Has(w, c, Early \cup Late) =>
       /\ c \notin m_arrayClientContext
       /\ \A v \in Workers : Has(v, c, Early \cup Late) => v = w

\* A context in use is live, and a context that exists has a socket handle.
LiveInv ==
    \A c \in Clients :
       /\ op[c] # "idle" => context[c] = "live"
       /\ \A w \in Workers : Has(w, c, Early \cup Late \cup Receiving) => context[c] = "live"
       /\ c \in m_arrayClientContext => context[c] = "live"
       /\ context[c] # "none" => m_Socket[c] \in Sockets

\* A live context is listed, dropped, or about to be listed.
ListedInv ==
    \A c \in Clients : context[c] = "live" =>
       \/ c \in m_arrayClientContext \cup dropped
       \/ \E w \in Workers : Has(w, c, Early \cup Late)

\* An open socket is the one its accept or its context has the handle of.
OwnerInv ==
    \A k \in Sockets :
       /\ object[k] \in Slots => m_sockAccept[object[k]] = k
       /\ object[k] \in Slots => \A w \in Workers : ~(slot[w] = object[k] /\ pc[w] \in {"postRecv", "postAccept"} \cup Late)
       /\ object[k] \in Clients =>
            /\ m_Socket[object[k]] = k
            /\ \/ object[k] \in m_arrayClientContext
               \/ \E w \in Workers : Has(w, object[k], {"postRecv"} \cup Late)

Parts == PortInv /\ LocalInv /\ SlotInv /\ TokenInv /\ AcceptInv /\ LiveInv /\ ListedInv /\ OwnerInv

IInv == TypeOK /\ NothingLeaked /\ (stop # "done" => Parts)

-----------------------------------------------------------------------------
(* The completion port *)

PortType == Seq(((Clients \cup Slots) \X Results) \cup {<<EXIT_CODE, "zero">>})

\* An operation that was not queued enters the port once.
LEMMA EnterPort ==
  ASSUME TypeOK, PortInv, NEW x \in Clients \cup Slots, NEW result \in Results, op[x] # "queued",
         op' = [op EXCEPT ![x] = "queued"], port' = Append(port, <<x, result>>)
  PROVE  PortInv' /\ port' \in PortType
<1>1. x # EXIT_CODE
  BY IOCPAssumption DEF EXIT_CODE
<1>2. <<x, result>> \in ((Clients \cup Slots) \X Results) \cup {<<EXIT_CODE, "zero">>}
  OBVIOUS
<1>3. /\ port' \in PortType /\ Len(port') = Len(port) + 1 /\ Len(port) \in Nat
      /\ \A i \in 1..Len(port) : port'[i] = port[i]
      /\ port'[Len(port) + 1] = <<x, result>>
  BY <1>2, AppendProperties, LenProperties DEF TypeOK, PortType
<1>4. \A i \in 1..Len(port) : port[i][1] # x
  BY <1>1 DEF PortInv
<1>5. ASSUME NEW i \in 1..Len(port'), port'[i][1] # EXIT_CODE
      PROVE  op'[port'[i][1]] = "queued" /\ \A j \in 1..Len(port') : port'[j][1] = port'[i][1] => j = i
  <2>1. CASE i = Len(port) + 1
    <3>1. port'[i][1] = x
      BY <1>3, <2>1
    <3>2. \A j \in 1..Len(port') : port'[j][1] = x => j = i
      BY <1>3, <1>4, <2>1
    <3> QED
      BY <3>1, <3>2 DEF TypeOK
  <2>2. CASE i # Len(port) + 1
    <3>1. i \in 1..Len(port) /\ port'[i] = port[i]
      BY <1>3, <2>2
    <3>2. op[port[i][1]] = "queued" /\ \A j \in 1..Len(port) : port[j][1] = port[i][1] => j = i
      BY <1>5, <3>1 DEF PortInv
    <3>3. port[i][1] # x
      BY <1>4, <3>1
    <3>4. ASSUME NEW j \in 1..Len(port'), port'[j][1] = port'[i][1] PROVE j = i
      BY <1>3, <3>1, <3>2, <3>3, <3>4
    <3>5. op'[port[i][1]] = op[port[i][1]]
      <4>1. port[i] \in ((Clients \cup Slots) \X Results) \cup {<<EXIT_CODE, "zero">>}
        BY <3>1, ElementOfSeq DEF TypeOK
      <4>2. port[i][1] \in Clients \cup Slots
        BY <1>5, <3>1, <4>1
      <4> QED
        BY <3>3, <4>2 DEF TypeOK
    <3> QED
      BY <3>1, <3>2, <3>4, <3>5
  <2> QED
    BY <2>1, <2>2
<1> QED
  BY <1>3, <1>5 DEF PortInv

\* closesocket aborts at most the one operation of the socket its handle
\* names, which was outstanding before and still is.
LEMMA CloseEffect ==
  ASSUME TypeOK, PortInv, NEW k \in Sockets, CloseSocket(k)
  PROVE  /\ PortInv' /\ port' \in PortType
         /\ op' \in [Clients \cup Slots -> {"idle", "posted", "queued"}]
         /\ \A x \in Clients \cup Slots : op'[x] = "idle" <=> op[x] = "idle"
         /\ object' = [object EXCEPT ![k] = None]
         /\ object' \in [Sockets -> Clients \cup Slots \cup {None}]
         /\ bound' \in [Sockets -> Clients \cup {None}]
<1>1. /\ object' = [object EXCEPT ![k] = None]
      /\ object' \in [Sockets -> Clients \cup Slots \cup {None}]
      /\ bound' \in [Sockets -> Clients \cup {None}]
  BY DEF CloseSocket, TypeOK
<1>2. CASE object[k] # None /\ op[object[k]] = "posted"
  <2>1. object[k] \in Clients \cup Slots
    BY <1>2 DEF TypeOK
  <2>2. PICK result \in {"gone", "error"} : port' = Append(port, <<object[k], result>>)
    BY <1>2 DEF CloseSocket
  <2>3. op' = [op EXCEPT ![object[k]] = "queued"] /\ result \in Results
    BY <1>2 DEF CloseSocket, Results
  <2>4. PortInv' /\ port' \in PortType
    BY <1>2, <2>1, <2>2, <2>3, EnterPort
  <2> QED
    BY <1>1, <1>2, <2>1, <2>3, <2>4 DEF TypeOK
<1>3. CASE ~(object[k] # None /\ op[object[k]] = "posted")
  <2>1. op' = op /\ port' = port
    BY <1>3 DEF CloseSocket
  <2> QED
    BY <1>1, <2>1 DEF TypeOK, PortInv, PortType
<1> QED
  BY <1>2, <1>3

\* WSARecv leaves every other operation alone.
LEMMA RecvEffect ==
  ASSUME TypeOK, PortInv, NEW c \in Clients, op[c] = "idle",
         NEW outcome \in {"done", "pending", "failed"}, WSARecv(c, outcome)
  PROVE  /\ PortInv' /\ port' \in PortType
         /\ op' \in [Clients \cup Slots -> {"idle", "posted", "queued"}]
         /\ \A x \in (Clients \cup Slots) \ {c} : op'[x] = op[x]
<1>1. CASE outcome = "done"
  <2>1. op' = [op EXCEPT ![c] = "queued"]
    BY <1>1 DEF WSARecv
  <2>2. PICK result \in {"data", "zero"} : port' = Append(port, <<c, result>>)
    BY <1>1 DEF WSARecv
  <2>3. PortInv' /\ port' \in PortType
    BY <2>1, <2>2, EnterPort DEF Results
  <2> QED
    BY <2>1, <2>3 DEF TypeOK
<1>2. CASE outcome = "pending"
  <2>1. op' = [op EXCEPT ![c] = "posted"] /\ port' = port
    BY <1>2 DEF WSARecv
  <2>2. \A i \in 1..Len(port) : port[i][1] # EXIT_CODE => port[i][1] # c /\ port[i][1] \in Clients \cup Slots
    <3>1. \A i \in 1..Len(port) : port[i] \in ((Clients \cup Slots) \X Results) \cup {<<EXIT_CODE, "zero">>}
      BY ElementOfSeq DEF TypeOK
    <3> QED
      BY <3>1 DEF PortInv
  <2>3. PortInv'
    BY <2>1, <2>2 DEF PortInv, TypeOK
  <2> QED
    BY <2>1, <2>3 DEF TypeOK, PortType
<1>3. CASE outcome = "failed"
  <2>1. op' = op /\ port' = port
    BY <1>3 DEF WSARecv
  <2> QED
    BY <2>1 DEF TypeOK, PortType, PortInv
<1> QED
  BY <1>1, <1>2, <1>3

\* GetQueuedCompletionStatus returns the only entry of an operation.
LEMMA LeavePort ==
  ASSUME TypeOK, PortInv, port # <<>>, port' = Tail(port),
         IF Head(port)[1] = EXIT_CODE THEN op' = op ELSE op' = [op EXCEPT ![Head(port)[1]] = "idle"]
  PROVE  /\ PortInv' /\ port' \in PortType
         /\ Head(port) \in ((Clients \cup Slots) \X Results) \cup {<<EXIT_CODE, "zero">>}
         /\ Head(port)[1] # EXIT_CODE => op[Head(port)[1]] = "queued"
         /\ op' \in [Clients \cup Slots -> {"idle", "posted", "queued"}]
<1>1. /\ Len(port) \in Nat \ {0} /\ Head(port) = port[1]
  BY EmptySeq, LenProperties DEF TypeOK
<1>2. /\ Head(port) \in ((Clients \cup Slots) \X Results) \cup {<<EXIT_CODE, "zero">>}
      /\ Tail(port) \in PortType /\ Len(Tail(port)) = Len(port) - 1
      /\ \A i \in 1..Len(Tail(port)) : Tail(port)[i] = port[i + 1]
  BY HeadTailProperties DEF TypeOK, PortType
<1>3. Head(port)[1] # EXIT_CODE => Head(port)[1] \in Clients \cup Slots /\ op[Head(port)[1]] = "queued"
  BY <1>1, <1>2 DEF PortInv
<1>4. op' \in [Clients \cup Slots -> {"idle", "posted", "queued"}]
  BY <1>3 DEF TypeOK
<1>5. ASSUME NEW i \in 1..Len(Tail(port)), Tail(port)[i][1] # EXIT_CODE
      PROVE  op'[Tail(port)[i][1]] = "queued" /\ \A j \in 1..Len(Tail(port)) : Tail(port)[j][1] = Tail(port)[i][1] => j = i
  <2>1. Tail(port)[i] = port[i + 1] /\ i + 1 \in 1..Len(port) /\ i + 1 # 1
    BY <1>1, <1>2
  <2>2. op[port[i + 1][1]] = "queued" /\ \A j \in 1..Len(port) : port[j][1] = port[i + 1][1] => j = i + 1
    BY <1>5, <2>1 DEF PortInv
  <2>3. Head(port)[1] # port[i + 1][1]
    BY <1>1, <2>1, <2>2
  <2>4. op'[port[i + 1][1]] = op[port[i + 1][1]]
    <3>1. port[i + 1] \in ((Clients \cup Slots) \X Results) \cup {<<EXIT_CODE, "zero">>}
      BY <2>1, ElementOfSeq DEF TypeOK
    <3>2. port[i + 1][1] \in Clients \cup Slots
      BY <1>5, <2>1, <3>1
    <3> QED
      BY <1>3, <2>3, <3>2 DEF TypeOK
  <2>5. ASSUME NEW j \in 1..Len(Tail(port)), Tail(port)[j][1] = Tail(port)[i][1] PROVE j = i
    <3>1. Tail(port)[j] = port[j + 1] /\ j + 1 \in 1..Len(port)
      BY <1>1, <1>2
    <3>2. j + 1 = i + 1
      BY <2>1, <2>2, <2>5, <3>1
    <3> QED
      BY <3>2
  <2> QED
    BY <2>1, <2>2, <2>4, <2>5
<1> QED
  BY <1>2, <1>3, <1>4, <1>5 DEF PortInv

-----------------------------------------------------------------------------
(* Who holds what: the invariant but for the port *)

Held == LocalInv /\ SlotInv /\ TokenInv /\ AcceptInv /\ LiveInv /\ ListedInv /\ OwnerInv

\* A completion and the first parts of Stop() move no context and no accept
\* between workers.
LEMMA HeldUnmoved ==
  ASSUME TypeOK, Held, UNCHANGED <<contextVars, m_sockAccept, m_arrayClientContext, pc, localVars, object, dropped>>,
         \A x \in Clients \cup Slots : op'[x] = "idle" <=> op[x] = "idle"
  PROVE  Held'
<1> USE DEF Held, Has, Holds, contextVars, localVars
<1>1. LocalInv' /\ AcceptInv' /\ ListedInv'
  BY DEF LocalInv, AcceptInv, ListedInv
<1>2. SlotInv' /\ TokenInv' /\ LiveInv'
  BY DEF SlotInv, TokenInv, LiveInv
<1>3. OwnerInv'
  BY DEF OwnerInv
<1> QED
  BY <1>1, <1>2, <1>3

\* A worker that has nothing in hand, or only a completion that is over, may
\* go anywhere it has nothing in hand either.
LEMMA HeldLeaving ==
  ASSUME TypeOK, Held, NEW w \in Workers,
         pc[w] \notin Early \cup Late, pc'[w] \notin Accepting \cup Receiving,
         pc' = [pc EXCEPT ![w] = pc'[w]],
         client' = [client EXCEPT ![w] = client'[w]], slot' = [slot EXCEPT ![w] = slot'[w]],
         UNCHANGED <<contextVars, m_sockAccept, m_arrayClientContext, object, dropped>>,
         \A x \in Clients \cup Slots : op'[x] = "idle" <=> op[x] = "idle"
  PROVE  Held'
<1>1. \A v \in Workers \ {w} : pc'[v] = pc[v] /\ client'[v] = client[v] /\ slot'[v] = slot[v]
  BY DEF TypeOK
<1> USE DEF Held, Has, Holds, contextVars, Early, Late, Accepting, Receiving
<1>2. LocalInv'
  BY <1>1 DEF LocalInv
<1>3. AcceptInv'
  BY <1>1 DEF AcceptInv
<1>4. ListedInv'
  BY <1>1 DEF ListedInv
<1>5. SlotInv'
  BY <1>1 DEF SlotInv
<1>6. TokenInv'
  BY <1>1 DEF TokenInv
<1>7. LiveInv'
  BY <1>1 DEF LiveInv
<1>8. OwnerInv'
  BY <1>1 DEF OwnerInv
<1> QED
  BY <1>2, <1>3, <1>4, <1>5, <1>6, <1>7, <1>8

\* _ShowMessage moves a worker on with what it has in hand.
LEMMA HeldShowMessage ==
  ASSUME TypeOK, Held, NEW w \in Workers, ShowMessage(w)
  PROVE  Held'
<1>1. UNCHANGED <<contextVars, m_sockAccept, m_arrayClientContext, object, dropped, op>>
  BY DEF ShowMessage, kernelVars, listVars
<1>2. CASE pc[w] \in {"show_leave", "show_return"}
  <2>1. /\ pc' = [pc EXCEPT ![w] = IF pc[w] = "show_leave" THEN "exited" ELSE "test"]
        /\ client' = [client EXCEPT ![w] = client'[w]] /\ slot' = [slot EXCEPT ![w] = slot'[w]]
    BY <1>2 DEF ShowMessage, AfterMessage, Return, Goto, localVars, TypeOK
  <2>2. pc'[w] \in {"exited", "test"}
    BY <2>1 DEF TypeOK
  <2>3. pc[w] \notin Early \cup Late /\ pc'[w] \notin Accepting \cup Receiving
    BY <1>2, <2>2 DEF Early, Late, Accepting, Receiving
  <2>4. pc' = [pc EXCEPT ![w] = pc'[w]]
    BY <2>1, <2>2 DEF TypeOK
  <2> QED
    BY <1>1, <2>1, <2>3, <2>4, HeldLeaving
<1>3. CASE pc[w] \in {"show_accept", "show_recv", "show_remove", "show_discard", "show_drop"}
  <2>1. /\ UNCHANGED <<client, slot>>
        /\ pc' = [pc EXCEPT ![w] = AfterMessage[pc[w]]]
    BY <1>3 DEF ShowMessage, AfterMessage, Goto, localVars
  <2>2. /\ \A v \in Workers \ {w} : pc'[v] = pc[v]
        /\ pc[w] = "show_accept" => pc'[w] = "accept"
        /\ pc[w] = "show_recv" => pc'[w] = "recv"
        /\ pc[w] = "show_remove" => pc'[w] = "remove"
        /\ pc[w] = "show_discard" => pc'[w] = "discard"
        /\ pc[w] = "show_drop" => pc'[w] = "drop"
    BY <2>1 DEF TypeOK, AfterMessage
  <2> USE DEF Held, Has, Holds, contextVars, localVars, Early, Late, Accepting, Receiving
  <2>3. LocalInv'
    BY <1>1, <1>3, <2>1, <2>2 DEF LocalInv
  <2>4. SlotInv'
    BY <1>1, <1>3, <2>1, <2>2 DEF SlotInv
  <2>5. TokenInv'
    BY <1>1, <1>3, <2>1, <2>2 DEF TokenInv
  <2>6. AcceptInv'
    BY <1>1, <1>3, <2>1, <2>2 DEF AcceptInv
  <2>7. LiveInv'
    BY <1>1, <1>3, <2>1, <2>2 DEF LiveInv
  <2>8. ListedInv'
    BY <1>1, <1>3, <2>1, <2>2 DEF ListedInv
  <2>9. OwnerInv'
    BY <1>1, <1>3, <2>1, <2>2 DEF OwnerInv
  <2> QED
    BY <2>3, <2>4, <2>5, <2>6, <2>7, <2>8, <2>9
<1> QED
  BY <1>2, <1>3 DEF ShowMessage, AfterMessage

\* A worker takes a completion in hand that nobody else has.
LEMMA HeldDequeue ==
  ASSUME TypeOK, Held, PortInv, NEW w \in Workers, Dequeue(w)
  PROVE  Held'
<1>1. UNCHANGED <<contextVars, m_sockAccept, m_arrayClientContext, object, dropped>>
  BY DEF Dequeue, listVars
<1> DEFINE x == Head(port)[1]
           result == Head(port)[2]
<1>2. /\ Head(port) \in ((Clients \cup Slots) \X Results) \cup {<<EXIT_CODE, "zero">>}
      /\ x # EXIT_CODE => op[x] = "queued"
  <2>1. IF x = EXIT_CODE THEN op' = op ELSE op' = [op EXCEPT ![x] = "idle"]
    BY DEF Dequeue
  <2> QED
    BY <2>1, LeavePort DEF Dequeue
<1>3. CASE x = EXIT_CODE
  <2>1. UNCHANGED <<client, slot, op>> /\ pc' = [pc EXCEPT ![w] = "exited"] /\ pc[w] = "wait"
    BY <1>3 DEF Dequeue, Goto, At, localVars
  <2>2. pc'[w] = "exited" /\ client' = [client EXCEPT ![w] = client'[w]] /\ slot' = [slot EXCEPT ![w] = slot'[w]]
    BY <2>1 DEF TypeOK
  <2>3. pc[w] \notin Early \cup Late /\ pc'[w] \notin Accepting \cup Receiving
    BY <2>1, <2>2 DEF Early, Late, Accepting, Receiving
  <2> QED
    BY <1>1, <2>1, <2>2, <2>3, HeldLeaving
<1>4. CASE x # EXIT_CODE
  <2>1. x \in Clients \cup Slots /\ result \in Results /\ op[x] = "queued"
    BY <1>2, <1>4
  <2>2. /\ op' = [op EXCEPT ![x] = "idle"]
        /\ slot' = [slot EXCEPT ![w] = IF x \in Slots THEN x ELSE None]
        /\ client' = [client EXCEPT ![w] = IF x \in Clients THEN x ELSE None]
        /\ pc[w] = "wait"
    BY <1>4 DEF Dequeue, At
  <2>3. Goto(w, CASE result = "error" -> "show_leave"
                  [] result \in {"gone", "zero"} -> "show_remove"
                  [] result = "data" -> IF x \in Slots THEN "show_accept" ELSE "show_recv")
    BY <1>4 DEF Dequeue
  <2>4. PICK next \in {"show_leave", "show_remove", "show_accept", "show_recv"} :
           /\ pc' = [pc EXCEPT ![w] = next]
           /\ next = "show_accept" => x \in Slots
           /\ next = "show_recv" => x \in Clients
    <3>1. CASE result = "error"
      BY <2>3, <3>1 DEF Goto
    <3>2. CASE result \in {"gone", "zero"}
      BY <2>3, <3>2 DEF Goto
    <3>3. CASE result = "data"
      BY <2>1, <2>3, <3>3 DEF Goto
    <3> QED
      BY <2>1, <3>1, <3>2, <3>3 DEF Results
  <2>5. /\ \A v \in Workers \ {w} : pc'[v] = pc[v] /\ client'[v] = client[v] /\ slot'[v] = slot[v]
        /\ pc'[w] = next /\ slot'[w] = (IF x \in Slots THEN x ELSE None) /\ client'[w] = (IF x \in Clients THEN x ELSE None)
    BY <2>2, <2>4 DEF TypeOK
  <2>6. op'[x] = "idle" /\ \A y \in (Clients \cup Slots) \ {x} : op'[y] = op[y]
    BY <2>1, <2>2 DEF TypeOK
  <2> HIDE DEF x, result
  <2>7. None \notin Clients /\ None \notin Slots /\ Clients \cap Slots = {}
    BY IOCPAssumption
  <2> USE DEF Held, Has, Holds, contextVars, localVars, Early, Late, Accepting, Receiving
  <2>8. LocalInv'
    BY <1>1, <2>1, <2>2, <2>4, <2>5, <2>6, <2>7 DEF LocalInv, SlotInv
  <2>9. SlotInv'
    BY <1>1, <2>1, <2>2, <2>4, <2>5, <2>6, <2>7 DEF SlotInv
  <2>10. TokenInv'
    BY <1>1, <2>1, <2>2, <2>4, <2>5, <2>6, <2>7 DEF TokenInv
  <2>11. AcceptInv'
    BY <1>1, <2>1, <2>2, <2>4, <2>5, <2>6, <2>7 DEF AcceptInv
  <2>12. LiveInv'
    BY <1>1, <2>1, <2>2, <2>4, <2>5, <2>6, <2>7 DEF LiveInv
  <2>13. ListedInv'
    BY <1>1, <2>1, <2>2, <2>4, <2>5, <2>6, <2>7 DEF ListedInv
  <2>14. OwnerInv'
    BY <1>1, <2>1, <2>2, <2>4, <2>5, <2>6, <2>7 DEF OwnerInv
  <2> QED
    BY <2>8, <2>9, <2>10, <2>11, <2>12, <2>13, <2>14
<1> QED
  BY <1>3, <1>4

\* _DoRecv gives the context back to the kernel, or the operation has failed.
LEMMA HeldDoRecv ==
  ASSUME TypeOK, Held, PortInv, NEW w \in Workers, DoRecv(w)
  PROVE  Held'
<1>1. UNCHANGED <<contextVars, m_sockAccept, m_arrayClientContext, object, dropped>>
  BY DEF DoRecv, listVars
<1>2. PICK c \in Clients : c = client[w] /\ pc[w] = "recv"
  BY DEF DoRecv, At, Held, LocalInv
<1>3. op[c] = "idle" /\ context[c] = "live"
  BY <1>2 DEF Held, TokenInv, LiveInv, Has, Receiving
<1>4. PICK outcome \in {"done", "pending", "failed"} :
        /\ WSARecv(c, outcome)
        /\ IF outcome = "pending" THEN Goto(w, "show_return") /\ UNCHANGED localVars ELSE Return(w)
  BY <1>2 DEF DoRecv
<1>5. \A x \in (Clients \cup Slots) \ {c} : op'[x] = op[x]
  BY <1>3, <1>4, RecvEffect
<1>6. /\ \A v \in Workers \ {w} : pc'[v] = pc[v] /\ client'[v] = client[v] /\ slot'[v] = slot[v]
      /\ pc'[w] \in {"show_return", "test"}
  BY <1>4 DEF Return, Goto, localVars, TypeOK
<1>7. Clients \cap Slots = {}
  BY IOCPAssumption
<1> USE DEF Held, Has, Holds, contextVars, localVars, Early, Late, Accepting, Receiving
<1>8. LocalInv'
  BY <1>1, <1>2, <1>3, <1>5, <1>6, <1>7 DEF LocalInv
<1>9. SlotInv'
  BY <1>1, <1>2, <1>3, <1>5, <1>6, <1>7 DEF SlotInv
<1>10. TokenInv'
  BY <1>1, <1>2, <1>3, <1>5, <1>6, <1>7 DEF TokenInv
<1>11. AcceptInv'
  BY <1>1, <1>2, <1>3, <1>5, <1>6, <1>7 DEF AcceptInv
<1>12. LiveInv'
  BY <1>1, <1>2, <1>3, <1>5, <1>6, <1>7 DEF LiveInv
<1>13. ListedInv'
  BY <1>1, <1>2, <1>3, <1>5, <1>6, <1>7 DEF ListedInv
<1>14. OwnerInv'
  BY <1>1, <1>2, <1>3, <1>5, <1>6, <1>7 DEF OwnerInv
<1> QED
  BY <1>8, <1>9, <1>10, <1>11, <1>12, <1>13, <1>14

\* ~_PER_SOCKET_CONTEXT closes the handle while the context is still listed.
LEMMA HeldRemove ==
  ASSUME TypeOK, Held, PortInv, NEW w \in Workers, Remove(w)
  PROVE  Held'
<1>1. UNCHANGED <<contextVars, m_sockAccept, m_arrayClientContext, client, slot, dropped>>
  BY DEF Remove, localVars
<1>2. pc[w] = "remove" /\ client[w] \in m_arrayClientContext /\ client[w] \in Clients
  BY DEF Remove, At, TypeOK
<1>3. m_Socket[client[w]] \in Sockets
  BY <1>2 DEF Held, LiveInv
<1>4. /\ \A x \in Clients \cup Slots : op'[x] = "idle" <=> op[x] = "idle"
      /\ object' = [object EXCEPT ![m_Socket[client[w]]] = None]
  BY <1>3, CloseEffect DEF Remove
<1>5. \A k \in Sockets : object'[k] \in {object[k], None}
  BY <1>3, <1>4 DEF TypeOK
<1>6. pc'[w] = "release" /\ \A v \in Workers \ {w} : pc'[v] = pc[v]
  BY DEF Remove, Goto, TypeOK
<1>7. None \notin Clients /\ None \notin Slots /\ Clients \cap Slots = {}
  BY IOCPAssumption
<1> USE DEF Held, Has, Holds, contextVars, localVars, Early, Late, Accepting, Receiving
<1>8. LocalInv'
  BY <1>1, <1>2, <1>3, <1>4, <1>5, <1>6, <1>7 DEF LocalInv
<1>9. SlotInv'
  BY <1>1, <1>2, <1>3, <1>4, <1>5, <1>6, <1>7 DEF SlotInv
<1>10. TokenInv'
  BY <1>1, <1>2, <1>3, <1>4, <1>5, <1>6, <1>7 DEF TokenInv
<1>11. AcceptInv'
  BY <1>1, <1>2, <1>3, <1>4, <1>5, <1>6, <1>7 DEF AcceptInv
<1>12. LiveInv'
  BY <1>1, <1>2, <1>3, <1>4, <1>5, <1>6, <1>7 DEF LiveInv
<1>13. ListedInv'
  BY <1>1, <1>2, <1>3, <1>4, <1>5, <1>6, <1>7 DEF ListedInv
<1>14. OwnerInv'
  BY <1>1, <1>2, <1>3, <1>4, <1>5, <1>6, <1>7 DEF OwnerInv
<1> QED
  BY <1>8, <1>9, <1>10, <1>11, <1>12, <1>13, <1>14

\* The second close and the end of the context: nobody else has it in hand,
\* and its operation is not outstanding.
LEMMA HeldRelease ==
  ASSUME TypeOK, Held, PortInv, NEW w \in Workers, Release(w)
  PROVE  Held'
<1>1. UNCHANGED <<m_Socket, m_sockAccept, dropped>>
  BY DEF Release
<1>2. PICK c \in Clients : c = client[w] /\ pc[w] = "release" /\ c \in m_arrayClientContext
  BY DEF Release, At, Held, LocalInv
<1>3. m_Socket[c] \in Sockets /\ op[c] = "idle"
  BY <1>2 DEF Held, LiveInv, TokenInv, Has, Receiving
<1>4. /\ \A x \in Clients \cup Slots : op'[x] = "idle" <=> op[x] = "idle"
      /\ object' = [object EXCEPT ![m_Socket[c]] = None]
  BY <1>2, <1>3, CloseEffect DEF Release
<1>5. /\ \A k \in Sockets : object'[k] \in {object[k], None}
      /\ \A k \in Sockets : object'[k] # c
  <2>1. \A k \in Sockets : object[k] = c => m_Socket[c] = k
    BY DEF Held, OwnerInv
  <2> QED
    BY <1>3, <1>4, <2>1, IOCPAssumption DEF TypeOK
<1>6. /\ \A v \in Workers \ {w} : pc'[v] = pc[v] /\ client'[v] = client[v] /\ slot'[v] = slot[v]
      /\ pc'[w] = "test" /\ client'[w] = None /\ slot'[w] = None
  BY DEF Release, Return, Goto, TypeOK
<1>7. /\ m_arrayClientContext' = m_arrayClientContext \ {c}
      /\ context'[c] = "freed" /\ \A d \in Clients \ {c} : context'[d] = context[d]
  BY <1>2 DEF Release, TypeOK
<1>8. \A v \in Workers \ {w} : ~Has(v, c, Early \cup Late \cup Receiving)
  BY <1>2 DEF Held, TokenInv, AcceptInv, Has, Receiving
<1>9. None \notin Clients /\ None \notin Slots /\ Clients \cap Slots = {}
  BY IOCPAssumption
<1> USE DEF Held, Has, Holds, contextVars, localVars, Early, Late, Accepting, Receiving
<1>10. LocalInv'
  BY <1>1, <1>2, <1>3, <1>4, <1>5, <1>6, <1>7, <1>8, <1>9 DEF LocalInv
<1>11. SlotInv'
  BY <1>1, <1>2, <1>3, <1>4, <1>5, <1>6, <1>7, <1>8, <1>9 DEF SlotInv
<1>12. TokenInv'
  BY <1>1, <1>2, <1>3, <1>4, <1>5, <1>6, <1>7, <1>8, <1>9 DEF TokenInv
<1>13. AcceptInv'
  BY <1>1, <1>2, <1>3, <1>4, <1>5, <1>6, <1>7, <1>8, <1>9 DEF AcceptInv
<1>14. LiveInv'
  BY <1>1, <1>2, <1>3, <1>4, <1>5, <1>6, <1>7, <1>8, <1>9 DEF LiveInv
<1>15. ListedInv'
  BY <1>1, <1>2, <1>3, <1>4, <1>5, <1>6, <1>7, <1>8, <1>9 DEF ListedInv
<1>16. OwnerInv'
  BY <1>1, <1>2, <1>3, <1>4, <1>5, <1>6, <1>7, <1>8, <1>9 DEF OwnerInv
<1> QED
  BY <1>10, <1>11, <1>12, <1>13, <1>14, <1>15, <1>16

\* A new context is in the hands of the worker that made it.
LEMMA HeldDoAccept ==
  ASSUME TypeOK, Held, NEW w \in Workers, DoAccept(w)
  PROVE  Held'
<1>1. UNCHANGED <<op, object, m_sockAccept, m_arrayClientContext, slot, dropped>>
  BY DEF DoAccept, kernelVars, listVars
<1>2. pc[w] = "accept" /\ slot[w] \in Slots /\ m_sockAccept[slot[w]] \in Sockets
  BY DEF DoAccept, At, Held, LocalInv, Accepting
<1>3. PICK c \in Clients : /\ context[c] = "none"
                           /\ context' = [context EXCEPT ![c] = "live"]
                           /\ m_Socket' = [m_Socket EXCEPT ![c] = m_sockAccept[slot[w]]]
                           /\ client' = [client EXCEPT ![w] = c]
  BY DEF DoAccept
<1>4. /\ \A v \in Workers \ {w} : pc'[v] = pc[v] /\ client'[v] = client[v]
      /\ pc'[w] = "associate" /\ client'[w] = c
  BY <1>3 DEF DoAccept, Goto, TypeOK
<1>5. /\ context'[c] = "live" /\ m_Socket'[c] = m_sockAccept[slot[w]]
      /\ \A d \in Clients \ {c} : context'[d] = context[d] /\ m_Socket'[d] = m_Socket[d]
  BY <1>3 DEF TypeOK
<1>6. /\ c \notin m_arrayClientContext /\ op[c] = "idle" /\ \A k \in Sockets : object[k] # c
      /\ \A v \in Workers : ~Has(v, c, Early \cup Late \cup Receiving)
  <2>1. /\ c \notin m_arrayClientContext /\ op[c] = "idle"
        /\ \A v \in Workers : ~Has(v, c, Early \cup Late \cup Receiving)
    BY <1>3 DEF Held, LiveInv
  <2> QED
    BY <2>1 DEF Held, OwnerInv, Has, Early, Late
<1>7. None \notin Clients /\ None \notin Slots /\ Clients \cap Slots = {}
  BY IOCPAssumption
<1> USE DEF Held, Has, Holds, contextVars, localVars, Early, Late, Accepting, Receiving
<1>8. LocalInv'
  BY <1>1, <1>2, <1>3, <1>4, <1>5, <1>6, <1>7 DEF LocalInv
<1>9. SlotInv'
  BY <1>1, <1>2, <1>3, <1>4, <1>5, <1>6, <1>7 DEF SlotInv
<1>10. TokenInv'
  BY <1>1, <1>2, <1>3, <1>4, <1>5, <1>6, <1>7 DEF TokenInv
<1>11. AcceptInv'
  BY <1>1, <1>2, <1>3, <1>4, <1>5, <1>6, <1>7 DEF AcceptInv
<1>12. LiveInv'
  BY <1>1, <1>2, <1>3, <1>4, <1>5, <1>6, <1>7 DEF LiveInv
<1>13. ListedInv'
  BY <1>1, <1>2, <1>3, <1>4, <1>5, <1>6, <1>7 DEF ListedInv
<1>14. OwnerInv'
  BY <1>1, <1>2, <1>3, <1>4, <1>5, <1>6, <1>7 DEF OwnerInv
<1> QED
  BY <1>8, <1>9, <1>10, <1>11, <1>12, <1>13, <1>14

\* The socket of the accept becomes the socket of the context.
LEMMA HeldAssociate ==
  ASSUME TypeOK, Held, NEW w \in Workers, Associate(w)
  PROVE  Held'
<1>1. UNCHANGED <<op, context, m_Socket, m_sockAccept, m_arrayClientContext, client, slot, dropped>>
  BY DEF Associate, localVars, listVars
<1>2. PICK c \in Clients : /\ c = client[w] /\ pc[w] = "associate" /\ slot[w] \in Slots
                           /\ m_Socket[c] = m_sockAccept[slot[w]] /\ context[c] = "live" /\ m_Socket[c] \in Sockets
  BY DEF Associate, At, Held, LocalInv, LiveInv, Has, Early, Accepting
<1>3. object' = [object EXCEPT ![m_Socket[c]] = IF @ = slot[w] THEN c ELSE @]
  BY <1>2 DEF Associate
<1>4. \A k \in Sockets : /\ object'[k] = object[k] \/ (k = m_Socket[c] /\ object'[k] = c)
                         /\ object'[k] # slot[w]
  <2>1. \A k \in Sockets : object[k] = slot[w] => k = m_Socket[c]
    BY <1>2 DEF Held, OwnerInv
  <2> QED
    BY <1>2, <1>3, <2>1, IOCPAssumption DEF TypeOK
<1>5. \A v \in Workers \ {w} : pc'[v] = pc[v]
  BY DEF Associate, Goto, TypeOK
<1>6. pc'[w] = "postRecv"
  BY DEF Associate, Goto, TypeOK
<1>7. None \notin Clients /\ None \notin Slots /\ Clients \cap Slots = {}
  BY IOCPAssumption
<1> USE DEF Held, Has, Holds, contextVars, localVars, Early, Late, Accepting, Receiving
<1>8. LocalInv'
  BY <1>1, <1>2, <1>3, <1>4, <1>5, <1>6, <1>7 DEF LocalInv
<1>9. SlotInv'
  BY <1>1, <1>2, <1>3, <1>4, <1>5, <1>6, <1>7 DEF SlotInv
<1>10. TokenInv'
  BY <1>1, <1>2, <1>3, <1>4, <1>5, <1>6, <1>7 DEF TokenInv
<1>11. AcceptInv'
  BY <1>1, <1>2, <1>3, <1>4, <1>5, <1>6, <1>7 DEF AcceptInv
<1>12. LiveInv'
  BY <1>1, <1>2, <1>3, <1>4, <1>5, <1>6, <1>7 DEF LiveInv
<1>13. ListedInv'
  BY <1>1, <1>2, <1>3, <1>4, <1>5, <1>6, <1>7 DEF ListedInv
<1>14. OwnerInv'
  BY <1>1, <1>2, <1>3, <1>4, <1>5, <1>6, <1>7 DEF OwnerInv
<1> QED
  BY <1>8, <1>9, <1>10, <1>11, <1>12, <1>13, <1>14

\* A context that could not be associated is still in one worker's hands.
LEMMA HeldAssociateFails ==
  ASSUME TypeOK, Held, NEW w \in Workers, AssociateFails(w)
  PROVE  Held'
<1>1. UNCHANGED <<op, object, contextVars, m_sockAccept, m_arrayClientContext, client, slot, dropped>>
  BY DEF AssociateFails, kernelVars, listVars, localVars
<1>2. pc[w] = "associate" /\ pc'[w] = "show_discard" /\ \A v \in Workers \ {w} : pc'[v] = pc[v]
  BY DEF AssociateFails, At, Goto, TypeOK
<1> USE DEF Held, Has, Holds, contextVars, localVars, Early, Late, Accepting, Receiving
<1>3. LocalInv'
  BY <1>1, <1>2 DEF LocalInv
<1>4. SlotInv'
  BY <1>1, <1>2 DEF SlotInv
<1>5. TokenInv'
  BY <1>1, <1>2 DEF TokenInv
<1>6. AcceptInv'
  BY <1>1, <1>2 DEF AcceptInv
<1>7. LiveInv'
  BY <1>1, <1>2 DEF LiveInv
<1>8. ListedInv'
  BY <1>1, <1>2 DEF ListedInv
<1>9. OwnerInv'
  BY <1>1, <1>2 DEF OwnerInv
<1> QED
  BY <1>3, <1>4, <1>5, <1>6, <1>7, <1>8, <1>9

\* It is deleted before anybody else has seen it.
LEMMA HeldDiscard ==
  ASSUME TypeOK, Held, PortInv, NEW w \in Workers, Discard(w)
  PROVE  Held'
<1>1. UNCHANGED <<m_Socket, m_sockAccept, m_arrayClientContext, dropped>>
  BY DEF Discard, listVars
<1>2. PICK c \in Clients : c = client[w] /\ pc[w] = "discard"
  BY DEF Discard, At, Held, LocalInv, Early
<1>3. m_Socket[c] \in Sockets /\ op[c] = "idle" /\ c \notin m_arrayClientContext
  BY <1>2 DEF Held, LiveInv, TokenInv, AcceptInv, Has, Early
<1>4. /\ \A x \in Clients \cup Slots : op'[x] = "idle" <=> op[x] = "idle"
      /\ object' = [object EXCEPT ![m_Socket[c]] = None]
  BY <1>2, <1>3, CloseEffect DEF Discard
<1>5. \A k \in Sockets : object'[k] \in {object[k], None}
  BY <1>3, <1>4 DEF TypeOK
<1>6. /\ \A v \in Workers \ {w} : pc'[v] = pc[v] /\ client'[v] = client[v] /\ slot'[v] = slot[v]
      /\ pc'[w] = "test" /\ client'[w] = None /\ slot'[w] = None
  BY DEF Discard, Return, Goto, TypeOK
<1>7. context'[c] = "freed" /\ \A d \in Clients \ {c} : context'[d] = context[d]
  BY <1>2 DEF Discard, TypeOK
<1>8. \A v \in Workers \ {w} : ~Has(v, c, Early \cup Late \cup Receiving)
  BY <1>2 DEF Held, TokenInv, AcceptInv, Has, Early
<1>9. None \notin Clients /\ None \notin Slots /\ Clients \cap Slots = {}
  BY IOCPAssumption
<1> USE DEF Held, Has, Holds, contextVars, localVars, Early, Late, Accepting, Receiving
<1>10. LocalInv'
  BY <1>1, <1>2, <1>3, <1>4, <1>5, <1>6, <1>7, <1>8, <1>9 DEF LocalInv
<1>11. SlotInv'
  BY <1>1, <1>2, <1>3, <1>4, <1>5, <1>6, <1>7, <1>8, <1>9 DEF SlotInv
<1>12. TokenInv'
  BY <1>1, <1>2, <1>3, <1>4, <1>5, <1>6, <1>7, <1>8, <1>9 DEF TokenInv
<1>13. AcceptInv'
  BY <1>1, <1>2, <1>3, <1>4, <1>5, <1>6, <1>7, <1>8, <1>9 DEF AcceptInv
<1>14. LiveInv'
  BY <1>1, <1>2, <1>3, <1>4, <1>5, <1>6, <1>7, <1>8, <1>9 DEF LiveInv
<1>15. ListedInv'
  BY <1>1, <1>2, <1>3, <1>4, <1>5, <1>6, <1>7, <1>8, <1>9 DEF ListedInv
<1>16. OwnerInv'
  BY <1>1, <1>2, <1>3, <1>4, <1>5, <1>6, <1>7, <1>8, <1>9 DEF OwnerInv
<1> QED
  BY <1>10, <1>11, <1>12, <1>13, <1>14, <1>15, <1>16

\* The first WSARecv of a context: from now on another worker may have it in
\* hand, too.
LEMMA HeldPostRecv ==
  ASSUME TypeOK, Held, PortInv, NEW w \in Workers, PostRecv(w)
  PROVE  Held'
<1>1. UNCHANGED <<contextVars, m_sockAccept, m_arrayClientContext, object, client, slot, dropped>>
  BY DEF PostRecv, listVars, localVars
<1>2. PICK c \in Clients : c = client[w] /\ pc[w] = "postRecv"
  BY DEF PostRecv, At, Held, LocalInv, Early
<1>3. op[c] = "idle" /\ context[c] = "live"
  BY <1>2 DEF Held, TokenInv, LiveInv, Has, Early
<1>4. PICK outcome \in {"done", "pending", "failed"} :
        /\ WSARecv(c, outcome)
        /\ Goto(w, IF outcome = "pending" THEN "show_drop" ELSE "add")
  BY <1>2 DEF PostRecv
<1>5. \A x \in (Clients \cup Slots) \ {c} : op'[x] = op[x]
  BY <1>3, <1>4, RecvEffect
<1>6. pc'[w] \in {"show_drop", "add"} /\ \A v \in Workers \ {w} : pc'[v] = pc[v]
  BY <1>4 DEF Goto, TypeOK
<1>7. Clients \cap Slots = {}
  BY IOCPAssumption
<1> USE DEF Held, Has, Holds, contextVars, localVars, Early, Late, Accepting, Receiving
<1>8. LocalInv'
  BY <1>1, <1>2, <1>3, <1>5, <1>6, <1>7 DEF LocalInv
<1>9. SlotInv'
  BY <1>1, <1>2, <1>3, <1>5, <1>6, <1>7 DEF SlotInv
<1>10. TokenInv'
  BY <1>1, <1>2, <1>3, <1>5, <1>6, <1>7 DEF TokenInv
<1>11. AcceptInv'
  BY <1>1, <1>2, <1>3, <1>5, <1>6, <1>7 DEF AcceptInv
<1>12. LiveInv'
  BY <1>1, <1>2, <1>3, <1>5, <1>6, <1>7 DEF LiveInv
<1>13. ListedInv'
  BY <1>1, <1>2, <1>3, <1>5, <1>6, <1>7 DEF ListedInv
<1>14. OwnerInv'
  BY <1>1, <1>2, <1>3, <1>5, <1>6, <1>7 DEF OwnerInv
<1> QED
  BY <1>8, <1>9, <1>10, <1>11, <1>12, <1>13, <1>14

\* The IoContext goes, the context stays for the completion that is to come.
LEMMA HeldDrop ==
  ASSUME TypeOK, Held, PortInv, NEW w \in Workers, Drop(w)
  PROVE  Held'
<1>1. UNCHANGED <<context, m_Socket, m_sockAccept, m_arrayClientContext>>
  BY DEF Drop, listVars
<1>2. PICK c \in Clients : c = client[w] /\ pc[w] = "drop" /\ m_Socket[c] \in Sockets
  BY DEF Drop, At, Held, LocalInv, LiveInv, Has, Late
<1>3. /\ \A x \in Clients \cup Slots : op'[x] = "idle" <=> op[x] = "idle"
      /\ object' = [object EXCEPT ![m_Socket[c]] = None]
  BY <1>2, CloseEffect DEF Drop
<1>4. /\ \A k \in Sockets : object'[k] \in {object[k], None}
      /\ \A k \in Sockets : object'[k] # c
  <2>1. \A k \in Sockets : object[k] = c => m_Socket[c] = k
    BY DEF Held, OwnerInv
  <2> QED
    BY <1>2, <1>3, <2>1, IOCPAssumption DEF TypeOK
<1>5. /\ \A v \in Workers \ {w} : pc'[v] = pc[v] /\ client'[v] = client[v] /\ slot'[v] = slot[v]
      /\ pc'[w] = "test" /\ client'[w] = None /\ slot'[w] = None
  BY DEF Drop, Return, Goto, TypeOK
<1>6. dropped' = dropped \cup {c}
  BY <1>2 DEF Drop
<1>7. None \notin Clients /\ None \notin Slots /\ Clients \cap Slots = {}
  BY IOCPAssumption
<1> USE DEF Held, Has, Holds, contextVars, localVars, Early, Late, Accepting, Receiving
<1>8. LocalInv'
  BY <1>1, <1>2, <1>3, <1>4, <1>5, <1>6, <1>7 DEF LocalInv
<1>9. SlotInv'
  BY <1>1, <1>2, <1>3, <1>4, <1>5, <1>6, <1>7 DEF SlotInv
<1>10. TokenInv'
  BY <1>1, <1>2, <1>3, <1>4, <1>5, <1>6, <1>7 DEF TokenInv
<1>11. AcceptInv'
  BY <1>1, <1>2, <1>3, <1>4, <1>5, <1>6, <1>7 DEF AcceptInv
<1>12. LiveInv'
  BY <1>1, <1>2, <1>3, <1>4, <1>5, <1>6, <1>7 DEF LiveInv
<1>13. ListedInv'
  BY <1>1, <1>2, <1>3, <1>4, <1>5, <1>6, <1>7 DEF ListedInv
<1>14. OwnerInv'
  BY <1>1, <1>2, <1>3, <1>4, <1>5, <1>6, <1>7 DEF OwnerInv
<1> QED
  BY <1>8, <1>9, <1>10, <1>11, <1>12, <1>13, <1>14

\* The context is listed and may be removed from now on.
LEMMA HeldAdd ==
  ASSUME TypeOK, Held, NEW w \in Workers, AddToContextList(w)
  PROVE  Held'
<1>1. UNCHANGED <<op, object, contextVars, m_sockAccept, client, slot, dropped>>
  BY DEF AddToContextList, kernelVars, localVars
<1>2. PICK c \in Clients : c = client[w] /\ pc[w] = "add" /\ context[c] = "live"
  BY DEF AddToContextList, At, Held, LocalInv, LiveInv, Has, Late
<1>3. m_arrayClientContext' = m_arrayClientContext \cup {c}
  BY <1>2 DEF AddToContextList
<1>4. pc'[w] = "postAccept" /\ \A v \in Workers \ {w} : pc'[v] = pc[v]
  BY DEF AddToContextList, Goto, TypeOK
<1>5. \A v \in Workers \ {w} : ~Has(v, c, Early \cup Late)
  BY <1>2 DEF Held, AcceptInv, Has, Late
<1>6. None \notin Clients /\ None \notin Slots /\ Clients \cap Slots = {}
  BY IOCPAssumption
<1> USE DEF Held, Has, Holds, contextVars, localVars, Early, Late, Accepting, Receiving
<1>7. LocalInv'
  BY <1>1, <1>2, <1>3, <1>4, <1>5, <1>6 DEF LocalInv
<1>8. SlotInv'
  BY <1>1, <1>2, <1>3, <1>4, <1>5, <1>6 DEF SlotInv
<1>9. TokenInv'
  BY <1>1, <1>2, <1>3, <1>4, <1>5, <1>6 DEF TokenInv
<1>10. AcceptInv'
  BY <1>1, <1>2, <1>3, <1>4, <1>5, <1>6 DEF AcceptInv
<1>11. LiveInv'
  BY <1>1, <1>2, <1>3, <1>4, <1>5, <1>6 DEF LiveInv
<1>12. ListedInv'
  BY <1>1, <1>2, <1>3, <1>4, <1>5, <1>6 DEF ListedInv
<1>13. OwnerInv'
  BY <1>1, <1>2, <1>3, <1>4, <1>5, <1>6 DEF OwnerInv
<1> QED
  BY <1>7, <1>8, <1>9, <1>10, <1>11, <1>12, <1>13

\* The accept gets a new socket and goes back to the kernel.
LEMMA HeldPostAccept ==
  ASSUME TypeOK, Held, NEW w \in Workers, PostAccept(w)
  PROVE  Held'
<1>1. UNCHANGED <<contextVars, m_arrayClientContext, dropped>>
  BY DEF PostAccept, listVars
<1>2. PICK s \in Slots : s = slot[w] /\ pc[w] = "postAccept"
  BY DEF PostAccept, At, Held, LocalInv, Accepting
<1>3. PICK k \in Sockets : /\ object[k] = None
                           /\ object' = [object EXCEPT ![k] = s]
                           /\ m_sockAccept' = [m_sockAccept EXCEPT ![s] = k]
  BY <1>2 DEF PostAccept
<1>4. /\ object'[k] = s /\ \A j \in Sockets \ {k} : object'[j] = object[j] /\ object[j] # s
      /\ m_sockAccept'[s] = k /\ \A r \in Slots \ {s} : m_sockAccept'[r] = m_sockAccept[r]
  <2>1. \A j \in Sockets : object[j] # s
    BY <1>2 DEF Held, OwnerInv
  <2> QED
    BY <1>3, <2>1 DEF TypeOK
<1>5. op'[s] = "posted" /\ \A x \in (Clients \cup Slots) \ {s} : op'[x] = op[x]
  BY <1>2 DEF PostAccept, TypeOK
<1>6. /\ \A v \in Workers \ {w} : pc'[v] = pc[v] /\ client'[v] = client[v] /\ slot'[v] = slot[v]
      /\ pc'[w] = "test" /\ client'[w] = None /\ slot'[w] = None
  BY DEF PostAccept, Return, Goto, TypeOK
<1>7. \A v \in Workers \ {w} : ~Holds(v, s)
  BY <1>2 DEF Held, SlotInv, Holds, Accepting
<1>8. None \notin Clients /\ None \notin Slots /\ Clients \cap Slots = {}
  BY IOCPAssumption
<1> USE DEF Held, Has, Holds, contextVars, localVars, Early, Late, Accepting, Receiving
<1>9. LocalInv'
  BY <1>1, <1>2, <1>3, <1>4, <1>5, <1>6, <1>7, <1>8 DEF LocalInv
<1>10. SlotInv'
  BY <1>1, <1>2, <1>3, <1>4, <1>5, <1>6, <1>7, <1>8 DEF SlotInv
<1>11. TokenInv'
  BY <1>1, <1>2, <1>3, <1>4, <1>5, <1>6, <1>7, <1>8 DEF TokenInv
<1>12. AcceptInv'
  BY <1>1, <1>2, <1>3, <1>4, <1>5, <1>6, <1>7, <1>8 DEF AcceptInv
<1>13. LiveInv'
  BY <1>1, <1>2, <1>3, <1>4, <1>5, <1>6, <1>7, <1>8 DEF LiveInv
<1>14. ListedInv'
  BY <1>1, <1>2, <1>3, <1>4, <1>5, <1>6, <1>7, <1>8 DEF ListedInv
<1>15. OwnerInv'
  BY <1>1, <1>2, <1>3, <1>4, <1>5, <1>6, <1>7, <1>8 DEF OwnerInv
<1> QED
  BY <1>9, <1>10, <1>11, <1>12, <1>13, <1>14, <1>15

\* Without AcceptEx the accept is out of use, with or without a socket.
LEMMA HeldPostAcceptFails ==
  ASSUME TypeOK, Held, NEW w \in Workers, PostAcceptFails(w)
  PROVE  Held'
<1>1. UNCHANGED <<op, contextVars, m_arrayClientContext, client, slot, dropped>>
  BY DEF PostAcceptFails, listVars, localVars
<1>2. PICK s \in Slots : s = slot[w] /\ pc[w] = "postAccept" /\ op[s] = "idle"
  BY DEF PostAcceptFails, At, Held, LocalInv, SlotInv, Holds, Accepting
<1>3. /\ \A r \in Slots \ {s} : m_sockAccept'[r] = m_sockAccept[r]
      /\ \A j \in Sockets : object'[j] = object[j] \/ (object'[j] = s /\ m_sockAccept'[s] = j)
      /\ \A j \in Sockets : object[j] # s
  <2>1. \A j \in Sockets : object[j] # s
    BY <1>2 DEF Held, OwnerInv
  <2> QED
    BY <1>2, <2>1 DEF PostAcceptFails, TypeOK
<1>4. pc'[w] = "show_return" /\ \A v \in Workers \ {w} : pc'[v] = pc[v]
  BY DEF PostAcceptFails, Goto, TypeOK
<1>5. \A v \in Workers \ {w} : ~Holds(v, s)
  BY <1>2 DEF Held, SlotInv, Holds, Accepting
<1>6. None \notin Clients /\ None \notin Slots /\ Clients \cap Slots = {}
  BY IOCPAssumption
<1> USE DEF Held, Has, Holds, contextVars, localVars, Early, Late, Accepting, Receiving
<1>7. LocalInv'
  BY <1>1, <1>2, <1>3, <1>4, <1>5, <1>6 DEF LocalInv
<1>8. SlotInv'
  BY <1>1, <1>2, <1>3, <1>4, <1>5, <1>6 DEF SlotInv
<1>9. TokenInv'
  BY <1>1, <1>2, <1>3, <1>4, <1>5, <1>6 DEF TokenInv
<1>10. AcceptInv'
  BY <1>1, <1>2, <1>3, <1>4, <1>5, <1>6 DEF AcceptInv
<1>11. LiveInv'
  BY <1>1, <1>2, <1>3, <1>4, <1>5, <1>6 DEF LiveInv
<1>12. ListedInv'
  BY <1>1, <1>2, <1>3, <1>4, <1>5, <1>6 DEF ListedInv
<1>13. OwnerInv'
  BY <1>1, <1>2, <1>3, <1>4, <1>5, <1>6 DEF OwnerInv
<1> QED
  BY <1>7, <1>8, <1>9, <1>10, <1>11, <1>12, <1>13

\* Every step of a worker keeps track of who holds what.
LEMMA HeldWorker ==
  ASSUME TypeOK, Held, PortInv, NEW w \in Workers, WorkerStep(w)
  PROVE  Held'
<1>1. CASE TestShutdown(w) \/ RemoveUnlisted(w)
  <2>1. /\ UNCHANGED <<contextVars, m_sockAccept, m_arrayClientContext, object, dropped, op>>
        /\ pc[w] \in {"test", "remove"}
    BY <1>1 DEF TestShutdown, RemoveUnlisted, At, kernelVars, listVars
  <2>2. /\ pc'[w] \in {"exited", "wait", "test"} /\ pc' = [pc EXCEPT ![w] = pc'[w]]
        /\ client' = [client EXCEPT ![w] = client'[w]] /\ slot' = [slot EXCEPT ![w] = slot'[w]]
    BY <1>1 DEF TestShutdown, RemoveUnlisted, Return, Goto, localVars, TypeOK
  <2>3. pc[w] \notin Early \cup Late /\ pc'[w] \notin Accepting \cup Receiving
    BY <2>1, <2>2 DEF Early, Late, Accepting, Receiving
  <2> QED
    BY <2>1, <2>2, <2>3, HeldLeaving
<1> QED
  BY <1>1, HeldShowMessage, HeldDequeue, HeldDoRecv, HeldRemove, HeldRelease, HeldDoAccept, HeldAssociate,
     HeldAssociateFails, HeldDiscard, HeldPostRecv, HeldDrop, HeldAdd, HeldPostAccept, HeldPostAcceptFails
     DEF WorkerStep

-----------------------------------------------------------------------------
(* Types and the port, step by step *)

\* Phases the workers go through.
Phases == {"test", "wait", "accept", "recv", "remove", "release", "associate", "discard",
           "postRecv", "drop", "add", "postAccept", "exited"} \cup DOMAIN AfterMessage

\* AfterMessage leads from a phase to a phase.
LEMMA PhasesKnown ==
  /\ DOMAIN AfterMessage = {"show_accept", "show_recv", "show_remove", "show_leave", "show_discard", "show_drop", "show_return"}
  /\ \A p \in DOMAIN AfterMessage : AfterMessage[p] \in Phases
BY DEF AfterMessage, Phases

\* A worker's step keeps the types and the port.
LEMMA TypeWorker ==
  ASSUME TypeOK, Held, PortInv, NEW w \in Workers, WorkerStep(w)
  PROVE  TypeOK' /\ PortInv'
<1>1. ASSUME NEW p \in Phases, Goto(w, p) PROVE pc' \in [Workers -> Phases]
  BY <1>1 DEF Goto, TypeOK, Phases
<1>2. ASSUME Return(w)
      PROVE  /\ pc' \in [Workers -> Phases]
             /\ slot' \in [Workers -> Slots \cup {None}] /\ client' \in [Workers -> Clients \cup {None}]
  BY <1>2 DEF Return, Goto, TypeOK, Phases
<1>3. pc' \in [Workers -> Phases]
      => pc' \in [Workers -> {"test", "wait", "accept", "recv", "remove", "release", "associate", "discard",
                              "postRecv", "drop", "add", "postAccept", "exited"} \cup DOMAIN AfterMessage]
  BY DEF Phases
<1>4. /\ DOMAIN AfterMessage \subseteq Phases
      /\ {"test", "wait", "accept", "recv", "remove", "release", "associate", "discard", "postRecv", "drop", "add",
          "postAccept", "exited", "show_accept", "show_recv", "show_remove", "show_leave", "show_discard",
          "show_drop", "show_return"} \subseteq Phases
  BY PhasesKnown DEF Phases
<1>5. /\ Early = {"associate", "show_discard", "discard", "postRecv"} /\ Late = {"show_drop", "drop", "add"}
      /\ pc[w] \in Early \cup Late \cup {"recv", "release"} => client[w] \in Clients
      /\ pc[w] \in Early \cup Late => m_Socket[client[w]] \in Sockets
      /\ pc[w] \in Early \cup {"recv"} => op[client[w]] = "idle"
      /\ pc[w] \in {"accept", "postAccept"} => slot[w] \in Slots
  BY DEF Held, LocalInv, LiveInv, TokenInv, Has, Early, Late, Receiving, Accepting
<1>6. \A c \in m_arrayClientContext : m_Socket[c] \in Sockets
  BY DEF Held, LiveInv, TypeOK
<1>7. CASE TestShutdown(w) \/ AssociateFails(w)
  <2>1. pc' \in [Workers -> Phases]
    BY <1>1, <1>4, <1>7 DEF TestShutdown, AssociateFails
  <2> QED
    BY <1>3, <1>7, <2>1 DEF TestShutdown, AssociateFails, TypeOK, PortInv, kernelVars, contextVars, listVars, localVars, stopVars
<1>8. CASE RemoveUnlisted(w)
  BY <1>2, <1>3, <1>8 DEF RemoveUnlisted, TypeOK, PortInv, kernelVars, contextVars, listVars, stopVars
<1>9. CASE ShowMessage(w)
  <2>1. /\ pc' \in [Workers -> Phases]
        /\ slot' \in [Workers -> Slots \cup {None}] /\ client' \in [Workers -> Clients \cup {None}]
    <3>1. CASE AfterMessage[pc[w]] = "test"
      BY <1>2, <1>9, <3>1 DEF ShowMessage
    <3>2. CASE AfterMessage[pc[w]] # "test"
      <4>1. Goto(w, AfterMessage[pc[w]]) /\ UNCHANGED <<slot, client>> /\ AfterMessage[pc[w]] \in Phases
        BY <1>9, <3>2, PhasesKnown DEF ShowMessage, localVars
      <4> QED
        BY <1>1, <4>1 DEF TypeOK
    <3> QED
      BY <3>1, <3>2
  <2> QED
    BY <1>3, <1>9, <2>1 DEF ShowMessage, TypeOK, PortInv, kernelVars, contextVars, listVars, stopVars
<1>10. CASE Dequeue(w)
  <2>1. /\ PortInv' /\ port' \in PortType
        /\ op' \in [Clients \cup Slots -> {"idle", "posted", "queued"}]
        /\ Head(port) \in ((Clients \cup Slots) \X Results) \cup {<<EXIT_CODE, "zero">>}
    BY <1>10, LeavePort DEF Dequeue
  <2>2. /\ slot' \in [Workers -> Slots \cup {None}] /\ client' \in [Workers -> Clients \cup {None}]
        /\ crashed' \in BOOLEAN
    BY <1>10 DEF Dequeue, TypeOK, TouchIo, localVars
  <2>3. pc' \in [Workers -> Phases]
    <3>1. CASE Head(port)[1] = EXIT_CODE
      BY <1>1, <1>4, <1>10, <3>1 DEF Dequeue
    <3>2. CASE Head(port)[1] # EXIT_CODE
      <4>1. Head(port)[2] \in Results
        BY <2>1, <3>2
      <4>2. Goto(w, CASE Head(port)[2] = "error" -> "show_leave"
                      [] Head(port)[2] \in {"gone", "zero"} -> "show_remove"
                      [] Head(port)[2] = "data" -> IF Head(port)[1] \in Slots THEN "show_accept" ELSE "show_recv")
        BY <1>10, <3>2 DEF Dequeue
      <4>3. CASE Head(port)[2] = "error"
        BY <1>1, <1>4, <4>2, <4>3
      <4>4. CASE Head(port)[2] \in {"gone", "zero"}
        BY <1>1, <1>4, <4>2, <4>4
      <4>5. CASE Head(port)[2] = "data"
        BY <1>1, <1>4, <4>2, <4>5
      <4> QED
        BY <4>1, <4>3, <4>4, <4>5 DEF Results
    <3> QED
      BY <3>1, <3>2
  <2>4. UNCHANGED <<object, bound, contextVars, m_sockAccept, listVars, stopVars, dropped>>
    BY <1>10 DEF Dequeue
  <2> QED
    BY <1>3, <2>1, <2>2, <2>3, <2>4 DEF TypeOK, PortType, contextVars, listVars, stopVars
<1>11. CASE Remove(w)
  <2>1. m_Socket[client[w]] \in Sockets /\ CloseSocket(m_Socket[client[w]])
    BY <1>6, <1>11 DEF Remove
  <2>2. pc' \in [Workers -> Phases]
    BY <1>1, <1>4, <1>11 DEF Remove
  <2> QED
    BY <1>3, <1>11, <2>1, <2>2, CloseEffect DEF Remove, TypeOK, PortType, contextVars, localVars, stopVars
<1>12. CASE Release(w)
  <2>1. m_Socket[client[w]] \in Sockets /\ CloseSocket(m_Socket[client[w]])
    BY <1>6, <1>12 DEF Release, Held, LocalInv, At
  <2> QED
    BY <1>2, <1>3, <1>12, <2>1, CloseEffect DEF Release, TypeOK, PortType, stopVars
<1>13. CASE DoRecv(w)
  <2>1. client[w] \in Clients /\ op[client[w]] = "idle"
    BY <1>5, <1>13 DEF DoRecv, At
  <2>2. PICK outcome \in {"done", "pending", "failed"} :
          /\ WSARecv(client[w], outcome)
          /\ IF outcome = "pending" THEN Goto(w, "show_return") /\ UNCHANGED localVars ELSE Return(w)
    BY <1>13 DEF DoRecv
  <2>3. /\ pc' \in [Workers -> Phases]
        /\ slot' \in [Workers -> Slots \cup {None}] /\ client' \in [Workers -> Clients \cup {None}]
    BY <1>1, <1>2, <1>4, <2>2 DEF localVars, TypeOK
  <2>4. /\ PortInv' /\ port' \in PortType /\ op' \in [Clients \cup Slots -> {"idle", "posted", "queued"}]
    BY <2>1, <2>2, RecvEffect
  <2>5. crashed' \in BOOLEAN
    BY <1>13 DEF DoRecv, TouchIo
  <2> QED
    BY <1>3, <1>13, <2>3, <2>4, <2>5 DEF DoRecv, TypeOK, PortType, contextVars, listVars, stopVars
<1>14. CASE DoAccept(w)
  <2>1. pc' \in [Workers -> Phases] /\ slot[w] \in Slots
    BY <1>1, <1>4, <1>5, <1>14 DEF DoAccept, At
  <2>2. /\ context' \in [Clients -> {"none", "live", "freed"}] /\ m_Socket' \in [Clients -> Sockets \cup {None}]
        /\ client' \in [Workers -> Clients \cup {None}]
    BY <1>14, <2>1 DEF DoAccept, TypeOK
  <2> QED
    BY <1>3, <1>14, <2>1, <2>2 DEF DoAccept, TypeOK, PortInv, kernelVars, listVars, stopVars
<1>15. CASE Associate(w)
  <2>1. pc' \in [Workers -> Phases] /\ client[w] \in Clients
    BY <1>1, <1>4, <1>5, <1>15 DEF Associate, At
  <2>2. /\ bound' \in [Sockets -> Clients \cup {None}] /\ object' \in [Sockets -> Clients \cup Slots \cup {None}]
        /\ io' \in [Clients -> {"none", "live", "freed"}]
    BY <1>15, <2>1 DEF Associate, TypeOK
  <2> QED
    BY <1>3, <1>15, <2>1, <2>2 DEF Associate, TypeOK, PortInv, listVars, localVars, stopVars
<1>16. CASE Discard(w)
  <2>1. m_Socket[client[w]] \in Sockets /\ CloseSocket(m_Socket[client[w]])
    BY <1>5, <1>16 DEF Discard, At
  <2> QED
    BY <1>2, <1>3, <1>16, <2>1, CloseEffect DEF Discard, TypeOK, PortType, listVars, stopVars
<1>17. CASE PostRecv(w)
  <2>1. client[w] \in Clients /\ op[client[w]] = "idle"
    BY <1>5, <1>17 DEF PostRecv, At
  <2>2. PICK outcome \in {"done", "pending", "failed"} :
          WSARecv(client[w], outcome) /\ Goto(w, IF outcome = "pending" THEN "show_drop" ELSE "add")
    BY <1>17 DEF PostRecv
  <2>3. pc' \in [Workers -> Phases]
    BY <1>1, <1>4, <2>2
  <2>4. /\ PortInv' /\ port' \in PortType /\ op' \in [Clients \cup Slots -> {"idle", "posted", "queued"}]
    BY <2>1, <2>2, RecvEffect
  <2> QED
    BY <1>3, <1>17, <2>3, <2>4 DEF PostRecv, TypeOK, PortType, contextVars, listVars, localVars, stopVars
<1>18. CASE Drop(w)
  <2>1. m_Socket[client[w]] \in Sockets /\ client[w] \in Clients /\ CloseSocket(m_Socket[client[w]])
    BY <1>5, <1>18 DEF Drop, At
  <2> QED
    BY <1>2, <1>3, <1>18, <2>1, CloseEffect DEF Drop, TypeOK, PortType, listVars, stopVars
<1>19. CASE AddToContextList(w)
  <2>1. pc' \in [Workers -> Phases] /\ client[w] \in Clients
    BY <1>1, <1>4, <1>5, <1>19 DEF AddToContextList, At
  <2> QED
    BY <1>3, <1>19, <2>1 DEF AddToContextList, TypeOK, PortInv, kernelVars, contextVars, localVars, stopVars
<1>20. CASE PostAccept(w)
  <2>1. slot[w] \in Slots /\ op[slot[w]] = "idle"
    BY <1>5, <1>20 DEF PostAccept, At, Held, SlotInv, Holds, Accepting
  <2>2. /\ object' \in [Sockets -> Clients \cup Slots \cup {None}] /\ m_sockAccept' \in [Slots -> Sockets \cup {None}]
        /\ op' \in [Clients \cup Slots -> {"idle", "posted", "queued"}]
    BY <1>20, <2>1 DEF PostAccept, TypeOK
  <2>3. PortInv'
    <3>1. \A i \in 1..Len(port) : port[i] \in ((Clients \cup Slots) \X Results) \cup {<<EXIT_CODE, "zero">>}
      BY ElementOfSeq DEF TypeOK
    <3>2. \A i \in 1..Len(port) : port[i][1] # EXIT_CODE => port[i][1] # slot[w] /\ port[i][1] \in Clients \cup Slots
      BY <2>1, <3>1 DEF PortInv
    <3> QED
      BY <1>20, <3>2 DEF PostAccept, PortInv, TypeOK
  <2> QED
    BY <1>2, <1>3, <1>20, <2>2, <2>3 DEF PostAccept, TypeOK, contextVars, listVars, stopVars
<1>21. CASE PostAcceptFails(w)
  <2>1. slot[w] \in Slots /\ pc' \in [Workers -> Phases]
    BY <1>1, <1>4, <1>5, <1>21 DEF PostAcceptFails, At
  <2>2. object' \in [Sockets -> Clients \cup Slots \cup {None}] /\ m_sockAccept' \in [Slots -> Sockets \cup {None}]
    BY <1>21, <2>1 DEF PostAcceptFails, TypeOK
  <2> QED
    BY <1>3, <1>21, <2>1, <2>2 DEF PostAcceptFails, TypeOK, PortInv, contextVars, listVars, localVars, stopVars
<1> QED
  BY <1>7, <1>8, <1>9, <1>10, <1>11, <1>12, <1>13, <1>14, <1>15, <1>16, <1>17, <1>18, <1>19, <1>20, <1>21 DEF WorkerStep

\* Complete and the two first parts of Stop() move nothing between workers.
LEMMA KernelStep ==
  ASSUME TypeOK, Parts,
         StopSetEvent \/ StopPost \/ \E x \in Clients \cup Slots, result \in Results : Complete(x, result)
  PROVE  TypeOK' /\ Parts'
<1> USE DEF Parts
<1>1. Held
  BY DEF Held
<1>2. ASSUME NEW x \in Clients \cup Slots, NEW result \in Results, Complete(x, result) PROVE TypeOK' /\ Parts'
  <2>1. PortInv' /\ port' \in PortType
    BY <1>2, EnterPort DEF Complete
  <2>2. /\ op' \in [Clients \cup Slots -> {"idle", "posted", "queued"}]
        /\ \A y \in Clients \cup Slots : op'[y] = "idle" <=> op[y] = "idle"
    BY <1>2 DEF Complete, TypeOK
  <2>3. Held'
    BY <1>1, <1>2, <2>2, HeldUnmoved DEF Complete, listVars
  <2>4. TypeOK'
    BY <1>2, <2>1, <2>2 DEF Complete, TypeOK, PortType, contextVars, listVars, localVars, stopVars
  <2> QED
    BY <2>1, <2>3, <2>4 DEF Held
<1>3. CASE StopSetEvent
  <2>1. Held'
    BY <1>1, <1>3, HeldUnmoved DEF StopSetEvent, kernelVars, listVars
  <2>2. TypeOK' /\ PortInv'
    BY <1>3 DEF StopSetEvent, TypeOK, PortInv, kernelVars, contextVars, listVars, localVars
  <2> QED
    BY <2>1, <2>2 DEF Held
<1>4. CASE StopPost
  <2>1. Held'
    BY <1>1, <1>4, HeldUnmoved DEF StopPost, listVars
  <2>2. port' \in PortType /\ PortInv'
    <3>1. CASE port' = port
      BY <1>4, <3>1 DEF StopPost, PortInv, TypeOK, PortType
    <3>2. CASE port' = Append(port, <<EXIT_CODE, "zero">>)
      <4>1. /\ port' \in PortType /\ Len(port') = Len(port) + 1 /\ Len(port) \in Nat
            /\ \A i \in 1..Len(port) : port'[i] = port[i]
            /\ port'[Len(port) + 1] = <<EXIT_CODE, "zero">>
        BY <3>2, AppendProperties, LenProperties DEF TypeOK, PortType
      <4>2. port'[Len(port) + 1][1] = EXIT_CODE /\ op' = op
        BY <1>4, <4>1 DEF StopPost
      <4>3. ASSUME NEW i \in 1..Len(port'), port'[i][1] # EXIT_CODE
            PROVE  op[port'[i][1]] = "queued" /\ \A j \in 1..Len(port') : port'[j][1] = port'[i][1] => j = i
        <5>1. i \in 1..Len(port) /\ port'[i] = port[i]
          BY <4>1, <4>2, <4>3
        <5>2. op[port[i][1]] = "queued" /\ \A j \in 1..Len(port) : port[j][1] = port[i][1] => j = i
          BY <4>3, <5>1 DEF PortInv
        <5>3. ASSUME NEW j \in 1..Len(port'), port'[j][1] = port'[i][1] PROVE j = i
          BY <4>1, <4>2, <4>3, <5>1, <5>2, <5>3
        <5> QED
          BY <5>1, <5>2, <5>3
      <4> QED
        BY <4>1, <4>2, <4>3 DEF PortInv
    <3> QED
      BY <1>4, <3>1, <3>2 DEF StopPost
  <2>3. posts' \in 0..Cardinality(Workers) /\ stop' \in {"no", "post", "join", "done"}
    <3>1. Cardinality(Workers) \in Nat
      BY IOCPAssumption, FS_CardinalityType
    <3> QED
      BY <1>4, <3>1 DEF StopPost, TypeOK
  <2>4. TypeOK'
    BY <1>4, <2>2, <2>3 DEF StopPost, TypeOK, PortType, contextVars, listVars, localVars
  <2> QED
    BY <2>1, <2>2, <2>4 DEF Held
<1> QED
  BY <1>2, <1>3, <1>4

\* _ClearContextList and _Uninitialize find every context that has not been
\* forgotten and every socket that is open.
LEMMA ClearStep ==
  ASSUME TypeOK, Parts, StopClear
  PROVE  TypeOK' /\ NothingLeaked'
<1> USE DEF Parts
<1>1. \A w \in Workers : pc[w] \notin Early \cup Late \cup {"postRecv"}
  BY DEF StopClear, Early, Late
<1>2. ASSUME NEW c \in Clients, context'[c] = "live" PROVE c \in dropped'
  <2>1. c \notin m_arrayClientContext /\ context[c] = "live"
    BY <1>2 DEF StopClear
  <2>2. c \in dropped
    BY <1>1, <2>1 DEF ListedInv, Has
  <2> QED
    BY <2>2 DEF StopClear
<1>3. ASSUME NEW k \in Sockets PROVE object'[k] = None
  <2> DEFINE closed == {m_Socket[c] : c \in m_arrayClientContext} \cup {m_sockAccept[s] : s \in Slots}
  <2>1. object'[k] = IF k \in closed THEN None ELSE object[k]
    BY DEF StopClear
  <2>2. CASE object[k] \in Slots
    BY <2>1, <2>2 DEF OwnerInv
  <2>3. CASE object[k] \in Clients
    BY <1>1, <2>1, <2>3 DEF OwnerInv, Has, Late
  <2>4. CASE object[k] = None
    BY <2>1, <2>4
  <2> QED
    BY <2>2, <2>3, <2>4 DEF TypeOK
<1>4. NothingLeaked'
  BY <1>2, <1>3 DEF NothingLeaked
<1>5. /\ object' \in [Sockets -> Clients \cup Slots \cup {None}] /\ bound' \in [Sockets -> Clients \cup {None}]
      /\ context' \in [Clients -> {"none", "live", "freed"}] /\ io' \in [Clients -> {"none", "live", "freed"}]
  BY DEF StopClear, TypeOK
<1>6. TypeOK'
  BY <1>5 DEF StopClear, TypeOK, localVars
<1> QED
  BY <1>4, <1>6

\* Start() has posted every accept, each with a socket of its own.
LEMMA IOCPInit == Init => IInv
<1> SUFFICES ASSUME Init PROVE IInv
  OBVIOUS
<1>1. PICK h \in [Slots -> Sockets] :
        /\ \A s, t \in Slots : s # t => h[s] # h[t]
        /\ m_sockAccept = h
        /\ object = [k \in Sockets |-> IF \E s \in Slots : h[s] = k THEN CHOOSE s \in Slots : h[s] = k ELSE None]
  BY DEF Init
<1>2. ASSUME NEW k \in Sockets
      PROVE  object[k] = None \/ (object[k] \in Slots /\ h[object[k]] = k)
  <2>1. CASE \E s \in Slots : h[s] = k
    <3>1. object[k] = CHOOSE s \in Slots : h[s] = k
      BY <1>1, <2>1
    <3> QED
      BY <2>1, <3>1
  <2>2. CASE ~\E s \in Slots : h[s] = k
    BY <1>1, <2>2
  <2> QED
    BY <2>1, <2>2
<1>3. \A w \in Workers : pc[w] = "test" /\ slot[w] = None /\ client[w] = None
  BY DEF Init
<1>4. None \notin Clients /\ None \notin Slots /\ Clients \cap Slots = {}
  BY IOCPAssumption
<1>5. TypeOK
  <2>1. port \in PortType
    BY EmptySeq DEF Init, PortType
  <2>2. op \in [Clients \cup Slots -> {"idle", "posted", "queued"}]
    BY DEF Init
  <2>3. m_sockAccept \in [Slots -> Sockets \cup {None}]
    BY <1>1
  <2>4. object \in [Sockets -> Clients \cup Slots \cup {None}]
    <3>1. \A k \in Sockets : object[k] \in Clients \cup Slots \cup {None}
      BY <1>2
    <3> QED
      BY <1>1, <3>1
  <2>5. bound \in [Sockets -> Clients \cup {None}]
    BY DEF Init
  <2>6. /\ context \in [Clients -> {"none", "live", "freed"}] /\ io \in [Clients -> {"none", "live", "freed"}]
        /\ m_Socket \in [Clients -> Sockets \cup {None}]
    BY DEF Init
  <2>7. /\ pc \in [Workers -> {"test", "wait", "accept", "recv", "remove", "release", "associate", "discard",
                               "postRecv", "drop", "add", "postAccept", "exited"} \cup DOMAIN AfterMessage]
        /\ slot \in [Workers -> Slots \cup {None}] /\ client \in [Workers -> Clients \cup {None}]
    BY DEF Init
  <2>8. posts \in 0..Cardinality(Workers)
    BY IOCPAssumption, FS_CardinalityType DEF Init
  <2>9. /\ m_arrayClientContext \subseteq Clients /\ m_csContextList \in Workers \cup {None} /\ dropped \subseteq Clients
        /\ shutdown \in BOOLEAN /\ crashed \in BOOLEAN /\ stop \in {"no", "post", "join", "done"}
    BY DEF Init
  <2> QED
    BY <2>1, <2>2, <2>3, <2>4, <2>5, <2>6, <2>7, <2>8, <2>9 DEF TypeOK, PortType
<1>6. PortInv
  BY DEF Init, PortInv
<1> USE DEF Has, Holds, Early, Late, Accepting, Receiving
<1>7. LocalInv /\ AcceptInv
  BY <1>3 DEF LocalInv, AcceptInv
<1>8. SlotInv
  BY <1>1, <1>3 DEF SlotInv
<1>9. TokenInv
  BY <1>3 DEF TokenInv
<1>10. LiveInv
  BY <1>3, <1>4 DEF Init, LiveInv
<1>11. ListedInv
  BY DEF Init, ListedInv
<1>12. OwnerInv
  BY <1>1, <1>2, <1>3, <1>4 DEF OwnerInv
<1>13. NothingLeaked
  BY DEF Init, NothingLeaked
<1> QED
  BY <1>5, <1>6, <1>7, <1>8, <1>9, <1>10, <1>11, <1>12, <1>13 DEF IInv, Parts

\* The inductive invariant holds in every reachable state of the server.
LEMMA IOCPInvariant == Spec => []IInv
<1>1. ASSUME IInv, [Next]_vars PROVE IInv'
  <2>1. CASE Running /\ Next
    <3>1. stop # "done" /\ TypeOK /\ Parts /\ Held
      BY <1>1, <2>1 DEF Running, IInv, Parts, Held
    <3>2. ASSUME NEW w \in Workers, WorkerStep(w) PROVE IInv'
      <4>1. TypeOK' /\ Parts'
        BY <3>1, <3>2, HeldWorker, TypeWorker DEF Parts, Held
      <4>2. stop' # "done"
        BY <3>1, <3>2 DEF WorkerStep, stopVars, TestShutdown, Dequeue, ShowMessage, RemoveUnlisted, Remove, Release, DoRecv,
                          DoAccept, Associate, AssociateFails, Discard, PostRecv, Drop, AddToContextList, PostAccept, PostAcceptFails
      <4> QED
        BY <4>1, <4>2 DEF IInv, NothingLeaked
    <3>3. CASE StopSetEvent \/ StopPost \/ \E x \in Clients \cup Slots, result \in Results : Complete(x, result)
      <4>1. TypeOK' /\ Parts'
        BY <3>1, <3>3, KernelStep
      <4>2. stop' # "done"
        BY <3>1, <3>3 DEF StopSetEvent, StopPost, Complete, stopVars
      <4> QED
        BY <4>1, <4>2 DEF IInv, NothingLeaked
    <3>4. CASE StopClear
      <4>1. stop' = "done" /\ TypeOK' /\ NothingLeaked'
        BY <3>1, <3>4, ClearStep DEF StopClear
      <4> QED
        BY <4>1 DEF IInv
    <3> QED
      BY <2>1, <3>2, <3>3, <3>4 DEF Next, StopStep
  <2>2. Next => Running
    BY DEF Next, StopStep, WorkerStep, At, TestShutdown, Dequeue, ShowMessage, RemoveUnlisted, Remove, Release, DoRecv,
           DoAccept, Associate, AssociateFails, Discard, PostRecv, Drop, AddToContextList, PostAccept, PostAcceptFails,
           StopSetEvent, StopPost, StopClear, Complete
  <2>3. CASE UNCHANGED vars
    <3>1. UNCHANGED <<port, op, object, bound, context, io, m_Socket, m_sockAccept, m_arrayClientContext, m_csContextList,
                      pc, slot, client, shutdown, stop, posts, crashed, dropped>>
      BY <2>3 DEF vars, kernelVars, contextVars, listVars, localVars, stopVars
    <3>2. TypeOK' /\ NothingLeaked'
      BY <1>1, <3>1 DEF IInv, TypeOK, NothingLeaked
    <3>3. stop' # "done" => Parts'
      BY <1>1, <3>1 DEF IInv, Parts, PortInv, LocalInv, SlotInv, TokenInv, AcceptInv, LiveInv, ListedInv, OwnerInv, Has, Holds
    <3> QED
      BY <3>2, <3>3 DEF IInv
  <2> QED
    BY <1>1, <2>1, <2>2, <2>3
<1>2. IInv /\ [Next]_vars => IInv'
  BY <1>1
<1> QED
  BY <1>2, IOCPInit, PTL DEF Spec

-----------------------------------------------------------------------------
(* The theorems *)

\* The context that is the completion key of a socket is never deleted while
\* an operation on it is outstanding or queued or a worker has it in hand.
THEOREM ContextsAreSafe == Spec => []ContextsOutliveOperations
<1>1. ASSUME IInv PROVE ContextsOutliveOperations
  <2>1. stop # "done" => LiveInv
    BY <1>1 DEF IInv, Parts
  <2> QED
    BY <2>1 DEF ContextsOutliveOperations, LiveInv, Has, Early, Late, Receiving
<1> QED
  BY <1>1, IOCPInvariant, PTL

\* Stop() closes every socket and deletes every context but those that
\* _DoAccept has forgotten.
THEOREM StopLeaksNothing == Spec => []NothingLeaked
<1>1. IInv => NothingLeaked
  BY DEF IInv
<1> QED
  BY <1>1, IOCPInvariant, PTL
=============================================================================
