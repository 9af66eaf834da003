------------------------------ MODULE IOCPModel ------------------------------
(***************************************************************************)
(* Chapter04/code/IOCPServerDemo/IOCPModel.cpp: worker threads take the    *)
(* completions of AcceptEx and WSARecv from one completion port.  A socket *)
(* context is the port's key for its socket and must outlive the           *)
(* operations on it; contexts are found for release in a list under a      *)
(* critical section.  Stop() is called by the thread of the window, in     *)
(* which the workers show their messages.                                  *)
(*                                                                         *)
(* The state begins after a successful Start(): every accept is posted.    *)
(***************************************************************************)
EXTENDS Integers, Sequences, FiniteSets

CONSTANTS Workers,   \* worker threads (m_nThreads of them)
          Clients,   \* socket contexts _DoAccept may create, each once
          Slots,     \* the MAX_POST_ACCEPT IoContexts of the listening socket
          Sockets,   \* values of SOCKET handles
          None

ASSUME IOCPAssumption ==
    /\ IsFiniteSet(Workers) /\ Clients \cap Slots = {}
    /\ Cardinality(Sockets) >= Cardinality(Slots)
    /\ None \notin Workers \cup Clients \cup Slots \cup Sockets

EXIT_CODE == None

VARIABLES
    port,                   \* the completion port: a queue of <<operation, result>>
    op,                     \* client or slot -> its overlapped operation
    object,                 \* handle -> the client or slot whose socket it names, or None
    bound,                  \* handle -> the client its socket was associated for, or None
    context,                \* client -> its PER_SOCKET_CONTEXT
    io,                     \* client -> its PER_IO_CONTEXT
    m_Socket,               \* client -> the handle in both
    m_sockAccept,           \* slot -> the handle in the accept's IoContext
    m_arrayClientContext,
    m_csContextList,        \* its owner or None
    pc, slot, client,       \* worker -> where it is, pIoContext of an accept, pSocketContext
    shutdown,               \* m_hShutdownEvent
    stop, posts,            \* where Stop() is; the exit codes it has posted
    crashed,                \* the process has died
    dropped                 \* history: contexts _DoAccept gave up after WSARecv

kernelVars == <<port, op, object, bound>>
contextVars == <<context, io, m_Socket>>
listVars == <<m_arrayClientContext, m_csContextList>>
localVars == <<slot, client>>
stopVars == <<shutdown, stop, posts>>
vars == <<kernelVars, contextVars, m_sockAccept, listVars, pc, localVars, stopVars, crashed, dropped>>

Results == {"data", "zero", "gone", "error"}

\* Where a worker shows a message -> what it does next.
AfterMessage ==
    [show_accept |-> "accept", show_recv |-> "recv", show_remove |-> "remove", show_leave |-> "exited",
     show_discard |-> "discard", show_drop |-> "drop", show_return |-> "test"]

TypeOK ==
    /\ port \in Seq(((Clients \cup Slots) \X Results) \cup {<<EXIT_CODE, "zero">>})
    /\ op \in [Clients \cup Slots -> {"idle", "posted", "queued"}]
    /\ object \in [Sockets -> Clients \cup Slots \cup {None}]
    /\ bound \in [Sockets -> Clients \cup {None}]
    /\ context \in [Clients -> {"none", "live", "freed"}]
    /\ io \in [Clients -> {"none", "live", "freed"}]
    /\ m_Socket \in [Clients -> Sockets \cup {None}]
    /\ m_sockAccept \in [Slots -> Sockets \cup {None}]
    /\ m_arrayClientContext \subseteq Clients
    /\ m_csContextList \in Workers \cup {None}
    /\ pc \in [Workers -> {"test", "wait", "accept", "recv", "remove", "release", "associate", "discard",
                           "postRecv", "drop", "add", "postAccept", "exited"} \cup DOMAIN AfterMessage]
    /\ slot \in [Workers -> Slots \cup {None}]
    /\ client \in [Workers -> Clients \cup {None}]
    /\ shutdown \in BOOLEAN /\ stop \in {"no", "post", "join", "done"} /\ posts \in 0..Cardinality(Workers)
    /\ crashed \in BOOLEAN /\ dropped \subseteq Clients

Init ==
    /\ port = <<>>
    /\ op = [x \in Clients \cup Slots |-> IF x \in Slots THEN "posted" ELSE "idle"]
    /\ \E h \in [Slots -> Sockets] :
        /\ \A s, t \in Slots : s # t => h[s] # h[t]
        /\ m_sockAccept = h
        /\ object = [k \in Sockets |-> IF \E s \in Slots : h[s] = k THEN CHOOSE s \in Slots : h[s] = k ELSE None]
    /\ bound = [k \in Sockets |-> None]
    /\ context = [c \in Clients |-> "none"] /\ io = [c \in Clients |-> "none"]
    /\ m_Socket = [c \in Clients |-> None]
    /\ m_arrayClientContext = {} /\ m_csContextList = None
    /\ pc = [w \in Workers |-> "test"]
    /\ slot = [w \in Workers |-> None] /\ client = [w \in Workers |-> None]
    /\ shutdown = FALSE /\ stop = "no" /\ posts = 0
    /\ crashed = FALSE /\ dropped = {}

-----------------------------------------------------------------------------
(* Windows *)

Running == ~crashed /\ stop # "done"
Goto(w, where) == pc' = [pc EXCEPT ![w] = where]
At(w, where) == Running /\ pc[w] = where

\* The handling of a completion is over.
Return(w) ==
    /\ Goto(w, "test")
    /\ slot' = [slot EXCEPT ![w] = None]
    /\ client' = [client EXCEPT ![w] = None]

\* An operation completes.  AcceptEx completes with the first data of a client.
Complete(x, result) ==
    /\ Running /\ op[x] = "posted"
    /\ x \in Slots => /\ result # "zero"
                      /\ result = "data" => \E c \in Clients : context[c] = "none"
    /\ op' = [op EXCEPT ![x] = "queued"]
    /\ port' = Append(port, <<x, result>>)
    /\ UNCHANGED <<object, bound, contextVars, m_sockAccept, listVars, pc, localVars, stopVars, crashed, dropped>>

\* closesocket(k): the operation on the socket is aborted.  A handle that
\* names nothing is an error nobody looks at; a handle that names the socket
\* of another context closes that one.
CloseSocket(k) ==
    /\ object' = [object EXCEPT ![k] = None]
    /\ bound' = [bound EXCEPT ![k] = None]
    /\ IF object[k] # None /\ op[object[k]] = "posted"
       THEN /\ op' = [op EXCEPT ![object[k]] = "queued"]
            /\ \E result \in {"gone", "error"} : port' = Append(port, <<object[k], result>>)
       ELSE UNCHANGED <<op, port>>

-----------------------------------------------------------------------------
(* Mutants *)

\* _DoAccept deletes the whole context, not only the IoContext, although the
\* aborted operation is still to come back with it.
DropReleases(w) ==
    /\ At(w, "drop")
    /\ CloseSocket(m_Socket[client[w]])
    /\ io' = [io EXCEPT ![client[w]] = "freed"]
    /\ context' = [context EXCEPT ![client[w]] = "freed"]
    /\ dropped' = dropped \cup {client[w]}
    /\ Return(w)
    /\ UNCHANGED <<m_Socket, m_sockAccept, listVars, stopVars, crashed>>

\* The context is not deleted when the association fails.
ForgetContext(w) ==
    /\ At(w, "discard")
    /\ Return(w)
    /\ UNCHANGED <<kernelVars, contextVars, m_sockAccept, listVars, stopVars, crashed, dropped>>

\* Stop posts one exit code too few.
StopPostOneLess ==
    /\ Running /\ stop = "post"
    /\ IF posts < Cardinality(Workers) - 1
       THEN /\ posts' = posts + 1
            /\ port' = Append(port, <<EXIT_CODE, "zero">>)
            /\ UNCHANGED stop
       ELSE /\ stop' = "join"
            /\ UNCHANGED <<posts, port>>
    /\ UNCHANGED <<op, object, bound, contextVars, m_sockAccept, listVars, pc, localVars, shutdown, crashed, dropped>>

-----------------------------------------------------------------------------
(* _WorkerThread *)

TestShutdown(w) ==
    /\ At(w, "test")
    /\ Goto(w, IF shutdown THEN "exited" ELSE "wait")
    /\ UNCHANGED <<kernelVars, contextVars, m_sockAccept, listVars, localVars, stopVars, crashed, dropped>>

\* The outcomes for crashed of using the IoContext of c: undefined when _DoAccept
\* has deleted it.
TouchIo(c) == IF io[c] = "freed" THEN BOOLEAN ELSE {FALSE}

\* GetQueuedCompletionStatus, the test for EXIT_CODE and the choice by result
\* and operation.
Dequeue(w) ==
    /\ At(w, "wait") /\ port # <<>>
    /\ port' = Tail(port)
    /\ LET x == Head(port)[1]
           result == Head(port)[2]
       IN  IF x = EXIT_CODE
           THEN /\ Goto(w, "exited")
                /\ UNCHANGED <<op, localVars, crashed>>
           ELSE /\ crashed' \in (IF x \in Clients /\ result \in {"data", "zero"} THEN TouchIo(x) ELSE {FALSE})
                /\ op' = [op EXCEPT ![x] = "idle"]
                /\ slot' = [slot EXCEPT ![w] = IF x \in Slots THEN x ELSE None]
                /\ client' = [client EXCEPT ![w] = IF x \in Clients THEN x ELSE None]
                /\ Goto(w, CASE result = "error" -> "show_leave"
                             [] result \in {"gone", "zero"} -> "show_remove"
                             [] result = "data" -> IF x \in Slots THEN "show_accept" ELSE "show_recv")
    /\ UNCHANGED <<object, bound, contextVars, m_sockAccept, listVars, stopVars, dropped>>

\* _ShowMessage inserts an item into a list control, which sends a message to
\* the thread of the window and waits: that thread must not be inside Stop().
\* After the message HandleError has no more to do than to end the thread, on
\* any error but ERROR_NETNAME_DELETED.  (The wait for a completion has no
\* timeout, so WAIT_TIMEOUT does not occur.)
ShowMessage(w) ==
    /\ Running /\ stop = "no" /\ pc[w] \in DOMAIN AfterMessage
    /\ IF AfterMessage[pc[w]] = "test" THEN Return(w)
       ELSE Goto(w, AfterMessage[pc[w]]) /\ UNCHANGED localVars
    /\ UNCHANGED <<kernelVars, contextVars, m_sockAccept, listVars, stopVars, crashed, dropped>>

-----------------------------------------------------------------------------
(* _RemoveContext: the client has left *)

\* Not in the list (or the listening context): nothing to do.
RemoveUnlisted(w) ==
    /\ At(w, "remove") /\ m_csContextList = None
    /\ client[w] \notin m_arrayClientContext
    /\ Return(w)
    /\ UNCHANGED <<kernelVars, contextVars, m_sockAccept, listVars, stopVars, crashed, dropped>>

\* ~_PER_SOCKET_CONTEXT closes m_Socket ...
Remove(w) ==
    /\ At(w, "remove") /\ m_csContextList = None
    /\ client[w] \in m_arrayClientContext
    /\ m_csContextList' = w
    /\ CloseSocket(m_Socket[client[w]])
    /\ Goto(w, "release")
    /\ UNCHANGED <<contextVars, m_sockAccept, m_arrayClientContext, localVars, stopVars, crashed, dropped>>

\* ... and deletes the IoContext, whose destructor closes the same handle: by
\* now it may name a socket that another worker has just made.
Release(w) ==
    /\ At(w, "release")
    /\ CloseSocket(m_Socket[client[w]])
    /\ context' = [context EXCEPT ![client[w]] = "freed"]
    /\ io' = [io EXCEPT ![client[w]] = "freed"]
    /\ m_arrayClientContext' = m_arrayClientContext \ {client[w]}
    /\ m_csContextList' = None
    /\ Return(w)
    /\ UNCHANGED <<m_Socket, m_sockAccept, stopVars, crashed, dropped>>

-----------------------------------------------------------------------------
(* _DoRecv, _DoAccept *)

\* WSARecv on the socket of c: complete at once, pending, or failing.  It fails
\* when the handle no longer names the socket of c: it then names nothing, or a
\* socket that waits for its client.  (For it to name the socket of another
\* client takes a third one, besides c and the one whose handle was closed twice.)
WSARecv(c, outcome) ==
    \/ /\ outcome = "done" /\ object[m_Socket[c]] = c
       /\ op' = [op EXCEPT ![c] = "queued"]
       /\ \E result \in {"data", "zero"} : port' = Append(port, <<c, result>>)
    \/ /\ outcome = "pending" /\ object[m_Socket[c]] = c
       /\ op' = [op EXCEPT ![c] = "posted"]
       /\ UNCHANGED port
    \/ /\ outcome = "failed"
       /\ UNCHANGED <<op, port>>

\* _DoRecv posts the next WSARecv and ignores what _PostRecv returns, which
\* shows a message when the operation is pending.
DoRecv(w) ==
    /\ At(w, "recv")
    /\ crashed' \in TouchIo(client[w])
    /\ \E outcome \in {"done", "pending", "failed"} :
        /\ WSARecv(client[w], outcome)
        /\ IF outcome = "pending" THEN Goto(w, "show_return") /\ UNCHANGED localVars ELSE Return(w)
    /\ UNCHANGED <<object, bound, contextVars, m_sockAccept, listVars, stopVars, dropped>>

\* A new context takes over the socket of the accept.
DoAccept(w) ==
    /\ At(w, "accept")
    /\ \E c \in Clients :
        /\ context[c] = "none"
        /\ context' = [context EXCEPT ![c] = "live"]
        /\ m_Socket' = [m_Socket EXCEPT ![c] = m_sockAccept[slot[w]]]
        /\ client' = [client EXCEPT ![w] = c]
    /\ Goto(w, "associate")
    /\ UNCHANGED <<kernelVars, io, m_sockAccept, listVars, slot, stopVars, crashed, dropped>>

\* _AssociateWithIOCP, and the new IoContext.  A socket is associated once.
Associate(w) ==
    LET c == client[w]  k == m_Socket[c]
    IN  /\ At(w, "associate") /\ object[k] # None /\ bound[k] = None
        /\ bound' = [bound EXCEPT ![k] = c]
        /\ object' = [object EXCEPT ![k] = IF @ = slot[w] THEN c ELSE @]
        /\ io' = [io EXCEPT ![c] = "live"]
        /\ Goto(w, "postRecv")
        /\ UNCHANGED <<port, op, context, m_Socket, m_sockAccept, listVars, localVars, stopVars, crashed, dropped>>

\* It fails ...
AssociateFails(w) ==
    /\ At(w, "associate")
    /\ Goto(w, "show_discard")
    /\ UNCHANGED <<kernelVars, contextVars, m_sockAccept, listVars, localVars, stopVars, crashed, dropped>>

\* ... and after the message the context is deleted; the accept is not posted
\* again.
Discard(w) ==
    /\ At(w, "discard")
    /\ CloseSocket(m_Socket[client[w]])
    /\ context' = [context EXCEPT ![client[w]] = "freed"]
    /\ Return(w)
    /\ UNCHANGED <<io, m_Socket, m_sockAccept, listVars, stopVars, crashed, dropped>>

\* _PostRecv returns false when WSARecv is pending and true when it is done or
\* has failed.
PostRecv(w) ==
    /\ At(w, "postRecv")
    /\ \E outcome \in {"done", "pending", "failed"} :
        /\ WSARecv(client[w], outcome)
        /\ Goto(w, IF outcome = "pending" THEN "show_drop" ELSE "add")
    /\ UNCHANGED <<object, bound, contextVars, m_sockAccept, listVars, localVars, stopVars, crashed, dropped>>

\* After false, the IoContext is deleted and with it the socket closed; the
\* context itself is forgotten and the accept is not posted again.
Drop(w) ==
    /\ At(w, "drop")
    /\ CloseSocket(m_Socket[client[w]])
    /\ io' = [io EXCEPT ![client[w]] = "freed"]
    /\ dropped' = dropped \cup {client[w]}
    /\ Return(w)
    /\ UNCHANGED <<context, m_Socket, m_sockAccept, listVars, stopVars, crashed>>

AddToContextList(w) ==
    /\ At(w, "add") /\ m_csContextList = None
    /\ m_arrayClientContext' = m_arrayClientContext \cup {client[w]}
    /\ Goto(w, "postAccept")
    /\ UNCHANGED <<kernelVars, contextVars, m_sockAccept, m_csContextList, localVars, stopVars, crashed, dropped>>

\* _PostAccept makes a socket for the next client, any handle value not in use,
\* and posts AcceptEx.
PostAccept(w) ==
    /\ At(w, "postAccept")
    /\ \E k \in Sockets :
        /\ object[k] = None
        /\ object' = [object EXCEPT ![k] = slot[w]]
        /\ m_sockAccept' = [m_sockAccept EXCEPT ![slot[w]] = k]
    /\ op' = [op EXCEPT ![slot[w]] = "posted"]
    /\ Return(w)
    /\ UNCHANGED <<port, bound, contextVars, listVars, stopVars, crashed, dropped>>

\* AcceptEx fails, or WSASocket has failed and left INVALID_SOCKET.
PostAcceptFails(w) ==
    /\ At(w, "postAccept")
    /\ \/ \E k \in Sockets :
            /\ object[k] = None
            /\ object' = [object EXCEPT ![k] = slot[w]]
            /\ m_sockAccept' = [m_sockAccept EXCEPT ![slot[w]] = k]
       \/ /\ m_sockAccept' = [m_sockAccept EXCEPT ![slot[w]] = None]
          /\ UNCHANGED object
    /\ Goto(w, "show_return")
    /\ UNCHANGED <<port, op, bound, contextVars, listVars, localVars, stopVars, crashed, dropped>>

-----------------------------------------------------------------------------
(* Stop, in the thread of the window *)

StopSetEvent ==
    /\ Running /\ stop = "no"
    /\ shutdown' = TRUE
    /\ stop' = "post"
    /\ UNCHANGED <<kernelVars, contextVars, m_sockAccept, listVars, pc, localVars, posts, crashed, dropped>>

\* One exit code for each worker thread.
StopPost ==
    /\ Running /\ stop = "post"
    /\ IF posts < Cardinality(Workers)
       THEN /\ posts' = posts + 1
            /\ port' = Append(port, <<EXIT_CODE, "zero">>)
            /\ UNCHANGED stop
       ELSE /\ stop' = "join"
            /\ UNCHANGED <<posts, port>>
    /\ UNCHANGED <<op, object, bound, contextVars, m_sockAccept, listVars, pc, localVars, shutdown, crashed, dropped>>

\* The threads have ended: _ClearContextList and _Uninitialize.  No operation
\* matters any more, as nobody reads the port.
StopClear ==
    /\ Running /\ stop = "join" /\ \A w \in Workers : pc[w] = "exited"
    /\ stop' = "done"
    /\ context' = [c \in Clients |-> IF c \in m_arrayClientContext THEN "freed" ELSE context[c]]
    /\ io' = [c \in Clients |-> IF c \in m_arrayClientContext THEN "freed" ELSE io[c]]
    /\ m_arrayClientContext' = {}
    /\ LET closed == {m_Socket[c] : c \in m_arrayClientContext} \cup {m_sockAccept[s] : s \in Slots}
       IN  /\ object' = [k \in Sockets |-> IF k \in closed THEN None ELSE object[k]]
           /\ bound' = [k \in Sockets |-> IF k \in closed THEN None ELSE bound[k]]
    /\ UNCHANGED <<port, op, m_Socket, m_sockAccept, m_csContextList, pc, localVars, shutdown, posts, crashed, dropped>>

-----------------------------------------------------------------------------
WorkerStep(w) ==
    \/ TestShutdown(w) \/ Dequeue(w) \/ ShowMessage(w)
    \/ RemoveUnlisted(w) \/ Remove(w) \/ Release(w)
    \/ DoRecv(w)
    \/ DoAccept(w) \/ Associate(w) \/ AssociateFails(w) \/ Discard(w) \/ PostRecv(w) \/ Drop(w)
    \/ AddToContextList(w) \/ PostAccept(w) \/ PostAcceptFails(w)
StopStep == StopPost \/ StopClear

Next ==
    \/ \E w \in Workers : WorkerStep(w)
    \/ StopSetEvent \/ StopStep
    \/ \E x \in Clients \cup Slots, result \in Results : Complete(x, result)

\* Threads run when they can, Stop() goes on once it is called; nothing is
\* assumed of the clients.
Spec ==
    /\ Init /\ [][Next]_vars
    /\ \A w \in Workers : WF_vars(WorkerStep(w))
    /\ WF_vars(StopStep)

-----------------------------------------------------------------------------
(* Properties *)

\* A context is the key under which the port returns its operations, and the
\* worker that gets one reads it: it is never released while its WSARecv is
\* outstanding or queued, nor while a worker has it in hand, whichever worker
\* removes it and whether or not the accepting one has listed it yet.
ContextsOutliveOperations ==
    ~crashed /\ stop # "done" =>
        \A c \in Clients :
            /\ op[c] # "idle" => context[c] = "live"
            /\ \A w \in Workers :
                client[w] = c /\ pc[w] \in {"show_recv", "recv", "show_remove", "remove", "release", "associate", "postRecv",
                                            "show_discard", "discard", "show_drop", "drop", "add"}
                    => context[c] = "live"

\* When Stop() has returned, no socket is open, and every context has been
\* deleted but the ones that _DoAccept forgot after its first _PostRecv; also
\* those whose client had left before they were listed.
NothingLeaked ==
    stop = "done" =>
        /\ \A c \in Clients : context[c] = "live" => c \in dropped
        /\ \A k \in Sockets : object[k] = None

\* The exit codes and the event end every worker and Stop() returns, when no
\* worker is handling a completion and none is queued before an exit code.
\* (Otherwise a worker waits in _ShowMessage for the thread of the window,
\* which waits for the worker.)
StopReturns ==
    (/\ stop = "join" /\ ~crashed
     /\ \A w \in Workers : pc[w] \in {"test", "wait", "exited"}
     /\ \A i, j \in DOMAIN port : port[i][1] # EXIT_CODE /\ i < j => port[j][1] # EXIT_CODE)
        ~> (stop = "done")
==============================================================================
