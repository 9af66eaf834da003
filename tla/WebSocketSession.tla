-------------------------- MODULE WebSocketSession --------------------------
(***************************************************************************)
(* websocketsrc/MyWebSocketSession.cpp and MyWebSocketServer.cpp: one      *)
(* connection and its session in their I/O loop.  The client's bytes (a    *)
(* handshake and its frames) arrive in reads of any size; the session      *)
(* decodes them from the connection's input buffer, a byte queue as in     *)
(* module ByteQueue, and answers.                                          *)
(*                                                                         *)
(* The header lines of the handshake are abstracted to its first byte:     *)
(* accepted, accepted with permessage-deflate, or refused.  Frames are     *)
(* real bytes, as their lengths and keys decide where the next one starts. *)
(***************************************************************************)
EXTENDS Integers, Sequences

CONSTANTS Scripts,       \* what a client may send: [hello, frames]
          Welcome,       \* BusinessSession::m_strWelcomeMsg
          XorByte(_, _), \* the operator ^ on bytes
          UINT16_MAX,
          MAX_CLIENT_PACKAGE_LENGTH

VARIABLES script,  \* what the client of this connection sends
          got,     \* bytes of it received so far
          conn,    \* the connection and its session
          merged,  \* history: some read completed two frames or more
          errData  \* history: one poll result carried an error and data

sessionVars == <<script, got, conn, merged, errData>>

Octets == 0..255
INT32_MAX == 2147483647

CONTINUATION_FRAME == 0
TEXT_FRAME == 1
BINARY_FRAME == 2
CLOSE == 8
PING == 9
PONG == 10

-----------------------------------------------------------------------------
(* The client, which follows RFC 6455, and zlib *)

\* deflate and inflate change the bytes and their number; inflate refuses what
\* deflate did not make.
Deflate(data) == <<250>> \o data
Inflatable(data) == data # <<>> /\ data[1] = 250
Inflate(data) == Tail(data)

\* n in eight bytes, network order; a length fits in an int32_t.
LongDigits(n) ==
    LET m == n \div 256
        l == m \div 256
        k == l \div 256
    IN <<0, 0, 0, 0, k % 256, l % 256, m % 256, n % 256>>

ClientLength(n) == CASE n < 126 -> n [] n \in 126..UINT16_MAX -> 126 [] OTHER -> 127

ExtendedLength(n) == CASE n < 126 -> <<>>
                       [] n \in 126..UINT16_MAX -> <<n \div 256, n % 256>>
                       [] OTHER -> LongDigits(n)

ClientData(sc, f) == IF sc.hello = 2 /\ f.op <= 2 THEN Deflate(f.msg) ELSE f.msg

\* Masking; masking again with the same key gives the data back.
Masked(data, key) == [i \in 1..Len(data) |-> XorByte(data[i], key[1 + ((i - 1) % 4)])]

ClientFrame(sc, f) ==
    LET data == ClientData(sc, f)
        bit(b) == IF b THEN 128 ELSE 0
    IN <<bit(f.fin) + f.op, bit(f.key # <<>>) + ClientLength(Len(data))>>
       \o ExtendedLength(Len(data)) \o f.key
       \o (IF f.key = <<>> THEN data ELSE Masked(data, f.key))

Hello(sc) == <<sc.hello, 13, 10, sc.hello, 13, 10, 13, 10>>

\* The client's bytes up to the end of frame k of the script; 0 is the handshake.
UpTo == [sc \in Scripts |->
            LET u[k \in 0..Len(sc.frames)] ==
                    IF k = 0 THEN Hello(sc) ELSE u[k - 1] \o ClientFrame(sc, sc.frames[k])
            IN u]

Wire == [sc \in Scripts |-> UpTo[sc][Len(sc.frames)]]

FrameEnd == [sc \in Scripts |-> [k \in 0..Len(sc.frames) |-> Len(UpTo[sc][k])]]

Frames == [fin : BOOLEAN, op : {CONTINUATION_FRAME, TEXT_FRAME, BINARY_FRAME, CLOSE, PING, PONG},
           key : {<<>>} \cup [1..4 -> Octets], msg : Seq(Octets)]

\* A message starts after the last frame of the one before (RFC 6455, 5.4).
ASSUME ScriptAssumption ==
    \A sc \in Scripts :
       /\ sc.hello \in 1..3 /\ sc.frames \in Seq(Frames)
       /\ \A k \in 1..Len(sc.frames) :
             /\ Len(ClientData(sc, sc.frames[k])) <= INT32_MAX
             /\ k > 1 /\ sc.frames[k].op \in {TEXT_FRAME, BINARY_FRAME} => sc.frames[k - 1].fin

ASSUME WelcomeAssumption == Welcome \in Seq(Octets) /\ Len(Welcome) < INT32_MAX

ASSUME XorAssumption ==
    \A a, b \in Octets : XorByte(a, b) \in Octets /\ XorByte(XorByte(a, b), b) = a

ASSUME LimitAssumption == UINT16_MAX \in 126..65535 /\ MAX_CLIENT_PACKAGE_LENGTH \in Nat

-----------------------------------------------------------------------------
(* The connection *)

forceClose(t) ==
    IF t.state_ = "kConnected" \/ t.state_ = "kDisconnecting"
    THEN [t EXCEPT !.state_ = "kDisconnecting", !.closing = TRUE] ELSE t

\* Mutant of handleClose: the channel stays enabled.
CloseKeepsReading(t) ==
    IF t.state_ = "kDisconnected" THEN t
    ELSE [t EXCEPT !.state_ = "kDisconnected", !.session = "erased"]

\* handleClose: disableAll, then MyWebSocketServer::onConnection finds the
\* connection down and onClose erases the session.
handleClose(t) ==
    IF t.state_ = "kDisconnected" THEN t
    ELSE [t EXCEPT !.state_ = "kDisconnected", !.polled = FALSE, !.session = "erased"]

connSend(t, bytes) ==
    IF t.state_ = "kConnected" THEN [t EXCEPT !.sent = Append(@, bytes)] ELSE t

-----------------------------------------------------------------------------
(* The session *)

\* Mutant of frameHeader: the boundary of the two-byte length is off by one.
headerOffByOne(b0, n) ==
    CASE n <= 126 -> <<b0, n>>
      [] n \in 127..UINT16_MAX -> <<b0, 126, n \div 256, n % 256>>
      [] OTHER -> <<b0, 127>> \o LongDigits(n)

\* The first two bytes and the extended length, in network order.
frameHeader(b0, n) ==
    CASE n < 126 -> <<b0, n>>
      [] n \in 126..UINT16_MAX -> <<b0, 126, n \div 256, n % 256>>
      [] OTHER -> <<b0, 127>> \o LongDigits(n)

\* send: nothing goes out when deflate fails (deflated is its result).
send(t, data, opcode, deflated) ==
    LET packed  == t.m_bClientCompressed /\ data # <<>>
        destbuf == IF packed THEN Deflate(data) ELSE data
        rsv1    == IF t.m_bClientCompressed THEN 64 ELSE 0
    IN IF packed /\ ~deflated THEN [t EXCEPT !.dropped = TRUE]
       ELSE connSend(t, frameHeader(128 + opcode + rsv1, Len(destbuf)) \o destbuf)

\* Position of the first "\r\n\r\n", or 0.
findString(in) ==
    LET at == {i \in 1..Len(in) - 3 :
                  in[i] = 13 /\ in[i + 1] = 10 /\ in[i + 2] = 13 /\ in[i + 3] = 10}
    IN IF at = {} THEN 0 ELSE CHOOSE i \in at : \A j \in at : i <= j

\* handleHandshake: the response, then onConnect, which sends the welcome.
handleHandshake(t, data, deflated) ==
    IF data[1] \notin {1, 2} THEN t
    ELSE LET u == [t EXCEPT !.m_bClientCompressed = data[1] = 2]
             r == connSend(u, <<101, data[1]>>)
         IN send([r EXCEPT !.m_bUpdateToWebSocket = TRUE], Welcome, TEXT_FRAME, deflated)

unmaskData(src, maskingKey) == [i \in 1..Len(src) |-> XorByte(src[i], maskingKey[1 + ((i - 1) % 4)])]

\* processPackage on the data collected so far.  The reply to a ping has no
\* payload; BusinessSession::onMessage sends the message back.
processPackage(t, opcode, deflated) ==
    LET data == t.m_strParsedData
        out  == IF t.m_bClientCompressed THEN Inflate(data) ELSE data
    IN CASE opcode = CLOSE -> [ok |-> FALSE, t |-> t]
         [] opcode = PING -> [ok |-> TRUE, t |-> send(t, <<>>, PONG, deflated)]
         [] opcode \in {TEXT_FRAME, BINARY_FRAME} ->
              IF t.m_bClientCompressed /\ ~Inflatable(data) THEN [ok |-> FALSE, t |-> t]
              ELSE [ok |-> TRUE, t |-> send(t, out, TEXT_FRAME, deflated)]
         [] OTHER -> [ok |-> TRUE, t |-> t]

\* Mutant of finishFrame: the data collected so far is kept after a FIN frame.
finishKeepsData(t, fin, opcode, deflated) ==
    IF fin THEN processPackage(t, opcode, deflated) ELSE [ok |-> TRUE, t |-> t]

\* The last part of decodePackage: with FIN the collected data is processed
\* under this frame's opcode and dropped.
finishFrame(t, fin, opcode, deflated) ==
    IF ~fin THEN [ok |-> TRUE, t |-> t]
    ELSE LET p == processPackage(t, opcode, deflated)
         IN IF p.ok THEN [ok |-> TRUE, t |-> [p.t EXCEPT !.m_strParsedData = <<>>]] ELSE p

\* Numbers in network order, from byte i on.
Short(in, i) == 256 * in[i] + in[i + 1]
Int32(in, i) == 65536 * Short(in, i) + Short(in, i + 2)
Int64(in, i) == 65536 * (65536 * Int32(in, i)) + Int32(in, i + 4)

mask(in) == in[2] >= 128
payloadLength(in) == in[2] % 128

\* Mutant of headerSize: the two-byte length itself is not counted in.
headerSizeShort(in) ==
    (IF mask(in) THEN 4 ELSE 0) + (IF payloadLength(in) = 0 THEN 0 ELSE 2)
       + (IF payloadLength(in) = 127 THEN 8 ELSE 0)

\* A payload length of 0 takes none of the three branches: neither the two
\* flag bytes nor the ones after them are counted in.
headerSize(in) ==
    (IF mask(in) THEN 4 ELSE 0) + (IF payloadLength(in) = 0 THEN 0 ELSE 2)
       + (IF payloadLength(in) = 126 THEN 2 ELSE 0) + (IF payloadLength(in) = 127 THEN 8 ELSE 0)

bodyLength(in) == CASE payloadLength(in) <= 125 -> payloadLength(in)
                    [] payloadLength(in) = 126 -> Short(in, 3)
                    [] payloadLength(in) = 127 -> Int64(in, 3)

\* The eight bytes are read as an int64_t: with the highest bit it is negative.
illegalLength(in) ==
    \/ payloadLength(in) = 126 /\ bodyLength(in) \notin 126..UINT16_MAX
    \/ payloadLength(in) = 127 /\ (in[3] >= 128 \/ bodyLength(in) <= UINT16_MAX)

payloadData(in) ==
    LET header  == headerSize(in)
        payload == SubSeq(in, header + 1, header + bodyLength(in))
    IN IF mask(in) THEN unmaskData(payload, SubSeq(in, header - 3, header)) ELSE payload

\* The frame at the front is taken off the input buffer and its data collected.
taken(t) ==
    LET in == t.inputBuffer_
    IN [t EXCEPT !.inputBuffer_ = SubSeq(in, headerSize(in) + bodyLength(in) + 1, Len(in)),
                 !.m_strParsedData = @ \o payloadData(in),
                 !.decoded = @ + 1]

\* decodePackage: one frame, if it is there completely.
decodePackage(t, deflated) ==
    LET in == t.inputBuffer_
    IN IF Len(in) < headerSize(in) THEN [ok |-> TRUE, t |-> t]
       ELSE IF illegalLength(in) THEN [ok |-> FALSE, t |-> t]
       ELSE IF Len(in) < headerSize(in) + bodyLength(in) THEN [ok |-> TRUE, t |-> t]
       ELSE finishFrame(taken(t), in[1] >= 128, in[1] % 16, deflated)

\* Mutant of readFrame: it waits for the longest header.
readFrameLater(t, deflated) ==
    LET d == decodePackage(t, deflated)
    IN IF Len(t.inputBuffer_) < 14 THEN t ELSE IF d.ok THEN d.t ELSE forceClose(d.t)

\* The iteration of onRead after the upgrade: at most one frame, then return.
readFrame(t, deflated) ==
    LET d == decodePackage(t, deflated)
    IN IF Len(t.inputBuffer_) < 6 THEN t ELSE IF d.ok THEN d.t ELSE forceClose(d.t)

\* onRead: the handshake, if it is still to come, and then a frame.
onRead(t, deflated) ==
    LET in  == t.inputBuffer_
        end == findString(in) + 3
        h   == handleHandshake([t EXCEPT !.inputBuffer_ = SubSeq(in, end + 1, Len(in))],
                               SubSeq(in, 1, end), deflated)
    IN IF Len(in) >= MAX_CLIENT_PACKAGE_LENGTH THEN forceClose(t)
       ELSE IF t.m_bUpdateToWebSocket THEN readFrame(t, deflated)
       ELSE IF findString(in) = 0 THEN t
       ELSE IF h.m_bUpdateToWebSocket THEN readFrame(h, deflated)
       ELSE forceClose(h)

-----------------------------------------------------------------------------
\* A connection just established: onConnection has made its session.
SessionInit ==
    /\ script \in Scripts
    /\ got = 0 /\ merged = FALSE /\ errData = FALSE
    /\ conn = [state_ |-> "kConnected", polled |-> TRUE, closing |-> FALSE,
            inputBuffer_ |-> <<>>, session |-> "live",
            m_bUpdateToWebSocket |-> FALSE, m_bClientCompressed |-> FALSE,
            m_strParsedData |-> <<>>,
            decoded |-> 0,      \* history: frames taken off the input buffer
            sent |-> <<>>,      \* history: what was given to conn->send
            dropped |-> FALSE,  \* history: a deflate failed
            ub |-> FALSE]       \* history: onRead was called on a freed session

\* One poll result with n bytes to read, and err if an error came with them:
\* the error is handled first and the read is handled whatever that did.  The
\* message callback holds a plain pointer to the session.
Receive(n, err, deflated) ==
    /\ conn.polled /\ ~conn.closing
    /\ got + n <= Len(Wire[script])
    /\ got' = got + n
    /\ LET e == IF err THEN handleClose(conn) ELSE conn
           t == [e EXCEPT !.inputBuffer_ = @ \o SubSeq(Wire[script], got + 1, got + n)]
       IN conn' = IF t.session = "erased" THEN [t EXCEPT !.ub = TRUE] ELSE onRead(t, deflated)
    /\ merged' = (merged \/ \E k \in 1..Len(script.frames) - 1 :
                               FrameEnd[script][k] > got /\ FrameEnd[script][k + 1] <= got + n)
    /\ errData' = (errData \/ err)
    /\ UNCHANGED script

\* An error or a hang-up, or a read of 0 bytes: the client has closed.
HangUp ==
    /\ conn.polled /\ ~conn.closing
    /\ conn' = handleClose(conn)
    /\ UNCHANGED <<script, got, merged, errData>>

\* forceCloseInLoop, in the pending functors of the same iteration.
RunForceClose ==
    /\ conn.closing
    /\ conn' = [handleClose(conn) EXCEPT !.closing = FALSE]
    /\ UNCHANGED <<script, got, merged, errData>>

SessionNext == \/ \E n \in 1..Len(Wire[script]), err, deflated \in BOOLEAN : Receive(n, err, deflated)
               \/ HangUp
               \/ RunForceClose

SessionSpec == SessionInit /\ [][SessionNext]_sessionVars

-----------------------------------------------------------------------------
(* Properties *)

Empty(f) == ClientData(script, f) = <<>>
Consumed == got - Len(conn.inputBuffer_)

\* No frame without a payload has been decoded: the session knows where the
\* next frame starts.
InStep == \A k \in 1..conn.decoded : k <= Len(script.frames) /\ ~Empty(script.frames[k])

\* Whatever the sizes of the reads, the session cuts the stream exactly where
\* the client's frames end; the first frame without a payload leaves two bytes
\* of it behind, because decodePackage does not count its flag bytes.
FrameBoundaries ==
    conn.m_bUpdateToWebSocket /\ ~conn.ub =>
       /\ InStep => Consumed = FrameEnd[script][conn.decoded]
       /\ \A k \in 1..Len(script.frames) :
             /\ k = conn.decoded /\ script.frames[k].key # <<>> /\ Empty(script.frames[k])
             /\ \A j \in 1..k - 1 : ~Empty(script.frames[j])
             => Consumed = FrameEnd[script][k] - 2

\* What the client makes of the bytes of one reply.
ClientReads(bytes) ==
    LET len7 == bytes[2]
        head == CASE len7 < 126 -> 2 [] len7 = 126 -> 4 [] OTHER -> 10
        size == CASE len7 < 126 -> len7 [] len7 = 126 -> Short(bytes, 3) [] OTHER -> Int64(bytes, 3)
        body == SubSeq(bytes, head + 1, Len(bytes))
    IN [fin |-> bytes[1] >= 128, op |-> bytes[1] % 16, whole |-> size = Len(body),
        msg |-> IF (bytes[1] \div 64) % 2 = 1 /\ body # <<>> THEN Inflate(body) ELSE body]

Reply(op, msg) == [fin |-> TRUE, op |-> op, whole |-> TRUE, msg |-> msg]

\* What the client expects in reply to frame f.  (A fragmented message ends in
\* a CONTINUATION frame, which nothing answers.)
Answer(f) == IF ~f.fin \/ f.op \notin {TEXT_FRAME, BINARY_FRAME, PING} THEN <<>>
             ELSE IF f.op = PING THEN <<Reply(PONG, <<>>)>> ELSE <<Reply(TEXT_FRAME, f.msg)>>

\* ... and, after the welcome, in reply to the first k frames.
Answers == [sc \in Scripts |->
               LET a[k \in 0..Len(sc.frames)] ==
                       IF k = 0 THEN <<Reply(TEXT_FRAME, Welcome)>>
                       ELSE a[k - 1] \o Answer(sc.frames[k])
               IN a]

\* Through any sequence of reads, extended lengths, keys, fragments and control
\* frames in between, the client reads back from the replies the welcome, its
\* unfragmented messages and a pong for each ping, in order.
AnsweredInOrder ==
    conn.m_bUpdateToWebSocket /\ InStep /\ conn.state_ = "kConnected" /\ ~conn.dropped =>
       [k \in 1..Len(conn.sent) - 1 |-> ClientReads(conn.sent[k + 1])] = Answers[script][conn.decoded]

\* The data of the frames after the last FIN frame among the first k.
SinceFin == [sc \in Scripts |->
                LET c[k \in 0..Len(sc.frames)] ==
                        IF k = 0 \/ sc.frames[k].fin THEN <<>>
                        ELSE c[k - 1] \o ClientData(sc, sc.frames[k])
                IN c]

\* The data collected for a message is that of the frames since the last FIN
\* frame, and a control frame is such a frame too.
FragmentsSinceFin ==
    InStep /\ conn.state_ = "kConnected" => conn.m_strParsedData = SinceFin[script][conn.decoded]

\* onRead leaves fewer than six bytes alone.
NoShortFrame ==
    \A k \in 1..Len(script.frames) : FrameEnd[script][k] >= FrameEnd[script][k - 1] + 6

\* onRead takes at most one frame per read, but no complete frame is left
\* waiting unless some read has completed two of them.
WaitsOnlyAfterMerge ==
    conn.state_ = "kConnected" /\ ~merged /\ InStep /\ NoShortFrame =>
       \A k \in 1..Len(script.frames) : FrameEnd[script][k] <= got <=> k <= conn.decoded

\* onRead is called on a freed session only when one poll result carried both
\* an error and data: closing from inside of onRead is put off, and a closed
\* connection is not polled.
SessionOutlivesReads == conn.ub => errData
=============================================================================
