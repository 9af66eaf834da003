----------------------------- MODULE InputProofs -----------------------------
(***************************************************************************)
(* The way of the bytes that come in, for any sizes, bytes and reads: the  *)
(* indices of net::Buffer stay in order and the buffer is a byte queue;    *)
(* the WebSocket session decodes its client's stream from such a queue,    *)
(* cuts it where the frames end and answers in order, whatever frames      *)
(* come and however the reads cut them.                                    *)
(***************************************************************************)
EXTENDS Buffer, WebSocketSession, SequenceTheorems, WellFoundedInduction, TLAPS

-----------------------------------------------------------------------------
(* The buffer *)

\* Every position of the content lies inside of the vector.
LEMMA ContentType ==
    ASSUME NEW b, Ordered(b)
    PROVE  /\ readableBytes(b) \in Nat /\ writableBytes(b) \in Nat
           /\ Content(b) \in Seq(Byte) /\ Len(Content(b)) = readableBytes(b)
           /\ \A i \in 1..readableBytes(b) : Content(b)[i] = b.buffer_[b.readerIndex_ + i - 1]
<1>1. readableBytes(b) \in Nat /\ writableBytes(b) \in Nat
  BY DEF Ordered, readableBytes, writableBytes
<1>2. \A i \in 1..readableBytes(b) : b.readerIndex_ + i - 1 \in 0..b.size - 1
  BY <1>1 DEF Ordered, readableBytes
<1>3. Content(b) \in [1..readableBytes(b) -> Byte]
  BY <1>1, <1>2 DEF Ordered, Content
<1>4. Content(b) \in Seq(Byte) /\ Len(Content(b)) = readableBytes(b)
  BY <1>1, <1>3, SeqDef, LenProperties
<1> QED
  BY <1>1, <1>4 DEF Content

\* A buffer whose readable bytes are those of s has the content s.
LEMMA ContentIs ==
    ASSUME NEW b, Ordered(b), NEW s \in Seq(Byte), Len(s) = readableBytes(b),
           \A i \in 1..Len(s) : b.buffer_[b.readerIndex_ + i - 1] = s[i]
    PROVE  Content(b) = s
<1>1. \A i \in 1..Len(s) : Content(b)[i] = s[i]
  BY ContentType
<1> QED
  BY <1>1, ContentType, SeqEqual

\* Moving the indices within the vector.
LEMMA MovedOrdered ==
    ASSUME NEW b, Ordered(b), NEW r \in Nat, NEW w \in Nat, r <= w, w <= b.size
    PROVE  /\ Ordered(Moved(b, r, w)) /\ Moved(b, r, w).buffer_ = b.buffer_
           /\ Moved(b, r, w).size = b.size
           /\ Moved(b, r, w).readerIndex_ = r /\ Moved(b, r, w).writerIndex_ = w
BY DEF Ordered, Moved, Vector

\* Copying changes exactly the positions copied to.
LEMMA CopiedBytes ==
    ASSUME NEW b, Ordered(b), NEW data \in Seq(Byte), NEW at \in Nat
    PROVE  LET c == Copied(b, at, data)
           IN /\ Ordered(c)
              /\ c.size = b.size /\ c.readerIndex_ = b.readerIndex_ /\ c.writerIndex_ = b.writerIndex_
              /\ \A p \in 0..b.size - 1 : c.buffer_[p] = IF p \in at..at + Len(data) - 1
                                                        THEN data[p - at + 1] ELSE b.buffer_[p]
<1> DEFINE c == Copied(b, at, data)
           v == [p \in 0..b.size - 1 |-> IF p \in at..at + Len(data) - 1
                                        THEN data[p - at + 1] ELSE b.buffer_[p]]
<1>1. ASSUME NEW p \in 0..b.size - 1
      PROVE  (IF p \in at..at + Len(data) - 1 THEN data[p - at + 1] ELSE b.buffer_[p]) \in Byte
  <2>1. CASE p \in at..at + Len(data) - 1
    <3>1. Len(data) \in Nat
      BY LenProperties
    <3>2. p - at + 1 \in 1..Len(data)
      BY <2>1, <3>1
    <3> QED
      BY <2>1, <3>2, ElementOfSeq
  <2>2. CASE p \notin at..at + Len(data) - 1
    BY <2>2 DEF Ordered
  <2> QED
    BY <2>1, <2>2
<1>2. v \in [0..b.size - 1 -> Byte]
  BY <1>1
<1>3. /\ c.buffer_ = v /\ c.size = b.size
      /\ c.readerIndex_ = b.readerIndex_ /\ c.writerIndex_ = b.writerIndex_
  BY DEF Copied, Vector
<1>4. \A p \in 0..b.size - 1 : v[p] = IF p \in at..at + Len(data) - 1
                                     THEN data[p - at + 1] ELSE b.buffer_[p]
  OBVIOUS
<1> HIDE DEF v, c
<1>5. Ordered(c)
  BY <1>2, <1>3 DEF Ordered
<1>6. QED
  BY <1>3, <1>4, <1>5 DEF c

\* A buffer just constructed is in order and empty.
LEMMA NewBufferEmpty == Ordered(NewBuffer) /\ readableBytes(NewBuffer) = 0 /\ Content(NewBuffer) = <<>>
<1> DEFINE v == [p \in 0..kCheapPrepend + kInitialSize - 1 |-> Zero]
<1>1. v \in [0..kCheapPrepend + kInitialSize - 1 -> Byte]
  BY BufferAssumption
<1>2. /\ NewBuffer.buffer_ = v /\ NewBuffer.size = kCheapPrepend + kInitialSize
      /\ NewBuffer.readerIndex_ = kCheapPrepend /\ NewBuffer.writerIndex_ = kCheapPrepend
  BY DEF NewBuffer, Vector
<1> HIDE DEF v
<1>3. Ordered(NewBuffer) /\ readableBytes(NewBuffer) = 0
  BY <1>1, <1>2, BufferAssumption DEF Ordered, readableBytes
<1>4. QED
  BY <1>3, ContentType, EmptySeq

\* Growing the vector keeps the content.
LEMMA ResizedContent ==
    ASSUME NEW b, Ordered(b), NEW n \in Nat, b.size <= n
    PROVE  /\ Ordered(Resized(b, n)) /\ Content(Resized(b, n)) = Content(b)
           /\ writableBytes(Resized(b, n)) = n - b.writerIndex_
<1> DEFINE c == Resized(b, n)
           v == [p \in 0..n - 1 |-> IF p < b.size THEN b.buffer_[p] ELSE Zero]
<1>1. \A p \in 0..n - 1 : p < b.size => p \in 0..b.size - 1
  BY DEF Ordered
<1>2. v \in [0..n - 1 -> Byte]
  BY <1>1, BufferAssumption DEF Ordered
<1>3. /\ c.buffer_ = v /\ c.size = n
      /\ c.readerIndex_ = b.readerIndex_ /\ c.writerIndex_ = b.writerIndex_
  BY DEF Resized, Vector
<1>4. \A p \in 0..n - 1 : p < b.size => v[p] = b.buffer_[p]
  OBVIOUS
<1> HIDE DEF v, c
<1>5. Ordered(c) /\ readableBytes(c) = readableBytes(b) /\ writableBytes(c) = n - b.writerIndex_
  BY <1>2, <1>3, BufferAssumption DEF Ordered, readableBytes, writableBytes
<1>6. ASSUME NEW i \in 1..readableBytes(b)
      PROVE  c.buffer_[c.readerIndex_ + i - 1] = Content(b)[i]
  <2>1. b.readerIndex_ + i - 1 \in 0..n - 1 /\ b.readerIndex_ + i - 1 < b.size
    BY SMTT(30) DEF Ordered, readableBytes
  <2> QED
    BY <2>1, <1>3, <1>4, ContentType
<1>7. Content(c) = Content(b)
  BY <1>5, <1>6, ContentType, ContentIs
<1> QED
  BY <1>5, <1>7 DEF c

\* Moving the content to the front keeps it.
LEMMA MovedToFrontContent ==
    ASSUME NEW b, Ordered(b), kCheapPrepend <= b.readerIndex_
    PROVE  LET c == MovedToFront(b)
           IN /\ Ordered(c) /\ Content(c) = Content(b)
              /\ writableBytes(c) = writableBytes(b) + b.readerIndex_ - kCheapPrepend
<1> DEFINE s == Content(b)
           d == Copied(b, kCheapPrepend, s)
           w == kCheapPrepend + readableBytes(b)
           c == MovedToFront(b)
<1>1. s \in Seq(Byte) /\ Len(s) = readableBytes(b) /\ readableBytes(b) \in Nat
  BY ContentType
<1>2. kCheapPrepend \in Nat
  BY BufferAssumption
<1> HIDE DEF s
<1>3. /\ Ordered(d) /\ d.size = b.size
      /\ \A p \in 0..b.size - 1 : d.buffer_[p] = IF p \in kCheapPrepend..kCheapPrepend + Len(s) - 1
                                                THEN s[p - kCheapPrepend + 1] ELSE b.buffer_[p]
  BY <1>1, <1>2, CopiedBytes
<1>4. c = Moved(d, kCheapPrepend, w)
  BY DEF MovedToFront, s
<1> HIDE DEF c, d
<1>5. w \in Nat /\ kCheapPrepend <= w /\ w <= d.size
  BY <1>1, <1>2, <1>3, SMTT(30) DEF Ordered, readableBytes
<1>6. /\ Ordered(c) /\ c.buffer_ = d.buffer_ /\ c.size = b.size
      /\ c.readerIndex_ = kCheapPrepend /\ c.writerIndex_ = w
  BY <1>2, <1>3, <1>4, <1>5, MovedOrdered
<1>7. /\ readableBytes(c) = readableBytes(b)
      /\ writableBytes(c) = writableBytes(b) + b.readerIndex_ - kCheapPrepend
  BY <1>1, <1>2, <1>6 DEF readableBytes, writableBytes, Ordered
<1>8. ASSUME NEW i \in 1..Len(s) PROVE c.buffer_[c.readerIndex_ + i - 1] = s[i]
  <2>1. /\ kCheapPrepend + i - 1 \in 0..b.size - 1
        /\ kCheapPrepend + i - 1 \in kCheapPrepend..kCheapPrepend + Len(s) - 1
        /\ (kCheapPrepend + i - 1) - kCheapPrepend + 1 = i
    <3>1. b.size \in Nat /\ kCheapPrepend + Len(s) <= b.size
      BY <1>1, <1>3, <1>5 DEF Ordered
    <3> QED
      BY <1>1, <1>2, <3>1
  <2> QED
    BY <2>1, <1>3, <1>6
<1>9. Content(c) = s
  BY <1>1, <1>6, <1>7, <1>8, ContentIs
<1> QED
  BY <1>6, <1>7, <1>9 DEF c, s

\* ensureWritableBytes keeps the content and makes the space asked for; the
\* early return of makeSpace is never taken.
LEMMA EnsureFits ==
    ASSUME NEW b, Ordered(b), NEW len \in Nat
    PROVE  LET e == ensureWritableBytes(b, len)
           IN Ordered(e) /\ Content(e) = Content(b) /\ len <= writableBytes(e)
<1>t. /\ b.writerIndex_ \in Nat /\ b.readerIndex_ \in Nat /\ b.size \in Nat /\ kCheapPrepend \in Nat
      /\ writableBytes(b) = b.size - b.writerIndex_ /\ prependableBytes(b) = b.readerIndex_
  BY BufferAssumption DEF Ordered, writableBytes, prependableBytes
<1>1. CASE writableBytes(b) >= len
  BY <1>1, <1>t DEF ensureWritableBytes
<1>2. CASE /\ writableBytes(b) < len
           /\ writableBytes(b) + prependableBytes(b) < len + kCheapPrepend
  <2>1. ensureWritableBytes(b, len) = Resized(b, b.writerIndex_ + len)
    BY <1>2 DEF ensureWritableBytes, makeSpace
  <2>2. b.writerIndex_ + len \in Nat /\ b.size <= b.writerIndex_ + len
        /\ (b.writerIndex_ + len) - b.writerIndex_ = len
    BY <1>2, <1>t
  <2> QED
    BY <2>1, <2>2, ResizedContent
<1>3. CASE /\ writableBytes(b) < len
           /\ ~(writableBytes(b) + prependableBytes(b) < len + kCheapPrepend)
  <2>1. kCheapPrepend < b.readerIndex_ /\ len <= writableBytes(b) + b.readerIndex_ - kCheapPrepend
    BY <1>3, <1>t
  <2>2. ensureWritableBytes(b, len) = MovedToFront(b)
    BY <1>3, <1>t, <2>1 DEF ensureWritableBytes, makeSpace
  <2> QED
    BY <2>1, <2>2, <1>t, MovedToFrontContent
<1> QED
  BY <1>1, <1>2, <1>3, <1>t

\* Bytes copied behind the content and counted in become its end.
LEMMA WrittenContent ==
    ASSUME NEW b, Ordered(b), NEW data \in Seq(Byte), Len(data) <= writableBytes(b)
    PROVE  LET c == Moved(Copied(b, b.writerIndex_, data), b.readerIndex_, b.writerIndex_ + Len(data))
           IN Ordered(c) /\ Content(c) = Content(b) \o data
<1> DEFINE d == Copied(b, b.writerIndex_, data)
           w == b.writerIndex_ + Len(data)
           c == Moved(d, b.readerIndex_, w)
           s == Content(b) \o data
<1>t. /\ b.writerIndex_ \in Nat /\ b.readerIndex_ \in Nat /\ b.size \in Nat /\ Len(data) \in Nat
      /\ b.readerIndex_ <= b.writerIndex_ /\ w <= b.size /\ w \in Nat /\ b.readerIndex_ <= w
      /\ readableBytes(b) = b.writerIndex_ - b.readerIndex_
  BY LenProperties DEF Ordered, writableBytes, readableBytes
<1>1. /\ Ordered(d) /\ d.size = b.size
      /\ \A p \in 0..b.size - 1 : d.buffer_[p] = IF p \in b.writerIndex_..b.writerIndex_ + Len(data) - 1
                                                THEN data[p - b.writerIndex_ + 1] ELSE b.buffer_[p]
  BY <1>t, CopiedBytes
<1> HIDE DEF d
<1>2. /\ Ordered(c) /\ c.buffer_ = d.buffer_ /\ c.size = b.size
      /\ c.readerIndex_ = b.readerIndex_ /\ c.writerIndex_ = w
  BY <1>t, <1>1, MovedOrdered
<1> HIDE DEF c
<1>3. /\ Content(b) \in Seq(Byte) /\ Len(Content(b)) = readableBytes(b) /\ readableBytes(b) \in Nat
      /\ \A i \in 1..readableBytes(b) : Content(b)[i] = b.buffer_[b.readerIndex_ + i - 1]
  BY ContentType
<1>4. /\ s \in Seq(Byte) /\ Len(s) = readableBytes(b) + Len(data)
      /\ \A i \in 1..Len(s) : s[i] = IF i <= readableBytes(b) THEN Content(b)[i]
                                     ELSE data[i - readableBytes(b)]
  <2>1. /\ s \in Seq(Byte) /\ Len(s) = Len(Content(b)) + Len(data)
        /\ \A i \in 1..Len(Content(b)) + Len(data) :
              s[i] = IF i <= Len(Content(b)) THEN Content(b)[i] ELSE data[i - Len(Content(b))]
    BY <1>3, ConcatProperties, Zenon
  <2> QED
    BY <2>1, <1>3
<1>5. readableBytes(c) = Len(s)
  BY <1>t, <1>2, <1>4 DEF readableBytes
<1> HIDE DEF s
<1>6. ASSUME NEW i \in 1..Len(s) PROVE c.buffer_[c.readerIndex_ + i - 1] = s[i]
  <2> DEFINE p == b.readerIndex_ + i - 1
  <2>1. p \in 0..b.size - 1
    BY <1>t, <1>4, SMTT(30)
  <2>2. CASE i <= readableBytes(b)
    <3>1. p \notin b.writerIndex_..b.writerIndex_ + Len(data) - 1 /\ i \in 1..readableBytes(b)
      BY <2>2, <1>t
    <3>2. d.buffer_[p] = b.buffer_[p]
      BY <2>1, <3>1, <1>1
    <3> QED
      BY <2>2, <3>1, <3>2, <1>2, <1>3, <1>4
  <2>3. CASE ~(i <= readableBytes(b))
    <3>1. p \in b.writerIndex_..b.writerIndex_ + Len(data) - 1
          /\ p - b.writerIndex_ + 1 = i - readableBytes(b)
      BY <2>3, <1>t, <1>4, SMTT(30)
    <3>2. d.buffer_[p] = data[i - readableBytes(b)]
      BY <2>1, <3>1, <1>1
    <3> QED
      BY <2>3, <3>2, <1>2, <1>4
  <2> QED
    BY <2>2, <2>3
<1>7. Content(c) = s
  BY <1>2, <1>4, <1>5, <1>6, ContentIs
<1> QED
  BY <1>2, <1>7 DEF c, d, s

\* append adds the data to the end of the content.
LEMMA AppendContent ==
    ASSUME NEW b, Ordered(b), NEW data \in Seq(Byte)
    PROVE  Ordered(append(b, data)) /\ Content(append(b, data)) = Content(b) \o data
<1> DEFINE e == ensureWritableBytes(b, Len(data))
           d == Copied(e, e.writerIndex_, data)
<1>1. Len(data) \in Nat
  BY LenProperties
<1>2. Ordered(e) /\ Content(e) = Content(b) /\ Len(data) <= writableBytes(e)
  BY <1>1, EnsureFits
<1>3. append(b, data) = hasWritten(d, Len(data))
  BY DEF append
<1> HIDE DEF e
<1>4. e.writerIndex_ \in Nat /\ writableBytes(e) \in Nat
  BY <1>2 DEF Ordered, writableBytes
<1>5. d.size = e.size /\ d.readerIndex_ = e.readerIndex_ /\ d.writerIndex_ = e.writerIndex_
  BY <1>2, <1>4, CopiedBytes
<1>6. ~(Len(data) > writableBytes(d))
  BY <1>1, <1>2, <1>4, <1>5 DEF writableBytes
<1>7. hasWritten(d, Len(data)) = Moved(d, e.readerIndex_, e.writerIndex_ + Len(data))
  BY <1>5, <1>6 DEF hasWritten
<1> QED
  BY <1>2, <1>3, <1>7, WrittenContent

\* The two parts of a cut sequence.
LEMMA CutParts ==
    ASSUME NEW data \in Seq(Byte), NEW k \in 0..Len(data)
    PROVE  /\ SubSeq(data, 1, k) \in Seq(Byte) /\ Len(SubSeq(data, 1, k)) = k
           /\ \A i \in 1..k : SubSeq(data, 1, k)[i] = data[i]
           /\ SubSeq(data, k + 1, Len(data)) \in Seq(Byte)
           /\ Len(SubSeq(data, k + 1, Len(data))) = Len(data) - k
           /\ \A i \in 1..Len(data) - k : SubSeq(data, k + 1, Len(data))[i] = data[k + i]
           /\ SubSeq(data, 1, k) \o SubSeq(data, k + 1, Len(data)) = data
<1>1. Len(data) \in Nat /\ \A i \in 1..Len(data) : data[i] \in Byte
  BY LenProperties, ElementOfSeq
<1>2. \A i \in 1..k : data[i] \in Byte
  BY <1>1
<1>3. \A i \in k + 1..Len(data) : data[i] \in Byte
  BY <1>1
<1>4. /\ SubSeq(data, 1, k) \in Seq(Byte) /\ Len(SubSeq(data, 1, k)) = (IF 1 <= k THEN k - 1 + 1 ELSE 0)
      /\ \A i \in 1..k - 1 + 1 : SubSeq(data, 1, k)[i] = data[1 + i - 1]
  BY <1>1, <1>2, SubSeqProperties
<1>5. /\ SubSeq(data, k + 1, Len(data)) \in Seq(Byte)
      /\ Len(SubSeq(data, k + 1, Len(data))) = (IF k + 1 <= Len(data) THEN Len(data) - (k + 1) + 1 ELSE 0)
      /\ \A i \in 1..Len(data) - (k + 1) + 1 : SubSeq(data, k + 1, Len(data))[i] = data[k + 1 + i - 1]
  BY <1>1, <1>3, SubSeqProperties
<1>6. SubSeq(data, 1, k) \o SubSeq(data, k + 1, Len(data)) = data
  <2>1. SubSeq(data, 1, k) \o SubSeq(data, k + 1, Len(data)) = SubSeq(data, 1, Len(data))
    <3>1. 1 \in 1..Len(data) + 1 /\ k \in 1 - 1..Len(data) /\ Len(data) \in k..Len(data)
      BY <1>1
    <3> QED
      BY <3>1, ConcatAdjacentSubSeq, Zenon
  <2> QED
    BY <2>1, SubSeqFull
<1>7. \A i \in 1..k : SubSeq(data, 1, k)[i] = data[i]
  BY <1>1, <1>4
<1>8. \A i \in 1..Len(data) - k : SubSeq(data, k + 1, Len(data))[i] = data[k + i]
  BY <1>1, <1>5
<1>9. Len(SubSeq(data, 1, k)) = k /\ Len(SubSeq(data, k + 1, Len(data))) = Len(data) - k
  BY <1>1, <1>4, <1>5
<1> QED
  BY <1>4, <1>5, <1>6, <1>7, <1>8, <1>9, Zenon

\* readFd adds what was received to the end of the content, in order, also
\* when it spills over the end of the vector.
LEMMA ReadFdContent ==
    ASSUME NEW b, Ordered(b), NEW data \in Seq(Byte)
    PROVE  Ordered(readFd(b, data)) /\ Content(readFd(b, data)) = Content(b) \o data
<1> DEFINE w == writableBytes(b)
           h == SubSeq(data, 1, w)
           t == SubSeq(data, w + 1, Len(data))
           filled == Copied(b, b.writerIndex_, data)
<1>t. /\ w \in Nat /\ Len(data) \in Nat /\ b.size \in Nat
      /\ b.writerIndex_ \in Nat /\ b.readerIndex_ \in Nat /\ w = b.size - b.writerIndex_
  BY LenProperties, ContentType DEF Ordered, writableBytes
<1>1. CASE Len(data) <= w
  <2>1. readFd(b, data) = Moved(filled, b.readerIndex_, b.writerIndex_ + Len(data))
    BY <1>1 DEF readFd
  <2> QED
    BY <1>1, <2>1, WrittenContent
<1>2. CASE ~(Len(data) <= w)
  <2> DEFINE m == Moved(filled, b.readerIndex_, b.size)
             g == Copied(b, b.writerIndex_, h)
  <2>1. readFd(b, data) = append(m, t)
    BY <1>2 DEF readFd
  <2>2. w \in 0..Len(data)
    BY <1>2, <1>t
  <2>3. /\ h \in Seq(Byte) /\ Len(h) = w /\ t \in Seq(Byte) /\ h \o t = data
        /\ \A i \in 1..w : h[i] = data[i]
    BY <2>2, CutParts
  <2> HIDE DEF h, t
  <2>4. ASSUME NEW p \in 0..b.size - 1
        PROVE  (IF p \in b.writerIndex_..b.writerIndex_ + Len(data) - 1
                THEN data[p - b.writerIndex_ + 1] ELSE b.buffer_[p])
                 = (IF p \in b.writerIndex_..b.writerIndex_ + Len(h) - 1
                    THEN h[p - b.writerIndex_ + 1] ELSE b.buffer_[p])
    <3>1. CASE p < b.writerIndex_
      BY <3>1, <1>t, <2>3
    <3>2. CASE ~(p < b.writerIndex_)
      <4>1. /\ p \in b.writerIndex_..b.writerIndex_ + Len(data) - 1
            /\ p \in b.writerIndex_..b.writerIndex_ + Len(h) - 1
            /\ p - b.writerIndex_ + 1 \in 1..w
        BY <3>2, <1>t, <1>2, <2>3, SMTT(30)
      <4> QED
        BY <4>1, <2>3
    <3> QED
      BY <3>1, <3>2
  <2>5. [p \in 0..b.size - 1 |-> IF p \in b.writerIndex_..b.writerIndex_ + Len(data) - 1
                                 THEN data[p - b.writerIndex_ + 1] ELSE b.buffer_[p]]
          = [p \in 0..b.size - 1 |-> IF p \in b.writerIndex_..b.writerIndex_ + Len(h) - 1
                                     THEN h[p - b.writerIndex_ + 1] ELSE b.buffer_[p]]
    BY <2>4
  <2>6. filled = g
    BY <2>5 DEF Copied
  <2>7. b.size = b.writerIndex_ + Len(h) /\ Len(h) <= writableBytes(b)
    BY <1>t, <2>3
  <2>8. m = Moved(g, b.readerIndex_, b.writerIndex_ + Len(h))
    BY <2>6, <2>7
  <2>9. Ordered(m) /\ Content(m) = Content(b) \o h
    BY <2>3, <2>7, <2>8, WrittenContent
  <2>10. Ordered(append(m, t)) /\ Content(append(m, t)) = (Content(b) \o h) \o t
    BY <2>3, <2>9, AppendContent
  <2>11. (Content(b) \o h) \o t = Content(b) \o (h \o t)
    <3>1. Content(b) \in Seq(Byte) /\ h \in Seq(Byte) /\ t \in Seq(Byte)
      BY <2>3, ContentType
    <3> QED
      BY <3>1, ConcatAssociative, SMTT(30)
  <2> QED
    BY <2>1, <2>3, <2>10, <2>11
<1> QED
  BY <1>1, <1>2

\* retrieveAll empties the buffer and keeps the prepend area inside of it.
LEMMA RetrieveAllContent ==
    ASSUME NEW b, Ordered(b)
    PROVE  Ordered(retrieveAll(b)) /\ Content(retrieveAll(b)) = <<>>
<1> DEFINE c == Moved(b, kCheapPrepend, kCheapPrepend)
<1>1. kCheapPrepend \in Nat /\ kCheapPrepend <= b.size
  BY BufferAssumption DEF Ordered
<1>2. Ordered(c) /\ c.readerIndex_ = kCheapPrepend /\ c.writerIndex_ = kCheapPrepend
  BY <1>1, MovedOrdered
<1>3. readableBytes(c) = 0
  BY <1>1, <1>2 DEF readableBytes
<1>4. Content(c) \in Seq(Byte) /\ Len(Content(c)) = 0
  BY <1>2, <1>3, ContentType
<1> QED
  BY <1>2, <1>4, EmptySeq DEF retrieveAll

\* retrieve takes bytes off the front of the content, or refuses.
LEMMA RetrieveContent ==
    ASSUME NEW b, Ordered(b), NEW len \in Nat
    PROVE  /\ Ordered(retrieve(b, len))
           /\ Content(retrieve(b, len)) = IF len <= Len(Content(b))
                                          THEN SubSeq(Content(b), len + 1, Len(Content(b)))
                                          ELSE Content(b)
<1> DEFINE s == Content(b)
           n == readableBytes(b)
<1>t. /\ b.writerIndex_ \in Nat /\ b.readerIndex_ \in Nat /\ b.size \in Nat /\ kCheapPrepend \in Nat
      /\ b.writerIndex_ <= b.size /\ n = b.writerIndex_ - b.readerIndex_ /\ n \in Nat
  BY BufferAssumption DEF Ordered, readableBytes
<1>s. /\ s \in Seq(Byte) /\ Len(s) = n
      /\ \A i \in 1..n : s[i] = b.buffer_[b.readerIndex_ + i - 1]
  BY ContentType
<1> HIDE DEF s, n
<1>1. CASE len > n
  BY <1>1, <1>s, <1>t DEF retrieve, n, s
<1>2. CASE len < n
  <2> DEFINE c == Moved(b, b.readerIndex_ + len, b.writerIndex_)
             t == SubSeq(s, len + 1, Len(s))
  <2>1. retrieve(b, len) = c
    BY <1>2, <1>t DEF retrieve, n
  <2>2. /\ Ordered(c) /\ c.buffer_ = b.buffer_
        /\ c.readerIndex_ = b.readerIndex_ + len /\ c.writerIndex_ = b.writerIndex_
    <3>1. b.readerIndex_ + len \in Nat /\ b.readerIndex_ + len <= b.writerIndex_
      BY <1>2, <1>t
    <3> QED
      BY <3>1, <1>t, MovedOrdered
  <2>3. len \in 0..Len(s)
    BY <1>2, <1>s, <1>t
  <2>4. /\ t \in Seq(Byte) /\ Len(t) = Len(s) - len
        /\ \A i \in 1..Len(s) - len : t[i] = s[len + i]
    BY <2>3, <1>s, CutParts
  <2> HIDE DEF c, t
  <2>5. readableBytes(c) = Len(t)
    BY <2>2, <2>4, <1>s, <1>t DEF readableBytes
  <2>6. ASSUME NEW i \in 1..Len(t) PROVE c.buffer_[c.readerIndex_ + i - 1] = t[i]
    <3>n. Len(s) = n /\ Len(t) = n - len /\ c.readerIndex_ = b.readerIndex_ + len
      BY <1>s, <2>2, <2>4
    <3>1. i \in 1..Len(s) - len /\ len + i \in 1..n
          /\ b.readerIndex_ + (len + i) - 1 = c.readerIndex_ + i - 1
      BY <1>2, <1>t, <3>n
    <3> QED
      BY <3>1, <2>2, <2>4, <1>s
  <2>7. Content(c) = t
    BY <2>2, <2>4, <2>5, <2>6, ContentIs
  <2> QED
    BY <2>1, <2>2, <2>3, <2>7 DEF t, s
<1>3. CASE len = n
  <2> DEFINE c == Moved(b, kCheapPrepend, kCheapPrepend)
  <2>1. retrieve(b, len) = c
    BY <1>3, <1>t DEF retrieve, retrieveAll, n
  <2>2. SubSeq(s, len + 1, Len(s)) = <<>>
    <3>1. len + 1 \in Int /\ Len(s) \in Int /\ Len(s) < len + 1
      BY <1>3, <1>s, <1>t
    <3> QED
      BY <3>1, SubSeqEmpty
  <2>3. Ordered(c) /\ Content(c) = <<>>
    BY RetrieveAllContent DEF retrieveAll
  <2>4. len <= Len(s)
    BY <1>3, <1>s, <1>t
  <2> QED
    BY <2>1, <2>2, <2>3, <2>4 DEF s
<1> QED
  BY <1>1, <1>2, <1>3, <1>t

\* unwrite takes bytes off the end of the content, or refuses.
LEMMA UnwriteContent ==
    ASSUME NEW b, Ordered(b), NEW len \in Nat
    PROVE  /\ Ordered(unwrite(b, len))
           /\ Content(unwrite(b, len)) = IF len <= Len(Content(b))
                                         THEN SubSeq(Content(b), 1, Len(Content(b)) - len)
                                         ELSE Content(b)
<1> DEFINE s == Content(b)
           n == readableBytes(b)
<1>t. /\ b.writerIndex_ \in Nat /\ b.readerIndex_ \in Nat /\ b.size \in Nat
      /\ b.writerIndex_ <= b.size /\ n = b.writerIndex_ - b.readerIndex_ /\ n \in Nat
  BY DEF Ordered, readableBytes
<1>s. /\ s \in Seq(Byte) /\ Len(s) = n
      /\ \A i \in 1..n : s[i] = b.buffer_[b.readerIndex_ + i - 1]
  BY ContentType
<1> HIDE DEF s, n
<1>1. CASE len > n
  BY <1>1, <1>s, <1>t DEF unwrite, n, s
<1>2. CASE len <= n
  <2> DEFINE c == Moved(b, b.readerIndex_, b.writerIndex_ - len)
             t == SubSeq(s, 1, Len(s) - len)
  <2>1. unwrite(b, len) = c
    BY <1>2, <1>t DEF unwrite, n
  <2>2. /\ Ordered(c) /\ c.buffer_ = b.buffer_
        /\ c.readerIndex_ = b.readerIndex_ /\ c.writerIndex_ = b.writerIndex_ - len
    <3>1. /\ b.writerIndex_ - len \in Nat /\ b.readerIndex_ <= b.writerIndex_ - len
          /\ b.writerIndex_ - len <= b.size
      BY <1>2, <1>t
    <3> QED
      BY <3>1, <1>t, MovedOrdered
  <2>3. Len(s) - len \in 0..Len(s)
    BY <1>2, <1>s, <1>t
  <2>4. /\ t \in Seq(Byte) /\ Len(t) = Len(s) - len
        /\ \A i \in 1..Len(s) - len : t[i] = s[i]
    BY <2>3, <1>s, CutParts
  <2> HIDE DEF c, t
  <2>5. readableBytes(c) = Len(t)
    BY <2>2, <2>4, <1>s, <1>t DEF readableBytes
  <2>6. ASSUME NEW i \in 1..Len(t) PROVE c.buffer_[c.readerIndex_ + i - 1] = t[i]
    <3>n. Len(s) = n /\ Len(t) = n - len
      BY <1>s, <2>4
    <3>1. i \in 1..Len(s) - len /\ i \in 1..n
      BY <1>2, <1>t, <3>n
    <3> QED
      BY <3>1, <2>2, <2>4, <1>s
  <2>7. Content(c) = t
    BY <2>2, <2>4, <2>5, <2>6, ContentIs
  <2> QED
    BY <2>1, <2>2, <2>7, <1>2, <1>s DEF t, s
<1> QED
  BY <1>1, <1>2, <1>t

\* prepend puts the data in front of the content, or refuses.
LEMMA PrependContent ==
    ASSUME NEW b, Ordered(b), NEW data \in Seq(Byte)
    PROVE  /\ Ordered(prepend(b, data))
           /\ \/ Content(prepend(b, data)) = data \o Content(b)
              \/ Content(prepend(b, data)) = Content(b)
<1> DEFINE r == b.readerIndex_ - Len(data)
           d == Copied(b, r, data)
           c == Moved(d, r, b.writerIndex_)
           n == readableBytes(b)
           s == data \o Content(b)
<1>t. /\ b.writerIndex_ \in Nat /\ b.readerIndex_ \in Nat /\ b.size \in Nat /\ Len(data) \in Nat
      /\ b.readerIndex_ <= b.writerIndex_ /\ b.writerIndex_ <= b.size
      /\ n = b.writerIndex_ - b.readerIndex_ /\ n \in Nat
  BY LenProperties DEF Ordered, readableBytes
<1>1. CASE Len(data) > prependableBytes(b)
  BY <1>1 DEF prepend
<1>2. CASE ~(Len(data) > prependableBytes(b))
  <2>1. prepend(b, data) = c
    BY <1>2 DEF prepend
  <2>2. r \in Nat /\ r <= b.writerIndex_ /\ r + Len(data) = b.readerIndex_
    BY <1>2, <1>t DEF prependableBytes
  <2> HIDE DEF r, n
  <2>3. /\ Ordered(d) /\ d.size = b.size
        /\ \A p \in 0..b.size - 1 : d.buffer_[p] = IF p \in r..r + Len(data) - 1
                                                  THEN data[p - r + 1] ELSE b.buffer_[p]
    BY <2>2, CopiedBytes
  <2> HIDE DEF d
  <2>4. /\ Ordered(c) /\ c.buffer_ = d.buffer_ /\ c.readerIndex_ = r
        /\ c.writerIndex_ = b.writerIndex_
    BY <1>t, <2>2, <2>3, MovedOrdered
  <2> HIDE DEF c
  <2>5. /\ Content(b) \in Seq(Byte) /\ Len(Content(b)) = n
        /\ \A i \in 1..n : Content(b)[i] = b.buffer_[b.readerIndex_ + i - 1]
    BY ContentType DEF n
  <2>6. /\ s \in Seq(Byte) /\ Len(s) = Len(data) + Len(Content(b))
        /\ \A i \in 1..Len(data) + Len(Content(b)) :
              s[i] = IF i <= Len(data) THEN data[i] ELSE Content(b)[i - Len(data)]
    BY <2>5, ConcatProperties, Zenon
  <2>7. Len(s) = Len(data) + n
    BY <2>5, <2>6
  <2>8. readableBytes(c) = Len(s)
    BY <1>t, <2>2, <2>4, <2>7 DEF readableBytes
  <2> HIDE DEF s
  <2>9. ASSUME NEW i \in 1..Len(s) PROVE c.buffer_[c.readerIndex_ + i - 1] = s[i]
    <3> DEFINE p == r + i - 1
    <3>1. p \in 0..b.size - 1 /\ i \in 1..Len(data) + Len(Content(b))
      BY <1>t, <2>2, <2>7, <2>5, SMTT(30)
    <3>2. CASE i <= Len(data)
      <4>1. p \in r..r + Len(data) - 1 /\ p - r + 1 = i
        BY <3>2, <1>t, <2>2
      <4> QED
        BY <3>1, <3>2, <4>1, <2>3, <2>4, <2>6
    <3>3. CASE ~(i <= Len(data))
      <4>1. /\ p \notin r..r + Len(data) - 1 /\ i - Len(data) \in 1..n
            /\ b.readerIndex_ + (i - Len(data)) - 1 = p
        BY <3>3, <1>t, <2>2, <2>7, SMTT(30)
      <4>2. d.buffer_[p] = b.buffer_[p]
        BY <3>1, <4>1, <2>3
      <4> QED
        BY <3>1, <3>3, <4>1, <4>2, <2>4, <2>5, <2>6
    <3> QED
      BY <3>2, <3>3
  <2>10. Content(c) = s
    BY <2>4, <2>6, <2>8, <2>9, ContentIs
  <2> QED
    BY <2>1, <2>4, <2>10 DEF s
<1> QED
  BY <1>1, <1>2

\* shrink copies the content to a new buffer.
LEMMA ShrinkContent ==
    ASSUME NEW b, Ordered(b), NEW reserve \in Nat
    PROVE  Ordered(shrink(b, reserve)) /\ Content(shrink(b, reserve)) = Content(b)
<1> DEFINE e == ensureWritableBytes(NewBuffer, readableBytes(b) + reserve)
<1>1. readableBytes(b) + reserve \in Nat /\ Content(b) \in Seq(Byte)
  BY ContentType
<1>2. Ordered(e) /\ Content(e) = <<>>
  BY <1>1, NewBufferEmpty, EnsureFits
<1>3. Ordered(append(e, Content(b))) /\ Content(append(e, Content(b))) = <<>> \o Content(b)
  BY <1>1, <1>2, AppendContent
<1>4. <<>> \o Content(b) = Content(b)
  BY <1>1, ConcatEmptySeq
<1> QED
  BY <1>3, <1>4 DEF shrink

\* What a call passes in is a sequence of bytes.
LEMMA DataIsSeq == ASSUME NEW data \in Data PROVE data \in Seq(Byte)
<1>1. PICK n \in 0..MaxLen : data \in [1..n -> Byte]
  BY DEF Data
<1> QED
  BY <1>1, BufferAssumption, SeqDef

-----------------------------------------------------------------------------
\* Every call keeps the indices in order and does to the content what the byte
\* queue does.
LEMMA EveryCall ==
    ASSUME IndicesOrdered, [Next]_vars
    PROVE  IndicesOrdered' /\ (Queue!Next \/ UNCHANGED <<Content(buf), call>>)
<1> USE DEF IndicesOrdered
<1>n. \A len \in 0..MaxLen : len \in Nat
  BY BufferAssumption
<1>1. ASSUME NEW data \in Data, Append_(data) PROVE IndicesOrdered' /\ Queue!Put(data)
  BY <1>1, DataIsSeq, AppendContent DEF Append_, Called, Queue!Put, Queue!Call
<1>2. ASSUME NEW data \in Data, ReadFd(data) PROVE IndicesOrdered' /\ Queue!Put(data)
  BY <1>2, DataIsSeq, ReadFdContent DEF ReadFd, Called, Queue!Put, Queue!Call
<1>3. ASSUME NEW data \in Data, Prepend(data) PROVE IndicesOrdered' /\ Queue!PutFront(data)
  BY <1>3, DataIsSeq, PrependContent DEF Prepend, Called, Queue!PutFront, Queue!Call
<1>4. ASSUME NEW len \in 0..MaxLen, Retrieve(len) PROVE IndicesOrdered' /\ Queue!Take(len)
  BY <1>4, <1>n, RetrieveContent DEF Retrieve, Called, Queue!Take, Queue!Call
<1>5. ASSUME NEW len \in 0..MaxLen, Unwrite(len) PROVE IndicesOrdered' /\ Queue!Untake(len)
  BY <1>5, <1>n, UnwriteContent DEF Unwrite, Called, Queue!Untake, Queue!Call
<1>6. ASSUME NEW len \in 0..MaxLen, Shrink(len) PROVE IndicesOrdered' /\ Queue!Reserve(len)
  BY <1>6, <1>n, ShrinkContent DEF Shrink, Called, Queue!Reserve, Queue!Call
<1>7. ASSUME NEW len \in 0..MaxLen, EnsureWritable(len) PROVE IndicesOrdered' /\ Queue!Reserve(len)
  BY <1>7, <1>n, EnsureFits DEF EnsureWritable, Called, Queue!Reserve, Queue!Call
<1>8. CASE RetrieveAll
  BY <1>8, RetrieveAllContent DEF RetrieveAll, Called, Queue!Next, Queue!Clear, Queue!Call
<1>9. CASE UNCHANGED vars
  BY <1>9 DEF vars
<1> QED
  BY <1>1, <1>2, <1>3, <1>4, <1>5, <1>6, <1>7, <1>8, <1>9 DEF Next, Queue!Next

\* The buffer's indices stay in order and inside of the vector, for any sizes
\* and any sequence of calls.
THEOREM IndicesStayOrdered == Spec => []IndicesOrdered
<1>1. Init => IndicesOrdered
  BY NewBufferEmpty DEF Init, IndicesOrdered
<1> QED
  BY <1>1, EveryCall, PTL DEF Spec

\* net::Buffer implements the byte queue: growing, moving to the front and the
\* spill of readFd through extrabuf never lose, repeat or reorder a byte.
THEOREM BufferIsByteQueue == Spec => ImplementsByteQueue
<1>1. Init => Queue!Init
  BY NewBufferEmpty DEF Init, Queue!Init, Queue!Call
<1> QED
  BY <1>1, EveryCall, IndicesStayOrdered, PTL DEF Spec, ImplementsByteQueue, Queue!Spec

-----------------------------------------------------------------------------
(* Induction over the positions of a script, on sets *)

\* A nonempty set of numbers has a least one.
LEMMA LeastOf ==
  ASSUME NEW T \in SUBSET Nat, T # {}
  PROVE  \E n \in T : \A m \in T : n <= m
<1> DEFINE Less == {ss \in Nat \X Nat : ss[1] < ss[2]}
<1>1. IsWellFoundedOn(Less, Nat)
  BY NatLessThanWellFounded DEF OpToRel
<1> HIDE DEF Less
<1>2. PICK x \in T : \A y \in T : ~(<<y, x>> \in Less)
  BY <1>1, WFMin
<1>3. ASSUME NEW y \in T PROVE x <= y
  <2>1. <<y, x>> \in Nat \X Nat /\ ~(<<y, x>> \in Less)
    BY <1>2
  <2>2. ~(y < x)
    BY <2>1 DEF Less
  <2> QED
    BY <2>2
<1> QED
  BY <1>3

\* A set that holds 0 and, with a number below n, the next one holds 0..n.
LEMMA Climb ==
  ASSUME NEW n \in Nat, NEW T, 0 \in T, \A k \in 1..n : k - 1 \in T => k \in T
  PROVE  \A k \in 0..n : k \in T
<1> DEFINE Out == (0..n) \ T
<1>1. ASSUME Out # {} PROVE FALSE
  <2>1. PICK k \in Out : \A m \in Out : k <= m
    <3>1. Out \in SUBSET Nat
      OBVIOUS
    <3> HIDE DEF Out
    <3> QED
      BY <1>1, <3>1, LeastOf
  <2>2. k \in 1..n /\ k - 1 \in 0..n /\ ~(k <= k - 1)
    BY <2>1
  <2> QED
    BY <2>1, <2>2
<1> QED
  BY <1>1

Solves(g, n, S, base, step) ==
    g \in [0..n -> S] /\ g[0] = base /\ \A k \in 1..n : g[k] = step[<<k, g[k - 1]>>]

\* A recursion over 1..n whose step is a function from S to S has a solution in S.
LEMMA RecursionSolved ==
  ASSUME NEW n \in Nat, NEW S, NEW base \in S, NEW step \in [(1..n) \X S -> S]
  PROVE  \E g : Solves(g, n, S, base, step)
<1> DEFINE T == {m \in 0..n : \E g : Solves(g, m, S, base, step)}
<1>1. 0 \in T
  <2> DEFINE g == [i \in 0..0 |-> base]
  <2>1. Solves(g, 0, S, base, step)
    BY DEF Solves
  <2>2. 0 \in 0..n
    OBVIOUS
  <2> HIDE DEF g
  <2> QED
    BY <2>1, <2>2
<1>2. ASSUME NEW m \in 1..n, m - 1 \in T PROVE m \in T
  <2>a. PICK g : Solves(g, m - 1, S, base, step)
    BY <1>2
  <2>1. /\ g \in [0..(m - 1) -> S] /\ g[0] = base
        /\ \A k \in 1..(m - 1) : g[k] = step[<<k, g[k - 1]>>]
    BY <2>a DEF Solves
  <2> DEFINE h == [i \in 0..m |-> IF i = m THEN step[<<m, g[m - 1]>>] ELSE g[i]]
  <2>2. m - 1 \in 0..(m - 1) /\ g[m - 1] \in S
    BY <2>1
  <2>3. <<m, g[m - 1]>> \in (1..n) \X S
    BY <2>2
  <2>4. step[<<m, g[m - 1]>>] \in S
    BY <2>3
  <2>5. ASSUME NEW i \in 0..m, i # m PROVE g[i] \in S
    BY <2>1, <2>5
  <2>6. h \in [0..m -> S]
    BY <2>4, <2>5
  <2>7. h[0] = base
    BY <2>1
  <2>8. ASSUME NEW k \in 1..m PROVE h[k] = step[<<k, h[k - 1]>>]
    <3>1. CASE k = m
      <4>1. h[m] = step[<<m, g[m - 1]>>] /\ h[m - 1] = g[m - 1]
        OBVIOUS
      <4> HIDE DEF h
      <4> QED
        BY <3>1, <4>1
    <3>2. CASE k # m
      <4>1. k \in 1..(m - 1) /\ h[k] = g[k] /\ h[k - 1] = g[k - 1]
        BY <3>2
      <4> HIDE DEF h
      <4> QED
        BY <2>1, <4>1
    <3> QED
      BY <3>1, <3>2
  <2>9. m \in 0..n
    OBVIOUS
  <2> HIDE DEF h
  <2>10. Solves(h, m, S, base, step)
    BY <2>6, <2>7, <2>8 DEF Solves
  <2> QED
    BY <2>9, <2>10
<1>3. n \in T
  <2> HIDE DEF T
  <2>1. \A k \in 0..n : k \in T
    BY <1>1, <1>2, Climb
  <2> QED
    BY <2>1
<1> QED
  BY <1>3

-----------------------------------------------------------------------------
(* Parts of sequences *)

\* The elements of a sequence behind position a, up to b.
LEMMA Slice ==
  ASSUME NEW S, NEW s \in Seq(S), NEW a \in Nat, NEW b \in Nat, a <= b, b <= Len(s)
  PROVE  /\ SubSeq(s, a + 1, b) \in Seq(S) /\ Len(SubSeq(s, a + 1, b)) = b - a
         /\ \A i \in 1..(b - a) : SubSeq(s, a + 1, b)[i] = s[a + i]
<1>1. \A i \in (a + 1)..b : s[i] \in S
  BY LenProperties, ElementOfSeq
<1>2. /\ SubSeq(s, a + 1, b) \in Seq(S)
      /\ Len(SubSeq(s, a + 1, b)) = IF a + 1 <= b THEN b - (a + 1) + 1 ELSE 0
      /\ \A i \in 1..(b - (a + 1) + 1) : SubSeq(s, a + 1, b)[i] = s[(a + 1) + i - 1]
  BY <1>1, SubSeqProperties
<1>3. b - (a + 1) + 1 = b - a /\ \A i \in 1..(b - a) : (a + 1) + i - 1 = a + i
  OBVIOUS
<1> QED
  BY <1>2, <1>3

\* Adjacent parts.
LEMMA SliceGrows ==
  ASSUME NEW S, NEW s \in Seq(S), NEW a \in Nat, NEW b \in Nat, NEW c \in Nat,
         a <= b, b <= c, c <= Len(s)
  PROVE  SubSeq(s, a + 1, b) \o SubSeq(s, b + 1, c) = SubSeq(s, a + 1, c)
<1>1. Len(s) \in Nat
  BY LenProperties
<1>2. a + 1 \in 1..(Len(s) + 1) /\ b \in ((a + 1) - 1)..Len(s) /\ c \in b..Len(s)
  BY <1>1
<1> QED
  BY <1>2, ConcatAdjacentSubSeq

\* The rest of a part.
LEMMA SliceRest ==
  ASSUME NEW S, NEW s \in Seq(S), NEW a \in Nat, NEW c \in Nat, NEW m \in Nat,
         a + m <= c, c <= Len(s)
  PROVE  SubSeq(SubSeq(s, a + 1, c), m + 1, Len(SubSeq(s, a + 1, c))) = SubSeq(s, a + m + 1, c)
<1> DEFINE p == SubSeq(s, a + 1, c)
           r == SubSeq(p, m + 1, Len(p))
           q == SubSeq(s, a + m + 1, c)
<1>1. p \in Seq(S) /\ Len(p) = c - a /\ \A i \in 1..(c - a) : p[i] = s[a + i]
  BY Slice
<1>2. a + m \in Nat /\ c - a \in Nat /\ m <= c - a
  OBVIOUS
<1>3. q \in Seq(S) /\ Len(q) = c - (a + m) /\ \A i \in 1..(c - (a + m)) : q[i] = s[(a + m) + i]
  BY <1>2, Slice
<1> HIDE DEF p, q
<1>4. r \in Seq(S) /\ Len(r) = (c - a) - m /\ \A i \in 1..((c - a) - m) : r[i] = p[m + i]
  BY <1>1, <1>2, Slice
<1> HIDE DEF r
<1>5. ASSUME NEW i \in 1..Len(r) PROVE r[i] = q[i]
  <2>1. /\ i \in 1..((c - a) - m) /\ m + i \in 1..(c - a)
        /\ i \in 1..(c - (a + m)) /\ a + (m + i) = (a + m) + i
    BY <1>4
  <2> QED
    BY <1>1, <1>3, <1>4, <2>1
<1>6. Len(r) = Len(q)
  BY <1>3, <1>4
<1>7. r = q
  BY <1>3, <1>4, <1>5, <1>6, SeqEqual
<1> QED
  BY <1>7 DEF r, p, q

InFourParts(F, S, h, e, k, d) ==
    /\ F \in Seq(S) /\ Len(F) = Len(h) + Len(e) + Len(k) + Len(d)
    /\ \A i \in 1..Len(h) : F[i] = h[i]
    /\ \A i \in 1..Len(e) : F[Len(h) + i] = e[i]
    /\ \A i \in 1..Len(k) : F[Len(h) + Len(e) + i] = k[i]
    /\ \A i \in 1..Len(d) : F[Len(h) + Len(e) + Len(k) + i] = d[i]

\* The elements of four sequences one after the other.
LEMMA FourParts ==
  ASSUME NEW S, NEW h \in Seq(S), NEW e \in Seq(S), NEW k \in Seq(S), NEW d \in Seq(S),
         NEW F, F = h \o e \o k \o d
  PROVE  InFourParts(F, S, h, e, k, d)
<1> DEFINE he == h \o e
           hek == he \o k
<1>f. F = hek \o d
  OBVIOUS
<1>0. Len(h) \in Nat /\ Len(e) \in Nat /\ Len(k) \in Nat /\ Len(d) \in Nat
  BY LenProperties
<1>1. /\ he \in Seq(S) /\ Len(he) = Len(h) + Len(e)
      /\ \A i \in 1..(Len(h) + Len(e)) : he[i] = IF i <= Len(h) THEN h[i] ELSE e[i - Len(h)]
  BY ConcatProperties
<1>1a. he \in Seq(S)
  BY <1>1
<1> HIDE DEF he
<1>2. /\ hek \in Seq(S) /\ Len(hek) = Len(he) + Len(k)
      /\ \A i \in 1..(Len(he) + Len(k)) : hek[i] = IF i <= Len(he) THEN he[i] ELSE k[i - Len(he)]
  BY <1>1a, ConcatProperties
<1>2a. hek \in Seq(S)
  BY <1>2
<1> HIDE DEF hek
<1>3. /\ F \in Seq(S) /\ Len(F) = Len(hek) + Len(d)
      /\ \A i \in 1..(Len(hek) + Len(d)) : F[i] = IF i <= Len(hek) THEN hek[i] ELSE d[i - Len(hek)]
  BY <1>2a, <1>f, ConcatProperties
<1>4. \A i \in 1..Len(h) : F[i] = h[i]
  BY <1>0, <1>1, <1>2, <1>3
<1>5. ASSUME NEW i \in 1..Len(e) PROVE F[Len(h) + i] = e[i]
  <2>1. (Len(h) + i) - Len(h) = i /\ ~(Len(h) + i <= Len(h)) /\ Len(h) + i \in 1..(Len(h) + Len(e))
    BY <1>0
  <2>2. he[Len(h) + i] = e[i]
    BY <1>1, <2>1
  <2>3. Len(h) + i \in 1..(Len(he) + Len(k)) /\ Len(h) + i <= Len(he)
    BY <1>0, <1>1
  <2>4. hek[Len(h) + i] = e[i]
    BY <1>2, <2>2, <2>3
  <2>5. Len(h) + i \in 1..(Len(hek) + Len(d)) /\ Len(h) + i <= Len(hek)
    BY <1>0, <1>1, <1>2
  <2> QED
    BY <1>3, <2>4, <2>5
<1>6. ASSUME NEW i \in 1..Len(k) PROVE F[Len(h) + Len(e) + i] = k[i]
  <2> DEFINE j == Len(h) + Len(e) + i
  <2>1. j - Len(he) = i /\ ~(j <= Len(he)) /\ j \in 1..(Len(he) + Len(k))
    BY <1>0, <1>1
  <2>2. j \in 1..(Len(hek) + Len(d)) /\ j <= Len(hek)
    BY <1>0, <1>1, <1>2
  <2> HIDE DEF j
  <2>3. hek[j] = k[i]
    BY <1>2, <2>1
  <2>4. F[j] = k[i]
    BY <1>3, <2>2, <2>3
  <2> QED
    BY <2>4 DEF j
<1>7. ASSUME NEW i \in 1..Len(d) PROVE F[Len(h) + Len(e) + Len(k) + i] = d[i]
  <2> DEFINE j == Len(h) + Len(e) + Len(k) + i
  <2>1. j - Len(hek) = i /\ ~(j <= Len(hek)) /\ j \in 1..(Len(hek) + Len(d))
    BY <1>0, <1>1, <1>2
  <2> HIDE DEF j
  <2>2. F[j] = d[i]
    BY <1>3, <2>1
  <2> QED
    BY <2>2 DEF j
<1>8. F \in Seq(S) /\ Len(F) = Len(h) + Len(e) + Len(k) + Len(d)
  BY <1>0, <1>1, <1>2, <1>3
<1> QED
  BY <1>4, <1>5, <1>6, <1>7, <1>8 DEF InFourParts

-----------------------------------------------------------------------------
(* The client's frames *)

\* The frames of a script.
LEMMA FrameType ==
  ASSUME NEW sc \in Scripts
  PROVE  /\ sc.frames \in Seq(Frames) /\ Len(sc.frames) \in Nat /\ sc.hello \in 1..3
         /\ \A k \in 1..Len(sc.frames) : sc.frames[k] \in Frames
BY ScriptAssumption, LenProperties, ElementOfSeq

\* The data of a frame.
LEMMA ClientDataType ==
  ASSUME NEW sc, NEW f \in Frames
  PROVE  ClientData(sc, f) \in Seq(Octets) /\ Len(ClientData(sc, f)) \in Nat
<1>1. f.msg \in Seq(Octets)
  BY DEF Frames
<1>2. <<250>> \in Seq(Octets)
  BY DEF Octets
<1>3. <<250>> \o f.msg \in Seq(Octets)
  BY <1>1, <1>2, ConcatProperties
<1> QED
  BY <1>1, <1>3, LenProperties DEF ClientData, Deflate

\* Masking keeps the length and gives bytes.
LEMMA MaskedType ==
  ASSUME NEW d \in Seq(Octets), NEW key \in [1..4 -> Octets]
  PROVE  /\ Masked(d, key) \in Seq(Octets) /\ Len(Masked(d, key)) = Len(d)
         /\ \A i \in 1..Len(d) : /\ key[1 + ((i - 1) % 4)] \in Octets /\ d[i] \in Octets
                                 /\ Masked(d, key)[i] = XorByte(d[i], key[1 + ((i - 1) % 4)])
<1>1. Len(d) \in Nat
  BY LenProperties
<1>2. ASSUME NEW i \in 1..Len(d)
      PROVE  d[i] \in Octets /\ key[1 + ((i - 1) % 4)] \in Octets
  <2>1. 1 + ((i - 1) % 4) \in 1..4
    OBVIOUS
  <2> QED
    BY <2>1, ElementOfSeq
<1>3. ASSUME NEW i \in 1..Len(d) PROVE XorByte(d[i], key[1 + ((i - 1) % 4)]) \in Octets
  BY <1>2, XorAssumption
<1>4. Masked(d, key) \in [1..Len(d) -> Octets]
  BY <1>3 DEF Masked
<1>5. Masked(d, key) \in Seq(Octets) /\ Len(Masked(d, key)) = Len(d)
  BY <1>1, <1>4, SeqDef, LenProperties
<1> QED
  BY <1>2, <1>5 DEF Masked

\* A length in eight bytes.
LEMMA LongDigitsType ==
  ASSUME NEW n \in Nat
  PROVE  LongDigits(n) \in Seq(Octets) /\ Len(LongDigits(n)) = 8
<1> DEFINE m == n \div 256
           l == m \div 256
           k == l \div 256
<1>1. m \in Nat /\ l \in Nat /\ k \in Nat
  OBVIOUS
<1>2. k % 256 \in Octets /\ l % 256 \in Octets /\ m % 256 \in Octets /\ n % 256 \in Octets /\ 0 \in Octets
  BY <1>1 DEF Octets
<1>3. LongDigits(n) = <<0, 0, 0, 0, k % 256, l % 256, m % 256, n % 256>>
  BY DEF LongDigits
<1> HIDE DEF k, l, m
<1> QED
  BY <1>2, <1>3

\* The two-byte and the eight-byte length.
LEMMA ExtendedLengthType ==
  ASSUME NEW n \in Nat
  PROVE  /\ ExtendedLength(n) \in Seq(Octets)
         /\ Len(ExtendedLength(n)) = IF n < 126 THEN 0 ELSE IF n <= UINT16_MAX THEN 2 ELSE 8
         /\ ClientLength(n) = IF n < 126 THEN n ELSE IF n <= UINT16_MAX THEN 126 ELSE 127
<1>1. CASE n < 126
  <2>1. ExtendedLength(n) = <<>> /\ ClientLength(n) = n
    BY <1>1 DEF ExtendedLength, ClientLength
  <2> QED
    BY <1>1, <2>1
<1>2. CASE n \in 126..UINT16_MAX
  <2>1. ExtendedLength(n) = <<n \div 256, n % 256>> /\ ClientLength(n) = 126
    BY <1>2, SMTT(30) DEF ExtendedLength, ClientLength
  <2>2. n \div 256 \in Octets /\ n % 256 \in Octets
    BY <1>2, LimitAssumption, SMTT(30) DEF Octets
  <2>3. ~(n < 126) /\ n <= UINT16_MAX
    BY <1>2, LimitAssumption, SMTT(30)
  <2> QED
    BY <2>1, <2>2, <2>3
<1>3. CASE ~(n < 126) /\ ~(n \in 126..UINT16_MAX)
  <2>1. ExtendedLength(n) = LongDigits(n) /\ ClientLength(n) = 127
    BY <1>3, SMTT(30) DEF ExtendedLength, ClientLength
  <2>2. ~(n < 126) /\ ~(n <= UINT16_MAX)
    BY <1>3, LimitAssumption, SMTT(30)
  <2> QED
    BY <2>1, <2>2, LongDigitsType, SMTT(30)
<1> QED
  BY <1>1, <1>2, <1>3

\* The parts of the frame F that carries data.
InLayout(F, f, data) ==
    LET ext == ExtendedLength(Len(data))
    IN /\ F \in Seq(Octets) /\ Len(F) = 2 + Len(ext) + Len(f.key) + Len(data)
       /\ Len(f.key) = IF f.key = <<>> THEN 0 ELSE 4
       /\ F[1] = (IF f.fin THEN 128 ELSE 0) + f.op
       /\ F[2] = (IF f.key # <<>> THEN 128 ELSE 0) + ClientLength(Len(data))
       /\ \A i \in 1..Len(ext) : F[2 + i] = ext[i]
       /\ \A i \in 1..Len(f.key) : F[2 + Len(ext) + i] = f.key[i]
       /\ \A i \in 1..Len(data) : F[2 + Len(ext) + Len(f.key) + i] =
             IF f.key = <<>> THEN data[i] ELSE XorByte(data[i], f.key[1 + ((i - 1) % 4)])

\* Where the parts of a frame are.
LEMMA FrameLayout ==
  ASSUME NEW sc, NEW f \in Frames
  PROVE  InLayout(ClientFrame(sc, f), f, ClientData(sc, f))
<1> DEFINE data == ClientData(sc, f)
           ext == ExtendedLength(Len(data))
           h == <<(IF f.fin THEN 128 ELSE 0) + f.op,
                  (IF f.key # <<>> THEN 128 ELSE 0) + ClientLength(Len(data))>>
           body == IF f.key = <<>> THEN data ELSE Masked(data, f.key)
           F == h \o ext \o f.key \o body
<1>1. data \in Seq(Octets) /\ Len(data) \in Nat
  BY ClientDataType
<1> HIDE DEF data
<1>2. ext \in Seq(Octets) /\ Len(ext) \in Nat /\ ClientLength(Len(data)) \in 0..127
  <2> DEFINE n == Len(data)
  <2>1. n \in Nat
    BY <1>1
  <2> HIDE DEF n
  <2>2. /\ ExtendedLength(n) \in Seq(Octets)
        /\ ClientLength(n) = IF n < 126 THEN n ELSE IF n <= UINT16_MAX THEN 126 ELSE 127
    BY <2>1, ExtendedLengthType
  <2>3. ClientLength(n) \in 0..127
    BY <2>1, <2>2
  <2>4. Len(ExtendedLength(n)) \in Nat
    BY <2>2, LenProperties
  <2> QED
    BY <2>2, <2>3, <2>4 DEF n
<1> HIDE DEF ext
<1>3. f.key \in Seq(Octets) /\ Len(f.key) = IF f.key = <<>> THEN 0 ELSE 4
  <2>1. CASE f.key = <<>>
    BY <2>1
  <2>2. CASE f.key # <<>>
    <3>1. f.key \in [1..4 -> Octets]
      BY <2>2 DEF Frames
    <3>2. f.key \in Seq(Octets)
      BY <3>1, SeqDef
    <3>3. DOMAIN f.key = 1..4
      BY <3>1
    <3>4. Len(f.key) \in Nat /\ DOMAIN f.key = 1..Len(f.key)
      BY <3>2, LenProperties
    <3>5. Len(f.key) = 4
      <4> DEFINE m == Len(f.key)
      <4>1. m \in Nat /\ 1..4 = 1..m
        BY <3>3, <3>4
      <4> HIDE DEF m
      <4>2. 4 \in 1..m /\ 5 \notin 1..m
        BY <4>1
      <4>3. m = 4
        BY <4>1, <4>2
      <4> QED
        BY <4>3 DEF m
    <3> QED
      BY <2>2, <3>2, <3>5
  <2> QED
    BY <2>1, <2>2
<1>4. h \in Seq(Octets) /\ Len(h) = 2
  <2> DEFINE b0 == IF f.fin THEN 128 ELSE 0
             b1 == IF f.key # <<>> THEN 128 ELSE 0
             n == ClientLength(Len(data))
  <2>1. b0 \in {0, 128} /\ b1 \in {0, 128} /\ n \in 0..127
    BY <1>2
  <2>2. f.op \in 0..10
    BY DEF Frames, CONTINUATION_FRAME, TEXT_FRAME, BINARY_FRAME, CLOSE, PING, PONG
  <2>3. h = <<b0 + f.op, b1 + n>>
    OBVIOUS
  <2> HIDE DEF h, b0, b1, n
  <2>4. b0 + f.op \in Octets /\ b1 + n \in Octets
    BY <2>1, <2>2 DEF Octets
  <2> QED
    BY <2>3, <2>4
<1>5. /\ body \in Seq(Octets) /\ Len(body) = Len(data)
      /\ \A i \in 1..Len(data) : body[i] =
            IF f.key = <<>> THEN data[i] ELSE XorByte(data[i], f.key[1 + ((i - 1) % 4)])
  <2>1. CASE f.key = <<>>
    BY <1>1, <2>1
  <2>2. CASE f.key # <<>>
    <3>1. f.key \in [1..4 -> Octets]
      BY <2>2 DEF Frames
    <3> QED
      BY <1>1, <2>2, <3>1, MaskedType
  <2> QED
    BY <2>1, <2>2
<1> HIDE DEF body
<1>6. /\ F \in Seq(Octets) /\ Len(F) = Len(h) + Len(ext) + Len(f.key) + Len(body)
      /\ \A i \in 1..Len(h) : F[i] = h[i]
      /\ \A i \in 1..Len(ext) : F[Len(h) + i] = ext[i]
      /\ \A i \in 1..Len(f.key) : F[Len(h) + Len(ext) + i] = f.key[i]
      /\ \A i \in 1..Len(body) : F[Len(h) + Len(ext) + Len(f.key) + i] = body[i]
  <2>1. h \in Seq(Octets)
    BY <1>4
  <2>2. ext \in Seq(Octets)
    BY <1>2
  <2>3. f.key \in Seq(Octets)
    BY <1>3
  <2>4. body \in Seq(Octets)
    BY <1>5
  <2>5. F = h \o ext \o f.key \o body
    OBVIOUS
  <2> HIDE DEF h, F
  <2>6. InFourParts(F, Octets, h, ext, f.key, body)
    BY <2>1, <2>2, <2>3, <2>4, <2>5, FourParts
  <2> QED
    BY <2>6 DEF InFourParts
<1>7. 1 \in 1..Len(h) /\ 2 \in 1..Len(h)
  BY <1>4
<1>8. /\ h[1] = (IF f.fin THEN 128 ELSE 0) + f.op
      /\ h[2] = (IF f.key # <<>> THEN 128 ELSE 0) + ClientLength(Len(data))
  OBVIOUS
<1>9. F[1] = h[1] /\ F[2] = h[2] /\ Len(h) = 2
  BY <1>4, <1>6, <1>7
<1>10. ClientFrame(sc, f) = F
  BY DEF ClientFrame, F, h, body, ext, data
<1> HIDE DEF F, h
<1>11. /\ F \in Seq(Octets) /\ Len(F) = 2 + Len(ext) + Len(f.key) + Len(data)
       /\ \A i \in 1..Len(ext) : F[2 + i] = ext[i]
       /\ \A i \in 1..Len(f.key) : F[2 + Len(ext) + i] = f.key[i]
       /\ \A i \in 1..Len(data) : F[2 + Len(ext) + Len(f.key) + i] = body[i]
  BY <1>5, <1>6, <1>9, ZenonT(40)
<1>12. /\ F[1] = (IF f.fin THEN 128 ELSE 0) + f.op
       /\ F[2] = (IF f.key # <<>> THEN 128 ELSE 0) + ClientLength(Len(data))
  BY <1>8, <1>9
<1> QED
  BY <1>3, <1>5, <1>10, <1>11, <1>12 DEF InLayout, ext, data

-----------------------------------------------------------------------------
(* The client's byte stream *)

\* The handshake is eight bytes.
LEMMA HelloType ==
  ASSUME NEW sc \in Scripts
  PROVE  Hello(sc) \in Seq(Octets) /\ Len(Hello(sc)) = 8
<1>1. sc.hello \in Octets /\ 13 \in Octets /\ 10 \in Octets
  BY FrameType DEF Octets
<1> QED
  BY <1>1 DEF Hello

\* The recursion of UpTo.
LEMMA UpToIs ==
  ASSUME NEW sc \in Scripts
  PROVE  /\ \A k \in 0..Len(sc.frames) : UpTo[sc][k] \in Seq(Octets)
         /\ UpTo[sc][0] = Hello(sc)
         /\ \A k \in 1..Len(sc.frames) :
               UpTo[sc][k] = UpTo[sc][k - 1] \o ClientFrame(sc, sc.frames[k])
<1> DEFINE n == Len(sc.frames)
           F(k) == ClientFrame(sc, sc.frames[k])
           Is(u) == u = [k \in 0..n |-> IF k = 0 THEN Hello(sc) ELSE u[k - 1] \o F(k)]
           step == [p \in (1..n) \X Seq(Octets) |-> p[2] \o F(p[1])]
           u == CHOOSE v : Is(v)
<1>1. n \in Nat /\ \A k \in 1..n : F(k) \in Seq(Octets)
  BY FrameType, FrameLayout DEF InLayout
<1>2. UpTo[sc] = u
  BY DEF UpTo
<1> HIDE DEF n, F
<1>3. step \in [(1..n) \X Seq(Octets) -> Seq(Octets)]
  BY <1>1, ConcatProperties
<1>4. \A k \in 1..n : \A s \in Seq(Octets) : step[<<k, s>>] = s \o F(k)
  OBVIOUS
<1> HIDE DEF step
<1>5. PICK g \in [0..n -> Seq(Octets)] : g[0] = Hello(sc) /\ \A k \in 1..n : g[k] = step[<<k, g[k - 1]>>]
  <2>1. n \in Nat
    BY <1>1
  <2>2. Hello(sc) \in Seq(Octets)
    BY HelloType
  <2>3. \E g : Solves(g, n, Seq(Octets), Hello(sc), step)
    BY <1>3, <2>1, <2>2, RecursionSolved, ZenonT(40)
  <2> QED
    BY <2>3 DEF Solves
<1>6. Is(g)
  <2>1. ASSUME NEW k \in 0..n PROVE g[k] = IF k = 0 THEN Hello(sc) ELSE g[k - 1] \o F(k)
    <3>1. CASE k = 0
      BY <1>5, <3>1
    <3>2. CASE k # 0
      <4>1. k \in 1..n /\ k - 1 \in 0..n
        BY <1>1, <3>2
      <4> QED
        BY <1>4, <1>5, <3>2, <4>1
    <3> QED
      BY <3>1, <3>2
  <2> QED
    BY <2>1
<1>7. Is(u)
  BY <1>6
<1> HIDE DEF u
<1>8. u[0] = Hello(sc) /\ \A k \in 1..n : u[k] = u[k - 1] \o F(k)
  <2>1. \A k \in 0..n : u[k] = IF k = 0 THEN Hello(sc) ELSE u[k - 1] \o F(k)
    BY <1>7
  <2>2. 0 \in 0..n /\ \A k \in 1..n : k \in 0..n /\ k # 0
    BY <1>1
  <2> QED
    BY <2>1, <2>2, Zenon
<1> DEFINE T == {k \in 0..n : u[k] \in Seq(Octets)}
<1>9. 0 \in T
  BY <1>1, <1>8, HelloType
<1>10. ASSUME NEW k \in 1..n, k - 1 \in T PROVE k \in T
  <2>1. u[k - 1] \in Seq(Octets) /\ F(k) \in Seq(Octets) /\ k \in 0..n
    BY <1>1, <1>10
  <2>2. u[k - 1] \o F(k) \in Seq(Octets)
    BY <2>1, ConcatProperties
  <2> QED
    BY <1>8, <2>1, <2>2
<1>11. \A k \in 0..n : k \in T
  <2> HIDE DEF T
  <2> QED
    BY <1>1, <1>9, <1>10, Climb
<1>12. \A k \in 0..n : u[k] \in Seq(Octets)
  BY <1>11
<1> QED
  BY <1>2, <1>8, <1>12 DEF n, F

\* Where the frames end, and what the stream holds.
LEMMA FrameEnds ==
  ASSUME NEW sc \in Scripts
  PROVE  /\ Wire[sc] \in Seq(Octets) /\ Len(Wire[sc]) \in Nat
         /\ FrameEnd[sc][Len(sc.frames)] = Len(Wire[sc])
         /\ \A k \in 0..Len(sc.frames) : /\ FrameEnd[sc][k] \in Nat /\ FrameEnd[sc][k] = Len(UpTo[sc][k])
                                         /\ UpTo[sc][k] \in Seq(Octets)
         /\ FrameEnd[sc][0] = 8
         /\ \A k \in 1..Len(sc.frames) :
               LET F == ClientFrame(sc, sc.frames[k])
               IN /\ F \in Seq(Octets) /\ Len(F) \in Nat /\ Len(F) >= 2
                  /\ FrameEnd[sc][k] = FrameEnd[sc][k - 1] + Len(F)
                  /\ \A i \in 1..FrameEnd[sc][k - 1] : UpTo[sc][k][i] = UpTo[sc][k - 1][i]
                  /\ \A i \in 1..Len(F) : UpTo[sc][k][FrameEnd[sc][k - 1] + i] = F[i]
<1> DEFINE n == Len(sc.frames)
           u == UpTo[sc]
           F(k) == ClientFrame(sc, sc.frames[k])
<1>1. n \in Nat /\ \A k \in 1..n : sc.frames[k] \in Frames
  BY FrameType
<1>2. ASSUME NEW k \in 1..n PROVE F(k) \in Seq(Octets) /\ Len(F(k)) \in Nat /\ Len(F(k)) >= 2
  <2> DEFINE f == sc.frames[k]
             data == ClientData(sc, f)
             ext == ExtendedLength(Len(data))
  <2>1. f \in Frames
    BY <1>1
  <2> HIDE DEF f
  <2>2. /\ ClientFrame(sc, f) \in Seq(Octets)
        /\ Len(ClientFrame(sc, f)) = 2 + Len(ext) + Len(f.key) + Len(data)
        /\ Len(f.key) = IF f.key = <<>> THEN 0 ELSE 4
    BY <2>1, FrameLayout DEF InLayout
  <2>3. data \in Seq(Octets) /\ Len(data) \in Nat
    BY <2>1, ClientDataType
  <2> HIDE DEF data
  <2>4. ext \in Seq(Octets)
    BY <2>3, ExtendedLengthType
  <2> HIDE DEF ext
  <2>5. Len(ext) \in Nat
    BY <2>4, LenProperties
  <2>6. ClientFrame(sc, f) \in Seq(Octets) /\ Len(ClientFrame(sc, f)) \in Nat /\ Len(ClientFrame(sc, f)) >= 2
    BY <2>2, <2>3, <2>5
  <2> QED
    BY <2>6 DEF f
<1>3. /\ \A k \in 0..n : u[k] \in Seq(Octets)
      /\ u[0] = Hello(sc) /\ \A k \in 1..n : u[k] = u[k - 1] \o F(k)
  BY UpToIs
<1>4. /\ Wire[sc] = u[n] /\ \A k \in 0..n : FrameEnd[sc][k] = Len(u[k])
  BY DEF Wire, FrameEnd
<1> HIDE DEF n, u, F
<1>5. n \in 0..n /\ 0 \in 0..n
  BY <1>1
<1>6. ASSUME NEW k \in 0..n PROVE FrameEnd[sc][k] \in Nat /\ FrameEnd[sc][k] = Len(u[k]) /\ u[k] \in Seq(Octets)
  BY <1>3, <1>4, LenProperties
<1>7. FrameEnd[sc][0] = 8
  BY <1>3, <1>4, <1>5, HelloType
<1>8. Wire[sc] \in Seq(Octets) /\ FrameEnd[sc][n] = Len(Wire[sc]) /\ Len(Wire[sc]) \in Nat
  BY <1>4, <1>5, <1>6
<1>9. ASSUME NEW k \in 1..n
      PROVE  /\ FrameEnd[sc][k] = FrameEnd[sc][k - 1] + Len(F(k))
             /\ \A i \in 1..FrameEnd[sc][k - 1] : u[k][i] = u[k - 1][i]
             /\ \A i \in 1..Len(F(k)) : u[k][FrameEnd[sc][k - 1] + i] = F(k)[i]
  <2> DEFINE a == u[k - 1]
             b == F(k)
             c == u[k]
  <2>1. k \in 0..n /\ k - 1 \in 0..n
    BY <1>1
  <2>2. a \in Seq(Octets) /\ Len(a) = FrameEnd[sc][k - 1] /\ Len(c) = FrameEnd[sc][k] /\ Len(a) \in Nat
    BY <1>6, <2>1
  <2>3. b \in Seq(Octets) /\ Len(b) \in Nat
    BY <1>2
  <2>4. c = a \o b
    BY <1>3
  <2> HIDE DEF a, b, c
  <2>5. Len(c) = Len(a) + Len(b) /\ \A i \in 1..(Len(a) + Len(b)) : c[i] = IF i <= Len(a) THEN a[i] ELSE b[i - Len(a)]
    BY <2>2, <2>3, <2>4, ConcatProperties
  <2>6. \A i \in 1..Len(a) : c[i] = a[i]
    BY <2>2, <2>3, <2>5
  <2>7. \A i \in 1..Len(b) : Len(a) + i \in 1..(Len(a) + Len(b)) /\ ~(Len(a) + i <= Len(a)) /\ (Len(a) + i) - Len(a) = i
    <3> DEFINE p == Len(a)
               q == Len(b)
    <3>1. p \in Nat /\ q \in Nat
      BY <2>2, <2>3
    <3> HIDE DEF p, q
    <3>2. \A i \in 1..q : p + i \in 1..(p + q) /\ ~(p + i <= p) /\ (p + i) - p = i
      BY <3>1
    <3> QED
      BY <3>2 DEF p, q
  <2>8. \A i \in 1..Len(b) : c[Len(a) + i] = b[i]
    BY <2>5, <2>7
  <2> QED
    BY <2>2, <2>5, <2>6, <2>8 DEF a, b, c
<1> QED
  BY <1>2, <1>6, <1>7, <1>8, <1>9 DEF n, u, F

\* The stream up to a frame is the beginning of the stream up to a later one.
LEMMA StreamPrefix ==
  ASSUME NEW sc \in Scripts, NEW m \in 0..Len(sc.frames)
  PROVE  \A k \in 0..m : /\ FrameEnd[sc][k] <= FrameEnd[sc][m]
                         /\ \A i \in 1..FrameEnd[sc][k] : UpTo[sc][m][i] = UpTo[sc][k][i]
<1> DEFINE n == Len(sc.frames)
           E == FrameEnd[sc]
           u == UpTo[sc]
           T == {q \in 0..n : \A k \in 0..q : /\ E[k] <= E[q]
                                              /\ \A i \in 1..E[k] : u[q][i] = u[k][i]}
<1>1. n \in Nat
  BY FrameType
<1>2. \A k \in 0..n : E[k] \in Nat
  BY FrameEnds
<1>3. \A k \in 1..n : E[k - 1] <= E[k] /\ \A i \in 1..E[k - 1] : u[k][i] = u[k - 1][i]
  <2> TAKE k \in 1..n
  <2>1. k - 1 \in 0..n /\ k \in 0..n
    BY <1>1
  <2>2. /\ Len(ClientFrame(sc, sc.frames[k])) \in Nat
        /\ E[k] = E[k - 1] + Len(ClientFrame(sc, sc.frames[k]))
        /\ \A i \in 1..E[k - 1] : u[k][i] = u[k - 1][i]
    BY FrameEnds
  <2> HIDE DEF E, u
  <2> QED
    BY <1>2, <2>1, <2>2
<1> HIDE DEF n, E, u
<1>4. 0 \in T
  BY <1>1, <1>2
<1>5. ASSUME NEW q \in 1..n, q - 1 \in T PROVE q \in T
  <2>1. /\ q \in 0..n /\ q - 1 \in 0..n /\ E[q - 1] \in Nat /\ E[q] \in Nat
        /\ E[q - 1] <= E[q] /\ \A i \in 1..E[q - 1] : u[q][i] = u[q - 1][i]
    BY <1>1, <1>2, <1>3
  <2>2. \A k \in 0..(q - 1) : E[k] <= E[q - 1] /\ \A i \in 1..E[k] : u[q - 1][i] = u[k][i]
    BY <1>5
  <2>3. ASSUME NEW k \in 0..q PROVE E[k] <= E[q] /\ \A i \in 1..E[k] : u[q][i] = u[k][i]
    <3>1. CASE k = q
      BY <2>1, <3>1
    <3>2. CASE k # q
      <4>1. k \in 0..(q - 1) /\ k \in 0..n
        BY <1>1, <3>2
      <4>2. E[k] \in Nat /\ E[k] <= E[q - 1] /\ \A i \in 1..E[k] : u[q - 1][i] = u[k][i]
        BY <1>2, <2>2, <4>1
      <4>3. \A i \in 1..E[k] : i \in 1..E[q - 1]
        BY <2>1, <4>2
      <4>4. E[k] <= E[q]
        BY <2>1, <4>2
      <4> QED
        BY <2>1, <4>2, <4>3, <4>4
    <3> QED
      BY <3>1, <3>2
  <2> QED
    BY <2>1, <2>3
<1>6. \A k \in 0..n : k \in T
  <2> HIDE DEF T
  <2> QED
    BY <1>1, <1>4, <1>5, Climb
<1>7. m \in T
  <2> HIDE DEF T
  <2> QED
    BY <1>6 DEF n
<1> QED
  BY <1>7 DEF n, E, u

\* The handshake and each frame are where FrameEnd says.
LEMMA StreamParts ==
  ASSUME NEW sc \in Scripts
  PROVE  /\ 8 <= Len(Wire[sc]) /\ \A i \in 1..8 : Wire[sc][i] = Hello(sc)[i]
         /\ \A k \in 0..Len(sc.frames) : FrameEnd[sc][k] <= Len(Wire[sc]) /\ 8 <= FrameEnd[sc][k]
         /\ \A k \in 1..Len(sc.frames) : \A i \in 1..Len(ClientFrame(sc, sc.frames[k])) :
               Wire[sc][FrameEnd[sc][k - 1] + i] = ClientFrame(sc, sc.frames[k])[i]
<1> DEFINE n == Len(sc.frames)
           E == FrameEnd[sc]
           u == UpTo[sc]
           F(k) == ClientFrame(sc, sc.frames[k])
<1>1. n \in Nat /\ n \in 0..n /\ 0 \in 0..n
  BY FrameType
<1>2. Wire[sc] = u[n]
  BY DEF Wire
<1>3. /\ E[n] = Len(Wire[sc]) /\ E[0] = 8 /\ \A k \in 0..n : E[k] \in Nat
      /\ \A k \in 1..n : /\ Len(F(k)) \in Nat /\ E[k] = E[k - 1] + Len(F(k))
                         /\ \A i \in 1..Len(F(k)) : u[k][E[k - 1] + i] = F(k)[i]
  BY FrameEnds
<1>4. \A k \in 0..n : E[k] <= E[n] /\ \A i \in 1..E[k] : u[n][i] = u[k][i]
  BY <1>1, StreamPrefix
<1>5. \A k \in 0..n : E[0] <= E[k]
  <2> TAKE k \in 0..n
  <2>1. 0 \in 0..k
    OBVIOUS
  <2> QED
    BY <2>1, StreamPrefix
<1>6. u[0] = Hello(sc)
  BY UpToIs
<1> HIDE DEF n, E, u, F
<1>7. 8 <= Len(Wire[sc]) /\ \A i \in 1..8 : Wire[sc][i] = Hello(sc)[i]
  BY <1>1, <1>2, <1>3, <1>4, <1>6
<1>8. ASSUME NEW k \in 1..n, NEW i \in 1..Len(F(k)) PROVE Wire[sc][E[k - 1] + i] = F(k)[i]
  <2>1. k \in 0..n /\ k - 1 \in 0..n
    BY <1>1
  <2>2. E[k - 1] + i \in 1..E[k]
    BY <1>3, <2>1
  <2>3. u[n][E[k - 1] + i] = u[k][E[k - 1] + i]
    BY <1>4, <2>1, <2>2
  <2>4. u[k][E[k - 1] + i] = F(k)[i]
    BY <1>3
  <2> QED
    BY <1>2, <2>3, <2>4
<1>9. \A k \in 0..n : E[k] <= Len(Wire[sc]) /\ 8 <= E[k]
  BY <1>3, <1>4, <1>5
<1> QED
  BY <1>7, <1>8, <1>9 DEF n, E, u, F

\* Later frames end later.
LEMMA FrameEndsGrow ==
  ASSUME NEW sc \in Scripts, NEW k \in 1..Len(sc.frames), NEW j \in 0..(k - 1)
  PROVE  FrameEnd[sc][j] + 2 <= FrameEnd[sc][k]
<1>1. Len(sc.frames) \in Nat
  BY FrameType
<1>2. k - 1 \in 0..Len(sc.frames) /\ k \in 0..Len(sc.frames) /\ j \in 0..Len(sc.frames)
  BY <1>1
<1>3. FrameEnd[sc][j] <= FrameEnd[sc][k - 1]
  BY <1>2, StreamPrefix
<1>4. /\ FrameEnd[sc][j] \in Nat /\ FrameEnd[sc][k - 1] \in Nat /\ FrameEnd[sc][k] \in Nat
      /\ Len(ClientFrame(sc, sc.frames[k])) \in Nat /\ Len(ClientFrame(sc, sc.frames[k])) >= 2
      /\ FrameEnd[sc][k] = FrameEnd[sc][k - 1] + Len(ClientFrame(sc, sc.frames[k]))
  BY <1>2, FrameEnds
<1> QED
  BY <1>3, <1>4, SMTT(30)

-----------------------------------------------------------------------------
(* What the client collects and expects *)

\* The recursion of SinceFin.
LEMMA SinceFinIs ==
  ASSUME NEW sc \in Scripts
  PROVE  /\ SinceFin[sc][0] = <<>>
         /\ \A k \in 0..Len(sc.frames) : SinceFin[sc][k] \in Seq(Octets)
         /\ \A k \in 1..Len(sc.frames) :
               SinceFin[sc][k] = IF sc.frames[k].fin THEN <<>>
                                 ELSE SinceFin[sc][k - 1] \o ClientData(sc, sc.frames[k])
<1> DEFINE n == Len(sc.frames)
           F(k) == ClientData(sc, sc.frames[k])
           fin(k) == sc.frames[k].fin
           Is(u) == u = [k \in 0..n |-> IF k = 0 \/ fin(k) THEN <<>> ELSE u[k - 1] \o F(k)]
           step == [p \in (1..n) \X Seq(Octets) |-> IF fin(p[1]) THEN <<>> ELSE p[2] \o F(p[1])]
           u == CHOOSE v : Is(v)
<1>1. n \in Nat /\ \A k \in 1..n : F(k) \in Seq(Octets)
  BY FrameType, ClientDataType, SMTT(30)
<1>2. SinceFin[sc] = u
  BY DEF SinceFin
<1> HIDE DEF n, F, fin
<1>e. <<>> \in Seq(Octets)
  OBVIOUS
<1>3. step \in [(1..n) \X Seq(Octets) -> Seq(Octets)]
  BY <1>1, <1>e, ConcatProperties
<1>4. \A k \in 1..n : \A s \in Seq(Octets) : step[<<k, s>>] = IF fin(k) THEN <<>> ELSE s \o F(k)
  OBVIOUS
<1> HIDE DEF step
<1>5. PICK g : Solves(g, n, Seq(Octets), <<>>, step)
  BY <1>1, <1>3, <1>e, RecursionSolved
<1>6. g \in [0..n -> Seq(Octets)] /\ g[0] = <<>> /\ \A k \in 1..n : g[k] = step[<<k, g[k - 1]>>]
  BY <1>5 DEF Solves
<1>7. Is(g)
  <2>1. ASSUME NEW k \in 0..n PROVE g[k] = IF k = 0 \/ fin(k) THEN <<>> ELSE g[k - 1] \o F(k)
    <3>1. CASE k = 0
      BY <1>6, <3>1
    <3>2. CASE k # 0
      <4>1. k \in 1..n /\ k - 1 \in 0..n
        BY <1>1, <3>2, SMTT(30)
      <4> QED
        BY <1>4, <1>6, <3>2, <4>1
    <3> QED
      BY <3>1, <3>2
  <2> QED
    BY <1>6, <2>1
<1>8. Is(u)
  BY <1>7
<1> HIDE DEF u
<1>9. u[0] = <<>> /\ \A k \in 1..n : u[k] = IF fin(k) THEN <<>> ELSE u[k - 1] \o F(k)
  <2>1. \A k \in 0..n : u[k] = IF k = 0 \/ fin(k) THEN <<>> ELSE u[k - 1] \o F(k)
    BY <1>8
  <2>2. 0 \in 0..n /\ \A k \in 1..n : k \in 0..n /\ k # 0
    BY <1>1
  <2> QED
    BY <2>1, <2>2, Zenon
<1> DEFINE T == {k \in 0..n : u[k] \in Seq(Octets)}
<1>10. 0 \in T
  <2>1. 0 \in 0..n
    BY <1>1
  <2>2. u[0] \in Seq(Octets)
    BY <1>9, <1>e, Zenon
  <2> QED
    BY <2>1, <2>2
<1>11. ASSUME NEW k \in 1..n, k - 1 \in T PROVE k \in T
  <2>1. u[k - 1] \in Seq(Octets) /\ F(k) \in Seq(Octets) /\ k \in 0..n
    BY <1>1, <1>11
  <2>2. u[k - 1] \o F(k) \in Seq(Octets)
    BY <2>1, ConcatProperties
  <2> QED
    BY <1>9, <1>e, <2>1, <2>2
<1>12. \A k \in 0..n : k \in T
  <2> HIDE DEF T
  <2> QED
    BY <1>1, <1>10, <1>11, Climb
<1>13. \A k \in 0..n : u[k] \in Seq(Octets)
  BY <1>12
<1> QED
  BY <1>2, <1>9, <1>13 DEF n, F, fin

Replies == [fin : BOOLEAN, op : Nat, whole : BOOLEAN, msg : Seq(Octets)]

\* One reply at most for a frame.
LEMMA AnswerType ==
  ASSUME NEW f \in Frames
  PROVE  Answer(f) \in Seq(Replies)
<1>1. f.msg \in Seq(Octets) /\ <<>> \in Seq(Octets)
  BY DEF Frames
<1>2. Reply(PONG, <<>>) \in Replies /\ Reply(TEXT_FRAME, f.msg) \in Replies
  BY <1>1 DEF Reply, Replies, PONG, TEXT_FRAME
<1> HIDE DEF Replies
<1> QED
  BY <1>2 DEF Answer

\* The recursion of Answers.
LEMMA AnswersIs ==
  ASSUME NEW sc \in Scripts
  PROVE  /\ Answers[sc][0] = <<Reply(TEXT_FRAME, Welcome)>>
         /\ \A k \in 0..Len(sc.frames) : Answers[sc][k] \in Seq(Replies)
         /\ \A k \in 1..Len(sc.frames) : Answers[sc][k] = Answers[sc][k - 1] \o Answer(sc.frames[k])
<1> DEFINE n == Len(sc.frames)
           F(k) == Answer(sc.frames[k])
           base == <<Reply(TEXT_FRAME, Welcome)>>
           Is(u) == u = [k \in 0..n |-> IF k = 0 THEN base ELSE u[k - 1] \o F(k)]
           step == [p \in (1..n) \X Seq(Replies) |-> p[2] \o F(p[1])]
           u == CHOOSE v : Is(v)
<1>1. n \in Nat /\ \A k \in 1..n : F(k) \in Seq(Replies)
  BY FrameType, AnswerType, SMTT(30)
<1>2. Answers[sc] = u
  BY DEF Answers
<1>e. base \in Seq(Replies)
  <2>1. Reply(TEXT_FRAME, Welcome) \in Replies
    BY WelcomeAssumption DEF Reply, Replies, TEXT_FRAME
  <2> QED
    BY <2>1
<1> HIDE DEF n, F, base
<1>3. step \in [(1..n) \X Seq(Replies) -> Seq(Replies)]
  BY <1>1, ConcatProperties
<1>4. \A k \in 1..n : \A s \in Seq(Replies) : step[<<k, s>>] = s \o F(k)
  OBVIOUS
<1> HIDE DEF step
<1>5. PICK g : Solves(g, n, Seq(Replies), base, step)
  BY <1>1, <1>3, <1>e, RecursionSolved
<1>6. g \in [0..n -> Seq(Replies)] /\ g[0] = base /\ \A k \in 1..n : g[k] = step[<<k, g[k - 1]>>]
  BY <1>5 DEF Solves
<1>7. Is(g)
  <2>1. ASSUME NEW k \in 0..n PROVE g[k] = IF k = 0 THEN base ELSE g[k - 1] \o F(k)
    <3>1. CASE k = 0
      BY <1>6, <3>1
    <3>2. CASE k # 0
      <4>1. k \in 1..n /\ k - 1 \in 0..n
        BY <1>1, <3>2
      <4> QED
        BY <1>4, <1>6, <3>2, <4>1
    <3> QED
      BY <3>1, <3>2
  <2> QED
    BY <1>6, <2>1
<1>8. Is(u)
  BY <1>7
<1> HIDE DEF u
<1>9. u[0] = base /\ \A k \in 1..n : u[k] = u[k - 1] \o F(k)
  <2>1. \A k \in 0..n : u[k] = IF k = 0 THEN base ELSE u[k - 1] \o F(k)
    BY <1>8
  <2>2. 0 \in 0..n /\ \A k \in 1..n : k \in 0..n /\ k # 0
    BY <1>1
  <2> QED
    BY <2>1, <2>2, Zenon
<1> DEFINE T == {k \in 0..n : u[k] \in Seq(Replies)}
<1>10. 0 \in T
  BY <1>1, <1>9, <1>e
<1>11. ASSUME NEW k \in 1..n, k - 1 \in T PROVE k \in T
  <2>1. u[k - 1] \in Seq(Replies) /\ F(k) \in Seq(Replies) /\ k \in 0..n
    BY <1>1, <1>11
  <2>2. u[k - 1] \o F(k) \in Seq(Replies)
    BY <2>1, ConcatProperties
  <2> QED
    BY <1>9, <2>1, <2>2
<1>12. \A k \in 0..n : k \in T
  <2> HIDE DEF T
  <2> QED
    BY <1>1, <1>10, <1>11, Climb
<1>13. \A k \in 0..n : u[k] \in Seq(Replies)
  BY <1>12
<1> QED
  BY <1>2, <1>9, <1>13 DEF n, F, base

-----------------------------------------------------------------------------
(* decodePackage on the bytes of a frame, and on any others *)

\* Numbers are made of numbers.
LEMMA ShortNat ==
  ASSUME NEW in, NEW i, in[i] \in Nat, in[i + 1] \in Nat
  PROVE  Short(in, i) \in Nat
<1> DEFINE x == in[i]
           y == in[i + 1]
<1>1. x \in Nat /\ y \in Nat /\ Short(in, i) = 256 * x + y
  BY DEF Short
<1> HIDE DEF x, y
<1> QED
  BY <1>1

\* Whatever the bytes are: the sizes, and the data of a frame that is there.
LEMMA DecodeTypes ==
  ASSUME NEW in \in Seq(Octets), Len(in) >= 6
  PROVE  /\ payloadLength(in) \in 0..127 /\ headerSize(in) \in 0..14
         /\ mask(in) => headerSize(in) >= 4
         /\ Len(in) >= headerSize(in) => bodyLength(in) \in Nat
         /\ Len(in) >= headerSize(in) /\ Len(in) >= headerSize(in) + bodyLength(in) =>
               payloadData(in) \in Seq(Octets)
<1> DEFINE p == payloadLength(in)
           h == headerSize(in)
           b == bodyLength(in)
<1>1. Len(in) \in Nat /\ \A i \in 1..Len(in) : in[i] \in 0..255 /\ in[i] \in Nat
  <2>1. \A x \in Octets : x \in 0..255 /\ x \in Nat
    BY DEF Octets
  <2> QED
    BY <2>1, LenProperties, ElementOfSeq
<1>2. p \in 0..127
  <2> DEFINE x == in[2]
  <2>1. x \in 0..255
    BY <1>1
  <2>2. p = x % 128
    BY DEF payloadLength
  <2> HIDE DEF x, p
  <2>3. x % 128 \in 0..127
    BY <2>1
  <2> QED
    BY <2>2, <2>3
<1>p. p = payloadLength(in)
  OBVIOUS
<1> HIDE DEF p
<1>3. h = (IF mask(in) THEN 4 ELSE 0) + (IF p = 0 THEN 0 ELSE 2) + (IF p = 126 THEN 2 ELSE 0)
          + (IF p = 127 THEN 8 ELSE 0)
  BY <1>p DEF headerSize
<1>b. b = bodyLength(in)
  OBVIOUS
<1> HIDE DEF h, b
<1>4. h \in 0..14 /\ (mask(in) => h >= 4)
  BY <1>2, <1>3
<1>5. ASSUME Len(in) >= h PROVE b \in Nat
  <2>1. CASE p <= 125
    <3>1. b = p
      BY <1>p, <1>b, <1>2, <2>1 DEF bodyLength
    <3> QED
      BY <1>2, <3>1
  <2>2. CASE p = 126
    <3>1. b = Short(in, 3)
      BY <1>p, <1>b, <1>2, <2>2 DEF bodyLength
    <3>2. in[3] \in Nat /\ in[3 + 1] \in Nat
      BY <1>1
    <3>3. Short(in, 3) \in Nat
      BY <3>2, ShortNat
    <3> QED
      BY <3>1, <3>3
  <2>3. CASE p = 127
    <3>1. b = Int64(in, 3)
      BY <1>p, <1>b, <1>2, <2>3 DEF bodyLength
    <3>2. h >= 10
      BY <1>3, <2>3
    <3>3. /\ in[3] \in Nat /\ in[3 + 1] \in Nat /\ in[3 + 2] \in Nat /\ in[3 + 2 + 1] \in Nat
          /\ in[3 + 4] \in Nat /\ in[3 + 4 + 1] \in Nat /\ in[3 + 4 + 2] \in Nat
          /\ in[3 + 4 + 2 + 1] \in Nat
      <4>1. Len(in) >= 10
        BY <1>1, <1>4, <1>5, <3>2
      <4>2. \A i \in 3..10 : in[i] \in Nat
        BY <1>1, <4>1
      <4> QED
        BY <4>2
    <3>4. Short(in, 3) \in Nat /\ Short(in, 3 + 2) \in Nat /\ Short(in, 3 + 4) \in Nat /\ Short(in, 3 + 4 + 2) \in Nat
      BY <3>3, ShortNat
    <3>5. Int32(in, 3) \in Nat /\ Int32(in, 3 + 4) \in Nat
      BY <3>4, SMT DEF Int32
    <3>6. Int64(in, 3) \in Nat
      BY <3>5, SMT DEF Int64
    <3> QED
      BY <3>1, <3>6
  <2> QED
    BY <1>2, <2>1, <2>2, <2>3
<1>6. ASSUME Len(in) >= h, Len(in) >= h + b PROVE payloadData(in) \in Seq(Octets)
  <2> DEFINE payload == SubSeq(in, h + 1, h + b)
             key == SubSeq(in, h - 3, h)
  <2>1. b \in Nat /\ h \in Nat
    BY <1>4, <1>5, <1>6
  <2>2. payload \in Seq(Octets) /\ Len(payload) = (h + b) - h
    BY <1>1, <1>6, <2>1, Slice
  <2>3. Len(payload) = b
    BY <2>1, <2>2
  <2>4. payloadData(in) = IF mask(in) THEN unmaskData(payload, key) ELSE payload
    BY DEF payloadData, h, b
  <2> HIDE DEF b, payload, key
  <2>5. CASE ~mask(in)
    BY <2>2, <2>4, <2>5
  <2>6. CASE mask(in)
    <3>1. \A i \in 1..4 : key[i] \in Octets
      <4>1. h - 4 \in Nat /\ h - 4 <= h /\ h <= Len(in) /\ (h - 4) + 1 = h - 3 /\ h - (h - 4) = 4
        BY <1>4, <1>6, <2>6
      <4>2. SubSeq(in, (h - 4) + 1, h) \in Seq(Octets) /\ Len(SubSeq(in, (h - 4) + 1, h)) = h - (h - 4)
        BY <2>1, <4>1, Slice
      <4>3. key \in Seq(Octets) /\ Len(key) = 4
        BY <4>1, <4>2 DEF key
      <4> QED
        BY <4>3, ElementOfSeq
    <3>2. ASSUME NEW i \in 1..Len(payload) PROVE XorByte(payload[i], key[1 + ((i - 1) % 4)]) \in Octets
      <4>1. payload[i] \in Octets /\ 1 + ((i - 1) % 4) \in 1..4
        BY <2>1, <2>2, <2>3, ElementOfSeq
      <4> QED
        BY <3>1, <4>1, XorAssumption
    <3>3. unmaskData(payload, key) \in [1..Len(payload) -> Octets]
      BY <3>2 DEF unmaskData
    <3>4. unmaskData(payload, key) \in Seq(Octets)
      BY <2>1, <2>3, <3>3, SeqDef
    <3> QED
      BY <2>4, <2>6, <3>4
  <2> QED
    BY <2>5, <2>6
<1> QED
  BY <1>2, <1>4, <1>5, <1>6, <1>p, <1>b DEF h

\* The number that eight bytes from the third on stand for.
LEMMA LongValue ==
  ASSUME NEW in, NEW n \in Nat, n <= INT32_MAX, \A j \in 1..8 : in[2 + j] = LongDigits(n)[j]
  PROVE  Int64(in, 3) = n /\ in[3] = 0
<1> DEFINE m == n \div 256
           l == m \div 256
           k == l \div 256
           d == <<0, 0, 0, 0, k % 256, l % 256, m % 256, n % 256>>
<1>1. LongDigits(n) = d
  BY DEF LongDigits
<1>2. /\ n \in Nat /\ m \in Nat /\ l \in Nat /\ k \in Nat
      /\ n % 256 = n - 256 * m /\ m % 256 = m - 256 * l /\ l % 256 = l - 256 * k
  OBVIOUS
<1>3. k < 256
  BY SMT DEF INT32_MAX
<1>4. k % 256 = k
  BY <1>2, <1>3
<1>5. \A j \in 1..8 : in[2 + j] = d[j]
  BY <1>1
<1> DEFINE a == m % 256
           b == l % 256
           c == n % 256
           e == k % 256
<1>6. /\ a \in Nat /\ b \in Nat /\ c \in Nat /\ n = 256 * m + c /\ m = 256 * l + a /\ l = 256 * k + b
      /\ d = <<0, 0, 0, 0, e, b, a, c>> /\ e = k
  BY <1>2, <1>4
<1> HIDE DEF d, a, b, c, e, m, l, k
<1>7. /\ d[1] = 0 /\ d[2] = 0 /\ d[3] = 0 /\ d[4] = 0
      /\ d[5] = k /\ d[6] = b /\ d[7] = a /\ d[8] = c
  BY <1>6
<1>8. /\ in[3] = d[1] /\ in[3 + 1] = d[2] /\ in[3 + 2] = d[3] /\ in[3 + 2 + 1] = d[4]
      /\ in[3 + 4] = d[5] /\ in[3 + 4 + 1] = d[6] /\ in[3 + 4 + 2] = d[7] /\ in[3 + 4 + 2 + 1] = d[8]
  <2>1. /\ in[2 + 1] = d[1] /\ in[2 + 2] = d[2] /\ in[2 + 3] = d[3] /\ in[2 + 4] = d[4]
        /\ in[2 + 5] = d[5] /\ in[2 + 6] = d[6] /\ in[2 + 7] = d[7] /\ in[2 + 8] = d[8]
    BY <1>5
  <2>2. /\ 2 + 1 = 3 /\ 2 + 2 = 3 + 1 /\ 2 + 3 = 3 + 2 /\ 2 + 4 = 3 + 2 + 1 /\ 2 + 5 = 3 + 4
        /\ 2 + 6 = 3 + 4 + 1 /\ 2 + 7 = 3 + 4 + 2 /\ 2 + 8 = 3 + 4 + 2 + 1
    OBVIOUS
  <2> QED
    BY <2>1, <2>2
<1>9. Int32(in, 3) = 0
  BY <1>7, <1>8, SMT DEF Int32, Short
<1>10. Int32(in, 3 + 4) = 65536 * (256 * k + b) + (256 * a + c)
  BY <1>7, <1>8, SMT DEF Int32, Short
<1>11. 65536 * (256 * k + b) + (256 * a + c) = n
  BY <1>2, <1>6, SMT
<1>12. Int64(in, 3) = n
  BY <1>2, <1>9, <1>10, <1>11, SMT DEF Int64
<1> QED
  BY <1>7, <1>8, <1>12

\* The bytes in the input buffer are those of the frame, as far as both go.
Begins(in, F) == \A i \in 1..Len(in) : i <= Len(F) => in[i] = F[i]

\* What decodePackage makes of the header of a client's frame: an empty frame's
\* two flag bytes are not counted.
LEMMA FrameHeader ==
  ASSUME NEW sc, NEW f \in Frames, Len(ClientData(sc, f)) <= INT32_MAX,
         NEW in \in Seq(Octets), Len(in) >= 6, Begins(in, ClientFrame(sc, f))
  PROVE  LET n   == Len(ClientData(sc, f))
             ext == ExtendedLength(n)
         IN /\ mask(in) <=> f.key # <<>>
            /\ n = 0 => headerSize(in) = Len(f.key) /\ bodyLength(in) = 0 /\ ~illegalLength(in)
            /\ n > 0 => /\ headerSize(in) = 2 + Len(ext) + Len(f.key)
                        /\ Len(in) >= headerSize(in) => bodyLength(in) = n /\ ~illegalLength(in)
            /\ n > 0 \/ Len(f.key) = 4 => in[1] = (IF f.fin THEN 128 ELSE 0) + f.op
            /\ in[1] = (IF f.fin THEN 128 ELSE 0) + f.op
<1> DEFINE F == ClientFrame(sc, f)
           n == Len(ClientData(sc, f))
           ext == ExtendedLength(n)
           K == Len(f.key)
           p == payloadLength(in)
<1>1. /\ F \in Seq(Octets) /\ Len(F) = 2 + Len(ext) + K + n
      /\ K = IF f.key = <<>> THEN 0 ELSE 4
      /\ F[1] = (IF f.fin THEN 128 ELSE 0) + f.op
      /\ F[2] = (IF f.key # <<>> THEN 128 ELSE 0) + ClientLength(n)
      /\ \A i \in 1..Len(ext) : F[2 + i] = ext[i]
  <2>1. InLayout(F, f, ClientData(sc, f))
    BY FrameLayout
  <2> QED
    BY <2>1 DEF InLayout
<1>2. n \in Nat /\ n <= INT32_MAX
  BY ClientDataType
<1>a. \A i \in 1..Len(in) : i <= Len(F) => in[i] = F[i]
  BY DEF Begins
<1>b. Len(in) \in Nat
  BY LenProperties
<1> HIDE DEF n, F
<1>3. /\ ext \in Seq(Octets)
      /\ Len(ext) = IF n < 126 THEN 0 ELSE IF n <= UINT16_MAX THEN 2 ELSE 8
      /\ ClientLength(n) = IF n < 126 THEN n ELSE IF n <= UINT16_MAX THEN 126 ELSE 127
  BY <1>2, ExtendedLengthType
<1>4. ext = IF n < 126 THEN <<>> ELSE IF n <= UINT16_MAX THEN <<n \div 256, n % 256>> ELSE LongDigits(n)
  <2>1. n \in 126..UINT16_MAX <=> ~(n < 126) /\ n <= UINT16_MAX
    BY <1>2, LimitAssumption, SMTT(30)
  <2> QED
    BY <2>1, SMTT(30) DEF ExtendedLength
<1> HIDE DEF ext
<1>5. Len(ext) \in Nat /\ K \in Nat /\ Len(F) >= 2 /\ ClientLength(n) \in 0..127
  BY <1>1, <1>2, <1>3
<1>6. in[1] = F[1] /\ in[2] = F[2]
  BY <1>a, <1>b, <1>5
<1>7. (mask(in) <=> f.key # <<>>) /\ p = ClientLength(n)
  <2>1. in[2] = (IF f.key # <<>> THEN 128 ELSE 0) + ClientLength(n)
    BY <1>1, <1>6
  <2> DEFINE x == in[2]
             q == ClientLength(n)
             c == IF f.key # <<>> THEN 128 ELSE 0
  <2>2. x = c + q /\ q \in 0..127 /\ (mask(in) <=> x >= 128) /\ p = x % 128
    BY <1>5, <2>1 DEF mask, payloadLength
  <2>3. (f.key # <<>> => c = 128) /\ (f.key = <<>> => c = 0)
    OBVIOUS
  <2> HIDE DEF x, q, c, p
  <2>4. (mask(in) <=> f.key # <<>>) /\ p = q
    <3>1. CASE f.key # <<>>
      <4>1. x = 128 + q /\ q \in 0..127
        BY <2>2, <2>3, <3>1
      <4>2. x >= 128 /\ x % 128 = q
        BY <4>1
      <4> QED
        BY <2>2, <3>1, <4>2
    <3>2. CASE f.key = <<>>
      <4>1. x = 0 + q /\ q \in 0..127
        BY <2>2, <2>3, <3>2
      <4>2. ~(x >= 128) /\ x % 128 = q
        BY <4>1
      <4> QED
        BY <2>2, <3>2, <4>2
    <3> QED
      BY <3>1, <3>2
  <2> QED
    BY <2>4 DEF q
<1>p. p = payloadLength(in)
  OBVIOUS
<1> HIDE DEF p
<1>8. headerSize(in) = K + (IF p = 0 THEN 0 ELSE 2) + (IF p = 126 THEN 2 ELSE 0) + (IF p = 127 THEN 8 ELSE 0)
  <2> DEFINE m == IF mask(in) THEN 4 ELSE 0
  <2>1. m = K
    BY <1>1, <1>7
  <2>2. headerSize(in) = m + (IF p = 0 THEN 0 ELSE 2) + (IF p = 126 THEN 2 ELSE 0) + (IF p = 127 THEN 8 ELSE 0)
    BY <1>p DEF headerSize
  <2> HIDE DEF m
  <2> QED
    BY <2>1, <2>2
<1>9. ASSUME n = 0 PROVE headerSize(in) = K /\ bodyLength(in) = 0 /\ ~illegalLength(in)
  <2>1. p = 0
    BY <1>3, <1>7, <1>9
  <2>2. bodyLength(in) = p
    BY <2>1, <1>p DEF bodyLength
  <2> QED
    BY <1>5, <1>8, <1>p, <2>1, <2>2 DEF illegalLength
<1>10. ASSUME n > 0 PROVE headerSize(in) = 2 + Len(ext) + K
  <2>1. CASE n < 126
    <3>1. p # 0 /\ p # 126 /\ p # 127 /\ Len(ext) = 0
      BY <1>2, <1>3, <1>7, <1>10, <2>1
    <3> QED
      BY <1>5, <1>8, <3>1
  <2>2. CASE ~(n < 126) /\ n <= UINT16_MAX
    <3>1. p # 0 /\ p = 126 /\ p # 127 /\ Len(ext) = 2
      BY <1>3, <1>7, <2>2
    <3> QED
      BY <1>5, <1>8, <3>1
  <2>3. CASE ~(n < 126) /\ ~(n <= UINT16_MAX)
    <3>1. p # 0 /\ p # 126 /\ p = 127 /\ Len(ext) = 8
      BY <1>3, <1>7, <2>3
    <3> QED
      BY <1>5, <1>8, <3>1
  <2> QED
    BY <2>1, <2>2, <2>3
<1>11. ASSUME n > 0, Len(in) >= headerSize(in) PROVE bodyLength(in) = n /\ ~illegalLength(in)
  <2>1. headerSize(in) = 2 + Len(ext) + K
    BY <1>10, <1>11
  <2>2. ASSUME NEW i \in 1..Len(ext) PROVE in[2 + i] = ext[i]
    <3>1. 2 + i \in 1..Len(in) /\ 2 + i <= Len(F)
      BY <1>1, <1>2, <1>5, <1>11, <1>b, <2>1, SMTT(30)
    <3> QED
      BY <1>1, <1>a, <3>1
  <2>3. CASE n < 126
    <3>1. p = n /\ p <= 125 /\ p # 126 /\ p # 127
      BY <1>2, <1>3, <1>7, <2>3
    <3>2. bodyLength(in) = p
      BY <3>1, <1>p DEF bodyLength
    <3> QED
      BY <3>1, <3>2, <1>p DEF illegalLength
  <2>4. CASE ~(n < 126) /\ n <= UINT16_MAX
    <3>1. p = 126 /\ ext = <<n \div 256, n % 256>> /\ Len(ext) = 2
      BY <1>3, <1>4, <1>7, <2>4
    <3>2. ext[1] = n \div 256 /\ ext[2] = n % 256
      BY <3>1
    <3>3. in[3] = n \div 256 /\ in[3 + 1] = n % 256
      <4>1. in[2 + 1] = ext[1] /\ in[2 + 2] = ext[2] /\ 2 + 1 = 3 /\ 2 + 2 = 3 + 1
        BY <2>2, <3>1
      <4> QED
        BY <3>2, <4>1
    <3>4. bodyLength(in) = Short(in, 3)
      BY <3>1, <1>p DEF bodyLength
    <3>5. n % 256 = n - 256 * (n \div 256) /\ n \div 256 \in Nat
      BY <1>2, SMTT(30)
    <3>6. bodyLength(in) = n /\ n \in 126..UINT16_MAX
      BY <1>2, <2>4, <3>3, <3>4, <3>5, LimitAssumption, SMTT(30) DEF Short
    <3> QED
      BY <3>1, <3>6, <1>p DEF illegalLength
  <2>5. CASE ~(n < 126) /\ ~(n <= UINT16_MAX)
    <3>1. p = 127 /\ ext = LongDigits(n) /\ Len(ext) = 8
      BY <1>3, <1>4, <1>7, <2>5
    <3>2. \A j \in 1..8 : in[2 + j] = LongDigits(n)[j]
      BY <2>2, <3>1
    <3>3. Int64(in, 3) = n /\ in[3] = 0
      BY <1>2, <3>2, LongValue
    <3>4. bodyLength(in) = n
      BY <3>1, <3>3, <1>p DEF bodyLength
    <3> QED
      BY <2>5, <3>1, <3>3, <3>4, <1>p DEF illegalLength
  <2> QED
    BY <2>3, <2>4, <2>5
<1>12. in[1] = (IF f.fin THEN 128 ELSE 0) + f.op
  BY <1>1, <1>6
<1> QED
  BY <1>7, <1>9, <1>10, <1>11, <1>12 DEF n, ext

\* Unmasking gives the client's data back.
LEMMA PayloadIsData ==
  ASSUME NEW sc, NEW f \in Frames, Len(ClientData(sc, f)) <= INT32_MAX, Len(ClientData(sc, f)) > 0,
         NEW in \in Seq(Octets), Len(in) >= 6, Begins(in, ClientFrame(sc, f)),
         Len(in) >= Len(ClientFrame(sc, f))
  PROVE  payloadData(in) = ClientData(sc, f)
<1> DEFINE F == ClientFrame(sc, f)
           data == ClientData(sc, f)
           n == Len(data)
           ext == ExtendedLength(n)
           A == Len(ext)
           K == Len(f.key)
           h == headerSize(in)
           payload == SubSeq(in, h + 1, h + n)
           key == SubSeq(in, h - 3, h)
<1>1. /\ Len(F) = 2 + A + K + n /\ K = IF f.key = <<>> THEN 0 ELSE 4
      /\ \A i \in 1..K : F[2 + A + i] = f.key[i]
      /\ \A i \in 1..n : F[2 + A + K + i] =
            IF f.key = <<>> THEN data[i] ELSE XorByte(data[i], f.key[1 + ((i - 1) % 4)])
  <2>1. InLayout(F, f, ClientData(sc, f))
    BY FrameLayout
  <2> QED
    BY <2>1 DEF InLayout
<1>2. data \in Seq(Octets) /\ n \in Nat /\ n > 0
  BY ClientDataType
<1>3. \A i \in 1..Len(in) : i <= Len(F) => in[i] = F[i]
  BY DEF Begins
<1>4. Len(in) \in Nat /\ Len(in) >= Len(F)
  BY LenProperties
<1>5. ext \in Seq(Octets)
  BY <1>2, ExtendedLengthType
<1>6. A \in Nat /\ K \in Nat
  BY <1>1, <1>5, LenProperties
<1>7. (mask(in) <=> f.key # <<>>) /\ h = 2 + A + K
  BY <1>2, FrameHeader
<1>8. bodyLength(in) = n
  <2>1. Len(in) >= headerSize(in)
    BY <1>1, <1>2, <1>4, <1>6, <1>7
  <2> QED
    BY <1>2, <2>1, FrameHeader
<1>9. payloadData(in) = IF mask(in) THEN unmaskData(payload, key) ELSE payload
  BY <1>8 DEF payloadData
<1> HIDE DEF F, data, n, ext, A, K, h
<1>10. h \in Nat /\ h + n <= Len(in) /\ h + n \in Nat /\ h <= h + n /\ (h + n) - h = n
  BY <1>1, <1>2, <1>4, <1>6, <1>7
<1>11. payload \in Seq(Octets) /\ Len(payload) = n /\ \A i \in 1..n : payload[i] = in[h + i]
  <2>1. /\ payload \in Seq(Octets) /\ Len(payload) = (h + n) - h
        /\ \A i \in 1..((h + n) - h) : payload[i] = in[h + i]
    BY <1>10, Slice
  <2> HIDE DEF payload
  <2> QED
    BY <1>10, <2>1
<1>12. ASSUME NEW i \in 1..n
       PROVE  payload[i] = IF f.key = <<>> THEN data[i] ELSE XorByte(data[i], f.key[1 + ((i - 1) % 4)])
  <2>1. h + i \in 1..Len(in) /\ h + i <= Len(F) /\ h + i = 2 + A + K + i
    BY <1>1, <1>2, <1>4, <1>6, <1>7
  <2>2. in[h + i] = F[2 + A + K + i]
    BY <1>3, <2>1
  <2> QED
    BY <1>1, <1>11, <2>2
<1> HIDE DEF payload
<1>13. CASE f.key = <<>>
  <2>1. payload = data
    BY <1>2, <1>11, <1>12, <1>13, SeqEqual DEF n
  <2> QED
    BY <1>7, <1>9, <1>13, <2>1 DEF data
<1>14. CASE f.key # <<>>
  <2>1. f.key \in [1..4 -> Octets] /\ K = 4
    BY <1>1, <1>14 DEF Frames
  <2>2. ASSUME NEW j \in 1..4 PROVE key[j] = f.key[j]
    <3>1. h - 4 \in Nat /\ h - 4 <= h /\ h <= Len(in) /\ (h - 4) + 1 = h - 3 /\ h - (h - 4) = 4
      BY <1>2, <1>6, <1>7, <1>10, <2>1
    <3>2. \A i \in 1..(h - (h - 4)) : SubSeq(in, (h - 4) + 1, h)[i] = in[(h - 4) + i]
      BY <1>10, <3>1, Slice
    <3>3. key[j] = in[(h - 4) + j]
      BY <3>1, <3>2
    <3>4. (h - 4) + j = 2 + A + j /\ 2 + A + j \in 1..Len(in) /\ 2 + A + j <= Len(F)
      BY <1>1, <1>2, <1>4, <1>6, <1>7, <2>1
    <3> QED
      BY <1>1, <1>3, <2>1, <3>3, <3>4
  <2> HIDE DEF key
  <2>3. ASSUME NEW i \in 1..n PROVE XorByte(payload[i], key[1 + ((i - 1) % 4)]) = data[i]
    <3> DEFINE j == 1 + ((i - 1) % 4)
    <3>1. j \in 1..4
      BY <1>2
    <3>2. data[i] \in Octets
      BY <1>2, ElementOfSeq DEF n
    <3>3. payload[i] = XorByte(data[i], f.key[j]) /\ key[j] = f.key[j] /\ f.key[j] \in Octets
      BY <1>12, <1>14, <2>1, <2>2, <3>1
    <3> HIDE DEF j
    <3>4. XorByte(payload[i], key[j]) = data[i]
      BY <3>2, <3>3, XorAssumption
    <3> QED
      BY <3>4 DEF j
  <2>4. unmaskData(payload, key) = [i \in 1..n |-> data[i]]
    BY <1>11, <2>3 DEF unmaskData
  <2>5. data = [i \in 1..n |-> data[i]]
    <3>1. data \in [1..n -> Octets]
      BY <1>2, LenProperties DEF n
    <3> QED
      BY <3>1
  <2> QED
    BY <1>7, <1>9, <1>14, <2>4, <2>5 DEF data
<1> QED
  BY <1>13, <1>14

-----------------------------------------------------------------------------
(* What the session sends *)

\* The fields of the connection and its session.
ConnType ==
    [state_ : {"kConnected", "kDisconnecting", "kDisconnected"}, polled : BOOLEAN,
     closing : BOOLEAN, inputBuffer_ : Seq(Octets), session : {"live", "erased"},
     m_bUpdateToWebSocket : BOOLEAN, m_bClientCompressed : BOOLEAN,
     m_strParsedData : Seq(Octets), decoded : Nat, sent : Seq(Seq(Octets)),
     dropped : BOOLEAN, ub : BOOLEAN]

\* What a reply is not about.
OnlySends(t, r) ==
    /\ r.state_ = t.state_ /\ r.polled = t.polled /\ r.closing = t.closing
    /\ r.inputBuffer_ = t.inputBuffer_ /\ r.session = t.session
    /\ r.m_bUpdateToWebSocket = t.m_bUpdateToWebSocket
    /\ r.m_bClientCompressed = t.m_bClientCompressed
    /\ r.m_strParsedData = t.m_strParsedData /\ r.decoded = t.decoded /\ r.ub = t.ub

\* deflate adds a byte, which inflate takes away.
LEMMA DeflateType ==
  ASSUME NEW d \in Seq(Octets)
  PROVE  /\ Deflate(d) \in Seq(Octets) /\ Deflate(d) # <<>> /\ Inflatable(Deflate(d))
         /\ Inflate(Deflate(d)) = d /\ Len(Deflate(d)) = Len(d) + 1
<1> DEFINE a == <<250>>
           x == a \o d
<1>1. a \in Seq(Octets) /\ Len(a) = 1 /\ a[1] = 250
  BY DEF Octets
<1>2. Len(d) \in Nat
  BY LenProperties
<1>3. x = Deflate(d)
  BY DEF Deflate
<1> HIDE DEF a
<1>4. /\ x \in Seq(Octets) /\ Len(x) = Len(a) + Len(d)
      /\ \A i \in 1..(Len(a) + Len(d)) : x[i] = IF i <= Len(a) THEN a[i] ELSE d[i - Len(a)]
  <2>1. a \in Seq(Octets)
    BY <1>1
  <2>2. d \in Seq(Octets)
    OBVIOUS
  <2> QED
    BY <2>1, <2>2, ConcatProperties
<1> HIDE DEF x
<1>5. Len(x) = Len(d) + 1 /\ x[1] = 250
  BY <1>1, <1>2, <1>4
<1>6. x # <<>>
  BY <1>2, <1>4, <1>5, EmptySeq
<1>7. \A i \in 1..Len(d) : x[i + 1] = d[i]
  <2> TAKE i \in 1..Len(d)
  <2>1. i + 1 \in 1..(Len(a) + Len(d)) /\ ~(i + 1 <= Len(a)) /\ (i + 1) - Len(a) = i
    BY <1>1, <1>2
  <2> QED
    BY <1>4, <2>1
<1>8. Tail(x) \in Seq(Octets) /\ Len(Tail(x)) = Len(x) - 1 /\ \A i \in 1..Len(Tail(x)) : Tail(x)[i] = x[i + 1]
  BY <1>4, <1>6, HeadTailProperties
<1>9. Tail(x) = d
  <2> DEFINE y == Tail(x)
  <2>1. y \in Seq(Octets) /\ Len(y) = Len(d) /\ \A i \in 1..Len(y) : y[i] = x[i + 1]
    BY <1>2, <1>5, <1>8
  <2> HIDE DEF y
  <2>2. \A i \in 1..Len(y) : y[i] = d[i]
    BY <1>7, <2>1
  <2>3. y = d
    BY <2>1, <2>2, SeqEqual
  <2> QED
    BY <2>3 DEF y
<1> QED
  BY <1>3, <1>4, <1>5, <1>6, <1>9 DEF Inflatable, Inflate

\* The header of a reply.
LEMMA ReplyHeader ==
  ASSUME NEW b0 \in Octets, NEW n \in Nat
  PROVE  LET h == frameHeader(b0, n)
             ext == ExtendedLength(n)
         IN /\ h \in Seq(Octets) /\ Len(h) = 2 + Len(ext)
            /\ h[1] = b0 /\ h[2] = ClientLength(n) /\ \A i \in 1..Len(ext) : h[2 + i] = ext[i]
<1> DEFINE h == frameHeader(b0, n)
           ext == ExtendedLength(n)
           c == <<b0, ClientLength(n)>>
           x == c \o ext
<1>1. ext \in Seq(Octets) /\ Len(ext) \in Nat
  BY ExtendedLengthType, LenProperties
<1>2. ClientLength(n) \in Octets
  <2>1. ClientLength(n) = IF n < 126 THEN n ELSE IF n <= UINT16_MAX THEN 126 ELSE 127
    BY ExtendedLengthType
  <2> QED
    BY <2>1 DEF Octets
<1>3. c \in Seq(Octets) /\ Len(c) = 2 /\ c[1] = b0 /\ c[2] = ClientLength(n)
  BY <1>2
<1>4. h = x
  <2>1. CASE n < 126
    <3>1. h = <<b0, n>> /\ c = <<b0, n>> /\ ext = <<>>
      BY <2>1, SMTT(30) DEF frameHeader, ClientLength, ExtendedLength
    <3>2. c \o <<>> = c
      BY <1>3, ConcatEmptySeq, SMTT(30)
    <3> QED
      BY <3>1, <3>2
  <2>2. CASE n \in 126..UINT16_MAX
    <3>1. ~(n < 126)
      BY <2>2, LimitAssumption, SMTT(30)
    <3>2. h = <<b0, 126, n \div 256, n % 256>> /\ c = <<b0, 126>> /\ ext = <<n \div 256, n % 256>>
      BY <2>2, <3>1 DEF frameHeader, ClientLength, ExtendedLength
    <3> QED
      BY <3>2, SMTT(30)
  <2>3. CASE ~(n < 126) /\ ~(n \in 126..UINT16_MAX)
    BY <2>3 DEF frameHeader, ClientLength, ExtendedLength
  <2> QED
    BY <2>1, <2>2, <2>3
<1> HIDE DEF h, ext, c
<1>5. /\ x \in Seq(Octets) /\ Len(x) = Len(c) + Len(ext)
      /\ \A i \in 1..(Len(c) + Len(ext)) : x[i] = IF i <= Len(c) THEN c[i] ELSE ext[i - Len(c)]
  BY <1>1, <1>3, ConcatProperties
<1> HIDE DEF x
<1>6. x[1] = b0 /\ x[2] = ClientLength(n)
  BY <1>1, <1>3, <1>5
<1>7. \A i \in 1..Len(ext) : x[2 + i] = ext[i]
  <2> TAKE i \in 1..Len(ext)
  <2>1. 2 + i \in 1..(Len(c) + Len(ext)) /\ ~(2 + i <= Len(c)) /\ (2 + i) - Len(c) = i
    BY <1>1, <1>3
  <2> QED
    BY <1>5, <2>1
<1> QED
  BY <1>3, <1>4, <1>5, <1>6, <1>7 DEF h, ext

\* The client reads back what a reply is made of.
LEMMA ReadsBack ==
  ASSUME NEW d \in Seq(Octets), Len(d) <= INT32_MAX, NEW op \in {TEXT_FRAME, PONG}, NEW rsv1 \in {0, 64}
  PROVE  LET bytes == frameHeader(128 + op + rsv1, Len(d)) \o d
         IN /\ bytes \in Seq(Octets)
            /\ ClientReads(bytes) = Reply(op, IF rsv1 = 64 /\ d # <<>> THEN Inflate(d) ELSE d)
<1> DEFINE n == Len(d)
           b0 == 128 + op + rsv1
           ext == ExtendedLength(n)
           h == frameHeader(b0, n)
           bytes == h \o d
<1>1. n \in Nat /\ n <= INT32_MAX
  BY LenProperties
<1>2. /\ b0 \in Octets /\ b0 >= 128 /\ b0 % 16 = op
      /\ (b0 \div 64) % 2 = 1 <=> rsv1 = 64
  <2>1. op = 1 \/ op = 10
    BY DEF TEXT_FRAME, PONG
  <2>2. (op = 1 /\ rsv1 = 0) \/ (op = 1 /\ rsv1 = 64) \/ (op = 10 /\ rsv1 = 0) \/ (op = 10 /\ rsv1 = 64)
    BY <2>1
  <2>3. CASE op = 1 /\ rsv1 = 0
    BY <2>3 DEF Octets
  <2>4. CASE op = 1 /\ rsv1 = 64
    BY <2>4 DEF Octets
  <2>5. CASE op = 10 /\ rsv1 = 0
    BY <2>5 DEF Octets
  <2>6. CASE op = 10 /\ rsv1 = 64
    BY <2>6 DEF Octets
  <2> QED
    BY <2>2, <2>3, <2>4, <2>5, <2>6
<1> HIDE DEF b0, n
<1>3. /\ h \in Seq(Octets) /\ Len(h) = 2 + Len(ext)
      /\ h[1] = b0 /\ h[2] = ClientLength(n) /\ \A i \in 1..Len(ext) : h[2 + i] = ext[i]
  BY <1>1, <1>2, ReplyHeader
<1>4. /\ ext \in Seq(Octets)
      /\ Len(ext) = IF n < 126 THEN 0 ELSE IF n <= UINT16_MAX THEN 2 ELSE 8
      /\ ClientLength(n) = IF n < 126 THEN n ELSE IF n <= UINT16_MAX THEN 126 ELSE 127
  BY <1>1, ExtendedLengthType
<1>5. ext = IF n < 126 THEN <<>> ELSE IF n <= UINT16_MAX THEN <<n \div 256, n % 256>> ELSE LongDigits(n)
  <2>1. n \in 126..UINT16_MAX <=> ~(n < 126) /\ n <= UINT16_MAX
    BY <1>1, LimitAssumption, SMTT(30)
  <2> QED
    BY <2>1, SMTT(30) DEF ExtendedLength
<1> HIDE DEF ext, h
<1>6. Len(ext) \in Nat /\ Len(h) \in Nat /\ Len(h) >= 2
  BY <1>3, <1>4
<1>7. /\ bytes \in Seq(Octets) /\ Len(bytes) = Len(h) + Len(d)
      /\ \A i \in 1..(Len(h) + Len(d)) : bytes[i] = IF i <= Len(h) THEN h[i] ELSE d[i - Len(h)]
  <2>1. h \in Seq(Octets)
    BY <1>3
  <2>2. d \in Seq(Octets)
    OBVIOUS
  <2> QED
    BY <2>1, <2>2, ConcatProperties
<1> HIDE DEF bytes
<1>8. Len(bytes) = Len(h) + n /\ Len(bytes) \in Nat
  BY <1>1, <1>6, <1>7 DEF n
<1>9. \A i \in 1..Len(h) : bytes[i] = h[i]
  BY <1>1, <1>6, <1>7 DEF n
<1>10. \A i \in 1..n : bytes[Len(h) + i] = d[i]
  <2> TAKE i \in 1..n
  <2>1. Len(h) + i \in 1..(Len(h) + n) /\ ~(Len(h) + i <= Len(h)) /\ (Len(h) + i) - Len(h) = i
    BY <1>1, <1>6
  <2> QED
    BY <1>7, <2>1 DEF n
<1>11. bytes[1] = b0 /\ bytes[2] = ClientLength(n)
  BY <1>3, <1>6, <1>9
<1>12. \A i \in 1..Len(ext) : bytes[2 + i] = ext[i]
  <2> TAKE i \in 1..Len(ext)
  <2>1. 2 + i \in 1..Len(h)
    BY <1>3, <1>6
  <2> QED
    BY <1>3, <1>9, <2>1
<1> DEFINE len7 == bytes[2]
           head == CASE len7 < 126 -> 2 [] len7 = 126 -> 4 [] OTHER -> 10
           size == CASE len7 < 126 -> len7 [] len7 = 126 -> Short(bytes, 3) [] OTHER -> Int64(bytes, 3)
           body == SubSeq(bytes, head + 1, Len(bytes))
<1>13. head = Len(h) /\ size = n
  <2>1. CASE n < 126
    <3>1. len7 = n /\ len7 < 126 /\ Len(h) = 2
      BY <1>3, <1>4, <1>11, <2>1
    <3> HIDE DEF len7
    <3>2. head = 2 /\ size = len7
      BY <3>1
    <3> HIDE DEF head, size
    <3> QED
      BY <3>1, <3>2
  <2>2. CASE ~(n < 126) /\ n <= UINT16_MAX
    <3>1. len7 = 126 /\ Len(h) = 4 /\ Len(ext) = 2 /\ ext = <<n \div 256, n % 256>>
      BY <1>3, <1>4, <1>5, <1>11, <2>2
    <3>2. bytes[3] = n \div 256 /\ bytes[3 + 1] = n % 256
      <4>1. bytes[2 + 1] = ext[1] /\ bytes[2 + 2] = ext[2] /\ 2 + 1 = 3 /\ 2 + 2 = 3 + 1
        BY <1>12, <3>1
      <4>2. ext[1] = n \div 256 /\ ext[2] = n % 256
        BY <3>1
      <4> QED
        BY <4>1, <4>2
    <3>3. n % 256 = n - 256 * (n \div 256) /\ n \div 256 \in Nat
      BY <1>1
    <3>4. Short(bytes, 3) = n
      BY <1>1, <3>2, <3>3 DEF Short
    <3>5. ~(len7 < 126)
      BY <3>1
    <3> HIDE DEF len7
    <3>6. head = 4 /\ size = Short(bytes, 3)
      BY <3>1, <3>5
    <3> HIDE DEF head, size
    <3> QED
      BY <3>1, <3>4, <3>6
  <2>3. CASE ~(n < 126) /\ ~(n <= UINT16_MAX)
    <3>1. len7 = 127 /\ Len(h) = 10 /\ Len(ext) = 8 /\ ext = LongDigits(n)
      BY <1>3, <1>4, <1>5, <1>11, <2>3
    <3>2. Int64(bytes, 3) = n
      <4>1. \A j \in 1..8 : bytes[2 + j] = LongDigits(n)[j]
        BY <1>12, <3>1
      <4> QED
        BY <1>1, <4>1, LongValue
    <3>3. ~(len7 < 126) /\ len7 # 126
      BY <3>1
    <3> HIDE DEF len7
    <3>4. head = 10 /\ size = Int64(bytes, 3)
      BY <3>1, <3>3
    <3> HIDE DEF head, size
    <3> QED
      BY <3>1, <3>2, <3>4
  <2> QED
    BY <2>1, <2>2, <2>3
<1>14. body = d
  <2> HIDE DEF head
  <2>1. Len(h) <= Len(bytes) /\ Len(bytes) - Len(h) = n
    BY <1>1, <1>6, <1>8
  <2> DEFINE y == SubSeq(bytes, Len(h) + 1, Len(bytes))
  <2>2. y \in Seq(Octets) /\ Len(y) = Len(bytes) - Len(h) /\ \A i \in 1..(Len(bytes) - Len(h)) : y[i] = bytes[Len(h) + i]
    BY <1>6, <1>7, <1>8, <2>1, Slice, SMTT(30)
  <2>3. body = y
    BY <1>13
  <2> HIDE DEF y
  <2>4. Len(y) = Len(d) /\ \A i \in 1..Len(y) : y[i] = d[i]
    BY <1>10, <2>1, <2>2 DEF n
  <2>5. y = d
    BY <2>2, <2>4, SeqEqual
  <2> QED
    BY <2>3, <2>5
<1>15. ClientReads(bytes) = [fin |-> bytes[1] >= 128, op |-> bytes[1] % 16, whole |-> size = Len(body),
                             msg |-> IF (bytes[1] \div 64) % 2 = 1 /\ body # <<>> THEN Inflate(body) ELSE body]
  BY DEF ClientReads
<1> HIDE DEF size, body
<1>16. size = Len(body)
  BY <1>13, <1>14 DEF n
<1>17. ClientReads(bytes) = [fin |-> TRUE, op |-> op, whole |-> TRUE,
                             msg |-> IF rsv1 = 64 /\ d # <<>> THEN Inflate(d) ELSE d]
  <2>1. (bytes[1] >= 128) = TRUE /\ bytes[1] % 16 = op /\ (size = Len(body)) = TRUE
    BY <1>2, <1>11, <1>16
  <2>2. (IF (bytes[1] \div 64) % 2 = 1 /\ body # <<>> THEN Inflate(body) ELSE body)
           = IF rsv1 = 64 /\ d # <<>> THEN Inflate(d) ELSE d
    BY <1>2, <1>11, <1>14
  <2> QED
    BY <1>15, <2>1, <2>2
<1> QED
  BY <1>7, <1>17 DEF Reply, bytes, h, n, b0

\* A reply with this data has gone to the connection, unless deflate failed.
Replied(t, r, op, data) ==
    \/ r.dropped
    \/ \E b \in Seq(Octets) : r.sent = Append(t.sent, b) /\ ClientReads(b) = Reply(op, data)

\* send is about what is sent alone, and the client reads back what is sent.
LEMMA SendReplies ==
  ASSUME NEW t \in ConnType, NEW data \in Seq(Octets), NEW op \in {TEXT_FRAME, PONG},
         NEW deflated \in BOOLEAN
  PROVE  LET r == send(t, data, op, deflated)
         IN /\ r \in ConnType /\ OnlySends(t, r) /\ (t.dropped => r.dropped)
            /\ t.state_ = "kConnected" /\ Len(data) < INT32_MAX => Replied(t, r, op, data)
            /\ t.state_ = "kConnected" /\ ~t.m_bClientCompressed /\ Len(data) <= INT32_MAX =>
                  Replied(t, r, op, data)
<1> DEFINE packed == t.m_bClientCompressed /\ data # <<>>
           d == IF packed THEN Deflate(data) ELSE data
           rsv1 == IF t.m_bClientCompressed THEN 64 ELSE 0
           bytes == frameHeader(128 + op + rsv1, Len(d)) \o d
           r == send(t, data, op, deflated)
<1>1. rsv1 \in {0, 64} /\ (t.m_bClientCompressed <=> rsv1 = 64)
  OBVIOUS
<1>2. d \in Seq(Octets) /\ (packed => d # <<>> /\ Inflate(d) = data /\ Len(d) = Len(data) + 1)
      /\ (~packed => d = data)
  BY DeflateType
<1>3. r = IF packed /\ ~deflated THEN [t EXCEPT !.dropped = TRUE]
          ELSE IF t.state_ = "kConnected" THEN [t EXCEPT !.sent = Append(@, bytes)] ELSE t
  BY DEF send, connSend
<1>4. Len(data) \in Nat /\ Len(d) \in Nat
  BY <1>2, LenProperties
<1>5. 128 + op + rsv1 \in Octets
  <2>1. (op = 1 \/ op = 10) /\ (rsv1 = 0 \/ rsv1 = 64)
    BY <1>1 DEF TEXT_FRAME, PONG
  <2> HIDE DEF rsv1
  <2>2. op \in 1..10 /\ rsv1 \in 0..64
    BY <2>1
  <2>3. 128 + op + rsv1 \in 0..255
    BY <2>2
  <2> QED
    BY <2>3 DEF Octets
<1> HIDE DEF d, rsv1, r
<1>6. bytes \in Seq(Octets)
  <2> DEFINE h == frameHeader(128 + op + rsv1, Len(d))
  <2>1. h \in Seq(Octets)
    BY <1>4, <1>5, ReplyHeader
  <2>2. d \in Seq(Octets)
    BY <1>2
  <2> HIDE DEF h
  <2>3. h \o d \in Seq(Octets)
    BY <2>1, <2>2, ConcatProperties
  <2> QED
    BY <2>3 DEF h
<1>7. ASSUME Len(d) <= INT32_MAX PROVE ClientReads(bytes) = Reply(op, data)
  <2>1. ClientReads(bytes) = Reply(op, IF rsv1 = 64 /\ d # <<>> THEN Inflate(d) ELSE d)
    BY <1>1, <1>2, <1>7, ReadsBack
  <2>2. (IF rsv1 = 64 /\ d # <<>> THEN Inflate(d) ELSE d) = data
    BY <1>1, <1>2
  <2> QED
    BY <2>1, <2>2
<1> HIDE DEF bytes
<1>8. t.sent \in Seq(Seq(Octets)) /\ Append(t.sent, bytes) \in Seq(Seq(Octets))
  <2>1. t.sent \in Seq(Seq(Octets))
    BY DEF ConnType
  <2> QED
    BY <1>6, <2>1, AppendProperties
<1>9. r \in ConnType /\ OnlySends(t, r) /\ (t.dropped => r.dropped)
  <2>1. CASE packed /\ ~deflated
    BY <1>3, <2>1 DEF ConnType, OnlySends
  <2>2. CASE ~(packed /\ ~deflated) /\ t.state_ = "kConnected"
    BY <1>3, <1>8, <2>2 DEF ConnType, OnlySends
  <2>3. CASE ~(packed /\ ~deflated) /\ t.state_ # "kConnected"
    BY <1>3, <2>3 DEF OnlySends
  <2> QED
    BY <2>1, <2>2, <2>3
<1>10. ASSUME t.state_ = "kConnected", Len(d) <= INT32_MAX PROVE Replied(t, r, op, data)
  <2>1. CASE packed /\ ~deflated
    BY <1>3, <2>1 DEF ConnType, Replied
  <2>2. CASE ~(packed /\ ~deflated)
    <3>1. r.sent = Append(t.sent, bytes)
      BY <1>3, <1>10, <2>2 DEF ConnType
    <3> QED
      BY <1>6, <1>7, <1>10, <3>1 DEF Replied
  <2> QED
    BY <2>1, <2>2
<1>11. INT32_MAX \in Nat
  BY DEF INT32_MAX
<1>12. (Len(data) < INT32_MAX => Len(d) <= INT32_MAX)
       /\ (~t.m_bClientCompressed /\ Len(data) <= INT32_MAX => Len(d) <= INT32_MAX)
  BY <1>2, <1>4, <1>11
<1> QED
  BY <1>9, <1>10, <1>12 DEF r

\* finishFrame leaves the place in the stream alone; processed data is dropped.
LEMMA FinishKeeps ==
  ASSUME NEW t \in ConnType, NEW fin \in BOOLEAN, NEW op, NEW deflated \in BOOLEAN
  PROVE  LET p == finishFrame(t, fin, op, deflated)
         IN /\ p.t \in ConnType /\ OnlySends([t EXCEPT !.m_strParsedData = p.t.m_strParsedData], p.t)
            /\ p.ok \in BOOLEAN /\ (t.dropped => p.t.dropped)
            /\ p.ok => p.t.m_strParsedData = IF fin THEN <<>> ELSE t.m_strParsedData
<1> DEFINE data == t.m_strParsedData
           out == IF t.m_bClientCompressed THEN Inflate(data) ELSE data
           q == processPackage(t, op, deflated)
           p == finishFrame(t, fin, op, deflated)
           pong == send(t, <<>>, PONG, deflated)
           back == send(t, out, TEXT_FRAME, deflated)
<1>1. data \in Seq(Octets) /\ <<>> \in Seq(Octets)
  BY DEF ConnType
<1>2. \/ q = [ok |-> FALSE, t |-> t]
      \/ q = [ok |-> TRUE, t |-> t]
      \/ q = [ok |-> TRUE, t |-> pong]
      \/ q = [ok |-> TRUE, t |-> back] /\ (t.m_bClientCompressed => Inflatable(data))
  BY DEF processPackage
<1>3. pong \in ConnType /\ OnlySends(t, pong) /\ (t.dropped => pong.dropped)
  <2>1. PONG \in {TEXT_FRAME, PONG}
    OBVIOUS
  <2>2. <<>> \in Seq(Octets)
    BY <1>1
  <2> QED
    BY <2>1, <2>2, SendReplies
<1>4. ASSUME t.m_bClientCompressed => Inflatable(data)
      PROVE  back \in ConnType /\ OnlySends(t, back) /\ (t.dropped => back.dropped)
  <2>1. out \in Seq(Octets)
    <3>1. CASE t.m_bClientCompressed
      <4>1. data # <<>>
        BY <1>4, <3>1 DEF Inflatable
      <4>2. Tail(data) \in Seq(Octets)
        BY <1>1, <4>1, HeadTailProperties
      <4> QED
        BY <3>1, <4>2 DEF Inflate
    <3> QED
      BY <1>1, <3>1
  <2> HIDE DEF out
  <2>2. TEXT_FRAME \in {TEXT_FRAME, PONG}
    OBVIOUS
  <2> QED
    BY <2>1, <2>2, SendReplies
<1> HIDE DEF q, pong, back
<1>5. /\ q.t \in ConnType /\ OnlySends(t, q.t) /\ q.ok \in BOOLEAN /\ (t.dropped => q.t.dropped)
  <2>1. OnlySends(t, t)
    BY DEF OnlySends
  <2>2. CASE q = [ok |-> FALSE, t |-> t]
    BY <2>1, <2>2
  <2>5. CASE q = [ok |-> TRUE, t |-> t]
    BY <2>1, <2>5
  <2>3. CASE q = [ok |-> TRUE, t |-> pong]
    BY <1>3, <2>3
  <2>4. CASE q = [ok |-> TRUE, t |-> back] /\ (t.m_bClientCompressed => Inflatable(data))
    BY <1>4, <2>4
  <2> QED
    BY <1>2, <2>2, <2>3, <2>4, <2>5
<1>6. p = IF ~fin THEN [ok |-> TRUE, t |-> t]
          ELSE IF q.ok THEN [ok |-> TRUE, t |-> [q.t EXCEPT !.m_strParsedData = <<>>]] ELSE q
  BY DEF finishFrame, q
<1> HIDE DEF p
<1>7. CASE ~fin
  <2>1. p.t = t /\ p.ok = TRUE
    BY <1>6, <1>7
  <2>2. OnlySends([t EXCEPT !.m_strParsedData = t.m_strParsedData], t)
    BY DEF OnlySends, ConnType
  <2> QED
    BY <1>7, <2>1, <2>2 DEF p
<1>8. CASE fin /\ q.ok
  <2>1. p.ok = TRUE /\ p.t = [q.t EXCEPT !.m_strParsedData = <<>>]
    BY <1>6, <1>8
  <2>2. p.t \in ConnType /\ p.t.m_strParsedData = <<>> /\ p.t.dropped = q.t.dropped
    BY <1>1, <1>5, <2>1 DEF ConnType
  <2>3. OnlySends([t EXCEPT !.m_strParsedData = p.t.m_strParsedData], p.t)
    BY <1>5, <2>1 DEF OnlySends, ConnType
  <2> QED
    BY <1>5, <1>8, <2>1, <2>2, <2>3 DEF p
<1>9. CASE fin /\ ~q.ok
  <2>1. p = q
    BY <1>6, <1>9
  <2>2. OnlySends([t EXCEPT !.m_strParsedData = p.t.m_strParsedData], p.t)
    BY <1>5, <2>1 DEF OnlySends, ConnType
  <2> QED
    BY <1>5, <1>9, <2>1, <2>2 DEF p
<1> QED
  BY <1>7, <1>8, <1>9

\* The answer to frame f has gone to the connection, unless deflate failed.
Answered(t, r, f) ==
    \/ r.dropped
    \/ Answer(f) = <<>> /\ r.sent = t.sent
    \/ \E b \in Seq(Octets) : r.sent = Append(t.sent, b) /\ Answer(f) = <<ClientReads(b)>>

\* What finishFrame sends is what the client expects, when the data collected
\* for a message are those of the frame.
LEMMA FinishAnswers ==
  ASSUME NEW sc \in Scripts, NEW f \in Frames, Len(ClientData(sc, f)) <= INT32_MAX,
         NEW t \in ConnType, t.state_ = "kConnected", t.m_bClientCompressed = (sc.hello = 2),
         f.fin /\ f.op \in {TEXT_FRAME, BINARY_FRAME} => t.m_strParsedData = ClientData(sc, f),
         NEW deflated \in BOOLEAN
  PROVE  LET p == finishFrame(t, f.fin, f.op, deflated)
         IN p.ok => Answered(t, p.t, f)
<1> DEFINE data == t.m_strParsedData
           out == IF t.m_bClientCompressed THEN Inflate(data) ELSE data
           q == processPackage(t, f.op, deflated)
           p == finishFrame(t, f.fin, f.op, deflated)
           pong == send(t, <<>>, PONG, deflated)
           back == send(t, out, TEXT_FRAME, deflated)
<1> SUFFICES ASSUME p.ok PROVE Answered(t, p.t, f)
  OBVIOUS
<1>1. p = IF ~f.fin THEN [ok |-> TRUE, t |-> t]
          ELSE IF q.ok THEN [ok |-> TRUE, t |-> [q.t EXCEPT !.m_strParsedData = <<>>]] ELSE q
  BY DEF finishFrame
<1>2. f.msg \in Seq(Octets) /\ <<>> \in Seq(Octets) /\ f.fin \in BOOLEAN
  BY DEF Frames
<1>3. CASE ~f.fin
  <2>1. p.t = t /\ Answer(f) = <<>>
    BY <1>1, <1>3 DEF Answer
  <2> QED
    BY <2>1 DEF Answered
<1>4. ASSUME f.fin
      PROVE  q.ok /\ p.t = [q.t EXCEPT !.m_strParsedData = <<>>]
  BY <1>1, <1>4
<1>5. ASSUME NEW r \in ConnType, p.t = [r EXCEPT !.m_strParsedData = <<>>]
      PROVE  p.t.sent = r.sent /\ p.t.dropped = r.dropped
  BY <1>5 DEF ConnType
<1>6. CASE f.fin /\ f.op = PING
  <2>1. q = [ok |-> TRUE, t |-> pong]
    BY <1>6 DEF processPackage, PING, CLOSE, TEXT_FRAME, BINARY_FRAME
  <2>2. PONG \in {TEXT_FRAME, PONG} /\ Len(<<>>) < INT32_MAX
    BY DEF INT32_MAX
  <2>3. <<>> \in Seq(Octets)
    BY <1>2
  <2>4. pong \in ConnType /\ Replied(t, pong, PONG, <<>>)
    BY <2>2, <2>3, SendReplies
  <2>5. Answer(f) = <<Reply(PONG, <<>>)>>
    BY <1>6 DEF Answer
  <2>6. q.t = pong
    BY <2>1
  <2> HIDE DEF q, p, pong
  <2>7. p.t.sent = pong.sent /\ p.t.dropped = pong.dropped
    BY <1>4, <1>5, <1>6, <2>4, <2>6
  <2> QED
    BY <2>4, <2>5, <2>7 DEF Replied, Answered
<1>7. CASE f.fin /\ f.op \in {TEXT_FRAME, BINARY_FRAME}
  <2>1. out = f.msg /\ (t.m_bClientCompressed => Inflatable(data))
    <3>1. data = ClientData(sc, f) /\ f.op <= 2
      BY <1>7 DEF TEXT_FRAME, BINARY_FRAME
    <3>2. CASE sc.hello = 2
      <4>1. data = Deflate(f.msg) /\ t.m_bClientCompressed
        BY <3>1, <3>2 DEF ClientData
      <4> QED
        BY <1>2, <4>1, DeflateType
    <3>3. CASE sc.hello # 2
      BY <3>1, <3>3 DEF ClientData
    <3> QED
      BY <3>2, <3>3
  <2>2. q = [ok |-> TRUE, t |-> back]
    BY <1>7, <2>1 DEF processPackage, PING, CLOSE, TEXT_FRAME, BINARY_FRAME
  <2>3. IF t.m_bClientCompressed THEN Len(f.msg) < INT32_MAX ELSE Len(f.msg) <= INT32_MAX
    <3>1. f.op <= 2 /\ Len(f.msg) \in Nat /\ INT32_MAX \in Nat
      BY <1>2, <1>7, LenProperties DEF TEXT_FRAME, BINARY_FRAME, INT32_MAX
    <3>2. CASE sc.hello = 2
      <4>1. ClientData(sc, f) = Deflate(f.msg)
        BY <3>1, <3>2 DEF ClientData
      <4>2. Len(f.msg) + 1 <= INT32_MAX
        BY <1>2, <4>1, DeflateType
      <4> QED
        BY <3>1, <3>2, <4>2
    <3>3. CASE sc.hello # 2
      BY <3>3 DEF ClientData
    <3> QED
      BY <3>2, <3>3
  <2>4. TEXT_FRAME \in {TEXT_FRAME, PONG}
    OBVIOUS
  <2>5. out \in Seq(Octets)
    BY <1>2, <2>1
  <2> HIDE DEF out
  <2>6. back \in ConnType /\ Replied(t, back, TEXT_FRAME, out)
    <3>1. /\ back \in ConnType
          /\ Len(out) < INT32_MAX => Replied(t, back, TEXT_FRAME, out)
          /\ ~t.m_bClientCompressed /\ Len(out) <= INT32_MAX => Replied(t, back, TEXT_FRAME, out)
      BY <2>4, <2>5, SendReplies
    <3> HIDE DEF back
    <3> QED
      BY <2>1, <2>3, <3>1
  <2>7. Answer(f) = <<Reply(TEXT_FRAME, out)>>
    BY <1>7, <2>1 DEF Answer, PING, TEXT_FRAME, BINARY_FRAME
  <2>8. q.t = back
    BY <2>2
  <2> HIDE DEF q, p, back
  <2>9. p.t.sent = back.sent /\ p.t.dropped = back.dropped
    BY <1>4, <1>5, <1>7, <2>6, <2>8
  <2> QED
    BY <2>6, <2>7, <2>9 DEF Replied, Answered
<1>8. CASE f.fin /\ f.op # PING /\ f.op \notin {TEXT_FRAME, BINARY_FRAME}
  <2>1. f.op # CLOSE
    <3>1. f.op = CLOSE => ~q.ok
      BY DEF processPackage, PING, CLOSE, TEXT_FRAME, BINARY_FRAME
    <3> QED
      BY <1>4, <1>8, <3>1
  <2>2. q = [ok |-> TRUE, t |-> t]
    BY <1>8, <2>1 DEF processPackage
  <2>3. Answer(f) = <<>>
    BY <1>8 DEF Answer
  <2>4. q.t = t
    BY <2>2
  <2> HIDE DEF q, p
  <2>5. p.t.sent = t.sent
    BY <1>4, <1>5, <1>8, <2>4
  <2> QED
    BY <2>3, <2>5 DEF Answered
<1> QED
  BY <1>2, <1>3, <1>6, <1>7, <1>8

-----------------------------------------------------------------------------
(* One frame taken off the input buffer *)

\* A frame is there completely.
Decodes(t) ==
    LET in == t.inputBuffer_
    IN /\ Len(in) >= headerSize(in) /\ ~illegalLength(in)
       /\ Len(in) >= headerSize(in) + bodyLength(in)

\* The connection is the same, whatever was read and sent.
SameConnection(t, r) ==
    /\ r.state_ = t.state_ /\ r.polled = t.polled /\ r.closing = t.closing
    /\ r.session = t.session /\ r.ub = t.ub
    /\ r.m_bUpdateToWebSocket = t.m_bUpdateToWebSocket
    /\ r.m_bClientCompressed = t.m_bClientCompressed

\* decodePackage takes a complete frame or nothing.
LEMMA DecodeCases ==
  ASSUME NEW t \in ConnType, Len(t.inputBuffer_) >= 6, NEW deflated
  PROVE  LET d == decodePackage(t, deflated)
             in == t.inputBuffer_
         IN /\ ~Decodes(t) => d.t = t /\ d.ok \in BOOLEAN
            /\ Decodes(t) => d = finishFrame(taken(t), in[1] >= 128, in[1] % 16, deflated)
<1> DEFINE in == t.inputBuffer_
           h == headerSize(in)
           b == bodyLength(in)
           d == decodePackage(t, deflated)
           e == finishFrame(taken(t), in[1] >= 128, in[1] % 16, deflated)
<1>1. d = IF Len(in) < h THEN [ok |-> TRUE, t |-> t]
          ELSE IF illegalLength(in) THEN [ok |-> FALSE, t |-> t]
          ELSE IF Len(in) < h + b THEN [ok |-> TRUE, t |-> t] ELSE e
  BY DEF decodePackage
<1>2. in \in Seq(Octets)
  BY DEF ConnType
<1>3. Len(in) \in Nat
  BY <1>2, LenProperties
<1>4. h \in 0..14 /\ (Len(in) >= h => b \in Nat)
  BY <1>2, DecodeTypes
<1>5. Decodes(t) <=> Len(in) >= h /\ ~illegalLength(in) /\ Len(in) >= h + b
  BY DEF Decodes
<1> DEFINE l == Len(in)
<1> HIDE DEF h, b, d, e, l
<1>6. (l < h <=> ~(l >= h)) /\ (l >= h => (l < h + b <=> ~(l >= h + b)))
  BY <1>3, <1>4 DEF l
<1>7. ASSUME ~Decodes(t) PROVE d.t = t /\ d.ok \in BOOLEAN
  <2>1. d = [ok |-> TRUE, t |-> t] \/ d = [ok |-> FALSE, t |-> t]
    BY <1>1, <1>5, <1>6, <1>7, Zenon DEF l
  <2>2. CASE d = [ok |-> TRUE, t |-> t]
    BY <2>2
  <2>3. CASE d = [ok |-> FALSE, t |-> t]
    BY <2>3
  <2> QED
    BY <2>1, <2>2, <2>3
<1>8. ASSUME Decodes(t) PROVE d = e
  BY <1>1, <1>5, <1>6, <1>8, Zenon DEF l
<1> QED
  BY <1>7, <1>8 DEF d, e

\* The bytes of a frame leave the buffer for the data collected.
LEMMA TakenType ==
  ASSUME NEW t \in ConnType, Len(t.inputBuffer_) >= 6, Decodes(t)
  PROVE  LET in == t.inputBuffer_
             m  == headerSize(in) + bodyLength(in)
         IN /\ taken(t) \in ConnType /\ SameConnection(t, taken(t))
            /\ taken(t).decoded = t.decoded + 1
            /\ taken(t).sent = t.sent /\ taken(t).dropped = t.dropped
            /\ taken(t).m_strParsedData = t.m_strParsedData \o payloadData(in)
            /\ m \in Nat /\ m <= Len(in) /\ taken(t).inputBuffer_ = SubSeq(in, m + 1, Len(in))
<1> DEFINE in == t.inputBuffer_
           h == headerSize(in)
           b == bodyLength(in)
           rest == SubSeq(in, h + b + 1, Len(in))
           data == t.m_strParsedData \o payloadData(in)
<1>1. in \in Seq(Octets) /\ t.m_strParsedData \in Seq(Octets) /\ t.decoded \in Nat
  BY DEF ConnType
<1>2. Len(in) \in Nat
  BY <1>1, LenProperties
<1>3. Len(in) >= h /\ Len(in) >= h + b
  BY DEF Decodes
<1>4. h \in Nat /\ b \in Nat /\ payloadData(in) \in Seq(Octets)
  <2>1. in \in Seq(Octets)
    BY <1>1
  <2>2. h \in 0..14 /\ b \in Nat /\ payloadData(in) \in Seq(Octets)
    BY <1>3, <2>1, DecodeTypes
  <2> HIDE DEF h, b
  <2> QED
    BY <2>2
<1>5. taken(t) = [t EXCEPT !.inputBuffer_ = rest, !.m_strParsedData = data, !.decoded = @ + 1]
  BY DEF taken
<1>6. data \in Seq(Octets)
  BY <1>1, <1>4, ConcatProperties
<1> HIDE DEF h, b, data
<1>7. h + b \in Nat /\ h + b <= Len(in)
  BY <1>2, <1>3, <1>4
<1>8. rest \in Seq(Octets)
  <2>1. in \in Seq(Octets)
    BY <1>1
  <2> HIDE DEF in
  <2> QED
    BY <1>2, <1>7, <2>1, Slice
<1> HIDE DEF rest
<1>9. taken(t) \in ConnType
  <2> DEFINE v == t.decoded + 1
  <2>1. v \in Nat /\ taken(t) = [t EXCEPT !.inputBuffer_ = rest, !.m_strParsedData = data, !.decoded = v]
    BY <1>1, <1>5
  <2> HIDE DEF v, in
  <2> QED
    BY <1>6, <1>8, <2>1 DEF ConnType
<1>10. SameConnection(t, taken(t))
  BY <1>5 DEF ConnType, SameConnection
<1>11. /\ taken(t).decoded = t.decoded + 1 /\ taken(t).sent = t.sent /\ taken(t).dropped = t.dropped
       /\ taken(t).m_strParsedData = data /\ taken(t).inputBuffer_ = rest
  BY <1>5 DEF ConnType
<1> QED
  BY <1>7, <1>9, <1>10, <1>11 DEF h, b, rest, data

\* Whatever is in the buffer, decodePackage leaves the connection alone.
LEMMA DecodeKeeps ==
  ASSUME NEW t \in ConnType, Len(t.inputBuffer_) >= 6, NEW deflated \in BOOLEAN
  PROVE  LET d == decodePackage(t, deflated)
         IN /\ d.t \in ConnType /\ d.ok \in BOOLEAN /\ SameConnection(t, d.t)
            /\ t.dropped => d.t.dropped
            /\ ~Decodes(t) => d.t = t
            /\ Decodes(t) => /\ d.t.decoded = t.decoded + 1
                             /\ d.t.inputBuffer_ = taken(t).inputBuffer_
<1> DEFINE d == decodePackage(t, deflated)
           in == t.inputBuffer_
           fin == in[1] >= 128
           u == taken(t)
<1>1. CASE ~Decodes(t)
  <2>1. d.t = t /\ d.ok \in BOOLEAN
    BY <1>1, DecodeCases
  <2>2. SameConnection(t, t)
    BY DEF SameConnection
  <2> QED
    BY <1>1, <2>1, <2>2
<1>2. CASE Decodes(t)
  <2>1. d = finishFrame(u, fin, in[1] % 16, deflated)
    BY <1>2, DecodeCases
  <2>2. u \in ConnType /\ SameConnection(t, u) /\ u.decoded = t.decoded + 1 /\ u.dropped = t.dropped
    BY <1>2, TakenType
  <2>3. fin \in BOOLEAN
    OBVIOUS
  <2> HIDE DEF d, fin, u
  <2>4. /\ d.t \in ConnType /\ OnlySends([u EXCEPT !.m_strParsedData = d.t.m_strParsedData], d.t)
        /\ d.ok \in BOOLEAN /\ (u.dropped => d.t.dropped)
    BY <2>1, <2>2, <2>3, FinishKeeps
  <2>5. SameConnection(u, d.t) /\ d.t.decoded = u.decoded /\ d.t.inputBuffer_ = u.inputBuffer_
    BY <2>2, <2>4 DEF OnlySends, SameConnection, ConnType
  <2>6. SameConnection(t, d.t)
    BY <2>2, <2>5 DEF SameConnection
  <2> QED
    BY <1>2, <2>2, <2>4, <2>5, <2>6 DEF d, u
<1> QED
  BY <1>1, <1>2

-----------------------------------------------------------------------------
(* A session in step with its client *)

\* Frame k of the script has a payload; the session is in step.
HasData(sc, k) == ClientData(sc, sc.frames[k]) # <<>>
InStepOf(t, sc) == \A k \in 1..t.decoded : k <= Len(sc.frames) /\ HasData(sc, k)

\* The input buffer holds what has come since the last frame taken.
AtFrame(t, sc, g) ==
    /\ FrameEnd[sc][t.decoded] <= g
    /\ t.inputBuffer_ = SubSeq(Wire[sc], FrameEnd[sc][t.decoded] + 1, g)

\* In step there is a frame to come, and the buffer begins with it.
LEMMA NextFrame ==
  ASSUME NEW sc \in Scripts, NEW g \in 0..Len(Wire[sc]), NEW t \in ConnType,
         InStepOf(t, sc), AtFrame(t, sc, g)
  PROVE  LET in == t.inputBuffer_
             k  == t.decoded + 1
         IN /\ Len(in) = g - FrameEnd[sc][t.decoded] /\ t.decoded \in 0..Len(sc.frames)
            /\ Len(in) > 0 => k \in 1..Len(sc.frames)
            /\ k \in 1..Len(sc.frames) => Begins(in, ClientFrame(sc, sc.frames[k]))
<1> DEFINE in == t.inputBuffer_
           d == t.decoded
           k == d + 1
           N == Len(sc.frames)
           W == Wire[sc]
           E(j) == FrameEnd[sc][j]
           F == ClientFrame(sc, sc.frames[k])
<1>1. N \in Nat /\ d \in Nat
  BY FrameType DEF ConnType
<1>2. d \in 0..N
  <2>1. d > 0 => d \in 1..d
    BY <1>1
  <2>2. d > 0 => d <= N
    BY <2>1 DEF InStepOf
  <2> QED
    BY <1>1, <2>2
<1>3. W \in Seq(Octets) /\ Len(W) \in Nat /\ E(N) = Len(W) /\ \A j \in 0..N : E(j) \in Nat
  BY FrameEnds
<1>4. E(d) <= g /\ in = SubSeq(W, E(d) + 1, g)
  BY DEF AtFrame
<1>g. g \in 0..Len(W)
  OBVIOUS
<1>s. \A j \in 1..N : \A i \in 1..Len(ClientFrame(sc, sc.frames[j])) :
         W[E(j - 1) + i] = ClientFrame(sc, sc.frames[j])[i]
  BY StreamParts
<1>f. k \in 1..N => Len(F) \in Nat
  BY FrameEnds
<1> HIDE DEF N, W, E, F, d, in
<1>5. E(d) \in Nat /\ g \in Nat /\ g <= Len(W)
  BY <1>2, <1>3, <1>g
<1>6. Len(in) = g - E(d) /\ \A i \in 1..(g - E(d)) : in[i] = W[E(d) + i]
  <2>1. W \in Seq(Octets)
    BY <1>3
  <2>2. /\ SubSeq(W, E(d) + 1, g) \in Seq(Octets) /\ Len(SubSeq(W, E(d) + 1, g)) = g - E(d)
        /\ \A i \in 1..(g - E(d)) : SubSeq(W, E(d) + 1, g)[i] = W[E(d) + i]
    BY <1>4, <1>5, <2>1, Slice
  <2> QED
    BY <1>4, <2>2
<1>7. ASSUME Len(in) > 0 PROVE k \in 1..N
  <2>1. d # N
    BY <1>3, <1>5, <1>6, <1>7
  <2> QED
    BY <1>1, <1>2, <2>1
<1>8. ASSUME k \in 1..N PROVE Begins(in, F)
  <2>1. ASSUME NEW i \in 1..Len(in), i <= Len(F) PROVE in[i] = F[i]
    <3>1. i \in 1..(g - E(d)) /\ i \in 1..Len(F) /\ k - 1 = d
      BY <1>1, <1>2, <1>5, <1>6, <1>8, <1>f, <2>1
    <3>2. in[i] = W[E(k - 1) + i]
      BY <1>6, <3>1
    <3> QED
      BY <1>s, <1>8, <3>1, <3>2 DEF F
  <2> QED
    BY <2>1 DEF Begins
<1> QED
  BY <1>2, <1>6, <1>7, <1>8 DEF d, N, E, F, in

\* How the frame at the front is taken: exactly, if it has a payload, when the
\* last byte of it has come; without one, its key is all that is taken.
LEMMA FrameTaken ==
  ASSUME NEW sc \in Scripts, NEW g \in 0..Len(Wire[sc]), NEW t \in ConnType,
         InStepOf(t, sc), AtFrame(t, sc, g), Len(t.inputBuffer_) >= 6
  PROVE  LET in == t.inputBuffer_
             k  == t.decoded + 1
             f  == sc.frames[k]
             u  == taken(t)
         IN /\ k \in 1..Len(sc.frames)
            /\ (in[1] >= 128) = f.fin /\ in[1] % 16 = f.op
            /\ HasData(sc, k) =>
                  /\ Decodes(t) <=> FrameEnd[sc][k] <= g
                  /\ Decodes(t) => /\ u.inputBuffer_ = SubSeq(Wire[sc], FrameEnd[sc][k] + 1, g)
                                   /\ u.m_strParsedData = t.m_strParsedData \o ClientData(sc, f)
            /\ ~HasData(sc, k) => Decodes(t)
            /\ ~HasData(sc, k) /\ f.key # <<>> => g - Len(u.inputBuffer_) = FrameEnd[sc][k] - 2
<1> DEFINE in == t.inputBuffer_
           d == t.decoded
           k == d + 1
           N == Len(sc.frames)
           f == sc.frames[k]
           data == ClientData(sc, f)
           n == Len(data)
           K == Len(f.key)
           ext == ExtendedLength(n)
           F == ClientFrame(sc, f)
           E(j) == FrameEnd[sc][j]
           W == Wire[sc]
           u == taken(t)
           h == headerSize(in)
           b == bodyLength(in)
<1>1. in \in Seq(Octets) /\ d \in Nat
  BY DEF ConnType
<1>2. Len(in) \in Nat /\ Len(in) >= 6
  BY <1>1, LenProperties
<1>3. Len(in) = g - E(d) /\ d \in 0..N /\ k \in 1..N /\ Begins(in, F)
  <2>1. Len(in) > 0
    BY <1>2
  <2>2. k \in 1..N
    BY <2>1, NextFrame
  <2> QED
    BY <2>2, NextFrame
<1>4. f \in Frames /\ n <= INT32_MAX
  BY <1>3, FrameType, ScriptAssumption
<1>5. /\ Len(F) \in Nat /\ E(d) \in Nat /\ E(k) = E(d) + Len(F)
      /\ W \in Seq(Octets) /\ Len(W) \in Nat
  <2>1. k - 1 = d /\ d \in 0..N
    BY <1>1, <1>3
  <2>2. Len(F) \in Nat /\ E(k) = E(k - 1) + Len(F) /\ W \in Seq(Octets) /\ Len(W) \in Nat /\ \A j \in 0..N : E(j) \in Nat
    BY <1>3, FrameEnds
  <2> HIDE DEF E, F, W, k, d, N
  <2> QED
    BY <2>1, <2>2
<1>6. Len(F) = 2 + Len(ext) + K + n /\ K = IF f.key = <<>> THEN 0 ELSE 4
  <2>1. f \in Frames
    BY <1>4
  <2> HIDE DEF f
  <2>2. InLayout(F, f, data)
    BY <2>1, FrameLayout
  <2> QED
    BY <2>2 DEF InLayout
<1>7. data \in Seq(Octets) /\ n \in Nat
  <2>1. f \in Frames
    BY <1>4
  <2> HIDE DEF f
  <2> QED
    BY <2>1, ClientDataType
<1>8. Len(ext) \in Nat /\ (n = 0 => Len(ext) = 0)
  <2> HIDE DEF n
  <2>1. Len(ext) = IF n < 126 THEN 0 ELSE IF n <= UINT16_MAX THEN 2 ELSE 8
    BY <1>7, ExtendedLengthType, ZenonT(40)
  <2> QED
    BY <2>1
<1>9. /\ mask(in) <=> f.key # <<>>
      /\ n = 0 => h = K /\ b = 0 /\ ~illegalLength(in)
      /\ n > 0 => h = 2 + Len(ext) + K /\ (Len(in) >= h => b = n /\ ~illegalLength(in))
      /\ in[1] = (IF f.fin THEN 128 ELSE 0) + f.op
  <2>1. f \in Frames /\ in \in Seq(Octets) /\ Len(in) >= 6 /\ Begins(in, F) /\ n <= INT32_MAX
    BY <1>1, <1>2, <1>3, <1>4
  <2> HIDE DEF f, in
  <2> QED
    BY <2>1, FrameHeader
<1>10. (in[1] >= 128) = f.fin /\ in[1] % 16 = f.op
  <2> DEFINE x == in[1]
             op == f.op
             fin == f.fin
  <2>1. fin \in BOOLEAN /\ op \in {0, 1, 2, 8, 9, 10} /\ x = (IF fin THEN 128 ELSE 0) + op
    BY <1>4, <1>9 DEF Frames, CONTINUATION_FRAME, TEXT_FRAME, BINARY_FRAME, CLOSE, PING, PONG
  <2> HIDE DEF x, op, fin
  <2>2. op \in 0..10
    BY <2>1
  <2>3. CASE fin
    <3>1. x = 128 + op
      BY <2>1, <2>3
    <3>2. x >= 128 /\ x % 16 = op
      BY <2>2, <3>1
    <3> QED
      BY <2>3, <3>2 DEF x, op, fin
  <2>4. CASE ~fin
    <3>1. x = 0 + op
      BY <2>1, <2>4
    <3>2. ~(x >= 128) /\ x % 16 = op
      BY <2>2, <3>1
    <3> QED
      BY <2>1, <2>4, <3>2 DEF x, op, fin
  <2> QED
    BY <2>3, <2>4
<1>11. Decodes(t) <=> Len(in) >= h /\ ~illegalLength(in) /\ Len(in) >= h + b
  BY DEF Decodes
<1>12. HasData(sc, k) <=> n > 0
  <2>1. data # <<>> <=> n > 0
    BY <1>7, EmptySeq, LenProperties
  <2> QED
    BY <2>1 DEF HasData
<1>13. Decodes(t) => /\ h + b \in Nat /\ h + b <= Len(in)
                     /\ u.inputBuffer_ = SubSeq(in, h + b + 1, Len(in))
                     /\ u.m_strParsedData = t.m_strParsedData \o payloadData(in)
  BY <1>2, TakenType
<1>14. in = SubSeq(W, E(d) + 1, g)
  BY DEF AtFrame
<1>15. n > 0 /\ Len(in) >= Len(F) => payloadData(in) = data
  <2>1. f \in Frames /\ in \in Seq(Octets) /\ Len(in) >= 6 /\ Begins(in, F) /\ n <= INT32_MAX
    BY <1>1, <1>2, <1>3, <1>4
  <2> HIDE DEF f, in
  <2> QED
    BY <2>1, PayloadIsData
<1>g. g \in Nat /\ g <= Len(W)
  BY <1>5
<1> HIDE DEF in, d, N, f, data, n, K, ext, F, E, W, u, h, b
<1>16. ASSUME n > 0
       PROVE  /\ Decodes(t) <=> E(k) <= g
              /\ Decodes(t) => /\ u.inputBuffer_ = SubSeq(W, E(k) + 1, g)
                               /\ u.m_strParsedData = t.m_strParsedData \o data
  <2>1. h = 2 + Len(ext) + K /\ K \in Nat
    BY <1>6, <1>9, <1>16
  <2>2. Len(in) >= h => b = n /\ ~illegalLength(in) /\ h + b = Len(F)
    BY <1>6, <1>7, <1>8, <1>9, <1>16, <2>1
  <2>3. Decodes(t) <=> Len(in) >= Len(F)
    <3>1. Len(F) >= h /\ h \in Nat
      BY <1>6, <1>7, <1>8, <2>1
    <3>2. Len(in) >= Len(F) => Len(in) >= h
      BY <1>2, <1>5, <3>1
    <3> QED
      BY <1>11, <2>2, <3>2
  <2>4. Len(in) >= Len(F) <=> E(k) <= g
    BY <1>2, <1>3, <1>5, <1>g
  <2>5. ASSUME Decodes(t)
        PROVE  /\ u.inputBuffer_ = SubSeq(W, E(k) + 1, g)
               /\ u.m_strParsedData = t.m_strParsedData \o data
    <3>1. h + b = Len(F) /\ Len(in) >= Len(F)
      BY <1>11, <2>2, <2>3, <2>5
    <3>2. u.m_strParsedData = t.m_strParsedData \o data
      BY <1>13, <1>15, <1>16, <2>5, <3>1
    <3>3. E(d) + Len(F) <= g
      BY <1>2, <1>3, <1>5, <1>g, <3>1
    <3>4. W \in Seq(Octets)
      BY <1>5
    <3> DEFINE q == Len(F)
               a == E(d)
    <3>5. q \in Nat /\ a \in Nat /\ a + q <= g
      BY <1>5, <3>3
    <3> HIDE DEF q, a
    <3>6. SubSeq(SubSeq(W, a + 1, g), q + 1, Len(SubSeq(W, a + 1, g))) = SubSeq(W, a + q + 1, g)
      BY <1>g, <3>4, <3>5, SliceRest
    <3>7. u.inputBuffer_ = SubSeq(W, E(k) + 1, g)
      BY <1>5, <1>13, <1>14, <2>5, <3>1, <3>6 DEF q, a
    <3> QED
      BY <3>2, <3>7
  <2> QED
    BY <2>3, <2>4, <2>5
<1>17. ASSUME n = 0
       PROVE  Decodes(t) /\ (f.key # <<>> => g - Len(u.inputBuffer_) = E(k) - 2)
  <2>1. K \in {0, 4} /\ h = K /\ b = 0 /\ ~illegalLength(in) /\ Len(F) = 2 + K
        /\ (f.key # <<>> => K = 4)
    BY <1>6, <1>8, <1>9, <1>17
  <2>2. Decodes(t)
    BY <1>2, <1>11, <2>1
  <2>3. ASSUME f.key # <<>> PROVE g - Len(u.inputBuffer_) = E(k) - 2
    <3>1. K = 4 /\ h + b = 4 /\ Len(F) = 6
      BY <2>1, <2>3
    <3>2. u.inputBuffer_ = SubSeq(in, 4 + 1, Len(in))
      BY <1>13, <2>2, <3>1
    <3>3. in \in Seq(Octets)
      BY <1>1
    <3>4. Len(SubSeq(in, 4 + 1, Len(in))) = Len(in) - 4
      BY <1>2, <3>3, Slice
    <3> QED
      BY <1>2, <1>3, <1>5, <1>g, <3>1, <3>2, <3>4, SMTT(30)
  <2> QED
    BY <2>2, <2>3
<1>18. n > 0 \/ n = 0
  BY <1>7
<1> QED
  BY <1>3, <1>10, <1>12, <1>16, <1>17, <1>18 DEF d, N, f, data, E, W, u, in

\* What the client reads back so far is what it expects.
RepliesOf(t, sc) ==
    LET expected == Answers[sc][t.decoded]
    IN /\ Len(t.sent) = Len(expected) + 1
       /\ \A k \in 1..Len(expected) : ClientReads(t.sent[k + 1]) = expected[k]

\* The two bytes left behind by a frame without a payload.
LeftOf(t, sc, g) ==
    \A k \in 1..Len(sc.frames) :
       /\ k = t.decoded /\ sc.frames[k].key # <<>> /\ ~HasData(sc, k)
       /\ \A j \in 1..k - 1 : HasData(sc, j)
       => g - Len(t.inputBuffer_) = FrameEnd[sc][k] - 2

\* After the handshake, a session follows its client as long as it is in step.
Follows(t, sc, g) ==
    /\ sc.hello \in {1, 2} /\ t.m_bClientCompressed = (sc.hello = 2)
    /\ InStepOf(t, sc) => AtFrame(t, sc, g)
    /\ LeftOf(t, sc, g)
    /\ InStepOf(t, sc) /\ t.state_ = "kConnected" =>
          t.m_strParsedData = SinceFin[sc][t.decoded]
    /\ InStepOf(t, sc) /\ t.state_ = "kConnected" /\ ~t.dropped => RepliesOf(t, sc)

\* What becomes of a connected session in readFrame.
Served(t, r) ==
    /\ r.polled = t.polled /\ r.session = t.session /\ r.ub = t.ub
    /\ r.m_bUpdateToWebSocket = t.m_bUpdateToWebSocket
    /\ r.m_bClientCompressed = t.m_bClientCompressed
    /\ \/ r.state_ = "kConnected" /\ r.closing = t.closing
       \/ r.state_ = "kDisconnecting" /\ r.closing

\* forceClose of a connected connection.
LEMMA ForceCloses ==
  ASSUME NEW t \in ConnType, t.state_ = "kConnected"
  PROVE  LET r == forceClose(t)
         IN /\ r \in ConnType /\ r.state_ = "kDisconnecting" /\ Served(t, r)
            /\ r.inputBuffer_ = t.inputBuffer_ /\ r.m_strParsedData = t.m_strParsedData
            /\ r.decoded = t.decoded /\ r.sent = t.sent /\ r.dropped = t.dropped
<1> DEFINE r == forceClose(t)
<1>1. r = [t EXCEPT !.state_ = "kDisconnecting", !.closing = TRUE]
  BY DEF forceClose
<1> HIDE DEF r
<1> QED
  BY <1>1 DEF ConnType, Served, r

\* readFrame on any bytes.
LEMMA ReadServes ==
  ASSUME NEW t \in ConnType, t.state_ = "kConnected", NEW deflated \in BOOLEAN
  PROVE  LET r == readFrame(t, deflated)
             d == decodePackage(t, deflated)
             read == Len(t.inputBuffer_) >= 6 /\ Decodes(t)
         IN /\ r \in ConnType /\ Served(t, r) /\ (t.dropped => r.dropped)
            /\ ~read => /\ r.decoded = t.decoded /\ r.inputBuffer_ = t.inputBuffer_
                        /\ r.m_strParsedData = t.m_strParsedData /\ r.sent = t.sent
                        /\ r.dropped = t.dropped
            /\ read => r.decoded = t.decoded + 1 /\ r.inputBuffer_ = taken(t).inputBuffer_
            /\ read /\ r.state_ = "kConnected" => d.ok /\ r = d.t
<1> DEFINE r == readFrame(t, deflated)
           d == decodePackage(t, deflated)
           in == t.inputBuffer_
<1>1. r = IF Len(in) < 6 THEN t ELSE IF d.ok THEN d.t ELSE forceClose(d.t)
  BY DEF readFrame
<1>2. Len(in) \in Nat
  <2>1. in \in Seq(Octets)
    BY DEF ConnType
  <2> QED
    BY <2>1, LenProperties
<1>3. Served(t, t)
  BY DEF Served
<1>4. CASE Len(in) < 6
  <2>1. r = t /\ ~(Len(in) >= 6)
    BY <1>1, <1>2, <1>4
  <2> QED
    BY <1>3, <2>1
<1>5. CASE ~(Len(in) < 6)
  <2>1. Len(in) >= 6 /\ r = IF d.ok THEN d.t ELSE forceClose(d.t)
    BY <1>1, <1>2, <1>5
  <2>2. /\ d.t \in ConnType /\ d.ok \in BOOLEAN /\ SameConnection(t, d.t)
        /\ t.dropped => d.t.dropped
        /\ ~Decodes(t) => d.t = t
        /\ Decodes(t) => d.t.decoded = t.decoded + 1 /\ d.t.inputBuffer_ = taken(t).inputBuffer_
    BY <2>1, DecodeKeeps
  <2> HIDE DEF d, r
  <2>3. Served(t, d.t) /\ d.t.state_ = "kConnected"
    BY <2>2 DEF SameConnection, Served
  <2>4. CASE d.ok
    <3>1. r = d.t
      BY <2>1, <2>4
    <3> QED
      BY <2>1, <2>2, <2>3, <2>4, <3>1 DEF r, d
  <2>5. CASE ~d.ok
    <3>1. r = forceClose(d.t)
      BY <2>1, <2>5
    <3> DEFINE e == d.t
    <3>2. e \in ConnType /\ e.state_ = "kConnected"
      BY <2>2, <2>3
    <3> HIDE DEF e
    <3>3. /\ forceClose(e) \in ConnType /\ forceClose(e).state_ = "kDisconnecting" /\ Served(e, forceClose(e))
          /\ forceClose(e).inputBuffer_ = e.inputBuffer_ /\ forceClose(e).m_strParsedData = e.m_strParsedData
          /\ forceClose(e).decoded = e.decoded /\ forceClose(e).sent = e.sent
          /\ forceClose(e).dropped = e.dropped
      BY <3>2, ForceCloses
    <3>4. /\ r \in ConnType /\ r.state_ = "kDisconnecting" /\ Served(e, r)
          /\ r.inputBuffer_ = e.inputBuffer_ /\ r.m_strParsedData = e.m_strParsedData
          /\ r.decoded = e.decoded /\ r.sent = e.sent /\ r.dropped = e.dropped
      BY <3>1, <3>3 DEF e
    <3>5. Served(t, r)
      BY <2>3, <3>4 DEF Served, e
    <3> QED
      BY <2>1, <2>2, <3>4, <3>5 DEF r, d, e
  <2> QED
    BY <2>4, <2>5
<1> QED
  BY <1>4, <1>5

\* One more reply as expected.
LEMMA ReplyAdded ==
  ASSUME NEW sc \in Scripts, NEW t \in ConnType, NEW r \in ConnType, RepliesOf(t, sc),
         t.decoded + 1 \in 1..Len(sc.frames), r.decoded = t.decoded + 1, ~r.dropped,
         Answered(t, r, sc.frames[t.decoded + 1])
  PROVE  RepliesOf(r, sc)
<1> DEFINE k == t.decoded + 1
           f == sc.frames[k]
           a == Answers[sc][t.decoded]
           c == Answer(f)
           b == Answers[sc][k]
           s == t.sent
<1>1. t.decoded \in Nat /\ s \in Seq(Seq(Octets)) /\ f \in Frames /\ Len(sc.frames) \in Nat
  BY FrameType DEF ConnType
<1>2. t.decoded \in 0..Len(sc.frames) /\ k - 1 = t.decoded
  <2> DEFINE d == t.decoded
             N == Len(sc.frames)
  <2>1. d \in Nat /\ N \in Nat /\ d + 1 \in 1..N
    BY <1>1
  <2> HIDE DEF d, N
  <2>2. d \in 0..N /\ (d + 1) - 1 = d
    BY <2>1
  <2> QED
    BY <2>2 DEF d, N
<1>3. a \in Seq(Replies) /\ b = a \o c
  BY <1>2, AnswersIs
<1>4. c \in Seq(Replies)
  <2>1. f \in Frames
    BY <1>1
  <2> HIDE DEF f
  <2> QED
    BY <2>1, AnswerType
<1>5. Len(s) = Len(a) + 1 /\ \A j \in 1..Len(a) : ClientReads(s[j + 1]) = a[j]
  BY DEF RepliesOf
<1> HIDE DEF f
<1>6. \/ c = <<>> /\ r.sent = s
      \/ \E y \in Seq(Octets) : r.sent = Append(s, y) /\ c = <<ClientReads(y)>>
  BY DEF Answered, f
<1>7. Len(a) \in Nat
  BY <1>3, LenProperties
<1>8. Answers[sc][r.decoded] = b
  OBVIOUS
<1> HIDE DEF a, b, c, s, k
<1>9. CASE c = <<>> /\ r.sent = s
  <2>1. b = a
    BY <1>3, <1>9, ConcatEmptySeq
  <2> QED
    BY <1>5, <1>8, <1>9, <2>1 DEF RepliesOf
<1>10. CASE \E y \in Seq(Octets) : r.sent = Append(s, y) /\ c = <<ClientReads(y)>>
  <2>1. PICK y \in Seq(Octets) : r.sent = Append(s, y) /\ c = <<ClientReads(y)>>
    BY <1>10
  <2> DEFINE x == ClientReads(y)
  <2>2. Len(c) = 1 /\ c[1] = x
    BY <2>1
  <2> HIDE DEF x
  <2>3. s \in Seq(Seq(Octets))
    BY <1>1
  <2>4. /\ Len(Append(s, y)) = Len(s) + 1 /\ Append(s, y)[Len(s) + 1] = y
        /\ \A i \in 1..Len(s) : Append(s, y)[i] = s[i]
    BY <2>3, AppendProperties
  <2>5. a \in Seq(Replies)
    BY <1>3
  <2>6. /\ Len(a \o c) = Len(a) + Len(c)
        /\ \A i \in 1..(Len(a) + Len(c)) : (a \o c)[i] = IF i <= Len(a) THEN a[i] ELSE c[i - Len(a)]
    BY <1>4, <2>5, ConcatProperties
  <2>7. Len(b) = Len(a) + 1 /\ Len(r.sent) = Len(b) + 1
    BY <1>3, <1>5, <1>7, <2>1, <2>2, <2>4, <2>6
  <2>8. ASSUME NEW j \in 1..Len(b) PROVE ClientReads(r.sent[j + 1]) = b[j]
    <3>1. CASE j <= Len(a)
      <4>1. j \in 1..Len(a) /\ j \in 1..(Len(a) + Len(c)) /\ j + 1 \in 1..Len(s)
        BY <1>5, <1>7, <2>2, <2>7, <3>1
      <4>2. b[j] = a[j] /\ r.sent[j + 1] = s[j + 1]
        BY <1>3, <2>1, <2>4, <2>6, <3>1, <4>1
      <4> QED
        BY <1>5, <4>1, <4>2
    <3>2. CASE ~(j <= Len(a))
      <4>1. j \in 1..(Len(a) + Len(c)) /\ j - Len(a) = 1 /\ j + 1 = Len(s) + 1
        BY <1>5, <1>7, <2>2, <2>7, <3>2
      <4>2. b[j] = x
        BY <1>3, <2>2, <2>6, <3>2, <4>1
      <4>3. r.sent[j + 1] = y
        BY <2>1, <2>4, <4>1
      <4> QED
        BY <4>2, <4>3 DEF x
    <3> QED
      BY <3>1, <3>2
  <2> QED
    BY <1>8, <2>7, <2>8 DEF RepliesOf
<1> QED
  BY <1>6, <1>9, <1>10

\* What a read tells of the frames that have come.
Caught(t, r, sc, g) ==
    /\ r.decoded \in {t.decoded, t.decoded + 1}
    /\ InStepOf(r, sc) /\ t.decoded + 1 \in 1..Len(sc.frames) =>
          \/ /\ r.decoded = t.decoded
             /\ g < FrameEnd[sc][t.decoded] + 6 \/ g < FrameEnd[sc][t.decoded + 1]
          \/ r.decoded = t.decoded + 1 /\ FrameEnd[sc][t.decoded + 1] <= g

\* A session in step takes the frame at the front: it stays in step if the
\* frame has a payload, and what it collects and sends is what it should.
LEMMA TakeFollows ==
  ASSUME NEW sc \in Scripts, NEW g \in 0..Len(Wire[sc]), NEW t \in ConnType, t.state_ = "kConnected",
         Follows(t, sc, g), InStepOf(t, sc), Len(t.inputBuffer_) >= 6, Decodes(t),
         NEW deflated \in BOOLEAN,
         NEW d, d = decodePackage(t, deflated), HasData(sc, t.decoded + 1), d.ok
  PROVE  /\ d.t.m_strParsedData = SinceFin[sc][t.decoded + 1]
         /\ ~d.t.dropped => RepliesOf(d.t, sc)
<1> DEFINE in == t.inputBuffer_
           k == t.decoded + 1
           f == sc.frames[k]
           data == ClientData(sc, f)
           u == taken(t)
           N == Len(sc.frames)
<1>1. AtFrame(t, sc, g) /\ t.m_bClientCompressed = (sc.hello = 2)
      /\ t.m_strParsedData = SinceFin[sc][t.decoded] /\ (~t.dropped => RepliesOf(t, sc))
  BY DEF Follows
<1>2. /\ k \in 1..N /\ (in[1] >= 128) = f.fin /\ in[1] % 16 = f.op
      /\ u.m_strParsedData = t.m_strParsedData \o data
  BY <1>1, FrameTaken, ZenonT(40)
<1>3. /\ u \in ConnType /\ SameConnection(t, u) /\ u.decoded = k
      /\ u.sent = t.sent /\ u.dropped = t.dropped
  BY TakenType
<1>4. d = finishFrame(u, f.fin, f.op, deflated)
  BY <1>2, DecodeCases
<1>5. f \in Frames /\ Len(data) <= INT32_MAX /\ N \in Nat
      /\ (k > 1 /\ f.op \in {TEXT_FRAME, BINARY_FRAME} => sc.frames[k - 1].fin)
  BY <1>2, FrameType, ScriptAssumption
<1>6. k - 1 = t.decoded /\ t.decoded \in Nat
  BY DEF ConnType
<1>7. SinceFin[sc][k] = IF f.fin THEN <<>> ELSE SinceFin[sc][k - 1] \o data
  BY <1>2, SinceFinIs
<1>8. f.fin \in BOOLEAN
  BY <1>5 DEF Frames
<1>9. f.fin /\ f.op \in {TEXT_FRAME, BINARY_FRAME} => u.m_strParsedData = data
  <2> SUFFICES ASSUME f.fin, f.op \in {TEXT_FRAME, BINARY_FRAME} PROVE u.m_strParsedData = data
    OBVIOUS
  <2>1. SinceFin[sc][k - 1] = <<>>
    <3>1. CASE k = 1
      <4>1. k - 1 = 0
        BY <3>1
      <4> QED
        BY <4>1, SinceFinIs
    <3>2. CASE k # 1
      <4>1. k > 1 /\ k - 1 \in 1..N
        BY <1>2, <1>5, <1>6, <3>2
      <4> QED
        BY <1>5, <4>1, SinceFinIs
    <3> QED
      BY <3>1, <3>2
  <2>2. data \in Seq(Octets)
    <3>1. f \in Frames
      BY <1>5
    <3> HIDE DEF f
    <3> QED
      BY <3>1, ClientDataType
  <2>3. <<>> \o data = data
    BY <2>2, ConcatEmptySeq
  <2> QED
    BY <1>1, <1>2, <1>6, <2>1, <2>3
<1>10. u.state_ = "kConnected" /\ u.m_bClientCompressed = (sc.hello = 2)
  BY <1>1, <1>3 DEF SameConnection
<1>a. Answered(u, d.t, f)
  <2>1. f \in Frames /\ Len(data) <= INT32_MAX /\ u \in ConnType
    BY <1>3, <1>5
  <2> HIDE DEF f, u
  <2> QED
    BY <1>4, <1>9, <1>10, <2>1, FinishAnswers
<1>b. /\ d.t \in ConnType /\ OnlySends([u EXCEPT !.m_strParsedData = d.t.m_strParsedData], d.t)
      /\ u.dropped => d.t.dropped
      /\ d.t.m_strParsedData = IF f.fin THEN <<>> ELSE u.m_strParsedData
  <2>1. u \in ConnType
    BY <1>3
  <2> HIDE DEF f, u
  <2> QED
    BY <1>4, <1>8, <2>1, FinishKeeps
<1> HIDE DEF f, u, data, in, N
<1>c. d.t.decoded = k
  BY <1>3, <1>b DEF OnlySends, ConnType
<1>d. d.t.m_strParsedData = SinceFin[sc][k]
  BY <1>1, <1>2, <1>6, <1>7, <1>b
<1>e. ASSUME ~d.t.dropped PROVE RepliesOf(d.t, sc)
  <2>1. RepliesOf(t, sc)
    BY <1>1, <1>3, <1>b, <1>e
  <2>2. Answered(t, d.t, f)
    BY <1>3, <1>a DEF Answered
  <2> QED
    BY <1>2, <1>b, <1>c, <1>e, <2>1, <2>2, ReplyAdded DEF f, N
<1> QED
  BY <1>d, <1>e

\* readFrame keeps a session with its client.
LEMMA ReadFollows ==
  ASSUME NEW sc \in Scripts, NEW g \in 0..Len(Wire[sc]), NEW t \in ConnType, t.state_ = "kConnected",
         Follows(t, sc, g), NEW deflated \in BOOLEAN
  PROVE  LET r == readFrame(t, deflated)
         IN Follows(r, sc, g) /\ Caught(t, r, sc, g) /\ (InStepOf(r, sc) => InStepOf(t, sc))
<1> DEFINE r == readFrame(t, deflated)
           d == decodePackage(t, deflated)
           in == t.inputBuffer_
           k == t.decoded + 1
           N == Len(sc.frames)
           read == Len(in) >= 6 /\ Decodes(t)
<1>1. /\ r \in ConnType /\ Served(t, r) /\ (t.dropped => r.dropped)
      /\ ~read => /\ r.decoded = t.decoded /\ r.inputBuffer_ = in
                  /\ r.m_strParsedData = t.m_strParsedData /\ r.sent = t.sent
                  /\ r.dropped = t.dropped
      /\ read => r.decoded = k /\ r.inputBuffer_ = taken(t).inputBuffer_
      /\ read /\ r.state_ = "kConnected" => d.ok /\ r = d.t
  BY ReadServes
<1>2. r.m_bClientCompressed = t.m_bClientCompressed
  BY <1>1 DEF Served
<1>3. t.decoded \in Nat /\ N \in Nat /\ in \in Seq(Octets)
  BY FrameType DEF ConnType
<1>4. sc.hello \in {1, 2} /\ t.m_bClientCompressed = (sc.hello = 2)
      /\ (InStepOf(t, sc) => AtFrame(t, sc, g)) /\ LeftOf(t, sc, g)
  BY DEF Follows
<1> HIDE DEF r
<1>5. CASE ~read
  <2>1. InStepOf(r, sc) <=> InStepOf(t, sc)
    BY <1>1, <1>5 DEF InStepOf
  <2>2. AtFrame(t, sc, g) => AtFrame(r, sc, g)
    BY <1>1, <1>5 DEF AtFrame
  <2>3. LeftOf(r, sc, g)
    BY <1>1, <1>4, <1>5 DEF LeftOf
  <2>4. RepliesOf(t, sc) => RepliesOf(r, sc)
    BY <1>1, <1>5 DEF RepliesOf
  <2>5. Follows(r, sc, g)
    BY <1>1, <1>2, <1>4, <1>5, <2>1, <2>2, <2>3, <2>4 DEF Follows
  <2>6. Caught(t, r, sc, g)
    <3> SUFFICES ASSUME InStepOf(t, sc), k \in 1..N
                 PROVE  g < FrameEnd[sc][t.decoded] + 6 \/ g < FrameEnd[sc][k]
      BY <1>1, <1>5, <2>1 DEF Caught
    <3>1. Len(in) = g - FrameEnd[sc][t.decoded] /\ t.decoded \in 0..N
      BY <1>4, NextFrame
    <3>2. FrameEnd[sc][t.decoded] \in Nat /\ FrameEnd[sc][k] \in Nat /\ Len(Wire[sc]) \in Nat
      <4>1. k \in 0..N
        BY <1>3
      <4> QED
        BY <3>1, <4>1, FrameEnds
    <3>3. CASE ~(Len(in) >= 6)
      BY <3>1, <3>2, <3>3
    <3>4. CASE Len(in) >= 6
      <4>1. ~Decodes(t)
        BY <1>5, <3>4
      <4>2. /\ HasData(sc, k) => (Decodes(t) <=> FrameEnd[sc][k] <= g)
            /\ ~HasData(sc, k) => Decodes(t)
        BY <1>4, <3>4, FrameTaken
      <4>3. ~(FrameEnd[sc][k] <= g)
        BY <4>1, <4>2
      <4> QED
        BY <3>2, <4>3
    <3> QED
      BY <3>3, <3>4
  <2> QED
    BY <2>1, <2>5, <2>6 DEF r
<1>6. CASE read /\ ~InStepOf(t, sc)
  <2>1. r.decoded = k /\ r.inputBuffer_ = taken(t).inputBuffer_
    BY <1>1, <1>6
  <2>2. \A j \in 1..t.decoded : j \in 1..k
    BY <1>3
  <2>3. ~InStepOf(r, sc)
    BY <1>6, <2>1, <2>2 DEF InStepOf
  <2>4. LeftOf(r, sc, g)
    <3> SUFFICES ASSUME k \in 1..N, \A j \in 1..k - 1 : HasData(sc, j) PROVE FALSE
      BY <2>1 DEF LeftOf
    <3>1. \A j \in 1..t.decoded : j <= N /\ j \in 1..k - 1
      BY <1>3
    <3> QED
      BY <1>6, <3>1 DEF InStepOf
  <2> QED
    BY <1>2, <1>4, <2>1, <2>3, <2>4 DEF Follows, Caught, r
<1>7. CASE read /\ InStepOf(t, sc)
  <2>1. r.decoded = k /\ r.inputBuffer_ = taken(t).inputBuffer_
    BY <1>1, <1>7
  <2>2. /\ k \in 1..N
        /\ HasData(sc, k) => /\ FrameEnd[sc][k] <= g
                             /\ taken(t).inputBuffer_ = SubSeq(Wire[sc], FrameEnd[sc][k] + 1, g)
        /\ ~HasData(sc, k) /\ sc.frames[k].key # <<>> =>
              g - Len(taken(t).inputBuffer_) = FrameEnd[sc][k] - 2
    BY <1>4, <1>7, FrameTaken
  <2>3. LeftOf(r, sc, g)
    BY <2>1, <2>2 DEF LeftOf
  <2>4. CASE HasData(sc, k)
    <3>1. AtFrame(r, sc, g)
      BY <2>1, <2>2, <2>4 DEF AtFrame
    <3>2. ASSUME r.state_ = "kConnected"
          PROVE  r.m_strParsedData = SinceFin[sc][k] /\ (~r.dropped => RepliesOf(r, sc))
      <4>1. d.ok /\ r = d.t
        BY <1>1, <1>7, <3>2
      <4> HIDE DEF d
      <4>2. /\ d.t.m_strParsedData = SinceFin[sc][t.decoded + 1]
            /\ ~d.t.dropped => RepliesOf(d.t, sc)
        BY <1>7, <2>4, <4>1, TakeFollows DEF d
      <4> QED
        BY <4>1, <4>2
    <3> QED
      BY <1>2, <1>4, <1>7, <2>1, <2>2, <2>3, <2>4, <3>1, <3>2 DEF Follows, Caught, r
  <2>5. CASE ~HasData(sc, k)
    <3>1. k \in 1..k
      BY <1>3
    <3>2. ~InStepOf(r, sc)
      BY <2>1, <2>5, <3>1 DEF InStepOf
    <3> QED
      BY <1>2, <1>4, <2>1, <2>3, <3>2 DEF Follows, Caught, r
  <2> QED
    BY <2>4, <2>5
<1> QED
  BY <1>5, <1>6, <1>7

-----------------------------------------------------------------------------
(* The handshake, and a whole read *)

\* A session that waits for its handshake.
Waits(t, sc, g) ==
    /\ t.decoded = 0 /\ t.sent = <<>> /\ t.m_strParsedData = <<>>
    /\ t.state_ = "kConnected" => t.inputBuffer_ = SubSeq(Wire[sc], 1, g)

\* findString finds the end of the handshake as soon as it is there.
LEMMA HandshakeEnd ==
  ASSUME NEW sc \in Scripts, NEW g \in 0..Len(Wire[sc]), NEW in, in = SubSeq(Wire[sc], 1, g)
  PROVE  /\ in \in Seq(Octets) /\ Len(in) = g
         /\ \A i \in 1..g : in[i] = Wire[sc][i]
         /\ findString(in) = IF g < 8 THEN 0 ELSE 5
<1> DEFINE W == Wire[sc]
           h == sc.hello
           at == {i \in 1..Len(in) - 3 :
                    in[i] = 13 /\ in[i + 1] = 10 /\ in[i + 2] = 13 /\ in[i + 3] = 10}
<1>1. W \in Seq(Octets) /\ Len(W) \in Nat /\ 8 <= Len(W) /\ \A i \in 1..8 : W[i] = Hello(sc)[i]
  BY FrameEnds, StreamParts
<1>g. g \in Nat /\ g <= Len(W)
  BY <1>1
<1>2. h \in 1..3
  BY FrameType
<1>3. Hello(sc) = <<h, 13, 10, h, 13, 10, 13, 10>>
  BY DEF Hello
<1>i. in = SubSeq(W, 0 + 1, g)
  OBVIOUS
<1> HIDE DEF W, h
<1>4. W[1] = h /\ W[2] = 13 /\ W[3] = 10 /\ W[4] = h /\ W[5] = 13 /\ W[6] = 10 /\ W[7] = 13 /\ W[8] = 10
  BY <1>1, <1>3
<1>5. in \in Seq(Octets) /\ Len(in) = g /\ \A i \in 1..g : in[i] = W[i]
  <2>1. W \in Seq(Octets)
    BY <1>1
  <2>2. /\ SubSeq(W, 0 + 1, g) \in Seq(Octets) /\ Len(SubSeq(W, 0 + 1, g)) = g - 0
        /\ \A i \in 1..(g - 0) : SubSeq(W, 0 + 1, g)[i] = W[0 + i]
    BY <1>g, <2>1, Slice
  <2>3. g - 0 = g /\ \A i \in 1..g : 0 + i = i
    BY <1>g
  <2> QED
    BY <1>i, <2>2, <2>3
<1>6. ASSUME NEW i \in at PROVE i >= 5 /\ i \in Nat
  <2>1. i \in 1..g - 3 /\ in[i] = 13 /\ in[i + 1] = 10 /\ in[i + 2] = 13
    BY <1>5
  <2>2. i \in Nat /\ i >= 1 /\ i \in 1..g /\ i + 1 \in 1..g /\ i + 2 \in 1..g
    BY <1>g, <2>1
  <2>3. W[i] = 13 /\ W[i + 1] = 10 /\ W[i + 2] = 13
    BY <1>5, <2>1, <2>2
  <2>4. i # 1
    BY <1>2, <1>4, <2>3
  <2>5. i # 2
    <3>1. i = 2 => W[4] = 13
      BY <2>3
    <3> QED
      BY <1>2, <1>4, <3>1
  <2>6. i # 3
    BY <1>4, <2>3
  <2>7. i # 4
    BY <1>2, <1>4, <2>3
  <2> QED
    BY <2>2, <2>4, <2>5, <2>6, <2>7
<1>7. findString(in) = IF at = {} THEN 0 ELSE CHOOSE i \in at : \A j \in at : i <= j
  BY DEF findString
<1>8. CASE g < 8
  <2>1. ASSUME NEW i \in at PROVE FALSE
    <3>1. i >= 5 /\ i \in Nat /\ i \in 1..g - 3
      BY <1>5, <1>6
    <3> QED
      BY <1>g, <1>8, <3>1
  <2>2. at = {}
    BY <2>1
  <2> HIDE DEF at
  <2> QED
    BY <1>5, <1>7, <1>8, <2>2 DEF W
<1>9. CASE ~(g < 8)
  <2>1. 5 \in 1..g - 3 /\ 5 \in 1..g /\ 6 \in 1..g /\ 7 \in 1..g /\ 8 \in 1..g
    BY <1>g, <1>9
  <2>2. in[5] = 13 /\ in[5 + 1] = 10 /\ in[5 + 2] = 13 /\ in[5 + 3] = 10
    <3>1. in[5] = W[5] /\ in[6] = W[6] /\ in[7] = W[7] /\ in[8] = W[8]
      BY <1>5, <2>1
    <3>2. 5 + 1 = 6 /\ 5 + 2 = 7 /\ 5 + 3 = 8
      OBVIOUS
    <3> QED
      BY <1>4, <3>1, <3>2
  <2>3. 5 \in at
    BY <1>5, <2>1, <2>2
  <2> DEFINE c == CHOOSE i \in at : \A j \in at : i <= j
  <2>4. \A j \in at : j >= 5 /\ j \in Nat
    BY <1>6
  <2> HIDE DEF at
  <2>5. \A j \in at : 5 <= j
    BY <2>4
  <2>6. c \in at /\ \A j \in at : c <= j
    BY <2>3, <2>5
  <2> HIDE DEF c
  <2>7. c <= 5 /\ c >= 5 /\ c \in Nat
    BY <2>3, <2>4, <2>6
  <2>8. c = 5
    BY <2>7
  <2> QED
    BY <1>5, <1>7, <1>9, <2>3, <2>8 DEF W, c
<1> QED
  BY <1>8, <1>9

\* The handshake of a client is answered, and the welcome sent, or it is refused.
LEMMA HandshakeFollows ==
  ASSUME NEW sc \in Scripts, NEW g \in 8..Len(Wire[sc]), NEW t \in ConnType, t.state_ = "kConnected",
         ~t.m_bUpdateToWebSocket, Waits(t, sc, g), NEW deflated \in BOOLEAN
  PROVE  LET in == t.inputBuffer_
             h  == handleHandshake([t EXCEPT !.inputBuffer_ = SubSeq(in, 8 + 1, Len(in))],
                                   SubSeq(in, 1, 8), deflated)
         IN /\ h \in ConnType /\ h.state_ = "kConnected" /\ h.closing = t.closing
            /\ h.polled = t.polled /\ h.session = t.session /\ h.ub = t.ub /\ h.decoded = 0
            /\ h.m_bUpdateToWebSocket => Follows(h, sc, g)
            /\ ~h.m_bUpdateToWebSocket => h.sent = <<>> /\ h.m_strParsedData = <<>>
<1> DEFINE in == t.inputBuffer_
           W == Wire[sc]
           rest == SubSeq(in, 8 + 1, Len(in))
           data == SubSeq(in, 1, 8)
           v == [t EXCEPT !.inputBuffer_ = rest]
           h == handleHandshake(v, data, deflated)
           hello == sc.hello
<1>1. in = SubSeq(W, 0 + 1, g) /\ t.decoded = 0 /\ t.sent = <<>> /\ t.m_strParsedData = <<>>
  BY DEF Waits
<1>2. /\ W \in Seq(Octets) /\ Len(W) \in Nat /\ 8 <= Len(W) /\ FrameEnd[sc][0] = 8
      /\ \A i \in 1..8 : W[i] = Hello(sc)[i]
  BY FrameEnds, StreamParts
<1>g. g \in Nat /\ g <= Len(W) /\ 8 <= g /\ g \in 0..Len(W)
  BY <1>2
<1>3. /\ in \in Seq(Octets) /\ Len(in) = g /\ \A i \in 1..g : in[i] = W[i]
  <2>1. in = SubSeq(W, 1, g)
    BY <1>1
  <2> HIDE DEF in, W
  <2>2. in = SubSeq(Wire[sc], 1, g) /\ g \in 0..Len(Wire[sc])
    BY <1>g, <2>1 DEF W
  <2>3. /\ in \in Seq(Octets) /\ Len(in) = g /\ \A i \in 1..g : in[i] = Wire[sc][i]
    BY <2>2, HandshakeEnd
  <2> QED
    BY <2>3 DEF W
<1>4. data[1] = hello /\ hello \in 1..3
  <2>1. Hello(sc)[1] = hello /\ hello \in 1..3
    BY FrameType DEF Hello
  <2>2. in \in Seq(Octets)
    BY <1>3
  <2>3. SubSeq(in, 0 + 1, 8)[1] = in[0 + 1]
    <3>1. 0 \in Nat /\ 8 \in Nat /\ 0 <= 8 /\ 8 <= Len(in) /\ 1 \in 1..(8 - 0)
      BY <1>3, <1>g
    <3> HIDE DEF in
    <3>2. \A i \in 1..(8 - 0) : SubSeq(in, 0 + 1, 8)[i] = in[0 + i]
      BY <2>2, <3>1, Slice
    <3> QED
      BY <3>1, <3>2
  <2>4. data[1] = in[1] /\ 1 \in 1..g /\ 1 \in 1..8
    BY <1>g, <2>3
  <2> HIDE DEF data, hello, in, W
  <2> QED
    BY <1>2, <1>3, <2>1, <2>4
<1>5. rest = SubSeq(W, 8 + 1, g) /\ rest \in Seq(Octets)
  <2>1. W \in Seq(Octets) /\ 0 + 8 <= g
    BY <1>2, <1>g
  <2> HIDE DEF W
  <2>2. W \in Seq(Octets)
    BY <2>1
  <2>3. SubSeq(SubSeq(W, 0 + 1, g), 8 + 1, Len(SubSeq(W, 0 + 1, g))) = SubSeq(W, 0 + 8 + 1, g)
    BY <1>g, <2>1, <2>2, SliceRest
  <2>4. rest = SubSeq(W, 8 + 1, g)
    BY <1>1, <2>3
  <2>5. SubSeq(W, 8 + 1, g) \in Seq(Octets)
    BY <1>g, <2>2, Slice
  <2> QED
    BY <2>4, <2>5
<1>6. v \in ConnType /\ v.inputBuffer_ = rest /\ v.decoded = 0 /\ v.sent = <<>> /\ v.m_strParsedData = <<>>
      /\ v.state_ = "kConnected" /\ v.closing = t.closing /\ v.polled = t.polled /\ v.session = t.session
      /\ v.ub = t.ub /\ ~v.m_bUpdateToWebSocket
  <2> HIDE DEF rest
  <2> QED
    BY <1>1, <1>5 DEF ConnType
<1> HIDE DEF v, data, rest
<1>7. CASE hello = 3
  <2>1. h = v
    BY <1>4, <1>7 DEF handleHandshake
  <2> HIDE DEF h
  <2> QED
    BY <1>6, <2>1 DEF h, v, data, rest
<1>8. CASE hello # 3
  <2> DEFINE resp == <<101, data[1]>>
             u == [v EXCEPT !.m_bClientCompressed = (data[1] = 2)]
             r == connSend(u, resp)
             w == [r EXCEPT !.m_bUpdateToWebSocket = TRUE]
  <2>1. hello \in {1, 2}
    BY <1>4, <1>8
  <2>2. h = send(w, Welcome, TEXT_FRAME, deflated)
    BY <1>4, <2>1 DEF handleHandshake
  <2>3. resp \in Seq(Octets) /\ (data[1] = 2) = (hello = 2)
    BY <1>4, <2>1 DEF Octets
  <2> HIDE DEF resp, h
  <2>4. u \in ConnType /\ u.state_ = "kConnected" /\ u.sent = <<>> /\ u.m_bClientCompressed = (hello = 2)
        /\ u.inputBuffer_ = rest /\ u.decoded = 0 /\ u.m_strParsedData = <<>>
        /\ u.closing = t.closing /\ u.polled = t.polled /\ u.session = t.session /\ u.ub = t.ub
    BY <1>6, <2>3 DEF ConnType
  <2> HIDE DEF u
  <2>5. r = [u EXCEPT !.sent = Append(u.sent, resp)]
    BY <2>4 DEF connSend
  <2>6. <<>> \in Seq(Seq(Octets)) /\ Append(<<>>, resp) \in Seq(Seq(Octets)) /\ Len(Append(<<>>, resp)) = 1
    <3>1. <<>> \in Seq(Seq(Octets)) /\ Len(<<>>) = 0
      OBVIOUS
    <3>2. Append(<<>>, resp) \in Seq(Seq(Octets)) /\ Len(Append(<<>>, resp)) = Len(<<>>) + 1
      BY <2>3, <3>1, AppendProperties
    <3> QED
      BY <3>1, <3>2
  <2> DEFINE s == Append(<<>>, resp)
  <2>s. s \in Seq(Seq(Octets)) /\ Len(s) = 1
    BY <2>6
  <2>7. w = [u EXCEPT !.sent = s, !.m_bUpdateToWebSocket = TRUE]
    BY <2>4, <2>5 DEF ConnType
  <2> HIDE DEF s, w
  <2>8. /\ w \in ConnType /\ w.sent = s /\ w.state_ = "kConnected" /\ w.m_bClientCompressed = (hello = 2)
        /\ w.inputBuffer_ = rest /\ w.decoded = 0 /\ w.m_strParsedData = <<>> /\ w.m_bUpdateToWebSocket
        /\ w.closing = t.closing /\ w.polled = t.polled /\ w.session = t.session /\ w.ub = t.ub
    BY <2>4, <2>7, <2>s DEF ConnType
  <2>9. /\ h \in ConnType /\ OnlySends(w, h) /\ Replied(w, h, TEXT_FRAME, Welcome)
    <3>1. Welcome \in Seq(Octets) /\ Len(Welcome) < INT32_MAX /\ TEXT_FRAME \in {TEXT_FRAME, PONG}
      BY WelcomeAssumption
    <3> QED
      BY <2>2, <2>8, <3>1, SendReplies
  <2>10. /\ h.state_ = "kConnected" /\ h.m_bClientCompressed = (hello = 2)
         /\ h.inputBuffer_ = rest /\ h.decoded = 0 /\ h.m_strParsedData = <<>> /\ h.m_bUpdateToWebSocket
         /\ h.closing = t.closing /\ h.polled = t.polled /\ h.session = t.session /\ h.ub = t.ub
    BY <2>8, <2>9 DEF OnlySends
  <2>11. AtFrame(h, sc, g)
    BY <1>2, <1>5, <1>g, <2>10 DEF AtFrame
  <2>12. LeftOf(h, sc, g)
    BY <2>10 DEF LeftOf
  <2>13. h.m_strParsedData = SinceFin[sc][h.decoded]
    BY <2>10, SinceFinIs
  <2>14. ASSUME ~h.dropped PROVE RepliesOf(h, sc)
    <3> DEFINE rep == Reply(TEXT_FRAME, Welcome)
    <3>1. PICK b \in Seq(Octets) : h.sent = Append(s, b) /\ ClientReads(b) = rep
      BY <2>8, <2>9, <2>14 DEF Replied
    <3>2. Answers[sc][h.decoded] = <<rep>>
      BY <2>10, AnswersIs
    <3> HIDE DEF rep
    <3>3. Len(Append(s, b)) = Len(s) + 1 /\ Append(s, b)[Len(s) + 1] = b
      BY <2>s, AppendProperties, ZenonT(30)
    <3>4. Len(h.sent) = 1 + 1 /\ h.sent[1 + 1] = b
      BY <2>s, <3>1, <3>3
    <3>5. Len(<<rep>>) = 1 /\ <<rep>>[1] = rep
      OBVIOUS
    <3>6. \A k \in 1..1 : k = 1
      OBVIOUS
    <3> QED
      BY <3>1, <3>2, <3>4, <3>5, <3>6 DEF RepliesOf
  <2>15. Follows(h, sc, g)
    BY <2>1, <2>10, <2>11, <2>12, <2>13, <2>14 DEF Follows
  <2> QED
    BY <2>9, <2>10, <2>15 DEF h, v, data, rest
<1> QED
  BY <1>7, <1>8

\* What a read leaves alone.
Stays(t, r) ==
    /\ r.polled = t.polled /\ r.session = t.session /\ r.ub = t.ub
    /\ \/ r.state_ = "kConnected" /\ r.closing = t.closing
       \/ r.state_ = "kDisconnecting" /\ r.closing

\* Closing the connection does not move the session in the stream.
LEMMA CloseFollows ==
  ASSUME NEW sc \in Scripts, NEW g, NEW t, NEW r, r.state_ # "kConnected",
         r.decoded = t.decoded, r.inputBuffer_ = t.inputBuffer_,
         r.m_bClientCompressed = t.m_bClientCompressed,
         r.sent = t.sent, r.m_strParsedData = t.m_strParsedData
  PROVE  (Follows(t, sc, g) => Follows(r, sc, g)) /\ (Waits(t, sc, g) => Waits(r, sc, g))
<1>1. InStepOf(r, sc) <=> InStepOf(t, sc)
  BY DEF InStepOf
<1>2. AtFrame(t, sc, g) => AtFrame(r, sc, g)
  BY DEF AtFrame
<1>3. LeftOf(t, sc, g) => LeftOf(r, sc, g)
  BY DEF LeftOf
<1> QED
  BY <1>1, <1>2, <1>3 DEF Follows, Waits

\* onRead keeps a session with its client, from before the handshake on.
LEMMA OnReadFollows ==
  ASSUME NEW sc \in Scripts, NEW g \in 0..Len(Wire[sc]), NEW t \in ConnType, t.state_ = "kConnected",
         t.m_bUpdateToWebSocket => Follows(t, sc, g),
         ~t.m_bUpdateToWebSocket => Waits(t, sc, g), NEW deflated \in BOOLEAN
  PROVE  LET r == onRead(t, deflated)
         IN /\ r \in ConnType /\ Stays(t, r)
            /\ r.m_bUpdateToWebSocket => Follows(r, sc, g)
            /\ ~r.m_bUpdateToWebSocket => Waits(r, sc, g) /\ (r.state_ = "kConnected" => g < 8)
            /\ r.state_ = "kConnected" => Caught(t, r, sc, g) /\ (InStepOf(r, sc) => InStepOf(t, sc))
<1> DEFINE in == t.inputBuffer_
           end == findString(in) + 3
           h == handleHandshake([t EXCEPT !.inputBuffer_ = SubSeq(in, end + 1, Len(in))],
                                SubSeq(in, 1, end), deflated)
           r == onRead(t, deflated)
           f == forceClose(t)
<1>1. r = IF Len(in) >= MAX_CLIENT_PACKAGE_LENGTH THEN f
          ELSE IF t.m_bUpdateToWebSocket THEN readFrame(t, deflated)
          ELSE IF findString(in) = 0 THEN t
          ELSE IF h.m_bUpdateToWebSocket THEN readFrame(h, deflated)
          ELSE forceClose(h)
  BY DEF onRead
<1>2. t.m_bUpdateToWebSocket \in BOOLEAN /\ Len(Wire[sc]) \in Nat
  BY FrameEnds DEF ConnType
<1>g. g \in Nat /\ g <= Len(Wire[sc])
  BY <1>2
<1> HIDE DEF r, h
<1>3. CASE Len(in) >= MAX_CLIENT_PACKAGE_LENGTH
  <2>1. r = f
    BY <1>1, <1>3
  <2>2. /\ f \in ConnType /\ f.state_ = "kDisconnecting" /\ Served(t, f)
        /\ f.inputBuffer_ = t.inputBuffer_ /\ f.m_strParsedData = t.m_strParsedData
        /\ f.decoded = t.decoded /\ f.sent = t.sent /\ f.dropped = t.dropped
    BY ForceCloses
  <2> HIDE DEF f
  <2>3. Stays(t, f) /\ f.m_bUpdateToWebSocket = t.m_bUpdateToWebSocket
        /\ f.m_bClientCompressed = t.m_bClientCompressed /\ f.state_ # "kConnected"
    BY <2>2 DEF Served, Stays
  <2>4. (Follows(t, sc, g) => Follows(f, sc, g)) /\ (Waits(t, sc, g) => Waits(f, sc, g))
    BY <2>2, <2>3, CloseFollows
  <2> QED
    BY <2>1, <2>2, <2>3, <2>4 DEF r
<1>4. CASE ~(Len(in) >= MAX_CLIENT_PACKAGE_LENGTH) /\ t.m_bUpdateToWebSocket
  <2>1. r = readFrame(t, deflated)
    BY <1>1, <1>4
  <2>2. r \in ConnType /\ Served(t, r)
    BY <2>1, ReadServes
  <2>3. Follows(r, sc, g) /\ Caught(t, r, sc, g) /\ (InStepOf(r, sc) => InStepOf(t, sc))
    BY <1>4, <2>1, ReadFollows
  <2>4. Stays(t, r) /\ r.m_bUpdateToWebSocket
    BY <1>4, <2>2 DEF Served, Stays
  <2> QED
    BY <2>2, <2>3, <2>4 DEF r
<1>5. CASE ~(Len(in) >= MAX_CLIENT_PACKAGE_LENGTH) /\ ~t.m_bUpdateToWebSocket
  <2>1. Waits(t, sc, g) /\ in = SubSeq(Wire[sc], 1, g) /\ t.decoded = 0
    BY <1>5 DEF Waits
  <2>2. findString(in) = IF g < 8 THEN 0 ELSE 5
    <3>1. in = SubSeq(Wire[sc], 1, g)
      BY <2>1
    <3> HIDE DEF in
    <3> QED
      BY <3>1, HandshakeEnd, ZenonT(40)
  <2>3. FrameEnd[sc][0] = 8
    BY FrameEnds
  <2>4. CASE g < 8
    <3>1. r = t
      BY <1>1, <1>5, <2>2, <2>4
    <3>2. g < FrameEnd[sc][0] + 6
      BY <1>g, <2>3, <2>4
    <3>3. Caught(t, t, sc, g) /\ Stays(t, t)
      BY <2>1, <3>2 DEF Caught, Stays
    <3> QED
      BY <1>5, <2>1, <2>4, <3>1, <3>3 DEF r
  <2>5. CASE ~(g < 8)
    <3>1. end = 8 /\ g \in 8..Len(Wire[sc]) /\ findString(in) # 0
      BY <1>g, <1>2, <2>2, <2>5
    <3>2. /\ h \in ConnType /\ h.state_ = "kConnected" /\ h.closing = t.closing
          /\ h.polled = t.polled /\ h.session = t.session /\ h.ub = t.ub /\ h.decoded = 0
          /\ h.m_bUpdateToWebSocket => Follows(h, sc, g)
          /\ ~h.m_bUpdateToWebSocket => h.sent = <<>> /\ h.m_strParsedData = <<>>
      <4>1. h = handleHandshake([t EXCEPT !.inputBuffer_ = SubSeq(in, 8 + 1, Len(in))],
                                SubSeq(in, 1, 8), deflated)
        BY <3>1 DEF h
      <4>2. ~t.m_bUpdateToWebSocket /\ t.state_ = "kConnected" /\ Waits(t, sc, g)
        BY <1>5, <2>1
      <4> DEFINE q == handleHandshake([t EXCEPT !.inputBuffer_ = SubSeq(in, 8 + 1, Len(in))],
                                      SubSeq(in, 1, 8), deflated)
      <4>3. /\ q \in ConnType /\ q.state_ = "kConnected" /\ q.closing = t.closing
            /\ q.polled = t.polled /\ q.session = t.session /\ q.ub = t.ub /\ q.decoded = 0
            /\ q.m_bUpdateToWebSocket => Follows(q, sc, g)
            /\ ~q.m_bUpdateToWebSocket => q.sent = <<>> /\ q.m_strParsedData = <<>>
        <5>1. g \in 8..Len(Wire[sc])
          BY <3>1
        <5> QED
          BY <4>2, <5>1, HandshakeFollows
      <4>4. h = q
        BY <4>1
      <4> HIDE DEF q
      <4> QED
        BY <4>3, <4>4
    <3>3. CASE h.m_bUpdateToWebSocket
      <4>1. r = readFrame(h, deflated)
        BY <1>1, <1>5, <3>1, <3>3
      <4>2. r \in ConnType /\ Served(h, r)
        BY <3>2, <4>1, ReadServes
      <4>3. Follows(r, sc, g) /\ Caught(h, r, sc, g) /\ (InStepOf(r, sc) => InStepOf(h, sc))
        BY <3>2, <3>3, <4>1, ReadFollows
      <4>4. Stays(t, r) /\ r.m_bUpdateToWebSocket
        BY <3>2, <3>3, <4>2 DEF Served, Stays
      <4>5. Caught(t, r, sc, g) /\ (InStepOf(r, sc) => InStepOf(t, sc))
        BY <2>1, <3>2, <4>3 DEF Caught, InStepOf
      <4> QED
        BY <4>2, <4>3, <4>4, <4>5 DEF r
    <3>4. CASE ~h.m_bUpdateToWebSocket
      <4> DEFINE c == forceClose(h)
      <4>1. r = c
        BY <1>1, <1>5, <3>1, <3>4
      <4>2. /\ c \in ConnType /\ c.state_ = "kDisconnecting" /\ Served(h, c)
            /\ c.m_strParsedData = h.m_strParsedData /\ c.decoded = h.decoded /\ c.sent = h.sent
        BY <3>2, ForceCloses
      <4> HIDE DEF c
      <4>3. Stays(t, c) /\ ~c.m_bUpdateToWebSocket
        BY <3>2, <3>4, <4>2 DEF Served, Stays
      <4>4. Waits(c, sc, g)
        BY <3>2, <3>4, <4>2 DEF Waits
      <4> QED
        BY <4>1, <4>2, <4>3, <4>4 DEF r
    <3> QED
      BY <3>3, <3>4
  <2> QED
    BY <2>4, <2>5
<1> QED
  BY <1>2, <1>3, <1>4, <1>5

\* More bytes come in.
LEMMA InputGrows ==
  ASSUME NEW sc \in Scripts, NEW g \in 0..Len(Wire[sc]), NEW n \in Nat, g + n <= Len(Wire[sc]),
         NEW t \in ConnType, t.state_ = "kConnected"
  PROVE  LET u == [t EXCEPT !.inputBuffer_ = @ \o SubSeq(Wire[sc], g + 1, g + n)]
         IN /\ u \in ConnType /\ Stays(t, u) /\ u.state_ = "kConnected" /\ u.decoded = t.decoded
            /\ u.m_bUpdateToWebSocket = t.m_bUpdateToWebSocket
            /\ Follows(t, sc, g) => Follows(u, sc, g + n)
            /\ Waits(t, sc, g) => Waits(u, sc, g + n)
<1> DEFINE W == Wire[sc]
           in == t.inputBuffer_
           more == SubSeq(W, g + 1, g + n)
           x == in \o more
           u == [t EXCEPT !.inputBuffer_ = @ \o more]
           E(j) == FrameEnd[sc][j]
<1>1. W \in Seq(Octets) /\ Len(W) \in Nat /\ \A j \in 0..Len(sc.frames) : E(j) \in Nat
  BY FrameEnds
<1>2. in \in Seq(Octets) /\ t.decoded \in Nat
  BY DEF ConnType
<1>g. g \in Nat /\ g + n \in Nat /\ g <= g + n /\ (g + n) - g = n /\ g + n <= Len(W)
  BY <1>1
<1>3. more \in Seq(Octets) /\ Len(more) = n
  <2>1. W \in Seq(Octets)
    BY <1>1
  <2> HIDE DEF W
  <2>2. more \in Seq(Octets) /\ Len(more) = (g + n) - g
    BY <1>g, <2>1, Slice
  <2> QED
    BY <1>g, <2>2
<1>4. x \in Seq(Octets) /\ Len(x) = Len(in) + n /\ Len(in) \in Nat
  <2>1. in \in Seq(Octets)
    BY <1>2
  <2>2. more \in Seq(Octets)
    BY <1>3
  <2> HIDE DEF more, in
  <2>3. x \in Seq(Octets) /\ Len(x) = Len(in) + Len(more)
    BY <2>1, <2>2, ConcatProperties
  <2> QED
    BY <1>3, <2>1, <2>3, LenProperties
<1>5. u = [t EXCEPT !.inputBuffer_ = x]
  OBVIOUS
<1> HIDE DEF x, u
<1>6. /\ u \in ConnType /\ u.inputBuffer_ = x /\ u.decoded = t.decoded /\ u.state_ = "kConnected"
      /\ Stays(t, u) /\ u.m_bUpdateToWebSocket = t.m_bUpdateToWebSocket
      /\ u.m_bClientCompressed = t.m_bClientCompressed
      /\ u.sent = t.sent /\ u.m_strParsedData = t.m_strParsedData /\ u.dropped = t.dropped
  BY <1>4, <1>5 DEF ConnType, Stays
<1>7. ASSUME NEW a \in Nat, a <= g, in = SubSeq(W, a + 1, g) PROVE x = SubSeq(W, a + 1, g + n)
  <2>1. W \in Seq(Octets)
    BY <1>1
  <2> HIDE DEF W
  <2>2. SubSeq(W, a + 1, g) \o SubSeq(W, g + 1, g + n) = SubSeq(W, a + 1, g + n)
    BY <1>7, <1>g, <2>1, SliceGrows
  <2> QED
    BY <1>7, <2>2 DEF x
<1>8. ASSUME Follows(t, sc, g) PROVE Follows(u, sc, g + n)
  <2>1. InStepOf(u, sc) <=> InStepOf(t, sc)
    BY <1>6 DEF InStepOf
  <2>2. ASSUME InStepOf(t, sc), AtFrame(t, sc, g) PROVE AtFrame(u, sc, g + n)
    <3>1. t.decoded \in 0..Len(sc.frames)
      BY <2>2, NextFrame
    <3>2. E(t.decoded) \in Nat /\ E(t.decoded) <= g /\ in = SubSeq(W, E(t.decoded) + 1, g)
      BY <1>1, <2>2, <3>1 DEF AtFrame
    <3> DEFINE a == E(t.decoded)
    <3>3. a \in Nat /\ a <= g /\ in = SubSeq(W, a + 1, g)
      BY <3>2
    <3> HIDE DEF a, W, in
    <3>4. x = SubSeq(W, a + 1, g + n) /\ a <= g + n
      BY <1>7, <1>g, <3>3
    <3> QED
      BY <1>6, <3>4 DEF AtFrame, a, W
  <2>3. LeftOf(t, sc, g) => LeftOf(u, sc, g + n)
    <3>1. (g + n) - Len(u.inputBuffer_) = g - Len(t.inputBuffer_)
      <4> DEFINE a == Len(in)
                 b == Len(x)
      <4>1. a \in Nat /\ b = a + n /\ Len(u.inputBuffer_) = b /\ Len(t.inputBuffer_) = a
        BY <1>4, <1>6
      <4> HIDE DEF a, b
      <4>2. (g + n) - b = g - a
        BY <1>g, <4>1
      <4> QED
        BY <4>1, <4>2
    <3> QED
      BY <1>6, <3>1 DEF LeftOf
  <2>4. RepliesOf(t, sc) => RepliesOf(u, sc)
    BY <1>6 DEF RepliesOf
  <2> QED
    BY <1>6, <1>8, <2>1, <2>2, <2>3, <2>4 DEF Follows
<1>9. ASSUME Waits(t, sc, g) PROVE Waits(u, sc, g + n)
  <2>1. in = SubSeq(W, 0 + 1, g) /\ 0 <= g
    BY <1>9, <1>g DEF Waits
  <2> HIDE DEF W, in
  <2>2. x = SubSeq(W, 0 + 1, g + n)
    BY <1>7, <2>1
  <2> QED
    BY <1>6, <1>9, <2>2 DEF Waits, W
<1> QED
  BY <1>6, <1>8, <1>9 DEF u

-----------------------------------------------------------------------------
(* The inductive invariant *)

\* The types of the variables.
SessionTypeOK ==
    /\ script \in Scripts /\ got \in 0..Len(Wire[script])
    /\ merged \in BOOLEAN /\ errData \in BOOLEAN /\ conn \in ConnType

\* A connection that is read is connected, and a connected one has its session.
LifeInv ==
    /\ conn.polled /\ ~conn.closing => conn.state_ = "kConnected"
    /\ conn.state_ = "kConnected" => conn.session = "live" /\ ~conn.ub
    /\ conn.state_ = "kDisconnected" => ~conn.polled
    /\ conn.ub => errData

\* The session follows its client in the stream from the handshake on.
StreamInv ==
    /\ conn.m_bUpdateToWebSocket /\ ~conn.ub => Follows(conn, script, got)
    /\ ~conn.m_bUpdateToWebSocket =>
          Waits(conn, script, got) /\ (conn.state_ = "kConnected" => got < 8)

SessionInv == SessionTypeOK /\ LifeInv /\ StreamInv /\ WaitsOnlyAfterMerge

\* In the terms of the invariant.
LEMMA InStepIs == InStep <=> InStepOf(conn, script)
BY DEF InStep, InStepOf, Empty, HasData

\* handleClose on any connection.
LEMMA HandleCloses ==
  ASSUME NEW t \in ConnType, t.state_ = "kDisconnected" => ~t.polled
  PROVE  LET r == handleClose(t)
         IN /\ r \in ConnType /\ r.state_ = "kDisconnected" /\ ~r.polled /\ r.ub = t.ub
            /\ t.state_ # "kDisconnected" => r.session = "erased"
            /\ r.closing = t.closing /\ r.inputBuffer_ = t.inputBuffer_
            /\ r.m_bUpdateToWebSocket = t.m_bUpdateToWebSocket
            /\ r.m_bClientCompressed = t.m_bClientCompressed
            /\ r.m_strParsedData = t.m_strParsedData /\ r.decoded = t.decoded
            /\ r.sent = t.sent /\ r.dropped = t.dropped
<1> DEFINE r == handleClose(t)
<1>1. CASE t.state_ = "kDisconnected"
  <2>1. r = t
    BY <1>1 DEF handleClose
  <2> HIDE DEF r
  <2> QED
    BY <1>1, <2>1 DEF r
<1>2. CASE t.state_ # "kDisconnected"
  <2>1. r = [t EXCEPT !.state_ = "kDisconnected", !.polled = FALSE, !.session = "erased"]
    BY <1>2 DEF handleClose
  <2> HIDE DEF r
  <2> QED
    BY <2>1 DEF r, ConnType
<1> QED
  BY <1>1, <1>2

\* Once closed, nothing is left to keep.
LEMMA ClosedInv ==
  ASSUME SessionInv, conn' \in ConnType, conn'.state_ = "kDisconnected", ~conn'.polled,
         conn'.ub = conn.ub, conn'.inputBuffer_ = conn.inputBuffer_,
         conn'.m_bUpdateToWebSocket = conn.m_bUpdateToWebSocket,
         conn'.m_bClientCompressed = conn.m_bClientCompressed,
         conn'.m_strParsedData = conn.m_strParsedData, conn'.decoded = conn.decoded,
         conn'.sent = conn.sent, UNCHANGED <<script, got, merged, errData>>
  PROVE  SessionInv'
<1>1. SessionTypeOK' /\ LifeInv'
  BY DEF SessionInv, SessionTypeOK, LifeInv
<1>2. (Follows(conn, script, got) => Follows(conn', script, got))
      /\ (Waits(conn, script, got) => Waits(conn', script, got))
  <2> DEFINE t == conn
             r == conn'
  <2>1. /\ script \in Scripts /\ r.state_ # "kConnected" /\ r.decoded = t.decoded
        /\ r.inputBuffer_ = t.inputBuffer_ /\ r.m_bClientCompressed = t.m_bClientCompressed
        /\ r.sent = t.sent /\ r.m_strParsedData = t.m_strParsedData
    BY DEF SessionInv, SessionTypeOK
  <2> HIDE DEF t, r
  <2>2. (Follows(t, script, got) => Follows(r, script, got))
        /\ (Waits(t, script, got) => Waits(r, script, got))
    BY <2>1, CloseFollows
  <2> QED
    BY <2>2 DEF t, r
<1>3. StreamInv'
  <2>1. (Follows(conn, script, got))' <=> Follows(conn', script, got)
    BY DEF Follows, InStepOf, AtFrame, LeftOf, RepliesOf, HasData
  <2>2. (Waits(conn, script, got))' <=> Waits(conn', script, got)
    BY DEF Waits
  <2> QED
    BY <1>2, <2>1, <2>2 DEF SessionInv, StreamInv
<1>4. WaitsOnlyAfterMerge'
  BY DEF WaitsOnlyAfterMerge
<1> QED
  BY <1>1, <1>3, <1>4 DEF SessionInv

\* At the start no byte has come.
LEMMA SessionInvInit == SessionInit => SessionInv
<1> SUFFICES ASSUME SessionInit PROVE SessionInv
  OBVIOUS
<1>1. /\ script \in Scripts /\ got = 0 /\ merged = FALSE /\ errData = FALSE
      /\ conn = [state_ |-> "kConnected", polled |-> TRUE, closing |-> FALSE,
                 inputBuffer_ |-> <<>>, session |-> "live",
                 m_bUpdateToWebSocket |-> FALSE, m_bClientCompressed |-> FALSE,
                 m_strParsedData |-> <<>>, decoded |-> 0, sent |-> <<>>,
                 dropped |-> FALSE, ub |-> FALSE]
  BY DEF SessionInit
<1>2. <<>> \in Seq(Octets) /\ <<>> \in Seq(Seq(Octets))
  OBVIOUS
<1>3. conn \in ConnType
  BY <1>1, <1>2 DEF ConnType
<1>4. Wire[script] \in Seq(Octets) /\ Len(Wire[script]) \in Nat
  BY <1>1, FrameEnds
<1>5. SessionTypeOK
  <2>1. got \in 0..Len(Wire[script])
    BY <1>1, <1>4
  <2> QED
    BY <1>1, <1>3, <2>1 DEF SessionTypeOK
<1>6. LifeInv
  BY <1>1 DEF LifeInv
<1>7. Waits(conn, script, got)
  <2>1. SubSeq(Wire[script], 1, 0) = <<>>
    BY <1>4, SubSeqProperties
  <2> QED
    BY <1>1, <2>1 DEF Waits
<1>8. StreamInv
  BY <1>1, <1>7 DEF StreamInv
<1>9. WaitsOnlyAfterMerge
  <2>1. ASSUME NEW k \in 1..Len(script.frames) PROVE ~(FrameEnd[script][k] <= got) /\ ~(k <= conn.decoded)
    <3>1. k \in 0..Len(script.frames) /\ conn.decoded = 0 /\ k >= 1
      BY <1>1
    <3>2. 8 <= FrameEnd[script][k] /\ FrameEnd[script][k] \in Nat
      BY <1>1, <3>1, StreamParts, FrameEnds
    <3> QED
      BY <1>1, <3>1, <3>2
  <2> QED
    BY <2>1 DEF WaitsOnlyAfterMerge
<1> QED
  BY <1>5, <1>6, <1>8, <1>9 DEF SessionInv

\* No complete frame waits after a read that has completed one at most.
LEMMA CaughtUp ==
  ASSUME NEW sc \in Scripts, NEW g \in Nat, NEW n \in Nat, g + n <= Len(Wire[sc]),
         NEW t \in ConnType, NEW r \in ConnType, InStepOf(r, sc), InStepOf(t, sc),
         Caught(t, r, sc, g + n),
         \A k \in 1..Len(sc.frames) : FrameEnd[sc][k] >= FrameEnd[sc][k - 1] + 6,
         \A k \in 1..Len(sc.frames) : FrameEnd[sc][k] <= g <=> k <= t.decoded,
         ~ \E k \in 1..Len(sc.frames) - 1 : FrameEnd[sc][k] > g /\ FrameEnd[sc][k + 1] <= g + n
  PROVE  \A k \in 1..Len(sc.frames) : FrameEnd[sc][k] <= g + n <=> k <= r.decoded
<1> DEFINE N == Len(sc.frames)
           E(j) == FrameEnd[sc][j]
           d == t.decoded
           e == r.decoded
<1>1. N \in Nat /\ d \in Nat /\ e \in Nat /\ e \in {d, d + 1}
  BY FrameType DEF ConnType, Caught
<1>2. \A j \in 0..N : E(j) \in Nat
  BY FrameEnds
<1>3. \A k \in 1..N : \A j \in 0..(k - 1) : E(j) + 2 <= E(k)
  BY FrameEndsGrow
<1>4. /\ \A k \in 1..N : E(k) >= E(k - 1) + 6
      /\ \A k \in 1..N : E(k) <= g <=> k <= d
      /\ \A k \in 1..N - 1 : ~(E(k) > g /\ E(k + 1) <= g + n)
      /\ \A k \in 1..e : k <= N
  BY DEF InStepOf
<1>5. d + 1 \in 1..N =>
         \/ e = d /\ (g + n < E(d) + 6 \/ g + n < E(d + 1))
         \/ e = d + 1 /\ E(d + 1) <= g + n
  BY DEF Caught
<1>6. \A k \in 1..d : k <= N
  BY DEF InStepOf
<1> HIDE DEF N, E, d, e
<1>7. d \in 0..N /\ e \in 0..N
  <2>1. d > 0 => d \in 1..d
    BY <1>1
  <2>2. e > 0 => e \in 1..e
    BY <1>1
  <2> QED
    BY <1>1, <1>4, <1>6, <2>1, <2>2
<1>8. ASSUME NEW k \in 1..N PROVE E(k) <= g + n <=> k <= e
  <2>1. k \in 0..N /\ k \in Nat /\ E(k) \in Nat
    BY <1>1, <1>2
  <2>2. CASE k <= d
    <3>1. E(k) <= g
      BY <1>4, <2>2
    <3> QED
      BY <1>1, <2>1, <2>2, <3>1
  <2>3. CASE ~(k <= d)
    <3>1. d + 1 \in 1..N /\ d + 1 <= k /\ d \in 0..N /\ d + 1 \in 0..N /\ (d + 1) - 1 = d
      BY <1>1, <1>7, <2>1, <2>3
    <3>2. E(d) \in Nat /\ E(d + 1) \in Nat /\ E(d + 1) >= E(d) + 6 /\ ~(E(d + 1) <= g)
      <4>1. ~(d + 1 <= d)
        BY <1>1
      <4> QED
        BY <1>2, <1>4, <3>1, <4>1
    <3>3. k = d + 1 \/ E(d + 1) + 2 <= E(k)
      <4>1. k # d + 1 => d + 1 \in 0..(k - 1)
        BY <1>1, <2>1, <3>1
      <4> QED
        BY <1>3, <4>1
    <3>4. E(d + 1) <= E(k)
      BY <2>1, <3>2, <3>3
    <3>5. CASE e = d
      <4>1. g + n < E(d + 1)
        BY <1>1, <1>5, <3>1, <3>2, <3>5
      <4> QED
        BY <2>1, <2>3, <3>2, <3>4, <3>5, <4>1
    <3>6. CASE e = d + 1
      <4>1. E(d + 1) <= g + n
        BY <1>1, <1>5, <3>1, <3>6
      <4>2. CASE k = d + 1
        BY <1>1, <3>6, <4>1, <4>2
      <4>3. CASE k # d + 1
        <5>1. d + 1 \in 1..N - 1 /\ (d + 1) + 1 \in 1..N /\ (d + 1) + 1 \in 0..N /\ (d + 1) + 1 <= k
          BY <1>1, <2>1, <3>1, <4>3
        <5>2. E((d + 1) + 1) \in Nat /\ E(d + 1) > g
          BY <1>2, <3>2, <5>1
        <5>3. ~(E((d + 1) + 1) <= g + n)
          BY <1>4, <5>1, <5>2
        <5>4. k = (d + 1) + 1 \/ E((d + 1) + 1) + 2 <= E(k)
          <6>1. k # (d + 1) + 1 => (d + 1) + 1 \in 0..(k - 1)
            BY <1>1, <2>1, <5>1
          <6> QED
            BY <1>3, <6>1
        <5>5. ~(E(k) <= g + n)
          BY <2>1, <5>2, <5>3, <5>4
        <5> QED
          BY <1>1, <2>1, <3>6, <5>1, <5>5
      <4> QED
        BY <4>2, <4>3
    <3> QED
      BY <1>1, <3>5, <3>6
  <2> QED
    BY <2>2, <2>3
<1> QED
  BY <1>8 DEF N, E, e

\* A poll result with bytes, and perhaps with an error.
LEMMA ReceiveInv ==
  ASSUME SessionInv, NEW n \in 1..Len(Wire[script]), NEW err \in BOOLEAN, NEW deflated \in BOOLEAN,
         Receive(n, err, deflated)
  PROVE  SessionInv'
<1> DEFINE e == IF err THEN handleClose(conn) ELSE conn
           t == [e EXCEPT !.inputBuffer_ = @ \o SubSeq(Wire[script], got + 1, got + n)]
           sc == script
           W == Wire[script]
<1>1. /\ script \in Scripts /\ got \in 0..Len(W) /\ merged \in BOOLEAN /\ errData \in BOOLEAN
      /\ conn \in ConnType
  BY DEF SessionInv, SessionTypeOK
<1>2. /\ conn.polled /\ ~conn.closing /\ got + n <= Len(W) /\ got' = got + n
      /\ conn' = IF t.session = "erased" THEN [t EXCEPT !.ub = TRUE] ELSE onRead(t, deflated)
      /\ merged' = (merged \/ \E k \in 1..Len(script.frames) - 1 :
                                 FrameEnd[script][k] > got /\ FrameEnd[script][k + 1] <= got + n)
      /\ errData' = (errData \/ err) /\ script' = script
  BY DEF Receive
<1>3. W \in Seq(Octets) /\ Len(W) \in Nat
  BY <1>1, FrameEnds
<1>4. n \in Nat /\ got \in Nat /\ got + n \in 0..Len(W)
  BY <1>1, <1>2, <1>3
<1>5. conn.state_ = "kConnected" /\ conn.session = "live" /\ ~conn.ub
  BY <1>2 DEF SessionInv, LifeInv
<1>6. script' \in Scripts /\ got' \in 0..Len(Wire[script'])
      /\ merged' \in BOOLEAN /\ errData' \in BOOLEAN
  BY <1>1, <1>2, <1>4
<1> HIDE DEF t, e, W
<1>7. CASE err
  <2>1. e = handleClose(conn)
    BY <1>7 DEF e
  <2>2. /\ e \in ConnType /\ e.state_ = "kDisconnected" /\ ~e.polled /\ e.session = "erased"
        /\ e.m_bUpdateToWebSocket = conn.m_bUpdateToWebSocket
        /\ e.m_strParsedData = conn.m_strParsedData /\ e.decoded = conn.decoded
        /\ e.sent = conn.sent
    BY <1>1, <1>5, <2>1, HandleCloses
  <2> DEFINE more == SubSeq(Wire[script], got + 1, got + n)
             x == e.inputBuffer_ \o more
  <2>3. x \in Seq(Octets)
    <3>1. W \in Seq(Octets) /\ got + n \in Nat /\ got <= got + n /\ got + n <= Len(W)
      BY <1>2, <1>3, <1>4
    <3>2. W \in Seq(Octets)
      BY <3>1
    <3>3. more \in Seq(Octets)
      BY <1>4, <3>1, <3>2, Slice DEF W
    <3>4. e.inputBuffer_ \in Seq(Octets)
      BY <2>2 DEF ConnType
    <3> HIDE DEF more
    <3> QED
      BY <3>3, <3>4, ConcatProperties
  <2>4. t = [e EXCEPT !.inputBuffer_ = x]
    BY DEF t
  <2> HIDE DEF x
  <2>5. /\ t \in ConnType /\ t.session = "erased" /\ t.state_ = "kDisconnected" /\ ~t.polled
        /\ t.m_bUpdateToWebSocket = conn.m_bUpdateToWebSocket
        /\ t.m_strParsedData = conn.m_strParsedData /\ t.decoded = conn.decoded
        /\ t.sent = conn.sent
    BY <2>2, <2>3, <2>4 DEF ConnType
  <2>6. conn' = [t EXCEPT !.ub = TRUE]
    BY <1>2, <2>5
  <2>7. /\ conn' \in ConnType /\ conn'.state_ = "kDisconnected" /\ ~conn'.polled /\ conn'.ub
        /\ conn'.m_bUpdateToWebSocket = conn.m_bUpdateToWebSocket
        /\ conn'.m_strParsedData = conn.m_strParsedData /\ conn'.decoded = conn.decoded
        /\ conn'.sent = conn.sent
    BY <2>5, <2>6 DEF ConnType
  <2>8. SessionTypeOK'
    BY <1>6, <2>7 DEF SessionTypeOK
  <2>9. LifeInv'
    BY <1>2, <1>7, <2>7 DEF LifeInv
  <2>10. StreamInv'
    BY <2>7 DEF SessionInv, StreamInv, Waits
  <2>11. WaitsOnlyAfterMerge'
    BY <2>7 DEF WaitsOnlyAfterMerge
  <2> QED
    BY <2>8, <2>9, <2>10, <2>11 DEF SessionInv
<1>8. CASE ~err
  <2> DEFINE g == got + n
             r == onRead(t, deflated)
  <2>1. e = conn
    BY <1>8 DEF e
  <2>2. t = [conn EXCEPT !.inputBuffer_ = @ \o SubSeq(Wire[script], got + 1, got + n)]
    BY <2>1 DEF t
  <2>3. /\ t \in ConnType /\ Stays(conn, t) /\ t.state_ = "kConnected" /\ t.decoded = conn.decoded
        /\ t.m_bUpdateToWebSocket = conn.m_bUpdateToWebSocket
        /\ Follows(conn, script, got) => Follows(t, script, g)
        /\ Waits(conn, script, got) => Waits(t, script, g)
    <3> DEFINE s == got
               u == [conn EXCEPT !.inputBuffer_ = @ \o SubSeq(Wire[script], s + 1, s + n)]
    <3>1. s \in 0..Len(Wire[script]) /\ n \in Nat /\ s + n <= Len(Wire[script])
      BY <1>1, <1>2, <1>4 DEF W
    <3>2. u = t
      BY <2>2
    <3>3. /\ u \in ConnType /\ Stays(conn, u) /\ u.state_ = "kConnected" /\ u.decoded = conn.decoded
          /\ u.m_bUpdateToWebSocket = conn.m_bUpdateToWebSocket
          /\ Follows(conn, script, s) => Follows(u, script, s + n)
          /\ Waits(conn, script, s) => Waits(u, script, s + n)
      <4> HIDE DEF s
      <4> QED
        BY ONLY <1>1, <1>5, <3>1, InputGrows
    <3> HIDE DEF u
    <3> QED
      BY <3>2, <3>3
  <2>4. t.session = "live" /\ t.ub = conn.ub /\ t.polled = conn.polled /\ t.closing = conn.closing
    BY <1>5, <2>3 DEF Stays
  <2>5. conn' = r
    BY <1>2, <2>4
  <2>6. /\ t.m_bUpdateToWebSocket => Follows(t, script, g)
        /\ ~t.m_bUpdateToWebSocket => Waits(t, script, g)
    BY <1>5, <2>3 DEF SessionInv, StreamInv
  <2>7. /\ r \in ConnType /\ Stays(t, r)
        /\ r.m_bUpdateToWebSocket => Follows(r, script, g)
        /\ ~r.m_bUpdateToWebSocket => Waits(r, script, g) /\ (r.state_ = "kConnected" => g < 8)
        /\ r.state_ = "kConnected" =>
              Caught(t, r, script, g) /\ (InStepOf(r, script) => InStepOf(t, script))
    <3>1. g \in 0..Len(Wire[script])
      BY <1>4 DEF W
    <3> HIDE DEF g
    <3> QED
      BY <1>1, <2>3, <2>6, <3>1, OnReadFollows
  <2> HIDE DEF r, g
  <2>8. SessionTypeOK'
    BY <1>6, <2>5, <2>7 DEF SessionTypeOK
  <2>9. LifeInv'
    BY <1>2, <1>5, <2>4, <2>5, <2>7 DEF LifeInv, Stays
  <2>g. got' = g
    BY <1>2 DEF g
  <2>10. StreamInv'
    <3>1. (Follows(conn, script, got))' <=> Follows(conn', script', got')
      BY DEF Follows, InStepOf, AtFrame, LeftOf, RepliesOf, HasData
    <3>2. (Waits(conn, script, got))' <=> Waits(conn', script', got')
      BY DEF Waits
    <3> QED
      BY <1>2, <2>5, <2>7, <2>g, <3>1, <3>2 DEF StreamInv
  <2>11. WaitsOnlyAfterMerge'
    <3> DEFINE Short6 == \A k \in 1..Len(script.frames) : FrameEnd[script][k] >= FrameEnd[script][k - 1] + 6
    <3> SUFFICES ASSUME r.state_ = "kConnected", ~merged', InStepOf(r, script), Short6
                 PROVE  \A k \in 1..Len(script.frames) : FrameEnd[script][k] <= g <=> k <= r.decoded
      <4>1. InStep' <=> InStepOf(r, script)
        BY <1>2, <2>5 DEF InStep, InStepOf, Empty, HasData
      <4>2. NoShortFrame' <=> Short6
        BY <1>2 DEF NoShortFrame
      <4> HIDE DEF Short6
      <4> QED
        BY <1>2, <2>5, <2>g, <4>1, <4>2 DEF WaitsOnlyAfterMerge
    <3>1. InStepOf(t, script) /\ Caught(t, r, script, g)
      BY <2>7
    <3>2. InStepOf(conn, script)
      BY <2>3, <3>1 DEF InStepOf
    <3>3. ~merged /\ ~ \E k \in 1..Len(script.frames) - 1 :
                         FrameEnd[script][k] > got /\ FrameEnd[script][k + 1] <= got + n
      BY <1>2
    <3>4. \A k \in 1..Len(script.frames) : FrameEnd[script][k] <= got <=> k <= conn.decoded
      <4>1. InStep /\ NoShortFrame
        BY <3>2, InStepIs DEF NoShortFrame
      <4> QED
        BY <1>5, <3>3, <4>1 DEF SessionInv, WaitsOnlyAfterMerge
    <3> HIDE DEF Short6
    <3>5. \A k \in 1..Len(script.frames) : FrameEnd[script][k] <= got <=> k <= t.decoded
      BY <2>3, <3>4
    <3>6. \A k \in 1..Len(script.frames) : FrameEnd[script][k] <= got + n <=> k <= r.decoded
      BY <1>1, <1>2, <1>4, <2>3, <2>7, <3>1, <3>3, <3>5, CaughtUp DEF Short6, g, W
    <3> QED
      BY <3>6 DEF g
  <2> QED
    BY <2>8, <2>9, <2>10, <2>11 DEF SessionInv
<1> QED
  BY <1>7, <1>8

\* The two ways of closing.
LEMMA CloseInv ==
  ASSUME SessionInv, HangUp \/ RunForceClose
  PROVE  SessionInv'
<1> DEFINE c == handleClose(conn)
<1>1. conn \in ConnType /\ (conn.state_ = "kDisconnected" => ~conn.polled)
  BY DEF SessionInv, SessionTypeOK, LifeInv
<1>2. /\ c \in ConnType /\ c.state_ = "kDisconnected" /\ ~c.polled /\ c.ub = conn.ub
      /\ c.inputBuffer_ = conn.inputBuffer_
      /\ c.m_bUpdateToWebSocket = conn.m_bUpdateToWebSocket
      /\ c.m_bClientCompressed = conn.m_bClientCompressed
      /\ c.m_strParsedData = conn.m_strParsedData /\ c.decoded = conn.decoded /\ c.sent = conn.sent
  BY <1>1, HandleCloses
<1>3. UNCHANGED <<script, got, merged, errData>> /\ (conn' = c \/ conn' = [c EXCEPT !.closing = FALSE])
  BY DEF HangUp, RunForceClose
<1> HIDE DEF c
<1>4. /\ conn' \in ConnType /\ conn'.state_ = "kDisconnected" /\ ~conn'.polled
      /\ conn'.ub = conn.ub /\ conn'.inputBuffer_ = conn.inputBuffer_
      /\ conn'.m_bUpdateToWebSocket = conn.m_bUpdateToWebSocket
      /\ conn'.m_bClientCompressed = conn.m_bClientCompressed
      /\ conn'.m_strParsedData = conn.m_strParsedData /\ conn'.decoded = conn.decoded
      /\ conn'.sent = conn.sent
  <2>1. CASE conn' = c
    BY <1>2, <2>1
  <2>2. CASE conn' = [c EXCEPT !.closing = FALSE]
    BY <1>2, <2>2 DEF ConnType
  <2> QED
    BY <1>3, <2>1, <2>2
<1> QED
  BY <1>3, <1>4, ClosedInv

\* Every reachable state satisfies the invariant.
LEMMA SessionInvHolds == SessionSpec => []SessionInv
<1>1. SessionInv /\ [SessionNext]_sessionVars => SessionInv'
  <2> SUFFICES ASSUME SessionInv, [SessionNext]_sessionVars PROVE SessionInv'
    OBVIOUS
  <2>1. ASSUME NEW n \in 1..Len(Wire[script]), NEW err \in BOOLEAN, NEW deflated \in BOOLEAN,
               Receive(n, err, deflated)
        PROVE  SessionInv'
    BY <2>1, ReceiveInv
  <2>2. CASE HangUp \/ RunForceClose
    BY <2>2, CloseInv
  <2>3. CASE UNCHANGED sessionVars
    <3>1. UNCHANGED <<script, got, conn, merged, errData>>
      BY <2>3 DEF sessionVars
    <3>2. SessionTypeOK' /\ LifeInv'
      BY <3>1 DEF SessionInv, SessionTypeOK, LifeInv
    <3>3. StreamInv'
      BY <3>1 DEF SessionInv, StreamInv, Follows, InStepOf, AtFrame, LeftOf, RepliesOf, HasData, Waits
    <3>4. WaitsOnlyAfterMerge'
      BY <3>1 DEF SessionInv, WaitsOnlyAfterMerge, NoShortFrame, InStep, Empty
    <3> QED
      BY <3>2, <3>3, <3>4 DEF SessionInv
  <2> QED
    BY <2>1, <2>2, <2>3 DEF SessionNext
<1> QED
  BY <1>1, SessionInvInit, PTL DEF SessionSpec

-----------------------------------------------------------------------------
(* The session's properties, for every script, key, length and limit *)

\* The session cuts the stream where the client's frames end (decodePackage):
\* exactly while it is in step, two bytes short after a masked empty frame.
THEOREM FramesAreCut == SessionSpec => []FrameBoundaries
<1>1. SessionInv => FrameBoundaries
  <2> SUFFICES ASSUME SessionInv, conn.m_bUpdateToWebSocket, ~conn.ub
               PROVE  /\ InStep => Consumed = FrameEnd[script][conn.decoded]
                      /\ \A k \in 1..Len(script.frames) :
                            /\ k = conn.decoded /\ script.frames[k].key # <<>> /\ Empty(script.frames[k])
                            /\ \A j \in 1..k - 1 : ~Empty(script.frames[j])
                            => Consumed = FrameEnd[script][k] - 2
    BY DEF FrameBoundaries
  <2>1. Follows(conn, script, got) /\ script \in Scripts /\ got \in 0..Len(Wire[script]) /\ conn \in ConnType
    BY DEF SessionInv, StreamInv, SessionTypeOK
  <2>2. ASSUME InStep PROVE Consumed = FrameEnd[script][conn.decoded]
    <3>1. InStepOf(conn, script) /\ AtFrame(conn, script, got)
      BY <2>1, <2>2, InStepIs DEF Follows
    <3> DEFINE t == conn
               l == Len(t.inputBuffer_)
               a == FrameEnd[script][t.decoded]
    <3>2. l = got - a /\ t.decoded \in 0..Len(script.frames)
      BY <2>1, <3>1, NextFrame
    <3>3. a \in Nat /\ Len(Wire[script]) \in Nat
      BY <2>1, <3>2, FrameEnds
    <3>4. got \in Nat
      BY <2>1, <3>3
    <3> HIDE DEF l, a
    <3>5. got - l = a
      BY <3>2, <3>3, <3>4
    <3> QED
      BY <3>5 DEF Consumed, l, a
  <2>3. LeftOf(conn, script, got)
    BY <2>1 DEF Follows
  <2> QED
    BY <2>2, <2>3 DEF LeftOf, HasData, Empty, Consumed
<1> QED
  BY <1>1, SessionInvHolds, PTL

\* The client reads back the welcome, its unfragmented messages and a pong for
\* each ping, in order, whatever the lengths and keys (processPackage, send).
THEOREM RepliesInOrder == SessionSpec => []AnsweredInOrder
<1>1. SessionInv => AnsweredInOrder
  <2> SUFFICES ASSUME SessionInv, conn.m_bUpdateToWebSocket, InStep,
                      conn.state_ = "kConnected", ~conn.dropped
               PROVE  [k \in 1..Len(conn.sent) - 1 |-> ClientReads(conn.sent[k + 1])]
                         = Answers[script][conn.decoded]
    BY DEF AnsweredInOrder
  <2>1. Follows(conn, script, got) /\ script \in Scripts /\ got \in 0..Len(Wire[script]) /\ conn \in ConnType
    BY DEF SessionInv, StreamInv, SessionTypeOK, LifeInv
  <2>2. InStepOf(conn, script) /\ AtFrame(conn, script, got) /\ RepliesOf(conn, script)
    BY <2>1, InStepIs DEF Follows
  <2> DEFINE a == Answers[script][conn.decoded]
             s == conn.sent
  <2>3. a \in Seq(Replies)
    <3>1. conn.decoded \in 0..Len(script.frames)
      BY <2>1, <2>2, NextFrame
    <3> QED
      BY <2>1, <3>1, AnswersIs
  <2>4. Len(s) = Len(a) + 1 /\ \A k \in 1..Len(a) : ClientReads(s[k + 1]) = a[k]
    BY <2>2 DEF RepliesOf
  <2> HIDE DEF a, s
  <2>5. Len(a) \in Nat /\ a = [k \in 1..Len(a) |-> a[k]]
    <3>1. a \in [1..Len(a) -> Replies] /\ Len(a) \in Nat
      BY <2>3, LenProperties
    <3> QED
      BY <3>1
  <2>6. Len(s) - 1 = Len(a)
    BY <2>4, <2>5
  <2>7. [k \in 1..Len(s) - 1 |-> ClientReads(s[k + 1])] = [k \in 1..Len(a) |-> a[k]]
    BY <2>4, <2>6
  <2> QED
    BY <2>5, <2>7 DEF a, s
<1> QED
  BY <1>1, SessionInvHolds, PTL

\* The data collected is that of the frames since the last FIN (finishFrame).
THEOREM CollectedSinceFin == SessionSpec => []FragmentsSinceFin
<1>1. SessionInv => FragmentsSinceFin
  <2> SUFFICES ASSUME SessionInv, InStep, conn.state_ = "kConnected"
               PROVE  conn.m_strParsedData = SinceFin[script][conn.decoded]
    BY DEF FragmentsSinceFin
  <2>1. script \in Scripts /\ ~conn.ub
    BY DEF SessionInv, SessionTypeOK, LifeInv
  <2>2. CASE conn.m_bUpdateToWebSocket
    BY <2>1, <2>2, InStepIs DEF SessionInv, StreamInv, Follows
  <2>3. CASE ~conn.m_bUpdateToWebSocket
    <3>1. conn.m_strParsedData = <<>> /\ conn.decoded = 0
      BY <2>3 DEF SessionInv, StreamInv, Waits
    <3> QED
      BY <2>1, <3>1, SinceFinIs
  <2> QED
    BY <2>2, <2>3
<1> QED
  BY <1>1, SessionInvHolds, PTL

\* One frame per read is enough as long as no read completes two (onRead).
THEOREM NoFrameWaits == SessionSpec => []WaitsOnlyAfterMerge
<1>1. SessionInv => WaitsOnlyAfterMerge
  BY DEF SessionInv
<1> QED
  BY <1>1, SessionInvHolds, PTL

\* onRead meets a freed session only after an error and data in one poll result.
THEOREM SessionLives == SessionSpec => []SessionOutlivesReads
<1>1. SessionInv => SessionOutlivesReads
  BY DEF SessionInv, LifeInv, SessionOutlivesReads
<1> QED
  BY <1>1, SessionInvHolds, PTL
=============================================================================
