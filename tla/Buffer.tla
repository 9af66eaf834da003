-------------------------------- MODULE Buffer --------------------------------
(***************************************************************************)
(* net/Buffer.h and Buffer.cpp: a vector of bytes with a reader and a      *)
(* writer index.  It grows only when the free space at both ends does not  *)
(* do; otherwise its content is moved to the front.  Positions are those   *)
(* of the C++ vector, from 0.                                              *)
(***************************************************************************)
EXTENDS Naturals, Sequences

CONSTANTS Byte,
          Zero,            \* what vector::resize fills with
          kCheapPrepend, kInitialSize,
          MaxLen,          \* bound on the length of the data of one call
          MaxReadable      \* bound on the bytes in the buffer

ASSUME BufferAssumption ==
    /\ Zero \in Byte
    /\ kCheapPrepend \in Nat /\ kInitialSize \in Nat
    /\ MaxLen \in Nat /\ MaxReadable \in Nat

VARIABLES buf,   \* [buffer_ : content by position, size, readerIndex_, writerIndex_]
          call   \* history: the last call and its argument

vars == <<buf, call>>

Data == UNION {[1..n -> Byte] : n \in 0..MaxLen}

\* The four members: the vector's content and size, and the two indices.
Vector(data, size, r, w) ==
    [buffer_ |-> data, size |-> size, readerIndex_ |-> r, writerIndex_ |-> w]

\* The buffer with its indices moved.
Moved(b, r, w) == Vector(b.buffer_, b.size, r, w)

\* Buffer(initialSize)
NewBuffer == Vector([p \in 0..kCheapPrepend + kInitialSize - 1 |-> Zero],
                    kCheapPrepend + kInitialSize, kCheapPrepend, kCheapPrepend)

readableBytes(b) == b.writerIndex_ - b.readerIndex_
writableBytes(b) == b.size - b.writerIndex_
prependableBytes(b) == b.readerIndex_

\* peek() and the readableBytes() bytes that follow, toStringPiece().
Content(b) == [i \in 1..readableBytes(b) |-> b.buffer_[b.readerIndex_ + i - 1]]

\* std::copy of data to position at.
Copied(b, at, data) ==
    Vector([p \in 0..b.size - 1 |-> IF p \in at..at + Len(data) - 1
                                    THEN data[p - at + 1] ELSE b.buffer_[p]],
           b.size, b.readerIndex_, b.writerIndex_)

Resized(b, n) ==
    Vector([p \in 0..n - 1 |-> IF p < b.size THEN b.buffer_[p] ELSE Zero],
           n, b.readerIndex_, b.writerIndex_)

MovedToFront(b) ==
    Moved(Copied(b, kCheapPrepend, Content(b)), kCheapPrepend, kCheapPrepend + readableBytes(b))

\* Mutant of makeSpace: the bytes reserved for prepend are counted as free.
makeSpaceWithoutReserve(b, len) ==
    IF writableBytes(b) + prependableBytes(b) < len
    THEN Resized(b, b.writerIndex_ + len)
    ELSE IF kCheapPrepend >= b.readerIndex_ THEN b ELSE MovedToFront(b)

makeSpace(b, len) ==
    IF writableBytes(b) + prependableBytes(b) < len + kCheapPrepend
    THEN Resized(b, b.writerIndex_ + len)
    ELSE IF kCheapPrepend >= b.readerIndex_ THEN b ELSE MovedToFront(b)

ensureWritableBytes(b, len) == IF writableBytes(b) < len THEN makeSpace(b, len) ELSE b

hasWritten(b, len) ==
    IF len > writableBytes(b) THEN b ELSE Moved(b, b.readerIndex_, b.writerIndex_ + len)

append(b, data) ==
    LET e == ensureWritableBytes(b, Len(data))
    IN hasWritten(Copied(e, e.writerIndex_, data), Len(data))

\* readFd: readv fills the writable bytes first and what is left goes through
\* extrabuf and append.
readFd(b, data) ==
    LET w == writableBytes(b)
        filled == Copied(b, b.writerIndex_, data)
    IN IF Len(data) <= w THEN Moved(filled, b.readerIndex_, b.writerIndex_ + Len(data))
       ELSE append(Moved(filled, b.readerIndex_, b.size), SubSeq(data, w + 1, Len(data)))

retrieveAll(b) == Moved(b, kCheapPrepend, kCheapPrepend)

\* Mutant of retrieve: the whole content resets the writer index only.
retrieveKeepsReader(b, len) ==
    IF len > readableBytes(b) THEN b
    ELSE IF len < readableBytes(b) THEN Moved(b, b.readerIndex_ + len, b.writerIndex_)
    ELSE Moved(b, b.readerIndex_, kCheapPrepend)

retrieve(b, len) ==
    IF len > readableBytes(b) THEN b
    ELSE IF len < readableBytes(b) THEN Moved(b, b.readerIndex_ + len, b.writerIndex_)
    ELSE retrieveAll(b)

unwrite(b, len) ==
    IF len > readableBytes(b) THEN b ELSE Moved(b, b.readerIndex_, b.writerIndex_ - len)

prepend(b, data) ==
    LET r == b.readerIndex_ - Len(data)
    IN IF Len(data) > prependableBytes(b) THEN b
       ELSE Moved(Copied(b, r, data), r, b.writerIndex_)

shrink(b, reserve) ==
    append(ensureWritableBytes(NewBuffer, readableBytes(b) + reserve), Content(b))

-----------------------------------------------------------------------------
Called(op, data, n) == call' = [op |-> op, data |-> data, n |-> n]

Init == buf = NewBuffer /\ call = [op |-> "new", data |-> <<>>, n |-> 0]

\* The bound on the content applies to the calls that add bytes.
Room(data) == readableBytes(buf) + Len(data) <= MaxReadable

Append_(data) == Room(data) /\ buf' = append(buf, data) /\ Called("put", data, 0)
ReadFd(data) == Room(data) /\ buf' = readFd(buf, data) /\ Called("put", data, 0)
Prepend(data) == Room(data) /\ buf' = prepend(buf, data) /\ Called("putFront", data, 0)
Retrieve(len) == buf' = retrieve(buf, len) /\ Called("take", <<>>, len)
RetrieveAll == buf' = retrieveAll(buf) /\ Called("clear", <<>>, 0)
Unwrite(len) == buf' = unwrite(buf, len) /\ Called("untake", <<>>, len)
Shrink(reserve) == buf' = shrink(buf, reserve) /\ Called("reserve", <<>>, reserve)
EnsureWritable(len) == buf' = ensureWritableBytes(buf, len) /\ Called("reserve", <<>>, len)

Next == \/ \E data \in Data : Append_(data) \/ ReadFd(data) \/ Prepend(data)
        \/ \E len \in 0..MaxLen : Retrieve(len) \/ Unwrite(len) \/ Shrink(len) \/ EnsureWritable(len)
        \/ RetrieveAll

Spec == Init /\ [][Next]_vars

-----------------------------------------------------------------------------
Ordered(b) ==
    /\ b.readerIndex_ \in Nat /\ b.writerIndex_ \in Nat /\ b.size \in Nat
    /\ b.readerIndex_ <= b.writerIndex_ /\ b.writerIndex_ <= b.size
    /\ kCheapPrepend <= b.size
    /\ b.buffer_ \in [0..b.size - 1 -> Byte]

\* The indices of the picture in Buffer.h, 0 <= readerIndex <= writerIndex <=
\* size, survive every sequence of calls: peek() and beginWrite() never leave
\* the vector.
IndicesOrdered == Ordered(buf)

\* Whatever the growth and the moves inside of the vector, the buffer is a queue
\* of bytes: every call does to its content what a queue would do, or nothing.
Queue == INSTANCE ByteQueue WITH bytes <- Content(buf), Counts <- 0..MaxLen
ImplementsByteQueue == Queue!Spec
===============================================================================
