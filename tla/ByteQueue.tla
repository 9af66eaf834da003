------------------------------ MODULE ByteQueue ------------------------------
(***************************************************************************)
(* What net::Buffer promises its users: a queue of bytes.  Bytes are added *)
(* at the end (or, space permitting, in front of the queue) and taken off  *)
(* the front (or off the end); in between they neither change nor move.    *)
(***************************************************************************)
EXTENDS Naturals, Sequences

CONSTANTS Data,    \* the byte sequences that are added
          Counts   \* the numbers of bytes that are taken off

VARIABLES bytes,
          call     \* the last call and its argument

Call(op, data, n) == [op |-> op, data |-> data, n |-> n]

Init == bytes = <<>> /\ call = Call("new", <<>>, 0)

Put(data) == call' = Call("put", data, 0) /\ bytes' = bytes \o data

\* Refused when there is no space in front.
PutFront(data) == call' = Call("putFront", data, 0) /\ (bytes' = data \o bytes \/ bytes' = bytes)

\* Refused when there are not as many bytes.
Take(n) == /\ call' = Call("take", <<>>, n)
           /\ bytes' = IF n <= Len(bytes) THEN SubSeq(bytes, n + 1, Len(bytes)) ELSE bytes
Untake(n) == /\ call' = Call("untake", <<>>, n)
             /\ bytes' = IF n <= Len(bytes) THEN SubSeq(bytes, 1, Len(bytes) - n) ELSE bytes

Clear == call' = Call("clear", <<>>, 0) /\ bytes' = <<>>
Reserve(n) == call' = Call("reserve", <<>>, n) /\ bytes' = bytes

Next == \/ \E data \in Data : Put(data) \/ PutFront(data)
        \/ \E n \in Counts : Take(n) \/ Untake(n) \/ Reserve(n)
        \/ Clear

Spec == Init /\ [][Next]_<<bytes, call>>
==============================================================================
