------------------------- MODULE MCWebSocketSession -------------------------
(* Clients whose frames meet every branch of the decoder. *)
EXTENDS WebSocketSession, Bitwise

MCXorByte(a, b) == a ^^ b

F(fin, op, key, msg) == [fin |-> fin, op |-> op, key |-> key, msg |-> msg]
Long(n) == [i \in 1..n |-> i % 3]
K == <<129, 2, 7, 1>>

MCScripts ==
    { \* messages and a ping, then the end
      [hello |-> 1, frames |-> <<F(TRUE, TEXT_FRAME, K, <<5, 6>>), F(TRUE, PING, K, <<9>>),
                                 F(TRUE, BINARY_FRAME, <<>>, <<1, 2, 3, 4>>),
                                 F(TRUE, CLOSE, K, <<3, 232>>), F(TRUE, TEXT_FRAME, K, <<4>>)>>],
      \* a message in fragments, one with a ping in between, one after them
      [hello |-> 1, frames |-> <<F(FALSE, TEXT_FRAME, K, <<5>>), F(FALSE, CONTINUATION_FRAME, K, <<6>>),
                                 F(TRUE, PING, K, <<9>>), F(TRUE, CONTINUATION_FRAME, K, <<7, 8>>),
                                 F(TRUE, TEXT_FRAME, K, <<1, 2>>)>>],
      \* permessage-deflate; the empty pong leaves bytes behind
      [hello |-> 2, frames |-> <<F(TRUE, TEXT_FRAME, K, <<5, 6>>), F(TRUE, PING, K, <<9>>),
                                 F(TRUE, PONG, K, <<>>), F(TRUE, BINARY_FRAME, K, <<4>>)>>],
      \* the lengths on both sides of each boundary
      [hello |-> 1, frames |-> <<F(TRUE, TEXT_FRAME, K, Long(125)), F(TRUE, TEXT_FRAME, K, Long(126))>>],
      [hello |-> 1, frames |-> <<F(TRUE, BINARY_FRAME, K, Long(UINT16_MAX)),
                                 F(TRUE, BINARY_FRAME, <<>>, Long(UINT16_MAX + 1))>>],
      \* a refused handshake
      [hello |-> 3, frames |-> <<F(TRUE, TEXT_FRAME, K, <<5>>)>>] }

MCWelcome == <<7, 7>>
=============================================================================
