--------------------------- MODULE MCFrameDecoder ---------------------------
(* Streams for TLC.                                                        *)
EXTENDS FrameDecoderProperties, Bitwise

MCXor(a, b) == a ^^ b

Head0 == [fin |-> TRUE, rsv1 |-> FALSE, rsv2 |-> FALSE, rsv3 |-> FALSE, op |-> 1,
          mask |-> NoMask]
Key == <<109, 182, 0, 128>>
Data(n) == [i \in 1 .. n |-> (7 * i) % 256]

(* What this crate's encoder writes, its buffer at any alignment; a frame  *)
(* whose payload is lost; and another encoder's, with a longer length.     *)
Written(h, n, align) ==
  [frame |-> [header |-> h, payload |-> Data(n)], len |-> n,
   bytes |-> Encode(h, Data(n), align)]
HeaderOnly(h, n) ==
  [frame |-> [header |-> h, payload |-> <<>>], len |-> n, bytes |-> WriteHeader(h, n)]
Padded(h, n) ==
  [frame |-> [header |-> h, payload |-> Data(n)], len |-> n,
   bytes |-> <<h.op + 128, 127, 0, 0, 0, 0, 0, 0, 0, n>> \o Data(n)]

Ping == [Head0 EXCEPT !.op = 9]
Odd == [Head0 EXCEPT !.rsv1 = TRUE, !.rsv3 = TRUE, !.fin = FALSE, !.op = 0, !.mask = Key]
Hidden == [Head0 EXCEPT !.op = 2, !.mask = Key]
BadOp == [Head0 EXCEPT !.op = 11, !.mask = Key]

First == {Written(Ping, 0, 0), Padded(Head0, 2)} \cup {Written(Odd, 6, a) : a \in 0 .. 3}
Second == {Written(Hidden, 3, 1), Written(Head0, 4, 0), HeaderOnly(BadOp, 5),
           HeaderOnly(Odd, 125), HeaderOnly(Head0, 126), HeaderOnly(Hidden, 127),
           HeaderOnly(Hidden, 65535), HeaderOnly(Head0, 65536), HeaderOnly(Hidden, 16777215)}
Uncut(items) == [items |-> items, wire |-> Joined(items)]
Cut(items, n) == [items |-> items, wire |-> SubSeq(Joined(items), 1, n)]
MCStreams ==
  {Uncut(s) : s \in {<<x, y>> : x \in First, y \in Second}
                     \cup {<<Written(Hidden, 126, 3)>>, <<Written(Ping, 125, 0)>>}}
  \cup {Cut(<<Written(Odd, 6, 1), Padded(Head0, 2)>>, n) : n \in {0, 1, 5, 8, 12, 15, 23}}
  \cup {[items |-> <<>>, wire |-> w] : w \in {<<139, 255, 0, 0, 0, 0>>, <<255, 126, 0, 1, 7, 0>>}}

Limit(n, lenient) == [maxFrame |-> n, acceptUnmasked |-> lenient]
MCConfigs == {Limit(1073741823, FALSE), Limit(5, TRUE)}
=============================================================================
