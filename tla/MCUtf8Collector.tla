--------------------------- MODULE MCUtf8Collector ---------------------------
(* Streams for TLC: up to three pieces, each a byte on one side of some    *)
(* boundary of UTF-8, a character, or the beginning of one.                *)
EXTENDS Utf8Collector

Bytes == {<<b>> : b \in {97, 128, 144, 160, 193, 195, 224, 237, 240, 244, 245}}
Characters == {<<195, 160>>, <<224, 160, 128>>, <<240, 144, 128, 191>>, <<244, 143, 191, 191>>}
Openings == {<<226, 130>>, <<240, 144, 128>>}
Pieces == Bytes \cup Characters \cup Openings

MCStreams == Pieces \cup {p \o q : p, q \in Pieces} \cup {p \o q \o r : p, q, r \in Pieces}
=============================================================================
