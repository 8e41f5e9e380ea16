---------------------------- MODULE FrameDecoder ----------------------------
(***************************************************************************)
(* FrameDecoder (codec/decode.rs) on a stream that arrives in pieces, cut  *)
(* anywhere: inside a length, a mask or a payload.  FramedRead calls       *)
(* decode() until it asks for more bytes, and then reads some.  Between    *)
(* two calls of the endpoint's read(), or when a pending one was dropped,  *)
(* set_config() may change the limits.                                     *)
(***************************************************************************)
EXTENDS FrameCoding

CONSTANTS
  Streams,        \* what the peer may send: frames and their bytes
  Configs,        \* the parts of WebSocketConfig the decoder is given
  MaxChanges      \* set_config calls

DecoderConfig == [maxFrame : Nat, acceptUnmasked : BOOLEAN]
Frame == [header : Header, payload : Seq(Byte)]

(* A frame as it was sent, of its payload what there is, the payload       *)
(* length it announces, and its bytes.                                     *)
Item == [frame : Frame, len : Nat, bytes : Seq(Byte)]

ASSUME StreamsAssumption ==
  Streams \subseteq [items : Seq(Item), wire : Seq(Byte)]
ASSUME DecoderConfigsAssumption == Configs \subseteq DecoderConfig
ASSUME MaxChangesAssumption == MaxChanges \in Nat

VARIABLES
  sent,       \* history: the items of the stream, if that is what it holds
  wire,       \* the bytes of the stream
  arrived,    \* how many of them FramedRead has read
  pos,        \* how many of those decode() has taken out of the buffer
  header,     \* FrameDecoder::header
  cfg, unmask,
  hungry,     \* decode() has asked for more bytes
  yielded,    \* the frames it returned
  verdict,    \* "Ok" until it failed, or the stream ended
  begin,      \* history: where the frame being read begins
  changes

stream == <<sent, wire, unmask>>
vars == <<stream, arrived, pos, header, cfg, hungry, yielded, verdict, begin, changes>>

NoHeader == [header |-> [fin |-> TRUE, rsv1 |-> FALSE, rsv2 |-> FALSE, rsv3 |-> FALSE,
                         op |-> 8, mask |-> NoMask],
             len |-> 0, here |-> FALSE]

(* Types; what is consumed has arrived.                                    *)
TypeOK ==
  /\ wire \in Seq(Byte) /\ unmask \in BOOLEAN
  /\ arrived \in 0 .. Len(wire) /\ pos \in 0 .. arrived /\ begin \in 0 .. pos
  /\ header.here \in BOOLEAN
  /\ cfg \in Configs
  /\ hungry \in BOOLEAN
  /\ verdict \in {"Ok", "InvalidOpcode", "Capacity", "UnmaskedFrameFromClient", "End", "Io"}
  /\ changes \in Nat

(* from_framed_read: the handshake may have read past its own bytes.       *)
Init ==
  /\ \E s \in Streams : sent = s.items /\ wire = s.wire
  /\ unmask \in BOOLEAN
  /\ arrived \in 0 .. Len(wire)
  /\ pos = 0 /\ begin = 0
  /\ header = NoHeader
  /\ cfg \in Configs
  /\ hungry = FALSE /\ yielded = <<>> /\ verdict = "Ok" /\ changes = 0

-----------------------------------------------------------------------------
(* decode().                                                               *)

src == SubSeq(wire, pos + 1, arrived)

(* A header that was kept from an earlier call, or one that is complete.   *)
HasHeader == header.here \/ Complete(src)
Current ==
  IF header.here THEN header
  ELSE [header |-> HeaderIn(src), len |-> LengthIn(src), here |-> TRUE]
PayloadAt == IF header.here THEN pos ELSE pos + HeaderSize(src)

(* What is refused as soon as the header is there.                         *)
HeaderError ==
  IF header.here THEN "Ok"
  ELSE IF IsReserved(Current.header.op) THEN "InvalidOpcode"
  ELSE IF Current.len > cfg.maxFrame THEN "Capacity"
  ELSE "Ok"

Fits_Any(there, len) == TRUE
Fits_Strict(there, len) == there > len
Fits(there, len) == there >= len
Ready == HasHeader /\ HeaderError = "Ok" /\ Fits(arrived - PayloadAt, Current.len)

Called == verdict = "Ok" /\ ~hungry

NeedHeader ==
  /\ Called /\ ~HasHeader
  /\ hungry' = TRUE
  /\ UNCHANGED <<stream, arrived, pos, header, cfg, yielded, verdict, begin, changes>>

Kept_Forgotten(h) == NoHeader
Kept(h) == h

NeedPayload ==
  /\ Called /\ HasHeader /\ HeaderError = "Ok" /\ ~Ready
  /\ hungry' = TRUE
  /\ header' = Kept(Current)
  /\ pos' = PayloadAt
  /\ UNCHANGED <<stream, arrived, cfg, yielded, verdict, begin, changes>>

(* A header over the limit is out of the buffer, one with a bad opcode is  *)
(* not.                                                                    *)
RefuseHeader ==
  /\ Called /\ HasHeader /\ HeaderError # "Ok"
  /\ verdict' = HeaderError
  /\ pos' = IF HeaderError = "Capacity" THEN PayloadAt ELSE pos
  /\ UNCHANGED <<stream, arrived, header, cfg, hungry, yielded, begin, changes>>

(* The payload is taken, and the header with it.                           *)
Split ==
  /\ pos' = PayloadAt + Current.len
  /\ header' = NoHeader
Payload == SubSeq(wire, PayloadAt + 1, PayloadAt + Current.len)

LacksMask == unmask /\ Current.header.mask = NoMask /\ ~cfg.acceptUnmasked

RefuseUnmasked ==
  /\ Called /\ Ready /\ LacksMask
  /\ verdict' = "UnmaskedFrameFromClient"
  /\ Split
  /\ UNCHANGED <<stream, arrived, cfg, hungry, yielded, begin, changes>>

(* The payload's address may be at any distance from a word boundary.      *)
Decoded_Unrotated(align) ==
  LET h == Current.header
      met(k) == h.mask[MaskIndex_Unrotated(k - 1, Len(Payload), align) + 1] IN
  IF unmask /\ h.mask # NoMask
    THEN [header |-> [h EXCEPT !.mask = NoMask],
          payload |-> [k \in 1 .. Len(Payload) |-> ByteXor(Payload[k], met(k))]]
    ELSE [header |-> h, payload |-> Payload]
Decoded(align) ==
  LET h == Current.header IN
  IF unmask /\ h.mask # NoMask
    THEN [header |-> [h EXCEPT !.mask = NoMask],
          payload |-> ApplyMask(Payload, h.mask, align)]
    ELSE [header |-> h, payload |-> Payload]

YieldFrame ==
  /\ Called /\ Ready /\ ~LacksMask
  /\ \E align \in 0 .. 3 : yielded' = Append(yielded, Decoded(align))
  /\ Split
  /\ begin' = pos'
  /\ UNCHANGED <<stream, arrived, cfg, hungry, verdict, changes>>

-----------------------------------------------------------------------------
(* FramedRead reads any number of bytes, or finds the end of the stream:   *)
(* an error if it has bytes left over.                                     *)

Arrive ==
  /\ verdict = "Ok" /\ hungry
  /\ \E n \in arrived + 1 .. Len(wire) : arrived' = n
  /\ hungry' = FALSE
  /\ UNCHANGED <<stream, pos, header, cfg, yielded, verdict, begin, changes>>

AtEnd ==
  /\ verdict = "Ok" /\ hungry /\ arrived = Len(wire)
  /\ verdict' = IF pos = arrived THEN "End" ELSE "Io"
  /\ UNCHANGED <<stream, arrived, pos, header, cfg, hungry, yielded, begin, changes>>

(* set_config(); the frame whose header is kept has passed its limit.      *)
SetConfig ==
  /\ verdict = "Ok" /\ changes < MaxChanges
  /\ \E c \in Configs \ {cfg} : cfg' = c
  /\ changes' = changes + 1
  /\ UNCHANGED <<stream, arrived, pos, header, hungry, yielded, verdict, begin>>

Decode == NeedHeader \/ NeedPayload \/ RefuseHeader \/ RefuseUnmasked \/ YieldFrame
Read == Arrive \/ AtEnd

(* Nothing more is read once the decoder has failed or the stream ended.   *)
Over == verdict # "Ok" /\ UNCHANGED vars

Next == Decode \/ Read \/ SetConfig \/ Over

Spec == Init /\ [][Next]_vars

(* A pending read() is polled as long as bytes come, and bytes come.       *)
FairSpec == Spec /\ WF_vars(Decode) /\ WF_vars(Read)
=============================================================================
