----------------------- MODULE FrameDecoderProperties -----------------------
(***************************************************************************)
(* What the decoder owes those who sent the stream and those who read it.  *)
(***************************************************************************)
EXTENDS FrameDecoder, SequencesExt

(* A frame as the receiving end sees it: a server takes the mask off, a    *)
(* client leaves it and the masked payload alone.                          *)
Seen(item) ==
  IF unmask THEN [item.frame EXCEPT !.header.mask = NoMask]
  ELSE [header |-> item.frame.header,
        payload |-> SubSeq(item.bytes, Len(item.bytes) - item.len + 1, Len(item.bytes))]

(* Any encoder's bytes: a header that says what the frame's does, in any   *)
(* form of the length, and the payload, each byte masked by its offset.    *)
Masked(payload, mask) ==
  IF mask = NoMask THEN payload
  ELSE [k \in 1 .. Len(payload) |-> ByteXor(payload[k], mask[((k - 1) % 4) + 1])]
Carries(item) ==
  LET b == item.bytes
      h == item.frame.header
  IN /\ Len(b) >= 2 /\ Len(b) >= HeaderSize(b)
     /\ HeaderIn(b) = h /\ LengthIn(b) = item.len
     /\ SubSeq(b, HeaderSize(b) + 1, Len(b)) = Masked(item.frame.payload, h.mask)
     /\ Len(item.frame.payload) <= item.len
WholeItem(item) == Len(item.frame.payload) = item.len

(* The stream is frames, of which the last may lack some of its payload,   *)
(* and may end anywhere.                                                   *)
Joined(items) == FlattenSeq([i \in 1 .. Len(items) |-> items[i].bytes])
OfFrames ==
  /\ \A i \in 1 .. Len(sent) :
       Carries(sent[i]) /\ (i < Len(sent) => WholeItem(sent[i]))
  /\ IsPrefix(wire, Joined(sent))

(* The frames that come out are the frames that were sent, in order, and   *)
(* the header that is kept while its payload is under way is that of the   *)
(* next one: whatever the cuts, the three forms of a length, the mask, the *)
(* alignment of either buffer and the changes of limits in between.        *)
FramesSurvive ==
  LET next == Len(yielded) + 1 IN
  OfFrames =>
    /\ Len(yielded) <= Len(sent)
    /\ \A i \in 1 .. Len(yielded) : yielded[i] = Seen(sent[i])
    /\ header.here => /\ next <= Len(sent)
                      /\ header.header = sent[next].frame.header
                      /\ header.len = sent[next].len

(* A frame whose last byte is there is not held back: decode() does not    *)
(* ask for more bytes then, which might never come.                        *)
NothingHeldBack ==
  OfFrames /\ hungry /\ Len(yielded) < Len(sent) =>
    \/ arrived < Len(Joined(SubSeq(sent, 1, Len(yielded) + 1)))
    \/ ~WholeItem(sent[Len(yielded) + 1])

(* The decoder, fed piece by piece, reads the stream as one who has it all *)
(* before him.                                                             *)
Whole == INSTANCE FrameStream WITH pos <- begin
ReadsAsAWhole == Whole!Spec

(* Every stream is read to its end or to a frame that is refused, and if   *)
(* it ends with no byte missing every frame was read.                      *)
StreamIsRead ==
  LET ended == verdict \in {"End", "Io"}
      nothingMissing == wire = Joined(sent) /\ \A i \in 1 .. Len(sent) : WholeItem(sent[i])
  IN <>(verdict # "Ok" /\ (ended /\ nothingMissing => Len(yielded) = Len(sent)))
=============================================================================
