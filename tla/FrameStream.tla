---------------------------- MODULE FrameStream ----------------------------
(***************************************************************************)
(* What a frame decoder promises: it reads the frames of a byte stream one *)
(* after the other, as one who has the whole stream before him would, and  *)
(* stops at the first it refuses or at the end.                            *)
(***************************************************************************)
EXTENDS FrameCoding

CONSTANTS Configs     \* the limits and the acceptUnmasked flags in use

VARIABLES
  wire,       \* the byte stream
  unmask,     \* whether this end takes masks off
  pos,        \* where the next frame begins
  yielded,    \* the frames read
  verdict     \* "Ok", or why there are no more frames

vars == <<wire, unmask, pos, yielded, verdict>>

Rest == SubSeq(wire, pos + 1, Len(wire))
FrameEnd == pos + HeaderSize(Rest) + LengthIn(Rest)
Body == SubSeq(wire, pos + HeaderSize(Rest) + 1, FrameEnd)

(* Every byte meets the mask at its offset in the payload.                 *)
Unmasked(buf, mask) == [k \in 1 .. Len(buf) |-> ByteXor(buf[k], mask[((k - 1) % 4) + 1])]

FrameHere ==
  LET h == HeaderIn(Rest) IN
  IF unmask /\ h.mask # NoMask
    THEN [header |-> [h EXCEPT !.mask = NoMask], payload |-> Unmasked(Body, h.mask)]
    ELSE [header |-> h, payload |-> Body]

WholeFrame(c) ==
  /\ Complete(Rest) /\ ~IsReserved(HeaderIn(Rest).op)
  /\ LengthIn(Rest) <= c.maxFrame
  /\ FrameEnd <= Len(wire)

Init ==
  /\ pos = 0 /\ yielded = <<>> /\ verdict = "Ok"
  /\ wire \in Seq(Byte) /\ unmask \in BOOLEAN

Yield ==
  /\ verdict = "Ok"
  /\ \E c \in Configs : WholeFrame(c)
  /\ ~unmask \/ HeaderIn(Rest).mask # NoMask \/ \E c \in Configs : c.acceptUnmasked
  /\ yielded' = Append(yielded, FrameHere)
  /\ pos' = FrameEnd
  /\ UNCHANGED <<wire, unmask, verdict>>

Refused(why) ==
  CASE why = "InvalidOpcode" -> Complete(Rest) /\ IsReserved(HeaderIn(Rest).op)
    [] why = "Capacity" ->
         /\ Complete(Rest) /\ ~IsReserved(HeaderIn(Rest).op)
         /\ \E c \in Configs : LengthIn(Rest) > c.maxFrame
    [] why = "UnmaskedFrameFromClient" ->
         /\ \E c \in Configs : WholeFrame(c)
         /\ unmask /\ HeaderIn(Rest).mask = NoMask
         /\ \E c \in Configs : ~c.acceptUnmasked
    [] OTHER -> FALSE

(* The stream ends, between two frames or, where an error or the end is    *)
(* reported, inside one.                                                   *)
Ended(why) ==
  /\ why \in {"End", "Io"}
  /\ ~Complete(Rest) \/ FrameEnd > Len(wire)
  /\ why = "Io" => Rest # <<>>

Stop ==
  /\ verdict = "Ok"
  /\ \E why \in {"InvalidOpcode", "Capacity", "UnmaskedFrameFromClient", "End", "Io"} :
       /\ Refused(why) \/ Ended(why)
       /\ verdict' = why
  /\ UNCHANGED <<wire, unmask, pos, yielded>>

Next == Yield \/ Stop

Spec == Init /\ [][Next]_vars
=============================================================================
