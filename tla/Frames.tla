------------------------------- MODULE Frames -------------------------------
(***************************************************************************)
(* WebSocket frames as the rest of the crate sees them: an opcode, the     *)
(* header bits and a payload.  A payload is reduced to what the code tells *)
(* apart: which payload it is (id), how long it is (len, in bytes), and    *)
(* how its bytes relate to UTF-8 sequence boundaries (utf8).  In a Close   *)
(* frame the id is the status code of the first two bytes.                 *)
(***************************************************************************)
EXTENDS Naturals, Sequences

(* The five opcodes in use and the two reserved ranges: 3..7 are reserved  *)
(* data opcodes, 11..15 reserved control opcodes.                          *)
DataOps == {"Continue", "Text", "Binary", "ReservedData"}
ControlOps == {"Close", "Ping", "Pong", "ReservedControl"}
OpCode == DataOps \cup ControlOps

(* "whole": complete sequences only; "opens": ends inside a two-byte       *)
(* sequence; "closes": starts with the byte that completes it; "bad":      *)
(* starts with a byte that is invalid in either position.                  *)
Utf8Class == {"whole", "opens", "closes", "bad"}

Payload == [id : Nat, len : Nat, utf8 : Utf8Class]
Empty == [id |-> 0, len |-> 0, utf8 |-> "whole"]

Frame == [op : OpCode, fin : BOOLEAN, rsv : BOOLEAN, masked : BOOLEAN,
          body : Payload]
NoFrame == [op |-> "None", fin |-> TRUE, rsv |-> FALSE, masked |-> FALSE,
            body |-> Empty]
MaybeFrame == Frame \cup {NoFrame}

(* FrameHeader::default() for a given opcode: final, no reserved bit, no   *)
(* mask.                                                                   *)
Plain(op, body) ==
  [op |-> op, fin |-> TRUE, rsv |-> FALSE, masked |-> FALSE, body |-> body]

-----------------------------------------------------------------------------
(* Close frames.                                                           *)

ProtocolCode == 1002
ReasonLen == 18                     \* length of "Protocol violation"

(* CloseCode::from(u16) and is_allowed: the codes with a name of their own *)
(* and the IANA and library ranges are allowed; 1005, 1006 and 1015 have   *)
(* names but are refused, 1016..2999 is Reserved, anything else is Bad.    *)
NamedCode  == (1000 .. 1003) \cup (1007 .. 1013)
IanaCode   == 3000 .. 3999
LibraryCode == 4000 .. 4999
IsAllowed(code) == code \in NamedCode \/ code \in IanaCode \/ code \in LibraryCode

(* What Frame::close puts in a frame for a CloseFrame kept as a payload.   *)
CloseOf(body) == Plain("Close", body)
PongOf(body)  == Plain("Pong", body)

(* The close frame do_close keeps: None stays None, a disallowed code is   *)
(* replaced by Protocol with a fixed reason.                               *)
Acceptable_Any(body) == body
Acceptable(body) ==
  IF body.len = 0 \/ IsAllowed(body.id)
    THEN body
    ELSE [id |-> ProtocolCode, len |-> 2 + ReasonLen, utf8 |-> "whole"]

-----------------------------------------------------------------------------
(* The messages read() returns: a data message keeps the ids of the        *)
(* payloads it was put together from.                                      *)

Message == [type : {"Text", "Binary", "Ping", "Pong", "Close"},
            parts : Seq(Nat), len : Nat]
NoMessage == [type |-> "None", parts |-> <<>>, len |-> 0]
MaybeMessage == Message \cup {NoMessage}

MessageOf(type, body) ==
  [type |-> type, parts |-> <<body.id>>, len |-> body.len]

(* Whether a sequence of frames holds a Close frame.                       *)
HasClose(frames) == \E i \in 1 .. Len(frames) : frames[i].op = "Close"

IsData(op) == op \in {"Continue", "Text", "Binary"}
=============================================================================
