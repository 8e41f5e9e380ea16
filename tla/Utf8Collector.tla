---------------------------- MODULE Utf8Collector ----------------------------
(***************************************************************************)
(* The text of a fragmented message: message.rs, StringCollector, over     *)
(* frame/utf8/decode.rs, Incomplete.  A fragment may end inside a          *)
(* character; its bytes wait in a buffer of four for the next fragment.    *)
(***************************************************************************)
EXTENDS Utf8

CONSTANT Streams                  \* what the peer may send as one message

ASSUME StreamsAssumption == Streams \subseteq Seq(Byte)

VARIABLES
  wire,     \* the bytes of the message's fragments
  at,       \* how many of them extend() has been given
  data,     \* StringCollector::data
  held,     \* StringCollector::incomplete, buffer[..buffer_len]
  res,      \* what the last call returned
  refused   \* some extend() has failed

vars == <<wire, at, data, held, res, refused>>

BufferSize == 4

Init == /\ wire \in Streams
        /\ at = 0 /\ data = <<>> /\ held = <<>>
        /\ res = "none" /\ refused = FALSE

-----------------------------------------------------------------------------
(* Incomplete::try_complete_offsets: the held bytes and as much of the     *)
(* input as fits.  The bytes left in the buffer are the text, the error,   *)
(* or what waits for more.                                                 *)
Spliced(buffer, input) ==
  buffer \o Prefix(input, Min({Len(input), BufferSize - Len(buffer)}))

TryComplete_Untrimmed(buffer, input) ==
  LET spliced == Spliced(buffer, input)
      badLen == ErrorLen(spliced)
      Result(is, n) == [is |-> is, bytes |-> Prefix(spliced, n)]
  IN  IF ValidUpTo(spliced) > 0 THEN Result("text", Len(spliced))
      ELSE IF badLen > 0 THEN Result("error", badLen)
      ELSE Result("more", Len(spliced))
TryComplete(buffer, input) ==
  LET spliced == Spliced(buffer, input)
      upTo == ValidUpTo(spliced)
      badLen == ErrorLen(spliced)
      Result(is, n) == [is |-> is, bytes |-> Prefix(spliced, n)]
  IN  IF upTo > 0 THEN Result("text", upTo)
      ELSE IF badLen > 0 THEN Result("error", badLen)
      ELSE Result("more", Len(spliced))

(* checked_sub of the bytes that were held before.                         *)
Underflows(done, buffer) == done.is # "more" /\ Len(done.bytes) < Len(buffer)
Remaining_Unshifted(done, buffer, input) == After(input, Len(done.bytes))
Remaining(done, buffer, input) == After(input, Len(done.bytes) - Len(buffer))

(* The second half of StringCollector::extend, when nothing is held: the   *)
(* valid part is text, even if what follows it is an error.                *)
Outcome(d, h, r) == [data |-> d, held |-> h, res |-> r]

Scan_Strict(text, input) ==
  LET upTo == ValidUpTo(input)
      rest == After(input, upTo)
      longer == text \o Prefix(input, upTo)
  IN  IF rest = <<>> THEN Outcome(longer, <<>>, "Ok") ELSE Outcome(longer, <<>>, "Utf8")
Scan_HoldsErrors(text, input) ==
  LET upTo == ValidUpTo(input)
      rest == After(input, upTo)
      longer == text \o Prefix(input, upTo)
  IN  IF Len(rest) > BufferSize THEN Outcome(longer, <<>>, "Panic")
      ELSE Outcome(longer, rest, "Ok")
Scan(text, input) ==
  LET upTo == ValidUpTo(input)
      rest == After(input, upTo)
      longer == text \o Prefix(input, upTo)
  IN  IF rest = <<>> THEN Outcome(longer, <<>>, "Ok")
      ELSE IF ErrorLen(rest) > 0 THEN Outcome(longer, <<>>, "Utf8")
      ELSE IF Len(rest) > BufferSize THEN Outcome(longer, <<>>, "Panic")
      ELSE Outcome(longer, rest, "Ok")

(* StringCollector::extend                                                 *)
Extended(tail) ==
  LET done == TryComplete(held, tail)
  IN  IF held = <<>> THEN Scan(data, tail)
      ELSE IF Underflows(done, held) THEN Outcome(data, held, "Panic")
      ELSE CASE done.is = "more" -> Outcome(data, done.bytes, "Ok")
             [] done.is = "error" -> Outcome(data, <<>>, "Utf8")
             [] done.is = "text" -> Scan(data \o done.bytes, Remaining(done, held, tail))

-----------------------------------------------------------------------------
(* A fragment of any size.  A collector whose first fragment fails is      *)
(* discarded (websocket.rs, handle_frame); later it stays, and a caller    *)
(* that reads on extends it again.                                         *)
Extend ==
  /\ res \in {"none", "Ok", "Utf8"}
  /\ \E n \in at .. Len(wire) :
       LET e == Extended(SubSeq(wire, at + 1, n))
       IN  /\ at' = n
           /\ data' = e.data /\ held' = e.held
           /\ res' = IF res = "none" /\ e.res = "Utf8" THEN "Discarded" ELSE e.res
           /\ refused' = (refused \/ e.res = "Utf8")
  /\ UNCHANGED wire

(* StringCollector::into_string, after the last fragment.                  *)
Cut_Never == FALSE
Cut == held # <<>>
Complete ==
  /\ res = "Ok"
  /\ res' = IF Cut THEN "Incomplete" ELSE "Message"
  /\ UNCHANGED <<wire, at, data, held, refused>>

Over == res \in {"Message", "Incomplete", "Discarded"} /\ UNCHANGED vars

Next == Extend \/ Complete \/ Over
Spec == Init /\ [][Next]_vars

-----------------------------------------------------------------------------
Received == Prefix(wire, at)
Results == {"none", "Ok", "Utf8", "Discarded", "Message", "Incomplete"}

(* The buffer never fills up, and no subtraction or slice of extend()      *)
(* panics (decode.rs, the two checked_sub and from_bytes): "Panic" is not  *)
(* among the results.                                                      *)
TypeOK ==
  /\ wire \in Seq(Byte) /\ at \in 0 .. Len(wire)
  /\ data \in Seq(Byte) /\ held \in Seq(Byte) /\ Len(held) < BufferSize
  /\ res \in Results /\ refused \in BOOLEAN

(* What from_utf8_unchecked makes a String of is UTF-8, whatever the       *)
(* fragments, also in a collector that is extended after an error; and     *)
(* what is held is the beginning of a character.                           *)
DataIsText == IsText(data) /\ (held # <<>> => Opens(held))

(* No byte is lost, doubled or moved by the way through the buffer, and    *)
(* len() counts those received.                                            *)
NothingLost == ~refused => data \o held = Received

(* A message is refused at the fragment that makes it invalid, not later,  *)
(* and at no other: bytes that can still become a text are accepted.       *)
RefusedIffBad == refused <=> ~Promising(Received)

(* into_string succeeds exactly on the texts.                              *)
CompleteIsExact ==
  res \in {"Message", "Incomplete"} /\ ~refused =>
    (res = "Message" <=> IsText(Received))
=============================================================================
