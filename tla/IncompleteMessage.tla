-------------------------- MODULE IncompleteMessage --------------------------
(***************************************************************************)
(* The reassembly of a fragmented message: message.rs, IncompleteMessage   *)
(* over StringCollector.  A text collector validates UTF-8 as fragments    *)
(* arrive and holds back the bytes of a sequence cut by a fragment         *)
(* boundary; here such a tail is one byte long (held).                     *)
(***************************************************************************)
EXTENDS Frames

CONSTANT Word                       \* 2^w for a usize of w bits, scaled down

ASSUME WordAssumption == Word \in Nat \ {0}

(* Option<usize>::None as a size limit: usize::MAX.                        *)
NoLimit == Word - 1

Partial == {m \in [type : {"Text", "Binary"}, parts : Seq(Nat), len : Nat,
                   held : BOOLEAN] : m.held => m.len > 0}
NoPartial == [type |-> "None", parts |-> <<>>, len |-> 0, held |-> FALSE]
MaybePartial == Partial \cup {NoPartial}

(* IncompleteMessage::new                                                  *)
NewPartial(type) == [type |-> type, parts |-> <<>>, len |-> 0, held |-> FALSE]

-----------------------------------------------------------------------------
(* Subtraction of usize values in a release build.                         *)
USub(a, b) == (a + Word - b) % Word

(* The size check of extend(): the first disjunct keeps the second from    *)
(* underflowing when the limit was lowered below what is already held.     *)
Overflows_Unguarded(len, portion, limit) == portion > USub(limit, len)
Overflows(len, portion, limit) ==
  \/ len > limit
  \/ portion > USub(limit, len)

(* StringCollector::extend.  A fragment that does not complete a held      *)
(* sequence empties the held bytes before it fails.                        *)
AcceptsText(held, body) ==
  \/ body.len = 0
  \/ held /\ body.utf8 = "closes"
  \/ ~held /\ body.utf8 \in {"whole", "opens"}

Grown(m, body) ==
  [m EXCEPT !.parts = Append(@, body.id), !.len = @ + body.len]

Collected(m, body) ==
  IF body.len = 0 THEN Grown(m, body)
                  ELSE [Grown(m, body) EXCEPT !.held = (body.utf8 = "opens")]

Unheld_Kept(m) == IF m.held THEN [m EXCEPT !.len = @ - 1] ELSE m
Unheld(m) == IF m.held THEN [m EXCEPT !.held = FALSE, !.len = @ - 1] ELSE m

(* IncompleteMessage::extend: the result, and what is left in the struct.  *)
Extend(m, body, limit) ==
  IF Overflows(m.len, body.len, limit) THEN [res |-> "Capacity", inc |-> m]
  ELSE IF m.type = "Binary" THEN [res |-> "Ok", inc |-> Grown(m, body)]
  ELSE IF AcceptsText(m.held, body) THEN [res |-> "Ok", inc |-> Collected(m, body)]
  ELSE [res |-> "Utf8", inc |-> Unheld(m)]

(* IncompleteMessage::complete: a text that ends inside a sequence is not  *)
(* a message.                                                              *)
CompleteFails(m) == m.held
Completed(m) == [type |-> m.type, parts |-> m.parts, len |-> m.len]
=============================================================================
