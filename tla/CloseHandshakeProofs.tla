------------------------- MODULE CloseHandshakeProofs -------------------------
(***************************************************************************)
(* The two endpoints implement CloseHandshake, and flush() keeps its       *)
(* promise: the order of the frames from the codec's buffer to the wire.   *)
(***************************************************************************)
EXTENDS WebSocketSafety

-----------------------------------------------------------------------------
(* A caller is told of a normal close only by an endpoint that knows that  *)
(* the peer closes.                                                        *)

Tells(r) == ReadClosed(r)' => ReadClosed(r) \/ PeerCloses(r)

LEMMA TellsReading ==
  ASSUME TypeInv, NEW r \in Roles, SeenInv(r), Receiving(r)
  PROVE  Tells(r)
<1>1. TypeOK
  BY DEF TypeInv
<1>2. state[r] # "Terminated"
  BY DEF Receiving, DecodeRejects, FrameFails, FrameAnswered, FrameDelivered,
     FrameAbsorbed, NextEnd, NextFails, Reading, SeenInv, FutOk
<1>3. CASE FrameFails(r) \/ FrameDelivered(r) \/ DecodeRejects(r)
  <2>1. PICK res, msg : res # "ConnectionClosed" /\ Finish(r, "read", res, msg)
    BY <1>3, FrameIsNoClose DEF FrameFails, FrameDelivered, DecodeRejects
  <2> QED BY <1>1, <2>1, FinishCall DEF Tells
<1>4. CASE FrameAbsorbed(r)
  BY <1>4 DEF FrameAbsorbed, Tells, ReadClosed
<1>5. CASE FrameAnswered(r)
  <2>1. PICK f \in Arriving(r) :
          /\ WriteFrame(r, "read", ReadMessageFrame(r, f).reply, ReadMessageFrame(r, f).msg)
          /\ Handle(r, ReadMessageFrame(r, f))
    BY <1>5 DEF FrameAnswered
  <2>2. state'[r] = ReadMessageFrame(r, f).state
    BY <1>1, <2>1 DEF Handle, TypeOK
  <2>3. "read" \in Method \cup {"none"} /\ state'[r] # "Terminated"
    BY <1>2, <2>2, HandlingFacts DEF Moved, Method
  <2> QED BY <1>1, <2>1, <2>3, WriteFrameCall DEF Tells, ReadClosed
<1>6. CASE NextEnd(r)
  <2>1. Finish(r, "read", EndResult(r), NoMessage)
    BY <1>6 DEF NextEnd
  <2>2. ReadClosed(r)' => EndResult(r) = "ConnectionClosed"
    BY <1>1, <2>1, FinishCall
  <2> QED BY <2>2 DEF EndResult, PeerCloses, Tells
<1>7. CASE NextFails(r)
  <2>1. PICK kind \in IoKind : Finish(r, "read", IoResult(r, kind, TRUE), NoMessage)
    BY <1>7 DEF NextFails
  <2> DEFINE res == IoResult(r, kind, TRUE)
  <2>2. res = "ConnectionClosed" => PeerCloses(r)
    BY <1>1, <1>2, ResetIsNoClose
  <2>3. Finish(r, "read", res, NoMessage)
    BY <2>1
  <2> HIDE DEF res
  <2> QED BY <1>1, <2>2, <2>3, FinishCall DEF Tells
<1> QED BY <1>3, <1>4, <1>5, <1>6, <1>7 DEF Receiving

LEMMA TellsWriting ==
  ASSUME TypeInv, NEW r \in Roles, SeenInv(r), Sending(r)
  PROVE  Tells(r)
<1>1. TypeOK /\ fut[r] \in Future /\ fut[r].op \in Method \cup {"none"}
  BY DEF TypeInv, TypeOK, Future
<1>2. ASSUME NEW res, NEW msg, Finish(r, fut[r].op, res, msg),
             fut[r].op = "read" /\ res = "ConnectionClosed" => PeerCloses(r)
      PROVE  Tells(r)
  BY <1>1, <1>2, FinishCall DEF Tells
<1>3. CASE WriteSome(r)
  BY <1>3 DEF WriteSome, Tells, ReadClosed
<1>4. CASE WriteFails(r) \/ SyncFails(r)
  <2>1. PICK kind \in IoKind : Finish(r, fut[r].op, FlushResult(r, kind), NoMessage)
    BY <1>4 DEF WriteFails, SyncFails
  <2>2. fut[r].op = "read" /\ FlushResult(r, kind) = "ConnectionClosed" => PeerCloses(r)
    BY <1>1, ResetIsNoClose DEF FlushResult, SeenInv, FutOk
  <2> QED BY <1>2, <2>1, <2>2
<1>5. CASE SyncThenEncode(r)
  <2>1. Encode(r, fut[r].op, writeBuf[r], fut[r].frame, fut[r].msg) /\ state' = state
    BY <1>5 DEF SyncThenEncode, ws
  <2>2. fut[r].op = "read" => state'[r] # "Terminated"
    BY <2>1 DEF SeenInv, FutOk
  <2> QED BY <1>1, <2>1, <2>2, EncodeCall DEF Tells, ReadClosed
<1>6. CASE SyncThenReturn(r)
  BY <1>2, <1>6 DEF SyncThenReturn
<1>7. CASE SyncThenShutdown(r)
  BY <1>1, <1>7, SuspendFut DEF SyncThenShutdown, Tells, ReadClosed
<1>8. CASE Shutdown(r)
  <2>1. fut[r].op # "read" /\ Finish(r, fut[r].op, "ConnectionClosed", NoMessage)
    BY <1>8 DEF Shutdown, SeenInv, FutOk
  <2> QED BY <1>2, <2>1
<1>9. CASE ShutdownFails(r)
  BY <1>2, <1>9 DEF ShutdownFails
<1> QED BY <1>3, <1>4, <1>5, <1>6, <1>7, <1>8, <1>9 DEF Sending

LEMMA TellsStep ==
  ASSUME TypeInv, NEW r \in Roles, SeenInv(r), Step(r)
  PROVE  Tells(r)
<1>1. TypeOK
  BY DEF TypeInv
<1>2. ASSUME ret'[r] = ret[r] PROVE Tells(r)
  BY <1>2 DEF Tells, ReadClosed
<1>3. CASE Receiving(r) \/ Sending(r)
  BY <1>3, TellsReading, TellsWriting
<1>4. CASE CallRead(r)
  <2>1. CASE Finish(r, "read", "AlreadyClosed", NoMessage)
    BY <1>1, <2>1, FinishCall DEF Tells
  <2>2. CASE ~Terminated(r) /\ IsDone(r)
    BY <1>1, <2>2 DEF TypeOK, State, Terminated, IsDone, CanRead, PeerCloses, Tells
  <2>3. CASE Suspend(r, Await("read", "next", "none", NoFrame, NoMessage))
    BY <1>1, <1>2, <2>3, SuspendFut
  <2> QED BY <1>4, <2>1, <2>2, <2>3 DEF CallRead
<1>5. CASE CallWrite(r)
  <2>1. CASE \E res : Finish(r, "write", res, NoMessage)
    BY <1>1, <2>1, FinishCall DEF Tells
  <2>2. CASE \E f \in Menu[r] : WriteFrame(r, "write", f, NoMessage)
    <3>1. "write" \in Method \cup {"none"} /\ "write" # "read"
      BY DEF Method
    <3> QED BY <1>1, <2>2, <3>1, WriteFrameCall DEF Tells, ReadClosed
  <2> QED BY <1>5, <2>1, <2>2 DEF CallWrite
<1>6. CASE CallClose(r) \/ CallFlush(r)
  <2>1. CASE \E f : WriteFrame(r, "close", f, NoMessage)
    <3>1. "close" \in Method \cup {"none"} /\ "close" # "read"
      BY DEF Method
    <3> QED BY <1>1, <2>1, <3>1, WriteFrameCall DEF Tells, ReadClosed
  <2>2. CASE \E op \in {"close", "flush"} : FlushAll(r, op)
    BY <1>1, <2>2, FlushAllCall DEF Tells, ReadClosed
  <2> QED BY <1>6, <2>1, <2>2 DEF CallClose, CallFlush
<1>7. CASE SetConfig(r)
  BY <1>2, <1>7 DEF SetConfig
<1>8. CASE Surroundings(r)
  <2>1. ret'[r] \in {ret[r], NotReturned}
    BY <1>1, <1>8 DEF Surroundings, Cancel, Drop, Abandon, Break, ForeignSend,
       ForeignRead, ForeignDrop, TypeOK
  <2> QED BY <2>1 DEF Tells, ReadClosed, NotReturned
<1> QED BY <1>3, <1>4, <1>5, <1>6, <1>7, <1>8 DEF Step, Calling
-----------------------------------------------------------------------------
(* The order of the frames on their way to the wire.                       *)

(* e is w followed by b.                                                   *)
Splits(e, w, b) ==
  /\ Len(e) = Len(w) + Len(b)
  /\ \A i \in 1 .. Len(w) : w[i] = e[i]
  /\ \A i \in 1 .. Len(b) : e[Len(w) + i] = b[i]

Prefix(r) ==
  /\ Len(wired[r]) <= Len(encoded[r])
  /\ \A i \in 1 .. Len(wired[r]) : wired[r][i] = encoded[r][i]

(* What is left to write: with write_all, or in the buffer.                *)
Owed(r) ==
  IF fut[r].at = "write"
    THEN /\ Len(encoded[r]) = Len(wired[r]) + Len(out[r]) - done[r]
         /\ \A i \in 1 .. Len(out[r]) - done[r] :
              encoded[r][Len(wired[r]) + i] = out[r][done[r] + i]
    ELSE Splits(encoded[r], wired[r], writeBuf[r])

(* After a failed write the buffer holds frames that were written, but the *)
(* transport takes no more.                                                *)
Stuck(r) == dead[r] /\ (fut[r].at = "write" \/ writeBuf[r] # <<>>)

Promised(r) ==
  /\ fut[r] = Idle
  /\ ret[r].op \in {"flush", "close"}
  /\ ret[r].res \in {"Ok", "ConnectionClosed"}
  => wired[r] = encoded[r]

OrderInv(r) ==
  /\ Intact(r) => Prefix(r)
  /\ link[r] # "dropped" => Prefix(r) /\ (Owed(r) \/ Stuck(r))
  /\ fut[r].at # "idle" => link[r] # "dropped"
  /\ fut[r].at = "shutdown" => writeBuf[r] = <<>>
  /\ /\ fut[r].at \in {"write", "sync"} /\ fut[r].then = "encode"
     /\ fut[r].op \in {"flush", "close"}
     => CanRead(state[r])
  /\ Promised(r)

SeqTypes(r) ==
  /\ encoded[r] \in Seq(Frame) /\ writeBuf[r] \in Seq(Frame) /\ out[r] \in Seq(Frame)
  /\ wired[r] \in Seq(OnWire) /\ done[r] \in Nat

LEMMA SeqTypesHold == ASSUME TypeOK, NEW r \in Roles PROVE SeqTypes(r)
BY DEF TypeOK, SeqTypes

LEMMA FinishCallFields ==
  ASSUME TypeOK, NEW r \in Roles, NEW op, NEW res, NEW msg, Finish(r, op, res, msg)
  PROVE  /\ fut'[r].at = "idle" /\ fut'[r].then = "none"
         /\ ret'[r].op = op /\ ret'[r].res = res
<1>1. ret'[r] = [op |-> op, res |-> res]
  BY FinishFut
<1>2. ret'[r].op = op /\ ret'[r].res = res
  BY <1>1
<1> QED BY <1>2, FinishFut

LEMMA SplitsAppend ==
  ASSUME NEW e \in Seq(Frame), NEW w \in Seq(OnWire), NEW b \in Seq(Frame),
         NEW f \in Frame, Splits(e, w, b)
  PROVE  Splits(Append(e, f), w, Append(b, f))
<1>1. /\ Len(e) \in Nat /\ Len(w) \in Nat /\ Len(b) \in Nat
      /\ Len(e) = Len(w) + Len(b)
  BY DEF Splits
<1>2. /\ Len(Append(e, f)) = Len(e) + 1 /\ Append(e, f)[Len(e) + 1] = f
      /\ \A i \in 1 .. Len(e) : Append(e, f)[i] = e[i]
      /\ Len(Append(b, f)) = Len(b) + 1 /\ Append(b, f)[Len(b) + 1] = f
      /\ \A i \in 1 .. Len(b) : Append(b, f)[i] = b[i]
  BY AppendFacts
<1>3. ASSUME NEW i \in 1 .. Len(w) PROVE w[i] = Append(e, f)[i]
  BY <1>1, <1>2 DEF Splits
<1>4. ASSUME NEW i \in 1 .. Len(b) + 1
      PROVE  Append(e, f)[Len(w) + i] = Append(b, f)[i]
  <2>1. CASE i = Len(b) + 1
    BY <1>1, <1>2, <2>1
  <2>2. CASE i # Len(b) + 1
    <3>1. i \in 1 .. Len(b) /\ Len(w) + i \in 1 .. Len(e)
      BY <1>1, <2>2
    <3> QED BY <1>2, <3>1 DEF Splits
  <2> QED BY <2>1, <2>2
<1> QED BY <1>1, <1>2, <1>3, <1>4 DEF Splits

LEMMA SplitsEmpty ==
  ASSUME NEW e \in Seq(Frame), NEW w \in Seq(OnWire), Splits(e, w, <<>>)
  PROVE  w = e
<1>1. Len(e) = Len(w) /\ \A i \in 1 .. Len(w) : w[i] = e[i]
  BY DEF Splits
<1>2. w \in [1 .. Len(w) -> OnWire] /\ e \in [1 .. Len(e) -> Frame]
  OBVIOUS
<1> HIDE DEF OnWire, Frame
<1> QED BY <1>1, <1>2

LEMMA PrefixAppend ==
  ASSUME TypeOK, NEW r \in Roles, Prefix(r), wired'[r] = wired[r],
         NEW f \in Frame, encoded'[r] = Append(encoded[r], f)
  PROVE  Prefix(r)'
<1> DEFINE e == encoded[r]
           w == wired[r]
<1>1. Len(e) \in Nat /\ Len(w) \in Nat /\ e \in Seq(Frame)
  BY SeqTypesHold DEF SeqTypes
<1>2. Len(w) <= Len(e) /\ \A i \in 1 .. Len(w) : w[i] = e[i]
  BY DEF Prefix
<1> HIDE DEF e, w
<1>3. Len(w) <= Len(Append(e, f)) /\ \A i \in 1 .. Len(w) : w[i] = Append(e, f)[i]
  BY <1>1, <1>2, AppendFacts
<1> QED BY <1>3 DEF Prefix, e, w

LEMMA OwedAppend ==
  ASSUME TypeOK, NEW r \in Roles, fut[r].at # "write", Owed(r) \/ Stuck(r), NEW f \in Frame
  PROVE  Splits(Append(encoded[r], f), wired[r], Append(writeBuf[r], f)) \/ dead[r]
BY SeqTypesHold, SplitsAppend DEF SeqTypes, Owed, Stuck

(* The rest of r's half of the stream, as a call of r leaves it.           *)
Undisturbed(r) ==
  wired'[r] = wired[r] /\ dead'[r] = dead[r] /\ link'[r] = link[r]

LEMMA SubmitOrder ==
  ASSUME TypeOK, NEW r \in Roles, OrderInv(r), link[r] # "dropped",
         NEW buf \in Seq(Frame), NEW future, Submit(r, buf, future),
         future.at = "write", Undisturbed(r), Prefix(r)',
         future.then = "encode" /\ future.op \in {"flush", "close"} => CanRead(state'[r]),
         Splits(encoded'[r], wired[r], buf) \/ dead[r]
  PROVE  OrderInv(r)'
<1>1. /\ fut'[r] = future /\ out'[r] = buf /\ done'[r] = 0
  BY SuspendFut DEF TypeOK, Submit
<1>2. fut'[r] # Idle
  BY <1>1, AwaitThen DEF Idle
<1>3. Splits(encoded'[r], wired[r], buf) => Owed(r)'
  <2>1. Len(buf) - 0 = Len(buf) /\ Len(wired[r]) \in Nat
    BY SeqTypesHold DEF SeqTypes
  <2> QED BY <1>1, <2>1 DEF Owed, Splits, Undisturbed
<1>4. dead[r] => Stuck(r)'
  BY <1>1 DEF Stuck, Undisturbed
<1>5. Promised(r)'
  BY <1>2 DEF Promised
<1> QED BY <1>1, <1>3, <1>4, <1>5 DEF OrderInv, Undisturbed

LEMMA EncodeOrder ==
  ASSUME TypeOK, NEW r \in Roles, OrderInv(r), link[r] # "dropped",
         fut[r].at # "write", NEW op, NEW f \in Frame, NEW msg,
         Encode(r, op, writeBuf[r], f, msg), Undisturbed(r)
  PROVE  OrderInv(r)'
<1>1. /\ Prefix(r) /\ (Owed(r) \/ Stuck(r))
      /\ encoded'[r] = Append(encoded[r], f)
  BY DEF OrderInv, Encode, TypeOK
<1>2. Prefix(r)'
  BY <1>1, PrefixAppend DEF Undisturbed
<1>3. writeBuf[r] \in Seq(Frame) /\ Append(writeBuf[r], f) \in Seq(Frame)
      /\ Append(writeBuf[r], f) # <<>>
  BY SeqTypesHold, AppendFacts DEF SeqTypes
<1>4. Splits(encoded'[r], wired[r], Append(writeBuf[r], f)) \/ dead[r]
  BY <1>1, OwedAppend
<1>5. CASE op = "write"
  <2>1. /\ writeBuf'[r] = Append(writeBuf[r], f)
        /\ Finish(r, op, "Ok", NoMessage)
    BY <1>5 DEF Encode, TypeOK
  <2>2. /\ fut'[r].at = "idle" /\ fut'[r].then = "none"
        /\ ret'[r].op = op
    BY <2>1, FinishCallFields
  <2>3. Owed(r)' \/ Stuck(r)'
    BY <1>3, <1>4, <2>1, <2>2 DEF Owed, Stuck, Undisturbed
  <2> QED BY <1>2, <1>5, <2>2, <2>3 DEF OrderInv, Promised
<1>6. CASE op # "write"
  <2>1. Submit(r, Append(writeBuf[r], f), Await(op, "write", "return", NoFrame, msg))
    BY <1>6 DEF Encode
  <2> DEFINE future == Await(op, "write", "return", NoFrame, msg)
  <2>2. future.at = "write" /\ future.then = "return"
    BY AwaitThen
  <2> HIDE DEF future
  <2> QED BY <1>2, <1>3, <1>4, <2>1, <2>2, SubmitOrder DEF future
<1> QED BY <1>5, <1>6

LEMMA WriteFrameOrder ==
  ASSUME TypeOK, NEW r \in Roles, OrderInv(r), link[r] # "dropped",
         fut[r].at # "write", NEW op, NEW f \in Frame, NEW msg,
         WriteFrame(r, op, f, msg), Undisturbed(r),
         op \in {"flush", "close"} => CanRead(state'[r])
  PROVE  OrderInv(r)'
<1>1. Masked(r, f) \in Frame
  BY MaskedType
<1>2. CASE MustFlush(r)
  <2>1. /\ Submit(r, writeBuf[r], Await(op, "write", "encode", Masked(r, f), msg))
        /\ encoded' = encoded
    BY <1>2 DEF WriteFrame
  <2>2. Prefix(r)' /\ (Splits(encoded'[r], wired[r], writeBuf[r]) \/ dead[r])
    BY <2>1 DEF OrderInv, Prefix, Owed, Stuck, Undisturbed
  <2>3. writeBuf[r] \in Seq(Frame)
    BY SeqTypesHold DEF SeqTypes
  <2> QED BY <2>1, <2>2, <2>3, SubmitOrder, AwaitThen
<1>3. CASE ~MustFlush(r)
  BY <1>1, <1>3, EncodeOrder DEF WriteFrame
<1> QED BY <1>2, <1>3

(* A step that leaves the codec alone while no write_all is pending.       *)
CodecKept(r) ==
  /\ writeBuf'[r] = writeBuf[r] /\ encoded'[r] = encoded[r]
  /\ wired'[r] = wired[r] /\ dead'[r] = dead[r]

LEMMA KeptOrder ==
  ASSUME NEW r \in Roles, OrderInv(r), CodecKept(r), link[r] # "dropped",
         fut[r].at # "write", fut'[r].at # "write"
  PROVE  /\ Intact(r)' => Prefix(r)'
         /\ Prefix(r)' /\ (Owed(r)' \/ Stuck(r)')
BY DEF OrderInv, CodecKept, Prefix, Owed, Stuck, Intact

LEMMA FinishOrder ==
  ASSUME TypeOK, NEW r \in Roles, OrderInv(r), link[r] # "dropped",
         fut[r].at # "write", NEW op, NEW res, NEW msg, Finish(r, op, res, msg),
         CodecKept(r), link'[r] # "dropped",
         op \in {"flush", "close"} /\ res \in {"Ok", "ConnectionClosed"}
           => writeBuf[r] = <<>>
  PROVE  OrderInv(r)'
<1>1. /\ fut'[r].at = "idle" /\ fut'[r].then = "none"
      /\ ret'[r].op = op /\ ret'[r].res = res
  BY FinishCallFields
<1>2. Prefix(r)' /\ (Owed(r)' \/ Stuck(r)')
  BY <1>1, KeptOrder
<1>3. Promised(r)'
  <2> SUFFICES ASSUME writeBuf[r] = <<>> PROVE wired'[r] = encoded'[r]
    BY <1>1 DEF Promised
  <2>1. Splits(encoded[r], wired[r], <<>>)
    BY DEF OrderInv, Owed, Stuck
  <2> QED BY <2>1, SplitsEmpty, SeqTypesHold DEF SeqTypes, CodecKept
<1> QED BY <1>1, <1>2, <1>3 DEF OrderInv

LEMMA SuspendOrder ==
  ASSUME TypeOK, NEW r \in Roles, OrderInv(r), link[r] # "dropped",
         fut[r].at # "write", NEW future, Suspend(r, future), future.then = "none",
         future.at = "next" \/ (future.at = "shutdown" /\ writeBuf[r] = <<>>),
         CodecKept(r), link'[r] = link[r]
  PROVE  OrderInv(r)'
<1>1. fut'[r] = future /\ fut'[r].at # "write" /\ fut'[r] # Idle
  BY SuspendFut, AwaitThen DEF Idle
<1>2. Prefix(r)' /\ (Owed(r)' \/ Stuck(r)')
  BY <1>1, KeptOrder
<1> QED BY <1>1, <1>2 DEF OrderInv, Promised, CodecKept

LEMMA FlushAllOrder ==
  ASSUME TypeOK, NEW r \in Roles, OrderInv(r), link[r] # "dropped",
         fut[r].at # "write", NEW op, FlushAll(r, op), Undisturbed(r)
  PROVE  OrderInv(r)'
<1>1. encoded' = encoded
  BY DEF FlushAll
<1>2. CASE HasBuffered(r)
  <2>1. PICK then \in {"shutdown", "return"} :
          Submit(r, writeBuf[r], Await(op, "write", then, NoFrame, NoMessage))
    BY <1>2 DEF FlushAll
  <2>2. Prefix(r)' /\ (Splits(encoded'[r], wired[r], writeBuf[r]) \/ dead[r])
    BY <1>1 DEF OrderInv, Prefix, Owed, Stuck, Undisturbed
  <2>3. writeBuf[r] \in Seq(Frame)
    BY SeqTypesHold DEF SeqTypes
  <2> QED BY <2>1, <2>2, <2>3, SubmitOrder, AwaitThen
<1>3. CASE ~HasBuffered(r)
  <2>1. writeBuf[r] = <<>> /\ CodecKept(r) /\ link'[r] = link[r]
    BY <1>1, <1>3 DEF HasBuffered, FlushAll, codec, CodecKept, Undisturbed
  <2>2. CASE Finish(r, op, "Ok", NoMessage)
    BY <2>1, <2>2, FinishOrder
  <2>3. CASE Suspend(r, Await(op, "shutdown", "none", NoFrame, NoMessage))
    BY <2>1, <2>3, SuspendOrder, AwaitThen
  <2> QED BY <1>3, <2>2, <2>3 DEF FlushAll
<1> QED BY <1>2, <1>3

LEMMA FutAt ==
  ASSUME TypeOK, NEW r \in Roles, NEW at, fut' = [fut EXCEPT ![r].at = at]
  PROVE  fut'[r].at = at
<1>1. fut[r] \in Future /\ fut'[r] = [fut[r] EXCEPT !.at = at]
  BY DEF TypeOK
<1>2. fut[r] \in [op : Method \cup {"none"},
                 at : {"idle", "next", "write", "sync", "shutdown"},
                 then : {"none", "encode", "return", "shutdown"},
                 frame : MaybeFrame, msg : MaybeMessage]
  BY <1>1 DEF Future
<1> QED BY <1>1, <1>2

LEMMA WriteSomeOrder ==
  ASSUME TypeInv, NEW r \in Roles, OrderInv(r), BufferInv(r), WriteSome(r)
  PROVE  OrderInv(r)'
<1> DEFINE e == encoded[r]
           w == wired[r]
           o == out[r]
           d == done[r]
           x == o[d + 1]
<1>1. /\ e \in Seq(Frame) /\ w \in Seq(OnWire) /\ o \in Seq(Frame) /\ d \in Nat
      /\ Len(e) \in Nat /\ Len(w) \in Nat /\ Len(o) \in Nat
  BY SeqTypesHold DEF TypeInv, SeqTypes
<1>2. d < Len(o) /\ fut[r].at = "write" /\ ~dead[r]
  BY DEF WriteSome, TypeInv, Writing
<1>3. link[r] # "dropped" /\ writeBuf[r] = <<>>
  BY <1>2 DEF OrderInv, BufferInv
<1>4. /\ Len(e) = Len(w) + Len(o) - d
      /\ \A i \in 1 .. Len(o) - d : e[Len(w) + i] = o[d + i]
      /\ \A i \in 1 .. Len(w) : w[i] = e[i]
  BY <1>2, <1>3 DEF OrderInv, Owed, Stuck, Prefix
<1>5. /\ wired'[r] = Append(w, x) /\ encoded'[r] = e /\ writeBuf'[r] = <<>>
      /\ link'[r] = link[r]
  BY <1>3 DEF WriteSome, history, TypeInv, TypeOK
<1> HIDE DEF e, w, o, d
<1>6. x \in OnWire
  BY <1>1, <1>2 DEF OnWire
<1>7. e[Len(w) + 1] = x
  BY <1>1, <1>2, <1>4
<1> HIDE DEF x
<1>8. /\ Len(Append(w, x)) = Len(w) + 1 /\ Append(w, x)[Len(w) + 1] = x
      /\ \A i \in 1 .. Len(w) : Append(w, x)[i] = w[i]
  BY <1>1, <1>6, AppendFacts
<1>9. /\ Len(Append(w, x)) <= Len(e)
      /\ \A i \in 1 .. Len(Append(w, x)) : Append(w, x)[i] = e[i]
  BY <1>1, <1>2, <1>4, <1>7, <1>8
<1>10. Prefix(r)'
  BY <1>5, <1>9 DEF Prefix
<1>11. /\ fut'[r].then = fut[r].then /\ fut'[r].op = fut[r].op
       /\ fut'[r].at \in {"write", "sync"} /\ state' = state
  BY <1>2 DEF TypeInv, TypeOK, WriteSome, Future, ws
<1>12. fut'[r] # Idle
  BY <1>11, AwaitThen DEF Idle
<1>13. Owed(r)'
  <2>1. CASE d + 1 < Len(o)
    <3>1. done'[r] = d + 1 /\ out'[r] = o /\ fut'[r] = fut[r]
      BY <2>1 DEF WriteSome, TypeInv, TypeOK, d, o
    <3>2. Len(e) = Len(w) + 1 + Len(o) - (d + 1)
      BY <1>1, <1>4
    <3>3. ASSUME NEW i \in 1 .. Len(o) - (d + 1)
          PROVE  e[Len(w) + 1 + i] = o[d + 1 + i]
      <4>1. 1 + i \in 1 .. Len(o) - d /\ Len(w) + 1 + i = Len(w) + (1 + i)
            /\ d + 1 + i = d + (1 + i)
        BY <1>1
      <4> QED BY <1>4, <4>1
    <3> QED BY <1>2, <1>5, <1>8, <3>1, <3>2, <3>3 DEF Owed
  <2>2. CASE ~(d + 1 < Len(o))
    <3>1. fut'[r].at = "sync"
      <4>1. fut' = [fut EXCEPT ![r].at = "sync"]
        BY <2>2 DEF WriteSome, d, o
      <4> QED BY <4>1, FutAt DEF TypeInv
    <3>2. Len(e) = Len(w) + 1
      <4>1. Len(e) = Len(w) + Len(o) - d
        BY <1>4
      <4>2. Len(o) = d + 1
        BY <1>1, <1>2, <2>2
      <4> QED BY <1>1, <4>1, <4>2
    <3>3. Splits(e, Append(w, x), <<>>)
      BY <1>1, <1>8, <1>9, <3>2 DEF Splits
    <3> QED BY <1>5, <3>1, <3>3 DEF Owed
  <2> QED BY <2>1, <2>2
<1> QED BY <1>2, <1>3, <1>5, <1>10, <1>11, <1>12, <1>13 DEF OrderInv, Promised

LEMMA DropOrder ==
  ASSUME TypeInv, NEW r \in Roles, OrderInv(r), Drop(r)
  PROVE  OrderInv(r)'
<1>1. /\ encoded'[r] = encoded[r] /\ link'[r] = "dropped"
      /\ fut'[r].at = "idle" /\ fut'[r].then = "none"
  BY AwaitThen DEF Drop, Abandon, history, TypeInv, TypeOK, Idle
<1>2. CASE wired'[r] = wired[r]
  <2>1. Intact(r)' => Prefix(r)'
    BY <1>1, <1>2 DEF OrderInv, Intact, Prefix
  <2>2. Promised(r)'
    <3>1. CASE fut[r] = Idle
      BY <1>1, <1>2, <3>1 DEF Drop, Abandon, OrderInv, Promised
    <3>2. CASE fut[r] # Idle
      <4>1. ret'[r].op = "none"
        BY <3>2 DEF Drop, Abandon, TypeInv, TypeOK, NotReturned
      <4> QED BY <4>1 DEF Promised
    <3> QED BY <3>1, <3>2
  <2> QED BY <1>1, <2>1, <2>2 DEF OrderInv
<1>3. CASE wired'[r] # wired[r]
  <2>1. fut[r].at = "write" /\ wired'[r] = Append(wired[r], Torn)
    BY <1>3 DEF Drop, Abandon, TypeInv, TypeOK
  <2>2. ret'[r].op = "none"
    BY <2>1, AwaitThen DEF Drop, Abandon, TypeInv, TypeOK, NotReturned, Idle
  <2>3. ~Intact(r)'
    <3>1. wired[r] \in Seq(OnWire) /\ Torn \in OnWire
      BY DEF TypeInv, TypeOK, OnWire
    <3>2. /\ Len(Append(wired[r], Torn)) = Len(wired[r]) + 1
          /\ Append(wired[r], Torn)[Len(wired[r]) + 1] = Torn
      BY <3>1, AppendFacts
    <3>3. Len(wired[r]) + 1 \in 1 .. Len(Append(wired[r], Torn))
      BY <3>1, <3>2
    <3> QED BY <2>1, <3>2, <3>3 DEF Intact
  <2> QED BY <1>1, <2>2, <2>3 DEF OrderInv, Promised
<1> QED BY <1>2, <1>3

LEMMA OrderOwnStep ==
  ASSUME TypeInv, NEW r \in Roles, r \notin Foreign, OrderInv(r), BufferInv(r),
         Step(r), ~Cancel(r)
  PROVE  OrderInv(r)'
<1>1. TypeOK
  BY DEF TypeInv
<1>2. ASSUME NEW op, NEW res, NEW msg, Finish(r, op, res, msg), fut[r].at # "write",
             link[r] # "dropped", UNCHANGED <<writeBuf, encoded, wired, dead>>,
             link'[r] # "dropped",
             op \in {"flush", "close"} /\ res \in {"Ok", "ConnectionClosed"}
               => writeBuf[r] = <<>>
      PROVE  OrderInv(r)'
  BY <1>1, <1>2, FinishOrder DEF CodecKept
<1>3. CASE \/ NextEnd(r) \/ NextFails(r) \/ DecodeRejects(r) \/ FrameFails(r)
           \/ FrameDelivered(r)
  <2>1. fut[r].at = "next" /\ UNCHANGED <<writeBuf, encoded, wired, dead, link>>
    BY <1>3 DEF NextEnd, NextFails, DecodeRejects, FrameFails, FrameDelivered,
       Reading, Handle, codec, stream
  <2>2. link[r] # "dropped"
    BY <2>1 DEF OrderInv
  <2>3. PICK res, msg : Finish(r, "read", res, msg)
    BY <1>3 DEF NextEnd, NextFails, DecodeRejects, FrameFails, FrameDelivered
  <2> QED BY <1>2, <2>1, <2>2, <2>3
<1>4. CASE CallRead(r)
  <2>1. /\ fut[r].at = "idle" /\ link[r] # "dropped"
        /\ UNCHANGED <<writeBuf, encoded, wired, dead, link>>
    BY <1>4 DEF CallRead, Idling, codec, stream
  <2>2. CASE \E res : Finish(r, "read", res, NoMessage)
    BY <1>2, <2>1, <2>2
  <2>3. CASE Suspend(r, Await("read", "next", "none", NoFrame, NoMessage))
    BY <1>1, <2>1, <2>3, SuspendOrder, AwaitThen DEF CodecKept
  <2> QED BY <1>4, <2>2, <2>3 DEF CallRead
<1>5. CASE CallWrite(r) \/ CallClose(r) \/ CallFlush(r)
  <2>1. fut[r].at = "idle" /\ link[r] # "dropped" /\ Undisturbed(r)
    BY <1>5 DEF CallWrite, CallClose, CallFlush, Idling, stream, Undisturbed
  <2>2. CASE (\E res : Finish(r, "write", res, NoMessage)) /\ UNCHANGED <<codec, encoded>>
    BY <1>1, <2>1, <2>2, FinishOrder DEF codec, Undisturbed, CodecKept
  <2>3. CASE \E f \in Menu[r] : WriteFrame(r, "write", f, NoMessage)
    BY <1>1, <2>1, <2>3, MenuAssumption, WriteFrameOrder
  <2>4. CASE /\ state' = [state EXCEPT ![r] = "ClosedByUs"]
             /\ \E body \in CloseBodies : WriteFrame(r, "close", CloseOf(body), NoMessage)
    <3>1. CanRead(state'[r])
      BY <1>1, <2>4 DEF TypeOK, CanRead
    <3>2. \A body \in CloseBodies : CloseOf(body) \in Frame
      BY CloseBodiesAssumption, PlainType DEF CloseOf, OpCode, ControlOps
    <3> QED BY <1>1, <2>1, <2>4, <3>1, <3>2, WriteFrameOrder
  <2>5. CASE \E op : FlushAll(r, op)
    BY <1>1, <2>1, <2>5, FlushAllOrder
  <2> QED BY <1>5, <2>2, <2>3, <2>4, <2>5 DEF CallWrite, CallClose, CallFlush
<1>6. CASE SetConfig(r) \/ FrameAbsorbed(r)
  <2>1. /\ UNCHANGED <<writeBuf, encoded, wired, dead, link, fut, ret>>
        /\ fut[r].at \in {"idle", "next"}
    BY <1>6 DEF SetConfig, Idling, FrameAbsorbed, Reading, Handle, codec, stream, history
  <2> QED BY <2>1 DEF OrderInv, Prefix, Owed, Stuck, Promised, Intact
<1>7. CASE FrameAnswered(r)
  <2>1. PICK f \in Arriving(r) :
          /\ ReadMessageFrame(r, f).reply # NoFrame
          /\ WriteFrame(r, "read", ReadMessageFrame(r, f).reply, ReadMessageFrame(r, f).msg)
          /\ Handle(r, ReadMessageFrame(r, f))
    BY <1>7 DEF FrameAnswered
  <2>2. ReadMessageFrame(r, f).reply \in Frame
    BY <1>1, <2>1, ArrivingFacts, ReadMessageFrameType, FrameFacts DEF Outcome
  <2>3. fut[r].at = "next" /\ Undisturbed(r)
    BY <1>7, <2>1 DEF FrameAnswered, Reading, Handle, Undisturbed
  <2>4. link[r] # "dropped"
    BY <2>3 DEF OrderInv
  <2> QED BY <1>1, <2>1, <2>2, <2>3, <2>4, WriteFrameOrder
<1>8. CASE WriteSome(r)
  BY <1>8, WriteSomeOrder
<1>9. CASE WriteFails(r)
  <2>1. /\ fut[r].at = "write" /\ dead[r] /\ UNCHANGED <<encoded, wired, dead, link>>
        /\ writeBuf'[r] = out[r]
    BY <1>1, <1>9 DEF WriteFails, Restored, stream, TypeOK
  <2>2. PICK kind \in IoKind : Finish(r, fut[r].op, FlushResult(r, kind), NoMessage)
    BY <1>9 DEF WriteFails
  <2>3. /\ fut'[r].at = "idle" /\ fut'[r].then = "none"
        /\ ret'[r].op = fut[r].op /\ ret'[r].res = FlushResult(r, kind)
    BY <1>1, <2>2, FinishCallFields
  <2>4. ~(ret'[r].op \in {"flush", "close"} /\ ret'[r].res \in {"Ok", "ConnectionClosed"})
    BY <2>1, <2>3 DEF FlushResult, IoResult, OrderInv
  <2>5. out[r] # <<>>
    <3>1. done[r] < Len(out[r]) /\ done[r] \in Nat
      BY <2>1 DEF TypeInv, Writing, TypeOK
    <3>2. Len(out[r]) # 0 /\ Len(<<>>) = 0
      <4>1. out[r] \in Seq(Frame)
        BY <1>1 DEF TypeOK
      <4>2. Len(out[r]) \in Nat
        BY <4>1
      <4> QED BY <3>1, <4>2
    <3> QED BY <3>2
  <2>6. Prefix(r)' /\ Stuck(r)'
    BY <2>1, <2>5 DEF OrderInv, Prefix, Stuck
  <2>7. link'[r] # "dropped"
    BY <2>1 DEF OrderInv
  <2> QED BY <2>3, <2>4, <2>6, <2>7 DEF OrderInv, Promised
<1>10. CASE SyncThenEncode(r)
  <2>1. /\ fut[r].frame \in Frame /\ fut[r].at = "sync"
        /\ Encode(r, fut[r].op, writeBuf[r], fut[r].frame, fut[r].msg)
        /\ Undisturbed(r)
    BY <1>1, <1>10 DEF TypeOK, SyncThenEncode, Flushed, Future, stream, Undisturbed
  <2>2. link[r] # "dropped"
    BY <2>1 DEF OrderInv
  <2> QED BY <1>1, <2>1, <2>2, EncodeOrder
<1>11. CASE SyncThenReturn(r) \/ SyncFails(r) \/ Shutdown(r) \/ ShutdownFails(r)
  <2>1. /\ fut[r].at \in {"sync", "shutdown"} /\ UNCHANGED <<writeBuf, encoded, wired, dead>>
        /\ link'[r] \in {link[r], "shut"}
    BY <1>1, <1>11 DEF SyncThenReturn, SyncFails, Shutdown, ShutdownFails, Flushed, codec,
       stream, TypeOK
  <2>2. writeBuf[r] = <<>> /\ link[r] # "dropped"
    BY <2>1 DEF OrderInv, BufferInv
  <2>3. PICK res, msg : Finish(r, fut[r].op, res, msg)
    BY <1>11 DEF SyncThenReturn, SyncFails, Shutdown, ShutdownFails
  <2> QED BY <1>2, <2>1, <2>2, <2>3
<1>12. CASE SyncThenShutdown(r)
  <2>1. /\ fut[r].at = "sync" /\ UNCHANGED <<writeBuf, encoded, wired, dead, link>>
        /\ Suspend(r, Await(fut[r].op, "shutdown", "none", NoFrame, NoMessage))
    BY <1>12 DEF SyncThenShutdown, Flushed, codec, stream
  <2>2. writeBuf[r] = <<>> /\ link[r] # "dropped"
    BY <2>1 DEF OrderInv, BufferInv
  <2> QED BY <1>1, <2>1, <2>2, SuspendOrder, AwaitThen DEF CodecKept
<1>13. CASE Surroundings(r)
  <2>1. CASE Drop(r)
    BY <2>1, DropOrder
  <2>2. CASE Break(r)
    <3>1. UNCHANGED <<state, writeBuf, out, done, fut, wired, link, ret, encoded>>
          /\ dead'[r]
      BY <1>1, <2>2 DEF Break, ws, codec, history, TypeOK
    <3>2. Prefix(r)' = Prefix(r) /\ Owed(r)' = Owed(r) /\ Promised(r)' = Promised(r)
          /\ Intact(r)' = Intact(r)
      BY <3>1 DEF Prefix, Owed, Promised, Intact, Splits
    <3>3. Stuck(r) => Stuck(r)'
      BY <3>1 DEF Stuck
    <3> QED BY <3>1, <3>2, <3>3 DEF OrderInv
  <2> QED BY <1>13, <2>1, <2>2 DEF Surroundings, ForeignSend, ForeignRead, ForeignDrop
<1> QED BY <1>3, <1>4, <1>5, <1>6, <1>7, <1>8, <1>9, <1>10, <1>11, <1>12, <1>13
        DEF Step, Calling, Receiving, Sending

(* What the order depends on beside what StepIsLocal keeps.                *)
SameTransport(r) ==
  done'[r] = done[r] /\ link'[r] = link[r] /\ dead'[r] = dead[r]

LEMMA TransportIsLocal ==
  ASSUME TypeOK, NEW q \in Roles, NEW r \in Roles, q # r, Step(q)
  PROVE  SameTransport(r)
<1> DEFINE DoneStep == done' = done \/ \E d : done' = [done EXCEPT ![q] = d]
<1>1. DoneStep
  <2>1. ASSUME NEW buf, NEW future, Submit(q, buf, future) PROVE DoneStep
    BY <2>1 DEF Submit
  <2>2. ASSUME NEW op, NEW f, NEW msg, WriteFrame(q, op, f, msg) PROVE DoneStep
    BY <2>1, <2>2 DEF WriteFrame, Encode
  <2>3. ASSUME NEW op, FlushAll(q, op) PROVE DoneStep
    BY <2>1, <2>3 DEF FlushAll, codec
  <2>4. CASE Receiving(q)
    BY <2>2, <2>4 DEF Receiving, DecodeRejects, FrameFails, FrameAnswered,
       FrameDelivered, FrameAbsorbed, NextEnd, NextFails, codec
  <2>5. CASE Sending(q)
    BY <2>1, <2>5 DEF Sending, WriteSome, WriteFails, SyncThenEncode, Encode,
       SyncThenReturn, SyncThenShutdown, SyncFails, Shutdown, ShutdownFails, codec
  <2>6. CASE Calling(q)
    BY <2>2, <2>3, <2>6 DEF Calling, CallRead, CallWrite, CallClose, CallFlush,
       SetConfig, codec
  <2>7. CASE Surroundings(q)
    BY <2>7 DEF Surroundings, Cancel, Drop, Abandon, Break, ForeignSend, ForeignRead,
       ForeignDrop, codec
  <2> QED BY <2>4, <2>5, <2>6, <2>7 DEF Step
<1>2. /\ link' = link \/ \E l : link' = [link EXCEPT ![q] = l]
      /\ dead' = dead \/ dead' = [dead EXCEPT ![q] = TRUE]
  <2>1. CASE Receiving(q)
    BY <2>1 DEF Receiving, DecodeRejects, FrameFails, FrameAnswered, FrameDelivered,
       FrameAbsorbed, NextEnd, NextFails, Handle, stream
  <2>2. CASE Sending(q)
    BY <2>2 DEF Sending, WriteSome, WriteFails, SyncThenEncode, SyncThenReturn,
       SyncThenShutdown, SyncFails, Shutdown, ShutdownFails, stream
  <2>3. CASE Calling(q)
    BY <2>3 DEF Calling, CallRead, CallWrite, CallClose, CallFlush, SetConfig, stream
  <2>4. CASE Surroundings(q)
    BY <2>4 DEF Surroundings, Cancel, Drop, Break, ForeignSend, ForeignRead,
       ForeignDrop
  <2> QED BY <2>1, <2>2, <2>3, <2>4 DEF Step
<1>3. done'[r] = done[r]
  BY <1>1 DEF TypeOK
<1>4. link'[r] = link[r]
  BY <1>2 DEF TypeOK
<1>5. dead'[r] = dead[r]
  BY <1>2 DEF TypeOK
<1> QED BY <1>3, <1>4, <1>5 DEF SameTransport

(* Futures dropped are counted, and only Cancel counts.                    *)
LEMMA CancelsCount ==
  ASSUME TypeOK, [Next]_vars
  PROVE  /\ cancels' = cancels \/ cancels' = cancels + 1
         /\ \A r \in Roles : Cancel(r) => cancels' # 0
<1>1. cancels \in Nat
  BY DEF TypeOK
<1>2. ASSUME NEW r \in Roles, Step(r), ~Cancel(r) PROVE cancels' = cancels
  <2>1. CASE Receiving(r)
    BY <2>1 DEF Receiving, DecodeRejects, FrameFails, FrameAnswered, FrameDelivered,
       FrameAbsorbed, NextEnd, NextFails, Handle, bounds
  <2>2. CASE Sending(r)
    BY <2>2 DEF Sending, WriteSome, WriteFails, SyncThenEncode, SyncThenReturn,
       SyncThenShutdown, SyncFails, Shutdown, ShutdownFails, bounds
  <2>3. CASE Calling(r)
    BY <2>3 DEF Calling, CallRead, CallWrite, CallClose, CallFlush, SetConfig, bounds
  <2>4. CASE Surroundings(r)
    BY <1>2, <2>4 DEF Surroundings, Drop, Break, ForeignSend, ForeignRead,
       ForeignDrop, bounds
  <2> QED BY <1>2, <2>1, <2>2, <2>3, <2>4 DEF Step
<1>3. ASSUME NEW r \in Roles, Cancel(r) PROVE cancels' = cancels + 1
  BY <1>3 DEF Cancel
<1>4. ASSUME UNCHANGED vars PROVE cancels' = cancels
  BY <1>4 DEF vars, bounds
<1>5. \A r \in Roles : Cancel(r) => cancels' # 0
  BY <1>1, <1>3
<1> QED BY <1>2, <1>3, <1>4, <1>5, NextCases DEF Step

LEMMA OrderStep ==
  ASSUME TypeInv, NEW r \in Roles, r \notin Foreign, OrderInv(r), BufferInv(r),
         [Next]_vars, \A q \in Roles : ~Cancel(q)
  PROVE  OrderInv(r)'
<1>1. CASE UNCHANGED <<state, writeBuf, out, done, fut, wired, link, dead, ret, encoded>>
  BY <1>1 DEF OrderInv, Prefix, Owed, Splits, Stuck, Promised, Intact
<1>2. CASE UNCHANGED vars
  BY <1>1, <1>2 DEF vars, ws, codec, stream, history
<1>3. ASSUME NEW q \in Roles, Step(q)
      PROVE  OrderInv(r)'
  <2>1. CASE q = r
    BY <1>3, <2>1, OrderOwnStep
  <2>2. CASE q # r
    <3>1. Same(r) /\ SameTransport(r)
      BY <1>3, <2>2, StepIsLocal, TransportIsLocal DEF TypeInv
    <3>2. /\ state'[r] = state[r] /\ fut'[r] = fut[r] /\ ret'[r] = ret[r]
          /\ writeBuf'[r] = writeBuf[r] /\ out'[r] = out[r] /\ encoded'[r] = encoded[r]
          /\ wired'[r] = wired[r] /\ done'[r] = done[r] /\ link'[r] = link[r]
          /\ dead'[r] = dead[r]
      BY <3>1 DEF Same, SameCall, SameCodec, SameStream, SameTransport
    <3>3. /\ Prefix(r)' <=> Prefix(r)
          /\ Stuck(r)' <=> Stuck(r)
          /\ Promised(r)' <=> Promised(r)
          /\ Intact(r)' <=> Intact(r)
      BY <3>2 DEF Prefix, Stuck, Promised, Intact
    <3>4. Owed(r)' <=> Owed(r)
      BY <3>2 DEF Owed, Splits
    <3> QED BY <3>2, <3>3, <3>4 DEF OrderInv
  <2> QED BY <2>1, <2>2
<1> QED BY <1>2, <1>3, NextCases DEF Step

OrderInvAll == cancels = 0 => \A r \in Ours : OrderInv(r)

LEMMA OrderInit == Init => OrderInvAll
<1> SUFFICES ASSUME Init, NEW r \in Roles PROVE OrderInv(r)
  BY DEF OrderInvAll, Ours
<1>1. /\ encoded[r] = <<>> /\ wired[r] = <<>> /\ writeBuf[r] = <<>>
      /\ link[r] = "open" /\ fut[r].at = "idle"
  BY AwaitThen DEF Init, Idle
<1>2. Prefix(r) /\ Owed(r)
  BY <1>1 DEF Prefix, Owed, Splits
<1> QED BY <1>1, <1>2 DEF OrderInv, Promised

LEMMA OrderNext == TypeInv /\ BufferInvAll /\ OrderInvAll /\ [Next]_vars => OrderInvAll'
<1> SUFFICES ASSUME TypeInv, BufferInvAll, OrderInvAll, [Next]_vars, cancels' = 0,
                    NEW r \in Ours
             PROVE  OrderInv(r)'
  BY DEF OrderInvAll, Ours
<1>1. cancels = 0 /\ \A q \in Roles : ~Cancel(q)
  BY CancelsCount DEF TypeInv, TypeOK
<1>2. r \in Roles /\ r \notin Foreign /\ OrderInv(r) /\ BufferInv(r)
  BY <1>1 DEF OrderInvAll, BufferInvAll, Ours
<1> QED BY <1>1, <1>2, OrderStep

(* The buffer is bounded, and what is in it follows on what is written.    *)
LEMMA OrderAlways == Spec => [](TypeInv /\ BufferInvAll /\ OrderInvAll)
<1> QED BY TypeInvariant, BufferAlways, OrderInit, OrderNext, PTL DEF Spec

(* flush() and close() that return normally have put every frame encoded   *)
(* on the transport, in order, whatever failed and was retried before.     *)
THEOREM FlushPromiseHolds == Spec => []FlushPromise
<1>1. OrderInvAll => FlushPromise
  BY DEF OrderInvAll, OrderInv, Promised, FlushPromise
<1> QED BY <1>1, OrderAlways, PTL

-----------------------------------------------------------------------------
(* The two endpoints implement the close handshake.                        *)

(* Nothing runs in a role another implementation plays.                    *)
ForeignIdle == \A r \in Foreign : fut[r].at = "idle"

LEMMA ForeignSteps ==
  ASSUME TypeOK, ForeignIdle, NEW r \in Roles, r \in Foreign, Step(r)
  PROVE  /\ ForeignSend(r) \/ ForeignRead(r) \/ ForeignDrop(r)
         /\ fut' = fut
<1>1. fut[r].at = "idle"
  BY DEF ForeignIdle
<1>2. ~Receiving(r)
  BY <1>1 DEF Receiving, DecodeRejects, FrameFails, FrameAnswered, FrameDelivered,
     FrameAbsorbed, NextEnd, NextFails, Reading
<1>3. ~Sending(r)
  BY <1>1 DEF Sending, WriteSome, WriteFails, SyncThenEncode, SyncThenReturn,
     SyncThenShutdown, SyncFails, Shutdown, ShutdownFails, Flushed
<1>4. ~Calling(r)
  BY DEF Calling, CallRead, CallWrite, CallClose, CallFlush, SetConfig, Idling
<1>5. ~Cancel(r) /\ ~Drop(r) /\ ~Break(r)
  BY <1>1 DEF Cancel, Drop, Break
<1>6. ForeignSend(r) \/ ForeignRead(r) \/ ForeignDrop(r)
  BY <1>2, <1>3, <1>4, <1>5 DEF Step, Surroundings
<1> QED BY <1>6 DEF ForeignSend, ForeignRead, ForeignDrop

LEMMA ForeignAlways == Spec => []ForeignIdle
<1>1. Init => ForeignIdle
  BY ForeignAssumption, AwaitThen DEF Init, ForeignIdle, Idle
<1>2. TypeInv /\ ForeignIdle /\ [Next]_vars => ForeignIdle'
  <2> SUFFICES ASSUME TypeInv, ForeignIdle, [Next]_vars, NEW p \in Foreign
               PROVE  fut'[p] = fut[p]
    BY DEF ForeignIdle
  <2>1. p \in Roles
    BY ForeignAssumption
  <2>2. ASSUME NEW q \in Roles, Step(q) PROVE fut'[p] = fut[p]
    <3>1. CASE q = p
      BY <2>2, <3>1, ForeignSteps DEF TypeInv
    <3>2. CASE q # p
      BY <2>1, <2>2, <3>2, StepIsLocal DEF TypeInv, Same, SameCall
    <3> QED BY <3>1, <3>2
  <2>3. CASE UNCHANGED vars
    BY <2>3 DEF vars
  <2> QED BY <2>2, <2>3, NextCases DEF Step
<1> QED BY <1>1, <1>2, TypeInvariant, PTL DEF Spec

LEMMA OneChanges ==
  ASSUME NEW r \in Roles, NEW f, NEW g, f = [p \in Roles |-> f[p]],
         g = [p \in Roles |-> g[p]], g[Peer(r)] = f[Peer(r)]
  PROVE  g = [f EXCEPT ![r] = g[r]]
<1>1. \A p \in Roles : p # r => p = Peer(r)
  BY DEF Roles, Peer
<1> QED BY <1>1

(* What a step of r leaves for the close handshake to do.                  *)
Around(r) ==
  /\ state' = [state EXCEPT ![r] = state'[r]]
  /\ taken' = [taken EXCEPT ![r] = taken'[r]]
  /\ SentCount' = [SentCount EXCEPT ![r] = Len(Committed(r)')]
  /\ SaidClose' = [SaidClose EXCEPT ![r] = HasClose(Committed(r)')]

LEMMA AroundStep ==
  ASSUME TypeInv, TypeInv', NEW r \in Roles, Step(r)
  PROVE  Around(r)
<1> DEFINE p == Peer(r)
<1>1. p \in Roles /\ p # r
  BY PeerFacts
<1>2. Same(p)
  BY <1>1, StepIsLocal DEF TypeInv
<1>3. /\ state'[p] = state[p] /\ taken'[p] = taken[p]
      /\ Committed(p)' = Committed(p)
  BY <1>2 DEF Same, SameCodec, SameStream, Committed
<1>4. state' = [state EXCEPT ![r] = state'[r]]
  <2>1. /\ state = [q \in Roles |-> state[q]]
        /\ state' = [q \in Roles |-> state'[q]]
    BY DEF TypeInv, TypeOK
  <2> QED BY <1>3, <2>1, OneChanges
<1>5. taken' = [taken EXCEPT ![r] = taken'[r]]
  <2>1. /\ taken = [q \in Roles |-> taken[q]]
        /\ taken' = [q \in Roles |-> taken'[q]]
    BY DEF TypeInv, TypeOK
  <2> QED BY <1>3, <2>1, OneChanges
<1>6. SentCount' = [SentCount EXCEPT ![r] = Len(Committed(r)')]
  <2>1. SentCount[p] = Len(Committed(p)) /\ SentCount'[p] = Len(Committed(p)')
        /\ SentCount'[r] = Len(Committed(r)')
    BY <1>1 DEF SentCount
  <2>2. /\ SentCount = [q \in Roles |-> SentCount[q]]
        /\ SentCount' = [q \in Roles |-> SentCount'[q]]
    BY DEF SentCount
  <2> QED BY <1>3, <2>1, <2>2, OneChanges
<1>7. SaidClose' = [SaidClose EXCEPT ![r] = HasClose(Committed(r)')]
  <2>1. SaidClose[p] = HasClose(Committed(p)) /\ SaidClose'[p] = HasClose(Committed(p)')
        /\ SaidClose'[r] = HasClose(Committed(r)')
    BY <1>1 DEF SaidClose
  <2>2. /\ SaidClose = [q \in Roles |-> SaidClose[q]]
        /\ SaidClose' = [q \in Roles |-> SaidClose'[q]]
    BY DEF SaidClose
  <2>3. HasClose(Committed(p)') = HasClose(Committed(p))
    BY <1>3
  <2> QED BY <2>1, <2>2, <2>3, OneChanges
<1> QED BY <1>4, <1>5, <1>6, <1>7 DEF Around

(* A frame is encoded, or, in a foreign role, sent.                        *)
Emits(r, f) == Committed(r)' = Append(Committed(r), f)
Mute(r) == Committed(r)' = Committed(r)

LEMMA MuteIsSilent ==
  ASSUME NEW r \in Roles, Around(r), Mute(r)
  PROVE  Close!Silent
<1>1. /\ SentCount[r] = Len(Committed(r)) /\ SaidClose[r] = HasClose(Committed(r))
      /\ SentCount = [q \in Roles |-> SentCount[q]]
      /\ SaidClose = [q \in Roles |-> SaidClose[q]]
  BY DEF SentCount, SaidClose
<1>2. /\ SentCount' = [SentCount EXCEPT ![r] = SentCount[r]]
      /\ SaidClose' = [SaidClose EXCEPT ![r] = SaidClose[r]]
  BY <1>1 DEF Around, Mute
<1> QED BY <1>1, <1>2 DEF Close!Silent

LEMMA EmitsCommits ==
  ASSUME TypeOK, NEW r \in Roles, Around(r), NEW f \in Frame, Emits(r, f),
         r \in LawfulRoles =>
           ~HasClose(Committed(r)) /\ (f.op = "Close" <=> state'[r] # "Active")
  PROVE  Close!Commit(r, f.op = "Close")
<1> DEFINE c == Committed(r)
<1>1. c \in Seq(OnWire) /\ f \in OnWire
  <2>1. Frame \subseteq OnWire
    BY DEF OnWire
  <2>2. encoded[r] \in Seq(OnWire)
    BY <2>1, SeqTypesHold DEF SeqTypes
  <2> QED BY <2>1, <2>2, SeqTypesHold DEF Committed, SeqTypes
<1>2. SentCount[r] = Len(c) /\ SaidClose[r] = HasClose(c)
  BY DEF SentCount, SaidClose
<1> HIDE DEF c
<1>3. /\ Len(Append(c, f)) = Len(c) + 1 /\ Append(c, f)[Len(c) + 1] = f
      /\ \A i \in 1 .. Len(c) : Append(c, f)[i] = c[i]
      /\ Len(c) \in Nat
  BY <1>1, AppendFacts
<1>4. HasClose(Append(c, f)) <=> HasClose(c) \/ f.op = "Close"
  BY <1>3 DEF HasClose
<1>5. Len(Committed(r)') = SentCount[r] + 1
  BY <1>2, <1>3 DEF Emits, c
<1>6. HasClose(Committed(r)') = (SaidClose[r] \/ f.op = "Close")
  BY <1>2, <1>4 DEF Emits, c, SaidClose, HasClose
<1>7. SentCount' = [SentCount EXCEPT ![r] = SentCount[r] + 1]
  BY <1>5 DEF Around
<1>8. SaidClose' = [SaidClose EXCEPT ![r] = SaidClose[r] \/ f.op = "Close"]
  BY <1>6 DEF Around
<1>9. r \in LawfulRoles => ~SaidClose[r] /\ (f.op = "Close" <=> state'[r] # "Active")
  BY <1>2 DEF c
<1> QED BY <1>7, <1>8, <1>9 DEF Close!Commit

LEMMA MaskedOp == ASSUME NEW r, NEW f \in Frame PROVE Masked(r, f).op = f.op
BY DEF Masked, Frame

LEMMA WriteFrameEmits ==
  ASSUME TypeOK, NEW r \in Roles, r \notin Foreign, NEW op, NEW f \in Frame, NEW msg,
         WriteFrame(r, op, f, msg)
  PROVE  Mute(r) \/ \E g \in Frame : g.op = f.op /\ Emits(r, g)
<1>1. Masked(r, f) \in Frame /\ Masked(r, f).op = f.op
  BY MaskedType, MaskedOp
<1>2. CASE MustFlush(r)
  BY <1>2 DEF WriteFrame, Mute, Committed
<1>3. CASE ~MustFlush(r)
  <2>1. encoded'[r] = Append(encoded[r], Masked(r, f))
    BY <1>3 DEF WriteFrame, Encode, TypeOK
  <2> QED BY <1>1, <2>1 DEF Emits, Committed
<1> QED BY <1>2, <1>3

(* Nothing more is lost, as long as nothing is put on the transport.       *)
Whole == wired' = wired /\ cancels' = cancels

LEMMA WholeKept == ASSUME Whole PROVE Marred' = Marred
BY DEF Whole, Marred, Intact

LEMMA MuteReturns ==
  ASSUME NEW r \in Roles, Around(r), Mute(r), Whole, state'[r] = state[r],
         taken'[r] = taken[r], state = [q \in Roles |-> state[q]],
         taken = [q \in Roles |-> taken[q]]
  PROVE  Close!Return
<1>1. state' = state /\ taken' = taken
  BY DEF Around
<1>2. Close!Silent
  BY MuteIsSilent
<1> QED BY <1>1, <1>2, WholeKept DEF Close!Silent, Close!Return

LEMMA MuteEnds ==
  ASSUME NEW r \in Roles, Around(r), Mute(r), Whole, state'[r] = "Terminated",
         taken'[r] = taken[r], taken = [q \in Roles |-> taken[q]]
  PROVE  Close!End(r)
<1>1. state' = [state EXCEPT ![r] = "Terminated"] /\ taken' = taken
  BY DEF Around
<1>2. Close!Silent
  BY MuteIsSilent
<1> QED BY <1>1, <1>2, WholeKept DEF Close!MoveTo, Close!End

(* What the state says of the frames encoded, for a role that is lawful.   *)
Says(r) == r \in LawfulRoles => CloseInv(r)

LEMMA FlushAllAgrees ==
  ASSUME TypeInv, NEW r \in Roles, r \notin Foreign, Around(r), Whole,
         taken'[r] = taken[r], NEW op, FlushAll(r, op)
  PROVE  Close!End(r) \/ Close!Return
<1>1. Mute(r)
  BY DEF FlushAll, Mute, Committed
<1>2. /\ state = [q \in Roles |-> state[q]]
      /\ taken = [q \in Roles |-> taken[q]]
  BY DEF TypeInv, TypeOK
<1>3. state'[r] \in {state[r], "Terminated"}
  BY DEF FlushAll, TypeInv, TypeOK
<1> QED BY <1>1, <1>2, <1>3, MuteReturns, MuteEnds

LEMMA CallsAgree ==
  ASSUME TypeInv, NEW r \in Roles, r \notin Foreign, Says(r), Around(r), Calling(r)
  PROVE  Close!Begin(r) \/ Close!Send(r) \/ Close!End(r) \/ Close!Return
<1>1. TypeOK /\ Whole /\ taken' = taken
  BY DEF TypeInv, Calling, CallRead, CallWrite, CallClose, CallFlush, SetConfig,
     stream, bounds, Whole
<1>2. /\ state = [q \in Roles |-> state[q]]
      /\ taken = [q \in Roles |-> taken[q]]
  BY <1>1 DEF TypeOK
<1>3. ASSUME Mute(r), state'[r] \in {state[r], "Terminated"}
      PROVE  Close!End(r) \/ Close!Return
  BY <1>1, <1>2, <1>3, MuteReturns, MuteEnds
<1>4. CASE CallRead(r) \/ SetConfig(r)
  <2>1. Mute(r) /\ state'[r] \in {state[r], "Terminated"}
    BY <1>1, <1>4 DEF CallRead, SetConfig, history, Mute, Committed, TypeOK
  <2> QED BY <1>3, <2>1
<1>5. CASE CallFlush(r) \/ (CallClose(r) /\ FlushAll(r, "close"))
  <2>1. \E op : FlushAll(r, op)
    BY <1>5 DEF CallFlush
  <2> QED BY <1>1, <2>1, FlushAllAgrees
<1>6. CASE CallWrite(r)
  <2>1. state' = state
    BY <1>6 DEF CallWrite, ws
  <2>2. CASE UNCHANGED encoded
    BY <1>3, <2>1, <2>2 DEF Mute, Committed
  <2>3. CASE Writable(r) /\ \E f \in Menu[r] : WriteFrame(r, "write", f, NoMessage)
    <3>1. PICK f \in Menu[r] : WriteFrame(r, "write", f, NoMessage)
      BY <2>3
    <3>2. f \in Frame
      BY MenuAssumption
    <3>3. CASE Mute(r)
      BY <1>3, <2>1, <3>3
    <3>4. CASE \E g \in Frame : g.op = f.op /\ Emits(r, g)
      <4>1. PICK g \in Frame : g.op = f.op /\ Emits(r, g)
        BY <3>4
      <4>2. state[r] = "Active" /\ state'[r] = "Active"
        BY <2>1, <2>3 DEF Writable
      <4>3. r \in LawfulRoles => f.op # "Close" /\ ~HasClose(encoded[r])
        BY <4>2 DEF LawfulRoles, Says, CloseInv
      <4>4. Close!Commit(r, g.op = "Close")
        BY <1>1, <4>1, <4>2, <4>3, EmitsCommits DEF Committed
      <4>5. (g.op = "Close") \in BOOLEAN
        OBVIOUS
      <4>6. UNCHANGED <<state, taken, Marred>>
        BY <1>1, <2>1, WholeKept
      <4> QED BY <4>4, <4>5, <4>6 DEF Close!Send
    <3> QED BY <1>1, <3>1, <3>2, <3>3, <3>4, WriteFrameEmits
  <2> QED BY <1>6, <2>2, <2>3 DEF CallWrite
<1>7. CASE CallClose(r) /\ state[r] = "Active"
  <2>1. PICK body \in CloseBodies : WriteFrame(r, "close", CloseOf(body), NoMessage)
    BY <1>7 DEF CallClose
  <2>2. CloseOf(body) \in Frame /\ CloseOf(body).op = "Close"
    BY CloseBodiesAssumption, PlainType DEF CloseOf, OpCode, ControlOps, Plain
  <2>3. state' = [state EXCEPT ![r] = "ClosedByUs"] /\ state'[r] # "Active"
    BY <1>1, <1>7 DEF CallClose, TypeOK
  <2>4. Close!Commit(r, TRUE) \/ Close!Silent
    <3>1. CASE Mute(r)
      BY <3>1, MuteIsSilent
    <3>2. CASE \E g \in Frame : g.op = "Close" /\ Emits(r, g)
      <4>1. PICK g \in Frame : g.op = "Close" /\ Emits(r, g)
        BY <3>2
      <4>2. r \in LawfulRoles => ~HasClose(Committed(r))
        BY <1>7 DEF Says, CloseInv, Committed
      <4>3. Close!Commit(r, g.op = "Close")
        BY <1>1, <2>3, <4>1, <4>2, EmitsCommits
      <4>4. (g.op = "Close") = TRUE
        BY <4>1
      <4> QED BY <4>3, <4>4
    <3> QED BY <1>1, <2>1, <2>2, <3>1, <3>2, WriteFrameEmits
  <2> QED BY <1>1, <1>7, <2>3, <2>4, WholeKept DEF Close!Begin, Close!MoveTo
<1> QED BY <1>4, <1>5, <1>6, <1>7 DEF Calling, CallClose

(* The frame that moves the state is the peer's Close, the last of a       *)
(* lawful peer's, unless the peer's frames are torn or a future is gone.   *)
LEMMA HeardClose ==
  ASSUME TypeInv, NEW r \in Roles, taken'[r] = taken[r] + 1,
         Peer(r) \notin Foreign => Says(Peer(r)) /\ (cancels = 0 => OrderInv(Peer(r))),
         NEW f \in Arriving(r), f.op = "Close"
  PROVE  Close!Heard(r)
<1> DEFINE p == Peer(r)
           n == taken[r] + 1
<1> SUFFICES ASSUME ~Marred[p]
             PROVE  SaidClose[p] /\ (p \in LawfulRoles => taken'[r] = SentCount[p])
  BY DEF Close!Heard, Close!Peer, Peer
<1>1. p \in Roles
  BY PeerFacts
<1>2. cancels = 0 /\ Intact(p)
  <2>1. Marred[p] <=> cancels > 0 \/ ~Intact(p)
    BY <1>1, Zenon DEF Marred
  <2>2. ~(cancels > 0) => cancels = 0
    BY DEF TypeInv, TypeOK
  <2> QED BY <2>1, <2>2
<1>3. n \in 1 .. Len(wired[p]) /\ wired[p][n].op = "Close"
  BY <1>2, ArrivingFacts DEF TypeInv
<1>4. CASE p \in Foreign
  <2>1. HasClose(wired[p]) /\ p \notin LawfulRoles
    BY <1>3, <1>4 DEF HasClose, LawfulRoles, Ours
  <2> QED BY <1>1, <1>4, <2>1 DEF SaidClose, Committed
<1>5. CASE p \notin Foreign
  <2>1. Prefix(p)
    BY <1>2, <1>5 DEF OrderInv
  <2>2. Len(wired[p]) \in Nat /\ Len(encoded[p]) \in Nat
    BY <1>1, SeqTypesHold DEF TypeInv, SeqTypes
  <2>3. n \in 1 .. Len(encoded[p]) /\ encoded[p][n].op = "Close"
    BY <1>3, <2>1, <2>2 DEF Prefix
  <2>4. HasClose(encoded[p])
    BY <2>3 DEF HasClose
  <2>5. p \in LawfulRoles => n = Len(encoded[p])
    BY <1>5, <2>3 DEF Says, CloseInv, OnlyLast
  <2> QED BY <1>1, <1>5, <2>4, <2>5 DEF SaidClose, SentCount, Committed
<1> QED BY <1>4, <1>5

LEMMA ReceivesAgree ==
  ASSUME TypeInv, NEW r \in Roles, r \notin Foreign, Says(r), Around(r),
         Peer(r) \notin Foreign => Says(Peer(r)) /\ (cancels = 0 => OrderInv(Peer(r))),
         Receiving(r)
  PROVE  Close!Read(r) \/ Close!Hear(r) \/ Close!End(r) \/ Close!Return
<1>1. TypeOK /\ Whole
  BY DEF TypeInv, Receiving, DecodeRejects, FrameFails, FrameAnswered, FrameDelivered,
     FrameAbsorbed, NextEnd, NextFails, Handle, stream, bounds, Whole
<1>2. /\ state = [q \in Roles |-> state[q]]
      /\ taken = [q \in Roles |-> taken[q]]
  BY <1>1 DEF TypeOK
<1>3. CASE NextEnd(r) \/ NextFails(r)
  <2>1. Mute(r) /\ taken' = taken /\ state'[r] \in {state[r], "Terminated"}
    BY <1>1, <1>3 DEF NextEnd, NextFails, stream, ws, Mute, Committed, TypeOK
  <2> QED BY <1>1, <1>2, <2>1, MuteReturns, MuteEnds
<1>4. ASSUME taken'[r] = taken[r] + 1 PROVE Close!GetOne(r)
  BY <1>4 DEF Around, Close!GetOne
<1>5. ASSUME taken'[r] = taken[r] + 1, Mute(r), state'[r] = state[r]
      PROVE  Close!Read(r)
  <2>1. state' = state
    BY <1>2, <1>5 DEF Around
  <2> QED BY <1>1, <1>4, <1>5, <2>1, MuteIsSilent, WholeKept DEF Close!Read
<1>6. CASE DecodeRejects(r)
  <2>1. Mute(r) /\ taken'[r] = taken[r] + 1 /\ state'[r] = state[r]
    BY <1>1, <1>6 DEF DecodeRejects, Take, ws, Mute, Committed, TypeOK
  <2> QED BY <1>5, <2>1
<1>7. ASSUME NEW f \in Arriving(r), Handle(r, ReadMessageFrame(r, f)),
             \/ Mute(r)
             \/ /\ ReadMessageFrame(r, f).reply # NoFrame
                /\ \E g \in Frame : g.op = ReadMessageFrame(r, f).reply.op /\ Emits(r, g)
      PROVE  Close!Read(r) \/ Close!Hear(r)
  <2> DEFINE got == ReadMessageFrame(r, f)
  <2>1. taken'[r] = taken[r] + 1 /\ state'[r] = got.state
    BY <1>1, <1>7 DEF Handle, Take, TypeOK
  <2>2. /\ Moved(state[r], got.state)
        /\ got.state # state[r] => f.op = "Close"
        /\ got.reply # NoFrame =>
             state[r] = "Active" /\ (got.reply.op = "Close" <=> got.state # "Active")
    BY HandlingFacts
  <2> HIDE DEF got
  <2>3. \/ Mute(r)
        \/ got.reply # NoFrame /\ \E g \in Frame : g.op = got.reply.op /\ Emits(r, g)
    BY <1>7 DEF got
  <2>4. \/ Close!Silent
        \/ /\ got.reply # NoFrame
           /\ \E g \in Frame : g.op = got.reply.op /\ Close!Commit(r, g.op = "Close")
    <3>1. CASE Mute(r)
      BY <3>1, MuteIsSilent
    <3>2. ASSUME got.reply # NoFrame, NEW g \in Frame, g.op = got.reply.op, Emits(r, g)
          PROVE  Close!Commit(r, g.op = "Close")
      <4>1. state[r] = "Active" /\ (g.op = "Close" <=> state'[r] # "Active")
        BY <2>1, <2>2, <3>2
      <4>2. r \in LawfulRoles => ~HasClose(Committed(r))
        BY <4>1 DEF Says, CloseInv, Committed
      <4> QED BY <1>1, <3>2, <4>1, <4>2, EmitsCommits
    <3> QED BY <2>3, <3>1, <3>2
  <2>5. CASE state'[r] = state[r]
    <3>1. state' = state
      BY <1>2, <2>5 DEF Around
    <3>2. Close!Commit(r, FALSE) \/ Close!Silent
      <4>1. ASSUME got.reply # NoFrame, NEW g \in Frame, g.op = got.reply.op,
                   Close!Commit(r, g.op = "Close")
            PROVE  Close!Commit(r, FALSE)
        <5>1. (g.op = "Close") = FALSE
          BY <2>1, <2>2, <2>5, <4>1
        <5> QED BY <4>1, <5>1
      <4> QED BY <2>4, <4>1
    <3> QED BY <1>1, <1>4, <2>1, <3>1, <3>2, WholeKept DEF Close!Read
  <2>6. CASE state'[r] # state[r]
    <3>1. Close!Heard(r)
      BY <2>1, <2>2, <2>6, HeardClose
    <3>2. state' = [state EXCEPT ![r] = state'[r]]
      BY DEF Around
    <3>3. CASE state[r] = "Active" /\ state'[r] = "ClosedByPeer"
      <4>1. Close!Commit(r, TRUE) \/ Close!Silent
        <5>1. ASSUME got.reply # NoFrame, NEW g \in Frame, g.op = got.reply.op,
                     Close!Commit(r, g.op = "Close")
              PROVE  Close!Commit(r, TRUE)
          <6>1. (g.op = "Close") = TRUE
            BY <2>1, <2>2, <3>3, <5>1
          <6> QED BY <5>1, <6>1
        <5> QED BY <2>4, <5>1
      <4>2. Close!MoveTo(r, "ClosedByPeer")
        BY <3>2, <3>3 DEF Close!MoveTo
      <4> QED BY <1>1, <1>4, <2>1, <3>1, <3>3, <4>1, <4>2, WholeKept DEF Close!Hear
    <3>4. CASE state[r] = "ClosedByUs" /\ state'[r] = "CloseAcknowledged"
      <4>1. Close!Silent
        BY <2>2, <2>4, <3>4
      <4>2. Close!MoveTo(r, "CloseAcknowledged")
        BY <3>2, <3>4 DEF Close!MoveTo
      <4> QED BY <1>1, <1>4, <2>1, <3>1, <3>4, <4>1, <4>2, WholeKept DEF Close!Hear
    <3> QED BY <2>1, <2>2, <2>6, <3>3, <3>4 DEF Moved
  <2> QED BY <2>5, <2>6
<1>8. CASE FrameFails(r) \/ FrameDelivered(r) \/ FrameAbsorbed(r)
  <2>1. PICK f \in Arriving(r) : Handle(r, ReadMessageFrame(r, f))
    BY <1>8 DEF FrameFails, FrameDelivered, FrameAbsorbed
  <2>2. Mute(r)
    BY <1>8 DEF FrameFails, FrameDelivered, FrameAbsorbed, history, Mute, Committed
  <2> QED BY <1>7, <2>1, <2>2
<1>9. CASE FrameAnswered(r)
  <2>1. PICK f \in Arriving(r) :
          /\ ReadMessageFrame(r, f).reply # NoFrame
          /\ WriteFrame(r, "read", ReadMessageFrame(r, f).reply, ReadMessageFrame(r, f).msg)
          /\ Handle(r, ReadMessageFrame(r, f))
    BY <1>9 DEF FrameAnswered
  <2>2. ReadMessageFrame(r, f).reply \in Frame
    BY <1>1, <2>1, ArrivingFacts, ReadMessageFrameType, FrameFacts DEF Outcome
  <2> QED BY <1>1, <1>7, <2>1, <2>2, WriteFrameEmits
<1> QED BY <1>3, <1>6, <1>8, <1>9 DEF Receiving

LEMMA MarredStays ==
  ASSUME TypeInv, [Next]_vars
  PROVE  /\ Marred' \in [Roles -> BOOLEAN]
         /\ \A q \in Roles : Marred[q] => Marred'[q]
<1>1. Marred' \in [Roles -> BOOLEAN]
  BY DEF Marred
<1>2. ASSUME NEW q \in Roles, Marred[q] PROVE Marred'[q]
  <2>1. Grows(q)
    BY WiredGrows
  <2>2. Intact(q)' => Intact(q)
    <3> SUFFICES ASSUME Intact(q)', NEW i \in 1 .. Len(wired[q])
                 PROVE  wired[q][i] # Torn
      BY DEF Intact
    <3>1. Len(wired[q]) \in Nat /\ Len(wired'[q]) \in Nat /\ Len(wired[q]) <= Len(wired'[q])
      BY <2>1 DEF Grows
    <3>2. i \in 1 .. Len(wired'[q])
      BY <3>1
    <3> QED BY <2>1, <3>2 DEF Grows, Intact
  <2>3. cancels > 0 => cancels' > 0
    <3>1. cancels \in Nat /\ (cancels' = cancels \/ cancels' = cancels + 1)
      BY CancelsCount DEF TypeInv, TypeOK
    <3> QED BY <3>1
  <2>4. (cancels > 0 \/ ~Intact(q)) /\ Marred'[q] = (cancels > 0 \/ ~Intact(q))'
    BY <1>2, Zenon DEF Marred
  <2> QED BY <2>2, <2>3, <2>4, Zenon
<1> QED BY <1>1, <1>2

LEMMA MuteMars ==
  ASSUME TypeInv, [Next]_vars, NEW r \in Roles, Around(r), Mute(r), state' = state,
         taken' = taken
  PROVE  Close!Mar
<1>1. Close!Silent
  BY MuteIsSilent
<1> QED BY <1>1, MarredStays DEF Close!Silent, Close!Mar, Close!Roles, Roles

LEMMA SendsAgree ==
  ASSUME TypeInv, [Next]_vars, NEW r \in Roles, r \notin Foreign, Says(r), Around(r),
         Sending(r)
  PROVE  Close!Send(r) \/ Close!Mar
<1>1. TypeOK /\ state' = state /\ taken' = taken
  BY DEF TypeInv, Sending, WriteSome, WriteFails, SyncThenEncode, SyncThenReturn,
     SyncThenShutdown, SyncFails, Shutdown, ShutdownFails, ws, stream
<1>2. CASE SyncThenEncode(r)
  <2> DEFINE f == fut[r].frame
  <2>1. f \in Frame /\ fut[r].then = "encode"
    BY <1>1, <1>2 DEF TypeOK, SyncThenEncode, Flushed, Future
  <2>2. Emits(r, f) /\ Whole
    BY <1>1, <1>2 DEF SyncThenEncode, Encode, Emits, Committed, Whole, stream, bounds, TypeOK
  <2>3. r \in LawfulRoles =>
          ~HasClose(Committed(r)) /\ (f.op = "Close" <=> state'[r] # "Active")
    BY <1>1, <2>1 DEF Says, CloseInv, Committed
  <2> HIDE DEF f
  <2>4. Close!Commit(r, f.op = "Close")
    BY <1>1, <2>1, <2>2, <2>3, EmitsCommits
  <2>5. (f.op = "Close") \in BOOLEAN
    OBVIOUS
  <2> QED BY <1>1, <2>2, <2>4, <2>5, WholeKept DEF Close!Send
<1>3. CASE ~SyncThenEncode(r)
  <2>1. Mute(r)
    BY <1>3 DEF Sending, WriteSome, WriteFails, SyncThenReturn, SyncThenShutdown,
       SyncFails, Shutdown, ShutdownFails, history, Mute, Committed
  <2> QED BY <1>1, <2>1, MuteMars
<1> QED BY <1>2, <1>3

LEMMA SurroundingsAgree ==
  ASSUME TypeInv, [Next]_vars, NEW r \in Roles, r \notin Foreign, Around(r),
         Surroundings(r)
  PROVE  Close!Mar
<1>1. Mute(r) /\ state' = state /\ taken' = taken
  BY DEF Surroundings, Cancel, Drop, Break, ForeignSend, ForeignRead, ForeignDrop,
     ws, history, Mute, Committed
<1> QED BY <1>1, MuteMars

ForeignReads(r) ==
  UNCHANGED state /\ Close!GetOne(r) /\ Close!Silent /\ Marred' = Marred

LEMMA ForeignAgrees ==
  ASSUME TypeInv, [Next]_vars, NEW r \in Roles, r \in Foreign, Around(r),
         ForeignSend(r) \/ ForeignRead(r) \/ ForeignDrop(r)
  PROVE  Close!Send(r) \/ ForeignReads(r) \/ Close!Mar
<1>1. TypeOK /\ state' = state /\ cancels' = cancels
  BY DEF TypeInv, ForeignSend, ForeignRead, ForeignDrop, ws, bounds
<1>2. CASE ForeignSend(r)
  <2>1. PICK f \in Menu[r] : wired' = [wired EXCEPT ![r] = Append(@, f)]
    BY <1>2 DEF ForeignSend
  <2>2. f \in Frame /\ taken' = taken
    BY <1>2, MenuAssumption DEF ForeignSend
  <2>3. Emits(r, f) /\ r \notin LawfulRoles
    BY <1>1, <2>1 DEF Emits, Committed, TypeOK, LawfulRoles, Ours
  <2>4. Close!Commit(r, f.op = "Close") /\ (f.op = "Close") \in BOOLEAN
    BY <1>1, <2>2, <2>3, EmitsCommits
  <2>5. Marred' = Marred
    <3>1. Intact(r)' <=> Intact(r)
      <4>1. wired[r] \in Seq(OnWire) /\ f \in OnWire /\ f # Torn
        BY <1>1, <2>2, FrameFacts DEF TypeOK, OnWire
      <4>2. wired'[r] = Append(wired[r], f)
        BY <1>1, <2>1 DEF TypeOK
      <4>3. /\ Len(Append(wired[r], f)) = Len(wired[r]) + 1 /\ Len(wired[r]) \in Nat
            /\ Append(wired[r], f)[Len(wired[r]) + 1] = f
            /\ \A i \in 1 .. Len(wired[r]) : Append(wired[r], f)[i] = wired[r][i]
        BY <4>1, AppendFacts
      <4> QED BY <4>1, <4>2, <4>3 DEF Intact
    <3>2. ASSUME NEW q \in Roles PROVE Intact(q)' = Intact(q)
      <4>1. CASE q = r
        BY <3>1, <4>1 DEF Intact
      <4>2. CASE q # r
        BY <1>1, <2>1, <4>2 DEF TypeOK, Intact
      <4> QED BY <4>1, <4>2
    <3> QED BY <1>1, <3>2 DEF Marred
  <2> QED BY <1>1, <2>2, <2>4, <2>5 DEF Close!Send
<1>3. CASE ForeignRead(r)
  <2>1. Mute(r) /\ Whole /\ taken'[r] = taken[r] + 1
    BY <1>1, <1>3 DEF ForeignRead, Take, history, Mute, Committed, Whole, TypeOK
  <2>2. Close!GetOne(r)
    BY <2>1 DEF Around, Close!GetOne
  <2> QED BY <1>1, <2>1, <2>2, MuteIsSilent, WholeKept DEF ForeignReads
<1>4. CASE ForeignDrop(r)
  <2>1. Mute(r) /\ taken' = taken
    BY <1>4 DEF ForeignDrop, history, Mute, Committed
  <2> QED BY <1>1, <2>1, MuteMars
<1> QED BY <1>2, <1>3, <1>4

(* What every step needs to know of both endpoints.                        *)
Agreed ==
  /\ TypeInv /\ SeenInvAll /\ ForeignIdle /\ OrderInvAll
  /\ \A r \in LawfulRoles : CloseInv(r)

LEMMA StepAgrees ==
  ASSUME Agreed, TypeInv', [Next]_vars, NEW r \in Roles, Step(r)
  PROVE  \/ r \notin Foreign /\ (\/ Close!Begin(r) \/ Close!Send(r) \/ Close!Read(r)
                                \/ Close!Hear(r) \/ Close!End(r))
         \/ r \in Foreign /\ (Close!Send(r) \/ ForeignReads(r))
         \/ Close!Mar \/ Close!Return
<1>1. TypeInv /\ TypeOK /\ Around(r)
  BY AroundStep DEF Agreed, TypeInv
<1>2. CASE r \in Foreign
  <2>1. ForeignSend(r) \/ ForeignRead(r) \/ ForeignDrop(r)
    BY <1>1, <1>2, ForeignSteps DEF Agreed
  <2> QED BY <1>1, <1>2, <2>1, ForeignAgrees
<1>3. CASE r \notin Foreign
  <2>1. \A q \in Roles : q \notin Foreign => Says(q) /\ (cancels = 0 => OrderInv(q))
    BY DEF Agreed, Says, OrderInvAll, Ours
  <2>2. Says(r) /\ Peer(r) \in Roles
    BY <1>3, <2>1, PeerFacts
  <2>3. Peer(r) \notin Foreign => Says(Peer(r)) /\ (cancels = 0 => OrderInv(Peer(r)))
    BY <2>1, <2>2
  <2>4. CASE Receiving(r)
    BY <1>1, <1>3, <2>2, <2>3, <2>4, ReceivesAgree
  <2>5. CASE Sending(r)
    BY <1>1, <1>3, <2>2, <2>5, SendsAgree
  <2>6. CASE Calling(r)
    BY <1>1, <1>3, <2>2, <2>6, CallsAgree
  <2>7. CASE Surroundings(r)
    BY <1>1, <1>3, <2>7, SurroundingsAgree
  <2> QED BY <1>3, <2>4, <2>5, <2>6, <2>7 DEF Step
<1> QED BY <1>2, <1>3

LEMMA CallersAreTold ==
  ASSUME TypeInv, SeenInvAll, NEW r \in Roles, Step(r)
  PROVE  ToldClosed' \in [Roles -> BOOLEAN] /\ \A q \in Roles : Close!Tells(q)
<1>1. ToldClosed' \in [Roles -> BOOLEAN]
  BY DEF ToldClosed
<1>2. ASSUME NEW q \in Roles PROVE Tells(q)
  <2>1. CASE q = r
    BY <2>1, TellsStep DEF SeenInvAll
  <2>2. CASE q # r
    <3>1. ret'[q] = ret[q]
      BY <2>2, StepIsLocal DEF TypeInv, Same, SameCall
    <3> QED BY <3>1 DEF Tells, ReadClosed
  <2> QED BY <2>1, <2>2
<1>3. ASSUME NEW q \in Roles PROVE Close!Tells(q)
  <2>1. /\ ToldClosed[q] <=> ReadClosed(q)
        /\ ToldClosed'[q] <=> ReadClosed(q)'
    BY DEF ToldClosed, ReadClosed
  <2> QED BY <1>2, <2>1 DEF Tells, Close!Tells, Close!PeerCloses, PeerCloses
<1> QED BY <1>1, <1>3

LEMMA CloseNext == Agreed /\ TypeInv' /\ [Next]_vars => [Close!Next]_(Close!vars)
<1> SUFFICES ASSUME Agreed, TypeInv', [Next]_vars PROVE Close!Next \/ UNCHANGED Close!vars
  OBVIOUS
<1>1. CASE UNCHANGED vars
  <2>1. UNCHANGED <<state, taken, wired, encoded, ret, cancels>>
    BY <1>1 DEF vars, ws, stream, history, bounds
  <2>2. UNCHANGED <<SentCount, SaidClose, Marred, ToldClosed>>
    BY <2>1 DEF SentCount, SaidClose, Committed, HasClose, Marred, Intact, ToldClosed
  <2> QED BY <2>1, <2>2 DEF Close!vars
<1>2. ASSUME NEW r \in Roles, Step(r) PROVE Close!Next
  <2>1. ToldClosed' \in [Roles -> BOOLEAN] /\ \A q \in Roles : Close!Tells(q)
    BY <1>2, CallersAreTold DEF Agreed
  <2>2. r \notin Foreign => r \in Roles \ Foreign
    OBVIOUS
  <2> QED BY <1>2, <2>1, <2>2, StepAgrees DEF Close!Next, Close!Roles, Roles, ForeignReads
<1> QED BY <1>1, <1>2, NextCases DEF Step

LEMMA CloseInit == Init => Close!Init
<1> SUFFICES ASSUME Init PROVE Close!Init
  OBVIOUS
<1>1. \A r \in Roles : Committed(r) = <<>> /\ wired[r] = <<>>
  BY DEF Init, Committed
<1>2. SentCount = [r \in Roles |-> 0]
  BY <1>1 DEF SentCount
<1>3. SaidClose = [r \in Roles |-> FALSE]
  <2>1. \A r \in Roles : HasClose(Committed(r)) = FALSE
    BY <1>1 DEF HasClose
  <2> QED BY <2>1 DEF SaidClose
<1>4. Marred = [r \in Roles |-> FALSE]
  <2>1. (cancels > 0) = FALSE
    BY DEF Init
  <2>2. \A r \in Roles : Intact(r)
    BY <1>1 DEF Intact
  <2> QED BY <2>1, <2>2, Zenon DEF Marred
<1>5. ToldClosed = [r \in Roles |-> FALSE]
  <2>1. [op |-> "none", res |-> "Ok"] # [op |-> "read", res |-> "ConnectionClosed"]
    OBVIOUS
  <2> QED BY <2>1 DEF Init, NotReturned, ToldClosed
<1>6. state = [r \in Roles |-> "Active"] /\ taken = [r \in Roles |-> 0]
  BY DEF Init
<1> QED BY <1>2, <1>3, <1>4, <1>5, <1>6 DEF Close!Init, Close!Roles, Roles

LEMMA LawfulClose == CloseInvAll => \A r \in LawfulRoles : CloseInv(r)
BY DEF CloseInvAll, NoRawClose, LawfulRoles, Ours

LEMMA AgreedAlways == Spec => []Agreed
<1>1. TypeInv /\ SeenInvAll /\ ForeignIdle /\ OrderInvAll /\ CloseInvAll => Agreed
  BY LawfulClose DEF Agreed
<1> QED BY <1>1, TypeInvariant, SeenAlways, ForeignAlways, OrderAlways, CloseAlways, PTL

(* The two endpoints, their codecs and the transport implement the close   *)
(* handshake, for every menu, limit, capacity and fault.                   *)
THEOREM ClosesAsAgreedHolds == Spec => ClosesAsAgreed
<1>1. Agreed /\ TypeInv' /\ [Next]_vars => [Close!Next]_(Close!vars)
  BY CloseNext
<1>2. TypeInv /\ [Next]_vars => TypeInv'
  BY TypeStep
<1> QED BY <1>1, <1>2, CloseInit, AgreedAlways, TypeInvariant, PTL
        DEF Spec, ClosesAsAgreed, Close!Spec

-----------------------------------------------------------------------------
(* What follows from the close handshake.                                  *)

Knows(r) == Close!PeerCloses(r) \/ ToldClosed[r]

(* All the peer said has been read.                                        *)
HeardAll(r, got, said, sent) ==
  said[Peer(r)] /\ (Peer(r) \in LawfulRoles => got[r] >= sent[Peer(r)])

LEMMA AgreementIs ==
  Close!Agreement <=>
    \A r \in Roles : Knows(r) /\ ~Marred[Peer(r)] => HeardAll(r, taken, SaidClose, SentCount)
BY DEF Close!Agreement, Close!Peer, Peer, Close!Roles, Roles, Knows, HeardAll

LEMMA AgreementIsNext ==
  Close!Agreement' <=>
    \A r \in Roles : Knows(r)' /\ ~Marred'[Peer(r)]
                       => HeardAll(r, taken', SaidClose', SentCount')
BY DEF Close!Agreement, Close!Peer, Peer, Close!Roles, Roles, Knows, HeardAll

LEMMA CloseTypes == TypeInv => Close!TypeOK
<1> SUFFICES ASSUME TypeInv PROVE Close!TypeOK
  OBVIOUS
<1>1. state \in [Roles -> Close!Phase] /\ taken \in [Roles -> Nat]
  BY DEF TypeInv, TypeOK, State, Close!Phase
<1>2. SentCount \in [Roles -> Nat]
  <2>1. \A r \in Roles : Len(Committed(r)) \in Nat
    BY SeqTypesHold DEF TypeInv, SeqTypes, Committed
  <2> QED BY <2>1 DEF SentCount
<1>3. /\ SaidClose \in [Roles -> BOOLEAN] /\ Marred \in [Roles -> BOOLEAN]
      /\ ToldClosed \in [Roles -> BOOLEAN]
  BY DEF SaidClose, HasClose, Marred, ToldClosed
<1> QED BY <1>1, <1>2, <1>3 DEF Close!TypeOK, Close!Roles, Roles

(* Only its own frames count as sent by a role, and a lawful one that has  *)
(* said Close sends none.                                                  *)
LEMMA SaidStays ==
  ASSUME Close!TypeOK, NEW p \in Roles, NEW q \in Roles, NEW close \in BOOLEAN,
         Close!Commit(q, close), SaidClose[p]
  PROVE  SaidClose'[p] /\ (p \in LawfulRoles => SentCount'[p] = SentCount[p])
BY DEF Close!TypeOK, Close!Roles, Roles, Close!Commit

LEMMA AgreementStep ==
  ASSUME Close!TypeOK, Close!Agreement, Close!Next
  PROVE  Close!Agreement'
<1> SUFFICES ASSUME NEW r \in Roles, Knows(r)', ~Marred'[Peer(r)]
             PROVE  HeardAll(r, taken', SaidClose', SentCount')
  BY AgreementIsNext
<1> DEFINE p == Peer(r)
<1>1. p \in Roles /\ p # r
  BY PeerFacts
<1>2. /\ SentCount \in [Roles -> Nat] /\ SaidClose \in [Roles -> BOOLEAN]
      /\ taken \in [Roles -> Nat] /\ state = [q \in Roles |-> state[q]]
  BY DEF Close!TypeOK, Close!Roles, Roles
<1> DEFINE Acts(q) ==
             \/ Close!Begin(q) \/ Close!Send(q) \/ Close!Read(q) \/ Close!Hear(q)
             \/ Close!End(q) \/ ForeignReads(q)
<1>0. (\E q \in Roles : Acts(q)) \/ Close!Mar \/ Close!Return
  BY ForeignAssumption DEF Close!Next, Close!Roles, Roles, ForeignReads
<1>3. ~Marred[p]
  BY <1>1 DEF Close!Next, Close!Begin, Close!Send, Close!Read, Close!Hear, Close!End,
     Close!Mar, Close!Return, Close!Roles, Roles
<1>4. Knows(r) \/ Close!PeerCloses(r)'
  BY DEF Knows, Close!Next, Close!Tells, Close!Roles, Roles
<1>5. taken'[r] \in Nat /\ taken'[r] >= taken[r]
  <2>1. taken' = taken \/ \E q \in Roles : Close!GetOne(q)
    <3>1. ASSUME NEW q \in Roles, Acts(q) PROVE taken' = taken \/ Close!GetOne(q)
      BY <3>1 DEF Close!Begin, Close!Send, Close!Read, Close!Hear, Close!End, ForeignReads
    <3>2. Close!Mar \/ Close!Return => taken' = taken
      BY DEF Close!Mar, Close!Return
    <3> QED BY <1>0, <3>1, <3>2
  <2>2. CASE taken' = taken
    BY <1>2, <2>2
  <2>3. ASSUME NEW q \in Roles, Close!GetOne(q) PROVE taken'[r] \in {taken[r], taken[r] + 1}
    BY <1>2, <2>3 DEF Close!GetOne
  <2>4. taken'[r] \in {taken[r], taken[r] + 1}
    BY <2>1, <2>2, <2>3
  <2>5. taken[r] \in Nat
    BY <1>2
  <2> QED BY <2>4, <2>5
<1>6. Close!Silent \/ \E q \in Roles, close \in BOOLEAN : Close!Commit(q, close)
  <2>1. ASSUME NEW q \in Roles, Acts(q)
        PROVE  Close!Silent \/ \E close \in BOOLEAN : Close!Commit(q, close)
    <3>1. Close!Silent \/ Close!Commit(q, TRUE) \/ Close!Commit(q, FALSE)
          \/ \E close \in BOOLEAN : Close!Commit(q, close)
      BY <2>1 DEF Close!Begin, Close!Send, Close!Read, Close!Hear, Close!End, ForeignReads
    <3>2. TRUE \in BOOLEAN /\ FALSE \in BOOLEAN
      OBVIOUS
    <3> QED BY <3>1, <3>2
  <2>2. Close!Mar \/ Close!Return => Close!Silent
    BY DEF Close!Mar, Close!Return, Close!Silent
  <2> QED BY <1>0, <2>1, <2>2
<1>7. ASSUME Knows(r) PROVE HeardAll(r, taken', SaidClose', SentCount')
  <2>1. HeardAll(r, taken, SaidClose, SentCount)
    BY <1>3, <1>7, AgreementIs
  <2>2. SaidClose'[p] /\ (p \in LawfulRoles => SentCount'[p] = SentCount[p])
    <3>1. CASE Close!Silent
      BY <2>1, <3>1 DEF Close!Silent, HeardAll
    <3>2. ASSUME NEW q \in Roles, NEW close \in BOOLEAN, Close!Commit(q, close)
          PROVE  SaidClose'[p] /\ (p \in LawfulRoles => SentCount'[p] = SentCount[p])
      BY <1>1, <2>1, <3>2, SaidStays DEF HeardAll
    <3> QED BY <1>6, <3>1, <3>2
  <2>3. SentCount[p] \in Nat /\ taken[r] \in Nat
    BY <1>1, <1>2
  <2>4. p \in LawfulRoles => taken'[r] >= SentCount'[p]
    BY <1>5, <2>1, <2>2, <2>3 DEF HeardAll
  <2> QED BY <2>2, <2>4 DEF HeardAll
<1>8. ASSUME ~Close!PeerCloses(r), Close!PeerCloses(r)' PROVE Close!Hear(r)
  <2>1. ASSUME NEW q \in Roles, NEW s, Close!MoveTo(q, s), s \notin {"ClosedByPeer", "CloseAcknowledged"} \/ q # r
        PROVE  FALSE
    <3>1. state'[r] = state[r] \/ state'[r] = s
      BY <1>2, <2>1 DEF Close!MoveTo
    <3>2. q # r => state'[r] = state[r]
      BY <1>2, <2>1 DEF Close!MoveTo
    <3> QED BY <1>8, <2>1, <3>1, <3>2 DEF Close!PeerCloses
  <2>2. state' # state
    BY <1>8 DEF Close!PeerCloses
  <2>3. \E q \in Roles : Close!Begin(q) \/ Close!Hear(q) \/ Close!End(q)
    BY <2>2 DEF Close!Next, Close!Send, Close!Read, Close!Mar, Close!Return, Close!Roles, Roles
  <2>4. PICK q \in Roles : Close!Begin(q) \/ Close!Hear(q) \/ Close!End(q)
    BY <2>3
  <2>5. ~Close!Begin(q) /\ ~Close!End(q)
    BY <2>1 DEF Close!Begin, Close!End
  <2>6. q = r
    BY <2>1, <2>4, <2>5 DEF Close!Hear
  <2> QED BY <2>4, <2>5, <2>6
<1>9. ASSUME Close!Hear(r) PROVE HeardAll(r, taken', SaidClose', SentCount')
  <2>1. Close!Silent \/ Close!Commit(r, TRUE)
    BY <1>9 DEF Close!Hear
  <2>2. SaidClose'[p] = SaidClose[p] /\ SentCount'[p] = SentCount[p]
    BY <1>1, <1>2, <2>1 DEF Close!Silent, Close!Commit
  <2>3. SaidClose[p] /\ (p \in LawfulRoles => taken'[r] = SentCount[p])
    BY <1>3, <1>9 DEF Close!Hear, Close!Heard, Close!Peer, Peer
  <2>4. taken'[r] >= taken'[r]
    BY <1>5
  <2> QED BY <2>2, <2>3, <2>4 DEF HeardAll
<1> QED BY <1>4, <1>7, <1>8, <1>9 DEF Knows

(* No endpoint believes that the peer closes, and no caller is told of a   *)
(* normal close, unless the peer has sent its Close; and then all that a   *)
(* lawful peer ever sends has been read.                                   *)
THEOREM AgreementHolds == Spec => []Close!Agreement
<1>1. Close!Init => Close!Agreement
  <2> SUFFICES ASSUME Close!Init, NEW r \in Roles PROVE ~Knows(r)
    BY AgreementIs
  <2> QED BY DEF Close!Init, Close!Roles, Roles, Knows, Close!PeerCloses
<1>2. TypeInv /\ Close!Agreement /\ [Close!Next]_(Close!vars) => Close!Agreement'
  <2>1. Close!Agreement /\ UNCHANGED Close!vars => Close!Agreement'
    BY DEF Close!vars, Close!Agreement, Close!PeerCloses
  <2> QED BY <2>1, CloseTypes, AgreementStep
<1> QED BY <1>1, <1>2, ClosesAsAgreedHolds, TypeInvariant, PTL DEF ClosesAsAgreed, Close!Spec
=============================================================================
