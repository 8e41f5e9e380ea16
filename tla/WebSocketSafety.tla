--------------------------- MODULE WebSocketSafety ---------------------------
(***************************************************************************)
(* The safety of closing and writing, proved for every set of foreign      *)
(* roles, every menu, configuration, capacity and number of calls, over a  *)
(* transport that fails and callers who drop futures and endpoints.        *)
(***************************************************************************)
EXTENDS WebSocketProofs

Step(r) == Receiving(r) \/ Sending(r) \/ Calling(r) \/ Surroundings(r)

-----------------------------------------------------------------------------
(* A step of one endpoint leaves the other's state alone.                  *)

SameCall(r) == fut'[r] = fut[r] /\ ret'[r] = ret[r]
SameCodec(r) ==
  writeBuf'[r] = writeBuf[r] /\ out'[r] = out[r] /\ encoded'[r] = encoded[r]
SameStream(r) == taken'[r] = taken[r] /\ wired'[r] = wired[r]
Same(r) == state'[r] = state[r] /\ SameCall(r) /\ SameCodec(r) /\ SameStream(r)

LEMMA FinishLocal ==
  ASSUME TypeOK, NEW q \in Roles, NEW r \in Roles, q # r,
         NEW op, NEW res, NEW msg, Finish(q, op, res, msg)
  PROVE  SameCall(r)
BY DEF TypeOK, Finish, SameCall

LEMMA SuspendLocal ==
  ASSUME TypeOK, NEW q \in Roles, NEW r \in Roles, q # r,
         NEW future, Suspend(q, future)
  PROVE  SameCall(r)
BY DEF TypeOK, Suspend, SameCall

LEMMA SubmitLocal ==
  ASSUME TypeOK, NEW q \in Roles, NEW r \in Roles, q # r,
         NEW buf, NEW future, Submit(q, buf, future), encoded'[r] = encoded[r]
  PROVE  SameCall(r) /\ SameCodec(r)
<1>1. SameCall(r)
  BY SuspendLocal DEF Submit
<1> QED BY <1>1 DEF TypeOK, Submit, SameCodec

LEMMA EncodeLocal ==
  ASSUME TypeOK, NEW q \in Roles, NEW r \in Roles, q # r,
         NEW op, NEW buf, NEW f, NEW msg, Encode(q, op, buf, f, msg)
  PROVE  SameCall(r) /\ SameCodec(r)
<1>1. encoded'[r] = encoded[r]
  BY DEF TypeOK, Encode
<1>2. CASE op = "write"
  <2>1. SameCall(r)
    BY <1>2, FinishLocal DEF Encode
  <2> QED BY <1>1, <1>2, <2>1 DEF TypeOK, Encode, SameCodec
<1>3. CASE op # "write"
  BY <1>1, <1>3, SubmitLocal DEF Encode
<1> QED BY <1>2, <1>3

LEMMA WriteFrameLocal ==
  ASSUME TypeOK, NEW q \in Roles, NEW r \in Roles, q # r,
         NEW op, NEW f, NEW msg, WriteFrame(q, op, f, msg)
  PROVE  SameCall(r) /\ SameCodec(r)
BY EncodeLocal, SubmitLocal DEF WriteFrame

LEMMA FlushAllLocal ==
  ASSUME TypeOK, NEW q \in Roles, NEW r \in Roles, q # r,
         NEW op, FlushAll(q, op)
  PROVE  SameCall(r) /\ SameCodec(r) /\ state'[r] = state[r]
<1>1. state'[r] = state[r] /\ encoded'[r] = encoded[r]
  BY DEF TypeOK, FlushAll
<1>2. CASE HasBuffered(q)
  BY <1>1, <1>2, SubmitLocal DEF FlushAll
<1>3. CASE ~HasBuffered(q)
  <2>1. SameCall(r)
    BY <1>3, FinishLocal, SuspendLocal DEF FlushAll
  <2> QED BY <1>1, <1>3, <2>1 DEF FlushAll, codec, SameCodec
<1> QED BY <1>2, <1>3

LEMMA AbandonLocal ==
  ASSUME TypeOK, NEW q \in Roles, NEW r \in Roles, q # r, Abandon(q),
         UNCHANGED <<writeBuf, encoded, taken>>
  PROVE  SameCall(r) /\ SameCodec(r) /\ SameStream(r)
<1>1. SameCall(r)
  BY DEF TypeOK, Abandon, SameCall
<1>2. SameCodec(r)
  BY DEF TypeOK, Abandon, SameCodec
<1>3. SameStream(r)
  BY DEF TypeOK, Abandon, SameStream
<1> QED BY <1>1, <1>2, <1>3

LEMMA StepIsLocal ==
  ASSUME TypeOK, NEW q \in Roles, NEW r \in Roles, q # r, Step(q)
  PROVE  Same(r)
<1>1. CASE Receiving(q)
  <2>1. SameStream(r) /\ state'[r] = state[r]
    BY <1>1 DEF TypeOK, Receiving, DecodeRejects, FrameFails, FrameAnswered,
         FrameDelivered, FrameAbsorbed, NextEnd, NextFails, Handle, Take,
         ws, stream, SameStream
  <2>2. CASE FrameAnswered(q)
    BY <2>1, <2>2, WriteFrameLocal DEF FrameAnswered, Same
  <2>3. CASE FrameAbsorbed(q)
    BY <2>1, <2>3 DEF FrameAbsorbed, codec, history, Same, SameCall, SameCodec
  <2>4. CASE DecodeRejects(q) \/ FrameFails(q) \/ FrameDelivered(q) \/ NextEnd(q)
             \/ NextFails(q)
    <3>1. SameCall(r)
      BY <2>4, FinishLocal DEF DecodeRejects, FrameFails, FrameDelivered,
           NextEnd, NextFails
    <3>2. UNCHANGED <<writeBuf, out, encoded>>
      BY <2>4 DEF DecodeRejects, FrameFails, FrameDelivered, NextEnd, NextFails, codec
    <3> QED BY <2>1, <3>1, <3>2 DEF Same, SameCodec
  <2> QED BY <1>1, <2>2, <2>3, <2>4 DEF Receiving
<1>2. CASE Sending(q)
  <2>1. SameStream(r) /\ state'[r] = state[r]
    BY <1>2 DEF TypeOK, Sending, WriteSome, WriteFails, SyncThenEncode,
         SyncThenReturn, SyncThenShutdown, SyncFails, Shutdown, ShutdownFails,
         ws, stream, SameStream
  <2>2. CASE SyncThenEncode(q)
    BY <2>1, <2>2, EncodeLocal DEF SyncThenEncode, Same
  <2>3. CASE WriteSome(q)
    <3>1. SameCall(r)
      BY <2>3 DEF TypeOK, WriteSome, SameCall
    <3>2. SameCodec(r)
      BY <2>3 DEF TypeOK, WriteSome, SameCodec, history
    <3> QED BY <2>1, <3>1, <3>2 DEF Same
  <2>4. CASE SyncThenShutdown(q)
    <3>1. SameCall(r)
      BY <2>4, SuspendLocal DEF SyncThenShutdown
    <3> QED BY <2>1, <2>4, <3>1 DEF SyncThenShutdown, codec, Same, SameCodec
  <2>5. CASE WriteFails(q) \/ SyncThenReturn(q) \/ SyncFails(q) \/ Shutdown(q)
             \/ ShutdownFails(q)
    <3>1. SameCall(r)
      BY <2>5, FinishLocal DEF WriteFails, SyncThenReturn, SyncFails, Shutdown,
           ShutdownFails
    <3>2. SameCodec(r)
      BY <2>5 DEF TypeOK, WriteFails, SyncThenReturn, SyncFails, Shutdown,
           ShutdownFails, codec, SameCodec
    <3> QED BY <2>1, <3>1, <3>2 DEF Same
  <2> QED BY <1>2, <2>2, <2>3, <2>4, <2>5 DEF Sending
<1>3. CASE Calling(q)
  <2>1. SameStream(r)
    BY <1>3 DEF Calling, CallRead, CallWrite, CallClose, CallFlush, SetConfig,
         stream, SameStream
  <2>2. CASE CallRead(q)
    <3>1. SameCall(r)
      BY <2>2, FinishLocal, SuspendLocal DEF CallRead
    <3> QED BY <2>1, <2>2, <3>1 DEF TypeOK, CallRead, codec, Same, SameCodec
  <2>3. CASE CallWrite(q)
    <3>1. state' = state
      BY <2>3 DEF CallWrite, ws
    <3>2. CASE \E f \in Menu[q] : WriteFrame(q, "write", f, NoMessage)
      BY <2>1, <3>1, <3>2, WriteFrameLocal DEF Same
    <3>3. CASE /\ \E res : Finish(q, "write", res, NoMessage)
               /\ UNCHANGED <<codec, encoded>>
      BY <2>1, <3>1, <3>3, FinishLocal DEF Same, codec, SameCodec
    <3> QED BY <2>3, <3>2, <3>3 DEF CallWrite
  <2>4. CASE CallClose(q)
    <3>1. CASE FlushAll(q, "close")
      BY <2>1, <3>1, FlushAllLocal DEF Same
    <3>2. CASE /\ state' = [state EXCEPT ![q] = "ClosedByUs"]
               /\ \E f : WriteFrame(q, "close", f, NoMessage)
      BY <2>1, <3>2, WriteFrameLocal DEF TypeOK, Same
    <3> QED BY <2>4, <3>1, <3>2 DEF CallClose
  <2>5. CASE CallFlush(q)
    BY <2>1, <2>5, FlushAllLocal DEF CallFlush, Same
  <2>6. CASE SetConfig(q)
    BY <2>1, <2>6 DEF SetConfig, codec, history, Same, SameCall, SameCodec
  <2> QED BY <1>3, <2>2, <2>3, <2>4, <2>5, <2>6 DEF Calling
<1>4. CASE Surroundings(q)
  <2>1. CASE Cancel(q) \/ Drop(q)
    BY <2>1, AbandonLocal DEF Cancel, Drop, ws, history, Same
  <2>2. CASE Break(q) \/ ForeignSend(q) \/ ForeignRead(q) \/ ForeignDrop(q)
    <3>1. UNCHANGED <<state, fut, ret, writeBuf, out, encoded>>
      BY <2>2 DEF Break, ForeignSend, ForeignRead, ForeignDrop, ws, codec, history
    <3>2. SameStream(r)
      BY <2>2 DEF TypeOK, Break, ForeignSend, ForeignRead, ForeignDrop, Take, SameStream
    <3> QED BY <3>1, <3>2 DEF Same, SameCall, SameCodec
  <2> QED BY <1>4, <2>1, <2>2 DEF Surroundings
<1> QED BY <1>1, <1>2, <1>3, <1>4 DEF Step

-----------------------------------------------------------------------------
(* What a frame does to the state, and when it is answered.                *)

Moved(old, new) ==
  \/ new = old
  \/ old = "Active" /\ new = "ClosedByPeer"
  \/ old = "ClosedByUs" /\ new = "CloseAcknowledged"

LEMMA OutcomeOfError ==
  ASSUME NEW r, NEW e, NEW m
  PROVE  /\ Nothing(r).state = state[r] /\ Nothing(r).reply = NoFrame
         /\ Error(r, e).state = state[r] /\ Error(r, e).reply = NoFrame
         /\ Return(r, m).state = state[r] /\ Return(r, m).reply = NoFrame
BY DEF Nothing, Error, Return

LEMMA DataMovesNothing ==
  ASSUME NEW r \in Roles, NEW f
  PROVE  HandleData(r, f).state = state[r] /\ HandleData(r, f).reply = NoFrame
<1>1. HandleContinue(r, f).state = state[r] /\ HandleContinue(r, f).reply = NoFrame
  BY DEF HandleContinue, Nothing, Error, Return
<1>2. HandleFirst(r, f).state = state[r] /\ HandleFirst(r, f).reply = NoFrame
  BY DEF HandleFirst, Nothing, Error
<1>3. HandleWhole(r, f).state = state[r] /\ HandleWhole(r, f).reply = NoFrame
  BY OutcomeOfError DEF HandleWhole
<1> QED BY <1>1, <1>2, <1>3, OutcomeOfError DEF HandleData

(* Only Close moves the state; an answer is owed by an active endpoint     *)
(* only, and one that answers with a Close is active no more.              *)
LEMMA HandlingFacts ==
  ASSUME NEW r \in Roles, NEW f
  PROVE  LET got == ReadMessageFrame(r, f) IN
         /\ Moved(state[r], got.state)
         /\ got.state # state[r] => f.op = "Close"
         /\ got.reply # NoFrame =>
              state[r] = "Active" /\ (got.reply.op = "Close" <=> got.state # "Active")
<1>1. LET got == HandleClose(r, f.body) IN
        /\ Moved(state[r], got.state)
        /\ got.reply # NoFrame =>
             state[r] = "Active" /\ got.state # "Active" /\ got.reply.op = "Close"
  <2>1. LET got == DoClose(r, f.body) IN
          /\ Moved(state[r], got.state)
          /\ got.reply # NoFrame =>
               state[r] = "Active" /\ got.state # "Active" /\ got.reply.op = "Close"
    BY DEF DoClose, Nothing, Moved, CloseOf, Plain
  <2> QED BY <2>1, OutcomeOfError DEF HandleClose, Moved
<1>2. LET got == [Return(r, MessageOf("Ping", f.body)) EXCEPT !.reply = PongReply(r, f.body)] IN
        /\ got.state = state[r]
        /\ got.reply # NoFrame => state[r] = "Active" /\ got.reply.op = "Pong"
  BY DEF Return, Nothing, PongReply, PongOf, Plain, Writable
<1>3. LET got == HandleControl(r, f) IN
        /\ Moved(state[r], got.state)
        /\ got.state # state[r] => f.op = "Close"
        /\ got.reply # NoFrame =>
             state[r] = "Active" /\ (got.reply.op = "Close" <=> got.state # "Active")
  BY <1>1, <1>2, OutcomeOfError DEF HandleControl, Moved
<1> QED BY <1>3, DataMovesNothing, OutcomeOfError DEF ReadMessageFrame, Moved

-----------------------------------------------------------------------------
(* Close is the last frame encoded.                                        *)

NoRawClose(r) == \A f \in Menu[r] : f.op # "Close"

OnlyLast(frames) ==
  \A i \in 1 .. Len(frames) : frames[i].op = "Close" => i = Len(frames)

(* What makes it inductive: an active endpoint has encoded no Close, nor   *)
(* has one with a frame waiting for room, and that frame is a Close exactly *)
(* if the endpoint is active no more.                                      *)
CloseInv(r) ==
  /\ OnlyLast(encoded[r])
  /\ state[r] = "Active" => ~HasClose(encoded[r])
  /\ fut[r].then = "encode" =>
       /\ fut[r].at \in {"write", "sync"}
       /\ ~HasClose(encoded[r])
       /\ fut[r].frame.op = "Close" <=> state[r] # "Active"

ThenFacts(r) ==
  /\ fut[r].then \in {"none", "encode", "return", "shutdown"}
  /\ fut[r].op \in Method \cup {"none"}

LEMMA AwaitThen ==
  ASSUME NEW op, NEW at, NEW then, NEW frame, NEW msg
  PROVE  LET a == Await(op, at, then, frame, msg) IN
         a.op = op /\ a.at = at /\ a.then = then /\ a.frame = frame
BY DEF Await

LEMMA FinishFut ==
  ASSUME TypeOK, NEW r \in Roles, NEW op, NEW res, NEW msg, Finish(r, op, res, msg)
  PROVE  /\ fut'[r] = Idle /\ fut'[r].then = "none" /\ fut'[r].at = "idle"
         /\ fut'[r].op = "none" /\ ret'[r] = [op |-> op, res |-> res]
BY AwaitThen DEF TypeOK, Finish, Idle

LEMMA SuspendFut ==
  ASSUME TypeOK, NEW r \in Roles, NEW future, Suspend(r, future)
  PROVE  fut'[r] = future /\ ret'[r] = ret[r]
BY DEF TypeOK, Suspend

(* A step that encodes nothing and leaves nothing new waiting for room.    *)
LEMMA CloseInvKept ==
  ASSUME NEW r \in Roles, CloseInv(r), encoded'[r] = encoded[r],
         state'[r] = "Active" => state[r] = "Active",
         fut'[r].then = "encode" =>
           /\ fut[r].then = "encode" /\ fut'[r].frame = fut[r].frame
           /\ state'[r] = state[r] /\ fut'[r].at \in {"write", "sync"}
  PROVE  CloseInv(r)'
BY DEF CloseInv

(* A step that encodes a frame.                                            *)
LEMMA EncodeKeepsClose ==
  ASSUME TypeOK, NEW r \in Roles, ~HasClose(encoded[r]),
         NEW op, NEW buf, NEW f \in Frame, NEW msg, Encode(r, op, buf, f, msg),
         f.op = "Close" => state'[r] # "Active"
  PROVE  CloseInv(r)'
<1> DEFINE e == encoded[r]
<1>1. e \in Seq(Frame)
  BY DEF TypeOK
<1>2. encoded'[r] = Append(e, f)
  BY DEF TypeOK, Encode
<1>3. fut'[r].then # "encode"
  <2>1. CASE op = "write"
    BY <2>1, FinishFut DEF Encode
  <2>2. CASE op # "write"
    BY <2>2, SuspendFut, AwaitThen DEF Encode, Submit
  <2> QED BY <2>1, <2>2
<1>4. /\ Len(Append(e, f)) = Len(e) + 1 /\ Append(e, f)[Len(e) + 1] = f
      /\ \A i \in 1 .. Len(e) : Append(e, f)[i] = e[i]
      /\ Len(e) \in Nat
  BY <1>1, AppendFacts
<1>5. \A i \in 1 .. Len(e) : e[i].op # "Close"
  BY DEF HasClose
<1> HIDE DEF e
<1>6. \A i \in 1 .. Len(Append(e, f)) : Append(e, f)[i].op = "Close" =>
        i = Len(e) + 1 /\ f.op = "Close"
  BY <1>4, <1>5
<1>7. OnlyLast(encoded'[r])
  BY <1>2, <1>4, <1>6 DEF OnlyLast
<1>8. HasClose(encoded'[r]) => f.op = "Close"
  BY <1>2, <1>6 DEF HasClose
<1> QED BY <1>3, <1>7, <1>8 DEF CloseInv

LEMMA WriteFrameKeepsClose ==
  ASSUME TypeOK, NEW r \in Roles, CloseInv(r), ~HasClose(encoded[r]),
         NEW op, NEW f \in Frame, NEW msg, WriteFrame(r, op, f, msg),
         f.op = "Close" <=> state'[r] # "Active"
  PROVE  CloseInv(r)'
<1>1. Masked(r, f) \in Frame /\ Masked(r, f).op = f.op
  BY MaskedType
<1>2. CASE MustFlush(r)
  <2>1. /\ fut'[r].then = "encode" /\ fut'[r].frame = Masked(r, f)
        /\ fut'[r].at = "write"
    BY <1>2, SuspendFut, AwaitThen DEF WriteFrame, Submit
  <2>2. encoded'[r] = encoded[r]
    BY <1>2 DEF WriteFrame
  <2> QED BY <1>1, <2>1, <2>2 DEF CloseInv
<1>3. CASE ~MustFlush(r)
  BY <1>1, <1>3, EncodeKeepsClose DEF WriteFrame
<1> QED BY <1>2, <1>3

LEMMA FlushAllKeepsClose ==
  ASSUME TypeOK, NEW r \in Roles, CloseInv(r), NEW op, FlushAll(r, op)
  PROVE  CloseInv(r)'
<1>1. encoded'[r] = encoded[r] /\ (state'[r] = "Active" => state[r] = "Active")
  BY DEF TypeOK, FlushAll
<1>2. fut'[r].then # "encode"
  <2>1. CASE HasBuffered(r)
    <3>1. PICK then \in {"shutdown", "return"} :
            Suspend(r, Await(op, "write", then, NoFrame, NoMessage))
      BY <2>1 DEF FlushAll, Submit
    <3> QED BY <3>1, SuspendFut, AwaitThen
  <2>2. CASE ~HasBuffered(r)
    <3>1. \/ Suspend(r, Await(op, "shutdown", "none", NoFrame, NoMessage))
          \/ Finish(r, op, "Ok", NoMessage)
      BY <2>2 DEF FlushAll
    <3>2. CASE Finish(r, op, "Ok", NoMessage)
      BY <3>2, FinishFut
    <3>3. CASE Suspend(r, Await(op, "shutdown", "none", NoFrame, NoMessage))
      BY <3>3, SuspendFut, AwaitThen
    <3> QED BY <3>1, <3>2, <3>3
  <2> QED BY <2>1, <2>2
<1> QED BY <1>1, <1>2, CloseInvKept

LEMMA FinishKeepsClose ==
  ASSUME TypeOK, NEW r \in Roles, CloseInv(r), encoded' = encoded,
         NEW op, NEW res, NEW msg, Finish(r, op, res, msg),
         state'[r] = "Active" => state[r] = "Active"
  PROVE  CloseInv(r)'
BY FinishFut, CloseInvKept

LEMMA CloseOwnStep ==
  ASSUME TypeOK, NEW r \in Roles, NoRawClose(r), CloseInv(r), Step(r)
  PROVE  CloseInv(r)'
<1>1. CASE CallRead(r) \/ NextEnd(r) \/ NextFails(r) \/ DecodeRejects(r)
  <2>1. /\ encoded' = encoded
        /\ state'[r] = "Active" => state[r] = "Active"
    BY <1>1 DEF TypeOK, CallRead, NextEnd, NextFails, DecodeRejects, ws
  <2>2. \/ \E res : Finish(r, "read", res, NoMessage)
        \/ Suspend(r, Await("read", "next", "none", NoFrame, NoMessage))
    <3>1. CASE CallRead(r)
      BY <3>1 DEF CallRead
    <3>2. CASE NextEnd(r)
      BY <3>2 DEF NextEnd
    <3>3. CASE NextFails(r)
      BY <3>3 DEF NextFails
    <3>4. CASE DecodeRejects(r)
      BY <3>4 DEF DecodeRejects
    <3> QED BY <1>1, <3>1, <3>2, <3>3, <3>4
  <2>3. fut'[r].then = "none"
    <3>1. CASE \E res : Finish(r, "read", res, NoMessage)
      BY <3>1, FinishFut
    <3>2. CASE Suspend(r, Await("read", "next", "none", NoFrame, NoMessage))
      BY <3>2, SuspendFut, AwaitThen
    <3> QED BY <2>2, <3>1, <3>2
  <2> QED BY <2>1, <2>3, CloseInvKept
<1>2. CASE CallWrite(r)
  <2>1. state' = state
    BY <1>2 DEF CallWrite, ws
  <2>2. CASE Writable(r)
    <3>1. PICK f \in Menu[r] : WriteFrame(r, "write", f, NoMessage)
      BY <1>2, <2>2 DEF CallWrite, Writable, Terminated
    <3>2. f \in Frame /\ f.op # "Close"
      BY MenuAssumption DEF NoRawClose
    <3>3. ~HasClose(encoded[r]) /\ state'[r] = "Active"
      BY <2>1, <2>2 DEF Writable, CloseInv
    <3> QED BY <3>1, <3>2, <3>3, WriteFrameKeepsClose
  <2>3. CASE ~Writable(r)
    <3>1. encoded' = encoded /\ \E res : Finish(r, "write", res, NoMessage)
      BY <1>2, <2>3 DEF CallWrite
    <3> QED BY <2>1, <3>1, FinishKeepsClose
  <2> QED BY <2>2, <2>3
<1>3. CASE CallClose(r)
  <2>1. CASE state[r] = "Active"
    <3>1. PICK body \in CloseBodies : WriteFrame(r, "close", CloseOf(body), NoMessage)
      BY <1>3, <2>1 DEF CallClose
    <3>2. CloseOf(body) \in Frame
      BY CloseBodiesAssumption, PlainType DEF CloseOf, OpCode, ControlOps
    <3>3. state'[r] # "Active" /\ CloseOf(body).op = "Close"
      BY <1>3, <2>1 DEF CallClose, TypeOK, CloseOf, Plain
    <3>4. ~HasClose(encoded[r])
      BY <2>1 DEF CloseInv
    <3> QED BY <3>1, <3>2, <3>3, <3>4, WriteFrameKeepsClose
  <2>2. CASE state[r] # "Active"
    BY <1>3, <2>2, FlushAllKeepsClose DEF CallClose
  <2> QED BY <2>1, <2>2
<1>4. CASE CallFlush(r)
  BY <1>4, FlushAllKeepsClose DEF CallFlush
<1>5. CASE SetConfig(r)
  BY <1>5 DEF SetConfig, ws, history, CloseInv
<1>6. CASE FrameFails(r) \/ FrameDelivered(r) \/ FrameAbsorbed(r)
  <2>1. PICK f \in Arriving(r) : state' = [state EXCEPT ![r] = ReadMessageFrame(r, f).state]
    BY <1>6 DEF FrameFails, FrameDelivered, FrameAbsorbed, Handle
  <2>2. state'[r] = ReadMessageFrame(r, f).state
    BY <2>1 DEF TypeOK
  <2>3. state'[r] = "Active" => state[r] = "Active"
    BY <2>2, HandlingFacts DEF Moved
  <2>4. encoded' = encoded
    BY <1>6 DEF FrameFails, FrameDelivered, FrameAbsorbed, history
  <2>5. CASE FrameAbsorbed(r)
    <3>1. fut' = fut /\ fut[r].at = "next"
      BY <2>5 DEF FrameAbsorbed, Reading
    <3>2. fut[r].then # "encode"
      BY <3>1 DEF CloseInv
    <3> QED BY <2>3, <2>4, <3>1, <3>2, CloseInvKept
  <2>6. CASE FrameFails(r) \/ FrameDelivered(r)
    BY <2>3, <2>4, <2>6, FinishKeepsClose DEF FrameFails, FrameDelivered
  <2> QED BY <1>6, <2>5, <2>6
<1>7. CASE FrameAnswered(r)
  <2>1. PICK f \in Arriving(r) :
          /\ ReadMessageFrame(r, f).reply # NoFrame
          /\ WriteFrame(r, "read", ReadMessageFrame(r, f).reply, ReadMessageFrame(r, f).msg)
          /\ state' = [state EXCEPT ![r] = ReadMessageFrame(r, f).state]
    BY <1>7 DEF FrameAnswered, Handle
  <2>2. ReadMessageFrame(r, f).reply \in Frame
    BY <2>1, ArrivingFacts, ReadMessageFrameType, FrameFacts DEF Outcome
  <2>3. state'[r] = ReadMessageFrame(r, f).state
    BY <2>1 DEF TypeOK
  <2>4. /\ state[r] = "Active"
        /\ ReadMessageFrame(r, f).reply.op = "Close" <=> state'[r] # "Active"
    BY <2>1, <2>3, HandlingFacts
  <2>5. ~HasClose(encoded[r])
    BY <2>4 DEF CloseInv
  <2> QED BY <2>1, <2>2, <2>4, <2>5, WriteFrameKeepsClose
<1>8. CASE WriteSome(r)
  <2>1. /\ fut'[r].then = fut[r].then /\ fut'[r].frame = fut[r].frame
        /\ fut'[r].at \in {"write", "sync"}
    BY <1>8 DEF TypeOK, WriteSome, Future
  <2>2. encoded' = encoded /\ state' = state
    BY <1>8 DEF WriteSome, history, ws
  <2> QED BY <2>1, <2>2, CloseInvKept
<1>9. CASE SyncThenEncode(r)
  <2>1. fut[r].then = "encode" /\ fut[r].frame \in Frame
    BY <1>9 DEF TypeOK, SyncThenEncode, Flushed, Future
  <2>2. Encode(r, fut[r].op, writeBuf[r], fut[r].frame, fut[r].msg) /\ state' = state
    BY <1>9 DEF SyncThenEncode, ws
  <2>3. ~HasClose(encoded[r]) /\ (fut[r].frame.op = "Close" <=> state'[r] # "Active")
    BY <2>1, <2>2 DEF CloseInv
  <2> QED BY <2>1, <2>2, <2>3, EncodeKeepsClose
<1>10. CASE SyncThenShutdown(r)
  <2>1. fut'[r].then = "none" /\ encoded' = encoded /\ state' = state
    BY <1>10, SuspendFut, AwaitThen DEF SyncThenShutdown, ws
  <2> QED BY <2>1, CloseInvKept
<1>11. CASE WriteFails(r) \/ SyncThenReturn(r) \/ SyncFails(r) \/ Shutdown(r)
            \/ ShutdownFails(r)
  <2>1. encoded' = encoded /\ state' = state
    BY <1>11 DEF WriteFails, SyncThenReturn, SyncFails, Shutdown, ShutdownFails, ws
  <2>2. \E op, res, msg : Finish(r, op, res, msg)
    BY <1>11 DEF WriteFails, SyncThenReturn, SyncFails, Shutdown, ShutdownFails
  <2> QED BY <2>1, <2>2, FinishKeepsClose
<1>12. CASE Surroundings(r)
  <2>1. encoded' = encoded /\ state' = state
    BY <1>12 DEF Surroundings, Cancel, Drop, Break, ForeignSend, ForeignRead,
         ForeignDrop, ws, history
  <2>2. fut'[r] = fut[r] \/ fut'[r].then = "none"
    BY <1>12, AwaitThen DEF TypeOK, Surroundings, Cancel, Drop, Abandon, Break,
         ForeignSend, ForeignRead, ForeignDrop, Idle
  <2>3. CASE fut'[r] = fut[r]
    BY <2>1, <2>3 DEF CloseInv
  <2> QED BY <2>1, <2>2, <2>3, CloseInvKept
<1> QED BY <1>1, <1>2, <1>3, <1>4, <1>5, <1>6, <1>7, <1>8, <1>9, <1>10, <1>11, <1>12
        DEF Step, Calling, Receiving, Sending

LEMMA CloseStep ==
  ASSUME TypeInv, NEW r \in Roles, NoRawClose(r), CloseInv(r), [Next]_vars
  PROVE  CloseInv(r)'
<1>1. TypeOK
  BY DEF TypeInv
<1>2. CASE UNCHANGED vars
  BY <1>2 DEF vars, ws, history, CloseInv
<1>3. ASSUME NEW q \in Roles, Step(q)
      PROVE  CloseInv(r)'
  <2>1. CASE q = r
    BY <1>1, <1>3, <2>1, CloseOwnStep
  <2>2. CASE q # r
    <3>1. Same(r)
      BY <1>1, <1>3, <2>2, StepIsLocal
    <3> QED BY <3>1 DEF Same, SameCall, SameCodec, CloseInv
  <2> QED BY <2>1, <2>2
<1> QED BY <1>2, <1>3, NextCases DEF Step

CloseInvAll == \A r \in Roles : NoRawClose(r) => CloseInv(r)

LEMMA CloseAlways == Spec => []CloseInvAll
<1>1. Init => CloseInvAll
  <2> SUFFICES ASSUME Init, NEW r \in Roles PROVE CloseInv(r)
    BY DEF CloseInvAll
  <2>1. encoded[r] = <<>> /\ fut[r].then = "none"
    BY AwaitThen DEF Init, Idle
  <2> QED BY <2>1 DEF CloseInv, OnlyLast, HasClose
<1>2. TypeInv /\ CloseInvAll /\ [Next]_vars => CloseInvAll'
  <2> SUFFICES ASSUME TypeInv, CloseInvAll, [Next]_vars, NEW r \in Roles, NoRawClose(r)
               PROVE  CloseInv(r)'
    BY DEF CloseInvAll, NoRawClose
  <2> QED BY CloseStep DEF CloseInvAll
<1> QED BY <1>1, <1>2, TypeInvariant, PTL DEF Spec

(* An endpoint that writes no raw Close frame encodes nothing after its    *)
(* Close, whatever arrives, fails, is cancelled or waits for room.         *)
THEOREM CloseIsLastHolds == Spec => []CloseIsLast
<1>1. CloseInvAll => CloseIsLast
  BY DEF CloseInvAll, CloseInv, OnlyLast, NoRawClose, CloseIsLast, Ours
<1> QED BY <1>1, CloseAlways, PTL

-----------------------------------------------------------------------------
(* The write buffer.                                                       *)

(* While a flush is pending the buffer is empty, and outside of one nothing *)
(* is with write_all, so one configured limit bounds the two together.     *)
Bounded(frames, c) == Len(frames) <= c.writeLimit + 1

BufferInv(r) ==
  /\ fut[r].at \in {"write", "sync"} => writeBuf[r] = <<>>
  /\ fut[r].at # "write" => out[r] = <<>>
  /\ \E c \in Configs : Bounded(writeBuf[r], c) /\ Bounded(out[r], c)

LEMMA BoundedEmpty ==
  \A c \in Configs : c.writeLimit \in Nat /\ Bounded(<<>>, c)
<1> SUFFICES ASSUME NEW c \in Configs PROVE c.writeLimit \in Nat /\ Bounded(<<>>, c)
  OBVIOUS
<1>1. c.writeLimit \in Nat
  BY ConfigsAssumption DEF Config
<1>2. Len(<<>>) = 0
  OBVIOUS
<1> QED BY <1>1, <1>2 DEF Bounded

LEMMA SubmitKeepsBuffer ==
  ASSUME TypeOK, NEW r \in Roles, NEW buf, NEW c \in Configs, Bounded(buf, c),
         NEW future, Submit(r, buf, future), future.at = "write"
  PROVE  BufferInv(r)'
<1>1. writeBuf'[r] = <<>> /\ out'[r] = buf
  BY DEF TypeOK, Submit
<1>2. fut'[r].at = "write"
  BY SuspendFut DEF Submit
<1> QED BY <1>1, <1>2, BoundedEmpty DEF BufferInv

LEMMA EncodeKeepsBuffer ==
  ASSUME TypeOK, NEW r \in Roles, out[r] = <<>>,
         Len(writeBuf[r]) <= cfg[r].writeLimit, NEW op, NEW f \in Frame, NEW msg,
         Encode(r, op, writeBuf[r], f, msg)
  PROVE  BufferInv(r)'
<1>1. cfg[r] \in Configs /\ writeBuf[r] \in Seq(Frame) /\ cfg[r].writeLimit \in Nat
  BY BoundedEmpty DEF TypeOK
<1>2. Len(Append(writeBuf[r], f)) = Len(writeBuf[r]) + 1 /\ Len(writeBuf[r]) \in Nat
  BY <1>1, AppendFacts
<1>3. Bounded(Append(writeBuf[r], f), cfg[r])
  BY <1>1, <1>2 DEF Bounded
<1>4. CASE op = "write"
  <2>1. writeBuf'[r] = Append(writeBuf[r], f) /\ out' = out
    BY <1>4 DEF TypeOK, Encode
  <2>2. fut'[r].at = "idle"
    BY <1>4, FinishFut DEF Encode
  <2> QED BY <1>1, <1>3, <2>1, <2>2, BoundedEmpty DEF BufferInv
<1>5. CASE op # "write"
  BY <1>1, <1>3, <1>5, SubmitKeepsBuffer, AwaitThen DEF Encode
<1> QED BY <1>4, <1>5

LEMMA WriteFrameKeepsBuffer ==
  ASSUME TypeOK, NEW r \in Roles, BufferInv(r), fut[r].at # "write",
         NEW op, NEW f \in Frame, NEW msg, WriteFrame(r, op, f, msg)
  PROVE  BufferInv(r)'
<1>1. CASE MustFlush(r)
  <2>1. PICK c \in Configs : Bounded(writeBuf[r], c)
    BY DEF BufferInv
  <2> QED BY <1>1, <2>1, SubmitKeepsBuffer, AwaitThen DEF WriteFrame
<1>2. CASE ~MustFlush(r)
  <2>1. Len(writeBuf[r]) \in Nat /\ cfg[r].writeLimit \in Nat
    BY BoundedEmpty DEF TypeOK
  <2>2. Len(writeBuf[r]) <= cfg[r].writeLimit
    BY <1>2, <2>1 DEF MustFlush
  <2> QED BY <1>2, <2>2, MaskedType, EncodeKeepsBuffer DEF WriteFrame, BufferInv
<1> QED BY <1>1, <1>2

(* A step that leaves the codec alone and does not start a flush.          *)
LEMMA BufferKept ==
  ASSUME NEW r \in Roles, BufferInv(r), writeBuf'[r] = writeBuf[r], out'[r] = out[r],
         fut[r].at # "write",
         fut'[r].at = fut[r].at \/ fut'[r].at \notin {"write", "sync"}
  PROVE  BufferInv(r)'
BY DEF BufferInv

LEMMA FlushAllKeepsBuffer ==
  ASSUME TypeOK, NEW r \in Roles, BufferInv(r), fut[r].at # "write",
         NEW op, FlushAll(r, op)
  PROVE  BufferInv(r)'
<1>1. CASE HasBuffered(r)
  <2>1. PICK then \in {"shutdown", "return"} :
          Submit(r, writeBuf[r], Await(op, "write", then, NoFrame, NoMessage))
    BY <1>1 DEF FlushAll
  <2>2. PICK c \in Configs : Bounded(writeBuf[r], c)
    BY DEF BufferInv
  <2> QED BY <2>1, <2>2, SubmitKeepsBuffer, AwaitThen
<1>2. CASE ~HasBuffered(r)
  <2>1. \/ Suspend(r, Await(op, "shutdown", "none", NoFrame, NoMessage))
        \/ Finish(r, op, "Ok", NoMessage)
    BY <1>2 DEF FlushAll
  <2>2. fut'[r].at \in {"shutdown", "idle"}
    <3>1. CASE Finish(r, op, "Ok", NoMessage)
      BY <3>1, FinishFut
    <3>2. CASE Suspend(r, Await(op, "shutdown", "none", NoFrame, NoMessage))
      BY <3>2, SuspendFut, AwaitThen
    <3> QED BY <2>1, <3>1, <3>2
  <2>3. UNCHANGED <<writeBuf, out>>
    BY <1>2 DEF FlushAll, codec
  <2> QED BY <2>2, <2>3, BufferKept
<1> QED BY <1>1, <1>2

LEMMA BufferOwnStep ==
  ASSUME TypeInv, NEW r \in Roles, BufferInv(r), Step(r)
  PROVE  BufferInv(r)'
<1>1. TypeOK
  BY DEF TypeInv
<1>2. CASE \/ CallRead(r) \/ NextEnd(r) \/ NextFails(r) \/ DecodeRejects(r)
           \/ FrameFails(r) \/ FrameDelivered(r) \/ SyncThenReturn(r) \/ SyncFails(r)
           \/ Shutdown(r) \/ ShutdownFails(r) \/ SyncThenShutdown(r)
  <2>1. UNCHANGED <<writeBuf, out>>
    BY <1>2 DEF CallRead, NextEnd, NextFails, DecodeRejects, FrameFails,
         FrameDelivered, SyncThenReturn, SyncFails, Shutdown, ShutdownFails,
         SyncThenShutdown, codec
  <2>2. fut[r].at # "write"
    BY <1>2 DEF CallRead, Idling, NextEnd, NextFails, DecodeRejects, FrameFails,
         FrameDelivered, Reading, SyncThenReturn, SyncFails, Shutdown, ShutdownFails,
         SyncThenShutdown, Flushed
  <2>3. \/ \E op, res, msg : Finish(r, op, res, msg)
        \/ \E op, at : at \in {"next", "shutdown"}
                       /\ Suspend(r, Await(op, at, "none", NoFrame, NoMessage))
    <3>1. CASE CallRead(r)
      BY <3>1 DEF CallRead
    <3>2. CASE NextEnd(r) \/ NextFails(r)
      BY <3>2 DEF NextEnd, NextFails
    <3>3. CASE DecodeRejects(r) \/ FrameFails(r) \/ FrameDelivered(r)
      BY <3>3 DEF DecodeRejects, FrameFails, FrameDelivered
    <3>4. CASE SyncThenReturn(r) \/ SyncFails(r) \/ Shutdown(r) \/ ShutdownFails(r)
      BY <3>4 DEF SyncThenReturn, SyncFails, Shutdown, ShutdownFails
    <3>5. CASE SyncThenShutdown(r)
      BY <3>5 DEF SyncThenShutdown
    <3> QED BY <1>2, <3>1, <3>2, <3>3, <3>4, <3>5
  <2>4. fut'[r].at \in {"idle", "next", "shutdown"}
    <3>1. CASE \E op, res, msg : Finish(r, op, res, msg)
      BY <1>1, <3>1, FinishFut
    <3>2. CASE \E op, at : at \in {"next", "shutdown"}
                           /\ Suspend(r, Await(op, at, "none", NoFrame, NoMessage))
      BY <1>1, <3>2, SuspendFut, AwaitThen
    <3> QED BY <2>3, <3>1, <3>2
  <2> QED BY <2>1, <2>2, <2>4, BufferKept
<1>3. CASE CallWrite(r) \/ CallClose(r) \/ CallFlush(r)
  <2>1. fut[r].at # "write"
    BY <1>3 DEF CallWrite, CallClose, CallFlush, Idling
  <2>2. CASE \E f \in Menu[r] : WriteFrame(r, "write", f, NoMessage)
    BY <1>1, <2>1, <2>2, MenuAssumption, WriteFrameKeepsBuffer
  <2>3. CASE \E body \in CloseBodies : WriteFrame(r, "close", CloseOf(body), NoMessage)
    <3>1. \A body \in CloseBodies : CloseOf(body) \in Frame
      BY CloseBodiesAssumption, PlainType DEF CloseOf, OpCode, ControlOps
    <3> QED BY <1>1, <2>1, <2>3, <3>1, WriteFrameKeepsBuffer
  <2>4. CASE \E op : FlushAll(r, op)
    BY <1>1, <2>1, <2>4, FlushAllKeepsBuffer
  <2>5. CASE (\E res : Finish(r, "write", res, NoMessage)) /\ UNCHANGED codec
    <3>1. fut'[r].at = "idle"
      BY <1>1, <2>5, FinishFut
    <3> QED BY <2>1, <2>5, <3>1, BufferKept DEF codec
  <2> QED BY <1>3, <2>2, <2>3, <2>4, <2>5 DEF CallWrite, CallClose, CallFlush
<1>4. CASE SetConfig(r) \/ FrameAbsorbed(r)
  <2>1. UNCHANGED <<writeBuf, out, fut>> /\ fut[r].at # "write"
    BY <1>4 DEF SetConfig, Idling, FrameAbsorbed, Reading, codec
  <2> QED BY <2>1, BufferKept
<1>5. CASE FrameAnswered(r)
  <2>1. PICK f \in Arriving(r) :
          /\ ReadMessageFrame(r, f).reply # NoFrame
          /\ WriteFrame(r, "read", ReadMessageFrame(r, f).reply, ReadMessageFrame(r, f).msg)
    BY <1>5 DEF FrameAnswered
  <2>2. ReadMessageFrame(r, f).reply \in Frame
    BY <1>1, <2>1, ArrivingFacts, ReadMessageFrameType, FrameFacts DEF Outcome
  <2>3. fut[r].at # "write"
    BY <1>5 DEF FrameAnswered, Reading
  <2> QED BY <1>1, <2>1, <2>2, <2>3, WriteFrameKeepsBuffer
<1>6. CASE WriteSome(r)
  <2>1. writeBuf'[r] = <<>>
    BY <1>6 DEF WriteSome, BufferInv
  <2>2. CASE done[r] + 1 < Len(out[r])
    BY <1>6, <2>2 DEF WriteSome, BufferInv
  <2>3. CASE ~(done[r] + 1 < Len(out[r]))
    <3>1. out'[r] = <<>> /\ fut'[r].at = "sync"
      BY <1>1, <1>6, <2>3 DEF TypeOK, WriteSome, Future
    <3> QED BY <2>1, <3>1, BoundedEmpty DEF BufferInv
  <2> QED BY <2>2, <2>3
<1>7. CASE WriteFails(r)
  <2>1. writeBuf'[r] = out[r] /\ out'[r] = <<>>
    BY <1>1, <1>7 DEF TypeOK, WriteFails, Restored
  <2>2. fut'[r].at = "idle"
    BY <1>1, <1>7, FinishFut DEF WriteFails
  <2> QED BY <2>1, <2>2, BoundedEmpty DEF BufferInv
<1>8. CASE SyncThenEncode(r)
  <2>1. /\ fut[r].frame \in Frame /\ fut[r].at = "sync"
        /\ Encode(r, fut[r].op, writeBuf[r], fut[r].frame, fut[r].msg)
    BY <1>1, <1>8 DEF TypeOK, SyncThenEncode, Flushed, Future
  <2>2. writeBuf[r] = <<>> /\ out[r] = <<>>
    BY <2>1 DEF BufferInv
  <2>3. Len(writeBuf[r]) <= cfg[r].writeLimit
    <3>1. cfg[r].writeLimit \in Nat
      BY <1>1, BoundedEmpty DEF TypeOK
    <3> QED BY <2>2, <3>1
  <2> QED BY <1>1, <2>1, <2>2, <2>3, EncodeKeepsBuffer
<1>9. CASE Surroundings(r)
  <2>1. CASE Cancel(r) \/ Drop(r)
    <3>1. writeBuf' = writeBuf /\ out'[r] = <<>> /\ fut'[r].at = "idle"
      BY <1>1, <2>1, AwaitThen DEF TypeOK, Cancel, Drop, Abandon, Idle
    <3> QED BY <3>1, BoundedEmpty DEF BufferInv
  <2>2. CASE Break(r) \/ ForeignSend(r) \/ ForeignRead(r) \/ ForeignDrop(r)
    BY <2>2 DEF Break, ForeignSend, ForeignRead, ForeignDrop, codec, BufferInv
  <2> QED BY <1>9, <2>1, <2>2 DEF Surroundings
<1> QED BY <1>2, <1>3, <1>4, <1>5, <1>6, <1>7, <1>8, <1>9
        DEF Step, Calling, Receiving, Sending

BufferInvAll == \A r \in Roles : BufferInv(r)

LEMMA BufferAlways == Spec => []BufferInvAll
<1>1. Init => BufferInvAll
  <2> SUFFICES ASSUME Init, NEW r \in Roles PROVE BufferInv(r)
    BY DEF BufferInvAll
  <2>1. writeBuf[r] = <<>> /\ out[r] = <<>> /\ fut[r].at = "idle" /\ cfg[r] \in Configs
    BY AwaitThen DEF Init, Idle
  <2> QED BY <2>1, BoundedEmpty DEF BufferInv
<1>2. TypeInv /\ BufferInvAll /\ [Next]_vars => BufferInvAll'
  <2> SUFFICES ASSUME TypeInv, BufferInvAll, [Next]_vars, NEW r \in Roles
               PROVE  BufferInv(r)'
    BY DEF BufferInvAll
  <2>1. BufferInv(r)
    BY DEF BufferInvAll
  <2>2. CASE UNCHANGED vars
    BY <2>1, <2>2 DEF vars, codec, BufferInv
  <2>3. ASSUME NEW q \in Roles, Step(q)
        PROVE  BufferInv(r)'
    <3>1. CASE q = r
      BY <2>1, <2>3, <3>1, BufferOwnStep
    <3>2. CASE q # r
      <4>1. Same(r)
        BY <2>3, <3>2, StepIsLocal DEF TypeInv
      <4> QED BY <2>1, <4>1 DEF Same, SameCall, SameCodec, BufferInv
    <3> QED BY <3>1, <3>2
  <2> QED BY <2>2, <2>3, NextCases DEF Step
<1> QED BY <1>1, <1>2, TypeInvariant, PTL DEF Spec

(* The write buffer, and what a pending flush holds of it, never exceed a  *)
(* configured limit by more than the one frame that passed the check.      *)
THEOREM WriteBufBoundedHolds == Spec => []WriteBufBounded
<1>1. BufferInvAll => WriteBufBounded
  BY DEF BufferInvAll, BufferInv, Bounded, WriteBufBounded, Ours
<1> QED BY <1>1, BufferAlways, PTL

-----------------------------------------------------------------------------
(* What the state says of the frames read.                                 *)

SeenClose(r) ==
  \E i \in 1 .. Len(wired[Peer(r)]) :
    i <= taken[r] /\ wired[Peer(r)][i].op = "Close"

PeerCloses(r) == state[r] \in {"ClosedByPeer", "CloseAcknowledged"}
ReadClosed(r) == ret[r] = [op |-> "read", res |-> "ConnectionClosed"]

(* A reset is reported as a close in any state that cannot read, so the    *)
(* proof needs that no read is pending in a terminated endpoint; and only  *)
(* flush() and close() shut the stream down.                               *)
FutOk(r) ==
  /\ fut[r].op = "read" => state[r] # "Terminated"
  /\ fut[r].at = "next" => fut[r].op = "read"
  /\ fut[r].at = "shutdown" \/ fut[r].then = "shutdown" => fut[r].op # "read"

SeenInv(r) ==
  /\ taken[r] <= Len(wired[Peer(r)])
  /\ FutOk(r)
  /\ Intact(Peer(r)) /\ (PeerCloses(r) \/ ReadClosed(r)) => SeenClose(r)

(* The peer's half of the stream only grows.                               *)
Grows(r) ==
  /\ wired[r] \in Seq(OnWire) /\ wired'[r] \in Seq(OnWire)
  /\ Len(wired[r]) <= Len(wired'[r])
  /\ \A i \in 1 .. Len(wired[r]) : wired'[r][i] = wired[r][i]

LEMMA WiredGrows ==
  ASSUME TypeInv, NEW r \in Roles, [Next]_vars
  PROVE  Grows(r)
<1>1. wired[r] \in Seq(OnWire) /\ wired \in [Roles -> Seq(OnWire)]
  BY DEF TypeInv, TypeOK
<1>2. \/ wired' = wired
      \/ \E q \in Roles, x \in OnWire : wired' = [wired EXCEPT ![q] = Append(@, x)]
  <2>1. CASE UNCHANGED vars
    BY <2>1 DEF vars, stream
  <2>2. ASSUME NEW q \in Roles, Step(q)
        PROVE  wired' = wired
               \/ \E x \in OnWire : wired' = [wired EXCEPT ![q] = Append(@, x)]
    <3>1. CASE Receiving(q)
      BY <3>1 DEF Receiving, DecodeRejects, FrameFails, FrameAnswered, FrameDelivered,
           FrameAbsorbed, NextEnd, NextFails, Handle, stream
    <3>2. CASE Calling(q)
      BY <3>2 DEF Calling, CallRead, CallWrite, CallClose, CallFlush, SetConfig, stream
    <3>3. CASE WriteSome(q)
      <4>1. out[q][done[q] + 1] \in OnWire
        <5>1. out[q] \in Seq(Frame) /\ done[q] \in Nat /\ done[q] < Len(out[q])
          BY <3>3 DEF TypeInv, TypeOK, Writing, WriteSome
        <5>2. out[q][done[q] + 1] \in Frame
          BY <5>1
        <5> QED BY <5>2 DEF OnWire
      <4> QED BY <3>3, <4>1 DEF WriteSome
    <3>4. CASE Sending(q) /\ ~WriteSome(q)
      BY <3>4 DEF Sending, WriteFails, SyncThenEncode, SyncThenReturn,
           SyncThenShutdown, SyncFails, Shutdown, ShutdownFails, stream
    <3>5. CASE Cancel(q) \/ Drop(q)
      <4>1. wired' = wired \/ wired' = [wired EXCEPT ![q] = Append(@, Torn)]
        BY <3>5 DEF Cancel, Drop, Abandon
      <4> QED BY <4>1 DEF OnWire
    <3>6. CASE ForeignSend(q)
      <4>1. PICK f \in Menu[q] : wired' = [wired EXCEPT ![q] = Append(@, f)]
        BY <3>6 DEF ForeignSend
      <4> QED BY <4>1, MenuAssumption DEF OnWire
    <3>7. CASE Break(q) \/ ForeignRead(q) \/ ForeignDrop(q)
      BY <3>7 DEF Break, ForeignRead, ForeignDrop
    <3> QED BY <2>2, <3>1, <3>2, <3>3, <3>4, <3>5, <3>6, <3>7 DEF Step, Surroundings
  <2> QED BY <2>1, <2>2, NextCases DEF Step
<1>3. CASE wired'[r] = wired[r]
  BY <1>1, <1>3 DEF Grows
<1>4. ASSUME NEW x \in OnWire, wired'[r] = Append(wired[r], x)
      PROVE  Grows(r)
  <2>1. /\ Append(wired[r], x) \in Seq(OnWire)
        /\ Len(Append(wired[r], x)) = Len(wired[r]) + 1 /\ Len(wired[r]) \in Nat
        /\ \A i \in 1 .. Len(wired[r]) : Append(wired[r], x)[i] = wired[r][i]
    BY <1>1, AppendFacts
  <2> QED BY <1>1, <1>4, <2>1 DEF Grows
<1> QED BY <1>1, <1>2, <1>3, <1>4

(* Once a Close frame was read it stays read.                              *)
LEMMA SeenStays ==
  ASSUME TypeInv, TypeInv', NEW r \in Roles, Grows(Peer(r)), taken[r] <= taken'[r]
  PROVE  /\ SeenClose(r) => SeenClose(r)'
         /\ Intact(Peer(r))' => Intact(Peer(r))
<1> DEFINE w == wired[Peer(r)]
           v == wired'[Peer(r)]
<1>1. Len(w) \in Nat /\ Len(v) \in Nat /\ taken[r] \in Nat /\ taken'[r] \in Nat
  <2>1. Len(w) \in Nat /\ Len(v) \in Nat
    BY DEF Grows
  <2>2. taken[r] \in Nat /\ taken'[r] \in Nat
    BY DEF TypeInv, TypeOK
  <2> QED BY <2>1, <2>2
<1>2. Len(w) <= Len(v) /\ \A i \in 1 .. Len(w) : v[i] = w[i] /\ i \in 1 .. Len(v)
  BY <1>1 DEF Grows
<1>3. ASSUME SeenClose(r) PROVE SeenClose(r)'
  <2>1. PICK i \in 1 .. Len(w) : i <= taken[r] /\ w[i].op = "Close"
    BY <1>3 DEF SeenClose
  <2>2. i \in 1 .. Len(v) /\ i <= taken'[r] /\ v[i].op = "Close"
    BY <1>1, <1>2, <2>1
  <2> QED BY <2>2 DEF SeenClose
<1>4. Intact(Peer(r))' => Intact(Peer(r))
  BY <1>2 DEF Intact
<1> QED BY <1>3, <1>4

(* No frame makes read() report a closed connection.                       *)
LEMMA FrameIsNoClose ==
  ASSUME NEW r \in Roles, NEW f
  PROVE  /\ ReadMessageFrame(r, f).res # "ConnectionClosed"
         /\ DecodeError(r, f) # "ConnectionClosed"
<1>1. /\ Nothing(r).res = "Ok" /\ \A m : Return(r, m).res = "Ok"
      /\ \A e : Error(r, e).res = e
  BY DEF Nothing, Return, Error
<1>2. HandleContinue(r, f).res # "ConnectionClosed"
  <2>1. Extend(inc[r], f.body, cfg[r].maxMessage).res # "ConnectionClosed"
    BY DEF Extend
  <2> QED BY <2>1 DEF HandleContinue, Nothing, Return, Error
<1>3. HandleFirst(r, f).res # "ConnectionClosed"
  <2>1. Extend(NewPartial(f.op), f.body, cfg[r].maxMessage).res # "ConnectionClosed"
    BY DEF Extend
  <2> QED BY <1>1, <2>1 DEF HandleFirst, Nothing
<1>4. HandleData(r, f).res # "ConnectionClosed"
  BY <1>1, <1>2, <1>3 DEF HandleData, HandleWhole
<1>5. HandleControl(r, f).res # "ConnectionClosed"
  <2>1. DoClose(r, f.body).res # "ConnectionClosed"
    BY DEF DoClose, Nothing
  <2>2. [Return(r, MessageOf("Ping", f.body)) EXCEPT !.reply = PongReply(r, f.body)].res = "Ok"
    BY DEF Return, Nothing
  <2> QED BY <1>1, <2>1, <2>2 DEF HandleControl, HandleClose
<1> QED BY <1>1, <1>4, <1>5 DEF ReadMessageFrame, DecodeError

(* A reset reported as a close to a pending read means the peer closes.    *)
LEMMA ResetIsNoClose ==
  ASSUME TypeOK, NEW r \in Roles, NEW kind, NEW translated,
         IoResult(r, kind, translated) = "ConnectionClosed", state[r] # "Terminated"
  PROVE  PeerCloses(r)
BY DEF TypeOK, IoResult, CanRead, State, PeerCloses

LEMMA FinishCall ==
  ASSUME TypeOK, NEW r \in Roles, NEW op, NEW res, NEW msg, Finish(r, op, res, msg)
  PROVE  FutOk(r)' /\ (ReadClosed(r)' => op = "read" /\ res = "ConnectionClosed")
<1>1. FutOk(r)'
  BY FinishFut DEF FutOk
<1>2. ret'[r] = [op |-> op, res |-> res]
  BY FinishFut
<1>3. ret'[r].op = op /\ ret'[r].res = res
  BY <1>2
<1> QED BY <1>1, <1>3 DEF ReadClosed

(* A step that keeps the call in progress: what the peer's Close is needed *)
(* for was there before, or the Close has just been read.                  *)
LEMMA SeenKept ==
  ASSUME TypeInv, TypeInv', NEW r \in Roles, SeenInv(r), FutOk(r)',
         wired'[Peer(r)] = wired[Peer(r)], taken[r] <= taken'[r],
         taken'[r] <= Len(wired[Peer(r)]),
         Intact(Peer(r)) /\ (PeerCloses(r)' \/ ReadClosed(r)') =>
           PeerCloses(r) \/ ReadClosed(r) \/ SeenClose(r)'
  PROVE  SeenInv(r)'
<1>1. Grows(Peer(r))
  <2>1. wired[Peer(r)] \in Seq(OnWire)
    BY PeerFacts DEF TypeInv, TypeOK
  <2> QED BY <2>1 DEF Grows
<1>2. /\ SeenClose(r) => SeenClose(r)'
      /\ Intact(Peer(r))' => Intact(Peer(r))
  BY <1>1, SeenStays
<1> QED BY <1>2 DEF SeenInv

(* Writing and flushing end in a call that is not read(), or stay pending. *)
LEMMA EncodeCall ==
  ASSUME TypeOK, NEW r \in Roles, NEW op \in Method \cup {"none"}, NEW buf, NEW f, NEW msg,
         Encode(r, op, buf, f, msg), op = "read" => state'[r] # "Terminated"
  PROVE  FutOk(r)' /\ (ret'[r] = ret[r] \/ ~ReadClosed(r)')
<1>1. CASE op = "write"
  <2>1. Finish(r, op, "Ok", NoMessage)
    BY <1>1 DEF Encode
  <2> QED BY <2>1, FinishCall
<1>2. CASE op # "write"
  <2>1. Suspend(r, Await(op, "write", "return", NoFrame, msg))
    BY <1>2 DEF Encode, Submit
  <2>2. /\ fut'[r].op = op /\ fut'[r].at = "write" /\ fut'[r].then = "return"
        /\ ret'[r] = ret[r]
    BY <2>1, SuspendFut, AwaitThen
  <2> QED BY <2>2 DEF FutOk
<1> QED BY <1>1, <1>2

LEMMA WriteFrameCall ==
  ASSUME TypeOK, NEW r \in Roles, NEW op \in Method \cup {"none"}, NEW f, NEW msg,
         WriteFrame(r, op, f, msg), op = "read" => state'[r] # "Terminated"
  PROVE  FutOk(r)' /\ (ret'[r] = ret[r] \/ ~ReadClosed(r)')
<1>1. CASE MustFlush(r)
  <2>1. Suspend(r, Await(op, "write", "encode", Masked(r, f), msg))
    BY <1>1 DEF WriteFrame, Submit
  <2>2. /\ fut'[r].op = op /\ fut'[r].at = "write" /\ fut'[r].then = "encode"
        /\ ret'[r] = ret[r]
    BY <2>1, SuspendFut, AwaitThen
  <2> QED BY <2>2 DEF FutOk
<1>2. CASE ~MustFlush(r)
  BY <1>2, EncodeCall DEF WriteFrame
<1> QED BY <1>1, <1>2

LEMMA FlushAllCall ==
  ASSUME TypeOK, NEW r \in Roles, NEW op \in {"close", "flush"}, FlushAll(r, op)
  PROVE  /\ FutOk(r)' /\ (ret'[r] = ret[r] \/ ~ReadClosed(r)')
         /\ PeerCloses(r)' => PeerCloses(r)
<1>1. PeerCloses(r)' => PeerCloses(r)
  BY DEF TypeOK, FlushAll, PeerCloses
<1>2. \/ Finish(r, op, "Ok", NoMessage)
      \/ \E at \in {"write", "shutdown"}, then \in {"none", "return", "shutdown"} :
           Suspend(r, Await(op, at, then, NoFrame, NoMessage))
  <2>1. CASE HasBuffered(r)
    <3>1. PICK then \in {"shutdown", "return"} :
            Suspend(r, Await(op, "write", then, NoFrame, NoMessage))
      BY <2>1 DEF FlushAll, Submit
    <3> QED BY <3>1
  <2>2. CASE ~HasBuffered(r)
    BY <2>2 DEF FlushAll
  <2> QED BY <2>1, <2>2
<1>3. CASE Finish(r, op, "Ok", NoMessage)
  BY <1>1, <1>3, FinishCall
<1>4. CASE \E at \in {"write", "shutdown"}, then \in {"none", "return", "shutdown"} :
             Suspend(r, Await(op, at, then, NoFrame, NoMessage))
  <2>1. PICK at \in {"write", "shutdown"}, then \in {"none", "return", "shutdown"} :
          Suspend(r, Await(op, at, then, NoFrame, NoMessage))
    BY <1>4
  <2>2. fut'[r].op = op /\ fut'[r].at = at /\ ret'[r] = ret[r]
    BY <2>1, SuspendFut, AwaitThen
  <2> QED BY <1>1, <2>2 DEF FutOk
<1> QED BY <1>2, <1>3, <1>4

LEMMA SeenReading ==
  ASSUME TypeInv, TypeInv', NEW r \in Roles, SeenInv(r), Receiving(r),
         wired'[Peer(r)] = wired[Peer(r)]
  PROVE  SeenInv(r)'
<1>1. TypeOK /\ taken[r] \in Nat /\ Len(wired[Peer(r)]) \in Nat
  <2>1. TypeOK /\ taken[r] \in Nat
    BY DEF TypeInv, TypeOK
  <2>2. wired[Peer(r)] \in Seq(OnWire)
    BY <2>1, PeerFacts DEF TypeOK
  <2>3. Len(wired[Peer(r)]) \in Nat
    BY <2>2
  <2> QED BY <2>1, <2>3
<1>2. fut[r].at = "next" /\ fut[r].op = "read" /\ state[r] # "Terminated"
  BY DEF Receiving, DecodeRejects, FrameFails, FrameAnswered, FrameDelivered,
     FrameAbsorbed, NextEnd, NextFails, Reading, SeenInv, FutOk
<1>3. ASSUME NEW f \in Arriving(r), taken' = [taken EXCEPT ![r] = @ + 1]
      PROVE  /\ taken[r] <= taken'[r] /\ taken'[r] <= Len(wired[Peer(r)])
             /\ f.op = "Close" /\ Intact(Peer(r)) => SeenClose(r)'
  <2>1. taken'[r] = taken[r] + 1
    BY <1>1, <1>3 DEF TypeOK
  <2>2. /\ taken[r] + 1 \in 1 .. Len(wired[Peer(r)])
        /\ Intact(Peer(r)) => f = wired[Peer(r)][taken[r] + 1]
    BY <1>1, ArrivingFacts
  <2>3. f.op = "Close" /\ Intact(Peer(r)) => SeenClose(r)'
    BY <2>1, <2>2 DEF SeenClose
  <2> QED BY <1>1, <2>1, <2>2, <2>3
<1>4. ASSUME NEW f \in Arriving(r), Handle(r, ReadMessageFrame(r, f)), FutOk(r)',
             ret'[r] = ret[r] \/ ~ReadClosed(r)'
      PROVE  SeenInv(r)'
  <2>1. state'[r] = ReadMessageFrame(r, f).state /\ taken' = [taken EXCEPT ![r] = @ + 1]
    BY <1>1, <1>4 DEF Handle, Take, TypeOK
  <2>2. PeerCloses(r)' => PeerCloses(r) \/ f.op = "Close"
    BY <2>1, HandlingFacts DEF PeerCloses
  <2>3. ReadClosed(r)' => ReadClosed(r)
    BY <1>4 DEF ReadClosed
  <2> QED BY <1>3, <1>4, <2>1, <2>2, <2>3, SeenKept
<1>5. ASSUME NEW f \in Arriving(r), Handle(r, ReadMessageFrame(r, f))
      PROVE  state'[r] # "Terminated"
  <2>1. state'[r] = ReadMessageFrame(r, f).state
    BY <1>1, <1>5 DEF Handle, TypeOK
  <2> QED BY <1>2, <2>1, HandlingFacts DEF Moved
<1>6. CASE FrameFails(r) \/ FrameDelivered(r)
  <2>1. PICK f \in Arriving(r) :
          /\ Handle(r, ReadMessageFrame(r, f))
          /\ \E msg : \/ Finish(r, "read", ReadMessageFrame(r, f).res, msg)
                      \/ Finish(r, "read", "Ok", msg)
    BY <1>6 DEF FrameFails, FrameDelivered
  <2>2. PICK msg : \/ Finish(r, "read", ReadMessageFrame(r, f).res, msg)
                   \/ Finish(r, "read", "Ok", msg)
    BY <2>1
  <2>3. FutOk(r)' /\ ~ReadClosed(r)'
    BY <1>1, <2>2, FinishCall, FrameIsNoClose
  <2> QED BY <1>4, <2>1, <2>3
<1>7. CASE FrameAbsorbed(r)
  <2>1. PICK f \in Arriving(r) : Handle(r, ReadMessageFrame(r, f))
    BY <1>7 DEF FrameAbsorbed
  <2>2. fut' = fut /\ ret' = ret
    BY <1>7 DEF FrameAbsorbed
  <2>3. FutOk(r)'
    BY <1>5, <2>1, <2>2 DEF FutOk, SeenInv
  <2> QED BY <1>4, <2>1, <2>2, <2>3
<1>8. CASE FrameAnswered(r)
  <2>1. PICK f \in Arriving(r) :
          /\ WriteFrame(r, "read", ReadMessageFrame(r, f).reply, ReadMessageFrame(r, f).msg)
          /\ Handle(r, ReadMessageFrame(r, f))
    BY <1>8 DEF FrameAnswered
  <2>2. "read" \in Method \cup {"none"} /\ state'[r] # "Terminated"
    BY <1>5, <2>1 DEF Method
  <2>3. FutOk(r)' /\ (ret'[r] = ret[r] \/ ~ReadClosed(r)')
    BY <1>1, <2>1, <2>2, WriteFrameCall
  <2> QED BY <1>4, <2>1, <2>3
<1>9. CASE DecodeRejects(r)
  <2>1. PICK f \in Arriving(r) : Finish(r, "read", DecodeError(r, f), NoMessage)
    BY <1>9 DEF DecodeRejects
  <2>2. FutOk(r)' /\ (ReadClosed(r)' => DecodeError(r, f) = "ConnectionClosed")
    BY <1>1, <2>1, FinishCall
  <2>3. ~ReadClosed(r)'
    BY <2>2, FrameIsNoClose
  <2>4. state' = state /\ taken' = [taken EXCEPT ![r] = @ + 1]
    BY <1>9 DEF DecodeRejects, Take, ws
  <2>5. PeerCloses(r)' => PeerCloses(r)
    BY <2>4 DEF PeerCloses
  <2> QED BY <1>3, <2>2, <2>3, <2>4, <2>5, SeenKept
<1>10. CASE NextEnd(r)
  <2>1. Finish(r, "read", EndResult(r), NoMessage) /\ taken' = taken
    BY <1>10 DEF NextEnd, stream
  <2>2. FutOk(r)' /\ (ReadClosed(r)' => EndResult(r) = "ConnectionClosed")
    BY <1>1, <2>1, FinishCall
  <2>3. ReadClosed(r)' => PeerCloses(r)
    BY <2>2 DEF EndResult, PeerCloses
  <2>4. ~PeerCloses(r)'
    BY <1>1, <1>10 DEF NextEnd, PeerCloses, TypeOK
  <2> QED BY <1>1, <2>1, <2>2, <2>3, <2>4, SeenKept DEF SeenInv
<1>11. CASE NextFails(r)
  <2>1. PICK kind \in IoKind : Finish(r, "read", IoResult(r, kind, TRUE), NoMessage)
    BY <1>11 DEF NextFails
  <2>2. FutOk(r)' /\ (ReadClosed(r)' => IoResult(r, kind, TRUE) = "ConnectionClosed")
    <3> DEFINE res == IoResult(r, kind, TRUE)
    <3>1. Finish(r, "read", res, NoMessage)
      BY <2>1
    <3> HIDE DEF res
    <3>2. FutOk(r)' /\ (ReadClosed(r)' => res = "ConnectionClosed")
      BY <1>1, <3>1, FinishCall
    <3> QED BY <3>2 DEF res
  <2>3. ReadClosed(r)' => PeerCloses(r)
    BY <1>1, <1>2, <2>2, ResetIsNoClose
  <2>4. state' = state /\ taken' = taken
    BY <1>11 DEF NextFails, ws
  <2>5. PeerCloses(r)' => PeerCloses(r)
    BY <2>4 DEF PeerCloses
  <2> QED BY <1>1, <2>2, <2>3, <2>4, <2>5, SeenKept DEF SeenInv
<1> QED BY <1>6, <1>7, <1>8, <1>9, <1>10, <1>11 DEF Receiving

LEMMA SeenWriting ==
  ASSUME TypeInv, TypeInv', NEW r \in Roles, SeenInv(r), Sending(r),
         wired'[Peer(r)] = wired[Peer(r)]
  PROVE  SeenInv(r)'
<1>1. /\ TypeOK /\ taken[r] \in Nat /\ fut[r] \in Future
      /\ fut[r].op \in Method \cup {"none"}
  BY DEF TypeInv, TypeOK, Future
<1>2. state' = state /\ taken' = taken
  BY DEF Sending, WriteSome, WriteFails, SyncThenEncode, SyncThenReturn,
     SyncThenShutdown, SyncFails, Shutdown, ShutdownFails, ws, stream
<1>3. PeerCloses(r)' => PeerCloses(r)
  BY <1>2 DEF PeerCloses
<1>4. ASSUME FutOk(r)', ReadClosed(r)' => PeerCloses(r) \/ ReadClosed(r)
      PROVE  SeenInv(r)'
  BY <1>1, <1>2, <1>3, <1>4, SeenKept DEF SeenInv
<1>5. ASSUME NEW res, NEW msg, Finish(r, fut[r].op, res, msg),
             fut[r].op = "read" /\ res = "ConnectionClosed" => PeerCloses(r)
      PROVE  SeenInv(r)'
  <2>1. FutOk(r)' /\ (ReadClosed(r)' => fut[r].op = "read" /\ res = "ConnectionClosed")
    BY <1>1, <1>5, FinishCall
  <2> QED BY <1>4, <1>5, <2>1
<1>6. CASE WriteSome(r)
  <2> DEFINE synced == [fut[r] EXCEPT !.at = "sync"]
  <2>1. /\ fut[r].at = "write" /\ ret' = ret
        /\ fut'[r] = fut[r] \/ fut'[r] = synced
    BY <1>1, <1>6 DEF TypeOK, WriteSome
  <2>2. synced.op = fut[r].op /\ synced.then = fut[r].then /\ synced.at = "sync"
    BY <1>1 DEF Future
  <2> HIDE DEF synced
  <2>3. ReadClosed(r)' => ReadClosed(r)
    BY <1>2, <2>1, <2>2 DEF FutOk, SeenInv, ReadClosed
  <2>4. FutOk(r)'
    BY <1>2, <2>1, <2>2 DEF FutOk, SeenInv
  <2> QED BY <1>4, <2>3, <2>4
<1>7. CASE WriteFails(r) \/ SyncFails(r)
  <2>1. PICK kind \in IoKind : Finish(r, fut[r].op, FlushResult(r, kind), NoMessage)
    BY <1>7 DEF WriteFails, SyncFails
  <2>2. fut[r].op = "read" /\ FlushResult(r, kind) = "ConnectionClosed" => PeerCloses(r)
    BY <1>1, ResetIsNoClose DEF FlushResult, SeenInv, FutOk
  <2> QED BY <1>5, <2>1, <2>2
<1>8. CASE SyncThenEncode(r)
  <2>1. Encode(r, fut[r].op, writeBuf[r], fut[r].frame, fut[r].msg)
    BY <1>8 DEF SyncThenEncode
  <2>2. fut[r].op = "read" => state'[r] # "Terminated"
    BY <1>2 DEF SeenInv, FutOk
  <2>3. FutOk(r)' /\ (ret'[r] = ret[r] \/ ~ReadClosed(r)')
    BY <1>1, <2>1, <2>2, EncodeCall
  <2>4. ReadClosed(r)' => ReadClosed(r)
    BY <2>3 DEF ReadClosed
  <2> QED BY <1>4, <2>3, <2>4
<1>9. CASE SyncThenReturn(r)
  BY <1>5, <1>9 DEF SyncThenReturn
<1>10. CASE SyncThenShutdown(r)
  <2>1. Suspend(r, Await(fut[r].op, "shutdown", "none", NoFrame, NoMessage))
        /\ fut[r].then = "shutdown"
    BY <1>10 DEF SyncThenShutdown, Flushed
  <2>2. /\ fut'[r].op = fut[r].op /\ fut'[r].at = "shutdown" /\ fut'[r].then = "none"
        /\ ret'[r] = ret[r]
    BY <1>1, <2>1, SuspendFut, AwaitThen
  <2>3. FutOk(r)' /\ (ReadClosed(r)' => ReadClosed(r))
    BY <2>1, <2>2 DEF FutOk, SeenInv, ReadClosed
  <2> QED BY <1>4, <2>3
<1>11. CASE Shutdown(r)
  <2>1. fut[r].op # "read" /\ Finish(r, fut[r].op, "ConnectionClosed", NoMessage)
    BY <1>11 DEF Shutdown, SeenInv, FutOk
  <2> QED BY <1>5, <2>1
<1>12. CASE ShutdownFails(r)
  BY <1>5, <1>12 DEF ShutdownFails
<1> QED BY <1>6, <1>7, <1>8, <1>9, <1>10, <1>11, <1>12 DEF Sending

LEMMA SeenOwnStep ==
  ASSUME TypeInv, TypeInv', NEW r \in Roles, SeenInv(r), Step(r)
  PROVE  SeenInv(r)'
<1>1. TypeOK /\ taken[r] \in Nat
  BY DEF TypeInv, TypeOK
<1>2. wired'[Peer(r)] = wired[Peer(r)]
  BY <1>1, PeerFacts, StepIsLocal DEF Same, SameStream
<1>3. ASSUME taken' = taken, FutOk(r)',
             PeerCloses(r)' \/ ReadClosed(r)' => PeerCloses(r) \/ ReadClosed(r)
      PROVE  SeenInv(r)'
  BY <1>1, <1>2, <1>3, SeenKept DEF SeenInv
<1>4. CASE Receiving(r)
  BY <1>2, <1>4, SeenReading
<1>5. CASE Sending(r)
  BY <1>2, <1>5, SeenWriting
<1>6. CASE CallRead(r)
  <2>1. taken' = taken
    BY <1>6 DEF CallRead, stream
  <2>2. CASE Terminated(r) /\ Finish(r, "read", "AlreadyClosed", NoMessage) /\ state' = state
    <3>1. FutOk(r)' /\ ~ReadClosed(r)'
      BY <1>1, <2>2, FinishCall
    <3> QED BY <1>3, <2>1, <2>2, <3>1 DEF PeerCloses
  <2>3. CASE ~Terminated(r) /\ IsDone(r) /\ Finish(r, "read", "ConnectionClosed", NoMessage)
             /\ state' = [state EXCEPT ![r] = "Terminated"]
    <3>1. FutOk(r)'
      BY <1>1, <2>3, FinishCall
    <3>2. PeerCloses(r)
      BY <1>1, <2>3 DEF TypeOK, State, Terminated, IsDone, CanRead, PeerCloses
    <3> QED BY <1>3, <2>1, <3>1, <3>2
  <2>4. CASE /\ ~Terminated(r) /\ state' = state
             /\ Suspend(r, Await("read", "next", "none", NoFrame, NoMessage))
    <3>1. /\ fut'[r].op = "read" /\ fut'[r].at = "next" /\ fut'[r].then = "none"
          /\ ret'[r] = ret[r]
      BY <1>1, <2>4, SuspendFut, AwaitThen
    <3>2. FutOk(r)'
      BY <2>4, <3>1 DEF FutOk, Terminated
    <3> QED BY <1>3, <2>1, <2>4, <3>1, <3>2 DEF PeerCloses, ReadClosed
  <2> QED BY <1>6, <2>2, <2>3, <2>4 DEF CallRead
<1>7. CASE CallWrite(r)
  <2>1. taken' = taken /\ state' = state
    BY <1>7 DEF CallWrite, stream, ws
  <2>2. FutOk(r)' /\ (ret'[r] = ret[r] \/ ~ReadClosed(r)')
    <3>1. CASE \E res : Finish(r, "write", res, NoMessage)
      BY <1>1, <3>1, FinishCall
    <3>2. CASE \E f \in Menu[r] : WriteFrame(r, "write", f, NoMessage)
      <4>1. "write" \in Method \cup {"none"} /\ "write" # "read"
        BY DEF Method
      <4> QED BY <1>1, <3>2, <4>1, WriteFrameCall
    <3> QED BY <1>7, <3>1, <3>2 DEF CallWrite
  <2> QED BY <1>3, <2>1, <2>2 DEF PeerCloses, ReadClosed
<1>8. CASE CallClose(r)
  <2>1. taken' = taken
    BY <1>8 DEF CallClose, stream
  <2>2. CASE \E f : WriteFrame(r, "close", f, NoMessage)
             /\ state' = [state EXCEPT ![r] = "ClosedByUs"]
    <3>1. "close" \in Method \cup {"none"} /\ "close" # "read"
      BY DEF Method
    <3>2. FutOk(r)' /\ (ret'[r] = ret[r] \/ ~ReadClosed(r)')
      BY <1>1, <2>2, <3>1, WriteFrameCall
    <3>3. ~PeerCloses(r)'
      BY <1>1, <2>2 DEF TypeOK, PeerCloses
    <3> QED BY <1>3, <2>1, <3>2, <3>3 DEF ReadClosed
  <2>3. CASE FlushAll(r, "close")
    <3>1. /\ FutOk(r)' /\ (ret'[r] = ret[r] \/ ~ReadClosed(r)')
          /\ PeerCloses(r)' => PeerCloses(r)
      BY <1>1, <2>3, FlushAllCall
    <3> QED BY <1>3, <2>1, <3>1 DEF ReadClosed
  <2> QED BY <1>8, <2>2, <2>3 DEF CallClose
<1>9. CASE CallFlush(r)
  <2>1. taken' = taken /\ FlushAll(r, "flush")
    BY <1>9 DEF CallFlush, stream
  <2>2. /\ FutOk(r)' /\ (ret'[r] = ret[r] \/ ~ReadClosed(r)')
        /\ PeerCloses(r)' => PeerCloses(r)
    BY <1>1, <2>1, FlushAllCall
  <2> QED BY <1>3, <2>1, <2>2 DEF ReadClosed
<1>10. CASE SetConfig(r)
  BY <1>3, <1>10 DEF SetConfig, stream, SeenInv, FutOk, PeerCloses, ReadClosed
<1>11. CASE Cancel(r) \/ Drop(r)
  <2>1. taken' = taken /\ state' = state /\ Abandon(r)
    BY <1>11 DEF Cancel, Drop, ws
  <2>2. /\ fut'[r].op = "none" /\ fut'[r].at = "idle" /\ fut'[r].then = "none"
        /\ ret'[r] \in {ret[r], NotReturned}
    BY <1>1, <2>1, AwaitThen DEF Abandon, TypeOK, Idle
  <2>3. FutOk(r)' /\ (ReadClosed(r)' => ReadClosed(r))
    BY <2>2 DEF FutOk, ReadClosed, NotReturned
  <2> QED BY <1>3, <2>1, <2>3 DEF PeerCloses
<1>12. CASE Break(r) \/ ForeignSend(r) \/ ForeignDrop(r)
  BY <1>3, <1>12 DEF Break, ForeignSend, ForeignDrop, ws, SeenInv, FutOk, PeerCloses,
     ReadClosed
<1>13. CASE ForeignRead(r)
  <2>1. /\ taken' = [taken EXCEPT ![r] = @ + 1] /\ state' = state /\ fut' = fut
        /\ ret' = ret /\ Pending(r) # <<>>
    BY <1>13 DEF ForeignRead, Take, ws
  <2>2. taken[r] <= taken'[r] /\ taken'[r] <= Len(wired[Peer(r)])
    <3>1. taken'[r] = taken[r] + 1 /\ taken[r] + 1 \in 1 .. Len(wired[Peer(r)])
      BY <1>1, <2>1, PendingFacts DEF TypeOK
    <3>2. wired[Peer(r)] \in Seq(OnWire)
      BY <1>1, PeerFacts DEF TypeOK
    <3> QED BY <1>1, <3>1, <3>2
  <2>3. FutOk(r)' /\ (PeerCloses(r)' => PeerCloses(r)) /\ (ReadClosed(r)' => ReadClosed(r))
    BY <2>1 DEF FutOk, SeenInv, PeerCloses, ReadClosed
  <2> QED BY <1>2, <2>2, <2>3, SeenKept
<1> QED BY <1>4, <1>5, <1>6, <1>7, <1>8, <1>9, <1>10, <1>11, <1>12, <1>13
        DEF Step, Calling, Surroundings

SeenInvAll == \A r \in Roles : SeenInv(r)

LEMMA SeenAlways == Spec => []SeenInvAll
<1>1. Init => SeenInvAll
  <2> SUFFICES ASSUME Init, NEW r \in Roles PROVE SeenInv(r)
    BY DEF SeenInvAll
  <2>1. /\ taken[r] = 0 /\ wired[Peer(r)] = <<>> /\ state[r] = "Active"
        /\ fut[r].op = "none" /\ fut[r].at = "idle" /\ fut[r].then = "none"
        /\ ret[r].op = "none"
    BY AwaitThen, PeerFacts DEF Init, Idle, NotReturned
  <2>2. Len(wired[Peer(r)]) = 0
    BY <2>1
  <2>3. ret[r] # [op |-> "read", res |-> "ConnectionClosed"]
    BY <2>1
  <2> QED BY <2>1, <2>2, <2>3 DEF SeenInv, FutOk, PeerCloses, ReadClosed
<1>2. TypeInv /\ TypeInv' /\ SeenInvAll /\ [Next]_vars => SeenInvAll'
  <2> SUFFICES ASSUME TypeInv, TypeInv', SeenInvAll, [Next]_vars, NEW r \in Roles
               PROVE  SeenInv(r)'
    BY DEF SeenInvAll
  <2>1. SeenInv(r)
    BY DEF SeenInvAll
  <2>2. Grows(Peer(r))
    BY PeerFacts, WiredGrows
  <2>3. ASSUME state'[r] = state[r], fut'[r] = fut[r], ret'[r] = ret[r],
               taken'[r] = taken[r]
        PROVE  SeenInv(r)'
    <3>1. taken'[r] <= Len(wired'[Peer(r)])
      <4>1. /\ Len(wired[Peer(r)]) \in Nat /\ Len(wired'[Peer(r)]) \in Nat
            /\ Len(wired[Peer(r)]) <= Len(wired'[Peer(r)])
        BY <2>2 DEF Grows
      <4>2. taken[r] \in Nat /\ taken[r] <= Len(wired[Peer(r)])
        BY <2>1 DEF SeenInv, TypeInv, TypeOK
      <4> QED BY <2>3, <4>1, <4>2
    <3>2. taken[r] <= taken'[r]
      BY <2>3 DEF TypeInv, TypeOK
    <3>3. /\ SeenClose(r) => SeenClose(r)'
          /\ Intact(Peer(r))' => Intact(Peer(r))
      BY <2>2, <3>2, SeenStays
    <3> QED BY <2>1, <2>3, <3>1, <3>3 DEF SeenInv, FutOk, PeerCloses, ReadClosed
  <2>4. CASE UNCHANGED vars
    BY <2>3, <2>4 DEF vars, ws, stream
  <2>5. ASSUME NEW q \in Roles, Step(q)
        PROVE  SeenInv(r)'
    <3>1. CASE q = r
      BY <2>1, <2>5, <3>1, SeenOwnStep
    <3>2. CASE q # r
      <4>1. Same(r)
        BY <2>5, <3>2, StepIsLocal DEF TypeInv
      <4> QED BY <2>3, <4>1 DEF Same, SameCall, SameStream
    <3> QED BY <3>1, <3>2
  <2> QED BY <2>4, <2>5, NextCases DEF Step
<1>3. TypeInv /\ [Next]_vars => TypeInv'
  BY TypeStep
<1> QED BY <1>1, <1>2, <1>3, TypeInvariant, PTL DEF Spec

(* read() reports a normal close only after the peer's Close frame was     *)
(* read, also when it is a reset that it reports so.                       *)
THEOREM ReadClosedHolds == Spec => []ReadClosedMeansGotClose
<1>1. TypeInv /\ SeenInvAll => ReadClosedMeansGotClose
  <2> SUFFICES ASSUME TypeInv, SeenInvAll, NEW r \in Roles, ReadClosed(r), Intact(Peer(r))
               PROVE  HasClose(Taken(r))
    BY DEF ReadClosedMeansGotClose, ReadClosed, Ours
  <2> DEFINE w == wired[Peer(r)]
  <2>1. w \in Seq(OnWire) /\ taken[r] \in Nat
    BY PeerFacts DEF TypeInv, TypeOK
  <2>2. taken[r] <= Len(w) /\ SeenClose(r)
    BY DEF SeenInvAll, SeenInv
  <2>3. PICK i \in 1 .. Len(w) : i <= taken[r] /\ w[i].op = "Close"
    BY <2>2 DEF SeenClose
  <2> HIDE DEF w
  <2>4. /\ Len(SubSeq(w, 1, taken[r])) = taken[r]
        /\ SubSeq(w, 1, taken[r])[i] = w[i]
    BY <2>1, <2>2, <2>3
  <2>5. i \in 1 .. Len(SubSeq(w, 1, taken[r]))
    BY <2>1, <2>3, <2>4
  <2> QED BY <2>3, <2>4, <2>5 DEF HasClose, Taken, w
<1> QED BY <1>1, SeenAlways, TypeInvariant, PTL

-----------------------------------------------------------------------------
(* The close handshake.                                                    *)

StateMove(r) ==
  \/ state[r] = "Active" /\ state'[r] = "ClosedByUs" /\ taken'[r] = taken[r]
  \/ /\ <<state[r], state'[r]>> \in {<<"Active", "ClosedByPeer">>,
                                     <<"ClosedByUs", "CloseAcknowledged">>}
     /\ Intact(Peer(r)) => wired[Peer(r)][taken'[r]].op = "Close"
  \/ state'[r] = "Terminated" /\ taken'[r] = taken[r]

LEMMA StateMoveStep ==
  ASSUME TypeOK, NEW r \in Roles, Step(r), state'[r] # state[r]
  PROVE  StateMove(r)
<1>1. CASE FrameFails(r) \/ FrameAnswered(r) \/ FrameDelivered(r) \/ FrameAbsorbed(r)
  <2>1. PICK f \in Arriving(r) : Handle(r, ReadMessageFrame(r, f))
    BY <1>1 DEF FrameFails, FrameAnswered, FrameDelivered, FrameAbsorbed
  <2>2. state'[r] = ReadMessageFrame(r, f).state /\ taken'[r] = taken[r] + 1
    BY <2>1 DEF TypeOK, Handle, Take
  <2>3. Moved(state[r], state'[r]) /\ f.op = "Close"
    BY <2>2, HandlingFacts
  <2>4. Intact(Peer(r)) => f = wired[Peer(r)][taken[r] + 1]
    BY ArrivingFacts
  <2> QED BY <2>2, <2>3, <2>4 DEF Moved, StateMove
<1>2. CASE CallClose(r) \/ CallFlush(r)
  <2>1. taken' = taken
    BY <1>2 DEF CallClose, CallFlush, stream
  <2>2. \/ state[r] = "Active" /\ state' = [state EXCEPT ![r] = "ClosedByUs"]
        \/ state' \in {state, [state EXCEPT ![r] = "Terminated"]}
    BY <1>2 DEF CallClose, CallFlush, FlushAll
  <2> QED BY <2>1, <2>2 DEF TypeOK, StateMove
<1>3. CASE CallRead(r) \/ NextEnd(r)
  <2>1. taken' = taken /\ state' \in {state, [state EXCEPT ![r] = "Terminated"]}
    BY <1>3 DEF CallRead, NextEnd, stream
  <2> QED BY <2>1 DEF TypeOK, StateMove
<1>4. CASE DecodeRejects(r) \/ NextFails(r)
  BY <1>4 DEF DecodeRejects, NextFails, ws
<1>5. CASE CallWrite(r) \/ SetConfig(r)
  BY <1>5 DEF CallWrite, SetConfig, ws
<1>6. CASE Sending(r)
  BY <1>6 DEF Sending, WriteSome, WriteFails, SyncThenEncode, SyncThenReturn,
     SyncThenShutdown, SyncFails, Shutdown, ShutdownFails, ws
<1>7. CASE Surroundings(r)
  BY <1>7 DEF Surroundings, Cancel, Drop, Break, ForeignSend, ForeignRead,
     ForeignDrop, ws
<1> QED BY <1>1, <1>2, <1>3, <1>4, <1>5, <1>6, <1>7 DEF Step, Calling, Receiving

(* The state moves along the close handshake only, and to a state in which *)
(* the peer is known to close only by reading the peer's Close frame.      *)
THEOREM StateMovesHolds == Spec => StateMoves
<1>1. ASSUME TypeInv, [Next]_vars, NEW r \in Roles, state'[r] # state[r]
      PROVE  StateMove(r)
  <2>1. ~UNCHANGED vars
    BY <1>1 DEF vars, ws
  <2>2. PICK q \in Roles : Step(q)
    BY <1>1, <2>1, NextCases DEF Step
  <2>3. CASE q = r
    BY <1>1, <2>2, <2>3, StateMoveStep DEF TypeInv
  <2>4. CASE q # r
    BY <1>1, <2>2, <2>4, StepIsLocal DEF TypeInv, Same
  <2> QED BY <2>3, <2>4
<1>2. TypeInv /\ [Next]_vars =>
        [\A r \in Roles : state'[r] # state[r] =>
           \/ state[r] = "Active" /\ state'[r] = "ClosedByUs" /\ taken'[r] = taken[r]
           \/ /\ <<state[r], state'[r]>> \in {<<"Active", "ClosedByPeer">>,
                                              <<"ClosedByUs", "CloseAcknowledged">>}
              /\ Intact(Peer(r)) => wired[Peer(r)][taken'[r]].op = "Close"
           \/ state'[r] = "Terminated" /\ taken'[r] = taken[r]]_vars
  BY <1>1 DEF StateMove
<1> QED BY <1>2, TypeInvariant, PTL DEF Spec, StateMoves

-----------------------------------------------------------------------------
(* What a frame makes for the caller.                                      *)

LEMMA ModAtMost ==
  ASSUME NEW k \in Nat, NEW w \in Nat \ {0}
  PROVE  (k + w) % w <= k
<1>1. CASE k < w
  BY <1>1, SMT
<1>2. CASE k >= w
  <2>1. (k + w) % w \in 0 .. (w - 1)
    BY Z3
  <2> QED BY <1>2, <2>1
<1> QED BY <1>1, <1>2

(* A fragment that passes the check of extend() leaves the message within  *)
(* the limit, also one that was lowered since the last fragment.           *)
LEMMA ExtendFits ==
  ASSUME NEW m \in Partial, NEW body \in Payload, NEW limit \in Nat,
         Extend(m, body, limit).res = "Ok"
  PROVE  Extend(m, body, limit).inc.len <= limit
<1>1. m.len \in Nat /\ body.len \in Nat
  BY DEF Partial, Payload
<1>2. ~Overflows(m.len, body.len, limit)
  BY DEF Extend
<1>3. m.len <= limit /\ body.len <= USub(limit, m.len)
  <2>1. USub(limit, m.len) \in Nat
    BY <1>1, WordAssumption DEF USub
  <2> QED BY <1>1, <1>2, <2>1 DEF Overflows
<1>4. USub(limit, m.len) <= limit - m.len
  <2>1. limit - m.len \in Nat /\ limit + Word - m.len = (limit - m.len) + Word
    BY <1>1, <1>3, WordAssumption
  <2> QED BY <2>1, ModAtMost, WordAssumption DEF USub
<1>5. m.len + body.len <= limit
  <2>1. USub(limit, m.len) \in Nat
    BY <1>1, WordAssumption DEF USub
  <2> QED BY <1>1, <1>3, <1>4, <2>1
<1>6. Grown(m, body).len = m.len + body.len
  BY DEF Grown, Partial
<1>7. Collected(m, body).len = m.len + body.len
  BY <1>6 DEF Collected, Grown, Partial
<1> QED BY <1>5, <1>6, <1>7 DEF Extend

Fits(r, m) == m.type \in {"Text", "Binary"} => m.len <= cfg[r].maxMessage

LEMMA MessageFields ==
  /\ NoMessage.type = "None"
  /\ \A t, b : MessageOf(t, b).type = t /\ MessageOf(t, b).len = b.len
  /\ \A m : Completed(m).type = m.type /\ Completed(m).len = m.len
  /\ \A r, m : Return(r, m).msg = m /\ Nothing(r).msg = NoMessage
  /\ \A r, e : Error(r, e).msg = NoMessage
BY DEF NoMessage, MessageOf, Completed, Return, Error, Nothing

LEMMA DataMessages ==
  ASSUME TypeOK, NEW r \in Roles, NEW f \in Frame, f.op \notin ControlOps
  PROVE  LET got == HandleData(r, f) IN
         Fits(r, got.msg) /\ got.msg.type \in {"None", "Text", "Binary"}
<1> DEFINE Good(got) == Fits(r, got.msg) /\ got.msg.type \in {"None", "Text", "Binary"}
<1>1. f.body \in Payload /\ inc[r] \in MaybePartial /\ cfg[r].maxMessage \in Nat
  BY ConfigsAssumption DEF Frame, TypeOK, Config
<1>2. \A got : got.msg = NoMessage => Good(got)
  BY MessageFields DEF Fits
<1>3. Good(HandleContinue(r, f))
  <2> DEFINE ext == Extend(inc[r], f.body, cfg[r].maxMessage)
  <2>1. CASE inc[r] = NoPartial
    BY <1>2, <2>1, MessageFields DEF HandleContinue
  <2>2. CASE inc[r] # NoPartial
    <3>1. inc[r] \in Partial
      BY <1>1, <2>2, PartialFacts
    <3>2. ext.res = "Ok" => ext.inc.len <= cfg[r].maxMessage
      BY <1>1, <3>1, ExtendFits
    <3>3. ext.inc.type \in {"Text", "Binary"}
      BY <1>1, <3>1, ExtendType DEF Partial
    <3> HIDE DEF ext
    <3>4. /\ [Error(r, ext.res) EXCEPT !.inc = ext.inc].msg = NoMessage
          /\ [Nothing(r) EXCEPT !.inc = ext.inc].msg = NoMessage
          /\ [Error(r, "Utf8") EXCEPT !.inc = NoPartial].msg = NoMessage
          /\ [Return(r, Completed(ext.inc)) EXCEPT !.inc = NoPartial].msg = Completed(ext.inc)
      BY DEF Error, Nothing, Return
    <3>5. ext.res = "Ok" => Good([Return(r, Completed(ext.inc)) EXCEPT !.inc = NoPartial])
      BY <3>2, <3>3, <3>4, MessageFields DEF Fits
    <3> HIDE DEF Good
    <3> QED BY <1>2, <2>2, <3>4, <3>5 DEF HandleContinue, ext
  <2> QED BY <2>1, <2>2
<1>4. Good(HandleFirst(r, f))
  <2>1. HandleFirst(r, f).msg = NoMessage
    BY DEF HandleFirst, Nothing, Error
  <2> QED BY <1>2, <2>1
<1>5. f.op \in {"Text", "Binary"} => Good(HandleWhole(r, f))
  <2>1. CASE f.body.len > cfg[r].maxMessage
    BY <1>2, <2>1, MessageFields DEF HandleWhole
  <2>2. CASE ~(f.body.len > cfg[r].maxMessage)
    <3>1. f.body.len <= cfg[r].maxMessage
      BY <1>1, <2>2 DEF Payload
    <3>2. f.op \in {"Text", "Binary"} => Good(Return(r, MessageOf(f.op, f.body)))
      BY <3>1, MessageFields DEF Fits
    <3>3. Good(Error(r, "Utf8"))
      BY <1>2, MessageFields
    <3> HIDE DEF Good
    <3> QED BY <2>2, <3>2, <3>3 DEF HandleWhole
  <2> QED BY <2>1, <2>2
<1>6. \A e : Good(Error(r, e))
  BY <1>2, MessageFields
<1>7. f.op \in {"Continue", "Text", "Binary", "ReservedData"}
  BY DEF Frame, OpCode, DataOps
<1>8. Good(HandleData(r, f))
  <2> HIDE DEF Good
  <2> QED BY <1>3, <1>4, <1>5, <1>6, <1>7 DEF HandleData
<1> QED BY <1>8

(* What the caller is given for a frame: nothing once Close was read, no   *)
(* data past the limit, and no data with an answer to wait for.            *)
Sound(r, got) ==
  /\ got.msg # NoMessage => CanRead(state[r])
  /\ got.msg.type = "Close" => ~CanRead(got.state)
  /\ Fits(r, got.msg)
  /\ got.reply # NoFrame => got.msg.type \notin {"Text", "Binary"}

LEMMA ControlMessages ==
  ASSUME NEW r \in Roles, NEW f
  PROVE  LET got == HandleControl(r, f) IN
         /\ got.msg.type = "Close" => ~CanRead(got.state)
         /\ got.msg.type \notin {"Text", "Binary"}
<1> DEFINE Good(got) == /\ got.msg.type = "Close" => ~CanRead(got.state)
                        /\ got.msg.type \notin {"Text", "Binary"}
<1>1. \A got : got.msg = NoMessage => Good(got)
  BY MessageFields
<1>2. \A e : Good(Error(r, e))
  BY <1>1, MessageFields
<1>3. Good(DoClose(r, f.body))
  <2>1. CASE state[r] = "Active"
    <3>1. DoClose(r, f.body).state = "ClosedByPeer"
          /\ DoClose(r, f.body).msg = MessageOf("Close", Acceptable(f.body))
      BY <2>1 DEF DoClose, Nothing
    <3> QED BY <3>1, MessageFields DEF CanRead
  <2>2. CASE state[r] = "ClosedByUs"
    <3>1. DoClose(r, f.body).state = "CloseAcknowledged"
          /\ DoClose(r, f.body).msg = MessageOf("Close", f.body)
      BY <2>2 DEF DoClose, Nothing
    <3> QED BY <3>1, MessageFields DEF CanRead
  <2>3. CASE state[r] \notin {"Active", "ClosedByUs"}
    BY <1>1, <2>3, MessageFields DEF DoClose
  <2> QED BY <2>1, <2>2, <2>3
<1>4. Good(HandleClose(r, f.body))
  <2> HIDE DEF Good
  <2> QED BY <1>2, <1>3 DEF HandleClose
<1>5. Good([Return(r, MessageOf("Ping", f.body)) EXCEPT !.reply = PongReply(r, f.body)])
  <2>1. [Return(r, MessageOf("Ping", f.body)) EXCEPT !.reply = PongReply(r, f.body)].msg
          = MessageOf("Ping", f.body)
    BY DEF Return, Nothing
  <2> QED BY <2>1, MessageFields
<1>6. Good(Return(r, MessageOf("Pong", f.body)))
  BY MessageFields
<1>7. Good(HandleControl(r, f))
  <2> HIDE DEF Good
  <2> QED BY <1>2, <1>4, <1>5, <1>6 DEF HandleControl
<1> QED BY <1>7

LEMMA OutcomeIsSound ==
  ASSUME TypeOK, NEW r \in Roles, NEW f \in Frame
  PROVE  Sound(r, ReadMessageFrame(r, f))
<1>1. \A e : Sound(r, Error(r, e))
  BY MessageFields, OutcomeOfError DEF Sound, Fits
<1>2. CASE Refuses(r)
  BY <1>1, <1>2 DEF ReadMessageFrame
<1>3. CASE ~Refuses(r)
  <2>1. CanRead(state[r])
    BY <1>3 DEF Refuses
  <2>2. f.op \in ControlOps => Sound(r, HandleControl(r, f))
    BY <2>1, ControlMessages DEF Sound, Fits
  <2>3. f.op \notin ControlOps => Sound(r, HandleData(r, f))
    BY <2>1, DataMessages, DataMovesNothing DEF Sound
  <2> QED BY <1>1, <1>3, <2>2, <2>3 DEF ReadMessageFrame
<1> QED BY <1>2, <1>3

-----------------------------------------------------------------------------
(* What a step hands out, or keeps for the end of the read() that answers. *)

LEMMA IdleMsg == Idle.msg = NoMessage
BY DEF Await, Idle

LEMMA SuspendDelivers ==
  ASSUME TypeOK, NEW r \in Roles, NEW op, NEW at, NEW then, NEW frame, NEW msg,
         Suspend(r, Await(op, at, then, frame, msg))
  PROVE  delivered' = delivered /\ fut'[r].msg = msg
<1>1. Await(op, at, then, frame, msg).msg = msg
  BY DEF Await
<1>2. fut'[r] = Await(op, at, then, frame, msg)
  BY SuspendFut
<1> QED BY <1>1, <1>2 DEF Suspend

LEMMA FinishDelivers ==
  ASSUME TypeOK, NEW r \in Roles, NEW op, NEW res, NEW msg, Finish(r, op, res, msg)
  PROVE  /\ fut'[r].msg = NoMessage
         /\ msg = NoMessage => delivered' = delivered
         /\ msg # NoMessage => delivered' = [delivered EXCEPT ![r] = Append(@, msg)]
BY FinishFut, IdleMsg DEF Finish

LEMMA EncodeDelivers ==
  ASSUME TypeOK, NEW r \in Roles, NEW op, NEW buf, NEW f, NEW msg, Encode(r, op, buf, f, msg)
  PROVE  delivered' = delivered /\ fut'[r].msg \in {msg, NoMessage}
<1>1. CASE op = "write"
  BY <1>1, FinishDelivers DEF Encode
<1>2. CASE op # "write"
  <2>1. Suspend(r, Await(op, "write", "return", NoFrame, msg))
    BY <1>2 DEF Encode, Submit
  <2> QED BY <2>1, SuspendDelivers
<1> QED BY <1>1, <1>2

LEMMA WriteFrameDelivers ==
  ASSUME TypeOK, NEW r \in Roles, NEW op, NEW f, NEW msg, WriteFrame(r, op, f, msg)
  PROVE  delivered' = delivered /\ fut'[r].msg \in {msg, NoMessage}
<1>1. CASE MustFlush(r)
  <2>1. Suspend(r, Await(op, "write", "encode", Masked(r, f), msg))
    BY <1>1 DEF WriteFrame, Submit
  <2> QED BY <2>1, SuspendDelivers
<1>2. CASE ~MustFlush(r)
  BY <1>2, EncodeDelivers DEF WriteFrame
<1> QED BY <1>1, <1>2

LEMMA FlushAllDelivers ==
  ASSUME TypeOK, NEW r \in Roles, NEW op, FlushAll(r, op)
  PROVE  delivered' = delivered /\ fut'[r].msg = NoMessage
<1>1. \/ Finish(r, op, "Ok", NoMessage)
      \/ \E at, then : Suspend(r, Await(op, at, then, NoFrame, NoMessage))
  BY DEF FlushAll, Submit
<1>2. CASE \E at, then : Suspend(r, Await(op, at, then, NoFrame, NoMessage))
  BY <1>2, SuspendDelivers
<1> QED BY <1>1, <1>2, FinishDelivers

(* Nothing new for the caller, the end of a read() that has answered, or a *)
(* message, now or with that answer.                                       *)
Silent(r) ==
  /\ delivered'[r] = delivered[r] /\ fut'[r].msg \in {NoMessage, fut[r].msg}
  /\ CanRead(state'[r]) => CanRead(state[r])
HandsOut(r) ==
  /\ fut[r].msg # NoMessage /\ fut'[r].msg = NoMessage /\ state'[r] = state[r]
  /\ delivered'[r] = Append(delivered[r], fut[r].msg)
Yields(r) ==
  \E got : /\ Sound(r, got) /\ got.msg # NoMessage /\ state'[r] = got.state
           /\ \/ /\ delivered'[r] = Append(delivered[r], got.msg) /\ fut'[r].msg = NoMessage
              \/ /\ delivered'[r] = delivered[r] /\ fut'[r].msg = got.msg
                 /\ got.reply # NoFrame

LEMMA DeliverStep ==
  ASSUME TypeOK, NEW r \in Roles, Step(r)
  PROVE  Silent(r) \/ HandsOut(r) \/ Yields(r)
<1>0. ASSUME delivered' = delivered, fut'[r].msg \in {NoMessage, fut[r].msg}, state' = state
      PROVE  Silent(r)
  BY <1>0 DEF Silent
<1>1. ASSUME delivered' = delivered, fut'[r].msg \in {NoMessage, fut[r].msg},
             state'[r] \in {state[r], "Terminated", "ClosedByUs"},
             state'[r] = "ClosedByUs" => CanRead(state[r])
      PROVE  Silent(r)
  BY <1>1 DEF Silent, CanRead
<1>2. ASSUME \E op, res : Finish(r, op, res, NoMessage),
             state' = state \/ state' = [state EXCEPT ![r] = "Terminated"]
      PROVE  Silent(r)
  <2>1. delivered' = delivered /\ fut'[r].msg = NoMessage
    BY <1>2, FinishDelivers
  <2>2. state'[r] \in {state[r], "Terminated"}
    BY <1>2 DEF TypeOK
  <2> QED BY <1>1, <2>1, <2>2 DEF CanRead
<1>3. CASE CallRead(r)
  <2>1. CASE Suspend(r, Await("read", "next", "none", NoFrame, NoMessage)) /\ state' = state
    BY <1>0, <2>1, SuspendDelivers
  <2> QED BY <1>2, <1>3, <2>1 DEF CallRead
<1>4. CASE CallWrite(r)
  <2>1. state' = state
    BY <1>4 DEF CallWrite, ws
  <2>2. CASE \E f \in Menu[r] : WriteFrame(r, "write", f, NoMessage)
    BY <1>0, <2>1, <2>2, WriteFrameDelivers
  <2> QED BY <1>2, <1>4, <2>1, <2>2 DEF CallWrite
<1>5. CASE CallClose(r)
  <2>1. CASE state[r] = "Active" /\ state' = [state EXCEPT ![r] = "ClosedByUs"]
             /\ \E body \in CloseBodies : WriteFrame(r, "close", CloseOf(body), NoMessage)
    <3>1. delivered' = delivered /\ fut'[r].msg = NoMessage
      BY <2>1, WriteFrameDelivers
    <3>2. state'[r] = "ClosedByUs" /\ CanRead(state[r])
      BY <2>1 DEF TypeOK, CanRead
    <3> QED BY <1>1, <3>1, <3>2
  <2>2. CASE FlushAll(r, "close")
    <3>1. state'[r] \in {state[r], "Terminated"}
      BY <2>2 DEF TypeOK, FlushAll
    <3> QED BY <1>1, <2>2, <3>1, FlushAllDelivers DEF CanRead
  <2> QED BY <1>5, <2>1, <2>2 DEF CallClose
<1>6. CASE CallFlush(r)
  <2>1. FlushAll(r, "flush")
    BY <1>6 DEF CallFlush
  <2>2. state'[r] \in {state[r], "Terminated"}
    BY <2>1 DEF TypeOK, FlushAll
  <2> QED BY <1>1, <2>1, <2>2, FlushAllDelivers DEF CanRead
<1>7. CASE SetConfig(r)
  BY <1>1, <1>7 DEF SetConfig, history, CanRead
<1>8. CASE NextEnd(r) \/ NextFails(r) \/ DecodeRejects(r)
  <2>1. \E res : Finish(r, "read", res, NoMessage)
    BY <1>8 DEF NextEnd, NextFails, DecodeRejects
  <2>2. state' = state \/ state' = [state EXCEPT ![r] = "Terminated"]
    BY <1>8 DEF NextEnd, NextFails, DecodeRejects, ws
  <2> QED BY <1>2, <2>1, <2>2
<1>9. CASE FrameFails(r) \/ FrameAbsorbed(r)
  <2>1. PICK f \in Arriving(r) : Handle(r, ReadMessageFrame(r, f))
    BY <1>9 DEF FrameFails, FrameAbsorbed
  <2>2. Moved(state[r], state'[r])
    BY <2>1, HandlingFacts DEF TypeOK, Handle
  <2>3. delivered' = delivered /\ fut'[r].msg \in {NoMessage, fut[r].msg}
    <3>1. CASE FrameFails(r)
      BY <3>1, FinishDelivers DEF FrameFails
    <3>2. CASE FrameAbsorbed(r)
      BY <3>2 DEF FrameAbsorbed, history
    <3> QED BY <1>9, <3>1, <3>2
  <2> QED BY <2>2, <2>3 DEF Silent, Moved, CanRead
<1>10. CASE FrameDelivered(r)
  <2>1. PICK f \in Arriving(r) :
          /\ ReadMessageFrame(r, f).msg # NoMessage
          /\ Finish(r, "read", "Ok", ReadMessageFrame(r, f).msg)
          /\ Handle(r, ReadMessageFrame(r, f))
    BY <1>10 DEF FrameDelivered
  <2>2. Sound(r, ReadMessageFrame(r, f))
    BY ArrivingFacts, OutcomeIsSound
  <2>3. state'[r] = ReadMessageFrame(r, f).state
    BY <2>1 DEF TypeOK, Handle
  <2>4. delivered'[r] = Append(delivered[r], ReadMessageFrame(r, f).msg)
        /\ fut'[r].msg = NoMessage
    BY <2>1, FinishDelivers DEF TypeOK
  <2> QED BY <2>1, <2>2, <2>3, <2>4 DEF Yields
<1>11. CASE FrameAnswered(r)
  <2>1. PICK f \in Arriving(r) :
          /\ ReadMessageFrame(r, f).reply # NoFrame
          /\ WriteFrame(r, "read", ReadMessageFrame(r, f).reply, ReadMessageFrame(r, f).msg)
          /\ Handle(r, ReadMessageFrame(r, f))
    BY <1>11 DEF FrameAnswered
  <2>2. Sound(r, ReadMessageFrame(r, f)) /\ Moved(state[r], ReadMessageFrame(r, f).state)
    BY ArrivingFacts, OutcomeIsSound, HandlingFacts
  <2>3. state'[r] = ReadMessageFrame(r, f).state
    BY <2>1 DEF TypeOK, Handle
  <2>4. delivered' = delivered /\ fut'[r].msg \in {ReadMessageFrame(r, f).msg, NoMessage}
    BY <2>1, WriteFrameDelivers
  <2>5. CASE fut'[r].msg = NoMessage
    BY <2>2, <2>3, <2>4, <2>5 DEF Silent, Moved, CanRead
  <2>6. CASE fut'[r].msg # NoMessage
    BY <2>1, <2>2, <2>3, <2>4, <2>6 DEF Yields
  <2> QED BY <2>5, <2>6
<1>12. CASE WriteSome(r)
  <2>1. fut'[r].msg = fut[r].msg
    BY <1>12 DEF TypeOK, WriteSome, Future
  <2> QED BY <1>1, <1>12, <2>1 DEF WriteSome, ws, history, CanRead
<1>13. CASE SyncThenEncode(r)
  <2>1. Encode(r, fut[r].op, writeBuf[r], fut[r].frame, fut[r].msg) /\ state' = state
    BY <1>13 DEF SyncThenEncode, ws
  <2>2. delivered' = delivered /\ fut'[r].msg \in {fut[r].msg, NoMessage}
    BY <2>1, EncodeDelivers
  <2> QED BY <2>1, <2>2 DEF Silent
<1>14. CASE SyncThenReturn(r)
  <2>1. Finish(r, fut[r].op, "Ok", fut[r].msg) /\ state' = state
    BY <1>14 DEF SyncThenReturn, ws
  <2>2. CASE fut[r].msg = NoMessage
    BY <1>2, <2>1, <2>2
  <2>3. CASE fut[r].msg # NoMessage
    BY <2>1, <2>3, FinishDelivers DEF TypeOK, HandsOut
  <2> QED BY <2>2, <2>3
<1>15. CASE SyncThenShutdown(r)
  <2>1. Suspend(r, Await(fut[r].op, "shutdown", "none", NoFrame, NoMessage)) /\ state' = state
    BY <1>15 DEF SyncThenShutdown, ws
  <2> QED BY <2>1, SuspendDelivers DEF Silent
<1>16. CASE WriteFails(r) \/ SyncFails(r) \/ Shutdown(r) \/ ShutdownFails(r)
  <2>1. state' = state
    BY <1>16 DEF WriteFails, SyncFails, Shutdown, ShutdownFails, ws
  <2>2. \E op, res : Finish(r, op, res, NoMessage)
    BY <1>16 DEF WriteFails, SyncFails, Shutdown, ShutdownFails
  <2> QED BY <1>2, <2>1, <2>2
<1>17. CASE Surroundings(r)
  <2>1. state' = state /\ delivered' = delivered
    BY <1>17 DEF Surroundings, Cancel, Drop, Break, ForeignSend, ForeignRead,
         ForeignDrop, ws, history
  <2>2. fut'[r] \in {fut[r], Idle}
    BY <1>17 DEF TypeOK, Surroundings, Cancel, Drop, Abandon, Break, ForeignSend,
         ForeignRead, ForeignDrop
  <2> QED BY <2>1, <2>2, IdleMsg DEF Silent
<1> QED BY <1>3, <1>4, <1>5, <1>6, <1>7, <1>8, <1>9, <1>10, <1>11, <1>12, <1>13,
           <1>14, <1>15, <1>16, <1>17 DEF Step, Calling, Receiving, Sending

LEMMA DeliveredLocal ==
  ASSUME TypeOK, NEW q \in Roles, NEW r \in Roles, q # r, Step(q)
  PROVE  delivered'[r] = delivered[r]
<1>1. CASE \E op, res, msg : Finish(q, op, res, msg)
  BY <1>1 DEF TypeOK, Finish
<1>2. CASE \/ \E op, f, msg : WriteFrame(q, op, f, msg)
           \/ \E op, buf, f, msg : Encode(q, op, buf, f, msg)
           \/ \E op : FlushAll(q, op)
           \/ \E future : Suspend(q, future)
           \/ UNCHANGED history
  BY <1>2, WriteFrameDelivers, EncodeDelivers, FlushAllDelivers DEF Suspend, history
<1>3. CASE Receiving(q)
  BY <1>1, <1>2, <1>3 DEF Receiving, DecodeRejects, FrameFails, FrameAnswered,
     FrameDelivered, FrameAbsorbed, NextEnd, NextFails
<1>4. CASE Sending(q)
  BY <1>1, <1>2, <1>4 DEF Sending, WriteSome, WriteFails, SyncThenEncode,
     SyncThenReturn, SyncThenShutdown, SyncFails, Shutdown, ShutdownFails
<1>5. CASE Calling(q)
  BY <1>1, <1>2, <1>5 DEF Calling, CallRead, CallWrite, CallClose, CallFlush, SetConfig
<1>6. CASE Surroundings(q)
  BY <1>2, <1>6 DEF Surroundings, Cancel, Drop, Break, ForeignSend, ForeignRead, ForeignDrop
<1> QED BY <1>3, <1>4, <1>5, <1>6 DEF Step

-----------------------------------------------------------------------------
(* Nothing after the peer's Close, and nothing past the limit.             *)

GotClose(messages) == \E i \in 1 .. Len(messages) : messages[i].type = "Close"

(* What makes it inductive: while a read() that answers has still to hand  *)
(* out a message, no Close was handed out, and once one was, or is about   *)
(* to be, the endpoint reads no more.  What waits with an answer is no     *)
(* data.                                                                   *)
DeliverInv(r) ==
  /\ \A i \in 1 .. Len(delivered[r]) :
       delivered[r][i].type = "Close" => i = Len(delivered[r])
  /\ GotClose(delivered[r]) => ~CanRead(state[r]) /\ fut[r].msg = NoMessage
  /\ fut[r].msg.type = "Close" => ~CanRead(state[r])
  /\ fut[r].msg.type \notin {"Text", "Binary"}

LEMMA AppendDelivers ==
  ASSUME NEW s \in Seq(Message), NEW m \in Message, ~GotClose(s)
  PROVE  /\ GotClose(Append(s, m)) => m.type = "Close"
         /\ \A i \in 1 .. Len(Append(s, m)) :
              Append(s, m)[i].type = "Close" => i = Len(Append(s, m))
<1>1. /\ Len(Append(s, m)) = Len(s) + 1 /\ Append(s, m)[Len(s) + 1] = m
      /\ \A i \in 1 .. Len(s) : Append(s, m)[i] = s[i]
      /\ Len(s) \in Nat
  BY AppendFacts
<1>2. \A i \in 1 .. Len(s) : s[i].type # "Close"
  BY DEF GotClose
<1>3. \A i \in 1 .. Len(s) + 1 : i \in 1 .. Len(s) \/ i = Len(s) + 1
  BY <1>1
<1> QED BY <1>1, <1>2, <1>3 DEF GotClose

LEMMA DeliverOwnStep ==
  ASSUME TypeOK, TypeOK', NEW r \in Roles, DeliverInv(r), Step(r)
  PROVE  DeliverInv(r)'
<1>0. delivered[r] \in Seq(Message) /\ fut[r].msg \in MaybeMessage /\ fut'[r].msg \in MaybeMessage
  BY DEF TypeOK, Future
<1>1. CASE Silent(r)
  BY <1>1, MessageFields DEF Silent, DeliverInv, GotClose
<1>2. CASE HandsOut(r)
  <2>1. fut[r].msg \in Message /\ ~GotClose(delivered[r])
    BY <1>0, <1>2, MessageFacts DEF HandsOut, DeliverInv
  <2> QED BY <1>0, <1>2, <2>1, AppendDelivers, MessageFields DEF HandsOut, DeliverInv
<1>3. CASE Yields(r)
  <2>1. PICK got : /\ Sound(r, got) /\ got.msg # NoMessage /\ state'[r] = got.state
                   /\ \/ /\ delivered'[r] = Append(delivered[r], got.msg)
                         /\ fut'[r].msg = NoMessage
                      \/ /\ delivered'[r] = delivered[r] /\ fut'[r].msg = got.msg
                         /\ got.reply # NoFrame
    BY <1>3 DEF Yields
  <2>2. ~GotClose(delivered[r])
    BY <2>1 DEF Sound, DeliverInv
  <2>3. CASE delivered'[r] = delivered[r] /\ fut'[r].msg = got.msg /\ got.reply # NoFrame
    <3>1. /\ fut'[r].msg.type = "Close" => ~CanRead(state'[r])
          /\ fut'[r].msg.type \notin {"Text", "Binary"}
      BY <2>1, <2>3 DEF Sound
    <3> QED BY <2>2, <2>3, <3>1 DEF DeliverInv, GotClose
  <2>4. CASE delivered'[r] = Append(delivered[r], got.msg) /\ fut'[r].msg = NoMessage
    <3>1. got.msg \in Message
      <4>1. /\ delivered'[r] \in Seq(Message) /\ Len(delivered'[r]) = Len(delivered[r]) + 1
            /\ delivered'[r][Len(delivered[r]) + 1] = got.msg
        BY <1>0, <2>4 DEF TypeOK
      <4> QED BY <1>0, <4>1
    <3>2. got.msg.type = "Close" => ~CanRead(state'[r])
      BY <2>1 DEF Sound
    <3> QED BY <1>0, <2>2, <2>4, <3>1, <3>2, AppendDelivers, MessageFields DEF DeliverInv
  <2> QED BY <2>1, <2>3, <2>4
<1> QED BY <1>1, <1>2, <1>3, DeliverStep

DeliverInvAll == \A r \in Roles : DeliverInv(r)

LEMMA DeliverAlways == Spec => []DeliverInvAll
<1>1. Init => DeliverInvAll
  <2> SUFFICES ASSUME Init, NEW r \in Roles PROVE DeliverInv(r)
    BY DEF DeliverInvAll
  <2>1. delivered[r] = <<>> /\ fut[r].msg = NoMessage
    BY IdleMsg DEF Init
  <2> QED BY <2>1, MessageFields DEF DeliverInv, GotClose
<1>2. TypeInv /\ TypeInv' /\ DeliverInvAll /\ [Next]_vars => DeliverInvAll'
  <2> SUFFICES ASSUME TypeInv, TypeInv', DeliverInvAll, [Next]_vars, NEW r \in Roles
               PROVE  DeliverInv(r)'
    BY DEF DeliverInvAll
  <2>1. DeliverInv(r)
    BY DEF DeliverInvAll
  <2>2. CASE UNCHANGED vars
    BY <2>1, <2>2 DEF vars, ws, history, DeliverInv, GotClose
  <2>3. ASSUME NEW q \in Roles, Step(q)
        PROVE  DeliverInv(r)'
    <3>1. CASE q = r
      BY <2>1, <2>3, <3>1, DeliverOwnStep DEF TypeInv
    <3>2. CASE q # r
      <4>1. Same(r) /\ delivered'[r] = delivered[r]
        BY <2>3, <3>2, StepIsLocal, DeliveredLocal DEF TypeInv
      <4> QED BY <2>1, <4>1 DEF Same, SameCall, DeliverInv, GotClose
    <3> QED BY <3>1, <3>2
  <2> QED BY <2>2, <2>3, NextCases DEF Step
<1>3. TypeInv /\ [Next]_vars => TypeInv'
  BY TypeStep
<1> QED BY <1>1, <1>2, <1>3, TypeInvariant, PTL DEF Spec

(* read() hands out nothing after the peer's Close message, not even what  *)
(* an earlier read() was answering when it was dropped.                    *)
THEOREM NoDeliveryHolds == Spec => []NoDeliveryAfterClose
<1>1. DeliverInvAll => NoDeliveryAfterClose
  BY DEF DeliverInvAll, DeliverInv, NoDeliveryAfterClose, Ours
<1> QED BY <1>1, DeliverAlways, PTL

(* A data message is within the limit in force when read() hands it out.   *)
THEOREM MessageWithinLimitHolds == Spec => MessageWithinLimit
<1>1. ASSUME TypeInv, TypeInv', DeliverInvAll, [Next]_vars, NEW r \in Roles,
             delivered'[r] # delivered[r]
      PROVE  Fits(r, Last(delivered'[r]))
  <2>1. PICK q \in Roles : Step(q)
    BY <1>1, NextCases DEF Step, vars, history
  <2>2. q = r
    BY <1>1, <2>1, DeliveredLocal DEF TypeInv
  <2>3. HandsOut(r) \/ Yields(r)
    BY <1>1, <2>1, <2>2, DeliverStep DEF TypeInv, Silent
  <2>4. PICK m : delivered'[r] = Append(delivered[r], m) /\ Fits(r, m)
    <3>1. CASE HandsOut(r)
      BY <1>1, <3>1 DEF HandsOut, DeliverInvAll, DeliverInv, Fits
    <3>2. CASE Yields(r)
      BY <1>1, <3>2 DEF Yields, Sound
    <3> QED BY <2>3, <3>1, <3>2
  <2>5. Last(delivered'[r]) = m
    BY <1>1, <2>4 DEF TypeInv, TypeOK, Last
  <2> QED BY <2>4, <2>5
<1>2. TypeInv /\ TypeInv' /\ DeliverInvAll /\ [Next]_vars =>
        [\A r \in Ours : delivered'[r] # delivered[r] =>
           LET m == Last(delivered'[r])
           IN m.type \in {"Text", "Binary"} => m.len <= cfg[r].maxMessage]_vars
  BY <1>1 DEF Fits, Ours
<1> QED BY <1>2, DeliverAlways, TypeInvariant, PTL DEF Spec, MessageWithinLimit

-----------------------------------------------------------------------------
(* The status codes of our Close frames.                                   *)

Proper(f) ==
  f.op = "Close" /\ f.body \notin CloseBodies => f.body.len = 0 \/ IsAllowed(f.body.id)

LEMMA AcceptableIsProper ==
  ASSUME NEW body \in Payload
  PROVE  Proper(CloseOf(Acceptable(body)))
<1>1. CloseOf(Acceptable(body)).body = Acceptable(body)
  BY DEF CloseOf, Plain
<1>2. CASE body.len = 0 \/ IsAllowed(body.id)
  BY <1>1, <1>2 DEF Proper, Acceptable
<1>3. CASE ~(body.len = 0 \/ IsAllowed(body.id))
  <2>1. Acceptable(body).id = 1002
    BY <1>3 DEF Acceptable, ProtocolCode
  <2>2. IsAllowed(1002)
    BY DEF IsAllowed, NamedCode
  <2> QED BY <1>1, <2>1, <2>2 DEF Proper
<1> QED BY <1>2, <1>3

LEMMA ReplyIsProper ==
  ASSUME NEW r \in Roles, NEW f \in Frame, ReadMessageFrame(r, f).reply # NoFrame
  PROVE  Proper(ReadMessageFrame(r, f).reply)
<1> DEFINE Good(got) == got.reply # NoFrame => Proper(got.reply)
<1>1. f.body \in Payload
  BY DEF Frame
<1>2. \A got : got.reply = NoFrame => Good(got)
  OBVIOUS
<1>3. Good(DoClose(r, f.body))
  <2>1. DoClose(r, f.body).reply \in {NoFrame, CloseOf(Acceptable(f.body))}
    BY DEF DoClose, Nothing
  <2> QED BY <1>1, <2>1, AcceptableIsProper
<1>4. Good([Return(r, MessageOf("Ping", f.body)) EXCEPT !.reply = PongReply(r, f.body)])
  <2>1. [Return(r, MessageOf("Ping", f.body)) EXCEPT !.reply = PongReply(r, f.body)].reply
          \in {NoFrame, PongOf(f.body)}
    BY DEF Return, Nothing, PongReply
  <2>2. Proper(PongOf(f.body))
    BY DEF PongOf, Plain, Proper
  <2> QED BY <2>1, <2>2
<1>5. \A e, m : Good(Error(r, e)) /\ Good(Return(r, m))
  BY <1>2, OutcomeOfError
<1>6. Good(HandleData(r, f))
  BY <1>2, DataMovesNothing
<1>7. Good(ReadMessageFrame(r, f))
  <2> HIDE DEF Good
  <2>1. Good(HandleClose(r, f.body))
    BY <1>3, <1>5 DEF HandleClose
  <2>2. Good(HandleControl(r, f))
    BY <1>4, <1>5, <2>1 DEF HandleControl
  <2> QED BY <1>5, <1>6, <2>2 DEF ReadMessageFrame
<1> QED BY <1>7

(* Every frame encoded is proper, and so is the one that waits for room.   *)
CodeInv(r) ==
  /\ \A i \in 1 .. Len(encoded[r]) : Proper(encoded[r][i])
  /\ fut[r].then = "encode" => Proper(fut[r].frame)

LEMMA EncodeKeepsCodes ==
  ASSUME TypeOK, NEW r \in Roles, CodeInv(r),
         NEW op, NEW buf, NEW f \in Frame, NEW msg, Encode(r, op, buf, f, msg), Proper(f)
  PROVE  CodeInv(r)'
<1> DEFINE e == encoded[r]
<1>1. e \in Seq(Frame) /\ encoded'[r] = Append(e, f)
  BY DEF TypeOK, Encode
<1>2. fut'[r].then # "encode"
  <2>1. CASE op = "write"
    BY <2>1, FinishFut DEF Encode
  <2>2. CASE op # "write"
    BY <2>2, SuspendFut, AwaitThen DEF Encode, Submit
  <2> QED BY <2>1, <2>2
<1>3. \A i \in 1 .. Len(e) : Proper(e[i])
  BY DEF CodeInv
<1> HIDE DEF e
<1>4. /\ Len(Append(e, f)) = Len(e) + 1 /\ Append(e, f)[Len(e) + 1] = f
      /\ \A i \in 1 .. Len(e) : Append(e, f)[i] = e[i]
      /\ Len(e) \in Nat
  BY <1>1, AppendFacts
<1>5. \A i \in 1 .. Len(e) + 1 : i \in 1 .. Len(e) \/ i = Len(e) + 1
  BY <1>4
<1>6. \A i \in 1 .. Len(Append(e, f)) : Proper(Append(e, f)[i])
  BY <1>3, <1>4, <1>5
<1> QED BY <1>1, <1>2, <1>6 DEF CodeInv

LEMMA WriteFrameKeepsCodes ==
  ASSUME TypeOK, NEW r \in Roles, CodeInv(r),
         NEW op, NEW f \in Frame, NEW msg, WriteFrame(r, op, f, msg), Proper(f)
  PROVE  CodeInv(r)'
<1>1. Masked(r, f) \in Frame /\ Masked(r, f).op = f.op
  BY MaskedType
<1>2. Masked(r, f).body = f.body
  BY DEF Masked, Frame
<1>3. Proper(Masked(r, f))
  BY <1>1, <1>2 DEF Proper
<1>4. CASE MustFlush(r)
  <2>1. fut'[r].frame = Masked(r, f)
    BY <1>4, SuspendFut, AwaitThen DEF WriteFrame, Submit
  <2>2. encoded'[r] = encoded[r]
    BY <1>4 DEF WriteFrame
  <2> QED BY <1>3, <2>1, <2>2 DEF CodeInv
<1>5. CASE ~MustFlush(r)
  BY <1>1, <1>3, <1>5, EncodeKeepsCodes DEF WriteFrame
<1> QED BY <1>4, <1>5

(* A step that encodes nothing and leaves nothing new waiting for room.    *)
LEMMA CodesKept ==
  ASSUME NEW r \in Roles, CodeInv(r), encoded'[r] = encoded[r],
         fut'[r].then = "encode" =>
           fut[r].then = "encode" /\ fut'[r].frame = fut[r].frame
  PROVE  CodeInv(r)'
BY DEF CodeInv

LEMMA FinishKeepsCodes ==
  ASSUME TypeOK, NEW r \in Roles, CodeInv(r), encoded'[r] = encoded[r],
         \E op, res, msg : Finish(r, op, res, msg)
  PROVE  CodeInv(r)'
BY FinishFut, CodesKept

LEMMA FlushAllKeepsCodes ==
  ASSUME TypeOK, NEW r \in Roles, CodeInv(r), NEW op, FlushAll(r, op)
  PROVE  CodeInv(r)'
<1>1. encoded'[r] = encoded[r]
  BY DEF FlushAll
<1>2. CASE Finish(r, op, "Ok", NoMessage)
  BY <1>1, <1>2, FinishKeepsCodes
<1>3. CASE \E at, then : then # "encode" /\ Suspend(r, Await(op, at, then, NoFrame, NoMessage))
  BY <1>1, <1>3, SuspendFut, AwaitThen, CodesKept
<1>4. \/ Finish(r, op, "Ok", NoMessage)
      \/ Suspend(r, Await(op, "shutdown", "none", NoFrame, NoMessage))
      \/ Suspend(r, Await(op, "write", "shutdown", NoFrame, NoMessage))
      \/ Suspend(r, Await(op, "write", "return", NoFrame, NoMessage))
  BY DEF FlushAll, Submit
<1> QED BY <1>2, <1>3, <1>4

LEMMA CodeOwnStep ==
  ASSUME TypeOK, NEW r \in Roles, NoRawClose(r), CodeInv(r), Step(r)
  PROVE  CodeInv(r)'
<1>1. CASE CallRead(r)
  <2>1. encoded' = encoded
    BY <1>1 DEF CallRead
  <2>2. CASE Suspend(r, Await("read", "next", "none", NoFrame, NoMessage))
    BY <2>1, <2>2, SuspendFut, AwaitThen, CodesKept
  <2> QED BY <1>1, <2>1, <2>2, FinishKeepsCodes DEF CallRead
<1>2. CASE CallWrite(r)
  <2>1. CASE \E f \in Menu[r] : WriteFrame(r, "write", f, NoMessage)
    <3>1. PICK f \in Menu[r] : WriteFrame(r, "write", f, NoMessage)
      BY <2>1
    <3>2. f \in Frame /\ Proper(f)
      BY MenuAssumption DEF NoRawClose, Proper
    <3> QED BY <3>1, <3>2, WriteFrameKeepsCodes
  <2>2. CASE encoded' = encoded /\ \E res : Finish(r, "write", res, NoMessage)
    BY <2>2, FinishKeepsCodes
  <2> QED BY <1>2, <2>1, <2>2 DEF CallWrite
<1>3. CASE CallClose(r)
  <2>1. CASE \E body \in CloseBodies : WriteFrame(r, "close", CloseOf(body), NoMessage)
    <3>1. PICK body \in CloseBodies : WriteFrame(r, "close", CloseOf(body), NoMessage)
      BY <2>1
    <3>2. CloseOf(body) \in Frame
      BY CloseBodiesAssumption, PlainType DEF CloseOf, OpCode, ControlOps
    <3>3. Proper(CloseOf(body))
      BY DEF CloseOf, Plain, Proper
    <3> QED BY <3>1, <3>2, <3>3, WriteFrameKeepsCodes
  <2> QED BY <1>3, <2>1, FlushAllKeepsCodes DEF CallClose
<1>4. CASE CallFlush(r)
  BY <1>4, FlushAllKeepsCodes DEF CallFlush
<1>5. CASE SetConfig(r)
  BY <1>5 DEF SetConfig, history, CodeInv
<1>6. CASE NextEnd(r) \/ NextFails(r) \/ DecodeRejects(r) \/ FrameFails(r)
           \/ FrameDelivered(r)
  BY <1>6, FinishKeepsCodes DEF NextEnd, NextFails, DecodeRejects, FrameFails, FrameDelivered
<1>7. CASE FrameAbsorbed(r)
  BY <1>7 DEF FrameAbsorbed, history, CodeInv
<1>8. CASE FrameAnswered(r)
  <2>1. PICK f \in Arriving(r) :
          /\ ReadMessageFrame(r, f).reply # NoFrame
          /\ WriteFrame(r, "read", ReadMessageFrame(r, f).reply, ReadMessageFrame(r, f).msg)
    BY <1>8 DEF FrameAnswered
  <2>2. ReadMessageFrame(r, f).reply \in Frame
    BY <2>1, ArrivingFacts, ReadMessageFrameType, FrameFacts DEF Outcome
  <2>3. Proper(ReadMessageFrame(r, f).reply)
    BY <2>1, ArrivingFacts, ReplyIsProper
  <2> QED BY <2>1, <2>2, <2>3, WriteFrameKeepsCodes
<1>9. CASE WriteSome(r)
  <2>1. fut'[r].then = fut[r].then /\ fut'[r].frame = fut[r].frame
    BY <1>9 DEF TypeOK, WriteSome, Future
  <2> QED BY <1>9, <2>1, CodesKept DEF WriteSome, history
<1>10. CASE SyncThenEncode(r)
  <2>1. fut[r].then = "encode" /\ fut[r].frame \in Frame
    BY <1>10 DEF TypeOK, SyncThenEncode, Flushed, Future
  <2>2. Encode(r, fut[r].op, writeBuf[r], fut[r].frame, fut[r].msg)
    BY <1>10 DEF SyncThenEncode
  <2>3. Proper(fut[r].frame)
    BY <2>1 DEF CodeInv
  <2> QED BY <2>1, <2>2, <2>3, EncodeKeepsCodes
<1>11. CASE SyncThenShutdown(r)
  BY <1>11, SuspendFut, AwaitThen, CodesKept DEF SyncThenShutdown
<1>12. CASE WriteFails(r) \/ SyncThenReturn(r) \/ SyncFails(r) \/ Shutdown(r)
            \/ ShutdownFails(r)
  BY <1>12, FinishKeepsCodes DEF WriteFails, SyncThenReturn, SyncFails, Shutdown, ShutdownFails
<1>13. CASE Surroundings(r)
  <2>1. encoded' = encoded
    BY <1>13 DEF Surroundings, Cancel, Drop, Break, ForeignSend, ForeignRead,
         ForeignDrop, history
  <2>2. fut'[r] \in {fut[r], Idle}
    BY <1>13 DEF TypeOK, Surroundings, Cancel, Drop, Abandon, Break, ForeignSend,
         ForeignRead, ForeignDrop
  <2>3. Idle.then = "none"
    BY AwaitThen DEF Idle
  <2> QED BY <2>1, <2>2, <2>3, CodesKept
<1> QED BY <1>1, <1>2, <1>3, <1>4, <1>5, <1>6, <1>7, <1>8, <1>9, <1>10, <1>11, <1>12,
           <1>13 DEF Step, Calling, Receiving, Sending

CodeInvAll == \A r \in Roles : NoRawClose(r) => CodeInv(r)

(* A Close frame we answer with carries a status code the protocol allows. *)
THEOREM CloseCodesHold == Spec => []CloseCodesAllowed
<1>1. Init => CodeInvAll
  <2> SUFFICES ASSUME Init, NEW r \in Roles PROVE CodeInv(r)
    BY DEF CodeInvAll
  <2>1. encoded[r] = <<>> /\ fut[r].then = "none"
    BY AwaitThen DEF Init, Idle
  <2> QED BY <2>1 DEF CodeInv
<1>2. TypeInv /\ CodeInvAll /\ [Next]_vars => CodeInvAll'
  <2> SUFFICES ASSUME TypeInv, CodeInvAll, [Next]_vars, NEW r \in Roles, NoRawClose(r)
               PROVE  CodeInv(r)'
    BY DEF CodeInvAll, NoRawClose
  <2>1. CodeInv(r)
    BY DEF CodeInvAll
  <2>2. CASE UNCHANGED vars
    BY <2>1, <2>2 DEF vars, history, CodeInv
  <2>3. ASSUME NEW q \in Roles, Step(q)
        PROVE  CodeInv(r)'
    <3>1. CASE q = r
      BY <2>1, <2>3, <3>1, CodeOwnStep DEF TypeInv
    <3>2. CASE q # r
      <4>1. Same(r)
        BY <2>3, <3>2, StepIsLocal DEF TypeInv
      <4> QED BY <2>1, <4>1 DEF Same, SameCall, SameCodec, CodeInv
    <3> QED BY <3>1, <3>2
  <2> QED BY <2>2, <2>3, NextCases DEF Step
<1>3. CodeInvAll => CloseCodesAllowed
  BY DEF CodeInvAll, CodeInv, Proper, NoRawClose, CloseCodesAllowed, Ours
<1> QED BY <1>1, <1>2, <1>3, TypeInvariant, PTL DEF Spec
=============================================================================
