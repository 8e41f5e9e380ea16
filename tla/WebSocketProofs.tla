--------------------------- MODULE WebSocketProofs ---------------------------
(***************************************************************************)
(* Proofs about two WebSocket endpoints, for every set of foreign roles,   *)
(* every menu, configuration, capacity and number of calls.                *)
(***************************************************************************)
EXTENDS WebSocketProperties, TLAPS

-----------------------------------------------------------------------------
(* Facts about the values.                                                 *)

LEMMA FrameFacts ==
  /\ Empty \in Payload
  /\ NoFrame \notin Frame /\ NoFrame \in MaybeFrame
  /\ Torn \in OnWire /\ Torn \notin Frame
  /\ \A f \in Frame : f \in MaybeFrame /\ f \in OnWire /\ f # NoFrame
  /\ \A f \in MaybeFrame : f # NoFrame => f \in Frame
BY DEF Empty, Payload, Utf8Class, NoFrame, Frame, MaybeFrame, Torn, OnWire,
       OpCode, DataOps, ControlOps

LEMMA PlainType ==
  ASSUME NEW op \in OpCode, NEW body \in Payload
  PROVE  Plain(op, body) \in Frame
BY DEF Plain, Frame

LEMMA MaskedType ==
  ASSUME NEW r \in Roles, NEW f \in Frame
  PROVE  Masked(r, f) \in Frame /\ Masked(r, f).op = f.op
BY DEF Masked, Frame

LEMMA AcceptableType ==
  ASSUME NEW body \in Payload
  PROVE  Acceptable(body) \in Payload
BY DEF Acceptable, Payload, Utf8Class, ProtocolCode, ReasonLen

LEMMA MessageFacts ==
  /\ NoMessage \notin Message /\ NoMessage \in MaybeMessage
  /\ \A m \in MaybeMessage : m # NoMessage => m \in Message
  /\ \A m \in Message : m \in MaybeMessage
BY DEF NoMessage, Message, MaybeMessage

LEMMA MessageOfType ==
  ASSUME NEW type \in {"Text", "Binary", "Ping", "Pong", "Close"},
         NEW body \in Payload
  PROVE  MessageOf(type, body) \in Message
<1>1. body.id \in Nat /\ body.len \in Nat
  BY DEF Payload
<1>2. <<body.id>> \in Seq(Nat)
  BY <1>1
<1> QED BY <1>1, <1>2 DEF MessageOf, Message

LEMMA AwaitType ==
  ASSUME NEW op \in Method \cup {"none"},
         NEW at \in {"idle", "next", "write", "sync", "shutdown"},
         NEW then \in {"none", "encode", "return", "shutdown"},
         NEW frame \in MaybeFrame, NEW msg \in MaybeMessage,
         then = "encode" => frame \in Frame
  PROVE  /\ Await(op, at, then, frame, msg) \in Future
         /\ Await(op, at, then, frame, msg).at = at
BY DEF Await, Future

LEMMA PlainAwaitType ==
  ASSUME NEW op \in Method \cup {"none"},
         NEW at \in {"idle", "next", "write", "sync", "shutdown"},
         NEW then \in {"none", "return", "shutdown"}, NEW msg \in MaybeMessage
  PROVE  /\ Await(op, at, then, NoFrame, msg) \in Future
         /\ Await(op, at, then, NoFrame, msg).at = at
<1>1. NoFrame \in MaybeFrame
  BY FrameFacts
<1>2. then # "encode" /\ then \in {"none", "encode", "return", "shutdown"}
  OBVIOUS
<1> QED BY <1>1, <1>2 DEF Await, Future

LEMMA IdleType == Idle \in Future /\ Idle.at = "idle"
BY AwaitType, FrameFacts, MessageFacts DEF Idle

-----------------------------------------------------------------------------
(* The outcome of a frame.                                                 *)

Outcome == [res : Result, msg : MaybeMessage, reply : MaybeFrame,
            state : State, inc : MaybePartial]

LEMMA PartialFacts ==
  /\ NoPartial \notin Partial /\ NoPartial \in MaybePartial
  /\ \A m \in MaybePartial : m # NoPartial => m \in Partial
  /\ \A m \in Partial : m \in MaybePartial
BY DEF NoPartial, Partial, MaybePartial

LEMMA HeldType ==
  ASSUME NEW m \in Partial, m.len > 0, NEW b \in BOOLEAN
  PROVE  [m EXCEPT !.held = b] \in Partial
<1> DEFINE Fields == [type : {"Text", "Binary"}, parts : Seq(Nat), len : Nat,
                      held : BOOLEAN]
<1>1. m \in Fields
  BY DEF Partial
<1>2. [m EXCEPT !.held = b] \in Fields /\ [m EXCEPT !.held = b].len = m.len
  BY <1>1, Zenon
<1> QED BY <1>2 DEF Partial

LEMMA ExtendType ==
  ASSUME NEW m \in Partial, NEW body \in Payload, NEW limit
  PROVE  /\ Extend(m, body, limit).res \in {"Ok", "Capacity", "Utf8"}
         /\ Extend(m, body, limit).inc \in Partial
<1>1. Grown(m, body) \in Partial
  <2>1. Append(m.parts, body.id) \in Seq(Nat) /\ m.len + body.len \in Nat
        /\ (m.held => m.len + body.len > 0)
    BY DEF Partial, Payload
  <2> QED BY <2>1 DEF Grown, Partial
<1>2. Collected(m, body) \in Partial
  <2>1. CASE body.len = 0
    BY <1>1, <2>1 DEF Collected
  <2>2. CASE body.len # 0
    <3> DEFINE g == Grown(m, body)
    <3>1. g.len > 0
      BY <2>2 DEF Grown, Partial, Payload
    <3>2. \A b \in BOOLEAN : [g EXCEPT !.held = b] \in Partial
      BY <1>1, <3>1, HeldType
    <3>3. CASE body.utf8 = "opens"
      <4>1. (body.utf8 = "opens") = TRUE
        BY <3>3
      <4> QED BY <2>2, <3>2, <4>1 DEF Collected
    <3>4. CASE body.utf8 # "opens"
      <4>1. (body.utf8 = "opens") = FALSE
        BY <3>4
      <4> QED BY <2>2, <3>2, <4>1 DEF Collected
    <3> QED BY <3>3, <3>4
  <2> QED BY <2>1, <2>2
<1>3. Unheld(m) \in Partial
  <2>1. CASE m.held
    <3>1. m.len - 1 \in Nat
      BY <2>1 DEF Partial
    <3> QED BY <2>1, <3>1 DEF Unheld, Partial
  <2>2. CASE ~m.held
    BY <2>2 DEF Unheld
  <2> QED BY <2>1, <2>2
<1> QED BY <1>1, <1>2, <1>3 DEF Extend

LEMMA NewPartialType ==
  ASSUME NEW type \in {"Text", "Binary"}
  PROVE  NewPartial(type) \in Partial
BY DEF NewPartial, Partial

LEMMA CompletedType ==
  ASSUME NEW m \in Partial
  PROVE  Completed(m) \in Message
BY DEF Completed, Partial, Message

(* An outcome stays one when a field of it is set.                         *)
LEMMA OutcomeFields ==
  ASSUME NEW o \in Outcome
  PROVE  /\ \A v \in Result : [o EXCEPT !.res = v] \in Outcome
         /\ \A v \in MaybeMessage : [o EXCEPT !.msg = v] \in Outcome
         /\ \A v \in MaybeFrame : [o EXCEPT !.reply = v] \in Outcome
         /\ \A v \in State : [o EXCEPT !.state = v] \in Outcome
         /\ \A v \in MaybePartial : [o EXCEPT !.inc = v] \in Outcome
BY DEF Outcome

LEMMA BasicOutcomes ==
  ASSUME TypeOK, NEW r \in Roles
  PROVE  /\ Nothing(r) \in Outcome
         /\ \A e \in Result : Error(r, e) \in Outcome
         /\ \A m \in Message : Return(r, m) \in Outcome
<1>1. state[r] \in State /\ inc[r] \in MaybePartial
  BY DEF TypeOK
<1>2. "Ok" \in Result
  BY DEF Result
<1>3. Nothing(r) \in Outcome
  BY <1>1, <1>2, FrameFacts, MessageFacts DEF Nothing, Outcome
<1> QED BY <1>3, OutcomeFields, MessageFacts DEF Error, Return

LEMMA DoCloseType ==
  ASSUME TypeOK, NEW r \in Roles, NEW body \in Payload
  PROVE  DoClose(r, body) \in Outcome
<1> DEFINE kept == Acceptable(body)
<1>1. MessageOf("Close", kept) \in MaybeMessage /\ MessageOf("Close", body) \in MaybeMessage
  BY AcceptableType, MessageOfType, MessageFacts
<1>2. CloseOf(kept) \in MaybeFrame
  BY AcceptableType, PlainType, FrameFacts DEF CloseOf, OpCode, ControlOps
<1>3. CASE state[r] = "Active"
  <2>1. [Nothing(r) EXCEPT !.state = "ClosedByPeer",
                           !.msg = MessageOf("Close", kept),
                           !.reply = CloseOf(kept)] \in Outcome
    BY <1>1, <1>2, BasicOutcomes DEF Outcome, State
  <2> QED BY <1>3, <2>1 DEF DoClose
<1>4. CASE state[r] = "ClosedByUs"
  <2>1. [Nothing(r) EXCEPT !.state = "CloseAcknowledged",
                           !.msg = MessageOf("Close", body)] \in Outcome
    BY <1>1, BasicOutcomes DEF Outcome, State
  <2> QED BY <1>4, <2>1 DEF DoClose
<1>5. CASE state[r] \notin {"Active", "ClosedByUs"}
  BY <1>5, BasicOutcomes DEF DoClose
<1> QED BY <1>3, <1>4, <1>5

LEMMA HandleControlType ==
  ASSUME TypeOK, NEW r \in Roles, NEW f \in Frame
  PROVE  HandleControl(r, f) \in Outcome
<1>1. f.body \in Payload
  BY DEF Frame
<1>2. \A e \in {"FragmentedControlFrame", "ControlFrameTooBig", "Utf8",
                "InvalidCloseSequence", "UnknownControlFrameType"} :
        Error(r, e) \in Outcome
  BY BasicOutcomes DEF Result
<1>3. HandleClose(r, f.body) \in Outcome
  BY <1>1, <1>2, DoCloseType DEF HandleClose
<1>4. PongReply(r, f.body) \in MaybeFrame
  BY <1>1, PlainType, FrameFacts DEF PongReply, PongOf, OpCode, ControlOps
<1>5. /\ Return(r, MessageOf("Ping", f.body)) \in Outcome
      /\ Return(r, MessageOf("Pong", f.body)) \in Outcome
  BY <1>1, MessageOfType, BasicOutcomes
<1>6. [Return(r, MessageOf("Ping", f.body)) EXCEPT !.reply = PongReply(r, f.body)]
        \in Outcome
  BY <1>4, <1>5, OutcomeFields
<1> QED BY <1>2, <1>3, <1>5, <1>6 DEF HandleControl

LEMMA HandleDataType ==
  ASSUME TypeOK, NEW r \in Roles, NEW f \in Frame, f.op \notin ControlOps
  PROVE  HandleData(r, f) \in Outcome
<1>1. f.body \in Payload /\ inc[r] \in MaybePartial
  BY DEF Frame, TypeOK
<1>2. \A e \in {"UnexpectedContinueFrame", "Capacity", "Utf8", "ExpectedFragment",
                "UnknownDataFrameType"} : Error(r, e) \in Outcome
  BY BasicOutcomes DEF Result
<1>3. HandleContinue(r, f) \in Outcome
  <2> DEFINE ext == Extend(inc[r], f.body, cfg[r].maxMessage)
  <2>1. CASE inc[r] = NoPartial
    BY <2>1, <1>2 DEF HandleContinue
  <2>2. CASE inc[r] # NoPartial
    <3>1. ext.res \in {"Ok", "Capacity", "Utf8"} /\ ext.inc \in Partial
      BY <1>1, <2>2, PartialFacts, ExtendType
    <3> HIDE DEF ext
    <3>2. ext.inc \in MaybePartial /\ NoPartial \in MaybePartial
      BY <3>1, PartialFacts
    <3>3. ext.res # "Ok" => [Error(r, ext.res) EXCEPT !.inc = ext.inc] \in Outcome
      BY <1>2, <3>1, <3>2, OutcomeFields
    <3>4. [Nothing(r) EXCEPT !.inc = ext.inc] \in Outcome
      BY <3>2, OutcomeFields, BasicOutcomes
    <3>5. [Error(r, "Utf8") EXCEPT !.inc = NoPartial] \in Outcome
      BY <1>2, <3>2, OutcomeFields
    <3>6. [Return(r, Completed(ext.inc)) EXCEPT !.inc = NoPartial] \in Outcome
      BY <3>1, <3>2, CompletedType, OutcomeFields, BasicOutcomes
    <3> QED BY <2>2, <3>3, <3>4, <3>5, <3>6 DEF HandleContinue, ext
  <2> QED BY <2>1, <2>2
<1>4. ASSUME f.op \in {"Text", "Binary"}
      PROVE  HandleWhole(r, f) \in Outcome /\ HandleFirst(r, f) \in Outcome
  <2> DEFINE ext == Extend(NewPartial(f.op), f.body, cfg[r].maxMessage)
  <2>1. ext.res \in {"Ok", "Capacity", "Utf8"} /\ ext.inc \in MaybePartial
    BY <1>1, <1>4, NewPartialType, ExtendType, PartialFacts
  <2>2. HandleFirst(r, f) \in Outcome
    <3> HIDE DEF ext
    <3>1. [Nothing(r) EXCEPT !.inc = ext.inc] \in Outcome
      BY <2>1, OutcomeFields, BasicOutcomes
    <3> QED BY <1>2, <2>1, <3>1 DEF HandleFirst, ext
  <2>3. Return(r, MessageOf(f.op, f.body)) \in Outcome
    BY <1>1, <1>4, MessageOfType, BasicOutcomes
  <2> QED BY <1>2, <2>2, <2>3 DEF HandleWhole
<1>5. f.op \in {"Continue", "Text", "Binary", "ReservedData"}
  BY DEF Frame, OpCode, DataOps
<1> QED BY <1>2, <1>3, <1>4, <1>5 DEF HandleData

LEMMA ReadMessageFrameType ==
  ASSUME TypeOK, NEW r \in Roles, NEW f \in Frame
  PROVE  ReadMessageFrame(r, f) \in Outcome
<1>1. \A e \in {"ReceivedAfterClosing", "NonZeroReservedBits",
                "MaskedFrameFromServer"} : Error(r, e) \in Outcome
  BY BasicOutcomes DEF Result
<1> QED BY <1>1, HandleControlType, HandleDataType DEF ReadMessageFrame

-----------------------------------------------------------------------------
(* The parts of the types that a call changes, and what else is needed for *)
(* them to be kept: a pending write_all has frames left to write.          *)

CallTypes ==
  /\ fut \in [Roles -> Future]
  /\ ret \in [Roles -> Returned]
  /\ delivered \in [Roles -> Seq(Message)]

BufferTypes ==
  /\ writeBuf \in [Roles -> Seq(Frame)]
  /\ out \in [Roles -> Seq(Frame)]
  /\ done \in [Roles -> Nat]

Writing ==
  \A r \in Roles : fut[r].at = "write" => done[r] < Len(out[r])

TypeInv == TypeOK /\ Writing

CallInv == CallTypes /\ BufferTypes /\ encoded \in [Roles -> Seq(Frame)] /\ Writing

LEMMA FinishType ==
  ASSUME CallTypes, NEW r \in Roles, NEW op \in Method \cup {"none"},
         NEW res \in Result, NEW msg \in MaybeMessage, Finish(r, op, res, msg)
  PROVE  /\ CallTypes'
         /\ fut' = [fut EXCEPT ![r] = Idle]
<1>1. [op |-> op, res |-> res] \in Returned
  BY DEF Returned
<1>2. msg # NoMessage => Append(delivered[r], msg) \in Seq(Message)
  BY MessageFacts DEF CallTypes
<1>3. delivered' \in [Roles -> Seq(Message)]
  BY <1>2 DEF Finish, CallTypes
<1> QED BY <1>1, <1>3, IdleType DEF Finish, CallTypes

LEMMA WritingAfterFinish ==
  ASSUME Writing, fut \in [Roles -> Future], NEW r \in Roles,
         fut' = [fut EXCEPT ![r] = Idle],
         \A q \in Roles \ {r} : done'[q] = done[q] /\ out'[q] = out[q]
  PROVE  Writing'
BY IdleType DEF Writing

LEMMA FinishInv ==
  ASSUME CallInv, NEW r \in Roles, NEW op \in Method \cup {"none"},
         NEW res \in Result, NEW msg \in MaybeMessage, Finish(r, op, res, msg),
         UNCHANGED <<writeBuf, out, done, encoded>>
  PROVE  CallInv'
<1>1. CallTypes' /\ fut' = [fut EXCEPT ![r] = Idle]
  BY FinishType DEF CallInv
<1>2. Writing'
  BY <1>1, WritingAfterFinish DEF CallInv, CallTypes
<1> QED BY <1>1, <1>2 DEF CallInv, BufferTypes

LEMMA CallInvUnchanged ==
  ASSUME CallInv, UNCHANGED <<writeBuf, out, done, fut, ret, encoded, delivered>>
  PROVE  CallInv'
<1>1. CallTypes' /\ BufferTypes'
  BY DEF CallInv, CallTypes, BufferTypes
<1>2. Writing'
  BY DEF CallInv, Writing
<1> QED BY <1>1, <1>2 DEF CallInv

LEMMA SuspendInv ==
  ASSUME CallInv, NEW r \in Roles, NEW future \in Future, Suspend(r, future),
         future.at # "write", UNCHANGED <<writeBuf, out, done, encoded>>
  PROVE  CallInv'
<1>1. CallTypes'
  BY DEF CallInv, CallTypes, Suspend
<1>2. Writing'
  BY DEF CallInv, CallTypes, Suspend, Writing
<1> QED BY <1>1, <1>2 DEF CallInv, BufferTypes

LEMMA SubmitInv ==
  ASSUME CallInv, NEW r \in Roles, NEW buf \in Seq(Frame), buf # <<>>,
         NEW future \in Future, Submit(r, buf, future),
         encoded' \in [Roles -> Seq(Frame)]
  PROVE  CallInv'
<1>1. CallTypes'
  BY DEF CallInv, CallTypes, Submit, Suspend
<1>2. BufferTypes'
  BY DEF CallInv, BufferTypes, Submit
<1>3. Len(buf) > 0
  OBVIOUS
<1>4. Writing'
  BY <1>3 DEF CallInv, CallTypes, BufferTypes, Submit, Suspend, Writing
<1> QED BY <1>1, <1>2, <1>4 DEF CallInv

LEMMA AppendFacts ==
  ASSUME NEW S, NEW s \in Seq(S), NEW x \in S
  PROVE  /\ Append(s, x) \in Seq(S) /\ Append(s, x) # <<>>
         /\ Len(Append(s, x)) = Len(s) + 1
         /\ Append(s, x)[Len(s) + 1] = x
         /\ \A i \in 1 .. Len(s) : Append(s, x)[i] = s[i]
<1>1. Append(s, x) \in Seq(S) /\ Len(Append(s, x)) = Len(s) + 1
  OBVIOUS
<1>2. Append(s, x)[Len(s) + 1] = x /\ \A i \in 1 .. Len(s) : Append(s, x)[i] = s[i]
  OBVIOUS
<1>3. Len(Append(s, x)) # 0
  BY <1>1
<1>4. Append(s, x) # <<>>
  <2> SUFFICES ASSUME Append(s, x) = <<>> PROVE FALSE
    OBVIOUS
  <2>1. Len(Append(s, x)) = Len(<<>>)
    BY Zenon
  <2>2. Len(<<>>) = 0
    OBVIOUS
  <2> QED BY <1>3, <2>1, <2>2
<1> QED BY <1>1, <1>2, <1>4

LEMMA EncodeInv ==
  ASSUME CallInv, NEW r \in Roles, NEW op \in Method \cup {"none"},
         NEW buf \in Seq(Frame), NEW f \in Frame, NEW msg \in MaybeMessage,
         Encode(r, op, buf, f, msg)
  PROVE  CallInv'
<1>1. Append(buf, f) \in Seq(Frame) /\ Append(buf, f) # <<>>
  BY AppendFacts
<1>2. encoded' \in [Roles -> Seq(Frame)]
  BY DEF CallInv, Encode
<1>3. CASE op = "write"
  <2>1. Finish(r, op, "Ok", NoMessage) /\ UNCHANGED <<out, done>>
        /\ writeBuf' = [writeBuf EXCEPT ![r] = Append(buf, f)]
    BY <1>3 DEF Encode
  <2>2. CallTypes' /\ fut' = [fut EXCEPT ![r] = Idle]
    BY <2>1, FinishType, MessageFacts DEF CallInv, Result
  <2>3. Writing'
    BY <2>1, <2>2, WritingAfterFinish DEF CallInv, CallTypes
  <2> QED BY <1>1, <1>2, <2>1, <2>2, <2>3 DEF CallInv, BufferTypes
<1>4. CASE op # "write"
  <2>1. Submit(r, Append(buf, f), Await(op, "write", "return", NoFrame, msg))
    BY <1>4 DEF Encode
  <2>2. Await(op, "write", "return", NoFrame, msg) \in Future
    BY PlainAwaitType
  <2> QED BY <1>1, <1>2, <2>1, <2>2, SubmitInv
<1> QED BY <1>3, <1>4

LEMMA WriteFrameInv ==
  ASSUME CallInv, cfg \in [Roles -> Configs], NEW r \in Roles,
         NEW op \in Method \cup {"none"}, NEW f \in Frame,
         NEW msg \in MaybeMessage, WriteFrame(r, op, f, msg)
  PROVE  CallInv'
<1>1. Masked(r, f) \in Frame /\ Masked(r, f) \in MaybeFrame
  BY MaskedType, FrameFacts
<1>2. writeBuf[r] \in Seq(Frame)
  BY DEF CallInv, BufferTypes
<1>3. CASE MustFlush(r)
  <2>1. Await(op, "write", "encode", Masked(r, f), msg) \in Future
    BY <1>1, AwaitType
  <2>2. cfg[r].writeLimit \in Nat
    BY ConfigsAssumption DEF Config
  <2>3. writeBuf[r] # <<>>
    BY <1>2, <1>3, <2>2 DEF MustFlush
  <2> QED BY <1>2, <1>3, <2>1, <2>3, SubmitInv DEF WriteFrame, CallInv
<1>4. CASE ~MustFlush(r)
  BY <1>1, <1>2, <1>4, EncodeInv DEF WriteFrame
<1> QED BY <1>3, <1>4

LEMMA FlushAllInv ==
  ASSUME CallInv, NEW r \in Roles, NEW op \in Method, FlushAll(r, op)
  PROVE  CallInv'
<1>1. writeBuf[r] \in Seq(Frame) /\ NoFrame \in MaybeFrame /\ NoMessage \in MaybeMessage
  BY FrameFacts, MessageFacts DEF CallInv, BufferTypes
<1>2. \A then \in {"shutdown", "return"} :
        Await(op, "write", then, NoFrame, NoMessage) \in Future
  BY <1>1, AwaitType
<1>3. /\ Await(op, "shutdown", "none", NoFrame, NoMessage) \in Future
      /\ Await(op, "shutdown", "none", NoFrame, NoMessage).at = "shutdown"
  BY <1>1, AwaitType
<1>4. CASE HasBuffered(r)
  <2>1. PICK then \in {"shutdown", "return"} :
          Submit(r, writeBuf[r], Await(op, "write", then, NoFrame, NoMessage))
    BY <1>4 DEF FlushAll
  <2>2. writeBuf[r] # <<>> /\ encoded' \in [Roles -> Seq(Frame)]
    BY <1>4 DEF HasBuffered, FlushAll, CallInv
  <2>3. Await(op, "write", then, NoFrame, NoMessage) \in Future
    BY <1>2
  <2> QED BY <1>1, <2>1, <2>2, <2>3, SubmitInv
<1>5. CASE ~HasBuffered(r)
  <2>1. UNCHANGED <<writeBuf, out, done, encoded>>
    BY <1>5 DEF FlushAll, codec
  <2>2. CASE IsDone(r)
    BY <1>3, <1>5, <2>1, <2>2, SuspendInv DEF FlushAll
  <2>3. CASE ~IsDone(r)
    <3>1. Finish(r, op, "Ok", NoMessage) /\ "Ok" \in Result
      BY <1>5, <2>3 DEF FlushAll, Result
    <3> QED BY <1>1, <2>1, <3>1, FinishInv
  <2> QED BY <2>2, <2>3
<1> QED BY <1>4, <1>5

-----------------------------------------------------------------------------
(* The transport.                                                          *)

LEMMA PeerFacts ==
  \A r \in Roles : Peer(r) \in Roles /\ Peer(r) # r /\ Peer(Peer(r)) = r
BY DEF Roles, Peer

LEMMA PendingFacts ==
  ASSUME TypeOK, NEW r \in Roles, Pending(r) # <<>>
  PROVE  /\ taken[r] + 1 \in 1 .. Len(wired[Peer(r)])
         /\ Head(Pending(r)) = wired[Peer(r)][taken[r] + 1]
<1> DEFINE w == wired[Peer(r)]
           t == taken[r]
<1>1. w \in Seq(OnWire) /\ t \in Nat /\ Len(w) \in Nat
  BY PeerFacts DEF TypeOK
<1>2. Pending(r) = SubSeq(w, t + 1, Len(w))
  BY DEF Pending
<1> HIDE DEF w, t
<1>3. t + 1 <= Len(w)
  BY <1>1, <1>2
<1>4. Head(SubSeq(w, t + 1, Len(w))) = w[t + 1]
  BY <1>1, <1>3
<1>5. t + 1 \in 1 .. Len(w)
  BY <1>1, <1>3
<1>6. Head(Pending(r)) = w[t + 1]
  BY <1>2, <1>4
<1> QED BY <1>5, <1>6 DEF w, t

LEMMA ArrivingFacts ==
  ASSUME TypeOK, NEW r \in Roles, NEW f \in Arriving(r)
  PROVE  /\ f \in Frame
         /\ taken[r] + 1 \in 1 .. Len(wired[Peer(r)])
         /\ Intact(Peer(r)) => f = wired[Peer(r)][taken[r] + 1]
<1>1. Pending(r) # <<>>
  BY DEF Arriving
<1>2. /\ taken[r] + 1 \in 1 .. Len(wired[Peer(r)])
      /\ Head(Pending(r)) = wired[Peer(r)][taken[r] + 1]
  BY <1>1, PendingFacts
<1>3. CASE Desynced(r)
  <2>1. f \in Garbage
    BY <1>1, <1>3 DEF Arriving
  <2>2. ~Intact(Peer(r))
    BY <1>3 DEF Desynced, Intact
  <2> QED BY <1>2, <2>1, <2>2, GarbageAssumption
<1>4. CASE ~Desynced(r)
  <2>1. f = wired[Peer(r)][taken[r] + 1]
    BY <1>1, <1>2, <1>4 DEF Arriving
  <2>2. f # Torn
    <3>1. taken[r] + 1 <= taken[r] + 1
      BY DEF TypeOK
    <3> QED BY <1>2, <1>4, <2>1, <3>1 DEF Desynced
  <2>3. f \in OnWire
    <3>1. wired[Peer(r)] \in Seq(OnWire)
      BY PeerFacts DEF TypeOK
    <3> QED BY <1>2, <2>1, <3>1
  <2> QED BY <1>2, <2>1, <2>2, <2>3 DEF OnWire
<1> QED BY <1>3, <1>4

-----------------------------------------------------------------------------
(* Type correctness.                                                       *)

RestTypes ==
  /\ state \in [Roles -> State]
  /\ inc \in [Roles -> MaybePartial]
  /\ cfg \in [Roles -> Configs]
  /\ wired \in [Roles -> Seq(OnWire)]
  /\ taken \in [Roles -> Nat]
  /\ link \in [Roles -> {"open", "shut", "dropped"}]
  /\ dead \in [Roles -> BOOLEAN]
  /\ errored \in [Roles -> BOOLEAN]
  /\ clean \in [Roles -> BOOLEAN]
  /\ calls \in [Roles -> Nat]
  /\ cancels \in Nat

LEMMA TypeInvParts == TypeInv <=> RestTypes /\ CallInv
BY DEF TypeInv, TypeOK, RestTypes, CallInv, CallTypes, BufferTypes

LEMMA TypeInvPartsNext == TypeInv' <=> RestTypes' /\ CallInv'
BY DEF TypeInv, TypeOK, RestTypes, CallInv, CallTypes, BufferTypes

LEMMA TypeInit == Init => TypeInv
<1> SUFFICES ASSUME Init PROVE TypeInv
  OBVIOUS
<1>1. Idle \in Future /\ Idle.at # "write"
  BY IdleType
<1>2. NotReturned \in Returned
  BY DEF NotReturned, Returned, Result
<1>3. NoPartial \in MaybePartial
  BY PartialFacts
<1> QED BY <1>1, <1>2, <1>3 DEF Init, TypeInv, TypeOK, Writing, State

(* What the calls of an endpoint's user do to the types.                   *)
LEMMA CallsType ==
  ASSUME TypeInv, NEW r \in Roles, Calling(r)
  PROVE  TypeInv'
<1>1. RestTypes /\ CallInv
  BY TypeInvParts
<1>2. cfg \in [Roles -> Configs] /\ NoMessage \in MaybeMessage /\ NoFrame \in MaybeFrame
  BY <1>1, MessageFacts, FrameFacts DEF RestTypes
<1>3. CASE CallRead(r)
  <2>1. RestTypes'
    BY <1>1, <1>3 DEF CallRead, RestTypes, stream, bounds, State
  <2>2. UNCHANGED <<writeBuf, out, done, encoded>>
    BY <1>3 DEF CallRead, codec
  <2>3. /\ Await("read", "next", "none", NoFrame, NoMessage) \in Future
        /\ Await("read", "next", "none", NoFrame, NoMessage).at # "write"
    BY <1>2, AwaitType DEF Method
  <2>4. {"AlreadyClosed", "ConnectionClosed"} \subseteq Result /\ "read" \in Method
    BY DEF Result, Method
  <2>5. CallInv'
    <3>1. CASE \E res \in Result : Finish(r, "read", res, NoMessage)
      BY <1>1, <1>2, <2>2, <2>4, <3>1, FinishInv
    <3>2. CASE Suspend(r, Await("read", "next", "none", NoFrame, NoMessage))
      BY <1>1, <2>2, <2>3, <3>2, SuspendInv
    <3> QED BY <1>3, <2>4, <3>1, <3>2 DEF CallRead
  <2> QED BY <2>1, <2>5, TypeInvPartsNext
<1>4. CASE CallWrite(r)
  <2>1. RestTypes'
    BY <1>1, <1>4 DEF CallWrite, RestTypes, Count, ws, stream
  <2>2. CallInv'
    <3>1. {"AlreadyClosed", "SendAfterClosing"} \subseteq Result /\ "write" \in Method
      BY DEF Result, Method
    <3>2. CASE \E f \in Menu[r] : WriteFrame(r, "write", f, NoMessage)
      BY <1>1, <1>2, <3>1, <3>2, MenuAssumption, WriteFrameInv
    <3>3. CASE /\ \E res \in Result : Finish(r, "write", res, NoMessage)
               /\ UNCHANGED <<codec, encoded>>
      BY <1>1, <1>2, <3>1, <3>3, FinishInv DEF codec
    <3> QED BY <1>4, <3>1, <3>2, <3>3 DEF CallWrite
  <2> QED BY <2>1, <2>2, TypeInvPartsNext
<1>5. CASE CallClose(r)
  <2>1. RestTypes'
    <3>1. state' = [state EXCEPT ![r] = "ClosedByUs"] \/ state' = state
          \/ state' = [state EXCEPT ![r] = "Terminated"]
      BY <1>5 DEF CallClose, FlushAll
    <3>2. state' \in [Roles -> State]
      BY <1>1, <3>1 DEF RestTypes, State
    <3>3. calls' \in [Roles -> Nat]
      BY <1>1, <1>5 DEF CallClose, Count, RestTypes
    <3>4. UNCHANGED <<inc, cfg, wired, taken, link, dead, errored, clean, cancels>>
      BY <1>5 DEF CallClose, stream
    <3> QED BY <1>1, <3>2, <3>3, <3>4 DEF RestTypes
  <2>2. "close" \in Method
    BY DEF Method
  <2>3. CASE \E body \in CloseBodies : WriteFrame(r, "close", CloseOf(body), NoMessage)
    <3>1. PICK body \in CloseBodies : WriteFrame(r, "close", CloseOf(body), NoMessage)
      BY <2>3
    <3>2. CloseOf(body) \in Frame
      BY CloseBodiesAssumption, PlainType DEF CloseOf, OpCode, ControlOps
    <3>3. CallInv'
      BY <1>1, <1>2, <2>2, <3>1, <3>2, WriteFrameInv
    <3> QED BY <2>1, <3>3, TypeInvPartsNext
  <2>4. CASE FlushAll(r, "close")
    BY <1>1, <2>1, <2>2, <2>4, FlushAllInv, TypeInvPartsNext
  <2> QED BY <1>5, <2>3, <2>4 DEF CallClose
<1>6. CASE CallFlush(r)
  <2>1. RestTypes'
    BY <1>1, <1>6 DEF CallFlush, FlushAll, RestTypes, Count, stream, State
  <2>2. CallInv'
    <3>1. "flush" \in Method /\ FlushAll(r, "flush")
      BY <1>6 DEF CallFlush, Method
    <3> QED BY <1>1, <3>1, FlushAllInv
  <2> QED BY <2>1, <2>2, TypeInvPartsNext
<1>7. CASE SetConfig(r)
  <2>1. RestTypes'
    BY <1>1, <1>7 DEF SetConfig, RestTypes, Count, stream, history
  <2>2. CallInv'
    BY <1>1, <1>7, CallInvUnchanged DEF SetConfig, codec, history
  <2> QED BY <2>1, <2>2, TypeInvPartsNext
<1> QED BY <1>3, <1>4, <1>5, <1>6, <1>7 DEF Calling

(* What reading does to the types.                                         *)
LEMMA ReceivingType ==
  ASSUME TypeInv, NEW r \in Roles, Receiving(r)
  PROVE  TypeInv'
<1>1. RestTypes /\ CallInv /\ TypeOK
  BY TypeInvParts DEF TypeInv
<1>2. /\ cfg \in [Roles -> Configs] /\ NoMessage \in MaybeMessage
      /\ "read" \in Method \cup {"none"}
  BY <1>1, MessageFacts DEF RestTypes, Method
<1>3. \A f \in Arriving(r) : f \in Frame /\ ReadMessageFrame(r, f) \in Outcome
  BY <1>1, ArrivingFacts, ReadMessageFrameType
<1>4. \A got \in Outcome : Handle(r, got) =>
        state' \in [Roles -> State] /\ inc' \in [Roles -> MaybePartial]
        /\ taken' \in [Roles -> Nat]
  BY <1>1 DEF Handle, Take, RestTypes, Outcome
<1>5. \A got \in Outcome : Handle(r, got) /\ clean' \in [Roles -> BOOLEAN] => RestTypes'
  BY <1>1, <1>4 DEF Handle, RestTypes, bounds
<1>6. CASE DecodeRejects(r)
  <2>1. RestTypes'
    BY <1>1, <1>6 DEF DecodeRejects, Take, RestTypes, ws, bounds
  <2>2. PICK f \in Arriving(r) : Finish(r, "read", DecodeError(r, f), NoMessage)
    BY <1>6 DEF DecodeRejects
  <2>3. DecodeError(r, f) \in Result
    BY DEF DecodeError, Result
  <2>4. UNCHANGED <<writeBuf, out, done, encoded>>
    BY <1>6 DEF DecodeRejects, codec
  <2> QED BY <1>1, <1>2, <2>1, <2>2, <2>3, <2>4, FinishInv, TypeInvPartsNext
<1>7. CASE FrameFails(r)
  <2>1. PICK f \in Arriving(r) : /\ Finish(r, "read", ReadMessageFrame(r, f).res, NoMessage)
                                 /\ Handle(r, ReadMessageFrame(r, f))
    BY <1>7 DEF FrameFails
  <2>2. clean' \in [Roles -> BOOLEAN] /\ UNCHANGED <<writeBuf, out, done, encoded>>
    BY <1>1, <1>7 DEF FrameFails, codec, RestTypes
  <2>3. ReadMessageFrame(r, f).res \in Result /\ ReadMessageFrame(r, f) \in Outcome
    BY <1>3 DEF Outcome
  <2> QED BY <1>1, <1>2, <1>5, <2>1, <2>2, <2>3, FinishInv, TypeInvPartsNext
<1>8. CASE FrameAnswered(r)
  <2>1. PICK f \in Arriving(r) :
          /\ ReadMessageFrame(r, f).reply # NoFrame
          /\ WriteFrame(r, "read", ReadMessageFrame(r, f).reply, ReadMessageFrame(r, f).msg)
          /\ Handle(r, ReadMessageFrame(r, f))
    BY <1>8 DEF FrameAnswered
  <2>2. /\ ReadMessageFrame(r, f) \in Outcome
        /\ ReadMessageFrame(r, f).reply \in Frame
        /\ ReadMessageFrame(r, f).msg \in MaybeMessage
    BY <1>3, <2>1, FrameFacts DEF Outcome
  <2>3. clean' \in [Roles -> BOOLEAN]
    BY <1>1, <1>8 DEF FrameAnswered, RestTypes
  <2>4. CallInv'
    BY <1>1, <1>2, <2>1, <2>2, WriteFrameInv
  <2> QED BY <1>5, <2>1, <2>2, <2>3, <2>4, TypeInvPartsNext
<1>9. CASE FrameDelivered(r)
  <2>1. PICK f \in Arriving(r) : /\ Finish(r, "read", "Ok", ReadMessageFrame(r, f).msg)
                                 /\ Handle(r, ReadMessageFrame(r, f))
    BY <1>9 DEF FrameDelivered
  <2>2. clean' \in [Roles -> BOOLEAN] /\ UNCHANGED <<writeBuf, out, done, encoded>>
    BY <1>1, <1>9 DEF FrameDelivered, codec, RestTypes
  <2>3. /\ ReadMessageFrame(r, f) \in Outcome /\ "Ok" \in Result
        /\ ReadMessageFrame(r, f).msg \in MaybeMessage
    BY <1>3 DEF Outcome, Result
  <2> QED BY <1>1, <1>2, <1>5, <2>1, <2>2, <2>3, FinishInv, TypeInvPartsNext
<1>10. CASE FrameAbsorbed(r)
  <2>1. PICK f \in Arriving(r) : Handle(r, ReadMessageFrame(r, f))
    BY <1>10 DEF FrameAbsorbed
  <2>2. /\ clean' \in [Roles -> BOOLEAN]
        /\ UNCHANGED <<writeBuf, out, done, fut, ret, encoded, delivered>>
    BY <1>1, <1>10 DEF FrameAbsorbed, codec, history, RestTypes
  <2> QED BY <1>1, <1>3, <1>5, <2>1, <2>2, CallInvUnchanged, TypeInvPartsNext
<1>11. CASE NextEnd(r)
  <2>1. RestTypes'
    BY <1>1, <1>11 DEF NextEnd, RestTypes, stream, bounds, State
  <2>2. Finish(r, "read", EndResult(r), NoMessage) /\ UNCHANGED <<writeBuf, out, done, encoded>>
    BY <1>11 DEF NextEnd, codec
  <2>3. EndResult(r) \in Result
    BY DEF EndResult, Result
  <2> QED BY <1>1, <1>2, <2>1, <2>2, <2>3, FinishInv, TypeInvPartsNext
<1>12. CASE NextFails(r)
  <2>1. RestTypes'
    BY <1>1, <1>12 DEF NextFails, RestTypes, ws, bounds
  <2>2. PICK kind \in IoKind : Finish(r, "read", IoResult(r, kind, TRUE), NoMessage)
    BY <1>12 DEF NextFails
  <2>3. IoResult(r, kind, TRUE) \in Result /\ UNCHANGED <<writeBuf, out, done, encoded>>
    BY <1>12 DEF IoResult, Result, NextFails, codec
  <2> QED BY <1>1, <1>2, <2>1, <2>2, <2>3, FinishInv, TypeInvPartsNext
<1> QED BY <1>6, <1>7, <1>8, <1>9, <1>10, <1>11, <1>12 DEF Receiving

(* What writing does to the types.                                         *)
LEMMA SendingType ==
  ASSUME TypeInv, NEW r \in Roles, Sending(r)
  PROVE  TypeInv'
<1>1. RestTypes /\ CallInv /\ TypeOK /\ Writing
  BY TypeInvParts DEF TypeInv
<1>2. /\ fut[r] \in Future
      /\ fut[r].op \in Method \cup {"none"} /\ fut[r].msg \in MaybeMessage
      /\ fut[r].then = "encode" => fut[r].frame \in Frame
  BY <1>1 DEF TypeOK, Future
<1>3. NoMessage \in MaybeMessage /\ NoFrame \in MaybeFrame
  BY MessageFacts, FrameFacts
<1>4. \A kind \in IoKind : FlushResult(r, kind) \in Result
  BY DEF FlushResult, IoResult, Result
<1>5. ASSUME UNCHANGED <<ws, stream, clean, bounds>> PROVE RestTypes'
  BY <1>1, <1>5 DEF RestTypes, ws, stream, bounds
<1>6. CASE WriteSome(r)
  <2>1. done[r] + 1 \in 1 .. Len(out[r])
    BY <1>1, <1>6 DEF WriteSome, Writing, TypeOK
  <2>2. out[r][done[r] + 1] \in OnWire
    BY <1>1, <2>1, FrameFacts DEF TypeOK
  <2>3. wired' \in [Roles -> Seq(OnWire)]
    BY <1>1, <1>6, <2>2 DEF WriteSome, TypeOK
  <2>4. RestTypes'
    BY <1>1, <1>6, <2>3 DEF WriteSome, RestTypes, ws, history, bounds
  <2>5. UNCHANGED <<writeBuf, ret, delivered, encoded>>
    BY <1>6 DEF WriteSome, history
  <2>6. CASE done[r] + 1 < Len(out[r])
    <3>1. done' = [done EXCEPT ![r] = @ + 1] /\ UNCHANGED <<out, fut>>
      BY <1>6, <2>6 DEF WriteSome
    <3>2. Writing'
      BY <1>1, <2>6, <3>1 DEF Writing, TypeOK
    <3>3. CallTypes' /\ BufferTypes'
      BY <1>1, <2>5, <3>1 DEF CallInv, CallTypes, BufferTypes
    <3> QED BY <1>1, <2>4, <2>5, <3>2, <3>3, TypeInvPartsNext DEF CallInv
  <2>7. CASE ~(done[r] + 1 < Len(out[r]))
    <3>1. /\ done' = [done EXCEPT ![r] = 0] /\ out' = [out EXCEPT ![r] = <<>>]
          /\ fut' = [fut EXCEPT ![r].at = "sync"]
      BY <1>6, <2>7 DEF WriteSome
    <3>2. fut' \in [Roles -> Future] /\ fut'[r].at = "sync"
      <4>1. [fut[r] EXCEPT !.at = "sync"] \in Future
            /\ [fut[r] EXCEPT !.at = "sync"].at = "sync"
        BY <1>2 DEF Future
      <4> QED BY <1>1, <3>1, <4>1 DEF TypeOK
    <3>3. Writing'
      BY <1>1, <3>1, <3>2 DEF Writing, TypeOK
    <3>4. CallTypes' /\ BufferTypes'
      BY <1>1, <2>5, <3>1, <3>2 DEF CallInv, CallTypes, BufferTypes
    <3> QED BY <1>1, <2>4, <2>5, <3>3, <3>4, TypeInvPartsNext DEF CallInv
  <2> QED BY <2>6, <2>7
<1>7. CASE WriteFails(r)
  <2>1. RestTypes'
    BY <1>5, <1>7 DEF WriteFails
  <2>2. PICK kind \in IoKind : Finish(r, fut[r].op, FlushResult(r, kind), NoMessage)
    BY <1>7 DEF WriteFails
  <2>3. CallTypes' /\ fut' = [fut EXCEPT ![r] = Idle]
    BY <1>1, <1>2, <1>3, <1>4, <2>2, FinishType DEF CallInv
  <2>4. BufferTypes' /\ encoded' = encoded
    BY <1>1, <1>7 DEF WriteFails, Restored, TypeOK, BufferTypes
  <2>5. \A q \in Roles \ {r} : done'[q] = done[q] /\ out'[q] = out[q]
    BY <1>1, <1>7 DEF WriteFails, TypeOK
  <2>6. Writing'
    BY <1>1, <2>3, <2>5, WritingAfterFinish DEF TypeOK
  <2> QED BY <1>1, <2>1, <2>3, <2>4, <2>6, TypeInvPartsNext DEF CallInv
<1>8. CASE SyncThenEncode(r)
  <2>1. RestTypes'
    BY <1>5, <1>8 DEF SyncThenEncode
  <2>2. Encode(r, fut[r].op, writeBuf[r], fut[r].frame, fut[r].msg) /\ fut[r].frame \in Frame
    BY <1>2, <1>8 DEF SyncThenEncode, Flushed
  <2>3. writeBuf[r] \in Seq(Frame)
    BY <1>1 DEF TypeOK
  <2> QED BY <1>1, <1>2, <2>1, <2>2, <2>3, EncodeInv, TypeInvPartsNext
<1>9. CASE SyncThenReturn(r)
  <2>1. RestTypes' /\ UNCHANGED <<writeBuf, out, done, encoded>>
    BY <1>5, <1>9 DEF SyncThenReturn, codec
  <2>2. Finish(r, fut[r].op, "Ok", fut[r].msg) /\ "Ok" \in Result
    BY <1>9 DEF SyncThenReturn, Result
  <2> QED BY <1>1, <1>2, <2>1, <2>2, FinishInv, TypeInvPartsNext
<1>10. CASE SyncThenShutdown(r)
  <2>1. RestTypes' /\ UNCHANGED <<writeBuf, out, done, encoded>>
    BY <1>5, <1>10 DEF SyncThenShutdown, codec
  <2>2. Suspend(r, Await(fut[r].op, "shutdown", "none", NoFrame, NoMessage))
    BY <1>10 DEF SyncThenShutdown
  <2>3. /\ Await(fut[r].op, "shutdown", "none", NoFrame, NoMessage) \in Future
        /\ Await(fut[r].op, "shutdown", "none", NoFrame, NoMessage).at # "write"
    <3>1. \A op \in Method \cup {"none"} :
            /\ Await(op, "shutdown", "none", NoFrame, NoMessage) \in Future
            /\ Await(op, "shutdown", "none", NoFrame, NoMessage).at # "write"
      BY <1>3, PlainAwaitType
    <3> QED BY <1>2, <3>1
  <2> QED BY <1>1, <2>1, <2>2, <2>3, SuspendInv, TypeInvPartsNext
<1>11. CASE SyncFails(r)
  <2>1. RestTypes' /\ UNCHANGED <<writeBuf, out, done, encoded>>
    BY <1>5, <1>11 DEF SyncFails, codec
  <2>2. PICK kind \in IoKind : Finish(r, fut[r].op, FlushResult(r, kind), NoMessage)
    BY <1>11 DEF SyncFails
  <2> QED BY <1>1, <1>2, <1>3, <1>4, <2>1, <2>2, FinishInv, TypeInvPartsNext
<1>12. CASE Shutdown(r)
  <2>1. RestTypes'
    BY <1>1, <1>12 DEF Shutdown, RestTypes, ws, bounds
  <2>2. /\ Finish(r, fut[r].op, "ConnectionClosed", NoMessage)
        /\ UNCHANGED <<writeBuf, out, done, encoded>> /\ "ConnectionClosed" \in Result
    BY <1>12 DEF Shutdown, codec, Result
  <2> QED BY <1>1, <1>2, <1>3, <2>1, <2>2, FinishInv, TypeInvPartsNext
<1>13. CASE ShutdownFails(r)
  <2>1. RestTypes' /\ UNCHANGED <<writeBuf, out, done, encoded>>
    BY <1>5, <1>13 DEF ShutdownFails, codec
  <2>2. Finish(r, fut[r].op, "Io", NoMessage) /\ "Io" \in Result
    BY <1>13 DEF ShutdownFails, Result
  <2> QED BY <1>1, <1>2, <1>3, <2>1, <2>2, FinishInv, TypeInvPartsNext
<1> QED BY <1>6, <1>7, <1>8, <1>9, <1>10, <1>11, <1>12, <1>13 DEF Sending

(* What dropped futures, the transport and another implementation do.      *)
LEMMA AbandonType ==
  ASSUME TypeInv, NEW r \in Roles, Abandon(r), UNCHANGED <<writeBuf, encoded, delivered>>
  PROVE  CallInv' /\ wired' \in [Roles -> Seq(OnWire)]
<1>1. fut' = [fut EXCEPT ![r] = Idle] /\ fut' \in [Roles -> Future]
  BY IdleType DEF Abandon, TypeInv, TypeOK
<1>2. ret' \in [Roles -> Returned]
  BY DEF Abandon, TypeInv, TypeOK, NotReturned, Returned, Result
<1>3. out' \in [Roles -> Seq(Frame)] /\ done' \in [Roles -> Nat]
  BY DEF Abandon, TypeInv, TypeOK
<1>4. \A q \in Roles \ {r} : done'[q] = done[q] /\ out'[q] = out[q]
  BY DEF Abandon, TypeInv, TypeOK
<1>5. Writing'
  BY <1>1, <1>4, WritingAfterFinish DEF TypeInv, TypeOK
<1>6. wired' \in [Roles -> Seq(OnWire)]
  <2>1. wired \in [Roles -> Seq(OnWire)] /\ Torn \in OnWire
    BY FrameFacts DEF TypeInv, TypeOK
  <2>2. Append(wired[r], Torn) \in Seq(OnWire)
    BY <2>1
  <2>3. wired' = wired \/ wired' = [wired EXCEPT ![r] = Append(@, Torn)]
    BY DEF Abandon
  <2> QED BY <2>1, <2>2, <2>3
<1> QED BY <1>1, <1>2, <1>3, <1>5, <1>6 DEF CallInv, CallTypes, BufferTypes, TypeInv, TypeOK

Surroundings(r) ==
  \/ Cancel(r) \/ Drop(r) \/ Break(r)
  \/ ForeignSend(r) \/ ForeignRead(r) \/ ForeignDrop(r)

LEMMA SurroundingsType ==
  ASSUME TypeInv, NEW r \in Roles, Surroundings(r)
  PROVE  TypeInv'
<1>1. RestTypes /\ CallInv /\ TypeOK
  BY TypeInvParts DEF TypeInv
<1>2. CASE Cancel(r)
  <2>1. CallInv' /\ wired' \in [Roles -> Seq(OnWire)]
    BY <1>2, AbandonType DEF Cancel, history
  <2>2. RestTypes'
    BY <1>1, <1>2, <2>1 DEF Cancel, RestTypes, ws, history
  <2> QED BY <2>1, <2>2, TypeInvPartsNext
<1>3. CASE Drop(r)
  <2>1. CallInv' /\ wired' \in [Roles -> Seq(OnWire)]
    BY <1>3, AbandonType DEF Drop, history
  <2>2. RestTypes'
    BY <1>1, <1>3, <2>1 DEF Drop, RestTypes, ws, history, bounds
  <2> QED BY <2>1, <2>2, TypeInvPartsNext
<1>4. CASE Break(r) \/ ForeignSend(r) \/ ForeignRead(r) \/ ForeignDrop(r)
  <2>1. UNCHANGED <<writeBuf, out, done, fut, ret, encoded, delivered>>
    BY <1>4 DEF Break, ForeignSend, ForeignRead, ForeignDrop, codec, history
  <2>2. CallInv'
    BY <1>1, <2>1, CallInvUnchanged
  <2>3. CASE Break(r)
    BY <1>1, <2>2, <2>3, TypeInvPartsNext DEF Break, RestTypes, ws, history, bounds
  <2>4. CASE ForeignSend(r)
    <3>1. PICK f \in Menu[r] : wired' = [wired EXCEPT ![r] = Append(@, f)]
      BY <2>4 DEF ForeignSend
    <3>2. f \in OnWire
      BY <3>1, MenuAssumption, FrameFacts
    <3>3. wired' \in [Roles -> Seq(OnWire)]
      BY <1>1, <3>1, <3>2 DEF RestTypes
    <3>4. calls' \in [Roles -> Nat]
      BY <1>1, <2>4 DEF ForeignSend, Count, RestTypes
    <3>5. UNCHANGED <<state, inc, cfg, taken, link, dead, errored, clean, cancels>>
      BY <2>4 DEF ForeignSend, ws, history
    <3> QED BY <1>1, <2>2, <3>3, <3>4, <3>5, TypeInvPartsNext DEF RestTypes
  <2>5. CASE ForeignRead(r)
    BY <1>1, <2>2, <2>5, TypeInvPartsNext DEF ForeignRead, Take, RestTypes, ws, history, bounds
  <2>6. CASE ForeignDrop(r)
    BY <1>1, <2>2, <2>6, TypeInvPartsNext DEF ForeignDrop, RestTypes, ws, history, bounds
  <2> QED BY <1>4, <2>3, <2>4, <2>5, <2>6
<1> QED BY <1>2, <1>3, <1>4 DEF Surroundings

LEMMA NextCases ==
  ASSUME [Next]_vars
  PROVE  \/ \E r \in Roles : Receiving(r) \/ Sending(r) \/ Calling(r) \/ Surroundings(r)
         \/ UNCHANGED vars
BY DEF Next, Quiet, Surroundings

LEMMA TypeStep == TypeInv /\ [Next]_vars => TypeInv'
<1> SUFFICES ASSUME TypeInv, [Next]_vars PROVE TypeInv'
  OBVIOUS
<1>1. CASE UNCHANGED vars
  <2>1. CallInv'
    BY <1>1, TypeInvParts, CallInvUnchanged DEF vars, codec, history
  <2>2. RestTypes'
    BY <1>1, TypeInvParts DEF RestTypes, vars, ws, stream, history, bounds
  <2> QED BY <2>1, <2>2, TypeInvPartsNext
<1>2. CASE \E r \in Roles : Receiving(r) \/ Sending(r) \/ Calling(r) \/ Surroundings(r)
  BY <1>2, ReceivingType, SendingType, CallsType, SurroundingsType
<1> QED BY <1>1, <1>2, NextCases

(* Every reachable state is well typed, whatever is read from the wire,    *)
(* dropped or broken; with it, a pending write always has a frame to       *)
(* write.                                                                  *)
THEOREM TypeInvariant == Spec => []TypeInv
<1> QED BY TypeInit, TypeStep, PTL DEF Spec

(* The type invariant that TLC checks.                                     *)
THEOREM TypeCorrect == Spec => []TypeOK
<1>1. TypeInv => TypeOK
  BY DEF TypeInv
<1> QED BY <1>1, TypeInvariant, PTL
=============================================================================
