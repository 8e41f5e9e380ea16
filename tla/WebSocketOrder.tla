---------------------------- MODULE WebSocketOrder ----------------------------
(***************************************************************************)
(* Proofs about the order of what two WebSocket endpoints read and write:  *)
(* no data lost or moved between frames and messages, pongs that answer    *)
(* pings one for one, and the end of a connection without faults.          *)
(***************************************************************************)
EXTENDS CloseHandshakeProofs, SequenceFacts

-----------------------------------------------------------------------------
(* The ids of frames and of messages, one more at a time.                  *)

IdOf(f, ops) == IF f.op \in ops THEN <<f.body.id>> ELSE <<>>
IdParts(frames, ops) == [i \in 1 .. Len(frames) |-> IdOf(frames[i], ops)]

DataOf(m) == IF m.type \in DataTypes THEN m.parts ELSE <<>>
DataParts(messages) == [i \in 1 .. Len(messages) |-> DataOf(messages[i])]

LEMMA IdOfType ==
  ASSUME NEW f \in OnWire, NEW ops
  PROVE  IdOf(f, ops) \in Seq(Nat)
<1>1. f.body.id \in Nat
  BY DEF OnWire, Frame, Payload, Torn, NoFrame, Empty
<1> QED BY <1>1 DEF IdOf

LEMMA IdsOfType ==
  ASSUME NEW frames \in Seq(OnWire), NEW ops
  PROVE  /\ IdParts(frames, ops) \in Seq(Seq(Nat))
         /\ IdsOf(frames, ops) = FlattenSeq(IdParts(frames, ops))
         /\ IdsOf(frames, ops) \in Seq(Nat)
<1>1. \A i \in 1 .. Len(frames) : IdOf(frames[i], ops) \in Seq(Nat)
  BY IdOfType
<1>2. IdParts(frames, ops) \in Seq(Seq(Nat))
  BY <1>1 DEF IdParts
<1>3. IdsOf(frames, ops) = FlattenSeq(IdParts(frames, ops))
  BY DEF IdsOf, IdParts, IdOf
<1> QED BY <1>2, <1>3, FlattenType

LEMMA IdsOfAppend ==
  ASSUME NEW frames \in Seq(OnWire), NEW f \in OnWire, NEW ops
  PROVE  IdsOf(Append(frames, f), ops) = IdsOf(frames, ops) \o IdOf(f, ops)
<1>1. Append(frames, f) \in Seq(OnWire)
  OBVIOUS
<1>2. IdOf(f, ops) \in Seq(Nat)
  BY IdOfType
<1>3. IdParts(Append(frames, f), ops) = Append(IdParts(frames, ops), IdOf(f, ops))
  BY DEF IdParts
<1>4. FlattenSeq(Append(IdParts(frames, ops), IdOf(f, ops)))
        = FlattenSeq(IdParts(frames, ops)) \o IdOf(f, ops)
  BY <1>2, IdsOfType, FlattenAppend
<1> QED BY <1>1, <1>3, <1>4, IdsOfType

LEMMA IdsOfEmpty == ASSUME NEW ops PROVE IdsOf(<<>>, ops) = <<>>
<1>1. IdParts(<<>>, ops) = <<>> /\ <<>> \in Seq(OnWire)
  BY DEF IdParts
<1> QED BY <1>1, IdsOfType, FlattenEmpty

LEMMA DataOfType ==
  ASSUME NEW m \in Message
  PROVE  DataOf(m) \in Seq(Nat)
BY DEF DataOf, Message

LEMMA DataIdsOfType ==
  ASSUME NEW messages \in Seq(Message)
  PROVE  /\ DataParts(messages) \in Seq(Seq(Nat))
         /\ DataIdsOf(messages) = FlattenSeq(DataParts(messages))
         /\ DataIdsOf(messages) \in Seq(Nat)
<1>1. \A i \in 1 .. Len(messages) : DataOf(messages[i]) \in Seq(Nat)
  BY DataOfType
<1>2. DataParts(messages) \in Seq(Seq(Nat))
  BY <1>1 DEF DataParts
<1>3. DataIdsOf(messages) = FlattenSeq(DataParts(messages))
  BY DEF DataIdsOf, DataParts, DataOf
<1> QED BY <1>2, <1>3, FlattenType

LEMMA DataIdsOfAppend ==
  ASSUME NEW messages \in Seq(Message), NEW m \in Message
  PROVE  DataIdsOf(Append(messages, m)) = DataIdsOf(messages) \o DataOf(m)
<1>1. Append(messages, m) \in Seq(Message) /\ DataOf(m) \in Seq(Nat)
  BY DataOfType
<1>2. DataParts(Append(messages, m)) = Append(DataParts(messages), DataOf(m))
  BY DEF DataParts
<1>3. FlattenSeq(Append(DataParts(messages), DataOf(m)))
        = FlattenSeq(DataParts(messages)) \o DataOf(m)
  BY <1>1, DataIdsOfType, FlattenAppend
<1> QED BY <1>1, <1>2, <1>3, DataIdsOfType

LEMMA DataIdsOfEmpty == DataIdsOf(<<>>) = <<>>
<1>1. DataParts(<<>>) = <<>> /\ <<>> \in Seq(Message)
  BY DEF DataParts
<1> QED BY <1>1, DataIdsOfType, FlattenEmpty

(* What has been read stays, and grows by the frame the decoder takes.     *)
LEMMA TakenGrows ==
  ASSUME TypeOK, TypeOK', NEW r \in Roles, Grows(Peer(r)),
         taken[r] <= Len(wired[Peer(r)])
  PROVE  /\ Taken(r) \in Seq(OnWire)
         /\ taken'[r] = taken[r] => Taken(r)' = Taken(r)
         /\ taken'[r] = taken[r] + 1 /\ taken[r] + 1 \in 1 .. Len(wired[Peer(r)])
              => Taken(r)' = Append(Taken(r), wired[Peer(r)][taken[r] + 1])
<1> DEFINE w == wired[Peer(r)]
           v == wired'[Peer(r)]
           t == taken[r]
<1>1. /\ w \in Seq(OnWire) /\ v \in Seq(OnWire) /\ t \in Nat /\ t <= Len(w)
      /\ Len(w) <= Len(v) /\ \A i \in 1 .. Len(w) : v[i] = w[i]
  BY PeerFacts DEF TypeOK, Grows
<1>2. Taken(r) = SubSeq(w, 1, t) /\ Taken(r)' = SubSeq(v, 1, taken'[r])
  BY DEF Taken
<1> HIDE DEF w, v, t
<1>3. SubSeq(w, 1, t) \in Seq(OnWire) /\ SubSeq(v, 1, t) \in Seq(OnWire)
      /\ Len(SubSeq(w, 1, t)) = t /\ Len(SubSeq(v, 1, t)) = t
      /\ \A i \in 1 .. t : SubSeq(w, 1, t)[i] = w[i] /\ SubSeq(v, 1, t)[i] = v[i]
  BY <1>1
<1>4. SubSeq(v, 1, t) = SubSeq(w, 1, t)
  BY <1>1, <1>3
<1>5. ASSUME t + 1 \in 1 .. Len(w)
      PROVE  SubSeq(v, 1, t + 1) = Append(SubSeq(w, 1, t), w[t + 1])
  <2>1. SubSeq(v, 1, t + 1) \in Seq(OnWire) /\ Len(SubSeq(v, 1, t + 1)) = t + 1
        /\ \A i \in 1 .. t + 1 : SubSeq(v, 1, t + 1)[i] = v[i]
    BY <1>1, <1>5
  <2>2. w[t + 1] \in OnWire
    BY <1>1, <1>5
  <2> DEFINE a == Append(SubSeq(w, 1, t), w[t + 1])
  <2>3. a \in Seq(OnWire) /\ Len(a) = t + 1 /\ a[t + 1] = w[t + 1]
        /\ \A i \in 1 .. t : a[i] = w[i]
    BY <1>1, <1>3, <2>2, AppendFacts
  <2> HIDE DEF a
  <2>4. \A i \in 1 .. t + 1 : i \in 1 .. t \/ i = t + 1
    BY <1>1
  <2>5. \A i \in 1 .. t + 1 : SubSeq(v, 1, t + 1)[i] = a[i]
    BY <1>1, <1>5, <2>1, <2>3, <2>4
  <2>6. SubSeq(v, 1, t + 1) = a
    BY <2>1, <2>3, <2>5
  <2> QED BY <2>6 DEF a
<1> QED BY <1>2, <1>3, <1>4, <1>5 DEF w, t

-----------------------------------------------------------------------------
(* What read_message_frame does with the ids.                              *)

(* The id of a data frame goes to the message in progress, or with that    *)
(* one to the message that it completes; other frames leave it alone.      *)
KeepsIds(r, f, got) ==
  got.res = "Ok" =>
    DataOf(got.msg) \o got.inc.parts = inc[r].parts \o IdOf(f, PayloadOps)

LEMMA PartsOf ==
  /\ NoPartial.parts = <<>> /\ DataOf(NoMessage) = <<>>
  /\ \A m \in MaybePartial : m.parts \in Seq(Nat)
  /\ \A t, b : MessageOf(t, b).parts = <<b.id>>
  /\ \A m : Completed(m).parts = m.parts
  /\ \A r, m : Return(r, m).inc = inc[r] /\ Nothing(r).inc = inc[r]
<1>1. DataOf(NoMessage) = <<>>
  BY DEF DataOf, NoMessage, DataTypes
<1>2. \A m \in MaybePartial : m.parts \in Seq(Nat)
  <2>1. \A m \in Partial : m.parts \in Seq(Nat)
    BY DEF Partial
  <2>2. NoPartial.parts \in Seq(Nat)
    BY DEF NoPartial
  <2> QED BY <2>1, <2>2 DEF MaybePartial
<1>3. \A t, b : MessageOf(t, b).parts = <<b.id>>
  BY DEF MessageOf
<1>4. \A m : Completed(m).parts = m.parts
  BY DEF Completed
<1>5. \A r, m : Return(r, m).inc = inc[r] /\ Nothing(r).inc = inc[r]
  BY DEF Return, Nothing
<1>6. NoPartial.parts = <<>>
  BY DEF NoPartial
<1> QED BY <1>1, <1>2, <1>3, <1>4, <1>5, <1>6, Zenon

LEMMA AppendIsJoin ==
  ASSUME NEW s \in Seq(Nat), NEW i \in Nat
  PROVE  Append(s, i) = s \o <<i>> /\ Append(s, i) \in Seq(Nat)
OBVIOUS

LEMMA ExtendParts ==
  ASSUME NEW m \in Partial, NEW body \in Payload, NEW limit,
         Extend(m, body, limit).res = "Ok"
  PROVE  /\ Extend(m, body, limit).inc.parts = Append(m.parts, body.id)
         /\ Extend(m, body, limit).inc.type = m.type
<1>1. Grown(m, body).parts = Append(m.parts, body.id) /\ Grown(m, body).type = m.type
  BY DEF Grown, Partial
<1>2. /\ Collected(m, body).parts = Grown(m, body).parts
      /\ Collected(m, body).type = Grown(m, body).type
  <2>1. \A b : /\ [Grown(m, body) EXCEPT !.held = b].parts = Grown(m, body).parts
               /\ [Grown(m, body) EXCEPT !.held = b].type = Grown(m, body).type
    BY DEF Grown, Partial
  <2> QED BY <2>1, Zenon DEF Collected
<1>3. Extend(m, body, limit).inc \in {Grown(m, body), Collected(m, body)}
  BY DEF Extend
<1> QED BY <1>1, <1>2, <1>3

LEMMA ControlKeepsIds ==
  ASSUME TypeOK, NEW r \in Roles, NEW f \in Frame, f.op \in ControlOps
  PROVE  KeepsIds(r, f, HandleControl(r, f))
<1>1. HandleControl(r, f).msg.type \notin {"Text", "Binary"}
  BY ControlMessages
<1>2. HandleControl(r, f).inc = inc[r]
  <2>1. HandleClose(r, f.body).inc = inc[r]
    BY DEF HandleClose, DoClose, Error, Nothing
  <2>2. \A e, m, g : Error(r, e).inc = inc[r] /\ [Return(r, m) EXCEPT !.reply = g].inc = inc[r]
    BY DEF Error, Return, Nothing
  <2> QED BY <2>1, <2>2, PartsOf DEF HandleControl
<1>3. IdOf(f, PayloadOps) = <<>>
  BY DEF IdOf, PayloadOps, IsData, ControlOps
<1>4. inc[r].parts \in Seq(Nat)
  BY PartsOf DEF TypeOK
<1>5. \A s \in Seq(Nat) : <<>> \o s = s /\ s \o <<>> = s
  OBVIOUS
<1> QED BY <1>1, <1>2, <1>3, <1>4, <1>5 DEF KeepsIds, DataOf, DataTypes

LEMMA DataKeepsIds ==
  ASSUME TypeOK, NEW r \in Roles, NEW f \in Frame, f.op \notin ControlOps
  PROVE  KeepsIds(r, f, HandleData(r, f))
<1>1. f.body \in Payload /\ f.body.id \in Nat /\ inc[r] \in MaybePartial
      /\ f.op \in {"Continue", "Text", "Binary", "ReservedData"}
  BY DEF Frame, Payload, TypeOK, OpCode, DataOps
<1>2. f.op # "ReservedData" => IdOf(f, PayloadOps) = <<f.body.id>>
  BY <1>1 DEF IdOf, PayloadOps, IsData, OpCode, DataOps
<1>3. /\ \A s \in Seq(Nat) : <<>> \o s = s /\ s \o <<>> = s
      /\ <<>> \in Seq(Nat) /\ <<f.body.id>> \in Seq(Nat)
  BY <1>1
<1>4. \A e : KeepsIds(r, f, Error(r, e)) \/ e = "Ok"
  BY DEF KeepsIds, Error, Nothing
<1>5. f.op = "Continue" => KeepsIds(r, f, HandleContinue(r, f))
  <2> SUFFICES ASSUME f.op = "Continue" PROVE KeepsIds(r, f, HandleContinue(r, f))
    OBVIOUS
  <2> DEFINE ext == Extend(inc[r], f.body, cfg[r].maxMessage)
  <2>1. CASE inc[r] = NoPartial
    BY <1>4, <2>1 DEF HandleContinue
  <2>2. CASE inc[r] # NoPartial /\ ext.res # "Ok"
    <3>1. [Error(r, ext.res) EXCEPT !.inc = ext.inc].res = ext.res
      BY DEF Error, Nothing
    <3> QED BY <2>2, <3>1 DEF HandleContinue, KeepsIds
  <2>3. CASE inc[r] # NoPartial /\ ext.res = "Ok"
    <3>1. inc[r] \in Partial
      BY <1>1, <2>3, PartialFacts
    <3>2. ext.inc.parts = Append(inc[r].parts, f.body.id) /\ ext.inc.type = inc[r].type
      BY <1>1, <2>3, <3>1, ExtendParts
    <3>3. inc[r].type \in DataTypes /\ inc[r].parts \in Seq(Nat)
      BY <3>1 DEF Partial, DataTypes
    <3> HIDE DEF ext
    <3>4. ext.inc.parts = inc[r].parts \o IdOf(f, PayloadOps) /\ ext.inc.parts \in Seq(Nat)
      <4>1. IdOf(f, PayloadOps) = <<f.body.id>>
        <5>1. f.op # "ReservedData"
          OBVIOUS
        <5> QED BY <1>2, <5>1
      <4>2. Append(inc[r].parts, f.body.id) = inc[r].parts \o <<f.body.id>>
            /\ Append(inc[r].parts, f.body.id) \in Seq(Nat)
        BY <1>1, <3>3, AppendIsJoin, Zenon
      <4> QED BY <3>2, <4>1, <4>2, Zenon
    <3>5. CASE ~f.fin
      <4>1. HandleContinue(r, f) = [Nothing(r) EXCEPT !.inc = ext.inc]
        BY <2>3, <3>5 DEF HandleContinue, ext
      <4>2. /\ [Nothing(r) EXCEPT !.inc = ext.inc].inc = ext.inc
            /\ [Nothing(r) EXCEPT !.inc = ext.inc].msg = NoMessage
        BY DEF Nothing
      <4> QED BY <1>3, <3>4, <4>1, <4>2, PartsOf DEF KeepsIds
    <3>6. CASE f.fin /\ CompleteFails(ext.inc)
      <4>1. HandleContinue(r, f) = [Error(r, "Utf8") EXCEPT !.inc = NoPartial]
        BY <2>3, <3>6 DEF HandleContinue, ext
      <4>2. [Error(r, "Utf8") EXCEPT !.inc = NoPartial].res = "Utf8"
        BY DEF Error, Nothing
      <4> QED BY <4>1, <4>2 DEF KeepsIds
    <3>7. CASE f.fin /\ ~CompleteFails(ext.inc)
      <4>1. HandleContinue(r, f) = [Return(r, Completed(ext.inc)) EXCEPT !.inc = NoPartial]
        BY <2>3, <3>7 DEF HandleContinue, ext
      <4>2. /\ [Return(r, Completed(ext.inc)) EXCEPT !.inc = NoPartial].inc = NoPartial
            /\ [Return(r, Completed(ext.inc)) EXCEPT !.inc = NoPartial].msg = Completed(ext.inc)
        BY DEF Return, Nothing
      <4>3. DataOf(Completed(ext.inc)) = ext.inc.parts
        BY <3>2, <3>3 DEF DataOf, Completed
      <4>4. ext.inc.parts \o <<>> = ext.inc.parts
        BY <3>4
      <4> QED BY <3>4, <4>1, <4>2, <4>3, <4>4, PartsOf, Zenon DEF KeepsIds
    <3> QED BY <3>5, <3>6, <3>7
  <2> QED BY <2>1, <2>2, <2>3
<1>6. ASSUME f.op \in {"Text", "Binary"}, ~Interrupts(r)
      PROVE  KeepsIds(r, f, HandleWhole(r, f)) /\ KeepsIds(r, f, HandleFirst(r, f))
  <2>1. inc[r].parts = <<>> /\ IdOf(f, PayloadOps) = <<f.body.id>>
    BY <1>2, <1>6, PartsOf DEF Interrupts
  <2>2. KeepsIds(r, f, Return(r, MessageOf(f.op, f.body)))
    <3>1. DataOf(MessageOf(f.op, f.body)) = <<f.body.id>>
      BY <1>6 DEF DataOf, DataTypes, MessageOf
    <3>2. /\ Return(r, MessageOf(f.op, f.body)).msg = MessageOf(f.op, f.body)
          /\ Return(r, MessageOf(f.op, f.body)).inc = inc[r]
      BY DEF Return, Nothing
    <3>3. <<f.body.id>> \o <<>> = <<>> \o <<f.body.id>>
      BY <1>3
    <3> QED BY <2>1, <3>1, <3>2, <3>3, Zenon DEF KeepsIds
  <2>3. KeepsIds(r, f, HandleFirst(r, f))
    <3> DEFINE ext == Extend(NewPartial(f.op), f.body, cfg[r].maxMessage)
    <3>1. CASE ext.res # "Ok"
      BY <1>4, <3>1 DEF HandleFirst
    <3>2. CASE ext.res = "Ok"
      <4>1. NewPartial(f.op) \in Partial /\ NewPartial(f.op).parts = <<>>
        BY <1>6, NewPartialType DEF NewPartial
      <4>2. ext.inc.parts = Append(<<>>, f.body.id)
        BY <1>1, <3>2, <4>1, ExtendParts
      <4>3. ext.inc.parts = <<f.body.id>>
        BY <1>1, <4>2
      <4>4. HandleFirst(r, f) = [Nothing(r) EXCEPT !.inc = ext.inc]
        BY <3>2 DEF HandleFirst
      <4>5. /\ [Nothing(r) EXCEPT !.inc = ext.inc].inc = ext.inc
            /\ [Nothing(r) EXCEPT !.inc = ext.inc].msg = NoMessage
        BY DEF Nothing
      <4> HIDE DEF ext
      <4> QED BY <1>3, <2>1, <4>3, <4>4, <4>5, PartsOf DEF KeepsIds
    <3> QED BY <3>1, <3>2
  <2> QED BY <1>4, <2>2, <2>3 DEF HandleWhole
<1> QED BY <1>1, <1>4, <1>5, <1>6 DEF HandleData

LEMMA FrameKeepsIds ==
  ASSUME TypeOK, NEW r \in Roles, NEW f \in Frame
  PROVE  KeepsIds(r, f, ReadMessageFrame(r, f))
<1>1. \A e : KeepsIds(r, f, Error(r, e)) \/ e = "Ok"
  BY DEF KeepsIds, Error, Nothing
<1> QED BY <1>1, ControlKeepsIds, DataKeepsIds DEF ReadMessageFrame

-----------------------------------------------------------------------------
(* Steps.                                                                  *)

SameReading(r) ==
  inc'[r] = inc[r] /\ clean'[r] = clean[r] /\ errored'[r] = errored[r]

LEMMA ReadingIsLocal ==
  ASSUME TypeOK, NEW q \in Roles, NEW r \in Roles, q # r, Step(q)
  PROVE  SameReading(r)
<1>1. \/ inc' = inc
      \/ \E v : inc' = [inc EXCEPT ![q] = v]
  BY DEF Step, Calling, CallRead, CallWrite, CallClose, CallFlush, SetConfig, Receiving,
     DecodeRejects, FrameFails, FrameAnswered, FrameDelivered, FrameAbsorbed, NextEnd,
     NextFails, Handle, Sending, WriteSome, WriteFails, SyncThenEncode, SyncThenReturn,
     SyncThenShutdown, SyncFails, Shutdown, ShutdownFails, Surroundings, Cancel, Drop,
     Break, ForeignSend, ForeignRead, ForeignDrop, ws
<1>2. clean' \in {clean, [clean EXCEPT ![q] = FALSE]}
  BY DEF Step, Calling, CallRead, CallWrite, CallClose, CallFlush, SetConfig, Receiving,
     DecodeRejects, FrameFails, FrameAnswered, FrameDelivered, FrameAbsorbed, NextEnd,
     NextFails, Sending, WriteSome, WriteFails, SyncThenEncode, SyncThenReturn,
     SyncThenShutdown, SyncFails, Shutdown, ShutdownFails, Surroundings, Cancel, Drop,
     Break, ForeignSend, ForeignRead, ForeignDrop, history
<1>3. errored' \in {errored, [errored EXCEPT ![q] = TRUE]}
  BY DEF Step, Calling, CallRead, CallWrite, CallClose, CallFlush, SetConfig, Receiving,
     DecodeRejects, FrameFails, FrameAnswered, FrameDelivered, FrameAbsorbed, NextEnd,
     NextFails, Handle, Sending, WriteSome, WriteFails, SyncThenEncode, SyncThenReturn,
     SyncThenShutdown, SyncFails, Shutdown, ShutdownFails, Surroundings, Cancel, Drop,
     Break, ForeignSend, ForeignRead, ForeignDrop, stream
<1>4. inc'[r] = inc[r]
  BY <1>1 DEF TypeOK
<1>5. clean'[r] = clean[r] /\ errored'[r] = errored[r]
  BY <1>2, <1>3 DEF TypeOK
<1> QED BY <1>4, <1>5 DEF SameReading

(* Nothing is ever clean again.                                            *)
LEMMA CleanFalls ==
  ASSUME TypeOK, NEW r \in Roles, Step(r), clean'[r]
  PROVE  clean[r]
<1>1. clean' \in {clean, [clean EXCEPT ![r] = FALSE]}
  BY DEF Step, Calling, CallRead, CallWrite, CallClose, CallFlush, SetConfig, Receiving,
     DecodeRejects, FrameFails, FrameAnswered, FrameDelivered, FrameAbsorbed, NextEnd,
     NextFails, Sending, WriteSome, WriteFails, SyncThenEncode, SyncThenReturn,
     SyncThenShutdown, SyncFails, Shutdown, ShutdownFails, Surroundings, Cancel, Drop,
     Break, ForeignSend, ForeignRead, ForeignDrop, history
<1> QED BY <1>1 DEF TypeOK

(* A step leaves the message in progress alone, and hands out at most a    *)
(* control message; or it refuses a frame; or it takes one.                *)
Rests(r) ==
  /\ inc'[r] = inc[r] /\ taken'[r] = taken[r]
  /\ DataIdsOf(delivered'[r]) = DataIdsOf(delivered[r])
Accepts(r) ==
  \E f \in Arriving(r) : LET got == ReadMessageFrame(r, f) IN
    /\ got.res = "Ok" /\ inc'[r] = got.inc /\ taken'[r] = taken[r] + 1
    /\ DataIdsOf(delivered'[r]) = DataIdsOf(delivered[r]) \o DataOf(got.msg)

LEMMA NoDataHandedOut ==
  ASSUME NEW s \in Seq(Message), NEW m \in Message, m.type \notin DataTypes
  PROVE  DataIdsOf(Append(s, m)) = DataIdsOf(s)
<1>1. DataIdsOf(Append(s, m)) = DataIdsOf(s) \o DataOf(m) /\ DataIdsOf(s) \in Seq(Nat)
  BY DataIdsOfAppend, DataIdsOfType
<1>2. DataOf(m) = <<>>
  BY DEF DataOf
<1>3. DataIdsOf(s) \o <<>> = DataIdsOf(s)
  BY <1>1
<1> QED BY <1>1, <1>2, <1>3, Zenon

LEMMA DataStep ==
  ASSUME TypeOK, NEW r \in Roles, r \notin Foreign, DeliverInv(r), Step(r)
  PROVE  Rests(r) \/ ~clean'[r] \/ Accepts(r)
<1>0. ASSUME UNCHANGED <<inc, taken, delivered>> PROVE Rests(r)
  BY <1>0 DEF Rests
<1>1. CASE Calling(r)
  <2>1. UNCHANGED <<inc, taken>>
    BY <1>1 DEF Calling, CallRead, CallWrite, CallClose, CallFlush, SetConfig, ws, stream
  <2>2. delivered' = delivered
    BY <1>1, WriteFrameDelivers, FlushAllDelivers, FinishDelivers DEF Calling, CallRead,
       CallWrite, CallClose, CallFlush, SetConfig, Suspend, history
  <2> QED BY <1>0, <2>1, <2>2
<1>2. CASE DecodeRejects(r) \/ FrameFails(r)
  BY <1>2 DEF DecodeRejects, FrameFails, TypeOK
<1>3. CASE NextEnd(r) \/ NextFails(r)
  BY <1>0, <1>3, FinishDelivers DEF NextEnd, NextFails, ws, stream
<1>4. CASE FrameAnswered(r) \/ FrameDelivered(r) \/ FrameAbsorbed(r)
  <2>1. PICK f \in Arriving(r) : LET got == ReadMessageFrame(r, f) IN
          /\ got.res = "Ok" /\ Handle(r, got)
          /\ \/ got.reply # NoFrame /\ WriteFrame(r, "read", got.reply, got.msg)
             \/ got.msg # NoMessage /\ Finish(r, "read", "Ok", got.msg)
             \/ got.msg = NoMessage /\ delivered' = delivered
    BY <1>4 DEF FrameAnswered, FrameDelivered, FrameAbsorbed, history
  <2> DEFINE got == ReadMessageFrame(r, f)
  <2>2. got \in Outcome /\ Sound(r, got)
    BY ArrivingFacts, ReadMessageFrameType, OutcomeIsSound
  <2>3. inc'[r] = got.inc /\ taken'[r] = taken[r] + 1 /\ got.msg \in MaybeMessage
    BY <2>1, <2>2 DEF Handle, Take, TypeOK, Outcome
  <2> HIDE DEF got
  <2>4. delivered[r] \in Seq(Message)
    BY DEF TypeOK
  <2>5. ASSUME DataOf(got.msg) = <<>>, delivered' = delivered
        PROVE  DataIdsOf(delivered'[r]) = DataIdsOf(delivered[r]) \o DataOf(got.msg)
    <3>1. DataIdsOf(delivered[r]) \o <<>> = DataIdsOf(delivered[r])
      BY <2>4, DataIdsOfType
    <3> QED BY <2>5, <3>1, Zenon
  <2>6. CASE got.reply # NoFrame /\ WriteFrame(r, "read", got.reply, got.msg)
    <3>1. delivered' = delivered
      BY <2>6, WriteFrameDelivers
    <3>2. DataOf(got.msg) = <<>>
      BY <2>2, <2>6 DEF Sound, DataOf, DataTypes
    <3> QED BY <2>1, <2>3, <2>5, <3>1, <3>2 DEF Accepts, got
  <2>7. CASE got.msg # NoMessage /\ Finish(r, "read", "Ok", got.msg)
    <3>1. got.msg \in Message /\ delivered'[r] = Append(delivered[r], got.msg)
      BY <2>3, <2>7, MessageFacts, FinishDelivers DEF TypeOK
    <3>2. DataIdsOf(delivered'[r]) = DataIdsOf(delivered[r]) \o DataOf(got.msg)
      BY <2>4, <3>1, DataIdsOfAppend
    <3> QED BY <2>1, <2>3, <3>2 DEF Accepts, got
  <2>8. CASE got.msg = NoMessage /\ delivered' = delivered
    BY <2>1, <2>3, <2>5, <2>8, PartsOf DEF Accepts, got
  <2> QED BY <2>1, <2>6, <2>7, <2>8 DEF got
<1>5. CASE SyncThenReturn(r)
  <2>1. UNCHANGED <<inc, taken>> /\ Finish(r, fut[r].op, "Ok", fut[r].msg)
    BY <1>5 DEF SyncThenReturn, ws, stream
  <2>2. CASE fut[r].msg = NoMessage
    BY <1>0, <2>1, <2>2, FinishDelivers
  <2>3. CASE fut[r].msg # NoMessage
    <3>1. fut[r].msg \in Message /\ delivered[r] \in Seq(Message)
      BY <2>3, MessageFacts DEF TypeOK, Future
    <3>2. delivered'[r] = Append(delivered[r], fut[r].msg)
      BY <2>1, <2>3, FinishDelivers DEF TypeOK
    <3>3. fut[r].msg.type \notin DataTypes
      BY DEF DeliverInv, DataTypes
    <3> QED BY <2>1, <3>1, <3>2, <3>3, NoDataHandedOut DEF Rests
  <2> QED BY <2>2, <2>3
<1>6. CASE Sending(r) /\ ~SyncThenReturn(r)
  <2>1. UNCHANGED <<inc, taken>>
    BY <1>6 DEF Sending, WriteSome, WriteFails, SyncThenEncode, SyncThenShutdown,
       SyncFails, Shutdown, ShutdownFails, ws, stream
  <2>2. delivered' = delivered
    BY <1>6, EncodeDelivers, FinishDelivers DEF Sending, WriteSome, WriteFails,
       SyncThenEncode, SyncThenShutdown, SyncFails, Shutdown, ShutdownFails, Suspend, history
  <2> QED BY <1>0, <2>1, <2>2
<1>7. CASE Surroundings(r)
  <2>1. UNCHANGED <<inc, taken, delivered>>
    BY <1>7 DEF Surroundings, Cancel, Drop, Break, ForeignSend, ForeignRead, ForeignDrop,
       ws, history
  <2> QED BY <1>0, <2>1
<1> QED BY <1>1, <1>2, <1>3, <1>4, <1>5, <1>6, <1>7 DEF Step, Receiving

-----------------------------------------------------------------------------
(* The data, in order.                                                     *)

DataInv(r) ==
  clean[r] /\ Intact(Peer(r)) =>
    DataIdsOf(delivered[r]) \o inc[r].parts = IdsOf(Taken(r), PayloadOps)

LEMMA JoinIsAssociative ==
  ASSUME NEW a \in Seq(Nat), NEW b \in Seq(Nat), NEW c \in Seq(Nat)
  PROVE  (a \o b) \o c = a \o (b \o c)
OBVIOUS

LEMMA DataOwnStep ==
  ASSUME TypeInv, TypeInv', NEW r \in Roles, r \notin Foreign, DeliverInv(r), SeenInv(r),
         DataInv(r), [Next]_vars, Step(r)
  PROVE  DataInv(r)'
<1> SUFFICES ASSUME clean'[r], Intact(Peer(r))'
             PROVE  DataIdsOf(delivered'[r]) \o inc'[r].parts = IdsOf(Taken(r)', PayloadOps)
  BY DEF DataInv
<1> DEFINE ids == DataIdsOf(delivered[r])
           parts == inc[r].parts
           w == wired[Peer(r)]
<1>0. TypeOK /\ TypeOK' /\ Grows(Peer(r))
  BY PeerFacts, WiredGrows DEF TypeInv
<1>1. Rests(r) \/ Accepts(r)
  BY <1>0, DataStep
<1>2. clean[r] /\ Intact(Peer(r))
  <2>1. taken[r] <= taken'[r]
    BY <1>0, <1>1 DEF Rests, Accepts, TypeOK
  <2> QED BY <1>0, <2>1, CleanFalls, SeenStays
<1>3. ids \o parts = IdsOf(Taken(r), PayloadOps)
  BY <1>2 DEF DataInv
<1>4. taken[r] <= Len(w)
  BY DEF SeenInv
<1>5. CASE Rests(r)
  <2>1. Taken(r)' = Taken(r)
    BY <1>0, <1>4, <1>5, TakenGrows DEF Rests
  <2> QED BY <1>3, <1>5, <2>1, Zenon DEF Rests
<1>6. CASE Accepts(r)
  <2>1. PICK f \in Arriving(r) : LET got == ReadMessageFrame(r, f) IN
          /\ got.res = "Ok" /\ inc'[r] = got.inc /\ taken'[r] = taken[r] + 1
          /\ DataIdsOf(delivered'[r]) = ids \o DataOf(got.msg)
    BY <1>6 DEF Accepts
  <2> DEFINE got == ReadMessageFrame(r, f)
             id == IdOf(f, PayloadOps)
  <2>2. f \in Frame /\ f \in OnWire /\ f = w[taken[r] + 1] /\ taken[r] + 1 \in 1 .. Len(w)
    BY <1>0, <1>2, ArrivingFacts, FrameFacts
  <2>3. Taken(r)' = Append(Taken(r), f) /\ Taken(r) \in Seq(OnWire)
    BY <1>0, <1>4, <2>1, <2>2, TakenGrows
  <2>4. IdsOf(Taken(r)', PayloadOps) = IdsOf(Taken(r), PayloadOps) \o id
    BY <2>2, <2>3, IdsOfAppend
  <2>5. DataOf(got.msg) \o got.inc.parts = parts \o id
    BY <1>0, <2>1, <2>2, FrameKeepsIds DEF KeepsIds
  <2>6. /\ ids \in Seq(Nat) /\ parts \in Seq(Nat) /\ id \in Seq(Nat)
        /\ DataOf(got.msg) \in Seq(Nat) /\ got.inc.parts \in Seq(Nat)
    <3>1. got.msg \in MaybeMessage /\ got.inc \in MaybePartial
      BY <1>0, <2>2, ReadMessageFrameType DEF Outcome
    <3>2. ids \in Seq(Nat) /\ id \in Seq(Nat)
      BY <1>0, <2>2, DataIdsOfType, IdOfType DEF TypeOK
    <3>3. inc[r] \in MaybePartial
      BY <1>0 DEF TypeOK
    <3>4. parts \in Seq(Nat) /\ got.inc.parts \in Seq(Nat)
      BY <3>1, <3>3, PartsOf
    <3>5. DataOf(got.msg) \in Seq(Nat)
      <4>1. <<>> \in Seq(Nat)
        OBVIOUS
      <4> QED BY <3>1, <4>1, DataOfType, PartsOf DEF MaybeMessage
    <3> QED BY <3>2, <3>4, <3>5
  <2> HIDE DEF ids, parts, got, id
  <2>7. (ids \o DataOf(got.msg)) \o got.inc.parts = ids \o (DataOf(got.msg) \o got.inc.parts)
        /\ (ids \o parts) \o id = ids \o (parts \o id)
    BY <2>6, JoinIsAssociative
  <2>8. DataIdsOf(delivered'[r]) = ids \o DataOf(got.msg) /\ inc'[r].parts = got.inc.parts
    BY <2>1 DEF got
  <2> QED BY <1>3, <2>4, <2>5, <2>7, <2>8, Zenon
<1> QED BY <1>1, <1>5, <1>6

LEMMA DataOtherStep ==
  ASSUME TypeInv, TypeInv', NEW r \in Roles, SeenInv(r), DataInv(r), [Next]_vars,
         taken'[r] = taken[r], inc'[r] = inc[r], clean'[r] = clean[r],
         delivered'[r] = delivered[r]
  PROVE  DataInv(r)'
<1> SUFFICES ASSUME clean'[r], Intact(Peer(r))'
             PROVE  DataIdsOf(delivered'[r]) \o inc'[r].parts = IdsOf(Taken(r)', PayloadOps)
  BY DEF DataInv
<1>1. TypeOK /\ TypeOK' /\ Grows(Peer(r))
  BY PeerFacts, WiredGrows DEF TypeInv
<1>0. taken[r] <= taken'[r]
  BY <1>1 DEF TypeOK
<1>2. Intact(Peer(r))
  BY <1>0, <1>1, SeenStays
<1>3. Taken(r)' = Taken(r)
  BY <1>1, TakenGrows DEF SeenInv
<1>4. DataIdsOf(delivered[r]) \o inc[r].parts = IdsOf(Taken(r), PayloadOps)
  BY <1>2 DEF DataInv
<1>5. DataIdsOf(delivered'[r]) = DataIdsOf(delivered[r]) /\ inc'[r].parts = inc[r].parts
  OBVIOUS
<1> QED BY <1>3, <1>4, <1>5, Zenon

DataInvAll == \A r \in Ours : DataInv(r)

(* Until a frame is refused, the payloads of the data frames read are      *)
(* those of the messages handed out and of the one in progress, in order:  *)
(* fragments are joined, interleaved control frames and flushes lose none. *)
THEOREM DataInOrderHolds == Spec => []DataInOrder
<1>1. Init => DataInvAll
  <2> SUFFICES ASSUME Init, NEW r \in Ours PROVE DataInv(r)
    BY DEF DataInvAll
  <2>1. /\ r \in Roles /\ delivered[r] = <<>> /\ inc[r].parts = <<>>
        /\ wired[Peer(r)] = <<>> /\ taken[r] = 0
    BY PeerFacts, PartsOf DEF Init, Ours
  <2>2. Taken(r) = <<>>
    BY <2>1 DEF Taken
  <2>3. <<>> \o <<>> = <<>>
    OBVIOUS
  <2> QED BY <2>1, <2>2, <2>3, IdsOfEmpty, DataIdsOfEmpty, Zenon DEF DataInv
<1>2. TypeInv /\ TypeInv' /\ SeenInvAll /\ DeliverInvAll /\ DataInvAll /\ [Next]_vars
        => DataInvAll'
  <2> SUFFICES ASSUME TypeInv, TypeInv', SeenInvAll, DeliverInvAll, DataInvAll, [Next]_vars,
                      NEW r \in Ours
               PROVE  DataInv(r)'
    BY DEF DataInvAll
  <2>1. r \in Roles /\ r \notin Foreign /\ DataInv(r) /\ SeenInv(r) /\ DeliverInv(r)
    BY DEF Ours, DataInvAll, SeenInvAll, DeliverInvAll
  <2>2. CASE UNCHANGED vars
    BY <2>1, <2>2, DataOtherStep DEF vars, ws, stream, history
  <2>3. ASSUME NEW q \in Roles, Step(q)
        PROVE  DataInv(r)'
    <3>1. CASE q = r
      BY <2>1, <2>3, <3>1, DataOwnStep
    <3>2. CASE q # r
      <4>1. Same(r) /\ delivered'[r] = delivered[r] /\ SameReading(r)
        BY <2>1, <2>3, <3>2, StepIsLocal, DeliveredLocal, ReadingIsLocal DEF TypeInv
      <4> QED BY <2>1, <4>1, DataOtherStep DEF Same, SameStream, SameReading
    <3> QED BY <3>1, <3>2
  <2> QED BY <2>2, <2>3, NextCases DEF Step
<1>3. TypeInv /\ [Next]_vars => TypeInv'
  BY TypeStep
<1>4. DataInvAll => DataInOrder
  BY DEF DataInvAll, DataInv, DataInOrder
<1> QED BY <1>1, <1>2, <1>3, <1>4, TypeInvariant, SeenAlways, DeliverAlways, PTL DEF Spec

-----------------------------------------------------------------------------
(* Prefixes and subsequences.                                              *)

Leads(s, t) ==
  Len(s) <= Len(t) /\ \A i \in 1 .. Len(s) : s[i] = t[i]

LEMMA LeadsJoin ==
  ASSUME NEW s \in Seq(Nat), NEW x \in Seq(Nat)
  PROVE  Leads(s, s \o x) /\ Leads(s, s)
<1>1. Len(s \o x) = Len(s) + Len(x) /\ Len(s) \in Nat /\ Len(x) \in Nat
      /\ \A i \in 1 .. Len(s) : (s \o x)[i] = s[i]
  OBVIOUS
<1> QED BY <1>1 DEF Leads

LEMMA LeadsOn ==
  ASSUME NEW s \in Seq(Nat), NEW t \in Seq(Nat), NEW u \in Seq(Nat),
         Leads(s, t), Leads(t, u)
  PROVE  Leads(s, u)
<1>1. Len(s) \in Nat /\ Len(t) \in Nat /\ Len(u) \in Nat
      /\ \A i \in 1 .. Len(s) : i \in 1 .. Len(t)
  BY DEF Leads
<1> QED BY <1>1 DEF Leads

LEMMA LeadsIsPrefix ==
  ASSUME NEW s \in Seq(Nat), NEW t \in Seq(Nat), Leads(s, t)
  PROVE  IsPrefix(s, t)
<1> DEFINE n == Len(s)
<1>1. n \in Nat /\ n <= Len(s) /\ n <= Len(t) /\ Len(t) \in Nat
  BY DEF Leads
<1>2. /\ SubSeq(s, 1, n) \in Seq(Nat) /\ Len(SubSeq(s, 1, n)) = n
      /\ SubSeq(t, 1, n) \in Seq(Nat) /\ Len(SubSeq(t, 1, n)) = n
      /\ \A i \in 1 .. n : SubSeq(s, 1, n)[i] = s[i] /\ SubSeq(t, 1, n)[i] = t[i]
  <2> HIDE DEF n
  <2> QED BY <1>1
<1>3. \A i \in 1 .. n : s[i] = t[i]
  BY DEF Leads
<1> HIDE DEF n
<1>4. SubSeq(s, 1, n) = SubSeq(t, 1, n)
  BY <1>2, <1>3
<1> QED BY <1>1, <1>4 DEF IsPrefix, n

LEMMA NothingPicked == Picked(<<>>, <<>>) /\ Leads(<<>>, <<>>)
<1> DEFINE none == <<>>
           at == [i \in 1 .. Len(none) |-> i]
<1>1. Len(none) = 0
  OBVIOUS
<1> HIDE DEF none
<1>2. at \in [1 .. Len(none) -> 1 .. Len(none)] /\ \A i : i \notin 1 .. Len(none)
  BY <1>1
<1> HIDE DEF at
<1>3. Picked(none, none)
  BY <1>2 DEF Picked
<1>4. Leads(none, none)
  BY <1>1 DEF Leads
<1> QED BY <1>3, <1>4 DEF none

LEMMA PickedIn ==
  ASSUME NEW t \in Seq(Nat), NEW s \in Seq(Nat), NEW u \in Seq(Nat),
         Picked(t, s), Leads(s, u)
  PROVE  Picked(t, u)
<1>1. PICK at \in [1 .. Len(t) -> 1 .. Len(s)] :
        /\ \A i \in 1 .. Len(t) : t[i] = s[at[i]]
        /\ \A i, j \in 1 .. Len(t) : i < j => at[i] < at[j]
  BY DEF Picked
<1>2. Len(s) <= Len(u) /\ Len(s) \in Nat /\ Len(u) \in Nat
      /\ \A i \in 1 .. Len(s) : u[i] = s[i] /\ i \in 1 .. Len(u)
  BY DEF Leads
<1>3. at \in [1 .. Len(t) -> 1 .. Len(u)] /\ \A i \in 1 .. Len(t) : t[i] = u[at[i]]
  BY <1>1, <1>2
<1> QED BY <1>1, <1>3 DEF Picked

LEMMA PickedFewer ==
  ASSUME NEW t \in Seq(Nat), NEW s \in Seq(Nat), NEW v \in Seq(Nat),
         Picked(t, s), Leads(v, t)
  PROVE  Picked(v, s)
<1>1. PICK at \in [1 .. Len(t) -> 1 .. Len(s)] :
        /\ \A i \in 1 .. Len(t) : t[i] = s[at[i]]
        /\ \A i, j \in 1 .. Len(t) : i < j => at[i] < at[j]
  BY DEF Picked
<1>2. \A i \in 1 .. Len(v) : v[i] = t[i] /\ i \in 1 .. Len(t)
  <2>1. Len(v) <= Len(t) /\ Len(v) \in Nat /\ Len(t) \in Nat
    BY DEF Leads
  <2> QED BY <2>1 DEF Leads
<1> DEFINE to == [i \in 1 .. Len(v) |-> at[i]]
<1>3. to \in [1 .. Len(v) -> 1 .. Len(s)] /\ \A i \in 1 .. Len(v) : to[i] = at[i]
  BY <1>2
<1> HIDE DEF to
<1>4. /\ \A i \in 1 .. Len(v) : v[i] = s[to[i]]
      /\ \A i, j \in 1 .. Len(v) : i < j => to[i] < to[j]
  BY <1>1, <1>2, <1>3
<1> QED BY <1>3, <1>4 DEF Picked

LEMMA PickedBoth ==
  ASSUME NEW t \in Seq(Nat), NEW s \in Seq(Nat), NEW x \in Nat, Picked(t, s)
  PROVE  Picked(t \o <<x>>, s \o <<x>>)
<1> DEFINE v == t \o <<x>>
           u == s \o <<x>>
           m == Len(t)
           n == Len(s)
<1>1. /\ m \in Nat /\ n \in Nat /\ Len(v) = m + 1 /\ Len(u) = n + 1
      /\ \A i \in 1 .. m : v[i] = t[i]
      /\ \A i \in 1 .. n : u[i] = s[i]
      /\ v[m + 1] = x /\ u[n + 1] = x
  OBVIOUS
<1>2. PICK at \in [1 .. m -> 1 .. n] :
        /\ \A i \in 1 .. m : t[i] = s[at[i]]
        /\ \A i, j \in 1 .. m : i < j => at[i] < at[j]
  BY DEF Picked
<1> HIDE DEF u, v, m, n
<1> DEFINE to == [i \in 1 .. m + 1 |-> IF i = m + 1 THEN n + 1 ELSE at[i]]
<1>3. \A i \in 1 .. m + 1 : i \in 1 .. m \/ i = m + 1
  BY <1>1
<1>4. /\ \A i \in 1 .. m : to[i] = at[i] /\ at[i] \in 1 .. n
      /\ to[m + 1] = n + 1
  BY <1>1
<1>5. to \in [1 .. m + 1 -> 1 .. n + 1]
  BY <1>1, <1>2, <1>3
<1> HIDE DEF to
<1>6. \A i \in 1 .. m + 1 : v[i] = u[to[i]]
  BY <1>1, <1>2, <1>3, <1>4
<1>7. ASSUME NEW i \in 1 .. m + 1, NEW j \in 1 .. m + 1, i < j
      PROVE  to[i] < to[j]
  <2>1. i \in 1 .. m
    BY <1>1, <1>7
  <2>2. CASE j \in 1 .. m
    BY <1>2, <1>4, <1>7, <2>1, <2>2
  <2>3. CASE j = m + 1
    BY <1>1, <1>4, <2>1, <2>3
  <2> QED BY <1>3, <2>2, <2>3
<1>8. Picked(v, u)
  BY <1>1, <1>5, <1>6, <1>7 DEF Picked
<1> QED BY <1>8 DEF u, v

-----------------------------------------------------------------------------
(* Answers: the pongs encoded and the one that waits for room.             *)

Pings == {"Ping"}
Pongs == {"Pong"}
Waiting(r) == IF fut[r].then = "encode" THEN IdOf(fut[r].frame, Pongs) ELSE <<>>
Answers(r) == IdsOf(encoded[r], Pongs) \o Waiting(r)

(* Only a future that flushes keeps a frame to encode.                     *)
EncodesLater(r) == fut[r].then = "encode" => fut[r].at \in {"write", "sync"}

LEMMA FramesOnWire ==
  ASSUME NEW frames \in Seq(Frame)
  PROVE  frames \in Seq(OnWire)
BY FrameFacts

LEMMA AnswersType ==
  ASSUME TypeOK, NEW r \in Roles
  PROVE  /\ IdsOf(encoded[r], Pongs) \in Seq(Nat) /\ Waiting(r) \in Seq(Nat)
         /\ Answers(r) \in Seq(Nat)
         /\ Waiting(r) = <<>> => Answers(r) = IdsOf(encoded[r], Pongs)
<1>1. IdsOf(encoded[r], Pongs) \in Seq(Nat)
  BY FramesOnWire, IdsOfType DEF TypeOK
<1>2. Waiting(r) \in Seq(Nat)
  <2>1. fut[r].then = "encode" => fut[r].frame \in OnWire
    BY FrameFacts DEF TypeOK, Future
  <2>2. <<>> \in Seq(Nat)
    OBVIOUS
  <2> QED BY <2>1, <2>2, IdOfType DEF Waiting
<1>3. \A s \in Seq(Nat) : s \o <<>> = s
  OBVIOUS
<1>4. \A s, u \in Seq(Nat) : s \o u \in Seq(Nat)
  OBVIOUS
<1> QED BY <1>1, <1>2, <1>3, <1>4, Zenon DEF Answers

LEMMA NoneWaits ==
  ASSUME NEW frames \in Seq(Frame)
  PROVE  IdsOf(frames, Pongs) \o <<>> = IdsOf(frames, Pongs)
<1>1. IdsOf(frames, Pongs) \in Seq(Nat)
  BY FramesOnWire, IdsOfType
<1> QED BY <1>1

LEMMA FinishAnswers ==
  ASSUME TypeOK, TypeOK', NEW r \in Roles, encoded'[r] = encoded[r],
         fut'[r].then # "encode"
  PROVE  Answers(r)' = IdsOf(encoded[r], Pongs) /\ EncodesLater(r)'
<1>1. Waiting(r)' = <<>>
  BY DEF Waiting
<1>2. IdsOf(encoded'[r], Pongs) \o <<>> = IdsOf(encoded'[r], Pongs)
  BY NoneWaits DEF TypeOK
<1>3. Answers(r)' = IdsOf(encoded'[r], Pongs)
  BY <1>1, <1>2, Zenon DEF Answers
<1> QED BY <1>3, Zenon DEF EncodesLater

LEMMA EncodeAnswers ==
  ASSUME TypeOK, TypeOK', NEW r \in Roles, NEW op, NEW buf, NEW f \in Frame, NEW msg,
         Encode(r, op, buf, f, msg)
  PROVE  /\ Answers(r)' = IdsOf(encoded[r], Pongs) \o IdOf(f, Pongs)
         /\ EncodesLater(r)'
<1>1. encoded'[r] = Append(encoded[r], f)
  BY DEF TypeOK, Encode
<1>2. fut'[r].then # "encode"
  <2>1. CASE op = "write"
    BY <2>1, FinishFut DEF Encode
  <2>2. CASE op # "write"
    BY <2>2, SuspendFut, AwaitThen DEF Encode, Submit
  <2> QED BY <2>1, <2>2
<1>3. Answers(r)' = IdsOf(encoded'[r], Pongs)
  <2>1. Waiting(r)' = <<>>
    BY <1>2 DEF Waiting
  <2>2. IdsOf(encoded'[r], Pongs) \o <<>> = IdsOf(encoded'[r], Pongs)
    BY NoneWaits DEF TypeOK
  <2> QED BY <2>1, <2>2, Zenon DEF Answers
<1>4. IdsOf(Append(encoded[r], f), Pongs) = IdsOf(encoded[r], Pongs) \o IdOf(f, Pongs)
  BY FramesOnWire, FrameFacts, IdsOfAppend DEF TypeOK
<1> QED BY <1>1, <1>2, <1>3, <1>4, Zenon DEF EncodesLater

LEMMA WriteFrameAnswers ==
  ASSUME TypeOK, TypeOK', NEW r \in Roles, NEW op, NEW f \in Frame, NEW msg,
         WriteFrame(r, op, f, msg)
  PROVE  /\ Answers(r)' = IdsOf(encoded[r], Pongs) \o IdOf(f, Pongs)
         /\ EncodesLater(r)'
<1>1. Masked(r, f) \in Frame /\ IdOf(Masked(r, f), Pongs) = IdOf(f, Pongs)
  <2>1. Masked(r, f).op = f.op /\ Masked(r, f).body = f.body
    BY DEF Masked, Frame
  <2> QED BY <2>1, MaskedType DEF IdOf
<1>2. CASE MustFlush(r)
  <2>1. /\ fut'[r] = Await(op, "write", "encode", Masked(r, f), msg)
        /\ encoded' = encoded
    BY <1>2, SuspendFut DEF WriteFrame, Submit
  <2>2. fut'[r].then = "encode" /\ fut'[r].at = "write" /\ fut'[r].frame = Masked(r, f)
    BY <2>1, AwaitThen
  <2>3. Waiting(r)' = IdOf(f, Pongs)
    BY <1>1, <2>2 DEF Waiting
  <2> QED BY <2>1, <2>2, <2>3 DEF Answers, EncodesLater
<1>3. CASE ~MustFlush(r)
  <2>1. Encode(r, op, writeBuf[r], Masked(r, f), msg)
    BY <1>3 DEF WriteFrame
  <2>2. /\ Answers(r)' = IdsOf(encoded[r], Pongs) \o IdOf(Masked(r, f), Pongs)
        /\ EncodesLater(r)'
    BY <1>1, <2>1, EncodeAnswers
  <2> QED BY <1>1, <2>2, Zenon
<1> QED BY <1>2, <1>3

LEMMA FlushAllAnswers ==
  ASSUME TypeOK, TypeOK', NEW r \in Roles, NEW op, FlushAll(r, op)
  PROVE  Answers(r)' = IdsOf(encoded[r], Pongs) /\ EncodesLater(r)'
<1>1. \/ Finish(r, op, "Ok", NoMessage)
      \/ \E at, then : /\ then # "encode"
                       /\ Suspend(r, Await(op, at, then, NoFrame, NoMessage))
  BY DEF FlushAll, Submit
<1>2. fut'[r].then # "encode"
  <2>1. CASE Finish(r, op, "Ok", NoMessage)
    BY <2>1, FinishFut
  <2>2. ASSUME NEW at, NEW then, then # "encode",
               Suspend(r, Await(op, at, then, NoFrame, NoMessage))
        PROVE  fut'[r].then # "encode"
    BY <2>2, SuspendFut, AwaitThen
  <2> QED BY <1>1, <2>1, <2>2
<1>3. encoded' = encoded
  BY DEF FlushAll
<1> QED BY <1>2, <1>3, FinishAnswers

-----------------------------------------------------------------------------
(* A ping is answered while the endpoint is active.                        *)

LEMMA PingIsAnswered ==
  ASSUME NEW r \in Roles, NEW f
  PROVE  LET got == ReadMessageFrame(r, f) IN
         /\ got.reply # NoFrame => IdOf(got.reply, Pongs) = IdOf(f, Pings)
         /\ got.reply = NoFrame /\ got.res = "Ok" /\ f.op = "Ping" => state[r] # "Active"
<1> DEFINE got == ReadMessageFrame(r, f)
           Answered(o) ==
             /\ o.reply # NoFrame => IdOf(o.reply, Pongs) = IdOf(f, Pings)
             /\ o.reply = NoFrame /\ o.res = "Ok" /\ f.op = "Ping" => state[r] # "Active"
<1>1. \A e : e # "Ok" => Answered(Error(r, e))
  BY DEF Error, Nothing
<1>2. CASE f.op \notin ControlOps
  <2>1. f.op # "Ping"
    BY <1>2 DEF ControlOps
  <2>2. got.reply = NoFrame
    BY <1>2, DataMovesNothing, OutcomeOfError DEF ReadMessageFrame
  <2> QED BY <2>1, <2>2
<1>3. CASE f.op = "Ping"
  <2>1. Answered([Return(r, MessageOf("Ping", f.body)) EXCEPT !.reply = PongReply(r, f.body)])
    <3> DEFINE o == [Return(r, MessageOf("Ping", f.body)) EXCEPT !.reply = PongReply(r, f.body)]
    <3>1. o.reply = PongReply(r, f.body)
      BY DEF Return, Nothing
    <3>2. state[r] = "Active" => o.reply = PongOf(f.body)
      BY <3>1 DEF PongReply, Writable
    <3>3. state[r] # "Active" => o.reply = NoFrame
      BY <3>1 DEF PongReply, Writable
    <3>4. PongOf(f.body).op = "Pong" /\ PongOf(f.body).body = f.body /\ NoFrame.op # "Pong"
      BY DEF PongOf, Plain, NoFrame
    <3>5. IdOf(PongOf(f.body), Pongs) = IdOf(f, Pings)
      BY <1>3, <3>4 DEF IdOf, Pings, Pongs
    <3> HIDE DEF o
    <3>6. o.reply # NoFrame => state[r] = "Active"
      BY <3>3
    <3>7. o.reply # NoFrame => IdOf(o.reply, Pongs) = IdOf(f, Pings)
      BY <3>2, <3>5, <3>6
    <3>8. PongOf(f.body) # NoFrame
      BY <3>4
    <3>9. o.reply = NoFrame => state[r] # "Active"
      BY <3>2, <3>8
    <3> QED BY <3>7, <3>9, Zenon DEF o
  <2>2. Answered(HandleControl(r, f))
    BY <1>1, <1>3, <2>1 DEF HandleControl
  <2> HIDE DEF Answered
  <2> QED BY <1>1, <1>3, <2>2 DEF ReadMessageFrame, ControlOps, Answered
<1>4. CASE f.op \in ControlOps \ {"Ping"}
  <2>1. IdOf(f, Pings) = <<>>
    BY <1>4 DEF IdOf, Pings
  <2>2. got.reply # NoFrame => got.reply.op = "Close"
    <3>1. HandleClose(r, f.body).reply # NoFrame => HandleClose(r, f.body).reply.op = "Close"
      BY OutcomeOfError DEF HandleClose, DoClose, Nothing, CloseOf, Plain
    <3>2. f.op = "Close" /\ HandleControl(r, f).reply # NoFrame
            => HandleControl(r, f).reply.op = "Close"
      BY <3>1, OutcomeOfError DEF HandleControl
    <3>3. f.op # "Close" => HandleControl(r, f).reply = NoFrame
      BY <1>4, OutcomeOfError DEF HandleControl
    <3> QED BY <1>4, <3>2, <3>3, OutcomeOfError DEF ReadMessageFrame
  <2>3. got.reply # NoFrame => IdOf(got.reply, Pongs) = <<>>
    BY <2>2 DEF IdOf, Pongs
  <2> QED BY <1>4, <2>1, <2>3
<1> QED BY <1>2, <1>3, <1>4

-----------------------------------------------------------------------------
(* What a step does to the answers: they stay, or the one that waits is    *)
(* lost with its future, or a frame is taken, and answered if it is a ping *)
(* to an active endpoint.                                                  *)
NoRawPong(r) == \A f \in Menu[r] : f.op # "Pong"

Stays(r) == Answers(r)' = Answers(r) /\ taken'[r] = taken[r]
Loses(r) ==
  /\ Answers(r)' = IdsOf(encoded[r], Pongs) /\ taken'[r] = taken[r]
  /\ dead[r] \/ cancels' # 0 \/ link'[r] = "dropped"
Hears(r) ==
  /\ fut[r].at = "next" /\ taken'[r] = taken[r] + 1 /\ link'[r] = link[r]
  /\ \E f \in Arriving(r) :
       \/ Answers(r)' = Answers(r) \o IdOf(f, Pings) /\ state[r] = "Active"
       \/ /\ Answers(r)' = Answers(r)
          /\ clean'[r] => IdOf(f, Pings) = <<>> \/ state[r] # "Active"

LEMMA NoneWaitsIdle ==
  ASSUME TypeOK, NEW r \in Roles, EncodesLater(r), fut[r].at \notin {"write", "sync"}
  PROVE  Answers(r) = IdsOf(encoded[r], Pongs)
BY AnswersType DEF EncodesLater, Waiting

LEMMA FinishStays ==
  ASSUME TypeOK, TypeOK', NEW r \in Roles, encoded' = encoded, NEW op, NEW res, NEW msg,
         Finish(r, op, res, msg)
  PROVE  Answers(r)' = IdsOf(encoded[r], Pongs) /\ EncodesLater(r)'
BY FinishFut, FinishAnswers

LEMMA WriteFrameSilent ==
  ASSUME TypeOK, TypeOK', NEW r \in Roles, NEW op, NEW f \in Frame, NEW msg,
         WriteFrame(r, op, f, msg), f.op # "Pong"
  PROVE  Answers(r)' = IdsOf(encoded[r], Pongs) /\ EncodesLater(r)'
<1>1. IdOf(f, Pongs) = <<>>
  BY DEF IdOf, Pongs
<1>2. IdsOf(encoded[r], Pongs) \o <<>> = IdsOf(encoded[r], Pongs)
  BY NoneWaits DEF TypeOK
<1>3. Answers(r)' = IdsOf(encoded[r], Pongs) \o IdOf(f, Pongs) /\ EncodesLater(r)'
  BY WriteFrameAnswers
<1> QED BY <1>1, <1>2, <1>3, Zenon

LEMMA CallsStay ==
  ASSUME TypeInv, TypeInv', NEW r \in Roles, NoRawPong(r), EncodesLater(r), Calling(r)
  PROVE  EncodesLater(r)' /\ Stays(r)
<1>0. TypeOK /\ TypeOK'
  BY DEF TypeInv
<1>1. fut[r].at = "idle" /\ taken' = taken
  BY DEF Calling, CallRead, CallWrite, CallClose, CallFlush, SetConfig, Idling, stream
<1>2. Answers(r) = IdsOf(encoded[r], Pongs)
  BY <1>0, <1>1, NoneWaitsIdle
<1> SUFFICES Answers(r)' = IdsOf(encoded[r], Pongs) /\ EncodesLater(r)'
  BY <1>1, <1>2 DEF Stays
<1>3. CASE CallRead(r)
  <2>1. CASE \E res : Finish(r, "read", res, NoMessage)
    BY <1>0, <1>3, <2>1, FinishStays DEF CallRead
  <2>2. CASE Suspend(r, Await("read", "next", "none", NoFrame, NoMessage))
    <3>1. fut'[r].then = "none"
      BY <1>0, <2>2, SuspendFut, AwaitThen
    <3>2. encoded' = encoded /\ fut'[r].then # "encode"
      BY <1>3, <3>1 DEF CallRead
    <3> QED BY <1>0, <3>2, FinishAnswers
  <2> QED BY <1>3, <2>1, <2>2 DEF CallRead
<1>4. CASE CallWrite(r)
  <2>1. CASE \E res : Finish(r, "write", res, NoMessage) /\ encoded' = encoded
    BY <1>0, <2>1, FinishStays
  <2>2. CASE \E f \in Menu[r] : WriteFrame(r, "write", f, NoMessage)
    <3>1. PICK f \in Menu[r] : WriteFrame(r, "write", f, NoMessage)
      BY <2>2
    <3>2. f \in Frame /\ f.op # "Pong"
      BY MenuAssumption DEF NoRawPong
    <3> QED BY <1>0, <3>1, <3>2, WriteFrameSilent
  <2> QED BY <1>4, <2>1, <2>2 DEF CallWrite
<1>5. CASE CallClose(r)
  <2>1. CASE \E body \in CloseBodies : WriteFrame(r, "close", CloseOf(body), NoMessage)
    <3>1. PICK body \in CloseBodies : WriteFrame(r, "close", CloseOf(body), NoMessage)
      BY <2>1
    <3>2. CloseOf(body) \in Frame /\ CloseOf(body).op # "Pong"
      BY CloseBodiesAssumption, PlainType DEF CloseOf, OpCode, ControlOps, Plain
    <3> QED BY <1>0, <3>1, <3>2, WriteFrameSilent
  <2>2. CASE FlushAll(r, "close")
    BY <1>0, <2>2, FlushAllAnswers
  <2> QED BY <1>5, <2>1, <2>2 DEF CallClose
<1>6. CASE CallFlush(r)
  BY <1>0, <1>6, FlushAllAnswers DEF CallFlush
<1>7. CASE SetConfig(r)
  <2>1. encoded' = encoded /\ fut'[r].then # "encode"
    BY <1>1, <1>7 DEF SetConfig, history, EncodesLater
  <2> QED BY <1>0, <2>1, FinishAnswers
<1> QED BY <1>3, <1>4, <1>5, <1>6, <1>7 DEF Calling

LEMMA ReceivingHears ==
  ASSUME TypeInv, TypeInv', NEW r \in Roles, EncodesLater(r), Receiving(r)
  PROVE  EncodesLater(r)' /\ (Stays(r) \/ Hears(r))
<1>0. TypeOK /\ TypeOK'
  BY DEF TypeInv
<1>1. fut[r].at = "next" /\ link' = link
  BY DEF Receiving, DecodeRejects, FrameFails, FrameAnswered, FrameDelivered,
     FrameAbsorbed, NextEnd, NextFails, Reading, Handle, stream
<1>2. Answers(r) = IdsOf(encoded[r], Pongs)
  BY <1>0, <1>1, NoneWaitsIdle
<1>3. CASE NextEnd(r) \/ NextFails(r)
  <2>1. \E res : Finish(r, "read", res, NoMessage)
    BY <1>3 DEF NextEnd, NextFails
  <2>2. encoded' = encoded /\ taken' = taken
    BY <1>3 DEF NextEnd, NextFails, stream
  <2> QED BY <1>0, <1>2, <2>1, <2>2, FinishStays DEF Stays
<1>4. CASE DecodeRejects(r) \/ FrameFails(r)
  <2>1. \E res : Finish(r, "read", res, NoMessage)
    BY <1>4 DEF DecodeRejects, FrameFails
  <2>2. encoded' = encoded /\ taken'[r] = taken[r] + 1 /\ ~clean'[r]
        /\ \E f \in Arriving(r) : TRUE
    BY <1>0, <1>4 DEF DecodeRejects, FrameFails, Handle, Take, TypeOK
  <2> QED BY <1>0, <1>1, <1>2, <2>1, <2>2, FinishStays DEF Hears
<1>5. CASE FrameDelivered(r) \/ FrameAbsorbed(r)
  <2>1. PICK f \in Arriving(r) : LET got == ReadMessageFrame(r, f) IN
          /\ got.res = "Ok" /\ got.reply = NoFrame /\ Handle(r, got)
          /\ \/ Finish(r, "read", "Ok", got.msg)
             \/ fut' = fut
    BY <1>5 DEF FrameDelivered, FrameAbsorbed
  <2>2. encoded' = encoded /\ taken'[r] = taken[r] + 1
    BY <1>0, <1>5, <2>1 DEF FrameDelivered, FrameAbsorbed, Handle, Take, TypeOK, history
  <2>3. f.op = "Ping" => state[r] # "Active"
    BY <2>1, PingIsAnswered
  <2>4. IdOf(f, Pings) = <<>> \/ state[r] # "Active"
    BY <2>3 DEF IdOf, Pings
  <2>5. Answers(r)' = IdsOf(encoded[r], Pongs) /\ EncodesLater(r)'
    <3>1. CASE \E msg : Finish(r, "read", "Ok", msg)
      BY <1>0, <2>2, <3>1, FinishStays
    <3>2. CASE fut' = fut
      <4>1. fut'[r].then # "encode"
        BY <1>1, <3>2 DEF EncodesLater
      <4> QED BY <1>0, <2>2, <4>1, FinishAnswers
    <3> QED BY <2>1, <3>1, <3>2
  <2> QED BY <1>1, <1>2, <2>2, <2>4, <2>5 DEF Hears
<1>6. CASE FrameAnswered(r)
  <2>1. PICK f \in Arriving(r) : LET got == ReadMessageFrame(r, f) IN
          /\ got.reply # NoFrame /\ Handle(r, got)
          /\ WriteFrame(r, "read", got.reply, got.msg)
    BY <1>6 DEF FrameAnswered
  <2> DEFINE got == ReadMessageFrame(r, f)
  <2>2. state[r] = "Active" /\ IdOf(got.reply, Pongs) = IdOf(f, Pings)
    BY <2>1, HandlingFacts, PingIsAnswered
  <2>3. got.reply \in Frame /\ taken'[r] = taken[r] + 1
    <3>1. got \in Outcome
      BY <1>0, ArrivingFacts, ReadMessageFrameType
    <3> QED BY <1>0, <2>1, <3>1, FrameFacts DEF Outcome, Handle, Take, TypeOK
  <2>4. Answers(r)' = IdsOf(encoded[r], Pongs) \o IdOf(got.reply, Pongs) /\ EncodesLater(r)'
    BY <1>0, <2>1, <2>3, WriteFrameAnswers
  <2>5. Answers(r)' = Answers(r) \o IdOf(f, Pings)
    BY <1>2, <2>2, <2>4
  <2> QED BY <1>1, <2>2, <2>3, <2>4, <2>5 DEF Hears
<1> QED BY <1>3, <1>4, <1>5, <1>6 DEF Receiving

LEMMA SendingLoses ==
  ASSUME TypeInv, TypeInv', NEW r \in Roles, EncodesLater(r), Sending(r)
  PROVE  EncodesLater(r)' /\ (Stays(r) \/ Loses(r))
<1>0. TypeOK /\ TypeOK' /\ taken' = taken
  BY DEF TypeInv, Sending, WriteSome, WriteFails, SyncThenEncode, SyncThenReturn,
     SyncThenShutdown, SyncFails, Shutdown, ShutdownFails, stream
<1>1. CASE WriteSome(r)
  <2>1. encoded' = encoded /\ (fut' = fut \/ fut' = [fut EXCEPT ![r].at = "sync"])
    BY <1>1 DEF WriteSome, history
  <2>2. /\ fut'[r].then = fut[r].then /\ fut'[r].frame = fut[r].frame
        /\ fut'[r].at \in {fut[r].at, "sync"}
    BY <1>0, <2>1 DEF TypeOK, Future
  <2>3. Waiting(r)' = Waiting(r) /\ EncodesLater(r)'
    BY <2>2 DEF Waiting, EncodesLater
  <2> QED BY <1>0, <2>1, <2>3 DEF Stays, Answers
<1>2. CASE WriteFails(r) \/ SyncFails(r)
  <2>1. /\ dead[r] /\ encoded' = encoded
        /\ \E op, res : Finish(r, op, res, NoMessage)
    BY <1>2 DEF WriteFails, SyncFails
  <2> QED BY <1>0, <2>1, FinishStays DEF Loses
<1>3. CASE SyncThenEncode(r)
  <2>1. fut[r].frame \in Frame /\ Waiting(r) = IdOf(fut[r].frame, Pongs)
    BY <1>0, <1>3 DEF TypeOK, SyncThenEncode, Flushed, Future, Waiting
  <2>2. Answers(r)' = IdsOf(encoded[r], Pongs) \o IdOf(fut[r].frame, Pongs) /\ EncodesLater(r)'
    BY <1>0, <1>3, <2>1, EncodeAnswers DEF SyncThenEncode
  <2> QED BY <1>0, <2>1, <2>2 DEF Stays, Answers
<1>4. CASE SyncThenReturn(r) \/ SyncThenShutdown(r) \/ Shutdown(r) \/ ShutdownFails(r)
  <2>1. fut[r].then # "encode" /\ encoded' = encoded
    BY <1>4 DEF EncodesLater, SyncThenReturn, SyncThenShutdown, Shutdown, ShutdownFails, Flushed
  <2>2. Answers(r) = IdsOf(encoded[r], Pongs)
    BY <1>0, <2>1, AnswersType DEF Waiting
  <2>3. CASE SyncThenShutdown(r)
    <3>1. fut'[r].then # "encode"
      BY <1>0, <2>3, SuspendFut, AwaitThen DEF SyncThenShutdown
    <3> QED BY <1>0, <2>1, <2>2, <3>1, FinishAnswers DEF Stays
  <2>4. CASE \E op, res, msg : Finish(r, op, res, msg)
    BY <1>0, <2>1, <2>2, <2>4, FinishStays DEF Stays
  <2> QED BY <1>4, <2>3, <2>4 DEF SyncThenReturn, Shutdown, ShutdownFails
<1> QED BY <1>1, <1>2, <1>3, <1>4 DEF Sending

LEMMA SurroundingsLose ==
  ASSUME TypeInv, TypeInv', NEW r \in Roles, r \notin Foreign, EncodesLater(r),
         Surroundings(r)
  PROVE  EncodesLater(r)' /\ (Stays(r) \/ Loses(r))
<1>0. TypeOK /\ TypeOK'
  BY DEF TypeInv
<1>1. CASE Cancel(r) \/ Drop(r)
  <2>1. fut'[r] = Idle /\ encoded' = encoded /\ taken' = taken
    BY <1>0, <1>1 DEF Cancel, Drop, Abandon, history, TypeOK
  <2>2. fut'[r].then # "encode"
    BY <2>1, AwaitThen DEF Idle
  <2>3. cancels' # 0 \/ link'[r] = "dropped"
    BY <1>0, <1>1 DEF Cancel, Drop, TypeOK
  <2> QED BY <1>0, <2>1, <2>2, <2>3, FinishAnswers DEF Loses
<1>2. CASE Break(r)
  BY <1>2 DEF Break, history, Stays, Answers, Waiting, EncodesLater
<1> QED BY <1>1, <1>2 DEF Surroundings, ForeignSend, ForeignRead, ForeignDrop

-----------------------------------------------------------------------------
(* What never comes back.                                                  *)

LEMMA ActiveNoMore ==
  ASSUME TypeOK, NEW r \in Roles, Step(r)
  PROVE  state'[r] = "Active" => state[r] = "Active"
BY StateMoveStep DEF StateMove

LEMMA DeadStays ==
  ASSUME TypeOK, NEW r \in Roles, Step(r)
  PROVE  dead[r] => dead'[r]
<1>1. dead' = dead \/ dead' = [dead EXCEPT ![r] = TRUE]
  BY DEF Step, Calling, CallRead, CallWrite, CallClose, CallFlush, SetConfig, Receiving,
     DecodeRejects, FrameFails, FrameAnswered, FrameDelivered, FrameAbsorbed, NextEnd,
     NextFails, Handle, Sending, WriteSome, WriteFails, SyncThenEncode, SyncThenReturn,
     SyncThenShutdown, SyncFails, Shutdown, ShutdownFails, Surroundings, Cancel, Drop,
     Break, ForeignSend, ForeignRead, ForeignDrop, stream
<1> QED BY <1>1 DEF TypeOK

LEMMA DroppedStays ==
  ASSUME TypeOK, NEW r \in Roles, Step(r), fut[r].at # "idle" => link[r] # "dropped"
  PROVE  link'[r] # "dropped" => link[r] # "dropped"
<1>1. CASE Shutdown(r)
  BY <1>1 DEF Shutdown
<1>2. CASE Sending(r) /\ ~Shutdown(r)
  BY <1>2 DEF Sending, WriteSome, WriteFails, SyncThenEncode, SyncThenReturn,
     SyncThenShutdown, SyncFails, ShutdownFails, stream
<1>3. CASE Calling(r) \/ Receiving(r)
  BY <1>3 DEF Calling, CallRead, CallWrite, CallClose, CallFlush, SetConfig, Receiving,
     DecodeRejects, FrameFails, FrameAnswered, FrameDelivered, FrameAbsorbed, NextEnd,
     NextFails, Handle, stream
<1>4. CASE Surroundings(r)
  BY <1>4 DEF Surroundings, Cancel, Drop, Break, ForeignSend, ForeignRead, ForeignDrop,
     TypeOK
<1> QED BY <1>1, <1>2, <1>3, <1>4 DEF Step

-----------------------------------------------------------------------------
(* Pongs and pings.                                                        *)

PingsRead(r) == IdsOf(Taken(r), Pings)
Unspoilt(r) == clean[r] /\ ~dead[r] /\ cancels = 0

(* The answers, the one that waits included, are among the pings, and are  *)
(* all of them while the endpoint is active and nothing went wrong.        *)
PongInv(r) ==
  /\ EncodesLater(r)
  /\ Intact(Peer(r)) =>
       /\ Picked(Answers(r), PingsRead(r))
       /\ Unspoilt(r) =>
            /\ Leads(Answers(r), PingsRead(r))
            /\ state[r] = "Active" /\ link[r] # "dropped" => Answers(r) = PingsRead(r)

LEMMA PongOwnStep ==
  ASSUME TypeInv, TypeInv', NEW r \in Roles, r \notin Foreign, NoRawPong(r), SeenInv(r),
         cancels = 0 => OrderInv(r), PongInv(r), [Next]_vars, Step(r)
  PROVE  PongInv(r)'
<1> DEFINE A == Answers(r)
           B == Answers(r)'
           C == IdsOf(encoded[r], Pongs)
           P == PingsRead(r)
           Q == PingsRead(r)'
           w == wired[Peer(r)]
<1>0. TypeOK /\ TypeOK' /\ Grows(Peer(r)) /\ taken[r] <= Len(w)
  BY PeerFacts, WiredGrows DEF TypeInv, SeenInv
<1>1. EncodesLater(r)' /\ (Stays(r) \/ Loses(r) \/ Hears(r))
  BY CallsStay, ReceivingHears, SendingLoses, SurroundingsLose DEF Step, PongInv
<1> SUFFICES ASSUME Intact(Peer(r))'
             PROVE  /\ Picked(B, Q)
                    /\ Unspoilt(r)' =>
                         /\ Leads(B, Q)
                         /\ state'[r] = "Active" /\ link'[r] # "dropped" => B = Q
  BY <1>1 DEF PongInv
<1>2. Unspoilt(r)' => Unspoilt(r)
  <2>1. cancels' = 0 => cancels = 0
    <3>1. cancels' = cancels \/ cancels' = cancels + 1
      BY <1>0, CancelsCount
    <3>2. cancels \in Nat
      BY <1>0 DEF TypeOK
    <3> QED BY <3>1, <3>2
  <2> QED BY <1>0, <2>1, CleanFalls, DeadStays DEF Unspoilt
<1>3. Unspoilt(r)' /\ fut[r].at # "idle" => link[r] # "dropped"
  BY <1>2 DEF Unspoilt, OrderInv
<1>4. Unspoilt(r)' /\ state'[r] = "Active" /\ link'[r] # "dropped"
        => state[r] = "Active" /\ link[r] # "dropped"
  BY <1>0, <1>3, ActiveNoMore, DroppedStays
<1>5. Intact(Peer(r))
  <2>1. taken[r] <= taken'[r]
    BY <1>0, <1>1 DEF Stays, Loses, Hears, TypeOK
  <2> QED BY <1>0, <2>1, SeenStays
<1>6. /\ Picked(A, P)
      /\ Unspoilt(r)' =>
           /\ Leads(A, P)
           /\ state'[r] = "Active" /\ link'[r] # "dropped" => A = P
  BY <1>2, <1>4, <1>5 DEF PongInv
<1>7. A \in Seq(Nat) /\ C \in Seq(Nat) /\ P \in Seq(Nat) /\ Leads(C, A)
  <2>1. A \in Seq(Nat) /\ C \in Seq(Nat) /\ Waiting(r) \in Seq(Nat)
    BY <1>0, AnswersType
  <2>2. P \in Seq(Nat)
    BY <1>0, TakenGrows, IdsOfType DEF PingsRead
  <2> QED BY <2>1, <2>2, LeadsJoin DEF Answers
<1>8. CASE Stays(r)
  <2>1. B = A /\ Taken(r)' = Taken(r)
    BY <1>0, <1>8, TakenGrows DEF Stays
  <2>2. Q = P
    BY <2>1 DEF PingsRead
  <2> QED BY <1>6, <2>1, <2>2, Zenon
<1>9. CASE Loses(r)
  <2>1. B = C /\ Taken(r)' = Taken(r)
    BY <1>0, <1>9, TakenGrows DEF Loses
  <2>2. Q = P
    BY <2>1 DEF PingsRead
  <2>3. Picked(C, P) /\ (Leads(A, P) => Leads(C, P))
    BY <1>6, <1>7, PickedFewer, LeadsOn
  <2>4. ~(Unspoilt(r)' /\ link'[r] # "dropped")
    BY <1>0, <1>9, DeadStays DEF Loses, Unspoilt
  <2> QED BY <1>6, <2>1, <2>2, <2>3, <2>4, Zenon
<1>10. CASE Hears(r)
  <2>1. PICK f \in Arriving(r) :
          \/ B = A \o IdOf(f, Pings) /\ state[r] = "Active"
          \/ B = A /\ (clean'[r] => IdOf(f, Pings) = <<>> \/ state[r] # "Active")
    BY <1>10 DEF Hears
  <2> DEFINE x == IdOf(f, Pings)
  <2>2. f \in OnWire /\ f = w[taken[r] + 1] /\ taken[r] + 1 \in 1 .. Len(w)
    BY <1>0, <1>5, ArrivingFacts, FrameFacts
  <2>3. Q = P \o x /\ x \in Seq(Nat) /\ (x = <<>> \/ \E i \in Nat : x = <<i>>)
    <3>1. Taken(r)' = Append(Taken(r), f) /\ Taken(r) \in Seq(OnWire)
      BY <1>0, <1>10, <2>2, TakenGrows DEF Hears
    <3>2. Q = P \o x
      BY <2>2, <3>1, IdsOfAppend DEF PingsRead
    <3>3. f.body.id \in Nat
      BY <2>2 DEF OnWire, Frame, Payload, Torn, NoFrame, Empty
    <3>4. x = <<>> \/ x = <<f.body.id>>
      BY DEF IdOf
    <3> QED BY <2>2, <3>2, <3>3, <3>4, IdOfType
  <2> HIDE DEF A, B, C, P, Q, x
  <2>4. A \o <<>> = A /\ P \o <<>> = P /\ P \o x \in Seq(Nat)
    BY <1>7, <2>3
  <2>5. Leads(P, P \o x) /\ Leads(P \o x, P \o x)
    BY <1>7, <2>3, <2>4, LeadsJoin
  <2>6. CASE B = A \o x /\ state[r] = "Active"
    <3>1. Picked(A \o x, P \o x)
      <4>1. CASE x = <<>>
        BY <1>6, <2>4, <4>1, Zenon
      <4>2. CASE \E i \in Nat : x = <<i>>
        BY <1>6, <1>7, <4>2, PickedBoth
      <4> QED BY <2>3, <4>1, <4>2
    <3>2. Unspoilt(r)' => A = P
      <4>1. fut[r].at # "idle"
        BY <1>10 DEF Hears
      <4>2. Unspoilt(r)' => state[r] = "Active" /\ link[r] # "dropped"
        BY <1>3, <2>6, <4>1
      <4> QED BY <1>2, <1>5, <4>2 DEF PongInv, A, P
    <3>3. Unspoilt(r)' => B = Q
      BY <2>3, <2>6, <3>2, Zenon
    <3> QED BY <2>3, <2>5, <2>6, <3>1, <3>3, Zenon
  <2>7. CASE B = A /\ (clean'[r] => x = <<>> \/ state[r] # "Active")
    <3>1. Picked(A, Q)
      BY <1>6, <1>7, <2>3, <2>4, <2>5, PickedIn
    <3>2. Leads(A, P) => Leads(A, Q)
      BY <1>7, <2>3, <2>4, <2>5, LeadsOn
    <3>3. Unspoilt(r)' /\ state'[r] = "Active" /\ link'[r] # "dropped" => x = <<>>
      BY <1>4, <2>7 DEF Unspoilt
    <3>4. x = <<>> => Q = P
      BY <2>3, <2>4, Zenon
    <3>5. Unspoilt(r)' => Leads(B, Q)
      BY <1>6, <2>7, <3>2, Zenon
    <3>6. Unspoilt(r)' /\ state'[r] = "Active" /\ link'[r] # "dropped" => B = Q
      BY <1>6, <2>7, <3>3, <3>4, Zenon
    <3> QED BY <2>7, <3>1, <3>5, <3>6, Zenon
  <2> QED BY <2>1, <2>6, <2>7 DEF A, B, x
<1> QED BY <1>1, <1>8, <1>9, <1>10

LEMMA PongOtherStep ==
  ASSUME TypeInv, TypeInv', NEW r \in Roles, SeenInv(r), PongInv(r), [Next]_vars,
         taken'[r] = taken[r], encoded'[r] = encoded[r], fut'[r] = fut[r],
         clean'[r] = clean[r], state'[r] = state[r], link'[r] = link[r], dead'[r] = dead[r]
  PROVE  PongInv(r)'
<1>1. TypeOK /\ TypeOK' /\ Grows(Peer(r))
  BY PeerFacts, WiredGrows DEF TypeInv
<1>2. taken[r] <= taken'[r] /\ cancels \in Nat
  BY <1>1 DEF TypeOK
<1>3. Intact(Peer(r))' => Intact(Peer(r))
  BY <1>1, <1>2, SeenStays
<1>4. Taken(r)' = Taken(r)
  BY <1>1, TakenGrows DEF SeenInv
<1>5. PingsRead(r)' = PingsRead(r) /\ Answers(r)' = Answers(r)
  BY <1>4 DEF PingsRead, Answers, Waiting
<1>6. Unspoilt(r)' => Unspoilt(r)
  <2>1. cancels' = cancels \/ cancels' = cancels + 1
    BY <1>1, CancelsCount
  <2> QED BY <1>2, <2>1 DEF Unspoilt
<1>7. EncodesLater(r)'
  BY DEF PongInv, EncodesLater
<1> QED BY <1>3, <1>5, <1>6, <1>7 DEF PongInv

PongInvAll == \A r \in Ours : NoRawPong(r) => PongInv(r)

(* Every pong answers a ping that was read, in order and once; until the   *)
(* transport fails, a frame is refused or a future is dropped, none is     *)
(* left out, and an active endpoint between two frames owes none.          *)
THEOREM PongsAnswerPingsHolds == Spec => []PongsAnswerPings
<1>1. Init => PongInvAll
  <2> SUFFICES ASSUME Init, NEW r \in Ours PROVE PongInv(r)
    BY DEF PongInvAll
  <2>1. /\ r \in Roles /\ encoded[r] = <<>> /\ fut[r] = Idle
        /\ wired[Peer(r)] = <<>> /\ taken[r] = 0
    BY PeerFacts DEF Init, Ours
  <2>2. Taken(r) = <<>>
    BY <2>1 DEF Taken
  <2>3. Waiting(r) = <<>> /\ EncodesLater(r)
    BY <2>1, AwaitThen DEF Waiting, EncodesLater, Idle
  <2>4. <<>> \o <<>> = <<>> /\ <<>> \in Seq(Nat)
    OBVIOUS
  <2>5. Answers(r) = <<>> /\ PingsRead(r) = <<>>
    BY <2>1, <2>2, <2>3, <2>4, IdsOfEmpty, Zenon DEF Answers, PingsRead
  <2>6. Picked(<<>>, <<>>) /\ Leads(<<>>, <<>>)
    BY NothingPicked
  <2> QED BY <2>3, <2>5, <2>6 DEF PongInv
<1>2. TypeInv /\ TypeInv' /\ BufferInvAll /\ OrderInvAll /\ SeenInvAll /\ PongInvAll
        /\ [Next]_vars => PongInvAll'
  <2> SUFFICES ASSUME TypeInv, TypeInv', OrderInvAll, SeenInvAll, PongInvAll, [Next]_vars,
                      NEW r \in Ours, NoRawPong(r)
               PROVE  PongInv(r)'
    BY DEF PongInvAll, NoRawPong
  <2>1. r \in Roles /\ r \notin Foreign /\ PongInv(r) /\ SeenInv(r)
    BY DEF Ours, PongInvAll, SeenInvAll
  <2>2. cancels = 0 => OrderInv(r)
    BY DEF OrderInvAll
  <2>3. CASE UNCHANGED vars
    BY <2>1, <2>3, PongOtherStep DEF vars, ws, stream, history
  <2>4. ASSUME NEW q \in Roles, Step(q)
        PROVE  PongInv(r)'
    <3>1. CASE q = r
      BY <2>1, <2>2, <2>4, <3>1, PongOwnStep
    <3>2. CASE q # r
      <4>1. Same(r) /\ SameTransport(r) /\ SameReading(r)
        BY <2>1, <2>4, <3>2, StepIsLocal, TransportIsLocal, ReadingIsLocal DEF TypeInv
      <4> QED BY <2>1, <4>1, PongOtherStep
              DEF Same, SameStream, SameCall, SameCodec, SameReading, SameTransport
    <3> QED BY <3>1, <3>2
  <2> QED BY <2>3, <2>4, NextCases DEF Step
<1>3. TypeInv /\ [Next]_vars => TypeInv'
  BY TypeStep
<1>4. TypeInv /\ SeenInvAll /\ PongInvAll => PongsAnswerPings
  <2> SUFFICES ASSUME TypeInv, SeenInvAll, PongInvAll, NEW r \in Ours, Intact(Peer(r)),
                      \A f \in Menu[r] : f.op # "Pong"
               PROVE  /\ Picked(IdsOf(encoded[r], Pongs), PingsRead(r))
                      /\ Unspoilt(r) =>
                           /\ IsPrefix(IdsOf(encoded[r], Pongs), PingsRead(r))
                           /\ state[r] = "Active" /\ fut[r].at \in {"idle", "next"}
                              /\ link[r] = "open"
                                => IdsOf(encoded[r], Pongs) = PingsRead(r)
    BY DEF PongsAnswerPings, Pongs, Pings, PingsRead, Unspoilt
  <2> DEFINE C == IdsOf(encoded[r], Pongs)
  <2>1. r \in Roles /\ TypeOK /\ PongInv(r)
    BY DEF Ours, TypeInv, PongInvAll, NoRawPong
  <2>2. C \in Seq(Nat) /\ Waiting(r) \in Seq(Nat) /\ Answers(r) \in Seq(Nat)
    BY <2>1, AnswersType
  <2>3. Leads(C, Answers(r))
    BY <2>2, LeadsJoin DEF Answers
  <2>4. PingsRead(r) \in Seq(Nat)
    <3>1. wired[Peer(r)] \in Seq(OnWire) /\ taken[r] \in Nat
          /\ taken[r] <= Len(wired[Peer(r)])
      BY <2>1, PeerFacts DEF TypeOK, SeenInvAll, SeenInv
    <3>2. Taken(r) \in Seq(OnWire)
      BY <3>1 DEF Taken
    <3> QED BY <3>2, IdsOfType DEF PingsRead
  <2>5. fut[r].at \in {"idle", "next"} => Answers(r) = C
    BY <2>1, NoneWaitsIdle DEF PongInv
  <2>6. Picked(Answers(r), PingsRead(r))
        /\ (Unspoilt(r) => Leads(Answers(r), PingsRead(r)))
    BY <2>1 DEF PongInv
  <2>7. Picked(C, PingsRead(r))
    BY <2>2, <2>3, <2>4, <2>6, PickedFewer
  <2>8. Unspoilt(r) => IsPrefix(C, PingsRead(r))
    BY <2>2, <2>3, <2>4, <2>6, LeadsOn, LeadsIsPrefix
  <2> QED BY <2>1, <2>5, <2>7, <2>8 DEF PongInv
<1> QED BY <1>1, <1>2, <1>3, <1>4, OrderAlways, SeenAlways, PTL DEF Spec

-----------------------------------------------------------------------------
(* Teardown without faults: an endpoint is gone only when both Close       *)
(* frames have been read or are on their way, and nothing is unread.       *)

(* Without faults the transport works, nothing on it is torn and no read   *)
(* has failed.                                                             *)
Live(r) == ~dead[r] /\ Intact(r) /\ ~errored[r]

(* An endpoint that is active no more has its Close frame encoded, with    *)
(* nothing behind it, or waiting for room, but not in a write(); it shuts  *)
(* the stream down, or ends the caller's loop, only when terminated.       *)
Tidy(r) ==
  /\ HasClose(encoded[r]) => writeBuf[r] = <<>>
  /\ state[r] # "Active" => HasClose(encoded[r]) \/ fut[r].then = "encode"
  /\ fut[r].op = "write" /\ fut[r].then = "encode" => fut[r].frame.op # "Close"
  /\ fut[r].at = "shutdown" \/ fut[r].then = "shutdown" => state[r] = "Terminated"
  /\ ret[r].op = "read" /\ ret[r].res # "Ok" => state[r] = "Terminated"

(* It knows of the Close frame that it has read.                           *)
Heard(r) == SeenClose(r) => PeerCloses(r) \/ state[r] = "Terminated"

(* Terminated, it has read the peer's Close and its own is on the wire.    *)
Over(r) ==
  SeenClose(r) /\ HasClose(wired[r]) /\ (r = "Client" => link["Server"] # "open")
Ends(r) == state[r] = "Terminated" \/ link[r] # "open" => Over(r)

Settled(r) == Live(r) /\ Tidy(r) /\ Heard(r) /\ Ends(r)

LEMMA FaultlessMeans ==
  ASSUME TypeOK, Faultless, NEW r \in Roles
  PROVE  r \in Ours /\ r \notin Foreign /\ NoRawClose(r) /\ clean[r] /\ cancels = 0
BY DEF Faultless, LawfulRoles, Ours, NoRawClose

LEMMA HasCloseAppend ==
  ASSUME NEW S, NEW s \in Seq(S), NEW f \in S
  PROVE  HasClose(Append(s, f)) <=> HasClose(s) \/ f.op = "Close"
<1>1. /\ Len(Append(s, f)) = Len(s) + 1 /\ Append(s, f)[Len(s) + 1] = f
      /\ \A i \in 1 .. Len(s) : Append(s, f)[i] = s[i]
      /\ Len(s) \in Nat
  BY AppendFacts
<1>2. \A i : i \in 1 .. Len(s) + 1 <=> i \in 1 .. Len(s) \/ i = Len(s) + 1
  BY <1>1
<1> QED BY <1>1, <1>2 DEF HasClose

(* Once the peer's Close is read there is nothing more to read.            *)
LEMMA NothingPending ==
  ASSUME TypeOK, NEW r \in Roles, SeenInv(r), SeenClose(r), Prefix(Peer(r)),
         OnlyLast(encoded[Peer(r)])
  PROVE  taken[r] = Len(wired[Peer(r)])
<1> DEFINE w == wired[Peer(r)]
           e == encoded[Peer(r)]
<1>1. w \in Seq(OnWire) /\ e \in Seq(Frame) /\ taken[r] \in Nat /\ taken[r] <= Len(w)
  BY PeerFacts DEF TypeOK, SeenInv
<1>2. PICK i \in 1 .. Len(w) : i <= taken[r] /\ w[i].op = "Close"
  BY DEF SeenClose
<1>3. Len(w) <= Len(e) /\ w[i] = e[i]
  BY <1>2 DEF Prefix
<1>4. Len(w) \in Nat /\ Len(e) \in Nat
  BY <1>1
<1>5. i = Len(e)
  <2>1. i \in 1 .. Len(e)
    BY <1>2, <1>3, <1>4
  <2> QED BY <1>2, <1>3, <2>1 DEF OnlyLast
<1> HIDE DEF w, e
<1> QED BY <1>1, <1>2, <1>3, <1>4, <1>5 DEF w

(* An endpoint that does not write has its Close frame on the wire, unless *)
(* it is active.                                                           *)
LEMMA CloseIsWritten ==
  ASSUME TypeOK, NEW r \in Roles, OrderInv(r), CloseInv(r), Live(r), Tidy(r),
         link[r] # "dropped", fut[r].at \in {"idle", "next"}, state[r] # "Active"
  PROVE  HasClose(wired[r])
<1>1. HasClose(encoded[r]) /\ writeBuf[r] = <<>>
  BY DEF Tidy, CloseInv
<1>2. Splits(encoded[r], wired[r], <<>>)
  BY <1>1 DEF OrderInv, Owed, Stuck, Live
<1>3. wired[r] = encoded[r]
  BY <1>2, SplitsEmpty DEF TypeOK
<1> QED BY <1>1, <1>3

(* The peer leaves nothing of ours unread.                                 *)
LEMMA NoBreak ==
  ASSUME TypeOK, Faultless, NEW r \in Roles, SeenInv(Peer(r)), OrderInv(r), CloseInv(r),
         Live(r), Ends(Peer(r))
  PROVE  ~Break(r)
<1> SUFFICES ASSUME link[Peer(r)] = "dropped", taken[Peer(r)] < Len(wired[r]) PROVE FALSE
  BY DEF Break, Unread, Faultless
<1>1. Peer(r) \in Roles /\ Peer(Peer(r)) = r
  BY DEF Peer, Roles
<1>2. SeenClose(Peer(r))
  BY DEF Ends, Over
<1>3. Prefix(r) /\ OnlyLast(encoded[r])
  BY DEF OrderInv, CloseInv, Live
<1>4. taken[Peer(r)] = Len(wired[r])
  BY <1>1, <1>2, <1>3, NothingPending
<1> QED BY <1>1, <1>4 DEF TypeOK

(* What can happen without faults.                                         *)
Smooth(r) ==
  \/ Calling(r) \/ FrameAnswered(r) \/ FrameDelivered(r) \/ FrameAbsorbed(r)
  \/ NextEnd(r) /\ link[Peer(r)] # "open" /\ Pending(r) = <<>>
  \/ WriteSome(r) \/ SyncThenEncode(r) \/ SyncThenReturn(r) \/ SyncThenShutdown(r)
  \/ Shutdown(r)
  \/ Drop(r) /\ Finished(r)

LEMMA SmoothSteps ==
  ASSUME TypeOK, Faultless, Faultless', NEW r \in Roles, Live(r), Live(Peer(r)),
         [Next]_vars, Step(r), ~Break(r)
  PROVE  Smooth(r)
<1>1. ~Desynced(r)
  BY DEF Live, Intact, Desynced
<1>2. ~DecodeRejects(r) /\ ~FrameFails(r)
  BY DEF DecodeRejects, FrameFails, Faultless, TypeOK
<1>3. ~NextFails(r) /\ ~WriteFails(r) /\ ~SyncFails(r) /\ ~ShutdownFails(r)
  BY <1>1 DEF NextFails, WriteFails, SyncFails, ShutdownFails, Live
<1>4. ~Cancel(r)
  BY CancelsCount DEF Faultless
<1>5. ~ForeignSend(r) /\ ~ForeignRead(r) /\ ~ForeignDrop(r)
  BY FaultlessMeans DEF ForeignSend, ForeignRead, ForeignDrop
<1>6. Drop(r) => Finished(r)
  BY DEF Drop, Faultless
<1>7. NextEnd(r) => link[Peer(r)] # "open" /\ Pending(r) = <<>>
  BY <1>1 DEF NextEnd, EndOfStream, Live
<1> QED BY <1>2, <1>3, <1>4, <1>5, <1>6, <1>7 DEF Step, Receiving, Sending, Surroundings, Smooth

-----------------------------------------------------------------------------
(* Close frames keep behind what was queued before, and nothing is queued  *)
(* behind them.                                                            *)

(* What the last read() returned, if it failed, was the end.               *)
Told(r) == ret[r].op = "read" /\ ret[r].res # "Ok" => state[r] = "Terminated"

LEMMA EncodeTidy ==
  ASSUME TypeOK, NEW r \in Roles, NEW op, NEW buf, NEW f \in Frame, NEW msg,
         Encode(r, op, buf, f, msg), ~HasClose(encoded[r]),
         op = "write" => f.op # "Close",
         state'[r] # "Active" => f.op = "Close", Told(r),
         state[r] = "Terminated" => state'[r] = "Terminated"
  PROVE  Tidy(r)'
<1>1. encoded'[r] = Append(encoded[r], f) /\ encoded[r] \in Seq(Frame)
  BY DEF TypeOK, Encode
<1>2. HasClose(encoded'[r]) <=> f.op = "Close"
  BY <1>1, HasCloseAppend
<1>3. CASE op = "write"
  <2>1. Finish(r, op, "Ok", NoMessage)
    BY <1>3 DEF Encode
  <2>2. /\ fut'[r].at = "idle" /\ fut'[r].then = "none"
        /\ ret'[r].op = op /\ ret'[r].res = "Ok"
    BY <2>1, FinishCallFields
  <2> QED BY <1>2, <1>3, <2>2 DEF Tidy
<1>4. CASE op # "write"
  <2>1. Submit(r, Append(buf, f), Await(op, "write", "return", NoFrame, msg))
    BY <1>4 DEF Encode
  <2>2. writeBuf'[r] = <<>>
    BY <2>1 DEF Submit, TypeOK
  <2>3. fut'[r].at = "write" /\ fut'[r].then = "return" /\ ret'[r] = ret[r]
    BY <2>1, SuspendFut, AwaitThen DEF Submit
  <2> QED BY <1>2, <2>2, <2>3 DEF Tidy, Told
<1> QED BY <1>3, <1>4

LEMMA WriteFrameTidy ==
  ASSUME TypeOK, NEW r \in Roles, NEW op, NEW f \in Frame, NEW msg,
         WriteFrame(r, op, f, msg), ~HasClose(encoded[r]),
         op = "write" => f.op # "Close",
         state'[r] # "Active" => f.op = "Close", Told(r),
         state[r] = "Terminated" => state'[r] = "Terminated"
  PROVE  Tidy(r)'
<1>1. Masked(r, f) \in Frame /\ Masked(r, f).op = f.op
  BY MaskedType, MaskedOp
<1>2. CASE MustFlush(r)
  <2>1. Submit(r, writeBuf[r], Await(op, "write", "encode", Masked(r, f), msg))
    BY <1>2 DEF WriteFrame
  <2>2. writeBuf'[r] = <<>> /\ encoded' = encoded
    BY <1>2, <2>1 DEF WriteFrame, Submit, TypeOK
  <2>3. /\ fut'[r].at = "write" /\ fut'[r].then = "encode" /\ fut'[r].op = op
        /\ fut'[r].frame = Masked(r, f) /\ ret'[r] = ret[r]
    BY <2>1, SuspendFut, AwaitThen DEF Submit
  <2> QED BY <1>1, <2>2, <2>3 DEF Tidy, Told
<1>3. CASE ~MustFlush(r)
  BY <1>1, <1>3, EncodeTidy DEF WriteFrame
<1> QED BY <1>2, <1>3

LEMMA FinishTidy ==
  ASSUME TypeOK, NEW r \in Roles, NEW op, NEW res, NEW msg, Finish(r, op, res, msg),
         Tidy(r), fut[r].then # "encode",
         encoded'[r] = encoded[r], writeBuf'[r] = writeBuf[r],
         state'[r] # "Active" => state[r] # "Active",
         op = "read" /\ res # "Ok" => state'[r] = "Terminated"
  PROVE  Tidy(r)'
<1>1. /\ fut'[r].at = "idle" /\ fut'[r].then = "none"
      /\ ret'[r].op = op /\ ret'[r].res = res
  BY FinishCallFields
<1> QED BY <1>1 DEF Tidy

LEMMA SuspendTidy ==
  ASSUME TypeOK, NEW r \in Roles, Tidy(r), fut[r].then # "encode",
         NEW op, NEW at, NEW then, Suspend(r, Await(op, at, then, NoFrame, NoMessage)),
         then # "encode", at = "shutdown" \/ then = "shutdown" => state'[r] = "Terminated",
         encoded'[r] = encoded[r], writeBuf'[r] \in {writeBuf[r], <<>>},
         state'[r] # "Active" => state[r] # "Active",
         state[r] = "Terminated" => state'[r] = "Terminated"
  PROVE  Tidy(r)'
<1>1. fut'[r].at = at /\ fut'[r].then = then /\ ret'[r] = ret[r]
  BY SuspendFut, AwaitThen
<1> QED BY <1>1 DEF Tidy

LEMMA FlushAllTidy ==
  ASSUME TypeOK, NEW r \in Roles, NEW op \in {"flush", "close"}, FlushAll(r, op),
         Tidy(r), fut[r].then # "encode"
  PROVE  Tidy(r)'
<1>1. /\ state'[r] # "Active" => state[r] # "Active"
      /\ state[r] = "Terminated" => state'[r] = "Terminated"
      /\ IsDone(r) => state'[r] = "Terminated"
      /\ encoded' = encoded
  BY DEF TypeOK, FlushAll, IsDone, CanRead
<1>2. CASE HasBuffered(r)
  <2>1. PICK then : /\ then \in {"shutdown", "return"}
                    /\ then = "shutdown" => IsDone(r)
                    /\ Submit(r, writeBuf[r], Await(op, "write", then, NoFrame, NoMessage))
    BY <1>2 DEF FlushAll
  <2>2. /\ writeBuf'[r] = <<>>
        /\ Suspend(r, Await(op, "write", then, NoFrame, NoMessage))
    BY <2>1 DEF Submit, TypeOK
  <2> QED BY <1>1, <2>1, <2>2, SuspendTidy
<1>3. CASE ~HasBuffered(r) /\ IsDone(r)
  <2>1. /\ writeBuf' = writeBuf
        /\ Suspend(r, Await(op, "shutdown", "none", NoFrame, NoMessage))
    BY <1>3 DEF FlushAll, codec
  <2> QED BY <1>1, <1>3, <2>1, SuspendTidy
<1>4. CASE ~HasBuffered(r) /\ ~IsDone(r)
  <2>1. writeBuf' = writeBuf /\ Finish(r, op, "Ok", NoMessage)
    BY <1>4 DEF FlushAll, codec
  <2> QED BY <1>1, <2>1, FinishTidy
<1> QED BY <1>2, <1>3, <1>4

(* The peer's Close frame moves the state on, and what moves an active     *)
(* endpoint is answered.                                                   *)
LEMMA CloseIsHeard ==
  ASSUME TypeOK, NEW r \in Roles, NEW f
  PROVE  LET got == ReadMessageFrame(r, f) IN
         got.res = "Ok" =>
           /\ CanRead(state[r])
           /\ f.op = "Close" => got.state \in {"ClosedByPeer", "CloseAcknowledged"}
           /\ got.reply = NoFrame /\ state[r] = "Active" => got.state = "Active"
<1> DEFINE MovesOn(o) == o.res = "Ok" =>
             /\ f.op = "Close" => o.state \in {"ClosedByPeer", "CloseAcknowledged"}
             /\ o.reply = NoFrame /\ state[r] = "Active" => o.state = "Active"
<1>1. \A e : Error(r, e).res = e /\ Error(r, e).state = state[r]
  BY DEF Error, Nothing
<1>2. CASE ~CanRead(state[r])
  BY <1>1, <1>2 DEF ReadMessageFrame, Refuses
<1>3. CASE CanRead(state[r])
  <2>1. CASE f.op = "Close"
    <3>1. DoClose(r, f.body).state \in {"ClosedByPeer", "CloseAcknowledged"}
      BY <1>3 DEF CanRead, DoClose, Nothing
    <3>2. state[r] = "Active" => DoClose(r, f.body).reply # NoFrame
      BY DEF DoClose, Nothing, CloseOf, Plain, NoFrame
    <3>3. MovesOn(HandleClose(r, f.body))
      BY <1>1, <3>1, <3>2 DEF HandleClose
    <3>4. MovesOn(HandleControl(r, f))
      BY <1>1, <2>1, <3>3 DEF HandleControl
    <3> HIDE DEF MovesOn
    <3>5. \A e : e # "Ok" => MovesOn(Error(r, e))
      BY <1>1 DEF MovesOn
    <3>6. MovesOn(ReadMessageFrame(r, f))
      BY <2>1, <3>4, <3>5 DEF ReadMessageFrame, ControlOps
    <3> QED BY <1>3, <3>6 DEF MovesOn
  <2>2. CASE f.op # "Close"
    <3>1. ReadMessageFrame(r, f).state = state[r]
      BY <2>2, HandlingFacts
    <3> QED BY <1>3, <2>2, <3>1
  <2> QED BY <2>1, <2>2
<1> QED BY <1>2, <1>3

LEMMA TidyOwnStep ==
  ASSUME TypeOK, NEW r \in Roles, NoRawClose(r), CloseInv(r), Tidy(r), Smooth(r),
         NextEnd(r) => state[r] # "Active"
  PROVE  Tidy(r)'
<1>0. /\ Told(r)
      /\ fut[r].at \notin {"write", "sync"} => fut[r].then # "encode"
  BY DEF Tidy, Told, CloseInv
<1>1. CASE CallRead(r)
  <2>1. /\ writeBuf' = writeBuf /\ encoded' = encoded /\ fut[r].then # "encode"
        /\ state' \in {state, [state EXCEPT ![r] = "Terminated"]}
        /\ state'[r] # "Active" => state[r] # "Active"
    BY <1>0, <1>1 DEF CallRead, codec, Idling, IsDone, CanRead, TypeOK
  <2>2. CASE Suspend(r, Await("read", "next", "none", NoFrame, NoMessage)) /\ state' = state
    BY <2>1, <2>2, SuspendTidy
  <2>3. ASSUME NEW res, Finish(r, "read", res, NoMessage), state'[r] = "Terminated"
        PROVE  Tidy(r)'
    BY <2>1, <2>3, FinishTidy
  <2> QED BY <1>1, <2>2, <2>3 DEF CallRead, Terminated, TypeOK
<1>2. CASE CallWrite(r)
  <2>1. state' = state /\ fut[r].then # "encode"
    BY <1>0, <1>2 DEF CallWrite, ws, Idling
  <2>2. CASE Writable(r)
    <3>1. PICK f \in Menu[r] : WriteFrame(r, "write", f, NoMessage)
      BY <1>2, <2>2 DEF CallWrite, Writable, Terminated
    <3>2. f \in Frame /\ f.op # "Close"
      BY MenuAssumption DEF NoRawClose
    <3>3. ~HasClose(encoded[r]) /\ state'[r] = "Active" /\ state[r] = "Active"
      BY <2>1, <2>2 DEF Writable, CloseInv
    <3> QED BY <1>0, <3>1, <3>2, <3>3, WriteFrameTidy
  <2>3. CASE ~Writable(r)
    <3>1. /\ encoded' = encoded /\ writeBuf' = writeBuf
          /\ \E res : Finish(r, "write", res, NoMessage)
      BY <1>2, <2>3 DEF CallWrite, codec
    <3> QED BY <2>1, <3>1, FinishTidy
  <2> QED BY <2>2, <2>3
<1>3. CASE CallClose(r)
  <2>1. CASE state[r] = "Active"
    <3>1. PICK body \in CloseBodies : WriteFrame(r, "close", CloseOf(body), NoMessage)
      BY <1>3, <2>1 DEF CallClose
    <3>2. CloseOf(body) \in Frame
      BY CloseBodiesAssumption, PlainType DEF CloseOf, OpCode, ControlOps
    <3>3. CloseOf(body).op = "Close"
      BY DEF CloseOf, Plain
    <3>4. ~HasClose(encoded[r])
      BY <2>1 DEF CloseInv
    <3> QED BY <1>0, <2>1, <3>1, <3>2, <3>3, <3>4, WriteFrameTidy
  <2>2. CASE state[r] # "Active"
    BY <1>0, <1>3, <2>2, FlushAllTidy DEF CallClose, Idling
  <2> QED BY <2>1, <2>2
<1>4. CASE CallFlush(r)
  BY <1>0, <1>4, FlushAllTidy DEF CallFlush, Idling
<1>5. CASE SetConfig(r)
  BY <1>5 DEF SetConfig, codec, history, Tidy
<1>6. CASE FrameDelivered(r) \/ FrameAbsorbed(r)
  <2>1. PICK f \in Arriving(r) :
          /\ ReadMessageFrame(r, f).res = "Ok" /\ ReadMessageFrame(r, f).reply = NoFrame
          /\ state' = [state EXCEPT ![r] = ReadMessageFrame(r, f).state]
    BY <1>6 DEF FrameDelivered, FrameAbsorbed, Handle
  <2>2. state'[r] = ReadMessageFrame(r, f).state
    BY <2>1 DEF TypeOK
  <2>3. /\ state'[r] # "Active" => state[r] # "Active"
        /\ state[r] # "Terminated"
    BY <2>1, <2>2, CloseIsHeard DEF CanRead
  <2>4. encoded' = encoded /\ writeBuf' = writeBuf /\ fut[r].at = "next"
    BY <1>6 DEF FrameDelivered, FrameAbsorbed, history, codec, Reading
  <2>5. CASE FrameAbsorbed(r)
    <3>1. fut' = fut /\ ret' = ret
      BY <2>5 DEF FrameAbsorbed
    <3> QED BY <1>0, <2>3, <2>4, <3>1 DEF Tidy
  <2>6. CASE FrameDelivered(r)
    <3>1. \E msg : Finish(r, "read", "Ok", msg)
      BY <2>6 DEF FrameDelivered
    <3> QED BY <1>0, <2>3, <2>4, <3>1, FinishTidy
  <2> QED BY <1>6, <2>5, <2>6
<1>7. CASE FrameAnswered(r)
  <2>1. PICK f \in Arriving(r) :
          /\ ReadMessageFrame(r, f).reply # NoFrame
          /\ WriteFrame(r, "read", ReadMessageFrame(r, f).reply, ReadMessageFrame(r, f).msg)
          /\ state' = [state EXCEPT ![r] = ReadMessageFrame(r, f).state]
    BY <1>7 DEF FrameAnswered, Handle
  <2>2. ReadMessageFrame(r, f).reply \in Frame
    BY <2>1, ArrivingFacts, ReadMessageFrameType, FrameFacts DEF Outcome
  <2>3. state'[r] = ReadMessageFrame(r, f).state
    BY <2>1 DEF TypeOK
  <2>4. /\ state[r] = "Active"
        /\ ReadMessageFrame(r, f).reply.op = "Close" <=> state'[r] # "Active"
    BY <2>1, <2>3, HandlingFacts
  <2>5. ~HasClose(encoded[r])
    BY <2>4 DEF CloseInv
  <2> QED BY <1>0, <2>1, <2>2, <2>4, <2>5, WriteFrameTidy
<1>8. CASE WriteSome(r)
  <2>1. /\ fut'[r].then = fut[r].then /\ fut'[r].frame = fut[r].frame
        /\ fut'[r].at \in {"write", "sync"} /\ fut'[r].op = fut[r].op
    BY <1>8 DEF TypeOK, WriteSome, Future
  <2>2. encoded' = encoded /\ state' = state /\ writeBuf' = writeBuf /\ ret' = ret
    BY <1>8 DEF WriteSome, history, ws
  <2> QED BY <2>1, <2>2 DEF Tidy
<1>9. CASE SyncThenEncode(r)
  <2>1. fut[r].then = "encode" /\ fut[r].frame \in Frame
    BY <1>9 DEF TypeOK, SyncThenEncode, Flushed, Future
  <2>2. Encode(r, fut[r].op, writeBuf[r], fut[r].frame, fut[r].msg) /\ state' = state
    BY <1>9 DEF SyncThenEncode, ws
  <2>3. ~HasClose(encoded[r]) /\ (fut[r].frame.op = "Close" <=> state'[r] # "Active")
    BY <2>1, <2>2 DEF CloseInv
  <2>4. fut[r].op = "write" => fut[r].frame.op # "Close"
    BY <2>1 DEF Tidy
  <2> QED BY <1>0, <2>1, <2>2, <2>3, <2>4, EncodeTidy
<1>10. CASE SyncThenShutdown(r)
  <2>1. /\ encoded' = encoded /\ state' = state /\ writeBuf' = writeBuf
        /\ fut[r].then = "shutdown"
        /\ Suspend(r, Await(fut[r].op, "shutdown", "none", NoFrame, NoMessage))
    BY <1>10 DEF SyncThenShutdown, ws, codec, Flushed
  <2>2. state[r] = "Terminated"
    BY <2>1 DEF Tidy
  <2> QED BY <2>1, <2>2, SuspendTidy
<1>11. CASE SyncThenReturn(r)
  <2>1. /\ encoded' = encoded /\ state' = state /\ writeBuf' = writeBuf
        /\ fut[r].then # "encode" /\ Finish(r, fut[r].op, "Ok", fut[r].msg)
    BY <1>11 DEF SyncThenReturn, ws, codec, Flushed
  <2> QED BY <2>1, FinishTidy
<1>12. CASE Shutdown(r)
  <2>1. /\ encoded' = encoded /\ state' = state /\ writeBuf' = writeBuf
        /\ fut[r].at = "shutdown" /\ Finish(r, fut[r].op, "ConnectionClosed", NoMessage)
    BY <1>12 DEF Shutdown, ws, codec
  <2>2. state[r] = "Terminated" /\ fut[r].then # "encode"
    BY <1>0, <2>1 DEF Tidy
  <2> QED BY <2>1, <2>2, FinishTidy
<1>13. CASE NextEnd(r)
  <2>1. /\ encoded' = encoded /\ writeBuf' = writeBuf /\ state'[r] = "Terminated"
        /\ fut[r].at = "next" /\ Finish(r, "read", EndResult(r), NoMessage)
    BY <1>13 DEF NextEnd, codec, TypeOK
  <2> QED BY <1>0, <1>13, <2>1, FinishTidy
<1>14. CASE Drop(r) /\ Finished(r)
  <2>1. /\ encoded' = encoded /\ writeBuf' = writeBuf /\ state' = state
        /\ fut[r].at = "idle" /\ fut'[r] = Idle /\ ret'[r] \in {ret[r], NotReturned}
    BY <1>14 DEF Drop, Finished, Abandon, ws, history, TypeOK
  <2>2. fut'[r].at = "idle" /\ fut'[r].then = "none"
    BY <2>1, AwaitThen DEF Idle
  <2>3. NotReturned.res = "Ok"
    BY DEF NotReturned
  <2> QED BY <1>0, <2>1, <2>2, <2>3 DEF Tidy
<1> QED BY <1>1, <1>2, <1>3, <1>4, <1>5, <1>6, <1>7, <1>8, <1>9, <1>10, <1>11, <1>12,
           <1>13, <1>14 DEF Smooth, Calling

-----------------------------------------------------------------------------
(* Steps without faults keep both endpoints settled.                       *)

LEMMA LinkStays ==
  ASSUME TypeOK, [Next]_vars, NEW r \in Roles, link[r] # "open"
  PROVE  link'[r] # "open"
<1>1. ASSUME NEW q \in Roles, Step(q)
      PROVE  link' = link \/ \E l \in {"shut", "dropped"} : link' = [link EXCEPT ![q] = l]
  BY <1>1 DEF Step, Calling, CallRead, CallWrite, CallClose, CallFlush, SetConfig, Receiving,
     DecodeRejects, FrameFails, FrameAnswered, FrameDelivered, FrameAbsorbed, NextEnd,
     NextFails, Handle, Sending, WriteSome, WriteFails, SyncThenEncode, SyncThenReturn,
     SyncThenShutdown, SyncFails, Shutdown, ShutdownFails, Surroundings, Cancel, Drop,
     Break, ForeignSend, ForeignRead, ForeignDrop, stream
<1>2. ASSUME UNCHANGED vars PROVE link' = link
  BY <1>2 DEF vars, stream
<1> QED BY <1>1, <1>2, NextCases DEF Step, TypeOK

LEMMA OverStays ==
  ASSUME TypeInv, TypeInv', NEW r \in Roles, [Next]_vars, taken[r] <= taken'[r], Over(r)
  PROVE  Over(r)'
<1>1. Grows(r) /\ Grows(Peer(r))
  BY PeerFacts, WiredGrows
<1>2. SeenClose(r)'
  BY <1>1, SeenStays DEF Over
<1>3. HasClose(wired'[r])
  <2>1. PICK i \in 1 .. Len(wired[r]) : wired[r][i].op = "Close"
    BY DEF Over, HasClose
  <2>2. Len(wired[r]) \in Nat /\ Len(wired'[r]) \in Nat /\ Len(wired[r]) <= Len(wired'[r])
    BY <1>1 DEF Grows
  <2>3. i \in 1 .. Len(wired'[r]) /\ wired'[r][i].op = "Close"
    BY <1>1, <2>1, <2>2 DEF Grows
  <2> QED BY <2>3 DEF HasClose
<1>4. r = "Client" => link'["Server"] # "open"
  BY LinkStays DEF Over, Roles, TypeInv
<1> QED BY <1>2, <1>3, <1>4 DEF Over

(* A step of r's writes at most a frame of its own, and reads at most one. *)
LEMMA SmoothStream ==
  ASSUME TypeInv, NEW r \in Roles, Smooth(r)
  PROVE  /\ dead' = dead /\ errored' = errored
         /\ wired' = wired
            \/ \E f \in Frame : wired' = [wired EXCEPT ![r] = Append(@, f)]
         /\ taken[r] <= taken'[r]
<1>1. dead' = dead /\ errored' = errored
  BY DEF Smooth, Calling, CallRead, CallWrite, CallClose, CallFlush, SetConfig,
     FrameAnswered, FrameDelivered, FrameAbsorbed, Handle, NextEnd, WriteSome,
     SyncThenEncode, SyncThenReturn, SyncThenShutdown, Shutdown, Drop, stream
<1>2. CASE WriteSome(r)
  <2>1. out[r] \in Seq(Frame) /\ done[r] \in Nat /\ done[r] < Len(out[r])
    BY <1>2 DEF TypeInv, TypeOK, Writing, WriteSome
  <2>2. out[r][done[r] + 1] \in Frame
    BY <2>1
  <2>3. taken' = taken
    BY <1>2 DEF WriteSome
  <2>4. taken[r] <= taken'[r]
    BY <2>3 DEF TypeInv, TypeOK
  <2> QED BY <1>1, <1>2, <2>2, <2>4 DEF WriteSome
<1>3. CASE ~WriteSome(r)
  <2>1. wired' = wired
    BY <1>3 DEF Smooth, Calling, CallRead, CallWrite, CallClose, CallFlush, SetConfig,
       FrameAnswered, FrameDelivered, FrameAbsorbed, Handle, NextEnd,
       SyncThenEncode, SyncThenReturn, SyncThenShutdown, Shutdown, Drop, Abandon,
       Finished, stream
  <2>2. taken' = taken \/ taken' = [taken EXCEPT ![r] = @ + 1]
    BY <1>3 DEF Smooth, Calling, CallRead, CallWrite, CallClose, CallFlush, SetConfig,
       FrameAnswered, FrameDelivered, FrameAbsorbed, Handle, Take, NextEnd,
       SyncThenEncode, SyncThenReturn, SyncThenShutdown, Shutdown, Drop, stream
  <2>3. taken[r] <= taken'[r]
    BY <2>2 DEF TypeInv, TypeOK
  <2> QED BY <1>1, <2>1, <2>3
<1> QED BY <1>2, <1>3

LEMMA LiveOwnStep ==
  ASSUME TypeInv, NEW r \in Roles, Live(r), Smooth(r)
  PROVE  Live(r)'
<1>1. /\ dead' = dead /\ errored' = errored
      /\ wired' = wired
         \/ \E f \in Frame : wired' = [wired EXCEPT ![r] = Append(@, f)]
  BY SmoothStream
<1>2. CASE wired' = wired
  BY <1>1, <1>2 DEF Live, Intact
<1>3. ASSUME NEW f \in Frame, wired' = [wired EXCEPT ![r] = Append(@, f)]
      PROVE  Live(r)'
  <2>1. wired'[r] = Append(wired[r], f) /\ wired[r] \in Seq(OnWire) /\ f \in OnWire
    BY <1>3, FrameFacts DEF TypeInv, TypeOK
  <2>2. f # Torn
    BY FrameFacts
  <2>3. /\ Len(Append(wired[r], f)) = Len(wired[r]) + 1 /\ Len(wired[r]) \in Nat
        /\ Append(wired[r], f)[Len(wired[r]) + 1] = f
        /\ \A i \in 1 .. Len(wired[r]) : Append(wired[r], f)[i] = wired[r][i]
    BY <2>1, AppendFacts
  <2>4. ASSUME NEW i \in 1 .. Len(wired'[r]) PROVE wired'[r][i] # Torn
    <3>1. i \in 1 .. Len(wired[r]) \/ i = Len(wired[r]) + 1
      BY <2>1, <2>3
    <3> QED BY <2>1, <2>2, <2>3, <3>1 DEF Live, Intact
  <2> QED BY <1>1, <2>4 DEF Live, Intact
<1> QED BY <1>1, <1>2, <1>3

LEMMA HeardOwnStep ==
  ASSUME TypeInv, NEW r \in Roles, SeenInv(r), Live(Peer(r)), Heard(r), Smooth(r), Step(r),
         wired'[Peer(r)] = wired[Peer(r)]
  PROVE  Heard(r)'
<1> SUFFICES ASSUME SeenClose(r)' PROVE (PeerCloses(r) \/ state[r] = "Terminated")'
  BY DEF Heard
<1>0. TypeOK /\ taken[r] \in Nat
  BY DEF TypeInv, TypeOK
<1>1. CASE FrameAnswered(r) \/ FrameDelivered(r) \/ FrameAbsorbed(r)
  <2>1. PICK f \in Arriving(r) :
          /\ ReadMessageFrame(r, f).res = "Ok"
          /\ state' = [state EXCEPT ![r] = ReadMessageFrame(r, f).state]
          /\ taken' = [taken EXCEPT ![r] = @ + 1]
    BY <1>1 DEF FrameAnswered, FrameDelivered, FrameAbsorbed, Handle, Take
  <2>2. state'[r] = ReadMessageFrame(r, f).state /\ taken'[r] = taken[r] + 1
    BY <1>0, <2>1 DEF TypeOK
  <2>3. CanRead(state[r]) /\ (f.op = "Close" => state'[r] \in {"ClosedByPeer", "CloseAcknowledged"})
    BY <1>0, <2>1, <2>2, CloseIsHeard
  <2>4. f = wired[Peer(r)][taken[r] + 1]
    BY <1>0, ArrivingFacts DEF Live
  <2>5. ~SeenClose(r)
    BY <2>3 DEF Heard, PeerCloses, CanRead
  <2>6. PICK i \in 1 .. Len(wired[Peer(r)]) : i <= taken[r] + 1 /\ wired[Peer(r)][i].op = "Close"
    BY <2>2 DEF SeenClose
  <2>7. i = taken[r] + 1
    BY <1>0, <2>5, <2>6 DEF SeenClose
  <2> QED BY <2>3, <2>4, <2>6, <2>7 DEF PeerCloses
<1>2. CASE taken' = taken
  <2>1. PeerCloses(r) \/ state[r] = "Terminated"
    BY <1>2 DEF Heard, SeenClose
  <2>2. state'[r] = state[r] \/ state'[r] = "Terminated"
    BY <1>0, <2>1, StateMoveStep DEF StateMove, PeerCloses
  <2> QED BY <2>1, <2>2 DEF PeerCloses
<1>3. FrameAnswered(r) \/ FrameDelivered(r) \/ FrameAbsorbed(r) \/ taken' = taken
  BY DEF Smooth, Calling, CallRead, CallWrite, CallClose, CallFlush, SetConfig,
     NextEnd, WriteSome, SyncThenEncode, SyncThenReturn, SyncThenShutdown, Shutdown,
     Drop, stream
<1> QED BY <1>1, <1>2, <1>3

(* The stream ends only behind the peer's Close frame.                     *)
LEMMA EndIsHeard ==
  ASSUME TypeInv, NEW r \in Roles, SeenInv(r), Live(r), Live(Peer(r)), Heard(r),
         Ends(Peer(r)), NextEnd(r)
  PROVE  SeenClose(r) /\ link[Peer(r)] # "open" /\ state[r] # "Active"
<1> DEFINE w == wired[Peer(r)]
<1>1. link[Peer(r)] # "open" /\ Pending(r) = <<>>
  BY DEF NextEnd, EndOfStream, Live, Intact, Desynced
<1>2. HasClose(w)
  BY <1>1 DEF Ends, Over
<1>3. w \in Seq(OnWire) /\ taken[r] \in Nat /\ taken[r] <= Len(w)
  BY PeerFacts DEF TypeInv, TypeOK, SeenInv
<1>4. PICK i \in 1 .. Len(w) : w[i].op = "Close"
  BY <1>2 DEF HasClose
<1>5. Len(w) = taken[r]
  <2>1. SubSeq(w, taken[r] + 1, Len(w)) = <<>>
    BY <1>1 DEF Pending
  <2> DEFINE t == taken[r]
  <2>2. Len(w) \in Nat /\ t \in Nat /\ t <= Len(w)
    BY <1>3
  <2> HIDE DEF w, t
  <2>3. t < Len(w) => SubSeq(w, t + 1, Len(w)) # <<>>
    <3> SUFFICES ASSUME t < Len(w) PROVE SubSeq(w, t + 1, Len(w)) # <<>>
      OBVIOUS
    <3>1. Len(SubSeq(w, t + 1, Len(w))) = Len(w) - (t + 1) + 1
      BY <1>3, <2>2
    <3>2. Len(SubSeq(w, t + 1, Len(w))) # 0
      BY <2>2, <3>1
    <3>3. Len(<<>>) = 0
      OBVIOUS
    <3> QED BY <3>2, <3>3, Zenon
  <2>4. ~(t < Len(w))
    BY <2>1, <2>3, Zenon DEF t
  <2>5. Len(w) = t
    BY <2>2, <2>4
  <2> QED BY <2>5, Zenon DEF t
<1>6. SeenClose(r)
  <2>1. i <= taken[r]
    BY <1>3, <1>5
  <2> QED BY <1>4, <2>1 DEF SeenClose
<1> QED BY <1>1, <1>6 DEF Heard, PeerCloses

LEMMA NewlyTerminated ==
  ASSUME TypeOK, NEW r \in Roles, Smooth(r), state[r] # "Terminated",
         state'[r] = "Terminated"
  PROVE  /\ fut[r].at \in {"idle", "next"}
         /\ IsDone(r) \/ NextEnd(r)
<1>1. CASE FrameAnswered(r) \/ FrameDelivered(r) \/ FrameAbsorbed(r)
  <2>1. PICK f \in Arriving(r) : state' = [state EXCEPT ![r] = ReadMessageFrame(r, f).state]
    BY <1>1 DEF FrameAnswered, FrameDelivered, FrameAbsorbed, Handle
  <2>2. state'[r] = ReadMessageFrame(r, f).state
    BY <2>1 DEF TypeOK
  <2> QED BY <2>2, HandlingFacts DEF Moved
<1>2. CASE Calling(r)
  BY <1>2 DEF Calling, CallRead, CallWrite, CallClose, CallFlush, SetConfig, FlushAll,
     Idling, ws, TypeOK
<1>3. CASE NextEnd(r)
  BY <1>3 DEF NextEnd
<1>4. CASE WriteSome(r) \/ SyncThenEncode(r) \/ SyncThenReturn(r) \/ SyncThenShutdown(r)
           \/ Shutdown(r) \/ Drop(r)
  BY <1>4 DEF WriteSome, SyncThenEncode, SyncThenReturn, SyncThenShutdown, Shutdown,
     Drop, ws
<1> QED BY <1>1, <1>2, <1>3, <1>4 DEF Smooth

LEMMA EndsOwnStep ==
  ASSUME TypeInv, TypeInv', [Next]_vars, NEW r \in Roles, SeenInv(r), OrderInv(r),
         CloseInv(r), Settled(r), Live(Peer(r)), Ends(Peer(r)), Smooth(r)
  PROVE  Ends(r)'
<1>0. TypeOK /\ Live(r) /\ Tidy(r) /\ Heard(r) /\ Ends(r)
  BY DEF TypeInv, Settled
<1>1. CASE state[r] = "Terminated" \/ link[r] # "open"
  BY <1>0, <1>1, OverStays, SmoothStream DEF Ends
<1>2. CASE state[r] # "Terminated" /\ link[r] = "open"
  <2>1. link'[r] = "open"
    <3>1. ~Shutdown(r)
      BY <1>0, <1>2 DEF Shutdown, Tidy
    <3>2. ~(Drop(r) /\ Finished(r))
      BY <1>0, <1>2 DEF Finished, Tidy
    <3>3. link' = link
      BY <3>1, <3>2 DEF Smooth, Calling, CallRead, CallWrite, CallClose, CallFlush,
         SetConfig, FrameAnswered, FrameDelivered, FrameAbsorbed, Handle, NextEnd,
         WriteSome, SyncThenEncode, SyncThenReturn, SyncThenShutdown, stream
    <3> QED BY <1>2, <3>3
  <2>2. ASSUME state'[r] = "Terminated" PROVE Over(r)
    <3>1. fut[r].at \in {"idle", "next"} /\ (IsDone(r) \/ NextEnd(r))
      BY <1>0, <1>2, <2>2, NewlyTerminated
    <3>2. CASE IsDone(r)
      <4>1. PeerCloses(r) /\ r = "Server"
        BY <1>0, <1>2, <3>2 DEF IsDone, CanRead, TypeOK, State, PeerCloses
      <4>2. SeenClose(r)
        BY <4>1 DEF SeenInv, Live
      <4>3. HasClose(wired[r])
        BY <1>0, <1>2, <3>1, <4>1, CloseIsWritten DEF PeerCloses
      <4> QED BY <4>1, <4>2, <4>3 DEF Over
    <3>3. CASE NextEnd(r)
      <4>1. SeenClose(r) /\ link[Peer(r)] # "open" /\ state[r] # "Active"
        BY <1>0, <3>3, EndIsHeard
      <4>2. HasClose(wired[r])
        BY <1>0, <1>2, <3>1, <4>1, CloseIsWritten
      <4> QED BY <4>1, <4>2 DEF Over, Peer
    <3> QED BY <3>1, <3>2, <3>3
  <2>3. Over(r) => Over(r)'
    BY SmoothStream, OverStays
  <2> QED BY <2>1, <2>2, <2>3 DEF Ends
<1> QED BY <1>1, <1>2

LEMMA SettledOtherStep ==
  ASSUME TypeInv, TypeInv', [Next]_vars, NEW q \in Roles, NEW r \in Roles, q # r, Step(q),
         SeenInv(r), Settled(r)
  PROVE  Settled(r)'
<1>1. Same(r) /\ SameTransport(r) /\ SameReading(r)
  BY StepIsLocal, TransportIsLocal, ReadingIsLocal DEF TypeInv
<1>2. /\ state'[r] = state[r] /\ fut'[r] = fut[r] /\ ret'[r] = ret[r]
      /\ writeBuf'[r] = writeBuf[r] /\ encoded'[r] = encoded[r] /\ wired'[r] = wired[r]
      /\ taken'[r] = taken[r] /\ link'[r] = link[r] /\ dead'[r] = dead[r]
      /\ errored'[r] = errored[r]
  BY <1>1 DEF Same, SameCall, SameCodec, SameStream, SameTransport, SameReading
<1>3. Live(r)' /\ Tidy(r)'
  BY <1>2 DEF Settled, Live, Intact, Tidy
<1>4. Heard(r)'
  <2>1. SeenClose(r)' => SeenClose(r)
    <3>1. Grows(Peer(r))
      BY PeerFacts, WiredGrows
    <3>2. taken[r] \in Nat /\ taken[r] <= Len(wired[Peer(r)]) /\ Len(wired[Peer(r)]) \in Nat
      <4>1. Len(wired[Peer(r)]) \in Nat
        BY <3>1 DEF Grows
      <4>2. taken[r] \in Nat
        BY DEF TypeInv, TypeOK
      <4> QED BY <4>1, <4>2 DEF SeenInv
    <3>3. ASSUME NEW i \in 1 .. Len(wired'[Peer(r)]), i <= taken'[r],
                 wired'[Peer(r)][i].op = "Close"
          PROVE  SeenClose(r)
      <4>1. i \in 1 .. Len(wired[Peer(r)])
        BY <1>2, <3>2, <3>3
      <4>2. wired[Peer(r)][i].op = "Close"
        BY <3>1, <3>3, <4>1 DEF Grows
      <4> QED BY <1>2, <3>3, <4>1, <4>2 DEF SeenClose
    <3> QED BY <3>3 DEF SeenClose
  <2> QED BY <1>2, <2>1 DEF Settled, Heard, PeerCloses
<1>5. Ends(r)'
  <2>1. taken[r] <= taken'[r]
    BY <1>2 DEF TypeInv, TypeOK
  <2> QED BY <1>2, <2>1, OverStays DEF Settled, Ends
<1> QED BY <1>3, <1>4, <1>5 DEF Settled

LEMMA SettledOwnStep ==
  ASSUME TypeInv, TypeInv', [Next]_vars, Faultless, Faultless', NEW r \in Roles, Step(r),
         SeenInv(r), SeenInv(Peer(r)), OrderInv(r), CloseInv(r),
         Settled(r), Settled(Peer(r))
  PROVE  Settled(r)'
<1>1. TypeOK /\ Live(r) /\ Tidy(r) /\ Heard(r) /\ Live(Peer(r)) /\ Ends(Peer(r))
  BY DEF TypeInv, Settled
<1>2. NoRawClose(r) /\ ~Break(r)
  BY <1>1, FaultlessMeans, NoBreak
<1>3. Smooth(r)
  BY <1>1, <1>2, SmoothSteps
<1>4. Live(r)'
  BY <1>1, <1>3, LiveOwnStep
<1>5. Tidy(r)'
  <2>1. NextEnd(r) => state[r] # "Active"
    BY <1>1, EndIsHeard
  <2> QED BY <1>1, <1>2, <1>3, <2>1, TidyOwnStep
<1>6. Heard(r)'
  <2>1. wired'[Peer(r)] = wired[Peer(r)]
    BY <1>1, PeerFacts, StepIsLocal DEF Same, SameStream
  <2> QED BY <1>1, <1>3, <2>1, HeardOwnStep
<1>7. Ends(r)'
  BY <1>1, <1>3, EndsOwnStep
<1> QED BY <1>4, <1>5, <1>6, <1>7 DEF Settled

LEMMA FaultsStay ==
  ASSUME TypeOK, [Next]_vars, Faultless'
  PROVE  Faultless
<1>1. cancels = 0
  <2>1. cancels \in Nat /\ cancels' = 0
    BY DEF TypeOK, Faultless
  <2> QED BY <2>1, CancelsCount
<1>2. ASSUME NEW r \in Roles PROVE clean[r]
  <2>1. clean'[r]
    BY DEF Faultless
  <2>2. CASE UNCHANGED vars
    BY <2>1, <2>2 DEF vars, history
  <2>3. ASSUME NEW q \in Roles, Step(q) PROVE clean[r]
    <3>1. CASE q = r
      BY <2>1, <2>3, <3>1, CleanFalls
    <3>2. CASE q # r
      BY <2>1, <2>3, <3>2, ReadingIsLocal DEF SameReading
    <3> QED BY <3>1, <3>2
  <2> QED BY <2>2, <2>3, NextCases DEF Step
<1> QED BY <1>1, <1>2 DEF Faultless, LawfulRoles, Ours

SettledAll == Faultless => \A r \in Roles : Settled(r)

(* Without faults both endpoints end as RFC 6455 asks: each is dropped     *)
(* only with the peer's Close read, its own on the transport and nothing   *)
(* unread, the client after the server.                                    *)
THEOREM CleanTeardownHolds == Spec => []CleanTeardown
<1>1. Init => SettledAll
  <2> SUFFICES ASSUME Init, NEW r \in Roles PROVE Settled(r)
    BY DEF SettledAll
  <2>1. /\ encoded[r] = <<>> /\ wired[r] = <<>> /\ wired[Peer(r)] = <<>>
        /\ state[r] = "Active" /\ ret[r].op = "none" /\ link[r] = "open"
        /\ fut[r].at = "idle" /\ fut[r].then = "none" /\ ~dead[r] /\ ~errored[r]
    BY AwaitThen, PeerFacts DEF Init, Idle, NotReturned
  <2>2. ~HasClose(encoded[r]) /\ ~SeenClose(r) /\ Intact(r)
    BY <2>1 DEF HasClose, SeenClose, Intact
  <2> QED BY <2>1, <2>2 DEF Settled, Live, Tidy, Heard, Ends
<1>2. /\ TypeInv /\ TypeInv' /\ BufferInvAll /\ OrderInvAll /\ SeenInvAll /\ CloseInvAll
      /\ SettledAll /\ [Next]_vars
      => SettledAll'
  <2> SUFFICES ASSUME TypeInv, TypeInv', OrderInvAll, SeenInvAll, CloseInvAll, SettledAll,
                      [Next]_vars, Faultless', NEW r \in Roles
               PROVE  Settled(r)'
    BY DEF SettledAll
  <2>1. TypeOK /\ Faultless
    BY FaultsStay DEF TypeInv
  <2>2. \A q \in Roles : Settled(q) /\ SeenInv(q) /\ OrderInv(q) /\ CloseInv(q)
    BY <2>1, FaultlessMeans DEF SettledAll, SeenInvAll, OrderInvAll, CloseInvAll
  <2>3. CASE UNCHANGED vars
    BY <2>2, <2>3 DEF vars, ws, codec, stream, history, Settled, Live, Intact, Tidy, Heard,
       PeerCloses, Ends, Over, SeenClose
  <2>4. ASSUME NEW q \in Roles, Step(q)
        PROVE  Settled(r)'
    <3>1. CASE q = r
      BY <2>1, <2>2, <2>4, <3>1, PeerFacts, SettledOwnStep
    <3>2. CASE q # r
      BY <2>2, <2>4, <3>2, SettledOtherStep
    <3> QED BY <3>1, <3>2
  <2> QED BY <2>3, <2>4, NextCases DEF Step
<1>3. TypeInv /\ [Next]_vars => TypeInv'
  BY TypeStep
<1>4. TypeInv /\ OrderInvAll /\ SeenInvAll /\ CloseInvAll /\ SettledAll => CleanTeardown
  <2> SUFFICES ASSUME TypeInv, OrderInvAll, SeenInvAll, CloseInvAll, SettledAll, Faultless,
                      NEW r \in Roles, link[r] = "dropped"
               PROVE  /\ HasClose(Taken(r)) /\ HasClose(wired[r])
                      /\ Pending(r) = <<>>
                      /\ r = "Client" => link["Server"] # "open"
    BY DEF CleanTeardown
  <2>1. TypeOK /\ Peer(r) \in Roles
    BY PeerFacts DEF TypeInv
  <2>2. \A q \in Roles : Settled(q) /\ SeenInv(q) /\ OrderInv(q) /\ CloseInv(q)
    BY <2>1, FaultlessMeans DEF SettledAll, SeenInvAll, OrderInvAll, CloseInvAll
  <2>3. Over(r)
    BY <2>2 DEF Settled, Ends
  <2>4. taken[r] = Len(wired[Peer(r)])
    <3>1. Prefix(Peer(r)) /\ OnlyLast(encoded[Peer(r)])
      BY <2>1, <2>2 DEF Settled, Live, OrderInv, CloseInv
    <3> QED BY <2>1, <2>2, <2>3, <3>1, NothingPending DEF Over
  <2>5. wired[Peer(r)] \in Seq(OnWire) /\ Len(wired[Peer(r)]) \in Nat
    BY <2>1 DEF TypeOK
  <2>6. Pending(r) = <<>>
    BY <2>4, <2>5 DEF Pending
  <2>7. Taken(r) = wired[Peer(r)]
    BY <2>4, <2>5 DEF Taken
  <2>8. HasClose(Taken(r))
    BY <2>3, <2>7 DEF Over, SeenClose, HasClose
  <2> QED BY <2>3, <2>6, <2>8 DEF Over
<1> QED BY <1>1, <1>2, <1>3, <1>4, TypeInvariant, OrderAlways, SeenAlways, CloseAlways, PTL
        DEF Spec
=============================================================================
