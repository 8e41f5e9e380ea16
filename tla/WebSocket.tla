------------------------------ MODULE WebSocket ------------------------------
(***************************************************************************)
(* Two WebSocket endpoints, a client and a server, over one duplex byte    *)
(* stream: protocol/websocket.rs over protocol/frame/codec.rs.             *)
(*                                                                         *)
(* An endpoint's methods take &mut self, so at most one of its futures     *)
(* exists at a time; the interleaving is that of the two endpoints, the    *)
(* transport and the caller.  A future runs from one await to the next in  *)
(* one step: `fut' says which method is suspended, at which await, and     *)
(* what it does when the codec's flush returns.  A caller may drop a       *)
(* future (Cancel), drop the whole endpoint (Drop), or call another        *)
(* method.  A role in Foreign is played by another implementation, which   *)
(* sends whatever its Menu allows.                                         *)
(***************************************************************************)
EXTENDS IncompleteMessage, FiniteSets

CONSTANTS
  Foreign,        \* roles another implementation plays
  Menu,           \* per role: the frames its caller writes, or it sends
  CloseBodies,    \* arguments of close(): Empty for None, or a CloseFrame
  Configs,        \* the WebSocketConfig values in use
  Capacity,       \* frames the transport holds in one direction
  MaxCalls,       \* per role: write, close, flush and set_config calls
  MaxCancels,     \* futures a caller drops
  Garbage,        \* frames a decoder may make of a torn byte stream
  Resets,         \* whether the transport may fail at any time
  EarlyDrop       \* whether a caller may drop an endpoint at any time

Roles == {"Client", "Server"}
Peer(r) == IF r = "Client" THEN "Server" ELSE "Client"

(* WebSocketConfig.  write_buffer_size is counted in frames here; a limit  *)
(* of None is NoLimit.                                                     *)
Config == [writeLimit : Nat, maxMessage : Nat, maxFrame : Nat,
           acceptUnmasked : BOOLEAN]

ASSUME ForeignAssumption == Foreign \subseteq Roles
ASSUME MenuAssumption == Menu \in [Roles -> SUBSET Frame]
ASSUME CloseBodiesAssumption == CloseBodies \subseteq Payload
ASSUME ConfigsAssumption == Configs \subseteq Config
ASSUME BoundsAssumption ==
  /\ Capacity \in Nat \ {0}
  /\ MaxCalls \in [Roles -> Nat]
  /\ MaxCancels \in Nat
ASSUME GarbageAssumption == Garbage \subseteq Frame
ASSUME FaultsAssumption == Resets \in BOOLEAN /\ EarlyDrop \in BOOLEAN

VARIABLES
  state,      \* WebSocketState
  inc,        \* incomplete: the fragmented message being received
  cfg,        \* config
  writeBuf,   \* FrameCodec::write_buf, as the frames encoded into it
  out,        \* the buffer a pending write_all owns
  done,       \* how many frames of it the transport has taken
  fut,        \* the pending future of this endpoint
  wired,      \* every frame this endpoint has put on the transport
  taken,      \* how many frames of the peer's `wired' its decoder has read
  link,       \* this endpoint's half of the transport
  dead,       \* the transport has failed for this endpoint
  errored,    \* FramedRead has yielded an error
  ret,        \* what the last call returned, if its future was not dropped
  encoded,    \* history: every frame encoded
  delivered,  \* history: every message read() returned
  clean,      \* history: no frame has been rejected
  calls, cancels

ws      == <<state, inc, cfg>>
codec   == <<writeBuf, out, done>>
stream  == <<wired, taken, link, dead, errored>>
history == <<encoded, delivered, clean>>
bounds  == <<calls, cancels>>
vars == <<ws, codec, fut, stream, ret, history, bounds>>

-----------------------------------------------------------------------------
(* Types.                                                                  *)

State == {"Active", "ClosedByUs", "ClosedByPeer", "CloseAcknowledged",
          "Terminated"}

(* A frame cut short on the wire by a write that was abandoned.            *)
Torn == [NoFrame EXCEPT !.op = "Torn"]
OnWire == Frame \cup {Torn}

Method == {"read", "write", "close", "flush"}

(* A pending future: the method, the await it is suspended at, what        *)
(* follows the codec's flush, the frame to encode then, and the message    *)
(* read() returns in the end.                                              *)
Await(op, at, then, frame, msg) ==
  [op |-> op, at |-> at, then |-> then, frame |-> frame, msg |-> msg]
Idle == Await("none", "idle", "none", NoFrame, NoMessage)
Future ==
  {f \in [op : Method \cup {"none"},
          at : {"idle", "next", "write", "sync", "shutdown"},
          then : {"none", "encode", "return", "shutdown"},
          frame : MaybeFrame, msg : MaybeMessage] :
     f.then = "encode" => f.frame \in Frame}

Result == {"Ok", "Io", "Capacity", "Utf8", "ConnectionClosed", "AlreadyClosed",
           "SendAfterClosing", "ReceivedAfterClosing",
           "ResetWithoutClosingHandshake", "InvalidOpcode", "NonZeroReservedBits",
           "UnmaskedFrameFromClient", "MaskedFrameFromServer",
           "FragmentedControlFrame", "ControlFrameTooBig",
           "InvalidCloseSequence", "UnknownControlFrameType",
           "UnexpectedContinueFrame", "ExpectedFragment",
           "UnknownDataFrameType"}
Returned == [op : Method \cup {"none"}, res : Result]
NotReturned == [op |-> "none", res |-> "Ok"]

(* Type correctness of the two endpoints, the transport and the histories. *)
TypeOK ==
  /\ state \in [Roles -> State]
  /\ inc \in [Roles -> MaybePartial]
  /\ cfg \in [Roles -> Configs]
  /\ writeBuf \in [Roles -> Seq(Frame)]
  /\ out \in [Roles -> Seq(Frame)]
  /\ done \in [Roles -> Nat]
  /\ fut \in [Roles -> Future]
  /\ wired \in [Roles -> Seq(OnWire)]
  /\ taken \in [Roles -> Nat]
  /\ link \in [Roles -> {"open", "shut", "dropped"}]
  /\ dead \in [Roles -> BOOLEAN]
  /\ errored \in [Roles -> BOOLEAN]
  /\ ret \in [Roles -> Returned]
  /\ encoded \in [Roles -> Seq(Frame)]
  /\ delivered \in [Roles -> Seq(Message)]
  /\ clean \in [Roles -> BOOLEAN]
  /\ calls \in [Roles -> Nat]
  /\ cancels \in Nat

(* WebSocket::setup.  The configuration of a foreign role is never looked  *)
(* at.                                                                     *)
Init ==
  /\ state = [r \in Roles |-> "Active"]
  /\ inc = [r \in Roles |-> NoPartial]
  /\ cfg \in [Roles -> Configs]
  /\ \A r \in Foreign : cfg[r] = CHOOSE c \in Configs : TRUE
  /\ writeBuf = [r \in Roles |-> <<>>]
  /\ out = [r \in Roles |-> <<>>]
  /\ done = [r \in Roles |-> 0]
  /\ fut = [r \in Roles |-> Idle]
  /\ wired = [r \in Roles |-> <<>>]
  /\ taken = [r \in Roles |-> 0]
  /\ link = [r \in Roles |-> "open"]
  /\ dead = [r \in Roles |-> FALSE]
  /\ errored = [r \in Roles |-> FALSE]
  /\ ret = [r \in Roles |-> NotReturned]
  /\ encoded = [r \in Roles |-> <<>>]
  /\ delivered = [r \in Roles |-> <<>>]
  /\ clean = [r \in Roles |-> TRUE]
  /\ calls = [r \in Roles |-> 0]
  /\ cancels = 0

-----------------------------------------------------------------------------
(* Reading: what read_message_frame makes of one frame.  The outcome holds *)
(* the error or "Ok", the message for the caller, the frame to send back,  *)
(* and the new state and incomplete message.                               *)

(* WebSocketState::can_read, is_active and check_not_terminated.           *)
CanRead_Active(s) == s = "Active"
CanRead(s) == s \in {"Active", "ClosedByUs"}
Writable_WhileReading(r) == CanRead(state[r])
Writable(r) == state[r] = "Active"
Terminated(r) == state[r] = "Terminated"

(* A server that cannot read any more is done; a client waits for the end  *)
(* of the stream.                                                          *)
IsDone_AnyRole(r) == ~CanRead(state[r])
IsDone(r) == r = "Server" /\ ~CanRead(state[r])

Nothing(r) == [res |-> "Ok", msg |-> NoMessage, reply |-> NoFrame,
               state |-> state[r], inc |-> inc[r]]
Error(r, e) == [Nothing(r) EXCEPT !.res = e]
Return(r, msg) == [Nothing(r) EXCEPT !.msg = msg]

(* FrameDecoder::decode: the header's opcode and the limit are checked as  *)
(* soon as it is there; a server unmasks, and insists on a mask unless     *)
(* told otherwise.  The decoder therefore leaves no reserved opcode for    *)
(* read_message_frame to refuse.                                           *)
DecodeError(r, f) ==
  IF f.op \in {"ReservedData", "ReservedControl"} THEN "InvalidOpcode"
  ELSE IF f.body.len > cfg[r].maxFrame THEN "Capacity"
  ELSE IF r = "Server" /\ ~f.masked /\ ~cfg[r].acceptUnmasked
    THEN "UnmaskedFrameFromClient"
  ELSE "Ok"

(* A variant in which an endpoint that is closing answers as an active one *)
(* does, and one that leaves the peer's Close without an answer.           *)
DoClose_Always(r, body) ==
  [Nothing(r) EXCEPT !.state = "ClosedByPeer",
                     !.msg = MessageOf("Close", Acceptable(body)),
                     !.reply = CloseOf(Acceptable(body))]
DoClose_Silent(r, body) ==
  [DoClose_Always(r, body) EXCEPT !.reply = NoFrame,
     !.state = IF state[r] = "Active" THEN @ ELSE "CloseAcknowledged"]

(* do_close.  The last two states never get here: read_message_frame       *)
(* refuses frames in them.                                                 *)
DoClose(r, body) ==
  CASE state[r] = "Active" ->
         [Nothing(r) EXCEPT !.state = "ClosedByPeer",
                            !.msg = MessageOf("Close", Acceptable(body)),
                            !.reply = CloseOf(Acceptable(body))]
    [] state[r] = "ClosedByUs" ->
         [Nothing(r) EXCEPT !.state = "CloseAcknowledged",
                            !.msg = MessageOf("Close", body)]
    [] OTHER -> Nothing(r)

(* No ping processing after we sent a close frame.                         *)
PongReply_Always(r, body) == PongOf(body)
PongReply_WhenIdle(r, body) ==
  IF Writable(r) /\ inc[r] = NoPartial THEN PongOf(body) ELSE NoFrame
PongReply_WhenEmpty(r, body) ==
  IF Writable(r) /\ writeBuf[r] = <<>> THEN PongOf(body) ELSE NoFrame
PongReply(r, body) == IF Writable(r) THEN PongOf(body) ELSE NoFrame

(* into_close, then do_close: a body of one byte has no status code, and a *)
(* reason must be text.                                                    *)
BadReason(body) == body.len > 2 /\ body.utf8 # "whole"
HandleClose(r, body) ==
  IF body.len = 1 THEN Error(r, "InvalidCloseSequence")
  ELSE IF BadReason(body) THEN Error(r, "Utf8")
  ELSE DoClose(r, body)

HandleControl(r, f) ==
  IF ~f.fin THEN Error(r, "FragmentedControlFrame")
  ELSE IF f.body.len > 125 THEN Error(r, "ControlFrameTooBig")
  ELSE CASE f.op = "Close" -> HandleClose(r, f.body)
         [] f.op = "Ping" ->
              [Return(r, MessageOf("Ping", f.body))
                 EXCEPT !.reply = PongReply(r, f.body)]
         [] f.op = "Pong" -> Return(r, MessageOf("Pong", f.body))
         [] OTHER -> Error(r, "UnknownControlFrameType")

(* A whole message in one frame: check_max_size, then into_text.           *)
HandleWhole(r, f) ==
  IF f.body.len > cfg[r].maxMessage THEN Error(r, "Capacity")
  ELSE IF f.op = "Text" /\ f.body.len > 0 /\ f.body.utf8 # "whole"
    THEN Error(r, "Utf8")
  ELSE Return(r, MessageOf(f.op, f.body))

(* The first fragment: a message that fails to start is not kept.          *)
HandleFirst(r, f) ==
  LET ext == Extend(NewPartial(f.op), f.body, cfg[r].maxMessage)
  IN IF ext.res = "Ok" THEN [Nothing(r) EXCEPT !.inc = ext.inc]
                       ELSE Error(r, ext.res)

(* A continuation: a fragment that fails leaves the message incomplete;    *)
(* the last one takes it, whether or not it is complete text.              *)
HandleContinue(r, f) ==
  LET ext == Extend(inc[r], f.body, cfg[r].maxMessage)
  IN IF inc[r] = NoPartial THEN Error(r, "UnexpectedContinueFrame")
     ELSE IF ext.res # "Ok" THEN [Error(r, ext.res) EXCEPT !.inc = ext.inc]
     ELSE IF ~f.fin THEN [Nothing(r) EXCEPT !.inc = ext.inc]
     ELSE IF CompleteFails(ext.inc)
       THEN [Error(r, "Utf8") EXCEPT !.inc = NoPartial]
     ELSE [Return(r, Completed(ext.inc)) EXCEPT !.inc = NoPartial]

(* A new message before the last fragment of the one in progress.          *)
Interrupts_Never(r) == FALSE
Interrupts(r) == inc[r] # NoPartial

HandleData(r, f) ==
  IF f.op = "Continue" THEN HandleContinue(r, f)
  ELSE IF Interrupts(r) THEN Error(r, "ExpectedFragment")
  ELSE IF f.op = "ReservedData" THEN Error(r, "UnknownDataFrameType")
  ELSE IF f.fin THEN HandleWhole(r, f)
  ELSE HandleFirst(r, f)

(* read_message_frame on a frame the decoder returned.                     *)
Refuses_Never(r) == FALSE
Refuses(r) == ~CanRead(state[r])

ReadMessageFrame(r, f) ==
  IF Refuses(r) THEN Error(r, "ReceivedAfterClosing")
  ELSE IF f.rsv THEN Error(r, "NonZeroReservedBits")
  ELSE IF r = "Client" /\ f.masked THEN Error(r, "MaskedFrameFromServer")
  ELSE IF f.op \in ControlOps THEN HandleControl(r, f)
  ELSE HandleData(r, f)

-----------------------------------------------------------------------------
(* Writing: what a method does up to its next await.                       *)

(* The method returns.  A read that returns a message delivers it.         *)
Finish(r, op, res, msg) ==
  /\ fut' = [fut EXCEPT ![r] = Idle]
  /\ ret' = [ret EXCEPT ![r] = [op |-> op, res |-> res]]
  /\ delivered' = IF msg = NoMessage THEN delivered
                  ELSE [delivered EXCEPT ![r] = Append(@, msg)]

(* The method stays pending, with this future.                             *)
Suspend(r, future) ==
  /\ fut' = [fut EXCEPT ![r] = future]
  /\ UNCHANGED <<ret, delivered>>

(* FrameCodec::flush on a buffer that is not empty: the buffer moves to    *)
(* write_all, an empty one takes its place.                                *)
Submit(r, buf, future) ==
  /\ writeBuf' = [writeBuf EXCEPT ![r] = <<>>]
  /\ out' = [out EXCEPT ![r] = buf]
  /\ done' = [done EXCEPT ![r] = 0]
  /\ Suspend(r, future)

(* The encode at the end of FrameCodec::send, onto buf, and what the       *)
(* method does next: write() returns, read() and close() flush.            *)
Encode(r, op, buf, f, msg) ==
  /\ encoded' = [encoded EXCEPT ![r] = Append(@, f)]
  /\ IF op = "write"
       THEN /\ writeBuf' = [writeBuf EXCEPT ![r] = Append(buf, f)]
            /\ Finish(r, op, "Ok", NoMessage)
            /\ UNCHANGED <<out, done>>
       ELSE Submit(r, Append(buf, f), Await(op, "write", "return", NoFrame, msg))

(* write_frame: a client masks; FrameCodec::send makes room first when the *)
(* buffer has grown past the limit.                                        *)
Masked(r, f) == [f EXCEPT !.masked = @ \/ r = "Client"]
MustFlush_Never(r) == FALSE
MustFlush(r) == Len(writeBuf[r]) > cfg[r].writeLimit

WriteFrame(r, op, f, msg) ==
  IF MustFlush(r)
    THEN /\ Submit(r, writeBuf[r], Await(op, "write", "encode", Masked(r, f), msg))
         /\ UNCHANGED encoded
    ELSE Encode(r, op, writeBuf[r], Masked(r, f), msg)

(* flush(): a server that is done with reading terminates and, the buffer  *)
(* written out, shuts the stream down.                                     *)
HasBuffered_PastLimit(r) == MustFlush(r)
HasBuffered(r) == writeBuf[r] # <<>>

FlushAll(r, op) ==
  LET then == IF IsDone(r) THEN "shutdown" ELSE "return"
  IN /\ state' = IF IsDone(r) THEN [state EXCEPT ![r] = "Terminated"] ELSE state
     /\ \/ /\ HasBuffered(r)
           /\ Submit(r, writeBuf[r], Await(op, "write", then, NoFrame, NoMessage))
        \/ /\ ~HasBuffered(r)
           /\ IF IsDone(r)
                THEN Suspend(r, Await(op, "shutdown", "none", NoFrame, NoMessage))
                ELSE Finish(r, op, "Ok", NoMessage)
           /\ UNCHANGED codec
     /\ UNCHANGED encoded

(* check_connection_reset, where the code applies it.                      *)
IoKind == {"ConnectionReset", "Other"}
IoResult(r, kind, translated) ==
  IF translated /\ kind = "ConnectionReset" /\ ~CanRead(state[r])
    THEN "ConnectionClosed"
    ELSE "Io"

-----------------------------------------------------------------------------
(* The calls of an endpoint's user.                                        *)

Idling(r) == r \notin Foreign /\ link[r] # "dropped" /\ fut[r].at = "idle"
Count(r) == calls[r] < MaxCalls[r] /\ calls' = [calls EXCEPT ![r] = @ + 1]

(* read(), up to the wait for a frame.                                     *)
CallRead(r) ==
  /\ Idling(r)
  /\ \/ /\ Terminated(r)
        /\ Finish(r, "read", "AlreadyClosed", NoMessage)
        /\ UNCHANGED state
     \/ /\ ~Terminated(r) /\ IsDone(r)
        /\ state' = [state EXCEPT ![r] = "Terminated"]
        /\ Finish(r, "read", "ConnectionClosed", NoMessage)
     \/ /\ ~Terminated(r) /\ ~IsDone(r)
        /\ Suspend(r, Await("read", "next", "none", NoFrame, NoMessage))
        /\ UNCHANGED state
  /\ UNCHANGED <<inc, cfg, codec, stream, encoded, clean, bounds>>

(* write() of a message other than Close, or of a raw frame.               *)
CallWrite(r) ==
  /\ Idling(r) /\ Count(r)
  /\ \/ /\ Terminated(r)
        /\ Finish(r, "write", "AlreadyClosed", NoMessage)
        /\ UNCHANGED <<codec, encoded>>
     \/ /\ ~Terminated(r) /\ ~Writable(r)
        /\ Finish(r, "write", "SendAfterClosing", NoMessage)
        /\ UNCHANGED <<codec, encoded>>
     \/ /\ Writable(r)
        /\ \E f \in Menu[r] : WriteFrame(r, "write", f, NoMessage)
  /\ UNCHANGED <<ws, stream, clean, cancels>>

(* close(); write(Message::Close) on an active endpoint is the same call.  *)
CallClose(r) ==
  /\ Idling(r) /\ Count(r)
  /\ \/ /\ state[r] = "Active"
        /\ state' = [state EXCEPT ![r] = "ClosedByUs"]
        /\ \E body \in CloseBodies :
             WriteFrame(r, "close", CloseOf(body), NoMessage)
     \/ /\ state[r] # "Active"
        /\ FlushAll(r, "close")
  /\ UNCHANGED <<inc, cfg, stream, clean, cancels>>

(* flush()                                                                 *)
CallFlush(r) ==
  /\ Idling(r) /\ Count(r)
  /\ FlushAll(r, "flush")
  /\ UNCHANGED <<inc, cfg, stream, clean, cancels>>

(* set_config()                                                            *)
SetConfig(r) ==
  /\ Idling(r) /\ Count(r)
  /\ \E c \in Configs \ {cfg[r]} : cfg' = [cfg EXCEPT ![r] = c]
  /\ UNCHANGED <<state, inc, codec, fut, stream, ret, history, cancels>>

-----------------------------------------------------------------------------
(* The decoder yields: FramedRead::next.                                   *)

Pending(r) == SubSeq(wired[Peer(r)], taken[r] + 1, Len(wired[Peer(r)]))
Intact(r) == \A i \in 1 .. Len(wired[r]) : wired[r][i] # Torn

(* Once it has reached a torn frame the decoder is out of step with the    *)
(* stream, and may see any of Garbage in it.                               *)
Desynced(r) ==
  \E i \in 1 .. Len(wired[Peer(r)]) :
    i <= taken[r] + 1 /\ wired[Peer(r)][i] = Torn

(* The next frame as the decoder sees it.                                  *)
Arriving(r) ==
  IF Pending(r) = <<>> THEN {}
  ELSE IF Desynced(r) THEN Garbage
  ELSE {Head(Pending(r))}

Reading(r) == fut[r].at = "next" /\ ~errored[r]
Take(r) == taken' = [taken EXCEPT ![r] = @ + 1]

(* The decoder refuses the frame; FramedRead yields nothing after that.    *)
DecodeRejects(r) ==
  /\ Reading(r)
  /\ \E f \in Arriving(r) :
       /\ DecodeError(r, f) # "Ok"
       /\ Finish(r, "read", DecodeError(r, f), NoMessage)
  /\ Take(r)
  /\ errored' = [errored EXCEPT ![r] = TRUE]
  /\ clean' = [clean EXCEPT ![r] = FALSE]
  /\ UNCHANGED <<ws, codec, wired, link, dead, encoded, bounds>>

(* One frame through read_message_frame, with outcome `got'.               *)
Handle(r, got) ==
  /\ Take(r)
  /\ state' = [state EXCEPT ![r] = got.state]
  /\ inc' = [inc EXCEPT ![r] = got.inc]
  /\ UNCHANGED <<cfg, wired, link, dead, errored, bounds>>

(* The frame is refused, and read() returns the error.                     *)
FrameFails(r) ==
  /\ Reading(r)
  /\ \E f \in Arriving(r) : LET got == ReadMessageFrame(r, f) IN
       /\ DecodeError(r, f) = "Ok" /\ got.res # "Ok"
       /\ Finish(r, "read", got.res, NoMessage)
       /\ Handle(r, got)
  /\ clean' = [clean EXCEPT ![r] = FALSE]
  /\ UNCHANGED <<codec, encoded>>

(* The frame is answered before read() returns its message: the answer is  *)
(* queued and flushed.                                                     *)
FrameAnswered(r) ==
  /\ Reading(r)
  /\ \E f \in Arriving(r) : LET got == ReadMessageFrame(r, f) IN
       /\ DecodeError(r, f) = "Ok" /\ got.res = "Ok" /\ got.reply # NoFrame
       /\ WriteFrame(r, "read", got.reply, got.msg)
       /\ Handle(r, got)
  /\ UNCHANGED clean

(* The frame completes a message, which read() returns.                    *)
FrameDelivered(r) ==
  /\ Reading(r)
  /\ \E f \in Arriving(r) : LET got == ReadMessageFrame(r, f) IN
       /\ DecodeError(r, f) = "Ok" /\ got.res = "Ok" /\ got.reply = NoFrame
       /\ got.msg # NoMessage
       /\ Finish(r, "read", "Ok", got.msg)
       /\ Handle(r, got)
  /\ UNCHANGED <<codec, encoded, clean>>

(* The frame is a fragment, and read() waits for the next one.             *)
FrameAbsorbed(r) ==
  /\ Reading(r)
  /\ \E f \in Arriving(r) : LET got == ReadMessageFrame(r, f) IN
       /\ DecodeError(r, f) = "Ok" /\ got.res = "Ok" /\ got.reply = NoFrame
       /\ got.msg = NoMessage
       /\ Handle(r, got)
  /\ UNCHANGED <<codec, fut, ret, history>>

(* No frame any more: FramedRead after an error, or the end of the stream. *)
(* What is lost of a torn frame may be all that follows its header, which  *)
(* the decoder has taken: then no bytes are left over to complain of.      *)
EndOfStream(r) ==
  link[Peer(r)] # "open" /\ (Pending(r) = <<>> \/ Desynced(r))

EndResult_AnyClose(r) ==
  IF Writable(r) THEN "ResetWithoutClosingHandshake" ELSE "ConnectionClosed"
EndResult(r) ==
  IF state[r] \in {"ClosedByPeer", "CloseAcknowledged"}
    THEN "ConnectionClosed" ELSE "ResetWithoutClosingHandshake"

NextEnd(r) ==
  /\ fut[r].at = "next"
  /\ errored[r] \/ EndOfStream(r)
  /\ state' = [state EXCEPT ![r] = "Terminated"]
  /\ Finish(r, "read", EndResult(r), NoMessage)
  /\ UNCHANGED <<inc, cfg, codec, stream, encoded, clean, bounds>>

(* The read fails, or the stream ends with bytes of a frame left over.     *)
NextFails(r) ==
  /\ Reading(r)
  /\ \E kind \in IoKind :
       /\ \/ dead[r]
          \/ link[Peer(r)] # "open" /\ Desynced(r) /\ kind = "Other"
       /\ Finish(r, "read", IoResult(r, kind, TRUE), NoMessage)
  /\ errored' = [errored EXCEPT ![r] = TRUE]
  /\ UNCHANGED <<ws, codec, wired, taken, link, dead, encoded, clean, bounds>>

-----------------------------------------------------------------------------
(* The codec's flush proceeds: write_all, then the stream's own flush.     *)

Room(r) == Len(wired[r]) - taken[Peer(r)] < Capacity

WriteSome(r) ==
  /\ fut[r].at = "write" /\ ~dead[r] /\ Room(r)
  /\ wired' = [wired EXCEPT ![r] = Append(@, out[r][done[r] + 1])]
  /\ IF done[r] + 1 < Len(out[r])
       THEN /\ done' = [done EXCEPT ![r] = @ + 1]
            /\ UNCHANGED <<out, fut>>
       ELSE /\ done' = [done EXCEPT ![r] = 0]
            /\ out' = [out EXCEPT ![r] = <<>>]
            /\ fut' = [fut EXCEPT ![r].at = "sync"]
  /\ UNCHANGED <<ws, writeBuf, taken, link, dead, errored, ret, history, bounds>>

(* write_all gives the whole buffer back with its error, the frames the    *)
(* transport took included.                                                *)
Restored_Lost(r) == <<>>
Restored(r) == out[r]
FlushResult(r, kind) == IoResult(r, kind, fut[r].then = "encode")

WriteFails_Retries(r) == fut[r].at = "write" /\ dead[r] /\ UNCHANGED vars
WriteFails(r) ==
  /\ fut[r].at = "write" /\ dead[r]
  /\ writeBuf' = [writeBuf EXCEPT ![r] = Restored(r)]
  /\ out' = [out EXCEPT ![r] = <<>>]
  /\ done' = [done EXCEPT ![r] = 0]
  /\ \E kind \in IoKind : Finish(r, fut[r].op, FlushResult(r, kind), NoMessage)
  /\ UNCHANGED <<ws, stream, encoded, clean, bounds>>

Flushed(r, then) == fut[r].at = "sync" /\ fut[r].then = then

(* ... then FrameCodec::send encodes the frame that was waiting for room,  *)
SyncThenEncode(r) ==
  /\ Flushed(r, "encode")
  /\ Encode(r, fut[r].op, writeBuf[r], fut[r].frame, fut[r].msg)
  /\ UNCHANGED <<ws, stream, clean, bounds>>

(* ... or the method returns, a read with the message it answered,         *)
SyncThenReturn(r) ==
  /\ Flushed(r, "return")
  /\ Finish(r, fut[r].op, "Ok", fut[r].msg)
  /\ UNCHANGED <<ws, codec, stream, encoded, clean, bounds>>

(* ... or FrameCodec::close goes on to shut the stream down.               *)
SyncThenShutdown(r) ==
  /\ Flushed(r, "shutdown")
  /\ Suspend(r, Await(fut[r].op, "shutdown", "none", NoFrame, NoMessage))
  /\ UNCHANGED <<ws, codec, stream, encoded, clean, bounds>>

SyncFails(r) ==
  /\ fut[r].at = "sync" /\ dead[r]
  /\ \E kind \in IoKind : Finish(r, fut[r].op, FlushResult(r, kind), NoMessage)
  /\ UNCHANGED <<ws, codec, stream, encoded, clean, bounds>>

Shutdown(r) ==
  /\ fut[r].at = "shutdown"
  /\ link' = [link EXCEPT ![r] = "shut"]
  /\ Finish(r, fut[r].op, "ConnectionClosed", NoMessage)
  /\ UNCHANGED <<ws, codec, wired, taken, dead, errored, encoded, clean, bounds>>

ShutdownFails(r) ==
  /\ fut[r].at = "shutdown" /\ dead[r]
  /\ Finish(r, fut[r].op, "Io", NoMessage)
  /\ UNCHANGED <<ws, codec, stream, encoded, clean, bounds>>

-----------------------------------------------------------------------------
(* Futures and endpoints dropped, and the transport failing.               *)

(* A pending future goes, and with it the buffer its write_all owns; the   *)
(* transport may have taken part of the frame it was writing.              *)
Abandon(r) ==
  /\ fut' = [fut EXCEPT ![r] = Idle]
  /\ ret' = IF fut[r] = Idle THEN ret ELSE [ret EXCEPT ![r] = NotReturned]
  /\ out' = [out EXCEPT ![r] = <<>>]
  /\ done' = [done EXCEPT ![r] = 0]
  /\ \/ UNCHANGED wired
     \/ /\ fut[r].at = "write" /\ ~dead[r] /\ Room(r)
        /\ wired' = [wired EXCEPT ![r] = Append(@, Torn)]

Cancel(r) ==
  /\ fut[r].at # "idle"
  /\ cancels < MaxCancels /\ cancels' = cancels + 1
  /\ Abandon(r)
  /\ UNCHANGED <<ws, writeBuf, taken, link, dead, errored, history, calls>>

(* The caller's loop over Stream::next is over: it ended, or failed.       *)
Finished(r) ==
  fut[r].at = "idle" /\ ret[r].op = "read" /\ ret[r].res # "Ok"

Drop(r) ==
  /\ r \notin Foreign /\ link[r] # "dropped"
  /\ Finished(r) \/ EarlyDrop
  /\ link' = [link EXCEPT ![r] = "dropped"]
  /\ Abandon(r)
  /\ UNCHANGED <<ws, writeBuf, taken, dead, errored, history, bounds>>

(* The transport fails: at any time, or because the peer is gone and left  *)
(* frames of ours unread.                                                  *)
Unread(r) ==
  link[Peer(r)] = "dropped" /\ taken[Peer(r)] < Len(wired[r])

Break(r) ==
  /\ r \notin Foreign /\ link[r] # "dropped" /\ ~dead[r]
  /\ Resets \/ Unread(r)
  /\ dead' = [dead EXCEPT ![r] = TRUE]
  /\ UNCHANGED <<ws, codec, fut, wired, taken, link, errored, ret, history, bounds>>

-----------------------------------------------------------------------------
(* Another implementation in role r: it sends frames of its Menu, reads    *)
(* what it is sent and closes the connection, in any order.                *)

ForeignSend(r) ==
  /\ r \in Foreign /\ link[r] = "open" /\ Room(r) /\ Count(r)
  /\ \E f \in Menu[r] : wired' = [wired EXCEPT ![r] = Append(@, f)]
  /\ UNCHANGED <<ws, codec, fut, taken, link, dead, errored, ret, history, cancels>>

ForeignRead(r) ==
  /\ r \in Foreign /\ link[r] # "dropped" /\ Pending(r) # <<>>
  /\ Take(r)
  /\ UNCHANGED <<ws, codec, fut, wired, link, dead, errored, ret, history, bounds>>

ForeignDrop(r) ==
  /\ r \in Foreign /\ link[r] # "dropped"
  /\ link' = [link EXCEPT ![r] = "dropped"]
  /\ UNCHANGED <<ws, codec, fut, wired, taken, dead, errored, ret, history, bounds>>

-----------------------------------------------------------------------------
Receiving(r) ==
  \/ DecodeRejects(r) \/ FrameFails(r) \/ FrameAnswered(r)
  \/ FrameDelivered(r) \/ FrameAbsorbed(r) \/ NextEnd(r) \/ NextFails(r)

Sending(r) ==
  \/ WriteSome(r) \/ WriteFails(r) \/ SyncThenEncode(r) \/ SyncThenReturn(r)
  \/ SyncThenShutdown(r) \/ SyncFails(r) \/ Shutdown(r) \/ ShutdownFails(r)

Calling(r) ==
  \/ CallRead(r) \/ CallWrite(r) \/ CallClose(r) \/ CallFlush(r) \/ SetConfig(r)

(* Nothing is left to do but wait: each endpoint is gone or its read waits *)
(* for a frame that is not coming.                                         *)
Quiet ==
  /\ \A r \in Roles : \/ link[r] = "dropped"
                      \/ fut[r].at = "next" /\ Pending(r) = <<>>
  /\ UNCHANGED vars

Next ==
  \/ \E r \in Roles :
       \/ Receiving(r) \/ Sending(r) \/ Calling(r)
       \/ Cancel(r) \/ Drop(r) \/ Break(r)
       \/ ForeignSend(r) \/ ForeignRead(r) \/ ForeignDrop(r)
  \/ Quiet

Spec == Init /\ [][Next]_vars

(* The executor polls a future whose await is ready; the caller keeps      *)
(* reading until its loop ends and then drops the endpoint; the transport  *)
(* reports that the peer is gone.                                          *)
Fairness ==
  \A r \in Roles :
    /\ WF_vars(Receiving(r) \/ Sending(r))
    /\ WF_vars(CallRead(r))
    /\ WF_vars(Finished(r) /\ Drop(r))
    /\ WF_vars(Unread(r) /\ Break(r))

FairSpec == Spec /\ Fairness
=============================================================================
