------------------------------ MODULE Handshake ------------------------------
(***************************************************************************)
(* The opening handshake over one stream: client_handshake (with connect() *)
(* before it) and server_handshake, await by await, up to the codecs that  *)
(* take the stream over.  Either side may be another implementation.       *)
(***************************************************************************)
EXTENDS HttpHeads

CONSTANTS
  Asks,          \* what the client's caller may ask for
  Refusals,      \* the refusals a server's callback may answer with
  Casts,         \* which sides another implementation may play
  ForeignHeads,  \* what it may send, for each role
  MaxFrames      \* frames each side may send once it may

Roles == {"Client", "Server"}
Peer(r) == IF r = "Client" THEN "Server" ELSE "Client"

ASSUME MaxFramesAssumption == MaxFrames \in Nat
ASSUME CastsAssumption == Casts \subseteq SUBSET Roles

(* What into_client_request builds is a GET of HTTP/1.1.  A callback that  *)
(* answers 101 with the headers of an acceptance does not refuse, although *)
(* nothing in server_handshake keeps it from calling that a refusal.       *)
ASSUME AsksAssumption ==
  /\ Asks # {}
  /\ \A a \in Asks : /\ a.headers \in [Names -> Seq(SUBSET STRING)]
                     /\ ~a.raw => a.method = "GET" /\ a.version = "1.1"
ASSUME RefusalsAssumption == \A f \in Refusals : f.headers => f.status # 101

VARIABLES
  foreign,  \* the sides another implementation plays
  ask,      \* the caller's request, of no account where the client is not ours
  pc,       \* where each side's future stands
  out,      \* what its pending write_all has left to write
  wire,     \* everything it has put on the stream
  head,     \* the head it sends
  arrived,  \* how much of the peer's its FramedRead has read
  start,    \* how much of that the codec, once it takes over, will not see
  channel,  \* how the client's stream is carried
  choice,   \* what the server's callback answered
  res       \* what the handshake returned

vars == <<foreign, ask, pc, out, wire, head, arrived, start, channel, choice, res>>

-----------------------------------------------------------------------------
(* A head is two pieces, so that it can be cut; the bytes after it are a   *)
(* refusal's body or frames.                                               *)
HeadUnits == << <<"head", 1>>, <<"head", 2>> >>
HeadSize == Len(HeadUnits)
BodyUnits == << <<"body", 1>> >>
NoHead == [status |-> 0]
NoChoice == [is |-> "none"]
ASSUME ForeignHeadsAssumption ==
  \A r \in Roles : \A h \in ForeignHeads[r] : h # NoHead /\ h.broken # "Ok"

Over(r) == pc[r] \in {"done", "failed", "gone"}
Left_Failing(r) == pc[r] = "gone"
Left(r) == pc[r] \in {"failed", "gone"}       \* its stream is dropped
Whole(r) == arrived[r] >= HeadSize
Received(r) == Len(wire[Peer(r)])

Init ==
  /\ foreign \in Casts
  /\ ask \in IF "Client" \in foreign THEN {CHOOSE a \in Asks : TRUE} ELSE Asks
  /\ pc = [r \in Roles |-> IF r \in foreign THEN "foreign"
                           ELSE IF r = "Client" THEN "connecting" ELSE "reading"]
  /\ out = [r \in Roles |-> <<>>] /\ wire = out
  /\ head = [r \in Roles |-> NoHead]
  /\ arrived = [r \in Roles |-> 0] /\ start = arrived
  /\ channel = "none" /\ choice = NoChoice
  /\ res = [r \in Roles |-> "none"]

-----------------------------------------------------------------------------
(* The future of r goes on to the next await, or returns.                  *)
GoTo(r, at) == pc' = [pc EXCEPT ![r] = at] /\ UNCHANGED res
Return(r, e) == /\ pc' = [pc EXCEPT ![r] = IF e = "Ok" THEN "done" ELSE "failed"]
                /\ res' = [res EXCEPT ![r] = e]
Submit(r, h, units) == /\ head' = [head EXCEPT ![r] = h]
                       /\ out' = [out EXCEPT ![r] = units]
                       /\ GoTo(r, "writing")
CodecStarts(r, n) == start' = [start EXCEPT ![r] = n]

(* connect(): TCP and TLS may fail; on a stream of the caller's own there  *)
(* is nothing to await.                                                    *)
Connect ==
  /\ pc["Client"] = "connecting"
  /\ LET e == ConnectError(ask)
         network == IF e = "Ok" /\ ask.connects
                    THEN {"Io"} \cup (IF Channel(ask) = "Tls" THEN {"Tls"} ELSE {}) ELSE {}
     IN  \/ /\ e = "Ok" /\ GoTo("Client", "connected")
            /\ channel' = Channel(ask)
         \/ \E f \in network \cup ({e} \ {"Ok"}) : Return("Client", f) /\ UNCHANGED channel
  /\ UNCHANGED <<foreign, ask, out, wire, head, arrived, start, choice>>

SendRequest ==
  /\ pc["Client"] = "connected"
  /\ LET e == RequestError(ask)
     IN  IF e = "Ok" THEN Submit("Client", RequestHead(ask), HeadUnits)
         ELSE Return("Client", e) /\ UNCHANGED <<out, head>>
  /\ UNCHANGED <<foreign, ask, wire, arrived, start, channel, choice>>

-----------------------------------------------------------------------------
(* write_all and flush, for either side.  After the flush the client reads *)
(* the response; a server that accepts drops the request from its buffer   *)
(* and hands the rest to the codec, one that refuses is done.              *)
Write(r) ==
  /\ pc[r] = "writing" /\ out[r] # <<>>
  /\ wire' = [wire EXCEPT ![r] = Append(@, Head(out[r]))]
  /\ out' = [out EXCEPT ![r] = Tail(@)]
  /\ UNCHANGED <<foreign, ask, pc, head, arrived, start, channel, choice, res>>

Clear(r) == arrived[r]
Flush(r) ==
  /\ pc[r] = "writing" /\ out[r] = <<>>
  /\ CASE r \in foreign -> GoTo(r, "foreign") /\ UNCHANGED start
       [] r = "Client" /\ r \notin foreign -> GoTo(r, "reading") /\ UNCHANGED start
       [] r = "Server" /\ r \notin foreign /\ choice.is = "accept" ->
            Return(r, "Ok") /\ CodecStarts(r, Clear(r))
       [] OTHER -> Return(r, "Http") /\ UNCHANGED start
  /\ UNCHANGED <<foreign, ask, out, wire, head, arrived, channel, choice>>

WriteFails(r) ==
  /\ pc[r] = "writing" /\ Left(Peer(r)) /\ r \notin foreign
  /\ Return(r, "Io")
  /\ UNCHANGED <<foreign, ask, out, wire, head, arrived, start, channel, choice>>

(* FramedRead::next: any number of bytes, until the head is complete.      *)
Arrive(r) ==
  /\ pc[r] = "reading" /\ ~Whole(r)
  /\ \E n \in arrived[r] + 1 .. Received(r) : arrived' = [arrived EXCEPT ![r] = n]
  /\ UNCHANGED <<foreign, ask, pc, out, wire, head, start, channel, choice, res>>

(* The peer is gone: the end of the stream, or a reset.                    *)
NextEnds(r) ==
  /\ pc[r] = "reading" /\ ~Whole(r) /\ Left(Peer(r))
  /\ \/ arrived[r] = 0 /\ Received(r) = 0 /\ Return(r, "HandshakeIncomplete")
     \/ Return(r, "Io")
  /\ UNCHANGED <<foreign, ask, out, wire, head, arrived, start, channel, choice>>

-----------------------------------------------------------------------------
(* The head is complete.  The client leaves what came after it in the      *)
(* buffer.                                                                 *)
Advance_All(r) == arrived[r]
Advance_Past(r) == HeadSize + 1
Advance(r) == HeadSize
ReadResponse ==
  /\ pc["Client"] = "reading" /\ Whole("Client")
  /\ LET resp == head["Server"]
         e == FirstOf(<< <<resp.broken # "no", resp.broken>>,
                         <<resp.version = "1.0", "WrongHttpVersion">> >> \o VerifyChecks(ask, resp))
     IN  /\ Return("Client", e)
         /\ IF e = "Ok" THEN CodecStarts("Client", Advance("Client")) ELSE UNCHANGED start
  /\ UNCHANGED <<foreign, ask, out, wire, head, arrived, channel, choice>>

(* The server takes no byte more than the request.  The callback accepts,  *)
(* with one of the subprotocols asked for or none, or refuses.             *)
Junk == arrived["Server"] # HeadSize

Answers(h) ==
  LET wanted == UNION {h["Protocol"][i] : i \in DOMAIN h["Protocol"]}
      Accept(p) == [is |-> "accept", status |-> 101, headers |-> TRUE, protocol |-> p, body |-> FALSE]
      Refuse(f) == [is |-> "refuse", status |-> f.status, headers |-> f.headers,
                    protocol |-> {}, body |-> f.body]
  IN  {Accept({})} \cup {Accept({t}) : t \in wanted} \cup {Refuse(f) : f \in Refusals}

Successful(c) == c.is = "refuse" /\ c.status \in 200 .. 299

ReadRequest ==
  /\ pc["Server"] = "reading" /\ Whole("Server")
  /\ LET req == head["Client"]
         e == FirstOf(DecodeChecks(req) \o << <<Junk, "JunkAfterRequest">> >> \o PartsChecks(req.headers))
     IN  IF e # "Ok" THEN Return("Server", e) /\ UNCHANGED <<out, head, choice>>
         ELSE \E c \in Answers(req.headers) :
                /\ choice' = c
                /\ IF Successful(c)
                   THEN Return("Server", "CustomResponseSuccessful") /\ UNCHANGED <<out, head>>
                   ELSE Submit("Server", ResponseHead(req.headers, c),
                               HeadUnits \o IF c.body THEN BodyUnits ELSE <<>>)
  /\ UNCHANGED <<foreign, ask, wire, arrived, start, channel>>

-----------------------------------------------------------------------------
(* Past the handshake: frames may follow at once.  A future, or what came  *)
(* of it, may be dropped at any time, and the stream with it.              *)
Speak(r) ==
  /\ pc[r] = "done" \/ (pc[r] = "foreign" /\ head[r] # NoHead)
  /\ LET frames == {i \in DOMAIN wire[r] : wire[r][i][1] = "frame"}
     IN  /\ Cardinality(frames) < MaxFrames
         /\ wire' = [wire EXCEPT ![r] = Append(@, <<"frame", Cardinality(frames) + 1>>)]
  /\ UNCHANGED <<foreign, ask, pc, out, head, arrived, start, channel, choice, res>>

Drop(r) ==
  /\ ~Left(r) /\ GoTo(r, "gone")
  /\ UNCHANGED <<foreign, ask, out, wire, head, arrived, start, channel, choice>>

ForeignHead(r) ==
  /\ pc[r] = "foreign" /\ head[r] = NoHead
  /\ \E h \in ForeignHeads[r] : Submit(r, h, HeadUnits)
  /\ UNCHANGED <<foreign, ask, wire, arrived, start, channel, choice>>

Quiet == (\A r \in Roles : Over(r) \/ pc[r] = "foreign") /\ UNCHANGED vars

Handles(r) == \/ r = "Client" /\ (Connect \/ SendRequest \/ ReadResponse)
              \/ r = "Server" /\ ReadRequest
              \/ Write(r) \/ Flush(r) \/ WriteFails(r) \/ Arrive(r) \/ NextEnds(r) \/ ForeignHead(r)

Next == (\E r \in Roles : Handles(r) \/ Speak(r) \/ Drop(r)) \/ Quiet

Spec == Init /\ [][Next]_vars

(* A future that is ready is polled.  Another implementation need not send *)
(* its head, or all of it; nobody need speak, or leave.                    *)
FairSpec == Spec /\ \A r \in Roles : WF_vars(r \notin foreign /\ Handles(r))
=============================================================================
