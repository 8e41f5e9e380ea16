------------------------- MODULE WebSocketProperties -------------------------
(***************************************************************************)
(* What two WebSocket endpoints owe each other and their callers.          *)
(***************************************************************************)
EXTENDS WebSocket, SequencesExt

Ours == Roles \ Foreign

(* The frames r's decoder has read.                                        *)
Taken(r) == SubSeq(wired[Peer(r)], 1, taken[r])

(* The payload ids of the frames with an opcode of ops, and of the data    *)
(* messages that were handed out.                                          *)
IdsOf(frames, ops) ==
  FlattenSeq([i \in 1 .. Len(frames) |->
                IF frames[i].op \in ops THEN <<frames[i].body.id>> ELSE <<>>])

DataTypes == {"Text", "Binary"}
DataIdsOf(messages) ==
  FlattenSeq([i \in 1 .. Len(messages) |->
                IF messages[i].type \in DataTypes THEN messages[i].parts ELSE <<>>])

-----------------------------------------------------------------------------
(* Closing.                                                                *)

(* Once a Close frame has been encoded, by close() or as the answer to the *)
(* peer's, no other frame is ever encoded: not by write(), not by a pong,  *)
(* not by a frame that was waiting for the buffer to be flushed.  Raw      *)
(* Close frames go past the state, so the menu must not have one.          *)
CloseIsLast ==
  \A r \in Ours : (\A f \in Menu[r] : f.op # "Close") =>
    \A i \in 1 .. Len(encoded[r]) :
      encoded[r][i].op = "Close" => i = Len(encoded[r])

(* read() reports a normal close only after the peer's Close frame was     *)
(* read, whatever resets and early drops come in between.                  *)
ReadClosedMeansGotClose ==
  \A r \in Ours :
    ret[r] = [op |-> "read", res |-> "ConnectionClosed"] /\ Intact(Peer(r))
      => HasClose(Taken(r))

(* read() hands out nothing after the peer's Close message.                *)
NoDeliveryAfterClose ==
  \A r \in Ours : \A i \in 1 .. Len(delivered[r]) :
    delivered[r][i].type = "Close" => i = Len(delivered[r])

(* Our Close frame carries a status code the protocol allows, also when it *)
(* answers one that does not.  What the caller passes to close(), or       *)
(* writes as a raw Close frame, is the caller's.                           *)
CloseCodesAllowed ==
  \A r \in Ours : (\A f \in Menu[r] : f.op # "Close") =>
    \A i \in 1 .. Len(encoded[r]) : LET f == encoded[r][i] IN
      f.op = "Close" /\ f.body \notin CloseBodies
        => f.body.len = 0 \/ IsAllowed(f.body.id)

(* Without faults an endpoint is dropped only when it has read the peer's  *)
(* Close and put its own on the transport, when nothing of the peer's is   *)
(* unread (which would reset the connection before the peer has read its   *)
(* last frames), and, if a client, after the server let go of the stream.  *)
LawfulRoles == {r \in Ours : \A f \in Menu[r] : f.op # "Close"}
Faultless ==
  /\ LawfulRoles = Roles /\ ~Resets /\ ~EarlyDrop
  /\ cancels = 0 /\ \A r \in Roles : clean[r]

CleanTeardown ==
  Faultless => \A r \in Roles : link[r] = "dropped" =>
    /\ HasClose(Taken(r)) /\ HasClose(wired[r])
    /\ Pending(r) = <<>>
    /\ r = "Client" => link["Server"] # "open"

(* The two endpoints close as CloseHandshake describes.  A frame counts as *)
(* sent once it is encoded, for it is then owed to the peer; what a        *)
(* cancelled future was writing may be lost.                               *)
Committed(r) == IF r \in Foreign THEN wired[r] ELSE encoded[r]
SentCount == [r \in Roles |-> Len(Committed(r))]
SaidClose == [r \in Roles |-> HasClose(Committed(r))]
Marred == [r \in Roles |-> cancels > 0 \/ ~Intact(r)]
ToldClosed ==
  [r \in Roles |-> ret[r] = [op |-> "read", res |-> "ConnectionClosed"]]

Close == INSTANCE CloseHandshake WITH
  Lawful <- LawfulRoles, phase <- state, sent <- SentCount, said <- SaidClose,
  got <- taken, marred <- Marred, told <- ToldClosed

(* Every step of the two endpoints, the transport and the callers is a     *)
(* step of the close handshake, or none: nothing is sent after Close, the  *)
(* state advances only when the peer's Close is read and all its frames    *)
(* before, and a normal close is reported only then.                       *)
ClosesAsAgreed == Close!Spec

(* The state only moves along the close handshake, and only the peer's     *)
(* Close frame moves it to a state in which the peer is known to close.    *)
StateMoves ==
  [][\A r \in Roles : state'[r] # state[r] =>
       \/ state[r] = "Active" /\ state'[r] = "ClosedByUs" /\ taken'[r] = taken[r]
       \/ /\ <<state[r], state'[r]>> \in {<<"Active", "ClosedByPeer">>,
                                          <<"ClosedByUs", "CloseAcknowledged">>}
          /\ Intact(Peer(r)) => wired[Peer(r)][taken'[r]].op = "Close"
       \/ state'[r] = "Terminated" /\ taken'[r] = taken[r]]_vars

-----------------------------------------------------------------------------
(* Writing.                                                                *)

(* When flush() or close() has returned normally, every frame encoded up   *)
(* to then is on the transport, once and in order: those of write(), the   *)
(* automatic answers and the Close frame, over failed flushes too, as long *)
(* as no future is dropped: that loses the frames its write_all holds.     *)
FlushPromise ==
  cancels = 0 => \A r \in Ours :
    /\ fut[r] = Idle
    /\ ret[r].op \in {"flush", "close"}
    /\ ret[r].res \in {"Ok", "ConnectionClosed"}
    => wired[r] = encoded[r]

(* The write buffer never grows by more than one frame past a limit that   *)
(* was configured, whatever mix of write(), pongs and failed flushes.      *)
WriteBufBounded ==
  \A r \in Ours : \E c \in Configs :
    /\ Len(writeBuf[r]) <= c.writeLimit + 1
    /\ Len(out[r]) <= c.writeLimit + 1

(* Some of the elements of s, in the order they have there.                *)
Picked(t, s) ==
  \E at \in [1 .. Len(t) -> 1 .. Len(s)] :
    /\ \A i \in 1 .. Len(t) : t[i] = s[at[i]]
    /\ \A i, j \in 1 .. Len(t) : i < j => at[i] < at[j]

(* Every pong answers a ping that was read, none twice and none out of     *)
(* turn, whatever fails or is dropped.  Until something does, pongs answer *)
(* pings one for one, and none is owed when an active endpoint is between  *)
(* two frames.                                                             *)
PongsAnswerPings ==
  \A r \in Ours : Intact(Peer(r)) /\ (\A f \in Menu[r] : f.op # "Pong") =>
    LET pings == IdsOf(Taken(r), {"Ping"})
        pongs == IdsOf(encoded[r], {"Pong"})
    IN /\ Picked(pongs, pings)
       /\ clean[r] /\ ~dead[r] /\ cancels = 0 =>
            /\ IsPrefix(pongs, pings)
            /\ state[r] = "Active" /\ fut[r].at \in {"idle", "next"} /\ link[r] = "open"
                 => pongs = pings

-----------------------------------------------------------------------------
(* Reading.                                                                *)

PayloadOps == {op \in OpCode : IsData(op)}

(* As long as no frame was rejected, the payloads of the data frames read  *)
(* are those of the messages delivered and of the one in progress, in      *)
(* order: none lost between fragments, none merged into another message,   *)
(* whatever control frames and configuration changes come between.         *)
DataInOrder ==
  \A r \in Ours : clean[r] /\ Intact(Peer(r)) =>
    DataIdsOf(delivered[r]) \o inc[r].parts = IdsOf(Taken(r), PayloadOps)

(* A data message is delivered only if it is within the limit in force     *)
(* then, also when the limit was lowered halfway through the message.      *)
MessageWithinLimit ==
  [][\A r \in Ours : delivered'[r] # delivered[r] =>
       LET m == Last(delivered'[r])
       IN m.type \in {"Text", "Binary"} => m.len <= cfg[r].maxMessage]_vars

-----------------------------------------------------------------------------
(* Progress.                                                               *)

(* Both endpoints wait for room in write_all: neither reads while it does, *)
(* not even one whose read() only flushes a pong.                          *)
Jammed == \A r \in Roles : fut[r].at = "write" /\ ~dead[r] /\ ~Room(r)

(* A future was dropped that held p's Close frame, or part of a frame that *)
(* the frames behind it cannot be told from.                               *)
CloseLost(p) ==
  /\ cancels > 0 /\ state[p] # "Active"
  /\ \/ ~Intact(p)
     \/ /\ ~HasClose(wired[p] \o out[p] \o writeBuf[p])
        /\ ~(fut[p].then = "encode" /\ fut[p].frame.op = "Close")

(* A close we started ends with both endpoints gone, if both callers keep  *)
(* reading, unless the two jam, or a Close frame goes with the future that *)
(* a caller drops: do_close has changed the state by then, and no later    *)
(* call sends the frame again.                                             *)
CloseCompletes ==
  (\E r \in Ours : state[r] = "ClosedByUs") ~>
    \/ \A p \in Roles : link[p] = "dropped"
    \/ Jammed \/ \E p \in Roles : CloseLost(p)

(* A method that waits for the transport to take its frames gets on, or    *)
(* fails, whatever the peer's caller does, unless the peer waits likewise. *)
WritesEnd ==
  \A r \in Ours : fut[r].at = "write" ~> fut[r].at # "write" \/ Jammed

(* When the peer is gone, its Close read or not, the caller's loop over    *)
(* the stream ends: it is not left waiting to read or to write.            *)
LoopEnds ==
  (\E r \in Ours : link[Peer(r)] = "dropped") ~>
    \A r \in Ours : link[Peer(r)] = "dropped" => link[r] = "dropped"

-----------------------------------------------------------------------------
(* What comments in the source say and the code does not keep.             *)

(* error.rs, ConnectionClosed: on the server end it is returned once "we   *)
(* have both sent and received a close frame".                             *)
ServerClosedMeansHandshake ==
  "Server" \in Ours /\ ret["Server"].res = "ConnectionClosed" =>
    HasClose(Taken("Server")) /\ HasClose(encoded["Server"])

(* websocket.rs, close(): "guarantees that the close frame will be queued. *)
(* There is no need to call it again."                                     *)
CloseQueued ==
  \A r \in Ours :
    ret[r] = [op |-> "close", res |-> "Ok"] /\ state[r] = "ClosedByUs"
      => HasClose(encoded[r])

(* error.rs, ExpectedFragment: "Received data while waiting for more       *)
(* fragments": the data frame before the refused one was not final.        *)
ExpectedFragmentIsDue ==
  \A r \in Ours : ret[r] = [op |-> "read", res |-> "ExpectedFragment"] =>
    LET before == SelectSeq(SubSeq(wired[Peer(r)], 1, taken[r] - 1),
                            LAMBDA f : IsData(f.op))
    IN before # <<>> /\ ~Last(before).fin

(* websocket.rs, write_buffer_size: "If set to `0` each message will be    *)
(* eagerly written to the underlying stream."                              *)
ZeroLimitIsEager ==
  \A r \in Ours :
    ret[r] = [op |-> "write", res |-> "Ok"] /\ fut[r] = Idle
    /\ cfg[r].writeLimit = 0 => writeBuf[r] = <<>>
=============================================================================
