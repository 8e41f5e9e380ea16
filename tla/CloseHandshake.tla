---------------------------- MODULE CloseHandshake ----------------------------
(***************************************************************************)
(* What two WebSocket endpoints promise each other about closing, whatever *)
(* buffers, flushes, dropped futures and resets lie between them: who may  *)
(* still send a frame, what it takes to believe that the peer closes, and  *)
(* when a caller is told that the connection closed normally.              *)
(*                                                                         *)
(* Frames have no content here but for being a Close frame or not.  The    *)
(* order in which the transport carries them is not described either: that *)
(* an endpoint which hears of the peer's Close has read everything the     *)
(* peer sent before it is a promise, and the transport's part of it is     *)
(* left to the specification that implements this one.                     *)
(***************************************************************************)
EXTENDS Naturals

CONSTANTS
  Foreign,  \* roles another implementation plays
  Lawful    \* roles that send nothing after their Close

Roles == {"Client", "Server"}
Peer(r) == IF r = "Client" THEN "Server" ELSE "Client"

VARIABLES
  phase,    \* how far an endpoint has come in closing
  sent,     \* how many frames it has committed itself to send
  said,     \* whether a Close frame is one of them
  got,      \* how many frames of the peer it has read
  marred,   \* some of what it sent may be lost or cut short on the way
  told      \* its caller's last read reported a normal close

vars == <<phase, sent, said, got, marred, told>>

Phase == {"Active", "ClosedByUs", "ClosedByPeer", "CloseAcknowledged",
          "Terminated"}
PeerCloses(r) == phase[r] \in {"ClosedByPeer", "CloseAcknowledged"}

TypeOK ==
  /\ phase \in [Roles -> Phase]
  /\ sent \in [Roles -> Nat]
  /\ said \in [Roles -> BOOLEAN]
  /\ got \in [Roles -> Nat]
  /\ marred \in [Roles -> BOOLEAN]
  /\ told \in [Roles -> BOOLEAN]

Init ==
  /\ phase = [r \in Roles |-> "Active"]
  /\ sent = [r \in Roles |-> 0]
  /\ said = [r \in Roles |-> FALSE]
  /\ got = [r \in Roles |-> 0]
  /\ marred = [r \in Roles |-> FALSE]
  /\ told = [r \in Roles |-> FALSE]

-----------------------------------------------------------------------------
MoveTo(r, p) == phase' = [phase EXCEPT ![r] = p]
GetOne(r) == got' = [got EXCEPT ![r] = @ + 1]

(* One more frame is committed to.  A lawful role sends its Close exactly  *)
(* once it is closing, and then no frame any more.                         *)
Commit(r, close) ==
  /\ r \in Lawful => ~said[r] /\ (close <=> phase'[r] # "Active")
  /\ sent' = [sent EXCEPT ![r] = @ + 1]
  /\ said' = [said EXCEPT ![r] = @ \/ close]

Silent == UNCHANGED <<sent, said>>

(* The peer closes: its Close frame was read, and of a lawful peer, all    *)
(* that it sent, unless its frames do not arrive whole.                    *)
Heard(r) ==
  ~marred[Peer(r)] =>
    said[Peer(r)] /\ (Peer(r) \in Lawful => got'[r] = sent[Peer(r)])

(* The caller closes; the Close frame may have to wait.                    *)
Begin(r) ==
  /\ phase[r] = "Active" /\ MoveTo(r, "ClosedByUs")
  /\ Commit(r, TRUE) \/ Silent
  /\ UNCHANGED <<got, marred>>

Send(r) ==
  /\ UNCHANGED phase
  /\ \E close \in BOOLEAN : Commit(r, close)
  /\ UNCHANGED <<got, marred>>

(* A frame other than the peer's Close, and perhaps its answer.            *)
Read(r) ==
  /\ UNCHANGED phase
  /\ GetOne(r)
  /\ Commit(r, FALSE) \/ Silent
  /\ UNCHANGED marred

(* The peer's Close: answered, if the answer need not wait, or expected.   *)
Hear(r) ==
  /\ GetOne(r) /\ Heard(r)
  /\ \/ /\ phase[r] = "Active" /\ MoveTo(r, "ClosedByPeer")
        /\ Commit(r, TRUE) \/ Silent
     \/ /\ phase[r] = "ClosedByUs" /\ MoveTo(r, "CloseAcknowledged")
        /\ Silent
  /\ UNCHANGED marred

End(r) ==
  /\ MoveTo(r, "Terminated")
  /\ Silent
  /\ UNCHANGED <<got, marred>>

Mar ==
  /\ marred' \in [Roles -> BOOLEAN] /\ \A r \in Roles : marred[r] => marred'[r]
  /\ UNCHANGED <<phase, sent, said, got>>

(* A call returns, without a step of the handshake.                        *)
Return == UNCHANGED <<phase, sent, said, got, marred>>

(* Whatever the step, a caller is told of a normal close only by an        *)
(* endpoint that knows that the peer closes.                               *)
Tells(r) == told'[r] => told[r] \/ PeerCloses(r)

Next ==
  /\ \/ \E r \in Roles \ Foreign :
          Begin(r) \/ Send(r) \/ Read(r) \/ Hear(r) \/ End(r)
     \/ \E r \in Foreign : Send(r) \/ (UNCHANGED phase /\ GetOne(r) /\ Silent
                                       /\ UNCHANGED marred)
     \/ Mar \/ Return
  /\ told' \in [Roles -> BOOLEAN] /\ \A r \in Roles : Tells(r)

Spec == Init /\ [][Next]_vars

-----------------------------------------------------------------------------
(* What follows.  No endpoint believes that the peer closes, and none of   *)
(* the callers is told so, unless the peer has sent its Close; and then    *)
(* all it ever sends has been read.                                        *)
Agreement ==
  \A r \in Roles :
    (PeerCloses(r) \/ told[r]) /\ ~marred[Peer(r)] =>
      /\ said[Peer(r)]
      /\ Peer(r) \in Lawful => got[r] >= sent[Peer(r)]
=============================================================================
