------------------------- MODULE HandshakeProperties -------------------------
(* What the opening handshake owes the two sides of it.                    *)
EXTENDS Handshake

TypeOK ==
  /\ foreign \in Casts /\ ask \in Asks
  /\ pc \in [Roles -> {"foreign", "connecting", "connected", "writing", "reading",
                       "done", "failed", "gone"}]
  /\ \A r \in Roles : /\ {wire[r][i] : i \in DOMAIN wire[r]} \cup {out[r][i] : i \in DOMAIN out[r]}
                           \subseteq {"head", "body", "frame"} \X (1 .. MaxFrames + 2)
                      /\ arrived[r] \in 0 .. Received(r) /\ start[r] \in 0 .. arrived[r]
                      /\ head[r] = NoHead => pc[r] # "writing"
  /\ channel \in {"none", "Plain", "Tls"}
  /\ choice.is \in {"none", "accept", "refuse"}
  /\ \A r \in Roles : pc[r] = "done" => res[r] = "Ok"

Ours(r) == r \notin foreign

(* The codec begins where the peer's head ends: no byte of the head is     *)
(* left for it and no frame that came in with the head is lost, whether it *)
(* was read with it or not (advance() in client_handshake, clear() in      *)
(* server_handshake, and JunkAfterRequest).                                *)
HandOver ==
  \A r \in Roles : Ours(r) /\ pc[r] = "done" =>
    \A i \in DOMAIN wire[Peer(r)] : i <= start[r] <=> wire[Peer(r)][i][1] = "head"

(* A client of this crate that has a WebSocket was accepted by the         *)
(* server's callback, whatever became of the server since: no refusal      *)
(* passes for an acceptance, and no error of the server's for one.         *)
ClientOkMeansAccepted ==
  res["Client"] = "Ok" /\ Ours("Server") => choice.is = "accept"

(* Both sides speak the subprotocol the callback chose: one the request    *)
(* asked for, or none when it asked for none.                              *)
SubprotocolAgreed ==
  res["Client"] = "Ok" /\ Ours("Server") =>
    IF Subprotocols(ask) = {} THEN choice.protocol = {}
    ELSE \E t \in Subprotocols(ask) : choice.protocol = {t}

(* A request that ClientRequestBuilder made is never refused by            *)
(* server_handshake itself, whatever headers the caller added to it.       *)
ServerErrors == {"HandshakeIncomplete", "Io", "Http", "CustomResponseSuccessful"}
BuiltIsAccepted ==
  Ours("Client") /\ Ours("Server") /\ ~ask.raw =>
    res["Server"] \in ServerErrors \cup {"none", "Ok"}

(* connect() writes nothing of a wss request to a stream without TLS: not  *)
(* with no backend, and not with Connector::Plain.                         *)
NeverInTheClear ==
  Ours("Client") /\ ask.connects /\ ask.scheme = "wss" /\ wire["Client"] # <<>> => channel = "Tls"

(* The handshake ends on both sides, whatever goes wrong on the other and  *)
(* whoever leaves.  There is no timeout: the one thing that can hold a side *)
(* for ever, in the wait for the peer's head and nowhere else, is another  *)
(* implementation that keeps the stream open and withholds its head.       *)
Withheld(r) ==
  /\ Peer(r) \in foreign /\ ~Left(Peer(r)) /\ Received(r) < HeadSize
  /\ pc[r] = "reading"
HandshakeEnds == \A r \in Roles : Ours(r) => <>Over(r) \/ <>[]Withheld(r)
=============================================================================
