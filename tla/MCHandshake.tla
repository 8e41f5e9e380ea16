----------------------------- MODULE MCHandshake -----------------------------
(* Instances of the opening handshake for TLC.                             *)
EXTENDS HandshakeProperties

None == [n \in Names |-> <<>>]
With(n, values) == [None EXCEPT ![n] = values]

(* A plain request of the builder, and what may be different about it.     *)
Built == [raw |-> FALSE, connects |-> TRUE, connector |-> "none", scheme |-> "ws",
          host |-> "name", path |-> TRUE, wellFormed |-> TRUE, method |-> "GET",
          version |-> "1.1", headers |-> None, subprotocols |-> {}]
Raw == [Built EXCEPT !.raw = TRUE, !.connects = FALSE, !.headers = BuilderHeaders(Built)]

Extra == {None, With("Connection", <<{"keep-alive"}>>), With("Key", <<{"k2"}>>),
          With("Protocol", <<{"b"}>>), With("Accept", <<Opaque>>), With("Protocol", <<Opaque>>)}

MCAsks ==
  {[Built EXCEPT !.headers = h, !.subprotocols = s, !.connects = c] :
     h \in Extra, s \in {{}, {"a"}, {"a", "b"}}, c \in BOOLEAN}
  \cup {[Built EXCEPT !.scheme = s, !.host = h, !.connector = c, !.connects = o] :
          s \in {"ws", "wss", "http"}, h \in {"name", "[::1]", "empty", "missing"},
          c \in {"none", "Plain"}, o \in BOOLEAN}
  \cup {[Built EXCEPT !.wellFormed = FALSE], [Raw EXCEPT !.method = "POST"],
        [Raw EXCEPT !.version = "1.0"], [Raw EXCEPT !.version = "2.0"], [Raw EXCEPT !.path = FALSE]}
  \cup {[Raw EXCEPT !.headers[n] = v] :
          n \in RequiredNames, v \in {<<>>, <<Opaque>>, <<{"Upgrade"}>>, <<{"keep-alive", "Upgrade"}>>}}

MCRefusals ==
  {[status |-> 403, headers |-> h, body |-> TRUE] : h \in BOOLEAN}
  \cup {[status |-> 200, headers |-> FALSE, body |-> FALSE]}

(* Another client's requests, and another server's responses.              *)
HeadOf(status, headers) ==
  [broken |-> "no", method |-> "GET", version |-> "1.1", status |-> status, headers |-> headers]

Request == HeadOf(0, BuilderHeaders(Built))
Response == HeadOf(101, Accepting(BuilderHeaders(Built), {}))

Variants(h, changes) ==
  {h, [h EXCEPT !.broken = "TooManyHeaders"], [h EXCEPT !.broken = "HttparseError"],
   [h EXCEPT !.version = "1.0"], [h EXCEPT !.method = "POST"], [h EXCEPT !.status = 302]}
  \cup {[h EXCEPT !.headers[c[1]] = c[2]] : c \in changes}

MCHeads ==
  [r \in Roles |->
     IF r = "Client"
     THEN Variants(Request, {<<"Connection", <<{"keep-alive", "Upgrade"}>> >>,
                             <<"Connection", <<Opaque>> >>} \cup ({"Upgrade", "Version", "Key"} \X {<<>>}))
     ELSE Variants(Response, {<<"Connection", <<{"keep-alive", "Upgrade"}>> >>,
                              <<"Accept", <<AcceptKey({"k2"})>> >>, <<"Protocol", <<{"a"}>> >>,
                              <<"Protocol", <<{"c"}>> >>, <<"Protocol", <<Opaque>> >>}
                             \cup ({"Upgrade", "Connection"} \X {<<>>}))]

MCCasts == {{}, {"Client"}, {"Server"}}
=============================================================================
