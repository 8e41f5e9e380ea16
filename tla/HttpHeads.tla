------------------------------ MODULE HttpHeads ------------------------------
(***************************************************************************)
(* The HTTP request and response of the opening handshake: what the        *)
(* client's builder makes, and what each side demands of the other's.      *)
(* Method, version and header values are abstract; the value of a header   *)
(* is the set of its tokens, {} where the header is missing.               *)
(***************************************************************************)
EXTENDS Integers, Sequences, FiniteSetsExt

CONSTANT Tls                      \* the TLS backend compiled in

ASSUME TlsAssumption == Tls \in {"none", "native", "rustls"}

Names == {"Host", "Connection", "Upgrade", "Version", "Key", "Accept", "Protocol"}
Opaque == {"opaque"}              \* a value to_str() refuses

(* HeaderMap::get: the first of the values that stand under a name.        *)
First(headers, name) == IF headers[name] = <<>> THEN {} ELSE headers[name][1]

(* The error of the first check that fails.                                *)
FirstOf(checks) ==
  LET failed == {i \in DOMAIN checks : checks[i][1]}
  IN  IF failed = {} THEN "Ok" ELSE checks[Min(failed)][2]

(* derive_accept_key, a hash taken to be injective.                        *)
AcceptKey(key) == {<<"accept", k>> : k \in key}

-----------------------------------------------------------------------------
(* The client.  A caller gives an address with headers and subprotocols    *)
(* for ClientRequestBuilder, or a raw request that is taken as it is, and  *)
(* connects, perhaps with a connector, or brings a stream of its own.      *)
BuilderHeaders(ask) ==
  LET standard == [Host |-> <<{ask.host}>>, Connection |-> <<{"Upgrade"}>>,
                   Upgrade |-> <<{"websocket"}>>, Version |-> <<{"13"}>>,
                   Key |-> <<{"k1"}>>, Accept |-> <<>>, Protocol |-> <<>>]
      wanted(n) == IF n = "Protocol" /\ ask.subprotocols # {} THEN <<ask.subprotocols>> ELSE <<>>
  IN  [n \in Names |-> standard[n] \o ask.headers[n] \o wanted(n)]

Headers(ask) == IF ask.raw THEN ask.headers ELSE BuilderHeaders(ask)

BuildError(ask) ==
  IF ask.raw THEN "Ok"
  ELSE FirstOf(<< <<ask.host = "missing", "NoHostName">>, <<ask.host = "empty", "EmptyHostName">>,
                  <<~ask.wellFormed, "HttpFormat">> >>)

Mode(ask) == CASE ask.scheme = "ws" -> "Plain" [] ask.scheme = "wss" -> "Tls" [] OTHER -> "none"
UnsupportedScheme(ask) == Mode(ask) = "none"

(* perpare_tcp_stream, client_tls_with_config and the wrap_stream of each  *)
(* backend, up to what the network says.                                   *)
PlainConnector_Open(ask) == FALSE
PlainConnector(ask) == Tls # "none" /\ ask.connector = "Plain" /\ Mode(ask) = "Tls"
ConnectError(ask) ==
  FirstOf(<< <<BuildError(ask) # "Ok", BuildError(ask)>>,
             <<ask.connects /\ UnsupportedScheme(ask), "UnsupportedUrlScheme">>,
             <<ask.connects /\ Mode(ask) = "Tls" /\ Tls = "none", "TlsFeatureNotEnabled">>,
             <<ask.connects /\ ask.host = "missing", "NoHostName">>,
             <<ask.connects /\ PlainConnector(ask), "TlsFeatureNotEnabled">>,
             <<ask.connects /\ Mode(ask) = "Tls" /\ Tls = "rustls" /\ ask.host = "[::1]",
               "InvalidDnsName">> >>)

Channel(ask) ==
  IF ask.connects /\ Mode(ask) = "Tls" /\ ask.connector # "Plain" THEN "Tls" ELSE "Plain"

(* client_handshake and generate_request.  Headers are taken out with      *)
(* HeaderMap::remove, which takes the first value and drops the others.    *)
Required == <<"Host", "Connection", "Upgrade", "Version", "Key">>
RequiredNames == {Required[i] : i \in DOMAIN Required}

Demanded(h, i) == LET n == Required[(i + 1) \div 2]
                  IN  IF i % 2 = 1 THEN <<h[n] = <<>>, "InvalidHeader">>
                                   ELSE <<First(h, n) = Opaque, "Utf8">>

RequestError(ask) ==
  LET h == Headers(ask)
      others == Names \ RequiredNames
  IN  FirstOf(<< <<ask.method # "GET", "WrongHttpMethod">>, <<ask.version = "1.0", "WrongHttpVersion">>,
                 <<UnsupportedScheme(ask), "UnsupportedUrlScheme">>,
                 <<First(h, "Protocol") = Opaque, "Utf8">>,
                 <<h["Key"] = <<>>, "InvalidHeader">>, <<First(h, "Key") = Opaque, "Utf8">>,
                 <<~ask.path, "NoPathOrQuery">> >>
              \o [i \in 1 .. 2 * Len(Required) |-> Demanded(h, i)]
              \o << <<\E n \in others : \E i \in DOMAIN h[n] : h[n][i] = Opaque, "Utf8">> >>)

SentHeaders_Last(h) == [n \in Names |-> IF n \in RequiredNames THEN <<h[n][Len(h[n])]>> ELSE h[n]]
SentHeaders(h) == [n \in Names |-> IF n \in RequiredNames THEN <<h[n][1]>> ELSE h[n]]

(* What httparse makes of the head that is written: HTTP/2.0 is no version *)
(* it knows.                                                               *)
RequestHead(ask) ==
  [broken |-> IF ask.version = "2.0" THEN "HttparseError" ELSE "no",
   method |-> "GET", version |-> ask.version, status |-> 0,
   headers |-> SentHeaders(Headers(ask))]

-----------------------------------------------------------------------------
(* The server: RequestDecoder, create_parts.                               *)
DecodeChecks(head) ==
  << <<head.broken # "no", head.broken>>, <<head.method # "GET", "WrongHttpMethod">>,
     <<head.version = "1.0", "WrongHttpVersion">> >>

PartsChecks(h) ==
  << <<"Upgrade" \notin First(h, "Connection"), "MissingConnectionUpgradeHeader">>,
     <<First(h, "Upgrade") # {"websocket"}, "MissingUpgradeWebSocketHeader">>,
     <<First(h, "Version") # {"13"}, "MissingSecWebSocketVersionHeader">>,
     <<h["Key"] = <<>>, "MissingSecWebSocketKey">> >>

(* create_response, with the subprotocol the callback adds to it, {} for   *)
(* none; and a refusal, which may keep the headers of the response it was  *)
(* given.                                                                  *)
Accepting(h, protocol) ==
  [n \in Names |-> CASE n = "Connection" -> <<{"Upgrade"}>> [] n = "Upgrade" -> <<{"websocket"}>>
                     [] n = "Accept" -> <<AcceptKey(First(h, "Key"))>>
                     [] n = "Protocol" /\ protocol # {} -> <<protocol>>
                     [] OTHER -> <<>>]

ResponseHead(h, choice) ==
  [broken |-> "no", method |-> "GET", version |-> "1.1", status |-> choice.status,
   headers |-> IF choice.headers THEN Accepting(h, choice.protocol) ELSE [n \in Names |-> <<>>]]

-----------------------------------------------------------------------------
(* The client again: ResponseDecoder, verify_response.  The subprotocols   *)
(* are those of the first header the request has for them.                 *)
Subprotocols(ask) == First(Headers(ask), "Protocol")

WrongStatus_Never(head) == FALSE
WrongStatus(head) == head.status # 101

Unanswered_Accepted(asked, got) == FALSE
Unanswered(asked, got) == got = {} /\ asked # {}
VerifyChecks(ask, head) ==
  LET h == head.headers
      asked == Subprotocols(ask)
      got == First(h, "Protocol")
  IN  << <<WrongStatus(head), "Http">>,
         <<First(h, "Upgrade") # {"websocket"}, "MissingUpgradeWebSocketHeader">>,
         <<First(h, "Connection") # {"Upgrade"}, "MissingConnectionUpgradeHeader">>,
         <<First(h, "Accept") # AcceptKey(First(Headers(ask), "Key")), "SecWebSocketAcceptKeyMismatch">>,
         <<Unanswered(asked, got), "NoSubProtocol">>,
         <<got # {} /\ asked = {}, "ServerSentSubProtocolNoneRequested">>,
         <<got = Opaque, "Utf8">>,
         <<got # {} /\ ~\E t \in asked : got = {t}, "InvalidSubProtocol">> >>
=============================================================================
