----------------------------- MODULE MCWebSocket -----------------------------
(* Instances of the two endpoints for TLC.                                 *)
EXTENDS WebSocketProperties

Body(i, n) == [id |-> i, len |-> n, utf8 |-> "whole"]
Cut(i, n, class) == [id |-> i, len |-> n, utf8 |-> class]
Part(op, last, body) == [Plain(op, body) EXCEPT !.fin = last]
Sealed(f) == [f EXCEPT !.masked = TRUE]

-----------------------------------------------------------------------------
(* Configurations: limits that never bite and a buffer of no or one frame, *)
(* and limits of a few bytes.                                              *)
Limits(writes, msg, frm) ==
  [writeLimit |-> writes, maxMessage |-> msg, maxFrame |-> frm,
   acceptUnmasked |-> FALSE]

MCEager == {Limits(0, NoLimit, NoLimit)}
MCBuffering == {Limits(0, NoLimit, NoLimit), Limits(1, NoLimit, NoLimit)}
MCTight == {[Limits(0, 3, NoLimit) EXCEPT !.acceptUnmasked = TRUE], Limits(0, 1, 1)}

-----------------------------------------------------------------------------
(* What the callers write: a data message and a ping each.                 *)
MCChat == [r \in Roles |->
             IF r = "Client" THEN {Plain("Text", Body(1, 1)), Plain("Ping", Body(2, 1))}
                             ELSE {Plain("Binary", Body(3, 1)), Plain("Ping", Body(4, 1))}]
MCTalk == [r \in Roles |->
             IF r = "Client" THEN {Plain("Text", Body(1, 1))}
                             ELSE {Plain("Ping", Body(4, 1))}]
MCCloses == {Empty, Body(1000, 2)}
MCNoClose == {Empty}

(* A client that sends fragments, control frames among them, and forgets  *)
(* a mask.                                                                 *)
MCFragments ==
  [r \in Roles |->
     IF r = "Server" THEN {}
     ELSE {Plain("Binary", Body(5, 1))} \cup
          {Sealed(f) : f \in
             {Part("Text", FALSE, Cut(1, 1, "opens")), Part("Continue", FALSE, Body(2, 1)),
              Part("Continue", TRUE, Cut(3, 1, "closes")), Part("Binary", FALSE, Body(4, 2)),
              Plain("Ping", Body(6, 0)), Plain("Close", Body(1000, 2))}}]

(* A server that breaks the rules a client has to check.                   *)
MCUnrulyServer ==
  [r \in Roles |->
     IF r = "Client" THEN {Plain("Text", Body(9, 1))}
     ELSE {Sealed(Plain("Text", Body(1, 1))), [Plain("Text", Body(2, 1)) EXCEPT !.rsv = TRUE],
           Plain("ReservedData", Body(3, 1)), Plain("ReservedControl", Body(4, 1)),
           Part("Ping", FALSE, Body(5, 1)), Plain("Ping", Body(6, 126)),
           Plain("Text", Cut(7, 1, "bad")), Plain("Pong", Body(8, 1)),
           Plain("Close", Body(1005, 2)), Plain("Close", Body(0, 1)),
           Plain("Close", Cut(1000, 3, "bad")), Plain("Close", Body(3000, 2))}]

-----------------------------------------------------------------------------
MCNobody == {}
MCServer == {"Server"}
MCClient == {"Client"}

(* Calls per role.                                                         *)
Calls(c, s) == [r \in Roles |-> IF r = "Client" THEN c ELSE s]
MCCalls22 == Calls(2, 2)
MCCalls11 == Calls(1, 1)
MCCalls41 == Calls(4, 1)
MCCalls13 == Calls(1, 3)

MCNoGarbage == {}
MCClosing == {Plain("Close", Empty)}
MCGarbage == {Plain("Binary", Body(99, 1)), Plain("Close", Empty),
              Plain("ReservedData", Empty)}
=============================================================================
