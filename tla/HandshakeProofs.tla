---------------------------- MODULE HandshakeProofs ----------------------------
(***************************************************************************)
(* The opening handshake, proved for every request, every callback, every  *)
(* foreign client or server and any number of frames sent early.           *)
(***************************************************************************)
EXTENDS HandshakeProperties, TLAPS, FiniteSetTheorems, WellFoundedInduction

-----------------------------------------------------------------------------
(* The error that a list of checks ends in.                                *)

LEMMA MinIsIn ==
  ASSUME NEW S \in SUBSET Nat, S # {}
  PROVE  Min(S) \in S
<1>1. PICK x \in S : \A y \in S : ~ (<<y, x>> \in OpToRel(<, Nat))
  BY NatLessThanWellFounded, WFMin
<1>2. \A y \in S : ~(y < x)
  BY <1>1 DEF OpToRel
<1>3. \E z \in S : \A y \in S : z =< y
  BY <1>2
<1> QED BY <1>3 DEF Min

(* Where every check has an error of its own, no error means that none of  *)
(* the checks failed.                                                      *)
LEMMA NoErrorNoFailure ==
  ASSUME NEW n \in Nat, NEW checks, DOMAIN checks = 1 .. n,
         \A i \in 1 .. n : checks[i][1] => checks[i][2] # "Ok",
         FirstOf(checks) = "Ok"
  PROVE  \A i \in 1 .. n : ~checks[i][1]
<1> DEFINE failed == {i \in DOMAIN checks : checks[i][1]}
<1>1. failed \in SUBSET Nat
  OBVIOUS
<1>2. CASE failed # {}
  <2>1. Min(failed) \in failed
    BY <1>1, <1>2, MinIsIn
  <2>2. FirstOf(checks) = checks[Min(failed)][2]
    BY <1>2 DEF FirstOf
  <2> HIDE DEF failed
  <2>3. \A i \in failed : i \in 1 .. n /\ checks[i][1]
    BY DEF failed
  <2> QED BY <2>1, <2>2, <2>3
<1> QED BY <1>2

(* No failure, no error.                                                   *)
LEMMA NoFailureNoError ==
  ASSUME NEW checks, \A i \in DOMAIN checks : ~checks[i][1]
  PROVE  FirstOf(checks) = "Ok"
BY DEF FirstOf

-----------------------------------------------------------------------------
(* What is on the stream.                                                  *)

Places == {"foreign", "connecting", "connected", "writing", "reading", "done",
           "failed", "gone"}
Unit == {"head", "body", "frame"} \X (1 .. MaxFrames + 2)

Types ==
  /\ pc \in [Roles -> Places]
  /\ out \in [Roles -> Seq(Unit)] /\ wire \in [Roles -> Seq(Unit)]
  /\ arrived \in [Roles -> Nat] /\ start \in [Roles -> Nat]
  /\ head = [r \in Roles |-> head[r]]
  /\ res = [r \in Roles |-> res[r]]
  /\ foreign \in Casts /\ ask \in Asks
  /\ channel \in {"none", "Plain", "Tls"}
  /\ choice.is \in {"none", "accept", "refuse"}

(* Where a side may stand.                                                 *)
Stands(r) ==
  /\ r \in foreign => pc[r] \in {"foreign", "writing", "gone"}
  /\ r \notin foreign => pc[r] # "foreign"
  /\ r = "Server" => pc[r] \notin {"connecting", "connected"}

(* A side writes nothing before its head and the whole head after that.    *)
Submitted(r) ==
  /\ head[r] = NoHead => /\ wire[r] = <<>> /\ out[r] = <<>>
                         /\ pc[r] \notin {"writing", "done"}
  /\ head[r] # NoHead => /\ pc[r] \notin {"connecting", "connected"}
                         /\ Len(wire[r]) + Len(out[r]) >= 2
                         /\ pc[r] \in {"done", "foreign", "reading"} => out[r] = <<>>
  /\ pc[r] = "reading" => (head[r] = NoHead <=> r = "Server")

IsHead(unit) == unit[1] = "head"
HeadFirst(r) ==
  /\ \A i \in 1 .. Len(wire[r]) : IsHead(wire[r][i]) <=> i <= 2
  /\ \A i \in 1 .. Len(out[r]) : IsHead(out[r][i]) <=> Len(wire[r]) + i <= 2

(* What it has read, and where its codec starts.                           *)
Reads(r) ==
  /\ arrived[r] <= Len(wire[Peer(r)]) /\ start[r] <= arrived[r]
  /\ pc[r] = "done" => start[r] = 2 /\ res[r] = "Ok"
  /\ r = "Server" /\ r \notin foreign /\ pc[r] = "writing" /\ choice.is = "accept"
     => arrived[r] = 2

Side(r) == Stands(r) /\ Submitted(r) /\ HeadFirst(r) /\ Reads(r)

StreamInv == Types /\ \A r \in Roles : Side(r)

LEMMA PeerOf == \A r \in Roles : Peer(r) \in Roles /\ Peer(r) # r /\ Peer(Peer(r)) = r
BY DEF Roles, Peer

LEMMA HeadUnitsFacts ==
  /\ HeadSize = 2 /\ Len(HeadUnits) = 2 /\ HeadUnits \in Seq(Unit)
  /\ \A i \in 1 .. 2 : IsHead(HeadUnits[i])
BY MaxFramesAssumption DEF HeadSize, HeadUnits, Unit, IsHead

LEMMA AnswerUnits ==
  ASSUME NEW body
  PROVE  LET units == HeadUnits \o IF body THEN BodyUnits ELSE <<>>
         IN /\ units \in Seq(Unit) /\ Len(units) >= 2
            /\ \A i \in 1 .. Len(units) : IsHead(units[i]) <=> i <= 2
<1>1. CASE body
  BY <1>1, MaxFramesAssumption DEF HeadUnits, BodyUnits, Unit, IsHead
<1>2. CASE ~body
  BY <1>2, MaxFramesAssumption DEF HeadUnits, Unit, IsHead
<1> QED BY <1>1, <1>2

LEMMA AppendOne ==
  ASSUME NEW S, NEW s \in Seq(S), NEW x \in S
  PROVE  /\ Append(s, x) \in Seq(S) /\ Len(s) \in Nat
         /\ Len(Append(s, x)) = Len(s) + 1 /\ Append(s, x)[Len(s) + 1] = x
         /\ \A i \in 1 .. Len(s) : Append(s, x)[i] = s[i]
OBVIOUS

LEMMA TailOne ==
  ASSUME NEW S, NEW s \in Seq(S), s # <<>>
  PROVE  /\ Tail(s) \in Seq(S) /\ Head(s) = s[1] /\ Head(s) \in S /\ Len(s) \in Nat \ {0}
         /\ Len(Tail(s)) = Len(s) - 1
         /\ \A i \in 1 .. Len(s) - 1 : Tail(s)[i] = s[i + 1]
OBVIOUS

(* What a step of q leaves alone in the other side.                        *)
Apart(r) ==
  /\ pc'[r] = pc[r] /\ out'[r] = out[r] /\ wire'[r] = wire[r] /\ head'[r] = head[r]
  /\ arrived'[r] = arrived[r] /\ start'[r] = start[r] /\ res'[r] = res[r]

Onward(r) == foreign' = foreign /\ Len(wire[r]) <= Len(wire'[r])

LEMMA ApartKeeps ==
  ASSUME Types, Types', NEW r \in Roles, Side(r), Apart(r), Onward(Peer(r)),
         r = "Server" => choice' = choice
  PROVE  Side(r)'
<1>1. Stands(r)' /\ Submitted(r)' /\ HeadFirst(r)'
  BY DEF Side, Apart, Onward, Stands, Submitted, HeadFirst
<1>2. arrived'[r] <= Len(wire'[Peer(r)])
  <2>1. arrived[r] \in Nat /\ wire[Peer(r)] \in Seq(Unit) /\ wire'[Peer(r)] \in Seq(Unit)
    BY PeerOf DEF Types
  <2>2. arrived[r] <= Len(wire[Peer(r)]) /\ Len(wire[Peer(r)]) <= Len(wire'[Peer(r)])
    BY DEF Side, Reads, Onward
  <2>3. Len(wire[Peer(r)]) \in Nat /\ Len(wire'[Peer(r)]) \in Nat
    BY <2>1
  <2> QED BY <2>1, <2>2, <2>3 DEF Apart
<1>3. Reads(r)'
  BY <1>2 DEF Side, Apart, Onward, Reads
<1> QED BY <1>1, <1>3 DEF Side

LEMMA StepKeeps ==
  ASSUME StreamInv, Types', NEW q \in Roles, Side(q)', Apart(Peer(q)), Onward(q),
         q = "Client" => choice' = choice
  PROVE  StreamInv'
<1>1. Peer(q) \in Roles /\ Peer(Peer(q)) = q /\ (Peer(q) = "Server" => q = "Client")
  BY DEF Roles, Peer
<1>2. Side(Peer(q))'
  BY <1>1, ApartKeeps DEF StreamInv
<1>3. \A r \in Roles : r = q \/ r = Peer(q)
  BY DEF Roles, Peer
<1> QED BY <1>2, <1>3 DEF StreamInv

(* What the small steps of a future do to a variable.                      *)
LEMMA OneChanges ==
  ASSUME NEW f, NEW g, f = [r \in Roles |-> f[r]], NEW q \in Roles, NEW v, g = [f EXCEPT ![q] = v]
  PROVE  /\ g = [r \in Roles |-> g[r]] /\ g[q] = v /\ g[Peer(q)] = f[Peer(q)]
         /\ \A r \in Roles : g[r] = v \/ g[r] = f[r]
<1>1. g = [r \in Roles |-> IF r = q THEN v ELSE f[r]]
  OBVIOUS
<1> QED BY <1>1, PeerOf

LEMMA GoToFacts ==
  ASSUME Types, NEW q \in Roles, NEW at \in Places, GoTo(q, at)
  PROVE  /\ pc' \in [Roles -> Places] /\ pc'[q] = at /\ pc'[Peer(q)] = pc[Peer(q)]
         /\ res' = res
<1>1. pc = [r \in Roles |-> pc[r]] /\ pc' = [pc EXCEPT ![q] = at]
  BY DEF Types, GoTo
<1>2. pc'[q] = at /\ pc'[Peer(q)] = pc[Peer(q)]
  BY <1>1, OneChanges
<1> QED BY <1>1, <1>2 DEF GoTo, Types

LEMMA ReturnFacts ==
  ASSUME Types, NEW q \in Roles, NEW e, Return(q, e)
  PROVE  /\ pc' \in [Roles -> Places] /\ pc'[Peer(q)] = pc[Peer(q)]
         /\ pc'[q] = IF e = "Ok" THEN "done" ELSE "failed"
         /\ res' = [r \in Roles |-> res'[r]] /\ res'[q] = e /\ res'[Peer(q)] = res[Peer(q)]
<1> DEFINE at == IF e = "Ok" THEN "done" ELSE "failed"
<1>0. at \in Places
  BY DEF Places
<1>1. pc = [r \in Roles |-> pc[r]] /\ pc' = [pc EXCEPT ![q] = at]
  BY DEF Types, Return
<1>2. pc'[q] = at /\ pc'[Peer(q)] = pc[Peer(q)]
  <2> HIDE DEF at
  <2> QED BY <1>1, OneChanges
<1>3. res = [r \in Roles |-> res[r]] /\ res' = [res EXCEPT ![q] = e]
  BY DEF Types, Return
<1>4. res' = [r \in Roles |-> res'[r]] /\ res'[q] = e /\ res'[Peer(q)] = res[Peer(q)]
  BY <1>3, OneChanges
<1>5. pc' \in [Roles -> Places]
  BY <1>0, <1>1 DEF Types
<1> QED BY <1>2, <1>4, <1>5

LEMMA SubmitFacts ==
  ASSUME Types, NEW q \in Roles, NEW h, NEW units \in Seq(Unit), Submit(q, h, units)
  PROVE  /\ pc' \in [Roles -> Places] /\ pc'[q] = "writing" /\ pc'[Peer(q)] = pc[Peer(q)]
         /\ res' = res
         /\ head' = [r \in Roles |-> head'[r]] /\ head'[q] = h /\ head'[Peer(q)] = head[Peer(q)]
         /\ out' \in [Roles -> Seq(Unit)] /\ out'[q] = units /\ out'[Peer(q)] = out[Peer(q)]
<1>1. /\ pc' \in [Roles -> Places] /\ pc'[q] = "writing" /\ pc'[Peer(q)] = pc[Peer(q)]
      /\ res' = res
  BY GoToFacts DEF Submit, Places
<1>2. head = [r \in Roles |-> head[r]] /\ head' = [head EXCEPT ![q] = h]
  BY DEF Types, Submit
<1>3. head' = [r \in Roles |-> head'[r]] /\ head'[q] = h /\ head'[Peer(q)] = head[Peer(q)]
  BY <1>2, OneChanges
<1>4. out = [r \in Roles |-> out[r]] /\ out' = [out EXCEPT ![q] = units]
  BY DEF Types, Submit
<1>5. out'[q] = units /\ out'[Peer(q)] = out[Peer(q)]
  BY <1>4, OneChanges
<1>6. out' \in [Roles -> Seq(Unit)]
  BY <1>4 DEF Types
<1> QED BY <1>1, <1>3, <1>5, <1>6

-----------------------------------------------------------------------------
(* Every step leaves the two streams in order.                             *)

LEMMA InitStream == Init => StreamInv
<1> SUFFICES ASSUME Init PROVE StreamInv
  OBVIOUS
<1>1. foreign \in Casts /\ ask \in Asks
  BY AsksAssumption DEF Init
<1>2. /\ out = [r \in Roles |-> <<>>] /\ wire = [r \in Roles |-> <<>>]
      /\ arrived = [r \in Roles |-> 0] /\ start = [r \in Roles |-> 0]
      /\ head = [r \in Roles |-> NoHead] /\ res = [r \in Roles |-> "none"]
      /\ pc = [r \in Roles |-> IF r \in foreign THEN "foreign"
                               ELSE IF r = "Client" THEN "connecting" ELSE "reading"]
      /\ channel = "none" /\ choice = NoChoice
  BY DEF Init
<1>3. Types
  <2>1. pc \in [Roles -> Places]
    BY <1>2 DEF Places
  <2>2. out \in [Roles -> Seq(Unit)] /\ wire \in [Roles -> Seq(Unit)]
    BY <1>2
  <2>3. arrived \in [Roles -> Nat] /\ start \in [Roles -> Nat]
    BY <1>2
  <2>4. choice.is \in {"none", "accept", "refuse"}
    BY <1>2 DEF NoChoice
  <2> QED BY <1>1, <1>2, <2>1, <2>2, <2>3, <2>4 DEF Types
<1>4. ASSUME NEW r \in Roles PROVE Side(r)
  <2>1. /\ out[r] = <<>> /\ wire[r] = <<>> /\ wire[Peer(r)] = <<>> /\ arrived[r] = 0
        /\ start[r] = 0 /\ head[r] = NoHead
        /\ pc[r] = IF r \in foreign THEN "foreign"
                    ELSE IF r = "Client" THEN "connecting" ELSE "reading"
    BY <1>2, PeerOf
  <2>2. Stands(r) /\ Submitted(r)
    BY <2>1 DEF Stands, Submitted, Roles
  <2>3. HeadFirst(r)
    BY <2>1 DEF HeadFirst
  <2>4. Reads(r)
    BY <2>1 DEF Reads
  <2> QED BY <2>2, <2>3, <2>4 DEF Side
<1> QED BY <1>3, <1>4 DEF StreamInv

(* What most steps of q leave alone, in one line.                          *)
LEMMA Lengths ==
  ASSUME Types, NEW r \in Roles
  PROVE  /\ Len(wire[r]) \in Nat /\ Len(out[r]) \in Nat /\ arrived[r] \in Nat /\ start[r] \in Nat
         /\ wire[r] \in Seq(Unit) /\ out[r] \in Seq(Unit)
BY DEF Types

(* A side that ends without an acceptance, or goes on to its next await    *)
(* with nothing written.                                                   *)
LEMMA MovedKeeps ==
  ASSUME StreamInv, NEW q \in Roles,
         pc' \in [Roles -> Places], pc'[Peer(q)] = pc[Peer(q)],
         res' = [r \in Roles |-> res'[r]], res'[Peer(q)] = res[Peer(q)],
         UNCHANGED <<foreign, ask, out, wire, head, arrived, start>>,
         channel' \in {"none", "Plain", "Tls"}, choice'.is \in {"none", "accept", "refuse"},
         q = "Client" => choice' = choice,
         Stands(q)', Submitted(q)', pc'[q] \notin {"done", "writing"}
  PROVE  StreamInv'
<1>1. Types'
  BY DEF StreamInv, Types
<1>2. HeadFirst(q)'
  BY DEF StreamInv, Side, HeadFirst
<1>3. Reads(q)'
  BY DEF StreamInv, Side, Reads
<1>4. Onward(q)
  BY Lengths DEF StreamInv, Onward
<1> QED BY <1>1, <1>2, <1>3, <1>4, StepKeeps DEF Side, Apart

LEMMA ConnectStream == ASSUME StreamInv, Connect PROVE StreamInv'
<1>0. Types /\ "Client" \in Roles /\ Stands("Client") /\ Submitted("Client") /\ pc["Client"] = "connecting"
  BY DEF StreamInv, Side, Connect, Roles
<1>1. CASE GoTo("Client", "connected") /\ channel' = Channel(ask)
  <2>1. /\ pc' \in [Roles -> Places] /\ pc'["Client"] = "connected"
        /\ pc'[Peer("Client")] = pc[Peer("Client")] /\ res' = res
    BY <1>0, <1>1, GoToFacts DEF Places
  <2>2. channel' \in {"none", "Plain", "Tls"}
    BY <1>1 DEF Channel
  <2>3. Stands("Client")' /\ Submitted("Client")'
    BY <1>0, <2>1 DEF Connect, Stands, Submitted
  <2> QED BY <1>0, <2>1, <2>2, <2>3, MovedKeeps DEF Connect, StreamInv, Types
<1>2. ASSUME NEW f, f # "Ok", Return("Client", f), UNCHANGED channel PROVE StreamInv'
  <2>1. /\ pc' \in [Roles -> Places] /\ pc'["Client"] = "failed"
        /\ pc'[Peer("Client")] = pc[Peer("Client")]
        /\ res' = [r \in Roles |-> res'[r]] /\ res'[Peer("Client")] = res[Peer("Client")]
    BY <1>0, <1>2, ReturnFacts
  <2>2. Stands("Client")' /\ Submitted("Client")'
    BY <1>0, <2>1 DEF Connect, Stands, Submitted
  <2> QED BY <1>0, <1>2, <2>1, <2>2, MovedKeeps DEF Connect, StreamInv, Types
<1> QED BY <1>1, <1>2 DEF Connect

LEMMA NextEndsStream == ASSUME StreamInv, NEW q \in Roles, NextEnds(q) PROVE StreamInv'
<1>0. Types /\ Stands(q) /\ Submitted(q) /\ pc[q] = "reading"
  BY DEF StreamInv, Side, NextEnds
<1>1. PICK e : e # "Ok" /\ Return(q, e)
  BY DEF NextEnds
<1>2. /\ pc' \in [Roles -> Places] /\ pc'[q] = "failed" /\ pc'[Peer(q)] = pc[Peer(q)]
      /\ res' = [r \in Roles |-> res'[r]] /\ res'[Peer(q)] = res[Peer(q)]
  BY <1>0, <1>1, ReturnFacts
<1>3. Stands(q)' /\ Submitted(q)'
  BY <1>0, <1>2 DEF NextEnds, Stands, Submitted
<1> QED BY <1>0, <1>2, <1>3, MovedKeeps DEF NextEnds, StreamInv, Types

LEMMA WriteFailsStream == ASSUME StreamInv, NEW q \in Roles, WriteFails(q) PROVE StreamInv'
<1>0. Types /\ Stands(q) /\ Submitted(q) /\ pc[q] = "writing" /\ q \notin foreign /\ Return(q, "Io")
  BY DEF StreamInv, Side, WriteFails
<1>2. /\ pc' \in [Roles -> Places] /\ pc'[q] = "failed" /\ pc'[Peer(q)] = pc[Peer(q)]
      /\ res' = [r \in Roles |-> res'[r]] /\ res'[Peer(q)] = res[Peer(q)]
  BY <1>0, ReturnFacts
<1>3. Stands(q)' /\ Submitted(q)'
  BY <1>0, <1>2 DEF WriteFails, Stands, Submitted
<1> QED BY <1>0, <1>2, <1>3, MovedKeeps DEF WriteFails, StreamInv, Types

LEMMA DropStream == ASSUME StreamInv, NEW q \in Roles, Drop(q) PROVE StreamInv'
<1>0. Types /\ Stands(q) /\ Submitted(q) /\ GoTo(q, "gone")
  BY DEF StreamInv, Side, Drop
<1>1. /\ pc' \in [Roles -> Places] /\ pc'[q] = "gone" /\ pc'[Peer(q)] = pc[Peer(q)] /\ res' = res
  BY <1>0, GoToFacts DEF Places
<1>3. Stands(q)' /\ Submitted(q)'
  BY <1>0, <1>1 DEF Drop, Stands, Submitted
<1> QED BY <1>0, <1>1, <1>3, MovedKeeps DEF Drop, StreamInv, Types

LEMMA ArriveStream == ASSUME StreamInv, NEW q \in Roles, Arrive(q) PROVE StreamInv'
<1>0. Types /\ Side(q) /\ pc[q] = "reading" /\ Peer(q) \in Roles
  BY PeerOf DEF StreamInv, Arrive
<1>1. PICK n \in arrived[q] + 1 .. Received(q) : arrived' = [arrived EXCEPT ![q] = n]
  BY DEF Arrive
<1>2. n \in Nat /\ n > arrived[q] /\ n <= Len(wire[Peer(q)])
  BY <1>0, <1>1, Lengths DEF Received
<1>3. arrived = [r \in Roles |-> arrived[r]]
  BY <1>0 DEF Types
<1>4. arrived'[q] = n /\ arrived'[Peer(q)] = arrived[Peer(q)]
  BY <1>1, <1>3, OneChanges
<1>5. Types'
  BY <1>0, <1>1, <1>2 DEF Arrive, Types
<1>6. Stands(q)' /\ Submitted(q)' /\ HeadFirst(q)'
  BY <1>0 DEF Arrive, Side, Stands, Submitted, HeadFirst
<1>7. Reads(q)'
  BY <1>0, <1>2, <1>4, Lengths DEF Arrive, Side, Reads
<1>8. Apart(Peer(q)) /\ Onward(q)
  BY <1>0, <1>4, Lengths DEF Arrive, Apart, Onward
<1> QED BY <1>5, <1>6, <1>7, <1>8, StepKeeps DEF Arrive, Side

LEMMA WriteStream == ASSUME StreamInv, NEW q \in Roles, Write(q) PROVE StreamInv'
<1> DEFINE sent == wire[q]
           left == out[q]
<1>0. Types /\ Side(q) /\ pc[q] = "writing" /\ Peer(q) \in Roles /\ out[q] # <<>>
  BY PeerOf DEF StreamInv, Write
<1>1. /\ wire' = [wire EXCEPT ![q] = Append(wire[q], Head(out[q]))]
      /\ out' = [out EXCEPT ![q] = Tail(out[q])]
      /\ wire = [r \in Roles |-> wire[r]] /\ out = [r \in Roles |-> out[r]]
  BY <1>0 DEF Write, Types
<1>2. /\ wire'[q] = Append(sent, Head(left)) /\ wire'[Peer(q)] = wire[Peer(q)]
      /\ out'[q] = Tail(left) /\ out'[Peer(q)] = out[Peer(q)]
  <2> DEFINE more == Append(sent, Head(left))
             rest == Tail(left)
  <2>1. wire' = [wire EXCEPT ![q] = more] /\ out' = [out EXCEPT ![q] = rest]
    BY <1>1
  <2> HIDE DEF more, rest
  <2>2. wire'[q] = more /\ wire'[Peer(q)] = wire[Peer(q)]
    BY <1>1, <2>1, PeerOf
  <2>3. out'[q] = rest /\ out'[Peer(q)] = out[Peer(q)]
    BY <1>1, <2>1, PeerOf
  <2> QED BY <2>2, <2>3 DEF more, rest
<1>3. /\ sent \in Seq(Unit) /\ left \in Seq(Unit) /\ left # <<>> /\ Len(sent) \in Nat
      /\ arrived[q] \in Nat /\ start[q] \in Nat
  BY <1>0, Lengths
<1>4. /\ Tail(left) \in Seq(Unit) /\ Head(left) = left[1] /\ Head(left) \in Unit
      /\ Len(left) \in Nat \ {0} /\ Len(Tail(left)) = Len(left) - 1
      /\ \A i \in 1 .. Len(left) - 1 : Tail(left)[i] = left[i + 1]
  BY <1>3, TailOne
<1>5. /\ Append(sent, Head(left)) \in Seq(Unit)
      /\ Len(Append(sent, Head(left))) = Len(sent) + 1
      /\ Append(sent, Head(left))[Len(sent) + 1] = left[1]
      /\ \A i \in 1 .. Len(sent) : Append(sent, Head(left))[i] = sent[i]
  BY <1>3, <1>4, AppendOne
<1>6. Types'
  <2>1. wire' \in [Roles -> Seq(Unit)] /\ out' \in [Roles -> Seq(Unit)]
    BY <1>0, <1>1, <1>4, <1>5 DEF Types
  <2> QED BY <1>0, <2>1 DEF Write, Types
<1>7. Stands(q)'
  BY <1>0 DEF Write, Side, Stands
<1>8. Submitted(q)'
  <2>1. head[q] # NoHead /\ Len(wire[q]) + Len(out[q]) >= 2
    BY <1>0 DEF Side, Submitted
  <2>2. Len(wire'[q]) + Len(out'[q]) >= 2
    <3>1. /\ Len(wire'[q]) = Len(wire[q]) + 1 /\ Len(out'[q]) = Len(out[q]) - 1
          /\ Len(wire[q]) \in Nat /\ Len(out[q]) \in Nat
      BY <1>2, <1>3, <1>4, <1>5
    <3>2. \A a, b, c, d : a \in Nat /\ b \in Nat /\ c = a + 1 /\ d = b - 1 /\ a + b >= 2 => c + d >= 2
      OBVIOUS
    <3> HIDE DEF sent, left
    <3> QED BY <2>1, <3>1, <3>2, Zenon
  <2> QED BY <1>0, <2>1, <2>2 DEF Write, Side, Submitted
<1>9. HeadFirst(q)'
  <2>1. /\ \A i \in 1 .. Len(sent) : IsHead(sent[i]) <=> i <= 2
        /\ \A i \in 1 .. Len(left) : IsHead(left[i]) <=> Len(sent) + i <= 2
    BY <1>0 DEF Side, HeadFirst
  <2> DEFINE more == Append(sent, Head(left))
             rest == Tail(left)
  <2>2. wire'[q] = more /\ out'[q] = rest
    BY <1>2
  <2>3. \A i \in 1 .. Len(more) : IsHead(more[i]) <=> i <= 2
    <3>1. \A i \in 1 .. Len(more) : i \in 1 .. Len(sent) \/ i = Len(sent) + 1
      BY <1>3, <1>5
    <3>2. IsHead(left[1]) <=> Len(sent) + 1 <= 2
      BY <1>4, <2>1
    <3> HIDE DEF more, sent, left
    <3> QED BY <1>5, <2>1, <3>1, <3>2 DEF more
  <2>4. \A i \in 1 .. Len(rest) : IsHead(rest[i]) <=> Len(more) + i <= 2
    <3>1. ASSUME NEW i \in 1 .. Len(rest) PROVE IsHead(rest[i]) <=> Len(more) + i <= 2
      <4>1. i \in 1 .. Len(left) - 1 /\ i + 1 \in 1 .. Len(left)
        BY <1>4
      <4>2. rest[i] = left[i + 1]
        BY <1>4, <4>1
      <4>3. IsHead(left[i + 1]) <=> Len(sent) + (i + 1) <= 2
        BY <2>1, <4>1
      <4>4. Len(more) + i = Len(sent) + (i + 1)
        <5>1. Len(more) = Len(sent) + 1 /\ Len(sent) \in Nat /\ i \in Int
          BY <1>3, <1>5, <4>1
        <5> HIDE DEF more, sent
        <5> QED BY <5>1
      <4> HIDE DEF more, rest, sent, left
      <4> QED BY <4>2, <4>3, <4>4
    <3> QED BY <3>1
  <2> HIDE DEF more, rest
  <2> QED BY <2>2, <2>3, <2>4 DEF HeadFirst
<1>10. Reads(q)'
  BY <1>0, <1>2 DEF Write, Side, Reads
<1>11. Apart(Peer(q)) /\ Onward(q)
  BY <1>0, <1>2, <1>3, <1>5 DEF Write, Apart, Onward
<1> QED BY <1>6, <1>7, <1>8, <1>9, <1>10, <1>11, StepKeeps DEF Write, Side

LEMMA SpeakStream == ASSUME StreamInv, NEW q \in Roles, Speak(q) PROVE StreamInv'
<1> DEFINE sent == wire[q]
           frames == {i \in DOMAIN wire[q] : wire[q][i][1] = "frame"}
           n == Cardinality(frames)
           unit == <<"frame", n + 1>>
<1>0. /\ Types /\ Side(q) /\ pc[q] \in {"done", "foreign"} /\ Peer(q) \in Roles
      /\ head[q] # NoHead /\ out[q] = <<>>
  BY PeerOf DEF StreamInv, Speak, Side, Submitted
<1>1. sent \in Seq(Unit) /\ Len(sent) \in Nat /\ DOMAIN sent = 1 .. Len(sent)
  BY <1>0, Lengths
<1>2. n \in Nat /\ n < MaxFrames
  <2>1. IsFiniteSet(1 .. Len(sent))
    <3> HIDE DEF sent
    <3> QED BY <1>1, FS_Interval
  <2>1a. frames \subseteq 1 .. Len(sent)
    BY <1>1
  <2>2. n \in Nat
    <3> HIDE DEF frames, sent
    <3> QED BY <2>1, <2>1a, FS_Subset, FS_CardinalityType
  <2> QED BY <2>2 DEF Speak
<1>3. unit \in Unit /\ ~IsHead(unit)
  BY <1>2, MaxFramesAssumption DEF Unit, IsHead
<1>4. /\ wire' = [wire EXCEPT ![q] = Append(sent, unit)]
      /\ wire = [r \in Roles |-> wire[r]]
  BY <1>0 DEF Speak, Types
<1>5. wire'[q] = Append(sent, unit) /\ wire'[Peer(q)] = wire[Peer(q)]
  <2> DEFINE more == Append(sent, unit)
  <2>1. wire' = [wire EXCEPT ![q] = more]
    BY <1>4
  <2> HIDE DEF more
  <2>2. wire'[q] = more /\ wire'[Peer(q)] = wire[Peer(q)]
    BY <1>4, <2>1, OneChanges
  <2> QED BY <2>2 DEF more
<1>6. /\ Append(sent, unit) \in Seq(Unit)
      /\ Len(Append(sent, unit)) = Len(sent) + 1 /\ Append(sent, unit)[Len(sent) + 1] = unit
      /\ \A i \in 1 .. Len(sent) : Append(sent, unit)[i] = sent[i]
  BY <1>1, <1>3, AppendOne
<1>7. Types'
  <2>1. wire' \in [Roles -> Seq(Unit)]
    BY <1>0, <1>4, <1>6 DEF Types
  <2> QED BY <1>0, <2>1 DEF Speak, Types
<1>8. Stands(q)'
  BY <1>0 DEF Speak, Side, Stands
<1>9. Len(sent) >= 2
  BY <1>0, <1>1 DEF Side, Submitted
<1>10. Submitted(q)'
  <2>1. head'[q] # NoHead /\ out'[q] = <<>> /\ pc'[q] = pc[q]
    BY <1>0 DEF Speak
  <2>2. Len(wire'[q]) + Len(out'[q]) >= 2
    BY <1>1, <1>5, <1>6, <1>9, <2>1
  <2> QED BY <1>0, <2>1, <2>2 DEF Submitted
<1>11. HeadFirst(q)'
  <2> DEFINE more == Append(sent, unit)
  <2>1. \A i \in 1 .. Len(sent) : IsHead(sent[i]) <=> i <= 2
    BY <1>0 DEF Side, HeadFirst
  <2>2. \A i \in 1 .. Len(more) : i \in 1 .. Len(sent) \/ (i = Len(sent) + 1 /\ ~(i <= 2))
    BY <1>1, <1>6, <1>9
  <2>3. \A i \in 1 .. Len(more) : IsHead(more[i]) <=> i <= 2
    <3> HIDE DEF sent, unit, n
    <3>1. ASSUME NEW i \in 1 .. Len(more) PROVE IsHead(more[i]) <=> i <= 2
      <4>1. CASE i \in 1 .. Len(sent)
        BY <1>6, <2>1, <4>1
      <4>2. CASE i = Len(sent) + 1 /\ ~(i <= 2)
        BY <1>3, <1>6, <4>2
      <4> QED BY <2>2, <3>1, <4>1, <4>2
    <3> QED BY <3>1
  <2>4. wire'[q] = more /\ out'[q] = <<>>
    BY <1>0, <1>5 DEF Speak
  <2> HIDE DEF more
  <2> QED BY <2>3, <2>4 DEF HeadFirst
<1>12. Reads(q)'
  BY <1>0, <1>5 DEF Speak, Side, Reads
<1>13. Apart(Peer(q)) /\ Onward(q)
  BY <1>0, <1>1, <1>5, <1>6 DEF Speak, Apart, Onward
<1> QED BY <1>7, <1>8, <1>10, <1>11, <1>12, <1>13, StepKeeps DEF Speak, Side

(* A side that hands its head to write_all.                                *)
LEMMA SubmitKeeps ==
  ASSUME StreamInv, NEW q \in Roles, NEW h, h # NoHead, NEW units \in Seq(Unit),
         Len(units) >= 2, \A i \in 1 .. Len(units) : IsHead(units[i]) <=> i <= 2,
         head[q] = NoHead, pc[q] # "gone", Submit(q, h, units),
         UNCHANGED <<foreign, ask, wire, arrived, start, channel>>,
         choice'.is \in {"none", "accept", "refuse"}, q = "Client" => choice' = choice,
         q = "Server" /\ q \notin foreign => arrived[q] = 2
  PROVE  StreamInv'
<1>0. Types /\ Side(q) /\ Peer(q) \in Roles
  BY PeerOf DEF StreamInv
<1>1. /\ pc' \in [Roles -> Places] /\ pc'[q] = "writing" /\ pc'[Peer(q)] = pc[Peer(q)]
      /\ res' = res
      /\ head' = [r \in Roles |-> head'[r]] /\ head'[q] = h /\ head'[Peer(q)] = head[Peer(q)]
      /\ out' \in [Roles -> Seq(Unit)] /\ out'[q] = units /\ out'[Peer(q)] = out[Peer(q)]
  BY <1>0, SubmitFacts
<1>2. Types'
  BY <1>0, <1>1 DEF Types
<1>3. wire[q] = <<>> /\ wire'[q] = <<>>
  BY <1>0 DEF Side, Submitted
<1>4. Stands(q)'
  BY <1>0, <1>1 DEF Side, Stands
<1>5. Submitted(q)'
  BY <1>1, <1>3 DEF Submitted
<1>6. HeadFirst(q)'
  BY <1>1, <1>3 DEF HeadFirst
<1>7. Reads(q)'
  BY <1>0, <1>1 DEF Side, Reads
<1>8. Apart(Peer(q)) /\ Onward(q)
  BY <1>0, <1>1, Lengths DEF Apart, Onward
<1> QED BY <1>2, <1>4, <1>5, <1>6, <1>7, <1>8, StepKeeps DEF Side

LEMMA ForeignHeadStream == ASSUME StreamInv, NEW q \in Roles, ForeignHead(q) PROVE StreamInv'
<1>1. PICK h \in ForeignHeads[q] : Submit(q, h, HeadUnits)
  BY DEF ForeignHead
<1>2. q \in foreign /\ head[q] = NoHead /\ pc[q] # "gone" /\ h # NoHead
  BY <1>1, ForeignHeadsAssumption DEF ForeignHead, StreamInv, Side, Stands
<1>3. choice.is \in {"none", "accept", "refuse"}
  BY DEF StreamInv, Types
<1>4. \A i \in 1 .. Len(HeadUnits) : IsHead(HeadUnits[i]) <=> i <= 2
  BY HeadUnitsFacts
<1>5. HeadUnits \in Seq(Unit) /\ Len(HeadUnits) >= 2
  BY HeadUnitsFacts
<1>6. UNCHANGED <<foreign, ask, wire, arrived, start, channel, choice>>
  BY DEF ForeignHead
<1> QED BY <1>1, <1>2, <1>3, <1>4, <1>5, <1>6, SubmitKeeps

LEMMA RequestIsHead == RequestHead(ask) # NoHead /\ RequestHead(ask).broken # "Ok"
<1>1. DOMAIN RequestHead(ask) = {"broken", "method", "version", "status", "headers"}
  BY DEF RequestHead
<1>2. DOMAIN NoHead = {"status"}
  BY DEF NoHead
<1>3. RequestHead(ask).broken = IF ask.version = "2.0" THEN "HttparseError" ELSE "no"
  BY DEF RequestHead
<1> QED BY <1>1, <1>2, <1>3

LEMMA ResponseFacts ==
  ASSUME NEW h, NEW c
  PROVE  /\ ResponseHead(h, c) # NoHead /\ ResponseHead(h, c).broken = "no"
         /\ ResponseHead(h, c).version = "1.1" /\ ResponseHead(h, c).status = c.status
         /\ ResponseHead(h, c).headers
              = IF c.headers THEN Accepting(h, c.protocol) ELSE [n \in Names |-> <<>>]
<1>1. DOMAIN ResponseHead(h, c) = {"broken", "method", "version", "status", "headers"}
  BY DEF ResponseHead
<1>2. DOMAIN NoHead = {"status"}
  BY DEF NoHead
<1> QED BY <1>1, <1>2 DEF ResponseHead

LEMMA SendRequestStream == ASSUME StreamInv, SendRequest PROVE StreamInv'
<1>0. /\ Types /\ "Client" \in Roles /\ Stands("Client") /\ Submitted("Client")
      /\ pc["Client"] = "connected" /\ head["Client"] = NoHead
  BY DEF StreamInv, Side, SendRequest, Roles, Submitted
<1>1. CASE Submit("Client", RequestHead(ask), HeadUnits)
  <2>1. choice.is \in {"none", "accept", "refuse"}
    BY <1>0 DEF Types
  <2>2. \A i \in 1 .. Len(HeadUnits) : IsHead(HeadUnits[i]) <=> i <= 2
    BY HeadUnitsFacts
  <2> QED BY <1>0, <1>1, <2>1, <2>2, RequestIsHead, HeadUnitsFacts, SubmitKeeps DEF SendRequest
<1>2. ASSUME NEW f, f # "Ok", Return("Client", f), UNCHANGED <<out, head>> PROVE StreamInv'
  <2>1. /\ pc' \in [Roles -> Places] /\ pc'["Client"] = "failed"
        /\ pc'[Peer("Client")] = pc[Peer("Client")]
        /\ res' = [r \in Roles |-> res'[r]] /\ res'[Peer("Client")] = res[Peer("Client")]
    BY <1>0, <1>2, ReturnFacts
  <2>2. Stands("Client")' /\ Submitted("Client")'
    BY <1>0, <1>2, <2>1 DEF SendRequest, Stands, Submitted
  <2> QED BY <1>0, <1>2, <2>1, <2>2, MovedKeeps DEF SendRequest, StreamInv, Types
<1> QED BY <1>1, <1>2 DEF SendRequest

(* A side that is through: its codec takes over where the head ends.       *)
LEMMA DoneKeeps ==
  ASSUME StreamInv, NEW q \in Roles, Return(q, "Ok"), CodecStarts(q, 2), arrived[q] >= 2,
         pc[q] \in {"reading", "writing"}, q \notin foreign, head[q] # NoHead, out[q] = <<>>,
         UNCHANGED <<foreign, ask, out, wire, head, arrived, channel, choice>>
  PROVE  StreamInv'
<1>0. Types /\ Side(q) /\ Peer(q) \in Roles
  BY PeerOf DEF StreamInv
<1>1. /\ pc' \in [Roles -> Places] /\ pc'[Peer(q)] = pc[Peer(q)] /\ pc'[q] = "done"
      /\ res' = [r \in Roles |-> res'[r]] /\ res'[q] = "Ok" /\ res'[Peer(q)] = res[Peer(q)]
  BY <1>0, ReturnFacts
<1>2. start = [r \in Roles |-> start[r]] /\ start' = [start EXCEPT ![q] = 2]
  BY <1>0 DEF Types, CodecStarts
<1>3. start'[q] = 2 /\ start'[Peer(q)] = start[Peer(q)]
  BY <1>2, PeerOf
<1>4. start' \in [Roles -> Nat]
  BY <1>0, <1>2 DEF Types
<1>5. Types'
  BY <1>0, <1>1, <1>4 DEF Types
<1>6. Stands(q)'
  BY <1>0, <1>1 DEF Side, Stands
<1>7. Submitted(q)'
  BY <1>0, <1>1 DEF Side, Submitted
<1>8. HeadFirst(q)'
  BY <1>0 DEF Side, HeadFirst
<1>9. Reads(q)'
  BY <1>0, <1>1, <1>3, Lengths DEF Side, Reads
<1>10. Apart(Peer(q)) /\ Onward(q)
  BY <1>0, <1>1, <1>3, Lengths DEF Apart, Onward
<1> QED BY <1>5, <1>6, <1>7, <1>8, <1>9, <1>10, StepKeeps DEF Side

LEMMA FlushStream == ASSUME StreamInv, NEW q \in Roles, Flush(q) PROVE StreamInv'
<1>0. /\ Types /\ Side(q) /\ Peer(q) \in Roles /\ pc[q] = "writing" /\ out[q] = <<>>
      /\ head[q] # NoHead
  BY PeerOf DEF StreamInv, Flush, Side, Submitted
<1>1. ASSUME NEW at \in {"foreign", "reading"}, GoTo(q, at), UNCHANGED start,
             at = "foreign" <=> q \in foreign, at = "reading" => q = "Client"
      PROVE  StreamInv'
  <2>1. /\ pc' \in [Roles -> Places] /\ pc'[q] = at /\ pc'[Peer(q)] = pc[Peer(q)] /\ res' = res
    BY <1>0, <1>1, GoToFacts DEF Places
  <2>2. Stands(q)' /\ Submitted(q)'
    BY <1>0, <1>1, <2>1 DEF Flush, Side, Stands, Submitted
  <2> QED BY <1>0, <1>1, <2>1, <2>2, MovedKeeps DEF Flush, StreamInv, Types
<1>2. CASE q = "Server" /\ q \notin foreign /\ choice.is = "accept"
           /\ Return(q, "Ok") /\ CodecStarts(q, Clear(q))
  <2>1. arrived[q] = 2
    BY <1>0, <1>2 DEF Side, Reads
  <2> QED BY <1>0, <1>2, <2>1, DoneKeeps DEF Flush, Clear
<1>3. CASE q \notin foreign /\ Return(q, "Http") /\ UNCHANGED start
  <2>1. /\ pc' \in [Roles -> Places] /\ pc'[q] = "failed" /\ pc'[Peer(q)] = pc[Peer(q)]
        /\ res' = [r \in Roles |-> res'[r]] /\ res'[Peer(q)] = res[Peer(q)]
    BY <1>0, <1>3, ReturnFacts
  <2>2. Stands(q)' /\ Submitted(q)'
    BY <1>0, <1>3, <2>1 DEF Flush, Side, Stands, Submitted
  <2> QED BY <1>0, <1>3, <2>1, <2>2, MovedKeeps DEF Flush, StreamInv, Types
<1>4. CASE q \in foreign
  BY <1>1, <1>4 DEF Flush
<1>5. CASE q \notin foreign /\ q = "Client"
  BY <1>1, <1>5 DEF Flush
<1>6. CASE q \notin foreign /\ q = "Server"
  BY <1>2, <1>3, <1>6 DEF Flush
<1> QED BY <1>4, <1>5, <1>6 DEF Roles

LEMMA ReadResponseStream == ASSUME StreamInv, ReadResponse PROVE StreamInv'
<1>0. /\ Types /\ "Client" \in Roles /\ Side("Client") /\ pc["Client"] = "reading"
      /\ head["Client"] # NoHead /\ "Client" \notin foreign /\ out["Client"] = <<>>
      /\ arrived["Client"] >= 2
  BY HeadUnitsFacts DEF StreamInv, Side, Stands, Submitted, ReadResponse, Roles, Whole
<1>1. PICK e : /\ Return("Client", e)
               /\ IF e = "Ok" THEN CodecStarts("Client", 2) ELSE UNCHANGED start
  BY HeadUnitsFacts DEF ReadResponse, Advance
<1>2. CASE e = "Ok"
  BY <1>0, <1>1, <1>2, DoneKeeps DEF ReadResponse
<1>3. CASE e # "Ok"
  <2>1. /\ pc' \in [Roles -> Places] /\ pc'["Client"] = "failed"
        /\ pc'[Peer("Client")] = pc[Peer("Client")]
        /\ res' = [r \in Roles |-> res'[r]] /\ res'[Peer("Client")] = res[Peer("Client")]
    BY <1>0, <1>1, <1>3, ReturnFacts
  <2>2. Stands("Client")' /\ Submitted("Client")'
    BY <1>0, <2>1 DEF ReadResponse, Side, Stands, Submitted
  <2> QED BY <1>0, <1>1, <1>3, <2>1, <2>2, MovedKeeps DEF ReadResponse, StreamInv, Types
<1> QED BY <1>2, <1>3

-----------------------------------------------------------------------------
(* Who made the heads, and what they were made of.                         *)

Origins ==
  /\ \A r \in Roles : r \in foreign /\ head[r] # NoHead => head[r] \in ForeignHeads[r]
  /\ Ours("Client") /\ head["Client"] # NoHead => head["Client"] = RequestHead(ask)
  /\ Ours("Server") /\ head["Server"] # NoHead =>
       \E h : head["Server"] = ResponseHead(h, choice) /\ choice \in Answers(h)

(* A request goes out only on the channel that connect() settled on.       *)
Connected ==
  Ours("Client") /\ (pc["Client"] = "connected" \/ head["Client"] # NoHead) =>
    channel = Channel(ask) /\ ConnectError(ask) = "Ok"

(* A client that is through has seen a response it had nothing against.    *)
Agreed == ClientOkMeansAccepted /\ SubprotocolAgreed
Judged ==
  /\ res["Client"] = "Ok" => head["Server"] # NoHead /\ pc["Client"] \in {"done", "gone"}
  /\ Agreed

(* Until then it has sent its head and nothing else.                       *)
Silent ==
  Ours("Client") /\ res["Client"] # "Ok" => Len(wire["Client"]) + Len(out["Client"]) <= 2

HeadsInv == Origins /\ Connected /\ Judged /\ Silent /\ BuiltIsAccepted

LEMMA InitHeads == Init => HeadsInv
<1> SUFFICES ASSUME Init PROVE HeadsInv
  OBVIOUS
<1>1. /\ head["Client"] = NoHead /\ head["Server"] = NoHead
      /\ pc["Client"] \in {"foreign", "connecting"}
      /\ res["Client"] = "none" /\ res["Server"] = "none"
      /\ wire["Client"] = <<>> /\ out["Client"] = <<>>
  BY DEF Init, Roles
<1>2. Origins
  BY <1>1 DEF Origins, Roles
<1>3. Connected
  BY <1>1 DEF Connected
<1>4. Judged
  BY <1>1 DEF Judged, Agreed, ClientOkMeansAccepted, SubprotocolAgreed
<1>5. Silent
  BY <1>1 DEF Silent
<1>6. BuiltIsAccepted
  BY <1>1 DEF BuiltIsAccepted
<1> QED BY <1>2, <1>3, <1>4, <1>5, <1>6 DEF HeadsInv

LEMMA HeadBroken ==
  ASSUME Origins, NEW r \in Roles, head[r] # NoHead
  PROVE  head[r].broken # "Ok"
<1>1. CASE r \in foreign
  BY <1>1, ForeignHeadsAssumption DEF Origins
<1>2. CASE r \notin foreign /\ r = "Client"
  BY <1>2, RequestIsHead DEF Origins, Ours
<1>3. CASE r \notin foreign /\ r = "Server"
  BY <1>3, ResponseFacts DEF Origins, Ours
<1> QED BY <1>1, <1>2, <1>3 DEF Roles

LEMMA WrittenHasHead ==
  ASSUME StreamInv, NEW r \in Roles, arrived[Peer(r)] >= 2
  PROVE  head[r] # NoHead
<1>1. Side(r) /\ Side(Peer(r)) /\ Peer(Peer(r)) = r /\ Peer(r) \in Roles
  BY PeerOf DEF StreamInv
<1>2. arrived[Peer(r)] <= Len(wire[r])
  BY <1>1 DEF Side, Reads
<1>3. wire[r] # <<>>
  BY <1>1, <1>2, Lengths DEF StreamInv
<1> QED BY <1>1, <1>3 DEF Side, Submitted

-----------------------------------------------------------------------------
(* The server reads the request.                                           *)

Checks(req) == DecodeChecks(req) \o << <<Junk, "JunkAfterRequest">> >> \o PartsChecks(req.headers)

LEMMA ChecksAre ==
  ASSUME NEW req
  PROVE  /\ DOMAIN Checks(req) = 1 .. 8
         /\ Checks(req)[1] = <<req.broken # "no", req.broken>>
         /\ Checks(req)[2] = <<req.method # "GET", "WrongHttpMethod">>
         /\ Checks(req)[3] = <<req.version = "1.0", "WrongHttpVersion">>
         /\ Checks(req)[4] = <<Junk, "JunkAfterRequest">>
         /\ Checks(req)[5] = <<"Upgrade" \notin First(req.headers, "Connection"),
                               "MissingConnectionUpgradeHeader">>
         /\ Checks(req)[6] = <<First(req.headers, "Upgrade") # {"websocket"},
                               "MissingUpgradeWebSocketHeader">>
         /\ Checks(req)[7] = <<First(req.headers, "Version") # {"13"},
                               "MissingSecWebSocketVersionHeader">>
         /\ Checks(req)[8] = <<req.headers["Key"] = <<>>, "MissingSecWebSocketKey">>
BY DEF Checks, DecodeChecks, PartsChecks

(* It goes on only with a request that is all there is in its buffer.      *)
LEMMA NoJunk ==
  ASSUME NEW req, req.broken # "Ok", FirstOf(Checks(req)) = "Ok"
  PROVE  arrived["Server"] = 2
<1> DEFINE checks == Checks(req)
<1>1. /\ checks[1][1] => checks[1][2] # "Ok"
      /\ checks[2][2] # "Ok" /\ checks[3][2] # "Ok" /\ checks[4][2] # "Ok"
      /\ checks[5][2] # "Ok" /\ checks[6][2] # "Ok" /\ checks[7][2] # "Ok"
      /\ checks[8][2] # "Ok"
  BY ChecksAre
<1>2. DOMAIN checks = 1 .. 8 /\ checks[4][1] = Junk /\ FirstOf(checks) = "Ok"
  BY ChecksAre
<1> HIDE DEF checks
<1>3. \A i \in 1 .. 8 : checks[i][1] => checks[i][2] # "Ok"
  BY <1>1
<1>4. ~checks[4][1]
  <2>1. 8 \in Nat /\ 4 \in 1 .. 8
    OBVIOUS
  <2>2. \A i \in 1 .. 8 : ~checks[i][1]
    BY <1>2, <1>3, <2>1, NoErrorNoFailure, Zenon
  <2> QED BY <2>1, <2>2
<1> QED BY <1>2, <1>4, HeadUnitsFacts DEF Junk

LEMMA AnswersAre ==
  ASSUME NEW h, NEW c \in Answers(h)
  PROVE  /\ c.is \in {"accept", "refuse"}
         /\ c.is = "refuse" => \E f \in Refusals : c.status = f.status /\ c.headers = f.headers
BY DEF Answers

LEMMA ReadRequestStream == ASSUME StreamInv, HeadsInv, ReadRequest PROVE StreamInv'
<1> DEFINE req == head["Client"]
           e == FirstOf(Checks(req))
<1>0. /\ Types /\ "Server" \in Roles /\ Side("Server") /\ pc["Server"] = "reading"
      /\ "Server" \notin foreign /\ head["Server"] = NoHead
      /\ arrived["Server"] >= 2 /\ Peer("Server") = "Client" /\ Peer("Client") = "Server"
  BY HeadUnitsFacts DEF StreamInv, Side, Stands, Submitted, ReadRequest, Roles, Whole, Peer
<1>1. req.broken # "Ok"
  BY <1>0, WrittenHasHead, HeadBroken DEF HeadsInv, Roles
<1>2. ASSUME NEW f, f # "Ok", Return("Server", f), UNCHANGED <<out, head>>,
             choice'.is \in {"none", "accept", "refuse"}
      PROVE  StreamInv'
  <2>1. /\ pc' \in [Roles -> Places] /\ pc'["Server"] = "failed"
        /\ pc'[Peer("Server")] = pc[Peer("Server")]
        /\ res' = [r \in Roles |-> res'[r]] /\ res'[Peer("Server")] = res[Peer("Server")]
    BY <1>0, <1>2, ReturnFacts
  <2>2. Stands("Server")' /\ Submitted("Server")'
    BY <1>0, <1>2, <2>1 DEF ReadRequest, Side, Stands, Submitted
  <2> QED BY <1>0, <1>2, <2>1, <2>2, MovedKeeps DEF ReadRequest, StreamInv, Types
<1>3. ASSUME e = "Ok", NEW c \in Answers(req.headers), choice' = c,
             Submit("Server", ResponseHead(req.headers, c),
                    HeadUnits \o IF c.body THEN BodyUnits ELSE <<>>)
      PROVE  StreamInv'
  <2> DEFINE units == HeadUnits \o IF c.body THEN BodyUnits ELSE <<>>
             h == ResponseHead(req.headers, c)
  <2>1. /\ units \in Seq(Unit) /\ Len(units) >= 2
        /\ \A i \in 1 .. Len(units) : IsHead(units[i]) <=> i <= 2
    BY AnswerUnits
  <2>2. h # NoHead /\ choice'.is \in {"none", "accept", "refuse"}
    BY <1>3, ResponseFacts, AnswersAre
  <2>3. arrived["Server"] = 2
    BY <1>1, <1>3, NoJunk
  <2>4. Submit("Server", h, units)
    BY <1>3
  <2>5. UNCHANGED <<foreign, ask, wire, arrived, start, channel>>
    BY DEF ReadRequest
  <2> HIDE DEF units, h
  <2> QED BY <1>0, <2>1, <2>2, <2>3, <2>4, <2>5, SubmitKeeps
<1>4. \/ /\ e # "Ok" /\ Return("Server", e) /\ UNCHANGED <<out, head, choice>>
      \/ /\ e = "Ok"
         /\ \E c \in Answers(req.headers) :
              /\ choice' = c
              /\ IF Successful(c)
                 THEN Return("Server", "CustomResponseSuccessful") /\ UNCHANGED <<out, head>>
                 ELSE Submit("Server", ResponseHead(req.headers, c),
                             HeadUnits \o IF c.body THEN BodyUnits ELSE <<>>)
  BY DEF ReadRequest, Checks
<1>5. choice.is \in {"none", "accept", "refuse"}
  BY <1>0 DEF Types
<1> HIDE DEF req, e
<1>6. CASE e # "Ok" /\ Return("Server", e) /\ UNCHANGED <<out, head, choice>>
  BY <1>2, <1>5, <1>6
<1>7. CASE /\ e = "Ok"
           /\ \E c \in Answers(req.headers) :
                /\ choice' = c
                /\ IF Successful(c)
                   THEN Return("Server", "CustomResponseSuccessful") /\ UNCHANGED <<out, head>>
                   ELSE Submit("Server", ResponseHead(req.headers, c),
                               HeadUnits \o IF c.body THEN BodyUnits ELSE <<>>)
  BY <1>2, <1>3, <1>7, AnswersAre
<1> QED BY <1>4, <1>6, <1>7

LEMMA NextStream == ASSUME StreamInv, HeadsInv, [Next]_vars PROVE StreamInv'
<1>1. ASSUME NEW q \in Roles, Handles(q) PROVE StreamInv'
  BY <1>1, ConnectStream, SendRequestStream, ReadResponseStream, ReadRequestStream,
     WriteStream, FlushStream, WriteFailsStream, ArriveStream, NextEndsStream,
     ForeignHeadStream DEF Handles
<1>2. CASE UNCHANGED vars
  <2>1. UNCHANGED <<foreign, ask, pc, out, wire, head, arrived, start, channel, choice, res>>
    BY <1>2 DEF vars
  <2>2. Types'
    BY <2>1 DEF StreamInv, Types
  <2>3. ASSUME NEW r \in Roles PROVE Side(r)'
    <3>1. Side(r)
      BY DEF StreamInv
    <3> QED BY <2>1, <3>1 DEF Side, Stands, Submitted, HeadFirst, Reads
  <2> QED BY <2>2, <2>3 DEF StreamInv
<1>3. \/ \E q \in Roles : Handles(q)
      \/ \E q \in Roles : Speak(q)
      \/ \E q \in Roles : Drop(q)
      \/ UNCHANGED vars
  BY DEF Next, Quiet
<1>4. CASE \E q \in Roles : Speak(q)
  BY <1>4, SpeakStream
<1>5. CASE \E q \in Roles : Drop(q)
  BY <1>5, DropStream
<1> QED BY <1>1, <1>2, <1>3, <1>4, <1>5

-----------------------------------------------------------------------------
(* What passes the client's checks.                                        *)

Verdicts(resp) ==
  << <<resp.broken # "no", resp.broken>>, <<resp.version = "1.0", "WrongHttpVersion">> >>
  \o VerifyChecks(ask, resp)

LEMMA ResponsePasses ==
  ASSUME NEW resp, resp.broken # "Ok", FirstOf(Verdicts(resp)) = "Ok"
  PROVE  LET asked == Subprotocols(ask)
             got == First(resp.headers, "Protocol")
         IN  /\ resp.status = 101 /\ First(resp.headers, "Upgrade") = {"websocket"}
             /\ ~Unanswered(asked, got) /\ ~(got # {} /\ asked = {})
             /\ ~(got # {} /\ ~\E t \in asked : got = {t})
<1> DEFINE asked == Subprotocols(ask)
           got == First(resp.headers, "Protocol")
           checks == Verdicts(resp)
<1>1. /\ DOMAIN checks = 1 .. 10
      /\ checks[1] = <<resp.broken # "no", resp.broken>>
      /\ checks[2] = <<resp.version = "1.0", "WrongHttpVersion">>
      /\ checks[3] = <<WrongStatus(resp), "Http">>
      /\ checks[4] = <<First(resp.headers, "Upgrade") # {"websocket"}, "MissingUpgradeWebSocketHeader">>
      /\ checks[5][2] = "MissingConnectionUpgradeHeader"
      /\ checks[6][2] = "SecWebSocketAcceptKeyMismatch"
      /\ checks[7] = <<Unanswered(asked, got), "NoSubProtocol">>
      /\ checks[8] = <<got # {} /\ asked = {}, "ServerSentSubProtocolNoneRequested">>
      /\ checks[9][2] = "Utf8"
      /\ checks[10] = <<got # {} /\ ~\E t \in asked : got = {t}, "InvalidSubProtocol">>
  BY DEF Verdicts, VerifyChecks
<1>2. FirstOf(checks) = "Ok"
  OBVIOUS
<1> HIDE DEF checks, asked, got
<1>3. /\ checks[1][1] => checks[1][2] # "Ok"
      /\ checks[2][2] # "Ok" /\ checks[3][2] # "Ok" /\ checks[4][2] # "Ok"
      /\ checks[5][2] # "Ok" /\ checks[6][2] # "Ok" /\ checks[7][2] # "Ok"
      /\ checks[8][2] # "Ok" /\ checks[9][2] # "Ok" /\ checks[10][2] # "Ok"
  BY <1>1
<1>4. \A i \in 1 .. 10 : checks[i][1] => checks[i][2] # "Ok"
  BY <1>3
<1>5. \A i \in 1 .. 10 : ~checks[i][1]
  <2>1. 10 \in Nat
    OBVIOUS
  <2>2. DOMAIN checks = 1 .. 10
    BY <1>1
  <2> QED BY <1>2, <1>4, <2>1, <2>2, NoErrorNoFailure, Zenon
<1>6. ~checks[3][1] /\ ~checks[4][1] /\ ~checks[7][1] /\ ~checks[8][1] /\ ~checks[10][1]
  BY <1>5
<1>7. ~WrongStatus(resp)
  <2> DEFINE bad == WrongStatus(resp)
  <2>1. checks[3] = <<bad, "Http">>
    BY <1>1
  <2>2. ~bad
    <3> HIDE DEF bad
    <3> QED BY <1>6, <2>1
  <2> QED BY <2>2
<1>8. First(resp.headers, "Upgrade") = {"websocket"}
  <2> DEFINE bad == First(resp.headers, "Upgrade") # {"websocket"}
  <2>1. checks[4] = <<bad, "MissingUpgradeWebSocketHeader">>
    BY <1>1
  <2>2. ~bad
    <3> HIDE DEF bad
    <3> QED BY <1>6, <2>1
  <2> QED BY <2>2
<1>9. ~Unanswered(asked, got)
  <2> DEFINE bad == Unanswered(asked, got)
  <2>1. checks[7] = <<bad, "NoSubProtocol">>
    BY <1>1
  <2>2. ~bad
    <3> HIDE DEF bad
    <3> QED BY <1>6, <2>1
  <2> QED BY <2>2
<1>10. ~(got # {} /\ asked = {})
  <2> DEFINE bad == got # {} /\ asked = {}
  <2>1. checks[8] = <<bad, "ServerSentSubProtocolNoneRequested">>
    BY <1>1
  <2>2. ~bad
    <3> HIDE DEF bad
    <3> QED BY <1>6, <2>1
  <2> QED BY <2>2
<1>11. ~(got # {} /\ ~\E t \in asked : got = {t})
  <2> DEFINE bad == got # {} /\ ~\E t \in asked : got = {t}
  <2>1. checks[10] = <<bad, "InvalidSubProtocol">>
    BY <1>1
  <2>2. ~bad
    <3> HIDE DEF bad
    <3> QED BY <1>6, <2>1
  <2> QED BY <2>2
<1> QED BY <1>7, <1>8, <1>9, <1>10, <1>11 DEF WrongStatus, asked, got

(* A response of server_handshake that passes them is an acceptance, with  *)
(* the subprotocol its callback chose.                                     *)
LEMMA AcceptedIsAgreed ==
  ASSUME Origins, Ours("Server"), head["Server"] # NoHead,
         FirstOf(Verdicts(head["Server"])) = "Ok"
  PROVE  /\ choice.is = "accept"
         /\ IF Subprotocols(ask) = {} THEN choice.protocol = {}
            ELSE \E t \in Subprotocols(ask) : choice.protocol = {t}
<1> DEFINE resp == head["Server"]
           asked == Subprotocols(ask)
           got == First(resp.headers, "Protocol")
<1>1. PICK h : resp = ResponseHead(h, choice) /\ choice \in Answers(h)
  BY DEF Origins
<1>2. /\ resp.broken = "no" /\ resp.status = choice.status
      /\ resp.headers = IF choice.headers THEN Accepting(h, choice.protocol)
                        ELSE [n \in Names |-> <<>>]
  BY <1>1, ResponseFacts
<1>3. /\ resp.status = 101 /\ First(resp.headers, "Upgrade") = {"websocket"}
      /\ ~Unanswered(asked, got) /\ ~(got # {} /\ asked = {})
      /\ ~(got # {} /\ ~\E t \in asked : got = {t})
  <2>1. resp.broken # "Ok" /\ FirstOf(Verdicts(resp)) = "Ok"
    BY <1>2
  <2> QED BY <2>1, ResponsePasses
<1>4. choice.headers
  BY <1>2, <1>3 DEF First, Names
<1>5. choice.is = "accept"
  <2>1. choice.is \in {"accept", "refuse"}
    BY <1>1, AnswersAre
  <2>2. choice.is = "refuse" => \E f \in Refusals : choice.status = f.status /\ choice.headers = f.headers
    BY <1>1, AnswersAre
  <2>3. choice.status = 101
    BY <1>2, <1>3
  <2> QED BY <1>4, <2>1, <2>2, <2>3, RefusalsAssumption
<1>6. got = choice.protocol
  <2>1. resp.headers = Accepting(h, choice.protocol)
    BY <1>2, <1>4
  <2>2. resp.headers["Protocol"] = IF choice.protocol # {} THEN <<choice.protocol>> ELSE <<>>
    BY <2>1 DEF Accepting, Names
  <2>3. CASE choice.protocol = {}
    BY <2>2, <2>3 DEF First
  <2>4. CASE choice.protocol # {}
    BY <2>2, <2>4 DEF First
  <2> QED BY <2>3, <2>4
<1> HIDE DEF asked, got
<1> QED BY <1>3, <1>5, <1>6 DEF Unanswered, asked

-----------------------------------------------------------------------------
(* What passes the server's: a request of the builder.                     *)

LEMMA FirstStays ==
  ASSUME NEW S, NEW x \in S, NEW a \in Seq(S), NEW b \in Seq(S)
  PROVE  (<<x>> \o a \o b)[1] = x
OBVIOUS

LEMMA BuilderSends ==
  ASSUME NEW a \in Asks, ~a.raw
  PROVE  LET h == SentHeaders(Headers(a))
         IN  /\ h["Connection"] = <<{"Upgrade"}>> /\ h["Upgrade"] = <<{"websocket"}>>
             /\ h["Version"] = <<{"13"}>> /\ h["Key"] = <<{"k1"}>>
<1> DEFINE S == (SUBSET STRING) \cup {a.subprotocols, {"Upgrade"}, {"websocket"}, {"13"}, {"k1"}}
           wanted(n) == IF n = "Protocol" /\ a.subprotocols # {} THEN <<a.subprotocols>> ELSE <<>>
           built == BuilderHeaders(a)
<1>1. a.headers \in [Names -> Seq(SUBSET STRING)]
  BY AsksAssumption
<1>2. \A n \in Names : a.headers[n] \in Seq(S) /\ wanted(n) \in Seq(S)
  <2>1. ASSUME NEW n \in Names PROVE a.headers[n] \in Seq(S)
    <3>1. a.headers[n] \in Seq(SUBSET STRING) /\ (SUBSET STRING) \subseteq S
      BY <1>1
    <3> HIDE DEF S
    <3> QED BY <3>1
  <2>2. ASSUME NEW n \in Names PROVE wanted(n) \in Seq(S)
    <3>1. a.subprotocols \in S
      OBVIOUS
    <3> HIDE DEF S
    <3> QED BY <3>1
  <2> QED BY <2>1, <2>2
<1>3. Headers(a) = built
  BY DEF Headers
<1>4. {"Connection", "Upgrade", "Version", "Key"} \subseteq Names \cap RequiredNames
  <2>1. RequiredNames = {"Host", "Connection", "Upgrade", "Version", "Key"}
    <3>1. DOMAIN Required = 1 .. 5
      BY DEF Required
    <3>2. RequiredNames = {Required[1], Required[2], Required[3], Required[4], Required[5]}
      BY <3>1 DEF RequiredNames
    <3> QED BY <3>2 DEF Required
  <2> QED BY <2>1 DEF Names
<1>5. /\ built["Connection"] = <<{"Upgrade"}>> \o a.headers["Connection"] \o wanted("Connection")
      /\ built["Upgrade"] = <<{"websocket"}>> \o a.headers["Upgrade"] \o wanted("Upgrade")
      /\ built["Version"] = <<{"13"}>> \o a.headers["Version"] \o wanted("Version")
      /\ built["Key"] = <<{"k1"}>> \o a.headers["Key"] \o wanted("Key")
  BY <1>4 DEF BuilderHeaders
<1>6. {"Upgrade"} \in S /\ {"websocket"} \in S /\ {"13"} \in S /\ {"k1"} \in S
  OBVIOUS
<1> HIDE DEF S, wanted, built
<1>7. built["Connection"][1] = {"Upgrade"}
  BY <1>2, <1>4, <1>5, <1>6, FirstStays
<1>8. built["Upgrade"][1] = {"websocket"}
  BY <1>2, <1>4, <1>5, <1>6, FirstStays
<1>9. built["Version"][1] = {"13"}
  BY <1>2, <1>4, <1>5, <1>6, FirstStays
<1>10. built["Key"][1] = {"k1"}
  BY <1>2, <1>4, <1>5, <1>6, FirstStays
<1> QED BY <1>3, <1>4, <1>7, <1>8, <1>9, <1>10 DEF SentHeaders

LEMMA BuiltPasses ==
  ASSUME NEW a \in Asks, ~a.raw, arrived["Server"] = 2
  PROVE  FirstOf(Checks(RequestHead(a))) = "Ok"
<1> DEFINE req == RequestHead(a)
           checks == Checks(req)
<1>1. /\ req.broken = "no" /\ req.method = "GET" /\ req.version = "1.1"
      /\ req.headers = SentHeaders(Headers(a))
  BY AsksAssumption DEF RequestHead
<1>2. /\ First(req.headers, "Connection") = {"Upgrade"} /\ First(req.headers, "Upgrade") = {"websocket"}
      /\ First(req.headers, "Version") = {"13"} /\ req.headers["Key"] # <<>>
  <2> DEFINE h == SentHeaders(Headers(a))
  <2>1. /\ h["Connection"] = <<{"Upgrade"}>> /\ h["Upgrade"] = <<{"websocket"}>>
        /\ h["Version"] = <<{"13"}>> /\ h["Key"] = <<{"k1"}>>
    BY BuilderSends
  <2>2. req.headers = h
    BY <1>1
  <2> HIDE DEF h, req
  <2> QED BY <2>1, <2>2 DEF First
<1>3. ~Junk
  BY HeadUnitsFacts DEF Junk
<1> HIDE DEF req
<1>4. /\ DOMAIN checks = 1 .. 8 /\ ~checks[1][1] /\ ~checks[2][1] /\ ~checks[3][1] /\ ~checks[4][1]
      /\ ~checks[5][1] /\ ~checks[6][1] /\ ~checks[7][1] /\ ~checks[8][1]
  <2>1. DOMAIN checks = 1 .. 8
    BY ChecksAre
  <2>2. ~checks[1][1]
    <3> DEFINE bad == req.broken # "no"
    <3>1. checks[1] = <<bad, req.broken>>
      BY ChecksAre
    <3>2. ~bad
      BY <1>1
    <3> HIDE DEF bad
    <3> QED BY <3>1, <3>2
  <2>3. ~checks[2][1]
    <3> DEFINE bad == req.method # "GET"
    <3>1. checks[2] = <<bad, "WrongHttpMethod">>
      BY ChecksAre
    <3>2. ~bad
      BY <1>1
    <3> HIDE DEF bad
    <3> QED BY <3>1, <3>2
  <2>4. ~checks[3][1]
    <3> DEFINE bad == req.version = "1.0"
    <3>1. checks[3] = <<bad, "WrongHttpVersion">>
      BY ChecksAre
    <3>2. ~bad
      BY <1>1
    <3> HIDE DEF bad
    <3> QED BY <3>1, <3>2
  <2>5. ~checks[4][1]
    <3> DEFINE bad == Junk
    <3>1. checks[4] = <<bad, "JunkAfterRequest">>
      BY ChecksAre
    <3>2. ~bad
      BY <1>3
    <3> HIDE DEF bad
    <3> QED BY <3>1, <3>2
  <2>6. ~checks[5][1]
    <3> DEFINE bad == "Upgrade" \notin First(req.headers, "Connection")
    <3>1. checks[5] = <<bad, "MissingConnectionUpgradeHeader">>
      BY ChecksAre
    <3>2. ~bad
      BY <1>2
    <3> HIDE DEF bad
    <3> QED BY <3>1, <3>2
  <2>7. ~checks[6][1]
    <3> DEFINE bad == First(req.headers, "Upgrade") # {"websocket"}
    <3>1. checks[6] = <<bad, "MissingUpgradeWebSocketHeader">>
      BY ChecksAre
    <3>2. ~bad
      BY <1>2
    <3> HIDE DEF bad
    <3> QED BY <3>1, <3>2
  <2>8. ~checks[7][1]
    <3> DEFINE bad == First(req.headers, "Version") # {"13"}
    <3>1. checks[7] = <<bad, "MissingSecWebSocketVersionHeader">>
      BY ChecksAre
    <3>2. ~bad
      BY <1>2
    <3> HIDE DEF bad
    <3> QED BY <3>1, <3>2
  <2>9. ~checks[8][1]
    <3> DEFINE bad == req.headers["Key"] = <<>>
    <3>1. checks[8] = <<bad, "MissingSecWebSocketKey">>
      BY ChecksAre
    <3>2. ~bad
      BY <1>2
    <3> HIDE DEF bad
    <3> QED BY <3>1, <3>2
  <2> QED BY <2>1, <2>2, <2>3, <2>4, <2>5, <2>6, <2>7, <2>8, <2>9
<1> HIDE DEF checks
<1>5. \A i \in DOMAIN checks : ~checks[i][1]
  BY <1>4
<1>6. FirstOf(checks) = "Ok"
  BY <1>5, NoFailureNoError
<1> QED BY <1>6 DEF checks, req

-----------------------------------------------------------------------------
(* What connect() lets through.                                            *)

LEMMA ConnectPasses ==
  ASSUME NEW a, ConnectError(a) = "Ok"
  PROVE  /\ ~(a.connects /\ Mode(a) = "Tls" /\ Tls = "none")
         /\ ~(a.connects /\ PlainConnector(a))
<1> DEFINE checks ==
      << <<BuildError(a) # "Ok", BuildError(a)>>,
         <<a.connects /\ UnsupportedScheme(a), "UnsupportedUrlScheme">>,
         <<a.connects /\ Mode(a) = "Tls" /\ Tls = "none", "TlsFeatureNotEnabled">>,
         <<a.connects /\ a.host = "missing", "NoHostName">>,
         <<a.connects /\ PlainConnector(a), "TlsFeatureNotEnabled">>,
         <<a.connects /\ Mode(a) = "Tls" /\ Tls = "rustls" /\ a.host = "[::1]",
           "InvalidDnsName">> >>
<1>1. /\ DOMAIN checks = 1 .. 6
      /\ checks[1] = <<BuildError(a) # "Ok", BuildError(a)>>
      /\ checks[2][2] = "UnsupportedUrlScheme"
      /\ checks[3] = <<a.connects /\ Mode(a) = "Tls" /\ Tls = "none", "TlsFeatureNotEnabled">>
      /\ checks[4][2] = "NoHostName"
      /\ checks[5] = <<a.connects /\ PlainConnector(a), "TlsFeatureNotEnabled">>
      /\ checks[6][2] = "InvalidDnsName"
  OBVIOUS
<1>2. FirstOf(checks) = "Ok"
  BY DEF ConnectError
<1> HIDE DEF checks
<1>3. /\ checks[1][1] => checks[1][2] # "Ok"
      /\ checks[2][2] # "Ok" /\ checks[3][2] # "Ok" /\ checks[4][2] # "Ok"
      /\ checks[5][2] # "Ok" /\ checks[6][2] # "Ok"
  <2>1. checks[1][1] => checks[1][2] # "Ok"
    <3> DEFINE bad == BuildError(a) # "Ok"
    <3>1. checks[1] = <<bad, BuildError(a)>>
      BY <1>1
    <3>2. bad => BuildError(a) # "Ok"
      OBVIOUS
    <3> HIDE DEF bad
    <3> QED BY <3>1, <3>2
  <2>2. checks[3][2] # "Ok"
    <3>1. checks[3] = <<a.connects /\ Mode(a) = "Tls" /\ Tls = "none", "TlsFeatureNotEnabled">>
      BY <1>1
    <3> QED BY <3>1
  <2>3. checks[5][2] # "Ok"
    <3>1. checks[5] = <<a.connects /\ PlainConnector(a), "TlsFeatureNotEnabled">>
      BY <1>1
    <3> QED BY <3>1
  <2>4. checks[2][2] # "Ok" /\ checks[4][2] # "Ok" /\ checks[6][2] # "Ok"
    BY <1>1, Zenon
  <2> QED BY <2>1, <2>2, <2>3, <2>4
<1>4. \A i \in 1 .. 6 : checks[i][1] => checks[i][2] # "Ok"
  BY <1>3
<1>5. \A i \in 1 .. 6 : ~checks[i][1]
  <2>1. 6 \in Nat
    OBVIOUS
  <2>2. DOMAIN checks = 1 .. 6
    BY <1>1
  <2> QED BY <1>2, <1>4, <2>1, <2>2, NoErrorNoFailure, Zenon
<1>6. ~checks[3][1] /\ ~checks[5][1]
  BY <1>5
<1>7. ~(a.connects /\ Mode(a) = "Tls" /\ Tls = "none")
  <2> DEFINE bad == a.connects /\ Mode(a) = "Tls" /\ Tls = "none"
  <2>1. checks[3] = <<bad, "TlsFeatureNotEnabled">>
    BY <1>1
  <2>2. ~bad
    <3> HIDE DEF bad
    <3> QED BY <1>6, <2>1
  <2> QED BY <2>2
<1>8. ~(a.connects /\ PlainConnector(a))
  <2> DEFINE bad == a.connects /\ PlainConnector(a)
  <2>1. checks[5] = <<bad, "TlsFeatureNotEnabled">>
    BY <1>1
  <2>2. ~bad
    <3> HIDE DEF bad
    <3> QED BY <1>6, <2>1
  <2> QED BY <2>2
<1> QED BY <1>7, <1>8

-----------------------------------------------------------------------------
(* The invariant of the heads.                                             *)

Length == Len(wire["Client"]) + Len(out["Client"])

(* The steps that neither send a head nor accept one.                      *)
LEMMA FrameKeeps ==
  ASSUME HeadsInv, UNCHANGED <<foreign, ask, head, choice, channel>>,
         pc'["Client"] = "connected" => pc["Client"] = "connected",
         res'["Client"] = "Ok" <=> res["Client"] = "Ok",
         res'["Client"] = "Ok" => pc'["Client"] \in {"done", "gone"},
         res["Client"] # "Ok" /\ Length <= 2 => Length' <= 2,
         res'["Server"] = res["Server"] \/ res'["Server"] \in ServerErrors \cup {"Ok"}
  PROVE  HeadsInv'
<1>1. Origins'
  BY DEF HeadsInv, Origins, Ours
<1>2. Connected'
  BY DEF HeadsInv, Connected, Ours
<1>3. Judged'
  BY DEF HeadsInv, Judged, Agreed, ClientOkMeansAccepted, SubprotocolAgreed, Ours
<1>4. Silent'
  BY DEF HeadsInv, Silent, Ours, Length
<1>5. BuiltIsAccepted'
  BY DEF HeadsInv, BuiltIsAccepted, Ours
<1> QED BY <1>1, <1>2, <1>3, <1>4, <1>5 DEF HeadsInv

LEMMA GoToKeeps ==
  ASSUME StreamInv, HeadsInv, NEW q \in Roles, NEW at \in Places \ {"connected"}, GoTo(q, at),
         pc[q] # "done" \/ at = "gone", ~Left(q),
         UNCHANGED <<foreign, ask, head, choice, channel, wire, out>>
  PROVE  HeadsInv'
<1>1. pc'[q] = at /\ pc'[Peer(q)] = pc[Peer(q)] /\ res' = res
  BY GoToFacts DEF StreamInv
<1>2. q = "Client" \/ Peer(q) = "Client"
  BY DEF Roles, Peer
<1>3. pc'["Client"] = pc["Client"] \/ (q = "Client" /\ pc'["Client"] = at)
  BY <1>1, <1>2
<1>4. res["Client"] = "Ok" => pc["Client"] \in {"done", "gone"}
  BY DEF HeadsInv, Judged
<1>5. res'["Client"] = "Ok" => pc'["Client"] \in {"done", "gone"}
  BY <1>1, <1>3, <1>4 DEF Left
<1> QED BY <1>1, <1>3, <1>5, FrameKeeps DEF Length

LEMMA ReturnKeeps ==
  ASSUME StreamInv, HeadsInv, NEW q \in Roles, NEW e, Return(q, e),
         pc[q] \notin {"done", "gone"}, q = "Client" => e # "Ok",
         q = "Server" => e \in ServerErrors \cup {"Ok"},
         UNCHANGED <<foreign, ask, head, choice, channel, wire, out>>
  PROVE  HeadsInv'
<1>1. /\ pc'[Peer(q)] = pc[Peer(q)] /\ pc'[q] = IF e = "Ok" THEN "done" ELSE "failed"
      /\ res'[q] = e /\ res'[Peer(q)] = res[Peer(q)]
  BY ReturnFacts DEF StreamInv
<1>2. res["Client"] = "Ok" => pc["Client"] \in {"done", "gone"}
  BY DEF HeadsInv, Judged
<1>3. CASE q = "Client"
  <2>1. pc'["Client"] = "failed" /\ res'["Client"] # "Ok" /\ res["Client"] # "Ok"
        /\ res'["Server"] = res["Server"]
    BY <1>1, <1>2, <1>3 DEF Peer
  <2> QED BY <2>1, FrameKeeps DEF Length
<1>4. CASE q = "Server"
  <2>1. /\ pc'["Client"] = pc["Client"] /\ res'["Client"] = res["Client"]
        /\ res'["Server"] \in ServerErrors \cup {"Ok"}
    BY <1>1, <1>4 DEF Peer
  <2> QED BY <1>2, <2>1, FrameKeeps DEF Length
<1> QED BY <1>3, <1>4 DEF Roles

(* The steps on the stream.                                                *)
LEMMA StillKeeps ==
  ASSUME HeadsInv, UNCHANGED <<foreign, ask, head, choice, channel, pc, res>>,
         res["Client"] # "Ok" /\ Length <= 2 => Length' <= 2
  PROVE  HeadsInv'
<1>1. res["Client"] = "Ok" => pc["Client"] \in {"done", "gone"}
  BY DEF HeadsInv, Judged
<1> QED BY <1>1, FrameKeeps

LEMMA WriteHeads == ASSUME StreamInv, HeadsInv, NEW q \in Roles, Write(q) PROVE HeadsInv'
<1> DEFINE sent == wire[q]
           left == out[q]
<1>1. Types /\ left # <<>> /\ UNCHANGED <<foreign, ask, head, choice, channel, pc, res>>
  BY DEF StreamInv, Write
<1>2. sent \in Seq(Unit) /\ left \in Seq(Unit)
  BY <1>1, Lengths
<1>3. wire' = [wire EXCEPT ![q] = Append(sent, Head(left))] /\ out' = [out EXCEPT ![q] = Tail(left)]
  BY DEF Write
<1>4. wire = [r \in Roles |-> wire[r]] /\ out = [r \in Roles |-> out[r]] /\ "Client" \in Roles
  BY <1>1 DEF Types, Roles
<1>5. Length' = Length
  <2>1. CASE q = "Client"
    <3>1. wire'["Client"] = Append(sent, Head(left)) /\ out'["Client"] = Tail(left)
      BY <1>3, <1>4, <2>1
    <3>2. Len(Append(sent, Head(left))) = Len(sent) + 1 /\ Len(Tail(left)) = Len(left) - 1
      BY <1>1, <1>2, TailOne, AppendOne
    <3>3. Len(sent) \in Nat /\ Len(left) \in Nat
      BY <1>2
    <3>4. \A a, b \in Nat : (a + 1) + (b - 1) = a + b
      OBVIOUS
    <3>5. Length' = (Len(sent) + 1) + (Len(left) - 1)
      BY <3>1, <3>2 DEF Length
    <3>6. Length = Len(sent) + Len(left)
      BY <2>1 DEF Length
    <3> HIDE DEF sent, left
    <3> QED BY <3>3, <3>4, <3>5, <3>6
  <2>2. CASE q # "Client"
    <3>1. wire'["Client"] = wire["Client"] /\ out'["Client"] = out["Client"]
      BY <1>3, <1>4, <2>2
    <3> QED BY <3>1 DEF Length
  <2> QED BY <2>1, <2>2
<1> QED BY <1>1, <1>5, StillKeeps

LEMMA SpeakHeads == ASSUME StreamInv, HeadsInv, NEW q \in Roles, Speak(q) PROVE HeadsInv'
<1>1. UNCHANGED <<foreign, ask, head, choice, channel, pc, res, out>> /\ Types /\ Side(q)
  BY DEF Speak, StreamInv
<1>2. CASE q = "Client" /\ pc[q] = "done"
  <2>1. res["Client"] = "Ok"
    BY <1>1, <1>2 DEF Side, Reads
  <2> QED BY <1>1, <2>1, StillKeeps
<1>3. CASE q # "Client"
  <2>1. wire'["Client"] = wire["Client"]
    BY <1>1, <1>3 DEF Speak, Types, Roles
  <2> QED BY <1>1, <2>1, StillKeeps DEF Length
<1>4. CASE q = "Client" /\ pc[q] # "done"
  <2>1. ~Ours("Client")
    BY <1>1, <1>4 DEF Speak, Side, Stands, Ours
  <2>2. Origins' /\ Connected' /\ Judged' /\ BuiltIsAccepted'
    BY <1>1 DEF HeadsInv, Origins, Connected, Judged, Agreed, ClientOkMeansAccepted,
                SubprotocolAgreed, BuiltIsAccepted, Ours
  <2>3. Silent'
    BY <1>1, <2>1 DEF Silent, Ours
  <2> QED BY <2>2, <2>3 DEF HeadsInv
<1> QED BY <1>2, <1>3, <1>4

LEMMA ConnectHeads == ASSUME StreamInv, HeadsInv, Connect PROVE HeadsInv'
<1>0. /\ "Client" \in Roles /\ pc["Client"] = "connecting" /\ Types
      /\ UNCHANGED <<foreign, ask, out, wire, head, arrived, start, choice>>
  BY DEF Connect, Roles, StreamInv
<1>1. CASE /\ ConnectError(ask) = "Ok" /\ GoTo("Client", "connected") /\ channel' = Channel(ask)
  <2>1. pc'["Client"] = "connected" /\ res' = res
    BY <1>0, <1>1, GoToFacts DEF Places
  <2>2. res["Client"] # "Ok"
    BY <1>0 DEF HeadsInv, Judged
  <2>3. Origins' /\ BuiltIsAccepted' /\ Silent'
    BY <1>0, <2>1 DEF HeadsInv, Origins, BuiltIsAccepted, Silent, Ours
  <2>4. Connected'
    BY <1>0, <1>1 DEF Connected
  <2>5. Judged'
    BY <2>1, <2>2 DEF Judged, Agreed, ClientOkMeansAccepted, SubprotocolAgreed
  <2> QED BY <2>3, <2>4, <2>5 DEF HeadsInv
<1>2. ASSUME NEW f, f # "Ok", Return("Client", f), UNCHANGED channel PROVE HeadsInv'
  BY <1>0, <1>2, ReturnKeeps
<1> QED BY <1>1, <1>2 DEF Connect

LEMMA SendRequestHeads == ASSUME StreamInv, HeadsInv, SendRequest PROVE HeadsInv'
<1>0. /\ "Client" \in Roles /\ pc["Client"] = "connected" /\ Types
      /\ UNCHANGED <<foreign, ask, wire, arrived, start, channel, choice>>
      /\ head["Client"] = NoHead /\ Peer("Client") = "Server"
  BY DEF SendRequest, Roles, StreamInv, Side, Submitted, Peer
<1>1. CASE Submit("Client", RequestHead(ask), HeadUnits)
  <2>1. /\ pc'["Client"] = "writing" /\ res' = res /\ head'["Client"] = RequestHead(ask)
        /\ head'["Server"] = head["Server"] /\ out'["Client"] = HeadUnits
    BY <1>0, <1>1, SubmitFacts, HeadUnitsFacts
  <2>2. res["Client"] # "Ok" /\ Ours("Client")
    BY <1>0 DEF HeadsInv, Judged, StreamInv, Side, Stands, Ours
  <2>3. Origins'
    <3>1. \A r \in Roles : r \in foreign /\ head'[r] # NoHead => r = "Server" /\ head'[r] = head[r]
      BY <2>1, <2>2 DEF Roles, Ours
    <3> QED BY <1>0, <2>1, <3>1 DEF HeadsInv, Origins, Ours
  <2>4. Connected'
    BY <1>0, <2>1, <2>2 DEF HeadsInv, Connected, Ours
  <2>5. Judged'
    BY <2>1, <2>2 DEF Judged, Agreed, ClientOkMeansAccepted, SubprotocolAgreed
  <2>6. Silent'
    <3>1. wire'["Client"] = <<>>
      BY <1>0 DEF StreamInv, Side, Submitted
    <3> QED BY <2>1, <3>1, HeadUnitsFacts DEF Silent
  <2>7. BuiltIsAccepted'
    BY <1>0, <2>1 DEF HeadsInv, BuiltIsAccepted, Ours
  <2> QED BY <2>3, <2>4, <2>5, <2>6, <2>7 DEF HeadsInv
<1>2. ASSUME NEW f, f # "Ok", Return("Client", f), UNCHANGED <<out, head>> PROVE HeadsInv'
  BY <1>0, <1>2, ReturnKeeps
<1> QED BY <1>1, <1>2 DEF SendRequest

LEMMA ForeignHeadHeads == ASSUME StreamInv, HeadsInv, NEW q \in Roles, ForeignHead(q) PROVE HeadsInv'
<1>0. /\ Types /\ q \in foreign /\ head[q] = NoHead
      /\ UNCHANGED <<foreign, ask, wire, arrived, start, channel, choice>>
      /\ Peer(q) \in Roles
  BY PeerOf DEF ForeignHead, StreamInv, Side, Stands
<1>1. PICK h \in ForeignHeads[q] : Submit(q, h, HeadUnits)
  BY DEF ForeignHead
<1>2. /\ pc'[q] = "writing" /\ pc'[Peer(q)] = pc[Peer(q)] /\ res' = res
      /\ head'[q] = h /\ head'[Peer(q)] = head[Peer(q)] /\ out'[Peer(q)] = out[Peer(q)]
  BY <1>0, <1>1, SubmitFacts, HeadUnitsFacts
<1>3. CASE q = "Client"
  <2>1. /\ ~Ours("Client") /\ head'["Server"] = head["Server"] /\ head'["Client"] = h
        /\ pc["Client"] = "foreign"
    BY <1>0, <1>2, <1>3 DEF Ours, Peer, ForeignHead
  <2>2. Origins'
    <3>1. \A r \in Roles : head'[r] # head[r] => head'[r] \in ForeignHeads[r]
      BY <1>1, <1>3, <2>1 DEF Roles
    <3> QED BY <1>0, <2>1, <3>1 DEF HeadsInv, Origins, Ours
  <2>3. Connected' /\ Silent' /\ BuiltIsAccepted'
    BY <1>0, <2>1 DEF Connected, Silent, BuiltIsAccepted, Ours
  <2>4. res["Client"] # "Ok"
    BY <2>1 DEF HeadsInv, Judged
  <2>5. Judged'
    BY <1>2, <2>4 DEF Judged, Agreed, ClientOkMeansAccepted, SubprotocolAgreed
  <2> QED BY <2>2, <2>3, <2>5 DEF HeadsInv
<1>4. CASE q = "Server"
  <2>1. /\ ~Ours("Server") /\ head'["Client"] = head["Client"] /\ head'["Server"] = h
        /\ pc'["Client"] = pc["Client"] /\ out'["Client"] = out["Client"] /\ head["Server"] = NoHead
    BY <1>0, <1>2, <1>4 DEF Ours, Peer
  <2>2. Origins'
    <3>1. \A r \in Roles : head'[r] # head[r] => head'[r] \in ForeignHeads[r]
      BY <1>1, <1>4, <2>1 DEF Roles
    <3> QED BY <1>0, <2>1, <3>1 DEF HeadsInv, Origins, Ours
  <2>3. Connected' /\ Silent' /\ BuiltIsAccepted'
    BY <1>0, <1>2, <2>1 DEF HeadsInv, Connected, Silent, BuiltIsAccepted, Ours
  <2>4. res["Client"] # "Ok"
    BY <2>1 DEF HeadsInv, Judged
  <2>5. Judged'
    BY <1>2, <2>4 DEF Judged, Agreed, ClientOkMeansAccepted, SubprotocolAgreed
  <2> QED BY <2>2, <2>3, <2>5 DEF HeadsInv
<1> QED BY <1>3, <1>4 DEF Roles

LEMMA ReadResponseHeads == ASSUME StreamInv, HeadsInv, ReadResponse PROVE HeadsInv'
<1> DEFINE e == FirstOf(Verdicts(head["Server"]))
<1>0. /\ "Client" \in Roles /\ "Server" \in Roles /\ Peer("Client") = "Server"
      /\ Peer("Server") = "Client" /\ pc["Client"] = "reading" /\ Types
      /\ arrived["Client"] >= 2
      /\ UNCHANGED <<foreign, ask, out, wire, head, arrived, channel, choice>>
      /\ Return("Client", e)
  BY HeadUnitsFacts DEF ReadResponse, Roles, StreamInv, Peer, Whole, Verdicts
<1> HIDE DEF e
<1>1. CASE e # "Ok"
  BY <1>0, <1>1, ReturnKeeps
<1>2. CASE e = "Ok"
  <2>1. pc'["Client"] = "done" /\ res'["Client"] = "Ok" /\ res'["Server"] = res["Server"]
    BY <1>0, <1>2, ReturnFacts
  <2>2. head["Server"] # NoHead
    BY <1>0, WrittenHasHead
  <2>3. Origins' /\ BuiltIsAccepted'
    BY <1>0, <2>1 DEF HeadsInv, Origins, BuiltIsAccepted, Ours
  <2>4. Connected'
    BY <1>0, <2>1 DEF HeadsInv, Connected, Ours
  <2>5. Judged'
    <3>1. Ours("Server") =>
            /\ choice.is = "accept"
            /\ IF Subprotocols(ask) = {} THEN choice.protocol = {}
               ELSE \E t \in Subprotocols(ask) : choice.protocol = {t}
      BY <1>2, <2>2, AcceptedIsAgreed DEF HeadsInv, e
    <3> QED BY <1>0, <2>1, <2>2, <3>1
            DEF Judged, Agreed, ClientOkMeansAccepted, SubprotocolAgreed, Ours
  <2>6. Silent'
    BY <2>1 DEF Silent
  <2> QED BY <2>3, <2>4, <2>5, <2>6 DEF HeadsInv
<1> QED BY <1>1, <1>2

(* A server that is still reading has a client that is not through, and    *)
(* one of this crate has sent nothing after its head.                      *)
LEMMA NothingAhead ==
  ASSUME StreamInv, HeadsInv, Ours("Client"), pc["Server"] = "reading", arrived["Server"] >= 2
  PROVE  arrived["Server"] = 2
<1>1. /\ Side("Server") /\ "Server" \in Roles /\ "Client" \in Roles /\ Types
      /\ Peer("Server") = "Client"
  BY DEF StreamInv, Roles, Peer
<1>2. res["Client"] # "Ok"
  BY <1>1 DEF HeadsInv, Judged, Side, Submitted
<1>3. Len(wire["Client"]) + Len(out["Client"]) <= 2
  BY <1>2 DEF HeadsInv, Silent
<1>4. arrived["Server"] <= Len(wire["Client"])
  BY <1>1 DEF Side, Reads
<1>5. Len(wire["Client"]) \in Nat /\ Len(out["Client"]) \in Nat /\ arrived["Server"] \in Nat
  BY <1>1, Lengths
<1>6. \A a, b, c \in Nat : a + b <= 2 /\ c <= a /\ c >= 2 => c = 2
  OBVIOUS
<1>7. arrived["Server"] >= 2
  OBVIOUS
<1> QED BY <1>3, <1>4, <1>5, <1>6, <1>7, Zenon

LEMMA ReadRequestHeads == ASSUME StreamInv, HeadsInv, ReadRequest PROVE HeadsInv'
<1> DEFINE req == head["Client"]
           e == FirstOf(Checks(req))
<1>0. /\ "Client" \in Roles /\ "Server" \in Roles /\ Peer("Server") = "Client"
      /\ Peer("Client") = "Server" /\ pc["Server"] = "reading" /\ Types
      /\ arrived["Server"] >= 2 /\ head["Server"] = NoHead /\ Ours("Server")
      /\ UNCHANGED <<foreign, ask, wire, arrived, start, channel>>
  BY HeadUnitsFacts DEF ReadRequest, Roles, StreamInv, Peer, Whole, Side, Stands, Submitted, Ours
<1>1. /\ res["Client"] # "Ok" /\ req # NoHead
  BY <1>0, WrittenHasHead DEF HeadsInv, Judged
<1>2. Ours("Client") /\ ~ask.raw => e = "Ok"
  <2>1. SUFFICES ASSUME Ours("Client"), ~ask.raw PROVE e = "Ok"
    OBVIOUS
  <2>2. req = RequestHead(ask) /\ ask \in Asks
    BY <1>0, <1>1, <2>1 DEF HeadsInv, Origins, Types
  <2>3. arrived["Server"] = 2
    BY <1>0, <2>1, NothingAhead
  <2> QED BY <2>1, <2>2, <2>3, BuiltPasses
<1>3. \/ /\ e # "Ok" /\ Return("Server", e) /\ UNCHANGED <<out, head, choice>>
      \/ /\ e = "Ok"
         /\ \E c \in Answers(req.headers) :
              /\ choice' = c
              /\ IF Successful(c)
                 THEN Return("Server", "CustomResponseSuccessful") /\ UNCHANGED <<out, head>>
                 ELSE Submit("Server", ResponseHead(req.headers, c),
                             HeadUnits \o IF c.body THEN BodyUnits ELSE <<>>)
  BY DEF ReadRequest, Checks
<1> HIDE DEF req, e
<1>4. ASSUME NEW f, Return("Server", f), UNCHANGED <<out, head>>,
             Ours("Client") /\ ~ask.raw => f \in ServerErrors
      PROVE  HeadsInv'
  <2>1. pc'["Client"] = pc["Client"] /\ res'["Client"] = res["Client"] /\ res'["Server"] = f
    BY <1>0, <1>4, ReturnFacts
  <2>2. Origins'
    BY <1>0, <1>4 DEF HeadsInv, Origins, Ours
  <2>3. Connected' /\ Silent'
    BY <1>0, <1>4, <2>1 DEF HeadsInv, Connected, Silent, Ours
  <2>4. BuiltIsAccepted'
    BY <1>0, <1>4, <2>1 DEF BuiltIsAccepted, Ours
  <2>5. Judged'
    BY <1>1, <2>1 DEF Judged, Agreed, ClientOkMeansAccepted, SubprotocolAgreed
  <2> QED BY <2>2, <2>3, <2>4, <2>5 DEF HeadsInv
<1>5. ASSUME NEW c \in Answers(req.headers), choice' = c,
             Submit("Server", ResponseHead(req.headers, c),
                    HeadUnits \o IF c.body THEN BodyUnits ELSE <<>>)
      PROVE  HeadsInv'
  <2> DEFINE units == HeadUnits \o IF c.body THEN BodyUnits ELSE <<>>
             h == ResponseHead(req.headers, c)
  <2>1. units \in Seq(Unit)
    BY AnswerUnits
  <2>2. Submit("Server", h, units)
    BY <1>5
  <2> HIDE DEF units
  <2>3. /\ head'["Server"] = h /\ head'["Client"] = head["Client"] /\ res' = res
        /\ pc'["Client"] = pc["Client"] /\ out'["Client"] = out["Client"]
    BY <1>0, <2>1, <2>2, SubmitFacts
  <2>4. Origins'
    <3>1. \A r \in Roles : r \in foreign => head'[r] = head[r]
      BY <1>0, <2>3 DEF Roles, Ours
    <3>2. \E g : head'["Server"] = ResponseHead(g, choice') /\ choice' \in Answers(g)
      BY <1>5, <2>3
    <3> QED BY <1>0, <2>3, <3>1, <3>2 DEF HeadsInv, Origins, Ours
  <2>5. Connected' /\ Silent' /\ BuiltIsAccepted'
    BY <1>0, <2>3 DEF HeadsInv, Connected, Silent, BuiltIsAccepted, Ours
  <2>6. Judged'
    BY <1>1, <2>3 DEF Judged, Agreed, ClientOkMeansAccepted, SubprotocolAgreed
  <2> QED BY <2>4, <2>5, <2>6 DEF HeadsInv
<1>6. CASE e # "Ok" /\ Return("Server", e) /\ UNCHANGED <<out, head, choice>>
  BY <1>2, <1>4, <1>6
<1>7. ASSUME e = "Ok", NEW c \in Answers(req.headers), choice' = c,
             IF Successful(c)
             THEN Return("Server", "CustomResponseSuccessful") /\ UNCHANGED <<out, head>>
             ELSE Submit("Server", ResponseHead(req.headers, c),
                         HeadUnits \o IF c.body THEN BodyUnits ELSE <<>>)
      PROVE  HeadsInv'
  <2>1. "CustomResponseSuccessful" \in ServerErrors
    BY DEF ServerErrors
  <2> QED BY <1>4, <1>5, <1>7, <2>1
<1> QED BY <1>3, <1>6, <1>7

LEMMA FlushHeads == ASSUME StreamInv, HeadsInv, NEW q \in Roles, Flush(q) PROVE HeadsInv'
<1>1. UNCHANGED <<foreign, ask, out, wire, head, choice, channel>> /\ pc[q] = "writing"
  BY DEF Flush
<1>2. ASSUME NEW at \in {"foreign", "reading"}, GoTo(q, at) PROVE HeadsInv'
  BY <1>1, <1>2, GoToKeeps DEF Places, Left
<1>3. ASSUME q = "Server", NEW f \in {"Ok", "Http"}, Return(q, f) PROVE HeadsInv'
  BY <1>1, <1>3, ReturnKeeps DEF ServerErrors
<1>4. CASE q \in foreign
  BY <1>2, <1>4 DEF Flush
<1>5. CASE q \notin foreign /\ q = "Client"
  BY <1>2, <1>5 DEF Flush
<1>6. CASE q \notin foreign /\ q = "Server"
  BY <1>3, <1>6 DEF Flush
<1> QED BY <1>4, <1>5, <1>6 DEF Roles

LEMMA NextHeads == ASSUME StreamInv, HeadsInv, [Next]_vars PROVE HeadsInv'
<1>1. ASSUME NEW q \in Roles, WriteFails(q) PROVE HeadsInv'
  BY <1>1, ReturnKeeps DEF WriteFails, ServerErrors
<1>2. ASSUME NEW q \in Roles, NextEnds(q) PROVE HeadsInv'
  <2>1. PICK e \in {"HandshakeIncomplete", "Io"} : Return(q, e)
    BY <1>2 DEF NextEnds
  <2> QED BY <1>2, <2>1, ReturnKeeps DEF NextEnds, ServerErrors
<1>3. ASSUME NEW q \in Roles, Arrive(q) PROVE HeadsInv'
  BY <1>3, StillKeeps DEF Arrive, Length
<1>4. ASSUME NEW q \in Roles, Drop(q) PROVE HeadsInv'
  BY <1>4, GoToKeeps DEF Drop, Places
<1>5. ASSUME NEW q \in Roles, Handles(q) PROVE HeadsInv'
  BY <1>1, <1>2, <1>3, <1>5, ConnectHeads, SendRequestHeads, ReadResponseHeads,
     ReadRequestHeads, WriteHeads, FlushHeads, ForeignHeadHeads DEF Handles
<1>6. CASE UNCHANGED vars
  BY <1>6, StillKeeps DEF vars, Length
<1>7. \/ \E q \in Roles : Handles(q)
      \/ \E q \in Roles : Speak(q)
      \/ \E q \in Roles : Drop(q)
      \/ UNCHANGED vars
  BY DEF Next, Quiet
<1>8. CASE \E q \in Roles : Speak(q)
  BY <1>8, SpeakHeads
<1> QED BY <1>4, <1>5, <1>6, <1>7, <1>8

-----------------------------------------------------------------------------
(* The theorems.                                                           *)

LEMMA Always == Spec => [](StreamInv /\ HeadsInv)
<1>1. Init => StreamInv /\ HeadsInv
  BY InitStream, InitHeads
<1>2. (StreamInv /\ HeadsInv) /\ [Next]_vars => (StreamInv /\ HeadsInv)'
  BY NextStream, NextHeads
<1> QED BY <1>1, <1>2, PTL DEF Spec

(* Every state is well typed; no side has read more than was sent, or      *)
(* hands its codec a place it has not read up to.                          *)
THEOREM HandshakeTypeCorrect == Spec => []TypeOK
<1>1. StreamInv => TypeOK
  <2> SUFFICES ASSUME StreamInv PROVE TypeOK
    OBVIOUS
  <2>1. Types
    BY DEF StreamInv
  <2>2. ASSUME NEW r \in Roles
        PROVE  /\ {wire[r][i] : i \in DOMAIN wire[r]} \cup {out[r][i] : i \in DOMAIN out[r]}
                    \subseteq {"head", "body", "frame"} \X (1 .. MaxFrames + 2)
               /\ arrived[r] \in 0 .. Received(r) /\ start[r] \in 0 .. arrived[r]
               /\ head[r] = NoHead => pc[r] # "writing"
               /\ pc[r] = "done" => res[r] = "Ok"
    <3>1. Side(r) /\ Peer(r) \in Roles
      BY PeerOf DEF StreamInv
    <3>2. wire[r] \in Seq(Unit) /\ out[r] \in Seq(Unit)
      BY <2>1, Lengths
    <3>3. {wire[r][i] : i \in DOMAIN wire[r]} \cup {out[r][i] : i \in DOMAIN out[r]} \subseteq Unit
      BY <3>2
    <3>4. arrived[r] \in 0 .. Received(r) /\ start[r] \in 0 .. arrived[r]
      BY <2>1, <3>1, Lengths DEF Side, Reads, Received
    <3> QED BY <3>1, <3>3, <3>4 DEF Unit, Side, Submitted, Reads
  <2> QED BY <2>1, <2>2 DEF TypeOK, Types, Places
<1> QED BY <1>1, Always, PTL

(* The codec of either side starts at the first byte behind the peer's     *)
(* head, however the heads were cut and whatever came in with them.        *)
THEOREM HandOverHolds == Spec => []HandOver
<1>1. StreamInv => HandOver
  <2> SUFFICES ASSUME StreamInv, NEW r \in Roles, Ours(r), pc[r] = "done",
                      NEW i \in DOMAIN wire[Peer(r)]
               PROVE  i <= start[r] <=> wire[Peer(r)][i][1] = "head"
    BY DEF HandOver
  <2>1. Peer(r) \in Roles /\ Side(r) /\ Side(Peer(r)) /\ wire[Peer(r)] \in Seq(Unit)
    BY PeerOf, Lengths DEF StreamInv
  <2>2. start[r] = 2
    BY <2>1 DEF Side, Reads
  <2>3. i \in 1 .. Len(wire[Peer(r)])
    BY <2>1
  <2> QED BY <2>1, <2>2, <2>3 DEF Side, HeadFirst, IsHead
<1> QED BY <1>1, Always, PTL

(* A client that is given a WebSocket by a server of this crate was        *)
(* accepted by its callback.                                               *)
THEOREM ClientOkMeansAcceptedHolds == Spec => []ClientOkMeansAccepted
<1>1. HeadsInv => ClientOkMeansAccepted
  BY DEF HeadsInv, Judged, Agreed
<1> QED BY <1>1, Always, PTL

(* The two sides agree on the subprotocol.                                 *)
THEOREM SubprotocolAgreedHolds == Spec => []SubprotocolAgreed
<1>1. HeadsInv => SubprotocolAgreed
  BY DEF HeadsInv, Judged, Agreed
<1> QED BY <1>1, Always, PTL

(* server_handshake has nothing against what ClientRequestBuilder makes,   *)
(* whatever headers a caller adds.                                         *)
THEOREM BuiltIsAcceptedHolds == Spec => []BuiltIsAccepted
<1>1. HeadsInv => BuiltIsAccepted
  BY DEF HeadsInv
<1> QED BY <1>1, Always, PTL

(* A wss request is never written to a stream without TLS, whatever        *)
(* backend is compiled in and whatever connector the caller gives.         *)
THEOREM NeverInTheClearHolds == Spec => []NeverInTheClear
<1>1. StreamInv /\ HeadsInv => NeverInTheClear
  <2> SUFFICES ASSUME StreamInv, HeadsInv, Ours("Client"), ask.connects, ask.scheme = "wss",
                      wire["Client"] # <<>>
               PROVE  channel = "Tls"
    BY DEF NeverInTheClear
  <2>1. head["Client"] # NoHead
    BY DEF StreamInv, Side, Submitted, Roles
  <2>2. channel = Channel(ask) /\ ConnectError(ask) = "Ok"
    BY <2>1 DEF HeadsInv, Connected
  <2>3. Mode(ask) = "Tls"
    BY DEF Mode
  <2>4. Tls # "none" /\ ~PlainConnector(ask)
    BY <2>2, <2>3, ConnectPasses
  <2>5. ask.connector # "Plain"
    BY <2>3, <2>4 DEF PlainConnector
  <2> QED BY <2>2, <2>3, <2>5 DEF Channel
<1> QED BY <1>1, Always, PTL
=============================================================================
