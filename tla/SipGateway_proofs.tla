------------------------- MODULE SipGateway_proofs -------------------------
(***************************************************************************)
(* Theorems about the client and its gateway, for every bound on what goes *)
(* wrong and on what the socket keeps: the composition makes no step that  *)
(* SipClient.tla does not allow, so that all that is proved of the client  *)
(* holds here; and when no reply misses its window, a pick-up is real, and *)
(* the two sides agree about a call.                                       *)
(***************************************************************************)
EXTENDS SipGateway, SipClient_proofs, SequenceTheorems

USE DEF Timer, SipCommand, SipState, Response

Datagram == [packet : Packet, about : Method \cup AnsweredMethod]

LEMMA GUnchanged ==
  UNCHANGED gvars => UNCHANGED <<vars, bound, leg, down, keyed, faults>>
BY DEF gvars, net

\* No message of the client ends an answered call: its BYE names no dialog.
LEMMA ByesAreVain == ASSUME NEW m PROVE ~Ends(m)
BY DEF Ends, HasToTag

LEMMA EmptyRange == Range(<< >>) = {}
BY DEF Range

-----------------------------------------------------------------------------
(***************************************************************************)
(* What the gateway may put into the socket.                               *)
(***************************************************************************)
LEMMA ReplyType ==
  ASSUME NEW status \in Status, NEW method \in Method
  PROVE  /\ Reply(status, method) \in Datagram
         /\ Reply(status, method).packet.method = "UNKNOWN"
         /\ Reply(status, method).packet.status = status
         /\ Reply(status, method).about = method
<1>1. GatewayNonce \in Nonces
  BY GatewayAssumption DEF GatewayNonce
<1>2. Reply(status, method).packet \in Packet
  <2>1. CASE status \in Challenge
    BY <1>1, <2>1 DEF Reply, Packet
  <2>2. CASE status \notin Challenge
    BY <2>2 DEF Reply, Packet
  <2> QED
    BY <2>1, <2>2
<1> QED
  BY <1>2 DEF Reply, Datagram

LEMMA AskType ==
  ASSUME NEW method \in AnsweredMethod
  PROVE  /\ Ask(method) \in Datagram
         /\ Ask(method).packet.method = method
         /\ Ask(method).packet.status = "UNKNOWN"
BY DEF Ask, Datagram, Packet

\* A reply is about the request it answers, and only four requests have one.
LEMMA AnswerSays ==
  ASSUME NEW m, NEW key
  PROVE  /\ Answer(m, key) \in Seq(Datagram)
         /\ m.method \notin {"REGISTER", "INVITE", "CANCEL", "BYE"}
              => Answer(m, key) = << >>
         /\ \A d \in Range(Answer(m, key)) :
              /\ d.packet.method = "UNKNOWN"
              /\ d.packet.status = "OK_200" => d.about = m.method
<1> DEFINE Says(s) ==
      /\ s \in Seq(Datagram)
      /\ \A d \in Range(s) : /\ d.packet.method = "UNKNOWN"
                             /\ d.packet.status = "OK_200" => d.about = m.method
<1>1. Says(<< >>)
  BY DEF Range
<1>2. ASSUME NEW status \in Status, m.method \in Method
      PROVE  Says(<<Reply(status, m.method)>>)
  <2>1. Reply(status, m.method) \in Datagram
    BY <1>2, ReplyType
  <2>2. \A d \in Range(<<Reply(status, m.method)>>) : d = Reply(status, m.method)
    BY DEF Range
  <2> QED
    BY <1>2, <2>1, <2>2, ReplyType
<1>3. CASE m.method = "REGISTER"
  <2> DEFINE status == IF Good(m, key) THEN "OK_200" ELSE "UNAUTHORIZED_401"
  <2>1. Answer(m, key) = <<Reply(status, m.method)>>
    BY <1>3 DEF Answer
  <2>2. status \in Status /\ m.method \in Method
    BY <1>3 DEF Status, Challenge, Method
  <2> HIDE DEF status
  <2> QED
    BY <1>2, <1>3, <2>1, <2>2
<1>4. CASE m.method = "INVITE"
  <2> DEFINE status == CASE ~Good(m, key) -> "UNAUTHORIZED_401"
                         [] ~bound -> "UNKNOWN"
                         [] leg = "answered" -> "OK_200"
                         [] leg = "talking" -> "BUSY_HERE_486"
                         [] OTHER -> "TRYING_100"
  <2>1. Answer(m, key) = <<Reply(status, m.method)>>
    BY <1>4 DEF Answer
  <2>2. status \in Status /\ m.method \in Method
    BY <1>4 DEF Status, Challenge, Method
  <2> HIDE DEF status
  <2> QED
    BY <1>2, <1>4, <2>1, <2>2
<1>5. CASE m.method = "BYE"
  <2> DEFINE status == IF Ends(m) THEN "OK_200" ELSE "UNKNOWN"
  <2>1. Answer(m, key) = <<Reply(status, m.method)>>
    BY <1>5 DEF Answer
  <2>2. status \in Status /\ m.method \in Method
    BY <1>5 DEF Status, Challenge, Method
  <2> HIDE DEF status
  <2> QED
    BY <1>2, <1>5, <2>1, <2>2
<1>6. CASE m.method = "CANCEL"
  <2>1. CASE leg = "ringing"
    <3> DEFINE a == Reply("OK_200", "CANCEL")
               b == Reply("REQUEST_CANCELLED_487", "INVITE")
    <3>1. Answer(m, key) = <<a, b>>
      BY <1>6, <2>1 DEF Answer
    <3>2. /\ a \in Datagram /\ b \in Datagram
          /\ a.packet.method = "UNKNOWN" /\ a.about = "CANCEL"
          /\ b.packet.method = "UNKNOWN" /\ b.packet.status = "REQUEST_CANCELLED_487"
      BY ReplyType DEF Status, Method
    <3> HIDE DEF a, b
    <3>3. \A d \in Range(<<a, b>>) : d = a \/ d = b
      BY DEF Range
    <3> QED
      BY <1>6, <3>1, <3>2, <3>3
  <2>2. CASE leg # "ringing"
    <3>1. Answer(m, key) = <<Reply("UNKNOWN", m.method)>>
      BY <1>6, <2>2 DEF Answer
    <3>2. "UNKNOWN" \in Status /\ m.method \in Method
      BY <1>6 DEF Status, Method
    <3> QED
      BY <1>2, <1>6, <3>1, <3>2
  <2> QED
    BY <2>1, <2>2
<1>7. CASE m.method \notin {"REGISTER", "INVITE", "CANCEL", "BYE"}
  <2>1. Answer(m, key) = << >>
    BY <1>7 DEF Answer
  <2> QED
    BY <1>1, <2>1
<1> QED
  BY <1>3, <1>4, <1>5, <1>6, <1>7

\* The socket keeps the beginning of what is sent to it.
LEMMA KeepSays ==
  ASSUME NEW queue \in Seq(Datagram)
  PROVE  /\ Keep(queue) \in Seq(Datagram)
         /\ Len(Keep(queue)) <= MaxDown
         /\ Range(Keep(queue)) \subseteq Range(queue)
         /\ Len(queue) <= MaxDown => Keep(queue) = queue
<1> DEFINE n == IF Len(queue) < MaxDown THEN Len(queue) ELSE MaxDown
<1>1. /\ n \in Nat /\ n <= Len(queue) /\ n <= MaxDown
      /\ Len(queue) <= MaxDown => n = Len(queue)
  <2>1. Len(queue) \in Nat /\ MaxDown \in Nat
    BY GatewayAssumption
  <2> QED
    BY <2>1
<1>2. Keep(queue) = SubSeq(queue, 1, n)
  BY DEF Keep
<1> HIDE DEF n
<1>3. /\ DOMAIN queue = 1 .. Len(queue)
      /\ \A i \in 1 .. n : i \in DOMAIN queue /\ queue[i] \in Datagram
  BY <1>1
<1>4. /\ SubSeq(queue, 1, n) \in Seq(Datagram)
      /\ Len(SubSeq(queue, 1, n)) = n
      /\ \A i \in 1 .. n : SubSeq(queue, 1, n)[i] = queue[i]
  <2>1. \A i \in 1 .. n : queue[i] \in Datagram
    BY <1>3
  <2>2. 1 \in Int /\ n \in Int
    BY <1>1
  <2>3. /\ SubSeq(queue, 1, n) \in Seq(Datagram)
        /\ Len(SubSeq(queue, 1, n)) = IF 1 <= n THEN n - 1 + 1 ELSE 0
        /\ \A i \in 1 .. n - 1 + 1 : SubSeq(queue, 1, n)[i] = queue[1 + i - 1]
    BY <2>1, <2>2, SubSeqProperties
  <2> QED
    BY <1>1, <2>3
<1>5. ASSUME NEW d \in Range(SubSeq(queue, 1, n))
      PROVE  d \in Range(queue)
  <2>1. PICK i \in 1 .. n : d = SubSeq(queue, 1, n)[i]
    BY <1>4 DEF Range
  <2> QED
    BY <1>3, <1>4, <2>1 DEF Range
<1> QED
  BY <1>1, <1>2, <1>4, <1>5, SubSeqFull

LEMMA FaultsCount ==
  ASSUME faults \in 0 .. MaxFaults, Fault
  PROVE  faults' \in 0 .. MaxFaults /\ faults' > faults
<1>1. MaxFaults \in Nat
  BY GatewayAssumption
<1> QED
  BY <1>1 DEF Fault

\* The gateway reacts to the message of a step, if there is one: a reply is
\* added to what waits, and while nothing goes wrong nothing else changes.
LEMMA ExchangeSays ==
  ASSUME GTypeOK, NEW rest \in Seq(Datagram), Len(rest) <= MaxDown, Exchange(rest)
  PROVE  /\ bound' \in BOOLEAN /\ leg' \in Leg
         /\ down' \in Seq(Datagram) /\ Len(down') <= MaxDown
         /\ Range(down') \subseteq Range(rest) \cup Range(Answer(out', keyed'))
         /\ faults' \in 0 .. MaxFaults /\ faults' >= faults
         /\ faults' = faults => leg' = LegAfter(out', keyed')
         /\ faults' = faults /\ Answer(out', keyed') = << >> => down' = rest
<1> DEFINE answer == Answer(out', keyed')
<1>1. /\ faults \in 0 .. MaxFaults /\ MaxFaults \in Nat
      /\ bound \in BOOLEAN /\ leg \in Leg
  BY GatewayAssumption DEF GTypeOK
<1>2. LegAfter(out', keyed') \in Leg
  BY <1>1 DEF LegAfter, Leg
<1>3. answer \in Seq(Datagram)
  BY AnswerSays
<1>4. Keep(rest) = rest
  BY KeepSays
<1>5. Fault => faults' \in 0 .. MaxFaults /\ faults' > faults
  BY <1>1, FaultsCount
<1> HIDE DEF answer
<1>6. /\ Keep(rest \o answer) \in Seq(Datagram)
      /\ Len(Keep(rest \o answer)) <= MaxDown
      /\ Range(Keep(rest \o answer)) \subseteq Range(rest) \cup Range(answer)
      /\ answer = << >> => Keep(rest \o answer) = rest
  <2>1. rest \o answer \in Seq(Datagram)
    BY <1>3, ConcatProperties
  <2>2. Range(rest \o answer) = Range(rest) \cup Range(answer)
    BY <1>3, RangeConcatenation
  <2>3. answer = << >> => rest \o answer = rest
    BY ConcatEmptySeq
  <2> QED
    BY <1>4, <2>1, <2>2, <2>3, KeepSays
<1>7. CASE out' = NoMsg
  <2>1. LegAfter(out', keyed') = leg
    BY <1>7, NoFields, ByesAreVain DEF LegAfter
  <2> QED
    BY <1>1, <1>7, <2>1 DEF Exchange
<1>8. CASE Lost(rest)
  BY <1>1, <1>5, <1>8 DEF Lost
<1>9. CASE Reaches(out', rest)
  <2>1. bound' \in BOOLEAN /\ leg' = LegAfter(out', keyed')
    BY <1>1, <1>9 DEF Reaches
  <2>2. \/ down' = Keep(rest \o answer) /\ faults' = faults
        \/ down' = rest /\ Fault
    BY <1>9 DEF Reaches, answer
  <2> QED
    BY <1>1, <1>2, <1>5, <1>6, <2>1, <2>2 DEF answer
<1> QED
  BY <1>7, <1>8, <1>9 DEF Exchange

\* What a window leaves in the socket.
LEMMA RestSays ==
  ASSUME GTypeOK, NEW n \in 1 .. Len(down)
  PROVE  /\ down[1] \in Datagram
         /\ SubSeq(down, n + 1, Len(down)) \in Seq(Datagram)
         /\ Len(SubSeq(down, n + 1, Len(down))) <= MaxDown
         /\ Range(SubSeq(down, n + 1, Len(down))) \subseteq Range(down)
         /\ n = Len(down) => SubSeq(down, n + 1, Len(down)) = << >>
<1> DEFINE l == Len(down)
<1>1. down \in Seq(Datagram) /\ l \in Nat /\ l <= MaxDown /\ MaxDown \in Nat
  <2>1. down \in Seq(Datagram) /\ l <= MaxDown
    BY DEF GTypeOK, Datagram
  <2>2. l \in Nat
    BY <2>1
  <2> QED
    BY <2>1, <2>2, GatewayAssumption
<1>2. \A i \in 1 .. l : down[i] \in Datagram
  BY <1>1
<1> HIDE DEF l
<1>3. /\ n \in Int /\ n + 1 \in Int /\ l \in Int /\ 1 \in 1 .. l
      /\ \A i \in n + 1 .. l : i \in 1 .. l
  BY <1>1 DEF l
<1>4. /\ SubSeq(down, n + 1, l) \in Seq(Datagram)
      /\ Len(SubSeq(down, n + 1, l)) = IF n + 1 <= l THEN l - (n + 1) + 1 ELSE 0
      /\ \A i \in 1 .. l - (n + 1) + 1 : SubSeq(down, n + 1, l)[i] = down[(n + 1) + i - 1]
  BY <1>2, <1>3, SubSeqProperties
<1>6. Range(SubSeq(down, n + 1, l)) \subseteq Range(down)
  <2> DEFINE rest == SubSeq(down, n + 1, l)
  <2>1. DOMAIN rest = 1 .. Len(rest) /\ Len(rest) \in Nat /\ DOMAIN down = 1 .. l
    BY <1>1, <1>4 DEF l
  <2>2. /\ rest \in Seq(Datagram)
        /\ Len(rest) = IF n + 1 <= l THEN l - (n + 1) + 1 ELSE 0
        /\ \A i \in 1 .. l - (n + 1) + 1 : rest[i] = down[(n + 1) + i - 1]
    BY <1>4
  <2> HIDE DEF rest
  <2>3. ASSUME NEW i \in DOMAIN rest PROVE rest[i] \in Range(down)
    <3>1. /\ i \in 1 .. l - (n + 1) + 1
          /\ (n + 1) + i - 1 \in DOMAIN down
      BY <1>3, <2>1, <2>2
    <3> QED
      BY <2>2, <3>1 DEF Range
  <2> QED
    BY <2>3 DEF Range, rest
<1>5. n = l => SubSeq(down, n + 1, l) = << >>
  <2>1. n = l => l < n + 1
    BY <1>1
  <2> QED
    BY <1>3, <2>1, SubSeqEmpty
<1> QED
  BY <1>1, <1>2, <1>3, <1>4, <1>5, <1>6 DEF l

-----------------------------------------------------------------------------
(***************************************************************************)
(* Refinement: the client of the composition is that of SipClient.tla.     *)
(***************************************************************************)
LEMMA ClientOfGateway ==
  ASSUME GTypeOK, [GNext]_gvars
  PROVE  [Next]_vars
<1>1. CASE GTx \/ GRun \/ GRing \/ CallTimer \/ StrayHangup \/ GClock
  BY <1>1 DEF GTx, GRun, GRing, CallTimer, StrayHangup, GClock, Next
<1>2. CASE GRx
  <2>1. CASE RxQuiet
    BY <1>2, <2>1 DEF GRx, Next, Rx
  <2>2. ASSUME NEW n \in 1 .. Len(down), RxPacket(down[1].packet)
        PROVE  Next
    <3>1. down[1].packet \in Packet
      BY RestSays DEF Datagram
    <3> QED
      BY <1>2, <2>2, <3>1 DEF GRx, Next, Rx
  <2> QED
    BY <1>2, <2>1, <2>2 DEF GRx
<1>3. CASE GatewayActs
  BY <1>3 DEF GatewayActs, Expire
<1>4. CASE UNCHANGED gvars
  BY <1>4, GUnchanged
<1> QED
  BY <1>1, <1>2, <1>3, <1>4 DEF GNext

\* What the gateway sends of its own accord is a datagram like its answers, and
\* there is room for one.
LEMMA SendsSays ==
  ASSUME down \in Seq(Datagram), NEW reply \in Datagram, Sends(reply)
  PROVE  /\ down' \in Seq(Datagram) /\ Len(down') <= MaxDown
         /\ Range(down') \subseteq Range(down) \cup {reply}
         /\ down = << >> => down' = <<reply>>
<1>1. /\ Append(down, reply) \in Seq(Datagram)
      /\ Range(Append(down, reply)) = Range(down) \cup {reply}
  <2>1. Append(down, reply) = down \o <<reply>> /\ <<reply>> \in Seq(Datagram)
    BY AppendIsConcat
  <2>2. Range(<<reply>>) = {reply}
    BY DEF Range
  <2>3. Append(down, reply) \in Seq(Datagram)
    BY AppendProperties
  <2>4. Range(down \o <<reply>>) = Range(down) \cup Range(<<reply>>)
    BY <2>1, RangeConcatenation
  <2> QED
    BY <2>1, <2>2, <2>3, <2>4, Zenon
<1>2. ASSUME down = << >>
      PROVE  Append(down, reply) = <<reply>> /\ Len(<<reply>>) <= MaxDown
  BY <1>2, GatewayAssumption
<1> QED
  BY <1>1, <1>2, KeepSays DEF Sends

LEMMA ActsType ==
  ASSUME GTypeOK, GatewayActs
  PROVE  GTypeOK'
<1> USE DEF Leg
<1>1. /\ bound \in BOOLEAN /\ leg \in Leg
      /\ down \in Seq(Datagram) /\ Len(down) <= MaxDown
      /\ keyed \in Nonces \cup {""} /\ faults \in 0 .. MaxFaults
  BY DEF GTypeOK, Datagram
<1>2. Fault => faults' \in 0 .. MaxFaults
  BY <1>1, FaultsCount
<1>3. CASE Expire
  <2>1. bound' \in BOOLEAN /\ UNCHANGED <<leg, down, keyed>> /\ faults' \in 0 .. MaxFaults
    BY <1>2, <1>3 DEF Expire
  <2> QED
    BY <1>1, <2>1 DEF GTypeOK, Datagram
<1>4. CASE ~Expire
  <2>1. UNCHANGED <<bound, keyed>>
    BY <1>4 DEF GatewayActs
  <2>2. leg' \in Leg /\ faults' \in 0 .. MaxFaults
    BY <1>1, <1>2, <1>4 DEF GatewayActs, Alert, PickUp, Refuse, Repeat, GivesUp,
                            HangsUp, Calls, Withdraws, Notify
  <2>3. down' \in Seq(Datagram) /\ Len(down') <= MaxDown
    <3>1. ASSUME NEW status \in Status, Sends(Reply(status, "INVITE"))
          PROVE  down' \in Seq(Datagram) /\ Len(down') <= MaxDown
      <4>1. Reply(status, "INVITE") \in Datagram
        BY ReplyType DEF Method
      <4> QED
        BY <1>1, <3>1, <4>1, SendsSays
    <3>2. ASSUME NEW method \in AnsweredMethod, Sends(Ask(method))
          PROVE  down' \in Seq(Datagram) /\ Len(down') <= MaxDown
      BY <1>1, <3>2, AskType, SendsSays
    <3>3. CASE Alert \/ PickUp \/ Refuse \/ Repeat
      BY <3>1, <3>3 DEF Alert, PickUp, Refuse, Repeat, Status
    <3>4. CASE GivesUp \/ HangsUp \/ Calls \/ Notify
      BY <3>2, <3>4 DEF GivesUp, HangsUp, Calls, Notify, AnsweredMethod
    <3>5. CASE Withdraws
      BY <1>1, <3>5 DEF Withdraws
    <3> QED
      BY <1>4, <3>3, <3>4, <3>5 DEF GatewayActs
  <2> QED
    BY <1>1, <2>1, <2>2, <2>3 DEF GTypeOK, Datagram
<1> QED
  BY <1>3, <1>4

LEMMA GTypeStep ==
  ASSUME TypeOK, GTypeOK, [GNext]_gvars
  PROVE  GTypeOK'
<1>1. /\ bound \in BOOLEAN /\ leg \in Leg
      /\ down \in Seq(Datagram) /\ Len(down) <= MaxDown
      /\ keyed \in Nonces \cup {""} /\ faults \in 0 .. MaxFaults
  BY DEF GTypeOK, Datagram
<1>2. ASSUME NEW rest \in Seq(Datagram), Len(rest) <= MaxDown, Exchange(rest),
             keyed' \in Nonces \cup {""}
      PROVE  GTypeOK'
  BY <1>2, ExchangeSays DEF GTypeOK, Datagram
<1>3. CASE GTx
  <2>1. keyed' \in Nonces \cup {""}
    BY <1>1, <1>3 DEF GTx, TypeOK
  <2> QED
    BY <1>1, <1>2, <1>3, <2>1 DEF GTx
<1>4. CASE GRx
  <2>1. keyed' \in Nonces \cup {""}
    BY <1>1, <1>4 DEF GRx
  <2>2. CASE Exchange(down)
    BY <1>1, <1>2, <2>1, <2>2
  <2>3. ASSUME NEW n \in 1 .. Len(down), Exchange(SubSeq(down, n + 1, Len(down)))
        PROVE  GTypeOK'
    BY <1>2, <2>1, <2>3, RestSays
  <2> QED
    BY <1>4, <2>2, <2>3 DEF GRx
<1>5. CASE StrayHangup
  <2>1. UNCHANGED <<bound, leg, down, keyed>> /\ faults' \in 0 .. MaxFaults
    BY <1>1, <1>5, FaultsCount DEF StrayHangup
  <2> QED
    BY <2>1 DEF GTypeOK
<1>6. CASE GRun \/ GRing \/ CallTimer \/ GClock \/ UNCHANGED gvars
  <2>1. UNCHANGED <<bound, leg, down, keyed, faults>>
    BY <1>6, GUnchanged DEF GRun, GRing, CallTimer, GClock, net
  <2> QED
    BY <2>1 DEF GTypeOK
<1>7. CASE GatewayActs
  BY <1>7, ActsType
<1> QED
  BY <1>3, <1>4, <1>5, <1>6, <1>7 DEF GNext

LEMMA GInitIsTyped == GInit => GTypeOK
<1>1. << >> \in Seq(Datagram) /\ Len(<< >>) = 0
  BY EmptySeq
<1>2. 0 \in 0 .. MaxFaults /\ 0 <= MaxDown
  BY GatewayAssumption
<1> QED
  BY <1>1, <1>2 DEF GInit, GTypeOK, Datagram, Leg

\* The types of the gateway's own variables, which the proofs below rest on.
LEMMA GTypeCorrect == GSpec => []GTypeOK
<1>1. GInit => TypeOK /\ GTypeOK
  BY GInitIsTyped, InitIsTyped DEF GInit
<1>2. TypeOK /\ GTypeOK /\ [GNext]_gvars => TypeOK' /\ GTypeOK'
  BY ClientOfGateway, TypeStep, GTypeStep
<1> QED
  BY <1>1, <1>2, PTL DEF GSpec

\* Refinement: with the gateway, the network and the owner's timer around it
\* the client makes no step that SipClient.tla does not allow.
THEOREM GatewayIsOpenWorld == GSpec => Spec
<1>1. GInit => Init
  BY DEF GInit
<1> QED
  BY <1>1, ClientOfGateway, GTypeCorrect, PTL DEF GSpec, Spec

\* So the registers of the client keep to each other, and an ACK matches its
\* INVITE, whatever this gateway sends and the network loses or delays.
THEOREM ClientIsSafe == GSpec => []IInv /\ AckMatchesInvite
BY GatewayIsOpenWorld, Inductive, AcksMatch, PTL

-----------------------------------------------------------------------------
(***************************************************************************)
(* What the steps of the client do to the state of a call.                 *)
(***************************************************************************)
Registering == {"IDLE", "REGISTER_UNAUTH", "REGISTER_AUTH"}

\* While a call rings or goes on tx() sends nothing but the ACK of CALL_START
\* and a hang-up, which leaves for IDLE.
LEMMA TxKeepsCall ==
  ASSUME TypeOK, TransientStatesSeeNoPacket, Tx
  PROVE  /\ state' \in {state, "IDLE"}
         /\ out'.method \in {"REGISTER", "CANCEL", "BYE"} => state' \in Registering
         /\ state' \in {"RINGING", "CALL_IN_PROGRESS"} => out' = NoMsg
         /\ state' = "CALL_START" => out' = Ack
<1> USE NoFields DEF CanSend, Registering
<1>1. CASE TxBlocked \/ TxSilent
  BY <1>1 DEF TxBlocked, TxSilent, TransientStatesSeeNoPacket
<1>2. CASE TxHangup
  BY <1>2 DEF TxHangup, SetState
<1>3. CASE TxRegister \/ TxRegisterAuth
  BY <1>3 DEF TxRegister, TxRegisterAuth
<1>4. CASE TxInvite
  <2>1. out'.method = "INVITE" /\ state' = state /\ state = "INVITE_UNAUTH"
    BY <1>4 DEF TxInvite, Invite, Request
  <2> QED
    BY <2>1
<1>5. CASE TxInviteAuth
  <2>1. out'.method = "INVITE" /\ state' = state /\ state = "INVITE_AUTH"
    BY <1>5 DEF TxInviteAuth, Invite, Request
  <2> QED
    BY <2>1
<1>6. CASE TxAck \/ TxCancelledAck
  <2>1. Ack.method = "ACK"
    BY DEF Ack, Request
  <2> QED
    BY <1>6, <2>1 DEF TxAck, TxCancelledAck
<1> QED
  BY <1>1, <1>2, <1>3, <1>4, <1>5, <1>6 DEF Tx

LEMMA QuietKeepsCall ==
  ASSUME TypeOK, RxQuiet
  PROVE  /\ state \in Registering => state' = state
         /\ state' \in {"RINGING", "CALL_START"} => state' = state
         /\ state' = "CALL_IN_PROGRESS" => state \in {"CALL_START", "CALL_IN_PROGRESS"}
<1> USE DEF Registering
<1>1. CASE RxErrorWaits \/ RxErrorOver
  BY <1>1 DEF RxErrorWaits, RxErrorOver
<1>2. CASE RxDial \/ RxAdvance
  BY <1>2 DEF RxDial, RxAdvance
<1>3. CASE RxOpenWindow \/ RxCollect \/ RxNothing
  BY <1>3 DEF RxOpenWindow, RxCollect, RxNothing
<1> QED
  BY <1>1, <1>2, <1>3 DEF RxQuiet

\* A packet starts a call by a 200 in RINGING, or by an INVITE.
LEMMA PacketStartsCall ==
  ASSUME TypeOK, TransientStatesSeeNoPacket, NEW p \in Packet, RxPacket(p)
  PROVE  /\ state' = "CALL_START" =>
              \/ state = "RINGING" /\ p.status = "OK_200" /\ out' = NoMsg
              \/ state = "REGISTERED" /\ p.method = "INVITE"
         /\ state' = "CALL_IN_PROGRESS" =>
              state = "CALL_IN_PROGRESS" /\ p.method # "BYE"
<1>1. state # "CALL_START" /\ (HandleServerError(p) \/ HandleByState(p))
  BY DEF RxPacket, TransientStatesSeeNoPacket
<1> USE <1>1 DEF SetState, Become, Ignore, Fail
<1>2. CASE HandleServerError(p)
  BY <1>2 DEF HandleServerError
<1>3. CASE HandleRegistering(p) \/ HandleRegisterReply(p) \/ HandleRegistered(p)
  BY <1>3 DEF HandleRegistering, HandleRegisterReply, HandleRegistered
<1>4. CASE HandleInviteReply(p) \/ HandleInviteAuthReply(p)
  BY <1>4 DEF HandleInviteReply, HandleInviteAuthReply, StartRinging
<1>5. CASE \/ HandlePickup(p) \/ HandleRequestCancelled(p)
           \/ HandleRechallenge(p) \/ HandleDecline(p)
  BY <1>5 DEF HandlePickup, HandleRequestCancelled, HandleRechallenge,
              HandleDecline
<1>6. CASE HandleHungUp(p) \/ HandleCancelReply(p) \/ HandleUnexpected(p)
  BY <1>6 DEF HandleHungUp, HandleCancelReply, HandleUnexpected, NoReaction
<1> QED
  BY <1>2, <1>3, <1>4, <1>5, <1>6 DEF HandleByState

(***************************************************************************)
(* With no late replies rx() comes back with nothing done to the socket,   *)
(* or parses the first datagram of a socket it empties.                    *)
(***************************************************************************)
GQuietStep == /\ RxQuietStep /\ UNCHANGED <<leg, down, faults>>
              /\ WindowOver => down = << >>
GPacketStep ==
  /\ down # << >> /\ down[1] \in Range(down) /\ down[1] \in Datagram
  /\ RxPacketStep(down[1].packet)
  /\ Range(down') = {}
  /\ faults' = faults => down' = << >> /\ leg' = LegAfter(out', keyed')

LEMMA WindowCases ==
  ASSUME ~Late, GTypeOK, GRx
  PROVE  GQuietStep \/ GPacketStep
<1>1. CASE (WindowOver => Takes(0)) /\ RxQuiet /\ Exchange(down)
  <2>1. out' = NoMsg
    BY <1>1 DEF RxQuiet
  <2>2. WindowOver => down = << >>
    <3>1. down \in Seq(Datagram)
      BY DEF GTypeOK, Datagram
    <3> QED
      BY <1>1, <3>1 DEF Takes
  <2> QED
    BY <1>1, <2>1, <2>2 DEF GRx, Exchange, GQuietStep, RxQuietStep
<1>2. ASSUME NEW n \in 1 .. Len(down), Takes(n), RxPacket(down[1].packet),
             Exchange(SubSeq(down, n + 1, Len(down)))
      PROVE  GPacketStep
  <2> DEFINE rest == SubSeq(down, n + 1, Len(down))
  <2>1. down[1] \in Datagram /\ down # << >> /\ down[1] \in Range(down)
    <3>1. down \in Seq(Datagram)
      BY DEF GTypeOK, Datagram
    <3>2. Len(down) \in Nat /\ DOMAIN down = 1 .. Len(down)
      BY <3>1
    <3>3. 1 \in 1 .. Len(down)
      BY <3>2
    <3>4. down # << >>
      BY <3>3, EmptySeq
    <3>5. down[1] \in Range(down)
      BY <3>2, <3>3 DEF Range
    <3> QED
      BY <3>4, <3>5, RestSays
  <2>2. rest = << >>
    BY <1>2, RestSays DEF Takes
  <2>3. Answer(out', keyed') = << >>
    <3>1. down[1].packet \in Packet
      BY <2>1 DEF Datagram
    <3>2. out' \in {NoMsg, Ok, Ack}
      BY <1>2, <3>1, PacketSends
    <3>3. Ack.method = "ACK"
      BY DEF Ack, Request
    <3>4. out'.method \in {"none", "200 OK", "ACK"}
      BY <3>2, <3>3, NoFields
    <3> QED
      BY <3>4, AnswerSays
  <2>4. << >> \in Seq(Datagram) /\ Len(<< >>) <= MaxDown /\ Range(<< >>) = {}
    BY EmptySeq, EmptyRange, GatewayAssumption
  <2>5. /\ Range(down') \subseteq Range(<< >>) \cup Range(<< >>)
        /\ faults' = faults => down' = << >> /\ leg' = LegAfter(out', keyed')
    BY <1>2, <2>2, <2>3, <2>4, ExchangeSays
  <2> QED
    BY <1>2, <2>1, <2>4, <2>5 DEF GRx, GPacketStep, RxPacketStep
<1> QED
  BY <1>1, <1>2 DEF GRx

\* The steps that neither tx() nor rx() makes leave the client where it is.
OtherStep ==
  GRun \/ GRing \/ CallTimer \/ StrayHangup \/ GClock \/ UNCHANGED gvars

LEMMA OtherKeeps ==
  ASSUME GTypeOK, OtherStep
  PROVE  /\ UNCHANGED <<state, leg, down>>
         /\ pc' = "rx" => pc = "rx"
<1>1. CASE GRun \/ GRing \/ CallTimer \/ StrayHangup
  BY <1>1 DEF GRun, GRing, CallTimer, StrayHangup, Run, RequestRing,
              RequestCancel, net
<1>2. CASE GClock
  BY <1>2 DEF GClock, WindowElapses, BackoffElapses, net
<1>3. CASE UNCHANGED gvars
  BY <1>3, GUnchanged, Unchanged
<1> QED
  BY <1>1, <1>2, <1>3 DEF OtherStep

LEMMA GStepCases ==
  ASSUME [GNext]_gvars
  PROVE  GTx \/ GRx \/ OtherStep \/ GatewayActs
BY DEF GNext, OtherStep

-----------------------------------------------------------------------------
(***************************************************************************)
(* A pick-up is real.  A 200 about another request than the INVITE is out  *)
(* only while the client registers: each window empties the socket, and    *)
(* what sends another request stays in, or goes back to, the registration. *)
(***************************************************************************)
PickupInv ==
  \A d \in Range(down) :
    d.packet.status = "OK_200" => d.about = "INVITE" \/ state \in Registering

LEMMA PickupStep ==
  ASSUME ~Late, IInv, GTypeOK, PickupInv, [GNext]_gvars
  PROVE  PickupInv'
<1> USE DEF PickupInv
<1>1. TypeOK /\ TransientStatesSeeNoPacket /\ down \in Seq(Datagram)
      /\ Len(down) <= MaxDown
  BY DEF IInv, GTypeOK, Datagram
<1>2. CASE GTx
  <2>1. /\ state' \in {state, "IDLE"}
        /\ out'.method \in {"REGISTER", "CANCEL", "BYE"} => state' \in Registering
    BY <1>1, <1>2, TxKeepsCall DEF GTx
  <2>2. Range(down') \subseteq Range(down) \cup Range(Answer(out', keyed'))
    BY <1>1, <1>2, ExchangeSays DEF GTx
  <2>3. ASSUME NEW d \in Range(Answer(out', keyed')), d.packet.status = "OK_200"
        PROVE  d.about = "INVITE" \/ state' \in Registering
    <3>1. d.about = out'.method
      BY <2>3, AnswerSays
    <3>2. out'.method \in {"REGISTER", "INVITE", "CANCEL", "BYE"}
      BY <2>3, AnswerSays DEF Range
    <3> QED
      BY <2>1, <3>1, <3>2
  <2>4. state \in Registering => state' \in Registering
    BY <2>1 DEF Registering
  <2> QED
    BY <2>2, <2>3, <2>4
<1>3. CASE GQuietStep
  BY <1>1, <1>3, QuietKeepsCall DEF GQuietStep, RxQuietStep
<1>4. CASE GPacketStep
  BY <1>4 DEF GPacketStep
<1>5. CASE OtherStep
  BY <1>5, OtherKeeps
<1>6. CASE GatewayActs
  <2>1. UNCHANGED state
    BY <1>6, Unchanged DEF GatewayActs, Expire
  <2>2. ASSUME NEW reply \in Datagram, Sends(reply),
               reply.packet.status = "OK_200" => reply.about = "INVITE"
        PROVE  PickupInv'
    BY <1>1, <2>1, <2>2, SendsSays
  <2>3. ASSUME NEW status \in Status, Sends(Reply(status, "INVITE"))
        PROVE  PickupInv'
    <3>1. "INVITE" \in Method
      BY DEF Method
    <3> QED
      BY <2>2, <2>3, <3>1, ReplyType
  <2>4. ASSUME NEW method \in AnsweredMethod, Sends(Ask(method))
        PROVE  PickupInv'
    BY <2>2, <2>4, AskType
  <2>5. CASE Alert \/ PickUp \/ Refuse \/ Repeat
    BY <2>3, <2>5 DEF Alert, PickUp, Refuse, Repeat, Status
  <2>6. CASE GivesUp \/ HangsUp \/ Calls \/ Notify
    BY <2>4, <2>6 DEF GivesUp, HangsUp, Calls, Notify, AnsweredMethod
  <2>7. CASE Withdraws \/ Expire
    BY <2>1, <2>7 DEF Withdraws, Expire
  <2> QED
    BY <1>6, <2>5, <2>6, <2>7 DEF GatewayActs
<1> QED
  BY <1>2, <1>3, <1>4, <1>5, <1>6, WindowCases, GStepCases

LEMMA PickupAction ==
  ASSUME ~Late, IInv, GTypeOK, PickupInv, [GNext]_gvars,
         state = "RINGING", state' = "CALL_START"
  PROVE  down[1].about = "INVITE"
<1>1. TypeOK /\ TransientStatesSeeNoPacket
  BY DEF IInv
<1>2. CASE GTx
  BY <1>1, <1>2, TxKeepsCall DEF GTx
<1>3. CASE GQuietStep
  BY <1>1, <1>3, QuietKeepsCall DEF GQuietStep, RxQuietStep
<1>4. CASE GPacketStep
  <2>1. down[1] \in Range(down) /\ down[1].packet \in Packet
    BY <1>4 DEF GPacketStep, Datagram
  <2>2. down[1].packet.status = "OK_200"
    BY <1>1, <1>4, <2>1, PacketStartsCall DEF GPacketStep, RxPacketStep
  <2> QED
    BY <2>1, <2>2 DEF PickupInv, Registering
<1>5. CASE OtherStep
  BY <1>5, OtherKeeps
<1>6. CASE GatewayActs
  BY <1>6, Unchanged DEF GatewayActs, Expire
<1> QED
  BY <1>2, <1>3, <1>4, <1>5, <1>6, WindowCases, GStepCases

\* When no reply comes later than its window, the 200 that takes a ringing
\* client into the call is the answer to its INVITE, whatever was lost, sent
\* twice or sent unasked before, and for any number of such faults.
THEOREM PickupsAreReal ==
  ASSUME ~Late PROVE GSpec => PickupIsReal
<1>1. GInit => PickupInv
  BY EmptyRange DEF GInit, PickupInv
<1>2. IInv /\ GTypeOK /\ PickupInv /\ [GNext]_gvars => PickupInv'
  BY PickupStep
<1>3. IInv /\ GTypeOK /\ PickupInv /\ [GNext]_gvars =>
        [state = "RINGING" /\ state' = "CALL_START"
           => down[1].about = "INVITE"]_gvars
  BY PickupAction
<1> QED
  BY <1>1, <1>2, <1>3, GTypeCorrect, ClientIsSafe, PTL DEF GSpec, PickupIsReal

-----------------------------------------------------------------------------
(***************************************************************************)
(* While nothing went wrong: no call is offered to the client; a 200 that  *)
(* waits for a ringing client is the one the gateway picked up with; and   *)
(* from that 200 on the two sides move together, until a BYE waits for the *)
(* client.                                                                 *)
(***************************************************************************)
NoneOffered == \A d \in Range(down) : d.packet.method # "INVITE"

PickedUp == state = "RINGING" /\ (\E d \in Range(down) : d.packet.status = "OK_200")
              => leg = "answered"

Sealed ==
  state \in {"CALL_START", "CALL_IN_PROGRESS"} =>
    \/ state = "CALL_START" /\ pc # "rx" /\ leg = "answered" /\ down = << >>
    \/ leg = "talking" /\ down = << >>
    \/ leg = "none" /\ down = <<Ask("BYE")>>

SharedInv == faults = 0 => NoneOffered /\ PickedUp /\ Sealed

\* What went wrong is not forgotten.
LEMMA FaultsStay ==
  ASSUME GTypeOK, [GNext]_gvars, faults' = 0
  PROVE  faults = 0 /\ ~Fault
<1>1. faults \in Nat
  <2>1. MaxFaults \in Nat /\ faults \in 0 .. MaxFaults
    BY GatewayAssumption DEF GTypeOK
  <2> QED
    BY <2>1
<1>2. \A rest \in Seq(Datagram) :
        Exchange(rest) => faults' = faults \/ faults' = faults + 1
  BY DEF Exchange, Reaches, Lost, Fault
<1>3. down \in Seq(Datagram)
  BY DEF GTypeOK, Datagram
<1>4. faults' = faults \/ faults' = faults + 1
  <2>1. CASE GTx
    BY <1>2, <1>3, <2>1 DEF GTx
  <2>2. CASE GRx
    BY <1>2, <1>3, <2>2, RestSays DEF GRx
  <2>3. CASE OtherStep
    BY <2>3, GUnchanged DEF OtherStep, GRun, GRing, CallTimer, StrayHangup,
                            GClock, Fault, net
  <2>4. CASE GatewayActs
    BY <2>4 DEF GatewayActs, Expire, Alert, PickUp, Refuse, Repeat, GivesUp,
                HangsUp, Calls, Withdraws, Notify, Fault
  <2> QED
    BY <2>1, <2>2, <2>3, <2>4, GStepCases
<1> QED
  BY <1>1, <1>4 DEF Fault

\* tx() in a call: the ACK makes the gateway talk.
LEMMA SharedTx ==
  ASSUME IInv, GTypeOK, NoneOffered, PickedUp, Sealed, GTx, faults' = faults
  PROVE  NoneOffered' /\ PickedUp' /\ Sealed'
<1>1. TypeOK /\ TransientStatesSeeNoPacket /\ down \in Seq(Datagram)
      /\ Len(down) <= MaxDown
  BY DEF IInv, GTypeOK, Datagram
<1>2. /\ state' \in {state, "IDLE"}
      /\ state' \in {"RINGING", "CALL_IN_PROGRESS"} => out' = NoMsg
      /\ state' = "CALL_START" => out' = Ack
  BY <1>1, TxKeepsCall DEF GTx
<1>3. /\ leg' = LegAfter(out', keyed')
      /\ Answer(out', keyed') = << >> => down' = down
      /\ Range(down') \subseteq Range(down) \cup Range(Answer(out', keyed'))
  BY <1>1, ExchangeSays DEF GTx
<1>4. NoneOffered'
  BY <1>3, AnswerSays DEF NoneOffered
<1>5. ASSUME out' = NoMsg
      PROVE  leg' = leg /\ down' = down
  BY <1>3, <1>5, NoFields, AnswerSays, ByesAreVain DEF LegAfter
<1>6. PickedUp'
  BY <1>2, <1>5 DEF PickedUp
<1>7. CASE state' = "CALL_START"
  <2>1. out'.method = "ACK"
    <3>1. Ack.method = "ACK"
      BY DEF Ack, Request
    <3> QED
      BY <1>2, <1>7, <3>1
  <2>2. /\ leg' = IF leg = "answered" THEN "talking" ELSE leg
        /\ down' = down /\ state = "CALL_START"
    BY <1>2, <1>3, <1>7, <2>1, AnswerSays, ByesAreVain DEF LegAfter, SetState
  <2> QED
    BY <1>4, <1>6, <1>7, <2>2 DEF Sealed, Ask
<1>8. CASE state' # "CALL_START"
  BY <1>2, <1>4, <1>5, <1>6, <1>8 DEF Sealed, Ask
<1> QED
  BY <1>7, <1>8

\* rx() with a packet: a pick-up finds the gateway waiting for the ACK, and
\* nothing but a BYE reaches a client in a call.
LEMMA SharedPacket ==
  ASSUME IInv, GTypeOK, NoneOffered, PickedUp, Sealed, GPacketStep, faults' = faults
  PROVE  NoneOffered' /\ PickedUp' /\ Sealed'
<1>1. /\ TypeOK /\ TransientStatesSeeNoPacket
      /\ down' = << >> /\ leg' = LegAfter(out', keyed') /\ pc' = "caller"
      /\ down[1] \in Range(down) /\ down[1].packet \in Packet
      /\ RxPacket(down[1].packet) /\ down # << >> /\ Range(down') = {}
  BY DEF IInv, GPacketStep, RxPacketStep, Datagram
<1>2. NoneOffered' /\ PickedUp'
  BY <1>1 DEF NoneOffered, PickedUp
<1>3. CASE state' = "CALL_START"
  <2>1. state = "RINGING" /\ down[1].packet.status = "OK_200" /\ out' = NoMsg
    BY <1>1, <1>3, PacketStartsCall DEF NoneOffered
  <2>2. leg = "answered"
    BY <1>1, <2>1 DEF PickedUp
  <2>3. leg' = leg
    BY <1>1, <2>1, NoFields, ByesAreVain DEF LegAfter
  <2>4. Sealed'
    BY <1>1, <1>3, <2>2, <2>3 DEF Sealed
  <2> QED
    BY <1>2, <2>4
<1>4. CASE state' = "CALL_IN_PROGRESS"
  <2>1. state = "CALL_IN_PROGRESS" /\ down[1].packet.method # "BYE"
    BY <1>1, <1>4, PacketStartsCall
  <2>2. down = <<Ask("BYE")>>
    BY <1>1, <2>1 DEF Sealed
  <2>3. down[1] = Ask("BYE") /\ Ask("BYE").packet.method = "BYE"
    BY <2>2, AskType DEF AnsweredMethod
  <2> QED
    BY <2>1, <2>3
<1>5. CASE state' \notin {"CALL_START", "CALL_IN_PROGRESS"}
  BY <1>2, <1>5 DEF Sealed
<1> QED
  BY <1>3, <1>4, <1>5

\* The gateway by itself: it hangs up a call that both sides are in.
LEMMA SharedActs ==
  ASSUME GTypeOK, NoneOffered, PickedUp, Sealed, GatewayActs, ~Fault
  PROVE  NoneOffered' /\ PickedUp' /\ Sealed'
<1> USE DEF Sealed, PickedUp, NoneOffered
<1>1. down \in Seq(Datagram)
  BY DEF GTypeOK, Datagram
<1>2. UNCHANGED <<state, pc>>
  BY Unchanged DEF GatewayActs, Expire
<1>3. ASSUME NEW status \in Status \ {"OK_200"}, Sends(Reply(status, "INVITE")),
             leg = "ringing"
      PROVE  NoneOffered' /\ PickedUp' /\ Sealed'
  <2>1. /\ Reply(status, "INVITE") \in Datagram
        /\ Reply(status, "INVITE").packet.method = "UNKNOWN"
        /\ Reply(status, "INVITE").packet.status = status
    BY <1>3, ReplyType DEF Method
  <2>2. Range(down') \subseteq Range(down) \cup {Reply(status, "INVITE")}
    BY <1>1, <1>3, <2>1, SendsSays
  <2> QED
    BY <1>2, <1>3, <2>1, <2>2
<1>4. CASE Alert \/ Refuse
  BY <1>3, <1>4 DEF Alert, Refuse, Status
<1>5. CASE PickUp
  <2>1. /\ Reply("OK_200", "INVITE") \in Datagram
        /\ Reply("OK_200", "INVITE").packet.method = "UNKNOWN"
    BY ReplyType DEF Method, Status
  <2>2. Range(down') \subseteq Range(down) \cup {Reply("OK_200", "INVITE")}
    BY <1>1, <1>5, <2>1, SendsSays DEF PickUp
  <2> QED
    BY <1>2, <1>5, <2>1, <2>2 DEF PickUp
<1>6. CASE HangsUp
  <2>1. /\ Ask("BYE") \in Datagram
        /\ Ask("BYE").packet.method = "BYE" /\ Ask("BYE").packet.status = "UNKNOWN"
    BY AskType DEF AnsweredMethod
  <2>2. /\ Range(down') \subseteq Range(down) \cup {Ask("BYE")}
        /\ down = << >> => down' = <<Ask("BYE")>>
    BY <1>1, <1>6, <2>1, SendsSays DEF HangsUp
  <2>3. Ask("BYE")' = Ask("BYE")
    BY DEF Ask
  <2> QED
    BY <1>2, <1>6, <2>1, <2>2, <2>3 DEF HangsUp
<1>7. CASE Withdraws
  BY <1>2, <1>7 DEF Withdraws
<1> QED
  BY <1>4, <1>5, <1>6, <1>7
  DEF GatewayActs, Repeat, GivesUp, Calls, Notify, Expire

LEMMA SharedStep ==
  ASSUME ~Late, IInv, GTypeOK, SharedInv, [GNext]_gvars
  PROVE  SharedInv'
<1> SUFFICES ASSUME faults' = 0 PROVE NoneOffered' /\ PickedUp' /\ Sealed'
  BY DEF SharedInv
<1>1. faults' = faults /\ ~Fault /\ NoneOffered /\ PickedUp /\ Sealed
  BY FaultsStay DEF SharedInv
<1>2. CASE GTx
  BY <1>1, <1>2, SharedTx
<1>3. CASE GQuietStep
  <2>1. /\ state' \in {"RINGING", "CALL_START"} => state' = state
        /\ state' = "CALL_IN_PROGRESS" => state \in {"CALL_START", "CALL_IN_PROGRESS"}
    BY <1>3, QuietKeepsCall DEF GQuietStep, RxQuietStep, IInv
  <2>2. pc = "rx" /\ UNCHANGED <<leg, down>>
    BY <1>3 DEF GQuietStep, RxQuietStep
  <2>3. NoneOffered' /\ PickedUp'
    BY <1>1, <2>1, <2>2 DEF NoneOffered, PickedUp
  <2> QED
    BY <1>1, <2>1, <2>2, <2>3 DEF Sealed, Ask
<1>4. CASE GPacketStep
  BY <1>1, <1>4, SharedPacket
<1>5. CASE OtherStep
  BY <1>1, <1>5, OtherKeeps DEF NoneOffered, PickedUp, Sealed, Ask
<1>6. CASE GatewayActs
  BY <1>1, <1>6, SharedActs
<1> QED
  BY <1>2, <1>3, <1>4, <1>5, <1>6, WindowCases, GStepCases

LEMMA SharedAlways ==
  ASSUME ~Late PROVE GSpec => []SharedInv
<1>1. GInit => SharedInv
  BY EmptyRange DEF GInit, Init, SharedInv, NoneOffered, PickedUp, Sealed
<1>2. IInv /\ GTypeOK /\ SharedInv /\ [GNext]_gvars => SharedInv'
  BY SharedStep
<1> QED
  BY <1>1, <1>2, GTypeCorrect, ClientIsSafe, PTL DEF GSpec

\* As long as nothing is lost, repeated or sent unasked, and no reply is late,
\* a client in a call is in a call with the gateway, or the BYE that ends the
\* call is the one thing that waits for it.
THEOREM CallsAreShared ==
  ASSUME ~Late PROVE GSpec => []CallIsShared
<1>1. SharedInv => CallIsShared
  <2> SUFFICES ASSUME Sealed, state = "CALL_IN_PROGRESS", leg # "talking"
               PROVE  \E i \in DOMAIN down : down[i].packet.method = "BYE"
    BY DEF SharedInv, CallIsShared
  <2>1. down = <<Ask("BYE")>>
    BY DEF Sealed
  <2>2. 1 \in DOMAIN down /\ down[1] = Ask("BYE")
    BY <2>1
  <2> QED
    BY <2>2, AskType DEF AnsweredMethod
<1> QED
  BY <1>1, SharedAlways, PTL


-----------------------------------------------------------------------------
(***************************************************************************)
(* A registration is real.  A gateway that does not know the client has no *)
(* call of it, and sends it nothing but challenges and refusals, so that   *)
(* the client does not leave the states in which it registers.             *)
(***************************************************************************)
Outside == Registering \cup {"ERROR"}

BoundInv ==
  ~bound => /\ leg = "none" /\ state \in Outside
            /\ \A d \in Range(down) : d.packet.status # "OK_200"

LEMMA UnboundExchange ==
  ASSUME GTypeOK, NEW rest \in Seq(Datagram), Exchange(rest), ~bound', leg = "none"
  PROVE  /\ ~bound /\ leg' = "none"
         /\ \A d \in Range(down') : d.packet.status = "OK_200" => d \in Range(rest)
<1> DEFINE answer == Answer(out', keyed')
<1>1. CASE down' = rest /\ UNCHANGED <<bound, leg>>
  BY <1>1
<1>2. CASE Reaches(out', rest)
  <2>1. ~bound /\ ~(out'.method = "REGISTER" /\ Good(out', keyed'))
    BY <1>2 DEF Reaches
  <2>2. leg' = "none"
    BY <1>2, <2>1, ByesAreVain DEF Reaches, LegAfter
  <2>3. \A d \in Range(answer) : d.packet.status # "OK_200"
    <3>1. \/ answer = << >>
          \/ \E d : d.packet.status # "OK_200" /\ answer = << d >>
      <4>1. CASE out'.method = "REGISTER"
        <5>1. answer = << Reply("UNAUTHORIZED_401", "REGISTER") >>
          BY <2>1, <4>1 DEF Answer
        <5> QED
          BY <5>1 DEF Reply
      <4>2. CASE out'.method = "INVITE"
        <5>1. \/ answer = << Reply("UNAUTHORIZED_401", "INVITE") >>
              \/ answer = << Reply("UNKNOWN", "INVITE") >>
          BY <2>1, <4>2 DEF Answer
        <5> QED
          BY <5>1 DEF Reply
      <4>3. CASE out'.method \in {"CANCEL", "BYE"}
        <5>1. \/ answer = << Reply("UNKNOWN", "CANCEL") >>
              \/ answer = << Reply("UNKNOWN", "BYE") >>
          BY <4>3, ByesAreVain DEF Answer
        <5> QED
          BY <5>1 DEF Reply
      <4>4. CASE out'.method \notin {"REGISTER", "INVITE", "CANCEL", "BYE"}
        BY <4>4 DEF Answer
      <4> QED
        BY <4>1, <4>2, <4>3, <4>4
    <3> HIDE DEF answer
    <3>2. ASSUME NEW d, answer = << d >> PROVE Range(answer) = {d}
      BY <3>2 DEF Range
    <3> QED
      BY <3>1, <3>2, EmptyRange
  <2>4. answer \in Seq(Datagram)
    BY AnswerSays
  <2> HIDE DEF answer
  <2>5. Range(Keep(rest \o answer)) \subseteq Range(rest) \cup Range(answer)
    <3>1. rest \o answer \in Seq(Datagram)
      BY <2>4, ConcatProperties
    <3>2. Range(rest \o answer) = Range(rest) \cup Range(answer)
      BY <2>4, RangeConcatenation
    <3> QED
      BY <3>1, <3>2, KeepSays
  <2>6. down' = Keep(rest \o answer) \/ down' = rest
    BY <1>2 DEF Reaches, answer
  <2> QED
    BY <2>1, <2>2, <2>3, <2>5, <2>6
<1> QED
  BY <1>1, <1>2 DEF Exchange, Lost

LEMMA OutsideStays ==
  ASSUME TypeOK, state \in Outside
  PROVE  /\ RxQuiet => state' \in Outside
         /\ \A p \in Packet : RxPacket(p) /\ p.status # "OK_200" => state' \in Outside
<1> USE DEF Outside, Registering
<1>1. ASSUME RxQuiet PROVE state' \in Outside
  <2>1. CASE RxErrorWaits \/ RxErrorOver
    BY <2>1 DEF RxErrorWaits, RxErrorOver
  <2>2. CASE RxDial \/ RxAdvance
    BY <2>2 DEF RxDial, RxAdvance
  <2>3. CASE RxOpenWindow \/ RxCollect \/ RxNothing
    BY <2>3 DEF RxOpenWindow, RxCollect, RxNothing
  <2> QED
    BY <1>1, <2>1, <2>2, <2>3 DEF RxQuiet
<1>2. ASSUME NEW p \in Packet, RxPacket(p), p.status # "OK_200" PROVE state' \in Outside
  <2> USE DEF SetState, Become, Ignore, Fail
  <2>1. HandleServerError(p) \/ HandleByState(p)
    BY <1>2 DEF RxPacket
  <2>2. CASE HandleServerError(p)
    BY <2>2 DEF HandleServerError
  <2>3. CASE HandleRegistering(p) \/ HandleRegisterReply(p) \/ HandleRegistered(p)
    BY <1>2, <2>3 DEF HandleRegistering, HandleRegisterReply, HandleRegistered
  <2>4. CASE HandleInviteReply(p) \/ HandleInviteAuthReply(p)
    BY <2>4 DEF HandleInviteReply, HandleInviteAuthReply
  <2>5. CASE \/ HandlePickup(p) \/ HandleRequestCancelled(p)
             \/ HandleRechallenge(p) \/ HandleDecline(p)
    BY <2>5 DEF HandlePickup, HandleRequestCancelled, HandleRechallenge, HandleDecline
  <2>6. CASE HandleHungUp(p) \/ HandleCancelReply(p) \/ HandleUnexpected(p)
    BY <2>6 DEF HandleHungUp, HandleCancelReply, HandleUnexpected, NoReaction
  <2> QED
    BY <2>1, <2>2, <2>3, <2>4, <2>5, <2>6 DEF HandleByState
<1> QED
  BY <1>1, <1>2

LEMMA BoundStep ==
  ASSUME IInv, GTypeOK, BoundInv, [GNext]_gvars, [~Expire]_gvars
  PROVE  BoundInv'
<1> SUFFICES ASSUME ~bound'
             PROVE  /\ leg' = "none" /\ state' \in Outside
                    /\ \A d \in Range(down') : d.packet.status # "OK_200"
  BY DEF BoundInv
<1>1. /\ TypeOK /\ TransientStatesSeeNoPacket
      /\ down \in Seq(Datagram) /\ Len(down) <= MaxDown
      /\ leg \in Leg /\ bound \in BOOLEAN
  BY DEF IInv, GTypeOK, Datagram
<1>2. CASE GTx
  <2>1. Exchange(down) /\ Tx
    BY <1>2 DEF GTx
  <2>2. ~bound
    BY <2>1 DEF Exchange, Reaches, Lost
  <2>3. state' \in Outside
    BY <1>1, <2>1, <2>2, TxKeepsCall DEF BoundInv, Outside, Registering
  <2> QED
    BY <1>1, <2>1, <2>2, <2>3, UnboundExchange DEF BoundInv
<1>3. CASE GRx
  <2>1. ASSUME RxQuiet, Exchange(down)
        PROVE  /\ leg' = "none" /\ state' \in Outside
               /\ \A d \in Range(down') : d.packet.status # "OK_200"
    <3>1. ~bound
      BY <2>1 DEF Exchange, Reaches, Lost
    <3> QED
      BY <1>1, <2>1, <3>1, OutsideStays, UnboundExchange DEF BoundInv
  <2>2. ASSUME NEW n \in 1 .. Len(down), RxPacket(down[1].packet),
               Exchange(SubSeq(down, n + 1, Len(down)))
        PROVE  /\ leg' = "none" /\ state' \in Outside
               /\ \A d \in Range(down') : d.packet.status # "OK_200"
    <3>1. ~bound
      BY <2>2 DEF Exchange, Reaches, Lost
    <3>2. leg = "none" /\ state \in Outside
          /\ \A d \in Range(down) : d.packet.status # "OK_200"
      BY <3>1 DEF BoundInv
    <3>3. down[1] \in Datagram /\ down[1] \in Range(down)
      <4>1. 1 \in DOMAIN down
        BY <1>1
      <4> QED
        BY <4>1, RestSays DEF Range
    <3>4. state' \in Outside
      <4>1. down[1].packet \in Packet /\ down[1].packet.status # "OK_200"
        BY <3>2, <3>3 DEF Datagram
      <4> QED
        BY <1>1, <2>2, <3>2, <4>1, OutsideStays
    <3> DEFINE rest == SubSeq(down, n + 1, Len(down))
    <3>5. rest \in Seq(Datagram) /\ Range(rest) \subseteq Range(down)
      BY RestSays
    <3>6. Exchange(rest)
      BY <2>2
    <3> HIDE DEF rest
    <3>7. leg' = "none" /\ \A d \in Range(down') : d.packet.status = "OK_200" => d \in Range(rest)
      BY <3>2, <3>5, <3>6, UnboundExchange
    <3> QED
      BY <3>2, <3>4, <3>5, <3>7
  <2> QED
    BY <1>3, <2>1, <2>2 DEF GRx
<1>4. CASE OtherStep
  <2>1. bound' = bound
    BY <1>4, GUnchanged DEF OtherStep, GRun, GRing, CallTimer, StrayHangup, GClock, net
  <2> QED
    BY <1>4, <2>1, OtherKeeps DEF BoundInv
<1>5. CASE GatewayActs
  <2>1. CASE Expire
    <3>1. UNCHANGED gvars
      BY <2>1
    <3> QED
      BY <3>1, GUnchanged, Unchanged DEF BoundInv
  <2>2. CASE ~Expire
    <3>1. /\ Alert \/ PickUp \/ Refuse \/ Repeat \/ GivesUp \/ HangsUp \/ Calls
             \/ Withdraws \/ Notify
          /\ UNCHANGED <<vars, bound, keyed>>
      BY <1>5, <2>2 DEF GatewayActs
    <3>2. ~bound /\ leg = "none" /\ state \in Outside
          /\ \A d \in Range(down) : d.packet.status # "OK_200"
      BY <3>1 DEF BoundInv
    <3>3. Notify
      BY <3>1, <3>2 DEF Alert, PickUp, Refuse, Repeat, GivesUp, HangsUp, Calls, Withdraws
    <3>4. state' = state
      BY <3>1, Unchanged
    <3>5. Ask("NOTIFY") \in Datagram /\ Ask("NOTIFY").packet.status = "UNKNOWN"
      BY AskType DEF AnsweredMethod
    <3>6. leg' = leg /\ Range(down') \subseteq Range(down) \cup {Ask("NOTIFY")}
      BY <1>1, <3>3, <3>5, SendsSays DEF Notify
    <3> QED
      BY <3>2, <3>4, <3>5, <3>6
  <2> QED
    BY <2>1, <2>2
<1> QED
  BY <1>2, <1>3, <1>4, <1>5, GStepCases

\* Unless a registration expires, a client that the gateway does not know is
\* one that registers or waits in ERROR, and has no call there: whatever is
\* lost, late or repeated, REGISTERED is never reached, and no call made, on a
\* 200 that was meant for something else.
THEOREM RegistrationsAreReal ==
  GSpec /\ [][~Expire]_gvars => [](~bound => leg = "none" /\ state \in Outside)
<1>1. GInit => BoundInv
  BY EmptyRange DEF GInit, Init, BoundInv, Outside, Registering
<1>2. IInv /\ GTypeOK /\ BoundInv /\ [GNext]_gvars /\ [~Expire]_gvars => BoundInv'
  BY BoundStep
<1>3. BoundInv => (~bound => leg = "none" /\ state \in Outside)
  BY DEF BoundInv
<1> QED
  BY <1>1, <1>2, <1>3, GTypeCorrect, ClientIsSafe, PTL DEF GSpec

-----------------------------------------------------------------------------
(***************************************************************************)
(* The other direction: a call the gateway has is one the client is in,    *)
(* unless a hang-up was sent after the pick-up, which is in vain.  The     *)
(* inductive invariant follows the INVITE with the digest to its TRYING,   *)
(* which waits for the client until the window that is open then is over.  *)
(***************************************************************************)
HangupIsVain == /\ GTx /\ out'.method \in {"CANCEL", "BYE"}
                /\ leg \in {"answered", "talking"}

\* tx() is over, and rx() will have looked before it sends again.
Asked == pc = "rx" \/ receivedStarted # "zero"

NoDial == state \in InCall => command # "Dial"
Known == leg # "none" =>
           /\ leg # "offered"
           /\ state \in {"INVITE_AUTH", "RINGING", "CALL_START", "CALL_IN_PROGRESS"}
Tried == state = "INVITE_AUTH" =>
           IF leg = "none" THEN down = << >> \/ Asked
           ELSE down # << >> /\ down[1].packet.status = "TRYING_100" /\ Asked
Rings == state = "RINGING" /\ leg # "none" =>
           \A d \in Range(down) :
             d.packet.status \in {"SESSION_PROGRESS_183", "UNKNOWN", "OK_200"}
Talks == leg = "talking" =>
           state = "CALL_IN_PROGRESS" \/ (state = "CALL_START" /\ pc = "rx")

Together == NoDial /\ Known /\ Tried /\ Rings /\ Talks
KnownInv == faults = 0 => Together

\* What tx() does, by what it sends.
LEMMA TxCases ==
  ASSUME TypeOK, TransientStatesSeeNoPacket, Tx
  PROVE  /\ pc = "tx" /\ pc' = "rx" /\ receivedStarted' = receivedStarted
         /\ command' \in {command, "Idle"}
         /\ \/ out' = NoMsg /\ state' = state
            \/ /\ out'.method = "INVITE" /\ receivedStarted = "zero"
               /\ state' = state /\ state \in {"INVITE_UNAUTH", "INVITE_AUTH"}
            \/ out'.method = "REGISTER" /\ state' = state /\ state \in Registering
            \/ /\ out'.method = "ACK" /\ state' = state
               /\ state \in {"CALL_START", "CANCELLED"}
            \/ out'.method = "BYE" /\ state' = "IDLE" /\ state = "CALL_IN_PROGRESS"
            \/ out'.method = "CANCEL" /\ state' = "IDLE" /\ state # "CALL_IN_PROGRESS"
<1> USE DEF CanSend, timers
<1>1. pc = "tx" /\ pc' = "rx"
  BY DEF Tx, TxBlocked, TxHangup, TxRegister, TxRegisterAuth, TxInvite,
         TxInviteAuth, TxAck, TxCancelledAck, TxSilent
<1> USE <1>1
<1>2. CASE TxBlocked \/ TxSilent
  BY <1>2 DEF TxBlocked, TxSilent
<1>3. CASE TxHangup
  <2>1. Cancel.method = "CANCEL" /\ Bye(ByeSeq).method = "BYE"
    BY DEF Cancel, Bye, Request
  <2> QED
    BY <1>3, <2>1 DEF TxHangup, SetState
<1>4. CASE TxRegister
  <2>1. \A t, b \in Rand : Register(t, b, response).method = "REGISTER"
    BY DEF Register, Request
  <2> QED
    BY <1>4, <2>1 DEF TxRegister, Registering
<1>5. CASE TxRegisterAuth
  BY <1>5 DEF TxRegisterAuth, Register, Request, Registering
<1>6. CASE TxInvite
  BY <1>6 DEF TxInvite, Invite, Request
<1>7. CASE TxInviteAuth
  BY <1>7 DEF TxInviteAuth, Invite, Request
<1>8. CASE TxAck \/ TxCancelledAck
  <2>1. Ack.method = "ACK"
    BY DEF Ack, Request
  <2> QED
    BY <1>8, <2>1 DEF TxAck, TxCancelledAck
<1> QED
  BY <1>2, <1>3, <1>4, <1>5, <1>6, <1>7, <1>8 DEF Tx

\* The INVITE that makes the called side ring is answered by a TRYING.
LEMMA InviteRings ==
  ASSUME GTypeOK, down = << >>, Exchange(down), faults' = faults,
         out'.method = "INVITE", leg = "none"
  PROVE  \/ leg' = "none"
         \/ /\ leg' = "ringing"
            /\ down' # << >> /\ down'[1].packet.status = "TRYING_100"
<1>1. faults' # faults + 1
  <2>1. MaxFaults \in Nat /\ faults \in 0 .. MaxFaults
    BY GatewayAssumption DEF GTypeOK
  <2> QED
    BY <2>1
<1>2. Reaches(out', down)
  BY <1>1, NoFields DEF Exchange, Lost, Fault
<1>3. /\ leg' = LegAfter(out', keyed')
      /\ down' = Keep(down \o Answer(out', keyed'))
  BY <1>1, <1>2 DEF Reaches, Fault
<1>4. CASE Good(out', keyed') /\ bound
  <2> DEFINE d == Reply("TRYING_100", "INVITE")
  <2>1. leg' = "ringing"
    BY <1>3, <1>4, ByesAreVain DEF LegAfter
  <2>2. Answer(out', keyed') = << d >>
    BY <1>4 DEF Answer
  <2>3. d \in Datagram /\ d.packet.status = "TRYING_100"
    BY ReplyType DEF Status, Method
  <2> HIDE DEF d
  <2>4. << d >> \in Seq(Datagram) /\ Len(<< d >>) = 1
    BY <2>3
  <2>5. down \o << d >> = << d >>
    BY <2>4, ConcatEmptySeq
  <2>6. Len(<< d >>) <= MaxDown
    BY <2>4, GatewayAssumption
  <2>7. down' = << d >>
    BY <1>3, <2>2, <2>4, <2>5, <2>6, KeepSays
  <2> QED
    BY <2>1, <2>3, <2>7
<1>5. CASE ~(Good(out', keyed') /\ bound)
  BY <1>3, <1>5 DEF LegAfter
<1> QED
  BY <1>4, <1>5

\* tx() takes part in the calls of the gateway by its INVITE, its ACK and its
\* hang-up.
LEMMA KnownTx ==
  ASSUME IInv, UnauthInviteIsBare', GTypeOK, Sealed, Together,
         GTx, faults' = faults, ~HangupIsVain
  PROVE  Together'
<1>1. /\ TypeOK /\ TransientStatesSeeNoPacket /\ Tx /\ Exchange(down)
      /\ down \in Seq(Datagram) /\ Len(down) <= MaxDown
      /\ leg \in Leg
  BY DEF IInv, GTypeOK, Datagram, GTx
<1>2. /\ pc = "tx" /\ pc' = "rx" /\ receivedStarted' = receivedStarted
      /\ command' \in {command, "Idle"} /\ state' \in {state, "IDLE"}
  BY <1>1, TxCases
<1>3. /\ leg' = LegAfter(out', keyed')
      /\ Answer(out', keyed') = << >> => down' = down
  BY <1>1, ExchangeSays
<1>4. NoDial' /\ Asked'
  BY <1>2 DEF Together, NoDial, InCall, Inviting, Asked
<1> USE DEF Together, Known, Tried, Rings, Talks, Sealed
<1>5. CASE out' = NoMsg /\ state' = state
  <2>1. leg' = leg /\ down' = down
    BY <1>3, <1>5, NoFields, AnswerSays, ByesAreVain DEF LegAfter
  <2> QED
    BY <1>2, <1>4, <1>5, <2>1
<1>6. CASE /\ out'.method = "INVITE" /\ receivedStarted = "zero"
           /\ state' = state /\ state \in {"INVITE_UNAUTH", "INVITE_AUTH"}
  <2>1. CASE state = "INVITE_UNAUTH"
    <3>1. leg = "none" /\ out'.digest = ""
      BY <1>6, <2>1 DEF UnauthInviteIsBare
    <3>2. leg' = "none"
      BY <1>3, <1>6, <3>1 DEF LegAfter, Good
    <3> QED
      BY <1>4, <1>6, <2>1, <3>2
  <2>2. CASE state = "INVITE_AUTH"
    <3>1. leg = "none" /\ down = << >>
      BY <1>2, <1>6, <2>2 DEF Asked
    <3>2. \/ leg' = "none"
          \/ /\ leg' = "ringing"
             /\ down' # << >> /\ down'[1].packet.status = "TRYING_100"
      BY <1>1, <1>6, <3>1, InviteRings
    <3> QED
      BY <1>4, <1>6, <2>2, <3>2
  <2> QED
    BY <1>6, <2>1, <2>2
<1>7. CASE out'.method = "REGISTER" /\ state' = state /\ state \in Registering
  <2>1. leg' = "none"
    BY <1>3, <1>7 DEF LegAfter, Registering
  <2> QED
    BY <1>4, <1>7, <2>1 DEF Registering
<1>8. CASE /\ out'.method = "ACK" /\ state' = state
           /\ state \in {"CALL_START", "CANCELLED"}
  <2>1. leg' = IF leg = "answered" /\ state = "CALL_START" THEN "talking" ELSE leg
    BY <1>3, <1>8, ByesAreVain DEF LegAfter
  <2> QED
    BY <1>2, <1>4, <1>8, <2>1
<1>9. CASE out'.method = "BYE" /\ state' = "IDLE" /\ state = "CALL_IN_PROGRESS"
  <2>1. leg = "none"
    BY <1>1, <1>2, <1>9 DEF HangupIsVain, Leg
  <2>2. leg' = "none"
    BY <1>3, <1>9, <2>1 DEF LegAfter
  <2> QED
    BY <1>4, <1>9, <2>2
<1>10. CASE out'.method = "CANCEL" /\ state' = "IDLE" /\ state # "CALL_IN_PROGRESS"
  <2>1. leg \in {"none", "ringing"}
    BY <1>1, <1>2, <1>10 DEF HangupIsVain, Leg
  <2>2. leg' = "none"
    BY <1>3, <1>10, <2>1 DEF LegAfter
  <2> QED
    BY <1>4, <1>10, <2>2
<1> QED
  BY <1>1, <1>5, <1>6, <1>7, <1>8, <1>9, <1>10, TxCases

\* rx() with nothing to parse: a window that is over was empty.
LEMMA KnownQuiet ==
  ASSUME IInv, Together, GQuietStep
  PROVE  Together'
<1>1. /\ TypeOK /\ TransientStatesSeeNoPacket /\ RxQuiet
      /\ pc = "rx" /\ pc' = "caller" /\ UNCHANGED <<leg, down>>
      /\ WindowOver => down = << >>
  BY DEF IInv, GQuietStep, RxQuietStep
<1> USE <1>1 DEF Together, NoDial, Known, Tried, Rings, Talks, Asked, InCall,
                 Inviting, TransientStatesSeeNoPacket, timers
<1>2. CASE RxErrorWaits \/ RxErrorOver
  BY <1>2 DEF RxErrorWaits, RxErrorOver
<1>3. CASE RxDial
  BY <1>3 DEF RxDial
<1>4. CASE RxAdvance
  BY <1>4 DEF RxAdvance
<1>5. CASE RxOpenWindow \/ RxCollect
  BY <1>5 DEF RxOpenWindow, RxCollect
<1>6. CASE RxNothing
  BY <1>6 DEF RxNothing, WindowOver
<1> QED
  BY <1>2, <1>3, <1>4, <1>5, <1>6 DEF RxQuiet

\* Where a packet takes the client, as far as the calls of the gateway go.
LEMMA PacketKeepsKnown ==
  ASSUME TypeOK, TransientStatesSeeNoPacket, NEW p \in Packet, RxPacket(p)
  PROVE  /\ state' \in InCall => state \in InCall \/ p.method = "INVITE"
         /\ state' = "INVITE_AUTH" =>
              \/ state = "INVITE_UNAUTH_SENT"
              \/ state = "RINGING" /\ p.status = "PROXY_AUTH_REQ_407"
         /\ state = "INVITE_AUTH" /\ p.status = "TRYING_100" =>
              state' = "RINGING" /\ out' = NoMsg
         /\ state = "RINGING"
            /\ p.status \in {"SESSION_PROGRESS_183", "UNKNOWN", "OK_200"} =>
              state' \in {"RINGING", "CALL_START"} /\ out' \in {NoMsg, Ok}
<1>1. /\ state \notin {"CALL_START", "INVITE_UNAUTH"}
      /\ IF p.status = "SERVER_ERROR_500" THEN HandleServerError(p)
         ELSE HandleByState(p)
  BY DEF RxPacket, TransientStatesSeeNoPacket
<1> USE <1>1 DEF SetState, Become, Ignore, Fail, InCall, Inviting, ReplyTo
<1>2. CASE p.status = "SERVER_ERROR_500"
  BY <1>2 DEF HandleServerError
<1>3. CASE HandleRegistering(p) \/ HandleRegisterReply(p) \/ HandleRegistered(p)
  BY <1>3 DEF HandleRegistering, HandleRegisterReply, HandleRegistered
<1>4. CASE HandleInviteReply(p) \/ HandleInviteAuthReply(p)
  BY <1>4 DEF HandleInviteReply, HandleInviteAuthReply, StartRinging
<1>5. CASE \/ HandlePickup(p) \/ HandleRequestCancelled(p)
           \/ HandleRechallenge(p) \/ HandleDecline(p)
  BY <1>5 DEF HandlePickup, HandleRequestCancelled, HandleRechallenge,
              HandleDecline
<1>6. CASE HandleHungUp(p) \/ HandleCancelReply(p) \/ HandleUnexpected(p)
  BY <1>6 DEF HandleHungUp, HandleCancelReply, HandleUnexpected, NoReaction
<1> QED
  BY <1>2, <1>3, <1>4, <1>5, <1>6 DEF HandleByState

\* rx() with a packet: in a call the gateway has it is a TRYING, an alert or a
\* 200.
LEMMA KnownPacket ==
  ASSUME IInv, GTypeOK, NoneOffered, Sealed, Together, GPacketStep, faults' = faults
  PROVE  Together'
<1> DEFINE p == down[1].packet
<1>1. /\ TypeOK /\ TransientStatesSeeNoPacket /\ p \in Packet /\ RxPacket(p)
      /\ down # << >> /\ down[1] \in Range(down) /\ p.method # "INVITE"
      /\ Range(down') = {} /\ down' = << >> /\ leg' = LegAfter(out', keyed')
      /\ leg \in Leg
  BY DEF IInv, GTypeOK, GPacketStep, RxPacketStep, Datagram, NoneOffered
<1>2. command' = command /\ state # "CALL_START"
  BY <1>1 DEF RxPacket, TransientStatesSeeNoPacket
<1>3. /\ state' \in InCall => state \in InCall \/ p.method = "INVITE"
      /\ state' = "INVITE_AUTH" =>
           \/ state = "INVITE_UNAUTH_SENT"
           \/ state = "RINGING" /\ p.status = "PROXY_AUTH_REQ_407"
      /\ state = "INVITE_AUTH" /\ p.status = "TRYING_100" =>
           state' = "RINGING" /\ out' = NoMsg
      /\ state = "RINGING"
         /\ p.status \in {"SESSION_PROGRESS_183", "UNKNOWN", "OK_200"} =>
           state' \in {"RINGING", "CALL_START"} /\ out' \in {NoMsg, Ok}
  BY <1>1, PacketKeepsKnown
<1> USE DEF Together, NoDial, Known, Tried, Rings, Talks
<1>4. NoDial'
  BY <1>1, <1>2, <1>3
<1>5. CASE leg = "none"
  <2>1. out'.method \in {"none", "200 OK", "ACK"}
    <3>1. out' \in {NoMsg, Ok, Ack}
      BY <1>1, PacketSends
    <3>2. Ack.method = "ACK"
      BY DEF Ack, Request
    <3> QED
      BY <3>1, <3>2, NoFields
  <2>2. leg' = "none"
    BY <1>1, <1>5, <2>1 DEF LegAfter
  <2> QED
    BY <1>1, <1>4, <2>2
<1>6. CASE leg # "none"
  <2>1. state \in {"INVITE_AUTH", "RINGING"} /\ leg \in {"ringing", "answered"}
    BY <1>1, <1>2, <1>6 DEF Sealed, Leg
  <2>2. /\ state = "INVITE_AUTH" => p.status = "TRYING_100"
        /\ state = "RINGING" =>
             p.status \in {"SESSION_PROGRESS_183", "UNKNOWN", "OK_200"}
    BY <1>1, <1>6
  <2>3. state' \in {"RINGING", "CALL_START"} /\ out' \in {NoMsg, Ok}
    BY <1>3, <2>1, <2>2
  <2>4. leg' = leg
    BY <1>1, <2>1, <2>3, NoFields, ByesAreVain DEF LegAfter
  <2> QED
    BY <1>1, <1>4, <2>1, <2>3, <2>4
<1> QED
  BY <1>5, <1>6

\* The owner and the clock: the turn of rx() stays its turn.
LEMMA KnownOther ==
  ASSUME TypeOK, GTypeOK, Together, OtherStep
  PROVE  Together'
<1>1. UNCHANGED <<state, leg, down>> /\ (pc = "rx" => pc' = "rx")
      /\ (receivedStarted # "zero" => receivedStarted' # "zero")
      /\ (command' = "Dial" => command = "Dial" \/ state = "REGISTERED")
  <2>1. UNCHANGED <<state, leg, down>>
    BY OtherKeeps
  <2>2. CASE GRun \/ GRing \/ CallTimer \/ StrayHangup
    BY <2>1, <2>2 DEF GRun, GRing, CallTimer, StrayHangup, Run, RequestRing,
                RequestCancel, timers
  <2>3. CASE GClock
    BY <2>1, <2>3 DEF GClock, WindowElapses, BackoffElapses
  <2>4. CASE UNCHANGED gvars
    BY <2>1, <2>4, GUnchanged, Unchanged
  <2> QED
    BY <2>1, <2>2, <2>3, <2>4 DEF OtherStep
<1> QED
  BY <1>1 DEF Together, NoDial, Known, Tried, Rings, Talks, Asked, InCall, Inviting

\* A datagram is put behind those that wait.
LEMMA FirstStays ==
  ASSUME down \in Seq(Datagram), down # << >>, NEW reply \in Datagram, Sends(reply)
  PROVE  down' # << >> /\ down'[1] = down[1]
<1> DEFINE q == Append(down, reply)
           n == IF Len(q) < MaxDown THEN Len(q) ELSE MaxDown
<1>1. /\ q \in Seq(Datagram) /\ Len(q) = Len(down) + 1 /\ q[1] = down[1]
      /\ Len(down) \in Nat /\ Len(down) >= 1
  <2>1. Len(down) \in Nat /\ Len(down) # 0
    BY EmptySeq
  <2> QED
    BY <2>1
<1>2. n \in Nat /\ n >= 1 /\ n <= Len(q)
  <2>1. MaxDown \in Nat \ {0}
    BY GatewayAssumption
  <2> QED
    BY <1>1, <2>1
<1>3. down' = SubSeq(q, 1, n)
  BY DEF Sends, Keep
<1> HIDE DEF q, n
<1>4. Len(SubSeq(q, 1, n)) = n /\ SubSeq(q, 1, n)[1] = q[1]
  <2>1. \A i \in 1 .. n : q[i] \in Datagram
    BY <1>1, <1>2
  <2>2. 1 \in Int /\ n \in Int
    BY <1>2
  <2>3. /\ Len(SubSeq(q, 1, n)) = IF 1 <= n THEN n - 1 + 1 ELSE 0
        /\ \A i \in 1 .. n - 1 + 1 : SubSeq(q, 1, n)[i] = q[1 + i - 1]
    BY <2>1, <2>2, SubSeqProperties
  <2> QED
    BY <1>2, <2>3
<1> QED
  BY <1>1, <1>2, <1>3, <1>4, EmptySeq

\* The gateway by itself: it rings, picks up or refuses behind the TRYING.
LEMMA KnownActs ==
  ASSUME GTypeOK, Together, GatewayActs, ~Fault
  PROVE  Together'
<1> USE DEF Together, NoDial, Known, Tried, Rings, Talks, Asked
<1>1. down \in Seq(Datagram)
  BY DEF GTypeOK, Datagram
<1>2. UNCHANGED <<state, pc, command, receivedStarted>>
  BY Unchanged DEF GatewayActs, Expire
<1>3. ASSUME NEW status \in {"SESSION_PROGRESS_183", "UNKNOWN", "OK_200"},
             Sends(Reply(status, "INVITE")), leg = "ringing",
             leg' \in {"ringing", "answered"}
      PROVE  Together'
  <2> DEFINE d == Reply(status, "INVITE")
  <2>1. d \in Datagram /\ d.packet.status = status
    BY ReplyType DEF Method, Status
  <2>2. Sends(d)
    BY <1>3
  <2> HIDE DEF d
  <2>3. Range(down') \subseteq Range(down) \cup {d}
    BY <1>1, <2>1, <2>2, SendsSays
  <2>4. state = "INVITE_AUTH" => down' # << >> /\ down'[1] = down[1]
    BY <1>1, <1>3, <2>1, <2>2, FirstStays
  <2> QED
    BY <1>2, <1>3, <2>1, <2>3, <2>4
<1>4. CASE Alert \/ PickUp
  BY <1>3, <1>4 DEF Alert, PickUp
<1>5. CASE Refuse
  BY <1>2, <1>5 DEF Refuse
<1>6. CASE HangsUp
  BY <1>2, <1>6 DEF HangsUp
<1>7. CASE Withdraws
  BY <1>2, <1>7 DEF Withdraws
<1> QED
  BY <1>4, <1>5, <1>6, <1>7
  DEF GatewayActs, Repeat, GivesUp, Calls, Notify, Expire

LEMMA KnownStep ==
  ASSUME ~Late, IInv, IInv', GTypeOK, SharedInv, KnownInv, [GNext]_gvars,
         [~HangupIsVain]_gvars
  PROVE  KnownInv'
<1> SUFFICES ASSUME faults' = 0 PROVE Together'
  BY DEF KnownInv
<1>1. faults' = faults /\ ~Fault /\ NoneOffered /\ Sealed /\ Together
  BY FaultsStay DEF SharedInv, KnownInv
<1>2. CASE UNCHANGED gvars
  BY <1>1, <1>2, KnownOther DEF OtherStep, IInv
<1>3. CASE GTx /\ ~HangupIsVain
  BY <1>1, <1>3, KnownTx DEF IInv, DigestInv
<1>4. CASE GQuietStep
  BY <1>1, <1>4, KnownQuiet
<1>5. CASE GPacketStep
  BY <1>1, <1>5, KnownPacket
<1>6. CASE OtherStep
  BY <1>1, <1>6, KnownOther DEF IInv
<1>7. CASE GatewayActs
  BY <1>1, <1>7, KnownActs
<1> QED
  BY <1>2, <1>3, <1>4, <1>5, <1>6, <1>7, WindowCases, GStepCases

\* As long as nothing goes wrong and no reply is late, the one thing that leaves
\* a call behind at the gateway is a hang-up sent after the pick-up: a CANCEL
\* that crossed it, or the BYE of an answered call, which ends nothing
\* (the repository's README.md:65).  No packet, no window and no timer does, and no
\* hang-up of a call that still rings.
THEOREM CallsAreKnown ==
  ASSUME ~Late
  PROVE  GSpec /\ [][~HangupIsVain]_gvars =>
           [](faults = 0 /\ leg # "none" => state \in InCall)
<1>1. GInit => KnownInv
  BY EmptyRange DEF GInit, Init, KnownInv, Together, NoDial, Known, Tried, Rings,
                    Talks, InCall, Inviting
<1>2. IInv /\ IInv' /\ GTypeOK /\ SharedInv /\ KnownInv /\ [GNext]_gvars
        /\ [~HangupIsVain]_gvars => KnownInv'
  BY KnownStep
<1>3. KnownInv => (faults = 0 /\ leg # "none" => state \in InCall)
  BY DEF KnownInv, Together, Known, InCall, Inviting
<1> QED
  BY <1>1, <1>2, <1>3, GTypeCorrect, ClientIsSafe, SharedAlways, PTL DEF GSpec

=============================================================================
