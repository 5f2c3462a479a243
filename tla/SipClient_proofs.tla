-------------------------- MODULE SipClient_proofs --------------------------
(***************************************************************************)
(* Theorems about the user agent of SipClient, for every set of numbers,   *)
(* nonces and random values and every width of the CSeq counter.           *)
(***************************************************************************)
EXTENDS SipClient, TLAPS

USE DEF Timer, SipCommand, SipState, Response

(***************************************************************************)
(* The inductive invariant: the invariants the runs check, each with what  *)
(* it needs to be preserved by every step.                                 *)
(***************************************************************************)
Registered == {"REGISTERED", "INVITE_UNAUTH", "INVITE_UNAUTH_SENT", "RINGING",
               "CALL_START", "CALL_IN_PROGRESS", "CANCELLED"}
DigestInv == /\ state \in Registered => response = ""
             /\ UnauthInviteIsBare

\* A pending dial keeps windows closed; only a registered client that was
\* already listening holds both.
DialInv ==
  /\ command = "Dial" /\ receivedStarted # "zero" => state = "REGISTERED"
  /\ command = "Dial" /\ state = "REGISTERED" => uri \in Numbers
  /\ state \in Inviting \cup {"INVITE_UNAUTH"} => uri \in Numbers
  /\ InvitesGoWhereAsked

\* Between tx() and rx() a fresh INVITE already is the current one.
InviteInv ==
  /\ InviteIsCancellable
  /\ state = "INVITE_UNAUTH" /\ pc = "rx" /\ invite # NoInvite
       => Dialog(invite) = Current

\* Between tx() and rx() the ACK of CALL_START is out.
AnswerInv ==
  /\ AnswerIsAcknowledged
  /\ state = "CALL_START" /\ pc = "rx" => told = "acked"

IInv == /\ TypeOK /\ TransientStatesSeeNoPacket
        /\ DigestInv /\ DialInv /\ InviteInv /\ AnswerInv

-----------------------------------------------------------------------------
(***************************************************************************)
(* Type correctness.                                                       *)
(***************************************************************************)
LEMMA Unchanged ==
  UNCHANGED vars =>
    UNCHANGED <<pc, state, command, receivedStarted, errorStarted, seq, callId,
                tag, branch, uri, nonce, response, out, invite, told>>
BY DEF vars, timers, ids, auth, history

\* The steps that send no request of the client.
LEMMA NoFields == NoMsg.method = "none" /\ Ok.method = "200 OK"
BY DEF NoMsg, Ok

LEMMA RequestType ==
  ASSUME NEW m \in Method, NEW target \in Uri, NEW s \in Seqs,
         NEW t \in Rand, NEW b \in Rand, NEW d \in Response, callId \in Rand
  PROVE  Request(m, target, s, t, b, d) \in Requests
BY DEF Request, Requests

LEMMA NextSeqType == seq \in Seqs => NextSeq \in Seqs
BY SeqAssumption DEF Seqs, NextSeq

LEMMA PacketNonce ==
  ASSUME NEW p \in Packet, nonce \in Nonces \cup {""}
  PROVE  NonceAfter(p) \in Nonces \cup {""}
BY DEF Packet, NonceAfter, Challenge, Status


\* The first CSeq is one.
LEMMA SeedsAreSeqs == 0 .. SeqRand - 1 \subseteq Seqs
<1>1. /\ SeqRand \in Nat /\ SeqWrap \in Nat /\ SeqRand <= SeqWrap
  BY SeqAssumption
<1> QED
  BY <1>1 DEF Seqs

LEMMA InitIsTyped == Init => TypeOK
<1>1. Init => seq \in Seqs
  BY SeedsAreSeqs DEF Init
<1>2. Init => /\ uri \in Uri /\ out \in Requests \cup {NoMsg, Ok}
              /\ invite \in Requests \cup {NoInvite}
  BY DEF Init, Uri
<1> QED
  BY <1>1, <1>2 DEF Init, TypeOK

LEMMA OwnerKeepsTypes ==
  ASSUME TypeOK, (\E n \in Numbers : RequestRing(n)) \/ RequestCancel \/ Run
  PROVE  TypeOK'
BY DEF TypeOK, RequestRing, RequestCancel, Run, Uri, timers, ids, auth, history

\* A request that carries the registers of the client is well-formed.
LEMMA CurrentType ==
  ASSUME TypeOK, NEW m \in Method, NEW d \in Response
  PROVE  Request(m, uri, seq, tag, branch, d) \in Requests
BY RequestType DEF TypeOK

LEMMA AckType == TypeOK => Ack \in Requests
BY CurrentType DEF Ack, Method

LEMMA TxKeepsTypes == TypeOK /\ Tx => TypeOK'
<1> SUFFICES ASSUME TypeOK, Tx PROVE TypeOK'
  OBVIOUS
<1> USE DEF CanSend, SetState, timers, ids, auth, history
<1>1. CASE TxBlocked \/ TxSilent
  BY <1>1 DEF TypeOK, Tx, TxBlocked, TxSilent
<1>2. CASE TxHangup
  <2>1. ByeSeq \in Seqs
    BY SeqAssumption DEF Seqs
  <2>2. out' \in Requests
    <3>1. Request("BYE", uri, ByeSeq, tag, branch, response) \in Requests
      BY <2>1, RequestType DEF TypeOK, Method
    <3>2. Request("CANCEL", uri, seq, tag, branch, response) \in Requests
      BY CurrentType DEF TypeOK, Method
    <3> QED
      BY <1>2, <3>1, <3>2 DEF TxHangup, Bye, Cancel
  <2>3. seq' \in Seqs /\ invite' \in Requests \cup {NoInvite}
    BY <1>2, <2>1 DEF TypeOK, TxHangup
  <2> QED
    BY <1>2, <2>2, <2>3 DEF TypeOK, Tx, TxHangup
<1>3. CASE TxRegister
  <2>1. out' \in Requests
    <3>1. PICK t, b \in Rand :
            out' = Request("REGISTER", "registrar", seq, t, b, response)
      BY <1>3 DEF TxRegister, Register
    <3>2. "registrar" \in Uri /\ "REGISTER" \in Method
      BY DEF Uri, Method
    <3> QED
      BY <3>1, <3>2, RequestType DEF TypeOK
  <2> QED
    BY <1>3, <2>1 DEF TypeOK, Tx, TxRegister
<1>4. CASE TxRegisterAuth
  <2>1. "registrar" \in Uri /\ "REGISTER" \in Method /\ "REGISTER" \in Response
    BY DEF Uri, Method
  <2>2. out' \in Requests
    BY <1>4, <2>1, RequestType DEF TypeOK, TxRegisterAuth, Register
  <2> QED
    BY <1>4, <2>2 DEF TypeOK, Tx, TxRegisterAuth
<1>5. CASE TxInvite
  <2>1. "INVITE" \in Method
    BY DEF Method
  <2>2. out' \in Requests
    BY <1>5, <2>1, CurrentType DEF TypeOK, TxInvite, Invite
  <2> QED
    BY <1>5, <2>2 DEF TypeOK, Tx, TxInvite
<1>6. CASE TxInviteAuth
  <2>1. "INVITE" \in Method /\ "INVITE" \in Response
    BY DEF Method
  <2>2. out' \in Requests
    BY <1>6, <2>1, RequestType DEF TypeOK, TxInviteAuth, Invite
  <2> QED
    BY <1>6, <2>2 DEF TypeOK, Tx, TxInviteAuth
<1>7. CASE TxAck \/ TxCancelledAck
  <2>1. out' \in Requests
    BY <1>7, AckType DEF TxAck, TxCancelledAck
  <2> QED
    BY <1>7, <2>1 DEF TypeOK, Tx, TxAck, TxCancelledAck
<1> QED
  BY <1>1, <1>2, <1>3, <1>4, <1>5, <1>6, <1>7 DEF Tx

LEMMA QuietKeepsTypes ==
  ASSUME TypeOK, RxQuiet, pc' \in {"caller", "tx", "rx"}
  PROVE  TypeOK'
<1> USE DEF timers, ids, auth, history
<1>1. CASE RxErrorOver
  BY <1>1, NextSeqType DEF TypeOK, RxQuiet, RxErrorOver
<1>2. CASE RxErrorWaits \/ RxDial \/ RxAdvance
  BY <1>2 DEF TypeOK, RxQuiet, RxErrorWaits, RxDial, RxAdvance
<1>3. CASE RxOpenWindow \/ RxCollect \/ RxNothing
  BY <1>3 DEF TypeOK, RxQuiet, RxOpenWindow, RxCollect, RxNothing
<1> QED
  BY <1>1, <1>2, <1>3 DEF RxQuiet

\* What every packet leaves well-typed: the handlers below decide the rest.
LEMMA HandlersKeepTypes ==
  ASSUME TypeOK, NEW p \in Packet, HandleServerError(p) \/ HandleByState(p)
  PROVE  /\ state' \in SipState /\ errorStarted' \in Timer
         /\ seq' \in Seqs /\ branch' \in Rand
         /\ uri' \in Uri
         /\ nonce' \in Nonces \cup {""} /\ response' \in Response
         /\ out' \in Requests \cup {NoMsg, Ok}
         /\ told' \in {"nothing", "announced", "acked"}
<1> DEFINE N == NonceAfter(p)
<1>1. /\ N \in Nonces \cup {""}
      /\ NextSeq \in Seqs /\ Ack \in Requests
      /\ ReplyTo(p) \in {NoMsg, Ok}
      /\ "**613" \in Uri
  BY PacketNonce, NextSeqType, AckType DEF TypeOK, ReplyTo, Uri
<1> USE <1>1 DEF TypeOK, SetState, Become, Ignore, Fail, auth
<1> HIDE DEF N
<1>2. CASE HandleServerError(p)
  BY <1>2 DEF HandleServerError
<1>3. CASE HandleRegistering(p) \/ HandleRegisterReply(p) \/ HandleRegistered(p)
  BY <1>3 DEF HandleRegistering, HandleRegisterReply, HandleRegistered, N
<1>4. CASE HandleInviteReply(p)
  BY <1>4 DEF HandleInviteReply, StartRinging, N
<1>5. CASE HandleInviteAuthReply(p)
  BY <1>5 DEF HandleInviteAuthReply, StartRinging, N
<1>6. CASE HandlePickup(p) \/ HandleRequestCancelled(p)
  BY <1>6 DEF HandlePickup, HandleRequestCancelled, N
<1>7. CASE HandleRechallenge(p) \/ HandleDecline(p)
  BY <1>7 DEF HandleRechallenge, HandleDecline, N
<1>8. CASE HandleHungUp(p) \/ HandleCancelReply(p) \/ HandleUnexpected(p)
  BY <1>8 DEF HandleHungUp, HandleCancelReply, HandleUnexpected, N
<1> QED
  BY <1>2, <1>3, <1>4, <1>5, <1>6, <1>7, <1>8 DEF HandleByState

LEMMA PacketKeepsTypes ==
  ASSUME TypeOK, NEW p \in Packet, RxPacket(p), pc' = "caller"
  PROVE  TypeOK'
<1>1. HandleServerError(p) \/ HandleByState(p)
  BY DEF RxPacket
<1>2. invite' \in Requests \cup {NoInvite}
  BY DEF RxPacket, InviteAfter, TypeOK
<1> QED
  BY <1>1, <1>2, HandlersKeepTypes DEF TypeOK, RxPacket

\* The clock only moves timers.
LEMMA ClockKeepsTypes ==
  TypeOK /\ (WindowElapses \/ BackoffElapses) => TypeOK'
BY DEF TypeOK, WindowElapses, BackoffElapses, ids, auth, history

-----------------------------------------------------------------------------
(***************************************************************************)
(* The kinds of a step, and what the steps of each kind leave alone.       *)
(***************************************************************************)
Owner == (\E n \in Numbers : RequestRing(n)) \/ RequestCancel \/ Run
Clock == WindowElapses \/ BackoffElapses
RxQuietStep == pc = "rx" /\ pc' = "caller" /\ RxQuiet
RxPacketStep(p) == pc = "rx" /\ pc' = "caller" /\ RxPacket(p)

LEMMA StepCases ==
  ASSUME [Next]_vars
  PROVE  \/ Owner \/ Tx \/ RxQuietStep \/ Clock \/ UNCHANGED vars
         \/ \E p \in Packet : RxPacketStep(p)
BY DEF Next, Rx, Owner, Clock, RxQuietStep, RxPacketStep

LEMMA TypeStep ==
  ASSUME TypeOK, [Next]_vars
  PROVE  TypeOK'
<1>1. CASE Owner
  BY <1>1, OwnerKeepsTypes DEF Owner
<1>2. CASE Tx
  BY <1>2, TxKeepsTypes
<1>3. CASE RxQuietStep
  BY <1>3, QuietKeepsTypes DEF RxQuietStep
<1>4. CASE \E p \in Packet : RxPacketStep(p)
  BY <1>4, PacketKeepsTypes DEF RxPacketStep
<1>5. CASE Clock
  BY <1>5, ClockKeepsTypes DEF Clock
<1>6. CASE UNCHANGED vars
  BY <1>6, Unchanged DEF TypeOK
<1> QED
  BY <1>1, <1>2, <1>3, <1>4, <1>5, <1>6, StepCases

\* Every register of the client stays in its range, whatever the gateway
\* sends; the CSeq counter wraps.
THEOREM TypeCorrect == Spec => []TypeOK
BY InitIsTyped, TypeStep, PTL DEF Spec

-----------------------------------------------------------------------------
(***************************************************************************)
(* No window is open in the states that only live from rx() to tx().       *)
(***************************************************************************)
LEMMA TransientStep ==
  ASSUME TypeOK, TransientStatesSeeNoPacket, [Next]_vars
  PROVE  TransientStatesSeeNoPacket'
<1> USE DEF TransientStatesSeeNoPacket, timers
<1>1. CASE Owner
  BY <1>1 DEF Owner, RequestRing, RequestCancel, Run
<1>2. CASE Tx
  BY <1>2 DEF Tx, TxBlocked, TxHangup, TxRegister, TxRegisterAuth, TxInvite,
              TxInviteAuth, TxAck, TxCancelledAck, TxSilent, CanSend
<1>3. CASE RxQuietStep
  BY <1>3 DEF RxQuietStep, RxQuiet, RxErrorWaits, RxErrorOver, RxDial, RxAdvance,
              RxOpenWindow, RxCollect, RxNothing
<1>4. CASE \E p \in Packet : RxPacketStep(p)
  BY <1>4 DEF RxPacketStep, RxPacket
<1>5. CASE Clock
  BY <1>5, NoFields DEF Clock, WindowElapses, BackoffElapses
<1> QED
  BY <1>1, <1>2, <1>3, <1>4, <1>5, StepCases, Unchanged

(***************************************************************************)
(* What tx() and rx() send, and in which state.                            *)
(***************************************************************************)
LEMMA TxSends ==
  ASSUME TypeOK, Tx
  PROVE  /\ out'.method = "INVITE" =>
              /\ state \in {"INVITE_UNAUTH", "INVITE_AUTH"}
              /\ state' = state
              /\ out'.uri = uri /\ Dialog(out') = Current'
              /\ state = "INVITE_UNAUTH" => out'.digest = response
         /\ out'.method = "BYE" =>
              state = "CALL_IN_PROGRESS" /\ out'.digest = response
         /\ out'.method = "ACK" => state \in {"CALL_START", "CANCELLED"}
<1> USE NoFields DEF CanSend
<1>1. CASE TxBlocked \/ TxSilent
  BY <1>1 DEF TxBlocked, TxSilent
<1>2. CASE TxHangup
  <2>1. CASE state = "CALL_IN_PROGRESS"
    <3>1. out' = Request("BYE", uri, ByeSeq, tag, branch, response)
      BY <1>2, <2>1 DEF TxHangup, Bye, Cancel
    <3> QED
      BY <2>1, <3>1 DEF Request
  <2>2. CASE state # "CALL_IN_PROGRESS"
    <3>1. out' = Request("CANCEL", uri, seq, tag, branch, response)
      BY <1>2, <2>2 DEF TxHangup, Bye, Cancel
    <3> QED
      BY <3>1 DEF Request
  <2> QED
    BY <2>1, <2>2
<1>3. CASE TxRegister
  <2>1. PICK t, b \in Rand :
          out' = Request("REGISTER", "registrar", seq, t, b, response)
    BY <1>3 DEF TxRegister, Register
  <2> QED
    BY <2>1 DEF Request
<1>4. CASE TxRegisterAuth
  <2>1. out' = Request("REGISTER", "registrar", seq, tag, branch, response')
    BY <1>4 DEF TxRegisterAuth, Register
  <2> QED
    BY <2>1 DEF Request
<1>5. CASE TxInvite
  BY <1>5 DEF TxInvite, Invite, Current, ids, Request, Dialog
<1>6. CASE TxInviteAuth
  BY <1>6 DEF TxInviteAuth, Invite, Current, ids, Request, Dialog
<1>7. CASE TxAck \/ TxCancelledAck
  <2>1. out' = Ack /\ state \in {"CALL_START", "CANCELLED"}
    BY <1>7 DEF TxAck, TxCancelledAck
  <2>2. Ack.method = "ACK"
    BY DEF Ack, Request
  <2> QED
    BY <2>1, <2>2
<1> QED
  BY <1>1, <1>2, <1>3, <1>4, <1>5, <1>6, <1>7 DEF Tx

LEMMA PacketSends ==
  ASSUME NEW p \in Packet, RxPacket(p)
  PROVE  /\ out' \in {NoMsg, Ok, Ack}
         /\ out'.method \notin {"INVITE", "BYE"}
         /\ out' = Ack => Dialog(out') = Current
<1>1. HandleServerError(p) \/ HandleByState(p)
  BY DEF RxPacket
<1>2. out' \in {NoMsg, Ok, Ack}
  <2> USE DEF Ignore, Fail, ReplyTo, StartRinging
  <2>1. CASE HandleServerError(p)
    BY <2>1 DEF HandleServerError
  <2>2. CASE HandleRegistering(p) \/ HandleRegisterReply(p) \/ HandleRegistered(p)
    BY <2>2 DEF HandleRegistering, HandleRegisterReply, HandleRegistered
  <2>3. CASE HandleInviteReply(p) \/ HandleInviteAuthReply(p)
    BY <2>3 DEF HandleInviteReply, HandleInviteAuthReply
  <2>4. CASE \/ HandlePickup(p) \/ HandleRequestCancelled(p)
             \/ HandleRechallenge(p) \/ HandleDecline(p)
    BY <2>4 DEF HandlePickup, HandleRequestCancelled, HandleRechallenge,
                HandleDecline
  <2>5. CASE HandleHungUp(p) \/ HandleCancelReply(p) \/ HandleUnexpected(p)
    BY <2>5 DEF HandleHungUp, HandleCancelReply, HandleUnexpected
  <2> QED
    BY <1>1, <2>1, <2>2, <2>3, <2>4, <2>5 DEF HandleByState
<1>3. Ack.method = "ACK" /\ Dialog(Ack) = Current
  BY DEF Ack, Current, Request, Dialog
<1> QED
  BY <1>2, <1>3, NoFields

(***************************************************************************)
(* No digest is left over from the registration on.                        *)
(***************************************************************************)
LEMMA DigestStep ==
  ASSUME TypeOK, DigestInv, [Next]_vars
  PROVE  DigestInv'
<1> USE DEF DigestInv, UnauthInviteIsBare, Registered, auth
<1>1. CASE Owner
  BY <1>1, NoFields DEF Owner, RequestRing, RequestCancel, Run
<1>2. CASE Tx
  <2>1. state' \in Registered => response' = ""
    BY <1>2 DEF Tx, TxBlocked, TxHangup, TxRegister, TxRegisterAuth, TxInvite,
                TxInviteAuth, TxAck, TxCancelledAck, TxSilent, CanSend, SetState
  <2> QED
    BY <1>2, <2>1, TxSends
<1>3. CASE RxQuietStep
  BY <1>3, NoFields DEF RxQuietStep, RxQuiet, RxErrorWaits, RxErrorOver, RxDial,
              RxAdvance, RxOpenWindow, RxCollect, RxNothing
<1>4. ASSUME NEW p \in Packet, RxPacketStep(p)
      PROVE  DigestInv'
  <2>1. state' \in Registered => response' = ""
    BY <1>4 DEF RxPacketStep, RxPacket, HandleServerError, HandleByState,
         HandleRegistering, HandleRegisterReply, HandleRegistered,
         HandleInviteReply, HandleInviteAuthReply, HandlePickup,
         HandleRequestCancelled, HandleRechallenge, HandleDecline, HandleHungUp,
         HandleCancelReply, HandleUnexpected, NoReaction, Become, Ignore, Fail,
         StartRinging, SetState
  <2> QED
    BY <1>4, <2>1, PacketSends DEF RxPacketStep
<1>5. CASE Clock
  BY <1>5, NoFields DEF Clock, WindowElapses, BackoffElapses
<1> QED
  BY <1>1, <1>2, <1>3, <1>4, <1>5, StepCases, Unchanged

(***************************************************************************)
(* A pending dial belongs to a number the owner asked for.                 *)
(***************************************************************************)
LEMMA DialStep ==
  ASSUME TypeOK, TransientStatesSeeNoPacket, DialInv, [Next]_vars
  PROVE  DialInv'
<1> USE DEF DialInv, InvitesGoWhereAsked, Inviting
<1>1. CASE Owner
  BY <1>1, NoFields DEF Owner, RequestRing, RequestCancel, Run, timers
<1>2. CASE Tx
  <2>1. /\ receivedStarted' = receivedStarted /\ uri' = uri
        /\ state' \in {state, "IDLE"} /\ command' \in {command, "Idle"}
    BY <1>2 DEF Tx, TxBlocked, TxHangup, TxRegister, TxRegisterAuth, TxInvite,
         TxInviteAuth, TxAck, TxCancelledAck, TxSilent, CanSend, SetState, timers
  <2>2. CASE receivedStarted # "zero"
    BY <1>2, <2>1, <2>2, TxSends, NoFields
       DEF Tx, TxBlocked, TxHangup, TxRegister, TxRegisterAuth, TxInvite,
         TxInviteAuth, TxAck, TxCancelledAck, TxSilent, CanSend
  <2>3. CASE receivedStarted = "zero"
    BY <1>2, <2>1, <2>3, TxSends
  <2> QED
    BY <2>2, <2>3
<1>3. CASE RxQuietStep
  <2> USE NoFields DEF RxQuietStep, RxQuiet, timers
  <2>1. CASE RxErrorWaits \/ RxErrorOver
    BY <1>3, <2>1 DEF RxErrorWaits, RxErrorOver, TransientStatesSeeNoPacket
  <2>2. CASE RxDial \/ RxAdvance
    BY <1>3, <2>2 DEF RxDial, RxAdvance
  <2>3. CASE RxOpenWindow \/ RxCollect \/ RxNothing
    BY <1>3, <2>3 DEF RxOpenWindow, RxCollect, RxNothing
  <2> QED
    BY <1>3, <2>1, <2>2, <2>3
<1>4. ASSUME NEW p \in Packet, RxPacketStep(p)
      PROVE  DialInv'
  <2>1. /\ receivedStarted # "zero" /\ receivedStarted' = "zero"
        /\ command' = command
    BY <1>4 DEF RxPacketStep, RxPacket
  <2>2. /\ state = "REGISTERED" => uri' = uri
        /\ state' \in Inviting \cup {"INVITE_UNAUTH"} =>
             state \in Inviting \cup {"INVITE_UNAUTH"} /\ uri' = uri
    BY <1>4 DEF RxPacketStep, RxPacket, HandleServerError, HandleByState,
         HandleRegistering, HandleRegisterReply, HandleRegistered,
         HandleInviteReply, HandleInviteAuthReply, HandlePickup,
         HandleRequestCancelled, HandleRechallenge, HandleDecline, HandleHungUp,
         HandleCancelReply, HandleUnexpected, NoReaction, Become, Ignore, Fail,
         StartRinging, SetState
  <2> QED
    BY <1>4, <2>1, <2>2, PacketSends DEF RxPacketStep
<1>5. CASE Clock
  BY <1>5, NoFields DEF Clock, WindowElapses, BackoffElapses
<1> QED
  BY <1>1, <1>2, <1>3, <1>4, <1>5, StepCases, Unchanged

(***************************************************************************)
(* The registers follow the INVITE in flight.                              *)
(***************************************************************************)
LEMMA InviteStep ==
  ASSUME TypeOK, TransientStatesSeeNoPacket, InviteInv, [Next]_vars
  PROVE  InviteInv'
<1> USE DEF InviteInv, InviteIsCancellable, Inviting, Current, ids, history
<1>1. CASE Owner
  BY <1>1 DEF Owner, RequestRing, RequestCancel, Run
<1>2. CASE Tx
  <2>1. CASE TxInvite \/ TxInviteAuth
    BY <1>2, <2>1, TxSends DEF TxInvite, TxInviteAuth, Invite, Dialog, Request
  <2>2. CASE TxBlocked \/ TxSilent
    BY <1>2, <2>2 DEF Tx, TxBlocked, TxSilent, TransientStatesSeeNoPacket
  <2>3. CASE TxHangup
    BY <1>2, <2>3 DEF Tx, TxHangup, SetState
  <2>4. CASE TxRegister \/ TxRegisterAuth \/ TxAck \/ TxCancelledAck
    BY <1>2, <2>4 DEF Tx, TxRegister, TxRegisterAuth, TxAck, TxCancelledAck,
                      CanSend
  <2> QED
    BY <1>2, <2>1, <2>2, <2>3, <2>4 DEF Tx
<1>3. CASE RxQuietStep
  BY <1>3 DEF RxQuietStep, RxQuiet, RxErrorWaits, RxErrorOver, RxDial, RxAdvance,
              RxOpenWindow, RxCollect, RxNothing
<1>4. ASSUME NEW p \in Packet, RxPacketStep(p)
      PROVE  InviteInv'
  <2>1. CASE invite' = NoInvite
    BY <1>4, <2>1
  <2>2. CASE invite' # NoInvite
    <3>1. invite' = invite
      BY <1>4, <2>2 DEF RxPacketStep, RxPacket, InviteAfter
    <3>2. p.method = "UNKNOWN" \/ p.status = "UNKNOWN"
      BY DEF Packet
    <3>3. state \in Inviting => p.status \notin Challenge
      BY <1>4, <2>2, <3>2 DEF RxPacketStep, RxPacket, InviteAfter, Challenge
    <3>4. state # "INVITE_UNAUTH"
      BY <1>4 DEF RxPacketStep, RxPacket, TransientStatesSeeNoPacket
    <3>5. state' \in Inviting =>
            /\ state \in Inviting /\ seq' = seq /\ branch' = branch
            /\ uri' = uri
      BY <1>4, <3>3, <3>4 DEF RxPacketStep, RxPacket, HandleServerError,
         HandleByState, HandleRegistering, HandleRegisterReply, HandleRegistered,
         HandleInviteReply, HandleInviteAuthReply, HandlePickup,
         HandleRequestCancelled, HandleRechallenge, HandleDecline, HandleHungUp,
         HandleCancelReply, HandleUnexpected, NoReaction, Become, Ignore, Fail,
         StartRinging, SetState, Challenge
    <3> QED
      BY <1>4, <3>1, <3>5 DEF RxPacketStep, RxPacket
  <2> QED
    BY <2>1, <2>2
<1>5. CASE Clock
  BY <1>5, NoFields DEF Clock, WindowElapses, BackoffElapses
<1> QED
  BY <1>1, <1>2, <1>3, <1>4, <1>5, StepCases, Unchanged

(***************************************************************************)
(* The ACK goes out before the call is in progress.                        *)
(***************************************************************************)
LEMMA AnswerStep ==
  ASSUME TypeOK, TransientStatesSeeNoPacket, AnswerInv, [Next]_vars
  PROVE  AnswerInv'
<1> USE DEF AnswerInv, AnswerIsAcknowledged, history
<1>1. CASE Owner
  BY <1>1 DEF Owner, RequestRing, RequestCancel, Run
<1>2. CASE Tx
  BY <1>2 DEF Tx, TxBlocked, TxHangup, TxRegister, TxRegisterAuth, TxInvite,
         TxInviteAuth, TxAck, TxCancelledAck, TxSilent, CanSend, SetState,
         TransientStatesSeeNoPacket
<1>3. CASE RxQuietStep
  BY <1>3 DEF RxQuietStep, RxQuiet, RxErrorWaits, RxErrorOver, RxDial, RxAdvance,
              RxOpenWindow, RxCollect, RxNothing
<1>4. ASSUME NEW p \in Packet, RxPacketStep(p)
      PROVE  AnswerInv'
  <2>1. state' = "CALL_IN_PROGRESS" => state = "CALL_IN_PROGRESS" /\ told' = told
    BY <1>4 DEF RxPacketStep, RxPacket, HandleServerError, HandleByState,
         HandleRegistering, HandleRegisterReply, HandleRegistered,
         HandleInviteReply, HandleInviteAuthReply, HandlePickup,
         HandleRequestCancelled, HandleRechallenge, HandleDecline, HandleHungUp,
         HandleCancelReply, HandleUnexpected, NoReaction, Become, Ignore, Fail,
         StartRinging, SetState
  <2> QED
    BY <1>4, <2>1 DEF RxPacketStep
<1>5. CASE Clock
  BY <1>5, NoFields DEF Clock, WindowElapses, BackoffElapses
<1> QED
  BY <1>1, <1>2, <1>3, <1>4, <1>5, StepCases, Unchanged

-----------------------------------------------------------------------------
(***************************************************************************)
(* The inductive invariant, and the properties it gives.                   *)
(***************************************************************************)
LEMMA InductiveStep == IInv /\ [Next]_vars => IInv'
<1> SUFFICES ASSUME IInv, [Next]_vars PROVE IInv'
  OBVIOUS
<1>1. TypeOK'
  BY TypeStep DEF IInv
<1> QED
  BY <1>1, TransientStep, DigestStep, DialStep, InviteStep, AnswerStep DEF IInv

LEMMA InitEstablishes == Init => IInv
<1> SUFFICES ASSUME Init PROVE IInv
  OBVIOUS
<1>1. TypeOK
  BY InitIsTyped
<1>2. TransientStatesSeeNoPacket /\ AnswerInv
  BY DEF Init, TransientStatesSeeNoPacket, AnswerInv, AnswerIsAcknowledged
<1>3. DigestInv /\ DialInv
  BY NoFields DEF Init, DigestInv, Registered, UnauthInviteIsBare, DialInv,
                  InvitesGoWhereAsked, Inviting
<1>4. InviteInv
  BY DEF Init, InviteInv, InviteIsCancellable, Inviting
<1> QED
  BY <1>1, <1>2, <1>3, <1>4 DEF IInv

THEOREM Inductive == Spec => []IInv
BY InitEstablishes, InductiveStep, PTL DEF Spec

\* rx() never parses a packet in a state that only lives until the next tx():
\* the "should not reach this point" of CALL_START is right.
THEOREM TransientStates == Spec => []TransientStatesSeeNoPacket
BY Inductive, PTL DEF IInv

\* The first INVITE of a call, and every BYE, carries no digest left over from
\* an earlier request.
THEOREM InvitesAreBare == Spec => []UnauthInviteIsBare
<1>1. IInv => UnauthInviteIsBare
  BY DEF IInv, DigestInv
<1> QED
  BY <1>1, Inductive, PTL

\* Whatever the interleaving of dials, losses of registration and errors, only
\* numbers the owner passed to request_ring() are called.
THEOREM OnlyAskedNumbers == Spec => []InvitesGoWhereAsked
<1>1. IInv => InvitesGoWhereAsked
  BY DEF IInv, DialInv
<1> QED
  BY <1>1, Inductive, PTL

\* As long as the client waits for the answer to an INVITE, a CANCEL it would
\* send has the CSeq, Call-ID, tag, branch and target of that INVITE.
THEOREM InviteStaysCancellable == Spec => []InviteIsCancellable
<1>1. IInv => InviteIsCancellable
  BY DEF IInv, InviteInv
<1> QED
  BY <1>1, Inductive, PTL

\* A call is in progress only once its own ACK was sent.
THEOREM AnswersAreAcknowledged == Spec => []AnswerIsAcknowledged
<1>1. IInv => AnswerIsAcknowledged
  BY DEF IInv, AnswerInv
<1> QED
  BY <1>1, Inductive, PTL

AckNamesInvite ==
  state \in Inviting /\ invite # NoInvite /\ out'.method = "ACK"
    => Dialog(out') = Dialog(invite)

\* A step that sends an ACK; a stutter, which leaves the last message in place,
\* sends none.
LEMMA AckStep == ASSUME IInv, [Next]_vars, vars' # vars PROVE AckNamesInvite
<1> SUFFICES ASSUME state \in Inviting, invite # NoInvite, out'.method = "ACK"
             PROVE  Dialog(out') = Dialog(invite)
  BY DEF AckNamesInvite
<1> USE DEF Inviting
<1>1. Dialog(invite) = Current
  BY DEF IInv, InviteInv, InviteIsCancellable
<1>2. CASE Owner \/ RxQuietStep \/ Clock
  BY <1>2, NoFields DEF Owner, RequestRing, RequestCancel, Run, RxQuietStep,
                        RxQuiet, Clock, WindowElapses, BackoffElapses
<1>3. CASE Tx
  BY <1>3, TxSends DEF IInv
<1>4. ASSUME NEW p \in Packet, RxPacketStep(p)
      PROVE  Dialog(out') = Dialog(invite)
  BY <1>1, <1>4, PacketSends, NoFields DEF RxPacketStep
<1> QED
  BY <1>2, <1>3, <1>4, StepCases

\* The ACK of a challenge or of a refusal names the INVITE it acknowledges.
THEOREM AcksMatch == Spec => AckMatchesInvite
<1>1. IInv /\ [Next]_vars =>
        [(state \in Inviting /\ invite # NoInvite /\ out'.method = "ACK")
           => Dialog(out') = Dialog(invite)]_vars
  BY AckStep DEF AckNamesInvite
<1> QED
  BY <1>1, Inductive, PTL DEF Spec, AckMatchesInvite

-----------------------------------------------------------------------------
(***************************************************************************)
(* Pending commands get their turn: the safety half of what the liveness   *)
(* properties of SIPModule.tla promise.                                    *)
(***************************************************************************)
\* tx() leaves a hang-up pending only behind an open window; and no dial is
\* pending in the state the dial led to.
TurnInv == /\ command = "Cancel" /\ pc = "rx" => receivedStarted # "zero"
           /\ state = "INVITE_UNAUTH" => command # "Dial"

LEMMA TurnStep == TurnInv /\ [Next]_vars => TurnInv'
<1> SUFFICES ASSUME TurnInv, [Next]_vars PROVE TurnInv'
  OBVIOUS
<1> USE DEF TurnInv
<1>1. CASE Owner
  BY <1>1 DEF Owner, RequestRing, RequestCancel, Run
<1>2. CASE Tx
  BY <1>2 DEF Tx, TxBlocked, TxHangup, TxRegister, TxRegisterAuth, TxInvite,
              TxInviteAuth, TxAck, TxCancelledAck, TxSilent, CanSend, SetState,
              timers
<1>3. CASE RxQuietStep
  BY <1>3 DEF RxQuietStep, RxQuiet, RxErrorWaits, RxErrorOver, RxDial, RxAdvance,
              RxOpenWindow, RxCollect, RxNothing
<1>4. ASSUME NEW p \in Packet, RxPacketStep(p)
      PROVE  TurnInv'
  <2>1. state' = "INVITE_UNAUTH" => state = "INVITE_UNAUTH"
    BY <1>4 DEF RxPacketStep, RxPacket, HandleServerError, HandleByState,
         HandleRegistering, HandleRegisterReply, HandleRegistered,
         HandleInviteReply, HandleInviteAuthReply, HandlePickup,
         HandleRequestCancelled, HandleRechallenge, HandleDecline, HandleHungUp,
         HandleCancelReply, HandleUnexpected, NoReaction, Become, Ignore, Fail,
         StartRinging, SetState
  <2> QED
    BY <1>4, <2>1 DEF RxPacketStep, RxPacket
<1>5. CASE Clock
  BY <1>5 DEF Clock, WindowElapses, BackoffElapses
<1> QED
  BY <1>1, <1>2, <1>3, <1>4, <1>5, StepCases, Unchanged

\* When rx() follows a tx() that left a hang-up pending, a window is open, so that
\* rx() opens none in front of it; and no dial is pending while an INVITE is about
\* to be sent, which rx() would take instead of moving on.
THEOREM TurnsAreKept == Spec => []TurnInv
<1>1. Init => TurnInv
  BY DEF Init, TurnInv
<1> QED
  BY <1>1, TurnStep, PTL DEF Spec

HangupWaitsOnce ==
  command = "Cancel" =>
    /\ receivedStarted = "zero" => receivedStarted' = "zero"
    /\ command' = "Idle" => out'.method \in {"CANCEL", "BYE"} /\ state' = "IDLE"
    /\ command' = "Dial" => state = "REGISTERED"

LEMMA HangupStep == ASSUME TurnInv, [Next]_vars PROVE HangupWaitsOnce
<1> SUFFICES ASSUME command = "Cancel"
             PROVE  /\ receivedStarted = "zero" => receivedStarted' = "zero"
                    /\ command' = "Idle" =>
                         out'.method \in {"CANCEL", "BYE"} /\ state' = "IDLE"
                    /\ command' = "Dial" => state = "REGISTERED"
  BY DEF HangupWaitsOnce
<1> USE DEF timers
<1>1. CASE Owner
  BY <1>1 DEF Owner, RequestRing, RequestCancel, Run
<1>2. CASE Tx
  <2>1. CASE TxHangup
    <3>1. Cancel.method = "CANCEL" /\ Bye(ByeSeq).method = "BYE"
      BY DEF Cancel, Bye, Request
    <3>2. out' \in {Cancel, Bye(ByeSeq)}
      BY <2>1 DEF TxHangup
    <3> QED
      BY <2>1, <3>1, <3>2 DEF TxHangup, SetState
  <2>2. CASE TxBlocked
    BY <2>2 DEF TxBlocked
  <2> QED
    BY <1>2, <2>1, <2>2 DEF Tx, TxRegister, TxRegisterAuth, TxInvite,
                TxInviteAuth, TxAck, TxCancelledAck, TxSilent
<1>3. CASE RxQuietStep
  BY <1>3 DEF TurnInv, RxQuietStep, RxQuiet, RxErrorWaits, RxErrorOver, RxDial,
              RxAdvance, RxOpenWindow, RxCollect, RxNothing
<1>4. CASE \E p \in Packet : RxPacketStep(p)
  BY <1>4 DEF RxPacketStep, RxPacket
<1>5. CASE Clock
  BY <1>5 DEF Clock, WindowElapses, BackoffElapses
<1> QED
  BY <1>1, <1>2, <1>3, <1>4, <1>5, StepCases, Unchanged

\* A hang-up that request_cancel() left pending waits for at most the receive
\* window that is open: none is opened in front of it.  It is taken off only by
\* the tx() that sends its CANCEL or BYE and leaves for IDLE, and only a dial of
\* a registered client, which is in no call, displaces it.
THEOREM HangupsGetTheirTurn == Spec => [][HangupWaitsOnce]_vars
<1>1. TurnInv /\ [Next]_vars => [HangupWaitsOnce]_vars
  BY HangupStep
<1> QED
  BY <1>1, TurnsAreKept, PTL DEF Spec

LeavesAtOnce ==
  state = "INVITE_UNAUTH" /\ pc = "rx" /\ pc' = "caller" =>
    state' = "INVITE_UNAUTH_SENT"

LEMMA LeaveStep == ASSUME IInv, TurnInv, [Next]_vars PROVE LeavesAtOnce
<1> SUFFICES ASSUME state = "INVITE_UNAUTH", pc = "rx", pc' = "caller"
             PROVE  state' = "INVITE_UNAUTH_SENT"
  BY DEF LeavesAtOnce
<1>1. receivedStarted = "zero" /\ command # "Dial"
  BY DEF IInv, TransientStatesSeeNoPacket, TurnInv
<1>2. CASE RxQuietStep
  BY <1>1, <1>2 DEF RxQuietStep, RxQuiet, RxErrorWaits, RxErrorOver, RxDial,
                    RxAdvance, RxOpenWindow, RxCollect, RxNothing
<1>3. CASE Owner \/ Tx \/ Clock
  BY <1>3 DEF Owner, RequestRing, RequestCancel, Run, Tx, Clock,
              WindowElapses, BackoffElapses
<1>4. CASE \E p \in Packet : RxPacketStep(p)
  BY <1>1, <1>4 DEF RxPacketStep, RxPacket
<1> QED
  BY <1>2, <1>3, <1>4, StepCases, Unchanged

\* The INVITE of a call is not sent twice without a digest: the rx() that
\* follows the tx() that sent it moves on, whatever the owner requested and
\* whatever the socket holds (no window is open, no dial is in the way).
THEOREM InvitesLeaveOnce == Spec => [][LeavesAtOnce]_vars
<1>1. IInv /\ TurnInv /\ [Next]_vars => [LeavesAtOnce]_vars
  BY LeaveStep
<1> QED
  BY <1>1, Inductive, TurnsAreKept, PTL DEF Spec

=============================================================================
