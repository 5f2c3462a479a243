-------------------------- MODULE SIPModule_proofs --------------------------
(***************************************************************************)
(* Theorems about SIPModule.cpp and the client it owns, for any number of  *)
(* channels and phone numbers.                                             *)
(***************************************************************************)
EXTENDS Integers, SIPModule, SipClient_proofs

USE DEF Timer, SipCommand, SipState, Response

Inputs == \/ \E slot \in 0 .. ChannelCount - 1, value \in BOOLEAN : InputKo(slot, value)
          \/ \E cc \in 0 .. ChannelCount + 1 : ConsoleCall(cc)

LEMMA MUnchanged ==
  UNCHANGED mvars =>
    UNCHANGED <<vars, client, net, running, connected, ko, since, current,
                triggered>>
BY DEF mvars, status, calls

(***************************************************************************)
(* To the client, its owner is what SipClient.tla says of an owner, except *)
(* that a new client may take its place.                                   *)
(***************************************************************************)
LEMMA ClientStep ==
  ASSUME [MNext]_mvars
  PROVE  [Next]_vars \/ (Construct /\ ~client)
<1>1. CASE LoopRun \/ LoseClient \/ CreateClient \/ ClientRuns
  BY <1>1 DEF LoopRun, LoseClient, CreateClient, ClientRuns, Next
<1>2. CASE LoopCalls
  <2>1. CASE CallTimeout \/ CallGoesOn \/ SkipChannel
    BY <2>1 DEF CallTimeout, CallGoesOn, SkipChannel, Next
  <2>2. CASE StartCall
    <3>1. PhoneNumber[current] \in Numbers
      BY <2>2, PhoneAssumption DEF StartCall, NeedCall, IsChannel
    <3> QED
      BY <2>2, <3>1 DEF StartCall, Next
  <2> QED
    BY <1>2, <2>1, <2>2 DEF LoopCalls
<1>3. CASE Inputs \/ Hangup \/ NetChanges
  BY <1>3 DEF Inputs, InputKo, TriggeredBy, WriteKo, ConsoleCall, Hangup, NetChanges, Next
<1>4. CASE WindowEnds \/ BackoffEnds \/ CallTimeElapses
  BY <1>4 DEF WindowEnds, BackoffEnds, CallTimeElapses, Next
<1>5. CASE UNCHANGED mvars
  BY <1>5, MUnchanged
<1> QED
  BY <1>1, <1>2, <1>3, <1>4, <1>5 DEF MNext, Inputs

LEMMA NewClient == Construct => IInv'
<1> SUFFICES ASSUME Construct PROVE IInv'
  OBVIOUS
<1>1. TypeOK'
  <2>1. 0 .. SeqRand - 1 \subseteq Seqs
    BY SeedsAreSeqs
  <2> QED
    BY <2>1 DEF Construct, TypeOK, Uri
<1>2. TransientStatesSeeNoPacket' /\ AnswerInv'
  BY DEF Construct, TransientStatesSeeNoPacket, AnswerInv, AnswerIsAcknowledged
<1>3. DigestInv' /\ DialInv'
  BY NoFields DEF Construct, DigestInv, Registered, UnauthInviteIsBare, DialInv,
                  InvitesGoWhereAsked, Inviting
<1>4. InviteInv'
  BY DEF Construct, InviteInv, InviteIsCancellable, Inviting
<1> QED
  BY <1>1, <1>2, <1>3, <1>4 DEF IInv

\* Everything proved of a client on its own holds of the clients of this
\* module, across the creation and the deletion of any number of them.
THEOREM ClientInvariant == MSpec => []IInv
<1>1. MInit => IInv
  BY InitEstablishes DEF MInit
<1>2. IInv /\ [MNext]_mvars => IInv'
  BY ClientStep, InductiveStep, NewClient
<1> QED
  BY <1>1, <1>2, PTL DEF MSpec

\* The registers of the client stay in their ranges in the module, too.
THEOREM ClientTypes == MSpec => []TypeOK
<1>1. IInv => TypeOK
  BY DEF IInv
<1> QED
  BY <1>1, ClientInvariant, PTL

\* The index of the polled channel, and the other registers of the module,
\* stay in their ranges.
THEOREM MTypeCorrect == MSpec => []MTypeOK
<1> USE DEF MTypeOK
<1>1. MInit => MTypeOK
  <2>1. 0 \in 0 .. ChannelCount - 1
    BY ChannelAssumption
  <2> QED
    BY <2>1 DEF MInit
<1>2. MTypeOK /\ TypeOK /\ [MNext]_mvars => MTypeOK'
  <2> SUFFICES ASSUME MTypeOK, TypeOK, [MNext]_mvars PROVE MTypeOK'
    OBVIOUS
  <2> USE DEF status, calls
  <2>1. CASE LoopRun \/ LoseClient
    <3>1. IsConnected \in BOOLEAN
      BY DEF IsConnected
    <3>2. ASSUME NEW old \in BOOLEAN, Publish(old, IsConnected)
          PROVE  connected' \in BOOLEAN /\ ko' \in BOOLEAN
      BY <3>1, <3>2 DEF Publish
    <3>3. connected' \in BOOLEAN /\ ko' \in BOOLEAN
      BY <2>1, <3>2 DEF LoopRun, LoseClient
    <3> QED
      BY <2>1, <3>3 DEF LoopRun, LoseClient
  <2>6. CASE CreateClient \/ ClientRuns
    BY <2>6 DEF CreateClient, ClientRuns
  <2>2. CASE LoopCalls
    <3>1. NextChannel \in 0 .. ChannelCount - 1
      BY ChannelAssumption DEF NextChannel
    <3> QED
      BY <2>2, <3>1 DEF LoopCalls, AfterRun, CallTimeout, CallGoesOn, StartCall,
                        SkipChannel
  <2>3. CASE Inputs \/ Hangup \/ NetChanges
    BY <2>3 DEF Inputs, InputKo, TriggeredBy, WriteKo, ConsoleCall, Hangup, NetChanges
  <2>4. CASE WindowEnds \/ BackoffEnds \/ CallTimeElapses
    BY <2>4 DEF WindowEnds, BackoffEnds, CallTimeElapses
  <2>5. CASE UNCHANGED mvars
    BY <2>5, MUnchanged
  <2> QED
    BY <2>1, <2>2, <2>3, <2>4, <2>5, <2>6 DEF MNext, Inputs
<1> QED
  BY <1>1, <1>2, ClientTypes, PTL DEF MSpec

-----------------------------------------------------------------------------
(***************************************************************************)
(* The call timer.                                                         *)
(***************************************************************************)

\* What a step of the client does to the call, as far as the timer goes.
LEMMA ClientCall ==
  ASSUME Tx \/ Rx
  PROVE  /\ command' = "Dial" => command = "Dial"
         /\ state' \in Outgoing =>
              \/ state \in Outgoing /\ (command = "Cancel" => command' = "Cancel")
              \/ command = "Dial"
<1> USE DEF Outgoing, Inviting
<1>1. CASE Tx
  BY <1>1 DEF Tx, TxBlocked, TxHangup, TxRegister, TxRegisterAuth, TxInvite,
       TxInviteAuth, TxAck, TxCancelledAck, TxSilent, CanSend, SetState
<1>2. CASE RxQuietStep
  BY <1>2 DEF RxQuietStep, RxQuiet, RxErrorWaits, RxErrorOver, RxDial, RxAdvance,
       RxOpenWindow, RxCollect, RxNothing
<1>3. ASSUME NEW p \in Packet, RxPacketStep(p)
      PROVE  command' = command /\ (state' \in Outgoing => state \in Outgoing)
  BY <1>3 DEF RxPacketStep, RxPacket, HandleServerError, HandleByState,
       HandleRegistering, HandleRegisterReply, HandleRegistered,
       HandleInviteReply, HandleInviteAuthReply, HandlePickup,
       HandleRequestCancelled, HandleRechallenge, HandleDecline, HandleHungUp,
       HandleCancelReply, HandleUnexpected, NoReaction, Become, Ignore, Fail,
       StartRinging, SetState
<1>4. Rx => RxQuietStep \/ \E p \in Packet : RxPacketStep(p)
  BY DEF Rx, RxQuietStep, RxPacketStep
<1> QED
  BY <1>1, <1>2, <1>3, <1>4

\* No outgoing call is ever without its timer or its hang-up.
THEOREM CallsAreTimed == MSpec => []CallIsTimed
<1> USE DEF CallIsTimed
<1>1. MInit => CallIsTimed
  BY DEF MInit
<1>2. CallIsTimed /\ [MNext]_mvars => CallIsTimed'
  <2> SUFFICES ASSUME CallIsTimed, [MNext]_mvars PROVE CallIsTimed'
    OBVIOUS
  <2> USE DEF vars, timers, ids, auth, history, calls, Outgoing, Inviting
  <2>1. CASE LoopRun
    BY <2>1 DEF LoopRun, Run
  <2>2. CASE LoseClient
    BY <2>2 DEF LoseClient
  <2>3. CASE CreateClient
    BY <2>3 DEF CreateClient, Construct
  <2>4. CASE ClientRuns
    <3>1. UNCHANGED <<client, since>>
      BY <2>4 DEF ClientRuns
    <3> QED
      BY <2>4, <3>1, ClientCall DEF ClientRuns
  <2>5. CASE LoopCalls
    <3>1. CASE CallTimeout
      BY <2>5, <3>1 DEF LoopCalls, CallTimeout, RequestCancel
    <3>2. CASE StartCall
      BY <2>5, <3>2 DEF LoopCalls, StartCall, RequestRing
    <3>3. CASE CallGoesOn \/ SkipChannel
      BY <2>5, <3>3 DEF LoopCalls, CallGoesOn, SkipChannel
    <3> QED
      BY <2>5, <3>1, <3>2, <3>3 DEF LoopCalls
  <2>6. CASE Inputs \/ NetChanges
    BY <2>6 DEF Inputs, InputKo, TriggeredBy, WriteKo, ConsoleCall, NetChanges
  <2>7. CASE Hangup
    BY <2>7 DEF Hangup, RequestCancel
  <2>8. CASE WindowEnds \/ BackoffEnds
    BY <2>8 DEF WindowEnds, BackoffEnds, WindowElapses, BackoffElapses
  <2>9. CASE CallTimeElapses
    BY <2>9 DEF CallTimeElapses
  <2>10. CASE UNCHANGED mvars
    BY <2>10, MUnchanged
  <2> QED
    BY <2>1, <2>2, <2>3, <2>4, <2>5, <2>6, <2>7, <2>8, <2>9, <2>10 DEF MNext, Inputs
<1> QED
  BY <1>1, <1>2, PTL DEF MSpec

-----------------------------------------------------------------------------
(***************************************************************************)
(* What the client promises its owner, kept in the module.                 *)
(***************************************************************************)
LEMMA TurnsInModule == MSpec => []TurnInv
<1>1. MInit => TurnInv
  BY DEF MInit, Init, TurnInv
<1>2. Construct => TurnInv'
  BY DEF Construct, TurnInv
<1>3. TurnInv /\ [MNext]_mvars => TurnInv'
  BY <1>2, ClientStep, TurnStep
<1> QED
  BY <1>1, <1>3, PTL DEF MSpec

Promises == client => HangupWaitsOnce /\ LeavesAtOnce

\* In the module, too, a hang-up of the call timer or of the console waits for
\* one receive window at most and is always sent, and a call sends its bare
\* INVITE once: deleting and creating the client, and its being idle while there
\* is no network, does not take a turn away.
THEOREM TurnsOfTheOwner == MSpec => [][Promises]_mvars
<1>1. IInv /\ TurnInv /\ [MNext]_mvars => [Promises]_mvars
  BY ClientStep, HangupStep, LeaveStep DEF Promises
<1> QED
  BY <1>1, ClientInvariant, TurnsInModule, PTL DEF MSpec

-----------------------------------------------------------------------------
(***************************************************************************)
(* The triggers, by turns: the safety half of TriggersServed.              *)
(***************************************************************************)
\* The polls of other channels that come before the poll of a channel.
Distance(c) == (c - current) % ChannelCount
Polls == LoopCalls /\ since = "zero"

LEMMA ChannelTurn ==
  ASSUME NEW n \in Nat \ {0}, NEW c \in 0 .. n - 1, NEW d \in 0 .. n - 1, c # d
  PROVE  (c - ((d + 1) % n)) % n = ((c - d) % n) - 1
<1> DEFINE D(x) == IF x >= 0 THEN x ELSE x + n
<1>1. ASSUME NEW x \in Int, -n < x, x < n PROVE x % n = D(x)
  <2>1. CASE x >= 0
    BY <1>1, <2>1
  <2>2. CASE x < 0
    BY <1>1, <2>2
  <2> QED
    BY <2>1, <2>2
<1>2. (d + 1) % n = IF d + 1 = n THEN 0 ELSE d + 1
  <2>1. CASE d + 1 = n
    BY <2>1
  <2>2. CASE d + 1 # n
    BY <1>1, <2>2
  <2> QED
    BY <2>1, <2>2
<1>3. (c - d) % n = D(c - d)
  <2>1. c - d \in Int /\ -n < c - d /\ c - d < n
    OBVIOUS
  <2> QED
    BY <1>1, <2>1
<1>4. CASE d + 1 = n
  BY <1>1, <1>2, <1>3, <1>4
<1>5. CASE d + 1 # n
  <2>1. c - (d + 1) \in Int /\ -n < c - (d + 1) /\ c - (d + 1) < n
    BY <1>5
  <2>2. (c - (d + 1)) % n = D(c - (d + 1))
    BY <1>1, <2>1
  <2> QED
    BY <1>2, <1>3, <1>5, <2>2
<1> QED
  BY <1>4, <1>5

\* What the poll of channel c makes of its trigger: the call is asked for, if the
\* client is registered; if it is not, the trigger is lost, and only the timer of
\* a call is started.
TakesUp(c) ==
  /\ Polls /\ c = current /\ since' = "running"
  /\ IF state = "REGISTERED" THEN command' = "Dial" /\ uri' = PhoneNumber[c]
     ELSE UNCHANGED <<command, uri>>

WaitsItsTurn(c) ==
  triggered[c] =>
    IF triggered'[c]
    THEN Distance(c)' = IF Polls THEN Distance(c) - 1 ELSE Distance(c)
    ELSE TakesUp(c)

\* A trigger is forgotten only by the poll of its own channel, and every other
\* poll brings it one channel nearer, so that this poll comes after less than
\* SIP_ChannelCount others, however often the other channels are triggered.  The
\* poll asks the client to call the channel's number just if the client is
\* registered: on one that is not, the trigger is lost (sip_client.h:156).
THEOREM TriggersComeNearer ==
  MSpec => [][\A c \in Channels : WaitsItsTurn(c)]_mvars
<1>1. MTypeOK /\ [MNext]_mvars => [\A c \in Channels : WaitsItsTurn(c)]_mvars
  <2> SUFFICES ASSUME MTypeOK, MNext, NEW c \in Channels, triggered[c]
               PROVE  IF triggered'[c]
                      THEN Distance(c)' = IF Polls THEN Distance(c) - 1
                                          ELSE Distance(c)
                      ELSE TakesUp(c)
    BY DEF WaitsItsTurn
  <2>1. CASE Polls
    <3>1. c \in 0 .. ChannelCount - 1 /\ current \in 0 .. ChannelCount - 1
      BY ChannelAssumption DEF MTypeOK, Channels
    <3>2. current' = NextChannel
      BY <2>1 DEF Polls, LoopCalls, CallTimeout, CallGoesOn, StartCall, SkipChannel
    <3>3. c = current => NeedCall(current)
      BY DEF NeedCall, IsChannel
    <3>6. c # current => Distance(c)' = Distance(c) - 1
      <4>1. ChannelCount \in Nat \ {0}
        BY ChannelAssumption
      <4>2. c # current =>
              (c - ((current + 1) % ChannelCount)) % ChannelCount
                = ((c - current) % ChannelCount) - 1
        BY <3>1, <4>1, ChannelTurn
      <4> QED
        BY <3>2, <4>2 DEF Distance, NextChannel
    <3>4. CASE StartCall
      <4>1. /\ since' = "running"
            /\ triggered' = [triggered EXCEPT ![current] = FALSE]
        BY <3>4 DEF StartCall
      <4>2. triggered \in [Channels -> BOOLEAN]
        BY DEF MTypeOK
      <4>3. c = current => ~triggered'[c]
        BY <4>1, <4>2
      <4>4. c # current => triggered'[c]
        BY <4>1, <4>2
      <4>5. c = current => TakesUp(c)
        BY <2>1, <3>4, <4>1 DEF TakesUp, StartCall, RequestRing
      <4> QED
        BY <2>1, <3>6, <4>3, <4>4, <4>5
    <3>5. CASE SkipChannel
      <4>1. c # current /\ triggered' = triggered
        BY <3>3, <3>5 DEF SkipChannel, calls
      <4> QED
        BY <2>1, <3>6, <4>1
    <3> QED
      BY <2>1, <3>4, <3>5 DEF Polls, LoopCalls, CallTimeout, CallGoesOn
  <2>2. CASE ~Polls
    <3>1. current' = current /\ triggered'[c]
      <4> USE DEF calls, status
      <4>1. CASE LoopRun \/ LoseClient \/ CreateClient \/ ClientRuns
        BY <4>1 DEF LoopRun, LoseClient, CreateClient, ClientRuns
      <4>2. CASE LoopCalls
        BY <2>2, <4>2 DEF Polls, LoopCalls, CallTimeout, CallGoesOn, StartCall,
                          SkipChannel
      <4>3. CASE Inputs \/ Hangup \/ NetChanges
        BY <4>3 DEF Inputs, InputKo, TriggeredBy, WriteKo, ConsoleCall, Hangup,
                    NetChanges
      <4>4. CASE WindowEnds \/ BackoffEnds \/ CallTimeElapses
        BY <4>4 DEF WindowEnds, BackoffEnds, CallTimeElapses
      <4> QED
        BY <4>1, <4>2, <4>3, <4>4 DEF MNext, Inputs
    <3> QED
      BY <2>2, <3>1 DEF Distance
  <2> QED
    BY <2>1, <2>2
<1> QED
  BY <1>1, MTypeCorrect, PTL DEF MSpec

-----------------------------------------------------------------------------
(***************************************************************************)
(* The group object: the safety half of KoShowsRegistration.               *)
(***************************************************************************)
\* The steps of loop() that touch the flag or the group object.
LEMMA StatusSteps ==
  ASSUME MTypeOK, [MNext]_mvars
  PROVE  \/ LoopRun /\ Publish(connected, IsConnected)
         \/ LoseClient /\ Publish(FALSE, IsConnected)
         \/ UNCHANGED <<connected, ko>>
<1> USE DEF status
<1>1. CASE LoopRun \/ LoseClient \/ CreateClient \/ ClientRuns
  BY <1>1 DEF LoopRun, LoseClient, CreateClient, ClientRuns
<1>2. CASE LoopCalls \/ Inputs \/ Hangup \/ NetChanges
  BY <1>2 DEF LoopCalls, Inputs, InputKo, WriteKo, ConsoleCall, Hangup, NetChanges
<1>3. CASE WindowEnds \/ BackoffEnds \/ CallTimeElapses
  BY <1>3 DEF WindowEnds, BackoffEnds, CallTimeElapses
<1>4. CASE UNCHANGED mvars
  BY <1>4, MUnchanged
<1> QED
  BY <1>1, <1>2, <1>3, <1>4 DEF MNext, Inputs

FlagIsShown == connected => ko

\* Whatever the network does, the group object shows a registration as long as
\* the flag holds it ...
THEOREM RegistrationIsShown == MSpec => []FlagIsShown
<1>1. MInit => FlagIsShown
  BY DEF MInit, FlagIsShown
<1>2. MTypeOK /\ FlagIsShown /\ [MNext]_mvars => FlagIsShown'
  BY StatusSteps DEF FlagIsShown, Publish
<1> QED
  BY <1>1, <1>2, MTypeCorrect, PTL DEF MSpec

RunPublishes == LoopRun => connected' = IsConnected /\ (IsConnected => ko')

\* ... and the flag, and with it the object, follow the client in every loop()
\* that runs it: one loop after the client registered the object says so.
THEOREM RunsPublish == MSpec => [][RunPublishes]_mvars
<1>1. FlagIsShown /\ [MNext]_mvars => [RunPublishes]_mvars
  BY DEF RunPublishes, LoopRun, Publish, FlagIsShown
<1> QED
  BY <1>1, RegistrationIsShown, PTL DEF MSpec

KoIsFlag == ko = connected

\* As long as no client is deleted the object is exactly the flag: that it shows
\* a gateway that is gone (run "module_outage") comes from LoseClient alone.
THEOREM OutagesAlone == MSpec /\ [][~LoseClient]_mvars => []KoIsFlag
<1>1. MInit => KoIsFlag
  BY DEF MInit, KoIsFlag
<1>2. MTypeOK /\ KoIsFlag /\ [MNext]_mvars /\ [~LoseClient]_mvars => KoIsFlag'
  <2> SUFFICES ASSUME MTypeOK, KoIsFlag, [MNext]_mvars, [~LoseClient]_mvars
               PROVE  KoIsFlag'
    OBVIOUS
  <2>1. CASE UNCHANGED mvars
    BY <2>1, MUnchanged DEF KoIsFlag
  <2>2. CASE ~LoseClient
    <3>1. IsConnected \in BOOLEAN /\ ko \in BOOLEAN /\ connected \in BOOLEAN
      BY DEF MTypeOK, IsConnected
    <3>2. CASE Publish(connected, IsConnected)
      BY <3>1, <3>2 DEF KoIsFlag, Publish
    <3>3. CASE UNCHANGED <<connected, ko>>
      BY <3>3 DEF KoIsFlag
    <3> QED
      BY <2>2, <3>2, <3>3, StatusSteps
  <2> QED
    BY <2>1, <2>2
<1> QED
  BY <1>1, <1>2, MTypeCorrect, PTL DEF MSpec

-----------------------------------------------------------------------------
(***************************************************************************)
(* The numbers.                                                            *)
(***************************************************************************)
ChannelNumbers == {PhoneNumber[c] : c \in Channels}
NumberInv == /\ uri \in {"registrar", "**613"} \cup ChannelNumbers
             /\ out.method = "INVITE" => out.uri \in ChannelNumbers

\* No step but a dial of the module makes up a number.
LEMMA ClientKeepsNumber ==
  ASSUME TypeOK, Tx \/ Rx
  PROVE  /\ uri' \in {uri, "**613"}
         /\ out'.method = "INVITE" => out'.uri = uri
<1>1. CASE Tx
  <2>1. uri' = uri
    BY <1>1 DEF Tx, TxBlocked, TxHangup, TxRegister, TxRegisterAuth, TxInvite,
                TxInviteAuth, TxAck, TxCancelledAck, TxSilent
  <2> QED
    BY <1>1, <2>1, TxSends
<1>2. CASE RxQuietStep
  BY <1>2, NoFields DEF RxQuietStep, RxQuiet, RxErrorWaits, RxErrorOver, RxDial,
              RxAdvance, RxOpenWindow, RxCollect, RxNothing
<1>3. ASSUME NEW p \in Packet, RxPacketStep(p)
      PROVE  uri' \in {uri, "**613"} /\ out'.method # "INVITE"
  <2>1. uri' \in {uri, "**613"}
    BY <1>3 DEF RxPacketStep, RxPacket, HandleServerError, HandleByState,
       HandleRegistering, HandleRegisterReply, HandleRegistered,
       HandleInviteReply, HandleInviteAuthReply, HandlePickup,
       HandleRequestCancelled, HandleRechallenge, HandleDecline, HandleHungUp,
       HandleCancelReply, HandleUnexpected, NoReaction, Become, Ignore, Fail,
       StartRinging
  <2> QED
    BY <1>3, <2>1, PacketSends DEF RxPacketStep
<1>4. Rx => RxQuietStep \/ \E p \in Packet : RxPacketStep(p)
  BY DEF Rx, RxQuietStep, RxPacketStep
<1> QED
  BY <1>1, <1>2, <1>3, <1>4

LEMMA NumberStep ==
  ASSUME IInv, NumberInv, [MNext]_mvars
  PROVE  NumberInv'
<1> USE NoFields DEF NumberInv
<1>1. CASE UNCHANGED vars
  BY <1>1, Unchanged
<1>2. CASE Construct
  BY <1>2 DEF Construct
<1>3. CASE ClientRuns
  <2>1. TypeOK /\ InvitesGoWhereAsked'
    BY ClientStep, InductiveStep, NewClient DEF IInv, DialInv
  <2>2. /\ uri' \in {uri, "**613"}
        /\ out'.method = "INVITE" => out'.uri = uri
    BY <1>3, <2>1, ClientKeepsNumber DEF ClientRuns
  <2>3. out'.method = "INVITE" => out'.uri \in Numbers
    BY <2>1 DEF InvitesGoWhereAsked
  <2>4. out'.method = "INVITE" => uri \in Numbers
    BY <2>2, <2>3
  <2> QED
    BY <2>2, <2>4, NumbersAssumption
<1>4. CASE LoopCalls /\ StartCall
  <2>1. PhoneNumber[current] \in ChannelNumbers
    BY <1>4 DEF StartCall, NeedCall, IsChannel, ChannelNumbers
  <2> QED
    BY <1>4, <2>1 DEF StartCall, RequestRing
<1>5. CASE LoopRun \/ Hangup \/ (LoopCalls /\ CallTimeout)
  BY <1>5 DEF LoopRun, Run, Hangup, CallTimeout, RequestCancel
<1>6. CASE WindowEnds \/ BackoffEnds
  BY <1>6 DEF WindowEnds, BackoffEnds, WindowElapses, BackoffElapses
<1>7. \/ UNCHANGED vars \/ Construct \/ ClientRuns \/ (LoopCalls /\ StartCall)
      \/ LoopRun \/ Hangup \/ (LoopCalls /\ CallTimeout) \/ WindowEnds \/ BackoffEnds
  <2>1. LoopCalls => \/ UNCHANGED vars
                     \/ LoopCalls /\ StartCall
                     \/ LoopCalls /\ CallTimeout
    BY DEF LoopCalls, CallGoesOn, SkipChannel
  <2>2. LoseClient \/ CreateClient => UNCHANGED vars \/ Construct
    BY DEF LoseClient, CreateClient
  <2>3. Inputs \/ NetChanges \/ CallTimeElapses => UNCHANGED vars
    BY DEF Inputs, InputKo, WriteKo, ConsoleCall, NetChanges, CallTimeElapses
  <2>4. UNCHANGED mvars => UNCHANGED vars
    BY MUnchanged
  <2> QED
    BY <2>1, <2>2, <2>3, <2>4 DEF MNext, Inputs
<1> QED
  BY <1>1, <1>2, <1>3, <1>4, <1>5, <1>6, <1>7

\* The module only ever calls the number of one of its channels: neither the
\* "**613" the client stores when it registers, nor a number left in a deleted
\* client, is dialled, however triggers, outages and registrations interleave.
THEOREM OnlyChannelNumbers == MSpec => []NumberInv
<1>1. MInit => NumberInv
  BY NoFields DEF MInit, Init, NumberInv
<1> QED
  BY <1>1, NumberStep, ClientInvariant, PTL DEF MSpec

=============================================================================
