------------------------ MODULE SIPModuleCalls_proofs ------------------------
(***************************************************************************)
(* The module and its SIP client implement Call.tla, for any number of     *)
(* channels and phone numbers and whatever the gateway does.               *)
(***************************************************************************)
EXTENDS SIPModuleCalls, SIPModule_proofs

\* run() is only called on a client.
OnlyClientsRun == running => client

RInv == IInv /\ MTypeOK /\ CallIsTimed /\ OnlyClientsRun

LEMMA OnlyClientsRunAlways == MSpec => []OnlyClientsRun
<1>1. MInit => OnlyClientsRun
  BY DEF MInit, OnlyClientsRun
<1>2. OnlyClientsRun /\ [MNext]_mvars => OnlyClientsRun'
  BY MUnchanged DEF OnlyClientsRun, MNext, LoopRun, LoseClient, CreateClient,
     ClientRuns, LoopCalls, AfterRun, InputKo, TriggeredBy, WriteKo, ConsoleCall,
     Hangup, NetChanges, WindowEnds, BackoffEnds, CallTimeElapses
<1> QED
  BY <1>1, <1>2, PTL DEF MSpec

\* What the house sees of the call, by the registers it depends on.
LEMMA Seen ==
  /\ Phase = "asked" <=> client /\ state = "REGISTERED" /\ command = "Dial"
  /\ Phase = "calling" <=> client /\ state \in Outgoing
  /\ Phase = "talking" <=> client /\ state \in Talking
  /\ Phase \in {"none", "asked", "calling", "talking"}
BY DEF Phase, Outgoing, Inviting, Talking

\* A step that changes none of those registers is none of the house's.
LEMMA NothingSeen ==
  ASSUME UNCHANGED <<client, state, command, uri, triggered>>,
         (since = "zero") <=> (since' = "zero")
  PROVE  UNCHANGED House!cvars
BY DEF House!cvars, Wanted, Phase, Number, Timed, HangupAsked

-----------------------------------------------------------------------------
(***************************************************************************)
(* The client's own steps: only a packet, a pending dial and a hang-up     *)
(* change the call.                                                        *)
(***************************************************************************)
LEMMA TxIsSeen ==
  ASSUME RInv, client, Tx, UNCHANGED <<client, since, triggered>>
  PROVE  [House!CNext]_House!cvars
<1> USE DEF vars, timers, ids, auth, history
<1>1. CASE TxHangup
  <2>1. HangupAsked /\ ~HangupAsked' /\ state' = "IDLE"
    BY <1>1 DEF TxHangup, SetState, HangupAsked
  <2>2. Phase' = "none" /\ Number' = "nobody"
    BY <2>1 DEF Phase, Number, Outgoing, Inviting, Talking
  <2>3. House!HangUp
    BY <2>1, <2>2 DEF House!HangUp, Wanted, Timed, HangupAsked
  <2> QED
    BY <2>3 DEF House!CNext
<1>2. CASE ~TxHangup
  <2>1. UNCHANGED <<state, command, uri>>
    BY <1>2 DEF Tx, TxBlocked, TxRegister, TxRegisterAuth, TxInvite, TxInviteAuth,
                TxAck, TxCancelledAck, TxSilent
  <2> QED
    BY <2>1, NothingSeen
<1> QED
  BY <1>1, <1>2

LEMMA QuietIsSeen ==
  ASSUME RInv, client, RxQuietStep, UNCHANGED <<client, since, triggered>>
  PROVE  [House!CNext]_House!cvars
<1> USE DEF vars, timers, ids, auth, history
<1>1. CASE RxErrorWaits \/ RxOpenWindow \/ RxCollect \/ RxNothing
  BY <1>1, NothingSeen DEF RxErrorWaits, RxOpenWindow, RxCollect, RxNothing
<1>2. CASE RxErrorOver \/ RxAdvance
  BY <1>2 DEF RxErrorOver, RxAdvance, House!cvars, Wanted, Phase, Number, Timed,
              HangupAsked, Outgoing, Inviting, Talking
<1>3. CASE RxDial /\ state = "REGISTERED"
  <2>1. Phase = "asked" /\ Phase' = "calling" /\ Number' = Number
    BY <1>3 DEF RxDial, Phase, Number, Outgoing, Inviting, Talking
  <2>2. UNCHANGED <<Wanted, Timed, HangupAsked>>
    BY <1>3 DEF RxDial, Wanted, Timed, HangupAsked
  <2> QED
    BY <2>1, <2>2 DEF House!CNext, House!Place
<1>4. CASE RxDial /\ state # "REGISTERED"
  BY <1>4 DEF RxDial, House!cvars, Wanted, Phase, Number, Timed, HangupAsked
<1> QED
  BY <1>1, <1>2, <1>3, <1>4 DEF RxQuietStep, RxQuiet

LEMMA PacketIsSeen ==
  ASSUME RInv, client, NEW p \in Packet, RxPacketStep(p),
         UNCHANGED <<client, since, triggered>>
  PROVE  [House!CNext]_House!cvars
<1> USE DEF Outgoing, Inviting, Talking
<1>1. UNCHANGED <<Wanted, Timed, HangupAsked>> /\ command' = command
  BY DEF RxPacketStep, RxPacket, Wanted, Timed, HangupAsked
<1>2. command = "Dial" => state = "REGISTERED"
  BY DEF RInv, IInv, DialInv, RxPacketStep, RxPacket
<1>3. /\ state' \in Outgoing => state \in Outgoing
      /\ state # "REGISTER_AUTH" => uri' = uri
      /\ state = "REGISTER_AUTH" => state' \in {"REGISTERED", "ERROR"}
  BY DEF RxPacketStep, RxPacket, HandleServerError, HandleByState,
     HandleRegistering, HandleRegisterReply, HandleRegistered,
     HandleInviteReply, HandleInviteAuthReply, HandlePickup,
     HandleRequestCancelled, HandleRechallenge, HandleDecline, HandleHungUp,
     HandleCancelReply, HandleUnexpected, NoReaction, Become, Ignore, Fail,
     StartRinging, SetState
<1>4. Phase' = "asked" => Phase = "asked" /\ Number' = Number
  BY <1>1, <1>2, <1>3 DEF Phase, Number
<1>5. Phase' = "calling" => Phase = "calling" /\ Number' = Number
  BY <1>3, Seen DEF Phase, Number
<1>6. Phase' \in {"none", "talking"} => Number' = "nobody"
  BY DEF Number
<1>7. Phase \in {"none", "talking"} => Number = "nobody"
  BY DEF Number
<1>8. Phase' \in {"none", "asked", "calling", "talking"}
  BY DEF Phase
<1>9. CASE Phase' = Phase
  BY <1>1, <1>4, <1>5, <1>6, <1>7, <1>8, <1>9 DEF House!cvars
<1>10. CASE Phase' # Phase /\ Phase' = "talking"
  BY <1>1, <1>6, <1>10 DEF House!CNext, House!Connect
<1>11. CASE Phase' # Phase /\ Phase' = "none"
  BY <1>1, <1>6, <1>11 DEF House!CNext, House!End
<1> QED
  BY <1>4, <1>5, <1>8, <1>9, <1>10, <1>11

-----------------------------------------------------------------------------
(***************************************************************************)
(* The module's steps.                                                     *)
(***************************************************************************)
\* request_cancel(), by the timer or by the console.
LEMMA HangupIsSeen ==
  ASSUME RInv, client, RequestCancel, UNCHANGED <<client, triggered>>,
         since' \in {"zero", since}
  PROVE  House!CNext
<1> USE DEF timers, ids, auth, history
<1>1. HangupAsked' /\ UNCHANGED <<Wanted, state, uri>>
  BY DEF RequestCancel, HangupAsked, Wanted
<1>2. Timed' \in {FALSE, Timed}
  BY DEF Timed
<1>3. Phase = "asked" => Phase' = "none" /\ Number' = "nobody"
  BY <1>1 DEF RequestCancel, Phase, Number, Outgoing, Inviting, Talking
<1>4. Phase # "asked" => UNCHANGED <<Phase, Number>>
  BY <1>1 DEF RequestCancel, Phase, Number
<1> QED
  BY <1>1, <1>2, <1>3, <1>4 DEF House!CNext, House!RequestHangup

\* A channel's trigger becomes its call, or is lost.
LEMMA ServeIsSeen ==
  ASSUME RInv, client, StartCall, UNCHANGED client
  PROVE  House!CNext
<1> USE DEF StartCall, timers, ids, auth, history
<1>1. current \in Channels /\ current \in Wanted /\ ~Timed /\ Timed'
  BY DEF NeedCall, IsChannel, Wanted, Timed
<1>2. Wanted' = Wanted \ {current}
  <2>1. triggered \in [Channels -> BOOLEAN]
    BY DEF RInv, MTypeOK
  <2> QED
    BY <1>1, <2>1 DEF Wanted
<1>3. command # "Dial"
  BY DEF RInv, CallIsTimed
<1>4. CASE state = "REGISTERED"
  <2>1. Phase = "none" /\ Phase' = "asked" /\ Number' = PhoneNumber[current]
    BY <1>3, <1>4 DEF RequestRing, Phase, Number, Outgoing, Inviting, Talking
  <2>2. ~HangupAsked'
    BY <1>4 DEF RequestRing, HangupAsked
  <2> QED
    BY <1>1, <1>2, <2>1, <2>2 DEF House!CNext, House!Serve
<1>5. CASE state # "REGISTERED"
  <2>1. UNCHANGED <<Phase, Number, HangupAsked>>
    BY <1>5 DEF RequestRing, Phase, Number, HangupAsked
  <2> QED
    BY <1>1, <1>2, <2>1 DEF House!CNext, House!Serve
<1> QED
  BY <1>4, <1>5

LEMMA InputIsSeen ==
  ASSUME RInv, NEW slot, NEW value \in BOOLEAN, InputKo(slot, value)
  PROVE  [House!CNext]_House!cvars
<1>1. UNCHANGED <<Phase, Number, Timed, HangupAsked>>
  BY DEF InputKo, vars, Phase, Number, Timed, HangupAsked
<1>2. triggered \in [Channels -> BOOLEAN]
  BY DEF RInv, MTypeOK
<1>3. CASE slot \in Channels /\ value
  <2>1. Wanted' = Wanted \cup {slot}
    BY <1>2, <1>3 DEF InputKo, TriggeredBy, Wanted
  <2> QED
    BY <1>1, <1>3, <2>1 DEF House!CNext, House!Want
<1>4. CASE ~(slot \in Channels /\ value)
  <2>1. Wanted' = Wanted
    BY <1>2, <1>4 DEF InputKo, TriggeredBy, Wanted
  <2> QED
    BY <1>1, <2>1 DEF House!cvars
<1> QED
  BY <1>3, <1>4

LEMMA StepIsSeen ==
  ASSUME RInv, [MNext]_mvars
  PROVE  [House!CNext]_House!cvars
<1> USE DEF status, calls
<1>1. CASE LoopRun
  BY <1>1, NothingSeen DEF LoopRun, Run, timers, ids, auth, history
<1>2. CASE LoseClient
  <2>1. /\ Phase' = "none" /\ Number' = "nobody" /\ ~Timed' /\ ~HangupAsked'
        /\ Wanted' = Wanted
    BY <1>2 DEF LoseClient, Phase, Number, Timed, HangupAsked, Wanted
  <2> QED
    BY <2>1 DEF House!CNext, House!Lose, HangupAsked, Timed
<1>3. CASE CreateClient
  BY <1>3 DEF CreateClient, Construct, House!cvars, Wanted, Phase, Number, Timed,
              HangupAsked, Outgoing, Inviting, Talking
<1>4. CASE ClientRuns
  <2>1. client /\ UNCHANGED <<client, since, triggered>>
    BY <1>4 DEF ClientRuns, RInv, OnlyClientsRun
  <2>2. Tx \/ RxQuietStep \/ \E p \in Packet : RxPacketStep(p)
    BY <1>4 DEF ClientRuns, Rx, RxQuietStep, RxPacketStep
  <2> QED
    BY <2>1, <2>2, TxIsSeen, QuietIsSeen, PacketIsSeen
<1>5. CASE LoopCalls
  <2>1. client /\ client' = client
    BY <1>5 DEF LoopCalls, AfterRun, RInv, OnlyClientsRun
  <2>2. CASE CallTimeout
    BY <2>1, <2>2, HangupIsSeen DEF CallTimeout
  <2>3. CASE StartCall
    BY <2>1, <2>3, ServeIsSeen
  <2>4. CASE CallGoesOn \/ SkipChannel
    BY <2>1, <2>4, NothingSeen, Unchanged DEF CallGoesOn, SkipChannel
  <2> QED
    BY <1>5, <2>2, <2>3, <2>4 DEF LoopCalls
<1>6. CASE Inputs
  BY <1>6, InputIsSeen DEF Inputs, WriteKo, ConsoleCall
<1>7. CASE Hangup
  BY <1>7, HangupIsSeen DEF Hangup
<1>8. CASE NetChanges \/ CallTimeElapses
  BY <1>8, NothingSeen, Unchanged DEF NetChanges, CallTimeElapses
<1>9. CASE WindowEnds \/ BackoffEnds
  BY <1>9, NothingSeen DEF WindowEnds, BackoffEnds, WindowElapses, BackoffElapses,
                           timers, ids, auth, history
<1>10. CASE UNCHANGED mvars
  BY <1>10, NothingSeen, MUnchanged, Unchanged
<1> QED
  BY <1>1, <1>2, <1>3, <1>4, <1>5, <1>6, <1>7, <1>8, <1>9, <1>10 DEF MNext, Inputs

\* Whatever the gateway, the network and the clock do, the calls of the module
\* are calls as Call.tla promises them: triggered, once, for the channel's own
\* number, one at a time, and each with its timer or its hang-up.
THEOREM CallsAreAsPromised == MSpec => ImplementsCall
<1>1. MInit => House!CInit
  BY DEF MInit, House!CInit, Wanted, Phase, Number, Timed, HangupAsked
<1>2. RInv /\ [MNext]_mvars => [House!CNext]_House!cvars
  BY StepIsSeen
<1>3. MSpec => []RInv
  BY ClientInvariant, MTypeCorrect, CallsAreTimed, OnlyClientsRunAlways, PTL DEF RInv
<1> QED
  BY <1>1, <1>2, <1>3, PTL DEF MSpec, ImplementsCall, House!CallSpec

-----------------------------------------------------------------------------
\* The promise of Call.tla includes that no call is left to itself.
LEMMA PromisesAnEnd == House!CallSpec => []House!NeverUntimed
<1> USE DEF House!NeverUntimed
<1>1. House!CInit => House!NeverUntimed
  BY DEF House!CInit
<1>2. House!NeverUntimed /\ [House!CNext]_House!cvars => House!NeverUntimed'
  <2> SUFFICES ASSUME House!NeverUntimed, [House!CNext]_House!cvars
               PROVE  House!NeverUntimed'
    OBVIOUS
  <2>1. CASE \E c \in Channels : House!Want(c)
    BY <2>1 DEF House!Want
  <2>2. ASSUME NEW c \in Channels, House!Serve(c) PROVE House!NeverUntimed'
    BY <2>2 DEF House!Serve
  <2>3. CASE House!Place
    BY <2>3 DEF House!Place
  <2>4. CASE House!Connect \/ House!End \/ House!HangUp \/ House!Lose
    BY <2>4 DEF House!Connect, House!End, House!HangUp, House!Lose
  <2>5. CASE House!RequestHangup
    BY <2>5 DEF House!RequestHangup
  <2>6. CASE UNCHANGED House!cvars
    BY <2>6 DEF House!cvars
  <2> QED
    BY <2>1, <2>2, <2>3, <2>4, <2>5, <2>6 DEF House!CNext
<1> QED
  BY <1>1, <1>2, PTL DEF House!CallSpec

\* So the module never has a call asked for or placed that neither its timer nor
\* a hang-up will end, and none that is not for the number of a channel.
THEOREM NoCallIsLeftAlone == MSpec => []House!NeverUntimed
BY CallsAreAsPromised, PromisesAnEnd, PTL DEF ImplementsCall

=============================================================================
