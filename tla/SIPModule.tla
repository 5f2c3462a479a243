----------------------------- MODULE SIPModule -----------------------------
(***************************************************************************)
(* SIPModule.cpp, the owner of the SIP client: loop() creates and deletes  *)
(* the client as the network comes and goes, publishes the connection on a *)
(* group object, runs the client, and turns the triggers of the channels   *)
(* (SIPCallNumberChannel.cpp) into calls that a timer ends.                *)
(*                                                                         *)
(* loop(), the group object callbacks and the console share one thread, so *)
(* a trigger or a "sip hangup" falls between two loops.  The network is    *)
(* looked at once per loop and may change between any two.                 *)
(***************************************************************************)
EXTENDS SipClient

CONSTANTS ChannelCount, \* SIP_ChannelCount, the channels compiled in
          NumChannels,  \* ParamSIP_SIPNumChannels, the channels configured
          PhoneNumber   \* ParamSIP_CHPhoneNumber of each configured channel

ASSUME ChannelAssumption == /\ ChannelCount \in Nat
                            /\ NumChannels \in 1 .. ChannelCount
Channels == 0 .. NumChannels - 1
ASSUME PhoneAssumption == PhoneNumber \in [Channels -> Numbers]

VARIABLES
  client,    \* _sipClient # nullptr; if not, the client's variables are idle
  net,       \* WiFi.isConnected() / openknxNetwork.established()
  running,   \* loop() has called run() and has yet to look at the calls
  connected, \* _connected
  ko,        \* what the group object GatewayConnectionState shows
  since,     \* _sipCallSince, the timer of the call
  current,   \* _currentChannel, the next channel to be polled
  triggered  \* _triggered of each channel

calls == <<since, current, triggered>>
status == <<connected, ko>>
mvars == <<vars, client, net, running, status, calls>>

IsConnected == state \in {"REGISTERED", "RINGING", "CALL_START",
                          "CALL_IN_PROGRESS", "CANCELLED"}

MInit ==
  /\ Init
  /\ client = FALSE /\ net \in BOOLEAN /\ running = FALSE
  /\ connected = FALSE /\ ko = FALSE
  /\ since = "zero" /\ current = 0
  /\ triggered = [c \in Channels |-> FALSE]

-----------------------------------------------------------------------------
(***************************************************************************)
(* loop(), first half: the connection flag and run().                      *)
(***************************************************************************)
\* A deviation used to test KoShowsRegistration: the value is sent before the
\* flag is updated.
PublishEarly(old, new) ==
  /\ connected' = new
  /\ ko' = IF old # new THEN old ELSE ko

Publish(old, new) ==
  /\ connected' = new
  /\ ko' = IF old # new THEN new ELSE ko

LoopRun ==
  /\ ~running /\ client /\ net
  /\ Publish(connected, IsConnected)
  /\ Run
  /\ running' = TRUE
  /\ UNCHANGED <<client, net, calls>>

\* The flag is reset, then compared with what the client said before it was
\* deleted.
LoseClient ==
  /\ ~running /\ client /\ ~net
  /\ client' = FALSE
  /\ since' = "zero"
  /\ Publish(FALSE, IsConnected)
  /\ UNCHANGED <<vars, net, running, current, triggered>>

CreateClient ==
  /\ ~running /\ ~client /\ net
  /\ client' = TRUE
  /\ Construct
  /\ UNCHANGED <<net, running, status, calls>>

ClientRuns ==
  /\ running
  /\ Tx \/ Rx
  /\ UNCHANGED <<client, net, running, status, calls>>

-----------------------------------------------------------------------------
(***************************************************************************)
(* loop(), second half, after run(): the timer of a call, or the poll of   *)
(* one channel for a trigger.                                              *)
(***************************************************************************)
AfterRun == running /\ pc = "caller" /\ running' = FALSE

\* A deviation used to test CallIsTimed: the timer stops when it fires, the
\* hang-up is forgotten.
CallTimeoutForgets ==
  /\ since = "elapsed"
  /\ since' = "zero"
  /\ UNCHANGED <<vars, current, triggered>>

CallTimeout ==
  /\ since = "elapsed"
  /\ since' = "zero"
  /\ RequestCancel
  /\ UNCHANGED <<current, triggered>>

CallGoesOn ==
  /\ since = "running"
  /\ UNCHANGED <<vars, calls>>

\* A deviation used to test MTypeOK: the index does not wrap.
NextChannelUnbounded == current + 1

NextChannel == (current + 1) % ChannelCount

\* getChannel(): createChannel() filled the first slots, the others are null.
IsChannel(slot) == slot \in Channels
NeedCall(slot) == IsChannel(slot) /\ triggered[slot]

\* A deviation used to test TriggersServed: the poll stays on a channel that
\* just called.
StartCallStays ==
  /\ since = "zero" /\ NeedCall(current)
  /\ triggered' = [triggered EXCEPT ![current] = FALSE]
  /\ since' = "running"
  /\ UNCHANGED current
  /\ RequestRing(PhoneNumber[current])

\* A deviation used to test ImplementsCall: needCall() does not forget the
\* trigger it reports.
StartCallKeepsTrigger ==
  /\ since = "zero" /\ NeedCall(current)
  /\ since' = "running"
  /\ current' = NextChannel
  /\ UNCHANGED triggered
  /\ RequestRing(PhoneNumber[current])

\* needCall() forgets the trigger; request_ring() may ignore the number.
StartCall ==
  /\ since = "zero" /\ NeedCall(current)
  /\ triggered' = [triggered EXCEPT ![current] = FALSE]
  /\ since' = "running"
  /\ current' = NextChannel
  /\ RequestRing(PhoneNumber[current])

SkipChannel ==
  /\ since = "zero" /\ ~NeedCall(current)
  /\ current' = NextChannel
  /\ UNCHANGED <<vars, since, triggered>>

LoopCalls ==
  /\ AfterRun
  /\ CallTimeout \/ CallGoesOn \/ StartCall \/ SkipChannel
  /\ UNCHANGED <<client, net, status>>

-----------------------------------------------------------------------------
(***************************************************************************)
(* Between the loops, and the clock.                                       *)
(***************************************************************************)

\* What a channel makes of a group object: it only looks at its own.
TriggeredBy(c, slot, value) == triggered[c] \/ (c = slot /\ value)

\* A group object of a slot changes its value, and every channel is told.
InputKo(slot, value) ==
  /\ ~running
  /\ triggered' = [c \in Channels |-> TriggeredBy(c, slot, value)]
  /\ UNCHANGED <<vars, client, net, running, status, since, current>>

\* What a channel writes into its group object comes back as an input.
WriteKo(slot) == InputKo(slot, TRUE)

\* The console's "sip<CC> call", with the channels counted from 1.
ConsoleCall(cc) ==
  /\ cc \in 1 .. ChannelCount /\ IsChannel(cc - 1)
  /\ WriteKo(cc - 1)

\* The console's "sip hangup".
Hangup ==
  /\ ~running /\ client
  /\ RequestCancel
  /\ UNCHANGED <<client, net, running, status, calls>>

NetChanges ==
  /\ ~running
  /\ net' = ~net
  /\ UNCHANGED <<vars, client, running, status, calls>>

\* The clock passes a limit of the client, or the channel's cancel time.
WindowEnds ==
  /\ client /\ WindowElapses
  /\ UNCHANGED <<client, net, running, status, calls>>

BackoffEnds ==
  /\ client /\ BackoffElapses
  /\ UNCHANGED <<client, net, running, status, calls>>

CallTimeElapses ==
  /\ since = "running"
  /\ since' = "elapsed"
  /\ UNCHANGED <<vars, client, net, running, status, current, triggered>>

MNext ==
  \/ LoopRun \/ LoseClient \/ CreateClient \/ ClientRuns \/ LoopCalls
  \/ (\E slot \in 0 .. ChannelCount - 1, value \in BOOLEAN : InputKo(slot, value))
  \/ (\E cc \in 0 .. ChannelCount + 1 : ConsoleCall(cc)) \/ Hangup \/ NetChanges
  \/ WindowEnds \/ BackoffEnds \/ CallTimeElapses

MSpec == MInit /\ [][MNext]_mvars

\* The firmware calls loop() for ever, whatever the network is when it looks;
\* loop() returns, and the clock advances.
MFairness ==
  /\ WF_mvars(LoopRun \/ LoseClient \/ CreateClient)
  /\ WF_mvars(ClientRuns) /\ WF_mvars(LoopCalls)
  /\ WF_mvars(WindowEnds) /\ WF_mvars(BackoffEnds) /\ WF_mvars(CallTimeElapses)

MFairSpec == MSpec /\ MFairness

-----------------------------------------------------------------------------
(***************************************************************************)
(* Properties.                                                             *)
(***************************************************************************)

\* The module's own registers stay in their ranges.
MTypeOK ==
  /\ client \in BOOLEAN /\ net \in BOOLEAN /\ running \in BOOLEAN
  /\ connected \in BOOLEAN /\ ko \in BOOLEAN
  /\ since \in Timer /\ current \in 0 .. ChannelCount - 1
  /\ triggered \in [Channels -> BOOLEAN]

\* An outgoing call never runs untimed: from the moment the module asks for it
\* until it ends, either the cancel time is running or its hang-up is on the
\* way, whatever the gateway, the console and the network do in between.
Outgoing == Inviting \cup {"INVITE_UNAUTH"}
CallIsTimed ==
  client => /\ command = "Dial" => since # "zero"
            /\ state \in Outgoing => since # "zero" \/ command = "Cancel"

\* So every call that was made ends for the client, one way or another: an attempt
\* to which the gateway answers nothing, or that it challenges again and again, and
\* a call that was answered, also when the BYE of the other side was lost, or fell
\* into the window of another packet.  (A call that the other side made has no
\* timer, and may last.)
AttemptEnds ==
  client /\ (state \in Outgoing \/ (state \in InCall /\ since # "zero"))
    ~> ~(client /\ state \in InCall)

\* A requested hang-up gets its turn, however full the receive windows are: its
\* CANCEL or BYE is sent, unless a new call is asked for first.  What the gateway
\* makes of it is another matter: the CANCEL ends a call that rings (RingingEnds of
\* SipGateway), the BYE does not end one that was answered, as the repository's
\* README.md:65 says of the call timer.
HangupIsSent ==
  client /\ command = "Cancel"
    ~> ~client \/ command = "Dial" \/ out.method \in {"CANCEL", "BYE"}

\* The client does not stay in ERROR: after the back-off it starts over.
ErrorRecovers == client /\ state = "ERROR" ~> ~client \/ state = "IDLE"

\* While the network is up every trigger of every channel is taken up in the
\* end: neither the call of another channel, nor its triggers, starve it.
TriggersServed == \A c \in Channels : triggered[c] ~> ~triggered[c] \/ ~net

\* The group object shows a registration that lasts, also one that follows a
\* loss of the network.
Ready == client /\ net
KoShowsRegistration ==
  Ready /\ IsConnected ~> ~Ready \/ ~IsConnected \/ ko

-----------------------------------------------------------------------------
(***************************************************************************)
(* What the documentation says, and the code does not do.                  *)
(***************************************************************************)

\* The group object is the state of the connection to the gateway
\* (SIPClientModule.share.xml:67): it does not stay "connected" when the
\* network is gone.  It does, LoseClient publishes the old value.
KoNoticesOutage == ~net ~> net \/ ~ko

\* What the timer ends is a call (SIP-CancelCall.md:3): it does not fire on a
\* client that is registered and in none.  It does, when it was started for a
\* number that request_ring() ignored (sip_client.h:156), so that the trigger was
\* lost.
TimerHasACall == [][LoopCalls /\ CallTimeout => state # "REGISTERED"]_mvars

=============================================================================
