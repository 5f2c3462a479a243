-------------------------------- MODULE Call --------------------------------
(***************************************************************************)
(* What the firmware promises the house: a trigger of a channel becomes at *)
(* most one call, to that channel's number, one call at a time, and never  *)
(* a call that nothing will end.  SIPModuleCalls.tla shows that the module *)
(* and its SIP client implement this.                                      *)
(***************************************************************************)
CONSTANTS Channels,    \* the configured channels
          PhoneNumber  \* the number of each

VARIABLES
  wanted, \* the channels that were triggered and have yet to be served
  phase,  \* the call: "none", "asked", "calling" or "talking"
  number, \* whom an outgoing call is for, until it is answered
  timed,  \* the call timer runs
  hangup  \* a hang-up was requested and has yet to be carried out

cvars == <<wanted, phase, number, timed, hangup>>

CInit == /\ wanted = {} /\ phase = "none" /\ number = "nobody"
         /\ timed = FALSE /\ hangup = FALSE

Want(c) ==
  /\ wanted' = wanted \cup {c}
  /\ UNCHANGED <<phase, number, timed, hangup>>

\* A channel is served: its call is asked for, unless it has to be refused.
\* Either way the trigger is used up and the timer is started.
Serve(c) ==
  /\ c \in wanted /\ ~timed
  /\ wanted' = wanted \ {c}
  /\ timed' = TRUE
  /\ \/ /\ phase = "none"
        /\ phase' = "asked" /\ number' = PhoneNumber[c] /\ hangup' = FALSE
     \/ UNCHANGED <<phase, number, hangup>>

Place == /\ phase = "asked"
         /\ phase' = "calling"
         /\ UNCHANGED <<wanted, number, timed, hangup>>

\* The other side picks up, or calls itself, also ahead of a call asked for.
Connect == /\ phase # "talking"
           /\ phase' = "talking" /\ number' = "nobody"
           /\ UNCHANGED <<wanted, timed, hangup>>

\* A call ends by itself, or is given up before it is placed.
End == /\ phase # "none"
       /\ phase' = "none" /\ number' = "nobody"
       /\ UNCHANGED <<wanted, timed, hangup>>

\* A hang-up is requested, by the timer if it stops; a call that was only
\* asked for is not placed at all.
RequestHangup ==
  /\ hangup' = TRUE
  /\ timed' \in {FALSE, timed}
  /\ IF phase = "asked" THEN phase' = "none" /\ number' = "nobody"
                        ELSE UNCHANGED <<phase, number>>
  /\ UNCHANGED wanted

HangUp == /\ hangup
          /\ hangup' = FALSE
          /\ phase' = "none" /\ number' = "nobody"
          /\ UNCHANGED <<wanted, timed>>

\* The network is lost, and with it the call.
Lose == /\ phase' = "none" /\ number' = "nobody"
        /\ timed' = FALSE /\ hangup' = FALSE
        /\ UNCHANGED wanted

CNext == \/ \E c \in Channels : Want(c) \/ Serve(c)
         \/ Place \/ Connect \/ End \/ RequestHangup \/ HangUp \/ Lose

CallSpec == CInit /\ [][CNext]_cvars

-----------------------------------------------------------------------------
\* Of the promise itself: no call is asked for or placed that neither the
\* timer nor a hang-up will end, and none that is for nobody.
NeverUntimed ==
  phase \in {"asked", "calling"} =>
    (timed \/ hangup) /\ number \in {PhoneNumber[c] : c \in Channels}

=============================================================================
