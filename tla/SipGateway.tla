----------------------------- MODULE SipGateway -----------------------------
(***************************************************************************)
(* The user agent with the other side filled in: a gateway that registers, *)
(* challenges, rings and hangs up as SIP asks it to, and a network that    *)
(* loses messages and, if Late, delays them past the end of a receive      *)
(* window.  The gateway reacts at once to what reaches it; its replies     *)
(* wait in the client's socket, in order, until a window takes them, and   *)
(* rx() parses the first of those a window took and drops the others.      *)
(*                                                                         *)
(* The gateway takes a BYE for its call's only if it names the dialog, as  *)
(* SIP asks: by the tag of the other side in its To line.                  *)
(*                                                                         *)
(* What goes wrong is counted in "faults": a message or a reply that is    *)
(* lost, a repeated 200, a NOTIFY, an incoming call, a hang-up while no    *)
(* call is made, a registration that expires.                              *)
(***************************************************************************)
EXTENDS SipClient, Sequences

CONSTANTS Late,      \* may a reply miss the window it was meant for
          MaxFaults, \* the bound on faults
          MaxDown    \* the bound on the datagrams the socket keeps

ASSUME GatewayAssumption == /\ Late \in BOOLEAN /\ Nonces # {}
                            /\ MaxFaults \in Nat /\ MaxDown \in Nat \ {0}

VARIABLES
  bound,  \* the gateway knows where the client is
  leg,    \* the call at the gateway: none, ringing, answered (no ACK yet),
          \* talking, or offered to the client
  down,   \* what waits in the client's socket
  keyed,  \* the nonce the digest of m_response was computed with
  faults  \* how many there were

net == <<bound, leg, down, keyed, faults>>
gvars == <<vars, net>>

Leg == {"none", "ringing", "answered", "talking", "offered"}
GatewayNonce == CHOOSE n \in Nonces : TRUE

\* A packet of the gateway, and the method it is about (history).
Reply(status, method) ==
  [packet |-> [status |-> status, method |-> "UNKNOWN",
               nonce |-> IF status \in Challenge THEN GatewayNonce ELSE ""],
   about |-> method]
Ask(method) ==
  [packet |-> [status |-> "UNKNOWN", method |-> method, nonce |-> ""],
   about |-> method]

GInit == /\ Init
         /\ bound = FALSE /\ leg = "none" /\ down = << >> /\ keyed = ""
         /\ faults = 0

Fault == faults < MaxFaults /\ faults' = faults + 1

-----------------------------------------------------------------------------
(***************************************************************************)
(* What the gateway makes of a message, and what it answers.               *)
(***************************************************************************)
\* The digest is the one the gateway expects.
Good(m, key) == m.digest = m.method /\ key = GatewayNonce

\* The message ends the call that is set up: a BYE within its dialog, which the
\* client's never is.
Ends(m) == m.method = "BYE" /\ HasToTag(m) /\ leg \in {"answered", "talking"}

\* The ACK of the 200 is the one out of CALL_START: that of a refusal has the
\* number of an INVITE that is over.
LegAfter(m, key) ==
  CASE m.method = "INVITE" /\ Good(m, key) /\ bound /\ leg = "none" -> "ringing"
    [] m.method = "CANCEL" /\ leg = "ringing" -> "none"
    [] Ends(m) -> "none"
    [] m.method = "ACK" /\ leg = "answered" /\ state = "CALL_START" -> "talking"
    [] m.method = "200 OK" /\ leg = "offered" -> "talking"
    [] OTHER -> leg

Answer(m, key) ==
  CASE m.method = "REGISTER" ->
         << Reply(IF Good(m, key) THEN "OK_200" ELSE "UNAUTHORIZED_401",
                  "REGISTER") >>
    [] m.method = "INVITE" ->
         << Reply(CASE ~Good(m, key) -> "UNAUTHORIZED_401"
                    [] ~bound -> "UNKNOWN"
                    [] leg = "answered" -> "OK_200"
                    [] leg = "talking" -> "BUSY_HERE_486"
                    [] OTHER -> "TRYING_100", "INVITE") >>
    [] m.method = "CANCEL" ->
         IF leg = "ringing"
         THEN << Reply("OK_200", "CANCEL"),
                 Reply("REQUEST_CANCELLED_487", "INVITE") >>
         ELSE << Reply("UNKNOWN", "CANCEL") >>
    [] m.method = "BYE" ->
         << Reply(IF Ends(m) THEN "OK_200" ELSE "UNKNOWN", "BYE") >>
    [] OTHER -> << >>

\* The socket keeps what it has room for.
Keep(queue) == SubSeq(queue, 1, IF Len(queue) < MaxDown THEN Len(queue) ELSE MaxDown)

Reaches(m, rest) ==
  /\ bound' = (bound \/ (m.method = "REGISTER" /\ Good(m, keyed')))
  /\ leg' = LegAfter(m, keyed')
  /\ \/ down' = Keep(rest \o Answer(m, keyed')) /\ UNCHANGED faults
     \/ down' = rest /\ Answer(m, keyed') # << >> /\ Fault

Lost(rest) == down' = rest /\ Fault /\ UNCHANGED <<bound, leg>>

\* The message of this step, if there is one, arrives or is lost; "rest" is
\* what the step left in the socket.
Exchange(rest) ==
  IF out' = NoMsg THEN down' = rest /\ UNCHANGED <<bound, leg, faults>>
                  ELSE Reaches(out', rest) \/ Lost(rest)

-----------------------------------------------------------------------------
(***************************************************************************)
(* The client, with its socket.                                            *)
(***************************************************************************)
\* compute_auth_response() takes the nonce of the moment.
GTx ==
  /\ Tx
  /\ keyed' = IF /\ state \in {"REGISTER_AUTH", "INVITE_AUTH"}
                 /\ out'.method \in {"REGISTER", "INVITE"} THEN nonce ELSE keyed
  /\ Exchange(down)

WindowOver == state # "ERROR" /\ receivedStarted = "elapsed"

\* How many datagrams a window took: all there are, unless some are late.
Takes(n) == IF Late THEN n \in 0 .. Len(down) ELSE n = Len(down)

GRx ==
  /\ pc = "rx" /\ pc' = "caller"
  /\ \/ ~WindowOver /\ RxQuiet /\ Exchange(down)
     \/ WindowOver /\ Takes(0) /\ RxQuiet /\ Exchange(down)
     \/ \E n \in 1 .. Len(down) :
          /\ WindowOver /\ Takes(n)
          /\ RxPacket(down[1].packet)
          /\ Exchange(SubSeq(down, n + 1, Len(down)))
  /\ UNCHANGED keyed

GRun == Run /\ UNCHANGED net
GRing == (\E n \in Numbers : RequestRing(n)) /\ UNCHANGED net

\* The owner's call timer, which runs while a call is made (CallIsTimed of
\* SIPModule), and its hang-ups at any other time.
CallTimer == state \in InCall /\ RequestCancel /\ UNCHANGED net
StrayHangup == /\ state \notin InCall /\ RequestCancel /\ Fault
               /\ UNCHANGED <<bound, leg, down, keyed>>

GClock == (WindowElapses \/ BackoffElapses) /\ UNCHANGED net

-----------------------------------------------------------------------------
(***************************************************************************)
(* What the gateway does of its own accord.                                *)
(***************************************************************************)
Sends(reply) == down' = Keep(Append(down, reply))

\* The called side rings (183, or a 180, which is a code not told apart),
\* picks up, or refuses.
Alert == leg = "ringing" /\ leg' = "ringing" /\ down = << >>
         /\ \E status \in {"SESSION_PROGRESS_183", "UNKNOWN"} :
              Sends(Reply(status, "INVITE"))
         /\ UNCHANGED faults
PickUp == leg = "ringing" /\ leg' = "answered"
          /\ Sends(Reply("OK_200", "INVITE")) /\ UNCHANGED faults
Refuse == leg = "ringing" /\ leg' = "none"
          /\ Sends(Reply("BUSY_HERE_486", "INVITE")) /\ UNCHANGED faults

\* A 200 without its ACK is repeated, and given up in the end; a BYE that falls
\* into the window of that 200 is dropped with it.
Repeat == leg = "answered" /\ leg' = "answered"
          /\ Sends(Reply("OK_200", "INVITE")) /\ Fault
GivesUp == leg = "answered" /\ leg' = "none" /\ Sends(Ask("BYE")) /\ Fault
HangsUp == leg = "talking" /\ leg' = "none" /\ Sends(Ask("BYE")) /\ UNCHANGED faults

Calls == bound /\ leg = "none" /\ leg' = "offered" /\ Sends(Ask("INVITE")) /\ Fault
Withdraws == leg = "offered" /\ leg' = "none" /\ UNCHANGED <<down, faults>>
Notify == Sends(Ask("NOTIFY")) /\ UNCHANGED leg /\ Fault

\* An hour passes, which is longer than any attempt to register.
Expire == /\ bound /\ bound' = FALSE
          /\ state \notin {"IDLE", "REGISTER_AUTH", "ERROR"}
          /\ Fault
          /\ UNCHANGED <<vars, leg, down, keyed>>

GatewayActs ==
  \/ /\ Alert \/ PickUp \/ Refuse \/ Repeat \/ GivesUp \/ HangsUp \/ Calls \/ Withdraws
        \/ Notify
     /\ UNCHANGED <<vars, bound, keyed>>
  \/ Expire

GNext == \/ GTx \/ GRx \/ GRun \/ GRing \/ CallTimer \/ StrayHangup \/ GClock
         \/ GatewayActs

\* The client runs, the clock advances, and the owner's timer ends a call that
\* goes nowhere.  The gateway owes nothing but its answers.
GFairness == /\ WF_gvars(GRun) /\ WF_gvars(GTx) /\ WF_gvars(GRx)
             /\ WF_gvars(WindowElapses /\ UNCHANGED net)
             /\ WF_gvars(BackoffElapses /\ UNCHANGED net)
             /\ SF_gvars(CallTimer)

GSpec == GInit /\ [][GNext]_gvars /\ GFairness

-----------------------------------------------------------------------------
(***************************************************************************)
(* Properties.                                                             *)
(***************************************************************************)

\* What waits in the socket is what rx() may find, and the bounds are kept.
GTypeOK ==
  /\ bound \in BOOLEAN /\ leg \in Leg
  /\ down \in Seq([packet : Packet, about : Method \cup AnsweredMethod])
  /\ Len(down) <= MaxDown
  /\ keyed \in Nonces \cup {""} /\ faults \in 0 .. MaxFaults

\* "other side picked up, send an ack" (line 472): the 200 that takes the
\* client from RINGING into the call is about its INVITE, not about a REGISTER,
\* a CANCEL or a BYE that was answered before.
PickupIsReal ==
  [][state = "RINGING" /\ state' = "CALL_START" => down[1].about = "INVITE"]_gvars

\* While nothing went wrong, the two sides agree on who talks: a client in a
\* call is talking at the gateway, or is about to be told that it is over.
CallIsShared ==
  faults = 0 /\ state = "CALL_IN_PROGRESS" =>
    leg = "talking" \/ \E i \in DOMAIN down : down[i].packet.method = "BYE"

\* However the losses, the stray packets and the hang-ups fall, the client is
\* registered in the end, and the gateway knows it: a NOTIFY or a stale reply
\* that IDLE takes for the challenge costs one round through ERROR.  (While the
\* gateway repeats the 200 of a call the client gave up, that is not so.)
RegistersInTheEnd ==
  state = "IDLE" /\ leg \in {"none", "talking"} ~> state = "REGISTERED" /\ bound

\* A registration that expired unnoticed is renewed by the next call that is
\* made: the call is refused, and that leads back to IDLE.
LapseHeals == state = "INVITE_UNAUTH" /\ ~bound /\ leg = "none" ~> bound

\* A phone that rings, with the client in RINGING, does not ring for ever: the
\* owner's hang-up gets its turn however full the windows are, and what is sent
\* is a CANCEL, which ends a call that was not answered, and not a BYE, which ends
\* none: the hang-up of an answered call leaves it at the gateway, the known problem
\* of the repository's README.md:65.
RingingEnds ==
  state = "RINGING" /\ leg = "ringing" /\ faults = 0 ~> leg # "ringing" \/ faults > 0

=============================================================================
