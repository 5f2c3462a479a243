----------------------------- MODULE SipClient -----------------------------
(***************************************************************************)
(* The SIP user agent of sip_client.h: SipClientInt::run() calls tx() and  *)
(* then rx(), and between two runs its owner may call request_ring() and   *)
(* request_cancel().  Everything runs on one thread, so the interleavings  *)
(* are those of the owner's calls, the packets the gateway sends and the   *)
(* clock, at the granularity of one call of tx() or rx().                  *)
(*                                                                         *)
(* The gateway and the network are open here: whatever a receive window    *)
(* collected, rx() may find any packet at its head, or nothing usable.     *)
(* Time is an actor too: a millis() timer is "zero" when not armed,        *)
(* "running" when armed, and "elapsed" once the clock passed its limit.    *)
(***************************************************************************)
EXTENDS Naturals, SipMessages

CONSTANTS Rand,     \* the values std::rand() % 2147483647 can take
          Numbers,  \* the numbers the owner may ask to ring
          SeqWrap,  \* m_sip_sequence_number is a uint32_t: 2^32
          SeqRand,  \* its first value is drawn below 2147483647
          ByeSeq    \* the literal 104 of send_sip_bye

ASSUME SeqAssumption == /\ SeqWrap \in Nat \ {0}
                        /\ SeqRand \in 1 .. SeqWrap
                        /\ ByeSeq \in 0 .. SeqWrap - 1
ASSUME RandAssumption == Rand # {}
ASSUME NumbersAssumption == Numbers \cap {"registrar", "**613"} = {}

SipState == { "IDLE", "REGISTER_UNAUTH", "REGISTER_AUTH", "REGISTERED",
              "INVITE_UNAUTH", "INVITE_UNAUTH_SENT", "INVITE_AUTH", "RINGING",
              "CALL_START", "CALL_IN_PROGRESS", "CANCELLED", "ERROR" }
SipCommand == {"Idle", "Dial", "Cancel"}
Timer == {"zero", "running", "elapsed"}
Uri == {"registrar", "**613"} \cup Numbers
Seqs == 0 .. SeqWrap - 1

\* What a digest was computed for; "" when m_response is empty.
Response == {"", "REGISTER", "INVITE"}

VARIABLES
  pc,              \* who holds the thread: "caller", or run() in "tx" or "rx"
  state,           \* m_state
  command,         \* m_sipCommand
  receivedStarted, \* m_receivedStarted, the receive window's timer
  errorStarted,    \* m_errorStarted, the back-off of the ERROR state
  seq,             \* m_sip_sequence_number
  callId,          \* m_call_id
  tag,             \* m_tag
  branch,          \* m_branch
  uri,             \* m_uri and m_to_uri, which are assigned together
  nonce,           \* m_realm and m_nonce, which are assigned together
  response,        \* m_response
  out,             \* the message the last step handed to the socket
  invite,          \* history: the INVITE the gateway has yet to answer
  told             \* history: what the event handler knows of the call

timers == <<receivedStarted, errorStarted>>
ids == <<seq, callId, tag, branch>>
auth == <<nonce, response>>
history == <<invite, told>>
vars == <<pc, state, command, timers, ids, uri, auth, out, history>>

NoMsg == [method |-> "none"]
NoInvite == [method |-> "none"]

(***************************************************************************)
(* send_sip_header: a request carries the registers of the moment it is    *)
(* sent, and an Authorization line whenever m_response is not empty.       *)
(* "uri" is the target of the To line.                                     *)
(***************************************************************************)
Request(method, target, s, t, b, digest) ==
  [method |-> method, uri |-> target, seq |-> s, callId |-> callId,
   tag |-> t, branch |-> b, digest |-> digest]
Register(t, b, digest) == Request("REGISTER", "registrar", seq, t, b, digest)
Invite(b, digest) == Request("INVITE", uri, seq, tag, b, digest)
Cancel == Request("CANCEL", uri, seq, tag, branch, response)
Bye(s) == Request("BYE", uri, s, tag, branch, response)
Ack == Request("ACK", uri, seq, tag, branch, "")
Ok == [method |-> "200 OK"]

\* The To line names the other side's tag in an ACK, and in nothing else.
HasToTag(m) == m.method = "ACK"

Dialog(m) == <<m.uri, m.seq, m.callId, m.tag, m.branch>>

\* A deviation used to test TypeOK: the counter is wider than 32 bits.
WideNextSeq == seq + 1

NextSeq == (seq + 1) % SeqWrap

\* A deviation used to test ErrorRecovers: entering ERROR arms no back-off.
SetStateUntimed(new) == state' = new /\ UNCHANGED errorStarted

SetState(new) ==
  /\ state' = new
  /\ errorStarted' = IF new = "ERROR" /\ state # "ERROR" THEN "running"
                     ELSE errorStarted

Init ==
  /\ pc = "caller" /\ state = "IDLE" /\ command = "Idle"
  /\ receivedStarted = "zero" /\ errorStarted = "zero"
  /\ seq \in 0 .. SeqRand - 1
  /\ callId \in Rand /\ tag \in Rand /\ branch \in Rand
  /\ uri = "registrar" /\ nonce = "" /\ response = ""
  /\ out = NoMsg /\ invite = NoInvite /\ told = "nothing"

\* The constructor as a step: a new client takes the place of a deleted one.
Construct ==
  /\ pc' = "caller" /\ state' = "IDLE" /\ command' = "Idle"
  /\ receivedStarted' = "zero" /\ errorStarted' = "zero"
  /\ seq' \in 0 .. SeqRand - 1
  /\ callId' \in Rand /\ tag' \in Rand /\ branch' \in Rand
  /\ uri' = "registrar" /\ nonce' = "" /\ response' = ""
  /\ out' = NoMsg /\ invite' = NoInvite /\ told' = "nothing"

-----------------------------------------------------------------------------
(***************************************************************************)
(* The owner's calls.                                                      *)
(***************************************************************************)
\* A deviation used to test InvitesGoWhereAsked: a call may be requested while
\* the client still registers.
RequestRingAnyTime(n) ==
  /\ pc = "caller"
  /\ callId' \in Rand
  /\ uri' = n
  /\ command' = "Dial"
  /\ out' = NoMsg
  /\ UNCHANGED <<pc, state, timers, seq, tag, branch, auth, history>>

RequestRing(n) ==
  /\ pc = "caller"
  /\ IF state = "REGISTERED"
       THEN /\ callId' \in Rand
            /\ uri' = n
            /\ command' = "Dial"
       ELSE UNCHANGED <<callId, uri, command>>
  /\ out' = NoMsg
  /\ UNCHANGED <<pc, state, timers, seq, tag, branch, auth, history>>

RequestCancel ==
  /\ pc = "caller"
  /\ command' = "Cancel"
  /\ out' = NoMsg
  /\ UNCHANGED <<pc, state, timers, ids, uri, auth, history>>

Run ==
  /\ pc = "caller"
  /\ pc' = "tx"
  /\ out' = NoMsg
  /\ UNCHANGED <<state, command, timers, ids, uri, auth, history>>

-----------------------------------------------------------------------------
(***************************************************************************)
(* tx().  Nothing is sent while a receive window is open; a pending cancel *)
(* goes first; otherwise the state decides, and it is sent again each time *)
(* tx() comes by (m_lastSent, meant to space the copies, is never armed).  *)
(***************************************************************************)
CanSend == pc = "tx" /\ receivedStarted = "zero"

TxBlocked ==
  /\ pc = "tx"
  /\ receivedStarted # "zero"
  /\ out' = NoMsg
  /\ UNCHANGED <<state, command, timers, ids, uri, auth, history>>

\* A deviation used to test AttemptEnds: a ringing call is cancelled and
\* then waits in RINGING for the gateway to confirm it.
TxHangupWaits ==
  /\ CanSend /\ command = "Cancel"
  /\ command' = "Idle"
  /\ out' = IF state = "CALL_IN_PROGRESS" THEN Bye(seq) ELSE Cancel
  /\ SetState(IF state = "RINGING" THEN "RINGING" ELSE "IDLE")
  /\ invite' = NoInvite
  /\ UNCHANGED <<receivedStarted, ids, uri, auth, told>>

\* A deviation used to test RingingEnds: BYE is sent whatever the call's state.
TxHangupByes ==
  /\ CanSend /\ command = "Cancel"
  /\ command' = "Idle"
  /\ seq' = ByeSeq
  /\ out' = Bye(ByeSeq)
  /\ SetState("IDLE")
  /\ UNCHANGED <<receivedStarted, callId, tag, branch, uri, auth, history>>

TxHangup ==
  /\ CanSend /\ command = "Cancel"
  /\ command' = "Idle"
  /\ IF state = "CALL_IN_PROGRESS"
       THEN /\ seq' = ByeSeq
            /\ out' = Bye(ByeSeq)
            /\ UNCHANGED invite
       ELSE /\ out' = Cancel
            /\ invite' = NoInvite
            /\ UNCHANGED seq
  /\ SetState("IDLE")
  /\ UNCHANGED <<receivedStarted, callId, tag, branch, uri, auth, told>>

TxRegister ==
  /\ CanSend /\ command # "Cancel"
  /\ state \in {"IDLE", "REGISTER_UNAUTH"}
  /\ \E t, b \in Rand : out' = Register(t, b, response)
  /\ tag' \in Rand
  /\ branch' \in Rand
  /\ UNCHANGED <<state, command, timers, seq, callId, uri, auth, history>>

TxRegisterAuth ==
  /\ CanSend /\ command # "Cancel"
  /\ state = "REGISTER_AUTH"
  /\ response' = "REGISTER"
  /\ out' = Register(tag, branch, response')
  /\ UNCHANGED <<state, command, timers, ids, uri, nonce, history>>

TxInvite ==
  /\ CanSend /\ command # "Cancel"
  /\ state = "INVITE_UNAUTH"
  /\ out' = Invite(branch, response)
  /\ invite' = out'
  /\ UNCHANGED <<state, command, timers, ids, uri, auth, told>>

\* A deviation used to test InviteIsCancellable: the branch is drawn after
\* the INVITE went out, as tx() does for REGISTER.
TxInviteAuthEarly ==
  /\ CanSend /\ command # "Cancel"
  /\ state = "INVITE_AUTH"
  /\ branch' \in Rand
  /\ response' = "INVITE"
  /\ out' = Invite(branch, response')
  /\ invite' = out'
  /\ UNCHANGED <<state, command, timers, seq, callId, tag, uri, nonce, told>>

TxInviteAuth ==
  /\ CanSend /\ command # "Cancel"
  /\ state = "INVITE_AUTH"
  /\ branch' \in Rand
  /\ response' = "INVITE"
  /\ out' = Invite(branch', response')
  /\ invite' = out'
  /\ UNCHANGED <<state, command, timers, seq, callId, tag, uri, nonce, told>>

TxAck ==
  /\ CanSend /\ command # "Cancel"
  /\ state = "CALL_START"
  /\ out' = Ack
  /\ told' = "acked"
  /\ UNCHANGED <<state, command, timers, ids, uri, auth, invite>>

TxCancelledAck ==
  /\ CanSend /\ command # "Cancel"
  /\ state = "CANCELLED"
  /\ out' = Ack
  /\ tag' \in Rand
  /\ branch' \in Rand
  /\ UNCHANGED <<state, command, timers, seq, callId, uri, auth, history>>

TxSilent ==
  /\ CanSend /\ command # "Cancel"
  /\ state \in {"REGISTERED", "INVITE_UNAUTH_SENT", "RINGING",
                "CALL_IN_PROGRESS", "ERROR"}
  /\ out' = NoMsg
  /\ UNCHANGED <<state, command, timers, ids, uri, auth, history>>

Tx == /\ \/ TxBlocked \/ TxHangup \/ TxRegister \/ TxRegisterAuth
         \/ TxInvite \/ TxInviteAuth \/ TxAck \/ TxCancelledAck \/ TxSilent
      /\ pc' = "rx"

-----------------------------------------------------------------------------
(***************************************************************************)
(* rx(), up to the packet.  The ERROR state waits its back-off out; with   *)
(* no window open a pending dial, or a state that only waited for tx(),    *)
(* goes first; otherwise a window opens, collects, and once its time has   *)
(* passed what it collected is parsed.                                     *)
(***************************************************************************)
RxErrorWaits ==
  /\ state = "ERROR" /\ errorStarted # "elapsed"
  /\ UNCHANGED <<state, command, timers, ids, uri, auth, history>>

RxErrorOver ==
  /\ state = "ERROR" /\ errorStarted = "elapsed"
  /\ state' = "IDLE"
  /\ errorStarted' = "zero"
  /\ seq' = NextSeq
  /\ UNCHANGED <<command, receivedStarted, callId, tag, branch, uri, auth,
                 history>>

RxDial ==
  /\ state # "ERROR" /\ receivedStarted = "zero" /\ command = "Dial"
  /\ command' = "Idle"
  /\ state' = IF state = "REGISTERED" THEN "INVITE_UNAUTH" ELSE state
  /\ UNCHANGED <<timers, ids, uri, auth, history>>

RxAdvance ==
  /\ receivedStarted = "zero" /\ command # "Dial"
  /\ \/ state = "INVITE_UNAUTH" /\ state' = "INVITE_UNAUTH_SENT"
     \/ state = "CALL_START" /\ state' = "CALL_IN_PROGRESS"
  /\ UNCHANGED <<command, timers, ids, uri, auth, history>>

\* A deviation used to test TransientStatesSeeNoPacket: CALL_START listens
\* too, instead of moving on at once.
RxOpenWindowInCall ==
  /\ state \notin {"ERROR", "INVITE_UNAUTH"}
  /\ receivedStarted = "zero" /\ command # "Dial"
  /\ receivedStarted' = "running"
  /\ UNCHANGED <<state, command, errorStarted, ids, uri, auth, history>>

RxOpenWindow ==
  /\ state \notin {"ERROR", "INVITE_UNAUTH", "CALL_START"}
  /\ receivedStarted = "zero" /\ command # "Dial"
  /\ receivedStarted' = "running"
  /\ UNCHANGED <<state, command, errorStarted, ids, uri, auth, history>>

RxCollect ==
  /\ state # "ERROR" /\ receivedStarted = "running"
  /\ UNCHANGED <<state, command, timers, ids, uri, auth, history>>

\* A deviation used to test HangupIsSent: an empty window is followed by the
\* next without a pause.
RxNothingReopens ==
  /\ state # "ERROR" /\ receivedStarted = "elapsed"
  /\ receivedStarted' = "running"
  /\ UNCHANGED <<state, command, errorStarted, ids, uri, auth, history>>

\* The window held nothing, or nothing SipPacket::parse() accepts.
RxNothing ==
  /\ state # "ERROR" /\ receivedStarted = "elapsed"
  /\ receivedStarted' = "zero"
  /\ UNCHANGED <<state, command, errorStarted, ids, uri, auth, history>>

-----------------------------------------------------------------------------
(***************************************************************************)
(* rx(), the packet.  A challenge is stored and a request of the gateway   *)
(* answered with 200 whatever the state; then the state decides.  Replies  *)
(* are not matched to requests: no state looks at CSeq, Call-ID or tags.   *)
(***************************************************************************)
NonceAfter(p) == IF p.status \in Challenge THEN p.nonce ELSE nonce
ReplyTo(p) == IF p.method \in AnsweredMethod THEN Ok ELSE NoMsg

\* History: a final reply answers the INVITE in flight.  A code not told apart
\* may be a 180 or a keep-alive, after which the call still rings, or a 404,
\* which ends it: both are possible.
InviteAfter(p) ==
  IF /\ state \in {"INVITE_UNAUTH", "INVITE_UNAUTH_SENT", "INVITE_AUTH",
                   "RINGING"}
     /\ p.method = "UNKNOWN"
     /\ p.status \notin {"TRYING_100", "SESSION_PROGRESS_183"}
  THEN IF p.status = "UNKNOWN" THEN {invite, NoInvite} ELSE {NoInvite}
  ELSE {invite}

\* The common part of the handlers that take no decision about the digest.
Become(new, p) ==
  /\ SetState(new)
  /\ nonce' = NonceAfter(p)
  /\ UNCHANGED <<uri, response>>

Ignore(p) ==
  /\ Become(state, p)
  /\ out' = ReplyTo(p)
  /\ UNCHANGED <<seq, branch, told>>

Fail(p) ==
  /\ Become("ERROR", p)
  /\ out' = ReplyTo(p)
  /\ UNCHANGED <<seq, branch, told>>

\* A deviation used to test UnauthInviteIsBare: the digest outlives the INVITE.
StartRingingKeepsDigest ==
  /\ SetState("RINGING")
  /\ nonce' = ""
  /\ out' = NoMsg
  /\ UNCHANGED <<seq, branch, uri, response, told>>

StartRinging ==
  /\ SetState("RINGING")
  /\ nonce' = "" /\ response' = ""
  /\ out' = NoMsg
  /\ UNCHANGED <<seq, branch, uri, told>>

HandleRegistering(p) ==
  /\ state \in {"IDLE", "REGISTER_UNAUTH"}
  /\ Become("REGISTER_AUTH", p)
  /\ seq' = NextSeq
  /\ out' = ReplyTo(p)
  /\ UNCHANGED <<branch, told>>

HandleRegisterReply(p) ==
  /\ state = "REGISTER_AUTH"
  /\ IF p.status = "OK_200"
       THEN /\ SetState("REGISTERED")
            /\ seq' = NextSeq
            /\ nonce' = "" /\ response' = ""
            /\ uri' = "**613"
            /\ out' = NoMsg
            /\ UNCHANGED <<branch, told>>
       ELSE Fail(p)

HandleRegistered(p) ==
  /\ state = "REGISTERED"
  /\ IF p.method = "INVITE"
       THEN /\ Become("CALL_START", p)
            /\ told' = "announced"
            /\ out' = Ok
            /\ UNCHANGED <<seq, branch>>
       ELSE Ignore(p)

HandleInviteReply(p) ==
  /\ state \in {"INVITE_UNAUTH", "INVITE_UNAUTH_SENT"}
  /\ CASE p.status \in Challenge ->
            /\ Become("INVITE_AUTH", p)
            /\ out' = Ack
            /\ seq' = NextSeq
            /\ UNCHANGED <<branch, told>>
       [] p.status \in {"OK_200", "SESSION_PROGRESS_183"} -> StartRinging
       [] p.status = "TRYING_100" -> Ignore(p)
       [] OTHER -> Fail(p)

\* A deviation used to test LapseHeals: a refused call leads back to
\* REGISTERED, without a round through ERROR.
HandleInviteAuthReplyStays(p) ==
  /\ state = "INVITE_AUTH"
  /\ IF p.status \in {"OK_200", "SESSION_PROGRESS_183", "TRYING_100"}
       THEN StartRinging
       ELSE /\ Become("REGISTERED", p)
            /\ out' = ReplyTo(p)
            /\ UNCHANGED <<seq, branch, told>>

HandleInviteAuthReply(p) ==
  /\ state = "INVITE_AUTH"
  /\ IF p.status \in {"OK_200", "SESSION_PROGRESS_183", "TRYING_100"}
       THEN StartRinging
       ELSE Fail(p)

\* A deviation used to test AnswerIsAcknowledged: the pick-up goes straight
\* to the call, past the state that acknowledges it.
HandlePickupAtOnce(p) ==
  /\ state = "RINGING" /\ p.status = "OK_200"
  /\ Become("CALL_IN_PROGRESS", p)
  /\ told' = "announced"
  /\ out' = NoMsg
  /\ UNCHANGED <<seq, branch>>

HandlePickup(p) ==
  /\ state = "RINGING" /\ p.status = "OK_200"
  /\ Become("CALL_START", p)
  /\ told' = "announced"
  /\ out' = NoMsg
  /\ UNCHANGED <<seq, branch>>

HandleRequestCancelled(p) ==
  /\ state = "RINGING" /\ p.status = "REQUEST_CANCELLED_487"
  /\ Become("CANCELLED", p)
  /\ told' = "nothing"
  /\ out' = NoMsg
  /\ UNCHANGED <<seq, branch>>

HandleRechallenge(p) ==
  /\ state = "RINGING" /\ p.status = "PROXY_AUTH_REQ_407"
  /\ Become("INVITE_AUTH", p)
  /\ out' = Ack
  /\ seq' = NextSeq
  /\ UNCHANGED <<branch, told>>

\* A deviation used to test AckMatchesInvite: the counter moves before the
\* refusal is acknowledged.
HandleDeclineLateAck(p) ==
  /\ state = "RINGING" /\ p.status \in {"DECLINE_603", "BUSY_HERE_486"}
  /\ Become("REGISTERED", p)
  /\ seq' = NextSeq
  /\ out' = Request("ACK", uri, seq', tag, branch, "")
  /\ branch' \in Rand
  /\ told' = "nothing"

HandleDecline(p) ==
  /\ state = "RINGING" /\ p.status \in {"DECLINE_603", "BUSY_HERE_486"}
  /\ Become("REGISTERED", p)
  /\ out' = Ack
  /\ seq' = NextSeq
  /\ branch' \in Rand
  /\ told' = "nothing"

HandleHungUp(p) ==
  /\ state = "CALL_IN_PROGRESS" /\ p.method = "BYE"
  /\ Become("REGISTERED", p)
  /\ seq' = NextSeq
  /\ told' = "nothing"
  /\ out' = Ok
  /\ UNCHANGED branch

HandleCancelReply(p) ==
  /\ state = "CANCELLED"
  /\ IF p.status = "OK_200"
       THEN /\ Become("REGISTERED", p)
            /\ seq' = NextSeq
            /\ out' = NoMsg
            /\ UNCHANGED <<branch, told>>
       ELSE Fail(p)

\* What RINGING, CALL_START and CALL_IN_PROGRESS leave without a reaction.
NoReaction(p) ==
  CASE state = "RINGING" ->
         p.status \notin {"OK_200", "REQUEST_CANCELLED_487", "DECLINE_603",
                         "PROXY_AUTH_REQ_407", "BUSY_HERE_486"}
    [] state = "CALL_IN_PROGRESS" -> p.method # "BYE"
    [] OTHER -> state = "CALL_START"

HandleUnexpected(p) == NoReaction(p) /\ Ignore(p)

HandleServerError(p) ==
  /\ SetState("ERROR")
  /\ out' = NoMsg
  /\ UNCHANGED <<seq, branch, uri, auth, told>>

HandleByState(p) ==
  \/ HandleRegistering(p) \/ HandleRegisterReply(p) \/ HandleRegistered(p)
  \/ HandleInviteReply(p) \/ HandleInviteAuthReply(p)
  \/ HandlePickup(p) \/ HandleRequestCancelled(p)
  \/ HandleRechallenge(p) \/ HandleDecline(p)
  \/ HandleHungUp(p) \/ HandleCancelReply(p) \/ HandleUnexpected(p)

RxPacket(p) ==
  /\ state # "ERROR" /\ receivedStarted = "elapsed"
  /\ receivedStarted' = "zero"
  /\ IF p.status = "SERVER_ERROR_500" THEN HandleServerError(p)
     ELSE HandleByState(p)
  /\ invite' \in InviteAfter(p)
  /\ UNCHANGED <<command, callId, tag>>

RxQuiet == /\ \/ RxErrorWaits \/ RxErrorOver \/ RxDial \/ RxAdvance
              \/ RxOpenWindow \/ RxCollect \/ RxNothing
           /\ out' = NoMsg

Rx == /\ pc = "rx"
      /\ RxQuiet \/ \E p \in Packet : RxPacket(p)
      /\ pc' = "caller"

-----------------------------------------------------------------------------
(***************************************************************************)
(* The clock passes a limit: SOCKET_RX_TIMEOUT_MSEC since the window was   *)
(* opened, or 1000 ms since the ERROR state was entered.                   *)
(***************************************************************************)
WindowElapses ==
  /\ receivedStarted = "running"
  /\ receivedStarted' = "elapsed"
  /\ out' = NoMsg
  /\ UNCHANGED <<pc, state, command, errorStarted, ids, uri, auth, history>>

BackoffElapses ==
  /\ errorStarted = "running"
  /\ errorStarted' = "elapsed"
  /\ out' = NoMsg
  /\ UNCHANGED <<pc, state, command, receivedStarted, ids, uri, auth, history>>

Next ==
  \/ \E n \in Numbers : RequestRing(n)
  \/ RequestCancel \/ Run \/ Tx \/ Rx
  \/ WindowElapses \/ BackoffElapses

Spec == Init /\ [][Next]_vars

\* The main loop calls run() for ever, run() returns, and the clock advances.
Fairness == /\ WF_vars(Run) /\ WF_vars(Tx) /\ WF_vars(Rx)
            /\ WF_vars(WindowElapses) /\ WF_vars(BackoffElapses)

FairSpec == Spec /\ Fairness

-----------------------------------------------------------------------------
(***************************************************************************)
(* Properties.                                                             *)
(***************************************************************************)
Method == {"REGISTER", "INVITE", "ACK", "CANCEL", "BYE"}
Requests == [method : Method, uri : Uri, seq : Seqs, callId : Rand,
             tag : Rand, branch : Rand, digest : Response]

\* Every register of the client stays in its range; the CSeq counter wraps as
\* the uint32_t it is.
TypeOK ==
  /\ pc \in {"caller", "tx", "rx"}
  /\ state \in SipState /\ command \in SipCommand
  /\ receivedStarted \in Timer /\ errorStarted \in Timer
  /\ seq \in Seqs
  /\ callId \in Rand /\ tag \in Rand /\ branch \in Rand
  /\ uri \in Uri
  /\ nonce \in Nonces \cup {""} /\ response \in Response
  /\ out \in Requests \cup {NoMsg, Ok}
  /\ invite \in Requests \cup {NoInvite}
  /\ told \in {"nothing", "announced", "acked"}

\* The states that only live between a rx() and the next tx(), and the
\* back-off, never have a receive window open: no packet is parsed in them
\* (line 502, "should not reach this point"), none delays their message.
TransientStatesSeeNoPacket ==
  receivedStarted # "zero" =>
    state \notin {"INVITE_UNAUTH", "CALL_START", "ERROR"}

\* From the registration on, no digest is left over from another request: the
\* first INVITE of a call goes out "without auth" (line 275), and so does the
\* hang-up of an answered call, whose Authorization branch is never taken.
UnauthInviteIsBare ==
  /\ out.method = "INVITE" /\ state = "INVITE_UNAUTH" => out.digest = ""
  /\ out.method = "BYE" => out.digest = ""

\* Only a number the owner asked for is ever called: a dial that was pending
\* while the client lost its registration does not fire at "**613", the
\* number rx() stores in m_uri when the client registers again.
InvitesGoWhereAsked == out.method = "INVITE" => out.uri \in Numbers

\* While an INVITE is out and the client waits for its answer, its registers
\* are still those of the INVITE, so that a CANCEL sent now matches it, as
\* the comment of send_sip_cancel demands.
Inviting == {"INVITE_UNAUTH_SENT", "INVITE_AUTH", "RINGING"}
Current == <<uri, seq, callId, tag, branch>>
InviteIsCancellable ==
  state \in Inviting /\ invite # NoInvite => Dialog(invite) = Current

\* The ACK of a final answer carries the CSeq, Call-ID, tag and branch of the
\* INVITE that was answered: it leaves before the counter and branch change.
AckMatchesInvite ==
  [][(state \in Inviting /\ invite # NoInvite /\ out'.method = "ACK")
        => Dialog(out') = Dialog(invite)]_vars

\* The client is in a call only after it acknowledged that very call: of two
\* calls in a row the second is not in progress on the strength of the ACK
\* of the first, however dial, cancel and pick-up interleave.
AnswerIsAcknowledged == state = "CALL_IN_PROGRESS" => told = "acked"

\* The states of a call, from its INVITE to its end.
InCall == Inviting \cup {"INVITE_UNAUTH", "CALL_START", "CALL_IN_PROGRESS",
                         "CANCELLED"}

-----------------------------------------------------------------------------
(***************************************************************************)
(* What a comment of the source says, and the code does not do.            *)
(***************************************************************************)

\* Lines 592-594, the CANCEL must keep the CSeq and the tag of the INVITE it
\* cancels: not when an unexpected packet sent the client through ERROR.
CancelMatchesInvite ==
  [][out'.method = "CANCEL" /\ invite # NoInvite
        => Dialog(out') = Dialog(invite)]_vars

=============================================================================
