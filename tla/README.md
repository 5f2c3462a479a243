# A TLA+ model of OFM-SIPClientModule

OFM-SIPClientModule is an OpenKNX firmware module that rings telephones. A KNX
group object triggers a *channel*; the module then asks its SIP client to call the
channel's number through a SIP gateway (typically a FRITZ!Box), lets it ring for a
configured time and hangs up. This directory specifies that firmware: the module that
owns the SIP client, the SIP user agent, the parser that feeds it, the buffer and the
sockets it writes to, the digest it answers challenges with, and the millisecond timers
all of them rely on. TLC checks small instances; TLAPS proves the safety properties for
every value of the constants.

All paths below are relative to the repository; `sip_client.h` is
`src/sip_client/sip_client.h`.

## 1. Inventory

### Components, their state and their operations

| Component | Source | State | Operations | Modelled in |
|---|---|---|---|---|
| SIP user agent `SipClientInt` | `src/sip_client/sip_client.h` | `m_state` (12 states), `m_sipCommand`, CSeq, Call-ID, tag, branch, target URI, realm/nonce/response, two timers | `run()` = `tx()` then `rx()`; `request_ring`, `request_cancel`, `isConnected`, `init`, `set_server_ip`; the `send_sip_*` writers; `compute_auth_response` | `SipClient`, `SipSockets`, `SipDigest` |
| Packet parser `SipPacket` | `src/sip_client/sip_packet.h` | the fields read from one text | `parse()`, getters | `SipPacket` |
| Text buffers and sockets `Buffer<N>`, `WifiUdpClient` | `src/sip_client/wifi_udp_client.h` | the buffer's text, `m_initialized`, the address | `operator<<`, `get_new_tx_buf`, `send_buffered_data`, `init`, `deinit`, `set_server_ip`, `set_server_port`, `receive` | `WifiUdpClient`, `SipSockets` |
| MD5 | `src/sip_client/md5_l.cpp`, `md5_l.h`, `mbedtls_md5.h` | the context: two counters, four words, a block | `init`, `starts`, `update`, `process`, `finish` | `Md5Context`, `SipDigest` |
| Module `SIPModule` | `src/SIPModule.cpp` | `_sipClient`, `_connected`, `_sipCallSince`, `_currentChannel`, a group object | `setup`, `loop()`, the console, channel creation | `SIPModule` |
| Channel `SIPCallNumberChannel` | `src/SIPCallNumberChannel.cpp` | `_triggered` | `processInputKo`, console `call`, `needCall` | `SIPModule` |
| Channel owner `SIPChannelOwnerModule` | `src/ChannelOwnerModule.cpp` | array of channel pointers | forwards `setup`, `loop`, group objects | `SIPModule`, partly |
| Gateway and network | outside the repository | | answers, rings, hangs up; loses and delays | `SipGateway`; left open in `SipClient` |
| Boost SML | `src/boost/sml.hpp` | vendored; only under `USE_SML` | | not modelled |
| ETS application, help | `*.xml`, `Baggages/` | parameters and texts | | read as documentation |

### How they interact

Everything runs on one thread: the OpenKNX main loop calls `SIPModule::loop()`,
and between two loops it delivers group objects and console commands. One `loop()`

1. deletes the client and publishes the connection when the network is gone, or
   creates a client when the network is back, and otherwise
2. publishes `isConnected()` when it changed, calls `run()`, and then
3. either looks at the timer of the call that was started, or polls one channel for
   a trigger and turns it into `request_ring()`.

`run()` never blocks: `tx()` sends what the state calls for, `rx()` opens a
*receive window* of `SOCKET_RX_TIMEOUT_MSEC`, collects for as many runs as it takes
and, once the window is over, parses what it collected and lets the state react.
So the interleavings that matter are those of the *owner's requests*, the *gateway's
packets*, the *network's presence* and the *clock*, between any two of these steps.

A message is put into the text buffer of the socket piece by piece, with the Content-Length
of a body that was put into a buffer of its own before, and handed to the socket, whose
result nobody looks at. Digests of three texts, all with one MD5 context, answer a challenge.

### What is hard here

* Replies are matched to requests by nothing but the state. A late, duplicated or
  unexpected packet is a legal input in every state.
* The registers that identify a call are rewritten by several handlers; each message
  must still leave with the registers of the call it belongs to.
* `m_sipCommand` is a one-place mailbox that lives across state changes: a dial may
  be pending while the client loses its registration.
* `tx()` is mute while a window is open; requested hang-ups have to find their turn.
* The two ends of a call learn of a pick-up and of a hang-up at different times.
* The timers use 0 as "not armed" while `millis()` itself passes through 0.
* The module mirrors the client's state in a flag and in a group object, and deletes
  the client underneath both.
* The call timer belongs to the module, the call to the client, and neither tells
  the other when it is over, nor that it never began.
* Only an ACK names the dialog of the call: what becomes of a BYE is up to the gateway. The
  repository's `README.md:65` lists this under its known problems: an answered call is not
  ended by the timer.
* What arrives within one window is one text, and one packet is made of it.
* The buffers cut silently, one of them before the length of its content is written.
* One MD5 context serves every digest, and keeps its last block.

`PROJECT.json` lists these hazards one by one, at the line where they bite, with the
properties that would catch them going wrong.

### What makes each component correct

* **User agent** — an INVITE goes out only to a number that was asked for, and at
  first without a stale digest; while an answer is awaited the registers are those of
  the INVITE in flight, and the ACK of a refusal or challenge names that INVITE; a
  call is in progress only after its own ACK; a requested hang-up is sent; the
  error state is left.
* **With a gateway** — the two sides agree on calls; what is taken for a pick-up is one; a
  phone that rings is not left ringing;
  the client is registered in the end, and again after an expiry it did not notice.
* **Module** — a trigger becomes at most one call, to its own number, one at a time; an
  outgoing call is never without a timer or a hang-up, so that every call that was made ends; every
  trigger gets its poll; the group object follows the registration.
* **Timers** — an armed timer fires, once, in time, wherever the clock wraps.
* **Parser** — of the messages collected in one window, exactly the first is acted on,
  and no field of it is set by another; a window without an empty line is refused; parsing ends.
* **Buffer** — a message that is too long loses its end and nothing else; Content-Length
  is that of the body that follows it; a number that is printed can be read back.
* **Socket** — an open socket talks to the address it was opened for, and the RTP socket
  can be opened again for every call.
* **MD5** — however a text is cut into pieces, what is hashed is that text, padded, and
  nothing left from an earlier one; the response is the one the gateway expects.

## 2. Modules

| Module | Models | Uses |
|---|---|---|
| `SipMessages` | what `parse()` hands to `rx()`: statuses, methods, challenges | |
| `SipClient` | the user agent, against an open environment | `SipMessages` |
| `SipGateway` | the user agent *composed* with a gateway and a network that loses and delays | `SipClient` |
| `SipPacket` | the text a receive window collects and the line loops of `parse()` | `SipMessages` |
| `SIPModule` | `SIPModule::loop()`, the channels, the console, the network; *composes* `SipClient`: its steps are the client's actions | `SipClient` |
| `Call` | the abstract promise: what a call is for the house | |
| `SIPModuleCalls` | the refinement mapping from the module and its client to `Call` | `SIPModule`, `INSTANCE Call` |
| `SipTimers` | the arithmetic behind the timers that the other modules abstract | |
| `WifiUdpClient` | one text buffer and one socket | |
| `SipSockets` | the client's two sockets and the messages it writes: the SIP socket by extension, the RTP socket as an instance | `WifiUdpClient`, twice |
| `Md5Context` | an MD5 context fed with pieces of a text | |
| `SipDigest` | the compression function and `compute_auth_response()`, on that context | `Md5Context` |
| `SipClient_proofs`, `SipGateway_proofs`, `SIPModule_proofs`, `SIPModuleCalls_proofs`, `SipPacket_proofs`, `SipTimers_proofs`, `SipSockets_proofs`, `Md5Context_proofs` | theorems about the module they are named after; those about `WifiUdpClient` are in `SipSockets_proofs` | |
| `MCSipClient`, `MCSIPModule`, `MCSipPacket`, `MCSipTimers`, `MCSipSockets`, `MCSipDigest` | constant values and symmetry for TLC; in `MCSipDigest`, the digests other implementations give | |

### SipClient

`pc` says who holds the thread: the owner (`"caller"`), `tx()` or `rx()`. `Run` enters
`run()`, one `Tx…` step is one call of `tx()`, one `Rx…` or `Handle…` step is one call
of `rx()`, from its first line to its return. `RequestRing` and `RequestCancel` happen
between runs.

| Action | Code |
|---|---|
| `TxBlocked` | a window is open, `tx()` returns (line 243) |
| `TxHangup` | the pending cancel: BYE in a call, CANCEL otherwise, then IDLE |
| `TxRegister`, `TxRegisterAuth`, `TxInvite`, `TxInviteAuth`, `TxAck`, `TxCancelledAck`, `TxSilent` | the cases of the `switch` |
| `RxErrorWaits`, `RxErrorOver` | the back-off of ERROR |
| `RxDial`, `RxAdvance` | the early returns while no window is open |
| `RxOpenWindow`, `RxCollect`, `RxNothing` | the window opens, collects, and ends without a usable packet |
| `RxPacket(p)` | the window ends with `p`: the 500 check, the stored challenge, the `200 OK` to a request, then the case of the state (`Handle…`) |
| `WindowElapses`, `BackoffElapses` | the clock passes the limit of a timer |

Two variables are history: `invite`, the INVITE the gateway has yet to answer finally, and
`told`, how far the current call was announced and acknowledged. No guard of a step
reads them. A packet of a status the client does not tell apart may be the final answer to the
INVITE (a 404) or none (a 180, a keep-alive), so that `InviteAfter` gives both: the properties about
the INVITE in flight hold in either case. `HasToTag` says which messages name the other side's
tag. `out` is the message the last step handed to the socket, for the
properties and for the gateway.

### SipGateway

The client's actions are taken as they are, and the packet of `RxPacket` is no longer any
one. `down` is what waits in the client's socket, `leg` the call as the gateway sees it,
`bound` its registration, `keyed` the nonce the client's digest was computed with, which
the model of the client alone does not need. `GTx` and `GRx` are a step of `tx()` or `rx()`
with what becomes of the message it sent: it reaches the gateway, which answers at once
(`Reaches`, `Answer`), or it is lost; and an answer may be lost on its way back. A window
takes all that waits and `rx()` acts on the first datagram, the others are gone; with
`Late` it may take fewer. `Alert`, `PickUp`, `Refuse`, `HangsUp`, `Repeat`, `GivesUp`,
`Calls`, `Withdraws`, `Notify` and `Expire` are what the gateway does of its own accord.
The owner is reduced to `GRing`, to `CallTimer`, which may fire whenever a call is made,
and to `StrayHangup`, a hang-up at any other time, which does happen (`module_timer`).

The gateway knows the dialog of a call by its tags. It takes a BYE for that of its call only if the BYE
names the tag of the other side (`Ends`, `HasToTag`), and refuses it otherwise; the client's
BYE never does (`sip_client.h:698`). So a hang-up ends a call that rings, by its CANCEL, and not one
that was answered, as the repository's `README.md:65` says. The ACK of a 200 is told from the ACK of a
refusal, which has the number of an INVITE that is over, by the state it leaves in.

Losses and all that a gateway may do but need not (`Fault`) are counted, and at most
`MaxFaults` of them happen in a behaviour, in any order and at any time.

### SIPModule

`running` splits `loop()` at the call of `run()`: `LoopRun` (publish, enter `run()`),
`ClientRuns` (`tx()`, then `rx()`), `LoopCalls` (timer or poll). `LoseClient` and
`CreateClient` are the branches without a network or without a client. When there is
no client, the client's variables are idle and mean nothing; `CreateClient` runs the
constructor on them (`Construct`). `InputKo`, `ConsoleCall`, `Hangup` and `NetChanges` fall
between two loops.

The array of channels has `ChannelCount` slots, of which the first `NumChannels` exist
(`IsChannel`), and the poll visits the empty ones, too. A group object of any slot is
shown to every channel (`InputKo`), which looks at its own only (`TriggeredBy`). The
console's `call` names a channel, counted from 1, and may name one that does not exist
(`ConsoleCall`); the channel writes its group object (`WriteKo`), and the KNX stack, which
is not part of the repository, is assumed to hand a written object back as an input.
`PhoneNumber` is the parameter of each channel.

### Call and SIPModuleCalls

`Call` has no client, no messages and no packets: channels that want a call, a call that is
asked for, placed or connected, the number it is for, its timer and a hang-up. `Serve`
uses up a trigger and starts the timer, whether or not the call can be asked for; `Connect`
also stands for a call from outside; `HangUp` needs a hang-up that was requested; `Lose` is
the network going away with everything. Nothing in it places a call without a trigger, twice
for one trigger, for another number, or while another one is under way; `NeverUntimed` says
what it is for.

`SIPModuleCalls` maps the registers: the phase from `_sipClient`, `m_state` and
`m_sipCommand`, the number from `m_uri` while a call goes out, the timer from
`_sipCallSince`. `ImplementsCall` is checked by TLC as a property of `module_safety` and
proved.

### SipTimers

`clock` is `millis()`, a counter that wraps; `started` holds the three registers
(`m_receivedStarted`, `m_errorStarted`, `_sipCallSince`); `inError` says that the client is in ERROR, the
one state in which the back-off is looked at (`LooksAt`); `age` is history, the true
time since a timer was armed. A timer ends by `Fire`, or is given up: `LeaveError` is a hang-up that takes
the client out of ERROR and leaves `m_errorStarted` as it is, to be stamped anew by the next `Arm`
(`setState`, line 804); `LoseClient` is the network going away, which deletes the client and clears
`_sipCallSince`. `Stamp` is the value stored (never 0), `Sample` the value
compared (moved off 0 by `rx()` for its window only), `Passed` the comparison of the
unsigned difference: `>=` in the client, `>` in the module.

### SipPacket

`text` is `m_currentReceiveMessage`, `phase` the loop `parse()` is in, `pos` its
`start_position` counted in lines, `seen` the members of the `SipPacket`. A line stands
for what the code makes of it: its kind (a header `parse_header()` knows, any other
line, a line of a body, a blank one) and the fields it sets. Two facts of the code are
kept exactly, because the properties hang on them: only a line that ends with CRLF is
seen, so that the open last line of a datagram (a body without a line ending, a header
cut short) swallows the first line of the next, and a field of it that takes the rest of its line
(`ToEnd`: the media and the address of a body, the copied header lines) takes that line, too, and is
`Mixed` (`Joined`); and a field is overwritten by every
later line that names it.

| Action | Code |
|---|---|
| `Receive(d)` | the text grows by one datagram; two that are not lost may arrive in one window |
| `Parse` | the window is over and not empty |
| `HeaderLine`, `HeaderEnds`, `HeaderCut` | an iteration of `parse_header()`: a line; the blank line; no line ending is left |
| `BodyLine`, `BodyEnds` | an iteration of `parse_body()`; a blank line or the end of the lines. Its result is not looked at |
| `NextWindow` | `rx()` returns, the packet is gone and the text is empty |

`SipClient` does not run these steps. It takes any `Packet` as its input, and
`SeenIsPacket` is the bridge: what `parse()` makes of a text whose first message is
whole is a `Packet`, provided every message of the gateway, alone, is one
(`MessagesAssumption`).

### WifiUdpClient and SipSockets

`text` is `m_tx_buffer` up to its NUL, and `Put` what `strncat()` and `snprintf()` leave in
a buffer of a given size. `meant` is history, all that was put since the buffer was emptied.
A socket is `open` or not; `OpenSocket` (`init()`) may fail, and does nothing with a socket
that is open; `SetServer` and `SetPort` close it (`Stopped`). `begun` is history, the address
the socket was opened for.

The RTP socket starts with a port of its own, 7078 in the code (`RtpPort`), the SIP socket with one that is a
parameter. In `SipSockets` a message is the seven pieces its properties tell apart (header, the mark of the
CSeq, the CSeq, the mark of the Content-Length, the Content-Length, the blank line, the
body), written by one `WritePiece` each. `Printed` is `%d` of an unsigned value, `Sdp` the body after
it went through `m_tx_sdp_buffer`. An INVITE of the gateway turns the RTP socket in the three
calls of the code: `TurnTo`, `TurnPort`, `TurnInit`.

### Md5Context and SipDigest

`ctx` is the context. Its four words are not in `Md5Context`: `hashed`, the bytes that were
given to `mbedtls_l_md5_process()`, determines them, and keeps the question whether the
*right bytes* are hashed apart from what is computed of them. `Updated` is
`mbedtls_l_md5_update()` with its three parts (complete the block that waits, whole blocks
straight from the input, keep the rest), `Finished` the two updates of
`mbedtls_l_md5_finish()`. `Hashed` is one digest from `starts` to `finish`.

`SipDigest` adds `Process`, the 64 steps on words of two 16-bit halves (TLC's integers have
32 bits and a sign), `Digest`, and `ComputeAuthResponse`: three digests one after the
other with the one context of the client, the first two of them in hexadecimal within the
third.

### Abstractions

* **Time** in `SipClient`, `SIPModule` and `SipGateway`: a timer is `"zero"`, `"running"` or
  `"elapsed"`, and elapses at any moment once it runs. No order is assumed between the
  timers. What the code computes from `millis()` is the subject of `SipTimers`, and that it never
  does more than these three values say is a theorem (`TimersAreThreeValued`).
* **A receive window** holds any one packet at its head, or nothing that parses. The
  code concatenates what arrives within a window and parses the first packet only; the
  packets behind it are lost, which the model's gateway can also do. `SipPacket` shows
  that this is what the parser makes of the text.
* **A packet** is what `rx()` reads of it: a status, or a method, and a nonce. A
  challenge whose nonce cannot be read carries `""`.
* A text whose *first* datagram is cut within its header may be completed by the next
  one: `SipPacket` contains that, and the packet may then mix both. `SipClient` does not
  receive such mixtures of a reply and a request.
* In `SipPacket`, how a line is recognised and how a value is cut out of it (`strncmp`,
  `read_param`, `strtol`) is data. `m_content_length` is set, never read, and left out.
* **A digest** is told apart by the method it was computed for, and in `SipGateway` by the
  nonce, too; that different inputs have different digests is not questioned.
* **A message** of the client is its method and the fields that identify a dialog. Realm and
  nonce are one value, as are `m_uri` and `m_to_uri`: each pair is assigned together.
* `m_to_contact`, `m_to_tag`, `m_caller_display` and `m_sdp_session_id` are written and
  printed but never decide anything; they are left out. That an ACK names the tag of the other side
  and no other request does is kept (`HasToTag`). The event `BUTTON_PRESS` is left out: it
  changes no state and the module installs no handler.
* `m_lastSent` is only ever set to 0: the branch of `tx()` that would space
  retransmissions is unreachable, so the models have none. A request that is not answered
  is sent again when its window is over.
* The gateway of `SipGateway` has one call, and looks at a request's method, digest and tag of the other
  side. Identifiers and the CSeq are not told apart in its main run (`SeqWrap = 1`): it takes the CANCEL
  of another INVITE for its own (`client_cancel` is about that). It repeats only the 200 of a call.
* In `SipPacket` a datagram is not cut within the name of a field, nor between the two characters of a
  line ending.
* In `SipSockets` letters stand for runs of text. The CSeq and the Content-Length keep all their digits.
* Every counter keeps its width: the CSeq is a `uint32_t`, `% SeqWrap`; the words of MD5 have 32
  bits; the bits of a text are counted in `total[0]` alone, since no text has 2^29 bytes.

## 3. Runs

| Run | Property | Shows |
|---|---|---|
| `client_safety` | `TypeOK` | ranges; the CSeq wraps |
| | `TransientStatesSeeNoPacket` | no window is open in `INVITE_UNAUTH`, `CALL_START`, `ERROR`: the comment "should not reach this point" (line 502) is right |
| | `UnauthInviteIsBare` | no digest is left from the registration or the last call |
| | `InvitesGoWhereAsked` | only numbers asked for are called, also when a dial was pending across a loss of the registration |
| | `InviteIsCancellable` | while an answer is awaited, a CANCEL would match |
| | `AckMatchesInvite` | the ACK of a final reply names its INVITE |
| | `AnswerIsAcknowledged` | in progress only after this call's ACK |
| `module_safety` | `MTypeOK`, `CallIsTimed` | an outgoing call always has its timer or its hang-up |
| | `ImplementsCall` | module and client implement the abstract call |
| `module_liveness` | `AttemptEnds` | every call that was made ends for the client, also one that was answered and whose BYE was lost |
| | `HangupIsSent`, `ErrorRecovers` | the CANCEL or BYE of a hang-up is sent; ERROR is left |
| | `KoShowsRegistration` | the group object shows a lasting registration |
| | `TriggersServed` | two channels do not starve each other; a poll may find the client not registered, and lose the trigger (`module_timer`) |
| `gateway` | `CallIsShared` | without faults, a client in a call talks to a gateway that does, or is about to learn that it is over |
| | `PickupIsReal` | the 200 taken for the other side picking up is one, if no reply is late |
| | `RegistersInTheEnd` | losses, stray packets, stray hang-ups and an expiry only delay the registration |
| | `LapseHeals` | a registration that expired unnoticed comes back with the next call |
| | `RingingEnds` | without faults, a phone that rings for a client in RINGING stops ringing: the hang-up gets its turn and is a CANCEL |
| `packet` | `PTypeOK` | the parser stays within its text |
| | `FirstMessageDecides` | every header field is the first message's own, whatever else the window collected |
| | `BodyIsOfFirst` | every field of the body is set by a line of the first message, although `Content-Length` is not used; the media and the address of an open last line run on into the line that follows, and no other field does |
| | `SeenIsPacket` | the input assumed by `SipClient` is what the parser produces |
| | `CutHeaderIsRefused` | a window is acted on exactly if some datagram brought an empty line with it |
| | `ParseEnds` | `parse()` comes to an end on every text |
| `timers` | `TimersFire`, `WindowIsKept`, `EarlyOnlyAtZero` | the timers across the wrap of the clock |
| `sockets` | `UTypeOK`, `TextIsCut` | the buffer keeps its NUL, and the longest beginning of the message |
| | `LengthIsBody` | Content-Length is right in every message that was not cut, also when the body was |
| | `NumberSurvives` | a CSeq printed as a negative number is still one number only |
| | `OpenAddress`, `RtpIsReopened` | no socket talks to an address it was not opened for; every call can open the RTP socket |
| `digest` | `CTypeOK`, `NothingIsLost`, `HashedIsPadded` | the right bytes are hashed, after any other digest, in any pieces |
| | `DigestIsMd5`, `ResponseIsExpected` | the digests and responses are those other implementations compute |

Four runs each state a sentence of the repository that the code does not keep. TLC's
counterexample is the evidence; `PROJECT.json` quotes the sentences.

| Run | Sentence | What the code does |
|---|---|---|
| `client_cancel` | a CANCEL keeps the CSeq and tag of its INVITE (`sip_client.h:592`) | any unexpected packet while inviting, a 180 among them, leads through ERROR to a new CSeq, while the INVITE is still being answered |
| `gateway_late` | in RINGING, a 200 is "other side picked up" (`sip_client.h:472`) | so is the 200 to a REGISTER that comes one window late: no reply is matched to its request |
| `module_outage` | the group object is the connection's state (`SIPClientModule.share.xml:67`) | `loop()` compares the flag it just reset with the state it read before deleting the client, and publishes "connected" for the whole outage |
| `module_timer` | the timer ends a call (`SIP-CancelCall.md:3`) | a trigger polled while the client is not registered is forgotten, and the number ignored (`sip_client.h:156`), but the timer starts: it fires on a client that has registered by then and is in no call, and asks for a hang-up, which sends a CANCEL and leaves REGISTERED for IDLE. While there is a client, nothing else clears the timer; a loss of the network does (`SIPModule.cpp:151`) |

`module_outage` states liveness and assumes fairness, so that its counterexample is a behaviour in which
the firmware keeps running; the others end with the step that disagrees.

One disagreement needs no run, because the repository's own `README.md:65` lists it under its known problems: an
answered call is not ended by a hang-up, since its BYE belongs to no dialog at the gateway. `SipGateway`
contains it (`Ends`), and the properties say what is left: a requested hang-up is *sent* (`HangupIsSent`), it ends a
call that *rings* (`RingingEnds`), and, while nothing goes wrong, the only calls a client leaves behind are those
hung up after the pick-up (`CallsAreKnown`). The CSeq of that BYE is the literal 104, although the comment of the function
(`sip_client.h:616`) says that it must not be changed; the gateway of the model looks at no CSeq and refuses it for its missing tag.

A hang-up in vain leaves the call at the gateway, and its later BYE may arrive in the middle of the next
registration or call and lead it through ERROR. This is why `RingingEnds` is stated for RINGING: after such a
BYE in INVITE_AUTH the client goes to ERROR, and sends no CANCEL, while its INVITE rings.

### Bounds, and why they are enough

* `Rand` has two values in the client's runs, where identifiers matter: a fresh draw may
  equal the register or differ from it, and no property compares more than two messages.
  They are interchangeable, hence the symmetry; no liveness run uses symmetry.
* `SeqWrap = 4`: the counter wraps within a few requests, and `ByeSeq = 2` lies in the
  middle, so the BYE moves it forwards and backwards. `SeqRand = 1` fixes its start;
  every value is reached by counting.
* One challenge: it is compared with "none", never with another. One number in the client's
  runs, compared with the registrar's; two in `module_safety`, one per channel, because
  `ImplementsCall` is about who is called. `module_liveness` has no nonce: every challenge
  comes with `""`, on which no branch of the code depends.
* Where identifiers play no part (the module, the gateway) there is one random value and
  the counter is constant, which keeps the temporal runs small.
* `module_safety` has three slots, two of them with a channel: the poll meets a channel,
  another one and an empty slot, and wraps; the console may name a slot that does not
  exist. `module_liveness` has two channels.
* `gateway`: two faults in any behaviour, which is what the mistakes of such a protocol take (one
  that misleads a side and one that hides the answer), and three datagrams in the socket,
  more than any step puts there; `Keep` drops what goes beyond. `gateway_late` needs one fault.
* `packet`: nine datagrams, among them three requests with a body, two of the bodies
  without a last line ending (one open line is the address to talk to, which takes in what
  follows, the other a duration, which does not), two cut headers and two keep-alives of blank lines;
  up to three in a window, so that a message may follow one that is cut and precede a
  third.
* `timers`: a clock of 12 ticks, limits 2, 4 and 5 and a loop that is up to 3 ticks
  late let every timer start, span and end at the wrap. The code's own values (2^32, and
  limits of seconds to minutes) satisfy the same assumption, that a limit and the delay
  fit in the clock; the proofs are for all of them.
* `sockets`: a buffer of 12 characters and a body buffer of 5: some messages fit, some are cut
  in each of their pieces, bodies fit, are cut, or are missing, and numbers have one or two
  digits and a sign. `SeqWrap = 24` has both signs on both lengths.
* `digest`: pieces of 55, 56 and 64 bytes of a text of 128, so that a block is completed
  from the buffer, taken from the input, missed by one byte and hit exactly, and the padding
  has its shortest and its longest form; ten lengths in all, in any order on one context. The
  credentials are the example of RFC 2069, a registration, and one with empty realm and
  nonce and a password that fills more than a block. The expected values are those of an
  independent implementation of MD5.

### Fairness

* The main loop. `Run`, `Tx`, `Rx`: the firmware calls `run()` for ever and `run()` does not
  block. In `SIPModule` it is the *disjunction* `LoopRun \/ LoseClient \/ CreateClient` that
  is weakly fair: `loop()` is called for ever, and takes the branch the network of the moment
  calls for; `LoopCalls` is its second half. In `SipGateway`, `GRun`, `GTx` and `GRx`.
* The clock: an armed timer elapses in the end. All of it is weak fairness.
* `ParseStep`: `parse()` is a loop that nothing interrupts.
* `CallTimer` of `SipGateway` is strongly fair: it stands for a timer that, once elapsed,
  is looked at after every `run()`, hence never while the client is at work, but between any
  two of its runs; it is disabled and enabled again with each of them. That there is such a timer for
  every outgoing call is `CallIsTimed`; while there is a client, nothing but its firing resets it (`SIPModule.cpp:168`),
  and without one there is no call (line 151).

The gateway of `SipClient` and `SIPModule`, the owner, the group objects, the console and
the network owe nothing: the gateway may stay silent for ever, and the network may flap. The
gateway of `SipGateway` owes an answer to what reaches it, as an answer of `Reaches`, and nothing else: it need not
ring, pick up or hang up. That the network loses only `MaxFaults` messages is the premise of
`RegistersInTheEnd` and `LapseHeals`: the losses end. `RingingEnds` is about what happens before the first.

## 4. What is proved

Every theorem is for all values of the constants that satisfy the named assumptions.

### The user agent

`SipClient_proofs` shows, for every set of numbers, challenges and random values and
every width of the counter, that `IInv` is an inductive invariant of `Spec`:

    Init => IInv          IInv /\ [Next]_vars => IInv'

The invariants of the runs are not inductive alone. `IInv` adds to

* `UnauthInviteIsBare`: no digest is kept in any state from REGISTERED to the end of
  the call, except INVITE_AUTH (`DigestInv`);
* `InvitesGoWhereAsked`: a dial that is pending while a window is open implies
  REGISTERED, for only a registered client accepts a dial; with a dial pending no window
  opens, so that by the time REGISTERED could be left and entered again — which rewrites
  the target to `**613` — the dial has been taken (`DialInv`);
* `InviteIsCancellable`: between `tx()` and `rx()` of one run, an INVITE just sent from
  INVITE_UNAUTH is already current (`InviteInv`);
* `AnswerIsAcknowledged`: between `tx()` and `rx()`, CALL_START has sent its ACK, which
  holds because no window is open in CALL_START (`AnswerInv`, `TransientStatesSeeNoPacket`).

From it follow `TypeCorrect`, `TransientStates`, `InvitesAreBare`, `OnlyAskedNumbers`,
`InviteStaysCancellable`, `AnswersAreAcknowledged`, and the action property `AcksMatch`.

Two more action properties say what the owner of the client may count on, step by step. They rest on
`TurnInv`: between `tx()` and `rx()` a pending hang-up stands behind a window that is open already, and no
dial is pending while an INVITE is about to be sent.

* `HangupsGetTheirTurn`: a pending hang-up waits for the window that is open and no other; it is taken off
  only by the `tx()` that sends its CANCEL or BYE and leaves for IDLE. Only a dial of a client in
  REGISTERED, which is in no call, displaces it.
* `InvitesLeaveOnce`: the `rx()` that follows the `tx()` of a bare INVITE moves on, whatever was
  requested, so that the INVITE leaves once.

### The gateway

`SipGateway_proofs` is about the client composed with a gateway, for any number of faults and
any room in the socket.

* `GatewayIsOpenWorld` is a refinement, `GSpec => Spec`: every
  step of the composition is a step of the open `SipClient` or a stutter, which needs that what
  waits in the socket are packets. So everything proved of the client alone holds with
  the gateway, too (`ClientIsSafe`).
* `PickupsAreReal`: if no reply misses its window, `PickupIsReal`. The inductive invariant
  (`PickupInv`): a reply with status 200 that waits in the socket is about the INVITE, unless
  the client is registering. What sends another request stays in the registration or goes back
  to it, and the window of that request takes the reply.
* `CallsAreShared`: if no reply misses its window, `CallIsShared`. While nothing goes wrong, no
  INVITE waits for the client (`NoneOffered`); a 200 that waits while it rings comes from a
  gateway that was answered and awaits the ACK (`PickedUp`); and from CALL_START on the two sides
  move together, until nothing but a BYE waits for the client (`Sealed`). Together they are `SharedInv`, inductive
  only with `IInv`.
* `RegistrationsAreReal` has no hypothesis on what is late, lost or repeated: unless a
  registration expires, a client that the gateway does not know only registers, or waits in
  ERROR, and has no call there. `BoundInv` adds that no 200 waits for it: every 200 of the
  gateway follows a registration it accepted.
* `CallsAreKnown` is the other half of `CallIsShared`: while nothing goes wrong, the *gateway* has a call
  only with a client that is in one. The inductive invariant (`KnownInv`) follows a call of
  the gateway through the client's states: in INVITE_AUTH, what waits is the 100 that leads on
  (`Tried`); in RINGING, nothing waits that ends the ringing without an ACK (`Rings`); and the
  gateway talks only after the ACK (`Talks`). It has one more hypothesis, that no hang-up is sent when the gateway
  was answered (`HangupIsVain`), which TLC showed to be needed for both messages of a hang-up: a CANCEL
  that leaves while the 200 of a pick-up is on its way cancels nothing, and the BYE of a call in progress
  names no dialog. In both cases the client goes to IDLE and the gateway is left with the call. The theorem says
  that nothing else leaves one behind: no packet, no window, no timer, and no hang-up of a call that still rings.

The hypothesis `~Late` of three of them is that of the run `gateway`; without it
`PickupIsReal` is false, which is what `gateway_late` shows.

### The module, and that it implements Call

`SIPModule_proofs` lifts `IInv` to the composition (`ClientInvariant`): every step of the
module is a step of the client, a stutter of it, or the constructor, which establishes
`Init`'s conditions anew. On top of it, `MTypeCorrect` and `CallsAreTimed`, for any number
of channels. Beyond them:

* `TurnsOfTheOwner`: the two promises of the client to its owner hold in the module, too, where clients
  come and go.
* `TriggersComeNearer`: a trigger is forgotten only by the poll of its own channel, and every other
  poll lessens its `Distance` from the channel whose turn it is, a natural number below the number of
  slots. So that poll comes after less than a round of polls, however often the other
  channels are triggered. What the poll does with the trigger (`TakesUp`): the client is asked for the call of the
  channel's number just if it is REGISTERED; otherwise the trigger is lost, and only the timer starts.
* `RegistrationIsShown` and `RunsPublish`: the object shows a registration as long as the flag
  does, whatever the network does, and every `loop()` that runs the client makes the flag follow it.
* `OutagesAlone`: in behaviours without `LoseClient` the object *is* the flag. This places the
  disagreement of `module_outage` in that one branch.
* `OnlyChannelNumbers`: every INVITE is for the number of a channel. A client that is
  created starts without a dial (`Construct`), and no poll serves an empty slot. For the client
  alone, `OnlyAskedNumbers` says the same of what it was asked for.

`SIPModuleCalls_proofs` proves the refinement `CallsAreAsPromised` (`MSpec => ImplementsCall`):
the initial states map to initial states, and every step of the module maps to a step of `Call`
or to a stutter, in states that satisfy `RInv`, which is `IInv`, `MTypeOK`, `CallIsTimed` and
"`run()` is only called on a client". `IInv` is needed where the number of a call must not
change under it (`DialInv`), `CallIsTimed` where the promise allows a hang-up. A step is
mapped once per half of `loop()`: `TxIsSeen`, `QuietIsSeen`, `PacketIsSeen`, `HangupIsSeen`,
`ServeIsSeen`, `InputIsSeen`. Of `Call` itself, `PromisesAnEnd` shows `NeverUntimed`, and
`NoCallIsLeftAlone` carries it over to the module.

### The parser

`SipPacket_proofs` shows, for every set of lines and datagrams and any number of
datagrams within a window, the five invariants of the run. The inductive invariant adds

* for `FirstMessageDecides`: `Kept`, the text still begins with the lines of the first
  datagram, and goes on if another followed a terminated one; and `Read`, while
  `parse_header()` is at line `pos`, each header field is what the lines before `pos` tell,
  read one after the other (`Tells`), and `pos` is not beyond the first message's blank line;
  behind the header it is what the whole header tells. `HeaderEnds` meets the first blank line
  of the text, which by `Kept` is that of the first message, if its header is complete;
* for `CutHeaderIsRefused`: `BlanksAreEnds`, the text has a blank line if and only if some datagram
  of the window brought an empty line with it (`EndsHeader`): a blank line that follows an open line ends that line,
  and is none of the text (`Joined`); every other one is. The parser has passed no blank line while it
  reads the header, has found one when it succeeds, and has none before it when it fails;
* for `BodyIsOfFirst`: `BodiesAreApart`, a body line behind the first datagram has a
  blank line between, at which `parse_body()` has stopped; and `BodyRead`, what was read so far
  is of the first, with what its open last line ran on into (`FirstLine`).

`ParsingAdvances` is the safety half of `ParseEnds`: whatever happens while `parse()` is at work
lessens `LinesLeft`, a natural number.

`PacketsAreSeen` follows from `FirstMessage` with `MessagesAssumption`.

### The timers

`SipTimers_proofs` shows the three properties for a clock of any width, all limits and delays
that fit in it. The invariant `TInv` says that a register holds the clock of the moment at
which its timer was armed, moved off 0, where that moment is `age` ticks ago modulo the
width, and that no age exceeds its limit and the delay. From `OneTurn` (a sum of two
values below the width wraps at most once) follows `ElapsedIsAge`: the unsigned difference
is the age, up to the one tick that is skipped at 0, on either side.

`ElapsedIsStable`: a comparison that holds goes on to hold until the timer is cleared or given up, however
late `loop()` comes by within `LoopGap`, since a tick never lessens the difference (`TickKeepsPassed`).
With `ArmedRuns`, a timer that is armed has its whole time before it, this is `TimersAreThreeValued`:
zero, running, elapsed, and zero again, one after the other, or given up on the way (`GivenUp`: a hang-up in
ERROR, a loss of the network), which is all that `SipClient`, `SIPModule` and
`SipGateway` assume of a timer. The one exception (`Ahead`) is that of `EarlyOnlyAtZero`: a
back-off or a call started in the millisecond in which `millis()` is 0 is elapsed first and then
running. `SipClient` and `SIPModule` let a running timer elapse at any moment, so they contain the early end.

### Buffer, sockets, MD5

`SipSockets_proofs`, of one buffer and one socket (`USpec`): `UTypeCorrect`, `TextsAreCut` and
`OpenAddresses`. The heart of it is `PutCut`: to append a piece to a text that was cut is to cut the text with the piece
appended, so that it makes no difference how a message is put together.

Of the client's two sockets (`SSpec`): `ClientUsesASocket` is a refinement, `SSpec => USpec`: whatever messages the
client writes and however its sockets are turned, the SIP socket makes only steps of a
`WifiUdpClient`; the three theorems then hold of it (`ClientSocketIsSafe`).
`RtpIsAlwaysReopened`: between `set_server_ip()` and `init()` the RTP socket is closed and on its
way to the caller's address (`RtpInv`).

Of the messages: `MessagesAreWritten` is the invariant `WritingInv`, what was put into the
buffer is the first pieces of one message, and the others are still to come.
`LengthsAreBodies` and `NumbersSurvive` follow: what a reader of a whole message finds
between the marks (`Anatomy`) is the piece that was written there, as no piece contains the mark of
another. That a number is read back from its
digits (`DigitsValue`) is an induction over the number, which the provers do by its least
counterexample (`LeastOf`); so is that the functions `Digits` and `ValueOf`, recursive as they
are, exist.

`Md5Context_proofs`: `NoByteIsLost` and `PaddedTextIsHashed`, for every text below 2^29 bytes,
every set of piece lengths, and any sequence of digests. The invariant is `StandsFor(ctx, message)`:
what was hashed is a multiple of the block size, and with the first `total % 64` bytes of the
buffer it is the message. `UpdateKeeps` shows that `mbedtls_l_md5_update()` keeps it for any
input, and is used three times: for `Update`, for the padding and for the length, after
which nothing waits (`PaddingFills`). `DigestsAreFresh` says it of one digest as a whole:
whatever the context was left with by the last one, what is hashed is this text, padded.

### Assumptions on the constants

The counter's width is positive and its start and the literal 104 lie in its range
(`SeqAssumption`); there is a random value (`RandAssumption`); no number is the registrar or
`**613` (`NumbersAssumption`; a channel configured to ring `**613` would make
`InvitesGoWhereAsked` say less, not fail); a challenge is not empty (`NoncesAssumption`); at
least one channel, none beyond the compiled-in ones (`ChannelAssumption`); every channel's
number is a number (`PhoneAssumption`). A line sets fields of its own kind to known values
(`LineAssumption`); a datagram has at least one line, an open last line is not blank, for a
blank line is nothing but its CRLF, and the lines of a body stand behind a header and its
blank line (`DatagramsAssumption`); a field may have no value (`TextAssumption`); a value that runs on into another
message is that of no line alone (`MixedAssumption`); every message, alone, is one the user agent knows (`MessagesAssumption`).
A limit and the delay of a loop fit in the clock (`LimitAssumption`). A buffer has room for
its NUL and pieces are texts (`BufferAssumption`); so do the buffer of the body and the
counter have a size, and the first port of the RTP socket is a port (`SocketsAssumption`); what the client writes is among the pieces
(`PiecesAssumption`, which spares the proof what `snprintf()` computes). A text is shorter
than 2^29 bytes (`TextAssumption` of `Md5Context`). The bounds of
the gateway are numbers, its socket has room for something, and there is a challenge
(`GatewayAssumption`). `CredentialsAssumption` is only TLC's.

## 5. What is only model-checked

* Liveness, which is out of the prover's reach: `AttemptEnds`, `HangupIsSent`,
  `ErrorRecovers`, `KoShowsRegistration`, `TriggersServed`, `RegistersInTheEnd`,
  `LapseHeals`, `RingingEnds`, `ParseEnds`. Of some of them all but the fairness is proved: that each step
  the fairness promises leads nearer, and that no other step leads away.

  | Property | Proved of its steps |
  |---|---|
  | `ParseEnds` | `ParsingAdvances`: fewer lines are left after each |
  | `HangupIsSent` | `HangupsGetTheirTurn`, `TurnsOfTheOwner`: one window to wait for, then the message |
  | `TriggersServed` | `TriggersComeNearer`: one poll less to wait for |
  | `KoShowsRegistration` | `RunsPublish`: shown by the next `loop()`; `RegistrationIsShown` |
* `DigestIsMd5` and `ResponseIsExpected`: they compare with values computed elsewhere, on words
  whose bits are combined, and TLAPS has no use for the module of those operators (`Bitwise`). That
  the right bytes are hashed is proved (`DigestsAreFresh`).

## 6. What is not modelled

* Boost SML and the wrapper of the client under `USE_SML`: vendored, and the table of the
  wrapper triggers no action of the client.
* The ETS files and the help texts, which declare parameters; logging and wording.
* `set_my_ip`, `set_credentials` and `set_event_handler`, which nothing in the firmware calls, and
  the event handler, which is not installed.
* `mbedtls_l_md5()`, `mbedtls_l_md5_clone()` and the wiping of a context in
  `mbedtls_l_md5_free()`; the first two are used by nothing.
* Of the channel owner, `setup1`, `loop1` and the channels' own `loop()`, which are
  empty here.
* `receive()` of the socket, beyond the window it fills, and `m_rx_buffer`, which is used by
  nothing.

## 7. Reading a deviation

Next to some definitions stands a variant with the comment "A deviation used to test …".
It is the definition with one plausible bug; put in its place, it breaks the named
property. No specification uses it.

## 8. Plan

What is left, in this order:

1. **The dialog at the gateway**: `SipGateway` refuses the BYE for its missing tag and looks at no CSeq. Two calls at
   the gateway, told apart by CSeq and tags, would show what an abandoned call does to the next one.
2. **The incoming call**: the client answers an INVITE in every state and keeps no state
   of it. `SipGateway` contains it as a fault (`Calls`), and nothing is stated about it.
3. **The module over the gateway**: `SIPModule` on top of `SipGateway`, with the call timer of
   the module in the place of `CallTimer`.
