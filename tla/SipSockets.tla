----------------------------- MODULE SipSockets -----------------------------
(***************************************************************************)
(* What the SIP client of sip_client.h does with its two sockets: over     *)
(* m_socket (the variables of WifiUdpClient) it sends messages that it     *)
(* puts together piece by piece; m_rtp_socket (the instance Rtp) is turned *)
(* to the caller whenever an INVITE arrives.  The results of init() and    *)
(* send_buffered_data() are looked at by nobody.                           *)
(*                                                                         *)
(* A message is the letters "h" of its header, ":" and the CSeq, "=" and   *)
(* the Content-Length, the blank line "|", and the letters "b" of a body.  *)
(***************************************************************************)
EXTENDS WifiUdpClient

CONSTANTS SdpSize,    \* the size of m_tx_sdp_buffer, 1024
          RtpPort,    \* the port that m_rtp_socket starts with, "7078"
          SeqWrap,    \* m_sip_sequence_number is a uint32_t: 2^32
          HeadLength, \* the lengths a header may have
          BodyLength  \* and those of a body; 0 is a message without one

ASSUME SocketsAssumption == /\ SdpSize \in Nat \ {0} /\ SeqWrap \in Nat \ {0}
                            /\ RtpPort \in Ports
                            /\ HeadLength \subseteq Nat /\ BodyLength \subseteq Nat

VARIABLES
  todo,      \* the pieces yet to be put into the buffer
  writing,   \* a send_sip_... function is at work
  seq,       \* m_sip_sequence_number
  rtpOpen, rtpServer, rtpPort, rtpBegun,
  turning    \* what the client has yet to do to m_rtp_socket, and for whom

rtp == <<rtpOpen, rtpServer, rtpPort, rtpBegun, turning>>
svars == <<uvars, todo, writing, seq, rtp>>

\* Nothing is written into the buffer of the RTP socket.
Rtp == INSTANCE WifiUdpClient WITH
  open <- rtpOpen, server <- rtpServer, port <- rtpPort, begun <- rtpBegun,
  text <- << >>, meant <- << >>

Nobody == [step |-> "none"]

\* Both sockets start with the gateway; the port of its SIP is a parameter.
SInit ==
  /\ UInit /\ Rtp!UInit /\ rtpServer = server /\ rtpPort = RtpPort
  /\ todo = << >> /\ writing = FALSE
  /\ seq \in 0 .. SeqWrap - 1
  /\ turning = Nobody

-----------------------------------------------------------------------------
(***************************************************************************)
(* Messages.                                                               *)
(***************************************************************************)
Letters(c, n) == [i \in 1 .. n |-> c]
Digit == <<"0", "1", "2", "3", "4", "5", "6", "7", "8", "9">>
Digits[n \in Nat] ==
  IF n < 10 THEN << Digit[n + 1] >> ELSE Append(Digits[n \div 10], Digit[(n % 10) + 1])

\* A deviation used to test NumberSurvives: the counter is cut to 31 bits.
PrintedShort(n) == Digits[n % (SeqWrap \div 2)]

\* snprintf("%d") of an unsigned value: the upper half goes out negative.
Printed(n) == IF 2 * n < SeqWrap THEN Digits[n]
              ELSE <<"-">> \o Digits[SeqWrap - n]

Sdp(b) == Put(SdpSize, << >>, Letters("b", b))

\* A deviation used to test LengthIsBody: the length is that of the body that
\* was meant, not of the one that is in its buffer.
MessagePromised(h, b, n) ==
  << Letters("h", h), <<":">>, Printed(n), <<"=">>, Digits[b], <<"|">>, Sdp(b) >>

\* The pieces of a message with the CSeq n.
Message(h, b, n) ==
  << Letters("h", h), <<":">>, Printed(n), <<"=">>, Digits[Len(Sdp(b))],
     <<"|">>, Sdp(b) >>

\* They are among what an operator<< may put.
ASSUME PiecesAssumption ==
  \A h \in HeadLength, b \in BodyLength, n \in 0 .. SeqWrap - 1 :
    Message(h, b, n) \in Seq(Pieces)

Write(h, b) ==
  /\ ~writing /\ turning = Nobody
  /\ NewTxBuf
  /\ writing' = TRUE
  /\ todo' = Message(h, b, seq)
  /\ UNCHANGED <<seq, rtp>>

WritePiece ==
  /\ todo # << >>
  /\ Append1(Head(todo))
  /\ todo' = Tail(todo)
  /\ UNCHANGED <<writing, seq, rtp>>

\* send_buffered_data(): whether the message leaves, nobody asks; the buffer
\* keeps it until the next one is started.
Ready == writing /\ todo = << >>
SendBuffered ==
  /\ Ready
  /\ writing' = FALSE
  /\ UNCHANGED <<uvars, todo, seq, rtp>>

Count ==
  /\ ~writing
  /\ seq' = (seq + 1) % SeqWrap
  /\ UNCHANGED <<uvars, todo, writing, rtp>>

-----------------------------------------------------------------------------
(***************************************************************************)
(* The sockets.                                                            *)
(***************************************************************************)
InitClient ==
  /\ ~writing /\ turning = Nobody
  /\ OpenSocket
  /\ UNCHANGED <<todo, writing, seq, rtp>>

\* SipClientInt::set_server_ip(): both sockets are turned, and closed.
SetServerIp(s) ==
  /\ ~writing /\ turning = Nobody
  /\ SetServer(s)
  /\ Rtp!SetServer(s)
  /\ UNCHANGED <<todo, writing, seq, turning>>

\* rx() finds an INVITE: set_server_ip(), set_server_port(), init().
TurnTo(s, p) ==
  /\ ~writing /\ turning = Nobody
  /\ Rtp!SetServer(s)
  /\ turning' = [step |-> "port", server |-> s, port |-> p]

\* A deviation used to test RtpIsReopened: the port of the last caller stays.
TurnKeepsPort ==
  /\ turning.step = "port"
  /\ Rtp!SetPort(rtpPort)
  /\ turning' = [turning EXCEPT !.step = "init"]

TurnPort ==
  /\ turning.step = "port"
  /\ Rtp!SetPort(turning.port)
  /\ turning' = [turning EXCEPT !.step = "init"]

TurnInit ==
  /\ turning.step = "init"
  /\ Rtp!OpenSocket
  /\ turning' = Nobody

Turn == /\ TurnPort \/ TurnInit \/ \E s \in Servers, p \in Ports : TurnTo(s, p)
        /\ UNCHANGED <<uvars, todo, writing, seq>>

SNext == \/ \E h \in HeadLength, b \in BodyLength : Write(h, b)
         \/ WritePiece \/ SendBuffered \/ Count
         \/ InitClient \/ (\E s \in Servers : SetServerIp(s)) \/ Turn

SSpec == SInit /\ [][SNext]_svars

-----------------------------------------------------------------------------
(***************************************************************************)
(* Properties.                                                             *)
(***************************************************************************)

\* What digits are read as, from the left.
DigitValue(c) == CHOOSE d \in 0 .. 9 : Digit[d + 1] = c
ValueOf(chars) ==
  LET value[n \in 0 .. Len(chars)] ==
        IF n = 0 THEN 0 ELSE 10 * value[n - 1] + DigitValue(chars[n])
  IN  value[Len(chars)]

\* What stands between two places of the text.
Between(i, j) == SubSeq(text, i + 1, j - 1)

\* The Content-Length of a message that leaves whole is the length of the body
\* behind it, also when the SDP buffer cut the body (line 582).
LengthIsBody ==
  Ready /\ Len(text) < Size - 1 =>
    \E i, j \in DOMAIN text : /\ text[i] = "=" /\ text[j] = "|"
                              /\ ValueOf(Between(i, j)) = Len(text) - j

\* The CSeq on the wire, read as a signed number, is still the counter's value
\* modulo its width: printed with %d it changes its sign in the upper half, but
\* no two values become the same.
NumberSurvives ==
  Ready =>
    \A i, j \in DOMAIN text :
      text[i] = ":" /\ text[j] = "=" =>
        LET chars == Between(i, j)
        IN  IF Head(chars) = "-" THEN SeqWrap - ValueOf(Tail(chars)) = seq
            ELSE ValueOf(chars) = seq

\* When an INVITE has turned the RTP socket, init() finds it closed, however
\* many calls there were before: it is never refused as "already initialized",
\* and what opens is the address of this caller.
RtpIsReopened ==
  /\ turning.step = "init" =>
       ~rtpOpen /\ <<rtpServer, rtpPort>> = <<turning.server, turning.port>>
  /\ rtpOpen => rtpBegun = <<rtpServer, rtpPort>>

=============================================================================
