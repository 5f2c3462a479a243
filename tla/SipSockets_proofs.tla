------------------------- MODULE SipSockets_proofs -------------------------
(***************************************************************************)
(* Theorems about a socket and its buffer, for every size of the buffer,   *)
(* every message and every address; and about the sockets of the client,   *)
(* for every header and body and every width of the counter: over m_socket *)
(* the client does nothing but what WifiUdpClient allows, so what is       *)
(* proved of a socket is proved of this one, and m_rtp_socket is ready     *)
(* whenever an INVITE opens it.  Then the messages: the numbers in them    *)
(* are read as what was meant.                                             *)
(***************************************************************************)
EXTENDS SipSockets, SequenceTheorems, WellFoundedInduction, TLAPS

-----------------------------------------------------------------------------
(***************************************************************************)
(* One socket and its buffer, whoever uses them.                           *)
(***************************************************************************)
\* What one operator<< leaves in the buffer, while there is room for the NUL.
LEMMA PutType ==
  ASSUME NEW chars \in Seq(Char), NEW piece \in Seq(Char), Len(chars) < Size
  PROVE  /\ Put(Size, chars, piece) \in Seq(Char)
         /\ Len(Put(Size, chars, piece)) < Size
<1> DEFINE n == Least(Len(piece), Size - 1 - Len(chars))
           cut == SubSeq(piece, 1, n)
<1>1. Len(piece) \in Nat /\ Len(chars) \in Nat
  OBVIOUS
<1>2. n \in Nat /\ n <= Len(piece) /\ Len(chars) + n < Size
  BY <1>1, BufferAssumption DEF Least
<1> HIDE DEF n
<1>3. cut \in Seq(Char) /\ Len(cut) = n
  <2>1. \A i \in 1 .. n : piece[i] \in Char
    BY <1>1, <1>2
  <2> QED
    BY <1>2, <2>1, SubSeqProperties
<1> HIDE DEF cut
<1>4. chars \o cut \in Seq(Char) /\ Len(chars \o cut) = Len(chars) + n
  BY <1>1, <1>3, ConcatProperties
<1>5. Put(Size, chars, piece) = chars \o cut
  BY DEF Put, cut, n
<1> QED
  BY <1>2, <1>4, <1>5

\* The beginning of two sequences, when it reaches into the second.
LEMMA ConcatCut ==
  ASSUME NEW s \in Seq(Char), NEW t \in Seq(Char), NEW n \in Nat, n <= Len(t)
  PROVE  SubSeq(s \o t, 1, Len(s) + n) = s \o SubSeq(t, 1, n)
<1>1. /\ Len(s) \in Nat /\ Len(t) \in Nat
      /\ s \o t \in Seq(Char) /\ Len(s \o t) = Len(s) + Len(t)
  BY ConcatProperties
<1>2. SubSeq(s \o t, 1, Len(s)) = s
  BY <1>1, SubSeqOfConcat1, SubSeqFull
<1>3. SubSeq(s \o t, Len(s) + 1, Len(s) + n) = SubSeq(t, 1, n)
  <2>1. SubSeq(s \o t, Len(s) + 1, Len(s) + n)
          = SubSeq(t, Len(s) + 1 - Len(s), Len(s) + n - Len(s))
    BY <1>1, SubSeqOfConcat2
  <2>2. Len(s) + 1 - Len(s) = 1 /\ Len(s) + n - Len(s) = n
    BY <1>1
  <2> QED
    BY <2>1, <2>2
<1>4. SubSeq(s \o t, 1, Len(s)) \o SubSeq(s \o t, Len(s) + 1, Len(s) + n)
        = SubSeq(s \o t, 1, Len(s) + n)
  <2>1. /\ 1 \in 1 .. Len(s \o t) + 1
        /\ Len(s) \in 1 - 1 .. Len(s \o t)
        /\ Len(s) + n \in Len(s) .. Len(s \o t)
    BY <1>1
  <2> QED
    BY <1>1, <2>1, ConcatAdjacentSubSeq
<1> QED
  BY <1>2, <1>3, <1>4

\* To append a piece to a cut text is to cut the text with the piece appended.
LEMMA PutCut ==
  ASSUME NEW all \in Seq(Char), NEW piece \in Seq(Char)
  PROVE  Put(Size, Cut(all), piece) = Cut(all \o piece)
<1> USE DEF Cut
<1> DEFINE n == Least(Len(piece), Size - 1 - Len(all))
<1>1. /\ Len(piece) \in Nat /\ Len(all) \in Nat
      /\ all \o piece \in Seq(Char) /\ Len(all \o piece) = Len(all) + Len(piece)
  BY ConcatProperties
<1>2. CASE Len(all) < Size
  <2>1. Cut(all) = all
    <3>1. Least(Len(all), Size - 1) = Len(all)
      BY <1>1, <1>2, BufferAssumption DEF Least
    <3> QED
      BY <3>1, SubSeqFull
  <2>2. Put(Size, Cut(all), piece) = all \o SubSeq(piece, 1, n)
    BY <2>1 DEF Put
  <2>3. n \in Nat /\ n <= Len(piece) /\ Least(Len(all \o piece), Size - 1) = Len(all) + n
    BY <1>1, <1>2, BufferAssumption DEF Least
  <2> HIDE DEF n
  <2>4. SubSeq(all \o piece, 1, Len(all) + n) = all \o SubSeq(piece, 1, n)
    BY <1>1, <2>3, ConcatCut
  <2> QED
    BY <2>2, <2>3, <2>4
<1>3. CASE Len(all) >= Size
  <2> DEFINE k == Size - 1
  <2>1. /\ k \in Nat /\ k <= Len(all)
        /\ Least(Len(all), Size - 1) = k /\ Least(Len(all \o piece), Size - 1) = k
    BY <1>1, <1>3, BufferAssumption DEF Least
  <2> HIDE DEF k
  <2>2. SubSeq(all, 1, k) \in Seq(Char) /\ Len(SubSeq(all, 1, k)) = k
    <3>1. \A i \in 1 .. k : all[i] \in Char
      BY <1>1, <2>1
    <3> QED
      BY <2>1, <3>1, SubSeqProperties
  <2>3. Put(Size, Cut(all), piece) = SubSeq(all, 1, k)
    <3>1. Least(Len(piece), Size - 1 - k) = 0
      BY <1>1, <2>1, BufferAssumption DEF Least, k
    <3>2. SubSeq(piece, 1, 0) = << >>
      BY SubSeqEmpty
    <3> QED
      BY <2>1, <2>2, <3>1, <3>2, ConcatEmptySeq DEF Put
  <2>4. SubSeq(all \o piece, 1, k) = SubSeq(all, 1, k)
    BY <1>1, <2>1, SubSeqOfConcat1
  <2> QED
    BY <2>1, <2>3, <2>4
<1>4. Len(all) < Size \/ Len(all) >= Size
  BY <1>1, BufferAssumption
<1> QED
  BY <1>2, <1>3, <1>4

USE DEF socket, buffer

\* The registers stay in their ranges; the buffer never overflows.
THEOREM UTypeCorrect == USpec => []UTypeOK
<1> USE DEF UTypeOK
<1>1. UInit => UTypeOK
  <2>1. << >> \in Seq(Char) /\ Len(<< >>) < Size
    BY BufferAssumption
  <2>2. UInit => open \in BOOLEAN
    BY DEF UInit
  <2>3. UInit => begun \in Servers \X Ports
    BY DEF UInit
  <2> QED
    BY <2>1, <2>2, <2>3 DEF UInit
<1>2. UTypeOK /\ [UNext]_uvars => UTypeOK'
  <2> SUFFICES ASSUME UTypeOK, [UNext]_uvars PROVE UTypeOK'
    OBVIOUS
  <2>1. CASE NewTxBuf
    BY <2>1, BufferAssumption DEF NewTxBuf
  <2>2. ASSUME NEW piece \in Pieces, Append1(piece) PROVE UTypeOK'
    <3>1. piece \in Seq(Char)
      BY BufferAssumption
    <3>2. text' \in Seq(Char) /\ Len(text') < Size
      BY <2>2, <3>1, PutType DEF Append1
    <3>3. meant' \in Seq(Char)
      BY <2>2, <3>1 DEF Append1
    <3> QED
      BY <2>2, <3>2, <3>3 DEF Append1
  <2>3. CASE OpenSocket
    <3>1. open' \in BOOLEAN /\ begun' \in Servers \X Ports
      BY <2>3 DEF OpenSocket
    <3> QED
      BY <2>3, <3>1 DEF OpenSocket
  <2>4. CASE Deinit
    BY <2>4 DEF Deinit, Stopped
  <2>5. CASE (\E s \in Servers : SetServer(s)) \/ \E p \in Ports : SetPort(p)
    BY <2>5 DEF SetServer, SetPort, Stopped
  <2>6. CASE UNCHANGED uvars
    BY <2>6 DEF uvars
  <2> QED
    BY <2>1, <2>2, <2>3, <2>5, <2>6, <2>4 DEF UNext
<1> QED
  BY <1>1, <1>2, PTL DEF USpec

\* A message that is too long loses its end and nothing else.
THEOREM TextsAreCut == USpec => []TextIsCut
<1>1. UInit => TextIsCut
  BY BufferAssumption DEF UInit, TextIsCut, Cut, Least
<1>2. UTypeOK /\ TextIsCut /\ [UNext]_uvars => TextIsCut'
  <2> SUFFICES ASSUME UTypeOK, TextIsCut, [UNext]_uvars PROVE TextIsCut'
    OBVIOUS
  <2>1. CASE NewTxBuf
    BY <2>1, BufferAssumption DEF NewTxBuf, TextIsCut, Cut, Least
  <2>2. ASSUME NEW piece \in Pieces, Append1(piece) PROVE TextIsCut'
    <3>1. piece \in Seq(Char) /\ meant \in Seq(Char)
      BY BufferAssumption DEF UTypeOK
    <3> QED
      BY <2>2, <3>1, PutCut DEF Append1, TextIsCut
  <2>3. CASE UNCHANGED buffer
    BY <2>3 DEF TextIsCut, Cut
  <2> QED
    BY <2>1, <2>2, <2>3 DEF UNext, OpenSocket, Deinit, SetServer, SetPort, uvars
<1> QED
  BY <1>1, <1>2, UTypeCorrect, PTL DEF USpec

\* An open socket talks to the address it was opened for.
THEOREM OpenAddresses == USpec => []OpenAddress
<1>1. UInit => OpenAddress
  BY DEF UInit, OpenAddress
<1>2. UTypeOK /\ OpenAddress /\ [UNext]_uvars => OpenAddress'
  BY DEF UTypeOK, OpenAddress, UNext, NewTxBuf, Append1, OpenSocket, Deinit,
         SetServer, SetPort, Stopped, uvars
<1> QED
  BY <1>1, <1>2, UTypeCorrect, PTL DEF USpec

-----------------------------------------------------------------------------
(***************************************************************************)
(* The sockets of the client.                                              *)
(***************************************************************************)
\* The pieces that are yet to be written are pieces a buffer takes.
PiecesInv == todo \in Seq(Pieces) /\ seq \in 0 .. SeqWrap - 1

LEMMA PiecesStep == PiecesInv /\ [SNext]_svars => PiecesInv' /\ [UNext]_uvars
<1> SUFFICES ASSUME PiecesInv, [SNext]_svars PROVE PiecesInv' /\ [UNext]_uvars
  OBVIOUS
<1> USE DEF PiecesInv
<1>1. ASSUME NEW h \in HeadLength, NEW b \in BodyLength, Write(h, b)
      PROVE  PiecesInv' /\ [UNext]_uvars
  <2>1. Message(h, b, seq) \in Seq(Pieces)
    BY PiecesAssumption
  <2> QED
    BY <1>1, <2>1 DEF Write, UNext
<1>2. CASE WritePiece
  <2>1. Head(todo) \in Pieces /\ Tail(todo) \in Seq(Pieces)
    BY <1>2, HeadTailProperties DEF WritePiece
  <2> QED
    BY <1>2, <2>1 DEF WritePiece, UNext
<1>3. CASE SendBuffered
  BY <1>3 DEF SendBuffered
<1>4. CASE Count
  <2>1. (seq + 1) % SeqWrap \in 0 .. SeqWrap - 1
    BY SocketsAssumption
  <2> QED
    BY <1>4, <2>1 DEF Count
<1>5. CASE InitClient
  BY <1>5 DEF InitClient, UNext
<1>6. ASSUME NEW s \in Servers, SetServerIp(s)
      PROVE  PiecesInv' /\ [UNext]_uvars
  BY <1>6 DEF SetServerIp, UNext
<1>7. CASE Turn
  BY <1>7 DEF Turn
<1>8. CASE UNCHANGED svars
  BY <1>8 DEF svars
<1> QED
  BY <1>1, <1>2, <1>3, <1>4, <1>5, <1>6, <1>7, <1>8 DEF SNext

\* Refinement: whatever messages the client writes and however its sockets are
\* turned, m_socket only makes the steps of a WifiUdpClient.
THEOREM ClientUsesASocket == SSpec => USpec
<1>1. SInit => UInit /\ PiecesInv
  BY DEF SInit, PiecesInv
<1> QED
  BY <1>1, PiecesStep, PTL DEF SSpec, USpec

\* The buffer of the client never overflows, a message that is too long loses
\* its end and nothing else, and an open socket has the address it was opened
\* for, also while the SIP functions put their messages together.
THEOREM ClientSocketIsSafe == SSpec => [](UTypeOK /\ TextIsCut /\ OpenAddress)
BY ClientUsesASocket, UTypeCorrect, TextsAreCut, OpenAddresses, PTL

-----------------------------------------------------------------------------
\* The RTP socket while it is turned: closed since its server was changed, and
\* on its way to the address of the INVITE.
Turning ==
  \/ turning = Nobody
  \/ \E step \in {"port", "init"}, s \in Servers, p \in Ports :
       turning = [step |-> step, server |-> s, port |-> p]

RtpInv ==
  /\ Turning
  /\ rtpOpen => rtpBegun = <<rtpServer, rtpPort>>
  /\ turning.step # "none" => ~rtpOpen /\ rtpServer = turning.server
  /\ turning.step = "init" => rtpPort = turning.port

LEMMA RtpStep == RtpInv /\ [SNext]_svars => RtpInv'
<1> SUFFICES ASSUME RtpInv, [SNext]_svars PROVE RtpInv'
  OBVIOUS
<1> USE DEF RtpInv
<1>1. ASSUME NEW s \in Servers, NEW p \in Ports, TurnTo(s, p) PROVE RtpInv'
  <2>1. Turning'
    BY <1>1 DEF TurnTo, Turning
  <2> QED
    BY <1>1, <2>1 DEF TurnTo, Rtp!SetServer, Rtp!Stopped
<1>2. CASE TurnPort
  <2>1. PICK s \in Servers, p \in Ports :
          turning = [step |-> "port", server |-> s, port |-> p]
    BY <1>2 DEF TurnPort, Turning, Nobody
  <2>2. turning' = [step |-> "init", server |-> s, port |-> p]
    BY <1>2, <2>1 DEF TurnPort
  <2>3. Turning'
    BY <2>2 DEF Turning
  <2> QED
    BY <1>2, <2>1, <2>2, <2>3 DEF TurnPort, Rtp!SetPort, Rtp!Stopped
<1>3. CASE TurnInit
  <2>1. Turning' /\ turning'.step = "none"
    BY <1>3 DEF TurnInit, Turning, Nobody
  <2>2. ~rtpOpen
    BY <1>3 DEF TurnInit
  <2> QED
    BY <1>3, <2>1, <2>2 DEF TurnInit, Rtp!OpenSocket
<1>4. ASSUME NEW s \in Servers, SetServerIp(s) PROVE RtpInv'
  <2>1. turning' = Nobody /\ ~rtpOpen'
    BY <1>4 DEF SetServerIp, Rtp!SetServer, Rtp!Stopped
  <2> QED
    BY <2>1 DEF Turning, Nobody
<1>5. CASE UNCHANGED rtp
  BY <1>5 DEF rtp, Turning
<1> QED
  BY <1>1, <1>2, <1>3, <1>4, <1>5
  DEF SNext, Write, WritePiece, SendBuffered, Count, InitClient, Turn, svars

\* When an INVITE has turned the RTP socket, init() finds it closed, and opens
\* it for the address of this caller, however many calls there were before.
THEOREM RtpIsAlwaysReopened == SSpec => []RtpIsReopened
<1>1. SInit => RtpInv
  BY DEF SInit, RtpInv, Turning, Nobody, Rtp!UInit
<1>2. RtpInv => RtpIsReopened
  BY DEF RtpInv, RtpIsReopened
<1> QED
  BY <1>1, <1>2, RtpStep, PTL DEF SSpec

-----------------------------------------------------------------------------
(***************************************************************************)
(* Numbers in decimal.  Digits and the value of digits are recursive       *)
(* functions: that there are such functions is shown first, from the least *)
(* number for which there were none.                                       *)
(***************************************************************************)
LEMMA LeastOf ==
  ASSUME NEW T, T \subseteq Nat, T # {}
  PROVE  \E n \in T : \A k \in T : n <= k
<1>1. PICK n \in T : \A k \in T : <<k, n>> \notin OpToRel(<, Nat)
  BY WFMin, NatLessThanWellFounded, Zenon
<1>2. \A k \in T : ~(k < n)
  BY <1>1, Zenon DEF OpToRel
<1> QED
  BY <1>2

\* The digits of i, given those of the smaller numbers.
DigitsStep(g, i) ==
  IF i < 10 THEN << Digit[i + 1] >> ELSE Append(g[i \div 10], Digit[(i % 10) + 1])
DigitsUpTo(g, m) == g = [i \in 0 .. m |-> DigitsStep(g, i)]

LEMMA Tenth ==
  ASSUME NEW n \in Nat, ~(n < 10)
  PROVE  /\ n \div 10 \in Nat /\ n \div 10 < n /\ n % 10 \in 0 .. 9
         /\ 10 * (n \div 10) + (n % 10) = n
<1>1. n \div 10 \in Int /\ n % 10 \in 0 .. 9
  OBVIOUS
<1>2. 10 * (n \div 10) + (n % 10) = n
  OBVIOUS
<1>3. ASSUME NEW q \in Int, NEW r \in 0 .. 9, 10 * q + r = n
      PROVE  q \in Nat /\ q < n
  BY <1>3
<1> QED
  BY <1>1, <1>2, <1>3

LEMMA DigitsUpToExist == ASSUME NEW m \in Nat PROVE \E g : DigitsUpTo(g, m)
<1> DEFINE Without == {k \in Nat : ~ \E g : DigitsUpTo(g, k)}
<1> SUFFICES ASSUME Without # {} PROVE FALSE
  OBVIOUS
<1>1. PICK n \in Without : \A k \in Without : n <= k
  BY LeastOf
<1>2. CASE n = 0
  <2> DEFINE h == [i \in 0 .. 0 |-> << Digit[i + 1] >>]
  <2>1. \A i \in 0 .. 0 : DigitsStep(h, i) = << Digit[i + 1] >>
    BY DEF DigitsStep
  <2>2. DigitsUpTo(h, 0)
    BY <2>1 DEF DigitsUpTo
  <2> QED
    BY <1>2, <2>2
<1>3. CASE n # 0
  <2>1. n - 1 \in Nat /\ n \in Nat /\ ~(n <= n - 1)
    BY <1>3
  <2>2. PICK g : DigitsUpTo(g, n - 1)
    BY <1>1, <2>1
  <2> DEFINE h == [i \in 0 .. n |-> IF i < n THEN g[i] ELSE DigitsStep(g, n)]
  <2>3. ASSUME NEW i \in 0 .. n
        PROVE  h[i] = DigitsStep(h, i)
    <3>1. h[i] = DigitsStep(g, i)
      BY <2>1, <2>2, <2>3 DEF DigitsUpTo
    <3>2. ~(i < 10) => h[i \div 10] = g[i \div 10]
      BY <2>1, <2>3, Tenth
    <3> QED
      BY <3>1, <3>2 DEF DigitsStep
  <2>4. h = [i \in 0 .. n |-> DigitsStep(h, i)]
    BY <2>3
  <2> QED
    BY <2>4 DEF DigitsUpTo
<1> QED
  BY <1>2, <1>3

LEMMA DigitsUpToAgree ==
  ASSUME NEW m \in Nat, NEW k \in Nat, NEW g, NEW h, DigitsUpTo(g, m),
         DigitsUpTo(h, k), NEW i \in Nat, i <= m, i <= k
  PROVE  g[i] = h[i]
<1> DEFINE Differ == {j \in Nat : j <= m /\ j <= k /\ g[j] # h[j]}
<1> SUFFICES ASSUME Differ # {} PROVE FALSE
  OBVIOUS
<1>1. PICK n \in Differ : \A j \in Differ : n <= j
  BY LeastOf
<1>2. g[n] = DigitsStep(g, n) /\ h[n] = DigitsStep(h, n)
  <2>1. n \in 0 .. m /\ n \in 0 .. k
    OBVIOUS
  <2> QED
    BY <2>1 DEF DigitsUpTo
<1>3. ~(n < 10) => g[n \div 10] = h[n \div 10]
  BY <1>1, Tenth
<1> QED
  BY <1>2, <1>3 DEF DigitsStep

LEMMA DigitsAre == \A n \in Nat : Digits[n] = DigitsStep(Digits, n)
<1> DEFINE f == [n \in Nat |-> (CHOOSE g : DigitsUpTo(g, n))[n]]
<1>1. ASSUME NEW n \in Nat
      PROVE  f[n] = DigitsStep(f, n)
  <2>1. PICK g : g = (CHOOSE h : DigitsUpTo(h, n)) /\ DigitsUpTo(g, n)
    BY DigitsUpToExist
  <2>2. f[n] = DigitsStep(g, n)
    BY <2>1 DEF DigitsUpTo
  <2>3. ASSUME ~(n < 10)
        PROVE  f[n \div 10] = g[n \div 10]
    <3>1. n \div 10 \in Nat /\ n \div 10 <= n
      BY <2>3, Tenth
    <3>2. DigitsUpTo(CHOOSE h : DigitsUpTo(h, n \div 10), n \div 10)
      BY <3>1, DigitsUpToExist
    <3> QED
      BY <2>1, <3>1, <3>2, DigitsUpToAgree
  <2> QED
    BY <2>2, <2>3 DEF DigitsStep
<1>2. f = [n \in Nat |-> DigitsStep(f, n)]
  <2>1. f = [n \in Nat |-> f[n]]
    OBVIOUS
  <2> HIDE DEF f
  <2> QED
    BY <1>1, <2>1
<1> HIDE DEF f
<1>3. \E g : g = [n \in Nat |-> DigitsStep(g, n)]
  BY <1>2
<1>4. Digits = [n \in Nat |-> DigitsStep(Digits, n)]
  BY <1>3 DEF Digits, DigitsStep
<1> QED
  BY <1>4

\* The value of the first i characters, given those of fewer.
ValueStep(v, chars, i) == IF i = 0 THEN 0 ELSE 10 * v[i - 1] + DigitValue(chars[i])
ValueUpTo(v, chars, m) == v = [i \in 0 .. m |-> ValueStep(v, chars, i)]

LEMMA ValueUpToExist ==
  ASSUME NEW chars, NEW m \in Nat
  PROVE  \E v : ValueUpTo(v, chars, m)
<1> DEFINE Without == {k \in Nat : ~ \E v : ValueUpTo(v, chars, k)}
<1> SUFFICES ASSUME Without # {} PROVE FALSE
  OBVIOUS
<1>1. PICK n \in Without : \A k \in Without : n <= k
  BY LeastOf
<1>2. CASE n = 0
  <2> DEFINE w == [i \in 0 .. 0 |-> 0]
  <2>1. \A i \in 0 .. 0 : ValueStep(w, chars, i) = 0
    BY DEF ValueStep
  <2>2. ValueUpTo(w, chars, 0)
    BY <2>1 DEF ValueUpTo
  <2> QED
    BY <1>2, <2>2
<1>3. CASE n # 0
  <2>1. n - 1 \in Nat /\ n \in Nat /\ ~(n <= n - 1)
    BY <1>3
  <2>2. PICK v : ValueUpTo(v, chars, n - 1)
    BY <1>1, <2>1
  <2> DEFINE w == [i \in 0 .. n |-> IF i < n THEN v[i] ELSE ValueStep(v, chars, n)]
  <2>3. ASSUME NEW i \in 0 .. n
        PROVE  w[i] = ValueStep(w, chars, i)
    <3>1. w[i] = ValueStep(v, chars, i)
      BY <2>1, <2>2, <2>3 DEF ValueUpTo
    <3>2. i # 0 => w[i - 1] = v[i - 1]
      BY <2>1, <2>3
    <3> QED
      BY <3>1, <3>2 DEF ValueStep
  <2>4. w = [i \in 0 .. n |-> ValueStep(w, chars, i)]
    BY <2>3
  <2> QED
    BY <2>4 DEF ValueUpTo
<1> QED
  BY <1>2, <1>3

LEMMA ValueUpToAgree ==
  ASSUME NEW s, NEW t, NEW m \in Nat, NEW k \in Nat, k <= m, NEW v, NEW w,
         ValueUpTo(v, s, k), ValueUpTo(w, t, m), \A i \in 1 .. k : s[i] = t[i]
  PROVE  v[k] = w[k]
<1> DEFINE Differ == {j \in Nat : j <= k /\ v[j] # w[j]}
<1> SUFFICES ASSUME Differ # {} PROVE FALSE
  OBVIOUS
<1>1. PICK n \in Differ : \A j \in Differ : n <= j
  BY LeastOf
<1>2. v[n] = ValueStep(v, s, n) /\ w[n] = ValueStep(w, t, n)
  <2>1. n \in 0 .. m /\ n \in 0 .. k
    OBVIOUS
  <2> QED
    BY <2>1 DEF ValueUpTo
<1>3. n # 0 => v[n - 1] = w[n - 1] /\ s[n] = t[n]
  BY <1>1
<1> QED
  BY <1>2, <1>3 DEF ValueStep

LEMMA ValueOfIs ==
  ASSUME NEW chars, Len(chars) \in Nat
  PROVE  \E v : ValueUpTo(v, chars, Len(chars)) /\ ValueOf(chars) = v[Len(chars)]
<1> DEFINE V == CHOOSE v : v = [i \in 0 .. Len(chars) |-> ValueStep(v, chars, i)]
<1>1. \E v : v = [i \in 0 .. Len(chars) |-> ValueStep(v, chars, i)]
  BY ValueUpToExist DEF ValueUpTo
<1>2. V = [i \in 0 .. Len(chars) |-> ValueStep(V, chars, i)]
  BY <1>1
<1>3. ValueOf(chars) = V[Len(chars)]
  BY DEF ValueOf, ValueStep
<1> HIDE DEF V
<1> QED
  BY <1>2, <1>3 DEF ValueUpTo

LEMMA ValueOfAppend ==
  ASSUME NEW S, NEW s \in Seq(S), NEW c \in S
  PROVE  /\ ValueOf(<< >>) = 0
         /\ ValueOf(Append(s, c)) = 10 * ValueOf(s) + DigitValue(c)
<1> DEFINE t == Append(s, c)
           n == Len(s)
<1>1. /\ n \in Nat /\ Len(t) = n + 1 /\ t[n + 1] = c
      /\ \A i \in 1 .. n : s[i] = t[i]
  BY AppendProperties
<1>2. ValueOf(<< >>) = 0
  <2>1. Len(<< >>) = 0
    OBVIOUS
  <2>2. PICK v : ValueUpTo(v, << >>, 0) /\ ValueOf(<< >>) = v[0]
    BY <2>1, ValueOfIs
  <2> QED
    BY <2>2 DEF ValueUpTo, ValueStep
<1>3. PICK v : ValueUpTo(v, s, n) /\ ValueOf(s) = v[n]
  BY <1>1, ValueOfIs
<1> HIDE DEF t, n
<1>4. PICK w : ValueUpTo(w, t, n + 1) /\ ValueOf(t) = w[n + 1]
  BY <1>1, ValueOfIs
<1>5. v[n] = w[n]
  BY <1>1, <1>3, <1>4, ValueUpToAgree
<1>6. w[n + 1] = ValueStep(w, t, n + 1)
  <2>1. n + 1 \in 0 .. n + 1
    BY <1>1
  <2> QED
    BY <1>4, <2>1 DEF ValueUpTo
<1>7. ValueOf(t) = 10 * ValueOf(s) + DigitValue(c)
  BY <1>1, <1>3, <1>4, <1>5, <1>6 DEF ValueStep
<1> QED
  BY <1>2, <1>7 DEF t

DigitChar == {Digit[i] : i \in 1 .. 10}

LEMMA DigitValueIs ==
  ASSUME NEW d \in 0 .. 9
  PROVE  Digit[d + 1] \in DigitChar /\ DigitValue(Digit[d + 1]) = d
<1>1. \A e \in 0 .. 9 : Digit[e + 1] = Digit[d + 1] => e = d
  BY DEF Digit
<1>2. DigitValue(Digit[d + 1]) \in 0 .. 9
      /\ Digit[DigitValue(Digit[d + 1]) + 1] = Digit[d + 1]
  BY DEF DigitValue
<1> QED
  BY <1>1, <1>2 DEF DigitChar

\* What is printed as a decimal is read as the same number.
LEMMA DigitsValue ==
  ASSUME NEW m \in Nat
  PROVE  /\ Digits[m] \in Seq(DigitChar) /\ Len(Digits[m]) > 0
         /\ ValueOf(Digits[m]) = m
<1> DEFINE Right(k) == /\ Digits[k] \in Seq(DigitChar) /\ Len(Digits[k]) > 0
                       /\ ValueOf(Digits[k]) = k
           Wrong == {k \in Nat : ~Right(k)}
<1> SUFFICES ASSUME Wrong # {} PROVE FALSE
  OBVIOUS
<1>1. PICK n \in Wrong : \A k \in Wrong : n <= k
  BY LeastOf
<1> HIDE DEF Wrong
<1>2. n \in Nat /\ ~Right(n) /\ Digits[n] = DigitsStep(Digits, n)
  BY DigitsAre DEF Wrong
<1>3. CASE n < 10
  <2> DEFINE c == Digit[n + 1]
  <2>1. c \in DigitChar /\ DigitValue(c) = n
    BY <1>2, <1>3, DigitValueIs
  <2>2. Digits[n] = <<c>>
    BY <1>2, <1>3 DEF DigitsStep
  <2> HIDE DEF c
  <2>3. /\ << >> \in Seq(DigitChar) /\ <<c>> = Append(<< >>, c)
        /\ <<c>> \in Seq(DigitChar) /\ Len(<<c>>) = 1
    BY <2>1
  <2>4. ValueOf(<<c>>) = 10 * 0 + n
    BY <2>1, <2>3, ValueOfAppend
  <2> QED
    BY <1>2, <2>2, <2>3, <2>4
<1>4. CASE ~(n < 10)
  <2> DEFINE q == n \div 10
             c == Digit[(n % 10) + 1]
  <2>1. q \in Nat /\ q < n /\ n % 10 \in 0 .. 9 /\ 10 * q + (n % 10) = n
    BY <1>2, <1>4, Tenth
  <2>2. c \in DigitChar /\ DigitValue(c) = n % 10
    BY <2>1, DigitValueIs
  <2>3. Digits[n] = Append(Digits[q], c)
    BY <1>2, <1>4 DEF DigitsStep
  <2> HIDE DEF c, q
  <2>4. Right(q)
    <3>1. q \notin Wrong
      BY <1>1, <1>2, <2>1
    <3> QED
      BY <2>1, <3>1 DEF Wrong
  <2>5. /\ Append(Digits[q], c) \in Seq(DigitChar)
        /\ Len(Append(Digits[q], c)) = Len(Digits[q]) + 1
    BY <2>2, <2>4, AppendProperties
  <2>6. ValueOf(Append(Digits[q], c)) = 10 * q + (n % 10)
    BY <2>2, <2>4, ValueOfAppend
  <2> QED
    BY <1>2, <2>1, <2>3, <2>4, <2>5, <2>6
<1> QED
  BY <1>3, <1>4

\* A piece of a sequence, by its place.
LEMMA PieceAt ==
  ASSUME NEW S, NEW t \in Seq(S), NEW w \in Seq(S), NEW i \in Nat,
         i + Len(w) <= Len(t), \A k \in 1 .. Len(w) : t[i + k] = w[k]
  PROVE  SubSeq(t, i + 1, i + Len(w)) = w
<1> DEFINE n == Len(w)
           first == i + 1
           last == i + n
<1>1. /\ n \in Nat /\ Len(t) \in Nat /\ first \in Int /\ last \in Int
      /\ last - first + 1 = n /\ (first <= last <=> 0 < n)
  OBVIOUS
<1>2. \A j \in first .. last : t[j] \in S
  BY <1>1
<1>3. \A k \in 1 .. n : t[first + k - 1] = w[k]
  BY <1>1
<1> HIDE DEF first, last, n
<1>4. /\ SubSeq(t, first, last) \in Seq(S)
      /\ Len(SubSeq(t, first, last)) = IF first <= last THEN last - first + 1 ELSE 0
      /\ \A k \in 1 .. last - first + 1 : SubSeq(t, first, last)[k] = t[first + k - 1]
  BY <1>1, <1>2, SubSeqProperties
<1>5. Len(SubSeq(t, first, last)) = n
  BY <1>1, <1>4
<1>6. \A k \in 1 .. n : SubSeq(t, first, last)[k] = w[k]
  BY <1>1, <1>3, <1>4
<1>7. SubSeq(t, first, last) = w
  <2> DEFINE u == SubSeq(t, first, last)
  <2>1. u \in Seq(S) /\ Len(u) = Len(w) /\ \A k \in 1 .. Len(u) : u[k] = w[k]
    BY <1>4, <1>5, <1>6 DEF n
  <2> HIDE DEF u
  <2>2. u = w
    BY <2>1, SeqEqual
  <2> QED
    BY <2>2 DEF u
<1> QED
  BY <1>7 DEF first, last, n

\* With "%d" too, when the sign is read for what it is.
LEMMA PrintedReads ==
  ASSUME NEW n \in 0 .. SeqWrap - 1
  PROVE  /\ Printed(n) \in Seq(DigitChar \cup {"-"})
         /\ IF Head(Printed(n)) = "-" THEN SeqWrap - ValueOf(Tail(Printed(n))) = n
                                      ELSE ValueOf(Printed(n)) = n
<1>1. n \in Nat /\ SeqWrap - n \in Nat /\ SeqWrap \in Nat
  BY SocketsAssumption
<1>2. "-" \notin DigitChar
  BY DEF DigitChar, Digit
<1>3. CASE 2 * n < SeqWrap
  <2>1. /\ Printed(n) = Digits[n] /\ Digits[n] \in Seq(DigitChar)
        /\ Len(Digits[n]) > 0 /\ ValueOf(Digits[n]) = n
    BY <1>1, <1>3, DigitsValue DEF Printed
  <2>2. Digits[n] # << >>
    BY <2>1
  <2>3. Head(Digits[n]) \in DigitChar
    BY <2>1, <2>2, HeadTailProperties
  <2>4. Digits[n] \in Seq(DigitChar \cup {"-"})
    BY <2>1, SeqMonotonic
  <2> QED
    BY <1>2, <2>1, <2>3, <2>4
<1>4. CASE ~(2 * n < SeqWrap)
  <2> DEFINE d == Digits[SeqWrap - n]
  <2>1. d \in Seq(DigitChar) /\ ValueOf(d) = SeqWrap - n
    BY <1>1, DigitsValue
  <2>2. Printed(n) = <<"-">> \o d
    BY <1>4 DEF Printed
  <2> HIDE DEF d
  <2>3. d \in Seq(DigitChar \cup {"-"}) /\ <<"-">> \in Seq(DigitChar \cup {"-"})
    BY <2>1, SeqMonotonic
  <2> DEFINE t == <<"-">> \o d
  <2>4. /\ t \in Seq(DigitChar \cup {"-"})
        /\ Len(d) \in Nat /\ Len(t) = 1 + Len(d) /\ t[1] = "-"
        /\ \A k \in 1 .. Len(d) : t[1 + k] = d[k]
    BY <2>3, ConcatProperties
  <2> HIDE DEF t
  <2>5. Head(t) = "-" /\ t # << >>
    BY <2>4
  <2>6. Tail(t) = SubSeq(t, 2, Len(t))
    BY <2>4, <2>5, TailIsSubSeq
  <2>7. SubSeq(t, 1 + 1, 1 + Len(d)) = d
    <3>1. 1 \in Nat /\ 1 + Len(d) <= Len(t)
      BY <2>4
    <3> QED
      BY <2>3, <2>4, <3>1, PieceAt
  <2>8. Tail(t) = d
    BY <2>4, <2>6, <2>7
  <2>9. Printed(n) = t
    BY <2>2 DEF t
  <2>10. /\ Printed(n) \in Seq(DigitChar \cup {"-"}) /\ Head(Printed(n)) = "-"
         /\ Tail(Printed(n)) = d
    BY <2>4, <2>5, <2>8, <2>9
  <2>11. ValueOf(Tail(Printed(n))) = SeqWrap - n
    BY <2>1, <2>10
  <2>12. SeqWrap - (SeqWrap - n) = n
    BY <1>1
  <2> QED
    BY <2>10, <2>11, <2>12
<1> QED
  BY <1>3, <1>4

-----------------------------------------------------------------------------
(***************************************************************************)
(* A message, place by place.                                              *)
(***************************************************************************)
\* What the first k pieces of p make together.
Said1(p) == p[1]
Said2(p) == Said1(p) \o p[2]
Said3(p) == Said2(p) \o p[3]
Said4(p) == Said3(p) \o p[4]
Said5(p) == Said4(p) \o p[5]
Said6(p) == Said5(p) \o p[6]
Said7(p) == Said6(p) \o p[7]
Said(p, k) == << << >>, Said1(p), Said2(p), Said3(p), Said4(p), Said5(p),
                Said6(p), Said7(p) >>[k + 1]

LEMMA SaidStep ==
  ASSUME NEW S, NEW p, p[1] \in Seq(S), NEW k \in 0 .. 6
  PROVE  Said(p, k + 1) = Said(p, k) \o p[k + 1]
<1>1. CASE k = 0
  BY <1>1, ConcatEmptySeq DEF Said, Said1
<1>2. CASE k = 1
  BY <1>2 DEF Said, Said2
<1>3. CASE k = 2
  BY <1>3 DEF Said, Said3
<1>4. CASE k = 3
  BY <1>4 DEF Said, Said4
<1>5. CASE k = 4
  BY <1>5 DEF Said, Said5
<1>6. CASE k = 5
  BY <1>6 DEF Said, Said6
<1>7. CASE k = 6
  BY <1>7 DEF Said, Said7
<1> QED
  BY <1>1, <1>2, <1>3, <1>4, <1>5, <1>6, <1>7

LEMMA SdpType ==
  ASSUME NEW b \in BodyLength
  PROVE  Sdp(b) \in Seq({"b"}) /\ Len(Sdp(b)) \in Nat
<1> DEFINE s == Letters("b", b)
           n == Least(Len(s), SdpSize - 1 - Len(<< >>))
<1>1. s \in Seq({"b"}) /\ Len(s) \in Nat /\ b \in Nat
  BY SocketsAssumption DEF Letters
<1>2. n \in Int /\ n <= Len(s)
  <2>1. SdpSize \in Nat /\ Len(<< >>) = 0
    BY SocketsAssumption
  <2> QED
    BY <1>1, <2>1 DEF Least
<1>3. Sdp(b) = << >> \o SubSeq(s, 1, n)
  BY DEF Sdp, Put
<1> HIDE DEF s, n
<1>4. SubSeq(s, 1, n) \in Seq({"b"})
  <2>1. \A i \in 1 .. n : s[i] \in {"b"}
    BY <1>1, <1>2
  <2> QED
    BY <1>2, <2>1, SubSeqProperties
<1>5. << >> \o SubSeq(s, 1, n) = SubSeq(s, 1, n)
  BY <1>4, ConcatEmptySeq
<1> QED
  BY <1>3, <1>4, <1>5, LenProperties

\* s holds w behind its place m; in s, ch is at most at place m (0: nowhere).
Holds(s, m, w) == m + Len(w) <= Len(s) /\ \A k \in 1 .. Len(w) : s[m + k] = w[k]
OnlyAt(s, ch, m) == \A i \in 1 .. Len(s) : s[i] = ch => i = m

LEMMA Appended ==
  ASSUME NEW s \in Seq(Char), NEW t \in Seq(Char)
  PROVE  /\ s \o t \in Seq(Char) /\ Len(s \o t) = Len(s) + Len(t)
         /\ Holds(s \o t, Len(s), t)
         /\ \A w \in Seq(Char), m \in Nat : Holds(s, m, w) => Holds(s \o t, m, w)
         /\ \A ch, m : OnlyAt(s, ch, m) /\ OnlyAt(t, ch, 0) => OnlyAt(s \o t, ch, m)
         /\ \A ch : OnlyAt(s, ch, 0) /\ Len(t) = 1 => OnlyAt(s \o t, ch, Len(s) + 1)
<1> DEFINE u == s \o t
<1>1. /\ Len(s) \in Nat /\ Len(t) \in Nat
      /\ u \in Seq(Char) /\ Len(u) = Len(s) + Len(t)
      /\ \A i \in 1 .. Len(s) + Len(t) : u[i] = IF i <= Len(s) THEN s[i] ELSE t[i - Len(s)]
  BY ConcatProperties
<1> HIDE DEF u
<1>2. \A i \in 1 .. Len(s) : u[i] = s[i]
  BY <1>1
<1>3. ASSUME NEW k \in 1 .. Len(t)
      PROVE  u[Len(s) + k] = t[k]
  <2>1. /\ Len(s) + k \in 1 .. Len(s) + Len(t) /\ ~(Len(s) + k <= Len(s))
        /\ Len(s) + k - Len(s) = k
    BY <1>1
  <2> QED
    BY <1>1, <2>1
<1>4. \A i \in 1 .. Len(u) : i \in 1 .. Len(s) \/ \E k \in 1 .. Len(t) : i = Len(s) + k
  <2> SUFFICES ASSUME NEW i \in 1 .. Len(u), ~(i \in 1 .. Len(s))
               PROVE  \E k \in 1 .. Len(t) : i = Len(s) + k
    OBVIOUS
  <2>1. i - Len(s) \in 1 .. Len(t) /\ i = Len(s) + (i - Len(s))
    BY <1>1
  <2> QED
    BY <2>1
<1>5. Holds(u, Len(s), t)
  BY <1>1, <1>3 DEF Holds
<1>6. ASSUME NEW w \in Seq(Char), NEW m \in Nat, Holds(s, m, w)
      PROVE  Holds(u, m, w)
  <2>1. Len(w) \in Nat
    OBVIOUS
  <2> QED
    BY <1>1, <1>2, <1>6, <2>1 DEF Holds
<1>7. ASSUME NEW ch, NEW m, OnlyAt(s, ch, m), OnlyAt(t, ch, 0)
      PROVE  OnlyAt(u, ch, m)
  <2> SUFFICES ASSUME NEW i \in 1 .. Len(u), u[i] = ch PROVE i = m
    BY DEF OnlyAt
  <2>1. CASE i \in 1 .. Len(s)
    BY <1>2, <1>7, <2>1 DEF OnlyAt
  <2>2. ASSUME NEW k \in 1 .. Len(t), i = Len(s) + k PROVE FALSE
    <3>1. t[k] = ch /\ k # 0
      BY <1>1, <1>3, <2>2
    <3> QED
      BY <1>7, <3>1 DEF OnlyAt
  <2> QED
    BY <1>4, <2>1, <2>2
<1>8. ASSUME NEW ch, OnlyAt(s, ch, 0), Len(t) = 1
      PROVE  OnlyAt(u, ch, Len(s) + 1)
  <2> SUFFICES ASSUME NEW i \in 1 .. Len(u), u[i] = ch PROVE i = Len(s) + 1
    BY DEF OnlyAt
  <2>1. CASE i \in 1 .. Len(s)
    BY <1>1, <1>2, <1>8, <2>1 DEF OnlyAt
  <2> QED
    BY <1>1, <1>8, <2>1
<1> QED
  BY <1>1, <1>5, <1>6, <1>7, <1>8 DEF u

\* The kinds of characters the pieces of a message are made of.
LEMMA PieceKinds ==
  ASSUME NEW h \in HeadLength, NEW b \in BodyLength, NEW n \in 0 .. SeqWrap - 1,
         NEW ch \in {":", "="}
  PROVE  /\ OnlyAt(Letters("h", h), ch, 0) /\ OnlyAt(Printed(n), ch, 0)
         /\ OnlyAt(Digits[Len(Sdp(b))], ch, 0) /\ OnlyAt(Sdp(b), ch, 0)
<1>1. ch \notin DigitChar \cup {"-"}
  BY DEF DigitChar, Digit
<1>2. OnlyAt(Letters("h", h), ch, 0)
  <2>1. h \in Nat
    BY SocketsAssumption
  <2>2. Letters("h", h) \in Seq({"h"})
    BY <2>1 DEF Letters
  <2> QED
    BY <2>2 DEF OnlyAt
<1>3. OnlyAt(Printed(n), ch, 0)
  BY <1>1, PrintedReads DEF OnlyAt
<1>4. OnlyAt(Digits[Len(Sdp(b))], ch, 0)
  BY <1>1, SdpType, DigitsValue DEF OnlyAt
<1>5. OnlyAt(Sdp(b), ch, 0)
  BY SdpType DEF OnlyAt
<1> QED
  BY <1>2, <1>3, <1>4, <1>5

\* Where the parts of a whole message stand: its CSeq between the only ":" and
\* the only "=", its Content-Length between that and a "|", its body at the end.
Parts(all, number, length, body) ==
  \E colon, equals, blank \in Nat :
    /\ all \in Seq(Char) /\ number \in Seq(Char) /\ length \in Seq(Char)
    /\ equals = colon + Len(number) + 1 /\ Holds(all, colon, number)
    /\ blank = equals + Len(length) + 1 /\ Holds(all, equals, length)
    /\ OnlyAt(all, ":", colon) /\ OnlyAt(all, "=", equals)
    /\ equals \in 1 .. Len(all) /\ all[equals] = "="
    /\ blank \in 1 .. Len(all) /\ all[blank] = "|"
    /\ Len(all) = blank + Len(body)

LEMMA Anatomy ==
  ASSUME NEW h \in HeadLength, NEW b \in BodyLength, NEW n \in 0 .. SeqWrap - 1
  PROVE  Parts(Said(Message(h, b, n), 7), Printed(n), Digits[Len(Sdp(b))], Sdp(b))
<1> DEFINE p == Message(h, b, n)
           head == Letters("h", h)
           number == Printed(n)
           length == Digits[Len(Sdp(b))]
           body == Sdp(b)
           s2 == head \o <<":">>
           s3 == s2 \o number
           s4 == s3 \o <<"=">>
           s5 == s4 \o length
           s6 == s5 \o <<"|">>
           s7 == s6 \o body
           colon == Len(head) + 1
           equals == colon + Len(number) + 1
           blank == equals + Len(length) + 1
<1>1. /\ head \in Seq(Char) /\ <<":">> \in Seq(Char) /\ number \in Seq(Char)
      /\ <<"=">> \in Seq(Char) /\ length \in Seq(Char) /\ <<"|">> \in Seq(Char)
      /\ body \in Seq(Char)
  <2>1. p \in Seq(Pieces) /\ Len(p) = 7
    BY PiecesAssumption DEF Message
  <2> HIDE DEF p
  <2>2. \A i \in 1 .. 7 : p[i] \in Seq(Char)
    <3>1. ASSUME NEW i \in 1 .. 7 PROVE p[i] \in Pieces
      BY <2>1, ElementOfSeq
    <3> QED
      BY <3>1, BufferAssumption
  <2>3. /\ p[1] = head /\ p[2] = <<":">> /\ p[3] = number /\ p[4] = <<"=">>
        /\ p[5] = length /\ p[6] = <<"|">> /\ p[7] = body
    BY DEF p, Message
  <2> HIDE DEF head, number, length, body
  <2>4. /\ p[1] \in Seq(Char) /\ p[2] \in Seq(Char) /\ p[3] \in Seq(Char)
        /\ p[4] \in Seq(Char) /\ p[5] \in Seq(Char) /\ p[6] \in Seq(Char)
        /\ p[7] \in Seq(Char)
    <3>1. /\ 1 \in 1 .. 7 /\ 2 \in 1 .. 7 /\ 3 \in 1 .. 7 /\ 4 \in 1 .. 7
          /\ 5 \in 1 .. 7 /\ 6 \in 1 .. 7 /\ 7 \in 1 .. 7
      OBVIOUS
    <3> QED
      BY <2>2, <3>1, Zenon
  <2> QED
    BY <2>3, <2>4, Zenon
<1>2. Said(p, 7) = s7
  <2>1. /\ p[1] = head /\ p[2] = <<":">> /\ p[3] = number /\ p[4] = <<"=">>
        /\ p[5] = length /\ p[6] = <<"|">> /\ p[7] = body
    BY DEF Message
  <2> HIDE DEF p
  <2>2. Said(p, 7) = Said7(p)
    BY DEF Said
  <2> HIDE DEF head, number, length, body
  <2> QED
    BY <2>1, <2>2 DEF Said1, Said2, Said3, Said4, Said5, Said6, Said7
<1>3. \A ch \in {":", "="} : /\ OnlyAt(head, ch, 0) /\ OnlyAt(number, ch, 0)
                              /\ OnlyAt(length, ch, 0) /\ OnlyAt(body, ch, 0)
  BY PieceKinds
<1>4. /\ OnlyAt(<<"=">>, ":", 0) /\ OnlyAt(<<"|">>, ":", 0)
      /\ OnlyAt(<<":">>, "=", 0) /\ OnlyAt(<<"|">>, "=", 0)
  BY DEF OnlyAt
<1> HIDE DEF head, number, length, body, p
<1>5. Len(head) \in Nat /\ Len(number) \in Nat /\ Len(length) \in Nat /\ Len(body) \in Nat
  BY <1>1
<1>6. s2 \in Seq(Char) /\ Len(s2) = colon /\ OnlyAt(s2, ":", colon) /\ OnlyAt(s2, "=", 0)
  <2>1. Len(<<":">>) = 1
    OBVIOUS
  <2> QED
    BY <1>1, <1>3, <1>4, <2>1, Appended
<1> HIDE DEF s2
<1>7. /\ s3 \in Seq(Char) /\ Len(s3) = colon + Len(number) /\ Holds(s3, colon, number)
      /\ OnlyAt(s3, ":", colon) /\ OnlyAt(s3, "=", 0)
  <2>1. s3 \in Seq(Char) /\ Len(s3) = Len(s2) + Len(number) /\ Holds(s3, Len(s2), number)
    BY <1>1, <1>6, Appended
  <2>2. OnlyAt(number, ":", 0) /\ OnlyAt(number, "=", 0)
    BY <1>3
  <2>3. OnlyAt(s3, ":", colon) /\ OnlyAt(s3, "=", 0)
    BY <1>1, <1>6, <2>2, Appended
  <2> QED
    BY <1>6, <2>1, <2>3
<1> HIDE DEF s3
<1>8. /\ s4 \in Seq(Char) /\ Len(s4) = equals /\ Holds(s4, colon, number)
      /\ Holds(s4, equals - 1, <<"=">>) /\ OnlyAt(s4, ":", colon) /\ OnlyAt(s4, "=", equals)
  <2>1. Len(<<"=">>) = 1 /\ colon \in Nat /\ equals - 1 = colon + Len(number)
    BY <1>5
  <2>2. /\ Len(s3) + 1 = equals /\ Len(s3) = equals - 1
    BY <1>5, <1>7
  <2> HIDE DEF colon, equals
  <2>3. s4 \in Seq(Char) /\ Len(s4) = Len(s3) + 1 /\ Holds(s4, Len(s3), <<"=">>)
    BY <1>1, <1>7, <2>1, Appended
  <2>4. Holds(s4, colon, number)
    BY <1>1, <1>7, <2>1, Appended
  <2>5. OnlyAt(s4, ":", colon) /\ OnlyAt(s4, "=", Len(s3) + 1)
    BY <1>1, <1>4, <1>7, <2>1, Appended
  <2> QED
    BY <2>2, <2>3, <2>4, <2>5
<1> HIDE DEF s4
<1>9. colon \in Nat /\ equals \in Nat /\ equals - 1 \in Nat /\ blank \in Nat
      /\ blank - 1 = equals + Len(length) /\ blank - 1 \in Nat
  BY <1>5
<1> HIDE DEF colon
<1>10. /\ s5 \in Seq(Char) /\ Len(s5) = blank - 1 /\ Holds(s5, colon, number)
       /\ Holds(s5, equals, length) /\ Holds(s5, equals - 1, <<"=">>)
       /\ OnlyAt(s5, ":", colon) /\ OnlyAt(s5, "=", equals)
  <2>1. s5 \in Seq(Char) /\ Len(s5) = Len(s4) + Len(length) /\ Holds(s5, Len(s4), length)
    BY <1>1, <1>8, Appended
  <2>2. OnlyAt(length, ":", 0) /\ OnlyAt(length, "=", 0)
    BY <1>3
  <2>3. OnlyAt(s5, ":", colon) /\ OnlyAt(s5, "=", equals)
    BY <1>1, <1>8, <2>2, Appended
  <2>4. Holds(s5, colon, number) /\ Holds(s5, equals - 1, <<"=">>)
    BY <1>1, <1>8, <1>9, Appended
  <2> QED
    BY <1>8, <1>9, <2>1, <2>3, <2>4
<1> HIDE DEF s5
<1>11. /\ s6 \in Seq(Char) /\ Len(s6) = blank /\ Holds(s6, colon, number)
       /\ Holds(s6, equals, length) /\ Holds(s6, equals - 1, <<"=">>)
       /\ Holds(s6, blank - 1, <<"|">>) /\ OnlyAt(s6, ":", colon) /\ OnlyAt(s6, "=", equals)
  <2>1. Len(<<"|">>) = 1 /\ Len(s5) + 1 = blank
    BY <1>9, <1>10
  <2>2. s6 \in Seq(Char) /\ Len(s6) = Len(s5) + 1 /\ Holds(s6, Len(s5), <<"|">>)
    BY <1>1, <1>10, <2>1, Appended
  <2>3. OnlyAt(s6, ":", colon) /\ OnlyAt(s6, "=", equals)
    BY <1>1, <1>4, <1>10, Appended
  <2>4. Holds(s6, colon, number) /\ Holds(s6, equals, length)
    BY <1>1, <1>9, <1>10, Appended
  <2>5. Holds(s6, equals - 1, <<"=">>)
    BY <1>1, <1>9, <1>10, Appended
  <2> QED
    BY <1>10, <2>1, <2>2, <2>3, <2>4, <2>5
<1> HIDE DEF s6
<1>12. /\ s7 \in Seq(Char) /\ Len(s7) = blank + Len(body) /\ Holds(s7, colon, number)
       /\ Holds(s7, equals, length) /\ Holds(s7, equals - 1, <<"=">>)
       /\ Holds(s7, blank - 1, <<"|">>) /\ OnlyAt(s7, ":", colon) /\ OnlyAt(s7, "=", equals)
  <2>1. s7 \in Seq(Char) /\ Len(s7) = Len(s6) + Len(body)
    BY <1>1, <1>11, Appended
  <2>2. OnlyAt(body, ":", 0) /\ OnlyAt(body, "=", 0)
    BY <1>3
  <2>3. OnlyAt(s7, ":", colon) /\ OnlyAt(s7, "=", equals)
    BY <1>1, <1>11, <2>2, Appended
  <2>4. Holds(s7, colon, number) /\ Holds(s7, equals, length)
    BY <1>1, <1>9, <1>11, Appended
  <2>5. Holds(s7, equals - 1, <<"=">>) /\ Holds(s7, blank - 1, <<"|">>)
    BY <1>1, <1>9, <1>11, Appended
  <2> QED
    BY <1>11, <2>1, <2>3, <2>4, <2>5
<1> HIDE DEF s7
<1>13. /\ equals \in 1 .. Len(s7) /\ s7[equals] = "="
       /\ blank \in 1 .. Len(s7) /\ s7[blank] = "|"
  <2>1. /\ Len(<<"=">>) = 1 /\ Len(<<"|">>) = 1 /\ 1 \in 1 .. 1
        /\ <<"=">>[1] = "=" /\ <<"|">>[1] = "|"
    OBVIOUS
  <2>2. equals - 1 + 1 = equals /\ blank - 1 + 1 = blank /\ equals >= 1 /\ blank >= 1
    BY <1>9
  <2>3. /\ equals - 1 + 1 <= Len(s7) /\ s7[equals - 1 + 1] = "="
        /\ blank - 1 + 1 <= Len(s7) /\ s7[blank - 1 + 1] = "|"
    BY <1>12, <2>1 DEF Holds
  <2> QED
    BY <1>5, <1>9, <1>12, <2>2, <2>3
<1>14. /\ equals = colon + Len(number) + 1 /\ blank = equals + Len(length) + 1
       /\ colon \in Nat /\ equals \in Nat /\ blank \in Nat
  BY <1>9
<1> HIDE DEF equals, blank
<1>15. Parts(s7, number, length, body)
  BY <1>1, <1>12, <1>13, <1>14 DEF Parts
<1> QED
  BY <1>2, <1>15, Zenon DEF number, length, body, p

-----------------------------------------------------------------------------
\* While a message is written, some of its pieces are in the buffer and the
\* others wait, and the counter is the one it began with.
WritingInv ==
  writing => \E h \in HeadLength, b \in BodyLength, k \in 0 .. 7 :
               /\ todo = SubSeq(Message(h, b, seq), k + 1, 7)
               /\ meant = Said(Message(h, b, seq), k)

LEMMA WritingStep == PiecesInv /\ WritingInv /\ [SNext]_svars => WritingInv'
<1> SUFFICES ASSUME PiecesInv, WritingInv, [SNext]_svars PROVE WritingInv'
  OBVIOUS
<1>1. ASSUME NEW h \in HeadLength, NEW b \in BodyLength, Write(h, b) PROVE WritingInv'
  <2> DEFINE p == Message(h, b, seq)
  <2>1. p \in Seq(Pieces) /\ Len(p) = 7
    BY PiecesAssumption DEF PiecesInv, Message
  <2>2. todo' = p /\ meant' = << >> /\ seq' = seq
    BY <1>1 DEF Write, NewTxBuf
  <2>3. Said(p, 0) = << >>
    BY DEF Said
  <2>4. SubSeq(p, 0 + 1, 7) = p
    <3> HIDE DEF p
    <3>1. SubSeq(p, 1, Len(p)) = p
      BY <2>1, SubSeqFull
    <3> QED
      BY <2>1, <3>1
  <2>5. p = Message(h, b, seq')
    BY <2>2
  <2> HIDE DEF p
  <2>6. 0 \in 0 .. 7 /\ todo' = SubSeq(p, 0 + 1, 7) /\ meant' = Said(p, 0)
    BY <2>2, <2>3, <2>4
  <2> QED
    BY <2>5, <2>6 DEF WritingInv
<1>2. CASE WritePiece
  <2> SUFFICES ASSUME writing' PROVE WritingInv'
    BY DEF WritingInv
  <2>1. writing
    BY <1>2 DEF WritePiece
  <2>2. PICK h \in HeadLength, b \in BodyLength, k \in 0 .. 7 :
          /\ todo = SubSeq(Message(h, b, seq), k + 1, 7)
          /\ meant = Said(Message(h, b, seq), k)
    BY <2>1 DEF WritingInv
  <2> DEFINE p == Message(h, b, seq)
  <2>3. p \in Seq(Pieces) /\ Len(p) = 7
    BY PiecesAssumption DEF PiecesInv, Message
  <2>4. p = Message(h, b, seq')
    BY <1>2 DEF WritePiece
  <2>5. todo = SubSeq(p, k + 1, 7) /\ meant = Said(p, k)
    BY <2>2
  <2> HIDE DEF p
  <2>6. k \in 0 .. 6
    <3>1. k = 7 => SubSeq(p, k + 1, 7) = << >>
      BY SubSeqEmpty
    <3> QED
      BY <1>2, <2>5, <3>1 DEF WritePiece
  <2>7. Head(todo) = p[k + 1] /\ Tail(todo) = SubSeq(p, (k + 1) + 1, 7)
    <3>1. k + 1 \in 1 .. Len(p) /\ 7 \in k + 1 .. Len(p)
      BY <2>3, <2>6
    <3> QED
      BY <2>3, <2>5, <3>1, HeadTailOfSubSeq
  <2>8. p[1] \in Seq(Char)
    <3>1. p[1] \in Pieces
      BY <2>3, ElementOfSeq
    <3> QED
      BY <3>1, BufferAssumption
  <2>9. meant' = Said(p, k + 1)
    <3>1. meant' = meant \o p[k + 1]
      BY <1>2, <2>7 DEF WritePiece, Append1
    <3>2. Said(p, k + 1) = Said(p, k) \o p[k + 1]
      BY <2>6, <2>8, SaidStep
    <3> QED
      BY <2>5, <3>1, <3>2
  <2>10. k + 1 \in 0 .. 7 /\ todo' = SubSeq(p, (k + 1) + 1, 7)
    BY <1>2, <2>6, <2>7 DEF WritePiece
  <2> QED
    BY <2>4, <2>9, <2>10 DEF WritingInv
<1>3. CASE SendBuffered
  BY <1>3 DEF SendBuffered, WritingInv
<1>4. CASE Count \/ InitClient \/ \E s \in Servers : SetServerIp(s)
  BY <1>4 DEF Count, InitClient, SetServerIp, WritingInv
<1>5. CASE Turn \/ UNCHANGED svars
  <2>1. todo' = todo /\ writing' = writing /\ seq' = seq /\ meant' = meant
    BY <1>5 DEF Turn, svars, uvars
  <2> QED
    BY <2>1 DEF WritingInv
<1> QED
  BY <1>1, <1>2, <1>3, <1>4, <1>5 DEF SNext

THEOREM MessagesAreWritten == SSpec => [](PiecesInv /\ WritingInv)
<1>1. SInit => PiecesInv /\ WritingInv
  BY DEF SInit, PiecesInv, WritingInv
<1> QED
  BY <1>1, PiecesStep, WritingStep, PTL DEF SSpec

\* What leaves is the beginning of a message that was written whole.
LEMMA ReadyIsWhole ==
  ASSUME WritingInv, TextIsCut, UTypeOK, seq \in 0 .. SeqWrap - 1, Ready
  PROVE  \E h \in HeadLength, b \in BodyLength :
           /\ meant = Said(Message(h, b, seq), 7)
           /\ meant \in Seq(Char) /\ text \in Seq(Char)
           /\ Len(text) <= Len(meant)
           /\ \A i \in 1 .. Len(text) : text[i] = meant[i]
           /\ Len(text) < Size - 1 => text = meant
<1>1. PICK h \in HeadLength, b \in BodyLength, k \in 0 .. 7 :
        /\ todo = SubSeq(Message(h, b, seq), k + 1, 7)
        /\ meant = Said(Message(h, b, seq), k)
  BY DEF WritingInv, Ready
<1> DEFINE p == Message(h, b, seq)
<1>2. p \in Seq(Pieces) /\ Len(p) = 7
  BY PiecesAssumption DEF Message
<1>3. k = 7
  <2> SUFFICES ASSUME k # 7 PROVE FALSE
    OBVIOUS
  <2> HIDE DEF p
  <2>1. k + 1 \in Int /\ 7 \in Int /\ k + 1 <= 7
    OBVIOUS
  <2>2. ASSUME NEW i \in k + 1 .. 7 PROVE p[i] \in Pieces
    <3>1. i \in 1 .. Len(p)
      BY <1>2
    <3> QED
      BY <1>2, <3>1, ElementOfSeq
  <2>3. Len(SubSeq(p, k + 1, 7)) = 7 - (k + 1) + 1
    BY <2>1, <2>2, SubSeqProperties
  <2>4. SubSeq(p, k + 1, 7) = << >>
    BY <1>1 DEF Ready, p
  <2>5. Len(<< >>) = 0 /\ 7 - (k + 1) + 1 # 0
    OBVIOUS
  <2> QED
    BY <2>3, <2>4, <2>5, Zenon
<1>4. meant \in Seq(Char) /\ text \in Seq(Char) /\ text = Cut(meant)
  BY DEF UTypeOK, TextIsCut
<1> DEFINE n == Least(Len(meant), Size - 1)
<1>5. /\ Len(meant) \in Nat /\ n \in Nat /\ n <= Len(meant)
      /\ n < Size - 1 => n = Len(meant)
  BY <1>4, BufferAssumption DEF Least
<1>6. text = SubSeq(meant, 1, n)
  BY <1>4 DEF Cut
<1> HIDE DEF n
<1>7. Len(text) = n /\ \A i \in 1 .. n : text[i] = meant[i]
  <2>1. ASSUME NEW i \in 1 .. n PROVE meant[i] \in Char /\ 1 + i - 1 = i
    <3>1. i \in 1 .. Len(meant)
      BY <1>5
    <3> QED
      BY <1>4, <3>1, ElementOfSeq
  <2>2. /\ 1 \in Int /\ n \in Int /\ n - 1 + 1 = n
        /\ (IF 1 <= n THEN n - 1 + 1 ELSE 0) = n
    BY <1>5
  <2>3. /\ Len(SubSeq(meant, 1, n)) = IF 1 <= n THEN n - 1 + 1 ELSE 0
        /\ \A i \in 1 .. n - 1 + 1 : SubSeq(meant, 1, n)[i] = meant[1 + i - 1]
    BY <2>1, <2>2, SubSeqProperties
  <2> QED
    BY <1>6, <2>1, <2>2, <2>3
<1>8. n = Len(meant) => text = meant
  BY <1>4, <1>6, SubSeqFull
<1> QED
  BY <1>1, <1>3, <1>4, <1>5, <1>7, <1>8

-----------------------------------------------------------------------------
\* The Content-Length of a message that leaves whole is the length of the body
\* behind it, for every size of the two buffers and every body.
THEOREM LengthsAreBodies == SSpec => []LengthIsBody
<1>1. PiecesInv /\ WritingInv /\ UTypeOK /\ TextIsCut => LengthIsBody
  <2> SUFFICES ASSUME PiecesInv, WritingInv, UTypeOK, TextIsCut, Ready,
                      Len(text) < Size - 1
               PROVE  \E i, j \in DOMAIN text :
                        /\ text[i] = "=" /\ text[j] = "|"
                        /\ ValueOf(Between(i, j)) = Len(text) - j
    BY DEF LengthIsBody
  <2>1. PICK h \in HeadLength, b \in BodyLength :
          text = Said(Message(h, b, seq), 7)
    BY ReadyIsWhole DEF PiecesInv
  <2> DEFINE length == Digits[Len(Sdp(b))]
  <2>2. Parts(text, Printed(seq), length, Sdp(b))
    BY <2>1, Anatomy DEF PiecesInv
  <2> HIDE DEF length
  <2>3. PICK equals \in Nat, blank \in Nat :
          /\ text \in Seq(Char) /\ length \in Seq(Char)
          /\ blank = equals + Len(length) + 1 /\ Holds(text, equals, length)
          /\ equals \in 1 .. Len(text) /\ text[equals] = "="
          /\ blank \in 1 .. Len(text) /\ text[blank] = "|"
          /\ Len(text) = blank + Len(Sdp(b))
    BY <2>2 DEF Parts
  <2>4. ValueOf(length) = Len(Sdp(b)) /\ Len(Sdp(b)) \in Nat
    BY DigitsValue, SdpType DEF length
  <2>5. Between(equals, blank) = length
    <3>1. SubSeq(text, equals + 1, equals + Len(length)) = length
      <4>1. /\ equals + Len(length) <= Len(text)
            /\ \A k \in 1 .. Len(length) : text[equals + k] = length[k]
        BY <2>3 DEF Holds
      <4> QED
        BY <2>3, <4>1, PieceAt
    <3>2. blank - 1 = equals + Len(length)
      BY <2>3
    <3> QED
      BY <3>1, <3>2 DEF Between
  <2>6. Len(text) - blank = Len(Sdp(b))
    BY <2>3, <2>4
  <2>7. equals \in DOMAIN text /\ blank \in DOMAIN text
    BY <2>3
  <2> QED
    BY <2>3, <2>4, <2>5, <2>6, <2>7
<1> QED
  BY <1>1, MessagesAreWritten, ClientSocketIsSafe, PTL

\* The CSeq on the wire, read as a signed number, is the value of the counter
\* modulo its width, for every width, also when the end of the message is cut.
THEOREM NumbersSurvive == SSpec => []NumberSurvives
<1>1. PiecesInv /\ WritingInv /\ UTypeOK /\ TextIsCut => NumberSurvives
  <2> SUFFICES ASSUME PiecesInv, WritingInv, UTypeOK, TextIsCut, Ready,
                      NEW i \in DOMAIN text, NEW j \in DOMAIN text,
                      text[i] = ":", text[j] = "="
               PROVE  LET chars == Between(i, j)
                      IN  IF Head(chars) = "-" THEN SeqWrap - ValueOf(Tail(chars)) = seq
                          ELSE ValueOf(chars) = seq
    BY DEF NumberSurvives
  <2>1. PICK h \in HeadLength, b \in BodyLength :
          /\ meant = Said(Message(h, b, seq), 7)
          /\ text \in Seq(Char) /\ meant \in Seq(Char) /\ Len(text) <= Len(meant)
          /\ \A k \in 1 .. Len(text) : text[k] = meant[k]
    BY ReadyIsWhole DEF PiecesInv
  <2> DEFINE number == Printed(seq)
  <2>2. Parts(meant, number, Digits[Len(Sdp(b))], Sdp(b))
    BY <2>1, Anatomy DEF PiecesInv
  <2>3. PICK colon \in Nat, equals \in Nat :
          /\ number \in Seq(Char)
          /\ equals = colon + Len(number) + 1 /\ Holds(meant, colon, number)
          /\ OnlyAt(meant, ":", colon) /\ OnlyAt(meant, "=", equals)
    BY <2>2 DEF Parts
  <2> HIDE DEF number
  <2>4. i \in 1 .. Len(text) /\ j \in 1 .. Len(text) /\ Len(text) \in Nat
        /\ Len(meant) \in Nat /\ Len(number) \in Nat
    BY <2>1, <2>3
  <2>5. i = colon /\ j = equals
    <3>1. i \in 1 .. Len(meant) /\ j \in 1 .. Len(meant) /\ meant[i] = ":" /\ meant[j] = "="
      BY <2>1, <2>4
    <3> QED
      BY <2>3, <3>1 DEF OnlyAt
  <2>6. Between(i, j) = number
    <3>1. colon + Len(number) <= Len(text) /\ j - 1 = colon + Len(number)
      BY <2>3, <2>4, <2>5
    <3>2. ASSUME NEW k \in 1 .. Len(number) PROVE text[colon + k] = number[k]
      <4>1. colon + k \in 1 .. Len(text)
        BY <2>4, <3>1
      <4> QED
        BY <2>1, <2>3, <4>1 DEF Holds
    <3>3. SubSeq(text, colon + 1, colon + Len(number)) = number
      BY <2>1, <2>3, <3>1, <3>2, PieceAt
    <3> QED
      BY <2>5, <3>1, <3>3 DEF Between
  <2>7. IF Head(number) = "-" THEN SeqWrap - ValueOf(Tail(number)) = seq
                              ELSE ValueOf(number) = seq
    BY PrintedReads DEF PiecesInv, number
  <2> QED
    BY <2>6, <2>7
<1> QED
  BY <1>1, MessagesAreWritten, ClientSocketIsSafe, PTL

=============================================================================
