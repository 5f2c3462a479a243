-------------------------- MODULE SipPacket_proofs --------------------------
(***************************************************************************)
(* Theorems about the receive window and the parser of SipPacket, for      *)
(* every set of lines and datagrams and every number of them in a window.  *)
(***************************************************************************)
EXTENDS SipPacket, SequenceTheorems, WellFoundedInduction, TLAPS

-----------------------------------------------------------------------------
(***************************************************************************)
(* Type correctness.                                                       *)
(***************************************************************************)
LEMMA DatagramType ==
  ASSUME NEW d \in Datagrams
  PROVE  /\ d.lines \in Seq(Line) /\ d.lines # << >> /\ d.open \in BOOLEAN
         /\ Tail(d.lines) \in Seq(Line) /\ Len(d.lines) \in Nat \ {0}
BY DatagramsAssumption, EmptySeq, HeadTailProperties

LEMMA NothingType == Nothing \in [Field -> Text]
BY TextAssumption DEF Nothing

\* A line that runs on keeps its kind and the names of its fields.
LEMMA JoinedKeeps ==
  ASSUME NEW l, NEW k
  PROVE  Joined(l, k).kind = l.kind /\ DOMAIN Joined(l, k).sets = DOMAIN l.sets
BY DEF Joined

LEMMA JoinedSets ==
  ASSUME NEW l, NEW k, k.kind # "blank", NEW f \in DOMAIN l.sets
  PROVE  Joined(l, k).sets[f] = IF f \in ToEnd THEN Mixed ELSE l.sets[f]
BY DEF Joined

\* What a line has once run on into, no further line changes.
LEMMA JoinedOnce ==
  ASSUME NEW l, NEW k, NEW more, k.kind # "blank"
  PROVE  Joined(Joined(l, k), more) = Joined(l, k)
BY DEF Joined

LEMMA TextLineType ==
  ASSUME NEW l \in TextLine
  PROVE  /\ l.kind \in {"header", "start", "body", "blank"}
         /\ DOMAIN l.sets \subseteq IF l.kind = "body" THEN BodyField
                                   ELSE HeaderField
         /\ \A f \in DOMAIN l.sets : l.sets[f] \in Text
<1>1. CASE l \in Line
  BY <1>1, LineAssumption
<1>2. CASE l \notin Line
  <2>1. PICK a \in Line, b \in Line : l = Joined(a, b)
    BY <1>2 DEF TextLine
  <2>2. l.kind = a.kind /\ DOMAIN l.sets = DOMAIN a.sets
    BY <2>1, JoinedKeeps
  <2>3. ASSUME NEW f \in DOMAIN l.sets PROVE l.sets[f] \in Text
    BY <2>1, <2>2, <2>3, LineAssumption, MixedAssumption DEF Joined
  <2> QED BY <2>2, <2>3, LineAssumption
<1> QED BY <1>1, <1>2

LEMMA OverrideType ==
  ASSUME NEW line \in TextLine, seen \in [Field -> Text]
  PROVE  Override(line) \in [Field -> Text]
BY TextLineType DEF Override

LEMMA TerminatedType ==
  ASSUME text \in Seq(TextLine)
  PROVE  Terminated \in Int /\ Terminated <= Len(text)
BY LenProperties DEF Terminated

LEMMA TextLineJoined ==
  ASSUME NEW l \in TextLine, NEW k \in Line PROVE Joined(l, k) \in TextLine
<1>1. CASE l \in Line
  BY <1>1 DEF TextLine
<1>2. CASE l \notin Line
  <2>1. PICK a \in Line, b \in Line : l = Joined(a, b)
    BY <1>2 DEF TextLine
  <2>2. CASE b.kind = "blank"
    BY <2>1, <2>2, <1>2 DEF Joined
  <2>3. CASE b.kind # "blank"
    BY <2>1, <2>3, JoinedOnce
  <2> QED BY <2>2, <2>3
<1> QED BY <1>1, <1>2

\* What an open line becomes part of, and what Receive adds to the text: the
\* lines of d, less the first if the last line of the text is open.
Skip == IF Open THEN 1 ELSE 0

LEMMA ReceivedText ==
  ASSUME PTypeOK, Open => text # << >>, NEW d \in Datagrams, Receive(d)
  PROVE  /\ text' \in Seq(TextLine) /\ Skip \in {0, 1} /\ (Skip = 1 <=> Open)
         /\ Len(text) \in Nat /\ Len(d.lines) \in Nat \ {0}
         /\ Len(text') = Len(text) + Len(d.lines) - Skip
         /\ Open => text'[Len(text)] = Joined(text[Len(text)], d.lines[1])
         /\ \A i \in 1 .. Len(text) - Skip : text'[i] = text[i]
         /\ \A j \in Skip + 1 .. Len(d.lines) :
              text'[Len(text) + j - Skip] = d.lines[j]
<1> DEFINE base == IF Open THEN [text EXCEPT ![Len(text)] = Joined(@, d.lines[1])]
                   ELSE text
           more == IF Open THEN Tail(d.lines) ELSE d.lines
<1>1. /\ text \in Seq(TextLine) /\ d.lines \in Seq(Line) /\ d.lines \in Seq(TextLine)
      /\ Len(d.lines) \in Nat \ {0} /\ Len(text) \in Nat
      /\ d.lines[1] \in Line
  <2>1. d.lines \in Seq(Line) /\ d.lines # << >> /\ Len(d.lines) \in Nat \ {0}
    BY DatagramType
  <2>2. d.lines \in Seq(TextLine)
    BY <2>1, SeqMonotonic DEF TextLine
  <2> QED BY <2>1, <2>2, LenProperties, ElementOfSeq DEF PTypeOK
<1>2. /\ base \in Seq(TextLine) /\ Len(base) = Len(text)
      /\ Open => base[Len(text)] = Joined(text[Len(text)], d.lines[1])
      /\ \A i \in 1 .. Len(text) - Skip : base[i] = text[i]
  <2>1. CASE Open
    <3>1. Len(text) \in 1 .. Len(text)
      BY <1>1, <2>1, EmptySeq
    <3>2. Joined(text[Len(text)], d.lines[1]) \in TextLine
      BY <1>1, <3>1, ElementOfSeq, TextLineJoined
    <3>3. base = [text EXCEPT ![Len(text)] = Joined(text[Len(text)], d.lines[1])]
      BY <2>1
    <3> QED BY <1>1, <2>1, <3>1, <3>2, <3>3, ExceptSeq DEF Skip
  <2>2. CASE ~Open
    BY <1>1, <2>2 DEF Skip
  <2> QED BY <2>1, <2>2
<1>3. /\ more \in Seq(TextLine) /\ Len(more) = Len(d.lines) - Skip
      /\ \A j \in 1 .. Len(more) : more[j] = d.lines[j + Skip]
  BY <1>1, HeadTailProperties, EmptySeq DEF Skip
<1>4. text' = base \o more
  BY DEF Receive
<1> HIDE DEF base, more
<1>5. /\ text' \in Seq(TextLine) /\ Len(text') = Len(text) + Len(more)
      /\ \A i \in 1 .. Len(text) : text'[i] = base[i]
      /\ \A j \in 1 .. Len(more) : text'[Len(text) + j] = more[j]
  BY <1>1, <1>2, <1>3, <1>4, ConcatProperties, LenProperties
<1>6. Skip \in {0, 1} /\ (Skip = 1 <=> Open)
  BY DEF Skip
<1>7. ASSUME NEW j \in Skip + 1 .. Len(d.lines)
      PROVE  text'[Len(text) + j - Skip] = d.lines[j]
  <2>1. /\ j - Skip \in 1 .. Len(more) /\ (j - Skip) + Skip = j
        /\ Len(text) + j - Skip = Len(text) + (j - Skip)
    BY <1>1, <1>3, <1>6, <1>7
  <2> QED BY <1>3, <1>5, <2>1
<1>8. Open => Len(text) \in 1 .. Len(text)
  BY <1>1, EmptySeq
<1>9. \A i \in 1 .. Len(text) - Skip : text'[i] = text[i]
  BY <1>1, <1>2, <1>5, <1>6
<1> QED BY <1>1, <1>2, <1>3, <1>5, <1>6, <1>7, <1>8, <1>9

\* An open text is not empty, and its last line is not blank.
OpenIsText == Open => text # << >> /\ text[Len(text)].kind # "blank"

LEMMA OpenStep == PTypeOK /\ OpenIsText /\ [PNext]_pvars => OpenIsText'
<1> SUFFICES ASSUME PTypeOK, OpenIsText, [PNext]_pvars PROVE OpenIsText'
  OBVIOUS
<1>1. ASSUME NEW d \in Datagrams, Receive(d) PROVE OpenIsText'
  <2> SUFFICES ASSUME Open' PROVE text' # << >> /\ text'[Len(text')].kind # "blank"
    BY DEF OpenIsText
  <2>1. d.open
    <3>1. window' = Append(window, d) /\ window \in Seq(Datagrams)
      BY <1>1 DEF Receive, PTypeOK
    <3> QED BY <3>1, AppendProperties DEF Open
  <2>2. d.lines[Len(d.lines)].kind # "blank"
    BY <2>1, DatagramsAssumption
  <2>3. PTypeOK /\ (Open => text # << >>) /\ Receive(d)
    BY <1>1 DEF OpenIsText
  <2> DEFINE n == Len(d.lines)
  <2>4. /\ Skip \in {0, 1} /\ (Skip = 1 <=> Open) /\ text' \in Seq(TextLine)
        /\ Len(text) \in Nat /\ n \in Nat \ {0}
        /\ Len(text') = Len(text) + n - Skip
        /\ Open => text'[Len(text)] = Joined(text[Len(text)], d.lines[1])
        /\ \A j \in Skip + 1 .. n : text'[Len(text) + j - Skip] = d.lines[j]
    BY <2>3, ReceivedText
  <2>5. CASE Skip = 1 /\ n = 1
    <3>1. Len(text') = Len(text) /\ Open
      BY <2>4, <2>5
    <3>2. text # << >> /\ text[Len(text)].kind # "blank"
      BY <3>1 DEF OpenIsText
    <3>3. Len(text) # 0
      BY <3>2, EmptySeq DEF PTypeOK
    <3> QED BY <2>4, <3>1, <3>2, <3>3, JoinedKeeps, EmptySeq
  <2>6. CASE ~(Skip = 1 /\ n = 1)
    <3> HIDE DEF n
    <3>1. Skip \in {0, 1} /\ n \in Nat \ {0} /\ Len(text) \in Nat
      BY <2>4
    <3>2. n \in Skip + 1 .. n /\ Len(text) + n - Skip # 0
      BY <2>6, <3>1
    <3>3. Len(text') # 0 /\ text'[Len(text')] = d.lines[n]
      BY <2>4, <3>2
    <3> QED BY <2>2, <3>3, EmptySeq DEF n
  <2> QED BY <2>5, <2>6
<1>2. CASE NextWindow
  BY <1>2, EmptySeq DEF NextWindow, OpenIsText, Open
<1>3. CASE UNCHANGED <<window, text>>
  BY <1>3 DEF OpenIsText, Open
<1> QED BY <1>1, <1>2, <1>3 DEF PNext, ParseStep, Parse, HeaderLine, HeaderEnds,
           HeaderCut, BodyLine, BodyEnds, pvars

LEMMA TypeStep == PTypeOK /\ OpenIsText /\ [PNext]_pvars => PTypeOK'
<1> SUFFICES ASSUME PTypeOK, OpenIsText, [PNext]_pvars PROVE PTypeOK'
  OBVIOUS
<1> USE DEF PTypeOK
<1>1. ASSUME NEW d \in Datagrams, Receive(d) PROVE PTypeOK'
  <2>1. window' \in Seq(Datagrams)
    BY <1>1 DEF Receive
  <2>2. /\ text' \in Seq(TextLine) /\ Len(text) \in Nat /\ Len(text') \in Nat
        /\ Len(text') >= Len(text)
    <3> HIDE DEF PTypeOK
    <3>1. /\ text' \in Seq(TextLine) /\ Skip \in {0, 1}
          /\ Len(text) \in Nat /\ Len(d.lines) \in Nat \ {0}
          /\ Len(text') = Len(text) + Len(d.lines) - Skip
      BY <1>1, ReceivedText DEF OpenIsText
    <3> QED BY <3>1
  <2>3. pos' \in 1 .. Len(text') + 1
    BY <1>1, <2>2 DEF Receive
  <2> QED BY <1>1, <2>1, <2>2, <2>3 DEF Receive
<1>2. CASE Parse
  BY <1>2 DEF Parse
<1>3. CASE HeaderLine
  BY <1>3, OverrideType, ElementOfSeq, TerminatedType, LenProperties DEF HeaderLine
<1>4. CASE HeaderEnds
  BY <1>4, TerminatedType, LenProperties DEF HeaderEnds
<1>5. CASE HeaderCut
  BY <1>5 DEF HeaderCut
<1>6. CASE BodyLine
  BY <1>6, OverrideType, ElementOfSeq, TerminatedType, LenProperties DEF BodyLine
<1>7. CASE BodyEnds
  BY <1>7 DEF BodyEnds
<1>8. CASE NextWindow
  BY <1>8, NothingType, EmptySeq DEF NextWindow
<1>9. CASE UNCHANGED pvars
  BY <1>9 DEF pvars
<1> QED BY <1>1, <1>2, <1>3, <1>4, <1>5, <1>6, <1>7, <1>8, <1>9 DEF PNext, ParseStep

LEMMA TypeInit == PInit => PTypeOK /\ OpenIsText
BY NothingType, EmptySeq DEF PInit, PTypeOK, OpenIsText, Open

\* The parser stays within its text, whatever the gateway writes.
THEOREM PTypeCorrect == PSpec => []PTypeOK
<1>1. PInit => PTypeOK /\ OpenIsText
  BY TypeInit
<1>2. (PTypeOK /\ OpenIsText) /\ [PNext]_pvars => (PTypeOK /\ OpenIsText)'
  BY TypeStep, OpenStep
<1> QED BY <1>1, <1>2, PTL DEF PSpec

\* What parse() has yet to do: the lines it has not passed, and its return.
Parsing == phase \in {"header", "body"}
LinesLeft == Len(text) + 1 - pos + (IF Parsing THEN 1 ELSE 0)
Advances == LinesLeft \in Nat /\ LinesLeft' \in Nat /\ LinesLeft' < LinesLeft

\* Whatever happens while parse() is at work brings it nearer to its end, so
\* that it returns after at most as many iterations as the text has lines, and
\* one: the argument behind ParseEnds, for texts of any length.
THEOREM ParsingAdvances ==
  PSpec => [][Parsing => Advances]_pvars
<1>1. ASSUME PTypeOK, PTypeOK', [PNext]_pvars, Parsing
      PROVE  Advances \/ UNCHANGED pvars
  <2>1. CASE UNCHANGED pvars
    BY <2>1
  <2>2. CASE PNext
    <3>1. ParseStep
      BY <1>1, <2>2 DEF Parsing, PNext, Receive, Parse, NextWindow
    <3>2. text' = text /\ pos' \in {pos, pos + 1}
      BY <3>1 DEF ParseStep, HeaderLine, HeaderEnds, HeaderCut, BodyLine, BodyEnds
    <3>3. pos' = pos + 1 \/ ~Parsing'
      BY <3>1 DEF Parsing, ParseStep, HeaderLine, HeaderEnds, HeaderCut, BodyLine, BodyEnds
    <3>4. Len(text) \in Nat /\ pos \in 1 .. Len(text) + 1 /\ pos' \in 1 .. Len(text) + 1
      BY <1>1, <3>2 DEF PTypeOK
    <3> QED
      BY <1>1, <3>2, <3>3, <3>4 DEF Advances, LinesLeft, Parsing
  <2> QED
    BY <1>1, <2>1, <2>2
<1> QED
  BY <1>1, PTypeCorrect, PTL DEF PSpec

-----------------------------------------------------------------------------
(***************************************************************************)
(* The first message of a window decides.  The inductive invariant: its    *)
(* lines stay at the head of the text, the last one joined with the second *)
(* datagram's first line if it is open; up to its blank line the parser    *)
(* has read these lines and no others; and then it leaves the header fields*)
(* alone.                                                                  *)
(***************************************************************************)
First == window[1]

FirstLine(i) ==
  IF i = Len(First.lines) /\ First.open /\ Len(window) > 1
  THEN Joined(First.lines[i], window[2].lines[1]) ELSE First.lines[i]

\* A first datagram that is all of the text and still open has already run on
\* into another line, or is alone.
Kept ==
  /\ window = << >> => text = << >>
  /\ window # << >> =>
       /\ Len(First.lines) <= Len(text)
       /\ \A i \in 1 .. Len(First.lines) : text[i] = FirstLine(i)
       /\ Len(window) = 1 => Len(text) = Len(First.lines)
       /\ Len(window) > 1 /\ ~First.open => Len(text) > Len(First.lines)
       /\ Len(window) > 1 /\ First.open /\ Open /\ Len(text) = Len(First.lines)
            => window[2].lines[1].kind # "blank"

Told(n) == \A f \in HeaderField : Tells(First.lines, n, f, seen[f])

Read ==
  /\ phase = "window" => pos = 1 /\ seen = Nothing
  /\ phase # "window" => window # << >>
  /\ \A n \in Nat :
       window # << >> /\ HeaderLength(First, n) =>
         /\ phase = "header" => pos <= n + 1 /\ Told(pos - 1)
         /\ phase \in {"body", "done"} => Told(n)

PInv == PTypeOK /\ OpenIsText /\ Kept /\ Read

LEMMA FirstType ==
  ASSUME PTypeOK, window # << >>
  PROVE  /\ First \in Datagrams /\ First.lines \in Seq(Line)
         /\ Len(First.lines) \in Nat \ {0} /\ First.open \in BOOLEAN
         /\ Len(window) \in Nat \ {0} /\ Len(text) \in Nat
         /\ DOMAIN First.lines = 1 .. Len(First.lines)
<1>1. Len(window) \in Nat \ {0} /\ First \in Datagrams
  BY EmptySeq, ElementOfSeq, LenProperties DEF PTypeOK, First
<1> QED BY <1>1, DatagramType, LenProperties DEF PTypeOK

\* A complete header is terminated within the text, also when the last line of
\* its datagram is open.
LEMMA HeaderIsTerminated ==
  ASSUME PTypeOK, Kept, window # << >>, NEW n \in Nat, HeaderLength(First, n)
  PROVE  /\ n + 1 <= Terminated /\ n + 1 <= Len(First.lines)
         /\ text[n + 1].kind = "blank"
         /\ \A i \in 1 .. n : text[i] = First.lines[i] /\ text[i].kind # "blank"
<1>1. n + 1 \in 1 .. Len(First.lines)
  BY FirstType DEF HeaderLength
<1>2. text[n + 1].kind = "blank"
  BY <1>1 DEF HeaderLength, Kept, FirstLine
<1>3. \A i \in 1 .. n : text[i] = First.lines[i] /\ text[i].kind # "blank"
  BY <1>1, FirstType DEF HeaderLength, Kept, FirstLine
<1>4. n + 1 <= Terminated
  <2>1. CASE ~Open
    BY <2>1, <1>1, FirstType DEF Terminated, Kept
  <2>2. CASE Open /\ n + 1 < Len(First.lines)
    BY <2>2, <1>1, FirstType DEF Terminated, Kept
  <2>3. CASE Open /\ n + 1 = Len(First.lines)
    <3>1. ~First.open
      BY <2>3 DEF HeaderLength
    <3>2. Len(window) > 1
      BY <2>3, <3>1, FirstType DEF Open, First
    <3> QED BY <2>3, <3>1, <3>2, FirstType DEF Terminated, Kept
  <2> QED BY <2>1, <2>2, <2>3, <1>1, FirstType
<1> QED BY <1>1, <1>2, <1>3, <1>4

LEMMA HeaderHasLength ==
  ASSUME PTypeOK, window # << >>, Complete(First)
  PROVE  \E n \in Nat : HeaderLength(First, n)
<1>1. Len(First.lines) \in Nat
  BY FirstType
<1> QED BY <1>1 DEF Complete

LEMMA OneOrMore == ASSUME NEW n \in Nat \ {0} PROVE n > 1 \/ n = 1
OBVIOUS

LEMMA KeptStep == PTypeOK /\ OpenIsText /\ Kept /\ [PNext]_pvars => Kept'
<1> SUFFICES ASSUME PTypeOK, OpenIsText, Kept, [PNext]_pvars PROVE Kept'
  OBVIOUS
<1>1. ASSUME NEW d \in Datagrams, Receive(d) PROVE Kept'
  <2>1. /\ Skip \in {0, 1} /\ (Skip = 1 <=> Open)
        /\ Len(text) \in Nat /\ Len(d.lines) \in Nat \ {0}
        /\ Len(text') = Len(text) + Len(d.lines) - Skip
    BY <1>1, ReceivedText DEF OpenIsText
  <2>2. /\ Open => text'[Len(text)] = Joined(text[Len(text)], d.lines[1])
        /\ \A i \in 1 .. Len(text) - Skip : text'[i] = text[i]
        /\ \A j \in Skip + 1 .. Len(d.lines) : text'[Len(text) + j - Skip] = d.lines[j]
    BY <1>1, ReceivedText DEF OpenIsText
  <2>3. /\ window' = Append(window, d) /\ window \in Seq(Datagrams)
        /\ Len(window') = Len(window) + 1 /\ window' # << >>
        /\ Len(window) \in Nat /\ window'[Len(window) + 1] = d
        /\ \A i \in 1 .. Len(window) : window'[i] = window[i]
    BY <1>1, AppendProperties, LenProperties DEF Receive, PTypeOK
  <2>4. CASE window = << >>
    <3>1. text = << >> /\ Len(text) = 0 /\ Len(window) = 0 /\ ~Open
      BY <2>4, EmptySeq DEF Open, Kept
    <3>2. Skip = 0 /\ Len(text') = Len(d.lines)
      BY <2>1, <3>1
    <3>3. \A j \in 1 .. Len(d.lines) : text'[j] = d.lines[j]
      <4> SUFFICES ASSUME NEW j \in 1 .. Len(d.lines) PROVE text'[j] = d.lines[j]
        OBVIOUS
      <4>1. j \in Skip + 1 .. Len(d.lines) /\ Len(text) + j - Skip = j
        BY <2>1, <3>1, <3>2
      <4> QED BY <2>2, <4>1
    <3>4. window'[1] = d /\ Len(window') = 1
      BY <2>3, <3>1
    <3> QED BY <2>3, <3>2, <3>3, <3>4, <2>1 DEF Kept, First, FirstLine
  <2>5. CASE window # << >>
    <3> DEFINE m == Len(First.lines)
    <3>1. /\ window'[1] = First /\ m \in Nat \ {0} /\ m <= Len(text)
          /\ Len(window) \in Nat \ {0}
      BY <2>3, <2>5, FirstType DEF First, Kept
    <3>2. CASE Len(window) = 1
      <4>1. Len(text) = m /\ window'[2] = d /\ Len(window') = 2 /\ (Open <=> First.open)
        BY <2>3, <2>5, <3>2 DEF Kept, First, Open
      <4>2. \A i \in 1 .. m : text[i] = First.lines[i]
        BY <2>5, <3>2 DEF Kept, FirstLine
      <4>3. ASSUME NEW i \in 1 .. m PROVE text'[i] = FirstLine(i)'
        <5>1. CASE First.open /\ i = m
          <6>1. text'[i] = Joined(First.lines[i], d.lines[1])
            BY <2>2, <4>1, <4>2, <5>1
          <6> QED BY <3>1, <4>1, <5>1, <6>1 DEF FirstLine, First
        <5>2. CASE ~(First.open /\ i = m)
          <6>1. i \in 1 .. Len(text) - Skip
            BY <2>1, <3>1, <4>1, <5>2
          <6>2. text'[i] = First.lines[i]
            BY <2>2, <4>2, <6>1
          <6> QED BY <3>1, <4>1, <5>2, <6>2 DEF FirstLine, First
        <5> QED BY <5>1, <5>2
      <4>4. ASSUME ~First.open PROVE Len(text') > m
        <5> HIDE DEF m
        <5>1. Skip = 0
          BY <2>1, <4>1, <4>4
        <5> QED BY <2>1, <3>1, <4>1, <5>1
      <4>5. ASSUME Open', Len(text') = m PROVE d.lines[1].kind # "blank"
        <5>1. Len(d.lines) = 1
          <6> HIDE DEF m
          <6>1. Len(d.lines) = Skip
            BY <2>1, <3>1, <4>1, <4>5
          <6> QED BY <2>1, <6>1
        <5>2. d.open
          BY <2>3, <4>1, <4>5 DEF Open
        <5> QED BY <5>1, <5>2, DatagramsAssumption
      <4>6. Len(text') >= m
        BY <2>1, <3>1, <4>1
      <4> QED BY <2>3, <3>1, <4>1, <4>3, <4>4, <4>5, <4>6 DEF Kept, First
    <3>3. CASE Len(window) > 1
      <4>1. window'[2] = window[2] /\ Len(window') > 1
        BY <2>3, <3>1, <3>3
      <4>2. \A i : FirstLine(i)' = FirstLine(i)
        BY <3>1, <3>3, <4>1 DEF FirstLine, First
      <4>3. ASSUME NEW i \in 1 .. m PROVE text'[i] = FirstLine(i)
        <5>1. text[i] = FirstLine(i)
          BY <2>5 DEF Kept
        <5>2. CASE Open /\ i = Len(text)
          <6>1. i = m /\ First.open /\ window[2].lines[1].kind # "blank"
            BY <2>5, <3>1, <3>3, <5>2 DEF Kept
          <6>2. text[i] = Joined(First.lines[i], window[2].lines[1])
            BY <3>3, <5>1, <6>1 DEF FirstLine
          <6>3. text'[i] = Joined(text[i], d.lines[1])
            BY <2>2, <5>2
          <6> QED BY <5>1, <6>1, <6>2, <6>3, JoinedOnce
        <5>3. CASE ~(Open /\ i = Len(text))
          <6>1. i \in 1 .. Len(text) - Skip
            BY <2>1, <3>1, <5>3
          <6> QED BY <2>2, <5>1, <6>1
        <5> QED BY <5>2, <5>3
      <4>4. ASSUME ~First.open PROVE Len(text') > m
        <5>1. Len(text) > m
          BY <2>5, <3>3, <4>4 DEF Kept
        <5> QED BY <2>1, <3>1, <5>1
      <4>5. ASSUME First.open, Len(text') = m PROVE window[2].lines[1].kind # "blank"
        <5>1. Len(text) = m /\ Open
          BY <2>1, <3>1, <4>5
        <5> QED BY <2>5, <3>3, <4>5, <5>1 DEF Kept
      <4>6. Len(text') >= m
        BY <2>1, <3>1
      <4>7. ~(Len(window') = 1)
        BY <4>1
      <4> QED BY <2>3, <3>1, <4>1, <4>2, <4>3, <4>4, <4>5, <4>6, <4>7 DEF Kept, First
    <3> QED BY <3>1, <3>2, <3>3, OneOrMore
  <2> QED BY <2>4, <2>5
<1>2. CASE UNCHANGED <<window, text>>
  BY <1>2 DEF Kept, First, FirstLine, Open
<1>3. CASE NextWindow
  BY <1>3 DEF NextWindow, Kept
<1> QED BY <1>1, <1>2, <1>3 DEF PNext, ParseStep, Parse, HeaderLine, HeaderEnds,
           HeaderCut, BodyLine, BodyEnds, pvars

\* One more line of the header: what it sets is what it says, the rest stays.
LEMMA HeaderLineTells ==
  ASSUME PTypeOK, Kept, window # << >>, HeaderLine,
         pos < Len(First.lines), Told(pos - 1)
  PROVE  \A f \in HeaderField : Tells(First.lines, pos, f, seen'[f])
<1> USE DEF SetsField
<1> DEFINE lines == First.lines
<1>1. /\ pos \in Nat \ {0} /\ lines[pos] = text[pos] /\ text[pos] \in TextLine
      /\ text[pos].kind # "blank" /\ seen \in [Field -> Text]
  BY FirstType, TerminatedType, ElementOfSeq, LenProperties
     DEF PTypeOK, Kept, FirstLine, HeaderLine
<1> SUFFICES ASSUME NEW f \in HeaderField PROVE Tells(lines, pos, f, seen'[f])
  OBVIOUS
<1>2. Tells(lines, pos - 1, f, seen[f])
  BY DEF Told
<1>3. CASE SetsField(lines, pos, f)
  <2>1. Reads(text[pos], pos)
    BY <1>1, <1>3, TextLineType DEF Reads, HeaderField, BodyField
  <2>2. seen'[f] = lines[pos].sets[f]
    BY <2>1, <1>1, <1>3 DEF HeaderLine, Override, Field
  <2> QED BY <2>2, <1>1, <1>3 DEF Tells
<1>4. CASE ~SetsField(lines, pos, f)
  <2>1. seen'[f] = seen[f]
    BY <1>1, <1>4 DEF HeaderLine, Override, Field, Reads
  <2> QED BY <2>1, <1>1, <1>2, <1>4 DEF Tells
<1> QED BY <1>3, <1>4

LEMMA ReadStep == PInv /\ [PNext]_pvars => Read'
<1> SUFFICES ASSUME PTypeOK, OpenIsText, Kept, Read, [PNext]_pvars PROVE Read'
  BY DEF PInv
<1> DEFINE Done(k, q) == \A f \in HeaderField : Tells(First.lines, k, f, q[f])
           Here(n) == window # << >> /\ HeaderLength(First, n)
<1>1. ASSUME NEW d \in Datagrams, Receive(d) PROVE Read'
  BY <1>1 DEF Receive, Read
<1>2. CASE NextWindow
  BY <1>2 DEF NextWindow, Read
<1>3. CASE Parse
  <2>1. window # << >>
    BY <1>3 DEF Parse, Kept
  <2>2. Done(0, Nothing)
    BY DEF Tells
  <2> QED BY <1>3, <2>1, <2>2, FirstType DEF Parse, Read, Told, First
<1>4. ASSUME UNCHANGED window, phase # "window", phase' # "window",
             ASSUME NEW n \in Nat, Here(n)
             PROVE  /\ phase' = "header" => pos' <= n + 1 /\ Done(pos' - 1, seen')
                    /\ phase' \in {"body", "done"} => Done(n, seen')
      PROVE  Read'
  BY <1>4 DEF Read, Told, First
<1>5. CASE HeaderLine
  <2>1. ASSUME NEW n \in Nat, Here(n)
        PROVE  pos' <= n + 1 /\ Done(pos' - 1, seen')
    <3>1. pos \in Nat \ {0} /\ pos <= n + 1 /\ Told(pos - 1) /\ pos' = pos + 1
      BY <1>5, <2>1, LenProperties DEF HeaderLine, Read, PTypeOK
    <3>2. pos # n + 1 /\ n + 1 <= Len(First.lines)
      BY <1>5, <2>1, HeaderIsTerminated DEF HeaderLine
    <3>3. Done(pos, seen')
      <4>1. pos < Len(First.lines)
        BY <2>1, <3>1, <3>2, FirstType
      <4> QED BY <1>5, <2>1, <3>1, <4>1, HeaderLineTells
    <3>4. pos' - 1 = pos
      BY <3>1
    <3> QED BY <3>1, <3>2, <3>3, <3>4
  <2> QED BY <1>4, <1>5, <2>1 DEF HeaderLine
<1>6. CASE HeaderEnds
  <2>1. ASSUME NEW n \in Nat, Here(n)
        PROVE  Done(n, seen')
    <3>1. pos \in Nat \ {0} /\ pos <= n + 1 /\ Told(pos - 1) /\ seen' = seen
      BY <1>6, <2>1, LenProperties DEF HeaderEnds, Read, PTypeOK
    <3>2. pos = n + 1
      BY <1>6, <2>1, <3>1, HeaderIsTerminated DEF HeaderEnds
    <3>3. pos - 1 = n
      BY <3>2
    <3> QED BY <3>1, <3>3 DEF Told
  <2> QED BY <1>4, <1>6, <2>1 DEF HeaderEnds
<1>7. CASE HeaderCut
  BY <1>4, <1>7 DEF HeaderCut
<1>8. CASE BodyLine
  <2>1. \A f \in HeaderField : seen'[f] = seen[f]
    <3>1. text[pos] \in TextLine /\ seen \in [Field -> Text]
      BY <1>8, TerminatedType, ElementOfSeq, LenProperties DEF PTypeOK, BodyLine
    <3> QED BY <1>8, <3>1, TextLineType
            DEF BodyLine, Override, Field, HeaderField, BodyField
  <2>2. ASSUME NEW n \in Nat, Here(n) PROVE Done(n, seen')
    BY <1>8, <2>1, <2>2 DEF BodyLine, Read, Told
  <2> QED BY <1>4, <1>8, <2>2 DEF BodyLine
<1>9. CASE BodyEnds
  BY <1>4, <1>9 DEF BodyEnds, Read, Told
<1>10. CASE UNCHANGED pvars
  BY <1>10 DEF pvars, Read, Told, First
<1> QED BY <1>1, <1>2, <1>3, <1>5, <1>6, <1>7, <1>8, <1>9, <1>10 DEF PNext, ParseStep

LEMMA PInvInit == PInit => PInv
BY TypeInit DEF PInit, PInv, Kept, Read

LEMMA PInvStep == PInv /\ [PNext]_pvars => PInv'
BY TypeStep, OpenStep, KeptStep, ReadStep DEF PInv

\* What the parser hands over is the first message of the window, unmixed.
THEOREM FirstMessage == PSpec => []FirstMessageDecides
<1>1. PInit => PInv
  BY PInvInit
<1>2. PInv /\ [PNext]_pvars => PInv'
  BY PInvStep
<1>3. PInv => FirstMessageDecides
  <2> SUFFICES ASSUME PInv, phase = "done", NEW n \in 0 .. Len(First.lines),
                      HeaderLength(First, n)
               PROVE  Told(n)
    BY DEF FirstMessageDecides, First, Told
  <2> QED BY FirstType DEF PInv, Read
<1> QED BY <1>1, <1>2, <1>3, PTL DEF PSpec


\* What is handed over of a complete first message is a packet as SipClient
\* takes it, whatever else the window collected.
THEOREM PacketsAreSeen == PSpec => []SeenIsPacket
<1>1. PInit => PInv
  BY PInvInit
<1>2. PInv /\ [PNext]_pvars => PInv'
  BY PInvStep
<1>3. PInv => SeenIsPacket
  <2> SUFFICES ASSUME PInv, phase = "done", Complete(First)
               PROVE  AsPacket(seen["status"], seen["method"], seen["nonce"]) \in Packet
    BY DEF SeenIsPacket, First
  <2>1. window # << >>
    BY DEF PInv, Read
  <2>2. /\ seen["status"] \in Text /\ seen["method"] \in Text /\ seen["nonce"] \in Text
        /\ First \in Datagrams
    BY <2>1, FirstType DEF PInv, PTypeOK, Field, HeaderField
  <2>3. PICK n \in Nat : HeaderLength(First, n)
    BY <2>1, HeaderHasLength DEF PInv
  <2>4. n \in 0 .. Len(First.lines) /\ Told(n)
    BY <2>1, <2>3, HeaderIsTerminated, FirstType DEF PInv, Read
  <2>5. /\ Tells(First.lines, n, "status", seen["status"])
        /\ Tells(First.lines, n, "method", seen["method"])
        /\ Tells(First.lines, n, "nonce", seen["nonce"])
    BY <2>4 DEF Told, HeaderField
  <2> QED BY <2>2, <2>3, <2>4, <2>5, MessagesAssumption
<1> QED BY <1>1, <1>2, <1>3, PTL DEF PSpec

-----------------------------------------------------------------------------
(***************************************************************************)
(* A header that was cut is refused, and no other.  The inductive          *)
(* invariant: the text has a blank line just if a datagram brought an      *)
(* empty one, the parser has passed none as long as it reads the header,   *)
(* and has found one when it leaves it.                                    *)
(***************************************************************************)
HasBlank == \E p \in 1 .. Len(text) : text[p].kind = "blank"
HasEnd == \E i \in DOMAIN window : \E j \in DOMAIN window[i].lines : EndsHeader(i, j)

BlanksAreEnds ==
  /\ HasBlank <=> HasEnd
  /\ phase \in {"window", "header"} => \A p \in 1 .. pos - 1 : text[p].kind # "blank"
  /\ phase = "window" => pos = 1
  /\ phase = "failed" => ~HasBlank
  /\ phase \in {"body", "done"} => HasBlank

LEMMA BlanksReceived ==
  ASSUME PTypeOK, OpenIsText, BlanksAreEnds, NEW d \in Datagrams, Receive(d)
  PROVE  HasBlank' <=> HasEnd'
<1> DEFINE n == Len(d.lines)
           Brings(j) == d.lines[j].kind = "blank" /\ j \in Skip + 1 .. n
<1>1. /\ Skip \in {0, 1} /\ (Skip = 1 <=> Open)
      /\ Len(text) \in Nat /\ n \in Nat \ {0} /\ Len(text') = Len(text) + n - Skip
  BY ReceivedText DEF OpenIsText
<1>2. /\ Open => text'[Len(text)] = Joined(text[Len(text)], d.lines[1])
      /\ \A i \in 1 .. Len(text) - Skip : text'[i] = text[i]
      /\ \A j \in Skip + 1 .. n : text'[Len(text) + j - Skip] = d.lines[j]
  BY ReceivedText DEF OpenIsText
<1>w. PICK w \in Nat : w = Len(window)
  BY LenProperties DEF PTypeOK
<1>3. /\ DOMAIN window = 1 .. w /\ DOMAIN window' = 1 .. w + 1
      /\ \A i \in 1 .. w : window'[i] = window[i]
      /\ window'[w + 1] = d /\ DOMAIN d.lines = 1 .. n
  <2>1. window' = Append(window, d) /\ window \in Seq(Datagrams)
    BY DEF Receive, PTypeOK
  <2> QED BY <1>w, <2>1, AppendProperties, LenProperties, DatagramType
<1>4. \A p \in 1 .. Len(text) : text'[p].kind = text[p].kind
  <2> SUFFICES ASSUME NEW p \in 1 .. Len(text) PROVE text'[p].kind = text[p].kind
    OBVIOUS
  <2>1. CASE Open /\ p = Len(text)
    BY <1>2, <2>1, JoinedKeeps
  <2>2. CASE ~(Open /\ p = Len(text))
    <3>1. p \in 1 .. Len(text) - Skip
      BY <1>1, <2>2
    <3> QED BY <1>2, <3>1
  <2> QED BY <2>1, <2>2
<1> HIDE DEF n
<1>5. HasBlank' <=> HasBlank \/ \E j : Brings(j)
  <2>1. HasBlank => HasBlank'
    BY <1>1, <1>4 DEF HasBlank
  <2>2. ASSUME NEW j, Brings(j) PROVE HasBlank'
    <3>1. Len(text) + j - Skip \in 1 .. Len(text')
      BY <1>1, <2>2
    <3>2. text'[Len(text) + j - Skip].kind = "blank"
      BY <1>2, <2>2
    <3> QED BY <3>1, <3>2 DEF HasBlank
  <2>3. ASSUME NEW p \in 1 .. Len(text'), text'[p].kind = "blank"
        PROVE  HasBlank \/ \E j : Brings(j)
    <3>1. CASE p \in 1 .. Len(text)
      BY <1>4, <2>3, <3>1 DEF HasBlank
    <3>2. CASE p \notin 1 .. Len(text)
      <4> DEFINE j == p - Len(text) + Skip
      <4>1. j \in Skip + 1 .. n /\ Len(text) + j - Skip = p
        BY <1>1, <2>3, <3>2
      <4>2. Brings(j)
        BY <1>2, <2>3, <4>1
      <4> QED BY <4>2
    <3> QED BY <3>1, <3>2
  <2> QED BY <2>1, <2>2, <2>3 DEF HasBlank
<1>6. \A i \in 1 .. w : \A j : EndsHeader(i, j)' <=> EndsHeader(i, j)
  <2> SUFFICES ASSUME NEW i \in 1 .. w, NEW j
               PROVE  EndsHeader(i, j)' <=> EndsHeader(i, j)
    OBVIOUS
  <2>1. i = 1 \/ i - 1 \in 1 .. w
    BY <1>3
  <2> QED BY <1>3, <2>1 DEF EndsHeader
<1>7. \A j \in 1 .. n : EndsHeader(w + 1, j)' <=> Brings(j)
  <2> SUFFICES ASSUME NEW j \in 1 .. n
               PROVE  EndsHeader(w + 1, j)' <=> Brings(j)
    OBVIOUS
  <2>1. Open <=> w # 0 /\ window[w].open
    BY <1>w, EmptySeq DEF Open, PTypeOK
  <2>2. EndsHeader(w + 1, j)' <=>
          d.lines[j].kind = "blank" /\ (j = 1 => ~Open)
    <3>1. w # 0 => window'[w] = window[w]
      BY <1>3
    <3>2. (w + 1) - 1 = w /\ (w + 1 = 1 <=> w = 0)
      BY <1>3
    <3> QED BY <1>3, <2>1, <3>1, <3>2 DEF EndsHeader
  <2>3. j \in Skip + 1 .. n <=> (j = 1 => ~Open)
    BY <1>1
  <2> QED BY <2>2, <2>3
<1>8. HasEnd' <=> HasEnd \/ \E j : Brings(j)
  <2> DEFINE last == w + 1
  <2>1. HasEnd => HasEnd'
    BY <1>3, <1>6 DEF HasEnd
  <2>2. ASSUME NEW j, Brings(j) PROVE HasEnd'
    <3>1. j \in 1 .. n
      BY <1>1, <2>2
    <3>2. last \in DOMAIN window' /\ j \in DOMAIN window'[last].lines
      BY <1>3, <3>1 DEF n
    <3>3. EndsHeader(last, j)'
      BY <1>7, <2>2, <3>1
    <3> QED BY <3>2, <3>3 DEF HasEnd
  <2>3. ASSUME NEW i \in DOMAIN window', NEW j \in DOMAIN window'[i].lines,
               EndsHeader(i, j)'
        PROVE  HasEnd \/ \E k : Brings(k)
    <3>1. CASE i = last
      <4>1. j \in 1 .. n
        BY <1>3, <2>3, <3>1 DEF n
      <4> QED BY <1>7, <2>3, <3>1, <4>1
    <3>2. CASE i # last
      <4>1. i \in 1 .. w
        BY <1>3, <2>3, <3>2
      <4> QED BY <1>3, <1>6, <2>3, <4>1 DEF HasEnd
    <3> QED BY <3>1, <3>2
  <2> QED BY <2>1, <2>2, <2>3 DEF HasEnd
<1> QED BY <1>5, <1>8 DEF BlanksAreEnds

LEMMA BlanksStep == PTypeOK /\ OpenIsText /\ BlanksAreEnds /\ [PNext]_pvars => BlanksAreEnds'
<1> SUFFICES ASSUME PTypeOK, OpenIsText, BlanksAreEnds, [PNext]_pvars
             PROVE  BlanksAreEnds'
  OBVIOUS
<1> USE DEF BlanksAreEnds, HasBlank
<1>1. ASSUME NEW d \in Datagrams, Receive(d) PROVE BlanksAreEnds'
  <2>1. HasBlank' <=> HasEnd'
    BY <1>1, BlanksReceived
  <2>2. phase' = "window" /\ pos' = 1
    BY <1>1 DEF Receive
  <2> QED BY <2>1, <2>2
<1>2. CASE NextWindow
  <2>1. window' = << >> /\ text' = << >> /\ phase' = "window" /\ pos' = 1
    BY <1>2 DEF NextWindow
  <2>2. ~HasEnd' /\ ~HasBlank'
    BY <2>1, EmptySeq DEF HasEnd
  <2> QED BY <2>1, <2>2
<1> DEFINE Same == UNCHANGED <<window, text>>
<1>3. Same => (HasEnd' <=> HasEnd) /\ (HasBlank' <=> HasBlank)
  BY DEF HasEnd, EndsHeader
<1> HIDE DEF HasBlank
<1>4. CASE HeaderLine
  <2>1. pos \in Nat \ {0} /\ text[pos].kind # "blank" /\ pos' = pos + 1
    BY <1>4, LenProperties DEF HeaderLine, PTypeOK
  <2>2. Same /\ phase' = "header" /\ phase = "header"
    BY <1>4 DEF HeaderLine
  <2>3. \A p \in 1 .. pos : text[p].kind # "blank"
    BY <2>1, <2>2
  <2>4. pos' - 1 = pos
    BY <2>1
  <2> QED BY <1>3, <2>2, <2>3, <2>4
<1>5. CASE HeaderEnds
  <2>1. HasBlank
    BY <1>5, TerminatedType, LenProperties DEF HeaderEnds, PTypeOK, HasBlank
  <2>2. Same /\ phase' \in {"body", "done"}
    BY <1>5 DEF HeaderEnds
  <2> QED BY <1>3, <2>1, <2>2
<1>6. CASE HeaderCut
  <2>1. phase = "header" /\ pos > Terminated /\ Same /\ phase' = "failed"
    BY <1>6 DEF HeaderCut
  <2>2. Len(text) \in Nat /\ pos \in 1 .. Len(text) + 1
    BY LenProperties DEF PTypeOK
  <2>3. ASSUME NEW p \in 1 .. Len(text), text[p].kind = "blank" PROVE FALSE
    <3>1. CASE p < pos
      <4>1. p \in 1 .. pos - 1
        BY <2>2, <2>3, <3>1
      <4> QED BY <2>1, <2>3, <4>1
    <3>2. CASE ~(p < pos)
      <4>1. Open /\ p = Len(text)
        BY <2>1, <2>2, <2>3, <3>2 DEF Terminated
      <4> QED BY <2>3, <4>1 DEF OpenIsText
    <3> QED BY <3>1, <3>2
  <2> QED BY <1>3, <2>1, <2>3 DEF HasBlank
<1>7. CASE Parse
  BY <1>3, <1>7 DEF Parse
<1>8. CASE BodyLine \/ BodyEnds
  <2>1. Same /\ phase = "body" /\ phase' \in {"body", "done"}
    BY <1>8 DEF BodyLine, BodyEnds
  <2> QED BY <1>3, <2>1
<1>9. CASE UNCHANGED pvars
  BY <1>3, <1>9 DEF pvars
<1> QED BY <1>1, <1>2, <1>4, <1>5, <1>6, <1>7, <1>8, <1>9 DEF PNext, ParseStep

\* A window is acted on if one of its datagrams brought an empty line with it,
\* and refused if none did.
THEOREM CutHeadersAreRefused == PSpec => []CutHeaderIsRefused
<1> DEFINE CInv == PTypeOK /\ OpenIsText /\ BlanksAreEnds
<1>1. PInit => CInv
  BY TypeInit, EmptySeq DEF PInit, BlanksAreEnds, HasBlank, HasEnd
<1>2. CInv /\ [PNext]_pvars => CInv'
  BY TypeStep, OpenStep, BlanksStep
<1>3. CInv => CutHeaderIsRefused
  BY DEF BlanksAreEnds, HasEnd, CutHeaderIsRefused
<1> QED BY <1>1, <1>2, <1>3, PTL DEF PSpec

-----------------------------------------------------------------------------
(***************************************************************************)
(* The body is the first message's, too.  The inductive invariant: behind  *)
(* the first message no line of a body comes before a blank line, at which *)
(* the parser stops, so that it only ever reads the body of the first,     *)
(* with what its open last line ran on into.                               *)
(***************************************************************************)
BodiesAreApart ==
  window # << >> =>
    \A i \in Len(First.lines) + 1 .. Len(text) :
      text[i].kind = "body" =>
        \E j \in Len(First.lines) + 1 .. i - 1 : text[j].kind = "blank"

OfFirst(f, v) ==
  v # "" => \E i \in DOMAIN First.lines :
              /\ First.lines[i].kind = "body" /\ f \in DOMAIN First.lines[i].sets
              /\ FirstLine(i).sets[f] = v

BodyRead ==
  /\ phase \in {"window", "header"} => \A f \in BodyField : seen[f] = ""
  /\ \A n \in Nat :
       window # << >> /\ HeaderLength(First, n) =>
         /\ phase = "body" =>
              n + 2 <= pos /\ \A j \in n + 2 .. pos - 1 : text[j].kind # "blank"
         /\ phase \in {"body", "done"} => \A f \in BodyField : OfFirst(f, seen[f])

LEMMA ApartStep ==
  PTypeOK /\ OpenIsText /\ Kept /\ BodiesAreApart /\ [PNext]_pvars => BodiesAreApart'
<1> SUFFICES ASSUME PTypeOK, OpenIsText, Kept, BodiesAreApart, [PNext]_pvars
             PROVE  BodiesAreApart'
  OBVIOUS
<1>1. ASSUME NEW d \in Datagrams, Receive(d) PROVE BodiesAreApart'
  <2> DEFINE n == Len(d.lines)
  <2>1. /\ Skip \in {0, 1} /\ (Skip = 1 <=> Open)
        /\ Len(text) \in Nat /\ n \in Nat \ {0} /\ Len(text') = Len(text) + n - Skip
    BY <1>1, ReceivedText DEF OpenIsText
  <2>2. /\ Open => text'[Len(text)] = Joined(text[Len(text)], d.lines[1])
        /\ \A i \in 1 .. Len(text) - Skip : text'[i] = text[i]
        /\ \A j \in Skip + 1 .. n : text'[Len(text) + j - Skip] = d.lines[j]
    BY <1>1, ReceivedText DEF OpenIsText
  <2>3. \A p \in 1 .. Len(text) : text'[p].kind = text[p].kind
    <3> SUFFICES ASSUME NEW p \in 1 .. Len(text) PROVE text'[p].kind = text[p].kind
      OBVIOUS
    <3>1. CASE Open /\ p = Len(text)
      BY <2>2, <3>1, JoinedKeeps
    <3>2. CASE ~(Open /\ p = Len(text))
      <4>1. p \in 1 .. Len(text) - Skip
        BY <2>1, <3>2
      <4> QED BY <2>2, <4>1
    <3> QED BY <3>1, <3>2
  <2>4. window' = Append(window, d) /\ window \in Seq(Datagrams) /\ window' # << >>
    BY <1>1 DEF Receive, PTypeOK
  <2>5. CASE window = << >>
    <3>1. text = << >> /\ ~Open
      BY <2>5 DEF Kept, Open
    <3>2. Len(text') = n
      BY <2>1, <3>1, EmptySeq
    <3>3. window' = <<d>>
      BY <2>4, <2>5
    <3>4. First' = d
      BY <3>3 DEF First
    <3> QED BY <3>2, <3>4, <2>1 DEF BodiesAreApart
  <2>6. CASE window # << >>
    <3> DEFINE m == Len(First.lines)
    <3>1. First' = First /\ m \in Nat /\ m <= Len(text)
      BY <2>4, <2>6, FirstType DEF First, Kept
    <3> HIDE DEF m
    <3>2. ASSUME NEW i \in m + 1 .. Len(text'), text'[i].kind = "body"
          PROVE  \E j \in m + 1 .. i - 1 : text'[j].kind = "blank"
      <4>1. CASE i <= Len(text)
        <5>1. i \in 1 .. Len(text) /\ i \in m + 1 .. Len(text)
          BY <2>1, <3>1, <3>2, <4>1
        <5>2. PICK j \in m + 1 .. i - 1 : text[j].kind = "blank"
          BY <2>3, <2>6, <3>2, <5>1 DEF BodiesAreApart, m
        <5>3. j \in 1 .. Len(text)
          BY <3>1, <5>1
        <5> QED BY <2>3, <5>2, <5>3
      <4>2. CASE i > Len(text)
        <5> DEFINE k == i - Len(text) + Skip
        <5>1. k \in Skip + 1 .. n /\ i = Len(text) + k - Skip
          BY <2>1, <3>1, <3>2, <4>2
        <5> HIDE DEF k
        <5>2. k \in DOMAIN d.lines /\ d.lines[k].kind = "body"
          BY <2>1, <2>2, <3>2, <5>1, DatagramType, LenProperties
        <5>3. PICK j \in 2 .. k - 1 : d.lines[j].kind = "blank"
          BY <5>2, DatagramsAssumption
        <5> HIDE DEF n
        <5>4. /\ j \in Skip + 1 .. n
              /\ Len(text) + j - Skip \in m + 1 .. i - 1
          BY <2>1, <3>1, <5>1
        <5> QED BY <2>2, <5>3, <5>4
      <4> QED BY <2>1, <3>1, <4>1, <4>2
    <3> QED BY <3>1, <3>2 DEF BodiesAreApart, m
  <2> QED BY <2>5, <2>6
<1>2. CASE UNCHANGED <<window, text>>
  BY <1>2 DEF BodiesAreApart, First
<1>3. CASE NextWindow
  BY <1>3 DEF NextWindow, BodiesAreApart
<1> QED BY <1>1, <1>2, <1>3 DEF PNext, ParseStep, Parse, HeaderLine, HeaderEnds,
           HeaderCut, BodyLine, BodyEnds, pvars

LEMMA BodyReadStep ==
  PInv /\ BodiesAreApart /\ BodyRead /\ [PNext]_pvars => BodyRead'
<1> SUFFICES ASSUME PTypeOK, OpenIsText, Kept, Read, BodiesAreApart, BodyRead,
                    [PNext]_pvars
             PROVE  BodyRead'
  BY DEF PInv
<1>1. ASSUME NEW d \in Datagrams, Receive(d) PROVE BodyRead'
  BY <1>1 DEF Receive, BodyRead
<1>2. CASE NextWindow
  BY <1>2 DEF NextWindow, BodyRead, Nothing, Field, BodyField
<1>3. CASE Parse \/ HeaderCut
  BY <1>3 DEF Parse, HeaderCut, BodyRead
<1>4. CASE HeaderLine
  <2>1. text[pos] \in TextLine /\ seen \in [Field -> Text]
    BY <1>4, TerminatedType, ElementOfSeq, LenProperties DEF PTypeOK, HeaderLine
  <2>2. \A f \in BodyField : seen'[f] = seen[f]
    BY <1>4, <2>1, TextLineType
       DEF HeaderLine, Reads, Override, Field, HeaderField, BodyField
  <2> QED BY <1>4, <2>2 DEF HeaderLine, BodyRead
<1>5. CASE HeaderEnds
  <2>1. \A f \in BodyField : seen'[f] = ""
    BY <1>5 DEF HeaderEnds, BodyRead
  <2>2. ASSUME NEW n \in Nat, window # << >>, HeaderLength(First, n)
        PROVE  pos' = n + 2
    <3>1. pos \in Nat \ {0} /\ pos <= n + 1
      BY <1>5, <2>2, LenProperties DEF HeaderEnds, Read, PTypeOK
    <3>2. pos = n + 1
      BY <1>5, <2>2, <3>1, HeaderIsTerminated DEF HeaderEnds
    <3> QED BY <1>5, <3>2 DEF HeaderEnds
  <2>3. UNCHANGED window /\ phase' \in {"body", "done"}
    BY <1>5 DEF HeaderEnds
  <2>4. ASSUME NEW n \in Nat, window # << >>, HeaderLength(First, n)
        PROVE  n + 2 <= pos' /\ \A j \in n + 2 .. pos' - 1 : text'[j].kind # "blank"
    BY <2>2, <2>4
  <2>5. \A f \in BodyField : OfFirst(f, seen'[f])
    BY <2>1 DEF OfFirst
  <2> QED BY <2>1, <2>3, <2>4, <2>5 DEF BodyRead, First, FirstLine, OfFirst
<1>6. CASE BodyLine
  <2>1. /\ pos \in Nat \ {0} /\ pos <= Len(text) /\ Len(text) \in Nat
        /\ text[pos] \in TextLine /\ seen \in [Field -> Text]
        /\ text[pos].kind # "blank" /\ pos' = pos + 1
    BY <1>6, TerminatedType, ElementOfSeq, LenProperties DEF PTypeOK, BodyLine
  <2>2. UNCHANGED <<window, text, phase>> /\ phase = "body"
    BY <1>6 DEF BodyLine
  <2>3. ASSUME NEW n \in Nat, window # << >>, HeaderLength(First, n)
        PROVE  /\ n + 2 <= pos' /\ \A j \in n + 2 .. pos' - 1 : text'[j].kind # "blank"
               /\ \A f \in BodyField : OfFirst(f, seen'[f])
    <3>1. n + 2 <= pos /\ \A j \in n + 2 .. pos - 1 : text[j].kind # "blank"
      BY <2>2, <2>3 DEF BodyRead
    <3>2. n + 2 <= pos' /\ \A j \in n + 2 .. pos' - 1 : text'[j].kind # "blank"
      BY <2>1, <2>2, <3>1
    <3>3. ASSUME NEW f \in BodyField PROVE OfFirst(f, seen'[f])
      <4>1. OfFirst(f, seen[f])
        BY <2>2, <2>3 DEF BodyRead
      <4>2. CASE text[pos].kind = "body" /\ f \in DOMAIN text[pos].sets
        <5>1. seen'[f] = text[pos].sets[f]
          BY <1>6, <2>1, <4>2 DEF BodyLine, Override, Field
        <5>2. pos <= Len(First.lines)
          <6> SUFFICES ASSUME ~(pos <= Len(First.lines)) PROVE FALSE
            OBVIOUS
          <6>1. /\ Len(First.lines) \in Nat /\ n + 1 <= Len(First.lines)
                /\ pos \in Len(First.lines) + 1 .. Len(text)
            BY <2>1, <2>3, FirstType, HeaderIsTerminated
          <6>2. PICK j \in Len(First.lines) + 1 .. pos - 1 : text[j].kind = "blank"
            BY <2>3, <4>2, <6>1 DEF BodiesAreApart
          <6> QED BY <3>1, <6>1, <6>2
        <5>3. pos \in DOMAIN First.lines /\ text[pos] = FirstLine(pos)
          BY <2>1, <2>3, <5>2, FirstType DEF Kept
        <5>4. First.lines[pos].kind = "body" /\ f \in DOMAIN First.lines[pos].sets
          BY <4>2, <5>3, JoinedKeeps DEF FirstLine
        <5> QED BY <5>1, <5>3, <5>4 DEF OfFirst
      <4>3. CASE ~(text[pos].kind = "body" /\ f \in DOMAIN text[pos].sets)
        <5>1. seen'[f] = seen[f]
          BY <1>6, <2>1, <4>3 DEF BodyLine, Override, Field
        <5> QED BY <4>1, <5>1
      <4> QED BY <4>2, <4>3
    <3> QED BY <3>2, <3>3
  <2> QED BY <2>2, <2>3 DEF BodyRead, First, FirstLine, OfFirst
<1>7. CASE BodyEnds
  <2>1. /\ window' = window /\ text' = text /\ seen' = seen
        /\ phase = "body" /\ phase' = "done"
    BY <1>7 DEF BodyEnds
  <2>2. ASSUME NEW n \in Nat, window # << >>, HeaderLength(First, n), NEW f \in BodyField
        PROVE  OfFirst(f, seen'[f])
    BY <2>1, <2>2 DEF BodyRead
  <2> QED BY <2>1, <2>2 DEF BodyRead, First, FirstLine, OfFirst
<1>8. CASE UNCHANGED pvars
  BY <1>8 DEF pvars, BodyRead, First, FirstLine, OfFirst
<1> QED BY <1>1, <1>2, <1>3, <1>4, <1>5, <1>6, <1>7, <1>8 DEF PNext, ParseStep

\* No line of another message sets a field of the body, although the parser
\* does not know where the body ends; only the first line of the next datagram
\* enters it, behind an open last line.
THEOREM BodiesAreOfFirst == PSpec => []BodyIsOfFirst
<1> DEFINE BInv == PInv /\ BodiesAreApart /\ BodyRead
<1>1. PInit => BInv
  BY PInvInit DEF PInit, BodiesAreApart, BodyRead, Nothing, Field, BodyField
<1>2. BInv /\ [PNext]_pvars => BInv'
  BY PInvStep, ApartStep, BodyReadStep DEF PInv
<1>3. BInv => BodyIsOfFirst
  <2> SUFFICES ASSUME BInv, phase = "done", Complete(First), NEW f \in BodyField,
                      seen[f] # ""
               PROVE  \E i \in DOMAIN First.lines :
                        /\ First.lines[i].kind = "body"
                        /\ f \in DOMAIN First.lines[i].sets
                        /\ seen[f] = IF RunsOn(i) /\ f \in {"media", "cip"}
                                     THEN Mixed ELSE First.lines[i].sets[f]
    BY DEF BodyIsOfFirst, First
  <2>1. window # << >>
    BY DEF PInv, Read
  <2>2. PICK n \in Nat : HeaderLength(First, n)
    BY <2>1, HeaderHasLength DEF PInv
  <2>3. PICK i \in DOMAIN First.lines :
               /\ First.lines[i].kind = "body" /\ f \in DOMAIN First.lines[i].sets
               /\ FirstLine(i).sets[f] = seen[f]
    BY <2>1, <2>2 DEF BodyRead, OfFirst
  <2>4. f \in ToEnd <=> f \in {"media", "cip"}
    BY DEF BodyField, ToEnd
  <2>5. CASE RunsOn(i)
    <3>1. FirstLine(i) = Joined(First.lines[i], window[2].lines[1])
      BY <2>5 DEF RunsOn, FirstLine, First
    <3>2. window[2].lines[1].kind # "blank"
      BY <2>5 DEF RunsOn
    <3>3. FirstLine(i).sets[f] = IF f \in ToEnd THEN Mixed ELSE First.lines[i].sets[f]
      <4>1. f \in DOMAIN First.lines[i].sets
        BY <2>3
      <4>2. Joined(First.lines[i], window[2].lines[1]).sets[f] =
              IF f \in ToEnd THEN Mixed ELSE First.lines[i].sets[f]
        BY <3>2, <4>1, JoinedSets, Zenon
      <4> QED BY <3>1, <4>2, Zenon
    <3> QED BY <2>3, <2>4, <2>5, <3>3
  <2>6. CASE ~RunsOn(i)
    <3>1. FirstLine(i) = First.lines[i]
      BY <2>6 DEF RunsOn, FirstLine, First, Joined
    <3> QED BY <2>3, <2>6, <3>1
  <2> QED BY <2>3, <2>5, <2>6
<1> QED BY <1>1, <1>2, <1>3, PTL DEF PSpec

=============================================================================
