----------------------------- MODULE SipPacket -----------------------------
(***************************************************************************)
(* From datagrams to a packet: rx() appends what arrives while a receive   *)
(* window is open to one text, and SipPacket::parse() reads that text line *)
(* by line when the window is over.  What it does not reach is lost.       *)
(*                                                                         *)
(* A line is what parse() makes of it: the fields it sets, if it stands in *)
(* the header or the body.  Only a line that ends with CRLF is seen; the   *)
(* open last line of a datagram runs into the first line of the next one,  *)
(* and its field with it.  A datagram is not cut within a field's name.    *)
(* One step is one iteration of a loop of parse_header() or parse_body().  *)
(***************************************************************************)
EXTENDS SipMessages, Naturals, Sequences

CONSTANTS Line,         \* the lines the gateway may write
          Datagrams,    \* the datagrams it may send
          Text,         \* the values a field can take
          Mixed,        \* the value of a field that runs on into another message
          MaxDatagrams  \* bound: the most datagrams within one window

HeaderField == { "status", "method", "realm", "nonce", "contact", "toTag", "to",
                 "from", "via", "cseq", "callId", "contentType" }
BodyField == {"signal", "duration", "media", "cip"}
Field == HeaderField \cup BodyField

\* Fields that take the rest of their line; the others stop before it ends.
ToEnd == {"toTag", "to", "from", "via", "cseq", "callId", "media", "cip"}

(***************************************************************************)
(* "header" is a line with a name parse_header() knows, "SIP/2.0 " being   *)
(* one, and "start" any other: the request line, if it is the first.       *)
(* "sets" gives each field parse() reads from the line its value.          *)
(***************************************************************************)
ASSUME LineAssumption ==
  \A l \in Line : /\ l.kind \in {"header", "start", "body", "blank"}
                  /\ DOMAIN l.sets \subseteq IF l.kind = "body" THEN BodyField
                                            ELSE HeaderField
                  /\ \A f \in DOMAIN l.sets : l.sets[f] \in Text

\* open: the last line does not end with CRLF, and so is not a blank one.
\* A body stands behind a header.
ASSUME DatagramsAssumption ==
  /\ Datagrams \subseteq [lines : Seq(Line) \ {<< >>}, open : BOOLEAN]
  /\ \A d \in Datagrams :
       /\ d.open => d.lines[Len(d.lines)].kind # "blank"
       /\ \A i \in DOMAIN d.lines :
            d.lines[i].kind = "body" =>
              \E j \in 2 .. i - 1 : d.lines[j].kind = "blank"
ASSUME TextAssumption == {"", "UNKNOWN"} \subseteq Text
ASSUME MixedAssumption ==
  /\ Mixed \in Text /\ Mixed # ""
  /\ \A l \in Line : \A f \in DOMAIN l.sets : l.sets[f] # Mixed

VARIABLES
  window, \* the datagrams received while the window was open
  text,   \* m_currentReceiveMessage, as lines
  phase,  \* "window", or parse() in its "header" or "body", or its result
  pos,    \* start_position, the line parse() is at
  seen    \* the fields of the SipPacket

pvars == <<window, text, phase, pos, seen>>

Nothing ==
  [f \in Field |-> IF f \in {"status", "method", "contentType"}
                   THEN "UNKNOWN" ELSE ""]

PInit == /\ window = << >> /\ text = << >>
         /\ phase = "window" /\ pos = 1 /\ seen = Nothing

Open == window # << >> /\ window[Len(window)].open

\* The lines strstr() finds the end of.
Terminated == IF Open THEN Len(text) - 1 ELSE Len(text)

Override(line) ==
  [f \in Field |-> IF f \in DOMAIN line.sets THEN line.sets[f] ELSE seen[f]]

\* The open line l becomes one with the line k that arrives behind it: a field
\* that takes the rest of its line takes all of k.  A blank k but ends l.
Joined(l, k) ==
  IF k.kind = "blank" THEN l
  ELSE [kind |-> l.kind,
        sets |-> [f \in DOMAIN l.sets |-> IF f \in ToEnd THEN Mixed ELSE l.sets[f]]]

-----------------------------------------------------------------------------
Receive(d) ==
  /\ phase = "window" /\ Len(window) < MaxDatagrams
  /\ window' = Append(window, d)
  /\ text' = IF Open THEN [text EXCEPT ![Len(text)] = Joined(@, d.lines[1])]
                          \o Tail(d.lines)
                     ELSE text \o d.lines
  /\ UNCHANGED <<phase, pos, seen>>

\* The window is over; an empty one is not parsed.
Parse ==
  /\ phase = "window" /\ text # << >>
  /\ phase' = "header"
  /\ UNCHANGED <<window, text, pos, seen>>

\* A deviation used to test FirstMessageDecides: every line that is not a
\* known header is taken for a request line.
ReadsAnyStart(line, n) == line.kind \in {"header", "start"}

Reads(line, n) == \/ line.kind = "header"
                  \/ line.kind = "start" /\ n = 1

\* A deviation used to test ParseEnds: a line without a meaning is not left.
HeaderLineStays ==
  /\ phase = "header" /\ pos <= Terminated /\ text[pos].kind # "blank"
  /\ seen' = IF Reads(text[pos], pos) THEN Override(text[pos]) ELSE seen
  /\ pos' = IF Reads(text[pos], pos) THEN pos + 1 ELSE pos
  /\ UNCHANGED <<window, text, phase>>

HeaderLine ==
  /\ phase = "header" /\ pos <= Terminated /\ text[pos].kind # "blank"
  /\ seen' = IF Reads(text[pos], pos) THEN Override(text[pos]) ELSE seen
  /\ pos' = pos + 1
  /\ UNCHANGED <<window, text, phase>>

\* A deviation used to test PTypeOK: the line ending is skipped twice.
HeaderEndsSkips ==
  /\ phase = "header" /\ pos <= Terminated /\ text[pos].kind = "blank"
  /\ phase' = IF pos = Len(text) THEN "done" ELSE "body"
  /\ pos' = pos + 2
  /\ UNCHANGED <<window, text, seen>>

\* The blank line; what is behind it is the body.
HeaderEnds ==
  /\ phase = "header" /\ pos <= Terminated /\ text[pos].kind = "blank"
  /\ phase' = IF pos = Len(text) THEN "done" ELSE "body"
  /\ pos' = pos + 1
  /\ UNCHANGED <<window, text, seen>>

\* A deviation used to test CutHeaderIsRefused: a header without its blank
\* line is good enough.
HeaderCutAccepted ==
  /\ phase = "header" /\ pos > Terminated
  /\ phase' = "done"
  /\ UNCHANGED <<window, text, pos, seen>>

HeaderCut ==
  /\ phase = "header" /\ pos > Terminated
  /\ phase' = "failed"
  /\ UNCHANGED <<window, text, pos, seen>>

\* A deviation used to test SeenIsPacket: header lines are read in the body.
BodyLineReadsAll ==
  /\ phase = "body" /\ pos <= Terminated /\ text[pos].kind # "blank"
  /\ seen' = Override(text[pos])
  /\ pos' = pos + 1
  /\ UNCHANGED <<window, text, phase>>

BodyLine ==
  /\ phase = "body" /\ pos <= Terminated /\ text[pos].kind # "blank"
  /\ seen' = IF text[pos].kind = "body" THEN Override(text[pos]) ELSE seen
  /\ pos' = pos + 1
  /\ UNCHANGED <<window, text, phase>>

\* A deviation used to test BodyIsOfFirst: a blank line is one of the body.
BodyEndsLate ==
  /\ phase = "body"
  /\ pos <= Terminated => text[pos].kind = "blank"
  /\ phase' = IF pos > Terminated THEN "done" ELSE phase
  /\ pos' = IF pos > Terminated THEN pos ELSE pos + 1
  /\ UNCHANGED <<window, text, seen>>

\* parse() does not ask whether parse_body() liked what it found.
BodyEnds ==
  /\ phase = "body"
  /\ pos <= Terminated => text[pos].kind = "blank"
  /\ phase' = "done"
  /\ UNCHANGED <<window, text, pos, seen>>

\* rx() acts on the packet, or drops the text; the packet goes, and a new
\* window starts empty.
NextWindow ==
  /\ phase \in {"done", "failed"}
  /\ window' = << >> /\ text' = << >> /\ phase' = "window"
  /\ pos' = 1 /\ seen' = Nothing

ParseStep == HeaderLine \/ HeaderEnds \/ HeaderCut \/ BodyLine \/ BodyEnds

PNext == (\E d \in Datagrams : Receive(d)) \/ Parse \/ ParseStep \/ NextWindow

PSpec == PInit /\ [][PNext]_pvars

\* parse() is a loop that nothing interrupts.
PFairSpec == PSpec /\ WF_pvars(ParseStep)

-----------------------------------------------------------------------------
(***************************************************************************)
(* What a datagram says, without the loop.                                 *)
(***************************************************************************)

\* Its header has n lines: the next one is its first blank line.
HeaderLength(d, n) ==
  /\ n + 1 \in DOMAIN d.lines /\ d.lines[n + 1].kind = "blank"
  /\ \A i \in 1 .. n : d.lines[i].kind # "blank"
  /\ n + 1 = Len(d.lines) => ~d.open
Complete(d) == \E n \in 0 .. Len(d.lines) : HeaderLength(d, n)

\* A known header, or the request line, names field f.
SetsField(lines, i, f) ==
  (lines[i].kind = "header" \/ i = 1) /\ f \in DOMAIN lines[i].sets

\* v is what the last of the first n lines that sets f makes of it.
Tells(lines, n, f, v) ==
  \/ \E i \in 1 .. n : /\ SetsField(lines, i, f) /\ lines[i].sets[f] = v
                       /\ \A j \in i + 1 .. n : ~SetsField(lines, j, f)
  \/ v = Nothing[f] /\ \A j \in 1 .. n : ~SetsField(lines, j, f)

\* What rx() looks at.
AsPacket(status, method, nonce) ==
  [status |-> status, method |-> method,
   nonce |-> IF status \in Challenge THEN nonce ELSE ""]

\* Every message of the gateway, by itself, is one that SipClient knows.
ASSUME MessagesAssumption ==
  \A d \in Datagrams, status, method, nonce \in Text : \A n \in 0 .. Len(d.lines) :
    /\ HeaderLength(d, n)
    /\ Tells(d.lines, n, "status", status)
    /\ Tells(d.lines, n, "method", method)
    /\ Tells(d.lines, n, "nonce", nonce)
    => AsPacket(status, method, nonce) \in Packet

-----------------------------------------------------------------------------
(***************************************************************************)
(* Properties.                                                             *)
(***************************************************************************)

\* The parser stays within its text, and every field has a value.
TextLine == Line \cup {Joined(l, k) : l, k \in Line}
PTypeOK ==
  /\ window \in Seq(Datagrams) /\ text \in Seq(TextLine)
  /\ phase \in {"window", "header", "body", "done", "failed"}
  /\ pos \in 1 .. Len(text) + 1
  /\ seen \in [Field -> Text]

\* Of several messages within one window, each with its header complete or
\* not, the packet rx() acts on is the first, unmixed: every header field is
\* what that datagram alone says of it, so that the 200 the client answers
\* with (send_sip_reply_header) names one request, and a digest one challenge.
FirstMessageDecides ==
  phase = "done" =>
    \A n \in 0 .. Len(window[1].lines) :
      HeaderLength(window[1], n) =>
        \A f \in HeaderField : Tells(window[1].lines, n, f, seen[f])

\* The last line of the first datagram has no end, and what arrives next does
\* not begin with one either.
RunsOn(i) == /\ window[1].open /\ i = Len(window[1].lines)
             /\ Len(window) > 1 /\ window[2].lines[1].kind # "blank"

\* No field of the body is set by a line of another message, although the end
\* of a body is not known from its Content-Length: the next header is read as
\* body, but ends at its blank line.  Yet the media or the address to talk to
\* takes in the next datagram's first line if the body's own last line is open.
BodyIsOfFirst ==
  phase = "done" /\ Complete(window[1]) =>
    \A f \in BodyField :
      seen[f] # "" => \E i \in DOMAIN window[1].lines :
                        LET line == window[1].lines[i]
                        IN  /\ line.kind = "body" /\ f \in DOMAIN line.sets
                            /\ seen[f] = IF RunsOn(i) /\ f \in {"media", "cip"}
                                         THEN Mixed ELSE line.sets[f]

\* What the user agent's model takes as its input is what parse() can produce.
SeenIsPacket ==
  phase = "done" /\ Complete(window[1]) =>
    AsPacket(seen["status"], seen["method"], seen["nonce"]) \in Packet

\* Line j of the window's datagram i is an empty line of the text: a blank one
\* that does not merely end the open line before it.
EndsHeader(i, j) == /\ window[i].lines[j].kind = "blank"
                    /\ j = 1 => i = 1 \/ ~window[i - 1].open

\* A window is acted on if and only if some datagram of it brought an empty line
\* with it: headers that were cut are refused, but one is taken with the end of
\* whatever message arrives behind it, or with a keep-alive.
CutHeaderIsRefused ==
  phase \in {"done", "failed"} =>
    (phase = "done" <=>
       \E i \in DOMAIN window : \E j \in DOMAIN window[i].lines : EndsHeader(i, j))

\* Whatever a window collected, parse() comes to an end.
ParseEnds == phase = "header" ~> phase \in {"done", "failed"}

=============================================================================
