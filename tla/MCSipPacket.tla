---------------------------- MODULE MCSipPacket ----------------------------
(***************************************************************************)
(* Messages of a gateway: requests with a body that ends with CRLF and two *)
(* that do not, replies, a challenge, two keep-alives of blank lines, and  *)
(* two messages cut within their header.                                   *)
(***************************************************************************)
EXTENDS SipPacket, TLC

L(kind, sets) == [kind |-> kind, sets |-> sets]
Blank == L("blank", << >>)
Allow == L("start", "method" :> "UNKNOWN")
Via(v) == L("header", "via" :> v)
M(lines, open) == [lines |-> lines, open |-> open]

MCDatagrams == {
  M(<<L("start", "method" :> "INVITE"), Via("v1"), Allow, Blank,
      L("body", "cip" :> "c1"), L("body", "media" :> "m1")>>, FALSE),
  M(<<L("start", "method" :> "INFO"), Via("v2"),
      L("header", "contentType" :> "APPLICATION_DTMF_RELAY"), Blank,
      L("body", "signal" :> "5"), L("body", "duration" :> "160")>>, TRUE),
  M(<<L("start", "method" :> "INVITE"), Via("v7"), Blank,
      L("body", "media" :> "m2"), L("body", "cip" :> "c2")>>, TRUE),
  M(<<L("header", "status" :> "OK_200"), Via("v3"),
      L("header", "to" :> "t1" @@ "toTag" :> "g1"), Blank>>, FALSE),
  M(<<L("header", "status" :> "UNAUTHORIZED_401"), Via("v4"), Via("v5"),
      L("header", "realm" :> "r1" @@ "nonce" :> "n1"), Blank>>, FALSE),
  M(<<Blank, Blank>>, FALSE),
  M(<<Blank>>, FALSE),
  M(<<L("start", "method" :> "INVITE"), Via("v6")>>, TRUE),
  M(<<L("header", "status" :> "UNAUTHORIZED_401"),
      L("header", "realm" :> "r1")>>, FALSE) }

MCLine == UNION {{d.lines[i] : i \in DOMAIN d.lines} : d \in MCDatagrams}
MCText == UNION {{l.sets[f] : f \in DOMAIN l.sets} : l \in MCLine}
            \cup {"", "UNKNOWN", Mixed}
=============================================================================
