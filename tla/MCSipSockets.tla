---------------------------- MODULE MCSipSockets ----------------------------
(***************************************************************************)
(* The pieces of the messages TLC sends: every piece of every message is a *)
(* short word over the alphabet, so all that are written are collected.    *)
(***************************************************************************)
EXTENDS SipSockets

MCWords(Letter, n) == UNION {[1 .. k -> Letter] : k \in 0 .. n}
MCPieces ==
  MCWords({"h"}, 4) \cup MCWords({"b"}, 6) \cup MCWords({":", "=", "|"}, 1)
    \cup MCWords({Digit[i] : i \in DOMAIN Digit} \cup {"-"}, 3)
=============================================================================
