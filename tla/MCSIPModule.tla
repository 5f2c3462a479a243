---------------------------- MODULE MCSIPModule ----------------------------
(***************************************************************************)
(* One number for all channels, or the first channel's and another.        *)
(***************************************************************************)
EXTENDS SIPModuleCalls
MCPhoneNumber == [c \in Channels |-> IF c = 0 \/ "n2" \notin Numbers THEN "n1" ELSE "n2"]
=============================================================================
