--------------------------- MODULE SIPModuleCalls ---------------------------
(***************************************************************************)
(* The module and its SIP client, seen from the house: the registers of    *)
(* SIPModule.cpp and sip_client.h that make up the call of Call.tla.       *)
(***************************************************************************)
EXTENDS SIPModule

Talking == {"CALL_START", "CALL_IN_PROGRESS"}

Wanted == {c \in Channels : triggered[c]}
Phase == IF client /\ state = "REGISTERED" /\ command = "Dial" THEN "asked"
         ELSE IF client /\ state \in Outgoing THEN "calling"
         ELSE IF client /\ state \in Talking THEN "talking"
         ELSE "none"
Number == IF Phase \in {"asked", "calling"} THEN uri ELSE "nobody"
Timed == since # "zero"
HangupAsked == client /\ command = "Cancel"

House == INSTANCE Call WITH
  wanted <- Wanted, phase <- Phase, number <- Number,
  timed <- Timed, hangup <- HangupAsked

\* Whatever the gateway, the network and the clock do: every call that goes out
\* was triggered, once, for the number it goes to; there is one at a time; and
\* each one has its timer or its hang-up (loop(), lines 162-190, with tx() and
\* rx() of the client).
ImplementsCall == House!CallSpec

=============================================================================
