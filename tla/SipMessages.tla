---------------------------- MODULE SipMessages ----------------------------
(***************************************************************************)
(* What SipPacket::parse() hands to SipClientInt::rx(): the vocabulary the *)
(* parser and the user agent share.                                        *)
(***************************************************************************)
CONSTANT Nonces  \* the challenges (realm and nonce) the gateway issues

ASSUME NoncesAssumption == "" \notin Nonces

Challenge == {"UNAUTHORIZED_401", "PROXY_AUTH_REQ_407"}
Status == { "TRYING_100", "SESSION_PROGRESS_183", "OK_200", "BUSY_HERE_486",
            "REQUEST_CANCELLED_487", "SERVER_ERROR_500", "DECLINE_603",
            "UNKNOWN" } \cup Challenge
AnsweredMethod == {"NOTIFY", "BYE", "INFO", "INVITE"}

(***************************************************************************)
(* What rx() can find at the head of a receive window: a reply, or a       *)
(* request; both fields "UNKNOWN" is a code or a method not told apart.    *)
(* A challenge without a readable nonce leaves "".                         *)
(***************************************************************************)
Packet ==
  [status : Status \ Challenge, method : {"UNKNOWN"}, nonce : {""}]
    \cup [status : Challenge, method : {"UNKNOWN"}, nonce : Nonces \cup {""}]
    \cup [status : {"UNKNOWN"}, method : AnsweredMethod, nonce : {""}]

=============================================================================
