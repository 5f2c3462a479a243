---------------------------- MODULE MCSipDigest ----------------------------
(***************************************************************************)
(* Digests of the beginnings of a text of 128 digits, and responses for    *)
(* three sets of credentials, with the values other implementations of MD5 *)
(* give.                                                                   *)
(***************************************************************************)
EXTENDS SipDigest, TLC

MCText == [i \in 1 .. 128 |-> 48 + (i % 10)]

MD5 ==
  0 :> << 212, 29, 140, 217, 143, 0, 178, 4,
     233, 128, 9, 152, 236, 248, 66, 126 >> @@
  55 :> << 201, 204, 241, 104, 145, 74, 27, 207,
     195, 34, 159, 25, 72, 230, 125, 160 >> @@
  56 :> << 73, 241, 147, 173, 206, 23, 132, 144,
     227, 77, 27, 58, 78, 192, 6, 76 >> @@
  64 :> << 235, 108, 65, 121, 192, 167, 200, 44,
     194, 130, 140, 30, 99, 56, 225, 101 >> @@
  110 :> << 164, 179, 147, 53, 33, 163, 129, 17,
     235, 89, 125, 216, 219, 196, 118, 20 >> @@
  111 :> << 104, 87, 180, 123, 12, 237, 52, 228,
     249, 95, 163, 250, 63, 137, 167, 147 >> @@
  112 :> << 114, 121, 208, 233, 124, 139, 79, 22,
     221, 125, 59, 60, 177, 173, 235, 144 >> @@
  119 :> << 98, 97, 0, 83, 17, 128, 151, 87,
     144, 110, 4, 192, 214, 112, 73, 45 >> @@
  120 :> << 29, 69, 59, 150, 212, 141, 94, 12,
     236, 74, 32, 167, 31, 236, 170, 129 >> @@
  128 :> << 169, 253, 194, 219, 193, 60, 97, 182,
     140, 126, 191, 81, 54, 245, 237, 38 >>

\* The example of RFC 2069.
Example == [
  user |-> << 77, 117, 102, 97, 115, 97 >>,
  realm |-> << 116, 101, 115, 116, 114, 101, 97, 108, 109, 64, 104, 111, 115,
    116, 46, 99, 111, 109 >>,
  pwd |-> << 67, 105, 114, 99, 108, 101, 79, 102, 76, 105, 102, 101 >>,
  method |-> << 71, 69, 84 >>,
  uri |-> << 47, 100, 105, 114, 47, 105, 110, 100, 101, 120, 46, 104, 116,
    109, 108 >>,
  nonce |-> << 100, 99, 100, 57, 56, 98, 55, 49, 48, 50, 100, 100, 50, 102,
    48, 101, 56, 98, 49, 49, 100, 48, 102, 54, 48, 48, 98, 102, 98, 48, 99,
    48, 57, 51 >> ]
\* 1949323746fe6a43ef61f9606e7febea
ExampleResponse == << 49, 57, 52, 57, 51, 50, 51, 55, 52, 54, 102, 101, 54,
  97, 52, 51, 101, 102, 54, 49, 102, 57, 54, 48, 54, 101, 55, 102, 101, 98,
  101, 97 >>

\* A client that registers.
Registering == [
  user |-> << 116, 101, 108 >>,
  realm |-> << 102, 114, 105, 116, 122, 46, 98, 111, 120 >>,
  pwd |-> << 112, 52, 115, 115 >>,
  method |-> << 82, 69, 71, 73, 83, 84, 69, 82 >>,
  uri |-> << 115, 105, 112, 58, 49, 57, 50, 46, 49, 54, 56, 46, 49, 55, 56,
    46, 49 >>,
  nonce |-> << 51, 69, 51, 48, 67, 48, 53, 52, 56, 52, 65, 69, 53, 65, 52, 53
    >> ]
\* 0b840829f7af3ef86af76b1f3183ad39
RegisteringResponse == << 48, 98, 56, 52, 48, 56, 50, 57, 102, 55, 97, 102,
  51, 101, 102, 56, 54, 97, 102, 55, 54, 98, 49, 102, 51, 49, 56, 51, 97, 100,
  51, 57 >>

\* A long password, and no challenge seen: realm and nonce are empty.
Unchallenged == [
  user |-> << 116, 101, 108 >>,
  realm |-> << >>,
  pwd |-> << 97, 32, 112, 97, 115, 115, 119, 111, 114, 100, 32, 116, 104, 97,
    116, 32, 105, 115, 32, 108, 111, 110, 103, 32, 101, 110, 111, 117, 103,
    104, 32, 116, 111, 32, 102, 105, 108, 108, 32, 97, 32, 98, 108, 111, 99,
    107, 32, 111, 110, 32, 105, 116, 115, 32, 111, 119, 110 >>,
  method |-> << 73, 78, 86, 73, 84, 69 >>,
  uri |-> << 115, 105, 112, 58, 42, 42, 57, 64, 49, 57, 50, 46, 49, 54, 56,
    46, 49, 55, 56, 46, 49 >>,
  nonce |-> << >> ]
\* 69d9eb9e302f25f5d6409ff7f96a45c7
UnchallengedResponse == << 54, 57, 100, 57, 101, 98, 57, 101, 51, 48, 50, 102,
  50, 53, 102, 53, 100, 54, 52, 48, 57, 102, 102, 55, 102, 57, 54, 97, 52, 53,
  99, 55 >>

MCCredentials == {Example, Registering, Unchallenged}
Expected == Example :> ExampleResponse @@ Registering :> RegisteringResponse
            @@ Unchallenged :> UnchallengedResponse

\* The digest of a text is its MD5, also at the lengths where the padding needs
\* a block of its own.
DigestIsMd5 ==
  phase = "done" => Digest(ctx) = MD5[Len(message)]

\* The response to a challenge is the one the gateway computes: MD5 in hex of
\* the MD5s in hex of user, realm and password and of method and URI, around
\* the nonce (lines 739-765), whatever the context was used for before.
ResponseIsExpected ==
  response # << >> => response = Expected[used]

=============================================================================
