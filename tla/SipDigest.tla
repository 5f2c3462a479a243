----------------------------- MODULE SipDigest -----------------------------
(***************************************************************************)
(* compute_auth_response() of sip_client.h with the MD5 of md5_l.cpp: the  *)
(* 64 steps of mbedtls_l_md5_process() on 32-bit words, which are pairs of *)
(* 16-bit halves here, and the three digests a response is made of, all    *)
(* with the one context the client has.                                    *)
(***************************************************************************)
EXTENDS Md5Context, Bitwise
LOCAL INSTANCE SequencesExt

CONSTANTS Credentials \* what a response is computed from

ASSUME CredentialsAssumption ==
  \A c \in Credentials : \A f \in {"user", "realm", "pwd", "method", "uri", "nonce"} :
    c[f] \in Seq(Byte)

VARIABLES response, \* m_response
          used      \* history: the credentials it was computed from

dvars == <<cvars, response, used>>

-----------------------------------------------------------------------------
(***************************************************************************)
(* Words.                                                                  *)
(***************************************************************************)
Half == 65536
Plus(x, y) == << (x[1] + y[1] + (x[2] + y[2]) \div Half) % Half, (x[2] + y[2]) % Half >>
AndW(x, y) == << x[1] & y[1], x[2] & y[2] >>
OrW(x, y) == << x[1] | y[1], x[2] | y[2] >>
XorW(x, y) == << x[1] ^^ y[1], x[2] ^^ y[2] >>
NotW(x) == << Half - 1 - x[1], Half - 1 - x[2] >>

Rotated(x, n) ==
  LET y == IF n < 16 THEN x ELSE << x[2], x[1] >>
      up == 2 ^ (n % 16)
      down == 2 ^ (16 - (n % 16))
  IN  << ((y[1] * up) % Half) + (y[2] \div down), ((y[2] * up) % Half) + (y[1] \div down) >>

\* GET_UINT32_LE and PUT_UINT32_LE.
Word(block, k) == << block[4 * k + 4] * 256 + block[4 * k + 3],
                     block[4 * k + 2] * 256 + block[4 * k + 1] >>
Bytes(x) == << x[2] % 256, x[2] \div 256, x[1] % 256, x[1] \div 256 >>

-----------------------------------------------------------------------------
(***************************************************************************)
(* mbedtls_l_md5_process(): four rounds of sixteen steps.                  *)
(***************************************************************************)
F(round, x, y, z) ==
  CASE round = 0 -> XorW(z, AndW(x, XorW(y, z)))
    [] round = 1 -> XorW(y, AndW(z, XorW(x, y)))
    [] round = 2 -> XorW(XorW(x, y), z)
    [] round = 3 -> XorW(y, OrW(x, NotW(z)))

\* A deviation used to test DigestIsMd5: one shift count is wrong.
ShiftOff == << <<7, 12, 17, 22>>, <<5, 9, 14, 21>>, <<4, 11, 16, 23>>, <<6, 10, 15, 21>> >>

Shift == << <<7, 12, 17, 22>>, <<5, 9, 14, 20>>, <<4, 11, 16, 23>>, <<6, 10, 15, 21>> >>

\* Which word of the block a step takes.
WordOf(round, i) == CASE round = 0 -> i
                      [] round = 1 -> (1 + 5 * i) % 16
                      [] round = 2 -> (5 + 3 * i) % 16
                      [] round = 3 -> (7 * i) % 16

Sine == <<
  <<\HD76A, \HA478>>, <<\HE8C7, \HB756>>, <<\H2420, \H70DB>>, <<\HC1BD, \HCEEE>>,
  <<\HF57C, \H0FAF>>, <<\H4787, \HC62A>>, <<\HA830, \H4613>>, <<\HFD46, \H9501>>,
  <<\H6980, \H98D8>>, <<\H8B44, \HF7AF>>, <<\HFFFF, \H5BB1>>, <<\H895C, \HD7BE>>,
  <<\H6B90, \H1122>>, <<\HFD98, \H7193>>, <<\HA679, \H438E>>, <<\H49B4, \H0821>>,
  <<\HF61E, \H2562>>, <<\HC040, \HB340>>, <<\H265E, \H5A51>>, <<\HE9B6, \HC7AA>>,
  <<\HD62F, \H105D>>, <<\H0244, \H1453>>, <<\HD8A1, \HE681>>, <<\HE7D3, \HFBC8>>,
  <<\H21E1, \HCDE6>>, <<\HC337, \H07D6>>, <<\HF4D5, \H0D87>>, <<\H455A, \H14ED>>,
  <<\HA9E3, \HE905>>, <<\HFCEF, \HA3F8>>, <<\H676F, \H02D9>>, <<\H8D2A, \H4C8A>>,
  <<\HFFFA, \H3942>>, <<\H8771, \HF681>>, <<\H6D9D, \H6122>>, <<\HFDE5, \H380C>>,
  <<\HA4BE, \HEA44>>, <<\H4BDE, \HCFA9>>, <<\HF6BB, \H4B60>>, <<\HBEBF, \HBC70>>,
  <<\H289B, \H7EC6>>, <<\HEAA1, \H27FA>>, <<\HD4EF, \H3085>>, <<\H0488, \H1D05>>,
  <<\HD9D4, \HD039>>, <<\HE6DB, \H99E5>>, <<\H1FA2, \H7CF8>>, <<\HC4AC, \H5665>>,
  <<\HF429, \H2244>>, <<\H432A, \HFF97>>, <<\HAB94, \H23A7>>, <<\HFC93, \HA039>>,
  <<\H655B, \H59C3>>, <<\H8F0C, \HCC92>>, <<\HFFEF, \HF47D>>, <<\H8584, \H5DD1>>,
  <<\H6FA8, \H7E4F>>, <<\HFE2C, \HE6E0>>, <<\HA301, \H4314>>, <<\H4E08, \H11A1>>,
  <<\HF753, \H7E82>>, <<\HBD3A, \HF235>>, <<\H2AD7, \HD2BB>>, <<\HEB86, \HD391>> >>

InitState == << <<\H6745, \H2301>>, <<\HEFCD, \HAB89>>, <<\H98BA, \HDCFE>>, <<\H1032, \H5476>> >>

\* One P(a, b, c, d, k, s, t), after which the words have changed their places.
Step(block, words, j) ==
  LET round == j \div 16
      i == j % 16
      a == words[1]
      b == words[2]
      c == words[3]
      d == words[4]
      sum == Plus(Plus(a, F(round, b, c, d)),
                  Plus(Word(block, WordOf(round, i)), Sine[j + 1]))
  IN  << d, Plus(Rotated(sum, Shift[round + 1][(i % 4) + 1]), b), b, c >>

Process(state, block) ==
  LET after == FoldLeft(LAMBDA words, j : Step(block, words, j), state,
                        [j \in 1 .. 64 |-> j - 1])
  IN  [w \in 1 .. 4 |-> Plus(state[w], after[w])]

BlocksOf(bytes) == [b \in 1 .. Len(bytes) \div Block |->
                     SubSeq(bytes, Block * (b - 1) + 1, Block * b)]
Digest(c) == LET state == FoldLeft(Process, InitState, BlocksOf(c.hashed))
             IN  FlattenSeq([w \in 1 .. 4 |-> Bytes(state[w])])

-----------------------------------------------------------------------------
(***************************************************************************)
(* compute_auth_response().                                                *)
(***************************************************************************)
Hexit(n) == IF n < 10 THEN 48 + n ELSE 87 + n
Hex(bytes) == FlattenSeq([i \in DOMAIN bytes |->
                << Hexit(bytes[i] \div 16), Hexit(bytes[i] % 16) >>])

Colon == <<58>>

\* A deviation used to test ResponseIsExpected: the digests go into the last
\* one as bytes.
ComputeAuthResponseRaw(c) ==
  LET one == Hashed(ctx, c.user \o Colon \o c.realm \o Colon \o c.pwd)
      two == Hashed(one, c.method \o Colon \o c.uri)
      all == Hashed(two, Digest(one) \o Colon \o c.nonce \o Colon \o Digest(two))
  IN  ctx' = all /\ response' = Hex(Digest(all)) /\ used' = c

ComputeAuthResponse(c) ==
  LET one == Hashed(ctx, c.user \o Colon \o c.realm \o Colon \o c.pwd)
      two == Hashed(one, c.method \o Colon \o c.uri)
      all == Hashed(two, Hex(Digest(one)) \o Colon \o c.nonce \o Colon \o Hex(Digest(two)))
  IN  ctx' = all /\ response' = Hex(Digest(all)) /\ used' = c

DInit == CInit /\ response = << >> /\ used = [user |-> << >>]

\* The digest of the text in pieces stands for whatever the context was used
\* for before.
Respond == /\ phase # "open"
           /\ \E c \in Credentials : ComputeAuthResponse(c)
           /\ message' = << >> /\ phase' = "idle"

DNext == (CNext /\ UNCHANGED <<response, used>>) \/ Respond

DSpec == DInit /\ [][DNext]_dvars

=============================================================================
