----------------------------- MODULE Md5Context -----------------------------
(***************************************************************************)
(* The context of md5_l.cpp: a message that arrives in pieces is cut into  *)
(* blocks, the last of them padded.  What was cut is "hashed", the bytes   *)
(* mbedtls_l_md5_process() was given since the start: the four words of    *)
(* the digest's state are a function of them (SipDigest.tla).              *)
(*                                                                         *)
(* The text of a message is shorter than 2^29 bytes, so that its bits are  *)
(* counted in total[0] and total[1] stays 0.  Buffers count from 1 here.   *)
(***************************************************************************)
EXTENDS Integers, Sequences

CONSTANTS Text,    \* the text whose beginnings are digested
          Lengths  \* the lengths of the pieces it comes in

TooLong == 536870912  \* bytes, 2^32 bits

ASSUME TextAssumption == /\ Text \in Seq(0 .. 255) /\ Len(Text) < TooLong
                         /\ Lengths \subseteq Nat

VARIABLES
  ctx,     \* the context: total[0], what was hashed, and the buffer
  message, \* history: the bytes given since the start
  phase    \* "idle", "open" or "done"

cvars == <<ctx, message, phase>>

Byte == 0 .. 255
Block == 64

\* memset() of the context.
Cleared == [total |-> 0, hashed |-> << >>, buffer |-> [i \in 1 .. Block |-> 0]]

\* The buffer keeps what the last digest left in it.
Started(c) == [c EXCEPT !.total = 0, !.hashed = << >>]

\* memcpy() to the place "at" of a buffer.
Copied(buffer, at, bytes) ==
  [i \in 1 .. Block |->
     IF at < i /\ i <= at + Len(bytes) THEN bytes[i - at] ELSE buffer[i]]

\* A deviation used to test NothingIsLost: what is left behind a block that was
\* completed is put where the input began.
UpdatedInPlace(c, input) ==
  LET left == c.total % Block
      fill == Block - left
      first == IF left # 0 /\ Len(input) >= fill THEN fill ELSE 0
      eaten == first + Block * ((Len(input) - first) \div Block)
      filled == Copied(c.buffer, left, SubSeq(input, 1, first))
  IN  [total |-> c.total + Len(input),
       hashed |-> c.hashed \o (IF first = 0 THEN << >> ELSE filled)
                  \o SubSeq(input, first + 1, eaten),
       buffer |-> Copied(filled, left, SubSeq(input, eaten + 1, Len(input)))]

\* mbedtls_l_md5_update(): a block that waits is completed first, then whole
\* blocks go straight from the input, and the rest waits in the buffer.
Updated(c, input) ==
  LET left == c.total % Block
      fill == Block - left
      first == IF left # 0 /\ Len(input) >= fill THEN fill ELSE 0
      eaten == first + Block * ((Len(input) - first) \div Block)
      filled == Copied(c.buffer, left, SubSeq(input, 1, first))
  IN  [total |-> c.total + Len(input),
       hashed |-> c.hashed \o (IF first = 0 THEN << >> ELSE filled)
                  \o SubSeq(input, first + 1, eaten),
       buffer |-> Copied(filled, IF first = 0 THEN left ELSE 0,
                         SubSeq(input, eaten + 1, Len(input)))]

\* A deviation used to test HashedIsPadded: at 56 bytes the length no longer
\* fits into the block.
PaddingShort(total) == IF total % Block <= 56 THEN 56 - (total % Block)
                       ELSE 120 - (total % Block)

\* How many bytes of md5_padding are taken.
Padding(total) == IF total % Block < 56 THEN 56 - (total % Block)
                  ELSE 120 - (total % Block)

Zeros(n) == [i \in 1 .. n |-> 0]
PadBytes(n) == [i \in 1 .. n |-> IF i = 1 THEN 128 ELSE 0]

\* A deviation used to test CTypeOK: a byte is not cut out of its word.
LengthBytesUncut(total) ==
  << 8 * total, ((8 * total) \div 256) % 256,
     ((8 * total) \div 65536) % 256, (8 * total) \div 16777216, 0, 0, 0, 0 >>

\* PUT_UINT32_LE of the number of bits, and of its upper word, which is 0.
LengthBytes(total) ==
  << (8 * total) % 256, ((8 * total) \div 256) % 256,
     ((8 * total) \div 65536) % 256, (8 * total) \div 16777216, 0, 0, 0, 0 >>

Finished(c) ==
  Updated(Updated(c, PadBytes(Padding(c.total))), LengthBytes(c.total))

\* start(), update(data), finish(), as compute_auth_response() of sip_client.h
\* calls them three times: the context after it.
Hashed(c, data) == Finished(Updated(Started(c), data))

-----------------------------------------------------------------------------
CInit == ctx = Cleared /\ message = << >> /\ phase = "idle"

Starts == /\ ctx' = Started(ctx)
          /\ message' = << >>
          /\ phase' = "open"

Update(n) ==
  /\ phase = "open"
  /\ Len(message) + n <= Len(Text)
  /\ LET input == SubSeq(Text, Len(message) + 1, Len(message) + n)
     IN  ctx' = Updated(ctx, input) /\ message' = message \o input
  /\ UNCHANGED phase

Finish == /\ phase = "open"
          /\ ctx' = Finished(ctx)
          /\ phase' = "done"
          /\ UNCHANGED message

CNext == Starts \/ (\E n \in Lengths : Update(n)) \/ Finish

CSpec == CInit /\ [][CNext]_cvars

-----------------------------------------------------------------------------
(***************************************************************************)
(* Properties.                                                             *)
(***************************************************************************)

\* The context keeps its shape; bytes are bytes.
Context == [total : Nat, hashed : Seq(Byte), buffer : [1 .. Block -> Byte]]
CTypeOK == /\ ctx \in Context
           /\ message \in Seq(Byte) /\ phase \in {"idle", "open", "done"}

\* However the message was cut into pieces, and whatever an earlier digest left
\* in the buffer: what was hashed and what waits are the message, in order.
NothingIsLost ==
  phase = "open" =>
    /\ ctx.total = Len(message) /\ Len(ctx.hashed) % Block = 0
    /\ ctx.hashed \o SubSeq(ctx.buffer, 1, ctx.total % Block) = message

\* RFC 1321: a one bit, zeros up to 8 bytes before the end of a block, and the
\* number of bits.
Padded(m) ==
  m \o <<128>> \o Zeros((55 - Len(m)) % Block) \o LengthBytes(Len(m))

\* When the digest is done, whole blocks were hashed, and they are the padded
\* message: no byte of the buffer's past is among them.
HashedIsPadded ==
  phase = "done" => ctx.hashed = Padded(message) /\ Len(ctx.hashed) % Block = 0

=============================================================================
