-------------------------- MODULE Md5Context_proofs --------------------------
(***************************************************************************)
(* The context of md5_l.cpp hashes the padded message, for every text and  *)
(* every way to cut it into pieces.                                        *)
(***************************************************************************)
EXTENDS Md5Context, SequenceTheorems, TLAPS

USE DEF Block

(***************************************************************************)
(* Sequences of bytes.                                                     *)
(***************************************************************************)
LEMMA Middle ==
  ASSUME NEW s \in Seq(Byte), NEW i \in 0 .. Len(s), NEW j \in i .. Len(s)
  PROVE  /\ SubSeq(s, i + 1, j) \in Seq(Byte)
         /\ Len(SubSeq(s, i + 1, j)) = j - i
         /\ SubSeq(s, 1, i) \o SubSeq(s, i + 1, j) = SubSeq(s, 1, j)
<1>1. /\ Len(s) \in Nat
      /\ \A k \in i + 1 .. j : s[k] \in Byte
  BY ElementOfSeq
<1>2. i + 1 \in Int /\ j \in Int
  BY <1>1
<1>3. /\ SubSeq(s, i + 1, j) \in Seq(Byte)
      /\ Len(SubSeq(s, i + 1, j)) = IF i + 1 <= j THEN j - (i + 1) + 1 ELSE 0
  BY <1>1, <1>2, SubSeqProperties
<1>4. /\ 1 \in 1 .. Len(s) + 1 /\ i \in 1 - 1 .. Len(s) /\ j \in i .. Len(s)
  BY <1>1
<1>5. SubSeq(s, 1, i) \o SubSeq(s, i + 1, j) = SubSeq(s, 1, j)
  BY <1>4, ConcatAdjacentSubSeq
<1> QED
  BY <1>1, <1>3, <1>5

\* A sequence is its beginning and the rest.
LEMMA Split ==
  ASSUME NEW s \in Seq(Byte), NEW i \in 0 .. Len(s)
  PROVE  /\ SubSeq(s, 1, i) \in Seq(Byte) /\ Len(SubSeq(s, 1, i)) = i
         /\ SubSeq(s, i + 1, Len(s)) \in Seq(Byte)
         /\ Len(SubSeq(s, i + 1, Len(s))) = Len(s) - i
         /\ SubSeq(s, 1, i) \o SubSeq(s, i + 1, Len(s)) = s
<1>1. Len(s) \in Nat /\ Len(s) \in i .. Len(s) /\ 0 \in 0 .. Len(s) /\ i \in 0 .. Len(s)
  BY LenProperties
<1>2. 0 + 1 = 1 /\ i - 0 = i
  OBVIOUS
<1>3. SubSeq(s, 0 + 1, i) \in Seq(Byte) /\ Len(SubSeq(s, 0 + 1, i)) = i - 0
  BY <1>1, Middle
<1>4. SubSeq(s, 1, Len(s)) = s
  BY SubSeqFull
<1> QED
  BY <1>1, <1>2, <1>3, <1>4, Middle

LEMMA Inside ==
  ASSUME NEW at \in Nat, NEW length \in Nat, NEW n \in Nat, n = at + length
  PROVE  at <= n /\ (\A i \in 1 .. n : i > at => i - at \in 1 .. length)
OBVIOUS

LEMMA Buffers ==
  ASSUME NEW buffer \in [1 .. Block -> Byte]
  PROVE  buffer \in Seq(Byte) /\ Len(buffer) = Block
<1>1. Block \in Nat
  OBVIOUS
<1>2. buffer \in Seq(Byte)
  BY <1>1, SeqDef, Zenon
<1> QED
  BY <1>2

\* memcpy() appends to what is in the buffer.
Appends(buffer, at, bytes, n) ==
  /\ Copied(buffer, at, bytes) \in [1 .. Block -> Byte]
  /\ SubSeq(Copied(buffer, at, bytes), 1, n) = SubSeq(buffer, 1, at) \o bytes

LEMMA Copies ==
  ASSUME NEW buffer, NEW at \in Nat, NEW bytes, NEW n \in 0 .. Block
  PROVE  /\ buffer \in [1 .. Block -> Byte]
         /\ bytes \in Seq(Byte)
         /\ n = at + Len(bytes)
         => Appends(buffer, at, bytes, n)
<1>a. SUFFICES ASSUME /\ buffer \in [1 .. Block -> Byte]
                      /\ bytes \in Seq(Byte)
                      /\ n = at + Len(bytes)
               PROVE  /\ Copied(buffer, at, bytes) \in [1 .. Block -> Byte]
                      /\ SubSeq(Copied(buffer, at, bytes), 1, n)
                           = SubSeq(buffer, 1, at) \o bytes
  BY DEF Appends
<1>b. buffer \in [1 .. Block -> Byte]
  BY <1>a
<1>c. bytes \in Seq(Byte)
  BY <1>a
<1>0. n = at + Len(bytes)
  BY <1>a
<1> DEFINE new == Copied(buffer, at, bytes)
           head == SubSeq(buffer, 1, at)
<1>1. /\ Len(bytes) \in Nat /\ at <= n
      /\ \A i \in 1 .. n : i > at => i - at \in 1 .. Len(bytes)
  <2>1. Len(bytes) \in Nat /\ n \in Nat
    BY <1>c, LenProperties
  <2> QED
    BY <1>0, <2>1, Inside, Zenon
<1>2. \A i \in 1 .. Len(bytes) : bytes[i] \in Byte
  BY <1>c, ElementOfSeq
<1>3. \A i \in 1 .. Block :
        new[i] = IF at < i /\ i <= n THEN bytes[i - at] ELSE buffer[i]
  BY <1>0, Zenon DEF Copied
<1>4. \A i \in 1 .. Block : new[i] \in Byte
  <2> SUFFICES ASSUME NEW i \in 1 .. Block PROVE new[i] \in Byte
    OBVIOUS
  <2>1. CASE at < i /\ i <= n
    <3>1. i \in 1 .. n /\ i > at
      BY <2>1
    <3>2. i - at \in 1 .. Len(bytes)
      BY <1>1, <3>1
    <3> QED
      BY <1>2, <1>3, <2>1, <3>2, Zenon
  <2>2. CASE ~(at < i /\ i <= n)
    BY <1>b, <1>3, <2>2
  <2> QED
    BY <2>1, <2>2
<1>5. new \in [1 .. Block -> Byte]
  BY <1>4 DEF Copied
<1> HIDE DEF new
<1>6. /\ new \in Seq(Byte) /\ Len(new) = Block
      /\ buffer \in Seq(Byte) /\ Len(buffer) = Block
  BY <1>b, <1>5, Buffers, Zenon
<1>7. n \in 0 .. Len(new) /\ at \in 0 .. Len(buffer)
  BY <1>1, <1>6
<1>8. /\ SubSeq(new, 1, n) \in Seq(Byte) /\ Len(SubSeq(new, 1, n)) = n
      /\ head \in Seq(Byte) /\ Len(head) = at
  BY <1>6, <1>7, Split, Zenon
<1>9. /\ \A i \in 1 .. n : SubSeq(new, 1, n)[i] = new[i]
      /\ \A i \in 1 .. at : head[i] = buffer[i]
  BY <1>6, <1>7
<1> HIDE DEF head
<1>10. /\ head \o bytes \in Seq(Byte)
       /\ Len(head \o bytes) = Len(head) + Len(bytes)
       /\ \A i \in 1 .. Len(head) + Len(bytes) : (head \o bytes)[i]
           = IF i <= Len(head) THEN head[i] ELSE bytes[i - Len(head)]
  BY <1>c, <1>8, ConcatProperties
<1>11. /\ Len(head \o bytes) = n
       /\ \A i \in 1 .. n : (head \o bytes)[i]
           = IF i <= at THEN head[i] ELSE bytes[i - at]
  BY <1>0, <1>8, <1>10, Zenon
<1>12. \A i \in 1 .. n : SubSeq(new, 1, n)[i] = (head \o bytes)[i]
  <2> SUFFICES ASSUME NEW i \in 1 .. n
               PROVE  SubSeq(new, 1, n)[i] = (head \o bytes)[i]
    OBVIOUS
  <2>1. i \in 1 .. Block /\ i \in Nat
    OBVIOUS
  <2>2. CASE i <= at
    <3>1. i \in 1 .. at /\ ~(at < i)
      BY <2>2
    <3> QED
      BY <1>3, <1>9, <1>11, <2>1, <2>2, <3>1, Zenon
  <2>3. CASE ~(i <= at)
    <3>1. at < i /\ i <= n
      BY <2>3
    <3> QED
      BY <1>3, <1>9, <1>11, <2>1, <2>3, <3>1, Zenon
  <2> QED
    BY <2>2, <2>3
<1>13. SubSeq(new, 1, n) = head \o bytes
  BY <1>8, <1>10, <1>11, <1>12, SeqEqual, Zenon
<1> QED
  BY <1>5, <1>13 DEF new, head

\* Two cuts make three pieces.
LEMMA Pieces ==
  ASSUME NEW s \in Seq(Byte), NEW i \in 0 .. Len(s), NEW j \in i .. Len(s)
  PROVE  /\ SubSeq(s, 1, i) \in Seq(Byte) /\ Len(SubSeq(s, 1, i)) = i
         /\ SubSeq(s, i + 1, j) \in Seq(Byte) /\ Len(SubSeq(s, i + 1, j)) = j - i
         /\ SubSeq(s, j + 1, Len(s)) \in Seq(Byte)
         /\ Len(SubSeq(s, j + 1, Len(s))) = Len(s) - j
         /\ (SubSeq(s, 1, i) \o SubSeq(s, i + 1, j)) \o SubSeq(s, j + 1, Len(s)) = s
<1>1. Len(s) \in Nat
  BY LenProperties
<1>2. j \in 0 .. Len(s)
  BY <1>1
<1> QED
  BY <1>2, Middle, Split

\* An empty piece.
LEMMA NoBytes ==
  ASSUME NEW s \in Seq(Byte), Len(s) = 0
  PROVE  s = << >> /\ (\A t \in Seq(Byte) : t \o s = t /\ s \o t = t)
<1>1. s = << >>
  BY EmptySeq
<1> QED
  BY <1>1, ConcatEmptySeq

LEMMA Concat ==
  ASSUME NEW s \in Seq(Byte), NEW t \in Seq(Byte)
  PROVE  s \o t \in Seq(Byte) /\ Len(s \o t) = Len(s) + Len(t)
BY ConcatProperties

LEMMA Associative ==
  ASSUME NEW s \in Seq(Byte), NEW t \in Seq(Byte), NEW u \in Seq(Byte)
  PROVE  (s \o t) \o u = s \o (t \o u)
BY ConcatAssociative

\* The same bytes, grouped otherwise.
Regroups(h, w, x, y, z) ==
  ((h \o (w \o x)) \o y) \o z = (h \o w) \o ((x \o y) \o z)

LEMMA Regrouped ==
  ASSUME NEW h \in Seq(Byte), NEW w \in Seq(Byte), NEW x \in Seq(Byte),
         NEW y \in Seq(Byte), NEW z \in Seq(Byte)
  PROVE  Regroups(h, w, x, y, z)
<1> DEFINE hw == h \o w
           xy == x \o y
<1>1. h \o (w \o x) = hw \o x
  BY Associative, Zenon
<1>2. hw \in Seq(Byte) /\ xy \in Seq(Byte)
  BY Concat, Zenon
<1>3. ASSUME NEW p \in Seq(Byte) PROVE (p \o x) \o y = p \o xy
  BY Associative, Zenon
<1> HIDE DEF hw, xy
<1>4. (hw \o x) \o y = hw \o xy
  BY <1>2, <1>3, Zenon
<1>5. ASSUME NEW p \in Seq(Byte) PROVE (p \o xy) \o z = p \o (xy \o z)
  BY <1>2, Associative, Zenon
<1>6. (hw \o xy) \o z = hw \o (xy \o z)
  BY <1>2, <1>5, Zenon
<1> QED
  BY <1>1, <1>4, <1>6, Zenon DEF hw, xy, Regroups

(***************************************************************************)
(* mbedtls_l_md5_update().                                                 *)
(***************************************************************************)
\* The context c stands for the message m.
StandsFor(c, m) ==
  /\ m \in Seq(Byte) /\ c.total = Len(m)
  /\ c.hashed \in Seq(Byte) /\ Len(c.hashed) % Block = 0
  /\ c.buffer \in [1 .. Block -> Byte]
  /\ c.hashed \o SubSeq(c.buffer, 1, c.total % Block) = m

LEMMA OneMore ==
  ASSUME NEW n \in Nat, n % Block = 0
  PROVE  (n + Block) % Block = 0
OBVIOUS

\* Where the input is cut, from the bytes so far and the bytes that come.
First(total, length) ==
  IF total % Block # 0 /\ length >= Block - (total % Block)
    THEN Block - (total % Block) ELSE 0
Eaten(total, length) ==
  First(total, length) + Block * ((length - First(total, length)) \div Block)
At(total, length) == IF First(total, length) = 0 THEN total % Block ELSE 0

LEMMA Remainders ==
  ASSUME NEW n \in Nat
  PROVE  /\ n \div Block \in Nat /\ n % Block \in 0 .. 63
         /\ n = Block * (n \div Block) + (n % Block)
         /\ (Block * (n \div Block)) % Block = 0
OBVIOUS

LEMMA Sums ==
  ASSUME NEW total \in Nat, NEW n \in Nat
  PROVE  /\ (total % Block) + n < Block
              => (total + n) % Block = (total % Block) + n
         /\ total % Block = 0 => (total + n) % Block = n % Block
         /\ total % Block = 0 /\ n % Block = 0 => (total + n) % Block = 0
         /\ total % Block # 0 /\ n >= Block - (total % Block)
              => /\ n - (Block - (total % Block)) \in Nat
                 /\ (total + n) % Block
                      = (n - (Block - (total % Block))) % Block
OBVIOUS

Cut(total, length, first, eaten, at) ==
  LET left == total % Block
  IN  /\ left \in 0 .. 63 /\ first \in 0 .. length
      /\ eaten \in first .. length
      /\ (eaten - first) % Block = 0 /\ left + first \in 0 .. Block
      /\ at \in Nat /\ at + (length - eaten) \in 0 .. 63
      /\ (total + length) % Block = at + (length - eaten)
      /\ first = 0 => at = left /\ (left # 0 => eaten = 0)
      /\ first # 0 => left + first = Block /\ at = 0

LEMMA Cuts ==
  ASSUME NEW total \in Nat, NEW length \in Nat
  PROVE  Cut(total, length, First(total, length), Eaten(total, length),
             At(total, length))
<1> USE DEF Cut
<1> DEFINE left == total % Block
           fill == Block - left
<1>1. left \in 0 .. 63
  BY Remainders
<1>2. CASE left # 0 /\ length >= fill
  <2> DEFINE n == length - fill
  <2>1. First(total, length) = fill /\ fill \in 1 .. Block /\ fill <= length
    BY <1>1, <1>2 DEF First
  <2>2. n \in Nat
    BY <1>1, <1>2
  <2>3. (total + length) % Block = n % Block
    BY <1>2, Sums
  <2>4. At(total, length) = 0 /\ Eaten(total, length) = fill + Block * (n \div Block)
    BY <2>1 DEF At, Eaten
  <2>5. /\ n \div Block \in Nat /\ n % Block \in 0 .. 63
        /\ n = Block * (n \div Block) + (n % Block)
        /\ (Block * (n \div Block)) % Block = 0
    BY <2>2, Remainders
  <2> DEFINE e == Block * (n \div Block)
             rest == n % Block
  <2>6. /\ e \in Nat /\ rest \in 0 .. 63 /\ n = e + rest /\ length = fill + n
        /\ e % Block = 0 /\ fill \in Nat
    BY <1>1, <2>1, <2>5
  <2>7. At(total, length) = 0 /\ Eaten(total, length) = fill + e
    BY <2>4
  <2>8. (total + length) % Block = rest /\ left + fill = Block
    BY <1>1, <2>3
  <2> HIDE DEF e, rest, n, fill, left
  <2>9. /\ fill + e \in fill .. length /\ (fill + e) - fill = e
        /\ length - (fill + e) = rest
    BY <2>6
  <2> QED
    BY <1>1, <2>1, <2>6, <2>7, <2>8, <2>9 DEF left
<1>3. CASE ~(left # 0 /\ length >= fill)
  <2>1. First(total, length) = 0
    BY <1>3 DEF First
  <2>2. At(total, length) = left /\ Eaten(total, length) = Block * (length \div Block)
    BY <2>1 DEF At, Eaten
  <2> DEFINE e == Block * (length \div Block)
             rest == length % Block
  <2>3. e \in Nat /\ rest \in 0 .. 63 /\ length = e + rest /\ e % Block = 0
    BY Remainders
  <2>4. CASE left = 0
    <3>1. (total + length) % Block = rest
      BY <2>4, Sums
    <3> HIDE DEF e, rest
    <3> QED
      BY <1>1, <2>1, <2>2, <2>3, <2>4, <3>1 DEF e
  <2>5. CASE left # 0 /\ length < fill
    <3>1. e = 0 /\ rest = length /\ left + length \in 0 .. 63
      BY <1>1, <2>5
    <3>2. (total + length) % Block = left + length
      BY <1>1, <3>1, Sums
    <3> QED
      BY <1>1, <2>1, <2>2, <3>1, <3>2
  <2> QED
    BY <1>1, <1>3, <2>4, <2>5
<1> QED
  BY <1>2, <1>3

LEMMA UpdateKeeps ==
  ASSUME NEW c, NEW m, NEW input
  PROVE  StandsFor(c, m) /\ input \in Seq(Byte)
           => StandsFor(Updated(c, input), m \o input)
<1>a. SUFFICES ASSUME StandsFor(c, m) /\ input \in Seq(Byte)
               PROVE  StandsFor(Updated(c, input), m \o input)
  OBVIOUS
<1> DEFINE left == c.total % Block
           length == Len(input)
           first == First(c.total, length)
           eaten == Eaten(c.total, length)
           at == At(c.total, length)
           a == SubSeq(input, 1, first)
           b == SubSeq(input, first + 1, eaten)
           r == SubSeq(input, eaten + 1, length)
           w == SubSeq(c.buffer, 1, left)
           filled == Copied(c.buffer, left, a)
           new == Copied(filled, at, r)
           h == c.hashed \o (IF first = 0 THEN << >> ELSE filled)
           u == Updated(c, input)
<1>b. input \in Seq(Byte)
  BY <1>a
<1>c. m \in Seq(Byte) /\ c.total = Len(m) /\ c.hashed \in Seq(Byte)
  BY <1>a DEF StandsFor
<1>d. c.buffer \in [1 .. Block -> Byte]
  BY <1>a DEF StandsFor
<1>e. Len(c.hashed) % Block = 0 /\ c.hashed \o w = m
  BY <1>a DEF StandsFor
<1>1. c.total \in Nat /\ length \in Nat
  BY <1>b, <1>c, LenProperties
<1>2. u.total = c.total + length /\ u.hashed = h \o b /\ u.buffer = new
  BY DEF Updated, First, Eaten, At
<1> HIDE DEF u, h, new, filled, w, r, b, a, length, left, first, eaten, at
<1>3. /\ left \in 0 .. 63 /\ first \in 0 .. length /\ eaten \in first .. length
      /\ (eaten - first) % Block = 0 /\ left + first \in 0 .. Block
      /\ at \in Nat /\ at + (length - eaten) \in 0 .. 63
      /\ (c.total + length) % Block = at + (length - eaten)
      /\ first = 0 => at = left /\ (left # 0 => eaten = 0)
      /\ first # 0 => left + first = Block /\ at = 0
  <2>1. Cut(c.total, length, first, eaten, at)
    BY <1>1, Cuts, Zenon DEF first, eaten, at
  <2> QED
    BY <2>1, Zenon DEF Cut, left
<1>4. /\ a \in Seq(Byte) /\ Len(a) = first
      /\ b \in Seq(Byte) /\ Len(b) = eaten - first
      /\ r \in Seq(Byte) /\ Len(r) = length - eaten
      /\ (a \o b) \o r = input
  BY <1>b, <1>3, Pieces, Zenon DEF a, b, r, length
<1>5. c.buffer \in Seq(Byte) /\ Len(c.buffer) = Block
  BY <1>d, Buffers, Zenon
<1>6. left \in 0 .. Len(c.buffer) /\ left \in Nat
  BY <1>3, <1>5
<1>7. w \in Seq(Byte) /\ Len(w) = left
  BY <1>5, <1>6, Split, Zenon DEF w
<1>8. filled \in [1 .. Block -> Byte] /\ SubSeq(filled, 1, left + first) = w \o a
  <2>1. left + first = left + Len(a)
    BY <1>4
  <2>2. Appends(c.buffer, left, a, left + first)
    BY <1>d, <1>3, <1>4, <1>6, <2>1, Copies, Zenon
  <2> QED
    BY <2>2, Zenon DEF filled, w, Appends
<1>9. /\ new \in [1 .. Block -> Byte]
      /\ SubSeq(new, 1, at + (length - eaten)) = SubSeq(filled, 1, at) \o r
  <2>1. at + (length - eaten) \in 0 .. Block
    BY <1>3
  <2>2. at + (length - eaten) = at + Len(r)
    BY <1>4
  <2>3. Appends(filled, at, r, at + (length - eaten))
    BY <1>3, <1>4, <1>8, <2>1, <2>2, Copies, Zenon
  <2> QED
    BY <2>3, Zenon DEF new, Appends
<1>10. /\ h \in Seq(Byte) /\ Len(h) % Block = 0
       /\ (h \o b) \o (SubSeq(filled, 1, at) \o r) = m \o input
  <2>1. CASE first = 0
    <3>1. a = << >> /\ w \o a = w /\ at = left
      BY <1>3, <1>4, <1>7, <2>1, NoBytes
    <3>2. left + first = left
      BY <1>6, <2>1
    <3>3. SubSeq(filled, 1, at) = w
      BY <1>8, <3>1, <3>2
    <3>4. c.hashed \o << >> = c.hashed
      BY <1>c, ConcatEmptySeq
    <3>5. h = c.hashed
      BY <2>1, <3>4 DEF h
    <3>6. (c.hashed \o b) \o (w \o r) = m \o input
      <4>1. CASE left = 0
        <5>1. w = << >> /\ w \o r = r /\ c.hashed \o w = c.hashed
          BY <1>c, <1>4, <1>7, <4>1, NoBytes
        <5>2. a \o b = b
          BY <1>4, <2>1, NoBytes
        <5>3. (c.hashed \o b) \o r = c.hashed \o (b \o r)
          BY <1>c, <1>4, Associative, Zenon
        <5> QED
          BY <1>e, <1>4, <5>1, <5>2, <5>3, Zenon
      <4>2. CASE left # 0
        <5>1. Len(b) = 0
          BY <1>3, <1>4, <2>1, <4>2
        <5>2. c.hashed \o b = c.hashed /\ a \o b = a
          BY <1>c, <1>4, <5>1, NoBytes
        <5>3. a \o r = r
          BY <1>4, <2>1, NoBytes
        <5>4. (c.hashed \o w) \o r = c.hashed \o (w \o r)
          BY <1>c, <1>4, <1>7, Associative, Zenon
        <5> QED
          BY <1>e, <1>4, <5>2, <5>3, <5>4, Zenon
      <4> QED
        BY <4>1, <4>2
    <3> QED
      BY <1>c, <1>e, <3>3, <3>5, <3>6, Zenon
  <2>2. CASE first # 0
    <3>1. left + first = Block /\ at = 0
      BY <1>3, <2>2
    <3>2. h = c.hashed \o filled
      BY <2>2 DEF h
    <3>3. filled \in Seq(Byte) /\ Len(filled) = Block
      BY <1>8, Buffers, Zenon
    <3>4. filled = w \o a
      BY <1>8, <3>1, <3>3, SubSeqFull
    <3>5. /\ SubSeq(filled, 1, 0) \in Seq(Byte) /\ Len(SubSeq(filled, 1, 0)) = 0
      BY <3>3, Split
    <3>6. SubSeq(filled, 1, at) \o r = r
      BY <1>4, <3>1, <3>5, NoBytes
    <3>7. h \in Seq(Byte) /\ Len(h) = Len(c.hashed) + Block
      BY <1>c, <3>2, <3>3, Concat
    <3>8. Len(h) % Block = 0
      <4>1. Len(c.hashed) \in Nat
        BY <1>c, LenProperties
      <4> QED
        BY <1>e, <3>7, <4>1, OneMore, Zenon
    <3>9. (h \o b) \o r = (c.hashed \o w) \o ((a \o b) \o r)
      <4>1. Regroups(c.hashed, w, a, b, r)
        BY <1>c, <1>4, <1>7, Regrouped, Zenon
      <4> QED
        BY <3>2, <3>4, <4>1, Zenon DEF Regroups
    <3> QED
      BY <1>e, <1>4, <3>6, <3>7, <3>8, <3>9, Zenon
  <2> QED
    BY <2>1, <2>2
<1>11. /\ h \o b \in Seq(Byte) /\ Len(h \o b) % Block = 0
       /\ (h \o b) \o SubSeq(new, 1, at + (length - eaten)) = m \o input
  <2>1. h \o b \in Seq(Byte) /\ Len(h \o b) = Len(h) + Len(b)
    BY <1>4, <1>10, Concat, Zenon
  <2>2. Len(h) \in Nat /\ Len(b) \in Nat /\ Len(h) % Block = 0 /\ Len(b) % Block = 0
    BY <1>3, <1>4, <1>10, LenProperties
  <2>3. (Len(h) + Len(b)) % Block = 0
    BY <2>2, Sums, Zenon
  <2> SUFFICES (h \o b) \o (SubSeq(filled, 1, at) \o r) = m \o input
    BY <1>9, <2>1, <2>3, Zenon
  <2> QED
    BY <1>10
<1>12. m \o input \in Seq(Byte) /\ Len(m \o input) = Len(m) + length
  BY <1>b, <1>c, Concat DEF length
<1>13. u.total % Block = at + (length - eaten) /\ u.total = Len(m \o input)
  BY <1>c, <1>2, <1>3, <1>12
<1> QED
  BY <1>2, <1>9, <1>11, <1>12, <1>13, Zenon DEF StandsFor, u

(***************************************************************************)
(* mbedtls_l_md5_finish().                                                 *)
(***************************************************************************)
LEMMA PaddingFills ==
  ASSUME NEW total \in Nat
  PROVE  /\ Padding(total) \in 1 .. Block
         /\ Padding(total) - 1 = (55 - total) % Block
         /\ ((total + Padding(total)) + 8) % Block = 0
BY DEF Padding

LEMMA PadBytesAre ==
  ASSUME NEW n \in 1 .. Block
  PROVE  /\ PadBytes(n) \in Seq(Byte) /\ Len(PadBytes(n)) = n
         /\ Zeros(n - 1) \in Seq(Byte) /\ <<128>> \in Seq(Byte)
         /\ PadBytes(n) = <<128>> \o Zeros(n - 1)
<1>1. n \in Nat /\ n - 1 \in Nat /\ 0 \in Byte /\ 128 \in Byte
  BY DEF Byte
<1>2. PadBytes(n) \in [1 .. n -> Byte] /\ Zeros(n - 1) \in [1 .. (n - 1) -> Byte]
  BY <1>1 DEF PadBytes, Zeros
<1>3. PadBytes(n) \in Seq(Byte) /\ Zeros(n - 1) \in Seq(Byte)
  BY <1>1, <1>2, SeqDef, Zenon
<1>4. Len(PadBytes(n)) = n /\ Len(Zeros(n - 1)) = n - 1
  BY <1>1 DEF PadBytes, Zeros
<1>5. <<128>> \in Seq(Byte) /\ Len(<<128>>) = 1
  BY <1>1
<1> DEFINE pad == <<128>> \o Zeros(n - 1)
<1>6. /\ pad \in Seq(Byte) /\ Len(pad) = n
      /\ \A i \in 1 .. n : pad[i] = IF i <= 1 THEN <<128>>[i] ELSE Zeros(n - 1)[i - 1]
  <2>1. /\ pad \in Seq(Byte)
        /\ Len(pad) = Len(<<128>>) + Len(Zeros(n - 1))
        /\ \A i \in 1 .. Len(<<128>>) + Len(Zeros(n - 1)) :
             pad[i] = IF i <= Len(<<128>>) THEN <<128>>[i]
                      ELSE Zeros(n - 1)[i - Len(<<128>>)]
    BY <1>3, <1>5, ConcatProperties
  <2>2. Len(<<128>>) + Len(Zeros(n - 1)) = n
    BY <1>1, <1>4, <1>5
  <2> QED
    BY <1>5, <2>1, <2>2, Zenon
<1> HIDE DEF pad
<1>7. \A i \in 1 .. n : PadBytes(n)[i] = pad[i]
  <2> SUFFICES ASSUME NEW i \in 1 .. n PROVE PadBytes(n)[i] = pad[i]
    OBVIOUS
  <2>1. CASE i = 1
    BY <1>6, <2>1 DEF PadBytes
  <2>2. CASE i # 1
    <3>1. i - 1 \in 1 .. n - 1 /\ ~(i <= 1)
      BY <2>2
    <3>2. Zeros(n - 1)[i - 1] = 0 /\ PadBytes(n)[i] = 0
      BY <2>2, <3>1 DEF Zeros, PadBytes
    <3> QED
      BY <1>6, <3>1, <3>2, Zenon
  <2> QED
    BY <2>1, <2>2
<1>8. PadBytes(n) = pad
  BY <1>3, <1>4, <1>6, <1>7, SeqEqual
<1> QED
  BY <1>3, <1>4, <1>5, <1>8 DEF pad

LEMMA LengthBytesAre ==
  ASSUME NEW total \in Nat, total < TooLong
  PROVE  LengthBytes(total) \in Seq(Byte) /\ Len(LengthBytes(total)) = 8
<1>1. /\ (8 * total) % 256 \in Byte /\ ((8 * total) \div 256) % 256 \in Byte
      /\ ((8 * total) \div 65536) % 256 \in Byte
      /\ (8 * total) \div 16777216 \in Byte /\ 0 \in Byte
  BY SMT DEF Byte, TooLong
<1> QED
  BY <1>1 DEF LengthBytes

LEMMA FinishPads ==
  ASSUME NEW c, NEW m
  PROVE  StandsFor(c, m) /\ Len(m) < TooLong
           => StandsFor(Finished(c), Finished(c).hashed)
              /\ Finished(c).hashed = Padded(m)
<1>a. SUFFICES ASSUME StandsFor(c, m) /\ Len(m) < TooLong
               PROVE  StandsFor(Finished(c), Finished(c).hashed)
                      /\ Finished(c).hashed = Padded(m)
  OBVIOUS
<1> DEFINE total == Len(m)
           n == Padding(total)
           pad == PadBytes(n)
           zeros == Zeros(n - 1)
           bytes == LengthBytes(total)
           u == Updated(c, pad)
           d == Finished(c)
<1>1. m \in Seq(Byte) /\ c.total = total
  BY <1>a DEF StandsFor
<1>2. total \in Nat
  BY <1>1, LenProperties
<1>3. n \in 1 .. Block /\ n - 1 = (55 - total) % Block /\ ((total + n) + 8) % Block = 0
  BY <1>2, PaddingFills
<1>4. bytes \in Seq(Byte) /\ Len(bytes) = 8
  BY <1>a, <1>2, LengthBytesAre
<1>5. d = Updated(u, bytes)
  BY <1>1 DEF Finished
<1> HIDE DEF n, bytes, d
<1>6. /\ pad \in Seq(Byte) /\ Len(pad) = n
      /\ zeros \in Seq(Byte) /\ <<128>> \in Seq(Byte) /\ pad = <<128>> \o zeros
  BY <1>3, PadBytesAre, Zenon
<1>7. Padded(m) = ((m \o <<128>>) \o zeros) \o bytes
  BY <1>3, Zenon DEF Padded, bytes
<1> HIDE DEF pad, zeros, u
<1>8. StandsFor(u, m \o pad)
  BY <1>a, <1>6, UpdateKeeps, Zenon DEF u
<1>9. StandsFor(d, (m \o pad) \o bytes)
  BY <1>4, <1>5, <1>8, UpdateKeeps, Zenon
<1>10. d.total % Block = 0
  <2>1. m \o pad \in Seq(Byte) /\ Len(m \o pad) = total + n
    BY <1>1, <1>6, Concat
  <2>2. Len((m \o pad) \o bytes) = (total + n) + 8
    BY <1>4, <2>1, Concat
  <2>3. d.total = (total + n) + 8
    BY <1>9, <2>2, Zenon DEF StandsFor
  <2> QED
    BY <1>3, <2>3, Zenon
<1>11. d.hashed = (m \o pad) \o bytes
  <2>1. d.buffer \in Seq(Byte) /\ Len(d.buffer) = Block
    BY <1>9, Buffers, Zenon DEF StandsFor
  <2>2. SubSeq(d.buffer, 1, 0) \in Seq(Byte) /\ Len(SubSeq(d.buffer, 1, 0)) = 0
    BY <2>1, Split
  <2>3. d.hashed \in Seq(Byte) /\ d.hashed \o SubSeq(d.buffer, 1, 0) = (m \o pad) \o bytes
    BY <1>9, <1>10, Zenon DEF StandsFor
  <2>4. d.hashed \o SubSeq(d.buffer, 1, 0) = d.hashed
    BY <2>2, <2>3, NoBytes
  <2> QED
    BY <2>3, <2>4, Zenon
<1>12. m \o pad = (m \o <<128>>) \o zeros
  <2>1. \A one \in Seq(Byte) : (m \o one) \o zeros = m \o (one \o zeros)
    BY <1>1, <1>6, Associative
  <2> QED
    BY <1>6, <2>1
<1>13. d.hashed = Padded(m)
  BY <1>7, <1>11, <1>12, Zenon
<1> QED
  BY <1>9, <1>11, <1>13, Zenon DEF d

(***************************************************************************)
(* The state machine.                                                      *)
(***************************************************************************)
MdInv == /\ CTypeOK /\ HashedIsPadded
         /\ Len(message) < TooLong
         /\ phase = "open" => StandsFor(ctx, message)

LEMMA StandingShape ==
  ASSUME NEW c, NEW m, StandsFor(c, m)
  PROVE  c.total \in Nat /\ c.hashed \in Seq(Byte)
         /\ c.buffer \in [1 .. Block -> Byte]
<1>1. m \in Seq(Byte) /\ c.total = Len(m)
  BY DEF StandsFor
<1>2. c.total \in Nat
  BY <1>1, LenProperties
<1> QED
  BY <1>2, Zenon DEF StandsFor

LEMMA UpdatedShape ==
  ASSUME NEW c, NEW x, NEW m, StandsFor(Updated(c, x), m)
  PROVE  Updated(c, x) \in Context
<1> DEFINE u == Updated(c, x)
<1>1. u = [total |-> u.total, hashed |-> u.hashed, buffer |-> u.buffer]
  BY DEF Updated
<1> HIDE DEF u
<1>2. u.total \in Nat /\ u.hashed \in Seq(Byte) /\ u.buffer \in [1 .. Block -> Byte]
  BY StandingShape, Zenon DEF u
<1> QED
  BY <1>1, <1>2 DEF Context, u

\* mbedtls_l_md5_starts() keeps the buffer, but nothing of it is counted.
LEMMA StartIsEmpty ==
  ASSUME NEW old \in Context
  PROVE  Started(old) \in Context /\ StandsFor(Started(old), << >>)
<1> SUFFICES ASSUME NEW d, d = Started(old) PROVE d \in Context /\ StandsFor(d, << >>)
  OBVIOUS
<1> DEFINE none == SubSeq(old.buffer, 1, 0)
<1>1. /\ d = [total |-> 0, hashed |-> << >>, buffer |-> old.buffer]
      /\ old.buffer \in [1 .. Block -> Byte]
  <2>1. old.buffer \in [1 .. Block -> Byte]
    BY DEF Context
  <2>2. d = [total |-> 0, hashed |-> << >>, buffer |-> old.buffer]
    BY DEF Started, Context
  <2> QED
    BY <2>1, <2>2, Zenon
<1>2. << >> \in Seq(Byte) /\ Len(<< >>) = 0
  OBVIOUS
<1>7. 0 % Block = 0
  OBVIOUS
<1>3. none = << >>
  <2>1. old.buffer \in Seq(Byte) /\ Len(old.buffer) = Block
    BY <1>1, Buffers, Zenon
  <2>2. none \in Seq(Byte) /\ Len(none) = 0
    BY <2>1, Split
  <2> QED
    BY <2>2, NoBytes
<1>4. << >> \o << >> = << >>
  BY <1>2, NoBytes
<1>5. d \in Context
  BY <1>1, <1>2 DEF Context
<1>6. StandsFor(d, << >>)
  BY <1>1, <1>2, <1>3, <1>4, <1>7 DEF StandsFor
<1> QED
  BY <1>5, <1>6

LEMMA MdInvInit == CInit => MdInv
<1> SUFFICES ASSUME CInit PROVE MdInv
  OBVIOUS
<1>1. Cleared \in Context
  BY DEF Cleared, Context, Byte
<1>2. << >> \in Seq(Byte) /\ Len(<< >>) = 0 /\ 0 < TooLong
  BY SMT DEF TooLong
<1> QED
  BY <1>1, <1>2 DEF CInit, MdInv, CTypeOK, HashedIsPadded

LEMMA MdInvNext == MdInv /\ [CNext]_cvars => MdInv'
<1> SUFFICES ASSUME MdInv, [CNext]_cvars PROVE MdInv'
  OBVIOUS
<1> USE DEF MdInv
<1>1. CASE Starts
  <2>1. ctx \in Context
    BY DEF CTypeOK
  <2>2. ctx' = Started(ctx) /\ message' = << >> /\ phase' = "open"
    BY <1>1 DEF Starts
  <2>3. << >> \in Seq(Byte) /\ Len(<< >>) = 0 /\ 0 < TooLong
    BY SMT DEF TooLong
  <2>4. ctx' \in Context /\ StandsFor(ctx', message')
    BY <2>1, <2>2, StartIsEmpty
  <2> QED
    BY <2>2, <2>3, <2>4 DEF CTypeOK, HashedIsPadded
<1>2. ASSUME NEW n \in Lengths, Update(n) PROVE MdInv'
  <2> DEFINE input == SubSeq(Text, Len(message) + 1, Len(message) + n)
  <2>1. /\ phase = "open" /\ Len(message) + n <= Len(Text)
        /\ ctx' = Updated(ctx, input) /\ message' = message \o input
        /\ phase' = phase
    BY <1>2 DEF Update
  <2>2. Text \in Seq(Byte) /\ n \in Nat /\ Len(Text) < TooLong
    BY TextAssumption DEF Byte
  <2>3. message \in Seq(Byte)
    BY DEF CTypeOK
  <2>4. Len(message) \in Nat /\ Len(Text) \in Nat
    BY <2>2, <2>3, LenProperties
  <2>5. /\ Len(message) \in 0 .. Len(Text)
        /\ Len(message) + n \in Len(message) .. Len(Text)
        /\ (Len(message) + n) - Len(message) = n
    BY <2>1, <2>2, <2>4
  <2>6. input \in Seq(Byte) /\ Len(input) = n
    BY <2>2, <2>5, Middle
  <2> HIDE DEF input
  <2>7. StandsFor(ctx', message')
    BY <2>1, <2>6, UpdateKeeps, Zenon
  <2>8. ctx' \in Context
    BY <2>1, <2>7, UpdatedShape, Zenon
  <2>9. message' \in Seq(Byte) /\ Len(message') = Len(message) + n
    BY <2>1, <2>3, <2>6, Concat
  <2>10. Len(message') < TooLong
    BY <2>1, <2>2, <2>4, <2>9, SMT DEF TooLong
  <2> QED
    BY <2>1, <2>7, <2>8, <2>9, <2>10 DEF CTypeOK, HashedIsPadded
<1>3. CASE Finish
  <2>1. /\ phase = "open" /\ ctx' = Finished(ctx) /\ phase' = "done"
        /\ message' = message
    BY <1>3 DEF Finish
  <2>2. StandsFor(ctx', ctx'.hashed) /\ ctx'.hashed = Padded(message)
    BY <2>1, FinishPads, Zenon
  <2>3. ctx' \in Context
    BY <2>1, <2>2, UpdatedShape, Zenon DEF Finished
  <2>4. Len(ctx'.hashed) % Block = 0
    BY <2>2, Zenon DEF StandsFor
  <2> QED
    BY <2>1, <2>2, <2>3, <2>4 DEF CTypeOK, HashedIsPadded, Padded
<1>4. CASE UNCHANGED cvars
  BY <1>4 DEF cvars, CTypeOK, HashedIsPadded
<1> QED
  BY <1>1, <1>2, <1>3, <1>4 DEF CNext

LEMMA MdInvImplies == MdInv => CTypeOK /\ HashedIsPadded /\ NothingIsLost
<1> SUFFICES ASSUME MdInv, phase = "open" PROVE NothingIsLost
  BY DEF MdInv, NothingIsLost
<1>1. StandsFor(ctx, message)
  BY DEF MdInv
<1> QED
  BY <1>1, Zenon DEF StandsFor, NothingIsLost

\* The context keeps its shape, and no byte leaves its range, for every text and
\* every way to cut it.
THEOREM ContextTypeCorrect == CSpec => []CTypeOK
<1> QED
  BY MdInvInit, MdInvNext, MdInvImplies, PTL DEF CSpec

\* However mbedtls_l_md5_update() is given the text, what it hashed and what
\* waits are the text so far, whatever an earlier digest left in the buffer.
THEOREM NoByteIsLost == CSpec => []NothingIsLost
<1> QED
  BY MdInvInit, MdInvNext, MdInvImplies, PTL DEF CSpec

\* mbedtls_l_md5_finish() hashes whole blocks, the padded text of RFC 1321, for
\* every length below 2^29.
THEOREM PaddedTextIsHashed == CSpec => []HashedIsPadded
<1> QED
  BY MdInvInit, MdInvNext, MdInvImplies, PTL DEF CSpec

\* What one digest of compute_auth_response() hashes is its own text, padded,
\* whatever the one context of the client was used for before; and the context
\* it leaves can be used for the next one.
THEOREM DigestsAreFresh ==
  ASSUME NEW c \in Context, NEW data \in Seq(Byte), Len(data) < TooLong
  PROVE  Hashed(c, data) \in Context /\ Hashed(c, data).hashed = Padded(data)
<1> DEFINE u == Updated(Started(c), data)
<1>1. StandsFor(u, << >> \o data)
  BY StartIsEmpty, UpdateKeeps, Zenon
<1>2. << >> \o data = data
  BY ConcatEmptySeq
<1>3. Hashed(c, data) = Finished(u)
  BY DEF Hashed
<1> HIDE DEF u
<1>4. StandsFor(Finished(u), Finished(u).hashed) /\ Finished(u).hashed = Padded(data)
  BY <1>1, <1>2, FinishPads
<1>5. Finished(u) \in Context
  BY <1>4, UpdatedShape, Zenon DEF Finished
<1> QED
  BY <1>3, <1>4, <1>5, Zenon

=============================================================================
