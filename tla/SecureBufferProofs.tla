-------------------------- MODULE SecureBufferProofs --------------------------
(***************************************************************************)
(* Theorems about the entry buffer of secure_buffer.c, for any characters  *)
(* and widths and texts of any length: bytes and characters stay in step,  *)
(* nothing lingers behind the text, and the buffer is a text edited by     *)
(* positions.  Encoding and decoding are recursive functions; what is said *)
(* of them is proved by the inductions of module Induction.                *)
(***************************************************************************)
EXTENDS SecureBuffer, Induction, SequenceTheorems, FiniteSetTheorems, TLAPS

---------------------------------------------------------------------------
(* The encoding.                                                            *)

Bytes   == Char \X (1..4)
Wide(c) == [j \in 1..width[c] |-> <<c, j>>]

Encodes(s, g) ==
  g = [c \in 0..Len(s) |-> IF c = 0 THEN <<>> ELSE g[c - 1] \o Wide(s[c])]

LEMMA WideBytes ==
  ASSUME NEW c \in Char
  PROVE  /\ Wide(c) \in Seq(Bytes) /\ Len(Wide(c)) = width[c] /\ width[c] \in 1..4
         /\ \A j \in 1..width[c] : Wide(c)[j] = <<c, j>>
<1>1. width[c] \in 1..4
  BY SecureBufferAssumption
<1>2. \A j \in 1..width[c] : <<c, j>> \in Bytes
  BY <1>1 DEF Bytes
<1>3. Wide(c) \in [1..width[c] -> Bytes]
  BY <1>2 DEF Wide
<1>4. Wide(c) \in Seq(Bytes) /\ Len(Wide(c)) = width[c]
  BY <1>1, <1>3, SeqDef
<1>5. QED
  BY <1>1, <1>4 DEF Wide

LEMMA EncodesAt ==
  ASSUME NEW s, NEW n \in Nat, n = Len(s), NEW g, Encodes(s, g)
  PROVE  /\ DOMAIN g = 0..n /\ g[0] = <<>>
         /\ \A m \in 0..(n - 1) : g[m + 1] = g[m] \o Wide(s[m + 1])
<1>1. g = [c \in 0..n |-> IF c = 0 THEN <<>> ELSE g[c - 1] \o Wide(s[c])]
  BY DEF Encodes
<1>2. DOMAIN g = 0..n
  BY <1>1
<1>3. \A c \in 0..n : g[c] = IF c = 0 THEN <<>> ELSE g[c - 1] \o Wide(s[c])
  BY <1>1
<1>5. g[0] = <<>>
  BY <1>3
<1>6. ASSUME NEW m \in 0..(n - 1)
      PROVE  g[m + 1] = g[m] \o Wide(s[m + 1])
  <2>1. m + 1 \in 0..n /\ m + 1 # 0 /\ (m + 1) - 1 = m
    OBVIOUS
  <2>2. QED
    BY <1>3, <2>1
<1>7. QED
  BY <1>2, <1>5, <1>6

LEMMA EncodesTyped ==
  ASSUME NEW s \in Seq(Char), NEW n \in Nat, n = Len(s), NEW g, Encodes(s, g)
  PROVE  g \in [0..n -> Seq(Bytes)]
<1> DEFINE S == {m \in 0..n : g[m] \in Seq(Bytes)}
<1>1. /\ g[0] = <<>> /\ \A m \in 0..(n - 1) : g[m + 1] = g[m] \o Wide(s[m + 1])
  BY EncodesAt
<1>2. 0 \in S
  <2>1. g[0] \in Seq(Bytes)
    BY <1>1, EmptySeq
  <2>2. 0 \in 0..n
    OBVIOUS
  <2>3. QED
    BY <2>1, <2>2
<1>3. ASSUME NEW m \in 0..(n - 1), m \in S PROVE m + 1 \in S
  <2>1. m + 1 \in 1..n
    OBVIOUS
  <2>2. g[m] \o Wide(s[m + 1]) \in Seq(Bytes)
    BY <1>3, <2>1, ElementOfSeq, WideBytes, ConcatProperties
  <2>3. g[m + 1] \in Seq(Bytes)
    BY <1>1, <2>2
  <2>4. m + 1 \in 0..n
    OBVIOUS
  <2>5. QED
    BY <2>3, <2>4
<1> HIDE DEF S
<1>4. \A m \in 0..n : m \in S
  BY <1>2, <1>3, UpTo
<1>5. \A m \in 0..n : g[m] \in Seq(Bytes)
  BY <1>4 DEF S
<1>6. QED
  BY <1>5 DEF Encodes

LEMMA EncodeIs ==
  ASSUME NEW s \in Seq(Char), NEW n \in Nat, n = Len(s)
  PROVE  \E g \in [0..n -> Seq(Bytes)] : Encodes(s, g) /\ Encode(s) = g[n]
<1> DEFINE bytes == CHOOSE g : Encodes(s, g)
           step == [c \in 1..n |-> [b \in Seq(Bytes) |-> b \o Wide(s[c])]]
<1>1. Encode(s) = bytes[n]
  BY DEF Encode, Encodes, Wide
<1>2. \A c \in 1..n : s[c] \in Char
  BY ElementOfSeq
<1>3. \A c \in 1..n, b \in Seq(Bytes) : b \o Wide(s[c]) \in Seq(Bytes)
  BY <1>2, WideBytes, ConcatProperties
<1>4. step \in [1..n -> [Seq(Bytes) -> Seq(Bytes)]]
  BY <1>3
<1>5. \A c \in 1..n, b \in Seq(Bytes) : step[c][b] = b \o Wide(s[c])
  OBVIOUS
<1> HIDE DEF step
<1>6. PICK g \in [0..n -> Seq(Bytes)] : Recurs(g, n, <<>>, step)
  BY <1>4, Recursion, EmptySeq
<1>7. Encodes(s, g)
  <2>1. ASSUME NEW c \in 0..n, c # 0
        PROVE  step[c][g[c - 1]] = g[c - 1] \o Wide(s[c])
    <3>1. c \in 1..n /\ c - 1 \in 0..n
      BY <2>1
    <3>2. QED
      BY <1>5, <3>1
  <2>2. g = [c \in 0..n |-> IF c = 0 THEN <<>> ELSE g[c - 1] \o Wide(s[c])]
    BY <1>6, <2>1 DEF Recurs
  <2>3. QED
    BY <2>2 DEF Encodes
<1>8. Encodes(s, bytes)
  BY <1>7
<1> HIDE DEF bytes
<1>9. QED
  BY <1>1, <1>8, EncodesTyped

LEMMA EncodeTyped ==
  ASSUME NEW s \in Seq(Char)
  PROVE  Encode(s) \in Seq(Bytes)
<1>1. Len(s) \in Nat
  BY LenProperties
<1>2. QED
  BY <1>1, EncodeIs

(* What a string's encoding is, one character at a time.                    *)
LEMMA EncodeEmpty == Encode(<<>>) = <<>>
<1>1. <<>> \in Seq(Char) /\ Len(<<>>) = 0
  BY EmptySeq
<1>2. PICK g \in [0..0 -> Seq(Bytes)] : Encodes(<<>>, g) /\ Encode(<<>>) = g[0]
  BY <1>1, EncodeIs
<1>3. g[0] = <<>>
  BY <1>1, <1>2, EncodesAt
<1>4. QED
  BY <1>2, <1>3

LEMMA EncodeAppend ==
  ASSUME NEW s \in Seq(Char), NEW c \in Char
  PROVE  Encode(Append(s, c)) = Encode(s) \o Wide(c)
<1>0. SUFFICES ASSUME NEW n, n = Len(s), NEW t, t = Append(s, c)
               PROVE  Encode(t) = Encode(s) \o Wide(c)
  OBVIOUS
<1>1. /\ n \in Nat /\ t \in Seq(Char) /\ Len(t) = n + 1 /\ t[n + 1] = c
      /\ \A i \in 1..n : t[i] = s[i]
  BY <1>0, AppendProperties, LenProperties
<1>2. PICK g \in [0..n -> Seq(Bytes)] : Encodes(s, g) /\ Encode(s) = g[n]
  BY <1>0, <1>1, EncodeIs
<1>3. PICK h \in [0..(n + 1) -> Seq(Bytes)] : Encodes(t, h) /\ Encode(t) = h[n + 1]
  <2>1. n + 1 \in Nat
    BY <1>1
  <2>2. QED
    BY <1>1, <2>1, EncodeIs
<1>4. /\ g[0] = <<>> /\ \A m \in 0..(n - 1) : g[m + 1] = g[m] \o Wide(s[m + 1])
  BY <1>0, <1>1, <1>2, EncodesAt
<1>5. /\ h[0] = <<>> /\ \A m \in 0..n : h[m + 1] = h[m] \o Wide(t[m + 1])
  <2>1. n + 1 \in Nat /\ (n + 1) - 1 = n
    BY <1>1
  <2>2. /\ h[0] = <<>>
        /\ \A m \in 0..((n + 1) - 1) : h[m + 1] = h[m] \o Wide(t[m + 1])
    BY <1>1, <1>3, <2>1, EncodesAt
  <2>3. QED
    BY <2>1, <2>2
<1>6. \A m \in 0..n : h[m] = g[m]
  <2> DEFINE S == {m \in 0..n : h[m] = g[m]}
  <2>1. 0 \in S
    BY <1>1, <1>4, <1>5
  <2>2. ASSUME NEW m \in 0..(n - 1), m \in S PROVE m + 1 \in S
    <3>1. m + 1 \in 1..n /\ m \in 0..n
      BY <1>1
    <3>2. h[m + 1] = h[m] \o Wide(t[m + 1]) /\ g[m + 1] = g[m] \o Wide(s[m + 1])
      BY <1>4, <1>5, <3>1
    <3>3. h[m + 1] = g[m + 1]
      BY <1>1, <2>2, <3>1, <3>2
    <3>4. QED
      BY <1>1, <3>1, <3>3
  <2> HIDE DEF S
  <2>3. \A m \in 0..n : m \in S
    BY <1>1, <2>1, <2>2, UpTo
  <2>4. QED
    BY <2>3 DEF S
<1>7. n \in 0..n
  BY <1>1
<1>8. h[n] = g[n] /\ h[n + 1] = h[n] \o Wide(t[n + 1])
  BY <1>5, <1>6, <1>7, Zenon
<1>9. QED
  BY <1>1, <1>2, <1>3, <1>8, Zenon

LEMMA EncodeOne ==
  ASSUME NEW c \in Char
  PROVE  Encode(<<c>>) = Wide(c)
<1>1. <<c>> = Append(<<>>, c)
  OBVIOUS
<1>2. Encode(<<c>>) = <<>> \o Wide(c)
  BY <1>1, EncodeAppend, EncodeEmpty, EmptySeq
<1>3. QED
  BY <1>2, WideBytes, ConcatEmptySeq

LEMMA EncodeConcat ==
  ASSUME NEW s \in Seq(Char), NEW t \in Seq(Char)
  PROVE  Encode(s \o t) = Encode(s) \o Encode(t)
<1> DEFINE S == {u \in Seq(Char) : Encode(s \o u) = Encode(s) \o Encode(u)}
<1>1. <<>> \in S
  BY EncodeEmpty, EncodeTyped, ConcatEmptySeq, EmptySeq
<1>2. ASSUME NEW u \in Seq(Char), NEW c \in Char, u \in S
      PROVE  Append(u, c) \in S
  <2>1. s \o Append(u, c) = Append(s \o u, c) /\ s \o u \in Seq(Char)
    OBVIOUS
  <2>2. Encode(s \o Append(u, c)) = (Encode(s) \o Encode(u)) \o Wide(c)
    BY <1>2, <2>1, EncodeAppend
  <2>3. @ = Encode(s) \o (Encode(u) \o Wide(c))
    <3>1. Encode(s) \in Seq(Bytes) /\ Encode(u) \in Seq(Bytes) /\ Wide(c) \in Seq(Bytes)
      BY EncodeTyped, WideBytes
    <3>2. QED
      BY <3>1, ConcatAssociative, SMTT(30)
  <2>4. @ = Encode(s) \o Encode(Append(u, c))
    BY EncodeAppend
  <2>5. Append(u, c) \in Seq(Char)
    BY AppendProperties
  <2>6. QED
    BY <2>2, <2>3, <2>4, <2>5
<1> HIDE DEF S
<1>3. \A u \in Seq(Char) : u \in S
  BY <1>1, <1>2, SeqInduction
<1>4. QED
  BY <1>3 DEF S

---------------------------------------------------------------------------
(* Where characters begin.                                                  *)

At(s, q) == Len(Encode(SubSeq(s, 1, q)))

(* The text is s.                                                           *)
Holding(s) == /\ n_bytes = Len(Encode(s))
              /\ \A b \in 1..n_bytes : mem[b - 1] = Encode(s)[b]

(* A string and its encoding, cut at character q.                           *)
LEMMA CutAt ==
  ASSUME NEW s \in Seq(Char), NEW q \in 0..Len(s)
  PROVE  /\ Len(s) \in Nat
         /\ SubSeq(s, 1, q) \in Seq(Char) /\ Len(SubSeq(s, 1, q)) = q
         /\ SubSeq(s, q + 1, Len(s)) \in Seq(Char)
         /\ Len(SubSeq(s, q + 1, Len(s))) = Len(s) - q
         /\ s = SubSeq(s, 1, q) \o SubSeq(s, q + 1, Len(s))
<1>1. Len(s) \in Nat /\ q \in Int /\ \A i \in 1..Len(s) : s[i] \in Char
  BY LenProperties, ElementOfSeq
<1>2. SubSeq(s, 1, q) \in Seq(Char) /\ Len(SubSeq(s, 1, q)) = q
  <2>1. \A i \in 1..q : s[i] \in Char
    BY <1>1
  <2>2. QED
    BY <1>1, <2>1, SubSeqProperties
<1>3. /\ SubSeq(s, q + 1, Len(s)) \in Seq(Char)
      /\ Len(SubSeq(s, q + 1, Len(s))) = Len(s) - q
  <2>1. \A i \in (q + 1)..Len(s) : s[i] \in Char
    BY <1>1
  <2>2. q + 1 \in Int
    BY <1>1
  <2>3. QED
    BY <1>1, <2>1, <2>2, SubSeqProperties
<1>4. s = SubSeq(s, 1, q) \o SubSeq(s, q + 1, Len(s))
  <2>1. 1 \in 1..(Len(s) + 1) /\ q \in (1 - 1)..Len(s) /\ Len(s) \in q..Len(s)
    BY <1>1
  <2>2. SubSeq(s, 1, q) \o SubSeq(s, q + 1, Len(s)) = SubSeq(s, 1, Len(s))
    BY <2>1, ConcatAdjacentSubSeq
  <2>3. QED
    BY <2>2, SubSeqFull
<1>5. QED
  BY <1>1, <1>2, <1>3, <1>4

LEMMA NextChar ==
  ASSUME NEW s \in Seq(Char), NEW q \in 0..(Len(s) - 1)
  PROVE  SubSeq(s, 1, q + 1) = Append(SubSeq(s, 1, q), s[q + 1])
<1>1. Len(s) \in Nat /\ q \in Nat /\ q + 1 \in 1..Len(s) /\ (q + 1) - 1 = q
  BY LenProperties
<1>2. SubSeq(s, 1, q + 1) = SubSeq(s, 1, q) \o <<s[q + 1]>>
  <2>1. 1 \in 1..Len(s) /\ q + 1 \in 1..Len(s)
    BY <1>1
  <2>2. QED
    BY <1>1, <2>1, SubSeqRecursiveSecond
<1>3. SubSeq(s, 1, q) \in Seq(Char) /\ s[q + 1] \in Char
  BY <1>1, CutAt, ElementOfSeq
<1>4. QED
  BY <1>2, <1>3, AppendIsConcat

LEMMA AtEnds ==
  ASSUME NEW s \in Seq(Char)
  PROVE  At(s, 0) = 0 /\ At(s, Len(s)) = Len(Encode(s))
<1>1. SubSeq(s, 1, 0) = <<>>
  BY SubSeqEmpty
<1>2. SubSeq(s, 1, Len(s)) = s
  BY SubSeqFull
<1>3. Len(<<>>) = 0
  BY EmptySeq
<1>4. QED
  BY <1>1, <1>2, <1>3, EncodeEmpty DEF At

(* Three rows of bytes put together.                                        *)
Joined(a, w, z) ==
  /\ Len(a) \in Nat /\ Len(w) \in Nat /\ Len(z) \in Nat
  /\ Len(a \o w) = Len(a) + Len(w)
  /\ Len((a \o w) \o z) = Len(a) + Len(w) + Len(z)
  /\ \A i \in 1..Len(a) : ((a \o w) \o z)[i] = a[i]
  /\ \A j \in 1..Len(w) : ((a \o w) \o z)[Len(a) + j] = w[j]
  /\ \A j \in 1..Len(z) : ((a \o w) \o z)[Len(a) + Len(w) + j] = z[j]

LEMMA Three ==
  ASSUME NEW a \in Seq(Bytes), NEW w \in Seq(Bytes), NEW z \in Seq(Bytes)
  PROVE  Joined(a, w, z)
<1>1. Len(a) \in Nat /\ Len(w) \in Nat /\ Len(z) \in Nat
  BY LenProperties
<1>2. /\ a \o w \in Seq(Bytes) /\ Len(a \o w) = Len(a) + Len(w)
      /\ \A i \in 1..(Len(a) + Len(w)) :
           (a \o w)[i] = IF i <= Len(a) THEN a[i] ELSE w[i - Len(a)]
  BY ConcatProperties
<1>3. /\ (a \o w) \o z \in Seq(Bytes)
      /\ Len((a \o w) \o z) = Len(a \o w) + Len(z)
      /\ \A i \in 1..(Len(a \o w) + Len(z)) :
           ((a \o w) \o z)[i] = IF i <= Len(a \o w) THEN (a \o w)[i]
                                ELSE z[i - Len(a \o w)]
  BY <1>2, ConcatProperties
<1>4. ASSUME NEW i \in 1..Len(a) PROVE ((a \o w) \o z)[i] = a[i]
  <2>1. /\ i \in 1..(Len(a \o w) + Len(z)) /\ i <= Len(a \o w)
        /\ i \in 1..(Len(a) + Len(w)) /\ i <= Len(a)
    BY <1>1, <1>2
  <2>2. QED
    BY <1>2, <1>3, <2>1, Zenon
<1>5. ASSUME NEW j \in 1..Len(w) PROVE ((a \o w) \o z)[Len(a) + j] = w[j]
  <2>1. /\ Len(a) + j \in 1..(Len(a \o w) + Len(z)) /\ Len(a) + j <= Len(a \o w)
        /\ Len(a) + j \in 1..(Len(a) + Len(w)) /\ ~(Len(a) + j <= Len(a))
        /\ (Len(a) + j) - Len(a) = j
    BY <1>1, <1>2
  <2>2. QED
    BY <1>2, <1>3, <2>1, Zenon
<1>6. ASSUME NEW j \in 1..Len(z) PROVE ((a \o w) \o z)[Len(a) + Len(w) + j] = z[j]
  <2>1. /\ Len(a) + Len(w) + j \in 1..(Len(a \o w) + Len(z))
        /\ ~(Len(a) + Len(w) + j <= Len(a \o w))
        /\ (Len(a) + Len(w) + j) - Len(a \o w) = j
    BY <1>1, <1>2
  <2>2. QED
    BY <1>3, <2>1, Zenon
<1>7. QED
  BY <1>1, <1>2, <1>3, <1>4, <1>5, <1>6 DEF Joined

(* The bytes of character q + 1, within those of the string.                *)
LEMMA AtNext ==
  ASSUME NEW s \in Seq(Char), NEW q \in 0..(Len(s) - 1)
  PROVE  /\ s[q + 1] \in Char /\ width[s[q + 1]] \in 1..4
         /\ At(s, q) \in Nat /\ At(s, q + 1) = At(s, q) + width[s[q + 1]]
         /\ Len(Encode(s)) \in Nat /\ At(s, q + 1) <= Len(Encode(s))
         /\ \A j \in 1..width[s[q + 1]] : Encode(s)[At(s, q) + j] = <<s[q + 1], j>>
<1> DEFINE c   == s[q + 1]
           pre == SubSeq(s, 1, q)
           suf == SubSeq(s, (q + 1) + 1, Len(s))
<1>1. /\ Len(s) \in Nat /\ q \in 0..Len(s) /\ q + 1 \in 0..Len(s) /\ c \in Char
  BY LenProperties, ElementOfSeq
<1>2. /\ pre \in Seq(Char) /\ suf \in Seq(Char) /\ SubSeq(s, 1, q + 1) \in Seq(Char)
      /\ s = SubSeq(s, 1, q + 1) \o suf
  BY <1>1, CutAt
<1>3. SubSeq(s, 1, q + 1) = Append(pre, c)
  BY NextChar
<1>4. At(s, q) = Len(Encode(pre)) /\ At(s, q + 1) = Len(Encode(SubSeq(s, 1, q + 1)))
  BY DEF At
<1> HIDE DEF c, pre, suf
<1>5. Encode(SubSeq(s, 1, q + 1)) = Encode(pre) \o Wide(c)
  BY <1>1, <1>2, <1>3, EncodeAppend
<1>6. Encode(s) = (Encode(pre) \o Wide(c)) \o Encode(suf)
  BY <1>2, <1>5, EncodeConcat
<1>7. /\ Encode(pre) \in Seq(Bytes) /\ Encode(suf) \in Seq(Bytes)
      /\ Wide(c) \in Seq(Bytes) /\ Len(Wide(c)) = width[c] /\ width[c] \in 1..4
      /\ \A j \in 1..width[c] : Wide(c)[j] = <<c, j>>
  BY <1>1, <1>2, EncodeTyped, WideBytes
<1>8. Joined(Encode(pre), Wide(c), Encode(suf))
  BY <1>7, Three
<1>9. /\ At(s, q) \in Nat /\ At(s, q + 1) = At(s, q) + width[c]
      /\ Len(Encode(s)) = At(s, q) + width[c] + Len(Encode(suf))
      /\ \A j \in 1..width[c] : Encode(s)[At(s, q) + j] = <<c, j>>
  <2>1. Len(Encode(s)) = At(s, q) + width[c] + Len(Encode(suf))
    BY <1>4, <1>6, <1>7, <1>8, Zenon DEF Joined
  <2>2. \A j \in 1..width[c] : Encode(s)[At(s, q) + j] = <<c, j>>
    BY <1>4, <1>6, <1>7, <1>8, Zenon DEF Joined
  <2>3. At(s, q) \in Nat /\ At(s, q + 1) = At(s, q) + width[c]
    BY <1>4, <1>5, <1>7, <1>8, Zenon DEF Joined
  <2>4. QED
    BY <2>1, <2>2, <2>3
<1>10. Len(Encode(s)) \in Nat /\ At(s, q + 1) <= Len(Encode(s))
  BY <1>7, <1>8, <1>9, SMTT(30) DEF Joined
<1>11. QED
  BY <1>1, <1>7, <1>9, <1>10, Zenon DEF c

---------------------------------------------------------------------------
(* g_utf8_offset_to_pointer finds character p where the encoding of the     *)
(* first p characters ends.                                                 *)

Skip(b) == IF b[1] \in Char /\ b[2] = 1 THEN width[b[1]] ELSE 1

Walks(p, g) ==
  g = [q \in 0..p |-> IF q = 0 THEN 0 ELSE g[q - 1] + Skip(mem[g[q - 1]])]

LEMMA WalkExists ==
  ASSUME NEW p \in Nat
  PROVE  \E g : Walks(p, g)
<1> DEFINE step == [q \in 1..p |-> [at \in Nat |-> at + Skip(mem[at])]]
<1>1. \A at \in Nat : at + Skip(mem[at]) \in Nat
  <2> SUFFICES ASSUME NEW at \in Nat PROVE Skip(mem[at]) \in Nat
    OBVIOUS
  <2>1. CASE mem[at][1] \in Char /\ mem[at][2] = 1
    BY <2>1, SecureBufferAssumption DEF Skip
  <2>2. CASE ~(mem[at][1] \in Char /\ mem[at][2] = 1)
    BY <2>2 DEF Skip
  <2>3. QED
    BY <2>1, <2>2
<1>2. step \in [1..p -> [Nat -> Nat]]
  BY <1>1
<1>3. \A q \in 1..p, at \in Nat : step[q][at] = at + Skip(mem[at])
  OBVIOUS
<1> HIDE DEF step
<1>4. PICK g \in [0..p -> Nat] : Recurs(g, p, 0, step)
  BY <1>2, Recursion
<1>5. ASSUME NEW q \in 0..p, q # 0
      PROVE  step[q][g[q - 1]] = g[q - 1] + Skip(mem[g[q - 1]])
  <2>1. q \in 1..p /\ q - 1 \in 0..p
    BY <1>5
  <2>2. QED
    BY <1>3, <2>1
<1>6. g = [q \in 0..p |-> IF q = 0 THEN 0 ELSE g[q - 1] + Skip(mem[g[q - 1]])]
  BY <1>4, <1>5 DEF Recurs
<1>7. QED
  BY <1>6 DEF Walks

LEMMA OffsetFinds ==
  \A s \in Seq(Char) : Holding(s) => \A p \in 0..Len(s) : Offset(p) = At(s, p)
<1> SUFFICES ASSUME NEW s \in Seq(Char), Holding(s), NEW p \in 0..Len(s)
             PROVE  Offset(p) = At(s, p)
  OBVIOUS
<1>1. Offset(p) = (CHOOSE g : Walks(p, g))[p]
  BY DEF Offset, Walks, Skip
<1>2. p \in Nat /\ Len(s) \in Nat
  BY LenProperties
<1>3. PICK g : g = (CHOOSE h : Walks(p, h)) /\ Walks(p, g)
  BY <1>2, WalkExists
<1>4. \A q \in 0..p : g[q] = IF q = 0 THEN 0 ELSE g[q - 1] + Skip(mem[g[q - 1]])
  BY <1>3 DEF Walks
<1> DEFINE S == {q \in 0..p : g[q] = At(s, q)}
<1>5. 0 \in S
  <2>1. g[0] = At(s, 0)
    BY <1>2, <1>4, AtEnds
  <2>2. 0 \in 0..p
    BY <1>2
  <2>3. QED
    BY <2>1, <2>2
<1>6. ASSUME NEW q \in 0..(p - 1), q \in S PROVE q + 1 \in S
  <2>1. /\ q \in 0..(Len(s) - 1) /\ q + 1 \in 0..p /\ q + 1 # 0 /\ (q + 1) - 1 = q
        /\ g[q] = At(s, q)
    BY <1>2, <1>6
  <2>2. g[q + 1] = At(s, q) + Skip(mem[At(s, q)])
    <3>1. g[q + 1] = g[q] + Skip(mem[g[q]])
      BY <1>4, <2>1, Zenon
    <3>2. QED
      BY <2>1, <3>1, Zenon
  <2>3. /\ s[q + 1] \in Char /\ width[s[q + 1]] \in 1..4
        /\ At(s, q) \in Nat /\ At(s, q + 1) = At(s, q) + width[s[q + 1]]
        /\ Len(Encode(s)) \in Nat /\ At(s, q + 1) <= Len(Encode(s))
        /\ \A j \in 1..width[s[q + 1]] : Encode(s)[At(s, q) + j] = <<s[q + 1], j>>
    BY <2>1, AtNext
  <2>4. 1 \in 1..width[s[q + 1]] /\ At(s, q) + 1 \in 1..Len(Encode(s))
        /\ (At(s, q) + 1) - 1 = At(s, q)
    BY <2>3, SMTT(30)
  <2>5. mem[At(s, q)] = Encode(s)[At(s, q) + 1]
    BY <2>4, Zenon DEF Holding
  <2>6. mem[At(s, q)] = <<s[q + 1], 1>>
    BY <2>3, <2>4, <2>5, Zenon
  <2>7. Skip(mem[At(s, q)]) = width[s[q + 1]]
    BY <2>3, <2>6 DEF Skip
  <2>8. g[q + 1] = At(s, q + 1)
    BY <2>2, <2>3, <2>7, Zenon
  <2>9. QED
    BY <2>1, <2>8
<1> HIDE DEF S
<1>7. \A q \in 0..p : q \in S
  BY <1>2, <1>5, <1>6, UpTo
<1>8. g[p] = At(s, p)
  <2>1. p \in 0..p
    BY <1>2
  <2>2. QED
    BY <1>7, <2>1 DEF S
<1>9. QED
  BY <1>1, <1>3, <1>8, Zenon

---------------------------------------------------------------------------
(* Decoding gives back what was encoded.                                    *)

Reads(n, g) ==
  g = [b \in 0..n |->
         IF b = 0 THEN <<>>
         ELSE IF mem[b - 1][2] = 1 THEN Append(g[b - 1], mem[b - 1][1])
         ELSE g[b - 1]]

LEMMA ReadExists ==
  ASSUME NEW n \in Nat, \A b \in 1..n : mem[b - 1] \in Bytes
  PROVE  \E g : Reads(n, g)
<1> DEFINE After(b, t) ==
             IF mem[b - 1][2] = 1 THEN Append(t, mem[b - 1][1]) ELSE t
           step == [b \in 1..n |-> [t \in Seq(Char) |-> After(b, t)]]
<1>1. \A b \in 1..n, t \in Seq(Char) : After(b, t) \in Seq(Char)
  <2> SUFFICES ASSUME NEW b \in 1..n, NEW t \in Seq(Char)
               PROVE  After(b, t) \in Seq(Char)
    OBVIOUS
  <2>1. mem[b - 1][1] \in Char
    BY DEF Bytes
  <2>2. Append(t, mem[b - 1][1]) \in Seq(Char)
    BY <2>1, AppendProperties
  <2>3. QED
    BY <2>2
<1> HIDE DEF After
<1>2. step \in [1..n -> [Seq(Char) -> Seq(Char)]]
  BY <1>1
<1>3. \A b \in 1..n, t \in Seq(Char) : step[b][t] = After(b, t)
  OBVIOUS
<1> HIDE DEF step
<1>4. PICK g \in [0..n -> Seq(Char)] : Recurs(g, n, <<>>, step)
  BY <1>2, Recursion, EmptySeq
<1>5. ASSUME NEW b \in 0..n, b # 0
      PROVE  step[b][g[b - 1]] = After(b, g[b - 1])
  <2>1. b \in 1..n /\ b - 1 \in 0..n
    BY <1>5
  <2>2. QED
    BY <1>3, <2>1
<1>6. g = [b \in 0..n |-> IF b = 0 THEN <<>> ELSE After(b, g[b - 1])]
  BY <1>4, <1>5 DEF Recurs
<1>7. QED
  BY <1>6 DEF Reads, After

LEMMA ReadBack ==
  \A s \in Seq(Char) : Holding(s) => Decoded = s
<1> SUFFICES ASSUME NEW s \in Seq(Char), Holding(s) PROVE Decoded = s
  OBVIOUS
<1>1. Decoded = (CHOOSE g : Reads(n_bytes, g))[n_bytes]
  BY DEF Decoded, Reads
<1>2. Len(s) \in Nat /\ n_bytes \in Nat /\ n_bytes = Len(Encode(s))
  BY EncodeTyped, LenProperties DEF Holding
<1>3. \A b \in 1..n_bytes : mem[b - 1] \in Bytes
  <2>1. \A b \in 1..n_bytes : Encode(s)[b] \in Bytes
    BY <1>2, EncodeTyped, ElementOfSeq
  <2>2. QED
    BY <2>1 DEF Holding
<1>4. PICK g : g = (CHOOSE h : Reads(n_bytes, h)) /\ Reads(n_bytes, g)
  BY <1>2, <1>3, ReadExists
<1>5. /\ g[0] = <<>>
      /\ \A b \in 0..n_bytes : b # 0 /\ mem[b - 1][2] = 1 =>
           g[b] = Append(g[b - 1], mem[b - 1][1])
      /\ \A b \in 0..n_bytes : b # 0 /\ mem[b - 1][2] # 1 => g[b] = g[b - 1]
  <2>1. \A b \in 0..n_bytes :
          g[b] = IF b = 0 THEN <<>>
                 ELSE IF mem[b - 1][2] = 1 THEN Append(g[b - 1], mem[b - 1][1])
                 ELSE g[b - 1]
    BY <1>4 DEF Reads
  <2>2. 0 \in 0..n_bytes
    BY <1>2
  <2>3. g[0] = <<>>
    BY <2>1, <2>2, Zenon
  <2>4. \A b \in 0..n_bytes : b # 0 /\ mem[b - 1][2] = 1 =>
          g[b] = Append(g[b - 1], mem[b - 1][1])
    BY <2>1, Zenon
  <2>5. \A b \in 0..n_bytes : b # 0 /\ mem[b - 1][2] # 1 => g[b] = g[b - 1]
    BY <2>1, Zenon
  <2>6. QED
    BY <2>3, <2>4, <2>5
<1>6. ASSUME NEW q \in 0..(Len(s) - 1), g[At(s, q)] = SubSeq(s, 1, q)
      PROVE  g[At(s, q + 1)] = SubSeq(s, 1, q + 1)
  <2>1. /\ s[q + 1] \in Char /\ width[s[q + 1]] \in 1..4
        /\ At(s, q) \in Nat /\ At(s, q + 1) = At(s, q) + width[s[q + 1]]
        /\ Len(Encode(s)) \in Nat /\ At(s, q + 1) <= Len(Encode(s))
        /\ \A j \in 1..width[s[q + 1]] : Encode(s)[At(s, q) + j] = <<s[q + 1], j>>
    BY AtNext
  <2>2. PICK a, w, c : a = At(s, q) /\ w = width[s[q + 1]] /\ c = s[q + 1]
    OBVIOUS
  <2>3. /\ a \in Nat /\ w \in 1..4 /\ a + w <= n_bytes /\ At(s, q + 1) = a + w
        /\ g[a] = SubSeq(s, 1, q)
    BY <1>2, <1>6, <2>1, <2>2
  <2>4. \A j \in 1..w : mem[a + j - 1] = <<c, j>>
    <3> SUFFICES ASSUME NEW j \in 1..w PROVE mem[a + j - 1] = <<c, j>>
      OBVIOUS
    <3>1. a + j \in 1..n_bytes /\ (a + j) - 1 = a + j - 1
      BY <1>2, <2>3
    <3>2. mem[(a + j) - 1] = Encode(s)[a + j]
      BY <3>1, Zenon DEF Holding
    <3>3. Encode(s)[a + j] = <<c, j>>
      BY <2>1, <2>2, Zenon
    <3>4. QED
      BY <3>1, <3>2, <3>3
  <2> DEFINE next == Append(SubSeq(s, 1, q), c)
             S == {j \in 0..(w - 1) : g[a + 1 + j] = next}
  <2>5. 0 \in S
    <3>1. 1 \in 1..w /\ a + 1 \in 0..n_bytes /\ a + 1 # 0 /\ (a + 1) - 1 = a
          /\ a + 1 - 1 = a /\ a + 1 + 0 = a + 1 /\ 0 \in 0..(w - 1)
      BY <1>2, <2>3
    <3>2. mem[a] = <<c, 1>>
      BY <2>4, <3>1
    <3>3. mem[a][1] = c /\ mem[a][2] = 1
      BY <3>2
    <3>4. g[a + 1] = Append(g[a], mem[a][1])
      BY <1>5, <3>1, <3>3, Zenon
    <3>5. g[a + 1] = next
      BY <2>3, <3>3, <3>4, Zenon
    <3>6. QED
      BY <3>1, <3>5
  <2>6. ASSUME NEW j \in 0..(w - 1 - 1), j \in S PROVE j + 1 \in S
    <3>1. j + 2 \in 1..w /\ a + (j + 2) \in 0..n_bytes /\ a + (j + 2) # 0
          /\ (a + (j + 2)) - 1 = a + 1 + j /\ a + (j + 2) - 1 = a + 1 + j
          /\ a + 1 + (j + 1) = a + (j + 2) /\ j + 1 \in 0..(w - 1)
          /\ j + 2 # 1 /\ g[a + 1 + j] = next
      BY <1>2, <2>3, <2>6
    <3>2. mem[a + 1 + j] = <<c, j + 2>>
      BY <2>4, <3>1, Zenon
    <3>3. mem[a + 1 + j][2] # 1
      BY <3>1, <3>2
    <3>4. g[a + (j + 2)] = g[a + 1 + j]
      BY <1>5, <3>1, <3>3, Zenon
    <3>5. g[a + 1 + (j + 1)] = next
      BY <3>1, <3>4, Zenon
    <3>6. QED
      BY <3>1, <3>5
  <2>7. w - 1 \in Nat
    BY <2>3
  <2> HIDE DEF S
  <2>8. \A j \in 0..(w - 1) : j \in S
    BY <2>5, <2>6, <2>7, UpTo
  <2>9. g[a + w] = next
    <3>1. w - 1 \in 0..(w - 1) /\ a + 1 + (w - 1) = a + w
      BY <2>3
    <3>2. g[a + 1 + (w - 1)] = next
      BY <2>8, <3>1 DEF S
    <3>3. QED
      BY <3>1, <3>2
  <2>10. next = SubSeq(s, 1, q + 1)
    BY <2>2, NextChar
  <2>11. QED
    BY <2>3, <2>9, <2>10, Zenon
<1> DEFINE S == {q \in 0..Len(s) : g[At(s, q)] = SubSeq(s, 1, q)}
<1>7. 0 \in S
  <2>1. g[At(s, 0)] = SubSeq(s, 1, 0)
    <3>1. SubSeq(s, 1, 0) = <<>>
      BY SubSeqEmpty
    <3>2. QED
      BY <1>5, <3>1, AtEnds, Zenon
  <2>2. 0 \in 0..Len(s)
    BY <1>2
  <2>3. QED
    BY <2>1, <2>2
<1>8. ASSUME NEW q \in 0..(Len(s) - 1), q \in S PROVE q + 1 \in S
  <2>1. q + 1 \in 0..Len(s)
    BY <1>2
  <2>2. g[At(s, q + 1)] = SubSeq(s, 1, q + 1)
    BY <1>6, <1>8
  <2>3. QED
    BY <2>1, <2>2
<1> HIDE DEF S
<1>9. \A q \in 0..Len(s) : q \in S
  BY <1>2, <1>7, <1>8, UpTo
<1>10. g[At(s, Len(s))] = SubSeq(s, 1, Len(s))
  <2>1. Len(s) \in 0..Len(s)
    BY <1>2
  <2>2. QED
    BY <1>9, <2>1 DEF S
<1>11. g[n_bytes] = s
  BY <1>2, <1>10, AtEnds, SubSeqFull
<1>12. QED
  BY <1>1, <1>4, <1>11, Zenon

---------------------------------------------------------------------------
(* The growth.                                                              *)

Doubles(need, g) == g = [c \in Nat |-> IF c >= need THEN c ELSE g[2 * c]]

LEMMA DoublingExists ==
  ASSUME NEW need \in Nat
  PROVE  \E g : Doubles(need, g)
<1> DEFINE Upon(d, g) == \A c \in Nat : c + d >= need =>
                           g[c] = IF c >= need THEN c ELSE g[2 * c]
           S == {d \in 0..need : \E g \in [Nat -> Nat] : Upon(d, g)}
<1>1. 0 \in S
  <2> DEFINE g == [c \in Nat |-> c]
  <2>1. g \in [Nat -> Nat] /\ Upon(0, g)
    OBVIOUS
  <2> HIDE DEF g
  <2>2. QED
    BY <2>1
<1>2. ASSUME NEW d \in 0..(need - 1), d \in S PROVE d + 1 \in S
  <2>1. PICK g \in [Nat -> Nat] : Upon(d, g)
    BY <1>2
  <2> DEFINE e == (need - d) - 1
             h == [c \in Nat |-> IF c = e THEN g[2 * e] ELSE g[c]]
  <2>2. e \in Nat /\ 2 * e \in Nat
    OBVIOUS
  <2>3. h \in [Nat -> Nat]
    BY <2>2
  <2>4. ASSUME NEW c \in Nat, c + (d + 1) >= need
        PROVE  h[c] = IF c >= need THEN c ELSE h[2 * c]
    <3>1. CASE c = e
      <4>1. h[c] = g[2 * c] /\ ~(c >= need) /\ 2 * c \in Nat
        BY <3>1
      <4>2. h[2 * c] = g[2 * c]
        BY <3>1, <4>1
      <4>3. QED
        BY <4>1, <4>2
    <3>2. CASE c # e
      <4>1. c + d >= need /\ 2 * c \in Nat /\ 2 * c # e
        BY <2>4, <3>2
      <4>2. h[c] = g[c] /\ h[2 * c] = g[2 * c]
        BY <3>2, <4>1
      <4>3. g[c] = IF c >= need THEN c ELSE g[2 * c]
        BY <2>1, <4>1
      <4>4. QED
        BY <4>2, <4>3
    <3>3. QED
      BY <3>1, <3>2
  <2>5. Upon(d + 1, h)
    BY <2>4
  <2>6. d + 1 \in 0..need
    OBVIOUS
  <2> HIDE DEF h, Upon
  <2>7. QED
    BY <2>3, <2>5, <2>6
<1> HIDE DEF S
<1>3. \A d \in 0..need : d \in S
  BY <1>1, <1>2, UpTo
<1>4. need \in S
  BY <1>3
<1>5. PICK g \in [Nat -> Nat] : Upon(need, g)
  BY <1>4 DEF S
<1>6. \A c \in Nat : g[c] = IF c >= need THEN c ELSE g[2 * c]
  BY <1>5
<1>7. g = [c \in Nat |-> IF c >= need THEN c ELSE g[2 * c]]
  BY <1>6
<1>8. QED
  BY <1>7 DEF Doubles

LEMMA DoublingFits ==
  ASSUME NEW need \in Nat, NEW g, Doubles(need, g), NEW c \in Nat, c >= 1
  PROVE  g[c] \in Nat /\ g[c] >= need /\ g[c] >= c
<1>1. \A e \in Nat : g[e] = IF e >= need THEN e ELSE g[2 * e]
  BY DEF Doubles
<1> DEFINE Fits(e) == g[e] \in Nat /\ g[e] >= need /\ g[e] >= e
           S == {d \in 0..need : \A e \in Nat : e >= 1 /\ e + d >= need => Fits(e)}
<1>2. 0 \in S
  <2>1. ASSUME NEW e \in Nat, e + 0 >= need PROVE Fits(e)
    <3>1. e >= need /\ g[e] = e
      BY <1>1, <2>1
    <3>2. QED
      BY <3>1
  <2>2. QED
    BY <2>1
<1>3. ASSUME NEW d \in 0..(need - 1), d \in S PROVE d + 1 \in S
  <2>1. ASSUME NEW e \in Nat, e >= 1, e + (d + 1) >= need PROVE Fits(e)
    <3>1. CASE e >= need
      <4>1. g[e] = e
        BY <1>1, <3>1
      <4>2. QED
        BY <3>1, <4>1
    <3>2. CASE ~(e >= need)
      <4>1. 2 * e \in Nat /\ 2 * e >= 1 /\ 2 * e + d >= need /\ 2 * e >= e
        BY <2>1
      <4>2. Fits(2 * e)
        BY <1>3, <4>1
      <4>3. g[e] = g[2 * e]
        BY <1>1, <3>2
      <4>4. QED
        BY <4>1, <4>2, <4>3
    <3>3. QED
      BY <3>1, <3>2
  <2>2. d + 1 \in 0..need
    OBVIOUS
  <2> HIDE DEF Fits
  <2>3. QED
    BY <2>1, <2>2
<1> HIDE DEF S
<1>4. \A d \in 0..need : d \in S
  BY <1>2, <1>3, UpTo
<1>5. need \in S /\ c + need >= need
  BY <1>4
<1>6. QED
  BY <1>5 DEF S

(* ensure_cap: room for what is needed, and the text still there.           *)
LEMMA GrownFits ==
  ASSUME TypeOK, alive, NEW need \in Nat
  PROVE  \E m \in Nat : /\ m >= need /\ m >= cap
                        /\ DOMAIN Grown(need) = 0..(m - 1)
                        /\ \A b \in 0..n_bytes : Grown(need)[b] = mem[b]
<1>1. cap \in Nat /\ DOMAIN mem = 0..(cap - 1) /\ n_bytes \in Nat /\ n_bytes < cap
  BY DEF TypeOK
<1>2. CASE need <= cap
  <2>1. Grown(need) = mem
    BY <1>2 DEF Grown
  <2>2. QED
    BY <1>1, <1>2, <2>1
<1>3. CASE ~(need <= cap)
  <2>1. PICK g : g = (CHOOSE h : Doubles(need, h)) /\ Doubles(need, g)
    BY DoublingExists
  <2>2. PICK m : m = g[cap]
    OBVIOUS
  <2>3. cap >= 1 /\ cap # 0
    BY <1>1
  <2>4. m \in Nat /\ m >= need /\ m >= cap
    BY <1>1, <2>1, <2>2, <2>3, DoublingFits
  <2>5. Grown(need) = [b \in 0..(m - 1) |-> IF b <= n_bytes THEN mem[b] ELSE fresh]
    BY <1>3, <2>1, <2>2, <2>3 DEF Grown, Doubles
  <2>6. DOMAIN Grown(need) = 0..(m - 1)
    BY <2>5
  <2>7. \A b \in 0..n_bytes : Grown(need)[b] = mem[b]
    BY <1>1, <2>4, <2>5
  <2>8. QED
    BY <2>4, <2>6, <2>7
<1>4. QED
  BY <1>2, <1>3

---------------------------------------------------------------------------
(* The invariant: the live part encodes what it decodes to, and the         *)
(* terminator is all that was ever written behind it.                       *)

IInv == TypeOK /\ Decoded \in Seq(Char) /\ CountsAgree /\ NothingLingers

(* The text is s, in characters and in bytes.                               *)
LEMMA TextIsHeld ==
  ASSUME IInv
  PROVE  \E s \in Seq(Char) : s = Decoded /\ Holding(s) /\ n_chars = Len(s)
<1>1. PICK s \in Seq(Char) : s = Decoded
  BY DEF IInv
<1>2. n_bytes \in Nat /\ n_chars = Len(s) /\ Live = Encode(s)
  BY <1>1 DEF IInv, TypeOK, CountsAgree
<1>3. Holding(s)
  <2>1. CASE n_bytes = 0
    <3>1. Encode(s) = <<>> /\ Len(Encode(s)) = 0
      BY <1>2, <2>1, EmptySeq DEF Live
    <3>2. QED
      BY <2>1, <3>1 DEF Holding
  <2>2. CASE n_bytes # 0
    <3>1. Encode(s) = [b \in 1..n_bytes |-> mem[b - 1]]
      BY <1>2, <2>2 DEF Live
    <3>2. Encode(s) \in Seq(Bytes)
      BY EncodeTyped
    <3>3. DOMAIN Encode(s) = 1..Len(Encode(s)) /\ Len(Encode(s)) \in Nat
      BY <3>2, LenProperties
    <3>4. DOMAIN Encode(s) = 1..n_bytes
      BY <3>1, Zenon
    <3>5. n_bytes = Len(Encode(s))
      <4>1. \A l \in Nat : 1..l = 1..n_bytes => n_bytes = l
        BY <1>2, <2>2
      <4>2. QED
        BY <3>3, <3>4, <4>1, Zenon
    <3>6. \A b \in 1..n_bytes : mem[b - 1] = Encode(s)[b]
      BY <3>1
    <3>7. QED
      BY <3>5, <3>6 DEF Holding
  <2>3. QED
    BY <2>1, <2>2
<1>4. QED
  BY <1>1, <1>2, <1>3

(* And any text that is there, with a terminator and nothing but NUL behind,*)
(* makes the invariant.                                                     *)
Settled(s, m) ==
  /\ Holding(s) /\ n_chars = Len(s) /\ Len(s) <= MaxChars
  /\ DOMAIN mem = 0..(m - 1) /\ alive \in BOOLEAN
  /\ n_bytes < m \/ (m = 0 /\ n_bytes = 0 /\ ~alive)
  /\ m > 0 => mem[n_bytes] = NUL
  /\ \A b \in 0..(m - 1) : b > n_bytes => mem[b] \in {NUL, fresh}

WhatIsHeld ==
  \A s \in Seq(Char), m \in Nat : Settled(s, m) => IInv /\ Decoded = s

LEMMA HeldText == WhatIsHeld
<1> SUFFICES ASSUME NEW s \in Seq(Char), NEW m \in Nat,
                    Holding(s), n_chars = Len(s), Len(s) <= MaxChars,
                    DOMAIN mem = 0..(m - 1), alive \in BOOLEAN,
                    n_bytes < m \/ (m = 0 /\ n_bytes = 0 /\ ~alive),
                    m > 0 => mem[n_bytes] = NUL,
                    \A b \in 0..(m - 1) : b > n_bytes => mem[b] \in {NUL, fresh}
             PROVE  IInv /\ Decoded = s
  BY DEF WhatIsHeld, Settled
<1>1. Decoded = s
  BY ReadBack
<1>2. cap = m
  <2>1. Cardinality(0..(m - 1)) = m
    BY FS_Interval
  <2>2. QED
    BY <2>1 DEF cap
<1>3. /\ Encode(s) \in Seq(Bytes) /\ n_bytes = Len(Encode(s)) /\ n_bytes \in Nat
      /\ Len(s) \in Nat /\ MaxChars \in Nat
  BY EncodeTyped, LenProperties, SecureBufferAssumption DEF Holding
<1>4. ASSUME NEW b \in 0..(m - 1)
      PROVE  mem[b] \in (Char \X (1..4)) \cup {NUL, fresh}
  <2>1. CASE b < n_bytes
    <3>1. b + 1 \in 1..n_bytes /\ (b + 1) - 1 = b
      BY <1>3, <2>1
    <3>2. mem[b] = Encode(s)[b + 1]
      BY <3>1 DEF Holding
    <3>3. Encode(s)[b + 1] \in Bytes
      BY <1>3, <3>1, ElementOfSeq
    <3>4. QED
      BY <3>2, <3>3 DEF Bytes
  <2>2. CASE b = n_bytes
    BY <1>3, <2>2
  <2>3. CASE b > n_bytes
    BY <2>3
  <2>4. QED
    BY <1>3, <2>1, <2>2, <2>3
<1>5. TypeOK
  BY <1>2, <1>3, <1>4 DEF TypeOK
<1>6. Live = Encode(s)
  <2>1. CASE n_bytes = 0
    BY <1>3, <2>1, EmptySeq DEF Live
  <2>2. CASE n_bytes # 0
    <3>1. Encode(s) = [b \in 1..n_bytes |-> Encode(s)[b]]
      BY <1>3, LenProperties
    <3>2. \A b \in 1..n_bytes : Encode(s)[b] = mem[b - 1]
      BY DEF Holding
    <3>3. Encode(s) = [b \in 1..n_bytes |-> mem[b - 1]]
      BY <3>1, <3>2
    <3>4. QED
      BY <2>2, <3>3 DEF Live
  <2>3. QED
    BY <2>1, <2>2
<1>7. CountsAgree
  BY <1>1, <1>2, <1>6 DEF CountsAgree
<1>8. NothingLingers
  BY DEF NothingLingers
<1>9. QED
  BY <1>1, <1>5, <1>7, <1>8 DEF IInv

LEMMA HeldTextNext == WhatIsHeld'
BY HeldText, PTL

LEMMA InitHolds ==
  ASSUME Init
  PROVE  IInv /\ Decoded = <<>>
<1>1. <<>> \in Seq(Char) /\ Len(<<>>) = 0 /\ 32 \in Nat /\ MaxChars \in Nat
  BY EmptySeq, SecureBufferAssumption
<1>2. Holding(<<>>)
  BY <1>1, EncodeEmpty DEF Init, Holding
<1>3. /\ n_chars = 0 /\ n_bytes = 0 /\ DOMAIN mem = 0..(32 - 1) /\ alive \in BOOLEAN
      /\ mem[0] = NUL /\ \A b \in 0..(32 - 1) : b > 0 => mem[b] \in {NUL, fresh}
  BY DEF Init
<1>4. Settled(<<>>, 32)
  BY <1>1, <1>2, <1>3 DEF Settled
<1>5. QED
  BY <1>1, <1>4, HeldText DEF WhatIsHeld

---------------------------------------------------------------------------
(* What the operations do to the text.                                      *)

(* The bytes of an insertion, before the terminator is written.             *)
Shifted(base, bytes, at, len) ==
  [b \in DOMAIN base |-> IF b \in at..(at + Len(bytes) - 1) THEN bytes[b - at + 1]
                         ELSE IF b \in (at + Len(bytes))..(len + Len(bytes) - 1)
                              THEN base[b - Len(bytes)]
                         ELSE base[b]]

LEMMA InsertKeeps ==
  ASSUME IInv, alive, NEW position \in 0..n_chars, NEW t \in Pastes,
         n_chars + Len(t) <= MaxChars, seb_insert_text(position, t)
  PROVE  /\ IInv'
         /\ Decoded' = SubSeq(Decoded, 1, position) \o t
                         \o SubSeq(Decoded, position + 1, Len(Decoded))
<1>1. PICK s \in Seq(Char) : s = Decoded /\ Holding(s) /\ n_chars = Len(s)
  BY TextIsHeld
<1>2. PICK pre, suf : /\ pre = SubSeq(s, 1, position)
                      /\ suf = SubSeq(s, position + 1, Len(s))
  OBVIOUS
<1>3. /\ Len(s) \in Nat /\ position \in 0..Len(s)
      /\ pre \in Seq(Char) /\ suf \in Seq(Char) /\ s = pre \o suf
      /\ Len(pre) = position /\ Len(suf) = Len(s) - position
  BY <1>1, <1>2, CutAt
<1>4. t \in Seq(Char) /\ Len(t) \in Nat
  BY SecureBufferAssumption, LenProperties
<1>5. PICK a, w, z, r : a = Encode(pre) /\ w = Encode(t) /\ z = Encode(suf) /\ r = (pre \o t) \o suf
  OBVIOUS
<1>6. a \in Seq(Bytes) /\ w \in Seq(Bytes) /\ z \in Seq(Bytes)
  BY <1>3, <1>4, <1>5, EncodeTyped
<1>7. /\ r \in Seq(Char) /\ Len(r) = n_chars + Len(t)
      /\ Encode(r) = (a \o w) \o z /\ Encode(s) = a \o z
  <2>1. pre \o t \in Seq(Char) /\ Len(pre \o t) = Len(pre) + Len(t)
    BY <1>3, <1>4, ConcatProperties
  <2>2. r \in Seq(Char) /\ Len(r) = Len(pre \o t) + Len(suf)
    BY <1>3, <1>5, <2>1, ConcatProperties
  <2>3. Encode(r) = Encode(pre \o t) \o Encode(suf)
    BY <1>3, <1>5, <2>1, EncodeConcat
  <2>4. Encode(pre \o t) = a \o w
    BY <1>3, <1>4, <1>5, EncodeConcat
  <2>5. Encode(r) = (a \o w) \o z
    BY <1>5, <2>3, <2>4, Zenon
  <2>6. Encode(s) = a \o z
    BY <1>3, <1>5, EncodeConcat
  <2>7. Len(r) = n_chars + Len(t)
    BY <1>1, <1>3, <1>4, <2>1, <2>2
  <2>8. QED
    BY <2>2, <2>5, <2>6, <2>7
<1>8. PICK i, k, j : i = Len(a) /\ k = Len(w) /\ j = Len(z)
  OBVIOUS
<1>9. /\ i \in Nat /\ k \in Nat /\ j \in Nat /\ Len(Encode(r)) = i + k + j
      /\ \A b \in 1..i : Encode(r)[b] = a[b]
      /\ \A b \in 1..k : Encode(r)[i + b] = w[b]
      /\ \A b \in 1..j : Encode(r)[i + k + b] = z[b]
  <2>1. Joined(a, w, z)
    BY <1>6, Three
  <2>2. i \in Nat /\ k \in Nat /\ j \in Nat /\ Len(Encode(r)) = i + k + j
    BY <1>7, <1>8, <2>1, Zenon DEF Joined
  <2>3. \A b \in 1..i : Encode(r)[b] = a[b]
    BY <1>7, <1>8, <2>1, Zenon DEF Joined
  <2>4. \A b \in 1..k : Encode(r)[i + b] = w[b]
    BY <1>7, <1>8, <2>1, Zenon DEF Joined
  <2>5. \A b \in 1..j : Encode(r)[i + k + b] = z[b]
    BY <1>7, <1>8, <2>1, Zenon DEF Joined
  <2>6. QED
    BY <2>2, <2>3, <2>4, <2>5
<1>10. /\ n_bytes = i + j
       /\ \A b \in 1..i : mem[b - 1] = a[b]
       /\ \A b \in 1..j : mem[(i + b) - 1] = z[b]
  <2>1. /\ Len(a \o z) = Len(a) + Len(z)
        /\ \A b \in 1..(Len(a) + Len(z)) :
             (a \o z)[b] = IF b <= Len(a) THEN a[b] ELSE z[b - Len(a)]
    BY <1>6, ConcatProperties
  <2>2. n_bytes = Len(a \o z) /\ \A b \in 1..n_bytes : mem[b - 1] = (a \o z)[b]
    BY <1>1, <1>7, Zenon DEF Holding
  <2>3. n_bytes = i + j
    BY <1>8, <2>1, <2>2, Zenon
  <2>4. ASSUME NEW b \in 1..i PROVE mem[b - 1] = a[b]
    <3>1. b \in 1..(i + j) /\ b <= i
      BY <1>9
    <3>2. QED
      BY <1>8, <2>1, <2>2, <2>3, <3>1, Zenon
  <2>5. ASSUME NEW b \in 1..j PROVE mem[(i + b) - 1] = z[b]
    <3>1. i + b \in 1..(i + j) /\ ~(i + b <= i) /\ (i + b) - i = b
      BY <1>9
    <3>2. mem[(i + b) - 1] = z[(i + b) - i]
      BY <1>8, <2>1, <2>2, <2>3, <3>1, Zenon
    <3>3. QED
      BY <3>1, <3>2, Zenon
  <2>6. QED
    BY <2>3, <2>4, <2>5
<1>11. Offset(position) = i
  BY <1>1, <1>2, <1>3, <1>5, <1>8, OffsetFinds DEF At
<1>12. PICK base : base = Grown(n_bytes + k + 1)
  OBVIOUS
<1>13. PICK m \in Nat : /\ m >= n_bytes + k + 1 /\ DOMAIN base = 0..(m - 1)
                        /\ \A b \in 0..n_bytes : base[b] = mem[b]
  <2>1. n_bytes + k + 1 \in Nat /\ TypeOK
    BY <1>9, <1>10 DEF IInv
  <2>2. QED
    BY <1>12, <2>1, GrownFits
<1>14. PICK row : row = Shifted(base, w, i, n_bytes)
  OBVIOUS
<1>15. /\ mem' = Terminated(row, n_bytes + k)
       /\ n_bytes' = n_bytes + k /\ n_chars' = n_chars + Len(t) /\ alive' = alive
  BY <1>5, <1>8, <1>11, <1>12, <1>14 DEF seb_insert_text, Shifted
<1>16. /\ DOMAIN row = 0..(m - 1)
       /\ \A b \in 0..(m - 1) :
            row[b] = IF b \in i..(i + k - 1) THEN w[b - i + 1]
                     ELSE IF b \in (i + k)..(n_bytes + k - 1) THEN base[b - k]
                     ELSE base[b]
  BY <1>8, <1>13, <1>14 DEF Shifted
<1>17. /\ DOMAIN mem' = 0..(m - 1)
       /\ \A b \in 0..(m - 1) : mem'[b] = IF b >= n_bytes + k THEN NUL ELSE row[b]
  BY <1>15, <1>16 DEF Terminated
<1>18. ASSUME NEW b \in 1..(n_bytes + k) PROVE mem'[b - 1] = Encode(r)[b]
  <2>1. b - 1 \in 0..(m - 1) /\ ~(b - 1 >= n_bytes + k) /\ n_bytes = i + j
    BY <1>9, <1>10, <1>13
  <2>2. mem'[b - 1] = row[b - 1]
    BY <1>17, <2>1
  <2>3. CASE b <= i
    <3>1. b \in 1..i /\ ~(b - 1 \in i..(i + k - 1)) /\ b - 1 \in 0..n_bytes
          /\ ~(b - 1 \in (i + k)..(n_bytes + k - 1))
      BY <1>9, <2>1, <2>3
    <3>2. row[b - 1] = base[b - 1] /\ base[b - 1] = mem[b - 1]
      BY <1>13, <1>16, <2>1, <3>1, Zenon
    <3>3. mem[b - 1] = a[b] /\ Encode(r)[b] = a[b]
      BY <1>9, <1>10, <3>1, Zenon
    <3>4. QED
      BY <2>2, <3>2, <3>3, Zenon
  <2>4. CASE i < b /\ b <= i + k
    <3>1. PICK e : e = b - i
      OBVIOUS
    <3>2. e \in 1..k /\ b = i + e /\ b - 1 \in i..(i + k - 1) /\ (b - 1) - i + 1 = e
      BY <1>9, <2>4, <3>1
    <3>3. row[b - 1] = w[e]
      BY <1>16, <2>1, <3>2, Zenon
    <3>4. Encode(r)[b] = w[e]
      BY <1>9, <3>2, Zenon
    <3>5. QED
      BY <2>2, <3>3, <3>4, Zenon
  <2>5. CASE i + k < b
    <3>1. PICK e : e = b - (i + k)
      OBVIOUS
    <3>2. /\ e \in 1..j /\ b = i + k + e /\ ~(b - 1 \in i..(i + k - 1))
          /\ b - 1 \in (i + k)..(n_bytes + k - 1) /\ (b - 1) - k = (i + e) - 1
          /\ (i + e) - 1 \in 0..n_bytes
      BY <1>9, <2>1, <2>5, <3>1
    <3>3. row[b - 1] = base[(i + e) - 1]
      BY <1>16, <2>1, <3>2, Zenon
    <3>4. base[(i + e) - 1] = mem[(i + e) - 1] /\ mem[(i + e) - 1] = z[e]
      BY <1>10, <1>13, <3>2, Zenon
    <3>5. Encode(r)[b] = z[e]
      BY <1>9, <3>2, Zenon
    <3>6. QED
      BY <2>2, <3>3, <3>4, <3>5, Zenon
  <2>6. QED
    BY <1>9, <2>3, <2>4, <2>5
<1>19. Settled(r, m)'
  <2>1. Holding(r)'
    <3>1. n_bytes' = Len(Encode(r))
      BY <1>9, <1>10, <1>15
    <3>2. \A b \in 1..n_bytes' : mem'[b - 1] = Encode(r)[b]
      BY <1>15, <1>18
    <3>3. QED
      BY <3>1, <3>2 DEF Holding
  <2>2. n_chars' = Len(r) /\ Len(r) <= MaxChars /\ alive' \in BOOLEAN
    BY <1>7, <1>15
  <2>3. n_bytes' \in 0..(m - 1) /\ n_bytes' < m
    BY <1>9, <1>10, <1>13, <1>15
  <2>4. \A b \in 0..(m - 1) : b >= n_bytes' => mem'[b] = NUL
    BY <1>15, <1>17
  <2>5. mem'[n_bytes'] = NUL
    BY <2>3, <2>4
  <2>6. \A b \in 0..(m - 1) : b > n_bytes' => mem'[b] \in {NUL, fresh}
    BY <2>3, <2>4
  <2>7. QED
    BY <1>17, <2>1, <2>2, <2>3, <2>5, <2>6 DEF Settled
<1>20. IInv' /\ Decoded' = r
  BY <1>7, <1>13, <1>19, HeldTextNext DEF WhatIsHeld
<1>21. QED
  BY <1>1, <1>2, <1>5, <1>20

(* The bytes of a deletion, before the terminator is written.               *)
Closed(start, end, len) ==
  [b \in DOMAIN mem |-> IF b \in start..(len - 1) THEN mem[b + end - start] ELSE mem[b]]

LEMMA DeleteKeeps ==
  ASSUME IInv, alive, NEW position \in 0..n_chars, NEW n \in 0..n_chars,
         seb_delete_text(position, n), NEW cut, cut = Clamped(position, n)
  PROVE  /\ IInv' /\ cut \in 1..(n_chars - position)
         /\ Decoded' = SubSeq(Decoded, 1, position)
                         \o SubSeq(Decoded, position + cut + 1, Len(Decoded))
<1>1. PICK s \in Seq(Char) : s = Decoded /\ Holding(s) /\ n_chars = Len(s)
  BY TextIsHeld
<1>2. Len(s) \in Nat /\ Len(s) <= MaxChars
  BY <1>1, LenProperties DEF IInv, TypeOK
<1>3. cut \in 1..(n_chars - position) /\ position + cut \in 0..Len(s)
  BY <1>1, <1>2 DEF seb_delete_text, Clamped
<1>4. PICK q, pre, mid, suf : /\ q = position + cut /\ pre = SubSeq(s, 1, position)
                              /\ mid = SubSeq(s, position + 1, q)
                              /\ suf = SubSeq(s, q + 1, Len(s))
  OBVIOUS
<1>5. q \in 0..Len(s) /\ position \in 0..q /\ position \in 0..Len(s) /\ Len(s) - q \in Nat
  <2>1. q = position + cut
    BY <1>4
  <2>2. n_chars = Len(s)
    BY <1>1
  <2>3. QED
    BY <1>2, <1>3, <2>1, <2>2
<1>6. /\ pre \in Seq(Char) /\ mid \in Seq(Char) /\ suf \in Seq(Char)
      /\ Len(pre) = position /\ Len(suf) = Len(s) - q
      /\ SubSeq(s, 1, q) = pre \o mid /\ s = (pre \o mid) \o suf
  <2>1. pre \in Seq(Char) /\ Len(pre) = position
    BY <1>4, <1>5, CutAt
  <2>2. /\ suf \in Seq(Char) /\ Len(suf) = Len(s) - q
        /\ s = SubSeq(s, 1, q) \o suf
    BY <1>4, <1>5, CutAt
  <2>3. mid \in Seq(Char)
    <3>1. /\ \A b \in (position + 1)..q : s[b] \in Char
          /\ position + 1 \in Int /\ q \in Int
      BY <1>5, ElementOfSeq
    <3>2. QED
      BY <1>4, <3>1, SubSeqProperties
  <2>4. pre \o mid = SubSeq(s, 1, q)
    <3>1. 1 \in 1..(Len(s) + 1) /\ position \in (1 - 1)..Len(s) /\ q \in position..Len(s)
      BY <1>2, <1>5
    <3>2. QED
      BY <1>4, <3>1, ConcatAdjacentSubSeq
  <2>5. QED
    BY <2>1, <2>2, <2>3, <2>4
<1>7. PICK a, w, z, r : a = Encode(pre) /\ w = Encode(mid) /\ z = Encode(suf) /\ r = pre \o suf
  OBVIOUS
<1>8. a \in Seq(Bytes) /\ w \in Seq(Bytes) /\ z \in Seq(Bytes)
  BY <1>6, <1>7, EncodeTyped
<1>9. /\ r \in Seq(Char) /\ Len(r) = n_chars - cut
      /\ Encode(r) = a \o z /\ Encode(s) = (a \o w) \o z
      /\ Encode(SubSeq(s, 1, q)) = a \o w
  <2>1. pre \o mid \in Seq(Char)
    BY <1>6, ConcatProperties
  <2>2. r \in Seq(Char) /\ Len(r) = Len(pre) + Len(suf)
    BY <1>6, <1>7, ConcatProperties
  <2>3. Encode(s) = Encode(pre \o mid) \o Encode(suf)
    BY <1>6, <2>1, EncodeConcat
  <2>4. Encode(pre \o mid) = a \o w
    BY <1>6, <1>7, EncodeConcat
  <2>5. Encode(s) = (a \o w) \o z
    BY <1>7, <2>3, <2>4, Zenon
  <2>6. Encode(r) = a \o z
    BY <1>6, <1>7, EncodeConcat
  <2>7. Len(r) = n_chars - cut
    <3>1. /\ q = position + cut /\ n_chars = Len(s)
          /\ Len(r) = position + (Len(s) - q)
      BY <1>1, <1>4, <1>6, <2>2, Zenon
    <3>2. QED
      BY <1>2, <1>3, <3>1
  <2>8. Encode(SubSeq(s, 1, q)) = a \o w
    BY <1>6, <2>4, Zenon
  <2>9. QED
    BY <2>2, <2>5, <2>6, <2>7, <2>8
<1>10. PICK i, k, j : i = Len(a) /\ k = Len(w) /\ j = Len(z)
  OBVIOUS
<1>11. /\ i \in Nat /\ k \in Nat /\ j \in Nat /\ n_bytes = i + k + j
       /\ Len(Encode(SubSeq(s, 1, q))) = i + k
       /\ \A b \in 1..i : mem[b - 1] = a[b]
       /\ \A b \in 1..j : mem[(i + k + b) - 1] = z[b]
  <2>1. Joined(a, w, z)
    BY <1>8, Three
  <2>2. i \in Nat /\ k \in Nat /\ j \in Nat /\ Len(Encode(s)) = i + k + j
    BY <1>9, <1>10, <2>1, Zenon DEF Joined
  <2>3. Len(Encode(SubSeq(s, 1, q))) = i + k
    BY <1>9, <1>10, <2>1, Zenon DEF Joined
  <2>4. \A b \in 1..i : Encode(s)[b] = a[b]
    BY <1>9, <1>10, <2>1, Zenon DEF Joined
  <2>5. \A b \in 1..j : Encode(s)[i + k + b] = z[b]
    BY <1>9, <1>10, <2>1, Zenon DEF Joined
  <2>6. n_bytes = i + k + j /\ \A b \in 1..n_bytes : mem[b - 1] = Encode(s)[b]
    BY <1>1, <2>2, Zenon DEF Holding
  <2>7. ASSUME NEW b \in 1..i PROVE mem[b - 1] = a[b]
    <3>1. b \in 1..n_bytes
      BY <2>2, <2>6
    <3>2. QED
      BY <2>4, <2>6, <3>1, Zenon
  <2>8. ASSUME NEW b \in 1..j PROVE mem[(i + k + b) - 1] = z[b]
    <3>1. i + k + b \in 1..n_bytes
      BY <2>2, <2>6
    <3>2. QED
      BY <2>5, <2>6, <3>1, Zenon
  <2>9. QED
    BY <2>2, <2>3, <2>6, <2>7, <2>8
<1>12. Offset(position) = i /\ Offset(position + cut) = i + k
  <2>1. Offset(position) = At(s, position) /\ Offset(q) = At(s, q)
    BY <1>1, <1>5, OffsetFinds, Zenon
  <2>2. QED
    BY <1>4, <1>7, <1>10, <1>11, <2>1, Zenon DEF At
<1>13. PICK row : row = Closed(i, i + k, i + j)
  OBVIOUS
<1>14. /\ mem' = Terminated(row, i + j)
       /\ n_bytes' = i + j /\ n_chars' = n_chars - cut /\ alive' = alive
  <2>1. n_bytes - ((i + k) - i) = i + j
    BY <1>11
  <2>2. QED
    BY <1>12, <1>13, <2>1, Zenon DEF seb_delete_text, Closed
<1>15. PICK m \in Nat : m = cap /\ DOMAIN mem = 0..(m - 1) /\ n_bytes < m
  BY DEF IInv, TypeOK
<1>16. /\ DOMAIN row = 0..(m - 1)
       /\ \A b \in 0..(m - 1) :
            row[b] = IF b \in i..((i + j) - 1) THEN mem[b + (i + k) - i] ELSE mem[b]
  BY <1>13, <1>15 DEF Closed
<1>17. /\ DOMAIN mem' = 0..(m - 1)
       /\ \A b \in 0..(m - 1) : mem'[b] = IF b >= i + j THEN NUL ELSE row[b]
  BY <1>14, <1>16 DEF Terminated
<1>18. /\ Len(a \o z) = i + j
       /\ \A b \in 1..(i + j) : (a \o z)[b] = IF b <= i THEN a[b] ELSE z[b - i]
  BY <1>8, <1>10, ConcatProperties
<1>19. ASSUME NEW b \in 1..(i + j) PROVE mem'[b - 1] = Encode(r)[b]
  <2>1. b - 1 \in 0..(m - 1) /\ ~(b - 1 >= i + j)
    BY <1>11, <1>15, SMTT(30)
  <2>2. mem'[b - 1] = row[b - 1]
    BY <1>17, <2>1, Zenon
  <2>3. CASE b <= i
    <3>1. b \in 1..i /\ ~(b - 1 \in i..((i + j) - 1))
      BY <1>11, <2>3
    <3>2. row[b - 1] = mem[b - 1] /\ mem[b - 1] = a[b]
      BY <1>11, <1>16, <2>1, <3>1, Zenon
    <3>3. Encode(r)[b] = a[b]
      BY <1>9, <1>18, <2>3, Zenon
    <3>4. QED
      BY <2>2, <3>2, <3>3, Zenon
  <2>4. CASE ~(b <= i)
    <3>1. PICK e : e = b - i
      OBVIOUS
    <3>2. /\ e \in 1..j /\ b - 1 \in i..((i + j) - 1)
          /\ (b - 1) + (i + k) - i = (i + k + e) - 1
      BY <1>11, <2>4, <3>1
    <3>3. row[b - 1] = mem[(i + k + e) - 1] /\ mem[(i + k + e) - 1] = z[e]
      BY <1>11, <1>16, <2>1, <3>2, Zenon
    <3>4. Encode(r)[b] = z[e]
      BY <1>9, <1>18, <2>4, <3>1, Zenon
    <3>5. QED
      BY <2>2, <3>3, <3>4, Zenon
  <2>5. QED
    BY <2>3, <2>4
<1>20. Settled(r, m)'
  <2>1. Holding(r)'
    <3>1. n_bytes' = Len(Encode(r))
      BY <1>9, <1>14, <1>18
    <3>2. \A b \in 1..n_bytes' : mem'[b - 1] = Encode(r)[b]
      BY <1>14, <1>19
    <3>3. QED
      BY <3>1, <3>2 DEF Holding
  <2>2. n_chars' = Len(r) /\ Len(r) <= MaxChars /\ alive' \in BOOLEAN
    <3>1. MaxChars \in Nat /\ n_chars - cut <= n_chars
      BY <1>1, <1>2, <1>3, SecureBufferAssumption
    <3>2. QED
      BY <1>1, <1>2, <1>3, <1>9, <1>14, <3>1
  <2>3. n_bytes' \in 0..(m - 1) /\ n_bytes' < m
    BY <1>11, <1>14, <1>15
  <2>4. \A b \in 0..(m - 1) : b >= n_bytes' => mem'[b] = NUL
    BY <1>14, <1>17
  <2>5. mem'[n_bytes'] = NUL
    BY <2>3, <2>4
  <2>6. \A b \in 0..(m - 1) : b > n_bytes' => mem'[b] \in {NUL, fresh}
    BY <2>3, <2>4
  <2>7. QED
    BY <1>17, <2>1, <2>2, <2>3, <2>5, <2>6 DEF Settled
<1>21. IInv' /\ Decoded' = r
  BY <1>9, <1>15, <1>20, HeldTextNext DEF WhatIsHeld
<1>22. QED
  BY <1>1, <1>3, <1>4, <1>7, <1>21, Zenon

LEMMA AbortKeeps ==
  ASSUME IInv, Abort
  PROVE  IInv' /\ Decoded' = Decoded /\ signal' = signal
<1>1. PICK s \in Seq(Char) : s = Decoded /\ Holding(s) /\ n_chars = Len(s)
  BY TextIsHeld
<1>2. PICK m \in Nat : /\ m = cap /\ DOMAIN mem = 0..(m - 1) /\ n_bytes < m
                       /\ mem[n_bytes] = NUL
  BY DEF IInv, TypeOK, CountsAgree, Abort
<1>3. /\ mem' = mem /\ n_bytes' = n_bytes /\ n_chars' = n_chars /\ alive' = FALSE
      /\ signal' = signal
  BY DEF Abort
<1>4. Len(s) <= MaxChars /\ \A b \in 0..(m - 1) : b > n_bytes => mem[b] \in {NUL, fresh}
  BY <1>1, <1>2 DEF IInv, TypeOK, NothingLingers
<1>5. Holding(s)'
  BY <1>1, <1>3 DEF Holding
<1>6. Settled(s, m)'
  BY <1>1, <1>2, <1>3, <1>4, <1>5 DEF Settled
<1>7. IInv' /\ Decoded' = s
  BY <1>6, HeldTextNext DEF WhatIsHeld
<1>8. QED
  BY <1>1, <1>3, <1>7

LEMMA FinalizeKeeps ==
  ASSUME IInv, secure_entry_buffer_finalize
  PROVE  IInv' /\ Decoded' = <<>> /\ signal' = signal
<1>1. /\ mem' = <<>> /\ n_bytes' = 0 /\ n_chars' = 0 /\ alive' = FALSE
      /\ signal' = signal
  BY DEF secure_entry_buffer_finalize
<1>2. <<>> \in Seq(Char) /\ Len(<<>>) = 0 /\ 0 <= MaxChars
  BY EmptySeq, SecureBufferAssumption
<1>3. PICK none, m : none = <<>> /\ m = 0
  OBVIOUS
<1>4. /\ Holding(none)' /\ n_chars' = Len(none) /\ Len(none) <= MaxChars
      /\ DOMAIN mem' = 0..(m - 1) /\ alive' \in BOOLEAN
      /\ m = 0 /\ n_bytes' = 0 /\ ~alive'
      /\ ~(m > 0) /\ 0..(m - 1) = {}
  <2>1. Holding(none)'
    <3>1. n_bytes' = Len(Encode(none)) /\ 1..n_bytes' = {}
      <4>1. Encode(none) = <<>>
        BY <1>3, EncodeEmpty, Zenon
      <4>2. QED
        BY <1>1, <1>2, <4>1
    <3>2. QED
      BY <3>1 DEF Holding
  <2>2. n_chars' = Len(none) /\ Len(none) <= MaxChars
    BY <1>1, <1>2, <1>3
  <2>3. 0..(m - 1) = {} /\ m = 0 /\ ~(m > 0)
    BY <1>3
  <2>4. DOMAIN mem' = 0..(m - 1)
    <3>1. DOMAIN <<>> = {}
      OBVIOUS
    <3>2. QED
      BY <1>1, <2>3, <3>1, Zenon
  <2>5. QED
    BY <1>1, <2>1, <2>2, <2>3, <2>4
<1>5. Settled(none, m)'
  BY <1>4 DEF Settled
<1>6. none \in Seq(Char) /\ m \in Nat
  BY <1>2, <1>3
<1>7. QED
  BY <1>1, <1>3, <1>5, <1>6, HeldTextNext DEF WhatIsHeld

LEMMA Unchanged ==
  ASSUME IInv, UNCHANGED vars
  PROVE  IInv' /\ Decoded' = Decoded /\ signal' = signal
<1>1. /\ mem' = mem /\ n_bytes' = n_bytes /\ n_chars' = n_chars /\ alive' = alive
      /\ signal' = signal
  BY DEF vars, buffer
<1>2. Decoded' = Decoded /\ cap' = cap /\ Live' = Live
  BY <1>1 DEF Decoded, cap, Live
<1>3. TypeOK'
  BY <1>1, <1>2 DEF IInv, TypeOK
<1>4. CountsAgree' /\ NothingLingers'
  BY <1>1, <1>2 DEF IInv, CountsAgree, NothingLingers
<1>5. QED
  BY <1>1, <1>2, <1>3, <1>4 DEF IInv

LEMMA InvStep ==
  ASSUME IInv, [Next]_vars
  PROVE  IInv'
<1>1. CASE Insert
  BY <1>1, InsertKeeps DEF Insert
<1>2. CASE Delete
  BY <1>2, DeleteKeeps DEF Delete
<1>3. CASE Abort
  BY <1>3, AbortKeeps
<1>4. CASE secure_entry_buffer_finalize
  BY <1>4, FinalizeKeeps
<1>5. CASE UNCHANGED vars
  BY <1>5, Unchanged
<1>6. QED
  BY <1>1, <1>2, <1>3, <1>4, <1>5 DEF Next

(* Every step edits the text by positions, and tells so.                    *)
TextStep == [Text!Insert \/ Text!Delete \/ Text!Clear]_<<Decoded, signal>>

LEMMA StepEdits ==
  ASSUME IInv, [Next]_vars
  PROVE  TextStep
<1>1. n_chars = Len(Decoded) /\ n_chars \in Nat
  BY DEF IInv, CountsAgree, TypeOK
<1>2. ASSUME alive, NEW position \in 0..n_chars, NEW t \in Pastes,
             n_chars + Len(t) <= MaxChars, seb_insert_text(position, t)
      PROVE  Text!Insert
  <2>1. Decoded' = SubSeq(Decoded, 1, position) \o t
                     \o SubSeq(Decoded, position + 1, Len(Decoded))
    BY <1>2, InsertKeeps
  <2>2. signal' = Text!Inserted(position, t)
    BY <1>2 DEF seb_insert_text, Text!Inserted
  <2>3. position \in 0..Len(Decoded)
    BY <1>1, Zenon
  <2>4. QED
    BY <2>1, <2>2, <2>3, Zenon DEF Text!Insert
<1>3. ASSUME alive, NEW position \in 0..n_chars, NEW n \in 0..n_chars,
             seb_delete_text(position, n)
      PROVE  Text!Delete
  <2>1. PICK cut : cut = Clamped(position, n)
    OBVIOUS
  <2>2. /\ cut \in 1..(n_chars - position)
        /\ Decoded' = SubSeq(Decoded, 1, position)
                        \o SubSeq(Decoded, position + cut + 1, Len(Decoded))
    BY <1>3, <2>1, DeleteKeeps
  <2>3. signal' = Text!Deleted(position, cut)
    BY <1>3, <2>1 DEF seb_delete_text, Text!Deleted
  <2>4. position \in 0..(n_chars - 1) /\ cut \in 1..(n_chars - position)
    BY <1>1, <2>2
  <2>5. position \in 0..(Len(Decoded) - 1) /\ cut \in 1..(Len(Decoded) - position)
    BY <1>1, <2>4, Zenon
  <2>6. QED
    BY <2>2, <2>3, <2>5, Zenon DEF Text!Delete
<1>4. CASE Insert
  BY <1>2, <1>4 DEF Insert, TextStep
<1>5. CASE Delete
  BY <1>3, <1>5 DEF Delete, TextStep
<1>6. CASE Abort
  BY <1>6, AbortKeeps DEF TextStep
<1>7. CASE secure_entry_buffer_finalize
  BY <1>7, FinalizeKeeps DEF TextStep, Text!Clear
<1>8. CASE UNCHANGED vars
  BY <1>8, Unchanged DEF TextStep
<1>9. QED
  BY <1>4, <1>5, <1>6, <1>7, <1>8 DEF Next

---------------------------------------------------------------------------
(* The theorems.                                                            *)

THEOREM Invariance == Spec => []IInv
<1>1. Init => IInv
  BY InitHolds
<1>2. IInv /\ [Next]_vars => IInv'
  BY InvStep
<1>3. QED
  BY <1>1, <1>2, PTL DEF Spec

(* secure_buffer.c never writes outside the allocation, the terminator      *)
(* included, however the text grows.                                        *)
THEOREM TypeCorrect == Spec => []TypeOK
<1>1. IInv => TypeOK
  BY DEF IInv
<1>2. QED
  BY <1>1, Invariance, PTL

(* n_bytes and n_chars count the same text, made of whole characters, and a *)
(* NUL follows it.                                                          *)
THEOREM CountsStayTogether == Spec => []CountsAgree
<1>1. IInv => CountsAgree
  BY DEF IInv
<1>2. QED
  BY <1>1, Invariance, PTL

(* No byte of a text that was deleted or shifted stays behind the           *)
(* terminator, as the file's opening comment says.                          *)
THEOREM Wiped == Spec => []NothingLingers
<1>1. IInv => NothingLingers
  BY DEF IInv
<1>2. QED
  BY <1>1, Invariance, PTL

(* The buffer is a text edited by character positions, and its signals tell *)
(* what was edited where, as GtkEntryBuffer's do.                           *)
THEOREM Implements == Spec => EditsText
<1>1. Init => Text!Init
  BY InitHolds DEF Init, Text!Init
<1>2. IInv /\ [Next]_vars => TextStep
  BY StepEdits
<1>3. QED
  BY <1>1, <1>2, Invariance, PTL DEF Spec, EditsText, Text!Spec, TextStep

================================================================================
