----------------------------- MODULE WireProofs -----------------------------
(***************************************************************************)
(* Proofs about the encodings, for every message of every type whose       *)
(* fields fit their bytes, with lists and texts of any length, and for any *)
(* hash that tells the payloads sent from the same payloads damaged.       *)
(*                                                                         *)
(* An encoding is a table of items (Codec), written by one interpreter and *)
(* read by another.  The proof is about the interpreters: data that holds  *)
(* the bytes of an item, or the beginning of them, is read as the item or  *)
(* refused; so are lists, layouts, and layouts within layouts, as deep as  *)
(* the methods of the repository call each other.  What is then left of    *)
(* each type is that its two tables agree.                                 *)
(***************************************************************************)
EXTENDS Wire, SharedProofs, SequenceTheorems

-----------------------------------------------------------------------------
(* Bytes and numbers *)

\* The bytes of a number that fits its width are that many, and read as it.
LEMMA NumberBytes ==
  ASSUME NEW w \in Nat, NEW x \in 0..(Limit(w) - 1)
  PROVE  /\ BytesLE(x, w) \in Seq(Byte) /\ Len(BytesLE(x, w)) = w
         /\ NumberLE(BytesLE(x, w)) = x
<1>0. /\ Digit(x, 1) = x % 256
      /\ Digit(x, 2) = (x \div 256) % 256
      /\ Digit(x, 3) = x \div 65536
  BY DEF Digit
<1>1. Limit(w) \in Nat /\ Limit(w) <= Huge
  BY DEF Limit, Huge
<1>2. x \in Nat /\ x < Huge
  BY <1>1 DEF Huge
<1>3. ASSUME NEW i \in 1..w PROVE Digit(x, i) \in Byte
  BY <1>2 DEF Digit, Huge, Byte
<1> DEFINE b == BytesLE(x, w)
<1>4. b \in Seq(Byte) /\ Len(b) = w
      /\ \A i \in 1..w : b[i] = Digit(x, i)
  BY <1>3 DEF BytesLE
<1> HIDE DEF b
<1>5. ~(\E i \in 4..Len(b) : b[i] # 0)
  BY <1>4 DEF Digit
<1> DEFINE At(i) == IF i <= Len(b) THEN b[i] ELSE 0
<1>6. NumberLE(b) = At(1) + 256 * At(2) + 256 * 256 * At(3)
  BY <1>5 DEF NumberLE
<1>7. At(1) = Digit(x, 1) /\ At(2) = Digit(x, 2) /\ At(3) = Digit(x, 3)
  <2>1. w >= 1 => At(1) = Digit(x, 1)
    BY <1>4
  <2>2. w >= 2 => At(2) = Digit(x, 2)
    BY <1>4
  <2>3. w >= 3 => At(3) = Digit(x, 3)
    BY <1>4
  <2>4. CASE w = 0
    BY <1>4, <2>4 DEF Limit, Digit
  <2>5. CASE w = 1
    <3>1. x \in 0..255
      BY <2>5 DEF Limit
    <3>2. Digit(x, 2) = 0 /\ Digit(x, 3) = 0
      <4>1. x \div 256 = 0 /\ x \div 65536 = 0
        BY <3>1
      <4>2. 0 % 256 = 0
        OBVIOUS
      <4> QED BY <1>0, <4>1, <4>2
    <3> QED BY <1>4, <2>1, <2>5, <3>2
  <2>6. CASE w = 2
    <3>1. x \in 0..65535
      <4>1. PICK l : l = Limit(w)
        OBVIOUS
      <4>2. x \in 0..(l - 1)
        BY <4>1
      <4>3. l = 256 * 256
        BY <2>6, <4>1 DEF Limit
      <4>4. l = 65536
        BY <4>3
      <4> HIDE <4>1
      <4> QED BY <4>2, <4>4
    <3>2. Digit(x, 3) = 0
      BY <1>0, <3>1
    <3> QED BY <1>4, <2>1, <2>2, <2>6, <3>2
  <2> QED BY <2>1, <2>2, <2>3, <2>4, <2>5, <2>6
<1>8. Digit(x, 1) + 256 * Digit(x, 2) + 256 * 256 * Digit(x, 3) = x
  <2>1. x \in Nat /\ x < 16777216
    BY <1>2 DEF Huge
  <2>2. (x % 256) + 256 * ((x \div 256) % 256) + 65536 * (x \div 65536) = x
    BY <2>1
  <2>3. PICK y1, y2, y3 \in Int : y1 = x % 256 /\ y2 = (x \div 256) % 256 /\ y3 = x \div 65536
    BY <2>1
  <2>4. y1 + 256 * y2 + 256 * 256 * y3 = x
    BY <2>2, <2>3
  <2>5. Digit(x, 1) = y1 /\ Digit(x, 2) = y2 /\ Digit(x, 3) = y3
    BY <1>0, <2>3
  <2> QED BY <2>4, <2>5
<1> QED BY <1>4, <1>6, <1>7, <1>8 DEF b

\* A sequence turned round twice is the sequence.
LEMMA ReverseTwice ==
  ASSUME NEW S, NEW s \in Seq(S)
  PROVE  /\ Reverse(s) \in Seq(S) /\ Len(Reverse(s)) = Len(s)
         /\ \A i \in 1..Len(s) : Reverse(s)[i] = s[(Len(s) - i) + 1]
         /\ Reverse(Reverse(s)) = s
<1> DEFINE r == Reverse(s)
<1>1. r \in Seq(S) /\ Len(r) = Len(s) /\ \A i \in 1..Len(s) : r[i] = s[(Len(s) - i) + 1]
  BY DEF Reverse
<1> HIDE DEF r
<1>2. Reverse(r) \in Seq(S) /\ Len(Reverse(r)) = Len(r)
      /\ \A i \in 1..Len(r) : Reverse(r)[i] = r[(Len(r) - i) + 1]
  BY <1>1 DEF Reverse
<1>3. ASSUME NEW i \in 1..Len(s) PROVE Reverse(r)[i] = s[i]
  <2>1. (Len(s) - i) + 1 \in 1..Len(s) /\ (Len(s) - ((Len(s) - i) + 1)) + 1 = i
    OBVIOUS
  <2> QED BY <1>1, <1>2, <2>1
<1>4. Reverse(r) = s
  BY <1>1, <1>2, <1>3, SeqEqual
<1> QED BY <1>1, <1>4 DEF r

\* The same for either byte order.
LEMMA NumberOfBytes ==
  ASSUME NEW kind, NEW w \in Nat, NEW x \in 0..(Limit(w) - 1)
  PROVE  /\ Bytes(kind, x, w) \in Seq(Byte) /\ Len(Bytes(kind, x, w)) = w
         /\ Number(kind, Bytes(kind, x, w)) = x
<1>1. /\ BytesLE(x, w) \in Seq(Byte) /\ Len(BytesLE(x, w)) = w
      /\ NumberLE(BytesLE(x, w)) = x
  BY NumberBytes
<1>2. /\ BytesBE(x, w) \in Seq(Byte) /\ Len(BytesBE(x, w)) = w
      /\ Reverse(BytesBE(x, w)) = BytesLE(x, w)
  BY <1>1, ReverseTwice DEF BytesBE
<1> QED BY <1>1, <1>2 DEF Bytes, Number

\* Any bytes are read as a number.
LEMMA NumberType ==
  ASSUME NEW kind, NEW b \in Seq(Byte)
  PROVE  Number(kind, b) \in Nat
<1>1. ASSUME NEW c \in Seq(Byte) PROVE NumberLE(c) \in Nat
  <2> DEFINE At(i) == IF i <= Len(c) THEN c[i] ELSE 0
  <2>1. ASSUME NEW i \in 1..3 PROVE At(i) \in Nat
    <3>1. i <= Len(c) => c[i] \in Byte
      <4>1. Len(c) \in Nat /\ (i <= Len(c) => i \in 1..Len(c))
        OBVIOUS
      <4> QED BY <4>1
    <3>2. CASE i <= Len(c)
      <4>0. \A y \in Byte : y \in Nat
        BY DEF Byte
      <4>1. c[i] \in Nat
        BY <3>1, <3>2, <4>0
      <4> QED BY <3>2, <4>1
    <3>3. CASE ~(i <= Len(c))
      BY <3>3
    <3> QED BY <3>2, <3>3
  <2>2. At(1) \in Nat /\ At(2) \in Nat /\ At(3) \in Nat
    BY <2>1
  <2>3. NumberLE(c) = IF \E i \in 4..Len(c) : c[i] # 0 THEN Huge
                      ELSE At(1) + 256 * At(2) + 256 * 256 * At(3)
    BY DEF NumberLE
  <2> HIDE DEF At
  <2> QED BY <2>2, <2>3 DEF Huge
<1>2. Reverse(b) \in Seq(Byte)
  BY ReverseTwice
<1> QED BY <1>1, <1>2 DEF Number

-----------------------------------------------------------------------------
(* Data that carries bytes *)

\* From position at on, data has the bytes c, as far as it goes.
Carries(d, at, c) == \A i \in 1..Len(c) : (at - 1) + i <= Len(d) => d[(at - 1) + i] = c[i]

\* A slice of the data and the places its bytes come from.
LEMMA SliceOf ==
  ASSUME NEW d \in Seq(Byte), NEW a \in Nat \ {0}, NEW b \in Int, a - 1 <= b, b <= Len(d)
  PROVE  /\ SubSeq(d, a, b) \in Seq(Byte) /\ Len(SubSeq(d, a, b)) = (b - a) + 1
         /\ \A i \in 1..((b - a) + 1) : SubSeq(d, a, b)[i] = d[(a - 1) + i]
<1>1. \A i \in a..b : d[i] \in Byte
  OBVIOUS
<1>2. a \in Int /\ b \in Int
  OBVIOUS
<1>3. /\ SubSeq(d, a, b) \in Seq(Byte)
      /\ Len(SubSeq(d, a, b)) = IF a <= b THEN (b - a) + 1 ELSE 0
      /\ \A i \in 1..((b - a) + 1) : SubSeq(d, a, b)[i] = d[(a + i) - 1]
  BY <1>1, <1>2, SubSeqProperties
<1> QED BY <1>3

\* Bytes that are carried in full are the slice at their place.
LEMMA CarriedSlice ==
  ASSUME NEW d \in Seq(Byte), NEW at \in Nat \ {0}, NEW c \in Seq(Byte), Carries(d, at, c),
         (at - 1) + Len(c) <= Len(d)
  PROVE  SubSeq(d, at, (at - 1) + Len(c)) = c
<1> DEFINE b == (at - 1) + Len(c)
<1>1. b \in Int /\ at - 1 <= b /\ (b - at) + 1 = Len(c) /\ b <= Len(d)
  OBVIOUS
<1> HIDE DEF b
<1>2. /\ SubSeq(d, at, b) \in Seq(Byte) /\ Len(SubSeq(d, at, b)) = (b - at) + 1
      /\ \A i \in 1..((b - at) + 1) : SubSeq(d, at, b)[i] = d[(at - 1) + i]
  BY <1>1, SliceOf
<1>3. \A i \in 1..Len(c) : (at - 1) + i <= Len(d)
  OBVIOUS
<1>4. \A i \in 1..Len(c) : SubSeq(d, at, b)[i] = c[i]
  BY <1>1, <1>2, <1>3 DEF Carries
<1> QED BY <1>1, <1>2, <1>4, SeqEqual DEF b

\* Where the bytes of a concatenation of two are.
LEMMA JoinTwo ==
  ASSUME NEW h \in Seq(Byte), NEW b \in Seq(Byte)
  PROVE  /\ h \o b \in Seq(Byte) /\ Len(h \o b) = Len(h) + Len(b)
         /\ \A i \in 1..Len(h) : (h \o b)[i] = h[i]
         /\ \A i \in 1..Len(b) : (h \o b)[Len(h) + i] = b[i]
  OBVIOUS

\* Data that carries a concatenation carries both parts, one behind the other.
LEMMA CarriesSplit ==
  ASSUME NEW d \in Seq(Byte), NEW at \in Nat \ {0}, NEW h \in Seq(Byte), NEW b \in Seq(Byte),
         Carries(d, at, h \o b)
  PROVE  /\ Carries(d, at, h)
         /\ Carries(d, at + Len(h), b)
<1>1. /\ Len(h \o b) = Len(h) + Len(b)
      /\ \A i \in 1..Len(h) : (h \o b)[i] = h[i]
      /\ \A i \in 1..Len(b) : (h \o b)[Len(h) + i] = b[i]
  OBVIOUS
<1> DEFINE c == h \o b
<1> HIDE DEF c
<1>2. Carries(d, at, c) /\ Len(c) = Len(h) + Len(b)
      /\ (\A i \in 1..Len(h) : c[i] = h[i]) /\ (\A i \in 1..Len(b) : c[Len(h) + i] = b[i])
  BY <1>1 DEF c
<1>3. Carries(d, at, h)
  BY <1>2 DEF Carries
<1>4. ASSUME NEW i \in 1..Len(b), ((at + Len(h)) - 1) + i <= Len(d)
      PROVE  d[((at + Len(h)) - 1) + i] = b[i]
  <2>1. Len(h) + i \in 1..Len(c) /\ ((at + Len(h)) - 1) + i = (at - 1) + (Len(h) + i)
    BY <1>2
  <2> QED BY <1>2, <1>4, <2>1 DEF Carries
<1>5. Carries(d, at + Len(h), b)
  BY <1>4 DEF Carries
<1> QED BY <1>3, <1>5

\* The number in front is read, and what is behind it is carried right behind.
LEMMA HeadRead ==
  ASSUME NEW kind, NEW w \in Nat, NEW x \in 0..(Limit(w) - 1), NEW b \in Seq(Byte),
         NEW d \in Seq(Byte), NEW at \in Nat \ {0}, Carries(d, at, Bytes(kind, x, w) \o b)
  PROVE  /\ Len(Bytes(kind, x, w) \o b) = w + Len(b)
         /\ (at + w) - 1 <= Len(d) => Number(kind, SubSeq(d, at, (at + w) - 1)) = x
         /\ Carries(d, at + w, b)
<1> DEFINE h == Bytes(kind, x, w)
<1>1. h \in Seq(Byte) /\ Len(h) = w /\ Number(kind, h) = x
  BY NumberOfBytes
<1>2. Carries(d, at, h \o b)
  OBVIOUS
<1> HIDE DEF h
<1>3. Carries(d, at, h) /\ Carries(d, at + w, b)
  BY <1>1, <1>2, CarriesSplit
<1>4. ASSUME (at + w) - 1 <= Len(d) PROVE SubSeq(d, at, (at + w) - 1) = h
  <2>1. (at - 1) + Len(h) = (at + w) - 1 /\ (at - 1) + Len(h) <= Len(d)
    BY <1>1, <1>4
  <2>2. SubSeq(d, at, (at - 1) + Len(h)) = h
    BY <1>1, <1>3, <2>1, CarriedSlice
  <2> QED BY <2>1, <2>2
<1>5. Len(h \o b) = w + Len(b)
  BY <1>1
<1> QED BY <1>1, <1>3, <1>4, <1>5 DEF h

-----------------------------------------------------------------------------
(* Concatenation.  A recursive function that stands in a definition is one *)
(* that satisfies its equation: first, that there is such a function.      *)

\* Concat is built chunk by chunk.
LEMMA ConcatStep ==
  ASSUME NEW chunks, NEW n \in Nat
  PROVE  \E upto : /\ upto[0] = <<>>
                   /\ \A k \in 1..n : upto[k] = upto[k - 1] \o chunks[k]
                   /\ Concat(chunks, n) = upto[n]
<1> DEFINE Step(k, x) == x \o chunks[k]
           Def(f, m) == [k \in 0..m |-> IF k = 0 THEN <<>> ELSE Step(k, f[k - 1])]
           G == {m \in Nat : \E f : f = Def(f, m)}
<1> HIDE DEF Step
<1>1. 0 \in G
  <2> DEFINE f == [k \in 0..0 |-> <<>>]
  <2>1. f = Def(f, 0)
    OBVIOUS
  <2> HIDE DEF f
  <2> QED BY <2>1
<1>2. ASSUME NEW m \in Nat, m \in G PROVE m + 1 \in G
  <2>1. PICK f : f = Def(f, m)
    BY <1>2
  <2> DEFINE q == Step(m + 1, f[m])
             g == [k \in 0..(m + 1) |-> IF k = m + 1 THEN q ELSE f[k]]
  <2>2. g = Def(g, m + 1)
    <3>1. \A k \in 0..m : f[k] = IF k = 0 THEN <<>> ELSE Step(k, f[k - 1])
      BY <2>1
    <3>2. \A k \in 0..m : g[k] = f[k]
      OBVIOUS
    <3>3. ASSUME NEW k \in 0..(m + 1)
          PROVE  g[k] = IF k = 0 THEN <<>> ELSE Step(k, g[k - 1])
      <4>1. CASE k = m + 1
        <5>1. g[k] = q /\ k - 1 = m /\ g[m] = f[m] /\ k # 0
          BY <3>2, <4>1
        <5> HIDE DEF g
        <5> QED BY <4>1, <5>1
      <4>2. CASE k \in 0..m
        <5>1. g[k] = f[k] /\ (k # 0 => g[k - 1] = f[k - 1])
          BY <3>2, <4>2
        <5> HIDE DEF g
        <5> QED BY <3>1, <4>2, <5>1
      <4> QED BY <4>1, <4>2
    <3>4. g = [k \in 0..(m + 1) |-> g[k]]
      OBVIOUS
    <3> HIDE DEF g
    <3> QED BY <3>3, <3>4
  <2> HIDE DEF g, q, Def
  <2> QED BY <2>2
<1>3. Nat \subseteq G
  <2> HIDE DEF G
  <2> QED BY <1>1, <1>2, NumberInduction
<1> DEFINE F == CHOOSE f : f = Def(f, n)
<1>4. F = Def(F, n)
  <2> HIDE DEF Def
  <2>1. n \in G
    BY <1>3
  <2> QED BY <2>1
<1>5. Concat(chunks, n) = F[n]
  BY DEF Concat, Step
<1> HIDE DEF F
<1>6. DOMAIN F = 0..n /\ \A k \in 0..n : F[k] = IF k = 0 THEN <<>> ELSE Step(k, F[k - 1])
  BY <1>4
<1>7. F[0] = <<>> /\ \A k \in 1..n : F[k] = F[k - 1] \o chunks[k]
  BY <1>6 DEF Step
<1> QED
  BY <1>5, <1>7

\* off says where each chunk of all begins: chunk k right behind off[k - 1].
Offsets(chunks, n, off, all) ==
  /\ off \in [0..n -> Nat] /\ off[0] = 0
  /\ \A k \in 1..n : chunks[k] \in Seq(Byte) /\ off[k] = off[k - 1] + Len(chunks[k])
  /\ all \in Seq(Byte) /\ Len(all) = off[n]
  /\ \A k \in 0..n : off[k] <= off[n]
  /\ \A k \in 1..n : \A i \in 1..Len(chunks[k]) : all[off[k - 1] + i] = chunks[k][i]

\* One more chunk begins where the others end.
LEMMA OffsetsStep ==
  ASSUME NEW chunks, NEW m \in Nat, NEW off, NEW all, Offsets(chunks, m, off, all),
         chunks[m + 1] \in Seq(Byte)
  PROVE  \E o : Offsets(chunks, m + 1, o, all \o chunks[m + 1])
<1> DEFINE x == m + 1
           c == chunks[x]
           both == all \o c
           o == [k \in 0..x |-> IF k = x THEN off[m] + Len(c) ELSE off[k]]
<1>1. /\ off \in [0..m -> Nat] /\ off[0] = 0
      /\ \A k \in 1..m : chunks[k] \in Seq(Byte) /\ off[k] = off[k - 1] + Len(chunks[k])
      /\ all \in Seq(Byte) /\ Len(all) = off[m]
      /\ \A k \in 0..m : off[k] <= off[m]
      /\ \A k \in 1..m : \A i \in 1..Len(chunks[k]) : all[off[k - 1] + i] = chunks[k][i]
  BY DEF Offsets
<1>2. c \in Seq(Byte) /\ Len(c) \in Nat /\ x \in Nat /\ x - 1 = m /\ off[m] \in Nat
  BY <1>1
<1>3. /\ both \in Seq(Byte) /\ Len(both) = off[m] + Len(c)
      /\ \A i \in 1..Len(all) : both[i] = all[i]
      /\ \A i \in 1..Len(c) : both[off[m] + i] = c[i]
  <2>1. /\ both \in Seq(Byte) /\ Len(both) = Len(all) + Len(c)
        /\ \A i \in 1..Len(all) : both[i] = all[i]
        /\ \A i \in 1..Len(c) : both[Len(all) + i] = c[i]
    <3>1. all \in Seq(Byte) /\ c \in Seq(Byte)
      BY <1>1, <1>2
    <3> HIDE DEF c
    <3> QED BY <3>1, JoinTwo
  <2> QED BY <1>1, <2>1
<1>4. /\ o \in [0..x -> Nat] /\ o[x] = off[m] + Len(c)
      /\ \A k \in 0..m : o[k] = off[k]
  BY <1>1, <1>2
<1> HIDE DEF o, both, c, x
<1>5. o[0] = 0
  BY <1>1, <1>4
<1>a. \A k \in 0..x : k \in 0..m \/ k = x
  BY <1>2 DEF x
<1>b. \A k \in 1..x : k \in 1..m \/ k = x
  BY <1>2 DEF x
<1>6. ASSUME NEW k \in 1..x
      PROVE  chunks[k] \in Seq(Byte) /\ o[k] = o[k - 1] + Len(chunks[k])
  <2>1. CASE k = x
    <3>1. m \in 0..m
      OBVIOUS
    <3> QED BY <1>2, <1>4, <2>1, <3>1 DEF c
  <2>2. CASE k \in 1..m
    <3>1. k \in 0..m /\ k - 1 \in 0..m
      BY <2>2
    <3> QED BY <1>1, <1>4, <2>2, <3>1
  <2> QED BY <1>b, <2>1, <2>2
<1>7. ASSUME NEW k \in 0..x PROVE o[k] <= o[x]
  <2>1. CASE k = x
    BY <1>4, <1>2, <2>1
  <2>2. CASE k \in 0..m
    <3>1. off[k] \in Nat /\ off[k] <= off[m]
      BY <1>1, <2>2
    <3> QED BY <1>2, <1>4, <2>2, <3>1
  <2> QED BY <1>a, <2>1, <2>2
<1>8. ASSUME NEW k \in 1..x, NEW i \in 1..Len(chunks[k])
      PROVE  both[o[k - 1] + i] = chunks[k][i]
  <2>1. CASE k = x
    <3>1. m \in 0..m
      OBVIOUS
    <3> QED BY <1>2, <1>3, <1>4, <1>8, <2>1, <3>1 DEF c
  <2>2. CASE k \in 1..m
    <3>1. k \in 0..m /\ k - 1 \in 0..m
      BY <2>2
    <3>2. /\ off[k - 1] \in Nat /\ off[k] \in Nat /\ off[k] <= off[m]
          /\ Len(chunks[k]) \in Nat /\ off[k] = off[k - 1] + Len(chunks[k])
      BY <1>1, <2>2, <3>1
    <3>3. off[k - 1] + i \in 1..off[m]
      BY <1>2, <3>2
    <3>4. both[off[k - 1] + i] = all[off[k - 1] + i]
      BY <1>1, <1>3, <3>3
    <3> QED BY <1>1, <1>4, <1>8, <2>2, <3>1, <3>4
  <2> QED BY <1>b, <2>1, <2>2
<1>9. Offsets(chunks, x, o, both)
  BY <1>3, <1>4, <1>5, <1>6, <1>7, <1>8 DEF Offsets
<1> QED BY <1>9 DEF both, c, x

\* Every chunk of a concatenation of byte strings has its place in it.
LEMMA ConcatOffsets ==
  ASSUME NEW chunks, NEW n \in Nat, \A k \in 1..n : chunks[k] \in Seq(Byte)
  PROVE  \E off : Offsets(chunks, n, off, Concat(chunks, n))
<1>1. PICK upto : /\ upto[0] = <<>>
                  /\ \A k \in 1..n : upto[k] = upto[k - 1] \o chunks[k]
                  /\ Concat(chunks, n) = upto[n]
  BY ConcatStep
<1> DEFINE G == {m \in Nat : m <= n => \E off : Offsets(chunks, m, off, upto[m])}
<1>2. 0 \in G
  <2> DEFINE z == [k \in 0..0 |-> 0]
  <2>1. z \in [0..0 -> Nat] /\ z[0] = 0
    OBVIOUS
  <2>2. upto[0] \in Seq(Byte) /\ Len(upto[0]) = 0
    BY <1>1
  <2>3. 1..0 = {} /\ 0..0 = {0}
    OBVIOUS
  <2> HIDE DEF z
  <2>4. Offsets(chunks, 0, z, upto[0])
    BY <2>1, <2>2, <2>3 DEF Offsets
  <2> QED BY <2>4
<1>3. ASSUME NEW m \in Nat, m \in G PROVE m + 1 \in G
  <2> SUFFICES ASSUME m + 1 <= n PROVE \E off : Offsets(chunks, m + 1, off, upto[m + 1])
    OBVIOUS
  <2>1. PICK off : Offsets(chunks, m, off, upto[m])
    BY <1>3
  <2>2. m + 1 \in 1..n /\ (m + 1) - 1 = m
    OBVIOUS
  <2>3. upto[m + 1] = upto[m] \o chunks[m + 1] /\ chunks[m + 1] \in Seq(Byte)
    BY <1>1, <2>2
  <2>4. \E o : Offsets(chunks, m + 1, o, upto[m] \o chunks[m + 1])
    BY <2>1, <2>3, OffsetsStep
  <2> QED BY <2>3, <2>4
<1>4. Nat \subseteq G
  <2> HIDE DEF G
  <2> QED BY <1>2, <1>3, NumberInduction
<1>5. n \in G
  BY <1>4
<1> QED BY <1>1, <1>5

\* Data that carries a concatenation carries each chunk at its place.
LEMMA CarriesChunk ==
  ASSUME NEW chunks, NEW n \in Nat, NEW off, NEW all, Offsets(chunks, n, off, all),
         NEW d \in Seq(Byte), NEW at \in Nat \ {0}, Carries(d, at, all), NEW k \in 1..n
  PROVE  Carries(d, at + off[k - 1], chunks[k])
<1>1. /\ off \in [0..n -> Nat]
      /\ chunks[k] \in Seq(Byte) /\ off[k] = off[k - 1] + Len(chunks[k])
      /\ Len(all) = off[n] /\ off[k] <= off[n]
      /\ \A i \in 1..Len(chunks[k]) : all[off[k - 1] + i] = chunks[k][i]
  BY DEF Offsets
<1>2. off[k - 1] \in Nat /\ off[k] \in Nat /\ off[n] \in Nat /\ Len(chunks[k]) \in Nat
  BY <1>1
<1>3. ASSUME NEW i \in 1..Len(chunks[k]), ((at + off[k - 1]) - 1) + i <= Len(d)
      PROVE  d[((at + off[k - 1]) - 1) + i] = chunks[k][i]
  <2>1. PICK o \in Nat : o = off[k - 1]
    BY <1>2
  <2>a. PICK l \in Nat : l = Len(chunks[k])
    BY <1>2
  <2>b. off[k] = o + l /\ off[k] <= Len(all) /\ Len(all) \in Nat /\ i \in 1..l
    BY <1>1, <1>2, <2>1, <2>a
  <2>2. o + i \in 1..Len(all) /\ ((at + o) - 1) + i = (at - 1) + (o + i)
    BY <2>b
  <2>3. (at - 1) + (o + i) <= Len(d)
    BY <1>3, <2>1, <2>2
  <2>4. d[(at - 1) + (o + i)] = all[o + i]
    BY <2>2, <2>3 DEF Carries
  <2> QED BY <1>1, <2>1, <2>2, <2>4
<1> QED BY <1>3 DEF Carries

-----------------------------------------------------------------------------
(* Reading what was written, or the beginning of it *)

Tried(n, d) == IF n > Len(d) \div 8 THEN (Len(d) \div 8) + 1 ELSE n
ListReading(read, of, part, n, d, at, missing) ==
  /\ read[0] = Got(<<>>, at)
  /\ \A k \in 1..Tried(n, d) : read[k] = ReadElement(of, part, d, read[k - 1], missing)
  /\ ReadList(of, part, n, d, at, missing) = read[Tried(n, d)]

\* ReadList is built element by element, and stops trying at the end of the data.
LEMMA ReadListStep ==
  ASSUME NEW of, NEW part, NEW n \in Nat, NEW d, NEW at, NEW missing, Len(d) \in Nat
  PROVE  \E read : ListReading(read, of, part, n, d, at, missing)
<1> DEFINE Step(k, x) == ReadElement(of, part, d, x, missing)
           Def(f, m) == [k \in 0..m |-> IF k = 0 THEN Got(<<>>, at) ELSE Step(k, f[k - 1])]
           G == {m \in Nat : \E f : f = Def(f, m)}
<1> HIDE DEF Step
<1>1. 0 \in G
  <2> DEFINE f == [k \in 0..0 |-> Got(<<>>, at)]
  <2>1. f = Def(f, 0)
    OBVIOUS
  <2> HIDE DEF f
  <2> QED BY <2>1
<1>2. ASSUME NEW m \in Nat, m \in G PROVE m + 1 \in G
  <2>1. PICK f : f = Def(f, m)
    BY <1>2
  <2> DEFINE q == Step(m + 1, f[m])
             g == [k \in 0..(m + 1) |-> IF k = m + 1 THEN q ELSE f[k]]
  <2>2. g = Def(g, m + 1)
    <3>1. \A k \in 0..m : f[k] = IF k = 0 THEN Got(<<>>, at) ELSE Step(k, f[k - 1])
      BY <2>1
    <3>2. \A k \in 0..m : g[k] = f[k]
      OBVIOUS
    <3>3. ASSUME NEW k \in 0..(m + 1)
          PROVE  g[k] = IF k = 0 THEN Got(<<>>, at) ELSE Step(k, g[k - 1])
      <4>1. CASE k = m + 1
        <5>1. g[k] = q /\ k - 1 = m /\ g[m] = f[m] /\ k # 0
          BY <3>2, <4>1
        <5> HIDE DEF g
        <5> QED BY <4>1, <5>1
      <4>2. CASE k \in 0..m
        <5>1. g[k] = f[k] /\ (k # 0 => g[k - 1] = f[k - 1])
          BY <3>2, <4>2
        <5> HIDE DEF g
        <5> QED BY <3>1, <4>2, <5>1
      <4> QED BY <4>1, <4>2
    <3>4. g = [k \in 0..(m + 1) |-> g[k]]
      OBVIOUS
    <3> HIDE DEF g
    <3> QED BY <3>3, <3>4
  <2> HIDE DEF g, q, Def
  <2> QED BY <2>2
<1>3. Nat \subseteq G
  <2> HIDE DEF G
  <2> QED BY <1>1, <1>2, NumberInduction
<1> DEFINE n0 == IF n > Len(d) \div 8 THEN (Len(d) \div 8) + 1 ELSE n
           F == CHOOSE f : f = Def(f, n0)
<1>0. n0 \in Nat
  OBVIOUS
<1>4. F = Def(F, n0)
  <2> HIDE DEF Def, n0
  <2>1. n0 \in G
    BY <1>0, <1>3
  <2> QED BY <2>1
<1>5. ReadList(of, part, n, d, at, missing) = F[n0]
  BY DEF ReadList, Step
<1> HIDE DEF F, n0
<1>6. DOMAIN F = 0..n0 /\ \A k \in 0..n0 : F[k] = IF k = 0 THEN Got(<<>>, at) ELSE Step(k, F[k - 1])
  BY <1>4
<1>7. F[0] = Got(<<>>, at) /\ \A k \in 1..n0 : F[k] = ReadElement(of, part, d, F[k - 1], missing)
  BY <1>0, <1>6 DEF Step
<1> QED
  BY <1>5, <1>7 DEF n0, Tried, ListReading

\* The reader refuses what is missing: with an exception, or by reading past
\* the end where it does not test for the end.
Refused(r, R) == r.ended = "threw" \/ (r.ended = "overran" /\ ~R.tested)

\* Where d has all of the bytes c from position at on, r is the value v and
\* the position behind them; where d ends before, it is refused.
Reads(r, d, at, c, v, R) ==
  /\ (at - 1) + Len(c) <= Len(d) => r = Got(v, at + Len(c))
  /\ (at - 1) + Len(c) > Len(d) => Refused(r, R)

\* The bytes b of a part are read as v, and no proper prefix of them is read.
PartRight(b, v, part) ==
  /\ b \in Seq(Byte)
  /\ part[b].ended = "read" /\ part[b].rec = v
  /\ \A n \in 0..(Len(b) - 1) : part[SubSeq(b, 1, n)].ended = "threw"

\* A reader that finds too few bytes refuses them.
LEMMA MissingRefused ==
  ASSUME NEW R
  PROVE  Refused(Missing(R), R) /\ Missing(R).ended # "read"
<1>1. CASE R.tested
  BY <1>1 DEF Refused, Missing, Threw
<1>2. CASE ~R.tested
  BY <1>2 DEF Refused, Missing, Overran
<1> QED BY <1>1, <1>2

\* The fields of what was read.
LEMMA GotFields ==
  ASSUME NEW v, NEW at
  PROVE  Got(v, at).ended = "read" /\ Got(v, at).rec = v /\ Got(v, at).at = at
  BY DEF Got

\* A part that is there in full is read as what it was, at any place.
LEMMA PartRead ==
  ASSUME NEW b, NEW v, NEW part, PartRight(b, v, part), NEW d \in Seq(Byte),
         NEW at \in Nat \ {0}, Carries(d, at, b), (at - 1) + Len(b) <= Len(d)
  PROVE  ReadPart(part, d, at, (at - 1) + Len(b)) = Got(v, at + Len(b))
<1>1. b \in Seq(Byte) /\ part[b].ended = "read" /\ part[b].rec = v
  BY DEF PartRight
<1>2. SubSeq(d, at, (at - 1) + Len(b)) = b
  BY <1>1, CarriedSlice
<1>3. PICK l \in Nat : l = Len(b)
  BY <1>1
<1>4. ((at - 1) + l) + 1 = at + l
  OBVIOUS
<1> QED BY <1>1, <1>2, <1>3, <1>4 DEF ReadPart

\* One element of a list.
LEMMA ElementRead ==
  ASSUME NEW of, NEW part, NEW d \in Seq(Byte), NEW s, NEW p \in Nat \ {0}, NEW missing,
         of.prefix \in Nat, NEW b, NEW y, PartRight(b, y, part),
         p <= Len(d) + 1, Carries(d, p, WithLength(of.prefix, b)),
         of.prefix = 0 => Len(b) = of.size,
         of.prefix # 0 => Len(b) < Limit(of.prefix)
  PROVE  ReadElement(of, part, d, Got(s, p), missing)
           = IF (p - 1) + (of.prefix + Len(b)) <= Len(d)
             THEN Got(Append(s, y), p + (of.prefix + Len(b))) ELSE missing
<1>1. PICK w \in Nat : w = of.prefix
  OBVIOUS
<1>2. b \in Seq(Byte) /\ Len(b) \in Nat
  BY DEF PartRight
<1>3. PICK l \in Nat : l = Len(b)
  BY <1>2
<1> DEFINE head == p + w
           len  == IF w = 0 THEN of.size ELSE NumberLE(SubSeq(d, p, head - 1))
           e    == ReadPart(part, d, head, (head + len) - 1)
<1>4. Got(s, p).ended = "read" /\ Got(s, p).rec = s /\ Got(s, p).at = p
  BY GotFields
<1>5. ReadElement(of, part, d, Got(s, p), missing)
        = IF head - 1 > Len(d) \/ (head + len) - 1 > Len(d) THEN missing
          ELSE IF e.ended # "read" THEN e ELSE Got(Append(s, e.rec), e.at)
  BY <1>1, <1>4 DEF ReadElement
<1>6. Carries(d, p + w, b) /\ (head - 1 <= Len(d) => len = l)
  <2>1. CASE w = 0
    <3>1. BytesLE(l, 0) = <<>>
      BY DEF BytesLE
    <3>2. WithLength(of.prefix, b) = b
      BY <1>1, <1>2, <1>3, <2>1, <3>1 DEF WithLength
    <3>3. p + w = p
      BY <2>1
    <3> QED BY <1>1, <1>3, <2>1, <3>2, <3>3
  <2>2. CASE w # 0
    <3>1. l \in 0..(Limit(w) - 1)
      <4>1. Limit(w) \in Nat
        BY DEF Limit, Huge
      <4> QED BY <1>1, <1>3, <2>2, <4>1
    <3>2. Bytes("le", l, w) = BytesLE(l, w)
      BY DEF Bytes, BigEndian
    <3>3. Carries(d, p, Bytes("le", l, w) \o b)
      BY <1>1, <1>3, <3>2 DEF WithLength
    <3>4. /\ (p + w) - 1 <= Len(d) => Number("le", SubSeq(d, p, (p + w) - 1)) = l
          /\ Carries(d, p + w, b)
      BY <1>2, <3>1, <3>3, HeadRead
    <3>5. \A x : Number("le", x) = NumberLE(x)
      BY DEF Number, BigEndian
    <3> QED BY <2>2, <3>4, <3>5
  <2> QED BY <2>1, <2>2
<1> HIDE DEF len
<1>7. CASE (p - 1) + (w + l) <= Len(d)
  <2>1. Len(d) \in Nat /\ head - 1 <= Len(d) /\ len = l /\ (head + len) - 1 <= Len(d)
    BY <1>6, <1>7
  <2>2. (head - 1) + Len(b) <= Len(d) /\ head \in Nat \ {0}
        /\ (head - 1) + Len(b) = (head + len) - 1 /\ head + Len(b) = p + (w + l)
    BY <1>3, <2>1
  <2>3. e = Got(y, head + Len(b))
    <3> HIDE DEF head
    <3>1. ReadPart(part, d, head, (head - 1) + Len(b)) = Got(y, head + Len(b))
      BY <1>6, <2>2, PartRead DEF head
    <3> QED BY <2>2, <3>1
  <2>4. e.ended = "read" /\ e.rec = y /\ e.at = p + (w + l)
    BY <2>2, <2>3, GotFields
  <2> HIDE DEF e, head
  <2>5. ~(head - 1 > Len(d)) /\ ~((head + len) - 1 > Len(d))
    BY <1>3, <2>1 DEF head
  <2> QED BY <1>1, <1>3, <1>5, <1>7, <2>4, <2>5
<1>8. CASE ~((p - 1) + (w + l) <= Len(d))
  <2>1. Len(d) \in Nat /\ (head - 1 > Len(d) \/ (head + len) - 1 > Len(d))
    BY <1>6, <1>8
  <2> HIDE DEF e, head
  <2> QED BY <1>1, <1>3, <1>5, <1>8, <2>1
<1> QED BY <1>7, <1>8

\* The elements of a list v, written as bs, are read right one by one.
ListRight(v, bs, of, part) ==
  /\ of.prefix \in Nat /\ (of.prefix >= 8 \/ (of.prefix = 0 /\ of.size \in Nat /\ of.size >= 8))
  /\ \A e \in 1..Len(v) : /\ PartRight(bs[e], v[e], part)
                          /\ of.prefix = 0 => Len(bs[e]) = of.size
                          /\ of.prefix # 0 => Len(bs[e]) < Limit(of.prefix)

ListChunks(v, bs, of) == [e \in 1..Len(v) |-> WithLength(of.prefix, bs[e])]

\* What one element of a list takes: at least eight bytes.
LEMMA ListChunk ==
  ASSUME NEW v, Len(v) \in Nat, NEW bs, NEW of, NEW part, ListRight(v, bs, of, part),
         NEW e \in 1..Len(v)
  PROVE  /\ ListChunks(v, bs, of)[e] = WithLength(of.prefix, bs[e])
         /\ WithLength(of.prefix, bs[e]) \in Seq(Byte)
         /\ Len(WithLength(of.prefix, bs[e])) = of.prefix + Len(bs[e])
         /\ bs[e] \in Seq(Byte)
         /\ of.prefix + Len(bs[e]) >= 8
<1>1. /\ of.prefix \in Nat /\ (of.prefix >= 8 \/ (of.prefix = 0 /\ of.size \in Nat /\ of.size >= 8))
      /\ PartRight(bs[e], v[e], part)
      /\ of.prefix = 0 => Len(bs[e]) = of.size
      /\ of.prefix # 0 => Len(bs[e]) < Limit(of.prefix)
  BY DEF ListRight
<1>2. bs[e] \in Seq(Byte) /\ Len(bs[e]) \in Nat
  BY <1>1 DEF PartRight
<1>3. PICK w, l \in Nat : w = of.prefix /\ l = Len(bs[e])
  BY <1>1, <1>2
<1>4. BytesLE(l, w) \in Seq(Byte) /\ Len(BytesLE(l, w)) = w
  <2>1. CASE w = 0
    <3>1. 1..0 = {}
      OBVIOUS
    <3> QED BY <2>1, <3>1 DEF BytesLE
  <2>2. CASE w # 0
    <3>1. Limit(w) \in Nat
      BY DEF Limit, Huge
    <3>2. l \in 0..(Limit(w) - 1)
      BY <1>1, <1>3, <2>2, <3>1
    <3> QED BY <3>2, NumberBytes
  <2> QED BY <2>1, <2>2
<1>5. ListChunks(v, bs, of)[e] = WithLength(of.prefix, bs[e])
  BY DEF ListChunks
<1>6. WithLength(of.prefix, bs[e]) = BytesLE(l, w) \o bs[e]
  BY <1>3 DEF WithLength
<1>7. BytesLE(l, w) \o bs[e] \in Seq(Byte) /\ Len(BytesLE(l, w) \o bs[e]) = w + l
  <2>1. PICK h, b \in Seq(Byte) : h = BytesLE(l, w) /\ b = bs[e]
    BY <1>2, <1>4
  <2>2. h \o b \in Seq(Byte) /\ Len(h \o b) = Len(h) + Len(b)
    BY JoinTwo
  <2> QED BY <1>3, <1>4, <2>1, <2>2
<1>8. w + l >= 8
  <2>1. w >= 8 \/ l >= 8
    BY <1>1, <1>3
  <2> QED BY <2>1
<1> QED BY <1>2, <1>3, <1>5, <1>6, <1>7, <1>8

\* The places of the elements in the bytes of a list.
LEMMA ListBytes ==
  ASSUME NEW v, Len(v) \in Nat, NEW bs, NEW of, NEW part, ListRight(v, bs, of, part)
  PROVE  \E off : Offsets(ListChunks(v, bs, of), Len(v), off, Concat(ListChunks(v, bs, of), Len(v)))
<1>1. PICK n \in Nat : n = Len(v)
  OBVIOUS
<1>2. ASSUME NEW e \in 1..n PROVE ListChunks(v, bs, of)[e] \in Seq(Byte)
  <2>1. e \in 1..Len(v)
    BY <1>1
  <2>2. /\ ListChunks(v, bs, of)[e] = WithLength(of.prefix, bs[e])
        /\ WithLength(of.prefix, bs[e]) \in Seq(Byte)
    BY <2>1, ListChunk
  <2> QED BY <2>2
<1> QED BY <1>1, <1>2, ConcatOffsets

\* A list is read element by element as it was written; one that is cut is
\* refused, wherever the data ends.
LEMMA ListRead ==
  ASSUME NEW S, NEW v \in Seq(S), NEW bs, NEW of, NEW part, ListRight(v, bs, of, part),
         NEW d \in Seq(Byte), NEW p \in Nat \ {0}, p <= Len(d) + 1, NEW R,
         Carries(d, p, Concat(ListChunks(v, bs, of), Len(v)))
  PROVE  Reads(ReadList(of, part, Len(v), d, p, Missing(R)), d, p,
               Concat(ListChunks(v, bs, of), Len(v)), v, R)
<1>1. PICK n \in Nat : n = Len(v)
  OBVIOUS
<1> DEFINE chunks == ListChunks(v, bs, of)
           all == Concat(chunks, n)
<1>2. PICK off : Offsets(chunks, n, off, all)
  BY <1>1, ListBytes
<1>3. PICK D \in Nat : D = Len(d)
  OBVIOUS
<1>0. PICK read : ListReading(read, of, part, n, d, p, Missing(R))
  <2>1. Len(d) \in Nat
    OBVIOUS
  <2>2. \E f : ListReading(f, of, part, n, d, p, Missing(R))
    BY <2>1, ReadListStep
  <2> QED BY <2>2
<1>5. PICK tried \in Nat : (tried = Tried(n, d)) /\ tried <= n
                            /\ (tried = n \/ 8 * tried > D)
  <2>0. PICK T \in Nat : T = D \div 8 /\ 8 * (T + 1) > D
    OBVIOUS
  <2>1. Tried(n, d) = IF n > T THEN T + 1 ELSE n
    BY <1>3, <2>0 DEF Tried
  <2>2. CASE n > T
    <3>1. T + 1 \in Nat /\ T + 1 <= n
      BY <2>2
    <3> QED BY <2>0, <2>1, <2>2, <3>1
  <2>3. CASE ~(n > T)
    BY <2>1, <2>3
  <2> QED BY <2>2, <2>3
<1>4. /\ read[0] = Got(<<>>, p)
      /\ \A k \in 1..tried : read[k] = ReadElement(of, part, d, read[k - 1], Missing(R))
      /\ ReadList(of, part, n, d, p, Missing(R)) = read[tried]
  <2>1. /\ read[0] = Got(<<>>, p)
        /\ \A k \in 1..Tried(n, d) : read[k] = ReadElement(of, part, d, read[k - 1], Missing(R))
        /\ ReadList(of, part, n, d, p, Missing(R)) = read[Tried(n, d)]
    BY <1>0 DEF ListReading
  <2> QED BY <1>5, <2>1
<1> HIDE DEF chunks, all
<1>6. /\ off \in [0..n -> Nat] /\ off[0] = 0 /\ all \in Seq(Byte) /\ Len(all) = off[n]
      /\ \A k \in 1..n : off[k] = off[k - 1] + Len(chunks[k])
  BY <1>2 DEF Offsets
<1>7. ASSUME NEW k \in 1..n
      PROVE  /\ Len(chunks[k]) \in Nat /\ Len(chunks[k]) >= 8
             /\ chunks[k] = WithLength(of.prefix, bs[k])
             /\ Len(chunks[k]) = of.prefix + Len(bs[k])
             /\ Carries(d, p + off[k - 1], chunks[k])
  <2>1. k \in 1..Len(v) /\ Len(v) \in Nat
    BY <1>1
  <2>2. /\ chunks[k] = WithLength(of.prefix, bs[k])
        /\ WithLength(of.prefix, bs[k]) \in Seq(Byte)
        /\ Len(WithLength(of.prefix, bs[k])) = of.prefix + Len(bs[k])
        /\ of.prefix + Len(bs[k]) >= 8
    BY <2>1, ListChunk DEF chunks
  <2>3. Carries(d, p, all)
    BY <1>1 DEF all, chunks
  <2>4. Carries(d, p + off[k - 1], chunks[k])
    BY <1>2, <2>3, CarriesChunk
  <2>5. Len(chunks[k]) \in Nat
    BY <2>2
  <2> QED BY <2>2, <2>4, <2>5
<1> DEFINE Long(k) == off[k] >= 8 * k
           Full(k) == (p - 1) + off[k] <= D => read[k] = Got(SubSeq(v, 1, k), p + off[k])
           Short(k) == (p - 1) + off[k] > D => read[k].ended # "read" /\ Refused(read[k], R)
           G == {k \in Nat : k <= tried => Long(k) /\ Full(k) /\ Short(k)}
<1>8. 0 \in G
  <2>1. SubSeq(v, 1, 0) = <<>>
    BY SubSeqEmpty
  <2>2. p + 0 = p /\ (p - 1) + 0 <= D /\ 0 >= 8 * 0
    BY <1>3
  <2>3. off[0] = 0 /\ read[0] = Got(SubSeq(v, 1, 0), p)
    BY <1>4, <1>6, <2>1
  <2>4. Long(0) /\ Full(0)
    BY <2>2, <2>3
  <2>5. ~((p - 1) + off[0] > D)
    BY <1>3, <2>3
  <2>6. Short(0)
    BY <2>5
  <2> HIDE DEF Long, Full, Short
  <2> QED BY <2>4, <2>6
<1>9. ASSUME NEW m \in Nat, m \in G PROVE m + 1 \in G
  <2>1. PICK x \in Nat : x = m + 1
    OBVIOUS
  <2> SUFFICES ASSUME x <= tried PROVE Long(x) /\ Full(x) /\ Short(x)
    <3> HIDE DEF Long, Full, Short
    <3> QED BY <2>1
  <2>2. x \in 1..tried /\ x \in 1..n /\ x - 1 = m /\ m \in 0..n /\ m <= tried /\ x \in 0..n
    BY <1>5, <2>1
  <2>3. Long(m) /\ Full(m) /\ Short(m)
    <3> HIDE DEF Long, Full, Short
    <3> QED BY <1>9, <2>2
  <2>4. PICK o, l \in Nat : o = off[m] /\ l = Len(chunks[x])
    BY <1>6, <1>7, <2>2
  <2>5. off[x] = o + l /\ l >= 8
    BY <1>6, <1>7, <2>2, <2>4
  <2>6. read[x] = ReadElement(of, part, d, read[m], Missing(R))
    BY <1>4, <2>2
  <2>a. o >= 8 * m
    BY <2>3, <2>4
  <2>b. PICK y \in Nat : y = off[x]
    BY <2>5
  <2>c. y = o + l /\ y >= 8 * x
    BY <2>1, <2>5, <2>a, <2>b
  <2>7. CASE (p - 1) + o > D
    <3>1. read[m].ended # "read" /\ Refused(read[m], R)
      BY <2>3, <2>4, <2>7
    <3>2. read[x] = read[m]
      BY <2>6, <3>1 DEF ReadElement
    <3>3. (p - 1) + y > D /\ ~((p - 1) + y <= D)
      BY <2>7, <2>c, <2>5
    <3> QED BY <2>b, <2>c, <3>1, <3>2, <3>3
  <2>8. CASE (p - 1) + o <= D
    <3>1. read[m] = Got(SubSeq(v, 1, m), p + o)
      BY <2>3, <2>4, <2>8
    <3>2. PICK q \in Nat \ {0} : q = p + o
      OBVIOUS
    <3>3. q <= Len(d) + 1
      BY <1>3, <2>8, <3>2
    <3>4. x \in 1..Len(v)
      BY <1>1, <2>2
    <3>5. /\ of.prefix \in Nat
          /\ PartRight(bs[x], v[x], part)
          /\ of.prefix = 0 => Len(bs[x]) = of.size
          /\ of.prefix # 0 => Len(bs[x]) < Limit(of.prefix)
      BY <3>4 DEF ListRight
    <3>6. Carries(d, q, WithLength(of.prefix, bs[x])) /\ l = of.prefix + Len(bs[x])
      BY <1>7, <2>2, <2>4, <3>2
    <3>7. ReadElement(of, part, d, Got(SubSeq(v, 1, m), q), Missing(R))
            = IF (q - 1) + (of.prefix + Len(bs[x])) <= Len(d)
              THEN Got(Append(SubSeq(v, 1, m), v[x]), q + (of.prefix + Len(bs[x])))
              ELSE Missing(R)
      <4>1. PICK s, b, z, miss : s = SubSeq(v, 1, m) /\ b = bs[x] /\ z = v[x] /\ miss = Missing(R)
        OBVIOUS
      <4>2. /\ PartRight(b, z, part) /\ Carries(d, q, WithLength(of.prefix, b))
            /\ of.prefix = 0 => Len(b) = of.size
            /\ of.prefix # 0 => Len(b) < Limit(of.prefix)
        BY <3>5, <3>6, <4>1
      <4>3. ReadElement(of, part, d, Got(s, q), miss)
              = IF (q - 1) + (of.prefix + Len(b)) <= Len(d)
                THEN Got(Append(s, z), q + (of.prefix + Len(b))) ELSE miss
        BY <3>3, <3>5, <4>2, ElementRead
      <4> QED BY <4>1, <4>3
    <3>8. read[x] = IF (q - 1) + l <= D THEN Got(Append(SubSeq(v, 1, m), v[x]), q + l)
                    ELSE Missing(R)
      BY <1>3, <2>6, <3>1, <3>2, <3>6, <3>7
    <3>9. Append(SubSeq(v, 1, m), v[x]) = SubSeq(v, 1, x)
      <4>1. 1 \in 1..Len(v) /\ x \in 1..Len(v)
        BY <3>4
      <4>2. SubSeq(v, 1, x) = SubSeq(v, 1, x - 1) \o <<v[x]>>
        BY <4>1, SubSeqRecursiveSecond
      <4>3. SubSeq(v, 1, m) \in Seq(S) /\ v[x] \in S
        <5>1. \A i \in 1..m : v[i] \in S
          BY <1>1, <2>2
        <5> QED BY <3>4, <5>1, SubSeqProperties
      <4>4. Append(SubSeq(v, 1, m), v[x]) = SubSeq(v, 1, m) \o <<v[x]>>
        BY <4>3, AppendIsConcat
      <4> QED BY <2>2, <4>2, <4>4
    <3>10. (q - 1) + l = (p - 1) + y /\ q + l = p + y
      BY <2>c, <3>2
    <3>11. Missing(R).ended # "read" /\ Refused(Missing(R), R)
      BY MissingRefused
    <3>12. (p - 1) + y <= D => read[x] = Got(SubSeq(v, 1, x), p + y)
      BY <3>8, <3>9, <3>10
    <3>13. (p - 1) + y > D => read[x] = Missing(R)
      BY <3>8, <3>10
    <3> QED BY <2>b, <2>c, <3>11, <3>12, <3>13
  <2> QED BY <2>7, <2>8
<1>10. Nat \subseteq G
  <2> HIDE DEF G
  <2> QED BY <1>8, <1>9, NumberInduction
<1>11. Long(tried) /\ Full(tried) /\ Short(tried)
  <2>1. tried \in G /\ tried <= tried
    BY <1>10
  <2> HIDE DEF Long, Full, Short
  <2> QED BY <2>1
<1>12. off[tried] \in Nat /\ off[n] \in Nat /\ off[tried] <= off[n]
  <2>1. tried \in 0..n /\ n \in 0..n
    BY <1>5
  <2> QED BY <1>2, <2>1 DEF Offsets
<1>14. CASE tried = n
  <2>1. SubSeq(v, 1, n) = v
    BY <1>1, SubSeqFull
  <2>2. /\ (p - 1) + Len(all) <= Len(d) => read[n] = Got(v, p + Len(all))
        /\ (p - 1) + Len(all) > Len(d) => Refused(read[n], R)
    BY <1>3, <1>6, <1>11, <1>14, <2>1
  <2> QED BY <1>1, <1>4, <1>14, <2>2 DEF Reads, all, chunks
<1>15. CASE 8 * tried > D
  <2>1. (p - 1) + off[tried] > D /\ (p - 1) + off[n] > D
    BY <1>11, <1>12, <1>15
  <2>2. Refused(read[tried], R)
    BY <1>11, <2>1
  <2>3. ~((p - 1) + Len(all) <= Len(d))
    BY <1>3, <1>6, <1>12, <2>1
  <2> QED BY <1>1, <1>4, <2>2, <2>3 DEF Reads, all, chunks
<1> QED BY <1>5, <1>14, <1>15

\* A part that reaches to the end of the data, whole or cut.
LEMMA TailRead ==
  ASSUME NEW b, NEW v, NEW part, PartRight(b, v, part), NEW d \in Seq(Byte),
         NEW p \in Nat \ {0}, p <= Len(d) + 1, Carries(d, p, b), Len(d) <= (p - 1) + Len(b)
  PROVE  LET tail == ReadPart(part, d, p, Len(d))
         IN  /\ (p - 1) + Len(b) <= Len(d) => tail = Got(v, p + Len(b))
             /\ (p - 1) + Len(b) > Len(d) => tail.ended = "threw"
<1>1. b \in Seq(Byte) /\ \A n \in 0..(Len(b) - 1) : part[SubSeq(b, 1, n)].ended = "threw"
  BY DEF PartRight
<1>2. PICK D, l \in Nat : D = Len(d) /\ l = Len(b)
  BY <1>1
<1>3. ASSUME (p - 1) + Len(b) <= Len(d)
      PROVE  ReadPart(part, d, p, Len(d)) = Got(v, p + Len(b))
  <2>1. (p - 1) + Len(b) = Len(d)
    BY <1>2, <1>3
  <2>2. ReadPart(part, d, p, (p - 1) + Len(b)) = Got(v, p + Len(b))
    BY <1>3, PartRead
  <2> QED BY <2>1, <2>2
<1>4. ASSUME (p - 1) + Len(b) > Len(d)
      PROVE  ReadPart(part, d, p, Len(d)).ended = "threw"
  <2>1. PICK n \in Nat : n = (D - p) + 1
    BY <1>2
  <2>2. n \in 0..(Len(b) - 1) /\ n <= Len(b) /\ p - 1 <= D /\ 0 <= n
    BY <1>2, <1>4, <2>1
  <2>3. /\ SubSeq(d, p, D) \in Seq(Byte) /\ Len(SubSeq(d, p, D)) = (D - p) + 1
        /\ \A i \in 1..((D - p) + 1) : SubSeq(d, p, D)[i] = d[(p - 1) + i]
    <3>1. D \in Int /\ p - 1 <= D /\ D <= Len(d)
      BY <1>2, <2>2
    <3> QED BY <3>1, SliceOf
  <2>4. /\ SubSeq(b, 1, n) \in Seq(Byte) /\ Len(SubSeq(b, 1, n)) = (n - 1) + 1
        /\ \A i \in 1..((n - 1) + 1) : SubSeq(b, 1, n)[i] = b[(1 - 1) + i]
    <3>1. n \in Int /\ 1 \in Nat \ {0} /\ 1 - 1 <= n /\ n <= Len(b)
      BY <2>2
    <3> QED BY <1>1, <3>1, SliceOf
  <2>5. ASSUME NEW i \in 1..n PROVE SubSeq(d, p, D)[i] = SubSeq(b, 1, n)[i]
    <3>1. i \in 1..Len(b) /\ (p - 1) + i <= Len(d) /\ (1 - 1) + i = i /\ (n - 1) + 1 = n
      BY <1>2, <2>1, <2>2
    <3>2. d[(p - 1) + i] = b[i]
      BY <3>1 DEF Carries
    <3> QED BY <2>1, <2>3, <2>4, <3>1, <3>2
  <2>6. SubSeq(d, p, D) = SubSeq(b, 1, n)
    <3>1. (n - 1) + 1 = n
      OBVIOUS
    <3> QED BY <2>1, <2>3, <2>4, <2>5, <3>1, SeqEqual
  <2>7. part[SubSeq(d, p, D)].ended = "threw"
    BY <1>1, <2>2, <2>6
  <2> QED BY <1>2, <2>7 DEF ReadPart
<1> QED BY <1>3, <1>4

\* Behind an integer there is nothing to read.
LEMMA NumberBehind ==
  ASSUME NEW R, NEW it, NEW part, NEW d \in Seq(Byte), NEW p \in Nat \ {0}, p <= Len(d) + 1,
         NEW x \in Nat, NEW rec,
         \/ it.kind \in {"le", "be", "ifthere"}
         \/ it.kind = "enum" /\ it.of \in Nat /\ x <= it.of
  PROVE  Reads(ReadBehind(R, it, part, d, p, x, rec), d, p, <<>>, x, R)
<1>1. ReadBehind(R, it, part, d, p, x, rec) = Got(x, p)
  <2>1. CASE it.kind \in {"le", "be", "ifthere"}
    BY <2>1 DEF ReadBehind
  <2>2. CASE it.kind = "enum" /\ it.of \in Nat /\ x <= it.of
    <3>1. ~(x > it.of)
      BY <2>2
    <3> QED BY <2>2, <3>1 DEF ReadBehind
  <2> QED BY <2>1, <2>2
<1>2. Len(<<>>) = 0 /\ p + 0 = p /\ (p - 1) + 0 <= Len(d) /\ ~((p - 1) + 0 > Len(d))
  OBVIOUS
<1> QED BY <1>1, <1>2 DEF Reads

\* The bytes of a field that is skipped leave a zero.
LEMMA UnreadBehind ==
  ASSUME NEW R, NEW it, NEW part, NEW d \in Seq(Byte), NEW p \in Nat \ {0}, p <= Len(d) + 1,
         NEW x, NEW rec, it.kind = "unread"
  PROVE  Reads(ReadBehind(R, it, part, d, p, x, rec), d, p, <<>>, 0, R)
<1>1. ReadBehind(R, it, part, d, p, x, rec) = Got(0, p)
  BY DEF ReadBehind
<1>2. Len(<<>>) = 0 /\ p + 0 = p /\ (p - 1) + 0 <= Len(d) /\ ~((p - 1) + 0 > Len(d))
  OBVIOUS
<1> QED BY <1>1, <1>2 DEF Reads

\* Behind its length a text is read in full or refused.
LEMMA TextBehind ==
  ASSUME NEW R, NEW it, NEW part, NEW d \in Seq(Byte), NEW p \in Nat \ {0}, p <= Len(d) + 1,
         NEW v \in Seq(Byte), NEW rec, Carries(d, p, v), it.kind \in {"textle", "textbe"}
  PROVE  Reads(ReadBehind(R, it, part, d, p, Len(v), rec), d, p, v, v, R)
<1>1. PICK l \in Nat : l = Len(v)
  OBVIOUS
<1>2. ReadBehind(R, it, part, d, p, l, rec)
        = IF (p + l) - 1 > Len(d) THEN Missing(R)
          ELSE Got(SubSeq(d, p, (p + l) - 1), ((p + l) - 1) + 1)
  BY DEF ReadBehind
<1>3. (p + l) - 1 = (p - 1) + l /\ ((p + l) - 1) + 1 = p + l
  OBVIOUS
<1>4. CASE (p - 1) + l <= Len(d)
  <2>1. SubSeq(d, p, (p - 1) + Len(v)) = v
    BY <1>1, <1>4, CarriedSlice
  <2>2. ~((p - 1) + l > Len(d))
    BY <1>4
  <2>3. ReadBehind(R, it, part, d, p, l, rec) = Got(v, p + l)
    BY <1>1, <1>2, <1>3, <2>1, <2>2
  <2> QED BY <1>1, <1>4, <2>2, <2>3 DEF Reads
<1>5. CASE ~((p - 1) + l <= Len(d))
  <2>1. (p + l) - 1 > Len(d)
    BY <1>5
  <2>2. Refused(Missing(R), R)
    BY MissingRefused
  <2> QED BY <1>1, <1>2, <1>5, <2>1, <2>2 DEF Reads
<1> QED BY <1>4, <1>5

\* The same for a part with its length in front.
LEMMA SizedBehind ==
  ASSUME NEW R, NEW it, NEW part, NEW d \in Seq(Byte), NEW p \in Nat \ {0}, p <= Len(d) + 1,
         NEW b, NEW v, PartRight(b, v, part), NEW rec, Carries(d, p, b), it.kind = "sized"
  PROVE  Reads(ReadBehind(R, it, part, d, p, Len(b), rec), d, p, b, v, R)
<1>1. PICK l \in Nat : l = Len(b)
  BY DEF PartRight
<1>2. ReadBehind(R, it, part, d, p, l, rec)
        = IF (p + l) - 1 > Len(d) THEN Missing(R) ELSE ReadPart(part, d, p, (p + l) - 1)
  BY DEF ReadBehind
<1>3. (p + l) - 1 = (p - 1) + l
  OBVIOUS
<1>4. CASE (p - 1) + l <= Len(d)
  <2>1. ReadPart(part, d, p, (p - 1) + Len(b)) = Got(v, p + Len(b))
    BY <1>1, <1>4, PartRead
  <2>2. ~((p - 1) + l > Len(d))
    BY <1>4
  <2>3. ReadBehind(R, it, part, d, p, l, rec) = Got(v, p + l)
    BY <1>1, <1>2, <1>3, <2>1, <2>2
  <2> QED BY <1>1, <1>4, <2>2, <2>3 DEF Reads
<1>5. CASE ~((p - 1) + l <= Len(d))
  <2>1. (p + l) - 1 > Len(d)
    BY <1>5
  <2>2. Refused(Missing(R), R)
    BY MissingRefused
  <2> QED BY <1>1, <1>2, <1>5, <2>1, <2>2 DEF Reads
<1> QED BY <1>4, <1>5

\* The same for a part that takes the rest of the data.
LEMMA RestBehind ==
  ASSUME NEW R, NEW it, NEW part, NEW d \in Seq(Byte), NEW p \in Nat \ {0}, p <= Len(d) + 1,
         NEW b, NEW v, PartRight(b, v, part), NEW rec, Carries(d, p, b), NEW x,
         Len(d) <= (p - 1) + Len(b), it.kind = "rest"
  PROVE  Reads(ReadBehind(R, it, part, d, p, x, rec), d, p, b, v, R)
<1> DEFINE tail == ReadPart(part, d, p, Len(d))
<1>1. /\ (p - 1) + Len(b) <= Len(d) => tail = Got(v, p + Len(b))
      /\ (p - 1) + Len(b) > Len(d) => tail.ended = "threw"
  BY TailRead
<1>2. ReadBehind(R, it, part, d, p, x, rec) = tail
  BY DEF ReadBehind
<1> HIDE DEF tail
<1> QED BY <1>1, <1>2 DEF Reads, Refused

\* The same for an optional part, where its flag is set.
LEMMA RestIfBehind ==
  ASSUME NEW R, NEW it, NEW part, NEW d \in Seq(Byte), NEW p \in Nat \ {0}, p <= Len(d) + 1,
         NEW b, NEW v, PartRight(b, v, part), NEW rec, Carries(d, p, b), NEW x,
         Len(d) <= (p - 1) + Len(b), it.kind = "restif", rec[it.flag] = 1
  PROVE  Reads(ReadBehind(R, it, part, d, p, x, rec), d, p, b, <<v>>, R)
<1> DEFINE tail == ReadPart(part, d, p, Len(d))
<1>1. /\ (p - 1) + Len(b) <= Len(d) => tail = Got(v, p + Len(b))
      /\ (p - 1) + Len(b) > Len(d) => tail.ended = "threw"
  BY TailRead
<1>2. ReadBehind(R, it, part, d, p, x, rec)
        = IF tail.ended = "read" THEN Got(<<tail.rec>>, tail.at) ELSE tail
  BY DEF ReadBehind
<1> HIDE DEF tail
<1>3. (p - 1) + Len(b) <= Len(d) => tail.ended = "read" /\ tail.rec = v /\ tail.at = p + Len(b)
  BY <1>1, GotFields
<1>4. (p - 1) + Len(b) > Len(d) => tail.ended # "read" /\ Refused(tail, R)
  BY <1>1 DEF Refused
<1> QED BY <1>2, <1>3, <1>4 DEF Reads

\* The value v, whose parts were written as bs by the item iw, fits, and the
\* item ir is one that reads it as u.  flagged: the flag of ir is set.
ItemRight(iw, ir, v, u, bs, part, flagged) ==
  /\ iw.width \in Nat /\ ir.width = iw.width /\ BigEndian(ir.kind) = BigEndian(iw.kind)
  /\ InFront(iw, v, bs) \in 0..(Limit(iw.width) - 1)
  /\ \/ iw.kind \in {"le", "be"} /\ ir.kind \in {iw.kind, "ifthere"} /\ u = v
     \/ iw.kind = "enum" /\ ir.kind = "enum" /\ ir.of \in Nat /\ v <= ir.of /\ u = v
     \/ iw.kind = "le" /\ ir.kind = "unread" /\ u = 0
     \/ iw.kind \in {"textle", "textbe"} /\ ir.kind = iw.kind /\ v \in Seq(Byte) /\ u = v
     \/ /\ iw.kind \in {"listle", "listbe"} /\ ir.kind = iw.kind /\ u = v
        /\ v \in Seq(Range(v)) /\ iw.of.prefix = ir.of.prefix
        /\ ListRight(v, bs, ir.of, part)
     \/ iw.kind \in {"sized", "rest"} /\ ir.kind = iw.kind /\ PartRight(bs[1], v, part) /\ u = v
     \/ /\ iw.kind = "restif" /\ ir.kind = "restif" /\ iw.of.prefix = 0 /\ u = v
        /\ IF flagged THEN \E y : v = <<y>> /\ PartRight(bs[1], y, part) ELSE v = <<>>

\* One part without a length is written as it is.
LEMMA ConcatOne ==
  ASSUME NEW b \in Seq(Byte), NEW bs, b = bs[1]
  PROVE  Concat([e \in 1..1 |-> WithLength(0, bs[e])], 1) = b
<1> DEFINE c == [e \in 1..1 |-> WithLength(0, bs[e])]
<1>1. PICK upto : /\ upto[0] = <<>>
                  /\ \A k \in 1..1 : upto[k] = upto[k - 1] \o c[k]
                  /\ Concat(c, 1) = upto[1]
  BY ConcatStep
<1>2. c[1] = WithLength(0, b)
  OBVIOUS
<1> HIDE DEF c
<1>3. 1 \in 1..1 /\ 1 - 1 = 0 /\ 1..0 = {}
  OBVIOUS
<1>4. BytesLE(Len(b), 0) = <<>>
  BY <1>3 DEF BytesLE
<1>7. <<>> \o b = b
  OBVIOUS
<1>5. WithLength(0, b) = b
  <2>1. WithLength(0, b) = BytesLE(Len(b), 0) \o b
    BY DEF WithLength
  <2> QED BY <1>4, <1>7, <2>1
<1>6. upto[1] = <<>> \o b
  BY <1>1, <1>2, <1>3, <1>5
<1> QED BY <1>1, <1>6, <1>7 DEF c

\* No parts are no bytes.
LEMMA ConcatNone ==
  ASSUME NEW chunks
  PROVE  Concat(chunks, 0) = <<>>
  BY ConcatStep

\* What is written behind the number of an item are bytes.
LEMMA BehindBytes ==
  ASSUME NEW iw, NEW ir, NEW v, NEW u, NEW bs, NEW part, NEW flagged,
         ItemRight(iw, ir, v, u, bs, part, flagged)
  PROVE  Behind(iw, v, bs) \in Seq(Byte)
<1>0. <<>> \in Seq(Byte)
  OBVIOUS
<1>1. CASE iw.kind \in {"le", "be", "enum"}
  BY <1>0, <1>1 DEF Behind
<1>2. CASE iw.kind \in {"textle", "textbe"} /\ v \in Seq(Byte)
  BY <1>2 DEF Behind
<1>3. CASE /\ iw.kind \in {"listle", "listbe"} /\ v \in Seq(Range(v))
           /\ iw.of.prefix = ir.of.prefix /\ ListRight(v, bs, ir.of, part)
  <2>1. Behind(iw, v, bs) = Concat(ListChunks(v, bs, ir.of), Len(v))
    BY <1>3 DEF Behind, ListChunks
  <2>2. Len(v) \in Nat
    BY <1>3
  <2>3. PICK off : Offsets(ListChunks(v, bs, ir.of), Len(v), off,
                           Concat(ListChunks(v, bs, ir.of), Len(v)))
    BY <1>3, <2>2, ListBytes
  <2> QED BY <2>1, <2>3 DEF Offsets
<1>4. CASE iw.kind \in {"sized", "rest"} /\ PartRight(bs[1], v, part)
  BY <1>4 DEF Behind, PartRight
<1>5. CASE /\ iw.kind = "restif" /\ iw.of.prefix = 0
           /\ IF flagged THEN \E y : v = <<y>> /\ PartRight(bs[1], y, part) ELSE v = <<>>
  <2>1. Behind(iw, v, bs) = Concat([e \in 1..Len(v) |-> WithLength(0, bs[e])], Len(v))
    BY <1>5 DEF Behind
  <2>2. CASE v = <<>>
    <3>1. Len(v) = 0
      BY <2>2
    <3> QED BY <1>0, <2>1, <3>1, ConcatNone
  <2>3. CASE \E y : v = <<y>> /\ PartRight(bs[1], y, part)
    <3>1. Len(v) = 1 /\ bs[1] \in Seq(Byte)
      BY <2>3 DEF PartRight
    <3> QED BY <2>1, <3>1, ConcatOne
  <2> QED BY <1>5, <2>2, <2>3
<1> QED BY <1>1, <1>2, <1>3, <1>4, <1>5 DEF ItemRight

\* What is written behind the number of an item is read as it was or refused.
LEMMA BehindRead ==
  ASSUME NEW iw, NEW ir, NEW v, NEW u, NEW bs, NEW part, NEW R, NEW rec,
         ItemRight(iw, ir, v, u, bs, part, rec[ir.flag] = 1),
         NEW d \in Seq(Byte), NEW p \in Nat \ {0}, p <= Len(d) + 1,
         Carries(d, p, Behind(iw, v, bs)),
         ir.kind \in {"rest", "restif"} => Len(d) <= (p - 1) + Len(Behind(iw, v, bs))
  PROVE  Reads(ReadBehind(R, ir, part, d, p, InFront(iw, v, bs), rec), d, p,
               Behind(iw, v, bs), u, R)
<1> DEFINE x == InFront(iw, v, bs)
           b == Behind(iw, v, bs)
<1>0. x \in Nat
  <2>1. Limit(iw.width) \in Nat
    BY DEF Limit, Huge
  <2> QED BY <2>1 DEF ItemRight
<1>1. CASE iw.kind \in {"le", "be"} /\ ir.kind \in {iw.kind, "ifthere"} /\ u = v
  <2>1. x = v /\ b = <<>>
    BY <1>1 DEF InFront, Behind
  <2>2. ir.kind \in {"le", "be", "ifthere"}
    BY <1>1
  <2> HIDE DEF x, b
  <2>3. Reads(ReadBehind(R, ir, part, d, p, x, rec), d, p, <<>>, x, R)
    BY <1>0, <2>2, NumberBehind
  <2> QED BY <1>1, <2>1, <2>3 DEF x, b
<1>2. CASE iw.kind = "enum" /\ ir.kind = "enum" /\ ir.of \in Nat /\ v <= ir.of /\ u = v
  <2>1. x = v /\ b = <<>>
    BY <1>2 DEF InFront, Behind
  <2>2. ir.kind = "enum" /\ ir.of \in Nat /\ x <= ir.of
    BY <1>2, <2>1
  <2> HIDE DEF x, b
  <2>3. Reads(ReadBehind(R, ir, part, d, p, x, rec), d, p, <<>>, x, R)
    BY <1>0, <2>2, NumberBehind
  <2> QED BY <1>2, <2>1, <2>3 DEF x, b
<1>3. CASE iw.kind = "le" /\ ir.kind = "unread" /\ u = 0
  <2>1. b = <<>>
    BY <1>3 DEF Behind
  <2> HIDE DEF x, b
  <2>3. Reads(ReadBehind(R, ir, part, d, p, x, rec), d, p, <<>>, 0, R)
    BY <1>3, UnreadBehind
  <2> QED BY <1>3, <2>1, <2>3 DEF x, b
<1>4. CASE iw.kind \in {"textle", "textbe"} /\ ir.kind = iw.kind /\ v \in Seq(Byte) /\ u = v
  <2>1. x = Len(v) /\ b = v
    BY <1>4 DEF InFront, Behind
  <2>2. Carries(d, p, v) /\ ir.kind \in {"textle", "textbe"}
    BY <1>4, <2>1
  <2>3. Reads(ReadBehind(R, ir, part, d, p, Len(v), rec), d, p, v, v, R)
    BY <1>4, <2>2, TextBehind
  <2> QED BY <1>4, <2>1, <2>3
<1>5. CASE /\ iw.kind \in {"listle", "listbe"} /\ ir.kind = iw.kind /\ u = v
           /\ v \in Seq(Range(v)) /\ iw.of.prefix = ir.of.prefix
           /\ ListRight(v, bs, ir.of, part)
  <2>1. x = Len(v) /\ b = Concat(ListChunks(v, bs, ir.of), Len(v))
    BY <1>5 DEF InFront, Behind, ListChunks
  <2>2. ReadBehind(R, ir, part, d, p, Len(v), rec)
          = ReadList(ir.of, part, Len(v), d, p, Missing(R))
    BY <1>5 DEF ReadBehind
  <2>3. Carries(d, p, Concat(ListChunks(v, bs, ir.of), Len(v)))
    BY <2>1
  <2>4. Reads(ReadList(ir.of, part, Len(v), d, p, Missing(R)), d, p,
              Concat(ListChunks(v, bs, ir.of), Len(v)), v, R)
    BY <1>5, <2>3, ListRead
  <2> QED BY <1>5, <2>1, <2>2, <2>4
<1>6. CASE iw.kind = "sized" /\ ir.kind = iw.kind /\ PartRight(bs[1], v, part) /\ u = v
  <2>1. x = Len(bs[1]) /\ b = bs[1]
    BY <1>6 DEF InFront, Behind
  <2>2. Carries(d, p, bs[1])
    BY <2>1
  <2>3. Reads(ReadBehind(R, ir, part, d, p, Len(bs[1]), rec), d, p, bs[1], v, R)
    BY <1>6, <2>2, SizedBehind
  <2> QED BY <1>6, <2>1, <2>3
<1>7. CASE iw.kind = "rest" /\ ir.kind = iw.kind /\ PartRight(bs[1], v, part) /\ u = v
  <2>1. b = bs[1]
    BY <1>7 DEF Behind
  <2>2. Carries(d, p, bs[1]) /\ Len(d) <= (p - 1) + Len(bs[1])
    BY <1>7, <2>1
  <2> HIDE DEF x
  <2>3. Reads(ReadBehind(R, ir, part, d, p, x, rec), d, p, bs[1], v, R)
    BY <1>7, <2>2, RestBehind
  <2> QED BY <1>7, <2>1, <2>3 DEF x
<1>8. CASE /\ iw.kind = "restif" /\ ir.kind = "restif" /\ iw.of.prefix = 0 /\ u = v
           /\ IF rec[ir.flag] = 1 THEN \E y : v = <<y>> /\ PartRight(bs[1], y, part)
              ELSE v = <<>>
  <2>1. b = Concat([e \in 1..Len(v) |-> WithLength(0, bs[e])], Len(v))
    BY <1>8 DEF Behind
  <2>2. CASE rec[ir.flag] = 1
    <3>1. PICK y : v = <<y>> /\ PartRight(bs[1], y, part)
      BY <1>8, <2>2
    <3>2. Len(v) = 1 /\ bs[1] \in Seq(Byte)
      BY <3>1 DEF PartRight
    <3>3. b = bs[1]
      BY <2>1, <3>2, ConcatOne
    <3>4. Carries(d, p, bs[1]) /\ Len(d) <= (p - 1) + Len(bs[1])
      BY <1>8, <3>3
    <3> HIDE DEF x
    <3>5. Reads(ReadBehind(R, ir, part, d, p, x, rec), d, p, bs[1], <<y>>, R)
      BY <1>8, <2>2, <3>1, <3>4, RestIfBehind
    <3> QED BY <1>8, <3>1, <3>3, <3>5 DEF x
  <2>3. CASE rec[ir.flag] # 1
    <3>1. v = <<>> /\ Len(v) = 0
      BY <1>8, <2>3
    <3>2. b = <<>>
      BY <2>1, <3>1, ConcatNone
    <3> HIDE DEF x
    <3>3. ReadBehind(R, ir, part, d, p, x, rec) = Got(<<>>, p)
      BY <1>8, <2>3 DEF ReadBehind
    <3>4. Len(<<>>) = 0 /\ p + 0 = p /\ (p - 1) + 0 <= Len(d) /\ ~((p - 1) + 0 > Len(d))
      OBVIOUS
    <3>5. Reads(Got(<<>>, p), d, p, <<>>, <<>>, R)
      BY <3>4 DEF Reads
    <3> QED BY <1>8, <3>1, <3>2, <3>3, <3>5 DEF x
  <2> QED BY <2>2, <2>3
<1> QED BY <1>1, <1>2, <1>3, <1>4, <1>5, <1>6, <1>7, <1>8 DEF ItemRight

\* An item reads what the item of the writer wrote.
LEMMA ItemRead ==
  ASSUME NEW iw, NEW ir, NEW v, NEW u, NEW bs, NEW part, NEW R, NEW rec,
         ItemRight(iw, ir, v, u, bs, part, rec[ir.flag] = 1),
         NEW d \in Seq(Byte), NEW at \in Nat \ {0}, at <= Len(d) + 1,
         Carries(d, at, WriteItem(iw, v, bs)),
         ir.kind \in {"rest", "restif"} => Len(d) <= (at - 1) + Len(WriteItem(iw, v, bs)),
         ir.kind = "ifthere" => (at + iw.width) - 1 <= Len(d)
  PROVE  Reads(ReadItem(R, ir, part, d, at, rec), d, at, WriteItem(iw, v, bs), u, R)
<1> DEFINE x == InFront(iw, v, bs)
           b == Behind(iw, v, bs)
           c == WriteItem(iw, v, bs)
<1>1. PICK w \in Nat : w = iw.width /\ w = ir.width
  BY DEF ItemRight
<1>2. x \in 0..(Limit(w) - 1) /\ BigEndian(ir.kind) = BigEndian(iw.kind)
  BY <1>1 DEF ItemRight
<1>3. b \in Seq(Byte)
  BY BehindBytes
<1>4. c = Bytes(iw.kind, x, w) \o b
  BY <1>1 DEF WriteItem
<1>5. Carries(d, at, c)
  OBVIOUS
<1> HIDE DEF x, b, c
<1>6. /\ Len(c) = w + Len(b)
      /\ (at + w) - 1 <= Len(d) => Number(iw.kind, SubSeq(d, at, (at + w) - 1)) = x
      /\ Carries(d, at + w, b)
  BY <1>2, <1>3, <1>4, <1>5, HeadRead
<1>7. PICK D, l \in Nat : D = Len(d) /\ l = Len(b)
  BY <1>3
<1>8. PICK p \in Nat \ {0} : p = at + w
  OBVIOUS
<1>9. CASE p - 1 <= D
  <2>1. Number(ir.kind, SubSeq(d, at, p - 1)) = x
    <3>1. Number(iw.kind, SubSeq(d, at, p - 1)) = x
      BY <1>6, <1>7, <1>8, <1>9
    <3> QED BY <1>2, <3>1 DEF Number
  <2>2. ~(p - 1 > Len(d))
    BY <1>7, <1>9
  <2>3. ReadItem(R, ir, part, d, at, rec) = ReadBehind(R, ir, part, d, p, x, rec)
    BY <1>1, <1>8, <2>1, <2>2 DEF ReadItem
  <2>4. p <= Len(d) + 1 /\ Carries(d, p, b)
    BY <1>6, <1>7, <1>8, <1>9
  <2>5. ir.kind \in {"rest", "restif"} => Len(d) <= (p - 1) + Len(b)
    <3>1. (at - 1) + (w + l) = (p - 1) + l
      BY <1>8
    <3> QED BY <1>6, <1>7, <3>1 DEF c
  <2>6. Reads(ReadBehind(R, ir, part, d, p, x, rec), d, p, b, u, R)
    BY <2>4, <2>5, BehindRead DEF x, b
  <2>7. (at - 1) + Len(c) = (p - 1) + Len(b) /\ at + Len(c) = p + Len(b)
    BY <1>6, <1>7, <1>8
  <2>8. Reads(ReadItem(R, ir, part, d, at, rec), d, at, c, u, R)
    BY <2>3, <2>6, <2>7 DEF Reads
  <2> QED BY <2>8 DEF c
<1>10. CASE ~(p - 1 <= D)
  <2>1. (at + w) - 1 > Len(d) /\ ~((at + w) - 1 <= Len(d))
    BY <1>7, <1>8, <1>10
  <2>2. ir.kind # "ifthere"
    BY <1>1, <2>1
  <2>3. ReadItem(R, ir, part, d, at, rec) = Missing(R)
    BY <1>1, <2>1, <2>2 DEF ReadItem
  <2>4. ~((at - 1) + Len(c) <= Len(d))
    BY <1>6, <1>7, <1>8, <1>10
  <2>5. Refused(Missing(R), R)
    BY MissingRefused
  <2>6. Reads(ReadItem(R, ir, part, d, at, rec), d, at, c, u, R)
    BY <2>3, <2>4, <2>5 DEF Reads
  <2> QED BY <2>6 DEF c
<1> QED BY <1>9, <1>10

\* The length of an item is its width and what is behind.
LEMMA ItemBytes ==
  ASSUME NEW iw, NEW ir, NEW v, NEW u, NEW bs, NEW part, NEW flagged,
         ItemRight(iw, ir, v, u, bs, part, flagged)
  PROVE  /\ WriteItem(iw, v, bs) \in Seq(Byte)
         /\ Behind(iw, v, bs) \in Seq(Byte)
         /\ Len(WriteItem(iw, v, bs)) = iw.width + Len(Behind(iw, v, bs))
<1>1. PICK w \in Nat : w = iw.width
  BY DEF ItemRight
<1>2. PICK x : x = InFront(iw, v, bs) /\ x \in 0..(Limit(w) - 1)
  BY <1>1 DEF ItemRight
<1>3. PICK b \in Seq(Byte) : b = Behind(iw, v, bs)
  BY BehindBytes
<1>4. Bytes(iw.kind, x, w) \in Seq(Byte) /\ Len(Bytes(iw.kind, x, w)) = w
  BY <1>2, NumberOfBytes
<1>5. PICK h \in Seq(Byte) : h = Bytes(iw.kind, x, w) /\ Len(h) = w
  BY <1>4
<1>6. h \o b \in Seq(Byte) /\ Len(h \o b) = Len(h) + Len(b)
  BY JoinTwo
<1>7. WriteItem(iw, v, bs) = h \o b
  BY <1>1, <1>2, <1>3, <1>5 DEF WriteItem
<1> QED BY <1>1, <1>3, <1>5, <1>6, <1>7

-----------------------------------------------------------------------------
(* Layouts *)

\* ReadItems reads item by item.
LEMMA ReadItemsStep ==
  ASSUME NEW R, NEW d, NEW parts, NEW n \in Nat, n = Len(R.items)
  PROVE  LET read == ReadItems(R, d, parts)
         IN  /\ read[0] = Got([z \in {} |-> 0], 1)
             /\ \A k \in 1..n : read[k] = ReadField(R, R.items[k], parts[k], d, read[k - 1])
<1> DEFINE Step(k, x) == ReadField(R, R.items[k], parts[k], d, x)
           Def(f, m) == [k \in 0..m |-> IF k = 0 THEN Got([z \in {} |-> 0], 1) ELSE Step(k, f[k - 1])]
           G == {m \in Nat : \E f : f = Def(f, m)}
<1> HIDE DEF Step
<1>1. 0 \in G
  <2> DEFINE f == [k \in 0..0 |-> Got([z \in {} |-> 0], 1)]
  <2>1. f = Def(f, 0)
    OBVIOUS
  <2> HIDE DEF f
  <2> QED BY <2>1
<1>2. ASSUME NEW m \in Nat, m \in G PROVE m + 1 \in G
  <2>1. PICK f : f = Def(f, m)
    BY <1>2
  <2> DEFINE q == Step(m + 1, f[m])
             g == [k \in 0..(m + 1) |-> IF k = m + 1 THEN q ELSE f[k]]
  <2>2. g = Def(g, m + 1)
    <3>1. \A k \in 0..m : f[k] = IF k = 0 THEN Got([z \in {} |-> 0], 1) ELSE Step(k, f[k - 1])
      BY <2>1
    <3>2. \A k \in 0..m : g[k] = f[k]
      OBVIOUS
    <3>3. ASSUME NEW k \in 0..(m + 1)
          PROVE  g[k] = IF k = 0 THEN Got([z \in {} |-> 0], 1) ELSE Step(k, g[k - 1])
      <4>1. CASE k = m + 1
        <5>1. g[k] = q /\ k - 1 = m /\ g[m] = f[m] /\ k # 0
          BY <3>2, <4>1
        <5> HIDE DEF g
        <5> QED BY <4>1, <5>1
      <4>2. CASE k \in 0..m
        <5>1. g[k] = f[k] /\ (k # 0 => g[k - 1] = f[k - 1])
          BY <3>2, <4>2
        <5> HIDE DEF g
        <5> QED BY <3>1, <4>2, <5>1
      <4> QED BY <4>1, <4>2
    <3>4. g = [k \in 0..(m + 1) |-> g[k]]
      OBVIOUS
    <3> HIDE DEF g
    <3> QED BY <3>3, <3>4
  <2> HIDE DEF g, q, Def
  <2> QED BY <2>2
<1>3. Nat \subseteq G
  <2> HIDE DEF G
  <2> QED BY <1>1, <1>2, NumberInduction
<1> DEFINE F == CHOOSE f : f = Def(f, n)
<1>4. F = Def(F, n)
  <2> HIDE DEF Def
  <2>1. n \in G
    BY <1>3
  <2> QED BY <2>1
<1>5. ReadItems(R, d, parts) = F
  BY DEF ReadItems, Step
<1> HIDE DEF F
<1>6. DOMAIN F = 0..n /\ \A k \in 0..n : F[k] = IF k = 0 THEN Got([z \in {} |-> 0], 1) ELSE Step(k, F[k - 1])
  BY <1>4
<1>7. F[0] = Got([z \in {} |-> 0], 1) /\ \A k \in 1..n : F[k] = ReadField(R, R.items[k], parts[k], d, F[k - 1])
  BY <1>6 DEF Step
<1> QED
  BY <1>5, <1>7

\* Only an optional part depends on its flag.
LEMMA FlagOnly ==
  ASSUME NEW iw, NEW ir, NEW v, NEW u, NEW bs, NEW part, NEW f, NEW g,
         ItemRight(iw, ir, v, u, bs, part, f = 1),
         ir.kind = "restif" => f = g
  PROVE  ItemRight(iw, ir, v, u, bs, part, g = 1)
<1>1. CASE ir.kind = "restif"
  BY <1>1
<1>2. CASE ir.kind # "restif"
  BY <1>2 DEF ItemRight
<1> QED BY <1>1, <1>2

\* The layout R reads the fields rec, written in the layout W with the parts
\* written as bs, as the fields exp.
LayoutRight(W, R, rec, exp, bs, parts) ==
  /\ Len(W.items) \in Nat /\ Len(R.items) = Len(W.items)
  /\ \A k \in 1..Len(W.items) :
        /\ R.items[k].name = W.items[k].name
        /\ ItemRight(W.items[k], R.items[k], rec[W.items[k].name], exp[R.items[k].name],
                     bs[k], parts[k], exp[R.items[k].flag] = 1)
        /\ R.items[k].kind \in {"rest", "restif"} => k = Len(W.items)
        /\ R.items[k].kind = "restif" =>
              \E j \in 1..(k - 1) : R.items[j].name = R.items[k].flag

Chunks(W, rec, bs) ==
  [k \in 1..Len(W.items) |-> WriteItem(W.items[k], rec[W.items[k].name], bs[k])]

\* The places of the items in the bytes of a layout.
LEMMA LayoutBytes ==
  ASSUME NEW W, NEW R, NEW rec, NEW exp, NEW bs, NEW parts,
         LayoutRight(W, R, rec, exp, bs, parts)
  PROVE  /\ WriteLayout(W, rec, bs) = Concat(Chunks(W, rec, bs), Len(W.items))
         /\ \E off : Offsets(Chunks(W, rec, bs), Len(W.items), off, WriteLayout(W, rec, bs))
<1>1. WriteLayout(W, rec, bs) = Concat(Chunks(W, rec, bs), Len(W.items))
  BY DEF WriteLayout, Chunks
<1>2. PICK n \in Nat : n = Len(W.items)
  BY DEF LayoutRight
<1>3. ASSUME NEW k \in 1..n PROVE Chunks(W, rec, bs)[k] \in Seq(Byte)
  <2>1. ItemRight(W.items[k], R.items[k], rec[W.items[k].name], exp[R.items[k].name],
                  bs[k], parts[k], exp[R.items[k].flag] = 1)
    BY <1>2 DEF LayoutRight
  <2>2. WriteItem(W.items[k], rec[W.items[k].name], bs[k]) \in Seq(Byte)
    BY <2>1, ItemBytes
  <2> QED BY <1>2, <2>2 DEF Chunks
<1>4. \E off : Offsets(Chunks(W, rec, bs), n, off, Concat(Chunks(W, rec, bs), n))
  BY <1>3, ConcatOffsets
<1> QED BY <1>1, <1>2, <1>4

FieldsUpto(R, exp, k) == [x \in {R.items[j].name : j \in 1..k} |-> exp[x]]

\* One more field.
LEMMA FieldsStep ==
  ASSUME NEW R, NEW exp, NEW k \in Nat
  PROVE  WithField(FieldsUpto(R, exp, k), R.items[k + 1].name, exp[R.items[k + 1].name])
           = FieldsUpto(R, exp, k + 1)
<1> DEFINE A == {R.items[j].name : j \in 1..k}
           B == {R.items[j].name : j \in 1..(k + 1)}
           nm == R.items[k + 1].name
<1>1. B = A \cup {nm}
  <2>1. \A j : j \in 1..(k + 1) <=> (j \in 1..k \/ j = k + 1)
    OBVIOUS
  <2> QED BY <2>1
<1> HIDE DEF A, B, nm
<1>2. DOMAIN [x \in A |-> exp[x]] = A
  OBVIOUS
<1>3. WithField([x \in A |-> exp[x]], nm, exp[nm]) = [x \in A \cup {nm} |-> exp[x]]
  BY <1>2 DEF WithField
<1> QED BY <1>1, <1>3 DEF FieldsUpto, A, B, nm

\* The fields that were read are there.
LEMMA FieldsAt ==
  ASSUME NEW R, NEW exp, NEW k \in Nat, NEW x, \E j \in 1..k : R.items[j].name = x
  PROVE  FieldsUpto(R, exp, k)[x] = exp[x]
  BY DEF FieldsUpto

\* The first k items of d are read as the fields exp, or d ends before and is
\* refused.
ReadUpto(R, d, parts, exp, off, k) ==
  LET r == ReadItems(R, d, parts)[k]
  IN  /\ off[k] <= Len(d) => r = Got(FieldsUpto(R, exp, k), 1 + off[k])
      /\ off[k] > Len(d) => r.ended # "read" /\ Refused(r, R)

\* A field that may be absent is there: d does not end right before it.
There(W, R, d, off, k) ==
  R.items[k].kind = "ifthere" /\ off[k - 1] <= Len(d) => off[k - 1] + W.items[k].width <= Len(d)

\* If the first m items are read or refused, so is the next.
LEMMA ItemsStep ==
  ASSUME NEW W, NEW R, NEW rec, NEW exp, NEW bs, NEW parts,
         LayoutRight(W, R, rec, exp, bs, parts),
         NEW n \in Nat, n = Len(W.items), NEW off, NEW all,
         Offsets(Chunks(W, rec, bs), n, off, all),
         NEW d \in Seq(Byte), Carries(d, 1, all), Len(d) <= Len(all),
         NEW m \in Nat, m + 1 <= n, There(W, R, d, off, m + 1),
         ReadUpto(R, d, parts, exp, off, m)
  PROVE  ReadUpto(R, d, parts, exp, off, m + 1)
<1>1. PICK x \in Nat : x = m + 1
  OBVIOUS
<1>2. x \in 1..n /\ x - 1 = m /\ m \in 0..n /\ x \in 0..n
  BY <1>1
<1> DEFINE chunks == Chunks(W, rec, bs)
           iw == W.items[x]
           ir == R.items[x]
           read == ReadItems(R, d, parts)
<1>3. /\ off \in [0..n -> Nat] /\ Len(all) = off[n]
      /\ chunks[x] \in Seq(Byte) /\ off[x] = off[m] + Len(chunks[x])
  <2> HIDE DEF chunks
  <2>1. /\ off \in [0..n -> Nat] /\ Len(all) = off[n]
        /\ \A k \in 1..n : chunks[k] \in Seq(Byte) /\ off[k] = off[k - 1] + Len(chunks[k])
    BY DEF Offsets, chunks
  <2> QED BY <1>2, <2>1
<1>4. PICK D, o, l \in Nat : D = Len(d) /\ o = off[m] /\ l = Len(chunks[x])
  BY <1>2, <1>3
<1>5. off[x] = o + l
  BY <1>3, <1>4
<1>6. /\ ir.name = iw.name
      /\ ItemRight(iw, ir, rec[iw.name], exp[ir.name], bs[x], parts[x], exp[ir.flag] = 1)
      /\ ir.kind \in {"rest", "restif"} => x = n
      /\ ir.kind = "restif" => \E j \in 1..m : R.items[j].name = ir.flag
  BY <1>2 DEF LayoutRight
<1>7. chunks[x] = WriteItem(iw, rec[iw.name], bs[x])
  BY <1>2 DEF Chunks
<1>8. read[x] = ReadField(R, ir, parts[x], d, read[m])
  <2>1. n = Len(R.items)
    BY DEF LayoutRight
  <2>2. \A k \in 1..n : ReadItems(R, d, parts)[k]
                          = ReadField(R, R.items[k], parts[k], d, ReadItems(R, d, parts)[k - 1])
    BY <2>1, ReadItemsStep
  <2> QED BY <1>2, <2>2
<1>9. /\ off[m] <= Len(d) => read[m] = Got(FieldsUpto(R, exp, m), 1 + off[m])
      /\ off[m] > Len(d) => read[m].ended # "read" /\ Refused(read[m], R)
  BY DEF ReadUpto
<1>10. PICK c \in Seq(Byte) : c = chunks[x] /\ l = Len(c)
  BY <1>3, <1>4
<1> HIDE DEF chunks, read, iw, ir
<1>11. CASE o > D
  <2>1. read[m].ended # "read" /\ Refused(read[m], R)
    BY <1>4, <1>9, <1>11
  <2>2. read[x] = read[m]
    BY <1>8, <2>1 DEF ReadField
  <2>3. off[x] > Len(d) /\ ~(off[x] <= Len(d))
    BY <1>4, <1>5, <1>11
  <2> QED BY <1>1, <2>1, <2>2, <2>3 DEF ReadUpto, read
<1>12. CASE o <= D
  <2>1. PICK at \in Nat \ {0} : at = 1 + o
    OBVIOUS
  <2>2. PICK before : before = FieldsUpto(R, exp, m)
    OBVIOUS
  <2>3. read[m] = Got(before, at)
    BY <1>4, <1>9, <1>12, <2>1, <2>2
  <2>4. at <= Len(d) + 1
    BY <1>4, <1>12, <2>1
  <2>5. Carries(d, at, c)
    <3>1. Offsets(chunks, n, off, all)
      BY DEF chunks
    <3>2. PICK one \in Nat \ {0} : one = 1
      OBVIOUS
    <3>3. Carries(d, one, all)
      BY <3>2
    <3>4. Carries(d, one + off[x - 1], chunks[x])
      BY <1>2, <3>1, <3>3, CarriesChunk
    <3>5. one + off[x - 1] = at
      BY <1>2, <1>4, <2>1, <3>2
    <3> QED BY <1>10, <3>4, <3>5
  <2>6. ItemRight(iw, ir, rec[iw.name], exp[ir.name], bs[x], parts[x], before[ir.flag] = 1)
    <3>1. ir.kind = "restif" => exp[ir.flag] = before[ir.flag]
      BY <1>6, <2>2, FieldsAt
    <3> QED BY <1>6, <3>1, FlagOnly
  <2>7. ir.kind \in {"rest", "restif"} => Len(d) <= (at - 1) + Len(c)
    <3>1. x = n => Len(all) = o + l
      BY <1>3, <1>5
    <3>2. (at - 1) + Len(c) = o + l
      BY <1>10, <2>1
    <3> QED BY <1>6, <3>1, <3>2
  <2>8. ir.kind = "ifthere" => (at + iw.width) - 1 <= Len(d)
    <3>1. PICK w \in Nat : w = iw.width
      BY <1>6 DEF ItemRight
    <3>2. ir.kind = "ifthere" => o + w <= D
      BY <1>1, <1>2, <1>4, <1>12, <3>1 DEF There, ir, iw
    <3>3. (at + w) - 1 = o + w
      BY <2>1
    <3> QED BY <1>4, <3>1, <3>2, <3>3
  <2> DEFINE r == ReadItem(R, ir, parts[x], d, at, before)
  <2>9. Reads(r, d, at, c, exp[ir.name], R)
    <3>1. PICK v, u, b, q : v = rec[iw.name] /\ u = exp[ir.name] /\ b = bs[x] /\ q = parts[x]
      OBVIOUS
    <3>2. ItemRight(iw, ir, v, u, b, q, before[ir.flag] = 1) /\ c = WriteItem(iw, v, b)
      BY <1>7, <1>10, <2>6, <3>1
    <3>3. Reads(ReadItem(R, ir, q, d, at, before), d, at, WriteItem(iw, v, b), u, R)
      BY <2>4, <2>5, <2>7, <2>8, <3>2, ItemRead
    <3> QED BY <3>1, <3>2, <3>3
  <2>10. read[x] = IF r.ended # "read" THEN r
                   ELSE Got(WithField(before, ir.name, r.rec), r.at)
    <3>1. read[m].ended = "read" /\ read[m].rec = before /\ read[m].at = at
      BY <2>3, GotFields
    <3> QED BY <1>8, <3>1 DEF ReadField
  <2> HIDE DEF r
  <2>11. (at - 1) + Len(c) = off[x] /\ at + Len(c) = 1 + off[x]
    <3>1. (at - 1) + l = o + l /\ at + l = 1 + (o + l)
      BY <2>1
    <3> QED BY <1>5, <1>10, <3>1
  <2>12. off[x] <= Len(d) => read[x] = Got(FieldsUpto(R, exp, x), 1 + off[x])
    <3> SUFFICES ASSUME off[x] <= Len(d) PROVE read[x] = Got(FieldsUpto(R, exp, x), 1 + off[x])
      OBVIOUS
    <3>1. r = Got(exp[ir.name], 1 + off[x])
      BY <2>9, <2>11 DEF Reads
    <3>2. r.ended = "read" /\ r.rec = exp[ir.name] /\ r.at = 1 + off[x]
      BY <3>1, GotFields
    <3>3. WithField(before, ir.name, exp[ir.name]) = FieldsUpto(R, exp, x)
      BY <1>1, <2>2, FieldsStep DEF ir
    <3> QED BY <2>10, <3>2, <3>3
  <2>13. off[x] > Len(d) => read[x].ended # "read" /\ Refused(read[x], R)
    <3> SUFFICES ASSUME off[x] > Len(d) PROVE read[x].ended # "read" /\ Refused(read[x], R)
      OBVIOUS
    <3>1. Refused(r, R)
      BY <2>9, <2>11 DEF Reads
    <3>2. r.ended # "read"
      BY <3>1 DEF Refused
    <3> QED BY <2>10, <3>1, <3>2
  <2> QED BY <1>1, <2>12, <2>13 DEF ReadUpto, read
<1> QED BY <1>4, <1>11, <1>12

\* The items are read one by one, or refused where the data ends.
LEMMA ItemsRead ==
  ASSUME NEW W, NEW R, NEW rec, NEW exp, NEW bs, NEW parts,
         LayoutRight(W, R, rec, exp, bs, parts),
         NEW n \in Nat, n = Len(W.items), NEW off, NEW all,
         Offsets(Chunks(W, rec, bs), n, off, all),
         NEW d \in Seq(Byte), Carries(d, 1, all), Len(d) <= Len(all),
         NEW top \in 0..n, \A k \in 1..top : There(W, R, d, off, k)
  PROVE  ReadUpto(R, d, parts, exp, off, top)
<1> DEFINE G == {m \in Nat : m <= top => ReadUpto(R, d, parts, exp, off, m)}
<1>1. 0 \in G
  <2>1. n = Len(R.items)
    BY DEF LayoutRight
  <2>2. ReadItems(R, d, parts)[0] = Got([z \in {} |-> 0], 1)
    BY <2>1, ReadItemsStep
  <2>3. off[0] = 0
    BY DEF Offsets
  <2>4. {R.items[j].name : j \in 1..0} = {}
    OBVIOUS
  <2>5. FieldsUpto(R, exp, 0) = [z \in {} |-> 0]
    BY <2>4 DEF FieldsUpto
  <2>6. 0 <= Len(d) /\ ~(0 > Len(d)) /\ 1 + 0 = 1
    OBVIOUS
  <2>7. ReadUpto(R, d, parts, exp, off, 0)
    BY <2>2, <2>3, <2>5, <2>6 DEF ReadUpto
  <2> QED BY <2>7
<1>2. ASSUME NEW m \in Nat, m \in G PROVE m + 1 \in G
  <2> SUFFICES ASSUME m + 1 <= top PROVE ReadUpto(R, d, parts, exp, off, m + 1)
    OBVIOUS
  <2>1. m + 1 \in 1..top /\ m + 1 <= n /\ m <= top
    OBVIOUS
  <2>2. ReadUpto(R, d, parts, exp, off, m) /\ There(W, R, d, off, m + 1)
    BY <1>2, <2>1
  <2> QED BY <2>1, <2>2, ItemsStep
<1>3. Nat \subseteq G
  <2> HIDE DEF G
  <2> QED BY <1>1, <1>2, NumberInduction
<1>4. top \in G /\ top <= top
  BY <1>3
<1> QED BY <1>4

\* What the layout W writes has at least s bytes: the widths of its items alone
\* come to s.
AtLeast(W, s) ==
  \A f : /\ f \in [0..Len(W.items) -> Nat] /\ f[0] = 0
         /\ \A k \in 1..Len(W.items) : f[k] >= f[k - 1] + W.items[k].width
         => f[Len(W.items)] >= s

\* What it writes has s bytes: its items are integers, whose widths come to s.
Scalar == {"le", "be", "enum"}
Exactly(W, s) ==
  /\ \A k \in 1..Len(W.items) : W.items[k].kind \in Scalar
  /\ \A f : /\ f \in [0..Len(W.items) -> Nat] /\ f[0] = 0
            /\ \A k \in 1..Len(W.items) : f[k] = f[k - 1] + W.items[k].width
            => f[Len(W.items)] = s

WidthsFit(W, off) ==
  \A k \in 1..Len(W.items) :
     /\ W.items[k].width \in Nat
     /\ off[k] >= off[k - 1] + W.items[k].width
     /\ W.items[k].kind \in Scalar => off[k] = off[k - 1] + W.items[k].width

\* An item takes at least its width, and an integer takes no more.
LEMMA OffsetsWidth ==
  ASSUME NEW W, NEW R, NEW rec, NEW exp, NEW bs, NEW parts,
         LayoutRight(W, R, rec, exp, bs, parts), NEW off, NEW all,
         Offsets(Chunks(W, rec, bs), Len(W.items), off, all)
  PROVE  WidthsFit(W, off)
<1> SUFFICES ASSUME NEW k \in 1..Len(W.items)
             PROVE  /\ W.items[k].width \in Nat
                    /\ off[k] >= off[k - 1] + W.items[k].width
                    /\ W.items[k].kind \in Scalar => off[k] = off[k - 1] + W.items[k].width
  BY DEF WidthsFit
<1>0. PICK n \in Nat : n = Len(W.items)
  BY DEF LayoutRight
<1> DEFINE iw == W.items[k]
           v == rec[iw.name]
<1>1. ItemRight(iw, R.items[k], v, exp[R.items[k].name], bs[k], parts[k],
                exp[R.items[k].flag] = 1)
  BY DEF LayoutRight
<1>2. PICK w \in Nat : w = iw.width
  BY <1>1 DEF ItemRight
<1>3. Behind(iw, v, bs[k]) \in Seq(Byte) /\ Len(WriteItem(iw, v, bs[k])) = w + Len(Behind(iw, v, bs[k]))
  BY <1>1, <1>2, ItemBytes
<1>4. PICK l \in Nat : l = Len(Behind(iw, v, bs[k]))
  BY <1>3
<1>5. /\ off \in [0..n -> Nat]
      /\ off[k] = off[k - 1] + Len(WriteItem(iw, v, bs[k]))
  <2>1. Chunks(W, rec, bs)[k] = WriteItem(iw, v, bs[k])
    BY DEF Chunks
  <2> QED BY <1>0, <2>1 DEF Offsets
<1>6. PICK o, p \in Nat : o = off[k - 1] /\ p = off[k]
  BY <1>0, <1>5
<1>7. p = o + (w + l)
  BY <1>3, <1>4, <1>5, <1>6
<1>8. iw.kind \in Scalar => l = 0
  BY <1>4 DEF Behind, Scalar
<1>9. p >= o + w /\ (iw.kind \in Scalar => p = o + w)
  BY <1>7, <1>8
<1> QED BY <1>2, <1>6, <1>9

\* The length of what is written.
LEMMA LayoutLength ==
  ASSUME NEW W, NEW R, NEW rec, NEW exp, NEW bs, NEW parts,
         LayoutRight(W, R, rec, exp, bs, parts), NEW s
  PROVE  /\ WriteLayout(W, rec, bs) \in Seq(Byte)
         /\ AtLeast(W, s) => Len(WriteLayout(W, rec, bs)) >= s
         /\ Exactly(W, s) => Len(WriteLayout(W, rec, bs)) = s
<1>1. PICK off : Offsets(Chunks(W, rec, bs), Len(W.items), off, WriteLayout(W, rec, bs))
  BY LayoutBytes
<1>2. \A k \in 1..Len(W.items) :
            /\ W.items[k].width \in Nat
            /\ off[k] >= off[k - 1] + W.items[k].width
            /\ W.items[k].kind \in Scalar => off[k] = off[k - 1] + W.items[k].width
  <2>1. PICK all : all = WriteLayout(W, rec, bs)
    OBVIOUS
  <2>2. WidthsFit(W, off)
    BY <1>1, <2>1, OffsetsWidth
  <2> QED BY <2>2 DEF WidthsFit
<1>3. /\ off \in [0..Len(W.items) -> Nat] /\ off[0] = 0
      /\ WriteLayout(W, rec, bs) \in Seq(Byte) /\ Len(WriteLayout(W, rec, bs)) = off[Len(W.items)]
  BY <1>1 DEF Offsets
<1>4. AtLeast(W, s) => off[Len(W.items)] >= s
  <2>1. \A k \in 1..Len(W.items) : off[k] >= off[k - 1] + W.items[k].width
    BY <1>2
  <2>2. off \in [0..Len(W.items) -> Nat] /\ off[0] = 0
    BY <1>3
  <2> QED BY <2>1, <2>2, Zenon DEF AtLeast
<1>5. Exactly(W, s) => off[Len(W.items)] = s
  BY <1>2, <1>3 DEF Exactly
<1> QED BY <1>3, <1>4, <1>5

\* What is written is carried by all its prefixes.
LEMMA PrefixCarries ==
  ASSUME NEW b \in Seq(Byte), NEW c \in 0..Len(b)
  PROVE  /\ SubSeq(b, 1, c) \in Seq(Byte) /\ Len(SubSeq(b, 1, c)) = c
         /\ Carries(SubSeq(b, 1, c), 1, b)
<1>1. /\ SubSeq(b, 1, c) \in Seq(Byte) /\ Len(SubSeq(b, 1, c)) = c
      /\ \A i \in 1..c : SubSeq(b, 1, c)[i] = b[i]
  OBVIOUS
<1>2. ASSUME NEW i \in 1..Len(b), (1 - 1) + i <= c
      PROVE  SubSeq(b, 1, c)[(1 - 1) + i] = b[i]
  <2>1. (1 - 1) + i = i /\ i \in 1..c
    BY <1>2
  <2> QED BY <1>1, <2>1
<1> QED BY <1>1, <1>2 DEF Carries

\* All of what is written is read.
LEMMA LayoutRead ==
  ASSUME NEW W, NEW R, NEW rec, NEW exp, NEW bs, NEW parts,
         LayoutRight(W, R, rec, exp, bs, parts), AtLeast(W, R.size), R.size \in Nat
  PROVE  /\ WriteLayout(W, rec, bs) \in Seq(Byte)
         /\ ReadLayout(R, WriteLayout(W, rec, bs), parts)
              = Got(FieldsUpto(R, exp, Len(R.items)), 1 + Len(WriteLayout(W, rec, bs)))
<1>1. PICK n \in Nat : n = Len(W.items) /\ n = Len(R.items)
  BY DEF LayoutRight
<1>2. PICK b : b = WriteLayout(W, rec, bs)
  OBVIOUS
<1>3. PICK off : Offsets(Chunks(W, rec, bs), n, off, b)
  BY <1>1, <1>2, LayoutBytes
<1>4. off \in [0..n -> Nat] /\ b \in Seq(Byte) /\ Len(b) = off[n] /\ \A k \in 0..n : off[k] <= off[n]
  BY <1>3 DEF Offsets
<1>5. ASSUME NEW k \in 1..n PROVE There(W, R, b, off, k)
  <2>1. W.items[k].width \in Nat /\ off[k] >= off[k - 1] + W.items[k].width
    <3>1. WidthsFit(W, off)
      BY <1>1, <1>3, OffsetsWidth
    <3> QED BY <1>1, <3>1 DEF WidthsFit
  <2>2. PICK w \in Nat : w = W.items[k].width
    BY <2>1
  <2>3. PICK o, p, q \in Nat : o = off[k - 1] /\ p = off[k] /\ q = Len(b)
    BY <1>4
  <2>4. p <= q
    BY <1>4, <2>3
  <2>5. o + w <= q
    BY <2>1, <2>2, <2>3, <2>4
  <2> QED BY <2>2, <2>3, <2>5 DEF There
<1>6. ReadUpto(R, b, parts, exp, off, n)
  <2>1. Carries(b, 1, b) /\ Len(b) <= Len(b)
    BY <1>4 DEF Carries
  <2>2. n \in 0..n
    OBVIOUS
  <2> QED BY <1>1, <1>3, <1>4, <1>5, <2>1, <2>2, ItemsRead
<1> DEFINE r == ReadItems(R, b, parts)[n]
<1>7. r = Got(FieldsUpto(R, exp, n), 1 + Len(b))
  <2>1. off[n] <= Len(b)
    BY <1>4
  <2> QED BY <1>4, <1>6, <2>1 DEF ReadUpto
<1>8. r.at = Len(b) + 1
  <2>1. 1 + Len(b) = Len(b) + 1
    BY <1>4
  <2> QED BY <1>7, <2>1, GotFields
<1>9. ~(Len(b) < R.size)
  <2>1. Len(b) >= R.size /\ Len(b) \in Nat
    BY <1>2, <1>4, LayoutLength
  <2> QED BY <2>1
<1> HIDE DEF r
<1>10. ReadLayout(R, b, parts) = r
  BY <1>1, <1>8, <1>9 DEF ReadLayout, r
<1> QED BY <1>1, <1>2, <1>4, <1>7, <1>10

\* The beginning of what is written is refused, unless it ends right before a
\* field that may be absent.
LEMMA LayoutCut ==
  ASSUME NEW W, NEW R, NEW rec, NEW exp, NEW bs, NEW parts,
         LayoutRight(W, R, rec, exp, bs, parts), R.size \in Nat,
         NEW c \in 0..(Len(WriteLayout(W, rec, bs)) - 1),
         \A k \in 1..Len(R.items) : R.items[k].kind # "ifthere"
  PROVE  Refused(ReadLayout(R, SubSeq(WriteLayout(W, rec, bs), 1, c), parts), R)
<1>1. PICK n \in Nat : n = Len(W.items) /\ n = Len(R.items)
  BY DEF LayoutRight
<1>2. PICK b : b = WriteLayout(W, rec, bs)
  OBVIOUS
<1>3. PICK off : Offsets(Chunks(W, rec, bs), n, off, b)
  BY <1>1, <1>2, LayoutBytes
<1>4. off \in [0..n -> Nat] /\ b \in Seq(Byte) /\ Len(b) = off[n]
  BY <1>3 DEF Offsets
<1>5. PICK q \in Nat : q = Len(b) /\ q = off[n]
  BY <1>4
<1>6. c \in 0..(q - 1)
  BY <1>2, <1>5
<1>7. c \in 0..Len(b) /\ c < q /\ c \in Nat
  BY <1>5, <1>6
<1>8. PICK d : d = SubSeq(b, 1, c)
  OBVIOUS
<1>9. d \in Seq(Byte) /\ Len(d) = c /\ Carries(d, 1, b) /\ Len(d) <= Len(b)
  BY <1>4, <1>5, <1>7, <1>8, PrefixCarries
<1>10. \A k \in 1..n : There(W, R, d, off, k)
  BY <1>1 DEF There
<1>11. n \in 0..n
  OBVIOUS
<1>12. ReadUpto(R, d, parts, exp, off, n)
  BY <1>1, <1>3, <1>9, <1>10, <1>11, ItemsRead
<1> DEFINE r == ReadItems(R, d, parts)[n]
<1>13. r.ended # "read" /\ Refused(r, R)
  <2>1. off[n] > Len(d)
    BY <1>5, <1>7, <1>9
  <2> QED BY <1>12, <2>1 DEF ReadUpto
<1> HIDE DEF r
<1>14. ReadLayout(R, d, parts) \in {Threw, r}
  BY <1>1, <1>13 DEF ReadLayout, r
<1>15. Refused(Threw, R)
  BY DEF Refused, Threw
<1> QED BY <1>2, <1>8, <1>13, <1>14, <1>15

-----------------------------------------------------------------------------
(* Layouts that agree: what a reader needs to read what a writer writes *)

HasParts == {"listle", "listbe", "sized", "rest", "restif"}
Plain == {"le", "be", "enum", "textle", "textbe"}

\* The same kind, so the same byte order, the same width, the same count or
\* length in front; elements without a length have the size the reader assumes.
ItemsAlike(iw, ir) ==
  /\ iw.kind \in Plain \cup HasParts /\ ir.kind = iw.kind
  /\ iw.width \in Nat /\ ir.width = iw.width
  /\ ir.name = iw.name /\ ir.flag = iw.flag
  /\ iw.kind = "enum" => iw.of \in Nat /\ ir.of = iw.of
  /\ iw.kind \in {"listle", "listbe"} =>
        /\ iw.of.prefix \in Nat /\ ir.of.prefix = iw.of.prefix
        /\ iw.of.prefix = 0 \/ iw.of.prefix >= 8
        /\ iw.of.prefix = 0 => /\ ir.of.size \in Nat /\ ir.of.size >= 8
                               /\ Exactly(iw.of, ir.of.size)
  /\ iw.kind = "restif" => iw.of.prefix = 0

LayoutsAlike(W, R) ==
  /\ Len(W.items) \in Nat /\ Len(R.items) = Len(W.items)
  /\ R.size \in Nat /\ AtLeast(W, R.size)
  /\ \A k \in 1..Len(W.items) :
        /\ ItemsAlike(W.items[k], R.items[k])
        /\ W.items[k].kind \in {"rest", "restif"} => k = Len(W.items)
        /\ W.items[k].kind = "restif" =>
              \E j \in 1..(k - 1) : W.items[j].name = W.items[k].flag

\* The parts, one level down, agree too, and a reader of a part tests for the end.
Agree0(W, R) ==
  LayoutsAlike(W, R) /\ \A k \in 1..Len(W.items) : W.items[k].kind \in Plain
Agree1(W, R) ==
  /\ LayoutsAlike(W, R)
  /\ \A k \in 1..Len(W.items) : W.items[k].kind \in HasParts =>
        R.items[k].of.tested /\ Agree0(W.items[k].of, R.items[k].of)
Agree2(W, R) ==
  /\ LayoutsAlike(W, R)
  /\ \A k \in 1..Len(W.items) : W.items[k].kind \in HasParts =>
        R.items[k].of.tested /\ Agree1(W.items[k].of, R.items[k].of)
Agree3(W, R) ==
  /\ LayoutsAlike(W, R)
  /\ \A k \in 1..Len(W.items) : W.items[k].kind \in HasParts =>
        R.items[k].of.tested /\ Agree2(W.items[k].of, R.items[k].of)

\* Layouts that agree without parts agree at every level.
LEMMA AgreeDeeper ==
  ASSUME NEW W, NEW R
  PROVE  /\ Agree0(W, R) => Agree1(W, R)
         /\ Agree1(W, R) => Agree2(W, R)
         /\ Agree2(W, R) => Agree3(W, R)
<1>1. ASSUME NEW V, NEW Q, Agree0(V, Q) PROVE Agree1(V, Q)
  BY <1>1 DEF Agree0, Agree1, Plain, HasParts
<1>2. ASSUME NEW V, NEW Q, Agree1(V, Q) PROVE Agree2(V, Q)
  BY <1>1, <1>2 DEF Agree1, Agree2
<1>3. ASSUME NEW V, NEW Q, Agree2(V, Q) PROVE Agree3(V, Q)
  BY <1>2, <1>3 DEF Agree2, Agree3
<1> QED BY <1>1, <1>2, <1>3

\* The bytes b are those of the fields m, read by the layout R; r is what is
\* read of them and cut what is read of their prefixes.
ReadBack(b, m, R, r, cut) ==
  /\ b \in Seq(Byte)
  /\ r = Got(m, 1 + Len(b))
  /\ \A c \in 0..(Len(b) - 1) : Refused(cut[c], R)

\* The parts of the item k are right: they are written as bs and read by part.
PartsRight(iw, ir, v, bs, part) ==
  \A e \in 1..Len(Parts(iw, v)) :
     /\ PartRight(bs[e], Parts(iw, v)[e], part)
     /\ Exactly(iw.of, ir.of.size) => Len(bs[e]) = ir.of.size

\* An item that fits, whose parts are read right, is read right by an item alike.
LEMMA AlikeRight ==
  ASSUME NEW iw, NEW ir, NEW v, NEW rec, NEW bs, NEW part,
         ItemsAlike(iw, ir), FitsItem(iw, v, rec, bs), PartsRight(iw, ir, v, bs, part)
  PROVE  ItemRight(iw, ir, v, v, bs, part, rec[ir.flag] = 1)
<1>1. /\ iw.width \in Nat /\ ir.width = iw.width /\ BigEndian(ir.kind) = BigEndian(iw.kind)
      /\ InFront(iw, v, bs) \in 0..(Limit(iw.width) - 1) /\ ir.kind = iw.kind
      /\ ir.flag = iw.flag
  BY DEF ItemsAlike, FitsItem
<1>2. CASE iw.kind \in {"le", "be"}
  BY <1>1, <1>2 DEF ItemRight
<1>3. CASE iw.kind = "enum"
  BY <1>1, <1>3 DEF ItemRight, ItemsAlike, FitsItem
<1>4. CASE iw.kind \in {"textle", "textbe"}
  BY <1>1, <1>4 DEF ItemRight, FitsItem
<1>5. CASE iw.kind \in {"listle", "listbe"}
  <2>1. Parts(iw, v) = v
    BY <1>5 DEF Parts
  <2>2. /\ iw.of.prefix \in Nat /\ ir.of.prefix = iw.of.prefix
        /\ iw.of.prefix = 0 \/ iw.of.prefix >= 8
        /\ iw.of.prefix = 0 => /\ ir.of.size \in Nat /\ ir.of.size >= 8
                               /\ Exactly(iw.of, ir.of.size)
    BY <1>5 DEF ItemsAlike
  <2>3. /\ v \in Seq(Range(v))
        /\ \A e \in 1..Len(v) : iw.of.prefix # 0 => Len(bs[e]) < Limit(iw.of.prefix)
    BY <1>5 DEF FitsItem
  <2>4. ListRight(v, bs, ir.of, part)
    BY <2>1, <2>2, <2>3 DEF ListRight, PartsRight
  <2> QED BY <1>1, <1>5, <2>2, <2>3, <2>4 DEF ItemRight
<1>6. CASE iw.kind \in {"sized", "rest"}
  <2>1. Parts(iw, v) = <<v>>
    BY <1>6 DEF Parts
  <2>2. Len(<<v>>) = 1 /\ <<v>>[1] = v /\ 1 \in 1..1
    OBVIOUS
  <2>3. PartRight(bs[1], v, part)
    BY <2>1, <2>2 DEF PartsRight
  <2> QED BY <1>1, <1>6, <2>3 DEF ItemRight
<1>7. CASE iw.kind = "restif"
  <2>1. Parts(iw, v) = v
    BY <1>7 DEF Parts
  <2>2. v \in Seq(Range(v)) /\ IF rec[iw.flag] = 1 THEN Len(v) = 1 ELSE v = <<>>
    BY <1>7 DEF FitsItem
  <2>3. ASSUME Len(v) = 1 PROVE \E y : v = <<y>> /\ PartRight(bs[1], y, part)
    <3>1. v = <<v[1]>>
      BY <2>2, <2>3
    <3>2. PartRight(bs[1], v[1], part)
      BY <2>1, <2>3 DEF PartsRight
    <3> QED BY <3>1, <3>2
  <2>4. iw.of.prefix = 0
    BY <1>7 DEF ItemsAlike
  <2> QED BY <1>1, <1>7, <2>2, <2>3, <2>4 DEF ItemRight
<1> QED BY <1>2, <1>3, <1>4, <1>5, <1>6, <1>7 DEF ItemsAlike, Plain, HasParts

\* Layouts that agree, fields that fit and parts that are read back make a
\* whole that is read back.
LEMMA AlikeReadBack ==
  ASSUME NEW W, NEW R, NEW m, NEW bs, NEW parts, LayoutsAlike(W, R), FitsLayout(W, m, bs),
         \A k \in 1..Len(W.items) :
            PartsRight(W.items[k], R.items[k], m[W.items[k].name], bs[k], parts[k])
  PROVE  LET b == WriteLayout(W, m, bs)
         IN  /\ ReadBack(b, m, R, ReadLayout(R, b, parts),
                         [c \in Nat |-> ReadLayout(R, SubSeq(b, 1, c), parts)])
             /\ \A s : Exactly(W, s) => Len(b) = s
<1>1. PICK n \in Nat : n = Len(W.items) /\ n = Len(R.items)
  BY DEF LayoutsAlike
<1>2. LayoutRight(W, R, m, m, bs, parts)
  <2>1. ASSUME NEW k \in 1..n
        PROVE  /\ R.items[k].name = W.items[k].name
               /\ ItemRight(W.items[k], R.items[k], m[W.items[k].name], m[R.items[k].name],
                            bs[k], parts[k], m[R.items[k].flag] = 1)
               /\ R.items[k].kind \in {"rest", "restif"} => k = n
               /\ R.items[k].kind = "restif" =>
                     \E j \in 1..(k - 1) : R.items[j].name = R.items[k].flag
    <3>1. ItemsAlike(W.items[k], R.items[k])
      BY <1>1 DEF LayoutsAlike
    <3>2. R.items[k].name = W.items[k].name /\ R.items[k].kind = W.items[k].kind
          /\ R.items[k].flag = W.items[k].flag
      BY <3>1 DEF ItemsAlike
    <3>3. FitsItem(W.items[k], m[W.items[k].name], m, bs[k])
      BY <1>1 DEF FitsLayout
    <3>4. PartsRight(W.items[k], R.items[k], m[W.items[k].name], bs[k], parts[k])
      BY <1>1
    <3>5. ItemRight(W.items[k], R.items[k], m[W.items[k].name], m[W.items[k].name],
                    bs[k], parts[k], m[R.items[k].flag] = 1)
      BY <3>1, <3>3, <3>4, AlikeRight
    <3>6. R.items[k].kind \in {"rest", "restif"} => k = n
      BY <1>1, <3>2 DEF LayoutsAlike
    <3>7. ASSUME R.items[k].kind = "restif"
          PROVE  \E j \in 1..(k - 1) : R.items[j].name = R.items[k].flag
      <4>1. PICK j \in 1..(k - 1) : W.items[j].name = W.items[k].flag
        BY <1>1, <3>2, <3>7 DEF LayoutsAlike
      <4>2. j \in 1..n
        OBVIOUS
      <4>3. R.items[j].name = W.items[j].name
        BY <1>1, <4>2 DEF LayoutsAlike, ItemsAlike
      <4> QED BY <3>2, <4>1, <4>3
    <3> QED BY <3>2, <3>5, <3>6, <3>7
  <2> QED BY <1>1, <2>1 DEF LayoutRight
<1>3. AtLeast(W, R.size) /\ R.size \in Nat
  BY DEF LayoutsAlike
<1>4. PICK b : b = WriteLayout(W, m, bs)
  OBVIOUS
<1>5. b \in Seq(Byte) /\ ReadLayout(R, b, parts) = Got(FieldsUpto(R, m, n), 1 + Len(b))
  BY <1>1, <1>2, <1>3, <1>4, LayoutRead
<1>6. FieldsUpto(R, m, n) = m
  <2>1. \A k \in 1..n : R.items[k].name = W.items[k].name
    BY <1>1 DEF LayoutsAlike, ItemsAlike
  <2>2. {R.items[k].name : k \in 1..n} = {W.items[k].name : k \in 1..n}
    BY <2>1
  <2>3. m = [x \in {W.items[k].name : k \in 1..n} |-> m[x]]
    BY <1>1 DEF FitsLayout
  <2> QED BY <2>2, <2>3 DEF FieldsUpto
<1>7. ASSUME NEW c \in 0..(Len(b) - 1)
      PROVE  Refused([x \in Nat |-> ReadLayout(R, SubSeq(b, 1, x), parts)][c], R)
  <2>1. \A k \in 1..Len(R.items) : R.items[k].kind # "ifthere"
    BY <1>1 DEF LayoutsAlike, ItemsAlike, Plain, HasParts
  <2>2. Refused(ReadLayout(R, SubSeq(b, 1, c), parts), R)
    BY <1>2, <1>3, <1>4, <2>1, LayoutCut
  <2>3. c \in Nat
    OBVIOUS
  <2> QED BY <2>2, <2>3
<1>8. \A s : Exactly(W, s) => Len(b) = s
  BY <1>2, <1>4, LayoutLength
<1> QED BY <1>4, <1>5, <1>6, <1>7, <1>8 DEF ReadBack

\* What is read back on its own is read back as a part, where its reader tests
\* for the end.
LEMMA ReadBackPart ==
  ASSUME NEW b, NEW m, NEW R, NEW part, NEW r, NEW cut, ReadBack(b, m, R, r, cut), R.tested,
         part[b] = r, \A c \in 0..(Len(b) - 1) : part[SubSeq(b, 1, c)] = cut[c]
  PROVE  PartRight(b, m, part)
<1>1. b \in Seq(Byte) /\ r.ended = "read" /\ r.rec = m
  BY GotFields DEF ReadBack
<1>2. \A c \in 0..(Len(b) - 1) : cut[c].ended = "threw"
  BY DEF ReadBack, Refused
<1> QED BY <1>1, <1>2 DEF PartRight

\* What is written is read back, and a prefix of it is refused, at each of the
\* levels at which methods call each other.
Back0(W, R, m) ==
  LET b == Write0(W, m)
  IN  /\ ReadBack(b, m, R, Read0(R, b), [c \in Nat |-> Read0(R, SubSeq(b, 1, c))])
      /\ \A s : Exactly(W, s) => Len(b) = s
Back1(W, R, m) ==
  LET b == Write1(W, m)
  IN  /\ ReadBack(b, m, R, Read1(R, b), [c \in Nat |-> Read1(R, SubSeq(b, 1, c))])
      /\ \A s : Exactly(W, s) => Len(b) = s
Back2(W, R, m) ==
  LET b == Write2(W, m)
  IN  /\ ReadBack(b, m, R, Read2(R, b), [c \in Nat |-> Read2(R, SubSeq(b, 1, c))])
      /\ \A s : Exactly(W, s) => Len(b) = s
Back3(W, R, m) ==
  LET b == Write(W, m)
  IN  /\ ReadBack(b, m, R, Read(R, b), [c \in Nat |-> Read(R, SubSeq(b, 1, c))])
      /\ \A s : Exactly(W, s) => Len(b) = s

\* A layout without parts is read back.
LEMMA Level0 ==
  ASSUME NEW W, NEW R, NEW m, Agree0(W, R), Fits0(W, m)
  PROVE  Back0(W, R, m)
<1> DEFINE none == [k \in 1..Len(W.items) |-> <<>>]
<1>1. LayoutsAlike(W, R) /\ FitsLayout(W, m, none) /\ Len(R.items) = Len(W.items)
  BY DEF Agree0, Fits0, LayoutsAlike
<1>2. ASSUME NEW k \in 1..Len(W.items)
      PROVE  PartsRight(W.items[k], R.items[k], m[W.items[k].name], none[k], none[k])
  <2>1. Parts(W.items[k], m[W.items[k].name]) = <<>>
    BY DEF Fits0, PartsAt
  <2>2. 1..Len(<<>>) = {}
    OBVIOUS
  <2> QED BY <2>1, <2>2 DEF PartsRight
<1>3. Write0(W, m) = WriteLayout(W, m, none)
  BY DEF Write0
<1>4. \A d : Read0(R, d) = ReadLayout(R, d, none)
  BY <1>1 DEF Read0
<1> HIDE DEF none
<1>5. /\ ReadBack(WriteLayout(W, m, none), m, R, ReadLayout(R, WriteLayout(W, m, none), none),
                  [c \in Nat |-> ReadLayout(R, SubSeq(WriteLayout(W, m, none), 1, c), none)])
      /\ \A s : Exactly(W, s) => Len(WriteLayout(W, m, none)) = s
  BY <1>1, <1>2, AlikeReadBack
<1> QED BY <1>3, <1>4, <1>5 DEF Back0

\* The parts of a layout are read right when their layouts agree.
LEMMA Level1Parts ==
  ASSUME NEW W, NEW R, NEW m, Fits1(W, m), Len(R.items) = Len(W.items),
         NEW k \in 1..Len(W.items), W.items[k].kind \in Plain \cup HasParts,
         W.items[k].kind \in HasParts =>
            R.items[k].of.tested /\ Agree0(W.items[k].of, R.items[k].of)
  PROVE  PartsRight(W.items[k], R.items[k], m[W.items[k].name],
                    Parts1(W, m)[k], Readers1(R)[k])
<1> DEFINE bs == Parts1(W, m)
           parts == Readers1(R)
<1>1. PICK iw, ir, v : iw = W.items[k] /\ ir = R.items[k] /\ v = m[iw.name]
  OBVIOUS
<1>2. PartsAt(W, m, k) = Parts(iw, v)
  BY <1>1 DEF PartsAt
<1>3. /\ parts[k] = [s \in Seq(Byte) |-> Read0(ir.of, s)]
      /\ bs[k] = [e \in 1..Len(Parts(iw, v)) |-> Write0(iw.of, Parts(iw, v)[e])]
  BY <1>1, <1>2 DEF Parts1, Readers1
<1> HIDE DEF parts, bs
<1> SUFFICES ASSUME NEW e \in 1..Len(Parts(iw, v))
             PROVE  /\ PartRight(bs[k][e], Parts(iw, v)[e], parts[k])
                    /\ Exactly(iw.of, ir.of.size) => Len(bs[k][e]) = ir.of.size
  BY <1>1 DEF PartsRight, bs, parts
<1>4. iw.kind \in HasParts
  <2>1. iw.kind \in Plain => Parts(iw, v) = <<>>
    BY DEF Plain, Parts
  <2>2. 1..Len(<<>>) = {}
    OBVIOUS
  <2>3. iw.kind \in Plain \cup HasParts
    BY <1>1
  <2> QED BY <2>1, <2>2, <2>3
<1>5. ir.of.tested /\ Agree0(iw.of, ir.of)
  BY <1>1, <1>4
<1>6. PICK y : y = Parts(iw, v)[e]
  OBVIOUS
<1>7. Fits0(iw.of, y)
  BY <1>1, <1>2, <1>6 DEF Fits1
<1>8. PICK b : b = Write0(iw.of, y) /\ b = bs[k][e]
  BY <1>3, <1>6
<1>9. /\ ReadBack(b, y, ir.of, Read0(ir.of, b), [c \in Nat |-> Read0(ir.of, SubSeq(b, 1, c))])
      /\ \A s : Exactly(iw.of, s) => Len(b) = s
  <2>1. Back0(iw.of, ir.of, y)
    BY <1>5, <1>7, Level0
  <2> QED BY <1>8, <2>1 DEF Back0
<1>10. PartRight(b, y, parts[k])
  <2>1. b \in Seq(Byte)
    BY <1>9 DEF ReadBack
  <2> DEFINE r == Read0(ir.of, b)
             cut == [c \in Nat |-> Read0(ir.of, SubSeq(b, 1, c))]
  <2>2. parts[k][b] = r
    BY <1>3, <2>1
  <2>3. ASSUME NEW c \in 0..(Len(b) - 1) PROVE parts[k][SubSeq(b, 1, c)] = cut[c]
    <3>1. c \in 0..Len(b) /\ c \in Nat
      BY <2>1
    <3>2. SubSeq(b, 1, c) \in Seq(Byte)
      BY <2>1, <3>1, PrefixCarries
    <3>3. cut[c] = Read0(ir.of, SubSeq(b, 1, c))
      BY <3>1
    <3>4. parts[k][SubSeq(b, 1, c)] = Read0(ir.of, SubSeq(b, 1, c))
      BY <1>3, <3>2
    <3> QED BY <3>3, <3>4
  <2>4. ReadBack(b, y, ir.of, r, cut)
    BY <1>9
  <2> HIDE DEF r, cut
  <2> QED BY <1>5, <2>2, <2>3, <2>4, ReadBackPart
<1> QED BY <1>6, <1>8, <1>9, <1>10

\* A layout with parts is read back.
LEMMA Level1 ==
  ASSUME NEW W, NEW R, NEW m, Agree1(W, R), Fits1(W, m)
  PROVE  Back1(W, R, m)
<1> DEFINE bs == Parts1(W, m)
           parts == Readers1(R)
<1>1. LayoutsAlike(W, R) /\ FitsLayout(W, m, bs) /\ Len(R.items) = Len(W.items)
  BY DEF Agree1, Fits1, LayoutsAlike
<1>2. ASSUME NEW k \in 1..Len(W.items)
      PROVE  PartsRight(W.items[k], R.items[k], m[W.items[k].name], bs[k], parts[k])
  <2>1. W.items[k].kind \in Plain \cup HasParts
    BY <1>1 DEF LayoutsAlike, ItemsAlike
  <2>2. W.items[k].kind \in HasParts =>
           R.items[k].of.tested /\ Agree0(W.items[k].of, R.items[k].of)
    BY DEF Agree1
  <2> QED BY <1>1, <2>1, <2>2, Level1Parts
<1>3. Write1(W, m) = WriteLayout(W, m, bs)
  BY DEF Write1
<1>4. \A d : Read1(R, d) = ReadLayout(R, d, parts)
  BY DEF Read1
<1> HIDE DEF bs, parts
<1>5. /\ ReadBack(WriteLayout(W, m, bs), m, R, ReadLayout(R, WriteLayout(W, m, bs), parts),
                  [c \in Nat |-> ReadLayout(R, SubSeq(WriteLayout(W, m, bs), 1, c), parts)])
      /\ \A s : Exactly(W, s) => Len(WriteLayout(W, m, bs)) = s
  BY <1>1, <1>2, AlikeReadBack
<1> QED BY <1>3, <1>4, <1>5 DEF Back1

\* The parts one level further down.
LEMMA Level2Parts ==
  ASSUME NEW W, NEW R, NEW m, Fits2(W, m), Len(R.items) = Len(W.items),
         NEW k \in 1..Len(W.items), W.items[k].kind \in Plain \cup HasParts,
         W.items[k].kind \in HasParts =>
            R.items[k].of.tested /\ Agree1(W.items[k].of, R.items[k].of)
  PROVE  PartsRight(W.items[k], R.items[k], m[W.items[k].name],
                    Parts2(W, m)[k], Readers2(R)[k])
<1> DEFINE bs == Parts2(W, m)
           parts == Readers2(R)
<1>1. PICK iw, ir, v : iw = W.items[k] /\ ir = R.items[k] /\ v = m[iw.name]
  OBVIOUS
<1>2. PartsAt(W, m, k) = Parts(iw, v)
  BY <1>1 DEF PartsAt
<1>3. /\ parts[k] = [s \in Seq(Byte) |-> Read1(ir.of, s)]
      /\ bs[k] = [e \in 1..Len(Parts(iw, v)) |-> Write1(iw.of, Parts(iw, v)[e])]
  BY <1>1, <1>2 DEF Parts2, Readers2
<1> HIDE DEF parts, bs
<1> SUFFICES ASSUME NEW e \in 1..Len(Parts(iw, v))
             PROVE  /\ PartRight(bs[k][e], Parts(iw, v)[e], parts[k])
                    /\ Exactly(iw.of, ir.of.size) => Len(bs[k][e]) = ir.of.size
  BY <1>1 DEF PartsRight, bs, parts
<1>4. iw.kind \in HasParts
  <2>1. iw.kind \in Plain => Parts(iw, v) = <<>>
    BY DEF Plain, Parts
  <2>2. 1..Len(<<>>) = {}
    OBVIOUS
  <2>3. iw.kind \in Plain \cup HasParts
    BY <1>1
  <2> QED BY <2>1, <2>2, <2>3
<1>5. ir.of.tested /\ Agree1(iw.of, ir.of)
  BY <1>1, <1>4
<1>6. PICK y : y = Parts(iw, v)[e]
  OBVIOUS
<1>7. Fits1(iw.of, y)
  BY <1>1, <1>2, <1>6 DEF Fits2
<1>8. PICK b : b = Write1(iw.of, y) /\ b = bs[k][e]
  BY <1>3, <1>6
<1>9. /\ ReadBack(b, y, ir.of, Read1(ir.of, b), [c \in Nat |-> Read1(ir.of, SubSeq(b, 1, c))])
      /\ \A s : Exactly(iw.of, s) => Len(b) = s
  <2>1. Back1(iw.of, ir.of, y)
    BY <1>5, <1>7, Level1
  <2> QED BY <1>8, <2>1 DEF Back1
<1>10. PartRight(b, y, parts[k])
  <2>1. b \in Seq(Byte)
    BY <1>9 DEF ReadBack
  <2> DEFINE r == Read1(ir.of, b)
             cut == [c \in Nat |-> Read1(ir.of, SubSeq(b, 1, c))]
  <2>2. parts[k][b] = r
    BY <1>3, <2>1
  <2>3. ASSUME NEW c \in 0..(Len(b) - 1) PROVE parts[k][SubSeq(b, 1, c)] = cut[c]
    <3>1. c \in 0..Len(b) /\ c \in Nat
      BY <2>1
    <3>2. SubSeq(b, 1, c) \in Seq(Byte)
      BY <2>1, <3>1, PrefixCarries
    <3>3. cut[c] = Read1(ir.of, SubSeq(b, 1, c))
      BY <3>1
    <3>4. parts[k][SubSeq(b, 1, c)] = Read1(ir.of, SubSeq(b, 1, c))
      BY <1>3, <3>2
    <3> QED BY <3>3, <3>4
  <2>4. ReadBack(b, y, ir.of, r, cut)
    BY <1>9
  <2> HIDE DEF r, cut
  <2> QED BY <1>5, <2>2, <2>3, <2>4, ReadBackPart
<1> QED BY <1>6, <1>8, <1>9, <1>10

\* A layout whose parts have parts is read back.
LEMMA Level2 ==
  ASSUME NEW W, NEW R, NEW m, Agree2(W, R), Fits2(W, m)
  PROVE  Back2(W, R, m)
<1> DEFINE bs == Parts2(W, m)
           parts == Readers2(R)
<1>1. LayoutsAlike(W, R) /\ FitsLayout(W, m, bs) /\ Len(R.items) = Len(W.items)
  BY DEF Agree2, Fits2, LayoutsAlike
<1>2. ASSUME NEW k \in 1..Len(W.items)
      PROVE  PartsRight(W.items[k], R.items[k], m[W.items[k].name], bs[k], parts[k])
  <2>1. W.items[k].kind \in Plain \cup HasParts
    BY <1>1 DEF LayoutsAlike, ItemsAlike
  <2>2. W.items[k].kind \in HasParts =>
           R.items[k].of.tested /\ Agree1(W.items[k].of, R.items[k].of)
    BY DEF Agree2
  <2> QED BY <1>1, <2>1, <2>2, Level2Parts
<1>3. Write2(W, m) = WriteLayout(W, m, bs)
  BY DEF Write2
<1>4. \A d : Read2(R, d) = ReadLayout(R, d, parts)
  BY DEF Read2
<1> HIDE DEF bs, parts
<1>5. /\ ReadBack(WriteLayout(W, m, bs), m, R, ReadLayout(R, WriteLayout(W, m, bs), parts),
                  [c \in Nat |-> ReadLayout(R, SubSeq(WriteLayout(W, m, bs), 1, c), parts)])
      /\ \A s : Exactly(W, s) => Len(WriteLayout(W, m, bs)) = s
  BY <1>1, <1>2, AlikeReadBack
<1> QED BY <1>3, <1>4, <1>5 DEF Back2

\* The parts at the deepest level.
LEMMA Level3Parts ==
  ASSUME NEW W, NEW R, NEW m, Fits(W, m), Len(R.items) = Len(W.items),
         NEW k \in 1..Len(W.items), W.items[k].kind \in Plain \cup HasParts,
         W.items[k].kind \in HasParts =>
            R.items[k].of.tested /\ Agree2(W.items[k].of, R.items[k].of)
  PROVE  PartsRight(W.items[k], R.items[k], m[W.items[k].name],
                    Parts3(W, m)[k], Readers3(R)[k])
<1> DEFINE bs == Parts3(W, m)
           parts == Readers3(R)
<1>1. PICK iw, ir, v : iw = W.items[k] /\ ir = R.items[k] /\ v = m[iw.name]
  OBVIOUS
<1>2. PartsAt(W, m, k) = Parts(iw, v)
  BY <1>1 DEF PartsAt
<1>3. /\ parts[k] = [s \in Seq(Byte) |-> Read2(ir.of, s)]
      /\ bs[k] = [e \in 1..Len(Parts(iw, v)) |-> Write2(iw.of, Parts(iw, v)[e])]
  BY <1>1, <1>2 DEF Parts3, Readers3
<1> HIDE DEF parts, bs
<1> SUFFICES ASSUME NEW e \in 1..Len(Parts(iw, v))
             PROVE  /\ PartRight(bs[k][e], Parts(iw, v)[e], parts[k])
                    /\ Exactly(iw.of, ir.of.size) => Len(bs[k][e]) = ir.of.size
  BY <1>1 DEF PartsRight, bs, parts
<1>4. iw.kind \in HasParts
  <2>1. iw.kind \in Plain => Parts(iw, v) = <<>>
    BY DEF Plain, Parts
  <2>2. 1..Len(<<>>) = {}
    OBVIOUS
  <2>3. iw.kind \in Plain \cup HasParts
    BY <1>1
  <2> QED BY <2>1, <2>2, <2>3
<1>5. ir.of.tested /\ Agree2(iw.of, ir.of)
  BY <1>1, <1>4
<1>6. PICK y : y = Parts(iw, v)[e]
  OBVIOUS
<1>7. Fits2(iw.of, y)
  BY <1>1, <1>2, <1>6 DEF Fits
<1>8. PICK b : b = Write2(iw.of, y) /\ b = bs[k][e]
  BY <1>3, <1>6
<1>9. /\ ReadBack(b, y, ir.of, Read2(ir.of, b), [c \in Nat |-> Read2(ir.of, SubSeq(b, 1, c))])
      /\ \A s : Exactly(iw.of, s) => Len(b) = s
  <2>1. Back2(iw.of, ir.of, y)
    BY <1>5, <1>7, Level2
  <2> QED BY <1>8, <2>1 DEF Back2
<1>10. PartRight(b, y, parts[k])
  <2>1. b \in Seq(Byte)
    BY <1>9 DEF ReadBack
  <2> DEFINE r == Read2(ir.of, b)
             cut == [c \in Nat |-> Read2(ir.of, SubSeq(b, 1, c))]
  <2>2. parts[k][b] = r
    BY <1>3, <2>1
  <2>3. ASSUME NEW c \in 0..(Len(b) - 1) PROVE parts[k][SubSeq(b, 1, c)] = cut[c]
    <3>1. c \in 0..Len(b) /\ c \in Nat
      BY <2>1
    <3>2. SubSeq(b, 1, c) \in Seq(Byte)
      BY <2>1, <3>1, PrefixCarries
    <3>3. cut[c] = Read2(ir.of, SubSeq(b, 1, c))
      BY <3>1
    <3>4. parts[k][SubSeq(b, 1, c)] = Read2(ir.of, SubSeq(b, 1, c))
      BY <1>3, <3>2
    <3> QED BY <3>3, <3>4
  <2>4. ReadBack(b, y, ir.of, r, cut)
    BY <1>9
  <2> HIDE DEF r, cut
  <2> QED BY <1>5, <2>2, <2>3, <2>4, ReadBackPart
<1> QED BY <1>6, <1>8, <1>9, <1>10

\* Any layout, as deep as those of the repository, is read back.
LEMMA Level3 ==
  ASSUME NEW W, NEW R, NEW m, Agree3(W, R), Fits(W, m)
  PROVE  Back3(W, R, m)
<1> DEFINE bs == Parts3(W, m)
           parts == Readers3(R)
<1>1. LayoutsAlike(W, R) /\ FitsLayout(W, m, bs) /\ Len(R.items) = Len(W.items)
  BY DEF Agree3, Fits, LayoutsAlike
<1>2. ASSUME NEW k \in 1..Len(W.items)
      PROVE  PartsRight(W.items[k], R.items[k], m[W.items[k].name], bs[k], parts[k])
  <2>1. W.items[k].kind \in Plain \cup HasParts
    BY <1>1 DEF LayoutsAlike, ItemsAlike
  <2>2. W.items[k].kind \in HasParts =>
           R.items[k].of.tested /\ Agree2(W.items[k].of, R.items[k].of)
    BY DEF Agree3
  <2> QED BY <1>1, <2>1, <2>2, Level3Parts
<1>3. Write(W, m) = WriteLayout(W, m, bs)
  BY DEF Write
<1>4. \A d : Read(R, d) = ReadLayout(R, d, parts)
  BY DEF Read
<1> HIDE DEF bs, parts
<1>5. /\ ReadBack(WriteLayout(W, m, bs), m, R, ReadLayout(R, WriteLayout(W, m, bs), parts),
                  [c \in Nat |-> ReadLayout(R, SubSeq(WriteLayout(W, m, bs), 1, c), parts)])
      /\ \A s : Exactly(W, s) => Len(WriteLayout(W, m, bs)) = s
  BY <1>1, <1>2, AlikeReadBack
<1> QED BY <1>3, <1>4, <1>5 DEF Back3

-----------------------------------------------------------------------------
(* The layouts of the repository agree *)

\* The item of a reader reads what the item of a writer writes; w is its width.
Pair(iw, ir, kind, w, name) ==
  ItemsAlike(iw, ir) /\ iw.kind = kind /\ iw.width = w /\ iw.name = name

\* Integers and texts with the same name and width on both sides.
LEMMA SimplePairs ==
  ASSUME NEW name, NEW w \in Nat
  PROVE  /\ Pair(LE(name, w), LE(name, w), "le", w, name)
         /\ Pair(Raw(name, w), Raw(name, w), "le", w, name)
         /\ Pair(BE(name, w), BE(name, w), "be", w, name)
         /\ Pair(Enum(name, 3), Enum(name, 3), "enum", 1, name)
         /\ Pair(TextLE(name, w), TextLE(name, w), "textle", w, name)
         /\ Pair(TextBE(name, w), TextBE(name, w), "textbe", w, name)
  BY DEF Pair, ItemsAlike, LE, Raw, BE, Enum, TextLE, TextBE, Item, Plain, HasParts

\* The elements of lists of hashes.
LEMMA AgreeElement == Agree0(Element32, Element32) /\ Exactly(Element32, 32)
<1>1. Element32.items = <<Raw("id", 32)>> /\ Element32.size = 32
  BY DEF Element32, Layout
<1>2. Len(Element32.items) = 1 /\ Element32.items[1] = Raw("id", 32)
  BY <1>1
<1>3. Pair(Element32.items[1], Element32.items[1], "le", 32, "id")
  BY <1>2, SimplePairs
<1>4. AtLeast(Element32, 32) /\ Exactly(Element32, 32)
  BY <1>2, <1>3 DEF AtLeast, Exactly, Pair, Scalar
<1> QED BY <1>1, <1>2, <1>3, <1>4 DEF Agree0, LayoutsAlike, Pair, Plain

\* Lists whose elements have a length in front, or one size.
LEMMA ListPairs ==
  ASSUME NEW name, NEW w \in Nat, NEW V, NEW Q, V.prefix \in Nat, Q.prefix = V.prefix,
         V.prefix = 0 \/ V.prefix >= 8,
         V.prefix = 0 => Q.size \in Nat /\ Q.size >= 8 /\ Exactly(V, Q.size)
  PROVE  /\ Pair(ListLE(name, w, V), ListLE(name, w, Q), "listle", w, name)
         /\ Pair(ListBE(name, w, V), ListBE(name, w, Q), "listbe", w, name)
  BY DEF Pair, ItemsAlike, ListLE, ListBE, Item, Plain, HasParts

\* Parts: with a length in front, the rest, and the rest behind a flag.
LEMMA PartPairs ==
  ASSUME NEW name, NEW w \in Nat, NEW flag, NEW V, NEW Q, V.prefix = 0
  PROVE  /\ Pair(Sized(name, w, V), Sized(name, w, Q), "sized", w, name)
         /\ Pair(Rest(name, V), Rest(name, Q), "rest", 0, name)
         /\ Pair(RestIf(name, flag, V), RestIf(name, flag, Q), "restif", 0, name)
  BY DEF Pair, ItemsAlike, Sized, Rest, RestIf, Item, Plain, HasParts

\* The layouts of the parts.
LEMMA PartsOf ==
  ASSUME NEW name, NEW w, NEW flag, NEW V
  PROVE  /\ ListLE(name, w, V).of = V /\ ListBE(name, w, V).of = V /\ Sized(name, w, V).of = V
         /\ Rest(name, V).of = V /\ RestIf(name, flag, V).of = V
         /\ RestIf(name, flag, V).flag = flag
  BY DEF ListLE, ListBE, Sized, Rest, RestIf, Item

\* Transaction::serialize and deserialize.
LEMMA AgreeTransaction == Agree0(SerializeTransaction, DeserializeTransaction)
<1> DEFINE W == SerializeTransaction
           R == DeserializeTransaction
<1>1. Len(W.items) = 8 /\ Len(R.items) = 8 /\ R.size = 164
  BY DEF SerializeTransaction, DeserializeTransaction, Layout, SigningFields, Exact
<1>2. /\ W.items[1] = Raw("from", 32)
      /\ W.items[2] = Raw("to", 32)
      /\ W.items[3] = LE("amount", 8)
      /\ W.items[4] = LE("nonce", 8)
      /\ W.items[5] = LE("fee", 8)
      /\ W.items[6] = LE("gas_limit", 8)
      /\ W.items[7] = LE("chain_id", 4)
      /\ W.items[8] = Raw("signature", 64)
  BY DEF SerializeTransaction, DeserializeTransaction, Layout, SigningFields, Exact
<1>3. /\ R.items[1] = Raw("from", 32)
      /\ R.items[2] = Raw("to", 32)
      /\ R.items[3] = LE("amount", 8)
      /\ R.items[4] = LE("nonce", 8)
      /\ R.items[5] = LE("fee", 8)
      /\ R.items[6] = LE("gas_limit", 8)
      /\ R.items[7] = LE("chain_id", 4)
      /\ R.items[8] = Raw("signature", 64)
  BY DEF SerializeTransaction, DeserializeTransaction, Layout, SigningFields, Exact
<1> HIDE DEF W, R
<1>4. /\ Pair(W.items[1], R.items[1], "le", 32, "from")
      /\ Pair(W.items[2], R.items[2], "le", 32, "to")
      /\ Pair(W.items[3], R.items[3], "le", 8, "amount")
      /\ Pair(W.items[4], R.items[4], "le", 8, "nonce")
      /\ Pair(W.items[5], R.items[5], "le", 8, "fee")
      /\ Pair(W.items[6], R.items[6], "le", 8, "gas_limit")
      /\ Pair(W.items[7], R.items[7], "le", 4, "chain_id")
      /\ Pair(W.items[8], R.items[8], "le", 64, "signature")
  BY <1>2, <1>3, SimplePairs
<1>5. AtLeast(W, 164)
  BY <1>1, <1>4 DEF AtLeast, Pair
<1>6. \A k \in 1..8 : k = 1 \/ k = 2 \/ k = 3 \/ k = 4 \/ k = 5 \/ k = 6 \/ k = 7 \/ k = 8
  OBVIOUS
<1>7. LayoutsAlike(W, R)
  BY <1>1, <1>4, <1>5, <1>6 DEF LayoutsAlike, Pair
<1>8. Agree0(W, R)
  BY <1>1, <1>4, <1>6, <1>7 DEF Agree0, Pair, Plain
<1> QED BY <1>8 DEF W, R

\* TransactionReceipt::serialize and deserialize.
LEMMA AgreeReceipt == Agree0(SerializeReceipt, DeserializeReceipt)
<1> DEFINE W == SerializeReceipt
           R == DeserializeReceipt
<1>1. Len(W.items) = 5 /\ Len(R.items) = 5 /\ R.size = 53
  BY DEF SerializeReceipt, DeserializeReceipt, Layout, Exact
<1>2. /\ W.items[1] = Raw("tx_hash", 32)
      /\ W.items[2] = LE("block_height", 8)
      /\ W.items[3] = LE("success", 1)
      /\ W.items[4] = LE("gas_used", 8)
      /\ W.items[5] = TextLE("error_message", 4)
  BY DEF SerializeReceipt, DeserializeReceipt, Layout, Exact
<1>3. /\ R.items[1] = Raw("tx_hash", 32)
      /\ R.items[2] = LE("block_height", 8)
      /\ R.items[3] = LE("success", 1)
      /\ R.items[4] = LE("gas_used", 8)
      /\ R.items[5] = TextLE("error_message", 4)
  BY DEF SerializeReceipt, DeserializeReceipt, Layout, Exact
<1> HIDE DEF W, R
<1>4. /\ Pair(W.items[1], R.items[1], "le", 32, "tx_hash")
      /\ Pair(W.items[2], R.items[2], "le", 8, "block_height")
      /\ Pair(W.items[3], R.items[3], "le", 1, "success")
      /\ Pair(W.items[4], R.items[4], "le", 8, "gas_used")
      /\ Pair(W.items[5], R.items[5], "textle", 4, "error_message")
  BY <1>2, <1>3, SimplePairs
<1>5. AtLeast(W, 53)
  BY <1>1, <1>4 DEF AtLeast, Pair
<1>6. \A k \in 1..5 : k = 1 \/ k = 2 \/ k = 3 \/ k = 4 \/ k = 5
  OBVIOUS
<1>7. LayoutsAlike(W, R)
  BY <1>1, <1>4, <1>5, <1>6 DEF LayoutsAlike, Pair
<1>8. Agree0(W, R)
  BY <1>1, <1>4, <1>6, <1>7 DEF Agree0, Pair, Plain
<1> QED BY <1>8 DEF W, R

\* Account::serialize and deserialize.
LEMMA AgreeAccount == Agree0(SerializeAccount, DeserializeAccount)
<1> DEFINE W == SerializeAccount
           R == DeserializeAccount
<1>1. Len(W.items) = 4 /\ Len(R.items) = 4 /\ R.size = 80
  BY DEF SerializeAccount, DeserializeAccount, Layout, Exact
<1>2. /\ W.items[1] = Raw("address", 32)
      /\ W.items[2] = LE("balance", 8)
      /\ W.items[3] = LE("nonce", 8)
      /\ W.items[4] = Raw("code_hash", 32)
  BY DEF SerializeAccount, DeserializeAccount, Layout, Exact
<1>3. /\ R.items[1] = Raw("address", 32)
      /\ R.items[2] = LE("balance", 8)
      /\ R.items[3] = LE("nonce", 8)
      /\ R.items[4] = Raw("code_hash", 32)
  BY DEF SerializeAccount, DeserializeAccount, Layout, Exact
<1> HIDE DEF W, R
<1>4. /\ Pair(W.items[1], R.items[1], "le", 32, "address")
      /\ Pair(W.items[2], R.items[2], "le", 8, "balance")
      /\ Pair(W.items[3], R.items[3], "le", 8, "nonce")
      /\ Pair(W.items[4], R.items[4], "le", 32, "code_hash")
  BY <1>2, <1>3, SimplePairs
<1>5. AtLeast(W, 80)
  BY <1>1, <1>4 DEF AtLeast, Pair
<1>6. \A k \in 1..4 : k = 1 \/ k = 2 \/ k = 3 \/ k = 4
  OBVIOUS
<1>7. LayoutsAlike(W, R)
  BY <1>1, <1>4, <1>5, <1>6 DEF LayoutsAlike, Pair
<1>8. Agree0(W, R)
  BY <1>1, <1>4, <1>6, <1>7 DEF Agree0, Pair, Plain
<1> QED BY <1>8 DEF W, R

\* BlockHeader::serialize and deserialize.
LEMMA AgreeHeader == Agree0(SerializeHeader, DeserializeHeader)
<1> DEFINE W == SerializeHeader
           R == DeserializeHeader
<1>1. Len(W.items) = 8 /\ Len(R.items) = 8 /\ R.size = 184
  BY DEF SerializeHeader, DeserializeHeader, Layout
<1>2. /\ W.items[1] = LE("height", 8)
      /\ W.items[2] = LE("timestamp", 8)
      /\ W.items[3] = Raw("previous_hash", 32)
      /\ W.items[4] = Raw("state_root", 32)
      /\ W.items[5] = Raw("transactions_root", 32)
      /\ W.items[6] = Raw("validator_set_root", 32)
      /\ W.items[7] = Raw("proposer", 32)
      /\ W.items[8] = LE("epoch", 8)
  BY DEF SerializeHeader, DeserializeHeader, Layout
<1>3. /\ R.items[1] = LE("height", 8)
      /\ R.items[2] = LE("timestamp", 8)
      /\ R.items[3] = Raw("previous_hash", 32)
      /\ R.items[4] = Raw("state_root", 32)
      /\ R.items[5] = Raw("transactions_root", 32)
      /\ R.items[6] = Raw("validator_set_root", 32)
      /\ R.items[7] = Raw("proposer", 32)
      /\ R.items[8] = LE("epoch", 8)
  BY DEF SerializeHeader, DeserializeHeader, Layout
<1> HIDE DEF W, R
<1>4. /\ Pair(W.items[1], R.items[1], "le", 8, "height")
      /\ Pair(W.items[2], R.items[2], "le", 8, "timestamp")
      /\ Pair(W.items[3], R.items[3], "le", 32, "previous_hash")
      /\ Pair(W.items[4], R.items[4], "le", 32, "state_root")
      /\ Pair(W.items[5], R.items[5], "le", 32, "transactions_root")
      /\ Pair(W.items[6], R.items[6], "le", 32, "validator_set_root")
      /\ Pair(W.items[7], R.items[7], "le", 32, "proposer")
      /\ Pair(W.items[8], R.items[8], "le", 8, "epoch")
  BY <1>2, <1>3, SimplePairs
<1>5. AtLeast(W, 184)
  BY <1>1, <1>4 DEF AtLeast, Pair
<1>6. \A k \in 1..8 : k = 1 \/ k = 2 \/ k = 3 \/ k = 4 \/ k = 5 \/ k = 6 \/ k = 7 \/ k = 8
  OBVIOUS
<1>7. LayoutsAlike(W, R)
  BY <1>1, <1>4, <1>5, <1>6 DEF LayoutsAlike, Pair
<1>8. Agree0(W, R)
  BY <1>1, <1>4, <1>6, <1>7 DEF Agree0, Pair, Plain
<1> QED BY <1>8 DEF W, R

\* Validator::serialize and deserialize; a list of them assumes the size.
LEMMA AgreeValidator ==
  Agree0(SerializeValidator, DeserializeValidator) /\ Exactly(SerializeValidator, 153)
<1> DEFINE W == SerializeValidator
           R == DeserializeValidator
<1>1. Len(W.items) = 9 /\ Len(R.items) = 9 /\ R.size = 153
  BY DEF SerializeValidator, DeserializeValidator, Layout
<1>2. /\ W.items[1] = Raw("id", 32)
      /\ W.items[2] = Raw("consensus_key", 48)
      /\ W.items[3] = Raw("withdrawal_key", 32)
      /\ W.items[4] = LE("bonded_stake", 8)
      /\ W.items[5] = Enum("status", 3)
      /\ W.items[6] = LE("jailed_until_epoch", 8)
      /\ W.items[7] = LE("consecutive_downtime_epochs", 8)
      /\ W.items[8] = LE("blocks_signed_this_epoch", 8)
      /\ W.items[9] = LE("blocks_missed_this_epoch", 8)
  BY DEF SerializeValidator, DeserializeValidator, Layout
<1>3. /\ R.items[1] = Raw("id", 32)
      /\ R.items[2] = Raw("consensus_key", 48)
      /\ R.items[3] = Raw("withdrawal_key", 32)
      /\ R.items[4] = LE("bonded_stake", 8)
      /\ R.items[5] = Enum("status", 3)
      /\ R.items[6] = LE("jailed_until_epoch", 8)
      /\ R.items[7] = LE("consecutive_downtime_epochs", 8)
      /\ R.items[8] = LE("blocks_signed_this_epoch", 8)
      /\ R.items[9] = LE("blocks_missed_this_epoch", 8)
  BY DEF SerializeValidator, DeserializeValidator, Layout
<1> HIDE DEF W, R
<1>4. /\ Pair(W.items[1], R.items[1], "le", 32, "id")
      /\ Pair(W.items[2], R.items[2], "le", 48, "consensus_key")
      /\ Pair(W.items[3], R.items[3], "le", 32, "withdrawal_key")
      /\ Pair(W.items[4], R.items[4], "le", 8, "bonded_stake")
      /\ Pair(W.items[5], R.items[5], "enum", 1, "status")
      /\ Pair(W.items[6], R.items[6], "le", 8, "jailed_until_epoch")
      /\ Pair(W.items[7], R.items[7], "le", 8, "consecutive_downtime_epochs")
      /\ Pair(W.items[8], R.items[8], "le", 8, "blocks_signed_this_epoch")
      /\ Pair(W.items[9], R.items[9], "le", 8, "blocks_missed_this_epoch")
  BY <1>2, <1>3, SimplePairs
<1>5. AtLeast(W, 153) /\ Exactly(W, 153)
  BY <1>1, <1>4 DEF AtLeast, Pair, Exactly, Scalar
<1>6. \A k \in 1..9 : k = 1 \/ k = 2 \/ k = 3 \/ k = 4 \/ k = 5 \/ k = 6 \/ k = 7 \/ k = 8 \/ k = 9
  OBVIOUS
<1>7. LayoutsAlike(W, R)
  BY <1>1, <1>4, <1>5, <1>6 DEF LayoutsAlike, Pair
<1>8. Agree0(W, R)
  BY <1>1, <1>4, <1>6, <1>7 DEF Agree0, Pair, Plain
<1> QED BY <1>8, <1>5 DEF W, R

\* ValidatorInfo of the network layer; a list of them assumes the size.
LEMMA AgreeValidatorInfo ==
  Agree0(SerializeValidatorInfo, DeserializeValidatorInfo) /\ Exactly(SerializeValidatorInfo, 89)
<1> DEFINE W == SerializeValidatorInfo
           R == DeserializeValidatorInfo
<1>1. Len(W.items) = 4 /\ Len(R.items) = 4 /\ R.size = 89
  BY DEF SerializeValidatorInfo, DeserializeValidatorInfo, Layout
<1>2. /\ W.items[1] = Raw("validator_id", 32)
      /\ W.items[2] = Raw("consensus_key", 48)
      /\ W.items[3] = BE("bonded_stake", 8)
      /\ W.items[4] = LE("is_active", 1)
  BY DEF SerializeValidatorInfo, DeserializeValidatorInfo, Layout
<1>3. /\ R.items[1] = Raw("validator_id", 32)
      /\ R.items[2] = Raw("consensus_key", 48)
      /\ R.items[3] = BE("bonded_stake", 8)
      /\ R.items[4] = LE("is_active", 1)
  BY DEF SerializeValidatorInfo, DeserializeValidatorInfo, Layout
<1> HIDE DEF W, R
<1>4. /\ Pair(W.items[1], R.items[1], "le", 32, "validator_id")
      /\ Pair(W.items[2], R.items[2], "le", 48, "consensus_key")
      /\ Pair(W.items[3], R.items[3], "be", 8, "bonded_stake")
      /\ Pair(W.items[4], R.items[4], "le", 1, "is_active")
  BY <1>2, <1>3, SimplePairs
<1>5. AtLeast(W, 89) /\ Exactly(W, 89)
  BY <1>1, <1>4 DEF AtLeast, Pair, Exactly, Scalar
<1>6. \A k \in 1..4 : k = 1 \/ k = 2 \/ k = 3 \/ k = 4
  OBVIOUS
<1>7. LayoutsAlike(W, R)
  BY <1>1, <1>4, <1>5, <1>6 DEF LayoutsAlike, Pair
<1>8. Agree0(W, R)
  BY <1>1, <1>4, <1>6, <1>7 DEF Agree0, Pair, Plain
<1> QED BY <1>8, <1>5 DEF W, R

\* BlockRequest::serialize and deserialize.
LEMMA AgreeBlockRequest == Agree0(SerializeBlockRequest, DeserializeBlockRequest)
<1> DEFINE W == SerializeBlockRequest
           R == DeserializeBlockRequest
<1>1. Len(W.items) = 4 /\ Len(R.items) = 4 /\ R.size = 73
  BY DEF SerializeBlockRequest, DeserializeBlockRequest, Layout
<1>2. /\ W.items[1] = LE("type", 1)
      /\ W.items[2] = BE("height", 8)
      /\ W.items[3] = Raw("hash", 32)
      /\ W.items[4] = Raw("requester_id", 32)
  BY DEF SerializeBlockRequest, DeserializeBlockRequest, Layout
<1>3. /\ R.items[1] = LE("type", 1)
      /\ R.items[2] = BE("height", 8)
      /\ R.items[3] = Raw("hash", 32)
      /\ R.items[4] = Raw("requester_id", 32)
  BY DEF SerializeBlockRequest, DeserializeBlockRequest, Layout
<1> HIDE DEF W, R
<1>4. /\ Pair(W.items[1], R.items[1], "le", 1, "type")
      /\ Pair(W.items[2], R.items[2], "be", 8, "height")
      /\ Pair(W.items[3], R.items[3], "le", 32, "hash")
      /\ Pair(W.items[4], R.items[4], "le", 32, "requester_id")
  BY <1>2, <1>3, SimplePairs
<1>5. AtLeast(W, 73)
  BY <1>1, <1>4 DEF AtLeast, Pair
<1>6. \A k \in 1..4 : k = 1 \/ k = 2 \/ k = 3 \/ k = 4
  OBVIOUS
<1>7. LayoutsAlike(W, R)
  BY <1>1, <1>4, <1>5, <1>6 DEF LayoutsAlike, Pair
<1>8. Agree0(W, R)
  BY <1>1, <1>4, <1>6, <1>7 DEF Agree0, Pair, Plain
<1> QED BY <1>8 DEF W, R

\* NetworkMessage::serialize and deserialize.
LEMMA AgreeFrame == Agree0(SerializeFrame, DeserializeFrame)
<1> DEFINE W == SerializeFrame
           R == DeserializeFrame
<1>1. Len(W.items) = 3 /\ Len(R.items) = 3 /\ R.size = 37
  BY DEF SerializeFrame, DeserializeFrame, Layout
<1>2. /\ W.items[1] = LE("type", 1)
      /\ W.items[2] = TextBE("payload", 4)
      /\ W.items[3] = Raw("hash", 32)
  BY DEF SerializeFrame, DeserializeFrame, Layout
<1>3. /\ R.items[1] = LE("type", 1)
      /\ R.items[2] = TextBE("payload", 4)
      /\ R.items[3] = Raw("hash", 32)
  BY DEF SerializeFrame, DeserializeFrame, Layout
<1> HIDE DEF W, R
<1>4. /\ Pair(W.items[1], R.items[1], "le", 1, "type")
      /\ Pair(W.items[2], R.items[2], "textbe", 4, "payload")
      /\ Pair(W.items[3], R.items[3], "le", 32, "hash")
  BY <1>2, <1>3, SimplePairs
<1>5. AtLeast(W, 37)
  BY <1>1, <1>4 DEF AtLeast, Pair
<1>6. \A k \in 1..3 : k = 1 \/ k = 2 \/ k = 3
  OBVIOUS
<1>7. LayoutsAlike(W, R)
  BY <1>1, <1>4, <1>5, <1>6 DEF LayoutsAlike, Pair
<1>8. Agree0(W, R)
  BY <1>1, <1>4, <1>6, <1>7 DEF Agree0, Pair, Plain
<1> QED BY <1>8 DEF W, R

\* LightClientState::serialize and deserialize.
LEMMA AgreeLightClientState == Agree0(SerializeLightClientState, DeserializeLightClientState)
<1> DEFINE W == SerializeLightClientState
           R == DeserializeLightClientState
<1>1. Len(W.items) = 4 /\ Len(R.items) = 4 /\ R.size = 80
  BY DEF SerializeLightClientState, DeserializeLightClientState, Layout
<1>2. /\ W.items[1] = LE("current_epoch", 8)
      /\ W.items[2] = Raw("validator_set_root", 32)
      /\ W.items[3] = LE("finalized_height", 8)
      /\ W.items[4] = Raw("finalized_block_hash", 32)
  BY DEF SerializeLightClientState, DeserializeLightClientState, Layout
<1>3. /\ R.items[1] = LE("current_epoch", 8)
      /\ R.items[2] = Raw("validator_set_root", 32)
      /\ R.items[3] = LE("finalized_height", 8)
      /\ R.items[4] = Raw("finalized_block_hash", 32)
  BY DEF SerializeLightClientState, DeserializeLightClientState, Layout
<1> HIDE DEF W, R
<1>4. /\ Pair(W.items[1], R.items[1], "le", 8, "current_epoch")
      /\ Pair(W.items[2], R.items[2], "le", 32, "validator_set_root")
      /\ Pair(W.items[3], R.items[3], "le", 8, "finalized_height")
      /\ Pair(W.items[4], R.items[4], "le", 32, "finalized_block_hash")
  BY <1>2, <1>3, SimplePairs
<1>5. AtLeast(W, 80)
  BY <1>1, <1>4 DEF AtLeast, Pair
<1>6. \A k \in 1..4 : k = 1 \/ k = 2 \/ k = 3 \/ k = 4
  OBVIOUS
<1>7. LayoutsAlike(W, R)
  BY <1>1, <1>4, <1>5, <1>6 DEF LayoutsAlike, Pair
<1>8. Agree0(W, R)
  BY <1>1, <1>4, <1>6, <1>7 DEF Agree0, Pair, Plain
<1> QED BY <1>8 DEF W, R

\* VestingSchedule::serialize and deserialize.
LEMMA AgreeVesting == Agree0(SerializeVesting, DeserializeVesting)
<1> DEFINE W == SerializeVesting
           R == DeserializeVesting
<1>1. Len(W.items) = 4 /\ Len(R.items) = 4 /\ R.size = 32
  BY DEF SerializeVesting, DeserializeVesting, Layout
<1>2. /\ W.items[1] = LE("total_amount", 8)
      /\ W.items[2] = LE("vested_amount", 8)
      /\ W.items[3] = LE("start_timestamp", 8)
      /\ W.items[4] = LE("duration_seconds", 8)
  BY DEF SerializeVesting, DeserializeVesting, Layout
<1>3. /\ R.items[1] = LE("total_amount", 8)
      /\ R.items[2] = LE("vested_amount", 8)
      /\ R.items[3] = LE("start_timestamp", 8)
      /\ R.items[4] = LE("duration_seconds", 8)
  BY DEF SerializeVesting, DeserializeVesting, Layout
<1> HIDE DEF W, R
<1>4. /\ Pair(W.items[1], R.items[1], "le", 8, "total_amount")
      /\ Pair(W.items[2], R.items[2], "le", 8, "vested_amount")
      /\ Pair(W.items[3], R.items[3], "le", 8, "start_timestamp")
      /\ Pair(W.items[4], R.items[4], "le", 8, "duration_seconds")
  BY <1>2, <1>3, SimplePairs
<1>5. AtLeast(W, 32)
  BY <1>1, <1>4 DEF AtLeast, Pair
<1>6. \A k \in 1..4 : k = 1 \/ k = 2 \/ k = 3 \/ k = 4
  OBVIOUS
<1>7. LayoutsAlike(W, R)
  BY <1>1, <1>4, <1>5, <1>6 DEF LayoutsAlike, Pair
<1>8. Agree0(W, R)
  BY <1>1, <1>4, <1>6, <1>7 DEF Agree0, Pair, Plain
<1> QED BY <1>8 DEF W, R

\* GenesisConfig::serialize and deserialize.
LEMMA AgreeGenesisConfig == Agree0(SerializeGenesisConfig, DeserializeGenesisConfig)
<1> DEFINE W == SerializeGenesisConfig
           R == DeserializeGenesisConfig
<1>1. Len(W.items) = 6 /\ Len(R.items) = 6 /\ R.size = 44
  BY DEF SerializeGenesisConfig, DeserializeGenesisConfig, Layout
<1>2. /\ W.items[1] = LE("total_supply", 8)
      /\ W.items[2] = LE("genesis_timestamp", 8)
      /\ W.items[3] = LE("initial_epoch", 8)
      /\ W.items[4] = LE("validator_set_size", 8)
      /\ W.items[5] = LE("minimum_self_bond", 8)
      /\ W.items[6] = LE("chain_id", 4)
  BY DEF SerializeGenesisConfig, DeserializeGenesisConfig, Layout
<1>3. /\ R.items[1] = LE("total_supply", 8)
      /\ R.items[2] = LE("genesis_timestamp", 8)
      /\ R.items[3] = LE("initial_epoch", 8)
      /\ R.items[4] = LE("validator_set_size", 8)
      /\ R.items[5] = LE("minimum_self_bond", 8)
      /\ R.items[6] = LE("chain_id", 4)
  BY DEF SerializeGenesisConfig, DeserializeGenesisConfig, Layout
<1> HIDE DEF W, R
<1>4. /\ Pair(W.items[1], R.items[1], "le", 8, "total_supply")
      /\ Pair(W.items[2], R.items[2], "le", 8, "genesis_timestamp")
      /\ Pair(W.items[3], R.items[3], "le", 8, "initial_epoch")
      /\ Pair(W.items[4], R.items[4], "le", 8, "validator_set_size")
      /\ Pair(W.items[5], R.items[5], "le", 8, "minimum_self_bond")
      /\ Pair(W.items[6], R.items[6], "le", 4, "chain_id")
  BY <1>2, <1>3, SimplePairs
<1>5. AtLeast(W, 44)
  BY <1>1, <1>4 DEF AtLeast, Pair
<1>6. \A k \in 1..6 : k = 1 \/ k = 2 \/ k = 3 \/ k = 4 \/ k = 5 \/ k = 6
  OBVIOUS
<1>7. LayoutsAlike(W, R)
  BY <1>1, <1>4, <1>5, <1>6 DEF LayoutsAlike, Pair
<1>8. Agree0(W, R)
  BY <1>1, <1>4, <1>6, <1>7 DEF Agree0, Pair, Plain
<1> QED BY <1>8 DEF W, R

\* A transaction in a block has its length in front.
LEMMA AgreeListedTransaction ==
  Agree0(Prefixed(8, SerializeTransaction), Prefixed(8, DeserializeTransaction))
<1> DEFINE W == Prefixed(8, SerializeTransaction)
           R == Prefixed(8, DeserializeTransaction)
<1>1. Len(W.items) = 8 /\ Len(R.items) = 8 /\ R.size = 164
  BY DEF SerializeTransaction, DeserializeTransaction, Layout, SigningFields, Exact, Prefixed
<1>2. /\ W.items[1] = Raw("from", 32)
      /\ W.items[2] = Raw("to", 32)
      /\ W.items[3] = LE("amount", 8)
      /\ W.items[4] = LE("nonce", 8)
      /\ W.items[5] = LE("fee", 8)
      /\ W.items[6] = LE("gas_limit", 8)
      /\ W.items[7] = LE("chain_id", 4)
      /\ W.items[8] = Raw("signature", 64)
  BY DEF SerializeTransaction, DeserializeTransaction, Layout, SigningFields, Exact, Prefixed
<1>3. /\ R.items[1] = Raw("from", 32)
      /\ R.items[2] = Raw("to", 32)
      /\ R.items[3] = LE("amount", 8)
      /\ R.items[4] = LE("nonce", 8)
      /\ R.items[5] = LE("fee", 8)
      /\ R.items[6] = LE("gas_limit", 8)
      /\ R.items[7] = LE("chain_id", 4)
      /\ R.items[8] = Raw("signature", 64)
  BY DEF SerializeTransaction, DeserializeTransaction, Layout, SigningFields, Exact, Prefixed
<1> HIDE DEF W, R
<1>4. /\ Pair(W.items[1], R.items[1], "le", 32, "from")
      /\ Pair(W.items[2], R.items[2], "le", 32, "to")
      /\ Pair(W.items[3], R.items[3], "le", 8, "amount")
      /\ Pair(W.items[4], R.items[4], "le", 8, "nonce")
      /\ Pair(W.items[5], R.items[5], "le", 8, "fee")
      /\ Pair(W.items[6], R.items[6], "le", 8, "gas_limit")
      /\ Pair(W.items[7], R.items[7], "le", 4, "chain_id")
      /\ Pair(W.items[8], R.items[8], "le", 64, "signature")
  BY <1>2, <1>3, SimplePairs
<1>5. AtLeast(W, 164)
  BY <1>1, <1>4 DEF AtLeast, Pair
<1>6. \A k \in 1..8 : k = 1 \/ k = 2 \/ k = 3 \/ k = 4 \/ k = 5 \/ k = 6 \/ k = 7 \/ k = 8
  OBVIOUS
<1>7. LayoutsAlike(W, R)
  BY <1>1, <1>4, <1>5, <1>6 DEF LayoutsAlike, Pair
<1>8. Agree0(W, R)
  BY <1>1, <1>4, <1>6, <1>7 DEF Agree0, Pair, Plain
<1> QED BY <1>8 DEF W, R

\* QuorumCertificate::serialize and deserialize.
LEMMA AgreeQC == Agree1(SerializeQC, DeserializeQC)
<1> DEFINE W == SerializeQC
           R == DeserializeQC
<1>1. Len(W.items) = 6 /\ Len(R.items) = 6 /\ R.size = 160
  BY DEF SerializeQC, DeserializeQC, Layout
<1>2. /\ W.items[1] = LE("block_height", 8)
      /\ W.items[2] = Raw("block_hash", 32)
      /\ W.items[3] = LE("view_number", 8)
      /\ W.items[4] = Raw("aggregated_signature", 96)
      /\ W.items[5] = ListLE("signers", 8, Element32)
      /\ W.items[6] = LE("total_stake_signed", 8)
  BY DEF SerializeQC, DeserializeQC, Layout
<1>3. /\ R.items[1] = LE("block_height", 8)
      /\ R.items[2] = Raw("block_hash", 32)
      /\ R.items[3] = LE("view_number", 8)
      /\ R.items[4] = Raw("aggregated_signature", 96)
      /\ R.items[5] = ListLE("signers", 8, Element32)
      /\ R.items[6] = LE("total_stake_signed", 8)
  BY DEF SerializeQC, DeserializeQC, Layout
<1> HIDE DEF W, R
<1>4. /\ Pair(W.items[1], R.items[1], "le", 8, "block_height")
      /\ Pair(W.items[2], R.items[2], "le", 32, "block_hash")
      /\ Pair(W.items[3], R.items[3], "le", 8, "view_number")
      /\ Pair(W.items[4], R.items[4], "le", 96, "aggregated_signature")
      /\ Pair(W.items[6], R.items[6], "le", 8, "total_stake_signed")
  BY <1>2, <1>3, SimplePairs
<1>5. /\ Pair(W.items[5], R.items[5], "listle", 8, "signers")
      /\ W.items[5].of = Element32 /\ R.items[5].of = Element32
  <2>1. PICK V, Q : V = Element32 /\ Q = Element32
    OBVIOUS
  <2>2. V.prefix = 0 /\ Q.prefix = 0 /\ Q.size = 32
    BY <2>1 DEF Element32, Layout
  <2>3. V.prefix = 0 => Q.size \in Nat /\ Q.size >= 8 /\ Exactly(V, Q.size)
    BY <2>1, <2>2, AgreeElement
  <2>4. Pair(ListLE("signers", 8, V), ListLE("signers", 8, Q),
             "listle", 8, "signers")
    BY <2>2, <2>3, ListPairs
  <2>5. /\ ListLE("signers", 8, V).of = V
        /\ ListLE("signers", 8, Q).of = Q
    BY PartsOf
  <2> QED BY <1>2, <1>3, <2>1, <2>4, <2>5
<1>6. AtLeast(W, 160)
  BY <1>1, <1>4, <1>5 DEF AtLeast, Pair
<1>7. \A k \in 1..6 : k = 1 \/ k = 2 \/ k = 3 \/ k = 4 \/ k = 5 \/ k = 6
  OBVIOUS
<1>8. LayoutsAlike(W, R)
  BY <1>1, <1>4, <1>5, <1>6, <1>7 DEF LayoutsAlike, Pair
<1>9. /\ Element32.tested /\ Agree0(Element32, Element32)
  BY AgreeElement, AgreeDeeper DEF Element32, Layout
<1>10. Agree1(W, R)
  BY <1>1, <1>4, <1>5, <1>7, <1>8, <1>9 DEF Agree1, Pair, HasParts
<1> QED BY <1>10 DEF W, R

\* Block::serialize and deserialize.
LEMMA AgreeBlock == Agree2(SerializeBlock, DeserializeBlock)
<1> DEFINE W == SerializeBlock
           R == DeserializeBlock
<1>1. Len(W.items) = 10 /\ Len(R.items) = 10 /\ R.size = 192
  BY DEF SerializeBlock, DeserializeBlock, Layout, SerializeHeader, DeserializeHeader
<1>2. /\ W.items[1] = LE("height", 8)
      /\ W.items[2] = LE("timestamp", 8)
      /\ W.items[3] = Raw("previous_hash", 32)
      /\ W.items[4] = Raw("state_root", 32)
      /\ W.items[5] = Raw("transactions_root", 32)
      /\ W.items[6] = Raw("validator_set_root", 32)
      /\ W.items[7] = Raw("proposer", 32)
      /\ W.items[8] = LE("epoch", 8)
      /\ W.items[9] = ListLE("transactions", 8, Prefixed(8, SerializeTransaction))
      /\ W.items[10] = Rest("justify", SerializeQC)
  BY DEF SerializeBlock, DeserializeBlock, Layout, SerializeHeader, DeserializeHeader
<1>3. /\ R.items[1] = LE("height", 8)
      /\ R.items[2] = LE("timestamp", 8)
      /\ R.items[3] = Raw("previous_hash", 32)
      /\ R.items[4] = Raw("state_root", 32)
      /\ R.items[5] = Raw("transactions_root", 32)
      /\ R.items[6] = Raw("validator_set_root", 32)
      /\ R.items[7] = Raw("proposer", 32)
      /\ R.items[8] = LE("epoch", 8)
      /\ R.items[9] = ListLE("transactions", 8, Prefixed(8, DeserializeTransaction))
      /\ R.items[10] = Rest("justify", DeserializeQC)
  BY DEF SerializeBlock, DeserializeBlock, Layout, SerializeHeader, DeserializeHeader
<1> HIDE DEF W, R
<1>4. /\ Pair(W.items[1], R.items[1], "le", 8, "height")
      /\ Pair(W.items[2], R.items[2], "le", 8, "timestamp")
      /\ Pair(W.items[3], R.items[3], "le", 32, "previous_hash")
      /\ Pair(W.items[4], R.items[4], "le", 32, "state_root")
      /\ Pair(W.items[5], R.items[5], "le", 32, "transactions_root")
      /\ Pair(W.items[6], R.items[6], "le", 32, "validator_set_root")
      /\ Pair(W.items[7], R.items[7], "le", 32, "proposer")
      /\ Pair(W.items[8], R.items[8], "le", 8, "epoch")
  BY <1>2, <1>3, SimplePairs
<1>5. /\ Pair(W.items[9], R.items[9], "listle", 8, "transactions")
      /\ W.items[9].of = Prefixed(8, SerializeTransaction)
      /\ R.items[9].of = Prefixed(8, DeserializeTransaction)
  <2>1. PICK V, Q : V = Prefixed(8, SerializeTransaction) /\ Q = Prefixed(8, DeserializeTransaction)
    OBVIOUS
  <2>2. V.prefix = 8 /\ Q.prefix = 8
    BY <2>1 DEF SerializeTransaction, DeserializeTransaction, Layout, Exact, Prefixed
  <2>3. V.prefix = 0 => Q.size \in Nat /\ Q.size >= 8 /\ Exactly(V, Q.size)
    BY <2>1, <2>2
  <2>4. Pair(ListLE("transactions", 8, V), ListLE("transactions", 8, Q),
             "listle", 8, "transactions")
    BY <2>2, <2>3, ListPairs
  <2>5. /\ ListLE("transactions", 8, V).of = V
        /\ ListLE("transactions", 8, Q).of = Q
    BY PartsOf
  <2> QED BY <1>2, <1>3, <2>1, <2>4, <2>5
<1>6. /\ Pair(W.items[10], R.items[10], "rest", 0, "justify")
      /\ W.items[10].of = SerializeQC /\ R.items[10].of = DeserializeQC
  <2>1. PICK V, Q : V = SerializeQC /\ Q = DeserializeQC
    OBVIOUS
  <2>2. V.prefix = 0
    BY <2>1 DEF SerializeQC, Layout
  <2>3. Pair(Rest("justify", V), Rest("justify", Q),
             "rest", 0, "justify")
    BY <2>2, PartPairs
  <2>4. /\ Rest("justify", V).of = V
        /\ Rest("justify", Q).of = Q
    BY PartsOf
  <2> QED BY <1>2, <1>3, <2>1, <2>3, <2>4
<1>7. AtLeast(W, 192)
  BY <1>1, <1>4, <1>5, <1>6 DEF AtLeast, Pair
<1>8. \A k \in 1..10 : k = 1 \/ k = 2 \/ k = 3 \/ k = 4 \/ k = 5 \/ k = 6 \/ k = 7 \/ k = 8 \/ k = 9 \/ k = 10
  OBVIOUS
<1>9. LayoutsAlike(W, R)
  BY <1>1, <1>4, <1>5, <1>6, <1>7, <1>8 DEF LayoutsAlike, Pair
<1>10. /\ Prefixed(8, DeserializeTransaction).tested
       /\ Agree1(Prefixed(8, SerializeTransaction), Prefixed(8, DeserializeTransaction))
      /\ DeserializeQC.tested /\ Agree1(SerializeQC, DeserializeQC)
  BY AgreeListedTransaction, AgreeQC, AgreeDeeper DEF DeserializeQC,
       DeserializeTransaction, Layout, Exact, Prefixed
<1>11. Agree2(W, R)
  BY <1>1, <1>4, <1>5, <1>6, <1>8, <1>9, <1>10 DEF Agree2, Pair, HasParts
<1> QED BY <1>11 DEF W, R

\* ValidatorSet::serialize and deserialize.
LEMMA AgreeValidatorSet == Agree1(SerializeValidatorSet, DeserializeValidatorSet)
<1> DEFINE W == SerializeValidatorSet
           R == DeserializeValidatorSet
<1>1. Len(W.items) = 4 /\ Len(R.items) = 4 /\ R.size = 52
  BY DEF SerializeValidatorSet, DeserializeValidatorSet, Layout
<1>2. /\ W.items[1] = LE("epoch", 8)
      /\ W.items[2] = LE("total_stake", 8)
      /\ W.items[3] = Raw("merkle_root", 32)
      /\ W.items[4] = ListLE("validators", 4, SerializeValidator)
  BY DEF SerializeValidatorSet, DeserializeValidatorSet, Layout
<1>3. /\ R.items[1] = LE("epoch", 8)
      /\ R.items[2] = LE("total_stake", 8)
      /\ R.items[3] = Raw("merkle_root", 32)
      /\ R.items[4] = ListLE("validators", 4, DeserializeValidator)
  BY DEF SerializeValidatorSet, DeserializeValidatorSet, Layout
<1> HIDE DEF W, R
<1>4. /\ Pair(W.items[1], R.items[1], "le", 8, "epoch")
      /\ Pair(W.items[2], R.items[2], "le", 8, "total_stake")
      /\ Pair(W.items[3], R.items[3], "le", 32, "merkle_root")
  BY <1>2, <1>3, SimplePairs
<1>5. /\ Pair(W.items[4], R.items[4], "listle", 4, "validators")
      /\ W.items[4].of = SerializeValidator /\ R.items[4].of = DeserializeValidator
  <2>1. PICK V, Q : V = SerializeValidator /\ Q = DeserializeValidator
    OBVIOUS
  <2>2. V.prefix = 0 /\ Q.prefix = 0 /\ Q.size = 153
    BY <2>1 DEF SerializeValidator, DeserializeValidator, Layout
  <2>3. V.prefix = 0 => Q.size \in Nat /\ Q.size >= 8 /\ Exactly(V, Q.size)
    BY <2>1, <2>2, AgreeValidator
  <2>4. Pair(ListLE("validators", 4, V), ListLE("validators", 4, Q),
             "listle", 4, "validators")
    BY <2>2, <2>3, ListPairs
  <2>5. /\ ListLE("validators", 4, V).of = V
        /\ ListLE("validators", 4, Q).of = Q
    BY PartsOf
  <2> QED BY <1>2, <1>3, <2>1, <2>4, <2>5
<1>6. AtLeast(W, 52)
  BY <1>1, <1>4, <1>5 DEF AtLeast, Pair
<1>7. \A k \in 1..4 : k = 1 \/ k = 2 \/ k = 3 \/ k = 4
  OBVIOUS
<1>8. LayoutsAlike(W, R)
  BY <1>1, <1>4, <1>5, <1>6, <1>7 DEF LayoutsAlike, Pair
<1>9. /\ DeserializeValidator.tested /\ Agree0(SerializeValidator, DeserializeValidator)
  BY AgreeValidator, AgreeDeeper DEF DeserializeValidator, Layout
<1>10. Agree1(W, R)
  BY <1>1, <1>4, <1>5, <1>7, <1>8, <1>9 DEF Agree1, Pair, HasParts
<1> QED BY <1>10 DEF W, R

\* BlockResponse::serialize and deserialize.
LEMMA AgreeBlockResponse == Agree3(SerializeBlockResponse, DeserializeBlockResponse)
<1> DEFINE W == SerializeBlockResponse
           R == DeserializeBlockResponse
<1>1. Len(W.items) = 3 /\ Len(R.items) = 3 /\ R.size = 5
  BY DEF SerializeBlockResponse, DeserializeBlockResponse, Layout
<1>2. /\ W.items[1] = LE("found", 1)
      /\ W.items[2] = TextBE("error", 4)
      /\ W.items[3] = RestIf("block", "found", SerializeBlock)
  BY DEF SerializeBlockResponse, DeserializeBlockResponse, Layout
<1>3. /\ R.items[1] = LE("found", 1)
      /\ R.items[2] = TextBE("error", 4)
      /\ R.items[3] = RestIf("block", "found", DeserializeBlock)
  BY DEF SerializeBlockResponse, DeserializeBlockResponse, Layout
<1> HIDE DEF W, R
<1>4. /\ Pair(W.items[1], R.items[1], "le", 1, "found")
      /\ Pair(W.items[2], R.items[2], "textbe", 4, "error")
  BY <1>2, <1>3, SimplePairs
<1>5. /\ Pair(W.items[3], R.items[3], "restif", 0, "block")
      /\ W.items[3].of = SerializeBlock /\ R.items[3].of = DeserializeBlock /\ W.items[3].flag = "found"
  <2>1. PICK V, Q : V = SerializeBlock /\ Q = DeserializeBlock
    OBVIOUS
  <2>2. V.prefix = 0
    BY <2>1 DEF SerializeBlock, Layout
  <2>3. Pair(RestIf("block", "found", V), RestIf("block", "found", Q),
             "restif", 0, "block")
    BY <2>2, PartPairs
  <2>4. /\ RestIf("block", "found", V).of = V /\ RestIf("block", "found", V).flag = "found"
        /\ RestIf("block", "found", Q).of = Q
    BY PartsOf
  <2> QED BY <1>2, <1>3, <2>1, <2>3, <2>4
<1>6. AtLeast(W, 5)
  BY <1>1, <1>4, <1>5 DEF AtLeast, Pair
<1>7. \A k \in 1..3 : k = 1 \/ k = 2 \/ k = 3
  OBVIOUS
<1>8. LayoutsAlike(W, R)
  BY <1>1, <1>4, <1>5, <1>6, <1>7 DEF LayoutsAlike, Pair
<1>9. /\ DeserializeBlock.tested /\ Agree2(SerializeBlock, DeserializeBlock)
  BY AgreeBlock, AgreeDeeper DEF DeserializeBlock, Layout
<1>10. Agree3(W, R)
  BY <1>1, <1>4, <1>5, <1>7, <1>8, <1>9 DEF Agree3, Pair, HasParts
<1> QED BY <1>10 DEF W, R

\* ValidatorSetUpdate::serialize and deserialize.
LEMMA AgreeValidatorSetUpdate == Agree2(SerializeValidatorSetUpdate, DeserializeValidatorSetUpdate)
<1> DEFINE W == SerializeValidatorSetUpdate
           R == DeserializeValidatorSetUpdate
<1>1. Len(W.items) = 5 /\ Len(R.items) = 5 /\ R.size = 12
  BY DEF SerializeValidatorSetUpdate, DeserializeValidatorSetUpdate, Layout
<1>2. /\ W.items[1] = BE("epoch", 8)
      /\ W.items[2] = ListBE("validators", 4, SerializeValidatorInfo)
      /\ W.items[3] = BE("total_stake", 8)
      /\ W.items[4] = Raw("validator_set_root", 32)
      /\ W.items[5] = Rest("transition_qc", SerializeQC)
  BY DEF SerializeValidatorSetUpdate, DeserializeValidatorSetUpdate, Layout
<1>3. /\ R.items[1] = BE("epoch", 8)
      /\ R.items[2] = ListBE("validators", 4, DeserializeValidatorInfo)
      /\ R.items[3] = BE("total_stake", 8)
      /\ R.items[4] = Raw("validator_set_root", 32)
      /\ R.items[5] = Rest("transition_qc", DeserializeQC)
  BY DEF SerializeValidatorSetUpdate, DeserializeValidatorSetUpdate, Layout
<1> HIDE DEF W, R
<1>4. /\ Pair(W.items[1], R.items[1], "be", 8, "epoch")
      /\ Pair(W.items[3], R.items[3], "be", 8, "total_stake")
      /\ Pair(W.items[4], R.items[4], "le", 32, "validator_set_root")
  BY <1>2, <1>3, SimplePairs
<1>5. /\ Pair(W.items[2], R.items[2], "listbe", 4, "validators")
      /\ W.items[2].of = SerializeValidatorInfo /\ R.items[2].of = DeserializeValidatorInfo
  <2>1. PICK V, Q : V = SerializeValidatorInfo /\ Q = DeserializeValidatorInfo
    OBVIOUS
  <2>2. V.prefix = 0 /\ Q.prefix = 0 /\ Q.size = 89
    BY <2>1 DEF SerializeValidatorInfo, DeserializeValidatorInfo, Layout
  <2>3. V.prefix = 0 => Q.size \in Nat /\ Q.size >= 8 /\ Exactly(V, Q.size)
    BY <2>1, <2>2, AgreeValidatorInfo
  <2>4. Pair(ListBE("validators", 4, V), ListBE("validators", 4, Q),
             "listbe", 4, "validators")
    BY <2>2, <2>3, ListPairs
  <2>5. /\ ListBE("validators", 4, V).of = V
        /\ ListBE("validators", 4, Q).of = Q
    BY PartsOf
  <2> QED BY <1>2, <1>3, <2>1, <2>4, <2>5
<1>6. /\ Pair(W.items[5], R.items[5], "rest", 0, "transition_qc")
      /\ W.items[5].of = SerializeQC /\ R.items[5].of = DeserializeQC
  <2>1. PICK V, Q : V = SerializeQC /\ Q = DeserializeQC
    OBVIOUS
  <2>2. V.prefix = 0
    BY <2>1 DEF SerializeQC, Layout
  <2>3. Pair(Rest("transition_qc", V), Rest("transition_qc", Q),
             "rest", 0, "transition_qc")
    BY <2>2, PartPairs
  <2>4. /\ Rest("transition_qc", V).of = V
        /\ Rest("transition_qc", Q).of = Q
    BY PartsOf
  <2> QED BY <1>2, <1>3, <2>1, <2>3, <2>4
<1>7. AtLeast(W, 12)
  BY <1>1, <1>4, <1>5, <1>6 DEF AtLeast, Pair
<1>8. \A k \in 1..5 : k = 1 \/ k = 2 \/ k = 3 \/ k = 4 \/ k = 5
  OBVIOUS
<1>9. LayoutsAlike(W, R)
  BY <1>1, <1>4, <1>5, <1>6, <1>7, <1>8 DEF LayoutsAlike, Pair
<1>10. /\ DeserializeValidatorInfo.tested /\ Agree1(SerializeValidatorInfo, DeserializeValidatorInfo)
      /\ DeserializeQC.tested /\ Agree1(SerializeQC, DeserializeQC)
  BY AgreeValidatorInfo, AgreeQC, AgreeDeeper DEF DeserializeQC, DeserializeValidatorInfo,
       Layout
<1>11. Agree2(W, R)
  BY <1>1, <1>4, <1>5, <1>6, <1>8, <1>9, <1>10 DEF Agree2, Pair, HasParts
<1> QED BY <1>11 DEF W, R

\* HeaderProof::serialize and deserialize.
LEMMA AgreeHeaderProof == Agree2(SerializeHeaderProof, DeserializeHeaderProof)
<1> DEFINE W == SerializeHeaderProof
           R == DeserializeHeaderProof
<1>1. Len(W.items) = 5 /\ Len(R.items) = 5 /\ R.size = 16
  BY DEF SerializeHeaderProof, DeserializeHeaderProof, Layout, Untested
<1>2. /\ W.items[1] = Sized("header", 4, SerializeHeader)
      /\ W.items[2] = Sized("qc", 4, SerializeQC)
      /\ W.items[3] = ListLE("validator_set_merkle_proof", 4, Element32)
      /\ W.items[4] = ListLE("signing_validators", 4, SerializeValidator)
      /\ W.items[5] = LE("total_validator_set_stake", 8)
  BY DEF SerializeHeaderProof, DeserializeHeaderProof, Layout, Untested
<1>3. /\ R.items[1] = Sized("header", 4, DeserializeHeader)
      /\ R.items[2] = Sized("qc", 4, DeserializeQC)
      /\ R.items[3] = ListLE("validator_set_merkle_proof", 4, Element32)
      /\ R.items[4] = ListLE("signing_validators", 4, DeserializeValidator)
      /\ R.items[5] = LE("total_validator_set_stake", 8)
  BY DEF SerializeHeaderProof, DeserializeHeaderProof, Layout, Untested
<1> HIDE DEF W, R
<1>4. /\ Pair(W.items[5], R.items[5], "le", 8, "total_validator_set_stake")
  BY <1>2, <1>3, SimplePairs
<1>5. /\ Pair(W.items[1], R.items[1], "sized", 4, "header")
      /\ W.items[1].of = SerializeHeader /\ R.items[1].of = DeserializeHeader
  <2>1. PICK V, Q : V = SerializeHeader /\ Q = DeserializeHeader
    OBVIOUS
  <2>2. V.prefix = 0
    BY <2>1 DEF SerializeHeader, Layout
  <2>3. Pair(Sized("header", 4, V), Sized("header", 4, Q),
             "sized", 4, "header")
    BY <2>2, PartPairs
  <2>4. /\ Sized("header", 4, V).of = V
        /\ Sized("header", 4, Q).of = Q
    BY PartsOf
  <2> QED BY <1>2, <1>3, <2>1, <2>3, <2>4
<1>6. /\ Pair(W.items[2], R.items[2], "sized", 4, "qc")
      /\ W.items[2].of = SerializeQC /\ R.items[2].of = DeserializeQC
  <2>1. PICK V, Q : V = SerializeQC /\ Q = DeserializeQC
    OBVIOUS
  <2>2. V.prefix = 0
    BY <2>1 DEF SerializeQC, Layout
  <2>3. Pair(Sized("qc", 4, V), Sized("qc", 4, Q),
             "sized", 4, "qc")
    BY <2>2, PartPairs
  <2>4. /\ Sized("qc", 4, V).of = V
        /\ Sized("qc", 4, Q).of = Q
    BY PartsOf
  <2> QED BY <1>2, <1>3, <2>1, <2>3, <2>4
<1>7. /\ Pair(W.items[3], R.items[3], "listle", 4, "validator_set_merkle_proof")
      /\ W.items[3].of = Element32 /\ R.items[3].of = Element32
  <2>1. PICK V, Q : V = Element32 /\ Q = Element32
    OBVIOUS
  <2>2. V.prefix = 0 /\ Q.prefix = 0 /\ Q.size = 32
    BY <2>1 DEF Element32, Layout
  <2>3. V.prefix = 0 => Q.size \in Nat /\ Q.size >= 8 /\ Exactly(V, Q.size)
    BY <2>1, <2>2, AgreeElement
  <2>4. Pair(ListLE("validator_set_merkle_proof", 4, V), ListLE("validator_set_merkle_proof", 4, Q),
             "listle", 4, "validator_set_merkle_proof")
    BY <2>2, <2>3, ListPairs
  <2>5. /\ ListLE("validator_set_merkle_proof", 4, V).of = V
        /\ ListLE("validator_set_merkle_proof", 4, Q).of = Q
    BY PartsOf
  <2> QED BY <1>2, <1>3, <2>1, <2>4, <2>5
<1>8. /\ Pair(W.items[4], R.items[4], "listle", 4, "signing_validators")
      /\ W.items[4].of = SerializeValidator /\ R.items[4].of = DeserializeValidator
  <2>1. PICK V, Q : V = SerializeValidator /\ Q = DeserializeValidator
    OBVIOUS
  <2>2. V.prefix = 0 /\ Q.prefix = 0 /\ Q.size = 153
    BY <2>1 DEF SerializeValidator, DeserializeValidator, Layout
  <2>3. V.prefix = 0 => Q.size \in Nat /\ Q.size >= 8 /\ Exactly(V, Q.size)
    BY <2>1, <2>2, AgreeValidator
  <2>4. Pair(ListLE("signing_validators", 4, V), ListLE("signing_validators", 4, Q),
             "listle", 4, "signing_validators")
    BY <2>2, <2>3, ListPairs
  <2>5. /\ ListLE("signing_validators", 4, V).of = V
        /\ ListLE("signing_validators", 4, Q).of = Q
    BY PartsOf
  <2> QED BY <1>2, <1>3, <2>1, <2>4, <2>5
<1>9. AtLeast(W, 16)
  BY <1>1, <1>4, <1>5, <1>6, <1>7, <1>8 DEF AtLeast, Pair
<1>10. \A k \in 1..5 : k = 1 \/ k = 2 \/ k = 3 \/ k = 4 \/ k = 5
  OBVIOUS
<1>11. LayoutsAlike(W, R)
  BY <1>1, <1>4, <1>5, <1>6, <1>7, <1>8, <1>9, <1>10 DEF LayoutsAlike, Pair
<1>12. /\ DeserializeHeader.tested /\ Agree1(SerializeHeader, DeserializeHeader)
      /\ DeserializeQC.tested /\ Agree1(SerializeQC, DeserializeQC)
      /\ Element32.tested /\ Agree1(Element32, Element32)
      /\ DeserializeValidator.tested /\ Agree1(SerializeValidator, DeserializeValidator)
  BY AgreeHeader, AgreeQC, AgreeElement, AgreeValidator, AgreeDeeper DEF DeserializeHeader,
       DeserializeQC, DeserializeValidator, Element32, Layout
<1>13. Agree2(W, R)
  BY <1>1, <1>4, <1>5, <1>6, <1>7, <1>8, <1>10, <1>11, <1>12 DEF Agree2, Pair, HasParts
<1> QED BY <1>13 DEF W, R

\* WeakSubjectivityCheckpoint::serialize and deserialize.
LEMMA AgreeCheckpoint == Agree1(SerializeCheckpoint, DeserializeCheckpoint)
<1> DEFINE W == SerializeCheckpoint
           R == DeserializeCheckpoint
<1>1. Len(W.items) = 9 /\ Len(R.items) = 9 /\ R.size = 232
  BY DEF SerializeCheckpoint, DeserializeCheckpoint, Layout
<1>2. /\ W.items[1] = LE("block_height", 8)
      /\ W.items[2] = Raw("block_hash", 32)
      /\ W.items[3] = LE("epoch", 8)
      /\ W.items[4] = LE("timestamp", 8)
      /\ W.items[5] = Raw("state_root", 32)
      /\ W.items[6] = Raw("validator_set_root", 32)
      /\ W.items[7] = Raw("aggregated_signature", 96)
      /\ W.items[8] = ListLE("signers", 8, Element32)
      /\ W.items[9] = LE("total_stake_signed", 8)
  BY DEF SerializeCheckpoint, DeserializeCheckpoint, Layout
<1>3. /\ R.items[1] = LE("block_height", 8)
      /\ R.items[2] = Raw("block_hash", 32)
      /\ R.items[3] = LE("epoch", 8)
      /\ R.items[4] = LE("timestamp", 8)
      /\ R.items[5] = Raw("state_root", 32)
      /\ R.items[6] = Raw("validator_set_root", 32)
      /\ R.items[7] = Raw("aggregated_signature", 96)
      /\ R.items[8] = ListLE("signers", 8, Element32)
      /\ R.items[9] = LE("total_stake_signed", 8)
  BY DEF SerializeCheckpoint, DeserializeCheckpoint, Layout
<1> HIDE DEF W, R
<1>4. /\ Pair(W.items[1], R.items[1], "le", 8, "block_height")
      /\ Pair(W.items[2], R.items[2], "le", 32, "block_hash")
      /\ Pair(W.items[3], R.items[3], "le", 8, "epoch")
      /\ Pair(W.items[4], R.items[4], "le", 8, "timestamp")
      /\ Pair(W.items[5], R.items[5], "le", 32, "state_root")
      /\ Pair(W.items[6], R.items[6], "le", 32, "validator_set_root")
      /\ Pair(W.items[7], R.items[7], "le", 96, "aggregated_signature")
      /\ Pair(W.items[9], R.items[9], "le", 8, "total_stake_signed")
  BY <1>2, <1>3, SimplePairs
<1>5. /\ Pair(W.items[8], R.items[8], "listle", 8, "signers")
      /\ W.items[8].of = Element32 /\ R.items[8].of = Element32
  <2>1. PICK V, Q : V = Element32 /\ Q = Element32
    OBVIOUS
  <2>2. V.prefix = 0 /\ Q.prefix = 0 /\ Q.size = 32
    BY <2>1 DEF Element32, Layout
  <2>3. V.prefix = 0 => Q.size \in Nat /\ Q.size >= 8 /\ Exactly(V, Q.size)
    BY <2>1, <2>2, AgreeElement
  <2>4. Pair(ListLE("signers", 8, V), ListLE("signers", 8, Q),
             "listle", 8, "signers")
    BY <2>2, <2>3, ListPairs
  <2>5. /\ ListLE("signers", 8, V).of = V
        /\ ListLE("signers", 8, Q).of = Q
    BY PartsOf
  <2> QED BY <1>2, <1>3, <2>1, <2>4, <2>5
<1>6. AtLeast(W, 232)
  BY <1>1, <1>4, <1>5 DEF AtLeast, Pair
<1>7. \A k \in 1..9 : k = 1 \/ k = 2 \/ k = 3 \/ k = 4 \/ k = 5 \/ k = 6 \/ k = 7 \/ k = 8 \/ k = 9
  OBVIOUS
<1>8. LayoutsAlike(W, R)
  BY <1>1, <1>4, <1>5, <1>6, <1>7 DEF LayoutsAlike, Pair
<1>9. /\ Element32.tested /\ Agree0(Element32, Element32)
  BY AgreeElement, AgreeDeeper DEF Element32, Layout
<1>10. Agree1(W, R)
  BY <1>1, <1>4, <1>5, <1>7, <1>8, <1>9 DEF Agree1, Pair, HasParts
<1> QED BY <1>10 DEF W, R

\* MerkleProof::serialize and deserialize.
LEMMA AgreeMerkleProof == Agree1(SerializeMerkleProof, DeserializeMerkleProof)
<1> DEFINE W == SerializeMerkleProof
           R == DeserializeMerkleProof
<1>1. Len(W.items) = 3 /\ Len(R.items) = 3 /\ R.size = 48
  BY DEF SerializeMerkleProof, DeserializeMerkleProof, Layout, Exact
<1>2. /\ W.items[1] = LE("leaf_index", 8)
      /\ W.items[2] = Raw("leaf_hash", 32)
      /\ W.items[3] = ListLE("sibling_hashes", 8, Element32)
  BY DEF SerializeMerkleProof, DeserializeMerkleProof, Layout, Exact
<1>3. /\ R.items[1] = LE("leaf_index", 8)
      /\ R.items[2] = Raw("leaf_hash", 32)
      /\ R.items[3] = ListLE("sibling_hashes", 8, Element32)
  BY DEF SerializeMerkleProof, DeserializeMerkleProof, Layout, Exact
<1> HIDE DEF W, R
<1>4. /\ Pair(W.items[1], R.items[1], "le", 8, "leaf_index")
      /\ Pair(W.items[2], R.items[2], "le", 32, "leaf_hash")
  BY <1>2, <1>3, SimplePairs
<1>5. /\ Pair(W.items[3], R.items[3], "listle", 8, "sibling_hashes")
      /\ W.items[3].of = Element32 /\ R.items[3].of = Element32
  <2>1. PICK V, Q : V = Element32 /\ Q = Element32
    OBVIOUS
  <2>2. V.prefix = 0 /\ Q.prefix = 0 /\ Q.size = 32
    BY <2>1 DEF Element32, Layout
  <2>3. V.prefix = 0 => Q.size \in Nat /\ Q.size >= 8 /\ Exactly(V, Q.size)
    BY <2>1, <2>2, AgreeElement
  <2>4. Pair(ListLE("sibling_hashes", 8, V), ListLE("sibling_hashes", 8, Q),
             "listle", 8, "sibling_hashes")
    BY <2>2, <2>3, ListPairs
  <2>5. /\ ListLE("sibling_hashes", 8, V).of = V
        /\ ListLE("sibling_hashes", 8, Q).of = Q
    BY PartsOf
  <2> QED BY <1>2, <1>3, <2>1, <2>4, <2>5
<1>6. AtLeast(W, 48)
  BY <1>1, <1>4, <1>5 DEF AtLeast, Pair
<1>7. \A k \in 1..3 : k = 1 \/ k = 2 \/ k = 3
  OBVIOUS
<1>8. LayoutsAlike(W, R)
  BY <1>1, <1>4, <1>5, <1>6, <1>7 DEF LayoutsAlike, Pair
<1>9. /\ Element32.tested /\ Agree0(Element32, Element32)
  BY AgreeElement, AgreeDeeper DEF Element32, Layout
<1>10. Agree1(W, R)
  BY <1>1, <1>4, <1>5, <1>7, <1>8, <1>9 DEF Agree1, Pair, HasParts
<1> QED BY <1>10 DEF W, R


-----------------------------------------------------------------------------
(* Two readers differ from their writers: that of a vote skips the signature, *)
(* and that of an allocation does not insist on the flag of its vesting.      *)

\* An integer or a text that fits is read as it was.
LEMMA PlainRight ==
  ASSUME NEW iw, NEW ir, NEW v, NEW rec, NEW bs, NEW part, NEW kind, NEW w, NEW name,
         Pair(iw, ir, kind, w, name), kind \in Plain, FitsItem(iw, v, rec, bs)
  PROVE  \A flagged : ItemRight(iw, ir, v, v, bs, part, flagged)
<1>1. Parts(iw, v) = <<>> /\ 1..Len(<<>>) = {}
  BY DEF Parts, Pair, Plain
<1>2. PartsRight(iw, ir, v, bs, part)
  BY <1>1 DEF PartsRight
<1>3. ItemRight(iw, ir, v, v, bs, part, rec[ir.flag] = 1)
  BY <1>2, AlikeRight DEF Pair
<1> QED BY <1>3 DEF ItemRight, Pair, ItemsAlike, Plain

\* A vote comes back without its signature.
Unsigned(m) == [m EXCEPT !.signature = 0]

\* A vote is read back without its signature, and no prefix of one is read.
LEMMA VoteRight ==
  ASSUME NEW m, Fits(SerializeVote, m)
  PROVE  LET b == Write(SerializeVote, m)
             R == DeserializeVote
         IN  ReadBack(b, Unsigned(m), R, Read(R, b), [c \in Nat |-> Read(R, SubSeq(b, 1, c))])
<1> DEFINE W == SerializeVote
           R == DeserializeVote
           bs == Parts3(W, m)
           parts == Readers3(R)
<1>1. Len(W.items) = 5 /\ Len(R.items) = 5 /\ R.size = 176
  BY DEF SerializeVote, DeserializeVote, Layout
<1>2. /\ W.items[1] = BE("block_height", 8) /\ R.items[1] = BE("block_height", 8)
      /\ W.items[2] = Raw("block_hash", 32) /\ R.items[2] = Raw("block_hash", 32)
      /\ W.items[3] = BE("view_number", 8) /\ R.items[3] = BE("view_number", 8)
      /\ W.items[4] = Raw("validator_id", 32) /\ R.items[4] = Raw("validator_id", 32)
      /\ W.items[5] = Raw("signature", 96) /\ R.items[5] = Unread("signature", 96)
  BY DEF SerializeVote, DeserializeVote, Layout
<1>3. FitsLayout(W, m, bs)
  BY DEF Fits
<1>4. Write(W, m) = WriteLayout(W, m, bs) /\ \A d : Read(R, d) = ReadLayout(R, d, parts)
  BY DEF Write, Read
<1> HIDE DEF W, R, bs, parts
<1>5. /\ Pair(W.items[1], R.items[1], "be", 8, "block_height")
      /\ Pair(W.items[2], R.items[2], "le", 32, "block_hash")
      /\ Pair(W.items[3], R.items[3], "be", 8, "view_number")
      /\ Pair(W.items[4], R.items[4], "le", 32, "validator_id")
      /\ Pair(W.items[5], W.items[5], "le", 96, "signature")
  BY <1>2, SimplePairs
<1>6. /\ R.items[5].name = "signature" /\ R.items[5].kind = "unread" /\ R.items[5].width = 96
      /\ W.items[5].kind = "le"
  <2>1. LET it == Unread("signature", 96)
        IN  it.name = "signature" /\ it.kind = "unread" /\ it.width = 96
    BY DEF Unread, Item
  <2>2. W.items[5].kind = "le"
    BY <1>5 DEF Pair
  <2> QED BY <1>2, <2>1, <2>2
<1>7. \A k \in 1..5 : k = 1 \/ k = 2 \/ k = 3 \/ k = 4 \/ k = 5
  OBVIOUS
<1>8. \A k \in 1..5 : FitsItem(W.items[k], m[W.items[k].name], m, bs[k])
  <2>1. \A k \in 1..Len(W.items) : FitsItem(W.items[k], m[W.items[k].name], m, bs[k])
    BY <1>3, Zenon DEF FitsLayout
  <2> QED BY <1>1, <2>1
<1>9. DOMAIN m = {W.items[k].name : k \in 1..5} /\ m = [x \in DOMAIN m |-> m[x]]
  <2>1. PICK names : names = {W.items[k].name : k \in 1..5}
    OBVIOUS
  <2>2. m = [x \in names |-> m[x]]
    BY <1>1, <1>3, <2>1 DEF FitsLayout
  <2>3. DOMAIN m = names
    BY <2>2
  <2> QED BY <2>1, <2>2, <2>3
<1> DEFINE exp == Unsigned(m)
<1>10. /\ exp = [x \in DOMAIN m |-> exp[x]] /\ exp["signature"] = 0
       /\ \A x \in DOMAIN m : x # "signature" => exp[x] = m[x]
  <2>1. "signature" \in DOMAIN m
    BY <1>5, <1>9 DEF Pair
  <2> QED BY <1>9, <2>1 DEF Unsigned
<1> HIDE DEF exp
<1>11. ASSUME NEW k \in 1..4
       PROVE  /\ R.items[k].name = W.items[k].name /\ R.items[k].kind \in Plain
              /\ \A flagged : ItemRight(W.items[k], R.items[k], m[W.items[k].name],
                                        exp[R.items[k].name], bs[k], parts[k], flagged)
  <2>1. PICK kind, w, name : Pair(W.items[k], R.items[k], kind, w, name) /\ kind \in Plain
                             /\ name # "signature"
    BY <1>5, <1>7 DEF Plain
  <2>2. k \in 1..5
    OBVIOUS
  <2>3. R.items[k].name = name /\ W.items[k].name = name /\ R.items[k].kind = kind
    BY <2>1 DEF Pair, ItemsAlike
  <2>4. name \in DOMAIN m
    BY <1>9, <2>2, <2>3
  <2>5. exp[name] = m[name]
    BY <1>10, <2>1, <2>4
  <2>6. \A flagged : ItemRight(W.items[k], R.items[k], m[W.items[k].name],
                               m[W.items[k].name], bs[k], parts[k], flagged)
    BY <1>8, <2>1, <2>2, PlainRight
  <2> QED BY <2>1, <2>3, <2>5, <2>6
<1>12. \A flagged : ItemRight(W.items[5], R.items[5], m[W.items[5].name],
                              exp[R.items[5].name], bs[5], parts[5], flagged)
  <2>1. FitsItem(W.items[5], m[W.items[5].name], m, bs[5])
    BY <1>8
  <2> QED BY <1>5, <1>6, <1>10, <2>1 DEF ItemRight, Pair, BigEndian, FitsItem
<1>13. LayoutRight(W, R, m, exp, bs, parts)
  <2>1. ASSUME NEW k \in 1..5
        PROVE  /\ R.items[k].name = W.items[k].name
               /\ ItemRight(W.items[k], R.items[k], m[W.items[k].name], exp[R.items[k].name],
                            bs[k], parts[k], exp[R.items[k].flag] = 1)
               /\ R.items[k].kind \notin {"rest", "restif", "ifthere"}
    <3>1. CASE k = 5
      BY <1>5, <1>6, <1>12, <3>1 DEF Pair
    <3>2. CASE k \in 1..4
      BY <1>11, <3>2 DEF Plain
    <3> QED BY <3>1, <3>2
  <2>2. \A k \in 1..5 :
           /\ R.items[k].name = W.items[k].name
           /\ ItemRight(W.items[k], R.items[k], m[W.items[k].name], exp[R.items[k].name],
                        bs[k], parts[k], exp[R.items[k].flag] = 1)
           /\ R.items[k].kind \in {"rest", "restif"} => k = Len(W.items)
           /\ R.items[k].kind = "restif" =>
                 \E j \in 1..(k - 1) : R.items[j].name = R.items[k].flag
    BY <2>1, Zenon
  <2>3. 1..Len(W.items) = 1..5 /\ Len(W.items) \in Nat /\ Len(R.items) = Len(W.items)
    BY <1>1
  <2> QED BY <2>2, <2>3, Zenon DEF LayoutRight
<1>14. AtLeast(W, 176)
  BY <1>1, <1>5 DEF AtLeast, Pair
<1>15. \A k \in 1..5 : R.items[k].kind # "ifthere"
  <2>1. \A k \in 1..4 : R.items[k].kind # "ifthere"
    BY <1>11 DEF Plain
  <2> QED BY <1>6, <1>7, <2>1
<1>16. PICK b : b = WriteLayout(W, m, bs)
  OBVIOUS
<1>17. b \in Seq(Byte) /\ ReadLayout(R, b, parts) = Got(FieldsUpto(R, exp, 5), 1 + Len(b))
  <2>1. AtLeast(W, R.size) /\ R.size \in Nat
    BY <1>1, <1>14
  <2>2. /\ WriteLayout(W, m, bs) \in Seq(Byte)
        /\ ReadLayout(R, WriteLayout(W, m, bs), parts)
             = Got(FieldsUpto(R, exp, Len(R.items)), 1 + Len(WriteLayout(W, m, bs)))
    BY <1>13, <2>1, LayoutRead
  <2> QED BY <1>1, <1>16, <2>2
<1>18. FieldsUpto(R, exp, 5) = exp
  <2>1. \A k \in 1..5 : R.items[k].name = W.items[k].name
    BY <1>1, <1>13 DEF LayoutRight
  <2>2. {R.items[k].name : k \in 1..5} = DOMAIN m
    BY <1>9, <2>1
  <2> QED BY <1>10, <2>2 DEF FieldsUpto
<1>19. ASSUME NEW c \in 0..(Len(b) - 1)
       PROVE  Refused([x \in Nat |-> ReadLayout(R, SubSeq(b, 1, x), parts)][c], R)
  <2>1. Refused(ReadLayout(R, SubSeq(b, 1, c), parts), R)
    <3>1. R.size \in Nat /\ \A k \in 1..Len(R.items) : R.items[k].kind # "ifthere"
      BY <1>1, <1>15
    <3>2. c \in 0..(Len(WriteLayout(W, m, bs)) - 1)
      BY <1>16
    <3>3. Refused(ReadLayout(R, SubSeq(WriteLayout(W, m, bs), 1, c), parts), R)
      BY <1>13, <3>1, <3>2, LayoutCut
    <3> QED BY <1>16, <3>3
  <2>2. c \in Nat
    OBVIOUS
  <2> QED BY <2>1, <2>2
<1>20. ReadBack(b, exp, R, ReadLayout(R, b, parts),
                [c \in Nat |-> ReadLayout(R, SubSeq(b, 1, c), parts)])
  BY <1>17, <1>18, <1>19 DEF ReadBack
<1>21. ReadBack(Write(W, m), exp, R, Read(R, Write(W, m)),
                [c \in Nat |-> Read(R, SubSeq(Write(W, m), 1, c))])
  BY <1>4, <1>16, <1>20
<1> QED BY <1>21 DEF exp, W, R

\* The items of an allocation, and its fields.
LEMMA AllocationItems ==
  LET W == SerializeAllocation
      R == DeserializeAllocation
  IN  /\ Len(W.items) = 5 /\ Len(R.items) = 5 /\ R.size = 45 /\ ~R.tested /\ ~R.exact
      /\ Pair(W.items[1], R.items[1], "le", 32, "address")
      /\ Pair(W.items[2], R.items[2], "le", 8, "amount")
      /\ Pair(W.items[3], R.items[3], "textle", 4, "category")
      /\ Pair(W.items[4], W.items[4], "le", 1, "has_vesting")
      /\ R.items[4].name = "has_vesting" /\ R.items[4].kind = "ifthere" /\ R.items[4].width = 1
      /\ Pair(W.items[5], R.items[5], "restif", 0, "vesting_schedule")
      /\ W.items[5].flag = "has_vesting" /\ R.items[5].flag = "has_vesting"
      /\ W.items[5].of = SerializeVesting /\ R.items[5].of = DeserializeVesting
<1> DEFINE W == SerializeAllocation
           R == DeserializeAllocation
<1>1. Len(W.items) = 5 /\ Len(R.items) = 5 /\ R.size = 45 /\ ~R.tested /\ ~R.exact
  BY DEF SerializeAllocation, DeserializeAllocation, Layout, Untested
<1>2. /\ W.items[1] = Raw("address", 32) /\ R.items[1] = Raw("address", 32)
      /\ W.items[2] = LE("amount", 8) /\ R.items[2] = LE("amount", 8)
      /\ W.items[3] = TextLE("category", 4) /\ R.items[3] = TextLE("category", 4)
      /\ W.items[4] = LE("has_vesting", 1) /\ R.items[4] = IfThere("has_vesting")
      /\ W.items[5] = RestIf("vesting_schedule", "has_vesting", SerializeVesting)
      /\ R.items[5] = RestIf("vesting_schedule", "has_vesting", DeserializeVesting)
  BY DEF SerializeAllocation, DeserializeAllocation, Layout, Untested
<1> HIDE DEF W, R
<1>3. /\ Pair(W.items[1], R.items[1], "le", 32, "address")
      /\ Pair(W.items[2], R.items[2], "le", 8, "amount")
      /\ Pair(W.items[3], R.items[3], "textle", 4, "category")
      /\ Pair(W.items[4], W.items[4], "le", 1, "has_vesting")
  BY <1>2, SimplePairs
<1>4. R.items[4].name = "has_vesting" /\ R.items[4].kind = "ifthere" /\ R.items[4].width = 1
  <2>1. LET it == IfThere("has_vesting")
        IN  it.name = "has_vesting" /\ it.kind = "ifthere" /\ it.width = 1
    BY DEF IfThere, Item
  <2> QED BY <1>2, <2>1
<1>5. PICK V, Q : V = SerializeVesting /\ Q = DeserializeVesting
  OBVIOUS
<1>6. V.prefix = 0
  BY <1>5 DEF SerializeVesting, Layout
<1>7. Pair(RestIf("vesting_schedule", "has_vesting", V), RestIf("vesting_schedule", "has_vesting", Q),
           "restif", 0, "vesting_schedule")
  BY <1>6, PartPairs
<1>8. /\ RestIf("vesting_schedule", "has_vesting", V).of = V
      /\ RestIf("vesting_schedule", "has_vesting", V).flag = "has_vesting"
      /\ RestIf("vesting_schedule", "has_vesting", Q).of = Q
      /\ RestIf("vesting_schedule", "has_vesting", Q).flag = "has_vesting"
  BY PartsOf
<1>9. /\ Pair(W.items[5], R.items[5], "restif", 0, "vesting_schedule")
      /\ W.items[5].flag = "has_vesting" /\ R.items[5].flag = "has_vesting"
      /\ W.items[5].of = SerializeVesting /\ R.items[5].of = DeserializeVesting
  BY <1>2, <1>5, <1>7, <1>8
<1> QED BY <1>1, <1>3, <1>4, <1>9 DEF W, R

\* An allocation that has all its bytes is read item by item as it was.
LEMMA AllocationLayout ==
  ASSUME NEW m, Fits(SerializeAllocation, m)
  PROVE  LayoutRight(SerializeAllocation, DeserializeAllocation, m, m,
                     Parts3(SerializeAllocation, m), Readers3(DeserializeAllocation))
<1> DEFINE W == SerializeAllocation
           R == DeserializeAllocation
           bs == Parts3(W, m)
           parts == Readers3(R)
<1>1. /\ Len(W.items) = 5 /\ Len(R.items) = 5
      /\ Pair(W.items[1], R.items[1], "le", 32, "address")
      /\ Pair(W.items[2], R.items[2], "le", 8, "amount")
      /\ Pair(W.items[3], R.items[3], "textle", 4, "category")
      /\ Pair(W.items[4], W.items[4], "le", 1, "has_vesting")
      /\ R.items[4].name = "has_vesting" /\ R.items[4].kind = "ifthere" /\ R.items[4].width = 1
      /\ Pair(W.items[5], R.items[5], "restif", 0, "vesting_schedule")
      /\ W.items[5].flag = "has_vesting" /\ R.items[5].flag = "has_vesting"
      /\ W.items[5].of = SerializeVesting /\ R.items[5].of = DeserializeVesting
  BY AllocationItems
<1>2. FitsLayout(W, m, bs)
  BY DEF Fits
<1>3. PartsRight(W.items[5], R.items[5], m[W.items[5].name], bs[5], parts[5])
  <2>1. W.items[5].kind \in HasParts
    BY <1>1 DEF Pair, HasParts
  <2>2. R.items[5].of.tested /\ Agree2(W.items[5].of, R.items[5].of)
    <3>1. DeserializeVesting.tested
      BY DEF DeserializeVesting, Layout
    <3>2. Agree2(SerializeVesting, DeserializeVesting)
      BY AgreeVesting, AgreeDeeper
    <3> QED BY <1>1, <3>1, <3>2
  <2>3. 5 \in 1..Len(W.items) /\ Len(R.items) = Len(W.items)
    BY <1>1
  <2> HIDE DEF W, R
  <2>4. Fits(W, m)
    BY DEF W
  <2> QED BY <2>1, <2>2, <2>3, <2>4, Level3Parts
<1> HIDE DEF W, R, bs, parts
<1>4. \A k \in 1..5 : FitsItem(W.items[k], m[W.items[k].name], m, bs[k])
  <2>1. \A k \in 1..Len(W.items) : FitsItem(W.items[k], m[W.items[k].name], m, bs[k])
    BY <1>2, Zenon DEF FitsLayout
  <2> QED BY <1>1, <2>1
<1>5. ASSUME NEW k \in 1..5, NEW kind, NEW w, NEW name,
             Pair(W.items[k], R.items[k], kind, w, name), kind \in Plain
      PROVE  /\ R.items[k].name = W.items[k].name /\ R.items[k].kind \in Plain
             /\ ItemRight(W.items[k], R.items[k], m[W.items[k].name], m[R.items[k].name],
                          bs[k], parts[k], m[R.items[k].flag] = 1)
  <2>1. R.items[k].name = W.items[k].name /\ R.items[k].kind \in Plain
    BY <1>5 DEF Pair, ItemsAlike
  <2>2. FitsItem(W.items[k], m[W.items[k].name], m, bs[k])
    BY <1>4
  <2>3. \A flagged : ItemRight(W.items[k], R.items[k], m[W.items[k].name],
                               m[W.items[k].name], bs[k], parts[k], flagged)
    BY <1>5, <2>2, PlainRight
  <2> QED BY <2>1, <2>3
<1>6. ItemRight(W.items[4], R.items[4], m[W.items[4].name], m[R.items[4].name], bs[4], parts[4],
                m[R.items[4].flag] = 1)
  <2>1. FitsItem(W.items[4], m[W.items[4].name], m, bs[4])
    BY <1>4
  <2> QED BY <1>1, <2>1 DEF ItemRight, Pair, BigEndian, FitsItem
<1>7. /\ R.items[5].name = W.items[5].name
      /\ ItemRight(W.items[5], R.items[5], m[W.items[5].name], m[R.items[5].name],
                   bs[5], parts[5], m[R.items[5].flag] = 1)
  <2>1. ItemsAlike(W.items[5], R.items[5]) /\ R.items[5].name = W.items[5].name
    BY <1>1 DEF Pair, ItemsAlike
  <2>2. FitsItem(W.items[5], m[W.items[5].name], m, bs[5])
    BY <1>4
  <2> QED BY <1>3, <2>1, <2>2, AlikeRight
<1>8. ASSUME NEW k \in 1..5
      PROVE  /\ R.items[k].name = W.items[k].name
             /\ ItemRight(W.items[k], R.items[k], m[W.items[k].name], m[R.items[k].name],
                          bs[k], parts[k], m[R.items[k].flag] = 1)
             /\ R.items[k].kind \in {"rest", "restif"} => k = 5
             /\ R.items[k].kind = "restif" =>
                   \E j \in 1..(k - 1) : R.items[j].name = R.items[k].flag
  <2>1. CASE k \in 1..3
    <3>1. PICK kind, w, name : Pair(W.items[k], R.items[k], kind, w, name) /\ kind \in Plain
      BY <1>1, <2>1 DEF Plain
    <3> QED BY <1>5, <3>1 DEF Plain
  <2>2. CASE k = 4
    BY <1>1, <1>6, <2>2 DEF Pair
  <2>3. CASE k = 5
    BY <1>1, <1>7, <2>3
  <2> QED BY <2>1, <2>2, <2>3
<1>9. LayoutRight(W, R, m, m, bs, parts)
  <2>1. 5 = Len(W.items) /\ 5 \in Nat /\ Len(R.items) = 5
    BY <1>1
  <2> QED BY <1>8, <2>1 DEF LayoutRight
<1> QED BY <1>9 DEF W, R, bs, parts

\* An allocation whose bytes end right before the flag has lost its vesting.
Unvested(m) == [m EXCEPT !.has_vesting = 0, !.vesting_schedule = <<>>]

\* All of an allocation is read back.
LEMMA AllocationRead ==
  ASSUME NEW m, Fits(SerializeAllocation, m)
  PROVE  LET b == Write(SerializeAllocation, m)
         IN  b \in Seq(Byte) /\ Read(DeserializeAllocation, b) = Got(m, 1 + Len(b))
<1> DEFINE W == SerializeAllocation
           R == DeserializeAllocation
           bs == Parts3(W, m)
           parts == Readers3(R)
<1>1. LayoutRight(W, R, m, m, bs, parts)
  BY AllocationLayout
<1>2. Write(W, m) = WriteLayout(W, m, bs) /\ \A d : Read(R, d) = ReadLayout(R, d, parts)
  BY DEF Write, Read
<1>3. FitsLayout(W, m, bs)
  BY DEF Fits
<1>4. Len(W.items) = 5 /\ Len(R.items) = 5 /\ R.size = 45 /\ AtLeast(W, 45)
  <2>1. Len(W.items) = 5 /\ Len(R.items) = 5 /\ R.size = 45
    BY AllocationItems
  <2>2. /\ W.items[1].width = 32 /\ W.items[2].width = 8 /\ W.items[3].width = 4
        /\ W.items[4].width = 1 /\ W.items[5].width = 0
    BY AllocationItems DEF Pair
  <2> HIDE DEF W, R
  <2> QED BY <2>1, <2>2 DEF AtLeast
<1> HIDE DEF W, R, bs, parts
<1>5. /\ WriteLayout(W, m, bs) \in Seq(Byte)
      /\ ReadLayout(R, WriteLayout(W, m, bs), parts)
           = Got(FieldsUpto(R, m, Len(R.items)), 1 + Len(WriteLayout(W, m, bs)))
  <2>1. AtLeast(W, R.size) /\ R.size \in Nat
    BY <1>4
  <2> QED BY <1>1, <2>1, LayoutRead
<1>6. FieldsUpto(R, m, 5) = m
  <2>1. \A k \in 1..5 : R.items[k].name = W.items[k].name
    BY <1>1, <1>4 DEF LayoutRight
  <2>2. {R.items[k].name : k \in 1..5} = {W.items[k].name : k \in 1..5}
    BY <2>1
  <2>3. m = [x \in {W.items[k].name : k \in 1..5} |-> m[x]]
    BY <1>3, <1>4 DEF FitsLayout
  <2> QED BY <2>2, <2>3 DEF FieldsUpto
<1> QED BY <1>2, <1>4, <1>5, <1>6 DEF W, R

\* A prefix of an allocation is refused, read past its end, or read without
\* the vesting schedule.
LEMMA AllocationCut ==
  ASSUME NEW m, Fits(SerializeAllocation, m),
         NEW c \in 0..(Len(Write(SerializeAllocation, m)) - 1)
  PROVE  LET r == Read(DeserializeAllocation, SubSeq(Write(SerializeAllocation, m), 1, c))
         IN  \/ r.ended \in {"threw", "overran"}
             \/ r.ended = "read" /\ r.rec = Unvested(m)
<1> DEFINE W == SerializeAllocation
           R == DeserializeAllocation
           bs == Parts3(W, m)
           parts == Readers3(R)
<1>1. LayoutRight(W, R, m, m, bs, parts)
  BY AllocationLayout
<1>2. Write(W, m) = WriteLayout(W, m, bs) /\ \A d : Read(R, d) = ReadLayout(R, d, parts)
  BY DEF Write, Read
<1>3. FitsLayout(W, m, bs)
  BY DEF Fits
<1>4. /\ Len(W.items) = 5 /\ Len(R.items) = 5 /\ ~R.exact
      /\ W.items[1].name = "address" /\ W.items[2].name = "amount"
      /\ W.items[3].name = "category" /\ W.items[4].name = "has_vesting"
      /\ W.items[5].name = "vesting_schedule"
      /\ R.items[1].kind # "ifthere" /\ R.items[2].kind # "ifthere"
      /\ R.items[3].kind # "ifthere" /\ R.items[5].kind = "restif"
      /\ W.items[4].width = 1 /\ W.items[4].kind = "le"
      /\ R.items[4].name = "has_vesting" /\ R.items[4].kind = "ifthere" /\ R.items[4].width = 1
      /\ R.items[5].name = "vesting_schedule" /\ R.items[5].width = 0
      /\ R.items[5].flag = "has_vesting"
  BY AllocationItems DEF Pair, ItemsAlike
<1>5. PICK b : b = WriteLayout(W, m, bs)
  OBVIOUS
<1> HIDE DEF bs, parts
<1>6. PICK off : Offsets(Chunks(W, m, bs), 5, off, b)
  <2>1. \E off : Offsets(Chunks(W, m, bs), Len(W.items), off, WriteLayout(W, m, bs))
    BY <1>1, LayoutBytes
  <2> QED BY <1>4, <1>5, <2>1
<1>7. c \in 0..(Len(b) - 1)
  BY <1>2, <1>5
<1> HIDE DEF W, R
<1>8. off \in [0..5 -> Nat] /\ b \in Seq(Byte) /\ Len(b) = off[5]
  BY <1>6 DEF Offsets
<1>9. PICK o, p, q \in Nat : o = off[3] /\ p = off[4] /\ q = off[5]
  BY <1>8
<1>10. p = o + 1
  <2>1. WidthsFit(W, off)
    BY <1>1, <1>4, <1>6, OffsetsWidth
  <2>2. off[4] = off[4 - 1] + W.items[4].width
    BY <1>4, <2>1 DEF WidthsFit, Scalar
  <2> QED BY <1>4, <1>9, <2>2
<1>11. c \in Nat /\ c < q /\ c \in 0..Len(b)
  BY <1>7, <1>8, <1>9
<1>12. PICK d : d = SubSeq(b, 1, c)
  OBVIOUS
<1>13. d \in Seq(Byte) /\ Len(d) = c /\ Carries(d, 1, b) /\ Len(d) <= Len(b)
  <2>1. d \in Seq(Byte) /\ Len(d) = c /\ Carries(d, 1, b)
    BY <1>8, <1>11, <1>12, PrefixCarries
  <2> QED BY <1>11, <2>1
<1> DEFINE read == ReadItems(R, d, parts)
<1>14. /\ read[4] = ReadField(R, R.items[4], parts[4], d, read[3])
       /\ read[5] = ReadField(R, R.items[5], parts[5], d, read[4])
  <2>1. PICK n \in Nat : n = Len(R.items)
    BY <1>4
  <2>2. \A k \in 1..n : ReadItems(R, d, parts)[k]
                          = ReadField(R, R.items[k], parts[k], d, ReadItems(R, d, parts)[k - 1])
    BY <2>1, ReadItemsStep
  <2>3. 4 \in 1..n /\ 5 \in 1..n /\ 4 - 1 = 3 /\ 5 - 1 = 4
    BY <1>4, <2>1
  <2> QED BY <2>2, <2>3
<1>15. ASSUME NEW top \in {3, 5}, c # o \/ top = 3
       PROVE  ReadUpto(R, d, parts, m, off, top)
  <2>1. ASSUME NEW k \in 1..top PROVE There(W, R, d, off, k)
    <3>1. CASE k # 4
      <4>1. k = 1 \/ k = 2 \/ k = 3 \/ k = 5
        BY <3>1
      <4>2. R.items[k].kind # "ifthere"
        BY <1>4, <4>1
      <4> QED BY <4>2 DEF There
    <3>2. CASE k = 4
      <4>1. c # o
        BY <1>15, <3>2
      <4>2. o <= c => o + 1 <= c
        BY <1>11, <4>1
      <4>3. off[4 - 1] = o
        BY <1>9
      <4> QED BY <1>4, <1>13, <3>2, <4>2, <4>3 DEF There
    <3> QED BY <3>1, <3>2
  <2>2. PICK n \in Nat : n = 5 /\ n = Len(W.items) /\ top \in 0..n
    BY <1>4
  <2>3. Offsets(Chunks(W, m, bs), n, off, b)
    BY <1>6, <2>2
  <2> QED BY <1>1, <1>13, <2>1, <2>2, <2>3, ItemsRead
<1>16. ReadLayout(R, d, parts) \in {Threw, read[5]}
  BY <1>4 DEF ReadLayout
<1> HIDE DEF read
<1>17. Threw.ended = "threw"
  BY DEF Threw
<1>18. CASE c # o
  <2>1. ReadUpto(R, d, parts, m, off, 5)
    BY <1>15, <1>18
  <2>2. off[5] > Len(d)
    BY <1>9, <1>11, <1>13
  <2>3. Refused(read[5], R)
    BY <2>1, <2>2 DEF ReadUpto, read
  <2> QED BY <1>2, <1>5, <1>12, <1>16, <1>17, <2>3 DEF Refused, R, W
<1>19. CASE c = o
  <2>1. ReadUpto(R, d, parts, m, off, 3)
    BY <1>15
  <2>2. PICK at \in Nat \ {0} : at = 1 + o
    OBVIOUS
  <2>3. PICK before : before = FieldsUpto(R, m, 3)
    OBVIOUS
  <2>4. read[3] = Got(before, at)
    <3>1. off[3] <= Len(d)
      BY <1>9, <1>13, <1>19
    <3> QED BY <1>9, <2>1, <2>2, <2>3, <3>1 DEF ReadUpto, read
  <2>5. ReadItem(R, R.items[4], parts[4], d, at, before) = Got(0, at)
    <3>1. (at + 1) - 1 > Len(d)
      BY <1>13, <1>19, <2>2
    <3> QED BY <1>4, <3>1 DEF ReadItem
  <2>6. PICK four : four = WithField(before, "has_vesting", 0)
    OBVIOUS
  <2>7. read[4] = Got(four, at)
    BY <1>4, <1>14, <2>4, <2>5, <2>6, GotFields DEF ReadField
  <2>8. four["has_vesting"] = 0
    BY <2>6 DEF WithField
  <2>9. ReadItem(R, R.items[5], parts[5], d, at, four) = Got(<<>>, at)
    <3>1. at + 0 = at /\ ~(at - 1 > Len(d))
      BY <1>13, <1>19, <2>2
    <3>2. \A x : ReadBehind(R, R.items[5], parts[5], d, at, x, four) = Got(<<>>, at)
      <4>1. four[R.items[5].flag] # 1
        BY <1>4, <2>8
      <4> QED BY <1>4, <4>1 DEF ReadBehind
    <3> QED BY <1>4, <3>1, <3>2 DEF ReadItem
  <2>10. PICK five : five = WithField(four, "vesting_schedule", <<>>)
    OBVIOUS
  <2>11. read[5] = Got(five, at)
    <3>1. read[4].ended = "read" /\ read[4].rec = four /\ read[4].at = at
      BY <2>7, GotFields
    <3>2. PICK got5 : got5 = ReadItem(R, R.items[5], parts[5], d, at, four)
      OBVIOUS
    <3>3. got5.ended = "read" /\ got5.rec = <<>> /\ got5.at = at
      BY <2>9, <3>2, GotFields
    <3> QED BY <1>4, <1>14, <2>10, <3>1, <3>2, <3>3 DEF ReadField
  <2>12. five = Unvested(m)
    <3>1. PICK names : names = {W.items[k].name : k \in 1..5}
      OBVIOUS
    <3>2. names = {"address", "amount", "category", "has_vesting", "vesting_schedule"}
      BY <1>4, <3>1
    <3>3. m = [x \in names |-> m[x]]
      BY <1>3, <1>4, <3>1 DEF FitsLayout
    <3>4. \A k \in 1..3 : R.items[k].name = W.items[k].name
      BY <1>1, <1>4 DEF LayoutRight
    <3>5. {R.items[k].name : k \in 1..3} = {"address", "amount", "category"}
      BY <1>4, <3>4
    <3>6. before = [x \in {"address", "amount", "category"} |-> m[x]]
      BY <2>3, <3>5 DEF FieldsUpto
    <3>7. four = [x \in {"address", "amount", "category", "has_vesting"} |->
                    IF x = "has_vesting" THEN 0 ELSE m[x]]
      BY <2>6, <3>6 DEF WithField
    <3>8. five = [x \in names |-> IF x = "vesting_schedule" THEN <<>>
                                  ELSE IF x = "has_vesting" THEN 0 ELSE m[x]]
      BY <2>10, <3>2, <3>7 DEF WithField
    <3>9. Unvested(m) = [x \in names |-> IF x = "vesting_schedule" THEN <<>>
                                         ELSE IF x = "has_vesting" THEN 0 ELSE m[x]]
      <4>1. DOMAIN m = names
        BY <3>3
      <4> QED BY <3>2, <4>1 DEF Unvested
    <3> QED BY <3>8, <3>9
  <2>13. read[5].ended = "read" /\ read[5].rec = Unvested(m)
    BY <2>11, <2>12, GotFields
  <2> QED BY <1>2, <1>5, <1>12, <1>16, <1>17, <2>13 DEF R, W
<1> QED BY <1>18, <1>19

-----------------------------------------------------------------------------
(* Every type of message *)

AsReadOf(t, f) == IF t = "Vote" THEN Unsigned(f) ELSE f

\* What the reader of t may make of a prefix of the fields f.
CutRight(t, f, r) ==
  \/ r.ended = "threw"
  \/ r.ended = "overran" /\ t \in {"Allocation", "HeaderProof"}
  \/ t = "Allocation" /\ r.ended = "read" /\ r.rec = Unvested(f)

TypeRight(t, W, R, f) ==
  LET b == Write(W, f)
  IN  /\ b \in Seq(Byte)
      /\ Read(R, b) = Got(AsReadOf(t, f), 1 + Len(b))
      /\ \A c \in 0..(Len(b) - 1) : CutRight(t, f, Read(R, SubSeq(b, 1, c)))

\* What is read back, or refused where the reader tests, is right for its type.
LEMMA BackRight ==
  ASSUME NEW t, NEW W, NEW R, NEW f, NEW g, g = AsReadOf(t, f),
         ReadBack(Write(W, f), g, R, Read(R, Write(W, f)),
                  [c \in Nat |-> Read(R, SubSeq(Write(W, f), 1, c))]),
         R.tested \/ t = "HeaderProof"
  PROVE  TypeRight(t, W, R, f)
<1>1. PICK b : b = Write(W, f)
  OBVIOUS
<1>2. b \in Seq(Byte) /\ Read(R, b) = Got(g, 1 + Len(b))
  BY <1>1 DEF ReadBack
<1>3. ASSUME NEW c \in 0..(Len(b) - 1) PROVE CutRight(t, f, Read(R, SubSeq(b, 1, c)))
  <2>1. c \in Nat
    OBVIOUS
  <2>2. Refused(Read(R, SubSeq(b, 1, c)), R)
    BY <1>1, <2>1 DEF ReadBack
  <2> QED BY <2>2 DEF Refused, CutRight
<1> QED BY <1>1, <1>2, <1>3 DEF TypeRight

\* Types whose two layouts agree.
LEMMA OrdinaryRight ==
  ASSUME NEW t, NEW W, NEW R, NEW f, t # "Vote", Agree3(W, R), Fits(W, f),
         R.tested \/ t = "HeaderProof"
  PROVE  TypeRight(t, W, R, f)
<1>1. Back3(W, R, f)
  BY Level3
<1>2. ReadBack(Write(W, f), f, R, Read(R, Write(W, f)),
               [c \in Nat |-> Read(R, SubSeq(Write(W, f), 1, c))])
  BY <1>1 DEF Back3
<1>3. f = AsReadOf(t, f)
  BY DEF AsReadOf
<1> QED BY <1>2, <1>3, BackRight

\* Votes.
LEMMA VoteTypeRight ==
  ASSUME NEW f, Fits(SerializeVote, f)
  PROVE  TypeRight("Vote", SerializeVote, DeserializeVote, f)
<1>1. PICK t, W, R : t = "Vote" /\ W = SerializeVote /\ R = DeserializeVote
  OBVIOUS
<1>2. PICK g : g = Unsigned(f)
  OBVIOUS
<1>3. ReadBack(Write(W, f), g, R, Read(R, Write(W, f)),
               [c \in Nat |-> Read(R, SubSeq(Write(W, f), 1, c))])
  BY <1>1, <1>2, VoteRight
<1>4. g = AsReadOf(t, f) /\ R.tested
  BY <1>1, <1>2 DEF AsReadOf, DeserializeVote, Layout
<1>5. TypeRight(t, W, R, f)
  BY <1>3, <1>4, BackRight
<1> QED BY <1>1, <1>5

\* Allocations.
LEMMA AllocationTypeRight ==
  ASSUME NEW f, Fits(SerializeAllocation, f)
  PROVE  TypeRight("Allocation", SerializeAllocation, DeserializeAllocation, f)
<1>1. PICK W, R : W = SerializeAllocation /\ R = DeserializeAllocation
  OBVIOUS
<1>2. Write(W, f) \in Seq(Byte) /\ Read(R, Write(W, f)) = Got(f, 1 + Len(Write(W, f)))
  BY <1>1, AllocationRead
<1>3. ASSUME NEW c \in 0..(Len(Write(W, f)) - 1)
      PROVE  CutRight("Allocation", f, Read(R, SubSeq(Write(W, f), 1, c)))
  <2>1. PICK r : r = Read(R, SubSeq(Write(W, f), 1, c))
    OBVIOUS
  <2>2. r.ended \in {"threw", "overran"} \/ (r.ended = "read" /\ r.rec = Unvested(f))
    BY <1>1, <2>1, AllocationCut
  <2> QED BY <2>1, <2>2 DEF CutRight
<1>4. AsReadOf("Allocation", f) = f
  BY DEF AsReadOf
<1> QED BY <1>1, <1>2, <1>3, <1>4 DEF TypeRight

\* The layouts of the other thirteen types agree.
LEMMA AllAgree ==
  /\ Agree3(SerializeTransaction, DeserializeTransaction)
  /\ Agree3(SerializeBlock, DeserializeBlock)
  /\ Agree3(SerializeBlockRequest, DeserializeBlockRequest)
  /\ Agree3(SerializeBlockResponse, DeserializeBlockResponse)
  /\ Agree3(SerializeValidatorSetUpdate, DeserializeValidatorSetUpdate)
  /\ Agree3(SerializeReceipt, DeserializeReceipt)
  /\ Agree3(SerializeAccount, DeserializeAccount)
  /\ Agree3(SerializeValidatorSet, DeserializeValidatorSet)
  /\ Agree3(SerializeLightClientState, DeserializeLightClientState)
  /\ Agree3(SerializeHeaderProof, DeserializeHeaderProof)
  /\ Agree3(SerializeCheckpoint, DeserializeCheckpoint)
  /\ Agree3(SerializeMerkleProof, DeserializeMerkleProof)
  /\ Agree3(SerializeGenesisConfig, DeserializeGenesisConfig)
  BY AgreeDeeper, AgreeTransaction, AgreeBlock, AgreeBlockRequest, AgreeBlockResponse,
       AgreeValidatorSetUpdate, AgreeReceipt, AgreeAccount, AgreeValidatorSet,
       AgreeLightClientState, AgreeHeaderProof, AgreeCheckpoint, AgreeMerkleProof,
       AgreeGenesisConfig

\* All their readers but that of a header proof test for the end.
LEMMA AllTested ==
  /\ DeserializeTransaction.tested
  /\ DeserializeBlock.tested
  /\ DeserializeBlockRequest.tested
  /\ DeserializeBlockResponse.tested
  /\ DeserializeValidatorSetUpdate.tested
  /\ DeserializeReceipt.tested
  /\ DeserializeAccount.tested
  /\ DeserializeValidatorSet.tested
  /\ DeserializeLightClientState.tested
  /\ DeserializeCheckpoint.tested
  /\ DeserializeMerkleProof.tested
  /\ DeserializeGenesisConfig.tested
  BY DEF Layout, Exact, DeserializeTransaction, DeserializeBlock, DeserializeBlockRequest,
       DeserializeBlockResponse, DeserializeValidatorSetUpdate, DeserializeReceipt,
       DeserializeAccount, DeserializeValidatorSet, DeserializeLightClientState,
       DeserializeCheckpoint, DeserializeMerkleProof, DeserializeGenesisConfig

\* The reader of every type gets what the writer of the type wrote.
LEMMA TypeRead ==
  ASSUME NEW t \in DOMAIN Writers, NEW f, Fits(Writers[t], f)
  PROVE  TypeRight(t, Writers[t], Readers[t], f)
<1>0. t \in {"Transaction", "Block", "Vote", "BlockRequest", "BlockResponse",
             "ValidatorSetUpdate", "Receipt", "Account", "ValidatorSet", "LightClientState",
             "HeaderProof", "Checkpoint", "MerkleProof", "Allocation", "GenesisConfig"}
  BY DEF Writers
<1>1. CASE t = "Transaction"
  <2>1. Writers[t] = SerializeTransaction /\ Readers[t] = DeserializeTransaction
    BY <1>1 DEF Writers, Readers
  <2>2. Agree3(Writers[t], Readers[t]) /\ t # "Vote" /\ Readers[t].tested
    BY <1>1, <2>1, AllAgree, AllTested
  <2> QED BY <1>1, <2>2, OrdinaryRight
<1>2. CASE t = "Block"
  <2>1. Writers[t] = SerializeBlock /\ Readers[t] = DeserializeBlock
    BY <1>2 DEF Writers, Readers
  <2>2. Agree3(Writers[t], Readers[t]) /\ t # "Vote" /\ Readers[t].tested
    BY <1>2, <2>1, AllAgree, AllTested
  <2> QED BY <1>2, <2>2, OrdinaryRight
<1>3. CASE t = "Vote"
  <2>1. Writers[t] = SerializeVote /\ Readers[t] = DeserializeVote
    BY <1>3 DEF Writers, Readers
  <2> QED BY <1>3, <2>1, VoteTypeRight
<1>4. CASE t = "BlockRequest"
  <2>1. Writers[t] = SerializeBlockRequest /\ Readers[t] = DeserializeBlockRequest
    BY <1>4 DEF Writers, Readers
  <2>2. Agree3(Writers[t], Readers[t]) /\ t # "Vote" /\ Readers[t].tested
    BY <1>4, <2>1, AllAgree, AllTested
  <2> QED BY <1>4, <2>2, OrdinaryRight
<1>5. CASE t = "BlockResponse"
  <2>1. Writers[t] = SerializeBlockResponse /\ Readers[t] = DeserializeBlockResponse
    BY <1>5 DEF Writers, Readers
  <2>2. Agree3(Writers[t], Readers[t]) /\ t # "Vote" /\ Readers[t].tested
    BY <1>5, <2>1, AllAgree, AllTested
  <2> QED BY <1>5, <2>2, OrdinaryRight
<1>6. CASE t = "ValidatorSetUpdate"
  <2>1. Writers[t] = SerializeValidatorSetUpdate /\ Readers[t] = DeserializeValidatorSetUpdate
    BY <1>6 DEF Writers, Readers
  <2>2. Agree3(Writers[t], Readers[t]) /\ t # "Vote" /\ Readers[t].tested
    BY <1>6, <2>1, AllAgree, AllTested
  <2> QED BY <1>6, <2>2, OrdinaryRight
<1>7. CASE t = "Receipt"
  <2>1. Writers[t] = SerializeReceipt /\ Readers[t] = DeserializeReceipt
    BY <1>7 DEF Writers, Readers
  <2>2. Agree3(Writers[t], Readers[t]) /\ t # "Vote" /\ Readers[t].tested
    BY <1>7, <2>1, AllAgree, AllTested
  <2> QED BY <1>7, <2>2, OrdinaryRight
<1>8. CASE t = "Account"
  <2>1. Writers[t] = SerializeAccount /\ Readers[t] = DeserializeAccount
    BY <1>8 DEF Writers, Readers
  <2>2. Agree3(Writers[t], Readers[t]) /\ t # "Vote" /\ Readers[t].tested
    BY <1>8, <2>1, AllAgree, AllTested
  <2> QED BY <1>8, <2>2, OrdinaryRight
<1>9. CASE t = "ValidatorSet"
  <2>1. Writers[t] = SerializeValidatorSet /\ Readers[t] = DeserializeValidatorSet
    BY <1>9 DEF Writers, Readers
  <2>2. Agree3(Writers[t], Readers[t]) /\ t # "Vote" /\ Readers[t].tested
    BY <1>9, <2>1, AllAgree, AllTested
  <2> QED BY <1>9, <2>2, OrdinaryRight
<1>10. CASE t = "LightClientState"
  <2>1. Writers[t] = SerializeLightClientState /\ Readers[t] = DeserializeLightClientState
    BY <1>10 DEF Writers, Readers
  <2>2. Agree3(Writers[t], Readers[t]) /\ t # "Vote" /\ Readers[t].tested
    BY <1>10, <2>1, AllAgree, AllTested
  <2> QED BY <1>10, <2>2, OrdinaryRight
<1>11. CASE t = "HeaderProof"
  <2>1. Writers[t] = SerializeHeaderProof /\ Readers[t] = DeserializeHeaderProof
    BY <1>11 DEF Writers, Readers
  <2>2. Agree3(Writers[t], Readers[t]) /\ t # "Vote"
    BY <1>11, <2>1, AllAgree, AllTested
  <2> QED BY <1>11, <2>2, OrdinaryRight
<1>12. CASE t = "Checkpoint"
  <2>1. Writers[t] = SerializeCheckpoint /\ Readers[t] = DeserializeCheckpoint
    BY <1>12 DEF Writers, Readers
  <2>2. Agree3(Writers[t], Readers[t]) /\ t # "Vote" /\ Readers[t].tested
    BY <1>12, <2>1, AllAgree, AllTested
  <2> QED BY <1>12, <2>2, OrdinaryRight
<1>13. CASE t = "MerkleProof"
  <2>1. Writers[t] = SerializeMerkleProof /\ Readers[t] = DeserializeMerkleProof
    BY <1>13 DEF Writers, Readers
  <2>2. Agree3(Writers[t], Readers[t]) /\ t # "Vote" /\ Readers[t].tested
    BY <1>13, <2>1, AllAgree, AllTested
  <2> QED BY <1>13, <2>2, OrdinaryRight
<1>14. CASE t = "Allocation"
  <2>1. Writers[t] = SerializeAllocation /\ Readers[t] = DeserializeAllocation
    BY <1>14 DEF Writers, Readers
  <2> QED BY <1>14, <2>1, AllocationTypeRight
<1>15. CASE t = "GenesisConfig"
  <2>1. Writers[t] = SerializeGenesisConfig /\ Readers[t] = DeserializeGenesisConfig
    BY <1>15 DEF Writers, Readers
  <2>2. Agree3(Writers[t], Readers[t]) /\ t # "Vote" /\ Readers[t].tested
    BY <1>15, <2>1, AllAgree, AllTested
  <2> QED BY <1>15, <2>2, OrdinaryRight
<1> QED BY <1>0, <1>1, <1>2, <1>3, <1>4, <1>5, <1>6, <1>7, <1>8, <1>9, <1>10, <1>11, <1>12,
     <1>13, <1>14, <1>15


-----------------------------------------------------------------------------
(* Frames *)

FrameOf(k, p, h) == [type |-> k, payload |-> p, hash |-> h]

\* The three items of a frame.
LEMMA FrameItems ==
  LET W == SerializeFrame
      R == DeserializeFrame
  IN  /\ Len(W.items) = 3 /\ Len(R.items) = 3 /\ R.tested /\ ~R.exact
      /\ Pair(W.items[1], R.items[1], "le", 1, "type")
      /\ Pair(W.items[2], R.items[2], "textbe", 4, "payload")
      /\ Pair(W.items[3], R.items[3], "le", 32, "hash")
<1> DEFINE W == SerializeFrame
           R == DeserializeFrame
<1>1. Len(W.items) = 3 /\ Len(R.items) = 3 /\ R.tested /\ ~R.exact
  BY DEF SerializeFrame, DeserializeFrame, Layout
<1>2. /\ W.items[1] = LE("type", 1) /\ R.items[1] = LE("type", 1)
      /\ W.items[2] = TextBE("payload", 4) /\ R.items[2] = TextBE("payload", 4)
      /\ W.items[3] = Raw("hash", 32) /\ R.items[3] = Raw("hash", 32)
  BY DEF SerializeFrame, DeserializeFrame, Layout
<1> HIDE DEF W, R
<1>3. /\ Pair(W.items[1], R.items[1], "le", 1, "type")
      /\ Pair(W.items[2], R.items[2], "textbe", 4, "payload")
      /\ Pair(W.items[3], R.items[3], "le", 32, "hash")
  BY <1>2, SimplePairs
<1> QED BY <1>1, <1>3 DEF W, R

\* The bound on the values is a number.
LEMMA HugeNat == Huge \in Nat
  BY DEF Huge

\* The fields of a frame fit: the payload is shorter than 2^24 bytes.
LEMMA FrameFits ==
  ASSUME NEW p \in Seq(Byte), Len(p) < Huge, NEW h \in 0..(Huge - 1), NEW k \in 0..255
  PROVE  Fits(SerializeFrame, FrameOf(k, p, h))
<1> DEFINE W == SerializeFrame
           f == FrameOf(k, p, h)
<1>1. /\ Len(W.items) = 3
      /\ W.items[1].kind = "le" /\ W.items[1].width = 1 /\ W.items[1].name = "type"
      /\ W.items[2].kind = "textbe" /\ W.items[2].width = 4 /\ W.items[2].name = "payload"
      /\ W.items[3].kind = "le" /\ W.items[3].width = 32 /\ W.items[3].name = "hash"
  BY FrameItems DEF Pair
<1>2. f["type"] = k /\ f["payload"] = p /\ f["hash"] = h
      /\ f = [x \in {"type", "payload", "hash"} |-> f[x]]
  BY DEF FrameOf
<1> HIDE DEF W, f
<1>3. \A j \in 1..3 : j = 1 \/ j = 2 \/ j = 3
  OBVIOUS
<1>4. {W.items[j].name : j \in 1..3} = {"type", "payload", "hash"}
  BY <1>1, <1>3
<1>5. ASSUME NEW j \in 1..3 PROVE PartsAt(W, f, j) = <<>>
  <2>1. W.items[j].kind \in {"le", "textbe"}
    BY <1>1, <1>3
  <2> QED BY <2>1 DEF PartsAt, Parts
<1>6. /\ Limit(1) = 256 /\ Limit(4) = Huge /\ Limit(32) = Huge
  BY DEF Limit
<1>7. ASSUME NEW b PROVE FitsItem(W.items[1], k, f, b)
  <2>1. InFront(W.items[1], k, b) = k
    BY <1>1 DEF InFront
  <2>2. k \in 0..(Limit(1) - 1)
    BY <1>6
  <2> QED BY <1>1, <2>1, <2>2 DEF FitsItem
<1>8. ASSUME NEW b PROVE FitsItem(W.items[2], p, f, b)
  <2>1. InFront(W.items[2], p, b) = Len(p)
    BY <1>1 DEF InFront
  <2>2. Len(p) \in 0..(Limit(4) - 1)
    <3>1. PICK H \in Nat : H = Huge
      BY HugeNat
    <3>2. PICK l \in Nat : l = Len(p)
      OBVIOUS
    <3>3. l \in 0..(H - 1)
      BY <3>1, <3>2
    <3> QED BY <1>6, <3>1, <3>2, <3>3
  <2> QED BY <1>1, <2>1, <2>2 DEF FitsItem
<1>9. ASSUME NEW b PROVE FitsItem(W.items[3], h, f, b)
  <2>1. InFront(W.items[3], h, b) = h
    BY <1>1 DEF InFront
  <2>2. h \in 0..(Limit(32) - 1)
    BY <1>6
  <2> QED BY <1>1, <2>1, <2>2 DEF FitsItem
<1>10. ASSUME NEW bs, NEW j \in 1..3 PROVE FitsItem(W.items[j], f[W.items[j].name], f, bs[j])
  <2>1. CASE j = 1
    BY <1>1, <1>2, <1>7, <2>1
  <2>2. CASE j = 2
    BY <1>1, <1>2, <1>8, <2>2
  <2>3. CASE j = 3
    BY <1>1, <1>2, <1>9, <2>3
  <2> QED BY <1>3, <2>1, <2>2, <2>3
<1>11. \A bs : FitsLayout(W, f, bs)
  BY <1>1, <1>2, <1>4, <1>10 DEF FitsLayout
<1>12. 1..Len(<<>>) = {}
  OBVIOUS
<1>13. Fits(W, f)
  BY <1>1, <1>5, <1>11, <1>12 DEF Fits
<1> QED BY <1>13 DEF W, f

\* What the reader of a frame takes from bytes it accepts, whatever they are.
Length(d) == Number("textbe", SubSeq(d, 2, 5))

\* A frame that is read has its type in the first byte, its payload behind
\* the length and its hash right behind the payload.
LEMMA FrameReads ==
  ASSUME NEW d \in Seq(Byte), Read(DeserializeFrame, d).ended = "read"
  PROVE  LET f == Read(DeserializeFrame, d)
             n == Length(d)
         IN  /\ n \in Nat /\ n + 37 <= Len(d)
             /\ f.at = n + 38
             /\ f.rec.type = Number("le", SubSeq(d, 1, 1))
             /\ f.rec.payload = SubSeq(d, 6, 5 + n)
             /\ f.rec.hash = Number("le", SubSeq(d, 6 + n, 37 + n))
<1> DEFINE R == DeserializeFrame
           parts == Readers3(R)
           read == ReadItems(R, d, parts)
<1>1. /\ Len(R.items) = 3 /\ R.tested /\ ~R.exact
      /\ R.items[1].kind = "le" /\ R.items[1].width = 1 /\ R.items[1].name = "type"
      /\ R.items[2].kind = "textbe" /\ R.items[2].width = 4 /\ R.items[2].name = "payload"
      /\ R.items[3].kind = "le" /\ R.items[3].width = 32 /\ R.items[3].name = "hash"
  BY FrameItems DEF Pair, ItemsAlike
<1>2. Read(R, d) = ReadLayout(R, d, parts)
  BY DEF Read
<1> HIDE DEF R, parts
<1>3. Read(R, d) = read[3] /\ read[3].ended = "read"
  <2>1. Read(R, d).ended = "read"
    BY DEF R
  <2>2. Threw.ended # "read"
    BY DEF Threw
  <2>3. ReadLayout(R, d, parts) \in {Threw, read[3]}
    BY <1>1 DEF ReadLayout
  <2> HIDE DEF read
  <2> QED BY <1>2, <2>1, <2>2, <2>3
<1>4. /\ read[0] = Got([z \in {} |-> 0], 1)
      /\ read[1] = ReadField(R, R.items[1], parts[1], d, read[0])
      /\ read[2] = ReadField(R, R.items[2], parts[2], d, read[1])
      /\ read[3] = ReadField(R, R.items[3], parts[3], d, read[2])
  <2>1. PICK n \in Nat : n = Len(R.items)
    BY <1>1
  <2>2. /\ ReadItems(R, d, parts)[0] = Got([z \in {} |-> 0], 1)
        /\ \A k \in 1..n : ReadItems(R, d, parts)[k]
                             = ReadField(R, R.items[k], parts[k], d, ReadItems(R, d, parts)[k - 1])
    BY <2>1, ReadItemsStep
  <2>3. 1 \in 1..n /\ 2 \in 1..n /\ 3 \in 1..n /\ 1 - 1 = 0 /\ 2 - 1 = 1 /\ 3 - 1 = 2
    BY <1>1, <2>1
  <2> QED BY <2>2, <2>3
<1> HIDE DEF read
<1>5. PICK D \in Nat : D = Len(d)
  OBVIOUS
<1>6. ASSUME NEW it, NEW part, NEW before, ReadField(R, it, part, d, before).ended = "read"
      PROVE  LET got1 == ReadItem(R, it, part, d, before.at, before.rec)
             IN  /\ before.ended = "read" /\ got1.ended = "read"
                 /\ ReadField(R, it, part, d, before)
                      = Got(WithField(before.rec, it.name, got1.rec), got1.at)
  BY <1>6 DEF ReadField
<1>7. Missing(R).ended # "read"
  BY MissingRefused
<1>8. read[2].ended = "read" /\ read[1].ended = "read"
  <2>1. read[2].ended = "read"
    BY <1>3, <1>4, <1>6
  <2> QED BY <1>4, <1>6, <2>1
\* The type.
<1>9. PICK a : a = Number("le", SubSeq(d, 1, 1))
  OBVIOUS
<1>10. PICK one : one = WithField([z \in {} |-> 0], "type", a) /\ read[1] = Got(one, 2)
  <2>1. read[0].at = 1 /\ read[0].rec = [z \in {} |-> 0]
    BY <1>4, GotFields
  <2>2. PICK r : r = ReadItem(R, R.items[1], parts[1], d, 1, [z \in {} |-> 0])
    OBVIOUS
  <2>3. r.ended = "read" /\ read[1] = Got(WithField([z \in {} |-> 0], "type", r.rec), r.at)
    BY <1>1, <1>4, <1>6, <1>8, <2>1, <2>2
  <2>4. 1 + 1 = 2 /\ 2 - 1 = 1
    OBVIOUS
  <2>5. ~(2 - 1 > Len(d))
    BY <1>1, <1>7, <2>2, <2>3, <2>4 DEF ReadItem
  <2>6. r = ReadBehind(R, R.items[1], parts[1], d, 2, a, [z \in {} |-> 0])
    BY <1>1, <1>9, <2>2, <2>4, <2>5 DEF ReadItem
  <2>7. r = Got(a, 2)
    BY <1>1, <2>6 DEF ReadBehind
  <2> QED BY <2>3, <2>7, GotFields
\* The payload.
<1>11. PICK n : n = Length(d)
  OBVIOUS
<1>12. PICK pay : pay = SubSeq(d, 6, 5 + n)
  OBVIOUS
<1>13. /\ n \in Nat /\ 5 + n <= D
       /\ read[2] = Got(WithField(one, "payload", pay), 6 + n)
  <2>1. read[1].at = 2 /\ read[1].rec = one
    BY <1>10, GotFields
  <2>2. PICK r : r = ReadItem(R, R.items[2], parts[2], d, 2, one)
    OBVIOUS
  <2>3. r.ended = "read" /\ read[2] = Got(WithField(one, "payload", r.rec), r.at)
    BY <1>1, <1>4, <1>6, <1>8, <2>1, <2>2
  <2>4. 2 + 4 = 6 /\ 6 - 1 = 5
    OBVIOUS
  <2>5. ~(5 > Len(d))
    BY <1>1, <1>7, <2>2, <2>3, <2>4 DEF ReadItem
  <2>6. r = ReadBehind(R, R.items[2], parts[2], d, 6, n, one)
    BY <1>1, <1>11, <2>2, <2>4, <2>5 DEF ReadItem, Length
  <2>7. n \in Nat
    <3>1. SubSeq(d, 2, 5) \in Seq(Byte)
      BY <1>5, <2>5
    <3> QED BY <1>11, <3>1, NumberType DEF Length
  <2>8. (6 + n) - 1 = 5 + n /\ (5 + n) + 1 = 6 + n
    BY <2>7
  <2>9. r = IF 5 + n > Len(d) THEN Missing(R) ELSE Got(pay, 6 + n)
    BY <1>1, <1>12, <2>6, <2>8 DEF ReadBehind
  <2>10. ~(5 + n > Len(d))
    BY <1>7, <2>3, <2>9
  <2>11. r = Got(pay, 6 + n) /\ 5 + n <= D
    BY <1>5, <2>7, <2>9, <2>10
  <2> QED BY <2>3, <2>7, <2>11, GotFields
\* The hash.
<1>14. PICK two : two = WithField(one, "payload", pay)
  OBVIOUS
<1>15. PICK h : h = Number("le", SubSeq(d, 6 + n, 37 + n))
  OBVIOUS
<1>16. n + 37 <= D /\ read[3] = Got(WithField(two, "hash", h), n + 38)
  <2>1. read[2].at = 6 + n /\ read[2].rec = two
    BY <1>13, <1>14, GotFields
  <2>2. PICK r : r = ReadItem(R, R.items[3], parts[3], d, 6 + n, two)
    OBVIOUS
  <2>3. r.ended = "read" /\ read[3] = Got(WithField(two, "hash", r.rec), r.at)
    BY <1>1, <1>3, <1>4, <1>6, <2>1, <2>2
  <2>4. (6 + n) + 32 = n + 38 /\ (n + 38) - 1 = 37 + n
    BY <1>13
  <2>5. ~(37 + n > Len(d))
    BY <1>1, <1>7, <2>2, <2>3, <2>4 DEF ReadItem
  <2>6. r = ReadBehind(R, R.items[3], parts[3], d, n + 38, h, two)
    BY <1>1, <1>15, <2>2, <2>4, <2>5 DEF ReadItem
  <2>7. r = Got(h, n + 38)
    BY <1>1, <2>6 DEF ReadBehind
  <2>8. n + 37 <= D
    BY <1>5, <1>13, <2>5
  <2> QED BY <2>3, <2>7, <2>8, GotFields
<1>17. PICK rec : rec = WithField(two, "hash", h)
  OBVIOUS
<1>18. rec.type = a /\ rec.payload = pay /\ rec.hash = h
  <2>1. DOMAIN one = {"type"} /\ one["type"] = a
    BY <1>10 DEF WithField
  <2>2. DOMAIN two = {"type", "payload"} /\ two["type"] = a /\ two["payload"] = pay
    BY <1>14, <2>1 DEF WithField
  <2>3. rec["type"] = a /\ rec["payload"] = pay /\ rec["hash"] = h
    BY <1>17, <2>2 DEF WithField
  <2> QED BY <2>3
<1>19. Read(R, d) = Got(rec, n + 38)
  BY <1>3, <1>16, <1>17
<1>20. Read(R, d).rec = rec /\ Read(R, d).at = n + 38
  BY <1>19, GotFields
<1> QED BY <1>5, <1>9, <1>11, <1>12, <1>13, <1>15, <1>16, <1>18, <1>20 DEF R

\* The bytes of a frame.
LEMMA FrameHash ==
  ASSUME NEW p \in Seq(Byte), Len(p) < Huge, NEW h \in 0..(Huge - 1), NEW k \in 0..255
  PROVE  LET b == Write(SerializeFrame, FrameOf(k, p, h))
         IN  \E o \in Nat : /\ Len(b) = o + 32
                            /\ \A i \in 1..32 : b[o + i] = BytesLE(h, 32)[i]
<1> DEFINE W == SerializeFrame
           R == DeserializeFrame
           f == FrameOf(k, p, h)
           bs == Parts3(W, f)
           parts == Readers3(R)
<1>1. Fits(W, f)
  BY FrameFits
<1>2. /\ Len(W.items) = 3
      /\ Pair(W.items[1], R.items[1], "le", 1, "type")
      /\ Pair(W.items[2], R.items[2], "textbe", 4, "payload")
      /\ Pair(W.items[3], R.items[3], "le", 32, "hash")
  BY FrameItems
<1>3. FitsLayout(W, f, bs)
  BY <1>1 DEF Fits
<1>4. f["hash"] = h
  BY DEF FrameOf
<1>5. Write(W, f) = WriteLayout(W, f, bs)
  BY DEF Write
<1> HIDE DEF W, R, f, bs, parts
<1>6. \A j \in 1..3 : FitsItem(W.items[j], f[W.items[j].name], f, bs[j])
  <2>1. \A j \in 1..Len(W.items) : FitsItem(W.items[j], f[W.items[j].name], f, bs[j])
    BY <1>3, Zenon DEF FitsLayout
  <2> QED BY <1>2, <2>1
<1> DEFINE chunks == Chunks(W, f, bs)
<1>7. \A j \in 1..3 : chunks[j] = WriteItem(W.items[j], f[W.items[j].name], bs[j])
  BY <1>2 DEF Chunks
<1>8. WriteLayout(W, f, bs) = Concat(chunks, 3)
  BY <1>2 DEF WriteLayout, Chunks
<1> HIDE DEF chunks
<1>9. ASSUME NEW j \in 1..3 PROVE chunks[j] \in Seq(Byte)
  <2>1. PICK kind, w, name : Pair(W.items[j], R.items[j], kind, w, name) /\ kind \in Plain
    BY <1>2 DEF Plain
  <2>2. ItemRight(W.items[j], R.items[j], f[W.items[j].name], f[W.items[j].name], bs[j], parts[j], TRUE)
    BY <1>6, <2>1, PlainRight
  <2>3. WriteItem(W.items[j], f[W.items[j].name], bs[j]) \in Seq(Byte)
    BY <2>2, ItemBytes
  <2> QED BY <1>7, <2>3
<1>10. chunks[3] = BytesLE(h, 32) /\ Len(chunks[3]) = 32
  <2>1. BytesLE(h, 32) \in Seq(Byte) /\ Len(BytesLE(h, 32)) = 32
    <3>1. h \in 0..(Limit(32) - 1)
      BY DEF Limit
    <3> QED BY <3>1, NumberBytes
  <2>2. W.items[3].kind = "le" /\ W.items[3].width = 32 /\ W.items[3].name = "hash"
    BY <1>2 DEF Pair
  <2>3. /\ InFront(W.items[3], h, bs[3]) = h /\ Behind(W.items[3], h, bs[3]) = <<>>
        /\ Bytes("le", h, 32) = BytesLE(h, 32)
    BY <2>2 DEF InFront, Behind, Bytes, BigEndian
  <2>4. PICK s \in Seq(Byte) : s = BytesLE(h, 32)
    BY <2>1
  <2>5. s \o <<>> = s
    OBVIOUS
  <2>6. WriteItem(W.items[3], h, bs[3]) = s
    BY <2>2, <2>3, <2>4, <2>5 DEF WriteItem
  <2> QED BY <1>4, <1>7, <2>1, <2>2, <2>4, <2>6
<1>11. PICK off : Offsets(chunks, 3, off, Concat(chunks, 3))
  <2>1. PICK n \in Nat : n = 3
    OBVIOUS
  <2> QED BY <1>9, <2>1, ConcatOffsets
<1>12. PICK b : b = Concat(chunks, 3)
  OBVIOUS
<1>13. /\ off \in [0..3 -> Nat] /\ off[3] = off[3 - 1] + Len(chunks[3]) /\ Len(b) = off[3]
       /\ \A i \in 1..Len(chunks[3]) : b[off[3 - 1] + i] = chunks[3][i]
  BY <1>11, <1>12 DEF Offsets
<1>14. PICK o \in Nat : o = off[3 - 1]
  BY <1>13
<1>15. Len(b) = o + 32 /\ \A i \in 1..32 : b[o + i] = BytesLE(h, 32)[i]
  BY <1>10, <1>13, <1>14
<1> QED BY <1>5, <1>8, <1>12, <1>15 DEF W, f

FrameRight(b, k, p, h) ==
  /\ b \in Seq(Byte) /\ Len(b) = Len(p) + 37
  /\ Read(DeserializeFrame, b) = Got(FrameOf(k, p, h), 1 + Len(b))
  /\ \A c \in 0..(Len(b) - 1) : Read(DeserializeFrame, SubSeq(b, 1, c)).ended = "threw"
  /\ Length(b) = Len(p)
  /\ Number("le", SubSeq(b, 1, 1)) = k
  /\ \A i \in 1..Len(p) : b[5 + i] = p[i]
  /\ \A i \in 1..32 : b[(5 + Len(p)) + i] = BytesLE(h, 32)[i]
  /\ Number("le", SubSeq(b, 6 + Len(p), 37 + Len(p))) = h

\* A frame is read back, no prefix of it is read, and its bytes are known.
LEMMA FrameBytes ==
  ASSUME NEW p \in Seq(Byte), Len(p) < Huge, NEW h \in 0..(Huge - 1), NEW k \in 0..255
  PROVE  FrameRight(Write(SerializeFrame, FrameOf(k, p, h)), k, p, h)
<1> DEFINE W == SerializeFrame
           R == DeserializeFrame
           f == FrameOf(k, p, h)
<1>1. PICK b : b = Write(W, f)
  OBVIOUS
<1>2. /\ b \in Seq(Byte) /\ Read(R, b) = Got(f, 1 + Len(b))
      /\ \A c \in 0..(Len(b) - 1) : Refused(Read(R, SubSeq(b, 1, c)), R)
  <2>1. Fits(W, f)
    BY FrameFits
  <2>2. Agree3(W, R)
    BY AgreeFrame, AgreeDeeper
  <2> HIDE DEF W, R, f
  <2>3. Back3(W, R, f)
    BY <2>1, <2>2, Level3
  <2>4. ReadBack(b, f, R, Read(R, b), [c \in Nat |-> Read(R, SubSeq(b, 1, c))])
    BY <1>1, <2>3 DEF Back3
  <2>5. ASSUME NEW c \in 0..(Len(b) - 1) PROVE Refused(Read(R, SubSeq(b, 1, c)), R)
    <3>1. c \in Nat
      OBVIOUS
    <3> QED BY <2>4, <3>1 DEF ReadBack
  <2> QED BY <2>4, <2>5 DEF ReadBack
<1>3. \A c \in 0..(Len(b) - 1) : Read(R, SubSeq(b, 1, c)).ended = "threw"
  <2>1. R.tested
    BY FrameItems
  <2> HIDE DEF R
  <2> QED BY <1>2, <2>1 DEF Refused
<1>4. f.type = k /\ f.payload = p /\ f.hash = h
  BY DEF FrameOf
<1>5. PICK n : n = Length(b)
  OBVIOUS
<1> HIDE DEF f
<1>6. Read(R, b).ended = "read" /\ Read(R, b).rec = f /\ Read(R, b).at = 1 + Len(b)
  BY <1>2, GotFields
<1>7. /\ n \in Nat /\ n + 37 <= Len(b) /\ 1 + Len(b) = n + 38
      /\ k = Number("le", SubSeq(b, 1, 1))
      /\ p = SubSeq(b, 6, 5 + n)
      /\ h = Number("le", SubSeq(b, 6 + n, 37 + n))
  <2>1. LET g == Read(R, b)
        IN  /\ n \in Nat /\ n + 37 <= Len(b)
            /\ g.at = n + 38
            /\ g.rec.type = Number("le", SubSeq(b, 1, 1))
            /\ g.rec.payload = SubSeq(b, 6, 5 + n)
            /\ g.rec.hash = Number("le", SubSeq(b, 6 + n, 37 + n))
    BY <1>2, <1>5, <1>6, FrameReads
  <2> QED BY <1>4, <1>6, <2>1
<1>8. Len(b) = n + 37
  BY <1>2, <1>7
<1>9. /\ Len(SubSeq(b, 6, 5 + n)) = n
      /\ \A i \in 1..n : SubSeq(b, 6, 5 + n)[i] = b[5 + i]
  <2>1. PICK a, z \in Nat \ {0} : a = 6 /\ z = 5 + n
    BY <1>7
  <2>2. a - 1 <= z /\ z <= Len(b)
    BY <1>7, <1>8, <2>1
  <2>3. /\ Len(SubSeq(b, a, z)) = (z - a) + 1
        /\ \A i \in 1..((z - a) + 1) : SubSeq(b, a, z)[i] = b[(a + i) - 1]
    BY <1>2, <2>1, <2>2
  <2>4. (z - a) + 1 = n /\ \A i \in 1..n : (a + i) - 1 = 5 + i
    BY <1>7, <2>1
  <2> QED BY <2>1, <2>3, <2>4
<1>10. Len(p) = n /\ \A i \in 1..n : b[5 + i] = p[i]
  BY <1>7, <1>9
<1>11. \A i \in 1..32 : b[(5 + n) + i] = BytesLE(h, 32)[i]
  <2>1. PICK o \in Nat : /\ Len(b) = o + 32
                         /\ \A i \in 1..32 : b[o + i] = BytesLE(h, 32)[i]
    BY <1>1, FrameHash DEF f
  <2>2. o = 5 + n
    BY <1>7, <1>8, <2>1
  <2> QED BY <2>1, <2>2
<1>12. FrameRight(b, k, p, h)
  <2>1. b \in Seq(Byte) /\ Len(b) = Len(p) + 37 /\ Length(b) = Len(p)
    BY <1>2, <1>5, <1>8, <1>10
  <2>2. /\ Read(DeserializeFrame, b) = Got(FrameOf(k, p, h), 1 + Len(b))
        /\ \A c \in 0..(Len(b) - 1) : Read(DeserializeFrame, SubSeq(b, 1, c)).ended = "threw"
    BY <1>2, <1>3 DEF f
  <2>3. /\ Number("le", SubSeq(b, 1, 1)) = k
        /\ \A i \in 1..Len(p) : b[5 + i] = p[i]
        /\ \A i \in 1..32 : b[(5 + Len(p)) + i] = BytesLE(h, 32)[i]
        /\ Number("le", SubSeq(b, 6 + Len(p), 37 + Len(p))) = h
    BY <1>7, <1>10, <1>11
  <2> QED BY <2>1, <2>2, <2>3 DEF FrameRight
<1> QED BY <1>1, <1>12 DEF f

Next256(x) == (x + 1) % 256
OneChanged(s, i) == [s EXCEPT ![i] = Next256(@)]

\* d is b, of length N, with the byte i changed.
Differs(d, b, i, N) ==
  /\ d \in Seq(Byte) /\ Len(d) = N /\ d[i] = Next256(b[i])
  /\ \A j \in 1..N : j # i => d[j] = b[j]
  /\ \A x \in Nat \ {0}, z \in Nat :
        z <= N /\ i \notin x..z => SubSeq(d, x, z) = SubSeq(b, x, z)

\* A byte string with one byte changed differs from it there only.
LEMMA ChangedBytes ==
  ASSUME NEW b \in Seq(Byte), NEW i \in 1..Len(b)
  PROVE  Differs(OneChanged(b, i), b, i, Len(b))
<1>1. Next256(b[i]) \in Byte
  <2>1. b[i] \in Byte
    OBVIOUS
  <2>2. \A y \in Byte : (y + 1) % 256 \in Byte
    BY DEF Byte
  <2> QED BY <2>1, <2>2 DEF Next256
<1>2. PICK d : d = OneChanged(b, i)
  OBVIOUS
<1>3. PICK N \in Nat : N = Len(b)
  OBVIOUS
<1>4. PICK y \in Byte : y = Next256(b[i])
  BY <1>1
<1>5. d = [b EXCEPT ![i] = y]
  BY <1>2, <1>4 DEF OneChanged
<1>6. b \in [1..N -> Byte]
  BY <1>3
<1>7. /\ d \in [1..N -> Byte] /\ d[i] = y /\ \A j \in 1..N : j # i => d[j] = b[j]
  BY <1>3, <1>5, <1>6
<1>8. d \in Seq(Byte) /\ Len(d) = N
  BY <1>7
<1>9. ASSUME NEW x \in Nat \ {0}, NEW z \in Nat, z <= N, i \notin x..z
      PROVE  SubSeq(d, x, z) = SubSeq(b, x, z)
  <2>1. ASSUME NEW j \in x..z PROVE d[j] = b[j]
    BY <1>7, <1>9, <2>1
  <2>2. SubSeq(d, x, z) = [e \in 1..((1 + z) - x) |-> d[(e + x) - 1]]
    OBVIOUS
  <2>3. SubSeq(b, x, z) = [e \in 1..((1 + z) - x) |-> b[(e + x) - 1]]
    OBVIOUS
  <2>4. \A e \in 1..((1 + z) - x) : (e + x) - 1 \in x..z
    OBVIOUS
  <2> QED BY <2>1, <2>2, <2>3, <2>4
<1> QED BY <1>2, <1>3, <1>4, <1>7, <1>8, <1>9 DEF Differs

\* A slice is known by its bytes.
LEMMA SliceFrom ==
  ASSUME NEW d \in Seq(Byte), NEW o \in Nat, NEW n \in Nat, NEW c \in Seq(Byte), Len(c) = n,
         o + n <= Len(d), \A e \in 1..n : d[o + e] = c[e],
         NEW x, x = o + 1, NEW z, z = o + n
  PROVE  SubSeq(d, x, z) = c
<1>1. x \in Nat \ {0} /\ x - 1 = o
  OBVIOUS
<1>2. Carries(d, x, c)
  BY <1>1 DEF Carries
<1>3. (x - 1) + Len(c) = z /\ (x - 1) + Len(c) <= Len(d)
  BY <1>1
<1>4. SubSeq(d, x, (x - 1) + Len(c)) = c
  BY <1>1, <1>2, <1>3, CarriedSlice
<1> QED BY <1>3, <1>4

\* The hash h of p tells p from p with a byte changed and from its prefixes.
HashTells(p, h) ==
  /\ h \in 0..(Huge - 1)
  /\ \A j \in 1..Len(p) : Blake3(OneChanged(p, j)) # h
  /\ \A n \in 0..(Len(p) - 1) :
        Blake3(SubSeq(p, 1, n)) # NumberLE(SubSeq(p \o BytesLE(h, 32), n + 1, n + 32))

\* A frame with one byte changed that is accepted holds the payload that was
\* sent, and the type too unless it is the type that was changed.
LEMMA FrameDamaged ==
  ASSUME NEW p \in Seq(Byte), NEW h, NEW k, NEW b, FrameRight(b, k, p, h),
         NEW i \in 1..Len(b),
         HashTells(p, h), NEW f, f = Read(DeserializeFrame, OneChanged(b, i)), f.ended = "read",
         f.rec.hash = Blake3(f.rec.payload)
  PROVE  f.rec.payload = p /\ (i # 1 => f.rec.type = k)
<1>1. PICK d : d = OneChanged(b, i)
  OBVIOUS
<1>2. PICK L \in Nat : L = Len(p)
  OBVIOUS
<1>3. /\ b \in Seq(Byte) /\ Len(b) = L + 37 /\ Length(b) = L
      /\ Number("le", SubSeq(b, 1, 1)) = k
      /\ \A j \in 1..L : b[5 + j] = p[j]
      /\ \A j \in 1..32 : b[(5 + L) + j] = BytesLE(h, 32)[j]
      /\ Number("le", SubSeq(b, 6 + L, 37 + L)) = h
  BY <1>2 DEF FrameRight
<1>4. /\ d \in Seq(Byte) /\ Len(d) = L + 37 /\ d[i] = Next256(b[i])
      /\ \A j \in 1..(L + 37) : j # i => d[j] = b[j]
      /\ \A x \in Nat \ {0}, z \in Nat : z <= L + 37 /\ i \notin x..z =>
            SubSeq(d, x, z) = SubSeq(b, x, z)
  <2>1. Differs(d, b, i, L + 37)
    BY <1>1, <1>3, ChangedBytes
  <2> QED BY <2>1 DEF Differs
<1>5. PICK n : n = Length(d)
  OBVIOUS
<1>6. /\ n \in Nat /\ n + 37 <= L + 37
      /\ f.rec.type = Number("le", SubSeq(d, 1, 1))
      /\ f.rec.payload = SubSeq(d, 6, 5 + n)
      /\ f.rec.hash = Number("le", SubSeq(d, 6 + n, 37 + n))
  BY <1>1, <1>4, <1>5, FrameReads
<1>7. n <= L /\ i \in 1..(L + 37)
  BY <1>2, <1>3, <1>6
<1>8. ASSUME i # 1 PROVE f.rec.type = k
  <2>1. i \notin 1..1 /\ 1 <= L + 37 /\ 1 \in Nat \ {0} /\ 1 \in Nat
    BY <1>8
  <2>2. SubSeq(d, 1, 1) = SubSeq(b, 1, 1)
    BY <1>4, <2>1
  <2> QED BY <1>3, <1>6, <2>2
<1>9. SubSeq(b, 6, 5 + L) = p
  <2>0. b \in Seq(Byte) /\ Len(b) = L + 37 /\ p \in Seq(Byte) /\ Len(p) = L
    BY <1>2, <1>3
  <2>1. PICK o \in Nat : o = 5
    OBVIOUS
  <2>2. o + L <= Len(b) /\ 6 = o + 1 /\ 5 + L = o + L
    BY <2>0, <2>1
  <2>3. \A e \in 1..L : b[o + e] = p[e]
    BY <1>3, <2>1
  <2>4. PICK x, z \in Nat : x = o + 1 /\ z = o + L
    OBVIOUS
  <2>5. SubSeq(b, x, z) = p
    BY <2>0, <2>2, <2>3, <2>4, SliceFrom
  <2>6. x = 6 /\ z = 5 + L
    BY <2>2, <2>4
  <2> QED BY <2>5, <2>6
<1>10. ASSUME n = L, i \notin 6..(5 + L) PROVE f.rec.payload = p
  <2>1. 6 \in Nat \ {0} /\ 5 + L \in Nat /\ 5 + L <= L + 37
    OBVIOUS
  <2>2. SubSeq(d, 6, 5 + L) = SubSeq(b, 6, 5 + L)
    BY <1>4, <1>10, <2>1
  <2> QED BY <1>6, <1>9, <1>10, <2>2
<1>11. i \notin 2..5 => n = L
  <2>1. 2 \in Nat \ {0} /\ 5 \in Nat /\ 5 <= L + 37
    OBVIOUS
  <2>2. i \notin 2..5 => SubSeq(d, 2, 5) = SubSeq(b, 2, 5)
    BY <1>4, <2>1
  <2> QED BY <1>3, <1>5, <2>2 DEF Length
<1>12. ASSUME i \in 6..(5 + L) PROVE FALSE
  <2>1. n = L
    <3>1. i \notin 2..5
      BY <1>12
    <3> QED BY <1>11, <3>1
  <2>2. PICK j \in 1..L : i = 5 + j
    <3>1. i - 5 \in 1..L /\ i = 5 + (i - 5)
      BY <1>12
    <3> QED BY <3>1
  <2>3. SubSeq(d, 6, 5 + L) = OneChanged(p, j)
    <3>3. DOMAIN p = 1..L
      BY <1>2
    <3>4. OneChanged(p, j) = [e \in 1..L |-> IF e = j THEN Next256(p[j]) ELSE p[e]]
      BY <3>3 DEF OneChanged
    <3>5. ASSUME NEW e \in 1..L
          PROVE  d[5 + e] = IF e = j THEN Next256(p[j]) ELSE p[e]
      <4>0. 5 + e \in 1..(L + 37)
        OBVIOUS
      <4>1. 5 + e \in 1..(L + 37) /\ b[5 + e] = p[e]
        BY <1>3, <4>0
      <4>2. CASE e = j
        BY <1>4, <2>2, <4>1, <4>2
      <4>3. CASE e # j
        <5>1. 5 + e # i
          BY <2>2, <4>3
        <5> QED BY <1>4, <4>1, <4>3, <5>1
      <4> QED BY <4>2, <4>3
    <3>6. OneChanged(p, j) \in Seq(Byte) /\ Len(OneChanged(p, j)) = L
      <4>1. Differs(OneChanged(p, j), p, j, L)
        BY <1>2, ChangedBytes
      <4> QED BY <4>1 DEF Differs
    <3>7. \A e \in 1..L : d[5 + e] = OneChanged(p, j)[e]
      BY <3>4, <3>5
    <3>8. PICK o \in Nat : o = 5
      OBVIOUS
    <3>9. o + L <= Len(d) /\ 6 = o + 1 /\ 5 + L = o + L
      BY <1>4, <3>8
    <3>10. \A e \in 1..L : d[o + e] = OneChanged(p, j)[e]
      BY <3>7, <3>8
    <3> QED BY <1>4, <3>6, <3>9, <3>10, SliceFrom
  <2>4. SubSeq(d, 6 + L, 37 + L) = SubSeq(b, 6 + L, 37 + L)
    <3>1. i \notin (6 + L)..(37 + L) /\ 6 + L \in Nat \ {0} /\ 37 + L \in Nat /\ 37 + L <= L + 37
      BY <1>12
    <3> QED BY <1>4, <3>1
  <2>5. f.rec.hash = h
    BY <1>3, <1>6, <2>1, <2>4
  <2>6. Blake3(OneChanged(p, j)) = h
    BY <1>6, <2>1, <2>3, <2>5
  <2>7. j \in 1..Len(p)
    BY <1>2, <2>2
  <2> QED BY <2>6, <2>7 DEF HashTells
<1>13. ASSUME i \in 2..5, n < L PROVE FALSE
  <2>1. PICK c \in Seq(Byte) : c = BytesLE(h, 32) /\ Len(c) = 32
    <3>1. h \in 0..(Limit(32) - 1)
      BY DEF Limit, HashTells
    <3> QED BY <3>1, NumberBytes
  <2>2. PICK q : q = p \o c
    OBVIOUS
  <2>3. /\ Len(q) = L + 32 /\ \A j \in 1..L : q[j] = p[j]
        /\ \A j \in 1..32 : q[L + j] = c[j]
    <3>1. /\ Len(p \o c) = Len(p) + Len(c) /\ \A j \in 1..Len(p) : (p \o c)[j] = p[j]
          /\ \A j \in 1..Len(c) : (p \o c)[Len(p) + j] = c[j]
      BY JoinTwo
    <3> QED BY <1>2, <2>1, <2>2, <3>1
  <2>4. ASSUME NEW j \in 1..(L + 32) PROVE d[5 + j] = q[j]
    <3>1. 5 + j \in 1..(L + 37) /\ 5 + j # i
      BY <1>13
    <3>2. d[5 + j] = b[5 + j]
      BY <1>4, <3>1
    <3>3. CASE j \in 1..L
      BY <1>3, <2>3, <3>2, <3>3
    <3>4. CASE j \notin 1..L
      <4>1. PICK e \in 1..32 : j = L + e
        <5>1. j - L \in 1..32 /\ j = L + (j - L)
          BY <3>4
        <5> QED BY <5>1
      <4>2. 5 + j = (5 + L) + e
        BY <4>1
      <4>3. b[5 + j] = c[e] /\ q[j] = c[e]
        BY <1>3, <2>1, <2>3, <4>1, <4>2
      <4> QED BY <3>2, <4>3
    <3> QED BY <3>3, <3>4
  <2>5. SubSeq(d, 6, 5 + n) = SubSeq(p, 1, n)
    <3>1. PICK s : s = SubSeq(p, 1, n)
      OBVIOUS
    <3>2. /\ 1 \in Nat \ {0} /\ n \in Int /\ 1 - 1 <= n /\ n <= Len(p) /\ (n - 1) + 1 = n
          /\ \A e \in 1..n : (1 - 1) + e = e
      BY <1>2, <1>6, <1>7
    <3>3. s \in Seq(Byte) /\ Len(s) = n /\ \A e \in 1..n : s[e] = p[e]
      <4>1. /\ s \in Seq(Byte) /\ Len(s) = (n - 1) + 1
            /\ \A e \in 1..((n - 1) + 1) : s[e] = p[(1 - 1) + e]
        BY <3>1, <3>2, SliceOf
      <4> QED BY <3>2, <4>1
    <3>4. \A e \in 1..n : e \in 1..(L + 32) /\ e \in 1..L
      BY <1>6, <1>13
    <3>5. \A e \in 1..n : d[5 + e] = s[e]
      BY <2>3, <2>4, <3>3, <3>4
    <3>6. PICK o \in Nat : o = 5
      OBVIOUS
    <3>7. o + n <= Len(d) /\ 6 = o + 1 /\ 5 + n = o + n
      BY <1>4, <1>6, <1>7, <3>6
    <3>8. \A e \in 1..n : d[o + e] = s[e]
      BY <3>5, <3>6
    <3> QED BY <1>4, <1>6, <3>1, <3>3, <3>7, <3>8, SliceFrom
  <2>6. SubSeq(d, 6 + n, 37 + n) = SubSeq(q, n + 1, n + 32)
    <3>1. PICK s : s = SubSeq(q, n + 1, n + 32)
      OBVIOUS
    <3>2. PICK x, z \in Nat : x = n + 1 /\ z = n + 32
      BY <1>6
    <3>3. /\ x \in Nat \ {0} /\ z \in Int /\ x - 1 <= z /\ z <= Len(q) /\ (z - x) + 1 = 32
          /\ x - 1 = n
      BY <1>6, <1>7, <2>3, <3>2
    <3>4. q \in Seq(Byte)
      BY <2>2, JoinTwo
    <3>5. s \in Seq(Byte) /\ Len(s) = 32 /\ \A e \in 1..32 : s[e] = q[n + e]
      <4>1. /\ s \in Seq(Byte) /\ Len(s) = (z - x) + 1
            /\ \A e \in 1..((z - x) + 1) : s[e] = q[(x - 1) + e]
        BY <3>1, <3>2, <3>3, <3>4, SliceOf
      <4> QED BY <3>3, <4>1
    <3>6. PICK o \in Nat : o = 5 + n
      BY <1>6
    <3>7. \A e \in 1..32 : n + e \in 1..(L + 32) /\ o + e = 5 + (n + e)
      BY <1>6, <1>7, <3>6
    <3>8. \A e \in 1..32 : d[o + e] = s[e]
      BY <2>4, <3>5, <3>7
    <3>9. PICK l \in Nat : l = 32
      OBVIOUS
    <3>10. d \in Seq(Byte) /\ Len(d) = L + 37 /\ Len(s) = l /\ \A e \in 1..l : d[o + e] = s[e]
      BY <1>4, <3>5, <3>8, <3>9
    <3>11. PICK u, y \in Nat : u = o + 1 /\ y = o + l
      OBVIOUS
    <3>12. o + l <= Len(d) /\ u = 6 + n /\ y = 37 + n
      <4>1. n \in Nat /\ n <= L
        BY <1>6, <1>7
      <4>2. o + l <= L + 37 /\ u = 6 + n /\ y = 37 + n
        BY <3>6, <3>9, <3>11, <4>1
      <4> QED BY <3>10, <4>2
    <3>13. SubSeq(d, u, y) = s
      <4>1. s \in Seq(Byte) /\ o + l <= Len(d)
        BY <3>5, <3>12
      <4> QED BY <3>10, <3>11, <4>1, SliceFrom
    <3> QED BY <3>1, <3>12, <3>13
  <2>7. Blake3(SubSeq(p, 1, n)) = NumberLE(SubSeq(q, n + 1, n + 32))
    <3>1. \A s : Number("le", s) = NumberLE(s)
      BY DEF Number, BigEndian
    <3> QED BY <1>6, <2>5, <2>6, <3>1
  <2>8. n \in 0..(Len(p) - 1)
    BY <1>2, <1>6, <1>13
  <2> QED BY <2>1, <2>2, <2>7, <2>8 DEF HashTells
<1>14. CASE i \in 2..5
  <2>1. n = L
    BY <1>6, <1>7, <1>13, <1>14
  <2>2. i \notin 6..(5 + L)
    BY <1>14
  <2> QED BY <1>8, <1>10, <2>1, <2>2
<1>15. CASE i \notin 2..5
  BY <1>8, <1>10, <1>11, <1>12, <1>15
<1> QED BY <1>14, <1>15

\* The reader of an integer or a text that tests for the end never runs past it.
LEMMA FieldEnds ==
  ASSUME NEW R, R.tested, NEW it, it.kind \in {"le", "textbe"}, NEW part, NEW d, NEW before,
         before.ended \in {"read", "threw"}
  PROVE  ReadField(R, it, part, d, before).ended \in {"read", "threw"}
<1>1. Missing(R).ended = "threw"
  BY DEF Missing, Threw
<1>2. \A v, at : Got(v, at).ended = "read"
  BY GotFields
<1>3. ASSUME NEW end, NEW num, NEW rec
      PROVE  ReadBehind(R, it, part, d, end, num, rec).ended \in {"read", "threw"}
  <2>1. CASE it.kind = "le"
    <3>1. ReadBehind(R, it, part, d, end, num, rec) = Got(num, end)
      BY <2>1 DEF ReadBehind
    <3> QED BY <1>2, <3>1
  <2>2. CASE it.kind = "textbe"
    <3>1. PICK last : last = (end + num) - 1
      OBVIOUS
    <3>2. ReadBehind(R, it, part, d, end, num, rec)
            = IF last > Len(d) THEN Missing(R) ELSE Got(SubSeq(d, end, last), last + 1)
      BY <2>2, <3>1 DEF ReadBehind
    <3> QED BY <1>1, <1>2, <3>2
  <2> QED BY <2>1, <2>2
<1>4. ASSUME NEW at, NEW rec
      PROVE  ReadItem(R, it, part, d, at, rec).ended \in {"read", "threw"}
  <2>1. PICK end, num : end = at + it.width /\ num = Number(it.kind, SubSeq(d, at, end - 1))
    OBVIOUS
  <2>2. ReadItem(R, it, part, d, at, rec)
          = IF end - 1 > Len(d) THEN Missing(R) ELSE ReadBehind(R, it, part, d, end, num, rec)
    BY <2>1 DEF ReadItem
  <2> QED BY <1>1, <1>3, <2>2
<1>5. PICK r : r = ReadItem(R, it, part, d, before.at, before.rec)
  OBVIOUS
<1>6. r.ended \in {"read", "threw"}
  BY <1>4, <1>5
<1>7. ReadField(R, it, part, d, before)
        = IF before.ended # "read" THEN before
          ELSE IF r.ended # "read" THEN r
          ELSE Got(WithField(before.rec, it.name, r.rec), r.at)
  BY <1>5 DEF ReadField
<1> QED BY <1>2, <1>6, <1>7

\* The reader of a frame ends with a frame or with an exception.
LEMMA FrameEnds ==
  ASSUME NEW d
  PROVE  Read(DeserializeFrame, d).ended \in {"read", "threw"}
<1> DEFINE R == DeserializeFrame
           parts == Readers3(R)
           read == ReadItems(R, d, parts)
<1>1. /\ Len(R.items) = 3 /\ R.tested
      /\ R.items[1].kind = "le" /\ R.items[2].kind = "textbe" /\ R.items[3].kind = "le"
  BY FrameItems DEF Pair, ItemsAlike
<1>2. Read(R, d) = ReadLayout(R, d, parts)
  BY DEF Read
<1> HIDE DEF R, parts
<1>3. Read(R, d) \in {Threw, read[3]}
  BY <1>1, <1>2 DEF ReadLayout
<1>4. /\ read[0] = Got([z \in {} |-> 0], 1)
      /\ read[1] = ReadField(R, R.items[1], parts[1], d, read[0])
      /\ read[2] = ReadField(R, R.items[2], parts[2], d, read[1])
      /\ read[3] = ReadField(R, R.items[3], parts[3], d, read[2])
  <2>1. PICK n \in Nat : n = Len(R.items)
    BY <1>1
  <2>2. /\ ReadItems(R, d, parts)[0] = Got([z \in {} |-> 0], 1)
        /\ \A k \in 1..n : ReadItems(R, d, parts)[k]
                             = ReadField(R, R.items[k], parts[k], d, ReadItems(R, d, parts)[k - 1])
    BY <2>1, ReadItemsStep
  <2>3. 1 \in 1..n /\ 2 \in 1..n /\ 3 \in 1..n /\ 1 - 1 = 0 /\ 2 - 1 = 1 /\ 3 - 1 = 2
    BY <1>1, <2>1
  <2> QED BY <2>2, <2>3
<1> HIDE DEF read
<1>5. read[0].ended \in {"read", "threw"}
  BY <1>4, GotFields
<1>6. read[1].ended \in {"read", "threw"}
  BY <1>1, <1>4, <1>5, FieldEnds
<1>7. read[2].ended \in {"read", "threw"}
  BY <1>1, <1>4, <1>6, FieldEnds
<1>8. read[3].ended \in {"read", "threw"}
  BY <1>1, <1>4, <1>7, FieldEnds
<1> QED BY <1>3, <1>8 DEF R, Threw

-----------------------------------------------------------------------------
(* The messages *)

\* The bytes of the fields f of a message of type t when they leave the sender.
Sent(t, f) ==
  IF IsFramed(t)
  THEN Write(SerializeFrame, NetworkMessage(Code(t), Write(Writers[t], f)))
  ELSE Write(Writers[t], f)

SentRight(t, f) ==
  LET p == Write(Writers[t], f)
  IN  /\ TypeRight(t, Writers[t], Readers[t], f)
      /\ p \in Seq(Byte)
      /\ Sent(t, f) \in Seq(Byte)
      /\ IsFramed(t) => /\ FrameRight(Sent(t, f), Code(t), p, Blake3(p))
                        /\ HashTells(p, Blake3(p))
                        /\ Code(t) + 1 \in DOMAIN NetworkTypes
                        /\ NetworkTypes[Code(t) + 1] = t

\* The code of a network type stands for the type.
LEMMA CodeOf ==
  ASSUME NEW t, IsFramed(t)
  PROVE  /\ Code(t) \in 0..255 /\ Code(t) + 1 \in DOMAIN NetworkTypes
         /\ NetworkTypes[Code(t) + 1] = t
<1>1. DOMAIN NetworkTypes = 1..6
  BY DEF NetworkTypes
<1>2. PICK c : c = CHOOSE k \in DOMAIN NetworkTypes : NetworkTypes[k] = t
  OBVIOUS
<1>3. c \in DOMAIN NetworkTypes /\ NetworkTypes[c] = t
  BY <1>2 DEF IsFramed
<1>4. Code(t) = c - 1
  BY <1>2 DEF Code
<1>5. c - 1 \in 0..255 /\ (c - 1) + 1 = c
  BY <1>1, <1>3
<1> QED BY <1>3, <1>4, <1>5

\* Every message that is sent is right: its payload is read back, and so is
\* its frame.
LEMMA MessageSent ==
  ASSUME NEW m \in Messages
  PROVE  SentRight(m.type, m.fields)
<1>1. PICK t, f : t = m.type /\ f = m.fields
  OBVIOUS
<1>2. t \in DOMAIN Writers /\ Fits(Writers[t], f) /\ (IsFramed(t) => Len(PayloadOf(m)) < Huge)
  BY <1>1, MessagesAssumption
<1>3. PICK p : p = Write(Writers[t], f)
  OBVIOUS
<1>4. p = PayloadOf(m)
  BY <1>1, <1>3 DEF PayloadOf
<1>5. TypeRight(t, Writers[t], Readers[t], f)
  BY <1>2, TypeRead
<1>6. p \in Seq(Byte)
  BY <1>3, <1>5 DEF TypeRight
<1>7. CASE ~IsFramed(t)
  <2>1. Sent(t, f) = p
    BY <1>3, <1>7 DEF Sent
  <2> QED BY <1>1, <1>3, <1>5, <1>6, <1>7, <2>1 DEF SentRight
<1>8. CASE IsFramed(t)
  <2>1. /\ Blake3(p) \in 0..(Huge - 1)
        /\ \A i \in 1..Len(p) : Blake3([p EXCEPT ![i] = (@ + 1) % 256]) # Blake3(p)
        /\ \A n \in 0..(Len(p) - 1) :
              Blake3(SubSeq(p, 1, n))
                # NumberLE(SubSeq(p \o BytesLE(Blake3(p), 32), n + 1, n + 32))
    BY <1>1, <1>4, <1>8, HashAssumption
  <2>2. PICK h : h = Blake3(p)
    OBVIOUS
  <2>3. HashTells(p, h)
    BY <2>1, <2>2 DEF HashTells, OneChanged, Next256
  <2>4. /\ Code(t) \in 0..255 /\ Code(t) + 1 \in DOMAIN NetworkTypes
        /\ NetworkTypes[Code(t) + 1] = t
    BY <1>8, CodeOf
  <2>5. Sent(t, f) = Write(SerializeFrame, FrameOf(Code(t), p, h))
    BY <1>3, <1>8, <2>2 DEF Sent, NetworkMessage, FrameOf
  <2>6. h \in 0..(Huge - 1) /\ Len(p) < Huge
    BY <1>2, <1>4, <1>8, <2>1, <2>2
  <2>7. FrameRight(Sent(t, f), Code(t), p, h)
    BY <1>6, <2>4, <2>5, <2>6, FrameBytes
  <2>8. Sent(t, f) \in Seq(Byte)
    BY <2>7 DEF FrameRight
  <2> QED BY <1>1, <1>3, <1>5, <1>6, <2>2, <2>3, <2>4, <2>7, <2>8 DEF SentRight
<1> QED BY <1>7, <1>8

-----------------------------------------------------------------------------
(* The specification *)

\* The bytes on the way: those that were sent, a prefix of them, or, of a
\* frame, all of them with one byte changed.
OnTheWay(t, f, d, c) ==
  \/ c = "no" /\ d = Sent(t, f)
  \/ c = "cut" /\ \E n \in 0..(Len(Sent(t, f)) - 1) : d = SubSeq(Sent(t, f), 1, n)
  \/ /\ IsFramed(t)
     /\ \E i \in 1..Len(Sent(t, f)) : /\ d = OneChanged(Sent(t, f), i)
                                      /\ c = IF i = 1 THEN "type" ELSE "byte"

\* The inductive invariant: a message is on its way, and the three properties.
WInv ==
  /\ \E m \in Messages : type = m.type /\ message = m.fields
  /\ OnTheWay(type, message, data, changed)
  /\ RoundTrip /\ NoPrefixMisread /\ FrameProtectsPayload

\* So is the one on its way.
LEMMA SentOf ==
  ASSUME \E m \in Messages : type = m.type /\ message = m.fields
  PROVE  SentRight(type, message)
<1>1. PICK m \in Messages : type = m.type /\ message = m.fields
  OBVIOUS
<1>2. SentRight(m.type, m.fields)
  BY MessageSent
<1> QED BY <1>1, <1>2

\* What the receiver of a frame makes of one that was accepted with the type
\* and the payload that were sent.
LEMMA HandledRight ==
  ASSUME SentRight(type, message), IsFramed(type),
         NEW r, r.type = Code(type), r.payload = Payload
  PROVE  LET h == HandleMessage(r)
         IN  /\ (h.ended = "read" /\ h.rec = AsRead) \/ (h = Ignored /\ type \notin registered)
             /\ h # Penalized
<1>1. Code(type) + 1 \in DOMAIN NetworkTypes /\ NetworkTypes[Code(type) + 1] = type
  BY DEF SentRight
<1>2. Read(Readers[type], Payload) = Got(AsReadOf(type, message), 1 + Len(Payload))
  BY DEF SentRight, TypeRight, Payload
<1>3. PICK g : g = Read(Readers[type], Payload)
  OBVIOUS
<1>4. g.ended = "read" /\ g.rec = AsReadOf(type, message)
  BY <1>2, <1>3, GotFields
<1>5. AsRead = AsReadOf(type, message)
  BY DEF AsRead, AsReadOf, Unsigned
<1>6. HandleMessage(r) = IF type \notin registered THEN Ignored
                         ELSE IF g.ended = "threw" THEN Penalized ELSE g
  BY <1>1, <1>3 DEF HandleMessage, Decoded
<1>7. Ignored.ended = "ignored" /\ Penalized.ended = "penalized"
  BY DEF Ignored, Penalized
<1> QED BY <1>4, <1>5, <1>6, <1>7

\* A frame that was cut is not accepted.
LEMMA CutFrame ==
  ASSUME SentRight(type, message), IsFramed(type), OnTheWay(type, message, data, "cut")
  PROVE  AcceptFrame(data).ended = "threw"
<1>1. PICK b : b = Sent(type, message)
  OBVIOUS
<1>2. PICK n \in 0..(Len(b) - 1) : data = SubSeq(b, 1, n)
  BY <1>1 DEF OnTheWay
<1>3. PICK p, h, k : FrameRight(b, k, p, h)
  BY <1>1 DEF SentRight
<1>4. Read(DeserializeFrame, data).ended = "threw"
  BY <1>2, <1>3 DEF FrameRight
<1> QED BY <1>4 DEF AcceptFrame, HashChecked

\* What ReceiveFrame leaves behind.
LEMMA FrameReceived ==
  ASSUME WInv, ReceiveFrame
  PROVE  RoundTrip' /\ NoPrefixMisread' /\ FrameProtectsPayload'
<1>1. /\ IsFramed(type)
      /\ type' = type /\ message' = message /\ data' = data /\ changed' = changed
      /\ registered' = registered
  BY DEF ReceiveFrame
<1>2. SentRight(type, message) /\ OnTheWay(type, message, data, changed)
  BY SentOf DEF WInv
<1>3. FrameProtectsPayload
  BY DEF WInv
<1>4. PICK f : f = AcceptFrame(data)
  OBVIOUS
<1>5. /\ f.ended = "read" => got' = HandleMessage(f.rec) /\ framed' = f.rec.payload
      /\ f.ended # "read" => got' = f /\ framed' = framed
  BY <1>4 DEF ReceiveFrame, Dispatch
<1>6. Payload' = Payload /\ AsRead' = AsRead
  BY <1>1 DEF Payload, AsRead
<1>7. PICK g : g = Read(DeserializeFrame, data)
  OBVIOUS
<1>8. f = IF g.ended = "read" /\ g.rec.hash # Blake3(g.rec.payload) THEN Threw ELSE g
  BY <1>4, <1>7 DEF AcceptFrame, HashChecked
<1>9. Threw.ended = "threw" /\ Penalized.ended = "penalized"
  BY DEF Threw, Penalized
<1>10. PICK b : b = Sent(type, message)
  OBVIOUS
<1>11. PICK p, h, k : p = Payload /\ h = Blake3(p) /\ k = Code(type)
  OBVIOUS
<1>12. p \in Seq(Byte) /\ FrameRight(b, k, p, h) /\ HashTells(p, h)
  BY <1>1, <1>2, <1>10, <1>11 DEF SentRight, Payload
<1>13. CASE changed = "no"
  <2>1. data = b
    <3>1. ASSUME NEW i PROVE (IF i = 1 THEN "type" ELSE "byte") # "no"
      OBVIOUS
    <3> QED BY <1>2, <1>10, <1>13, <3>1 DEF OnTheWay
  <2>2. g = Got(FrameOf(k, p, h), 1 + Len(b))
    BY <1>7, <1>12, <2>1 DEF FrameRight
  <2>3. g.ended = "read" /\ g.rec = FrameOf(k, p, h)
    BY <2>2, GotFields
  <2>4. g.rec.type = k /\ g.rec.payload = p /\ g.rec.hash = h
    BY <2>3 DEF FrameOf
  <2>5. f = g
    BY <1>8, <1>11, <2>4
  <2>6. got' = HandleMessage(f.rec) /\ framed' = p
    BY <1>5, <2>3, <2>4, <2>5
  <2>7. /\ \/ got'.ended = "read" /\ got'.rec = AsRead
           \/ got' = Ignored /\ type \notin registered
        /\ got' # Penalized
    BY <1>1, <1>2, <1>11, <2>4, <2>5, <2>6, HandledRight
  <2>8. RoundTrip'
    BY <1>1, <1>6, <2>7 DEF RoundTrip, Ignored
  <2>9. NoPrefixMisread'
    BY <1>1, <1>13 DEF NoPrefixMisread
  <2>10. FrameProtectsPayload'
    BY <1>6, <1>11, <2>6, <2>7 DEF FrameProtectsPayload, Penalized
  <2> QED BY <2>8, <2>9, <2>10
<1>14. CASE changed = "cut"
  <2>1. f.ended = "threw"
    BY <1>1, <1>2, <1>4, <1>14, CutFrame
  <2>2. got' = f /\ framed' = framed
    BY <1>5, <2>1
  <2>3. RoundTrip'
    BY <1>1, <1>14 DEF RoundTrip
  <2>4. NoPrefixMisread'
    BY <2>1, <2>2 DEF NoPrefixMisread
  <2>5. got' # Penalized
    BY <1>9, <2>1, <2>2
  <2>6. FrameProtectsPayload'
    BY <1>3, <1>6, <2>2, <2>5 DEF FrameProtectsPayload, Penalized
  <2> QED BY <2>3, <2>4, <2>6
<1>15. CASE changed # "no" /\ changed # "cut"
  <2>1. PICK i \in 1..Len(b) : data = OneChanged(b, i) /\ changed = IF i = 1 THEN "type" ELSE "byte"
    BY <1>2, <1>10, <1>15 DEF OnTheWay
  <2>2. RoundTrip' /\ NoPrefixMisread'
    BY <1>1, <1>15 DEF RoundTrip, NoPrefixMisread
  <2>3. CASE f.ended = "read"
    <3>1. g.ended = "read" /\ g.rec.hash = Blake3(g.rec.payload) /\ f = g
      BY <1>8, <1>9, <2>3
    <3>2. g.rec.payload = p /\ (i # 1 => g.rec.type = k)
      BY <1>7, <1>12, <2>1, <3>1, FrameDamaged
    <3>3. framed' = p /\ got' = HandleMessage(g.rec)
      BY <1>5, <2>3, <3>1, <3>2
    <3>4. i # 1 => got' # Penalized
      BY <1>1, <1>2, <1>11, <3>2, <3>3, HandledRight
    <3>5. i = 1 => changed' = "type"
      BY <1>1, <2>1
    <3>6. FrameProtectsPayload'
      BY <1>6, <1>11, <3>3, <3>4, <3>5 DEF FrameProtectsPayload, Penalized
    <3> QED BY <2>2, <3>6
  <2>4. CASE f.ended # "read"
    <3>1. g.ended \in {"read", "threw"}
      BY <1>7, FrameEnds
    <3>2. f.ended = "threw"
      BY <1>8, <1>9, <2>4, <3>1
    <3>3. got' # Penalized /\ framed' = framed
      BY <1>5, <1>9, <3>2
    <3>4. FrameProtectsPayload'
      BY <1>3, <1>6, <3>3 DEF FrameProtectsPayload, Penalized
    <3> QED BY <2>2, <3>4
  <2> QED BY <2>3, <2>4
<1> QED BY <1>13, <1>14, <1>15

\* What ReadData leaves behind.
LEMMA DataRead ==
  ASSUME WInv, ReadData
  PROVE  RoundTrip' /\ NoPrefixMisread' /\ FrameProtectsPayload'
<1>1. /\ ~IsFramed(type)
      /\ type' = type /\ message' = message /\ data' = data /\ changed' = changed
      /\ registered' = registered /\ framed' = framed
      /\ got' = Read(Readers[type], data)
  BY DEF ReadData
<1>2. SentRight(type, message) /\ OnTheWay(type, message, data, changed)
  BY SentOf DEF WInv
<1>3. FrameProtectsPayload
  BY DEF WInv
<1>4. PICK b : b = Write(Writers[type], message)
  OBVIOUS
<1>5. Sent(type, message) = b
  BY <1>1, <1>4 DEF Sent
<1>6. /\ Read(Readers[type], b) = Got(AsReadOf(type, message), 1 + Len(b))
      /\ \A c \in 0..(Len(b) - 1) : CutRight(type, message, Read(Readers[type], SubSeq(b, 1, c)))
  BY <1>2, <1>4 DEF SentRight, TypeRight
<1>7. Payload' = Payload /\ AsRead' = AsRead
  BY <1>1 DEF Payload, AsRead
<1>8. AsRead = AsReadOf(type, message)
  BY DEF AsRead, AsReadOf, Unsigned
<1>9. Penalized.ended = "penalized"
  BY DEF Penalized
<1>10. CASE changed = "no" /\ data = b
  <2>1. got'.ended = "read" /\ got'.rec = AsRead
    BY <1>1, <1>6, <1>8, <1>10, GotFields
  <2>2. RoundTrip'
    BY <1>7, <2>1 DEF RoundTrip
  <2>3. NoPrefixMisread'
    BY <1>1, <1>10 DEF NoPrefixMisread
  <2>4. got' # Penalized
    BY <1>9, <2>1
  <2>5. FrameProtectsPayload'
    BY <1>1, <1>3, <1>7, <2>4 DEF FrameProtectsPayload, Penalized
  <2> QED BY <2>2, <2>3, <2>5
<1>11. CASE changed = "cut" /\ \E n \in 0..(Len(b) - 1) : data = SubSeq(b, 1, n)
  <2>1. CutRight(type, message, got')
    BY <1>1, <1>6, <1>11
  <2>2. RoundTrip'
    BY <1>1, <1>11 DEF RoundTrip
  <2>3. NoPrefixMisread'
    BY <1>1, <2>1 DEF NoPrefixMisread, CutRight, Unvested
  <2>4. got' # Penalized
    BY <1>9, <2>1 DEF CutRight
  <2>5. FrameProtectsPayload'
    BY <1>1, <1>3, <1>7, <2>4 DEF FrameProtectsPayload, Penalized
  <2> QED BY <2>2, <2>3, <2>5
<1> QED BY <1>1, <1>2, <1>5, <1>10, <1>11 DEF OnTheWay

\* The invariant holds when the message leaves its sender.
LEMMA WireStart == WireInit => WInv
<1> SUFFICES ASSUME WireInit PROVE WInv
  OBVIOUS
<1>1. (\E m \in Messages : type = m.type /\ message = m.fields)
      /\ changed = "no" /\ got = NotYet /\ framed = <<>>
  BY DEF WireInit
<1>2. data = Sent(type, message)
  BY DEF WireInit, Sent, Payload
<1>3. OnTheWay(type, message, data, changed)
  BY <1>1, <1>2 DEF OnTheWay
<1>4. NotYet # Penalized
  BY DEF NotYet, Penalized
<1>5. RoundTrip /\ NoPrefixMisread /\ FrameProtectsPayload
  BY <1>1, <1>4 DEF RoundTrip, NoPrefixMisread, FrameProtectsPayload
<1> QED BY <1>1, <1>3, <1>5 DEF WInv

\* A step that leaves what was sent, and what was made of it, alone keeps the
\* properties: as long as nothing was made of the bytes they hold.
LEMMA NothingReceived ==
  ASSUME WInv, UNCHANGED <<type, message, registered, got, framed>>, got = NotYet
  PROVE  RoundTrip' /\ NoPrefixMisread' /\ FrameProtectsPayload'
<1>1. FrameProtectsPayload
  BY DEF WInv
<1>2. NotYet # Penalized
  BY DEF NotYet, Penalized
<1>3. Payload' = Payload
  BY DEF Payload
<1>4. RoundTrip' /\ NoPrefixMisread'
  BY DEF RoundTrip, NoPrefixMisread, NotYet
<1> QED BY <1>1, <1>2, <1>3, <1>4 DEF FrameProtectsPayload, Penalized, NotYet

\* Every step keeps the invariant.
LEMMA WireStep == WInv /\ [WireNext]_wireVars => WInv'
<1> SUFFICES ASSUME WInv, [WireNext]_wireVars PROVE WInv'
  OBVIOUS
<1>1. /\ \E m \in Messages : type = m.type /\ message = m.fields
      /\ OnTheWay(type, message, data, changed)
      /\ RoundTrip /\ NoPrefixMisread /\ FrameProtectsPayload
  BY DEF WInv
<1>2. SentRight(type, message)
  BY <1>1, SentOf
<1>3. PICK b : b = Sent(type, message)
  OBVIOUS
<1>4. b \in Seq(Byte)
  BY <1>2, <1>3 DEF SentRight
<1>5. changed = "no" => data = b
  <2>1. ASSUME NEW i PROVE (IF i = 1 THEN "type" ELSE "byte") # "no"
    OBVIOUS
  <2> QED BY <1>1, <1>3, <2>1 DEF OnTheWay
<1>6. ASSUME NEW n \in 0..(Len(data) - 1), Cut(n) PROVE WInv'
  <2>1. /\ changed = "no" /\ got = NotYet /\ data' = SubSeq(data, 1, n) /\ changed' = "cut"
        /\ UNCHANGED <<type, message, registered, got, framed>>
    BY <1>6 DEF Cut
  <2>2. OnTheWay(type, message, data', changed')
    BY <1>3, <1>5, <1>6, <2>1 DEF OnTheWay
  <2>3. RoundTrip' /\ NoPrefixMisread' /\ FrameProtectsPayload'
    BY <2>1, NothingReceived
  <2> QED BY <1>1, <2>1, <2>2, <2>3 DEF WInv
<1>7. ASSUME NEW i \in DOMAIN data, Damage(i) PROVE WInv'
  <2>1. /\ changed = "no" /\ got = NotYet /\ IsFramed(type)
        /\ data' = OneChanged(data, i)
        /\ changed' = IF i = 1 THEN "type" ELSE "byte"
        /\ UNCHANGED <<type, message, registered, got, framed>>
    BY <1>7 DEF Damage, OneChanged, Next256
  <2>2. i \in 1..Len(b)
    BY <1>4, <1>5, <2>1
  <2>3. OnTheWay(type, message, data', changed')
    BY <1>3, <1>5, <2>1, <2>2 DEF OnTheWay
  <2>4. RoundTrip' /\ NoPrefixMisread' /\ FrameProtectsPayload'
    BY <2>1, NothingReceived
  <2> QED BY <1>1, <2>1, <2>3, <2>4 DEF WInv
<1>8. CASE ReceiveFrame
  <2>1. type' = type /\ message' = message /\ data' = data /\ changed' = changed
    BY <1>8 DEF ReceiveFrame
  <2>2. RoundTrip' /\ NoPrefixMisread' /\ FrameProtectsPayload'
    BY <1>8, FrameReceived
  <2> QED BY <1>1, <2>1, <2>2 DEF WInv
<1>9. CASE ReadData
  <2>1. type' = type /\ message' = message /\ data' = data /\ changed' = changed
    BY <1>9 DEF ReadData
  <2>2. RoundTrip' /\ NoPrefixMisread' /\ FrameProtectsPayload'
    BY <1>9, DataRead
  <2> QED BY <1>1, <2>1, <2>2 DEF WInv
<1>10. CASE UNCHANGED wireVars
  <2>1. /\ type' = type /\ message' = message /\ data' = data /\ changed' = changed
        /\ registered' = registered /\ got' = got /\ framed' = framed
    BY <1>10 DEF wireVars
  <2>2. Payload' = Payload /\ AsRead' = AsRead
    BY <2>1 DEF Payload, AsRead
  <2>3. RoundTrip' /\ NoPrefixMisread' /\ FrameProtectsPayload'
    BY <1>1, <2>1, <2>2 DEF RoundTrip, NoPrefixMisread, FrameProtectsPayload, NotYet,
       Ignored, Penalized
  <2> QED BY <1>1, <2>1, <2>3 DEF WInv
<1> QED BY <1>6, <1>7, <1>8, <1>9, <1>10 DEF WireNext

\* The invariant of the specification.
LEMMA WireInvariant == WireSpec => []WInv
BY WireStart, WireStep, PTL DEF WireSpec

\* Every message of every type, whatever is in its fields and however long its
\* lists are, is read back as it was written; a framed one reaches the handler
\* of its type, and no sender of intact data loses reputation.
THEOREM WireRoundTrip == WireSpec => []RoundTrip
<1>1. WInv => RoundTrip
  BY DEF WInv
<1> QED BY <1>1, WireInvariant, PTL

\* No proper prefix of the bytes of any message is read as another message:
\* the reader throws, or it is one of the two that do not test for the end.
THEOREM WireNoPrefixMisread == WireSpec => []NoPrefixMisread
<1>1. WInv => NoPrefixMisread
  BY DEF WInv
<1> QED BY <1>1, WireInvariant, PTL

\* Wherever a frame is cut and whichever of its bytes is changed, a handler
\* sees the payload that was sent or none, and only a changed type byte can
\* cost the sender reputation.
THEOREM WireFrameProtects == WireSpec => []FrameProtectsPayload
<1>1. WInv => FrameProtectsPayload
  BY DEF WInv
<1> QED BY <1>1, WireInvariant, PTL


=============================================================================
