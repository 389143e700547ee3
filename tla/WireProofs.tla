----------------------------- MODULE WireProofs -----------------------------
(***************************************************************************)
(* That a packet comes back out of its bytes, and the messages of a stream *)
(* in their order: for every stack of layers, every bucket, envelope and   *)
(* codec a handshake may yield, every header, every length a datagram can  *)
(* have, and every loss, delay and reordering.                             *)
(***************************************************************************)
EXTENDS Wire, FiniteSetTheorems, SequenceTheorems, WellFoundedInduction,
        NaturalsInduction, TLAPS

-----------------------------------------------------------------------------
(* Least elements *)

LEMMA LeastNat ==
  ASSUME NEW T, T \subseteq Nat, T # {}
  PROVE  \E x \in T : \A y \in T : x <= y
<1> DEFINE Less == {ss \in Nat \X Nat : ss[1] < ss[2]}
<1>1. IsWellFoundedOn(Less, Nat)
  BY NatLessThanWellFounded DEF OpToRel
<1>2. PICK x \in T : \A y \in T : ~(<<y, x>> \in Less)
  <2> HIDE DEF Less
  <2> QED
    BY <1>1, WFMin
<1>3. ASSUME NEW y \in T PROVE x <= y
  <2>1. <<y, x>> \in Nat \X Nat
    OBVIOUS
  <2>2. ~(<<y, x>>[1] < <<y, x>>[2])
    BY <1>2, <2>1
  <2> QED
    BY <2>2
<1> QED
  BY <1>3

LEMMA MinTwo ==
  ASSUME NEW a, NEW b, a \in Int, b \in Int
  PROVE  Min({a, b}) = IF a <= b THEN a ELSE b
<1>1. CASE a <= b
  BY <1>1 DEF Min
<1>2. CASE ~(a <= b)
  BY <1>2 DEF Min
<1> QED
  BY <1>1, <1>2

-----------------------------------------------------------------------------
(* Sequences *)

(* z stands in b from position i on. *)
At(b, i, z) == i + Len(z) - 1 <= Len(b) /\ \A j \in 1 .. Len(z) : b[i + j - 1] = z[j]

LEMMA AtParts ==
  ASSUME NEW S, NEW s \in Seq(S), NEW t \in Seq(S)
  PROVE  At(s \o t, 1, s) /\ At(s \o t, Len(s) + 1, t)
<1> DEFINE u == s \o t
<1>1. /\ u \in Seq(S) /\ Len(u) = Len(s) + Len(t)
      /\ \A i \in 1 .. Len(s) + Len(t) : u[i] = IF i <= Len(s) THEN s[i] ELSE t[i - Len(s)]
  BY ConcatProperties
<1>2. Len(s) \in Nat /\ Len(t) \in Nat
  OBVIOUS
<1> HIDE DEF u
<1>3. ASSUME NEW j \in 1 .. Len(s) PROVE u[1 + j - 1] = s[j]
  <2>1. j \in 1 .. Len(s) + Len(t) /\ j <= Len(s) /\ 1 + j - 1 = j
    BY <1>2
  <2> QED
    BY <1>1, <2>1
<1>4. ASSUME NEW j \in 1 .. Len(t) PROVE u[(Len(s) + 1) + j - 1] = t[j]
  <2> DEFINE k == Len(s) + j
  <2>1. k \in 1 .. Len(s) + Len(t) /\ ~(k <= Len(s)) /\ k - Len(s) = j
        /\ (Len(s) + 1) + j - 1 = k
    BY <1>2
  <2> HIDE DEF k
  <2> QED
    BY <1>1, <2>1
<1>5. 1 + Len(s) - 1 <= Len(u) /\ (Len(s) + 1) + Len(t) - 1 <= Len(u)
  BY <1>1, <1>2
<1> QED
  BY <1>3, <1>4, <1>5 DEF At, u

LEMMA LenJoin ==
  ASSUME NEW S, NEW s \in Seq(S), NEW t \in Seq(S)
  PROVE  /\ s \o t \in Seq(S) /\ Len(s \o t) = Len(s) + Len(t)
         /\ Len(s) \in Nat /\ Len(t) \in Nat
BY ConcatProperties

LEMMA AtIn ==
  ASSUME NEW b, NEW c, NEW z, NEW i \in Nat \ {0}, NEW j \in Nat \ {0},
         Len(b) \in Nat, Len(c) \in Nat, Len(z) \in Nat, At(b, i, c), At(c, j, z)
  PROVE  At(b, i + j - 1, z)
<1>1. i + Len(c) - 1 <= Len(b) /\ j + Len(z) - 1 <= Len(c)
  BY DEF At
<1>2. (i + j - 1) + Len(z) - 1 <= Len(b)
  BY <1>1
<1>3. ASSUME NEW k \in 1 .. Len(z) PROVE b[(i + j - 1) + k - 1] = z[k]
  <2> DEFINE m == j + k - 1
  <2>1. m \in 1 .. Len(c) /\ (i + j - 1) + k - 1 = i + m - 1
    BY <1>1
  <2>2. c[m] = z[k]
    BY DEF At
  <2> HIDE DEF m
  <2>3. b[i + m - 1] = c[m]
    BY <2>1 DEF At
  <2> QED
    BY <2>1, <2>2, <2>3
<1> QED
  BY <1>2, <1>3 DEF At

LEMMA AtSub ==
  ASSUME NEW S, NEW b \in Seq(S), NEW z \in Seq(S), NEW i \in Nat \ {0}, At(b, i, z),
         NEW k, k = i + Len(z) - 1
  PROVE  SubSeq(b, i, k) = z
<1> DEFINE c == SubSeq(b, i, k)
<1>1. Len(z) \in Nat /\ Len(b) \in Nat /\ k \in Int /\ k <= Len(b)
  BY DEF At
<1>2. \A j \in i .. k : b[j] \in S
  <2> SUFFICES ASSUME NEW j \in i .. k PROVE b[j] \in S
    OBVIOUS
  <2>1. j \in 1 .. Len(b)
    BY <1>1
  <2> QED
    BY <2>1, ElementOfSeq
<1>3. /\ c \in Seq(S) /\ Len(c) = IF i <= k THEN k - i + 1 ELSE 0
      /\ \A j \in 1 .. k - i + 1 : c[j] = b[i + j - 1]
  BY <1>1, <1>2, SubSeqProperties
<1> HIDE DEF c
<1>4. Len(c) = Len(z) /\ k - i + 1 = Len(z)
  BY <1>1, <1>3
<1>5. \A j \in 1 .. Len(c) : c[j] = z[j]
  BY <1>3, <1>4 DEF At
<1>6. c = z
  BY <1>3, <1>4, <1>5, SeqEqual
<1> QED
  BY <1>6 DEF c

-----------------------------------------------------------------------------
(* Bytes *)

Octets == 0 .. 255

Cells == [v : Octets, w : SUBSET (Int \X Int)]

Buffers == Seq(Cells)

(* The same bytes, perhaps under other keystreams. *)
Same(a, b) == Len(a) = Len(b) /\ \A i \in 1 .. Len(a) : a[i].v = b[i].v

LEMMA BytesAre ==
  ASSUME NEW x \in Seq(Octets)
  PROVE  /\ Bytes(x) \in Buffers /\ Len(Bytes(x)) = Len(x) /\ Values(Bytes(x)) = x
         /\ \A i \in 1 .. Len(x) : Bytes(x)[i] = Byte(x[i])
<1>1. DOMAIN x = 1 .. Len(x) /\ Len(x) \in Nat /\ \A i \in 1 .. Len(x) : x[i] \in Octets
  BY LenProperties, ElementOfSeq
<1>2. \A i \in 1 .. Len(x) : Byte(x[i]) \in Cells /\ Byte(x[i]).w = {} /\ Byte(x[i]).v = x[i]
  BY <1>1 DEF Byte, Cells
<1>3. Bytes(x) = [i \in 1 .. Len(x) |-> Byte(x[i])]
  BY <1>1 DEF Bytes
<1>4. Bytes(x) \in [1 .. Len(x) -> Cells]
  BY <1>2, <1>3
<1>5. Bytes(x) \in Buffers /\ Len(Bytes(x)) = Len(x) /\ DOMAIN Bytes(x) = 1 .. Len(x)
  BY <1>1, <1>4 DEF Buffers
<1>6. \A i \in 1 .. Len(x) : Bytes(x)[i] = Byte(x[i])
  BY <1>3
<1>7. Values(Bytes(x)) = [i \in 1 .. Len(x) |-> x[i]]
  BY <1>2, <1>5, <1>6 DEF Values
<1>8. x = [i \in 1 .. Len(x) |-> x[i]]
  BY <1>1
<1> QED
  BY <1>5, <1>6, <1>7, <1>8

LEMMA ValuesAre ==
  ASSUME NEW b \in Buffers
  PROVE  /\ Len(b) \in Nat /\ DOMAIN b = 1 .. Len(b)
         /\ \A i \in 1 .. Len(b) : b[i] \in Cells
         /\ Values(b) \in Seq(Int) /\ Len(Values(b)) = Len(b)
         /\ \A i \in 1 .. Len(b) : Values(b)[i] = IF b[i].w = {} THEN b[i].v ELSE GARBLED
<1>1. DOMAIN b = 1 .. Len(b) /\ Len(b) \in Nat /\ \A i \in 1 .. Len(b) : b[i] \in Cells
  BY LenProperties, ElementOfSeq DEF Buffers
<1> DEFINE e(i) == IF b[i].w = {} THEN b[i].v ELSE GARBLED
<1>2. \A i \in 1 .. Len(b) : e(i) \in Int
  <2> SUFFICES ASSUME NEW i \in 1 .. Len(b) PROVE e(i) \in Int
    OBVIOUS
  <2>1. b[i].v \in 0 .. 255
    BY <1>1 DEF Cells, Octets
  <2>2. b[i].v \in Int
    <3> DEFINE c == b[i].v
    <3> HIDE DEF c
    <3>1. c \in 0 .. 255
      BY <2>1 DEF c
    <3>2. c \in Int
      BY <3>1
    <3> QED
      BY <3>2 DEF c
  <2>3. GARBLED \in Int
    BY DEF GARBLED
  <2> QED
    BY <2>2, <2>3
<1>3. Values(b) = [i \in 1 .. Len(b) |-> e(i)]
  BY <1>1 DEF Values
<1>4. \A i \in 1 .. Len(b) : Values(b)[i] = e(i)
  BY <1>3
<1> HIDE DEF e
<1>5. Values(b) \in [1 .. Len(b) -> Int]
  BY <1>2, <1>3
<1>6. Values(b) \in Seq(Int) /\ Len(Values(b)) = Len(b)
  BY <1>1, <1>5
<1> QED
  BY <1>1, <1>4, <1>6 DEF e

(* The first length that two bytes cannot hold. *)
TOO_LONG == 65536

LEMMA TooLong == TOO_LONG \in Nat
BY SMT DEF TOO_LONG

(* The length in two bytes. *)
LEMMA BE2Is ==
  ASSUME NEW n \in Nat
  PROVE  /\ BE2(n) \in Seq(Octets) /\ Len(BE2(n)) = 2
         /\ n < TOO_LONG => BE2(n)[1] * 256 + BE2(n)[2] = n
<1> DEFINE h == (n \div 256) % 256
           l == n % 256
<1>1. h \in Octets /\ l \in Octets
  BY DEF Octets
<1>2. n < TOO_LONG => h * 256 + l = n
  BY SMT DEF TOO_LONG
<1>3. BE2(n) = <<h, l>>
  BY DEF BE2
<1> HIDE DEF h, l
<1> QED
  BY <1>1, <1>2, <1>3

-----------------------------------------------------------------------------
(* The layers *)

LEMMA XorIs ==
  ASSUME NEW b \in Buffers, NEW s \in Int, NEW n \in Nat
  PROVE  /\ Xor(b, s, n) \in Buffers /\ Same(Xor(b, s, n), b)
         /\ Xor(Xor(b, s, n), s, n) = b
<1> DEFINE flip(c, i) == [c EXCEPT !.w = SymDiff(@, {<<s, i>>})]
           e(c, i) == IF i <= n THEN flip(c, i) ELSE c
           x == Xor(b, s, n)
<1>1. Len(b) \in Nat /\ DOMAIN b = 1 .. Len(b) /\ \A i \in 1 .. Len(b) : b[i] \in Cells
  BY ValuesAre
<1>2. ASSUME NEW c \in Cells, NEW i \in Nat
      PROVE  flip(c, i) \in Cells /\ flip(c, i).v = c.v /\ flip(flip(c, i), i) = c
  <2> DEFINE k == <<s, i>>
  <2>1. k \in Int \X Int
    OBVIOUS
  <2> HIDE DEF k
  <2>2. c.v \in Octets /\ c.w \subseteq Int \X Int /\ c = [v |-> c.v, w |-> c.w]
    BY DEF Cells
  <2>3. SymDiff(c.w, {k}) \subseteq Int \X Int /\ SymDiff(SymDiff(c.w, {k}), {k}) = c.w
    BY <2>1, <2>2 DEF SymDiff
  <2>4. \A d \in Cells : flip(d, i) = [v |-> d.v, w |-> SymDiff(d.w, {k})]
    BY DEF Cells, k
  <2>5. flip(c, i) \in Cells
    BY <2>2, <2>3, <2>4 DEF Cells
  <2> DEFINE d == flip(c, i)
  <2>6. d.v = c.v /\ d.w = SymDiff(c.w, {k})
    BY <2>4
  <2>7. d \in Cells
    BY <2>5
  <2> HIDE DEF d
  <2>8. flip(d, i) = c
    BY <2>2, <2>3, <2>4, <2>6, <2>7
  <2> QED
    BY <2>5, <2>6, <2>8 DEF d
<1>3. ASSUME NEW c \in Cells, NEW i \in Nat
      PROVE  e(c, i) \in Cells /\ e(c, i).v = c.v /\ e(e(c, i), i) = c
  BY <1>2
<1>4. x = [i \in 1 .. Len(b) |-> e(b[i], i)]
  BY <1>1 DEF Xor
<1> HIDE DEF e, flip
<1>5. \A i \in 1 .. Len(b) : x[i] = e(b[i], i) /\ x[i] \in Cells /\ x[i].v = b[i].v
  <2> HIDE DEF x
  <2> SUFFICES ASSUME NEW i \in 1 .. Len(b)
               PROVE  x[i] = e(b[i], i) /\ x[i] \in Cells /\ x[i].v = b[i].v
    OBVIOUS
  <2>1. i \in Nat /\ b[i] \in Cells
    BY <1>1
  <2>2. x[i] = e(b[i], i)
    BY <1>4
  <2>3. e(b[i], i) \in Cells /\ e(b[i], i).v = b[i].v
    BY <1>3, <2>1
  <2> QED
    BY <2>2, <2>3
<1>6. x \in [1 .. Len(b) -> Cells]
  <2>1. \A i \in 1 .. Len(b) : e(b[i], i) \in Cells
    BY <1>1, <1>3
  <2> HIDE DEF x
  <2> QED
    BY <1>4, <2>1
<1>7. x \in Buffers /\ Len(x) = Len(b) /\ DOMAIN x = 1 .. Len(b)
  BY <1>1, <1>6 DEF Buffers
<1>8. Xor(x, s, n) = [i \in 1 .. Len(b) |-> e(x[i], i)]
  BY <1>7 DEF Xor, e, flip
<1> HIDE DEF x
<1>9. \A i \in 1 .. Len(b) : e(x[i], i) = b[i]
  BY <1>1, <1>3, <1>5
<1>10. Xor(x, s, n) = [i \in 1 .. Len(b) |-> b[i]]
  BY <1>8, <1>9
<1>11. b = [i \in 1 .. Len(b) |-> b[i]]
  BY <1>1 DEF Buffers
<1>12. Same(x, b)
  BY <1>5, <1>7 DEF Same
<1> QED
  BY <1>7, <1>10, <1>11, <1>12 DEF x

LEMMA XorHeaderIs ==
  ASSUME NEW b \in Buffers, NEW s \in Int
  PROVE  /\ XorHeader(b, s) \in Buffers /\ Same(XorHeader(b, s), b)
         /\ XorHeader(XorHeader(b, s), s) = b
<1>1. HEADER_LEN \in Nat
  BY WireAssumption
<1>2. CASE Len(b) < HEADER_LEN
  <2>1. XorHeader(b, s) = b
    BY <1>2 DEF XorHeader
  <2> QED
    BY <2>1 DEF Same
<1>3. CASE ~(Len(b) < HEADER_LEN)
  <2> DEFINE x == Xor(b, s, HEADER_LEN)
  <2>1. XorHeader(b, s) = x
    BY <1>3 DEF XorHeader
  <2>2. x \in Buffers /\ Same(x, b) /\ Xor(x, s, HEADER_LEN) = b
    BY <1>1, XorIs
  <2> HIDE DEF x
  <2>3. XorHeader(x, s) = b
    BY <1>3, <2>2 DEF XorHeader, Same
  <2> QED
    BY <2>1, <2>2, <2>3
<1> QED
  BY <1>2, <1>3

(* The configuration of the padding. *)
Padding == sc.buckets \subseteq Nat /\ sc.padding_max \in Nat

LEMMA PaddedIs ==
  ASSUME Padding, NEW n \in Nat
  PROVE  Padded(n) \in Nat /\ Padded(n) >= n + 2
<1> DEFINE need == n + LEN_PREFIX
           fits == {b \in sc.buckets : b >= need /\ b >= LEN_PREFIX}
<1>1. need \in Nat /\ need = n + 2
  BY DEF LEN_PREFIX
<1>2. fits \subseteq Nat /\ \A b \in fits : b >= need
  BY DEF Padding
<1>3. Padded(n) = IF need > sc.padding_max \/ fits = {} THEN need ELSE Min(fits)
  BY DEF Padded
<1> HIDE DEF need, fits
<1>4. CASE fits = {}
  BY <1>1, <1>3, <1>4
<1>5. CASE fits # {}
  <2>1. \E x \in fits : \A y \in fits : x <= y
    BY <1>2, <1>5, LeastNat
  <2>2. Min(fits) \in fits
    BY <2>1 DEF Min
  <2>3. Min(fits) \in Nat /\ Min(fits) >= need
    BY <1>2, <2>2
  <2> DEFINE m == Min(fits)
  <2> HIDE DEF m
  <2> QED
    BY <1>1, <1>3, <2>3 DEF m
<1> QED
  BY <1>4, <1>5

LEMMA PadIs ==
  ASSUME Padding, NEW a \in Buffers
  PROVE  /\ Pad(a) \in Buffers /\ Len(Pad(a)) >= Len(a) + 2
         /\ At(Pad(a), 1, Bytes(BE2(Len(a)))) /\ At(Pad(a), 3, a)
<1> DEFINE p == Bytes(BE2(Len(a)))
           out == p \o a
           z == [i \in 1 .. Padded(Len(a)) - Len(out) |-> Byte(0)]
<1>1. Len(a) \in Nat
  BY ValuesAre
<1>2. p \in Buffers /\ Len(p) = 2
  BY <1>1, BE2Is, BytesAre
<1>3. Pad(a) = out \o z
  BY DEF Pad
<1> HIDE DEF p
<1>4. out \in Buffers /\ Len(out) = Len(a) + 2 /\ At(out, 1, p) /\ At(out, 3, a)
  <2>1. out \in Buffers /\ Len(out) = Len(p) + Len(a)
    BY <1>2, ConcatProperties DEF Buffers
  <2>2. At(out, 1, p) /\ At(out, Len(p) + 1, a)
    BY <1>2, AtParts DEF Buffers
  <2>3. Len(p) + 1 = 3 /\ Len(p) + Len(a) = Len(a) + 2
    BY <1>1, <1>2
  <2> HIDE DEF out
  <2> QED
    BY <2>1, <2>2, <2>3
<1>5. Padded(Len(a)) \in Nat /\ Padded(Len(a)) >= Len(a) + 2
  BY <1>1, PaddedIs
<1> HIDE DEF out
<1> DEFINE m == Padded(Len(a)) - Len(out)
<1>6. m \in Nat
  BY <1>1, <1>4, <1>5
<1>7. Byte(0) \in Cells
  BY DEF Byte, Cells, Octets
<1>8. z \in Buffers /\ Len(z) = m
  <2> HIDE DEF m
  <2>1. [i \in 1 .. m |-> Byte(0)] \in [1 .. m -> Cells]
    BY <1>7
  <2>2. z = [i \in 1 .. m |-> Byte(0)]
    BY DEF m
  <2> HIDE DEF z
  <2> QED
    BY <1>6, <2>1, <2>2 DEF Buffers
<1> HIDE DEF z, m
<1>9. out \o z \in Buffers /\ Len(out \o z) = Len(out) + Len(z) /\ At(out \o z, 1, out)
  BY <1>4, <1>8, ConcatProperties, AtParts DEF Buffers
<1> DEFINE u == out \o z
<1>10. u \in Buffers /\ Len(u) = Len(out) + Len(z) /\ At(u, 1, out) /\ Pad(a) = u
  BY <1>3, <1>9
<1> HIDE DEF u
<1>11. Len(u) \in Nat /\ Len(u) >= Len(a) + 2
  BY <1>1, <1>4, <1>6, <1>8, <1>10
<1>12. At(u, 1 + 1 - 1, p) /\ At(u, 1 + 3 - 1, a)
  <2>1. Len(out) \in Nat /\ Len(p) \in Nat
    BY <1>1, <1>2, <1>4
  <2>2. At(u, 1 + 1 - 1, p)
    BY <1>4, <1>10, <1>11, <2>1, AtIn
  <2>3. At(u, 1 + 3 - 1, a)
    BY <1>1, <1>4, <1>10, <1>11, <2>1, AtIn
  <2> QED
    BY <2>2, <2>3
<1>13. 1 + 1 - 1 = 1 /\ 1 + 3 - 1 = 3
  OBVIOUS
<1> QED
  BY <1>10, <1>11, <1>12, <1>13 DEF p

LEMMA UnpadIs ==
  ASSUME NEW b \in Buffers
  PROVE  Unpad(b) \in Buffers
<1> DEFINE v == Values(b)
           n == FromBE2(v)
<1>1. Len(b) \in Nat /\ \A i \in 1 .. Len(b) : b[i] \in Cells
  BY ValuesAre
<1>2. NoFrame \in Buffers
  BY EmptySeq DEF NoFrame, Buffers
<1>3. SUFFICES ASSUME ~(Len(b) < 2), ~(v[1] = GARBLED \/ v[2] = GARBLED), ~(Len(b) < 2 + n)
               PROVE  SubSeq(b, 3, 2 + n) \in Buffers
  BY <1>2 DEF Unpad, LEN_PREFIX
<1>4. v[1] \in Nat /\ v[2] \in Nat
  <2>1. 1 \in 1 .. Len(b) /\ 2 \in 1 .. Len(b)
    BY <1>1, <1>3
  <2>2. v[1] = b[1].v /\ v[2] = b[2].v /\ b[1] \in Cells /\ b[2] \in Cells
    BY <1>3, <2>1, ValuesAre
  <2>3. v[1] \in 0 .. 255 /\ v[2] \in 0 .. 255
    BY <2>2 DEF Cells, Octets
  <2> HIDE DEF v
  <2> QED
    BY <2>3
<1>5. n \in Nat
  <2> HIDE DEF v
  <2> QED
    BY <1>4 DEF FromBE2
<1> HIDE DEF n, v
<1>6. \A i \in 3 .. 2 + n : b[i] \in Cells
  BY <1>1, <1>3, <1>5
<1> QED
  BY <1>5, <1>6, SubSeqProperties DEF Buffers

LEMMA UnpadUndoes ==
  ASSUME Padding, NEW a \in Buffers, Len(a) < TOO_LONG, NEW b \in Buffers, Same(b, Pad(a))
  PROVE  /\ Unpad(b) = NoFrame \/ Same(Unpad(b), a)
         /\ b = Pad(a) => Unpad(b) = a
<1> DEFINE v == Values(b)
           q == BE2(Len(a))
           c == Pad(a)
<1>1. Len(a) \in Nat /\ Len(b) \in Nat /\ \A i \in 1 .. Len(b) : b[i] \in Cells
  BY ValuesAre
<1>2. /\ c \in Buffers /\ Len(c) >= Len(a) + 2
      /\ At(c, 1, Bytes(q)) /\ At(c, 3, a)
  BY PadIs
<1>3. /\ q \in Seq(Octets) /\ Len(q) = 2 /\ q[1] * 256 + q[2] = Len(a)
      /\ Bytes(q) \in Buffers /\ Len(Bytes(q)) = 2
      /\ \A i \in 1 .. Len(q) : Bytes(q)[i] = Byte(q[i])
  BY <1>1, BE2Is, BytesAre
<1> HIDE DEF q, c
<1>4. Len(b) = Len(c) /\ \A i \in 1 .. Len(b) : b[i].v = c[i].v
  BY DEF Same, c
<1>5. 1 \in 1 .. Len(b) /\ 2 \in 1 .. Len(b) /\ ~(Len(b) < 2)
  BY <1>1, <1>2, <1>4
<1>6. c[1] = Byte(q[1]) /\ c[2] = Byte(q[2])
  <2>1. 1 \in 1 .. 2 /\ 2 \in 1 .. 2 /\ 1 + 1 - 1 = 1 /\ 1 + 2 - 1 = 2
    OBVIOUS
  <2>2. c[1 + 1 - 1] = Bytes(q)[1] /\ c[1 + 2 - 1] = Bytes(q)[2]
    BY <1>2, <1>3, <2>1 DEF At
  <2> QED
    BY <1>3, <2>1, <2>2
<1>7. b[1].v = q[1] /\ b[2].v = q[2]
  BY <1>4, <1>5, <1>6 DEF Byte
<1>8. \/ v[1] = GARBLED \/ v[2] = GARBLED
      \/ v[1] = q[1] /\ v[2] = q[2]
  BY <1>5, <1>7, ValuesAre
<1>9. FromBE2(v) = v[1] * 256 + v[2]
  BY DEF FromBE2
<1> HIDE DEF v
<1>10. ASSUME v[1] = q[1], v[2] = q[2], v[1] # GARBLED, v[2] # GARBLED
       PROVE  Unpad(b) = SubSeq(b, 3, 2 + Len(a))
  <2>1. FromBE2(v) = Len(a)
    BY <1>3, <1>9, <1>10
  <2>2. ~(Len(b) < 2 + Len(a))
    BY <1>1, <1>2, <1>4
  <2> QED
    BY <1>5, <1>10, <2>1, <2>2 DEF Unpad, LEN_PREFIX, v
<1>11. v[1] = GARBLED \/ v[2] = GARBLED => Unpad(b) = NoFrame
  BY <1>5 DEF Unpad, LEN_PREFIX, v
<1>12. Same(SubSeq(b, 3, 2 + Len(a)), a)
  <2> DEFINE d == SubSeq(b, 3, 2 + Len(a))
  <2>1. \A i \in 3 .. 2 + Len(a) : i \in 1 .. Len(b)
    BY <1>1, <1>2, <1>4
  <2>2. \A i \in 3 .. 2 + Len(a) : b[i] \in Cells
    BY <1>1, <2>1
  <2>3. /\ Len(d) = IF 3 <= 2 + Len(a) THEN (2 + Len(a)) - 3 + 1 ELSE 0
        /\ \A i \in 1 .. (2 + Len(a)) - 3 + 1 : d[i] = b[3 + i - 1]
    BY <1>1, <2>2, SubSeqProperties
  <2> HIDE DEF d
  <2>4. Len(d) = Len(a) /\ (2 + Len(a)) - 3 + 1 = Len(a)
    BY <1>1, <2>3
  <2>5. ASSUME NEW i \in 1 .. Len(a) PROVE d[i].v = a[i].v
    <3>1. d[i] = b[3 + i - 1] /\ c[3 + i - 1] = a[i]
      BY <1>2, <2>3, <2>4 DEF At
    <3>2. 3 + i - 1 \in 1 .. Len(b)
      BY <1>1, <1>2, <1>4
    <3> QED
      BY <1>4, <3>1, <3>2
  <2> QED
    BY <2>4, <2>5 DEF Same, d
<1>13. ASSUME b = c PROVE Unpad(b) = a
  <2>1. b[1].w = {} /\ b[2].w = {}
    BY <1>6, <1>13 DEF Byte
  <2>2. v[1] = q[1] /\ v[2] = q[2]
    <3>1. \A i \in 1 .. Len(b) : v[i] = IF b[i].w = {} THEN b[i].v ELSE GARBLED
      BY ValuesAre DEF v
    <3> QED
      BY <1>5, <1>7, <2>1, <3>1
  <2>3. q[1] # GARBLED /\ q[2] # GARBLED
    <3>1. 1 \in 1 .. Len(q) /\ 2 \in 1 .. Len(q)
      BY <1>3
    <3>2. q[1] \in Octets /\ q[2] \in Octets
      <4>1. q \in Seq(Octets)
        BY <1>3
      <4> QED
        BY <3>1, <4>1, ElementOfSeq
    <3>3. \A o \in Octets : o # GARBLED
      BY DEF Octets, GARBLED
    <3> QED
      BY <3>2, <3>3
  <2>4. SubSeq(b, 3, 2 + Len(a)) = a
    <3>1. 2 + Len(a) = 3 + Len(a) - 1
      BY <1>1
    <3> QED
      BY <1>2, <1>13, <3>1, AtSub DEF Buffers
  <2>5. v[1] # GARBLED /\ v[2] # GARBLED
    BY <2>2, <2>3
  <2>6. Unpad(b) = SubSeq(b, 3, 2 + Len(a))
    BY <1>10, <2>2, <2>5
  <2> QED
    BY <2>4, <2>6
<1>14. Unpad(b) = NoFrame \/ Same(Unpad(b), a)
  <2>1. CASE v[1] = GARBLED \/ v[2] = GARBLED
    BY <1>11, <2>1
  <2>2. CASE v[1] # GARBLED /\ v[2] # GARBLED
    <3>1. v[1] = q[1] /\ v[2] = q[2]
      BY <1>8, <2>2
    <3>2. Unpad(b) = SubSeq(b, 3, 2 + Len(a))
      BY <1>10, <2>2, <3>1
    <3> QED
      BY <1>12, <3>2
  <2> QED
    BY <2>1, <2>2
<1> QED
  BY <1>13, <1>14 DEF c

-----------------------------------------------------------------------------
(* Folds of sequences *)

(* Of some subsets of a finite set, one that becomes another set when any  *)
(* element leaves it. *)
LEMMA Smallest ==
  ASSUME NEW S, IsFiniteSet(S), NEW B, B \subseteq SUBSET S, B # {}
  PROVE  \E s \in B : IsFiniteSet(s) /\ \A x \in s : s \ {x} \notin B
<1> DEFINE T == {Cardinality(s) : s \in B}
<1>1. \A s \in B : IsFiniteSet(s) /\ Cardinality(s) \in Nat
  <2> SUFFICES ASSUME NEW s \in B PROVE IsFiniteSet(s) /\ Cardinality(s) \in Nat
    OBVIOUS
  <2>1. IsFiniteSet(s)
    BY FS_Subset
  <2> QED
    BY <2>1, FS_CardinalityType
<1>2. T \subseteq Nat /\ T # {}
  BY <1>1
<1>3. PICK n \in T : \A m \in T : n <= m
  <2> HIDE DEF T
  <2> QED
    BY <1>2, LeastNat
<1>4. PICK s \in B : Cardinality(s) = n
  BY <1>3
<1>5. ASSUME NEW x \in s, s \ {x} \in B PROVE FALSE
  <2>1. Cardinality(s \ {x}) = Cardinality(s) - 1
    BY <1>1, FS_RemoveElement
  <2>2. Cardinality(s \ {x}) \in T
    BY <1>5
  <2>3. Cardinality(s) <= Cardinality(s \ {x})
    BY <1>3, <1>4, <2>2
  <2> HIDE DEF T
  <2> QED
    BY <1>1, <2>1, <2>3
<1> QED
  BY <1>1, <1>5

(* A fold over the subsets of S: ch picks the element that leaves, h adds  *)
(* it to the value of the rest. *)
FoldOf(S, base, ch, h, f) ==
  \A s \in SUBSET S : f[s] = IF s = {} THEN base ELSE h[<<ch[s], f[s \ {ch[s]}]>>]

Foldable(S, W, ch, h) ==
  /\ IsFiniteSet(S)
  /\ \A s \in SUBSET S : s # {} => ch[s] \in s
  /\ \A x \in S : \A w \in W : h[<<x, w>>] \in W

LEMMA FoldExists ==
  ASSUME NEW S, NEW W, NEW base \in W, NEW ch, NEW h, Foldable(S, W, ch, h)
  PROVE  \E f \in [SUBSET S -> W] : FoldOf(S, base, ch, h, f)
<1> USE DEF FoldOf, Foldable
<1> DEFINE Sub(n) == {t \in SUBSET S : Cardinality(t) <= n}
           Folds(n, f) == \A s \in Sub(n) :
             f[s] = IF s = {} THEN base ELSE h[<<ch[s], f[s \ {ch[s]}]>>]
           T == {n \in Nat : ~\E f \in [Sub(n) -> W] : Folds(n, f)}
<1>1. \A s \in SUBSET S : IsFiniteSet(s) /\ Cardinality(s) \in Nat
                          /\ Cardinality(s) <= Cardinality(S)
  BY FS_Subset, FS_CardinalityType
<1>2. \A s \in SUBSET S : s # {} => /\ ch[s] \in s /\ s \ {ch[s]} \in SUBSET S
                                    /\ Cardinality(s \ {ch[s]}) = Cardinality(s) - 1
  <2> SUFFICES ASSUME NEW s \in SUBSET S, s # {}
               PROVE  /\ ch[s] \in s /\ s \ {ch[s]} \in SUBSET S
                      /\ Cardinality(s \ {ch[s]}) = Cardinality(s) - 1
    OBVIOUS
  <2>1. ch[s] \in s
    OBVIOUS
  <2> QED
    BY <1>1, <2>1, FS_RemoveElement
<1>3. ASSUME T # {} PROVE FALSE
  <2>1. PICK n \in T : \A m \in T : n <= m
    <3>1. T \subseteq Nat
      OBVIOUS
    <3> HIDE DEF T
    <3> QED
      BY <1>3, <3>1, LeastNat
  <2>2. n \in Nat
    OBVIOUS
  <2>3. CASE n = 0
    <3> DEFINE f == [s \in Sub(0) |-> base]
    <3>1. \A s \in Sub(0) : s = {}
      <4> SUFFICES ASSUME NEW s \in Sub(0) PROVE s = {}
        OBVIOUS
      <4>1. IsFiniteSet(s) /\ Cardinality(s) = 0
        BY <1>1
      <4> QED
        BY <4>1, FS_EmptySet
    <3>2. f \in [Sub(0) -> W] /\ Folds(0, f)
      BY <3>1
    <3> HIDE DEF f, Folds, Sub
    <3>3. \E g \in [Sub(0) -> W] : Folds(0, g)
      BY <3>2
    <3> QED
      BY <2>1, <2>3, <3>3
  <2>4. CASE n # 0
    <3> DEFINE m == n - 1
    <3>0. m \in Nat /\ m + 1 = n /\ ~(n <= m)
      BY <2>2, <2>4
    <3> HIDE DEF m
    <3>1. m \in Nat /\ m \notin T /\ m + 1 = n
      <4> HIDE DEF T
      <4> QED
        BY <2>1, <3>0
    <3>2. PICK f \in [Sub(m) -> W] : Folds(m, f)
      BY <3>1
    <3> DEFINE r(s) == s \ {ch[s]}
               g == [s \in Sub(n) |-> IF s \in Sub(m) THEN f[s] ELSE h[<<ch[s], f[r(s)]>>]]
    <3>3. ASSUME NEW s \in Sub(n), s # {} PROVE r(s) \in Sub(m) /\ r(s) \in Sub(n) /\ ch[s] \in S
      <4>1. /\ s \in SUBSET S /\ Cardinality(s) <= n /\ Cardinality(s) \in Nat /\ ch[s] \in s
            /\ r(s) \in SUBSET S /\ Cardinality(r(s)) = Cardinality(s) - 1
        BY <1>1, <1>2, <3>3
      <4> HIDE DEF r
      <4> QED
        BY <2>2, <3>1, <4>1
    <3>4. {} \in Sub(m)
      <4>1. Cardinality({}) <= m
        BY <3>1, FS_EmptySet
      <4> QED
        BY <4>1
    <3>5. ASSUME NEW s \in Sub(n)
          PROVE  g[s] \in W /\ g[s] = IF s = {} THEN base ELSE h[<<ch[s], g[r(s)]>>]
      <4> HIDE DEF Sub, r
      <4>1. CASE s \in Sub(m)
        <5>1. g[s] = f[s] /\ f[s] \in W
          BY <3>2, <4>1
        <5>2. f[s] = IF s = {} THEN base ELSE h[<<ch[s], f[r(s)]>>]
          BY <3>2, <4>1 DEF r
        <5>3. s # {} => g[r(s)] = f[r(s)]
          BY <3>3
        <5> HIDE DEF g
        <5> QED
          BY <5>1, <5>2, <5>3
      <4>2. CASE s \notin Sub(m)
        <5>1. s # {}
          BY <3>4, <4>2
        <5>2. g[s] = h[<<ch[s], f[r(s)]>>]
          BY <4>2
        <5>3. r(s) \in Sub(m) /\ r(s) \in Sub(n) /\ ch[s] \in S
          BY <3>3, <5>1
        <5>4. g[r(s)] = f[r(s)] /\ f[r(s)] \in W
          BY <3>2, <5>3
        <5> HIDE DEF g
        <5> QED
          BY <5>1, <5>2, <5>3, <5>4
      <4> QED
        BY <4>1, <4>2
    <3>6. g \in [Sub(n) -> W]
      <4> DEFINE e(s) == IF s \in Sub(m) THEN f[s] ELSE h[<<ch[s], f[r(s)]>>]
      <4>1. \A s \in Sub(n) : e(s) \in W
        <5> HIDE DEF Sub, r
        <5> QED
          BY <3>5
      <4> HIDE DEF e, Sub, r
      <4>2. [s \in Sub(n) |-> e(s)] \in [Sub(n) -> W]
        BY <4>1
      <4> QED
        BY <4>2 DEF e
    <3>7. Folds(n, g)
      <4> HIDE DEF g, Sub
      <4> QED
        BY <3>5
    <3> HIDE DEF g, Folds, Sub
    <3>8. \E k \in [Sub(n) -> W] : Folds(n, k)
      BY <3>6, <3>7
    <3> QED
      BY <2>1, <3>8
  <2> QED
    BY <2>3, <2>4
<1>4. Cardinality(S) \in Nat
  BY FS_CardinalityType
<1>5. PICK f \in [Sub(Cardinality(S)) -> W] : Folds(Cardinality(S), f)
  BY <1>3, <1>4
<1>6. Sub(Cardinality(S)) = SUBSET S
  BY <1>1
<1> HIDE DEF Sub
<1> QED
  BY <1>5, <1>6

(* A finite set of numbers has a largest one. *)
LEMMA MaxIn ==
  ASSUME NEW S, IsFiniteSet(S), S \subseteq Nat, NEW t, t \subseteq S, t # {}
  PROVE  Max(t) \in t
<1> DEFINE B == {s \in SUBSET S : s # {} /\ ~\E x \in s : \A y \in s : x >= y}
<1>1. ASSUME B # {} PROVE FALSE
  <2>1. PICK s \in B : IsFiniteSet(s) /\ \A x \in s : s \ {x} \notin B
    BY <1>1, Smallest
  <2>2. s \subseteq S /\ s # {} /\ ~\E x \in s : \A y \in s : x >= y
    BY <2>1
  <2>3. PICK x \in s : TRUE
    BY <2>2
  <2>4. x \in Nat /\ x >= x
    BY <2>2, <2>3
  <2>5. s \ {x} # {}
    BY <2>2, <2>3, <2>4
  <2>6. PICK m \in s \ {x} : \A y \in s \ {x} : m >= y
    BY <2>1, <2>2, <2>3, <2>5
  <2>7. m \in Nat
    BY <2>2
  <2>8. CASE m >= x
    BY <2>2, <2>6, <2>8
  <2>9. CASE x >= m
    <3>1. \A y \in s : y \in Nat
      BY <2>2
    <3>2. \A y \in s : x >= y
      BY <2>4, <2>6, <2>7, <2>9, <3>1
    <3> QED
      BY <2>2, <3>2
  <2> QED
    BY <2>4, <2>7, <2>8, <2>9
<1>2. \E x \in t : \A y \in t : x >= y
  BY <1>1
<1> QED
  BY <1>2 DEF Max

LEMMA UpTo ==
  ASSUME NEW n \in Nat
  PROVE  /\ IsFiniteSet(1 .. n) /\ 1 .. n \subseteq Nat
         /\ \A t \in SUBSET (1 .. n) : t # {} => Max(t) \in t
         /\ \A i \in 1 .. n : /\ 1 .. i \in SUBSET (1 .. n) /\ 1 .. i # {} /\ Max(1 .. i) = i
                              /\ (1 .. i) \ {i} = 1 .. (i - 1)
<1>1. IsFiniteSet(1 .. n) /\ 1 .. n \subseteq Nat
  BY FS_Interval
<1>2. \A t \in SUBSET (1 .. n) : t # {} => Max(t) \in t
  BY <1>1, MaxIn
<1>3. ASSUME NEW i \in 1 .. n
      PROVE  /\ 1 .. i \in SUBSET (1 .. n) /\ 1 .. i # {} /\ Max(1 .. i) = i
             /\ (1 .. i) \ {i} = 1 .. (i - 1)
  <2>1. 1 .. i \in SUBSET (1 .. n) /\ i \in 1 .. i
    OBVIOUS
  <2>2. Max(1 .. i) = i
    BY <2>1 DEF Max
  <2>3. (1 .. i) \ {i} = 1 .. (i - 1)
    OBVIOUS
  <2> QED
    BY <2>1, <2>2, <2>3
<1> QED
  BY <1>1, <1>2, <1>3

(* A chain: the values of a fold of 1 .. n, one element after the other. *)
Folding(n, base, h, f) ==
  f = [t \in SUBSET (1 .. n) |-> IF t = {} THEN base ELSE h[<<Max(t), f[t \ {Max(t)}]>>]]

LEMMA FoldingExists ==
  ASSUME NEW n \in Nat, NEW W, NEW base \in W, NEW h \in [(1 .. n) \X W -> W]
  PROVE  \E f \in [SUBSET (1 .. n) -> W] : Folding(n, base, h, f)
<1> DEFINE S == 1 .. n
           ch == [t \in SUBSET S |-> Max(t)]
<1>1. Foldable(S, W, ch, h)
  <2>1. IsFiniteSet(S) /\ \A t \in SUBSET S : t # {} => ch[t] \in t
    <3>1. IsFiniteSet(S) /\ \A t \in SUBSET S : t # {} => Max(t) \in t
      BY UpTo
    <3>2. \A t \in SUBSET S : ch[t] = Max(t)
      OBVIOUS
    <3> HIDE DEF ch, S
    <3> QED
      BY <3>1, <3>2
  <2>2. \A x \in S : \A w \in W : h[<<x, w>>] \in W
    OBVIOUS
  <2> HIDE DEF ch, S
  <2> QED
    BY <2>1, <2>2 DEF Foldable
<1>2. \A t \in SUBSET S : ch[t] = Max(t)
  OBVIOUS
<1> HIDE DEF S, ch
<1>3. PICK f \in [SUBSET S -> W] : FoldOf(S, base, ch, h, f)
  BY <1>1, FoldExists
<1>4. \A t \in SUBSET S : f[t] = IF t = {} THEN base ELSE h[<<Max(t), f[t \ {Max(t)}]>>]
  BY <1>2, <1>3 DEF FoldOf
<1>5. f = [t \in SUBSET S |-> IF t = {} THEN base ELSE h[<<Max(t), f[t \ {Max(t)}]>>]]
  BY <1>3, <1>4
<1> QED
  BY <1>3, <1>5 DEF Folding, S

-----------------------------------------------------------------------------
(* The stack *)

LEMMA LayerIs ==
  ASSUME Padding, NEW l, NEW b \in Buffers, NEW s \in Int
  PROVE  /\ ApplyLayer(l, b, s) \in Buffers /\ Len(ApplyLayer(l, b, s)) >= Len(b)
         /\ ReverseLayer(l, b, s) \in Buffers
<1>1. Len(b) \in Nat /\ NoFrame \in Buffers
  BY ValuesAre, EmptySeq DEF NoFrame, Buffers
<1>2. Pad(b) \in Buffers /\ Len(Pad(b)) >= Len(b) + 2 /\ Unpad(b) \in Buffers
  BY PadIs, UnpadIs
<1>3. XorHeader(b, s) \in Buffers /\ Len(XorHeader(b, s)) = Len(b)
  BY XorHeaderIs DEF Same
<1>4. Len(Pad(b)) \in Nat
  BY <1>2, ValuesAre
<1>5. Len(Pad(b)) >= Len(b) /\ Len(XorHeader(b, s)) >= Len(b) /\ Len(b) >= Len(b)
  BY <1>1, <1>2, <1>3, <1>4
<1>6. ApplyLayer(l, b, s) \in {Pad(b), XorHeader(b, s), b}
  BY DEF ApplyLayer
<1>7. ReverseLayer(l, b, s) \in {NoFrame, Unpad(b), XorHeader(b, s), b}
  BY DEF ReverseLayer
<1> QED
  BY <1>1, <1>2, <1>3, <1>5, <1>6, <1>7

(* b is a under the layer l, as far as anyone can tell. *)
Over(l, a, o, b) ==
  /\ Padding /\ a \in Buffers /\ Len(a) < TOO_LONG /\ b \in Buffers
  /\ b = NoFrame \/ Same(b, ApplyLayer(l, a, o))

(* And a is what is found below. *)
Below(l, a, o, s, b) ==
  /\ ReverseLayer(l, b, s) = NoFrame \/ Same(ReverseLayer(l, b, s), a)
  /\ s = o /\ b = ApplyLayer(l, a, o) /\ a # <<>> => ReverseLayer(l, b, s) = a

LEMMA LayerUndone ==
  ASSUME NEW l, NEW a, NEW s \in Int, NEW o \in Int, NEW b, Over(l, a, o, b)
  PROVE  Below(l, a, o, s, b)
<1> USE DEF Over, Below
<1> DEFINE c == ApplyLayer(l, a, o)
           r == ReverseLayer(l, b, s)
<1>1. Len(a) \in Nat /\ c \in Buffers /\ Len(c) >= Len(a) /\ Len(c) \in Nat
  BY LayerIs, ValuesAre
<1>2. b = c /\ a # <<>> => b # NoFrame
  <2>1. a # <<>> => Len(a) # 0
    BY EmptySeq DEF Buffers
  <2>2. Len(NoFrame) = 0
    BY EmptySeq DEF NoFrame
  <2> HIDE DEF c
  <2> QED
    BY <1>1, <2>1, <2>2
<1>3. CASE b = NoFrame
  BY <1>2, <1>3 DEF ReverseLayer
<1>4. CASE b # NoFrame /\ l = "padding"
  <2>1. c = Pad(a) /\ r = Unpad(b)
    BY <1>4 DEF ApplyLayer, ReverseLayer
  <2>2. Same(b, Pad(a))
    BY <1>4, <2>1
  <2>3. /\ Unpad(b) = NoFrame \/ Same(Unpad(b), a)
        /\ b = Pad(a) => Unpad(b) = a
    BY <2>2, UnpadUndoes
  <2> HIDE DEF c, r
  <2>4. r = NoFrame \/ Same(r, a)
    BY <2>1, <2>3
  <2>5. b = c => r = a
    BY <2>1, <2>3
  <2> QED
    BY <2>4, <2>5 DEF c, r
<1>5. CASE b # NoFrame /\ l = "header_xor"
  <2>1. c = XorHeader(a, o) /\ r = XorHeader(b, s)
    BY <1>5 DEF ApplyLayer, ReverseLayer
  <2>2. Same(c, a) /\ XorHeader(c, o) = a
    BY <2>1, XorHeaderIs
  <2>3. Same(r, b)
    BY <2>1, XorHeaderIs
  <2>4. Same(b, c)
    BY <1>5
  <2> HIDE DEF c, r
  <2>5. Same(r, a)
    <3>1. \A i \in 1 .. Len(r) : r[i].v = a[i].v
      BY <2>2, <2>3, <2>4 DEF Same
    <3> QED
      BY <2>2, <2>3, <2>4, <3>1 DEF Same
  <2>6. s = o /\ b = c => r = a
    BY <2>1, <2>2
  <2> QED
    BY <2>5, <2>6 DEF c, r
<1>6. CASE b # NoFrame /\ l # "padding" /\ l # "header_xor"
  BY <1>6 DEF ApplyLayer, ReverseLayer
<1> QED
  BY <1>3, <1>4, <1>5, <1>6

(* The layers go on one after the other. *)
Onto(frame, s, a) ==
  /\ a[0] = frame
  /\ \A i \in 1 .. Len(Stack) : a[i] = ApplyLayer(Stack[i], a[i - 1], s)

LEMMA ApplySteps ==
  ASSUME Padding, Stack \in Seq(STRING), NEW frame \in Buffers, NEW s \in Int
  PROVE  \E a \in [0 .. Len(Stack) -> Buffers] :
           Onto(frame, s, a) /\ a[Len(Stack)] = Apply(frame, s)
<1> DEFINE n == Len(Stack)
           P(f) == f = [t \in SUBSET (1 .. n) |->
                          IF t = {} THEN frame
                          ELSE ApplyLayer(Stack[Max(t)], f[t \ {Max(t)}], s)]
           h == [p \in (1 .. n) \X Buffers |-> ApplyLayer(Stack[p[1]], p[2], s)]
<1>1. n \in Nat /\ DOMAIN Stack = 1 .. n
  BY LenProperties
<1>2. Apply(frame, s) = (CHOOSE f : P(f))[1 .. n]
  BY <1>1 DEF Apply, FoldLeft, MapThenFoldSet
<1> HIDE DEF n
<1>3. h \in [(1 .. n) \X Buffers -> Buffers]
  <2>1. \A p \in (1 .. n) \X Buffers : ApplyLayer(Stack[p[1]], p[2], s) \in Buffers
    BY LayerIs
  <2> QED
    BY <2>1
<1>4. \A x \in 1 .. n : \A w \in Buffers : h[<<x, w>>] = ApplyLayer(Stack[x], w, s)
  OBVIOUS
<1> HIDE DEF h
<1>5. PICK g \in [SUBSET (1 .. n) -> Buffers] : Folding(n, frame, h, g)
  BY <1>1, <1>3, FoldingExists
<1>6. P(g)
  <2>1. ASSUME NEW t \in SUBSET (1 .. n), t # {}
        PROVE  h[<<Max(t), g[t \ {Max(t)}]>>] = ApplyLayer(Stack[Max(t)], g[t \ {Max(t)}], s)
    <3>1. Max(t) \in 1 .. n
      BY <1>1, <2>1, UpTo
    <3>2. g[t \ {Max(t)}] \in Buffers
      BY <1>5
    <3> QED
      BY <1>4, <3>1, <3>2
  <2>2. g = [t \in SUBSET (1 .. n) |-> IF t = {} THEN frame ELSE h[<<Max(t), g[t \ {Max(t)}]>>]]
    BY <1>5 DEF Folding
  <2> QED
    BY <2>1, <2>2
<1> DEFINE f == CHOOSE f : P(f)
<1>7. P(f)
  <2> HIDE DEF P
  <2> QED
    BY <1>6
<1>8. Apply(frame, s) = f[1 .. n]
  BY <1>2
<1> HIDE DEF f
<1> DEFINE a == [i \in 0 .. n |-> f[1 .. i]]
<1>9. a[0] = frame
  <2>1. 1 .. 0 = {} /\ {} \in SUBSET (1 .. n) /\ 0 \in 0 .. n
    BY <1>1
  <2>2. f[{}] = frame
    BY <1>7, <2>1
  <2> QED
    BY <2>1, <2>2
<1>10. ASSUME NEW i \in 1 .. n PROVE a[i] = ApplyLayer(Stack[i], a[i - 1], s)
  <2>1. i \in 0 .. n /\ i - 1 \in 0 .. n
    BY <1>1
  <2>2. /\ 1 .. i \in SUBSET (1 .. n) /\ 1 .. i # {} /\ Max(1 .. i) = i
        /\ (1 .. i) \ {i} = 1 .. (i - 1)
    BY <1>1, UpTo
  <2>3. f[1 .. i] = ApplyLayer(Stack[i], f[1 .. (i - 1)], s)
    BY <1>7, <2>2
  <2> QED
    BY <2>1, <2>3
<1>11. ASSUME NEW i \in 0 .. n PROVE a[i] \in Buffers
  <2> DEFINE T == {m \in Nat : m \in 0 .. n /\ a[m] \notin Buffers}
  <2>1. ASSUME T # {} PROVE FALSE
    <3>1. PICK m \in T : \A k \in T : m <= k
      <4>1. T \subseteq Nat
        OBVIOUS
      <4> HIDE DEF T
      <4> QED
        BY <2>1, <4>1, LeastNat
    <3>2. m \in 0 .. n /\ a[m] \notin Buffers /\ m # 0
      BY <1>9, <3>1
    <3> HIDE DEF a
    <3>3. m \in 1 .. n /\ m - 1 \in 0 .. n /\ m - 1 \in Nat /\ ~(m <= m - 1)
      BY <1>1, <3>2
    <3>4. a[m - 1] \in Buffers
      BY <3>1, <3>3
    <3> QED
      BY <1>10, <3>2, <3>3, <3>4, LayerIs
  <2> HIDE DEF a
  <2> QED
    BY <1>1, <2>1
<1>12. a \in [0 .. n -> Buffers]
  <2>1. \A i \in 0 .. n : f[1 .. i] \in Buffers
    BY <1>11
  <2> QED
    BY <2>1
<1>13. a[n] = Apply(frame, s)
  <2>1. n \in 0 .. n
    BY <1>1
  <2> QED
    BY <1>8, <2>1
<1> HIDE DEF a
<1> QED
  BY <1>9, <1>10, <1>12, <1>13 DEF Onto, n

LEMMA ApplyIs ==
  ASSUME Padding, Stack \in Seq(STRING), NEW frame \in Buffers, NEW s \in Int
  PROVE  Apply(frame, s) \in Buffers
<1>1. Len(Stack) \in 0 .. Len(Stack)
  BY LenProperties
<1> QED
  BY <1>1, ApplySteps

(* And come off, the last one first. *)
Off(buf, s, a) ==
  /\ a[0] = buf
  /\ \A i \in 1 .. Len(Stack) : a[i] = ReverseLayer(Stack[Len(Stack) - i + 1], a[i - 1], s)

LEMMA UnapplySteps ==
  ASSUME Padding, Stack \in Seq(STRING), NEW buf \in Buffers, NEW s \in Int
  PROVE  \E a \in [0 .. Len(Stack) -> Buffers] :
           Off(buf, s, a) /\ a[Len(Stack)] = Unapply(buf, s)
<1> DEFINE n == Len(Stack)
           R == Reverse(Stack)
           P(f) == f = [t \in SUBSET (1 .. n) |->
                          IF t = {} THEN buf
                          ELSE ReverseLayer(R[Max(t)], f[t \ {Max(t)}], s)]
           h == [p \in (1 .. n) \X Buffers |-> ReverseLayer(R[p[1]], p[2], s)]
<1>1. n \in Nat /\ DOMAIN R = 1 .. n /\ \A i \in 1 .. n : R[i] = Stack[n - i + 1]
  <2>1. Len(Stack) \in Nat
    BY LenProperties
  <2> QED
    BY <2>1 DEF Reverse
<1>2. Unapply(buf, s) = (CHOOSE f : P(f))[1 .. n]
  BY <1>1 DEF Unapply, FoldLeft, MapThenFoldSet
<1> HIDE DEF n, R
<1>3. h \in [(1 .. n) \X Buffers -> Buffers]
  <2>1. \A p \in (1 .. n) \X Buffers : ReverseLayer(R[p[1]], p[2], s) \in Buffers
    BY LayerIs
  <2> QED
    BY <2>1
<1>4. \A x \in 1 .. n : \A w \in Buffers : h[<<x, w>>] = ReverseLayer(R[x], w, s)
  OBVIOUS
<1> HIDE DEF h
<1>5. PICK g \in [SUBSET (1 .. n) -> Buffers] : Folding(n, buf, h, g)
  BY <1>1, <1>3, FoldingExists
<1>6. P(g)
  <2>1. ASSUME NEW t \in SUBSET (1 .. n), t # {}
        PROVE  h[<<Max(t), g[t \ {Max(t)}]>>] = ReverseLayer(R[Max(t)], g[t \ {Max(t)}], s)
    <3>1. Max(t) \in 1 .. n
      BY <1>1, <2>1, UpTo
    <3>2. g[t \ {Max(t)}] \in Buffers
      BY <1>5
    <3> QED
      BY <1>4, <3>1, <3>2
  <2>2. g = [t \in SUBSET (1 .. n) |-> IF t = {} THEN buf ELSE h[<<Max(t), g[t \ {Max(t)}]>>]]
    BY <1>5 DEF Folding
  <2> QED
    BY <2>1, <2>2
<1> DEFINE f == CHOOSE f : P(f)
<1>7. P(f)
  <2> HIDE DEF P
  <2> QED
    BY <1>6
<1>8. Unapply(buf, s) = f[1 .. n]
  BY <1>2
<1> HIDE DEF f
<1> DEFINE a == [i \in 0 .. n |-> f[1 .. i]]
<1>9. a[0] = buf
  <2>1. 1 .. 0 = {} /\ {} \in SUBSET (1 .. n) /\ 0 \in 0 .. n
    BY <1>1
  <2>2. f[{}] = buf
    BY <1>7, <2>1
  <2> QED
    BY <2>1, <2>2
<1>10. ASSUME NEW i \in 1 .. n PROVE a[i] = ReverseLayer(R[i], a[i - 1], s)
  <2>1. i \in 0 .. n /\ i - 1 \in 0 .. n
    BY <1>1
  <2>2. /\ 1 .. i \in SUBSET (1 .. n) /\ 1 .. i # {} /\ Max(1 .. i) = i
        /\ (1 .. i) \ {i} = 1 .. (i - 1)
    BY <1>1, UpTo
  <2>3. f[1 .. i] = ReverseLayer(R[i], f[1 .. (i - 1)], s)
    BY <1>7, <2>2
  <2> QED
    BY <2>1, <2>3
<1>11. ASSUME NEW i \in 0 .. n PROVE a[i] \in Buffers
  <2> DEFINE T == {m \in Nat : m \in 0 .. n /\ a[m] \notin Buffers}
  <2>1. ASSUME T # {} PROVE FALSE
    <3>1. PICK m \in T : \A k \in T : m <= k
      <4>1. T \subseteq Nat
        OBVIOUS
      <4> HIDE DEF T
      <4> QED
        BY <2>1, <4>1, LeastNat
    <3>2. m \in 0 .. n /\ a[m] \notin Buffers /\ m # 0
      BY <1>9, <3>1
    <3> HIDE DEF a
    <3>3. m \in 1 .. n /\ m - 1 \in 0 .. n /\ m - 1 \in Nat /\ ~(m <= m - 1)
      BY <1>1, <3>2
    <3>4. a[m - 1] \in Buffers
      BY <3>1, <3>3
    <3> QED
      BY <1>10, <3>2, <3>3, <3>4, LayerIs
  <2> HIDE DEF a
  <2> QED
    BY <1>1, <2>1
<1>12. a \in [0 .. n -> Buffers]
  <2>1. \A i \in 0 .. n : f[1 .. i] \in Buffers
    BY <1>11
  <2> QED
    BY <2>1
<1>13. a[n] = Unapply(buf, s)
  <2>1. n \in 0 .. n
    BY <1>1
  <2> QED
    BY <1>8, <2>1
<1> HIDE DEF a
<1> QED
  BY <1>1, <1>9, <1>10, <1>12, <1>13 DEF Off, n

(* The buffers a holds after each of the layers L. *)
Climbs(n, L, o, a) ==
  /\ a \in [0 .. n -> Buffers]
  /\ \A i \in 1 .. n : a[i] = ApplyLayer(L[i], a[i - 1], o)

LEMMA ClimbGrows ==
  ASSUME Padding, NEW n \in Nat, NEW L, NEW o \in Int, NEW a, Climbs(n, L, o, a),
         NEW i \in 0 .. n, NEW j \in 0 .. n, i <= j
  PROVE  a[i] \in Buffers /\ Len(a[i]) \in Nat /\ Len(a[j]) \in Nat /\ Len(a[i]) <= Len(a[j])
<1> DEFINE T == {k \in Nat : i + k <= n /\ ~(Len(a[i]) <= Len(a[i + k]))}
<1>1. \A m \in 0 .. n : a[m] \in Buffers /\ Len(a[m]) \in Nat
  BY ValuesAre DEF Climbs
<1>2. ASSUME T # {} PROVE FALSE
  <2>1. PICK k \in T : \A m \in T : k <= m
    <3>1. T \subseteq Nat
      OBVIOUS
    <3> HIDE DEF T
    <3> QED
      BY <1>2, <3>1, LeastNat
  <2>2. k \in Nat /\ i + k <= n /\ ~(Len(a[i]) <= Len(a[i + k]))
    BY <2>1
  <2>3. k # 0
    <3>1. i + 0 = i /\ Len(a[i]) <= Len(a[i])
      BY <1>1
    <3> QED
      BY <2>2, <3>1
  <2> DEFINE m == i + k
  <2>4. /\ k - 1 \in Nat /\ i + (k - 1) <= n /\ ~(k <= k - 1) /\ i + (k - 1) = m - 1
        /\ m \in 1 .. n /\ m \in 0 .. n /\ m - 1 \in 0 .. n
    BY <2>2, <2>3
  <2> HIDE DEF m
  <2>5. Len(a[i]) <= Len(a[m - 1])
    <3>1. k - 1 \notin T
      <4> HIDE DEF T
      <4> QED
        BY <2>1, <2>4
    <3> QED
      BY <2>4, <3>1
  <2>6. Len(a[m]) >= Len(a[m - 1])
    <3>1. a[m] = ApplyLayer(L[m], a[m - 1], o) /\ a[m - 1] \in Buffers
      BY <1>1, <2>4 DEF Climbs
    <3> QED
      BY <3>1, LayerIs
  <2>7. Len(a[i]) \in Nat /\ Len(a[m]) \in Nat /\ Len(a[m - 1]) \in Nat
    BY <1>1, <2>4
  <2>8. ~(Len(a[i]) <= Len(a[m]))
    BY <2>2 DEF m
  <2> HIDE DEF T
  <2> QED
    BY <2>5, <2>6, <2>7, <2>8
<1>3. j - i \in Nat /\ i + (j - i) = j /\ i + (j - i) <= n
  OBVIOUS
<1>4. Len(a[i]) <= Len(a[j])
  BY <1>2, <1>3
<1> QED
  BY <1>1, <1>4

(* And the buffers b after each of them has come off again. *)
Descends(n, L, s, b) ==
  /\ b \in [0 .. n -> Buffers]
  /\ \A i \in 1 .. n : b[i] = ReverseLayer(L[n - i + 1], b[i - 1], s)

(* After j layers off, b is where a was before they went on. *)
Level(n, o, s, a, b, j) ==
  /\ b[j] = NoFrame \/ Same(b[j], a[n - j])
  /\ s = o /\ a[0] # <<>> => b[j] = a[n - j]

Undoing(n, L, o, s, a, b) ==
  /\ Padding /\ Climbs(n, L, o, a) /\ Descends(n, L, s, b)
  /\ Len(a[n]) < TOO_LONG /\ b[0] = a[n]

LEMMA LevelStep ==
  ASSUME NEW n \in Nat, NEW L, NEW o \in Int, NEW s \in Int, NEW a, NEW b,
         Undoing(n, L, o, s, a, b),
         NEW j \in 1 .. n, Level(n, o, s, a, b, j - 1)
  PROVE  Level(n, o, s, a, b, j)
<1> DEFINE i == n - j + 1
           k == j - 1
           x == a[i - 1]
           y == b[k]
<1>1. /\ k \in 0 .. n /\ i \in 1 .. n /\ i - 1 = n - j /\ n - k = i
      /\ i - 1 \in 0 .. n /\ n \in 0 .. n /\ i - 1 <= n /\ 0 \in 0 .. n /\ 0 <= i - 1
      /\ n - j + 1 = i /\ j - 1 = k
  OBVIOUS
<1> HIDE DEF i, k
<1>0. Padding /\ Climbs(n, L, o, a) /\ Descends(n, L, s, b) /\ Len(a[n]) < TOO_LONG
  BY DEF Undoing
<1>2. x \in Buffers /\ Len(x) \in Nat /\ Len(a[n]) \in Nat /\ Len(x) <= Len(a[n])
  BY <1>0, <1>1, ClimbGrows
<1>3. a[0] \in Buffers /\ Len(a[0]) \in Nat /\ Len(a[0]) <= Len(x)
  BY <1>0, <1>1, ClimbGrows
<1>4. Len(x) < TOO_LONG
  <2> HIDE DEF x
  <2> QED
    BY <1>0, <1>2, TooLong
<1>5. a[i] = ApplyLayer(L[i], x, o)
  BY <1>0, <1>1 DEF Climbs
<1>6. y \in Buffers /\ b[j] = ReverseLayer(L[i], y, s)
  BY <1>0, <1>1 DEF Descends
<1> HIDE DEF x, y
<1>7. /\ y = NoFrame \/ Same(y, ApplyLayer(L[i], x, o))
      /\ s = o /\ a[0] # <<>> => y = ApplyLayer(L[i], x, o)
  <2>1. Level(n, o, s, a, b, k)
    BY <1>1
  <2> QED
    BY <1>1, <1>5, <2>1 DEF Level, y
<1>8. /\ ReverseLayer(L[i], y, s) = NoFrame \/ Same(ReverseLayer(L[i], y, s), x)
      /\ s = o /\ y = ApplyLayer(L[i], x, o) /\ x # <<>> => ReverseLayer(L[i], y, s) = x
  <2> DEFINE l == L[i]
  <2> HIDE DEF l
  <2>1. Over(l, x, o, y)
    BY <1>0, <1>2, <1>4, <1>6, <1>7 DEF l, Over
  <2>2. Below(l, x, o, s, y)
    BY <2>1, LayerUndone
  <2> QED
    BY <2>2 DEF l, Below
<1>9. a[0] # <<>> => x # <<>>
  <2>1. a[0] # <<>> => Len(a[0]) # 0
    BY <1>3, EmptySeq DEF Buffers
  <2>2. x = <<>> => Len(x) = 0
    BY EmptySeq
  <2> QED
    BY <1>2, <1>3, <2>1, <2>2
<1>10. a[n - j] = x
  BY <1>1 DEF x
<1> QED
  BY <1>6, <1>7, <1>8, <1>9, <1>10 DEF Level

LEMMA LevelEnd ==
  ASSUME NEW n \in Nat, NEW L, NEW o \in Int, NEW s \in Int, NEW a, NEW b,
         Undoing(n, L, o, s, a, b)
  PROVE  Level(n, o, s, a, b, n)
<1> DEFINE T == {j \in Nat : j <= n /\ ~Level(n, o, s, a, b, j)}
<1>1. ASSUME T # {} PROVE FALSE
  <2>1. PICK j \in T : \A k \in T : j <= k
    <3>1. T \subseteq Nat
      OBVIOUS
    <3> HIDE DEF T
    <3> QED
      BY <1>1, <3>1, LeastNat
  <2>2. j \in Nat /\ j <= n /\ ~Level(n, o, s, a, b, j)
    BY <2>1
  <2>3. Level(n, o, s, a, b, 0)
    <3>1. n - 0 = n
      OBVIOUS
    <3> QED
      BY <3>1 DEF Level, Same, Undoing
  <2>4. j \in 1 .. n /\ j - 1 \in Nat /\ j - 1 <= n /\ ~(j <= j - 1)
    BY <2>2, <2>3
  <2>5. j - 1 \notin T
    <3> HIDE DEF T
    <3> QED
      BY <2>1, <2>4
  <2>6. Level(n, o, s, a, b, j - 1)
    BY <2>4, <2>5
  <2> HIDE DEF T
  <2> QED
    BY <2>2, <2>4, <2>6, LevelStep
<1> QED
  BY <1>1

(* Taken off by any session, the layers leave the frame's bytes, perhaps   *)
(* under a keystream, or nothing; taken off by its own session, the frame. *)
LEMMA StackUndone ==
  ASSUME Padding, Stack \in Seq(STRING), NEW f \in Buffers, NEW o \in Int, NEW s \in Int,
         Len(Apply(f, o)) < TOO_LONG
  PROVE  /\ Apply(f, o) \in Buffers /\ Len(Apply(f, o)) >= Len(f)
         /\ Unapply(Apply(f, o), s) \in Buffers
         /\ Unapply(Apply(f, o), s) = NoFrame \/ Same(Unapply(Apply(f, o), s), f)
         /\ s = o /\ f # <<>> => Unapply(Apply(f, o), s) = f
<1> DEFINE n == Len(Stack)
           L == Stack
           z == Apply(f, o)
<1>1. n \in Nat /\ n \in 0 .. n /\ 0 \in 0 .. n /\ 0 <= n /\ n - n = 0
  BY LenProperties
<1>2. PICK a \in [0 .. n -> Buffers] : Onto(f, o, a) /\ a[n] = z
  BY ApplySteps
<1>3. z \in Buffers
  BY <1>1, <1>2
<1>4. PICK b \in [0 .. n -> Buffers] : Off(z, s, b) /\ b[n] = Unapply(z, s)
  BY <1>3, UnapplySteps
<1>5. Len(z) < TOO_LONG
  OBVIOUS
<1> HIDE DEF z
<1>6. a[0] = f /\ Climbs(n, L, o, a)
  BY <1>2 DEF Onto, Climbs
<1>7. b[0] = a[n] /\ Descends(n, L, s, b)
  BY <1>2, <1>4 DEF Off, Descends
<1> HIDE DEF n, L
<1>8. Len(a[n]) < TOO_LONG
  BY <1>2, <1>5
<1>9. Level(n, o, s, a, b, n)
  <2>1. Undoing(n, L, o, s, a, b)
    BY <1>6, <1>7, <1>8 DEF Undoing
  <2> QED
    BY <1>1, <2>1, LevelEnd
<1>10. Len(a[0]) \in Nat /\ Len(a[n]) \in Nat /\ Len(a[0]) <= Len(a[n])
  BY <1>1, <1>6, ClimbGrows
<1>11. Len(z) >= Len(f)
  BY <1>2, <1>6, <1>10
<1>12. Unapply(z, s) \in Buffers
  BY <1>1, <1>4
<1>13. /\ Unapply(z, s) = NoFrame \/ Same(Unapply(z, s), f)
       /\ s = o /\ f # <<>> => Unapply(z, s) = f
  BY <1>1, <1>4, <1>6, <1>9 DEF Level
<1> QED
  BY <1>3, <1>11, <1>12, <1>13 DEF z

-----------------------------------------------------------------------------
(* The envelope *)

LEMMA Unwrapped ==
  ASSUME NEW env, env.tag \in Seq(Octets), NEW b \in Buffers
  PROVE  /\ Wrap(env, b) \in Buffers /\ Len(Wrap(env, b)) >= Len(b)
         /\ Unwrap(env, Wrap(env, b)) = b
<1> DEFINE g == env.tag
           p == Bytes(g)
           w == p \o b
<1>1. g \in Seq(Octets)
  OBVIOUS
<1> HIDE DEF g
<1>2. p \in Buffers /\ Len(p) = Len(g) /\ Values(p) = g
  BY <1>1, BytesAre
<1>3. Wrap(env, b) = w
  BY DEF Wrap, g
<1> HIDE DEF p
<1>4. Len(p) \in Nat /\ Len(b) \in Nat
  BY <1>2, ValuesAre
<1>5. w \in Buffers /\ Len(w) = Len(p) + Len(b) /\ At(w, 1, p) /\ At(w, Len(p) + 1, b)
  BY <1>2, ConcatProperties, AtParts DEF Buffers
<1> HIDE DEF w
<1>6. Len(w) \in Nat /\ Len(w) >= Len(b) /\ ~(Len(w) < Len(p))
  BY <1>4, <1>5
<1>7. SubSeq(w, 1, Len(p)) = p
  <2>1. Len(p) = 1 + Len(p) - 1
    BY <1>4
  <2> QED
    BY <1>2, <1>5, <2>1, AtSub DEF Buffers
<1>8. SubSeq(w, Len(p) + 1, Len(w)) = b
  <2>1. Len(w) = (Len(p) + 1) + Len(b) - 1 /\ Len(p) + 1 \in Nat \ {0}
    BY <1>4, <1>5
  <2> QED
    BY <1>5, <2>1, AtSub DEF Buffers
<1>9. Unwrap(env, w) = b
  BY <1>2, <1>6, <1>7, <1>8 DEF Unwrap, g
<1> QED
  BY <1>3, <1>5, <1>6, <1>9

(* What the profile and the configuration are made of. *)
Carried == Padding /\ Stack \in Seq(STRING) /\ profile.transport.tag \in Seq(Octets)

(* What a session gets out of bytes that another one, or itself, put on    *)
(* the wire. *)
Comes(f, o, s) ==
  LET u == UnwrapFrame(WrapFrame(f, o), s)
  IN  /\ WrapFrame(f, o) \in Buffers /\ u \in Buffers
      /\ u = NoFrame \/ Same(u, f)
      /\ s = o /\ f # <<>> => u = f

LEMMA FrameUndone ==
  ASSUME Carried, NEW f \in Buffers, NEW o \in Int, NEW s \in Int,
         Len(WrapFrame(f, o)) < TOO_LONG
  PROVE  Comes(f, o, s)
<1> DEFINE z == Apply(f, o)
           env == profile.transport
<1>1. env.tag \in Seq(Octets) /\ Padding /\ Stack \in Seq(STRING)
  BY DEF Carried
<1>2. z \in Buffers /\ WrapFrame(f, o) = Wrap(env, z)
  BY <1>1, ApplyIs DEF WrapFrame
<1> HIDE DEF z, env
<1>3. Wrap(env, z) \in Buffers /\ Len(Wrap(env, z)) >= Len(z) /\ Unwrap(env, Wrap(env, z)) = z
  BY <1>1, <1>2, Unwrapped
<1>4. Len(z) < TOO_LONG
  <2>1. Len(Wrap(env, z)) \in Nat /\ Len(z) \in Nat
    BY <1>2, <1>3, ValuesAre
  <2> QED
    BY <1>2, <1>3, <2>1, TooLong
<1>5. UnwrapFrame(WrapFrame(f, o), s) = Unapply(z, s)
  BY <1>2, <1>3 DEF UnwrapFrame, env
<1>6. /\ Unapply(z, s) \in Buffers
      /\ Unapply(z, s) = NoFrame \/ Same(Unapply(z, s), f)
      /\ s = o /\ f # <<>> => Unapply(z, s) = f
  BY <1>1, <1>4, StackUndone DEF z
<1> QED
  BY <1>2, <1>3, <1>5, <1>6 DEF Comes

-----------------------------------------------------------------------------
(* Numbers *)

LEMMA PlaceIs == Place[1] = 1 /\ Place[2] = 256 /\ Place[3] = 65536 /\ Place[4] = 16777216
BY SMT DEF Place

LEMMA FourDigits ==
  ASSUME NEW n \in Nat, n \div 16777216 < 256
  PROVE  n = (n % 256) + ((n \div 256) % 256) * 256 + ((n \div 65536) % 256) * 65536
             + ((n \div 16777216) % 256) * 16777216
<1> DEFINE a == n \div 256
           b == n \div 65536
           c == n \div 16777216
<1>1. a \in Nat /\ n = a * 256 + (n % 256)
  BY SMT
<1>2. b \in Nat /\ b = a \div 256
  BY SMT
<1>3. c \in Nat /\ c = b \div 256 /\ c < 256
  BY SMT
<1> HIDE DEF a, b, c
<1>4. a = b * 256 + (a % 256)
  BY <1>1, <1>2, SMT
<1>5. b = c * 256 + (b % 256)
  BY <1>2, <1>3, SMT
<1>6. c % 256 = c
  BY <1>3, SMT
<1>7. a % 256 \in Int /\ b % 256 \in Int /\ n % 256 \in Int
  BY <1>1, <1>2, SMT
<1> DEFINE x == a % 256
           y == b % 256
           z == n % 256
<1> HIDE DEF x, y, z
<1>8. n = z + x * 256 + y * 65536 + c * 16777216
  <2>1. a = b * 256 + x /\ b = c * 256 + y /\ n = a * 256 + z
    BY <1>1, <1>4, <1>5, SMT DEF x, y, z
  <2>2. x \in Int /\ y \in Int /\ z \in Int
    BY <1>7, SMT DEF x, y, z
  <2> QED
    BY <1>1, <1>2, <1>3, <2>1, <2>2, SMT
<1> QED
  BY <1>6, <1>8, SMT DEF a, b, c, x, y, z

LEMMA LEIs ==
  ASSUME NEW w \in {1, 2, 4}, NEW n \in Numbers(w)
  PROVE  /\ LE(n, w) \in Seq(Octets) /\ Len(LE(n, w)) = w
         /\ FromLE(LE(n, w)) = n
<1> DEFINE b == LE(n, w)
           q(i) == (n \div Place[i]) % 256
<1>1. n \in Nat /\ n \div Place[w] < 256
  BY DEF Numbers
<1>2. \A i \in 1 .. 4 : Place[i] \in {1, 256, 65536, 16777216}
  BY SMT DEF Place
<1>3. \A i \in 1 .. w : i \in 1 .. 4
  OBVIOUS
<1>4. b = [i \in 1 .. w |-> q(i)]
  BY DEF LE
<1>5. \A i \in 1 .. w : q(i) \in Octets
  <2> SUFFICES ASSUME NEW i \in 1 .. w PROVE q(i) \in Octets
    OBVIOUS
  <2> DEFINE k == Place[i]
  <2>1. k \in {1, 256, 65536, 16777216}
    BY <1>2, <1>3, SMT
  <2> HIDE DEF k
  <2>2. (n \div k) % 256 \in 0 .. 255
    BY <1>1, <2>1, SMT
  <2> QED
    BY <2>2 DEF k, Octets
<1>6. b \in Seq(Octets) /\ Len(b) = w
  <2> HIDE DEF q
  <2>1. b \in [1 .. w -> Octets]
    BY <1>4, <1>5
  <2>2. w \in Nat
    OBVIOUS
  <2> HIDE DEF b
  <2> QED
    BY <2>1, <2>2
<1>7. \A i \in 1 .. w : b[i] = q(i)
  BY <1>4
<1> HIDE DEF b
<1>8. CASE w = 1
  <2>1. FromLE(b) = b[1] * Place[1] + 0 + 0 + 0
    BY <1>6, <1>8 DEF FromLE
  <2>2. b[1] = n % 256
    BY <1>1, <1>7, <1>8, PlaceIs, SMT
  <2>3. n < 256
    BY <1>1, <1>8, PlaceIs, SMT
  <2> QED
    BY <1>1, <1>6, <2>1, <2>2, <2>3, PlaceIs, SMT DEF b
<1>9. CASE w = 2
  <2>1. FromLE(b) = b[1] * Place[1] + b[2] * Place[2] + 0 + 0
    BY <1>6, <1>9 DEF FromLE
  <2>2. b[1] = n % 256 /\ b[2] = (n \div 256) % 256
    BY <1>1, <1>7, <1>9, PlaceIs, SMT
  <2>3. n \div 256 < 256
    BY <1>1, <1>9, PlaceIs, SMT
  <2>4. (n \div 256) % 256 = n \div 256
    BY <1>1, <2>3, SMT
  <2>5. n = (n % 256) + (n \div 256) * 256
    BY <1>1, SMT
  <2>6. FromLE(b) = b[1] + b[2] * 256
    <3>1. b[1] \in Int /\ b[2] \in Int
      BY <1>1, <2>2, SMT
    <3> QED
      BY <2>1, <3>1, PlaceIs, SMT
  <2>7. FromLE(b) = n
    BY <2>2, <2>4, <2>5, <2>6
  <2> QED
    BY <1>6, <2>7 DEF b
<1>10. CASE w = 4
  <2>1. FromLE(b) = b[1] * Place[1] + b[2] * Place[2] + b[3] * Place[3] + b[4] * Place[4]
    BY <1>6, <1>10 DEF FromLE
  <2>2. /\ b[1] = n % 256 /\ b[2] = (n \div 256) % 256
        /\ b[3] = (n \div 65536) % 256 /\ b[4] = (n \div 16777216) % 256
    BY <1>1, <1>7, <1>10, PlaceIs, SMT
  <2>3. n \div 16777216 < 256
    BY <1>1, <1>10, PlaceIs, SMT
  <2>4. n = b[1] + b[2] * 256 + b[3] * 65536 + b[4] * 16777216
    BY <1>1, <2>2, <2>3, FourDigits, SMT
  <2>5. b[1] \in Int
    BY <1>1, <2>2, SMT
  <2>6. b[1] * Place[1] = b[1] /\ b[2] * Place[2] = b[2] * 256
        /\ b[3] * Place[3] = b[3] * 65536 /\ b[4] * Place[4] = b[4] * 16777216
    BY <2>5, PlaceIs, SMT
  <2>7. FromLE(b) = n
    BY <2>1, <2>4, <2>6, SMT
  <2> QED
    BY <1>6, <2>7 DEF b
<1> QED
  BY <1>8, <1>9, <1>10

-----------------------------------------------------------------------------
(* Fields laid end to end *)

Chained(n, base, h, c) == c[0] = base /\ \A i \in 1 .. n : c[i] = h[<<i, c[i - 1]>>]

LEMMA ChainExists ==
  ASSUME NEW n \in Nat, NEW W, NEW base \in W, NEW h \in [(1 .. n) \X W -> W]
  PROVE  \E c \in [0 .. n -> W] : Chained(n, base, h, c)
<1>1. PICK g \in [SUBSET (1 .. n) -> W] : Folding(n, base, h, g)
  BY FoldingExists
<1>2. \A t \in SUBSET (1 .. n) : g[t] = IF t = {} THEN base ELSE h[<<Max(t), g[t \ {Max(t)}]>>]
  BY <1>1 DEF Folding
<1> DEFINE c == [i \in 0 .. n |-> g[1 .. i]]
<1>3. c \in [0 .. n -> W]
  <2>1. \A i \in 0 .. n : 1 .. i \in SUBSET (1 .. n)
    OBVIOUS
  <2>2. \A i \in 0 .. n : g[1 .. i] \in W
    BY <1>1, <2>1
  <2> QED
    BY <2>2
<1>4. c[0] = base
  <2>1. 1 .. 0 = {} /\ {} \in SUBSET (1 .. n) /\ 0 \in 0 .. n
    OBVIOUS
  <2>2. g[{}] = base
    BY <1>2, <2>1
  <2> QED
    BY <2>1, <2>2
<1>5. ASSUME NEW i \in 1 .. n PROVE c[i] = h[<<i, c[i - 1]>>]
  <2>1. i \in 0 .. n /\ i - 1 \in 0 .. n
    OBVIOUS
  <2>2. /\ 1 .. i \in SUBSET (1 .. n) /\ 1 .. i # {} /\ Max(1 .. i) = i
        /\ (1 .. i) \ {i} = 1 .. (i - 1)
    BY UpTo
  <2>3. g[1 .. i] = h[<<i, g[1 .. (i - 1)]>>]
    BY <1>2, <2>2
  <2> QED
    BY <2>1, <2>3
<1> HIDE DEF c
<1> QED
  BY <1>3, <1>4, <1>5 DEF Chained

(* The parts of q: P[i] is made of those up to the i-th, R[i] of the rest. *)
Parts(q, P) ==
  /\ P \in [0 .. Len(q) -> Seq(Octets)] /\ P[0] = <<>> /\ P[Len(q)] = FlattenSeq(q)
  /\ \A i \in 1 .. Len(q) : P[i] = P[i - 1] \o q[i]

LEMMA PartsExist ==
  ASSUME NEW q \in Seq(Seq(Octets)), q # <<>>
  PROVE  \E P : Parts(q, P)
<1> DEFINE n == Len(q)
           W == Seq(Octets)
           h == [p \in (1 .. n) \X W |-> p[2] \o q[p[1]]]
           F(f) == f = [i \in 1 .. n |-> IF i = 1 THEN q[i] ELSE f[i - 1] \o q[i]]
<1>1. n \in Nat \ {0} /\ \A i \in 1 .. n : q[i] \in W
  BY EmptySeq, ElementOfSeq
<1>2. FlattenSeq(q) = (CHOOSE f : F(f))[n]
  BY <1>1 DEF FlattenSeq
<1> HIDE DEF n
<1>3. <<>> \in W /\ \A x \in W : \A y \in W : x \o y \in W /\ <<>> \o y = y
  BY EmptySeq, ConcatProperties, ConcatEmptySeq
<1> HIDE DEF W
<1>4. h \in [(1 .. n) \X W -> W] /\ \A i \in 1 .. n : \A w \in W : h[<<i, w>>] = w \o q[i]
  BY <1>1, <1>3
<1> HIDE DEF h
<1>5. PICK c \in [0 .. n -> W] : Chained(n, <<>>, h, c)
  BY <1>1, <1>3, <1>4, ChainExists
<1>6. c[0] = <<>> /\ \A i \in 1 .. n : c[i] = c[i - 1] \o q[i]
  <2>1. c[0] = <<>> /\ \A i \in 1 .. n : c[i] = h[<<i, c[i - 1]>>]
    BY <1>5 DEF Chained
  <2>2. \A i \in 1 .. n : c[i - 1] \in W
    BY <1>1, <1>5
  <2> QED
    BY <1>4, <2>1, <2>2
<1> DEFINE g == [i \in 1 .. n |-> c[i]]
<1>7. F(g)
  <2>1. ASSUME NEW i \in 1 .. n PROVE g[i] = IF i = 1 THEN q[i] ELSE g[i - 1] \o q[i]
    <3>1. CASE i = 1
      <4>1. c[1] = c[1 - 1] \o q[1] /\ 1 - 1 = 0 /\ <<>> \o q[1] = q[1]
        <5>1. 1 \in 1 .. n
          BY <3>1
        <5>2. q[1] \in W
          BY <1>1, <5>1
        <5>3. c[1] = c[1 - 1] \o q[1]
          BY <1>6, <5>1
        <5> QED
          BY <1>3, <5>2, <5>3
      <4> QED
        BY <1>6, <3>1, <4>1
    <3>2. CASE i # 1
      <4>1. i - 1 \in 1 .. n
        BY <1>1, <3>2
      <4> QED
        BY <1>6, <3>2, <4>1
    <3> QED
      BY <3>1, <3>2
  <2> QED
    BY <2>1
<1> HIDE DEF g
<1> DEFINE f == CHOOSE f : F(f)
<1>8. F(f)
  <2> HIDE DEF F
  <2> QED
    BY <1>7
<1>9. FlattenSeq(q) = f[n]
  BY <1>2
<1> HIDE DEF f
<1> DEFINE P == [i \in 0 .. n |-> IF i = 0 THEN <<>> ELSE f[i]]
<1>10. P[0] = <<>> /\ P[n] = f[n]
  BY <1>1
<1>11. ASSUME NEW i \in 1 .. n PROVE P[i] = P[i - 1] \o q[i]
  <2>1. i \in 0 .. n /\ i - 1 \in 0 .. n /\ i # 0
    BY <1>1
  <2>2. CASE i = 1
    <3>1. P[i - 1] = <<>> /\ P[i] = q[i] /\ q[i] \in W
      BY <1>1, <1>8, <2>1, <2>2
    <3> QED
      BY <1>3, <3>1
  <2>3. CASE i # 1
    <3>1. i - 1 # 0
      BY <2>3
    <3>2. P[i - 1] = f[i - 1] /\ P[i] = f[i]
      BY <2>1, <3>1
    <3> QED
      BY <1>8, <2>3, <3>2
  <2> QED
    BY <2>2, <2>3
<1> DEFINE T == {m \in Nat : m \in 0 .. n /\ P[m] \notin W}
<1>12. ASSUME T # {} PROVE FALSE
  <2>1. PICK m \in T : \A k \in T : m <= k
    <3>1. T \subseteq Nat
      OBVIOUS
    <3> HIDE DEF T
    <3> QED
      BY <1>12, <3>1, LeastNat
  <2>2. m \in 0 .. n /\ P[m] \notin W /\ m # 0
    BY <1>3, <1>10, <2>1
  <2> HIDE DEF P
  <2>3. m \in 1 .. n /\ m - 1 \in 0 .. n /\ m - 1 \in Nat /\ ~(m <= m - 1)
    BY <1>1, <2>2
  <2>4. P[m - 1] \in W
    BY <2>1, <2>3
  <2>5. P[m] = P[m - 1] \o q[m] /\ q[m] \in W
    BY <1>1, <1>11, <2>3
  <2> QED
    BY <1>3, <2>2, <2>4, <2>5
<1>13. P \in [0 .. n -> W]
  <2>1. ASSUME NEW i \in 0 .. n PROVE P[i] \in W
    <3>1. i \in Nat
      BY <1>1
    <3> HIDE DEF P
    <3> QED
      BY <1>12, <3>1
  <2> QED
    BY <2>1
<1> HIDE DEF P
<1>14. Parts(q, P)
  BY <1>9, <1>10, <1>11, <1>13 DEF Parts, n, W
<1> QED
  BY <1>14

Rests(q, R) ==
  /\ R \in [0 .. Len(q) -> Seq(Octets)] /\ R[Len(q)] = <<>>
  /\ \A i \in 1 .. Len(q) : R[i - 1] = q[i] \o R[i]

LEMMA RestsExist ==
  ASSUME NEW q \in Seq(Seq(Octets)), q # <<>>
  PROVE  \E R : Rests(q, R)
<1> DEFINE n == Len(q)
           W == Seq(Octets)
           h == [p \in (1 .. n) \X W |-> q[n - p[1] + 1] \o p[2]]
<1>1. n \in Nat \ {0} /\ \A i \in 1 .. n : q[i] \in W
  BY EmptySeq, ElementOfSeq
<1> HIDE DEF n
<1>2. <<>> \in W /\ \A x \in W : \A y \in W : x \o y \in W
  BY EmptySeq, ConcatProperties
<1> HIDE DEF W
<1>3. \A i \in 1 .. n : n - i + 1 \in 1 .. n /\ n - i \in 0 .. n /\ n - (i - 1) = n - i + 1
                        /\ i - 1 \in 0 .. n /\ n - (n - i + 1) + 1 = i /\ (n - i + 1) - 1 = n - i
  BY <1>1
<1>4. h \in [(1 .. n) \X W -> W] /\ \A i \in 1 .. n : \A w \in W : h[<<i, w>>] = q[n - i + 1] \o w
  <2>1. \A p \in (1 .. n) \X W : q[n - p[1] + 1] \o p[2] \in W
    <3> SUFFICES ASSUME NEW p \in (1 .. n) \X W PROVE q[n - p[1] + 1] \o p[2] \in W
      OBVIOUS
    <3>1. p[1] \in 1 .. n /\ p[2] \in W
      OBVIOUS
    <3> QED
      BY <1>1, <1>2, <1>3, <3>1
  <2> QED
    BY <2>1
<1> HIDE DEF h
<1>5. PICK c \in [0 .. n -> W] : Chained(n, <<>>, h, c)
  BY <1>1, <1>2, <1>4, ChainExists
<1>6. c[0] = <<>> /\ \A i \in 1 .. n : c[i] = q[n - i + 1] \o c[i - 1]
  <2>1. c[0] = <<>> /\ \A i \in 1 .. n : c[i] = h[<<i, c[i - 1]>>]
    BY <1>5 DEF Chained
  <2>2. \A i \in 1 .. n : c[i - 1] \in W
    BY <1>3, <1>5
  <2> QED
    BY <1>4, <2>1, <2>2
<1> DEFINE R == [i \in 0 .. n |-> c[n - i]]
<1>7. R \in [0 .. n -> W] /\ R[n] = <<>>
  <2>1. \A i \in 0 .. n : n - i \in 0 .. n
    BY <1>1
  <2>2. n \in 0 .. n /\ n - n = 0
    BY <1>1
  <2> QED
    BY <1>5, <1>6, <2>1, <2>2
<1>8. ASSUME NEW i \in 1 .. n PROVE R[i - 1] = q[i] \o R[i]
  <2> DEFINE k == n - i + 1
  <2>1. /\ k \in 1 .. n /\ n - (i - 1) = k /\ n - k + 1 = i /\ k - 1 = n - i
        /\ i - 1 \in 0 .. n /\ i \in 0 .. n
    BY <1>1, <1>3
  <2> HIDE DEF k
  <2>2. c[k] = q[i] \o c[n - i]
    BY <1>6, <2>1
  <2>3. R[i - 1] = c[k] /\ R[i] = c[n - i]
    BY <2>1
  <2> QED
    BY <2>2, <2>3
<1> HIDE DEF R
<1>9. Rests(q, R)
  BY <1>7, <1>8 DEF Rests, n, W
<1> QED
  BY <1>9

LEMMA Regroup ==
  ASSUME NEW x \in Seq(Octets), NEW y \in Seq(Octets), NEW w \in Seq(Octets)
  PROVE  (x \o y) \o w = x \o (y \o w)
BY ConcatAssociative

(* The whole is what comes before and what comes after. *)
LEMMA PartsAndRests ==
  ASSUME NEW q \in Seq(Seq(Octets)), q # <<>>, NEW P, NEW R, Parts(q, P), Rests(q, R),
         NEW i \in 0 .. Len(q)
  PROVE  P[i] \in Seq(Octets) /\ R[i] \in Seq(Octets) /\ P[i] \o R[i] = FlattenSeq(q)
<1> DEFINE n == Len(q)
           W == Seq(Octets)
           z == FlattenSeq(q)
           T == {k \in Nat : k <= n /\ P[n - k] \o R[n - k] # z}
<1>1. n \in Nat \ {0} /\ \A j \in 1 .. n : q[j] \in W
  BY EmptySeq, ElementOfSeq
<1>2. \A j \in 0 .. n : P[j] \in W /\ R[j] \in W
  BY DEF Parts, Rests
<1>3. /\ P[n] = z /\ R[n] = <<>>
      /\ \A j \in 1 .. n : P[j] = P[j - 1] \o q[j] /\ R[j - 1] = q[j] \o R[j]
  BY DEF Parts, Rests
<1> HIDE DEF n, z
<1>4. ASSUME T # {} PROVE FALSE
  <2>1. PICK k \in T : \A m \in T : k <= m
    <3>1. T \subseteq Nat
      OBVIOUS
    <3> HIDE DEF T
    <3> QED
      BY <1>4, <3>1, LeastNat
  <2>2. k \in Nat /\ k <= n /\ P[n - k] \o R[n - k] # z
    BY <2>1
  <2>3. k # 0
    <3>1. n - 0 = n /\ n \in 0 .. n
      BY <1>1
    <3>2. P[n] \o <<>> = P[n]
      BY <1>2, <3>1, ConcatEmptySeq
    <3> QED
      BY <1>3, <2>2, <3>1, <3>2
  <2> DEFINE j == n - k + 1
  <2>4. /\ k - 1 \in Nat /\ k - 1 <= n /\ ~(k <= k - 1) /\ n - (k - 1) = j
        /\ j \in 1 .. n /\ j \in 0 .. n /\ j - 1 \in 0 .. n /\ j - 1 = n - k
    BY <1>1, <2>2, <2>3
  <2> HIDE DEF j
  <2>5. P[j] \o R[j] = z
    <3>1. k - 1 \notin T
      <4> HIDE DEF T
      <4> QED
        BY <2>1, <2>4
    <3> QED
      BY <2>4, <3>1
  <2>6. P[j] = P[j - 1] \o q[j] /\ R[j - 1] = q[j] \o R[j]
    BY <1>3, <2>4
  <2>7. P[j - 1] \in W /\ q[j] \in W /\ R[j] \in W
    BY <1>1, <1>2, <2>4
  <2>8. (P[j - 1] \o q[j]) \o R[j] = P[j - 1] \o (q[j] \o R[j])
    <3> DEFINE x == P[j - 1]
               y == q[j]
               w == R[j]
    <3> HIDE DEF x, y, w
    <3>1. x \in Seq(Octets) /\ y \in Seq(Octets) /\ w \in Seq(Octets)
      BY <2>7 DEF x, y, w
    <3>2. (x \o y) \o w = x \o (y \o w)
      BY <3>1, Regroup
    <3> QED
      BY <3>2 DEF x, y, w
  <2> HIDE DEF T
  <2> QED
    BY <2>2, <2>4, <2>5, <2>6, <2>8
<1>5. n - i \in Nat /\ n - i <= n /\ n - (n - i) = i
  BY <1>1 DEF n
<1>6. P[i] \o R[i] = z
  BY <1>4, <1>5
<1> QED
  BY <1>2, <1>6 DEF n, z

-----------------------------------------------------------------------------
(* Headers *)

Names == Range(Fields)

LEMMA FieldIs ==
  /\ Len(Fields) = 11 /\ DOMAIN Fields = 1 .. 11
  /\ \A i \in 1 .. 11 : Fields[i] \in Names
  /\ \A f \in Names : \E i \in 1 .. 11 : Fields[i] = f
<1>1. Len(Fields) = 11 /\ DOMAIN Fields = 1 .. 11
  BY DEF Fields
<1> QED
  BY <1>1 DEF Names, Range

LEMMA FieldsDiffer ==
  ASSUME NEW i \in 1 .. 11, NEW j \in 1 .. 11, Fields[i] = Fields[j]
  PROVE  i = j
BY SMTT(60) DEF Fields

LEMMA FieldNames ==
  /\ Fields[1] = "version" /\ Fields[2] = "packet_type" /\ Fields[3] = "session_id"
  /\ Fields[4] = "seq" /\ Fields[5] = "ack_seq" /\ Fields[6] = "ack_bitmap"
  /\ Fields[7] = "fec_group" /\ Fields[8] = "fec_index" /\ Fields[9] = "fec_k"
  /\ Fields[10] = "fec_m" /\ Fields[11] = "flags"
BY DEF Fields

LEMMA WidthIs ==
  /\ Width[Fields[1]] = 1 /\ Width[Fields[2]] = 1 /\ Width[Fields[3]] = 4
  /\ Width[Fields[4]] = 4 /\ Width[Fields[5]] = 4 /\ Width[Fields[6]] = 4
  /\ Width[Fields[7]] = 2 /\ Width[Fields[8]] = 1 /\ Width[Fields[9]] = 1
  /\ Width[Fields[10]] = 1 /\ Width[Fields[11]] = 1
<1>1. \A i \in 1 .. 11 : Fields[i] \in Range(Fields)
  BY FieldIs DEF Names
<1>2. \A i \in 1 .. 11 : Width[Fields[i]] =
        CASE Fields[i] \in {"session_id", "seq", "ack_seq", "ack_bitmap"} -> 4
          [] Fields[i] = "fec_group" -> 2
          [] OTHER -> 1
  BY <1>1 DEF Width
<1> QED
  BY <1>2, FieldNames

LEMMA WidthsAre == \A i \in 1 .. 11 : Width[Fields[i]] \in {1, 2, 4}
<1> SUFFICES ASSUME NEW i \in 1 .. 11 PROVE Width[Fields[i]] \in {1, 2, 4}
  OBVIOUS
<1>1. i \in {1, 2, 3, 4, 5, 6, 7, 8, 9, 10, 11}
  OBVIOUS
<1> QED
  BY <1>1, WidthIs

(* The headers that this build writes, and those of a later one. *)
Headers ==
  {h \in [Names -> Nat] :
     /\ \A f \in Names : h[f] \in Numbers(Width[f])
     /\ h["version"] = PROTOCOL_VERSION /\ h["packet_type"] \in PacketTypes}

LEMMA TruncatedIs ==
  ASSUME NEW h \in Headers
  PROVE  /\ h.flags = 0 => Truncated(h) = h
         /\ h.packet_type = h["packet_type"] /\ h.seq = h["seq"] /\ h.flags = h["flags"]
         /\ h # BadHeader /\ h.packet_type # 0
<1>1. h \in [Names -> Nat] /\ h["packet_type"] \in 1 .. 9
  BY DEF Headers, PacketTypes
<1>2. h.flags = 0 => Truncated(h) = h
  BY <1>1 DEF Truncated
<1>3. h.packet_type = h["packet_type"] /\ h.seq = h["seq"] /\ h.flags = h["flags"]
  OBVIOUS
<1>4. h # BadHeader
  <2>1. DOMAIN h = Names /\ "version" \in Names
    BY <1>1, FieldIs, FieldNames
  <2>2. DOMAIN BadHeader = {"malformed"}
    BY DEF BadHeader
  <2> QED
    BY <2>1, <2>2
<1>5. h.packet_type # 0
  BY <1>1, <1>3
<1> QED
  BY <1>2, <1>3, <1>4, <1>5

Laid(h) == [i \in DOMAIN Fields |-> LE(h[Fields[i]], Width[Fields[i]])]

LEMMA LaidIs ==
  ASSUME NEW h \in Headers
  PROVE  /\ Laid(h) \in Seq(Seq(Octets)) /\ Len(Laid(h)) = 11 /\ Laid(h) # <<>>
         /\ \A i \in 1 .. 11 : /\ Laid(h)[i] = LE(h[Fields[i]], Width[Fields[i]])
                               /\ Laid(h)[i] \in Seq(Octets)
                               /\ Len(Laid(h)[i]) = Width[Fields[i]]
                               /\ FromLE(Laid(h)[i]) = h[Fields[i]]
<1>1. ASSUME NEW i \in 1 .. 11
      PROVE  /\ LE(h[Fields[i]], Width[Fields[i]]) \in Seq(Octets)
             /\ Len(LE(h[Fields[i]], Width[Fields[i]])) = Width[Fields[i]]
             /\ FromLE(LE(h[Fields[i]], Width[Fields[i]])) = h[Fields[i]]
  <2> DEFINE n == h[Fields[i]]
             w == Width[Fields[i]]
  <2>1. w \in {1, 2, 4}
    BY WidthsAre
  <2>2. n \in Numbers(w)
    BY FieldIs DEF Headers
  <2> HIDE DEF n, w
  <2>3. LE(n, w) \in Seq(Octets) /\ Len(LE(n, w)) = w /\ FromLE(LE(n, w)) = n
    BY <2>1, <2>2, LEIs
  <2> QED
    BY <2>3 DEF n, w
<1>2. Laid(h) = [i \in 1 .. 11 |-> LE(h[Fields[i]], Width[Fields[i]])]
  BY FieldIs DEF Laid
<1>3. \A i \in 1 .. 11 : Laid(h)[i] = LE(h[Fields[i]], Width[Fields[i]])
  BY <1>2
<1>4. Laid(h) \in [1 .. 11 -> Seq(Octets)]
  BY <1>1, <1>2
<1> DEFINE q == Laid(h)
<1> HIDE DEF q
<1>5. q \in Seq(Seq(Octets)) /\ Len(q) = 11
  <2> DEFINE W == Seq(Octets)
  <2> HIDE DEF W
  <2>1. q \in [1 .. 11 -> W]
    BY <1>4 DEF q, W
  <2>2. q \in Seq(W) /\ Len(q) = 11
    <3>1. \A i \in 1 .. 11 : q[i] \in W
      BY <2>1
    <3>2. q = [i \in 1 .. 11 |-> q[i]]
      BY <2>1
    <3>3. [i \in 1 .. 11 |-> q[i]] \in Seq(W) /\ Len([i \in 1 .. 11 |-> q[i]]) = 11
      BY <3>1
    <3> QED
      BY <3>2, <3>3
  <2> QED
    BY <2>2 DEF W
<1>6. q # <<>>
  <2>1. Len(q) # 0
    BY <1>5
  <2> QED
    BY <2>1
<1> QED
  BY <1>1, <1>3, <1>5, <1>6 DEF q

LEMMA PieceAt ==
  ASSUME NEW q \in Seq(Seq(Octets)), q # <<>>, NEW P, NEW R, Parts(q, P), Rests(q, R),
         NEW i \in 1 .. Len(q)
  PROVE  /\ FlattenSeq(q) \in Seq(Octets)
         /\ At(FlattenSeq(q), Len(P[i - 1]) + 1, q[i])
         /\ Len(P[0]) = 0 /\ Len(P[i]) = Len(P[i - 1]) + Len(q[i])
         /\ P[Len(q)] = FlattenSeq(q)
<1> DEFINE z == FlattenSeq(q)
           a == P[i - 1]
           b == q[i]
           c == R[i]
           d == R[i - 1]
<1>1. Len(q) \in Nat /\ i - 1 \in 0 .. Len(q) /\ i \in 0 .. Len(q)
  BY LenProperties
<1>2. a \in Seq(Octets) /\ d \in Seq(Octets) /\ a \o d = z
  BY <1>1, PartsAndRests
<1>3. c \in Seq(Octets)
  BY <1>1, PartsAndRests
<1>4. b \in Seq(Octets)
  BY ElementOfSeq
<1>5. d = b \o c /\ P[i] = a \o b /\ P[0] = <<>> /\ P[Len(q)] = z
  BY DEF Parts, Rests
<1> HIDE DEF z, a, b, c, d
<1>6. At(a \o d, Len(a) + 1, d)
  BY <1>2, AtParts
<1>7. At(b \o c, 1, b)
  BY <1>3, <1>4, AtParts
<1>8. z \in Seq(Octets) /\ Len(z) \in Nat /\ Len(d) \in Nat /\ Len(b) \in Nat /\ Len(a) \in Nat
  <2>1. a \o d \in Seq(Octets)
    BY <1>2, ConcatProperties
  <2>2. z \in Seq(Octets)
    BY <1>2, <2>1
  <2> QED
    BY <1>2, <1>4, <2>2, LenProperties
<1>9. At(z, (Len(a) + 1) + 1 - 1, b)
  <2>1. At(z, Len(a) + 1, d) /\ At(d, 1, b)
    BY <1>2, <1>5, <1>6, <1>7
  <2>2. Len(a) + 1 \in Nat \ {0} /\ 1 \in Nat \ {0}
    BY <1>8
  <2> QED
    BY <1>8, <2>1, <2>2, AtIn
<1>10. (Len(a) + 1) + 1 - 1 = Len(a) + 1
  BY <1>8
<1>11. Len(a \o b) = Len(a) + Len(b)
  BY <1>2, <1>4, ConcatProperties
<1>12. Len(P[0]) = 0
  BY <1>5, EmptySeq
<1> QED
  BY <1>5, <1>8, <1>9, <1>10, <1>11, <1>12 DEF z, a, b

LEMMA OffsetIs ==
  /\ Offset[1] = 0 /\ Offset[2] = 1 /\ Offset[3] = 2 /\ Offset[4] = 6 /\ Offset[5] = 10
  /\ Offset[6] = 14 /\ Offset[7] = 18 /\ Offset[8] = 20 /\ Offset[9] = 21 /\ Offset[10] = 22
  /\ Offset[11] = 23
BY DEF Offset

LEMMA V1Is ==
  ASSUME NEW h \in Headers
  PROVE  /\ WriteV1(h) \in Seq(Octets) /\ Len(WriteV1(h)) = 24
         /\ \A i \in 1 .. 11 : At(WriteV1(h), Offset[i] + 1, Laid(h)[i]) /\ Offset[i] \in Nat
<1> DEFINE q == Laid(h)
           z == FlattenSeq(q)
<1>1. /\ q \in Seq(Seq(Octets)) /\ Len(q) = 11 /\ q # <<>>
      /\ \A i \in 1 .. 11 : Len(q[i]) = Width[Fields[i]]
  BY LaidIs
<1>2. WriteV1(h) = z
  BY DEF WriteV1, Laid
<1> HIDE DEF q
<1>3. PICK P : Parts(q, P)
  BY <1>1, PartsExist
<1>4. PICK R : Rests(q, R)
  BY <1>1, RestsExist
<1>5. \A i \in 1 .. 11 : /\ z \in Seq(Octets) /\ At(z, Len(P[i - 1]) + 1, q[i])
                         /\ Len(P[0]) = 0 /\ Len(P[i]) = Len(P[i - 1]) + Width[Fields[i]]
                         /\ P[11] = z
  <2> SUFFICES ASSUME NEW i \in 1 .. 11
               PROVE  /\ z \in Seq(Octets) /\ At(z, Len(P[i - 1]) + 1, q[i])
                      /\ Len(P[0]) = 0 /\ Len(P[i]) = Len(P[i - 1]) + Width[Fields[i]]
                      /\ P[11] = z
    OBVIOUS
  <2>1. i \in 1 .. Len(q)
    BY <1>1
  <2>2. /\ z \in Seq(Octets) /\ At(z, Len(P[i - 1]) + 1, q[i])
        /\ Len(P[0]) = 0 /\ Len(P[i]) = Len(P[i - 1]) + Len(q[i]) /\ P[Len(q)] = z
    BY <1>1, <1>3, <1>4, <2>1, PieceAt
  <2> QED
    BY <1>1, <2>2
<1> HIDE DEF z
<1> DEFINE n(i) == Len(P[i])
<1>6. \A i \in 1 .. 11 : n(0) = 0 /\ n(i) = n(i - 1) + Width[Fields[i]]
  BY <1>5
<1> HIDE DEF n
<1>7. n(0) = 0 /\ n(1) = 1 /\ n(2) = 2 /\ n(3) = 6 /\ n(4) = 10
  <2>1. n(0) = 0 /\ n(1) = n(1 - 1) + 1 /\ n(2) = n(2 - 1) + 1 /\ n(3) = n(3 - 1) + 4
        /\ n(4) = n(4 - 1) + 4
    BY <1>6, WidthIs
  <2> QED
    BY <2>1
<1>8. n(5) = 14 /\ n(6) = 18 /\ n(7) = 20 /\ n(8) = 21
  <2>1. n(5) = n(5 - 1) + 4 /\ n(6) = n(6 - 1) + 4 /\ n(7) = n(7 - 1) + 2 /\ n(8) = n(8 - 1) + 1
    BY <1>6, WidthIs
  <2> QED
    BY <1>7, <2>1
<1>9. n(9) = 22 /\ n(10) = 23 /\ n(11) = 24
  <2>1. n(9) = n(9 - 1) + 1 /\ n(10) = n(10 - 1) + 1 /\ n(11) = n(11 - 1) + 1
    BY <1>6, WidthIs
  <2> QED
    BY <1>8, <2>1
<1>10. ASSUME NEW i \in 1 .. 11 PROVE n(i - 1) = Offset[i] /\ Offset[i] \in Nat
  <2>1. i \in {1, 2, 3, 4, 5, 6, 7, 8, 9, 10, 11}
    OBVIOUS
  <2>2. \A k \in {1, 2, 3, 4, 5} : n(k - 1) = Offset[k] /\ Offset[k] \in Nat
    BY <1>7, OffsetIs
  <2>3. \A k \in {6, 7, 8, 9, 10, 11} : n(k - 1) = Offset[k] /\ Offset[k] \in Nat
    BY <1>8, <1>9, OffsetIs
  <2> QED
    BY <2>1, <2>2, <2>3
<1>11. z \in Seq(Octets) /\ Len(z) = 24
  <2>1. 11 \in 1 .. 11
    OBVIOUS
  <2> QED
    BY <1>5, <1>9, <2>1 DEF n
<1>12. \A i \in 1 .. 11 : At(z, Offset[i] + 1, q[i]) /\ Offset[i] \in Nat
  BY <1>5, <1>10 DEF n
<1> QED
  BY <1>2, <1>11, <1>12 DEF q

(* The place of a field. *)
LEMMA FieldAt ==
  ASSUME NEW k \in 1 .. 11
  PROVE  (CHOOSE i \in DOMAIN Fields : Fields[i] = Fields[k]) = k
<1>1. k \in DOMAIN Fields /\ \A i \in DOMAIN Fields : i \in 1 .. 11
  BY FieldIs
<1>2. \A i \in DOMAIN Fields : Fields[i] = Fields[k] => i = k
  BY <1>1, FieldsDiffer
<1> QED
  BY <1>1, <1>2

LEMMA OneByte ==
  ASSUME NEW n \in Numbers(1)
  PROVE  LE(n, 1)[1] = n
<1>1. n \in Nat /\ n \div 1 < 256
  BY PlaceIs, SMT DEF Numbers
<1>2. LE(n, 1) = [i \in 1 .. 1 |-> (n \div Place[i]) % 256]
  BY DEF LE
<1>3. LE(n, 1)[1] = (n \div Place[1]) % 256
  BY <1>2
<1> QED
  BY <1>1, <1>3, PlaceIs, SMT

(* A header written in v1-fixed is read back, whatever follows it. *)
LEMMA V1Reads ==
  ASSUME NEW h \in Headers, NEW x \in Seq(Octets)
  PROVE  /\ ReadV1(WriteV1(h) \o x) = Truncated(h)
         /\ (WriteV1(h) \o x)[1] = PROTOCOL_VERSION
<1> DEFINE z == WriteV1(h)
           b == z \o x
           q == Laid(h)
<1>1. /\ z \in Seq(Octets) /\ Len(z) = 24
      /\ \A i \in 1 .. 11 : At(z, Offset[i] + 1, q[i]) /\ Offset[i] \in Nat
  BY V1Is
<1>2. \A i \in 1 .. 11 : /\ q[i] = LE(h[Fields[i]], Width[Fields[i]])
                         /\ q[i] \in Seq(Octets) /\ Len(q[i]) = Width[Fields[i]]
                         /\ FromLE(q[i]) = h[Fields[i]]
  BY LaidIs
<1> HIDE DEF z, q
<1>3. b \in Seq(Octets) /\ Len(b) = 24 + Len(x) /\ At(b, 1, z)
  <2>1. z \in Seq(Octets)
    BY <1>1
  <2>2. b \in Seq(Octets) /\ Len(b) = Len(z) + Len(x)
    BY <2>1, ConcatProperties
  <2>3. At(b, 1, z)
    BY <2>1, AtParts
  <2> HIDE DEF b
  <2> QED
    BY <1>1, <2>2, <2>3
<1>4. Len(b) \in Nat /\ Len(z) \in Nat /\ Len(x) \in Nat /\ ~(Len(b) < HEADER_LEN)
  <2>1. Len(x) \in Nat /\ HEADER_LEN = 24
    BY LenProperties, WireAssumption
  <2> HIDE DEF b
  <2> QED
    BY <1>1, <1>3, <2>1
<1> HIDE DEF b
<1>5. ASSUME NEW i \in 1 .. 11
      PROVE  /\ At(b, Offset[i] + 1, q[i])
             /\ FromLE(SubSeq(b, Offset[i] + 1, Offset[i] + Width[Fields[i]])) = h[Fields[i]]
  <2> DEFINE o == Offset[i]
             w == Width[Fields[i]]
  <2>1. o \in Nat /\ w \in Nat /\ At(z, o + 1, q[i]) /\ Len(q[i]) = w
    <3>1. w \in {1, 2, 4}
      BY WidthsAre
    <3> HIDE DEF w
    <3>2. w \in Nat
      BY <3>1
    <3> QED
      BY <1>1, <1>2, <3>2 DEF w
  <2> HIDE DEF o, w
  <2>2. At(b, 1 + (o + 1) - 1, q[i])
    <3>1. o + 1 \in Nat \ {0} /\ 1 \in Nat \ {0} /\ Len(q[i]) \in Nat
      BY <2>1
    <3> QED
      BY <1>3, <1>4, <2>1, <3>1, AtIn
  <2>3. 1 + (o + 1) - 1 = o + 1 /\ o + w = (o + 1) + Len(q[i]) - 1 /\ o + 1 \in Nat \ {0}
    BY <2>1
  <2>4. At(b, o + 1, q[i])
    BY <2>2, <2>3
  <2>5. SubSeq(b, o + 1, o + w) = q[i]
    <3> DEFINE y == q[i]
               j == o + 1
    <3> HIDE DEF y, j
    <3>1. b \in Seq(Octets) /\ y \in Seq(Octets) /\ At(b, j, y) /\ j \in Nat \ {0}
          /\ o + w = j + Len(y) - 1
      BY <1>2, <1>3, <2>3, <2>4 DEF y, j
    <3>2. SubSeq(b, j, o + w) = y
      BY <3>1, AtSub
    <3> QED
      BY <3>2 DEF y, j
  <2> QED
    BY <1>2, <2>4, <2>5 DEF o, w
<1>6. b[1] = h["version"] /\ b[2] = h["packet_type"]
  <2>1. ASSUME NEW i \in {1, 2} PROVE b[i] = h[Fields[i]]
    <3>1. i \in 1 .. 11 /\ Width[Fields[i]] = 1 /\ Offset[i] + 1 = i
      BY WidthIs, OffsetIs
    <3>2. At(b, i, q[i]) /\ Len(q[i]) = 1 /\ q[i] = LE(h[Fields[i]], 1)
      BY <1>2, <1>5, <3>1
    <3>3. h[Fields[i]] \in Numbers(1)
      BY <3>1, FieldIs DEF Headers
    <3>4. b[i + 1 - 1] = q[i][1]
      BY <3>2 DEF At
    <3>5. i + 1 - 1 = i
      OBVIOUS
    <3> QED
      BY <3>2, <3>3, <3>4, <3>5, OneByte
  <2> QED
    BY <2>1, FieldNames
<1>7. b[1] = PROTOCOL_VERSION /\ b[2] \in PacketTypes
  BY <1>6 DEF Headers
<1> DEFINE g(f) == FromLE(SubSeq(b, Offset[CHOOSE i \in DOMAIN Fields : Fields[i] = f] + 1,
                                 Offset[CHOOSE i \in DOMAIN Fields : Fields[i] = f] + Width[f]))
<1>8. ReadV1(b) = Truncated([f \in Names |-> g(f)])
  BY <1>4, <1>7 DEF ReadV1, Names
<1>9. ASSUME NEW f \in Names PROVE g(f) = h[f]
  <2>1. PICK k \in 1 .. 11 : Fields[k] = f
    BY FieldIs
  <2>2. (CHOOSE i \in DOMAIN Fields : Fields[i] = f) = k
    BY <2>1, FieldAt
  <2> QED
    BY <1>5, <2>1, <2>2
<1> HIDE DEF g
<1>10. [f \in Names |-> g(f)] = h
  <2>1. h = [f \in Names |-> h[f]]
    BY DEF Headers
  <2> QED
    BY <1>9, <2>1
<1> QED
  BY <1>7, <1>8, <1>10 DEF b, z

-----------------------------------------------------------------------------
(* Reading on until something stops it *)

Descending(D, stop, next, rank) ==
  /\ rank \in [D -> Nat] /\ next \in [D -> D]
  /\ \A x \in D : x \notin stop => rank[next[x]] < rank[x]

(* The sets that hold y and with every element those that lead to it. *)
Closed(D, stop, next, y, Z) ==
  y \in Z /\ \A x \in D : x \notin stop /\ next[x] \in Z => x \in Z

(* The elements that lead to y. *)
Leading(D, stop, next, y) ==
  {x \in D : \A Z \in SUBSET D : Closed(D, stop, next, y, Z) => x \in Z}

LEMMA LeadingIs ==
  ASSUME NEW D, NEW stop, NEW next, next \in [D -> D], NEW y \in D
  PROVE  Closed(D, stop, next, y, Leading(D, stop, next, y))
BY DEF Closed, Leading

LEMMA LeadingOnly ==
  ASSUME NEW D, NEW stop, NEW next, next \in [D -> D], NEW y \in D, NEW x \in D, x # y,
         x \in Leading(D, stop, next, y)
  PROVE  x \notin stop /\ next[x] \in Leading(D, stop, next, y)
<1> DEFINE L == Leading(D, stop, next, y)
           Z == L \ {x}
<1>1. Closed(D, stop, next, y, L)
  BY LeadingIs
<1>2. L \in SUBSET D
  BY DEF Leading
<1>3. ~Closed(D, stop, next, y, Z)
  <2>1. x \notin Z /\ Z \in SUBSET D
    BY <1>2
  <2> HIDE DEF Z
  <2> QED
    BY <2>1 DEF Leading
<1> HIDE DEF L
<1>4. SUFFICES ASSUME x \in stop \/ next[x] \notin L PROVE FALSE
  BY DEF L
<1>5. Closed(D, stop, next, y, Z)
  BY <1>1, <1>4 DEF Closed
<1> QED
  BY <1>3, <1>5

Runs(D, stop, next, val, f) ==
  \A x \in D : f[x] = IF x \in stop THEN val[x] ELSE f[next[x]]

LEMMA TailRec ==
  ASSUME NEW D, NEW W, NEW stop, NEW next, NEW rank, Descending(D, stop, next, rank),
         NEW val \in [D -> W]
  PROVE  \E f \in [D -> W] : Runs(D, stop, next, val, f)
<1> DEFINE S == {y \in D : y \in stop}
           Ends(x) == {y \in S : x \in Leading(D, stop, next, y)}
           End(x) == CHOOSE y : y \in Ends(x)
           f == [x \in D |-> val[End(x)]]
<1>1. /\ rank \in [D -> Nat] /\ next \in [D -> D]
      /\ \A x \in D : x \notin stop => rank[next[x]] < rank[x]
  BY DEF Descending
<1>2. ASSUME NEW x \in D, x \in stop PROVE Ends(x) = {x}
  <2>1. x \in Leading(D, stop, next, x)
    BY <1>1, LeadingIs DEF Closed
  <2>2. \A y \in S : y # x => x \notin Leading(D, stop, next, y)
    BY <1>1, <1>2, LeadingOnly
  <2> QED
    BY <1>2, <2>1, <2>2
<1>3. ASSUME NEW x \in D, x \notin stop PROVE Ends(x) = Ends(next[x])
  <2>1. next[x] \in D
    BY <1>1
  <2>2. ASSUME NEW y \in S, x \in Leading(D, stop, next, y)
        PROVE  next[x] \in Leading(D, stop, next, y)
    <3>1. x # y
      BY <1>3
    <3> QED
      BY <1>1, <2>2, <3>1, LeadingOnly
  <2>3. ASSUME NEW y \in S, next[x] \in Leading(D, stop, next, y)
        PROVE  x \in Leading(D, stop, next, y)
    BY <1>1, <1>3, <2>3, LeadingIs DEF Closed
  <2> QED
    BY <2>2, <2>3
<1>4. ASSUME NEW x \in D PROVE Ends(x) # {}
  <2> DEFINE T == {rank[u] : u \in {u \in D : Ends(u) = {}}}
  <2>1. ASSUME T # {} PROVE FALSE
    <3>1. PICK r \in T : \A k \in T : r <= k
      <4>1. T \subseteq Nat
        BY <1>1
      <4> HIDE DEF T
      <4> QED
        BY <2>1, <4>1, LeastNat
    <3>2. PICK u \in D : Ends(u) = {} /\ r = rank[u]
      BY <3>1
    <3>3. u \notin stop
      BY <1>2, <3>2
    <3>4. next[u] \in D /\ Ends(next[u]) = {} /\ rank[next[u]] < rank[u]
      BY <1>1, <1>3, <3>2, <3>3
    <3>5. rank[next[u]] \in T
      BY <3>4
    <3>6. rank[u] <= rank[next[u]]
      <4> HIDE DEF T
      <4> QED
        BY <3>1, <3>2, <3>5
    <3>7. rank[u] \in Nat /\ rank[next[u]] \in Nat
      BY <1>1, <3>4
    <3> HIDE DEF T, Ends
    <3> QED
      BY <3>4, <3>6, <3>7
  <2> HIDE DEF Ends
  <2> QED
    BY <2>1
<1>5. ASSUME NEW x \in D PROVE End(x) \in D
  <2>1. End(x) \in Ends(x)
    <3> HIDE DEF Ends
    <3> QED
      BY <1>4
  <2> QED
    BY <2>1
<1>6. ASSUME NEW x \in D, x \in stop PROVE End(x) = x
  <2>1. Ends(x) = {x}
    BY <1>2, <1>6
  <2> HIDE DEF Ends
  <2> QED
    BY <2>1
<1>7. ASSUME NEW x \in D, x \notin stop PROVE End(x) = End(next[x])
  <2>1. Ends(x) = Ends(next[x])
    BY <1>3, <1>7
  <2> HIDE DEF Ends
  <2> QED
    BY <2>1
<1> HIDE DEF End
<1>8. f \in [D -> W]
  BY <1>5
<1>9. ASSUME NEW x \in D PROVE f[x] = IF x \in stop THEN val[x] ELSE f[next[x]]
  BY <1>1, <1>6, <1>7
<1> HIDE DEF f
<1> QED
  BY <1>8, <1>9 DEF Runs

TlvValue(b) == SubSeq(b, 3, 2 + b[2])

TlvRest(b) == SubSeq(b, 3 + b[2], Len(b))

Wrong(b) ==
  \/ Width[Fields[b[1]]] > 1 /\ Len(TlvValue(b)) # Width[Fields[b[1]]]
  \/ TlvValue(b) = <<>>
  \/ Fields[b[1]] = "packet_type" /\ TlvValue(b)[1] \notin PacketTypes

Halts(b) ==
  \/ b = <<>>
  \/ Len(b) < 2 \/ b[2] > Len(b) - 2
  \/ b[1] \in DOMAIN Fields /\ Wrong(b)

Into(b, h) ==
  IF b[1] \notin DOMAIN Fields THEN h
  ELSE [h EXCEPT ![Fields[b[1]]] = FromLE(SubSeq(TlvValue(b), 1, Width[Fields[b[1]]]))]

LEMMA FromLEIs ==
  ASSUME NEW b \in Seq(Nat)
  PROVE  FromLE(b) \in Nat
<1> DEFINE d(i) == IF i <= Len(b) THEN b[i] * Place[i] ELSE 0
<1>1. Len(b) \in Nat
  BY LenProperties
<1>2. ASSUME NEW i \in {1, 2, 3, 4} PROVE d(i) \in Nat
  <2>1. CASE i <= Len(b)
    <3>1. i \in 1 .. Len(b)
      BY <1>1, <2>1
    <3>2. b[i] \in Nat
      BY <3>1, ElementOfSeq
    <3>3. Place[i] \in Nat
      BY PlaceIs, SMT
    <3> QED
      BY <2>1, <3>2, <3>3
  <2>2. CASE ~(i <= Len(b))
    BY <2>2
  <2> QED
    BY <2>1, <2>2
<1>3. FromLE(b) = d(1) + d(2) + d(3) + d(4)
  BY DEF FromLE
<1> HIDE DEF d
<1> QED
  BY <1>2, <1>3

LEMMA TlvNext ==
  ASSUME NEW b \in Seq(Nat), NEW h \in [Names -> Nat], ~Halts(b)
  PROVE  /\ TlvRest(b) \in Seq(Nat) /\ Len(TlvRest(b)) \in Nat /\ Len(b) \in Nat
         /\ Len(TlvRest(b)) < Len(b) /\ Into(b, h) \in [Names -> Nat]
<1> DEFINE n == Len(b)
           v == TlvValue(b)
<1>1. n \in Nat /\ n >= 2 /\ b[2] <= n - 2 /\ \A i \in 1 .. n : b[i] \in Nat
  BY LenProperties, ElementOfSeq DEF Halts
<1>2. b[1] \in Nat /\ b[2] \in Nat
  BY <1>1
<1> DEFINE k == b[2]
           r == TlvRest(b)
<1>3. k \in Nat /\ k <= n - 2
  BY <1>1, <1>2
<1>4. r = SubSeq(b, 3 + k, n) /\ v = SubSeq(b, 3, 2 + k)
  BY DEF TlvRest, TlvValue
<1> HIDE DEF n, k, v, r
<1>5. r \in Seq(Nat) /\ Len(r) = IF 3 + k <= n THEN n - (3 + k) + 1 ELSE 0
  <2>1. \A i \in 3 + k .. n : b[i] \in Nat
    BY <1>1, <1>3
  <2>2. 3 + k \in Int /\ n \in Int
    BY <1>1, <1>3
  <2> QED
    BY <1>4, <2>1, <2>2, SubSeqProperties
<1>6. Len(r) \in Nat /\ Len(r) < n
  BY <1>1, <1>3, <1>5
<1>7. v \in Seq(Nat) /\ Len(v) = k
  <2>1. \A i \in 3 .. 2 + k : b[i] \in Nat
    BY <1>1, <1>3
  <2>2. v \in Seq(Nat) /\ Len(v) = IF 3 <= 2 + k THEN (2 + k) - 3 + 1 ELSE 0
    BY <1>3, <1>4, <2>1, SubSeqProperties
  <2> QED
    BY <1>3, <2>2
<1>8. Into(b, h) \in [Names -> Nat]
  <2>1. CASE b[1] \notin DOMAIN Fields
    BY <2>1 DEF Into
  <2>2. CASE b[1] \in DOMAIN Fields
    <3> DEFINE w == Width[Fields[b[1]]]
    <3>1. ~Wrong(b)
      BY <2>2 DEF Halts
    <3>2. w \in {1, 2, 4} /\ Fields[b[1]] \in Names
      BY <2>2, FieldIs, WidthsAre
    <3>3. v # <<>> /\ (w > 1 => Len(v) = w)
      BY <3>1 DEF Wrong, v
    <3> HIDE DEF w
    <3>4. Len(v) # 0
      BY <1>7, <3>3, EmptySeq
    <3>5. w \in Nat /\ w <= Len(v)
      BY <1>3, <1>7, <3>2, <3>3, <3>4
    <3>6. \A i \in 1 .. w : v[i] \in Nat
      <4> SUFFICES ASSUME NEW i \in 1 .. w PROVE v[i] \in Nat
        OBVIOUS
      <4>1. i \in 1 .. Len(v)
        BY <1>3, <1>7, <3>5
      <4> QED
        BY <1>7, <4>1, ElementOfSeq
    <3>7. SubSeq(v, 1, w) \in Seq(Nat)
      BY <3>5, <3>6, SubSeqProperties
    <3>8. FromLE(SubSeq(v, 1, w)) \in Nat
      BY <3>7, FromLEIs
    <3>9. Into(b, h) = [h EXCEPT ![Fields[b[1]]] = FromLE(SubSeq(v, 1, w))]
      BY <2>2 DEF Into, v, w
    <3> QED
      BY <3>2, <3>8, <3>9
  <2> QED
    BY <2>1, <2>2
<1> QED
  BY <1>1, <1>5, <1>6, <1>8 DEF n, r

LEMMA TakeTlvsIs ==
  ASSUME NEW b \in Seq(Nat), NEW h \in [Names -> Nat]
  PROVE  TakeTlvs[<<b, h>>] = IF Halts(b) THEN (IF b = <<>> THEN h ELSE BadHeader)
                              ELSE TakeTlvs[<<TlvRest(b), Into(b, h)>>]
<1> DEFINE H == [Names -> Nat]
           D == Seq(Nat) \X H
           W == H \cup {BadHeader}
           Step(st, f) ==
             IF Halts(st[1]) THEN (IF st[1] = <<>> THEN st[2] ELSE BadHeader)
             ELSE f[<<TlvRest(st[1]), Into(st[1], st[2])>>]
           Is(f) == f = [st \in D |-> Step(st, f)]
           stop == {st \in D : Halts(st[1])}
           next == [st \in D |-> IF Halts(st[1]) THEN st
                                 ELSE <<TlvRest(st[1]), Into(st[1], st[2])>>]
           rank == [st \in D |-> Len(st[1])]
           val == [st \in D |-> IF st[1] = <<>> THEN st[2] ELSE BadHeader]
<1>1. \A st \in D : st[1] \in Seq(Nat) /\ st[2] \in H
  OBVIOUS
<1>2. \A st \in D : ~Halts(st[1]) =>
        /\ <<TlvRest(st[1]), Into(st[1], st[2])>> \in D
        /\ Len(TlvRest(st[1])) < Len(st[1])
  <2> SUFFICES ASSUME NEW st \in D, ~Halts(st[1])
               PROVE  /\ <<TlvRest(st[1]), Into(st[1], st[2])>> \in D
                      /\ Len(TlvRest(st[1])) < Len(st[1])
    OBVIOUS
  <2> DEFINE x == st[1]
             y == st[2]
  <2>1. x \in Seq(Nat) /\ y \in [Names -> Nat] /\ ~Halts(x)
    BY <1>1
  <2> HIDE DEF x, y
  <2>2. TlvRest(x) \in Seq(Nat) /\ Len(TlvRest(x)) < Len(x) /\ Into(x, y) \in [Names -> Nat]
    BY <2>1, TlvNext
  <2> QED
    BY <2>2 DEF x, y
<1> HIDE DEF D
<1>3. Descending(D, stop, next, rank)
  <2>1. rank \in [D -> Nat]
    BY <1>1, LenProperties
  <2>2. next \in [D -> D]
    BY <1>2
  <2>3. ASSUME NEW x \in D, x \notin stop PROVE rank[next[x]] < rank[x]
    <3>1. ~Halts(x[1])
      BY <2>3
    <3> DEFINE u == <<TlvRest(x[1]), Into(x[1], x[2])>>
    <3>2. u \in D /\ u[1] = TlvRest(x[1]) /\ Len(TlvRest(x[1])) < Len(x[1])
      BY <1>2, <3>1
    <3>3. next[x] = u
      BY <3>1
    <3> HIDE DEF u, next
    <3>4. rank[u] = Len(TlvRest(x[1])) /\ rank[x] = Len(x[1])
      BY <3>2
    <3> HIDE DEF rank
    <3> QED
      BY <3>2, <3>3, <3>4
  <2> HIDE DEF rank, next, stop
  <2> QED
    BY <2>1, <2>2, <2>3 DEF Descending
<1>4. val \in [D -> W]
  BY <1>1
<1>5. \A x \in D : x \in stop <=> Halts(x[1])
  OBVIOUS
<1>6. \A x \in D : /\ val[x] = IF x[1] = <<>> THEN x[2] ELSE BadHeader
                   /\ ~Halts(x[1]) => next[x] = <<TlvRest(x[1]), Into(x[1], x[2])>>
  <2>1. \A x \in D : val[x] = IF x[1] = <<>> THEN x[2] ELSE BadHeader
    OBVIOUS
  <2>2. \A x \in D : ~Halts(x[1]) => next[x] = <<TlvRest(x[1]), Into(x[1], x[2])>>
    OBVIOUS
  <2> QED
    BY <2>1, <2>2
<1> HIDE DEF stop, next, rank, val, W
<1>7. PICK g \in [D -> W] : Runs(D, stop, next, val, g)
  BY <1>3, <1>4, TailRec
<1>8. Is(g)
  <2>1. \A x \in D : g[x] = IF x \in stop THEN val[x] ELSE g[next[x]]
    BY <1>7 DEF Runs
  <2>2. \A x \in D : g[x] = Step(x, g)
    BY <1>5, <1>6, <2>1
  <2> HIDE DEF Step
  <2> QED
    BY <1>7, <2>2
<1> DEFINE Text(st, f) ==
             LET c     == st[1]
                 e     == st[2]
                 value == SubSeq(c, 3, 2 + c[2])
                 rest  == SubSeq(c, 3 + c[2], Len(c))
                 d     == Fields[c[1]]
             IN  IF c = <<>> THEN e
                 ELSE IF Len(c) < 2 \/ c[2] > Len(c) - 2 THEN BadHeader
                 ELSE IF c[1] \notin DOMAIN Fields THEN f[<<rest, e>>]
                 ELSE IF \/ Width[d] > 1 /\ Len(value) # Width[d]
                         \/ value = <<>>
                         \/ d = "packet_type" /\ value[1] \notin PacketTypes
                   THEN BadHeader
                   ELSE f[<<rest, [e EXCEPT ![d] = FromLE(SubSeq(value, 1, Width[d]))]>>]
           Written(f) == f = [st \in D |-> Text(st, f)]
<1>9. TakeTlvs = CHOOSE f : Written(f)
  BY DEF TakeTlvs, Scans, D, Names
<1>10. Is(TakeTlvs)
  <2>1. ASSUME NEW f, NEW st \in D PROVE Text(st, f) = Step(st, f)
    <3>1. CASE Halts(st[1])
      BY <3>1 DEF Halts, Wrong, TlvValue
    <3>2. CASE ~Halts(st[1])
      BY <3>2 DEF Halts, Wrong, TlvValue, TlvRest, Into
    <3> QED
      BY <3>1, <3>2
  <2> HIDE DEF Text, Step
  <2>2. \A f : Written(f) <=> Is(f)
    BY <2>1
  <2> HIDE DEF Written, Is
  <2> QED
    BY <1>8, <1>9, <2>2
<1>11. <<b, h>> \in D
  BY DEF D
<1>12. TakeTlvs[<<b, h>>] = Step(<<b, h>>, TakeTlvs)
  <2> HIDE DEF Step
  <2> QED
    BY <1>10, <1>11
<1> QED
  BY <1>12

LEMMA OctetsAreNumbers ==
  ASSUME NEW x \in Seq(Octets)
  PROVE  x \in Seq(Nat) /\ x \in Seq(Int)
<1>1. Octets \subseteq Nat /\ Octets \subseteq Int
  BY DEF Octets
<1> QED
  BY <1>1, SeqMonotonic

(* A value that a field holds. *)
Holdable == {v \in Seq(Octets) : Len(v) \in Octets}

(* What stands where in a field t with value v and what follows it. *)
TlvThen(t, v, x, b) ==
  /\ Tlv(t, v) \in Seq(Octets) /\ Len(Tlv(t, v)) = 2 + Len(v)
  /\ b \in Seq(Octets) /\ Len(b) = 2 + Len(v) + Len(x)
  /\ b[1] = t /\ b[2] = Len(v) /\ TlvValue(b) = v /\ TlvRest(b) = x

LEMMA TlvIs ==
  ASSUME NEW t \in Octets, NEW v \in Holdable, NEW x \in Seq(Octets)
  PROVE  TlvThen(t, v, x, Tlv(t, v) \o x)
<1> DEFINE p == <<t, Len(v)>>
           q == p \o v
           b == Tlv(t, v) \o x
<1>0. v \in Seq(Octets) /\ Len(v) \in Octets
  BY DEF Holdable
<1>1. p \in Seq(Octets) /\ Len(p) = 2 /\ p[1] = t /\ p[2] = Len(v)
  BY <1>0
<1>2. Len(v) \in Nat /\ Len(x) \in Nat
  BY <1>0
<1>3. Tlv(t, v) = q
  BY DEF Tlv
<1> HIDE DEF p
<1>4. q \in Seq(Octets) /\ Len(q) = Len(p) + Len(v) /\ At(q, 1, p) /\ At(q, Len(p) + 1, v)
  BY <1>0, <1>1, AtParts, ConcatProperties
<1> HIDE DEF q
<1>5. b \in Seq(Octets) /\ Len(b) = Len(q) + Len(x) /\ At(b, 1, q) /\ At(b, Len(q) + 1, x)
  BY <1>3, <1>4, AtParts, ConcatProperties
<1> HIDE DEF b
<1>6. Len(q) \in Nat /\ Len(b) \in Nat /\ Len(q) = 2 + Len(v) /\ Len(b) = 2 + Len(v) + Len(x)
  BY <1>1, <1>2, <1>4, <1>5
<1>7. At(b, 3, v) /\ At(b, 1, p)
  <2>1. Len(p) + 1 = 3 /\ 1 + 3 - 1 = 3 /\ 1 + 1 - 1 = 1
    BY <1>1
  <2>2. At(q, 3, v)
    BY <1>4, <2>1
  <2>3. At(b, 1 + 3 - 1, v)
    BY <1>2, <1>5, <1>6, <2>2, AtIn
  <2> DEFINE one == 1
  <2>4. one \in Nat \ {0} /\ one + one - 1 = one /\ At(b, one, q) /\ At(q, one, p) /\ Len(p) \in Nat
    BY <1>1, <1>4, <1>5
  <2> HIDE DEF one
  <2>5. At(b, one + one - 1, p)
    BY <1>6, <2>4, AtIn
  <2>6. At(b, one, p)
    BY <2>4, <2>5
  <2> QED
    BY <2>1, <2>3, <2>6 DEF one
<1>8. b[1] = t /\ b[2] = Len(v)
  <2>1. ASSUME NEW j \in 1 .. 2 PROVE b[j] = p[j]
    <3>1. b[1 + j - 1] = p[j] /\ 1 + j - 1 = j
      BY <1>1, <1>7 DEF At
    <3> QED
      BY <3>1
  <2>2. 1 \in 1 .. 2 /\ 2 \in 1 .. 2
    OBVIOUS
  <2>3. b[1] = p[1] /\ b[2] = p[2]
    BY <2>1, <2>2
  <2> QED
    BY <1>1, <2>3
<1>9. TlvValue(b) = v
  <2> DEFINE k == 2 + Len(v)
             three == 3
  <2>1. k = three + Len(v) - 1 /\ three \in Nat \ {0} /\ At(b, three, v)
    BY <1>2, <1>7
  <2> HIDE DEF k, three
  <2>2. b \in Seq(Octets)
    BY <1>5
  <2>3. v \in Seq(Octets)
    BY <1>0
  <2>4. SubSeq(b, three, k) = v
    BY <2>1, <2>2, <2>3, AtSub
  <2> QED
    BY <1>8, <2>4 DEF TlvValue, k, three
<1>10. TlvRest(b) = x
  <2> DEFINE k == 3 + Len(v)
  <2>1. k = Len(q) + 1 /\ k \in Nat \ {0} /\ Len(b) = k + Len(x) - 1
    BY <1>2, <1>6
  <2> HIDE DEF k
  <2>2. SubSeq(b, k, Len(b)) = x
    BY <1>5, <2>1, AtSub
  <2> QED
    BY <1>8, <2>2 DEF TlvRest, k
<1> QED
  BY <1>3, <1>4, <1>5, <1>6, <1>8, <1>9, <1>10 DEF TlvThen, b

(* The header g with a field of h. *)
With(g, h, i) == [g EXCEPT ![Fields[i]] = h[Fields[i]]]

(* A field that this build knows goes into the header, ... *)
LEMMA KnownTlv ==
  ASSUME NEW h \in Headers, NEW i \in 1 .. 11, NEW g \in [Names -> Nat], NEW x \in Seq(Octets)
  PROVE  TakeTlvs[<<Tlv(i, LE(h[Fields[i]], Width[Fields[i]])) \o x, g>>]
           = TakeTlvs[<<x, With(g, h, i)>>]
<1> DEFINE w == Width[Fields[i]]
           f == Fields[i]
           v == LE(h[f], w)
           b == Tlv(i, v) \o x
<1>1. /\ w \in {1, 2, 4} /\ f \in Names /\ i \in DOMAIN Fields
      /\ h \in [Names -> Nat] /\ h[f] \in Numbers(w)
  BY WidthsAre, FieldIs DEF Headers
<1>2. v \in Seq(Octets) /\ Len(v) = w /\ FromLE(v) = h[f]
  <2> HIDE DEF w, f
  <2> QED
    BY <1>1, LEIs
<1>3. f = "packet_type" => v[1] \in PacketTypes
  <2> SUFFICES ASSUME f = "packet_type" PROVE v[1] \in PacketTypes
    OBVIOUS
  <2>1. w = 1
    <3>1. Fields[i] = Fields[2]
      BY FieldNames
    <3> QED
      BY <3>1, WidthIs
  <2>2. h[f] \in PacketTypes
    BY DEF Headers
  <2> HIDE DEF w, f
  <2> QED
    BY <1>1, <2>1, <2>2, OneByte
<1> HIDE DEF v
<1>4. i \in Octets /\ Len(v) \in Octets /\ w \in Nat /\ w # 0
  BY <1>1, <1>2 DEF Octets
<1>5. /\ b \in Seq(Octets) /\ Len(b) = 2 + Len(v) + Len(x) /\ b[1] = i /\ b[2] = Len(v)
      /\ TlvValue(b) = v /\ TlvRest(b) = x
  <2>1. v \in Holdable
    BY <1>2, <1>4 DEF Holdable
  <2>2. TlvThen(i, v, x, b)
    BY <1>4, <2>1, TlvIs
  <2> HIDE DEF b
  <2> QED
    BY <2>2 DEF TlvThen
<1> HIDE DEF b
<1>6. b \in Seq(Nat)
  BY <1>5, OctetsAreNumbers
<1>7. ~Wrong(b)
  <2>1. v # <<>>
    BY <1>2, <1>4
  <2> HIDE DEF w, f
  <2>2. Width[f] = w
    BY DEF w, f
  <2>3. Fields[b[1]] = f
    BY <1>5 DEF f
  <2> QED
    BY <1>2, <1>3, <1>5, <2>1, <2>2, <2>3 DEF Wrong
<1>8. ~Halts(b)
  <2>1. Len(v) \in Nat /\ Len(x) \in Nat
    BY <1>2
  <2>2. Len(b) >= 2 /\ ~(b[2] > Len(b) - 2)
    BY <1>5, <2>1
  <2>3. b # <<>>
    BY <2>2
  <2> QED
    BY <1>7, <2>2, <2>3 DEF Halts
<1>9. Into(b, g) = With(g, h, i)
  <2>1. SubSeq(v, 1, w) = v
    <3>1. At(v, 1, v) /\ w = 1 + Len(v) - 1
      BY <1>2, <1>4 DEF At
    <3> QED
      BY <1>2, <3>1, AtSub
  <2> QED
    BY <1>1, <1>2, <1>5, <2>1 DEF Into, With
<1>10. TakeTlvs[<<b, g>>] = TakeTlvs[<<x, With(g, h, i)>>]
  <2>1. TakeTlvs[<<b, g>>] = TakeTlvs[<<TlvRest(b), Into(b, g)>>]
    BY <1>6, <1>8, TakeTlvsIs
  <2> QED
    BY <1>5, <1>9, <2>1
<1> QED
  BY <1>10 DEF b, v

(* ... one that it does not know is skipped. *)
LEMMA UnknownTlv ==
  ASSUME NEW g \in [Names -> Nat]
  PROVE  TakeTlvs[<<Tlv(12, <<1>>), g>>] = g
<1> DEFINE v == <<1>>
           e == <<>>
           b == Tlv(12, v) \o e
<1>1. v \in Seq(Octets) /\ Len(v) = 1 /\ e \in Seq(Octets) /\ Len(e) = 0
  BY DEF Octets
<1>2. 12 \in Octets /\ Len(v) \in Octets
  BY <1>1 DEF Octets
<1> HIDE DEF v, e
<1>3. /\ b \in Seq(Octets) /\ Len(b) = 2 + Len(v) + Len(e) /\ b[1] = 12 /\ b[2] = Len(v)
      /\ TlvRest(b) = e /\ Tlv(12, v) \in Seq(Octets)
  <2>1. v \in Holdable
    BY <1>1, <1>2 DEF Holdable
  <2>2. TlvThen(12, v, e, b)
    BY <1>1, <1>2, <2>1, TlvIs
  <2> HIDE DEF b
  <2> QED
    BY <2>2 DEF TlvThen
<1>4. b = Tlv(12, v)
  BY <1>3, ConcatEmptySeq DEF e
<1> HIDE DEF b
<1>5. b \in Seq(Nat) /\ e \in Seq(Nat)
  BY <1>1, <1>3, OctetsAreNumbers
<1>6. b[1] \notin DOMAIN Fields
  BY <1>3, FieldIs
<1>7. ~Halts(b)
  <2>1. Len(b) = 3
    BY <1>1, <1>3
  <2>2. b # <<>>
    BY <1>3, <2>1, EmptySeq
  <2> QED
    BY <1>1, <1>3, <1>6, <2>1, <2>2 DEF Halts
<1>8. Into(b, g) = g
  BY <1>6 DEF Into
<1>9. TakeTlvs[<<b, g>>] = TakeTlvs[<<e, g>>]
  BY <1>3, <1>5, <1>7, <1>8, TakeTlvsIs
<1>10. TakeTlvs[<<e, g>>] = g
  <2>1. Halts(e) /\ e = <<>>
    BY DEF Halts, e
  <2> QED
    BY <1>5, <2>1, TakeTlvsIs
<1> QED
  BY <1>4, <1>9, <1>10 DEF v

(* The fields of a header in v2-tlv. *)
Items(h) ==
  [i \in DOMAIN Fields |->
     IF i <= 4 \/ h[Fields[i]] # 0 THEN Tlv(i, LE(h[Fields[i]], Width[Fields[i]])) ELSE <<>>]

LEMMA ItemsAre ==
  ASSUME NEW h \in Headers
  PROVE  /\ Items(h) \in Seq(Seq(Octets)) /\ Len(Items(h)) = 11 /\ Items(h) # <<>>
         /\ \A i \in 1 .. 11 :
              /\ Items(h)[i] = IF i <= 4 \/ h[Fields[i]] # 0
                                 THEN Tlv(i, LE(h[Fields[i]], Width[Fields[i]])) ELSE <<>>
              /\ Items(h)[i] \in Seq(Octets) /\ Len(Items(h)[i]) \in 0 .. 6
<1> DEFINE Item(i) == IF i <= 4 \/ h[Fields[i]] # 0
                        THEN Tlv(i, LE(h[Fields[i]], Width[Fields[i]])) ELSE <<>>
<1>1. ASSUME NEW i \in 1 .. 11
      PROVE  Item(i) \in Seq(Octets) /\ Len(Item(i)) \in 0 .. 6
  <2> DEFINE w == Width[Fields[i]]
             v == LE(h[Fields[i]], w)
             e == <<>>
  <2>1. w \in {1, 2, 4} /\ h[Fields[i]] \in Numbers(w)
    BY WidthsAre, FieldIs DEF Headers
  <2> HIDE DEF w
  <2>2. v \in Seq(Octets) /\ Len(v) = w
    BY <2>1, LEIs
  <2>3. e \in Seq(Octets) /\ Len(e) \in 0 .. 6
    OBVIOUS
  <2> HIDE DEF v
  <2>4. i \in Octets /\ v \in Holdable
    <3>1. i \in Octets /\ Len(v) \in Octets
      BY <2>1, <2>2 DEF Octets
    <3> QED
      BY <2>2, <3>1 DEF Holdable
  <2> HIDE DEF e
  <2>5. TlvThen(i, v, e, Tlv(i, v) \o e)
    BY <2>3, <2>4, TlvIs
  <2>6. Tlv(i, v) \in Seq(Octets) /\ Len(Tlv(i, v)) \in 0 .. 6
    <3>1. Tlv(i, v) \in Seq(Octets) /\ Len(Tlv(i, v)) = 2 + Len(v)
      BY <2>5 DEF TlvThen
    <3> QED
      BY <2>1, <2>2, <3>1
  <2>7. Item(i) = Tlv(i, v) \/ Item(i) = e
    BY DEF v, e, w
  <2> HIDE DEF Item
  <2> QED
    BY <2>3, <2>6, <2>7, Zenon
<1> HIDE DEF Item
<1>2. Items(h) = [i \in 1 .. 11 |-> Item(i)]
  BY FieldIs DEF Items, Item
<1> DEFINE q == Items(h)
           W == Seq(Octets)
<1>3. q \in [1 .. 11 -> W]
  BY <1>1, <1>2
<1>4. \A i \in 1 .. 11 : q[i] = Item(i)
  BY <1>2
<1> HIDE DEF q, W
<1>5. q \in Seq(W) /\ Len(q) = 11
  <2>1. \A i \in 1 .. 11 : q[i] \in W
    BY <1>3
  <2>2. q = [i \in 1 .. 11 |-> q[i]]
    BY <1>3
  <2>3. [i \in 1 .. 11 |-> q[i]] \in Seq(W) /\ Len([i \in 1 .. 11 |-> q[i]]) = 11
    BY <2>1
  <2> QED
    BY <2>2, <2>3
<1>6. q # <<>>
  BY <1>5
<1> QED
  BY <1>1, <1>4, <1>5, <1>6 DEF Item, q, W

(* The header when the first i fields have been read. *)
Filled(h, i) ==
  [f \in Names |-> IF \E j \in 1 .. i : Fields[j] = f THEN h[f]
                   ELSE IF f = "version" THEN PROTOCOL_VERSION ELSE 0]

LEMMA FilledIs ==
  ASSUME NEW h \in Headers
  PROVE  /\ \A i \in 0 .. 11 : Filled(h, i) \in [Names -> Nat]
         /\ Filled(h, 11) = h
         /\ Filled(h, 0) = [f \in Range(Fields) |-> IF f = "version" THEN PROTOCOL_VERSION ELSE 0]
<1>1. h \in [Names -> Nat]
  BY DEF Headers
<1>2. ASSUME NEW i \in 0 .. 11 PROVE Filled(h, i) \in [Names -> Nat]
  BY <1>1 DEF Filled, PROTOCOL_VERSION
<1>3. Filled(h, 11) = h
  <2>1. ASSUME NEW f \in Names PROVE Filled(h, 11)[f] = h[f]
    BY FieldIs DEF Filled
  <2>2. Filled(h, 11) \in [Names -> Nat]
    BY <1>2
  <2> QED
    BY <1>1, <2>1, <2>2
<1>4. Filled(h, 0) = [f \in Range(Fields) |-> IF f = "version" THEN PROTOCOL_VERSION ELSE 0]
  <2>1. ~\E j \in 1 .. 0 : TRUE
    OBVIOUS
  <2>2. \A f \in Names : ~\E j \in 1 .. 0 : Fields[j] = f
    BY <2>1
  <2> QED
    BY <2>2 DEF Filled, Names
<1> QED
  BY <1>2, <1>3, <1>4

LEMMA FilledNext ==
  ASSUME NEW h \in Headers, NEW i \in 1 .. 11
  PROVE  /\ With(Filled(h, i - 1), h, i) = Filled(h, i)
         /\ i > 4 /\ h[Fields[i]] = 0 => Filled(h, i - 1) = Filled(h, i)
<1> DEFINE a == Filled(h, i - 1)
           b == Filled(h, i)
           k == Fields[i]
           Known(j, f) == \E m \in 1 .. j : Fields[m] = f
<1>1. a \in [Names -> Nat] /\ b \in [Names -> Nat] /\ k \in Names
  <2>1. i - 1 \in 0 .. 11 /\ i \in 0 .. 11
    OBVIOUS
  <2> QED
    BY <2>1, FilledIs, FieldIs
<1>2. b[k] = h[k]
  <2>1. Known(i, k)
    OBVIOUS
  <2> QED
    BY <1>1, <2>1 DEF Filled
<1>3. ASSUME NEW f \in Names, f # k PROVE a[f] = b[f]
  <2>1. Known(i - 1, f) <=> Known(i, f)
    <3>1. \A m : m \in 1 .. i <=> m \in 1 .. (i - 1) \/ m = i
      OBVIOUS
    <3> QED
      BY <1>3, <3>1
  <2>2. a[f] = IF Known(i - 1, f) THEN h[f]
               ELSE IF f = "version" THEN PROTOCOL_VERSION ELSE 0
    BY DEF Filled
  <2>3. b[f] = IF Known(i, f) THEN h[f]
               ELSE IF f = "version" THEN PROTOCOL_VERSION ELSE 0
    BY DEF Filled
  <2> HIDE DEF a, b, Known
  <2> QED
    BY <2>1, <2>2, <2>3
<1>4. i > 4 /\ h[k] = 0 => a[k] = h[k]
  <2> SUFFICES ASSUME i > 4, h[k] = 0 PROVE a[k] = 0
    OBVIOUS
  <2>1. ~Known(i - 1, k)
    <3> SUFFICES ASSUME NEW m \in 1 .. (i - 1), Fields[m] = Fields[i] PROVE FALSE
      OBVIOUS
    <3>1. m \in 1 .. 11 /\ m # i
      OBVIOUS
    <3> QED
      BY <3>1, FieldsDiffer
  <2>2. k # "version"
    <3>1. 1 \in 1 .. 11 /\ 1 # i
      OBVIOUS
    <3>2. Fields[1] # Fields[i]
      BY <3>1, FieldsDiffer
    <3> QED
      BY <3>2, FieldNames
  <2>3. a[k] = IF Known(i - 1, k) THEN h[k]
               ELSE IF k = "version" THEN PROTOCOL_VERSION ELSE 0
    BY <1>1 DEF Filled
  <2> HIDE DEF a, k, Known
  <2> QED
    BY <2>1, <2>2, <2>3
<1> HIDE DEF a, b, k
<1>5. [a EXCEPT ![k] = h[k]] = b
  BY <1>1, <1>2, <1>3
<1>6. i > 4 /\ h[k] = 0 => a = b
  BY <1>1, <1>2, <1>3, <1>4
<1> QED
  BY <1>5, <1>6 DEF a, b, k, With

LEMMA ItemTaken ==
  ASSUME NEW h \in Headers, NEW R, Rests(Items(h), R), NEW x \in Seq(Octets), NEW i \in 1 .. 11
  PROVE  TakeTlvs[<<R[i - 1] \o x, Filled(h, i - 1)>>] = TakeTlvs[<<R[i] \o x, Filled(h, i)>>]
<1> DEFINE a == Items(h)[i]
           r == R[i]
           p == R[i - 1]
           y == r \o x
           g == Filled(h, i - 1)
           c == Filled(h, i)
<1>1. a \in Seq(Octets) /\ Len(Items(h)) = 11
  BY ItemsAre
<1>2. r \in Seq(Octets) /\ p = a \o r
  <2> DEFINE q == Items(h)
  <2>1. Rests(q, R) /\ Len(q) = 11
    BY <1>1
  <2> HIDE DEF q
  <2>2. i \in 0 .. Len(q) /\ i \in 1 .. Len(q)
    BY <2>1
  <2>3. R[i - 1] = q[i] \o R[i]
    BY <2>1, <2>2 DEF Rests
  <2>4. R[i] \in Seq(Octets)
    BY <2>1, <2>2 DEF Rests
  <2> QED
    BY <2>3, <2>4 DEF q
<1>3. g \in [Names -> Nat]
  BY FilledIs
<1>4. CASE i <= 4 \/ h[Fields[i]] # 0
  <2> DEFINE t == Tlv(i, LE(h[Fields[i]], Width[Fields[i]]))
  <2>1. a = t
    BY <1>4, ItemsAre
  <2>2. With(g, h, i) = c
    BY FilledNext
  <2>3. y \in Seq(Octets)
    BY <1>2, ConcatProperties
  <2>4. TakeTlvs[<<t \o y, g>>] = TakeTlvs[<<y, With(g, h, i)>>]
    <3> HIDE DEF y, g
    <3> QED
      BY <1>3, <2>3, KnownTlv
  <2> HIDE DEF t, a, r, p, g, c
  <2>5. p \o x = t \o y
    BY <1>1, <1>2, <2>1, Regroup
  <2> QED
    BY <2>2, <2>4, <2>5 DEF r, p, g, c
<1>5. CASE ~(i <= 4 \/ h[Fields[i]] # 0)
  <2>1. a = <<>>
    BY <1>5, ItemsAre
  <2>2. g = c
    BY <1>5, FilledNext
  <2> HIDE DEF a, r, p, g, c
  <2>3. p = r
    BY <1>2, <2>1, ConcatEmptySeq
  <2> QED
    BY <2>2, <2>3 DEF r, p, g, c
<1> QED
  BY <1>4, <1>5

(* The fields are read one after the other, and then what follows them. *)
LEMMA ItemsTaken ==
  ASSUME NEW h \in Headers, NEW x \in Seq(Octets)
  PROVE  /\ TakeTlvs[<<FlattenSeq(Items(h)) \o x, Filled(h, 0)>>] = TakeTlvs[<<x, h>>]
         /\ FlattenSeq(Items(h)) \in Seq(Octets) /\ Len(FlattenSeq(Items(h))) <= 66
<1> DEFINE q == Items(h)
<1>1. /\ q \in Seq(Seq(Octets)) /\ Len(q) = 11 /\ q # <<>>
      /\ \A i \in 1 .. 11 : Len(q[i]) \in 0 .. 6
  BY ItemsAre
<1>2. PICK P, R : Parts(q, P) /\ Rests(q, R)
  <2> HIDE DEF q
  <2> QED
    BY <1>1, PartsExist, RestsExist
<1> DEFINE T == [i \in 0 .. 11 |-> TakeTlvs[<<R[i] \o x, Filled(h, i)>>]]
           N == [i \in 0 .. 11 |-> Len(P[i])]
<1>3. ASSUME NEW i \in 1 .. 11 PROVE T[i - 1] = T[i]
  <2>1. TakeTlvs[<<R[i - 1] \o x, Filled(h, i - 1)>>] = TakeTlvs[<<R[i] \o x, Filled(h, i)>>]
    BY <1>2, ItemTaken
  <2>2. i - 1 \in 0 .. 11 /\ i \in 0 .. 11
    OBVIOUS
  <2> QED
    BY <2>1, <2>2
<1>4. /\ T[0] = TakeTlvs[<<R[0] \o x, Filled(h, 0)>>]
      /\ T[11] = TakeTlvs[<<R[11] \o x, Filled(h, 11)>>]
  OBVIOUS
<1>5. N[0] = 0 /\ N[11] = Len(FlattenSeq(q)) /\ \A i \in 1 .. 11 : N[i] = N[i - 1] + Len(q[i])
  <2> HIDE DEF q
  <2>1. P[0] = <<>> /\ P[11] = FlattenSeq(q)
    BY <1>1, <1>2 DEF Parts
  <2>2. N[0] = 0 /\ N[11] = Len(FlattenSeq(q))
    BY <2>1
  <2>3. ASSUME NEW i \in 1 .. 11 PROVE N[i] = N[i - 1] + Len(q[i])
    <3>1. Len(P[i]) = Len(P[i - 1]) + Len(q[i])
      <4>1. q \in Seq(Seq(Octets)) /\ q # <<>> /\ i \in 1 .. Len(q)
        BY <1>1, <1>2
      <4>2. Parts(q, P) /\ Rests(q, R)
        BY <1>1, <1>2
      <4> QED
        BY <4>1, <4>2, PieceAt
    <3>2. i - 1 \in 0 .. 11 /\ i \in 0 .. 11
      OBVIOUS
    <3> QED
      BY <3>1, <3>2
  <2> QED
    BY <2>2, <2>3
<1>6. FlattenSeq(q) \in Seq(Octets) /\ R[0] = FlattenSeq(q) /\ R[11] = <<>>
  <2> HIDE DEF q
  <2>1. P[0] \o R[0] = FlattenSeq(q) /\ R[0] \in Seq(Octets) /\ P[0] = <<>>
    <3> DEFINE z == 0
    <3>1. z \in 0 .. Len(q)
      BY <1>1
    <3> HIDE DEF z
    <3>2. P[z] \o R[z] = FlattenSeq(q) /\ R[z] \in Seq(Octets)
      BY <1>1, <1>2, <3>1, PartsAndRests
    <3>3. P[0] = <<>>
      BY <1>2 DEF Parts
    <3> QED
      BY <3>2, <3>3 DEF z
  <2>2. P[0] \o R[0] = R[0]
    BY <2>1, ConcatEmptySeq
  <2>3. R[11] = <<>>
    BY <1>1, <1>2 DEF Rests
  <2> QED
    BY <2>1, <2>2, <2>3
<1> HIDE DEF q, T, N
<1>7. T[0] = T[11]
  <2>1. /\ T[0] = T[1] /\ T[1] = T[2] /\ T[2] = T[3] /\ T[3] = T[4] /\ T[4] = T[5]
        /\ T[5] = T[6] /\ T[6] = T[7] /\ T[7] = T[8] /\ T[8] = T[9] /\ T[9] = T[10]
        /\ T[10] = T[11]
    BY <1>3, SMT
  <2> QED
    BY <2>1
<1>8. N[11] <= 66
  <2> DEFINE L == [i \in 1 .. 11 |-> Len(q[i])]
  <2>1. ASSUME NEW i \in 1 .. 11 PROVE L[i] \in 0 .. 6 /\ N[i] = N[i - 1] + L[i]
    BY <1>1, <1>5
  <2> HIDE DEF L
  <2>4. N[0] = 0
    BY <1>5
  <2>5. ASSUME NEW i \in 1 .. 11, N[i - 1] \in 0 .. 6 * (i - 1) PROVE N[i] \in 0 .. 6 * i
    <3> DEFINE n == N[i - 1]
               l == L[i]
    <3>1. n \in 0 .. 6 * (i - 1) /\ l \in 0 .. 6 /\ N[i] = n + l
      BY <2>1, <2>5
    <3> HIDE DEF n, l
    <3>2. n + l \in 0 .. 6 * i
      BY <3>1
    <3> QED
      BY <3>1, <3>2
  <2>6. N[1] \in 0 .. 6 * 1 /\ N[2] \in 0 .. 6 * 2 /\ N[3] \in 0 .. 6 * 3
    BY <2>4, <2>5
  <2>7. N[4] \in 0 .. 6 * 4 /\ N[5] \in 0 .. 6 * 5 /\ N[6] \in 0 .. 6 * 6
    BY <2>5, <2>6
  <2>8. N[7] \in 0 .. 6 * 7 /\ N[8] \in 0 .. 6 * 8 /\ N[9] \in 0 .. 6 * 9
    BY <2>5, <2>7
  <2>9. N[10] \in 0 .. 6 * 10 /\ N[11] \in 0 .. 6 * 11
    BY <2>5, <2>8
  <2> DEFINE n == N[11]
  <2>10. n \in 0 .. 66
    BY <2>9
  <2> HIDE DEF n
  <2>11. n <= 66
    BY <2>10
  <2> QED
    BY <2>11 DEF n
<1>9. <<>> \o x = x
  BY ConcatEmptySeq
<1> QED
  BY <1>4, <1>5, <1>6, <1>7, <1>8, <1>9, FilledIs DEF q

(* The header in v2-tlv with the fields body. *)
V2Frame(body) == <<V2_TLV_MAGIC>> \o BE2(Len(body)) \o body

Bodies == {body \in Seq(Octets) : Len(body) < TOO_LONG}

(* What stands where in such a header and what follows it. *)
V2Then(body, x, b) ==
  /\ V2Frame(body) \in Seq(Octets) /\ Len(V2Frame(body)) = 3 + Len(body)
  /\ b \in Seq(Octets) /\ Len(b) = 3 + Len(body) + Len(x)
  /\ b[1] = V2_TLV_MAGIC /\ FromBE2(Tail(b)) = Len(body)
  /\ SubSeq(b, 4, 3 + Len(body)) = body /\ SubSeq(b, 4 + Len(body), Len(b)) = x

LEMMA V2FrameIs ==
  ASSUME NEW body \in Bodies, NEW x \in Seq(Octets)
  PROVE  V2Then(body, x, V2Frame(body) \o x)
<1> DEFINE m == <<V2_TLV_MAGIC>>
           l == BE2(Len(body))
           p == m \o l
           q == p \o body
           b == q \o x
<1>1. body \in Seq(Octets) /\ Len(body) \in Nat /\ Len(body) < TOO_LONG /\ Len(x) \in Nat
  BY DEF Bodies
<1>2. m \in Seq(Octets) /\ Len(m) = 1 /\ m[1] = V2_TLV_MAGIC
  BY DEF Octets, V2_TLV_MAGIC
<1>3. l \in Seq(Octets) /\ Len(l) = 2 /\ l[1] * 256 + l[2] = Len(body)
  BY <1>1, BE2Is
<1> HIDE DEF m, l
<1>4. /\ p \in Seq(Octets) /\ Len(p) = 3
      /\ p[1] = V2_TLV_MAGIC /\ p[2] = l[1] /\ p[3] = l[2]
  <2>0. m \in Seq(Octets) /\ l \in Seq(Octets)
    BY <1>2, <1>3
  <2>1. /\ p \in Seq(Octets) /\ Len(p) = Len(m) + Len(l)
        /\ \A i \in 1 .. Len(m) + Len(l) : p[i] = IF i <= Len(m) THEN m[i] ELSE l[i - Len(m)]
    BY <2>0, ConcatProperties
  <2> HIDE DEF p
  <2>2. Len(p) = 3 /\ \A i \in 1 .. 3 : p[i] = IF i <= 1 THEN m[i] ELSE l[i - 1]
    BY <1>2, <1>3, <2>1
  <2>3. 1 \in 1 .. 3 /\ 2 \in 1 .. 3 /\ 3 \in 1 .. 3 /\ 2 - 1 = 1 /\ 3 - 1 = 2
        /\ ~(2 <= 1) /\ ~(3 <= 1) /\ 1 <= 1
    OBVIOUS
  <2>4. p[1] = m[1] /\ p[2] = l[2 - 1] /\ p[3] = l[3 - 1]
    BY <2>2, <2>3
  <2> QED
    BY <1>2, <2>1, <2>2, <2>3, <2>4
<1> HIDE DEF p
<1>5. q \in Seq(Octets) /\ Len(q) = Len(p) + Len(body) /\ At(q, 1, p) /\ At(q, Len(p) + 1, body)
  BY <1>1, <1>4, AtParts, ConcatProperties
<1> HIDE DEF q
<1>6. b \in Seq(Octets) /\ Len(b) = Len(q) + Len(x) /\ At(b, 1, q) /\ At(b, Len(q) + 1, x)
  BY <1>5, AtParts, ConcatProperties
<1> HIDE DEF b
<1>7. Len(q) \in Nat /\ Len(b) \in Nat /\ Len(q) = 3 + Len(body) /\ Len(b) = 3 + Len(body) + Len(x)
  BY <1>1, <1>4, <1>5, <1>6
<1> DEFINE one == 1
           four == 4
           k == 3 + Len(body)
           n == 4 + Len(body)
<1>8. /\ one \in Nat \ {0} /\ four \in Nat \ {0} /\ n \in Nat \ {0}
      /\ one + one - 1 = one /\ one + four - 1 = four
      /\ k = four + Len(body) - 1 /\ n = Len(q) + 1 /\ Len(b) = n + Len(x) - 1
  BY <1>1, <1>7
<1>9. At(b, one, q) /\ At(q, one, p) /\ At(q, four, body) /\ At(b, n, x) /\ Len(p) \in Nat
  BY <1>4, <1>5, <1>6, <1>8
<1> HIDE DEF one, four, k, n
<1>10. At(b, one, p) /\ At(b, four, body)
  <2>1. At(b, one + one - 1, p)
    BY <1>7, <1>8, <1>9, AtIn
  <2>2. At(b, one + four - 1, body)
    BY <1>1, <1>7, <1>8, <1>9, AtIn
  <2> QED
    BY <1>8, <2>1, <2>2
<1>11. SubSeq(b, four, k) = body
  <2>1. b \in Seq(Octets) /\ body \in Seq(Octets) /\ four \in Nat \ {0}
    BY <1>1, <1>6, <1>8
  <2>2. At(b, four, body) /\ k = four + Len(body) - 1
    BY <1>8, <1>10
  <2> QED
    BY <2>1, <2>2, AtSub
<1>12. SubSeq(b, n, Len(b)) = x
  <2>1. PICK j : j = Len(b)
    OBVIOUS
  <2>2. b \in Seq(Octets) /\ x \in Seq(Octets) /\ n \in Nat \ {0}
    BY <1>6, <1>8
  <2>3. At(b, n, x) /\ j = n + Len(x) - 1
    BY <1>8, <1>9, <2>1
  <2>4. SubSeq(b, n, j) = x
    BY <2>2, <2>3, AtSub
  <2> QED
    BY <2>1, <2>4
<1>13. b[1] = p[1] /\ b[2] = p[2] /\ b[3] = p[3]
  <2>1. ASSUME NEW j \in 1 .. 3 PROVE b[j] = p[j]
    <3>1. b[1 + j - 1] = p[j] /\ 1 + j - 1 = j
      BY <1>4, <1>10 DEF At, one
    <3> QED
      BY <3>1
  <2>2. 1 \in 1 .. 3 /\ 2 \in 1 .. 3 /\ 3 \in 1 .. 3
    OBVIOUS
  <2> QED
    BY <2>1, <2>2
<1>14. FromBE2(Tail(b)) = Len(body)
  <2>1. b \in Seq(Octets) /\ Len(b) \in Nat /\ Len(b) >= 3
    BY <1>1, <1>6, <1>7
  <2>2. b # <<>>
    BY <2>1, EmptySeq
  <2>3. Len(Tail(b)) = Len(b) - 1 /\ \A i \in 1 .. Len(Tail(b)) : Tail(b)[i] = b[i + 1]
    BY <2>1, <2>2, HeadTailProperties
  <2>4. 1 \in 1 .. Len(Tail(b)) /\ 2 \in 1 .. Len(Tail(b))
    BY <2>1, <2>3
  <2>5. Tail(b)[1] = b[2] /\ Tail(b)[2] = b[3]
    <3> DEFINE t == Tail(b)
    <3>1. \A i \in 1 .. Len(t) : t[i] = b[i + 1]
      BY <2>3
    <3>2. 1 \in 1 .. Len(t) /\ 2 \in 1 .. Len(t) /\ 1 + 1 = 2 /\ 2 + 1 = 3
      BY <2>4
    <3> HIDE DEF t
    <3>3. t[1] = b[2] /\ t[2] = b[3]
      BY <3>1, <3>2
    <3> QED
      BY <3>3 DEF t
  <2>6. Tail(b)[1] = l[1] /\ Tail(b)[2] = l[2]
    BY <1>4, <1>13, <2>5
  <2>7. FromBE2(Tail(b)) = l[1] * 256 + l[2]
    BY <2>6 DEF FromBE2
  <2> QED
    BY <1>3, <2>7
<1>15. V2Frame(body) = q /\ V2Frame(body) \o x = b
  BY DEF V2Frame, m, l, p, q, b
<1> QED
  BY <1>4, <1>5, <1>6, <1>7, <1>11, <1>12, <1>13, <1>14, <1>15 DEF V2Then, four, k, n

(* A header in v2-tlv is read back, whatever follows it. *)
LEMMA V2Reads ==
  ASSUME NEW h \in Headers, NEW body \in Bodies, TakeTlvs[<<body, Filled(h, 0)>>] = h,
         NEW x \in Seq(Octets)
  PROVE  ReadV2(V2Frame(body) \o x) = Truncated(h)
<1> DEFINE b == V2Frame(body) \o x
           g == [f \in Range(Fields) |-> IF f = "version" THEN PROTOCOL_VERSION ELSE 0]
<1>1. V2Then(body, x, b)
  BY V2FrameIs
<1> HIDE DEF b
<1>2. Len(body) \in Nat /\ Len(x) \in Nat
  BY DEF Bodies
<1>3. /\ Len(b) = 3 + Len(body) + Len(x) /\ b[1] = V2_TLV_MAGIC /\ FromBE2(Tail(b)) = Len(body)
      /\ SubSeq(b, 4, 3 + Len(body)) = body
  BY <1>1 DEF V2Then
<1>4. ~(Len(b) < 3 \/ b[1] # V2_TLV_MAGIC \/ 3 + FromBE2(Tail(b)) > Len(b))
  BY <1>2, <1>3
<1>5. TakeTlvs[<<SubSeq(b, 4, 3 + FromBE2(Tail(b))), g>>] = h
  <2>1. Filled(h, 0) = g
    BY FilledIs
  <2> HIDE DEF g
  <2> QED
    BY <1>3, <2>1
<1>6. h # BadHeader /\ h.packet_type # 0
  BY TruncatedIs
<1>7. ReadV2(b) =
        IF Len(b) < 3 \/ b[1] # V2_TLV_MAGIC \/ 3 + FromBE2(Tail(b)) > Len(b) THEN BadHeader
        ELSE IF \/ TakeTlvs[<<SubSeq(b, 4, 3 + FromBE2(Tail(b))), g>>] = BadHeader
                \/ TakeTlvs[<<SubSeq(b, 4, 3 + FromBE2(Tail(b))), g>>].packet_type = 0
          THEN BadHeader
        ELSE Truncated(TakeTlvs[<<SubSeq(b, 4, 3 + FromBE2(Tail(b))), g>>])
  <2>1. V2_TLV_PREAMBLE = 3 /\ V2_TLV_PREAMBLE + 1 = 4
    BY DEF V2_TLV_PREAMBLE
  <2> QED
    BY <2>1 DEF ReadV2
<1> HIDE DEF g
<1> QED
  BY <1>4, <1>5, <1>6, <1>7 DEF b

(* The associated data of a packet: its header, as this build or a later   *)
(* one writes it. *)
Aad(codec, h, newer) == IF newer THEN Newer(codec, h) ELSE WriteHeader(codec, h)

Plain == {h \in Headers : h.flags = 0}

(* What a header says, then x, tells a reader. *)
Read1(codec, h, newer, x, a, b) ==
  /\ a \in Seq(Octets) /\ Len(a) > 0
  /\ ReadHeader(codec, b) = h /\ BodyOffset(codec, b) = Len(a)
  /\ b[1] \in {1, 82}
  /\ (WriteHeader(codec, h) = a) <=> ~newer

LEMMA V1Marked ==
  ASSUME NEW h \in Plain
  PROVE  LET k == [h EXCEPT !.flags = 128]
         IN  k \in Headers /\ Truncated(k) = h /\ WriteV1(k) # WriteV1(h)
<1> DEFINE k == [h EXCEPT !.flags = 128]
<1>1. h \in Headers /\ h["flags"] = 0 /\ h \in [Names -> Nat] /\ "flags" \in Names
  BY TruncatedIs, FieldIs, FieldNames DEF Plain, Headers
<1>2. k \in [Names -> Nat] /\ k["flags"] = 128 /\ \A f \in Names : f # "flags" => k[f] = h[f]
  BY <1>1
<1>3. Width["flags"] = 1
  BY WidthIs, FieldNames
<1>4. 128 \in Numbers(1) /\ 0 \in Numbers(1)
  BY PlaceIs, SMT DEF Numbers
<1>5. k \in Headers
  <2>1. \A f \in Names : k[f] \in Numbers(Width[f])
    BY <1>1, <1>2, <1>3, <1>4 DEF Headers
  <2>2. k["version"] = h["version"] /\ k["packet_type"] = h["packet_type"]
    <3>1. "version" \in Names /\ "packet_type" \in Names
      BY FieldIs, FieldNames
    <3> QED
      BY <1>2, <3>1
  <2> HIDE DEF k
  <2> QED
    BY <1>1, <1>2, <2>1, <2>2 DEF Headers
<1>6. Truncated(k) = h
  <2>1. Truncated(k) = [k EXCEPT !["flags"] = 0]
    BY DEF Truncated
  <2> HIDE DEF k
  <2> QED
    BY <1>1, <1>2, <2>1
<1> HIDE DEF k
<1>7. ASSUME NEW g \in Headers, g["flags"] \in Numbers(1) PROVE WriteV1(g)[24] = g["flags"]
  <2>1. At(WriteV1(g), Offset[11] + 1, Laid(g)[11]) /\ Offset[11] = 23
    BY V1Is, OffsetIs
  <2>2. Laid(g)[11] = LE(g["flags"], 1)
    <3>1. Laid(g)[11] = LE(g[Fields[11]], Width[Fields[11]])
      BY LaidIs
    <3> QED
      BY <3>1, FieldNames, WidthIs
  <2>3. Len(LE(g["flags"], 1)) = 1 /\ LE(g["flags"], 1)[1] = g["flags"]
    BY <1>7, LEIs, OneByte
  <2> DEFINE z == Laid(g)[11]
             b == WriteV1(g)
  <2>4. At(b, 24, z) /\ Len(z) = 1 /\ z[1] = g["flags"]
    BY <2>1, <2>2, <2>3
  <2> HIDE DEF z, b
  <2>5. b[24 + 1 - 1] = z[1] /\ 24 + 1 - 1 = 24
    BY <2>4 DEF At
  <2> QED
    BY <2>4, <2>5 DEF b
<1>8. WriteV1(k)[24] = 128 /\ WriteV1(h)[24] = 0
  BY <1>1, <1>2, <1>4, <1>5, <1>7
<1>9. WriteV1(k) # WriteV1(h)
  BY <1>8
<1> QED
  BY <1>5, <1>6, <1>9 DEF k

LEMMA V1Opens ==
  ASSUME NEW h \in Plain, NEW newer \in BOOLEAN, NEW x \in Seq(Octets)
  PROVE  Read1(V1, h, newer, x, Aad(V1, h, newer), Aad(V1, h, newer) \o x)
<1> DEFINE k == IF newer THEN [h EXCEPT !.flags = 128] ELSE h
           a == Aad(V1, h, newer)
           b == a \o x
<1>1. h \in Headers /\ Truncated(h) = h
  BY TruncatedIs DEF Plain
<1>2. k \in Headers /\ Truncated(k) = h /\ ((WriteV1(h) = WriteV1(k)) <=> ~newer)
  BY <1>1, V1Marked
<1>3. a = WriteV1(k)
  BY DEF Aad, Newer, WriteHeader
<1> HIDE DEF k
<1>4. a \in Seq(Octets) /\ Len(a) = 24
  BY <1>2, <1>3, V1Is
<1>5. ReadV1(b) = h /\ b[1] = PROTOCOL_VERSION
  BY <1>2, <1>3, V1Reads
<1> HIDE DEF a
<1>6. Len(b) = Len(a) + Len(x) /\ Len(x) \in Nat
  BY <1>4, LenJoin
<1> HIDE DEF b
<1>7. ReadHeader(V1, b) = h
  BY <1>5 DEF ReadHeader
<1>8. BodyOffset(V1, b) = Len(a)
  <2> DEFINE n == Len(b)
             l == HEADER_LEN
  <2>1. n \in Int /\ l \in Int /\ l <= n /\ l = Len(a)
    BY <1>4, <1>6, WireAssumption
  <2> HIDE DEF n, l
  <2>2. Min({l, n}) = l
    BY <2>1, MinTwo
  <2>3. BodyOffset(V1, b) = Min({l, n})
    BY DEF BodyOffset, n, l
  <2> QED
    BY <2>1, <2>2, <2>3
<1>9. WriteHeader(V1, h) = WriteV1(h)
  BY DEF WriteHeader
<1>10. Read1(V1, h, newer, x, a, b)
  BY <1>2, <1>3, <1>4, <1>5, <1>7, <1>8, <1>9 DEF Read1, PROTOCOL_VERSION
<1> QED
  BY <1>10 DEF a, b

(* The fields that follow those of h in a packet of a later build. *)
Extra(newer) == IF newer THEN Tlv(12, <<1>>) ELSE <<>>

LEMMA ExtraIs ==
  ASSUME NEW newer \in BOOLEAN, NEW g \in [Names -> Nat]
  PROVE  /\ Extra(newer) \in Seq(Octets) /\ Len(Extra(newer)) = (IF newer THEN 3 ELSE 0)
         /\ TakeTlvs[<<Extra(newer), g>>] = g
<1> DEFINE v == <<1>>
           e == <<>>
<1>1. v \in Seq(Octets) /\ Len(v) = 1 /\ e \in Seq(Octets) /\ Len(e) = 0
  BY DEF Octets
<1>2. 12 \in Octets /\ v \in Holdable
  BY <1>1 DEF Octets, Holdable
<1>3. TakeTlvs[<<e, g>>] = g
  <2>1. Halts(e)
    BY DEF Halts
  <2>2. e \in Seq(Nat)
    OBVIOUS
  <2>3. TakeTlvs[<<e, g>>] = IF Halts(e) THEN (IF e = <<>> THEN g ELSE BadHeader)
                             ELSE TakeTlvs[<<TlvRest(e), Into(e, g)>>]
    <3> HIDE DEF e
    <3> QED
      BY <2>2, TakeTlvsIs
  <2> QED
    BY <2>1, <2>3
<1>4. TakeTlvs[<<Tlv(12, v), g>>] = g
  BY UnknownTlv
<1> HIDE DEF v, e
<1>5. TlvThen(12, v, e, Tlv(12, v) \o e)
  BY <1>1, <1>2, TlvIs
<1>6. Tlv(12, v) \in Seq(Octets) /\ Len(Tlv(12, v)) = 3
  <2>1. Tlv(12, v) \in Seq(Octets) /\ Len(Tlv(12, v)) = 2 + Len(v)
    BY <1>5 DEF TlvThen
  <2> QED
    BY <1>1, <2>1
<1>7. CASE newer
  <2>1. Extra(newer) = Tlv(12, v)
    BY <1>7 DEF Extra, v
  <2> QED
    BY <1>4, <1>6, <1>7, <2>1
<1>8. CASE ~newer
  <2>1. Extra(newer) = e
    BY <1>8 DEF Extra, e
  <2> QED
    BY <1>1, <1>3, <1>8, <2>1
<1> QED
  BY <1>7, <1>8

(* Those fields, and how the headers of both builds are made of them. *)
LEMMA V2Written ==
  ASSUME NEW h \in Plain, NEW codec, codec # V1, NEW newer \in BOOLEAN
  PROVE  \E body \in Bodies : /\ Aad(codec, h, newer) = V2Frame(body)
                              /\ TakeTlvs[<<body, Filled(h, 0)>>] = h
                              /\ (V2Frame(body) = WriteHeader(codec, h)) <=> ~newer
<1> DEFINE items == FlattenSeq(Items(h))
           extra == Extra(newer)
           body == items \o extra
           e == <<>>
<1>1. h \in Headers /\ h \in [Names -> Nat]
  BY DEF Plain, Headers
<1>2. extra \in Seq(Octets) /\ Len(extra) = (IF newer THEN 3 ELSE 0) /\ TakeTlvs[<<extra, h>>] = h
  BY <1>1, ExtraIs
<1>3. WriteHeader(codec, h) = V2Frame(items)
  BY DEF WriteHeader, WriteV2, Items, V2Frame
<1>4. items \in Seq(Octets) /\ Len(items) <= 66 /\ e \in Seq(Octets) /\ Len(e) = 0
  <2>1. e \in Seq(Octets) /\ Len(e) = 0
    OBVIOUS
  <2> HIDE DEF e
  <2> QED
    BY <1>1, <2>1, ItemsTaken
<1>5. TakeTlvs[<<items \o extra, Filled(h, 0)>>] = TakeTlvs[<<extra, h>>]
  BY <1>1, <1>2, ItemsTaken
<1> HIDE DEF items, extra, e
<1>6. body \in Seq(Octets) /\ Len(body) = Len(items) + Len(extra) /\ Len(items) \in Nat
  BY <1>2, <1>4, LenJoin
<1>7. items \in Bodies /\ body \in Bodies
  <2>1. 70 < TOO_LONG
    BY SMT DEF TOO_LONG
  <2>2. Len(items) < TOO_LONG /\ Len(body) < TOO_LONG
    BY <1>2, <1>4, <1>6, <2>1, TooLong
  <2> QED
    BY <1>4, <1>6, <2>2 DEF Bodies
<1>8. V2Then(items, e, V2Frame(items) \o e)
  BY <1>4, <1>7, V2FrameIs
<1>9. V2Then(body, e, V2Frame(body) \o e)
  <2> HIDE DEF body
  <2> QED
    BY <1>4, <1>7, V2FrameIs
<1>10. (V2Frame(body) = WriteHeader(codec, h)) <=> ~newer
  <2>1. CASE newer
    <3>1. Len(V2Frame(body)) = 3 + Len(body) /\ Len(V2Frame(items)) = 3 + Len(items)
      BY <1>8, <1>9 DEF V2Then
    <3>2. Len(extra) = 3
      BY <1>2, <2>1
    <3>3. Len(V2Frame(body)) # Len(V2Frame(items))
      <4> HIDE DEF body
      <4> QED
        BY <1>6, <3>1, <3>2
    <3> QED
      BY <1>3, <2>1, <3>3
  <2>2. CASE ~newer
    <3>1. extra = <<>>
      BY <2>2 DEF extra, Extra
    <3>2. body = items
      BY <1>4, <3>1, ConcatEmptySeq
    <3> QED
      BY <1>3, <2>2, <3>2
  <2> QED
    BY <2>1, <2>2
<1>11. Aad(codec, h, newer) = V2Frame(body)
  <2>1. CASE ~newer
    BY <1>10, <2>1 DEF Aad
  <2>2. CASE newer
    <3> DEFINE b == V2Frame(items)
               t == Tlv(12, <<1>>)
               m == <<V2_TLV_MAGIC>>
               p == m \o BE2(Len(body))
    <3>1. b = WriteV2(h) /\ b \in Seq(Octets)
      BY <1>3, <1>8 DEF WriteHeader, V2Then
    <3>2. b \o e = b
      BY <3>1, ConcatEmptySeq DEF e
    <3>3. extra = t
      BY <2>2 DEF extra, Extra
    <3> HIDE DEF b, t
    <3>4. FromBE2(Tail(b)) + 3 = Len(body) /\ Len(b) = 3 + Len(items)
      <4>1. FromBE2(Tail(b)) = Len(items) /\ Len(b) = 3 + Len(items) + Len(e)
        BY <1>8, <3>2 DEF V2Then, b
      <4>2. Len(extra) = 3
        BY <1>2, <2>2
      <4> HIDE DEF body
      <4> QED
        BY <1>4, <1>6, <4>1, <4>2
    <3>5. SubSeq(b, 4, Len(b)) = items
      <4>1. SubSeq(b, 4, 3 + Len(items)) = items
        BY <1>8, <3>2 DEF V2Then, b
      <4> QED
        BY <3>4, <4>1
    <3>6. Newer(codec, h) = <<V2_TLV_MAGIC>> \o BE2(FromBE2(Tail(b)) + 3) \o SubSeq(b, 4, Len(b)) \o t
      <4>1. V2_TLV_PREAMBLE + 1 = 4
        BY DEF V2_TLV_PREAMBLE
      <4> QED
        BY <3>1, <4>1 DEF Newer, t
    <3>7. Newer(codec, h) = (p \o items) \o t
      <4> HIDE DEF body
      <4> QED
        BY <3>4, <3>5, <3>6
    <3>8. p \in Seq(Octets)
      <4>1. m \in Seq(Octets)
        BY DEF Octets, V2_TLV_MAGIC
      <4>2. BE2(Len(body)) \in Seq(Octets)
        <5> HIDE DEF body
        <5>1. Len(body) \in Nat
          BY <1>6
        <5> QED
          BY <5>1, BE2Is
      <4> HIDE DEF m, body
      <4> QED
        BY <4>1, <4>2, LenJoin
    <3>9. V2Frame(body) = p \o (items \o t)
      BY <3>3 DEF V2Frame
    <3> HIDE DEF p
    <3>10. (p \o items) \o t = p \o (items \o t)
      BY <1>2, <1>4, <3>3, <3>8, Regroup
    <3> QED
      BY <2>2, <3>7, <3>9, <3>10 DEF Aad
  <2> QED
    BY <2>1, <2>2
<1>12. TakeTlvs[<<body, Filled(h, 0)>>] = h
  BY <1>2, <1>5
<1> HIDE DEF body
<1> QED
  BY <1>7, <1>10, <1>11, <1>12

LEMMA V2Opens ==
  ASSUME NEW h \in Plain, NEW codec, codec # V1, NEW newer \in BOOLEAN, NEW x \in Seq(Octets)
  PROVE  Read1(codec, h, newer, x, Aad(codec, h, newer), Aad(codec, h, newer) \o x)
<1>1. PICK body \in Bodies : /\ Aad(codec, h, newer) = V2Frame(body)
                             /\ TakeTlvs[<<body, Filled(h, 0)>>] = h
                             /\ (V2Frame(body) = WriteHeader(codec, h)) <=> ~newer
  BY V2Written
<1> DEFINE a == V2Frame(body)
           b == a \o x
<1>2. h \in Headers /\ Truncated(h) = h
  BY TruncatedIs DEF Plain
<1>3. ReadV2(b) = h
  BY <1>1, <1>2, V2Reads
<1>4. V2Then(body, x, b)
  BY V2FrameIs
<1> HIDE DEF b
<1>5. Len(body) \in Nat /\ Len(x) \in Nat
  BY DEF Bodies
<1>6. /\ a \in Seq(Octets) /\ Len(a) = 3 + Len(body) /\ Len(b) = 3 + Len(body) + Len(x)
      /\ b[1] = V2_TLV_MAGIC /\ FromBE2(Tail(b)) = Len(body)
  BY <1>4 DEF V2Then
<1> HIDE DEF a
<1>7. BodyOffset(codec, b) = Len(a)
  <2> DEFINE n == Len(b)
             l == 3 + FromBE2(Tail(b))
  <2>1. n \in Int /\ l \in Int /\ l <= n /\ l = Len(a) /\ ~(n < 3)
    BY <1>5, <1>6
  <2>2. BodyOffset(codec, b) = IF n < 3 \/ b[1] # V2_TLV_MAGIC THEN 0 ELSE Min({l, n})
    BY DEF BodyOffset, V2_TLV_PREAMBLE
  <2> HIDE DEF n, l
  <2>3. Min({l, n}) = l
    BY <2>1, MinTwo
  <2> QED
    BY <1>6, <2>1, <2>2, <2>3
<1>8. ReadHeader(codec, b) = h
  BY <1>3 DEF ReadHeader
<1>9. Len(a) > 0 /\ V2_TLV_MAGIC = 82
  BY <1>5, <1>6 DEF V2_TLV_MAGIC
<1>10. (WriteHeader(codec, h) = a) <=> ~newer
  BY <1>1 DEF a
<1>11. Read1(codec, h, newer, x, a, b)
  BY <1>6, <1>7, <1>8, <1>9, <1>10 DEF Read1
<1> QED
  BY <1>1, <1>11 DEF a, b

(* Under either codec a header is read back, by this build also that of a  *)
(* later one, and encoded anew it is what was sealed just when this build  *)
(* has written it. *)
LEMMA HeaderOpens ==
  ASSUME NEW h \in Plain, NEW codec, NEW newer \in BOOLEAN, NEW x \in Seq(Octets)
  PROVE  Read1(codec, h, newer, x, Aad(codec, h, newer), Aad(codec, h, newer) \o x)
<1>1. CASE codec = V1
  BY <1>1, V1Opens
<1>2. CASE codec # V1
  BY <1>2, V2Opens
<1> QED
  BY <1>1, <1>2

-----------------------------------------------------------------------------
(* A packet *)

LEMMA CiphertextIs ==
  ASSUME NEW n \in Nat
  PROVE  Ciphertext(n) \in Seq(Octets) /\ Len(Ciphertext(n)) = n
<1> DEFINE c == Ciphertext(n)
<1>1. \A i \in 1 .. n : (100 + i) % 256 \in Octets
  BY DEF Octets
<1>2. c = [i \in 1 .. n |-> (100 + i) % 256]
  BY DEF Ciphertext
<1> QED
  BY <1>1, <1>2

(* A sealed packet, and p as the i-th of them. *)
Packets == [of : Sessions, header : Plain, aad : Seq(Octets), len : Nat, newer : BOOLEAN]

Sealed(i, p) ==
  p \in Packets /\ p.header.seq = 254 + i /\ p.aad = Aad(profile.codec, p.header, p.newer)

History == sent \in Seq(Packets) /\ \A i \in 1 .. Len(sent) : Sealed(i, sent[i])

(* A datagram on the network, with the packet p in it. *)
CarriesPacket(d, p) ==
  /\ p = sent[d.n] /\ d.of = p.of
  /\ d.bytes = WrapFrame(Bytes(p.aad \o Ciphertext(p.len)), d.of)

Carries(d) == d.n \in 1 .. Len(sent) /\ \E p \in Packets : CarriesPacket(d, p)

(* What a session reads: nothing, something garbled, or the frame; its own *)
(* frames it reads. *)
Reading(r, o, s, v) ==
  /\ v = <<>> \/ GARBLED \in Range(v) \/ v = r
  /\ s = o => v = r
  /\ v = r => v # <<>> /\ GARBLED \notin Range(v)

(* buf is r on the wire. *)
OnWire(r, o, buf) ==
  /\ r \in Seq(Octets) /\ Len(r) > 0 /\ buf = WrapFrame(Bytes(r), o) /\ Len(buf) < TOO_LONG

LEMMA FrameReads ==
  ASSUME Carried, NEW r, NEW o \in Int, NEW s \in Int, NEW buf, OnWire(r, o, buf)
  PROVE  Reading(r, o, s, Values(UnwrapFrame(buf, s)))
<1>0. r \in Seq(Octets) /\ Len(r) > 0 /\ buf = WrapFrame(Bytes(r), o) /\ Len(buf) < TOO_LONG
  BY DEF OnWire
<1> DEFINE v == Values(UnwrapFrame(buf, s))
           f == Bytes(r)
           u == UnwrapFrame(buf, s)
<1>1. f \in Buffers /\ Len(f) = Len(r) /\ Values(f) = r /\ \A i \in 1 .. Len(r) : f[i] = Byte(r[i])
  BY <1>0, BytesAre
<1>2. Comes(f, o, s)
  <2> HIDE DEF f
  <2>1. Len(WrapFrame(f, o)) < TOO_LONG
    BY <1>0 DEF f
  <2> QED
    BY <1>1, <2>1, FrameUndone
<1>3. u \in Buffers /\ (u = NoFrame \/ Same(u, f)) /\ (s = o /\ f # <<>> => u = f)
  BY <1>0, <1>2 DEF Comes
<1>4. Len(r) \in Nat /\ f # <<>>
  <2>1. Len(r) \in Nat
    BY <1>0
  <2> HIDE DEF f
  <2> QED
    BY <1>0, <1>1, <2>1, EmptySeq DEF Buffers
<1> HIDE DEF f, u, v
<1>5. v = Values(u)
  BY DEF u, v
<1>6. /\ Len(u) \in Nat /\ v \in Seq(Int) /\ Len(v) = Len(u)
      /\ \A i \in 1 .. Len(u) : v[i] = IF u[i].w = {} THEN u[i].v ELSE GARBLED
  BY <1>3, <1>5, ValuesAre
<1>7. s = o => v = r
  BY <1>1, <1>3, <1>4, <1>5
<1>8. v = <<>> \/ GARBLED \in Range(v) \/ v = r
  <2>1. CASE u = NoFrame
    <3>1. Len(u) = 0
      BY <2>1 DEF NoFrame
    <3> QED
      BY <1>6, <3>1, EmptySeq
  <2>2. CASE Same(u, f)
    <3> SUFFICES ASSUME GARBLED \notin Range(v) PROVE v = r
      OBVIOUS
    <3>1. Len(u) = Len(f) /\ \A i \in 1 .. Len(u) : u[i].v = f[i].v
      BY <2>2 DEF Same
    <3>2. ASSUME NEW i \in 1 .. Len(r) PROVE v[i] = r[i]
      <4>1. i \in 1 .. Len(u) /\ i \in 1 .. Len(v)
        BY <1>1, <1>6, <3>1
      <4>2. v[i] \in Range(v)
        BY <1>6, <4>1 DEF Range
      <4>3. v[i] = u[i].v
        BY <1>6, <4>1, <4>2
      <4>4. f[i].v = r[i]
        <5>1. f[i] = Byte(r[i])
          BY <1>1
        <5>2. Byte(r[i]).v = r[i]
          BY DEF Byte
        <5> QED
          BY <5>1, <5>2
      <4> QED
        BY <3>1, <4>1, <4>3, <4>4
    <3>3. r \in Seq(Int) /\ Len(v) = Len(r)
      BY <1>0, <1>1, <1>6, <3>1, OctetsAreNumbers
    <3> QED
      BY <1>6, <3>2, <3>3, SeqEqual
  <2> QED
    BY <1>3, <2>1, <2>2
<1>9. v = r => v # <<>> /\ GARBLED \notin Range(v)
  <2> SUFFICES ASSUME v = r PROVE v # <<>> /\ GARBLED \notin Range(v)
    OBVIOUS
  <2>1. r # <<>>
    BY <1>0, <1>4, EmptySeq
  <2>2. ASSUME NEW i \in DOMAIN r PROVE r[i] # GARBLED
    <3> DEFINE e == r[i]
    <3>1. e \in Octets
      BY <1>0, <2>2, ElementOfSeq, LenProperties
    <3> HIDE DEF e
    <3>2. e # GARBLED
      BY <3>1, SMT DEF Octets, GARBLED
    <3> QED
      BY <3>2 DEF e
  <2> QED
    BY <2>1, <2>2 DEF Range
<1> QED
  BY <1>7, <1>8, <1>9 DEF Reading, v

(* A packet is opened by its session, and by nobody else. *)
LEMMA PacketOpens ==
  ASSUME Carried, History, NEW d, Carries(d), Len(d.bytes) < TOO_LONG, NEW s \in Sessions
  PROVE  Open(d.bytes, s) = IF s = d.of /\ ~sent[d.n].newer THEN sent[d.n] ELSE NoPacket
<1> DEFINE p == sent[d.n]
           x == Ciphertext(p.len)
           a == p.aad
           r == a \o x
           v == Values(UnwrapFrame(d.bytes, s))
           codec == profile.codec
           h == ReadHeader(codec, v)
           body == SubSeq(v, BodyOffset(codec, v) + 1, Len(v))
           opens == {q \in Range(sent) :
                       /\ q.of = s /\ q.header.seq = h.seq
                       /\ q.aad = WriteHeader(codec, h)
                       /\ body = Ciphertext(q.len)}
<1>1. Sealed(d.n, p) /\ p \in Packets /\ d.n \in 1 .. Len(sent) /\ d.of = p.of
  BY DEF History, Carries, CarriesPacket, Sealed
<1>2. s \in Int /\ d.of \in Int
  <2>1. d.of \in Sessions
    BY <1>1 DEF Packets
  <2>2. \A t \in Sessions : t \in Int
    BY WireAssumption
  <2> QED
    BY <2>1, <2>2
<1>3. x \in Seq(Octets)
  <2>1. p.len \in Nat
    BY <1>1 DEF Packets
  <2> HIDE DEF p
  <2> QED
    BY <2>1, CiphertextIs
<1>4. Read1(codec, p.header, p.newer, x, a, r)
  <2>1. p.header \in Plain /\ p.newer \in BOOLEAN /\ a = Aad(codec, p.header, p.newer)
    BY <1>1 DEF Sealed, Packets
  <2> HIDE DEF p, x, a, codec
  <2>2. Read1(codec, p.header, p.newer, x, Aad(codec, p.header, p.newer),
              Aad(codec, p.header, p.newer) \o x)
    BY <1>3, <2>1, HeaderOpens
  <2> QED
    BY <2>1, <2>2
<1>5. d.bytes = WrapFrame(Bytes(r), d.of)
  BY DEF Carries, CarriesPacket
<1>6. Open(d.bytes, s) =
        IF v = NoFrame \/ GARBLED \in Range(v) THEN NoPacket
        ELSE IF IsDecoyFrame(v) \/ h = BadHeader \/ opens = {} THEN NoPacket
        ELSE CHOOSE q \in opens : TRUE
  BY DEF Open
<1> HIDE DEF x, a, codec
<1>7. r \in Seq(Octets) /\ Len(r) > 0 /\ Len(a) \in Nat /\ Len(r) = Len(a) + Len(x)
  <2>1. a \in Seq(Octets) /\ Len(a) > 0
    BY <1>4 DEF Read1
  <2> HIDE DEF r
  <2>2. r \in Seq(Octets) /\ Len(r) = Len(a) + Len(x) /\ Len(a) \in Nat /\ Len(x) \in Nat
    BY <1>3, <2>1, LenJoin DEF r
  <2> QED
    BY <2>1, <2>2
<1> HIDE DEF r, v
<1>8. /\ v = <<>> \/ GARBLED \in Range(v) \/ v = r
      /\ s = d.of => v = r
      /\ v = r => v # <<>> /\ GARBLED \notin Range(v)
  <2> DEFINE buf == d.bytes
             o == d.of
  <2>1. OnWire(r, o, buf) /\ v = Values(UnwrapFrame(buf, s))
    BY <1>5, <1>7 DEF v, OnWire
  <2>2. o \in Int
    BY <1>2
  <2> HIDE DEF buf, o
  <2>3. Reading(r, o, s, v)
    BY <1>2, <2>1, <2>2, FrameReads
  <2> QED
    BY <2>3 DEF o, Reading
<1>9. CASE v # r
  BY <1>6, <1>8, <1>9 DEF NoFrame
<1>10. CASE v = r
  <2>1. h = p.header /\ BodyOffset(codec, v) = Len(a) /\ v[1] \in {1, 82}
        /\ ((WriteHeader(codec, p.header) = a) <=> ~p.newer) /\ a \in Seq(Octets)
    BY <1>4, <1>10 DEF Read1
  <2>2. ~IsDecoyFrame(v)
    BY <2>1 DEF IsDecoyFrame
  <2>3. h # BadHeader /\ h.seq = 254 + d.n
    <3>1. p.header \in Headers /\ p.header.seq = 254 + d.n
      BY <1>1 DEF Sealed, Packets, Plain
    <3> QED
      BY <2>1, <3>1, TruncatedIs
  <2>4. body = x
    <3> DEFINE k == Len(a) + 1
               n == Len(r)
    <3>1. At(r, k, x)
      BY <1>3, <2>1, AtParts DEF r
    <3>2. k \in Nat \ {0} /\ n = k + Len(x) - 1
      BY <1>3, <1>7
    <3> HIDE DEF k, n
    <3>3. r \in Seq(Octets)
      BY <1>7
    <3>4. SubSeq(r, k, n) = x
      BY <1>3, <3>1, <3>2, <3>3, AtSub
    <3> QED
      BY <1>10, <2>1, <3>4 DEF k, n
  <2> HIDE DEF h, body
  <2>5. opens = {q \in Range(sent) : q.of = s /\ q.header.seq = 254 + d.n
                                     /\ q.aad = WriteHeader(codec, p.header) /\ x = Ciphertext(q.len)}
    BY <2>1, <2>3, <2>4
  <2>6. ASSUME NEW q \in Range(sent), q.header.seq = 254 + d.n PROVE q = p
    <3>1. PICK j \in 1 .. Len(sent) : q = sent[j]
      BY DEF Range, History
    <3>2. q.header.seq = 254 + j
      BY <3>1 DEF History, Sealed
    <3>3. j = d.n
      BY <1>1, <2>6, <3>2
    <3> QED
      BY <3>1, <3>3
  <2>7. p \in Range(sent)
    BY <1>1 DEF Range, History
  <2>8. p.header.seq = 254 + d.n /\ x = Ciphertext(p.len) /\ p.aad = a
    BY <2>1, <2>3 DEF x, a
  <2> HIDE DEF p, opens
  <2>9. CASE s = d.of /\ ~p.newer
    <3>1. opens = {p}
      BY <1>1, <2>1, <2>5, <2>6, <2>7, <2>8, <2>9
    <3>2. (CHOOSE q \in opens : TRUE) = p
      BY <3>1
    <3>3. opens # {}
      BY <3>1
    <3> QED
      BY <1>6, <1>8, <1>10, <2>2, <2>3, <2>9, <3>2, <3>3 DEF NoFrame, p
  <2>10. CASE ~(s = d.of /\ ~p.newer)
    <3>1. opens = {}
      BY <1>1, <2>1, <2>5, <2>6, <2>8, <2>10
    <3> QED
      BY <1>6, <2>10, <3>1 DEF p
  <2> QED
    BY <2>9, <2>10
<1> QED
  BY <1>9, <1>10

-----------------------------------------------------------------------------
(* The invariant *)

(* A handshake has succeeded. *)
Ready ==
  /\ sc \in Scenarios
  /\ profile = Resolved(Negotiate(sc.server, EncodeOffer(OfferOf(sc.client))), sc.server)

Flight ==
  \A d \in net : Carries(d) /\ d.bytes \in Buffers /\ Len(d.bytes) < TOO_LONG

Streams == pipe \in Buffers /\ leftover \in Buffers

WInv == Ready /\ (History /\ Len(sent) <= MaxSent) /\ Flight /\ Streams

LEMMA ReadyCarried ==
  ASSUME Ready
  PROVE  Carried
<1> DEFINE n == Negotiate(sc.server, EncodeOffer(OfferOf(sc.client)))
<1>1. /\ sc.layers \in Seq(STRING) /\ sc.buckets \subseteq Nat /\ sc.padding_max \in Nat
      /\ sc.server.tag \in Seq(Octets) /\ n # Malformed
  BY ScenarioAssumption DEF Ready, Octets
<1>2. n.tag = sc.server.tag
  <2>1. \E q, offer : n = Selected(Selection(q, sc.server.tag))
    BY DEF Negotiate, NegotiateOffer
  <2>2. PICK q : n = Selected(Selection(q, sc.server.tag))
    BY <2>1
  <2>3. n = Selection(q, sc.server.tag)
    <3> HIDE DEF n
    <3> QED
      BY <1>1, <2>2 DEF Selected
  <2> HIDE DEF n
  <2> QED
    BY <2>3 DEF Selection
<1>3. profile = Resolved(n, sc.server)
  BY DEF Ready
<1> HIDE DEF n
<1>4. \A id : \A tag \in Seq(Octets) : Envelope(id, tag).tag \in Seq(Octets)
  BY DEF Envelope
<1>5. DEFAULT_TAG \in Seq(Octets)
  BY DEF DEFAULT_TAG, Octets
<1>6. profile.transport.tag \in Seq(Octets)
  <2>1. profile.transport = HandshakeEnvelope(sc.server)
        \/ profile.transport = Envelope(n.transport, n.tag)
    BY <1>3 DEF Resolved
  <2>2. HandshakeEnvelope(sc.server).tag \in Seq(Octets)
    BY <1>4, <1>5 DEF HandshakeEnvelope
  <2>3. Envelope(n.transport, n.tag).tag \in Seq(Octets)
    BY <1>1, <1>2, <1>4
  <2> QED
    BY <2>1, <2>2, <2>3
<1> QED
  BY <1>1, <1>6 DEF Carried, Padding, Stack

LEMMA WrapIs ==
  ASSUME Carried, NEW f \in Buffers, NEW s \in Int
  PROVE  WrapFrame(f, s) \in Buffers
<1>1. Apply(f, s) \in Buffers
  BY ApplyIs DEF Carried
<1> QED
  BY <1>1, Unwrapped DEF WrapFrame, Carried

LEMMA WrapUnmoved ==
  ASSUME UNCHANGED <<sc, profile>>, NEW f, NEW s
  PROVE  WrapFrame(f, s)' = WrapFrame(f, s)
<1>1. Apply(f, s)' = Apply(f, s)
  BY DEF Apply, Stack, ApplyLayer, Pad, Padded, FoldLeft, MapThenFoldSet
<1> QED
  BY <1>1 DEF WrapFrame, Wrap

LEMMA ClientIs == Client \in Sessions
<1>1. \E x \in Sessions : \A y \in Sessions : x <= y
  BY LeastNat, WireAssumption
<1> QED
  BY <1>1 DEF Client, Min

LEMMA CarriesKept ==
  ASSUME UNCHANGED <<sc, profile>>, Len(sent) \in Nat, Len(sent') \in Nat, Len(sent) <= Len(sent'),
         \A i \in 1 .. Len(sent) : sent'[i] = sent[i], NEW d, Carries(d)
  PROVE  Carries(d)'
<1>1. PICK p \in Packets : CarriesPacket(d, p)
  BY DEF Carries
<1>2. d.n \in 1 .. Len(sent)
  BY DEF Carries
<1>3. p = sent'[d.n] /\ d.of = p.of /\ d.bytes = WrapFrame(Bytes(p.aad \o Ciphertext(p.len)), d.of)
  BY <1>1, <1>2 DEF CarriesPacket
<1>4. d.n \in 1 .. Len(sent')
  BY <1>2
<1> DEFINE f == Bytes(p.aad \o Ciphertext(p.len))
           o == d.of
<1>5. WrapFrame(f, o)' = WrapFrame(f, o)
  <2> HIDE DEF f, o
  <2> QED
    BY WrapUnmoved
<1>6. CarriesPacket(d, p)'
  BY <1>3, <1>5 DEF CarriesPacket
<1> QED
  BY <1>4, <1>6 DEF Carries

LEMMA SentKept ==
  ASSUME WInv, UNCHANGED <<sc, profile, sent>>, net' \subseteq net
  PROVE  Ready' /\ (History /\ Len(sent) <= MaxSent)' /\ Flight'
<1>1. Ready'
  BY DEF WInv, Ready
<1>2. (History /\ Len(sent) <= MaxSent)'
  BY DEF WInv, History, Sealed
<1>3. Len(sent) \in Nat /\ sent' = sent
  BY DEF WInv, History
<1>4. ASSUME NEW d \in net'
      PROVE  Carries(d)' /\ d.bytes \in Buffers /\ Len(d.bytes) < TOO_LONG
  <2>1. Carries(d) /\ d.bytes \in Buffers /\ Len(d.bytes) < TOO_LONG
    BY DEF WInv, Flight
  <2>2. Carries(d)'
    BY <1>3, <2>1, CarriesKept
  <2> QED
    BY <2>1, <2>2
<1>5. Flight'
  BY <1>4 DEF Flight
<1> QED
  BY <1>1, <1>2, <1>5

LEMMA SubBuffer ==
  ASSUME NEW b \in Buffers, NEW i \in Nat \ {0}, NEW j \in Int, j <= Len(b)
  PROVE  SubSeq(b, i, j) \in Buffers
<1>1. Len(b) \in Nat /\ \A k \in 1 .. Len(b) : b[k] \in Cells
  BY ValuesAre
<1>2. \A k \in i .. j : b[k] \in Cells
  <2> SUFFICES ASSUME NEW k \in i .. j PROVE b[k] \in Cells
    OBVIOUS
  <2>1. k \in 1 .. Len(b)
    BY <1>1
  <2> QED
    BY <1>1, <2>1
<1> QED
  BY <1>2, SubSeqProperties DEF Buffers

LEMMA JoinBuffers ==
  ASSUME NEW a \in Buffers, NEW b \in Buffers
  PROVE  a \o b \in Buffers
BY ConcatProperties DEF Buffers

LEMMA InitWInv == Init => WInv
<1> SUFFICES ASSUME Init PROVE WInv
  OBVIOUS
<1>1. Ready
  BY DEF Init, Ready
<1>2. History /\ Len(sent) <= MaxSent
  BY WireAssumption DEF Init, History
<1>3. Flight
  BY DEF Init, Flight
<1>4. Streams
  BY DEF Init, Streams, Buffers
<1> QED
  BY <1>1, <1>2, <1>3, <1>4 DEF WInv

LEMMA ReadWInv ==
  ASSUME WInv, NEW n \in ReadSizes, Read(n)
  PROVE  WInv'
<1>1. Ready' /\ (History /\ Len(sent) <= MaxSent)' /\ Flight'
  <2>1. UNCHANGED <<sc, profile, sent>> /\ net' \subseteq net
    BY DEF Read
  <2> QED
    BY <2>1, SentKept
<1>2. Streams'
  <2> DEFINE l == Len(pipe)
             k == Min({n, l})
  <2>1. pipe \in Buffers /\ leftover \in Buffers
    BY DEF WInv, Streams
  <2>2. l \in Nat /\ n \in Nat
    BY <2>1, ValuesAre, WireAssumption
  <2>3. leftover' = leftover \o SubSeq(pipe, 1, k) /\ pipe' = SubSeq(pipe, k + 1, l)
    BY DEF Read
  <2> HIDE DEF l
  <2>4. k \in Nat /\ k <= l
    <3>1. k = IF n <= l THEN n ELSE l
      BY <2>2, MinTwo
    <3> HIDE DEF k
    <3> QED
      BY <2>2, <3>1
  <2> HIDE DEF k
  <2>5. SubSeq(pipe, 1, k) \in Buffers
    BY <2>1, <2>4, SubBuffer DEF l
  <2>6. SubSeq(pipe, k + 1, l) \in Buffers
    <3> DEFINE i == k + 1
    <3>1. i \in Nat \ {0} /\ l \in Int /\ l <= Len(pipe)
      BY <2>2, <2>4 DEF l
    <3> HIDE DEF i
    <3>2. SubSeq(pipe, i, l) \in Buffers
      BY <2>1, <3>1, SubBuffer
    <3> QED
      BY <3>2 DEF i
  <2>7. leftover' \in Buffers /\ pipe' \in Buffers
    BY <2>1, <2>3, <2>5, <2>6, JoinBuffers
  <2> QED
    BY <2>7 DEF Streams
<1> QED
  BY <1>1, <1>2 DEF WInv

LEMMA BreakWInv ==
  ASSUME WInv, Break
  PROVE  WInv'
<1>1. Ready' /\ (History /\ Len(sent) <= MaxSent)' /\ Flight'
  <2>1. UNCHANGED <<sc, profile, sent>> /\ net' \subseteq net
    BY DEF Break
  <2> QED
    BY <2>1, SentKept
<1>2. Streams'
  <2>1. pipe \in Buffers /\ leftover \in Buffers
    BY DEF WInv, Streams
  <2>2. PICK k \in ReadSizes \cup {0} : k <= Len(pipe) /\ pipe' = SubSeq(pipe, 1, k)
    BY DEF Break
  <2>3. k \in Int
    BY WireAssumption
  <2>4. SubSeq(pipe, 1, k) \in Buffers
    BY <2>1, <2>2, <2>3, SubBuffer
  <2>5. pipe' \in Buffers /\ leftover' \in Buffers
    BY <2>1, <2>2, <2>4 DEF Break
  <2> QED
    BY <2>5 DEF Streams
<1> QED
  BY <1>1, <1>2 DEF WInv

LEMMA TakeMessageWInv ==
  ASSUME WInv, TakeMessage
  PROVE  WInv'
<1>1. Ready' /\ (History /\ Len(sent) <= MaxSent)' /\ Flight'
  <2>1. UNCHANGED <<sc, profile, sent>> /\ net' \subseteq net
    BY DEF TakeMessage
  <2> QED
    BY <2>1, SentKept
<1>2. Streams'
  <2> DEFINE n == Whole(leftover)
             l == Len(leftover)
             v == Values(leftover)
  <2>1. pipe \in Buffers /\ leftover \in Buffers
    BY DEF WInv, Streams
  <2>2. l \in Nat /\ v \in Seq(Int) /\ Len(v) = l
    BY <2>1, ValuesAre
  <2>3. leftover' = SubSeq(leftover, 3 + n, l) /\ pipe' = pipe /\ n > 0
    BY DEF TakeMessage, Takeable
  <2>4. n = IF l < 2 THEN 0 ELSE IF l < 2 + FromBE2(v) THEN 0 ELSE FromBE2(v)
    BY DEF Whole
  <2>5. n \in Int
    <3>1. CASE l < 2
      BY <2>4, <3>1
    <3>2. CASE ~(l < 2)
      <4>1. v[1] \in Int /\ v[2] \in Int
        BY <2>2, <3>2
      <4>2. FromBE2(v) \in Int
        BY <4>1 DEF FromBE2
      <4> QED
        BY <2>4, <4>2
    <3> QED
      BY <3>1, <3>2
  <2> DEFINE i == 3 + n
  <2>6. i \in Nat \ {0} /\ l \in Int /\ l <= Len(leftover)
    BY <2>2, <2>3, <2>5
  <2> HIDE DEF n, l, i
  <2>7. SubSeq(leftover, i, l) \in Buffers
    BY <2>1, <2>6, SubBuffer
  <2>8. pipe' \in Buffers /\ leftover' \in Buffers
    BY <2>1, <2>3, <2>7 DEF i
  <2> QED
    BY <2>8 DEF Streams
<1> QED
  BY <1>1, <1>2 DEF WInv

LEMMA DeliverWInv ==
  ASSUME WInv, NEW d \in net, Deliver(d)
  PROVE  WInv'
<1>1. Ready' /\ (History /\ Len(sent) <= MaxSent)' /\ Flight'
  <2>1. UNCHANGED <<sc, profile, sent>> /\ net' \subseteq net
    BY DEF Deliver
  <2> QED
    BY <2>1, SentKept
<1>2. Streams'
  BY DEF WInv, Streams, Deliver
<1> QED
  BY <1>1, <1>2 DEF WInv

LEMMA NumberBelow ==
  ASSUME NEW m \in Numbers(4), NEW n \in Nat, n <= m
  PROVE  n \in Numbers(4)
<1>1. m \in Nat /\ m \div 16777216 < 256
  BY PlaceIs, SMT DEF Numbers
<1>2. n \div 16777216 < 256
  BY <1>1, SMT
<1> QED
  BY <1>2, PlaceIs, SMT DEF Numbers

(* The header of a new packet. *)
LEMMA HeaderIs ==
  ASSUME WInv, NEW s \in Sessions, NEW t \in Templates, Len(sent) < MaxSent
  PROVE  Header(s, t) \in Plain /\ Header(s, t).seq = 254 + (Len(sent) + 1)
<1> DEFINE h == Header(s, t)
           n == Len(sent)
<1>1. n \in Nat /\ n < MaxSent /\ MaxSent \in Nat
  BY WireAssumption DEF WInv, History
<1>2. s \in Nat /\ s \in Numbers(4)
  BY WireAssumption, HeaderAssumption
<1>3. 255 + n \in Nat /\ 255 + n \in Numbers(4)
  <2> DEFINE m == 255 + MaxSent
             k == 255 + n
  <2>1. m \in Numbers(4)
    BY HeaderAssumption
  <2>2. k \in Nat /\ k <= m
    BY <1>1
  <2> HIDE DEF m, k
  <2>3. k \in Numbers(4)
    BY <2>1, <2>2, NumberBelow
  <2> QED
    BY <2>2, <2>3 DEF k
<1>4. 1 \in Numbers(1) /\ 0 \in Numbers(1)
  BY PlaceIs, SMT DEF Numbers
<1>5. /\ "version" \in Names /\ "session_id" \in Names /\ "seq" \in Names /\ "flags" \in Names
      /\ "packet_type" \in Names
      /\ Width["version"] = 1 /\ Width["session_id"] = 4 /\ Width["seq"] = 4 /\ Width["flags"] = 1
  BY FieldIs, FieldNames, WidthIs
<1>6. \A f \in Names : h[f] = CASE f = "version" -> PROTOCOL_VERSION
                                [] f = "session_id" -> s
                                [] f = "seq" -> 255 + n
                                [] f = "flags" -> 0
                                [] OTHER -> t[f]
  BY DEF Header, Names
<1>7. DOMAIN h = Names /\ h = [f \in Names |-> h[f]]
  BY DEF Header, Names
<1> HIDE DEF n, h
<1>8. h["version"] = 1 /\ h["session_id"] = s /\ h["seq"] = 255 + n /\ h["flags"] = 0
  BY <1>5, <1>6 DEF PROTOCOL_VERSION
<1>9. \A f \in Names \ {"version", "session_id", "seq", "flags"} : h[f] = t[f]
  BY <1>6
<1>10. t.packet_type \in PacketTypes
       /\ \A f \in Names \ {"version", "session_id", "seq", "flags"} : t[f] \in Numbers(Width[f])
  BY HeaderAssumption DEF Names
<1>11. ASSUME NEW f \in Names PROVE h[f] \in Nat /\ h[f] \in Numbers(Width[f])
  <2>1. CASE f \in {"version", "session_id", "seq", "flags"}
    BY <1>2, <1>3, <1>4, <1>5, <1>8, <2>1
  <2>2. CASE f \notin {"version", "session_id", "seq", "flags"}
    <3>1. h[f] \in Numbers(Width[f])
      BY <1>9, <1>10, <2>2
    <3> QED
      BY <3>1 DEF Numbers
  <2> QED
    BY <2>1, <2>2
<1>12. h \in [Names -> Nat]
  BY <1>7, <1>11
<1>13. h["packet_type"] \in PacketTypes
  BY <1>5, <1>9, <1>10
<1>14. h \in Headers
  BY <1>8, <1>11, <1>12, <1>13 DEF Headers, PROTOCOL_VERSION
<1>15. h.flags = 0 /\ h.seq = 255 + n
  BY <1>8, <1>14, TruncatedIs
<1> QED
  BY <1>1, <1>14, <1>15 DEF Plain, h, n

LEMMA FramedIs ==
  ASSUME NEW b \in Buffers
  PROVE  /\ Framed(b) = Bytes(BE2(Len(b))) \o b /\ Bytes(BE2(Len(b))) \in Buffers
         /\ Len(Bytes(BE2(Len(b)))) = 2
         /\ Framed(b) \in Buffers /\ Len(Framed(b)) = 2 + Len(b)
<1> DEFINE n == Len(b)
           x == BE2(n)
           h == Bytes(x)
<1>1. n \in Nat
  BY ValuesAre
<1>2. x \in Seq(Octets) /\ Len(x) = 2
  BY <1>1, BE2Is
<1> HIDE DEF x
<1>3. h \in Buffers /\ Len(h) = 2
  BY <1>2, BytesAre
<1> HIDE DEF h
<1>4. h \o b \in Buffers /\ Len(h \o b) = Len(h) + n
  BY <1>3, LenJoin DEF Buffers
<1>5. Framed(b) = h \o b
  BY DEF Framed, h, x
<1> QED
  BY <1>3, <1>4, <1>5 DEF h, x

LEMMA WrapGrows ==
  ASSUME Carried, NEW f \in Buffers, NEW s \in Int, Len(WrapFrame(f, s)) < TOO_LONG
  PROVE  Len(WrapFrame(f, s)) >= Len(f)
<1> DEFINE a == Apply(f, s)
           w == WrapFrame(f, s)
<1>1. a \in Buffers
  BY ApplyIs DEF Carried
<1>2. w \in Buffers /\ Len(w) >= Len(a)
  <2> HIDE DEF a
  <2> QED
    BY <1>1, Unwrapped DEF WrapFrame, Carried, a
<1>3. Len(a) \in Nat /\ Len(w) \in Nat /\ Len(f) \in Nat
  BY <1>1, <1>2, ValuesAre
<1>4. Len(a) < TOO_LONG
  BY <1>2, <1>3, TooLong
<1>5. Len(a) >= Len(f)
  BY <1>4, StackUndone DEF Carried
<1> QED
  BY <1>2, <1>3, <1>5

(* A new packet p of session s, sealed and wrapped into w. *)
Sends(s, p, w) ==
  /\ sent' \in Seq(Packets) /\ Len(sent') = Len(sent) + 1 /\ sent'[Len(sent) + 1] = p
  /\ \A i \in 1 .. Len(sent) : sent'[i] = sent[i]
  /\ p.of = s /\ Sealed(Len(sent) + 1, p) /\ Len(w) > 0 /\ Len(w) < TOO_LONG
  /\ \A d : d.n = Len(sent) + 1 /\ d.of = s /\ d.bytes = w => Carries(d)'
  /\ IF Stream THEN pipe' = pipe \o Framed(w) /\ UNCHANGED net
     ELSE net' = net \cup {[bytes |-> w, of |-> s, n |-> Len(sent) + 1]}
          /\ UNCHANGED pipe

LEMMA NewPacket ==
  ASSUME WInv, NEW s \in Sessions, NEW t \in Templates, NEW n \in Lengths, NEW newer \in BOOLEAN,
         Send(s, t, n, newer)
  PROVE  \E p \in Packets, w \in Buffers : Sends(s, p, w)
<1> DEFINE a == Aad(profile.codec, Header(s, t), newer)
           wire == WrapFrame(Bytes(a \o Ciphertext(n)), s)
           l == Len(sent)
<1>1. /\ l < MaxSent /\ Len(wire) <= STREAM_MAX_MESSAGE
      /\ sent' = Append(sent, [of |-> s, header |-> Header(s, t), aad |-> a, len |-> n,
                               newer |-> newer])
      /\ IF Stream THEN pipe' = pipe \o Framed(wire) /\ UNCHANGED net
         ELSE net' = net \cup {[bytes |-> wire, of |-> s, n |-> l + 1]}
              /\ UNCHANGED pipe
      /\ UNCHANGED <<sc, profile, leftover>>
  BY DEF Send, Aad
<1>2. PICK p : p = [of |-> s, header |-> Header(s, t), aad |-> a, len |-> n, newer |-> newer]
  OBVIOUS
<1>3. /\ p.of = s /\ p.header = Header(s, t) /\ p.aad = a /\ p.len = n /\ p.newer = newer
  BY <1>2
<1>4. Carried /\ n \in Nat /\ s \in Int
  BY ReadyCarried, WireAssumption DEF WInv
<1>5. Header(s, t) \in Plain /\ Header(s, t).seq = 254 + (l + 1)
  BY <1>1, HeaderIs
<1>6. a \in Seq(Octets) /\ Len(a) > 0
  <2> DEFINE codec == profile.codec
             h == Header(s, t)
             e == <<>>
  <2>1. h \in Plain /\ e \in Seq(Octets)
    BY <1>5
  <2> HIDE DEF codec, h, e
  <2>2. Read1(codec, h, newer, e, Aad(codec, h, newer), Aad(codec, h, newer) \o e)
    BY <2>1, HeaderOpens
  <2>3. Aad(codec, h, newer) \in Seq(Octets) /\ Len(Aad(codec, h, newer)) > 0
    BY <2>2 DEF Read1
  <2> QED
    BY <2>3 DEF codec, h
<1>7. p \in Packets
  BY <1>2, <1>4, <1>5, <1>6 DEF Packets
<1>8. sent \in Seq(Packets) /\ l \in Nat
  BY DEF WInv, History
<1>9. /\ sent' \in Seq(Packets) /\ Len(sent') = l + 1 /\ sent'[l + 1] = p
      /\ \A i \in 1 .. l : sent'[i] = sent[i]
  <2>1. sent' = Append(sent, p)
    BY <1>1, <1>2
  <2> QED
    BY <1>7, <1>8, <2>1, AppendProperties
<1>10. PICK f : f = Bytes(p.aad \o Ciphertext(p.len))
  OBVIOUS
<1>11. wire = WrapFrame(f, s) /\ f \in Buffers
  <2>1. f = Bytes(a \o Ciphertext(n))
    BY <1>3, <1>10
  <2>2. Ciphertext(n) \in Seq(Octets)
    BY <1>4, CiphertextIs
  <2> DEFINE r == a \o Ciphertext(n)
  <2>3. r \in Seq(Octets)
    <3> HIDE DEF a
    <3> QED
      BY <1>6, <2>2, LenJoin
  <2>4. Bytes(r) \in Buffers
    <3> HIDE DEF r
    <3> QED
      BY <2>3, BytesAre
  <2> QED
    BY <2>1, <2>4
<1>12. wire \in Buffers /\ Len(wire) \in Nat
  BY <1>4, <1>11, WrapIs, ValuesAre
<1>13. Len(wire) < TOO_LONG
  <2> DEFINE w == Len(wire)
  <2>1. w \in Nat /\ w <= STREAM_MAX_MESSAGE
    BY <1>1, <1>12
  <2> HIDE DEF w
  <2>2. w < TOO_LONG
    BY <2>1, SMT DEF STREAM_MAX_MESSAGE, TOO_LONG
  <2> QED
    BY <2>2 DEF w
<1>14. Len(wire) > 0
  <2>1. Len(f) > 0
    <3> DEFINE r == a \o Ciphertext(n)
    <3>1. f = Bytes(r)
      BY <1>3, <1>10
    <3>2. Ciphertext(n) \in Seq(Octets)
      BY <1>4, CiphertextIs
    <3> HIDE DEF a
    <3>3. r \in Seq(Octets) /\ Len(r) = Len(a) + Len(Ciphertext(n)) /\ Len(a) \in Nat
          /\ Len(Ciphertext(n)) \in Nat
      BY <1>6, <3>2, LenJoin
    <3>4. Len(f) = Len(r)
      <4> HIDE DEF r
      <4> QED
        BY <3>1, <3>3, BytesAre
    <3> QED
      BY <1>6, <3>3, <3>4
  <2>2. Len(f) \in Nat
    BY <1>11, ValuesAre
  <2> DEFINE w == WrapFrame(f, s)
  <2>3. wire = w /\ Len(w) < TOO_LONG /\ Len(w) \in Nat
    BY <1>11, <1>12, <1>13
  <2>4. Len(w) >= Len(f)
    BY <1>4, <1>11, <2>3, WrapGrows
  <2> HIDE DEF w, wire
  <2> QED
    BY <2>1, <2>2, <2>3, <2>4
<1> HIDE DEF a
<1>15. p.header.seq = 254 + (l + 1) /\ p.aad = Aad(profile.codec, p.header, p.newer)
  BY <1>3, <1>5 DEF a
<1>16. ASSUME NEW d, d.n = l + 1, d.of = s, d.bytes = wire PROVE Carries(d)'
  <2>1. WrapFrame(f, s)' = WrapFrame(f, s)
    BY <1>1, WrapUnmoved
  <2>2. d.bytes = WrapFrame(f, s)'
    BY <1>11, <1>16, <2>1
  <2>3. p = sent'[d.n] /\ d.of = p.of
    BY <1>3, <1>9, <1>16
  <2>4. CarriesPacket(d, p)'
    BY <1>10, <1>16, <2>2, <2>3 DEF CarriesPacket
  <2>5. d.n \in 1 .. Len(sent')
    BY <1>8, <1>9, <1>16
  <2> QED
    BY <1>7, <2>4, <2>5 DEF Carries
<1> HIDE DEF wire
<1>17. Sends(s, p, wire)
  BY <1>1, <1>3, <1>7, <1>9, <1>13, <1>14, <1>15, <1>16 DEF Sends, Sealed, l
<1> QED
  BY <1>7, <1>12, <1>17

LEMMA SendWInv ==
  ASSUME WInv, NEW s \in Sessions, NEW t \in Templates, NEW n \in Lengths, NEW newer \in BOOLEAN,
         Send(s, t, n, newer)
  PROVE  WInv'
<1> DEFINE l == Len(sent)
<1>1. PICK p \in Packets, w \in Buffers : Sends(s, p, w)
  BY NewPacket
<1>2. UNCHANGED <<sc, profile, leftover>> /\ l < MaxSent
  BY DEF Send
<1>3. sent \in Seq(Packets) /\ l \in Nat
  BY DEF WInv, History
<1>4. /\ sent' \in Seq(Packets) /\ Len(sent') = l + 1 /\ sent'[l + 1] = p
      /\ \A i \in 1 .. l : sent'[i] = sent[i]
      /\ Sealed(l + 1, p)
  BY <1>1 DEF Sends
<1> HIDE DEF l
<1>5. Ready'
  BY <1>2 DEF WInv, Ready
<1>6. (History /\ Len(sent) <= MaxSent)'
  <2>1. ASSUME NEW i \in 1 .. l + 1 PROVE Sealed(i, sent[i])'
    <3>1. CASE i = l + 1
      BY <1>2, <1>4, <3>1 DEF Sealed
    <3>2. CASE i # l + 1
      <4>1. i \in 1 .. l
        BY <1>3, <3>2
      <4>2. Sealed(i, sent[i])
        BY <4>1 DEF WInv, History, l
      <4> QED
        BY <1>2, <1>4, <4>1, <4>2 DEF Sealed
    <3> QED
      BY <3>1, <3>2
  <2>2. Len(sent') <= MaxSent
    BY <1>2, <1>3, <1>4, WireAssumption
  <2> QED
    BY <1>4, <2>1, <2>2 DEF History
<1>7. Streams'
  <2>1. pipe \in Buffers /\ leftover \in Buffers
    BY DEF WInv, Streams
  <2>2. pipe' = pipe \/ pipe' = pipe \o Framed(w)
    BY <1>1 DEF Sends
  <2>3. Framed(w) \in Buffers
    BY FramedIs
  <2>4. pipe \o Framed(w) \in Buffers
    BY <2>1, <2>3, JoinBuffers
  <2> QED
    BY <1>2, <2>1, <2>2, <2>4 DEF Streams
<1>8. Flight'
  <2>1. ASSUME NEW d \in net, UNCHANGED <<sc, profile>>
        PROVE  Carries(d)' /\ d.bytes \in Buffers /\ Len(d.bytes) < TOO_LONG
    <3>1. Carries(d) /\ d.bytes \in Buffers /\ Len(d.bytes) < TOO_LONG
      BY DEF WInv, Flight
    <3>2. /\ Len(sent) \in Nat /\ Len(sent') \in Nat /\ Len(sent) <= Len(sent')
          /\ \A i \in 1 .. Len(sent) : sent'[i] = sent[i]
      BY <1>3, <1>4 DEF l
    <3>3. Carries(d)'
      BY <2>1, <3>1, <3>2, CarriesKept
    <3> QED
      BY <3>1, <3>3
  <2>2. PICK e : e = [bytes |-> w, of |-> s, n |-> l + 1]
    OBVIOUS
  <2>3. e.bytes = w /\ e.of = s /\ e.n = l + 1
    BY <2>2
  <2>4. Carries(e)' /\ Len(w) < TOO_LONG
    BY <1>1, <2>3 DEF Sends, l
  <2>5. \A d \in net' : d \in net \/ d = e
    BY <1>1, <2>2 DEF Sends, l
  <2>6. ASSUME NEW d \in net'
        PROVE  Carries(d)' /\ d.bytes \in Buffers /\ Len(d.bytes) < TOO_LONG
    BY <1>2, <2>1, <2>3, <2>4, <2>5
  <2> QED
    BY <2>6 DEF Flight
<1> QED
  BY <1>5, <1>6, <1>7, <1>8 DEF WInv

LEMMA NextWInv ==
  ASSUME WInv, [Next]_vars
  PROVE  WInv'
<1>1. CASE \E s \in IF Stream THEN {Client} ELSE Sessions, t \in Templates, n \in Lengths,
              newer \in BOOLEAN : Send(s, t, n, newer)
  <2>1. PICK s \in Sessions, t \in Templates, n \in Lengths, newer \in BOOLEAN :
               Send(s, t, n, newer)
    BY <1>1, ClientIs
  <2> QED
    BY <2>1, SendWInv
<1>2. CASE \E d \in net : Deliver(d)
  BY <1>2, DeliverWInv
<1>3. CASE Reads
  BY <1>3, ReadWInv DEF Reads
<1>4. CASE TakeMessage
  BY <1>4, TakeMessageWInv
<1>5. CASE Break
  BY <1>5, BreakWInv
<1>6. CASE UNCHANGED vars
  <2>1. Ready' /\ (History /\ Len(sent) <= MaxSent)' /\ Flight'
    BY <1>6, SentKept DEF vars
  <2>2. Streams'
    BY <1>6 DEF vars, WInv, Streams
  <2> QED
    BY <2>1, <2>2 DEF WInv
<1> QED
  BY <1>1, <1>2, <1>3, <1>4, <1>5, <1>6 DEF Next

(* Through either codec, any stack of layers with any buckets, any         *)
(* envelope, and whatever the network does, a packet of this build is      *)
(* opened by its own session as it was sealed, and no session opens        *)
(* anything but what was sealed for it (wrap_frame, unwrap_frame,          *)
(* handle_udp_datagram). *)
THEOREM RoundTripHolds == Spec => []RoundTrip
<1>1. ASSUME WInv PROVE RoundTrip
  <2>1. Carried /\ History
    BY <1>1, ReadyCarried DEF WInv
  <2>2. TypeOK
    <3>1. \A b \in Buffers : \A i \in DOMAIN b : b[i].v \in 0 .. 255
      <4> SUFFICES ASSUME NEW b \in Buffers, NEW i \in DOMAIN b PROVE b[i].v \in 0 .. 255
        OBVIOUS
      <4>1. b[i] \in Cells
        BY ValuesAre
      <4> QED
        BY <4>1 DEF Cells, Octets
    <3>2. {pipe, leftover} \cup {d.bytes : d \in net} \subseteq Buffers
      BY <1>1 DEF WInv, Streams, Flight
    <3>3. Len(sent) <= MaxSent
      BY <1>1 DEF WInv
    <3> QED
      BY <3>1, <3>2, <3>3 DEF TypeOK
  <2>3. ASSUME NEW d \in net, NEW s \in Sessions
        PROVE  Open(d.bytes, s) = IF s = d.of /\ ~sent[d.n].newer THEN sent[d.n] ELSE NoPacket
    <3>1. Carries(d) /\ Len(d.bytes) < TOO_LONG
      BY <1>1 DEF WInv, Flight
    <3> QED
      BY <2>1, <3>1, PacketOpens
  <2>4. ASSUME NEW d \in net, NEW s \in Sessions
        PROVE  /\ s = d.of /\ ~sent[d.n].newer => Open(d.bytes, s) = sent[d.n]
               /\ Open(d.bytes, s) \in {NoPacket} \cup (IF s = d.of THEN {sent[d.n]} ELSE {})
    BY <2>3
  <2> QED
    BY <2>2, <2>4 DEF RoundTrip
<1> QED
  BY <1>1, InitWInv, NextWInv, PTL DEF Spec

-----------------------------------------------------------------------------
(* The stream.  m holds the messages sent, R[i] the bytes of all but the   *)
(* first i of them; z are the bytes a broken connection has lost; c[i] are *)
(* the packets opened among the first i. *)

Message(i, d) ==
  /\ Carries(d) /\ d.n = i /\ d.of = Client
  /\ d.bytes \in Buffers /\ Len(d.bytes) > 0 /\ Len(d.bytes) < TOO_LONG

Messages(m) == \A i \in 1 .. Len(sent) : Message(i, m[i])

Tape(m, R) ==
  /\ R \in [0 .. Len(sent) -> Buffers] /\ R[Len(sent)] = <<>>
  /\ \A i \in 1 .. Len(sent) : R[i - 1] = Framed(m[i].bytes) \o R[i]

Left(R, z) ==
  /\ z \in Buffers /\ leftover \o (pipe \o z) = R[taken]
  /\ ~broken => z = <<>>

Opening(c) ==
  /\ c \in [0 .. Len(sent) -> Seq(Packets)] /\ c[0] = <<>>
  /\ \A i \in 1 .. Len(sent) :
       c[i] = IF sent[i].newer THEN c[i - 1] ELSE Append(c[i - 1], sent[i])

SInv ==
  Stream =>
    /\ net = {} /\ taken \in 0 .. Len(sent) /\ got \in [Sessions -> Seq(Packets)]
    /\ \E m, R, z : Messages(m) /\ Tape(m, R) /\ Left(R, z)
    /\ \E c : Opening(c) /\ got[Client] = c[taken]

LEMMA Rejoin ==
  ASSUME NEW a \in Buffers, NEW b \in Buffers, NEW c \in Buffers
  PROVE  (a \o b) \o c = a \o (b \o c)
BY ConcatAssociative DEF Buffers

LEMMA CutApart ==
  ASSUME NEW b \in Buffers, NEW k \in 0 .. Len(b)
  PROVE  SubSeq(b, 1, k) \o SubSeq(b, k + 1, Len(b)) = b
<1> DEFINE n == Len(b)
<1>1. b \in Seq(Cells) /\ n \in Nat
  BY ValuesAre DEF Buffers
<1>2. 1 \in 1 .. n + 1 /\ k \in 1 - 1 .. n /\ n \in k .. n
  BY <1>1
<1>3. SubSeq(b, 1, k) \o SubSeq(b, k + 1, n) = SubSeq(b, 1, n)
  BY <1>1, <1>2, ConcatAdjacentSubSeq
<1>4. SubSeq(b, 1, n) = b
  BY <1>1, SubSeqFull
<1> QED
  BY <1>3, <1>4

LEMMA OpeningKept ==
  ASSUME NEW c, Opening(c), sent' = sent
  PROVE  Opening(c)'
BY DEF Opening

LEMMA MessagesKept ==
  ASSUME History, NEW m, Messages(m), UNCHANGED <<sc, profile, sent>>
  PROVE  Messages(m)'
<1>1. ASSUME NEW i \in 1 .. Len(sent) PROVE Message(i, m[i])'
  <2> DEFINE d == m[i]
  <2>1. Message(i, d)
    BY DEF Messages
  <2> HIDE DEF d
  <2>2. Carries(d)'
    <3>1. Len(sent) \in Nat /\ sent' = sent
      BY DEF History
    <3> QED
      BY <2>1, <3>1, CarriesKept DEF Message
  <2>3. Message(i, d)'
    BY <2>1, <2>2 DEF Message
  <2> QED
    BY <2>3 DEF d
<1> QED
  BY <1>1 DEF Messages

(* A step that sends nothing and takes nothing, and under which the bytes  *)
(* stay in order. *)
LEMMA StreamKept ==
  ASSUME History, SInv, UNCHANGED <<sc, profile, sent, got, taken>>, net' \subseteq net,
         NEW y, y \in Buffers, \A z \in Buffers : leftover' \o (pipe' \o (y \o z)) = leftover \o (pipe \o z),
         (y = <<>> /\ broken' = broken) \/ broken'
  PROVE  SInv'
<1> SUFFICES ASSUME Stream'
             PROVE  /\ net' = {} /\ taken' \in 0 .. Len(sent') /\ got' \in [Sessions -> Seq(Packets)]
                    /\ \E m, R, z : Messages(m)' /\ Tape(m, R)' /\ Left(R, z)'
                    /\ \E c : Opening(c)' /\ got'[Client] = c[taken']
  BY DEF SInv
<1>1. /\ net = {} /\ taken \in 0 .. Len(sent) /\ got \in [Sessions -> Seq(Packets)]
      /\ \E m, R, z : Messages(m) /\ Tape(m, R) /\ Left(R, z)
      /\ \E c : Opening(c) /\ got[Client] = c[taken]
  BY DEF SInv, Stream
<1>2. \E c : Opening(c)' /\ got'[Client] = c[taken']
  BY <1>1, OpeningKept
<1>3. PICK m, R, z : Messages(m) /\ Tape(m, R) /\ Left(R, z)
  BY <1>1
<1>4. Messages(m)'
  BY <1>3, MessagesKept
<1>5. Tape(m, R)'
  BY <1>3 DEF Tape, Framed
<1>6. Left(R, y \o z)'
  <2>1. z \in Buffers /\ leftover \o (pipe \o z) = R[taken] /\ (~broken => z = <<>>)
    BY <1>3 DEF Left
  <2>2. y \o z \in Buffers
    BY <2>1, JoinBuffers
  <2>3. leftover' \o (pipe' \o (y \o z)) = R[taken]
    BY <2>1
  <2>4. ~broken' => y \o z = <<>>
    <3>1. ~broken' => y = <<>> /\ z = <<>>
      BY <2>1
    <3>2. <<>> \o <<>> = <<>>
      BY ConcatEmptySeq
    <3> QED
      BY <3>1, <3>2
  <2> QED
    BY <2>2, <2>3, <2>4 DEF Left
<1> QED
  BY <1>1, <1>2, <1>4, <1>5, <1>6

LEMMA InitSInv == Init => SInv
<1> SUFFICES ASSUME Init PROVE SInv
  OBVIOUS
<1> DEFINE e == <<>>
           R == [i \in 0 .. 0 |-> e]
<1>1. /\ net = {} /\ taken = 0 /\ sent = <<>> /\ got = [s \in Sessions |-> e]
      /\ leftover = e /\ pipe = e
  BY DEF Init
<1>2. Len(sent) = 0
  BY <1>1
<1>3. e \in Buffers /\ e \in Seq(Packets) /\ e \o e = e
  BY ConcatEmptySeq DEF Buffers
<1>4. ~\E i \in 1 .. Len(sent) : TRUE
  BY <1>2
<1>5. R \in [0 .. Len(sent) -> Buffers] /\ R[0] = e /\ R \in [0 .. Len(sent) -> Seq(Packets)]
  BY <1>2, <1>3
<1> HIDE DEF R
<1>6. Messages(e)
  BY <1>4 DEF Messages
<1>7. Tape(e, R)
  BY <1>2, <1>4, <1>5 DEF Tape
<1>8. Left(R, e)
  BY <1>1, <1>3, <1>5 DEF Left
<1>9. Opening(R)
  BY <1>4, <1>5 DEF Opening
<1>10. got \in [Sessions -> Seq(Packets)] /\ got[Client] = R[taken]
  BY <1>1, <1>3, <1>5, ClientIs
<1>11. taken \in 0 .. Len(sent)
  BY <1>1, <1>2
<1> QED
  BY <1>1, <1>6, <1>7, <1>8, <1>9, <1>10, <1>11 DEF SInv

LEMMA IdleSInv ==
  ASSUME WInv, SInv, UNCHANGED <<sc, profile, sent, got, taken, broken, pipe, leftover, net>>
  PROVE  SInv'
<1> DEFINE y == <<>>
<1>1. y \in Buffers
  BY DEF Buffers
<1>2. ASSUME NEW z \in Buffers PROVE leftover' \o (pipe' \o (y \o z)) = leftover \o (pipe \o z)
  <2>1. y \o z = z
    BY ConcatEmptySeq DEF Buffers
  <2> QED
    BY <2>1
<1>3. (y = <<>> /\ broken' = broken) \/ broken'
  OBVIOUS
<1>4. History
  BY DEF WInv
<1> HIDE DEF y
<1> QED
  BY <1>1, <1>2, <1>3, <1>4, StreamKept

LEMMA ReadSInv ==
  ASSUME WInv, SInv, NEW n \in ReadSizes, Read(n)
  PROVE  SInv'
<1> DEFINE y == <<>>
           l == Len(pipe)
           k == Min({n, l})
           a == SubSeq(pipe, 1, k)
           b == SubSeq(pipe, k + 1, l)
<1>1. y \in Buffers /\ pipe \in Buffers /\ leftover \in Buffers
  BY DEF WInv, Streams, Buffers
<1>2. l \in Nat /\ n \in Nat
  BY <1>1, ValuesAre, WireAssumption
<1>3. leftover' = leftover \o a /\ pipe' = b
  BY DEF Read
<1>4. k \in 0 .. Len(pipe)
  <2> HIDE DEF l
  <2>1. k = IF n <= l THEN n ELSE l
    BY <1>2, MinTwo
  <2> HIDE DEF k
  <2> QED
    BY <1>2, <2>1 DEF l
<1> HIDE DEF k
<1>5. a \o b = pipe
  BY <1>1, <1>4, CutApart
<1>6. a \in Buffers /\ b \in Buffers
  <2> DEFINE i == k + 1
  <2>1. i \in Nat \ {0} /\ l \in Int /\ l <= Len(pipe) /\ k \in Int /\ k <= Len(pipe)
    BY <1>2, <1>4
  <2> HIDE DEF i, l
  <2>2. SubSeq(pipe, i, l) \in Buffers
    BY <1>1, <2>1, SubBuffer
  <2>3. a \in Buffers
    BY <1>1, <2>1, SubBuffer
  <2> QED
    BY <2>2, <2>3 DEF i, l
<1> HIDE DEF a, b
<1>7. ASSUME NEW z \in Buffers PROVE leftover' \o (pipe' \o (y \o z)) = leftover \o (pipe \o z)
  <2>1. y \o z = z
    BY ConcatEmptySeq DEF Buffers
  <2>2. b \o z \in Buffers
    BY <1>6, JoinBuffers
  <2>3. (leftover \o a) \o (b \o z) = leftover \o (a \o (b \o z))
    <3>1. PICK r : r = b \o z
      OBVIOUS
    <3>2. r \in Buffers /\ leftover \in Buffers /\ a \in Buffers
      BY <1>1, <1>6, <2>2, <3>1
    <3>3. (leftover \o a) \o r = leftover \o (a \o r)
      BY <3>2, Rejoin
    <3> QED
      BY <3>1, <3>3
  <2>4. a \o (b \o z) = (a \o b) \o z
    BY <1>6, Rejoin
  <2> QED
    BY <1>3, <1>5, <2>1, <2>3, <2>4
<1>8. /\ UNCHANGED <<sc, profile, sent, got, taken>> /\ net' \subseteq net
      /\ ((y = <<>> /\ broken' = broken) \/ broken')
  BY DEF Read
<1>9. History
  BY DEF WInv
<1> HIDE DEF y
<1> QED
  BY <1>1, <1>7, <1>8, <1>9, StreamKept

LEMMA BreakSInv ==
  ASSUME WInv, SInv, Break
  PROVE  SInv'
<1>1. pipe \in Buffers /\ leftover \in Buffers
  BY DEF WInv, Streams
<1>2. PICK k \in ReadSizes \cup {0} : k <= Len(pipe) /\ pipe' = SubSeq(pipe, 1, k)
  BY DEF Break
<1>3. k \in 0 .. Len(pipe) /\ Len(pipe) \in Nat
  <2>1. k \in Nat /\ Len(pipe) \in Nat
    BY <1>1, ValuesAre, WireAssumption
  <2> QED
    BY <1>2, <2>1
<1>4. PICK y : y = SubSeq(pipe, k + 1, Len(pipe))
  OBVIOUS
<1> DEFINE a == SubSeq(pipe, 1, k)
<1>5. a \o y = pipe
  BY <1>1, <1>3, <1>4, CutApart
<1>6. a \in Buffers /\ y \in Buffers
  <2> DEFINE i == k + 1
             l == Len(pipe)
  <2>1. i \in Nat \ {0} /\ l \in Int /\ l <= Len(pipe) /\ k \in Int /\ k <= Len(pipe)
    BY <1>3
  <2> HIDE DEF i, l
  <2>2. SubSeq(pipe, i, l) \in Buffers
    BY <1>1, <2>1, SubBuffer
  <2>3. a \in Buffers
    BY <1>1, <2>1, SubBuffer
  <2> QED
    BY <1>4, <2>2, <2>3 DEF i, l
<1>7. leftover' = leftover /\ pipe' = a
  BY <1>2 DEF Break
<1> HIDE DEF a
<1>8. ASSUME NEW z \in Buffers PROVE leftover' \o (pipe' \o (y \o z)) = leftover \o (pipe \o z)
  <2>1. a \o (y \o z) = (a \o y) \o z
    BY <1>6, Rejoin
  <2> QED
    BY <1>5, <1>7, <2>1
<1>9. /\ UNCHANGED <<sc, profile, sent, got, taken>> /\ net' \subseteq net
      /\ ((y = <<>> /\ broken' = broken) \/ broken')
  BY DEF Break
<1>10. History
  BY DEF WInv
<1> QED
  BY <1>6, <1>8, <1>9, <1>10, StreamKept

LEMMA Blank ==
  ASSUME NEW b \in Buffers
  PROVE  b \o <<>> = b /\ <<>> \o b = b
BY ConcatEmptySeq DEF Buffers

LEMMA SendSInv ==
  ASSUME WInv, SInv, NEW s \in IF Stream THEN {Client} ELSE Sessions,
         NEW t \in Templates, NEW n \in Lengths, NEW newer \in BOOLEAN, Send(s, t, n, newer)
  PROVE  SInv'
<1> SUFFICES ASSUME Stream' PROVE SInv'
  BY DEF SInv
<1>1. UNCHANGED <<sc, profile, got, taken, leftover, broken>> /\ ~broken
  BY DEF Send
<1>2. Stream /\ s = Client
  BY <1>1 DEF Stream
<1>3. PICK p \in Packets, w \in Buffers : Sends(s, p, w)
  BY <1>2, ClientIs, NewPacket
<1>0. PICK l, e, x : l = Len(sent) /\ e = <<>> /\ x = Framed(w)
  OBVIOUS
<1>4. /\ sent' \in Seq(Packets) /\ Len(sent') = l + 1 /\ sent'[l + 1] = p
      /\ \A i \in 1 .. l : sent'[i] = sent[i]
      /\ Len(w) > 0 /\ Len(w) < TOO_LONG
      /\ \A d : d.n = l + 1 /\ d.of = s /\ d.bytes = w => Carries(d)'
      /\ pipe' = pipe \o x /\ net' = net
  BY <1>0, <1>2, <1>3 DEF Sends
<1>5. l \in Nat /\ leftover \in Buffers /\ pipe \in Buffers
  BY <1>0 DEF WInv, History, Streams
<1>6. x \in Buffers /\ e \in Buffers
  BY <1>0, FramedIs DEF Buffers
<1>7. /\ net = {} /\ taken \in 0 .. l /\ got \in [Sessions -> Seq(Packets)]
      /\ \E m, R, z : Messages(m) /\ Tape(m, R) /\ Left(R, z)
      /\ \E c : Opening(c) /\ got[Client] = c[taken]
  BY <1>0, <1>2 DEF SInv
<1>8. PICK m, R, z : Messages(m) /\ Tape(m, R) /\ Left(R, z)
  BY <1>7
<1>9. PICK c : Opening(c) /\ got[Client] = c[taken]
  BY <1>7
<1>10. PICK d : d = [n |-> l + 1, of |-> s, bytes |-> w]
  OBVIOUS
<1>11. d.n = l + 1 /\ d.of = s /\ d.bytes = w
  BY <1>10
<1>a. PICK m2 : m2 = [i \in 1 .. l + 1 |-> IF i = l + 1 THEN d ELSE m[i]]
  OBVIOUS
<1>b. PICK R2 : R2 = [i \in 0 .. l + 1 |-> IF i = l + 1 THEN e ELSE R[i] \o x]
  OBVIOUS
<1>c. PICK c2 : c2 = [i \in 0 .. l + 1 |->
                        IF i = l + 1 THEN IF p.newer THEN c[l] ELSE Append(c[l], p) ELSE c[i]]
  OBVIOUS
<1>12. m2[l + 1] = d /\ \A i \in 1 .. l : m2[i] = m[i] /\ i \in 1 .. l + 1 /\ i # l + 1
  BY <1>5, <1>a
<1>13. R2[l + 1] = e /\ DOMAIN R2 = 0 .. l + 1 /\ \A i \in 0 .. l : R2[i] = R[i] \o x
  BY <1>5, <1>b
<1>14. /\ c2[l + 1] = IF p.newer THEN c[l] ELSE Append(c[l], p)
       /\ DOMAIN c2 = 0 .. l + 1 /\ \A i \in 0 .. l : c2[i] = c[i]
  BY <1>5, <1>c
<1>15. R2 = [i \in 0 .. l + 1 |-> R2[i]] /\ c2 = [i \in 0 .. l + 1 |-> c2[i]]
  BY <1>b, <1>c
<1>16. Messages(m2)'
  <2>1. ASSUME NEW i \in 1 .. l + 1 PROVE Message(i, m2[i])'
    <3>1. CASE i = l + 1
      <4>1. m2[i] = d
        BY <1>12, <3>1
      <4>2. Carries(d)'
        BY <1>4, <1>11
      <4> QED
        BY <1>2, <1>4, <1>11, <3>1, <4>1, <4>2 DEF Message
    <3>2. CASE i # l + 1
      <4>1. i \in 1 .. l
        BY <1>5, <3>2
      <4>2. PICK f : f = m[i]
        OBVIOUS
      <4>3. m2[i] = f /\ Message(i, f)
        BY <1>0, <1>8, <1>12, <4>1, <4>2 DEF Messages
      <4>4. /\ Len(sent) \in Nat /\ Len(sent') \in Nat /\ Len(sent) <= Len(sent')
            /\ \A j \in 1 .. Len(sent) : sent'[j] = sent[j]
        BY <1>0, <1>4, <1>5
      <4>5. Carries(f)'
        BY <1>1, <4>3, <4>4, CarriesKept DEF Message
      <4>6. Message(i, f)'
        BY <4>3, <4>5 DEF Message
      <4> QED
        BY <4>3, <4>6
    <3> QED
      BY <3>1, <3>2
  <2> QED
    BY <1>4, <2>1 DEF Messages
<1>17. /\ R \in [0 .. l -> Buffers] /\ R[l] = e
       /\ \A i \in 1 .. l : R[i - 1] = Framed(m[i].bytes) \o R[i]
  BY <1>0, <1>8 DEF Tape
<1>18. Tape(m2, R2)'
  <2>1. R2 \in [0 .. l + 1 -> Buffers]
    <3>1. ASSUME NEW i \in 0 .. l + 1 PROVE R2[i] \in Buffers
      <4>1. CASE i = l + 1
        BY <1>6, <1>13, <4>1
      <4>2. CASE i # l + 1
        <5>1. i \in 0 .. l
          BY <1>5, <4>2
        <5>2. R[i] \in Buffers
          BY <1>17, <5>1
        <5>3. R[i] \o x \in Buffers
          BY <1>6, <5>2, JoinBuffers
        <5> QED
          BY <1>13, <5>1, <5>3
      <4> QED
        BY <4>1, <4>2
    <3> QED
      BY <1>15, <3>1
  <2>2. ASSUME NEW i \in 1 .. l + 1 PROVE R2[i - 1] = Framed(m2[i].bytes) \o R2[i]
    <3>1. CASE i = l + 1
      <4>0. i - 1 = l /\ l \in 0 .. l
        BY <1>5, <3>1
      <4>1. R2[i - 1] = e \o x
        BY <1>13, <1>17, <4>0
      <4>2. Framed(m2[i].bytes) = x
        BY <1>0, <1>11, <1>12, <3>1
      <4>3. e \o x = x /\ x \o e = x
        BY <1>0, <1>6, Blank
      <4> QED
        BY <1>13, <3>1, <4>1, <4>2, <4>3
    <3>2. CASE i # l + 1
      <4>1. i \in 1 .. l /\ i - 1 \in 0 .. l /\ i \in 0 .. l
        BY <1>5, <3>2
      <4>2. R[i - 1] = Framed(m[i].bytes) \o R[i]
        BY <1>17, <4>1
      <4>3. PICK b : b = m[i].bytes
        OBVIOUS
      <4>4. b \in Buffers /\ m2[i].bytes = b
        BY <1>0, <1>8, <1>12, <4>1, <4>3 DEF Messages, Message
      <4> DEFINE y == Framed(b)
                 r == R[i]
      <4>5. y \in Buffers /\ r \in Buffers
        BY <1>17, <4>1, <4>4, FramedIs
      <4>6. R2[i - 1] = R[i - 1] \o x /\ R2[i] = r \o x /\ R[i - 1] = y \o r
        BY <1>13, <4>1, <4>2, <4>3
      <4>7. Framed(m2[i].bytes) = y
        BY <4>4
      <4> HIDE DEF y, r
      <4>8. (y \o r) \o x = y \o (r \o x)
        BY <1>6, <4>5, Rejoin
      <4> QED
        BY <4>6, <4>7, <4>8
    <3> QED
      BY <3>1, <3>2
  <2>3. (\A i \in 1 .. Len(sent) : R2[i - 1] = Framed(m2[i].bytes) \o R2[i])'
    BY <1>4, <2>2 DEF Framed
  <2> QED
    BY <1>0, <1>4, <1>13, <2>1, <2>3 DEF Tape
<1>19. Left(R2, e)'
  <2>1. leftover \o (pipe \o e) = R[taken]
    BY <1>0, <1>1, <1>8 DEF Left
  <2>2. pipe \o e = pipe /\ pipe \o x \in Buffers
    BY <1>0, <1>5, <1>6, Blank, JoinBuffers
  <2>3. (pipe \o x) \o e = pipe \o x
    BY <1>0, <2>2, Blank
  <2>4. (leftover \o pipe) \o x = leftover \o (pipe \o x)
    BY <1>5, <1>6, Rejoin
  <2>5. R2[taken] = R[taken] \o x
    BY <1>7, <1>13
  <2>6. leftover' \o (pipe' \o e) = R2[taken']
    BY <1>1, <1>4, <2>1, <2>2, <2>3, <2>4, <2>5
  <2> QED
    BY <1>0, <1>6, <2>6 DEF Left
<1>20. Opening(c2)'
  <2>1. /\ c \in [0 .. l -> Seq(Packets)] /\ c[0] = <<>>
        /\ \A i \in 1 .. l : c[i] = IF sent[i].newer THEN c[i - 1] ELSE Append(c[i - 1], sent[i])
    BY <1>0, <1>9 DEF Opening
  <2>2. ASSUME NEW i \in 0 .. l + 1 PROVE c2[i] \in Seq(Packets)
    <3>1. CASE i = l + 1
      <4>1. c[l] \in Seq(Packets)
        BY <1>5, <2>1
      <4>2. Append(c[l], p) \in Seq(Packets)
        BY <4>1, AppendProperties
      <4> QED
        BY <1>14, <3>1, <4>1, <4>2
    <3>2. CASE i # l + 1
      <4>1. i \in 0 .. l
        BY <1>5, <3>2
      <4> QED
        BY <1>14, <2>1, <4>1
    <3> QED
      BY <3>1, <3>2
  <2>3. ASSUME NEW i \in 1 .. l + 1
        PROVE  c2[i] = IF sent'[i].newer THEN c2[i - 1] ELSE Append(c2[i - 1], sent'[i])
    <3>1. CASE i = l + 1
      <4>1. c2[i - 1] = c[l]
        BY <1>5, <1>14, <3>1
      <4> QED
        BY <1>4, <1>14, <3>1, <4>1
    <3>2. CASE i # l + 1
      <4>1. i \in 1 .. l /\ i - 1 \in 0 .. l /\ i \in 0 .. l
        BY <1>5, <3>2
      <4>2. c2[i] = c[i] /\ c2[i - 1] = c[i - 1] /\ sent'[i] = sent[i]
        BY <1>4, <1>14, <4>1
      <4> QED
        BY <2>1, <4>1, <4>2
    <3> QED
      BY <3>1, <3>2
  <2>4. c2 \in [0 .. l + 1 -> Seq(Packets)] /\ c2[0] = <<>>
    <3>1. 0 \in 0 .. l
      BY <1>5
    <3>2. c2[0] = <<>>
      BY <1>14, <2>1, <3>1
    <3> QED
      BY <1>15, <2>2, <3>2
  <2> QED
    BY <1>4, <2>3, <2>4 DEF Opening
<1>21. got'[Client] = c2[taken'] /\ taken' \in 0 .. Len(sent') /\ net' = {}
       /\ got' \in [Sessions -> Seq(Packets)]
  <2>1. taken \in 0 .. l + 1 /\ c2[taken] = c[taken]
    BY <1>5, <1>7, <1>14
  <2> QED
    BY <1>1, <1>4, <1>7, <1>9, <2>1
<1> QED
  BY <1>16, <1>18, <1>19, <1>20, <1>21 DEF SInv

Ahead(a, u, b, r) == a \o u = Framed(b) \o r /\ Len(b) < TOO_LONG /\ Whole(a) > 0

Takes(a, u, b, r) ==
  /\ Whole(a) = Len(b) /\ SubSeq(a, 3, 2 + Len(b)) = b
  /\ SubSeq(a, 3 + Len(b), Len(a)) \o u = r

(* The first of the messages read is the first that was sent, and what     *)
(* follows it is kept. *)
LEMMA TakesFirst ==
  ASSUME NEW a \in Buffers, NEW u \in Buffers, NEW b \in Buffers, NEW r \in Buffers,
         Ahead(a, u, b, r)
  PROVE  Takes(a, u, b, r)
<1>0. a \o u = Framed(b) \o r /\ Len(b) < TOO_LONG /\ Whole(a) > 0
  BY DEF Ahead
<1> DEFINE k == Len(b)
           l == Len(a)
           x == BE2(k)
           h == Bytes(x)
           f == Framed(b)
           v == Values(a)
           one == 1
           three == 3
<1>1. k \in Nat /\ l \in Nat
  BY ValuesAre
<1>2. /\ x \in Seq(Octets) /\ Len(x) = 2 /\ x[1] * 256 + x[2] = k
  BY <1>0, <1>1, BE2Is
<1>3. f = h \o b /\ h \in Buffers /\ Len(h) = 2 /\ f \in Buffers /\ Len(f) = 2 + k
  BY FramedIs
<1>4. ~(l < 2) /\ Whole(a) = IF l < 2 + FromBE2(v) THEN 0 ELSE FromBE2(v)
  BY <1>0 DEF Whole
<1>5. Values(h) = x
  <2> HIDE DEF x
  <2> QED
    BY <1>2, BytesAre
<1> HIDE DEF k, l, x, h, f, one, three
<1>6. At(a \o u, one, a) /\ At(f \o r, one, f) /\ At(f, 3, b) /\ At(f, one, h)
  <2>1. At(a \o u, 1, a)
    BY AtParts DEF Buffers
  <2>2. At(f \o r, 1, f)
    BY <1>3, AtParts DEF Buffers
  <2>3. At(h \o b, 1, h) /\ At(h \o b, Len(h) + 1, b)
    BY <1>3, AtParts DEF Buffers
  <2>4. Len(h) + 1 = 3
    BY <1>3
  <2> QED
    BY <1>3, <2>1, <2>2, <2>3, <2>4 DEF one
<1>7. \A i \in 1 .. l : i \in 1 .. 2 + k => a[i] = f[i]
  <2> SUFFICES ASSUME NEW i \in 1 .. l, i \in 1 .. 2 + k PROVE a[i] = f[i]
    OBVIOUS
  <2>1. one + i - 1 = i
    BY <1>1 DEF one
  <2>2. (a \o u)[i] = a[i]
    BY <1>6, <2>1 DEF At, l
  <2>3. (f \o r)[i] = f[i]
    BY <1>3, <1>6, <2>1 DEF At
  <2> QED
    BY <1>0, <2>2, <2>3 DEF f
<1>8. \A i \in 1 .. 2 : a[i] = h[i]
  <2> SUFFICES ASSUME NEW i \in 1 .. 2 PROVE a[i] = h[i]
    OBVIOUS
  <2>1. one + i - 1 = i
    BY DEF one
  <2>2. f[i] = h[i]
    BY <1>3, <1>6, <2>1 DEF At
  <2>3. i \in 1 .. l /\ i \in 1 .. 2 + k
    BY <1>1, <1>4
  <2> QED
    BY <1>7, <2>2, <2>3
<1>9. FromBE2(v) = k
  <2>1. ASSUME NEW i \in 1 .. 2 PROVE v[i] = x[i]
    <3>1. v[i] = IF a[i].w = {} THEN a[i].v ELSE GARBLED
      <4>1. i \in 1 .. Len(a)
        BY <1>1, <1>4 DEF l
      <4> QED
        BY <4>1, ValuesAre
    <3>2. Values(h)[i] = IF h[i].w = {} THEN h[i].v ELSE GARBLED
      BY <1>3, ValuesAre
    <3> QED
      BY <1>5, <1>8, <3>1, <3>2
  <2>2. v[1] = x[1] /\ v[2] = x[2]
    BY <2>1
  <2> HIDE DEF v
  <2> QED
    BY <1>2, <2>2 DEF FromBE2
<1> HIDE DEF v
<1>10. Whole(a) = k /\ 2 + k <= l
  <2>1. Whole(a) = IF l < 2 + k THEN 0 ELSE k
    BY <1>4, <1>9
  <2> QED
    BY <1>0, <1>1, <2>1
<1>11. one \in Nat \ {0} /\ three \in Nat \ {0} /\ three = 3 /\ one = 1
  BY DEF one, three
<1>12. At(a, one, f)
  <2>1. one + Len(f) - 1 <= Len(a)
    BY <1>1, <1>3, <1>10, <1>11 DEF l
  <2>2. ASSUME NEW j \in 1 .. Len(f) PROVE a[one + j - 1] = f[j]
    <3>1. one + j - 1 = j /\ j \in 1 .. l /\ j \in 1 .. 2 + k
      BY <1>1, <1>3, <1>10, <1>11
    <3> QED
      BY <1>7, <3>1
  <2> QED
    BY <2>1, <2>2 DEF At
<1>13. At(a, three, b)
  <2>1. At(f, three, b)
    BY <1>6, <1>11
  <2>2. Len(a) \in Nat /\ Len(f) \in Nat /\ Len(b) \in Nat
    BY <1>1, <1>3 DEF k, l
  <2>3. At(a, one + three - 1, b)
    BY <1>11, <1>12, <2>1, <2>2, AtIn
  <2>4. one + three - 1 = three
    BY <1>11
  <2> QED
    BY <2>3, <2>4
<1> DEFINE n == 2 + k
           m == 3 + k
           t == SubSeq(a, m, l)
<1>14. SubSeq(a, three, n) = b
  <2>1. n = three + Len(b) - 1
    BY <1>1, <1>11 DEF k
  <2> HIDE DEF n
  <2> QED
    BY <1>11, <1>13, <2>1, AtSub DEF Buffers
<1>15. SubSeq(a, 1, n) = f
  <2>1. n = one + Len(f) - 1
    BY <1>1, <1>3, <1>11
  <2> HIDE DEF n
  <2>2. a \in Seq(Cells) /\ f \in Seq(Cells) /\ one \in Nat \ {0}
    BY <1>3, <1>11 DEF Buffers
  <2>3. SubSeq(a, one, n) = f
    BY <1>12, <2>1, <2>2, AtSub
  <2> QED
    BY <1>11, <2>3
<1>16. f \o t = a
  <2>1. n \in 0 .. Len(a) /\ n + 1 = m
    BY <1>1, <1>10 DEF l
  <2> HIDE DEF n, m
  <2>2. SubSeq(a, 1, n) \o SubSeq(a, n + 1, Len(a)) = a
    BY <2>1, CutApart
  <2> QED
    BY <1>15, <2>1, <2>2 DEF l
<1>17. t \in Buffers
  <2>1. m \in Nat \ {0} /\ l \in Int /\ l <= Len(a)
    BY <1>1 DEF l
  <2> HIDE DEF m, l
  <2> QED
    BY <2>1, SubBuffer
<1> HIDE DEF n, m, t
<1>18. f \o (t \o u) = f \o r
  <2>1. (f \o t) \o u = f \o (t \o u)
    <3>1. f \in Buffers
      BY <1>3
    <3> QED
      BY <1>17, <3>1, Rejoin
  <2>2. (f \o t) \o u = f \o r
    BY <1>0, <1>16 DEF f
  <2> QED
    BY <2>1, <2>2
<1>19. t \o u = r
  <2>1. t \o u \in Buffers
    BY <1>17, JoinBuffers
  <2> QED
    <3>1. f \in Seq(Cells) /\ t \o u \in Seq(Cells) /\ r \in Seq(Cells)
      BY <1>3, <2>1 DEF Buffers
    <3> QED
      BY <1>18, <3>1, ConcatSimplifications
<1>20. SubSeq(a, 3, n) = b
  BY <1>11, <1>14
<1> QED
  BY <1>10, <1>19, <1>20 DEF Takes, k, l, m, n, t

LEMMA TakeMessageSInv ==
  ASSUME WInv, SInv, TakeMessage
  PROVE  SInv'
<1>1. /\ Stream /\ Whole(leftover) > 0 /\ taken' = taken + 1
      /\ UNCHANGED <<sc, profile, sent, net, pipe, broken>>
      /\ Receive(Client, SubSeq(leftover, 3, 2 + Whole(leftover)))
      /\ leftover' = SubSeq(leftover, 3 + Whole(leftover), Len(leftover))
  BY DEF TakeMessage, Takeable
<1>2. /\ net = {} /\ taken \in 0 .. Len(sent) /\ got \in [Sessions -> Seq(Packets)]
      /\ \E m, R, z : Messages(m) /\ Tape(m, R) /\ Left(R, z)
      /\ \E c : Opening(c) /\ got[Client] = c[taken]
  BY <1>1 DEF SInv
<1>3. PICK m, R, z : Messages(m) /\ Tape(m, R) /\ Left(R, z)
  BY <1>2
<1>4. PICK c : Opening(c) /\ got[Client] = c[taken]
  BY <1>2
<1>5. Len(sent) \in Nat /\ sent \in Seq(Packets) /\ History /\ Carried
      /\ pipe \in Buffers /\ leftover \in Buffers
  BY ReadyCarried DEF WInv, History, Streams
<1>6. PICK l, k, i, u : l = Len(sent) /\ k = taken /\ i = k + 1 /\ u = pipe \o z
  OBVIOUS
<1>7. z \in Buffers /\ leftover \o u = R[k] /\ (~broken => z = <<>>) /\ u \in Buffers
  BY <1>3, <1>5, <1>6, JoinBuffers DEF Left
<1>8. /\ R \in [0 .. l -> Buffers] /\ R[l] = <<>>
      /\ \A j \in 1 .. l : R[j - 1] = Framed(m[j].bytes) \o R[j]
  BY <1>3, <1>6 DEF Tape
<1>9. k # l
  <2> SUFFICES ASSUME k = l PROVE FALSE
    OBVIOUS
  <2>1. leftover \o u = <<>>
    BY <1>7, <1>8
  <2>2. leftover \in Seq(Cells) /\ u \in Seq(Cells)
    BY <1>5, <1>7 DEF Buffers
  <2>3. leftover = <<>>
    BY <2>1, <2>2, ConcatSimplifications
  <2>4. Len(leftover) = 0
    BY <2>3
  <2>5. Whole(leftover) = 0
    BY <2>4 DEF Whole
  <2> QED
    BY <1>1, <2>5
<1>10. k \in Nat /\ l \in Nat /\ i \in 1 .. l /\ i \in 0 .. l /\ i - 1 = k
  BY <1>2, <1>5, <1>6, <1>9
<1>11. PICK d : d = m[i]
  OBVIOUS
<1>12. /\ Carries(d) /\ d.n = i /\ d.of = Client
       /\ d.bytes \in Buffers /\ Len(d.bytes) > 0 /\ Len(d.bytes) < TOO_LONG
  BY <1>3, <1>6, <1>10, <1>11 DEF Messages, Message
<1>13. PICK b, r : b = d.bytes /\ r = R[i]
  OBVIOUS
<1>14. b \in Buffers /\ r \in Buffers /\ Len(b) < TOO_LONG /\ leftover \o u = Framed(b) \o r
  BY <1>7, <1>8, <1>10, <1>11, <1>12, <1>13
<1>15. /\ Whole(leftover) = Len(b) /\ SubSeq(leftover, 3, 2 + Len(b)) = b
       /\ SubSeq(leftover, 3 + Len(b), Len(leftover)) \o u = r
  <2>1. PICK a : a = leftover
    OBVIOUS
  <2>2. a \in Buffers /\ u \in Buffers /\ b \in Buffers /\ r \in Buffers
    BY <1>5, <1>7, <1>14, <2>1
  <2>3. Ahead(a, u, b, r)
    BY <1>1, <1>14, <2>1 DEF Ahead
  <2>4. Takes(a, u, b, r)
    BY <2>2, <2>3, TakesFirst
  <2> QED
    BY <2>1, <2>4 DEF Takes
<1>16. Left(R, z)'
  <2>1. leftover' \o (pipe' \o z) = R[taken']
    BY <1>1, <1>6, <1>13, <1>15
  <2> QED
    BY <1>1, <1>7, <2>1 DEF Left
<1>17. Messages(m)' /\ Tape(m, R)'
  <2>1. Messages(m)'
    BY <1>1, <1>3, <1>5, MessagesKept
  <2> QED
    BY <1>1, <1>3, <2>1 DEF Tape, Framed
<1>18. PICK q : q = Open(b, Client)
  OBVIOUS
<1>19. q = IF ~sent[i].newer THEN sent[i] ELSE NoPacket
  <2>1. Open(d.bytes, Client) = IF Client = d.of /\ ~sent[d.n].newer THEN sent[d.n] ELSE NoPacket
    BY <1>5, <1>12, ClientIs, PacketOpens
  <2> QED
    BY <1>12, <1>13, <1>18, <2>1
<1>20. IF q = NoPacket THEN got' = got
       ELSE got' = [got EXCEPT ![Client] = Append(got[Client], q)]
  <2>1. Receive(Client, b)
    BY <1>1, <1>15
  <2> QED
    BY <1>18, <2>1 DEF Receive
<1>21. sent[i] \in Packets /\ sent[i] # NoPacket
  <2>1. sent[i] \in Packets
    BY <1>5, <1>6, <1>10
  <2>2. sent[i].of \in Sessions
    BY <2>1 DEF Packets
  <2>3. sent[i].of # NoPacket.of
    BY <2>2, WireAssumption DEF NoPacket
  <2> QED
    BY <2>1, <2>3
<1>22. c[i] = IF sent[i].newer THEN c[k] ELSE Append(c[k], sent[i])
  BY <1>4, <1>6, <1>10 DEF Opening
<1>23. c[i] \in Seq(Packets) /\ got[Client] = c[k]
  BY <1>4, <1>6, <1>10 DEF Opening
<1>24. got'[Client] = c[i] /\ got' \in [Sessions -> Seq(Packets)]
  <2>1. CASE sent[i].newer
    BY <1>2, <1>19, <1>20, <1>22, <1>23, <2>1
  <2>2. CASE ~sent[i].newer
    <3>1. q = sent[i] /\ q # NoPacket
      BY <1>19, <1>21, <2>2
    <3>2. got' = [got EXCEPT ![Client] = Append(c[k], q)]
      BY <1>20, <1>23, <3>1
    <3>3. Append(c[k], q) = c[i]
      BY <1>22, <2>2, <3>1
    <3>4. got' = [got EXCEPT ![Client] = c[i]]
      BY <3>2, <3>3
    <3> QED
      BY <1>2, <1>23, <3>4, ClientIs
  <2> QED
    BY <2>1, <2>2
<1>25. Opening(c)'
  BY <1>1, <1>4, OpeningKept
<1>26. net' = {} /\ taken' \in 0 .. Len(sent') /\ taken' = i
  BY <1>1, <1>2, <1>6, <1>10
<1> QED
  BY <1>16, <1>17, <1>24, <1>25, <1>26 DEF SInv

LEMMA NextSInv ==
  ASSUME WInv, SInv, [Next]_vars
  PROVE  SInv'
<1>1. CASE \E s \in IF Stream THEN {Client} ELSE Sessions, t \in Templates, n \in Lengths,
              newer \in BOOLEAN : Send(s, t, n, newer)
  BY <1>1, SendSInv
<1>2. CASE \E d \in net : Deliver(d)
  <2>1. sc' = sc /\ net # {}
    BY <1>2 DEF Deliver
  <2> QED
    BY <2>1 DEF SInv, Stream
<1>3. CASE Reads
  BY <1>3, ReadSInv DEF Reads
<1>4. CASE TakeMessage
  BY <1>4, TakeMessageSInv
<1>5. CASE Break
  BY <1>5, BreakSInv
<1>6. CASE UNCHANGED vars
  BY <1>6, IdleSInv DEF vars
<1> QED
  BY <1>1, <1>2, <1>3, <1>4, <1>5, <1>6 DEF Next

(* There is one such c, so it is Openable. *)
LEMMA OpeningIs ==
  ASSUME Len(sent) \in Nat, NEW c, Opening(c)
  PROVE  c = Openable
<1> DEFINE l == Len(sent)
           O(f) == [i \in 0 .. Len(sent) |->
                      IF i = 0 THEN <<>>
                      ELSE IF sent[i].newer THEN f[i - 1]
                      ELSE Append(f[i - 1], sent[i])]
<1>1. /\ c \in [0 .. l -> Seq(Packets)] /\ c[0] = <<>>
      /\ \A i \in 1 .. l : c[i] = IF sent[i].newer THEN c[i - 1] ELSE Append(c[i - 1], sent[i])
  BY DEF Opening
<1>2. Openable = CHOOSE f : f = O(f)
  BY DEF Openable
<1>3. \A f : DOMAIN O(f) = 0 .. l
             /\ \A i \in 0 .. l : O(f)[i] = IF i = 0 THEN <<>>
                                            ELSE IF sent[i].newer THEN f[i - 1]
                                            ELSE Append(f[i - 1], sent[i])
  OBVIOUS
<1>4. \A f, g : (\A i \in 0 .. l : O(f)[i] = g[i]) /\ g = [i \in 0 .. l |-> g[i]] => g = O(f)
  OBVIOUS
<1>5. \A f : O(f) = [i \in 0 .. l |-> O(f)[i]]
  OBVIOUS
<1> HIDE DEF O
<1>6. c = O(c)
  <2>1. ASSUME NEW i \in 0 .. l PROVE O(c)[i] = c[i]
    <3>1. CASE i = 0
      BY <1>1, <1>3, <3>1
    <3>2. CASE i # 0
      <4>1. i \in 1 .. l
        BY <3>2
      <4> QED
        BY <1>1, <1>3, <3>2, <4>1
    <3> QED
      BY <3>1, <3>2
  <2>2. c = [i \in 0 .. l |-> c[i]]
    BY <1>1
  <2> QED
    BY <1>4, <2>1, <2>2
<1>7. PICK f : f = Openable
  OBVIOUS
<1>8. f = O(f)
  BY <1>2, <1>6, <1>7
<1>9. ASSUME NEW i \in 0 .. l PROVE f[i] = c[i]
  <2> SUFFICES ASSUME f[i] # c[i] PROVE FALSE
    OBVIOUS
  <2> DEFINE T == {j \in 0 .. l : f[j] # c[j]}
  <2>1. T \subseteq Nat /\ i \in T
    OBVIOUS
  <2>2. PICK j \in T : \A y \in T : j <= y
    <3> HIDE DEF T
    <3> QED
      BY <2>1, LeastNat
  <2>3. j \in 0 .. l /\ f[j] # c[j]
    OBVIOUS
  <2>4. j # 0
    <3>1. 0 \in 0 .. l
      OBVIOUS
    <3>2. f[0] = <<>>
      BY <1>3, <1>8, <3>1
    <3> QED
      BY <1>1, <2>3, <3>2
  <2>5. j \in 1 .. l /\ j - 1 \in 0 .. l /\ ~(j <= j - 1)
    BY <2>3, <2>4
  <2>6. f[j - 1] = c[j - 1]
    <3>1. j - 1 \notin T
      <4> HIDE DEF T
      <4> QED
        BY <2>2, <2>5
    <3> QED
      BY <2>5, <3>1
  <2>7. f[j] = IF sent[j].newer THEN f[j - 1] ELSE Append(f[j - 1], sent[j])
    BY <1>3, <1>8, <2>3, <2>4
  <2> QED
    BY <1>1, <2>3, <2>5, <2>6, <2>7
<1>10. f = [i \in 0 .. l |-> f[i]]
  BY <1>5, <1>8
<1>11. c = [i \in 0 .. l |-> c[i]]
  BY <1>1
<1> QED
  BY <1>7, <1>9, <1>10, <1>11

(* On a TCP carrier the session hands on the packets that were sent, in    *)
(* order, each once and none made up, however the bytes are split over the *)
(* reads and wherever the connection breaks; only what a later build       *)
(* marked is missing (read_message, take_message). *)
THEOREM StreamInOrderHolds == Spec => []StreamInOrder
<1>1. ASSUME WInv, SInv PROVE StreamInOrder
  <2> SUFFICES ASSUME Stream PROVE taken <= Len(sent) /\ got[Client] = Openable[taken]
    BY DEF StreamInOrder
  <2>1. Len(sent) \in Nat
    BY <1>1 DEF WInv, History
  <2>2. taken \in 0 .. Len(sent) /\ \E c : Opening(c) /\ got[Client] = c[taken]
    BY <1>1 DEF SInv
  <2>3. PICK c : Opening(c) /\ got[Client] = c[taken]
    BY <2>2
  <2>4. c = Openable
    BY <2>1, <2>3, OpeningIs
  <2> QED
    BY <2>1, <2>2, <2>3, <2>4
<1> QED
  BY <1>1, InitWInv, InitSInv, NextWInv, NextSInv, PTL DEF Spec

=============================================================================
