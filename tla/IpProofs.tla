------------------------------- MODULE IpProofs -------------------------------
(***************************************************************************)
(* Reassembly, for every set of datagrams and hosts, every size of the     *)
(* headers, fragments, masks and of the list, and every pattern of loss,   *)
(* duplication, reordering and damage.                                     *)
(*                                                                         *)
(* The invariant has two sides.  SendInv: what is in the network are       *)
(* fragments of calls that have begun, and no two calls of a host have the *)
(* same id.  ListInv: every entry of the list is for one such call, holds  *)
(* what its mask says of that call's datagram, and misses an octet.  They  *)
(* meet in RxStep: a packet that passes the checks of ip_rx is as it was   *)
(* sent, and the entry that is found for it is the one of its call.        *)
(***************************************************************************)
EXTENDS Ip, FiniteSetTheorems, WellFoundedInduction, TLAPS

-----------------------------------------------------------------------------
(***************************************************************************)
(* Arithmetic.                                                             *)
(***************************************************************************)
LEMMA MulLess ==
    ASSUME NEW a \in Nat, NEW b \in Nat, NEW d \in Nat, a < b
    PROVE  a * d + d <= b * d
<1>1. b = (a + 1) + (b - a - 1) /\ b - a - 1 \in Nat
  OBVIOUS
<1> DEFINE e == b - a - 1
<1>2. b * d = (a + 1) * d + e * d
  BY <1>1
<1>3. e * d >= 0
  BY <1>1
<1>4. QED
  BY <1>2, <1>3

LEMMA DivMod ==
    ASSUME NEW a \in Nat, NEW d \in Nat \ {0}
    PROVE  /\ a \div d \in Nat /\ a % d \in 0..d - 1
           /\ a = (a \div d) * d + (a % d)
  OBVIOUS

LEMMA DivUnique ==
    ASSUME NEW d \in Nat \ {0}, NEW q \in Nat, NEW r \in 0..d - 1
    PROVE  (q * d + r) \div d = q /\ (q * d + r) % d = r
<1> DEFINE a == q * d + r
           k == a \div d
           s == a % d
<1>1. q * d \in Nat
  OBVIOUS
<1>2. a \in Nat
  BY <1>1
<1>3. k \in Nat /\ s \in 0..d - 1 /\ a = k * d + s
  BY <1>2, DivMod
<1>4. k * d \in Nat
  BY <1>3
<1>5. a = q * d + r
  OBVIOUS
<1> HIDE DEF a, k, s
<1>6. CASE k < q
  <2>1. k * d + d <= q * d
    BY <1>3, <1>6, MulLess
  <2>2. QED
    BY <1>1, <1>3, <1>4, <1>5, <2>1
<1>7. CASE q < k
  <2>1. q * d + d <= k * d
    BY <1>3, <1>7, MulLess
  <2>2. QED
    BY <1>1, <1>3, <1>4, <1>5, <2>1
<1>8. CASE k = q
  BY <1>1, <1>3, <1>4, <1>5, <1>8 DEF k, s, a
<1>9. QED
  BY <1>3, <1>6, <1>7, <1>8

-----------------------------------------------------------------------------
(***************************************************************************)
(* Sequences as functions.                                                 *)
(***************************************************************************)
LEMMA AsFunction ==
    ASSUME NEW S, NEW w \in Seq(S), NEW n \in Nat, Len(w) = n
    PROVE  w \in [1..n -> S]
  OBVIOUS

LEMMA AsSequence ==
    ASSUME NEW S, NEW n \in Nat, NEW w \in [1..n -> S]
    PROVE  w \in Seq(S) /\ Len(w) = n
  OBVIOUS

LEMMA Appended ==
    ASSUME NEW S, NEW w \in Seq(S), NEW x \in S
    PROVE  /\ Append(w, x) \in Seq(S) /\ Len(Append(w, x)) = Len(w) + 1
           /\ Append(w, x)[Len(w) + 1] = x
           /\ \A i \in 1..Len(w) : Append(w, x)[i] = w[i]
  OBVIOUS

LEMMA SeqSubset ==
    ASSUME NEW S, NEW T, S \subseteq T
    PROVE  Seq(S) \subseteq Seq(T)
  OBVIOUS

-----------------------------------------------------------------------------
(***************************************************************************)
(* Masks: however a range lies in the words, maskset sets and maskchk      *)
(* looks at exactly its bits.                                              *)
(***************************************************************************)
At(w, b) == w * WordBits + b

LEMMA HeadCount ==
    ASSUME NEW off \in Nat, NEW len \in Nat
    PROVE  Cardinality(HeadBits(off, len)) =
             IF len > WordBits - (off % WordBits) THEN WordBits - (off % WordBits) ELSE len
<1> DEFINE sb == off % WordBits
           bl == IF len > WordBits - sb THEN WordBits - sb ELSE len
<1>1. sb \in 0..WordBits - 1 /\ WordBits \in Nat \ {0}
  BY MaskAssumption, DivMod
<1>2. HeadBits(off, len) = sb..(sb + bl - 1)
  BY DEF HeadBits
<1> HIDE DEF sb
<1>3. bl \in Nat /\ sb \in Int /\ sb + bl - 1 \in Int
  BY <1>1
<1> HIDE DEF bl
<1>4. Cardinality(sb..(sb + bl - 1)) = IF sb > sb + bl - 1 THEN 0 ELSE (sb + bl - 1) - sb + 1
  BY <1>3, FS_Interval
<1>5. Cardinality(HeadBits(off, len)) = bl
  BY <1>2, <1>3, <1>4
<1>6. QED
  BY <1>5 DEF bl, sb

LEMMA SpanIs ==
    ASSUME NEW off \in Nat, NEW len \in Nat, NEW w \in Nat
    PROVE  /\ Span(off, len, w) \subseteq AllBits
           /\ \A b \in AllBits :
                b \in Span(off, len, w) <=> off <= At(w, b) /\ At(w, b) < off + len
<1> DEFINE W == WordBits
           so == First(off)
           sb == off % W
           bl == IF len > W - sb THEN W - sb ELSE len
           n == FullWords(off, len)
           t == (len - bl) % W
           P == so * W
           Q == n * W
           R == w * W
<1>1. W \in Nat \ {0}
  BY MaskAssumption
<1>2. so \in Nat /\ sb \in 0..W - 1 /\ off = P + sb
  BY <1>1, DivMod DEF First
<1> HIDE DEF so, sb
<1>3. bl \in Nat /\ len - bl \in Nat
  BY <1>1, <1>2
<1>4. Cardinality(HeadBits(off, len)) = bl
  BY HeadCount DEF sb
<1>5. HeadBits(off, len) = sb..(sb + bl - 1)
  BY DEF HeadBits, sb
<1>6. n = (len - bl) \div W /\ TailBits(off, len) = 0..(t - 1)
  BY <1>4 DEF FullWords, TailBits
<1>7. n \in Nat /\ t \in 0..W - 1 /\ len - bl = Q + t
  BY <1>1, <1>3, <1>6, DivMod
<1>8. len > W - sb => bl = W - sb
  OBVIOUS
<1>9. ~(len > W - sb) => bl = len
  OBVIOUS
<1>10. Span(off, len, w) =
         CASE w = so               -> sb..(sb + bl - 1)
           [] w \in so + 1..so + n -> AllBits
           [] w = so + n + 1       -> 0..(t - 1)
           [] OTHER                -> {}
  BY <1>5, <1>6 DEF Span, so
<1>11. AllBits = 0..(W - 1)
  BY DEF AllBits
<1>12. \A b : At(w, b) = R + b
  BY DEF At
<1> HIDE DEF n, t, bl
<1>13. P \in Nat /\ Q \in Nat /\ R \in Nat
  BY <1>1, <1>2, <1>7
<1>14. n = 0 => Q = 0
  BY <1>1
<1>15. ~(len > W - sb) => n = 0 /\ t = 0
  <2> SUFFICES ASSUME ~(len > W - sb), n # 0 PROVE FALSE
    BY <1>7, <1>9, <1>13, <1>14
  <2>1. 0 * W + W <= n * W
    BY <1>1, <1>7, MulLess
  <2>2. QED
    BY <1>1, <1>7, <1>9, <2>1
<1>16. w < so => R + W <= P
  BY <1>1, <1>2, MulLess
<1>17. so < w => P + W <= R
  BY <1>1, <1>2, MulLess
<1>18. (so + n + 1) * W = P + Q + W
  BY <1>1, <1>2, <1>7
<1>19. w < so + n + 1 => R + W <= P + Q + W
  <2>1. so + n + 1 \in Nat
    BY <1>2, <1>7
  <2>2. w < so + n + 1 => w * W + W <= (so + n + 1) * W
    BY <1>1, <2>1, MulLess
  <2>3. QED
    BY <1>18, <2>2
<1>20. so + n + 1 < w => P + Q + W + W <= R
  <2>1. so + n + 1 \in Nat
    BY <1>2, <1>7
  <2>2. so + n + 1 < w => (so + n + 1) * W + W <= w * W
    BY <1>1, <2>1, MulLess
  <2>3. QED
    BY <1>18, <2>2
<1>21. w = so => R = P
  OBVIOUS
<1>22. w = so + n + 1 => R = P + Q + W
  BY <1>18
<1> HIDE DEF P, Q, R, W
<1> DEFINE Goal == /\ Span(off, len, w) \subseteq AllBits
                   /\ \A b \in 0..(W - 1) : b \in Span(off, len, w) <=>
                        P + sb <= R + b /\ R + b < P + sb + len
<1> SUFFICES Goal
  <2> SUFFICES ASSUME Goal, NEW b \in AllBits
               PROVE  b \in Span(off, len, w) <=>
                        off <= At(w, b) /\ At(w, b) < off + len
    OBVIOUS
  <2>1. b \in 0..(W - 1) /\ At(w, b) = R + b
    BY <1>11, <1>12
  <2>2. QED
    BY <1>2, <2>1
<1>23. CASE w = so
  <2>1. Span(off, len, w) = sb..(sb + bl - 1)
    BY <1>2, <1>7, <1>10, <1>23
  <2>2. bl <= W - sb /\ bl <= len /\ (bl # len => bl = W - sb)
    BY <1>1, <1>2, <1>3, <1>8, <1>9
  <2>3. QED
    BY <1>1, <1>2, <1>3, <1>11, <1>13, <1>21, <1>23, <2>1, <2>2
<1>24. CASE w \in so + 1..so + n
  <2>1. len > W - sb /\ bl = W - sb
    BY <1>2, <1>7, <1>8, <1>15, <1>24
  <2>2. Span(off, len, w) = AllBits
    BY <1>2, <1>7, <1>10, <1>24
  <2>3. P + W <= R /\ R + W <= P + Q + W
    BY <1>2, <1>7, <1>17, <1>19, <1>24
  <2>4. QED
    BY <1>1, <1>2, <1>7, <1>11, <1>13, <2>1, <2>2, <2>3
<1>25. CASE w = so + n + 1
  <2>1. Span(off, len, w) = 0..(t - 1)
    BY <1>2, <1>7, <1>10, <1>25
  <2>2. QED
    BY <1>1, <1>2, <1>3, <1>7, <1>8, <1>9, <1>11, <1>13, <1>14, <1>15, <1>22, <1>25, <2>1
<1>26. CASE w < so
  <2>1. Span(off, len, w) = {}
    BY <1>2, <1>7, <1>10, <1>26
  <2>2. QED
    BY <1>1, <1>2, <1>13, <1>16, <1>26, <2>1
<1>27. CASE so + n + 1 < w
  <2>1. Span(off, len, w) = {}
    BY <1>2, <1>7, <1>10, <1>27
  <2>2. QED
    BY <1>1, <1>2, <1>3, <1>7, <1>8, <1>9, <1>13, <1>14, <1>15, <1>20, <1>27, <2>1
<1>28. QED
  BY <1>2, <1>7, <1>23, <1>24, <1>25, <1>26, <1>27

Masks == [Words -> SUBSET AllBits]
Bit(mask, o) == o % WordBits \in mask[o \div WordBits]

LEMMA BitPlace ==
    ASSUME NEW o \in 0..MaxLen - 1
    PROVE  /\ o \div WordBits \in Words /\ o % WordBits \in AllBits
           /\ At(o \div WordBits, o % WordBits) = o
<1> DEFINE q == o \div WordBits
           r == o % WordBits
<1>1. WordBits \in Nat \ {0} /\ MaskWords \in Nat /\ MaxLen \in Nat
      /\ MaxLen <= WordBits * MaskWords
  BY MaskAssumption, IpAssumption
<1>2. o \in Nat
  BY <1>1
<1>3. q \in Nat /\ r \in 0..WordBits - 1 /\ o = q * WordBits + r
  BY <1>1, <1>2, DivMod
<1> HIDE DEF q, r
<1>4. q < MaskWords
  <2> SUFFICES ASSUME MaskWords <= q PROVE FALSE
    BY <1>1, <1>3
  <2>1. MaskWords * WordBits <= q * WordBits
    <3>1. CASE MaskWords = q
      BY <1>1, <1>3, <3>1
    <3>2. CASE MaskWords < q
      <4>1. MaskWords * WordBits + WordBits <= q * WordBits
        BY <1>1, <1>3, <3>2, MulLess
      <4>2. QED
        BY <1>1, <1>3, <4>1
    <3>3. QED
      BY <1>1, <1>3, <3>1, <3>2
  <2>2. QED
    BY <1>1, <1>3, <2>1
<1>5. QED
  BY <1>1, <1>3, <1>4 DEF q, r, Words, AllBits, At

\* maskset sets the bits of its range and leaves the others.
LEMMA MaskSet ==
    ASSUME NEW mask \in Masks, NEW off \in Nat, NEW len \in Nat
    PROVE  /\ maskset(mask, off, len) \in Masks
           /\ \A o \in 0..MaxLen - 1 :
                Bit(maskset(mask, off, len), o) <=>
                  Bit(mask, o) \/ (off <= o /\ o < off + len)
<1>1. ASSUME NEW w \in Words
      PROVE  /\ maskset(mask, off, len)[w] = mask[w] \cup Span(off, len, w)
             /\ Span(off, len, w) \subseteq AllBits
  <2>1. w \in Nat
    BY DEF Words
  <2>2. QED
    BY <1>1, <2>1, SpanIs DEF maskset
<1>2. maskset(mask, off, len) \in Masks
  BY <1>1 DEF maskset, Masks
<1>3. ASSUME NEW o \in 0..MaxLen - 1
      PROVE  Bit(maskset(mask, off, len), o) <=>
               Bit(mask, o) \/ (off <= o /\ o < off + len)
  <2> DEFINE w == o \div WordBits
             b == o % WordBits
  <2>1. w \in Words /\ w \in Nat /\ b \in AllBits /\ At(w, b) = o
    BY BitPlace DEF Words
  <2>2. maskset(mask, off, len)[w] = mask[w] \cup Span(off, len, w)
    BY <1>1, <2>1
  <2> HIDE DEF w, b
  <2>3. b \in Span(off, len, w) <=> off <= o /\ o < off + len
    BY <2>1, SpanIs
  <2>4. QED
    BY <2>2, <2>3 DEF Bit, w, b
<1>4. QED
  BY <1>2, <1>3

\* maskchk looks at every bit of its range.
LEMMA MaskChk ==
    ASSUME NEW mask \in Masks, NEW len \in 0..MaxLen
    PROVE  maskchk(mask, 0, len) <=> \A o \in 0..len - 1 : Bit(mask, o)
<1>1. MaxLen \in Nat /\ WordBits \in Nat \ {0} /\ len \in Nat /\ 0 \in Nat
  BY IpAssumption, MaskAssumption
<1>2. ASSUME maskchk(mask, 0, len), NEW o \in 0..len - 1 PROVE Bit(mask, o)
  <2> DEFINE w == o \div WordBits
             b == o % WordBits
  <2>1. o \in 0..MaxLen - 1
    BY <1>1
  <2>2. w \in Words /\ w \in Nat /\ b \in AllBits /\ At(w, b) = o
    BY <2>1, BitPlace DEF Words
  <2> HIDE DEF w, b
  <2>3. b \in Span(0, len, w)
    BY <1>1, <2>2, SpanIs
  <2>4. Span(0, len, w) \subseteq mask[w]
    BY <1>2, <2>2 DEF maskchk
  <2>5. QED
    BY <2>3, <2>4 DEF Bit, w, b
<1>3. ASSUME \A o \in 0..len - 1 : Bit(mask, o), NEW w \in Words,
             NEW b \in Span(0, len, w)
      PROVE  b \in mask[w]
  <2>1. w \in Nat
    BY DEF Words
  <2>2. b \in AllBits
    BY <1>1, <2>1, SpanIs
  <2>3. At(w, b) < 0 + len
    BY <1>1, <2>1, <2>2, SpanIs
  <2>4. w * WordBits \in Nat /\ b \in 0..WordBits - 1
    BY <1>1, <2>1, <2>2 DEF AllBits
  <2>5. At(w, b) \in 0..len - 1
    BY <1>1, <2>3, <2>4 DEF At
  <2>6. At(w, b) \div WordBits = w /\ At(w, b) % WordBits = b
    BY <1>1, <2>1, <2>4, DivUnique DEF At
  <2>7. Bit(mask, At(w, b))
    BY <1>3, <2>5
  <2>8. QED
    BY <2>6, <2>7 DEF Bit
<1>4. QED
  BY <1>2, <1>3 DEF maskchk

-----------------------------------------------------------------------------
(***************************************************************************)
(* The checksum of a header: one inverted bit is always noticed in the     *)
(* words it covers.                                                        *)
(***************************************************************************)
Sums == 0..Modulus - 1

Running(f, words) ==
    f = [i \in 0..Len(words) |-> IF i = 0 THEN 0 ELSE f[i - 1] + words[i]]
Five(w) == w[1] + w[2] + w[3] + w[4] + w[5]
Total(w) == Five(w) + w[6] + w[7] + w[8] + w[9]

LEMMA RunningSum ==
    ASSUME NEW w \in Seq(Nat), Len(w) = 9
    PROVE  (CHOOSE f : Running(f, w))[Len(w)] = Total(w)
<1> DEFINE g == [i \in 0..9 |->
                   IF i = 0 THEN 0
                   ELSE IF i = 1 THEN w[1]
                   ELSE IF i = 2 THEN w[1] + w[2]
                   ELSE IF i = 3 THEN w[1] + w[2] + w[3]
                   ELSE IF i = 4 THEN w[1] + w[2] + w[3] + w[4]
                   ELSE IF i = 5 THEN Five(w)
                   ELSE IF i = 6 THEN Five(w) + w[6]
                   ELSE IF i = 7 THEN Five(w) + w[6] + w[7]
                   ELSE IF i = 8 THEN Five(w) + w[6] + w[7] + w[8]
                   ELSE Total(w)]
           h == CHOOSE f : Running(f, w)
<1>1. \A i \in 1..9 : w[i] \in Nat
  <2>1. w \in [1..Len(w) -> Nat]
    BY AsFunction
  <2>2. QED
    BY <2>1
<1>2. Running(g, w)
  <2>1. ASSUME NEW i \in 0..9
        PROVE  g[i] = IF i = 0 THEN 0 ELSE g[i - 1] + w[i]
    <3>1. /\ g[0] = 0 /\ g[1] = w[1] /\ g[2] = w[1] + w[2]
          /\ g[3] = w[1] + w[2] + w[3] /\ g[4] = w[1] + w[2] + w[3] + w[4]
          /\ g[5] = Five(w) /\ g[6] = Five(w) + w[6] /\ g[7] = Five(w) + w[6] + w[7]
          /\ g[8] = Five(w) + w[6] + w[7] + w[8] /\ g[9] = Total(w)
      OBVIOUS
    <3> HIDE DEF g
    <3>2. CASE i = 0
      BY <3>1, <3>2
    <3>3. CASE i = 1
      <4>1. i - 1 = 0 /\ w[1] \in Nat
        BY <1>1, <3>3
      <4>2. QED
        BY <3>1, <3>3, <4>1
    <3>4. CASE i = 2 /\ i - 1 = 1
      BY <3>1, <3>4
    <3>5. CASE i = 3 /\ i - 1 = 2
      BY <3>1, <3>5
    <3>6. CASE i = 4 /\ i - 1 = 3
      BY <3>1, <3>6
    <3>7. CASE i = 5 /\ i - 1 = 4
      BY <3>1, <3>7 DEF Five
    <3>8. CASE i = 6 /\ i - 1 = 5
      BY <3>1, <3>8
    <3>9. CASE i = 7 /\ i - 1 = 6
      BY <3>1, <3>9
    <3>10. CASE i = 8 /\ i - 1 = 7
      BY <3>1, <3>10
    <3>11. CASE i = 9 /\ i - 1 = 8
      BY <3>1, <3>11 DEF Total
    <3>12. i \in {0, 1, 2, 3, 4, 5, 6, 7, 8, 9}
      OBVIOUS
    <3>13. QED
      BY <3>2, <3>3, <3>4, <3>5, <3>6, <3>7, <3>8, <3>9, <3>10, <3>11, <3>12
  <2>2. g = [i \in 0..9 |-> IF i = 0 THEN 0 ELSE g[i - 1] + w[i]]
    <3>1. g = [i \in 0..9 |-> g[i]]
      OBVIOUS
    <3> HIDE DEF g
    <3>2. QED
      BY <2>1, <3>1
  <2>3. QED
    BY <2>2 DEF Running
<1> HIDE DEF g
<1>3. Running(h, w)
  BY <1>2
<1> HIDE DEF h
<1>4. \A i \in 0..9 : h[i] = IF i = 0 THEN 0 ELSE h[i - 1] + w[i]
  BY <1>3 DEF Running
<1>5. /\ h[0] = 0 /\ h[1] = h[0] + w[1] /\ h[2] = h[1] + w[2]
      /\ h[3] = h[2] + w[3] /\ h[4] = h[3] + w[4] /\ h[5] = h[4] + w[5]
      /\ h[6] = h[5] + w[6] /\ h[7] = h[6] + w[7] /\ h[8] = h[7] + w[8]
      /\ h[9] = h[8] + w[9]
  <2>1. /\ 1 - 1 = 0 /\ 2 - 1 = 1 /\ 3 - 1 = 2 /\ 4 - 1 = 3 /\ 5 - 1 = 4
        /\ 6 - 1 = 5 /\ 7 - 1 = 6 /\ 8 - 1 = 7 /\ 9 - 1 = 8
    OBVIOUS
  <2>2. QED
    BY <1>4, <2>1
<1>6. h[5] = Five(w)
  <2>1. {w[1], w[2], w[3], w[4], w[5]} \subseteq Nat
    BY <1>1
  <2>2. QED
    BY <1>5, <2>1 DEF Five
<1>7. h[9] = Total(w)
  BY <1>5, <1>6 DEF Total
<1>8. QED
  BY <1>7 DEF h

LEMMA CksumIs ==
    ASSUME NEW w \in Seq(Nat), Len(w) = 9
    PROVE  cksum16(w) = (Modulus - 1) - (Fold16(Fold16(Total(w))) % Modulus)
<1>1. cksum16(w) = (Modulus - 1) -
         (Fold16(Fold16((CHOOSE f : Running(f, w))[Len(w)])) % Modulus)
  BY DEF cksum16, Running
<1>2. QED
  BY <1>1, RunningSum

\* Folding takes away multiples of Modulus - 1, and twice is enough.
LEMMA FoldTwice ==
    ASSUME NEW s \in Nat, s <= 10 * (Modulus - 1)
    PROVE  /\ Fold16(Fold16(s)) \in 0..Modulus - 1
           /\ \E k \in 0..10 : Fold16(Fold16(s)) = s - k * (Modulus - 1)
<1> DEFINE M == Modulus
           q == s \div M
           r == s % M
           f == Fold16(s)
           q2 == f \div M
           r2 == f % M
<1>1. M \in Nat \ {0} /\ M > 9
  BY MaskAssumption
<1>2. q \in Nat /\ r \in 0..M - 1 /\ s = q * M + r
  BY <1>1, DivMod
<1>3. f = r + q
  BY DEF Fold16
<1> HIDE DEF q, r, f, M
<1>4. q \in 0..9
  <2> SUFFICES ASSUME 9 < q PROVE FALSE
    BY <1>2
  <2>1. 9 * M + M <= q * M
    BY <1>1, <1>2, MulLess
  <2>2. QED
    BY <1>1, <1>2, <2>1 DEF M
<1>5. f \in Nat /\ f < 2 * M
  BY <1>1, <1>2, <1>3, <1>4
<1>6. q2 \in Nat /\ r2 \in 0..M - 1 /\ f = q2 * M + r2
  BY <1>1, <1>5, DivMod
<1>7. Fold16(f) = r2 + q2
  BY DEF Fold16, M
<1> HIDE DEF q2, r2
<1>8. q2 \in {0, 1}
  <2> SUFFICES ASSUME 1 < q2 PROVE FALSE
    BY <1>6
  <2>1. 1 * M + M <= q2 * M
    BY <1>1, <1>6, MulLess
  <2>2. QED
    BY <1>1, <1>5, <1>6, <2>1
<1>9. Fold16(f) \in 0..M - 1
  <2>1. CASE q2 = 0
    BY <1>1, <1>6, <1>7, <2>1
  <2>2. CASE q2 = 1
    BY <1>1, <1>2, <1>3, <1>4, <1>6, <1>7, <2>2
  <2>3. QED
    BY <1>8, <2>1, <2>2
<1>10. Fold16(f) = s - (q + q2) * (M - 1)
  <2>1. Fold16(f) = f - q2 * (M - 1)
    BY <1>1, <1>6, <1>7, <1>8
  <2>2. f = s - q * (M - 1)
    BY <1>1, <1>2, <1>3
  <2>3. (q + q2) * (M - 1) = q * (M - 1) + q2 * (M - 1)
    BY <1>1, <1>4, <1>8
  <2>4. q * (M - 1) \in Int /\ q2 * (M - 1) \in Int
    BY <1>1, <1>4, <1>8
  <2>5. QED
    BY <2>1, <2>2, <2>3, <2>4
<1>11. q + q2 \in 0..10
  BY <1>4, <1>8
<1>12. QED
  BY <1>9, <1>10, <1>11 DEF f, M

LEMMA ModSmall ==
    ASSUME NEW d \in Nat \ {0}, NEW a \in 0..d - 1
    PROVE  a % d = a /\ a \div d = 0
<1>1. (0 * d + a) \div d = 0 /\ (0 * d + a) % d = a
  BY DivUnique
<1>2. 0 * d + a = a
  OBVIOUS
<1>3. QED
  BY <1>1, <1>2

LEMMA FiveSmall ==
    ASSUME NEW m \in Nat, NEW a \in 0..m, NEW b \in 0..m, NEW c \in 0..m,
           NEW d \in 0..m, NEW e \in 0..m
    PROVE  a + b + c + d + e \in Nat /\ a + b + c + d + e <= 5 * m
  OBVIOUS

LEMMA FourMore ==
    ASSUME NEW m \in Nat, NEW x \in Nat, x <= 5 * m, NEW a \in 0..m, NEW b \in 0..m,
           NEW c \in 0..m, NEW d \in 0..m
    PROVE  x + a + b + c + d \in Nat /\ x + a + b + c + d <= 9 * m
  OBVIOUS

LEMMA TotalSmall ==
    ASSUME NEW w \in [1..9 -> Sums]
    PROVE  w \in [1..9 -> Nat] /\ Total(w) \in Nat /\ Total(w) <= 9 * (Modulus - 1)
<1> DEFINE m == Modulus - 1
<1>1. m \in Nat /\ Sums = 0..m
  BY MaskAssumption DEF Sums
<1> HIDE DEF m
<1>2. /\ w[1] \in 0..m /\ w[2] \in 0..m /\ w[3] \in 0..m /\ w[4] \in 0..m
      /\ w[5] \in 0..m /\ w[6] \in 0..m /\ w[7] \in 0..m /\ w[8] \in 0..m
      /\ w[9] \in 0..m
  BY <1>1
<1>3. Five(w) \in Nat /\ Five(w) <= 5 * m
  BY <1>1, <1>2, FiveSmall DEF Five
<1>4. Total(w) \in Nat /\ Total(w) <= 9 * m
  BY <1>1, <1>2, <1>3, FourMore DEF Total
<1>5. w \in [1..9 -> Nat]
  BY <1>1
<1>6. QED
  BY <1>4, <1>5 DEF m

\* The words of a header and their checksum add up to a multiple of Modulus - 1.
LEMMA SummedTotal ==
    ASSUME NEW w \in [1..9 -> Sums]
    PROVE  /\ cksum16(w) \in Sums
           /\ \E k \in 1..11 : Total(w) + cksum16(w) = k * (Modulus - 1)
<1> DEFINE M == Modulus
           s == Total(w)
           f == Fold16(Fold16(s))
<1>1. M \in Nat \ {0} /\ M > 9
  BY MaskAssumption
<1>2. w \in [1..9 -> Nat] /\ s \in Nat /\ s <= 9 * (M - 1)
  BY TotalSmall
<1>3. w \in Seq(Nat) /\ Len(w) = 9
  <2>1. 9 \in Nat /\ w \in [1..9 -> Nat]
    BY <1>2
  <2>2. QED
    BY ONLY <2>1, AsSequence
<1>4. s <= 10 * (M - 1)
  <2> HIDE DEF s
  <2>1. QED
    BY <1>1, <1>2
<1>5. PICK k \in 0..10 : f = s - k * (M - 1)
  BY <1>2, <1>4, FoldTwice
<1>6. f \in 0..M - 1
  BY <1>2, <1>4, FoldTwice
<1>7. cksum16(w) = (M - 1) - f
  <2>1. cksum16(w) = (M - 1) - (f % M)
    BY <1>3, CksumIs
  <2>2. f % M = f
    BY <1>1, <1>6, ModSmall
  <2>3. QED
    BY <2>1, <2>2
<1> HIDE DEF f, s, M
<1>8. cksum16(w) \in 0..M - 1
  BY <1>1, <1>6, <1>7
<1>9. s + cksum16(w) = (k + 1) * (M - 1)
  <2>1. k * (M - 1) \in Int /\ (k + 1) * (M - 1) = k * (M - 1) + (M - 1)
    BY <1>1
  <2>2. QED
    BY <1>1, <1>2, <1>5, <1>7, <2>1
<1>10. k + 1 \in 1..11
  OBVIOUS
<1>11. QED
  BY <1>8, <1>9, <1>10 DEF s, M, Sums

\* Inverting a bit changes a word by less than Modulus - 1.
LEMMA InvertedBy ==
    ASSUME NEW a \in 0..Modulus - 1, NEW b \in Bits
    PROVE  /\ Inverted(a, b) \in Nat
           /\ b \in 1..Modulus - 2
           /\ Inverted(a, b) = a + b \/ Inverted(a, b) = a - b
<1>1. Modulus \in Nat /\ Modulus > 9 /\ b \in 1..Modulus - 1 /\ Modulus % b = 0
  BY MaskAssumption DEF Bits
<1>2. b # Modulus - 1
  <2> SUFFICES ASSUME b = Modulus - 1 PROVE FALSE
    OBVIOUS
  <2>1. (1 * b + 1) % b = 1
    BY <1>1, DivUnique
  <2>2. 1 * b + 1 = Modulus
    BY <1>1
  <2>3. QED
    BY <1>1, <2>1, <2>2
<1>3. (a \div b) % 2 = 1 => b <= a
  <2> SUFFICES ASSUME (a \div b) % 2 = 1, a < b PROVE FALSE
    BY <1>1
  <2>1. a \div b = 0
    BY <1>1, ModSmall
  <2>2. QED
    BY <2>1
<1>4. QED
  BY <1>1, <1>2, <1>3 DEF Inverted

LEMMA ChangedTotal ==
    ASSUME NEW w \in [1..9 -> Nat], NEW i \in 1..9, NEW x \in Nat
    PROVE  /\ [w EXCEPT ![i] = x] \in [1..9 -> Nat]
           /\ Total(w) \in Nat /\ Total([w EXCEPT ![i] = x]) \in Nat
           /\ Total([w EXCEPT ![i] = x]) = Total(w) + (x - w[i])
<1> DEFINE v == [w EXCEPT ![i] = x]
<1>1. v \in [1..9 -> Nat] /\ v[i] = x
  OBVIOUS
<1>2. /\ 1 # i => v[1] = w[1]
      /\ 2 # i => v[2] = w[2]
      /\ 3 # i => v[3] = w[3]
      /\ 4 # i => v[4] = w[4]
      /\ 5 # i => v[5] = w[5]
      /\ 6 # i => v[6] = w[6]
      /\ 7 # i => v[7] = w[7]
      /\ 8 # i => v[8] = w[8]
      /\ 9 # i => v[9] = w[9]
  OBVIOUS
<1>3. /\ w[1] \in Nat /\ w[2] \in Nat /\ w[3] \in Nat /\ w[4] \in Nat
      /\ w[5] \in Nat /\ w[6] \in Nat /\ w[7] \in Nat /\ w[8] \in Nat /\ w[9] \in Nat
  OBVIOUS
<1> HIDE DEF v
<1>4. /\ v[1] \in Nat /\ v[2] \in Nat /\ v[3] \in Nat /\ v[4] \in Nat
      /\ v[5] \in Nat /\ v[6] \in Nat /\ v[7] \in Nat /\ v[8] \in Nat /\ v[9] \in Nat
  BY <1>1
<1>5. Total(w) = w[1] + w[2] + w[3] + w[4] + w[5] + w[6] + w[7] + w[8] + w[9]
  BY DEF Total, Five
<1>6. Total(v) = v[1] + v[2] + v[3] + v[4] + v[5] + v[6] + v[7] + v[8] + v[9]
  BY DEF Total, Five
<1>7. Total(w) \in Nat /\ Total(v) \in Nat
  BY <1>3, <1>4, <1>5, <1>6
<1>8. \/ i = 1 \/ i = 2 \/ i = 3 \/ i = 4 \/ i = 5 \/ i = 6 \/ i = 7 \/ i = 8
      \/ i = 9
  OBVIOUS
<1>9. Total(v) = Total(w) + (x - w[i])
  BY <1>1, <1>2, <1>3, <1>4, <1>5, <1>6, <1>8
<1>10. QED
  BY <1>1, <1>7, <1>9 DEF v

\* One inverted bit is noticed.
LEMMA OneBit ==
    ASSUME NEW w \in [1..9 -> Sums], NEW k \in 1..11,
           Total(w) = k * (Modulus - 1), NEW i \in 1..9, NEW b \in Bits
    PROVE  cksum16([w EXCEPT ![i] = Inverted(@, b)]) # 0
<1> DEFINE M == Modulus
           x == Inverted(w[i], b)
           v == [w EXCEPT ![i] = x]
           s == Total(v)
           f == Fold16(Fold16(s))
<1>1. M \in Nat \ {0} /\ M > 9
  BY MaskAssumption
<1>2. w[i] \in 0..M - 1
  BY DEF Sums
<1>3. x \in Nat /\ b \in 1..M - 2 /\ (x = w[i] + b \/ x = w[i] - b)
  BY <1>2, InvertedBy
<1>4. w \in [1..9 -> Nat] /\ Total(w) \in Nat /\ Total(w) <= 9 * (M - 1)
  BY TotalSmall
<1> HIDE DEF x
<1>5. v \in [1..9 -> Nat] /\ s \in Nat /\ s = Total(w) + (x - w[i])
  BY <1>3, <1>4, ChangedTotal
<1> HIDE DEF v, s
<1>6. v \in Seq(Nat) /\ Len(v) = 9
  <2>1. 9 \in Nat /\ v \in [1..9 -> Nat]
    BY <1>5
  <2>2. QED
    BY ONLY <2>1, AsSequence
<1>7. s = Total(w) + b \/ s = Total(w) - b
  BY <1>1, <1>2, <1>3, <1>4, <1>5
<1>8. s <= 10 * (M - 1)
  BY <1>1, <1>3, <1>4, <1>5, <1>7
<1>9. PICK n \in 0..10 : f = s - n * (M - 1)
  BY <1>5, <1>8, FoldTwice DEF M
<1>10. f \in 0..M - 1 /\ f % M = f
  BY <1>1, <1>5, <1>8, FoldTwice, ModSmall DEF M
<1>11. cksum16(v) = (M - 1) - f
  BY <1>6, <1>10, CksumIs DEF s, M
<1> HIDE DEF f
<1> SUFFICES ASSUME f = M - 1 PROVE FALSE
  <2>1. cksum16(v) = 0 => f = M - 1
    BY <1>1, <1>10, <1>11
  <2>2. v = [w EXCEPT ![i] = Inverted(@, b)]
    BY DEF v, x
  <2>3. QED
    BY <2>1, <2>2
<1>12. s = (n + 1) * (M - 1)
  <2>1. n * (M - 1) \in Int /\ (n + 1) * (M - 1) = n * (M - 1) + (M - 1)
    BY <1>1
  <2>2. QED
    BY <1>1, <1>5, <1>9, <2>1
<1>13. s = k * (M - 1) + b \/ s = k * (M - 1) - b
  BY <1>7 DEF M
<1>14. k * (M - 1) \in Nat /\ (n + 1) * (M - 1) \in Nat
  BY <1>1
<1>15. CASE k < n + 1
  <2>1. k * (M - 1) + (M - 1) <= (n + 1) * (M - 1)
    BY <1>1, <1>15, MulLess
  <2>2. QED
    BY <1>1, <1>3, <1>12, <1>13, <1>14, <2>1
<1>16. CASE n + 1 < k
  <2>1. (n + 1) * (M - 1) + (M - 1) <= k * (M - 1)
    BY <1>1, <1>16, MulLess
  <2>2. QED
    BY <1>1, <1>3, <1>12, <1>13, <1>14, <2>1
<1>17. CASE k = n + 1
  BY <1>1, <1>3, <1>12, <1>13, <1>14, <1>17
<1>18. QED
  BY <1>15, <1>16, <1>17

-----------------------------------------------------------------------------
(***************************************************************************)
(* Least and greatest elements, and the list.                              *)
(***************************************************************************)
LEMMA LeastOf ==
    ASSUME NEW S, S \subseteq Nat, S # {}
    PROVE  Min(S) \in S
<1> DEFINE R == OpToRel(<, Nat)
<1>1. R = {ss \in Nat \X Nat : ss[1] < ss[2]}
  BY DEF OpToRel
<1>2. \E x \in S : \A y \in S : ~(<<y, x>> \in R)
  BY NatLessThanWellFounded, WFMin
<1> HIDE DEF R
<1>3. PICK x \in S : \A y \in S : ~(<<y, x>> \in R)
  BY <1>2
<1>4. ASSUME NEW y \in S PROVE x <= y
  <2>1. x \in Nat /\ y \in Nat /\ ~(<<y, x>> \in R)
    BY <1>3
  <2>2. y < x => <<y, x>> \in R
    BY <1>1, <2>1
  <2>3. QED
    BY <2>1, <2>2
<1>5. QED
  BY <1>4 DEF Min

LEMMA OfTwo ==
    ASSUME NEW a \in Nat, NEW b \in Nat
    PROVE  /\ Min({a, b}) = IF a <= b THEN a ELSE b
           /\ Max({a, b}) = IF a >= b THEN a ELSE b
<1>1. \E x \in {a, b} : \A y \in {a, b} : x <= y
  OBVIOUS
<1>2. Min({a, b}) \in {a, b} /\ \A y \in {a, b} : Min({a, b}) <= y
  BY <1>1 DEF Min
<1>3. \E x \in {a, b} : \A y \in {a, b} : x >= y
  OBVIOUS
<1>4. Max({a, b}) \in {a, b} /\ \A y \in {a, b} : Max({a, b}) >= y
  BY <1>3 DEF Max
<1>5. QED
  BY <1>2, <1>4

LEMMA Part ==
    ASSUME NEW S, NEW list \in Seq(S), NEW a \in 1..Len(list) + 1,
           NEW b \in a - 1..Len(list)
    PROVE  /\ SubSeq(list, a, b) \in Seq(S) /\ Len(SubSeq(list, a, b)) = b - a + 1
           /\ \A i \in 1..b - a + 1 : SubSeq(list, a, b)[i] = list[a + i - 1]
  OBVIOUS

LEMMA Joined ==
    ASSUME NEW S, NEW x \in Seq(S), NEW y \in Seq(S)
    PROVE  x \o y \in Seq(S) /\ Len(x \o y) = Len(x) + Len(y)
  OBVIOUS

LEMMA Removed ==
    ASSUME NEW S, NEW list \in Seq(S), NEW i \in 1..Len(list)
    PROVE  RemoveAt(list, i) \in Seq(S) /\ Len(RemoveAt(list, i)) = Len(list) - 1
<1> DEFINE x == SubSeq(list, 1, i - 1)
           y == SubSeq(list, i + 1, Len(list))
<1>1. Len(list) \in Nat
  OBVIOUS
<1>2. x \in Seq(S) /\ Len(x) = i - 1
  <2>1. 1 \in 1..Len(list) + 1 /\ i - 1 \in 1 - 1..Len(list) /\ (i - 1) - 1 + 1 = i - 1
    BY <1>1
  <2>2. QED
    BY <2>1, Part
<1>3. y \in Seq(S) /\ Len(y) = Len(list) - i
  <2>1. i + 1 \in 1..Len(list) + 1 /\ Len(list) \in (i + 1) - 1..Len(list)
        /\ Len(list) - (i + 1) + 1 = Len(list) - i
    BY <1>1
  <2>2. QED
    BY <2>1, Part
<1> HIDE DEF x, y
<1>4. x \o y \in Seq(S) /\ Len(x \o y) = Len(list) - 1
  BY <1>1, <1>2, <1>3, Joined
<1>5. RemoveAt(list, i) = x \o y
  BY DEF RemoveAt, x, y
<1>6. QED
  BY <1>4, <1>5

LEMMA FrontOf ==
    ASSUME NEW S, NEW list \in Seq(S), list # <<>>
    PROVE  Front(list) \in Seq(S) /\ Len(Front(list)) = Len(list) - 1
<1>1. Len(list) \in Nat \ {0}
  OBVIOUS
<1>2. 1 \in 1..Len(list) + 1 /\ Len(list) - 1 \in 1 - 1..Len(list)
      /\ (Len(list) - 1) - 1 + 1 = Len(list) - 1
  BY <1>1
<1>3. QED
  BY <1>2, Part DEF Front

LEMMA Replaced ==
    ASSUME NEW S, NEW list \in Seq(S), NEW i \in 1..Len(list), NEW x \in S
    PROVE  [list EXCEPT ![i] = x] \in Seq(S) /\ Len([list EXCEPT ![i] = x]) = Len(list)
  OBVIOUS

LEMMA Pushed ==
    ASSUME NEW S, NEW list \in Seq(S), NEW x \in S
    PROVE  /\ <<x>> \o list \in Seq(S) /\ Len(<<x>> \o list) = Len(list) + 1
           /\ (<<x>> \o list)[1] = x
  OBVIOUS

LEMMA SeqEqual ==
    ASSUME NEW S, NEW x \in Seq(S), NEW y \in Seq(S), Len(x) = Len(y),
           \A i \in 1..Len(x) : x[i] = y[i]
    PROVE  x = y
  OBVIOUS

-----------------------------------------------------------------------------
(***************************************************************************)
(* What ip_tx sends.                                                       *)
(***************************************************************************)
LEMMA Sizes ==
    /\ IdSpace \in Nat \ {0} /\ Unit \in Nat \ {0} /\ OffsetSpace \in Nat \ {0}
    /\ HdrSize = 9 /\ IhlSpace \in Nat \ {0} /\ Mtu \in Nat \ {0} /\ MaxLen \in Nat \ {0}
    /\ MinPayload \in Nat /\ IP_FRAGMENT_TIMEOUT_SEC \in Nat
    /\ IP_FRAGMENT_NUM_MAX \in Nat \ {0} /\ FirstId \in Nat
    /\ Modulus \in Nat \ {0} /\ Modulus > 9
    /\ HdrSize + Mtu < Modulus /\ IdSpace <= Modulus /\ 2 * OffsetSpace <= Modulus
  BY IpAssumption, HeaderAssumption, MaskAssumption DEF HdrSize

LEMMA FirstWord ==
    /\ Version * IhlSpace + HdrSize \in Sums /\ Ttl \in Sums
    /\ (Version * IhlSpace + HdrSize) % IhlSpace = HdrSize
<1>1. Version \in Nat /\ HdrSize < IhlSpace /\ Version * IhlSpace + HdrSize < Modulus
      /\ Ttl \in 1..Modulus - 1
  BY HeaderAssumption
<1>2. Version * IhlSpace \in Nat
  BY <1>1, Sizes
<1>3. (Version * IhlSpace + HdrSize) % IhlSpace = HdrSize
  BY <1>1, Sizes, DivUnique
<1>4. QED
  BY <1>1, <1>2, <1>3, Sizes DEF Sums

LEMMA DatagramIs ==
    ASSUME NEW c \in Calls
    PROVE  /\ Datagram[c].data \in Seq(Nat) /\ Len(Datagram[c].data) = Length(c)
           /\ Length(c) \in 1..MaxLen /\ Length(c) \in Nat
           /\ Length(c) < OffsetSpace * Unit
           /\ Datagram[c].src \in Sums /\ Datagram[c].dst \in Sums
           /\ Datagram[c].proto \in Sums /\ Datagram[c].src \in Srcs
           /\ Datagram[c] = [src |-> Datagram[c].src, dst |-> Datagram[c].dst,
                             proto |-> Datagram[c].proto, data |-> Datagram[c].data]
<1>1. Datagram[c] \in [src : Sums, dst : Sums, proto : Sums, data : Seq(Sums)]
  BY HeaderAssumption DEF Sums
<1>2. Seq(Sums) \subseteq Seq(Nat)
  BY Sizes, SeqSubset DEF Sums
<1>3. Length(c) \in 1..MaxLen /\ Length(c) < OffsetSpace * Unit
  BY IpAssumption
<1>4. QED
  BY <1>1, <1>2, <1>3, Sizes DEF Length, Srcs

Started(c) == tx[c].pc # "ready"

TxRecord == [pc : {"ready", "send", "done"}, id : 0..IdSpace - 1, done : Nat]

\* A call is at a multiple of the unit of offsets while it goes on.
TxInv ==
    /\ tx \in [Calls -> TxRecord]
    /\ \A c \in Calls : tx[c].pc = "send" =>
         tx[c].done < Length(c) /\ \E j \in Nat : tx[c].done = j * Unit

\* The fragment of call c at offset j, and how the receiver reads its header.
Packet(c, j) == Fragment(c, tx[c].id, j * Unit)
Size(c, j) == IF Length(c) - j * Unit <= Mtu THEN Length(c) - j * Unit ELSE Mtu
Final(c, j) == j * Unit + Size(c, j) = Length(c)
Read(c, j) ==
    [id |-> tx[c].id, offset |-> j, more |-> ~Final(c, j),
     proto |-> Datagram[c].proto, src |-> Datagram[c].src, dst |-> Datagram[c].dst]

LEMMA SizeIs ==
    ASSUME NEW c \in Calls, NEW j \in Nat, j * Unit < Length(c)
    PROVE  /\ j * Unit \in Nat /\ Size(c, j) \in 1..Mtu
           /\ j * Unit + Size(c, j) <= Length(c)
           /\ j < OffsetSpace
<1> DEFINE k == j * Unit
<1>1. k \in Nat
  BY Sizes
<1>2. Length(c) \in Nat /\ Length(c) < OffsetSpace * Unit
  BY DatagramIs
<1>3. j < OffsetSpace
  <2> SUFFICES ASSUME OffsetSpace <= j PROVE FALSE
    BY Sizes
  <2>1. OffsetSpace * Unit <= j * Unit
    <3>1. CASE OffsetSpace = j
      BY <1>1, <3>1
    <3>2. CASE OffsetSpace < j
      <4>1. OffsetSpace * Unit + Unit <= j * Unit
        BY <3>2, Sizes, MulLess
      <4>2. OffsetSpace * Unit \in Nat
        BY Sizes
      <4>3. QED
        BY <1>1, <4>1, <4>2, Sizes
    <3>3. QED
      BY <3>1, <3>2, Sizes
  <2>2. OffsetSpace * Unit \in Nat
    BY Sizes
  <2>3. QED
    BY <1>1, <1>2, <2>1, <2>2
<1>4. k < Length(c)
  OBVIOUS
<1>5. Size(c, j) = IF Length(c) - k <= Mtu THEN Length(c) - k ELSE Mtu
  BY DEF Size
<1> HIDE DEF k
<1>6. Size(c, j) \in 1..Mtu /\ k + Size(c, j) <= Length(c)
  BY <1>1, <1>2, <1>4, <1>5, Sizes
<1>7. QED
  BY <1>1, <1>3, <1>6 DEF k

LEMMA SizeIsMin ==
    ASSUME NEW c \in Calls, NEW j \in Nat, j * Unit < Length(c)
    PROVE  Min({Len(Datagram[c].data) - j * Unit, Mtu}) = Size(c, j)
<1> DEFINE done == j * Unit
           n == Size(c, j)
           d == Datagram[c].data
<1>1. done \in Nat /\ done + n <= Length(c) /\ n \in 1..Mtu
  BY SizeIs
<1>2. Len(d) = Length(c) /\ Length(c) \in Nat
  BY DatagramIs
<1>3. n = IF Length(c) - done <= Mtu THEN Length(c) - done ELSE Mtu
  BY DEF Size
<1> HIDE DEF n, done, d
<1> DEFINE r == Len(d) - done
<1>4. r \in Nat /\ Mtu \in Nat /\ r = Length(c) - done
  BY <1>1, <1>2, Sizes
<1> HIDE DEF r
<1>5. Min({r, Mtu}) = IF r <= Mtu THEN r ELSE Mtu
  BY <1>4, OfTwo
<1>6. Min({r, Mtu}) = n
  BY <1>3, <1>4, <1>5
<1>7. QED
  BY <1>6 DEF r, n, done, d

\* Flag and offset share a word and are told apart again.
LEMMA OffsetWord ==
    ASSUME NEW j \in 0..OffsetSpace - 1, NEW more \in BOOLEAN
    PROVE  LET word == (IF more THEN OffsetSpace ELSE 0) + j
           IN  /\ word \in Sums /\ word % OffsetSpace = j
               /\ ((word \div OffsetSpace) % 2 = 1) <=> more
<1> DEFINE d == OffsetSpace
           q == IF more THEN 1 ELSE 0
           word == (IF more THEN d ELSE 0) + j
<1>1. d \in Nat \ {0} /\ q \in Nat
  BY Sizes
<1>2. (q * d + j) \div d = q /\ (q * d + j) % d = j
  BY <1>1, DivUnique
<1>3. word = q * d + j
  BY <1>1
<1>4. word \in Sums
  BY <1>1, Sizes DEF Sums
<1> HIDE DEF word
<1>5. word \div d = q /\ word % d = j
  BY <1>2, <1>3
<1>6. q % 2 = 1 <=> more
  OBVIOUS
<1>7. QED
  BY <1>4, <1>5, <1>6 DEF word

LEMMA HeaderRead ==
    ASSUME TxInv, NEW c \in Calls, NEW j \in Nat, j * Unit < Length(c)
    PROVE  /\ Packet(c, j).hdr \in [1..9 -> Sums]
           /\ \E k \in 1..11 : Total(Packet(c, j).hdr) = k * (Modulus - 1)
           /\ Decoded(Packet(c, j).hdr) = Read(c, j)
           /\ Ihl(Packet(c, j)) = HdrSize
           /\ Packet(c, j).hdr[2] = HdrSize + Size(c, j)
<1> DEFINE d == Datagram[c].data
           done == j * Unit
           n == Size(c, j)
           flag == IF done + n < Len(d) THEN OffsetSpace ELSE 0
           w == Header(Datagram[c], n, tx[c].id, flag + j, 0)
           x == cksum16(w)
           v == Header(Datagram[c], n, tx[c].id, flag + j, x)
           vhl == Version * IhlSpace + HdrSize
<1>1. done \in Nat /\ n \in 1..Mtu /\ done + n <= Length(c) /\ j \in 0..OffsetSpace - 1
  BY SizeIs, Sizes, SMTT(30)
<1>2. /\ d \in Seq(Nat) /\ Len(d) = Length(c) /\ Length(c) \in Nat
      /\ Datagram[c].src \in Sums /\ Datagram[c].dst \in Sums
      /\ Datagram[c].proto \in Sums
  BY DatagramIs
<1>3. Min({Len(d) - done, Mtu}) = n
  BY SizeIsMin
<1>4. (done \div Unit) % OffsetSpace = j
  <2>1. (j * Unit + 0) \div Unit = j
    BY Sizes, DivUnique
  <2>2. j * Unit + 0 = done
    BY <1>1
  <2>3. j % OffsetSpace = j
    BY <1>1, Sizes, ModSmall
  <2>4. QED
    BY <2>1, <2>2, <2>3
<1>5. Len(SubSeq(d, done + 1, done + n)) = n
  <2> HIDE DEF n, done, d
  <2>1. done + 1 \in 1..Len(d) + 1 /\ done + n \in (done + 1) - 1..Len(d)
        /\ (done + n) - (done + 1) + 1 = n
    BY <1>1, <1>2
  <2>2. QED
    BY <1>2, <2>1, Part
<1>6. Packet(c, j).hdr = v
  BY <1>3, <1>4, <1>5 DEF Packet, Fragment, ip_tx_core
<1>7. done + n < Len(d) <=> ~Final(c, j)
  BY <1>1, <1>2 DEF Final
<1>8. flag + j \in Sums /\ (flag + j) % OffsetSpace = j
      /\ (((flag + j) \div OffsetSpace) % 2 = 1 <=> ~Final(c, j))
  BY <1>1, <1>7, OffsetWord
<1>9. HdrSize + n \in Sums /\ 0 \in Sums
  BY <1>1, Sizes DEF Sums
<1>10. tx[c].id \in Sums
  <2>1. tx[c].id \in 0..IdSpace - 1
    BY DEF TxInv, TxRecord
  <2>2. QED
    BY <2>1, Sizes DEF Sums
<1>11. vhl \in Sums /\ Ttl \in Sums /\ vhl % IhlSpace = HdrSize
  BY FirstWord
<1> HIDE DEF flag, n, d, done, vhl
<1> DEFINE Words9(sum) == <<vhl, HdrSize + n, tx[c].id, flag + j, Ttl, Datagram[c].proto,
                            sum, Datagram[c].src, Datagram[c].dst>>
<1>12. \A sum \in Sums :
         /\ Words9(sum) \in [1..9 -> Sums]
         /\ Words9(sum)[1] = vhl /\ Words9(sum)[2] = HdrSize + n
         /\ Words9(sum)[3] = tx[c].id /\ Words9(sum)[4] = flag + j
         /\ Words9(sum)[5] = Ttl /\ Words9(sum)[6] = Datagram[c].proto
         /\ Words9(sum)[7] = sum /\ Words9(sum)[8] = Datagram[c].src
         /\ Words9(sum)[9] = Datagram[c].dst
  BY <1>2, <1>8, <1>9, <1>10, <1>11
<1>13. w = Words9(0) /\ v = Words9(x)
  BY DEF Header, vhl
<1> HIDE DEF Words9, v, w
<1>14. w \in [1..9 -> Sums]
  BY <1>9, <1>12, <1>13
<1>15. x \in Sums /\ \E k \in 1..11 : Total(w) + x = k * (Modulus - 1)
  BY <1>14, SummedTotal
<1> HIDE DEF x
<1>16. /\ v \in [1..9 -> Sums] /\ v[1] = vhl /\ v[2] = HdrSize + n /\ v[3] = tx[c].id
       /\ v[4] = flag + j /\ v[6] = Datagram[c].proto /\ v[7] = x
       /\ v[8] = Datagram[c].src /\ v[9] = Datagram[c].dst
  BY <1>12, <1>13, <1>15
<1>17. Total(v) = Total(w) + x
  <2>1. v = [w EXCEPT ![7] = x]
    <3>1. \A i \in 1..9 : i # 7 => v[i] = w[i]
      <4>1. \A i \in 1..9 : i \in {1, 2, 3, 4, 5, 6, 7, 8, 9}
        OBVIOUS
      <4>2. QED
        BY <1>9, <1>12, <1>13, <1>15, <4>1
    <3>2. QED
      BY <1>14, <1>16, <3>1
  <2>2. w[7] = 0 /\ x \in Nat /\ w \in [1..9 -> Nat]
    <3>1. w[7] = 0
      BY <1>9, <1>12, <1>13
    <3>2. Sums \subseteq Nat
      BY Sizes DEF Sums
    <3>3. QED
      BY <1>14, <1>15, <3>1, <3>2
  <2>3. Total([w EXCEPT ![7] = x]) = Total(w) + (x - w[7]) /\ Total(w) \in Nat
    <3>1. 7 \in 1..9
      OBVIOUS
    <3>2. QED
      BY ONLY <2>2, <3>1, ChangedTotal
  <2>4. QED
    BY <2>1, <2>2, <2>3
<1>18. Decoded(v) = Read(c, j)
  BY <1>8, <1>16 DEF Decoded, Read
<1>19. QED
  BY <1>6, <1>11, <1>15, <1>16, <1>17, <1>18 DEF n, Ihl

LEMMA Headed ==
    ASSUME NEW x \in Seq(Nat), NEW y \in Seq(Nat), NEW n \in 0..Len(y)
    PROVE  /\ SubSeq(x \o y, 1, Len(x)) = x
           /\ SubSeq(x \o y, Len(x) + 1, Len(x) + n) \in Seq(Nat)
           /\ Len(SubSeq(x \o y, Len(x) + 1, Len(x) + n)) = n
           /\ \A i \in 1..n : SubSeq(x \o y, Len(x) + 1, Len(x) + n)[i] = y[i]
<1> DEFINE z == x \o y
           h == Len(x)
<1>1. z \in Seq(Nat) /\ Len(z) = h + Len(y) /\ h \in Nat /\ Len(y) \in Nat
  BY Joined
<1>2. \A i \in 1..h : z[i] = x[i]
  OBVIOUS
<1>3. \A i \in 1..Len(y) : z[h + i] = y[i]
  OBVIOUS
<1> HIDE DEF z
<1>4. SubSeq(z, 1, h) = x
  <2>1. 1 \in 1..Len(z) + 1 /\ h \in 1 - 1..Len(z) /\ h - 1 + 1 = h
        /\ \A i \in 1..h : 1 + i - 1 = i
    BY <1>1
  <2>2. /\ SubSeq(z, 1, h) \in Seq(Nat) /\ Len(SubSeq(z, 1, h)) = h
        /\ \A i \in 1..h : SubSeq(z, 1, h)[i] = z[i]
    BY <1>1, <2>1, Part
  <2>3. QED
    BY <1>2, <2>2, SeqEqual
<1> HIDE DEF h
<1>5. /\ SubSeq(z, h + 1, h + n) \in Seq(Nat) /\ Len(SubSeq(z, h + 1, h + n)) = n
      /\ \A i \in 1..n : SubSeq(z, h + 1, h + n)[i] = y[i]
  <2>1. h + 1 \in 1..Len(z) + 1 /\ h + n \in (h + 1) - 1..Len(z)
        /\ (h + n) - (h + 1) + 1 = n
        /\ \A i \in 1..n : (h + 1) + i - 1 = h + i /\ i \in 1..Len(y)
    BY <1>1
  <2> DEFINE a == h + 1
             b == h + n
  <2>2. /\ a \in 1..Len(z) + 1 /\ b \in a - 1..Len(z) /\ b - a + 1 = n
        /\ \A i \in 1..n : a + i - 1 = h + i
    BY <2>1
  <2> HIDE DEF a, b
  <2>3. /\ SubSeq(z, a, b) \in Seq(Nat) /\ Len(SubSeq(z, a, b)) = b - a + 1
        /\ \A i \in 1..b - a + 1 : SubSeq(z, a, b)[i] = z[a + i - 1]
    BY <1>1, <2>2, Part
  <2>4. /\ SubSeq(z, a, b) \in Seq(Nat) /\ Len(SubSeq(z, a, b)) = n
        /\ \A i \in 1..n : SubSeq(z, a, b)[i] = z[h + i]
    BY <2>2, <2>3
  <2>5. QED
    BY <1>3, <2>1, <2>4 DEF a, b
<1>6. QED
  BY <1>4, <1>5 DEF z, h

\* The payload of the fragment of call c at offset j: padding is cut off again.
Payload(c, j) ==
    SubSeq(Octets(Packet(c, j)), HdrSize + 1, HdrSize + Size(c, j))

LEMMA PayloadRead ==
    ASSUME TxInv, NEW c \in Calls, NEW j \in Nat, j * Unit < Length(c)
    PROVE  /\ Payload(c, j) \in Seq(Nat) /\ Len(Payload(c, j)) = Size(c, j)
           /\ \A i \in 1..Size(c, j) :
                Payload(c, j)[i] = Datagram[c].data[j * Unit + i]
           /\ Packet(c, j).data \in Seq(Nat)
<1> DEFINE d == Datagram[c].data
           done == j * Unit
           n == Size(c, j)
           x == SubSeq(d, done + 1, done + n)
           m == Max({n, MinPayload})
           y == [i \in 1..m |-> IF i \in 1..n THEN x[i] ELSE 0]
<1>1. done \in Nat /\ n \in 1..Mtu /\ done + n <= Length(c)
  BY SizeIs
<1>2. d \in Seq(Nat) /\ Len(d) = Length(c) /\ Length(c) \in Nat
  BY DatagramIs
<1>3. Min({Len(d) - done, Mtu}) = n
  BY SizeIsMin
<1>4. x \in Seq(Nat) /\ Len(x) = n /\ \A i \in 1..n : x[i] = d[done + i]
  <2> HIDE DEF n, done, d
  <2>1. done + 1 \in 1..Len(d) + 1 /\ done + n \in (done + 1) - 1..Len(d)
        /\ (done + n) - (done + 1) + 1 = n
    BY <1>1, <1>2
  <2> DEFINE a == done + 1
             b == done + n
  <2>2. a \in 1..Len(d) + 1 /\ b \in a - 1..Len(d) /\ b - a + 1 = n
    BY <2>1
  <2>3. \A i \in 1..n : a + i - 1 = done + i
    BY <1>1
  <2>4. x = SubSeq(d, a, b)
    OBVIOUS
  <2> HIDE DEF a, b, x
  <2>5. /\ SubSeq(d, a, b) \in Seq(Nat) /\ Len(SubSeq(d, a, b)) = b - a + 1
        /\ \A i \in 1..b - a + 1 : SubSeq(d, a, b)[i] = d[a + i - 1]
    BY <1>2, <2>2, Part
  <2>6. QED
    BY <2>2, <2>3, <2>4, <2>5
<1>5. Packet(c, j).data = Padded(x)
  BY <1>3 DEF Packet, Fragment, ip_tx_core
<1> HIDE DEF n, done, d, x
<1>6. DOMAIN x = 1..n /\ n \in Nat
  BY <1>1, <1>4, Sizes
<1>7. Padded(x) = y
  BY <1>4, <1>6 DEF Padded
<1>8. m \in Nat /\ n <= m
  <2>1. m = IF n >= MinPayload THEN n ELSE MinPayload
    BY <1>6, Sizes, OfTwo
  <2> HIDE DEF m
  <2>2. QED
    BY <1>6, <2>1, Sizes
<1> HIDE DEF m
<1>9. \A i \in 1..n : x[i] \in Nat
  BY <1>4
<1>10. y \in [1..m -> Nat] /\ \A i \in 1..n : y[i] = x[i]
  BY <1>6, <1>8, <1>9
<1> HIDE DEF y
<1>11. y \in Seq(Nat) /\ Len(y) = m
  BY <1>8, <1>10, AsSequence
<1>12. Packet(c, j).hdr \in Seq(Nat) /\ Len(Packet(c, j).hdr) = HdrSize
  <2>1. Packet(c, j).hdr \in [1..9 -> Nat] /\ 9 \in Nat
    BY HeaderRead, TotalSmall
  <2>2. Packet(c, j).hdr \in Seq(Nat) /\ Len(Packet(c, j).hdr) = 9
    BY ONLY <2>1, AsSequence
  <2>3. QED
    BY <2>2, Sizes
<1>13. Payload(c, j) = SubSeq(Packet(c, j).hdr \o y, HdrSize + 1, HdrSize + n)
  BY <1>5, <1>7 DEF Payload, Octets, n
<1> DEFINE z == SubSeq(Packet(c, j).hdr \o y, HdrSize + 1, HdrSize + n)
<1>14. z \in Seq(Nat) /\ Len(z) = n /\ \A i \in 1..n : z[i] = y[i]
  <2>1. n \in 0..Len(y)
    BY <1>6, <1>8, <1>11
  <2> DEFINE a == Packet(c, j).hdr
  <2>2. a \in Seq(Nat) /\ Len(a) = HdrSize
    BY <1>12
  <2> HIDE DEF a
  <2>3. /\ SubSeq(a \o y, Len(a) + 1, Len(a) + n) \in Seq(Nat)
        /\ Len(SubSeq(a \o y, Len(a) + 1, Len(a) + n)) = n
        /\ \A i \in 1..n : SubSeq(a \o y, Len(a) + 1, Len(a) + n)[i] = y[i]
    <3>1. y \in Seq(Nat)
      BY <1>11
    <3>2. QED
      BY ONLY <2>1, <2>2, <3>1, Headed
  <2>4. QED
    BY <2>2, <2>3 DEF a
<1> HIDE DEF z
<1>15. \A i \in 1..n : z[i] = d[done + i]
  BY <1>4, <1>10, <1>14
<1>16. QED
  BY <1>5, <1>7, <1>11, <1>13, <1>14, <1>15 DEF n, done, d, z

\* A packet that passes the checks of ip_rx is as it was sent: an inverted bit
\* of the header length does not pass by IhlNoticed, any other one because the
\* checksum then covers the words it was computed over.
LEMMA ValidIntact ==
    ASSUME IhlNoticed, TxInv, NEW c \in Calls, NEW j \in Nat, j * Unit < Length(c),
           NEW q \in {Packet(c, j)} \cup Damaged(Packet(c, j)),
           Valid(q)
    PROVE  q = Packet(c, j)
<1> DEFINE p == Packet(c, j)
<1>1. p.hdr \in [1..9 -> Sums] /\ \E k \in 1..11 : Total(p.hdr) = k * (Modulus - 1)
  BY HeaderRead
<1>2. p = [hdr |-> p.hdr, data |-> p.data]
  BY DEF Packet, Fragment, ip_tx_core
<1>3. p.data \in Seq(Nat)
  BY PayloadRead
<1> HIDE DEF p
<1> SUFFICES ASSUME q \in Damaged(p) PROVE FALSE
  BY DEF p
<1>4. PICK i \in 1..9, b \in Bits : q = [p EXCEPT !.hdr[i] = Inverted(@, b)]
  BY <1>1 DEF Damaged
<1>5. q.hdr = [p.hdr EXCEPT ![i] = Inverted(@, b)] /\ q.data = p.data
  BY <1>2, <1>4
<1>6. cksum16(q.hdr) # 0
  BY <1>1, <1>5, OneBit
<1>7. Ihl(q) = HdrSize
  <2>1. tx[c].id \in 0..IdSpace - 1
    BY DEF TxInv, TxRecord
  <2>2. j \in 0..OffsetSpace - 1
    BY SizeIs, Sizes
  <2>3. q \in Damaged(Fragment(c, tx[c].id, j * Unit))
    BY DEF p, Packet
  <2>4. QED
    BY <2>1, <2>2, <2>3 DEF IhlNoticed
<1>8. SubSeq(Octets(q), 1, HdrSize) = q.hdr
  <2>1. q.hdr \in Seq(Nat) /\ Len(q.hdr) = 9
    <3>1. p.hdr \in [1..9 -> Nat] /\ Inverted(p.hdr[i], b) \in Nat
      BY <1>1, TotalSmall, InvertedBy DEF Sums
    <3>2. q.hdr \in [1..9 -> Nat] /\ 9 \in Nat
      BY <1>5, <3>1
    <3>3. QED
      BY ONLY <3>2, AsSequence
  <2>2. q.data \in Seq(Nat)
    BY <1>3, <1>5
  <2> DEFINE x == q.hdr
             y == q.data
  <2>3. x \in Seq(Nat) /\ y \in Seq(Nat) /\ Len(x) = HdrSize
    BY <2>1, <2>2, Sizes
  <2> HIDE DEF x, y
  <2>4. 0 \in 0..Len(y)
    BY <2>3
  <2>5. SubSeq(x \o y, 1, Len(x)) = x
    BY <2>3, <2>4, Headed
  <2>6. QED
    BY <2>3, <2>5 DEF Octets, x, y
<1>9. QED
  BY <1>6, <1>7, <1>8 DEF Valid

-----------------------------------------------------------------------------
(***************************************************************************)
(* The sending side: calls, ids and the network.                           *)
(***************************************************************************)
Of(s) == {c \in Calls : Started(c) /\ Datagram[c].src = s}

\* y is k behind x, in the order in which ip_generate_id hands out ids.
Ahead(x, k, y) == x + k = y \/ x + k = y + IdSpace

\* The ids in use are the last ones before the counter, so that none is used
\* twice before all are.
IdInv ==
    /\ id \in [Srcs -> 0..IdSpace - 1]
    /\ \A s \in Srcs :
         /\ \A c \in Of(s) : \E k \in 1..Cardinality(Of(s)) : Ahead(tx[c].id, k, id[s])
         /\ \A c \in Of(s), e \in Of(s) : tx[c].id = tx[e].id => c = e

NetInv ==
    \A p \in net : \E c \in Calls, j \in Nat :
        Started(c) /\ j * Unit < Length(c) /\ p = Packet(c, j)

\* A call that has begun keeps its id.
Keeps == \A c \in Calls : Started(c) => Started(c)' /\ tx'[c].id = tx[c].id

LEMMA NextIdIs ==
    ASSUME NEW x \in 0..IdSpace - 1
    PROVE  /\ NextId(x) \in 0..IdSpace - 1
           /\ NextId(x) = IF x + 1 < IdSpace THEN x + 1 ELSE 0
<1>1. IdSpace \in Nat \ {0}
  BY Sizes
<1>2. CASE x + 1 < IdSpace
  <2>1. x + 1 \in 0..IdSpace - 1
    BY <1>1, <1>2
  <2>2. (x + 1) % IdSpace = x + 1
    BY <1>1, <2>1, ModSmall
  <2>3. QED
    BY <1>2, <2>1, <2>2 DEF NextId
<1>3. CASE x + 1 = IdSpace
  <2>1. (1 * IdSpace + 0) % IdSpace = 0
    BY <1>1, DivUnique
  <2>2. 1 * IdSpace + 0 = x + 1
    BY <1>1, <1>3
  <2>3. QED
    BY <1>1, <1>3, <2>1, <2>2 DEF NextId
<1>4. QED
  BY <1>1, <1>2, <1>3

LEMMA StartTx ==
    ASSUME TxInv, IdInv, NEW c \in Calls, TxStart(c)
    PROVE  TxInv' /\ Keeps
<1> DEFINE s == Datagram[c].src
           t == [pc |-> "send", id |-> id[s], done |-> 0]
<1>1. tx' = [tx EXCEPT ![c] = t] /\ tx[c].pc = "ready"
  BY DEF TxStart
<1>2. s \in Srcs /\ 0 < Length(c) /\ 0 = 0 * Unit
  <2>1. s \in Srcs /\ Length(c) \in 1..MaxLen
    BY DatagramIs
  <2>2. QED
    BY <2>1, Sizes
<1>3. t \in TxRecord
  BY <1>2 DEF TxRecord, IdInv
<1>4. tx' \in [Calls -> TxRecord]
  BY <1>1, <1>3 DEF TxInv
<1>5. ASSUME NEW e \in Calls, tx'[e].pc = "send"
      PROVE  tx'[e].done < Length(e) /\ \E j \in Nat : tx'[e].done = j * Unit
  <2>1. CASE e = c
    <3>1. tx'[e].done = 0
      BY <1>1, <2>1 DEF TxInv
    <3>2. QED
      BY <1>2, <2>1, <3>1
  <2>2. CASE e # c
    BY <1>1, <1>5, <2>2 DEF TxInv
  <2>3. QED
    BY <2>1, <2>2
<1>6. Keeps
  BY <1>1 DEF Keeps, Started, TxInv
<1>7. QED
  BY <1>4, <1>5, <1>6 DEF TxInv, Length

LEMMA FragmentTx ==
    ASSUME TxInv, NEW c \in Calls, TxFragment(c)
    PROVE  /\ TxInv' /\ Keeps /\ Started(c)
           /\ \E j \in Nat : j * Unit < Length(c) /\ net' = net \cup {Packet(c, j)}
           /\ \A e \in Calls : Started(e)' = Started(e)
<1> DEFINE done == Min({Length(c), tx[c].done + Mtu})
           pc == IF done = Length(c) THEN "done" ELSE "send"
<1>1. tx' = [tx EXCEPT ![c].done = done, ![c].pc = pc] /\ tx[c].pc = "send"
      /\ net' = net \cup {Fragment(c, tx[c].id, tx[c].done)}
  BY DEF TxFragment
<1>2. PICK j \in Nat : tx[c].done = j * Unit
  BY <1>1 DEF TxInv
<1>3. tx[c].done < Length(c) /\ tx[c].done \in Nat /\ tx[c] \in TxRecord
  BY <1>1 DEF TxInv, TxRecord
<1>4. Length(c) \in Nat
  BY DatagramIs
<1>5. done = IF Length(c) <= tx[c].done + Mtu THEN Length(c) ELSE tx[c].done + Mtu
  <2>1. tx[c].done + Mtu \in Nat
    BY <1>3, Sizes
  <2>2. QED
    BY <1>4, <2>1, OfTwo
<1> HIDE DEF done
<1>6. done \in Nat /\ done <= Length(c)
  BY <1>3, <1>4, <1>5, Sizes
<1>7. pc = "send" => done < Length(c) /\ \E i \in Nat : done = i * Unit
  <2> SUFFICES ASSUME done # Length(c)
               PROVE  done < Length(c) /\ \E i \in Nat : done = i * Unit
    OBVIOUS
  <2>1. done = tx[c].done + Mtu
    BY <1>5
  <2> DEFINE m == Mtu \div Unit
  <2>2. m \in Nat /\ Mtu = m * Unit + (Mtu % Unit) /\ Mtu % Unit = 0
    BY IpAssumption, Sizes, DivMod
  <2> HIDE DEF m
  <2>3. m \in Nat /\ Mtu = m * Unit
    BY <2>2, Sizes
  <2>4. (j + m) * Unit = j * Unit + m * Unit
    BY <2>3, Sizes
  <2>5. j + m \in Nat /\ done = (j + m) * Unit
    BY <1>2, <2>1, <2>3, <2>4
  <2>6. QED
    BY <1>4, <1>6, <2>5
<1>8. pc \in {"send", "done"}
  OBVIOUS
<1> HIDE DEF pc
<1>9. tx'[c] = [tx[c] EXCEPT !.done = done, !.pc = pc]
      /\ \A e \in Calls : e # c => tx'[e] = tx[e]
  BY <1>1 DEF TxInv
<1>10. tx'[c] \in TxRecord /\ tx'[c].done = done /\ tx'[c].pc = pc
       /\ tx'[c].id = tx[c].id
  BY <1>3, <1>6, <1>8, <1>9 DEF TxRecord
<1>11. tx' \in [Calls -> TxRecord]
  <2>1. \A e \in Calls : tx'[e] \in TxRecord
    BY <1>9, <1>10 DEF TxInv
  <2>2. tx' = [e \in Calls |-> tx'[e]]
    BY <1>1 DEF TxInv
  <2>3. QED
    BY <2>1, <2>2
<1>12. ASSUME NEW e \in Calls, tx'[e].pc = "send"
       PROVE  tx'[e].done < Length(e) /\ \E i \in Nat : tx'[e].done = i * Unit
  <2>1. CASE e = c
    BY <1>7, <1>10, <1>12, <2>1
  <2>2. CASE e # c
    BY <1>9, <1>12, <2>2 DEF TxInv
  <2>3. QED
    BY <2>1, <2>2
<1>13. TxInv'
  BY <1>11, <1>12 DEF TxInv, Length
<1>14. Keeps /\ Started(c) /\ \A e \in Calls : Started(e)' = Started(e)
  BY <1>1, <1>8, <1>9, <1>10 DEF Keeps, Started
<1>15. QED
  BY <1>1, <1>2, <1>3, <1>13, <1>14 DEF Packet

LEMMA OfSmall ==
    ASSUME NEW s
    PROVE  /\ IsFiniteSet(Of(s)) /\ Cardinality(Of(s)) \in Nat
           /\ Cardinality(Of(s)) < IdSpace
<1>1. Of(s) \in SUBSET Calls /\ IsFiniteSet(Calls) /\ Cardinality(Calls) < IdSpace
  BY IpAssumption DEF Of
<1>2. IsFiniteSet(Of(s)) /\ Cardinality(Of(s)) <= Cardinality(Calls)
  BY <1>1, FS_Subset
<1>3. Cardinality(Of(s)) \in Nat /\ Cardinality(Calls) \in Nat
  BY <1>1, <1>2, FS_CardinalityType
<1>4. QED
  BY <1>1, <1>2, <1>3, Sizes

\* The counter moves on by one: old ids are one further behind, the new one is
\* next to it, and it was none of the old ones.
LEMMA AheadNext ==
    ASSUME NEW x \in 0..IdSpace - 1, NEW y \in 0..IdSpace - 1,
           NEW k \in Nat, 1 <= k, k + 1 < IdSpace, Ahead(x, k, y)
    PROVE  Ahead(x, k + 1, NextId(y)) /\ x # y
<1>1. IdSpace \in Nat
  BY Sizes
<1>2. NextId(y) = IF y + 1 < IdSpace THEN y + 1 ELSE 0
  BY NextIdIs
<1>3. QED
  BY <1>1, <1>2 DEF Ahead

LEMMA StartId ==
    ASSUME TxInv, IdInv, NEW c \in Calls, TxStart(c)
    PROVE  IdInv'
<1> DEFINE s0 == Datagram[c].src
           y == id[s0]
<1>1. /\ tx' = [tx EXCEPT ![c] = [pc |-> "send", id |-> y, done |-> 0]]
      /\ tx[c].pc = "ready" /\ id' = [id EXCEPT ![s0] = NextId(y)]
  BY DEF TxStart
<1>2. s0 \in Srcs /\ y \in 0..IdSpace - 1
  BY DatagramIs DEF IdInv
<1>3. NextId(y) \in 0..IdSpace - 1
  BY <1>2, NextIdIs
<1>4. id' \in [Srcs -> 0..IdSpace - 1] /\ id'[s0] = NextId(y)
      /\ \A s \in Srcs : s # s0 => id'[s] = id[s]
  BY <1>1, <1>2, <1>3 DEF IdInv
<1>5. /\ tx'[c].id = y /\ tx'[c].pc = "send"
      /\ \A e \in Calls : e # c => tx'[e] = tx[e]
  BY <1>1 DEF TxInv
<1>6. \A s : s # s0 => Of(s)' = Of(s)
  BY <1>5 DEF Of, Started
<1>7. Of(s0)' = Of(s0) \cup {c} /\ c \notin Of(s0)
  BY <1>1, <1>5 DEF Of, Started
<1>8. IsFiniteSet(Of(s0)) /\ Cardinality(Of(s0)) \in Nat
      /\ Cardinality(Of(s0)') = Cardinality(Of(s0)) + 1
      /\ Cardinality(Of(s0)') < IdSpace
  <2>1. IsFiniteSet(Of(s0)) /\ Cardinality(Of(s0)) \in Nat
    BY OfSmall
  <2>2. Cardinality(Of(s0) \cup {c}) = Cardinality(Of(s0)) + 1
    BY <1>7, <2>1, FS_AddElement
  <2>3. Of(s0)' \in SUBSET Calls /\ IsFiniteSet(Calls) /\ Cardinality(Calls) < IdSpace
    BY IpAssumption DEF Of
  <2>4. Cardinality(Of(s0)') <= Cardinality(Calls)
    BY <2>3, FS_Subset
  <2>5. Cardinality(Calls) \in Nat
    BY <2>3, FS_CardinalityType
  <2>6. QED
    BY <1>7, <2>1, <2>2, <2>3, <2>4, <2>5, Sizes
<1> DEFINE n == Cardinality(Of(s0))
<1>9. ASSUME NEW e \in Of(s0)
      PROVE  /\ tx'[e].id = tx[e].id /\ tx[e].id # y
             /\ \E k \in 1..n + 1 : Ahead(tx[e].id, k, NextId(y))
  <2>1. PICK k \in 1..n : Ahead(tx[e].id, k, y)
    BY <1>2 DEF IdInv
  <2>2. tx[e].id \in 0..IdSpace - 1 /\ e \in Calls /\ e # c
    BY <1>7 DEF TxInv, TxRecord, Of
  <2>3. k \in Nat /\ 1 <= k /\ k + 1 < IdSpace /\ k + 1 \in 1..n + 1
    BY <1>7, <1>8, Sizes
  <2>4. Ahead(tx[e].id, k + 1, NextId(y)) /\ tx[e].id # y
    BY <1>2, <2>1, <2>2, <2>3, AheadNext
  <2>5. QED
    BY <1>5, <2>2, <2>3, <2>4
<1>10. Ahead(y, 1, NextId(y)) /\ 1 \in 1..n + 1
  <2>1. NextId(y) = IF y + 1 < IdSpace THEN y + 1 ELSE 0
    BY <1>2, NextIdIs
  <2>2. QED
    BY <1>2, <1>8, <2>1, Sizes DEF Ahead
<1>11. Cardinality(Of(s0)') = n + 1
  BY <1>8
<1> HIDE DEF n, y, s0
<1>12. ASSUME NEW s \in Srcs
       PROVE  /\ \A e \in Of(s)' : \E k \in 1..Cardinality(Of(s)') :
                    Ahead(tx'[e].id, k, id'[s])
              /\ \A e \in Of(s)', g \in Of(s)' : tx'[e].id = tx'[g].id => e = g
  <2>1. CASE s = s0
    <3>1. ASSUME NEW e \in Of(s)'
          PROVE  \E k \in 1..Cardinality(Of(s)') : Ahead(tx'[e].id, k, id'[s])
      <4>1. CASE e = c
        BY <1>4, <1>5, <1>10, <1>11, <2>1, <4>1
      <4>2. CASE e \in Of(s0)
        BY <1>4, <1>9, <1>11, <2>1, <4>2
      <4>3. QED
        BY <1>7, <2>1, <3>1, <4>1, <4>2
    <3>2. ASSUME NEW e \in Of(s)', NEW g \in Of(s)', tx'[e].id = tx'[g].id
          PROVE  e = g
      <4>1. e \in Of(s0) \cup {c} /\ g \in Of(s0) \cup {c}
        BY <1>7, <2>1
      <4>2. CASE e \in Of(s0) /\ g \in Of(s0)
        BY <1>2, <1>9, <3>2, <4>2 DEF IdInv
      <4>3. CASE e = c \/ g = c
        BY <1>5, <1>9, <3>2, <4>1, <4>3
      <4>4. QED
        BY <4>1, <4>2, <4>3
    <3>3. QED
      BY <3>1, <3>2
  <2>2. CASE s # s0
    <3>1. Of(s)' = Of(s) /\ id'[s] = id[s]
      BY <1>4, <1>6, <2>2
    <3>2. \A e \in Of(s) : tx'[e] = tx[e]
      <4>1. c \notin Of(s)
        BY <2>2 DEF Of, s0
      <4>2. QED
        BY <1>5, <4>1 DEF Of
    <3>3. QED
      BY <3>1, <3>2 DEF IdInv
  <2>3. QED
    BY <2>1, <2>2
<1>13. QED
  BY <1>4, <1>12 DEF IdInv

SendInv == TxInv /\ IdInv /\ NetInv

LEMMA FragmentKept ==
    ASSUME Keeps, NEW c \in Calls, Started(c), NEW j
    PROVE  Started(c)' /\ Packet(c, j)' = Packet(c, j)
  BY DEF Keeps, Packet, Fragment, ip_tx_core, Header, Padded

LEMMA NetKept ==
    ASSUME NetInv, Keeps
    PROVE  /\ net' = net => NetInv'
           /\ \A c \in Calls, j \in Nat :
                Started(c) /\ j * Unit < Length(c)
                  /\ net' = net \cup {Packet(c, j)} => NetInv'
<1>1. ASSUME NEW p \in net
      PROVE  \E c \in Calls, j \in Nat :
               Started(c)' /\ j * Unit < Length(c) /\ p = Packet(c, j)'
  <2>1. PICK c \in Calls, j \in Nat :
          Started(c) /\ j * Unit < Length(c) /\ p = Packet(c, j)
    BY DEF NetInv
  <2>2. Started(c)' /\ Packet(c, j)' = Packet(c, j)
    BY <2>1, FragmentKept
  <2>3. QED
    BY <2>1, <2>2
<1>2. net' = net => NetInv'
  BY <1>1 DEF NetInv, Length
<1>3. ASSUME NEW c \in Calls, NEW j \in Nat, Started(c), j * Unit < Length(c),
             net' = net \cup {Packet(c, j)}
      PROVE  NetInv'
  <2>1. Started(c)' /\ Packet(c, j)' = Packet(c, j)
    BY <1>3, FragmentKept
  <2>2. QED
    BY <1>1, <1>3, <2>1 DEF NetInv, Length
<1>4. QED
  BY <1>2, <1>3

\* As long as the calls that have begun are the same, so are their ids.
LEMMA IdKept ==
    ASSUME IdInv, Keeps, \A e \in Calls : Started(e)' = Started(e), id' = id
    PROVE  IdInv'
<1>1. ASSUME NEW s \in Srcs
      PROVE  Of(s)' = Of(s) /\ \A c \in Of(s) : tx'[c].id = tx[c].id
  BY DEF Of, Keeps
<1>2. QED
  BY <1>1 DEF IdInv

LEMMA SendStep ==
    ASSUME SendInv, [Next]_vars
    PROVE  SendInv' /\ Keeps
<1> USE DEF SendInv
<1>1. ASSUME NEW c \in Calls, TxStart(c) PROVE SendInv' /\ Keeps
  <2>1. net' = net
    BY <1>1 DEF TxStart
  <2>2. QED
    BY <1>1, <2>1, StartTx, StartId, NetKept
<1>2. ASSUME NEW c \in Calls, TxFragment(c) PROVE SendInv' /\ Keeps
  <2>1. TxInv' /\ Keeps /\ Started(c) /\ \A e \in Calls : Started(e)' = Started(e)
    BY <1>2, FragmentTx
  <2>2. PICK j \in Nat : j * Unit < Length(c) /\ net' = net \cup {Packet(c, j)}
    BY <1>2, FragmentTx
  <2>3. id' = id
    BY <1>2 DEF TxFragment
  <2>4. IdInv'
    BY <2>1, <2>3, IdKept
  <2>5. NetInv'
    BY <2>1, <2>2, NetKept
  <2>6. QED
    BY <2>1, <2>4, <2>5
<1>3. ASSUME NEW c \in Calls, TxFail(c) PROVE SendInv' /\ Keeps
  <2>1. tx' = [tx EXCEPT ![c].pc = "done"] /\ tx[c].pc = "send" /\ id' = id /\ net' = net
    BY <1>3 DEF TxFail
  <2>2. /\ tx'[c] = [tx[c] EXCEPT !.pc = "done"] /\ tx[c] \in TxRecord
        /\ \A e \in Calls : e # c => tx'[e] = tx[e]
    BY <2>1 DEF TxInv
  <2>3. tx'[c] \in TxRecord /\ tx'[c].id = tx[c].id /\ tx'[c].pc = "done"
    BY <2>2 DEF TxRecord
  <2>4. tx' \in [Calls -> TxRecord]
    <3>1. \A e \in Calls : tx'[e] \in TxRecord
      BY <2>2, <2>3 DEF TxInv
    <3>2. tx' = [e \in Calls |-> tx'[e]]
      BY <2>1 DEF TxInv
    <3>3. QED
      BY <3>1, <3>2
  <2>5. TxInv'
    <3>1. ASSUME NEW e \in Calls, tx'[e].pc = "send"
          PROVE  tx'[e].done < Length(e) /\ \E j \in Nat : tx'[e].done = j * Unit
      <4>1. e # c
        BY <2>3, <3>1
      <4>2. tx'[e] = tx[e]
        BY <2>2, <4>1
      <4>3. QED
        BY <3>1, <4>2 DEF TxInv
    <3>2. QED
      BY <2>4, <3>1 DEF TxInv, Length
  <2>6. Keeps /\ \A e \in Calls : Started(e)' = Started(e)
    BY <2>1, <2>2, <2>3 DEF Keeps, Started
  <2>7. QED
    BY <2>1, <2>5, <2>6, IdKept, NetKept
<1>4. ASSUME UNCHANGED <<id, tx, net>> PROVE SendInv' /\ Keeps
  <2>1. Keeps /\ (\A e \in Calls : Started(e)' = Started(e)) /\ TxInv'
    BY <1>4 DEF Keeps, Started, TxInv, Length
  <2>2. QED
    BY <1>4, <2>1, IdKept, NetKept
<1>5. (\E p \in net : Rx(p)) \/ Tick \/ UNCHANGED vars => UNCHANGED <<id, tx, net>>
  BY DEF Rx, Tick, vars
<1>6. QED
  BY <1>1, <1>2, <1>3, <1>4, <1>5 DEF Next

LEMMA SendInit == Init => SendInv
<1> SUFFICES ASSUME Init PROVE SendInv
  OBVIOUS
<1>1. \A c \in Calls : tx[c] = [pc |-> "ready", id |-> 0, done |-> 0]
  BY DEF Init
<1>2. tx \in [Calls -> TxRecord]
  BY Sizes DEF Init, TxRecord
<1>3. \A s : Of(s) = {}
  BY <1>1 DEF Of, Started
<1>4. FirstId % IdSpace \in 0..IdSpace - 1
  BY Sizes, DivMod
<1>5. QED
  BY <1>1, <1>2, <1>3, <1>4 DEF Init, SendInv, TxInv, IdInv, NetInv

-----------------------------------------------------------------------------
(***************************************************************************)
(* The receiving side: an entry is for one call, and has of its datagram   *)
(* what its mask says.                                                     *)
(***************************************************************************)
Entry ==
    [src : Sums, dst : Sums, id : 0..IdSpace - 1, proto : Sums, len : 0..MaxLen,
     data : [1..MaxLen -> Nat], mask : Masks, age : 0..IP_FRAGMENT_TIMEOUT_SEC + 1]

For(c, f) ==
    /\ Started(c)
    /\ f.src = Datagram[c].src /\ f.dst = Datagram[c].dst
    /\ f.proto = Datagram[c].proto /\ f.id = tx[c].id
    /\ f.len \in {0, Length(c)}
    /\ \A o \in 0..MaxLen - 1 :
         Bit(f.mask, o) => o < Length(c) /\ f.data[o + 1] = Datagram[c].data[o + 1]

Missing(f) == f.len = 0 \/ \E o \in 0..f.len - 1 : ~Bit(f.mask, o)

Kept == {f \in Entry : Missing(f) /\ \E c \in Calls : For(c, f)}

ListInv ==
    /\ fragments \in Seq(Kept)
    /\ count \in Nat /\ ListBounded
    /\ undefined \in BOOLEAN

LEMMA KeptStays ==
    ASSUME Keeps
    PROVE  Kept \subseteq Kept' /\ Seq(Kept) \subseteq Seq(Kept')
<1>1. ASSUME NEW f \in Kept PROVE f \in Kept'
  <2>1. PICK c \in Calls : For(c, f)
    BY DEF Kept
  <2>2. For(c, f)'
    BY <2>1 DEF For, Keeps, Length, Bit
  <2>3. QED
    BY <2>2 DEF Kept, Entry, Missing, Masks, Sums, Bit
<1>2. QED
  BY <1>1, SeqSubset

\* Source and id name the call.
LEMMA OneCall ==
    ASSUME IdInv, NEW c \in Calls, NEW e \in Calls, Started(c), Started(e),
           Datagram[c].src = Datagram[e].src, tx[c].id = tx[e].id
    PROVE  c = e
<1>1. Datagram[c].src \in Srcs
  BY DatagramIs
<1>2. c \in Of(Datagram[c].src) /\ e \in Of(Datagram[c].src)
  BY DEF Of
<1>3. QED
  BY <1>1, <1>2 DEF IdInv

\* A new entry has nothing.
LEMMA Allocated ==
    ASSUME TxInv, NEW c \in Calls, NEW j \in Nat, Started(c)
    PROVE  /\ ip_fragment_alloc(Read(c, j)) \in Kept
           /\ For(c, ip_fragment_alloc(Read(c, j)))
<1> DEFINE h == Read(c, j)
           f == ip_fragment_alloc(h)
           zero == [i \in 1..MaxLen |-> 0]
<1>1. /\ h.src = Datagram[c].src /\ h.dst = Datagram[c].dst
      /\ h.proto = Datagram[c].proto /\ h.id = tx[c].id
  BY DEF Read
<1> HIDE DEF h
<1>2. /\ f.src = h.src /\ f.dst = h.dst /\ f.id = h.id /\ f.proto = h.proto
      /\ f.len = 0 /\ f.data = zero /\ f.mask = maskclr /\ f.age = 0
      /\ f = [src |-> f.src, dst |-> f.dst, id |-> f.id, proto |-> f.proto,
              len |-> f.len, data |-> f.data, mask |-> f.mask, age |-> f.age]
  BY DEF ip_fragment_alloc
<1> HIDE DEF f
<1>3. /\ Datagram[c].src \in Sums /\ Datagram[c].dst \in Sums
      /\ Datagram[c].proto \in Sums
  BY DatagramIs
<1>4. tx[c].id \in 0..IdSpace - 1
  BY DEF TxInv, TxRecord
<1>5. maskclr \in Masks /\ zero \in [1..MaxLen -> Nat]
  BY DEF maskclr, Masks
<1> HIDE DEF zero
<1>6. 0 \in 0..MaxLen /\ 0 \in 0..IP_FRAGMENT_TIMEOUT_SEC + 1
  BY Sizes
<1>7. f \in Entry
  BY <1>1, <1>2, <1>3, <1>4, <1>5, <1>6 DEF Entry
<1>8. ASSUME NEW o \in 0..MaxLen - 1 PROVE ~Bit(f.mask, o)
  BY <1>2, BitPlace DEF Bit, maskclr
<1>9. For(c, f)
  BY <1>1, <1>2, <1>8 DEF For
<1>10. QED
  BY <1>2, <1>7, <1>9 DEF Kept, Missing, f, h

LEMMA CopiedFields ==
    ASSUME NEW f \in Entry, NEW h, NEW payload
    PROVE  LET g   == Copied(f, h, payload)
               off == h.offset * Unit
               end == off + Len(payload)
           IN  /\ g.src = f.src /\ g.dst = f.dst /\ g.id = f.id /\ g.proto = f.proto
               /\ g.data = [i \in 1..MaxLen |-> IF i \in off + 1..end
                                                THEN payload[i - off] ELSE f.data[i]]
               /\ g.mask = maskset(f.mask, off, Len(payload))
               /\ g.len = IF h.more THEN f.len ELSE end
               /\ g.age = 0
               /\ g = [src |-> g.src, dst |-> g.dst, id |-> g.id, proto |-> g.proto,
                       len |-> g.len, data |-> g.data, mask |-> g.mask, age |-> g.age]
<1> DEFINE off == h.offset * Unit
           end == off + Len(payload)
           D == [i \in 1..MaxLen |-> IF i \in off + 1..end
                                     THEN payload[i - off] ELSE f.data[i]]
           M == maskset(f.mask, off, Len(payload))
           L == IF h.more THEN f.len ELSE end
           g == [f EXCEPT !.data = D, !.mask = M, !.len = L, !.age = 0]
<1>1. Copied(f, h, payload) = g
  BY DEF Copied
<1> HIDE DEF D, M, L
<1> DEFINE r == [src |-> f.src, dst |-> f.dst, id |-> f.id, proto |-> f.proto,
                 len |-> L, data |-> D, mask |-> M, age |-> 0]
<1>2. g = r
  <2> DEFINE g1 == [f EXCEPT !.data = D]
             g2 == [g1 EXCEPT !.mask = M]
             g3 == [g2 EXCEPT !.len = L]
             g4 == [g3 EXCEPT !.age = 0]
             Rec(len, data, mask, age) ==
               [src |-> f.src, dst |-> f.dst, id |-> f.id, proto |-> f.proto,
                len |-> len, data |-> data, mask |-> mask, age |-> age]
  <2>1. g = g4
    OBVIOUS
  <2>2. g1 = Rec(f.len, D, f.mask, f.age)
    BY DEF Entry
  <2> HIDE DEF g1
  <2>3. g2 = Rec(f.len, D, M, f.age)
    BY <2>2
  <2> HIDE DEF g2
  <2>4. g3 = Rec(L, D, M, f.age)
    BY <2>3
  <2> HIDE DEF g3
  <2>5. g4 = r
    BY <2>4
  <2>6. QED
    BY <2>1, <2>5
<1> HIDE DEF g
<1>3. QED
  BY <1>1, <1>2 DEF D, M, L

\* Copying a fragment of the call an entry is for keeps it one.
LEMMA CopiedFor ==
    ASSUME TxInv, NEW c \in Calls, NEW j \in Nat, j * Unit < Length(c),
           NEW f \in Entry, For(c, f)
    PROVE  /\ Copied(f, Read(c, j), Payload(c, j)) \in Entry
           /\ For(c, Copied(f, Read(c, j), Payload(c, j)))
<1> DEFINE h == Read(c, j)
           off == j * Unit
           n == Size(c, j)
           p == Payload(c, j)
           d == Datagram[c].data
           g == Copied(f, h, p)
<1>1. h.offset = j /\ (h.more <=> ~Final(c, j))
  BY DEF Read
<1>2. off \in Nat /\ n \in 1..Mtu /\ n \in Nat /\ off + n <= Length(c)
  BY SizeIs, Sizes
<1>3. /\ p \in Seq(Nat) /\ Len(p) = n
      /\ \A i \in 1..n : p[i] = d[off + i] /\ p[i] \in Nat
  BY PayloadRead
<1>4. Length(c) \in 1..MaxLen /\ Length(c) \in Nat /\ MaxLen \in Nat
  BY DatagramIs, Sizes
<1>5. Final(c, j) <=> off + n = Length(c)
  BY DEF Final
<1> HIDE DEF h, p
<1>6. /\ g.src = f.src /\ g.dst = f.dst /\ g.id = f.id /\ g.proto = f.proto
      /\ g.data = [i \in 1..MaxLen |-> IF i \in off + 1..off + n
                                       THEN p[i - off] ELSE f.data[i]]
      /\ g.mask = maskset(f.mask, off, n)
      /\ g.len = IF h.more THEN f.len ELSE off + n
      /\ g.age = 0
      /\ g = [src |-> g.src, dst |-> g.dst, id |-> g.id, proto |-> g.proto,
              len |-> g.len, data |-> g.data, mask |-> g.mask, age |-> g.age]
  BY <1>1, <1>3, CopiedFields
<1> HIDE DEF g, off, n, d
<1>7. /\ f.src \in Sums /\ f.dst \in Sums /\ f.id \in 0..IdSpace - 1 /\ f.proto \in Sums
      /\ f.len \in 0..MaxLen /\ f.data \in [1..MaxLen -> Nat] /\ f.mask \in Masks
  BY DEF Entry
<1>8. g.len \in {0, Length(c)} /\ g.len \in 0..MaxLen
  BY <1>1, <1>4, <1>5, <1>6 DEF For
<1>9. g.mask \in Masks
      /\ \A o \in 0..MaxLen - 1 :
           Bit(g.mask, o) <=> Bit(f.mask, o) \/ (off <= o /\ o < off + n)
  <2>1. f.mask \in Masks /\ off \in Nat /\ n \in Nat /\ g.mask = maskset(f.mask, off, n)
    BY <1>2, <1>6, <1>7
  <2>2. maskset(f.mask, off, n) \in Masks
        /\ \A o \in 0..MaxLen - 1 : Bit(maskset(f.mask, off, n), o) <=>
             Bit(f.mask, o) \/ (off <= o /\ o < off + n)
    BY <2>1, MaskSet
  <2>3. QED
    BY <2>1, <2>2
<1>10. ASSUME NEW i \in 1..MaxLen
       PROVE  /\ g.data[i] \in Nat
              /\ i \in off + 1..off + n => g.data[i] = d[i]
              /\ i \notin off + 1..off + n => g.data[i] = f.data[i]
  <2>1. g.data[i] = IF i \in off + 1..off + n THEN p[i - off] ELSE f.data[i]
    BY <1>6
  <2>2. ASSUME i \in off + 1..off + n PROVE p[i - off] = d[i] /\ p[i - off] \in Nat
    <3>1. i - off \in 1..n /\ off + (i - off) = i
      BY <1>2, <2>2
    <3>2. QED
      BY <1>3, <3>1
  <2>3. f.data[i] \in Nat
    BY <1>7
  <2>4. QED
    BY <2>1, <2>2, <2>3
<1>11. g.data \in [1..MaxLen -> Nat]
  BY <1>6, <1>10
<1>12. 0 \in 0..IP_FRAGMENT_TIMEOUT_SEC + 1
  BY Sizes
<1>13. g \in Entry
  BY <1>6, <1>7, <1>8, <1>9, <1>11, <1>12 DEF Entry
<1>14. ASSUME NEW o \in 0..MaxLen - 1, Bit(g.mask, o)
       PROVE  o < Length(c) /\ g.data[o + 1] = d[o + 1]
  <2>1. o + 1 \in 1..MaxLen /\ o \in Nat
    BY <1>4
  <2>2. CASE off <= o /\ o < off + n
    <3>1. o + 1 \in off + 1..off + n /\ o < Length(c)
      BY <1>2, <1>4, <2>1, <2>2
    <3>2. QED
      BY <1>10, <2>1, <3>1
  <2>3. CASE ~(off <= o /\ o < off + n)
    <3>1. Bit(f.mask, o)
      BY <1>9, <1>14, <2>3
    <3>2. o < Length(c) /\ f.data[o + 1] = d[o + 1]
      BY <3>1 DEF For, d
    <3>3. o + 1 \notin off + 1..off + n
      BY <1>2, <2>1, <2>3
    <3>4. QED
      BY <1>10, <2>1, <3>2, <3>3
  <2>4. QED
    BY <2>2, <2>3
<1>15. For(c, g)
  BY <1>6, <1>8, <1>14 DEF For, d
<1>16. QED
  BY <1>13, <1>15 DEF g, h, p

\* An entry that is complete holds the whole datagram and nothing else; one
\* that is not misses an octet.
LEMMA CompleteIs ==
    ASSUME NEW c \in Calls, NEW f \in Entry, For(c, f)
    PROVE  /\ Complete(f) => SubSeq(f.data, 1, f.len) = Datagram[c].data
           /\ ~Complete(f) => f \in Kept
<1>1. f.len \in 0..MaxLen /\ f.mask \in Masks /\ f.data \in [1..MaxLen -> Nat]
  BY DEF Entry
<1>2. MaxLen \in Nat
  BY Sizes
<1>3. Complete(f) <=> f.len # 0 /\ \A o \in 0..f.len - 1 : Bit(f.mask, o)
  BY <1>1, MaskChk DEF Complete
<1>4. ~Complete(f) => f \in Kept
  BY <1>3 DEF Kept, Missing
<1>5. ASSUME Complete(f) PROVE SubSeq(f.data, 1, f.len) = Datagram[c].data
  <2> DEFINE n == f.len
             x == f.data
             d == Datagram[c].data
             y == SubSeq(x, 1, n)
  <2>1. n = Length(c) /\ n \in 1..MaxLen /\ n \in Nat
    BY <1>3, <1>5, DatagramIs DEF For
  <2>2. d \in Seq(Nat) /\ Len(d) = n
    BY <2>1, DatagramIs
  <2>3. ASSUME NEW i \in 1..n PROVE x[i] = d[i]
    <3>1. i - 1 \in 0..n - 1 /\ i - 1 \in 0..MaxLen - 1 /\ (i - 1) + 1 = i
      BY <1>2, <2>1
    <3>2. Bit(f.mask, i - 1)
      BY <1>3, <1>5, <3>1
    <3>3. x[(i - 1) + 1] = d[(i - 1) + 1]
      BY <3>1, <3>2 DEF For
    <3>4. QED
      BY <3>1, <3>3
  <2>4. x \in Seq(Nat) /\ Len(x) = MaxLen
    BY <1>1, <1>2, AsSequence
  <2> HIDE DEF n, x, d
  <2>5. y \in Seq(Nat) /\ Len(y) = n /\ \A i \in 1..n : y[i] = x[i]
    <3>1. 1 \in 1..Len(x) + 1 /\ n \in 1 - 1..Len(x) /\ n - 1 + 1 = n
          /\ \A i \in 1..n : 1 + i - 1 = i
      BY <1>2, <2>1, <2>4
    <3>2. QED
      BY <2>4, <3>1, Part
  <2>6. y = d
    BY <2>2, <2>3, <2>5, SeqEqual
  <2>7. QED
    BY <2>6 DEF n, x, d
<1>6. QED
  BY <1>4, <1>5

\* What a step may do to the handlers: nothing, or one call with c's datagram.
Delivers(c) ==
    \/ delivered' = delivered
    \/ delivered' = delivered \cup {Datagram[c]}

LEMMA HandledIs ==
    ASSUME NEW c \in Calls, NEW j, NEW data, data = Datagram[c].data,
           delivered' = Handled(Read(c, j), data)
    PROVE  Delivers(c)
<1>1. Datagram[c] = [src |-> Datagram[c].src, dst |-> Datagram[c].dst,
                     proto |-> Datagram[c].proto, data |-> Datagram[c].data]
  BY DatagramIs
<1>2. /\ Read(c, j).src = Datagram[c].src /\ Read(c, j).dst = Datagram[c].dst
      /\ Read(c, j).proto = Datagram[c].proto
  BY DEF Read
<1>3. QED
  BY <1>1, <1>2 DEF Delivers, Handled

\* The entry of a call takes one of its fragments.
LEMMA StoreStep ==
    ASSUME TxInv, NEW list \in Seq(Kept), NEW i \in 1..Len(list), NEW n \in Nat,
           NEW c \in Calls, NEW j \in Nat, j * Unit < Length(c), For(c, list[i]),
           Store(list, i, n, Read(c, j), Payload(c, j))
    PROVE  /\ fragments' \in Seq(Kept) /\ Delivers(c)
           /\ \/ Len(fragments') = Len(list) /\ count' = n
              \/ Len(fragments') = Len(list) - 1 /\ count' = n - 1
<1> DEFINE h == Read(c, j)
           p == Payload(c, j)
           f == Copied(list[i], h, p)
<1>1. list[i] \in Entry
  BY DEF Kept
<1>2. f \in Entry /\ For(c, f)
  BY <1>1, CopiedFor
<1>3. /\ Complete(f) => SubSeq(f.data, 1, f.len) = Datagram[c].data
      /\ ~Complete(f) => f \in Kept
  BY <1>2, CompleteIs
<1>4. CASE Complete(f)
  <2>1. /\ fragments' = RemoveAt(list, i) /\ count' = n - 1
        /\ delivered' = Handled(h, SubSeq(f.data, 1, f.len))
    BY <1>4 DEF Store
  <2> HIDE DEF f
  <2>2. Delivers(c)
    BY <1>3, <1>4, <2>1, HandledIs
  <2>3. QED
    BY <2>1, <2>2, Removed
<1>5. CASE ~Complete(f)
  <2>1. fragments' = [list EXCEPT ![i] = f] /\ count' = n /\ delivered' = delivered
    BY <1>5 DEF Store
  <2> HIDE DEF f
  <2>2. QED
    BY <1>3, <1>5, <2>1, Replaced DEF Delivers
<1>6. QED
  BY <1>4, <1>5

\* Unless memory that was freed is used, the patrol leaves a list of entries.
LEMMA Patrolled ==
    ASSUME fragments \in Seq(Kept)
    PROVE  /\ ip_fragment_patrol(fragments) \in Seq(Kept)
           /\ Len(ip_fragment_patrol(fragments)) \in Nat
           /\ Len(ip_fragment_patrol(fragments)) <= Len(fragments)
<1>1. Len(fragments) \in Nat
  OBVIOUS
<1>2. CASE Expired(fragments) = {}
  BY <1>1, <1>2 DEF ip_fragment_patrol
<1>3. CASE Expired(fragments) # {}
  <2>1. fragments # <<>>
    BY <1>3 DEF Expired
  <2>2. Len(fragments) # 0
    BY <2>1
  <2>3. Front(fragments) \in Seq(Kept) /\ Len(Front(fragments)) = Len(fragments) - 1
    BY <2>1, FrontOf
  <2>4. QED
    BY <1>1, <1>3, <2>2, <2>3 DEF ip_fragment_patrol
<1>4. QED
  BY <1>2, <1>3

\* The entry that is found is the one of the fragment's call.
LEMMA FoundFor ==
    ASSUME IdInv, NEW list \in Seq(Kept), NEW c \in Calls, Started(c), NEW j,
           Found(list, Read(c, j)) # {}
    PROVE  /\ Min(Found(list, Read(c, j))) \in 1..Len(list)
           /\ For(c, list[Min(Found(list, Read(c, j)))])
<1> DEFINE at == Found(list, Read(c, j))
           i == Min(at)
<1>1. at \subseteq 1..Len(list) /\ at \subseteq Nat
  BY DEF Found
<1>2. i \in at
  BY <1>1, LeastOf
<1>3. i \in 1..Len(list) /\ SameDatagram(Read(c, j), list[i])
  BY <1>1, <1>2 DEF Found
<1> HIDE DEF i, at
<1>4. list[i] \in Kept
  BY <1>3
<1>5. PICK e \in Calls : For(e, list[i])
  BY <1>4 DEF Kept
<1>6. Datagram[e].src = Datagram[c].src /\ tx[e].id = tx[c].id /\ Started(e)
  BY <1>3, <1>5 DEF For, SameDatagram, Read
<1>7. e = c
  BY <1>6, OneCall
<1>8. QED
  BY <1>3, <1>5, <1>7 DEF i, at

LEMMA ProcessStep ==
    ASSUME TxInv, IdInv, ListInv, NEW c \in Calls, Started(c), NEW j \in Nat,
           j * Unit < Length(c), ip_fragment_process(Read(c, j), Payload(c, j))
    PROVE  /\ fragments' \in Seq(Kept) /\ Delivers(c)
           /\ count' \in Nat /\ ListBounded' /\ undefined' \in BOOLEAN
<1> DEFINE h == Read(c, j)
           p == Payload(c, j)
           list == ip_fragment_patrol(fragments)
           at == Found(list, h)
<1>1. /\ fragments \in Seq(Kept) /\ Len(fragments) \in Nat /\ count \in Nat
      /\ Len(fragments) <= count /\ count <= IP_FRAGMENT_NUM_MAX
      /\ undefined \in BOOLEAN
  BY DEF ListInv, ListBounded
<1>2. list \in Seq(Kept) /\ Len(list) \in Nat /\ Len(list) <= Len(fragments)
  BY <1>1, Patrolled
<1>3. IP_FRAGMENT_NUM_MAX \in Nat
  BY Sizes
<1>4. CASE PatrolUndefined(fragments)
  <2>1. undefined' = TRUE /\ UNCHANGED <<fragments, count, delivered>>
    BY <1>4 DEF ip_fragment_process
  <2>2. QED
    BY <1>1, <2>1 DEF ListBounded, Delivers
<1>5. CASE ~PatrolUndefined(fragments) /\ at # {}
  <2>1. undefined' = undefined /\ Store(list, Min(at), count, h, p)
    BY <1>5 DEF ip_fragment_process
  <2>2. Min(at) \in 1..Len(list) /\ For(c, list[Min(at)])
    BY <1>2, <1>5, FoundFor
  <2> HIDE DEF list, at
  <2> DEFINE i == Min(at)
  <2> HIDE DEF i
  <2>3. i \in 1..Len(list) /\ For(c, list[i]) /\ Store(list, i, count, h, p)
    BY <2>1, <2>2 DEF i
  <2>4. /\ fragments' \in Seq(Kept) /\ Delivers(c)
        /\ \/ Len(fragments') = Len(list) /\ count' = count
           \/ Len(fragments') = Len(list) - 1 /\ count' = count - 1
    BY <1>1, <1>2, <2>3, StoreStep
  <2>5. 1 <= Len(list)
    BY <1>2, <2>3
  <2>6. QED
    BY <1>1, <1>2, <1>3, <2>1, <2>4, <2>5 DEF ListBounded
<1>6. CASE ~PatrolUndefined(fragments) /\ at = {} /\ Refuse(count)
  <2>1. undefined' = undefined /\ fragments' = list /\ count' = count
        /\ delivered' = delivered
    BY <1>6 DEF ip_fragment_process
  <2> HIDE DEF list
  <2>2. QED
    BY <1>1, <1>2, <1>3, <2>1 DEF ListBounded, Delivers
<1>7. CASE ~PatrolUndefined(fragments) /\ at = {} /\ ~Refuse(count)
  <2> DEFINE f == ip_fragment_alloc(h)
             more == <<f>> \o list
  <2>1. undefined' = undefined /\ Store(more, 1, count + 1, h, p)
    BY <1>7 DEF ip_fragment_process
  <2>2. f \in Kept /\ For(c, f)
    BY Allocated
  <2> HIDE DEF list, f
  <2>3. more \in Seq(Kept) /\ Len(more) = Len(list) + 1 /\ more[1] = f
    BY <1>2, <2>2, Pushed
  <2> HIDE DEF more
  <2>4. 1 \in 1..Len(more) /\ count + 1 \in Nat /\ For(c, more[1])
    BY <1>1, <1>2, <2>2, <2>3
  <2> DEFINE n == count + 1
  <2>5. n \in Nat /\ Store(more, 1, n, h, p)
    BY <2>1, <2>4
  <2> HIDE DEF n
  <2>6. /\ fragments' \in Seq(Kept) /\ Delivers(c)
        /\ \/ Len(fragments') = Len(more) /\ count' = n
           \/ Len(fragments') = Len(more) - 1 /\ count' = n - 1
    BY <2>3, <2>4, <2>5, StoreStep
  <2>7. count < IP_FRAGMENT_NUM_MAX
    BY <1>1, <1>3, <1>7 DEF Refuse
  <2>8. QED
    BY <1>1, <1>2, <1>3, <2>1, <2>3, <2>6, <2>7 DEF ListBounded, n
<1>8. QED
  BY <1>4, <1>5, <1>6, <1>7

\* ip_rx: what passes its checks is as it was sent; a datagram of one
\* fragment is delivered at once, the fragments of others are put together.
LEMMA RxStep ==
    ASSUME IhlNoticed, SendInv, ListInv, NEW p \in net, Rx(p)
    PROVE  ListInv' /\ \E c \in Calls : Started(c) /\ Delivers(c)
<1> USE DEF SendInv
<1>1. PICK c \in Calls, j \in Nat :
        Started(c) /\ j * Unit < Length(c) /\ p = Packet(c, j)
  BY DEF NetInv
<1>2. PICK q \in {p} \cup Damaged(p) : ip_rx(q)
  BY DEF Rx
<1>3. Keeps
  BY DEF Rx, Keeps, Started
<1>4. Seq(Kept) \subseteq Seq(Kept')
  BY <1>3, KeptStays
<1> DEFINE Goal == /\ fragments' \in Seq(Kept) /\ Delivers(c)
                   /\ count' \in Nat /\ ListBounded' /\ undefined' \in BOOLEAN
<1> SUFFICES Goal
  BY <1>1, <1>4 DEF ListInv
<1>5. ASSUME UNCHANGED <<fragments, count, undefined>>
      PROVE  /\ fragments' \in Seq(Kept)
             /\ count' \in Nat /\ ListBounded' /\ undefined' \in BOOLEAN
  BY <1>5 DEF ListInv, ListBounded
<1> DEFINE h == Decoded(q.hdr)
           x == SubSeq(Octets(q), Ihl(q) + 1, q.hdr[2])
<1>6. CASE ~Valid(q) \/ h.dst \notin Local
  <2>1. UNCHANGED <<fragments, count, undefined, delivered>>
    BY <1>2, <1>6 DEF ip_rx
  <2>2. QED
    BY <1>5, <2>1 DEF Delivers
<1>7. CASE Valid(q) /\ h.dst \in Local
  <2>1. q = Packet(c, j)
    BY <1>1, <1>2, <1>7, ValidIntact
  <2>2. h = Read(c, j)
    BY <1>1, <2>1, HeaderRead
  <2>3. x = Payload(c, j)
    BY <1>1, <2>1, HeaderRead DEF Payload
  <2>7. ~(q.hdr[2] < Ihl(q))
    <3>1. Ihl(q) = HdrSize /\ q.hdr[2] = HdrSize + Size(c, j)
      BY <1>1, <2>1, HeaderRead
    <3>2. Size(c, j) \in 1..Mtu
      BY <1>1, SizeIs
    <3>3. QED
      BY <3>1, <3>2, Sizes
  <2>4. CASE h.more \/ h.offset # 0
    <3>1. ip_fragment_process(h, x)
      BY <1>2, <1>7, <2>4, <2>7 DEF ip_rx
    <3> HIDE DEF h, x
    <3>2. ip_fragment_process(Read(c, j), Payload(c, j))
      BY <2>2, <2>3, <3>1
    <3>3. QED
      BY <1>1, <3>2, ProcessStep
  <2>5. CASE ~(h.more \/ h.offset # 0)
    <3>1. delivered' = Handled(h, x) /\ UNCHANGED <<fragments, count, undefined>>
      BY <1>2, <1>7, <2>5, <2>7 DEF ip_rx
    <3> HIDE DEF h, x
    <3>2. j = 0 /\ Final(c, j)
      BY <2>2, <2>5 DEF Read
    <3>3. j * Unit = 0 /\ Size(c, j) = Length(c)
      <4>1. j * Unit = 0
        BY <3>2, Sizes
      <4>2. Size(c, j) \in 1..Mtu
        BY <1>1, SizeIs
      <4>3. QED
        BY <3>2, <4>1, <4>2, Sizes DEF Final
    <3>4. /\ Payload(c, j) \in Seq(Nat) /\ Len(Payload(c, j)) = Size(c, j)
          /\ \A i \in 1..Size(c, j) : Payload(c, j)[i] = Datagram[c].data[j * Unit + i]
      BY <1>1, PayloadRead
    <3>5. Datagram[c].data \in Seq(Nat) /\ Len(Datagram[c].data) = Length(c)
          /\ Length(c) \in Nat
      BY DatagramIs
    <3>6. \A i \in 1..Length(c) : Payload(c, j)[i] = Datagram[c].data[i]
      <4>1. \A i \in 1..Length(c) : 0 + i = i
        BY <3>5
      <4>2. QED
        BY <3>3, <3>4, <4>1
    <3>7. Payload(c, j) = Datagram[c].data
      BY <3>3, <3>4, <3>5, <3>6, SeqEqual
    <3>8. x = Datagram[c].data /\ delivered' = Handled(Read(c, j), x)
      BY <2>2, <2>3, <3>1, <3>7
    <3>9. Delivers(c)
      BY <3>8, HandledIs
    <3>10. QED
      BY <1>5, <3>1, <3>9
  <2>6. QED
    BY <2>4, <2>5
<1>8. QED
  BY <1>6, <1>7

LEMMA TickStep ==
    ASSUME ListInv, Tick
    PROVE  ListInv'
<1> DEFINE T == IP_FRAGMENT_TIMEOUT_SEC
           Older(f) == IF f.age <= T THEN [f EXCEPT !.age = @ + 1] ELSE f
<1>1. /\ fragments' = [i \in DOMAIN fragments |-> Older(fragments[i])]
      /\ UNCHANGED <<tx, count, undefined>>
  BY DEF Tick
<1>2. fragments \in Seq(Kept) /\ Len(fragments) \in Nat
  BY DEF ListInv
<1>3. ASSUME NEW f \in Kept PROVE Older(f) \in Kept
  <2>1. f \in Entry
    BY DEF Kept
  <2>2. CASE f.age <= T
    <3> DEFINE g == [f EXCEPT !.age = @ + 1]
    <3>1. f.age + 1 \in 0..T + 1
      BY <2>1, <2>2, Sizes DEF Entry
    <3>2. g \in Entry
      BY <2>1, <3>1 DEF Entry
    <3>3. /\ g.src = f.src /\ g.dst = f.dst /\ g.id = f.id /\ g.proto = f.proto
          /\ g.len = f.len /\ g.data = f.data /\ g.mask = f.mask
      BY <2>1 DEF Entry
    <3> HIDE DEF g
    <3>4. PICK c \in Calls : For(c, f)
      BY DEF Kept
    <3>5. For(c, g)
      BY <3>3, <3>4 DEF For
    <3>6. Missing(g)
      BY <3>3 DEF Missing, Kept
    <3>7. g \in Kept
      BY <3>2, <3>5, <3>6 DEF Kept
    <3>8. QED
      BY <2>2, <3>7 DEF g
  <2>3. CASE ~(f.age <= T)
    BY <2>3
  <2>4. QED
    BY <2>2, <2>3
<1> HIDE DEF Older
<1>4. fragments' \in [1..Len(fragments) -> Kept]
  <2>1. DOMAIN fragments = 1..Len(fragments) /\ \A i \in DOMAIN fragments : fragments[i] \in Kept
    BY <1>2
  <2>2. QED
    BY <1>1, <1>3, <2>1
<1>5. fragments' \in Seq(Kept) /\ Len(fragments') = Len(fragments)
  BY <1>2, <1>4, AsSequence
<1>6. Keeps
  BY <1>1 DEF Keeps, Started
<1>7. fragments' \in Seq(Kept')
  BY <1>5, <1>6, KeptStays
<1>8. QED
  BY <1>1, <1>5, <1>7 DEF ListInv, ListBounded

-----------------------------------------------------------------------------
(***************************************************************************)
(* The theorems.                                                           *)
(***************************************************************************)
IInv == SendInv /\ ListInv

LEMMA IInvInit == Init => IInv
<1> SUFFICES ASSUME Init PROVE IInv
  OBVIOUS
<1>1. SendInv
  BY SendInit
<1>2. fragments = <<>> /\ count = 0 /\ undefined = FALSE
  BY DEF Init
<1>3. fragments \in Seq(Kept) /\ Len(fragments) = 0
  BY <1>2
<1>4. count \in Nat /\ ListBounded
  BY <1>2, <1>3, Sizes DEF ListBounded
<1>5. undefined \in BOOLEAN
  BY <1>2
<1>6. QED
  BY <1>1, <1>3, <1>4, <1>5 DEF IInv, ListInv

LEMMA IInvStep ==
    ASSUME IhlNoticed, IInv, [Next]_vars
    PROVE  IInv'
<1> USE DEF IInv
<1>1. SendInv' /\ Keeps
  BY SendStep
<1>2. ASSUME UNCHANGED <<fragments, count, undefined>> PROVE ListInv'
  <2>1. fragments \in Seq(Kept')
    BY <1>1, KeptStays DEF ListInv
  <2>2. QED
    BY <1>2, <2>1 DEF ListInv, ListBounded
<1>3. ASSUME NEW c \in Calls, TxStart(c) \/ TxFragment(c) \/ TxFail(c) PROVE ListInv'
  BY <1>2, <1>3 DEF TxStart, TxFragment, TxFail
<1>4. ASSUME NEW p \in net, Rx(p) PROVE ListInv'
  BY <1>4, RxStep
<1>5. Tick => ListInv'
  BY TickStep
<1>6. UNCHANGED vars => ListInv'
  BY <1>2 DEF vars
<1>7. QED
  BY <1>1, <1>3, <1>4, <1>5, <1>6 DEF Next

\* The hypothesis of the theorems that follow. IhlNoticed says of the datagrams,
\* not of the code, that no inverted bit of the header length of one of their
\* fragments passes the checks; ip_rx sums as many words as that length says,
\* and there are destinations for which such a bit does pass. Every other bit
\* is covered without it.
LEMMA IInvHolds ==
    ASSUME IhlNoticed
    PROVE  Spec => []IInv
<1>1. Init => IInv
  BY IInvInit
<1>2. IInv /\ [Next]_vars => IInv'
  BY IInvStep
<1>3. QED
  BY <1>1, <1>2, PTL DEF Spec

\* Every word of a header ip_tx_core builds fits 16 bits, the entries of the
\* list their types, and ip_generate_id stays in the space of ids.
THEOREM IpTypeCorrect ==
    ASSUME IhlNoticed
    PROVE  Spec => []TypeOK
<1>1. IInv => TypeOK
  <2> SUFFICES ASSUME IInv PROVE TypeOK
    OBVIOUS
  <2>1. ASSUME NEW p \in net, NEW i \in DOMAIN p.hdr PROVE p.hdr[i] \in 0..Modulus - 1
    <3>1. PICK c \in Calls, j \in Nat :
            Started(c) /\ j * Unit < Length(c) /\ p = Packet(c, j)
      BY DEF IInv, SendInv, NetInv
    <3>2. p.hdr \in [1..9 -> Sums]
      BY <3>1, HeaderRead DEF IInv, SendInv
    <3>3. QED
      BY <2>1, <3>2 DEF Sums
  <2>2. ASSUME NEW i \in DOMAIN fragments PROVE fragments[i] \in Entry
    BY <2>2 DEF IInv, ListInv, Kept
  <2>3. QED
    BY <2>1, <2>2 DEF TypeOK, IInv, SendInv, IdInv, ListInv, Entry, Masks
<1>2. QED
  BY <1>1, IInvHolds, PTL

\* What the mask of an entry says has arrived has arrived: an octet whose bit
\* maskset has set is the octet of the datagram the entry is for, whatever is
\* lost, repeated, reordered or interleaved on the way, and whichever bit of a
\* header is inverted, as long as ip_rx notices those of the header length.
THEOREM DataAgreesHolds ==
    ASSUME IhlNoticed
    PROVE  Spec => []DataAgrees
<1>1. IInv => DataAgrees
  <2> SUFFICES ASSUME IInv, NEW i \in DOMAIN fragments, NEW o \in 0..MaxLen - 1,
                      Bit(fragments[i].mask, o)
               PROVE  \E c \in Calls :
                        /\ Datagram[c].src = fragments[i].src /\ tx[c].pc # "ready"
                        /\ tx[c].id = fragments[i].id /\ o < Length(c)
                        /\ fragments[i].data[o + 1] = Datagram[c].data[o + 1]
    BY DEF DataAgrees, Bit
  <2>1. fragments[i] \in Kept
    BY DEF IInv, ListInv
  <2>2. PICK c \in Calls : For(c, fragments[i])
    BY <2>1 DEF Kept
  <2>3. QED
    BY <2>2 DEF For, Started
<1>2. QED
  BY <1>1, IInvHolds, PTL

\* ip_fragment_process keeps nothing whole: as soon as the last octet that was
\* missing has arrived, the entry is complete, delivered and unlinked.
THEOREM NoneWholeHolds ==
    ASSUME IhlNoticed
    PROVE  Spec => []NoneWhole
<1>1. IInv => NoneWhole
  <2> SUFFICES ASSUME IInv, NEW i \in DOMAIN fragments
               PROVE  Missing(fragments[i])
    BY DEF NoneWhole, Missing, Bit
  <2>1. fragments[i] \in Kept
    BY DEF IInv, ListInv
  <2>2. QED
    BY <2>1 DEF Kept
<1>2. QED
  BY <1>1, IInvHolds, PTL

\* The list of ip_fragment_process has at most as many entries as count, and
\* count never passes IP_FRAGMENT_NUM_MAX, although the patrol removes entries
\* without decreasing it.
THEOREM ListBoundedHolds ==
    ASSUME IhlNoticed
    PROVE  Spec => []ListBounded
<1>1. IInv => ListBounded
  BY DEF IInv, ListInv
<1>2. QED
  BY <1>1, IInvHolds, PTL

\* ip_tx, ip_rx and ip_fragment_process implement the datagram service: every
\* step of them is one of the service or is invisible to it, for datagrams
\* whose header lengths the checksum protects (IhlNoticed).
THEOREM DatagramRefinement ==
    ASSUME IhlNoticed
    PROVE  Spec => ImplementsDatagram
<1> DEFINE Sent == {Datagram[c] : c \in {k \in Calls : tx[k].pc # "ready"}}
<1>1. Init => Service!Init
  <2> SUFFICES ASSUME Init PROVE Sent = {} /\ delivered = {}
    BY DEF Service!Init
  <2>1. \A c \in Calls : tx[c].pc = "ready"
    BY DEF Init
  <2>2. QED
    BY <2>1 DEF Init
<1>2. IInv /\ [Next]_vars => [Service!Next]_<<Sent, delivered>>
  <2> SUFFICES ASSUME IInv, [Next]_vars, ~UNCHANGED <<Sent, delivered>>
               PROVE  \E d \in {Datagram[c] : c \in Calls} :
                         \/ Sent' = Sent \cup {d} /\ delivered' = delivered
                         \/ d \in Sent /\ delivered' = delivered \cup {d} /\ Sent' = Sent
    BY DEF Service!Next, Service!Send, Service!Deliver
  <2>1. ASSUME NEW c \in Calls, TxStart(c)
        PROVE  Sent' = Sent \cup {Datagram[c]} /\ delivered' = delivered
    <3>1. /\ tx' = [tx EXCEPT ![c] = [pc |-> "send", id |-> id[Datagram[c].src], done |-> 0]]
          /\ delivered' = delivered
      BY <2>1 DEF TxStart
    <3>2. tx'[c].pc = "send" /\ \A e \in Calls : e # c => tx'[e] = tx[e]
      BY <3>1 DEF IInv, SendInv, TxInv
    <3>3. QED
      BY <3>1, <3>2
  <2>2. ASSUME \A e \in Calls : Started(e)' = Started(e) PROVE Sent' = Sent
    BY <2>2 DEF Started
  <2>3. ASSUME NEW c \in Calls, TxFragment(c) \/ TxFail(c)
        PROVE  Sent' = Sent /\ delivered' = delivered
    <3>1. \A e \in Calls : Started(e)' = Started(e)
      <4>1. CASE TxFragment(c)
        BY <4>1, FragmentTx DEF IInv, SendInv
      <4>2. CASE TxFail(c)
        <5>1. tx' = [tx EXCEPT ![c].pc = "done"] /\ tx[c].pc = "send"
          BY <4>2 DEF TxFail
        <5>2. tx \in [Calls -> TxRecord]
          BY DEF IInv, SendInv, TxInv
        <5>3. tx'[c].pc = "done" /\ \A e \in Calls : e # c => tx'[e] = tx[e]
          BY <5>1, <5>2 DEF TxRecord
        <5>4. QED
          BY <5>1, <5>3 DEF Started
      <4>3. QED
        BY <2>3, <4>1, <4>2
    <3>2. delivered' = delivered
      BY <2>3 DEF TxFragment, TxFail
    <3>3. QED
      BY <2>2, <3>1, <3>2
  <2>4. ASSUME NEW p \in net, Rx(p)
        PROVE  /\ Sent' = Sent
               /\ \E c \in Calls : Datagram[c] \in Sent /\ Delivers(c)
    <3>1. tx' = tx
      BY <2>4 DEF Rx
    <3>2. PICK c \in Calls : Started(c) /\ Delivers(c)
      BY <2>4, RxStep DEF IInv
    <3>3. Datagram[c] \in Sent
      BY <3>2 DEF Started
    <3>4. QED
      BY <3>1, <3>2, <3>3
  <2>5. Tick \/ UNCHANGED vars => Sent' = Sent /\ delivered' = delivered
    BY DEF Tick, vars
  <2> HIDE DEF Sent
  <2>6. CASE \E c \in Calls : TxStart(c)
    BY <2>1, <2>6
  <2>7. CASE \E p \in net : Rx(p)
    BY <2>4, <2>7 DEF Delivers
  <2>8. QED
    BY <2>3, <2>5, <2>6, <2>7 DEF Next
<1>3. QED
  BY <1>1, <1>2, IInvHolds, PTL DEF Spec, ImplementsDatagram, Service!Spec
=============================================================================
