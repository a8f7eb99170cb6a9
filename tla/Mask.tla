--------------------------------- MODULE Mask ---------------------------------
(***************************************************************************)
(* Bit masks (util.c) and the header checksum.  A mask is an array of      *)
(* words; a word is the set of its bits that are 1.                        *)
(***************************************************************************)
EXTENDS Naturals, Sequences, FiniteSets, FiniteSetsExt

CONSTANTS
    WordBits,   \* bits of a mask word (32)
    MaskWords,  \* words of a mask (2048)
    Modulus     \* values of a checksum word (2^16)

ASSUME MaskAssumption ==
    WordBits \in Nat \ {0} /\ MaskWords \in Nat \ {0} /\ Modulus \in Nat /\ Modulus > 9

Words == 0..(MaskWords - 1)
AllBits == 0..(WordBits - 1)

maskclr == [w \in Words |-> {}]

\* How a range of bits lies in the words: bl bits of the first word from sb on,
\* then full words, then the first tail bits of one more.
First(offset) == offset \div WordBits
HeadBits(offset, len) ==
    LET sb == offset % WordBits
        bl == IF len > WordBits - sb THEN WordBits - sb ELSE len
    IN  sb..(sb + bl - 1)
FullWords(offset, len) == (len - Cardinality(HeadBits(offset, len))) \div WordBits
TailBits(offset, len) ==
    LET tail == (len - Cardinality(HeadBits(offset, len))) % WordBits
    IN  0..(tail - 1)

\* The bits of word w in a range.
Span(offset, len, w) ==
    LET so == First(offset)
        n  == FullWords(offset, len)
    IN  CASE w = so                 -> HeadBits(offset, len)
          [] w \in so + 1..so + n   -> AllBits
          [] w = so + n + 1         -> TailBits(offset, len)
          [] OTHER                  -> {}

maskset(mask, offset, len) ==
    [w \in Words |-> mask[w] \cup Span(offset, len, w)]

maskchk(mask, offset, len) ==
    \A w \in Words : Span(offset, len, w) \subseteq mask[w]

-----------------------------------------------------------------------------
Fold16(sum) == (sum % Modulus) + (sum \div Modulus)

\* The one's complement of the one's complement sum of the words.
cksum16(words) ==
    LET sum[i \in 0..Len(words)] == IF i = 0 THEN 0 ELSE sum[i - 1] + words[i]
    IN  (Modulus - 1) - (Fold16(Fold16(sum[Len(words)])) % Modulus)
=============================================================================
