-------------------------- MODULE JobAnalysisProofs --------------------------
(* The reader of capped files keeps what it promises to keep, for every even  *)
(* limit, every size of chunks and every size of the body, on its own and as  *)
(* part of the analysis of a job, whose budget and sections are proved here,  *)
(* too, for lists, logs and details of any length.                            *)
EXTENDS JobAnalysis, SequenceTheorems, FiniteSetTheorems, WellFoundedInduction, TLAPS

(* The lengths of the two ends after total bytes.                             *)
HeadLen == IF total < half THEN total ELSE half
TailLen == IF total - HeadLen < half THEN total - HeadLen ELSE half

(* The head is the first bytes, and the tail the last ones of the rest, until *)
(* they are cut at their newlines.                                            *)
EndsInv ==
  /\ file \in {"streaming", "full"} =>
       head = Bytes(1, HeadLen) /\ tail = Bytes(total - TailLen + 1, total)
  /\ file = "capped" => OnlyEdgesLost

FetchInv ==
  /\ FetchTypeOK
  /\ EndsInv
  /\ file = "full" => total <= MaxBytes
-----------------------------------------------------------------------------
(* A set of naturals that is not empty has a least element.                   *)
LEMMA LeastNatural ==
  ASSUME NEW T, T \subseteq Nat, T # {}
  PROVE  \E x \in T : \A y \in T : x <= y
<1> DEFINE R == OpToRel(<, Nat)
<1>1. IsWellFoundedOn(R, Nat)
  BY NatLessThanWellFounded
<1>2. \A x, y \in Nat : y < x => <<y, x>> \in R
  BY DEF OpToRel
<1> HIDE DEF R
<1>3. PICK x \in T : \A y \in T : ~ (<<y, x>> \in R)
  BY <1>1, WFMin
<1>4. \A y \in T : ~ (y < x) /\ x \in Nat /\ y \in Nat
  BY <1>2, <1>3
<1> QED BY <1>3, <1>4

(* Min is the least element.                                                  *)
LEMMA MinOfNaturals ==
  ASSUME NEW S \in SUBSET Nat, S # {}
  PROVE  Min(S) \in S /\ \A s \in S : Min(S) <= s
  BY LeastNatural DEF Min

(* Max is the greatest element of a set with a bound.                         *)
LEMMA MaxOfNaturals ==
  ASSUME NEW S \in SUBSET Nat, S # {}, NEW n \in Nat, \A s \in S : s <= n
  PROVE  Max(S) \in S /\ \A s \in S : s <= Max(S)
<1> DEFINE bounds == {b \in Nat : \A s \in S : s <= b}
<1>1. PICK b \in bounds : \A c \in bounds : b <= c
  <2>1. n \in bounds /\ bounds \in SUBSET Nat
    OBVIOUS
  <2> HIDE DEF bounds
  <2> QED BY <2>1, LeastNatural
<1>2. b \in S
  <2> SUFFICES ASSUME b \notin S PROVE FALSE
    OBVIOUS
  <2>1. \A s \in S : s < b
    BY <1>1
  <2>2. PICK s \in S : s < b
    BY <2>1
  <2>3. b - 1 \in Nat /\ \A t \in S : t <= b - 1
    BY <1>1, <2>1, <2>2
  <2> QED BY <1>1, <2>3
<1>3. \A s \in S : b >= s
  BY <1>1
<1>4. Max(S) \in S /\ \A s \in S : Max(S) >= s
  BY <1>2, <1>3 DEF Max
<1> QED BY <1>4

(* The limit is twice its half.                                               *)
LEMMA HalfOfMax == half \in Nat /\ half > 0 /\ 2 * half = MaxBytes
  BY FetchAssumption DEF half

(* An interval of bytes is a sequence of its length.                          *)
LEMMA BytesSeq ==
  ASSUME NEW a \in Nat, NEW b \in Int, a <= b + 1
  PROVE  Bytes(a, b) \in Seq(Nat) /\ Len(Bytes(a, b)) = b - a + 1
<1>1. b - a + 1 \in Nat
  OBVIOUS
<1>2. \A i \in 1 .. b - a + 1 : a + i - 1 \in Nat
  OBVIOUS
<1> QED BY <1>1, <1>2 DEF Bytes

(* Two intervals that meet make one.                                          *)
LEMMA BytesConcat ==
  ASSUME NEW a \in Nat, NEW b \in Int, NEW c \in Int, a <= b + 1, b <= c
  PROVE  Bytes(a, b) \o Bytes(b + 1, c) = Bytes(a, c)
<1>1. Bytes(a, b) \in Seq(Nat) /\ Len(Bytes(a, b)) = b - a + 1
  BY BytesSeq
<1>2. Bytes(b + 1, c) \in Seq(Nat) /\ Len(Bytes(b + 1, c)) = c - b
  <2>1. b + 1 \in Nat /\ b + 1 <= c + 1 /\ c - (b + 1) + 1 = c - b
    OBVIOUS
  <2>2. /\ Bytes(b + 1, c) \in Seq(Nat)
        /\ Len(Bytes(b + 1, c)) = c - (b + 1) + 1
    BY <2>1, BytesSeq, Zenon
  <2> QED BY <2>1, <2>2
<1>3. Bytes(a, c) \in Seq(Nat) /\ Len(Bytes(a, c)) = c - a + 1
  BY BytesSeq
<1>4. /\ Bytes(a, b) \o Bytes(b + 1, c) \in Seq(Nat)
      /\ Len(Bytes(a, b) \o Bytes(b + 1, c)) = c - a + 1
      /\ \A i \in 1 .. c - a + 1 :
           (Bytes(a, b) \o Bytes(b + 1, c))[i] =
             IF i <= b - a + 1 THEN Bytes(a, b)[i]
             ELSE Bytes(b + 1, c)[i - (b - a + 1)]
  <2>1. Len(Bytes(a, b)) + Len(Bytes(b + 1, c)) = c - a + 1
    BY <1>1, <1>2
  <2>2. /\ Bytes(a, b) \o Bytes(b + 1, c) \in Seq(Nat)
        /\ Len(Bytes(a, b) \o Bytes(b + 1, c))
             = Len(Bytes(a, b)) + Len(Bytes(b + 1, c))
        /\ \A i \in 1 .. Len(Bytes(a, b)) + Len(Bytes(b + 1, c)) :
             (Bytes(a, b) \o Bytes(b + 1, c))[i] =
               IF i <= Len(Bytes(a, b)) THEN Bytes(a, b)[i]
               ELSE Bytes(b + 1, c)[i - Len(Bytes(a, b))]
    BY <1>1, <1>2, ConcatProperties, Zenon
  <2> QED BY <1>1, <2>1, <2>2
<1>5. ASSUME NEW i \in 1 .. c - a + 1
      PROVE  (Bytes(a, b) \o Bytes(b + 1, c))[i] = Bytes(a, c)[i]
  <2>1. CASE i <= b - a + 1
    <3>1. (Bytes(a, b) \o Bytes(b + 1, c))[i] = Bytes(a, b)[i]
      BY <1>4, <2>1
    <3> QED BY <3>1, <2>1 DEF Bytes
  <2>2. CASE i > b - a + 1
    <3>1. (Bytes(a, b) \o Bytes(b + 1, c))[i]
            = Bytes(b + 1, c)[i - (b - a + 1)]
      BY <1>4, <2>2
    <3>2. i - (b - a + 1) \in 1 .. c - (b + 1) + 1
      BY <2>2
    <3> QED BY <3>1, <3>2 DEF Bytes
  <2>3. i <= b - a + 1 \/ i > b - a + 1
    OBVIOUS
  <2> QED BY <2>1, <2>2, <2>3, Zenon
<1> QED BY <1>3, <1>4, <1>5, SeqEqual

(* A part of an interval is an interval.                                      *)
LEMMA BytesSub ==
  ASSUME NEW a \in Nat, NEW b \in Int, NEW i \in Nat, NEW j \in Int,
         a <= b + 1, 1 <= i, i <= j + 1, j <= b - a + 1
  PROVE  SubSeq(Bytes(a, b), i, j) = Bytes(a + i - 1, a + j - 1)
<1> DEFINE s == Bytes(a, b)
<1>1. s \in Seq(Nat) /\ Len(s) = b - a + 1
  BY BytesSeq
<1>2. SubSeq(s, i, j) = [k \in 1 .. j - i + 1 |-> s[i + k - 1]]
  BY <1>1
<1>3. ASSUME NEW k \in 1 .. j - i + 1
      PROVE  s[i + k - 1] = (a + i - 1) + k - 1
  <2>1. i + k - 1 \in 1 .. b - a + 1
    OBVIOUS
  <2> QED BY <2>1 DEF Bytes
<1>4. (a + j - 1) - (a + i - 1) + 1 = j - i + 1
  OBVIOUS
<1> QED BY <1>2, <1>3, <1>4 DEF Bytes

(* An interval that ends before it begins has no bytes.                       *)
LEMMA NoBytes == \A a \in Nat : Bytes(a + 1, a) = <<>>
  BY DEF Bytes

(* What del tail[:-k] leaves of an interval.                                  *)
LEMMA NewestBytes ==
  ASSUME NEW a \in Nat, NEW b \in Int, NEW k \in Nat, a <= b + 1
  PROVE  Newest(Bytes(a, b), k)
           = Bytes(IF b - a + 1 > k THEN b - k + 1 ELSE a, b)
<1>1. Len(Bytes(a, b)) = b - a + 1
  BY BytesSeq
<1>2. CASE b - a + 1 > k
  <2>0. /\ (b - a + 1) - k + 1 \in Nat /\ b - a + 1 \in Int
        /\ 1 <= (b - a + 1) - k + 1 /\ (b - a + 1) - k + 1 <= (b - a + 1) + 1
        /\ b - a + 1 <= b - a + 1
    BY <1>2
  <2>1. SubSeq(Bytes(a, b), (b - a + 1) - k + 1, b - a + 1)
          = Bytes(a + ((b - a + 1) - k + 1) - 1, a + (b - a + 1) - 1)
    BY <2>0, BytesSub, Zenon
  <2>2. /\ a + ((b - a + 1) - k + 1) - 1 = b - k + 1
        /\ a + (b - a + 1) - 1 = b
    OBVIOUS
  <2> QED BY <1>1, <1>2, <2>1, <2>2 DEF Newest
<1>3. CASE ~ (b - a + 1 > k)
  <2>0. /\ 1 \in Nat /\ 1 <= 1 /\ 1 <= (b - a + 1) + 1
        /\ b - a + 1 \in Int /\ b - a + 1 <= b - a + 1
    OBVIOUS
  <2>1. SubSeq(Bytes(a, b), 1, b - a + 1) = Bytes(a + 1 - 1, a + (b - a + 1) - 1)
    BY <2>0, BytesSub, Zenon
  <2>2. a + 1 - 1 = a /\ a + (b - a + 1) - 1 = b
    OBVIOUS
  <2> QED BY <1>1, <1>3, <2>1, <2>2 DEF Newest
<1> QED BY <1>2, <1>3
-----------------------------------------------------------------------------
(* A chunk is the bytes that follow those that have arrived.                  *)
LEMMA ChunkBytes ==
  ASSUME total \in Nat, NEW n \in Nat
  PROVE  /\ Chunk(n) = Bytes(total + 1, total + n) /\ Len(Chunk(n)) = n
         /\ \A k \in Nat :
              /\ k <= n => /\ Take(Chunk(n), k) = Bytes(total + 1, total + k)
                           /\ Drop(Chunk(n), k) = Bytes(total + k + 1, total + n)
              /\ k > n => Take(Chunk(n), k) = Chunk(n) /\ Drop(Chunk(n), k) = <<>>
<1>1. Chunk(n) = Bytes(total + 1, total + n)
  <2>1. (total + n) - (total + 1) + 1 = n
    OBVIOUS
  <2>2. \A i \in 1 .. n : (total + 1) + i - 1 = total + i
    OBVIOUS
  <2> QED BY <2>1, <2>2 DEF Chunk, Bytes
<1>2. Len(Chunk(n)) = n /\ Chunk(n) \in Seq(Nat)
  <2>1. total + 1 \in Nat /\ total + n \in Int /\ total + 1 <= (total + n) + 1
    OBVIOUS
  <2>2. /\ Bytes(total + 1, total + n) \in Seq(Nat)
        /\ Len(Bytes(total + 1, total + n)) = (total + n) - (total + 1) + 1
    BY <2>1, BytesSeq
  <2> QED BY <1>1, <2>2
<1>3. ASSUME NEW k \in Nat, k <= n
      PROVE  /\ Take(Chunk(n), k) = Bytes(total + 1, total + k)
             /\ Drop(Chunk(n), k) = Bytes(total + k + 1, total + n)
  <2>0. /\ total + 1 \in Nat /\ total + n \in Int
        /\ 1 \in Nat /\ k \in Int /\ k + 1 \in Nat /\ n \in Int
        /\ total + 1 <= (total + n) + 1 /\ 1 <= 1 /\ 1 <= k + 1 /\ k + 1 <= n + 1
        /\ k <= (total + n) - (total + 1) + 1
        /\ n <= (total + n) - (total + 1) + 1
    BY <1>3
  <2>1. SubSeq(Bytes(total + 1, total + n), 1, k)
          = Bytes((total + 1) + 1 - 1, (total + 1) + k - 1)
    BY <2>0, BytesSub, Zenon
  <2>2. SubSeq(Bytes(total + 1, total + n), k + 1, n)
          = Bytes((total + 1) + (k + 1) - 1, (total + 1) + n - 1)
    BY <2>0, BytesSub, Zenon
  <2>3. /\ (total + 1) + 1 - 1 = total + 1
        /\ (total + 1) + k - 1 = total + k
        /\ (total + 1) + (k + 1) - 1 = total + k + 1
        /\ (total + 1) + n - 1 = total + n
    OBVIOUS
  <2>4. (IF k < n THEN k ELSE n) = k
    BY <1>3
  <2> QED BY <1>1, <1>2, <2>1, <2>2, <2>3, <2>4 DEF Take, Drop
<1>4. ASSUME NEW k \in Nat, k > n
      PROVE  Take(Chunk(n), k) = Chunk(n) /\ Drop(Chunk(n), k) = <<>>
  <2>1. SubSeq(Chunk(n), 1, n) = Chunk(n)
    BY <1>2, SubSeqFull
  <2>2. SubSeq(Chunk(n), k + 1, n) = <<>>
    BY <1>2, <1>4, SubSeqEmpty
  <2> QED BY <1>2, <1>4, <2>1, <2>2 DEF Take, Drop
<1> QED BY <1>1, <1>2, <1>3, <1>4
-----------------------------------------------------------------------------
(* Nothing has been read at first.                                            *)
LEMMA FetchStarts == FetchInit => FetchInv
  BY DEF FetchInit, FetchInv, FetchTypeOK, EndsInv

(* rsplit: what is left of a beginning of the body, and what is not.          *)
LEMMA BeforeLastBytes ==
  ASSUME newlines \subseteq Nat, NEW n \in Nat
  PROVE  \E h \in 0 .. n :
           /\ BeforeLast(Bytes(1, n)) = Bytes(1, h)
           /\ newlines \cap (h + 1 .. n) = (h + 1 .. n) \cap {h + 1}
<1> DEFINE s == Bytes(1, n)
<1>1. DOMAIN s = 1 .. n /\ Len(s) = n /\ \A i \in 1 .. n : s[i] = i
  <2>1. 1 \in Nat /\ n \in Int /\ 1 <= n + 1 /\ n - 1 + 1 = n
    OBVIOUS
  <2>2. s \in Seq(Nat) /\ Len(s) = n - 1 + 1
    BY <2>1, BytesSeq, Zenon
  <2>3. \A i \in 1 .. n : s[i] = 1 + i - 1
    BY <2>1 DEF Bytes
  <2> QED BY <2>1, <2>2, <2>3
<1>2. Breaks(s) = newlines \cap (1 .. n)
  BY <1>1 DEF Breaks
<1>3. CASE Breaks(s) = {}
  <2>1. BeforeLast(s) = s
    BY <1>3 DEF BeforeLast
  <2>2. newlines \cap (n + 1 .. n) = (n + 1 .. n) \cap {n + 1} /\ n \in 0 .. n
    OBVIOUS
  <2> QED BY <2>1, <2>2
<1>4. CASE Breaks(s) # {}
  <2> DEFINE m == Max(Breaks(s))
  <2>1. m \in Breaks(s) /\ \A i \in Breaks(s) : i <= m
    <3>1. Breaks(s) \in SUBSET Nat /\ \A i \in Breaks(s) : i <= n
      BY <1>2
    <3> QED BY <3>1, <1>4, MaxOfNaturals, Zenon
  <2>2. BeforeLast(s) = SubSeq(s, 1, m - 1)
    BY <1>4 DEF BeforeLast
  <2> HIDE DEF m
  <2>3. m \in 1 .. n /\ m \in newlines /\ m - 1 \in 0 .. n
    BY <1>2, <2>1
  <2>4. SubSeq(s, 1, m - 1) = Bytes(1, m - 1)
    <3>1. /\ 1 \in Nat /\ n \in Int /\ m - 1 \in Int /\ 1 <= n + 1 /\ 1 <= 1
          /\ 1 <= m - 1 + 1 /\ m - 1 <= n - 1 + 1
          /\ 1 + 1 - 1 = 1 /\ 1 + (m - 1) - 1 = m - 1
      BY <2>3
    <3>2. SubSeq(Bytes(1, n), 1, m - 1) = Bytes(1 + 1 - 1, 1 + (m - 1) - 1)
      BY <3>1, BytesSub, Zenon
    <3> QED BY <3>1, <3>2
  <2>5. newlines \cap (m - 1 + 1 .. n) = (m - 1 + 1 .. n) \cap {m - 1 + 1}
    BY <1>2, <2>1, <2>3
  <2> QED BY <2>2, <2>3, <2>4, <2>5
<1> QED BY <1>3, <1>4

(* split: what is left of an end of the body, and what is not.                *)
LEMMA AfterFirstBytes ==
  ASSUME newlines \subseteq Nat, NEW a \in Nat, NEW b \in Nat, a <= b
  PROVE  \E t \in a .. b :
           /\ AfterFirst(Bytes(a + 1, b)) = Bytes(t + 1, b)
           /\ newlines \cap (a + 1 .. t) = (a + 1 .. t) \cap {t}
<1> DEFINE s == Bytes(a + 1, b)
<1>1. DOMAIN s = 1 .. b - a /\ Len(s) = b - a /\ \A i \in 1 .. b - a : s[i] = a + i
  <2>1. a + 1 \in Nat /\ b \in Int /\ a + 1 <= b + 1 /\ b - (a + 1) + 1 = b - a
    OBVIOUS
  <2>2. s \in Seq(Nat) /\ Len(s) = b - (a + 1) + 1
    BY <2>1, BytesSeq, Zenon
  <2>3. \A i \in 1 .. b - a : s[i] = (a + 1) + i - 1
    BY <2>1 DEF Bytes
  <2> QED BY <2>1, <2>2, <2>3
<1>2. Breaks(s) = {i \in 1 .. b - a : a + i \in newlines}
  BY <1>1 DEF Breaks
<1>3. CASE Breaks(s) = {}
  <2>1. AfterFirst(s) = s
    BY <1>3 DEF AfterFirst
  <2>2. newlines \cap (a + 1 .. a) = (a + 1 .. a) \cap {a} /\ a \in a .. b
    OBVIOUS
  <2> QED BY <2>1, <2>2
<1>4. CASE Breaks(s) # {}
  <2> DEFINE m == Min(Breaks(s))
  <2>1. m \in Breaks(s) /\ \A i \in Breaks(s) : m <= i
    <3>1. Breaks(s) \in SUBSET Nat
      BY <1>2
    <3> QED BY <3>1, <1>4, MinOfNaturals, Zenon
  <2>2. AfterFirst(s) = SubSeq(s, m + 1, b - a)
    BY <1>1, <1>4 DEF AfterFirst
  <2> HIDE DEF m
  <2>3. m \in 1 .. b - a /\ a + m \in newlines /\ a + m \in a .. b
    BY <1>2, <2>1
  <2>4. SubSeq(s, m + 1, b - a) = Bytes(a + m + 1, b)
    <3>1. /\ a + 1 \in Nat /\ b \in Int /\ m + 1 \in Nat /\ b - a \in Int
          /\ a + 1 <= b + 1 /\ 1 <= m + 1 /\ m + 1 <= b - a + 1
          /\ b - a <= b - (a + 1) + 1
          /\ (a + 1) + (m + 1) - 1 = a + m + 1 /\ (a + 1) + (b - a) - 1 = b
      BY <2>3
    <3>2. SubSeq(Bytes(a + 1, b), m + 1, b - a) = Bytes((a + 1) + (m + 1) - 1, (a + 1) + (b - a) - 1)
      BY <3>1, BytesSub, Zenon
    <3> QED BY <3>1, <3>2
  <2>5. newlines \cap (a + 1 .. a + m) = (a + 1 .. a + m) \cap {a + m}
    <3>1. ASSUME NEW x \in newlines \cap (a + 1 .. a + m) PROVE x = a + m
      <4>1. x - a \in Breaks(s)
        BY <1>2, <2>3, <3>1
      <4> QED BY <2>1, <2>3, <3>1, <4>1
    <3> QED BY <2>3, <3>1
  <2> QED BY <2>2, <2>3, <2>4, <2>5
<1> QED BY <1>3, <1>4

(* A transfer begins with nothing read.                                       *)
LEMMA RequestKeeps == FetchInv /\ Request => FetchInv'
<1> SUFFICES ASSUME FetchInv, Request PROVE FetchInv'
  OBVIOUS
<1>1. /\ file' = "streaming" /\ head' = <<>> /\ tail' = <<>> /\ total' = 0
      /\ newlines' \subseteq Nat /\ omitted' = 0
  BY FetchAssumption DEF Request
<1>2. HeadLen' = 0 /\ TailLen' = 0
  BY <1>1, HalfOfMax DEF HeadLen, TailLen, half
<1>3. Bytes(1, 0) = <<>>
  BY DEF Bytes
<1> QED BY <1>1, <1>2, <1>3 DEF FetchInv, FetchTypeOK, EndsInv

(* The end of a body decides whether the note between its ends is needed, and *)
(* which lines are left of them.                                              *)
LEMMA CompleteKeeps == FetchInv /\ Complete => FetchInv'
<1> SUFFICES ASSUME FetchInv, Complete PROVE FetchInv'
  OBVIOUS
<1> USE HalfOfMax
<1>1. /\ head = Bytes(1, HeadLen) /\ tail = Bytes(total - TailLen + 1, total)
      /\ total \in Nat /\ newlines \subseteq Nat /\ MaxBytes \in Nat
      /\ total' = total /\ newlines' = newlines
  BY FetchAssumption DEF Complete, FetchInv, FetchTypeOK, EndsInv
<1>2. CASE total <= MaxBytes /\ file' = "full" /\ UNCHANGED <<head, tail, omitted>>
  BY <1>1, <1>2 DEF FetchInv, FetchTypeOK, EndsInv, HeadLen, TailLen, half
<1>3. CASE /\ total > MaxBytes /\ file' = "capped"
           /\ omitted' = total - Len(head) - Len(tail)
           /\ head' = BeforeLast(head) /\ tail' = AfterFirst(tail)
  <2>1. HeadLen = half /\ TailLen = half
    BY <1>1, <1>3 DEF HeadLen, TailLen
  <2>2. PICK h \in 0 .. half :
          /\ head' = Bytes(1, h)
          /\ newlines \cap (h + 1 .. half) = (h + 1 .. half) \cap {h + 1}
    BY <1>1, <1>3, <2>1, BeforeLastBytes
  <2>3. total - half \in Nat /\ total - half <= total
    BY <1>1, <1>3
  <2>4. PICK t \in total - half .. total :
          /\ tail' = Bytes(t + 1, total)
          /\ newlines \cap (total - half + 1 .. t) = (total - half + 1 .. t) \cap {t}
    BY <1>1, <1>3, <2>1, <2>3, AfterFirstBytes
  <2>5. head' \in Seq(Nat) /\ Len(head') = h
    <3>1. 1 \in Nat /\ h \in Int /\ 1 <= h + 1 /\ h - 1 + 1 = h
      OBVIOUS
    <3> QED BY <2>2, <3>1, BytesSeq
  <2>6. tail' \in Seq(Nat) /\ total - Len(tail') = t
    <3>1. t + 1 \in Nat /\ total \in Int /\ t + 1 <= total + 1 /\ total - (t + 1) + 1 = total - t
      BY <1>1, <2>3
    <3>2. tail' \in Seq(Nat) /\ Len(tail') = total - (t + 1) + 1
      BY <2>4, <3>1, BytesSeq, Zenon
    <3> QED BY <1>1, <2>3, <3>1, <3>2
  <2>7. omitted' = total - MaxBytes
    <3>1. /\ 1 \in Nat /\ half \in Int /\ 1 <= half + 1 /\ half - 1 + 1 = half
          /\ total - half + 1 \in Nat /\ total \in Int
          /\ total - half + 1 <= total + 1
          /\ total - (total - half + 1) + 1 = half
      BY <1>1, <2>3
    <3>2. Len(head) = half - 1 + 1
      BY <1>1, <2>1, <3>1, BytesSeq, Zenon
    <3>3. Len(tail) = total - (total - half + 1) + 1
      BY <1>1, <2>1, <3>1, BytesSeq, Zenon
    <3> QED BY <1>1, <1>3, <3>1, <3>2, <3>3
  <2>8. OnlyEdgesLost'
    <3>1. half' = half
      BY DEF half
    <3>2. Bytes(1, h)' = Bytes(1, h) /\ Bytes(t + 1, total)' = Bytes(t + 1, total)
      BY <1>1 DEF Bytes
    <3>3. h <= half /\ total - t <= half /\ total - MaxBytes > 0
      BY <1>1, <1>3, <2>3
    <3> QED BY <1>1, <1>3, <2>2, <2>4, <2>5, <2>6, <2>7, <3>1, <3>3
            DEF OnlyEdgesLost, Bytes
  <2>9. omitted' \in Nat
    BY <1>1, <1>3, <2>7
  <2> QED BY <1>1, <1>3, <2>5, <2>6, <2>8, <2>9 DEF FetchInv, FetchTypeOK, EndsInv
<1> QED BY <1>2, <1>3 DEF Complete

(* What has been read of a body that is lost is forgotten.                    *)
LEMMA FailureKeeps == FetchInv /\ FetchFails => FetchInv'
  BY DEF FetchInv, FetchTypeOK, EndsInv, FetchFails

(* A chunk makes the two ends those of the longer body.                       *)
LEMMA ReceiveKeeps == FetchInv /\ Receive => FetchInv'
<1> SUFFICES ASSUME FetchInv, Receive PROVE FetchInv'
  OBVIOUS
<1> USE HalfOfMax
<1>1. PICK n \in Chunks :
        /\ total' = total + n
        /\ head' = head \o Take(Chunk(n), half - Len(head))
        /\ tail' = Newest(tail \o Drop(Chunk(n), half - Len(head)), half)
  BY Zenon DEF Receive
<1>2. /\ file = "streaming" /\ file' = file
      /\ n \in Nat /\ total \in Nat
      /\ head = Bytes(1, HeadLen) /\ tail = Bytes(total - TailLen + 1, total)
  BY FetchAssumption DEF Receive, FetchInv, FetchTypeOK, EndsInv
<1>3. HeadLen \in Nat /\ HeadLen <= total /\ HeadLen <= half /\ Len(head) = HeadLen
  <2>1. HeadLen \in Nat /\ HeadLen <= total /\ HeadLen <= half
    BY <1>2 DEF HeadLen
  <2>2. Len(Bytes(1, HeadLen)) = HeadLen - 1 + 1
    BY <2>1, BytesSeq
  <2> QED BY <1>2, <2>1, <2>2
<1>4. head' = Bytes(1, HeadLen') /\ tail' = Bytes(total' - TailLen' + 1, total')
  <2>1. CASE total < half /\ n <= half - total
    <3>1. /\ HeadLen = total /\ TailLen = 0
          /\ HeadLen' = total + n /\ TailLen' = 0
      BY <1>1, <1>2, <2>1 DEF HeadLen, TailLen, half
    <3>2. half - Len(head) \in Nat /\ half - Len(head) >= n
      BY <1>2, <1>3, <2>1, <3>1
    <3>3. /\ Take(Chunk(n), half - Len(head)) = Bytes(total + 1, total + n)
          /\ Drop(Chunk(n), half - Len(head)) = <<>>
      <4>1. CASE half - Len(head) = n
        BY <1>2, <3>2, <4>1, ChunkBytes, NoBytes
      <4>2. CASE half - Len(head) > n
        BY <1>2, <3>2, <4>2, ChunkBytes
      <4> QED BY <1>2, <3>2, <4>1, <4>2
    <3>4. head' = Bytes(1, total + n)
      <4>1. /\ 1 \in Nat /\ total \in Int /\ total + n \in Int
            /\ 1 <= total + 1 /\ total <= total + n
        BY <1>2
      <4>2. Bytes(1, total) \o Bytes(total + 1, total + n) = Bytes(1, total + n)
        BY <4>1, BytesConcat, Zenon
      <4> QED BY <1>1, <1>2, <3>1, <3>3, <4>2
    <3>5. tail = <<>>
      BY <1>2, <3>1, NoBytes
    <3>6. tail' = <<>>
      <4>1. tail' = Newest(<<>>, half)
        BY <1>1, <3>3, <3>5
      <4>2. Newest(<<>>, half) = SubSeq(<<>>, 1, 0)
        BY DEF Newest
      <4> QED BY <4>1, <4>2, SubSeqEmpty
    <3>7. Bytes(total' - TailLen' + 1, total') = <<>>
      BY <1>1, <1>2, <3>1, NoBytes
    <3> QED BY <1>1, <3>1, <3>4, <3>6, <3>7
  <2>2. CASE total < half /\ n > half - total
    <3>1. /\ HeadLen = total /\ TailLen = 0 /\ HeadLen' = half
          /\ TailLen' = IF total + n - half < half THEN total + n - half ELSE half
      BY <1>1, <1>2, <2>2 DEF HeadLen, TailLen, half
    <3>2. /\ half - Len(head) = half - total
          /\ half - total \in Nat /\ half - total <= n
      BY <1>2, <1>3, <2>2, <3>1
    <3>3. /\ Take(Chunk(n), half - Len(head)) = Bytes(total + 1, half)
          /\ Drop(Chunk(n), half - Len(head)) = Bytes(half + 1, total + n)
      <4>1. total + (half - total) = half /\ total + (half - total) + 1 = half + 1
        BY <1>2
      <4>2. /\ Take(Chunk(n), half - total) = Bytes(total + 1, total + (half - total))
            /\ Drop(Chunk(n), half - total)
                 = Bytes(total + (half - total) + 1, total + n)
        BY <1>2, <3>2, ChunkBytes, Zenon
      <4> QED BY <3>2, <4>1, <4>2
    <3>4. head' = Bytes(1, half)
      <4>1. /\ 1 \in Nat /\ total \in Int /\ half \in Int
            /\ 1 <= total + 1 /\ total <= half
        BY <1>2, <2>2
      <4>2. Bytes(1, total) \o Bytes(total + 1, half) = Bytes(1, half)
        BY <4>1, BytesConcat, Zenon
      <4> QED BY <1>1, <1>2, <3>1, <3>3, <4>2
    <3>5. tail = <<>>
      BY <1>2, <3>1, NoBytes
    <3>6. tail' = Newest(Bytes(half + 1, total + n), half)
      BY <1>1, <3>3, <3>5, <1>2, <2>2, BytesSeq, ConcatEmptySeq
    <3>7. Newest(Bytes(half + 1, total + n), half)
            = Bytes(IF (total + n) - (half + 1) + 1 > half
                    THEN (total + n) - half + 1 ELSE half + 1, total + n)
      <4>1. /\ half + 1 \in Nat /\ total + n \in Int /\ half \in Nat
            /\ half + 1 <= (total + n) + 1
        BY <1>2, <2>2
      <4> QED BY <4>1, NewestBytes, Zenon
    <3>8. (IF (total + n) - (half + 1) + 1 > half
           THEN (total + n) - half + 1 ELSE half + 1) = total' - TailLen' + 1
      BY <1>1, <1>2, <3>1
    <3> QED BY <1>1, <3>1, <3>4, <3>6, <3>7, <3>8
  <2>3. CASE total >= half
    <3>1. /\ HeadLen = half /\ HeadLen' = half
          /\ TailLen = IF total - half < half THEN total - half ELSE half
          /\ TailLen' = IF total + n - half < half THEN total + n - half ELSE half
      BY <1>1, <1>2, <2>3 DEF HeadLen, TailLen, half
    <3>2. half - Len(head) = 0
      BY <1>3, <3>1
    <3>3. /\ Take(Chunk(n), 0) = <<>>
          /\ Drop(Chunk(n), 0) = Bytes(total + 1, total + n)
      <4>1. 0 \in Nat /\ 0 <= n /\ total + 0 = total /\ total + 0 + 1 = total + 1
        BY <1>2
      <4>2. /\ Take(Chunk(n), 0) = Bytes(total + 1, total + 0)
            /\ Drop(Chunk(n), 0) = Bytes(total + 0 + 1, total + n)
        BY <1>2, <4>1, ChunkBytes, Zenon
      <4> QED BY <1>2, <4>1, <4>2, NoBytes
    <3>4. head' = head
      <4>1. head \in Seq(Nat)
        BY DEF FetchInv, FetchTypeOK
      <4> QED BY <1>1, <3>2, <3>3, <4>1
    <3>5. /\ total - TailLen + 1 \in Nat
          /\ total - TailLen + 1 <= total + 1
      BY <1>2, <2>3, <3>1
    <3>6. tail \o Bytes(total + 1, total + n) = Bytes(total - TailLen + 1, total + n)
      <4>1. total \in Int /\ total + n \in Int /\ total <= total + n
        BY <1>2
      <4> QED BY <1>2, <3>5, <4>1, BytesConcat, Zenon
    <3>7. tail' = Newest(Bytes(total - TailLen + 1, total + n), half)
      BY <1>1, <3>2, <3>3, <3>6
    <3>8. Newest(Bytes(total - TailLen + 1, total + n), half)
            = Bytes(IF (total + n) - (total - TailLen + 1) + 1 > half
                    THEN (total + n) - half + 1 ELSE total - TailLen + 1, total + n)
      <4>1. /\ total + n \in Int /\ half \in Nat
            /\ total - TailLen + 1 <= (total + n) + 1
        BY <1>2, <3>5
      <4> QED BY <3>5, <4>1, NewestBytes, Zenon
    <3>9. (IF (total + n) - (total - TailLen + 1) + 1 > half
           THEN (total + n) - half + 1 ELSE total - TailLen + 1)
              = total' - TailLen' + 1
      BY <1>1, <1>2, <2>3, <3>1
    <3> QED BY <1>1, <1>2, <3>1, <3>4, <3>7, <3>8, <3>9
  <2> QED BY <1>2, <2>1, <2>2, <2>3
<1>5. head' \in Seq(Nat) /\ tail' \in Seq(Nat) /\ total' \in Nat
  <2>1. /\ HeadLen' \in Nat /\ total' \in Nat
        /\ total' - TailLen' + 1 \in Nat /\ total' - TailLen' + 1 <= total' + 1
    BY <1>1, <1>2 DEF HeadLen, TailLen, half
  <2>2. Bytes(1, HeadLen') \in Seq(Nat)
    BY <2>1, BytesSeq
  <2>3. Bytes(total' - TailLen' + 1, total') \in Seq(Nat)
    <3>1. total' \in Int
      BY <2>1
    <3> QED BY <2>1, <3>1, BytesSeq, Zenon
  <2> QED BY <1>4, <2>1, <2>2, <2>3
<1>6. newlines' \subseteq Nat /\ omitted' \in Nat
  BY DEF Receive, FetchInv, FetchTypeOK
<1> QED BY <1>2, <1>4, <1>5, <1>6 DEF FetchInv, FetchTypeOK, EndsInv

(* Every step of the reader keeps the two ends.                               *)
LEMMA FetchSteps == FetchInv /\ [FetchNext]_fetchVars => FetchInv'
<1> SUFFICES ASSUME FetchInv, [FetchNext]_fetchVars PROVE FetchInv'
  OBVIOUS
<1>1. CASE UNCHANGED fetchVars
  BY <1>1 DEF FetchInv, FetchTypeOK, EndsInv, HeadLen, TailLen, half, fetchVars,
              OnlyEdgesLost, Bytes
<1> QED BY <1>1, RequestKeeps, ReceiveKeeps, CompleteKeeps, FailureKeeps
        DEF FetchNext

(* The two ends are what is promised.                                         *)
LEMMA EndsSuffice == FetchInv => OnlyEdgesLost
<1> SUFFICES ASSUME FetchInv PROVE OnlyEdgesLost
  OBVIOUS
<1> USE HalfOfMax
<1>1. total \in Nat /\ MaxBytes \in Nat
  BY FetchAssumption DEF FetchInv, FetchTypeOK
<1>2. CASE file = "full"
  <2>1. /\ head = Bytes(1, HeadLen) /\ tail = Bytes(total - TailLen + 1, total)
        /\ total <= MaxBytes
    BY <1>2 DEF FetchInv, EndsInv
  <2>2. /\ HeadLen \in Nat /\ HeadLen <= total
        /\ total - TailLen + 1 = HeadLen + 1
    BY <1>1, <2>1 DEF HeadLen, TailLen
  <2>3. head \o tail = Bytes(1, total)
    <3>1. 1 \in Nat /\ HeadLen \in Int /\ total \in Int /\ 1 <= HeadLen + 1
      BY <1>1, <2>2
    <3>2. Bytes(1, HeadLen) \o Bytes(HeadLen + 1, total) = Bytes(1, total)
      BY <2>2, <3>1, BytesConcat, Zenon
    <3> QED BY <2>1, <2>2, <3>2
  <2> QED BY <1>2, <2>3 DEF OnlyEdgesLost
<1>3. CASE file = "capped"
  BY <1>3 DEF FetchInv, EndsInv
<1> QED BY <1>2, <1>3 DEF OnlyEdgesLost
-----------------------------------------------------------------------------
(* The text of a file that fits is complete, and of one that does not fit the *)
(* lines of its beginning and of its end and the number of bytes between the  *)
(* two are kept, but for the rest of the line at the edge of each, however the*)
(* transfer is cut into chunks (_capped, http.py).                            *)
THEOREM OnlyEdgesAreLost == FetchSpec => []OnlyEdgesLost
<1>1. FetchInit => FetchInv
  BY FetchStarts
<1>2. FetchInv /\ [FetchNext]_fetchVars => FetchInv'
  BY FetchSteps
<1>3. FetchInv => OnlyEdgesLost
  BY EndsSuffice
<1> QED BY <1>1, <1>2, <1>3, PTL DEF FetchSpec
-----------------------------------------------------------------------------
(* Min and Max of a set of places.                                            *)
LEMMA EndsOfPlaces ==
  ASSUME NEW n \in Nat, NEW S \in SUBSET (1 .. n), S # {}
  PROVE  /\ Min(S) \in S /\ Max(S) \in S
         /\ \A i \in S : Min(S) <= i /\ i <= Max(S)
<1>1. S \in SUBSET Nat /\ \A s \in S : s <= n
  OBVIOUS
<1> QED BY <1>1, MinOfNaturals, MaxOfNaturals

(* The last places of some are behind the others.                             *)
LEMMA LastOfPlaces ==
  ASSUME NEW n \in Nat, NEW S \in SUBSET (1 .. n), NEW k \in Nat
  PROVE  /\ LastOf(S, k) \subseteq S
         /\ \A i \in S \ LastOf(S, k), j \in LastOf(S, k) : i < j
<1> DEFINE behind(i) == {j \in S : j > i}
<1> SUFFICES ASSUME NEW i \in S, i \notin LastOf(S, k), NEW j \in LastOf(S, k), ~ (i < j)
             PROVE  FALSE
  BY DEF LastOf
<1>1. j \in S /\ Cardinality(behind(j)) < k /\ ~ (Cardinality(behind(i)) < k)
  BY DEF LastOf
<1>2. behind(i) \subseteq behind(j) /\ behind(j) \subseteq 1 .. n
  <2>1. i \in 1 .. n /\ j \in 1 .. n /\ j <= i
    BY <1>1
  <2>2. \A m \in S : m \in 1 .. n /\ (m > i => m > j)
    BY <2>1
  <2> QED BY <2>2
<1>3. IsFiniteSet(behind(j))
  <2>1. IsFiniteSet(1 .. n)
    BY FS_Interval
  <2> QED BY <2>1, <1>2, FS_Subset
<1> HIDE DEF behind
<1>4. /\ Cardinality(behind(i)) <= Cardinality(behind(j))
      /\ Cardinality(behind(j)) \in Nat /\ Cardinality(behind(i)) \in Nat
  <2>1. IsFiniteSet(behind(i)) /\ Cardinality(behind(i)) <= Cardinality(behind(j))
    BY <1>2, <1>3, FS_Subset
  <2> QED BY <2>1, <1>3, FS_CardinalityType
<1> QED BY <1>1, <1>4

(* What holds for 0, and for a number if for the one before, holds up to n.   *)
LEMMA UpTo ==
  ASSUME NEW n \in Nat, NEW G, 0 \in G, \A i \in 1 .. n : i - 1 \in G => i \in G
  PROVE  \A i \in 0 .. n : i \in G
<1> DEFINE bad == {i \in 0 .. n : i \notin G}
<1> SUFFICES ASSUME bad # {} PROVE FALSE
  OBVIOUS
<1>1. PICK i \in bad : \A j \in bad : i <= j
  <2>1. bad \subseteq Nat
    OBVIOUS
  <2> HIDE DEF bad
  <2> QED BY <2>1, LeastNatural
<1>2. i \in 1 .. n /\ i - 1 \in 0 .. n /\ i - 1 < i /\ i - 1 \in Nat
  BY <1>1
<1>3. i - 1 \notin bad
  BY <1>1, <1>2
<1> QED BY <1>1, <1>2, <1>3

(* A loop over 1 .. n that carries a value has a value after each round.      *)
LEMMA Loop ==
  ASSUME NEW A, NEW start \in A, NEW n \in Nat, NEW step \in [1 .. n -> [A -> A]]
  PROVE  \E f \in [0 .. n -> A] :
           f[0] = start /\ \A i \in 1 .. n : f[i] = step[i][f[i - 1]]
<1> DEFINE Is(f, m) == f[0] = start /\ \A i \in 1 .. m : f[i] = step[i][f[i - 1]]
           G == {m \in 0 .. n : \E f \in [0 .. m -> A] : Is(f, m)}
<1>1. 0 \in G
  <2> DEFINE f == [i \in 0 .. 0 |-> start]
  <2>1. f \in [0 .. 0 -> A]
    OBVIOUS
  <2>3. Is(f, 0)
    OBVIOUS
  <2> HIDE DEF Is, f
  <2> QED BY <2>1, <2>3
<1>2. ASSUME NEW m \in 1 .. n, m - 1 \in G PROVE m \in G
  <2>1. PICK g \in [0 .. m - 1 -> A] : Is(g, m - 1)
    BY <1>2
  <2> DEFINE f == [i \in 0 .. m |-> IF i = m THEN step[m][g[m - 1]] ELSE g[i]]
  <2>2. f \in [0 .. m -> A]
    <3>1. g[m - 1] \in A /\ step[m] \in [A -> A]
      OBVIOUS
    <3> QED BY <3>1
  <2>3. ASSUME NEW i \in 1 .. m PROVE f[i] = step[i][f[i - 1]]
    <3>1. i - 1 # m /\ i - 1 \in 0 .. m /\ f[i - 1] = g[i - 1]
      OBVIOUS
    <3>2. CASE i = m
      BY <3>1, <3>2
    <3>3. CASE i # m
      <4>1. i \in 1 .. m - 1
        BY <3>3
      <4>2. g[i] = step[i][g[i - 1]]
        BY <2>1, <4>1
      <4> QED BY <3>1, <3>3, <4>2
    <3> QED BY <3>2, <3>3
  <2>5. f[0] = start
    BY <2>1
  <2>4. Is(f, m)
    BY <2>3, <2>5
  <2> HIDE DEF f, Is
  <2> QED BY <2>2, <2>4
<1> HIDE DEF G
<1>3. \A m \in 0 .. n : m \in G
  <2>1. \A m \in 1 .. n : m - 1 \in G => m \in G
    BY <1>2
  <2> QED BY <1>1, <2>1, UpTo
<1> QED BY <1>3 DEF G

(* The places in S up to n in groups: those of a group follow each other by   *)
(* gap at most, those of different groups are further apart.                  *)
Grouped(g, S, n, gap) ==
  /\ g \in Seq(SUBSET Nat)
  /\ \A a \in DOMAIN g : g[a] # {} /\ g[a] \subseteq S \cap (1 .. n)
  /\ \A x \in S \cap (1 .. n) : \E a \in DOMAIN g : x \in g[a]
  /\ \A a, b \in DOMAIN g : a < b => \A x \in g[a], y \in g[b] : y - x > gap
  /\ \A a \in DOMAIN g : \A x, y \in g[a] :
       y < x => \E z \in g[a] : z < x /\ x - z <= gap

LEMMA JoinGroups ==
  ASSUME NEW S, NEW gap \in Nat, NEW n \in Nat, n > 0, n \in S,
         NEW g, Grouped(g, S, n - 1, gap)
  PROVE  Grouped(Join(g, n, gap), S, n, gap)
<1> DEFINE last == g[Len(g)]
<1>g. /\ g \in Seq(SUBSET Nat) /\ Len(g) \in Nat /\ DOMAIN g = 1 .. Len(g)
      /\ \A a \in DOMAIN g : g[a] # {} /\ g[a] \subseteq S \cap (1 .. n - 1)
      /\ \A x \in S \cap (1 .. n - 1) : \E a \in DOMAIN g : x \in g[a]
      /\ \A a, b \in DOMAIN g : a < b => \A x \in g[a], y \in g[b] : y - x > gap
      /\ \A a \in DOMAIN g : \A x, y \in g[a] :
           y < x => \E z \in g[a] : z < x /\ x - z <= gap
  BY DEF Grouped
<1>0. g = <<>> <=> Len(g) = 0
  BY <1>g
<1>1. ASSUME g # <<>>
      PROVE  /\ Len(g) \in DOMAIN g /\ Max(last) \in last
             /\ \A x \in last : x <= Max(last)
  <2>1. Len(g) \in DOMAIN g
    BY <1>1, <1>g, <1>0
  <2>2. last # {} /\ last \in SUBSET Nat /\ \A x \in last : x <= n
    BY <1>g, <2>1
  <2> HIDE DEF last
  <2> QED BY <2>1, <2>2, MaxOfNaturals
<1>2. CASE g # <<>> /\ n - Max(last) <= gap
  <2> DEFINE h == [g EXCEPT ![Len(g)] = @ \cup {n}]
  <2>1. Join(g, n, gap) = h
    BY <1>2 DEF Join
  <2>2. /\ h \in Seq(SUBSET Nat) /\ DOMAIN h = DOMAIN g
        /\ h[Len(g)] = last \cup {n}
        /\ \A a \in DOMAIN g : a # Len(g) => h[a] = g[a]
    BY <1>g, <1>1, <1>2
  <2> HIDE DEF h
  <2>3. ASSUME NEW a \in DOMAIN h PROVE h[a] # {} /\ h[a] \subseteq S \cap (1 .. n)
    <3>1. g[a] # {} /\ g[a] \subseteq S \cap (1 .. n)
      BY <1>g, <2>2
    <3>2. h[a] = g[a] \/ h[a] = g[a] \cup {n}
      BY <2>2
    <3> QED BY <3>1, <3>2
  <2>4. \A x \in S \cap (1 .. n) : \E a \in DOMAIN h : x \in h[a]
    <3> SUFFICES ASSUME NEW x \in S, x \in 1 .. n PROVE \E a \in DOMAIN h : x \in h[a]
      OBVIOUS
    <3>1. CASE x = n
      BY <3>1, <2>2, <1>1, <1>2
    <3>2. CASE x # n
      <4>1. PICK a \in DOMAIN g : x \in g[a]
        BY <3>2, <1>g
      <4> QED BY <4>1, <2>2
    <3> QED BY <3>1, <3>2
  <2>5. ASSUME NEW a \in DOMAIN h, NEW b \in DOMAIN h, a < b, NEW x \in h[a], NEW y \in h[b]
        PROVE  y - x > gap
    <3>1. x \in g[a] /\ a # Len(g)
      BY <2>5, <2>2, <1>g
    <3>2. CASE y \in g[b]
      BY <3>1, <3>2, <2>5, <2>2, <1>g
    <3>3. CASE y = n /\ b = Len(g)
      <4>1. Max(last) - x > gap
        <5>1. Len(g) \in DOMAIN g /\ Max(last) \in g[Len(g)] /\ a < Len(g) /\ a \in DOMAIN g
          BY <3>3, <2>5, <2>2, <1>1, <1>2
        <5> HIDE DEF last
        <5> QED BY <5>1, <3>1, <1>g
      <4>2. Max(last) <= n - 1 /\ x \in Nat /\ Max(last) \in Nat
        <5>1. /\ Max(last) \in last /\ last \subseteq 1 .. n - 1
              /\ x \in g[a] /\ a \in DOMAIN g
          BY <1>1, <1>2, <1>g, <3>1, <2>2
        <5>2. x \in 1 .. n - 1
          BY <5>1, <1>g
        <5>3. Max(last) \in 1 .. n - 1
          BY <5>1, Zenon
        <5> HIDE DEF last
        <5> QED BY <5>2, <5>3
      <4> QED BY <4>1, <4>2, <3>3
    <3> QED BY <3>2, <3>3, <2>2, <2>5
  <2>6. ASSUME NEW a \in DOMAIN h, NEW x \in h[a], NEW y \in h[a], y < x
        PROVE  \E z \in h[a] : z < x /\ x - z <= gap
    <3>1. CASE x \in g[a]
      <4>1. y \in g[a]
        BY <3>1, <2>6, <2>2, <1>g
      <4>2. PICK z \in g[a] : z < x /\ x - z <= gap
        BY <3>1, <4>1, <2>6, <2>2, <1>g
      <4>3. z \in h[a]
        BY <4>2, <2>2
      <4> QED BY <4>2, <4>3
    <3>2. CASE x = n /\ a = Len(g)
      <4>1. Max(last) \in h[a] /\ Max(last) < n
        BY <3>2, <2>2, <1>1, <1>2, <1>g
      <4> QED BY <4>1, <3>2, <1>2
    <3> QED BY <3>1, <3>2, <2>2
  <2> QED BY <2>1, <2>2, <2>3, <2>4, <2>5, <2>6 DEF Grouped
<1>3. CASE ~ (g # <<>> /\ n - Max(last) <= gap)
  <2> DEFINE h == Append(g, {n})
  <2>1. Join(g, n, gap) = h
    BY <1>3 DEF Join
  <2>2. /\ h \in Seq(SUBSET Nat) /\ DOMAIN h = 1 .. Len(g) + 1
        /\ h[Len(g) + 1] = {n}
        /\ \A a \in DOMAIN g : h[a] = g[a]
    BY <1>g, AppendProperties
  <2> HIDE DEF h
  <2>d. \A a \in DOMAIN h : (a \in DOMAIN g /\ h[a] = g[a]) \/ (a = Len(g) + 1 /\ h[a] = {n})
    <3>1. \A a \in 1 .. Len(g) + 1 : a \in 1 .. Len(g) \/ a = Len(g) + 1
      BY <1>g
    <3> QED BY <3>1, <2>2, <1>g
  <2>3. ASSUME NEW a \in DOMAIN h PROVE h[a] # {} /\ h[a] \subseteq S \cap (1 .. n)
    <3>1. CASE a \in DOMAIN g /\ h[a] = g[a]
      BY <3>1, <1>g
    <3>2. CASE h[a] = {n}
      BY <3>2
    <3> QED BY <3>1, <3>2, <2>d
  <2>4. \A x \in S \cap (1 .. n) : \E a \in DOMAIN h : x \in h[a]
    <3> SUFFICES ASSUME NEW x \in S, x \in 1 .. n PROVE \E a \in DOMAIN h : x \in h[a]
      OBVIOUS
    <3>1. CASE x = n
      <4>1. Len(g) + 1 \in DOMAIN h
        BY <2>2, <1>g
      <4> QED BY <3>1, <2>2, <4>1
    <3>2. CASE x # n
      <4>1. PICK a \in DOMAIN g : x \in g[a]
        BY <3>2, <1>g
      <4>2. a \in DOMAIN h
        BY <4>1, <2>2, <1>g
      <4> QED BY <4>1, <4>2, <2>2
    <3> QED BY <3>1, <3>2
  <2>5. ASSUME NEW a \in DOMAIN h, NEW b \in DOMAIN h, a < b, NEW x \in h[a], NEW y \in h[b]
        PROVE  y - x > gap
    <3>1. a \in DOMAIN g /\ x \in g[a]
      BY <2>5, <2>d, <2>2, <1>g
    <3>2. CASE b \in DOMAIN g /\ y \in g[b]
      BY <3>1, <3>2, <2>5, <1>g
    <3>3. CASE b = Len(g) + 1 /\ y = n
      <4>1. g # <<>> /\ n - Max(last) > gap /\ x \in Nat /\ Max(last) \in Nat /\ n \in Nat
        BY <3>1, <1>0, <1>1, <1>3, <1>g
      <4>2. x <= Max(last)
        <5>1. CASE a = Len(g)
          BY <5>1, <3>1, <4>1, <1>1
        <5>2. CASE a < Len(g)
          <6>1. Max(last) - x > gap
            BY <5>2, <3>1, <4>1, <1>1, <1>g
          <6> QED BY <6>1, <4>1
        <5> QED BY <5>1, <5>2, <3>1, <1>g
      <4> QED BY <4>1, <4>2, <3>3
    <3> QED BY <3>2, <3>3, <2>d
  <2>6. ASSUME NEW a \in DOMAIN h, NEW x \in h[a], NEW y \in h[a], y < x
        PROVE  \E z \in h[a] : z < x /\ x - z <= gap
    BY <2>6, <2>d, <1>g
  <2> QED BY <2>1, <2>2, <2>3, <2>4, <2>5, <2>6 DEF Grouped
<1> QED BY <1>2, <1>3

(* The loop that groups the places gives these groups.                        *)
LEMMA GroupsAreGrouped ==
  ASSUME NEW S, NEW gap \in Nat, NEW n \in Nat
  PROVE  Grouped(Groups(S, n, gap), S, n, gap)
<1> DEFINE A == Seq(SUBSET Nat)
           round(i, g) == IF i \in S THEN Join(g, i, gap) ELSE g
           step == [i \in 1 .. n |-> [g \in A |-> round(i, g)]]
           Is(f) == f = [i \in 0 .. n |->
                           IF i = 0 THEN <<>>
                           ELSE IF i \in S THEN Join(f[i - 1], i, gap) ELSE f[i - 1]]
<1>1. \A i \in 1 .. n, g \in A : round(i, g) \in A
  <2> SUFFICES ASSUME NEW i \in 1 .. n, NEW g \in A PROVE Join(g, i, gap) \in A
    OBVIOUS
  <2>1. CASE g = <<>>
    BY <2>1 DEF Join
  <2>2. CASE g # <<>>
    <3>1. Append(g, {i}) \in A
      OBVIOUS
    <3>2. [g EXCEPT ![Len(g)] = @ \cup {i}] \in A
      <4>1. Len(g) \in 1 .. Len(g) /\ g[Len(g)] \in SUBSET Nat
        BY <2>2
      <4> QED BY <4>1
    <3> QED BY <3>1, <3>2 DEF Join
  <2> QED BY <2>1, <2>2
<1>2. step \in [1 .. n -> [A -> A]]
  BY <1>1
<1>3. \E f : Is(f)
  <2>1. <<>> \in A
    OBVIOUS
  <2> HIDE DEF A, round
  <2>2. PICK f \in [0 .. n -> A] :
          f[0] = <<>> /\ \A i \in 1 .. n : f[i] = step[i][f[i - 1]]
    <3> HIDE DEF step
    <3> QED BY <1>2, <2>1, Loop
  <2>3. \A i \in 1 .. n : i - 1 \in 0 .. n /\ step[i][f[i - 1]] = round(i, f[i - 1])
    <3>1. \A i \in 1 .. n : i - 1 \in 0 .. n /\ f[i - 1] \in A
      OBVIOUS
    <3> HIDE DEF A
    <3> QED BY <3>1
  <2>4. f = [i \in 0 .. n |-> IF i = 0 THEN <<>> ELSE round(i, f[i - 1])]
    <3> HIDE DEF step
    <3>1. \A i \in 0 .. n : f[i] = IF i = 0 THEN <<>> ELSE round(i, f[i - 1])
      BY <2>2, <2>3
    <3> QED BY <3>1
  <2> QED BY <2>4 DEF round
<1> DEFINE f == CHOOSE f : Is(f)
<1>4. Is(f) /\ Groups(S, n, gap) = f[n]
  BY <1>3 DEF Groups
<1> HIDE DEF f
<1> DEFINE G == {i \in 0 .. n : Grouped(f[i], S, i, gap)}
<1>5. 0 \in G
  <2>1. f[0] = <<>>
    BY <1>4
  <2>2. <<>> \in Seq(SUBSET Nat) /\ DOMAIN <<>> = {} /\ S \cap (1 .. 0) = {}
    OBVIOUS
  <2>3. Grouped(<<>>, S, 0, gap)
    BY <2>2 DEF Grouped
  <2> QED BY <2>1, <2>3
<1>6. ASSUME NEW i \in 1 .. n, i - 1 \in G PROVE i \in G
  <2>1. Grouped(f[i - 1], S, i - 1, gap) /\ i \in Nat /\ i > 0
    BY <1>6
  <2>2. f[i] = IF i \in S THEN Join(f[i - 1], i, gap) ELSE f[i - 1]
    BY <1>4
  <2>3. CASE i \in S
    BY <2>1, <2>2, <2>3, JoinGroups
  <2>4. CASE i \notin S
    <3>1. S \cap (1 .. i - 1) = S \cap (1 .. i)
      BY <2>4
    <3> QED BY <3>1, <2>1, <2>2, <2>4 DEF Grouped
  <2> QED BY <2>3, <2>4
<1>7. \A i \in 0 .. n : i \in G
  <2>1. \A i \in 1 .. n : i - 1 \in G => i \in G
    BY <1>6
  <2> HIDE DEF G
  <2> QED BY <1>5, <2>1, UpTo
<1> QED BY <1>4, <1>7

(* The smaller and the larger of two numbers.                                 *)
LEMMA OfTwo ==
  ASSUME NEW a \in Int, NEW b \in Int
  PROVE  /\ Min({a, b}) = IF a <= b THEN a ELSE b
         /\ Max({a, b}) = IF a >= b THEN a ELSE b
<1>1. CASE a <= b
  <2>1. Min({a, b}) = a
    BY <1>1 DEF Min
  <2>2. Max({a, b}) = b
    BY <1>1 DEF Max
  <2> QED BY <1>1, <2>1, <2>2
<1>2. CASE a > b
  <2>1. Min({a, b}) = b
    BY <1>2 DEF Min
  <2>2. Max({a, b}) = a
    BY <1>2 DEF Max
  <2> QED BY <1>2, <2>1, <2>2
<1> QED BY <1>1, <1>2
-----------------------------------------------------------------------------
(* The line of a log at which a range starts or ends: the last one with the   *)
(* marker, a command line if there is one.                                    *)
Best(log, m) ==
  {i \in DOMAIN log : Has(log[i], m) /\
     \A j \in DOMAIN log : Has(log[j], m) =>
       \/ log[j] # log[i] /\ log[j] = m
       \/ log[j] = log[i] /\ j <= i}

(* MatchIndex finds it.                                                       *)
LEMMA MatchIndexIsBest ==
  ASSUME NEW log \in Seq(RangeKinds), NEW m \in {"start", "end"}
  PROVE  /\ MatchIndex(log, m) \in 0 .. Len(log)
         /\ Best(log, m) = IF MatchIndex(log, m) = 0 THEN {} ELSE {MatchIndex(log, m)}
<1> DEFINE matches == {i \in DOMAIN log : Has(log[i], m)}
           commands == {i \in matches : log[i] # m}
           chosen == IF commands # {} THEN commands ELSE matches
           at == Max({0} \cup chosen)
<1>1. /\ Len(log) \in Nat /\ DOMAIN log = 1 .. Len(log)
      /\ \A i \in DOMAIN log : log[i] \in RangeKinds
  BY LenProperties, ElementOfSeq
<1>2. at \in {0} \cup chosen /\ \A i \in {0} \cup chosen : i <= at
  <2>1. {0} \cup chosen \in SUBSET Nat /\ \A i \in {0} \cup chosen : i <= Len(log)
    BY <1>1
  <2> HIDE DEF chosen
  <2> QED BY <1>1, <2>1, MaxOfNaturals
<1>3. MatchIndex(log, m) = at
  BY DEF MatchIndex
<1>4. chosen \subseteq 1 .. Len(log)
  BY <1>1
<1>5. at = 0 <=> matches = {}
  <2>1. matches = {} => chosen = {}
    OBVIOUS
  <2>2. matches # {} => chosen # {}
    OBVIOUS
  <2> HIDE DEF at, chosen, matches
  <2>3. CASE matches = {}
    BY <1>2, <2>1, <2>3
  <2>4. CASE matches # {}
    <3>1. PICK i \in chosen : i \in 1 .. Len(log)
      BY <1>4, <2>2, <2>4
    <3>2. i <= at /\ at \in 0 .. Len(log)
      BY <1>1, <1>2, <1>4, <3>1
    <3> QED BY <1>1, <2>4, <3>1, <3>2
  <2> QED BY <2>3, <2>4
<1>6. \A i, j \in matches : log[i] # m /\ log[j] # m => log[i] = log[j]
  BY <1>1 DEF Has, RangeKinds
<1>7. ASSUME matches # {} PROVE Best(log, m) = {at}
  <2>1. at \in chosen
    BY <1>2, <1>5, <1>7
  <2>2. at \in Best(log, m)
    <3>1. ASSUME NEW j \in matches
          PROVE  \/ log[j] # log[at] /\ log[j] = m
                 \/ log[j] = log[at] /\ j <= at
      <4>1. CASE commands = {}
        BY <1>2, <4>1
      <4>2. CASE commands # {}
        BY <1>2, <1>6, <2>1, <4>2
      <4> QED BY <4>1, <4>2
    <3> QED BY <2>1, <3>1 DEF Best
  <2>3. ASSUME NEW i \in Best(log, m) PROVE i = at
    <3>1. /\ i \in matches /\ at \in matches
          /\ i \in Nat /\ at \in Nat
      BY <1>1, <2>1 DEF Best
    <3>2. \/ log[at] # log[i] /\ log[at] = m
          \/ log[at] = log[i] /\ at <= i
      BY <3>1 DEF Best
    <3>3. \/ log[i] # log[at] /\ log[i] = m
          \/ log[i] = log[at] /\ i <= at
      BY <2>2, <3>1 DEF Best
    <3> QED BY <3>1, <3>2, <3>3
  <2> QED BY <2>2, <2>3
<1>8. matches = {} => Best(log, m) = {}
  BY DEF Best
<1> HIDE DEF at, matches
<1>9. at \in 0 .. Len(log)
  BY <1>1, <1>2, <1>4
<1> QED BY <1>3, <1>5, <1>7, <1>8, <1>9

(* What is shown of a range, and how much is left out.                        *)
Spans(log, range) ==
  LET shown == range.first \o range.last
  IN  /\ (Best(log, "start") = {}) = (shown = <<>>)
      /\ Len(shown) <= 2 * Context
      /\ shown # <<>> =>
           /\ Best(log, "start") = {shown[1]}
           /\ \A i \in Best(log, "end") : i >= shown[1] =>
                /\ Last(shown) = i
                /\ Len(shown) + range.omitted = i - shown[1] + 1

(* The first and the last of some lines.                                      *)
LEMMA EndsOfBytes ==
  \A a \in Nat, b \in Int : a <= b =>
    /\ Bytes(a, b) \in Seq(Nat) /\ Len(Bytes(a, b)) = b - a + 1
    /\ Bytes(a, b)[1] = a /\ Bytes(a, b)[b - a + 1] = b
<1> SUFFICES ASSUME NEW a \in Nat, NEW b \in Int, a <= b
             PROVE  /\ Bytes(a, b) \in Seq(Nat) /\ Len(Bytes(a, b)) = b - a + 1
                    /\ Bytes(a, b)[1] = a /\ Bytes(a, b)[b - a + 1] = b
  OBVIOUS
<1>1. Bytes(a, b)[1] = a /\ Bytes(a, b)[b - a + 1] = b
  BY DEF Bytes
<1> QED BY <1>1, BytesSeq

(* find_log_range shows the range, or as much of it as the limit allows.      *)
LEMMA RangeIsSpanned ==
  ASSUME NEW log \in Seq(RangeKinds)
  PROVE  Spans(log, FindLogRange(log, 2 * Context))
<1> DEFINE max == 2 * Context
           start == MatchIndex(log, "start")
           end == MatchIndex(log, "end")
           range == FindLogRange(log, max)
<1> SUFFICES Spans(log, range)
  OBVIOUS
<1>1. /\ start \in 0 .. Len(log) /\ end \in 0 .. Len(log) /\ Len(log) \in Nat
      /\ Best(log, "start") = IF start = 0 THEN {} ELSE {start}
      /\ Best(log, "end") = IF end = 0 THEN {} ELSE {end}
  BY MatchIndexIsBest, LenProperties
<1>2. Context \in Nat /\ Context > 0 /\ max \div 2 = Context
  BY AnalysisAssumption
<1>8. range =
        CASE start = 0 -> [first |-> <<>>, omitted |-> 0, last |-> <<>>]
          [] start > 0 /\ end < start ->
               [first |-> Bytes(start, Min({Len(log), start + max - 1})),
                omitted |-> 0, last |-> <<>>]
          [] start > 0 /\ end >= start /\ end - start + 1 > max ->
               [first |-> Bytes(start, start + max \div 2 - 1),
                omitted |-> end - start + 1 - max,
                last |-> Bytes(end - max \div 2 + 1, end)]
          [] OTHER -> [first |-> Bytes(start, end), omitted |-> 0, last |-> <<>>]
  BY Zenon DEF FindLogRange, Bytes
<1>9. max = Context + Context
  BY <1>2
<1> HIDE DEF start, end, range, max
<1>3. CASE start = 0
  <2>1. range = [first |-> <<>>, omitted |-> 0, last |-> <<>>]
    BY <1>3, <1>8
  <2> HIDE DEF range
  <2>2. range.first \o range.last = <<>>
    BY <2>1
  <2>3. Best(log, "start") = {}
    BY <1>1, <1>3
  <2> QED BY <1>2, <2>2, <2>3, <1>9 DEF Spans, max
<1>4. ASSUME start > 0, NEW s \in Seq(Nat), NEW n \in Nat,
             range.first \o range.last = s, range.omitted = n,
             Len(s) > 0, Len(s) <= max, s[1] = start,
             end >= start => s[Len(s)] = end /\ Len(s) + n = end - start + 1
      PROVE  Spans(log, range)
    <2>1. s # <<>> /\ Best(log, "start") = {s[1]} /\ Len(s) <= 2 * Context
    BY <1>1, <1>2, <1>4, <1>9
  <2>2. ASSUME NEW i \in Best(log, "end"), i >= s[1]
        PROVE  Last(s) = i /\ Len(s) + n = i - s[1] + 1
    <3>1. i = end
      BY <1>1
    <3>2. Last(s) = s[Len(s)]
      BY DEF Last
    <3> QED BY <1>4, <2>2, <3>1, <3>2
  <2>3. (Best(log, "start") = {}) = (s = <<>>)
    BY <2>1
  <2> QED BY <1>4, <2>1, <2>2, <2>3, Zenon DEF Spans
<1>5. CASE start > 0 /\ end < start
  <2> DEFINE to == Min({Len(log), start + max - 1})
  <2>1. /\ to \in Nat /\ start <= to /\ to <= start + max - 1
    <3>1. Len(log) \in Int /\ start + max - 1 \in Int
      BY <1>1, <1>2, <1>9
    <3>2. to = IF Len(log) <= start + max - 1 THEN Len(log) ELSE start + max - 1
      BY <3>1, OfTwo, Zenon
    <3> QED BY <1>1, <1>2, <1>5, <1>9, <3>2
  <2>2. range = [first |-> Bytes(start, to), omitted |-> 0, last |-> <<>>]
    BY <1>1, <1>5, <1>8
  <2> HIDE DEF to
  <2>0. start \in Nat /\ to \in Int
    BY <1>1, <2>1
  <2>3. /\ Bytes(start, to) \in Seq(Nat) /\ Len(Bytes(start, to)) = to - start + 1
        /\ Bytes(start, to)[1] = start
    BY <2>0, <2>1, EndsOfBytes
  <2>4. range.first \o range.last = Bytes(start, to) /\ range.omitted = 0
    BY <2>2, <2>3
  <2>9. /\ start > 0 /\ Bytes(start, to) \in Seq(Nat) /\ 0 \in Nat
        /\ Len(Bytes(start, to)) > 0 /\ Len(Bytes(start, to)) <= max
        /\ Bytes(start, to)[1] = start
        /\ end >= start => /\ Bytes(start, to)[Len(Bytes(start, to))] = end
                          /\ Len(Bytes(start, to)) + 0 = end - start + 1
    BY <1>1, <1>2, <1>5, <1>9, <2>1, <2>3
  <2> QED BY <1>4, <2>4, <2>9, Zenon
<1>6. CASE start > 0 /\ end >= start /\ end - start + 1 > max
  <2>1. range = [first |-> Bytes(start, start + Context - 1),
                 omitted |-> end - start + 1 - max,
                 last |-> Bytes(end - Context + 1, end)]
    BY <1>1, <1>2, <1>6, <1>8
  <2>2. /\ Bytes(start, start + Context - 1) \in Seq(Nat)
        /\ Len(Bytes(start, start + Context - 1)) = Context
        /\ Bytes(start, start + Context - 1)[1] = start
    <3>1. /\ start \in Nat /\ start + Context - 1 \in Int
          /\ start <= start + Context - 1 /\ start <= (start + Context - 1) + 1
          /\ (start + Context - 1) - start + 1 = Context
      BY <1>1, <1>2
    <3> QED BY <3>1, EndsOfBytes, Zenon
  <2>3. /\ Bytes(end - Context + 1, end) \in Seq(Nat)
        /\ Len(Bytes(end - Context + 1, end)) = Context
        /\ Bytes(end - Context + 1, end)[Context] = end
    <3>1. /\ end - Context + 1 \in Nat /\ end \in Int
          /\ end - Context + 1 <= end /\ end - Context + 1 <= end + 1
          /\ end - (end - Context + 1) + 1 = Context
      BY <1>1, <1>2, <1>6, <1>9
    <3>2. /\ Bytes(end - Context + 1, end) \in Seq(Nat)
          /\ Len(Bytes(end - Context + 1, end)) = end - (end - Context + 1) + 1
          /\ Bytes(end - Context + 1, end)[end - (end - Context + 1) + 1] = end
      BY <3>1, EndsOfBytes, Zenon
    <3> QED BY <3>1, <3>2
  <2> DEFINE s == Bytes(start, start + Context - 1) \o Bytes(end - Context + 1, end)
  <2>4. /\ s \in Seq(Nat) /\ Len(s) = Context + Context
        /\ s[1] = start /\ s[Context + Context] = end
    <3> DEFINE p == Bytes(start, start + Context - 1)
               q == Bytes(end - Context + 1, end)
    <3>1. /\ p \in Seq(Nat) /\ Len(p) = Context /\ p[1] = start
          /\ q \in Seq(Nat) /\ Len(q) = Context /\ q[Context] = end
      BY <2>2, <2>3
    <3> HIDE DEF p, q
    <3>2. p \o q \in Seq(Nat) /\ Len(p \o q) = Context + Context
      BY <1>2, <3>1, ConcatProperties, Zenon
    <3>3. (p \o q)[1] = start /\ (p \o q)[Context + Context] = end
      BY <1>2, <3>1
    <3> QED BY <3>2, <3>3 DEF p, q
  <2>5. range.first \o range.last = s /\ range.omitted = end - start + 1 - max
    BY <2>1
  <2> HIDE DEF s
  <2>9. /\ start > 0 /\ s \in Seq(Nat) /\ end - start + 1 - max \in Nat
        /\ Len(s) > 0 /\ Len(s) <= max
        /\ s[1] = start
        /\ end >= start => /\ s[Len(s)] = end
                          /\ Len(s) + (end - start + 1 - max) = end - start + 1
    BY <1>1, <1>2, <1>6, <1>9, <2>4
  <2> QED BY <1>4, <2>5, <2>9, Zenon
<1>7. CASE start > 0 /\ end >= start /\ ~ (end - start + 1 > max)
  <2>1. range = [first |-> Bytes(start, end), omitted |-> 0, last |-> <<>>]
    BY <1>1, <1>7, <1>8
  <2>0. start \in Nat /\ end \in Int /\ start <= end
    BY <1>1, <1>7
  <2>2. /\ Bytes(start, end) \in Seq(Nat) /\ Len(Bytes(start, end)) = end - start + 1
        /\ Bytes(start, end)[1] = start
        /\ Bytes(start, end)[end - start + 1] = end
    BY <2>0, EndsOfBytes
  <2>3. range.first \o range.last = Bytes(start, end) /\ range.omitted = 0
    BY <2>1, <2>2
  <2>9. /\ start > 0 /\ Bytes(start, end) \in Seq(Nat) /\ 0 \in Nat
        /\ Len(Bytes(start, end)) > 0 /\ Len(Bytes(start, end)) <= max
        /\ Bytes(start, end)[1] = start
        /\ end >= start => /\ Bytes(start, end)[Len(Bytes(start, end))] = end
                          /\ Len(Bytes(start, end)) + 0 = end - start + 1
    BY <1>1, <1>2, <1>7, <1>9, <2>2
  <2> QED BY <1>4, <2>3, <2>9, Zenon
<1> QED BY <1>1, <1>2, <1>3, <1>5, <1>6, <1>7
-----------------------------------------------------------------------------
(* Lists of failed runs, and where a group is in the order of the groups: by  *)
(* flavor, by size and by the first run.                                      *)
Kinds == [flavor : BOOLEAN, modules : BOOLEAN]
Lists == UNION {[1 .. n -> Kinds] : n \in 1 .. RunsBound}
Foreign(k) == IF k.flavor THEN 0 ELSE 1

(* A list has finitely many groups, each with a size and a first run.         *)
LEMMA GroupsOfList ==
  ASSUME NEW runs \in Lists
  PROVE  /\ ToSet(runs) \subseteq Kinds /\ IsFiniteSet(ToSet(runs))
         /\ \A k \in ToSet(runs) :
              /\ Count(runs, k) \in Nat
              /\ FirstOf(runs, k) \in Nat /\ runs[FirstOf(runs, k)] = k
<1>1. PICK n \in 1 .. RunsBound : runs \in [1 .. n -> Kinds]
  BY DEF Lists
<1>2. n \in Nat /\ DOMAIN runs = 1 .. n
  BY <1>1, AnalysisAssumption
<1>3. IsFiniteSet(1 .. n) /\ 1 .. n \subseteq Nat
  BY <1>2, FS_Interval
<1>4. ToSet(runs) \subseteq Kinds
  BY <1>1, <1>2 DEF ToSet
<1>5. IsFiniteSet(ToSet(runs))
  <2>1. runs \in Surjection(1 .. n, ToSet(runs))
    <3>1. runs \in [1 .. n -> ToSet(runs)]
      BY <1>1, <1>2 DEF ToSet
    <3>2. \A k \in ToSet(runs) : \E i \in 1 .. n : runs[i] = k
      BY <1>2 DEF ToSet
    <3> QED BY <3>1, <3>2 DEF Surjection
  <2> QED BY <1>3, <2>1, FS_Surjection
<1>6. ASSUME NEW k \in ToSet(runs)
      PROVE  /\ Count(runs, k) \in Nat
             /\ FirstOf(runs, k) \in Nat /\ runs[FirstOf(runs, k)] = k
  <2> DEFINE places == {i \in DOMAIN runs : runs[i] = k}
  <2>1. places \in SUBSET (1 .. n) /\ places \subseteq Nat /\ places # {}
    BY <1>2, <1>3 DEF ToSet
  <2>2. IsFiniteSet(places)
    BY <1>3, <2>1, FS_Subset
  <2>3. Cardinality(places) \in Nat
    BY <2>2, FS_CardinalityType
  <2>4. Min(places) \in places
    BY <2>1, MinOfNaturals
  <2> QED BY <2>1, <2>3, <2>4 DEF Count, FirstOf
<1> QED BY <1>4, <1>5, <1>6

(* The order of the groups in numbers.                                        *)
LEMMA OrderInNumbers ==
  ASSUME NEW runs \in Lists, NEW j \in ToSet(runs), NEW k \in ToSet(runs)
  PROVE  /\ RanksBefore(runs, j, k) <=>
              \/ Foreign(j) < Foreign(k)
              \/ Foreign(j) = Foreign(k) /\ Count(runs, j) > Count(runs, k)
         /\ Foreign(j) \in {0, 1}
<1>1. j.flavor \in BOOLEAN /\ k.flavor \in BOOLEAN
  BY GroupsOfList DEF Kinds
<1>2. (j.flavor /\ ~ k.flavor) <=> Foreign(j) < Foreign(k)
  BY <1>1 DEF Foreign
<1>3. (j.flavor = k.flavor) <=> Foreign(j) = Foreign(k)
  BY <1>1 DEF Foreign
<1>4. Foreign(j) \in {0, 1}
  BY DEF Foreign
<1> QED BY <1>2, <1>3, <1>4, Zenon DEF RanksBefore

(* It is a strict order, and total.                                           *)
LEMMA OrderOfGroups ==
  ASSUME NEW runs \in Lists
  PROVE  \A i, j, k \in ToSet(runs) :
           /\ ~ ComesBefore(runs, j, j)
           /\ j = k \/ ComesBefore(runs, j, k) \/ ComesBefore(runs, k, j)
           /\ ComesBefore(runs, i, j) /\ ComesBefore(runs, j, k) => ComesBefore(runs, i, k)
<1> DEFINE groups == ToSet(runs)
<1>1. \A k \in groups : /\ Count(runs, k) \in Int /\ FirstOf(runs, k) \in Int
                        /\ Foreign(k) \in Int
  BY GroupsOfList, OrderInNumbers
<1>2. \A j, k \in groups : FirstOf(runs, j) = FirstOf(runs, k) => j = k
  BY GroupsOfList
<1>3. \A j, k \in groups :
        ComesBefore(runs, j, k) <=>
          \/ Foreign(j) < Foreign(k)
          \/ /\ Foreign(j) = Foreign(k)
             /\ \/ Count(runs, j) > Count(runs, k)
                \/ Count(runs, j) = Count(runs, k) /\ FirstOf(runs, j) < FirstOf(runs, k)
  BY <1>1, OrderInNumbers DEF ComesBefore
<1> HIDE DEF groups
<1> QED BY <1>1, <1>2, <1>3 DEF groups

(* The first n groups are n at most, and with a group those before it.        *)
LEMMA FirstGroupsProperties ==
  ASSUME NEW runs \in Lists, NEW groups \in SUBSET ToSet(runs), NEW n \in Nat
  PROVE  LET first == FirstGroups(runs, groups, n)
         IN  /\ first \subseteq groups /\ IsFiniteSet(first) /\ Cardinality(first) \in 0 .. n
             /\ \A k \in first, j \in groups : ComesBefore(runs, j, k) => j \in first
<1> DEFINE ahead(k) == {j \in groups : ComesBefore(runs, j, k)}
           first == FirstGroups(runs, groups, n)
<1>1. IsFiniteSet(groups)
  BY GroupsOfList, FS_Subset
<1>2. \A k \in groups : IsFiniteSet(ahead(k)) /\ Cardinality(ahead(k)) \in Nat
  <2> SUFFICES ASSUME NEW k \in groups
               PROVE  IsFiniteSet(ahead(k)) /\ Cardinality(ahead(k)) \in Nat
    OBVIOUS
  <2>1. ahead(k) \in SUBSET groups
    OBVIOUS
  <2> HIDE DEF ahead
  <2> QED BY <1>1, <2>1, FS_Subset, FS_CardinalityType
<1>3. first = {k \in groups : Cardinality(ahead(k)) < n}
  BY DEF FirstGroups
<1>4. \A j, k \in groups : ComesBefore(runs, j, k) => ahead(j) \subseteq ahead(k) \ {j} /\ j \in ahead(k)
  BY OrderOfGroups
<1>5. ASSUME NEW j \in groups, NEW k \in groups, ComesBefore(runs, j, k)
      PROVE  Cardinality(ahead(j)) < Cardinality(ahead(k))
  <2>1. /\ ahead(j) \in SUBSET (ahead(k) \ {j}) /\ j \in ahead(k)
        /\ IsFiniteSet(ahead(k)) /\ Cardinality(ahead(k)) \in Nat
        /\ Cardinality(ahead(j)) \in Nat
    BY <1>2, <1>4, <1>5
  <2> HIDE DEF ahead
  <2>2. /\ IsFiniteSet(ahead(k) \ {j})
        /\ Cardinality(ahead(k) \ {j}) = Cardinality(ahead(k)) - 1
    BY <2>1, FS_RemoveElement
  <2>3. Cardinality(ahead(j)) <= Cardinality(ahead(k) \ {j})
    BY <2>1, <2>2, FS_Subset
  <2> QED BY <2>1, <2>2, <2>3
<1> HIDE DEF ahead, first
<1>6. first \subseteq groups /\ IsFiniteSet(first) /\ Cardinality(first) \in Nat
  <2>1. first \in SUBSET groups
    BY <1>3
  <2> QED BY <1>1, <2>1, FS_Subset, FS_CardinalityType
<1>7. \A k \in first, j \in groups : ComesBefore(runs, j, k) => j \in first
  BY <1>2, <1>3, <1>5
<1>8. Cardinality(first) <= n
  <2>1. CASE first = {}
    BY <2>1, FS_EmptySet
  <2>2. CASE first # {}
    <3> DEFINE counts == {Cardinality(ahead(k)) : k \in first}
    <3>1. counts \in SUBSET Nat /\ counts # {} /\ \A c \in counts : c <= n
      BY <1>2, <1>3, <2>2
    <3>2. Max(counts) \in counts /\ \A c \in counts : c <= Max(counts)
      BY <3>1, MaxOfNaturals
    <3>3. PICK k \in first : \A j \in first : Cardinality(ahead(j)) <= Cardinality(ahead(k))
      BY <3>2
    <3>4. first \ {k} \in SUBSET ahead(k)
      <4> SUFFICES ASSUME NEW j \in first, j # k PROVE j \in ahead(k)
        OBVIOUS
      <4>1. ~ ComesBefore(runs, k, j)
        BY <1>2, <1>5, <1>6, <3>3
      <4> QED BY <1>4, <1>6, <4>1, OrderOfGroups
    <3>5. /\ Cardinality(first \ {k}) = Cardinality(first) - 1
          /\ Cardinality(first \ {k}) <= Cardinality(ahead(k))
          /\ Cardinality(ahead(k)) < n /\ Cardinality(ahead(k)) \in Nat
      BY <1>2, <1>3, <1>6, <3>4, FS_RemoveElement, FS_Subset
    <3> QED BY <1>6, <3>5
  <2> QED BY <2>1, <2>2
<1> QED BY <1>6, <1>7, <1>8 DEF first

(* No group of another flavor is shown or requested before one of the flavor  *)
(* of the job.                                                                *)
OwnFirst(runs, groups) ==
  \A j, k \in ToSet(runs) :
    j.flavor /\ ~ k.flavor =>
      /\ k \in groups.shown => j \in groups.shown
      /\ k \in groups.requested /\ j.modules => j \in groups.requested

(* _failure_groups keeps the budget, and the order.                           *)
LEMMA FailureGroupsProperties ==
  ASSUME NEW runs \in Lists, fetched \in Nat, fetched <= MaxFetches
  PROVE  /\ OwnFirst(runs, FailureGroups(runs))
         /\ Cardinality(FailureGroups(runs).requested) \in 0 .. MaxFetches - fetched
<1> DEFINE shown == FirstGroups(runs, ToSet(runs), MaxGroups)
           wanted == {k \in shown : k.modules}
           requested == FirstGroups(runs, wanted, Budget)
<1>1. FailureGroups(runs).shown = shown /\ FailureGroups(runs).requested = requested
  BY DEF FailureGroups
<1>2. Budget = MaxFetches - fetched /\ Budget \in Nat
  <2>1. MaxFetches - fetched \in Int /\ 0 \in Int
    BY AnalysisAssumption
  <2>2. Budget = IF MaxFetches - fetched >= 0 THEN MaxFetches - fetched ELSE 0
    BY <2>1, OfTwo DEF Budget
  <2> QED BY <2>2, AnalysisAssumption
<1>3. /\ shown \subseteq ToSet(runs)
      /\ \A k \in shown, j \in ToSet(runs) : ComesBefore(runs, j, k) => j \in shown
  <2>1. ToSet(runs) \in SUBSET ToSet(runs) /\ MaxGroups \in Nat
    BY AnalysisAssumption
  <2> QED BY <2>1, FirstGroupsProperties
<1>4. wanted \in SUBSET ToSet(runs)
  BY <1>3
<1> HIDE DEF shown
<1>5. /\ requested \subseteq wanted /\ Cardinality(requested) \in 0 .. Budget
      /\ \A k \in requested, j \in wanted : ComesBefore(runs, j, k) => j \in requested
  <2> HIDE DEF wanted
  <2> QED BY <1>2, <1>4, FirstGroupsProperties
<1> HIDE DEF requested
<1>6. ASSUME NEW j \in ToSet(runs), NEW k \in ToSet(runs), j.flavor, ~ k.flavor
      PROVE  ComesBefore(runs, j, k)
  BY <1>6 DEF ComesBefore, RanksBefore
<1>7. OwnFirst(runs, FailureGroups(runs))
  <2> SUFFICES ASSUME NEW j \in ToSet(runs), NEW k \in ToSet(runs), j.flavor, ~ k.flavor
               PROVE  /\ k \in shown => j \in shown
                      /\ k \in requested /\ j.modules => j \in requested
    BY <1>1, Zenon DEF OwnFirst
  <2>1. ComesBefore(runs, j, k)
    BY <1>6
  <2>2. k \in shown => j \in shown
    BY <1>3, <2>1
  <2>3. ASSUME k \in requested, j.modules PROVE j \in requested
    <3>1. j \in wanted
      BY <1>5, <2>2, <2>3
    <3> QED BY <1>5, <2>1, <2>3, <3>1
  <2> QED BY <2>2, <2>3
<1> QED BY <1>1, <1>2, <1>5, <1>7
-----------------------------------------------------------------------------
(* What a report of a console says of its crashes.                            *)
CrashShown(log, crash, oops) ==
  LET fatal == {i \in DOMAIN log : log[i] = "fatal"}
      begins == {i \in fatal : fatal \cap (i - EventGap .. i - 1) = {}}
      ends(i) == Max({j \in fatal : j >= i /\ begins \cap (i + 1 .. j) = {}})
      triggered(i) == \E s \in i - LookBack .. ends(i) :
                        s \in DOMAIN log /\ log[s] = "sysrq"
      untriggered == {i \in begins : ~ triggered(i)}
  IN  /\ (fatal = {}) = (crash.first = 0)
      /\ untriggered # {} =>
           crash.first = Max(untriggered) /\ crash.first \in crash.lines
      /\ crash.expected = (Cardinality(begins) = 1 /\ untriggered = {})
      /\ oops > 0 =>
           \E t \in begins \ untriggered, u \in untriggered :
             t < u /\ oops \in u .. ends(u)

(* _crash_report and kdump_oops_symbol on any console.                        *)
LEMMA CrashIsShown ==
  ASSUME NEW log \in Seq(ConsoleKinds)
  PROVE  CrashShown(log, CrashReport(log), KdumpOops(log))
<1> DEFINE fatal == {i \in DOMAIN log : log[i] = "fatal"}
           begins == {i \in fatal : fatal \cap (i - EventGap .. i - 1) = {}}
           span(i) == {j \in fatal : j >= i /\ begins \cap (i + 1 .. j) = {}}
           ends(i) == Max(span(i))
           triggered(i) == \E s \in i - LookBack .. ends(i) :
                             s \in DOMAIN log /\ log[s] = "sysrq"
           untriggered == {i \in begins : ~ triggered(i)}
           crash == CrashReport(log)
           events == FatalEvents(log)
           first(a) == Min(events[a])
           last(a) == Max(events[a])
           n == Len(log)
<1>0. /\ n \in Nat /\ DOMAIN log = 1 .. n
      /\ EventGap \in Nat /\ LookBack \in Nat /\ EventBefore \in Nat /\ EventAfter \in Nat
      /\ Context \in Nat
  BY TextAssumption, AnalysisAssumption
<1>1. Grouped(events, fatal, n, EventGap)
  BY <1>0, GroupsAreGrouped DEF FatalEvents
<1>2. /\ events \in Seq(SUBSET Nat) /\ DOMAIN events = 1 .. Len(events) /\ Len(events) \in Nat
      /\ \A a \in DOMAIN events : events[a] # {} /\ events[a] \subseteq fatal
      /\ \A x \in fatal : \E a \in DOMAIN events : x \in events[a]
      /\ \A a, b \in DOMAIN events : a < b =>
           \A x \in events[a], y \in events[b] : y - x > EventGap
      /\ \A a \in DOMAIN events : \A x, y \in events[a] :
           y < x => \E z \in events[a] : z < x /\ x - z <= EventGap
  <2>1. fatal \cap (1 .. n) = fatal
    BY <1>0
  <2> HIDE DEF events, fatal
  <2> QED BY <1>1, <2>1 DEF Grouped
<1>3. fatal \subseteq 1 .. n
  BY <1>0
<1>4. ASSUME NEW a \in DOMAIN events
      PROVE  /\ first(a) \in events[a] /\ last(a) \in events[a]
             /\ \A x \in events[a] : first(a) <= x /\ x <= last(a)
             /\ first(a) \in 1 .. n /\ last(a) \in 1 .. n
  <2>1. events[a] # {} /\ events[a] \in SUBSET (1 .. n)
    BY <1>2, <1>3
  <2> HIDE DEF events
  <2> QED BY <1>0, <2>1, EndsOfPlaces
<1> HIDE DEF events, fatal, first, last, n
<1>5. ASSUME NEW a \in DOMAIN events PROVE first(a) \in begins
  <2>1. first(a) \in fatal
    BY <1>2, <1>4
  <2>2. ASSUME NEW j \in fatal, j \in first(a) - EventGap .. first(a) - 1 PROVE FALSE
    <3>1. PICK b \in DOMAIN events : j \in events[b]
      BY <1>2
    <3>2. j \in 1 .. n /\ first(a) \in 1 .. n
      BY <1>3, <1>4
    <3>3. CASE b = a
      BY <3>1, <3>2, <3>3, <2>2, <1>4, <1>0
    <3>4. CASE b < a
      <4>1. first(a) - j > EventGap
        BY <3>1, <3>4, <1>2, <1>4
      <4> QED BY <4>1, <3>2, <2>2, <1>0
    <3>5. CASE b > a
      <4>1. j - first(a) > EventGap
        BY <3>1, <3>5, <1>2, <1>4
      <4> QED BY <4>1, <3>2, <2>2, <1>0
    <3> QED BY <3>3, <3>4, <3>5, <1>2
  <2> QED BY <2>1, <2>2
<1>6. ASSUME NEW i \in begins PROVE \E a \in DOMAIN events : i = first(a)
  <2>1. PICK a \in DOMAIN events : i \in events[a]
    BY <1>2
  <2>2. CASE first(a) # i
    <3>1. first(a) < i /\ first(a) \in events[a] /\ i \in 1 .. n
      BY <2>1, <2>2, <1>3, <1>4, <1>0
    <3>2. PICK z \in events[a] : z < i /\ i - z <= EventGap
      BY <3>1, <2>1, <1>2
    <3>3. z \in fatal /\ z \in 1 .. n
      BY <3>2, <1>2, <1>3
    <3>4. z \in i - EventGap .. i - 1
      BY <3>1, <3>2, <3>3, <1>0
    <3> QED BY <3>3, <3>4
  <2> QED BY <2>1, <2>2
<1>7. ASSUME NEW a \in DOMAIN events, NEW b \in DOMAIN events, a < b,
             NEW x \in events[a], NEW y \in events[b]
      PROVE  x < y
  <2>1. y - x > EventGap /\ x \in 1 .. n /\ y \in 1 .. n
    BY <1>7, <1>2, <1>3
  <2> QED BY <2>1, <1>0
<1>8. ASSUME NEW a \in DOMAIN events PROVE ends(first(a)) = last(a)
  <2>1. ASSUME NEW j \in events[a] PROVE j \in span(first(a))
    <3>1. j \in fatal /\ j >= first(a)
      BY <1>2, <1>4
    <3>2. ASSUME NEW i \in begins, i \in first(a) + 1 .. j PROVE FALSE
      <4>1. PICK b \in DOMAIN events : i = first(b)
        BY <1>6
      <4>2. i \in events[b] /\ first(a) \in events[a] /\ i \in 1 .. n
            /\ first(a) \in 1 .. n /\ j \in 1 .. n
        BY <4>1, <1>4, <3>1, <1>3
      <4>3. a # b /\ ~ (b < a) /\ ~ (a < b)
        <5>1. a # b
          BY <4>1, <4>2, <3>2
        <5>2. ~ (b < a)
          <6>1. b < a => i < first(a)
            BY <4>2, <1>7
          <6> QED BY <6>1, <4>2, <3>2
        <5>3. ~ (a < b)
          <6>1. a < b => j < i
            BY <4>2, <1>7
          <6> QED BY <6>1, <4>2, <3>2
        <5> QED BY <5>1, <5>2, <5>3
      <4> QED BY <4>3, <1>2
    <3> QED BY <3>1, <3>2
  <2>2. ASSUME NEW j \in span(first(a)) PROVE j \in events[a]
    <3>1. PICK b \in DOMAIN events : j \in events[b]
      BY <1>2
    <3>2. j \in 1 .. n /\ first(a) \in 1 .. n /\ j >= first(a)
          /\ first(b) \in 1 .. n /\ first(b) <= j
      BY <3>1, <1>3, <1>4
    <3>3. ~ (b < a)
      <4>1. b < a => j < first(a)
        BY <3>1, <1>4, <1>7
      <4> QED BY <4>1, <3>2
    <3>4. ~ (a < b)
      <4>1. a < b => first(a) < first(b)
        BY <1>4, <1>7
      <4>2. first(b) \in begins
        BY <1>5
      <4>3. a < b => first(b) \in first(a) + 1 .. j
        BY <4>1, <3>2
      <4> QED BY <4>2, <4>3
    <3> QED BY <3>1, <3>3, <3>4, <1>2
  <2>3. span(first(a)) = events[a]
    BY <2>1, <2>2
  <2> HIDE DEF span
  <2> QED BY <2>3 DEF last
<1> HIDE DEF begins, span
<1>9. ASSUME NEW a \in DOMAIN events PROVE triggered(first(a)) <=> a \in Expected(log)
  <2>1. a \in Expected(log) <=> EventExpected(log, events[a])
    BY DEF Expected, events
  <2>2. EventExpected(log, events[a]) <=>
          \E i \in DOMAIN log : log[i] = "sysrq" /\ i \in first(a) - LookBack .. last(a)
    BY DEF EventExpected, first, last
  <2> HIDE DEF ends
  <2> QED BY <2>1, <2>2, <1>8
<1> DEFINE unexpected == DOMAIN events \ Expected(log)
<1>10. untriggered = {first(a) : a \in unexpected}
  <2> HIDE DEF triggered
  <2> QED BY <1>5, <1>6, <1>9
<1> HIDE DEF triggered, untriggered
<1>11. events = <<>> <=> fatal = {}
  <2>1. events = <<>> <=> Len(events) = 0
    BY <1>2
  <2>2. fatal = {} <=> DOMAIN events = {}
    BY <1>2
  <2> QED BY <2>1, <2>2, <1>2
<1> DEFINE shown == Max(IF unexpected # {} THEN unexpected ELSE DOMAIN events)
<1>12. events # <<>> =>
         /\ shown \in DOMAIN events
         /\ unexpected # {} => shown \in unexpected /\ \A a \in unexpected : a <= shown
  <2> SUFFICES ASSUME events # <<>>
               PROVE  /\ shown \in DOMAIN events
                      /\ unexpected # {} => shown \in unexpected /\ \A a \in unexpected : a <= shown
    OBVIOUS
  <2>1. unexpected \in SUBSET (1 .. Len(events)) /\ DOMAIN events \in SUBSET (1 .. Len(events))
        /\ DOMAIN events # {} /\ unexpected \subseteq DOMAIN events
    BY <1>2
  <2> HIDE DEF unexpected
  <2> QED BY <2>1, <1>2, EndsOfPlaces
<1>13. /\ events = <<>> => crash.first = 0 /\ crash.expected = FALSE
       /\ events # <<>> => /\ crash.first = first(shown)
                           /\ crash.expected = (Len(events) = 1 /\ unexpected = {})
  BY DEF CrashReport, events, first
<1>14. (fatal = {}) = (crash.first = 0)
  <2>1. events # <<>> => first(shown) \in 1 .. n
    BY <1>12, <1>4
  <2> HIDE DEF shown, crash
  <2> QED BY <2>1, <1>11, <1>13, <1>0
<1>15. ASSUME untriggered # {}
       PROVE  crash.first = Max(untriggered) /\ crash.first \in crash.lines
  <2>1. unexpected # {} /\ events # <<>>
    BY <1>15, <1>10, <1>2
  <2>2. shown \in unexpected /\ shown \in DOMAIN events /\ \A a \in unexpected : a <= shown
    BY <2>1, <1>12
  <2> HIDE DEF shown
  <2>3. first(shown) \in untriggered /\ first(shown) \in 1 .. n
    BY <2>2, <1>10, <1>4
  <2>4. ASSUME NEW u \in untriggered PROVE u <= first(shown) /\ u \in 1 .. n
    <3>1. PICK a \in unexpected : u = first(a)
      BY <1>10
    <3>2. a \in DOMAIN events /\ first(a) \in events[a] /\ first(shown) \in events[shown]
          /\ first(a) \in 1 .. n
      BY <3>1, <2>2, <1>4
    <3>3. a = shown \/ a < shown
      BY <2>2, <3>1, <3>2, <1>2
    <3>4. a < shown => first(a) < first(shown)
      BY <3>2, <2>2, <1>7
    <3> QED BY <3>1, <3>2, <3>3, <3>4, <2>3, <1>0
  <2>5. untriggered \in SUBSET (1 .. n)
    BY <2>4
  <2>6. Max(untriggered) \in untriggered /\ \A u \in untriggered : u <= Max(untriggered)
    BY <2>5, <1>15, <1>0, EndsOfPlaces
  <2>7. first(shown) = Max(untriggered)
    <3>1. Max(untriggered) <= first(shown) /\ first(shown) <= Max(untriggered)
          /\ Max(untriggered) \in 1 .. n
      BY <2>3, <2>4, <2>6
    <3> QED BY <3>1, <2>3, <1>0
  <2>8. first(shown) \in crash.lines
    <3>1. crash.lines = {i \in DOMAIN log :
             /\ i \in first(shown) - Min({Context, EventBefore})
                        .. first(shown) + Min({Context, EventAfter})
             /\ i = first(shown) \/ log[i] # "register"}
      BY <2>1 DEF CrashReport, events, first, shown
    <3>2. Min({Context, EventBefore}) \in Nat /\ Min({Context, EventAfter}) \in Nat
      <4>1. {Context, EventBefore} \in SUBSET Nat /\ {Context, EventAfter} \in SUBSET Nat
            /\ {Context, EventBefore} # {} /\ {Context, EventAfter} # {}
        BY <1>0
      <4> QED BY <4>1, MinOfNaturals
    <3>3. first(shown) \in DOMAIN log
      BY <2>3, <1>0
    <3>4. first(shown) \in first(shown) - Min({Context, EventBefore})
                        .. first(shown) + Min({Context, EventAfter})
      BY <3>2, <2>3, <1>0
    <3> HIDE DEF crash
    <3> QED BY <3>1, <3>3, <3>4
  <2> HIDE DEF crash
  <2> QED BY <2>1, <2>7, <2>8, <1>13
<1>16. crash.expected = (Cardinality(begins) = 1 /\ untriggered = {})
  <2>1. begins = {first(a) : a \in DOMAIN events}
    BY <1>5, <1>6
  <2>2. untriggered = {} <=> unexpected = {}
    BY <1>10
  <2>3. Len(events) = 1 <=> Cardinality(begins) = 1
    <3>1. CASE Len(events) = 1
      <4>1. begins = {first(1)}
        BY <3>1, <2>1, <1>2
      <4> QED BY <4>1, <3>1, FS_Singleton
    <3>2. CASE Cardinality(begins) = 1
      <4>1. IsFiniteSet(begins)
        <5>1. begins \subseteq 1 .. n
          BY <2>1, <1>4
        <5>2. IsFiniteSet(1 .. n)
          BY <1>0, FS_Interval
        <5> QED BY <5>1, <5>2, FS_Subset
      <4>2. PICK x : begins = {x}
        BY <4>1, <3>2, FS_Singleton
      <4>3. Len(events) # 0
        BY <4>2, <2>1, <1>2
      <4>4. ~ (Len(events) > 1)
        <5> SUFFICES ASSUME Len(events) > 1 PROVE FALSE
          OBVIOUS
        <5>1. 1 \in DOMAIN events /\ 2 \in DOMAIN events
          BY <1>2
        <5>2. first(1) = x /\ first(2) = x
          BY <5>1, <4>2, <2>1
        <5>3. first(1) < first(2) /\ first(1) \in 1 .. n
          BY <5>1, <1>4, <1>7
        <5> QED BY <5>2, <5>3, <1>0
      <4>5. Len(events) = 1
        BY <4>3, <4>4, <1>2
      <4> QED BY <4>5, <3>2
    <3> QED BY <3>1, <3>2
  <2> HIDE DEF crash, unexpected
  <2>4. CASE events = <<>>
    <3>1. Len(events) # 1
      BY <2>4
    <3> QED BY <3>1, <2>3, <2>4, <1>13
  <2>5. CASE events # <<>>
    <3>1. crash.expected = (Len(events) = 1 /\ unexpected = {})
      BY <2>5, <1>13
    <3> QED BY <3>1, <2>2, <2>3
  <2> QED BY <2>4, <2>5
<1>17. ASSUME KdumpOops(log) > 0
       PROVE  \E t \in begins \ untriggered, u \in untriggered :
                t < u /\ KdumpOops(log) \in u .. ends(u)
  <2> DEFINE rips(a) == {i \in first(a) .. last(a) : log[i] = "rip"}
             named == {a \in unexpected : (\E m \in Expected(log) : m < a) /\ rips(a) # {}}
  <2>1. KdumpOops(log) = IF named = {} THEN 0 ELSE Min(rips(Max(named)))
    BY DEF KdumpOops, events, first, last
  <2>2. named # {}
    BY <2>1, <1>17
  <2>3. Max(named) \in named
    <3>1. named \in SUBSET (1 .. Len(events))
      BY <1>2
    <3> HIDE DEF named
    <3> QED BY <3>1, <2>2, <1>2, EndsOfPlaces
  <2> DEFINE a == Max(named)
  <2>4. a \in unexpected /\ a \in DOMAIN events /\ rips(a) # {}
    BY <2>3
  <2>5. PICK m \in Expected(log) : m < a
    BY <2>3
  <2>6. Min(rips(a)) \in rips(a)
    <3>1. rips(a) \in SUBSET (1 .. n)
      <4>1. first(a) \in 1 .. n /\ last(a) \in 1 .. n
        BY <2>4, <1>4
      <4> HIDE DEF a
      <4> QED BY <4>1, <1>0
    <3> HIDE DEF rips, a
    <3> QED BY <3>1, <2>4, <1>0, EndsOfPlaces
  <2>7. KdumpOops(log) = Min(rips(a))
    BY <2>1, <2>2
  <2> HIDE DEF a
  <2>8. m \in DOMAIN events
    BY DEF Expected, events
  <2>9. KdumpOops(log) \in first(a) .. ends(first(a))
    <3> HIDE DEF ends
    <3> QED BY <2>4, <2>6, <2>7, <1>8
  <2>10. first(a) \in untriggered /\ first(m) \in begins
    BY <2>4, <2>8, <1>5, <1>10
  <2>11. first(m) < first(a)
    BY <2>4, <2>5, <2>8, <1>4, <1>7
  <2>12. first(m) \notin untriggered
    <3> SUFFICES ASSUME first(m) \in untriggered PROVE FALSE
      OBVIOUS
    <3>1. PICK b \in unexpected : first(m) = first(b)
      BY <1>10
    <3>2. b \in DOMAIN events /\ b # m
      BY <3>1
    <3>3. b < m => first(b) < first(m)
      BY <3>2, <2>8, <1>4, <1>7
    <3>4. m < b => first(m) < first(b)
      BY <3>2, <2>8, <1>4, <1>7
    <3>5. first(m) \in 1 .. n
      BY <2>8, <1>4
    <3> QED BY <3>1, <3>2, <3>3, <3>4, <3>5, <2>8, <1>2, <1>0
  <2> QED BY <2>9, <2>10, <2>11, <2>12
<1> QED
  BY <1>14, <1>15, <1>16, <1>17
  DEF CrashShown, fatal, begins, span, triggered, untriggered
-----------------------------------------------------------------------------
(* What is carried along by the loop over the lines: the last line with a time*)
(* stamp was dropped.                                                         *)
LEMMA DroppedLines ==
  ASSUME NEW log \in Seq(TextKinds)
  PROVE  \A i \in 0 .. Len(log) : DroppingAfter(log)[i] <=>
           \E j \in 1 .. i : log[j] = "debug" /\ \A m \in j + 1 .. i : ~ Stamped(log[m])
<1> DEFINE n == Len(log)
           step == [i \in 1 .. n |-> [b \in BOOLEAN |-> Dropping(log[i], b)]]
           Is(f) == f = [i \in 0 .. n |->
                           IF i = 0 THEN FALSE ELSE Dropping(log[i], f[i - 1])]
<1>0. n \in Nat /\ \A i \in 1 .. n : log[i] \in TextKinds
  OBVIOUS
<1>1. step \in [1 .. n -> [BOOLEAN -> BOOLEAN]]
  BY DEF Dropping
<1>2. \E f : Is(f)
  <2> HIDE DEF n
  <2>1. PICK f \in [0 .. n -> BOOLEAN] :
          f[0] = FALSE /\ \A i \in 1 .. n : f[i] = step[i][f[i - 1]]
    <3> DEFINE A == BOOLEAN
               start == FALSE
    <3>1. start \in A /\ step \in [1 .. n -> [A -> A]] /\ n \in Nat
      BY <1>1, <1>0
    <3> HIDE DEF step, A, start
    <3>2. \E f \in [0 .. n -> A] : f[0] = start /\ \A i \in 1 .. n : f[i] = step[i][f[i - 1]]
      BY <3>1, Loop
    <3> QED BY <3>2 DEF A, start
  <2>2. \A i \in 1 .. n : f[i] = Dropping(log[i], f[i - 1])
    <3>1. \A i \in 1 .. n : f[i - 1] \in BOOLEAN
      BY <1>0
    <3> QED BY <2>1, <3>1
  <2>3. f = [i \in 0 .. n |-> IF i = 0 THEN FALSE ELSE Dropping(log[i], f[i - 1])]
    <3> HIDE DEF step
    <3>1. \A i \in 0 .. n : f[i] = IF i = 0 THEN FALSE ELSE Dropping(log[i], f[i - 1])
      BY <2>1, <2>2, <1>0
    <3> QED BY <3>1
  <2> QED BY <2>3
<1> DEFINE f == CHOOSE f : Is(f)
<1>3. Is(f) /\ DroppingAfter(log) = f
  BY <1>2 DEF DroppingAfter
<1> HIDE DEF f, n
<1> DEFINE dropped(i) == \E j \in 1 .. i :
                           log[j] = "debug" /\ \A m \in j + 1 .. i : ~ Stamped(log[m])
           G == {i \in 0 .. n : f[i] <=> dropped(i)}
<1>4. 0 \in G
  <2>1. ~ f[0] /\ ~ dropped(0)
    BY <1>0, <1>3
  <2> QED BY <2>1, <1>0
<1>5. ASSUME NEW i \in 1 .. n, i - 1 \in G PROVE i \in G
  <2>1. f[i] = IF Stamped(log[i]) THEN log[i] = "debug" ELSE f[i - 1]
    BY <1>0, <1>3 DEF Dropping
  <2>2. f[i - 1] <=> dropped(i - 1)
    BY <1>5
  <2>3. CASE Stamped(log[i])
    <3>1. dropped(i) <=> log[i] = "debug"
      <4>1. ASSUME log[i] = "debug" PROVE dropped(i)
        <5>1. i \in 1 .. i /\ i + 1 .. i = {}
          BY <1>0
        <5> QED BY <4>1, <5>1
      <4>2. ASSUME dropped(i) PROVE log[i] = "debug"
        <5>1. PICK j \in 1 .. i : log[j] = "debug" /\ \A m \in j + 1 .. i : ~ Stamped(log[m])
          BY <4>2
        <5>2. j = i
          BY <2>3, <5>1, <1>0
        <5> QED BY <5>1, <5>2
      <4> QED BY <4>1, <4>2
    <3> HIDE DEF dropped
    <3>2. f[i] <=> dropped(i)
      BY <2>1, <2>3, <3>1
    <3> QED BY <3>2, <1>0
  <2>4. CASE ~ Stamped(log[i])
    <3>1. dropped(i) => dropped(i - 1)
      <4> SUFFICES ASSUME dropped(i) PROVE dropped(i - 1)
        OBVIOUS
      <4>1. PICK j \in 1 .. i : log[j] = "debug" /\ \A m \in j + 1 .. i : ~ Stamped(log[m])
        OBVIOUS
      <4>2. j # i
        BY <4>1, <2>4 DEF Stamped
      <4>3. j \in 1 .. i - 1 /\ \A m \in j + 1 .. i - 1 : m \in j + 1 .. i
        BY <4>2, <1>0
      <4> QED BY <4>1, <4>3
    <3>2. dropped(i - 1) => dropped(i)
      <4> SUFFICES ASSUME dropped(i - 1) PROVE dropped(i)
        OBVIOUS
      <4>1. PICK j \in 1 .. i - 1 : log[j] = "debug" /\ \A m \in j + 1 .. i - 1 : ~ Stamped(log[m])
        OBVIOUS
      <4>2. j \in 1 .. i /\ \A m \in j + 1 .. i : m = i \/ m \in j + 1 .. i - 1
        BY <1>0
      <4> QED BY <4>1, <4>2, <2>4
    <3> HIDE DEF dropped
    <3>3. f[i] <=> dropped(i)
      BY <2>1, <2>2, <2>4, <3>1, <3>2
    <3> QED BY <3>3, <1>0
  <2> QED BY <2>3, <2>4
<1>6. \A i \in 0 .. n : i \in G
  <2>1. \A i \in 1 .. n : i - 1 \in G => i \in G
    BY <1>5
  <2> HIDE DEF G
  <2> QED BY <1>0, <1>4, <2>1, UpTo
<1> QED BY <1>3, <1>6 DEF n

(* condense_log on any log with any limit.                                    *)
LEMMA SignalsAreKept ==
  ASSUME NEW log \in Seq(TextKinds), NEW k \in Nat
  PROVE  LET continues(i) == \E j \in 1 .. i - 1 :
               /\ log[j] = "debug"
               /\ \A m \in j + 1 .. i : ~ Stamped(log[m])
             expected == {i \in DOMAIN log :
                            \/ log[i] = "signal"
                            \/ log[i] \in {"more", "frame"} /\ ~ continues(i)
                            \/ log[i] = "poll" /\ \A j \in 1 .. i - 1 : log[j] # "poll"}
             text == Condense(log, k)
         IN  /\ text.lines \subseteq expected
             /\ \A i \in expected \ text.lines : \A j \in text.lines : i < j
             /\ text.omitted + Cardinality(text.lines) = Cardinality(expected)
             /\ text.polls = Cardinality({i \in DOMAIN log : log[i] = "poll"})
             /\ \A i \in text.trimmed :
                  /\ i \in text.lines /\ log[i] = "frame"
                  /\ \E j \in 1 .. i - 1 : log[j] = "frame"
<1> DEFINE n == Len(log)
           continues(i) == \E j \in 1 .. i - 1 :
             /\ log[j] = "debug"
             /\ \A m \in j + 1 .. i : ~ Stamped(log[m])
           expected == {i \in DOMAIN log :
                          \/ log[i] = "signal"
                          \/ log[i] \in {"more", "frame"} /\ ~ continues(i)
                          \/ log[i] = "poll" /\ \A j \in 1 .. i - 1 : log[j] # "poll"}
           lines == LastOf(Kept(log), k)
<1>0. n \in Nat /\ DOMAIN log = 1 .. n
  OBVIOUS
<1>1. ASSUME NEW i \in DOMAIN log, log[i] \in {"more", "frame"}
      PROVE  DroppingAfter(log)[i - 1] <=> continues(i)
  <2>1. ~ Stamped(log[i])
    BY <1>1 DEF Stamped
  <2>2. i - 1 \in 0 .. n
    BY <1>0
  <2>3. DroppingAfter(log)[i - 1] <=>
          \E j \in 1 .. i - 1 : log[j] = "debug" /\ \A m \in j + 1 .. i - 1 : ~ Stamped(log[m])
    BY <2>2, DroppedLines
  <2>4. \A j \in 1 .. i - 1 : \A m : m \in j + 1 .. i <=> (m \in j + 1 .. i - 1 \/ m = i)
    BY <1>0
  <2> QED BY <2>1, <2>3, <2>4
<1>2. ASSUME NEW i \in DOMAIN log
      PROVE  (\A j \in Polls(log) : i <= j) <=> (\A j \in 1 .. i - 1 : log[j] # "poll")
  BY <1>0 DEF Polls
<1>3. Kept(log) = expected
  <2> HIDE DEF continues
  <2> QED BY <1>1, <1>2 DEF Kept
<1>4. expected \in SUBSET (1 .. n) /\ IsFiniteSet(1 .. n)
  BY <1>0, FS_Interval
<1> HIDE DEF expected, n
<1>5. /\ lines \subseteq expected
      /\ \A i \in expected \ lines, j \in lines : i < j
  BY <1>0, <1>3, <1>4, LastOfPlaces
<1>6. /\ IsFiniteSet(expected) /\ Cardinality(expected) \in Nat
      /\ IsFiniteSet(lines) /\ Cardinality(lines) \in Nat
  BY <1>4, <1>5, FS_Subset, FS_CardinalityType
<1>7. Cardinality(expected) - Cardinality(lines) + Cardinality(lines) = Cardinality(expected)
  BY <1>6
<1>8. ASSUME NEW j \in Trimmed(log, lines)
      PROVE  /\ j \in lines /\ log[j] = "frame"
             /\ \E i \in 1 .. j - 1 : log[i] = "frame"
  <2> DEFINE run == {i \in lines : i <= j /\ \A m \in lines : m \in i .. j => log[m] = "frame"}
  <2>1. j \in lines /\ Cardinality(run) > FramesShown
    BY DEF Trimmed
  <2>2. ~ (run \subseteq {j})
    <3> SUFFICES ASSUME run \subseteq {j} PROVE FALSE
      OBVIOUS
    <3>1. Cardinality({j}) = 1 /\ IsFiniteSet({j})
      BY FS_Singleton
    <3>2. Cardinality(run) <= 1 /\ IsFiniteSet(run)
      BY <3>1, FS_Subset
    <3>3. Cardinality(run) \in Nat
      BY <3>2, FS_CardinalityType
    <3> HIDE DEF run
    <3> QED BY <2>1, <3>2, <3>3, TextAssumption
  <2>3. PICK i \in run : i # j
    BY <2>2
  <2>4. i \in 1 .. n /\ j \in 1 .. n /\ i < j
    <3>1. i \in lines /\ j \in lines /\ i <= j
      BY <2>1, <2>3
    <3>2. i \in 1 .. n /\ j \in 1 .. n
      BY <3>1, <1>4, <1>5
    <3> QED BY <3>1, <3>2, <2>3, <1>0
  <2>5. log[i] = "frame" /\ log[j] = "frame"
    BY <2>1, <2>3, <2>4
  <2> QED BY <2>1, <2>4, <2>5
<1>9. Condense(log, k) = [omitted |-> Cardinality(expected) - Cardinality(lines),
                          polls |-> Cardinality({i \in DOMAIN log : log[i] = "poll"}),
                          lines |-> lines, trimmed |-> Trimmed(log, lines)]
  BY <1>3 DEF Condense, Polls
<1> HIDE DEF lines
<1> QED BY <1>5, <1>7, <1>8, <1>9 DEF expected
-----------------------------------------------------------------------------
(* The failures that are not secondary are those before the post-fail hook.   *)
LEMMA NotSecondary ==
  ASSUME NEW d \in Seq(StepKinds), NEW i \in Failing(d)
  PROVE  ~ IsSecondary(d, i) <=> i \in OwnFailures(d)
<1> DEFINE hooks == {j \in DOMAIN d : d[j] = "postfail"}
           start == PostFailStart(d)
<1>1. Len(d) \in Nat /\ DOMAIN d = 1 .. Len(d) /\ i \in 1 .. Len(d) /\ d[i] \in FailKinds
  BY DEF Failing
<1>2. start \in hooks \cup {Len(d)} /\ \A j \in hooks : start <= j
  <2>1. hooks \cup {Len(d)} \in SUBSET Nat /\ hooks \cup {Len(d)} # {}
    BY <1>1
  <2> QED BY <2>1, MinOfNaturals DEF PostFailStart
<1> HIDE DEF start
<1>3. i > start <=> \E j \in 1 .. i - 1 : d[j] = "postfail"
  <2>1. ASSUME i > start PROVE \E j \in 1 .. i - 1 : d[j] = "postfail"
    <3>1. start \in hooks
      BY <1>1, <1>2, <2>1
    <3> QED BY <1>1, <2>1, <3>1
  <2>2. ASSUME NEW j \in 1 .. i - 1, d[j] = "postfail" PROVE i > start
    <3>1. j \in hooks
      BY <1>1, <2>2
    <3>2. start <= j /\ start \in Nat
      BY <1>1, <1>2, <3>1
    <3> QED BY <1>1, <3>2
  <2> QED BY <2>1, <2>2
<1> QED BY <1>1, <1>3 DEF IsSecondary, OwnFailures, start

(* The clusters of these failures, which do not overlap.                      *)
LEMMA ClustersOfOwn ==
  ASSUME NEW d \in Seq(StepKinds)
  PROVE  /\ \A c \in OwnClusters(d) : c # {} /\ c \subseteq OwnFailures(d)
         /\ \A i \in OwnFailures(d) : \E c \in OwnClusters(d) : i \in c
         /\ \A c, e \in OwnClusters(d) :
              c = e \/ (\A x \in c, y \in e : x < y) \/ (\A x \in c, y \in e : y < x)
<1> DEFINE g == ByProximity(d)
           own(c) == {i \in c : ~ IsSecondary(d, i)}
<1>1. Len(d) \in Nat /\ DOMAIN d = 1 .. Len(d) /\ Gap \in Nat
  BY StepsAssumption
<1>2. Grouped(g, Failing(d), Len(d), Gap)
  BY <1>1, GroupsAreGrouped DEF ByProximity
<1>3. /\ DOMAIN g = 1 .. Len(g) /\ Len(g) \in Nat
      /\ \A a \in DOMAIN g : g[a] \subseteq Failing(d)
      /\ \A x \in Failing(d) : \E a \in DOMAIN g : x \in g[a]
      /\ \A a, b \in DOMAIN g : a < b => \A x \in g[a], y \in g[b] : y - x > Gap
  <2>1. Failing(d) \cap (1 .. Len(d)) = Failing(d)
    BY <1>1 DEF Failing
  <2> HIDE DEF g
  <2> QED BY <1>2, <2>1 DEF Grouped
<1>4. \A c : c \in OwnClusters(d) <=> c # {} /\ \E a \in DOMAIN g : c = own(g[a])
  BY DEF OwnClusters, ToSet
<1> HIDE DEF g
<1>5. OwnFailures(d) \subseteq Failing(d)
  BY DEF OwnFailures, Failing
<1>6. ASSUME NEW c \in OwnClusters(d) PROVE c # {} /\ c \subseteq OwnFailures(d)
  <2>1. PICK a \in DOMAIN g : c # {} /\ c = own(g[a])
    BY <1>4
  <2> QED BY <2>1, <1>3, NotSecondary
<1>7. ASSUME NEW i \in OwnFailures(d) PROVE \E c \in OwnClusters(d) : i \in c
  <2>1. PICK a \in DOMAIN g : i \in g[a]
    BY <1>3, <1>5
  <2>2. i \in own(g[a])
    BY <2>1, <1>3, NotSecondary
  <2> QED BY <2>1, <2>2, <1>4
<1>8. ASSUME NEW c \in OwnClusters(d), NEW e \in OwnClusters(d), c # e
      PROVE  (\A x \in c, y \in e : x < y) \/ (\A x \in c, y \in e : y < x)
  <2>1. PICK a \in DOMAIN g : c = own(g[a])
    BY <1>4
  <2>2. PICK b \in DOMAIN g : e = own(g[b])
    BY <1>4
  <2>3. c \subseteq g[a] /\ e \subseteq g[b] /\ a # b /\ c \subseteq Nat /\ e \subseteq Nat
    <3>1. OwnFailures(d) \subseteq Nat
      BY <1>1 DEF OwnFailures
    <3> QED BY <3>1, <2>1, <2>2, <1>6, <1>8
  <2>4. CASE a < b
    <3>1. ASSUME NEW x \in c, NEW y \in e PROVE x < y
      <4>1. y - x > Gap /\ x \in Nat /\ y \in Nat
        BY <2>3, <2>4, <1>3
      <4> QED BY <4>1, <1>1
    <3> QED BY <3>1
  <2>5. CASE b < a
    <3>1. ASSUME NEW x \in c, NEW y \in e PROVE y < x
      <4>1. x - y > Gap /\ x \in Nat /\ y \in Nat
        BY <2>3, <2>5, <1>3
      <4> QED BY <4>1, <1>1
    <3> QED BY <3>1
  <2> QED BY <2>3, <2>4, <2>5, <1>3
<1> QED BY <1>6, <1>7, <1>8

(* failing_cluster: the last of them.                                         *)
LEMMA LastCluster ==
  ASSUME NEW d \in Seq(StepKinds), HasFailure(d)
  PROVE  LET k == FailingCluster(d)
         IN  /\ k.steps \in OwnClusters(d)
             /\ Max(OwnFailures(d)) \in k.steps
             /\ k.retries = {Min(e) : e \in Alike(d, k.steps, OwnClusters(d)) \ {k.steps}}
<1> DEFINE own == OwnFailures(d)
           clusters == OwnClusters(d)
           n == Len(d)
           collapsed == Collapsed(d, clusters)
           last == Max(own)
<1>1. n \in Nat /\ own \in SUBSET (1 .. n) /\ clusters # {}
  BY DEF OwnFailures, HasFailure
<1>2. \A c \in clusters : c # {} /\ c \in SUBSET own /\ c \in SUBSET (1 .. n)
  BY <1>1, ClustersOfOwn
<1>3. own # {}
  BY <1>1, <1>2
<1> HIDE DEF own, clusters, n
<1>4. last \in own /\ \A i \in own : i <= last
  BY <1>1, <1>3, EndsOfPlaces
<1>5. \A c \in clusters : Max(c) \in c /\ Max(c) \in own /\ Max(c) <= last
  BY <1>1, <1>2, <1>4, EndsOfPlaces
<1> DEFINE of(c) == [steps |-> c, retries |-> {Min(e) : e \in Alike(d, c, clusters) \ {c}}]
<1>6. \A k : k \in collapsed <=>
        \E c \in clusters : k = of(c) /\ \A e \in Alike(d, c, clusters) : Max(e) <= Max(c)
  BY DEF Collapsed
<1>7. PICK c \in clusters : last \in c
  BY <1>4, ClustersOfOwn DEF own, clusters
<1>8. Max(c) = last
  <2>1. c \in SUBSET (1 .. n) /\ c # {}
    BY <1>2
  <2>2. last <= Max(c)
    BY <2>1, <1>1, <1>7, EndsOfPlaces
  <2>3. Max(c) <= last /\ Max(c) \in 1 .. n /\ last \in 1 .. n
    BY <1>1, <1>4, <1>5
  <2> HIDE DEF last
  <2> QED BY <2>2, <2>3, <1>1
<1>9. of(c) \in collapsed
  <2>1. \A e \in Alike(d, c, clusters) : Max(e) <= Max(c)
    BY <1>5, <1>8 DEF Alike
  <2> HIDE DEF of
  <2> QED BY <2>1, <1>6
<1>10. \A l \in collapsed : l.steps \in clusters /\ l = of(l.steps)
  BY <1>6
<1> DEFINE k == CHOOSE k \in collapsed : \A l \in collapsed : Max(l.steps) <= Max(k.steps)
<1>11. k \in collapsed /\ \A l \in collapsed : Max(l.steps) <= Max(k.steps)
  <2>1. of(c).steps = c
    OBVIOUS
  <2> HIDE DEF of, collapsed
  <2>2. \A l \in collapsed : Max(l.steps) <= Max(of(c).steps)
    BY <1>5, <1>8, <1>10, <2>1
  <2> QED BY <1>9, <2>2
<1> HIDE DEF k
<1>12. Max(k.steps) = last
  <2>1. last <= Max(k.steps)
    <3>1. of(c).steps = c
      OBVIOUS
    <3> HIDE DEF of, collapsed
    <3> QED BY <3>1, <1>8, <1>9, <1>11
  <2>2. Max(k.steps) <= last /\ Max(k.steps) \in own
    BY <1>5, <1>10, <1>11
  <2>3. Max(k.steps) \in 1 .. n /\ last \in 1 .. n
    BY <2>2, <1>1, <1>4
  <2> HIDE DEF last
  <2> QED BY <2>1, <2>2, <2>3, <1>1
<1>13. FailingCluster(d) = k
  BY DEF FailingCluster, k, clusters
<1>14. k.steps \in clusters /\ last \in k.steps
  BY <1>5, <1>10, <1>11, <1>12
<1>15. k.retries = {Min(e) : e \in Alike(d, k.steps, clusters) \ {k.steps}}
  <2>1. k = of(k.steps)
    BY <1>10, <1>11
  <2> DEFINE c0 == k.steps
  <2>2. of(c0).retries = {Min(e) : e \in Alike(d, c0, clusters) \ {c0}}
    OBVIOUS
  <2> HIDE DEF of
  <2> QED BY <2>1, <2>2
<1> QED BY <1>13, <1>14, <1>15 DEF own, clusters

(* failing_cluster on the details of any module.                              *)
LEMMA OwnFailureIsChosen ==
  ASSUME NEW d \in Seq(StepKinds)
  PROVE  LET own == OwnFailures(d)
             rep == ClusterReport(d)
         IN  /\ rep.cluster \subseteq own
             /\ own # {} => Max(own) \in rep.cluster
             /\ \A i \in rep.retries :
                  /\ i \in own /\ \A c \in rep.cluster : i < c
                  /\ \E c \in rep.cluster : d[i] = d[c]
<1> DEFINE own == OwnFailures(d)
           clusters == OwnClusters(d)
           k == FailingCluster(d)
           c == k.steps
           n == Len(d)
<1>1. CASE ~ HasFailure(d)
  <2>1. own = {}
    BY <1>1, ClustersOfOwn DEF HasFailure
  <2>2. ClusterReport(d).cluster = {} /\ ClusterReport(d).retries = {}
    BY <1>1 DEF ClusterReport
  <2> QED BY <2>1, <2>2
<1>2. CASE HasFailure(d)
  <2>1. /\ c \in clusters /\ Max(own) \in c
        /\ k.retries = {Min(e) : e \in Alike(d, c, clusters) \ {c}}
    BY <1>2, LastCluster
  <2>2. ClusterReport(d).cluster = c /\ ClusterReport(d).retries = k.retries
    BY <1>2 DEF ClusterReport
  <2>3. n \in Nat /\ own \in SUBSET (1 .. n) /\ \A e \in clusters : e # {} /\ e \subseteq own
    BY ClustersOfOwn DEF OwnFailures
  <2>4. \A x, y \in clusters :
          x = y \/ (\A i \in x, j \in y : i < j) \/ (\A i \in x, j \in y : j < i)
    BY ClustersOfOwn
  <2> HIDE DEF own, clusters, k, n
  <2>5. ASSUME NEW i \in k.retries
        PROVE  /\ i \in own /\ \A j \in c : i < j
               /\ \E j \in c : d[i] = d[j]
    <3>1. PICK e \in Alike(d, c, clusters) : e # c /\ i = Min(e)
      BY <2>1
    <3>2. e \in clusters /\ {d[j] : j \in e} = {d[j] : j \in c}
      BY DEF Alike
    <3>3. i \in e /\ i \in own
      <4>1. e \in SUBSET (1 .. n) /\ e # {} /\ e \subseteq own
        BY <2>3, <3>2
      <4> QED BY <2>3, <3>1, <4>1, EndsOfPlaces
    <3>4. Max(own) \in c /\ \A j \in own : j <= Max(own)
      <4>1. own # {}
        BY <3>3
      <4> QED BY <2>1, <2>3, <4>1, EndsOfPlaces
    <3>5. \A j \in c : i < j
      <4>1. ~ (\A x \in e, y \in c : y < x)
        <5>1. i <= Max(own) /\ i \in 1 .. n
          BY <2>3, <3>3, <3>4
        <5>2. Max(own) \in 1 .. n
          <6>1. c \subseteq own
            BY <2>1, <2>3
          <6> QED BY <6>1, <2>3, <3>4
        <5>3. ~ (Max(own) < i)
          BY <5>1, <5>2, <2>3
        <5> QED BY <5>3, <3>3, <3>4
      <4> QED BY <4>1, <3>1, <3>2, <3>3, <2>1, <2>4
    <3>6. \E j \in c : d[i] = d[j]
      <4>1. d[i] \in {d[j] : j \in c}
        BY <3>2, <3>3
      <4> QED BY <4>1
    <3> QED BY <3>3, <3>5, <3>6
  <2> QED BY <2>1, <2>2, <2>3, <2>5 DEF own
<1> QED BY <1>1, <1>2
-----------------------------------------------------------------------------
(* The failing step is one of the cluster.                                    *)
LEMMA FailingStepInCluster ==
  ASSUME NEW d \in Seq(StepKinds), NEW c \in SUBSET (1 .. Len(d)), c # {}
  PROVE  FailingStep(d, c) \in c
<1> DEFINE n == Len(d)
           died == {i \in c : Died(d[i])} \cup {0}
           from == IF LastDied(d, c) > 0 THEN LastDied(d, c) ELSE Max(c)
           named == {i \in c : i <= from /\ StepCommand(d[i])} \cup {0}
<1>1. n \in Nat /\ Max(c) \in c
  <2>1. n \in Nat
    OBVIOUS
  <2> QED BY <2>1, EndsOfPlaces
<1>2. \A S : S \subseteq c => Max(S \cup {0}) \in S \cup {0}
  <2> SUFFICES ASSUME NEW S, S \subseteq c PROVE Max(S \cup {0}) \in S \cup {0}
    OBVIOUS
  <2> DEFINE T == S \cup {0}
  <2>1. T \in SUBSET Nat /\ T # {} /\ \A s \in T : s <= n
    BY <1>1
  <2> HIDE DEF T
  <2>2. Max(T) \in T
    BY <2>1, <1>1, MaxOfNaturals
  <2> QED BY <2>2 DEF T
<1>3. LastDied(d, c) \in c \cup {0}
  BY <1>2 DEF LastDied
<1>4. FailingCommand(d, c) \in c \cup {0}
  BY <1>2 DEF FailingCommand
<1>5. c \subseteq 1 .. n
  OBVIOUS
<1> HIDE DEF n
<1>6. \/ FailingCommand(d, c) > 0 /\ FailingCommand(d, c) \in c
      \/ FailingCommand(d, c) = 0
  <2>1. \A i \in c : i \in 1 .. n /\ i > 0
    BY <1>1, <1>5
  <2> QED BY <1>4, <2>1
<1>7. LastDied(d, c) > 0 => LastDied(d, c) \in c
  BY <1>3
<1> QED BY <1>1, <1>6, <1>7 DEF FailingStep

(* What is shown around a cluster, and what of it is hidden.                  *)
Shown(d, c) == Before(d, c) \cup Inside(c) \cup After(d, c)
HiddenSteps(d, c) == Hidden(d, c, Shown(d, c))
Visible(d, c) == Shown(d, c) \ HiddenSteps(d, c)
Marker(d, c) == MarkerStep(d, c, Shown(d, c))

LEMMA ShownSteps ==
  ASSUME NEW d \in Seq(StepKinds), NEW c \in SUBSET (1 .. Len(d)), c # {}
  PROVE  /\ Min(c) \in 1 .. Len(d) /\ Max(c) \in 1 .. Len(d) /\ Min(c) <= Max(c)
         /\ c \subseteq Inside(c) /\ Inside(c) \subseteq Shown(d, c)
         /\ Shown(d, c) \subseteq 1 .. Len(d)
         /\ \A i \in Shown(d, c), m \in 1 .. Len(d) :
              i < m /\ m < Min(c) /\ m \notin Shown(d, c) => d[m] = "noise"
         /\ \A j \in Shown(d, c), m \in 1 .. Len(d) :
              m < j /\ Max(c) < m /\ m \notin Shown(d, c) => d[m] = "noise"
<1> DEFINE n == Len(d)
           low == Min(c)
           high == Max(c)
           scanned == {i \in low - ScanBefore .. low - 1 : i > 0 /\ ~ IsNoise(d[i])}
           following == {i \in high + 1 .. high + ScanAfter : i <= n /\ ~ IsNoise(d[i])}
<1>1. /\ n \in Nat /\ low \in 1 .. n /\ high \in 1 .. n /\ low <= high
      /\ \A i \in c : low <= i /\ i <= high
  <2>1. n \in Nat
    OBVIOUS
  <2>2. /\ low \in c /\ high \in c
        /\ \A i \in c : low <= i /\ i <= high
    BY <2>1, EndsOfPlaces
  <2> HIDE DEF low, high
  <2> QED BY <2>1, <2>2
<1> HIDE DEF n, low, high
<1>2. ScanBefore \in Nat /\ ShownBefore \in Nat /\ ScanAfter \in Nat
      /\ AfterCommands \in Nat \ {0}
  BY StepsAssumption
<1>3. Before(d, c) = LastOf(scanned, ShownBefore) /\ scanned \in SUBSET (1 .. n)
  <2>1. scanned \in SUBSET (1 .. n)
    BY <1>1, <1>2
  <2> QED BY <2>1 DEF Before, low
<1>4. After(d, c) = UntilCommands(d, following) /\ following \in SUBSET (1 .. n)
  <2>1. following \in SUBSET (1 .. n)
    BY <1>1, <1>2
  <2> QED BY <2>1 DEF After, high, n
<1>5. Inside(c) = low .. high
  BY DEF Inside, low, high
<1>6. /\ Before(d, c) \subseteq scanned
      /\ \A i \in scanned \ Before(d, c), j \in Before(d, c) : i < j
  <2>1. scanned \in SUBSET (1 .. n)
    BY <1>3
  <2> HIDE DEF scanned
  <2>2. /\ LastOf(scanned, ShownBefore) \subseteq scanned
        /\ \A i \in scanned \ LastOf(scanned, ShownBefore), j \in LastOf(scanned, ShownBefore) : i < j
    BY <2>1, <1>1, <1>2, LastOfPlaces
  <2> QED BY <2>2, <1>3
<1>7. After(d, c) \subseteq following
  BY <1>4 DEF UntilCommands
<1>8. c \subseteq Inside(c) /\ Inside(c) \subseteq 1 .. n
  <2>1. c \subseteq 1 .. n
    BY DEF n
  <2> QED BY <2>1, <1>1, <1>5
<1>9. ASSUME NEW i \in Shown(d, c), NEW m \in 1 .. n,
             i < m, m < low, m \notin Shown(d, c)
      PROVE  d[m] = "noise"
  <2>1. i \in Before(d, c)
    <3>1. i \notin Inside(c) /\ i \notin After(d, c)
      BY <1>1, <1>5, <1>7, <1>9
    <3> QED BY <3>1 DEF Shown
  <2>2. i \in low - ScanBefore .. low - 1
    BY <2>1, <1>6
  <2>3. d[m] # "noise" => m \in scanned
    BY <2>2, <1>1, <1>2, <1>9 DEF IsNoise
  <2>4. m \in scanned => m < i
    BY <2>1, <1>6, <1>9 DEF Shown
  <2>5. i \in 1 .. n
    BY <2>1, <1>3, <1>6
  <2> HIDE DEF scanned
  <2> QED BY <2>3, <2>4, <2>5, <1>1, <1>9
<1>10. ASSUME NEW j \in Shown(d, c), NEW m \in 1 .. n,
              m < j, high < m, m \notin Shown(d, c)
       PROVE  d[m] = "noise"
  <2> SUFFICES ASSUME d[m] # "noise" PROVE FALSE
    OBVIOUS
  <2>1. j \in After(d, c)
    <3>1. j \notin Inside(c) /\ j \notin Before(d, c)
      BY <1>1, <1>5, <1>6, <1>10
    <3> QED BY <3>1 DEF Shown
  <2>2. j \in following /\ j \in 1 .. n /\ j \in high + 1 .. high + ScanAfter
    BY <2>1, <1>4, <1>7
  <2>3. m \in following
    BY <2>2, <1>1, <1>2, <1>10 DEF IsNoise
  <2> HIDE DEF following
  <2> DEFINE ran(i) == {e \in following : e < i /\ d[e] = "command"}
  <2>4. ran(m) \subseteq ran(j) /\ ran(j) \subseteq 1 .. n
    <3>1. \A e \in following : e < m => e < j
      BY <2>2, <1>1, <1>4, <1>10
    <3> QED BY <3>1, <1>4
  <2>5. IsFiniteSet(ran(j))
    <3>1. IsFiniteSet(1 .. n)
      BY <1>1, FS_Interval
    <3> QED BY <3>1, <2>4, FS_Subset
  <2>6. Cardinality(ran(j)) < AfterCommands
    BY <2>1, <1>4 DEF UntilCommands
  <2>7. Cardinality(ran(m)) < AfterCommands
    <3> HIDE DEF ran
    <3>1. /\ Cardinality(ran(m)) <= Cardinality(ran(j)) /\ IsFiniteSet(ran(m))
          /\ Cardinality(ran(j)) \in Nat
      BY <2>4, <2>5, FS_Subset, FS_CardinalityType
    <3>2. Cardinality(ran(m)) \in Nat
      BY <3>1, FS_CardinalityType
    <3> QED BY <2>6, <3>1, <3>2, <1>2
  <2>8. m \in After(d, c)
    BY <2>3, <2>7, <1>4 DEF UntilCommands
  <2> QED BY <2>8, <1>10 DEF Shown
<1>11. Shown(d, c) \subseteq 1 .. n /\ Inside(c) \subseteq Shown(d, c)
  BY <1>3, <1>4, <1>6, <1>7, <1>8 DEF Shown
<1> QED BY <1>1, <1>8, <1>9, <1>10, <1>11 DEF n, low, high

(* The marker: it is shown, as the failing step is, and above it only bare    *)
(* failed screens are.                                                        *)
LEMMA MarkerIsVisible ==
  ASSUME NEW d \in Seq(StepKinds), NEW c \in SUBSET (1 .. Len(d)), c # {}
  PROVE  LET failing == FailingStep(d, c)
         IN  /\ failing \in Visible(d, c) /\ Marker(d, c) \in Visible(d, c)
             /\ Marker(d, c) \in 1 .. failing
             /\ \A i \in Shown(d, c) : i \in Marker(d, c) .. failing - 1 => d[i] = "bare"
<1> DEFINE failing == FailingStep(d, c)
           shown == Shown(d, c)
           above == {i \in shown : /\ i <= failing
                                   /\ \A j \in shown : j \in i .. failing - 1 => d[j] = "bare"}
<1>1. failing \in c /\ failing \in shown /\ failing \in 1 .. Len(d) /\ shown \subseteq 1 .. Len(d)
  BY FailingStepInCluster, ShownSteps
<1> HIDE DEF shown, failing
<1>2. failing \in above
  <2>1. failing .. failing - 1 = {} /\ failing <= failing
    BY <1>1
  <2> QED BY <1>1, <2>1
<1>3. above \in SUBSET Nat
  <2>1. \A i \in 1 .. Len(d) : i \in Nat
    OBVIOUS
  <2>2. above \subseteq shown
    OBVIOUS
  <2> HIDE DEF above
  <2> QED BY <1>1, <2>1, <2>2
<1>4. Marker(d, c) = Min(above)
  BY DEF Marker, MarkerStep, shown, failing
<1>5. Marker(d, c) \in above
  <2> HIDE DEF above
  <2> QED BY <1>2, <1>3, <1>4, MinOfNaturals
<1>6. Marker(d, c) \notin HiddenSteps(d, c)
  BY DEF HiddenSteps, Hidden, Marker
<1>7. failing \notin HiddenSteps(d, c)
  BY <1>1 DEF HiddenSteps, Hidden, Bodies, failing
<1> QED BY <1>1, <1>5, <1>6, <1>7 DEF Visible, shown, failing

(* The first and the last step of a cluster are not hidden.                   *)
LEMMA HiddenInside ==
  ASSUME NEW d \in Seq(StepKinds), NEW c \in SUBSET (1 .. Len(d)), c # {}
  PROVE  /\ \A h \in HiddenSteps(d, c) : Min(c) < h /\ h < Max(c) /\ h \in Int
         /\ Min(c) \in Visible(d, c) /\ Max(c) \in Visible(d, c)
<1> DEFINE low == Min(c)
           high == Max(c)
<1>1. low \in 1 .. Len(d) /\ high \in 1 .. Len(d) /\ low <= high
      /\ Inside(c) \subseteq Shown(d, c) /\ Inside(c) = low .. high
  BY ShownSteps DEF Inside
<1>2. HiddenSteps(d, c) \subseteq low + HalfShown .. high - HalfShown
  BY DEF HiddenSteps, Hidden
<1> HIDE DEF low, high
<1>3. \A h \in HiddenSteps(d, c) : low < h /\ h < high /\ h \in Int
  BY <1>1, <1>2, StepsAssumption
<1>4. low \in Inside(c) /\ high \in Inside(c)
  BY <1>1
<1> QED BY <1>1, <1>3, <1>4 DEF Visible, low, high

(* _step_context of any cluster.                                              *)
LEMMA ContextLines ==
  ASSUME NEW d, NEW c
  PROVE  StepContext(d, c) =
           [i \in Visible(d, c) |->
              [omitted |-> Cardinality(Skipped(Shown(d, c), HiddenSteps(d, c), i)),
               marked  |-> i = Marker(d, c)]]
  BY DEF StepContext, Visible, HiddenSteps, Shown, Marker

LEMMA MarkerIsBefore ==
  ASSUME NEW d \in Seq(StepKinds), NEW c \in SUBSET (1 .. Len(d)), c # {}
  PROVE  LET lines == StepContext(d, c)
             failing == FailingStep(d, c)
         IN  /\ failing \in DOMAIN lines
             /\ \E m \in 1 .. failing :
                  /\ {i \in DOMAIN lines : lines[i].marked} = {m}
                  /\ \A i \in m .. failing - 1 : d[i] \in {"bare", "noise"}
<1> DEFINE lines == StepContext(d, c)
           failing == FailingStep(d, c)
           m == Marker(d, c)
<1>1. /\ failing \in Visible(d, c) /\ m \in Visible(d, c) /\ m \in 1 .. failing
      /\ \A i \in Shown(d, c) : i \in m .. failing - 1 => d[i] = "bare"
  BY MarkerIsVisible
<1>2. /\ Visible(d, c) \subseteq Shown(d, c) /\ Shown(d, c) \subseteq 1 .. Len(d)
      /\ failing \in Inside(c) /\ Inside(c) \subseteq Shown(d, c)
      /\ Inside(c) = Min(c) .. Max(c) /\ Min(c) \in 1 .. Len(d) /\ Max(c) \in 1 .. Len(d)
  BY FailingStepInCluster, ShownSteps DEF Visible, Inside
<1>3. DOMAIN lines = Visible(d, c) /\ \A i \in Visible(d, c) : lines[i].marked = (i = m)
  BY ContextLines
<1> HIDE DEF lines, failing, m
<1>4. ASSUME NEW i \in m .. failing - 1 PROVE d[i] \in {"bare", "noise"}
  <2>1. m \in 1 .. Len(d) /\ failing \in 1 .. Len(d)
    BY <1>1, <1>2
  <2>2. i \in 1 .. Len(d)
    BY <2>1
  <2>3. CASE i \in Shown(d, c)
    BY <2>3, <1>1
  <2>4. CASE i \notin Shown(d, c)
    <3>1. m # i
      BY <2>4, <1>1, <1>2
    <3>2. m < i /\ i < failing
      BY <3>1, <2>1, <2>2
    <3>3. i < Min(c)
      BY <2>2, <2>4, <3>2, <1>2
    <3>4. d[i] = "noise"
      BY <3>2, <3>3, <2>2, <2>4, <1>1, <1>2, ShownSteps
    <3> QED BY <3>4
  <2> QED BY <2>3, <2>4
<1>5. {i \in DOMAIN lines : lines[i].marked} = {m}
  BY <1>1, <1>3
<1>6. failing \in DOMAIN lines
  BY <1>1, <1>3
<1> QED BY <1>1, <1>4, <1>5, <1>6 DEF lines, failing

LEMMA StepsAreAccounted ==
  ASSUME NEW d \in Seq(StepKinds), NEW c \in SUBSET (1 .. Len(d)), c # {}
  PROVE  LET lines == StepContext(d, c)
         IN  \A i, j \in DOMAIN lines :
               i < j /\ DOMAIN lines \cap (i + 1 .. j - 1) = {} =>
                 IF lines[j].omitted > 0 THEN lines[j].omitted = j - i - 1
                 ELSE \A m \in i + 1 .. j - 1 : d[m] = "noise" /\ m \notin Inside(c)
<1> DEFINE lines == StepContext(d, c)
           shown == Shown(d, c)
           hidden == HiddenSteps(d, c)
           visible == Visible(d, c)
           skipped(j) == {h \in hidden : h < j /\ \A v \in visible : v < h \/ j <= v}
           n == Len(d)
           low == Min(c)
           high == Max(c)
<1>1. /\ n \in Nat /\ low \in 1 .. n /\ high \in 1 .. n
      /\ Inside(c) = low .. high /\ Inside(c) \subseteq shown /\ shown \subseteq 1 .. n
      /\ visible = shown \ hidden
  BY ShownSteps DEF Visible, Inside
<1>2. /\ \A h \in hidden : low < h /\ h < high /\ h \in Int
      /\ low \in visible /\ high \in visible
  BY HiddenInside
<1>3. DOMAIN lines = visible /\ \A j \in visible : lines[j].omitted = Cardinality(skipped(j))
  BY ContextLines DEF Skipped, Visible
<1> SUFFICES ASSUME NEW i \in visible, NEW j \in visible,
                    i < j, visible \cap (i + 1 .. j - 1) = {}
             PROVE  IF Cardinality(skipped(j)) > 0 THEN Cardinality(skipped(j)) = j - i - 1
                    ELSE \A m \in i + 1 .. j - 1 : d[m] = "noise" /\ m \notin Inside(c)
  <2> HIDE DEF lines, visible, skipped
  <2> QED BY <1>3 DEF lines
<1> HIDE DEF lines, shown, hidden, visible, n, low, high
<1>4. i \in 1 .. n /\ j \in 1 .. n
  BY <1>1
<1>5. \A v \in visible : v \in 1 .. n /\ (v <= i \/ j <= v)
  BY <1>1, <1>4
<1>6. skipped(j) = hidden \cap (i + 1 .. j - 1)
  <2>1. \A h \in hidden : h \in Int /\ h # i
    BY <1>1, <1>2
  <2>2. ASSUME NEW h \in skipped(j) PROVE h \in i + 1 .. j - 1
    BY <2>1, <1>4
  <2>3. ASSUME NEW h \in hidden, h \in i + 1 .. j - 1 PROVE h \in skipped(j)
    BY <2>1, <2>3, <1>4, <1>5
  <2> QED BY <2>2, <2>3
<1>7. CASE skipped(j) # {}
  <2>1. PICK h \in hidden : h \in i + 1 .. j - 1
    BY <1>6, <1>7
  <2>2. low <= i /\ j <= high
    BY <2>1, <1>1, <1>2, <1>4, <1>5
  <2>3. i + 1 .. j - 1 \subseteq hidden
    <3>1. i + 1 .. j - 1 \subseteq Inside(c)
      BY <2>2, <1>1, <1>4
    <3> QED BY <3>1, <1>1
  <2>4. skipped(j) = i + 1 .. j - 1
    BY <2>3, <1>6
  <2>5. Cardinality(i + 1 .. j - 1) = j - i - 1
    <3>1. Cardinality(i + 1 .. j - 1) =
            IF i + 1 > j - 1 THEN 0 ELSE (j - 1) - (i + 1) + 1
      BY <1>4, FS_Interval
    <3> QED BY <3>1, <1>4
  <2>6. j - i - 1 > 0
    BY <2>1, <1>4
  <2> QED BY <2>4, <2>5, <2>6
<1>8. CASE skipped(j) = {}
  <2>1. ~ (Cardinality(skipped(j)) > 0)
    <3> HIDE DEF skipped
    <3>1. Cardinality({}) = 0
      BY FS_EmptySet
    <3> QED BY <1>8, <3>1
  <2>2. ASSUME NEW m \in i + 1 .. j - 1 PROVE d[m] = "noise" /\ m \notin Inside(c)
    <3>1. m \in 1 .. n /\ i < m /\ m < j
      BY <1>1, <1>4
    <3>2. m \notin shown
      BY <1>1, <1>6, <1>8
    <3>3. m \notin Inside(c)
      BY <3>2, <1>1
    <3>4. m < low \/ high < m
      BY <3>1, <3>3, <1>1
    <3>5. i \in shown /\ j \in shown
      BY <1>1
    <3>6. d[m] = "noise"
      BY <3>1, <3>2, <3>4, <3>5, ShownSteps DEF shown, n, low, high
    <3> QED BY <3>3, <3>6
  <2> HIDE DEF skipped
  <2> QED BY <2>1, <2>2
<1> QED BY <1>7, <1>8
-----------------------------------------------------------------------------
(* What the section that was made last says of what it was made of.           *)
Made(s, i, r) ==
  /\ s = "runs" => OwnFirst(i, r)
  /\ s = "console" => /\ i \in Seq(ConsoleKinds)
                      /\ r = [crash |-> CrashReport(i), oops |-> KdumpOops(i)]
  /\ s = "module" => i \in Seq(StepKinds) /\ r = ClusterReport(i)
  /\ s = "range" => Spans(i, r)
  /\ s = "text" => i \in Seq(TextKinds) /\ r = Condense(i, Context)

(* What the analysis keeps: the types, what the reader keeps, that there is a *)
(* module to report when one is about to be reported, and what the section    *)
(* that was made last says.                                                   *)
AnalysisInv ==
  /\ TypeOK /\ FetchInv
  /\ fetched <= MaxFetches
  /\ phase = "report" /\ section = "none" => left > 0
  /\ Made(section, input, report)

(* The reader, while a file is read and when it is forgotten.                 *)
LEMMA AnalysisFetches ==
  AnalysisInv /\ [Next]_allVars => FetchInv' /\ total' <= BodyBound
<1> SUFFICES ASSUME AnalysisInv, [Next]_allVars
             PROVE  FetchInv' /\ total' <= BodyBound
  OBVIOUS
<1>1. FetchInv /\ total <= BodyBound
  BY DEF AnalysisInv, TypeOK
<1>2. CASE UNCHANGED fetchVars
  BY <1>1, <1>2 DEF FetchInv, FetchTypeOK, EndsInv, HeadLen, TailLen, half, fetchVars,
                    OnlyEdgesLost, Bytes
<1>3. CASE Forget
  BY <1>3, FetchAssumption DEF Forget, FetchInv, FetchTypeOK, EndsInv
<1>4. CASE Request
  BY <1>1, <1>4, RequestKeeps, FetchAssumption DEF Request
<1>5. CASE Receive
  <2>1. total' <= BodyBound
    BY <1>5 DEF Receive
  <2> QED BY <1>1, <1>5, <2>1, ReceiveKeeps
<1>6. CASE Complete
  BY <1>1, <1>6, CompleteKeeps DEF Complete
<1>7. CASE FetchFails
  BY <1>1, <1>7, FailureKeeps, FetchAssumption DEF FetchFails
<1>8. CASE Next
  <2>1. CASE RequestFile \/ ReceiveFile \/ CompleteFile \/ LoseFile
    BY <2>1, <1>4, <1>5, <1>6, <1>7 DEF RequestFile, ReceiveFile, CompleteFile, LoseFile
  <2>2. CASE JobLevel \/ ReadLogs
    BY <2>2, <1>3 DEF JobLevel, ReadLogs
  <2>3. CASE PreviousRuns \/ NextRuns \/ Siblings
    BY <2>3, <1>2, Zenon DEF PreviousRuns, NextRuns, Siblings, Summarize
  <2>4. CASE FetchDetails \/ FetchJob \/ AnyModules
    BY <2>4, <1>2, Zenon DEF FetchDetails, FetchJob, AnyModules
  <2>5. CASE ScanCrash \/ ReportModule \/ FindRange \/ CondenseRange \/ Emit \/ Rest
    BY <2>5, <1>2, Zenon DEF ScanCrash, ReportModule, FindRange, CondenseRange, Emit, Rest
  <2> QED BY <1>8, <2>1, <2>2, <2>3, <2>4, <2>5 DEF Next
<1>9. CASE UNCHANGED allVars
  BY <1>2, <1>9 DEF allVars
<1> QED BY <1>8, <1>9

(* A list of runs: the budget is kept, and the order is the order promised.   *)
LEMMA ListOfRuns ==
  ASSUME AnalysisInv, NEW from, NEW to, NEW flavors \in {{FALSE}, BOOLEAN},
         Summarize(from, to, flavors)
  PROVE  /\ phase = from /\ phase' = to /\ left' = left /\ job' = job
         /\ fetched' \in Nat /\ fetched' <= MaxFetches
         /\ section' \in {"none", "runs"} /\ Made(section', input', report')
<1>1. fetched \in Nat /\ fetched <= MaxFetches /\ MaxFetches \in Nat
  BY AnalysisAssumption DEF AnalysisInv, TypeOK
<1>2. phase = from /\ phase' = to /\ left' = left /\ job' = job
  BY Zenon DEF Summarize, Goes
<1>3. CASE Makes("none", None, None) /\ UNCHANGED fetched
  BY <1>1, <1>2, <1>3 DEF Makes, Made
<1>4. CASE \E n \in 1 .. RunsBound :
             \E runs \in [1 .. n -> [flavor : flavors, modules : BOOLEAN]] :
               /\ Makes("runs", runs, FailureGroups(runs))
               /\ fetched' = fetched + Cardinality(FailureGroups(runs).requested)
  <2>0. PICK n \in 1 .. RunsBound :
          \E runs \in [1 .. n -> [flavor : flavors, modules : BOOLEAN]] :
            /\ Makes("runs", runs, FailureGroups(runs))
            /\ fetched' = fetched + Cardinality(FailureGroups(runs).requested)
    BY <1>4
  <2>1. PICK runs \in [1 .. n -> [flavor : flavors, modules : BOOLEAN]] :
          /\ section' = "runs" /\ input' = runs /\ report' = FailureGroups(runs)
          /\ fetched' = fetched + Cardinality(FailureGroups(runs).requested)
    BY <2>0 DEF Makes
  <2>2. runs \in Lists
    <3>1. flavors \subseteq BOOLEAN
      OBVIOUS
    <3>2. runs \in [1 .. n -> Kinds]
      BY <3>1 DEF Kinds
    <3> QED BY <3>2 DEF Lists
  <2>3. /\ OwnFirst(runs, FailureGroups(runs))
        /\ Cardinality(FailureGroups(runs).requested) \in 0 .. MaxFetches - fetched
    BY <1>1, <2>2, FailureGroupsProperties
  <2>4. Made(section', input', report')
    BY <2>1, <2>3 DEF Made
  <2> QED BY <1>1, <1>2, <2>1, <2>3, <2>4
<1> QED BY <1>3, <1>4, Zenon DEF Summarize

(* Every other step: what becomes of the phase, the job, the modules, the     *)
(* budget and the last section.                                               *)
Moves ==
  /\ phase' \in Phases /\ section' \in Sections
  /\ job' \in {job, NoJob} \/ job' \in Jobs
  /\ left' \in 0 .. FailedBound
  /\ fetched' \in Nat /\ fetched' <= MaxFetches
  /\ phase' = "report" /\ section' = "none" => left' > 0
  /\ Made(section', input', report')

LEMMA EveryStepMoves == AnalysisInv /\ [Next]_allVars => Moves
<1> SUFFICES ASSUME AnalysisInv, [Next]_allVars PROVE Moves
  OBVIOUS
<1>0. /\ phase \in Phases /\ section \in Sections /\ left \in 0 .. FailedBound
      /\ fetched \in Nat /\ fetched <= MaxFetches
      /\ FailedBound \in Nat /\ ModulesMax \in Nat /\ MaxFetches \in Nat
      /\ phase = "report" /\ section = "none" => left > 0
      /\ Made(section, input, report)
  BY AnalysisAssumption DEF AnalysisInv, TypeOK
<1>k. UNCHANGED <<section, input, report>> => Made(section', input', report')
  BY <1>0
<1>n. section' \in {"none", "job"} => Made(section', input', report')
  BY DEF Made
<1> HIDE DEF Made
<1>1. CASE FetchDetails
  BY <1>0, <1>k, <1>1 DEF FetchDetails, Goes, Keeps, Moves, Phases
<1>2. CASE FetchJob
  BY <1>0, <1>k, <1>2 DEF FetchJob, Goes, Keeps, Moves, Phases
<1>3. CASE PreviousRuns \/ NextRuns \/ Siblings
  <2>1. /\ phase' \in {"next", "siblings", "modules"} /\ left' = left /\ job' = job
        /\ fetched' \in Nat /\ fetched' <= MaxFetches
        /\ section' \in {"none", "runs"} /\ Made(section', input', report')
    BY <1>3, ListOfRuns, Zenon DEF PreviousRuns, NextRuns, Siblings
  <2> QED BY <1>0, <2>1 DEF Moves, Phases, Sections
<1>4. CASE AnyModules
  <2>1. left' = IF left <= ModulesMax THEN left ELSE ModulesMax
    <3>1. left \in Int /\ ModulesMax \in Int /\ left' = Min({left, ModulesMax})
      BY <1>0, <1>4 DEF AnyModules
    <3> QED BY <3>1, OfTwo
  <2> QED BY <1>0, <1>n, <1>4, <2>1 DEF AnyModules, Makes, Moves, Phases, Sections
<1>5. CASE RequestFile \/ ReceiveFile \/ CompleteFile \/ LoseFile
  <2>1. UNCHANGED analysisVars
    BY <1>5, Zenon DEF RequestFile, ReceiveFile, CompleteFile, LoseFile, Reading
  <2> QED BY <1>0, <1>k, <2>1 DEF analysisVars, Moves
<1>6. CASE JobLevel
  <2>1. /\ section' = "job" /\ phase' \in {"done", "no failed modules"}
        /\ UNCHANGED <<job, left, fetched>>
    BY <1>6 DEF JobLevel, Makes
  <2> QED BY <1>0, <1>n, <2>1 DEF Moves, Phases, Sections
<1>7. CASE ReadLogs
  BY <1>0, <1>k, <1>7 DEF ReadLogs, Goes, Keeps, Moves, Phases
<1>8. CASE ScanCrash
  <2>1. section' = "console" /\ UNCHANGED <<phase, job, left, fetched>>
    BY <1>8 DEF ScanCrash, Makes
  <2>2. Made(section', input', report')
    <3>1. PICK log \in Consoles :
            /\ section' = "console" /\ input' = log
            /\ report' = [crash |-> CrashReport(log), oops |-> KdumpOops(log)]
      BY <1>8, Zenon DEF ScanCrash, Makes
    <3>2. log \in Seq(ConsoleKinds)
      BY AnalysisAssumption
    <3> QED BY <3>1, <3>2 DEF Made
  <2> QED BY <1>0, <2>1, <2>2 DEF Moves, Sections
<1>9. CASE ReportModule
  <2>1. /\ section = "none" /\ phase = "report" /\ left' = left - 1
        /\ section' = "module" /\ UNCHANGED <<phase, job, fetched>>
    BY <1>9, Zenon DEF ReportModule, Idle, Makes
  <2>2. Made(section', input', report')
    <3>1. PICK d \in Details :
            section' = "module" /\ input' = d /\ report' = ClusterReport(d)
      BY <1>9, Zenon DEF ReportModule, Makes
    <3>2. d \in Seq(StepKinds)
      BY AnalysisAssumption
    <3> QED BY <3>1, <3>2 DEF Made
  <2> QED BY <1>0, <2>1, <2>2 DEF Moves, Sections
<1>10. CASE FindRange
  <2>1. PICK log \in Ranges :
          section' = "range" /\ input' = log /\ report' = FindLogRange(log, 2 * Context)
    BY <1>10, Zenon DEF FindRange, Makes
  <2>2. Made(section', input', report')
    <3>1. Spans(input', report')
      BY <2>1, RangeIsSpanned, AnalysisAssumption
    <3> QED BY <2>1, <3>1 DEF Made
  <2>3. UNCHANGED <<phase, job, left, fetched>>
    BY <1>10, Zenon DEF FindRange
  <2> QED BY <1>0, <2>1, <2>2, <2>3 DEF Moves, Sections
<1>11. CASE CondenseRange
  <2>1. section' = "text" /\ UNCHANGED <<phase, job, left, fetched>>
    BY <1>11, Zenon DEF CondenseRange, Makes
  <2>2. Made(section', input', report')
    <3>1. PICK log \in Texts :
            section' = "text" /\ input' = log /\ report' = Condense(log, Context)
      BY <1>11, Zenon DEF CondenseRange, Makes
    <3>2. log \in Seq(TextKinds)
      BY AnalysisAssumption
    <3> QED BY <3>1, <3>2 DEF Made
  <2> QED BY <1>0, <2>1, <2>2 DEF Moves, Sections
<1>12. CASE Emit
  <2>1. /\ phase' \in {"range", "condense", "report", "rest"}
        /\ phase' = "report" => left > 0
        /\ section' = "none" /\ UNCHANGED <<job, left, fetched>>
    BY <1>12 DEF Emit, Makes, MoreModules
  <2> QED BY <1>0, <1>n, <2>1 DEF Moves, Phases, Sections
<1>13. CASE Rest
  BY <1>0, <1>k, <1>13 DEF Rest, Idle, Goes, Keeps, Moves, Phases
<1>14. CASE UNCHANGED allVars
  BY <1>0, <1>k, <1>14 DEF allVars, analysisVars, Moves
<1> QED BY <1>1, <1>2, <1>3, <1>4, <1>5, <1>6, <1>7, <1>8, <1>9, <1>10, <1>11,
           <1>12, <1>13, <1>14, Zenon DEF Next
-----------------------------------------------------------------------------
(* The initial state.                                                         *)
LEMMA AnalysisStarts == Init => AnalysisInv
<1> SUFFICES ASSUME Init PROVE AnalysisInv
  OBVIOUS
<1>1. FetchInv /\ total <= BodyBound
  BY FetchStarts, FetchAssumption DEF Init, FetchInit
<1> QED BY <1>1, AnalysisAssumption
        DEF Init, AnalysisInv, TypeOK, FetchInv, Phases, Sections, Made

(* Every step keeps the invariant.                                            *)
LEMMA AnalysisSteps == AnalysisInv /\ [Next]_allVars => AnalysisInv'
<1> SUFFICES ASSUME AnalysisInv, [Next]_allVars PROVE AnalysisInv'
  OBVIOUS
<1>1. FetchInv' /\ total' <= BodyBound
  BY AnalysisFetches
<1>2. job \in Jobs \cup {NoJob}
  BY DEF AnalysisInv, TypeOK
<1>3. Made(section, input, report)'
  BY EveryStepMoves DEF Moves, Made
<1> QED BY <1>1, <1>2, <1>3, EveryStepMoves DEF AnalysisInv, TypeOK, FetchInv, Moves

(* The analysis keeps its invariant.                                          *)
THEOREM AnalysisInvariant == Spec => []AnalysisInv
<1> QED BY AnalysisStarts, AnalysisSteps, PTL DEF Spec

(* The variables of the analysis keep their types: in particular a module is  *)
(* reported only when one is left, and no file is longer than bodies can be.  *)
THEOREM TypeCorrect == Spec => []TypeOK
<1>1. AnalysisInv => TypeOK
  BY DEF AnalysisInv
<1> QED BY <1>1, AnalysisInvariant, PTL

(* The same of the files that the analysis of a job reads one after the other *)
(* and forgets (analyze_job with job_file).                                   *)
THEOREM AnalysisLosesOnlyEdges == Spec => []OnlyEdgesLost
<1>1. AnalysisInv => OnlyEdgesLost
  BY EndsSuffice DEF AnalysisInv
<1> QED BY <1>1, AnalysisInvariant, PTL

(* However long the lists of runs are and whatever is in them, the requests   *)
(* for them all stay within the budget, and no failure of another flavor is   *)
(* shown or requested instead of one of the flavor of the job.                *)
THEOREM BudgetForOwnFlavorAlways == Spec => []BudgetForOwnFlavor
<1>1. AnalysisInv => BudgetForOwnFlavor
  BY Zenon DEF AnalysisInv, Made, OwnFirst, BudgetForOwnFlavor
<1> QED BY <1>1, AnalysisInvariant, PTL

(* Of a log of any length with its markers anywhere, the range of the steps   *)
(* begins and ends where it should, is not longer than the limit, and what is *)
(* left out of it is counted (find_log_range).                                *)
THEOREM RangeSpansStepsAlways == Spec => []RangeSpansSteps
<1>1. AnalysisInv => RangeSpansSteps
  BY Zenon DEF AnalysisInv, Made, Spans, Best, RangeSpansSteps
<1> QED BY <1>1, AnalysisInvariant, PTL

(* On a console of any length, the last crash that no test triggered is shown,*)
(* only a single crash that a test triggered is called expected, and an oops  *)
(* is named only after a crash that was triggered (_crash_report and          *)
(* kdump_oops_symbol).                                                        *)
THEOREM UntriggeredCrashShownAlways == Spec => []UntriggeredCrashShown
<1>1. AnalysisInv /\ section = "console" => CrashShown(input, report.crash, report.oops)
  <2> SUFFICES ASSUME AnalysisInv, section = "console"
               PROVE  CrashShown(input, report.crash, report.oops)
    OBVIOUS
  <2>1. /\ input \in Seq(ConsoleKinds)
        /\ report.crash = CrashReport(input) /\ report.oops = KdumpOops(input)
    BY DEF AnalysisInv, Made
  <2> QED BY <2>1, CrashIsShown
<1>2. AnalysisInv => UntriggeredCrashShown
  BY <1>1, Zenon DEF CrashShown, UntriggeredCrashShown
<1> QED BY <1>2, AnalysisInvariant, PTL

(* Of a module with any number of steps that failed in any order, the cluster *)
(* with the last failure outside the post-fail hook is chosen, and what is    *)
(* left out as a retry failed earlier in the same way (failing_cluster).      *)
THEOREM LastOwnFailureChosenAlways == Spec => []LastOwnFailureChosen
<1>1. AnalysisInv => LastOwnFailureChosen
  <2> SUFFICES ASSUME AnalysisInv, section = "module" PROVE LastOwnFailureChosen
    BY DEF LastOwnFailureChosen
  <2>1. input \in Seq(StepKinds) /\ report = ClusterReport(input)
    BY DEF AnalysisInv, Made
  <2> QED BY <2>1, OwnFailureIsChosen DEF LastOwnFailureChosen
<1> QED BY <1>1, AnalysisInvariant, PTL

(* What is shown around the cluster: its steps are failures of the module.    *)
LEMMA ClusterOfReport ==
  ASSUME NEW d \in Seq(StepKinds)
  PROVE  LET r == ClusterReport(d)
         IN  IF r.cluster = {} THEN DOMAIN r.context = {}
             ELSE r.cluster \in SUBSET (1 .. Len(d)) /\ r.context = StepContext(d, r.cluster)
<1> DEFINE c == FailingCluster(d).steps
<1>1. CASE ~ HasFailure(d)
  BY <1>1 DEF ClusterReport
<1>2. CASE HasFailure(d)
  <2>1. ClusterReport(d).cluster = c /\ ClusterReport(d).context = StepContext(d, c)
    BY <1>2 DEF ClusterReport
  <2>2. c \subseteq OwnFailures(d) /\ c # {}
    <3>1. ClusterReport(d).cluster \subseteq OwnFailures(d)
      BY OwnFailureIsChosen
    <3>2. c \in OwnClusters(d)
      BY <1>2, LastCluster
    <3> QED BY <2>1, <3>1, <3>2, ClustersOfOwn
  <2>3. OwnFailures(d) \subseteq 1 .. Len(d)
    BY DEF OwnFailures
  <2> HIDE DEF c
  <2> QED BY <2>1, <2>2, <2>3
<1> QED BY <1>1, <1>2

(* However long the cluster is and whatever is left out of it, the step that  *)
(* failed the module is shown, and the marker once, with nothing but failed   *)
(* screens between them (_step_context).                                      *)
THEOREM MarkerBeforeFailureAlways == Spec => []MarkerBeforeFailure
<1>1. AnalysisInv => MarkerBeforeFailure
  <2> SUFFICES ASSUME AnalysisInv, section = "module", report.cluster # {}
               PROVE  MarkerBeforeFailure
    BY DEF MarkerBeforeFailure
  <2>1. input \in Seq(StepKinds) /\ report = ClusterReport(input)
    BY DEF AnalysisInv, Made
  <2>2. /\ report.cluster \in SUBSET (1 .. Len(input))
        /\ report.context = StepContext(input, report.cluster)
    BY <2>1, ClusterOfReport
  <2> QED BY <2>1, <2>2, MarkerIsBefore DEF MarkerBeforeFailure
<1> QED BY <1>1, AnalysisInvariant, PTL

(* Between two steps that are shown, the number of steps that are left out is *)
(* told, unless they are noise outside the cluster (_step_context).           *)
THEOREM StepsAccountedAlways == Spec => []StepsAccounted
<1>1. AnalysisInv => StepsAccounted
  <2> SUFFICES ASSUME AnalysisInv, section = "module" PROVE StepsAccounted
    BY DEF StepsAccounted
  <2>1. input \in Seq(StepKinds) /\ report = ClusterReport(input)
    BY DEF AnalysisInv, Made
  <2>2. CASE report.cluster = {}
    <3>1. DOMAIN report.context = {}
      BY <2>1, <2>2, ClusterOfReport
    <3> QED BY <3>1 DEF StepsAccounted
  <2>3. CASE report.cluster # {}
    <3>1. /\ report.cluster \in SUBSET (1 .. Len(input))
          /\ report.context = StepContext(input, report.cluster)
      BY <2>1, <2>3, ClusterOfReport
    <3> QED BY <2>1, <2>3, <3>1, StepsAreAccounted DEF StepsAccounted
  <2> QED BY <2>2, <2>3
<1> QED BY <1>1, AnalysisInvariant, PTL

(* Whatever the lines of a log are and however many are shown, the lines that *)
(* carry a signal are shown or counted, and no other is shown (condense_log). *)
THEOREM SignalsKeptAlways == Spec => []SignalsKept
<1>1. AnalysisInv => SignalsKept
  <2> SUFFICES ASSUME AnalysisInv, section = "text" PROVE SignalsKept
    BY DEF SignalsKept
  <2>1. input \in Seq(TextKinds) /\ report = Condense(input, Context) /\ Context \in Nat
    BY AnalysisAssumption DEF AnalysisInv, Made
  <2> QED BY <2>1, SignalsAreKept DEF SignalsKept
<1> QED BY <1>1, AnalysisInvariant, PTL
=============================================================================
