------------------------- MODULE ClaudeStream_proofs -------------------------
(***************************************************************************)
(* Theorems about ClaudeStream, for every set of slots and frames and      *)
(* every length of the reply.                                              *)
(***************************************************************************)
EXTENDS ClaudeStream, WellFoundedInduction, SequenceTheorems, TLAPS

-----------------------------------------------------------------------------
(* Find.                                                                   *)

LEMMA SmallestIndex ==
    ASSUME NEW T \in SUBSET Nat, T # {}
    PROVE  \E i \in T : \A j \in T : i <= j
<1>1. \E i \in T : \A j \in T : ~(j < i)
  <2>1. PICK i \in T : \A j \in T : ~(<<j, i>> \in OpToRel(<, Nat))
    BY NatLessThanWellFounded, WFMin, Zenon
  <2>2. ASSUME NEW j \in T PROVE ~(j < i)
    <3>1. <<j, i>> \in Nat \X Nat
      OBVIOUS
    <3>2. <<j, i>>[1] = j /\ <<j, i>>[2] = i
      OBVIOUS
    <3> QED BY <2>1, <3>1, <3>2, Zenon DEF OpToRel
  <2> QED BY <2>2, Zenon
<1> QED BY <1>1

\* The tag begins at place `i` of the text.
Hit(text, tag, i) == i \in 1..Len(text) /\ i < Len(text) /\ <<text[i], text[i + 1]>> = tag

\* Find answers the first of these places, or 0 when there is none.
LEMMA FindFirst ==
    ASSUME NEW text \in Seq(Tokens), NEW tag
    PROVE  \/ /\ Find(text, tag) = 0
              /\ \A i : ~Hit(text, tag, i)
           \/ /\ Find(text, tag) \in 1..(Len(text) - 1)
              /\ Hit(text, tag, Find(text, tag))
              /\ \A i : Hit(text, tag, i) => Find(text, tag) <= i
<1> DEFINE hits == {i \in 1..Len(text) : i < Len(text) /\ <<text[i], text[i + 1]>> = tag}
           least == CHOOSE i \in hits : \A j \in hits : i <= j
<1>1. Find(text, tag) = IF hits = {} THEN 0 ELSE least
  BY DEF Find
<1>2. Len(text) \in Nat
  BY LenProperties
<1>3. \A i : Hit(text, tag, i) <=> i \in hits
  BY DEF Hit
<1>4. CASE hits # {}
  <2>1. \E i \in hits : \A j \in hits : i <= j
    <3>1. hits \in SUBSET Nat
      BY <1>2
    <3> HIDE DEF hits
    <3> QED BY <1>4, <3>1, SmallestIndex
  <2> HIDE DEF hits
  <2>2. least \in hits /\ \A j \in hits : least <= j
    BY <2>1
  <2>3. Find(text, tag) = least
    BY <1>1, <1>4
  <2> HIDE DEF least
  <2>4. Hit(text, tag, least) /\ \A i : Hit(text, tag, i) => least <= i
    BY <1>3, <2>2
  <2>5. least \in 1..(Len(text) - 1)
    BY <1>2, <2>4 DEF Hit
  <2> QED BY <2>3, <2>4, <2>5
<1>5. CASE hits = {}
  <2> HIDE DEF hits
  <2> QED BY <1>1, <1>3, <1>5
<1> QED BY <1>4, <1>5

\* Find answers a place in the text where the tag begins, or 0.
LEMMA FindPlace ==
    ASSUME NEW text \in Seq(Tokens), NEW tag
    PROVE  \/ Find(text, tag) = 0
           \/ /\ Find(text, tag) \in 1..(Len(text) - 1)
              /\ <<text[Find(text, tag)], text[Find(text, tag) + 1]>> = tag
BY FindFirst DEF Hit

LEMMA CutType ==
    ASSUME NEW text \in Seq(Tokens), NEW i \in 1..(Len(text) + 1)
    PROVE  From(text, i) \in Seq(Tokens) /\ Before(text, i) \in Seq(Tokens)
BY LenProperties, SubSeqProperties DEF From, Before

\* A closing tag lies behind the opening one, and ends within the text.
LEMMA FindClosePlace ==
    ASSUME NEW text \in Seq(Tokens), NEW open \in 1..Len(text)
    PROVE  FindClose(text, open) = 0 \/ FindClose(text, open) \in open..(Len(text) - 1)
<1>1. From(text, open) \in Seq(Tokens) /\ Len(From(text, open)) = Len(text) - open + 1
  BY LenProperties, SubSeqProperties DEF From
<1>2. \/ Find(From(text, open), ThinkClose) = 0
      \/ Find(From(text, open), ThinkClose) \in 1..(Len(text) - open)
  BY <1>1, FindPlace
<1> QED BY <1>2, LenProperties DEF FindClose

\* A place that no earlier one beats is the one Find answers.
LEMMA FindIs ==
    ASSUME NEW text \in Seq(Tokens), NEW tag, NEW i \in Nat, Hit(text, tag, i),
           \A j : Hit(text, tag, j) => i <= j
    PROVE  Find(text, tag) = i
<1>1. Find(text, tag) \in Nat /\ Hit(text, tag, Find(text, tag)) /\ Find(text, tag) <= i
  <2>1. Len(text) \in Nat
    BY LenProperties
  <2> QED BY <2>1, FindFirst
<1> QED BY <1>1

\* The places of a tag in two pieces of text, read as one.
LEMMA HitConcat ==
    ASSUME NEW a \in Seq(Tokens), NEW b \in Seq(Tokens), NEW tag
    PROVE  /\ \A i : Hit(a, tag, i) => Hit(a \o b, tag, i)
           /\ \A i : Hit(a \o b, tag, i) /\ i < Len(a) => Hit(a, tag, i)
           /\ \A i : Hit(b, tag, i) => Hit(a \o b, tag, Len(a) + i)
           /\ \A i : Hit(a \o b, tag, i) /\ Len(a) < i => Hit(b, tag, i - Len(a))
<1>0. /\ Len(a) \in Nat /\ Len(b) \in Nat /\ Len(a \o b) = Len(a) + Len(b)
      /\ \A i \in 1..(Len(a) + Len(b)) : (a \o b)[i] = IF i <= Len(a) THEN a[i] ELSE b[i - Len(a)]
  BY LenProperties, ConcatProperties
<1> DEFINE m == Len(a)
           n == Len(b)
           c == a \o b
<1>1. m \in Nat /\ n \in Nat /\ Len(c) = m + n
      /\ \A i \in 1..(m + n) : c[i] = IF i <= m THEN a[i] ELSE b[i - m]
  BY <1>0
<1>2. Len(a) = m /\ Len(b) = n
  OBVIOUS
<1> HIDE DEF m, n, c
<1>3. ASSUME NEW i, Hit(a, tag, i) PROVE Hit(c, tag, i)
  <2>1. i \in 1..(m + n) /\ i + 1 \in 1..(m + n) /\ i <= m /\ i + 1 <= m /\ i < m + n
    BY <1>1, <1>2, <1>3 DEF Hit
  <2> QED BY <1>1, <1>3, <2>1 DEF Hit
<1>4. ASSUME NEW i, Hit(c, tag, i), i < m PROVE Hit(a, tag, i)
  <2>1. i \in 1..(m + n) /\ i + 1 \in 1..(m + n) /\ i <= m /\ i + 1 <= m /\ i \in 1..m
    BY <1>1, <1>4 DEF Hit
  <2> QED BY <1>1, <1>2, <1>4, <2>1 DEF Hit
<1>5. ASSUME NEW i, Hit(b, tag, i) PROVE Hit(c, tag, m + i)
  <2>1. /\ m + i \in 1..(m + n) /\ (m + i) + 1 \in 1..(m + n) /\ ~(m + i <= m)
        /\ ~((m + i) + 1 <= m) /\ m + i < m + n
        /\ (m + i) - m = i /\ ((m + i) + 1) - m = i + 1
    BY <1>1, <1>2, <1>5 DEF Hit
  <2>2. c[m + i] = b[i] /\ c[(m + i) + 1] = b[i + 1]
    BY <1>1, <2>1
  <2> QED BY <1>1, <1>5, <2>1, <2>2 DEF Hit
<1>6. ASSUME NEW i, Hit(c, tag, i), m < i PROVE Hit(b, tag, i - m)
  <2>1. /\ i \in 1..(m + n) /\ i + 1 \in 1..(m + n) /\ ~(i <= m) /\ ~(i + 1 <= m)
        /\ i - m \in 1..n /\ i - m < n /\ (i + 1) - m = (i - m) + 1
    BY <1>1, <1>6 DEF Hit
  <2>2. c[i] = b[i - m] /\ c[i + 1] = b[(i - m) + 1]
    BY <1>1, <2>1
  <2> QED BY <1>2, <1>6, <2>1, <2>2 DEF Hit
<1> QED BY <1>2, <1>3, <1>4, <1>5, <1>6 DEF c

\* The tag does not straddle the boundary between `a` and `b`.
Uncut(a, b, tag) == a # <<>> /\ b # <<>> => <<a[Len(a)], b[1]>> # tag

LEMMA UncutHit ==
    ASSUME NEW a \in Seq(Tokens), NEW b \in Seq(Tokens), NEW tag, Uncut(a, b, tag)
    PROVE  ~Hit(a \o b, tag, Len(a))
<1> SUFFICES ASSUME Hit(a \o b, tag, Len(a)) PROVE FALSE
  OBVIOUS
<1>0. /\ Len(a) \in Nat /\ Len(b) \in Nat /\ Len(a \o b) = Len(a) + Len(b)
      /\ \A i \in 1..(Len(a) + Len(b)) : (a \o b)[i] = IF i <= Len(a) THEN a[i] ELSE b[i - Len(a)]
  BY LenProperties, ConcatProperties
<1> DEFINE m == Len(a)
           n == Len(b)
           c == a \o b
<1>1. m \in Nat /\ n \in Nat /\ Len(c) = m + n
      /\ \A i \in 1..(m + n) : c[i] = IF i <= m THEN a[i] ELSE b[i - m]
  BY <1>0
<1>2. Hit(c, tag, m)
  OBVIOUS
<1> HIDE DEF c
<1>3. m # 0 /\ n # 0 /\ m \in 1..(m + n) /\ m + 1 \in 1..(m + n) /\ (m + 1) - m = 1
      /\ ~(m + 1 <= m) /\ m <= m
  <2> HIDE DEF m, n
  <2> QED BY <1>1, <1>2 DEF Hit
<1>4. a # <<>> /\ b # <<>>
  BY <1>3, EmptySeq
<1>5. c[m] = a[m] /\ c[m + 1] = b[1]
  <2> HIDE DEF m, n
  <2> QED BY <1>1, <1>3
<1> QED BY <1>2, <1>4, <1>5 DEF Hit, Uncut

\* What was found stays found when text is added behind it.
LEMMA FindGrows ==
    ASSUME NEW a \in Seq(Tokens), NEW b \in Seq(Tokens), NEW tag, Find(a, tag) # 0
    PROVE  Find(a \o b, tag) = Find(a, tag)
<1>1. /\ Find(a, tag) \in 1..(Len(a) - 1) /\ Hit(a, tag, Find(a, tag))
      /\ \A i : Hit(a, tag, i) => Find(a, tag) <= i
  BY FindFirst
<1> DEFINE f == Find(a, tag)
<1>2. f \in Nat /\ f < Len(a) /\ Len(a) \in Nat
  BY <1>1, LenProperties
<1>3. a \o b \in Seq(Tokens)
  BY ConcatProperties
<1>4. Hit(a \o b, tag, f)
  BY <1>1, HitConcat
<1> HIDE DEF f
<1>5. ASSUME NEW i, Hit(a \o b, tag, i) PROVE f <= i
  <2>1. i \in Nat
    BY <1>3, <1>5, LenProperties DEF Hit
  <2>2. CASE i < Len(a)
    BY <1>1, <1>5, <2>2, HitConcat DEF f
  <2>3. CASE ~(i < Len(a))
    BY <1>2, <2>1, <2>3
  <2> QED BY <2>2, <2>3
<1>6. Find(a \o b, tag) = f
  BY <1>2, <1>3, <1>4, <1>5, FindIs
<1> QED BY <1>6 DEF f

\* Behind text without the tag, it is found where the rest has it.
LEMMA FindBehind ==
    ASSUME NEW a \in Seq(Tokens), NEW b \in Seq(Tokens), NEW tag, Find(a, tag) = 0,
           Uncut(a, b, tag)
    PROVE  Find(a \o b, tag) = IF Find(b, tag) = 0 THEN 0 ELSE Len(a) + Find(b, tag)
<1>0. \A i : ~Hit(a, tag, i)
  <2>1. Len(a) \in Nat
    BY LenProperties
  <2> QED BY <2>1, FindFirst
<1>1. a \o b \in Seq(Tokens) /\ Len(a) \in Nat /\ Len(b) \in Nat
  BY ConcatProperties, LenProperties
<1>2. ASSUME NEW i, Hit(a \o b, tag, i) PROVE i \in Nat /\ Len(a) < i /\ Hit(b, tag, i - Len(a))
  <2>1. i \in Nat
    BY <1>1, <1>2, LenProperties DEF Hit
  <2>2. ~(i < Len(a))
    BY <1>0, <1>2, HitConcat
  <2>3. i # Len(a)
    BY <1>2, UncutHit
  <2>4. Len(a) < i
    BY <1>1, <2>1, <2>2, <2>3
  <2> QED BY <1>2, <2>1, <2>4, HitConcat
<1>3. CASE Find(b, tag) = 0
  <2>1. \A i : ~Hit(b, tag, i)
    BY <1>1, <1>3, FindFirst
  <2>2. \A i : ~Hit(a \o b, tag, i)
    BY <1>2, <2>1
  <2>3. Find(a \o b, tag) = 0
    BY <1>1, <2>2, FindFirst
  <2> QED BY <1>3, <2>3
<1>4. CASE Find(b, tag) # 0
  <2> DEFINE f == Find(b, tag)
  <2>1. f \in 1..(Len(b) - 1) /\ Hit(b, tag, f) /\ \A i : Hit(b, tag, i) => f <= i
    BY <1>4, FindFirst
  <2>2. f \in Nat /\ Len(a) + f \in Nat
    BY <1>1, <2>1
  <2> HIDE DEF f
  <2>3. Hit(a \o b, tag, Len(a) + f)
    BY <2>1, HitConcat
  <2>4. ASSUME NEW i, Hit(a \o b, tag, i) PROVE Len(a) + f <= i
    <3>1. i \in Nat /\ f <= i - Len(a)
      BY <1>2, <2>1, <2>4
    <3> QED BY <1>1, <2>2, <3>1
  <2>5. Find(a \o b, tag) = Len(a) + f
    BY <1>1, <2>2, <2>3, <2>4, FindIs
  <2> QED BY <1>4, <2>5 DEF f
<1> QED BY <1>3, <1>4

\* Text without the tag has none in either part.
LEMMA FindNowhere ==
    ASSUME NEW a \in Seq(Tokens), NEW b \in Seq(Tokens), NEW tag, Find(a \o b, tag) = 0
    PROVE  Find(a, tag) = 0 /\ Find(b, tag) = 0
<1>1. a \o b \in Seq(Tokens) /\ Len(a) \in Nat /\ Len(b) \in Nat /\ Len(a \o b) \in Nat
  BY ConcatProperties, LenProperties
<1>2. \A i : ~Hit(a \o b, tag, i)
  <2> DEFINE c == a \o b
  <2>1. c \in Seq(Tokens) /\ Find(c, tag) = 0
    BY <1>1
  <2> HIDE DEF c
  <2>2. 0 \notin 1..(Len(c) - 1)
    BY <2>1, LenProperties
  <2>3. \A i : ~Hit(c, tag, i)
    BY <2>1, <2>2, FindFirst, Zenon
  <2> QED BY <2>3 DEF c
<1>3. ASSUME Find(a, tag) # 0 PROVE FALSE
  <2>1. Hit(a, tag, Find(a, tag))
    BY <1>3, FindFirst
  <2> QED BY <1>2, <2>1, HitConcat
<1>4. ASSUME Find(b, tag) # 0 PROVE FALSE
  <2>1. Hit(b, tag, Find(b, tag))
    BY <1>4, FindFirst
  <2> QED BY <1>2, <2>1, HitConcat
<1> QED BY <1>3, <1>4

-----------------------------------------------------------------------------
(* Cutting text that comes in pieces.                                      *)

\* Cutting within the first piece.
LEMMA CutFirst ==
    ASSUME NEW a \in Seq(Tokens), NEW b \in Seq(Tokens), NEW i \in 1..(Len(a) + 1)
    PROVE  From(a \o b, i) = From(a, i) \o b /\ Before(a \o b, i) = Before(a, i)
<1>0. /\ Len(a) \in Nat /\ Len(b) \in Nat /\ Len(a \o b) = Len(a) + Len(b)
      /\ a \o b \in Seq(Tokens)
      /\ \A k \in 1..(Len(a) + Len(b)) : (a \o b)[k] = IF k <= Len(a) THEN a[k] ELSE b[k - Len(a)]
      /\ \A k \in 1..Len(a) : a[k] \in Tokens
      /\ \A k \in 1..(Len(a) + Len(b)) : (a \o b)[k] \in Tokens
  BY LenProperties, ConcatProperties
<1>1. /\ From(a, i) \in Seq(Tokens) /\ Len(From(a, i)) = Len(a) - i + 1
      /\ \A k \in 1..(Len(a) - i + 1) : From(a, i)[k] = a[i + k - 1]
  BY <1>0, SubSeqProperties DEF From
<1>2. /\ From(a \o b, i) \in Seq(Tokens) /\ Len(From(a \o b, i)) = Len(a) + Len(b) - i + 1
      /\ \A k \in 1..(Len(a) + Len(b) - i + 1) : From(a \o b, i)[k] = (a \o b)[i + k - 1]
  BY <1>0, SubSeqProperties DEF From
<1>3. /\ From(a, i) \o b \in Seq(Tokens) /\ Len(From(a, i) \o b) = (Len(a) - i + 1) + Len(b)
      /\ \A k \in 1..((Len(a) - i + 1) + Len(b)) :
            (From(a, i) \o b)[k] = IF k <= Len(a) - i + 1 THEN From(a, i)[k] ELSE b[k - (Len(a) - i + 1)]
  <2> DEFINE z == From(a, i)
  <2>1. z \in Seq(Tokens) /\ Len(z) = Len(a) - i + 1
    BY <1>1
  <2> HIDE DEF z
  <2>2. /\ z \o b \in Seq(Tokens) /\ Len(z \o b) = (Len(a) - i + 1) + Len(b)
        /\ \A k \in 1..((Len(a) - i + 1) + Len(b)) :
              (z \o b)[k] = IF k <= Len(a) - i + 1 THEN z[k] ELSE b[k - (Len(a) - i + 1)]
    <3>1. /\ z \o b \in Seq(Tokens) /\ Len(z \o b) = Len(z) + Len(b)
          /\ \A k \in 1..(Len(z) + Len(b)) : (z \o b)[k] = IF k <= Len(z) THEN z[k] ELSE b[k - Len(z)]
      BY <2>1, ConcatProperties
    <3> QED BY <2>1, <3>1, Zenon
  <2> QED BY <2>2 DEF z
<1>4. From(a \o b, i) = From(a, i) \o b
  <2> DEFINE m == Len(a)
             n == Len(b)
             x == From(a \o b, i)
             y == From(a, i) \o b
             z == From(a, i)
             c == a \o b
  <2>0. /\ m \in Nat /\ n \in Nat /\ i \in 1..(m + 1)
        /\ Len(x) = m + n - i + 1 /\ Len(y) = (m - i + 1) + n
        /\ \A k \in 1..(m + n) : c[k] = IF k <= m THEN a[k] ELSE b[k - m]
        /\ \A k \in 1..(m - i + 1) : z[k] = a[i + k - 1]
        /\ \A k \in 1..(m + n - i + 1) : x[k] = c[i + k - 1]
        /\ \A k \in 1..((m - i + 1) + n) : y[k] = IF k <= m - i + 1 THEN z[k] ELSE b[k - (m - i + 1)]
    BY <1>0, <1>1, <1>2, <1>3
  <2> HIDE DEF m, n, x, y, z, c
  <2>1. ASSUME NEW k \in 1..(m + n - i + 1) PROVE x[k] = y[k]
    <3>1. k \in 1..((m - i + 1) + n) /\ i + k - 1 \in 1..(m + n)
      BY <2>0
    <3>2. CASE k <= m - i + 1
      <4>1. i + k - 1 <= m /\ k \in 1..(m - i + 1)
        BY <2>0, <3>2
      <4> QED BY <2>0, <3>1, <3>2, <4>1
    <3>3. CASE ~(k <= m - i + 1)
      <4>1. ~(i + k - 1 <= m) /\ (i + k - 1) - m = k - (m - i + 1)
        BY <2>0, <3>3
      <4> QED BY <2>0, <3>1, <3>3, <4>1
    <3> QED BY <3>2, <3>3
  <2>2. Len(x) = Len(y) /\ \A k \in 1..Len(x) : x[k] = y[k]
    <3>1. m + n - i + 1 = (m - i + 1) + n
      BY <2>0
    <3> QED BY <2>0, <2>1, <3>1
  <2>3. x \in Seq(Tokens) /\ y \in Seq(Tokens)
    BY <1>2, <1>3 DEF x, y
  <2>4. x = y
    BY <2>2, <2>3, SeqEqual
  <2> QED BY <2>4 DEF x, y
<1>5. /\ Before(a, i) \in Seq(Tokens) /\ Len(Before(a, i)) = i - 1
      /\ \A k \in 1..(i - 1) : Before(a, i)[k] = a[k]
  BY <1>0, SubSeqProperties DEF Before
<1>6. /\ Before(a \o b, i) \in Seq(Tokens) /\ Len(Before(a \o b, i)) = i - 1
      /\ \A k \in 1..(i - 1) : Before(a \o b, i)[k] = (a \o b)[k]
  BY <1>0, SubSeqProperties DEF Before
<1>7. \A k \in 1..(i - 1) : Before(a \o b, i)[k] = Before(a, i)[k]
  BY <1>0, <1>5, <1>6
<1>8. Before(a \o b, i) = Before(a, i)
  BY <1>5, <1>6, <1>7, SeqEqual
<1> QED BY <1>4, <1>8

\* Cutting within the second piece.
LEMMA CutSecond ==
    ASSUME NEW a \in Seq(Tokens), NEW b \in Seq(Tokens), NEW i \in 1..(Len(b) + 1)
    PROVE  /\ From(a \o b, Len(a) + i) = From(b, i)
           /\ Before(a \o b, Len(a) + i) = a \o Before(b, i)
<1>0. /\ Len(a) \in Nat /\ Len(b) \in Nat /\ Len(a \o b) = Len(a) + Len(b)
      /\ \A k \in 1..(Len(a) + Len(b)) : (a \o b)[k] = IF k <= Len(a) THEN a[k] ELSE b[k - Len(a)]
      /\ \A k \in 1..Len(b) : b[k] \in Tokens
      /\ \A k \in 1..(Len(a) + Len(b)) : (a \o b)[k] \in Tokens
  BY LenProperties, ConcatProperties
<1> DEFINE m == Len(a)
           n == Len(b)
           c == a \o b
<1>1. /\ From(b, i) \in Seq(Tokens) /\ Len(From(b, i)) = n - i + 1
      /\ \A k \in 1..(n - i + 1) : From(b, i)[k] = b[i + k - 1]
  BY <1>0, SubSeqProperties DEF From
<1>2. /\ From(c, m + i) \in Seq(Tokens) /\ Len(From(c, m + i)) = (m + n) - (m + i) + 1
      /\ \A k \in 1..((m + n) - (m + i) + 1) : From(c, m + i)[k] = c[(m + i) + k - 1]
  BY <1>0, SubSeqProperties DEF From
<1>3. /\ Before(b, i) \in Seq(Tokens) /\ Len(Before(b, i)) = i - 1
      /\ \A k \in 1..(i - 1) : Before(b, i)[k] = b[k]
  BY <1>0, SubSeqProperties DEF Before
<1>4. /\ Before(c, m + i) \in Seq(Tokens) /\ Len(Before(c, m + i)) = m + i - 1
      /\ \A k \in 1..(m + i - 1) : Before(c, m + i)[k] = c[k]
  BY <1>0, SubSeqProperties DEF Before
<1>5. /\ a \o Before(b, i) \in Seq(Tokens) /\ Len(a \o Before(b, i)) = m + (i - 1)
      /\ \A k \in 1..(m + (i - 1)) :
            (a \o Before(b, i))[k] = IF k <= m THEN a[k] ELSE Before(b, i)[k - m]
  <2> DEFINE z == Before(b, i)
  <2>1. z \in Seq(Tokens) /\ Len(z) = i - 1
    BY <1>3
  <2> HIDE DEF z
  <2>2. /\ a \o z \in Seq(Tokens) /\ Len(a \o z) = m + (i - 1)
        /\ \A k \in 1..(m + (i - 1)) : (a \o z)[k] = IF k <= m THEN a[k] ELSE z[k - m]
    <3>1. /\ a \o z \in Seq(Tokens) /\ Len(a \o z) = Len(a) + Len(z)
          /\ \A k \in 1..(Len(a) + Len(z)) : (a \o z)[k] = IF k <= Len(a) THEN a[k] ELSE z[k - Len(a)]
      BY <2>1, ConcatProperties
    <3> QED BY <2>1, <3>1, Zenon
  <2> QED BY <2>2 DEF z
<1>6. /\ m \in Nat /\ n \in Nat /\ i \in 1..(n + 1)
      /\ \A k \in 1..(m + n) : c[k] = IF k <= m THEN a[k] ELSE b[k - m]
  BY <1>0
<1> HIDE DEF m, n, c
<1>7. \A k \in 1..(n - i + 1) : From(c, m + i)[k] = From(b, i)[k]
  <2> TAKE k \in 1..(n - i + 1)
  <2>1. /\ k \in 1..((m + n) - (m + i) + 1) /\ (m + i) + k - 1 \in 1..(m + n)
        /\ ~((m + i) + k - 1 <= m) /\ ((m + i) + k - 1) - m = i + k - 1
    BY <1>6
  <2> QED BY <1>1, <1>2, <1>6, <2>1
<1>8. From(c, m + i) = From(b, i)
  <2>1. (m + n) - (m + i) + 1 = n - i + 1
    BY <1>6
  <2> QED BY <1>1, <1>2, <1>7, <2>1, SeqEqual
<1>9. \A k \in 1..(m + i - 1) : Before(c, m + i)[k] = (a \o Before(b, i))[k]
  <2> TAKE k \in 1..(m + i - 1)
  <2>1. k \in 1..(m + n) /\ k \in 1..(m + (i - 1))
    BY <1>6
  <2>2. CASE k <= m
    BY <1>4, <1>5, <1>6, <2>1, <2>2
  <2>3. CASE ~(k <= m)
    <3>1. k - m \in 1..(i - 1)
      BY <1>6, <2>3
    <3> QED BY <1>3, <1>4, <1>5, <1>6, <2>1, <2>3, <3>1
  <2> QED BY <2>2, <2>3
<1>10. Before(c, m + i) = a \o Before(b, i)
  <2>1. m + (i - 1) = m + i - 1
    BY <1>6
  <2> QED BY <1>4, <1>5, <1>9, <2>1, SeqEqual
<1> QED BY <1>8, <1>10 DEF m, c

\* The place of the closing tag, when text is added behind or before.
LEMMA FindCloseGrows ==
    ASSUME NEW a \in Seq(Tokens), NEW b \in Seq(Tokens), NEW open \in 1..Len(a),
           FindClose(a, open) # 0
    PROVE  FindClose(a \o b, open) = FindClose(a, open)
<1>1. From(a, open) \in Seq(Tokens) /\ From(a \o b, open) = From(a, open) \o b
  BY CutType, CutFirst, LenProperties
<1>2. Find(From(a, open), ThinkClose) # 0
  BY DEF FindClose
<1>3. Find(From(a, open) \o b, ThinkClose) = Find(From(a, open), ThinkClose)
  BY <1>1, <1>2, FindGrows
<1> QED BY <1>1, <1>3 DEF FindClose

LEMMA FindCloseBehind ==
    ASSUME NEW a \in Seq(Tokens), NEW b \in Seq(Tokens), NEW open \in 1..Len(b)
    PROVE  FindClose(a \o b, Len(a) + open)
             = IF FindClose(b, open) = 0 THEN 0 ELSE Len(a) + FindClose(b, open)
<1>1. From(b, open) \in Seq(Tokens) /\ From(a \o b, Len(a) + open) = From(b, open)
  BY CutType, CutSecond, LenProperties
<1> DEFINE f == Find(From(b, open), ThinkClose)
<1>2. f \in Nat /\ Len(a) \in Nat
  <2>1. Len(From(b, open)) \in Nat /\ Len(a) \in Nat
    BY <1>1, LenProperties
  <2> QED BY <1>1, <2>1, FindFirst
<1>3. /\ FindClose(b, open) = IF f = 0 THEN 0 ELSE open + f - 1
      /\ FindClose(a \o b, Len(a) + open) = IF f = 0 THEN 0 ELSE (Len(a) + open) + f - 1
  BY <1>1 DEF FindClose
<1> HIDE DEF f
<1>4. f # 0 => open + f - 1 # 0
  BY <1>2
<1> QED BY <1>2, <1>3, <1>4

-----------------------------------------------------------------------------
(* The text a client is told, as the upstream's text grows.                *)

\* What OnText does to the text: `buf` is what was held back and what has come.
HeldAfter(buf) ==
    LET open == Find(buf, ThinkOpen)
    IN IF open # 0 /\ FindClose(buf, open) = 0 THEN buf ELSE <<>>

ShownAfter(x, buf) ==
    LET open  == Find(buf, ThinkOpen)
        close == FindClose(buf, open)
    IN IF open = 0 THEN x \o buf
       ELSE IF close = 0 THEN x ELSE (x \o Before(buf, open)) \o From(buf, close + 2)

\* The upstream has sent `c`, the translator holds `p` back, and the client
\* has, or is about to have, the text `x`.  Either there was no thinking yet; or
\* it is going on, and all of it is held back; or a span of it is over.
Plain(c, p, x) == Find(c, ThinkOpen) = 0 /\ p = <<>> /\ x = c

Thinking(c, p, x) ==
    LET open == Find(c, ThinkOpen)
    IN open # 0 /\ FindClose(c, open) = 0 /\ c = x \o p /\ Len(x) < open

Thought(c, p, x) ==
    LET open == Find(c, ThinkOpen)
    IN /\ open # 0 /\ FindClose(c, open) # 0
       /\ OneSpan(c) => p = <<>> /\ x = Stripped(c)

Told(c, p, x) == Plain(c, p, x) \/ Thinking(c, p, x) \/ Thought(c, p, x)

LEMMA SpanParts ==
    ASSUME NEW text, NEW o \in Nat \ {0}, NEW k \in Nat \ {0},
           Find(text, ThinkOpen) = o, FindClose(text, o) = k
    PROVE  /\ OneSpan(text) <=> Find(From(text, k + 2), ThinkOpen) = 0
           /\ Stripped(text) = Before(text, o) \o From(text, k + 2)
BY DEF OneSpan, Stripped

LEMMA JoinAgain ==
    ASSUME NEW a \in Seq(Tokens), NEW b \in Seq(Tokens), NEW c \in Seq(Tokens)
    PROVE  (a \o b) \o c = a \o (b \o c)
BY ConcatAssociative

\* The first opening tag is in what was held back or has just come.
LEMMA ToldBehind ==
    ASSUME NEW x \in Seq(Tokens), NEW buf \in Seq(Tokens), Find(buf, ThinkOpen) # 0,
           Find(x \o buf, ThinkOpen) = Len(x) + Find(buf, ThinkOpen)
    PROVE  Told(x \o buf, HeldAfter(buf), ShownAfter(x, buf))
<1> DEFINE i == Find(buf, ThinkOpen)
           k == FindClose(buf, i)
           c == x \o buf
<1>0. Len(x) \in Nat /\ Len(buf) \in Nat /\ c \in Seq(Tokens)
  BY LenProperties, ConcatProperties
<1>1. i \in 1..(Len(buf) - 1)
  BY FindPlace
<1>2. i \in 1..Len(buf) /\ i \in 1..(Len(buf) + 1) /\ Len(x) + i # 0 /\ Len(x) < Len(x) + i
  <2> HIDE DEF i
  <2> QED BY <1>0, <1>1
<1>3. Find(c, ThinkOpen) = Len(x) + i
  OBVIOUS
<1>4. FindClose(c, Len(x) + i) = IF k = 0 THEN 0 ELSE Len(x) + k
  BY <1>2, FindCloseBehind
<1>5. CASE k = 0
  <2>1. HeldAfter(buf) = buf /\ ShownAfter(x, buf) = x
    BY <1>5 DEF HeldAfter, ShownAfter
  <2>2. Thinking(c, buf, x)
    <3> HIDE DEF i, k
    <3> QED BY <1>2, <1>3, <1>4, <1>5 DEF Thinking, c
  <2> QED BY <2>1, <2>2 DEF Told
<1>6. CASE k # 0
  <2>1. HeldAfter(buf) = <<>>
        /\ ShownAfter(x, buf) = (x \o Before(buf, i)) \o From(buf, k + 2)
    BY <1>6 DEF HeldAfter, ShownAfter
  <2>2. k \in i..(Len(buf) - 1)
    BY <1>2, <1>6, FindClosePlace
  <2>3. k + 2 \in 1..(Len(buf) + 1) /\ Len(x) + k # 0 /\ Len(x) + (k + 2) = (Len(x) + k) + 2
        /\ Len(x) + i > 0 /\ Len(x) + k > 0
    <3> HIDE DEF i, k
    <3> QED BY <1>0, <1>2, <2>2
  <2>4. /\ Before(c, Len(x) + i) = x \o Before(buf, i)
        /\ From(c, Len(x) + (k + 2)) = From(buf, k + 2)
    BY <1>2, <2>3, CutSecond
  <2>5. FindClose(c, Find(c, ThinkOpen)) = Len(x) + k
    BY <1>3, <1>4, <1>6
  <2>6. Stripped(c) = Before(c, Len(x) + i) \o From(c, (Len(x) + k) + 2)
    <3> HIDE DEF i, k, c
    <3> QED BY <1>3, <2>3, <2>5 DEF Stripped
  <2>7. Thought(c, <<>>, ShownAfter(x, buf))
    <3>1. ShownAfter(x, buf) = Stripped(c)
      BY <2>1, <2>3, <2>4, <2>6
    <3> HIDE DEF i, k, c
    <3> QED BY <1>2, <1>3, <2>3, <2>5, <3>1 DEF Thought
  <2> QED BY <2>1, <2>7 DEF Told
<1> QED BY <1>5, <1>6

\* One more piece of text, which begins behind any opening tag.
LEMMA ToldText ==
    ASSUME NEW c \in Seq(Tokens), NEW p \in Seq(Tokens), NEW x \in Seq(Tokens), Told(c, p, x),
           NEW f \in Seq(Tokens), Uncut(c, f, ThinkOpen)
    PROVE  Told(c \o f, HeldAfter(p \o f), ShownAfter(x, p \o f))
<1>0. Len(c) \in Nat /\ Len(f) \in Nat /\ Len(x) \in Nat /\ Len(p) \in Nat
      /\ c \o f \in Seq(Tokens) /\ p \o f \in Seq(Tokens) /\ <<>> \o f = f
  BY LenProperties, ConcatProperties, ConcatEmptySeq
<1>1. CASE Plain(c, p, x)
  <2>1. Find(c, ThinkOpen) = 0 /\ p \o f = f /\ x = c
    BY <1>0, <1>1 DEF Plain
  <2>2. Find(c \o f, ThinkOpen) = IF Find(f, ThinkOpen) = 0 THEN 0 ELSE Len(c) + Find(f, ThinkOpen)
    BY <2>1, FindBehind
  <2>3. CASE Find(f, ThinkOpen) = 0
    <3>1. HeldAfter(f) = <<>> /\ ShownAfter(x, f) = c \o f
      BY <2>1, <2>3 DEF HeldAfter, ShownAfter
    <3>2. Plain(c \o f, <<>>, c \o f)
      BY <2>2, <2>3 DEF Plain
    <3> QED BY <2>1, <3>1, <3>2 DEF Told
  <2>4. CASE Find(f, ThinkOpen) # 0
    BY <2>1, <2>2, <2>4, ToldBehind
  <2> QED BY <2>3, <2>4
<1>2. CASE Thinking(c, p, x)
  <2> DEFINE o == Find(c, ThinkOpen)
             buf == p \o f
             d == c \o f
  <2>1. o # 0 /\ c = x \o p /\ Len(x) < o
    BY <1>2 DEF Thinking
  <2>2. d = x \o buf /\ buf \in Seq(Tokens) /\ d \in Seq(Tokens)
    BY <1>0, <2>1, ConcatAssociative
  <2>3. o \in Nat
    BY <1>0, FindFirst
  <2>4. Find(d, ThinkOpen) = o
    BY <2>1, FindGrows
  <2> HIDE DEF o, buf, d
  <2>5. Hit(d, ThinkOpen, o) /\ \A j : Hit(d, ThinkOpen, j) => o <= j
    BY <2>1, <2>2, <2>4, FindFirst
  <2>6. Hit(buf, ThinkOpen, o - Len(x))
    BY <2>1, <2>2, <2>5, HitConcat
  <2>7. ASSUME NEW j, Hit(buf, ThinkOpen, j) PROVE o - Len(x) <= j
    <3>1. Hit(d, ThinkOpen, Len(x) + j)
      BY <2>2, <2>7, HitConcat
    <3>2. o <= Len(x) + j
      BY <2>5, <3>1
    <3>3. j \in Nat
      BY <2>2, <2>7, LenProperties DEF Hit
    <3> QED BY <1>0, <2>3, <3>2, <3>3
  <2>8. o - Len(x) \in Nat /\ o - Len(x) # 0 /\ Len(x) + (o - Len(x)) = o
    BY <1>0, <2>1, <2>3
  <2>9. Find(buf, ThinkOpen) = o - Len(x)
    BY <2>2, <2>6, <2>7, <2>8, FindIs
  <2>10. Told(x \o buf, HeldAfter(buf), ShownAfter(x, buf))
    BY <2>2, <2>4, <2>8, <2>9, ToldBehind
  <2> QED BY <2>2, <2>10 DEF d, buf
<1>3. CASE Thought(c, p, x)
  <2> DEFINE o == Find(c, ThinkOpen)
             k == FindClose(c, o)
             d == c \o f
             rest == From(c, k + 2)
  <2>1. o # 0 /\ k # 0 /\ (OneSpan(c) => p = <<>> /\ x = Stripped(c))
    BY <1>3 DEF Thought
  <2>2. o \in 1..(Len(c) - 1)
    BY <2>1, FindPlace
  <2>3. o \in 1..Len(c) /\ o \in 1..(Len(c) + 1) /\ o > 0
    <3> HIDE DEF o
    <3> QED BY <1>0, <2>2
  <2>4. k \in o..(Len(c) - 1)
    BY <2>1, <2>3, FindClosePlace
  <2>5. k + 2 \in 1..(Len(c) + 1) /\ k > 0
    <3> HIDE DEF o, k
    <3> QED BY <1>0, <2>3, <2>4
  <2>6. Find(d, ThinkOpen) = o /\ FindClose(d, o) = k
    BY <2>1, <2>3, FindGrows, FindCloseGrows
  <2>7. From(d, k + 2) = rest \o f /\ Before(d, o) = Before(c, o)
        /\ rest \in Seq(Tokens) /\ Before(c, o) \in Seq(Tokens)
    BY <2>3, <2>5, CutFirst, CutType
  <2>8. o \in Nat \ {0} /\ k \in Nat \ {0}
    <3> HIDE DEF o, k
    <3> QED BY <1>0, <2>3, <2>4, <2>5
  <2>9. /\ OneSpan(c) <=> Find(rest, ThinkOpen) = 0
        /\ Stripped(c) = Before(c, o) \o rest
        /\ OneSpan(d) <=> Find(rest \o f, ThinkOpen) = 0
        /\ Stripped(d) = Before(c, o) \o (rest \o f)
    <3>1. o = Find(c, ThinkOpen) /\ k = FindClose(c, o) /\ rest = From(c, k + 2)
      OBVIOUS
    <3> HIDE DEF o, k, rest, d
    <3>2. /\ OneSpan(c) <=> Find(From(c, k + 2), ThinkOpen) = 0
          /\ Stripped(c) = Before(c, o) \o From(c, k + 2)
      BY <2>8, <3>1, SpanParts
    <3>3. /\ OneSpan(d) <=> Find(From(d, k + 2), ThinkOpen) = 0
          /\ Stripped(d) = Before(d, o) \o From(d, k + 2)
      BY <2>6, <2>8, SpanParts
    <3> QED BY <2>7, <3>1, <3>2, <3>3
  <2> HIDE DEF o, k, rest, d
  <2>10. ASSUME OneSpan(d)
         PROVE  HeldAfter(p \o f) = <<>> /\ ShownAfter(x, p \o f) = Stripped(d)
    <3>1. Find(rest, ThinkOpen) = 0 /\ Find(f, ThinkOpen) = 0
      BY <2>7, <2>9, <2>10, FindNowhere
    <3>2. p \o f = f /\ x = Before(c, o) \o rest
      BY <1>0, <2>1, <2>9, <3>1
    <3>3. HeldAfter(f) = <<>> /\ ShownAfter(x, f) = x \o f
      BY <3>1 DEF HeldAfter, ShownAfter
    <3>4. (Before(c, o) \o rest) \o f = Before(c, o) \o (rest \o f)
      <4> DEFINE b == Before(c, o)
      <4>1. b \in Seq(Tokens) /\ rest \in Seq(Tokens)
        BY <2>7
      <4> HIDE DEF b
      <4>2. (b \o rest) \o f = b \o (rest \o f)
        BY <4>1, JoinAgain, ZenonT(30)
      <4> QED BY <4>2 DEF b
    <3> QED BY <2>9, <3>2, <3>3, <3>4
  <2>11. Thought(d, HeldAfter(p \o f), ShownAfter(x, p \o f))
    BY <2>1, <2>6, <2>10 DEF Thought
  <2> QED BY <2>11 DEF Told, d
<1> QED BY <1>1, <1>2, <1>3 DEF Told

-----------------------------------------------------------------------------
(* What a strict client accepts, event by event.                           *)

\* The event `e` is one that AnthropicStream allows a client in `w`.
Legal(w, e) ==
    \/ e.type = "message_start" /\ e.index = 0 /\ e.kind = NoKind /\ w.phase = "idle"
    \/ /\ e.type = "content_block_start" /\ e.index = w.next /\ e.kind \in Kinds
       /\ w.phase = "message" /\ w.open = NoKind
    \/ /\ e.type = "content_block_delta" /\ e.index = w.next - 1 /\ e.kind = w.open
       /\ w.phase = "message" /\ w.open # NoKind
    \/ /\ e.type = "content_block_stop" /\ e.index = w.next - 1 /\ e.kind = NoKind
       /\ w.phase = "message" /\ w.open # NoKind
    \/ /\ e.type \in {"message_delta", "error"} /\ e.index = 0 /\ e.kind = NoKind
       /\ w.phase = "message" /\ w.open = NoKind
    \/ e.type = "message_stop" /\ e.index = 0 /\ e.kind = NoKind /\ w.phase = "closing"

LEMMA ReceiveFields ==
    ASSUME NEW w \in Wires, NEW e \in Events
    PROVE  /\ Receive(w, e) \in Wires
           /\ Receive(w, e).phase = CASE e.type = "message_start" -> "message"
                                      [] e.type = "message_delta" -> "closing"
                                      [] e.type = "message_stop"  -> "stopped"
                                      [] e.type = "error"         -> "failed"
                                      [] OTHER                    -> w.phase
           /\ Receive(w, e).open = CASE e.type = "content_block_start" -> e.kind
                                     [] e.type = "content_block_stop"  -> NoKind
                                     [] OTHER                          -> w.open
           /\ Receive(w, e).next = IF e.type = "content_block_start" THEN w.next + 1 ELSE w.next
           /\ Receive(w, e).last = [type |-> e.type, index |-> e.index, kind |-> e.kind]
<1>1. Receive(w, e).text \in Seq(Tokens)
  BY ConcatProperties DEF Receive, Wires, Events
<1>2. Receive(w, e).phase \in {"idle", "message", "closing", "stopped", "failed"}
  BY DEF Receive, Wires
<1>3. Receive(w, e).open \in Kinds \cup {NoKind}
  BY DEF Receive, Wires, Events
<1>4. Receive(w, e).next \in Nat
  BY DEF Receive, Wires
<1>5. Receive(w, e) \in Wires
  BY <1>1, <1>2, <1>3, <1>4 DEF Receive, Wires, Events
<1> QED BY <1>5 DEF Receive

LEMMA ReceiveText ==
    ASSUME NEW w, NEW e
    PROVE  /\ e.kind = "text" => Receive(w, e).text = w.text \o e.text
           /\ e.kind # "text" => Receive(w, e).text = w.text
BY DEF Receive

\* The events `s` take a client from `w` to `v`, each of them legal in its turn.
Leads(w, s, v) ==
    \E path \in [0..Len(s) -> Wires] :
        /\ path[0] = w
        /\ path[Len(s)] = v
        /\ \A i \in 1..Len(s) : Legal(path[i - 1], s[i]) /\ path[i] = Receive(path[i - 1], s[i])

LEMMA LeadsNowhere ==
    ASSUME NEW w \in Wires
    PROVE  Leads(w, <<>>, w)
<1> DEFINE path == [i \in 0..0 |-> w]
<1>1. path \in [0..0 -> Wires] /\ path[0] = w
  OBVIOUS
<1> HIDE DEF path
<1>2. path \in [0..Len(<<>>) -> Wires] /\ path[Len(<<>>)] = w
  BY <1>1
<1>3. \A i \in 1..Len(<<>>) : FALSE
  OBVIOUS
<1> QED BY <1>1, <1>2, <1>3 DEF Leads

LEMMA LeadsEmpty ==
    ASSUME NEW w \in Wires, NEW v \in Wires, Leads(w, <<>>, v)
    PROVE  v = w
BY DEF Leads

LEMMA LeadsAppend ==
    ASSUME NEW w \in Wires, NEW s \in Seq(Events), NEW v \in Wires, NEW e \in Events,
           Leads(w, s, v), Legal(v, e)
    PROVE  Leads(w, Append(s, e), Receive(v, e))
<1>0. Len(s) \in Nat /\ Len(Append(s, e)) = Len(s) + 1
      /\ Append(s, e)[Len(s) + 1] = e /\ \A i \in 1..Len(s) : Append(s, e)[i] = s[i]
  BY LenProperties, AppendProperties
<1>1. PICK path \in [0..Len(s) -> Wires] :
        /\ path[0] = w
        /\ path[Len(s)] = v
        /\ \A i \in 1..Len(s) : Legal(path[i - 1], s[i]) /\ path[i] = Receive(path[i - 1], s[i])
  BY DEF Leads
<1>2. Receive(v, e) \in Wires
  BY ReceiveFields
<1> DEFINE longer == [i \in 0..(Len(s) + 1) |-> IF i <= Len(s) THEN path[i] ELSE Receive(v, e)]
<1>3. longer \in [0..(Len(s) + 1) -> Wires] /\ longer[0] = w
      /\ longer[Len(s) + 1] = Receive(v, e) /\ longer[Len(s)] = v
  BY <1>0, <1>1, <1>2
<1>4. ASSUME NEW i \in 1..(Len(s) + 1)
      PROVE  /\ Legal(longer[i - 1], Append(s, e)[i])
             /\ longer[i] = Receive(longer[i - 1], Append(s, e)[i])
  <2>1. CASE i = Len(s) + 1
    BY <1>0, <1>3, <2>1
  <2>2. CASE i # Len(s) + 1
    <3>1. i \in 1..Len(s) /\ longer[i] = path[i] /\ longer[i - 1] = path[i - 1]
      BY <1>0, <2>2
    <3> QED BY <1>0, <1>1, <3>1
  <2> QED BY <2>1, <2>2
<1> HIDE DEF longer
<1> QED BY <1>0, <1>3, <1>4 DEF Leads

LEMMA LeadsTail ==
    ASSUME NEW w \in Wires, NEW s \in Seq(Events), NEW v \in Wires, s # <<>>, Leads(w, s, v)
    PROVE  Legal(w, Head(s)) /\ Leads(Receive(w, Head(s)), Tail(s), v)
<1>0. Len(s) \in Nat \ {0} /\ Len(Tail(s)) = Len(s) - 1 /\ Head(s) = s[1] /\ s[1] \in Events
      /\ \A i \in 1..(Len(s) - 1) : Tail(s)[i] = s[i + 1]
  BY EmptySeq, LenProperties, HeadTailProperties
<1>1. PICK path \in [0..Len(s) -> Wires] :
        /\ path[0] = w
        /\ path[Len(s)] = v
        /\ \A i \in 1..Len(s) : Legal(path[i - 1], s[i]) /\ path[i] = Receive(path[i - 1], s[i])
  BY DEF Leads
<1>2. Legal(w, s[1]) /\ path[1] = Receive(w, s[1])
  BY <1>0, <1>1
<1> DEFINE rest == [i \in 0..(Len(s) - 1) |-> path[i + 1]]
<1>3. rest \in [0..(Len(s) - 1) -> Wires] /\ rest[0] = Receive(w, s[1]) /\ rest[Len(s) - 1] = v
  BY <1>0, <1>1, <1>2
<1>4. ASSUME NEW i \in 1..(Len(s) - 1)
      PROVE  Legal(rest[i - 1], Tail(s)[i]) /\ rest[i] = Receive(rest[i - 1], Tail(s)[i])
  <2>1. rest[i] = path[i + 1] /\ rest[i - 1] = path[i] /\ i + 1 \in 1..Len(s)
    BY <1>0
  <2>2. Legal(path[(i + 1) - 1], s[i + 1]) /\ path[i + 1] = Receive(path[(i + 1) - 1], s[i + 1])
    BY <1>1, <2>1
  <2> QED BY <1>0, <2>1, <2>2
<1> HIDE DEF rest
<1> QED BY <1>0, <1>2, <1>3, <1>4 DEF Leads

\* The client's text only grows.
LEMMA LeadsGrows ==
    ASSUME NEW w \in Wires, NEW s \in Seq(Events), NEW v \in Wires, Leads(w, s, v)
    PROVE  Len(w.text) <= Len(v.text)
<1>1. PICK path \in [0..Len(s) -> Wires] :
        /\ path[0] = w
        /\ path[Len(s)] = v
        /\ \A i \in 1..Len(s) : Legal(path[i - 1], s[i]) /\ path[i] = Receive(path[i - 1], s[i])
  BY DEF Leads
<1> DEFINE size == [i \in 0..Len(s) |-> Len(path[i].text)]
<1>2. Len(s) \in Nat /\ \A i \in 1..Len(s) : s[i] \in Events
  BY LenProperties
<1>3. \A u \in Wires : Len(u.text) \in Nat
  BY LenProperties DEF Wires
<1>4. size \in [0..Len(s) -> Nat] /\ size[0] = Len(w.text) /\ size[Len(s)] = Len(v.text)
  BY <1>1, <1>2, <1>3
<1>5. ASSUME NEW i \in 1..Len(s) PROVE size[i - 1] <= size[i]
  <2>1. i - 1 \in 0..Len(s) /\ i \in 0..Len(s)
    BY <1>2
  <2>2. path[i - 1] \in Wires /\ s[i] \in Events /\ path[i] = Receive(path[i - 1], s[i])
    BY <1>1, <1>2, <2>1
  <2> DEFINE u == path[i - 1]
  <2>3. size[i - 1] = Len(u.text) /\ size[i] = Len(Receive(u, s[i]).text)
    BY <2>1, <2>2
  <2> HIDE DEF u, size
  <2>4. u.text \in Seq(Tokens) /\ s[i].text \in Seq(Tokens)
        /\ Receive(u, s[i]).text \in {u.text, u.text \o s[i].text}
    <3>1. u \in Wires /\ s[i] \in Events
      BY <2>2 DEF u
    <3>2. u.text \in Seq(Tokens) /\ s[i].text \in Seq(Tokens)
      BY <3>1 DEF Wires, Events
    <3>3. Receive(u, s[i]).text = u.text \/ Receive(u, s[i]).text = u.text \o s[i].text
      BY ReceiveText
    <3> QED BY <3>2, <3>3
  <2> DEFINE a == u.text
             b == s[i].text
  <2>5. a \in Seq(Tokens) /\ b \in Seq(Tokens) /\ size[i - 1] = Len(a)
        /\ (size[i] = Len(a) \/ size[i] = Len(a \o b))
    BY <2>3, <2>4
  <2> HIDE DEF a, b
  <2>6. Len(a) \in Nat /\ Len(b) \in Nat /\ Len(a \o b) = Len(a) + Len(b)
    BY <2>5, LenProperties, ConcatProperties
  <2> QED BY <2>5, <2>6
<1> HIDE DEF size
<1> DEFINE Short == {i \in 0..Len(s) : size[i] < size[0]}
<1>6. CASE Short = {}
  <2>1. ~(size[Len(s)] < size[0])
    BY <1>2, <1>6
  <2> QED BY <1>2, <1>4, <2>1
<1>7. CASE Short # {}
  <2>1. Short \in SUBSET Nat
    BY <1>2
  <2> HIDE DEF Short
  <2>2. PICK i \in Short : \A j \in Short : i <= j
    BY <1>7, <2>1, SmallestIndex
  <2> USE DEF Short
  <2>3. i \in 0..Len(s) /\ size[i] < size[0] /\ i # 0
    BY <1>2, <1>4, <2>2
  <2>4. i \in 1..Len(s) /\ i - 1 \in 0..Len(s) /\ ~(i <= i - 1)
    BY <1>2, <2>3
  <2>5. size[i - 1] <= size[i] /\ i - 1 \notin Short
    BY <1>5, <2>2, <2>4
  <2>6. ~(size[i - 1] < size[0])
    BY <2>4, <2>5
  <2> QED BY <1>4, <2>3, <2>4, <2>5, <2>6
<1> QED BY <1>6, <1>7

-----------------------------------------------------------------------------
(* The translator's operators: their types.                                *)

Stages == [t : Translators, out : Seq(Events)]

LEMMA EventType ==
    ASSUME NEW type \in EventTypes
    PROVE  Event(type) \in Events
<1>1. <<>> \in Seq(Tokens)
  BY EmptySeq
<1> QED BY <1>1 DEF Event, Events

LEMMA StageType ==
    ASSUME NEW t \in Translators, NEW out \in Seq(Events), NEW e \in Events
    PROVE  Step(t, Append(out, e)) \in Stages /\ Step(t, out) \in Stages
BY AppendProperties DEF Step, Stages

LEMMA StartType ==
    ASSUME NEW s \in Stages
    PROVE  Start(s) \in Stages
<1>1. s.t \in Translators /\ s.out \in Seq(Events)
  BY DEF Stages
<1>2. [s.t EXCEPT !.started = TRUE] \in Translators
  BY <1>1 DEF Translators
<1>3. Event("message_start") \in Events
  BY EventType DEF EventTypes
<1> QED BY <1>1, <1>2, <1>3, StageType DEF Start

LEMMA CloseBlockType ==
    ASSUME NEW s \in Stages
    PROVE  CloseBlock(s) \in Stages
<1>1. s.t \in Translators /\ s.out \in Seq(Events)
  BY DEF Stages
<1>2. [s.t EXCEPT !.open = NoKind] \in Translators
  BY <1>1 DEF Translators
<1>3. Event("content_block_stop") \in Events
  BY EventType DEF EventTypes
<1>4. [Event("content_block_stop") EXCEPT !.index = s.t.index] \in Events
  BY <1>1, <1>3 DEF Events, Translators
<1> QED BY <1>1, <1>2, <1>4, StageType DEF CloseBlock

LEMMA EnsureOpenType ==
    ASSUME NEW s \in Stages, NEW want \in Kinds
    PROVE  EnsureOpen(s, want) \in Stages
<1> DEFINE c == CloseBlock(s)
           t == [c.t EXCEPT !.index = c.t.next_index, !.next_index = c.t.next_index + 1, !.open = want]
           e == [Event("content_block_start") EXCEPT !.index = c.t.next_index, !.kind = want]
<1>1. c.t \in Translators /\ c.out \in Seq(Events)
  BY CloseBlockType DEF Stages
<1> HIDE DEF c
<1>2. t \in Translators
  <2> DEFINE u == [c.t EXCEPT !.index = c.t.next_index]
             v == [u EXCEPT !.next_index = c.t.next_index + 1]
  <2>1. c.t.next_index \in Nat /\ c.t.next_index + 1 \in Nat
    BY <1>1 DEF Translators
  <2>2. u \in Translators
    BY <1>1, <2>1 DEF Translators
  <2>3. v \in Translators
    BY <2>1, <2>2 DEF Translators
  <2>4. [v EXCEPT !.open = want] \in Translators
    BY <2>3 DEF Translators
  <2> QED BY <2>4
<1>3. Event("content_block_start") \in Events
  BY EventType DEF EventTypes
<1>4. e \in Events
  BY <1>1, <1>3 DEF Events, Translators
<1>5. Step(t, Append(c.out, e)) \in Stages
  BY <1>1, <1>2, <1>4, StageType
<1> QED BY <1>5 DEF EnsureOpen, c

LEMMA DeltaType ==
    ASSUME NEW s \in Stages, NEW kind \in Kinds, NEW text \in Seq(Tokens)
    PROVE  Delta(s, kind, text) \in Stages
<1>1. s.t \in Translators /\ s.out \in Seq(Events)
  BY DEF Stages
<1>2. Event("content_block_delta") \in Events
  BY EventType DEF EventTypes
<1>3. [Event("content_block_delta") EXCEPT !.index = s.t.index, !.kind = kind, !.text = text]
        \in Events
  BY <1>1, <1>2 DEF Events, Translators
<1> QED BY <1>1, <1>3, StageType DEF Delta

LEMMA EmitTextType ==
    ASSUME NEW s \in Stages, NEW text \in Seq(Tokens)
    PROVE  EmitText(s, text) \in Stages
BY EnsureOpenType, DeltaType DEF EmitText, Kinds

LEMMA OnThinkingType ==
    ASSUME NEW s \in Stages
    PROVE  OnThinking(s) \in Stages
BY EnsureOpenType, DeltaType, EmptySeq DEF OnThinking, Kinds

LEMMA OnToolCallType ==
    ASSUME NEW s \in Stages, NEW call \in Calls
    PROVE  OnToolCall(s, call) \in Stages
BY EnsureOpenType, DeltaType, EmptySeq DEF OnToolCall, Kinds, Calls

LEMMA CallsLength ==
    ASSUME NEW calls \in UNION {[1..n -> Calls] : n \in 0..MaxCalls}
    PROVE  /\ Len(calls) \in 0..2
           /\ \A i \in 1..Len(calls) : calls[i] \in Calls
<1>1. PICK n \in 0..2 : calls \in [1..n -> Calls]
  BY DEF MaxCalls
<1>2. Len(calls) = n
  BY <1>1
<1> QED BY <1>1, <1>2

LEMMA OnToolCallsType ==
    ASSUME NEW s \in Stages, NEW calls \in UNION {[1..n -> Calls] : n \in 0..MaxCalls}
    PROVE  OnToolCalls(s, calls) \in Stages
BY CallsLength, OnToolCallType DEF OnToolCalls

LEMMA EmitAfterThinkingType ==
    ASSUME NEW s \in Stages, NEW pre \in Seq(Tokens), NEW rest \in Seq(Tokens)
    PROVE  EmitAfterThinking(s, pre, rest) \in Stages
BY EmitTextType DEF EmitAfterThinking

\* What OnText does, and that the text it cuts out is text.
LEMMA OnTextParts ==
    ASSUME NEW s \in Stages, NEW text \in Seq(Tokens)
    PROVE  \E buf, pre, rest \in Seq(Tokens) :
              LET taken == [s EXCEPT !.t.think_pending = <<>>]
              IN \/ OnText(s, text) = EmitText(taken, buf)
                 \/ OnText(s, text) = [s EXCEPT !.t.think_pending = buf]
                 \/ OnText(s, text) = EmitAfterThinking(taken, pre, rest)
<1> DEFINE buf   == s.t.think_pending \o text
           open  == Find(buf, ThinkOpen)
           close == FindClose(buf, open)
           taken == [s EXCEPT !.t.think_pending = <<>>]
<1>1. buf \in Seq(Tokens)
  BY ConcatProperties DEF Stages, Translators
<1>2. CASE open = 0
  <2>1. OnText(s, text) = EmitText(taken, buf)
    BY <1>2 DEF OnText
  <2> HIDE DEF buf, taken
  <2> QED BY <1>1, <2>1 DEF taken
<1>3. CASE open # 0 /\ close = 0
  <2>0. open \in 1..(Len(buf) - 1)
    <3> HIDE DEF buf
    <3> QED BY <1>1, <1>3, FindPlace
  <2>1. OnText(s, text) = [s EXCEPT !.t.think_pending = buf]
    BY <1>3, <2>0 DEF OnText
  <2> HIDE DEF buf
  <2> QED BY <1>1, <2>1
<1>4. CASE open # 0 /\ close # 0
  <2>1. open \in 1..(Len(buf) - 1)
    <3> HIDE DEF buf
    <3> QED BY <1>1, <1>4, FindPlace
  <2>2. close \in open..(Len(buf) - 1)
    <3> HIDE DEF buf, open
    <3>1. open \in 1..Len(buf)
      BY <1>1, <2>1, LenProperties
    <3> QED BY <1>1, <1>4, <3>1, FindClosePlace
  <2>3. Before(buf, open) \in Seq(Tokens) /\ From(buf, close + 2) \in Seq(Tokens)
    <3> HIDE DEF buf, open, close
    <3>1. open \in 1..(Len(buf) + 1) /\ close + 2 \in 1..(Len(buf) + 1)
      BY <1>1, <2>1, <2>2, LenProperties
    <3> QED BY <1>1, <3>1, CutType
  <2>4. OnText(s, text) = EmitAfterThinking(taken, Before(buf, open), From(buf, close + 2))
    BY <1>4, <2>1 DEF OnText
  <2> HIDE DEF buf, open, close, taken
  <2> QED BY <1>1, <2>3, <2>4 DEF taken
<1> QED BY <1>2, <1>3, <1>4

LEMMA PendingType ==
    ASSUME NEW s \in Stages, NEW buf \in Seq(Tokens)
    PROVE  /\ [s EXCEPT !.t.think_pending = buf] \in Stages
           /\ [s EXCEPT !.t.think_pending = <<>>] \in Stages
BY EmptySeq DEF Stages, Translators

LEMMA OnTextType ==
    ASSUME NEW s \in Stages, NEW text \in Seq(Tokens)
    PROVE  OnText(s, text) \in Stages
<1>1. PICK buf \in Seq(Tokens), pre \in Seq(Tokens), rest \in Seq(Tokens) :
        LET taken == [s EXCEPT !.t.think_pending = <<>>]
        IN \/ OnText(s, text) = EmitText(taken, buf)
           \/ OnText(s, text) = [s EXCEPT !.t.think_pending = buf]
           \/ OnText(s, text) = EmitAfterThinking(taken, pre, rest)
  BY OnTextParts
<1> QED BY <1>1, PendingType, EmitTextType, EmitAfterThinkingType

LEMMA AbortType ==
    ASSUME NEW s \in Stages
    PROVE  Abort(s) \in Stages
<1> DEFINE c == CloseBlock(Start(s))
<1>1. c.t \in Translators /\ c.out \in Seq(Events)
  BY StartType, CloseBlockType DEF Stages
<1> HIDE DEF c
<1>2. [c.t EXCEPT !.finished = TRUE] \in Translators
  BY <1>1 DEF Translators
<1>3. Event("error") \in Events
  BY EventType DEF EventTypes
<1>4. Step([c.t EXCEPT !.finished = TRUE], Append(c.out, Event("error"))) \in Stages
  BY <1>1, <1>2, <1>3, StageType
<1> QED BY <1>4 DEF Abort, c

LEMMA EmptyStage ==
    ASSUME NEW t \in Translators
    PROVE  Step(t, <<>>) \in Stages
BY EmptySeq DEF Step, Stages

LEMMA OnChunkType ==
    ASSUME NEW t \in Translators, NEW f \in FrameType
    PROVE  OnChunk(t, f) \in Stages
<1> DEFINE s0 == Step(t, <<>>)
           s1 == IF f.thinking THEN OnThinking(Start(s0)) ELSE Start(s0)
           s2 == IF f.content = <<>> THEN s1 ELSE OnText(s1, f.content)
<1>0. /\ f.content \in Seq(Tokens)
      /\ f.calls \in UNION {[1..n -> Calls] : n \in 0..MaxCalls}
      /\ f.type \in {"skip", "error", "data"}
  BY DEF FrameType
<1>1. s0 \in Stages
  BY EmptyStage
<1> HIDE DEF s0
<1>2. s1 \in Stages
  BY <1>1, StartType, OnThinkingType
<1> HIDE DEF s1
<1>3. s2 \in Stages
  BY <1>0, <1>2, OnTextType
<1> HIDE DEF s2
<1>4. OnToolCalls(s2, f.calls) \in Stages /\ Abort(s0) \in Stages
  BY <1>0, <1>1, <1>3, OnToolCallsType, AbortType
<1> QED BY <1>0, <1>1, <1>4 DEF OnChunk, s0, s1, s2

LEMMA FinishType ==
    ASSUME NEW t \in Translators
    PROVE  Finish(t) \in Stages
<1> DEFINE c == CloseBlock(Start(Step(t, <<>>)))
           u == [c.t EXCEPT !.finished = TRUE]
<1>1. c.t \in Translators /\ c.out \in Seq(Events)
  BY EmptyStage, StartType, CloseBlockType DEF Stages
<1> HIDE DEF c
<1>2. u \in Translators
  BY <1>1 DEF Translators
<1>3. Event("message_delta") \in Events /\ Event("message_stop") \in Events
  BY EventType DEF EventTypes
<1>4. Append(c.out, Event("message_delta")) \in Seq(Events)
  BY <1>1, <1>3, AppendProperties
<1>5. Step(u, Append(Append(c.out, Event("message_delta")), Event("message_stop"))) \in Stages
  BY <1>2, <1>3, <1>4, StageType
<1> QED BY <1>5, EmptyStage DEF Finish, c

-----------------------------------------------------------------------------
(* Type correctness.                                                       *)

LEMMA ChunkType ==
    ASSUME TypeOK, NEW f \in Frames, Chunk(f)
    PROVE  TypeOK'
<1>1. f \in FrameType
  BY FramesAssumption
<1>2. f.content \in Seq(Tokens)
  BY <1>1 DEF FrameType
<1>3. OnChunk(tr, f) \in Stages
  BY <1>1, OnChunkType DEF TypeOK
<1>4. tr' \in Translators /\ queue' \in Seq(Events)
  BY <1>3 DEF Chunk, Batch, Stages
<1>5. content' \in Seq(Tokens)
  BY <1>2, ConcatProperties DEF Chunk, TypeOK
<1>6. frames' \in 0..MaxFrames
  BY BoundsAssumption DEF Chunk, TypeOK
<1>7. failed' \in BOOLEAN /\ split' \in BOOLEAN
  BY DEF Chunk, TypeOK
<1> QED BY <1>4, <1>5, <1>6, <1>7 DEF Chunk, TypeOK

LEMMA NextType == TypeOK /\ [Next]_vars => TypeOK'
<1> SUFFICES ASSUME TypeOK, [Next]_vars PROVE TypeOK'
  OBVIOUS
<1>1. ASSUME NEW f \in Frames, Chunk(f) PROVE TypeOK'
  BY <1>1, ChunkType
<1>2. CASE Eof
  <2>1. Finish(tr) \in Stages
    BY FinishType DEF TypeOK
  <2>2. tr' \in Translators /\ queue' \in Seq(Events)
    BY <1>2, <2>1 DEF Eof, Batch, Stages
  <2> QED BY <1>2, <2>2 DEF Eof, TypeOK, RelaySteps
<1>3. CASE ReadError
  <2>1. Abort(Step(tr, <<>>)) \in Stages
    BY EmptyStage, AbortType DEF TypeOK
  <2>2. tr' \in Translators /\ queue' \in Seq(Events)
    BY <1>3, <2>1 DEF ReadError, Batch, Stages
  <2> QED BY <1>3, <2>2 DEF ReadError, TypeOK, RelaySteps
<1>4. CASE Write
  <2>1. Head(queue) \in Events /\ Tail(queue) \in Seq(Events)
    BY <1>4, HeadTailProperties DEF Write, TypeOK
  <2>2. wire' \in Wires
    BY <1>4, <2>1, ReceiveFields DEF Write, TypeOK
  <2> QED BY <1>4, <2>1, <2>2 DEF Write, TypeOK
<1>5. CASE ClientGone
  <2>1. Abort(Step(tr, <<>>)) \in Stages
    BY EmptyStage, AbortType DEF TypeOK
  <2>2. tr' \in Translators /\ queue' \in Seq(Events)
    BY <1>5, <2>1, EmptySeq DEF ClientGone, TypeOK, Stages
  <2> QED BY <1>5, <2>2 DEF ClientGone, TypeOK, RelaySteps
<1>6. CASE Done
  BY <1>6 DEF Done, TypeOK, RelaySteps
<1>7. CASE UNCHANGED vars
  BY <1>7 DEF vars, TypeOK
<1> QED BY <1>1, <1>2, <1>3, <1>4, <1>5, <1>6, <1>7 DEF Next

LEMMA InitType == Init => TypeOK
<1>1. <<>> \in Seq(Tokens) /\ <<>> \in Seq(Events)
  BY EmptySeq
<1> SUFFICES ASSUME Init PROVE TypeOK
  OBVIOUS
<1>2. tr \in Translators
  BY <1>1 DEF Init, Translators
<1>3. wire \in Wires
  BY <1>1 DEF Init, Wires, EventTypes
<1>4. frames \in 0..MaxFrames
  BY BoundsAssumption DEF Init
<1> QED BY <1>1, <1>2, <1>3, <1>4 DEF Init, TypeOK, RelaySteps

\* Translator, batch, client and history are always well typed.
THEOREM TypeCorrect == Spec => []TypeOK
BY InitType, NextType, PTL DEF Spec

-----------------------------------------------------------------------------
(* The translator's operators: what they send is in the grammar.           *)

\* The open block is the one last numbered.
Numbered(t) == t.open # NoKind => t.started /\ t.index + 1 = t.next_index

\* A client that has received everything a running translator has sent.
Agrees(v, t) ==
    /\ v.open = t.open
    /\ v.next = t.next_index
    /\ v.phase = IF t.started THEN "message" ELSE "idle"

\* No end of the message is among the events.
Endless(out) == \A i \in 1..Len(out) : out[i].type \notin {"message_delta", "message_stop"}

\* From what the client in `w` has received, the batch leads to where a
\* running translator believes it to be, with `x` for its text and `p` held back.
Good(w, s, x, p) ==
    /\ s \in Stages /\ Numbered(s.t) /\ ~s.t.finished /\ Endless(s.out) /\ s.t.think_pending = p
    /\ \E v \in Wires : Leads(w, s.out, v) /\ Agrees(v, s.t) /\ v.text = x

\* One more event.
LEMMA SendGood ==
    ASSUME NEW w \in Wires, NEW out \in Seq(Events), NEW v \in Wires, Leads(w, out, v),
           Endless(out), NEW e \in Events, Legal(v, e),
           e.type \notin {"message_delta", "message_stop"},
           NEW t \in Translators, Numbered(t), ~t.finished, Agrees(Receive(v, e), t)
    PROVE  Good(w, Step(t, Append(out, e)), Receive(v, e).text, t.think_pending)
<1>1. Leads(w, Append(out, e), Receive(v, e)) /\ Receive(v, e) \in Wires
  BY LeadsAppend, ReceiveFields
<1>2. Endless(Append(out, e))
  BY AppendProperties, LenProperties DEF Endless
<1>3. Step(t, Append(out, e)) \in Stages
  BY StageType
<1>4. Step(t, Append(out, e)).t = t /\ Step(t, Append(out, e)).out = Append(out, e)
  BY DEF Step
<1> QED BY <1>1, <1>2, <1>3, <1>4 DEF Good

LEMMA EventFields ==
    ASSUME NEW type
    PROVE  /\ Event(type).type = type /\ Event(type).index = 0 /\ Event(type).kind = NoKind
           /\ Event(type).text = <<>>
BY DEF Event

LEMMA StartGood ==
    ASSUME NEW w \in Wires, NEW s, NEW x, NEW p, Good(w, s, x, p)
    PROVE  Good(w, Start(s), x, p) /\ Start(s).t.started
<1>1. PICK v \in Wires : Leads(w, s.out, v) /\ Agrees(v, s.t) /\ v.text = x
  BY DEF Good
<1>2. s.t \in Translators /\ s.out \in Seq(Events) /\ Numbered(s.t) /\ ~s.t.finished
      /\ Endless(s.out) /\ s.t.think_pending = p
  BY DEF Good, Stages
<1>3. CASE s.t.started
  BY <1>3 DEF Start
<1>4. CASE ~s.t.started
  <2> DEFINE t == [s.t EXCEPT !.started = TRUE]
             e == Event("message_start")
  <2>1. e \in Events /\ e.type = "message_start" /\ e.index = 0 /\ e.kind = NoKind
    BY EventType, EventFields DEF EventTypes
  <2>2. t \in Translators /\ t.started /\ t.open = s.t.open /\ t.next_index = s.t.next_index
        /\ ~t.finished /\ t.index = s.t.index /\ t.think_pending = p
    BY <1>2 DEF Translators
  <2> HIDE DEF t, e
  <2>3. Legal(v, e) /\ Agrees(Receive(v, e), t) /\ Numbered(t)
    BY <1>1, <1>2, <1>4, <2>1, <2>2, ReceiveFields DEF Agrees, Legal, Numbered
  <2>4. Good(w, Step(t, Append(s.out, e)), x, p)
    <3>1. Receive(v, e).text = x
      BY <1>1, <2>1, ReceiveText DEF NoKind
    <3>2. Good(w, Step(t, Append(s.out, e)), Receive(v, e).text, t.think_pending)
      BY <1>1, <1>2, <2>1, <2>2, <2>3, SendGood
    <3> QED BY <2>2, <3>1, <3>2
  <2>5. Start(s) = Step(t, Append(s.out, e)) /\ Step(t, Append(s.out, e)).t = t
    BY <1>4 DEF Start, Step, t, e
  <2> QED BY <2>2, <2>4, <2>5
<1> QED BY <1>3, <1>4

LEMMA CloseBlockGood ==
    ASSUME NEW w \in Wires, NEW s, NEW x, NEW p, Good(w, s, x, p)
    PROVE  /\ Good(w, CloseBlock(s), x, p)
           /\ CloseBlock(s).t.open = NoKind
           /\ CloseBlock(s).t.started = s.t.started
<1>1. PICK v \in Wires : Leads(w, s.out, v) /\ Agrees(v, s.t) /\ v.text = x
  BY DEF Good
<1>2. s.t \in Translators /\ s.out \in Seq(Events) /\ Numbered(s.t) /\ ~s.t.finished
      /\ Endless(s.out) /\ s.t.think_pending = p
  BY DEF Good, Stages
<1>3. CASE s.t.open = NoKind
  BY <1>3 DEF CloseBlock
<1>4. CASE s.t.open # NoKind
  <2> DEFINE t == [s.t EXCEPT !.open = NoKind]
             e == [Event("content_block_stop") EXCEPT !.index = s.t.index]
  <2>1. e \in Events /\ e.type = "content_block_stop" /\ e.index = s.t.index /\ e.kind = NoKind
    <3>1. Event("content_block_stop") \in Events /\ s.t.index \in Nat
      BY <1>2, EventType DEF EventTypes, Translators
    <3> QED BY <3>1, EventFields DEF Events
  <2>2. t \in Translators /\ t.started = s.t.started /\ t.open = NoKind
        /\ t.next_index = s.t.next_index /\ ~t.finished /\ t.think_pending = p
    BY <1>2 DEF Translators
  <2>3. v.next \in Nat /\ s.t.index \in Nat
    BY <1>2 DEF Wires, Translators
  <2> HIDE DEF t, e
  <2>4. Legal(v, e)
    BY <1>1, <1>2, <1>4, <2>1, <2>3 DEF Agrees, Legal, Numbered
  <2>5. Agrees(Receive(v, e), t) /\ Numbered(t)
    BY <1>1, <2>1, <2>2, ReceiveFields DEF Agrees, Numbered
  <2>6. Good(w, Step(t, Append(s.out, e)), x, p)
    <3>1. Receive(v, e).text = x
      BY <1>1, <2>1, ReceiveText DEF NoKind
    <3>2. Good(w, Step(t, Append(s.out, e)), Receive(v, e).text, t.think_pending)
      BY <1>1, <1>2, <2>1, <2>2, <2>4, <2>5, SendGood
    <3> QED BY <2>2, <3>1, <3>2
  <2>7. CloseBlock(s) = Step(t, Append(s.out, e)) /\ Step(t, Append(s.out, e)).t = t
    BY <1>4 DEF CloseBlock, Step, t, e
  <2> QED BY <2>2, <2>6, <2>7
<1> QED BY <1>3, <1>4

LEMMA EnsureOpenGood ==
    ASSUME NEW w \in Wires, NEW s, NEW x, NEW p, Good(w, s, x, p), s.t.started, NEW want \in Kinds
    PROVE  /\ Good(w, EnsureOpen(s, want), x, p)
           /\ EnsureOpen(s, want).t.open = want
           /\ EnsureOpen(s, want).t.started
<1>1. CASE s.t.open = want
  BY <1>1 DEF EnsureOpen
<1>2. CASE s.t.open # want
  <2> DEFINE c == CloseBlock(s)
             t == [c.t EXCEPT !.index = c.t.next_index, !.next_index = c.t.next_index + 1,
                              !.open = want]
             e == [Event("content_block_start") EXCEPT !.index = c.t.next_index, !.kind = want]
  <2>1. Good(w, c, x, p) /\ c.t.open = NoKind /\ c.t.started
    BY CloseBlockGood
  <2>2. EnsureOpen(s, want) = Step(t, Append(c.out, e)) /\ Step(t, Append(c.out, e)).t = t
    BY <1>2 DEF EnsureOpen, Step
  <2> HIDE DEF c
  <2>3. PICK v \in Wires : Leads(w, c.out, v) /\ Agrees(v, c.t) /\ v.text = x
    BY <2>1 DEF Good
  <2>4. c.t \in Translators /\ c.out \in Seq(Events) /\ ~c.t.finished /\ Endless(c.out)
        /\ c.t.think_pending = p
        /\ c.t.next_index \in Nat
    BY <2>1 DEF Good, Stages, Translators
  <2>5. e \in Events /\ e.type = "content_block_start" /\ e.index = c.t.next_index /\ e.kind = want
        /\ e.text = <<>>
    <3>1. Event("content_block_start") \in Events
      BY EventType DEF EventTypes
    <3> QED BY <2>4, <3>1, EventFields DEF Events
  <2>6. t \in Translators /\ t.started = c.t.started /\ t.open = want
        /\ t.next_index = c.t.next_index + 1 /\ t.index = c.t.next_index /\ ~t.finished
        /\ t.think_pending = p
    <3> DEFINE u1 == [c.t EXCEPT !.index = c.t.next_index]
               u2 == [u1 EXCEPT !.next_index = c.t.next_index + 1]
    <3>1. u1 \in Translators /\ u1.started = c.t.started /\ u1.finished = c.t.finished
          /\ u1.index = c.t.next_index /\ u1.think_pending = p
      BY <2>4 DEF Translators
    <3>2. u2 \in Translators /\ u2.started = c.t.started /\ u2.finished = c.t.finished
          /\ u2.index = c.t.next_index /\ u2.next_index = c.t.next_index + 1
          /\ u2.think_pending = p
      <4>1. c.t.next_index + 1 \in Nat
        BY <2>4
      <4> HIDE DEF u1
      <4> QED BY <3>1, <4>1 DEF Translators
    <3>3. t = [u2 EXCEPT !.open = want]
      OBVIOUS
    <3> HIDE DEF u2, t
    <3> QED BY <2>4, <3>2, <3>3 DEF Translators
  <2> HIDE DEF t, e
  <2>7. Legal(v, e)
    BY <2>1, <2>3, <2>5 DEF Agrees, Legal
  <2>8. Agrees(Receive(v, e), t) /\ Numbered(t)
    <3>1. Receive(v, e).open = want /\ Receive(v, e).next = v.next + 1
          /\ Receive(v, e).phase = v.phase
      BY <2>5, ReceiveFields
    <3> QED BY <2>1, <2>3, <2>4, <2>6, <3>1 DEF Agrees, Numbered
  <2>9. Good(w, Step(t, Append(c.out, e)), x, p)
    <3>1. Receive(v, e).text = x
      <4>1. v.text \o <<>> = v.text
        BY ConcatEmptySeq DEF Wires
      <4> QED BY <2>3, <2>5, <4>1, ReceiveText
    <3>2. Good(w, Step(t, Append(c.out, e)), Receive(v, e).text, t.think_pending)
      BY <2>3, <2>4, <2>5, <2>6, <2>7, <2>8, SendGood
    <3> QED BY <2>6, <3>1, <3>2
  <2> QED BY <2>1, <2>2, <2>6, <2>9
<1> QED BY <1>1, <1>2

LEMMA DeltaGood ==
    ASSUME NEW w \in Wires, NEW s, NEW x, NEW p, Good(w, s, x, p), s.t.started, NEW kind \in Kinds,
           s.t.open = kind, NEW text \in Seq(Tokens)
    PROVE  /\ kind = "text" => Good(w, Delta(s, kind, text), x \o text, p)
           /\ kind # "text" => Good(w, Delta(s, kind, text), x, p)
           /\ Delta(s, kind, text).t = s.t
<1> DEFINE e == [Event("content_block_delta") EXCEPT
                     !.index = s.t.index, !.kind = kind, !.text = text]
<1>1. PICK v \in Wires : Leads(w, s.out, v) /\ Agrees(v, s.t) /\ v.text = x
  BY DEF Good
<1>2. s.t \in Translators /\ s.out \in Seq(Events) /\ Numbered(s.t) /\ ~s.t.finished
      /\ Endless(s.out) /\ s.t.index \in Nat /\ s.t.think_pending = p
  BY DEF Good, Stages, Translators
<1>3. e \in Events /\ e.type = "content_block_delta" /\ e.index = s.t.index /\ e.kind = kind
      /\ e.text = text
  <2>1. Event("content_block_delta") \in Events
    BY EventType DEF EventTypes
  <2> QED BY <1>2, <2>1, EventFields DEF Events
<1>4. Delta(s, kind, text) = Step(s.t, Append(s.out, e)) /\ Step(s.t, Append(s.out, e)).t = s.t
  BY DEF Delta, Step
<1> HIDE DEF e
<1>5. kind # NoKind
  BY SlotsAssumption DEF Kinds, NoKind
<1>6. v.next \in Nat
  BY DEF Wires
<1>7. Legal(v, e)
  <2>1. v.phase = "message" /\ v.open = kind /\ v.next = s.t.next_index
    BY <1>1 DEF Agrees
  <2>2. s.t.index + 1 = s.t.next_index
    BY <1>2, <1>5 DEF Numbered
  <2>3. e.index = v.next - 1
    BY <1>2, <1>3, <1>6, <2>1, <2>2
  <2> QED BY <1>3, <1>5, <2>1, <2>3 DEF Legal
<1>8. Agrees(Receive(v, e), s.t)
  BY <1>1, <1>3, ReceiveFields DEF Agrees
<1>9. Good(w, Step(s.t, Append(s.out, e)), Receive(v, e).text, p)
  <2>1. Good(w, Step(s.t, Append(s.out, e)), Receive(v, e).text, s.t.think_pending)
    BY <1>1, <1>2, <1>3, <1>7, <1>8, SendGood
  <2> QED BY <1>2, <2>1
<1>10. CASE kind = "text"
  <2>1. Receive(v, e).text = x \o text
    <3>1. e.kind = "text"
      BY <1>3, <1>10
    <3>2. Receive(v, e).text = v.text \o e.text
      BY <3>1, ReceiveText
    <3> QED BY <1>1, <1>3, <3>2, Zenon
  <2> QED BY <1>4, <1>9, <1>10, <2>1
<1>11. CASE kind # "text"
  <2>1. Receive(v, e).text = x
    BY <1>1, <1>3, <1>11, ReceiveText
  <2> QED BY <1>4, <1>9, <1>11, <2>1
<1> QED BY <1>10, <1>11

LEMMA EmitTextGood ==
    ASSUME NEW w \in Wires, NEW s, NEW x, NEW p, Good(w, s, x, p), s.t.started,
           NEW text \in Seq(Tokens)
    PROVE  Good(w, EmitText(s, text), x \o text, p) /\ EmitText(s, text).t.started
<1> DEFINE o == EnsureOpen(s, "text")
<1>1. Good(w, o, x, p) /\ o.t.open = "text" /\ o.t.started /\ "text" \in Kinds
  BY EnsureOpenGood DEF Kinds
<1> HIDE DEF o
<1>2. Good(w, Delta(o, "text", text), x \o text, p) /\ Delta(o, "text", text).t.started
  BY <1>1, DeltaGood
<1> QED BY <1>2 DEF EmitText, o

\* A delta that carries no text, of any kind.
LEMMA SilentDeltaGood ==
    ASSUME NEW w \in Wires, NEW s, NEW x, NEW p, Good(w, s, x, p), s.t.started,
           NEW kind \in Kinds, s.t.open = kind
    PROVE  Good(w, Delta(s, kind, <<>>), x, p) /\ Delta(s, kind, <<>>).t.started
<1>1. <<>> \in Seq(Tokens) /\ x \o <<>> = x
  <2>1. PICK v \in Wires : v.text = x
    BY DEF Good
  <2> QED BY <2>1, EmptySeq, ConcatEmptySeq DEF Wires
<1> DEFINE none == <<>>
<1>2. none \in Seq(Tokens) /\ x \o none = x
  BY <1>1
<1> HIDE DEF none
<1>3. /\ kind = "text" => Good(w, Delta(s, kind, none), x \o none, p)
      /\ kind # "text" => Good(w, Delta(s, kind, none), x, p)
      /\ Delta(s, kind, none).t = s.t
  BY <1>2, DeltaGood, ZenonT(30)
<1>4. Good(w, Delta(s, kind, none), x, p) /\ Delta(s, kind, none).t.started
  BY <1>2, <1>3
<1> QED BY <1>4 DEF none

LEMMA OnThinkingGood ==
    ASSUME NEW w \in Wires, NEW s, NEW x, NEW p, Good(w, s, x, p), s.t.started
    PROVE  Good(w, OnThinking(s), x, p) /\ OnThinking(s).t.started
<1> DEFINE o == EnsureOpen(s, "thinking")
<1>1. Good(w, o, x, p) /\ o.t.open = "thinking" /\ o.t.started /\ "thinking" \in Kinds
  BY EnsureOpenGood DEF Kinds
<1> HIDE DEF o
<1>2. Good(w, Delta(o, "thinking", <<>>), x, p) /\ Delta(o, "thinking", <<>>).t.started
  BY <1>1, SilentDeltaGood
<1> QED BY <1>2 DEF OnThinking, o

LEMMA OnToolCallGood ==
    ASSUME NEW w \in Wires, NEW s, NEW x, NEW p, Good(w, s, x, p), s.t.started, NEW call \in Calls
    PROVE  Good(w, OnToolCall(s, call), x, p) /\ OnToolCall(s, call).t.started
<1> DEFINE o == EnsureOpen(s, call.slot)
<1>0. call.slot \in Kinds
  BY DEF Calls, Kinds
<1>1. Good(w, o, x, p) /\ o.t.open = call.slot /\ o.t.started
  BY <1>0, EnsureOpenGood
<1> HIDE DEF o
<1>2. Good(w, Delta(o, call.slot, <<>>), x, p) /\ Delta(o, call.slot, <<>>).t.started
  BY <1>0, <1>1, SilentDeltaGood
<1> QED BY <1>1, <1>2 DEF OnToolCall, o

LEMMA OnToolCallsGood ==
    ASSUME NEW w \in Wires, NEW s, NEW x, NEW p, Good(w, s, x, p), s.t.started,
           NEW calls \in UNION {[1..n -> Calls] : n \in 0..MaxCalls}
    PROVE  Good(w, OnToolCalls(s, calls), x, p)
<1>1. Len(calls) \in 0..2 /\ \A i \in 1..Len(calls) : calls[i] \in Calls
  BY CallsLength
<1>2. CASE Len(calls) = 0
  BY <1>2 DEF OnToolCalls
<1>3. CASE Len(calls) = 1
  <2>1. OnToolCalls(s, calls) = OnToolCall(s, calls[1]) /\ calls[1] \in Calls
    BY <1>1, <1>3 DEF OnToolCalls
  <2> QED BY <2>1, OnToolCallGood
<1>4. CASE Len(calls) = 2
  <2>1. OnToolCalls(s, calls) = OnToolCall(OnToolCall(s, calls[1]), calls[2])
        /\ calls[1] \in Calls /\ calls[2] \in Calls
    BY <1>1, <1>4 DEF OnToolCalls
  <2>2. Good(w, OnToolCall(s, calls[1]), x, p) /\ OnToolCall(s, calls[1]).t.started
    BY <2>1, OnToolCallGood
  <2>3. Good(w, OnToolCall(OnToolCall(s, calls[1]), calls[2]), x, p)
    BY <2>1, <2>2, OnToolCallGood
  <2> QED BY <2>1, <2>3
<1> QED BY <1>1, <1>2, <1>3, <1>4

LEMMA EmitAfterThinkingGood ==
    ASSUME NEW w \in Wires, NEW s, NEW x, NEW p, Good(w, s, x, p), s.t.started,
           NEW pre \in Seq(Tokens), NEW rest \in Seq(Tokens)
    PROVE  /\ Good(w, EmitAfterThinking(s, pre, rest), (x \o pre) \o rest, p)
           /\ EmitAfterThinking(s, pre, rest).t.started
<1> DEFINE q == IF pre = <<>> THEN s ELSE EmitText(s, pre)
<1>1. x \o pre \in Seq(Tokens) /\ (pre = <<>> => x \o pre = x)
      /\ (rest = <<>> => (x \o pre) \o rest = x \o pre)
  <2>1. PICK v \in Wires : v.text = x
    BY DEF Good
  <2>2. x \in Seq(Tokens) /\ x \o pre \in Seq(Tokens)
    BY <2>1, ConcatProperties DEF Wires
  <2> QED BY <2>2, ConcatEmptySeq
<1>2. Good(w, q, x \o pre, p) /\ q.t.started
  BY <1>1, EmitTextGood
<1>3. EmitAfterThinking(s, pre, rest) = IF rest = <<>> THEN q ELSE EmitText(q, rest)
  BY DEF EmitAfterThinking
<1> HIDE DEF q
<1>4. CASE rest = <<>>
  BY <1>1, <1>2, <1>3, <1>4
<1>5. CASE rest # <<>>
  BY <1>2, <1>3, <1>5, EmitTextGood
<1> QED BY <1>4, <1>5

LEMMA PendingGood ==
    ASSUME NEW w \in Wires, NEW s, NEW x, NEW p, Good(w, s, x, p), s.t.started,
           NEW buf \in Seq(Tokens)
    PROVE  Good(w, [s EXCEPT !.t.think_pending = buf], x, buf)
           /\ [s EXCEPT !.t.think_pending = buf].t.started
<1> DEFINE u == [s EXCEPT !.t.think_pending = buf]
<1>1. s.t \in Translators /\ s.out \in Seq(Events) /\ s \in Stages
  BY DEF Good, Stages
<1>2. u \in Stages /\ u.out = s.out /\ u.t = [s.t EXCEPT !.think_pending = buf]
  BY <1>1 DEF Stages, Translators
<1> HIDE DEF u
<1>3. u.t.started = s.t.started /\ u.t.open = s.t.open /\ u.t.next_index = s.t.next_index
      /\ u.t.index = s.t.index /\ u.t.finished = s.t.finished /\ u.t.think_pending = buf
  BY <1>1, <1>2 DEF Translators
<1>4. Good(w, u, x, buf) /\ u.t.started
  BY <1>2, <1>3 DEF Good, Numbered, Agrees
<1> QED BY <1>4 DEF u

LEMMA OnTextGood ==
    ASSUME NEW w \in Wires, NEW s, NEW x, NEW p, Good(w, s, x, p), s.t.started,
           NEW text \in Seq(Tokens)
    PROVE  /\ Good(w, OnText(s, text), ShownAfter(x, p \o text), HeldAfter(p \o text))
           /\ OnText(s, text).t.started
<1> DEFINE buf   == p \o text
           open  == Find(buf, ThinkOpen)
           close == FindClose(buf, open)
           taken == [s EXCEPT !.t.think_pending = <<>>]
<1>1. buf \in Seq(Tokens) /\ s.t.think_pending = p
  <2>1. s.t.think_pending = p /\ p \in Seq(Tokens)
    BY DEF Good, Stages, Translators
  <2> QED BY <2>1, ConcatProperties
<1>2. Good(w, taken, x, <<>>) /\ taken.t.started
  BY PendingGood, EmptySeq
<1>3. CASE open = 0
  <2>1. OnText(s, text) = EmitText(taken, buf)
    BY <1>1, <1>3 DEF OnText
  <2>2. ShownAfter(x, buf) = x \o buf /\ HeldAfter(buf) = <<>>
    BY <1>3 DEF ShownAfter, HeldAfter
  <2> HIDE DEF buf, taken
  <2> QED BY <1>1, <1>2, <2>1, <2>2, EmitTextGood DEF buf
<1>4. CASE open # 0 /\ close = 0
  <2>0. open \in 1..(Len(buf) - 1) /\ open > 0
    <3> HIDE DEF buf
    <3>1. open \in 1..(Len(buf) - 1)
      BY <1>1, <1>4, FindPlace
    <3> QED BY <1>1, <3>1, LenProperties
  <2>1. OnText(s, text) = [s EXCEPT !.t.think_pending = buf]
    BY <1>1, <1>4, <2>0 DEF OnText
  <2>2. ShownAfter(x, buf) = x /\ HeldAfter(buf) = buf
    BY <1>4 DEF ShownAfter, HeldAfter
  <2> HIDE DEF buf
  <2>3. Good(w, [s EXCEPT !.t.think_pending = buf], x, buf)
        /\ [s EXCEPT !.t.think_pending = buf].t.started
    BY <1>1, PendingGood
  <2>4. Good(w, OnText(s, text), ShownAfter(x, buf), HeldAfter(buf)) /\ OnText(s, text).t.started
    BY <2>1, <2>2, <2>3
  <2> QED BY <2>4 DEF buf
<1>5. CASE open # 0 /\ close # 0
  <2>1. open \in 1..(Len(buf) - 1)
    <3> HIDE DEF buf
    <3> QED BY <1>1, <1>5, FindPlace
  <2>2. close \in open..(Len(buf) - 1)
    <3> HIDE DEF buf, open
    <3>1. open \in 1..Len(buf)
      BY <1>1, <2>1, LenProperties
    <3> QED BY <1>1, <1>5, <3>1, FindClosePlace
  <2>3. Before(buf, open) \in Seq(Tokens) /\ From(buf, close + 2) \in Seq(Tokens)
    <3> HIDE DEF buf, open, close
    <3>1. open \in 1..(Len(buf) + 1) /\ close + 2 \in 1..(Len(buf) + 1)
      BY <1>1, <2>1, <2>2, LenProperties
    <3> QED BY <1>1, <3>1, CutType
  <2>4. OnText(s, text) = EmitAfterThinking(taken, Before(buf, open), From(buf, close + 2))
    BY <1>1, <1>5, <2>1 DEF OnText
  <2>5. /\ ShownAfter(x, buf) = (x \o Before(buf, open)) \o From(buf, close + 2)
        /\ HeldAfter(buf) = <<>>
    BY <1>5 DEF ShownAfter, HeldAfter
  <2> HIDE DEF buf, open, close, taken
  <2> QED BY <1>2, <2>3, <2>4, <2>5, EmitAfterThinkingGood DEF buf
<1> QED BY <1>3, <1>4, <1>5

\* A batch that ends the reply with an error.
LEMMA AbortEnds ==
    ASSUME NEW w \in Wires, NEW s, NEW x, NEW p, Good(w, s, x, p)
    PROVE  /\ \E v \in Wires : /\ Leads(w, Abort(s).out, v)
                              /\ v.phase = "failed" /\ v.open = NoKind /\ v.text = x
           /\ Endless(Abort(s).out) /\ Abort(s).t.think_pending = p
           /\ Abort(s).t.finished /\ Abort(s).t.open = NoKind
<1> DEFINE c == CloseBlock(Start(s))
           e == Event("error")
<1>1. Good(w, c, x, p) /\ c.t.open = NoKind /\ c.t.started
  BY StartGood, CloseBlockGood
<1>2. /\ Abort(s).t = [c.t EXCEPT !.finished = TRUE]
      /\ Abort(s).out = Append(c.out, e)
  BY DEF Abort, Step
<1> HIDE DEF c
<1>3. c.t \in Translators /\ c.out \in Seq(Events) /\ Endless(c.out) /\ c.t.think_pending = p
  BY <1>1 DEF Good, Stages
<1>4. e \in Events /\ e.type = "error" /\ e.index = 0 /\ e.kind = NoKind
  BY EventType, EventFields DEF EventTypes
<1> HIDE DEF e
<1>5. PICK v \in Wires : Leads(w, c.out, v) /\ Agrees(v, c.t) /\ v.text = x
  BY <1>1 DEF Good
<1>6. Legal(v, e)
  BY <1>1, <1>4, <1>5 DEF Legal, Agrees
<1>7. Leads(w, Append(c.out, e), Receive(v, e)) /\ Receive(v, e) \in Wires
      /\ Receive(v, e).phase = "failed" /\ Receive(v, e).open = NoKind /\ Receive(v, e).text = x
  <2>1. Receive(v, e).open = v.open /\ Receive(v, e).phase = "failed" /\ Receive(v, e) \in Wires
        /\ Receive(v, e).text = v.text
    <3>1. Receive(v, e).text = v.text
      BY <1>4, ReceiveText DEF NoKind
    <3> QED BY <1>4, <3>1, ReceiveFields
  <2> QED BY <1>1, <1>3, <1>4, <1>5, <1>6, <2>1, LeadsAppend DEF Agrees
<1>8. Endless(Append(c.out, e))
  BY <1>3, <1>4, AppendProperties, LenProperties DEF Endless
<1>9. [c.t EXCEPT !.finished = TRUE].finished /\ [c.t EXCEPT !.finished = TRUE].open = NoKind
      /\ [c.t EXCEPT !.finished = TRUE].think_pending = p
  BY <1>1, <1>3 DEF Translators
<1> QED BY <1>2, <1>7, <1>8, <1>9

\* The batch that ends the reply cleanly.
LEMMA FinishEnds ==
    ASSUME NEW w \in Wires, NEW t, NEW x, NEW p, Good(w, Step(t, <<>>), x, p)
    PROVE  /\ \E v \in Wires : /\ Leads(w, Finish(t).out, v)
                              /\ v.phase = "stopped" /\ v.open = NoKind /\ v.text = x
           /\ Finish(t).t.think_pending = p
           /\ Finish(t).t.finished /\ Finish(t).t.open = NoKind
<1> DEFINE c == CloseBlock(Start(Step(t, <<>>)))
           d == Event("message_delta")
           e == Event("message_stop")
<1>0. ~t.finished
  BY DEF Good, Step
<1>1. Good(w, c, x, p) /\ c.t.open = NoKind /\ c.t.started
  BY StartGood, CloseBlockGood
<1>2. /\ Finish(t).t = [c.t EXCEPT !.finished = TRUE]
      /\ Finish(t).out = Append(Append(c.out, d), e)
  BY <1>0 DEF Finish, Step
<1> HIDE DEF c
<1>3. c.t \in Translators /\ c.out \in Seq(Events) /\ c.t.think_pending = p
  BY <1>1 DEF Good, Stages
<1>4. /\ d \in Events /\ d.type = "message_delta" /\ d.index = 0 /\ d.kind = NoKind
      /\ e \in Events /\ e.type = "message_stop" /\ e.index = 0 /\ e.kind = NoKind
  BY EventType, EventFields DEF EventTypes
<1> HIDE DEF d, e
<1>5. PICK v \in Wires : Leads(w, c.out, v) /\ Agrees(v, c.t) /\ v.text = x
  BY <1>1 DEF Good
<1>6. Legal(v, d)
  BY <1>1, <1>4, <1>5 DEF Legal, Agrees
<1> DEFINE u == Receive(v, d)
<1>7. Leads(w, Append(c.out, d), u) /\ u \in Wires /\ u.phase = "closing" /\ u.open = NoKind /\ u.text = x
      /\ Append(c.out, d) \in Seq(Events)
  <2>1. u.open = v.open /\ u.phase = "closing" /\ u \in Wires /\ u.text = v.text
    <3>1. u.text = v.text
      BY <1>4, ReceiveText DEF NoKind, u
    <3> QED BY <1>4, <3>1, ReceiveFields DEF u
  <2> QED BY <1>1, <1>3, <1>4, <1>5, <1>6, <2>1, LeadsAppend, AppendProperties DEF Agrees
<1> HIDE DEF u
<1>8. Legal(u, e)
  BY <1>4, <1>7 DEF Legal
<1>9. /\ Leads(w, Append(Append(c.out, d), e), Receive(u, e)) /\ Receive(u, e) \in Wires
      /\ Receive(u, e).phase = "stopped" /\ Receive(u, e).open = NoKind /\ Receive(u, e).text = x
  <2>1. Receive(u, e).open = u.open /\ Receive(u, e).phase = "stopped" /\ Receive(u, e) \in Wires
        /\ Receive(u, e).text = u.text
    <3>1. Receive(u, e).text = u.text
      BY <1>4, ReceiveText DEF NoKind
    <3> QED BY <1>4, <1>7, <3>1, ReceiveFields
  <2> QED BY <1>4, <1>7, <1>8, <2>1, LeadsAppend
<1>10. [c.t EXCEPT !.finished = TRUE].finished /\ [c.t EXCEPT !.finished = TRUE].open = NoKind
       /\ [c.t EXCEPT !.finished = TRUE].think_pending = p
  BY <1>1, <1>3 DEF Translators
<1> QED BY <1>2, <1>9, <1>10

\* A frame that is not an error keeps the translator in step with the client,
\* and the client's text in step with the upstream's.
LEMMA OnChunkGood ==
    ASSUME NEW w \in Wires, NEW t, NEW x, NEW p, Good(w, Step(t, <<>>), x, p),
           NEW f \in FrameType, f.type # "error"
    PROVE  IF f.type = "skip" \/ f.content = <<>>
           THEN Good(w, OnChunk(t, f), x, p)
           ELSE Good(w, OnChunk(t, f), ShownAfter(x, p \o f.content), HeldAfter(p \o f.content))
<1> DEFINE s0 == Step(t, <<>>)
           s1 == IF f.thinking THEN OnThinking(Start(s0)) ELSE Start(s0)
           s2 == IF f.content = <<>> THEN s1 ELSE OnText(s1, f.content)
<1>0. /\ f.content \in Seq(Tokens)
      /\ f.calls \in UNION {[1..n -> Calls] : n \in 0..MaxCalls}
  BY DEF FrameType
<1>1. CASE f.type = "skip"
  BY <1>1 DEF OnChunk
<1>2. CASE f.type # "skip"
  <2>1. OnChunk(t, f) = OnToolCalls(s2, f.calls)
    BY <1>2 DEF OnChunk
  <2>2. Good(w, s0, x, p)
    OBVIOUS
  <2> HIDE DEF s0
  <2>3. Good(w, Start(s0), x, p) /\ Start(s0).t.started
    BY <2>2, StartGood
  <2>4. Good(w, s1, x, p) /\ s1.t.started
    BY <2>3, OnThinkingGood
  <2> HIDE DEF s1
  <2>5. CASE f.content = <<>>
    BY <1>0, <2>1, <2>4, <2>5, OnToolCallsGood
  <2>6. CASE f.content # <<>>
    <3> DEFINE text == f.content
               y    == ShownAfter(x, p \o text)
               q    == HeldAfter(p \o text)
    <3>1. text \in Seq(Tokens) /\ s2 = OnText(s1, text)
      BY <1>0, <2>6
    <3> HIDE DEF text
    <3>2. Good(w, OnText(s1, text), y, q) /\ OnText(s1, text).t.started
      BY <2>4, <3>1, OnTextGood
    <3> HIDE DEF y, q, s2
    <3>3. Good(w, OnToolCalls(s2, f.calls), y, q)
      BY <1>0, <3>1, <3>2, OnToolCallsGood
    <3> QED BY <1>2, <2>1, <2>6, <3>3 DEF y, q, text
  <2> QED BY <2>5, <2>6
<1> QED BY <1>1, <1>2


-----------------------------------------------------------------------------
(* The invariant: the client, once it has what is queued, is where the     *)
(* translator believes it to be, and has been told what the upstream said. *)

InStep(v) ==
    /\ v.open = tr.open
    /\ IF tr.finished THEN v.phase \in {"stopped", "failed"} /\ tr.open = NoKind
       ELSE Agrees(v, tr)

InText(x) == ~split => Told(content, tr.think_pending, x)

Relayed ==
    /\ Numbered(tr)
    /\ relay = "gone" \/ \E v \in Wires : /\ Leads(wire, queue, v) /\ InStep(v)
                                          /\ InText(v.text)
    /\ relay \in {"gone", "done"} => queue = <<>>
    /\ relay = "reading" => (tr.finished <=> failed)
    /\ relay \in {"failing", "finishing", "done"} => tr.finished

\* A client that went away had not been told of an end, nor of any reasoning.
GoneInTime == relay = "gone" => wire.phase # "stopped" /\ (~split => NoReasoningShown)

\* After a failure no end of the message is sent, or was.
FailedTruly ==
    failed => wire.phase \notin {"closing", "stopped"} /\ Endless(queue)

IInv == TypeOK /\ Relayed /\ FailedTruly /\ GoneInTime

\* The client has received everything: it is where the translator is.
LEMMA CaughtUp ==
    ASSUME IInv, relay # "gone", queue = <<>>
    PROVE  /\ wire \in Wires /\ InStep(wire) /\ InText(wire.text)
           /\ ~tr.finished => Good(wire, Step(tr, <<>>), wire.text, tr.think_pending)
<1>1. PICK v \in Wires : Leads(wire, queue, v) /\ InStep(v) /\ InText(v.text)
  BY DEF IInv, Relayed
<1>2. wire \in Wires /\ tr \in Translators
  BY DEF IInv, TypeOK
<1>3. v = wire
  BY <1>1, <1>2, LeadsEmpty
<1>4. ASSUME ~tr.finished PROVE Good(wire, Step(tr, <<>>), wire.text, tr.think_pending)
  <2>1. Step(tr, <<>>).t = tr /\ Step(tr, <<>>).out = <<>> /\ Step(tr, <<>>) \in Stages
    BY <1>2, EmptyStage DEF Step
  <2>2. Leads(wire, <<>>, wire) /\ Agrees(wire, tr)
    BY <1>1, <1>3, <1>4 DEF InStep
  <2>3. Endless(<<>>)
    BY DEF Endless
  <2> QED BY <1>2, <1>4, <2>1, <2>2, <2>3 DEF Good, IInv, Relayed
<1> QED BY <1>1, <1>2, <1>3, <1>4

LEMMA InitInv == Init => IInv
<1> SUFFICES ASSUME Init PROVE IInv
  OBVIOUS
<1>1. TypeOK
  BY InitType
<1>2. Leads(wire, queue, wire) /\ wire \in Wires
  BY <1>1, LeadsNowhere DEF Init, TypeOK
<1>3. InStep(wire)
  BY DEF Init, InStep, Agrees
<1>4. Numbered(tr)
  BY DEF Init, Numbered
<1>5. InText(wire.text)
  <2>1. Find(<<>>, ThinkOpen) = 0
    <3> DEFINE none == <<>>
    <3>1. none \in Seq(Tokens) /\ Len(none) = 0
      BY EmptySeq
    <3> HIDE DEF none
    <3>2. 1..(Len(none) - 1) = {}
      BY <3>1
    <3>3. Find(none, ThinkOpen) = 0
      BY <3>1, <3>2, FindPlace, Zenon
    <3> QED BY <3>3 DEF none
  <2> QED BY <2>1 DEF Init, InText, Told, Plain
<1> QED BY <1>1, <1>2, <1>3, <1>4, <1>5 DEF Init, IInv, Relayed, FailedTruly, GoneInTime

\* What a client has of the text never reaches into an open thinking span.
LEMMA NothingShown ==
    ASSUME TypeOK, NEW v \in Wires, Leads(wire, queue, v),
           Told(content, tr.think_pending, v.text)
    PROVE  NoReasoningShown
<1> DEFINE o == Find(content, ThinkOpen)
<1> SUFFICES ASSUME o > 0, FindClose(content, o) = 0 PROVE Len(wire.text) < o
  BY DEF NoReasoningShown
<1>1. o \in Nat /\ o # 0
  <2>1. content \in Seq(Tokens) /\ Len(content) \in Nat
    BY LenProperties DEF TypeOK
  <2>2. o \in Nat
    BY <2>1, FindPlace
  <2> QED BY <2>2
<1>2. Len(v.text) < o
  BY <1>1 DEF Told, Plain, Thinking, Thought
<1>3. Len(wire.text) <= Len(v.text) /\ Len(wire.text) \in Nat /\ Len(v.text) \in Nat
  BY LeadsGrows, LenProperties DEF TypeOK, Wires
<1> HIDE DEF o
<1> QED BY <1>1, <1>2, <1>3

\* What a translated frame makes of the text.
LEMMA ChunkTold ==
    ASSUME TypeOK, NEW f \in Frames, NEW x \in Seq(Tokens), InText(x),
           content' = content \o f.content, f.content # <<>>, NEW y,
           split' = (split \/ Splits(content, f.content)),
           y = ShownAfter(x, tr.think_pending \o f.content),
           tr'.think_pending = HeldAfter(tr.think_pending \o f.content)
    PROVE  ~split' => Told(content', tr'.think_pending, y)
<1> SUFFICES ASSUME ~split' PROVE Told(content', tr'.think_pending, y)
  OBVIOUS
<1>1. /\ content \in Seq(Tokens) /\ tr.think_pending \in Seq(Tokens) /\ f.content \in Seq(Tokens)
      /\ Told(content, tr.think_pending, x) /\ Uncut(content, f.content, ThinkOpen)
  BY FramesAssumption DEF TypeOK, Translators, FrameType, InText, Splits, Uncut
<1> DEFINE c == content
           p == tr.think_pending
           text == f.content
<1>2. c \in Seq(Tokens) /\ p \in Seq(Tokens) /\ text \in Seq(Tokens)
      /\ Told(c, p, x) /\ Uncut(c, text, ThinkOpen)
  BY <1>1
<1>3. content' = c \o text /\ tr'.think_pending = HeldAfter(p \o text)
      /\ y = ShownAfter(x, p \o text)
  OBVIOUS
<1> HIDE DEF c, p, text
<1>4. Told(c \o text, HeldAfter(p \o text), ShownAfter(x, p \o text))
  BY <1>2, ToldText
<1> QED BY <1>3, <1>4

LEMMA ChunkInv ==
    ASSUME AfterError = FALSE, IInv, NEW f \in Frames, Chunk(f)
    PROVE  IInv'
<1>0. TypeOK'
  BY ChunkType DEF IInv
<1>1. relay = "reading" /\ queue = <<>> /\ ~failed /\ relay' = relay /\ wire' = wire
      /\ tr' = OnChunk(tr, f).t /\ queue' = OnChunk(tr, f).out
      /\ failed' = (failed \/ f.type = "error")
      /\ content' = (IF f.type = "data" THEN content \o f.content ELSE content)
      /\ split' = (split \/ (f.type = "data" /\ Splits(content, f.content)))
  BY DEF Chunk, Reading, Batch
<1> DEFINE x == wire.text
           p == tr.think_pending
<1>2. wire \in Wires /\ Good(wire, Step(tr, <<>>), x, p) /\ InStep(wire) /\ InText(x)
      /\ ~tr.finished /\ tr \in Translators
  BY <1>1, CaughtUp DEF IInv, Relayed, TypeOK
<1>3. content \in Seq(Tokens) /\ x \in Seq(Tokens) /\ f \in FrameType
      /\ f.type \in {"skip", "error", "data"} /\ f.content \in Seq(Tokens)
  BY <1>2, FramesAssumption DEF IInv, TypeOK, Wires, FrameType
<1>4. split => split'
  BY <1>1
<1> HIDE DEF x, p
<1>5. CASE f.type = "error"
  <2>1. OnChunk(tr, f) = Abort(Step(tr, <<>>)) /\ content' = content
    BY <1>1, <1>5 DEF OnChunk
  <2>2. /\ \E v \in Wires : /\ Leads(wire, queue', v)
                            /\ v.phase = "failed" /\ v.open = NoKind /\ v.text = x
        /\ Endless(queue') /\ tr'.finished /\ tr'.open = NoKind /\ tr'.think_pending = p
    BY <1>1, <1>2, <2>1, AbortEnds
  <2>3. ~split' => Told(content', tr'.think_pending, x)
    BY <1>2, <1>4, <2>1, <2>2 DEF InText, p
  <2>4. wire.phase \notin {"closing", "stopped"}
    BY <1>2 DEF InStep, Agrees
  <2>5. \E v \in Wires : Leads(wire', queue', v) /\ InStep(v)' /\ InText(v.text)'
    <3>1. PICK v \in Wires : /\ Leads(wire, queue', v)
                             /\ v.phase = "failed" /\ v.open = NoKind /\ v.text = x
      BY <2>2
    <3>2. InText(v.text)'
      BY <2>3, <3>1 DEF InText
    <3>3. InStep(v)'
      BY <2>2, <3>1 DEF InStep
    <3> QED BY <1>1, <3>1, <3>2, <3>3
  <2> QED BY <1>0, <1>1, <1>4, <1>5, <2>2, <2>4, <2>5
          DEF IInv, Relayed, FailedTruly, Numbered, GoneInTime
<1>6. CASE f.type # "error"
  <2>1. PICK y, q : /\ Good(wire, OnChunk(tr, f), y, q)
                    /\ ~split' => Told(content', tr'.think_pending, y)
    <3>1. CASE f.type = "skip" \/ f.content = <<>>
      <4>1. Good(wire, OnChunk(tr, f), x, p)
        BY <1>2, <1>3, <1>6, <3>1, OnChunkGood
      <4>2. content' = content
        BY <1>1, <1>3, <3>1, ConcatEmptySeq
      <4>3. tr'.think_pending = p
        BY <1>1, <4>1 DEF Good
      <4>4. ~split' => Told(content', tr'.think_pending, x)
        BY <1>2, <1>4, <4>2, <4>3 DEF InText, p
      <4> QED BY <4>1, <4>4
    <3>2. CASE f.type # "skip" /\ f.content # <<>>
      <4> DEFINE y == ShownAfter(x, p \o f.content)
                 q == HeldAfter(p \o f.content)
      <4>1. Good(wire, OnChunk(tr, f), y, q)
        BY <1>2, <1>3, <1>6, <3>2, OnChunkGood
      <4>2. content' = content \o f.content
        BY <1>1, <1>3, <1>6, <3>2
      <4>3. tr'.think_pending = q
        BY <1>1, <4>1 DEF Good
      <4>4. ~split' => Told(content', tr'.think_pending, y)
        <5>1. tr'.think_pending = HeldAfter(tr.think_pending \o f.content)
              /\ y = ShownAfter(x, tr.think_pending \o f.content)
          BY <4>3 DEF p
        <5>2. split' = (split \/ Splits(content, f.content))
          BY <1>1, <1>3, <1>6, <3>2
        <5> HIDE DEF y, q
        <5> QED BY <1>2, <1>3, <3>2, <4>2, <5>1, <5>2, ChunkTold DEF IInv
      <4> HIDE DEF y, q
      <4> QED BY <4>1, <4>4
    <3> QED BY <3>1, <3>2
  <2>2. PICK v \in Wires : Leads(wire, queue', v) /\ Agrees(v, tr') /\ v.text = y
    BY <1>1, <2>1 DEF Good
  <2>3. Numbered(tr') /\ ~tr'.finished
    BY <1>1, <2>1 DEF Good
  <2>4. InText(v.text)'
    BY <2>1, <2>2 DEF InText
  <2>5. InStep(v)'
    BY <2>2, <2>3 DEF InStep, Agrees
  <2> QED BY <1>0, <1>1, <1>4, <1>6, <2>2, <2>3, <2>4, <2>5
          DEF IInv, Relayed, FailedTruly, GoneInTime
<1> QED BY <1>5, <1>6

LEMMA EofInv ==
    ASSUME IInv, Eof
    PROVE  IInv'
<1>0. TypeOK'
  BY NextType DEF IInv, Next
<1>1. relay = "reading" /\ queue = <<>> /\ relay' = "finishing" /\ wire' = wire
      /\ tr' = Finish(tr).t /\ queue' = Finish(tr).out /\ failed' = failed /\ content' = content
      /\ split' = split
  BY DEF Eof, Reading, Batch
<1>2. wire \in Wires /\ InStep(wire) /\ InText(wire.text)
      /\ (~tr.finished => Good(wire, Step(tr, <<>>), wire.text, tr.think_pending))
  BY <1>1, CaughtUp
<1>3. GoneInTime'
  BY <1>1 DEF IInv, GoneInTime
<1>4. CASE tr.finished
  <2>1. tr' = tr /\ queue' = <<>>
    BY <1>1, <1>4 DEF Finish, Step
  <2>2. Leads(wire, queue', wire)
    BY <1>2, <2>1, LeadsNowhere
  <2>3. FailedTruly'
    BY <1>1, <2>1 DEF IInv, FailedTruly, Endless
  <2>4. InStep(wire)' /\ InText(wire.text)'
    BY <1>1, <1>2, <2>1 DEF InStep, Agrees, InText
  <2> QED BY <1>0, <1>1, <1>2, <1>3, <1>4, <2>1, <2>2, <2>3, <2>4 DEF IInv, Relayed, Numbered
<1>5. CASE ~tr.finished
  <2>1. /\ \E v \in Wires : /\ Leads(wire, queue', v)
                            /\ v.phase = "stopped" /\ v.open = NoKind /\ v.text = wire.text
        /\ tr'.think_pending = tr.think_pending
        /\ tr'.finished /\ tr'.open = NoKind
    BY <1>1, <1>2, <1>5, FinishEnds
  <2>2. ~failed'
    BY <1>1, <1>5 DEF IInv, Relayed
  <2>3. InText(wire.text)'
    BY <1>1, <1>2, <2>1 DEF InText
  <2>4. \E v \in Wires : Leads(wire', queue', v) /\ InStep(v)' /\ InText(v.text)'
    BY <1>1, <2>1, <2>3 DEF InStep, InText
  <2> QED BY <1>0, <1>1, <1>3, <2>1, <2>2, <2>4 DEF IInv, Relayed, FailedTruly, Numbered
<1> QED BY <1>4, <1>5

LEMMA ReadErrorInv ==
    ASSUME AfterError = FALSE, IInv, ReadError
    PROVE  IInv'
<1>0. TypeOK'
  BY NextType DEF IInv, Next
<1>1. relay = "reading" /\ queue = <<>> /\ ~failed /\ relay' = "failing" /\ wire' = wire
      /\ tr' = Abort(Step(tr, <<>>)).t /\ queue' = Abort(Step(tr, <<>>)).out
      /\ content' = content /\ split' = split
  BY DEF ReadError, Reading, Batch
<1>2. wire \in Wires /\ Good(wire, Step(tr, <<>>), wire.text, tr.think_pending)
      /\ InStep(wire) /\ InText(wire.text) /\ ~tr.finished
  BY <1>1, CaughtUp DEF IInv, Relayed
<1>3. /\ \E v \in Wires : /\ Leads(wire, queue', v)
                          /\ v.phase = "failed" /\ v.open = NoKind /\ v.text = wire.text
      /\ Endless(queue') /\ tr'.think_pending = tr.think_pending
      /\ tr'.finished /\ tr'.open = NoKind
  BY <1>1, <1>2, AbortEnds
<1>4. wire.phase \notin {"closing", "stopped"}
  BY <1>2 DEF InStep, Agrees
<1>5. InText(wire.text)'
  BY <1>1, <1>2, <1>3 DEF InText
<1>6. \E v \in Wires : Leads(wire', queue', v) /\ InStep(v)' /\ InText(v.text)'
  BY <1>1, <1>3, <1>5 DEF InStep, InText
<1>7. GoneInTime'
  BY <1>1 DEF IInv, GoneInTime
<1> QED BY <1>0, <1>1, <1>3, <1>4, <1>6, <1>7 DEF IInv, Relayed, FailedTruly, Numbered

LEMMA WriteInv ==
    ASSUME IInv, Write
    PROVE  IInv'
<1>0. TypeOK'
  BY NextType DEF IInv, Next
<1>1. queue # <<>> /\ wire' = Receive(wire, Head(queue)) /\ queue' = Tail(queue)
      /\ tr' = tr /\ relay' = relay /\ failed' = failed /\ content' = content
      /\ split' = split
  BY DEF Write
<1>2. wire \in Wires /\ queue \in Seq(Events) /\ Head(queue) \in Events
  BY <1>1, HeadTailProperties DEF IInv, TypeOK
<1>3. PICK v \in Wires : Leads(wire, queue, v) /\ InStep(v) /\ InText(v.text)
  BY <1>1 DEF IInv, Relayed
<1>4. Leads(wire', queue', v)
  BY <1>1, <1>2, <1>3, LeadsTail
<1>5. FailedTruly'
  <2> SUFFICES ASSUME failed PROVE wire'.phase \notin {"closing", "stopped"} /\ Endless(queue')
    BY <1>1 DEF FailedTruly
  <2>1. wire.phase \notin {"closing", "stopped"} /\ Endless(queue)
    BY DEF IInv, FailedTruly
  <2>2. Len(queue) \in Nat \ {0} /\ Head(queue) = queue[1] /\ Len(queue') = Len(queue) - 1
        /\ \A i \in 1..Len(queue') : queue'[i] = queue[i + 1]
    BY <1>1, <1>2, HeadTailProperties, EmptySeq, LenProperties
  <2>3. Endless(queue') /\ Head(queue).type \notin {"message_delta", "message_stop"}
    BY <2>1, <2>2 DEF Endless
  <2>4. wire'.phase \in {wire.phase, "message", "failed"}
    BY <1>1, <1>2, <2>3, ReceiveFields
  <2> QED BY <2>1, <2>3, <2>4
<1>6. relay \notin {"gone", "done"}
  BY <1>1 DEF IInv, Relayed
<1>7. GoneInTime'
  BY <1>1, <1>6 DEF IInv, GoneInTime
<1>8. InStep(v)' /\ InText(v.text)'
  BY <1>1, <1>3 DEF InStep, Agrees, InText
<1> QED BY <1>0, <1>1, <1>4, <1>5, <1>6, <1>7, <1>8 DEF IInv, Relayed, Numbered

LEMMA ClientGoneInv ==
    ASSUME IInv, ClientGone
    PROVE  IInv'
<1>0. TypeOK'
  BY NextType DEF IInv, Next
<1>1. queue # <<>> /\ queue' = <<>> /\ relay' = "gone" /\ wire' = wire /\ failed' = failed
      /\ content' = content /\ split' = split /\ tr' \in {tr, Abort(Step(tr, <<>>)).t}
  BY DEF ClientGone
<1>2. Numbered(tr')
  <2>1. CASE tr' = tr
    BY <2>1 DEF IInv, Relayed
  <2>2. CASE tr' = Abort(Step(tr, <<>>)).t
    <3> DEFINE c == CloseBlock(Start(Step(tr, <<>>)))
    <3>1. c \in Stages /\ c.t.open = NoKind
      <4>1. Start(Step(tr, <<>>)) \in Stages
        BY EmptyStage, StartType DEF IInv, TypeOK
      <4> DEFINE s == Start(Step(tr, <<>>))
      <4> HIDE DEF s
      <4>2. CloseBlock(s).t.open = NoKind
        BY <4>1 DEF CloseBlock, Step, Stages, Translators, s
      <4> QED BY <4>1, <4>2, CloseBlockType DEF s
    <3>2. tr' = [c.t EXCEPT !.finished = TRUE]
      BY <2>2 DEF Abort, Step
    <3> HIDE DEF c
    <3> QED BY <3>1, <3>2 DEF Numbered, Stages, Translators
  <2> QED BY <1>1, <2>1, <2>2
<1>3. FailedTruly'
  BY <1>1 DEF IInv, FailedTruly, Endless
<1>5. GoneInTime'
  <2>1. relay # "gone" /\ TypeOK
    BY <1>1 DEF IInv, Relayed
  <2>2. PICK v \in Wires : Leads(wire, queue, v) /\ InText(v.text)
    BY <2>1 DEF IInv, Relayed
  <2>3. wire.phase # "stopped"
    <3>1. Legal(wire, Head(queue))
      BY <1>1, <2>1, <2>2, LeadsTail DEF TypeOK
    <3> QED BY <3>1 DEF Legal
  <2>4. ~split => NoReasoningShown
    BY <2>1, <2>2, NothingShown DEF InText
  <2> QED BY <1>1, <2>3, <2>4 DEF GoneInTime, NoReasoningShown
<1> QED BY <1>0, <1>1, <1>2, <1>3, <1>5 DEF IInv, Relayed

LEMMA NextInv ==
    ASSUME AfterError = FALSE, IInv, [Next]_vars
    PROVE  IInv'
<1>1. ASSUME NEW f \in Frames, Chunk(f) PROVE IInv'
  BY <1>1, ChunkInv
<1>2. CASE Eof
  BY <1>2, EofInv
<1>3. CASE ReadError
  BY <1>3, ReadErrorInv
<1>4. CASE Write
  BY <1>4, WriteInv
<1>5. CASE ClientGone
  BY <1>5, ClientGoneInv
<1>6. CASE Done
  <2>0. relay \in {"failing", "finishing"} /\ queue = <<>> /\ relay' = "done"
        /\ UNCHANGED <<tr, queue, wire, failed, content, split>> /\ TypeOK'
    BY <1>6, NextType DEF Done, IInv, Next
  <2>1. \A v \in Wires : (InStep(v) => InStep(v)') /\ (InText(v.text) => InText(v.text)')
    BY <2>0 DEF InStep, Agrees, InText
  <2>2. GoneInTime'
    BY <2>0 DEF IInv, GoneInTime
  <2> QED BY <2>0, <2>1, <2>2 DEF IInv, Relayed, FailedTruly, Numbered
<1>7. CASE UNCHANGED vars
  <2>0. UNCHANGED <<tr, queue, relay, wire, content, split, failed>> /\ TypeOK'
    BY <1>7, NextType DEF vars, IInv
  <2>1. \A v \in Wires : (InStep(v) => InStep(v)') /\ (InText(v.text) => InText(v.text)')
    BY <2>0 DEF InStep, Agrees, InText
  <2>2. GoneInTime'
    BY <2>0 DEF IInv, GoneInTime, NoReasoningShown
  <2> QED BY <2>0, <2>1, <2>2 DEF IInv, Relayed, FailedTruly, Numbered
<1> QED BY <1>1, <1>2, <1>3, <1>4, <1>5, <1>6, <1>7 DEF Next

-----------------------------------------------------------------------------
(* The theorems.  They are about an upstream whose `error` frame is its    *)
(* last: after any other, the frames that follow an error are translated   *)
(* into a message that has ended.                                          *)

\* The translator and the client agree in every state.
LEMMA InStepAlways ==
    ASSUME AfterError = FALSE
    PROVE  Spec => []IInv
<1>1. Init => IInv
  BY InitInv
<1>2. IInv /\ [Next]_vars => IInv'
  BY NextInv
<1> QED BY <1>1, <1>2, PTL DEF Spec

\* A client that stays to the end has no open block, and has been told that
\* the message is over or that it failed: finish and on_upstream_error leave
\* no third way out of stream_upstream.
THEOREM EnvelopeClosedAlways ==
    ASSUME AfterError = FALSE
    PROVE  Spec => []EnvelopeClosed
<1>1. IInv => EnvelopeClosed
  <2> SUFFICES ASSUME IInv, relay = "done"
               PROVE  wire.open = NoKind /\ wire.phase \in {"stopped", "failed"}
    BY DEF EnvelopeClosed
  <2>1. queue = <<>> /\ tr.finished
    BY DEF IInv, Relayed
  <2>2. InStep(wire)
    BY <2>1, CaughtUp
  <2> QED BY <2>1, <2>2 DEF InStep
<1> QED BY <1>1, InStepAlways, PTL

\* A reply that failed upstream, by an error frame or by a broken connection,
\* is never ended for the client as if it were whole.
THEOREM CleanEndIsTrueAlways ==
    ASSUME AfterError = FALSE
    PROVE  Spec => []CleanEndIsTrue
<1>1. IInv => CleanEndIsTrue
  BY DEF IInv, FailedTruly, CleanEndIsTrue
<1> QED BY <1>1, InStepAlways, PTL

\* As long as nothing follows an error frame, whatever the upstream sends, and
\* wherever it stops: the client's envelope is closed, and closed as a success
\* only if the reply was one (EndsProperly).
THEOREM EndsProperlyAlways ==
    ASSUME AfterError = FALSE
    PROVE  Spec => []EndsProperly
<1>1. Spec => []EnvelopeClosed
  BY EnvelopeClosedAlways
<1>2. Spec => []CleanEndIsTrue
  BY CleanEndIsTrueAlways
<1> QED BY <1>1, <1>2, PTL DEF EndsProperly

\* A client that was told the message is over has the text that the other
\* translation path would have given it: the upstream's, without its one
\* thinking span (strip_thinking and on_text agree, if no opening tag is cut).
LEMMA SameTextHolds ==
    ASSUME IInv, ~split
    PROVE  SameText
<1> SUFFICES ASSUME wire.phase = "stopped", OneSpan(content) PROVE wire.text = Stripped(content)
  BY DEF SameText
<1>1. relay # "gone" /\ wire \in Wires /\ queue \in Seq(Events)
  BY DEF IInv, GoneInTime, TypeOK
<1>2. queue = <<>>
  <2> SUFFICES ASSUME queue # <<>> PROVE FALSE
    OBVIOUS
  <2>1. PICK v \in Wires : Leads(wire, queue, v)
    BY <1>1 DEF IInv, Relayed
  <2>2. Legal(wire, Head(queue))
    BY <1>1, <2>1, LeadsTail
  <2> QED BY <2>2 DEF Legal
<1>3. Told(content, tr.think_pending, wire.text)
  BY <1>1, <1>2, CaughtUp DEF InText
<1>4. Find(content, ThinkOpen) # 0 /\ FindClose(content, Find(content, ThinkOpen)) # 0
  BY DEF OneSpan
<1> QED BY <1>3, <1>4 DEF Told, Plain, Thinking, Thought

LEMMA NoReasoningShownHolds ==
    ASSUME IInv, ~split
    PROVE  NoReasoningShown
<1>1. CASE relay = "gone"
  BY <1>1 DEF IInv, GoneInTime
<1>2. CASE relay # "gone"
  <2>1. PICK v \in Wires : Leads(wire, queue, v) /\ InText(v.text)
    BY <1>2 DEF IInv, Relayed
  <2> QED BY <2>1, NothingShown DEF InText, IInv
<1> QED BY <1>1, <1>2

\* Whatever the upstream says and wherever its frames are cut: as long as no
\* opening tag has come in two, a client is never shown reasoning, and one that
\* was told of the end has the text strip_thinking would have left
\* (TextIsFaithful).  Of a reply with a cut opening tag nothing is claimed.
THEOREM TextIsFaithfulAlways ==
    ASSUME AfterError = FALSE
    PROVE  Spec => []TextIsFaithful
<1>1. IInv => TextIsFaithful
  BY SameTextHolds, NoReasoningShownHolds DEF TextIsFaithful
<1> QED BY <1>1, InStepAlways, PTL

\* A legal event is a step of the strict client's grammar.
LEMMA LegalIsGrammar ==
    ASSUME wire \in Wires, NEW e \in Events, Legal(wire, e), wire' = Receive(wire, e)
    PROVE  Promise!Next
<1>0. /\ wire'.phase = CASE e.type = "message_start" -> "message"
                         [] e.type = "message_delta" -> "closing"
                         [] e.type = "message_stop"  -> "stopped"
                         [] e.type = "error"         -> "failed"
                         [] OTHER                    -> wire.phase
      /\ wire'.open = CASE e.type = "content_block_start" -> e.kind
                        [] e.type = "content_block_stop"  -> NoKind
                        [] OTHER                          -> wire.open
      /\ wire'.next = IF e.type = "content_block_start" THEN wire.next + 1 ELSE wire.next
      /\ wire'.last = [type |-> e.type, index |-> e.index, kind |-> e.kind]
  BY ReceiveFields
<1>1. CASE e.type = "message_start"
  <2>1. Promise!MessageStart
    BY <1>0, <1>1 DEF Legal, Promise!MessageStart, Promise!Received
  <2> QED BY <2>1 DEF Promise!Next
<1>2. CASE e.type = "content_block_start"
  <2>1. e.kind \in Kinds /\ Promise!BlockStart(e.kind)
    BY <1>0, <1>2 DEF Legal, Promise!BlockStart, Promise!Received
  <2> QED BY <2>1 DEF Promise!Next
<1>3. CASE e.type = "content_block_delta"
  <2>1. Promise!BlockDelta
    BY <1>0, <1>3 DEF Legal, Promise!BlockDelta, Promise!Received
  <2> QED BY <2>1 DEF Promise!Next
<1>4. CASE e.type = "content_block_stop"
  <2>1. Promise!BlockStop
    BY <1>0, <1>4 DEF Legal, Promise!BlockStop, Promise!Received
  <2> QED BY <2>1 DEF Promise!Next
<1>5. CASE e.type = "message_delta"
  <2>1. Promise!MessageDelta
    BY <1>0, <1>5 DEF Legal, Promise!MessageDelta, Promise!Received
  <2> QED BY <2>1 DEF Promise!Next
<1>6. CASE e.type = "error"
  <2>1. Promise!Error
    BY <1>0, <1>6 DEF Legal, Promise!Error, Promise!Received
  <2> QED BY <2>1 DEF Promise!Next
<1>7. CASE e.type = "message_stop"
  <2>1. Promise!MessageStop
    BY <1>0, <1>7 DEF Legal, Promise!MessageStop, Promise!Received
  <2> QED BY <2>1 DEF Promise!Next
<1> QED BY <1>1, <1>2, <1>3, <1>4, <1>5, <1>6, <1>7 DEF Legal

\* What the proxy writes implements Anthropic's event grammar, whatever the
\* upstream's frames hold and however they are cut.
THEOREM StreamImplementsGrammar ==
    ASSUME AfterError = FALSE
    PROVE  Spec => WellFormed
<1>1. Init => Promise!Init
  BY DEF Init, Promise!Init
<1>2. ASSUME IInv, [Next]_vars PROVE [Promise!Next]_(Promise!stream)
  <2>1. CASE Write
    <3>1. queue # <<>> /\ wire' = Receive(wire, Head(queue)) /\ relay \notin {"gone", "done"}
      BY <1>2, <2>1 DEF Write, IInv, Relayed
    <3>2. wire \in Wires /\ queue \in Seq(Events) /\ Head(queue) \in Events
      BY <1>2, <3>1, HeadTailProperties DEF IInv, TypeOK
    <3>3. PICK v \in Wires : Leads(wire, queue, v)
      BY <1>2, <3>1 DEF IInv, Relayed
    <3>4. Legal(wire, Head(queue))
      BY <3>1, <3>2, <3>3, LeadsTail
    <3> QED BY <3>1, <3>2, <3>4, LegalIsGrammar
  <2>2. CASE ~Write
    <3>1. wire' = wire
      BY <1>2, <2>2 DEF Next, Chunk, Eof, ReadError, ClientGone, Done, vars
    <3> QED BY <3>1 DEF Promise!stream
  <2> QED BY <2>1, <2>2
<1>3. IInv /\ [Next]_vars => [Promise!Next]_(Promise!stream)
  BY <1>2
<1> QED BY <1>1, <1>3, InStepAlways, PTL DEF Spec, WellFormed, Promise!Spec

=============================================================================
