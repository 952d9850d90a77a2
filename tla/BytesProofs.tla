---------------------------- MODULE BytesProofs ----------------------------
(***************************************************************************)
(* Facts about numbers, and about cutting bytes up, that the proofs about  *)
(* the notary and the reseller need.                                       *)
(***************************************************************************)
EXTENDS Bytes, FiniteSetTheorems, SequenceTheorems, WellFoundedInduction, TLAPS

\* A nonempty set of naturals has a least element.
LEMMA LeastNat ==
    ASSUME NEW T \in SUBSET Nat, T # {}
    PROVE  \E x \in T : \A y \in T : x <= y
<1> DEFINE R == OpToRel(<, Nat)
<1>1. IsWellFoundedOn(R, Nat)
  BY NatLessThanWellFounded
<1>2. \A m, n \in Nat : <<m, n>> \in R <=> m < n
  BY DEF OpToRel
<1> HIDE DEF R
<1>3. PICK x \in T : \A y \in T : ~(<<y, x>> \in R)
  BY <1>1, WFMin
<1>4. ASSUME NEW y \in T PROVE x <= y
  <2>1. x \in Nat /\ y \in Nat
    OBVIOUS
  <2>2. ~(y < x)
    BY <1>2, <1>3, <2>1
  <2> QED
    BY <2>1, <2>2
<1> QED
  BY <1>4

\* Induction up to n, over a set rather than a predicate.
LEMMA UpTo ==
    ASSUME NEW n \in Nat, NEW T, 0 \in T,
           \A k \in 1 .. n : k - 1 \in T => k \in T
    PROVE  0 .. n \subseteq T
<1> SUFFICES ASSUME (0 .. n) \ T # {} PROVE FALSE
  OBVIOUS
<1>1. PICK x \in (0 .. n) \ T : \A y \in (0 .. n) \ T : x <= y
  <2>1. (0 .. n) \ T \in SUBSET Nat
    OBVIOUS
  <2> QED
    BY <2>1, LeastNat
<1>2. x \in 1 .. n /\ x - 1 \in 0 .. n /\ ~(x <= x - 1)
  BY <1>1
<1>3. x - 1 \in T
  BY <1>1, <1>2
<1> QED
  BY <1>1, <1>2, <1>3

\* A word of one token.
LEMMA WordOfOneToken ==
    ASSUME NEW s, NEW i \in Nat, Len(s) \in Nat, i <= Len(s), s[i] \notin White,
           i = Len(s) \/ s[i + 1] \in White
    PROVE  WordAt(s, i) = <<s[i]>>
<1> DEFINE End(j) == /\ \A k \in i .. j : s[k] \notin White
                     /\ j = Len(s) \/ s[j + 1] \in White
<1>1. i \in i .. Len(s) /\ End(i)
  OBVIOUS
<1>2. ASSUME NEW j \in i .. Len(s), End(j) PROVE j = i
  <2>1. CASE j > i
    <3>1. i + 1 \in i .. j /\ i # Len(s)
      BY <2>1
    <3> QED
      BY <1>2, <3>1
  <2> QED
    BY <2>1
<1>3. (CHOOSE j \in i .. Len(s) : End(j)) = i
  BY <1>1, <1>2
<1>4. SubSeq(s, i, i) = <<s[i]>>
  <2> DEFINE sub == SubSeq(s, i, i)
             one == <<s[i]>>
  <2>1. sub \in Seq({s[i]}) /\ Len(sub) = 1 /\ sub[1] = s[i]
    <3>1. \A k \in i .. i : s[k] \in {s[i]}
      OBVIOUS
    <3> QED
      BY <3>1, SubSeqProperties
  <2>2. one \in Seq({s[i]}) /\ Len(one) = 1 /\ one[1] = s[i]
    OBVIOUS
  <2> HIDE DEF sub, one
  <2>3. sub = one
    BY <2>1, <2>2, SeqEqual
  <2> QED
    BY <2>3 DEF sub, one
<1> QED
  BY <1>3, <1>4 DEF WordAt

\* What Take and Drop cut off.
LEMMA TakeProperties ==
    ASSUME NEW S, NEW s \in Seq(S), NEW n \in 0 .. Len(s)
    PROVE  /\ Take(s, n) \in Seq(S) /\ Len(Take(s, n)) = n
           /\ \A i \in 1 .. n : Take(s, n)[i] = s[i]
<1>1. Len(s) \in Nat /\ \A i \in 1 .. n : s[i] \in S
  BY LenProperties
<1>2. /\ SubSeq(s, 1, n) \in Seq(S)
      /\ Len(SubSeq(s, 1, n)) = IF 1 <= n THEN n - 1 + 1 ELSE 0
      /\ \A i \in 1 .. n - 1 + 1 : SubSeq(s, 1, n)[i] = s[1 + i - 1]
  BY <1>1, SubSeqProperties
<1> QED
  BY <1>1, <1>2 DEF Take

\* What is left of a sequence without its first bytes.
LEMMA DropProperties ==
    ASSUME NEW S, NEW s \in Seq(S), NEW n \in 0 .. Len(s)
    PROVE  /\ Drop(s, n) \in Seq(S) /\ Len(Drop(s, n)) = Len(s) - n
           /\ \A i \in 1 .. Len(s) - n : Drop(s, n)[i] = s[n + i]
<1>1. Len(s) \in Nat /\ \A i \in n + 1 .. Len(s) : s[i] \in S
  BY LenProperties
<1>2. /\ SubSeq(s, n + 1, Len(s)) \in Seq(S)
      /\ Len(SubSeq(s, n + 1, Len(s)))
            = IF n + 1 <= Len(s) THEN Len(s) - (n + 1) + 1 ELSE 0
      /\ \A i \in 1 .. Len(s) - (n + 1) + 1 :
            SubSeq(s, n + 1, Len(s))[i] = s[n + 1 + i - 1]
  BY <1>1, SubSeqProperties
<1> QED
  BY <1>1, <1>2 DEF Drop

\* A concatenation is cut where it was joined.
LEMMA CutConcat ==
    ASSUME NEW S, NEW s \in Seq(S), NEW t \in Seq(S)
    PROVE  Take(s \o t, Len(s)) = s /\ Drop(s \o t, Len(s)) = t
<1> DEFINE u == s \o t
<1>1. /\ u \in Seq(S) /\ Len(u) = Len(s) + Len(t)
      /\ \A i \in 1 .. Len(s) + Len(t) : u[i] = IF i <= Len(s) THEN s[i] ELSE t[i - Len(s)]
  BY ConcatProperties
<1>2. Len(s) \in Nat /\ Len(t) \in Nat
  BY LenProperties
<1> HIDE DEF u
<1>3. Len(s) \in 0 .. Len(u)
  BY <1>1, <1>2
<1>4. Take(u, Len(s)) = s
  <2> DEFINE w == Take(u, Len(s))
  <2>1. /\ w \in Seq(S) /\ Len(w) = Len(s)
        /\ \A i \in 1 .. Len(s) : w[i] = u[i]
    BY <1>1, <1>3, TakeProperties
  <2> HIDE DEF w
  <2>3. ASSUME NEW i \in 1 .. Len(s) PROVE w[i] = s[i]
    <3>1. i \in 1 .. Len(s) + Len(t) /\ i <= Len(s)
      BY <1>2
    <3> QED
      BY <1>1, <2>1, <3>1
  <2>2. w = s
    BY <2>1, <2>3, SeqEqual
  <2> QED
    BY <2>2 DEF w
<1>5. Drop(u, Len(s)) = t
  <2> DEFINE w == Drop(u, Len(s))
  <2>1. /\ w \in Seq(S) /\ Len(w) = Len(u) - Len(s)
        /\ \A i \in 1 .. Len(u) - Len(s) : w[i] = u[Len(s) + i]
    BY <1>1, <1>3, DropProperties
  <2> HIDE DEF w
  <2>3. Len(w) = Len(t)
    BY <1>1, <1>2, <2>1
  <2>4. ASSUME NEW i \in 1 .. Len(t) PROVE w[i] = t[i]
    <3>1. /\ i \in 1 .. Len(u) - Len(s) /\ Len(s) + i \in 1 .. Len(s) + Len(t)
          /\ ~(Len(s) + i <= Len(s)) /\ Len(s) + i - Len(s) = i
      BY <1>1, <1>2
    <3>2. w[i] = u[Len(s) + i]
      BY <2>1, <3>1
    <3> QED
      BY <1>1, <3>1, <3>2
  <2>2. w = t
    BY <2>1, <2>3, <2>4, SeqEqual
  <2> QED
    BY <2>2 DEF w
<1> QED
  BY <1>4, <1>5 DEF u

\* The least place is the position.
LEMMA PositionIs ==
    ASSUME NEW s, NEW p, NEW i \in Nat, Places(s, p) \subseteq Nat,
           i \in Places(s, p), \A j \in Places(s, p) : i <= j
    PROVE  Position(s, p) = i
<1> DEFINE P == Places(s, p)
<1> HIDE DEF P
<1>1. P \subseteq Nat /\ i \in P /\ \A j \in P : i <= j
  BY DEF P
<1>2. \A k \in P : (\A j \in P : k <= j) => k = i
  BY <1>1
<1>3. (CHOOSE k \in P : \A j \in P : k <= j) = i
  BY <1>1, <1>2
<1> QED
  BY <1>1, <1>3 DEF Position, P

\* What occurs first in a prefix occurs first.
LEMMA FirstInPrefix ==
    ASSUME NEW S, NEW s \in Seq(S), NEW t \in Seq(S), NEW p, Len(p) \in Nat,
           DOMAIN p = 1 .. Len(p), NEW i \in Places(s, p),
           \A j \in Places(s, p) : i <= j
    PROVE  Position(s \o t, p) = i
<1> DEFINE u == s \o t
<1>1. /\ u \in Seq(S) /\ Len(u) = Len(s) + Len(t)
      /\ \A k \in 1 .. Len(s) + Len(t) : u[k] = IF k <= Len(s) THEN s[k] ELSE t[k - Len(s)]
  BY ConcatProperties
<1>2. Len(s) \in Nat /\ Len(t) \in Nat /\ DOMAIN s = 1 .. Len(s)
  BY LenProperties
<1> HIDE DEF u
<1>3. DOMAIN u = 1 .. Len(u)
  BY <1>1, LenProperties
<1>4. i \in 1 .. Len(s) /\ Occurs(s, p, i)
  BY <1>2 DEF Places
<1>5. i + Len(p) - 1 <= Len(s)
  BY <1>4 DEF Occurs
<1>6. ASSUME NEW j \in Nat, 1 <= j, j <= i
      PROVE  Occurs(u, p, j) <=> Occurs(s, p, j)
  <2>1. ASSUME NEW k \in 1 .. Len(p) PROVE u[j + k - 1] = s[j + k - 1]
    <3> DEFINE n == j + k - 1
    <3>1. n \in 1 .. Len(s) + Len(t) /\ n <= Len(s)
      BY <1>2, <1>4, <1>5, <1>6
    <3> HIDE DEF n
    <3>2. u[n] = s[n]
      BY <1>1, <3>1
    <3> QED
      BY <3>2 DEF n
  <2>2. j + Len(p) - 1 <= Len(u) /\ j + Len(p) - 1 <= Len(s)
    BY <1>1, <1>2, <1>4, <1>5, <1>6
  <2>3. \A k \in DOMAIN p : u[j + k - 1] = s[j + k - 1]
    BY <2>1
  <2> QED
    BY <2>2, <2>3, Zenon DEF Occurs
<1>7. i \in Places(u, p)
  BY <1>1, <1>2, <1>3, <1>4, <1>6 DEF Places
<1>8. ASSUME NEW j \in Places(u, p) PROVE i <= j
  <2>1. j \in 1 .. Len(u) /\ Occurs(u, p, j)
    BY <1>3 DEF Places
  <2>2. CASE j < i
    <3>1. j \in Places(s, p)
      BY <1>2, <1>4, <1>6, <2>1, <2>2 DEF Places
    <3> QED
      BY <1>4, <2>1, <2>2, <3>1
  <2> QED
    BY <1>4, <2>1, <2>2
<1>9. Places(u, p) \subseteq Nat
  BY <1>3 DEF Places
<1>10. Position(u, p) = i
  BY <1>4, <1>7, <1>8, <1>9, PositionIs
<1> QED
  BY <1>10 DEF u

\* A word reaches to the next white space.
LEMMA WordReaches ==
    ASSUME NEW s, Len(s) \in Nat, NEW b \in Nat, NEW e \in b .. Len(s),
           \A k \in b .. e : s[k] \notin White,
           e < Len(s) => s[e + 1] \in White
    PROVE  WordAt(s, b) = SubSeq(s, b, e)
<1> DEFINE End(j) == /\ \A k \in b .. j : s[k] \notin White
                     /\ j = Len(s) \/ s[j + 1] \in White
<1>1. e \in b .. Len(s) /\ End(e)
  OBVIOUS
<1>2. ASSUME NEW j \in b .. Len(s), End(j) PROVE j = e
  <2>1. CASE j > e
    <3>1. e + 1 \in b .. j /\ e # Len(s)
      BY <2>1
    <3> QED
      BY <1>2, <3>1
  <2>2. CASE j < e
    <3>1. j + 1 \in b .. e /\ j # Len(s)
      BY <2>2
    <3> QED
      BY <1>2, <3>1
  <2> QED
    BY <2>1, <2>2
<1>3. (CHOOSE j \in b .. Len(s) : End(j)) = e
  BY <1>1, <1>2
<1> QED
  BY <1>3 DEF WordAt

\* A first line of one word has no second.
LEMMA NoSecondWord ==
    ASSUME NEW s, WordStarts(s) \subseteq {1}
    PROVE  Word(s, 2) = << >>
<1>1. ASSUME NEW i \in WordStarts(s)
      PROVE  Cardinality({j \in WordStarts(s) : j <= i}) # 2
  <2>1. {j \in WordStarts(s) : j <= i} = {1}
    BY <1>1
  <2>2. Cardinality({1}) = 1
    BY FS_Singleton
  <2> QED
    BY <2>1, <2>2
<1>2. {i \in WordStarts(s) : Cardinality({j \in WordStarts(s) : j <= i}) = 2} = {}
  BY <1>1
<1> QED
  BY <1>2 DEF Word

\* The second smallest of a set of numbers.
LEMMA SecondOf ==
    ASSUME NEW W \in SUBSET Nat, IsFiniteSet(W), NEW b \in W, 1 \in W, b # 1,
           \A j \in W : j >= 1 /\ (j < b => j = 1)
    PROVE  {i \in W : Cardinality({j \in W : j <= i}) = 2} = {b}
<1> DEFINE upTo(i) == {j \in W : j <= i}
<1>0. /\ \A j \in W : j \in Nat /\ j >= 1
      /\ \A i \in W : \A j : j \in upTo(i) <=> j \in W /\ j <= i
  OBVIOUS
<1> HIDE DEF upTo
<1>1. Cardinality(upTo(1)) = 1
  <2>1. upTo(1) = {1}
    <3>1. ASSUME NEW j \in upTo(1) PROVE j = 1
      <4>1. j \in W /\ j <= 1 /\ j \in Nat /\ j >= 1
        BY <1>0, <3>1
      <4> QED
        BY <4>1
    <3> QED
      BY <1>0, <3>1
  <2> QED
    BY <2>1, FS_Singleton
<1>2. Cardinality(upTo(b)) = 2 /\ IsFiniteSet(upTo(b))
  <2>1. upTo(b) = {1} \cup {b} /\ b \notin {1}
    <3>1. ASSUME NEW j \in upTo(b) PROVE j \in {1} \cup {b}
      <4>1. j \in W /\ j <= b /\ j \in Nat /\ b \in Nat /\ (j < b => j = 1)
        BY <1>0, <3>1
      <4> QED
        BY <4>1
    <3>2. 1 \in upTo(b) /\ b \in upTo(b)
      BY <1>0
    <3> QED
      BY <3>1, <3>2
  <2>2. IsFiniteSet({1}) /\ Cardinality({1}) = 1
    BY FS_Singleton
  <2>3. IsFiniteSet({1} \cup {b}) /\ Cardinality({1} \cup {b}) = Cardinality({1}) + 1
    BY <2>1, <2>2, FS_AddElement, ZenonT(40)
  <2> QED
    BY <2>1, <2>2, <2>3
<1>3. ASSUME NEW i \in W, i > b PROVE Cardinality(upTo(i)) # 2
  <2>1. upTo(b) \cup {i} \subseteq upTo(i) /\ i \notin upTo(b) /\ upTo(i) \subseteq W
    <3>1. i \in Nat /\ b \in Nat /\ ~(i <= b)
      BY <1>0, <1>3
    <3>2. ASSUME NEW j \in upTo(b) PROVE j \in upTo(i)
      <4>1. j \in W /\ j <= b /\ j \in Nat
        BY <1>0, <3>2
      <4> QED
        BY <1>0, <3>1, <4>1
    <3>3. i \in upTo(i) /\ i \notin upTo(b) /\ upTo(i) \subseteq W
      BY <1>0, <3>1
    <3> QED
      BY <3>2, <3>3
  <2>2. Cardinality(upTo(b) \cup {i}) = 2 + 1
    BY <1>2, <2>1, FS_AddElement
  <2>3. IsFiniteSet(upTo(i))
    BY <2>1, FS_Subset
  <2>4. 3 <= Cardinality(upTo(i)) /\ Cardinality(upTo(i)) \in Nat
    BY <2>1, <2>2, <2>3, FS_Subset, FS_CardinalityType
  <2> QED
    BY <2>4
<1>4. ASSUME NEW i \in W, Cardinality(upTo(i)) = 2 PROVE i = b
  <2>1. ~(i > b) /\ i # 1
    BY <1>1, <1>3, <1>4
  <2> QED
    BY <2>1
<1>5. {i \in W : Cardinality(upTo(i)) = 2} = {b}
  BY <1>2, <1>4
<1> QED
  BY <1>5 DEF upTo

\* The second word of a first line that begins with a word, spaces and a word.
LEMMA SecondWord ==
    ASSUME NEW s, Len(s) \in Nat, DOMAIN s = 1 .. Len(s),
           NEW a \in Nat, NEW b \in Nat, 1 <= a, a + 1 < b, NEW e \in b .. Len(s),
           \A k \in 1 .. a : s[k] \notin White,
           \A k \in a + 1 .. b - 1 : s[k] = "SP",
           \A k \in b .. e : s[k] \notin White,
           e < Len(s) => s[e + 1] \in White
    PROVE  Word(s, 2) = SubSeq(s, b, e)
<1> DEFINE W == WordStarts(s)
<1>1. 1 \in W
  <2>1. 1 \in DOMAIN s /\ s[1] \notin White /\ \A j \in 1 .. 1 : s[j] \notin {"CR", "LF"}
    BY DEF White
  <2> QED
    BY <2>1 DEF WordStarts
<1>2. b \in W
  <2>1. b \in DOMAIN s /\ b \in b .. e /\ b - 1 \in a + 1 .. b - 1
    OBVIOUS
  <2>2. s[b] \notin White /\ s[b - 1] \in White
    BY <2>1 DEF White
  <2>3. ASSUME NEW j \in 1 .. b PROVE s[j] \notin {"CR", "LF"}
    <3>1. j \in 1 .. a \/ j \in a + 1 .. b - 1 \/ j = b
      OBVIOUS
    <3>2. CASE j \in a + 1 .. b - 1
      BY <3>2
    <3> QED
      BY <2>2, <3>1, <3>2 DEF White
  <2> QED
    BY <2>1, <2>2, <2>3 DEF WordStarts
<1>3. ASSUME NEW i \in W, i < b PROVE i = 1
  <2>1. i \in 1 .. Len(s) /\ s[i] \notin White /\ (i = 1 \/ s[i - 1] \in White)
    BY DEF WordStarts
  <2>2. i \in 1 .. a \/ i \in a + 1 .. b - 1
    BY <1>3, <2>1
  <2>3. CASE i \in a + 1 .. b - 1
    BY <2>1, <2>3 DEF White
  <2>4. CASE i \in 1 .. a /\ i # 1
    <3>1. i - 1 \in 1 .. a
      BY <2>4
    <3> QED
      BY <2>1, <2>4, <3>1
  <2> QED
    BY <2>2, <2>3, <2>4
<1>4. W \subseteq 1 .. Len(s) /\ IsFiniteSet(W)
  <2>1. W \subseteq 1 .. Len(s)
    BY DEF WordStarts
  <2>2. IsFiniteSet(1 .. Len(s))
    BY FS_Interval
  <2> QED
    BY <2>1, <2>2, FS_Subset
<1>5. W \in SUBSET Nat /\ b # 1 /\ \A j \in W : j >= 1
  BY <1>4
<1> HIDE DEF W
<1>6. {i \in W : Cardinality({j \in W : j <= i}) = 2} = {b}
  BY <1>1, <1>2, <1>3, <1>4, <1>5, SecondOf
<1>7. (CHOOSE i \in {b} : TRUE) = b
  OBVIOUS
<1>8. WordAt(s, b) = SubSeq(s, b, e)
  BY WordReaches
<1> QED
  BY <1>6, <1>7, <1>8 DEF Word, W
=============================================================================
