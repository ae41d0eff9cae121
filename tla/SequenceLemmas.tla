--------------------------- MODULE SequenceLemmas ---------------------------
(***************************************************************************)
(* Pointwise descriptions of the operators on sequences that the models    *)
(* use for std::list and std::vector, for the proofs about them; and       *)
(* induction over sequences and folds, stated of sets and functions so     *)
(* that they can be cited by name.                                         *)
(***************************************************************************)
EXTENDS Integers, Sequences, SequencesExt, SequenceTheorems, FiniteSetTheorems,
        WellFoundedInduction, TLAPS

(* InsertAt puts e at position i and moves what was there one place up.    *)
LEMMA InsertAtProps ==
  ASSUME NEW S, NEW s \in Seq(S), NEW i \in 1 .. Len(s) + 1, NEW e \in S
  PROVE  /\ InsertAt(s, i, e) \in Seq(S)
         /\ Len(InsertAt(s, i, e)) = Len(s) + 1
         /\ \A j \in 1 .. Len(s) + 1 :
              InsertAt(s, i, e)[j] = IF j < i THEN s[j] ELSE IF j = i THEN e ELSE s[j - 1]
<1>0. /\ Len(s) \in Nat /\ i \in Int /\ i - 1 \in Int
      /\ \A j \in 1 .. Len(s) : s[j] \in S
  BY LenProperties, ElementOfSeq
<1> DEFINE a == SubSeq(s, 1, i - 1)
           b == SubSeq(s, i, Len(s))
           c == a \o <<e>>
<1> HIDE DEF a, b, c
<1>1. /\ a \in Seq(S)
      /\ Len(a) = i - 1
      /\ \A j \in 1 .. i - 1 : a[j] = s[j]
  BY <1>0, SubSeqProperties DEF a
<1>2. /\ b \in Seq(S)
      /\ Len(b) = Len(s) - i + 1
      /\ \A j \in 1 .. Len(s) - i + 1 : b[j] = s[i + j - 1]
  BY <1>0, SubSeqProperties DEF b
<1>3. /\ c \in Seq(S)
      /\ Len(c) = Len(a) + 1
      /\ \A j \in 1 .. Len(a) + 1 :
           c[j] = IF j <= Len(a) THEN a[j] ELSE <<e>>[j - Len(a)]
  <2>1. <<e>> \in Seq(S) /\ Len(<<e>>) = 1
    OBVIOUS
  <2> QED BY <2>1, <1>1, ConcatProperties DEF c
<1>4. /\ c \o b \in Seq(S)
      /\ Len(c \o b) = Len(c) + Len(b)
      /\ \A j \in 1 .. Len(c) + Len(b) :
           (c \o b)[j] = IF j <= Len(c) THEN c[j] ELSE b[j - Len(c)]
  BY <1>2, <1>3, ConcatProperties
<1>5. InsertAt(s, i, e) = c \o b
  BY DEF InsertAt, a, b, c
<1>6. Len(c) = i /\ Len(c) + Len(b) = Len(s) + 1
  BY <1>0, <1>1, <1>2, <1>3
<1>7. ASSUME NEW j \in 1 .. Len(s) + 1
      PROVE  (c \o b)[j] = IF j < i THEN s[j] ELSE IF j = i THEN e ELSE s[j - 1]
  <2>1. CASE j < i
    BY <2>1, <1>0, <1>1, <1>3, <1>4, <1>6
  <2>2. CASE j = i
    <3>1. c[i] = <<e>>[1]
      BY <1>0, <1>1, <1>3
    <3> QED BY <3>1, <2>2, <1>0, <1>4, <1>6
  <2>3. CASE j > i
    <3>1. (c \o b)[j] = b[j - i] /\ j - i \in 1 .. Len(s) - i + 1
      BY <2>3, <1>0, <1>4, <1>6
    <3> QED BY <3>1, <2>3, <1>0, <1>2
  <2>4. j < i \/ j = i \/ j > i
    BY <1>0
  <2> QED BY <2>1, <2>2, <2>3, <2>4
<1> QED BY <1>4, <1>5, <1>6, <1>7

(* One element of the sequence InsertAt returns.                           *)
LEMMA InsertAtElement ==
  ASSUME NEW S, NEW s \in Seq(S), NEW i \in 1 .. Len(s) + 1, NEW e \in S,
         NEW j \in 1 .. Len(s) + 1
  PROVE  InsertAt(s, i, e)[j] = IF j < i THEN s[j] ELSE IF j = i THEN e ELSE s[j - 1]
  BY InsertAtProps

(* RemoveAt closes the gap it makes.                                       *)
LEMMA RemoveAtProps ==
  ASSUME NEW S, NEW s \in Seq(S), NEW i \in 1 .. Len(s)
  PROVE  /\ RemoveAt(s, i) \in Seq(S)
         /\ Len(RemoveAt(s, i)) = Len(s) - 1
         /\ \A j \in 1 .. Len(s) - 1 :
              RemoveAt(s, i)[j] = IF j < i THEN s[j] ELSE s[j + 1]
<1>0. /\ Len(s) \in Nat /\ i \in Int /\ i - 1 \in Int /\ i + 1 \in Int
      /\ \A j \in 1 .. Len(s) : s[j] \in S
  BY LenProperties, ElementOfSeq
<1> DEFINE a == SubSeq(s, 1, i - 1)
           b == SubSeq(s, i + 1, Len(s))
<1> HIDE DEF a, b
<1>1. /\ a \in Seq(S)
      /\ Len(a) = i - 1
      /\ \A j \in 1 .. i - 1 : a[j] = s[j]
  BY <1>0, SubSeqProperties DEF a
<1>2. /\ b \in Seq(S)
      /\ Len(b) = Len(s) - i
      /\ \A j \in 1 .. Len(s) - i : b[j] = s[i + j]
  <2>1. \A j \in i + 1 .. Len(s) : s[j] \in S
    BY <1>0
  <2>2. /\ b \in Seq(S)
        /\ Len(b) = IF i + 1 <= Len(s) THEN Len(s) - (i + 1) + 1 ELSE 0
        /\ \A j \in 1 .. Len(s) - (i + 1) + 1 : b[j] = s[i + 1 + j - 1]
    BY <2>1, <1>0, SubSeqProperties DEF b
  <2> QED BY <2>2, <1>0
<1>3. /\ a \o b \in Seq(S)
      /\ Len(a \o b) = Len(a) + Len(b)
      /\ \A j \in 1 .. Len(a) + Len(b) :
           (a \o b)[j] = IF j <= Len(a) THEN a[j] ELSE b[j - Len(a)]
  BY <1>1, <1>2, ConcatProperties
<1>4. RemoveAt(s, i) = a \o b
  BY DEF RemoveAt, a, b
<1>5. ASSUME NEW j \in 1 .. Len(s) - 1
      PROVE  (a \o b)[j] = IF j < i THEN s[j] ELSE s[j + 1]
  <2>1. CASE j < i
    BY <2>1, <1>0, <1>1, <1>2, <1>3
  <2>2. CASE j >= i
    <3>1. (a \o b)[j] = b[j - (i - 1)] /\ j - (i - 1) \in 1 .. Len(s) - i
      BY <2>2, <1>0, <1>1, <1>2, <1>3
    <3> QED BY <3>1, <2>2, <1>0, <1>2
  <2>3. j < i \/ j >= i
    BY <1>0
  <2> QED BY <2>1, <2>2, <2>3
<1> QED BY <1>0, <1>1, <1>2, <1>3, <1>4, <1>5

(* A prefix and a suffix of a sequence.                                    *)
LEMMA SubSeqProps ==
  ASSUME NEW S, NEW s \in Seq(S), NEW m \in 1 .. Len(s) + 1, NEW n \in 0 .. Len(s),
         m <= n + 1
  PROVE  /\ SubSeq(s, m, n) \in Seq(S)
         /\ Len(SubSeq(s, m, n)) = n - m + 1
         /\ \A j \in 1 .. n - m + 1 : SubSeq(s, m, n)[j] = s[m + j - 1]
<1>1. Len(s) \in Nat /\ m \in Int /\ n \in Int
      /\ \A j \in 1 .. Len(s) : s[j] \in S
  BY LenProperties, ElementOfSeq
<1>2. \A j \in m .. n : s[j] \in S
  BY <1>1
<1> QED BY <1>1, <1>2, SubSeqProperties

(* The elements of a sequence, and those of one with e behind it.          *)
LEMMA ToSetProps ==
  ASSUME NEW S, NEW s \in Seq(S)
  PROVE  /\ ToSet(s) \subseteq S
         /\ \A j \in 1 .. Len(s) : s[j] \in ToSet(s)
         /\ \A e \in ToSet(s) : \E j \in 1 .. Len(s) : s[j] = e
  BY ElementOfSeq DEF ToSet

LEMMA AppendSet ==
  ASSUME NEW S, NEW s \in Seq(S), NEW e \in S
  PROVE  ToSet(Append(s, e)) = ToSet(s) \cup {e}
<1>1. /\ Append(s, e) \in Seq(S) /\ Len(s) \in Nat /\ Len(Append(s, e)) = Len(s) + 1
      /\ \A j \in 1 .. Len(s) : Append(s, e)[j] = s[j]
      /\ Append(s, e)[Len(s) + 1] = e
  BY AppendProperties, LenProperties
<1> DEFINE t == Append(s, e)
<1> HIDE DEF t
<1>2. /\ t \in Seq(S) /\ Len(t) = Len(s) + 1 /\ t[Len(s) + 1] = e
      /\ \A j \in 1 .. Len(s) : t[j] = s[j]
  BY <1>1 DEF t
<1>3. ToSet(s) \subseteq ToSet(t) /\ e \in ToSet(t)
  <2>1. e \in ToSet(t)
    BY <1>1, <1>2, ToSetProps
  <2>2. ASSUME NEW d \in ToSet(s) PROVE d \in ToSet(t)
    <3>1. PICK j \in 1 .. Len(s) : s[j] = d
      BY <2>2, ToSetProps
    <3>2. t[j] = d /\ j \in 1 .. Len(t)
      BY <3>1, <1>1, <1>2
    <3> QED BY <3>2, <1>2, ToSetProps
  <2> QED BY <2>1, <2>2
<1>4. ASSUME NEW d \in ToSet(t) PROVE d \in ToSet(s) \cup {e}
  <2>1. PICK j \in 1 .. Len(t) : t[j] = d
    BY <1>2, ToSetProps
  <2>2. j = Len(s) + 1 \/ j \in 1 .. Len(s)
    BY <1>1, <1>2
  <2>3. j \in 1 .. Len(s) => d \in ToSet(s)
    BY <2>1, <1>2, ToSetProps
  <2> QED BY <2>1, <2>2, <2>3, <1>2
<1> QED BY <1>3, <1>4 DEF t
-----------------------------------------------------------------------------
(* Induction                                                               *)

(* A set of naturals has a least element.                                  *)
LEMMA LeastOf ==
  ASSUME NEW S \in SUBSET Nat, S # {}
  PROVE  \E m \in S : \A n \in S : m <= n
<1> DEFINE Less == OpToRel(<, Nat)
<1>1. Less = {p \in Nat \X Nat : p[1] < p[2]}
  BY DEF OpToRel
<1>2. IsWellFoundedOn(Less, Nat)
  BY NatLessThanWellFounded
<1> HIDE DEF Less
<1>3. PICK m \in S : \A n \in S : ~(<<n, m>> \in Less)
  BY <1>2, WFMin
<1>4. \A n \in S : ~(n < m)
  BY <1>1, <1>3
<1> QED BY <1>4

(* One that is bounded has a greatest.                                     *)
LEMMA GreatestOf ==
  ASSUME NEW b \in Nat, NEW S \in SUBSET (0 .. b), S # {}
  PROVE  \E m \in S : \A n \in S : n <= m
<1> DEFINE T == {b - n : n \in S}
<1>1. T \in SUBSET Nat
  OBVIOUS
<1>0. T # {}
  <2>1. PICK n \in S : TRUE
    OBVIOUS
  <2>2. b - n \in T
    BY <2>1
  <2> QED BY <2>2
<1> HIDE DEF T
<1>2. PICK t \in T : \A u \in T : t <= u
  BY <1>0, <1>1, LeastOf
<1>3. PICK m \in S : t = b - m
  BY <1>2 DEF T
<1>4. \A n \in S : b - m <= b - n
  BY <1>2, <1>3 DEF T
<1>5. \A n \in S : n <= m
  BY <1>4
<1> QED BY <1>5

(* A set that has 0, and with each number the next, has all naturals.      *)
LEMMA Induction ==
  ASSUME NEW S, 0 \in S, \A n \in Nat : n \in S => n + 1 \in S
  PROVE  Nat \subseteq S
<1> SUFFICES ASSUME Nat \ S # {} PROVE FALSE
  OBVIOUS
<1>1. PICK m \in Nat \ S : \A n \in Nat \ S : m <= n
  BY LeastOf
<1>2. m # 0 /\ m - 1 \in Nat
  BY <1>1
<1>3. m - 1 \in S
  BY <1>1, <1>2
<1> QED BY <1>1, <1>2, <1>3

(* Upwards and downwards over an interval.                                 *)
LEMMA UpInduction ==
  ASSUME NEW a \in Int, NEW b \in Int, NEW S,
         a \in S, \A n \in a .. b - 1 : n \in S => n + 1 \in S
  PROVE  a .. b \subseteq S
<1> DEFINE T == {m \in Nat : a + m <= b => a + m \in S}
<1>1. 0 \in T
  OBVIOUS
<1>2. ASSUME NEW m \in Nat, m \in T PROVE m + 1 \in T
  <2>1. CASE a + (m + 1) <= b
    <3>1. a + m \in a .. b - 1 /\ a + m \in S
      BY <1>2, <2>1
    <3>2. (a + m) + 1 \in S /\ (a + m) + 1 = a + (m + 1)
      BY <3>1
    <3> QED BY <3>2
  <2> QED BY <2>1
<1> HIDE DEF T
<1>3. Nat \subseteq T
  BY <1>1, <1>2, Induction
<1>4. ASSUME NEW n \in a .. b PROVE n \in S
  <2>1. n - a \in T /\ a + (n - a) = n
    BY <1>3
  <2> QED BY <2>1 DEF T
<1> QED BY <1>4

LEMMA DownInduction ==
  ASSUME NEW a \in Int, NEW b \in Int, NEW S,
         b \in S, \A n \in a .. b - 1 : n + 1 \in S => n \in S
  PROVE  a .. b \subseteq S
<1> DEFINE T == {m \in Nat : b - m >= a => b - m \in S}
<1>1. 0 \in T
  OBVIOUS
<1>2. ASSUME NEW m \in Nat, m \in T PROVE m + 1 \in T
  <2>1. CASE b - (m + 1) >= a
    <3>1. b - (m + 1) \in a .. b - 1 /\ (b - (m + 1)) + 1 = b - m /\ b - m \in S
      BY <1>2, <2>1
    <3> QED BY <3>1
  <2> QED BY <2>1
<1> HIDE DEF T
<1>3. Nat \subseteq T
  BY <1>1, <1>2, Induction
<1>4. ASSUME NEW n \in a .. b PROVE n \in S
  <2>1. b - n \in T /\ b - (b - n) = n
    BY <1>3
  <2> QED BY <2>1 DEF T
<1> QED BY <1>4

-----------------------------------------------------------------------------
(* Folds                                                                   *)

(* f[s] is what a fold makes of the set s: it takes the elements in the    *)
(* order in which pick picks them, and G adds each to the result so far.   *)
IsFold(f, D, b, pick, G) ==
  \A s \in SUBSET D : f[s] = IF s = {} THEN b ELSE G[<<pick[s], f[s \ {pick[s]}]>>]

Picks(pick, D) == \A s \in SUBSET D : s # {} => pick[s] \in s
Adds(G, D, V) == \A x \in D, v \in V : G[<<x, v>>] \in V

(* Over a finite set there is such an f.                                   *)
LEMMA FoldExists ==
  ASSUME NEW D, IsFiniteSet(D), NEW V, NEW b, b \in V,
         NEW pick, Picks(pick, D), NEW G, Adds(G, D, V)
  PROVE  \E f \in [SUBSET D -> V] : IsFold(f, D, b, pick, G)
<1> USE DEF Picks, Adds
<1> DEFINE Equation(f, s) == f[s] = IF s = {} THEN b ELSE G[<<pick[s], f[s \ {pick[s]}]>>]
           UpTo(m) == \E f \in [SUBSET D -> V] : \A s \in SUBSET D : Cardinality(s) <= m => Equation(f, s)
           S == {m \in Nat : UpTo(m)}
<1>0. \A s \in SUBSET D :
        /\ IsFiniteSet(s) /\ Cardinality(s) \in Nat /\ Cardinality(s) <= Cardinality(D)
        /\ Cardinality(s) = 0 <=> s = {}
        /\ s # {} => /\ pick[s] \in D /\ s \ {pick[s]} \in SUBSET D
                     /\ Cardinality(s \ {pick[s]}) = Cardinality(s) - 1
  BY FS_Subset, FS_CardinalityType, FS_EmptySet, FS_RemoveElement
<1>1. UpTo(0)
  <2> DEFINE f == [s \in SUBSET D |-> b]
  <2>1. f \in [SUBSET D -> V] /\ f[{}] = b
    OBVIOUS
  <2>2. ASSUME NEW s \in SUBSET D, Cardinality(s) <= 0 PROVE s = {}
    <3>1. Cardinality(s) \in Nat /\ (Cardinality(s) = 0 <=> s = {})
      BY <1>0
    <3> QED BY <2>2, <3>1
  <2> QED BY <2>1, <2>2
<1>2. ASSUME NEW m \in Nat, UpTo(m) PROVE UpTo(m + 1)
  <2>1. PICK f \in [SUBSET D -> V] : \A s \in SUBSET D : Cardinality(s) <= m => Equation(f, s)
    BY <1>2
  <2> DEFINE g == [s \in SUBSET D |-> IF Cardinality(s) = m + 1 THEN G[<<pick[s], f[s \ {pick[s]}]>>] ELSE f[s]]
  <2>2. g \in [SUBSET D -> V]
    <3> SUFFICES ASSUME NEW s \in SUBSET D, Cardinality(s) = m + 1
                 PROVE  G[<<pick[s], f[s \ {pick[s]}]>>] \in V
      BY <2>1
    <3>0. Cardinality(s) = 0 <=> s = {}
      BY <1>0
    <3>1. s # {}
      BY <3>0
    <3>2. pick[s] \in D /\ f[s \ {pick[s]}] \in V
      BY <3>1, <1>0, <2>1
    <3> QED BY <3>2
  <2>3. ASSUME NEW s \in SUBSET D, Cardinality(s) <= m + 1 PROVE Equation(g, s)
    <3>1. CASE s = {}
      <4>0. Cardinality(s) = 0 <=> s = {}
        BY <1>0
      <4>1. Cardinality(s) = 0 /\ Cardinality(s) <= m /\ Cardinality(s) # m + 1
        BY <3>1, <4>0
      <4>2. g[s] = f[s] /\ Equation(f, s)
        BY <4>1, <2>1
      <4> QED BY <4>2, <3>1
    <3>2. CASE s # {}
      <4> DEFINE r == s \ {pick[s]}
      <4>1. r \in SUBSET D /\ Cardinality(r) = Cardinality(s) - 1 /\ Cardinality(s) \in Nat
        BY <3>2, <1>0
      <4>2. Cardinality(r) # m + 1
        BY <4>1, <2>3
      <4>3. g[r] = f[r]
        BY <4>1, <4>2
      <4>4. g[s] = G[<<pick[s], f[r]>>]
        <5>1. CASE Cardinality(s) = m + 1
          BY <5>1
        <5>2. CASE Cardinality(s) # m + 1
          <6>1. Cardinality(s) <= m
            BY <5>2, <4>1, <2>3
          <6> QED BY <6>1, <5>2, <2>1, <3>2
        <5> QED BY <5>1, <5>2
      <4> QED BY <4>3, <4>4, <3>2
    <3> QED BY <3>1, <3>2
  <2> HIDE DEF g
  <2> QED BY <2>2, <2>3
<1> HIDE DEF UpTo
<1>3. Nat \subseteq S
  <2>1. 0 \in S /\ \A n \in Nat : n \in S => n + 1 \in S
    BY <1>1, <1>2
  <2> HIDE DEF S
  <2> QED BY <2>1, Induction
<1>4. UpTo(Cardinality(D))
  BY <1>3, FS_CardinalityType
<1>5. PICK f \in [SUBSET D -> V] : \A s \in SUBSET D : Cardinality(s) <= Cardinality(D) => Equation(f, s)
  BY <1>4 DEF UpTo
<1>6. \A s \in SUBSET D : Equation(f, s)
  BY <1>5, <1>0
<1> QED BY <1>6 DEF IsFold

(* What FoldLeft and FoldRight pick.                                       *)
LEMMA FirstAndLast ==
  ASSUME NEW a \in Int, NEW b \in Int, a <= b
  PROVE  /\ Min(a .. b) = a /\ (a .. b) \ {a} = a + 1 .. b
         /\ Max(a .. b) = b /\ (a .. b) \ {b} = a .. b - 1
<1>1. \A m \in a .. b : (\A n \in a .. b : m <= n) => m = a
  OBVIOUS
<1>2. \A m \in a .. b : (\A n \in a .. b : m >= n) => m = b
  OBVIOUS
<1>3. a \in a .. b /\ b \in a .. b /\ \A n \in a .. b : a <= n /\ b >= n
  OBVIOUS
<1>4. Min(a .. b) = a
  BY <1>1, <1>3 DEF Min
<1>5. Max(a .. b) = b
  BY <1>2, <1>3 DEF Max
<1> QED BY <1>4, <1>5

LEMMA MinMaxIn ==
  ASSUME NEW n \in Nat, NEW s \in SUBSET (1 .. n), s # {}
  PROVE  Min(s) \in s /\ Max(s) \in s
<1>1. \E m \in s : \A x \in s : m <= x
  BY LeastOf
<1>2. \E m \in s : \A x \in s : m >= x
  <2>1. s \in SUBSET (0 .. n)
    OBVIOUS
  <2>2. PICK m \in s : \A x \in s : x <= m
    BY <2>1, GreatestOf
  <2> QED BY <2>2
<1> QED BY <1>1, <1>2 DEF Min, Max

(* r is the sequences K[1] .. K[n], the last one first.                    *)
JoinedBack(S, n, K, r) ==
  \E w \in [1 .. n + 1 -> Seq(S)] :
    /\ w[n + 1] = <<>>
    /\ \A i \in 1 .. n : w[i] = w[i + 1] \o K[i]
    /\ r = w[1]

(* A FoldRight that appends K[i] for the i-th element to what it has.      *)
IsBackFold(f, n, K) ==
  \A s \in SUBSET (1 .. n) : f[s] = IF s = {} THEN <<>> ELSE f[s \ {Min(s)}] \o K[Min(s)]

LEMMA BackExists ==
  ASSUME NEW n \in Nat, NEW S, NEW K \in [1 .. n -> Seq(S)]
  PROVE  \E f \in [SUBSET (1 .. n) -> Seq(S)] : IsBackFold(f, n, K)
<1> DEFINE D == 1 .. n
           V == Seq(S)
           pick == [s \in SUBSET D |-> Min(s)]
           G == [p \in D \X V |-> p[2] \o K[p[1]]]
<1>1. IsFiniteSet(D) /\ <<>> \in V
  BY FS_Interval
<1>2. \A s \in SUBSET D : s # {} => pick[s] = Min(s) /\ pick[s] \in s
  BY MinMaxIn
<1>3. \A x \in D, v \in V : G[<<x, v>>] = v \o K[x] /\ G[<<x, v>>] \in V
  BY ConcatProperties
<1> HIDE DEF D, V, pick, G
<1>4. PICK f \in [SUBSET D -> V] : \A s \in SUBSET D :
        f[s] = IF s = {} THEN <<>> ELSE G[<<pick[s], f[s \ {pick[s]}]>>]
  <2> DEFINE b == <<>>
  <2>1. Picks(pick, D)
    BY <1>2 DEF Picks
  <2>2. Adds(G, D, V)
    BY <1>3 DEF Adds
  <2>3. IsFiniteSet(D) /\ b \in V
    BY <1>1
  <2> HIDE DEF b
  <2>4. \E f \in [SUBSET D -> V] : IsFold(f, D, b, pick, G)
    BY ONLY <2>1, <2>2, <2>3, FoldExists, Zenon
  <2> QED BY <2>4 DEF b, IsFold
<1>5. ASSUME NEW s \in SUBSET D, s # {} PROVE f[s] = f[s \ {Min(s)}] \o K[Min(s)]
  <2>1. pick[s] = Min(s) /\ pick[s] \in D /\ s \ {pick[s]} \in SUBSET D
    BY <1>2, <1>5
  <2>2. f[s \ {pick[s]}] \in V
    BY <1>4, <2>1
  <2> QED BY <1>3, <1>4, <1>5, <2>1, <2>2
<1>6. {} \in SUBSET D
  OBVIOUS
<1>7. \A s \in SUBSET D : f[s] = IF s = {} THEN <<>> ELSE f[s \ {Min(s)}] \o K[Min(s)]
  BY <1>4, <1>5
<1> QED BY <1>7 DEF D, V, IsBackFold

(* And whatever it is, it gives the sequences, the last one first.         *)
LEMMA BackIsJoined ==
  ASSUME NEW n \in Nat, NEW S, NEW K \in [1 .. n -> Seq(S)], NEW f,
         f[{}] = <<>>,
         \A s \in SUBSET (1 .. n) : s # {} /\ f[s \ {Min(s)}] \in Seq(S) =>
           f[s] = f[s \ {Min(s)}] \o K[Min(s)]
  PROVE  JoinedBack(S, n, K, f[1 .. n])
<1> DEFINE w == [i \in 1 .. n + 1 |-> f[i .. n]]
           T == {i \in 1 .. n + 1 : w[i] \in Seq(S)}
<1>1. w[n + 1] = <<>>
  <2>1. n + 1 .. n = {}
    OBVIOUS
  <2> QED BY <2>1
<1>2. ASSUME NEW i \in 1 .. n, w[i + 1] \in Seq(S)
      PROVE  w[i] = w[i + 1] \o K[i] /\ w[i] \in Seq(S)
  <2>1. Min(i .. n) = i /\ (i .. n) \ {i} = i + 1 .. n
    BY FirstAndLast
  <2>2. i .. n \in SUBSET (1 .. n) /\ i .. n # {}
    <3>1. i \in i .. n /\ \A k \in i .. n : k \in 1 .. n
      OBVIOUS
    <3> QED BY <3>1
  <2>3. w[i + 1] = f[i + 1 .. n] /\ w[i] = f[i .. n]
    OBVIOUS
  <2>4. f[i .. n] = f[i + 1 .. n] \o K[i]
    BY <1>2, <2>1, <2>2, <2>3
  <2>5. K[i] \in Seq(S) /\ f[i + 1 .. n] \in Seq(S)
    BY <1>2, <2>3
  <2>6. f[i + 1 .. n] \o K[i] \in Seq(S)
    BY <2>5, ConcatProperties
  <2> QED BY <2>3, <2>4, <2>6
<1> HIDE DEF w
<1>3. 1 .. n + 1 \subseteq T
  <2>1. n + 1 \in T
    <3>1. <<>> \in Seq(S) /\ n + 1 \in 1 .. n + 1
      OBVIOUS
    <3> QED BY <1>1, <3>1
  <2>2. ASSUME NEW i \in 1 .. (n + 1) - 1, i + 1 \in T PROVE i \in T
    <3>1. i \in 1 .. n /\ i \in 1 .. n + 1
      OBVIOUS
    <3> QED BY <1>2, <2>2, <3>1
  <2> HIDE DEF T
  <2>3. \A i \in 1 .. (n + 1) - 1 : i + 1 \in T => i \in T
    BY <2>2
  <2>4. 1 \in Int /\ n + 1 \in Int
    OBVIOUS
  <2> QED BY ONLY <2>1, <2>3, <2>4, DownInduction
<1>4. w \in [1 .. n + 1 -> Seq(S)]
  <2>1. w = [i \in 1 .. n + 1 |-> w[i]]
    BY DEF w
  <2> QED BY <2>1, <1>3
<1>5. \A i \in 1 .. n : w[i] = w[i + 1] \o K[i]
  <2>1. \A i \in 1 .. n : i + 1 \in 1 .. n + 1
    OBVIOUS
  <2> QED BY <2>1, <1>2, <1>3
<1>6. f[1 .. n] = w[1]
  BY DEF w
<1> QED BY <1>1, <1>4, <1>5, <1>6 DEF JoinedBack

(* If they are all empty, so is the result; a single one is the result.    *)
LEMMA BackOfNothing ==
  ASSUME NEW n \in Nat, NEW S, NEW K \in [1 .. n -> Seq(S)], NEW r,
         JoinedBack(S, n, K, r), \A i \in 1 .. n : K[i] = <<>>
  PROVE  r = <<>>
<1>1. PICK w \in [1 .. n + 1 -> Seq(S)] :
        w[n + 1] = <<>> /\ (\A i \in 1 .. n : w[i] = w[i + 1] \o K[i]) /\ r = w[1]
  BY DEF JoinedBack
<1> DEFINE T == {i \in 1 .. n + 1 : w[i] = <<>>}
<1>2. n + 1 \in T
  BY <1>1
<1>3. ASSUME NEW i \in 1 .. (n + 1) - 1, i + 1 \in T PROVE i \in T
  <2>1. i \in 1 .. n /\ w[i] = <<>> \o <<>>
    BY <1>1, <1>3
  <2>2. <<>> \o <<>> = <<>>
    OBVIOUS
  <2> QED BY <2>1, <2>2
<1> HIDE DEF T
<1>4. 1 .. n + 1 \subseteq T
  <2>1. \A i \in 1 .. (n + 1) - 1 : i + 1 \in T => i \in T
    BY <1>3
  <2>2. 1 \in Int /\ n + 1 \in Int
    OBVIOUS
  <2> QED BY ONLY <1>2, <2>1, <2>2, DownInduction
<1> QED BY <1>1, <1>4 DEF T

LEMMA BackOfOne ==
  ASSUME NEW S, NEW K \in [1 .. 1 -> Seq(S)], NEW r, JoinedBack(S, 1, K, r)
  PROVE  r = K[1]
<1>1. PICK w \in [1 .. 2 -> Seq(S)] : w[2] = <<>> /\ w[1] = w[2] \o K[1] /\ r = w[1]
  BY DEF JoinedBack
<1>2. \A k \in Seq(S) : <<>> \o k = k
  BY ConcatEmptySeq
<1> QED BY <1>1, <1>2

=============================================================================
