--------------------------- MODULE OperatorLemmas ---------------------------
(***************************************************************************)
(* What the operators on numbers, sets and sequences return that the       *)
(* models are built from: Min, Max and FlattenSeq choose an element or are *)
(* recursive functions, and whether these exist is shown with a least      *)
(* counterexample.                                                         *)
(***************************************************************************)
EXTENDS Integers, FiniteSetsExt, SequencesExt, FiniteSetTheorems, SequenceTheorems,
        WellFoundedInduction, TLAPS

Less == {ss \in Nat \X Nat : ss[1] < ss[2]}

LEMMA LessIsWellFounded == IsWellFoundedOn(Less, Nat)
BY NatLessThanWellFounded, Zenon DEF OpToRel, Less

LEMMA InLess == ASSUME NEW x \in Nat, NEW y \in Nat, y < x PROVE <<y, x>> \in Less
BY DEF Less

LEMMA LeastNatural ==
    ASSUME NEW S \in SUBSET Nat, S # {} PROVE \E m \in S : \A n \in S : m <= n
<1>1. PICK x \in S : \A y \in S : ~(<<y, x>> \in Less)
  BY LessIsWellFounded, WFMin
<1>2. \A y \in S : y \in Nat /\ x \in Nat /\ ~(y < x)
  BY <1>1, InLess
<1>3. QED
  BY <1>2

LEMMA MinOfNaturals ==
    ASSUME NEW S \in SUBSET Nat, S # {} PROVE Min(S) \in S /\ \A n \in S : Min(S) <= n
BY LeastNatural, Zenon DEF Min

(* Of the finite nonempty sets without a greatest element, one would have  *)
(* no proper subset that is another.                                       *)
LEMMA GreatestNatural ==
    ASSUME NEW S \in SUBSET Nat, IsFiniteSet(S), S # {}
    PROVE  \E m \in S : \A n \in S : m >= n
<1> DEFINE Bounded(T) == \E m \in T : \A n \in T : m >= n
           unbounded == {T \in FiniteSubsetsOf(S) : T # {} /\ ~Bounded(T)}
<1>1. SUFFICES ASSUME unbounded # {} PROVE FALSE
  BY DEF FiniteSubsetsOf
<1>2. PICK T \in unbounded : \A U \in unbounded : ~(<<U, T>> \in StrictSubsetOrdering(S))
  <2>1. unbounded \subseteq FiniteSubsetsOf(S)
    OBVIOUS
  <2> HIDE DEF unbounded
  <2>2. QED
    BY <1>1, <2>1, FS_StrictSubsetOrderingWellFounded, WFMin
<1>3. T \subseteq Nat /\ T \subseteq S /\ IsFiniteSet(T) /\ T # {} /\ ~Bounded(T)
  BY DEF FiniteSubsetsOf
<1>4. PICK x \in T : TRUE
  BY <1>3
<1>5. T \ {x} # {}
  BY <1>3, <1>4
<1>6. T \ {x} \in FiniteSubsetsOf(S) /\ <<T \ {x}, T>> \in StrictSubsetOrdering(S)
  BY <1>3, <1>4, FS_RemoveElement DEF FiniteSubsetsOf, StrictSubsetOrdering
<1>7. Bounded(T \ {x})
  BY <1>2, <1>5, <1>6
<1>8. PICK m \in T \ {x} : \A n \in T \ {x} : m >= n
  BY <1>7
<1>9. CASE m >= x
  BY <1>3, <1>8, <1>9
<1>10. CASE x >= m
  BY <1>3, <1>4, <1>8, <1>10
<1>11. QED
  BY <1>3, <1>4, <1>8, <1>9, <1>10

LEMMA MaxOfNaturals ==
    ASSUME NEW S \in SUBSET Nat, IsFiniteSet(S), S # {}
    PROVE  Max(S) \in S /\ \A n \in S : Max(S) >= n
BY GreatestNatural, Zenon DEF Max

-----------------------------------------------------------------------------

(* The first sequences of ss, one after the other *)
IsFlattening(f, n, ss) == f = [i \in 1..n |-> IF i = 1 THEN ss[i] ELSE f[i - 1] \o ss[i]]

LEMMA FlatteningExists ==
    ASSUME NEW ss, NEW n \in Nat PROVE \E f : IsFlattening(f, n, ss)
<1> DEFINE without == {k \in Nat : ~\E f : IsFlattening(f, k, ss)}
<1>1. SUFFICES ASSUME without # {} PROVE FALSE
  OBVIOUS
<1>2. PICK k \in without : \A j \in without : k <= j
  BY <1>1, LeastNatural
<1>3. CASE k = 0
  <2>1. IsFlattening([i \in {} |-> i], 0, ss)
    BY DEF IsFlattening
  <2>2. QED
    BY <1>2, <1>3, <2>1
<1>4. CASE k # 0
  <2>1. k - 1 \in Nat /\ k - 1 \notin without
    BY <1>2, <1>4
  <2>2. PICK f : f = [i \in 1..(k - 1) |-> IF i = 1 THEN ss[i] ELSE f[i - 1] \o ss[i]]
    BY <2>1 DEF IsFlattening
  <2> DEFINE g == [i \in 1..k |-> IF i < k THEN f[i]
                                  ELSE IF i = 1 THEN ss[i] ELSE f[i - 1] \o ss[i]]
  <2>3. \A i \in 1..k : g[i] = IF i = 1 THEN ss[i] ELSE g[i - 1] \o ss[i]
    <3> SUFFICES ASSUME NEW i \in 1..k PROVE g[i] = IF i = 1 THEN ss[i] ELSE g[i - 1] \o ss[i]
      OBVIOUS
    <3>1. i # 1 => i - 1 \in 1..k /\ i - 1 < k /\ g[i - 1] = f[i - 1]
      BY <2>1
    <3>2. i < k => i \in 1..(k - 1) /\ g[i] = f[i]
      BY <2>1
    <3>3. QED
      BY <2>2, <3>1, <3>2
  <2>4. IsFlattening(g, k, ss)
    BY <2>3 DEF IsFlattening
  <2>5. QED
    BY <1>2, <2>4
<1>5. QED
  BY <1>3, <1>4

LEMMA FlattenSeqIs ==
    ASSUME NEW ss, Len(ss) \in Nat \ {0}
    PROVE  \E f : /\ FlattenSeq(ss) = f[Len(ss)]
                  /\ \A i \in 1..Len(ss) : f[i] = IF i = 1 THEN ss[i] ELSE f[i - 1] \o ss[i]
<1> DEFINE f == CHOOSE g : IsFlattening(g, Len(ss), ss)
<1>1. FlattenSeq(ss) = f[Len(ss)]
  BY DEF FlattenSeq, IsFlattening
<1>2. IsFlattening(f, Len(ss), ss)
  BY FlatteningExists
<1> HIDE DEF f
<1>3. \A i \in 1..Len(ss) : f[i] = IF i = 1 THEN ss[i] ELSE f[i - 1] \o ss[i]
  BY <1>2 DEF IsFlattening
<1>4. QED
  BY <1>1, <1>3

LEMMA FlattenSeqType ==
    ASSUME NEW S, NEW ss \in Seq(Seq(S)), ss # <<>>
    PROVE  /\ FlattenSeq(ss) \in Seq(S)
           /\ \A x : x \in Range(FlattenSeq(ss)) <=> \E i \in 1..Len(ss) : x \in Range(ss[i])
<1>1. Len(ss) \in Nat \ {0} /\ \A i \in 1..Len(ss) : ss[i] \in Seq(S)
  BY EmptySeq, ElementOfSeq
<1>2. PICK f : /\ FlattenSeq(ss) = f[Len(ss)]
               /\ \A i \in 1..Len(ss) : f[i] = IF i = 1 THEN ss[i] ELSE f[i - 1] \o ss[i]
  BY <1>1, FlattenSeqIs
<1> DEFINE Right(i) == /\ f[i] \in Seq(S)
                       /\ \A x : x \in Range(f[i]) <=> \E j \in 1..i : x \in Range(ss[j])
           wrong == {i \in 1..Len(ss) : ~Right(i)}
<1>3. SUFFICES ASSUME wrong # {} PROVE FALSE
  <2> HIDE DEF Right
  <2>1. Len(ss) \in 1..Len(ss)
    BY <1>1
  <2>2. wrong = {} => Right(Len(ss))
    BY <2>1
  <2> USE DEF Right
  <2> HIDE DEF wrong
  <2>3. QED
    BY <1>2, <2>2
<1>4. PICK i \in wrong : \A j \in wrong : i <= j
  <2>1. wrong \in SUBSET Nat
    BY <1>1
  <2> HIDE DEF wrong
  <2>2. QED
    BY <1>3, <2>1, LeastNatural
<1>5. i \in 1..Len(ss) /\ ~Right(i)
  OBVIOUS
<1>6. CASE i = 1
  <2>1. f[1] = ss[1]
    BY <1>2, <1>5, <1>6
  <2>2. \A j \in 1..1 : j = 1
    OBVIOUS
  <2>3. QED
    BY <1>1, <1>5, <1>6, <2>1, <2>2
<1>7. CASE i # 1
  <2>1. i - 1 \in 1..Len(ss) /\ i - 1 < i
    BY <1>1, <1>5, <1>7
  <2>2. Right(i - 1)
    <3>1. ~(i <= i - 1)
      BY <1>1, <1>5
    <3>2. i - 1 \notin wrong
      BY <1>4, <3>1
    <3> HIDE DEF Right
    <3>3. QED
      BY <2>1, <3>2
  <2>3. f[i] = f[i - 1] \o ss[i] /\ ss[i] \in Seq(S)
    BY <1>1, <1>2, <1>5, <1>7
  <2>4. f[i] \in Seq(S) /\ Range(f[i]) = Range(f[i - 1]) \cup Range(ss[i])
    BY <2>2, <2>3, RangeConcatenation, ConcatProperties
  <2>5. 1..i = 1..(i - 1) \cup {i}
    BY <1>1, <1>5, <2>1
  <2>6. \A x : x \in Range(f[i]) <=> \E j \in 1..i : x \in Range(ss[j])
    BY <2>2, <2>4, <2>5
  <2>7. QED
    BY <1>5, <2>4, <2>6
<1>8. QED
  BY <1>6, <1>7

-----------------------------------------------------------------------------
(* What is left of a sequence *)

LEMMA FunctionIsSeq ==
    ASSUME NEW S, NEW n \in Nat, NEW s \in [1..n -> S]
    PROVE  s \in Seq(S) /\ Len(s) = n
<1>1. s \in Seq(S)
  BY SeqDef
<1>2. QED
  BY <1>1, LenProperties

LEMMA SuffixType ==
    ASSUME NEW S, NEW s \in Seq(S), NEW k \in 1..(Len(s) + 1)
    PROVE  /\ SubSeq(s, k, Len(s)) \in Seq(S)
           /\ Len(SubSeq(s, k, Len(s))) = Len(s) - k + 1
           /\ \A i \in 1..(Len(s) - k + 1) : SubSeq(s, k, Len(s))[i] = s[k + i - 1]
<1>1. Len(s) \in Nat /\ \A i \in k..Len(s) : s[i] \in S
  BY ElementOfSeq, LenProperties
<1>2. QED
  BY <1>1, SubSeqProperties

LEMMA SuffixTail ==
    ASSUME NEW S, NEW s \in Seq(S), NEW k \in 1..Len(s)
    PROVE  /\ SubSeq(s, k, Len(s)) # <<>>
           /\ Head(SubSeq(s, k, Len(s))) = s[k]
           /\ Tail(SubSeq(s, k, Len(s))) = SubSeq(s, k + 1, Len(s))
<1> DEFINE t == SubSeq(s, k, Len(s))
           u == SubSeq(s, k + 1, Len(s))
<1>1. Len(s) \in Nat /\ k \in 1..(Len(s) + 1) /\ k + 1 \in 1..(Len(s) + 1)
  BY LenProperties
<1>2. /\ t \in Seq(S) /\ Len(t) = Len(s) - k + 1
      /\ \A i \in 1..(Len(s) - k + 1) : t[i] = s[k + i - 1]
  BY <1>1, SuffixType
<1>3. /\ u \in Seq(S) /\ Len(u) = Len(s) - (k + 1) + 1
      /\ \A i \in 1..(Len(s) - (k + 1) + 1) : u[i] = s[(k + 1) + i - 1]
  BY <1>1, SuffixType
<1> HIDE DEF t, u
<1>4. t # <<>> /\ Head(t) = s[k]
  BY <1>1, <1>2
<1>5. /\ Tail(t) \in Seq(S) /\ Len(Tail(t)) = Len(t) - 1
      /\ \A i \in 1..Len(Tail(t)) : Tail(t)[i] = t[i + 1]
  BY <1>2, <1>4, HeadTailProperties
<1>6. Tail(t) = u
  <2>1. Len(Tail(t)) = Len(u)
    BY <1>1, <1>2, <1>3, <1>5
  <2>2. \A i \in 1..Len(u) : Tail(t)[i] = u[i]
    BY <1>1, <1>2, <1>3, <1>5
  <2>3. QED
    BY <1>3, <1>5, <2>1, <2>2, SeqEqual
<1>7. QED
  BY <1>4, <1>6 DEF t, u

LEMMA SuffixOfSuffix ==
    ASSUME NEW S, NEW s \in Seq(S), NEW k \in 1..(Len(s) + 1), NEW j \in 1..(Len(s) - k + 2)
    PROVE  SubSeq(SubSeq(s, k, Len(s)), j, Len(SubSeq(s, k, Len(s)))) = SubSeq(s, k + j - 1, Len(s))
<1> DEFINE t == SubSeq(s, k, Len(s))
           u == SubSeq(s, k + j - 1, Len(s))
           v == SubSeq(t, j, Len(t))
<1>1. Len(s) \in Nat /\ k + j - 1 \in 1..(Len(s) + 1)
  BY LenProperties
<1>2. /\ t \in Seq(S) /\ Len(t) = Len(s) - k + 1
      /\ \A i \in 1..(Len(s) - k + 1) : t[i] = s[k + i - 1]
  BY SuffixType
<1>3. /\ u \in Seq(S) /\ Len(u) = Len(s) - (k + j - 1) + 1
      /\ \A i \in 1..(Len(s) - (k + j - 1) + 1) : u[i] = s[(k + j - 1) + i - 1]
  BY <1>1, SuffixType
<1>4. j \in 1..(Len(t) + 1)
  BY <1>1, <1>2
<1> HIDE DEF t, u
<1>5. /\ v \in Seq(S) /\ Len(v) = Len(t) - j + 1
      /\ \A i \in 1..(Len(t) - j + 1) : v[i] = t[j + i - 1]
  <2>1. t \in Seq(S)
    BY <1>2
  <2>2. QED
    BY <1>4, <2>1, SuffixType
<1> HIDE DEF v
<1>6. Len(v) = Len(u)
  BY <1>1, <1>2, <1>3, <1>5
<1>7. \A i \in 1..Len(u) : v[i] = u[i]
  <2> SUFFICES ASSUME NEW i \in 1..Len(u) PROVE v[i] = u[i]
    OBVIOUS
  <2>1. i \in 1..(Len(t) - j + 1) /\ j + i - 1 \in 1..(Len(s) - k + 1)
    <3>1. /\ Len(u) = Len(s) - k - j + 2 /\ Len(t) = Len(s) - k + 1
          /\ i \in Int /\ 1 <= i /\ i <= Len(u)
      BY <1>1, <1>2, <1>3
    <3>2. QED
      BY <1>1, <3>1
  <2>2. v[i] = t[j + i - 1] /\ t[j + i - 1] = s[k + (j + i - 1) - 1]
    BY <1>2, <1>5, <2>1
  <2>3. i \in 1..(Len(s) - (k + j - 1) + 1)
    BY <1>3
  <2>4. u[i] = s[(k + j - 1) + i - 1]
    BY <1>3, <2>3
  <2>5. k + (j + i - 1) - 1 = (k + j - 1) + i - 1
    BY <1>1
  <2>6. QED
    BY <2>2, <2>4, <2>5
<1>8. QED
  BY <1>3, <1>5, <1>6, <1>7, SeqEqual DEF t, u, v

LEMMA FiniteImage ==
    ASSUME NEW S, IsFiniteSet(S), NEW f, f = [x \in S |-> f[x]]
    PROVE  IsFiniteSet({f[x] : x \in S})
<1>1. f \in Surjection(S, {f[x] : x \in S})
  BY DEF Surjection
<1>2. QED
  BY <1>1, FS_Surjection

=============================================================================
