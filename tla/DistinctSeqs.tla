---------------------------- MODULE DistinctSeqs ----------------------------
(***************************************************************************)
(* Facts that the proofs of several components need: queues, rings and     *)
(* lists that hold every item at most once, and smallest and largest       *)
(* elements.                                                               *)
(***************************************************************************)
EXTENDS Integers, Sequences, FiniteSets, Functions, SequencesExt, FiniteSetsExt,
        FiniteSetTheorems, SequenceTheorems, WellFoundedInduction, TLAPS

(* A set of natural numbers has a smallest element, and Min is it.         *)
LEMMA MinOfNaturals ==
  ASSUME NEW S \in SUBSET Nat, S # {}
  PROVE  Min(S) \in S /\ \A x \in S : Min(S) <= x
<1>0. \A y \in S : y \in Nat
  OBVIOUS
<1> DEFINE Less(x) == {y \in S : y < x}
<1> DEFINE T == {Less(x) : x \in S}
<1>1. T \subseteq FiniteSubsetsOf(S) /\ T # {}
  <2>1. \A x \in S : IsFiniteSet(Less(x))
    <3> SUFFICES ASSUME NEW x \in S PROVE IsFiniteSet(Less(x))
      OBVIOUS
    <3>1. Less(x) \in SUBSET Nat
      BY <1>0
    <3>2. x \in Nat /\ \A y \in Less(x) : y <= x
      BY <1>0
    <3> QED BY <3>1, <3>2, FS_BoundedSetOfNaturals
  <2> QED BY <2>1 DEF FiniteSubsetsOf
<1>2. PICK U \in T : \A V \in T : ~(<<V, U>> \in StrictSubsetOrdering(S))
  BY <1>1, FS_StrictSubsetOrderingWellFounded, WFMin
<1>3. PICK x \in S : U = Less(x)
  OBVIOUS
<1>4. ASSUME NEW y \in S PROVE x <= y
  <2>1. SUFFICES ASSUME y < x PROVE FALSE
    BY <1>0
  <2>2. y \in Less(x) /\ y \notin Less(y)
    BY <1>0, <2>1
  <2>3. ASSUME NEW z \in Less(y) PROVE z \in Less(x)
    BY <1>0, <2>1, <2>3
  <2>4. Less(y) \in SUBSET S /\ Less(x) \in SUBSET S
    OBVIOUS
  <2>5. <<Less(y), Less(x)>> \in StrictSubsetOrdering(S)
    BY <2>2, <2>3, <2>4, Zenon DEF StrictSubsetOrdering
  <2> QED BY <1>2, <1>3, <2>5
<1> QED BY <1>4 DEF Min

(* A finite set of natural numbers has a largest element, and Max is it.   *)
LEMMA MaxOfNaturals ==
  ASSUME NEW S \in SUBSET Nat, IsFiniteSet(S), S # {}
  PROVE  Max(S) \in S /\ \A x \in S : x <= Max(S)
<1>0. \A y \in S : y \in Nat
  OBVIOUS
<1> DEFINE More(x) == {y \in S : y > x}
<1> DEFINE T == {More(x) : x \in S}
<1>1. T \subseteq FiniteSubsetsOf(S) /\ T # {}
  <2>1. \A x \in S : More(x) \in SUBSET S
    OBVIOUS
  <2>2. \A x \in S : IsFiniteSet(More(x))
    BY <2>1, FS_Subset
  <2> QED BY <2>2 DEF FiniteSubsetsOf
<1>2. PICK U \in T : \A V \in T : ~(<<V, U>> \in StrictSubsetOrdering(S))
  BY <1>1, FS_StrictSubsetOrderingWellFounded, WFMin
<1>3. PICK x \in S : U = More(x)
  OBVIOUS
<1>4. ASSUME NEW y \in S PROVE x >= y
  <2>1. SUFFICES ASSUME x < y PROVE FALSE
    BY <1>0
  <2>2. y \in More(x) /\ y \notin More(y)
    BY <1>0, <2>1
  <2>3. ASSUME NEW z \in More(y) PROVE z \in More(x)
    BY <1>0, <2>1, <2>3
  <2>4. More(y) \in SUBSET S /\ More(x) \in SUBSET S
    OBVIOUS
  <2>5. <<More(y), More(x)>> \in StrictSubsetOrdering(S)
    BY <2>2, <2>3, <2>4, Zenon DEF StrictSubsetOrdering
  <2> QED BY <1>2, <1>3, <2>5
<1>5. \A y \in S : Max(S) >= y /\ Max(S) \in S
  BY <1>4 DEF Max
<1> QED BY <1>0, <1>5

-----------------------------------------------------------------------------
(* Sequences without repetitions.                                          *)

(* What SetToSeqs(S) holds lists each member of S once.                    *)
LEMMA ListingOfSet ==
  ASSUME NEW S, IsFiniteSet(S), NEW q \in SetToSeqs(S)
  PROVE  /\ q \in Seq(S)
         /\ IsInjective(q)
         /\ Range(q) = S
<1> DEFINE D == 1..Cardinality(S)
<1>1. Cardinality(S) \in Nat
  BY FS_CardinalityType
<1>2. q \in [D -> S] /\ \A i, j \in D : i # j => q[i] # q[j]
  BY DEF SetToSeqs
<1>3. q \in Seq(S)
  BY <1>1, <1>2, SeqDef
<1>4. IsInjective(q)
  BY <1>2 DEF IsInjective
<1>5. IsFiniteSet(D) /\ Cardinality(D) = Cardinality(S)
  BY <1>1, FS_Interval
<1>6. q \in Injection(D, S)
  BY <1>2, <1>4 DEF Injection
<1>7. q \in Surjection(D, S)
  BY <1>5, <1>6, FS_Injection
<1>8. Range(q) = S
  BY <1>2, <1>7 DEF Surjection, Range
<1> QED BY <1>3, <1>4, <1>8

(* Taking the item at position i out leaves two pieces that hold all the   *)
(* others, once.                                                           *)
LEMMA CutOut ==
  ASSUME NEW S, NEW q \in Seq(S), IsInjective(q), NEW i \in DOMAIN q
  PROVE  LET a == SubSeq(q, 1, i - 1)
             b == SubSeq(q, i + 1, Len(q)) IN
         /\ a \in Seq(S) /\ IsInjective(a)
         /\ b \in Seq(S) /\ IsInjective(b)
         /\ Range(a) \cap Range(b) = {}
         /\ q[i] \in S
         /\ q[i] \notin Range(a) \cup Range(b)
         /\ Range(q) = Range(a) \cup Range(b) \cup {q[i]}
<1> DEFINE a == SubSeq(q, 1, i - 1)
           b == SubSeq(q, i + 1, Len(q))
<1>1. /\ Len(q) \in Nat /\ DOMAIN q = 1..Len(q) /\ i \in 1..Len(q)
      /\ \A k \in 1..Len(q) : q[k] \in S
  BY LenProperties
<1>2. /\ a \in Seq(S) /\ Len(a) = i - 1
      /\ \A k \in 1..(i - 1) : a[k] = q[k]
  <2>1. \A k \in 1..(i - 1) : q[k] \in S
    BY <1>1
  <2>2. /\ a \in Seq(S)
        /\ Len(a) = IF 1 <= i - 1 THEN (i - 1) - 1 + 1 ELSE 0
        /\ \A k \in 1..((i - 1) - 1 + 1) : a[k] = q[1 + k - 1]
    BY <2>1, <1>1, SubSeqProperties
  <2> QED BY <2>2, <1>1
<1>3. /\ b \in Seq(S) /\ Len(b) = Len(q) - i
      /\ \A k \in 1..(Len(q) - i) : b[k] = q[k + i]
  <2>1. \A k \in (i + 1)..Len(q) : q[k] \in S
    BY <1>1
  <2>2. /\ b \in Seq(S)
        /\ Len(b) = IF i + 1 <= Len(q) THEN Len(q) - (i + 1) + 1 ELSE 0
        /\ \A k \in 1..(Len(q) - (i + 1) + 1) : b[k] = q[(i + 1) + k - 1]
    BY <2>1, <1>1, SubSeqProperties
  <2> QED BY <2>2, <1>1
<1> HIDE DEF a, b
<1>4. DOMAIN a = 1..(i - 1) /\ DOMAIN b = 1..(Len(q) - i)
  BY <1>2, <1>3, LenProperties
<1>5. \A j, k \in 1..Len(q) : q[j] = q[k] => j = k
  BY <1>1 DEF IsInjective
<1>6. IsInjective(a)
  BY <1>1, <1>2, <1>4, <1>5 DEF IsInjective
<1>b. \A k \in DOMAIN b : /\ k \in Int /\ k + i \in 1..Len(q)
                          /\ k + i > i /\ b[k] = q[k + i]
  BY <1>1, <1>3, <1>4
<1>7. IsInjective(b)
  <2> SUFFICES ASSUME NEW j \in DOMAIN b, NEW k \in DOMAIN b, b[j] = b[k]
               PROVE  j = k
    BY DEF IsInjective
  <2>1. j + i = k + i
    BY <1>5, <1>b
  <2> QED BY <2>1, <1>1, <1>b
<1>8. Range(a) \cap Range(b) = {} /\ q[i] \notin Range(a) \cup Range(b)
  <2>1. \A j \in DOMAIN a, k \in DOMAIN b : a[j] # b[k]
    <3> SUFFICES ASSUME NEW j \in DOMAIN a, NEW k \in DOMAIN b, a[j] = b[k]
                 PROVE  FALSE
      OBVIOUS
    <3>1. j \in 1..Len(q) /\ j < i /\ a[j] = q[j]
      BY <1>1, <1>2, <1>4
    <3>2. j = k + i
      BY <3>1, <1>5, <1>b
    <3> QED BY <3>1, <3>2, <1>1, <1>b
  <2>2. \A j \in DOMAIN a : a[j] # q[i]
    BY <1>1, <1>2, <1>4, <1>5
  <2>3. \A k \in DOMAIN b : b[k] # q[i]
    BY <1>1, <1>5, <1>b
  <2> QED BY <2>1, <2>2, <2>3 DEF Range
<1>9. Range(q) = Range(a) \cup Range(b) \cup {q[i]}
  <2>1. ASSUME NEW k \in 1..Len(q), k # i
        PROVE  q[k] \in Range(a) \cup Range(b)
    <3>1. CASE k < i
      BY <3>1, <1>1, <1>2, <1>4 DEF Range
    <3>2. CASE k > i
      <4>1. k - i \in 1..(Len(q) - i) /\ (k - i) + i = k
        BY <3>2, <1>1
      <4>2. q[k] = b[k - i]
        BY <4>1, <1>3
      <4> QED BY <4>1, <4>2, <1>4 DEF Range
    <3> QED BY <2>1, <3>1, <3>2, <1>1
  <2>2. Range(a) \subseteq Range(q)
    BY <1>1, <1>2, <1>4 DEF Range
  <2>3. Range(b) \subseteq Range(q)
    BY <1>1, <1>b DEF Range
  <2> QED BY <2>1, <2>2, <2>3, <1>1 DEF Range
<1> QED BY <1>1, <1>2, <1>3, <1>6, <1>7, <1>8, <1>9 DEF a, b

(* Joining two sequences that share no item.                               *)
LEMMA JoinDistinct ==
  ASSUME NEW S, NEW s \in Seq(S), NEW t \in Seq(S),
         IsInjective(s), IsInjective(t), Range(s) \cap Range(t) = {}
  PROVE  /\ s \o t \in Seq(S)
         /\ IsInjective(s \o t)
         /\ Range(s \o t) = Range(s) \cup Range(t)
<1> DEFINE u == s \o t
<1>1. /\ Len(s) \in Nat /\ DOMAIN s = 1..Len(s)
      /\ Len(t) \in Nat /\ DOMAIN t = 1..Len(t)
  BY LenProperties
<1>2. /\ u \in Seq(S) /\ Len(u) = Len(s) + Len(t)
      /\ \A i \in 1..(Len(s) + Len(t)) :
           u[i] = IF i <= Len(s) THEN s[i] ELSE t[i - Len(s)]
  BY ConcatProperties
<1> HIDE DEF u
<1>3. DOMAIN u = 1..(Len(s) + Len(t))
  BY <1>2, LenProperties
<1>4. \A i \in 1..Len(s) : u[i] = s[i]
  BY <1>1, <1>2
<1>5. \A i \in 1..Len(t) : Len(s) + i \in DOMAIN u /\ u[Len(s) + i] = t[i]
  BY <1>1, <1>2, <1>3
<1>6. \A i \in DOMAIN u : \/ i \in 1..Len(s)
                          \/ i - Len(s) \in 1..Len(t)
  BY <1>1, <1>3
<1>7. Range(u) = Range(s) \cup Range(t)
  <2>1. Range(u) \subseteq Range(s) \cup Range(t)
    <3> SUFFICES ASSUME NEW i \in DOMAIN u PROVE u[i] \in Range(s) \cup Range(t)
      BY DEF Range
    <3>1. CASE i \in 1..Len(s)
      BY <3>1, <1>1, <1>4 DEF Range
    <3>2. CASE i - Len(s) \in 1..Len(t)
      <4>1. u[i] = t[i - Len(s)]
        BY <3>2, <1>1, <1>2, <1>3
      <4> QED BY <4>1, <3>2, <1>1 DEF Range
    <3> QED BY <3>1, <3>2, <1>6
  <2>2. Range(s) \subseteq Range(u)
    BY <1>1, <1>3, <1>4 DEF Range
  <2>3. Range(t) \subseteq Range(u)
    BY <1>1, <1>5 DEF Range
  <2> QED BY <2>1, <2>2, <2>3
<1>8. IsInjective(u)
  <2> SUFFICES ASSUME NEW i \in DOMAIN u, NEW j \in DOMAIN u, u[i] = u[j]
               PROVE  i = j
    BY DEF IsInjective
  <2>1. CASE i \in 1..Len(s) /\ j \in 1..Len(s)
    BY <2>1, <1>1, <1>4 DEF IsInjective
  <2>2. CASE i \in 1..Len(s) /\ j - Len(s) \in 1..Len(t)
    <3>1. u[i] = s[i] /\ u[j] = t[j - Len(s)]
      BY <2>2, <1>1, <1>2, <1>3, <1>4
    <3> QED BY <3>1, <2>2, <1>1 DEF Range
  <2>3. CASE i - Len(s) \in 1..Len(t) /\ j \in 1..Len(s)
    <3>1. u[j] = s[j] /\ u[i] = t[i - Len(s)]
      BY <2>3, <1>1, <1>2, <1>3, <1>4
    <3> QED BY <3>1, <2>3, <1>1 DEF Range
  <2>4. CASE i - Len(s) \in 1..Len(t) /\ j - Len(s) \in 1..Len(t)
    <3>1. u[i] = t[i - Len(s)] /\ u[j] = t[j - Len(s)]
      BY <2>4, <1>1, <1>2, <1>3
    <3>2. i - Len(s) = j - Len(s)
      BY <3>1, <2>4, <1>1 DEF IsInjective
    <3> QED BY <3>2, <1>1, <1>3
  <2> QED BY <2>1, <2>2, <2>3, <2>4, <1>6
<1> QED BY <1>2, <1>7, <1>8 DEF u

(* Adding an item that the sequence does not hold.                         *)
LEMMA AppendDistinct ==
  ASSUME NEW S, NEW s \in Seq(S), NEW p \in S,
         IsInjective(s), p \notin Range(s)
  PROVE  /\ Append(s, p) \in Seq(S)
         /\ IsInjective(Append(s, p))
         /\ Range(Append(s, p)) = Range(s) \cup {p}
<1>1. Len(s) \in Nat /\ DOMAIN s = 1..Len(s)
  BY LenProperties
<1> DEFINE u == Append(s, p)
<1>2. /\ u \in Seq(S) /\ DOMAIN u = 1..(Len(s) + 1)
      /\ \A i \in 1..Len(s) : u[i] = s[i]
      /\ u[Len(s) + 1] = p
  BY <1>1
<1> HIDE DEF u
<1>3. IsInjective(u)
  BY <1>1, <1>2 DEF IsInjective, Range
<1>4. Range(u) = Range(s) \cup {p}
  BY <1>1, <1>2 DEF Range
<1> QED BY <1>2, <1>3, <1>4 DEF u

(* The empty sequence.                                                     *)
LEMMA EmptyIsDistinct ==
  ASSUME NEW S
  PROVE  << >> \in Seq(S) /\ IsInjective(<< >>) /\ Range(<< >>) = {}
  BY DEF IsInjective, Range

(* Taking an item out by its position, from the front or from the end.     *)
LEMMA RemoveAtDistinct ==
  ASSUME NEW S, NEW q \in Seq(S), IsInjective(q), NEW i \in DOMAIN q
  PROVE  /\ RemoveAt(q, i) \in Seq(S)
         /\ IsInjective(RemoveAt(q, i))
         /\ Range(RemoveAt(q, i)) = Range(q) \ {q[i]}
<1> DEFINE a == SubSeq(q, 1, i - 1)
           b == SubSeq(q, i + 1, Len(q))
<1>1. /\ a \in Seq(S) /\ IsInjective(a) /\ b \in Seq(S) /\ IsInjective(b)
      /\ Range(a) \cap Range(b) = {}
      /\ q[i] \notin Range(a) \cup Range(b)
      /\ Range(q) = Range(a) \cup Range(b) \cup {q[i]}
  BY CutOut
<1>2. RemoveAt(q, i) = a \o b
  BY DEF RemoveAt
<1> HIDE DEF a, b
<1>3. a \o b \in Seq(S) /\ IsInjective(a \o b) /\ Range(a \o b) = Range(a) \cup Range(b)
  BY <1>1, JoinDistinct
<1> QED BY <1>1, <1>2, <1>3

LEMMA TailDistinct ==
  ASSUME NEW S, NEW q \in Seq(S), IsInjective(q), q # << >>
  PROVE  /\ Head(q) \in Range(q)
         /\ Tail(q) \in Seq(S)
         /\ IsInjective(Tail(q))
         /\ Range(Tail(q)) = Range(q) \ {Head(q)}
<1>1. /\ Len(q) \in Nat \ {0} /\ DOMAIN q = 1..Len(q)
      /\ Tail(q) \in Seq(S) /\ Len(Tail(q)) = Len(q) - 1 /\ Head(q) = q[1]
      /\ \A i \in 1..(Len(q) - 1) : Tail(q)[i] = q[i + 1]
  BY EmptySeq, LenProperties, HeadTailProperties
<1>2. DOMAIN Tail(q) = 1..(Len(q) - 1)
  BY <1>1, LenProperties
<1> DEFINE t == Tail(q)
<1> HIDE DEF t
<1>3. DOMAIN t = 1..(Len(q) - 1) /\ \A i \in DOMAIN t : i + 1 \in DOMAIN q /\ t[i] = q[i + 1]
  BY <1>1, <1>2 DEF t
<1>4. IsInjective(t)
  <2> SUFFICES ASSUME NEW i \in DOMAIN t, NEW j \in DOMAIN t, t[i] = t[j]
               PROVE  i = j
    BY DEF IsInjective
  <2>1. i + 1 = j + 1
    BY <1>3 DEF IsInjective
  <2> QED BY <1>1, <1>3, <2>1
<1>5. ASSUME NEW i \in DOMAIN t PROVE t[i] \in Range(q) /\ t[i] # q[1]
  <2>1. i + 1 # 1 /\ 1 \in DOMAIN q
    BY <1>1, <1>3
  <2> QED BY <1>3, <2>1 DEF Range, IsInjective
<1>6. ASSUME NEW i \in DOMAIN q, i # 1 PROVE q[i] \in Range(t)
  <2>1. i - 1 \in DOMAIN t /\ (i - 1) + 1 = i
    BY <1>1, <1>3, <1>6
  <2>2. t[i - 1] = q[i]
    BY <1>3, <2>1
  <2> QED BY <2>1, <2>2 DEF Range
<1>7. Range(t) = Range(q) \ {q[1]}
  BY <1>5, <1>6 DEF Range
<1>8. q[1] \in Range(q)
  BY <1>1 DEF Range
<1> QED BY <1>1, <1>4, <1>7, <1>8 DEF t

LEMMA FrontDistinct ==
  ASSUME NEW S, NEW q \in Seq(S), IsInjective(q), q # << >>
  PROVE  /\ Last(q) \in Range(q)
         /\ Front(q) \in Seq(S)
         /\ IsInjective(Front(q))
         /\ Range(Front(q)) = Range(q) \ {Last(q)}
<1>1. Len(q) \in Nat \ {0} /\ DOMAIN q = 1..Len(q) /\ Last(q) = q[Len(q)]
  BY EmptySeq, LenProperties DEF Last
<1>2. \A i \in 1..(Len(q) - 1) : q[i] \in S
  BY <1>1, ElementOfSeq
<1> DEFINE f == SubSeq(q, 1, Len(q) - 1)
<1>3. /\ f \in Seq(S)
      /\ Len(f) = IF 1 <= Len(q) - 1 THEN (Len(q) - 1) - 1 + 1 ELSE 0
      /\ \A i \in 1..((Len(q) - 1) - 1 + 1) : f[i] = q[1 + i - 1]
  BY <1>1, <1>2, SubSeqProperties
<1> HIDE DEF f
<1>4. DOMAIN f = 1..(Len(q) - 1) /\ \A i \in DOMAIN f : f[i] = q[i]
  <2> DEFINE n == Len(q)
  <2>1. n \in Nat \ {0} /\ f \in Seq(S)
    BY <1>1, <1>3
  <2>2. Len(f) = IF 1 <= n - 1 THEN (n - 1) - 1 + 1 ELSE 0
    BY <1>3
  <2>3. \A i \in 1..((n - 1) - 1 + 1) : f[i] = q[1 + i - 1]
    BY <1>3
  <2> HIDE DEF n
  <2>4. Len(f) = n - 1
    BY <2>1, <2>2
  <2>5. DOMAIN f = 1..(n - 1)
    BY <2>1, <2>4, LenProperties
  <2>6. \A i \in 1..(n - 1) : f[i] = q[i]
    BY <2>1, <2>3
  <2> QED BY <2>5, <2>6 DEF n
<1>5. IsInjective(f)
  BY <1>1, <1>4 DEF IsInjective
<1>6. ASSUME NEW i \in DOMAIN f PROVE f[i] \in Range(q) /\ f[i] # q[Len(q)]
  BY <1>1, <1>4 DEF Range, IsInjective
<1>7. ASSUME NEW i \in DOMAIN q, i # Len(q) PROVE q[i] \in Range(f)
  <2>1. i \in DOMAIN f
    BY <1>1, <1>4, <1>7
  <2> QED BY <1>4, <2>1 DEF Range
<1>8. Range(f) = Range(q) \ {q[Len(q)]} /\ q[Len(q)] \in Range(q)
  BY <1>1, <1>6, <1>7 DEF Range
<1>9. Front(q) = f
  BY DEF Front, f
<1> QED BY <1>1, <1>3, <1>5, <1>8, <1>9

(* A sequence without repetitions is as long as its range is large.        *)
LEMMA LengthOfDistinct ==
  ASSUME NEW S, NEW q \in Seq(S), IsInjective(q)
  PROVE  /\ IsFiniteSet(Range(q))
         /\ Len(q) = Cardinality(Range(q))
<1>1. Len(q) \in Nat /\ DOMAIN q = 1..Len(q) /\ q \in [1..Len(q) -> S]
  BY LenProperties
<1>2. q \in [1..Len(q) -> Range(q)]
  BY <1>1 DEF Range
<1>3. q \in Injection(1..Len(q), Range(q)) /\ q \in Surjection(1..Len(q), Range(q))
  BY <1>1, <1>2 DEF Injection, Surjection, Range
<1>4. IsFiniteSet(1..Len(q)) /\ Cardinality(1..Len(q)) = Len(q)
  BY <1>1, FS_Interval
<1> QED BY <1>3, <1>4, FS_Surjection
=============================================================================
