------------------------------- MODULE Lemmas -------------------------------
(***************************************************************************)
(* Facts about natural numbers and sequences that the proofs share.        *)
(*                                                                         *)
(* Induction is over sets of numbers, not over predicates: a proof by      *)
(* induction defines the set of the numbers its claim holds of and shows   *)
(* with Induct that it is all of Nat.                                      *)
(***************************************************************************)
EXTENDS Naturals, SequencesExt, WellFoundedInduction, SequenceTheorems, TLAPS

\* A set of numbers that is not empty has a least member.
LEMMA LeastOf ==
  ASSUME NEW S \in SUBSET Nat, S # {}
  PROVE  \E m \in S : \A k \in S : m <= k
<1> DEFINE R == OpToRel(<, Nat)
<1>1. IsWellFoundedOn(R, Nat)
  BY NatLessThanWellFounded
<1>2. PICK m \in S : \A y \in S : ~ (<< y, m >> \in R)
  <2> HIDE DEF R
  <2> QED BY <1>1, WFMin
<1>3. ASSUME NEW y \in S PROVE ~ (y < m)
  <2>1. << y, m >> \in Nat \X Nat
    OBVIOUS
  <2> QED BY <1>2, <2>1 DEF OpToRel
<1> QED BY <1>3

\* A set that has 0 and the successor of each of its members has every number.
LEMMA Induct ==
  ASSUME NEW S \in SUBSET Nat, 0 \in S, \A n \in S : n + 1 \in S
  PROVE  S = Nat
<1> DEFINE B == Nat \ S
<1> SUFFICES ASSUME B # {} PROVE FALSE
  OBVIOUS
<1>1. PICK m \in B : \A k \in B : m <= k
  <2>1. B \in SUBSET Nat
    OBVIOUS
  <2> HIDE DEF B
  <2> QED BY <2>1, LeastOf
<1>2. m # 0 /\ m - 1 \in Nat
  OBVIOUS
<1>3. m - 1 \in S
  BY <1>1, <1>2
<1> QED BY <1>2, <1>3

\* A bounded set of numbers that is not empty has a greatest member.
LEMMA GreatestOf ==
  ASSUME NEW S \in SUBSET Nat, S # {}, NEW b \in Nat, \A k \in S : k <= b
  PROVE  \E m \in S : \A k \in S : k <= m
<1> DEFINE D == {n \in Nat : b - n \in S /\ n <= b}
<1>1. PICK k \in S : TRUE
  OBVIOUS
<1>2. b - k \in D
  <2>1. k \in Nat /\ k <= b
    BY <1>1
  <2>2. b - k \in Nat /\ b - k <= b /\ b - (b - k) = k
    BY <2>1
  <2> QED BY <1>1, <2>2
<1>3. PICK m \in D : \A n \in D : m <= n
  <2>1. D \in SUBSET Nat /\ D # {}
    BY <1>2
  <2> HIDE DEF D
  <2> QED BY <2>1, LeastOf
<1>4. b - m \in S /\ m \in Nat /\ m <= b
  BY <1>3
<1>5. ASSUME NEW j \in S PROVE j <= b - m
  <2>1. j \in Nat /\ j <= b
    BY <1>5
  <2>2. b - j \in Nat /\ b - j <= b /\ b - (b - j) = j
    BY <2>1
  <2>3. b - j \in D
    BY <1>5, <2>2
  <2>4. m <= b - j
    BY <1>3, <2>3
  <2> QED BY <2>1, <2>4, <1>4
<1> QED BY <1>4, <1>5

\* A function on 1..n is a sequence of its values.
LEMMA SeqOfFcn ==
  ASSUME NEW n \in Nat, NEW f, f = [i \in 1..n |-> f[i]]
  PROVE  f \in Seq(ToSet(f)) /\ Len(f) = n
<1>1. DOMAIN f = 1..n
  OBVIOUS
<1>2. \A i \in 1..n : f[i] \in ToSet(f)
  BY <1>1 DEF ToSet
<1>3. f \in [1..n -> ToSet(f)]
  BY <1>2
<1>4. f \in Seq(ToSet(f))
  BY <1>3
<1> QED BY <1>1, <1>4

\* A sequence of a set is a sequence of its own elements.
LEMMA SeqOfOwn ==
  ASSUME NEW S, NEW s \in Seq(S)
  PROVE  s \in Seq(ToSet(s))
<1>1. Len(s) \in Nat /\ s = [i \in 1..Len(s) |-> s[i]]
  OBVIOUS
<1> QED BY <1>1, SeqOfFcn

\* Sequences with the same elements are the same.
LEMMA SameSeq ==
  ASSUME NEW s, NEW t, s \in Seq(ToSet(s)), t \in Seq(ToSet(t)),
         Len(s) = Len(t), \A i \in 1..Len(s) : s[i] = t[i]
  PROVE  s = t
<1>1. s = [i \in 1..Len(s) |-> s[i]]
  OBVIOUS
<1>2. t = [i \in 1..Len(t) |-> t[i]]
  OBVIOUS
<1> QED BY <1>1, <1>2

\* What appending does to any sequence, whatever its elements.
LEMMA AppendFacts ==
  ASSUME NEW s, s \in Seq(ToSet(s)), NEW e
  PROVE  /\ Append(s, e) \in Seq(ToSet(Append(s, e)))
         /\ Len(Append(s, e)) = Len(s) + 1
         /\ Len(s) \in Nat
         /\ Append(s, e)[Len(s) + 1] = e
         /\ \A i \in 1..Len(s) : Append(s, e)[i] = s[i]
         /\ (s = << >>) <=> (Len(s) = 0)
<1> DEFINE T == ToSet(s) \cup {e}
           t == Append(s, e)
<1>1. s \in Seq(T) /\ e \in T
  <2>1. ToSet(s) \subseteq T
    OBVIOUS
  <2> QED BY <2>1
<1>2. /\ t \in Seq(T) /\ Len(t) = Len(s) + 1 /\ Len(s) \in Nat
      /\ t[Len(s) + 1] = e
      /\ \A i \in 1..Len(s) : t[i] = s[i]
  BY <1>1
<1>3. t \in Seq(ToSet(t))
  BY <1>2, SeqOfOwn
<1>4. (s = << >>) <=> (Len(s) = 0)
  BY <1>1
<1> QED BY <1>2, <1>3, <1>4

\* A prefix of a sequence.
LEMMA PrefixFacts ==
  ASSUME NEW S, NEW s \in Seq(S), NEW n \in 0..Len(s)
  PROVE  /\ SubSeq(s, 1, n) \in Seq(S)
         /\ Len(SubSeq(s, 1, n)) = n
         /\ \A i \in 1..n : SubSeq(s, 1, n)[i] = s[i]
         /\ n = Len(s) => SubSeq(s, 1, n) = s
OBVIOUS

\* Replacing what follows the first n elements by one element.
LEMMA PrefixAndOne ==
  ASSUME NEW S, NEW s \in Seq(S), NEW n \in 0..Len(s), NEW e \in S
  PROVE  /\ SubSeq(s, 1, n) \o << e >> \in Seq(S)
         /\ Len(SubSeq(s, 1, n) \o << e >>) = n + 1
         /\ \A i \in 1..n : (SubSeq(s, 1, n) \o << e >>)[i] = s[i]
         /\ (SubSeq(s, 1, n) \o << e >>)[n + 1] = e
<1> DEFINE p == SubSeq(s, 1, n)
<1>1. p \in Seq(S) /\ Len(p) = n /\ \A i \in 1..n : p[i] = s[i]
  BY PrefixFacts
<1>2. n \in Nat
  OBVIOUS
<1> HIDE DEF p
<1>3. /\ p \o << e >> \in Seq(S)
      /\ Len(p \o << e >>) = n + 1
      /\ \A i \in 1..n : (p \o << e >>)[i] = p[i]
      /\ (p \o << e >>)[n + 1] = e
  BY <1>1, <1>2
<1> QED BY <1>1, <1>3 DEF p

\* What taking an element out does to a sequence.
LEMMA RemoveAtFacts ==
  ASSUME NEW T, NEW s \in Seq(T), NEW at \in 1..Len(s)
  PROVE  /\ RemoveAt(s, at) \in Seq(T)
         /\ Len(RemoveAt(s, at)) = Len(s) - 1
         /\ \A i \in 1..(at - 1) : RemoveAt(s, at)[i] = s[i]
         /\ \A i \in at..(Len(s) - 1) : RemoveAt(s, at)[i] = s[i + 1]
<1> DEFINE a == SubSeq(s, 1, at - 1)
           b == SubSeq(s, at + 1, Len(s))
<1>1. /\ a \in Seq(T) /\ Len(a) = at - 1
      /\ \A i \in 1..(at - 1) : a[i] = s[i]
  OBVIOUS
<1>2. /\ b \in Seq(T) /\ Len(b) = Len(s) - at
      /\ \A i \in 1..(Len(s) - at) : b[i] = s[at + i]
  OBVIOUS
<1>3. RemoveAt(s, at) = a \o b
  BY DEF RemoveAt
<1> HIDE DEF a, b
<1>4. /\ a \o b \in Seq(T) /\ Len(a \o b) = Len(s) - 1
      /\ \A i \in 1..(at - 1) : (a \o b)[i] = s[i]
      /\ \A i \in at..(Len(s) - 1) : (a \o b)[i] = b[i - (at - 1)]
  <2>1. Len(s) \in Nat /\ at \in Nat /\ at <= Len(s) /\ 1 <= at
    OBVIOUS
  <2>2. /\ a \o b \in Seq(T) /\ Len(a \o b) = Len(a) + Len(b)
        /\ \A i \in 1..(Len(a) + Len(b)) :
             (a \o b)[i] = IF i <= Len(a) THEN a[i] ELSE b[i - Len(a)]
    BY <1>1, <1>2, ConcatProperties
  <2> QED BY <1>1, <1>2, <2>1, <2>2
<1>5. ASSUME NEW i \in at..(Len(s) - 1) PROVE (a \o b)[i] = s[i + 1]
  <2>1. i - (at - 1) \in 1..(Len(s) - at) /\ at + (i - (at - 1)) = i + 1
    OBVIOUS
  <2>2. b[i - (at - 1)] = s[at + (i - (at - 1))]
    BY <1>2, <2>1
  <2> QED BY <1>4, <2>1, <2>2
<1> QED BY <1>3, <1>4, <1>5
=============================================================================
