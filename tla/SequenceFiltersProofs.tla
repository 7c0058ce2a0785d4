------------------------ MODULE SequenceFiltersProofs ------------------------
(***************************************************************************)
(* What Filtered returns, what a sequence without repetitions keeps when   *)
(* it grows, and the form of induction this and the other proofs about     *)
(* loops use: over a set of numbers instead of a predicate.                *)
(***************************************************************************)
EXTENDS SequenceFilters, Integers, Functions, FiniteSetTheorems, WellFoundedInduction, TLAPS

\* A set of numbers that has 0 and the successor of each of its members has
\* them all.
LEMMA NumbersFromZero ==
  ASSUME NEW P \in SUBSET Nat, 0 \in P, \A n \in P : n + 1 \in P
  PROVE  P = Nat
<1> DEFINE R == {p \in Nat \X Nat : p[1] < p[2]}
<1>1. R = OpToRel(<, Nat)
  BY DEF OpToRel
<1>2. IsWellFoundedOn(R, Nat)
  BY <1>1, NatLessThanWellFounded
<1> HIDE DEF R
<1>3. SUFFICES ASSUME Nat \ P # {} PROVE FALSE
  OBVIOUS
<1>4. \E n \in Nat \ P : \A m \in Nat \ P : <<m, n>> \notin R
  <2>1. IsWellFoundedOn(R, Nat \ P)
    BY <1>2, IsWellFoundedOnSubset
  <2> QED
    BY <1>2, <1>3, WFMin
<1>5. PICK n \in Nat \ P : \A m \in Nat \ P : ~(m < n)
  BY <1>4 DEF R
<1>6. n - 1 \in Nat /\ n - 1 \in P
  BY <1>5
<1> QED
  BY <1>5, <1>6

\* The elements of s up to position i.
UpTo(s, i) == {s[j] : j \in 1..i}

\* The loop has the value its definition gives it.
LEMMA FilteredLoop ==
  ASSUME NEW s, Len(s) \in Nat, NEW S
  PROVE  \E kept : /\ Filtered(s, S) = kept[Len(s)]
                   /\ kept[0] = <<>>
                   /\ \A i \in 1..Len(s) :
                        kept[i] = IF s[i] \in S THEN Append(kept[i - 1], s[i]) ELSE kept[i - 1]
<1> DEFINE Step(x, i) == IF s[i] \in S THEN Append(x, s[i]) ELSE x
           Loop(k, n) == k = [i \in 0..n |-> IF i = 0 THEN <<>> ELSE Step(k[i - 1], i)]
           P == {n \in Nat : \E k : Loop(k, n)}
<1>1. 0 \in P
  <2>1. Loop([i \in 0..0 |-> <<>>], 0)
    OBVIOUS
  <2> QED
    BY <2>1
<1>2. ASSUME NEW n \in P PROVE n + 1 \in P
  <2> HIDE DEF Step
  <2>1. PICK k : Loop(k, n)
    BY <1>2
  <2> DEFINE h == [i \in 0..(n + 1) |-> IF i = n + 1 THEN Step(k[n], n + 1) ELSE k[i]]
  <2>2. Loop(h, n + 1)
    <3>1. \A i \in 0..(n + 1) : h[i] = IF i = 0 THEN <<>> ELSE Step(h[i - 1], i)
      BY <2>1
    <3> QED
      BY <3>1
  <2> HIDE DEF h, Loop
  <2> QED
    BY <2>2
<1>3. P = Nat
  <2> HIDE DEF P
  <2>1. P \in SUBSET Nat
    BY DEF P
  <2> QED
    BY <1>1, <1>2, <2>1, NumbersFromZero
<1>4. \E k : Loop(k, Len(s))
  BY <1>3
<1> DEFINE kept == CHOOSE k : Loop(k, Len(s))
<1>5. Filtered(s, S) = kept[Len(s)]
  BY DEF Filtered
<1>6. Loop(kept, Len(s))
  BY <1>4
<1>7. kept[0] = <<>> /\ \A i \in 1..Len(s) : kept[i] = Step(kept[i - 1], i)
  <2> HIDE DEF kept, Step
  <2>1. kept = [i \in 0..Len(s) |-> IF i = 0 THEN <<>> ELSE Step(kept[i - 1], i)]
    BY <1>6
  <2> QED
    BY <2>1
<1> HIDE DEF kept
<1> QED
  BY <1>5, <1>7

\* Filtered keeps exactly the elements that are in S, and repeats none that s
\* does not repeat.
LEMMA FilteredElements ==
  ASSUME NEW T, NEW s \in Seq(T), NEW S
  PROVE  /\ Filtered(s, S) \in Seq(T)
         /\ {Filtered(s, S)[i] : i \in DOMAIN Filtered(s, S)} = {s[i] : i \in DOMAIN s} \cap S
         /\ (\A i, j \in DOMAIN s : s[i] = s[j] => i = j)
              => \A i, j \in DOMAIN Filtered(s, S) :
                   Filtered(s, S)[i] = Filtered(s, S)[j] => i = j
<1>1. PICK kept : /\ Filtered(s, S) = kept[Len(s)]
                  /\ kept[0] = <<>>
                  /\ \A i \in 1..Len(s) :
                       kept[i] = IF s[i] \in S THEN Append(kept[i - 1], s[i]) ELSE kept[i - 1]
  BY FilteredLoop
<1> DEFINE Good(q, i) ==
             /\ q \in Seq(T)
             /\ {q[j] : j \in DOMAIN q} = UpTo(s, i) \cap S
             /\ (\A a, b \in DOMAIN s : s[a] = s[b] => a = b)
                  => \A a, b \in DOMAIN q : q[a] = q[b] => a = b
           P == {n \in Nat : n <= Len(s) => Good(kept[n], n)}
<1>2. 0 \in P
  <2>1. UpTo(s, 0) = {}
    BY DEF UpTo
  <2>2. Good(<<>>, 0)
    BY <2>1
  <2> HIDE DEF Good
  <2> QED
    BY <1>1, <2>2
<1>3. ASSUME NEW n \in P PROVE n + 1 \in P
  <2> SUFFICES ASSUME n + 1 <= Len(s) PROVE Good(kept[n + 1], n + 1)
    OBVIOUS
  <2>1. n \in Nat /\ Good(kept[n], n) /\ n + 1 \in 1..Len(s) /\ (n + 1) - 1 = n
    OBVIOUS
  <2>2. UpTo(s, n + 1) = UpTo(s, n) \cup {s[n + 1]} /\ s[n + 1] \in T
    BY <2>1 DEF UpTo
  <2>3. CASE s[n + 1] \notin S
    BY <1>1, <2>1, <2>2, <2>3
  <2>4. CASE s[n + 1] \in S
    <3> DEFINE q == kept[n]  x == s[n + 1]  e == Append(q, x)
    <3>1. kept[n + 1] = e
      BY <1>1, <2>1, <2>4
    <3>2. q \in Seq(T) /\ e \in Seq(T) /\ DOMAIN q = 1..Len(q) /\ DOMAIN e = 1..(Len(q) + 1)
          /\ Len(q) \in Nat
      BY <2>1, <2>2
    <3>3. \A a \in DOMAIN e : e[a] = IF a = Len(q) + 1 THEN x ELSE q[a]
      BY <3>2
    <3> HIDE DEF q, x, e
    <3>4. {e[j] : j \in DOMAIN e} = {q[j] : j \in DOMAIN q} \cup {x}
      <4>1. \A j \in DOMAIN q : j \in DOMAIN e /\ e[j] = q[j]
        BY <3>2, <3>3
      <4>2. Len(q) + 1 \in DOMAIN e /\ e[Len(q) + 1] = x
        BY <3>2, <3>3
      <4>3. \A j \in DOMAIN e : j = Len(q) + 1 \/ j \in DOMAIN q
        BY <3>2
      <4> QED
        BY <3>3, <4>1, <4>2, <4>3
    <3>5. ASSUME \A a, b \in DOMAIN s : s[a] = s[b] => a = b
          PROVE  \A a, b \in DOMAIN e : e[a] = e[b] => a = b
      <4>1. \A a \in DOMAIN q : q[a] # x
        <5>1. \A j \in 1..n : s[j] # x
          BY <2>1, <3>5 DEF x
        <5>2. x \notin UpTo(s, n)
          BY <5>1 DEF UpTo
        <5> QED
          BY <2>1, <5>2 DEF q, x
      <4>2. \A a, b \in DOMAIN q : q[a] = q[b] => a = b
        BY <2>1, <3>5 DEF q
      <4>3. SUFFICES ASSUME NEW a \in DOMAIN e, NEW b \in DOMAIN e, e[a] = e[b] PROVE a = b
        OBVIOUS
      <4>4. \A j \in DOMAIN e : j = Len(q) + 1 \/ j \in DOMAIN q
        BY <3>2
      <4>5. CASE a \in DOMAIN q /\ b \in DOMAIN q
        BY <3>2, <3>3, <4>2, <4>3, <4>5
      <4>6. CASE a = Len(q) + 1 /\ b \in DOMAIN q
        BY <3>2, <3>3, <4>1, <4>3, <4>6
      <4>7. CASE a \in DOMAIN q /\ b = Len(q) + 1
        BY <3>2, <3>3, <4>1, <4>3, <4>7
      <4> QED
        BY <4>4, <4>5, <4>6, <4>7
    <3>6. {e[j] : j \in DOMAIN e} = UpTo(s, n + 1) \cap S
      BY <2>1, <2>2, <2>4, <3>4 DEF q, x
    <3> QED
      BY <3>1, <3>2, <3>5, <3>6
  <2> QED
    BY <2>3, <2>4
<1>4. P = Nat
  <2> HIDE DEF P
  <2>1. P \in SUBSET Nat
    BY DEF P
  <2> QED
    BY <1>2, <1>3, <2>1, NumbersFromZero
<1>5. Good(kept[Len(s)], Len(s))
  BY <1>4
<1>6. UpTo(s, Len(s)) = {s[i] : i \in DOMAIN s} /\ Filtered(s, S) = kept[Len(s)]
  BY <1>1 DEF UpTo
<1> QED
  BY <1>5, <1>6

(***************************************************************************)
(* Sequences without repetitions.                                          *)
(***************************************************************************)
NoRepeat(s) == \A i, j \in DOMAIN s : s[i] = s[j] => i = j

LEMMA NoRepeatLen ==
  ASSUME NEW T, NEW s \in Seq(T), NoRepeat(s)
  PROVE  IsFiniteSet(Range(s)) /\ Cardinality(Range(s)) = Len(s)
<1>1. s \in Bijection(1..Len(s), Range(s))
  BY DEF NoRepeat, Range, Bijection, Injection, Surjection, IsInjective
<1>2. ExistsBijection(1..Len(s), Range(s))
  BY <1>1 DEF ExistsBijection
<1>3. IsFiniteSet(1..Len(s)) /\ Cardinality(1..Len(s)) = Len(s)
  <2>1. Len(s) \in Nat /\ Len(s) \in Int /\ 1 \in Int
    OBVIOUS
  <2>2. /\ IsFiniteSet(1..Len(s))
        /\ Cardinality(1..Len(s)) = IF 1 > Len(s) THEN 0 ELSE Len(s) - 1 + 1
    BY <2>1, FS_Interval
  <2> QED
    BY <2>1, <2>2
<1> QED
  BY <1>2, <1>3, FS_Bijection

\* As many elements as positions: no element is repeated.
LEMMA LenNoRepeat ==
  ASSUME NEW T, NEW s \in Seq(T), Cardinality(Range(s)) = Len(s)
  PROVE  NoRepeat(s)
<1>1. s \in Surjection(1..Len(s), Range(s))
  BY DEF Range, Surjection
<1>2. IsFiniteSet(1..Len(s)) /\ Cardinality(1..Len(s)) = Len(s)
  <2>1. Len(s) \in Nat /\ Len(s) \in Int /\ 1 \in Int
    OBVIOUS
  <2>2. /\ IsFiniteSet(1..Len(s))
        /\ Cardinality(1..Len(s)) = IF 1 > Len(s) THEN 0 ELSE Len(s) - 1 + 1
    BY <2>1, FS_Interval
  <2> QED
    BY <2>1, <2>2
<1>3. s \in Injection(1..Len(s), Range(s))
  BY <1>1, <1>2, FS_SurjSameCardinalityImpliesInj
<1> QED
  BY <1>3 DEF Injection, IsInjective, NoRepeat

\* A sequence of its own elements, none repeated.
Listing(s) == s \in Seq(Range(s)) /\ NoRepeat(s)

LEMMA SeqOfRange ==
  ASSUME NEW T, NEW s \in Seq(T)
  PROVE  s \in Seq(Range(s))
BY DEF Range

LEMMA FilteredListing ==
  ASSUME NEW s, Listing(s), NEW S
  PROVE  Listing(Filtered(s, S)) /\ Range(Filtered(s, S)) = Range(s) \cap S
<1>1. s \in Seq(Range(s))
  BY DEF Listing
<1>2. PICK q : q = Filtered(s, S)
  OBVIOUS
<1>3. q \in Seq(Range(s)) /\ {q[i] : i \in DOMAIN q} = {s[i] : i \in DOMAIN s} \cap S
  BY <1>1, <1>2, FilteredElements
<1>4. NoRepeat(q)
  <2>1. \A i, j \in DOMAIN s : s[i] = s[j] => i = j
    BY DEF Listing, NoRepeat
  <2> QED
    BY <1>1, <1>2, <2>1, FilteredElements DEF NoRepeat
<1>5. q \in Seq(Range(q))
  BY <1>3, SeqOfRange
<1> QED
  BY <1>2, <1>3, <1>4, <1>5 DEF Listing, Range

LEMMA AppendListing ==
  ASSUME NEW s, Listing(s), NEW x, x \notin Range(s)
  PROVE  Listing(Append(s, x)) /\ Range(Append(s, x)) = Range(s) \cup {x}
<1>1. PICK q : q = Append(s, x)
  OBVIOUS
<1>2. s \in Seq(Range(s)) /\ NoRepeat(s)
  BY DEF Listing
<1>3. Len(s) \in Nat /\ DOMAIN s = 1..Len(s)
  BY <1>2
<1>4. /\ q \in Seq(Range(s) \cup {x}) /\ DOMAIN q = 1..(Len(s) + 1)
      /\ q[Len(s) + 1] = x /\ \A i \in 1..Len(s) : q[i] = s[i]
  BY <1>1, <1>2
<1>5. Range(q) = Range(s) \cup {x}
  BY <1>3, <1>4 DEF Range
<1>6. NoRepeat(q)
  BY <1>2, <1>3, <1>4 DEF NoRepeat, Range
<1>7. q \in Seq(Range(q))
  BY <1>4, SeqOfRange
<1> QED
  BY <1>1, <1>5, <1>6, <1>7 DEF Listing

LEMMA ConcatListing ==
  ASSUME NEW s, Listing(s), NEW t, Listing(t), Range(s) \cap Range(t) = {}
  PROVE  Listing(s \o t) /\ Range(s \o t) = Range(s) \cup Range(t)
<1>1. PICK q : q = s \o t
  OBVIOUS
<1>2. s \in Seq(Range(s)) /\ NoRepeat(s) /\ t \in Seq(Range(t)) /\ NoRepeat(t)
  BY DEF Listing
<1>3. PICK T : T = Range(s) \cup Range(t)
  OBVIOUS
<1>4. s \in Seq(T) /\ t \in Seq(T)
  BY <1>2, <1>3
<1>5. PICK m \in Nat : m = Len(s)
  BY <1>4
<1>6. PICK n \in Nat : n = Len(t)
  BY <1>4
<1>7. /\ q \in Seq(T) /\ DOMAIN q = 1..(m + n)
      /\ DOMAIN s = 1..m /\ DOMAIN t = 1..n
      /\ \A i \in 1..m : q[i] = s[i]
      /\ \A i \in (m + 1)..(m + n) : q[i] = t[i - m]
  BY <1>1, <1>4, <1>5, <1>6
<1>8. \A j \in 1..n : q[m + j] = t[j] /\ m + j \in 1..(m + n)
  BY <1>7
<1>9. Range(q) = Range(s) \cup Range(t)
  <2>1. ASSUME NEW i \in 1..(m + n)
        PROVE  q[i] \in Range(s) \cup Range(t)
    <3>1. CASE i \in 1..m
      BY <1>7, <3>1 DEF Range
    <3>2. CASE i \notin 1..m
      <4>1. q[i] = t[i - m] /\ i - m \in DOMAIN t
        BY <1>7, <3>2
      <4> QED
        BY <4>1 DEF Range
    <3> QED
      BY <3>1, <3>2
  <2>2. ASSUME NEW x \in Range(s) PROVE x \in Range(q)
    BY <1>7, <2>2 DEF Range
  <2>3. ASSUME NEW x \in Range(t) PROVE x \in Range(q)
    BY <1>7, <1>8, <2>3 DEF Range
  <2> QED
    <3>1. ASSUME NEW x \in Range(q) PROVE x \in Range(s) \cup Range(t)
      <4>1. PICK i \in DOMAIN q : x = q[i]
        BY DEF Range
      <4> QED
        BY <1>7, <2>1, <4>1
    <3> QED
      BY <2>2, <2>3, <3>1
<1>10. NoRepeat(q)
  <2> SUFFICES ASSUME NEW i \in 1..(m + n), NEW j \in 1..(m + n), q[i] = q[j]
               PROVE  i = j
    BY <1>7 DEF NoRepeat
  <2>1. CASE i \in 1..m /\ j \in 1..m
    BY <1>2, <1>7, <2>1 DEF NoRepeat
  <2>2. CASE i \notin 1..m /\ j \notin 1..m
    <3>1. i - m \in 1..n /\ j - m \in 1..n /\ t[i - m] = t[j - m]
      BY <1>7, <2>2
    <3>2. i - m = j - m
      BY <1>2, <1>7, <3>1 DEF NoRepeat
    <3> QED
      BY <3>2
  <2>3. CASE i \in 1..m /\ j \notin 1..m
    <3>1. q[i] \in Range(s) /\ q[j] \in Range(t)
      BY <1>7, <2>3 DEF Range
    <3> QED
      BY <3>1
  <2>4. CASE i \notin 1..m /\ j \in 1..m
    <3>1. q[i] = t[i - m] /\ i - m \in DOMAIN t /\ q[j] = s[j] /\ j \in DOMAIN s
      BY <1>7, <2>4
    <3>2. q[j] \in Range(s) /\ q[i] \in Range(t)
      BY <3>1 DEF Range
    <3> QED
      BY <3>2
  <2> QED
    BY <2>1, <2>2, <2>3, <2>4
<1>11. q \in Seq(Range(q))
  BY <1>7, SeqOfRange
<1> QED
  BY <1>1, <1>9, <1>10, <1>11 DEF Listing
=============================================================================
