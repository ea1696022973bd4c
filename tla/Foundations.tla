---------------------------- MODULE Foundations ----------------------------
(***************************************************************************)
(* Induction over the naturals stated with sets, so that first-order       *)
(* provers can apply it: used wherever the code loops and the model        *)
(* iterates a function.  And lists without repetitions, such as the        *)
(* plugin's monitors: what appending, removing and replacing one leaves.   *)
(* And what the operators of module Histories do to a history, for any     *)
(* samples and any number of them.                                         *)
(***************************************************************************)
EXTENDS Histories, SequencesExt, Functions, WellFoundedInduction, SequenceTheorems,
        FiniteSetTheorems, TLAPS

\* A non-empty set of naturals has a least element.
LEMMA LeastNat ==
  ASSUME NEW T \in SUBSET Nat, T # {}
  PROVE  \E x \in T : \A y \in T : x <= y
<1> DEFINE Less == {p \in Nat \X Nat : p[1] < p[2]}
<1>1. IsWellFoundedOn(Less, Nat)
  BY NatLessThanWellFounded, Zenon DEF OpToRel
<1> HIDE DEF Less
<1>2. \E x \in T : \A y \in T : ~ (<<y, x>> \in Less)
  BY <1>1, WFMin
<1>3. \A x, y \in Nat : ~ (<<y, x>> \in Less) => x <= y
  BY DEF Less
<1>4. QED BY <1>2, <1>3

\* A set that holds 0 and is closed under successor up to n holds 0 .. n.
LEMMA InductionUpTo ==
  ASSUME NEW n \in Nat, NEW P, 0 \in P,
         \A k \in 0 .. n - 1 : k \in P => k + 1 \in P
  PROVE  0 .. n \subseteq P
<1> DEFINE T == (0 .. n) \ P
<1> SUFFICES ASSUME T # {} PROVE FALSE
  OBVIOUS
<1>0. T \in SUBSET Nat
  OBVIOUS
<1>1. PICK x \in T : \A y \in T : x <= y
  BY <1>0, LeastNat
<1>2. x - 1 \in 0 .. n - 1 /\ x - 1 \in P
  BY <1>1
<1>3. QED BY <1>2, <1>1

\* A set of integers with an upper bound has a greatest element.
LEMMA GreatestBelow ==
  ASSUME NEW b \in Int, NEW T \in SUBSET Int, T # {}, \A x \in T : x <= b
  PROVE  \E x \in T : \A y \in T : y <= x
<1> DEFINE D == {b - x : x \in T}
<1>0. \A x \in T : b - x \in Nat
  OBVIOUS
<1>1. D \in SUBSET Nat /\ D # {}
  BY <1>0
<1>2. PICK d \in D : \A e \in D : d <= e
  BY <1>1, LeastNat
<1>3. PICK x \in T : d = b - x
  OBVIOUS
<1>4. \A y \in T : d <= b - y
  BY <1>2
<1>5. QED BY <1>3, <1>4

\* What holds of f[0], and of f[k + 1] if of f[k], holds of f up to n.
LEMMA IterationIn ==
  ASSUME NEW n \in Nat, NEW S, NEW f, f[0] \in S,
         \A k \in 0 .. n - 1 : f[k] \in S => f[k + 1] \in S
  PROVE  \A k \in 0 .. n : f[k] \in S
<1> DEFINE P == {k \in 0 .. n : f[k] \in S}
<1>1. 0 \in P
  OBVIOUS
<1>2. \A k \in 0 .. n - 1 : k \in P => k + 1 \in P
  OBVIOUS
<1>3. 0 .. n \subseteq P
  <2> HIDE DEF P
  <2> QED BY <1>1, <1>2, InductionUpTo
<1>4. QED BY <1>3

\* f records n steps from base: the k-th of them is the function step[k] on S.
Iterates(f, n, S, base, step) ==
  /\ f \in [0 .. n -> S]
  /\ f[0] = base
  /\ \A k \in 1 .. n : f[k] = step[k][f[k - 1]]

\* Steps that stay in S can be taken n times from an element of S.
LEMMA IterationExists ==
  ASSUME NEW n \in Nat, NEW S, NEW base \in S, NEW step \in [1 .. n -> [S -> S]]
  PROVE  \E f : Iterates(f, n, S, base, step)
<1> DEFINE Upto(f, j) == f[0] = base /\ \A k \in 1 .. j : f[k] = step[k][f[k - 1]]
           P == {j \in 0 .. n : \E f \in [0 .. j -> S] : Upto(f, j)}
<1>1. 0 \in P
  <2>1. [k \in 0 .. 0 |-> base] \in [0 .. 0 -> S] /\ Upto([k \in 0 .. 0 |-> base], 0)
    OBVIOUS
  <2> HIDE DEF Upto
  <2>2. QED BY <2>1
<1>2. \A j \in 0 .. n - 1 : j \in P => j + 1 \in P
  <2> HIDE DEF Upto
  <2> SUFFICES ASSUME NEW j \in 0 .. n - 1, NEW f \in [0 .. j -> S], Upto(f, j)
               PROVE  \E g \in [0 .. j + 1 -> S] : Upto(g, j + 1)
    OBVIOUS
  <2> DEFINE g == [k \in 0 .. j + 1 |-> IF k = j + 1 THEN step[k][f[j]] ELSE f[k]]
  <2>1. j \in Nat /\ j + 1 \in 1 .. n /\ j \in 0 .. j /\ 0 \in 0 .. j
    OBVIOUS
  <2>2. g[j + 1] = step[j + 1][f[j]] /\ \A k \in 0 .. j : g[k] = f[k]
    BY <2>1
  <2>3. \A k \in 0 .. j + 1 : k = j + 1 \/ k \in 0 .. j
    BY <2>1
  <2>4. step[j + 1] \in [S -> S] /\ f[j] \in S
    BY <2>1
  <2>5. g \in [0 .. j + 1 -> S]
    BY <2>3, <2>4
  <2> HIDE DEF g
  <2>6. ASSUME NEW k \in 1 .. j + 1 PROVE g[k] = step[k][g[k - 1]]
    <3>1. CASE k = j + 1
      <4>1. j = k - 1 /\ g[j] = f[j]
        BY <2>1, <2>2, <3>1
      <4>2. QED BY <4>1, <2>2, <3>1
    <3>2. CASE k # j + 1
      <4>1. k \in 1 .. j /\ k \in 0 .. j /\ k - 1 \in 0 .. j
        BY <2>1, <3>2
      <4>2. QED BY <4>1, <2>2 DEF Upto
    <3>3. QED BY <3>1, <3>2
  <2>7. g[0] = base
    BY <2>1, <2>2 DEF Upto
  <2>8. Upto(g, j + 1)
    BY <2>6, <2>7 DEF Upto
  <2>9. QED BY <2>5, <2>8
<1>3. QED
  <2> HIDE DEF P
  <2>1. 0 .. n \subseteq P
    BY <1>1, <1>2, InductionUpTo
  <2>2. n \in P
    BY <2>1
  <2>3. PICK f \in [0 .. n -> S] : Upto(f, n)
    BY <2>2 DEF P
  <2>4. Iterates(f, n, S, base, step)
    BY <2>3 DEF Iterates
  <2>5. QED BY <2>4
--------------------------------------------------------------------------
(* Lists without repetitions. *)

\* RemoveAt closes the gap that the removed element leaves.
LEMMA RemoveAtProperties ==
  ASSUME NEW S, NEW s \in Seq(S), NEW i \in 1 .. Len(s)
  PROVE  /\ RemoveAt(s, i) \in Seq(S)
         /\ Len(RemoveAt(s, i)) = Len(s) - 1
         /\ \A j \in 1 .. Len(s) - 1 :
              RemoveAt(s, i)[j] = IF j < i THEN s[j] ELSE s[j + 1]
<1> DEFINE a == SubSeq(s, 1, i - 1)
           b == SubSeq(s, i + 1, Len(s))
<1>0. Len(s) \in Nat /\ i \in Nat
  OBVIOUS
<1>1. /\ a \in Seq(S) /\ Len(a) = i - 1 /\ \A j \in 1 .. i - 1 : a[j] = s[j]
      /\ b \in Seq(S) /\ Len(b) = Len(s) - i
      /\ \A j \in 1 .. Len(s) - i : b[j] = s[i + j]
  <2>1. a \in Seq(S) /\ Len(a) = i - 1 /\ \A j \in 1 .. i - 1 : a[j] = s[j]
    BY <1>0
  <2>2. b \in Seq(S)
    BY <1>0
  <2>3. Len(b) = Len(s) - i
    BY <1>0
  <2>4. \A j \in 1 .. Len(s) - i : b[j] = s[i + j]
    BY <1>0
  <2>5. QED BY <2>1, <2>2, <2>3, <2>4
<1>2. RemoveAt(s, i) = a \o b
  BY DEF RemoveAt
<1> HIDE DEF a, b
<1>3. /\ a \o b \in Seq(S) /\ Len(a \o b) = Len(s) - 1
  <2>1. a \o b \in Seq(S)
    BY <1>1
  <2>2. Len(a \o b) = Len(a) + Len(b)
    BY <1>1, ConcatProperties
  <2>3. (i - 1) + (Len(s) - i) = Len(s) - 1
    BY <1>0
  <2>4. QED BY <1>1, <2>1, <2>2, <2>3
<1>4. ASSUME NEW j \in 1 .. Len(s) - 1
      PROVE  (a \o b)[j] = IF j < i THEN s[j] ELSE s[j + 1]
  <2>1. CASE j < i
    BY <1>0, <1>1, <2>1
  <2>2. CASE ~ (j < i)
    <3>1. (a \o b)[j] = b[j - (i - 1)] /\ j - (i - 1) \in 1 .. Len(s) - i
      BY <1>0, <1>1, <2>2
    <3>2. b[j - (i - 1)] = s[i + (j - (i - 1))]
      BY <1>1, <3>1
    <3>3. i + (j - (i - 1)) = j + 1
      BY <1>0
    <3>4. QED BY <2>2, <3>1, <3>2, <3>3
  <2>3. QED BY <2>1, <2>2
<1>5. QED BY <1>2, <1>3, <1>4

\* Append as a function of the places.
LEMMA AppendIs ==
  ASSUME NEW S, NEW s \in Seq(S), NEW x \in S
  PROVE  Append(s, x) = [i \in 1 .. Len(s) + 1 |-> IF i = Len(s) + 1 THEN x ELSE s[i]]
<1> DEFINE t == Append(s, x)
<1>1. t \in Seq(S) /\ Len(t) = Len(s) + 1
      /\ \A i \in 1 .. Len(s) + 1 : t[i] = IF i = Len(s) + 1 THEN x ELSE s[i]
  OBVIOUS
<1> HIDE DEF t
<1>2. t = [i \in 1 .. Len(s) + 1 |-> t[i]]
  BY <1>1, LenProperties
<1>3. QED BY <1>1, <1>2 DEF t

\* Appending an element that is not in the list.
LEMMA AppendFresh ==
  ASSUME NEW S, NEW s \in Seq(S), IsInjective(s), NEW x \in S, x \notin Range(s)
  PROVE  IsInjective(Append(s, x)) /\ Range(Append(s, x)) = Range(s) \cup {x}
<1> DEFINE t == Append(s, x)
           n == Len(s)
<1>1. n \in Nat /\ DOMAIN s = 1 .. n /\ DOMAIN t = 1 .. n + 1
  OBVIOUS
<1>2. t[n + 1] = x /\ \A i \in 1 .. n : t[i] = s[i]
  OBVIOUS
<1> HIDE DEF t, n
<1>3. \A i \in 1 .. n + 1 : i = n + 1 \/ i \in 1 .. n
  BY <1>1
<1>4. n + 1 \in 1 .. n + 1 /\ \A i \in 1 .. n : i \in 1 .. n + 1
  BY <1>1
<1>5. \A i \in 1 .. n : s[i] \in Range(s)
  BY <1>1 DEF Range
<1>6. IsInjective(t)
  <2>1. \A i, j \in 1 .. n + 1 : t[i] = t[j] => i = j
    BY <1>1, <1>2, <1>3, <1>5 DEF IsInjective
  <2>2. QED BY <1>1, <2>1 DEF IsInjective
<1>7. Range(t) = Range(s) \cup {x}
  BY <1>1, <1>2, <1>3, <1>4 DEF Range
<1>8. QED BY <1>6, <1>7 DEF t

\* Removing an element.
LEMMA RemoveOne ==
  ASSUME NEW S, NEW s \in Seq(S), IsInjective(s), NEW i \in DOMAIN s
  PROVE  /\ RemoveAt(s, i) \in Seq(S) /\ IsInjective(RemoveAt(s, i))
         /\ Range(RemoveAt(s, i)) = Range(s) \ {s[i]}
<1> DEFINE t == RemoveAt(s, i)
           n == Len(s)
           at(j) == IF j < i THEN j ELSE j + 1
<1>1. n \in Nat /\ DOMAIN s = 1 .. n /\ i \in 1 .. n
  OBVIOUS
<1>2. t \in Seq(S) /\ Len(t) = n - 1 /\ \A j \in 1 .. n - 1 : t[j] = s[at(j)]
  <2>1. \A j \in 1 .. n - 1 : t[j] = IF j < i THEN s[j] ELSE s[j + 1]
    BY <1>1, RemoveAtProperties
  <2> HIDE DEF t
  <2>2. QED BY <1>1, <2>1, RemoveAtProperties DEF t
<1> HIDE DEF t, n
<1>3. DOMAIN t = 1 .. n - 1
  BY <1>2
<1>4. \A j \in 1 .. n - 1 : at(j) \in 1 .. n /\ at(j) # i
  BY <1>1
<1>5. \A j, k \in 1 .. n - 1 : at(j) = at(k) => j = k
  BY <1>1
<1>6. \A k \in 1 .. n : k # i => \E j \in 1 .. n - 1 : at(j) = k
  <2> SUFFICES ASSUME NEW k \in 1 .. n, k # i PROVE \E j \in 1 .. n - 1 : at(j) = k
    OBVIOUS
  <2>1. CASE k < i
    BY <1>1, <2>1
  <2>2. CASE k > i
    <3>1. k - 1 \in 1 .. n - 1 /\ at(k - 1) = k
      BY <1>1, <2>2
    <3>2. QED BY <3>1
  <2>3. QED BY <1>1, <2>1, <2>2
<1> HIDE DEF at
<1>7. IsInjective(t)
  <2>1. \A j, k \in 1 .. n - 1 : t[j] = t[k] => j = k
    BY <1>1, <1>2, <1>4, <1>5 DEF IsInjective
  <2>2. QED BY <1>3, <2>1 DEF IsInjective
<1>8. Range(t) = Range(s) \ {s[i]}
  <2>1. ASSUME NEW x \in Range(t) PROVE x \in Range(s) \ {s[i]}
    <3>1. PICK j \in 1 .. n - 1 : x = s[at(j)]
      BY <1>2, <1>3, <2>1 DEF Range
    <3>2. QED BY <1>1, <1>4, <3>1 DEF Range, IsInjective
  <2>2. ASSUME NEW x \in Range(s) \ {s[i]} PROVE x \in Range(t)
    <3>1. PICK k \in 1 .. n : x = s[k]
      BY <1>1, <2>2 DEF Range
    <3>2. PICK j \in 1 .. n - 1 : at(j) = k
      BY <1>6, <2>2, <3>1
    <3>3. QED BY <1>2, <1>3, <3>1, <3>2 DEF Range
  <2>3. QED BY <2>1, <2>2
<1>9. QED BY <1>2, <1>7, <1>8 DEF t

\* Putting a new element in the place of another one.
Put(s, i, x) == [s EXCEPT ![i] = x]

\* The new element takes the other's place, and the list has no repetitions still.
LEMMA ReplaceOne ==
  ASSUME NEW S, NEW s \in Seq(S), IsInjective(s), NEW i \in DOMAIN s,
         NEW x \in S, x \notin Range(s)
  PROVE  /\ Put(s, i, x) \in Seq(S) /\ IsInjective(Put(s, i, x))
         /\ Range(Put(s, i, x)) = (Range(s) \ {s[i]}) \cup {x}
<1> DEFINE t == Put(s, i, x)
           n == Len(s)
<1>1. n \in Nat /\ DOMAIN s = 1 .. n /\ i \in 1 .. n /\ s \in [1 .. n -> S]
  BY LenProperties
<1>2. t \in [1 .. n -> S] /\ t[i] = x /\ \A j \in 1 .. n : j # i => t[j] = s[j]
  BY <1>1 DEF Put
<1> HIDE DEF t
<1>3. t \in Seq(S)
  BY <1>1, <1>2, SeqDef
<1>4. DOMAIN t = 1 .. n
  BY <1>2
<1> HIDE DEF n
<1>5. \A j \in 1 .. n : s[j] # x
  BY <1>1 DEF Range
<1>6. IsInjective(t)
  <2>1. \A j, k \in 1 .. n : t[j] = t[k] => j = k
    BY <1>1, <1>2, <1>5 DEF IsInjective
  <2>2. QED BY <1>4, <2>1 DEF IsInjective
<1>7. Range(t) = (Range(s) \ {s[i]}) \cup {x}
  <2>1. ASSUME NEW y \in Range(t) PROVE y \in (Range(s) \ {s[i]}) \cup {x}
    BY <1>1, <1>2, <1>4, <2>1 DEF Range, IsInjective
  <2>2. ASSUME NEW y \in (Range(s) \ {s[i]}) \cup {x} PROVE y \in Range(t)
    BY <1>1, <1>2, <1>4, <2>2 DEF Range
  <2>3. QED BY <2>1, <2>2
<1>8. QED BY <1>3, <1>6, <1>7 DEF t
--------------------------------------------------------------------------
(* Histories. *)

\* A measurement: a natural, or no number.
Measurement == Nat \cup {NaN}

HistoryOf(S) == [values : Seq(S), max_value : Nat \cup {NaN},
                 max_count : Nat, waits_remaining : Int]

\* The inductive form of "the cached maximum is exact": before the first number
\* the maximum is the initial 0, so that any number beats or equals it.
SoundHistory(h) ==
  h.max_value # NaN =>
     /\ IsPeak(h.max_value, h.values)
     /\ h.max_count = Occurrences(h.values, h.max_value)
     /\ Numbers(h.values) = {} => h.max_value = 0
--------------------------------------------------------------------------
\* How many samples equal m is a natural number, and is 0 exactly if none does.
LEMMA OccurrencesType ==
  ASSUME NEW v \in Seq(Measurement), NEW m
  PROVE  /\ IsFiniteSet({i \in DOMAIN v : Same(v[i], m)})
         /\ Occurrences(v, m) \in Nat
         /\ Occurrences(v, m) = 0 <=> \A i \in DOMAIN v : ~ Same(v[i], m)
<1> DEFINE A == {i \in DOMAIN v : Same(v[i], m)}
<1>1. IsFiniteSet(1 .. Len(v))
  BY FS_Interval
<1>2. IsFiniteSet(A)
  BY <1>1, FS_Subset
<1>3. Cardinality(A) \in Nat /\ (Cardinality(A) = 0 <=> A = {})
  BY <1>2, FS_CardinalityType, FS_EmptySet
<1>4. QED BY <1>2, <1>3 DEF Occurrences

\* push_front adds one occurrence of the sample it pushes.
LEMMA OccurrencesPush ==
  ASSUME NEW v \in Seq(Measurement), NEW s \in Measurement, NEW m
  PROVE  Occurrences(<<s>> \o v, m) = Occurrences(v, m) + (IF Same(s, m) THEN 1 ELSE 0)
<1> DEFINE w == <<s>> \o v
           A == {i \in DOMAIN v : Same(v[i], m)}
           B == {i \in DOMAIN w : Same(w[i], m)}
           f == [i \in A |-> i + 1]
<1>1. /\ w \in Seq(Measurement) /\ Len(w) = Len(v) + 1 /\ w[1] = s
      /\ \A i \in 1 .. Len(v) : w[i + 1] = v[i]
      /\ \A i \in DOMAIN w : i # 1 => i - 1 \in DOMAIN v /\ w[i] = v[i - 1]
  OBVIOUS
<1> HIDE DEF w
<1>2. f \in Bijection(A, B \ {1})
  <2>1. \A i \in A : f[i] \in B \ {1}
    BY <1>1
  <2>2. \A i, j \in A : f[i] = f[j] => i = j
    OBVIOUS
  <2>3. \A k \in B \ {1} : k - 1 \in A /\ f[k - 1] = k
    BY <1>1
  <2>4. QED
    BY <2>1, <2>2, <2>3 DEF Bijection, Injection, Surjection, IsInjective
<1>3. ExistsBijection(A, B \ {1})
  BY <1>2 DEF ExistsBijection
<1>4. IsFiniteSet(A) /\ IsFiniteSet(B) /\ Cardinality(B) \in Nat
  BY <1>1, OccurrencesType DEF Occurrences
<1>5. Cardinality(B \ {1}) = Cardinality(A)
  BY <1>3, <1>4, FS_Bijection
<1>6. Cardinality(B \ {1}) = IF 1 \in B THEN Cardinality(B) - 1 ELSE Cardinality(B)
  BY <1>4, FS_RemoveElement
<1>7. 1 \in B <=> Same(s, m)
  BY <1>1
<1>8. Occurrences(v, m) = Cardinality(A) /\ Occurrences(w, m) = Cardinality(B)
  BY DEF Occurrences
<1> HIDE DEF A, B
<1>9. Occurrences(w, m) = Occurrences(v, m) + (IF Same(s, m) THEN 1 ELSE 0)
  BY <1>4, <1>5, <1>6, <1>7, <1>8
<1>10. QED BY <1>9 DEF w

\* pop_back takes away one occurrence of the sample it drops.
LEMMA OccurrencesPop ==
  ASSUME NEW v \in Seq(Measurement), v # <<>>, NEW m
  PROVE  Occurrences(SubSeq(v, 1, Len(v) - 1), m)
           = Occurrences(v, m) - (IF Same(v[Len(v)], m) THEN 1 ELSE 0)
<1> DEFINE w == SubSeq(v, 1, Len(v) - 1)
           A == {i \in DOMAIN v : Same(v[i], m)}
           B == {i \in DOMAIN w : Same(w[i], m)}
<1>1. /\ Len(v) \in Nat \ {0} /\ DOMAIN w = 1 .. Len(v) - 1
      /\ \A i \in 1 .. Len(v) - 1 : w[i] = v[i]
  OBVIOUS
<1> HIDE DEF w
<1>2. B = A \ {Len(v)}
  BY <1>1
<1>3. IsFiniteSet(A) /\ Cardinality(A) \in Nat
  BY OccurrencesType DEF Occurrences
<1>4. Cardinality(B) = IF Len(v) \in A THEN Cardinality(A) - 1 ELSE Cardinality(A)
  BY <1>2, <1>3, FS_RemoveElement
<1>5. Len(v) \in A <=> Same(v[Len(v)], m)
  BY <1>1
<1>6. Occurrences(v, m) = Cardinality(A) /\ Occurrences(w, m) = Cardinality(B)
  BY DEF Occurrences
<1> HIDE DEF A, B
<1>7. Occurrences(w, m)
        = Occurrences(v, m) - (IF Same(v[Len(v)], m) THEN 1 ELSE 0)
  BY <1>3, <1>4, <1>5, <1>6
<1>8. QED BY <1>7 DEF w
--------------------------------------------------------------------------
\* std::max_element returns an element, and one no element exceeds unless it
\* starts from a sample that is no number.
LEMMA MaxElementPeak ==
  ASSUME NEW v \in Seq(Measurement), v # <<>>
  PROVE  /\ MaxElement(v) = NaN <=> v[1] = NaN
         /\ MaxElement(v) \in Nat \cup {NaN}
         /\ MaxElement(v) # NaN => MaxElement(v) \in Numbers(v) /\ IsPeak(MaxElement(v), v)
<1> DEFINE n == Len(v)
           P == {k \in Nat : k = 0 \/ \E i \in 1 .. k : \A j \in 1 .. k : v[j] <= v[i]}
<1>1. n \in Nat \ {0} /\ DOMAIN v = 1 .. n /\ \A i \in 1 .. n : v[i] \in Int /\ v[i] \in Measurement
  BY DEF Measurement, NaN
<1> HIDE DEF n
<1>2. \A k \in 0 .. n - 1 : k \in P => k + 1 \in P
  <2> SUFFICES ASSUME NEW k \in 0 .. n - 1, k \in P
               PROVE  \E i \in 1 .. k + 1 : \A j \in 1 .. k + 1 : v[j] <= v[i]
    OBVIOUS
  <2>1. CASE k = 0
    BY <1>1, <2>1
  <2>2. CASE k # 0
    <3>1. PICK i \in 1 .. k : \A j \in 1 .. k : v[j] <= v[i]
      BY <2>2
    <3>2. CASE v[k + 1] <= v[i]
      <4>1. \A j \in 1 .. k + 1 : j \in 1 .. k \/ j = k + 1
        OBVIOUS
      <4>2. \A j \in 1 .. k + 1 : v[j] <= v[i]
        BY <3>1, <3>2, <4>1
      <4>3. QED BY <4>2
    <3>3. CASE ~ (v[k + 1] <= v[i])
      <4>1. \A j \in 1 .. k + 1 : v[j] <= v[k + 1]
        BY <1>1, <3>1, <3>3
      <4>2. QED BY <4>1
    <3>4. QED BY <3>2, <3>3
  <2>3. QED BY <2>1, <2>2
<1>3. 0 .. n \subseteq P
  BY <1>1, <1>2, InductionUpTo
<1>4. PICK i \in 1 .. n : \A j \in 1 .. n : v[j] <= v[i]
  <2>1. n \in 0 .. n
    BY <1>1
  <2>2. n \in P
    BY <2>1, <1>3
  <2>3. QED BY <2>2, <1>1
<1> HIDE DEF P
<1> DEFINE M == {v[j] : j \in DOMAIN v}
           m == CHOOSE x \in M : \A j \in DOMAIN v : v[j] <= x
<1>5. m \in M /\ \A j \in DOMAIN v : v[j] <= m
  BY <1>1, <1>4
<1>7. MaxElement(v) = IF v[1] = NaN THEN NaN ELSE m
  BY DEF MaxElement
<1> HIDE DEF m
<1>8. m \in Measurement /\ v[1] \in Measurement /\ v[1] <= m
  BY <1>1, <1>5
<1>6. v[1] # NaN => m # NaN
  BY <1>8 DEF Measurement, NaN
<1>9. QED BY <1>5, <1>6, <1>7, <1>8 DEF Numbers, IsPeak, Measurement

\* Assigning fields of their types to a history leaves a history.
LEMMA HistoryFields ==
  ASSUME NEW S, NEW h \in HistoryOf(S), NEW v \in Seq(S), NEW p \in Nat \cup {NaN},
         NEW c \in Nat
  PROVE  [h EXCEPT !.values = v, !.max_value = p, !.max_count = c] \in HistoryOf(S)
BY DEF HistoryOf

\* A sound history stays sound when a measurement enters it.
LEMMA PushSound ==
  ASSUME NEW S \in SUBSET Measurement, NEW h \in HistoryOf(S), NEW m \in S, SoundHistory(h)
  PROVE  LET g == Push(h, m)
         IN  /\ g \in HistoryOf(S) /\ SoundHistory(g)
             /\ g.values = <<m>> \o h.values /\ g.waits_remaining = h.waits_remaining
             /\ g.max_value = NaN <=> h.max_value = NaN
<1> DEFINE g == Push(h, m)
           p == h.max_value
           v == h.values
           w == <<m>> \o v
<1>0. /\ v \in Seq(S) /\ p \in Nat \cup {NaN} /\ h.max_count \in Nat
      /\ m \in Measurement /\ h.waits_remaining \in Int
  BY DEF HistoryOf
<1>1. /\ v \in Seq(S) /\ v \in Seq(Measurement) /\ p \in Measurement /\ h.max_count \in Nat
      /\ m \in Measurement /\ h.waits_remaining \in Int
  BY <1>0, SeqMonotonic DEF Measurement
<1>2. /\ w \in Seq(S) /\ w \in Seq(Measurement) /\ w[1] = m
      /\ \A x : x \in Numbers(w) <=> x \in Numbers(v) \/ (x = m /\ m # NaN)
  <2>1. w \in Seq(S) /\ w \in Seq(Measurement) /\ w[1] = m /\ Len(w) = Len(v) + 1
    BY <1>1
  <2>2. /\ \A i \in 1 .. Len(v) : w[i + 1] = v[i]
        /\ \A i \in 1 .. Len(w) : i = 1 \/ (i - 1 \in 1 .. Len(v) /\ w[i] = v[i - 1])
    BY <1>1
  <2>3. \A i \in 1 .. Len(v) : i + 1 \in 1 .. Len(w)
    BY <1>1, <2>1
  <2>4. DOMAIN w = 1 .. Len(w) /\ DOMAIN v = 1 .. Len(v) /\ 1 \in 1 .. Len(w)
    BY <1>1, <2>1
  <2> HIDE DEF w, v
  <2>5. ASSUME NEW x, x \in Numbers(w) PROVE x \in Numbers(v) \/ (x = m /\ m # NaN)
    <3>1. PICK i \in 1 .. Len(w) : x = w[i] /\ x # NaN
      BY <2>4, <2>5 DEF Numbers
    <3>2. CASE i = 1
      BY <2>1, <3>1, <3>2
    <3>3. CASE i # 1
      <4>1. i - 1 \in 1 .. Len(v) /\ x = v[i - 1]
        BY <2>2, <3>1, <3>3
      <4>2. QED BY <2>4, <3>1, <4>1 DEF Numbers
    <3>4. QED BY <3>2, <3>3
  <2>6. ASSUME NEW x, x \in Numbers(v) \/ (x = m /\ m # NaN) PROVE x \in Numbers(w)
    <3>1. CASE x \in Numbers(v)
      <4>1. PICK i \in 1 .. Len(v) : x = v[i] /\ x # NaN
        BY <3>1, <2>4 DEF Numbers
      <4>2. QED BY <4>1, <2>2, <2>3, <2>4 DEF Numbers
    <3>2. QED BY <3>1, <2>6, <2>1, <2>4 DEF Numbers
  <2>7. QED BY <2>1, <2>5, <2>6
<1>3. /\ g.values = w /\ g.waits_remaining = h.waits_remaining
      /\ g.max_value = (IF Exceeds(m, p) THEN m ELSE p)
      /\ g.max_count = (IF Exceeds(m, p) THEN 1
                        ELSE IF Same(m, p) THEN h.max_count + 1 ELSE h.max_count)
      /\ g \in HistoryOf(S)
  <2>1. g.values = w /\ g.waits_remaining = h.waits_remaining
    BY DEF Push, HistoryOf
  <2>2. g.max_value = (IF Exceeds(m, p) THEN m ELSE p)
    BY DEF Push, HistoryOf
  <2>3. g.max_count = (IF Exceeds(m, p) THEN 1
                       ELSE IF Same(m, p) THEN h.max_count + 1 ELSE h.max_count)
    BY DEF Push, HistoryOf
  <2>4. g = [h EXCEPT !.values = g.values, !.max_value = g.max_value,
                      !.max_count = g.max_count]
    BY DEF Push, HistoryOf
  <2> HIDE DEF g, w, v, p
  <2>5. g.values \in Seq(S) /\ g.max_value \in Nat \cup {NaN} /\ g.max_count \in Nat
    BY <2>1, <2>2, <2>3, <1>1, <1>2 DEF Measurement
  <2>6. g \in HistoryOf(S)
    <3>1. \A a \in Seq(S), b \in Nat \cup {NaN}, c \in Nat :
            [h EXCEPT !.values = a, !.max_value = b, !.max_count = c] \in HistoryOf(S)
      BY HistoryFields
    <3>2. [h EXCEPT !.values = g.values, !.max_value = g.max_value,
                    !.max_count = g.max_count] \in HistoryOf(S)
      BY <2>5, <3>1
    <3>3. QED BY <2>4, <3>2, Zenon
  <2>7. QED BY <2>1, <2>2, <2>3, <2>6
<1>4. g.max_value = NaN <=> p = NaN
  BY <1>3 DEF Exceeds
<1>5. ASSUME p # NaN PROVE SoundHistory(g)
  <2>1. /\ IsPeak(p, v) /\ h.max_count = Occurrences(v, p)
        /\ Numbers(v) = {} => p = 0
    BY <1>5 DEF SoundHistory
  <2>2. Numbers(v) \subseteq Nat /\ p \in Nat
    BY <1>1, <1>5 DEF Numbers, Measurement
  <2>3. \A x : Occurrences(w, x) = Occurrences(v, x) + (IF Same(m, x) THEN 1 ELSE 0)
    BY <1>1, OccurrencesPush
  <2> HIDE DEF g, p, v, w
  <2>4. CASE Exceeds(m, p)
    <3>1. m \in Nat /\ m > p /\ m # NaN
      BY <1>1, <2>4 DEF Exceeds, Measurement
    <3>2. \A x \in Numbers(v) : x < m
      BY <2>1, <2>2, <3>1 DEF IsPeak
    <3>3. \A i \in DOMAIN v : ~ Same(v[i], m)
      BY <3>2, <3>1 DEF Same, Numbers
    <3>4. Occurrences(v, m) = 0
      BY <1>1, <3>3, OccurrencesType
    <3>5. Occurrences(w, m) = 1
      BY <2>3, <3>4, <3>1 DEF Same
    <3>6. IsPeak(m, w) /\ Numbers(w) # {}
      BY <1>2, <3>1, <3>2, <2>2 DEF IsPeak
    <3>7. QED BY <1>3, <2>4, <3>5, <3>6 DEF SoundHistory
  <2>5. CASE ~ Exceeds(m, p)
    <3>1. m = NaN \/ (m \in Nat /\ m <= p)
      BY <1>1, <1>5, <2>2, <2>5 DEF Exceeds, Measurement
    <3>2. Occurrences(v, p) \in Nat
      BY <1>1, OccurrencesType
    <3>3. g.max_count = Occurrences(w, p)
      BY <1>3, <2>1, <2>3, <2>5, <3>2
    <3>4. IsPeak(p, w)
      <4>1. \A x \in Numbers(w) : x <= p
        BY <1>2, <2>1, <3>1 DEF IsPeak
      <4>2. Numbers(w) # {} => p \in Numbers(w)
        <5>1. CASE Numbers(v) # {}
          BY <5>1, <2>1, <1>2 DEF IsPeak
        <5>2. CASE Numbers(v) = {}
          <6>1. ASSUME m # NaN PROVE m = p
            BY <5>2, <2>1, <3>1, <6>1
          <6>2. QED BY <5>2, <6>1, <1>2
        <5>3. QED BY <5>1, <5>2
      <4>3. QED BY <4>1, <4>2 DEF IsPeak
    <3>5. Numbers(w) = {} => p = 0
      BY <1>2, <2>1
    <3>6. QED BY <1>3, <2>5, <3>3, <3>4, <3>5 DEF SoundHistory
  <2>6. QED BY <2>4, <2>5
<1>6. QED BY <1>3, <1>4, <1>5 DEF SoundHistory

\* A sound history of at least two samples stays sound when its oldest one leaves:
\* a maximum that is still counted is still there.
LEMMA PopSound ==
  ASSUME NEW S \in SUBSET Measurement, NEW h \in HistoryOf(S), SoundHistory(h),
         Len(h.values) > 1
  PROVE  LET g == PopBack(h)
         IN  /\ g \in HistoryOf(S) /\ SoundHistory(g)
             /\ g.values = SubSeq(h.values, 1, Len(h.values) - 1)
             /\ g.waits_remaining = h.waits_remaining
             /\ h.max_value = NaN => g.max_value = NaN
             /\ g.max_value = NaN => h.max_value = NaN \/ g.values[1] = NaN
<1> DEFINE g == PopBack(h)
           p == h.max_value
           v == h.values
           last == v[Len(v)]
           w == SubSeq(v, 1, Len(v) - 1)
           left == IF Same(last, p) THEN h.max_count - 1 ELSE h.max_count
           recount == Same(last, p) /\ left < 1
<1>1. /\ v \in Seq(S) /\ p \in Nat \cup {NaN} /\ h.max_count \in Nat
      /\ h.waits_remaining \in Int /\ Len(v) > 1
  BY DEF HistoryOf
<1>2. v \in Seq(Measurement)
  BY <1>1, SeqMonotonic
<1>3. /\ w \in Seq(S) /\ w \in Seq(Measurement) /\ w # <<>>
      /\ Len(w) = Len(v) - 1 /\ \A i \in 1 .. Len(v) - 1 : w[i] = v[i]
      /\ Len(w) \in Nat \ {0} /\ DOMAIN w = 1 .. Len(w) /\ DOMAIN v = 1 .. Len(v)
  <2> HIDE DEF v, g
  <2>1. Len(v) \in Nat /\ 1 \in 1 .. Len(v) + 1 /\ Len(v) - 1 \in 1 .. Len(v)
    BY <1>1
  <2>2. w \in Seq(S) /\ w \in Seq(Measurement)
    BY <1>1, <1>2, <2>1
  <2>3. Len(w) = Len(v) - 1 /\ \A i \in 1 .. Len(v) - 1 : w[i] = v[i]
    BY <1>1, <2>1
  <2>4. DOMAIN w = 1 .. Len(w) /\ DOMAIN v = 1 .. Len(v)
    BY <1>1, <2>2
  <2> HIDE DEF w
  <2>5. QED BY <2>1, <2>2, <2>3, <2>4
<1>4. /\ MaxElement(w) = NaN => w[1] = NaN
      /\ MaxElement(w) \in Nat \cup {NaN}
      /\ MaxElement(w) # NaN => MaxElement(w) \in Numbers(w) /\ IsPeak(MaxElement(w), w)
  BY <1>3, MaxElementPeak
<1>5. \A x : Occurrences(w, x) \in Nat /\ Occurrences(v, x) \in Nat
  BY <1>2, <1>3, OccurrencesType
<1>6. Numbers(w) \subseteq Numbers(v)
  BY <1>3 DEF Numbers
<1>7. /\ g.values = w /\ g.waits_remaining = h.waits_remaining
      /\ g.max_value = (IF recount THEN MaxElement(w) ELSE p)
      /\ g.max_count = (IF recount THEN Occurrences(w, MaxElement(w)) ELSE left)
  <2>1. CASE recount
    <3>1. g = [h EXCEPT !.values = w, !.max_value = MaxElement(w),
                        !.max_count = Occurrences(w, MaxElement(w))]
      BY <2>1 DEF PopBack
    <3> HIDE DEF g, recount
    <3>2. QED BY <2>1, <3>1 DEF HistoryOf
  <2>2. CASE ~ recount
    <3>1. g = [h EXCEPT !.values = w, !.max_count = left]
      BY <2>2 DEF PopBack
    <3> HIDE DEF g, recount
    <3>2. QED BY <2>2, <3>1 DEF HistoryOf
  <2>3. QED BY <2>1, <2>2
<1>8. g = [h EXCEPT !.values = g.values, !.max_value = g.max_value,
                    !.max_count = g.max_count]
  <2>1. CASE recount
    BY <2>1 DEF PopBack, HistoryOf
  <2>2. CASE ~ recount
    BY <2>2 DEF PopBack, HistoryOf
  <2>3. QED BY <2>1, <2>2
<1> HIDE DEF g, w
<1>9. p # NaN => /\ IsPeak(p, v) /\ h.max_count = Occurrences(v, p)
                 /\ Numbers(v) = {} => p = 0
  BY DEF SoundHistory
<1> HIDE DEF p, v
<1>10. g \in HistoryOf(S)
  <2>1. ~ recount => left \in Nat
    BY <1>1
  <2>2. g.values \in Seq(S) /\ g.max_value \in Nat \cup {NaN} /\ g.max_count \in Nat
    BY <2>1, <1>3, <1>4, <1>5, <1>7, <1>1
  <2>3. \A a \in Seq(S), b \in Nat \cup {NaN}, c \in Nat :
          [h EXCEPT !.values = a, !.max_value = b, !.max_count = c] \in HistoryOf(S)
    BY HistoryFields
  <2>4. [h EXCEPT !.values = g.values, !.max_value = g.max_value,
                  !.max_count = g.max_count] \in HistoryOf(S)
    BY <2>2, <2>3
  <2>5. QED BY <1>8, <2>4, Zenon
<1>11. SoundHistory(g)
  <2> SUFFICES ASSUME g.max_value # NaN
               PROVE  /\ IsPeak(g.max_value, w)
                      /\ g.max_count = Occurrences(w, g.max_value)
                      /\ Numbers(w) = {} => g.max_value = 0
    BY <1>7 DEF SoundHistory
  <2>1. CASE recount
    BY <2>1, <1>4, <1>7
  <2>2. CASE ~ recount
    <3>1. p # NaN /\ p \in Nat /\ g.max_value = p /\ g.max_count = left
      BY <2>2, <1>1, <1>7
    <3>2. Occurrences(w, p) = Occurrences(v, p) - (IF Same(last, p) THEN 1 ELSE 0)
      <4>1. v # <<>>
        BY <1>1
      <4>2. QED BY <1>2, <4>1, OccurrencesPop DEF w
    <3>3. left = Occurrences(w, p)
      BY <3>1, <3>2, <1>1, <1>5, <1>9
    <3>4. ASSUME Numbers(v) # {} PROVE p \in Numbers(w)
      <4>1. p \in Numbers(v)
        BY <3>1, <3>4, <1>9 DEF IsPeak
      <4>2. Occurrences(v, p) # 0
        <5>1. \E i \in DOMAIN v : Same(v[i], p)
          BY <4>1 DEF Numbers, Same
        <5>2. QED BY <5>1, <1>2, OccurrencesType
      <4>3. Occurrences(w, p) # 0
        BY <3>1, <3>2, <3>3, <4>2, <2>2, <1>5
      <4>4. PICK i \in DOMAIN w : Same(w[i], p)
        BY <4>3, <1>3, OccurrencesType
      <4>5. QED BY <4>4, <3>1 DEF Numbers, Same
    <3>5. \A x \in Numbers(w) : x <= p
      BY <3>1, <1>6, <1>9 DEF IsPeak
    <3>6. IsPeak(p, w)
      BY <3>4, <3>5, <1>6 DEF IsPeak
    <3>7. Numbers(w) = {} => p = 0
      BY <3>1, <3>4, <1>9
    <3>8. QED BY <3>1, <3>3, <3>6, <3>7
  <2>3. QED BY <2>1, <2>2
<1>12. p = NaN => g.max_value = NaN
  BY <1>7 DEF Same
<1>13. g.max_value = NaN => p = NaN \/ g.values[1] = NaN
  BY <1>4, <1>7
<1>14. QED BY <1>7, <1>10, <1>11, <1>12, <1>13 DEF g, p, v, w

\* The trimming loop has a last round: the function Trim iterates exists.
LEMMA TrimIterates ==
  ASSUME NEW h, NEW n \in Nat, Len(h.values) \in Nat
  PROVE  LET e == IF Len(h.values) > n THEN Len(h.values) - n ELSE 0
         IN  \E f : /\ f = [k \in 0 .. e |-> IF k = 0 THEN h ELSE PopBack(f[k - 1])]
                    /\ Trim(h, n) = f[e]
<1> DEFINE e == IF Len(h.values) > n THEN Len(h.values) - n ELSE 0
           Is(f, j) == f = [k \in 0 .. j |-> IF k = 0 THEN h ELSE PopBack(f[k - 1])]
           P == {j \in Nat : \E f : Is(f, j)}
<1>1. e \in Nat
  OBVIOUS
<1>2. 0 \in P
  <2>1. Is([k \in 0 .. 0 |-> h], 0)
    OBVIOUS
  <2>2. QED BY <2>1
<1>3. \A j \in 0 .. e - 1 : j \in P => j + 1 \in P
  <2> HIDE DEF e, Is
  <2> SUFFICES ASSUME NEW j \in 0 .. e - 1, NEW f, Is(f, j)
               PROVE  \E g : Is(g, j + 1)
    BY <1>1
  <2> DEFINE g == [k \in 0 .. j + 1 |-> IF k <= j THEN f[k] ELSE PopBack(f[j])]
  <2>1. j \in Nat
    BY <1>1
  <2>2. \A k \in 0 .. j + 1 : g[k] = IF k = 0 THEN h ELSE PopBack(g[k - 1])
    <3>1. \A k \in 0 .. j : f[k] = IF k = 0 THEN h ELSE PopBack(f[k - 1])
      BY DEF Is
    <3>2. SUFFICES ASSUME NEW k \in 0 .. j + 1
                   PROVE  g[k] = IF k = 0 THEN h ELSE PopBack(g[k - 1])
      OBVIOUS
    <3>3. CASE k = 0
      BY <2>1, <3>1, <3>3
    <3>4. CASE k # 0 /\ k <= j
      <4>1. g[k] = f[k] /\ g[k - 1] = f[k - 1] /\ k \in 0 .. j
        BY <2>1, <3>4
      <4>2. QED BY <3>1, <3>4, <4>1
    <3>5. CASE k = j + 1
      <4>1. g[k] = PopBack(f[j]) /\ g[k - 1] = f[j] /\ k # 0
        BY <2>1, <3>5
      <4>2. QED BY <4>1
    <3>6. QED BY <2>1, <3>3, <3>4, <3>5
  <2>3. Is(g, j + 1)
    <3>1. g = [k \in 0 .. j + 1 |-> g[k]]
      OBVIOUS
    <3> HIDE DEF g
    <3>2. QED BY <2>2, <3>1 DEF Is
  <2>4. QED BY <2>3
<1>4. PICK f : Is(f, e)
  <2> HIDE DEF e, P
  <2>1. 0 .. e \subseteq P
    BY <1>1, <1>2, <1>3, InductionUpTo
  <2>2. e \in 0 .. e
    BY <1>1
  <2>3. QED BY <2>1, <2>2 DEF P
<1> DEFINE F == CHOOSE f_1 : Is(f_1, e)
<1>5. Is(F, e)
  BY <1>4
<1>6. Trim(h, n) = F[e]
  BY DEF Trim
<1>7. QED BY <1>5, <1>6

\* Trimming a sound history keeps the newest samples and the soundness.  The
\* maximum becomes NaN only if the newest sample is.
LEMMA TrimSound ==
  ASSUME NEW S \in SUBSET Measurement, NEW h \in HistoryOf(S), NEW n \in Nat \ {0},
         SoundHistory(h)
  PROVE  LET g == Trim(h, n)
         IN  /\ g \in HistoryOf(S) /\ SoundHistory(g)
             /\ g.values = SubSeq(h.values, 1,
                                  IF Len(h.values) > n THEN n ELSE Len(h.values))
             /\ g.waits_remaining = h.waits_remaining
             /\ h.max_value = NaN => g.max_value = NaN
             /\ g.max_value = NaN
                  => h.max_value = NaN \/ (g.values # <<>> /\ g.values[1] = NaN)
<1> DEFINE v == h.values
           e == IF Len(v) > n THEN Len(v) - n ELSE 0
           Fits(g, k) ==
             /\ g \in HistoryOf(S) /\ SoundHistory(g)
             /\ g.values = SubSeq(v, 1, Len(v) - k)
             /\ g.waits_remaining = h.waits_remaining
             /\ h.max_value = NaN => g.max_value = NaN
             /\ g.max_value = NaN => h.max_value = NaN \/ (v # <<>> /\ v[1] = NaN)
<1>1. v \in Seq(S) /\ Len(v) \in Nat /\ e \in Nat
  <2>1. v \in Seq(S)
    BY DEF HistoryOf
  <2>2. QED BY <2>1
<1>2. PICK f : /\ f = [k \in 0 .. e |-> IF k = 0 THEN h ELSE PopBack(f[k - 1])]
               /\ Trim(h, n) = f[e]
  BY <1>1, TrimIterates
<1>3. f[0] = h /\ \A k \in 0 .. e - 1 : f[k + 1] = PopBack(f[k])
  <2> HIDE DEF e
  <2>1. 0 \in 0 .. e /\ \A k \in 0 .. e - 1 : k + 1 \in 0 .. e /\ k + 1 # 0 /\ (k + 1) - 1 = k
    BY <1>1
  <2>2. \A k \in 0 .. e : f[k] = IF k = 0 THEN h ELSE PopBack(f[k - 1])
    BY <1>2
  <2>3. QED BY <2>1, <2>2
<1> DEFINE P == {k \in 0 .. e : Fits(f[k], k)}
<1>4. 0 \in P
  <2>1. SubSeq(v, 1, Len(v) - 0) = v
    BY <1>1
  <2>2. QED BY <2>1, <1>1, <1>3
<1>5. \A k \in 0 .. e - 1 : k \in P => k + 1 \in P
  <2> HIDE DEF Fits, e
  <2> SUFFICES ASSUME NEW k \in 0 .. e - 1, Fits(f[k], k)
               PROVE  Fits(PopBack(f[k]), k + 1) /\ k + 1 \in 0 .. e
    BY <1>3
  <2> USE DEF Fits, e
  <2>1. e = Len(v) - n /\ k \in Nat /\ Len(v) - k > n /\ Len(v) - k \in Nat /\ k + 1 \in 0 .. e
    BY <1>1
  <2> DEFINE q == f[k]
             u == q.values
             g == PopBack(q)
  <2> HIDE DEF e, v, q
  <2>2. /\ q \in HistoryOf(S) /\ SoundHistory(q) /\ u = SubSeq(v, 1, Len(v) - k)
        /\ q.waits_remaining = h.waits_remaining
        /\ h.max_value = NaN => q.max_value = NaN
        /\ q.max_value = NaN => h.max_value = NaN \/ (v # <<>> /\ v[1] = NaN)
    BY DEF q
  <2>3. Len(u) = Len(v) - k /\ Len(u) > 1
    BY <1>1, <2>1, <2>2
  <2>4. /\ g \in HistoryOf(S) /\ SoundHistory(g)
        /\ g.values = SubSeq(u, 1, Len(u) - 1)
        /\ g.waits_remaining = q.waits_remaining
        /\ q.max_value = NaN => g.max_value = NaN
        /\ g.max_value = NaN => q.max_value = NaN \/ g.values[1] = NaN
    BY <2>2, <2>3, PopSound
  <2>5. SubSeq(u, 1, Len(u) - 1) = SubSeq(v, 1, Len(v) - (k + 1))
    BY <1>1, <2>1, <2>2, <2>3
  <2>6. SubSeq(v, 1, Len(v) - (k + 1))[1] = v[1] /\ v # <<>>
    BY <1>1, <2>1
  <2> HIDE DEF u, g
  <2>7. Fits(g, k + 1)
    BY <2>2, <2>4, <2>5, <2>6
  <2>8. QED BY <2>1, <2>7 DEF g, q
<1>6. Fits(f[e], e)
  <2> HIDE DEF P
  <2>1. 0 .. e \subseteq P
    BY <1>1, <1>4, <1>5, InductionUpTo
  <2>2. e \in 0 .. e
    BY <1>1
  <2>3. QED BY <2>1, <2>2 DEF P
<1>7. /\ Len(v) - e = IF Len(v) > n THEN n ELSE Len(v)
      /\ v # <<>> /\ v[1] = NaN => f[e].values # <<>> /\ f[e].values[1] = NaN
  <2>1. Len(v) - e = IF Len(v) > n THEN n ELSE Len(v)
    BY <1>1
  <2>2. CASE Len(v) = 0
    <3>1. v = <<>>
      BY <2>2, <1>1
    <3>2. QED BY <2>1, <3>1
  <2>3. CASE Len(v) # 0
    <3> HIDE DEF e, v
    <3>1. Len(v) - e \in 1 .. Len(v)
      BY <1>1, <2>1, <2>3
    <3>2. SubSeq(v, 1, Len(v) - e)[1] = v[1] /\ Len(SubSeq(v, 1, Len(v) - e)) > 0
      BY <1>1, <3>1
    <3>3. SubSeq(v, 1, Len(v) - e) # <<>>
      <4> DEFINE u == SubSeq(v, 1, Len(v) - e)
      <4> SUFFICES ASSUME u = <<>> PROVE FALSE
        OBVIOUS
      <4>1. Len(u) > 0
        BY <3>2
      <4> HIDE DEF u
      <4>2. Len(<<>>) = 0
        OBVIOUS
      <4>3. QED BY <4>1, <4>2
    <3>4. QED BY <2>1, <3>2, <3>3, <1>6
  <2>4. QED BY <2>2, <2>3
<1>8. QED
  <2> HIDE DEF v, e
  <2>1. Len(v) - e = IF Len(v) > n THEN n ELSE Len(v)
    BY <1>7
  <2>2. QED BY <1>2, <1>6, <1>7, <2>1 DEF v

\* A new history is sound.
LEMMA NewHistorySound ==
  ASSUME NEW S PROVE NewHistory \in HistoryOf(S) /\ SoundHistory(NewHistory)
<1>1. /\ NewHistory \in HistoryOf(S) /\ NewHistory.values = <<>>
      /\ NewHistory.max_value = 0 /\ NewHistory.max_count = 0
  BY DEF NewHistory, HistoryOf
<1>2. Numbers(<<>>) = {} /\ {i \in DOMAIN <<>> : Same(<<>>[i], 0)} = {}
  BY DEF Numbers
<1>3. Occurrences(<<>>, 0) = 0
  BY <1>2, FS_EmptySet DEF Occurrences
<1>4. QED BY <1>1, <1>2, <1>3 DEF SoundHistory, IsPeak

\* What a history is after an update: sound, and its window the newest samples.
GoodUpdate(S, h, wait, n, m) ==
  LET g == Update(h, wait, n, m)
      w == IF Due(h) THEN <<m>> \o h.values ELSE h.values
  IN  /\ g \in HistoryOf(S) /\ SoundHistory(g)
      /\ g.values = SubSeq(w, 1, IF Len(w) > n THEN n ELSE Len(w))
      /\ g.waits_remaining = IF Due(h) THEN wait ELSE h.waits_remaining - 1
      /\ h.max_value = NaN => g.max_value = NaN
      /\ g.max_value = NaN
           => h.max_value = NaN \/ (g.values # <<>> /\ g.values[1] = NaN)

\* An update is a push when one is due, then a trim.
LEMMA UpdateSound ==
  ASSUME NEW S \in SUBSET Measurement, NEW h \in HistoryOf(S), SoundHistory(h),
         NEW wait \in Int, NEW n \in Nat \ {0}, NEW m \in S
  PROVE  GoodUpdate(S, h, wait, n, m)
<1> DEFINE w == IF Due(h) THEN <<m>> \o h.values ELSE h.values
           r == IF Due(h) THEN wait ELSE h.waits_remaining - 1
           q == IF Due(h) THEN [Push(h, m) EXCEPT !.waits_remaining = wait]
                ELSE [h EXCEPT !.waits_remaining = @ - 1]
<1>1. /\ q \in HistoryOf(S) /\ SoundHistory(q)
      /\ q.values = w /\ q.waits_remaining = r
      /\ q.max_value = NaN <=> h.max_value = NaN
  <2>1. CASE Due(h)
    <3>1. /\ Push(h, m) \in HistoryOf(S) /\ SoundHistory(Push(h, m))
          /\ Push(h, m).values = <<m>> \o h.values
          /\ Push(h, m).max_value = NaN <=> h.max_value = NaN
      BY PushSound
    <3>2. q = [Push(h, m) EXCEPT !.waits_remaining = wait]
      BY <2>1
    <3> DEFINE g == Push(h, m)
    <3> HIDE DEF g
    <3>3. q \in HistoryOf(S) /\ q.values = g.values
          /\ q.waits_remaining = wait /\ q.max_value = g.max_value
          /\ q.max_count = g.max_count
      BY <3>1, <3>2 DEF HistoryOf, g
    <3> HIDE DEF q
    <3>4. SoundHistory(q)
      BY <3>1, <3>3 DEF SoundHistory, g
    <3>5. QED BY <2>1, <3>1, <3>3, <3>4 DEF g
  <2>2. CASE ~ Due(h)
    <3>1. q = [h EXCEPT !.waits_remaining = @ - 1]
      BY <2>2
    <3>2. q \in HistoryOf(S) /\ q.values = h.values
          /\ q.waits_remaining = h.waits_remaining - 1 /\ q.max_value = h.max_value
          /\ q.max_count = h.max_count
      BY <3>1 DEF HistoryOf
    <3> HIDE DEF q
    <3>3. SoundHistory(q)
      BY <3>2 DEF SoundHistory
    <3>4. QED BY <2>2, <3>2, <3>3
  <2>3. QED BY <2>1, <2>2
<1> HIDE DEF q, w, r
<1>2. Update(h, wait, n, m) = Trim(q, n)
  BY DEF Update, q
<1> DEFINE g == Trim(q, n)
<1>3. /\ g \in HistoryOf(S) /\ SoundHistory(g)
      /\ g.values = SubSeq(w, 1, IF Len(w) > n THEN n ELSE Len(w))
      /\ g.waits_remaining = r
      /\ q.max_value = NaN => g.max_value = NaN
      /\ g.max_value = NaN
           => q.max_value = NaN \/ (g.values # <<>> /\ g.values[1] = NaN)
  BY <1>1, TrimSound
<1> HIDE DEF g
<1>4. QED
  BY <1>1, <1>2, <1>3 DEF g, w, r, GoodUpdate
==========================================================================
