---------------------------- MODULE QueueLemmas ----------------------------
(***************************************************************************)
(* What the operators on sequences that model the lists of the libraries   *)
(* return: joined, turned over, filtered, with one place taken out, and    *)
(* flattened.  (The library's theorems about sequences do not treat        *)
(* Reverse, RemoveAt, FlattenSeq and Select.)                              *)
(***************************************************************************)
EXTENDS Selection, SequencesExt, SequenceTheorems, FiniteSetTheorems, WellFoundedInduction, TLAPS

(* What is in a sequence.                                                  *)

\* The elements of a sequence are those at its places.
LEMMA RangeIs ==
  ASSUME NEW S, NEW s \in Seq(S)
  PROVE  /\ \A x : x \in Range(s) <=> \E i \in 1 .. Len(s) : s[i] = x
         /\ Range(s) \subseteq S /\ Len(s) \in Nat /\ DOMAIN s = 1 .. Len(s)
         /\ s = <<>> <=> Len(s) = 0
<1>1. Len(s) \in Nat /\ DOMAIN s = 1 .. Len(s) /\ \A i \in 1 .. Len(s) : s[i] \in S
      BY LenProperties
<1>. QED BY <1>1 DEF Range

\* Two sequences joined hold the elements of both, none twice if they share none.
LEMMA ConcatIs ==
  ASSUME NEW S, NEW s \in Seq(S), NEW t \in Seq(S)
  PROVE  /\ s \o t \in Seq(S)
         /\ Range(s \o t) = Range(s) \cup Range(t)
         /\ IsInjective(s) /\ IsInjective(t) /\ Range(s) \cap Range(t) = {} => IsInjective(s \o t)
<1>1. /\ s \o t \in Seq(S) /\ Len(s \o t) = Len(s) + Len(t)
      /\ Len(s) \in Nat /\ Len(t) \in Nat
      /\ DOMAIN s = 1 .. Len(s) /\ DOMAIN t = 1 .. Len(t) /\ DOMAIN (s \o t) = 1 .. Len(s) + Len(t)
      /\ \A i \in 1 .. Len(s) + Len(t) : (s \o t)[i] = IF i <= Len(s) THEN s[i] ELSE t[i - Len(s)]
      BY ConcatProperties, LenProperties
<1>2. Range(s \o t) = Range(s) \cup Range(t)
      BY RangeConcatenation
<1>3. ASSUME IsInjective(s), IsInjective(t), Range(s) \cap Range(t) = {},
             NEW i \in 1 .. Len(s) + Len(t), NEW j \in 1 .. Len(s) + Len(t), (s \o t)[i] = (s \o t)[j]
      PROVE  i = j
  <2>1. \A k \in 1 .. Len(s) + Len(t) : k <= Len(s) => k \in DOMAIN s /\ (s \o t)[k] = s[k]
        BY <1>1
  <2>2. \A k \in 1 .. Len(s) + Len(t) :
          ~(k <= Len(s)) => k - Len(s) \in DOMAIN t /\ (s \o t)[k] = t[k - Len(s)]
        BY <1>1
  <2>3. CASE i <= Len(s) /\ j <= Len(s)
        BY <1>3, <2>1, <2>3 DEF IsInjective
  <2>4. CASE ~(i <= Len(s)) /\ ~(j <= Len(s))
    <3>1. i - Len(s) = j - Len(s)
          BY <1>3, <2>2, <2>4 DEF IsInjective
    <3>. QED BY <1>1, <3>1
  <2>5. CASE i <= Len(s) /\ ~(j <= Len(s))
    <3>1. s[i] \in Range(s) /\ t[j - Len(s)] \in Range(t) /\ s[i] = t[j - Len(s)]
          BY <1>3, <2>1, <2>2, <2>5 DEF Range
    <3>. QED BY <1>3, <3>1
  <2>6. CASE ~(i <= Len(s)) /\ j <= Len(s)
    <3>1. s[j] \in Range(s) /\ t[i - Len(s)] \in Range(t) /\ s[j] = t[i - Len(s)]
          BY <1>3, <2>1, <2>2, <2>6 DEF Range
    <3>. QED BY <1>3, <3>1
  <2>. QED BY <2>3, <2>4, <2>5, <2>6
<1>4. IsInjective(s) /\ IsInjective(t) /\ Range(s) \cap Range(t) = {} => IsInjective(s \o t)
      BY <1>1, <1>3 DEF IsInjective
<1>. QED BY <1>1, <1>2, <1>4

\* A sequence of one element.
LEMMA OneIs ==
  ASSUME NEW S, NEW x \in S
  PROVE  <<x>> \in Seq(S) /\ Range(<<x>>) = {x} /\ IsInjective(<<x>>) /\ Len(<<x>>) = 1 /\ <<x>>[1] = x
<1>1. <<x>> \in Seq(S) /\ Len(<<x>>) = 1 /\ <<x>>[1] = x /\ DOMAIN <<x>> = {1}
      OBVIOUS
<1>. QED BY <1>1 DEF Range, IsInjective

\* A sequence of none.
LEMMA EmptyIs ==
  <<>> \in Seq({}) /\ Range(<<>>) = {} /\ IsInjective(<<>>) /\ Len(<<>>) = 0 /\ DOMAIN <<>> = {}
<1>1. DOMAIN <<>> = {} /\ Len(<<>>) = 0 /\ <<>> \in Seq({})
      OBVIOUS
<1>. QED BY <1>1 DEF Range, IsInjective

\* One more element at the end.
LEMMA AppendIs ==
  ASSUME NEW S, NEW s \in Seq(S), NEW x \in S
  PROVE  /\ Append(s, x) \in Seq(S) /\ Range(Append(s, x)) = Range(s) \cup {x}
         /\ Len(Append(s, x)) = Len(s) + 1
         /\ \A i \in 1 .. Len(s) + 1 : Append(s, x)[i] = IF i <= Len(s) THEN s[i] ELSE x
         /\ IsInjective(s) /\ x \notin Range(s) => IsInjective(Append(s, x))
<1>1. Append(s, x) = s \o <<x>> /\ Append(s, x) \in Seq(S) /\ Len(Append(s, x)) = Len(s) + 1
      BY AppendIsConcat, AppendProperties
<1>2. <<x>> \in Seq(S) /\ Range(<<x>>) = {x} /\ IsInjective(<<x>>)
      BY OneIs
<1>3. x \notin Range(s) => Range(s) \cap Range(<<x>>) = {}
      BY <1>2
<1>4. Len(s) \in Nat /\ (\A i \in 1 .. Len(s) : Append(s, x)[i] = s[i]) /\ Append(s, x)[Len(s) + 1] = x
      BY AppendProperties, LenProperties
<1>5. \A i \in 1 .. Len(s) + 1 : Append(s, x)[i] = IF i <= Len(s) THEN s[i] ELSE x
      BY <1>4
<1>6. /\ Range(s \o <<x>>) = Range(s) \cup {x}
      /\ IsInjective(s) /\ x \notin Range(s) => IsInjective(s \o <<x>>)
  <2>1. /\ Range(s \o <<x>>) = Range(s) \cup Range(<<x>>)
        /\ IsInjective(s) /\ IsInjective(<<x>>) /\ Range(s) \cap Range(<<x>>) = {} => IsInjective(s \o <<x>>)
        BY <1>2, ConcatIs
  <2>. QED BY <1>2, <1>3, <2>1
<1>. QED BY <1>1, <1>5, <1>6

\* A sequence is its head and then its tail.
LEMMA HeadTailIs ==
  ASSUME NEW S, NEW s \in Seq(S), s # <<>>
  PROVE  /\ Head(s) \in S /\ Head(s) = s[1] /\ 1 \in DOMAIN s /\ Len(s) \in Nat \ {0}
         /\ Tail(s) \in Seq(S) /\ Len(Tail(s)) = Len(s) - 1 /\ DOMAIN Tail(s) = 1 .. Len(s) - 1
         /\ \A i \in 1 .. Len(s) - 1 : Tail(s)[i] = s[i + 1]
         /\ Range(s) = {Head(s)} \cup Range(Tail(s))
         /\ IsInjective(s) => IsInjective(Tail(s)) /\ Head(s) \notin Range(Tail(s))
<1>1. /\ Head(s) \in S /\ Head(s) = s[1] /\ Len(s) \in Nat \ {0} /\ Tail(s) \in Seq(S)
      /\ Len(Tail(s)) = Len(s) - 1 /\ DOMAIN Tail(s) = 1 .. Len(s) - 1 /\ DOMAIN s = 1 .. Len(s)
      /\ \A i \in 1 .. Len(s) - 1 : Tail(s)[i] = s[i + 1]
  <2>1. Head(s) = s[1]
        OBVIOUS
  <2>2. Len(s) \in Nat \ {0}
        BY EmptySeq
  <2>. QED BY <2>1, <2>2, HeadTailProperties, LenProperties
<1>2. 1 \in DOMAIN s
      BY <1>1
<1>3. Range(s) = {Head(s)} \cup Range(Tail(s))
  <2>1. \A i \in 1 .. Len(s) : i = 1 \/ (i - 1 \in 1 .. Len(s) - 1 /\ (i - 1) + 1 = i)
        BY <1>1
  <2>2. \A i \in 1 .. Len(s) - 1 : i + 1 \in 1 .. Len(s)
        BY <1>1
  <2>3. \A x : x \in Range(s) <=> \E i \in 1 .. Len(s) : s[i] = x
        BY RangeIs
  <2>4. \A x : x \in Range(Tail(s)) <=> \E i \in 1 .. Len(s) - 1 : Tail(s)[i] = x
        BY <1>1 DEF Range
  <2>5. \A x \in Range(s) : x = Head(s) \/ x \in Range(Tail(s))
    <3> SUFFICES ASSUME NEW i \in 1 .. Len(s), i # 1 PROVE s[i] \in Range(Tail(s))
        BY <1>1, <2>3
    <3>1. i - 1 \in 1 .. Len(s) - 1 /\ (i - 1) + 1 = i
          BY <2>1
    <3>2. Tail(s)[i - 1] = s[i]
          BY <1>1, <3>1
    <3>. QED BY <2>4, <3>1, <3>2
  <2>6. \A x \in Range(Tail(s)) : x \in Range(s)
        BY <1>1, <2>2, <2>3, <2>4
  <2>7. Head(s) \in Range(s)
        BY <1>1, <1>2, <2>3
  <2>. QED BY <2>5, <2>6, <2>7
<1>4. ASSUME IsInjective(s) PROVE IsInjective(Tail(s)) /\ Head(s) \notin Range(Tail(s))
  <2>1. \A i \in 1 .. Len(s) - 1 : i + 1 \in 1 .. Len(s) /\ i + 1 # 1
        BY <1>1
  <2>2. \A i, j \in 1 .. Len(s) - 1 : i + 1 = j + 1 => i = j
        BY <1>1
  <2>3. \A i, j \in 1 .. Len(s) - 1 : s[i + 1] = s[j + 1] => i + 1 = j + 1
        BY <1>1, <1>4, <2>1 DEF IsInjective
  <2>4. \A i \in 1 .. Len(s) - 1 : s[i + 1] # s[1]
        BY <1>1, <1>2, <1>4, <2>1 DEF IsInjective
  <2>. QED BY <1>1, <2>2, <2>3, <2>4 DEF IsInjective, Range
<1>. QED BY <1>1, <1>2, <1>3, <1>4

\* One place taken out of a sequence: those behind it move up.
LEMMA RemoveAtIs ==
  ASSUME NEW S, NEW s \in Seq(S), NEW i \in DOMAIN s
  PROVE  /\ RemoveAt(s, i) \in Seq(S) /\ Len(RemoveAt(s, i)) = Len(s) - 1
         /\ DOMAIN RemoveAt(s, i) = 1 .. Len(s) - 1
         /\ \A j \in 1 .. Len(s) - 1 : RemoveAt(s, i)[j] = IF j < i THEN s[j] ELSE s[j + 1]
<1>1. Len(s) \in Nat /\ i \in 1 .. Len(s) /\ \A j \in 1 .. Len(s) : s[j] \in S
      BY LenProperties
<1>. DEFINE u == SubSeq(s, 1, i - 1)
            v == SubSeq(s, i + 1, Len(s))
<1>2. i - 1 \in Nat /\ i + 1 \in Int /\ i - 1 \in Int
      BY <1>1
<1>3. u \in Seq(S) /\ Len(u) = i - 1 /\ \A j \in 1 .. i - 1 : u[j] = s[j]
      BY <1>1, <1>2
<1>4. v \in Seq(S) /\ Len(v) = Len(s) - i /\ \A j \in 1 .. Len(s) - i : v[j] = s[i + j]
      BY <1>1, <1>2
<1>. HIDE DEF u, v
<1>5. /\ u \o v \in Seq(S) /\ Len(u \o v) = Len(s) - 1
      /\ \A j \in 1 .. Len(s) - 1 : (u \o v)[j] = IF j <= i - 1 THEN u[j] ELSE v[j - (i - 1)]
  <2>1. Len(u) + Len(v) = Len(s) - 1
        BY <1>1, <1>3, <1>4
  <2>2. /\ u \o v \in Seq(S) /\ Len(u \o v) = Len(u) + Len(v)
        /\ \A j \in 1 .. Len(u) + Len(v) : (u \o v)[j] = IF j <= Len(u) THEN u[j] ELSE v[j - Len(u)]
        BY <1>3, <1>4, ConcatProperties
  <2>. QED BY <1>3, <2>1, <2>2
<1>6. ASSUME NEW j \in 1 .. Len(s) - 1 PROVE (u \o v)[j] = IF j < i THEN s[j] ELSE s[j + 1]
  <2>1. CASE j < i
    <3>1. j <= i - 1 /\ j \in 1 .. i - 1
          BY <1>1, <2>1
    <3>. QED BY <1>3, <1>5, <2>1, <3>1
  <2>2. CASE ~(j < i)
    <3>1. ~(j <= i - 1) /\ j - (i - 1) \in 1 .. Len(s) - i /\ i + (j - (i - 1)) = j + 1
          BY <1>1, <2>2
    <3>. QED BY <1>4, <1>5, <2>2, <3>1
  <2>. QED BY <2>1, <2>2
<1>7. DOMAIN (u \o v) = 1 .. Len(s) - 1
      BY <1>5, LenProperties
<1>. QED BY <1>5, <1>6, <1>7 DEF RemoveAt, u, v

\* Without the place i the other elements remain, and if none was twice in s
\* the one at i is gone.
LEMMA RemoveAtRange ==
  ASSUME NEW S, NEW s \in Seq(S), NEW i \in DOMAIN s
  PROVE  /\ Range(RemoveAt(s, i)) \subseteq Range(s)
         /\ Range(s) = {s[i]} \cup Range(RemoveAt(s, i))
         /\ IsInjective(s) => IsInjective(RemoveAt(s, i)) /\ s[i] \notin Range(RemoveAt(s, i))
<1>1. Len(s) \in Nat /\ DOMAIN s = 1 .. Len(s) /\ i \in 1 .. Len(s)
      BY LenProperties
<1>. DEFINE from(j) == IF j < i THEN j ELSE j + 1
<1>2. \A j \in 1 .. Len(s) - 1 : from(j) \in 1 .. Len(s) /\ from(j) # i
      BY <1>1
<1>3. \A j, k \in 1 .. Len(s) - 1 : from(j) = from(k) => j = k
      BY <1>1
<1>4. ASSUME NEW k \in 1 .. Len(s), k # i PROVE \E j \in 1 .. Len(s) - 1 : from(j) = k
  <2>1. CASE k < i
        BY <1>1, <2>1
  <2>2. CASE k > i
    <3>1. k - 1 \in 1 .. Len(s) - 1 /\ from(k - 1) = k
          BY <1>1, <2>2
    <3>. QED BY <3>1
  <2>. QED BY <1>1, <1>4, <2>1, <2>2
<1>5. DOMAIN RemoveAt(s, i) = 1 .. Len(s) - 1 /\ \A j \in 1 .. Len(s) - 1 : RemoveAt(s, i)[j] = s[from(j)]
      BY RemoveAtIs
<1>. HIDE DEF from
<1>6. Range(s) = {s[i]} \cup Range(RemoveAt(s, i))
  <2>1. \A x : x \in Range(s) <=> \E k \in 1 .. Len(s) : s[k] = x
        BY <1>1 DEF Range
  <2>2. \A x : x \in Range(RemoveAt(s, i)) <=> \E j \in 1 .. Len(s) - 1 : s[from(j)] = x
        BY <1>5 DEF Range
  <2>3. \A x \in Range(s) : x = s[i] \/ x \in Range(RemoveAt(s, i))
        BY <1>4, <2>1, <2>2
  <2>4. \A x \in Range(RemoveAt(s, i)) : x \in Range(s)
        BY <1>2, <2>1, <2>2
  <2>5. s[i] \in Range(s)
        BY <1>1, <2>1
  <2>. QED BY <2>3, <2>4, <2>5
<1>7. IsInjective(s) => IsInjective(RemoveAt(s, i)) /\ s[i] \notin Range(RemoveAt(s, i))
      BY <1>1, <1>2, <1>3, <1>5 DEF Range, IsInjective
<1>. QED BY <1>6, <1>7

-----------------------------------------------------------------------------
(* The numbers up to one of a set, which Nth enumerates.                   *)

\* How many numbers of K there are up to i.
UpTo(K, i) == {k \in K : k <= i}
Rank(K, i) == Cardinality(UpTo(K, i))

\* The numbers of a finite set have the ranks 1, 2, ..., in their order.
LEMMA Ranks ==
  ASSUME NEW n \in Nat, NEW K \in SUBSET (1 .. n)
  PROVE  /\ IsFiniteSet(K) /\ Cardinality(K) \in Nat
         /\ \A i \in K : Rank(K, i) \in 1 .. Cardinality(K)
         /\ \A i, k \in K : i < k => Rank(K, i) < Rank(K, k)
         /\ \A j \in 1 .. Cardinality(K) : \E i \in K : Rank(K, i) = j
<1>1. IsFiniteSet(K) /\ Cardinality(K) \in Nat
  <2>1. IsFiniteSet(1 .. n)
        BY FS_Interval
  <2>2. IsFiniteSet(K)
        BY <2>1, FS_Subset
  <2>. QED BY <2>2, FS_CardinalityType
<1>2. ASSUME NEW i \in K
      PROVE  /\ UpTo(K, i) \in SUBSET K /\ IsFiniteSet(UpTo(K, i)) /\ i \in UpTo(K, i)
             /\ Rank(K, i) \in 1 .. Cardinality(K)
  <2>1. UpTo(K, i) \in SUBSET K /\ i \in UpTo(K, i)
        BY DEF UpTo
  <2>2. IsFiniteSet(UpTo(K, i)) /\ Rank(K, i) <= Cardinality(K)
        BY <1>1, <2>1, FS_Subset DEF Rank
  <2>3. Rank(K, i) \in Nat /\ Rank(K, i) # 0
        BY <2>1, <2>2, FS_CardinalityType, FS_EmptySet DEF Rank
  <2>. QED BY <1>1, <2>1, <2>2, <2>3
<1>3. ASSUME NEW i \in K, NEW k \in K, i < k PROVE Rank(K, i) < Rank(K, k)
  <2>0. K \subseteq Nat
        OBVIOUS
  <2>1. UpTo(K, i) \in SUBSET UpTo(K, k) /\ k \notin UpTo(K, i) /\ k \in UpTo(K, k)
    <3>1. i \in Nat /\ k \in Nat
          BY <2>0
    <3>2. \A l \in K : l \in Nat /\ (l <= i => l <= k)
          BY <1>3, <2>0, <3>1
    <3>3. \A l : l \in UpTo(K, i) <=> l \in K /\ l <= i
          BY DEF UpTo
    <3>4. \A l : l \in UpTo(K, k) <=> l \in K /\ l <= k
          BY DEF UpTo
    <3>5. ~(k <= i) /\ k <= k
          BY <1>3, <3>1
    <3>. QED BY <3>2, <3>3, <3>4, <3>5
  <2>2. IsFiniteSet(UpTo(K, k))
        BY <1>2
  <2>3. Rank(K, i) <= Rank(K, k) /\ Rank(K, i) # Rank(K, k)
        BY <2>1, <2>2, FS_Subset DEF Rank
  <2>4. Rank(K, i) \in Nat /\ Rank(K, k) \in Nat
        BY <1>2
  <2>. QED BY <2>3, <2>4
<1>4. \A j \in 1 .. Cardinality(K) : \E i \in K : Rank(K, i) = j
  <2>. DEFINE r == [i \in K |-> Rank(K, i)]
  <2>1. r \in [K -> 1 .. Cardinality(K)]
        BY <1>2
  <2>2. \A i, k \in K : r[i] = r[k] => i = k
    <3>1. \A i, k \in K : i \in Nat /\ k \in Nat /\ Rank(K, i) \in Nat /\ Rank(K, k) \in Nat
          BY <1>2
    <3>2. \A i, k \in K : i # k => i < k \/ k < i
          BY <3>1
    <3>3. ASSUME NEW i \in K, NEW k \in K, i # k PROVE Rank(K, i) # Rank(K, k)
      <4>1. CASE i < k
            BY <1>3, <3>1, <4>1
      <4>2. CASE k < i
            BY <1>3, <3>1, <4>2
      <4>. QED BY <3>2, <3>3, <4>1, <4>2
    <3>. QED BY <3>3
  <2>3. r \in Injection(K, 1 .. Cardinality(K))
        BY <2>1, <2>2 DEF Injection, IsInjective
  <2>4. IsFiniteSet(1 .. Cardinality(K)) /\ Cardinality(1 .. Cardinality(K)) = Cardinality(K)
        BY <1>1, FS_Interval
  <2>5. r \in Surjection(K, 1 .. Cardinality(K))
    <3>. HIDE DEF r
    <3>. QED BY <2>3, <2>4, FS_Injection
  <2>. QED BY <2>5 DEF Surjection
<1>. QED BY <1>1, <1>2, <1>3, <1>4

\* Nth gives the number with a rank: it enumerates K upwards.
LEMMA NthIs ==
  ASSUME NEW n \in Nat, NEW K \in SUBSET (1 .. n)
  PROVE  /\ Cardinality(K) \in Nat
         /\ \A j \in 1 .. Cardinality(K) : Nth(K, j) \in K /\ Rank(K, Nth(K, j)) = j
         /\ \A i, j \in 1 .. Cardinality(K) : i < j => Nth(K, i) < Nth(K, j)
         /\ \A i \in K : Nth(K, Rank(K, i)) = i /\ Rank(K, i) \in 1 .. Cardinality(K)
<1>1. Cardinality(K) \in Nat
      BY Ranks
<1>2. \A j \in 1 .. Cardinality(K) : Nth(K, j) \in K /\ Rank(K, Nth(K, j)) = j
  <2> SUFFICES ASSUME NEW j \in 1 .. Cardinality(K) PROVE Nth(K, j) \in K /\ Rank(K, Nth(K, j)) = j
      OBVIOUS
  <2>1. \E i \in K : Cardinality({k \in K : k <= i}) = j
        BY Ranks DEF Rank, UpTo
  <2>. QED BY <2>1 DEF Rank, UpTo, Nth
<1>3. \A i \in K : i \in Nat /\ Rank(K, i) \in Nat
      BY Ranks
<1>4. ASSUME NEW i \in K, NEW k \in K PROVE Rank(K, i) < Rank(K, k) => i < k
  <2>1. k < i => Rank(K, k) < Rank(K, i)
        BY Ranks
  <2>. QED BY <1>3, <2>1
<1>5. ASSUME NEW i \in K, NEW k \in K, Rank(K, i) = Rank(K, k) PROVE i = k
  <2>1. k < i => Rank(K, k) < Rank(K, i)
        BY Ranks
  <2>2. i < k => Rank(K, i) < Rank(K, k)
        BY Ranks
  <2>. QED BY <1>3, <1>5, <2>1, <2>2
<1>6. ASSUME NEW i \in 1 .. Cardinality(K), NEW j \in 1 .. Cardinality(K), i < j
      PROVE  Nth(K, i) < Nth(K, j)
  <2>1. Nth(K, i) \in K /\ Nth(K, j) \in K /\ Rank(K, Nth(K, i)) = i /\ Rank(K, Nth(K, j)) = j
        BY <1>2
  <2>. QED BY <1>4, <1>6, <2>1
<1>7. \A i \in K : Nth(K, Rank(K, i)) = i /\ Rank(K, i) \in 1 .. Cardinality(K)
  <2>1. \A i \in K : Rank(K, i) \in 1 .. Cardinality(K)
        BY Ranks
  <2>. QED BY <1>2, <1>5, <2>1
<1>. QED BY <1>1, <1>2, <1>6, <1>7

\* An increasing enumeration of K is the one that Nth gives.
LEMMA NthUnique ==
  ASSUME NEW n \in Nat, NEW K \in SUBSET (1 .. n), NEW m \in Nat, NEW e \in [1 .. m -> K],
         \A i, j \in 1 .. m : i < j => e[i] < e[j],
         \A i \in K : \E j \in 1 .. m : e[j] = i
  PROVE  m = Cardinality(K) /\ \A j \in 1 .. m : Nth(K, j) = e[j]
<1>0. K \subseteq Nat /\ \A j \in 1 .. m : e[j] \in K /\ e[j] \in Nat
  <2>1. \A j \in 1 .. m : e[j] \in K
        OBVIOUS
  <2>2. K \subseteq Nat
        OBVIOUS
  <2>. QED BY <2>1, <2>2
<1>1. \A i, j \in 1 .. m : e[i] = e[j] => i = j
  <2>1. \A i, j \in 1 .. m : i # j => i < j \/ j < i
        OBVIOUS
  <2>2. \A i \in 1 .. m : e[i] \in Nat
        BY <1>0
  <2>3. ASSUME NEW i \in 1 .. m, NEW j \in 1 .. m, i # j PROVE e[i] # e[j]
    <3>1. e[i] < e[j] \/ e[j] < e[i]
          BY <2>1, <2>3
    <3>. QED BY <2>2, <3>1
  <2>. QED BY <2>3
<1>2. m = Cardinality(K)
  <2>1. e \in Injection(1 .. m, K) /\ e \in Surjection(1 .. m, K)
        BY <1>1 DEF Injection, Surjection, IsInjective
  <2>2. IsFiniteSet(1 .. m) /\ Cardinality(1 .. m) = m
        BY FS_Interval
  <2>. QED BY <2>1, <2>2, FS_Surjection
<1>3. ASSUME NEW j \in 1 .. m PROVE Rank(K, e[j]) = j
  <2>. DEFINE f == [l \in 1 .. j |-> e[l]]
  <2>1. \A l \in 1 .. j : l \in 1 .. m /\ e[l] \in UpTo(K, e[j])
    <3>1. \A l \in 1 .. j : l \in 1 .. m /\ (l < j \/ l = j)
          OBVIOUS
    <3>2. \A l \in 1 .. m : e[l] \in Nat
          BY <1>0
    <3>3. \A l \in 1 .. j : e[l] <= e[j]
      <4> SUFFICES ASSUME NEW l \in 1 .. j PROVE e[l] <= e[j]
          OBVIOUS
      <4>1. e[l] \in Nat /\ e[j] \in Nat /\ l \in 1 .. m
            BY <3>1, <3>2
      <4>2. CASE l < j
        <5>1. e[l] < e[j]
              BY <4>1, <4>2
        <5>. QED BY <4>1, <5>1
      <4>3. CASE l = j
            BY <4>1, <4>3
      <4>. QED BY <3>1, <4>2, <4>3
    <3>. QED BY <3>1, <3>3 DEF UpTo
  <2>2. \A i \in UpTo(K, e[j]) : \E l \in 1 .. j : e[l] = i
    <3> SUFFICES ASSUME NEW i \in UpTo(K, e[j]) PROVE \E l \in 1 .. j : e[l] = i
        OBVIOUS
    <3>1. PICK l \in 1 .. m : e[l] = i
          BY DEF UpTo
    <3>2. ~(j < l)
      <4>1. i <= e[j] /\ i \in Nat /\ e[j] \in Nat
            BY <1>0 DEF UpTo
      <4>2. j < l => e[j] < e[l]
            OBVIOUS
      <4>. QED BY <3>1, <4>1, <4>2
    <3>3. l \in 1 .. j
          BY <3>2
    <3>. QED BY <3>1, <3>3
  <2>3. f \in Surjection(1 .. j, UpTo(K, e[j])) /\ f \in Injection(1 .. j, UpTo(K, e[j]))
        BY <1>1, <2>1, <2>2 DEF Injection, Surjection, IsInjective
  <2>4. IsFiniteSet(1 .. j) /\ Cardinality(1 .. j) = j
        BY FS_Interval
  <2>5. Cardinality(UpTo(K, e[j])) = j
    <3>. HIDE DEF f
    <3>. QED BY <2>3, <2>4, FS_Surjection
  <2>. QED BY <2>5 DEF Rank
<1>4. ASSUME NEW j \in 1 .. m PROVE Nth(K, j) = e[j]
  <2>1. e[j] \in K
        BY <1>0
  <2>2. Nth(K, Rank(K, e[j])) = e[j]
        BY <2>1, NthIs
  <2>. QED BY <1>3, <2>2
<1>. QED BY <1>2, <1>4

-----------------------------------------------------------------------------
(* What is selected.                                                       *)

\* Select keeps the elements at the places of K and no others.
LEMMA SelectIs ==
  ASSUME NEW S, NEW q \in Seq(S), NEW K \in SUBSET DOMAIN q
  PROVE  /\ Select(q, K) \in Seq(S) /\ Len(Select(q, K)) = Cardinality(K)
         /\ DOMAIN Select(q, K) = 1 .. Cardinality(K)
         /\ \A j \in 1 .. Cardinality(K) :
              Nth(K, j) \in K /\ Select(q, K)[j] = q[Nth(K, j)]
         /\ Range(Select(q, K)) = {q[i] : i \in K}
<1>1. Len(q) \in Nat /\ K \in SUBSET (1 .. Len(q))
      BY LenProperties
<1>2. Cardinality(K) \in Nat /\ \A j \in 1 .. Cardinality(K) : Nth(K, j) \in K
      BY <1>1, NthIs
<1>3. \A i \in K : q[i] \in S
      BY <1>1
<1>4. Select(q, K) \in Seq(S) /\ Len(Select(q, K)) = Cardinality(K)
      BY <1>2, <1>3 DEF Select
<1>5. \A j \in 1 .. Cardinality(K) : Select(q, K)[j] = q[Nth(K, j)]
      BY DEF Select
<1>6. DOMAIN Select(q, K) = 1 .. Cardinality(K)
      BY DEF Select
<1>7. Range(Select(q, K)) = {q[i] : i \in K}
  <2>1. \A i \in K : \E j \in 1 .. Cardinality(K) : Nth(K, j) = i
        BY <1>1, NthIs
  <2>. QED BY <1>2, <1>5, <1>6, <2>1 DEF Range
<1>. QED BY <1>2, <1>4, <1>5, <1>6, <1>7

\* Selecting keeps a sequence without repetitions one.
LEMMA SelectInjective ==
  ASSUME NEW S, NEW q \in Seq(S), NEW K \in SUBSET DOMAIN q, IsInjective(q)
  PROVE  IsInjective(Select(q, K))
<1>1. Len(q) \in Nat /\ K \in SUBSET (1 .. Len(q))
      BY LenProperties
<1>2. \A j \in 1 .. Cardinality(K) : Nth(K, j) \in K /\ Rank(K, Nth(K, j)) = j
      BY <1>1, NthIs
<1>. QED BY <1>2, SelectIs DEF IsInjective

\* Selecting from two lists joined is joining what is selected from each
\* (eb_socket_filter_inflight goes over the two lists of a socket).
LEMMA SelectConcat ==
  ASSUME NEW S, NEW s \in Seq(S), NEW t \in Seq(S), NEW K \in SUBSET DOMAIN s, NEW L \in SUBSET DOMAIN t,
         NEW M, \A i : i \in M <=> i \in K \/ \E k \in L : i = Len(s) + k
  PROVE  Select(s \o t, M) = Select(s, K) \o Select(t, L)
<1>. DEFINE n == Len(s)
            a == Cardinality(K)
            b == Cardinality(L)
            e == [j \in 1 .. a + b |-> IF j <= a THEN Nth(K, j) ELSE n + Nth(L, j - a)]
<1>1. n \in Nat /\ Len(t) \in Nat /\ K \in SUBSET (1 .. n) /\ L \in SUBSET (1 .. Len(t))
      BY LenProperties
<1>2. a \in Nat /\ b \in Nat
      BY <1>1, NthIs
<1>3. M \in SUBSET (1 .. n + Len(t)) /\ n + Len(t) \in Nat
      BY <1>1
<1>4. \A j \in 1 .. a : Nth(K, j) \in K /\ Nth(K, j) \in 1 .. n
      BY <1>1, NthIs
<1>5. \A j \in 1 .. b : Nth(L, j) \in L /\ Nth(L, j) \in 1 .. Len(t)
      BY <1>1, NthIs
<1>6. \A j \in 1 .. a + b : j > a => j - a \in 1 .. b
      BY <1>2
<1>7. e \in [1 .. a + b -> M]
  <2> SUFFICES ASSUME NEW j \in 1 .. a + b PROVE e[j] \in M
      OBVIOUS
  <2>1. CASE j <= a
        BY <1>2, <1>4, <2>1
  <2>2. CASE j > a
        BY <1>2, <1>5, <1>6, <2>2
  <2>. QED BY <1>2, <2>1, <2>2
<1>8. \A i, j \in 1 .. a + b : i < j => e[i] < e[j]
  <2> SUFFICES ASSUME NEW i \in 1 .. a + b, NEW j \in 1 .. a + b, i < j PROVE e[i] < e[j]
      OBVIOUS
  <2>1. CASE j <= a
    <3>1. i \in 1 .. a /\ j \in 1 .. a
          BY <1>2, <2>1
    <3>2. Nth(K, i) < Nth(K, j)
          BY <1>1, <3>1, NthIs
    <3>. QED BY <1>2, <3>1, <3>2
  <2>2. CASE i > a
    <3>1. i - a \in 1 .. b /\ j - a \in 1 .. b /\ i - a < j - a /\ j > a
          BY <1>2, <2>2
    <3>2. Nth(L, i - a) < Nth(L, j - a)
          BY <1>1, <3>1, NthIs
    <3>3. Nth(L, i - a) \in Nat /\ Nth(L, j - a) \in Nat
          BY <1>1, <1>5, <3>1
    <3>. QED BY <1>1, <1>2, <2>2, <3>1, <3>2, <3>3
  <2>3. CASE i <= a /\ j > a
    <3>1. i \in 1 .. a /\ j - a \in 1 .. b
          BY <1>2, <2>3
    <3>2. Nth(K, i) \in 1 .. n /\ Nth(L, j - a) \in 1 .. Len(t)
          BY <1>4, <1>5, <3>1
    <3>. QED BY <1>1, <1>2, <2>3, <3>1, <3>2
  <2>. QED BY <1>2, <2>1, <2>2, <2>3
<1>9. \A i \in M : \E j \in 1 .. a + b : e[j] = i
  <2> SUFFICES ASSUME NEW i \in M PROVE \E j \in 1 .. a + b : e[j] = i
      OBVIOUS
  <2>1. CASE i \in K
    <3>1. Rank(K, i) \in 1 .. a /\ Nth(K, Rank(K, i)) = i
          BY <1>1, <2>1, NthIs
    <3>2. Rank(K, i) \in 1 .. a + b /\ Rank(K, i) <= a
          BY <1>2, <3>1
    <3>3. e[Rank(K, i)] = i
          BY <3>1, <3>2
    <3>. QED BY <3>2, <3>3
  <2>2. ASSUME NEW k \in L, i = n + k PROVE \E j \in 1 .. a + b : e[j] = i
    <3>1. Rank(L, k) \in 1 .. b /\ Nth(L, Rank(L, k)) = k
          BY <1>1, <2>2, NthIs
    <3>2. a + Rank(L, k) \in 1 .. a + b /\ ~(a + Rank(L, k) <= a) /\ (a + Rank(L, k)) - a = Rank(L, k)
          BY <1>2, <3>1
    <3>3. e[a + Rank(L, k)] = i
          BY <2>2, <3>1, <3>2
    <3>. QED BY <3>2, <3>3
  <2>. QED BY <2>1, <2>2
<1>10. a + b = Cardinality(M) /\ \A j \in 1 .. a + b : Nth(M, j) = e[j]
  <2>1. a + b \in Nat
        BY <1>2
  <2>. HIDE DEF e, a, b, n
  <2>. QED BY <1>3, <1>7, <1>8, <1>9, <2>1, NthUnique
<1>11. /\ s \o t \in Seq(S) /\ Len(s \o t) = n + Len(t) /\ DOMAIN (s \o t) = 1 .. n + Len(t)
       /\ \A i \in 1 .. n + Len(t) : (s \o t)[i] = IF i <= n THEN s[i] ELSE t[i - n]
       BY ConcatProperties, LenProperties
<1>12. /\ Select(s, K) \in Seq(S) /\ Len(Select(s, K)) = a
       /\ Select(t, L) \in Seq(S) /\ Len(Select(t, L)) = b
       /\ Select(s \o t, M) \in Seq(S) /\ Len(Select(s \o t, M)) = a + b
       BY <1>3, <1>10, <1>11, SelectIs
<1>13. /\ Select(s, K) \o Select(t, L) \in Seq(S) /\ Len(Select(s, K) \o Select(t, L)) = a + b
       /\ \A j \in 1 .. a + b : (Select(s, K) \o Select(t, L))[j] =
            IF j <= a THEN Select(s, K)[j] ELSE Select(t, L)[j - a]
       BY <1>12, ConcatProperties
<1>14. ASSUME NEW j \in 1 .. a + b
       PROVE  Select(s \o t, M)[j] = (Select(s, K) \o Select(t, L))[j]
  <2>1. Select(s \o t, M)[j] = (s \o t)[e[j]]
    <3>. HIDE DEF e, a, b, n
    <3>1. Select(s \o t, M)[j] = (s \o t)[Nth(M, j)]
      <4>1. M \in SUBSET DOMAIN (s \o t) /\ j \in 1 .. Cardinality(M)
            BY <1>3, <1>10, <1>11
      <4>2. s \o t \in Seq(S)
            BY <1>11
      <4>. QED BY <4>1, <4>2, SelectIs
    <3>. QED BY <1>10, <3>1
  <2>2. CASE j <= a
    <3>1. j \in 1 .. a /\ e[j] = Nth(K, j)
          BY <1>2, <2>2
    <3>2. (s \o t)[e[j]] = s[Nth(K, j)]
          BY <1>1, <1>4, <1>11, <3>1
    <3>. QED BY <1>13, <2>1, <2>2, <3>1, <3>2, SelectIs
  <2>3. CASE j > a
    <3>1. j - a \in 1 .. b /\ e[j] = n + Nth(L, j - a) /\ ~(j <= a)
          BY <1>2, <2>3
    <3>2. Nth(L, j - a) \in 1 .. Len(t)
          BY <1>5, <3>1
    <3>3. (s \o t)[e[j]] = t[Nth(L, j - a)]
      <4>1. n + Nth(L, j - a) \in 1 .. n + Len(t) /\ ~(n + Nth(L, j - a) <= n)
            /\ (n + Nth(L, j - a)) - n = Nth(L, j - a)
            BY <1>1, <3>2
      <4>. QED BY <1>11, <3>1, <4>1
    <3>4. Select(t, L)[j - a] = t[Nth(L, j - a)]
          BY <3>1, SelectIs
    <3>5. (Select(s, K) \o Select(t, L))[j] = Select(t, L)[j - a]
          BY <1>13, <3>1
    <3>. HIDE DEF e
    <3>. QED BY <2>1, <3>3, <3>4, <3>5
  <2>4. j <= a \/ j > a
        BY <1>2
  <2>. HIDE DEF e, a, b, n
  <2>. QED BY <2>2, <2>3, <2>4
<1>. HIDE DEF e, a, b, n
<1>15. Select(s \o t, M) = Select(s, K) \o Select(t, L)
       BY <1>12, <1>13, <1>14, SeqEqual
<1>. QED BY <1>15

\* A list turned over (eb_response_flip, and the reversal of a ready list in
\* eb_device_flush) has the same elements, from the other end.
LEMMA ReverseIs ==
  ASSUME NEW S, NEW s \in Seq(S)
  PROVE  /\ Reverse(s) \in Seq(S) /\ Len(Reverse(s)) = Len(s) /\ DOMAIN Reverse(s) = DOMAIN s
         /\ \A i \in DOMAIN s : Len(s) + 1 - i \in DOMAIN s /\ Reverse(s)[i] = s[Len(s) + 1 - i]
         /\ Range(Reverse(s)) = Range(s)
         /\ IsInjective(s) => IsInjective(Reverse(s))
<1>1. Len(s) \in Nat /\ DOMAIN s = 1 .. Len(s)
      BY LenProperties
<1>2. /\ Reverse(s) \in Seq(S) /\ Len(Reverse(s)) = Len(s) /\ DOMAIN Reverse(s) = 1 .. Len(s)
  <2>1. \A i \in 1 .. Len(s) : s[(Len(s) - i) + 1] \in S
        BY <1>1
  <2>. QED BY <1>1, <2>1 DEF Reverse
<1>3. \A i \in 1 .. Len(s) : Len(s) + 1 - i \in 1 .. Len(s) /\ Reverse(s)[i] = s[Len(s) + 1 - i]
  <2>1. \A i \in 1 .. Len(s) : Reverse(s)[i] = s[(Len(s) - i) + 1]
        BY DEF Reverse
  <2>2. \A i \in 1 .. Len(s) : (Len(s) - i) + 1 = Len(s) + 1 - i /\ Len(s) + 1 - i \in 1 .. Len(s)
        BY <1>1
  <2>. QED BY <2>1, <2>2
<1>4. \A i \in 1 .. Len(s) : Len(s) + 1 - i \in 1 .. Len(s) /\ Len(s) + 1 - (Len(s) + 1 - i) = i
      BY <1>1
<1>5. Range(Reverse(s)) = Range(s)
      BY <1>1, <1>2, <1>3, <1>4 DEF Range
<1>6. IsInjective(s) => IsInjective(Reverse(s))
  <2> SUFFICES ASSUME IsInjective(s), NEW i \in 1 .. Len(s), NEW j \in 1 .. Len(s),
                      Reverse(s)[i] = Reverse(s)[j]
               PROVE  i = j
      BY <1>2 DEF IsInjective
  <2>1. Len(s) + 1 - i = Len(s) + 1 - j
        BY <1>1, <1>3 DEF IsInjective
  <2>. QED BY <1>4, <2>1
<1>. QED BY <1>1, <1>2, <1>3, <1>5, <1>6

\* Selecting from a list turned over is turning over what is selected, which is
\* why eb_socket_filter_inflight keeps the order of the younger list.
LEMMA SelectReverse ==
  ASSUME NEW S, NEW s \in Seq(S), NEW K \in SUBSET DOMAIN s
  PROVE  Select(Reverse(s), {Len(s) + 1 - k : k \in K}) = Reverse(Select(s, K))
<1>. DEFINE n == Len(s)
            M == {n + 1 - k : k \in K}
            a == Cardinality(K)
            e == [j \in 1 .. a |-> n + 1 - Nth(K, a + 1 - j)]
<1>1. n \in Nat /\ K \in SUBSET (1 .. n) /\ DOMAIN s = 1 .. n
      BY LenProperties
<1>2. a \in Nat
      BY <1>1, NthIs
<1>3. M \in SUBSET (1 .. n)
      BY <1>1
<1>4. \A j \in 1 .. a : Nth(K, j) \in K /\ Nth(K, j) \in 1 .. n
      BY <1>1, NthIs
<1>5. \A j \in 1 .. a : a + 1 - j \in 1 .. a /\ a + 1 - (a + 1 - j) = j
      BY <1>2
<1>6. e \in [1 .. a -> M]
      BY <1>4, <1>5
<1>7. ASSUME NEW i \in 1 .. a, NEW j \in 1 .. a, i < j PROVE e[i] < e[j]
  <2>1. a + 1 - j < a + 1 - i /\ a + 1 - j \in 1 .. a /\ a + 1 - i \in 1 .. a
        BY <1>2, <1>7
  <2>2. Nth(K, a + 1 - j) < Nth(K, a + 1 - i)
        BY <1>1, <2>1, NthIs
  <2>3. Nth(K, a + 1 - j) \in 1 .. n /\ Nth(K, a + 1 - i) \in 1 .. n
        BY <1>4, <2>1
  <2>. QED BY <1>1, <2>2, <2>3
<1>8. ASSUME NEW i \in M PROVE \E j \in 1 .. a : e[j] = i
  <2>1. PICK k \in K : i = n + 1 - k
        OBVIOUS
  <2>2. Rank(K, k) \in 1 .. a /\ Nth(K, Rank(K, k)) = k
        BY <1>1, NthIs
  <2>3. a + 1 - Rank(K, k) \in 1 .. a /\ a + 1 - (a + 1 - Rank(K, k)) = Rank(K, k)
        BY <1>5, <2>2
  <2>4. e[a + 1 - Rank(K, k)] = i
        BY <2>1, <2>2, <2>3
  <2>. QED BY <2>3, <2>4
<1>9. a = Cardinality(M) /\ \A j \in 1 .. a : Nth(M, j) = e[j]
  <2>. HIDE DEF e, M, a, n
  <2>. QED BY <1>1, <1>2, <1>3, <1>6, <1>7, <1>8, NthUnique
<1>10. /\ Reverse(s) \in Seq(S) /\ DOMAIN Reverse(s) = 1 .. n
       /\ \A i \in 1 .. n : n + 1 - i \in 1 .. n /\ Reverse(s)[i] = s[n + 1 - i]
       BY <1>1, ReverseIs
<1>11. /\ Select(s, K) \in Seq(S) /\ Len(Select(s, K)) = a /\ DOMAIN Select(s, K) = 1 .. a
       /\ \A j \in 1 .. a : Select(s, K)[j] = s[Nth(K, j)]
       BY SelectIs
<1>12. /\ Reverse(Select(s, K)) \in Seq(S) /\ Len(Reverse(Select(s, K))) = a
       /\ \A j \in 1 .. a : Reverse(Select(s, K))[j] = Select(s, K)[a + 1 - j]
       BY <1>11, ReverseIs
<1>13. /\ Select(Reverse(s), M) \in Seq(S) /\ Len(Select(Reverse(s), M)) = a
       /\ \A j \in 1 .. a : Select(Reverse(s), M)[j] = Reverse(s)[Nth(M, j)]
  <2>. HIDE DEF e, M, a, n
  <2>1. M \in SUBSET DOMAIN Reverse(s) /\ Reverse(s) \in Seq(S)
        BY <1>3, <1>10
  <2>2. /\ Select(Reverse(s), M) \in Seq(S) /\ Len(Select(Reverse(s), M)) = Cardinality(M)
        /\ \A j \in 1 .. Cardinality(M) : Select(Reverse(s), M)[j] = Reverse(s)[Nth(M, j)]
        BY <2>1, SelectIs
  <2>. QED BY <1>9, <2>2
<1>14. ASSUME NEW j \in 1 .. a PROVE Select(Reverse(s), M)[j] = Reverse(Select(s, K))[j]
  <2>1. Nth(K, a + 1 - j) \in 1 .. n /\ a + 1 - j \in 1 .. a
        BY <1>4, <1>5
  <2>2. e[j] = n + 1 - Nth(K, a + 1 - j)
        OBVIOUS
  <2>3. n + 1 - e[j] = Nth(K, a + 1 - j) /\ e[j] \in 1 .. n
        BY <1>1, <2>1, <2>2
  <2>. HIDE DEF e, M, a, n
  <2>4. Select(Reverse(s), M)[j] = Reverse(s)[e[j]]
        BY <1>9, <1>13
  <2>5. Reverse(s)[e[j]] = s[Nth(K, a + 1 - j)]
        BY <1>10, <2>3
  <2>. QED BY <1>11, <1>12, <2>1, <2>4, <2>5
<1>. HIDE DEF e, M, a, n
<1>15. Select(Reverse(s), M) = Reverse(Select(s, K))
       BY <1>12, <1>13, <1>14, SeqEqual
<1>. QED BY <1>15 DEF M, n

-----------------------------------------------------------------------------
(* Joined and kept lists.                                                 *)

\* The elements of s that are in P, in order.
Keep(s, P) == Select(s, {i \in DOMAIN s : s[i] \in P})

\* What is at the front of two lists joined is at the front of the first.
LEMMA TailConcat ==
  ASSUME NEW S, NEW s \in Seq(S), NEW t \in Seq(S), s # <<>>
  PROVE  s \o t # <<>> /\ Head(s \o t) = Head(s) /\ Tail(s \o t) = Tail(s) \o t
<1>1. /\ Len(s) \in Nat \ {0} /\ Len(t) \in Nat /\ Head(s) = s[1] /\ Tail(s) \in Seq(S)
      /\ Len(Tail(s)) = Len(s) - 1 /\ \A i \in 1 .. Len(s) - 1 : Tail(s)[i] = s[i + 1]
      BY HeadTailIs, LenProperties
<1>2. /\ s \o t \in Seq(S) /\ Len(s \o t) = Len(s) + Len(t)
      /\ \A i \in 1 .. Len(s) + Len(t) : (s \o t)[i] = IF i <= Len(s) THEN s[i] ELSE t[i - Len(s)]
      BY ConcatProperties
<1>3. s \o t # <<>>
      BY <1>1, <1>2, RangeIs
<1>4. /\ Head(s \o t) = (s \o t)[1] /\ Tail(s \o t) \in Seq(S) /\ Len(Tail(s \o t)) = (Len(s) + Len(t)) - 1
      /\ \A i \in 1 .. (Len(s) + Len(t)) - 1 : Tail(s \o t)[i] = (s \o t)[i + 1]
      BY <1>2, <1>3, HeadTailIs
<1>5. /\ Tail(s) \o t \in Seq(S) /\ Len(Tail(s) \o t) = (Len(s) + Len(t)) - 1
      /\ \A i \in 1 .. (Len(s) + Len(t)) - 1 :
           (Tail(s) \o t)[i] = IF i <= Len(s) - 1 THEN Tail(s)[i] ELSE t[i - (Len(s) - 1)]
  <2>1. Len(Tail(s)) + Len(t) = (Len(s) + Len(t)) - 1
        BY <1>1
  <2>2. /\ Tail(s) \o t \in Seq(S) /\ Len(Tail(s) \o t) = Len(Tail(s)) + Len(t)
        /\ \A i \in 1 .. Len(Tail(s)) + Len(t) :
             (Tail(s) \o t)[i] = IF i <= Len(Tail(s)) THEN Tail(s)[i] ELSE t[i - Len(Tail(s))]
        BY <1>1, ConcatProperties
  <2>. QED BY <1>1, <2>1, <2>2
<1>6. ASSUME NEW i \in 1 .. (Len(s) + Len(t)) - 1 PROVE Tail(s \o t)[i] = (Tail(s) \o t)[i]
  <2>1. i + 1 \in 1 .. Len(s) + Len(t) /\ (i + 1) - Len(s) = i - (Len(s) - 1)
        BY <1>1
  <2>2. CASE i <= Len(s) - 1
    <3>1. i + 1 <= Len(s) /\ i \in 1 .. Len(s) - 1
          BY <1>1, <2>2
    <3>. QED BY <1>1, <1>2, <1>4, <1>5, <2>1, <2>2, <3>1
  <2>3. CASE ~(i <= Len(s) - 1)
    <3>1. ~(i + 1 <= Len(s))
          BY <1>1, <2>3
    <3>. QED BY <1>2, <1>4, <1>5, <2>1, <2>3, <3>1
  <2>. QED BY <2>2, <2>3
<1>7. Tail(s \o t) = Tail(s) \o t
      BY <1>4, <1>5, <1>6, SeqEqual
<1>8. Head(s \o t) = Head(s)
      BY <1>1, <1>2, <1>4
<1>. QED BY <1>3, <1>7, <1>8

\* To take a place out of the first of two lists is to take it out of both joined.
LEMMA RemoveConcat ==
  ASSUME NEW S, NEW s \in Seq(S), NEW t \in Seq(S), NEW i \in DOMAIN s
  PROVE  /\ i \in DOMAIN (s \o t) /\ (s \o t)[i] = s[i]
         /\ RemoveAt(s \o t, i) = RemoveAt(s, i) \o t
<1>1. /\ Len(s) \in Nat /\ Len(t) \in Nat /\ DOMAIN s = 1 .. Len(s) /\ i \in 1 .. Len(s)
      /\ s \o t \in Seq(S) /\ Len(s \o t) = Len(s) + Len(t) /\ DOMAIN (s \o t) = 1 .. Len(s) + Len(t)
      /\ \A k \in 1 .. Len(s) + Len(t) : (s \o t)[k] = IF k <= Len(s) THEN s[k] ELSE t[k - Len(s)]
      BY ConcatProperties, LenProperties
<1>2. i \in DOMAIN (s \o t) /\ (s \o t)[i] = s[i]
      BY <1>1
<1>3. /\ RemoveAt(s, i) \in Seq(S) /\ Len(RemoveAt(s, i)) = Len(s) - 1
      /\ \A j \in 1 .. Len(s) - 1 : RemoveAt(s, i)[j] = IF j < i THEN s[j] ELSE s[j + 1]
      BY RemoveAtIs
<1>4. /\ RemoveAt(s \o t, i) \in Seq(S) /\ Len(RemoveAt(s \o t, i)) = (Len(s) + Len(t)) - 1
      /\ \A j \in 1 .. (Len(s) + Len(t)) - 1 :
           RemoveAt(s \o t, i)[j] = IF j < i THEN (s \o t)[j] ELSE (s \o t)[j + 1]
      BY <1>1, <1>2, RemoveAtIs
<1>5. /\ RemoveAt(s, i) \o t \in Seq(S) /\ Len(RemoveAt(s, i) \o t) = (Len(s) + Len(t)) - 1
      /\ \A j \in 1 .. (Len(s) + Len(t)) - 1 :
           (RemoveAt(s, i) \o t)[j] = IF j <= Len(s) - 1 THEN RemoveAt(s, i)[j] ELSE t[j - (Len(s) - 1)]
  <2>1. Len(RemoveAt(s, i)) + Len(t) = (Len(s) + Len(t)) - 1
        BY <1>1, <1>3
  <2>2. /\ RemoveAt(s, i) \o t \in Seq(S)
        /\ Len(RemoveAt(s, i) \o t) = Len(RemoveAt(s, i)) + Len(t)
        /\ \A j \in 1 .. Len(RemoveAt(s, i)) + Len(t) : (RemoveAt(s, i) \o t)[j] =
             IF j <= Len(RemoveAt(s, i)) THEN RemoveAt(s, i)[j] ELSE t[j - Len(RemoveAt(s, i))]
        BY <1>3, ConcatProperties
  <2>. QED BY <1>3, <2>1, <2>2
<1>6. ASSUME NEW j \in 1 .. (Len(s) + Len(t)) - 1
      PROVE  RemoveAt(s \o t, i)[j] = (RemoveAt(s, i) \o t)[j]
  <2>1. /\ j \in 1 .. Len(s) + Len(t) /\ j + 1 \in 1 .. Len(s) + Len(t)
        /\ (j + 1) - Len(s) = j - (Len(s) - 1) /\ (j <= Len(s) - 1 <=> j + 1 <= Len(s))
        BY <1>1
  <2>2. CASE j <= Len(s) - 1
    <3>1. j \in 1 .. Len(s) - 1 /\ j <= Len(s) /\ j + 1 <= Len(s)
          BY <1>1, <2>2
    <3>. QED BY <1>1, <1>3, <1>4, <1>5, <2>1, <2>2, <3>1
  <2>3. CASE ~(j <= Len(s) - 1)
    <3>1. ~(j < i) /\ ~(j + 1 <= Len(s))
          BY <1>1, <2>3
    <3>. QED BY <1>1, <1>4, <1>5, <2>1, <2>3, <3>1
  <2>. QED BY <2>2, <2>3
<1>7. RemoveAt(s \o t, i) = RemoveAt(s, i) \o t
      BY <1>4, <1>5, <1>6, SeqEqual
<1>. QED BY <1>2, <1>7

\* What is put before a list comes last when it is turned over.
LEMMA ReverseCons ==
  ASSUME NEW S, NEW s \in Seq(S), NEW x \in S
  PROVE  <<x>> \o s \in Seq(S) /\ Reverse(<<x>> \o s) = Append(Reverse(s), x)
<1>1. <<x>> \in Seq(S) /\ Len(<<x>>) = 1 /\ <<x>>[1] = x
      BY OneIs
<1>2. /\ <<x>> \o s \in Seq(S) /\ Len(<<x>> \o s) = 1 + Len(s) /\ Len(s) \in Nat
      /\ DOMAIN (<<x>> \o s) = 1 .. 1 + Len(s) /\ DOMAIN s = 1 .. Len(s)
      /\ \A i \in 1 .. 1 + Len(s) : (<<x>> \o s)[i] = IF i <= 1 THEN <<x>>[i] ELSE s[i - 1]
      BY <1>1, ConcatProperties, LenProperties
<1>3. /\ Reverse(<<x>> \o s) \in Seq(S) /\ Len(Reverse(<<x>> \o s)) = 1 + Len(s)
      /\ \A i \in 1 .. 1 + Len(s) : Reverse(<<x>> \o s)[i] = (<<x>> \o s)[(1 + Len(s)) + 1 - i]
  <2>1. /\ Reverse(<<x>> \o s) \in Seq(S) /\ Len(Reverse(<<x>> \o s)) = Len(<<x>> \o s)
        /\ \A i \in DOMAIN (<<x>> \o s) :
             Reverse(<<x>> \o s)[i] = (<<x>> \o s)[Len(<<x>> \o s) + 1 - i]
        BY <1>2, ReverseIs
  <2>. QED BY <1>2, <2>1
<1>4. /\ Reverse(s) \in Seq(S) /\ Len(Reverse(s)) = Len(s)
      /\ \A i \in 1 .. Len(s) : Reverse(s)[i] = s[Len(s) + 1 - i]
      BY <1>2, ReverseIs
<1>5. /\ Append(Reverse(s), x) \in Seq(S) /\ Len(Append(Reverse(s), x)) = Len(s) + 1
      /\ \A i \in 1 .. Len(s) + 1 : Append(Reverse(s), x)[i] = IF i <= Len(s) THEN Reverse(s)[i] ELSE x
      BY <1>4, AppendIs
<1>6. ASSUME NEW i \in 1 .. 1 + Len(s) PROVE Reverse(<<x>> \o s)[i] = Append(Reverse(s), x)[i]
  <2>1. (1 + Len(s)) + 1 - i \in 1 .. 1 + Len(s) /\ i \in 1 .. Len(s) + 1
        BY <1>2
  <2>2. CASE i <= Len(s)
    <3>1. ~((1 + Len(s)) + 1 - i <= 1) /\ ((1 + Len(s)) + 1 - i) - 1 = Len(s) + 1 - i /\ i \in 1 .. Len(s)
          BY <1>2, <2>2
    <3>. QED BY <1>2, <1>3, <1>4, <1>5, <2>1, <2>2, <3>1
  <2>3. CASE ~(i <= Len(s))
    <3>1. (1 + Len(s)) + 1 - i = 1 /\ 1 \in 1 .. 1 + Len(s)
          BY <1>2, <2>3
    <3>2. (<<x>> \o s)[1] = x
          BY <1>1, <1>2, <3>1
    <3>3. Reverse(<<x>> \o s)[i] = x
          BY <1>3, <3>1, <3>2
    <3>. QED BY <1>5, <2>1, <2>3, <3>3
  <2>. QED BY <2>2, <2>3
<1>7. 1 + Len(s) = Len(s) + 1
      BY <1>2
<1>. QED BY <1>2, <1>3, <1>5, <1>6, <1>7, SeqEqual

\* What an append adds to two lists joined.
LEMMA ConcatAppend ==
  ASSUME NEW S, NEW s \in Seq(S), NEW t \in Seq(S), NEW x \in S
  PROVE  s \o Append(t, x) = Append(s \o t, x)
<1>1. s \o t \in Seq(S) /\ <<x>> \in Seq(S)
      BY ConcatProperties, OneIs
<1>2. Append(t, x) = t \o <<x>> /\ Append(s \o t, x) = (s \o t) \o <<x>>
      BY <1>1, AppendIsConcat
<1>. QED BY <1>1, <1>2, ConcatAssociative

\* What Keep keeps.
LEMMA KeepIs ==
  ASSUME NEW S, NEW s \in Seq(S), NEW P
  PROVE  /\ Keep(s, P) \in Seq(S) /\ Range(Keep(s, P)) = Range(s) \cap P
         /\ IsInjective(s) => IsInjective(Keep(s, P))
<1>. DEFINE K == {i \in DOMAIN s : s[i] \in P}
<1>1. K \in SUBSET DOMAIN s
      OBVIOUS
<1>2. Select(s, K) \in Seq(S) /\ Range(Select(s, K)) = {s[i] : i \in K}
      BY <1>1, SelectIs
<1>3. {s[i] : i \in K} = Range(s) \cap P
      BY DEF Range
<1>4. IsInjective(s) => IsInjective(Select(s, K))
      BY <1>1, SelectInjective
<1>. QED BY <1>2, <1>3, <1>4 DEF Keep

\* Keeping in two lists joined.
LEMMA KeepConcat ==
  ASSUME NEW S, NEW s \in Seq(S), NEW t \in Seq(S), NEW P
  PROVE  Keep(s \o t, P) = Keep(s, P) \o Keep(t, P)
<1>. DEFINE K == {i \in DOMAIN s : s[i] \in P}
            L == {i \in DOMAIN t : t[i] \in P}
            M == {i \in DOMAIN (s \o t) : (s \o t)[i] \in P}
<1>1. /\ Len(s) \in Nat /\ Len(t) \in Nat /\ DOMAIN s = 1 .. Len(s) /\ DOMAIN t = 1 .. Len(t)
      /\ DOMAIN (s \o t) = 1 .. Len(s) + Len(t)
      /\ \A k \in 1 .. Len(s) + Len(t) : (s \o t)[k] = IF k <= Len(s) THEN s[k] ELSE t[k - Len(s)]
      BY ConcatProperties, LenProperties
<1>2. M = K \cup {Len(s) + k : k \in L}
  <2>1. ASSUME NEW i \in M PROVE i \in K \/ \E k \in L : i = Len(s) + k
    <3>1. CASE i <= Len(s)
          BY <1>1, <3>1
    <3>2. CASE ~(i <= Len(s))
      <4>1. i - Len(s) \in 1 .. Len(t) /\ i = Len(s) + (i - Len(s))
            BY <1>1, <3>2
      <4>. QED BY <1>1, <3>2, <4>1
    <3>. QED BY <3>1, <3>2
  <2>2. ASSUME NEW i \in K PROVE i \in M
    <3>1. i \in 1 .. Len(s) + Len(t) /\ i <= Len(s)
          BY <1>1
    <3>. QED BY <1>1, <3>1
  <2>3. ASSUME NEW k \in L PROVE Len(s) + k \in M
    <3>1. Len(s) + k \in 1 .. Len(s) + Len(t) /\ ~(Len(s) + k <= Len(s)) /\ (Len(s) + k) - Len(s) = k
          BY <1>1
    <3>. QED BY <1>1, <3>1
  <2>. HIDE DEF K, L, M
  <2>. QED BY <2>1, <2>2, <2>3
<1>3. K \in SUBSET DOMAIN s /\ L \in SUBSET DOMAIN t
      OBVIOUS
<1>4. Select(s \o t, M) = Select(s, K) \o Select(t, L)
  <2>. HIDE DEF K, L, M
  <2>1. \A i : i \in M <=> i \in K \/ \E k \in L : i = Len(s) + k
        BY <1>2
  <2>. QED BY <1>3, <2>1, SelectConcat
<1>. QED BY <1>4 DEF Keep

\* Keeping in a list turned over.
LEMMA KeepReverse ==
  ASSUME NEW S, NEW s \in Seq(S), NEW P
  PROVE  Keep(Reverse(s), P) = Reverse(Keep(s, P))
<1>. DEFINE K == {i \in DOMAIN s : s[i] \in P}
            M == {i \in DOMAIN Reverse(s) : Reverse(s)[i] \in P}
<1>1. /\ Len(s) \in Nat /\ DOMAIN s = 1 .. Len(s) /\ DOMAIN Reverse(s) = 1 .. Len(s)
      /\ \A i \in 1 .. Len(s) : Len(s) + 1 - i \in 1 .. Len(s) /\ Reverse(s)[i] = s[Len(s) + 1 - i]
      BY ReverseIs, LenProperties
<1>2. \A i \in 1 .. Len(s) : Len(s) + 1 - (Len(s) + 1 - i) = i
      BY <1>1
<1>3. M = {Len(s) + 1 - k : k \in K}
  <2>1. ASSUME NEW i \in M PROVE \E k \in K : i = Len(s) + 1 - k
        BY <1>1, <1>2
  <2>2. ASSUME NEW k \in K PROVE Len(s) + 1 - k \in M
        BY <1>1, <1>2
  <2>. HIDE DEF K, M
  <2>. QED BY <2>1, <2>2
<1>4. K \in SUBSET DOMAIN s
      OBVIOUS
<1>5. Select(Reverse(s), {Len(s) + 1 - k : k \in K}) = Reverse(Select(s, K))
  <2>. HIDE DEF K
  <2>. QED BY <1>4, SelectReverse
<1>. QED BY <1>3, <1>5 DEF Keep

\* Everything is kept if nothing is to go, and nothing if nothing is to stay.
LEMMA KeepAll ==
  ASSUME NEW S, NEW s \in Seq(S), NEW P
  PROVE  /\ Range(s) \subseteq P => Keep(s, P) = s
         /\ Range(s) \cap P = {} => Keep(s, P) = <<>>
<1>1. Len(s) \in Nat /\ DOMAIN s = 1 .. Len(s)
      BY LenProperties
<1>2. ASSUME Range(s) \subseteq P PROVE Keep(s, P) = s
  <2>. DEFINE e == [j \in 1 .. Len(s) |-> j]
  <2>1. {i \in DOMAIN s : s[i] \in P} = 1 .. Len(s)
        BY <1>1, <1>2 DEF Range
  <2>2. Len(s) = Cardinality(1 .. Len(s)) /\ \A j \in 1 .. Len(s) : Nth(1 .. Len(s), j) = j
    <3>1. e \in [1 .. Len(s) -> 1 .. Len(s)] /\ \A j \in 1 .. Len(s) : e[j] = j
          OBVIOUS
    <3>. HIDE DEF e
    <3>2. /\ \A i, j \in 1 .. Len(s) : i < j => e[i] < e[j]
          /\ \A i \in 1 .. Len(s) : \E j \in 1 .. Len(s) : e[j] = i
          BY <3>1
    <3>3. Len(s) = Cardinality(1 .. Len(s)) /\ \A j \in 1 .. Len(s) : Nth(1 .. Len(s), j) = e[j]
      <4>. DEFINE K == 1 .. Len(s)
      <4>1. /\ K \in SUBSET (1 .. Len(s)) /\ e \in [1 .. Len(s) -> K]
            /\ \A i \in K : \E j \in 1 .. Len(s) : e[j] = i
            BY <3>1, <3>2
      <4>2. \A i, j \in 1 .. Len(s) : i < j => e[i] < e[j]
            BY <3>2
      <4>. HIDE DEF K
      <4>3. Len(s) = Cardinality(K) /\ \A j \in 1 .. Len(s) : Nth(K, j) = e[j]
            BY <1>1, <4>1, <4>2, NthUnique
      <4>. QED BY <4>3 DEF K
    <3>. QED BY <3>1, <3>3
  <2>3. Select(s, 1 .. Len(s)) = [j \in 1 .. Len(s) |-> s[j]]
        BY <2>2 DEF Select
  <2>4. s = [j \in 1 .. Len(s) |-> s[j]]
        BY <1>1
  <2>. QED BY <2>1, <2>3, <2>4 DEF Keep
<1>3. ASSUME Range(s) \cap P = {} PROVE Keep(s, P) = <<>>
  <2>1. Keep(s, P) \in Seq(S) /\ Range(Keep(s, P)) = {}
        BY <1>3, KeepIs
  <2>2. Len(Keep(s, P)) \in Nat /\ ~ \E i \in 1 .. Len(Keep(s, P)) : TRUE
    <3>1. \A x : x \in Range(Keep(s, P)) <=> \E i \in 1 .. Len(Keep(s, P)) : Keep(s, P)[i] = x
          BY <2>1, RangeIs
    <3>. QED BY <2>1, <3>1, LenProperties
  <2>3. Len(Keep(s, P)) = 0
        BY <2>2
  <2>. QED BY <2>1, <2>3, RangeIs
<1>. QED BY <1>2, <1>3

\* Keeping goes through a list from its head.
LEMMA KeepHead ==
  ASSUME NEW S, NEW s \in Seq(S), s # <<>>, NEW P
  PROVE  /\ Head(s) \in P =>
              Keep(s, P) # <<>> /\ Head(Keep(s, P)) = Head(s) /\ Tail(Keep(s, P)) = Keep(Tail(s), P)
         /\ Head(s) \notin P => Keep(s, P) = Keep(Tail(s), P)
<1>1. /\ Head(s) \in S /\ Tail(s) \in Seq(S) /\ Len(s) \in Nat \ {0} /\ Head(s) = s[1]
      /\ Len(Tail(s)) = Len(s) - 1 /\ \A i \in 1 .. Len(s) - 1 : Tail(s)[i] = s[i + 1]
      BY HeadTailIs
<1>2. <<Head(s)>> \in Seq(S) /\ Range(<<Head(s)>>) = {Head(s)} /\ Len(<<Head(s)>>) = 1 /\ <<Head(s)>>[1] = Head(s)
      BY <1>1, OneIs
<1>3. s = <<Head(s)>> \o Tail(s)
  <2>1. /\ <<Head(s)>> \o Tail(s) \in Seq(S) /\ Len(<<Head(s)>> \o Tail(s)) = 1 + Len(Tail(s))
        /\ \A i \in 1 .. 1 + Len(Tail(s)) :
             (<<Head(s)>> \o Tail(s))[i] = IF i <= 1 THEN <<Head(s)>>[i] ELSE Tail(s)[i - 1]
        BY <1>1, <1>2, ConcatProperties
  <2>2. 1 + Len(Tail(s)) = Len(s)
        BY <1>1
  <2>3. ASSUME NEW i \in 1 .. Len(s) PROVE s[i] = (<<Head(s)>> \o Tail(s))[i]
    <3>1. CASE i = 1
          BY <1>1, <1>2, <2>1, <2>2, <3>1
    <3>2. CASE i # 1
      <4>1. ~(i <= 1) /\ i - 1 \in 1 .. Len(s) - 1 /\ (i - 1) + 1 = i
            BY <1>1, <3>2
      <4>. QED BY <1>1, <2>1, <2>2, <4>1
    <3>. QED BY <3>1, <3>2
  <2>4. Len(s) = Len(<<Head(s)>> \o Tail(s)) /\ <<Head(s)>> \o Tail(s) \in Seq(S)
        BY <2>1, <2>2
  <2>. QED BY <2>3, <2>4, SeqEqual
<1>4. Keep(s, P) = Keep(<<Head(s)>>, P) \o Keep(Tail(s), P)
  <2>1. Keep(<<Head(s)>> \o Tail(s), P) = Keep(<<Head(s)>>, P) \o Keep(Tail(s), P)
    <3>1. \A t, u \in Seq(S) : Keep(t \o u, P) = Keep(t, P) \o Keep(u, P)
          BY KeepConcat
    <3>. QED BY <1>1, <1>2, <3>1
  <2>. QED BY <1>3, <2>1
<1>5. Keep(Tail(s), P) \in Seq(S)
      BY <1>1, KeepIs
<1>6. ASSUME Head(s) \in P
      PROVE  Keep(s, P) # <<>> /\ Head(Keep(s, P)) = Head(s) /\ Tail(Keep(s, P)) = Keep(Tail(s), P)
  <2>1. Keep(<<Head(s)>>, P) = <<Head(s)>>
        BY <1>2, <1>6, KeepAll
  <2>2. Keep(s, P) = <<Head(s)>> \o Keep(Tail(s), P)
        BY <1>4, <2>1
  <2>3. <<Head(s)>> # <<>> /\ Head(<<Head(s)>>) = Head(s) /\ Tail(<<Head(s)>>) = <<>>
        OBVIOUS
  <2>4. /\ <<Head(s)>> \o Keep(Tail(s), P) # <<>> /\ Head(<<Head(s)>> \o Keep(Tail(s), P)) = Head(<<Head(s)>>)
        /\ Tail(<<Head(s)>> \o Keep(Tail(s), P)) = Tail(<<Head(s)>>) \o Keep(Tail(s), P)
        BY <1>2, <1>5, <2>3, TailConcat
  <2>5. <<>> \o Keep(Tail(s), P) = Keep(Tail(s), P)
        BY <1>5, ConcatEmptySeq
  <2>. QED BY <2>2, <2>3, <2>4, <2>5
<1>7. ASSUME Head(s) \notin P PROVE Keep(s, P) = Keep(Tail(s), P)
  <2>1. Range(<<Head(s)>>) \cap P = {}
        BY <1>2, <1>7
  <2>2. Keep(<<Head(s)>>, P) = <<>>
        BY <1>2, <2>1, KeepAll
  <2>. QED BY <1>4, <1>5, <2>2, ConcatEmptySeq
<1>. QED BY <1>6, <1>7

-----------------------------------------------------------------------------
(* A sequence of sequences made one.                                       *)

\* A set of numbers that is not empty has a least one.
LEMMA LeastNat ==
  ASSUME NEW T \in SUBSET Nat, T # {}
  PROVE  \E x \in T : \A y \in T : x <= y
<1>1. PICK x \in T : \A y \in T : ~(<<y, x>> \in OpToRel(<, Nat))
      BY NatLessThanWellFounded, WFMin, Zenon
<1>2. \A y \in T : ~(y < x)
      BY <1>1 DEF OpToRel
<1>3. \A y \in T : y \in Nat
      OBVIOUS
<1>. QED BY <1>2, <1>3

\* FlattenSeq is the recursion it is written as: a function that satisfies the
\* equation exists.
LEMMA FlattenUnfolds ==
  ASSUME NEW S, NEW ss \in Seq(Seq(S)), ss # <<>>
  PROVE  \E f : /\ f = [i \in 1 .. Len(ss) |-> IF i = 1 THEN ss[i] ELSE f[i - 1] \o ss[i]]
                /\ FlattenSeq(ss) = f[Len(ss)]
<1>. DEFINE n == Len(ss)
            Folds(f, m) == f = [i \in 1 .. m |-> IF i = 1 THEN ss[i] ELSE f[i - 1] \o ss[i]]
            T == {m \in Nat : ~ \E f : Folds(f, m)}
            fl == CHOOSE f : f = [i \in 1 .. Len(ss) |-> IF i = 1 THEN ss[i] ELSE f[i - 1] \o ss[i]]
<1>1. n \in Nat /\ n # 0
      BY LenProperties, EmptySeq
<1>2. ASSUME T # {} PROVE FALSE
  <2>1. PICK m \in T : \A k \in T : m <= k
    <3>. HIDE DEF Folds
    <3>. QED BY <1>2, LeastNat
  <2>2. m \in Nat /\ ~ \E f : Folds(f, m)
        OBVIOUS
  <2>3. m # 0
    <3>1. Folds([i \in 1 .. 0 |-> 0], 0)
          OBVIOUS
    <3>. HIDE DEF Folds
    <3>. QED BY <2>2, <3>1
  <2>4. m - 1 \in Nat /\ m - 1 \notin T
    <3>. HIDE DEF T
    <3>. QED BY <2>1, <2>2, <2>3
  <2>5. PICK g : Folds(g, m - 1)
    <3>. HIDE DEF Folds
    <3>. QED BY <2>4
  <2>. DEFINE h == [i \in 1 .. m |-> IF i = m THEN (IF m = 1 THEN ss[m] ELSE g[m - 1] \o ss[m]) ELSE g[i]]
  <2>6. \A i \in 1 .. m : h[i] = IF i = 1 THEN ss[i] ELSE h[i - 1] \o ss[i]
    <3> SUFFICES ASSUME NEW i \in 1 .. m PROVE h[i] = IF i = 1 THEN ss[i] ELSE h[i - 1] \o ss[i]
        OBVIOUS
    <3>1. CASE i = m /\ m = 1
          BY <3>1
    <3>2. CASE i = m /\ m # 1
      <4>1. m - 1 \in 1 .. m /\ m - 1 # m
            BY <2>2, <2>3, <3>2
      <4>2. h[m - 1] = g[m - 1]
            BY <4>1
      <4>. QED BY <3>2, <4>2
    <3>3. CASE i # m
      <4>1. i \in 1 .. m - 1 /\ (i # 1 => i - 1 \in 1 .. m /\ i - 1 # m)
            BY <2>2, <3>3
      <4>2. g[i] = IF i = 1 THEN ss[i] ELSE g[i - 1] \o ss[i]
            BY <2>5, <4>1
      <4>3. h[i] = g[i] /\ (i # 1 => h[i - 1] = g[i - 1])
            BY <3>3, <4>1
      <4>. QED BY <4>2, <4>3
    <3>. QED BY <3>1, <3>2, <3>3
  <2>7. DOMAIN h = 1 .. m /\ h = [i \in 1 .. m |-> h[i]]
        OBVIOUS
  <2>8. Folds(h, m)
    <3>. HIDE DEF h
    <3>. QED BY <2>6, <2>7
  <2>. HIDE DEF Folds, h
  <2>. QED BY <2>2, <2>8
<1>3. \E f : f = [i \in 1 .. Len(ss) |-> IF i = 1 THEN ss[i] ELSE f[i - 1] \o ss[i]]
      BY <1>1, <1>2
<1>4. fl = [i \in 1 .. Len(ss) |-> IF i = 1 THEN ss[i] ELSE fl[i - 1] \o ss[i]]
      BY <1>3, Zenon
<1>5. FlattenSeq(ss) = fl[Len(ss)]
      BY <1>1 DEF FlattenSeq
<1>. HIDE DEF fl
<1>. QED BY <1>4, <1>5

\* Every element of a flattened sequence is in one of its parts.
LEMMA FlattenIs ==
  ASSUME NEW S, NEW ss \in Seq(Seq(S))
  PROVE  /\ FlattenSeq(ss) \in Seq(S)
         /\ \A x \in Range(FlattenSeq(ss)) : \E i \in 1 .. Len(ss) : x \in Range(ss[i])
<1>1. CASE ss = <<>>
  <2>1. FlattenSeq(ss) = <<>>
        BY <1>1 DEF FlattenSeq
  <2>. QED BY <2>1 DEF Range
<1>2. CASE ss # <<>>
  <2>1. PICK f : /\ f = [i \in 1 .. Len(ss) |-> IF i = 1 THEN ss[i] ELSE f[i - 1] \o ss[i]]
                 /\ FlattenSeq(ss) = f[Len(ss)]
        BY <1>2, FlattenUnfolds
  <2>2. Len(ss) \in Nat \ {0} /\ \A i \in 1 .. Len(ss) : ss[i] \in Seq(S)
        BY <1>2, LenProperties, EmptySeq
  <2>. DEFINE Good(i) == f[i] \in Seq(S) /\ \A x \in Range(f[i]) : \E k \in 1 .. Len(ss) : x \in Range(ss[k])
              T == {i \in 1 .. Len(ss) : ~Good(i)}
  <2>3. ASSUME T # {} PROVE FALSE
    <3>1. PICK i \in T : \A k \in T : i <= k
      <4>1. T \in SUBSET Nat
        <5>. HIDE DEF Good
        <5>. QED OBVIOUS
      <4>. HIDE DEF T
      <4>. QED BY <2>3, <4>1, LeastNat
    <3>2. i \in 1 .. Len(ss) /\ ~Good(i)
      <4>. HIDE DEF Good
      <4>. QED OBVIOUS
    <3>3. CASE i = 1
      <4>1. f[i] = ss[i]
            BY <2>1, <3>2, <3>3
      <4>. QED BY <2>2, <3>2, <4>1
    <3>4. CASE i # 1
      <4>1. i - 1 \in 1 .. Len(ss) /\ ~(i <= i - 1)
            BY <2>2, <3>2, <3>4
      <4>2. Good(i - 1)
        <5>. HIDE DEF Good
        <5>. QED BY <3>1, <4>1
      <4>3. f[i] = f[i - 1] \o ss[i]
            BY <2>1, <3>2, <3>4
      <4>4. f[i] \in Seq(S) /\ Range(f[i]) = Range(f[i - 1]) \cup Range(ss[i])
            BY <2>2, <3>2, <4>2, <4>3, ConcatProperties, RangeConcatenation
      <4>. QED BY <3>2, <4>2, <4>4
    <3>. QED BY <3>3, <3>4
  <2>4. Good(Len(ss))
    <3>1. Len(ss) \in 1 .. Len(ss)
          BY <2>2
    <3>. HIDE DEF Good
    <3>. QED BY <2>3, <3>1
  <2>. QED BY <2>1, <2>4
<1>. QED BY <1>1, <1>2

=============================================================================
