---------------------------- MODULE QueueProofs -----------------------------
(***************************************************************************)
(* What the proofs need of the queues of the models, of any length: how    *)
(* many of their elements are in a set, as they grow at the end and shrink *)
(* anywhere.                                                               *)
(***************************************************************************)
EXTENDS Integers, Sequences, FiniteSets, FiniteSetTheorems, TLAPS

LEMMA AppendElements ==
    ASSUME NEW T, NEW q \in Seq(T), NEW x \in T
    PROVE  /\ Append(q, x) \in Seq(T) /\ Append(q, x) # <<>>
           /\ Len(Append(q, x)) = Len(q) + 1
           /\ Append(q, x)[Len(q) + 1] = x
           /\ \A k \in 1..Len(q) : Append(q, x)[k] = q[k]
           /\ \A k \in 1..(Len(q) + 1) : k \in 1..Len(q) \/ k = Len(q) + 1
           /\ Len(q) + 1 \notin 1..Len(q)
OBVIOUS

LEMMA TailElements ==
    ASSUME NEW T, NEW q \in Seq(T), q # <<>>
    PROVE  /\ Tail(q) \in Seq(T) /\ Len(Tail(q)) = Len(q) - 1
           /\ 1 \in 1..Len(q) /\ Head(q) = q[1] /\ Head(q) \in T
           /\ \A k \in 1..Len(Tail(q)) : Tail(q)[k] = q[k + 1] /\ k + 1 \in 1..Len(q) /\ 1 < k + 1
OBVIOUS

Places(q, S) == {k \in 1..Len(q) : q[k] \in S}
Count(q, S) == Cardinality(Places(q, S))

LEMMA CountType ==
    ASSUME NEW T, NEW q \in Seq(T), NEW S
    PROVE  /\ IsFiniteSet(Places(q, S))
           /\ Count(q, S) \in Nat
           /\ Count(q, S) = 0 <=> \A k \in 1..Len(q) : q[k] \notin S
<1>1. IsFiniteSet(1..Len(q))
  BY FS_Interval
<1>2. IsFiniteSet(Places(q, S))
  BY <1>1, FS_Subset DEF Places
<1>3. Places(q, S) = {} <=> \A k \in 1..Len(q) : q[k] \notin S
  BY DEF Places
<1>4. QED
  BY <1>2, <1>3, FS_CardinalityType, FS_EmptySet DEF Count

LEMMA CountEmpty == \A S : Count(<<>>, S) = 0
<1>1. \A S : Places(<<>>, S) = {}
  BY DEF Places
<1>2. QED
  BY <1>1, FS_EmptySet DEF Count

\* An element more at the end.
LEMMA CountAppend ==
    ASSUME NEW T, NEW q \in Seq(T), NEW x \in T, NEW S
    PROVE  Count(Append(q, x), S) = Count(q, S) + (IF x \in S THEN 1 ELSE 0)
<1>1. IsFiniteSet(Places(q, S)) /\ Count(q, S) \in Nat
  BY CountType
<1>2. Len(q) + 1 \notin Places(q, S)
  BY DEF Places
<1>3. Places(Append(q, x), S)
        = IF x \in S THEN Places(q, S) \union {Len(q) + 1} ELSE Places(q, S)
  <2>1. Len(q) \in Nat /\ Len(Append(q, x)) = Len(q) + 1 /\ Append(q, x)[Len(q) + 1] = x
        /\ \A k \in 1..Len(q) : Append(q, x)[k] = q[k]
    OBVIOUS
  <2>2. \A k : k \in 1..(Len(q) + 1) <=> k \in 1..Len(q) \/ k = Len(q) + 1
    BY <2>1
  <2>3. QED
    BY <2>1, <2>2 DEF Places
<1>4. CASE x \in S
  BY <1>1, <1>2, <1>3, <1>4, FS_AddElement DEF Count
<1>5. CASE x \notin S
  BY <1>1, <1>3, <1>5 DEF Count
<1>6. QED
  BY <1>4, <1>5

\* r is q without its element n.
Without(q, n, r) ==
    /\ Len(r) = Len(q) - 1
    /\ \A k \in 1..Len(r) : r[k] = q[IF k < n THEN k ELSE k + 1]

LEMMA CountWithout ==
    ASSUME NEW T, NEW q \in Seq(T), NEW n \in 1..Len(q), NEW r \in Seq(T), Without(q, n, r), NEW S
    PROVE  Count(q, S) = Count(r, S) + (IF q[n] \in S THEN 1 ELSE 0)
<1> DEFINE old(k) == IF k < n THEN k ELSE k + 1
           f == [k \in Places(r, S) |-> old(k)]
<1>1. /\ Len(q) \in Nat /\ Len(r) \in Nat /\ Len(r) = Len(q) - 1
      /\ \A k \in 1..Len(r) : r[k] = q[old(k)]
  BY DEF Without
<1>2. \A k \in 1..Len(r) : old(k) \in 1..Len(q) /\ old(k) # n
  BY <1>1
<1>3. \A j, k \in 1..Len(r) : old(j) = old(k) => j = k
  BY <1>1
<1>4. \A i \in 1..Len(q) : i # n => \E k \in 1..Len(r) : old(k) = i
  <2>1. SUFFICES ASSUME NEW i \in 1..Len(q), i # n PROVE \E k \in 1..Len(r) : old(k) = i
    OBVIOUS
  <2>2. CASE i < n
    BY <1>1, <2>2
  <2>3. CASE i > n
    <3>1. i - 1 \in 1..Len(r) /\ old(i - 1) = i
      BY <1>1, <2>3
    <3>2. QED
      BY <3>1
  <2>4. QED
    BY <1>1, <2>1, <2>2, <2>3
<1> HIDE DEF old
<1>5. f \in Bijection(Places(r, S), Places(q, S) \ {n})
  <2>1. f \in [Places(r, S) -> Places(q, S) \ {n}]
    BY <1>1, <1>2 DEF Places
  <2>2. \A j, k \in Places(r, S) : f[j] = f[k] => j = k
    BY <1>3 DEF Places
  <2>3. \A i \in Places(q, S) \ {n} : \E k \in Places(r, S) : f[k] = i
    <3>1. SUFFICES ASSUME NEW i \in Places(q, S) \ {n} PROVE \E k \in Places(r, S) : f[k] = i
      OBVIOUS
    <3>2. PICK k \in 1..Len(r) : old(k) = i
      BY <1>4 DEF Places
    <3>3. k \in Places(r, S)
      BY <1>1, <3>2 DEF Places
    <3>4. QED
      BY <3>2, <3>3
  <2> HIDE DEF f
  <2>4. QED
    BY <2>1, <2>2, <2>3 DEF Bijection, Injection, Surjection, IsInjective
<1> HIDE DEF f
<1>6. IsFiniteSet(Places(r, S)) /\ IsFiniteSet(Places(q, S)) /\ Count(r, S) \in Nat
  BY CountType
<1>7. Cardinality(Places(q, S) \ {n}) = Count(r, S)
  BY <1>5, <1>6, FS_Bijection DEF ExistsBijection, Count
<1>8. n \in Places(q, S) <=> q[n] \in S
  BY DEF Places
<1>9. Cardinality(Places(q, S) \ {n})
        = IF n \in Places(q, S) THEN Cardinality(Places(q, S)) - 1 ELSE Cardinality(Places(q, S))
  BY <1>6, FS_RemoveElement
<1>10. Cardinality(Places(q, S)) \in Nat
  BY <1>6, FS_CardinalityType
<1>11. QED
  BY <1>6, <1>7, <1>8, <1>9, <1>10 DEF Count

LEMMA TailWithout ==
    ASSUME NEW T, NEW q \in Seq(T), q # <<>>
    PROVE  /\ Tail(q) \in Seq(T) /\ 1 \in 1..Len(q) /\ Head(q) = q[1] /\ Head(q) \in T
           /\ Without(q, 1, Tail(q))
<1>1. Len(q) \in Nat /\ Len(q) >= 1 /\ Tail(q) \in Seq(T) /\ Len(Tail(q)) = Len(q) - 1
      /\ Head(q) = q[1] /\ q[1] \in T
  OBVIOUS
<1>2. \A k \in 1..Len(Tail(q)) : Tail(q)[k] = q[k + 1] /\ ~(k < 1)
  BY <1>1
<1>3. QED
  BY <1>1, <1>2 DEF Without

LEMMA CountTail ==
    ASSUME NEW T, NEW q \in Seq(T), q # <<>>, NEW S
    PROVE  Count(q, S) = Count(Tail(q), S) + (IF Head(q) \in S THEN 1 ELSE 0)
<1>1. /\ Tail(q) \in Seq(T) /\ 1 \in 1..Len(q) /\ Head(q) = q[1]
      /\ Without(q, 1, Tail(q))
  BY TailWithout
<1>2. ASSUME NEW r \in Seq(T), Without(q, 1, r)
      PROVE  Count(q, S) = Count(r, S) + (IF q[1] \in S THEN 1 ELSE 0)
  BY <1>1, <1>2, CountWithout
<1>3. QED
  BY <1>1, <1>2

-----------------------------------------------------------------------------
\* The set of the elements of a sequence that grows.
LEMMA RangeAppend ==
    ASSUME NEW T, NEW q \in Seq(T), NEW x \in T
    PROVE  Range(Append(q, x)) = Range(q) \union {x}
<1>1. /\ DOMAIN q = 1..Len(q) /\ Len(q) \in Nat /\ DOMAIN Append(q, x) = 1..(Len(q) + 1)
      /\ Append(q, x)[Len(q) + 1] = x
      /\ \A k \in 1..Len(q) : Append(q, x)[k] = q[k]
  OBVIOUS
<1>2. \A k : k \in 1..(Len(q) + 1) <=> k \in 1..Len(q) \/ k = Len(q) + 1
  BY <1>1
<1>3. \A y : y \in Range(Append(q, x)) <=> y \in Range(q) \/ y = x
  BY <1>1, <1>2 DEF Range
<1>4. QED
  BY <1>3
=============================================================================
