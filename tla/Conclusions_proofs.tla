-------------------------- MODULE Conclusions_proofs --------------------------
(* Proofs about the conclusions of a report (Conclusions): all seven of the      *)
(* properties of ConclusionsSafety hold for any report of any check, whatever    *)
(* hosts, settings, tables, indexes, branches and dates there are.               *)
(*                                                                               *)
(* Three parts. The first is about the operators the checks are built from: the  *)
(* recursive functions (FlattenSeq, the loops) exist and step as written, the    *)
(* result of a check grows and never loses a finding, a list is cut with its     *)
(* mark, versions and sizes convert as meant. The second says, check by check,   *)
(* what the process function makes of the data of its report: a Verdict, the     *)
(* priorities and the ids a result has, in terms of the data and not of the      *)
(* order a loop took. The third is the invariant, ConclusionsInv: what is saved  *)
(* is what the check makes of the report in some order of its loops; and each    *)
(* property follows from it by the verdicts.                                     *)
EXTENDS ConclusionsSafety, Sublist_proofs, FiniteSetTheorems

-----------------------------------------------------------------------------
(* Recursion and sequences.                                                *)

\* A function is defined by recursion if its steps stay in a set T: step[i] leads from
\* value i - 1 to value i.
Steps(n, T, start, step) == n \in Nat /\ start \in T /\ step \in [1 .. n -> [T -> T]]

Values(n, T, start, step, F) ==
  F \in [0 .. n -> T] /\ F[0] = start /\ \A i \in 1 .. n : F[i] = step[i][F[i - 1]]

\* Such a function exists.
LEMMA RecursionExists ==
  ASSUME NEW n, NEW T, NEW start, NEW step, Steps(n, T, start, step)
  PROVE  \E F : Values(n, T, start, step, F)
  <1>0. n \in Nat /\ start \in T /\ step \in [1 .. n -> [T -> T]]
    BY DEF Steps
  <1> DEFINE Upto(k, F) == F \in [0 .. k -> T] /\ F[0] = start /\ \A i \in 1 .. k : F[i] = step[i][F[i - 1]]
             G == {k \in 0 .. n : \E F : Upto(k, F)}
  <1>1. Upto(0, [i \in 0 .. 0 |-> start])
    BY <1>0
  <1>2. ASSUME NEW k \in 0 .. n - 1, NEW F, Upto(k, F)
        PROVE  \E H : Upto(k + 1, H)
    <2> DEFINE new == step[k + 1][F[k]]
               H == [i \in 0 .. k + 1 |-> IF i = k + 1 THEN new ELSE F[i]]
    <2>1. k \in Nat /\ k + 1 \in 1 .. n /\ F[k] \in T /\ new \in T
      BY <1>0, <1>2
    <2>2. H \in [0 .. k + 1 -> T] /\ H[k + 1] = new /\ \A i \in 0 .. k : H[i] = F[i]
      BY <1>2, <2>1
    <2> HIDE DEF H
    <2>3. \A i \in 1 .. k + 1 : i = k + 1 \/ (i \in 1 .. k /\ i \in 0 .. k /\ i - 1 \in 0 .. k)
      BY <2>1
    <2>4. H[0] = start
      BY <1>2, <2>1, <2>2
    <2>5. ASSUME NEW i \in 1 .. k + 1 PROVE H[i] = step[i][H[i - 1]]
      <3>1. CASE i = k + 1
        <4>1. i - 1 = k /\ k \in 0 .. k
          BY <2>1, <3>1
        <4>2. H[i - 1] = F[k] /\ H[i] = new
          BY <2>2, <3>1, <4>1
        <4> QED
          BY <3>1, <4>2
      <3>2. CASE i \in 1 .. k
        BY <1>2, <2>2, <2>3, <3>2
      <3> QED
        BY <2>3, <3>1, <3>2
    <2> QED
      BY <2>2, <2>4, <2>5
  <1> HIDE DEF Upto
  <1>3. 0 \in G /\ \A k \in 0 .. n - 1 : k \in G => k + 1 \in G
    <2>1. 0 \in 0 .. n /\ \A k \in 0 .. n - 1 : k \in 0 .. n /\ k + 1 \in 0 .. n
      BY <1>0
    <2> QED
      BY <1>1, <1>2, <2>1
  <1> HIDE DEF G
  <1>4. n \in G
    BY <1>0, <1>3, UpTo
  <1> QED
    BY <1>4 DEF G, Upto, Values

\* The same for a set: what holds of the first value and is kept by every step holds of
\* them all.
LEMMA RecursionKeeps ==
  ASSUME NEW n \in Nat, NEW G, 0 \in G, \A i \in 1 .. n : i - 1 \in G => i \in G
  PROVE  \A i \in 0 .. n : i \in G
  <1> SUFFICES ASSUME NEW m \in 0 .. n PROVE m \in G
    OBVIOUS
  <1>1. \A k \in 0 .. m - 1 : k + 1 \in 1 .. n /\ (k + 1) - 1 = k
    OBVIOUS
  <1>2. \A k \in 0 .. m - 1 : k \in G => k + 1 \in G
    BY <1>1
  <1> QED
    BY <1>2, UpTo

\* An order of the hosts of a map visits each of them.
LEMMA OrderProperties ==
  ASSUME NEW map, IsFiniteSet(DOMAIN map), NEW order \in Orders(map)
  PROVE  /\ order \in Seq(DOMAIN map)
         /\ Range(order) = DOMAIN map
         /\ {order[i] : i \in 1 .. Len(order)} = DOMAIN map
  <1> DEFINE H == DOMAIN map  n == Cardinality(H)
  <1>1. n \in Nat
    BY FS_CardinalityType
  <1> HIDE DEF n
  <1>2. order \in [1 .. n -> H] /\ \A i, j \in 1 .. n : i # j => order[i] # order[j]
    BY DEF Orders, SetToSeqs, n
  <1>3. order \in Seq(H) /\ Len(order) = n
    BY <1>1, <1>2, SeqDef
  <1>4. Range(order) = H
    <2>1. IsFiniteSet(1 .. n) /\ Cardinality(1 .. n) = n
      BY <1>1, FS_Interval
    <2>3. order \in Injection(1 .. n, H)
      BY <1>2 DEF Injection, IsInjective
    <2>4. order \in Surjection(1 .. n, H)
      BY <2>1, <2>3, FS_Injection DEF n
    <2> QED
      <3>1. \A h \in H : \E i \in 1 .. n : order[i] = h
        BY <2>4 DEF Surjection
      <3>2. DOMAIN order = 1 .. n /\ \A i \in 1 .. n : order[i] \in H
        BY <1>2
      <3> HIDE DEF n, H
      <3> QED
        BY <3>1, <3>2 DEF Range
  <1> QED
    BY <1>3, <1>4, RangeEquality

\* FlattenSeq puts sequences one after the other.
LEMMA FlattenSeqProperties ==
  ASSUME NEW S, NEW seqs \in Seq(Seq(S))
  PROVE  /\ FlattenSeq(seqs) \in Seq(S)
         /\ Range(FlattenSeq(seqs)) = UNION {Range(seqs[i]) : i \in 1 .. Len(seqs)}
  <1> DEFINE n == Len(seqs)
             Flat(F) == F = [i \in 1 .. n |-> IF i = 1 THEN seqs[i] ELSE F[i - 1] \o seqs[i]]
             flatten == CHOOSE F : Flat(F)
  <1>0. n \in Nat /\ \A i \in 1 .. n : seqs[i] \in Seq(S)
    BY LenProperties, ElementOfSeq
  <1>1. CASE n = 0
    <2>1. seqs = <<>>
      BY <1>1, EmptySeq
    <2>2. FlattenSeq(seqs) = seqs
      BY <1>1 DEF FlattenSeq
    <2>3. Range(seqs) = {} /\ UNION {Range(seqs[i]) : i \in 1 .. n} = {}
      BY <1>1, <2>1 DEF Range
    <2>4. seqs \in Seq(S)
      BY <2>1, EmptySeq
    <2> HIDE DEF n
    <2>5. FlattenSeq(seqs) \in Seq(S) /\ Range(FlattenSeq(seqs)) = UNION {Range(seqs[i]) : i \in 1 .. n}
      BY <2>2, <2>3, <2>4
    <2> QED
      BY <2>5 DEF n
  <1>2. CASE n > 0
    <2>1. FlattenSeq(seqs) = flatten[n]
      BY <1>2 DEF FlattenSeq
    <2>2. \E F : Flat(F)
      <3> DEFINE step == [i \in 1 .. n |-> [x \in Seq(S) |-> x \o seqs[i]]]
      <3>1. \A i \in 1 .. n, x \in Seq(S) : x \o seqs[i] \in Seq(S)
        BY <1>0, ConcatProperties
      <3>2. step \in [1 .. n -> [Seq(S) -> Seq(S)]]
        BY <3>1
      <3>3. \A i \in 1 .. n, x \in Seq(S) : step[i][x] = x \o seqs[i]
        OBVIOUS
      <3>4. <<>> \in Seq(S)
        BY EmptySeq
      <3> HIDE DEF n, step
      <3>5. PICK F \in [0 .. n -> Seq(S)] : F[0] = <<>> /\ \A i \in 1 .. n : F[i] = step[i][F[i - 1]]
        <4> DEFINE T == Seq(S)  start == <<>>
        <4>1. n \in Nat /\ start \in T /\ step \in [1 .. n -> [T -> T]]
          BY <1>0, <3>2, <3>4
        <4> HIDE DEF T, start
        <4>2. Steps(n, T, start, step)
          BY <4>1 DEF Steps
        <4>3. PICK F : Values(n, T, start, step, F)
          BY <4>2, RecursionExists
        <4> QED
          BY <4>3 DEF Values, T, start
      <3> DEFINE H == [i \in 1 .. n |-> F[i]]
      <3>6. ASSUME NEW i \in 1 .. n PROVE H[i] = IF i = 1 THEN seqs[i] ELSE H[i - 1] \o seqs[i]
        <4>1. i - 1 \in 0 .. n /\ F[i - 1] \in Seq(S)
          BY <1>0
        <4>2. F[i] = F[i - 1] \o seqs[i]
          BY <3>3, <3>5, <4>1
        <4>3. CASE i = 1
          <5>1. F[i - 1] = <<>>
            BY <3>5, <4>3
          <5>2. F[i] = <<>> \o seqs[i]
            BY <4>2, <5>1
          <5> QED
            BY <1>0, <4>3, <5>2, ConcatEmptySeq
        <4>4. CASE i # 1
          <5>1. i - 1 \in 1 .. n
            BY <1>0, <4>4
          <5> QED
            BY <4>2, <4>4, <5>1
        <4> QED
          BY <4>3, <4>4
      <3>7. H = [i \in 1 .. n |-> IF i = 1 THEN seqs[i] ELSE H[i - 1] \o seqs[i]]
        BY <3>6, SMTT(30)
      <3> HIDE DEF H
      <3> QED
        BY <3>7
    <2> HIDE DEF n
    <2>3. Flat(flatten)
      BY <2>2, Zenon
    <2> HIDE DEF flatten
    <2>4. \A i \in 1 .. n : flatten[i] = IF i = 1 THEN seqs[i] ELSE flatten[i - 1] \o seqs[i]
      BY <2>3
    <2> HIDE DEF Flat
    <2> DEFINE Good(i) == flatten[i] \in Seq(S) /\ Range(flatten[i]) = UNION {Range(seqs[j]) : j \in 1 .. i}
               G == {i \in 0 .. n : i = 0 \/ Good(i)}
    <2>5. ASSUME NEW i \in 1 .. n, i - 1 \in G PROVE i \in G
      <3>1. CASE i = 1
        BY <1>0, <2>4, <3>1
      <3>2. CASE i # 1
        <4>1. Good(i - 1)
          BY <2>5, <3>2
        <4>2. flatten[i] = flatten[i - 1] \o seqs[i]
          BY <2>4, <3>2
        <4>3. Range(flatten[i]) = Range(flatten[i - 1]) \cup Range(seqs[i])
          BY <1>0, <4>1, <4>2, RangeConcatenation
        <4>4. \A j : j \in 1 .. i <=> j \in 1 .. i - 1 \/ j = i
          BY <1>0
        <4>5. (UNION {Range(seqs[j]) : j \in 1 .. i}) = (UNION {Range(seqs[j]) : j \in 1 .. i - 1}) \cup Range(seqs[i])
          BY <4>4
        <4>6. flatten[i] \in Seq(S)
          BY <1>0, <4>1, <4>2, ConcatProperties
        <4>7. Good(i)
          BY <4>1, <4>3, <4>5, <4>6
        <4> QED
          BY <4>7
      <3> QED
        BY <3>1, <3>2
    <2>6. 0 \in G
      BY <1>0
    <2> HIDE DEF G
    <2>7. n \in G
      <3>1. \A i \in 0 .. n : i \in G
        BY <1>0, <2>5, <2>6, RecursionKeeps
      <3> QED
        BY <1>0, <3>1
    <2> QED
      BY <1>0, <1>2, <2>1, <2>7 DEF G, n
  <1> QED
    BY <1>0, <1>1, <1>2

\* The elements of a finite set as a sequence.
LEMMA SetToSeqProperties ==
  ASSUME NEW S, IsFiniteSet(S)
  PROVE  SetToSeq(S) \in Seq(S) /\ Range(SetToSeq(S)) = S
  <1> DEFINE n == Cardinality(S)
  <1>1. n \in Nat
    BY FS_CardinalityType
  <1>2. IsFiniteSet(1 .. n) /\ Cardinality(1 .. n) = n
    BY <1>1, FS_Interval
  <1>3. \E f \in [1 .. n -> S] : IsInjective(f)
    <2>1. ExistsBijection(1 .. n, S)
      BY <1>2, FS_SameCardinalityBij
    <2> QED
      BY <2>1 DEF ExistsBijection, Bijection, Injection
  <1>4. SetToSeq(S) \in [1 .. n -> S] /\ IsInjective(SetToSeq(S))
    BY <1>3 DEF SetToSeq
  <1>5. SetToSeq(S) \in Injection(1 .. n, S)
    BY <1>4 DEF Injection
  <1>6. SetToSeq(S) \in Surjection(1 .. n, S)
    BY <1>2, <1>5, FS_Injection
  <1> HIDE DEF n
  <1>7. SetToSeq(S) \in Seq(S)
    BY <1>1, <1>4, SeqDef
  <1> QED
    BY <1>4, <1>6, <1>7 DEF Surjection, Range

\* Of finitely many things with a number one has the largest.
LEMMA Greatest ==
  ASSUME NEW T, IsFiniteSet(T), T # {}, NEW value, \A x \in T : value[x] \in Int
  PROVE  \E x \in T : \A y \in T : value[y] <= value[x]
  <1> DEFINE Above(x) == {y \in T : value[y] > value[x]}
             N == {Cardinality(Above(x)) : x \in T}
  <1>1. \A x \in T : IsFiniteSet(Above(x)) /\ Cardinality(Above(x)) \in Nat
    BY FS_Subset, FS_CardinalityType
  <1>2. N \in SUBSET Nat /\ N # {}
    BY <1>1
  <1>3. PICK n \in N : \A m \in N : n <= m
    BY <1>2, Least
  <1>4. PICK x \in T : n = Cardinality(Above(x))
    BY <1>3
  <1>5. ASSUME NEW y \in T, value[y] > value[x] PROVE FALSE
    <2>1. Above(y) \subseteq Above(x) /\ y \in Above(x) /\ y \notin Above(y)
      BY <1>5
    <2>2. Above(y) # Above(x)
      BY <2>1
    <2>3. Cardinality(Above(y)) < Cardinality(Above(x))
      <3> HIDE DEF Above
      <3> QED
        BY <1>1, <2>1, <2>2, FS_Subset
    <2>4. Cardinality(Above(x)) <= Cardinality(Above(y))
      BY <1>3, <1>4
    <2> QED
      BY <1>1, <2>3, <2>4
  <1> QED
    BY <1>5

\* The largest of finitely many numbers.
LEMMA MaxProperties ==
  ASSUME NEW S \in SUBSET Int, IsFiniteSet(S), S # {}
  PROVE  Max(S) \in S /\ \A y \in S : Max(S) >= y
  <1> DEFINE value == [x \in S |-> x]
  <1>1. \E x \in S : \A y \in S : value[y] <= value[x]
    <2>1. \A x \in S : value[x] \in Int
      OBVIOUS
    <2> HIDE DEF value
    <2> QED
      BY <2>1, Greatest
  <1>2. \E x \in S : \A y \in S : x >= y
    BY <1>1
  <1> QED
    BY <1>2 DEF Max

\* SortItems gives every item once.
LEMMA SortItemsProperties ==
  ASSUME NEW value, NEW reverse \in BOOLEAN, IsFiniteSet(DOMAIN value),
         \A id \in DOMAIN value : value[id] \in Int
  PROVE  /\ SortItems(value, reverse) \in Seq(DOMAIN value)
         /\ Range(SortItems(value, reverse)) = DOMAIN value
  <1> DEFINE D == DOMAIN value
             n == Cardinality(D)
             Ahead(a, b) == IF reverse THEN value[a] >= value[b] ELSE value[a] <= value[b]
             First(ids) == CHOOSE id \in ids : \A other \in ids : Ahead(id, other)
             Rest(R) == R = [i \in 0 .. n |-> IF i = 0 THEN D ELSE R[i - 1] \ {First(R[i - 1])}]
             rest == CHOOSE R : Rest(R)
  <1>1. n \in Nat
    BY FS_CardinalityType
  <1>2. ASSUME NEW ids \in SUBSET D, ids # {} PROVE First(ids) \in ids
    <2>1. IsFiniteSet(ids)
      BY FS_Subset
    <2>2. \E id \in ids : \A other \in ids : value[other] <= value[id]
      BY <1>2, <2>1, Greatest
    <2>3. \E id \in ids : \A other \in ids : value[id] <= value[other]
      <3> DEFINE minus == [id \in ids |-> -value[id]]
      <3>1. \A id \in ids : minus[id] \in Int /\ minus[id] = -value[id]
        OBVIOUS
      <3> HIDE DEF minus
      <3>2. \E id \in ids : \A other \in ids : minus[other] <= minus[id]
        BY <1>2, <2>1, <3>1, Greatest
      <3> QED
        BY <3>1, <3>2
    <2>4. \E id \in ids : \A other \in ids : Ahead(id, other)
      BY <2>2, <2>3
    <2> HIDE DEF Ahead
    <2> QED
      BY <2>4
  <1> HIDE DEF n, First
  <1>3. SortItems(value, reverse) = [i \in 1 .. n |-> First(rest[i - 1])]
    BY DEF SortItems, n, First
  <1>4. \E R : Rest(R)
    <2> DEFINE T == SUBSET D
               step == [i \in 1 .. n |-> [x \in T |-> x \ {First(x)}]]
    <2>1. /\ step \in [1 .. n -> [T -> T]]
          /\ \A i \in 1 .. n, x \in T : step[i][x] = x \ {First(x)}
      OBVIOUS
    <2>2. D \in T
      OBVIOUS
    <2> HIDE DEF T, step
    <2>3. Steps(n, T, D, step)
      BY <1>1, <2>1, <2>2 DEF Steps
    <2>4. PICK F : Values(n, T, D, step, F)
      BY <2>3, RecursionExists
    <2>5. F \in [0 .. n -> T] /\ F[0] = D /\ \A i \in 1 .. n : F[i] = step[i][F[i - 1]]
      BY <2>4 DEF Values
    <2>6. ASSUME NEW i \in 0 .. n PROVE F[i] = IF i = 0 THEN D ELSE F[i - 1] \ {First(F[i - 1])}
      <3>1. CASE i = 0
        BY <2>5, <3>1
      <3>2. CASE i # 0
        <4>1. i \in 1 .. n /\ i - 1 \in 0 .. n
          BY <1>1, <3>2
        <4>2. F[i - 1] \in T
          BY <2>5, <4>1
        <4> QED
          BY <2>1, <2>5, <3>2, <4>1, <4>2
      <3> QED
        BY <3>1, <3>2
    <2>7. F = [i \in 0 .. n |-> IF i = 0 THEN D ELSE F[i - 1] \ {First(F[i - 1])}]
      BY <2>5, <2>6
    <2> QED
      BY <2>7
  <1>5. Rest(rest)
    BY <1>4
  <1> HIDE DEF rest
  <1>6. rest[0] = D /\ \A i \in 1 .. n : rest[i] = rest[i - 1] \ {First(rest[i - 1])}
    <2>1. \A i \in 0 .. n : rest[i] = IF i = 0 THEN D ELSE rest[i - 1] \ {First(rest[i - 1])}
      BY <1>5
    <2>2. 0 \in 0 .. n /\ \A i \in 1 .. n : i \in 0 .. n /\ i # 0
      BY <1>1
    <2> QED
      BY <2>1, <2>2
  <1> HIDE DEF Rest
  <1> DEFINE given(i) == {First(rest[j - 1]) : j \in 1 .. i}
             Good(i) == /\ rest[i] \subseteq D /\ IsFiniteSet(rest[i]) /\ Cardinality(rest[i]) = n - i
                        /\ D \ rest[i] = given(i)
             G == {i \in 0 .. n : Good(i)}
  <1>7. 0 \in G
    BY <1>1, <1>6 DEF n
  <1>8. ASSUME NEW i \in 1 .. n, i - 1 \in G PROVE i \in G /\ First(rest[i - 1]) \in D
    <2> DEFINE old == rest[i - 1]  x == First(rest[i - 1])
    <2>1. /\ old \subseteq D /\ IsFiniteSet(old) /\ Cardinality(old) = n - (i - 1)
          /\ D \ old = given(i - 1) /\ rest[i] = old \ {x}
      BY <1>6, <1>8
    <2>2. i \in 0 .. n /\ n - (i - 1) # 0
      BY <1>1
    <2>3. old # {}
      BY <2>1, <2>2, FS_EmptySet
    <2>4. x \in old
      BY <1>2, <2>1, <2>3
    <2>5. given(i) = given(i - 1) \cup {x}
      <3>1. \A j : j \in 1 .. i <=> j \in 1 .. i - 1 \/ j = i
        BY <1>1
      <3> QED
        BY <3>1
    <2> HIDE DEF given, old, x
    <2>6. IsFiniteSet(old \ {x}) /\ Cardinality(old \ {x}) = Cardinality(old) - 1
      BY <2>1, <2>4, FS_RemoveElement
    <2>7. Cardinality(old \ {x}) = n - i
      BY <1>1, <2>1, <2>6
    <2>8. D \ (old \ {x}) = given(i)
      BY <2>1, <2>4, <2>5
    <2>9. i \in G
      BY <2>1, <2>2, <2>6, <2>7, <2>8
    <2> QED
      BY <2>1, <2>4, <2>9 DEF x
  <1>9. \A i \in 0 .. n : i \in G
    <2> HIDE DEF G
    <2> QED
      BY <1>1, <1>7, <1>8, RecursionKeeps
  <1>10. \A i \in 1 .. n : First(rest[i - 1]) \in D
    BY <1>1, <1>8, <1>9
  <1>11. D = given(n)
    <2>1. Good(n)
      BY <1>1, <1>9
    <2>2. Cardinality(rest[n]) = 0
      BY <1>1, <2>1
    <2>3. rest[n] = {}
      BY <2>1, <2>2, FS_EmptySet
    <2> QED
      BY <2>1, <2>3
  <1>12. SortItems(value, reverse) \in Seq(D) /\ Len(SortItems(value, reverse)) = n
    BY <1>1, <1>3, <1>10, SeqDef
  <1>13. Range(SortItems(value, reverse)) = given(n)
    BY <1>3 DEF Range
  <1> QED
    BY <1>11, <1>12, <1>13

\* LimitList: at most six names; the whole list, or five names and the mark.
LEMMA LimitListProperties ==
  ASSUME NEW S, NEW list \in Seq(S)
  PROVE  /\ LimitList(list) = list \/ (Len(list) > Len(LimitList(list)) /\ Len(LimitList(list)) = 6
                                         /\ Last(LimitList(list)) = MSG_ETC_ITEM)
         /\ Range(LimitList(list)) \subseteq Range(list) \cup {MSG_ETC_ITEM}
  <1>1. CASE ~(Len(list) > RECOMMENDATION_ITEMS_LIMIT + 1)
    <2>1. LimitList(list) = list
      BY <1>1, Zenon DEF LimitList
    <2> QED
      BY <2>1
  <1>2. CASE Len(list) > RECOMMENDATION_ITEMS_LIMIT + 1
    <2> DEFINE part == SubSeq(list, 1, 5)  T == S \cup {MSG_ETC_ITEM}
    <2>1. LimitList(list) = Append(part, MSG_ETC_ITEM)
      BY <1>2, Zenon DEF LimitList, RECOMMENDATION_ITEMS_LIMIT
    <2>2. Len(list) > 6 /\ Len(list) \in Nat
      BY <1>2, LenProperties DEF RECOMMENDATION_ITEMS_LIMIT
    <2>3. /\ part \in Seq(S) /\ Len(part) = 5
          /\ \A i \in 1 .. 5 : part[i] = list[i]
      BY <2>2, SubSeqProperties
    <2>4. part \in Seq(T) /\ MSG_ETC_ITEM \in T
      BY <2>3, SeqMonotonic
    <2> HIDE DEF part, T
    <2>5. /\ Append(part, MSG_ETC_ITEM) \in Seq(T)
          /\ Len(Append(part, MSG_ETC_ITEM)) = 6
          /\ \A i \in 1 .. 5 : Append(part, MSG_ETC_ITEM)[i] = part[i]
          /\ Append(part, MSG_ETC_ITEM)[6] = MSG_ETC_ITEM
      <3>1. /\ Append(part, MSG_ETC_ITEM) \in Seq(T)
            /\ Len(Append(part, MSG_ETC_ITEM)) = Len(part) + 1
            /\ \A i \in 1 .. Len(part) : Append(part, MSG_ETC_ITEM)[i] = part[i]
            /\ Append(part, MSG_ETC_ITEM)[Len(part) + 1] = MSG_ETC_ITEM
        BY <2>4, AppendProperties
      <3> QED
        BY <3>1, <2>3
    <2> DEFINE all == Append(part, MSG_ETC_ITEM)
    <2>6. Len(all) = 6 /\ all[6] = MSG_ETC_ITEM /\ \A i \in 1 .. 5 : all[i] = list[i]
      BY <2>3, <2>5
    <2>7. Range(all) = {all[i] : i \in 1 .. 6}
      BY <2>5, RangeEquality, ZenonT(60)
    <2>8. Range(list) = {list[i] : i \in 1 .. Len(list)}
      BY RangeEquality
    <2> HIDE DEF all
    <2>9. ASSUME NEW i \in 1 .. 6 PROVE all[i] \in Range(list) \cup {MSG_ETC_ITEM}
      <3>1. CASE i = 6
        BY <2>6, <3>1
      <3>2. CASE i # 6
        <4>1. i \in 1 .. 5 /\ i \in 1 .. Len(list)
          BY <2>2, <3>2
        <4> QED
          BY <2>6, <2>8, <4>1
      <3> QED
        BY <3>1, <3>2
    <2>10. LimitList(list) = all
      BY <2>1 DEF all
    <2>11. Last(all) = MSG_ETC_ITEM
      BY <2>6 DEF Last
    <2>12. Range(all) \subseteq Range(list) \cup {MSG_ETC_ITEM}
      BY <2>7, <2>9
    <2> QED
      BY <2>2, <2>6, <2>10, <2>11, <2>12
  <1> QED
    BY <1>1, <1>2

-----------------------------------------------------------------------------
(* What a result says.  ResultOf(S): its items are in S.                   *)
ResultOf(S) == [P1 : BOOLEAN, P2 : BOOLEAN, P3 : BOOLEAN, Conclusions : Seq(S), Recommendations : Seq(S)]

\* Every item has an id and a message.
WellFormed(S) == \A x \in S : DOMAIN x = {"Id", "Message"} /\ Len(x.Message) > 0

Flagged(r) == {p \in Priority : r[p]}
Said(items) == {<<items[i].Id, items[i].Message>> : i \in DOMAIN items}

Conc(r) == Said(r.Conclusions)
Recs(r) == Said(r.Recommendations)

\* q is what r becomes if flags are raised, and conclusions and recommendations added.
AddsIn(S, q, r, ps, cs, rs) ==
  /\ q \in ResultOf(S)
  /\ Flagged(q) = Flagged(r) \cup ps
  /\ Conc(q) = Conc(r) \cup cs
  /\ Recs(q) = Recs(r) \cup rs

\* The empty result says nothing.
LEMMA NoResultSays ==
  ASSUME NEW S
  PROVE  /\ NoResult \in ResultOf(S)
         /\ Flagged(NoResult) = {} /\ Conc(NoResult) = {} /\ Recs(NoResult) = {}
  <1>1. <<>> \in Seq(S)
    BY EmptySeq
  <1>2. NoResult \in ResultOf(S)
    BY <1>1 DEF NoResult, ResultOf
  <1>3. Flagged(NoResult) = {}
    BY DEF Flagged, Priority, NoResult
  <1>4. NoResult.Conclusions = <<>> /\ NoResult.Recommendations = <<>>
    BY DEF NoResult
  <1>5. Said(<<>>) = {}
    BY DEF Said
  <1> QED
    BY <1>2, <1>3, <1>4, <1>5 DEF Conc, Recs

\* Raise adds a flag and no item.
LEMMA RaiseSays ==
  ASSUME NEW S, NEW r \in ResultOf(S), NEW p \in Priority
  PROVE  AddsIn(S, Raise(r, p), r, {p}, {}, {})
  <1> DEFINE q == Raise(r, p)
  <1>1. /\ q \in ResultOf(S) /\ q.Conclusions = r.Conclusions /\ q.Recommendations = r.Recommendations
        /\ q.P1 = (p = "P1" \/ r.P1) /\ q.P2 = (p = "P2" \/ r.P2) /\ q.P3 = (p = "P3" \/ r.P3)
    BY DEF Raise, ResultOf, Priority
  <1> HIDE DEF q
  <1>2. Flagged(q) = Flagged(r) \cup {p}
    BY <1>1 DEF Flagged, Priority, ResultOf
  <1>3. Conc(q) = Conc(r) /\ Recs(q) = Recs(r)
    BY <1>1, Zenon DEF Conc, Recs
  <1> QED
    BY <1>1, <1>2, <1>3 DEF AddsIn, q

\* What a list says when an item is appended to it.
LEMMA SaidAppend ==
  ASSUME NEW S, NEW items \in Seq(S), NEW id, NEW message, Item(id, message) \in S
  PROVE  /\ Append(items, Item(id, message)) \in Seq(S)
         /\ Said(Append(items, Item(id, message))) = Said(items) \cup {<<id, message>>}
  <1> DEFINE x == Item(id, message)  all == Append(items, x)  n == Len(items)
  <1>1. x \in S /\ x.Id = id /\ x.Message = message
    BY DEF Item
  <1> HIDE DEF x
  <1>2. /\ all \in Seq(S) /\ Len(all) = n + 1
        /\ \A i \in 1 .. n : all[i] = items[i]
        /\ all[n + 1] = x
    BY <1>1, AppendProperties
  <1>3. DOMAIN items = 1 .. n /\ DOMAIN all = 1 .. n + 1 /\ n \in Nat
    BY <1>2, LenProperties
  <1> HIDE DEF all, n
  <1>4. \A i : i \in 1 .. n + 1 <=> i \in 1 .. n \/ i = n + 1
    BY <1>3
  <1>5. Said(all) = Said(items) \cup {<<id, message>>}
    <2> DEFINE f(s, i) == <<s[i].Id, s[i].Message>>
    <2>1. \A i \in 1 .. n : f(all, i) = f(items, i)
      BY <1>2
    <2>2. f(all, n + 1) = <<id, message>>
      BY <1>1, <1>2
    <2>3. Said(all) = {f(all, i) : i \in 1 .. n + 1} /\ Said(items) = {f(items, i) : i \in 1 .. n}
      BY <1>3 DEF Said
    <2> HIDE DEF f
    <2>4. Said(all) = {f(all, i) : i \in 1 .. n} \cup {f(all, n + 1)}
      BY <1>4, <2>3
    <2> QED
      BY <2>1, <2>2, <2>3, <2>4
  <1> QED
    BY <1>2, <1>5 DEF all, x

\* AppendConclusion adds a conclusion and nothing else.
LEMMA ConclusionSays ==
  ASSUME NEW S, NEW r \in ResultOf(S), NEW id, NEW message, Item(id, message) \in S
  PROVE  AddsIn(S, AppendConclusion(r, id, message), r, {}, {<<id, message>>}, {})
  <1> DEFINE q == AppendConclusion(r, id, message)  all == Append(r.Conclusions, Item(id, message))
  <1>1. r.Conclusions \in Seq(S)
    BY DEF ResultOf
  <1>2. all \in Seq(S) /\ Said(all) = Said(r.Conclusions) \cup {<<id, message>>}
    BY <1>1, SaidAppend
  <1>3. q = [r EXCEPT !.Conclusions = all]
    BY DEF AppendConclusion
  <1> HIDE DEF q, all
  <1>4. /\ q \in ResultOf(S) /\ q.Conclusions = all /\ q.Recommendations = r.Recommendations
        /\ q.P1 = r.P1 /\ q.P2 = r.P2 /\ q.P3 = r.P3
    BY <1>2, <1>3 DEF ResultOf
  <1>5. Flagged(q) = Flagged(r)
    BY <1>4 DEF Flagged, Priority, ResultOf
  <1> QED
    BY <1>2, <1>4, <1>5 DEF AddsIn, Conc, Recs, q

\* AppendRecommendation adds a recommendation and nothing else, unless it is empty.
LEMMA RecommendationSays ==
  ASSUME NEW S, NEW r \in ResultOf(S), NEW id, NEW message, Item(id, message) \in S, message # NoText
  PROVE  AddsIn(S, AppendRecommendation(r, id, message), r, {}, {}, {<<id, message>>})
  <1> DEFINE q == AppendRecommendation(r, id, message)  all == Append(r.Recommendations, Item(id, message))
  <1>1. r.Recommendations \in Seq(S)
    BY DEF ResultOf
  <1>2. all \in Seq(S) /\ Said(all) = Said(r.Recommendations) \cup {<<id, message>>}
    BY <1>1, SaidAppend
  <1>3. q = [r EXCEPT !.Recommendations = all]
    BY DEF AppendRecommendation
  <1> HIDE DEF q, all
  <1>4. /\ q \in ResultOf(S) /\ q.Recommendations = all /\ q.Conclusions = r.Conclusions
        /\ q.P1 = r.P1 /\ q.P2 = r.P2 /\ q.P3 = r.P3
    BY <1>2, <1>3 DEF ResultOf
  <1>5. Flagged(q) = Flagged(r)
    BY <1>4 DEF Flagged, Priority, ResultOf
  <1> QED
    BY <1>2, <1>4, <1>5 DEF AddsIn, Conc, Recs, q

\* A list is empty if it says nothing; an id is in it if something is said under it.
LEMMA SaidProperties ==
  ASSUME NEW S, NEW items \in Seq(S)
  PROVE  /\ items = <<>> <=> Said(items) = {}
         /\ \A id : ResultInList(items, id) <=> \E s \in Said(items) : s[1] = id
         /\ Ids(items) = {s[1] : s \in Said(items)}
         /\ \A id : Messages(items, id) = {s[2] : s \in {t \in Said(items) : t[1] = id}}
  <1>1. items = <<>> <=> DOMAIN items = {}
    BY EmptySeq, LenProperties
  <1>2. items = <<>> <=> Said(items) = {}
    BY <1>1 DEF Said
  <1> DEFINE f(i) == <<items[i].Id, items[i].Message>>  D == DOMAIN items
  <1>3. /\ \A i : f(i)[1] = items[i].Id /\ f(i)[2] = items[i].Message
        /\ Said(items) = {f(i) : i \in D}
    BY DEF Said
  <1> HIDE DEF f
  <1>4. ASSUME NEW id PROVE ResultInList(items, id) <=> \E s \in Said(items) : s[1] = id
    <2>1. ResultInList(items, id) <=> \E i \in D : items[i].Id = id
      BY DEF ResultInList
    <2> HIDE DEF D
    <2> QED
      BY <1>3, <2>1
  <1>5. Ids(items) = {s[1] : s \in Said(items)}
    <2>1. Ids(items) = {items[i].Id : i \in D}
      BY DEF Ids
    <2> HIDE DEF D
    <2>2. {items[i].Id : i \in D} = {f(i)[1] : i \in D}
      BY <1>3
    <2>3. {f(i)[1] : i \in D} = {s[1] : s \in {f(i) : i \in D}}
      OBVIOUS
    <2> QED
      BY <1>3, <2>1, <2>2, <2>3
  <1>6. ASSUME NEW id PROVE Messages(items, id) = {s[2] : s \in {t \in Said(items) : t[1] = id}}
    <2> DEFINE I == {j \in D : items[j].Id = id}
               T == {t \in Said(items) : t[1] = id}
    <2>1. \A i \in I : f(i) \in T /\ f(i)[2] = items[i].Message
      BY <1>3
    <2>2. \A s \in T : \E i \in I : s = f(i)
      BY <1>3
    <2>3. Messages(items, id) = {items[i].Message : i \in I}
      BY DEF Messages
    <2> HIDE DEF I, T
    <2>4. {items[i].Message : i \in I} = {f(i)[2] : i \in I}
      BY <1>3
    <2>5. {f(i)[2] : i \in I} = {s[2] : s \in T}
      BY <2>1, <2>2
    <2> QED
      BY <2>3, <2>4, <2>5 DEF T
  <1> QED
    BY <1>2, <1>4, <1>5, <1>6

-----------------------------------------------------------------------------
(* The same without the set of items: it grows with every item.            *)
Typed(r) == \E S : WellFormed(S) /\ r \in ResultOf(S)

Adds(q, r, ps, cs, rs) ==
  /\ Typed(q)
  /\ Flagged(q) = Flagged(r) \cup ps
  /\ Conc(q) = Conc(r) \cup cs
  /\ Recs(q) = Recs(r) \cup rs

\* The set of items of a well-formed result may be extended by any item with a message.
LEMMA TypedIn ==
  ASSUME NEW r, Typed(r), NEW id, NEW message, Len(message) > 0
  PROVE  \E S : WellFormed(S) /\ r \in ResultOf(S) /\ Item(id, message) \in S
  <1>1. PICK S : WellFormed(S) /\ r \in ResultOf(S)
    BY DEF Typed
  <1> DEFINE x == Item(id, message)  T == S \cup {x}
  <1>2. DOMAIN x = {"Id", "Message"} /\ x.Message = message
    BY DEF Item
  <1> HIDE DEF x
  <1>3. WellFormed(T)
    BY <1>1, <1>2 DEF WellFormed
  <1>4. Seq(S) \subseteq Seq(T)
    BY SeqMonotonic
  <1> HIDE DEF T
  <1>5. r \in ResultOf(T)
    BY <1>1, <1>4 DEF ResultOf
  <1> QED
    BY <1>3, <1>5 DEF T, x

\* The empty result is well-formed.
LEMMA NoResultTyped == Typed(NoResult) /\ Flagged(NoResult) = {} /\ Conc(NoResult) = {} /\ Recs(NoResult) = {}
  <1>1. WellFormed({})
    BY DEF WellFormed
  <1> QED
    BY <1>1, NoResultSays DEF Typed

\* The three operations on well-formed results, without a set of items.
LEMMA RaiseAdds ==
  ASSUME NEW r, Typed(r), NEW p \in Priority
  PROVE  Adds(Raise(r, p), r, {p}, {}, {})
  BY RaiseSays DEF Adds, AddsIn, Typed

\* The same for a conclusion ...
LEMMA ConclusionAdds ==
  ASSUME NEW r, Typed(r), NEW id, NEW message, Len(message) > 0
  PROVE  Adds(AppendConclusion(r, id, message), r, {}, {<<id, message>>}, {})
  <1>1. PICK S : WellFormed(S) /\ r \in ResultOf(S) /\ Item(id, message) \in S
    BY TypedIn
  <1>2. AddsIn(S, AppendConclusion(r, id, message), r, {}, {<<id, message>>}, {})
    BY <1>1, ConclusionSays
  <1> QED
    BY <1>1, <1>2 DEF Adds, AddsIn, Typed

\* ... and for a recommendation.
LEMMA RecommendationAdds ==
  ASSUME NEW r, Typed(r), NEW id, NEW message, Len(message) > 0
  PROVE  Adds(AppendRecommendation(r, id, message), r, {}, {}, {<<id, message>>})
  <1>1. PICK S : WellFormed(S) /\ r \in ResultOf(S) /\ Item(id, message) \in S
    BY TypedIn
  <1>2. message # NoText
    BY DEF NoText
  <1>3. AddsIn(S, AppendRecommendation(r, id, message), r, {}, {}, {<<id, message>>})
    BY <1>1, <1>2, RecommendationSays
  <1> QED
    BY <1>1, <1>3 DEF Adds, AddsIn, Typed

\* What most checks do: raise a priority, say why, and advise.
Reported(r, p, id, message, advice) ==
  AppendRecommendation(AppendConclusion(Raise(r, p), id, message), id, advice)

\* A flag, a conclusion and advice at once.
LEMMA ReportedAdds ==
  ASSUME NEW r, Typed(r), NEW p \in Priority, NEW id, NEW message, Len(message) > 0,
         NEW advice, Len(advice) > 0
  PROVE  Adds(Reported(r, p, id, message, advice), r, {p}, {<<id, message>>}, {<<id, advice>>})
  <1> DEFINE r1 == Raise(r, p)  r2 == AppendConclusion(r1, id, message)
             r3 == AppendRecommendation(r2, id, advice)
  <1>1. Adds(r1, r, {p}, {}, {})
    BY RaiseAdds
  <1> HIDE DEF r1
  <1>2. Typed(r1)
    BY <1>1 DEF Adds
  <1>3. Adds(r2, r1, {}, {<<id, message>>}, {})
    BY <1>2, ConclusionAdds
  <1> HIDE DEF r2
  <1>4. Typed(r2)
    BY <1>3 DEF Adds
  <1>5. Adds(r3, r2, {}, {}, {<<id, advice>>})
    BY <1>4, RecommendationAdds
  <1>6. r3 = Reported(r, p, id, message, advice)
    BY DEF r1, r2, Reported
  <1> HIDE DEF r3
  <1>7. Adds(r3, r, {p}, {<<id, message>>}, {<<id, advice>>})
    BY <1>1, <1>3, <1>5 DEF Adds
  <1> QED
    BY <1>6, <1>7

\* The result raises these flags, and says and advises something if it raises any.
Verdict(r, flags) ==
  /\ Typed(r)
  /\ Flagged(r) = flags
  /\ flags # {} => Conc(r) # {} /\ Recs(r) # {}
  /\ flags = {} => Recs(r) = {}

\* The empty result is the verdict that nothing is wrong.
LEMMA NoVerdict == Verdict(NoResult, {})
  BY NoResultTyped DEF Verdict

\* One report makes a verdict with its flag.
LEMMA ReportedVerdict ==
  ASSUME NEW p \in Priority, NEW id, NEW message, Len(message) > 0, NEW advice, Len(advice) > 0
  PROVE  Verdict(Reported(NoResult, p, id, message, advice), {p})
  <1> DEFINE r == Reported(NoResult, p, id, message, advice)
  <1>1. Adds(r, NoResult, {p}, {<<id, message>>}, {<<id, advice>>})
    BY NoResultTyped, ReportedAdds
  <1> HIDE DEF r
  <1>2. Typed(r) /\ Flagged(r) = {p} /\ Conc(r) = {<<id, message>>} /\ Recs(r) = {<<id, advice>>}
    BY <1>1, NoResultTyped DEF Adds
  <1>3. Verdict(r, {p})
    BY <1>2 DEF Verdict
  <1> QED
    BY <1>3 DEF r

\* One more recommendation changes nothing of a verdict that raises a flag.
LEMMA AdvisedVerdict ==
  ASSUME NEW r, NEW flags, Verdict(r, flags), flags # {}, NEW id, NEW message, Len(message) > 0
  PROVE  Verdict(AppendRecommendation(r, id, message), flags)
  <1> DEFINE q == AppendRecommendation(r, id, message)
  <1>1. Adds(q, r, {}, {}, {<<id, message>>})
    BY RecommendationAdds DEF Verdict
  <1> HIDE DEF q
  <1>2. Verdict(q, flags)
    BY <1>1 DEF Adds, Verdict
  <1> QED
    BY <1>2 DEF q

\* What the lists of the hosts become, one after the other.
Joined(L, order) == FlattenSeq([i \in DOMAIN order |-> L[order[i]]])

\* A sequence without elements is the empty one.
LEMMA EmptyRange ==
  ASSUME NEW S, NEW s \in Seq(S)
  PROVE  s = <<>> <=> Range(s) = {}
  <1>1. s = <<>> => Range(s) = {}
    BY DEF Range
  <1>2. Range(s) = {} => DOMAIN s = {}
    BY DEF Range
  <1>3. DOMAIN s = {} => s = <<>>
    BY LenProperties, EmptySeq
  <1> QED
    BY <1>1, <1>2, <1>3

\* The lists of the hosts, joined in any order, have the elements of all of them.
LEMMA JoinedProperties ==
  ASSUME NEW map, IsFiniteSet(DOMAIN map), NEW order \in Orders(map), NEW S,
         NEW L, \A h \in DOMAIN map : L[h] \in Seq(S)
  PROVE  /\ Joined(L, order) \in Seq(S)
         /\ Range(Joined(L, order)) = UNION {Range(L[h]) : h \in DOMAIN map}
         /\ Joined(L, order) = <<>> <=> \A h \in DOMAIN map : Range(L[h]) = {}
  <1> DEFINE seqs == [i \in DOMAIN order |-> L[order[i]]]  n == Len(order)  D == DOMAIN map
  <1>1. order \in Seq(D) /\ {order[i] : i \in 1 .. n} = D
    BY OrderProperties
  <1>2. n \in Nat /\ DOMAIN order = 1 .. n /\ \A i \in 1 .. n : order[i] \in D
    BY <1>1, LenProperties, ElementOfSeq
  <1>3. seqs \in Seq(Seq(S)) /\ Len(seqs) = n /\ \A i \in 1 .. n : seqs[i] = L[order[i]]
    BY <1>2, SeqDef
  <1> DEFINE all == FlattenSeq(seqs)
  <1> HIDE DEF seqs, n
  <1>4. all \in Seq(S) /\ Range(all) = UNION {Range(seqs[i]) : i \in 1 .. n}
    BY <1>3, FlattenSeqProperties
  <1> HIDE DEF D, all
  <1>5. {Range(seqs[i]) : i \in 1 .. n} = {Range(L[order[i]]) : i \in 1 .. n}
    BY <1>3
  <1>6. {Range(L[order[i]]) : i \in 1 .. n} = {Range(L[h]) : h \in D}
    BY <1>1
  <1>7. all = <<>> <=> Range(all) = {}
    BY <1>4, EmptyRange
  <1>8. Range(all) = UNION {Range(L[h]) : h \in D}
    BY <1>4, <1>5, <1>6
  <1>9. (UNION {Range(L[h]) : h \in D}) = {} <=> \A h \in D : Range(L[h]) = {}
    OBVIOUS
  <1> QED
    BY <1>4, <1>7, <1>8, <1>9 DEF all, seqs, Joined, D

\* What a loop over the hosts visits is a host.
LEMMA Visited ==
  ASSUME NEW map, IsFiniteSet(DOMAIN map), NEW order \in Orders(map)
  PROVE  /\ order \in Seq(DOMAIN map) /\ Len(order) \in Nat /\ DOMAIN order = 1 .. Len(order)
         /\ \A i \in DOMAIN order : order[i] \in DOMAIN map
  <1>1. order \in Seq(DOMAIN map)
    BY OrderProperties
  <1> QED
    BY <1>1, LenProperties, ElementOfSeq

-----------------------------------------------------------------------------
(* F002.                                                                   *)
LEMMA UsedUpProperties ==
  ASSUME NEW items, IsFiniteSet(DOMAIN items), \A h \in DOMAIN items : IsFiniteSet(DOMAIN items[h]),
         NEW order \in Orders(items)
  PROVE  /\ UsedUp(items, order) \in Seq(UNION {DOMAIN items[h] : h \in DOMAIN items})
         /\ UsedUp(items, order) = <<>> <=>
              \A h \in DOMAIN items : \A name \in DOMAIN items[h] : ~(items[h][name].CapacityUsed > 50)
  <1> DEFINE used(h) == {name \in DOMAIN items[h] : items[h][name].CapacityUsed > CRITICAL_CAPACITY_USAGE}
             L == [h \in DOMAIN items |-> SetToSeq(used(h))]
             S == UNION {DOMAIN items[h] : h \in DOMAIN items}
  <1>1. ASSUME NEW h \in DOMAIN items PROVE L[h] \in Seq(S) /\ Range(L[h]) = used(h)
    <2>1. IsFiniteSet(used(h)) /\ used(h) \subseteq S
      BY FS_Subset
    <2>2. L[h] = SetToSeq(used(h))
      OBVIOUS
    <2> HIDE DEF used, L, S
    <2>3. L[h] \in Seq(used(h)) /\ Range(L[h]) = used(h)
      BY <2>1, <2>2, SetToSeqProperties
    <2> QED
      BY <2>1, <2>3, SeqMonotonic
  <1>2. \A i \in DOMAIN order : order[i] \in DOMAIN items
    BY Visited
  <1>3. UsedUp(items, order) = Joined(L, order)
    BY <1>2 DEF UsedUp, Joined
  <1>4. Joined(L, order) \in Seq(S) /\ (Joined(L, order) = <<>> <=> \A h \in DOMAIN items : Range(L[h]) = {})
    <2> HIDE DEF L, S
    <2> QED
      BY <1>1, JoinedProperties
  <1>5. (\A h \in DOMAIN items : Range(L[h]) = {}) <=> (\A h \in DOMAIN items : used(h) = {})
    BY <1>1
  <1>6. (\A h \in DOMAIN items : used(h) = {}) <=>
          (\A h \in DOMAIN items : \A name \in DOMAIN items[h] : ~(items[h][name].CapacityUsed > 50))
    BY DEF CRITICAL_CAPACITY_USAGE
  <1> QED
    BY <1>3, <1>4, <1>5, <1>6

\* F002 raises P1 if anything on any host is used up, in whichever order it looks.
LEMMA F002Judged ==
  ASSUME NEW results, IsFiniteSet(DOMAIN results), \A h \in DOMAIN results : F002Data(results[h]),
         NEW order \in Orders(results)
  PROVE  Verdict(F002Process(results, order),
                 IF \E h \in DOMAIN results : \E item \in Range(results[h].Databases) \cup Range(results[h].Tables) :
                      item.CapacityUsed > 50
                 THEN {"P1"} ELSE {})
  <1> DEFINE D == [h \in DOMAIN results |-> results[h].Databases]
             T == [h \in DOMAIN results |-> results[h].Tables]
             databases == UsedUp(D, order)
             tables == UsedUp(T, order)
             id == "F002_RISKS_ARE_HIGH"
             r1 == Raise(NoResult, "P1")
             r2 == AppendConclusion(r1, id, <<databases, tables>>)
             r3 == AppendConclusion(r2, id, Text)
             r4 == AppendRecommendation(r3, id, Text)
             bad == \E h \in DOMAIN results : \E item \in Range(results[h].Databases) \cup Range(results[h].Tables) :
                      item.CapacityUsed > 50
  <1>1. order \in Orders(D) /\ order \in Orders(T)
    BY DEF Orders
  <1>2. \A h \in DOMAIN results : IsFiniteSet(DOMAIN D[h]) /\ IsFiniteSet(DOMAIN T[h])
    BY DEF F002Data, IsMap
  <1>3. bad <=> ~( /\ \A h \in DOMAIN D : \A name \in DOMAIN D[h] : ~(D[h][name].CapacityUsed > 50)
                   /\ \A h \in DOMAIN T : \A name \in DOMAIN T[h] : ~(T[h][name].CapacityUsed > 50))
    BY DEF Range
  <1>4. DOMAIN D = DOMAIN results /\ DOMAIN T = DOMAIN results
    OBVIOUS
  <1>5. F002Process(results, order) = IF databases \o tables = <<>> THEN NoResult ELSE r4
    BY DEF F002Process
  <1> HIDE DEF D, T
  <1>6. PICK A, B : databases \in Seq(A) /\ tables \in Seq(B)
    BY <1>1, <1>2, <1>4, UsedUpProperties
  <1>7. bad <=> databases # <<>> \/ tables # <<>>
    BY <1>1, <1>2, <1>3, <1>4, UsedUpProperties
  <1> HIDE DEF databases, tables, bad
  <1>8. databases \o tables = <<>> <=> databases = <<>> /\ tables = <<>>
    <2>1. databases \in Seq(A \cup B) /\ tables \in Seq(A \cup B)
      BY <1>6, SeqMonotonic
    <2> QED
      BY <2>1, ConcatProperties, EmptySeq, LenProperties
  <1> DEFINE m == <<databases, tables>>
  <1>9. Len(m) > 0 /\ Len(Text) > 0 /\ "P1" \in Priority
    BY DEF Text, Priority
  <1> HIDE DEF m, id
  <1>10. Adds(r1, NoResult, {"P1"}, {}, {})
    BY <1>9, NoResultTyped, RaiseAdds
  <1> HIDE DEF r1
  <1>11. Adds(r2, r1, {}, {<<id, m>>}, {})
    BY <1>9, <1>10, ConclusionAdds, ZenonT(60) DEF Adds, m
  <1> HIDE DEF r2
  <1>12. Adds(r3, r2, {}, {<<id, Text>>}, {})
    BY <1>9, <1>11, ConclusionAdds DEF Adds
  <1> HIDE DEF r3
  <1>13. Adds(r4, r3, {}, {}, {<<id, Text>>})
    BY <1>9, <1>12, RecommendationAdds DEF Adds
  <1> HIDE DEF r4
  <1>14. Verdict(r4, {"P1"})
    BY <1>10, <1>11, <1>12, <1>13, NoResultTyped DEF Verdict, Adds
  <1>15. Verdict(F002Process(results, order), IF bad THEN {"P1"} ELSE {})
    BY <1>5, <1>7, <1>8, <1>14, NoVerdict
  <1> QED
    BY <1>15 DEF bad

-----------------------------------------------------------------------------
(* G002 and K000.                                                          *)
LEMMA HostPerRowProperties ==
  ASSUME NEW map, IsFiniteSet(DOMAIN map), NEW order \in Orders(map),
         NEW rows, \A h \in DOMAIN map : IsFiniteSet(rows[h])
  PROVE  /\ HostPerRow(rows, order) \in Seq(DOMAIN map)
         /\ HostPerRow(rows, order) = <<>> <=> \A h \in DOMAIN map : rows[h] = {}
  <1> DEFINE D == DOMAIN map
             L == [h \in D |-> [j \in 1 .. Cardinality(rows[h]) |-> h]]
  <1>1. ASSUME NEW h \in D PROVE L[h] \in Seq(D) /\ (Range(L[h]) = {} <=> rows[h] = {})
    <2> DEFINE n == Cardinality(rows[h])  s == [j \in 1 .. n |-> h]
    <2>1. n \in Nat /\ (n = 0 <=> rows[h] = {})
      BY FS_CardinalityType, FS_EmptySet
    <2> HIDE DEF n
    <2>2. s \in Seq(D) /\ Len(s) = n
      BY <2>1, SeqDef
    <2>3. DOMAIN s = {} <=> n = 0
      BY <2>1
    <2>4. Range(s) = {} <=> DOMAIN s = {}
      BY DEF Range
    <2>5. L[h] = s
      BY DEF n
    <2> QED
      BY <2>1, <2>2, <2>3, <2>4, <2>5
  <1>2. \A i \in DOMAIN order : order[i] \in D
    BY Visited
  <1>3. HostPerRow(rows, order) = Joined(L, order)
    BY <1>2 DEF HostPerRow, Joined
  <1> HIDE DEF L
  <1>4. \A h \in DOMAIN map : L[h] \in Seq(D)
    BY <1>1
  <1>5. Joined(L, order) \in Seq(D) /\ (Joined(L, order) = <<>> <=> \A h \in D : Range(L[h]) = {})
    BY <1>4, JoinedProperties
  <1> QED
    BY <1>1, <1>3, <1>5

\* G002 raises P1 if any host has an old transaction.
LEMMA G002Judged ==
  ASSUME NEW results, IsFiniteSet(DOMAIN results), \A h \in DOMAIN results : IsMap(results[h], G002Connection),
         NEW order \in Orders(results)
  PROVE  Verdict(G002Process(results, order),
                 IF \E h \in DOMAIN results : \E row \in Range(results[h]) :
                      row.TxMore1h > 0 /\ row.CurrentState \in {"active", "idle in transaction"}
                 THEN {"P1"} ELSE {})
  <1> DEFINE Old(row) == row.CurrentState \in {"idle in transaction", "active"} /\ row.TxMore1h > 0
             old == [h \in DOMAIN results |-> {id \in DOMAIN results[h] : Old(results[h][id])}]
             hosts == HostPerRow(old, order)
             bad == \E h \in DOMAIN results : \E row \in Range(results[h]) :
                      row.TxMore1h > 0 /\ row.CurrentState \in {"active", "idle in transaction"}
             r == Reported(NoResult, "P1", "G002_TX_AGE_MORE_1H", <<hosts>>, Text)
  <1>1. \A h \in DOMAIN results : IsFiniteSet(old[h])
    BY FS_Subset DEF IsMap
  <1>2. bad <=> ~ \A h \in DOMAIN results : old[h] = {}
    BY DEF Range
  <1>3. G002Process(results, order) = IF hosts = <<>> THEN NoResult ELSE r
    BY DEF G002Process, Reported
  <1> HIDE DEF old, bad
  <1>4. hosts = <<>> <=> \A h \in DOMAIN results : old[h] = {}
    BY <1>1, HostPerRowProperties
  <1>5. Verdict(r, {"P1"})
    <2>1. Len(<<hosts>>) > 0 /\ Len(Text) > 0 /\ "P1" \in Priority
      BY DEF Text, Priority
    <2> QED
      BY <2>1, ReportedVerdict
  <1>6. Verdict(G002Process(results, order), IF bad THEN {"P1"} ELSE {})
    BY <1>2, <1>3, <1>4, <1>5, NoVerdict
  <1> QED
    BY <1>6 DEF bad

\* K000 raises P1 if any host has a query that takes too much of the time.
LEMMA K000Judged ==
  ASSUME NEW results, IsFiniteSet(DOMAIN results), \A h \in DOMAIN results : K000HostData(results[h]),
         NEW order \in Orders(results)
  PROVE  Verdict(K000Process(results, order),
                 IF \E h \in DOMAIN results : \E query \in Range(results[h].Queries) : query.RatioTotalTime > 30
                 THEN {"P1"} ELSE {})
  <1> DEFINE slow == [h \in DOMAIN results |-> {id \in DOMAIN results[h].Queries :
                                                  results[h].Queries[id].RatioTotalTime > MAX_QUERY_TOTAL_TIME}]
             hosts == HostPerRow(slow, order)
             bad == \E h \in DOMAIN results : \E query \in Range(results[h].Queries) : query.RatioTotalTime > 30
             r == Reported(NoResult, "P1", "K000_EXCESS_QUERY_TOTAL_TIME", <<GetUniques(hosts)>>, Text)
  <1>1. \A h \in DOMAIN results : IsFiniteSet(slow[h])
    BY FS_Subset DEF K000HostData, IsMap
  <1>2. bad <=> ~ \A h \in DOMAIN results : slow[h] = {}
    BY DEF Range, MAX_QUERY_TOTAL_TIME
  <1>3. K000Process(results, order) = IF hosts = <<>> THEN NoResult ELSE r
    BY DEF K000Process, Reported
  <1> HIDE DEF slow, bad
  <1>4. hosts = <<>> <=> \A h \in DOMAIN results : slow[h] = {}
    BY <1>1, HostPerRowProperties
  <1>5. Verdict(r, {"P1"})
    <2> DEFINE m == <<GetUniques(hosts)>>
    <2>1. Len(m) > 0 /\ Len(Text) > 0 /\ "P1" \in Priority
      BY DEF Text, Priority
    <2> HIDE DEF m
    <2> QED
      BY <2>1, ReportedVerdict DEF m
  <1>6. Verdict(K000Process(results, order), IF bad THEN {"P1"} ELSE {})
    BY <1>2, <1>3, <1>4, <1>5, NoVerdict
  <1> QED
    BY <1>6 DEF bad

-----------------------------------------------------------------------------
(* F001: the pairs of settings are told by their names.                    *)
LEMMA DefaultValuesProperties ==
  ASSUME NEW settings \in F001GlobalSettings
  PROVE  /\ \E S : defaultValues(settings) \in Seq(S)
         /\ defaultValues(settings) = <<>> <=>
              ~ \E pair \in Range(F001Pairs) : \A s \in pair : settings[s] = F001Default[s]
  <1> DEFINE S == Range(F001Pairs)
             T == {pair \in S : \A s \in pair : settings[s] = F001Default[s]}
  <1>1. F001Pairs \in Seq(S)
    <2>1. S = {F001Pairs[1], F001Pairs[2], F001Pairs[3]}
      BY DEF Range, F001Pairs
    <2>2. F001Pairs \in Seq({F001Pairs[1], F001Pairs[2], F001Pairs[3]})
      BY DEF F001Pairs
    <2> QED
      BY <2>1, <2>2
  <1>2. defaultValues(settings) = Sublist(F001Pairs, T)
    BY DEF defaultValues
  <1> HIDE DEF S
  <1>3. defaultValues(settings) \in Seq(S) /\ Range(defaultValues(settings)) = Range(F001Pairs) \cap T
    <2> HIDE DEF T
    <2> QED
      BY <1>1, <1>2, SublistProperties
  <1>4. defaultValues(settings) = <<>> <=> T = {}
    BY <1>3, EmptyRange DEF S
  <1> QED
    BY <1>3, <1>4 DEF S

\* F001 raises P1 if two settings of the master that matter together have their defaults.
LEMMA F001Judged ==
  ASSUME NEW results, \A h \in DOMAIN results : results[h] \in F001GlobalSettings, NEW master,
         ~F001Process(results, master).err
  PROVE  Verdict(F001Process(results, master).result,
                 IF /\ master \in DOMAIN results
                    /\ LET both(r, s) == results[master][r] = F001Default[r] /\ results[master][s] = F001Default[s]
                       IN \/ both("vacuum_scale_factor", "vacuum_threshold")
                          \/ both("analyze_scale_factor", "analyze_threshold")
                          \/ both("vacuum_cost_delay", "vacuum_cost_limit")
                 THEN {"P1"} ELSE {})
  <1> DEFINE s == results[master]
             names == defaultValues(s)
             bad == \E pair \in Range(F001Pairs) : \A n \in pair : s[n] = F001Default[n]
             both(a, b) == s[a] = F001Default[a] /\ s[b] = F001Default[b]
             any == \/ both("vacuum_scale_factor", "vacuum_threshold")
                    \/ both("analyze_scale_factor", "analyze_threshold")
                    \/ both("vacuum_cost_delay", "vacuum_cost_limit")
             r == Reported(NoResult, "P1", "F001_AUTOVACUUM_NOT_TUNED", <<LimitList(names)>>, Text)
             q == AppendRecommendation(r, "F001_AUTOVACUUM_TUNE_RECOMMENDATION", Text)
  <1>1. bad <=> any
    <2>1. Range(F001Pairs) = {{"vacuum_scale_factor", "vacuum_threshold"},
                              {"analyze_scale_factor", "analyze_threshold"},
                              {"vacuum_cost_delay", "vacuum_cost_limit"}}
      BY DEF Range, F001Pairs
    <2> QED
      BY <2>1
  <1>2. CASE master \notin DOMAIN results
    <2>1. F001Process(results, master).result = NoResult
      BY <1>2 DEF F001Process, Outcome
    <2> QED
      BY <1>2, <2>1, NoVerdict
  <1>3. CASE master \in DOMAIN results
    <2>1. s \in F001GlobalSettings
      BY <1>3
    <2> HIDE DEF bad, any
    <2>2. F001Process(results, master).result = IF names = <<>> THEN NoResult ELSE q
      BY <1>3 DEF F001Process, Outcome, Reported
    <2> HIDE DEF s, q, r
    <2>3. names = <<>> <=> ~bad
      BY <2>1, DefaultValuesProperties DEF bad
    <2>4. Verdict(q, {"P1"})
      <3> DEFINE m == <<LimitList(names)>>
      <3>1. Len(m) > 0 /\ Len(Text) > 0 /\ "P1" \in Priority
        BY DEF Text, Priority
      <3> HIDE DEF m
      <3>2. Verdict(r, {"P1"})
        BY <3>1, ReportedVerdict DEF m, r
      <3> QED
        BY <3>1, <3>2, AdvisedVerdict DEF q
    <2>5. Verdict(F001Process(results, master).result, IF any THEN {"P1"} ELSE {})
      BY <1>1, <2>2, <2>3, <2>4, NoVerdict
    <2> QED
      BY <1>3, <2>5 DEF any, s
  <1> QED
    BY <1>2, <1>3

-----------------------------------------------------------------------------
(* H002 and H004.                                                          *)
LEMMA FoundVerdict ==
  ASSUME NEW data, NEW count \in Nat, NEW id, NEW S, data.Do \in Seq(S), data.UnDo \in Seq(S),
         data.IndexSizeBytesSum \in Nat, data.DatabaseSizeBytes \in Nat
  PROVE  Verdict(Found(data, count, id),
                 IF count > 0 /\ data.Do # <<>> /\ data.UnDo # <<>>
                 THEN IF 20 * data.IndexSizeBytesSum > data.DatabaseSizeBytes THEN {"P2"} ELSE {"P3"}
                 ELSE {})
  <1> DEFINE critical == data.IndexSizeBytesSum * 100 > INDEXES_CRITICL_SIZE_PERCENT * data.DatabaseSizeBytes
             p == IF critical THEN "P2" ELSE "P3"
             r1 == Raise(NoResult, p)
             r2 == AppendConclusion(r1, id[p], <<count>>)
             r3 == AppendRecommendation(r2, id.found, <<p>>)
             r4 == AppendRecommendation(r3, id.found, Text)
             r5 == AppendRecommendation(r4, id.found, Text)
             r6 == AppendRecommendation(r5, id.do, <<data.Do>>)
             r7 == AppendRecommendation(r6, id.undo, <<data.UnDo>>)
             none == 0 \in {count, Len(data.Do), Len(data.UnDo)}
  <1>1. critical <=> 20 * data.IndexSizeBytesSum > data.DatabaseSizeBytes
    BY DEF INDEXES_CRITICL_SIZE_PERCENT
  <1>2. none <=> ~(count > 0 /\ data.Do # <<>> /\ data.UnDo # <<>>)
    BY EmptySeq, LenProperties
  <1>3. Found(data, count, id) = IF none THEN NoResult ELSE r7
    BY DEF Found
  <1> HIDE DEF critical, none
  <1>4. p \in Priority
    BY DEF Priority
  <1>5. Len(<<count>>) > 0 /\ Len(<<p>>) > 0 /\ Len(Text) > 0 /\ Len(<<data.Do>>) > 0 /\ Len(<<data.UnDo>>) > 0
    BY DEF Text
  <1> HIDE DEF p
  <1>6. Adds(r1, NoResult, {p}, {}, {})
    BY <1>4, NoResultTyped, RaiseAdds
  <1> HIDE DEF r1
  <1>7. Adds(r2, r1, {}, {<<id[p], <<count>> >>}, {})
    BY <1>5, <1>6, ConclusionAdds, ZenonT(60) DEF Adds
  <1> HIDE DEF r2
  <1> DEFINE mark == <<p>>
  <1> HIDE DEF mark
  <1>8. Adds(r3, r2, {}, {}, {<<id.found, mark>>})
    <2>1. Len(mark) > 0 /\ Typed(r2)
      BY <1>5, <1>7 DEF Adds, mark
    <2> QED
      BY <2>1, RecommendationAdds DEF mark
  <1> HIDE DEF r3
  <1>9. Verdict(r3, {p})
    BY <1>6, <1>7, <1>8, NoResultTyped DEF Adds, Verdict
  <1>10. Verdict(r4, {p})
    BY <1>5, <1>9, AdvisedVerdict
  <1> HIDE DEF r4
  <1>11. Verdict(r5, {p})
    BY <1>5, <1>10, AdvisedVerdict
  <1> HIDE DEF r5
  <1>12. Verdict(r6, {p})
    <2> DEFINE m == <<data.Do>>
    <2>1. Len(m) > 0
      BY <1>5
    <2> HIDE DEF m
    <2> QED
      BY <2>1, <1>11, AdvisedVerdict DEF m
  <1> HIDE DEF r6
  <1>13. Verdict(r7, {p})
    <2> DEFINE m == <<data.UnDo>>
    <2>1. Len(m) > 0
      BY <1>5
    <2> HIDE DEF m
    <2> QED
      BY <2>1, <1>12, AdvisedVerdict DEF m
  <1> HIDE DEF r7
  <1> QED
    BY <1>1, <1>2, <1>3, <1>13, NoVerdict DEF p

-----------------------------------------------------------------------------
(* L003 and the lists that are cut.                                        *)

\* A message that counts names and prints them.
CountedMessage(m) == \E S : \E names \in Seq(S) : m = <<Len(names), LimitList(names)>>

\* A counted list is complete, or it is cut, marked and longer than what is shown.
LEMMA CountedMessageListed ==
  ASSUME NEW m, CountedMessage(m)
  PROVE  \/ Len(m[2]) = m[1]
         \/ m[1] > Len(m[2]) /\ Last(m[2]) = MSG_ETC_ITEM /\ Len(m[2]) = 6
  <1>0. PICK S : \E names \in Seq(S) : m = <<Len(names), LimitList(names)>>
    BY DEF CountedMessage
  <1>1. PICK names \in Seq(S) : m = <<Len(names), LimitList(names)>>
    BY <1>0
  <1>2. m[1] = Len(names) /\ m[2] = LimitList(names)
    BY <1>1
  <1> QED
    BY <1>1, <1>2, LimitListProperties

\* The sorted tables of a host are its tables.
LEMMA SortedTablesProperties ==
  ASSUME NEW data, L003Data(data)
  PROVE  /\ SortedTables(data) \in Seq(DOMAIN data.Tables)
         /\ Range(SortedTables(data)) = DOMAIN data.Tables
  <1> DEFINE value == [id \in DOMAIN data.Tables |-> data.Tables[id].CapacityUsedPercent]
  <1>1. DOMAIN value = DOMAIN data.Tables /\ IsFiniteSet(DOMAIN value)
    BY DEF L003Data, IsMap
  <1>2. \A id \in DOMAIN value : value[id] \in Int
    <2>1. \A id \in DOMAIN data.Tables : data.Tables[id] \in L003Table
      BY DEF L003Data, IsMap, Range
    <2> QED
      BY <2>1 DEF L003Table
  <1>3. SortedTables(data) = SortItems(value, TRUE)
    BY DEF SortedTables, SortItemsByFloat64
  <1> HIDE DEF value
  <1> QED
    BY <1>1, <1>2, <1>3, SortItemsProperties

\* L003 raises P1 if any table of any host is nearly full; its list is counted.
LEMMA L003Judged ==
  ASSUME NEW results, IsFiniteSet(DOMAIN results), \A h \in DOMAIN results : L003Data(results[h]),
         NEW order \in Orders(results)
  PROVE  /\ Verdict(L003Process(results, order),
                    IF \E h \in DOMAIN results : \E table \in Range(results[h].Tables) :
                         table.CapacityUsedPercent > 10
                    THEN {"P1"} ELSE {})
         /\ \A s \in Conc(L003Process(results, order)) : CountedMessage(s[2])
  <1> DEFINE D == DOMAIN results
             high(h) == {id \in DOMAIN results[h].Tables :
                            results[h].Tables[id].CapacityUsedPercent > MAX_RATIO_PERCENT}
             full(h) == Sublist(SortedTables(results[h]), high(h))
             L == [h \in D |-> [j \in DOMAIN full(h) |-> results[h].Tables[full(h)[j]].Table]]
             tables == FlattenSeq([i \in DOMAIN order |->
                         [j \in DOMAIN full(order[i]) |-> results[order[i]].Tables[full(order[i])[j]].Table]])
             S == UNION {{results[h].Tables[id].Table : id \in DOMAIN results[h].Tables} : h \in D}
             m == <<Len(tables), LimitList(tables)>>
             r == Reported(NoResult, "P1", "L003_HIGH_RISKS", m, Text)
             bad == \E h \in DOMAIN results : \E table \in Range(results[h].Tables) :
                         table.CapacityUsedPercent > 10
  <1>1. ASSUME NEW h \in D PROVE L[h] \in Seq(S) /\ (Range(L[h]) = {} <=> high(h) = {})
    <2> DEFINE T == DOMAIN results[h].Tables
    <2>1. SortedTables(results[h]) \in Seq(T) /\ Range(SortedTables(results[h])) = T
      BY SortedTablesProperties
    <2>2. high(h) \subseteq T
      OBVIOUS
    <2>3. full(h) \in Seq(T) /\ Range(full(h)) = high(h)
      <3> DEFINE t == SortedTables(results[h])  u == high(h)
      <3>1. t \in Seq(T) /\ Range(t) = T /\ u \subseteq T
        BY <2>1, <2>2
      <3> HIDE DEF T, t, u
      <3>2. Sublist(t, u) \in Seq(T) /\ Range(Sublist(t, u)) = Range(t) \cap u
        BY <3>1, SublistProperties
      <3>3. Sublist(t, u) \in Seq(T) /\ Range(Sublist(t, u)) = u
        BY <3>1, <3>2
      <3> QED
        BY <3>3 DEF t, u
    <2>4. \A id \in T : results[h].Tables[id].Table \in S
      OBVIOUS
    <2>5. L[h] = [j \in DOMAIN full(h) |-> results[h].Tables[full(h)[j]].Table]
      OBVIOUS
    <2> DEFINE f == full(h)
    <2> HIDE DEF T, S, full, L, high
    <2>6. Len(f) \in Nat /\ DOMAIN f = 1 .. Len(f) /\ \A j \in 1 .. Len(f) : f[j] \in T
      BY <2>3, LenProperties, ElementOfSeq
    <2> HIDE DEF f
    <2>7. L[h] = [j \in 1 .. Len(f) |-> results[h].Tables[f[j]].Table]
      BY <2>5, <2>6 DEF f
    <2>8. L[h] \in Seq(S)
      BY <2>4, <2>6, <2>7, SeqDef
    <2>9. Range(L[h]) = {} <=> DOMAIN f = {}
      <3>1. DOMAIN L[h] = DOMAIN f
        BY <2>6, <2>7
      <3>2. Range(L[h]) = {} <=> DOMAIN L[h] = {}
        BY Zenon DEF Range
      <3> QED
        BY <3>1, <3>2
    <2>10. Range(f) = {} <=> DOMAIN f = {}
      BY DEF Range
    <2> QED
      BY <2>3, <2>8, <2>9, <2>10 DEF f
  <1>2. \A i \in DOMAIN order : order[i] \in D
    BY Visited
  <1>3. tables = Joined(L, order)
    BY <1>2, Zenon DEF Joined
  <1>4. L003Process(results, order) = IF tables = <<>> THEN NoResult ELSE r
    BY DEF L003Process, Reported
  <1>5. bad <=> \E h \in D : high(h) # {}
    BY DEF Range, MAX_RATIO_PERCENT
  <1> HIDE DEF L, tables, S, bad, high
  <1>6. tables \in Seq(S) /\ (tables = <<>> <=> \A h \in D : Range(L[h]) = {})
    BY <1>1, <1>3, JoinedProperties, ZenonT(60)
  <1>7. tables = <<>> <=> ~bad
    BY <1>1, <1>5, <1>6
  <1>8. CountedMessage(m)
    BY <1>6 DEF CountedMessage
  <1>9. Len(m) > 0 /\ Len(Text) > 0 /\ "P1" \in Priority
    BY DEF Text, Priority
  <1> HIDE DEF m
  <1>10. Verdict(r, {"P1"})
    BY <1>9, ReportedVerdict
  <1>11. Adds(r, NoResult, {"P1"}, {<<"L003_HIGH_RISKS", m>>}, {<<"L003_HIGH_RISKS", Text>>})
    BY <1>9, NoResultTyped, ReportedAdds
  <1> HIDE DEF r
  <1>12. Verdict(L003Process(results, order), IF bad THEN {"P1"} ELSE {})
    BY <1>4, <1>7, <1>10, NoVerdict
  <1>13. ASSUME NEW s \in Conc(L003Process(results, order)) PROVE CountedMessage(s[2])
    <2>1. s \in {<<"L003_HIGH_RISKS", m>>}
      BY <1>4, <1>11, <1>13, NoResultTyped DEF Adds
    <2>2. s[2] = m
      BY <2>1
    <2> QED
      BY <1>8, <2>2
  <1> QED
    BY <1>12, <1>13 DEF bad

-----------------------------------------------------------------------------
(* F004 and F005: each part of them adds something.                        *)
Counting(names) == <<Len(names), LimitList(names)>>

\* A set, if there is a reason for it.
If(reason, set) == IF reason THEN set ELSE {}

\* A result adds nothing to itself.
LEMMA NothingAdds ==
  ASSUME NEW r, Typed(r)
  PROVE  Adds(r, r, {}, {}, {})
  BY DEF Adds

\* What the code asks of a result, said of its flags and items.
LEMMA FlagOf ==
  ASSUME NEW r, Typed(r)
  PROVE  /\ r.P1 <=> "P1" \in Flagged(r)
         /\ r.P2 <=> "P2" \in Flagged(r)
         /\ r.Recommendations = <<>> <=> Recs(r) = {}
         /\ \A id : ResultInList(r.Recommendations, id) <=> \E s \in Recs(r) : s[1] = id
  <1>1. PICK S : r \in ResultOf(S)
    BY DEF Typed
  <1>2. r.P1 <=> "P1" \in Flagged(r)
    BY DEF Flagged, Priority
  <1>3. r.P2 <=> "P2" \in Flagged(r)
    BY DEF Flagged, Priority
  <1>4. r.Recommendations \in Seq(S)
    BY <1>1 DEF ResultOf
  <1> QED
    BY <1>2, <1>3, <1>4, SaidProperties DEF Recs

\* Warn: the flag and a conclusion; the advice only if there is nothing worse.
LEMMA WarnAdds ==
  ASSUME NEW r, Typed(r), NEW names
  PROVE  Adds(Warn(names, r), r, If(names # <<>>, {"P2"}),
              If(names # <<>>, {<<"BLOAT_WARNING", Counting(names)>>}),
              If(names # <<>> /\ "P1" \notin Flagged(r), {<<"BLOAT_WARNING", Text>>}))
  <1>1. CASE names = <<>>
    BY <1>1, NothingAdds DEF Warn, If
  <1>2. CASE names # <<>>
    <2> DEFINE m == Counting(names)
               r1 == Raise(r, "P2")
               r2 == AppendConclusion(r1, "BLOAT_WARNING", m)
               r3 == AppendRecommendation(r2, "BLOAT_WARNING", Text)
    <2>1. Warn(names, r) = IF r.P1 THEN r2 ELSE r3
      BY <1>2 DEF Warn, Counting
    <2>2. Len(m) > 0 /\ Len(Text) > 0 /\ "P2" \in Priority
      BY DEF Text, Priority, Counting
    <2> HIDE DEF m
    <2>3. Adds(r1, r, {"P2"}, {}, {})
      BY <2>2, RaiseAdds
    <2> HIDE DEF r1
    <2>4. Adds(r2, r1, {}, {<<"BLOAT_WARNING", m>>}, {})
      BY <2>2, <2>3, ConclusionAdds DEF Adds
    <2> HIDE DEF r2
    <2>5. Adds(r3, r2, {}, {}, {<<"BLOAT_WARNING", Text>>})
      BY <2>2, <2>4, RecommendationAdds DEF Adds
    <2> HIDE DEF r3
    <2>6. CASE "P1" \in Flagged(r)
      <3>1. Warn(names, r) = r2
        BY <2>1, <2>6, FlagOf
      <3> QED
        BY <1>2, <2>3, <2>4, <2>6, <3>1 DEF Adds, If, m
    <2>7. CASE "P1" \notin Flagged(r)
      <3>1. Warn(names, r) = r3
        BY <2>1, <2>7, FlagOf
      <3> QED
        BY <1>2, <2>3, <2>4, <2>5, <2>7, <3>1 DEF Adds, If, m
    <2> QED
      BY <2>6, <2>7
  <1> QED
    BY <1>1, <1>2

\* Advise: a list of names, if there are any.
LEMMA AdviseAdds ==
  ASSUME NEW r, Typed(r), NEW names, NEW id
  PROVE  Adds(Advise(names, id, r), r, {}, {}, If(names # <<>>, {<<id, <<names>> >>}))
  <1>1. CASE names = <<>>
    BY <1>1, NothingAdds DEF Advise, If
  <1>2. CASE names # <<>>
    <2> DEFINE m == <<names>>
    <2>1. Len(m) > 0
      OBVIOUS
    <2>2. Advise(names, id, r) = AppendRecommendation(r, id, m)
      BY <1>2 DEF Advise
    <2> HIDE DEF m
    <2>3. Adds(Advise(names, id, r), r, {}, {}, {<<id, m>>})
      BY <2>1, <2>2, RecommendationAdds
    <2> QED
      BY <1>2, <2>3 DEF If, m
  <1> QED
    BY <1>1, <1>2

\* General: the advice that follows any other, and any flag.
LEMMA GeneralAdds ==
  ASSUME NEW r, Typed(r)
  PROVE  Adds(General(r), r, {}, {},
              If(Recs(r) # {}, {<<"GENERAL_INFO", Text>>})
              \cup If("P1" \in Flagged(r) \/ "P2" \in Flagged(r), {<<"BLOAT_INFO", Text>>}))
  <1> DEFINE r1 == AppendRecommendation(r, "GENERAL_INFO", Text)
             r2 == AppendRecommendation(r1, "GENERAL_INFO", Text)
             all == IF r.Recommendations = <<>> THEN r ELSE r2
             r3 == AppendRecommendation(all, "BLOAT_INFO", Text)
             X == If(Recs(r) # {}, {<<"GENERAL_INFO", Text>>})
  <1>0. Len(Text) > 0
    BY DEF Text
  <1>1. General(r) = IF all.P1 \/ all.P2 THEN r3 ELSE all
    BY DEF General
  <1>2. Adds(all, r, {}, {}, X)
    <2>1. CASE r.Recommendations = <<>>
      BY <2>1, FlagOf, NothingAdds DEF If
    <2>2. CASE r.Recommendations # <<>>
      <3>1. Adds(r1, r, {}, {}, {<<"GENERAL_INFO", Text>>})
        BY <1>0, RecommendationAdds
      <3> HIDE DEF r1
      <3>2. Adds(r2, r1, {}, {}, {<<"GENERAL_INFO", Text>>})
        BY <1>0, <3>1, RecommendationAdds DEF Adds
      <3> HIDE DEF r2
      <3>3. Adds(r2, r, {}, {}, {<<"GENERAL_INFO", Text>>})
        BY <3>1, <3>2 DEF Adds
      <3>4. Recs(r) # {}
        BY <2>2, FlagOf
      <3> QED
        BY <2>2, <3>3, <3>4 DEF If
    <2> QED
      BY <2>1, <2>2
  <1> HIDE DEF all, X
  <1>3. Adds(r3, all, {}, {}, {<<"BLOAT_INFO", Text>>})
    BY <1>0, <1>2, RecommendationAdds DEF Adds
  <1> HIDE DEF r3
  <1>4. all.P1 \/ all.P2 <=> "P1" \in Flagged(r) \/ "P2" \in Flagged(r)
    <2>1. Typed(all) /\ Flagged(all) = Flagged(r)
      BY <1>2 DEF Adds
    <2> QED
      BY <2>1, FlagOf
  <1>5. CASE "P1" \in Flagged(r) \/ "P2" \in Flagged(r)
    <2>1. General(r) = r3
      BY <1>1, <1>4, <1>5
    <2>2. Adds(General(r), r, {}, {}, X \cup {<<"BLOAT_INFO", Text>>})
      BY <1>2, <1>3, <2>1 DEF Adds
    <2> QED
      BY <1>5, <2>2 DEF If, X
  <1>6. CASE ~("P1" \in Flagged(r) \/ "P2" \in Flagged(r))
    <2>1. General(r) = all
      BY <1>1, <1>4, <1>6
    <2>2. Adds(General(r), r, {}, {}, X \cup {})
      BY <1>2, <2>1 DEF Adds
    <2> QED
      BY <1>6, <2>2 DEF If, X
  <1> QED
    BY <1>5, <1>6

\* Totals: P1 if the total of any host is too high, and a conclusion in any case.
LEMMA TotalsAdds ==
  ASSUME NEW results, NEW order
  PROVE  \E id \in {"TOTAL_BLOAT_EXCESS", "TOTAL_BLOAT_LOW"} : \E m :
           Adds(Totals(results, order, NoResult), NoResult, If(Excess(results), {"P1"}), {<<id, m>>}, {})
  <1> DEFINE total == LastTotal(results, order)
             size == IF order = <<>> THEN 0 ELSE results[Last(order)].databaseSize
             m == <<total, size, size - total.BloatSizeBytesSum>>
             r1 == Raise(NoResult, "P1")
  <1>1. CASE Excess(results)
    <2>1. Totals(results, order, NoResult) = AppendConclusion(r1, "TOTAL_BLOAT_EXCESS", m)
      BY <1>1 DEF Totals
    <2>2. Len(m) > 0
      OBVIOUS
    <2> HIDE DEF m
    <2>3. Adds(r1, NoResult, {"P1"}, {}, {})
      BY NoResultTyped, RaiseAdds DEF Priority
    <2> HIDE DEF r1
    <2>4. Adds(Totals(results, order, NoResult), r1, {}, {<<"TOTAL_BLOAT_EXCESS", m>>}, {})
      BY <2>1, <2>2, <2>3, ConclusionAdds DEF Adds
    <2>5. Adds(Totals(results, order, NoResult), NoResult, {"P1"}, {<<"TOTAL_BLOAT_EXCESS", m>>}, {})
      BY <2>3, <2>4 DEF Adds
    <2> QED
      BY <1>1, <2>5 DEF If
  <1>2. CASE ~Excess(results)
    <2> DEFINE n == <<total>>
    <2>1. Totals(results, order, NoResult) = AppendConclusion(NoResult, "TOTAL_BLOAT_LOW", n)
      BY <1>2 DEF Totals
    <2>2. Len(n) > 0
      OBVIOUS
    <2> HIDE DEF n
    <2>3. Adds(Totals(results, order, NoResult), NoResult, {}, {<<"TOTAL_BLOAT_LOW", n>>}, {})
      BY <2>1, <2>2, NoResultTyped, ConclusionAdds
    <2> QED
      BY <1>2, <2>3 DEF If
  <1> QED
    BY <1>1, <1>2

BloatLists == {"BLOATED_TABLES", "BLOATED_INDEXES", "BLOATED_TABLE_INDEXES"}

CountedIds == {"BLOAT_CRITICAL", "BLOAT_WARNING", "L003_HIGH_RISKS"}

\* What is counted and printed is in a list that is never cut.
Complete(cs, rs) ==
  \A s \in cs : s[1] \in CountedIds =>
    /\ CountedMessage(s[2])
    /\ \A name \in Range(s[2][2]) \ {MSG_ETC_ITEM} :
         \E t \in rs : t[1] \in BloatLists /\ name \in Range(t[2][1])

Says(set, id) == \E s \in set : s[1] = id

BloatVerdict(r, flags) ==
  /\ Typed(r)
  /\ Flagged(r) = flags
  /\ flags # {} => Conc(r) # {} /\ Recs(r) # {}
  /\ "P2" \in flags <=> Says(Conc(r), "BLOAT_WARNING")
  /\ flags = {"P2"} <=> Says(Recs(r), "BLOAT_WARNING")
  /\ "P1" \in flags => Says(Recs(r), "BLOAT_INFO")
  /\ Complete(Conc(r), Recs(r))

\* The message of a list of names.
LEMMA CountingProperties ==
  ASSUME NEW S, NEW names \in Seq(S)
  PROVE  /\ CountedMessage(Counting(names))
         /\ Range(Counting(names)[2]) \subseteq Range(names) \cup {MSG_ETC_ITEM}
  <1>1. CountedMessage(Counting(names))
    BY DEF CountedMessage, Counting
  <1>2. Counting(names)[2] = LimitList(names)
    BY DEF Counting
  <1> QED
    BY <1>1, <1>2, LimitListProperties

\* What is said before the warnings: the totals, and what is critical.
SaidBefore(r, critical, id, m) ==
  /\ Typed(r)
  /\ Flagged(r) \subseteq {"P1"}
  /\ id \in {"TOTAL_BLOAT_EXCESS", "TOTAL_BLOAT_LOW"}
  /\ Conc(r) = {<<id, m>>} \cup If(critical # <<>>, {<<"BLOAT_CRITICAL", Counting(critical)>>})
  /\ Recs(r) \subseteq {<<"BLOAT_CRITICAL", Text>>, <<"BLOAT_CRITICAL_INFO", Text>>}

\* The lists that are never cut.
AllListed(X, critical, warning) ==
  /\ \A t \in X : t[1] \in BloatLists
  /\ \A name \in Range(critical) \cup Range(warning) : \E t \in X : name \in Range(t[2][1])

WarningFlag(warning) == If(warning # <<>>, {"P2"})

\* The end of F004Process and of F005Process: from the critical rows to the verdict.
LEMMA BloatJudged ==
  ASSUME NEW r, NEW S, NEW critical \in Seq(S), NEW warning \in Seq(S), NEW id, NEW m,
         SaidBefore(r, critical, id, m),
         NEW a, NEW X, Adds(a, Warn(warning, r), {}, {}, X), AllListed(X, critical, warning)
  PROVE  BloatVerdict(General(a), Flagged(r) \cup WarningFlag(warning))
  <1> DEFINE w == Warn(warning, r)  q == General(a)
             cc == <<"BLOAT_CRITICAL", Counting(critical)>>
             cw == <<"BLOAT_WARNING", Counting(warning)>>
             rw == <<"BLOAT_WARNING", Text>>
             ri == <<"BLOAT_INFO", Text>>
             rg == <<"GENERAL_INFO", Text>>
             ct == <<id, m>>
             p1 == "P1" \in Flagged(r)
             flags == Flagged(r) \cup If(warning # <<>>, {"P2"})
  <1>0. /\ Typed(r) /\ Flagged(r) \subseteq {"P1"} /\ id \in {"TOTAL_BLOAT_EXCESS", "TOTAL_BLOAT_LOW"}
        /\ Conc(r) = {<<id, m>>} \cup If(critical # <<>>, {<<"BLOAT_CRITICAL", Counting(critical)>>})
        /\ Recs(r) \subseteq {<<"BLOAT_CRITICAL", Text>>, <<"BLOAT_CRITICAL_INFO", Text>>}
        /\ \A t \in X : t[1] \in BloatLists
        /\ \A name \in Range(critical) \cup Range(warning) : \E t \in X : name \in Range(t[2][1])
    BY DEF SaidBefore, AllListed
  <1>1. Adds(w, r, If(warning # <<>>, {"P2"}), If(warning # <<>>, {cw}),
             If(warning # <<>> /\ "P1" \notin Flagged(r), {rw}))
    BY <1>0, WarnAdds
  <1>2. Typed(a)
    BY DEF Adds
  <1>3. Adds(q, a, {}, {}, If(Recs(a) # {}, {rg}) \cup If("P1" \in Flagged(a) \/ "P2" \in Flagged(a), {ri}))
    BY <1>2, GeneralAdds
  <1>5. cc[1] = "BLOAT_CRITICAL" /\ cw[1] = "BLOAT_WARNING" /\ rw[1] = "BLOAT_WARNING" /\ ri[1] = "BLOAT_INFO"
        /\ rg[1] = "GENERAL_INFO" /\ ct[1] = id /\ cc[2] = Counting(critical) /\ cw[2] = Counting(warning)
    OBVIOUS
  <1>6. \A t \in Recs(r) : t[1] \in {"BLOAT_CRITICAL", "BLOAT_CRITICAL_INFO"}
    BY <1>0
  <1> HIDE DEF w, q, cc, cw, rw, ri, rg, ct
  <1>7. Flagged(a) = flags
    BY <1>1 DEF Adds, w
  <1>8. Typed(q) /\ Flagged(q) = flags
    BY <1>3, <1>7 DEF Adds
  <1>9. Conc(q) = {ct} \cup If(critical # <<>>, {cc}) \cup If(warning # <<>>, {cw})
    BY <1>0, <1>1, <1>3 DEF Adds, w, ct, cc
  <1>10. Recs(a) = Recs(r) \cup If(warning # <<>> /\ ~p1, {rw}) \cup X
    BY <1>1 DEF Adds, w
  <1>11. Recs(q) = Recs(a) \cup If(Recs(a) # {}, {rg}) \cup If(flags # {}, {ri})
    BY <1>0, <1>3, <1>7 DEF Adds, If
  <1>12. flags # {} => Conc(q) # {} /\ Recs(q) # {}
    BY <1>9, <1>11 DEF If
  <1>13. "P2" \in flags <=> Says(Conc(q), "BLOAT_WARNING")
    BY <1>0, <1>5, <1>9 DEF If, Says
  <1>14. Says(Recs(q), "BLOAT_WARNING") <=> warning # <<>> /\ ~p1
    <2>1. \A t \in Recs(r) \cup X \cup {rg, ri} : t[1] # "BLOAT_WARNING"
      BY <1>0, <1>5, <1>6 DEF BloatLists
    <2>2. Recs(q) \subseteq Recs(r) \cup X \cup {rg, ri} \cup If(warning # <<>> /\ ~p1, {rw})
      BY <1>10, <1>11 DEF If
    <2>3. If(warning # <<>> /\ ~p1, {rw}) \subseteq Recs(q)
      BY <1>10, <1>11
    <2> QED
      BY <1>5, <2>1, <2>2, <2>3 DEF Says, If
  <1>15. flags = {"P2"} <=> warning # <<>> /\ ~p1
    BY <1>0 DEF If
  <1>16. "P1" \in flags => Says(Recs(q), "BLOAT_INFO")
    BY <1>5, <1>11 DEF Says, If
  <1>17. Complete(Conc(q), Recs(q))
    <2> DEFINE Told(s) == /\ CountedMessage(s[2])
                          /\ \A name \in Range(s[2][2]) \ {MSG_ETC_ITEM} :
                               \E t \in Recs(q) : t[1] \in BloatLists /\ name \in Range(t[2][1])
    <2>1. X \subseteq Recs(q)
      BY <1>10, <1>11
    <2>2. Told(cc)
      BY <1>0, <1>5, <2>1, CountingProperties
    <2>3. Told(cw)
      BY <1>0, <1>5, <2>1, CountingProperties
    <2>4. ct[1] \notin CountedIds
      BY <1>0, <1>5 DEF CountedIds
    <2>5. \A s \in Conc(q) : s \in {ct, cc, cw}
      BY <1>9 DEF If
    <2> HIDE DEF Told
    <2>6. \A s \in Conc(q) : s[1] \in CountedIds => Told(s)
      BY <2>2, <2>3, <2>4, <2>5
    <2> QED
      BY <2>6 DEF Told, Complete
  <1> HIDE DEF flags
  <1>18. BloatVerdict(q, flags)
    BY <1>8, <1>12, <1>13, <1>14, <1>15, <1>16, <1>17 DEF BloatVerdict
  <1> QED
    BY <1>18 DEF q, flags, WarningFlag

-----------------------------------------------------------------------------
\* F004Critical: the flag, the conclusion and its advice, if there are names.
LEMMA F004CriticalAdds ==
  ASSUME NEW r, Typed(r), NEW names
  PROVE  \E X \in SUBSET {<<"BLOAT_CRITICAL", Text>>} :
           Adds(F004Critical(names, r), r, If(names # <<>>, {"P1"}),
                If(names # <<>>, {<<"BLOAT_CRITICAL", Counting(names)>>}), X)
  <1>1. CASE names = <<>>
    <2>1. Adds(F004Critical(names, r), r, If(names # <<>>, {"P1"}),
                If(names # <<>>, {<<"BLOAT_CRITICAL", Counting(names)>>}), {})
      BY <1>1, NothingAdds DEF F004Critical, If
    <2> QED
      BY <2>1
  <1>2. CASE names # <<>>
    <2> DEFINE m == Counting(names)
    <2>1. F004Critical(names, r) = Reported(r, "P1", "BLOAT_CRITICAL", m, Text)
      BY <1>2 DEF F004Critical, Reported, Counting
    <2>2. Len(m) > 0 /\ Len(Text) > 0 /\ "P1" \in Priority
      BY DEF Text, Priority, Counting
    <2> HIDE DEF m
    <2>3. Adds(F004Critical(names, r), r, {"P1"}, {<<"BLOAT_CRITICAL", m>>}, {<<"BLOAT_CRITICAL", Text>>})
      BY <2>1, <2>2, ReportedAdds
    <2> QED
      BY <1>2, <2>3 DEF If, m
  <1> QED
    BY <1>1, <1>2

\* F005Advice adds the advice or nothing.
LEMMA F005AdviceAdds ==
  ASSUME NEW r, Typed(r)
  PROVE  \E X \in SUBSET {<<"BLOAT_CRITICAL_INFO", Text>>} : Adds(F005Advice(r), r, {}, {}, X)
  <1>1. CASE ResultInList(r.Recommendations, "BLOAT_CRITICAL_INFO")
    <2>1. Adds(F005Advice(r), r, {}, {}, {})
      BY <1>1, NothingAdds DEF F005Advice
    <2> QED
      BY <2>1
  <1>2. CASE ~ResultInList(r.Recommendations, "BLOAT_CRITICAL_INFO")
    <2>1. Len(Text) > 0
      BY DEF Text
    <2>2. Adds(F005Advice(r), r, {}, {}, {<<"BLOAT_CRITICAL_INFO", Text>>})
      BY <1>2, <2>1, RecommendationAdds DEF F005Advice
    <2> QED
      BY <2>2
  <1> QED
    BY <1>1, <1>2

\* F005Critical: the flag, the conclusion and its advice, unless it was given before.
LEMMA F005CriticalAdds ==
  ASSUME NEW r, Typed(r), NEW names
  PROVE  \E X \in SUBSET {<<"BLOAT_CRITICAL_INFO", Text>>} :
           Adds(F005Critical(names, r), r, If(names # <<>>, {"P1"}),
                If(names # <<>>, {<<"BLOAT_CRITICAL", Counting(names)>>}), X)
  <1>1. CASE names = <<>>
    <2>1. Adds(F005Critical(names, r), r, If(names # <<>>, {"P1"}),
                If(names # <<>>, {<<"BLOAT_CRITICAL", Counting(names)>>}), {})
      BY <1>1, NothingAdds DEF F005Critical, If
    <2> QED
      BY <2>1
  <1>2. CASE names # <<>>
    <2> DEFINE m == Counting(names)
               r1 == Raise(r, "P1")
               r2 == AppendConclusion(r1, "BLOAT_CRITICAL", m)
    <2>1. F005Critical(names, r) = F005Advice(r2)
      BY <1>2 DEF F005Critical, Counting
    <2>2. Len(m) > 0 /\ "P1" \in Priority
      BY DEF Priority, Counting
    <2> HIDE DEF m
    <2>3. Adds(r1, r, {"P1"}, {}, {})
      BY <2>2, RaiseAdds
    <2> HIDE DEF r1
    <2>4. Adds(r2, r1, {}, {<<"BLOAT_CRITICAL", m>>}, {})
      BY <2>2, <2>3, ConclusionAdds DEF Adds
    <2> HIDE DEF r2
    <2>5. PICK X \in SUBSET {<<"BLOAT_CRITICAL_INFO", Text>>} : Adds(F005Advice(r2), r2, {}, {}, X)
      BY <2>4, F005AdviceAdds DEF Adds
    <2>6. Adds(F005Critical(names, r), r, {"P1"}, {<<"BLOAT_CRITICAL", m>>}, X)
      BY <2>1, <2>3, <2>4, <2>5 DEF Adds
    <2> QED
      BY <1>2, <2>6 DEF If, m
  <1> QED
    BY <1>1, <1>2

\* Rows are the rows of all hosts, in whichever order the hosts come.
LEMMA RowsProperties ==
  ASSUME NEW results, IsFiniteSet(DOMAIN results), NEW order \in Orders(results),
         NEW V, \A row \in V : row.Num \in Nat, \A h \in DOMAIN results : IsMap(results[h].bloat, V)
  PROVE  /\ Rows(results, order) \in Seq(V)
         /\ Range(Rows(results, order)) = UNION {Range(results[h].bloat) : h \in DOMAIN results}
  <1> DEFINE ids(h) == GetItemsSortedByNum(results[h].bloat)
             L == [h \in DOMAIN results |-> [j \in DOMAIN ids(h) |-> results[h].bloat[ids(h)[j]]]]
  <1>1. ASSUME NEW h \in DOMAIN results PROVE L[h] \in Seq(V) /\ Range(L[h]) = Range(results[h].bloat)
    <2> DEFINE B == results[h].bloat  num == [id \in DOMAIN B |-> B[id].Num]  f == ids(h)
    <2>1. IsFiniteSet(DOMAIN B) /\ \A id \in DOMAIN B : B[id] \in V
      BY DEF IsMap, Range
    <2>2. DOMAIN num = DOMAIN B /\ \A id \in DOMAIN num : num[id] \in Int
      BY <2>1
    <2>3. f = SortItems(num, FALSE)
      BY DEF GetItemsSortedByNum
    <2>4. L[h] = [j \in DOMAIN f |-> B[f[j]]]
      OBVIOUS
    <2> HIDE DEF num, f, L, ids
    <2>5. f \in Seq(DOMAIN B) /\ Range(f) = DOMAIN B
      BY <2>1, <2>2, <2>3, SortItemsProperties
    <2>6. DOMAIN f = 1 .. Len(f) /\ Len(f) \in Nat /\ \A j \in 1 .. Len(f) : f[j] \in DOMAIN B
      BY <2>5, LenProperties, ElementOfSeq
    <2>7. L[h] \in Seq(V)
      BY <2>1, <2>4, <2>6, SeqDef
    <2>8. Range(L[h]) = {B[id] : id \in Range(f)}
      BY <2>4 DEF Range
    <2>9. {B[id] : id \in DOMAIN B} = Range(B)
      BY DEF Range
    <2> QED
      BY <2>5, <2>7, <2>8, <2>9
  <1>2. \A i \in DOMAIN order : order[i] \in DOMAIN results
    BY Visited
  <1>3. Rows(results, order) = Joined(L, order)
    BY <1>2 DEF Rows, Joined
  <1> HIDE DEF L
  <1>4. Joined(L, order) \in Seq(V) /\ Range(Joined(L, order)) = UNION {Range(L[h]) : h \in DOMAIN results}
    BY <1>1, JoinedProperties
  <1>5. {Range(L[h]) : h \in DOMAIN results} = {Range(results[h].bloat) : h \in DOMAIN results}
    BY <1>1
  <1> QED
    BY <1>3, <1>4, <1>5

\* The names of the rows in a set.
LEMMA NamesProperties ==
  ASSUME NEW V, NEW rows \in Seq(V), NEW set \in SUBSET Range(rows),
         NEW name, NEW names, names = [i \in DOMAIN Sublist(rows, set) |-> name[Sublist(rows, set)[i]]]
  PROVE  /\ names \in Seq({name[v] : v \in V})
         /\ Range(names) = {name[row] : row \in set}
         /\ names = <<>> <=> set = {}
  <1> DEFINE f == Sublist(rows, set)  S == {name[v] : v \in V}
  <1>0. f \in Seq(V) /\ Range(f) = Range(rows) \cap set
    BY SublistProperties
  <1>1. f \in Seq(V) /\ Range(f) = set
    BY <1>0
  <1> HIDE DEF f
  <1>2. DOMAIN f = 1 .. Len(f) /\ Len(f) \in Nat /\ \A j \in 1 .. Len(f) : f[j] \in V
    BY <1>1, LenProperties, ElementOfSeq
  <1>3. names = [i \in 1 .. Len(f) |-> name[f[i]]]
    BY <1>2 DEF f
  <1>4. \A i \in 1 .. Len(f) : name[f[i]] \in S
    BY <1>2
  <1> HIDE DEF S
  <1>5. names \in Seq(S)
    BY <1>2, <1>3, <1>4, SeqDef
  <1>6. Range(names) = {name[row] : row \in set}
    <2>1. Range(names) = {name[f[i]] : i \in 1 .. Len(f)}
      BY <1>3 DEF Range
    <2>2. set = {f[i] : i \in 1 .. Len(f)}
      BY <1>1, <1>2 DEF Range
    <2> QED
      BY <2>1, <2>2
  <1>7. names = <<>> <=> Range(names) = {}
    BY <1>5, EmptyRange
  <1>8. {name[row] : row \in set} = {} <=> set = {}
    OBVIOUS
  <1> QED
    BY <1>5, <1>6, <1>7, <1>8 DEF S

-----------------------------------------------------------------------------
AllRows(results) == UNION {Range(results[h].bloat) : h \in DOMAIN results}

\* The priorities of a report on bloat.
BloatDeserved(results) ==
  If(Excess(results) \/ \E row \in AllRows(results) : Critical(row), {"P1"})
  \cup If(\E row \in AllRows(results) : Warning(row), {"P2"})

\* F004 raises what the rows and totals of all the hosts deserve.
LEMMA F004Judged ==
  ASSUME NEW results, IsFiniteSet(DOMAIN results), \A h \in DOMAIN results : F004Data(results[h]),
         NEW order \in Orders(results)
  PROVE  BloatVerdict(F004Process(results, order), BloatDeserved(results))
  <1> DEFINE V == F004HeapBloat
             rows == Rows(results, order)
             name == [v \in V |-> v.TableName]
             C == {r \in Range(rows) : Critical(r)}
             W == {r \in Range(rows) : Warning(r)}
             B == {r \in Range(rows) : Bloated(r)}
             c == appendTable(Sublist(rows, C))
             w == appendTable(Sublist(rows, W))
             b == appendTable(Sublist(rows, B))
             t == Totals(results, order, NoResult)
             q == F004Critical(c, t)
             a == Advise(b, "BLOATED_TABLES", Warn(w, q))
             S == {name[v] : v \in V}
             X == If(b # <<>>, {<<"BLOATED_TABLES", <<b>> >>})
             p1 == Excess(results) \/ c # <<>>
  <1>1. rows \in Seq(V) /\ Range(rows) = AllRows(results)
    <2>1. \A h \in DOMAIN results : IsMap(results[h].bloat, V)
      BY DEF F004Data
    <2>2. \A row \in V : row.Num \in Nat
      BY DEF F004HeapBloat
    <2> QED
      BY <2>1, <2>2, RowsProperties DEF AllRows
  <1>2. F004Process(results, order) = General(a)
    BY DEF F004Process
  <1> HIDE DEF rows
  <1>3. \A set \in SUBSET Range(rows) :
          appendTable(Sublist(rows, set)) = [i \in DOMAIN Sublist(rows, set) |-> name[Sublist(rows, set)[i]]]
    <2> TAKE set \in SUBSET Range(rows)
    <2> DEFINE f == Sublist(rows, set)
    <2>1. f \in Seq(V)
      BY <1>1, SublistProperties
    <2> HIDE DEF f, V
    <2>2. \A i \in DOMAIN f : f[i] \in V
      BY <2>1, LenProperties, ElementOfSeq
    <2>3. appendTable(f) = [i \in DOMAIN f |-> name[f[i]]]
      BY <2>2 DEF appendTable
    <2> QED
      BY <2>3 DEF f
  <1>4. C \in SUBSET Range(rows) /\ W \in SUBSET Range(rows) /\ B \in SUBSET Range(rows) /\ C \subseteq B /\ W \subseteq B
    BY DEF Critical, Warning
  <1>5. \A set \in SUBSET Range(rows) :
          /\ appendTable(Sublist(rows, set)) \in Seq(S)
          /\ Range(appendTable(Sublist(rows, set))) = {name[row] : row \in set}
          /\ appendTable(Sublist(rows, set)) = <<>> <=> set = {}
    <2> TAKE set \in SUBSET Range(rows)
    <2> DEFINE names == appendTable(Sublist(rows, set))
    <2>1. names = [i \in DOMAIN Sublist(rows, set) |-> name[Sublist(rows, set)[i]]]
      BY <1>3
    <2> HIDE DEF names, V, name
    <2>2. names \in Seq({name[v] : v \in V}) /\ Range(names) = {name[row] : row \in set} /\ (names = <<>> <=> set = {})
      BY <1>1, <2>1, NamesProperties
    <2> QED
      BY <2>2 DEF names
  <1>6. /\ c \in Seq(S) /\ Range(c) = {name[row] : row \in C} /\ (c = <<>> <=> C = {})
        /\ w \in Seq(S) /\ Range(w) = {name[row] : row \in W} /\ (w = <<>> <=> W = {})
        /\ b \in Seq(S) /\ Range(b) = {name[row] : row \in B} /\ (b = <<>> <=> B = {})
    <2> HIDE DEF C, W, B, V, name, S
    <2> QED
      BY <1>4, <1>5
  <1>7. C # {} <=> \E row \in AllRows(results) : Critical(row)
    BY <1>1
  <1>8. W # {} <=> \E row \in AllRows(results) : Warning(row)
    BY <1>1
  <1> HIDE DEF C, W, B, c, w, b, S, name, V
  <1>totals. PICK id \in {"TOTAL_BLOAT_EXCESS", "TOTAL_BLOAT_LOW"} :
          \E m : Adds(t, NoResult, If(Excess(results), {"P1"}), {<<id, m>>}, {})
    BY TotalsAdds
  <1>9. PICK m : Adds(t, NoResult, If(Excess(results), {"P1"}), {<<id, m>>}, {})
    BY <1>totals
  <1> HIDE DEF t, p1
  <1>10. Typed(t)
    BY <1>9 DEF Adds
  <1>11. PICK Y \in SUBSET {<<"BLOAT_CRITICAL", Text>>} :
           Adds(q, t, If(c # <<>>, {"P1"}), If(c # <<>>, {<<"BLOAT_CRITICAL", Counting(c)>>}), Y)
    BY <1>10, F004CriticalAdds
  <1>12. Typed(q)
    BY <1>11 DEF Adds
  <1>13. Flagged(q) = If(p1, {"P1"}) /\ Flagged(q) \subseteq {"P1"}
    <2>1. Flagged(q) = If(Excess(results), {"P1"}) \cup If(c # <<>>, {"P1"})
      BY <1>9, <1>11, NoResultTyped DEF Adds
    <2> QED
      BY <2>1 DEF If, p1
  <1>14. Conc(q) = {<<id, m>>} \cup If(c # <<>>, {<<"BLOAT_CRITICAL", Counting(c)>>})
    BY <1>9, <1>11, NoResultTyped DEF Adds
  <1>15. Recs(q) \subseteq {<<"BLOAT_CRITICAL", Text>>, <<"BLOAT_CRITICAL_INFO", Text>>}
    BY <1>9, <1>11, NoResultTyped DEF Adds
  <1> HIDE DEF q
  <1>16. Adds(Warn(w, q), q, If(w # <<>>, {"P2"}), If(w # <<>>, {<<"BLOAT_WARNING", Counting(w)>>}),
              If(w # <<>> /\ "P1" \notin Flagged(q), {<<"BLOAT_WARNING", Text>>}))
    BY <1>12, WarnAdds
  <1>17. Adds(a, Warn(w, q), {}, {}, X)
    <2> DEFINE z == Warn(w, q)
    <2>1. Typed(z)
      BY <1>16 DEF Adds
    <2> HIDE DEF z
    <2>2. Adds(Advise(b, "BLOATED_TABLES", z), z, {}, {}, If(b # <<>>, {<<"BLOATED_TABLES", <<b>> >>}))
      BY <2>1, AdviseAdds
    <2> QED
      BY <2>2 DEF z
  <1>18. \A x \in X : x[1] \in BloatLists
    BY DEF If, BloatLists
  <1>19. \A n \in Range(c) \cup Range(w) : \E x \in X : n \in Range(x[2][1])
    <2> TAKE n \in Range(c) \cup Range(w)
    <2>1. n \in Range(b) /\ b # <<>>
      BY <1>4, <1>6
    <2> DEFINE x == <<"BLOATED_TABLES", <<b>> >>
    <2>2. x \in X /\ x[2][1] = b
      BY <2>1 DEF If
    <2> QED
      BY <2>1, <2>2
  <1> HIDE DEF a, X
  <1>20. SaidBefore(q, c, id, m) /\ AllListed(X, c, w)
    BY <1>12, <1>13, <1>14, <1>15, <1>18, <1>19 DEF SaidBefore, AllListed
  <1>21. BloatVerdict(General(a), Flagged(q) \cup WarningFlag(w))
    BY <1>6, <1>17, <1>20, BloatJudged
  <1>22. BloatDeserved(results) = Flagged(q) \cup WarningFlag(w)
    BY <1>6, <1>7, <1>8, <1>13 DEF BloatDeserved, WarningFlag, p1
  <1> QED
    BY <1>2, <1>21, <1>22

\* So does F005, whichever tables are bloated.
LEMMA F005Judged ==
  ASSUME NEW results, IsFiniteSet(DOMAIN results), \A h \in DOMAIN results : F005Data(results[h]),
         NEW order \in Orders(results), NEW bloatedTables
  PROVE  BloatVerdict(F005Process(results, order, bloatedTables), BloatDeserved(results))
  <1> DEFINE V == F005IndexBloat
             rows == Rows(results, order)
             name == [v \in V |-> v.IndexName]
             C == {r \in Range(rows) : Critical(r)}
             W == {r \in Range(rows) : Warning(r)}
             T == {r \in Range(rows) : Bloated(r) /\ r.TableName \in bloatedTables}
             O == {r \in Range(rows) : Bloated(r) /\ r.TableName \notin bloatedTables}
             c == appendIndex(Sublist(rows, C))
             w == appendIndex(Sublist(rows, W))
             o == appendIndex(Sublist(rows, O))
             b == appendIndex(Sublist(rows, T))
             t == Totals(results, order, NoResult)
             d == IF Excess(results) THEN F005Advice(t) ELSE t
             q == F005Critical(c, d)
             u == Advise(o, "BLOATED_INDEXES", Warn(w, q))
             a == Advise(b, "BLOATED_TABLE_INDEXES", u)
             S == {name[v] : v \in V}
             XO == If(o # <<>>, {<<"BLOATED_INDEXES", <<o>> >>})
             XT == If(b # <<>>, {<<"BLOATED_TABLE_INDEXES", <<b>> >>})
             X == XO \cup XT
             p1 == Excess(results) \/ c # <<>>
  <1>1. rows \in Seq(V) /\ Range(rows) = AllRows(results)
    <2>1. \A h \in DOMAIN results : IsMap(results[h].bloat, V)
      BY DEF F005Data
    <2>2. \A row \in V : row.Num \in Nat
      BY DEF F005IndexBloat
    <2> QED
      BY <2>1, <2>2, RowsProperties DEF AllRows
  <1>2. F005Process(results, order, bloatedTables) = General(a)
    BY DEF F005Process
  <1> HIDE DEF rows
  <1>3. \A set \in SUBSET Range(rows) :
          appendIndex(Sublist(rows, set)) = [i \in DOMAIN Sublist(rows, set) |-> name[Sublist(rows, set)[i]]]
    <2> TAKE set \in SUBSET Range(rows)
    <2> DEFINE f == Sublist(rows, set)
    <2>1. f \in Seq(V)
      BY <1>1, SublistProperties
    <2> HIDE DEF f, V
    <2>2. \A i \in DOMAIN f : f[i] \in V
      BY <2>1, LenProperties, ElementOfSeq
    <2>3. appendIndex(f) = [i \in DOMAIN f |-> name[f[i]]]
      BY <2>2 DEF appendIndex
    <2> QED
      BY <2>3 DEF f
  <1>4. /\ C \in SUBSET Range(rows) /\ W \in SUBSET Range(rows) /\ T \in SUBSET Range(rows) /\ O \in SUBSET Range(rows)
        /\ C \subseteq T \cup O /\ W \subseteq T \cup O
    BY DEF Critical, Warning
  <1>5. \A set \in SUBSET Range(rows) :
          /\ appendIndex(Sublist(rows, set)) \in Seq(S)
          /\ Range(appendIndex(Sublist(rows, set))) = {name[row] : row \in set}
          /\ appendIndex(Sublist(rows, set)) = <<>> <=> set = {}
    <2> TAKE set \in SUBSET Range(rows)
    <2> DEFINE names == appendIndex(Sublist(rows, set))
    <2>1. names = [i \in DOMAIN Sublist(rows, set) |-> name[Sublist(rows, set)[i]]]
      BY <1>3
    <2> HIDE DEF names, V, name
    <2>2. names \in Seq({name[v] : v \in V}) /\ Range(names) = {name[row] : row \in set} /\ (names = <<>> <=> set = {})
      BY <1>1, <2>1, NamesProperties
    <2> QED
      BY <2>2 DEF names
  <1>6. /\ c \in Seq(S) /\ Range(c) = {name[row] : row \in C} /\ (c = <<>> <=> C = {})
        /\ w \in Seq(S) /\ Range(w) = {name[row] : row \in W} /\ (w = <<>> <=> W = {})
        /\ b \in Seq(S) /\ Range(b) = {name[row] : row \in T} /\ (b = <<>> <=> T = {})
        /\ o \in Seq(S) /\ Range(o) = {name[row] : row \in O} /\ (o = <<>> <=> O = {})
    <2> HIDE DEF C, W, T, O, V, name, S
    <2> QED
      BY <1>4, <1>5
  <1>7. C # {} <=> \E row \in AllRows(results) : Critical(row)
    BY <1>1
  <1>8. W # {} <=> \E row \in AllRows(results) : Warning(row)
    BY <1>1
  <1> HIDE DEF C, W, T, O, c, w, b, o, S, name, V
  <1>totals. PICK id \in {"TOTAL_BLOAT_EXCESS", "TOTAL_BLOAT_LOW"} :
          \E m : Adds(t, NoResult, If(Excess(results), {"P1"}), {<<id, m>>}, {})
    BY TotalsAdds
  <1>9. PICK m : Adds(t, NoResult, If(Excess(results), {"P1"}), {<<id, m>>}, {})
    BY <1>totals
  <1> HIDE DEF t, p1
  <1>10. PICK Y \in SUBSET {<<"BLOAT_CRITICAL_INFO", Text>>} : Adds(d, t, {}, {}, Y)
    <2>1. Typed(t)
      BY <1>9 DEF Adds
    <2>2. CASE Excess(results)
      BY <2>1, <2>2, F005AdviceAdds
    <2>3. CASE ~Excess(results)
      <3>1. Adds(d, t, {}, {}, {})
        BY <2>1, <2>3, NothingAdds
      <3> QED
        BY <3>1
    <2> QED
      BY <2>2, <2>3
  <1> HIDE DEF d
  <1>11. PICK Z \in SUBSET {<<"BLOAT_CRITICAL_INFO", Text>>} :
           Adds(q, d, If(c # <<>>, {"P1"}), If(c # <<>>, {<<"BLOAT_CRITICAL", Counting(c)>>}), Z)
    <2>1. Typed(d)
      BY <1>10 DEF Adds
    <2> QED
      BY <2>1, F005CriticalAdds
  <1>12. Typed(q)
    BY <1>11 DEF Adds
  <1>13. Flagged(q) = If(p1, {"P1"}) /\ Flagged(q) \subseteq {"P1"}
    <2>1. Flagged(q) = If(Excess(results), {"P1"}) \cup If(c # <<>>, {"P1"})
      BY <1>9, <1>10, <1>11, NoResultTyped DEF Adds
    <2> QED
      BY <2>1 DEF If, p1
  <1>14. Conc(q) = {<<id, m>>} \cup If(c # <<>>, {<<"BLOAT_CRITICAL", Counting(c)>>})
    BY <1>9, <1>10, <1>11, NoResultTyped DEF Adds
  <1>15. Recs(q) \subseteq {<<"BLOAT_CRITICAL", Text>>, <<"BLOAT_CRITICAL_INFO", Text>>}
    BY <1>9, <1>10, <1>11, NoResultTyped DEF Adds
  <1> HIDE DEF q
  <1>16. Adds(Warn(w, q), q, If(w # <<>>, {"P2"}), If(w # <<>>, {<<"BLOAT_WARNING", Counting(w)>>}),
              If(w # <<>> /\ "P1" \notin Flagged(q), {<<"BLOAT_WARNING", Text>>}))
    BY <1>12, WarnAdds
  <1>17. Adds(u, Warn(w, q), {}, {}, XO)
    <2> DEFINE z == Warn(w, q)
    <2>1. Typed(z)
      BY <1>16 DEF Adds
    <2> HIDE DEF z
    <2>2. Adds(Advise(o, "BLOATED_INDEXES", z), z, {}, {}, If(o # <<>>, {<<"BLOATED_INDEXES", <<o>> >>}))
      BY <2>1, AdviseAdds
    <2> QED
      BY <2>2 DEF z
  <1> HIDE DEF u, XO
  <1>18. Adds(a, u, {}, {}, XT)
    <2>1. Typed(u)
      BY <1>17 DEF Adds
    <2> QED
      BY <2>1, AdviseAdds
  <1> HIDE DEF a, XT
  <1>19. Adds(a, Warn(w, q), {}, {}, X)
    BY <1>17, <1>18 DEF Adds
  <1>20. AllListed(X, c, w)
    <2>1. \A x \in X : x[1] \in BloatLists
      BY DEF If, BloatLists, XO, XT
    <2>2. ASSUME NEW n \in Range(c) \cup Range(w) PROVE \E x \in X : n \in Range(x[2][1])
      <3> DEFINE xb == <<"BLOATED_TABLE_INDEXES", <<b>> >>
                 xo == <<"BLOATED_INDEXES", <<o>> >>
      <3>1. n \in Range(b) \cup Range(o)
        BY <1>4, <1>6
      <3>2. CASE n \in Range(b)
        <4>1. b # <<>>
          BY <1>6, <3>2
        <4>2. xb \in X /\ xb[2][1] = b
          BY <4>1 DEF If, XT
        <4> QED
          BY <3>2, <4>2
      <3>3. CASE n \in Range(o)
        <4>1. o # <<>>
          BY <1>6, <3>3
        <4>2. xo \in X /\ xo[2][1] = o
          BY <4>1 DEF If, XO
        <4> QED
          BY <3>3, <4>2
      <3> QED
        BY <3>1, <3>2, <3>3
    <2> QED
      BY <2>1, <2>2 DEF AllListed
  <1> HIDE DEF X
  <1>21. SaidBefore(q, c, id, m)
    BY <1>12, <1>13, <1>14, <1>15 DEF SaidBefore
  <1>22. BloatVerdict(General(a), Flagged(q) \cup WarningFlag(w))
    BY <1>6, <1>19, <1>20, <1>21, BloatJudged
  <1>23. BloatDeserved(results) = Flagged(q) \cup WarningFlag(w)
    BY <1>6, <1>7, <1>8, <1>13 DEF BloatDeserved, WarningFlag, p1
  <1> QED
    BY <1>2, <1>22, <1>23

\* A verdict after something more is reported.
LEMMA MoreReported ==
  ASSUME NEW r, NEW flags, Verdict(r, flags), NEW p \in Priority, NEW id, NEW message, Len(message) > 0,
         NEW advice, Len(advice) > 0
  PROVE  Verdict(Reported(r, p, id, message, advice), flags \cup {p})
  <1> DEFINE q == Reported(r, p, id, message, advice)
  <1>1. Adds(q, r, {p}, {<<id, message>>}, {<<id, advice>>})
    BY ReportedAdds DEF Verdict
  <1> HIDE DEF q
  <1>2. Verdict(q, flags \cup {p})
    BY <1>1 DEF Adds, Verdict
  <1> QED
    BY <1>2 DEF q

-----------------------------------------------------------------------------
(* The loops of the checks.  A lemma cannot be about an operator: `loop`   *)
(* is a record that says which of them it is, and what it reads.           *)
TurnOf(loop, kept, x) ==
  CASE loop.of = "usage"   -> checkFsItemUsage(x.host, x.item, kept)
    [] loop.of = "workers" -> WorkersTurn(kept, x, loop.results, loop.cpus)
    [] loop.of = "cost"    -> CostTurn(kept, x, loop.results, loop.versions)
    [] loop.of = "major"   -> MajorTurn(kept, x, loop.results, loop.versions, loop.today)
    [] loop.of = "minor"   -> MinorTurn(kept, loop.results[x].ServerVersionNum, loop.versions)

\* The equation of the function that Loop takes the last value of.
Turns(loop, start, order, n, F) ==
  F = [i \in 0 .. n |-> IF i = 0 THEN start ELSE TurnOf(loop, F[i - 1], order[i])]

\* The values a loop goes through exist ...
LEMMA TurnsExist ==
  ASSUME NEW loop, NEW start, NEW order, NEW n \in Nat
  PROVE  \E F : Turns(loop, start, order, n, F)
  <1> DEFINE G == {k \in 0 .. n : \E F : Turns(loop, start, order, k, F)}
  <1>1. Turns(loop, start, order, 0, [i \in 0 .. 0 |-> start])
    BY DEF Turns
  <1>2. ASSUME NEW k \in 0 .. n - 1, NEW F, Turns(loop, start, order, k, F)
        PROVE  \E H : Turns(loop, start, order, k + 1, H)
    <2> DEFINE new == TurnOf(loop, F[k], order[k + 1])
               H == [i \in 0 .. k + 1 |-> IF i = k + 1 THEN new ELSE F[i]]
    <2>1. \A i \in 0 .. k : F[i] = IF i = 0 THEN start ELSE TurnOf(loop, F[i - 1], order[i])
      BY <1>2 DEF Turns
    <2>2. H[k + 1] = new /\ \A i \in 0 .. k : H[i] = F[i]
      OBVIOUS
    <2>3. ASSUME NEW i \in 0 .. k + 1
          PROVE  H[i] = IF i = 0 THEN start ELSE TurnOf(loop, H[i - 1], order[i])
      <3> HIDE DEF H
      <3>1. CASE i = k + 1
        <4>1. i - 1 = k /\ k \in 0 .. k /\ i # 0
          BY <3>1
        <4> QED
          BY <2>2, <3>1, <4>1
      <3>2. CASE i \in 0 .. k
        <4>1. i # 0 => i - 1 \in 0 .. k
          BY <3>2
        <4> QED
          BY <2>1, <2>2, <3>2, <4>1
      <3> QED
        BY <3>1, <3>2
    <2>4. Turns(loop, start, order, k + 1, H)
      BY <2>3 DEF Turns
    <2> QED
      BY <2>4
  <1>3. 0 \in G /\ \A k \in 0 .. n - 1 : k \in G => k + 1 \in G
    BY <1>1, <1>2
  <1> HIDE DEF G
  <1>4. n \in G
    BY <1>3, UpTo
  <1> QED
    BY <1>4 DEF G

\* What F says of a loop over `order`.
Runs(loop, start, order, F) ==
  F[0] = start /\ \A i \in 1 .. Len(order) : F[i] = TurnOf(loop, F[i - 1], order[i])

\* ... and begin with what it starts from; each is made of the one before.
LEMMA TurnsRun ==
  ASSUME NEW loop, NEW start, NEW order, Len(order) \in Nat, NEW F, Turns(loop, start, order, Len(order), F)
  PROVE  Runs(loop, start, order, F)
  <1> DEFINE n == Len(order)
  <1>1. \A i \in 0 .. n : F[i] = IF i = 0 THEN start ELSE TurnOf(loop, F[i - 1], order[i])
    BY DEF Turns
  <1>2. 0 \in 0 .. n /\ \A i \in 1 .. n : i \in 0 .. n /\ i # 0
    OBVIOUS
  <1> QED
    BY <1>1, <1>2 DEF Runs

\* The loop over the lines of df is such a loop ...
LEMMA UsageRuns ==
  ASSUME NEW start, NEW order, Len(order) \in Nat
  PROVE  \E F : /\ Runs([of |-> "usage"], start, order, F)
                /\ Loop(LAMBDA r, line : checkFsItemUsage(line.host, line.item, r), start, order) = F[Len(order)]
  <1> DEFINE n == Len(order)  loop == [of |-> "usage"]
             Equation(F) == F = [i \in 0 .. n |->
                                   IF i = 0 THEN start
                                   ELSE checkFsItemUsage(order[i].host, order[i].item, F[i - 1])]
             kept == CHOOSE F : Equation(F)
  <1>1. \A F, i : TurnOf(loop, F[i - 1], order[i]) = checkFsItemUsage(order[i].host, order[i].item, F[i - 1])
    BY DEF TurnOf
  <1>2. Loop(LAMBDA r, line : checkFsItemUsage(line.host, line.item, r), start, order) = kept[n]
    BY DEF Loop
  <1> HIDE DEF loop
  <1>3. \A F : Turns(loop, start, order, n, F) <=> Equation(F)
    BY <1>1 DEF Turns
  <1>4. Equation(kept)
    BY <1>3, TurnsExist
  <1> HIDE DEF kept, Equation
  <1>5. Runs(loop, start, order, kept)
    BY <1>3, <1>4, TurnsRun
  <1> QED
    BY <1>2, <1>5 DEF loop

\* ... and that over the workers of the hosts ...
LEMMA WorkersRuns ==
  ASSUME NEW results, NEW cpus, NEW r, NEW order, Len(order) \in Nat
  PROVE  \E F : /\ Runs([of |-> "workers", results |-> results, cpus |-> cpus], HostLoop(r), order, F)
                /\ F008CheckMaxWorkers(results, order, cpus, r) = F[Len(order)]
  <1> DEFINE n == Len(order)  start == HostLoop(r)  loop == [of |-> "workers", results |-> results, cpus |-> cpus]
             Equation(F) == F = [i \in 0 .. n |-> IF i = 0 THEN start ELSE WorkersTurn(F[i - 1], order[i], results, cpus)]
             kept == CHOOSE F : Equation(F)
  <1>1. \A F, i : TurnOf(loop, F[i - 1], order[i]) = WorkersTurn(F[i - 1], order[i], results, cpus)
    BY DEF TurnOf
  <1>2. F008CheckMaxWorkers(results, order, cpus, r) = kept[n]
    BY DEF Loop, start, F008CheckMaxWorkers
  <1> HIDE DEF loop, start
  <1>3. \A F : Turns(loop, start, order, n, F) <=> Equation(F)
    BY <1>1 DEF Turns
  <1>4. Equation(kept)
    BY <1>3, TurnsExist
  <1> HIDE DEF kept, Equation
  <1>5. Runs(loop, start, order, kept)
    BY <1>3, <1>4, TurnsRun
  <1> QED
    BY <1>2, <1>5 DEF loop, start

\* ... that over their cost settings ...
LEMMA CostRuns ==
  ASSUME NEW results, NEW vs, NEW r, NEW order, Len(order) \in Nat
  PROVE  \E F : /\ Runs([of |-> "cost", results |-> results, versions |-> vs], HostLoop(r), order, F)
                /\ F008CheckAutovacuumCost(results, order, vs, r) = F[Len(order)]
  <1> DEFINE n == Len(order)  start == HostLoop(r)  loop == [of |-> "cost", results |-> results, versions |-> vs]
             Equation(F) == F = [i \in 0 .. n |-> IF i = 0 THEN start ELSE CostTurn(F[i - 1], order[i], results, vs)]
             kept == CHOOSE F : Equation(F)
  <1>1. \A F, i : TurnOf(loop, F[i - 1], order[i]) = CostTurn(F[i - 1], order[i], results, vs)
    BY DEF TurnOf
  <1>2. F008CheckAutovacuumCost(results, order, vs, r) = kept[n]
    BY DEF Loop, start, F008CheckAutovacuumCost
  <1> HIDE DEF loop, start
  <1>3. \A F : Turns(loop, start, order, n, F) <=> Equation(F)
    BY <1>1 DEF Turns
  <1>4. Equation(kept)
    BY <1>3, TurnsExist
  <1> HIDE DEF kept, Equation
  <1>5. Runs(loop, start, order, kept)
    BY <1>3, <1>4, TurnsRun
  <1> QED
    BY <1>2, <1>5 DEF loop, start

\* ... that over their major versions ...
LEMMA MajorRuns ==
  ASSUME NEW results, NEW vs, NEW today, NEW r, NEW order, Len(order) \in Nat
  PROVE  \E F : /\ Runs([of |-> "major", results |-> results, versions |-> vs, today |-> today],
                       [result |-> r, processed |-> {}], order, F)
                /\ A002CheckMajorVersions(results, order, vs, today, r) = F[Len(order)].result
  <1> DEFINE n == Len(order)
             start == [result |-> r, processed |-> {}]
             loop == [of |-> "major", results |-> results, versions |-> vs, today |-> today]
             Equation(F) == F = [i \in 0 .. n |-> IF i = 0 THEN start ELSE MajorTurn(F[i - 1], order[i], results, vs, today)]
             kept == CHOOSE F : Equation(F)
  <1>1. \A F, i : TurnOf(loop, F[i - 1], order[i]) = MajorTurn(F[i - 1], order[i], results, vs, today)
    BY DEF TurnOf
  <1>2. A002CheckMajorVersions(results, order, vs, today, r) = kept[n].result
    BY DEF Loop, start, A002CheckMajorVersions
  <1> HIDE DEF loop, start
  <1>3. \A F : Turns(loop, start, order, n, F) <=> Equation(F)
    BY <1>1 DEF Turns
  <1>4. Equation(kept)
    BY <1>3, TurnsExist
  <1> HIDE DEF kept, Equation
  <1>5. Runs(loop, start, order, kept)
    BY <1>3, <1>4, TurnsRun
  <1> QED
    BY <1>2, <1>5 DEF loop, start

\* What A002CheckMinorVersions makes of what its loop has kept.
MinorOutcome(kept) ==
  LET said == AppendConclusion(kept.result, "A002_NOT_LAST_MINOR_VERSION",
                               <<GetUniques(kept.cur), kept.update[1]>>)
      advised == AppendRecommendation(said, "A002_NOT_LAST_MINOR_VERSION", <<kept.update[1]>>)
  IN [panic |-> kept.panic,
      result |-> IF kept.cur = <<>> THEN kept.result ELSE Raise(advised, "P2")]

\* ... and that over their minor versions.
LEMMA MinorRuns ==
  ASSUME NEW results, NEW vs, NEW r, NEW order, Len(order) \in Nat
  PROVE  \E F : /\ Runs([of |-> "minor", results |-> results, versions |-> vs], MinorLoop(r), order, F)
                /\ A002CheckMinorVersions(results, order, vs, r) = MinorOutcome(F[Len(order)])
  <1> DEFINE n == Len(order)  start == MinorLoop(r)  loop == [of |-> "minor", results |-> results, versions |-> vs]
             Equation(F) == F = [i \in 0 .. n |->
                                   IF i = 0 THEN start
                                   ELSE MinorTurn(F[i - 1], results[order[i]].ServerVersionNum, vs)]
             kept == CHOOSE F : Equation(F)
  <1>1. \A F, i : TurnOf(loop, F[i - 1], order[i]) = MinorTurn(F[i - 1], results[order[i]].ServerVersionNum, vs)
    BY DEF TurnOf
  <1>2. A002CheckMinorVersions(results, order, vs, r) = MinorOutcome(kept[n])
    BY DEF Loop, start, A002CheckMinorVersions, MinorOutcome
  <1> HIDE DEF loop, start
  <1>3. \A F : Turns(loop, start, order, n, F) <=> Equation(F)
    BY <1>1 DEF Turns
  <1>4. Equation(kept)
    BY <1>3, TurnsExist
  <1> HIDE DEF kept, Equation
  <1>5. Runs(loop, start, order, kept)
    BY <1>3, <1>4, TurnsRun
  <1> QED
    BY <1>2, <1>5 DEF loop, start

-----------------------------------------------------------------------------
(* A008.                                                                   *)
Level8(item) ==
  IF Percent(item) >= 90 THEN {"P1"} ELSE IF Percent(item) >= 70 THEN {"P2"} ELSE {}

\* What one line of df adds to a verdict.
LEMMA UsageVerdict ==
  ASSUME NEW r, NEW flags, Verdict(r, flags), NEW host, NEW item
  PROVE  Verdict(checkFsItemUsage(host, item, r), flags \cup Level8(item))
  <1> DEFINE m == <<item.MountPoint, host>>
  <1>1. Len(m) > 0 /\ "P1" \in Priority /\ "P2" \in Priority
    BY DEF Priority
  <1>2. checkFsItemUsage(host, item, r) =
          IF Percent(item) >= 90 THEN Reported(r, "P1", "A008_SPACE_USAGE_CRITICAL", m, m)
          ELSE IF Percent(item) >= 70 THEN Reported(r, "P2", "A008_SPACE_USAGE_WARNING", m, m)
          ELSE r
    BY DEF checkFsItemUsage, Reported, USAGE_CRITICAL, USAGE_WARNING
  <1> HIDE DEF m
  <1>3. CASE Percent(item) >= 90
    BY <1>1, <1>2, <1>3, MoreReported DEF Level8
  <1>4. CASE ~(Percent(item) >= 90) /\ Percent(item) >= 70
    BY <1>1, <1>2, <1>4, MoreReported DEF Level8
  <1>5. CASE ~(Percent(item) >= 90) /\ ~(Percent(item) >= 70)
    <2>1. Level8(item) = {}
      BY <1>5 DEF Level8
    <2>2. checkFsItemUsage(host, item, r) = r
      BY <1>2, <1>5
    <2> QED
      BY <2>1, <2>2
  <1> QED
    BY <1>3, <1>4, <1>5

\* The lines are those of the file systems of all hosts.
LEMMA LinesProperties ==
  ASSUME NEW map, IsFiniteSet(DOMAIN map), NEW order \in Orders(map),
         NEW data, \A h \in DOMAIN map : data[h].DbData = <<>> /\ IsFiniteSet(DOMAIN data[h].FsData)
  PROVE  \E S : /\ Lines(data, order) \in Seq(S)
                /\ {line.item : line \in Range(Lines(data, order))} = UNION {Range(data[h].FsData) : h \in DOMAIN map}
  <1> DEFINE D == DOMAIN map
             V == UNION {Range(data[h].FsData) : h \in D}
             S == [host : D, item : V]
             L == [h \in D |-> LinesOf(h, data[h].DbData) \o LinesOf(h, data[h].FsData)]
             RL(h) == {[host |-> h, item |-> x] : x \in Range(data[h].FsData)}
  <1>1. ASSUME NEW h \in D PROVE L[h] \in Seq(S) /\ Range(L[h]) = RL(h)
    <2> DEFINE E == data[h].FsData  ids == SetToSeq(DOMAIN E)  l == LinesOf(h, E)  e == LinesOf(h, <<>>)
    <2>1. ids \in Seq(DOMAIN E) /\ Range(ids) = DOMAIN E
      BY SetToSeqProperties
    <2>2. l = [i \in DOMAIN ids |-> [host |-> h, item |-> E[ids[i]]]]
      BY DEF LinesOf
    <2>3. L[h] = e \o l
      OBVIOUS
    <2>4. \A x \in Range(E) : [host |-> h, item |-> x] \in S
      OBVIOUS
    <2> HIDE DEF L, ids, l, S, V
    <2>5. DOMAIN ids = 1 .. Len(ids) /\ Len(ids) \in Nat /\ \A i \in 1 .. Len(ids) : ids[i] \in DOMAIN E
      BY <2>1, LenProperties, ElementOfSeq
    <2>6. \A i \in 1 .. Len(ids) : [host |-> h, item |-> E[ids[i]]] \in S
      BY <2>4, <2>5 DEF Range
    <2>7. l \in Seq(S)
      BY <2>2, <2>5, <2>6, SeqDef
    <2>8. e = <<>>
      <3> DEFINE none == SetToSeq(DOMAIN <<>>)
      <3>1. IsFiniteSet(DOMAIN <<>>) /\ DOMAIN <<>> = {}
        BY FS_EmptySet
      <3>2. none \in Seq({}) /\ Range(none) = {}
        BY <3>1, SetToSeqProperties
      <3>3. e = [i \in DOMAIN none |-> [host |-> h, item |-> <<>>[none[i]]]]
        BY DEF LinesOf
      <3> HIDE DEF none, e
      <3>4. none = <<>>
        BY <3>2, EmptyRange
      <3> QED
        BY <3>3, <3>4
    <2> HIDE DEF e
    <2>9. L[h] = l
      BY <2>3, <2>7, <2>8, ConcatEmptySeq
    <2>10. Range(l) = {[host |-> h, item |-> E[id]] : id \in Range(ids)}
      BY <2>2 DEF Range
    <2>11. Range(l) = RL(h)
      BY <2>1, <2>10 DEF Range
    <2> QED
      BY <2>7, <2>9, <2>11
  <1>2. \A i \in DOMAIN order : order[i] \in D
    BY Visited
  <1>3. Lines(data, order) = Joined(L, order)
    BY <1>2 DEF Lines, Joined
  <1> DEFINE lines == Lines(data, order)
  <1> HIDE DEF L, S, lines
  <1>4. lines \in Seq(S) /\ Range(lines) = UNION {Range(L[h]) : h \in D}
    BY <1>1, <1>3, JoinedProperties DEF lines
  <1>5. Range(lines) = UNION {RL(h) : h \in D}
    BY <1>1, <1>4
  <1>6. {line.item : line \in Range(lines)} = V
    <2>1. \A x : x \in V => \E line \in Range(lines) : line.item = x
      <3> SUFFICES ASSUME NEW h \in D, NEW x \in Range(data[h].FsData) PROVE \E line \in Range(lines) : line.item = x
        OBVIOUS
      <3> DEFINE line == [host |-> h, item |-> x]
      <3>1. line \in RL(h) /\ line.item = x
        OBVIOUS
      <3> HIDE DEF RL, line
      <3>2. line \in Range(lines)
        BY <1>5, <3>1
      <3> QED
        BY <3>1, <3>2
    <2>2. \A line \in Range(lines) : line.item \in V
      BY <1>5
    <2> HIDE DEF V
    <2> QED
      BY <2>1, <2>2
  <1> QED
    BY <1>4, <1>6 DEF lines

\* PerHost says nothing of hosts without mount points to complain about.
LEMMA PerHostNothing ==
  ASSUME NEW map, IsFiniteSet(DOMAIN map), NEW order \in Orders(map),
         NEW points, \A h \in DOMAIN points : points[h] = {}, NEW id, NEW p, NEW r
  PROVE  PerHost(order, points, id, p, r) = r
  <1> DEFINE set == {h \in DOMAIN points : points[h] # {}}  hosts == Sublist(order, set)
  <1>1. set = {}
    OBVIOUS
  <1>2. order \in Seq(DOMAIN map)
    BY Visited
  <1> HIDE DEF set
  <1>3. hosts \in Seq(DOMAIN map) /\ Range(hosts) = Range(order) \cap set
    BY <1>2, SublistProperties
  <1> HIDE DEF hosts
  <1>4. hosts = <<>>
    BY <1>1, <1>3, EmptyRange
  <1> QED
    BY <1>4 DEF PerHost, hosts, set

\* The lines of the file systems are all that A008 reads: the field DbData is empty.
LEMMA A008Judged ==
  ASSUME NEW results, IsFiniteSet(DOMAIN results), \A h \in DOMAIN results : A008Written(results[h]),
         NEW order \in Orders(results)
  PROVE  LET items == UNION {Range(results[h]["fs_data"]) : h \in DOMAIN results}
             judged == A008Process(results, order)
         IN /\ ~judged.panic
            /\ Verdict(judged.result, If(\E item \in items : item.UsePercent >= 90, {"P1"})
                                       \cup If(\E item \in items : item.UsePercent \in 70 .. 89, {"P2"}))
  <1> DEFINE D == DOMAIN results
             data == [h \in D |-> A008ReportHostResultData(results[h])]
             lines == Lines(data, order)
             n == Len(lines)
             items == UNION {Range(results[h]["fs_data"]) : h \in D}
             all == UNION {Level8(item) : item \in items}
             u == Loop(LAMBDA s, line : checkFsItemUsage(line.host, line.item, s), NoResult, lines)
             normal == AppendConclusion(u, "A008_SPACE_USAGE_NORMAL", Text)
             r == IF u.Recommendations # <<>> THEN u ELSE normal
             judged == A008Process(results, order)
  <1>1. \A h \in D : /\ data[h].DbData = <<>> /\ data[h].FsData = results[h]["fs_data"]
                     /\ IsMap(results[h]["fs_data"], FsItem)
    BY DEF A008Written, A008ReportHostResultData
  <1>2. \A h \in D : IsFiniteSet(DOMAIN data[h].FsData)
    BY <1>1 DEF IsMap
  <1>3. \A item \in items : item.UsePercent \in Nat \cup {NoPercent}
    BY <1>1 DEF IsMap, FsItem
  <1>4. /\ \A h \in D : NetworkFs(data[h].DbData) = {} /\ NotRecommendedFs(data[h].DbData) = {}
        /\ \A h \in D : DOMAIN data[h].DbData = {}
    BY <1>1 DEF NetworkFs, NotRecommendedFs
  <1>5. judged.panic = FALSE /\ judged.result = r
    <2> DEFINE pn == [h \in D |-> NetworkFs(data[h].DbData)]
               pr == [h \in D |-> NotRecommendedFs(data[h].DbData)]
               nfs == PerHost(order, pn, "A008_NFS_DISK", "P1", r)
    <2>2. judged = [panic |-> \E h \in DOMAIN data : \E i \in DOMAIN data[h].DbData : data[h].DbData[i].Fstype.letters < 3,
                    result |-> PerHost(order, pr, "A008_NOT_RECOMMENDED_FS", "P3", nfs)]
      BY DEF A008Process
    <2>3. (\A h \in DOMAIN pn : pn[h] = {}) /\ (\A h \in DOMAIN pr : pr[h] = {})
      BY <1>4
    <2>4. DOMAIN data = D
      OBVIOUS
    <2> HIDE DEF pn, pr, r, judged
    <2>5. nfs = r
      BY <2>3, PerHostNothing
    <2>6. PerHost(order, pr, "A008_NOT_RECOMMENDED_FS", "P3", r) = r
      BY <2>3, PerHostNothing
    <2> QED
      BY <1>4, <2>2, <2>4, <2>5, <2>6
  <1> HIDE DEF data, lines
  <1>6. PICK S : lines \in Seq(S) /\ {line.item : line \in Range(lines)} = items
    <2>1. \E T : lines \in Seq(T) /\ {line.item : line \in Range(lines)} = UNION {Range(data[h].FsData) : h \in D}
      BY <1>1, <1>2, LinesProperties DEF lines
    <2>2. {Range(data[h].FsData) : h \in D} = {Range(results[h]["fs_data"]) : h \in D}
      BY <1>1
    <2> QED
      BY <2>1, <2>2
  <1>7. n \in Nat /\ DOMAIN lines = 1 .. n
    BY <1>6, LenProperties
  <1> HIDE DEF n
  <1>8. PICK used : Runs([of |-> "usage"], NoResult, lines, used) /\ u = used[n]
    BY <1>7, UsageRuns DEF n
  <1> HIDE DEF items, u
  <1>9. used[0] = NoResult /\ \A i \in 1 .. n : used[i] = checkFsItemUsage(lines[i].host, lines[i].item, used[i - 1])
    BY <1>8 DEF Runs, TurnOf, n
  <1> DEFINE so(i) == UNION {Level8(lines[j].item) : j \in 1 .. i}
             G == {i \in 0 .. n : Verdict(used[i], so(i))}
  <1>10. 0 \in G
    <2>1. so(0) = {}
      OBVIOUS
    <2>2. 0 \in 0 .. n
      BY <1>7
    <2> HIDE DEF so
    <2>3. Verdict(used[0], so(0))
      BY <1>9, <2>1, NoVerdict
    <2> QED
      BY <2>2, <2>3
  <1>11. ASSUME NEW i \in 1 .. n, i - 1 \in G PROVE i \in G
    <2>1. i \in 0 .. n /\ \A j : j \in 1 .. i <=> j \in 1 .. i - 1 \/ j = i
      BY <1>7
    <2>2. so(i) = so(i - 1) \cup Level8(lines[i].item)
      BY <2>1
    <2>3. Verdict(used[i - 1], so(i - 1))
      BY <1>11
    <2> HIDE DEF so
    <2>4. Verdict(used[i], so(i))
      BY <1>9, <2>2, <2>3, UsageVerdict
    <2> QED
      BY <2>1, <2>4
  <1>12. Verdict(u, so(n))
    <2> HIDE DEF G
    <2>1. \A i \in 0 .. n : i \in G
      BY <1>7, <1>10, <1>11, RecursionKeeps
    <2>2. n \in 0 .. n
      BY <1>7
    <2> QED
      BY <1>8, <2>1, <2>2 DEF G
  <1>13. so(n) = all
    <2>1. {lines[j].item : j \in 1 .. n} = items
      BY <1>6, <1>7 DEF Range
    <2> QED
      BY <2>1
  <1> HIDE DEF so
  <1>14. Verdict(r, all)
    <2>1. Verdict(u, all)
      BY <1>12, <1>13
    <2>2. CASE u.Recommendations # <<>>
      BY <2>1, <2>2
    <2>3. CASE u.Recommendations = <<>>
      <3>1. Len(Text) > 0
        BY DEF Text
      <3>2. Adds(normal, u, {}, {<<"A008_SPACE_USAGE_NORMAL", Text>>}, {})
        BY <2>1, <3>1, ConclusionAdds DEF Verdict
      <3> HIDE DEF normal
      <3>3. Verdict(normal, all)
        BY <2>1, <3>2 DEF Verdict, Adds
      <3> QED
        BY <2>3, <3>3
    <2> QED
      BY <2>2, <2>3
  <1>15. all = If(\E item \in items : item.UsePercent >= 90, {"P1"})
               \cup If(\E item \in items : item.UsePercent \in 70 .. 89, {"P2"})
    <2>1. \A item \in items : Level8(item) = If(item.UsePercent >= 90, {"P1"}) \cup If(item.UsePercent \in 70 .. 89, {"P2"})
      BY <1>3 DEF Level8, Percent, If, NoPercent
    <2>2. "P1" \in all <=> \E item \in items : item.UsePercent >= 90
      BY <2>1 DEF If
    <2>3. "P2" \in all <=> \E item \in items : item.UsePercent \in 70 .. 89
      BY <2>1 DEF If
    <2>4. all \subseteq {"P1", "P2"}
      BY DEF Level8
    <2> HIDE DEF all
    <2> QED
      BY <2>2, <2>3, <2>4 DEF If
  <1> HIDE DEF r, judged, all
  <1> QED
    BY <1>5, <1>14, <1>15 DEF judged, items

-----------------------------------------------------------------------------
(* F008.                                                                   *)

\* What a loop keeps: a result that is explained.
IsHostLoop(acc) ==
  /\ acc = [result |-> acc.result, err |-> acc.err, over |-> acc.over]
  /\ Verdict(acc.result, Flagged(acc.result))

\* A verdict is about the flags of the result.
LEMMA VerdictFlagged ==
  ASSUME NEW r, NEW flags, Verdict(r, flags)
  PROVE  flags = Flagged(r)
  BY DEF Verdict

\* Too few workers add P1 to a verdict ...
LEMMA WorkersLowVerdict ==
  ASSUME NEW r, NEW flags, Verdict(r, flags), NEW count
  PROVE  Verdict(WorkersLow(r, count), flags \cup {"P1"})
  <1> DEFINE m == <<count>>  a == <<count \div 4, count \div 2>>
  <1>1. Len(m) > 0 /\ Len(a) > 0 /\ "P1" \in Priority
    BY DEF Priority
  <1>2. WorkersLow(r, count) = Reported(r, "P1", "F008_MAX_WORKERS_LOW", m, a)
    BY DEF WorkersLow, Reported
  <1> HIDE DEF m, a
  <1> QED
    BY <1>1, <1>2, MoreReported

\* ... and so do cost settings that are not tuned.
LEMMA CostNotTunedVerdict ==
  ASSUME NEW r, NEW flags, Verdict(r, flags), NEW major
  PROVE  Verdict(CostNotTuned(r, major), flags \cup {"P1"})
  <1> DEFINE m == <<major>>  q == Reported(r, "P1", "F008_DELAY_NOT_TUNED", Text, Text)
  <1>1. Len(m) > 0 /\ Len(Text) > 0 /\ "P1" \in Priority
    BY DEF Priority, Text
  <1>2. CostNotTuned(r, major) = AppendRecommendation(q, "F008_DELAY_TUNE", m)
    BY DEF CostNotTuned, Reported
  <1> HIDE DEF m
  <1>3. Verdict(q, flags \cup {"P1"})
    BY <1>1, MoreReported
  <1> HIDE DEF q
  <1>4. flags \cup {"P1"} # {}
    OBVIOUS
  <1> QED
    BY <1>1, <1>2, <1>3, <1>4, AdvisedVerdict

\* A host whose workers are too few for its CPUs.
FewWorkers(results, cpus, h) == results[h].max_workers = 3 /\ cpus[h] >= 16

\* One turn of the loop over the workers.
LEMMA WorkersTurnVerdict ==
  ASSUME NEW acc, IsHostLoop(acc), NEW h, NEW results, NEW cpus
  PROVE  /\ IsHostLoop(WorkersTurn(acc, h, results, cpus))
         /\ ~acc.over /\ h \in DOMAIN cpus /\ cpus[h] # NoNumber /\ results[h].max_workers # NoNumber =>
              /\ ~WorkersTurn(acc, h, results, cpus).over
              /\ WorkersTurn(acc, h, results, cpus).err = acc.err
              /\ Flagged(WorkersTurn(acc, h, results, cpus).result) =
                   Flagged(acc.result) \cup If(FewWorkers(results, cpus, h), {"P1"})
  <1> DEFINE q == WorkersTurn(acc, h, results, cpus)
             count == getCpuCount(cpus, h)
             low == WorkersLow(acc.result, count)
             few == count >= 16 /\ results[h].max_workers = 3
  <1>1. Verdict(low, Flagged(acc.result) \cup {"P1"})
    BY WorkersLowVerdict DEF IsHostLoop
  <1>2. Verdict(low, Flagged(low)) /\ Flagged(low) = Flagged(acc.result) \cup {"P1"}
    BY <1>1, VerdictFlagged
  <1>3. acc = [result |-> acc.result, err |-> acc.err, over |-> acc.over] /\ Verdict(acc.result, Flagged(acc.result))
    BY DEF IsHostLoop
  <1>4. q = IF acc.over THEN acc
            ELSE IF NoNumber \in {count, results[h].max_workers} THEN [acc EXCEPT !.err = TRUE, !.over = TRUE]
            ELSE IF few THEN [acc EXCEPT !.result = low] ELSE acc
    BY DEF WorkersTurn, Failed, CPU_COUNT, AUTOVACUUM_MAX_WORKERS_DEFAULT
  <1> HIDE DEF q, low, few
  <1>5. CASE acc.over
    BY <1>4, <1>5 DEF q
  <1>6. CASE ~acc.over /\ NoNumber \in {count, results[h].max_workers}
    <2>1. q = [result |-> acc.result, err |-> TRUE, over |-> TRUE]
      BY <1>3, <1>4, <1>6
    <2>2. IsHostLoop(q)
      BY <1>3, <2>1 DEF IsHostLoop
    <2> QED
      BY <1>6, <2>2 DEF q, getCpuCount
  <1>7. CASE ~acc.over /\ NoNumber \notin {count, results[h].max_workers} /\ few
    <2>1. q = [result |-> low, err |-> acc.err, over |-> acc.over]
      BY <1>3, <1>4, <1>7
    <2>2. IsHostLoop(q)
      BY <1>2, <2>1 DEF IsHostLoop
    <2>3. h \in DOMAIN cpus => FewWorkers(results, cpus, h)
      BY <1>7 DEF few, FewWorkers, getCpuCount
    <2> QED
      BY <1>2, <1>7, <2>1, <2>2, <2>3 DEF q, If
  <1>8. CASE ~acc.over /\ NoNumber \notin {count, results[h].max_workers} /\ ~few
    <2>1. q = acc
      BY <1>4, <1>8
    <2>2. h \in DOMAIN cpus => ~FewWorkers(results, cpus, h)
      BY <1>8 DEF few, FewWorkers, getCpuCount
    <2> QED
      BY <1>8, <2>1, <2>2 DEF q, If
  <1> QED
    BY <1>5, <1>6, <1>7, <1>8

\* A host whose autovacuum is throttled.
Slowed(results, vs, h) ==
  vs[h] < 120000 /\ results[h].cost_limit \in {-1, 200} /\ results[h].cost_delay = 20

\* Versions from 12 on are told by their numbers.
LEMMA MajorTwelve ==
  ASSUME NEW num \in Nat, num >= 90000
  PROVE  MajorVersion(num) >= 1200 <=> num >= 120000
  <1>1. CASE num \div 10000 = 9
    BY <1>1 DEF MajorVersion
  <1>2. CASE num \div 10000 # 9
    <2>1. num >= 100000
      BY <1>2
    <2>2. MajorVersion(num) = (num \div 10000) * 100
      BY <1>2, <2>1 DEF MajorVersion
    <2> QED
      BY <2>1, <2>2
  <1> QED
    BY <1>1, <1>2

\* What the check reads of the host is there.
CostRead(results, vs, h) ==
  /\ h \in DOMAIN vs /\ vs[h] \in Nat /\ vs[h] >= 90000
  /\ Numbers({results[h].cost_limit, results[h].cost_delay})

\* One turn of the loop over the cost settings.
LEMMA CostTurnVerdict ==
  ASSUME NEW acc, IsHostLoop(acc), NEW h, NEW results, NEW vs
  PROVE  /\ IsHostLoop(CostTurn(acc, h, results, vs))
         /\ CostRead(results, vs, h) =>
              /\ ~acc.over => Flagged(CostTurn(acc, h, results, vs).result) =
                                Flagged(acc.result) \cup If(Slowed(results, vs, h), {"P1"})
              /\ acc.over => CostTurn(acc, h, results, vs) = acc
              /\ ~acc.over => (CostTurn(acc, h, results, vs).over <=> vs[h] >= 120000)
  <1> DEFINE q == CostTurn(acc, h, results, vs)
             major == MajorVersion(vs[h])
             low == CostNotTuned(acc.result, major)
             pair == {results[h].cost_limit, results[h].cost_delay}
             bad == h \notin DOMAIN vs \/ Absent \in pair
             slow == Throttled(results[h])
  <1>1. Verdict(low, Flagged(acc.result) \cup {"P1"})
    BY CostNotTunedVerdict DEF IsHostLoop
  <1>2. Verdict(low, Flagged(low)) /\ Flagged(low) = Flagged(acc.result) \cup {"P1"}
    BY <1>1, VerdictFlagged
  <1>3. acc = [result |-> acc.result, err |-> acc.err, over |-> acc.over] /\ Verdict(acc.result, Flagged(acc.result))
    BY DEF IsHostLoop
  <1>4. q = IF acc.over THEN acc
            ELSE IF bad THEN [acc EXCEPT !.err = TRUE, !.over = TRUE]
            ELSE IF major >= 1200 THEN [acc EXCEPT !.over = TRUE]
            ELSE IF NoNumber \in pair THEN [acc EXCEPT !.err = TRUE, !.over = TRUE]
            ELSE IF slow THEN [acc EXCEPT !.result = low] ELSE acc
    BY DEF CostTurn, Failed
  <1>5. h \in DOMAIN vs /\ vs[h] \in Nat /\ vs[h] >= 90000 /\ Numbers(pair) =>
          /\ ~bad /\ NoNumber \notin pair /\ (major >= 1200 <=> vs[h] >= 120000)
          /\ Slowed(results, vs, h) <=> ~(major >= 1200) /\ slow
    <2> SUFFICES ASSUME h \in DOMAIN vs, vs[h] \in Nat, vs[h] >= 90000, Numbers(pair)
                 PROVE  /\ ~bad /\ NoNumber \notin pair /\ (major >= 1200 <=> vs[h] >= 120000)
                        /\ Slowed(results, vs, h) <=> ~(major >= 1200) /\ slow
      OBVIOUS
    <2>1. major >= 1200 <=> vs[h] >= 120000
      BY MajorTwelve
    <2>2. ~bad /\ NoNumber \notin pair
      BY DEF Numbers
    <2>3. slow <=> results[h].cost_limit \in {-1, 200} /\ results[h].cost_delay = 20
      BY DEF Throttled, AUTOVACUUM_COST_LIMIT_DEFAULTS, AUTOVACUUM_COST_DELAY_DEFAULT
    <2> HIDE DEF bad, slow, pair, major
    <2>4. Slowed(results, vs, h) <=> vs[h] < 120000 /\ slow
      BY <2>3 DEF Slowed
    <2> QED
      BY <2>1, <2>2, <2>4
  <1> DEFINE Whole == h \in DOMAIN vs /\ vs[h] \in Nat /\ vs[h] >= 90000 /\ Numbers(pair)
             new == IF Slowed(results, vs, h) THEN {"P1"} ELSE {}
             Goal(x) == /\ IsHostLoop(x)
                        /\ Whole => /\ ~acc.over => Flagged(x.result) = Flagged(acc.result) \cup new
                                    /\ acc.over => x = acc
                                    /\ ~acc.over => (x.over <=> vs[h] >= 120000)
  <1>6. Goal(q)
    <2> HIDE DEF q, low, slow, pair, bad, major
    <2>1. CASE acc.over
      BY <1>4, <2>1
    <2>2. CASE ~acc.over /\ bad
      <3>1. q = [result |-> acc.result, err |-> TRUE, over |-> TRUE]
        BY <1>3, <1>4, <2>2, ZenonT(60)
      <3>2. IsHostLoop(q) /\ ~Whole
        BY <1>3, <1>5, <2>2, <3>1 DEF IsHostLoop
      <3> QED
        BY <3>2
    <2>3. CASE ~acc.over /\ ~bad /\ major >= 1200
      <3>1. q = [result |-> acc.result, err |-> acc.err, over |-> TRUE]
        BY <1>3, <1>4, <2>3, ZenonT(60)
      <3>2. IsHostLoop(q)
        BY <1>3, <3>1 DEF IsHostLoop
      <3>3. Whole => ~Slowed(results, vs, h) /\ vs[h] >= 120000
        BY <1>5, <2>3
      <3> QED
        BY <2>3, <3>1, <3>2, <3>3
    <2>4. CASE ~acc.over /\ ~bad /\ ~(major >= 1200) /\ NoNumber \in pair
      <3>1. q = [result |-> acc.result, err |-> TRUE, over |-> TRUE]
        BY <1>3, <1>4, <2>4, ZenonT(60)
      <3>2. IsHostLoop(q) /\ ~Whole
        BY <1>3, <1>5, <2>4, <3>1 DEF IsHostLoop
      <3> QED
        BY <3>2
    <2>5. CASE ~acc.over /\ ~bad /\ ~(major >= 1200) /\ NoNumber \notin pair /\ slow
      <3>1. q = [result |-> low, err |-> acc.err, over |-> acc.over]
        BY <1>3, <1>4, <2>5
      <3>2. IsHostLoop(q)
        BY <1>2, <3>1 DEF IsHostLoop
      <3>3. Whole => Slowed(results, vs, h) /\ ~(vs[h] >= 120000)
        BY <1>5, <2>5
      <3> QED
        BY <1>2, <2>5, <3>1, <3>2, <3>3
    <2>6. CASE ~acc.over /\ ~bad /\ ~(major >= 1200) /\ NoNumber \notin pair /\ ~slow
      <3>1. q = acc
        BY <1>4, <2>6
      <3>2. Whole => ~Slowed(results, vs, h) /\ ~(vs[h] >= 120000)
        BY <1>5, <2>6
      <3> QED
        BY <2>6, <3>1, <3>2
    <2> QED
      BY <2>1, <2>2, <2>3, <2>4, <2>5, <2>6
  <1>7. CostRead(results, vs, h) <=> Whole
    BY DEF CostRead
  <1> HIDE DEF q, Whole
  <1> QED
    BY <1>6, <1>7 DEF q, If

\* What holds of the hosts an order has come to, it holds of all hosts in the end.
LEMMA AllVisited ==
  ASSUME NEW map, IsFiniteSet(DOMAIN map), NEW order \in Orders(map)
  PROVE  /\ Len(order) \in Nat
         /\ \A i \in 1 .. Len(order) : order[i] \in DOMAIN map
         /\ \A h \in DOMAIN map : \E i \in 1 .. Len(order) : order[i] = h
  <1>1. order \in Seq(DOMAIN map) /\ {order[i] : i \in 1 .. Len(order)} = DOMAIN map
    BY OrderProperties
  <1> QED
    BY <1>1, LenProperties, ElementOfSeq

\* The loops over the hosts start from a verdict.
LEMMA StartsHostLoop ==
  ASSUME NEW r, Verdict(r, Flagged(r))
  PROVE  IsHostLoop(HostLoop(r)) /\ HostLoop(r).result = r /\ ~HostLoop(r).over
  BY DEF IsHostLoop, HostLoop

WorkersWhole(results, cpus) ==
  \A h \in DOMAIN results : h \in DOMAIN cpus /\ cpus[h] # NoNumber /\ results[h].max_workers # NoNumber

FewFlag(results, cpus) == If(\E h \in DOMAIN results : FewWorkers(results, cpus, h), {"P1"})

\* The loop over the workers raises P1 if any host has too few, if it reads all of them.
LEMMA WorkersJudged ==
  ASSUME NEW results, IsFiniteSet(DOMAIN results), NEW order \in Orders(results), NEW cpus,
         NEW r, Verdict(r, Flagged(r)), NEW w, w = F008CheckMaxWorkers(results, order, cpus, r)
  PROVE  /\ IsHostLoop(w)
         /\ WorkersWhole(results, cpus) => Flagged(w.result) = Flagged(r) \cup FewFlag(results, cpus)
  <1> DEFINE n == Len(order)
             loop == [of |-> "workers", results |-> results, cpus |-> cpus]
             W == WorkersWhole(results, cpus)
             few(h) == If(FewWorkers(results, cpus, h), {"P1"})
  <1>1. /\ n \in Nat /\ \A i \in 1 .. n : order[i] \in DOMAIN results
        /\ \A h \in DOMAIN results : \E i \in 1 .. n : order[i] = h
    BY AllVisited
  <1>2. PICK F : Runs(loop, HostLoop(r), order, F) /\ w = F[n]
    BY <1>1, WorkersRuns
  <1>3. F[0] = HostLoop(r) /\ \A i \in 1 .. n : F[i] = WorkersTurn(F[i - 1], order[i], results, cpus)
    BY <1>2 DEF Runs, TurnOf
  <1> HIDE DEF n, loop, few
  <1> DEFINE so(i) == UNION {few(order[j]) : j \in 1 .. i}
             Good(i) == /\ IsHostLoop(F[i])
                        /\ W => ~F[i].over /\ Flagged(F[i].result) = Flagged(r) \cup so(i)
             G == {i \in 0 .. n : Good(i)}
  <1>4. 0 \in G
    <2>1. so(0) = {} /\ 0 \in 0 .. n
      BY <1>1
    <2> HIDE DEF so
    <2>2. Good(0)
      BY <1>3, <2>1, StartsHostLoop
    <2> QED
      BY <2>1, <2>2
  <1>5. ASSUME NEW i \in 1 .. n, i - 1 \in G PROVE i \in G
    <2> DEFINE a == F[i - 1]  h == order[i]  q == WorkersTurn(a, h, results, cpus)
    <2>1. i \in 0 .. n /\ \A j : j \in 1 .. i <=> j \in 1 .. i - 1 \/ j = i
      BY <1>1
    <2>2. so(i) = so(i - 1) \cup few(h)
      BY <2>1
    <2>3. Good(i - 1) /\ F[i] = q /\ h \in DOMAIN results
      BY <1>1, <1>3, <1>5
    <2> HIDE DEF so
    <2>4. IsHostLoop(a) /\ (W => ~a.over /\ Flagged(a.result) = Flagged(r) \cup so(i - 1))
      BY <2>3
    <2>5. W => h \in DOMAIN cpus /\ cpus[h] # NoNumber /\ results[h].max_workers # NoNumber
      BY <2>3 DEF WorkersWhole
    <2> HIDE DEF W, a, h
    <2>6. IsHostLoop(q) /\ (W => ~q.over /\ Flagged(q.result) = Flagged(a.result) \cup few(h))
      BY <2>4, <2>5, WorkersTurnVerdict DEF few
    <2> HIDE DEF q
    <2>7. Good(i)
      BY <2>2, <2>3, <2>4, <2>6
    <2> QED
      BY <2>1, <2>7
  <1>6. Good(n)
    <2> HIDE DEF G
    <2>1. \A i \in 0 .. n : i \in G
      BY <1>1, <1>4, <1>5, RecursionKeeps
    <2>2. n \in 0 .. n
      BY <1>1
    <2> QED
      BY <2>1, <2>2 DEF G
  <1>7. so(n) = FewFlag(results, cpus)
    <2>1. {order[j] : j \in 1 .. n} = DOMAIN results
      BY <1>1
    <2>2. so(n) = UNION {few(h) : h \in DOMAIN results}
      BY <2>1
    <2> QED
      BY <2>2 DEF few, If, FewFlag
  <1> HIDE DEF so
  <1> QED
    BY <1>2, <1>6, <1>7 DEF n

SlowFlag(results, vs) == If(\E h \in DOMAIN results : Slowed(results, vs, h), {"P1"})

CostWhole(results, vs) ==
  /\ \A h \in DOMAIN results : CostRead(results, vs, h)
  /\ \A g, h \in DOMAIN results : vs[g] < 120000 => vs[h] < 120000

\* If the loop over the cost settings stops at one host, it may stop at any.
LEMMA CostWholeProperties ==
  ASSUME NEW results, NEW vs, CostWhole(results, vs), NEW h \in DOMAIN results
  PROVE  /\ vs[h] >= 120000 => \A g \in DOMAIN results : vs[g] >= 120000
         /\ vs[h] >= 120000 => ~Slowed(results, vs, h)
  <1>1. \A g \in DOMAIN results : vs[g] \in Nat
    <2> TAKE g \in DOMAIN results
    <2>1. CostRead(results, vs, g)
      BY DEF CostWhole
    <2> QED
      BY <2>1 DEF CostRead
  <1>2. \A g \in DOMAIN results : vs[g] < 120000 => vs[h] < 120000
    BY DEF CostWhole
  <1>3. vs[h] >= 120000 => ~Slowed(results, vs, h)
    BY <1>1 DEF Slowed
  <1> QED
    BY <1>1, <1>2, <1>3

\* The loop over the cost settings raises P1 if any host is slowed down, if it reads all of
\* them.
LEMMA CostJudged ==
  ASSUME NEW results, IsFiniteSet(DOMAIN results), NEW order \in Orders(results), NEW vs,
         NEW r, Verdict(r, Flagged(r)), NEW w, w = F008CheckAutovacuumCost(results, order, vs, r)
  PROVE  /\ IsHostLoop(w)
         /\ CostWhole(results, vs) => Flagged(w.result) = Flagged(r) \cup SlowFlag(results, vs)
  <1> DEFINE n == Len(order)
             loop == [of |-> "cost", results |-> results, versions |-> vs]
             W == CostWhole(results, vs)
             slow(h) == If(Slowed(results, vs, h), {"P1"})
  <1>1. /\ n \in Nat /\ \A i \in 1 .. n : order[i] \in DOMAIN results
        /\ \A h \in DOMAIN results : \E i \in 1 .. n : order[i] = h
    BY AllVisited
  <1>2. PICK F : Runs(loop, HostLoop(r), order, F) /\ w = F[n]
    BY <1>1, CostRuns
  <1>3. F[0] = HostLoop(r) /\ \A i \in 1 .. n : F[i] = CostTurn(F[i - 1], order[i], results, vs)
    BY <1>2 DEF Runs, TurnOf
  <1> HIDE DEF n, loop
  <1> DEFINE so(i) == UNION {slow(order[j]) : j \in 1 .. i}
             late == \A h \in DOMAIN results : vs[h] >= 120000
             Good(i) == /\ IsHostLoop(F[i])
                        /\ W => (F[i].over => late) /\ Flagged(F[i].result) = Flagged(r) \cup so(i)
             G == {i \in 0 .. n : Good(i)}
  <1>4. 0 \in G
    <2>1. so(0) = {} /\ 0 \in 0 .. n
      BY <1>1
    <2> HIDE DEF so, late
    <2>2. Good(0)
      BY <1>3, <2>1, StartsHostLoop
    <2> QED
      BY <2>1, <2>2
  <1>5. ASSUME NEW i \in 1 .. n, i - 1 \in G PROVE i \in G
    <2> DEFINE a == F[i - 1]  h == order[i]  q == CostTurn(a, h, results, vs)
    <2>1. i \in 0 .. n /\ \A j : j \in 1 .. i <=> j \in 1 .. i - 1 \/ j = i
      BY <1>1
    <2>2. so(i) = so(i - 1) \cup slow(h)
      BY <2>1
    <2>0. h \in DOMAIN results
      BY <1>1
    <2>3. Good(i - 1) /\ F[i] = q /\ h \in DOMAIN results
      BY <1>1, <1>3, <1>5
    <2> HIDE DEF so, h
    <2>4. IsHostLoop(a) /\ (W => (a.over => late) /\ Flagged(a.result) = Flagged(r) \cup so(i - 1))
      BY <2>3
    <2>5. W => CostRead(results, vs, h)
      BY <2>0 DEF CostWhole
    <2>6. W => (vs[h] >= 120000 => late)
      BY <2>0, CostWholeProperties
    <2>7. W => (late => slow(h) = {})
      BY <2>0, CostWholeProperties DEF If
    <2> HIDE DEF W, a, h, late, slow
    <2>8. IsHostLoop(q)
      BY <2>4, CostTurnVerdict
    <2>9. CASE ~W
      BY <2>1, <2>3, <2>8, <2>9
    <2>10. CASE W /\ a.over
      <3>1. q = a
        BY <2>4, <2>5, <2>10, CostTurnVerdict
      <3>2. Good(i)
        BY <2>2, <2>3, <2>4, <2>7, <2>10, <3>1
      <3> QED
        BY <2>1, <3>2
    <2>11. CASE W /\ ~a.over
      <3>1. Flagged(q.result) = Flagged(a.result) \cup slow(h) /\ (q.over <=> vs[h] >= 120000)
        BY <2>4, <2>5, <2>11, CostTurnVerdict DEF slow
      <3> HIDE DEF q
      <3>2. Good(i)
        BY <2>2, <2>3, <2>4, <2>6, <2>8, <2>11, <3>1
      <3> QED
        BY <2>1, <3>2
    <2> QED
      BY <2>9, <2>10, <2>11
  <1>6. Good(n)
    <2> HIDE DEF G
    <2>1. \A i \in 0 .. n : i \in G
      BY <1>1, <1>4, <1>5, RecursionKeeps
    <2>2. n \in 0 .. n
      BY <1>1
    <2> QED
      BY <2>1, <2>2 DEF G
  <1>7. so(n) = SlowFlag(results, vs)
    <2>1. {order[j] : j \in 1 .. n} = DOMAIN results
      BY <1>1
    <2>2. so(n) = UNION {slow(h) : h \in DOMAIN results}
      BY <2>1
    <2> QED
      BY <2>2 DEF If, SlowFlag
  <1> HIDE DEF so
  <1> QED
    BY <1>2, <1>6, <1>7 DEF n

\* F008 gives a verdict, and if it reads every host, that which the hosts deserve.
LEMMA F008Judged ==
  ASSUME NEW results, IsFiniteSet(DOMAIN results), NEW orders \in [1 .. 2 -> Orders(results)],
         NEW cpus, NEW vs, NEW r, r = F008Process(results, orders, cpus, vs).result
  PROVE  /\ Verdict(r, Flagged(r))
         /\ WorkersWhole(results, cpus) /\ CostWhole(results, vs) =>
              Flagged(r) = If(\E h \in DOMAIN results : FewWorkers(results, cpus, h) \/ Slowed(results, vs, h), {"P1"})
  <1> DEFINE w == F008CheckMaxWorkers(results, orders[1], cpus, NoResult)
             c == F008CheckAutovacuumCost(results, orders[2], vs, w.result)
  <1>1. orders[1] \in Orders(results) /\ orders[2] \in Orders(results)
    OBVIOUS
  <1>2. r = c.result
    BY DEF F008Process, Outcome
  <1>3. Verdict(NoResult, Flagged(NoResult)) /\ Flagged(NoResult) = {}
    BY NoVerdict DEF Verdict
  <1> HIDE DEF w, c
  <1>4. /\ IsHostLoop(w)
        /\ WorkersWhole(results, cpus) => Flagged(w.result) = Flagged(NoResult) \cup FewFlag(results, cpus)
    BY <1>1, <1>3, WorkersJudged DEF w
  <1>5. /\ IsHostLoop(c)
        /\ CostWhole(results, vs) => Flagged(c.result) = Flagged(w.result) \cup SlowFlag(results, vs)
    BY <1>1, <1>4, CostJudged DEF c, IsHostLoop
  <1>6. Verdict(r, Flagged(r))
    BY <1>2, <1>5 DEF IsHostLoop
  <1>7. ASSUME WorkersWhole(results, cpus), CostWhole(results, vs)
        PROVE  Flagged(r) = If(\E h \in DOMAIN results : FewWorkers(results, cpus, h) \/ Slowed(results, vs, h), {"P1"})
    <2>1. Flagged(r) = FewFlag(results, cpus) \cup SlowFlag(results, vs)
      BY <1>2, <1>3, <1>4, <1>5, <1>7
    <2> QED
      BY <2>1 DEF If, FewFlag, SlowFlag
  <1> QED
    BY <1>6, <1>7

-----------------------------------------------------------------------------
(* A002.  The result is explained, and the minor versions are not named yet. *)
Named == "A002_NOT_LAST_MINOR_VERSION"

Shown(r, flags) ==
  /\ Typed(r) /\ Flagged(r) = flags
  /\ Conc(r) # {}
  /\ "P1" \in flags => Recs(r) # {}
  /\ Recs(r) # {} => flags # {}
  /\ \A s \in Conc(r) : s[1] # Named

\* What keeps the first part of the result of A002 as it should be.
LEMMA ShownAdds ==
  ASSUME NEW r, NEW flags, Shown(r, flags), NEW q, NEW ps, NEW cs, NEW rs, Adds(q, r, ps, cs, rs),
         \A s \in cs : s[1] # Named, "P1" \in ps => rs # {}, rs # {} => ps # {}
  PROVE  Shown(q, flags \cup ps)
  <1>1. Typed(q) /\ Flagged(q) = flags \cup ps /\ Conc(q) = Conc(r) \cup cs /\ Recs(q) = Recs(r) \cup rs
    BY DEF Adds, Shown
  <1> QED
    BY <1>1 DEF Shown

\* A conclusion, advice, and then the flag.
Advised(r, p, id, message, advice) ==
  Raise(AppendRecommendation(AppendConclusion(r, id, message), id, advice), p)

\* A conclusion and advice before the flag is raised: the order makes no difference.
LEMMA AdvisedAdds ==
  ASSUME NEW r, Typed(r), NEW p \in Priority, NEW id, NEW message, Len(message) > 0,
         NEW advice, Len(advice) > 0
  PROVE  Adds(Advised(r, p, id, message, advice), r, {p}, {<<id, message>>}, {<<id, advice>>})
  <1> DEFINE r1 == AppendConclusion(r, id, message)
             r2 == AppendRecommendation(r1, id, advice)
             r3 == Raise(r2, p)
  <1>1. Adds(r1, r, {}, {<<id, message>>}, {})
    BY ConclusionAdds
  <1> HIDE DEF r1
  <1>2. Adds(r2, r1, {}, {}, {<<id, advice>>})
    BY <1>1, RecommendationAdds DEF Adds
  <1> HIDE DEF r2
  <1>3. Adds(r3, r2, {p}, {}, {})
    BY <1>2, RaiseAdds DEF Adds
  <1>4. r3 = Advised(r, p, id, message, advice)
    BY DEF Advised, r2, r1
  <1> HIDE DEF r3
  <1>5. Adds(r3, r, {p}, {<<id, message>>}, {<<id, advice>>})
    BY <1>1, <1>2, <1>3 DEF Adds
  <1> QED
    BY <1>4, <1>5

\* Such a report keeps it ...
LEMMA ShownAdvised ==
  ASSUME NEW r, NEW flags, Shown(r, flags), NEW p \in Priority, NEW id, id # Named,
         NEW message, Len(message) > 0, NEW advice, Len(advice) > 0
  PROVE  Shown(Advised(r, p, id, message, advice), flags \cup {p})
  <1> DEFINE q == Advised(r, p, id, message, advice)  cs == {<<id, message>>}  rs == {<<id, advice>>}
  <1>1. Adds(q, r, {p}, cs, rs)
    BY AdvisedAdds DEF Shown
  <1>2. (\A s \in cs : s[1] # Named) /\ rs # {}
    OBVIOUS
  <1>3. {p} # {}
    OBVIOUS
  <1> HIDE DEF q, cs, rs
  <1> QED
    BY <1>1, <1>2, <1>3, ShownAdds DEF q

\* ... and so does a conclusion.
LEMMA ShownConclusion ==
  ASSUME NEW r, NEW flags, Shown(r, flags), NEW id, id # Named, NEW message, Len(message) > 0
  PROVE  Shown(AppendConclusion(r, id, message), flags)
  <1> DEFINE q == AppendConclusion(r, id, message)  cs == {<<id, message>>}
  <1>1. Adds(q, r, {}, cs, {})
    BY ConclusionAdds DEF Shown
  <1>2. \A s \in cs : s[1] # Named
    OBVIOUS
  <1> HIDE DEF q, cs
  <1>3. Shown(q, flags \cup {})
    BY <1>1, <1>2, ShownAdds
  <1> QED
    BY <1>3 DEF q

-----------------------------------------------------------------------------
VersionsDiffer(results) ==
  \E g, h \in DOMAIN results :
    Version(results[g].ServerVersionNum) # Version(results[h].ServerVersionNum)

\* A002CheckAllVersionsIsSame raises P2 if two hosts differ.
LEMMA AllVersionsShown ==
  ASSUME NEW results, IsFiniteSet(DOMAIN results), DOMAIN results # {}, NEW order \in Orders(results)
  PROVE  Shown(A002CheckAllVersionsIsSame(results, order, NoResult),
               IF VersionsDiffer(results) THEN {"P2"} ELSE {})
  <1> DEFINE n == Len(order)
             vers == [i \in DOMAIN order |-> Version(results[order[i]].ServerVersionNum)]
             m == <<order, GetUniques(vers)>>
             v == <<vers[1]>>
             many == "A002_NOT_ALL_VERSIONS_SAME"
             one == "A002_ALL_VERSIONS_SAME"
             diff == \E i \in DOMAIN vers : vers[i] # vers[1]
             r == A002CheckAllVersionsIsSame(results, order, NoResult)
  <1>1. /\ n \in Nat /\ \A i \in 1 .. n : order[i] \in DOMAIN results
        /\ \A h \in DOMAIN results : \E i \in 1 .. n : order[i] = h
    BY AllVisited
  <1>2. DOMAIN order = 1 .. n /\ n > 0 /\ order # <<>>
    <2>1. order \in Seq(DOMAIN results)
      BY Visited
    <2>2. n # 0
      BY <1>1
    <2> QED
      BY <1>1, <2>1, <2>2, LenProperties, EmptySeq
  <1>3. diff <=> VersionsDiffer(results)
    <2>1. \A i \in 1 .. n : vers[i] = Version(results[order[i]].ServerVersionNum)
      BY <1>2
    <2>2. DOMAIN vers = 1 .. n /\ 1 \in 1 .. n
      BY <1>2
    <2> HIDE DEF vers, n
    <2>3. ASSUME diff PROVE VersionsDiffer(results)
      BY <1>1, <2>1, <2>2, <2>3, SMTT(30) DEF VersionsDiffer
    <2>4. ASSUME VersionsDiffer(results) PROVE diff
      <3>1. PICK g, h \in DOMAIN results :
              Version(results[g].ServerVersionNum) # Version(results[h].ServerVersionNum)
        BY <2>4 DEF VersionsDiffer
      <3>2. PICK i, j \in 1 .. n : order[i] = g /\ order[j] = h
        BY <1>1
      <3>3. vers[i] # vers[j]
        BY <2>1, <3>1, <3>2
      <3> QED
        BY <2>2, <3>3
    <2> QED
      BY <2>3, <2>4
  <1>4. Len(m) > 0 /\ Len(v) > 0 /\ Len(Text) > 0 /\ many # Named /\ one # Named /\ "P2" \in Priority
    BY DEF Text, Priority, Named
  <1>5. r = IF diff THEN Advised(NoResult, "P2", many, m, Text) ELSE AppendConclusion(NoResult, one, v)
    BY <1>2 DEF A002CheckAllVersionsIsSame, Advised
  <1> HIDE DEF m, v, diff, r
  <1>6. CASE diff
    <2> DEFINE cs == {<<many, m>>}  rs == {<<many, Text>>}
    <2>1. Adds(r, NoResult, {"P2"}, cs, rs)
      BY <1>4, <1>5, <1>6, AdvisedAdds, NoResultTyped
    <2>2. cs # {} /\ rs # {} /\ \A s \in cs : s[1] # Named
      BY <1>4
    <2> HIDE DEF cs, rs
    <2>3. Shown(r, {"P2"})
      BY <2>1, <2>2, NoResultTyped DEF Adds, Shown
    <2> QED
      BY <1>3, <1>6, <2>3 DEF r
  <1>7. CASE ~diff
    <2> DEFINE cs == {<<one, v>>}
    <2>1. Adds(r, NoResult, {}, cs, {})
      BY <1>4, <1>5, <1>7, ConclusionAdds, NoResultTyped
    <2>2. cs # {} /\ \A s \in cs : s[1] # Named
      BY <1>4
    <2> HIDE DEF cs
    <2>3. Shown(r, {})
      BY <2>1, <2>2, NoResultTyped DEF Adds, Shown
    <2> QED
      BY <1>3, <1>7, <2>3 DEF r
  <1> QED
    BY <1>6, <1>7

-----------------------------------------------------------------------------
(* The major versions.                                                     *)
LEMMA SupportEndedShown ==
  ASSUME NEW r, NEW flags, Shown(r, flags), NEW major, NEW release
  PROVE  Shown(SupportEnded(r, major, release), flags \cup {"P1"})
  <1> DEFINE id == "A002_NOT_SUPPORTED_VERSION"  m == <<major, release.FinalRelease>>  a == <<major>>
  <1>1. Len(m) > 0 /\ Len(a) > 0 /\ id # Named /\ "P1" \in Priority
    BY DEF Priority, Named
  <1>2. SupportEnded(r, major, release) = Advised(r, "P1", id, m, a)
    BY DEF SupportEnded, Advised
  <1> HIDE DEF m, a, id
  <1> QED
    BY <1>1, <1>2, ShownAdvised

\* UnknownVersion raises P1.
LEMMA UnknownVersionShown ==
  ASSUME NEW r, NEW flags, Shown(r, flags), NEW host
  PROVE  Shown(UnknownVersion(r, host), flags \cup {"P1"})
  <1> DEFINE id == "A002_UNKNOWN_VERSION"  m == <<host>>
  <1>1. Len(m) > 0 /\ id # Named /\ "P1" \in Priority
    BY DEF Priority, Named
  <1>2. UnknownVersion(r, host) = Advised(r, "P1", id, m, m)
    BY DEF UnknownVersion, Advised
  <1> HIDE DEF m, id
  <1> QED
    BY <1>1, <1>2, ShownAdvised

SupportFlags(release, today) ==
  IF release.FinalRelease <= today THEN {"P1"}
  ELSE IF release.FinalRelease <= today + 10000 THEN {"P2"} ELSE {}

\* Support raises P1 when it has ended, P2 in its last year.
LEMMA SupportShown ==
  ASSUME NEW r, NEW flags, Shown(r, flags), NEW major, NEW release, NEW today \in Nat,
         release.FinalRelease \in Nat, release.FirstRelease \in Nat
  PROVE  Shown(Support(r, major, release, today), flags \cup SupportFlags(release, today))
  <1> DEFINE final == release.FinalRelease
             m == <<major, final>>
             last == "A002_LAST_YEAR_SUPPORTED_VERSION"
             good == "A002_SUPPORTED_VERSION"
             said == AppendConclusion(r, last, m)
             q == Support(r, major, release, today)
  <1>1. Len(m) > 0 /\ last # Named /\ good # Named /\ "P2" \in Priority
    BY DEF Priority, Named
  <1>2. CASE final <= today
    <2>1. q = SupportEnded(r, major, release)
      BY <1>2 DEF Support
    <2>2. SupportFlags(release, today) = {"P1"}
      BY <1>2 DEF SupportFlags
    <2> QED
      BY <2>1, <2>2, SupportEndedShown
  <1>3. CASE ~(final <= today) /\ final - 10000 <= today
    <2>1. q = Raise(said, "P2")
      BY <1>3 DEF Support
    <2>2. SupportFlags(release, today) = {"P2"}
      BY <1>3 DEF SupportFlags
    <2> HIDE DEF m
    <2>3. Shown(said, flags)
      BY <1>1, ShownConclusion
    <2> HIDE DEF said
    <2>4. Adds(Raise(said, "P2"), said, {"P2"}, {}, {})
      BY <1>1, <2>3, RaiseAdds DEF Shown
    <2>5. Shown(Raise(said, "P2"), flags \cup {"P2"})
      BY <2>3, <2>4, ShownAdds
    <2> QED
      BY <2>1, <2>2, <2>5
  <1>4. CASE ~(final <= today) /\ ~(final - 10000 <= today)
    <2>1. q = IF release.FirstRelease <= today /\ today < release.FinalRelease - 10000
              THEN AppendConclusion(r, good, m) ELSE r
      BY <1>4 DEF Support
    <2>2. SupportFlags(release, today) = {}
      BY <1>4 DEF SupportFlags
    <2> HIDE DEF m, q
    <2>3. Shown(AppendConclusion(r, good, m), flags)
      BY <1>1, ShownConclusion
    <2>4. Shown(q, flags)
      BY <2>1, <2>3
    <2> QED
      BY <2>2, <2>4 DEF q
  <1> QED
    BY <1>2, <1>3, <1>4

\* NewerMajor raises P3 if there is a newer branch.
LEMMA NewerMajorShown ==
  ASSUME NEW r, NEW flags, Shown(r, flags), NEW major, NEW latest
  PROVE  Shown(NewerMajor(r, major, latest), flags \cup If(~(major >= latest), {"P3"}))
  <1> DEFINE m == <<latest>>
             id == "A002_NOT_LAST_MAJOR_VERSION"
             r1 == AppendRecommendation(r, id, m)
             r2 == AppendRecommendation(r1, "A002_GENERAL_FULL", Text)
             r3 == Raise(r2, "P3")
             rs == {<<id, m>>} \cup {<<"A002_GENERAL_FULL", Text>>}
  <1>1. CASE major >= latest
    BY <1>1 DEF NewerMajor, If
  <1>2. CASE ~(major >= latest)
    <2>1. Len(m) > 0 /\ Len(Text) > 0 /\ "P3" \in Priority
      BY DEF Priority, Text
    <2>2. NewerMajor(r, major, latest) = r3
      BY <1>2 DEF NewerMajor
    <2> HIDE DEF m
    <2>3. Adds(r1, r, {}, {}, {<<id, m>>})
      BY <2>1, RecommendationAdds DEF Shown
    <2> HIDE DEF r1
    <2>4. Adds(r2, r1, {}, {}, {<<"A002_GENERAL_FULL", Text>>})
      BY <2>1, <2>3, RecommendationAdds DEF Adds
    <2> HIDE DEF r2
    <2>5. Adds(r3, r2, {"P3"}, {}, {})
      BY <2>1, <2>4, RaiseAdds DEF Adds
    <2> HIDE DEF r3
    <2>6. Adds(r3, r, {"P3"}, {}, rs)
      BY <2>3, <2>4, <2>5 DEF Adds
    <2> HIDE DEF rs
    <2>7. Shown(r3, flags \cup {"P3"})
      BY <2>6, ShownAdds
    <2> QED
      BY <1>2, <2>2, <2>7 DEF If
  <1> QED
    BY <1>1, <1>2

\* The branches are finitely many numbers, with a newest.
LEMMA BranchesProperties ==
  /\ Branches \in SUBSET Nat /\ IsFiniteSet(Branches) /\ Branches # {}
  /\ Max(Branches) \in Branches
  /\ \A v \in Branches : Max(Branches) >= v
  <1>1. \A v \in Branches : v \in Nat /\ v <= 1400
    BY DEF Branches
  <1>2. 1400 \in Branches
    BY DEF Branches
  <1> DEFINE a == 0  b == 1400  I == a .. b
  <1>3. a \in Int /\ b \in Int
    OBVIOUS
  <1>4. \A v \in Branches : v \in I
    BY <1>1
  <1> HIDE DEF a, b
  <1>5. IsFiniteSet(I)
    BY <1>3, FS_Interval
  <1> HIDE DEF I
  <1>6. IsFiniteSet(Branches)
    BY <1>4, <1>5, FS_Subset
  <1>7. Branches \in SUBSET Nat /\ Branches \in SUBSET Int /\ Branches # {}
    BY <1>1, <1>2
  <1> QED
    BY <1>6, <1>7, MaxProperties

\* What the releases of Postgres are.
LEMMA ConfigProperties ==
  ASSUME NEW vs \in Config
  PROVE  /\ DOMAIN vs = Branches
         /\ \A v \in Branches : /\ vs[v].FirstRelease \in Nat /\ vs[v].FinalRelease \in Nat
                                /\ vs[v].MinorVersions \in SUBSET Nat /\ IsFiniteSet(vs[v].MinorVersions)
  BY DEF Config

\* The parts of a version are natural numbers.
LEMMA VersionProperties ==
  ASSUME NEW num \in Nat
  PROVE  MajorVersion(num) \in Nat /\ MinorVersion(num) \in Nat
  BY DEF MajorVersion, MinorVersion

\* The priorities a major version deserves.
MajorFlags(major, vs, today) ==
  IF major \notin DOMAIN vs THEN {"P1"}
  ELSE SupportFlags(vs[major], today) \cup If(~(major >= getLatestMajorVersionNum(vs)), {"P3"})

IsMajorLoop(acc, flags, vs, today) ==
  /\ acc = [result |-> acc.result, processed |-> acc.processed]
  /\ Shown(acc.result, flags)
  /\ \A m \in acc.processed : MajorFlags(m, vs, today) \subseteq flags

\* One turn of the loop over the major versions.
LEMMA MajorTurnShown ==
  ASSUME NEW vs \in Config, NEW today \in Nat, NEW acc, NEW flags, IsMajorLoop(acc, flags, vs, today),
         NEW results, NEW h, NEW m, m = MajorVersion(results[h].ServerVersionNum)
  PROVE  IsMajorLoop(MajorTurn(acc, h, results, vs, today), flags \cup MajorFlags(m, vs, today), vs, today)
  <1> DEFINE q == MajorTurn(acc, h, results, vs, today)
             unknown == UnknownVersion(acc.result, h)
             judged == Support(acc.result, m, vs[m], today)
             newer == NewerMajor(judged, m, getLatestMajorVersionNum(vs))
             mf == MajorFlags(m, vs, today)
             fs == SupportFlags(vs[m], today)
             fn == If(~(m >= getLatestMajorVersionNum(vs)), {"P3"})
  <1>1. q = IF m \in acc.processed THEN acc
            ELSE IF m \notin DOMAIN vs THEN [acc EXCEPT !.result = unknown]
            ELSE [result |-> newer, processed |-> acc.processed \cup {m}]
    BY DEF MajorTurn
  <1>2. /\ acc = [result |-> acc.result, processed |-> acc.processed]
        /\ Shown(acc.result, flags)
        /\ \A k \in acc.processed : MajorFlags(k, vs, today) \subseteq flags
    BY DEF IsMajorLoop
  <1>3. m \notin DOMAIN vs => mf = {"P1"}
    BY DEF MajorFlags
  <1>4. m \in DOMAIN vs => mf = fs \cup fn
    BY DEF MajorFlags
  <1> HIDE DEF q, mf
  <1>5. CASE m \in acc.processed
    <2>1. q = acc /\ flags \cup mf = flags
      BY <1>1, <1>2, <1>5 DEF mf
    <2> QED
      BY <2>1 DEF q, mf
  <1>6. CASE m \notin acc.processed /\ m \notin DOMAIN vs
    <2>1. Shown(unknown, flags \cup {"P1"})
      BY <1>2, UnknownVersionShown
    <2> HIDE DEF unknown
    <2>2. q = [result |-> unknown, processed |-> acc.processed]
      BY <1>1, <1>2, <1>6
    <2>3. IsMajorLoop(q, flags \cup mf, vs, today)
      BY <1>2, <1>3, <1>6, <2>1, <2>2 DEF IsMajorLoop
    <2> QED
      BY <2>3 DEF q, mf
  <1>7. CASE m \notin acc.processed /\ m \in DOMAIN vs
    <2>1. vs[m].FinalRelease \in Nat /\ vs[m].FirstRelease \in Nat
      BY <1>7, ConfigProperties
    <2>2. Shown(judged, flags \cup fs)
      BY <1>2, <2>1, SupportShown
    <2> HIDE DEF judged, fs
    <2>3. Shown(newer, (flags \cup fs) \cup fn)
      BY <2>2, NewerMajorShown
    <2> HIDE DEF newer, fn
    <2>4. (flags \cup fs) \cup fn = flags \cup mf
      BY <1>4, <1>7
    <2>5. q = [result |-> newer, processed |-> acc.processed \cup {m}]
      BY <1>1, <1>7
    <2>6. \A k \in acc.processed \cup {m} : MajorFlags(k, vs, today) \subseteq flags \cup mf
      BY <1>2 DEF mf
    <2>7. IsMajorLoop(q, flags \cup mf, vs, today)
      BY <2>3, <2>4, <2>5, <2>6 DEF IsMajorLoop
    <2> QED
      BY <2>7 DEF q, mf
  <1> QED
    BY <1>5, <1>6, <1>7

AllMajorFlags(results, vs, today) ==
  UNION {MajorFlags(MajorVersion(results[h].ServerVersionNum), vs, today) : h \in DOMAIN results}

\* A002CheckMajorVersions raises what the branch of any host deserves, although it judges
\* each once.
LEMMA MajorShown ==
  ASSUME NEW results, IsFiniteSet(DOMAIN results), NEW order \in Orders(results),
         NEW vs \in Config, NEW today \in Nat, NEW r, NEW flags, Shown(r, flags)
  PROVE  Shown(A002CheckMajorVersions(results, order, vs, today, r), flags \cup AllMajorFlags(results, vs, today))
  <1> DEFINE n == Len(order)
             loop == [of |-> "major", results |-> results, versions |-> vs, today |-> today]
             start == [result |-> r, processed |-> {}]
             major(h) == MajorVersion(results[h].ServerVersionNum)
             mf(h) == MajorFlags(major(h), vs, today)
             q == A002CheckMajorVersions(results, order, vs, today, r)
  <1>1. /\ n \in Nat /\ \A i \in 1 .. n : order[i] \in DOMAIN results
        /\ \A h \in DOMAIN results : \E i \in 1 .. n : order[i] = h
    BY AllVisited
  <1>2. PICK F : Runs(loop, start, order, F) /\ q = F[n].result
    BY <1>1, MajorRuns
  <1>3. F[0] = start /\ \A i \in 1 .. n : F[i] = MajorTurn(F[i - 1], order[i], results, vs, today)
    BY <1>2 DEF Runs, TurnOf
  <1> HIDE DEF n, loop, q
  <1> DEFINE so(i) == UNION {mf(order[j]) : j \in 1 .. i}
             Good(i) == IsMajorLoop(F[i], flags \cup so(i), vs, today)
             G == {i \in 0 .. n : Good(i)}
  <1>4. 0 \in G
    <2>1. so(0) = {} /\ 0 \in 0 .. n
      BY <1>1
    <2>2. flags \cup so(0) = flags
      BY <2>1
    <2>3. IsMajorLoop(start, flags, vs, today)
      BY DEF IsMajorLoop
    <2>4. F[0] = start
      BY <1>3
    <2> HIDE DEF so, mf, start
    <2>5. Good(0)
      BY <2>2, <2>3, <2>4
    <2> QED
      BY <2>1, <2>5
  <1>5. ASSUME NEW i \in 1 .. n, i - 1 \in G PROVE i \in G
    <2> DEFINE a == F[i - 1]  h == order[i]  k == major(h)
    <2>1. i \in 0 .. n /\ \A j : j \in 1 .. i <=> j \in 1 .. i - 1 \/ j = i
      BY <1>1
    <2>2. so(i) = so(i - 1) \cup mf(h)
      BY <2>1
    <2>3. IsMajorLoop(a, flags \cup so(i - 1), vs, today) /\ F[i] = MajorTurn(a, h, results, vs, today)
      BY <1>3, <1>5
    <2>4. mf(h) = MajorFlags(k, vs, today)
      OBVIOUS
    <2>5. k = MajorVersion(results[h].ServerVersionNum)
      OBVIOUS
    <2> HIDE DEF so, a, h, k, mf
    <2>6. IsMajorLoop(F[i], (flags \cup so(i - 1)) \cup mf(h), vs, today)
      BY <2>3, <2>4, <2>5, MajorTurnShown
    <2>7. (flags \cup so(i - 1)) \cup mf(h) = flags \cup so(i)
      BY <2>2
    <2>8. Good(i)
      BY <2>6, <2>7
    <2> QED
      BY <2>1, <2>8
  <1>6. Good(n)
    <2> HIDE DEF G
    <2>1. \A i \in 0 .. n : i \in G
      BY <1>1, <1>4, <1>5, RecursionKeeps
    <2>2. n \in 0 .. n
      BY <1>1
    <2> QED
      BY <2>1, <2>2 DEF G
  <1>7. so(n) = AllMajorFlags(results, vs, today)
    <2>1. {order[j] : j \in 1 .. n} = DOMAIN results
      BY <1>1
    <2>2. so(n) = UNION {mf(h) : h \in DOMAIN results}
      BY <2>1
    <2> QED
      BY <2>2 DEF AllMajorFlags
  <1> HIDE DEF so
  <1> QED
    BY <1>2, <1>6, <1>7 DEF IsMajorLoop, q

-----------------------------------------------------------------------------
(* The minor versions.                                                     *)
Num(results, h) == results[h].ServerVersionNum
IsKnown(results, vs, h) == MajorVersion(Num(results, h)) \in DOMAIN vs
IsBehind(results, vs, h) ==
  /\ IsKnown(results, vs, h)
  /\ \E v \in vs[MajorVersion(Num(results, h))].MinorVersions : v > MinorVersion(Num(results, h))
IsMasked(results, vs, h) ==
  \E g \in DOMAIN results : /\ IsKnown(results, vs, g) /\ ~IsBehind(results, vs, g)
                            /\ MinorVersion(Num(results, g)) = MinorVersion(Num(results, h))
IsEmpty(results, vs, h) ==
  IsKnown(results, vs, h) /\ vs[MajorVersion(Num(results, h))].MinorVersions = {}

\* A host is behind if its minor version is less than the newest of its branch.
LEMMA LastMinorProperties ==
  ASSUME NEW vs \in Config, NEW results, NEW h, IsKnown(results, vs, h), Num(results, h) \in Nat
  PROVE  LET last == LastMinor(vs[MajorVersion(Num(results, h))])
         IN /\ last = NoIndex <=> IsEmpty(results, vs, h)
            /\ last # NoIndex => (IsBehind(results, vs, h) <=> ~(MinorVersion(Num(results, h)) >= last))
  <1> DEFINE release == vs[MajorVersion(Num(results, h))]
             minors == release.MinorVersions
             minor == MinorVersion(Num(results, h))
             last == LastMinor(release)
  <1>1. minors \in SUBSET Nat /\ IsFiniteSet(minors)
    BY ConfigProperties DEF IsKnown
  <1>2. minor \in Nat
    BY VersionProperties
  <1>3. IsBehind(results, vs, h) <=> \E v \in minors : v > minor
    BY DEF IsBehind
  <1>4. IsEmpty(results, vs, h) <=> minors = {}
    BY DEF IsEmpty
  <1>5. last = IF minors = {} THEN NoIndex ELSE Max(minors)
    BY DEF LastMinor
  <1> HIDE DEF minors, minor, last
  <1>6. CASE minors = {}
    BY <1>3, <1>4, <1>5, <1>6 DEF last
  <1>7. CASE minors # {}
    <2>1. minors \in SUBSET Int
      BY <1>1
    <2>2. last \in minors /\ \A v \in minors : last >= v
      BY <1>1, <1>5, <1>7, <2>1, MaxProperties
    <2>3. last # NoIndex
      BY <1>1, <2>2 DEF NoIndex
    <2>4. (\E v \in minors : v > minor) <=> ~(minor >= last)
      BY <1>1, <1>2, <2>2
    <2> QED
      BY <1>3, <1>4, <1>7, <2>3, <2>4 DEF last, minor
  <1> QED
    BY <1>6, <1>7

\* The elements of a list that grew by one.
LEMMA RangeAppend ==
  ASSUME NEW S, NEW list \in Seq(S), NEW x \in S
  PROVE  Append(list, x) \in Seq(S) /\ Range(Append(list, x)) = Range(list) \cup {x}
  <1> DEFINE all == Append(list, x)  n == Len(list)
  <1>1. /\ all \in Seq(S) /\ Len(all) = n + 1
        /\ \A i \in 1 .. n : all[i] = list[i]
        /\ all[n + 1] = x
    BY AppendProperties
  <1>2. n \in Nat
    BY LenProperties
  <1> HIDE DEF all
  <1>3. Range(all) = {all[i] : i \in 1 .. Len(all)} /\ Range(list) = {list[i] : i \in 1 .. n}
    BY <1>1, RangeEquality
  <1> HIDE DEF n
  <1>4. \A i : i \in 1 .. n + 1 <=> i \in 1 .. n \/ i = n + 1
    BY <1>2
  <1>5. Range(all) = Range(list) \cup {x}
    BY <1>1, <1>3, <1>4
  <1> QED
    BY <1>1, <1>5 DEF all

\* The versions that are out of date.
Late(results, vs) == {Version(Num(results, h)) : h \in {g \in DOMAIN results : IsBehind(results, vs, g)}}

\* What the loop over the minor versions keeps, the hosts of H visited.
IsMinorLoop(acc, flags, results, vs, H) ==
  /\ acc = [result |-> acc.result, processed |-> acc.processed, cur |-> acc.cur,
            update |-> acc.update, panic |-> acc.panic]
  /\ Shown(acc.result, flags)
  /\ acc.panic => \E h \in DOMAIN results : IsEmpty(results, vs, h)
  /\ \A m \in acc.processed : \E g \in DOMAIN results :
       IsKnown(results, vs, g) /\ ~IsBehind(results, vs, g) /\ MinorVersion(Num(results, g)) = m
  /\ acc.cur \in Seq(Late(results, vs))
  /\ ~acc.panic =>
       \A h \in H : IsBehind(results, vs, h) /\ ~IsMasked(results, vs, h)
                      => Version(Num(results, h)) \in Range(acc.cur)

\* One turn of the loop over the minor versions: what is out of date is named, unless it is
\* masked.
LEMMA MinorTurnShown ==
  ASSUME NEW results, \A h \in DOMAIN results : Num(results, h) \in Nat, NEW vs \in Config,
         NEW H, NEW acc, NEW flags, IsMinorLoop(acc, flags, results, vs, H),
         NEW h \in DOMAIN results, ~IsKnown(results, vs, h) => "P1" \in flags
  PROVE  IsMinorLoop(MinorTurn(acc, Num(results, h), vs), flags, results, vs, H \cup {h})
  <1> DEFINE num == Num(results, h)
             major == MajorVersion(num)
             minor == MinorVersion(num)
             last == LastMinor(vs[major])
             v == Version(num)
             q == MinorTurn(acc, num, vs)
             good == <<v, major>>
             ended == SupportEnded(acc.result, major, NoRelease)
             fine == AppendConclusion(acc.result, "A002_LAST_MINOR_VERSION", good)
             T == Late(results, vs)
  <1>1. /\ acc = [result |-> acc.result, processed |-> acc.processed, cur |-> acc.cur,
                  update |-> acc.update, panic |-> acc.panic]
        /\ Shown(acc.result, flags)
        /\ acc.panic => \E g \in DOMAIN results : IsEmpty(results, vs, g)
        /\ \A m \in acc.processed : \E g \in DOMAIN results :
             IsKnown(results, vs, g) /\ ~IsBehind(results, vs, g) /\ MinorVersion(Num(results, g)) = m
        /\ acc.cur \in Seq(T)
        /\ ~acc.panic =>
             \A g \in H : IsBehind(results, vs, g) /\ ~IsMasked(results, vs, g)
                            => Version(Num(results, g)) \in Range(acc.cur)
    BY DEF IsMinorLoop
  <1>2. q = IF acc.panic \/ minor \in acc.processed THEN acc
            ELSE IF major \notin DOMAIN vs THEN [acc EXCEPT !.result = ended]
            ELSE IF last = NoIndex THEN [acc EXCEPT !.panic = TRUE]
            ELSE IF minor >= last
            THEN [[acc EXCEPT !.result = fine] EXCEPT !.processed = Mark(acc.processed, minor, minor >= last)]
            ELSE [[acc EXCEPT !.cur = Append(acc.cur, v), !.update = Append(acc.update, <<major, last>>)]
                     EXCEPT !.processed = Mark(acc.processed, minor, minor >= last)]
    BY <1>1 DEF MinorTurn
  <1>3. major \in DOMAIN vs <=> IsKnown(results, vs, h)
    BY DEF IsKnown
  <1>4. IsKnown(results, vs, h) => /\ last = NoIndex <=> IsEmpty(results, vs, h)
                                   /\ last # NoIndex => (IsBehind(results, vs, h) <=> ~(minor >= last))
    BY LastMinorProperties
  <1>5. IsBehind(results, vs, h) => IsKnown(results, vs, h)
    BY DEF IsBehind
  <1>6. IsBehind(results, vs, h) => v \in T
    BY DEF Late
  <1>7. minor = MinorVersion(Num(results, h)) /\ v = Version(Num(results, h))
    OBVIOUS
  <1>8. IsEmpty(results, vs, h) => ~IsBehind(results, vs, h)
    BY DEF IsEmpty, IsBehind
  <1> HIDE DEF q, num, major, minor, last, v, T
  <1>9. CASE acc.panic
    <2>1. q = acc
      BY <1>2, <1>9
    <2> QED
      BY <1>1, <1>9, <2>1 DEF IsMinorLoop, q, num, T
  <1>10. CASE ~acc.panic /\ minor \in acc.processed
    <2>1. q = acc
      BY <1>2, <1>10
    <2>2. IsMasked(results, vs, h)
      BY <1>1, <1>7, <1>10 DEF IsMasked
    <2> QED
      BY <1>1, <2>1, <2>2 DEF IsMinorLoop, q, num, T
  <1>11. CASE ~acc.panic /\ minor \notin acc.processed /\ major \notin DOMAIN vs
    <2>1. flags \cup {"P1"} = flags
      BY <1>3, <1>11
    <2>2. Shown(ended, flags)
      BY <1>1, <2>1, SupportEndedShown
    <2> HIDE DEF ended
    <2>3. q = [result |-> ended, processed |-> acc.processed, cur |-> acc.cur,
               update |-> acc.update, panic |-> acc.panic]
      BY <1>1, <1>2, <1>11
    <2>4. ~IsBehind(results, vs, h)
      BY <1>3, <1>5, <1>11
    <2> QED
      BY <1>1, <1>11, <2>2, <2>3, <2>4 DEF IsMinorLoop, q, num, T
  <1>12. CASE ~acc.panic /\ minor \notin acc.processed /\ major \in DOMAIN vs /\ last = NoIndex
    <2>1. q = [result |-> acc.result, processed |-> acc.processed, cur |-> acc.cur,
               update |-> acc.update, panic |-> TRUE]
      BY <1>1, <1>2, <1>12
    <2>2. IsEmpty(results, vs, h)
      BY <1>3, <1>4, <1>12
    <2> QED
      BY <1>1, <2>1, <2>2 DEF IsMinorLoop, q, num, T
  <1>13. CASE ~acc.panic /\ minor \notin acc.processed /\ major \in DOMAIN vs /\ last # NoIndex /\ minor >= last
    <2>1. Len(good) > 0 /\ "A002_LAST_MINOR_VERSION" # Named
      BY DEF Named
    <2> HIDE DEF good
    <2>2. Shown(fine, flags)
      BY <1>1, <2>1, ShownConclusion
    <2> HIDE DEF fine
    <2>3. q = [result |-> fine, processed |-> acc.processed \cup {minor}, cur |-> acc.cur,
               update |-> acc.update, panic |-> acc.panic]
      BY <1>1, <1>2, <1>13 DEF Mark
    <2>4. IsKnown(results, vs, h) /\ ~IsBehind(results, vs, h)
      BY <1>3, <1>4, <1>13
    <2>5. \A m \in acc.processed \cup {minor} : \E g \in DOMAIN results :
            IsKnown(results, vs, g) /\ ~IsBehind(results, vs, g) /\ MinorVersion(Num(results, g)) = m
      BY <1>1, <1>7, <2>4
    <2> QED
      BY <1>1, <1>13, <2>2, <2>3, <2>4, <2>5 DEF IsMinorLoop, q, num, T
  <1>14. CASE ~acc.panic /\ minor \notin acc.processed /\ major \in DOMAIN vs /\ last # NoIndex /\ ~(minor >= last)
    <2> DEFINE new == Append(acc.cur, v)  update == Append(acc.update, <<major, last>>)
    <2>1. v \in T
      BY <1>3, <1>4, <1>6, <1>14
    <2>2. new \in Seq(T) /\ Range(new) = Range(acc.cur) \cup {v}
      BY <1>1, <2>1, RangeAppend
    <2>3. q = [result |-> acc.result, processed |-> acc.processed, cur |-> new,
               update |-> update, panic |-> acc.panic]
      BY <1>1, <1>2, <1>14 DEF Mark
    <2> HIDE DEF new, update
    <2>4. ASSUME NEW g \in H \cup {h}, IsBehind(results, vs, g), ~IsMasked(results, vs, g)
          PROVE  Version(Num(results, g)) \in Range(new)
      BY <1>1, <1>7, <1>14, <2>2, <2>4
    <2> QED
      BY <1>1, <1>14, <2>2, <2>3, <2>4 DEF IsMinorLoop, q, num, T
  <1> QED
    BY <1>9, <1>10, <1>11, <1>12, <1>13, <1>14

\* The loop over the minor versions, for any order of the hosts.
LEMMA MinorShown ==
  ASSUME NEW results, IsFiniteSet(DOMAIN results), \A h \in DOMAIN results : Num(results, h) \in Nat,
         NEW order \in Orders(results), NEW vs \in Config,
         NEW r, NEW flags, Shown(r, flags), \A h \in DOMAIN results : ~IsKnown(results, vs, h) => "P1" \in flags
  PROVE  \E acc : /\ A002CheckMinorVersions(results, order, vs, r) = MinorOutcome(acc)
                  /\ IsMinorLoop(acc, flags, results, vs, DOMAIN results)
  <1> DEFINE n == Len(order)
             loop == [of |-> "minor", results |-> results, versions |-> vs]
             start == MinorLoop(r)
             q == A002CheckMinorVersions(results, order, vs, r)
  <1>1. /\ n \in Nat /\ \A i \in 1 .. n : order[i] \in DOMAIN results
        /\ \A h \in DOMAIN results : \E i \in 1 .. n : order[i] = h
    BY AllVisited
  <1>2. PICK F : Runs(loop, start, order, F) /\ q = MinorOutcome(F[n])
    BY <1>1, MinorRuns
  <1>3. F[0] = start /\ \A i \in 1 .. n : F[i] = MinorTurn(F[i - 1], Num(results, order[i]), vs)
    BY <1>2 DEF Runs, TurnOf, Num
  <1> HIDE DEF n, loop, q
  <1> DEFINE so(i) == {order[j] : j \in 1 .. i}
             Good(i) == IsMinorLoop(F[i], flags, results, vs, so(i))
             G == {i \in 0 .. n : Good(i)}
  <1>4. 0 \in G
    <2>1. so(0) = {} /\ 0 \in 0 .. n
      BY <1>1
    <2>2. start = [result |-> r, processed |-> {}, cur |-> <<>>, update |-> <<>>, panic |-> FALSE]
      BY DEF MinorLoop
    <2>3. <<>> \in Seq(Late(results, vs))
      BY EmptySeq
    <2> HIDE DEF start
    <2>4. IsMinorLoop(start, flags, results, vs, {})
      BY <2>2, <2>3 DEF IsMinorLoop
    <2>5. F[0] = start
      BY <1>3
    <2> HIDE DEF so
    <2>6. Good(0)
      BY <2>1, <2>4, <2>5
    <2> QED
      BY <2>1, <2>6
  <1>5. ASSUME NEW i \in 1 .. n, i - 1 \in G PROVE i \in G
    <2> DEFINE a == F[i - 1]  h == order[i]
    <2>1. i \in 0 .. n /\ (\A j : j \in 1 .. i <=> j \in 1 .. i - 1 \/ j = i) /\ h \in DOMAIN results
      BY <1>1
    <2>2. so(i) = so(i - 1) \cup {h}
      BY <2>1
    <2>3. IsMinorLoop(a, flags, results, vs, so(i - 1)) /\ F[i] = MinorTurn(a, Num(results, h), vs)
      BY <1>3, <1>5
    <2> HIDE DEF so, a, h
    <2>4. IsMinorLoop(F[i], flags, results, vs, so(i - 1) \cup {h})
      BY <2>1, <2>3, MinorTurnShown
    <2>5. Good(i)
      BY <2>2, <2>4
    <2> QED
      BY <2>1, <2>5
  <1>6. Good(n)
    <2> HIDE DEF G
    <2>1. \A i \in 0 .. n : i \in G
      BY <1>1, <1>4, <1>5, RecursionKeeps
    <2>2. n \in 0 .. n
      BY <1>1
    <2> QED
      BY <2>1, <2>2 DEF G
  <1>7. so(n) = DOMAIN results
    BY <1>1
  <1> HIDE DEF so
  <1>8. IsMinorLoop(F[n], flags, results, vs, DOMAIN results)
    BY <1>6, <1>7
  <1> QED
    BY <1>2, <1>8 DEF q

\* A flag has a conclusion, the highest also advice, and there is no advice without a flag.
Explains(r) ==
  /\ Typed(r)
  /\ Flagged(r) # {} => Conc(r) # {}
  /\ "P1" \in Flagged(r) => Recs(r) # {}
  /\ Recs(r) # {} => Flagged(r) # {}

NamesVersions(r, results, vs) ==
  /\ \A s \in Conc(r) : s[1] = Named => s[2][1] \subseteq Late(results, vs)
  /\ \A h \in DOMAIN results : IsBehind(results, vs, h) /\ ~IsMasked(results, vs, h) =>
       \E s \in Conc(r) : s[1] = Named /\ Version(Num(results, h)) \in s[2][1]

LateFlags(results, vs) == IF Late(results, vs) # {} THEN {"P2"} ELSE {}

NoneMasked(results, vs) == \A h \in DOMAIN results : IsBehind(results, vs, h) => ~IsMasked(results, vs, h)

\* What is true of the result, and which flags it has besides those of `flags`.
Names(r, flags, results, vs) ==
  /\ Explains(r)
  /\ NamesVersions(r, results, vs)
  /\ NoneMasked(results, vs) => Flagged(r) = flags \cup LateFlags(results, vs)

\* A002CheckMinorVersions names the versions that are out of date, if it does not panic.
LEMMA MinorNames ==
  ASSUME NEW results, NEW vs, NEW flags, NEW acc, IsMinorLoop(acc, flags, results, vs, DOMAIN results), ~acc.panic
  PROVE  Names(MinorOutcome(acc).result, flags, results, vs)
  <1> DEFINE D == DOMAIN results
             T == Late(results, vs)
             m == <<GetUniques(acc.cur), acc.update[1]>>
             a == <<acc.update[1]>>
             r == MinorOutcome(acc).result
             wrong == Advised(acc.result, "P2", Named, m, a)
  <1>1. /\ Shown(acc.result, flags)
        /\ acc.cur \in Seq(T)
        /\ \A h \in D : IsBehind(results, vs, h) /\ ~IsMasked(results, vs, h)
                          => Version(Num(results, h)) \in Range(acc.cur)
    BY DEF IsMinorLoop
  <1>2. r = IF acc.cur = <<>> THEN acc.result ELSE wrong
    BY DEF MinorOutcome, Advised, Named
  <1>3. Len(m) > 0 /\ Len(a) > 0 /\ "P2" \in Priority
    BY DEF Priority
  <1>4. m[1] = Range(acc.cur)
    BY DEF GetUniques, ToSet, Range
  <1>5. Range(acc.cur) \subseteq T /\ (acc.cur = <<>> <=> Range(acc.cur) = {})
    <2>1. Range(acc.cur) = {acc.cur[i] : i \in 1 .. Len(acc.cur)}
      BY <1>1, RangeEquality
    <2>2. \A i \in 1 .. Len(acc.cur) : acc.cur[i] \in T
      BY <1>1, ElementOfSeq
    <2> QED
      BY <1>1, <2>1, <2>2, EmptyRange
  <1>6. T # {} <=> \E h \in D : IsBehind(results, vs, h)
    BY DEF Late
  <1> HIDE DEF r, m, a, T
  <1>7. CASE acc.cur = <<>>
    <2>1. Shown(r, flags)
      BY <1>1, <1>2, <1>7
    <2>2. Explains(r)
      BY <2>1 DEF Shown, Explains
    <2>3. \A h \in D : IsBehind(results, vs, h) => IsMasked(results, vs, h)
      BY <1>1, <1>5, <1>7
    <2>4. NamesVersions(r, results, vs)
      BY <2>1, <2>3 DEF Shown, NamesVersions
    <2>5. NoneMasked(results, vs) => T = {}
      BY <1>6, <2>3 DEF NoneMasked
    <2>6. NoneMasked(results, vs) => Flagged(r) = flags \cup LateFlags(results, vs)
      BY <2>1, <2>5 DEF Shown, LateFlags, T
    <2> QED
      BY <2>2, <2>4, <2>6 DEF Names, r
  <1>8. CASE acc.cur # <<>>
    <2> DEFINE c == <<Named, m>>  d == <<Named, a>>
    <2>1. Adds(wrong, acc.result, {"P2"}, {c}, {d})
      BY <1>1, <1>3, AdvisedAdds DEF Shown
    <2>2. c[1] = Named /\ c[2] = m
      OBVIOUS
    <2> HIDE DEF c, d, wrong
    <2>3. Typed(r) /\ Flagged(r) = flags \cup {"P2"} /\ Conc(r) = Conc(acc.result) \cup {c} /\ Recs(r) = Recs(acc.result) \cup {d}
      BY <1>1, <1>2, <1>8, <2>1 DEF Adds, Shown
    <2>4. Explains(r)
      BY <2>3 DEF Explains
    <2>5. \A s \in Conc(acc.result) : s[1] # Named
      BY <1>1 DEF Shown
    <2>6. \A s \in Conc(r) : s[1] = Named => s[2][1] \subseteq T
      BY <1>4, <1>5, <2>2, <2>3, <2>5
    <2>7. ASSUME NEW h \in D, IsBehind(results, vs, h), ~IsMasked(results, vs, h)
          PROVE  \E s \in Conc(r) : s[1] = Named /\ Version(Num(results, h)) \in s[2][1]
      BY <1>1, <1>4, <2>2, <2>3, <2>7
    <2>8. NamesVersions(r, results, vs)
      BY <2>6, <2>7 DEF NamesVersions, T
    <2>9. T # {}
      BY <1>5, <1>8
    <2>10. Flagged(r) = flags \cup LateFlags(results, vs)
      BY <2>3, <2>9 DEF LateFlags, T
    <2> QED
      BY <2>4, <2>8, <2>10 DEF Names, r
  <1> QED
    BY <1>7, <1>8

\* What A002General adds changes none of this.
LEMMA GeneralNames ==
  ASSUME NEW r, NEW flags, NEW results, NEW vs, Names(r, flags, results, vs)
  PROVE  Names(A002General(r), flags, results, vs)
  <1> DEFINE id == "A002_GENERAL_OFFICIAL"
             more == AppendRecommendation(r, id, Text)
             q == A002General(r)
  <1>1. Typed(r) /\ Len(Text) > 0
    BY DEF Names, Explains, Text
  <1>2. Adds(more, r, {}, {}, {<<id, Text>>})
    BY <1>1, RecommendationAdds
  <1>3. r.Recommendations = <<>> <=> Recs(r) = {}
    BY <1>1, FlagOf
  <1>4. q = r \/ (q = more /\ Recs(r) # {})
    BY <1>3 DEF A002General
  <1> HIDE DEF more, q
  <1>5. Typed(q) /\ Flagged(q) = Flagged(r) /\ Conc(q) = Conc(r) /\ (Recs(q) # {} <=> Recs(r) # {})
    BY <1>1, <1>2, <1>4 DEF Adds
  <1>6. Explains(q)
    BY <1>5 DEF Names, Explains
  <1>7. NamesVersions(q, results, vs)
    BY <1>5 DEF Names, NamesVersions
  <1> QED
    BY <1>5, <1>6, <1>7 DEF Names, q

\* The flags that do not depend on the minor versions.
EarlyFlags(results, vs, today) ==
  (IF VersionsDiffer(results) THEN {"P2"} ELSE {}) \cup AllMajorFlags(results, vs, today)

\* Without hosts A002 says nothing.
LEMMA NothingNamed ==
  ASSUME NEW results, DOMAIN results = {}, NEW order, Len(order) = 0, order = <<>>, NEW vs, NEW today
  PROVE  /\ A002CheckAllVersionsIsSame(results, order, NoResult) = NoResult
         /\ A002CheckMajorVersions(results, order, vs, today, NoResult) = NoResult
         /\ A002CheckMinorVersions(results, order, vs, NoResult) = [panic |-> FALSE, result |-> NoResult]
  <1>1. A002CheckAllVersionsIsSame(results, order, NoResult) = NoResult
    <2> DEFINE vers == [i \in DOMAIN order |-> Version(results[order[i]].ServerVersionNum)]
    <2>1. ~ \E i \in DOMAIN vers : vers[i] # vers[1]
      OBVIOUS
    <2> QED
      BY <2>1 DEF A002CheckAllVersionsIsSame
  <1>2. PICK F : /\ Runs([of |-> "major", results |-> results, versions |-> vs, today |-> today],
                         [result |-> NoResult, processed |-> {}], order, F)
                 /\ A002CheckMajorVersions(results, order, vs, today, NoResult) = F[Len(order)].result
    BY MajorRuns
  <1>3. F[0].result = NoResult
    BY <1>2 DEF Runs
  <1>4. PICK E : /\ Runs([of |-> "minor", results |-> results, versions |-> vs], MinorLoop(NoResult), order, E)
                 /\ A002CheckMinorVersions(results, order, vs, NoResult) = MinorOutcome(E[Len(order)])
    BY MinorRuns
  <1>5. E[0] = MinorLoop(NoResult)
    BY <1>4 DEF Runs
  <1>6. MinorOutcome(MinorLoop(NoResult)) = [panic |-> FALSE, result |-> NoResult]
    BY DEF MinorOutcome, MinorLoop
  <1> QED
    BY <1>1, <1>2, <1>3, <1>4, <1>5, <1>6

\* A002 as a whole.
LEMMA A002Judged ==
  ASSUME NEW results, IsFiniteSet(DOMAIN results), \A h \in DOMAIN results : Num(results, h) \in Nat,
         NEW orders \in [1 .. 3 -> Orders(results)], NEW vs \in Config, NEW today \in Nat
  PROVE  /\ A002Process(results, orders, vs, today).panic =>
              \E h \in DOMAIN results : IsEmpty(results, vs, h)
         /\ ~A002Process(results, orders, vs, today).panic =>
              Names(A002General(A002Process(results, orders, vs, today).result),
                    EarlyFlags(results, vs, today), results, vs)
  <1> DEFINE same == A002CheckAllVersionsIsSame(results, orders[1], NoResult)
             major == A002CheckMajorVersions(results, orders[2], vs, today, same)
             q == A002Process(results, orders, vs, today)
             flags == EarlyFlags(results, vs, today)
  <1>1. q = A002CheckMinorVersions(results, orders[3], vs, major)
    BY DEF A002Process
  <1>2. orders[1] \in Orders(results) /\ orders[2] \in Orders(results) /\ orders[3] \in Orders(results)
    OBVIOUS
  <1> HIDE DEF q
  <1>3. CASE DOMAIN results = {}
    <2>1. \A order \in Orders(results) : Len(order) = 0 /\ order = <<>>
      <3> SUFFICES ASSUME NEW order \in Orders(results) PROVE Len(order) = 0 /\ order = <<>>
        OBVIOUS
      <3>1. Len(order) \in Nat /\ (\A i \in 1 .. Len(order) : order[i] \in DOMAIN results) /\ order \in Seq(DOMAIN results)
        BY AllVisited, Visited
      <3>2. Len(order) = 0
        BY <1>3, <3>1
      <3> QED
        BY <3>1, <3>2, EmptySeq
    <2>2. same = NoResult
      BY <1>2, <1>3, <2>1, NothingNamed
    <2>3. major = NoResult
      BY <1>2, <1>3, <2>1, <2>2, NothingNamed
    <2>4. q = [panic |-> FALSE, result |-> NoResult]
      BY <1>1, <1>2, <1>3, <2>1, <2>3, NothingNamed
    <2>5. flags = {} /\ Late(results, vs) = {}
      BY <1>3 DEF EarlyFlags, VersionsDiffer, AllMajorFlags, Late
    <2>6. Explains(NoResult)
      BY NoResultTyped DEF Explains
    <2>7. NamesVersions(NoResult, results, vs)
      BY <1>3, NoResultTyped DEF NamesVersions
    <2>8. Names(NoResult, flags, results, vs)
      BY <2>5, <2>6, <2>7, NoResultTyped DEF Names, LateFlags
    <2> HIDE DEF flags
    <2>9. Names(A002General(NoResult), flags, results, vs)
      BY <2>8, GeneralNames
    <2> QED
      BY <2>4, <2>9 DEF q, flags
  <1>4. CASE DOMAIN results # {}
    <2> DEFINE f == IF VersionsDiffer(results) THEN {"P2"} ELSE {}
    <2>1. Shown(same, f)
      BY <1>2, <1>4, AllVersionsShown
    <2> HIDE DEF same, f
    <2>2. Shown(major, f \cup AllMajorFlags(results, vs, today))
      BY <1>2, <2>1, MajorShown
    <2>3. flags = f \cup AllMajorFlags(results, vs, today)
      BY DEF EarlyFlags, f
    <2>4. \A h \in DOMAIN results : ~IsKnown(results, vs, h) => "P1" \in flags
      BY <2>3 DEF AllMajorFlags, MajorFlags, IsKnown, Num
    <2> HIDE DEF major, flags
    <2>5. PICK acc : q = MinorOutcome(acc) /\ IsMinorLoop(acc, flags, results, vs, DOMAIN results)
      BY <1>1, <1>2, <2>2, <2>3, <2>4, MinorShown
    <2>6. q.panic = acc.panic
      BY <2>5 DEF MinorOutcome
    <2>7. acc.panic => \E h \in DOMAIN results : IsEmpty(results, vs, h)
      BY <2>5 DEF IsMinorLoop
    <2>8. ~acc.panic => Names(q.result, flags, results, vs)
      BY <2>5, MinorNames
    <2>9. ~q.panic => Names(A002General(q.result), flags, results, vs)
      BY <2>6, <2>8, GeneralNames
    <2> QED
      BY <2>6, <2>7, <2>9 DEF q, flags
  <1> QED
    BY <1>3, <1>4

-----------------------------------------------------------------------------
(* A006.                                                                   *)
LEMMA PrefixProperties ==
  ASSUME NEW x, NEW n \in Nat, NEW f, f = [i \in 1 .. n |-> f[i]]
  PROVE  /\ Len(<<x>> \o f) = n + 1 /\ DOMAIN (<<x>> \o f) = 1 .. n + 1
         /\ (<<x>> \o f)[1] = x
         /\ \A i \in 1 .. n : (<<x>> \o f)[i + 1] = f[i]
  <1> DEFINE S == {x} \cup {f[i] : i \in 1 .. n}  one == <<x>>
  <1>1. one \in Seq(S) /\ Len(one) = 1 /\ one[1] = x
    OBVIOUS
  <1>2. f \in [1 .. n -> S]
    OBVIOUS
  <1> HIDE DEF S, one
  <1>3. f \in Seq(S) /\ Len(f) = n
    BY <1>2, SeqDef
  <1>4. /\ Len(one \o f) = 1 + n /\ one \o f \in Seq(S)
        /\ \A i \in 1 .. 1 + n : (one \o f)[i] = IF i <= 1 THEN one[i] ELSE f[i - 1]
    <2> DEFINE all == one \o f  k == Len(one)  m == Len(f)
    <2>1. /\ all \in Seq(S) /\ Len(all) = k + m
          /\ \A i \in 1 .. k + m : all[i] = IF i <= k THEN one[i] ELSE f[i - k]
      BY <1>1, <1>3, ConcatProperties
    <2> HIDE DEF all, k, m
    <2>2. k = 1 /\ m = n
      BY <1>1, <1>3 DEF k, m
    <2> QED
      BY <2>1, <2>2 DEF all
  <1>5. DOMAIN (one \o f) = 1 .. Len(one \o f)
    BY <1>4
  <1> DEFINE all == one \o f
  <1> HIDE DEF all
  <1>6. Len(all) = n + 1 /\ DOMAIN all = 1 .. n + 1 /\ \A i \in 1 .. 1 + n : all[i] = IF i <= 1 THEN one[i] ELSE f[i - 1]
    BY <1>4, <1>5 DEF all
  <1>7. all[1] = x
    <2>1. 1 \in 1 .. 1 + n /\ 1 <= 1
      OBVIOUS
    <2> QED
      BY <1>1, <1>6, <2>1
  <1>8. ASSUME NEW i \in 1 .. n PROVE all[i + 1] = f[i]
    <2>1. i + 1 \in 1 .. 1 + n /\ ~(i + 1 <= 1) /\ (i + 1) - 1 = i
      OBVIOUS
    <2> QED
      BY <1>6, <2>1
  <1> QED
    BY <1>6, <1>7, <1>8 DEF all, one

\* What a host has set.
Own(results, h, s, name) ==
  IF h \notin DOMAIN results \/ name \notin DOMAIN results[h][s] THEN Blank ELSE results[h][s][name]

A006Results(results) ==
  \A h \in DOMAIN results : DOMAIN results[h] = Section /\ \A s \in Section : IsMap(results[h][s], Cell)

\* The cell of a host is what it has set, or is blank.
LEMMA CellProperties ==
  ASSUME NEW results, A006Results(results), NEW r, NEW s \in Section, NEW name
  PROVE  LET cell == getReplicaValue(results, r, s, name)
         IN /\ HasData(cell) => cell = Own(results, r, s, name)
            /\ (IF HasData(cell) THEN cell ELSE Blank) =
                 IF HasData(Own(results, r, s, name)) THEN Own(results, r, s, name) ELSE Blank
  <1>1. HasData(Blank) /\ ~HasData(NoCell)
    BY DEF HasData, Blank, NoCell
  <1>2. CASE r \notin DOMAIN results
    <2>1. getReplicaValue(results, r, s, name) = NoCell /\ Own(results, r, s, name) = Blank
      BY <1>2 DEF getReplicaValue, Own
    <2> QED
      BY <1>1, <2>1
  <1>3. CASE r \in DOMAIN results
    <2>1. SectionOf(results, r, s) = results[r][s]
      BY <1>3 DEF SectionOf, ToInterfaceMap, A006Results
    <2>2. getReplicaValue(results, r, s, name) = Own(results, r, s, name)
      BY <1>3, <2>1 DEF getReplicaValue, Own, ToInterfaceMap
    <2> QED
      BY <2>2
  <1> QED
    BY <1>2, <1>3

\* A row of the comparison that stands for all the hosts.
Aligned(row, results, all, s, name) ==
  /\ Len(row) = Len(all)
  /\ \A i \in DOMAIN all : row[i] = IF i = 1 \/ HasData(Own(results, all[i], s, name))
                                   THEN Own(results, all[i], s, name) ELSE Blank
  /\ \E i \in DOMAIN all : row[i] # row[1]

\* A row of compareHostsData stands for all the hosts.
LEMMA A006Compared ==
  ASSUME NEW results, A006Results(results), NEW hosts, hosts.replicas \in Seq(STRING),
         NEW s \in Section, NEW name \in DOMAIN compareHostsData(results, hosts)[s]
  PROVE  Aligned(compareHostsData(results, hosts)[s][name], results, <<hosts.master>> \o hosts.replicas, s, name)
  <1> DEFINE row == compareHostsData(results, hosts)[s][name]
             reps == hosts.replicas
             n == Len(reps)
             all == <<hosts.master>> \o reps
             own(i) == Own(results, all[i], s, name)
             section == SectionOf(results, hosts.master, s)
             cell(i) == getReplicaValue(results, reps[i], s, name)
             tail == [i \in 1 .. n |-> IF HasData(cell(i)) THEN cell(i) ELSE Blank]
  <1>1. n \in Nat /\ DOMAIN reps = 1 .. n /\ reps = [i \in 1 .. n |-> reps[i]]
    BY LenProperties
  <1>2. name \in DOMAIN section /\ Differs(results, hosts, s, name) /\ row = Row(results, hosts, s, name)
    BY DEF compareHostsData
  <1>3. hosts.master \in DOMAIN results /\ section = results[hosts.master][s]
    <2>1. hosts.master \in DOMAIN results
      BY <1>2 DEF SectionOf, ToInterfaceMap, NoSection
    <2> QED
      BY <2>1 DEF SectionOf, ToInterfaceMap, A006Results
  <1>4. section[name] = Own(results, hosts.master, s, name)
    BY <1>2, <1>3 DEF Own
  <1>5. row = <<section[name]>> \o tail
    BY <1>1, <1>2 DEF Row
  <1>6. /\ Len(all) = n + 1 /\ DOMAIN all = 1 .. n + 1
        /\ all[1] = hosts.master /\ \A i \in 1 .. n : all[i + 1] = reps[i]
    BY <1>1, PrefixProperties
  <1>7. tail = [i \in 1 .. n |-> tail[i]]
    OBVIOUS
  <1> HIDE DEF n, row, all, section, reps
  <1>8. /\ Len(row) = n + 1 /\ row[1] = section[name]
        /\ \A i \in 1 .. n : row[i + 1] = tail[i]
    <2> HIDE DEF tail
    <2> QED
      BY <1>1, <1>5, <1>7, PrefixProperties
  <1>9. \A i \in 1 .. n : row[i + 1] = IF HasData(cell(i)) THEN cell(i) ELSE Blank
    BY <1>8
  <1>10. \A i \in 1 .. n : /\ HasData(cell(i)) => cell(i) = Own(results, reps[i], s, name)
                           /\ (IF HasData(cell(i)) THEN cell(i) ELSE Blank) =
                                IF HasData(Own(results, reps[i], s, name)) THEN Own(results, reps[i], s, name) ELSE Blank
    BY CellProperties
  <1>11. PICK k \in 1 .. n : HasData(cell(k)) /\ cell(k) # section[name]
    BY <1>1, <1>2 DEF Differs, n, reps, section
  <1> HIDE DEF tail, cell
  <1>12. row[1] = own(1)
    BY <1>4, <1>6, <1>8
  <1>13. ASSUME NEW i \in 1 .. n
         PROVE  row[i + 1] = IF HasData(own(i + 1)) THEN own(i + 1) ELSE Blank
    BY <1>6, <1>9, <1>10
  <1>14. \A i \in DOMAIN all : row[i] = IF i = 1 \/ HasData(own(i)) THEN own(i) ELSE Blank
    <2> SUFFICES ASSUME NEW i \in DOMAIN all PROVE row[i] = IF i = 1 \/ HasData(own(i)) THEN own(i) ELSE Blank
      OBVIOUS
    <2>1. i = 1 \/ \E j \in 1 .. n : i = j + 1
      <3>1. i \in 1 .. n + 1
        BY <1>6
      <3>2. i = 1 \/ (i - 1 \in 1 .. n /\ i = (i - 1) + 1)
        BY <1>1, <3>1
      <3> QED
        BY <3>2
    <2> HIDE DEF own
    <2> QED
      BY <1>12, <1>13, <2>1
  <1>15. k + 1 \in DOMAIN all /\ row[k + 1] # row[1]
    BY <1>1, <1>6, <1>8, <1>9, <1>11
  <1>16. Aligned(row, results, all, s, name)
    BY <1>6, <1>8, <1>14, <1>15 DEF Aligned
  <1> QED
    BY <1>16 DEF row, all, reps

-----------------------------------------------------------------------------
(* Units.                                                                  *)
KiEquation(k, F) == F = [i \in 0 .. k |-> IF i = 0 THEN 1 ELSE 1024 * F[i - 1]]

\* The powers of 1024 are defined.
LEMMA KiExists ==
  ASSUME NEW k \in Nat
  PROVE  \E F : KiEquation(k, F) /\ F \in [0 .. k -> Nat \ {0}]
  <1> DEFINE T == Nat \ {0}
             step == [i \in 1 .. k |-> [t \in T |-> 1024 * t]]
  <1>1. Steps(k, T, 1, step)
    BY DEF Steps
  <1>2. \A i \in 1 .. k : \A t \in T : step[i][t] = 1024 * t
    OBVIOUS
  <1> HIDE DEF step, T
  <1>3. PICK F : Values(k, T, 1, step, F)
    BY <1>1, RecursionExists
  <1>4. F \in [0 .. k -> T] /\ F[0] = 1 /\ \A i \in 1 .. k : F[i] = step[i][F[i - 1]]
    BY <1>3 DEF Values
  <1>5. \A i \in 0 .. k : F[i] = IF i = 0 THEN 1 ELSE 1024 * F[i - 1]
    <2> SUFFICES ASSUME NEW i \in 0 .. k, i # 0 PROVE F[i] = 1024 * F[i - 1]
      BY <1>4
    <2>1. i \in 1 .. k /\ i - 1 \in 0 .. k
      OBVIOUS
    <2> QED
      BY <1>2, <1>4, <2>1
  <1> DEFINE H == [i \in 0 .. k |-> F[i]]
  <1>6. \A i \in 0 .. k : i # 0 => i - 1 \in 0 .. k
    OBVIOUS
  <1>7. \A i \in 0 .. k : H[i] = IF i = 0 THEN 1 ELSE 1024 * H[i - 1]
    BY <1>5, <1>6
  <1>8. KiEquation(k, H)
    BY <1>7 DEF KiEquation
  <1>9. H \in [0 .. k -> Nat \ {0}]
    BY <1>4 DEF T
  <1> QED
    BY <1>8, <1>9

\* They are positive numbers.
LEMMA KiProperties ==
  ASSUME NEW k \in Nat
  PROVE  /\ Ki(k) \in Nat /\ Ki(k) > 0
         /\ k = 1 => Ki(k) = 1024
  <1> DEFINE ki == CHOOSE F : KiEquation(k, F)
  <1>1. Ki(k) = ki[k]
    BY DEF Ki, KiEquation
  <1>2. PICK F : KiEquation(k, F) /\ F \in [0 .. k -> Nat \ {0}]
    BY KiExists
  <1>3. KiEquation(k, ki)
    BY <1>2
  <1> HIDE DEF ki
  <1>4. \A i \in 0 .. k : ki[i] = IF i = 0 THEN 1 ELSE 1024 * ki[i - 1]
    BY <1>3 DEF KiEquation
  <1> DEFINE G == {i \in 0 .. k : ki[i] \in Nat /\ ki[i] > 0}
  <1>5. 0 \in G
    BY <1>4
  <1>6. ASSUME NEW i \in 1 .. k, i - 1 \in G PROVE i \in G
    <2>1. i \in 0 .. k /\ i # 0
      OBVIOUS
    <2>2. ki[i] = 1024 * ki[i - 1] /\ ki[i - 1] \in Nat /\ ki[i - 1] > 0
      BY <1>4, <1>6, <2>1
    <2> DEFINE a == ki[i - 1]
    <2> HIDE DEF a
    <2>3. ki[i] = 1024 * a /\ a \in Nat /\ a > 0
      BY <2>2 DEF a
    <2> QED
      BY <2>1, <2>3
  <1> HIDE DEF G
  <1>7. k \in G
    <2>1. k \in 0 .. k
      OBVIOUS
    <2> QED
      BY <1>5, <1>6, <2>1, RecursionKeeps
  <1>8. k = 1 => ki[k] = 1024
    <2> SUFFICES ASSUME k = 1 PROVE ki[1] = 1024
      OBVIOUS
    <2>1. 0 \in 0 .. k /\ 1 \in 0 .. k
      OBVIOUS
    <2>2. ki[0] = 1 /\ ki[1] = 1024 * ki[0]
      BY <1>4, <2>1
    <2> QED
      BY <2>2
  <1> QED
    BY <1>1, <1>7, <1>8 DEF G

\* GetUnit knows every unit but the missing one.
LEMMA GetUnitProperties ==
  ASSUME NEW unit \in Unit
  PROVE  /\ unit.of = "" <=> GetUnit(unit) = -1
         /\ unit.of # "" => GetUnit(unit) \in Nat
  <1> DEFINE B == DOMAIN ByteUnits
  <1> DEFINE U == ByteUnits
  <1>1. /\ B = 1 .. 9
        /\ \A i \in B : ByteUnits[i] # ""
    <2>1. B = 1 .. 9
      BY DEF ByteUnits
    <2>2. /\ U[1] # "" /\ U[2] # "" /\ U[3] # "" /\ U[4] # "" /\ U[5] # ""
          /\ U[6] # "" /\ U[7] # "" /\ U[8] # "" /\ U[9] # ""
      BY DEF ByteUnits
    <2>3. \A i \in 1 .. 9 : i \in {1, 2, 3, 4, 5, 6, 7, 8, 9}
      OBVIOUS
    <2> QED
      BY <2>1, <2>2, <2>3
  <1>2. unit.of = "" \/ \E i \in B : ByteUnits[i] = unit.of
    BY DEF Unit, ToSet
  <1>3. unit.n \in Nat \cup {NoNumber}
    BY DEF Unit
  <1>4. CASE unit.of = ""
    <2>1. GetUnit(unit) = -1
      BY <1>1, <1>4 DEF GetUnit
    <2> QED
      BY <1>4, <2>1
  <1>5. CASE unit.of # ""
    <2> DEFINE i == CHOOSE j \in B : ByteUnits[j] = unit.of
               n == IF unit.n = NoNumber THEN 1 ELSE unit.n
               k == Ki(i - 1)
    <2>1. i \in B
      BY <1>2, <1>5
    <2> HIDE DEF i
    <2>2. k \in Nat
      <3>1. i - 1 \in Nat
        <4>1. i \in 1 .. 9
          BY <1>1, <2>1, Zenon
        <4> QED
          BY <4>1
      <3> QED
        BY <3>1, KiProperties
    <2>3. n \in Nat
      BY <1>3
    <2>4. GetUnit(unit) = n * k
      BY <1>2, <1>5 DEF GetUnit, i
    <2> HIDE DEF n, k
    <2>5. n * k \in Nat
      BY <2>2, <2>3
    <2>6. GetUnit(unit) \in Nat
      BY <2>4, <2>5
    <2>7. GetUnit(unit) # -1
      BY <2>6
    <2> QED
      BY <1>5, <2>6, <2>7
  <1> QED
    BY <1>4, <1>5

\* A kB are 1024 bytes.
LEMMA GetUnitkB == GetUnit([n |-> NoNumber, of |-> "kB"]) = 1024
  <1> DEFINE u == [n |-> NoNumber, of |-> "kB"]
             i == CHOOSE j \in DOMAIN ByteUnits : ByteUnits[j] = u.of
  <1>1. i = 2 /\ \E j \in DOMAIN ByteUnits : ByteUnits[j] = u.of
    BY DEF ByteUnits
  <1> HIDE DEF i
  <1>2. GetUnit(u) = 1 * Ki(i - 1)
    BY <1>1 DEF GetUnit, i
  <1>3. i - 1 = 1
    BY <1>1
  <1>4. Ki(1) = 1024
    BY KiProperties
  <1> QED
    BY <1>2, <1>3, <1>4

\* A number is rounded up by less than one.
LEMMA RoundedUp ==
  ASSUME NEW n \in Nat, NEW p \in Nat, p > 0
  PROVE  /\ RoundUp(n, p, 2) * p >= 100 * n
         /\ RoundUp(n, p, 2) * p < 100 * n + p
  <1> DEFINE a == n * 100 + p - 1  r == a \div p
  <1>1. a \in Nat
    OBVIOUS
  <1>2. 10 ^ 2 = 100
    OBVIOUS
  <1>3. RoundUp(n, p, 2) = r
    BY <1>2 DEF RoundUp
  <1> HIDE DEF a
  <1>4. r \in Int /\ a = p * r + (a % p) /\ a % p \in 0 .. p - 1
    BY <1>1
  <1>5. r * p = p * r
    BY <1>4
  <1> HIDE DEF r
  <1> DEFINE z == p * r   w == a % p
  <1>6. z \in Int
    BY <1>4
  <1>7. w \in 0 .. p - 1 /\ a = z + w
    BY <1>4
  <1> HIDE DEF z, w
  <1>8. z >= 100 * n /\ z < 100 * n + p
    BY <1>6, <1>7 DEF a
  <1> QED
    BY <1>3, <1>5, <1>8 DEF z

\* What a size is printed as.
LEMMA ByteFormatProperties ==
  ASSUME NEW n \in Nat
  PROVE  LET said == ByteFormat(n, 2)
             part == Ki(said.unit)
         IN said.number * part >= 100 * n /\ said.number * part < 100 * n + part
  <1> DEFINE u == UnitIndex(n)  part == Ki(u)
  <1>1. u \in Nat
    <2>1. PICK X \in SUBSET (1 .. 8) : u = Cardinality(X)
      BY Zenon DEF UnitIndex
    <2> DEFINE a == 1  b == 8
    <2>2. IsFiniteSet(1 .. 8)
      <3>1. a \in Int /\ b \in Int
        OBVIOUS
      <3> HIDE DEF a, b
      <3>2. IsFiniteSet(a .. b)
        BY <3>1, FS_Interval
      <3> QED
        BY <3>2 DEF a, b
    <2>3. IsFiniteSet(X)
      BY <2>2, FS_Subset
    <2> QED
      BY <2>1, <2>3, FS_CardinalityType
  <1>2. ByteFormat(n, 2).number = RoundUp(n, part, 2) /\ ByteFormat(n, 2).unit = u
    BY DEF ByteFormat
  <1> HIDE DEF u
  <1>3. part \in Nat /\ part > 0
    BY <1>1, KiProperties
  <1>4. Ki(ByteFormat(n, 2).unit) = part
    BY <1>2
  <1> HIDE DEF part
  <1> QED
    BY <1>2, <1>3, <1>4, RoundedUp

-----------------------------------------------------------------------------
(* G001.                                                                   *)
Buffers(results, h) == getSettingValue(results[h], "shared_buffers")
NotOptimal == "G001_SHARED_BUFFERS_NOT_OPTIMAL"

\* The shared_buffers of a host are judged, and are out of bounds.
BuffersWrong(results, ram, h) ==
  /\ ~Buffers(results, h).err /\ ~getHostMemTotal(ram, h).err
  /\ Buffers(results, h).v # -1
  /\ \/ Buffers(results, h).v > Level(getHostMemTotal(ram, h).v, MAX_PERCENT)
     \/ Buffers(results, h).v < Level(getHostMemTotal(ram, h).v, MIN_PERCENT)

BuffersFlag(results, ram) == IF \E h \in DOMAIN results : BuffersWrong(results, ram, h) THEN {"P1"} ELSE {}

\* What the conclusion says of the hosts it lists.
BuffersSaid(message, results) ==
  \A i \in DOMAIN message[1] :
    /\ message[1][i].host \in DOMAIN results
    /\ ~Buffers(results, message[1][i].host).err
    /\ Buffers(results, message[1][i].host).v # -1
    /\ message[1][i].set = ByteFormat(Buffers(results, message[1][i].host).v, 2)

AllSaid(r, results) == \A s \in Conc(r) : s[1] = NotOptimal => BuffersSaid(s[2], results)

\* G001CheckSharedBuffers raises P1 if the shared_buffers of any host are out of bounds,
\* and says how large they are.
LEMMA BuffersJudged ==
  ASSUME NEW results, IsFiniteSet(DOMAIN results), NEW order \in Orders(results), NEW ram
  PROVE  /\ Verdict(G001CheckSharedBuffers(results, order, ram, NoResult).result, BuffersFlag(results, ram))
         /\ AllSaid(G001CheckSharedBuffers(results, order, ram, NoResult).result, results)
  <1> DEFINE D == DOMAIN results
             shared(h) == getSettingValue(results[h], "shared_buffers")
             mem(h) == getHostMemTotal(ram, h)
             processed == {h \in DOMAIN results : ~shared(h).err /\ ~mem(h).err}
             High(h) == shared(h).v # -1 /\ shared(h).v > Level(mem(h).v, MAX_PERCENT)
             Low(h) == shared(h).v # -1 /\ shared(h).v < Level(mem(h).v, MIN_PERCENT)
             B == {h \in processed : High(h) \/ Low(h)}
             bad == Sublist(order, B)
             conclusions == [i \in DOMAIN bad |->
                        [host |-> bad[i], high |-> High(bad[i]),
                         ram |-> ByteFormat(mem(bad[i]).v, 2),
                         set |-> ByteFormat(shared(bad[i]).v, 2)]]
             recommendations == [i \in DOMAIN bad |->
                            [host |-> bad[i],
                             middle |-> ByteFormat(Level(mem(bad[i]).v, MIDDLE_PERCENT), 2),
                             min |-> ByteFormat(Level(mem(bad[i]).v, MIN_PERCENT), 2),
                             max |-> ByteFormat(Level(mem(bad[i]).v, MAX_PERCENT), 2)]]
             m == <<conclusions>>
             a == <<recommendations>>
             tune == "G001_TUNE_SHARED_BUFFERS"
             advised == Reported(NoResult, "P1", NotOptimal, m, a)
             more == AppendRecommendation(advised, tune, Text)
             r == G001CheckSharedBuffers(results, order, ram, NoResult).result
  <1>1. r = IF bad = <<>> THEN NoResult ELSE more
    BY Zenon DEF G001CheckSharedBuffers, Outcome, Reported, NotOptimal
  <1>2. order \in Seq(D) /\ Range(order) = D
    BY OrderProperties
  <1>3. B = {h \in D : BuffersWrong(results, ram, h)}
    BY DEF BuffersWrong, Buffers
  <1>4. BuffersFlag(results, ram) = IF B # {} THEN {"P1"} ELSE {}
    BY <1>3 DEF BuffersFlag
  <1> HIDE DEF B
  <1>5. bad \in Seq(D) /\ Range(bad) = B
    BY <1>2, <1>3, SublistProperties
  <1>6. bad = <<>> <=> B = {}
    BY <1>5, EmptyRange
  <1> HIDE DEF bad
  <1>7. BuffersSaid(m, results)
    <2> SUFFICES ASSUME NEW i \in DOMAIN bad
                 PROVE  /\ bad[i] \in DOMAIN results
                        /\ ~Buffers(results, bad[i]).err /\ Buffers(results, bad[i]).v # -1
                        /\ conclusions[i].host = bad[i]
                        /\ conclusions[i].set = ByteFormat(Buffers(results, bad[i]).v, 2)
      BY DEF BuffersSaid
    <2>1. bad[i] \in B
      BY <1>5 DEF Range
    <2>2. bad[i] \in D /\ BuffersWrong(results, ram, bad[i])
      BY <1>3, <2>1
    <2> QED
      BY <2>2 DEF BuffersWrong, Buffers
  <1>8. Len(m) > 0 /\ Len(a) > 0 /\ Len(Text) > 0 /\ "P1" \in Priority
    BY DEF Text, Priority
  <1> HIDE DEF m, a, r, conclusions, recommendations
  <1>9. CASE B = {}
    <2>1. r = NoResult /\ BuffersFlag(results, ram) = {}
      BY <1>1, <1>4, <1>6, <1>9
    <2> QED
      BY <2>1, NoVerdict, NoResultTyped DEF AllSaid, r
  <1>10. CASE B # {}
    <2>1. r = more /\ BuffersFlag(results, ram) = {"P1"}
      BY <1>1, <1>4, <1>6, <1>10
    <2> DEFINE cs == {<<NotOptimal, m>>}
    <2>2. Adds(advised, NoResult, {"P1"}, cs, {<<NotOptimal, a>>})
      BY <1>8, ReportedAdds, NoResultTyped
    <2>3. \A s \in cs : s[2] = m
      OBVIOUS
    <2>4. Verdict(advised, {"P1"})
      BY <1>8, ReportedVerdict
    <2> HIDE DEF advised, cs
    <2>5. Verdict(more, {"P1"})
      BY <1>8, <2>4, AdvisedVerdict
    <2>6. Adds(more, advised, {}, {}, {<<tune, Text>>})
      BY <1>8, <2>2, RecommendationAdds DEF Adds
    <2> HIDE DEF more
    <2>7. Conc(more) = cs
      BY <2>2, <2>6, NoResultTyped DEF Adds
    <2>8. AllSaid(more, results)
      BY <1>7, <2>3, <2>7 DEF AllSaid
    <2> QED
      BY <2>1, <2>5, <2>8 DEF r
  <1> QED
    BY <1>9, <1>10

SettingOf(results, h, name) == getSettingValue(results[h], name).v

\* Something that is needed to judge the memory of the master is not known.
OomUnknown(results, master, ram) ==
  \/ \E name \in G001Name \ {"max_connections"} : getSettingValue(results[master], name).err
  \/ getHostMemTotal(ram, master).err \/ getHostSwapEnabled(ram, master).err

AutovacuumMem(results, h) ==
  IF SettingOf(results, h, "autovacuum_work_mem") # -1 THEN SettingOf(results, h, "autovacuum_work_mem")
  ELSE SettingOf(results, h, "maintenance_work_mem")

UsedMem(results, h) ==
  SettingOf(results, h, "shared_buffers")
    + SettingOf(results, h, "max_connections") * 2 * SettingOf(results, h, "work_mem")
    + AutovacuumMem(results, h) * SettingOf(results, h, "autovacuum_max_workers")

OomRisk(results, h, ram) == ~(UsedMem(results, h) < Quotient(OOM_PERCENT * getHostMemTotal(ram, h).v, 100))

OomFlag(results, master, ram) ==
  IF master \in DOMAIN results /\ ~OomUnknown(results, master, ram) /\ OomRisk(results, master, ram)
  THEN {"P1"} ELSE {}

\* G001CheckOOMRisk adds P1 if the master may run out of memory.
LEMMA OomJudged ==
  ASSUME NEW results, NEW master, NEW ram, NEW r, NEW flags, Verdict(r, flags), AllSaid(r, results)
  PROVE  /\ Verdict(G001CheckOOMRisk(results, master, ram, r).result, flags \cup OomFlag(results, master, ram))
         /\ AllSaid(G001CheckOOMRisk(results, master, ram, r).result, results)
  <1> DEFINE value(name) == getSettingValue(results[master], name)
             total == getHostMemTotal(ram, master)
             swap == getHostSwapEnabled(ram, master)
             autovacuum == IF value("autovacuum_work_mem").v # -1 THEN value("autovacuum_work_mem").v
                           ELSE value("maintenance_work_mem").v
             terms == [shared_buffers |-> value("shared_buffers").v,
                       work_mem |-> value("max_connections").v * 2 * value("work_mem").v,
                       autovacuum |-> autovacuum * value("autovacuum_max_workers").v]
             used == terms.shared_buffers + terms.work_mem + terms.autovacuum
             major == {t \in DOMAIN terms : terms[t] > Quotient(total.v * TERM_MEMORY_LEVEL, 100)}
             m == <<master, swap.v, major>>
             a == IF major = {} THEN NoText ELSE <<major>>
             oom == "G001_OOM"
             tune == "G001_TUNE_MEMORY"
             r1 == Raise(r, "P1")
             r2 == AppendConclusion(r1, oom, m)
             r3 == AppendRecommendation(r2, oom, a)
             r4 == AppendRecommendation(r3, tune, Text)
             q == G001CheckOOMRisk(results, master, ram, r).result
             f == OomFlag(results, master, ram)
  <1>1. used = UsedMem(results, master)
    BY DEF UsedMem, SettingOf, AutovacuumMem
  <1>2. q = IF master \notin DOMAIN results \/ OomUnknown(results, master, ram) \/ ~OomRisk(results, master, ram)
            THEN r ELSE r4
    BY <1>1 DEF G001CheckOOMRisk, OomUnknown, OomRisk, Outcome
  <1> HIDE DEF q, m, a
  <1>3. CASE f = {}
    <2>1. q = r
      BY <1>2, <1>3 DEF OomFlag
    <2> HIDE DEF f
    <2> QED
      BY <1>3, <2>1 DEF q, f
  <1>4. CASE f = {"P1"}
    <2>1. q = r4
      BY <1>2, <1>4 DEF OomFlag
    <2>2. Len(m) > 0 /\ (a = NoText \/ Len(a) > 0) /\ Len(Text) > 0 /\ "P1" \in Priority /\ oom # NotOptimal
      BY DEF m, a, Text, Priority, NotOptimal
    <2>3. Adds(r1, r, {"P1"}, {}, {})
      BY <2>2, RaiseAdds DEF Verdict
    <2> HIDE DEF r1
    <2> DEFINE c == <<oom, m>>  d == <<tune, Text>>
    <2>4. Adds(r2, r1, {}, {c}, {})
      BY <2>2, <2>3, ConclusionAdds DEF Adds
    <2>5. c[1] = oom
      OBVIOUS
    <2> HIDE DEF r2, c
    <2>6. \E rs : Adds(r3, r2, {}, {}, rs)
      <3>1. CASE a = NoText
        <4>1. r3 = r2
          BY <3>1 DEF AppendRecommendation
        <4> QED
          BY <2>4, <4>1, NothingAdds DEF Adds
      <3>2. CASE Len(a) > 0
        BY <2>4, <3>2, RecommendationAdds DEF Adds
      <3> QED
        BY <2>2, <3>1, <3>2
    <2>7. PICK rs : Adds(r3, r2, {}, {}, rs)
      BY <2>6
    <2> HIDE DEF r3
    <2>8. Adds(r4, r3, {}, {}, {d})
      BY <2>2, <2>7, RecommendationAdds DEF Adds
    <2> HIDE DEF r4, d
    <2>9. /\ Typed(r4) /\ Flagged(r4) = flags \cup {"P1"} /\ Conc(r4) = Conc(r) \cup {c}
          /\ Recs(r4) = (Recs(r) \cup rs) \cup {d}
      BY <2>3, <2>4, <2>7, <2>8 DEF Adds, Verdict
    <2>10. Verdict(r4, flags \cup {"P1"})
      BY <2>9 DEF Verdict
    <2>11. AllSaid(r4, results)
      BY <2>2, <2>5, <2>9 DEF AllSaid
    <2> QED
      BY <1>4, <2>1, <2>10, <2>11 DEF q
  <1>5. f = {} \/ f = {"P1"}
    BY DEF OomFlag
  <1> QED
    BY <1>3, <1>4, <1>5

\* G001 raises P1 for either reason.
LEMMA G001Judged ==
  ASSUME NEW results, IsFiniteSet(DOMAIN results), NEW order \in Orders(results), NEW master, NEW ram
  PROVE  /\ Verdict(G001Process(results, order, master, ram).result,
                    BuffersFlag(results, ram) \cup OomFlag(results, master, ram))
         /\ AllSaid(G001Process(results, order, master, ram).result, results)
  <1> DEFINE buffers == G001CheckSharedBuffers(results, order, ram, NoResult)
             q == G001Process(results, order, master, ram)
             f == BuffersFlag(results, ram)
             r == buffers.result
  <1>1. q.result = G001CheckOOMRisk(results, master, ram, r).result
    BY DEF G001Process, Outcome
  <1>2. Verdict(r, f) /\ AllSaid(r, results)
    BY BuffersJudged
  <1> HIDE DEF q, r, f
  <1>3. /\ Verdict(q.result, f \cup OomFlag(results, master, ram))
        /\ AllSaid(q.result, results)
    BY <1>1, <1>2, OomJudged
  <1> QED
    BY <1>3 DEF q, f

-----------------------------------------------------------------------------
(* The releases of Postgres.                                               *)
Releases == [FirstRelease : Nat, FinalRelease : Nat,
             MinorVersions : {minors \in SUBSET Nat : IsFiniteSet(minors)}]

\* A release is one of the table's type.
LEMMA ReleaseTyped ==
  ASSUME NEW first \in Nat, NEW final \in Nat, NEW a \in Nat, NEW b \in Nat
  PROVE  Release(first, final, a, b) \in Releases
  <1>1. a .. b \in SUBSET Nat /\ IsFiniteSet(a .. b)
    BY FS_Interval
  <1> QED
    BY <1>1 DEF Release, Releases

\* The releases pghrep is built with are of the type.
LEMMA VersionsDefaultTyped == versionsDefault \in Config
  <1>1. DefaultRelease(1400) \in Releases
    <2>1. DefaultRelease(1400) = Release(20210930, 20261112, 0, 5)
      BY SMTT(60) DEF DefaultRelease
    <2> QED
      BY <2>1, ReleaseTyped
  <1>2. DefaultRelease(1300) \in Releases
    <2>1. DefaultRelease(1300) = Release(20200924, 20251113, 0, 8)
      BY SMTT(60) DEF DefaultRelease
    <2> QED
      BY <2>1, ReleaseTyped
  <1>3. DefaultRelease(1200) \in Releases
    <2>1. DefaultRelease(1200) = Release(20191003, 20241114, 0, 12)
      BY SMTT(60) DEF DefaultRelease
    <2> QED
      BY <2>1, ReleaseTyped
  <1>4. DefaultRelease(1100) \in Releases
    <2>1. DefaultRelease(1100) = Release(20181018, 20231109, 0, 17)
      BY SMTT(60) DEF DefaultRelease
    <2> QED
      BY <2>1, ReleaseTyped
  <1>5. DefaultRelease(1000) \in Releases
    <2>1. DefaultRelease(1000) = Release(20171005, 20221110, 0, 22)
      BY SMTT(60) DEF DefaultRelease
    <2> QED
      BY <2>1, ReleaseTyped
  <1>6. DefaultRelease(906) \in Releases
    <2>1. DefaultRelease(906) = Release(20160929, 20211111, 0, 24)
      BY SMTT(60) DEF DefaultRelease
    <2> QED
      BY <2>1, ReleaseTyped
  <1>7. DefaultRelease(905) \in Releases
    <2>1. DefaultRelease(905) = Release(20160107, 20210211, 0, 25)
      BY SMTT(60) DEF DefaultRelease
    <2> QED
      BY <2>1, ReleaseTyped
  <1>8. DefaultRelease(904) \in Releases
    <2>1. DefaultRelease(904) = Release(20141218, 20200213, 0, 26)
      BY SMTT(60) DEF DefaultRelease
    <2> QED
      BY <2>1, ReleaseTyped
  <1>9. DefaultRelease(903) \in Releases
    <2>1. DefaultRelease(903) = Release(20130909, 20181108, 0, 25)
      BY SMTT(60) DEF DefaultRelease
    <2> QED
      BY <2>1, ReleaseTyped
  <1>10. DefaultRelease(902) \in Releases
    <2>1. DefaultRelease(902) = Release(20120910, 20171109, 0, 24)
      BY SMTT(60) DEF DefaultRelease
    <2> QED
      BY <2>1, ReleaseTyped
  <1>11. DefaultRelease(901) \in Releases
    <2>1. DefaultRelease(901) = Release(20110912, 20161027, 0, 24)
      BY SMTT(60) DEF DefaultRelease
    <2> QED
      BY <2>1, ReleaseTyped
  <1>12. DefaultRelease(900) \in Releases
    <2>1. DefaultRelease(900) = Release(20100920, 20151008, 0, 23)
      BY SMTT(60) DEF DefaultRelease
    <2> QED
      BY <2>1, ReleaseTyped
  <1>13. DefaultRelease(804) \in Releases
    <2>1. DefaultRelease(804) = Release(20090701, 20140724, 0, 22)
      BY SMTT(60) DEF DefaultRelease
    <2> QED
      BY <2>1, ReleaseTyped
  <1>14. DefaultRelease(803) \in Releases
    <2>1. DefaultRelease(803) = Release(20080204, 20130207, 0, 23)
      BY SMTT(60) DEF DefaultRelease
    <2> QED
      BY <2>1, ReleaseTyped
  <1>15. DefaultRelease(802) \in Releases
    <2>1. DefaultRelease(802) = Release(20061205, 20111205, 0, 23)
      BY SMTT(60) DEF DefaultRelease
    <2> QED
      BY <2>1, ReleaseTyped
  <1>16. DefaultRelease(801) \in Releases
    <2>1. DefaultRelease(801) = Release(20051108, 20101108, 0, 23)
      BY SMTT(60) DEF DefaultRelease
    <2> QED
      BY <2>1, ReleaseTyped
  <1>17. DefaultRelease(800) \in Releases
    <2>1. DefaultRelease(800) = Release(20050119, 20101001, 0, 26)
      BY SMTT(60) DEF DefaultRelease
    <2> QED
      BY <2>1, ReleaseTyped
  <1>18. DefaultRelease(704) \in Releases
    <2>1. DefaultRelease(704) = Release(20031117, 20101001, 1, 30)
      BY SMTT(60) DEF DefaultRelease
    <2> QED
      BY <2>1, ReleaseTyped
  <1>19. DefaultRelease(703) \in Releases
    <2>1. DefaultRelease(703) = Release(20021127, 20071127, 1, 21)
      BY SMTT(60) DEF DefaultRelease
    <2> QED
      BY <2>1, ReleaseTyped
  <1>20. DefaultRelease(702) \in Releases
    <2>1. DefaultRelease(702) = Release(20020204, 20070204, 1, 8)
      BY SMTT(60) DEF DefaultRelease
    <2> QED
      BY <2>1, ReleaseTyped
  <1>21. DefaultRelease(701) \in Releases
    <2>1. DefaultRelease(701) = Release(20010313, 20060313, 1, 3)
      BY SMTT(60) DEF DefaultRelease
    <2> QED
      BY <2>1, ReleaseTyped
  <1>22. DefaultRelease(700) \in Releases
    <2>1. DefaultRelease(700) = Release(20000508, 20050508, 2, 3)
      BY SMTT(60) DEF DefaultRelease
    <2> QED
      BY <2>1, ReleaseTyped
  <1>23. DefaultRelease(605) \in Releases
    <2>1. DefaultRelease(605) = Release(19990609, 20040609, 1, 3)
      BY SMTT(60) DEF DefaultRelease
    <2> QED
      BY <2>1, ReleaseTyped
  <1>24. DefaultRelease(604) \in Releases
    <2>1. DefaultRelease(604) = Release(19981030, 20031030, 2, 2)
      BY SMTT(60) DEF DefaultRelease
    <2> QED
      BY <2>1, ReleaseTyped
  <1>25. DefaultRelease(603) \in Releases
    <2>1. DefaultRelease(603) = Release(19980301, 20030301, 2, 2)
      BY SMTT(60) DEF DefaultRelease
    <2> QED
      BY <2>1, ReleaseTyped
  <1>26. \A v \in Branches : DefaultRelease(v) \in Releases
    BY <1>1, <1>2, <1>3, <1>4, <1>5, <1>6, <1>7, <1>8, <1>9, <1>10, <1>11, <1>12, <1>13, <1>14,
       <1>15, <1>16, <1>17, <1>18, <1>19, <1>20, <1>21, <1>22, <1>23, <1>24, <1>25, SMTT(20) DEF Branches
  <1>27. versionsDefault \in [Branches -> Releases]
    BY <1>26 DEF versionsDefault
  <1> QED
    BY <1>27 DEF Config, Releases

\* So are those it has read from the web site.
LEMMA LoadVersionsTyped ==
  ASSUME NEW vs \in Config, NEW page, page.loaded \in BOOLEAN, page.tags \subseteq Tag, IsFiniteSet(page.tags)
  PROVE  LoadVersions(vs, page) \in Config
  <1> DEFINE known == Numbered(vs, page.tags)
             minors(v) == {t.minor : t \in {u \in known : u.major = v}}
  <1>1. known \subseteq page.tags
    BY DEF Numbered
  <1> HIDE DEF known
  <1>2. ASSUME NEW v PROVE minors(v) \in SUBSET Nat /\ IsFiniteSet(minors(v))
    <2> DEFINE S == {u \in known : u.major = v}
    <2>1. S \subseteq page.tags
      BY <1>1
    <2>2. IsFiniteSet(S)
      BY <2>1, FS_Subset
    <2>3. \A t \in S : t.minor \in Nat
      BY <2>1 DEF Tag
    <2> HIDE DEF S
    <2> DEFINE T == {t.minor : t \in S}
               f == [t \in S |-> t.minor]
    <2>4. f \in Surjection(S, T)
      BY DEF Surjection
    <2>5. IsFiniteSet(T)
      BY <2>2, <2>4, FS_Surjection
    <2>6. T \in SUBSET Nat
      BY <2>3
    <2> QED
      BY <2>5, <2>6 DEF S
  <1>3. \A v \in Branches : [vs[v] EXCEPT !.MinorVersions = minors(v)] \in Releases
    <2>1. \A v \in Branches : vs[v] \in Releases
      BY DEF Config, Releases
    <2> HIDE DEF minors
    <2> QED
      BY <1>2, <2>1 DEF Releases
  <1>4. DOMAIN vs = Branches
    BY DEF Config
  <1> DEFINE new == [v \in DOMAIN vs |-> [vs[v] EXCEPT !.MinorVersions = minors(v)]]
  <1>5. new \in Config
    BY <1>3, <1>4 DEF Config, Releases
  <1>6. LoadVersions(vs, page) = vs \/ LoadVersions(vs, page) = new
    BY DEF LoadVersions, fillVersions, known
  <1> HIDE DEF new
  <1> QED
    BY <1>5, <1>6

-----------------------------------------------------------------------------
(* The inductive invariant: what is saved is what the check of the report  *)
(* makes of the results, in some order of its loops.                       *)
A002Saved(rep, vs, r) ==
  \E orders \in [1 .. 3 -> Orders(rep.results)] :
    /\ ~A002Process(rep.results, orders, vs, rep.with.today).panic
    /\ r = A002General(A002Process(rep.results, orders, vs, rep.with.today).result)

\* The checks whose result is a function of the results and an order of the hosts.
Ordered(rep, r) ==
  \E order \in Orders(rep.results) :
    \/ rep.check = "A008" /\ r = A008Process(rep.results, order).result
    \/ rep.check = "F002" /\ r = F002Process(rep.results, order)
    \/ rep.check = "F004" /\ r = F004Process(rep.results, order)
    \/ rep.check = "F005" /\ r = F005Process(rep.results, order, TablesOf(rep.with.f004))
    \/ rep.check = "G002" /\ r = G002Process(rep.results, order)
    \/ rep.check = "K000" /\ r = K000Process(rep.results, order)
    \/ rep.check = "L003" /\ r = L003Process(rep.results, order)

\* Those that look at the master.
OfMaster(rep, r) ==
  \/ rep.check = "H002" /\ \E master \in MasterHost(rep.roles) : r = H002Process(rep.results, master)
  \/ rep.check = "H004" /\ \E master \in MasterHost(rep.roles) : r = H004Process(rep.results, master)
  \/ rep.check = "F001" /\ \E master \in GetMasterHostName(rep.roles) :
       ~F001Process(rep.results, master).err /\ r = F001Process(rep.results, master).result

F008Saved(rep, r) ==
  \E orders \in [1 .. 2 -> Orders(rep.results)] :
    r = F008Process(rep.results, orders, rep.with.cpus, rep.with.versions).result

G001Saved(rep, r) ==
  \E order \in Orders(rep.results), master \in GetMasterHostName(rep.roles) :
    r = G001Process(rep.results, order, master, rep.with.ram).result

Judged(rep, vs, r, data) ==
  /\ \/ rep.check = "A002" /\ A002Saved(rep, vs, r)
     \/ rep.check = "F008" /\ F008Saved(rep, r)
     \/ rep.check = "G001" /\ G001Saved(rep, r)
     \/ Ordered(rep, r)
     \/ OfMaster(rep, r)
  /\ rep.check = "L003" => data = L003ProcessSortTables(rep.results)

Panicked(rep, vs) ==
  \/ rep.check = "A002" /\ \E orders \in [1 .. 3 -> Orders(rep.results)] :
       A002Process(rep.results, orders, vs, rep.with.today).panic
  \/ rep.check = "A008" /\ \E order \in Orders(rep.results) : A008Process(rep.results, order).panic

ConclusionsInv ==
  /\ ReportType(report)
  /\ versions \in Config
  /\ stage \in {"loaded", "ready"} \cup Ended
  /\ stage = "loaded" => report.check = "A002"
  /\ stage # "saved" => result = NoResult
  /\ stage = "saved" => Judged(report, versions, result, added)
  /\ stage = "panicked" => Panicked(report, versions)
  /\ stage = "compared" /\ report.check = "A006" =>
       added = compareHostsData(report.results, report.with.hosts)

\* A run that saves what the check made of the report keeps the invariant.
LEMMA SavingKeeps ==
  ASSUME ConclusionsInv, NEW r, NEW data, SaveReportResult(r, data), Judged(report, versions, r, data)
  PROVE  ConclusionsInv'
  <1>1. stage' = "saved" /\ result' = r /\ added' = data /\ report' = report /\ versions' = versions
    BY DEF SaveReportResult
  <1> QED
    BY <1>1 DEF ConclusionsInv, Ended

\* So does one that ends without a result.
LEMMA EndingKeeps ==
  ASSUME ConclusionsInv, stage \in {"loaded", "ready"}, NEW how \in {"discarded", "panicked"}, End(how),
         how = "panicked" => Panicked(report, versions)
  PROVE  ConclusionsInv'
  <1>1. stage' = how /\ result' = result /\ added' = added /\ report' = report /\ versions' = versions
    BY DEF End
  <1> QED
    BY <1>1 DEF ConclusionsInv, Ended

\* A comparison keeps the invariant.
LEMMA ComparingKeeps ==
  ASSUME ConclusionsInv, stage = "ready", NEW data, Compared(data),
         report.check = "A006" => data = compareHostsData(report.results, report.with.hosts)
  PROVE  ConclusionsInv'
  <1>1. stage' = "compared" /\ result' = result /\ added' = data /\ report' = report /\ versions' = versions
    BY DEF Compared
  <1> QED
    BY <1>1 DEF ConclusionsInv, Ended

\* The invariant holds of a run that begins.
LEMMA ConclusionsInvInit == ConclusionsInit => ConclusionsInv
  <1> SUFFICES ASSUME ConclusionsInit
               PROVE  ConclusionsInv
    OBVIOUS
  <1>1. ReportType(report)
    BY InputsAssumption DEF ConclusionsInit
  <1>2. versions \in Config
    BY VersionsDefaultTyped DEF ConclusionsInit
  <1> QED
    BY <1>1, <1>2 DEF ConclusionsInit, ConclusionsInv, Ended

\* Loading the releases keeps the invariant.
LEMMA LoadKeeps ==
  ASSUME ConclusionsInv, LoadActualVersions
  PROVE  ConclusionsInv'
  <1>1. report.check = "A002"
    BY DEF ConclusionsInv, LoadActualVersions
  <1>2. WithData(report.check, report.with)
    BY DEF ConclusionsInv, ReportType
  <1>3. /\ report.with.page.loaded \in BOOLEAN /\ report.with.page.tags \subseteq Tag
        /\ IsFiniteSet(report.with.page.tags)
    BY <1>1, <1>2 DEF WithData
  <1>4. LoadVersions(versions, report.with.page) \in Config
    BY <1>3, LoadVersionsTyped DEF ConclusionsInv
  <1>5. /\ versions' \in Config /\ stage' = "ready" /\ stage # "saved"
        /\ report' = report /\ result' = result /\ added' = added
    BY <1>4 DEF LoadActualVersions
  <1> QED
    BY <1>5 DEF ConclusionsInv, Ended

\* The checks that may panic keep the invariant: A002 ...
LEMMA A002Keeps ==
  ASSUME ConclusionsInv, A002
  PROVE  ConclusionsInv'
  <1>1. report.check = "A002" /\ stage = "ready"
    BY DEF A002, At
  <1>2. PICK orders \in [1 .. 3 -> Orders(report.results)] :
          LET judged == A002Process(report.results, orders, versions, report.with.today)
          IN IF judged.panic THEN End("panicked")
             ELSE SaveReportResult(A002General(judged.result), Nothing)
    BY DEF A002
  <1> DEFINE judged == A002Process(report.results, orders, versions, report.with.today)
  <1>3. CASE judged.panic
    <2>1. End("panicked")
      BY <1>2, <1>3
    <2>2. Panicked(report, versions)
      BY <1>1, <1>3 DEF Panicked
    <2> QED
      BY <1>1, <2>1, <2>2, EndingKeeps
  <1>4. CASE ~judged.panic
    <2>1. SaveReportResult(A002General(judged.result), Nothing)
      BY <1>2, <1>4
    <2>2. A002Saved(report, versions, A002General(judged.result))
      BY <1>4 DEF A002Saved
    <2>3. Judged(report, versions, A002General(judged.result), Nothing)
      BY <1>1, <2>2 DEF Judged
    <2> QED
      BY <2>1, <2>3, SavingKeeps
  <1> QED
    BY <1>3, <1>4

\* ... and A008.
LEMMA A008Keeps ==
  ASSUME ConclusionsInv, A008
  PROVE  ConclusionsInv'
  <1>1. report.check = "A008" /\ stage = "ready"
    BY DEF A008, At
  <1>2. PICK order \in Orders(report.results) :
          LET judged == A008Process(report.results, order)
          IN IF judged.panic THEN End("panicked") ELSE SaveReportResult(judged.result, Nothing)
    BY DEF A008
  <1> DEFINE judged == A008Process(report.results, order)
  <1>3. CASE judged.panic
    <2>1. End("panicked")
      BY <1>2, <1>3
    <2>2. Panicked(report, versions)
      BY <1>1, <1>3 DEF Panicked
    <2> QED
      BY <1>1, <2>1, <2>2, EndingKeeps
  <1>4. CASE ~judged.panic
    <2>1. SaveReportResult(judged.result, Nothing)
      BY <1>2, <1>4
    <2>2. Ordered(report, judged.result)
      BY <1>1 DEF Ordered
    <2>3. Judged(report, versions, judged.result, Nothing)
      BY <1>1, <2>2 DEF Judged
    <2> QED
      BY <2>1, <2>3, SavingKeeps
  <1> QED
    BY <1>3, <1>4

\* The checks that save the result of one loop over the hosts.
LEMMA OrderedKeeps ==
  ASSUME ConclusionsInv, F002 \/ F004 \/ F005 \/ G002 \/ K000 \/ L003
  PROVE  ConclusionsInv'
  <1>1. CASE F002
    <2>1. PICK order \in Orders(report.results) : SaveReportResult(F002Process(report.results, order), Nothing)
      BY <1>1 DEF F002
    <2>2. Ordered(report, F002Process(report.results, order)) /\ report.check = "F002"
      BY <1>1 DEF F002, At, Ordered
    <2>3. Judged(report, versions, F002Process(report.results, order), Nothing)
      BY <2>2 DEF Judged
    <2> QED
      BY <2>1, <2>3, SavingKeeps
  <1>2. CASE F004
    <2>1. PICK order \in Orders(report.results) : SaveReportResult(F004Process(report.results, order), Nothing)
      BY <1>2 DEF F004
    <2>2. Ordered(report, F004Process(report.results, order)) /\ report.check = "F004"
      BY <1>2 DEF F004, At, Ordered
    <2>3. Judged(report, versions, F004Process(report.results, order), Nothing)
      BY <2>2 DEF Judged
    <2> QED
      BY <2>1, <2>3, SavingKeeps
  <1>3. CASE F005
    <2>1. PICK order \in Orders(report.results) :
            SaveReportResult(F005Process(report.results, order, TablesOf(report.with.f004)), Nothing)
      BY <1>3 DEF F005
    <2>2. Ordered(report, F005Process(report.results, order, TablesOf(report.with.f004))) /\ report.check = "F005"
      BY <1>3 DEF F005, At, Ordered
    <2>3. Judged(report, versions, F005Process(report.results, order, TablesOf(report.with.f004)), Nothing)
      BY <2>2 DEF Judged
    <2> QED
      BY <2>1, <2>3, SavingKeeps
  <1>4. CASE G002
    <2>1. PICK order \in Orders(report.results) : SaveReportResult(G002Process(report.results, order), Nothing)
      BY <1>4 DEF G002
    <2>2. Ordered(report, G002Process(report.results, order)) /\ report.check = "G002"
      BY <1>4 DEF G002, At, Ordered
    <2>3. Judged(report, versions, G002Process(report.results, order), Nothing)
      BY <2>2 DEF Judged
    <2> QED
      BY <2>1, <2>3, SavingKeeps
  <1>5. CASE K000
    <2>1. PICK order \in Orders(report.results) : SaveReportResult(K000Process(report.results, order), Nothing)
      BY <1>5 DEF K000
    <2>2. Ordered(report, K000Process(report.results, order)) /\ report.check = "K000"
      BY <1>5 DEF K000, At, Ordered
    <2>3. Judged(report, versions, K000Process(report.results, order), Nothing)
      BY <2>2 DEF Judged
    <2> QED
      BY <2>1, <2>3, SavingKeeps
  <1>6. CASE L003
    <2> DEFINE sorted == L003ProcessSortTables(report.results)
    <2>1. PICK order \in Orders(report.results) : SaveReportResult(L003Process(report.results, order), sorted)
      BY <1>6 DEF L003
    <2>2. Ordered(report, L003Process(report.results, order)) /\ report.check = "L003"
      BY <1>6 DEF L003, At, Ordered
    <2>3. Judged(report, versions, L003Process(report.results, order), sorted)
      BY <2>2 DEF Judged
    <2> QED
      BY <2>1, <2>3, SavingKeeps
  <1> QED
    BY <1>1, <1>2, <1>3, <1>4, <1>5, <1>6

\* The checks that look at the master keep the invariant.
LEMMA MasterKeeps ==
  ASSUME ConclusionsInv, H002 \/ H004 \/ F001
  PROVE  ConclusionsInv'
  <1>1. CASE H002
    <2>1. PICK master \in MasterHost(report.roles) : SaveReportResult(H002Process(report.results, master), Nothing)
      BY <1>1 DEF H002
    <2>2. OfMaster(report, H002Process(report.results, master)) /\ report.check = "H002"
      BY <1>1 DEF H002, At, OfMaster
    <2>3. Judged(report, versions, H002Process(report.results, master), Nothing)
      BY <2>2 DEF Judged
    <2> QED
      BY <2>1, <2>3, SavingKeeps
  <1>2. CASE H004
    <2>1. PICK master \in MasterHost(report.roles) : SaveReportResult(H004Process(report.results, master), Nothing)
      BY <1>2 DEF H004
    <2>2. OfMaster(report, H004Process(report.results, master)) /\ report.check = "H004"
      BY <1>2 DEF H004, At, OfMaster
    <2>3. Judged(report, versions, H004Process(report.results, master), Nothing)
      BY <2>2 DEF Judged
    <2> QED
      BY <2>1, <2>3, SavingKeeps
  <1>3. CASE F001
    <2>1. report.check = "F001" /\ stage = "ready"
      BY <1>3 DEF F001, At
    <2>2. PICK master \in GetMasterHostName(report.roles) :
            LET judged == F001Process(report.results, master)
            IN IF judged.err THEN End("discarded") ELSE SaveReportResult(judged.result, Nothing)
      BY <1>3 DEF F001
    <2> DEFINE judged == F001Process(report.results, master)
    <2>3. CASE judged.err
      <3>1. End("discarded")
        BY <2>2, <2>3
      <3> QED
        BY <2>1, <3>1, EndingKeeps
    <2>4. CASE ~judged.err
      <3>1. SaveReportResult(judged.result, Nothing)
        BY <2>2, <2>4
      <3>2. OfMaster(report, judged.result)
        BY <2>1, <2>4 DEF OfMaster
      <3>3. Judged(report, versions, judged.result, Nothing)
        BY <2>1, <3>2 DEF Judged
      <3> QED
        BY <3>1, <3>3, SavingKeeps
    <2> QED
      BY <2>3, <2>4
  <1> QED
    BY <1>1, <1>2, <1>3

\* So do those whose results are only saved if there are any.
LEMMA SettingsKeep ==
  ASSUME ConclusionsInv, F008 \/ G001
  PROVE  ConclusionsInv'
  <1>1. CASE F008
    <2>1. report.check = "F008" /\ stage = "ready"
      BY <1>1 DEF F008, At
    <2>2. PICK orders \in [1 .. 2 -> Orders(report.results)] :
            SaveUnlessEmpty(F008Process(report.results, orders, report.with.cpus, report.with.versions))
      BY <1>1 DEF F008
    <2> DEFINE outcome == F008Process(report.results, orders, report.with.cpus, report.with.versions)
    <2>3. F008Saved(report, outcome.result)
      BY DEF F008Saved
    <2>4. Judged(report, versions, outcome.result, Nothing)
      BY <2>1, <2>3 DEF Judged
    <2>5. End("discarded") \/ SaveReportResult(outcome.result, Nothing)
      BY <2>2 DEF SaveUnlessEmpty
    <2> QED
      BY <2>1, <2>4, <2>5, EndingKeeps, SavingKeeps
  <1>2. CASE G001
    <2>1. report.check = "G001" /\ stage = "ready"
      BY <1>2 DEF G001, At
    <2>2. PICK order \in Orders(report.results), master \in GetMasterHostName(report.roles) :
            SaveUnlessEmpty(G001Process(report.results, order, master, report.with.ram))
      BY <1>2 DEF G001
    <2> DEFINE outcome == G001Process(report.results, order, master, report.with.ram)
    <2>3. G001Saved(report, outcome.result)
      BY DEF G001Saved
    <2>4. Judged(report, versions, outcome.result, Nothing)
      BY <2>1, <2>3 DEF Judged
    <2>5. End("discarded") \/ SaveReportResult(outcome.result, Nothing)
      BY <2>2 DEF SaveUnlessEmpty
    <2> QED
      BY <2>1, <2>4, <2>5, EndingKeeps, SavingKeeps
  <1> QED
    BY <1>1, <1>2

\* Every step keeps the invariant.
LEMMA ConclusionsInvNext == ConclusionsInv /\ [PreprocessReportData]_conclusionVars => ConclusionsInv'
  <1> SUFFICES ASSUME ConclusionsInv, [PreprocessReportData]_conclusionVars
               PROVE  ConclusionsInv'
    OBVIOUS
  <1>1. CASE Unreadable
    BY <1>1, EndingKeeps DEF Unreadable
  <1>2. CASE LoadActualVersions
    BY <1>2, LoadKeeps
  <1>3. CASE A002 \/ A008
    BY <1>3, A002Keeps, A008Keeps
  <1>4. CASE A006
    <2>1. stage = "ready" /\ Compared(compareHostsData(report.results, report.with.hosts))
      BY <1>4 DEF A006, At
    <2> QED
      BY <2>1, ComparingKeeps
  <1>5. CASE H001
    <2>1. stage = "ready" /\ report.check # "A006" /\ Compared(prepareDropCode(report.results, report.with.hosts))
      BY <1>5 DEF H001, At
    <2> QED
      BY <2>1, ComparingKeeps
  <1>6. CASE F002 \/ F004 \/ F005 \/ G002 \/ K000 \/ L003
    BY <1>6, OrderedKeeps
  <1>7. CASE H002 \/ H004 \/ F001
    BY <1>7, MasterKeeps
  <1>8. CASE F008 \/ G001
    BY <1>8, SettingsKeep
  <1>9. CASE UNCHANGED conclusionVars
    BY <1>9 DEF ConclusionsInv, conclusionVars
  <1> QED
    BY <1>1, <1>2, <1>3, <1>4, <1>5, <1>6, <1>7, <1>8, <1>9 DEF PreprocessReportData

\* The invariant holds.
THEOREM ConclusionsInvHolds == ConclusionsSpec => []ConclusionsInv
  BY ConclusionsInvInit, ConclusionsInvNext, PTL DEF ConclusionsSpec

-----------------------------------------------------------------------------
(* What the invariant says of the saved result of each check.              *)
LEMMA ReportData ==
  ASSUME ConclusionsInv
  PROVE  /\ IsFiniteSet(DOMAIN report.results) /\ "" \notin DOMAIN report.results
         /\ IsFiniteSet(DOMAIN report.roles)
         /\ \A h \in DOMAIN report.results : HostData(report.check, report.results[h])
         /\ WithData(report.check, report.with)
  BY DEF ConclusionsInv, ReportType, IsMap

\* The result of a check with one loop is that of one order.
LEMMA SavedOrdered ==
  ASSUME ConclusionsInv, Saved({"A008", "F002", "F004", "F005", "G002", "K000", "L003"})
  PROVE  Ordered(report, result)
  <1>1. Judged(report, versions, result, added)
    BY DEF ConclusionsInv, Saved
  <1>2. report.check \notin {"A002", "F008", "G001", "H002", "H004", "F001"}
    BY DEF Saved
  <1> QED
    BY <1>1, <1>2 DEF Judged, OfMaster

\* What the lines of the file systems deserve.
FsFlags ==
  Flag(\E item \in Items("fs_data") : item.UsePercent >= 90,
       \E item \in Items("fs_data") : item.UsePercent \in 70 .. 89, FALSE)

\* A saved result of A008 has the priorities of the fullest file systems.
LEMMA A008Earns ==
  ASSUME ConclusionsInv, Saved({"A008"})
  PROVE  Verdict(result, FsFlags)
  <1>1. report.check = "A008"
    BY DEF Saved
  <1>2. PICK order \in Orders(report.results) : result = A008Process(report.results, order).result
    BY <1>1, SavedOrdered DEF Ordered, Saved
  <1>3. \A h \in DOMAIN report.results : A008Written(report.results[h])
    BY <1>1, ReportData DEF HostData
  <1> DEFINE items == UNION {Range(report.results[h]["fs_data"]) : h \in DOMAIN report.results}
  <1>4. Verdict(result, If(\E item \in items : item.UsePercent >= 90, {"P1"})
                          \cup If(\E item \in items : item.UsePercent \in 70 .. 89, {"P2"}))
    BY <1>2, <1>3, ReportData, A008Judged
  <1>5. FsFlags = If(\E item \in items : item.UsePercent >= 90, {"P1"})
                   \cup If(\E item \in items : item.UsePercent \in 70 .. 89, {"P2"})
    BY DEF FsFlags, Flag, If, Items, Hosts, Results
  <1> QED
    BY <1>4, <1>5

\* A saved result of F002 has the priority it deserves.
LEMMA F002Earns ==
  ASSUME ConclusionsInv, Saved({"F002"})
  PROVE  Verdict(result, Deserved)
  <1>1. report.check = "F002"
    BY DEF Saved
  <1>2. PICK order \in Orders(report.results) : result = F002Process(report.results, order)
    BY <1>1, SavedOrdered DEF Ordered, Saved
  <1>3. \A h \in DOMAIN report.results : F002Data(report.results[h])
    BY <1>1, ReportData DEF HostData
  <1> DEFINE full == \E h \in DOMAIN report.results :
                       \E item \in Range(report.results[h].Databases) \cup Range(report.results[h].Tables) :
                         item.CapacityUsed > 50
             any == \E item \in Items("Databases") \cup Items("Tables") : item.CapacityUsed > 50
  <1>4. Verdict(result, IF full THEN {"P1"} ELSE {})
    BY <1>2, <1>3, ReportData, F002Judged
  <1>5. full <=> any
    BY DEF Items, Hosts, Results
  <1>6. Deserved = Flag(any, FALSE, FALSE)
    BY <1>1 DEF Deserved
  <1>7. Deserved = IF full THEN {"P1"} ELSE {}
    BY <1>5, <1>6 DEF Flag
  <1> QED
    BY <1>4, <1>7

\* So has one of G002 ...
LEMMA G002Earns ==
  ASSUME ConclusionsInv, Saved({"G002"})
  PROVE  Verdict(result, Deserved)
  <1>1. report.check = "G002"
    BY DEF Saved
  <1>2. PICK order \in Orders(report.results) : result = G002Process(report.results, order)
    BY <1>1, SavedOrdered DEF Ordered, Saved
  <1>3. \A h \in DOMAIN report.results : IsMap(report.results[h], G002Connection)
    BY <1>1, ReportData DEF HostData
  <1> DEFINE old(row) == row.TxMore1h > 0 /\ row.CurrentState \in {"active", "idle in transaction"}
             found == \E h \in DOMAIN report.results : \E row \in Range(report.results[h]) : old(row)
             any == \E row \in UNION {Range(Results[h]) : h \in Hosts} : old(row)
  <1>4. Verdict(result, IF found THEN {"P1"} ELSE {})
    BY <1>2, <1>3, ReportData, G002Judged
  <1>5. found <=> any
    BY DEF Hosts, Results
  <1>6. Deserved = Flag(any, FALSE, FALSE)
    BY <1>1 DEF Deserved
  <1>7. Deserved = IF found THEN {"P1"} ELSE {}
    BY <1>5, <1>6 DEF Flag
  <1> QED
    BY <1>4, <1>7

\* ... one of K000 ...
LEMMA K000Earns ==
  ASSUME ConclusionsInv, Saved({"K000"})
  PROVE  Verdict(result, Deserved)
  <1>1. report.check = "K000"
    BY DEF Saved
  <1>2. PICK order \in Orders(report.results) : result = K000Process(report.results, order)
    BY <1>1, SavedOrdered DEF Ordered, Saved
  <1>3. \A h \in DOMAIN report.results : K000HostData(report.results[h])
    BY <1>1, ReportData DEF HostData
  <1> DEFINE found == \E h \in DOMAIN report.results : \E query \in Range(report.results[h].Queries) :
                        query.RatioTotalTime > 30
             any == \E query \in Items("Queries") : query.RatioTotalTime > 30
  <1>4. Verdict(result, IF found THEN {"P1"} ELSE {})
    BY <1>2, <1>3, ReportData, K000Judged
  <1>5. found <=> any
    BY DEF Items, Hosts, Results
  <1>6. Deserved = Flag(any, FALSE, FALSE)
    BY <1>1 DEF Deserved
  <1>7. Deserved = IF found THEN {"P1"} ELSE {}
    BY <1>5, <1>6 DEF Flag
  <1> QED
    BY <1>4, <1>7

\* ... and one of L003, whose list is counted and whose tables are all sorted.
LEMMA L003Earns ==
  ASSUME ConclusionsInv, Saved({"L003"})
  PROVE  /\ Verdict(result, Deserved)
         /\ \A s \in Conc(result) : CountedMessage(s[2])
         /\ \A h \in Hosts : Range(added[h]) = DOMAIN Results[h].Tables
  <1>1. report.check = "L003"
    BY DEF Saved
  <1>2. PICK order \in Orders(report.results) : result = L003Process(report.results, order)
    BY <1>1, SavedOrdered DEF Ordered, Saved
  <1>3. \A h \in DOMAIN report.results : L003Data(report.results[h])
    BY <1>1, ReportData DEF HostData
  <1> DEFINE found == \E h \in DOMAIN report.results : \E table \in Range(report.results[h].Tables) :
                        table.CapacityUsedPercent > 10
             any == \E table \in Items("Tables") : table.CapacityUsedPercent > 10
  <1>4. /\ Verdict(result, IF found THEN {"P1"} ELSE {})
        /\ \A s \in Conc(result) : CountedMessage(s[2])
    BY <1>2, <1>3, ReportData, L003Judged
  <1>5. found <=> any
    BY DEF Items, Hosts, Results
  <1>6. Deserved = Flag(any, FALSE, FALSE)
    BY <1>1 DEF Deserved
  <1>7. Deserved = IF found THEN {"P1"} ELSE {}
    BY <1>5, <1>6 DEF Flag
  <1>8. added = L003ProcessSortTables(report.results)
    BY <1>1 DEF ConclusionsInv, Saved, Judged
  <1>9. \A h \in Hosts : Range(added[h]) = DOMAIN Results[h].Tables
    BY <1>3, <1>8, SortedTablesProperties DEF L003ProcessSortTables, Hosts, Results
  <1> QED
    BY <1>4, <1>7, <1>9

\* A saved result of F004 or F005 has the priorities it deserves and is explained.
LEMMA BloatEarns ==
  ASSUME ConclusionsInv, Saved({"F004", "F005"})
  PROVE  BloatVerdict(result, BloatFlags)
  <1>1. BloatVerdict(result, BloatDeserved(report.results))
    <2>1. CASE report.check = "F004"
      <3>1. PICK order \in Orders(report.results) : result = F004Process(report.results, order)
        BY <2>1, SavedOrdered DEF Ordered, Saved
      <3>2. \A h \in DOMAIN report.results : F004Data(report.results[h])
        BY <2>1, ReportData DEF HostData
      <3> QED
        BY <3>1, <3>2, ReportData, F004Judged
    <2>2. CASE report.check = "F005"
      <3>1. PICK order \in Orders(report.results) :
              result = F005Process(report.results, order, TablesOf(report.with.f004))
        BY <2>2, SavedOrdered DEF Ordered, Saved
      <3>2. \A h \in DOMAIN report.results : F005Data(report.results[h])
        BY <2>2, ReportData DEF HostData
      <3> QED
        BY <3>1, <3>2, ReportData, F005Judged
    <2> QED
      BY <2>1, <2>2 DEF Saved
  <1> DEFINE all == Items("bloat")
             rows == {row \in all : row.RealSizeBytes > 1048576 /\ row.BloatRatioFactor > 0}
  <1>2. AllRows(report.results) = all
    BY DEF AllRows, Items, Hosts, Results
  <1>3. \A row \in all : row.RealSizeBytes \in Nat /\ row.BloatRatioPercent \in Nat /\ row.BloatRatioFactor \in Nat
    <2>1. report.check \in {"F004", "F005"}
      BY DEF Saved
    <2>2. \A h \in Hosts : \A row \in Range(Results[h].bloat) : row \in F004HeapBloat \cup F005IndexBloat
      BY <2>1, ReportData DEF HostData, F004Data, F005Data, IsMap, Hosts, Results
    <2>3. \A row \in all : row \in F004HeapBloat \cup F005IndexBloat
      BY <2>2 DEF Items
    <2> QED
      BY <2>3 DEF F004HeapBloat, F005IndexBloat
  <1>4. ASSUME NEW row \in all
        PROVE  /\ Critical(row) <=> (row \in rows /\ row.BloatRatioPercent >= 90)
               /\ Warning(row) <=> (row \in rows /\ row.BloatRatioPercent \in 40 .. 89)
    BY <1>3, <1>4 DEF Critical, Warning, Bloated, MIN_SIZE_TO_ANALYZE, WARNING_BLOAT_RATIO, CRITICAL_BLOAT_RATIO
  <1>5. Excess(report.results) <=> \E h \in Hosts : Results[h].total.BloatRatioPercentAvg > 20
    BY DEF Excess, CRITICAL_TOTAL_BLOAT_RATIO, Hosts, Results
  <1>6. (\E row \in all : Critical(row)) <=> \E row \in rows : row.BloatRatioPercent >= 90
    BY <1>4
  <1>7. (\E row \in all : Warning(row)) <=> \E row \in rows : row.BloatRatioPercent \in 40 .. 89
    BY <1>4
  <1>8. BloatFlags = Flag(\/ \E h \in Hosts : Results[h].total.BloatRatioPercentAvg > 20
                          \/ \E row \in rows : row.BloatRatioPercent >= 90,
                          \E row \in rows : row.BloatRatioPercent \in 40 .. 89, FALSE)
    BY DEF BloatFlags
  <1>9. BloatFlags = BloatDeserved(report.results)
    BY <1>2, <1>5, <1>6, <1>7, <1>8 DEF BloatDeserved, Flag, If
  <1> QED
    BY <1>1, <1>9

-----------------------------------------------------------------------------
(* The checks that look at the master: their priorities are those that the *)
(* report deserves if it is plain which host is the master.                *)
LEMMA AtMostOne ==
  ASSUME NEW S, IsFiniteSet(S), ~(Cardinality(S) > 1), NEW x \in S
  PROVE  S = {x}
  <1>1. Cardinality({x}) = 1 /\ {x} \in SUBSET S
    BY FS_Singleton
  <1>2. Cardinality({x}) <= Cardinality(S) /\ (Cardinality(S) = Cardinality({x}) => S = {x})
    BY <1>1, FS_Subset
  <1>3. Cardinality(S) \in Nat
    BY FS_CardinalityType
  <1> QED
    BY <1>1, <1>2, <1>3

\* The masters are finitely many.
LEMMA MastersFinite ==
  ASSUME ConclusionsInv
  PROVE  IsFiniteSet(MasterHosts)
  <1>1. MasterHosts \in SUBSET DOMAIN report.roles
    BY DEF MasterHosts
  <1> QED
    BY <1>1, ReportData, FS_Subset

\* What Found makes of the master, and what IndexFlags makes of all masters.
FoundFlags(data, count) ==
  IF count > 0 /\ data.Do # <<>> /\ data.UnDo # <<>>
  THEN IF 20 * data.IndexSizeBytesSum > data.DatabaseSizeBytes THEN {"P2"} ELSE {"P3"}
  ELSE {}

\* With one master IndexFlags are those of its indexes ...
LEMMA OneMasterFlags ==
  ASSUME NEW m \in Hosts, MasterHosts = {m}, NEW count
  PROVE  IndexFlags(count) = FoundFlags(Results[m], count[m])
  <1> DEFINE found == {h \in MasterHosts \cap Hosts : count[h] > 0 /\ Results[h].Do # <<>> /\ Results[h].UnDo # <<>>}
             large == {h \in found : 20 * Results[h].IndexSizeBytesSum > Results[h].DatabaseSizeBytes}
             any == count[m] > 0 /\ Results[m].Do # <<>> /\ Results[m].UnDo # <<>>
             big == 20 * Results[m].IndexSizeBytesSum > Results[m].DatabaseSizeBytes
  <1>1. found = IF any THEN {m} ELSE {}
    OBVIOUS
  <1>2. large = IF any /\ big THEN {m} ELSE {}
    BY <1>1
  <1>3. IndexFlags(count) = Flag(FALSE, large # {}, found # large)
    BY DEF IndexFlags
  <1>4. (large # {} <=> any /\ big) /\ (found # large <=> any /\ ~big)
    BY <1>1, <1>2
  <1>5. FoundFlags(Results[m], count[m]) = IF any THEN IF big THEN {"P2"} ELSE {"P3"} ELSE {}
    BY DEF FoundFlags
  <1> HIDE DEF found, large, any, big
  <1> QED
    BY <1>3, <1>4, <1>5 DEF Flag

\* ... and without one there are none.
LEMMA NoMasterFlags ==
  ASSUME MasterHosts = {}, NEW count
  PROVE  IndexFlags(count) = {}
  <1> DEFINE found == {h \in MasterHosts \cap Hosts : count[h] > 0 /\ Results[h].Do # <<>> /\ Results[h].UnDo # <<>>}
             large == {h \in found : 20 * Results[h].IndexSizeBytesSum > Results[h].DatabaseSizeBytes}
  <1>1. found = {} /\ large = {}
    OBVIOUS
  <1>2. IndexFlags(count) = Flag(FALSE, large # {}, found # large)
    BY DEF IndexFlags
  <1> HIDE DEF found, large
  <1> QED
    BY <1>1, <1>2 DEF Flag

\* How a saved result stands to what the report deserves.
Earned(flags) == Verdict(result, flags) /\ (~Excepted => flags = Deserved)

\* A008: they are all it deserves, unless the directories of Postgres ask for more.
LEMMA A008Earned ==
  ASSUME ConclusionsInv, Saved({"A008"})
  PROVE  \E flags : Earned(flags)
  <1>1. report.check = "A008"
    BY DEF Saved
  <1>2. ASSUME ~Excepted PROVE FsFlags = A008Flags
    <2>1. ASSUME NEW h \in Hosts, NEW item \in Range(Results[h]["db_data"])
          PROVE  /\ ~item.Fstype.network /\ isRecommendedFs(item.Fstype)
                 /\ item.UsePercent >= 70 =>
                      \E line \in Range(Results[h]["fs_data"]) : line.UsePercent = item.UsePercent
      BY <1>1, <1>2, <2>1 DEF Excepted, A008Unread
    <2>2. ASSUME NEW item \in Items("db_data")
          PROVE  /\ ~item.Fstype.network /\ isRecommendedFs(item.Fstype)
                 /\ item.UsePercent \in Int
                 /\ item.UsePercent >= 70 =>
                      \E line \in Items("fs_data") : line.UsePercent = item.UsePercent
      <3>1. PICK h \in Hosts : item \in Range(Results[h]["db_data"])
        BY DEF Items
      <3>2. A008Written(Results[h])
        BY <1>1, ReportData DEF HostData, Hosts, Results
      <3>3. item.UsePercent \in Int
        BY <3>1, <3>2 DEF A008Written, IsMap, FsItem, NoPercent, Range
      <3>4. \A line \in Range(Results[h]["fs_data"]) : line \in Items("fs_data")
        BY DEF Items
      <3> QED
        BY <2>1, <3>1, <3>3, <3>4
    <2> QED
      BY <2>2 DEF FsFlags, A008Flags, Flag
  <1>3. Deserved = A008Flags
    BY <1>1 DEF Deserved
  <1>4. Verdict(result, FsFlags)
    BY A008Earns
  <1>5. Earned(FsFlags)
    BY <1>2, <1>3, <1>4 DEF Earned
  <1> QED
    BY <1>5

\* What both checks of indexes save.
LEMMA IndexEarned ==
  ASSUME ConclusionsInv, NEW count, NEW id, NEW master \in MasterHost(report.roles),
         ~Excepted => Cardinality(MasterHosts) <= 1 /\ MasterHosts \subseteq Hosts,
         Deserved = IndexFlags(count),
         \A h \in Hosts : /\ count[h] \in Nat /\ Results[h].Do \in Seq(STRING) /\ Results[h].UnDo \in Seq(STRING)
                          /\ Results[h].IndexSizeBytesSum \in Nat /\ Results[h].DatabaseSizeBytes \in Nat,
         result = IF master \in Hosts THEN Found(Results[master], count[master], id) ELSE NoResult
  PROVE  \E flags : Earned(flags)
  <1>1. MasterHost(report.roles) = IF MasterHosts = {} THEN {""} ELSE MasterHosts
    BY DEF MasterHost, MasterHosts
  <1>2. CASE master \in Hosts
    <2> DEFINE flags == FoundFlags(Results[master], count[master])
    <2>1. Verdict(result, flags)
      BY <1>2, FoundVerdict DEF FoundFlags
    <2>2. MasterHosts # {} /\ master \in MasterHosts
      BY <1>1, <1>2, ReportData DEF Hosts, Results
    <2>3. ASSUME ~Excepted PROVE flags = Deserved
      <3>1. ~(Cardinality(MasterHosts) > 1)
        BY <2>3, MastersFinite, FS_CardinalityType
      <3>2. MasterHosts = {master}
        BY <2>2, <3>1, AtMostOne, MastersFinite
      <3> QED
        BY <3>2, <1>2, OneMasterFlags
    <2> QED
      BY <2>1, <2>3 DEF Earned
  <1>3. CASE master \notin Hosts
    <2>1. Verdict(result, {})
      BY <1>3, NoVerdict
    <2>2. ASSUME ~Excepted PROVE {} = Deserved
      <3>1. MasterHosts = {}
        BY <1>1, <1>3, <2>2
      <3> QED
        BY <3>1, NoMasterFlags
    <2> QED
      BY <2>1, <2>2 DEF Earned
  <1> QED
    BY <1>2, <1>3

\* If there are not many masters, there is at most one.
LEMMA FewMasters ==
  ASSUME ConclusionsInv, ~(Cardinality(MasterHosts) > 1)
  PROVE  Cardinality(MasterHosts) <= 1
  BY MastersFinite, FS_CardinalityType

\* A saved result of H002 has earned its priorities ...
LEMMA H002Earned ==
  ASSUME ConclusionsInv, Saved({"H002"})
  PROVE  \E flags : Earned(flags)
  <1> DEFINE count == [h \in Hosts |-> Results[h].NeverUsedIndexes]
  <1>1. report.check = "H002" /\ Judged(report, versions, result, added)
    BY DEF Saved, ConclusionsInv
  <1>2. PICK master \in MasterHost(report.roles) : result = H002Process(report.results, master)
    BY <1>1 DEF Judged, OfMaster, Ordered
  <1>3. \A h \in Hosts : Results[h] \in H002Data
    BY <1>1, ReportData DEF HostData, Hosts, Results
  <1>4. \A h \in Hosts : /\ count[h] \in Nat /\ Results[h].Do \in Seq(STRING) /\ Results[h].UnDo \in Seq(STRING)
                         /\ Results[h].IndexSizeBytesSum \in Nat /\ Results[h].DatabaseSizeBytes \in Nat
    BY <1>3 DEF H002Data
  <1>5. result = IF master \in Hosts THEN Found(Results[master], count[master], H002Ids) ELSE NoResult
    BY <1>2 DEF H002Process, Hosts, Results
  <1>6. Deserved = IndexFlags(count)
    BY <1>1 DEF Deserved
  <1>7. ~Excepted => Cardinality(MasterHosts) <= 1 /\ MasterHosts \subseteq Hosts
    BY <1>1, FewMasters DEF Excepted
  <1> HIDE DEF count
  <1> QED
    BY <1>4, <1>5, <1>6, <1>7, IndexEarned

\* ... and so has one of H004 ...
LEMMA H004Earned ==
  ASSUME ConclusionsInv, Saved({"H004"})
  PROVE  \E flags : Earned(flags)
  <1> DEFINE count == [h \in Hosts |-> Results[h].RedundantIndexes]
  <1>1. report.check = "H004" /\ Judged(report, versions, result, added)
    BY DEF Saved, ConclusionsInv
  <1>2. PICK master \in MasterHost(report.roles) : result = H004Process(report.results, master)
    BY <1>1 DEF Judged, OfMaster, Ordered
  <1>3. \A h \in Hosts : Results[h] \in H004Data
    BY <1>1, ReportData DEF HostData, Hosts, Results
  <1>4. \A h \in Hosts : /\ count[h] \in Nat /\ Results[h].Do \in Seq(STRING) /\ Results[h].UnDo \in Seq(STRING)
                         /\ Results[h].IndexSizeBytesSum \in Nat /\ Results[h].DatabaseSizeBytes \in Nat
    BY <1>3 DEF H004Data
  <1>5. result = IF master \in Hosts THEN Found(Results[master], count[master], H004Ids) ELSE NoResult
    BY <1>2 DEF H004Process, Hosts, Results
  <1>6. Deserved = IndexFlags(count)
    BY <1>1 DEF Deserved
  <1>7. ~Excepted => Cardinality(MasterHosts) <= 1 /\ MasterHosts \subseteq Hosts
    BY <1>1, FewMasters DEF Excepted
  <1> HIDE DEF count
  <1> QED
    BY <1>4, <1>5, <1>6, <1>7, IndexEarned

\* ... one of F001 ...
LEMMA F001Earned ==
  ASSUME ConclusionsInv, Saved({"F001"})
  PROVE  \E flags : Earned(flags)
  <1> DEFINE both(h, r, s) == Results[h][r] = F001Default[r] /\ Results[h][s] = F001Default[s]
             untuned(h) == \/ both(h, "vacuum_scale_factor", "vacuum_threshold")
                           \/ both(h, "analyze_scale_factor", "analyze_threshold")
                           \/ both(h, "vacuum_cost_delay", "vacuum_cost_limit")
  <1>1. report.check = "F001" /\ Judged(report, versions, result, added)
    BY DEF Saved, ConclusionsInv
  <1>2. PICK master \in GetMasterHostName(report.roles) :
          ~F001Process(report.results, master).err /\ result = F001Process(report.results, master).result
    BY <1>1 DEF Judged, OfMaster, Ordered
  <1>3. \A h \in DOMAIN report.results : report.results[h] \in F001GlobalSettings
    BY <1>1, ReportData DEF HostData
  <1> DEFINE flags == IF master \in Hosts /\ untuned(master) THEN {"P1"} ELSE {}
  <1>4. Verdict(result, flags)
    BY <1>2, <1>3, F001Judged DEF Hosts, Results
  <1>5. ASSUME ~Excepted PROVE flags = Deserved
    <2>1. Cardinality(MasterHosts) = 1 /\ MasterHosts \subseteq Hosts
      BY <1>1, <1>5 DEF Excepted
    <2>2. PICK m : MasterHosts = {m}
      BY <2>1, MastersFinite, FS_Singleton
    <2>3. GetMasterHostName(report.roles) = {m}
      BY <2>2 DEF GetMasterHostName, MasterHosts
    <2>4. master = m /\ m \in Hosts
      BY <1>2, <2>1, <2>2, <2>3
    <2>5. Deserved = Flag(\E h \in MasterHosts \cap Hosts : untuned(h), FALSE, FALSE)
      BY <1>1 DEF Deserved, F001Flags
    <2>6. (\E h \in MasterHosts \cap Hosts : untuned(h)) <=> untuned(master)
      BY <2>2, <2>4
    <2> HIDE DEF untuned
    <2>7. Deserved = IF untuned(master) THEN {"P1"} ELSE {}
      BY <2>5, <2>6 DEF Flag
    <2> QED
      BY <2>4, <2>7
  <1> HIDE DEF flags
  <1> QED
    BY <1>4, <1>5 DEF Earned

\* ... and one of F008.
LEMMA F008Earned ==
  ASSUME ConclusionsInv, Saved({"F008"})
  PROVE  \E flags : Earned(flags)
  <1> DEFINE cpus == report.with.cpus
             vs == report.with.versions
  <1>1. report.check = "F008" /\ Judged(report, versions, result, added)
    BY DEF Saved, ConclusionsInv
  <1>2. PICK orders \in [1 .. 2 -> Orders(report.results)] :
          result = F008Process(report.results, orders, cpus, vs).result
    BY <1>1 DEF Judged, OfMaster, Ordered, F008Saved
  <1>3. /\ Verdict(result, Flagged(result))
        /\ WorkersWhole(Results, cpus) /\ CostWhole(Results, vs) =>
             Flagged(result) = If(\E h \in Hosts : FewWorkers(Results, cpus, h) \/ Slowed(Results, vs, h), {"P1"})
    BY <1>2, ReportData, F008Judged DEF Hosts, Results
  <1>4. \A h \in DOMAIN vs : vs[h] \in Nat
    BY <1>1, ReportData DEF WithData, IsMap, Range
  <1>5. \A h \in Hosts : Results[h] \in F008Settings
    BY <1>1, ReportData DEF HostData, Hosts, Results
  <1>6. ASSUME F008Complete PROVE WorkersWhole(Results, cpus) /\ CostWhole(Results, vs)
    <2>1. ASSUME NEW h \in Hosts
          PROVE  /\ h \in DOMAIN cpus /\ cpus[h] # NoNumber /\ Results[h].max_workers # NoNumber
                 /\ CostRead(Results, vs, h)
      <3>1. /\ h \in DOMAIN cpus /\ h \in DOMAIN vs /\ cpus[h] # NoNumber /\ vs[h] >= 90000
            /\ Numbers(Range(Results[h]))
        BY <1>6 DEF F008Complete
      <3>2. {Results[h].max_workers, Results[h].cost_limit, Results[h].cost_delay} \subseteq Range(Results[h])
        BY <1>5 DEF F008Settings, Range
      <3> QED
        BY <3>1, <3>2, <1>4 DEF Numbers, CostRead
    <2>2. \A g, h \in DOMAIN Results : vs[g] < 120000 => vs[h] < 120000
      BY <1>6 DEF F008Complete, Hosts
    <2> QED
      BY <2>1, <2>2 DEF WorkersWhole, CostWhole, Hosts
  <1>7. ASSUME ~Excepted PROVE Flagged(result) = Deserved
    <2>1. F008Complete
      BY <1>1, <1>7 DEF Excepted
    <2>2. Deserved = Flag(\E h \in Hosts : FewWorkers(Results, cpus, h) \/ Slowed(Results, vs, h), FALSE, FALSE)
      BY <1>1 DEF Deserved, F008Flags, FewWorkers, Slowed
    <2> QED
      BY <1>3, <1>6, <2>1, <2>2 DEF Flag, If
  <1> QED
    BY <1>3, <1>7 DEF Earned

-----------------------------------------------------------------------------
(* G001: what the check compares is what the report holds, in bytes.       *)
\* What is read of a setting that has a value.
ReadOf(read, s) ==
  /\ ~read.err /\ read.v \in Nat
  /\ read.v = s.setting * (IF s.unit.of = "" THEN 1 ELSE GetUnit(s.unit))
  /\ read.v = RawIntUnitValue(s.setting, s.unit)
  /\ s.unit.of # "" => UnitValue(s.setting, s.unit) = ByteFormat(read.v, 2)

\* What getSettingValue returns tells what the setting was.
LEMMA SettingProperties ==
  ASSUME NEW settings, NEW name, NEW s \in G001Setting, s = settings[name],
         NEW read, read = getSettingValue(settings, name)
  PROVE  /\ ~read.err /\ read.v # -1 => s.setting \in Nat
         /\ s.setting = -1 => ~read.err /\ read.v = -1
         /\ s.setting \in Nat => ReadOf(read, s)
  <1> DEFINE n == s.setting  u == s.unit  k == GetUnit(u)
  <1>1. n \in Setting /\ u \in Unit
    BY DEF G001Setting
  <1>2. (u.of = "" <=> k = -1) /\ (u.of # "" => k \in Nat)
    BY <1>1, GetUnitProperties
  <1>3. read = IF n \in {Absent, NoNumber} THEN NoValue
               ELSE IF n = -1 THEN Value(-1)
               ELSE IF k = -1 THEN Value(n) ELSE Value(n * k)
    BY DEF getSettingValue
  <1>4. RawIntUnitValue(n, u) = IF n = NoNumber \/ n < 0 THEN -1
                                ELSE IF u.of = "" THEN n ELSE IF k = -1 THEN -1 ELSE n * k
    BY DEF RawIntUnitValue
  <1>5. UnitValue(n, u) = IF u.of = "" \/ n = NoNumber \/ n < 0 \/ k = -1 THEN NoSize
                          ELSE ByteFormat(n * k, 2)
    BY DEF UnitValue
  <1>6. n \in Nat \/ n \in {-1, NoNumber, Absent}
    BY <1>1 DEF Setting
  <1> HIDE DEF n, u, k
  <1>7. CASE n \notin Nat
    <2>1. n \in {-1, NoNumber, Absent}
      BY <1>6, <1>7
    <2>2. n = -1 => ~read.err /\ read.v = -1
      BY <1>3 DEF Value, NoNumber, Absent
    <2>3. n # -1 => read.err
      BY <1>3, <2>1 DEF NoValue
    <2> QED
      BY <1>7, <2>1, <2>2, <2>3 DEF n
  <1>8. CASE n \in Nat
    <2>1. n # -1 /\ n \notin {Absent, NoNumber} /\ ~(n < 0)
      BY <1>8 DEF NoNumber, Absent
    <2>2. CASE k = -1
      <3>1. read = Value(n) /\ RawIntUnitValue(n, u) = n
        BY <1>2, <1>3, <1>4, <2>1, <2>2
      <3>2. read.v = n /\ ~read.err /\ n * 1 = n
        BY <1>8, <3>1 DEF Value
      <3> QED
        BY <1>2, <1>8, <2>1, <2>2, <3>1, <3>2 DEF n, u, k, ReadOf
    <2>3. CASE k # -1
      <3>1. read = Value(n * k) /\ RawIntUnitValue(n, u) = n * k /\ UnitValue(n, u) = ByteFormat(n * k, 2)
        BY <1>2, <1>3, <1>4, <1>5, <2>1, <2>3
      <3>2. read.v = n * k /\ ~read.err
        BY <3>1 DEF Value
      <3>3. n * k \in Nat
        <4>1. k \in Nat
          BY <1>2, <2>3
        <4> QED
          BY <1>8, <4>1
      <3> QED
        BY <1>2, <1>8, <2>1, <2>3, <3>1, <3>2, <3>3 DEF n, u, k, ReadOf
    <2> QED
      BY <2>2, <2>3
  <1> QED
    BY <1>7, <1>8

\* The result of G001 is that of one order and one master.
LEMMA G001Result ==
  ASSUME ConclusionsInv, Saved({"G001"})
  PROVE  \E order \in Orders(report.results), master \in GetMasterHostName(report.roles) :
           result = G001Process(report.results, order, master, report.with.ram).result
  <1>1. report.check = "G001" /\ Judged(report, versions, result, added)
    BY DEF Saved, ConclusionsInv
  <1> QED
    BY <1>1 DEF Judged, OfMaster, Ordered, G001Saved

\* The settings and the memory that G001 reads.
LEMMA G001Typed ==
  ASSUME ConclusionsInv, Saved({"G001"})
  PROVE  /\ \A h \in Hosts : Results[h] \in [G001Name -> G001Setting]
         /\ \A h \in DOMAIN report.with.ram : report.with.ram[h] \in A001ReportRam
  <1>1. report.check = "G001"
    BY DEF Saved
  <1>2. \A h \in Hosts : Results[h] \in [G001Name -> G001Setting]
    BY <1>1, ReportData DEF HostData, Hosts, Results
  <1>3. \A h \in DOMAIN report.with.ram : report.with.ram[h] \in A001ReportRam
    BY <1>1, ReportData DEF WithData, IsMap, Range
  <1> QED
    BY <1>2, <1>3

\* When everything is known of the hosts, nothing is left out.
LEMMA SettingKnown ==
  ASSUME ConclusionsInv, Saved({"G001"}), G001Complete, NEW h \in Hosts, NEW name \in G001Name,
         Results[h][name].setting # -1
  PROVE  /\ ~getSettingValue(Results[h], name).err
         /\ SettingOf(Results, h, name) = Bytes(h, name)
         /\ Bytes(h, name) \in Nat
  <1> DEFINE s == Results[h][name]
             read == getSettingValue(Results[h], name)
  <1>1. s.setting >= 0
    BY DEF G001Complete
  <1>2. s \in G001Setting
    BY G001Typed
  <1>3. s.setting \in Setting
    BY <1>2 DEF G001Setting
  <1>4. s.setting \in Nat
    BY <1>1, <1>3 DEF Setting, NoNumber, Absent
  <1>5. ~read.err /\ read.v \in Nat /\ read.v = s.setting * (IF s.unit.of = "" THEN 1 ELSE GetUnit(s.unit))
    BY <1>2, <1>4, SettingProperties, ZenonT(60) DEF ReadOf
  <1> HIDE DEF read
  <1>6. Bytes(h, name) = read.v
    BY <1>5 DEF Bytes
  <1> QED
    BY <1>5, <1>6 DEF read, SettingOf

\* The memory of a host, if everything is known.
LEMMA MemoryKnown ==
  ASSUME ConclusionsInv, Saved({"G001"}), G001Complete, NEW h \in Hosts
  PROVE  /\ ~getHostMemTotal(report.with.ram, h).err /\ ~getHostSwapEnabled(report.with.ram, h).err
         /\ getHostMemTotal(report.with.ram, h).v = RamBytes(h)
         /\ RamBytes(h) \in Nat
  <1> DEFINE ram == report.with.ram
             mem == ram[h].MemTotal
             swap == ram[h].SwapTotal
  <1>1. h \in DOMAIN ram
    BY DEF G001Complete
  <1>2. /\ mem.words >= 2 /\ mem.value # NoNumber /\ mem.unit = [n |-> NoNumber, of |-> "kB"]
        /\ swap.value # NoNumber
    BY DEF G001Complete
  <1>3. mem \in A001Size /\ swap \in A001Size
    BY <1>1, G001Typed DEF A001ReportRam
  <1>4. mem.words \in Nat /\ mem.value \in Nat
    BY <1>2, <1>3 DEF A001Size
  <1>5. GetUnit(mem.unit) = 1024
    BY <1>2, GetUnitkB
  <1>6. getHostMemTotal(ram, h) = Value(mem.value * GetUnit(mem.unit))
    BY <1>1, <1>2, <1>4 DEF getHostMemTotal
  <1>7. getHostMemTotal(ram, h) = Value(mem.value * 1024)
    BY <1>5, <1>6
  <1>8. ~getHostSwapEnabled(ram, h).err
    BY <1>1, <1>2 DEF getHostSwapEnabled
  <1>9. RamBytes(h) = mem.value * 1024
    BY DEF RamBytes
  <1>10. mem.value * 1024 \in Nat
    BY <1>4
  <1> QED
    BY <1>7, <1>8, <1>9, <1>10 DEF Value

\* The check and the property agree on shared_buffers ...
LEMMA BuffersBad ==
  ASSUME ConclusionsInv, Saved({"G001"}), G001Complete, NEW h \in Hosts
  PROVE  BuffersWrong(Results, report.with.ram, h) <=>
           \/ Bytes(h, "shared_buffers") < 20 * RamShare(h)
           \/ Bytes(h, "shared_buffers") > 80 * RamShare(h)
  <1> DEFINE ram == report.with.ram
             b == Bytes(h, "shared_buffers")
             m == RamBytes(h)
             q == m \div 100
  <1>1. "shared_buffers" \in G001Name
    BY DEF G001Name
  <1>2. Results[h]["shared_buffers"].setting >= 0
    BY <1>1 DEF G001Complete
  <1>3. Results[h]["shared_buffers"].setting # -1
    BY <1>2
  <1>4. ~Buffers(Results, h).err /\ Buffers(Results, h).v = b /\ b \in Nat
    BY <1>1, <1>3, SettingKnown DEF Buffers, SettingOf
  <1>5. ~getHostMemTotal(ram, h).err /\ getHostMemTotal(ram, h).v = m /\ m \in Nat
    BY MemoryKnown
  <1>6. RamShare(h) = q
    BY DEF RamShare
  <1> HIDE DEF b, m
  <1>7. q \in Nat
    BY <1>5
  <1>8. Level(m, MAX_PERCENT) = q * 80 /\ Level(m, MIN_PERCENT) = q * 20
    BY <1>5 DEF Level, Quotient, MAX_PERCENT, MIN_PERCENT
  <1> HIDE DEF q
  <1>9. BuffersWrong(Results, ram, h) <=> b > q * 80 \/ b < q * 20
    BY <1>4, <1>5, <1>8 DEF BuffersWrong
  <1>10. q * 80 = 80 * q /\ q * 20 = 20 * q
    BY <1>7
  <1> QED
    BY <1>6, <1>9, <1>10 DEF b

\* ... and on the memory of the master.
LEMMA OomBad ==
  ASSUME ConclusionsInv, Saved({"G001"}), G001Complete, NEW h \in Hosts
  PROVE  OomFlag(Results, h, report.with.ram) = IF Used(h) >= (90 * RamBytes(h)) \div 100 THEN {"P1"} ELSE {}
  <1> DEFINE ram == report.with.ram
             m == RamBytes(h)
             auto == "autovacuum_work_mem"
  <1>1. ASSUME NEW name \in G001Name \ {auto}
        PROVE  ~getSettingValue(Results[h], name).err /\ SettingOf(Results, h, name) = Bytes(h, name)
               /\ Bytes(h, name) \in Nat
    <2>1. Results[h][name].setting >= 0
      BY <1>1 DEF G001Complete
    <2>2. Results[h][name].setting # -1
      BY <2>1
    <2> QED
      BY <1>1, <2>2, SettingKnown
  <1>2. auto \in G001Name /\ "maintenance_work_mem" \in G001Name \ {auto}
    BY DEF G001Name
  <1>3. AutovacuumMem(Results, h) = AutovacuumBytes(h) /\ ~getSettingValue(Results[h], auto).err
        /\ AutovacuumBytes(h) \in Nat
    <2>1. CASE Results[h][auto].setting = -1
      <3>1. Results[h][auto] \in G001Setting
        BY <1>2, G001Typed
      <3>2. ~getSettingValue(Results[h], auto).err /\ getSettingValue(Results[h], auto).v = -1
        BY <1>2, <2>1, <3>1, SettingProperties
      <3>3. AutovacuumMem(Results, h) = SettingOf(Results, h, "maintenance_work_mem")
        BY <3>2 DEF AutovacuumMem, SettingOf
      <3>4. AutovacuumBytes(h) = Bytes(h, "maintenance_work_mem")
        BY <2>1 DEF AutovacuumBytes
      <3> QED
        BY <1>1, <1>2, <3>2, <3>3, <3>4
    <2>2. CASE Results[h][auto].setting # -1
      <3>1. ~getSettingValue(Results[h], auto).err /\ SettingOf(Results, h, auto) = Bytes(h, auto)
            /\ Bytes(h, auto) \in Nat
        BY <1>2, <2>2, SettingKnown
      <3>2. SettingOf(Results, h, auto) # -1
        BY <3>1
      <3>3. AutovacuumMem(Results, h) = SettingOf(Results, h, auto)
        BY <3>2 DEF AutovacuumMem
      <3>4. AutovacuumBytes(h) = Bytes(h, auto)
        BY <2>2 DEF AutovacuumBytes
      <3> QED
        BY <3>1, <3>3, <3>4
    <2> QED
      BY <2>1, <2>2
  <1>4. ~getHostMemTotal(ram, h).err /\ ~getHostSwapEnabled(ram, h).err
        /\ getHostMemTotal(ram, h).v = m /\ m \in Nat
    BY MemoryKnown
  <1>5. ~OomUnknown(Results, h, ram)
    BY <1>1, <1>3, <1>4 DEF OomUnknown
  <1>6. {"shared_buffers", "max_connections", "work_mem", "autovacuum_max_workers"} \subseteq G001Name \ {auto}
    BY DEF G001Name
  <1>7. UsedMem(Results, h) = Used(h)
    BY <1>1, <1>3, <1>6 DEF UsedMem, Used
  <1>8. Used(h) \in Nat
    <2> DEFINE sb == Bytes(h, "shared_buffers")  mc == Bytes(h, "max_connections")
               wm == Bytes(h, "work_mem")  aw == Bytes(h, "autovacuum_max_workers")
               ab == AutovacuumBytes(h)
    <2>1. sb \in Nat /\ mc \in Nat /\ wm \in Nat /\ aw \in Nat /\ ab \in Nat
      BY <1>1, <1>3, <1>6
    <2>2. Used(h) = sb + mc * 2 * wm + ab * aw
      BY DEF Used
    <2> HIDE DEF sb, mc, wm, aw, ab
    <2>3. mc * 2 * wm \in Nat /\ ab * aw \in Nat
      BY <2>1
    <2> QED
      BY <2>1, <2>2, <2>3
  <1> HIDE DEF m
  <1>9. OOM_PERCENT * m = 90 * m /\ 90 * m \in Nat
    BY <1>4 DEF OOM_PERCENT
  <1>10. Quotient(OOM_PERCENT * m, 100) = (90 * m) \div 100
    BY <1>9 DEF Quotient
  <1>11. OomRisk(Results, h, ram) <=> ~(Used(h) < (90 * m) \div 100)
    BY <1>4, <1>7, <1>10 DEF OomRisk
  <1>12. (90 * m) \div 100 \in Int
    BY <1>9
  <1>13. OomRisk(Results, h, ram) <=> Used(h) >= (90 * m) \div 100
    BY <1>8, <1>11, <1>12
  <1> QED
    BY <1>5, <1>13 DEF OomFlag, Hosts, m

\* A saved result of G001 has earned its priority.
LEMMA G001Earned ==
  ASSUME ConclusionsInv, Saved({"G001"})
  PROVE  \E flags : Earned(flags)
  <1> DEFINE ram == report.with.ram
  <1>1. report.check = "G001"
    BY DEF Saved
  <1>2. PICK order \in Orders(report.results), master \in GetMasterHostName(report.roles) :
          result = G001Process(report.results, order, master, ram).result
    BY G001Result
  <1> DEFINE flags == BuffersFlag(Results, ram) \cup OomFlag(Results, master, ram)
  <1>3. Verdict(result, flags)
    BY <1>2, ReportData, G001Judged DEF Results
  <1>4. ASSUME ~Excepted PROVE flags = Deserved
    <2>1. G001Complete /\ ~(Cardinality(MasterHosts) > 1)
      BY <1>1, <1>4 DEF Excepted
    <2>2. MasterHosts # {} /\ MasterHosts \subseteq Hosts
      BY <2>1 DEF G001Complete
    <2>3. GetMasterHostName(report.roles) = MasterHosts
      BY <2>2 DEF GetMasterHostName, MasterHosts
    <2>4. MasterHosts = {master} /\ master \in Hosts
      BY <1>2, <2>1, <2>2, <2>3, AtMostOne, MastersFinite
    <2> DEFINE low(h) == Bytes(h, "shared_buffers") < 20 * RamShare(h) \/ Bytes(h, "shared_buffers") > 80 * RamShare(h)
               risk(h) == Used(h) >= (90 * RamBytes(h)) \div 100
    <2>5. BuffersFlag(Results, ram) = IF \E h \in Hosts : low(h) THEN {"P1"} ELSE {}
      BY <2>1, BuffersBad DEF BuffersFlag, Hosts
    <2>6. OomFlag(Results, master, ram) = IF risk(master) THEN {"P1"} ELSE {}
      BY <2>1, <2>4, OomBad
    <2>7. Deserved = Flag((\E h \in Hosts : low(h)) \/ \E h \in MasterHosts : risk(h), FALSE, FALSE)
      BY <1>1 DEF Deserved, G001Flags
    <2> HIDE DEF low, risk
    <2>8. (\E h \in MasterHosts : risk(h)) <=> risk(master)
      BY <2>4
    <2> QED
      BY <2>5, <2>6, <2>7, <2>8 DEF Flag
  <1> HIDE DEF flags
  <1> QED
    BY <1>3, <1>4 DEF Earned

-----------------------------------------------------------------------------
(* A002: what the proofs say of the results and what the properties say of *)
(* the state is the same.                                                  *)
LEMMA SameWords ==
  ASSUME NEW h
  PROVE  /\ Num(Results, h) = A002Num(h)
         /\ IsKnown(Results, versions, h) <=> Known(h)
         /\ IsBehind(Results, versions, h) <=> Behind(h)
         /\ IsMasked(Results, versions, h) <=> Masked(h)
         /\ IsEmpty(Results, versions, h) <=> Known(h) /\ BranchOf(h).MinorVersions = {}
  BY DEF Num, IsKnown, IsBehind, IsMasked, IsEmpty, Known, Behind, UpToDate, Masked, BranchOf, A002Num, Hosts

\* What A002 reads are numbers.
LEMMA A002Read ==
  ASSUME ConclusionsInv, report.check = "A002"
  PROVE  /\ report.with.today \in Nat /\ versions \in Config /\ IsFiniteSet(DOMAIN Results)
         /\ \A h \in Hosts : A002Num(h) \in Nat
         /\ \A h \in DOMAIN Results : Num(Results, h) \in Nat
  <1>1. report.with.today \in Nat
    BY ReportData DEF WithData
  <1>2. \A h \in Hosts : Results[h] \in A002ReportHostResultData
    BY ReportData DEF HostData, Hosts, Results
  <1>3. \A h \in Hosts : Results[h].ServerVersionNum \in Nat
    BY <1>2 DEF A002ReportHostResultData
  <1> QED
    BY <1>1, <1>3, ReportData DEF A002Num, Num, Hosts, Results, ConclusionsInv

\* The flags of the branch of a host, said in the words of the property.
LEMMA HostFlags ==
  ASSUME ConclusionsInv, report.check = "A002", NEW h \in Hosts
  PROVE  MajorFlags(MajorVersion(Results[h].ServerVersionNum), versions, report.with.today) =
           Flag(~Known(h) \/ BranchEnded(h), BranchEnding(h), BranchOutrun(h))
  <1> DEFINE major == MajorVersion(A002Num(h))
             today == report.with.today
             final == versions[major].FinalRelease
             latest == getLatestMajorVersionNum(versions)
  <1>1. A002Num(h) = Results[h].ServerVersionNum /\ BranchOf(h) = versions[major]
        /\ (Known(h) <=> major \in DOMAIN versions)
    BY DEF A002Num, BranchOf, Known
  <1>2. major \in Nat
    BY A002Read, VersionProperties
  <1>3. DOMAIN versions = Branches /\ latest = Max(Branches)
    BY A002Read, ConfigProperties DEF getLatestMajorVersionNum
  <1>4. Branches \in SUBSET Nat /\ Max(Branches) \in Branches /\ \A v \in Branches : Max(Branches) >= v
    BY BranchesProperties
  <1> HIDE DEF latest
  <1>5. BranchOutrun(h) <=> major \in DOMAIN versions /\ \E newer \in Branches : newer > major
    BY <1>1, <1>3 DEF BranchOutrun
  <1> HIDE DEF major
  <1>6. (\E newer \in Branches : newer > major) <=> ~(major >= latest)
    <2> DEFINE m == Max(Branches)
    <2>1. m \in Nat /\ m \in Branches /\ latest = m
      BY <1>3, <1>4
    <2>2. \A v \in Branches : v \in Nat /\ m >= v
      BY <1>4
    <2> HIDE DEF m
    <2> QED
      BY <1>2, <2>1, <2>2
  <1>7. MajorFlags(major, versions, today) =
          IF major \notin DOMAIN versions THEN {"P1"}
          ELSE SupportFlags(versions[major], today) \cup If(~(major >= latest), {"P3"})
    BY DEF MajorFlags, latest
  <1>8. SupportFlags(versions[major], today) =
          IF final <= today THEN {"P1"} ELSE IF final <= today + 10000 THEN {"P2"} ELSE {}
    BY DEF SupportFlags
  <1>9. BranchEnded(h) <=> major \in DOMAIN versions /\ final <= today
    BY <1>1 DEF BranchEnded
  <1>10. BranchEnding(h) <=> major \in DOMAIN versions /\ ~(final <= today) /\ final <= today + 10000
    BY <1>1, <1>9 DEF BranchEnding
  <1>11. MajorFlags(major, versions, today) = Flag(~Known(h) \/ BranchEnded(h), BranchEnding(h), BranchOutrun(h))
    <2> DEFINE a == final <= today  b == final <= today + 10000
    <2> HIDE DEF a, b, final
    <2>1. CASE major \notin DOMAIN versions
      BY <1>1, <1>5, <1>7, <1>9, <1>10, <2>1 DEF Flag
    <2>2. CASE major \in DOMAIN versions
      <3>1. Known(h) /\ (BranchEnded(h) <=> a) /\ (BranchEnding(h) <=> ~a /\ b) /\ (BranchOutrun(h) <=> ~(major >= latest))
        BY <1>1, <1>5, <1>6, <1>9, <1>10, <2>2 DEF a, b
      <3>2. MajorFlags(major, versions, today) =
              (IF a THEN {"P1"} ELSE IF b THEN {"P2"} ELSE {}) \cup If(~(major >= latest), {"P3"})
        BY <1>7, <1>8, <2>2 DEF a, b
      <3> DEFINE c == ~(major >= latest)
      <3> HIDE DEF c
      <3>3. MajorFlags(major, versions, today) =
              (IF a THEN {"P1"} ELSE IF b THEN {"P2"} ELSE {}) \cup If(c, {"P3"})
        BY <3>2 DEF c
      <3>4. BranchOutrun(h) <=> c
        BY <3>1 DEF c
      <3> QED
        BY <3>1, <3>3, <3>4 DEF Flag, If
    <2> QED
      BY <2>1, <2>2
  <1> QED
    BY <1>1, <1>11 DEF major

\* The flags of all three parts of A002 are A002Flags.
LEMMA AllFlags ==
  ASSUME ConclusionsInv, report.check = "A002"
  PROVE  EarlyFlags(Results, versions, report.with.today) \cup LateFlags(Results, versions) = A002Flags
  <1> DEFINE today == report.with.today
             all == AllMajorFlags(Results, versions, today)
             differ == \E g, h \in Hosts : Version(A002Num(g)) # Version(A002Num(h))
             p1 == \E h \in Hosts : ~Known(h) \/ BranchEnded(h)
             p2 == \E h \in Hosts : BranchEnding(h)
             p3 == \E h \in Hosts : BranchOutrun(h)
             late == \E h \in Hosts : Behind(h)
  <1>1. \A h \in Hosts : MajorFlags(MajorVersion(Results[h].ServerVersionNum), versions, today) =
                           Flag(~Known(h) \/ BranchEnded(h), BranchEnding(h), BranchOutrun(h))
    BY HostFlags
  <1>2. all = UNION {Flag(~Known(h) \/ BranchEnded(h), BranchEnding(h), BranchOutrun(h)) : h \in Hosts}
    BY <1>1 DEF AllMajorFlags, Hosts
  <1>3. all = Flag(p1, p2, p3)
    BY <1>2 DEF Flag
  <1>4. VersionsDiffer(Results) <=> differ
    BY DEF VersionsDiffer, A002Num, Hosts
  <1>5. Late(Results, versions) # {} <=> late
    BY SameWords DEF Late, Hosts
  <1>6. EarlyFlags(Results, versions, today) = (IF differ THEN {"P2"} ELSE {}) \cup all
    BY <1>4 DEF EarlyFlags
  <1>7. LateFlags(Results, versions) = IF late THEN {"P2"} ELSE {}
    BY <1>5 DEF LateFlags
  <1>8. A002Flags = Flag(p1, differ \/ \E h \in Hosts : BranchEnding(h) \/ Behind(h), p3)
    BY DEF A002Flags
  <1>9. A002Flags = Flag(p1, differ \/ p2 \/ late, p3)
    BY <1>8
  <1> HIDE DEF all, differ, p1, p2, p3, late
  <1> QED
    BY <1>3, <1>6, <1>7, <1>9 DEF Flag

\* The result of A002 is explained and names what is out of date.
LEMMA A002Named ==
  ASSUME ConclusionsInv, Saved({"A002"})
  PROVE  Names(result, EarlyFlags(Results, versions, report.with.today), Results, versions)
  <1>1. report.check = "A002" /\ Judged(report, versions, result, added)
    BY DEF Saved, ConclusionsInv
  <1>2. PICK orders \in [1 .. 3 -> Orders(report.results)] :
          /\ ~A002Process(report.results, orders, versions, report.with.today).panic
          /\ result = A002General(A002Process(report.results, orders, versions, report.with.today).result)
    BY <1>1 DEF Judged, OfMaster, Ordered, A002Saved
  <1> QED
    BY <1>1, <1>2, A002Read, A002Judged DEF Results

\* A saved result of A002 has earned its priorities.
LEMMA A002Earned ==
  ASSUME ConclusionsInv, Saved({"A002"}), ~Excepted
  PROVE  Flagged(result) = Deserved
  <1>1. report.check = "A002"
    BY DEF Saved
  <1>2. NoneMasked(Results, versions)
    BY <1>1, SameWords DEF Excepted, NoneMasked, Hosts
  <1>3. Flagged(result) = EarlyFlags(Results, versions, report.with.today) \cup LateFlags(Results, versions)
    BY <1>2, A002Named DEF Names
  <1>4. Deserved = A002Flags
    BY <1>1 DEF Deserved
  <1> QED
    BY <1>1, <1>3, <1>4, AllFlags

-----------------------------------------------------------------------------
(* What is said, as the properties ask it.                                 *)
LEMMA MessagesSaid ==
  ASSUME NEW r, Typed(r)
  PROVE  /\ r.Conclusions = <<>> <=> Conc(r) = {}
         /\ r.Recommendations = <<>> <=> Recs(r) = {}
         /\ \A id : id \in Ids(r.Conclusions) <=> Says(Conc(r), id)
         /\ \A id : id \in Ids(r.Recommendations) <=> Says(Recs(r), id)
         /\ \A id, m : m \in Messages(r.Conclusions, id) <=> \E s \in Conc(r) : s[1] = id /\ s[2] = m
         /\ \A id, m : m \in Messages(r.Recommendations, id) <=> \E s \in Recs(r) : s[1] = id /\ s[2] = m
  <1>1. PICK S : WellFormed(S) /\ r \in ResultOf(S)
    BY DEF Typed
  <1>2. r.Conclusions \in Seq(S) /\ r.Recommendations \in Seq(S)
    BY <1>1 DEF ResultOf
  <1>3. /\ r.Conclusions = <<>> <=> Conc(r) = {}
        /\ Ids(r.Conclusions) = {s[1] : s \in Conc(r)}
        /\ \A id : Messages(r.Conclusions, id) = {s[2] : s \in {t \in Conc(r) : t[1] = id}}
    BY <1>2, SaidProperties DEF Conc
  <1>4. /\ r.Recommendations = <<>> <=> Recs(r) = {}
        /\ Ids(r.Recommendations) = {s[1] : s \in Recs(r)}
        /\ \A id : Messages(r.Recommendations, id) = {s[2] : s \in {t \in Recs(r) : t[1] = id}}
    BY <1>2, SaidProperties DEF Recs
  <1>5. \A id : id \in Ids(r.Conclusions) <=> Says(Conc(r), id)
    BY <1>3 DEF Says
  <1>6. \A id : id \in Ids(r.Recommendations) <=> Says(Recs(r), id)
    BY <1>4 DEF Says
  <1>7. \A id, m : m \in Messages(r.Conclusions, id) <=> \E s \in Conc(r) : s[1] = id /\ s[2] = m
    BY <1>3
  <1>8. \A id, m : m \in Messages(r.Recommendations, id) <=> \E s \in Recs(r) : s[1] = id /\ s[2] = m
    BY <1>4
  <1> QED
    BY <1>3, <1>4, <1>5, <1>6, <1>7, <1>8

\* The checks but A002, F004 and F005 earn their priorities by the verdicts.
Plain == {"A008", "H002", "H004", "F001", "F002", "F008", "G001", "G002", "K000", "L003"}

\* All of them have earned their priorities.
LEMMA PlainEarned ==
  ASSUME ConclusionsInv, Saved(Plain)
  PROVE  \E flags : Earned(flags)
  <1>1. CASE report.check = "A008"
    BY <1>1, A008Earned DEF Saved
  <1>2. CASE report.check \in {"F002", "G002", "K000", "L003"}
    <2>1. Verdict(result, Deserved)
      BY <1>2, F002Earns, G002Earns, K000Earns, L003Earns DEF Saved
    <2> QED
      BY <2>1 DEF Earned
  <1>3. CASE report.check \in {"H002", "H004", "F001", "F008", "G001"}
    BY <1>3, H002Earned, H004Earned, F001Earned, F008Earned, G001Earned DEF Saved
  <1> QED
    BY <1>1, <1>2, <1>3, SMTT(30) DEF Saved, Plain

\* These are the checks that save a result.
LEMMA SavedChecks ==
  ASSUME ConclusionsInv, stage = "saved"
  PROVE  report.check \in Plain \cup {"A002", "F004", "F005"}
  <1>1. Judged(report, versions, result, added)
    BY DEF ConclusionsInv
  <1> QED
    BY <1>1 DEF Judged, Ordered, OfMaster, Plain

\* The result is well-formed at any time.
LEMMA ResultTyped ==
  ASSUME ConclusionsInv
  PROVE  Typed(result)
  <1>1. CASE stage # "saved"
    BY <1>1, NoResultTyped DEF ConclusionsInv
  <1>2. CASE stage = "saved"
    <2>1. CASE report.check \in Plain
      BY <1>2, <2>1, PlainEarned DEF Saved, Earned, Verdict
    <2>2. CASE report.check = "A002"
      BY <1>2, <2>2, A002Named DEF Saved, Names, Explains
    <2>3. CASE report.check \in {"F004", "F005"}
      BY <1>2, <2>3, BloatEarns DEF Saved, BloatVerdict
    <2> QED
      BY <1>2, <2>1, <2>2, <2>3, SavedChecks
  <1> QED
    BY <1>1, <1>2

\* The invariant implies the properties: types,
LEMMA TypeFollows == ConclusionsInv => ConclusionsTypeOK
  <1> SUFFICES ASSUME ConclusionsInv
               PROVE  ConclusionsTypeOK
    OBVIOUS
  <1>1. PICK S : WellFormed(S) /\ result \in ResultOf(S)
    BY ResultTyped DEF Typed
  <1>2. \A p \in Priority : result[p] \in BOOLEAN
    BY <1>1 DEF ResultOf, Priority
  <1>3. result["Conclusions"] \in Seq(S) /\ result["Recommendations"] \in Seq(S)
    BY <1>1 DEF ResultOf
  <1>4. \A list \in {"Conclusions", "Recommendations"} : \A i \in DOMAIN result[list] :
          DOMAIN result[list][i] = {"Id", "Message"} /\ Len(result[list][i].Message) > 0
    <2> TAKE list \in {"Conclusions", "Recommendations"}
    <2> TAKE i \in DOMAIN result[list]
    <2>1. result[list] \in Seq(S)
      BY <1>3
    <2>2. result[list][i] \in S
      BY <2>1, ElementOfSeq
    <2> QED
      BY <1>1, <2>2 DEF WellFormed
  <1> QED
    BY <1>2, <1>4 DEF ConclusionsInv, ConclusionsTypeOK

\* the priorities,
LEMMA PrioritiesFollow == ConclusionsInv => Priorities
  <1> SUFFICES ASSUME ConclusionsInv, stage = "saved", ~Excepted
               PROVE  Flagged(result) = Deserved
    BY DEF Priorities, Flags, Flagged
  <1>1. CASE report.check \in Plain
    BY <1>1, PlainEarned DEF Saved, Earned, Verdict
  <1>2. CASE report.check = "A002"
    BY <1>2, A002Earned DEF Saved
  <1>3. CASE report.check \in {"F004", "F005"}
    <2>1. Flagged(result) = BloatFlags
      BY <1>3, BloatEarns DEF Saved, BloatVerdict
    <2>2. Deserved = BloatFlags
      BY <1>3 DEF Deserved
    <2> QED
      BY <2>1, <2>2
  <1> QED
    BY <1>1, <1>2, <1>3, SavedChecks

\* that they are explained,
LEMMA ExplainedFollows == ConclusionsInv => Explained
  <1> SUFFICES ASSUME ConclusionsInv, stage = "saved"
               PROVE  Explained
    BY DEF Explained
  <1> DEFINE c == Conc(result) # {}
             r == Recs(result) # {}
  <1>1. Flags = Flagged(result)
    BY DEF Flags, Flagged
  <1>2. (result.Conclusions # <<>> <=> c) /\ (result.Recommendations # <<>> <=> r)
    BY ResultTyped, MessagesSaid
  <1>3. CASE report.check \in Plain
    <2>1. (Flags # {} => c /\ r) /\ (Flags = {} => ~r)
      BY <1>1, <1>3, PlainEarned DEF Saved, Earned, Verdict
    <2>2. ~Saved({"F004", "F005"}) /\ ("P1" \in Flags => Flags # {})
      BY <1>3 DEF Saved, Plain
    <2> QED
      BY <1>2, <2>1, <2>2 DEF Explained
  <1>4. CASE report.check = "A002"
    <2>1. Explains(result)
      BY <1>4, A002Named DEF Saved, Names
    <2>2. (Flags # {} => c) /\ ("P1" \in Flags => r) /\ (r => Flags # {})
      BY <1>1, <2>1 DEF Explains
    <2>3. ~Saved({"F004", "F005"})
      BY <1>4 DEF Saved
    <2> QED
      BY <1>2, <1>4, <2>2, <2>3 DEF Explained
  <1>5. CASE report.check \in {"F004", "F005"}
    <2>1. Saved({"F004", "F005"})
      BY <1>5 DEF Saved
    <2>2. BloatVerdict(result, Flags)
      BY <1>1, <2>1, BloatEarns DEF BloatVerdict
    <2>3. /\ Flags # {} => c /\ r
          /\ "P2" \in Flags <=> Says(Conc(result), "BLOAT_WARNING")
          /\ Flags = {"P2"} <=> Says(Recs(result), "BLOAT_WARNING")
          /\ "P1" \in Flags => Says(Recs(result), "BLOAT_INFO")
      BY <2>2 DEF BloatVerdict
    <2>4. /\ \A id : id \in Ids(result.Conclusions) <=> Says(Conc(result), id)
          /\ \A id : id \in Ids(result.Recommendations) <=> Says(Recs(result), id)
      BY ResultTyped, MessagesSaid
    <2>5. "P1" \in Flags => Flags # {}
      OBVIOUS
    <2> HIDE DEF c, r
    <2> QED
      BY <1>2, <1>5, <2>1, <2>3, <2>4, <2>5 DEF Explained
  <1> QED
    BY <1>3, <1>4, <1>5, SavedChecks

\* The messages of an id are what the result says under it.
LEMMA MessagesOf ==
  ASSUME NEW r, Typed(r), NEW id
  PROVE  /\ Messages(r.Conclusions, id) = {s[2] : s \in {t \in Conc(r) : t[1] = id}}
         /\ Messages(r.Recommendations, id) = {s[2] : s \in {t \in Recs(r) : t[1] = id}}
  <1>1. PICK S : WellFormed(S) /\ r \in ResultOf(S)
    BY DEF Typed
  <1>2. r.Conclusions \in Seq(S) /\ r.Recommendations \in Seq(S)
    BY <1>1 DEF ResultOf
  <1> QED
    BY <1>2, SaidProperties DEF Conc, Recs

\* So each of them is said.
LEMMA SaidMessage ==
  ASSUME NEW r, Typed(r), NEW id, NEW m \in Messages(r.Conclusions, id)
  PROVE  \E s \in Conc(r) : s[1] = id /\ s[2] = m
  <1>1. Messages(r.Conclusions, id) = {s[2] : s \in {t \in Conc(r) : t[1] = id}}
    BY MessagesOf
  <1> QED
    BY <1>1

\* The invariant implies that lists are complete or cut with a mark,
LEMMA ListedFollows == ConclusionsInv => Listed
  <1> SUFFICES ASSUME ConclusionsInv, Saved({"F004", "F005", "L003"})
               PROVE  Listed
    BY DEF Listed
  <1>1. ASSUME NEW m \in Counted
        PROVE  \E s \in Conc(result) : s[1] \in CountedIds /\ s[2] = m
    <2>1. PICK id \in CountedIds : m \in Messages(result.Conclusions, id)
      BY DEF Counted, CountedIds
    <2> QED
      BY <2>1, ResultTyped, SaidMessage
  <1>2. ASSUME Saved({"F004", "F005"})
        PROVE  Complete(Conc(result), Recs(result))
    BY <1>2, BloatEarns DEF BloatVerdict
  <1>3. \A m \in Counted : CountedMessage(m)
    <2>1. CASE report.check = "L003"
      <3>1. \A s \in Conc(result) : CountedMessage(s[2])
        BY <2>1, L003Earns DEF Saved
      <3> QED
        BY <1>1, <3>1
    <2>2. CASE report.check \in {"F004", "F005"}
      <3>1. Complete(Conc(result), Recs(result))
        BY <1>2, <2>2 DEF Saved
      <3>2. \A s \in Conc(result) : s[1] \in CountedIds => CountedMessage(s[2])
        BY <3>1 DEF Complete
      <3> QED
        BY <1>1, <3>2
    <2> QED
      BY <2>1, <2>2 DEF Saved
  <1>4. \A m \in Counted : \/ Len(m[2]) = m[1]
                           \/ m[1] > Len(m[2]) /\ Last(m[2]) = MSG_ETC_ITEM /\ Len(m[2]) = 6
    BY <1>3, CountedMessageListed
  <1>5. ASSUME Saved({"F004", "F005"}), NEW m \in Counted, NEW name \in Range(m[2]) \ {MSG_ETC_ITEM}
        PROVE  \E id \in BloatLists : \E all \in Messages(result.Recommendations, id) : name \in Range(all[1])
    <2>1. PICK s \in Conc(result) : s[1] \in CountedIds /\ s[2] = m
      BY <1>1
    <2>2. name \in Range(s[2][2]) \ {MSG_ETC_ITEM}
      BY <2>1
    <2>3. PICK t \in Recs(result) : t[1] \in BloatLists /\ name \in Range(t[2][1])
      BY <1>2, <1>5, <2>1, <2>2 DEF Complete
    <2>4. t[2] \in Messages(result.Recommendations, t[1])
      <3>1. Messages(result.Recommendations, t[1]) = {x[2] : x \in {u \in Recs(result) : u[1] = t[1]}}
        BY ResultTyped, MessagesOf
      <3> QED
        BY <2>3, <3>1
    <2> QED
      BY <2>3, <2>4
  <1>6. Saved({"L003"}) => \A h \in Hosts : Range(added[h]) = DOMAIN Results[h].Tables
    BY L003Earns
  <1> QED
    BY <1>4, <1>5, <1>6 DEF Listed, BloatLists

\* that A002 names the versions out of date,
LEMMA OutdatedFollows == ConclusionsInv => OutdatedNamed
  <1> SUFFICES ASSUME ConclusionsInv
               PROVE  OutdatedNamed
    OBVIOUS
  <1>1. ASSUME stage = "panicked"
        PROVE  \E h \in Hosts : Known(h) /\ BranchOf(h).MinorVersions = {}
    <2>1. Panicked(report, versions)
      BY <1>1 DEF ConclusionsInv
    <2>2. report.check # "A008"
      <3> SUFFICES ASSUME report.check = "A008"
                   PROVE  FALSE
        OBVIOUS
      <3>1. PICK order \in Orders(report.results) : A008Process(report.results, order).panic
        BY <2>1 DEF Panicked
      <3>2. \A h \in DOMAIN report.results : A008Written(report.results[h])
        BY ReportData DEF HostData
      <3> QED
        BY <3>1, <3>2, ReportData, A008Judged
    <2>3. PICK orders \in [1 .. 3 -> Orders(report.results)] :
            A002Process(report.results, orders, versions, report.with.today).panic
      BY <2>1, <2>2 DEF Panicked
    <2>4. report.check = "A002"
      BY <2>1, <2>2 DEF Panicked
    <2>5. \E h \in DOMAIN Results : IsEmpty(Results, versions, h)
      BY <2>3, <2>4, A002Read, A002Judged DEF Results
    <2> QED
      BY <2>5, SameWords DEF Hosts
  <1>2. ASSUME Saved({"A002"})
        PROVE  LET named == UNION {m[1] : m \in Messages(result.Conclusions, "A002_NOT_LAST_MINOR_VERSION")}
                   behind == {h \in Hosts : Behind(h)}
                   version(H) == {Version(A002Num(h)) : h \in H}
               IN /\ named \subseteq version(behind)
                  /\ version({h \in behind : ~Masked(h)}) \subseteq named
    <2> DEFINE messages == Messages(result.Conclusions, Named)
               late == {Version(A002Num(h)) : h \in {g \in Hosts : Behind(g)}}
    <2>1. NamesVersions(result, Results, versions)
      BY <1>2, A002Named DEF Names
    <2>2. \A m : m \in messages <=> \E s \in Conc(result) : s[1] = Named /\ s[2] = m
      <3> DEFINE id == Named
      <3> HIDE DEF id
      <3>1. Messages(result.Conclusions, id) = {s[2] : s \in {t \in Conc(result) : t[1] = id}}
        BY ResultTyped, MessagesOf
      <3>2. \A m : m \in Messages(result.Conclusions, id) <=> \E s \in Conc(result) : s[1] = id /\ s[2] = m
        BY <3>1
      <3> QED
        BY <3>2 DEF id
    <2>3. Late(Results, versions) = late
      BY SameWords DEF Late, Hosts
    <2> HIDE DEF messages, late
    <2>4. \A m \in messages : m[1] \subseteq late
      BY <2>1, <2>2, <2>3 DEF NamesVersions
    <2>5. ASSUME NEW h \in Hosts, Behind(h), ~Masked(h)
          PROVE  \E m \in messages : Version(A002Num(h)) \in m[1]
      <3>1. IsBehind(Results, versions, h) /\ ~IsMasked(Results, versions, h) /\ Num(Results, h) = A002Num(h)
        BY <2>5, SameWords
      <3>2. PICK s \in Conc(result) : s[1] = Named /\ Version(A002Num(h)) \in s[2][1]
        BY <2>1, <3>1, SMTT(30) DEF NamesVersions, Hosts
      <3> QED
        BY <2>2, <3>2
    <2> QED
      BY <2>4, <2>5 DEF messages, late, Named
  <1> QED
    BY <1>1, <1>2 DEF OutdatedNamed

\* that the rows of the comparison are aligned,
LEMMA AlignedFollows == ConclusionsInv => DiffAligned
  <1> SUFFICES ASSUME ConclusionsInv, stage = "compared", report.check = "A006"
               PROVE  DiffAligned
    BY Zenon DEF DiffAligned
  <1> DEFINE hosts == report.with.hosts
             all == <<hosts.master>> \o hosts.replicas
  <1>1. added = compareHostsData(report.results, hosts)
    BY DEF ConclusionsInv
  <1>2. A006Results(report.results) /\ hosts.replicas \in Seq(STRING)
    BY ReportData DEF HostData, WithData, A006Results
  <1>3. ASSUME NEW s \in Section, NEW name \in DOMAIN added[s]
        PROVE  /\ Len(added[s][name]) = Len(all)
               /\ \A i \in DOMAIN all :
                    added[s][name][i] = IF i = 1 \/ HasData(Own(Results, all[i], s, name))
                                        THEN Own(Results, all[i], s, name) ELSE Blank
               /\ \E i \in DOMAIN all : added[s][name][i] # added[s][name][1]
    <2> DEFINE compared == compareHostsData(Results, hosts)
    <2>1. added = compared /\ A006Results(Results)
      BY <1>1, <1>2 DEF Results
    <2>2. name \in DOMAIN compared[s]
      BY <2>1
    <2>3. Aligned(compared[s][name], Results, all, s, name)
      BY <1>2, <2>1, <2>2, A006Compared, SMTT(30)
    <2> HIDE DEF compared, all
    <2> QED
      BY <2>1, <2>3 DEF Aligned
  <1> HIDE DEF all
  <1>4. DiffAligned <=>
          \A s \in Section : \A name \in DOMAIN added[s] :
            /\ Len(added[s][name]) = Len(all)
            /\ \A i \in DOMAIN all :
                 added[s][name][i] = IF i = 1 \/ HasData(Own(Results, all[i], s, name))
                                     THEN Own(Results, all[i], s, name) ELSE Blank
            /\ \E i \in DOMAIN all : added[s][name][i] # added[s][name][1]
    BY SMTT(30) DEF DiffAligned, Own, Hosts, all
  <1> QED
    BY <1>3, <1>4, SMTT(30)

\* and that the sizes agree.
LEMMA SizesFollow == ConclusionsInv => SizesAgree
  <1> SUFFICES ASSUME ConclusionsInv, Saved({"G001"})
               PROVE  SizesAgree
    BY DEF SizesAgree
  <1>1. AllSaid(result, Results)
    <2>1. PICK order \in Orders(report.results), master \in GetMasterHostName(report.roles) :
            result = G001Process(report.results, order, master, report.with.ram).result
      BY G001Result
    <2> QED
      BY <2>1, ReportData, G001Judged DEF Results
  <1>2. ASSUME NEW m \in Messages(result.Conclusions, NotOptimal)
        PROVE  BuffersSaid(m, Results)
    <2>1. PICK s \in Conc(result) : s[1] = NotOptimal /\ s[2] = m
      BY ResultTyped, SaidMessage, SMTT(30)
    <2> QED
      BY <1>1, <2>1, SMTT(30) DEF AllSaid
  <1>3. ASSUME NEW m \in Messages(result.Conclusions, NotOptimal), NEW i \in DOMAIN m[1]
        PROVE  LET said == m[1][i]
                   s == Results[said.host]["shared_buffers"]
                   bytes == RawIntUnitValue(s.setting, s.unit)
                   part == Ki(said.set.unit)
               IN /\ s.unit.of # "" => said.set = UnitValue(s.setting, s.unit)
                  /\ said.set.number * part >= 100 * bytes
                  /\ said.set.number * part < 100 * bytes + part
    <2> DEFINE said == m[1][i]
               h == said.host
               s == Results[h]["shared_buffers"]
               read == Buffers(Results, h)
               bytes == RawIntUnitValue(s.setting, s.unit)
    <2>1. h \in DOMAIN Results /\ ~read.err /\ read.v # -1 /\ said.set = ByteFormat(read.v, 2)
      BY <1>2, <1>3 DEF BuffersSaid
    <2>2. s \in G001Setting
      BY <2>1, G001Typed DEF Hosts, G001Name
    <2> HIDE DEF said, h
    <2>3. read = getSettingValue(Results[h], "shared_buffers")
      BY DEF Buffers
    <2>4. s.setting \in Nat
      BY <2>1, <2>2, <2>3, SettingProperties
    <2>5. read.v \in Nat /\ read.v = bytes /\ (s.unit.of # "" => UnitValue(s.setting, s.unit) = ByteFormat(read.v, 2))
      <3>1. ReadOf(read, s)
        BY <2>2, <2>3, <2>4, SettingProperties
      <3> QED
        BY <3>1 DEF ReadOf
    <2> HIDE DEF read, s, bytes
    <2>6. /\ said.set.number * Ki(said.set.unit) >= 100 * read.v
          /\ said.set.number * Ki(said.set.unit) < 100 * read.v + Ki(said.set.unit)
      BY <2>1, <2>5, ByteFormatProperties
    <2>7. /\ s.unit.of # "" => said.set = UnitValue(s.setting, s.unit)
          /\ said.set.number * Ki(said.set.unit) >= 100 * bytes
          /\ said.set.number * Ki(said.set.unit) < 100 * bytes + Ki(said.set.unit)
      BY <2>1, <2>5, <2>6, Zenon
    <2> QED
      BY <2>7, Zenon DEF said, h, s, bytes
  <1> QED
    BY <1>3, ZenonT(60) DEF SizesAgree, NotOptimal

-----------------------------------------------------------------------------
\* Types: every result that is saved is well-formed (AppendConclusion,
\* AppendRecommendation).
THEOREM ConclusionsTyped == ConclusionsSpec => []ConclusionsTypeOK
  BY ConclusionsInvHolds, TypeFollows, PTL

\* The priorities do not depend on the order of a loop.
THEOREM PrioritiesHold == ConclusionsSpec => []Priorities
  BY ConclusionsInvHolds, PrioritiesFollow, PTL

\* No priority is raised silently.
THEOREM ExplainedHolds == ConclusionsSpec => []Explained
  BY ConclusionsInvHolds, ExplainedFollows, PTL

\* Counted lists are complete or say that they are not.
THEOREM ListedHolds == ConclusionsSpec => []Listed
  BY ConclusionsInvHolds, ListedFollows, PTL

\* The versions that are out of date are named.
THEOREM OutdatedNamedHolds == ConclusionsSpec => []OutdatedNamed
  BY ConclusionsInvHolds, OutdatedFollows, PTL

\* The rows of the comparison have a cell for every column.
THEOREM DiffAlignedHolds == ConclusionsSpec => []DiffAligned
  BY ConclusionsInvHolds, AlignedFollows, PTL

\* The sizes of the table and of the conclusion agree.
THEOREM SizesAgreeHolds == ConclusionsSpec => []SizesAgree
  BY ConclusionsInvHolds, SizesFollow, PTL

=============================================================================
