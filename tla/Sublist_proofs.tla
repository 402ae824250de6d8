---------------------------- MODULE Sublist_proofs ----------------------------
(***************************************************************************)
(* Sublist, for every sequence and every set.                              *)
(*                                                                         *)
(* A recursive function is a CHOOSE for tlapm: KeptExists shows that there *)
(* is one with its equation. What holds for every number up to n is shown  *)
(* with UpTo, which is induction for a set of numbers; the induction       *)
(* theorems of the library are about an operator.                          *)
(***************************************************************************)
EXTENDS Sublist, SequenceTheorems, WellFoundedInduction, TLAPS

\* A set of natural numbers has a least element.
LEMMA Least ==
  ASSUME NEW T \in SUBSET Nat, T # {}
  PROVE  \E x \in T : \A y \in T : x <= y
  <1>1. PICK x \in T : \A y \in T : ~ (<<y, x>> \in OpToRel(<, Nat))
    BY WFMin, NatLessThanWellFounded
  <1>2. ASSUME NEW y \in T PROVE x <= y
    <2>1. CASE y < x
      <3>1. <<y, x>> \in OpToRel(<, Nat)
        BY <2>1, Zenon DEF OpToRel
      <3> QED
        BY <1>1, <3>1
    <2> QED
      BY <2>1
  <1> QED
    BY <1>2

\* Induction, for a set: if 0 is in G, and with every number below n the next
\* one, then n is.
LEMMA UpTo ==
  ASSUME NEW n \in Nat, NEW G, 0 \in G, \A k \in 0 .. n - 1 : k \in G => k + 1 \in G
  PROVE  n \in G
  <1> DEFINE Bad == {k \in 0 .. n : k \notin G}
  <1> SUFFICES ASSUME Bad # {} PROVE FALSE
    OBVIOUS
  <1>1. Bad \in SUBSET Nat
    OBVIOUS
  <1>2. PICK k \in Bad : \A y \in Bad : k <= y
    BY <1>1, Least
  <1>3. k \in 0 .. n /\ k # 0 /\ k \notin G
    BY <1>2
  <1>4. k - 1 \in 0 .. n - 1 /\ k - 1 \notin Bad /\ (k - 1) + 1 = k
    BY <1>2, <1>3
  <1>5. k - 1 \in G
    BY <1>4
  <1> QED
    BY <1>3, <1>4, <1>5

\* The equation of the function kept in Sublist: F[i] is what is kept of the
\* first i elements.
Kept(s, t, n, F) ==
  F = [i \in 0 .. n |-> IF i = 0 THEN <<>>
                        ELSE IF s[i] \in t THEN Append(F[i - 1], s[i]) ELSE F[i - 1]]

\* There is such a function, for every length.
LEMMA KeptExists ==
  ASSUME NEW s, NEW t, NEW n \in Nat
  PROVE  \E F : Kept(s, t, n, F)
  <1> DEFINE Good == {k \in Nat : \E F : Kept(s, t, k, F)}
  <1>1. Kept(s, t, 0, [i \in 0 .. 0 |-> <<>>])
    BY DEF Kept
  <1>2. ASSUME NEW k \in Nat, NEW F, Kept(s, t, k, F)
        PROVE  \E G : Kept(s, t, k + 1, G)
    <2> DEFINE new == IF s[k + 1] \in t THEN Append(F[k], s[k + 1]) ELSE F[k]
               G == [i \in 0 .. k + 1 |-> IF i = k + 1 THEN new ELSE F[i]]
    <2>1. \A i \in 0 .. k : F[i] = IF i = 0 THEN <<>>
                                   ELSE IF s[i] \in t THEN Append(F[i - 1], s[i]) ELSE F[i - 1]
      BY <1>2 DEF Kept
    <2>2. \A i \in 0 .. k : G[i] = F[i]
      OBVIOUS
    <2>3. ASSUME NEW i \in 0 .. k + 1
          PROVE  G[i] = IF i = 0 THEN <<>>
                        ELSE IF s[i] \in t THEN Append(G[i - 1], s[i]) ELSE G[i - 1]
      <3>1. CASE i = k + 1
        BY <2>2, <3>1
      <3>2. CASE i = 0
        BY <2>1, <2>2, <3>2
      <3>3. CASE i \in 1 .. k
        <4>1. i \in 0 .. k /\ i - 1 \in 0 .. k /\ i # 0
          BY <3>3
        <4> HIDE DEF G
        <4> QED
          BY <4>1, <2>1, <2>2
      <3> QED
        BY <3>1, <3>2, <3>3
    <2>4. Kept(s, t, k + 1, G)
      BY <2>3 DEF Kept
    <2> QED
      BY <2>4
  <1>3. 0 \in Good /\ \A k \in 0 .. n - 1 : k \in Good => k + 1 \in Good
    BY <1>1, <1>2
  <1> HIDE DEF Good
  <1>4. n \in Good
    BY <1>3, UpTo
  <1> QED
    BY <1>4 DEF Good

\* Sublist is its last value.
LEMMA SublistIsKept ==
  ASSUME NEW S, NEW s \in Seq(S), NEW t
  PROVE  \E F : Kept(s, t, Len(s), F) /\ Sublist(s, t) = F[Len(s)]
  <1> DEFINE G == CHOOSE F : Kept(s, t, Len(s), F)
  <1>1. Sublist(s, t) = G[Len(s)]
    BY Zenon DEF Sublist, Kept
  <1>2. Kept(s, t, Len(s), G)
    BY KeptExists
  <1> QED
    BY <1>1, <1>2

\* Sublist keeps the elements in the set, all of them and nothing else.
LEMMA SublistProperties ==
  ASSUME NEW S, NEW s \in Seq(S), NEW t
  PROVE  /\ Sublist(s, t) \in Seq(S)
         /\ Range(Sublist(s, t)) = Range(s) \cap t
  <1>1. PICK F : Kept(s, t, Len(s), F) /\ Sublist(s, t) = F[Len(s)]
    BY SublistIsKept
  <1> DEFINE Good(n) == F[n] \in Seq(S) /\ Range(F[n]) = {s[i] : i \in 1 .. n} \cap t
  <1>2. \A i \in 0 .. Len(s) : F[i] = IF i = 0 THEN <<>>
                               ELSE IF s[i] \in t THEN Append(F[i - 1], s[i]) ELSE F[i - 1]
    BY <1>1 DEF Kept
  <1>3. Good(0)
    <2>1. F[0] = <<>>
      BY <1>2
    <2> QED
      BY <2>1 DEF Range
  <1>4. ASSUME NEW n \in 0 .. Len(s) - 1, Good(n)
        PROVE  Good(n + 1)
    <2>1. s[n + 1] \in S /\ n + 1 \in 0 .. Len(s) /\ n + 1 # 0 /\ (n + 1) - 1 = n
      BY ElementOfSeq
    <2>2. F[n + 1] = IF s[n + 1] \in t THEN Append(F[n], s[n + 1]) ELSE F[n]
      BY <1>2, <2>1
    <2>3. {s[i] : i \in 1 .. n + 1} = {s[i] : i \in 1 .. n} \cup {s[n + 1]}
      OBVIOUS
    <2>4. CASE s[n + 1] \in t
      <3>1. Append(F[n], s[n + 1]) \in Seq(S)
        BY <1>4, <2>1, AppendProperties
      <3>2. Range(Append(F[n], s[n + 1])) = Range(F[n]) \cup {s[n + 1]}
        <4> DEFINE a == F[n]  b == s[n + 1]
        <4>1. a \in Seq(S) /\ b \in S
          BY <1>4, <2>1
        <4> HIDE DEF a, b
        <4>2. /\ Len(Append(a, b)) = Len(a) + 1 /\ Append(a, b)[Len(a) + 1] = b
              /\ \A i \in 1 .. Len(a) : Append(a, b)[i] = a[i]
              /\ Append(a, b) \in Seq(S)
          BY <4>1, AppendProperties
        <4>3. /\ Range(a) = {a[i] : i \in 1 .. Len(a)}
              /\ Range(Append(a, b)) = {Append(a, b)[i] : i \in 1 .. Len(a) + 1}
              /\ Len(a) \in Nat
          BY <4>1, <4>2, RangeEquality, LenProperties
        <4>4. Range(Append(a, b)) = Range(a) \cup {b}
          BY <4>2, <4>3
        <4> QED
          BY <4>4 DEF a, b
      <3> QED
        BY <1>4, <2>2, <2>3, <2>4, <3>1, <3>2
    <2>5. CASE s[n + 1] \notin t
      BY <1>4, <2>2, <2>3, <2>5
    <2> QED
      BY <2>4, <2>5
  <1>5. Good(Len(s))
    <2> DEFINE G == {n \in Nat : Good(n)}
    <2> HIDE DEF Good
    <2>1. Len(s) \in Nat /\ 0 \in G /\ \A n \in 0 .. Len(s) - 1 : n \in G => n + 1 \in G
      BY <1>3, <1>4, LenProperties
    <2> HIDE DEF G
    <2>2. Len(s) \in G
      BY <2>1, UpTo
    <2> QED
      BY <2>2 DEF G
  <1>6. Range(s) = {s[i] : i \in 1 .. Len(s)}
    BY RangeEquality
  <1> QED
    BY <1>1, <1>5, <1>6

\* The elements of Sublist are in the order they have in the sequence: their
\* positions there are increasing.
LEMMA SublistPositions ==
  ASSUME NEW S, NEW s \in Seq(S), NEW t
  PROVE  \E pos \in [1 .. Len(Sublist(s, t)) -> 1 .. Len(s)] :
           /\ \A k \in 1 .. Len(Sublist(s, t)) : Sublist(s, t)[k] = s[pos[k]]
           /\ \A j, k \in 1 .. Len(Sublist(s, t)) : j < k => pos[j] < pos[k]
  <1>1. PICK F : Kept(s, t, Len(s), F) /\ Sublist(s, t) = F[Len(s)]
    BY SublistIsKept
  <1> DEFINE Good(n) == /\ F[n] \in Seq(S)
                        /\ \E pos \in [1 .. Len(F[n]) -> 1 .. n] :
                             /\ \A k \in 1 .. Len(F[n]) : F[n][k] = s[pos[k]]
                             /\ \A j, k \in 1 .. Len(F[n]) : j < k => pos[j] < pos[k]
  <1>2. \A i \in 0 .. Len(s) : F[i] = IF i = 0 THEN <<>>
                               ELSE IF s[i] \in t THEN Append(F[i - 1], s[i]) ELSE F[i - 1]
    BY <1>1 DEF Kept
  <1>3. Good(0)
    <2>1. F[0] = <<>>
      BY <1>2
    <2>2. Len(<<>>) = 0 /\ 1 .. 0 = {} /\ <<>> \in Seq(S)
      OBVIOUS
    <2>3. [k \in {} |-> 0] \in [{} -> 1 .. 0]
      OBVIOUS
    <2> QED
      BY <2>1, <2>2, <2>3
  <1>4. ASSUME NEW n \in 0 .. Len(s) - 1, Good(n)
        PROVE  Good(n + 1)
    <2>1. s[n + 1] \in S /\ n + 1 \in 0 .. Len(s) /\ n + 1 # 0 /\ (n + 1) - 1 = n
      BY ElementOfSeq
    <2>2. F[n + 1] = IF s[n + 1] \in t THEN Append(F[n], s[n + 1]) ELSE F[n]
      BY <1>2, <2>1
    <2>3. PICK pos \in [1 .. Len(F[n]) -> 1 .. n] :
            /\ \A k \in 1 .. Len(F[n]) : F[n][k] = s[pos[k]]
            /\ \A j, k \in 1 .. Len(F[n]) : j < k => pos[j] < pos[k]
      BY <1>4
    <2> DEFINE a == F[n]  b == s[n + 1]  c == F[n + 1]
    <2>4. a \in Seq(S) /\ b \in S /\ Len(a) \in Nat
      BY <1>4, <2>1, LenProperties
    <2>5. CASE s[n + 1] \in t
      <3>1. c = Append(a, b)
        BY <2>2, <2>5
      <3> DEFINE new == [k \in 1 .. Len(a) + 1 |-> IF k = Len(a) + 1 THEN n + 1 ELSE pos[k]]
      <3>2. /\ pos \in [1 .. Len(a) -> 1 .. n]
            /\ \A k \in 1 .. Len(a) : a[k] = s[pos[k]]
            /\ \A j, k \in 1 .. Len(a) : j < k => pos[j] < pos[k]
        BY <2>3
      <3>3. b = s[n + 1] /\ n \in Nat
        OBVIOUS
      <3> HIDE DEF a, b, c
      <3>4. /\ c \in Seq(S) /\ Len(c) = Len(a) + 1 /\ c[Len(a) + 1] = b
            /\ \A i \in 1 .. Len(a) : c[i] = a[i]
        BY <2>4, <3>1, AppendProperties
      <3>5. new \in [1 .. Len(a) + 1 -> 1 .. n + 1]
        BY <2>4, <3>2, <3>3
      <3>6. \A k \in 1 .. Len(a) : new[k] = pos[k] /\ pos[k] <= n
        BY <2>4, <3>2, <3>3
      <3>7. new[Len(a) + 1] = n + 1
        BY <2>4
      <3>8. \A k \in 1 .. Len(a) + 1 : k = Len(a) + 1 \/ k \in 1 .. Len(a)
        BY <2>4
      <3> HIDE DEF new
      <3>9. \A k \in 1 .. Len(c) : c[k] = s[new[k]]
        BY <3>2, <3>3, <3>4, <3>6, <3>7, <3>8
      <3>10. \A j, k \in 1 .. Len(c) : j < k => new[j] < new[k]
        <4> SUFFICES ASSUME NEW j \in 1 .. Len(a) + 1, NEW k \in 1 .. Len(a) + 1, j < k
                     PROVE  new[j] < new[k]
          BY <3>4
        <4>1. j \in 1 .. Len(a)
          BY <2>4
        <4>2. CASE k = Len(a) + 1
          <5>1. pos[j] \in 1 .. n
            BY <4>1, <3>2
          <5> QED
            BY <4>1, <4>2, <5>1, <3>3, <3>6, <3>7
        <4>3. CASE k \in 1 .. Len(a)
          BY <4>1, <4>3, <3>2, <3>6
        <4> QED
          BY <4>2, <4>3, <3>8
      <3>11. /\ c \in Seq(S)
             /\ \E q \in [1 .. Len(c) -> 1 .. n + 1] :
                  /\ \A k \in 1 .. Len(c) : c[k] = s[q[k]]
                  /\ \A j, k \in 1 .. Len(c) : j < k => q[j] < q[k]
        BY <3>4, <3>5, <3>9, <3>10
      <3> QED
        BY <3>11 DEF c
    <2>6. CASE s[n + 1] \notin t
      <3>1. c = a
        BY <2>2, <2>6
      <3>2. pos \in [1 .. Len(a) -> 1 .. n + 1]
        BY <2>3
      <3> QED
        BY <2>3, <2>4, <3>1, <3>2
    <2> QED
      BY <2>5, <2>6
  <1>5. Good(Len(s))
    <2> DEFINE G == {n \in Nat : Good(n)}
    <2> HIDE DEF Good
    <2>1. Len(s) \in Nat /\ 0 \in G /\ \A n \in 0 .. Len(s) - 1 : n \in G => n + 1 \in G
      BY <1>3, <1>4, LenProperties
    <2> HIDE DEF G
    <2>2. Len(s) \in G
      BY <2>1, UpTo
    <2> QED
      BY <2>2 DEF G
  <1> QED
    BY <1>1, <1>5
\* A sequence whose elements stand at increasing positions in one without
\* repetitions is its Sublist.
LEMMA SublistUnique ==
  ASSUME NEW S, NEW s \in Seq(S), NEW u \in Seq(S),
         \A i, j \in 1 .. Len(s) : s[i] = s[j] => i = j,
         NEW pos \in [1 .. Len(u) -> 1 .. Len(s)],
         \A k \in 1 .. Len(u) : u[k] = s[pos[k]],
         \A j, k \in 1 .. Len(u) : j < k => pos[j] < pos[k]
  PROVE  u = Sublist(s, Range(u))
  <1> DEFINE t == Range(u)
  <1>0. /\ Len(s) \in Nat /\ Len(u) \in Nat
        /\ t = {u[k] : k \in 1 .. Len(u)}
    BY LenProperties, RangeEquality
  <1> HIDE DEF t
  <1>1. PICK F : Kept(s, t, Len(s), F) /\ Sublist(s, t) = F[Len(s)]
    BY SublistIsKept
  <1>2. \A i \in 0 .. Len(s) : F[i] = IF i = 0 THEN <<>>
                               ELSE IF s[i] \in t THEN Append(F[i - 1], s[i]) ELSE F[i - 1]
    BY <1>1 DEF Kept
  <1> DEFINE Split(n, m) == \A k \in 1 .. Len(u) : pos[k] <= n <=> k <= m
             Good(n) == \E m \in 0 .. Len(u) :
                          /\ F[n] \in Seq(S) /\ Len(F[n]) = m
                          /\ \A k \in 1 .. m : F[n][k] = u[k]
                          /\ Split(n, m)
  <1>3. Good(0)
    <2>1. F[0] = <<>>
      BY <1>0, <1>2
    <2>2. <<>> \in Seq(S) /\ Len(<<>>) = 0 /\ 1 .. 0 = {}
      OBVIOUS
    <2>3. Split(0, 0)
      BY <1>0
    <2> QED
      BY <1>0, <2>1, <2>2, <2>3
  <1>4. ASSUME NEW n \in 0 .. Len(s) - 1, Good(n)
        PROVE  Good(n + 1)
    <2>1. /\ s[n + 1] \in S /\ n \in Nat
          /\ n + 1 \in 0 .. Len(s) /\ n + 1 # 0 /\ (n + 1) - 1 = n
      BY <1>0, ElementOfSeq
    <2>2. F[n + 1] = IF s[n + 1] \in t THEN Append(F[n], s[n + 1]) ELSE F[n]
      BY <1>2, <2>1
    <2>3. PICK m \in 0 .. Len(u) : /\ F[n] \in Seq(S) /\ Len(F[n]) = m
                                   /\ \A k \in 1 .. m : F[n][k] = u[k]
                                   /\ Split(n, m)
      BY <1>4
    <2>4. m \in Nat
      BY <1>0
    <2>5. CASE s[n + 1] \in t
      <3>1. PICK j \in 1 .. Len(u) : s[n + 1] = u[j]
        BY <1>0, <2>5
      <3>2. pos[j] = n + 1
        <4>1. u[j] = s[pos[j]] /\ pos[j] \in 1 .. Len(s) /\ n + 1 \in 1 .. Len(s)
          BY <1>0, <2>1
        <4> QED
          BY <3>1, <4>1
      <3>3. m < j
        BY <1>0, <2>1, <2>3, <2>4, <3>2
      <3>4. m + 1 = j
        <4>1. CASE m + 1 < j
          <5>1. m + 1 \in 1 .. Len(u) /\ ~(m + 1 <= m)
            BY <1>0, <2>4, <4>1
          <5>2. pos[m + 1] < pos[j] /\ ~(pos[m + 1] <= n) /\ pos[m + 1] \in Nat
            BY <2>3, <4>1, <5>1
          <5> QED
            BY <2>1, <3>2, <5>2
        <4> QED
          BY <1>0, <2>4, <3>3, <4>1
      <3> DEFINE a == F[n]  b == s[n + 1]  c == F[n + 1]
      <3>5. /\ a \in Seq(S) /\ b \in S /\ c = Append(a, b) /\ Len(a) = m /\ b = u[m + 1]
            /\ \A k \in 1 .. m : a[k] = u[k]
        BY <2>1, <2>2, <2>3, <2>5, <3>1, <3>4
      <3> HIDE DEF a, b
      <3>6. /\ c \in Seq(S) /\ Len(c) = m + 1 /\ c[m + 1] = b
            /\ \A i \in 1 .. m : c[i] = a[i]
        BY <3>5, AppendProperties
      <3> HIDE DEF c
      <3>7. \A k \in 1 .. m + 1 : c[k] = u[k]
        BY <2>4, <3>5, <3>6
      <3>8. Split(n + 1, m + 1)
        <4> SUFFICES ASSUME NEW k \in 1 .. Len(u)
                     PROVE  pos[k] <= n + 1 <=> k <= m + 1
          OBVIOUS
        <4>1. pos[k] \in Nat /\ k \in Nat /\ (pos[k] <= n <=> k <= m)
          BY <2>3
        <4>2. CASE k = m + 1
          BY <2>1, <3>2, <3>4, <4>2
        <4>3. CASE k <= m
          BY <2>1, <2>4, <4>1, <4>3
        <4>4. CASE k > m + 1
          <5>1. pos[j] < pos[k]
            BY <3>4, <4>4
          <5> QED
            BY <2>1, <2>4, <3>2, <4>1, <4>4, <5>1
        <4> QED
          BY <2>4, <4>1, <4>2, <4>3, <4>4
      <3>9. m + 1 \in 0 .. Len(u)
        BY <1>0, <2>4, <3>4
      <3> QED
        BY <3>6, <3>7, <3>8, <3>9 DEF c
    <2>6. CASE s[n + 1] \notin t
      <3>1. ASSUME NEW k \in 1 .. Len(u)
            PROVE  pos[k] <= n + 1 <=> pos[k] <= n
        <4>1. pos[k] # n + 1
          BY <1>0, <2>6
        <4>2. pos[k] \in Nat
          OBVIOUS
        <4> QED
          BY <2>1, <4>1, <4>2
      <3>2. Split(n + 1, m)
        BY <2>3, <3>1
      <3> QED
        BY <2>2, <2>3, <2>6, <3>2
    <2> QED
      BY <2>5, <2>6
  <1>5. Good(Len(s))
    <2> DEFINE G == {n \in Nat : Good(n)}
    <2> HIDE DEF Good
    <2>1. Len(s) \in Nat /\ 0 \in G /\ \A n \in 0 .. Len(s) - 1 : n \in G => n + 1 \in G
      BY <1>0, <1>3, <1>4
    <2> HIDE DEF G
    <2>2. Len(s) \in G
      BY <2>1, UpTo
    <2> QED
      BY <2>2 DEF G
  <1>6. PICK m \in 0 .. Len(u) : /\ F[Len(s)] \in Seq(S) /\ Len(F[Len(s)]) = m
                                 /\ \A k \in 1 .. m : F[Len(s)][k] = u[k]
                                 /\ Split(Len(s), m)
    BY <1>5
  <1>7. m = Len(u)
    <2>1. CASE m < Len(u)
      <3>1. Len(u) \in 1 .. Len(u) /\ ~(Len(u) <= m) /\ pos[Len(u)] \in 1 .. Len(s)
        BY <1>0, <2>1
      <3> QED
        BY <1>0, <1>6, <3>1
    <2> QED
      BY <1>0, <2>1
  <1> DEFINE w == F[Len(s)]
  <1>8. w \in Seq(S) /\ Len(w) = Len(u) /\ \A k \in 1 .. Len(u) : w[k] = u[k]
    BY <1>6, <1>7
  <1> HIDE DEF w
  <1>9. w = u
    BY <1>8, SeqEqual
  <1> QED
    BY <1>1, <1>9 DEF w, t
===============================================================================
