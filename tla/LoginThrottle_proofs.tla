-------------------------- MODULE LoginThrottle_proofs --------------------------
(***************************************************************************)
(* For any accounts, sources, attempts in flight and limits: the store of  *)
(* the throttle stays bounded and coherent, a lock runs to its end, and    *)
(* no more comparisons are admitted while it runs than its budget.         *)
(*                                                                         *)
(* The budget of a lock binds because the two entries live and die         *)
(* together (Budgets): while the budget runs its lock does, under the same *)
(* end, and what was compared since then is what the budget has counted.   *)
(* Neither is evicted or pruned before that end (Thins).                   *)
(***************************************************************************)
EXTENDS LoginThrottle, FiniteSetTheorems, SequenceTheorems, TLAPS

-----------------------------------------------------------------------------
(* What is left of a sequence after deletions.                              *)

Rank(I, i) == Cardinality({x \in I : x <= i})

LEMMA SmallerSet ==
  ASSUME NEW T, IsFiniteSet(T), NEW U \in SUBSET T
  PROVE  /\ IsFiniteSet(U) /\ Cardinality(U) \in Nat /\ Cardinality(T) \in Nat
         /\ Cardinality(U) <= Cardinality(T)
         /\ U # T => Cardinality(U) < Cardinality(T)
<1>1. /\ IsFiniteSet(U) /\ Cardinality(U) <= Cardinality(T)
      /\ Cardinality(T) = Cardinality(U) => T = U
  BY FS_Subset
<1>2. Cardinality(U) \in Nat /\ Cardinality(T) \in Nat
  BY <1>1, FS_CardinalityType
<1> QED
  BY <1>1, <1>2

LEMMA RankIsBijection ==
  ASSUME NEW n \in Nat, NEW I \in SUBSET (1 .. n)
  PROVE  /\ IsFiniteSet(I) /\ Cardinality(I) \in Nat /\ Cardinality(I) <= n
         /\ I # 1 .. n => Cardinality(I) < n
         /\ \A i \in I : Rank(I, i) \in 1 .. Cardinality(I)
         /\ \A i, h \in I : Rank(I, i) = Rank(I, h) => i = h
         /\ \A j \in 1 .. Cardinality(I) : \E i \in I : Rank(I, i) = j
<1>1. /\ IsFiniteSet(1 .. n) /\ Cardinality(1 .. n) = n
  <2>1. 1 \in Int /\ n \in Int
    OBVIOUS
  <2> QED
    BY <2>1, FS_Interval
<1>2. /\ IsFiniteSet(I) /\ Cardinality(I) \in Nat /\ Cardinality(I) <= n
      /\ I # 1 .. n => Cardinality(I) < n
  <2>1. PICK N : N = 1 .. n
    OBVIOUS
  <2> QED
    BY <2>1, <1>1, SmallerSet
<1>3. \A T \in SUBSET I : /\ IsFiniteSet(T) /\ Cardinality(T) \in Nat
                          /\ Cardinality(T) <= Cardinality(I)
  BY <1>2, SmallerSet
<1>4. ASSUME NEW i \in I
      PROVE  Rank(I, i) \in 1 .. Cardinality(I)
  <2>1. {x \in I : x <= i} \in SUBSET I /\ {x \in I : x <= i} # {}
    OBVIOUS
  <2>2. Cardinality({x \in I : x <= i}) # 0
    BY <2>1, <1>3, FS_EmptySet
  <2> QED
    BY <2>1, <2>2, <1>2, <1>3 DEF Rank
<1>5. ASSUME NEW i \in I, NEW h \in I, i < h
      PROVE  Rank(I, i) < Rank(I, h)
  <2> DEFINE U == {x \in I : x <= i}
             T == {x \in I : x <= h}
  <2>1. \A x \in I : x \in Nat
    OBVIOUS
  <2>2. U \in SUBSET T
    <3>1. \A x \in U : x \in I /\ x <= h
      BY <1>5, <2>1
    <3> QED
      BY <3>1
  <2>3. h \in T /\ h \notin U
    BY <1>5, <2>1
  <2>4. IsFiniteSet(T)
    BY <1>3
  <2>5. Cardinality(U) < Cardinality(T)
    <3> HIDE DEF U, T
    <3> QED
      BY <2>2, <2>3, <2>4, SmallerSet
  <2> QED
    BY <2>5 DEF Rank
<1>6. ASSUME NEW i \in I, NEW h \in I, Rank(I, i) = Rank(I, h)
      PROVE  i = h
  <2>1. Rank(I, i) \in Nat /\ i \in Nat /\ h \in Nat
    BY <1>2, <1>4
  <2>2. ~(i < h) /\ ~(h < i)
    BY <2>1, <1>5, <1>6
  <2> QED
    BY <2>1, <2>2
<1> DEFINE rank == [i \in I |-> Rank(I, i)]
           T == 1 .. Cardinality(I)
<1>7. IsFiniteSet(T) /\ Cardinality(T) = Cardinality(I)
  <2>1. 1 \in Int /\ Cardinality(I) \in Int
    BY <1>2
  <2> QED
    BY <2>1, <1>2, FS_Interval
<1>8. rank \in Injection(I, T)
  BY <1>4, <1>6 DEF Injection, IsInjective
<1>9. rank \in Surjection(I, T)
  <2> HIDE DEF rank, T
  <2> QED
    BY <1>7, <1>8, FS_Injection
<1>10. \A j \in 1 .. Cardinality(I) : \E i \in I : Rank(I, i) = j
  BY <1>9 DEF Surjection
<1> QED
  BY <1>2, <1>4, <1>6, <1>10

LEMMA PickedProperties ==
  ASSUME NEW S, NEW s \in Seq(S), NEW I \in SUBSET (1 .. Len(s))
  PROVE  /\ Picked(s, I) \in Seq(S)
         /\ Len(Picked(s, I)) = Cardinality(I)
         /\ Cardinality(I) \in Nat /\ Cardinality(I) <= Len(s)
         /\ I # 1 .. Len(s) => Cardinality(I) < Len(s)
         /\ \A j \in 1 .. Cardinality(I) : \E i \in I : Picked(s, I)[j] = s[i]
         /\ \A i \in I : \E j \in 1 .. Cardinality(I) : Picked(s, I)[j] = s[i]
         /\ \A j, h \in 1 .. Cardinality(I) : j # h =>
              \E i, g \in I : i # g /\ Picked(s, I)[j] = s[i] /\ Picked(s, I)[h] = s[g]
<1>1. Len(s) \in Nat /\ \A i \in 1 .. Len(s) : s[i] \in S
  BY LenProperties, ElementOfSeq
<1>2. /\ Cardinality(I) \in Nat /\ Cardinality(I) <= Len(s)
      /\ I # 1 .. Len(s) => Cardinality(I) < Len(s)
      /\ \A i \in I : Rank(I, i) \in 1 .. Cardinality(I)
      /\ \A i, h \in I : Rank(I, i) = Rank(I, h) => i = h
      /\ \A j \in 1 .. Cardinality(I) : \E i \in I : Rank(I, i) = j
  BY <1>1, RankIsBijection
<1> DEFINE at == [j \in 1 .. Cardinality(I) |-> CHOOSE i \in I : Rank(I, i) = j]
<1>3. \A j \in 1 .. Cardinality(I) : at[j] \in I /\ Rank(I, at[j]) = j
  BY <1>2
<1>4. at \in [1 .. Cardinality(I) -> I]
  BY <1>3
<1>5. Picked(s, I) = [j \in 1 .. Cardinality(I) |-> s[at[j]]]
  BY DEF Picked, Rank
<1> HIDE DEF at
<1>6. \A j \in 1 .. Cardinality(I) : s[at[j]] \in S
  BY <1>1, <1>4
<1>7. Picked(s, I) \in [1 .. Cardinality(I) -> S]
  BY <1>5, <1>6
<1>8. Picked(s, I) \in Seq(S) /\ Len(Picked(s, I)) = Cardinality(I)
  BY <1>2, <1>7
<1>9. \A j, h \in 1 .. Cardinality(I) : at[j] = at[h] => j = h
  BY <1>3
<1>10. \A i \in I : \E j \in 1 .. Cardinality(I) : at[j] = i
  <2>1. ASSUME NEW i \in I
        PROVE  at[Rank(I, i)] = i
    <3>1. PICK j \in 1 .. Cardinality(I) : j = Rank(I, i)
      BY <1>2
    <3>2. at[j] \in I /\ Rank(I, at[j]) = Rank(I, i)
      BY <3>1, <1>3
    <3> QED
      BY <3>1, <3>2, <1>2
  <2> QED
    BY <2>1, <1>2
<1>11. \A j \in 1 .. Cardinality(I) : Picked(s, I)[j] = s[at[j]]
  BY <1>5
<1>12. \A j \in 1 .. Cardinality(I) : \E i \in I : Picked(s, I)[j] = s[i]
  BY <1>4, <1>11
<1>13. \A i \in I : \E j \in 1 .. Cardinality(I) : Picked(s, I)[j] = s[i]
  BY <1>10, <1>11
<1>14. ASSUME NEW j \in 1 .. Cardinality(I), NEW h \in 1 .. Cardinality(I), j # h
       PROVE  \E i, g \in I : i # g /\ Picked(s, I)[j] = s[i] /\ Picked(s, I)[h] = s[g]
  <2>1. at[j] \in I /\ at[h] \in I /\ at[j] # at[h]
    BY <1>4, <1>9, <1>14
  <2> QED
    BY <2>1, <1>11
<1> QED
  BY <1>2, <1>8, <1>12, <1>13, <1>14

-----------------------------------------------------------------------------
(* Sequences of entries and of keys, each at most once.                     *)

Rows == [key : Keys, kind : {"failure", "budget"}, n : Nat, start : Nat, until : Nat]

Among(s, x) == \E i \in 1 .. Len(s) : s[i] = x
KeysApart(s) == \A i, j \in 1 .. Len(s) : s[i].key = s[j].key => i = j
Apart(s) == \A i, j \in 1 .. Len(s) : s[i] = s[j] => i = j
Holds(s, k) == \E i \in 1 .. Len(s) : s[i].key = k

LEMMA PickedRows ==
  ASSUME NEW s \in Seq(Rows), KeysApart(s), NEW I \in SUBSET (1 .. Len(s))
  PROVE  /\ Picked(s, I) \in Seq(Rows) /\ KeysApart(Picked(s, I))
         /\ Len(Picked(s, I)) \in Nat /\ Len(Picked(s, I)) <= Len(s)
         /\ I # 1 .. Len(s) => Len(Picked(s, I)) < Len(s)
         /\ \A e : Among(Picked(s, I), e) <=> \E i \in I : s[i] = e
<1>1. PICK P : P = Picked(s, I)
  OBVIOUS
<1>2. PICK n : n = Cardinality(I)
  OBVIOUS
<1>3. /\ P \in Seq(Rows) /\ Len(P) = n /\ n \in Nat /\ n <= Len(s)
      /\ I # 1 .. Len(s) => n < Len(s)
  BY <1>1, <1>2, PickedProperties
<1>4. /\ \A j \in 1 .. n : \E i \in I : P[j] = s[i]
      /\ \A i \in I : \E j \in 1 .. n : P[j] = s[i]
      /\ \A j, h \in 1 .. n : j # h => \E i, g \in I : i # g /\ P[j] = s[i] /\ P[h] = s[g]
  <2>1. \A j \in 1 .. Cardinality(I) : \E i \in I : Picked(s, I)[j] = s[i]
    BY PickedProperties
  <2>2. \A i \in I : \E j \in 1 .. Cardinality(I) : Picked(s, I)[j] = s[i]
    BY PickedProperties
  <2>3. \A j, h \in 1 .. Cardinality(I) : j # h =>
          \E i, g \in I : i # g /\ Picked(s, I)[j] = s[i] /\ Picked(s, I)[h] = s[g]
    BY PickedProperties
  <2>4. \A j \in 1 .. n : \E i \in I : P[j] = s[i]
    BY <2>1, <1>1, <1>2
  <2>5. \A i \in I : \E j \in 1 .. n : P[j] = s[i]
    BY <2>2, <1>1, <1>2
  <2>6. \A j, h \in 1 .. n : j # h => \E i, g \in I : i # g /\ P[j] = s[i] /\ P[h] = s[g]
    BY <2>3, <1>1, <1>2
  <2> QED
    BY <2>4, <2>5, <2>6
<1>5. KeysApart(P)
  <2> SUFFICES ASSUME NEW j \in 1 .. n, NEW h \in 1 .. n, j # h
               PROVE  P[j].key # P[h].key
    BY <1>3 DEF KeysApart
  <2>1. PICK i, g \in I : i # g /\ P[j] = s[i] /\ P[h] = s[g]
    BY <1>4
  <2> QED
    BY <2>1 DEF KeysApart
<1>6. ASSUME NEW e
      PROVE  Among(P, e) <=> \E i \in I : s[i] = e
  <2>1. ASSUME NEW j \in 1 .. n, P[j] = e
        PROVE  \E i \in I : s[i] = e
    BY <2>1, <1>4
  <2>2. ASSUME NEW i \in I, s[i] = e
        PROVE  \E j \in 1 .. n : P[j] = e
    BY <2>2, <1>4
  <2> QED
    BY <2>1, <2>2, <1>3 DEF Among
<1> QED
  BY <1>1, <1>3, <1>5, <1>6

LEMMA PickedKeys ==
  ASSUME NEW s \in Seq(Keys), Apart(s), NEW I \in SUBSET (1 .. Len(s))
  PROVE  /\ Picked(s, I) \in Seq(Keys) /\ Apart(Picked(s, I))
         /\ \A x : Among(Picked(s, I), x) <=> \E i \in I : s[i] = x
<1>1. PICK P : P = Picked(s, I)
  OBVIOUS
<1>2. PICK n : n = Cardinality(I)
  OBVIOUS
<1>3. /\ P \in Seq(Keys) /\ Len(P) = n /\ n \in Nat /\ n <= Len(s)
      /\ I # 1 .. Len(s) => n < Len(s)
  BY <1>1, <1>2, PickedProperties
<1>4. /\ \A j \in 1 .. n : \E i \in I : P[j] = s[i]
      /\ \A i \in I : \E j \in 1 .. n : P[j] = s[i]
      /\ \A j, h \in 1 .. n : j # h => \E i, g \in I : i # g /\ P[j] = s[i] /\ P[h] = s[g]
  <2>1. \A j \in 1 .. Cardinality(I) : \E i \in I : Picked(s, I)[j] = s[i]
    BY PickedProperties
  <2>2. \A i \in I : \E j \in 1 .. Cardinality(I) : Picked(s, I)[j] = s[i]
    BY PickedProperties
  <2>3. \A j, h \in 1 .. Cardinality(I) : j # h =>
          \E i, g \in I : i # g /\ Picked(s, I)[j] = s[i] /\ Picked(s, I)[h] = s[g]
    BY PickedProperties
  <2>4. \A j \in 1 .. n : \E i \in I : P[j] = s[i]
    BY <2>1, <1>1, <1>2
  <2>5. \A i \in I : \E j \in 1 .. n : P[j] = s[i]
    BY <2>2, <1>1, <1>2
  <2>6. \A j, h \in 1 .. n : j # h => \E i, g \in I : i # g /\ P[j] = s[i] /\ P[h] = s[g]
    BY <2>3, <1>1, <1>2
  <2> QED
    BY <2>4, <2>5, <2>6
<1>5. Apart(P)
  <2> SUFFICES ASSUME NEW j \in 1 .. n, NEW h \in 1 .. n, j # h
               PROVE  P[j] # P[h]
    BY <1>3 DEF Apart
  <2>1. PICK i, g \in I : i # g /\ P[j] = s[i] /\ P[h] = s[g]
    BY <1>4
  <2> QED
    BY <2>1 DEF Apart
<1>6. ASSUME NEW e
      PROVE  Among(P, e) <=> \E i \in I : s[i] = e
  <2>1. ASSUME NEW j \in 1 .. n, P[j] = e
        PROVE  \E i \in I : s[i] = e
    BY <2>1, <1>4
  <2>2. ASSUME NEW i \in I, s[i] = e
        PROVE  \E j \in 1 .. n : P[j] = e
    BY <2>2, <1>4
  <2> QED
    BY <2>1, <2>2, <1>3 DEF Among
<1> QED
  BY <1>1, <1>3, <1>5, <1>6

LEMMA DropRows ==
  ASSUME NEW s \in Seq(Rows), KeysApart(s), NEW k
  PROVE  /\ Drop(s, k) \in Seq(Rows) /\ KeysApart(Drop(s, k))
         /\ Len(Drop(s, k)) \in Nat /\ Len(Drop(s, k)) <= Len(s)
         /\ Holds(s, k) => Len(Drop(s, k)) < Len(s)
         /\ \A e : Among(Drop(s, k), e) <=> Among(s, e) /\ e.key # k
<1> DEFINE I == {i \in DOMAIN s : s[i].key # k}
<1>1. DOMAIN s = 1 .. Len(s)
  BY LenProperties
<1>2. I \in SUBSET (1 .. Len(s)) /\ Drop(s, k) = Picked(s, I)
  BY <1>1 DEF Drop
<1>3. Holds(s, k) => I # 1 .. Len(s)
  BY <1>1 DEF Holds
<1>4. \A e : (\E i \in I : s[i] = e) <=> Among(s, e) /\ e.key # k
  BY <1>1 DEF Among
<1> HIDE DEF I
<1>5. /\ Picked(s, I) \in Seq(Rows) /\ KeysApart(Picked(s, I))
      /\ Len(Picked(s, I)) \in Nat /\ Len(Picked(s, I)) <= Len(s)
      /\ I # 1 .. Len(s) => Len(Picked(s, I)) < Len(s)
      /\ \A e : Among(Picked(s, I), e) <=> \E i \in I : s[i] = e
  BY <1>2, PickedRows
<1> QED
  BY <1>2, <1>3, <1>4, <1>5

LEMMA DropKeys ==
  ASSUME NEW s \in Seq(Keys), Apart(s), NEW k
  PROVE  /\ DropKey(s, k) \in Seq(Keys) /\ Apart(DropKey(s, k))
         /\ \A x : Among(DropKey(s, k), x) <=> Among(s, x) /\ x # k
<1> DEFINE I == {i \in DOMAIN s : s[i] # k}
<1>1. DOMAIN s = 1 .. Len(s)
  BY LenProperties
<1>2. I \in SUBSET (1 .. Len(s)) /\ DropKey(s, k) = Picked(s, I)
  BY <1>1 DEF DropKey
<1>3. \A x : (\E i \in I : s[i] = x) <=> Among(s, x) /\ x # k
  BY <1>1 DEF Among
<1> HIDE DEF I
<1>4. /\ Picked(s, I) \in Seq(Keys) /\ Apart(Picked(s, I))
      /\ \A x : Among(Picked(s, I), x) <=> \E i \in I : s[i] = x
  BY <1>2, PickedKeys
<1> QED
  BY <1>2, <1>3, <1>4

LEMMA AppendRow ==
  ASSUME NEW s \in Seq(Rows), KeysApart(s), NEW e \in Rows, ~Holds(s, e.key)
  PROVE  /\ Append(s, e) \in Seq(Rows) /\ KeysApart(Append(s, e))
         /\ Len(Append(s, e)) = Len(s) + 1
         /\ \A x : Among(Append(s, e), x) <=> Among(s, x) \/ x = e
<1>1. PICK t : t = Append(s, e)
  OBVIOUS
<1>2. PICK n : n = Len(s)
  OBVIOUS
<1>3. /\ n \in Nat /\ t \in Seq(Rows) /\ Len(t) = n + 1
      /\ \A i \in 1 .. n : t[i] = s[i]
      /\ t[n + 1] = e
  BY <1>1, <1>2, LenProperties, AppendProperties
<1>4. KeysApart(t)
  <2> SUFFICES ASSUME NEW i \in 1 .. n + 1, NEW j \in 1 .. n + 1, t[i].key = t[j].key
               PROVE  i = j
    BY <1>3 DEF KeysApart
  <2>1. \A h \in 1 .. n : t[h].key # e.key
    BY <1>2, <1>3 DEF Holds
  <2>2. (i \in 1 .. n \/ i = n + 1) /\ (j \in 1 .. n \/ j = n + 1)
    BY <1>3
  <2> QED
    BY <2>1, <2>2, <1>2, <1>3 DEF KeysApart
<1>5. \A x : Among(t, x) <=> Among(s, x) \/ x = e
  <2>1. 1 .. n + 1 = 1 .. n \cup {n + 1}
    BY <1>3
  <2> QED
    BY <2>1, <1>2, <1>3 DEF Among
<1> QED
  BY <1>1, <1>2, <1>3, <1>4, <1>5

LEMMA AppendKey ==
  ASSUME NEW s \in Seq(Keys), Apart(s), NEW k \in Keys, ~Among(s, k)
  PROVE  /\ Append(s, k) \in Seq(Keys) /\ Apart(Append(s, k))
         /\ \A x : Among(Append(s, k), x) <=> Among(s, x) \/ x = k
<1>1. PICK t : t = Append(s, k)
  OBVIOUS
<1>2. PICK n : n = Len(s)
  OBVIOUS
<1>3. /\ n \in Nat /\ t \in Seq(Keys) /\ Len(t) = n + 1
      /\ \A i \in 1 .. n : t[i] = s[i]
      /\ t[n + 1] = k
  BY <1>1, <1>2, LenProperties, AppendProperties
<1>4. Apart(t)
  <2> SUFFICES ASSUME NEW i \in 1 .. n + 1, NEW j \in 1 .. n + 1, t[i] = t[j]
               PROVE  i = j
    BY <1>3 DEF Apart
  <2>1. \A h \in 1 .. n : t[h] # k
    BY <1>2, <1>3 DEF Among
  <2>2. (i \in 1 .. n \/ i = n + 1) /\ (j \in 1 .. n \/ j = n + 1)
    BY <1>3
  <2> QED
    BY <2>1, <2>2, <1>2, <1>3 DEF Apart
<1>5. \A x : Among(t, x) <=> Among(s, x) \/ x = k
  <2>1. 1 .. n + 1 = 1 .. n \cup {n + 1}
    BY <1>3
  <2> QED
    BY <2>1, <1>2, <1>3 DEF Among
<1> QED
  BY <1>1, <1>3, <1>4, <1>5

(* Two sequences of entries, one after the other.                           *)
LEMMA ConcatRows ==
  ASSUME NEW s \in Seq(Rows), KeysApart(s), NEW t \in Seq(Rows), KeysApart(t),
         \A i \in 1 .. Len(s), j \in 1 .. Len(t) : s[i].key # t[j].key
  PROVE  /\ s \o t \in Seq(Rows) /\ KeysApart(s \o t)
         /\ Len(s \o t) = Len(s) + Len(t)
         /\ \A x : Among(s \o t, x) <=> Among(s, x) \/ Among(t, x)
<1>1. PICK u : u = s \o t
  OBVIOUS
<1>2. PICK n : n = Len(s)
  OBVIOUS
<1>3. PICK l : l = Len(t)
  OBVIOUS
<1>4. /\ n \in Nat /\ l \in Nat /\ u \in Seq(Rows) /\ Len(u) = n + l
      /\ \A i \in 1 .. n + l : u[i] = IF i <= n THEN s[i] ELSE t[i - n]
  BY <1>1, <1>2, <1>3, LenProperties, ConcatProperties
<1>5. \A i \in 1 .. n + l : (i <= n => i \in 1 .. n) /\ (~(i <= n) => i - n \in 1 .. l)
  BY <1>4
<1>6. /\ \A i \in 1 .. n : i \in 1 .. n + l /\ u[i] = s[i]
      /\ \A j \in 1 .. l : n + j \in 1 .. n + l /\ u[n + j] = t[j]
  BY <1>4
<1>7. KeysApart(u)
  <2> SUFFICES ASSUME NEW i \in 1 .. n + l, NEW j \in 1 .. n + l, u[i].key = u[j].key
               PROVE  i = j
    BY <1>4 DEF KeysApart
  <2>1. CASE i <= n /\ j <= n
    BY <2>1, <1>2, <1>4, <1>5 DEF KeysApart
  <2>2. CASE ~(i <= n) /\ ~(j <= n)
    <3>1. /\ i - n \in 1 .. l /\ j - n \in 1 .. l
          /\ t[i - n].key = t[j - n].key
      BY <2>2, <1>4, <1>5
    <3>2. i - n = j - n
      BY <3>1, <1>3 DEF KeysApart
    <3> QED
      BY <3>2, <1>4
  <2>3. CASE i <= n /\ ~(j <= n)
    BY <2>3, <1>2, <1>3, <1>4, <1>5
  <2>4. CASE ~(i <= n) /\ j <= n
    BY <2>4, <1>2, <1>3, <1>4, <1>5
  <2> QED
    BY <2>1, <2>2, <2>3, <2>4
<1>8. \A x : Among(u, x) <=> Among(s, x) \/ Among(t, x)
  <2> SUFFICES ASSUME NEW x
               PROVE  Among(u, x) <=> Among(s, x) \/ Among(t, x)
    OBVIOUS
  <2>1. ASSUME NEW i \in 1 .. n + l, u[i] = x
        PROVE  Among(s, x) \/ Among(t, x)
    <3>1. CASE i <= n
      BY <2>1, <3>1, <1>2, <1>4, <1>5 DEF Among
    <3>2. CASE ~(i <= n)
      BY <2>1, <3>2, <1>3, <1>4, <1>5 DEF Among
    <3> QED
      BY <3>1, <3>2
  <2>2. ASSUME NEW i \in 1 .. n, s[i] = x
        PROVE  Among(u, x)
    BY <2>2, <1>4, <1>6 DEF Among
  <2>3. ASSUME NEW j \in 1 .. l, t[j] = x
        PROVE  Among(u, x)
    BY <2>3, <1>4, <1>6 DEF Among
  <2> QED
    BY <2>1, <2>2, <2>3, <1>2, <1>3, <1>4 DEF Among
<1> QED
  BY <1>1, <1>2, <1>3, <1>4, <1>7, <1>8

LEMMA ConcatKeys ==
  ASSUME NEW s \in Seq(Keys), Apart(s), NEW t \in Seq(Keys), Apart(t),
         \A i \in 1 .. Len(s), j \in 1 .. Len(t) : s[i] # t[j]
  PROVE  /\ s \o t \in Seq(Keys) /\ Apart(s \o t)
         /\ \A x : Among(s \o t, x) <=> Among(s, x) \/ Among(t, x)
<1>1. PICK u : u = s \o t
  OBVIOUS
<1>2. PICK n : n = Len(s)
  OBVIOUS
<1>3. PICK l : l = Len(t)
  OBVIOUS
<1>4. /\ n \in Nat /\ l \in Nat /\ u \in Seq(Keys) /\ Len(u) = n + l
      /\ \A i \in 1 .. n + l : u[i] = IF i <= n THEN s[i] ELSE t[i - n]
  BY <1>1, <1>2, <1>3, LenProperties, ConcatProperties
<1>5. \A i \in 1 .. n + l : (i <= n => i \in 1 .. n) /\ (~(i <= n) => i - n \in 1 .. l)
  BY <1>4
<1>6. /\ \A i \in 1 .. n : i \in 1 .. n + l /\ u[i] = s[i]
      /\ \A j \in 1 .. l : n + j \in 1 .. n + l /\ u[n + j] = t[j]
  BY <1>4
<1>7. Apart(u)
  <2> SUFFICES ASSUME NEW i \in 1 .. n + l, NEW j \in 1 .. n + l, u[i] = u[j]
               PROVE  i = j
    BY <1>4 DEF Apart
  <2>1. CASE i <= n /\ j <= n
    BY <2>1, <1>2, <1>4, <1>5 DEF Apart
  <2>2. CASE ~(i <= n) /\ ~(j <= n)
    <3>1. /\ i - n \in 1 .. l /\ j - n \in 1 .. l
          /\ t[i - n] = t[j - n]
      BY <2>2, <1>4, <1>5
    <3>2. i - n = j - n
      BY <3>1, <1>3 DEF Apart
    <3> QED
      BY <3>2, <1>4
  <2>3. CASE i <= n /\ ~(j <= n)
    BY <2>3, <1>2, <1>3, <1>4, <1>5
  <2>4. CASE ~(i <= n) /\ j <= n
    BY <2>4, <1>2, <1>3, <1>4, <1>5
  <2> QED
    BY <2>1, <2>2, <2>3, <2>4
<1>8. \A x : Among(u, x) <=> Among(s, x) \/ Among(t, x)
  <2> SUFFICES ASSUME NEW x
               PROVE  Among(u, x) <=> Among(s, x) \/ Among(t, x)
    OBVIOUS
  <2>1. ASSUME NEW i \in 1 .. n + l, u[i] = x
        PROVE  Among(s, x) \/ Among(t, x)
    <3>1. CASE i <= n
      BY <2>1, <3>1, <1>2, <1>4, <1>5 DEF Among
    <3>2. CASE ~(i <= n)
      BY <2>1, <3>2, <1>3, <1>4, <1>5 DEF Among
    <3> QED
      BY <3>1, <3>2
  <2>2. ASSUME NEW i \in 1 .. n, s[i] = x
        PROVE  Among(u, x)
    BY <2>2, <1>4, <1>6 DEF Among
  <2>3. ASSUME NEW j \in 1 .. l, t[j] = x
        PROVE  Among(u, x)
    BY <2>3, <1>4, <1>6 DEF Among
  <2> QED
    BY <2>1, <2>2, <2>3, <1>2, <1>3, <1>4 DEF Among
<1> QED
  BY <1>1, <1>4, <1>7, <1>8

(* The last part of a sequence.                                             *)
LEMMA LastRows ==
  ASSUME NEW s \in Seq(Rows), KeysApart(s), NEW n \in 0 .. Len(s)
  PROVE  LET t == SubSeq(s, n + 1, Len(s)) IN
         /\ t \in Seq(Rows) /\ KeysApart(t) /\ Len(t) = Len(s) - n
         /\ \A j \in 1 .. Len(t) : t[j] = s[n + j]
<1>1. PICK t : t = SubSeq(s, n + 1, Len(s))
  OBVIOUS
<1>2. PICK l : l = Len(s)
  OBVIOUS
<1>3. l \in Nat /\ n \in Nat /\ n <= l /\ \A i \in 1 .. l : s[i] \in Rows
  BY <1>2, LenProperties, ElementOfSeq
<1>4. \A i \in n + 1 .. l : s[i] \in Rows
  BY <1>3
<1>5. /\ t \in Seq(Rows) /\ Len(t) = IF n + 1 <= l THEN l - (n + 1) + 1 ELSE 0
      /\ \A j \in 1 .. l - (n + 1) + 1 : t[j] = s[n + 1 + j - 1]
  <2>1. n + 1 \in Int /\ l \in Int
    BY <1>3
  <2> QED
    BY <2>1, <1>1, <1>2, <1>4, SubSeqProperties
<1>6. Len(t) = l - n /\ \A j \in 1 .. Len(t) : t[j] = s[n + j]
  BY <1>3, <1>5
<1>7. KeysApart(t)
  <2> SUFFICES ASSUME NEW i \in 1 .. l - n, NEW j \in 1 .. l - n, t[i].key = t[j].key
               PROVE  i = j
    BY <1>6 DEF KeysApart
  <2>1. /\ n + i \in 1 .. l /\ n + j \in 1 .. l
        /\ s[n + i].key = s[n + j].key
    BY <1>3, <1>6
  <2>2. n + i = n + j
    BY <2>1, <1>2 DEF KeysApart
  <2> QED
    BY <2>2, <1>3
<1> QED
  BY <1>1, <1>2, <1>5, <1>6, <1>7

LEMMA LastKeys ==
  ASSUME NEW s \in Seq(Keys), Apart(s), NEW n \in 0 .. Len(s)
  PROVE  LET t == SubSeq(s, n + 1, Len(s)) IN
         /\ t \in Seq(Keys) /\ Apart(t)
         /\ \A x : Among(t, x) => \E i \in n + 1 .. Len(s) : s[i] = x
<1>1. PICK t : t = SubSeq(s, n + 1, Len(s))
  OBVIOUS
<1>2. PICK l : l = Len(s)
  OBVIOUS
<1>3. l \in Nat /\ n \in Nat /\ n <= l /\ \A i \in 1 .. l : s[i] \in Keys
  BY <1>2, LenProperties, ElementOfSeq
<1>4. \A i \in n + 1 .. l : s[i] \in Keys
  BY <1>3
<1>5. /\ t \in Seq(Keys) /\ Len(t) = IF n + 1 <= l THEN l - (n + 1) + 1 ELSE 0
      /\ \A j \in 1 .. l - (n + 1) + 1 : t[j] = s[n + 1 + j - 1]
  <2>1. n + 1 \in Int /\ l \in Int
    BY <1>3
  <2> QED
    BY <2>1, <1>1, <1>2, <1>4, SubSeqProperties
<1>6. Len(t) = l - n /\ \A j \in 1 .. Len(t) : t[j] = s[n + j]
  BY <1>3, <1>5
<1>7. Apart(t)
  <2> SUFFICES ASSUME NEW i \in 1 .. l - n, NEW j \in 1 .. l - n, t[i] = t[j]
               PROVE  i = j
    BY <1>6 DEF Apart
  <2>1. /\ n + i \in 1 .. l /\ n + j \in 1 .. l
        /\ s[n + i] = s[n + j]
    BY <1>3, <1>6
  <2>2. n + i = n + j
    BY <2>1, <1>2 DEF Apart
  <2> QED
    BY <2>2, <1>3
<1>8. \A x : Among(t, x) => \E i \in n + 1 .. l : s[i] = x
  BY <1>3, <1>6 DEF Among
<1> QED
  BY <1>1, <1>2, <1>5, <1>7, <1>8

-----------------------------------------------------------------------------
(* The store with its eviction index.                                       *)

Sound(m) ==
  /\ m \in [store : Seq(Rows), candidates : Seq(Keys)]
  /\ Len(m.store) <= MaxEntries
  /\ KeysApart(m.store) /\ Apart(m.candidates)
  /\ \A k : Among(m.candidates, k) => Holds(m.store, k)

(* Entries go, but none that runs.                                          *)
Thins(m, less) ==
  \A e : /\ Among(less.store, e) => Among(m.store, e)
         /\ Among(m.store, e) /\ Protected(e) => Among(less.store, e)

LEMMA HoldsAmong ==
  ASSUME NEW s, NEW k
  PROVE  Holds(s, k) <=> \E e : Among(s, e) /\ e.key = k
BY DEF Holds, Among

LEMMA SoundPair ==
  ASSUME NEW s \in Seq(Rows), NEW c \in Seq(Keys), Len(s) <= MaxEntries,
         KeysApart(s), Apart(c), \A k : Among(c, k) => Holds(s, k)
  PROVE  Sound([store |-> s, candidates |-> c])
<1>1. PICK m : m = [store |-> s, candidates |-> c]
  OBVIOUS
<1>2. m.store = s /\ m.candidates = c /\ m \in [store : Seq(Rows), candidates : Seq(Keys)]
  BY <1>1
<1>3. Sound(m)
  BY <1>2 DEF Sound
<1> QED
  BY <1>1, <1>3

LEMMA SoundParts ==
  ASSUME NEW m, Sound(m)
  PROVE  /\ m.store \in Seq(Rows) /\ m.candidates \in Seq(Keys)
         /\ m = [store |-> m.store, candidates |-> m.candidates]
         /\ Len(m.store) \in Nat /\ Len(m.store) <= MaxEntries
         /\ KeysApart(m.store) /\ Apart(m.candidates)
         /\ \A k : Among(m.candidates, k) => Holds(m.store, k)
<1>1. m.store \in Seq(Rows) /\ m.candidates \in Seq(Keys)
      /\ m = [store |-> m.store, candidates |-> m.candidates]
  BY DEF Sound
<1>2. Len(m.store) \in Nat
  BY <1>1, LenProperties
<1> QED
  BY <1>1, <1>2 DEF Sound

LEMMA EntryFacts ==
  ASSUME NEW m, Sound(m)
  PROVE  /\ \A k : Stored(m, k) <=> Holds(m.store, k)
         /\ \A k : Stored(m, k) =>
              Entry(m, k) \in Rows /\ Entry(m, k).key = k /\ Among(m.store, Entry(m, k))
         /\ \A e : Among(m.store, e) => e \in Rows /\ Stored(m, e.key) /\ Entry(m, e.key) = e
<1>1. /\ m.store \in Seq(Rows) /\ KeysApart(m.store) /\ DOMAIN m.store = 1 .. Len(m.store)
      /\ \A i \in 1 .. Len(m.store) : m.store[i] \in Rows
  BY SoundParts, LenProperties, ElementOfSeq
<1>2. \A k : Stored(m, k) <=> Holds(m.store, k)
  BY <1>1 DEF Stored, Holds
<1>3. ASSUME NEW k, Stored(m, k)
      PROVE  Entry(m, k) \in Rows /\ Entry(m, k).key = k /\ Among(m.store, Entry(m, k))
  <2>1. PICK i \in 1 .. Len(m.store) :
          i = (CHOOSE x \in DOMAIN m.store : m.store[x].key = k) /\ m.store[i].key = k
    BY <1>1, <1>3 DEF Stored
  <2>2. Entry(m, k) = m.store[i]
    BY <2>1 DEF Entry
  <2> QED
    BY <2>1, <2>2, <1>1 DEF Among
<1>4. ASSUME NEW e, Among(m.store, e)
      PROVE  e \in Rows /\ Stored(m, e.key) /\ Entry(m, e.key) = e
  <2>1. PICK i \in 1 .. Len(m.store) : m.store[i] = e
    BY <1>4 DEF Among
  <2>2. Stored(m, e.key)
    BY <2>1, <1>1 DEF Stored
  <2>3. PICK j \in 1 .. Len(m.store) : m.store[j] = Entry(m, e.key) /\ m.store[j].key = e.key
    BY <2>2, <1>3 DEF Among
  <2>4. i = j
    BY <2>1, <2>3, <1>1 DEF KeysApart
  <2> QED
    BY <2>1, <2>2, <2>3, <2>4, <1>1
<1> QED
  BY <1>2, <1>3, <1>4

LEMMA ThinsFacts ==
  ASSUME NEW m, NEW less, Sound(m), Sound(less), Thins(m, less)
  PROVE  /\ \A k : Stored(less, k) => Stored(m, k) /\ Entry(less, k) = Entry(m, k)
         /\ \A k : Stored(m, k) /\ Protected(Entry(m, k)) =>
              Stored(less, k) /\ Entry(less, k) = Entry(m, k)
         /\ \A k : Locked(m, k) <=> Locked(less, k)
<1>1. ASSUME NEW k, Stored(less, k)
      PROVE  Stored(m, k) /\ Entry(less, k) = Entry(m, k)
  <2>1. Entry(less, k).key = k /\ Among(less.store, Entry(less, k))
    BY <1>1, EntryFacts
  <2>2. Among(m.store, Entry(less, k))
    BY <2>1 DEF Thins
  <2> QED
    BY <2>1, <2>2, EntryFacts
<1>2. ASSUME NEW k, Stored(m, k), Protected(Entry(m, k))
      PROVE  Stored(less, k) /\ Entry(less, k) = Entry(m, k)
  <2>1. Entry(m, k).key = k /\ Among(m.store, Entry(m, k))
    BY <1>2, EntryFacts
  <2>2. Among(less.store, Entry(m, k))
    BY <2>1, <1>2 DEF Thins
  <2> QED
    BY <2>1, <2>2, EntryFacts
<1>3. \A k : Locked(m, k) <=> Locked(less, k)
  BY <1>1, <1>2 DEF Locked, Protected
<1> QED
  BY <1>1, <1>2, <1>3

(* refreshEvictionCandidate of a stored entry.                              *)
LEMMA RefreshKeeps ==
  ASSUME NEW m, Sound(m), NEW e \in Rows, Holds(m.store, e.key)
  PROVE  Sound(Refresh(m, e)) /\ Refresh(m, e).store = m.store
<1>1. PICK s : s = m.store
  OBVIOUS
<1>2. PICK c : c = DropKey(m.candidates, e.key)
  OBVIOUS
<1>3. PICK k : k = e.key
  OBVIOUS
<1>4. /\ s \in Seq(Rows) /\ KeysApart(s) /\ Len(s) <= MaxEntries
      /\ m = [store |-> s, candidates |-> m.candidates]
      /\ \A x : Among(m.candidates, x) => Holds(s, x)
  BY <1>1, SoundParts
<1>5. /\ c \in Seq(Keys) /\ Apart(c)
      /\ \A x : Among(c, x) <=> Among(m.candidates, x) /\ x # k
  BY <1>2, <1>3, SoundParts, DropKeys
<1>6. k \in Keys /\ ~Among(c, k) /\ Holds(s, k)
  BY <1>1, <1>3, <1>5 DEF Rows
<1>7. /\ Append(c, k) \in Seq(Keys) /\ Apart(Append(c, k))
      /\ \A x : Among(Append(c, k), x) <=> Among(c, x) \/ x = k
  BY <1>5, <1>6, AppendKey
<1>8. PICK new : new = IF Protected(e) THEN c ELSE Append(c, k)
  OBVIOUS
<1>9. new \in Seq(Keys) /\ Apart(new) /\ \A x : Among(new, x) => Holds(s, x)
  <2>1. CASE Protected(e)
    BY <2>1, <1>4, <1>5, <1>8
  <2>2. CASE ~Protected(e)
    <3>1. new = Append(c, k)
      BY <2>2, <1>8
    <3>2. \A x : Among(new, x) => Holds(s, x)
      BY <3>1, <1>4, <1>5, <1>6, <1>7
    <3> QED
      BY <3>1, <3>2, <1>7
  <2> QED
    BY <2>1, <2>2
<1>10. Refresh(m, e) = [store |-> s, candidates |-> new]
  <2>1. Refresh(m, e) = [m EXCEPT !.candidates = new]
    BY <1>2, <1>3, <1>8 DEF Refresh
  <2> QED
    BY <2>1, <1>4
<1>11. Sound([store |-> s, candidates |-> new])
  BY <1>4, <1>9, SoundPair
<1> QED
  BY <1>1, <1>10, <1>11

(* An entry written, in the place of the one of its key.                    *)
LEMMA RenewKeeps ==
  ASSUME NEW m, Sound(m), NEW e \in Rows, Stored(m, e.key) \/ Fits(m)
  PROVE  /\ Sound(Renew(m, e))
         /\ \A x : Among(Renew(m, e).store, x) <=> x = e \/ (Among(m.store, x) /\ x.key # e.key)
<1>1. PICK s : s = Drop(m.store, e.key)
  OBVIOUS
<1>2. /\ s \in Seq(Rows) /\ KeysApart(s) /\ Len(s) \in Nat /\ Len(s) <= Len(m.store)
      /\ Holds(m.store, e.key) => Len(s) < Len(m.store)
      /\ \A x : Among(s, x) <=> Among(m.store, x) /\ x.key # e.key
  BY <1>1, SoundParts, DropRows
<1>3. ~Holds(s, e.key)
  BY <1>2, HoldsAmong
<1>4. PICK t : t = Append(s, e)
  OBVIOUS
<1>5. /\ t \in Seq(Rows) /\ KeysApart(t) /\ Len(t) = Len(s) + 1
      /\ \A x : Among(t, x) <=> Among(s, x) \/ x = e
  BY <1>2, <1>3, <1>4, AppendRow
<1>6. Len(t) <= MaxEntries
  <2>1. Len(m.store) \in Nat /\ Len(m.store) <= MaxEntries /\ MaxEntries \in Nat
    BY SoundParts, ThrottleAssumption DEF Configured
  <2>2. Len(s) < MaxEntries
    <3>1. CASE Stored(m, e.key)
      BY <3>1, <2>1, <1>2, EntryFacts
    <3>2. CASE Fits(m)
      BY <3>2, <2>1, <1>2 DEF Fits
    <3> QED
      BY <3>1, <3>2
  <2> QED
    BY <2>1, <2>2, <1>2, <1>5
<1>7. \A k : Holds(m.store, k) => Holds(t, k)
  <2> SUFFICES ASSUME NEW k, Holds(m.store, k)
               PROVE  Holds(t, k)
    OBVIOUS
  <2>1. PICK x : Among(m.store, x) /\ x.key = k
    BY HoldsAmong
  <2>2. CASE k = e.key
    BY <2>2, <1>5, HoldsAmong
  <2>3. CASE k # e.key
    BY <2>1, <2>3, <1>2, <1>5, HoldsAmong
  <2> QED
    BY <2>2, <2>3
<1>8. PICK with : with = [store |-> t, candidates |-> m.candidates]
  OBVIOUS
<1>9. Sound(with) /\ with.store = t
  <2>1. m.candidates \in Seq(Keys) /\ Apart(m.candidates)
        /\ \A k : Among(m.candidates, k) => Holds(t, k)
    BY <1>7, SoundParts
  <2> QED
    BY <2>1, <1>5, <1>6, <1>8, SoundPair
<1>10. Renew(m, e) = Refresh(with, e)
  <2>1. PICK a, c : m = [store |-> a, candidates |-> c] /\ c = m.candidates
    BY SoundParts
  <2>2. [m EXCEPT !.store = t] = with
    BY <2>1, <1>8
  <2>3. t = Append(Drop(m.store, e.key), e)
    BY <1>1, <1>4
  <2> QED
    BY <2>2, <2>3 DEF Renew
<1>11. Holds(with.store, e.key)
  BY <1>5, <1>9, HoldsAmong
<1>12. Sound(Refresh(with, e)) /\ Refresh(with, e).store = t
  BY <1>9, <1>11, RefreshKeeps
<1>13. \A x : Among(t, x) <=> x = e \/ (Among(m.store, x) /\ x.key # e.key)
  BY <1>2, <1>5
<1> QED
  BY <1>10, <1>12, <1>13

LEMMA ClearKeeps ==
  ASSUME NEW m, Sound(m), NEW k
  PROVE  /\ Sound(Clear(m, k))
         /\ \A x : Among(Clear(m, k).store, x) <=> Among(m.store, x) /\ x.key # k
<1>1. PICK s : s = Drop(m.store, k)
  OBVIOUS
<1>2. PICK c : c = DropKey(m.candidates, k)
  OBVIOUS
<1>3. /\ s \in Seq(Rows) /\ KeysApart(s) /\ Len(s) \in Nat /\ Len(s) <= Len(m.store)
      /\ \A x : Among(s, x) <=> Among(m.store, x) /\ x.key # k
  BY <1>1, SoundParts, DropRows
<1>4. /\ c \in Seq(Keys) /\ Apart(c)
      /\ \A x : Among(c, x) <=> Among(m.candidates, x) /\ x # k
  BY <1>2, SoundParts, DropKeys
<1>5. \A x : Among(c, x) => Holds(s, x)
  <2> SUFFICES ASSUME NEW x, Among(c, x)
               PROVE  Holds(s, x)
    OBVIOUS
  <2>1. Holds(m.store, x) /\ x # k
    BY <1>4, SoundParts
  <2>2. PICK e : Among(m.store, e) /\ e.key = x
    BY <2>1, HoldsAmong
  <2> QED
    BY <2>1, <2>2, <1>3, HoldsAmong
<1>6. Len(s) <= MaxEntries
  <2>1. Len(m.store) \in Nat /\ Len(m.store) <= MaxEntries /\ MaxEntries \in Nat
    BY SoundParts, ThrottleAssumption DEF Configured
  <2> QED
    BY <2>1, <1>3
<1>7. Clear(m, k) = [store |-> s, candidates |-> c]
  BY <1>1, <1>2 DEF Clear
<1>8. Sound([store |-> s, candidates |-> c])
  BY <1>3, <1>4, <1>5, <1>6, SoundPair
<1>9. Clear(m, k).store = s
  BY <1>7
<1> QED
  BY <1>3, <1>7, <1>8, <1>9

-----------------------------------------------------------------------------
(* What makes room: eviction and pruning take nothing that runs.            *)

LEMMA Least ==
  ASSUME NEW S \in SUBSET Nat, S # {}
  PROVE  \E x \in S : \A y \in S : x <= y
<1>1. PICK x \in S : \A y \in S : ~ (<<y, x>> \in OpToRel(<, Nat))
  BY NatLessThanWellFounded, WFMin
<1>2. \A y \in S : ~(y < x)
  BY <1>1 DEF OpToRel
<1>3. \A y \in S : y \in Nat /\ x \in Nat
  OBVIOUS
<1> QED
  BY <1>2, <1>3

LEMMA SameStoreThins ==
  ASSUME NEW m, NEW less, less.store = m.store
  PROVE  Thins(m, less)
BY DEF Thins

LEMMA ThinsTwice ==
  ASSUME NEW m, NEW less, NEW least, Thins(m, less), Thins(less, least)
  PROVE  Thins(m, least)
BY DEF Thins

LEMMA EvictKeeps ==
  ASSUME NEW m, Sound(m)
  PROVE  Sound(Evict(m)) /\ Thins(m, Evict(m))
<1>1. /\ m.store \in Seq(Rows) /\ m.candidates \in Seq(Keys)
      /\ Len(m.store) \in Nat /\ Len(m.store) <= MaxEntries
      /\ KeysApart(m.store) /\ Apart(m.candidates)
      /\ \A k : Among(m.candidates, k) => Holds(m.store, k)
  BY SoundParts
<1>2. CASE Evictable(m) = {}
  <2>1. PICK a, c : m = [store |-> a, candidates |-> c] /\ a = m.store
    BY SoundParts
  <2>2. Evict(m) = [store |-> a, candidates |-> <<>>]
    BY <2>1, <1>2 DEF Evict
  <2>3. <<>> \in Seq(Keys) /\ Apart(<<>>) /\ \A k : ~Among(<<>>, k)
    BY DEF Apart, Among
  <2>4. Sound([store |-> a, candidates |-> <<>>])
    BY <2>1, <2>3, <1>1, SoundPair
  <2>5. Evict(m).store = m.store
    BY <2>1, <2>2
  <2> QED
    BY <2>2, <2>4, <2>5, SameStoreThins
<1>3. CASE Evictable(m) # {}
  <2> DEFINE least == CHOOSE x \in Evictable(m) : \A y \in Evictable(m) : x <= y
  <2>1. Evictable(m) \subseteq DOMAIN m.candidates /\ DOMAIN m.candidates = 1 .. Len(m.candidates)
        /\ Len(m.candidates) \in Nat
    BY <1>1, LenProperties DEF Evictable
  <2>2. Evictable(m) \in SUBSET Nat
    BY <2>1
  <2>3. least \in Evictable(m)
    BY <2>2, <1>3, Least
  <2>4. Evict(m) = [store |-> Drop(m.store, m.candidates[least]),
                    candidates |-> SubSeq(m.candidates, least + 1, Len(m.candidates))]
    BY <1>3 DEF Evict
  <2> HIDE DEF least
  <2>5. PICK k : k = m.candidates[least]
    OBVIOUS
  <2>6. least \in 1 .. Len(m.candidates) /\ Stored(m, k) /\ ~Protected(Entry(m, k))
    BY <2>1, <2>3, <2>5 DEF Evictable
  <2>7. PICK s : s = Drop(m.store, k)
    OBVIOUS
  <2>8. /\ s \in Seq(Rows) /\ KeysApart(s) /\ Len(s) \in Nat /\ Len(s) <= Len(m.store)
        /\ \A x : Among(s, x) <=> Among(m.store, x) /\ x.key # k
    BY <2>7, <1>1, DropRows
  <2>9. PICK c : c = SubSeq(m.candidates, least + 1, Len(m.candidates))
    OBVIOUS
  <2>10. /\ c \in Seq(Keys) /\ Apart(c)
         /\ \A x : Among(c, x) => \E i \in least + 1 .. Len(m.candidates) : m.candidates[i] = x
    <3>1. least \in 0 .. Len(m.candidates)
      BY <2>1, <2>6
    <3> QED
      BY <3>1, <2>9, <1>1, LastKeys
  <2>11. ASSUME NEW x, Among(c, x)
         PROVE  Holds(s, x)
    <3>1. PICK i \in least + 1 .. Len(m.candidates) : m.candidates[i] = x
      BY <2>10, <2>11
    <3>2. i \in 1 .. Len(m.candidates) /\ i # least
      BY <2>1, <2>6
    <3>3. x # k /\ Among(m.candidates, x)
      BY <3>1, <3>2, <2>5, <2>6, <1>1 DEF Apart, Among
    <3>4. PICK e : Among(m.store, e) /\ e.key = x
      BY <3>3, <1>1, HoldsAmong
    <3> QED
      BY <3>3, <3>4, <2>8, HoldsAmong
  <2>12. Len(s) <= MaxEntries
    <3>1. MaxEntries \in Nat
      BY ThrottleAssumption DEF Configured
    <3> QED
      BY <3>1, <2>8, <1>1
  <2>13. Evict(m) = [store |-> s, candidates |-> c]
    BY <2>4, <2>5, <2>7, <2>9
  <2>14. Sound([store |-> s, candidates |-> c])
    BY <2>8, <2>10, <2>11, <2>12, SoundPair
  <2>15. Evict(m).store = s
    BY <2>13
  <2>16. ASSUME NEW e, Among(m.store, e), Protected(e)
         PROVE  Among(s, e)
    <3>1. e.key # k
      BY <2>6, <2>16, EntryFacts
    <3> QED
      BY <3>1, <2>8, <2>16
  <2> QED
    BY <2>8, <2>13, <2>14, <2>15, <2>16 DEF Thins
<1> QED
  BY <1>2, <1>3

LEMMA MakeRoomKeeps ==
  ASSUME NEW m, Sound(m)
  PROVE  Sound(MakeRoom(m)) /\ Thins(m, MakeRoom(m))
<1>1. Thins(m, m)
  BY DEF Thins
<1> QED
  BY <1>1, EvictKeeps DEF MakeRoom

LEMMA BudgetRoomKeeps ==
  ASSUME NEW m, Sound(m), NEW k
  PROVE  Sound(BudgetRoom(m, k)) /\ Thins(m, BudgetRoom(m, k))
<1>1. Thins(m, m)
  BY DEF Thins
<1> QED
  BY <1>1, MakeRoomKeeps DEF BudgetRoom

LEMMA LookKeeps ==
  ASSUME NEW m, Sound(m), NEW k
  PROVE  Sound(Look(m, k)) /\ Thins(m, Look(m, k))
<1>1. CASE Stored(m, k) /\ ~Locked(m, k)
  <2>1. Entry(m, k) \in Rows /\ Entry(m, k).key = k /\ Holds(m.store, k)
    BY <1>1, EntryFacts
  <2>2. Sound(Refresh(m, Entry(m, k))) /\ Refresh(m, Entry(m, k)).store = m.store
    BY <2>1, RefreshKeeps
  <2> QED
    BY <2>2, <1>1, SameStoreThins DEF Look
<1>2. CASE ~(Stored(m, k) /\ ~Locked(m, k))
  BY <1>2, SameStoreThins DEF Look
<1> QED
  BY <1>1, <1>2

LEMMA PruneKeeps ==
  ASSUME NEW m, Sound(m), now \in Nat
  PROVE  Sound(Prune(m)) /\ Thins(m, Prune(m))
<1> DEFINE n == IF PruneBatch < Len(m.store) THEN PruneBatch ELSE Len(m.store)
           kept == {i \in 1 .. n : ~Expired(m.store[i])}
           open == {i \in kept : ~Protected(m.store[i])}
           free == Picked(m.store, open)
           others == {j \in DOMAIN m.candidates :
                        \A i \in 1 .. n : m.store[i].key # m.candidates[j]}
           last == SubSeq(m.store, n + 1, Len(m.store))
           spared == Picked(m.store, kept)
           left == Picked(m.candidates, others)
           freed == [i \in DOMAIN free |-> free[i].key]
<1>1. PICK s : s = m.store
  OBVIOUS
<1>2. PICK c : c = m.candidates
  OBVIOUS
<1>3. /\ s \in Seq(Rows) /\ c \in Seq(Keys) /\ Len(s) \in Nat /\ Len(s) <= MaxEntries
      /\ KeysApart(s) /\ Apart(c)
      /\ \A k : Among(c, k) => Holds(s, k)
      /\ DOMAIN c = 1 .. Len(c) /\ Len(c) \in Nat
      /\ \A i \in 1 .. Len(s) : s[i] \in Rows
  BY <1>1, <1>2, SoundParts, LenProperties, ElementOfSeq
<1>4. n \in Nat /\ n <= Len(s) /\ n \in 0 .. Len(s)
  BY <1>1, <1>3, ThrottleAssumption
<1>5. Prune(m) = [store |-> last \o spared, candidates |-> left \o freed]
  BY DEF Prune
<1>6. /\ kept = {i \in 1 .. n : ~Expired(s[i])} /\ open = {i \in kept : ~Protected(s[i])}
      /\ others = {j \in DOMAIN c : \A i \in 1 .. n : s[i].key # c[j]}
      /\ last = SubSeq(s, n + 1, Len(s)) /\ spared = Picked(s, kept)
      /\ free = Picked(s, open) /\ left = Picked(c, others)
  BY <1>1, <1>2
<1>7. /\ kept \in SUBSET (1 .. n) /\ kept \in SUBSET (1 .. Len(s))
      /\ open \in SUBSET (1 .. Len(s)) /\ open \subseteq kept
      /\ others \in SUBSET (1 .. Len(c))
  <2>1. 1 .. n \subseteq 1 .. Len(s)
    BY <1>3, <1>4
  <2> QED
    BY <2>1, <1>3, <1>6
<1> HIDE DEF n, kept, open, others, last, spared, left, free
<1>8. /\ last \in Seq(Rows) /\ KeysApart(last) /\ Len(last) = Len(s) - n
      /\ \A j \in 1 .. Len(last) : last[j] = s[n + j]
  BY <1>3, <1>4, <1>6, LastRows
<1>9. /\ spared \in Seq(Rows) /\ KeysApart(spared)
      /\ \A e : Among(spared, e) <=> \E i \in kept : s[i] = e
  BY <1>3, <1>6, <1>7, PickedRows
<1>10. Len(spared) \in Nat /\ Len(spared) <= n
  <2>1. Len(spared) = Cardinality(kept)
    BY <1>3, <1>6, <1>7, PickedProperties
  <2>2. Cardinality(kept) \in Nat /\ Cardinality(kept) <= n
    BY <1>4, <1>7, RankIsBijection
  <2> QED
    BY <2>1, <2>2
<1>11. \A i \in 1 .. Len(last), j \in 1 .. Len(spared) : last[i].key # spared[j].key
  <2> SUFFICES ASSUME NEW i \in 1 .. Len(last), NEW j \in 1 .. Len(spared),
                      last[i].key = spared[j].key
               PROVE  FALSE
    OBVIOUS
  <2>1. PICK h \in kept : s[h] = spared[j]
    BY <1>9 DEF Among
  <2>2. h \in 1 .. n /\ h \in 1 .. Len(s)
    BY <1>7
  <2>3. n + i \in 1 .. Len(s) /\ last[i] = s[n + i] /\ n + i # h
    BY <2>2, <1>3, <1>4, <1>8
  <2> QED
    BY <2>1, <2>2, <2>3, <1>3 DEF KeysApart
<1>12. PICK t : t = last \o spared
  OBVIOUS
<1>13. /\ t \in Seq(Rows) /\ KeysApart(t) /\ Len(t) = Len(last) + Len(spared)
       /\ \A x : Among(t, x) <=> Among(last, x) \/ Among(spared, x)
  BY <1>8, <1>9, <1>11, <1>12, ConcatRows
<1>14. Len(t) <= MaxEntries
  <2>1. MaxEntries \in Nat
    BY ThrottleAssumption DEF Configured
  <2> QED
    BY <2>1, <1>3, <1>4, <1>8, <1>10, <1>13
(* Positions after the batch, and in it.                                    *)
<1>15. \A i \in 1 .. Len(s) : ~(i \in 1 .. n) => Among(t, s[i])
  <2> SUFFICES ASSUME NEW i \in 1 .. Len(s), ~(i \in 1 .. n)
               PROVE  Among(last, s[i])
    BY <1>13
  <2>1. i - n \in 1 .. Len(last) /\ n + (i - n) = i
    BY <1>3, <1>4, <1>8
  <2> QED
    BY <2>1, <1>8 DEF Among
<1>16. \A i \in kept : Among(t, s[i])
  BY <1>9, <1>13
<1>17. /\ free \in Seq(Rows) /\ KeysApart(free)
       /\ \A e : Among(free, e) <=> \E i \in open : s[i] = e
  BY <1>3, <1>6, <1>7, PickedRows
<1>18. /\ freed \in Seq(Keys) /\ Apart(freed)
       /\ \A x : Among(freed, x) => \E i \in open : s[i].key = x
  <2>1. /\ DOMAIN free = 1 .. Len(free) /\ Len(free) \in Nat
        /\ \A i \in 1 .. Len(free) : free[i] \in Rows
    BY <1>17, LenProperties, ElementOfSeq
  <2>2. \A i \in 1 .. Len(free) : free[i].key \in Keys
    BY <2>1 DEF Rows
  <2>3. freed \in [1 .. Len(free) -> Keys] /\ \A i \in 1 .. Len(free) : freed[i] = free[i].key
    BY <2>1, <2>2
  <2> HIDE DEF freed
  <2>4. freed \in Seq(Keys) /\ Len(freed) = Len(free)
    BY <2>1, <2>3
  <2>5. Apart(freed)
    BY <2>3, <2>4, <1>17 DEF Apart, KeysApart
  <2>6. ASSUME NEW x, Among(freed, x)
        PROVE  \E i \in open : s[i].key = x
    <3>1. PICK j \in 1 .. Len(free) : free[j].key = x
      BY <2>3, <2>4, <2>6 DEF Among
    <3>2. PICK i \in open : s[i] = free[j]
      BY <1>17 DEF Among
    <3> QED
      BY <3>1, <3>2
  <2> QED
    BY <2>4, <2>5, <2>6
<1> HIDE DEF freed
<1>19. /\ left \in Seq(Keys) /\ Apart(left)
       /\ \A x : Among(left, x) <=> \E j \in others : c[j] = x
  BY <1>3, <1>6, <1>7, PickedKeys
<1>20. ASSUME NEW x, Among(left, x)
       PROVE  Among(c, x) /\ \A i \in 1 .. n : s[i].key # x
  <2>1. PICK j \in others : c[j] = x
    BY <1>19, <1>20
  <2>2. j \in 1 .. Len(c)
    BY <1>7
  <2>3. \A i \in 1 .. n : s[i].key # c[j]
    BY <2>1, <1>6
  <2> QED
    BY <2>1, <2>2, <2>3 DEF Among
<1>21. \A i \in 1 .. Len(left), j \in 1 .. Len(freed) : left[i] # freed[j]
  <2> SUFFICES ASSUME NEW i \in 1 .. Len(left), NEW j \in 1 .. Len(freed), left[i] = freed[j]
               PROVE  FALSE
    OBVIOUS
  <2>1. Among(left, left[i]) /\ Among(freed, left[i])
    BY DEF Among
  <2>2. PICK h \in open : s[h].key = left[i]
    BY <2>1, <1>18
  <2> QED
    BY <2>1, <2>2, <1>7, <1>20
<1>22. PICK d : d = left \o freed
  OBVIOUS
<1>23. /\ d \in Seq(Keys) /\ Apart(d)
       /\ \A x : Among(d, x) <=> Among(left, x) \/ Among(freed, x)
  BY <1>18, <1>19, <1>21, <1>22, ConcatKeys
<1>24. ASSUME NEW x, Among(d, x)
       PROVE  Holds(t, x)
  <2>1. CASE Among(left, x)
    <3>1. PICK h \in 1 .. Len(s) : s[h].key = x
      BY <2>1, <1>3, <1>20 DEF Holds
    <3>2. Among(t, s[h])
      BY <3>1, <2>1, <1>15, <1>20
    <3> QED
      BY <3>1, <3>2, HoldsAmong
  <2>2. CASE Among(freed, x)
    <3>1. PICK h \in open : s[h].key = x
      BY <2>2, <1>18
    <3> QED
      BY <3>1, <1>7, <1>16, HoldsAmong
  <2> QED
    BY <2>1, <2>2, <1>23, <1>24
<1>25. Prune(m) = [store |-> t, candidates |-> d]
  BY <1>5, <1>12, <1>22
<1>26. Sound([store |-> t, candidates |-> d])
  BY <1>13, <1>14, <1>23, <1>24, SoundPair
<1>27. ASSUME NEW e, Among(t, e)
       PROVE  Among(s, e)
  <2>1. CASE Among(last, e)
    <3>1. PICK j \in 1 .. Len(last) : last[j] = e
      BY <2>1 DEF Among
    <3>2. n + j \in 1 .. Len(s) /\ s[n + j] = e
      BY <3>1, <1>3, <1>4, <1>8
    <3> QED
      BY <3>2 DEF Among
  <2>2. CASE Among(spared, e)
    BY <2>2, <1>7, <1>9 DEF Among
  <2> QED
    BY <2>1, <2>2, <1>13, <1>27
<1>28. ASSUME NEW e, Among(s, e), Protected(e)
       PROVE  Among(t, e)
  <2>1. PICK i \in 1 .. Len(s) : s[i] = e
    BY <1>28 DEF Among
  <2>2. ~Expired(e)
    <3>1. e.until \in Nat
      BY <2>1, <1>3 DEF Rows
    <3> QED
      BY <3>1, <1>28 DEF Expired, Protected
  <2>3. i \in 1 .. n => i \in kept
    BY <2>1, <2>2, <1>6
  <2> QED
    BY <2>1, <2>3, <1>15, <1>16
<1>29. Prune(m).store = t
  BY <1>25
<1> QED
  BY <1>1, <1>25, <1>26, <1>27, <1>28, <1>29 DEF Thins

-----------------------------------------------------------------------------
(* What every step does to a lock and to the budget that goes with it.      *)

BudgetKeys == {BudgetOf(k) : k \in LockKeys}

(* At the time t, for the lock of k and the n comparisons counted since it  *)
(* began: the budget is never overspent, it does not outlive its lock, and  *)
(* it has counted them all.                                                 *)
Bound(m, k, n, t) ==
  /\ \A f : Among(m.store, f) /\ f.key = BudgetOf(k) => f.n <= Budget
  /\ \A f : Among(m.store, f) /\ f.key = BudgetOf(k) /\ f.until > t =>
       \E e : Among(m.store, e) /\ e.key = k /\ e.until = f.until
  /\ \A e : Among(m.store, e) /\ e.key = k /\ e.until > t =>
       \/ n = 0
       \/ \E f : /\ Among(m.store, f) /\ f.key = BudgetOf(k)
                 /\ f.until = e.until /\ n <= f.n

(* Failures are counted and entries go: what runs stays, under the end it   *)
(* has, and no budget is added or changed.                                  *)
Counts(m, next) ==
  /\ \A e : Among(next.store, e) => Among(m.store, e) \/ e.key \notin BudgetKeys
  /\ \A e : Among(m.store, e) /\ Protected(e) =>
       \E x : /\ Among(next.store, x) /\ x.key = e.key /\ x.until = e.until
              /\ e.key \in BudgetKeys => x = e

InFlight ==
  /\ attempt \in [Attempts -> [pc : {"idle", "body", "compare"},
                               source : Sources \cup {Idle.source},
                               key : LockKeys \cup {Idle.key}, locked : BOOLEAN]]
  /\ \A r \in Attempts :
       /\ attempt[r].pc = "body" => attempt[r].source \in Sources
       /\ attempt[r].pc = "compare" =>
            /\ attempt[r].key \in LockKeys
            /\ attempt[r].key[1] = "acct" => attempt[r].source \in Sources

Budgets ==
  /\ compared \in [LockKeys -> Nat]
  /\ \A k \in LockKeys : Bound(Throttle, k, compared[k], now)

IInv == Sound(Throttle) /\ now \in Nat /\ InFlight /\ Budgets

LEMMA KeyFacts ==
  /\ LockKeys \subseteq Keys /\ BudgetKeys \subseteq Keys
  /\ \A k \in LockKeys : BudgetOf(k) \in BudgetKeys /\ k \notin BudgetKeys
  /\ \A j, k \in LockKeys : BudgetOf(j) = BudgetOf(k) => j = k
  /\ \A s \in Sources : <<"ip", s>> \in Keys /\ <<"ip", s>> \notin BudgetKeys
<1>1. \A k \in LockKeys : k = <<k[1], k[2]>> /\ k[1] \in {"acct", "pwchg"}
  BY DEF LockKeys
<1>2. \A k \in LockKeys :
        \/ k[1] = "acct" /\ BudgetOf(k) = <<"cmpl", k[2]>>
        \/ k[1] = "pwchg" /\ BudgetOf(k) = <<"pwcmp", k[2]>>
  BY <1>1 DEF BudgetOf
<1>3. \A j, k \in LockKeys : BudgetOf(j) # k
  BY <1>1, <1>2
<1>4. \A j, k \in LockKeys : BudgetOf(j) = BudgetOf(k) => j = k
  BY <1>1, <1>2
<1>5. \A s \in Sources, k \in LockKeys : <<"ip", s>> # BudgetOf(k)
  BY <1>2
<1> QED
  BY <1>3, <1>4, <1>5 DEF Keys, BudgetKeys

LEMMA CountsFacts ==
  ASSUME NEW m, NEW next, Sound(m), Sound(next), Counts(m, next)
  PROVE  \A k : Locked(m, k) => Stored(next, k) /\ Entry(next, k).until = Entry(m, k).until
<1> SUFFICES ASSUME NEW k, Locked(m, k)
             PROVE  Stored(next, k) /\ Entry(next, k).until = Entry(m, k).until
  OBVIOUS
<1>1. PICK e : e = Entry(m, k)
  OBVIOUS
<1>2. Among(m.store, e) /\ e.key = k /\ Protected(e)
  BY <1>1, EntryFacts DEF Locked, Protected
<1>3. PICK x : Among(next.store, x) /\ x.key = k /\ x.until = e.until
  BY <1>2 DEF Counts
<1>4. Stored(next, k) /\ Entry(next, k) = x
  BY <1>3, EntryFacts
<1> QED
  BY <1>1, <1>3, <1>4

LEMMA ThinsCounts ==
  ASSUME NEW m, NEW less, Thins(m, less)
  PROVE  Counts(m, less)
BY DEF Thins, Counts

LEMMA CountsTwice ==
  ASSUME NEW m, NEW next, NEW last, Counts(m, next), Counts(next, last)
  PROVE  Counts(m, last)
<1>1. ASSUME NEW e, Among(last.store, e)
      PROVE  Among(m.store, e) \/ e.key \notin BudgetKeys
  BY <1>1 DEF Counts
<1>2. ASSUME NEW e, Among(m.store, e), Protected(e)
      PROVE  \E x : /\ Among(last.store, x) /\ x.key = e.key /\ x.until = e.until
                    /\ e.key \in BudgetKeys => x = e
  <2>1. PICK y : /\ Among(next.store, y) /\ y.key = e.key /\ y.until = e.until
                 /\ e.key \in BudgetKeys => y = e
    BY <1>2 DEF Counts
  <2>2. Protected(y)
    BY <1>2, <2>1 DEF Protected
  <2>3. PICK x : /\ Among(last.store, x) /\ x.key = y.key /\ x.until = y.until
                 /\ y.key \in BudgetKeys => x = y
    BY <2>1, <2>2 DEF Counts
  <2> QED
    BY <2>1, <2>3
<1> QED
  BY <1>1, <1>2 DEF Counts

(* Counting a failure.                                                      *)
LEMMA CountedFacts ==
  ASSUME NEW e \in Rows, now \in Nat
  PROVE  /\ Counted(e) \in Rows /\ Counted(e).key = e.key
         /\ Protected(e) => Counted(e).until = e.until
<1> DEFINE over == now - e.start > Window /\ now >= e.start
           n == (IF over THEN 0 ELSE e.n) + 1
           start == IF over THEN now ELSE e.start
           until == IF n >= Threshold /\ e.until <= now THEN now + Lockout ELSE e.until
<1>1. /\ Threshold \in Nat /\ Lockout \in Nat /\ e.n \in Nat /\ e.start \in Nat
      /\ e.until \in Nat /\ e.key \in Keys /\ e.kind \in {"failure", "budget"}
  BY ThrottleAssumption DEF Configured, Rows
<1>2. n \in Nat /\ start \in Nat /\ until \in Nat
  BY <1>1
<1>3. Counted(e) = [e EXCEPT !.n = n, !.start = start, !.until = until]
  BY DEF Counted
<1>4. Protected(e) => until = e.until
  BY <1>1 DEF Protected
<1> HIDE DEF n, start, until
<1>5. Counted(e) \in Rows /\ Counted(e).key = e.key /\ Counted(e).until = until
  BY <1>1, <1>2, <1>3 DEF Rows
<1> QED
  BY <1>4, <1>5

LEMMA RecordKeeps ==
  ASSUME NEW m, Sound(m), NEW k \in Keys, k \notin BudgetKeys, now \in Nat
  PROVE  Sound(RecordFailure(m, k)) /\ Counts(m, RecordFailure(m, k))
<1>1. CASE Stored(m, k)
  <2>1. PICK e : e = Entry(m, k)
    OBVIOUS
  <2>2. e \in Rows /\ e.key = k /\ Among(m.store, e)
    BY <1>1, <2>1, EntryFacts
  <2>3. PICK x : x = Counted(e)
    OBVIOUS
  <2>4. x \in Rows /\ x.key = k /\ (Protected(e) => x.until = e.until)
    BY <2>2, <2>3, CountedFacts
  <2>5. PICK next : next = Renew(m, x)
    OBVIOUS
  <2>6. /\ Sound(next)
        /\ \A y : Among(next.store, y) <=> y = x \/ (Among(m.store, y) /\ y.key # k)
    BY <1>1, <2>4, <2>5, RenewKeeps
  <2>7. ASSUME NEW y, Among(m.store, y), Protected(y)
        PROVE  \E z : /\ Among(next.store, z) /\ z.key = y.key /\ z.until = y.until
                      /\ y.key \in BudgetKeys => z = y
    <3>1. CASE y.key = k
      <4>1. y = e
        BY <2>1, <2>7, <3>1, EntryFacts
      <4> QED
        BY <4>1, <3>1, <2>4, <2>6, <2>7
    <3>2. CASE y.key # k
      BY <3>2, <2>6, <2>7
    <3> QED
      BY <3>1, <3>2
  <2>8. Counts(m, next)
    BY <2>4, <2>6, <2>7 DEF Counts
  <2>9. RecordFailure(m, k) = next
    BY <1>1, <2>1, <2>3, <2>5 DEF RecordFailure
  <2> QED
    BY <2>6, <2>8, <2>9
<1>2. CASE ~Stored(m, k)
  <2>1. PICK room : room = MakeRoom(m)
    OBVIOUS
  <2>2. Sound(room) /\ Thins(m, room)
    BY <2>1, MakeRoomKeeps
  <2>3. Counts(m, room)
    BY <2>2, ThinsCounts
  <2>4. ~Stored(room, k)
    BY <1>2, <2>2, ThinsFacts
  <2>5. CASE ~Fits(room)
    BY <1>2, <2>1, <2>2, <2>3, <2>5 DEF RecordFailure
  <2>6. CASE Fits(room)
    <3>1. PICK e : e = Fresh(k)
      OBVIOUS
    <3>2. e \in Rows /\ e.key = k
      BY <3>1 DEF Fresh, Rows
    <3>3. PICK x : x = Counted(e)
      OBVIOUS
    <3>4. x \in Rows /\ x.key = k
      BY <3>2, <3>3, CountedFacts
    <3>5. PICK next : next = Renew(room, x)
      OBVIOUS
    <3>6. /\ Sound(next)
          /\ \A y : Among(next.store, y) <=> y = x \/ (Among(room.store, y) /\ y.key # k)
      BY <2>2, <2>6, <3>4, <3>5, RenewKeeps
    <3>7. \A y : Among(room.store, y) => y.key # k
      BY <2>2, <2>4, EntryFacts
    <3>8. Counts(room, next)
      BY <3>4, <3>6, <3>7 DEF Counts
    <3>9. RecordFailure(m, k) = next
      BY <1>2, <2>1, <2>6, <3>1, <3>3, <3>5 DEF RecordFailure
    <3> QED
      BY <2>3, <3>6, <3>8, <3>9, CountsTwice
  <2> QED
    BY <2>5, <2>6
<1> QED
  BY <1>1, <1>2

(* A budget binds after such a step, from the lock that still runs.         *)
LEMMA BoundCounts ==
  ASSUME NEW m, NEW next, Counts(m, next), NEW k \in LockKeys, NEW n, NEW later,
         Bound(m, k, n, now),
         \A e : Among(next.store, e) /\ e.key = k /\ Protected(e) =>
           \/ later = 0
           \/ later = n /\ \E x : Among(m.store, x) /\ x.key = k /\ x.until = e.until
  PROVE  Bound(next, k, later, now)
<1>1. BudgetOf(k) \in BudgetKeys
  BY KeyFacts
<1>2. ASSUME NEW f, Among(next.store, f), f.key = BudgetOf(k)
      PROVE  Among(m.store, f)
  BY <1>1, <1>2 DEF Counts
<1>3. \A f : Among(next.store, f) /\ f.key = BudgetOf(k) => f.n <= Budget
  BY <1>2 DEF Bound
<1>4. ASSUME NEW f, Among(next.store, f), f.key = BudgetOf(k), f.until > now
      PROVE  \E e : Among(next.store, e) /\ e.key = k /\ e.until = f.until
  <2>1. PICK e : Among(m.store, e) /\ e.key = k /\ e.until = f.until
    BY <1>2, <1>4 DEF Bound
  <2>2. Protected(e)
    BY <1>4, <2>1 DEF Protected
  <2> QED
    BY <2>1, <2>2 DEF Counts
<1>5. ASSUME NEW e, Among(next.store, e), e.key = k, e.until > now, later # 0
      PROVE  \E f : /\ Among(next.store, f) /\ f.key = BudgetOf(k)
                    /\ f.until = e.until /\ later <= f.n
  <2>1. Protected(e)
    BY <1>5 DEF Protected
  <2>2. PICK x : Among(m.store, x) /\ x.key = k /\ x.until = e.until
    BY <1>5, <2>1
  <2>3. later = n
    BY <1>5, <2>1
  <2>4. PICK f : Among(m.store, f) /\ f.key = BudgetOf(k) /\ f.until = x.until /\ n <= f.n
    BY <1>5, <2>2, <2>3 DEF Bound
  <2>5. Protected(f)
    BY <1>5, <2>2, <2>4 DEF Protected
  <2>6. Among(next.store, f)
    BY <1>1, <2>4, <2>5 DEF Counts
  <2> QED
    BY <2>2, <2>3, <2>4, <2>6
<1> QED
  BY <1>3, <1>4, <1>5 DEF Bound

(* It binds where the two entries are untouched.                            *)
LEMMA BoundElsewhere ==
  ASSUME NEW m, NEW next, NEW k, NEW n, NEW later, Bound(m, k, n, now),
         later \in {0, n},
         \A x : x.key \in {k, BudgetOf(k)} => (Among(next.store, x) <=> Among(m.store, x))
  PROVE  Bound(next, k, later, now)
BY DEF Bound

(* A lock that runs is still there, under the same end.                     *)
Held(m, next) ==
  \A k : Locked(m, k) => Stored(next, k) /\ Entry(next, k).until = Entry(m, k).until

LEMMA BoundThins ==
  ASSUME NEW m, NEW less, Thins(m, less), NEW k \in LockKeys, NEW n, Bound(m, k, n, now)
  PROVE  Bound(less, k, n, now)
<1>1. \A e : Among(less.store, e) /\ e.key = k =>
        \E x : Among(m.store, x) /\ x.key = k /\ x.until = e.until
  BY DEF Thins
<1> QED
  BY <1>1, ThinsCounts, BoundCounts

LEMMA HeldThins ==
  ASSUME NEW m, NEW less, Sound(m), Sound(less), Thins(m, less)
  PROVE  Held(m, less)
BY ThinsFacts DEF Held, Locked, Protected

(* The locks that are held through a thinned store are held from the first. *)
LEMMA HeldTwice ==
  ASSUME NEW m, NEW less, NEW next, Sound(m), Sound(less), Thins(m, less), Held(less, next)
  PROVE  Held(m, next)
<1> SUFFICES ASSUME NEW k, Locked(m, k)
             PROVE  Stored(next, k) /\ Entry(next, k).until = Entry(m, k).until
  BY DEF Held
<1>1. Locked(less, k)
  BY ThinsFacts
<1>2. Entry(less, k).until = Entry(m, k).until
  BY HeldThins DEF Held
<1> QED
  BY <1>1, <1>2 DEF Held

(* One more comparison under the budget of a lock.                          *)
LEMMA SpendKeeps ==
  ASSUME NEW m, Sound(m), now \in Nat, NEW k \in LockKeys, Locked(m, k),
         NEW until, until = Entry(m, k).until, Admits(m, BudgetOf(k), until),
         NEW n \in Nat, Bound(m, k, n, now)
  PROVE  LET next == Spend(m, BudgetOf(k), until) IN
         /\ Sound(next) /\ Held(m, next) /\ Bound(next, k, n + 1, now)
         /\ \A x : x.key # BudgetOf(k) /\ Among(next.store, x) => Among(m.store, x)
         /\ \A p : \A j \in LockKeys : j # k /\ Bound(m, j, p, now) => Bound(next, j, p, now)
<1>1. PICK b : b = BudgetOf(k)
  OBVIOUS
<1>2. b \in Keys /\ b # k /\ b \in BudgetKeys
  BY <1>1, KeyFacts
<1>3. PICK lock : lock = Entry(m, k)
  OBVIOUS
<1>4. /\ lock \in Rows /\ lock.key = k /\ Among(m.store, lock) /\ Protected(lock)
      /\ lock.until = until /\ until \in Nat
  <2>1. lock \in Rows /\ lock.key = k /\ Among(m.store, lock) /\ Protected(lock)
    BY <1>3, EntryFacts DEF Locked, Protected
  <2> QED
    BY <2>1, <1>3 DEF Rows
<1>5. PICK room : room = BudgetRoom(m, b)
  OBVIOUS
<1>6. Sound(room) /\ Thins(m, room)
  BY <1>5, BudgetRoomKeeps
<1>7. Among(room.store, lock)
  BY <1>4, <1>6 DEF Thins
<1>8. Bound(room, k, n, now)
  BY <1>6, BoundThins
<1>9. PICK old : old = BudgetEntry(room, b, until)
  OBVIOUS
<1>10. old.n < Budget /\ (Stored(room, b) \/ Fits(room))
  <2>1. Stored(m, b) => room = m
    BY <1>5 DEF BudgetRoom
  <2> QED
    BY <2>1, <1>1, <1>5, <1>9 DEF Admits
<1>11. /\ old \in Rows /\ old.key = b /\ old.until = until
       /\ Stored(room, b) /\ Entry(room, b).until = until => old = Entry(room, b)
  <2>1. CASE Stored(room, b)
    <3>1. PICK e : e = Entry(room, b)
      OBVIOUS
    <3>2. e \in Rows /\ e.key = b
      BY <2>1, <3>1, <1>6, EntryFacts
    <3>3. old = IF e.until = until THEN e ELSE [e EXCEPT !.n = 0, !.until = until]
      BY <2>1, <3>1, <1>9 DEF BudgetEntry, Epoch
    <3>4. [e EXCEPT !.n = 0, !.until = until] \in Rows
          /\ [e EXCEPT !.n = 0, !.until = until].key = b
          /\ [e EXCEPT !.n = 0, !.until = until].until = until
      BY <3>2, <1>4 DEF Rows
    <3> QED
      BY <3>1, <3>2, <3>3, <3>4
  <2>2. CASE ~Stored(room, b)
    BY <2>2, <1>2, <1>4, <1>9 DEF BudgetEntry, NewBudget, Rows
  <2> QED
    BY <2>1, <2>2
<1>12. PICK e : e = [old EXCEPT !.n = @ + 1]
  OBVIOUS
<1>13. /\ e \in Rows /\ e.key = b /\ e.until = until /\ e.n = old.n + 1
       /\ old.n \in Nat /\ Budget \in Nat
  BY <1>11, <1>12, ThrottleAssumption DEF Rows, Configured
<1>14. PICK next : next = Renew(room, e)
  OBVIOUS
<1>15. /\ Sound(next)
       /\ \A x : Among(next.store, x) <=> x = e \/ (Among(room.store, x) /\ x.key # b)
  BY <1>6, <1>10, <1>13, <1>14, RenewKeeps
<1>16. Spend(m, BudgetOf(k), until) = next
  BY <1>1, <1>5, <1>9, <1>12, <1>14 DEF Spend
<1>17. Bound(next, k, n + 1, now)
  <2>1. ASSUME NEW f, Among(next.store, f), f.key = b
        PROVE  f = e
    BY <2>1, <1>15
  <2>2. Among(next.store, e) /\ Among(next.store, lock)
    BY <1>2, <1>4, <1>7, <1>15
  <2>3. ASSUME NEW x, Among(next.store, x), x.key = k
        PROVE  x = lock
    <3>1. Among(room.store, x)
      BY <2>3, <1>2, <1>13, <1>15
    <3>2. x = Entry(room, k) /\ lock = Entry(room, k)
      BY <2>3, <3>1, <1>4, <1>6, <1>7, EntryFacts
    <3> QED
      BY <3>2
  <2>4. n + 1 <= e.n
    <3>1. CASE n = 0
      BY <3>1, <1>13
    <3>2. CASE n # 0
      <4>1. PICK f : Among(room.store, f) /\ f.key = b /\ f.until = until /\ n <= f.n
        BY <3>2, <1>1, <1>4, <1>7, <1>8 DEF Bound, Protected
      <4>2. Stored(room, b) /\ Entry(room, b) = f
        BY <4>1, <1>6, EntryFacts
      <4>3. old = f
        BY <4>1, <4>2, <1>11
      <4> QED
        BY <4>1, <4>3, <1>13
    <3> QED
      BY <3>1, <3>2
  <2>5. e.n <= Budget
    BY <1>10, <1>13
  <2>6. \A f : Among(next.store, f) /\ f.key = b => f.n <= Budget
    BY <2>1, <2>5
  <2>7. \A f : Among(next.store, f) /\ f.key = b /\ f.until > now =>
          \E x : Among(next.store, x) /\ x.key = k /\ x.until = f.until
    BY <2>1, <2>2, <1>4, <1>13
  <2>8. \A x : Among(next.store, x) /\ x.key = k /\ x.until > now =>
          \E f : Among(next.store, f) /\ f.key = b /\ f.until = x.until /\ n + 1 <= f.n
    BY <2>2, <2>3, <2>4, <1>4, <1>13
  <2> QED
    BY <2>6, <2>7, <2>8, <1>1 DEF Bound
<1>18. ASSUME NEW j \in LockKeys, NEW p, j # k, Bound(m, j, p, now)
       PROVE  Bound(next, j, p, now)
  <2>1. Bound(room, j, p, now)
    BY <1>6, <1>18, BoundThins
  <2>2. j # b /\ BudgetOf(j) # b
    BY <1>1, <1>2, <1>18, KeyFacts
  <2>3. \A x : x.key \in {j, BudgetOf(j)} => (Among(next.store, x) <=> Among(room.store, x))
    BY <2>2, <1>13, <1>15
  <2> QED
    BY <2>1, <2>3, BoundElsewhere
<1>19. \A x : x.key # b /\ Among(next.store, x) => Among(m.store, x)
  BY <1>6, <1>13, <1>15 DEF Thins
<1>20. ASSUME NEW j, Locked(m, j)
       PROVE  Stored(next, j) /\ Entry(next, j).until = Entry(m, j).until
  <2>1. PICK x : x = Entry(m, j)
    OBVIOUS
  <2>2. Among(m.store, x) /\ x.key = j /\ Protected(x)
    BY <2>1, <1>20, EntryFacts DEF Locked, Protected
  <2>3. CASE j = b
    <3>1. PICK y : Among(m.store, y) /\ y.key = k /\ y.until = x.until
      BY <2>2, <2>3, <1>1 DEF Bound, Protected
    <3>2. y = lock
      BY <3>1, <1>3, EntryFacts
    <3>3. Stored(next, j) /\ Entry(next, j) = e
      BY <2>3, <1>13, <1>15, EntryFacts
    <3> QED
      BY <2>1, <3>1, <3>2, <3>3, <1>4, <1>13
  <2>4. CASE j # b
    <3>1. Among(next.store, x)
      BY <2>2, <2>4, <1>6, <1>15 DEF Thins
    <3> QED
      BY <2>1, <2>2, <3>1, <1>15, EntryFacts
  <2> QED
    BY <2>3, <2>4
<1> QED
  BY <1>1, <1>15, <1>16, <1>17, <1>18, <1>19, <1>20 DEF Held

-----------------------------------------------------------------------------
(* The steps.                                                               *)

LEMMA Became ==
  ASSUME NEW m, Sound(m), Becomes(m)
  PROVE  Throttle' = m
BY SoundParts DEF Becomes, Throttle

LEMMA InitInv ==
  Init => IInv
<1> SUFFICES ASSUME Init
             PROVE  IInv
  OBVIOUS
<1>1. store = <<>> /\ candidates = <<>> /\ now = Window + 1
  BY DEF Init
<1>2. now \in Nat
  BY <1>1, ThrottleAssumption DEF Configured
<1>3. Sound(Throttle)
  <2>1. KeysApart(store) /\ Apart(candidates) /\ \A k : ~Among(candidates, k)
    BY <1>1 DEF KeysApart, Apart, Among
  <2>2. store \in Seq(Rows) /\ candidates \in Seq(Keys) /\ Len(store) <= MaxEntries
    BY <1>1, ThrottleAssumption DEF Configured
  <2> QED
    BY <2>1, <2>2, SoundPair DEF Throttle
<1>4. InFlight
  <2>1. /\ Idle.pc = "idle" /\ Idle.locked = FALSE
        /\ Idle = [pc |-> Idle.pc, source |-> Idle.source, key |-> Idle.key,
                   locked |-> Idle.locked]
    BY DEF Idle
  <2>2. attempt = [r \in Attempts |-> Idle]
    BY DEF Init
  <2>3. Idle \in [pc : {"idle", "body", "compare"}, source : Sources \cup {Idle.source},
                  key : LockKeys \cup {Idle.key}, locked : BOOLEAN]
    BY <2>1
  <2> QED
    BY <2>1, <2>2, <2>3 DEF InFlight
<1>5. Budgets
  <2>1. \A x : ~Among(Throttle.store, x)
    BY <1>1 DEF Throttle, Among
  <2>2. compared = [k \in LockKeys |-> 0]
    BY DEF Init
  <2> QED
    BY <2>1, <2>2 DEF Budgets, Bound
<1> QED
  BY <1>2, <1>3, <1>4, <1>5 DEF IInv

(* The attempt of r moves on to a or is over.                               *)
LEMMA InFlightKept ==
  ASSUME InFlight, NEW r \in Attempts,
         NEW a \in [pc : {"idle", "body", "compare"}, source : Sources \cup {Idle.source},
                    key : LockKeys \cup {Idle.key}, locked : BOOLEAN],
         attempt' = [attempt EXCEPT ![r] = a],
         a.pc = "body" => a.source \in Sources,
         a.pc = "compare" => a.key \in LockKeys /\ (a.key[1] = "acct" => a.source \in Sources)
  PROVE  InFlight'
<1>1. attempt' \in [Attempts -> [pc : {"idle", "body", "compare"},
                                 source : Sources \cup {Idle.source},
                                 key : LockKeys \cup {Idle.key}, locked : BOOLEAN]]
  BY DEF InFlight
<1>2. \A q \in Attempts : attempt'[q] = IF q = r THEN a ELSE attempt[q]
  BY DEF InFlight
<1>3. \A q \in Attempts :
        /\ attempt'[q].pc = "body" => attempt'[q].source \in Sources
        /\ attempt'[q].pc = "compare" =>
             /\ attempt'[q].key \in LockKeys
             /\ attempt'[q].key[1] = "acct" => attempt'[q].source \in Sources
  BY <1>2 DEF InFlight
<1> QED
  BY <1>1, <1>3 DEF InFlight

LEMMA IdleFacts ==
  /\ Idle.pc = "idle"
  /\ Idle \in [pc : {"idle", "body", "compare"}, source : Sources \cup {Idle.source},
               key : LockKeys \cup {Idle.key}, locked : BOOLEAN]
<1>1. /\ Idle.pc = "idle" /\ Idle.locked = FALSE
      /\ Idle = [pc |-> Idle.pc, source |-> Idle.source, key |-> Idle.key,
                 locked |-> Idle.locked]
  BY DEF Idle
<1> QED
  BY <1>1

(* Nothing is spent: the budgets bind in a thinned store as they did.       *)
LEMMA BudgetsThinned ==
  ASSUME IInv, NEW m, Sound(m), Thins(Throttle, m), Becomes(m),
         compared' = compared, now' = now
  PROVE  Sound(Throttle)' /\ (now \in Nat)' /\ Budgets' /\ Held(Throttle, Throttle')
<1>1. Throttle' = m
  BY Became
<1>2. \A k \in LockKeys : Bound(m, k, compared[k], now)
  BY BoundThins DEF IInv, Budgets
<1>3. Sound(Throttle') /\ now' \in Nat
  BY <1>1 DEF IInv
<1>4. Budgets'
  BY <1>1, <1>2 DEF IInv, Budgets
<1>5. Held(Throttle, m)
  BY HeldThins DEF IInv
<1> QED
  BY <1>1, <1>3, <1>4, <1>5

LEMMA ArriveStep ==
  ASSUME IInv, NEW r \in Attempts, NEW s \in Sources, Arrive(r, s)
  PROVE  IInv' /\ Held(Throttle, Throttle')
<1>1. PICK m : m = Prune(Throttle)
  OBVIOUS
<1>2. Sound(m) /\ Thins(Throttle, m)
  BY <1>1, PruneKeeps DEF IInv
<1>3. PICK seen : seen = Look(m, <<"ip", s>>)
  OBVIOUS
<1>4. Sound(seen) /\ Thins(Throttle, seen)
  BY <1>2, <1>3, LookKeeps, ThinsTwice
<1>5. /\ Becomes(seen) /\ compared' = compared /\ now' = now
      /\ \/ attempt' = attempt
         \/ attempt' = [attempt EXCEPT ![r] = [Idle EXCEPT !.pc = "body", !.source = s]]
  BY <1>1, <1>3 DEF Arrive
<1>6. InFlight'
  <2>1. CASE attempt' = attempt
    BY <2>1 DEF IInv, InFlight
  <2>2. CASE attempt' = [attempt EXCEPT ![r] = [Idle EXCEPT !.pc = "body", !.source = s]]
    <3>1. PICK a : a = [Idle EXCEPT !.pc = "body", !.source = s]
      OBVIOUS
    <3>2. /\ a \in [pc : {"idle", "body", "compare"}, source : Sources \cup {Idle.source},
                    key : LockKeys \cup {Idle.key}, locked : BOOLEAN]
          /\ a.pc = "body" /\ a.source = s
      BY <3>1, IdleFacts
    <3> QED
      BY <2>2, <3>1, <3>2, InFlightKept DEF IInv
  <2> QED
    BY <1>5, <2>1, <2>2
<1> QED
  BY <1>4, <1>5, <1>6, BudgetsThinned DEF IInv

(* The account axis, whatever was pruned before.                            *)
LEMMA AdmitStep ==
  ASSUME IInv, NEW r \in Attempts, NEW k \in LockKeys, NEW m, Sound(m), Thins(Throttle, m),
         Admit(r, k, m), now' = now, k[1] = "acct" => attempt[r].source \in Sources
  PROVE  IInv' /\ Held(Throttle, Throttle')
<1>1. PICK seen : seen = Look(m, k)
  OBVIOUS
<1>2. Sound(seen) /\ Thins(m, seen) /\ Thins(Throttle, seen)
  BY <1>1, LookKeeps, ThinsTwice
<1>3. PICK b : b = BudgetOf(k)
  OBVIOUS
<1>4. PICK until : until = Entry(m, k).until
  OBVIOUS
<1>5. attempt[r] \in [pc : {"idle", "body", "compare"}, source : Sources \cup {Idle.source},
                      key : LockKeys \cup {Idle.key}, locked : BOOLEAN]
  BY DEF IInv, InFlight
<1>6. ASSUME NEW l \in BOOLEAN,
             attempt' = [attempt EXCEPT ![r].pc = "compare", ![r].key = k, ![r].locked = l]
      PROVE  InFlight'
  <2>1. PICK a : a = [attempt[r] EXCEPT !.pc = "compare", !.key = k, !.locked = l]
    OBVIOUS
  <2>2. /\ a \in [pc : {"idle", "body", "compare"}, source : Sources \cup {Idle.source},
                  key : LockKeys \cup {Idle.key}, locked : BOOLEAN]
        /\ a.pc = "compare" /\ a.key = k /\ a.source = attempt[r].source
    BY <2>1, <1>5
  <2>3. attempt' = [attempt EXCEPT ![r] = a]
    BY <1>6, <2>1 DEF IInv, InFlight
  <2> QED
    BY <2>2, <2>3, InFlightKept DEF IInv
<1>7. CASE ~Locked(m, k)
  <2>1. /\ Becomes(seen) /\ compared' = compared
        /\ attempt' = [attempt EXCEPT ![r].pc = "compare", ![r].key = k, ![r].locked = FALSE]
    BY <1>1, <1>7 DEF Admit
  <2>2. InFlight'
    BY <1>6, <2>1
  <2> QED
    BY <1>2, <2>1, <2>2, BudgetsThinned DEF IInv
<1>8. CASE Locked(m, k) /\ ~Admits(seen, b, until)
  <2>1. PICK room : room = BudgetRoom(seen, b)
    OBVIOUS
  <2>2. Sound(room) /\ Thins(Throttle, room)
    BY <1>2, <2>1, BudgetRoomKeeps, ThinsTwice
  <2>3. Becomes(room) /\ compared' = compared /\ attempt' = [attempt EXCEPT ![r] = Idle]
    BY <1>1, <1>3, <1>4, <1>8, <2>1 DEF Admit
  <2>4. InFlight'
    BY <2>3, IdleFacts, InFlightKept DEF IInv
  <2> QED
    BY <2>2, <2>3, <2>4, BudgetsThinned DEF IInv
<1>9. CASE Locked(m, k) /\ Admits(seen, b, until)
  <2>1. PICK next : next = Spend(seen, b, until)
    OBVIOUS
  <2>2. /\ Becomes(next) /\ compared' = [compared EXCEPT ![k] = @ + 1]
        /\ attempt' = [attempt EXCEPT ![r].pc = "compare", ![r].key = k, ![r].locked = TRUE]
    BY <1>1, <1>3, <1>4, <1>9, <2>1 DEF Admit
  <2>3. InFlight'
    BY <1>6, <2>2
  <2>4. Locked(seen, k) /\ until = Entry(seen, k).until
    <3>1. Locked(seen, k)
      BY <1>2, <1>9, ThinsFacts
    <3>2. Entry(seen, k) = Entry(m, k)
      BY <1>2, <3>1, ThinsFacts DEF Locked
    <3> QED
      BY <3>1, <3>2, <1>4
  <2>5. \A j \in LockKeys : compared[j] \in Nat /\ Bound(seen, j, compared[j], now)
    BY <1>2, BoundThins DEF IInv, Budgets
  <2>6. now \in Nat
    BY DEF IInv
  <2>7. /\ Sound(next) /\ Held(seen, next) /\ Bound(next, k, compared[k] + 1, now)
        /\ \A j \in LockKeys : j # k => Bound(next, j, compared[j], now)
    BY <1>2, <1>3, <1>9, <2>1, <2>4, <2>5, <2>6, SpendKeeps
  <2>8. Throttle' = next
    BY <2>2, <2>7, Became
  <2>9. compared' \in [LockKeys -> Nat]
        /\ \A j \in LockKeys : compared'[j] = IF j = k THEN compared[k] + 1 ELSE compared[j]
    BY <2>2 DEF IInv, Budgets
  <2>10. \A j \in LockKeys : Bound(next, j, compared'[j], now)
    <3> SUFFICES ASSUME NEW j \in LockKeys
                 PROVE  Bound(next, j, compared'[j], now)
      OBVIOUS
    <3>1. CASE j = k
      BY <3>1, <2>7, <2>9
    <3>2. CASE j # k
      BY <3>2, <2>7, <2>9
    <3> QED
      BY <3>1, <3>2
  <2>11. Budgets'
    BY <2>8, <2>9, <2>10 DEF Budgets
  <2>12. Held(Throttle, next)
    BY <1>2, <2>7, HeldTwice DEF IInv
  <2>13. now' \in Nat
    BY <2>6
  <2> QED
    BY <2>3, <2>7, <2>8, <2>11, <2>12, <2>13 DEF IInv
<1> QED
  BY <1>7, <1>8, <1>9

LEMMA IdentifyStep ==
  ASSUME IInv, NEW r \in Attempts, NEW a \in Accounts, Identify(r, a)
  PROVE  IInv' /\ Held(Throttle, Throttle')
<1>1. PICK k : k = <<"acct", a>>
  OBVIOUS
<1>2. k \in LockKeys /\ attempt[r].source \in Sources
  BY <1>1 DEF LockKeys, Identify, IInv, InFlight
<1>3. Admit(r, k, Throttle) /\ now' = now
  BY <1>1 DEF Identify
<1>4. Sound(Throttle) /\ Thins(Throttle, Throttle)
  BY SameStoreThins DEF IInv
<1> QED
  BY <1>2, <1>3, <1>4, AdmitStep

LEMMA RotateStep ==
  ASSUME IInv, NEW r \in Attempts, NEW a \in Rotating, Rotate(r, a)
  PROVE  IInv' /\ Held(Throttle, Throttle')
<1>1. PICK k : k = <<"pwchg", a>>
  OBVIOUS
<1>2. k \in LockKeys /\ k[1] # "acct"
  BY <1>1 DEF LockKeys
<1>3. PICK m : m = Prune(Throttle)
  OBVIOUS
<1>4. Sound(m) /\ Thins(Throttle, m)
  BY <1>3, PruneKeeps DEF IInv
<1>5. Admit(r, k, m) /\ now' = now
  BY <1>1, <1>3 DEF Rotate
<1> QED
  BY <1>2, <1>4, <1>5, AdmitStep

(* After a comparison: the counters follow the locks.                       *)
LEMMA BudgetsAfter ==
  ASSUME IInv, NEW m, Sound(m), Becomes(m), LocksAfter(m), now' = now,
         \A k \in LockKeys : \A later \in {0, compared[k]} :
           (later = 0 \/ (/\ Stored(Throttle, k) /\ Stored(m, k)
                          /\ Entry(Throttle, k).until = Entry(m, k).until))
             => Bound(m, k, later, now)
  PROVE  Sound(Throttle)' /\ (now \in Nat)' /\ Budgets' /\ Throttle' = m
<1>1. Throttle' = m
  BY Became
<1>2. \A k \in LockKeys : compared[k] \in Nat
  BY DEF IInv, Budgets
<1>3. compared' = [k \in LockKeys |->
                     IF Stored(Throttle, k) /\ Stored(m, k)
                        /\ Entry(Throttle, k).until = Entry(m, k).until
                     THEN compared[k] ELSE 0]
  BY DEF LocksAfter
<1>4. compared' \in [LockKeys -> Nat]
  BY <1>2, <1>3
<1>5. ASSUME NEW k \in LockKeys
      PROVE  Bound(m, k, compared'[k], now)
  <2>1. CASE Stored(Throttle, k) /\ Stored(m, k) /\ Entry(Throttle, k).until = Entry(m, k).until
    <3>1. compared'[k] = compared[k]
      BY <2>1, <1>3
    <3> QED
      BY <2>1, <3>1
  <2>2. CASE ~(Stored(Throttle, k) /\ Stored(m, k)
               /\ Entry(Throttle, k).until = Entry(m, k).until)
    <3>1. compared'[k] = 0
      BY <2>2, <1>3
    <3> QED
      BY <3>1
  <2> QED
    BY <2>1, <2>2
<1>6. Sound(Throttle') /\ now' \in Nat
  BY <1>1 DEF IInv
<1>7. Budgets'
  BY <1>1, <1>4, <1>5 DEF Budgets
<1> QED
  BY <1>1, <1>6, <1>7

LEMMA FailStep ==
  ASSUME IInv, NEW r \in Attempts, Fail(r)
  PROVE  IInv' /\ Held(Throttle, Throttle')
<1>1. PICK k : k = attempt[r].key
  OBVIOUS
<1>2. PICK p : p = <<"ip", attempt[r].source>>
  OBVIOUS
<1>3. PICK m1 : m1 = IF k[1] = "acct" THEN RecordFailure(Throttle, p) ELSE Throttle
  OBVIOUS
<1>4. PICK m2 : m2 = IF attempt[r].locked THEN m1 ELSE RecordFailure(m1, k)
  OBVIOUS
<1>5. /\ Becomes(m2) /\ LocksAfter(m2) /\ now' = now
      /\ attempt' = [attempt EXCEPT ![r] = Idle] /\ attempt[r].pc = "compare"
  BY <1>1, <1>2, <1>3, <1>4 DEF Fail
<1>6. k \in LockKeys /\ (k[1] = "acct" => attempt[r].source \in Sources)
  BY <1>1, <1>5 DEF IInv, InFlight
<1>7. k \in Keys /\ k \notin BudgetKeys
      /\ (k[1] = "acct" => p \in Keys /\ p \notin BudgetKeys)
  BY <1>2, <1>6, KeyFacts
<1>8. now \in Nat /\ Sound(Throttle)
  BY DEF IInv
<1>9. \A m : Counts(m, m)
  BY DEF Counts
<1>10. Sound(m1) /\ Counts(Throttle, m1)
  BY <1>3, <1>7, <1>8, <1>9, RecordKeeps
<1>11. Sound(m2) /\ Counts(m1, m2)
  BY <1>4, <1>7, <1>8, <1>9, <1>10, RecordKeeps
<1>12. Counts(Throttle, m2)
  BY <1>10, <1>11, CountsTwice
<1>13. ASSUME NEW j \in LockKeys, NEW later \in {0, compared[j]},
              later = 0 \/ (/\ Stored(Throttle, j) /\ Stored(m2, j)
                            /\ Entry(Throttle, j).until = Entry(m2, j).until)
       PROVE  Bound(m2, j, later, now)
  <2>1. Bound(Throttle, j, compared[j], now)
    BY DEF IInv, Budgets
  <2>2. ASSUME NEW e, Among(m2.store, e), e.key = j, later # 0
        PROVE  \E x : Among(Throttle.store, x) /\ x.key = j /\ x.until = e.until
    <3>1. e = Entry(m2, j)
      BY <2>2, <1>11, EntryFacts
    <3>2. Among(Throttle.store, Entry(Throttle, j)) /\ Entry(Throttle, j).key = j
      BY <2>2, <1>8, <1>13, EntryFacts
    <3> QED
      BY <2>2, <3>1, <3>2, <1>13
  <2> QED
    BY <2>1, <2>2, <1>12, <1>13, BoundCounts
<1>14. Sound(Throttle)' /\ (now \in Nat)' /\ Budgets' /\ Throttle' = m2
  BY <1>5, <1>11, <1>13, BudgetsAfter
<1>15. Held(Throttle, m2)
  BY <1>8, <1>11, <1>12, CountsFacts DEF Held
<1>16. InFlight'
  BY <1>5, IdleFacts, InFlightKept DEF IInv
<1> QED
  BY <1>14, <1>15, <1>16 DEF IInv

(* The right password: every lock but those of the account is held.         *)
LEMMA SucceedStep ==
  ASSUME IInv, NEW r \in Attempts, Succeed(r)
  PROVE  /\ IInv' /\ attempt[r].pc = "compare"
         /\ \A k : /\ Locked(Throttle, k)
                   /\ k \notin {attempt[r].key, BudgetOf(attempt[r].key)}
                => /\ Stored(Throttle', k)
                   /\ Entry(Throttle', k).until = Entry(Throttle, k).until
<1>1. PICK k : k = attempt[r].key
  OBVIOUS
<1>2. PICK b : b = BudgetOf(k)
  OBVIOUS
<1>3. PICK one : one = Clear(Throttle, k)
  OBVIOUS
<1>4. PICK m : m = Clear(one, b)
  OBVIOUS
<1>5. /\ Becomes(m) /\ LocksAfter(m) /\ now' = now
      /\ attempt' = [attempt EXCEPT ![r] = Idle] /\ attempt[r].pc = "compare"
  BY <1>1, <1>2, <1>3, <1>4 DEF Succeed
<1>6. k \in LockKeys
  BY <1>1, <1>5 DEF IInv, InFlight
<1>7. Sound(Throttle) /\ Sound(one)
      /\ \A x : Among(one.store, x) <=> Among(Throttle.store, x) /\ x.key # k
  BY <1>3, ClearKeeps DEF IInv
<1>8. Sound(m) /\ \A x : Among(m.store, x) <=> Among(one.store, x) /\ x.key # b
  BY <1>4, <1>7, ClearKeeps
<1>9. \A x : Among(m.store, x) <=> Among(Throttle.store, x) /\ x.key # k /\ x.key # b
  BY <1>7, <1>8
<1>10. ASSUME NEW j \in LockKeys, NEW later \in {0, compared[j]}
       PROVE  Bound(m, j, later, now)
  <2>1. Bound(Throttle, j, compared[j], now)
    BY DEF IInv, Budgets
  <2>2. CASE j = k
    <3>1. \A x : Among(m.store, x) => x.key # j /\ x.key # BudgetOf(j)
      BY <2>2, <1>2, <1>9
    <3> QED
      BY <3>1 DEF Bound
  <2>3. CASE j # k
    <3>1. {j, BudgetOf(j)} \cap {k, b} = {}
      BY <2>3, <1>2, <1>6, KeyFacts
    <3>2. \A x : x.key \in {j, BudgetOf(j)} => (Among(m.store, x) <=> Among(Throttle.store, x))
      BY <3>1, <1>9
    <3> QED
      BY <2>1, <3>2, BoundElsewhere
  <2> QED
    BY <2>2, <2>3
<1>11. Sound(Throttle)' /\ (now \in Nat)' /\ Budgets' /\ Throttle' = m
  BY <1>5, <1>8, <1>10, BudgetsAfter
<1>12. InFlight'
  BY <1>5, IdleFacts, InFlightKept DEF IInv
<1>13. ASSUME NEW j, Locked(Throttle, j), j \notin {k, b}
       PROVE  Stored(m, j) /\ Entry(m, j).until = Entry(Throttle, j).until
  <2>1. PICK x : x = Entry(Throttle, j)
    OBVIOUS
  <2>2. Among(Throttle.store, x) /\ x.key = j
    BY <2>1, <1>7, <1>13, EntryFacts DEF Locked
  <2>3. Among(m.store, x)
    BY <2>2, <1>9, <1>13
  <2>4. Stored(m, j) /\ Entry(m, j) = x
    BY <2>2, <2>3, <1>8, EntryFacts
  <2> QED
    BY <2>1, <2>4
<1> QED
  BY <1>1, <1>2, <1>5, <1>11, <1>12, <1>13 DEF IInv

(* A lock or a budget that runs now ran a moment ago.                       *)
LEMMA TickStep ==
  ASSUME IInv, Tick
  PROVE  IInv' /\ Throttle' = Throttle
<1>1. /\ now \in Nat /\ now' = now + 1 /\ store' = store /\ candidates' = candidates
      /\ attempt' = attempt /\ compared' = compared
  BY DEF IInv, Tick
<1>2. Throttle' = Throttle /\ InFlight'
  BY <1>1 DEF Throttle, IInv, InFlight
<1>3. ASSUME NEW e, Among(Throttle.store, e), e.until > now'
      PROVE  e.until > now
  <2>1. e.until \in Nat
    BY <1>3, EntryFacts DEF IInv, Rows
  <2> QED
    BY <2>1, <1>1, <1>3
<1>4. ASSUME NEW k \in LockKeys
      PROVE  Bound(Throttle, k, compared[k], now')
  <2>1. Bound(Throttle, k, compared[k], now)
    BY DEF IInv, Budgets
  <2> QED
    BY <2>1, <1>3 DEF Bound
<1>5. Budgets'
  BY <1>1, <1>2, <1>4 DEF IInv, Budgets
<1>6. Sound(Throttle') /\ now' \in Nat
  BY <1>1, <1>2 DEF IInv
<1> QED
  BY <1>2, <1>5, <1>6 DEF IInv

LEMMA NextInv ==
  ASSUME IInv, [Next]_vars
  PROVE  IInv'
<1>1. CASE UNCHANGED vars
  BY <1>1 DEF vars, IInv, Throttle, InFlight, Budgets
<1>2. ASSUME NEW r \in Attempts, NEW s \in Sources, Arrive(r, s)
      PROVE  IInv'
  BY <1>2, ArriveStep
<1>3. ASSUME NEW r \in Attempts, NEW a \in Accounts, Identify(r, a)
      PROVE  IInv'
  BY <1>3, IdentifyStep
<1>4. ASSUME NEW r \in Attempts, NEW a \in Rotating, Rotate(r, a)
      PROVE  IInv'
  BY <1>4, RotateStep
<1>5. ASSUME NEW r \in Attempts, Fail(r)
      PROVE  IInv'
  BY <1>5, FailStep
<1>6. ASSUME NEW r \in Attempts, Succeed(r)
      PROVE  IInv'
  BY <1>6, SucceedStep
<1>7. CASE Tick
  BY <1>7, TickStep
<1> QED
  BY <1>1, <1>2, <1>3, <1>4, <1>5, <1>6, <1>7 DEF Next

-----------------------------------------------------------------------------
(* For any accounts, sources, attempts and limits, in every interleaving:   *)
(* the store is bounded and coherent with its eviction index, and while a   *)
(* lock runs no more comparisons are made for it than its budget, although  *)
(* the entries of both may be counted, evicted and pruned all the while.    *)
THEOREM StoreAlwaysSound == Spec => []StoreSound
<1>1. IInv => StoreSound
  <2> SUFFICES ASSUME IInv
               PROVE  StoreSound
    OBVIOUS
  <2>1. Sound(Throttle) /\ Throttle.store = store /\ Throttle.candidates = candidates
    BY DEF IInv, Throttle
  <2>2. StoreBounded
    <3>1. DOMAIN store = 1 .. Len(store) /\ DOMAIN candidates = 1 .. Len(candidates)
      BY <2>1, SoundParts, LenProperties
    <3>2. \A i \in DOMAIN candidates : Stored(Throttle, candidates[i])
      BY <2>1, <3>1, SoundParts, EntryFacts DEF Among
    <3> QED
      BY <2>1, <3>1, <3>2, SoundParts DEF StoreBounded, KeysApart
  <2>3. BudgetBindsToLock
    <3> SUFFICES ASSUME NEW k \in LockKeys, Locked(Throttle, k)
                 PROVE  compared[k] <= Budget
      BY DEF BudgetBindsToLock
    <3>1. Bound(Throttle, k, compared[k], now) /\ compared[k] \in Nat /\ Budget \in Nat
      BY ThrottleAssumption DEF IInv, Budgets, Configured
    <3>2. PICK e : Among(Throttle.store, e) /\ e.key = k /\ e.until > now
      BY <2>1, EntryFacts DEF Locked
    <3>3. CASE compared[k] = 0
      BY <3>1, <3>3
    <3>4. CASE compared[k] # 0
      <4>1. PICK f : /\ Among(Throttle.store, f) /\ f.key = BudgetOf(k)
                     /\ f.until = e.until /\ compared[k] <= f.n
        BY <3>1, <3>2, <3>4 DEF Bound
      <4>2. f.n <= Budget /\ f.n \in Nat
        BY <4>1, <3>1, <2>1, EntryFacts DEF Bound, Rows
      <4> QED
        BY <4>1, <4>2, <3>1
    <3> QED
      BY <3>3, <3>4
  <2> QED
    BY <2>2, <2>3 DEF StoreSound
<1> QED
  BY <1>1, InitInv, NextInv, PTL DEF Spec

(* For any of them, a lock runs to its end: no flood of other identities,   *)
(* no pruning and no later failure shortens or extends it. Only the right   *)
(* password of the same account ends it early.                              *)
THEOREM LocksAlwaysHold == Spec => LocksHold
<1>1. ASSUME IInv, [Next]_vars, NEW k \in Keys, Locked(Throttle, k), ~UNCHANGED vars
      PROVE  \/ Stored(Throttle', k) /\ Entry(Throttle', k).until = Entry(Throttle, k).until
             \/ \E r \in Attempts : /\ attempt[r].pc = "compare" /\ Succeed(r)
                                    /\ k \in {attempt[r].key, BudgetOf(attempt[r].key)}
  <2>1. ASSUME NEW r \in Attempts, NEW s \in Sources, Arrive(r, s)
        PROVE  Held(Throttle, Throttle')
    BY <1>1, <2>1, ArriveStep
  <2>2. ASSUME NEW r \in Attempts, NEW a \in Accounts, Identify(r, a)
        PROVE  Held(Throttle, Throttle')
    BY <1>1, <2>2, IdentifyStep
  <2>3. ASSUME NEW r \in Attempts, NEW a \in Rotating, Rotate(r, a)
        PROVE  Held(Throttle, Throttle')
    BY <1>1, <2>3, RotateStep
  <2>4. ASSUME NEW r \in Attempts, Fail(r)
        PROVE  Held(Throttle, Throttle')
    BY <1>1, <2>4, FailStep
  <2>5. CASE Held(Throttle, Throttle')
    BY <2>5, <1>1 DEF Held
  <2>6. ASSUME NEW r \in Attempts, Succeed(r)
        PROVE  \/ Stored(Throttle', k) /\ Entry(Throttle', k).until = Entry(Throttle, k).until
               \/ \E q \in Attempts : /\ attempt[q].pc = "compare" /\ Succeed(q)
                                      /\ k \in {attempt[q].key, BudgetOf(attempt[q].key)}
    BY <2>6, <1>1, SucceedStep
  <2>7. CASE Tick
    <3>1. Throttle' = Throttle
      BY <2>7, <1>1, TickStep
    <3> QED
      BY <3>1, <1>1 DEF Locked
  <2> QED
    BY <2>1, <2>2, <2>3, <2>4, <2>5, <2>6, <2>7, <1>1 DEF Next
<1>2. IInv /\ [Next]_vars =>
        [\A k \in Keys : Locked(Throttle, k) =>
           \/ Stored(Throttle, k)' /\ Entry(Throttle, k)'.until = Entry(Throttle, k).until
           \/ \E r \in Attempts :
                /\ attempt[r].pc = "compare" /\ Succeed(r)
                /\ k \in {attempt[r].key, BudgetOf(attempt[r].key)}]_vars
  <2> SUFFICES ASSUME IInv, [Next]_vars, ~UNCHANGED vars, NEW k \in Keys, Locked(Throttle, k)
               PROVE  \/ /\ Stored(Throttle, k)'
                         /\ Entry(Throttle, k)'.until = Entry(Throttle, k).until
                      \/ \E r \in Attempts :
                           /\ attempt[r].pc = "compare" /\ Succeed(r)
                           /\ k \in {attempt[r].key, BudgetOf(attempt[r].key)}
    OBVIOUS
  <2> QED
    BY <1>1
<1> QED
  BY <1>2, InitInv, NextInv, PTL DEF Spec, LocksHold
=============================================================================
