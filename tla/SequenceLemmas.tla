--------------------------- MODULE SequenceLemmas ---------------------------
(***************************************************************************)
(* The elements of a sequence used as a queue: what Append adds and what   *)
(* Tail takes away; the elements of a sequence at some of its places; and  *)
(* the least element of a set of naturals, on which those rest.            *)
(***************************************************************************)
EXTENDS Naturals, Sequences, Selection, SequenceTheorems, FiniteSetTheorems,
        WellFoundedInduction, TLAPS

(* Appending to a sequence adds its element to those already there, at a    *)
(* new place.                                                               *)
Elems(s)    == {s[n] : n \in DOMAIN s}
Distinct(s) == \A m, n \in DOMAIN s : s[m] = s[n] => m = n

LEMMA AppendElems ==
  ASSUME NEW S, NEW s \in Seq(S), NEW x \in S
  PROVE  /\ Append(s, x) \in Seq(S)
         /\ Len(Append(s, x)) = Len(s) + 1
         /\ Elems(Append(s, x)) = Elems(s) \cup {x}
         /\ Distinct(s) /\ x \notin Elems(s) => Distinct(Append(s, x))
<1> DEFINE t == Append(s, x)
<1>1. /\ t \in Seq(S) /\ Len(t) = Len(s) + 1
      /\ DOMAIN t = 1..(Len(s) + 1) /\ DOMAIN s = 1..Len(s)
      /\ t[Len(s) + 1] = x /\ \A n \in 1..Len(s) : t[n] = s[n]
  OBVIOUS
<1>2. Len(s) \in Nat
  OBVIOUS
<1> HIDE DEF t
<1>3. Elems(t) = Elems(s) \cup {x}
  BY <1>1, <1>2 DEF Elems
<1>4. Distinct(s) /\ x \notin Elems(s) => Distinct(t)
  BY <1>1, <1>2 DEF Elems, Distinct
<1>5. QED
  BY <1>1, <1>3, <1>4 DEF t

(* The head of a sequence without repetition is not in its tail.            *)
LEMMA TailElems ==
  ASSUME NEW S, NEW s \in Seq(S), s # <<>>
  PROVE  /\ Head(s) \in S /\ Tail(s) \in Seq(S)
         /\ Len(Tail(s)) = Len(s) - 1
         /\ Elems(s) = Elems(Tail(s)) \cup {Head(s)}
         /\ Distinct(s) => Distinct(Tail(s)) /\ Head(s) \notin Elems(Tail(s))
<1> DEFINE t == Tail(s)
<1>1. /\ t \in Seq(S) /\ Len(s) \in Nat /\ Len(s) > 0 /\ Len(t) = Len(s) - 1
      /\ DOMAIN t = 1..(Len(s) - 1) /\ DOMAIN s = 1..Len(s)
      /\ Head(s) = s[1] /\ Head(s) \in S
      /\ \A n \in 1..(Len(s) - 1) : t[n] = s[n + 1]
  OBVIOUS
<1> HIDE DEF t
<1>2. Elems(s) = Elems(t) \cup {s[1]}
  <2>1. ASSUME NEW n \in 1..Len(s) PROVE s[n] \in Elems(t) \cup {s[1]}
    <3>1. CASE n = 1
      BY <3>1
    <3>2. CASE n # 1
      <4>1. n - 1 \in 1..(Len(s) - 1) /\ t[n - 1] = s[n]
        BY <1>1, <3>2
      <4>2. QED
        BY <4>1, <1>1 DEF Elems
    <3>3. QED
      BY <3>1, <3>2
  <2>2. Elems(t) \cup {s[1]} \subseteq Elems(s)
    <3>1. \A n \in 1..(Len(s) - 1) : n + 1 \in DOMAIN s /\ t[n] = s[n + 1]
      BY <1>1
    <3>2. 1 \in DOMAIN s
      BY <1>1
    <3>3. Elems(t) = {t[n] : n \in 1..(Len(s) - 1)}
      BY <1>1 DEF Elems
    <3>4. QED
      BY <3>1, <3>2, <3>3 DEF Elems
  <2>3. Elems(s) \subseteq Elems(t) \cup {s[1]}
    <3>1. Elems(s) = {s[n] : n \in 1..Len(s)}
      BY <1>1 DEF Elems
    <3>2. QED
      BY <2>1, <3>1
  <2>4. QED
    BY <2>2, <2>3
<1>3. ASSUME Distinct(s) PROVE Distinct(t) /\ s[1] \notin Elems(t)
  <2>1. ASSUME NEW m \in 1..(Len(s) - 1), NEW n \in 1..(Len(s) - 1),
               t[m] = t[n]
        PROVE  m = n
    <3>1. m + 1 \in DOMAIN s /\ n + 1 \in DOMAIN s /\ s[m + 1] = s[n + 1]
      BY <1>1, <2>1
    <3>2. m + 1 = n + 1
      BY <3>1, <1>3 DEF Distinct
    <3>3. QED
      BY <3>2
  <2>2. \A n \in 1..(Len(s) - 1) : t[n] # s[1]
    BY <1>1, <1>3 DEF Distinct
  <2>3. QED
    BY <2>1, <2>2, <1>1 DEF Elems, Distinct
<1>4. QED
  BY <1>1, <1>2, <1>3 DEF t

(* A nonempty set of naturals has a least element.                         *)
LEMMA LeastNat ==
  ASSUME NEW T, T \subseteq Nat, T # {}
  PROVE  \E x \in T : \A y \in T : x <= y
<1>1. PICK x \in T : \A y \in T : ~(<<y, x>> \in OpToRel(<, Nat))
  BY WFMin, NatLessThanWellFounded
<1>2. \A y \in T : ~(y < x)
  BY <1>1 DEF OpToRel
<1>3. QED
  BY <1>2

(* Ranks number the places of a finite set of naturals without a gap.      *)
LEMMA RankBijection ==
  ASSUME NEW I, I \subseteq Nat, IsFiniteSet(I)
  PROVE  /\ Cardinality(I) \in Nat
         /\ \A i \in I : Rank(I, i) \in 1..Cardinality(I)
         /\ \A i, j \in I : i < j => Rank(I, i) < Rank(I, j)
         /\ \A n \in 1..Cardinality(I) : \E i \in I : Rank(I, i) = n
<1> DEFINE Upto(i) == {j \in I : j <= i}
           f == [i \in I |-> Rank(I, i)]
<1>1. \A i \in I : Upto(i) \in SUBSET I /\ IsFiniteSet(Upto(i)) /\ Cardinality(Upto(i)) \in Nat
  BY FS_Subset, FS_CardinalityType
<1>2. Cardinality(I) \in Nat
  BY FS_CardinalityType
<1>3. ASSUME NEW i \in I PROVE Rank(I, i) \in 1..Cardinality(I)
  <2>1. Cardinality(Upto(i)) <= Cardinality(I)
    BY <1>1, FS_Subset
  <2>2. Cardinality(Upto(i)) # 0
    BY <1>1, FS_EmptySet
  <2>3. QED
    BY <2>1, <2>2, <1>1, <1>2 DEF Rank
<1>4. ASSUME NEW i \in I, NEW j \in I, i < j PROVE Rank(I, i) < Rank(I, j)
  <2>0. i \in Nat /\ j \in Nat /\ j \in Upto(j) /\ j \notin Upto(i)
    BY <1>4
  <2>1. \A x \in I : x <= i => x <= j
    BY <1>4
  <2>1a. Upto(i) \subseteq Upto(j)
    BY <2>1
  <2>1b. Upto(i) # Upto(j)
    BY <2>0
  <2>2. Cardinality(Upto(i)) <= Cardinality(Upto(j)) /\ Cardinality(Upto(i)) # Cardinality(Upto(j))
    BY <2>1a, <2>1b, <1>1, FS_Subset
  <2>3. QED
    BY <2>2, <1>1 DEF Rank
<1>5. f \in Injection(I, 1..Cardinality(I))
  <2>1. \A i, j \in I : Rank(I, i) = Rank(I, j) => i = j
    BY <1>3, <1>4
  <2>2. QED
    BY <2>1, <1>3 DEF Injection, IsInjective
<1>6. IsFiniteSet(1..Cardinality(I)) /\ Cardinality(1..Cardinality(I)) = Cardinality(I)
  BY <1>2, FS_Interval
<1>7. f \in Surjection(I, 1..Cardinality(I))
  <2> HIDE DEF f
  <2>1. QED
    BY <1>5, <1>6, FS_Injection
<1>8. \A n \in 1..Cardinality(I) : \E i \in I : Rank(I, i) = n
  BY <1>7 DEF Surjection
<1>9. QED
  BY <1>2, <1>3, <1>4, <1>8

(* Selected(s, I) is a sequence of the elements of s at the places I, each once. *)
IsSelection(s, I, S) ==
  /\ IsFiniteSet(I) /\ Cardinality(I) \in Nat
  /\ Selected(s, I) \in Seq(S)
  /\ Len(Selected(s, I)) = Cardinality(I)
  /\ \A n \in 1..Cardinality(I) : \E i \in I : Rank(I, i) = n /\ Selected(s, I)[n] = s[i]
  /\ \A i \in I : Rank(I, i) \in 1..Cardinality(I) /\ Selected(s, I)[Rank(I, i)] = s[i]
  /\ \A i, j \in I : i < j => Rank(I, i) < Rank(I, j)

LEMMA SelectedElements ==
  ASSUME NEW S, NEW s \in Seq(S), NEW I, I \subseteq 1..Len(s)
  PROVE  IsSelection(s, I, S)
<1>1. Len(s) \in Nat /\ \A i \in 1..Len(s) : s[i] \in S
  OBVIOUS
<1>2. IsFiniteSet(I) /\ I \subseteq Nat
  <2>1. IsFiniteSet(1..Len(s))
    BY <1>1, FS_Interval
  <2>2. IsFiniteSet(I)
    BY <2>1, FS_Subset
  <2>3. I \subseteq Nat
    BY <1>1
  <2>4. QED
    BY <2>2, <2>3
<1>3. /\ Cardinality(I) \in Nat
      /\ \A i \in I : Rank(I, i) \in 1..Cardinality(I)
      /\ \A i, j \in I : i < j => Rank(I, i) < Rank(I, j)
      /\ \A n \in 1..Cardinality(I) : \E i \in I : Rank(I, i) = n
  BY <1>2, RankBijection
<1> DEFINE C == Cardinality(I)
           k(n) == CHOOSE i \in I : Rank(I, i) = n
<1> HIDE DEF C
<1>4. \A n \in 1..C : k(n) \in I /\ Rank(I, k(n)) = n
  BY <1>3 DEF C
<1>5. \A i \in I : k(Rank(I, i)) = i
  <2>1. \A i, j \in I : Rank(I, i) = Rank(I, j) => i = j
    <3> SUFFICES ASSUME NEW i \in I, NEW j \in I, Rank(I, i) = Rank(I, j), i # j PROVE FALSE
      OBVIOUS
    <3>1. i < j \/ j < i
      BY <1>2
    <3>2. QED
      BY <3>1, <1>3
  <2>2. QED
    BY <2>1, <1>3, <1>4 DEF C
<1>6. Selected(s, I) = [n \in 1..C |-> s[k(n)]]
  BY DEF Selected, C
<1> HIDE DEF k
<1>7. \A n \in 1..C : s[k(n)] \in S
  BY <1>1, <1>4
<1>8. Selected(s, I) \in Seq(S) /\ Len(Selected(s, I)) = C
  BY <1>6, <1>7, <1>3, IsASeq DEF C
<1>9. QED
  BY <1>2, <1>3, <1>4, <1>5, <1>6, <1>8 DEF C, IsSelection

(* Of a concatenation: places of the first part, or all of the second.      *)
LEMMA SelectedFromFirst ==
  ASSUME NEW S, NEW s \in Seq(S), NEW t \in Seq(S), NEW I, I \subseteq 1..Len(s)
  PROVE  Selected(s \o t, I) = Selected(s, I)
<1>1. \A i \in I : (s \o t)[i] = s[i]
  OBVIOUS
<1>2. /\ Cardinality(I) \in Nat
      /\ \A n \in 1..Cardinality(I) : \E i \in I : Rank(I, i) = n
  <2>1. IsSelection(s, I, S)
    BY SelectedElements, Zenon
  <2>2. QED
    BY <2>1 DEF IsSelection
<1>3. \A n \in 1..Cardinality(I) : (CHOOSE i \in I : Rank(I, i) = n) \in I
  BY <1>2
<1>4. \A n \in 1..Cardinality(I) : (s \o t)[CHOOSE i \in I : Rank(I, i) = n]
                                   = s[CHOOSE i \in I : Rank(I, i) = n]
  BY <1>1, <1>3
<1>5. QED
  BY <1>4, ZenonT(30) DEF Selected

LEMMA SelectedSecond ==
  ASSUME NEW S, NEW s \in Seq(S), NEW t \in Seq(S), NEW I,
         I = (Len(s) + 1)..(Len(s) + Len(t))
  PROVE  Selected(s \o t, I) = t
<1>1. /\ Len(s) \in Nat /\ Len(t) \in Nat
      /\ s \o t \in Seq(S) /\ Len(s \o t) = Len(s) + Len(t)
      /\ \A n \in 1..Len(t) : (s \o t)[Len(s) + n] = t[n]
  OBVIOUS
<1>2. I \subseteq 1..Len(s \o t)
  BY <1>1
<1>3. Cardinality(I) = Len(t)
  <2> DEFINE a == Len(s) + 1
             b == Len(s) + Len(t)
  <2>1. a \in Int /\ b \in Int
    BY <1>1
  <2> HIDE DEF a, b
  <2>2. Cardinality(a..b) = IF a > b THEN 0 ELSE b - a + 1
    BY <2>1, FS_Interval
  <2>3. QED
    BY <2>2, <1>1 DEF a, b
<1>4. ASSUME NEW i \in I PROVE Rank(I, i) = i - Len(s)
  <2>1. {j \in I : j <= i} = (Len(s) + 1)..i
    BY <1>1
  <2>2. Cardinality((Len(s) + 1)..i) = i - Len(s)
    BY <1>1, FS_Interval
  <2>3. QED
    BY <2>1, <2>2 DEF Rank
<1> DEFINE r == Selected(s \o t, I)
<1>5. /\ r \in Seq(S) /\ Len(r) = Len(t)
      /\ \A i \in I : r[Rank(I, i)] = (s \o t)[i]
  <2> DEFINE u == s \o t
  <2>1. u \in Seq(S) /\ I \subseteq 1..Len(u)
    BY <1>1, <1>2
  <2> HIDE DEF u
  <2>2. /\ Selected(u, I) \in Seq(S) /\ Len(Selected(u, I)) = Cardinality(I)
        /\ \A i \in I : Selected(u, I)[Rank(I, i)] = u[i]
    <3>1. IsSelection(u, I, S)
      BY <2>1, SelectedElements, Zenon
    <3>2. QED
      BY <3>1 DEF IsSelection
  <2>3. QED
    BY <2>2, <1>3 DEF u
<1>6. ASSUME NEW n \in 1..Len(t) PROVE r[n] = t[n]
  <2>1. Len(s) + n \in I /\ (Len(s) + n) - Len(s) = n
    BY <1>1
  <2>2. QED
    BY <2>1, <1>4, <1>5, <1>1
<1> HIDE DEF r
<1>7. r = t
  BY <1>5, <1>6, SeqEqual
<1>8. QED
  BY <1>7 DEF r

-----------------------------------------------------------------------------
(* How many elements of a queue are of one kind: one more or less when one  *)
(* is appended or taken, and no more in a selection than in the whole.      *)
PlacesIn(q, S) == {i \in 1..Len(q) : q[i] \in S}
CountIn(q, S)  == Cardinality(PlacesIn(q, S))

LEMMA CountInType ==
  ASSUME NEW T, NEW q \in Seq(T), NEW S
  PROVE  IsFiniteSet(PlacesIn(q, S)) /\ CountIn(q, S) \in Nat
<1>1. Len(q) \in Nat
  OBVIOUS
<1>2. IsFiniteSet(1..Len(q))
  BY <1>1, FS_Interval
<1>3. PlacesIn(q, S) \subseteq 1..Len(q)
  BY DEF PlacesIn
<1>4. IsFiniteSet(PlacesIn(q, S))
  BY <1>2, <1>3, FS_Subset
<1>5. QED
  BY <1>4, FS_CardinalityType DEF CountIn

LEMMA CountAppend ==
  ASSUME NEW T, NEW q \in Seq(T), NEW x \in T, NEW S
  PROVE  CountIn(Append(q, x), S) = CountIn(q, S) + (IF x \in S THEN 1 ELSE 0)
<1> DEFINE P == PlacesIn(q, S)
           n == Len(q) + 1
<1>1. IsFiniteSet(P) /\ CountIn(q, S) \in Nat
  BY CountInType, Zenon
<1>2. /\ Len(Append(q, x)) = Len(q) + 1 /\ Append(q, x)[Len(q) + 1] = x
      /\ \A i \in 1..Len(q) : Append(q, x)[i] = q[i]
      /\ Len(q) \in Nat
  OBVIOUS
<1>3. PlacesIn(Append(q, x), S) = IF x \in S THEN P \cup {n} ELSE P
  BY <1>2 DEF PlacesIn
<1>4. n \notin P
  BY <1>2 DEF PlacesIn
<1> HIDE DEF P, n
<1>5. Cardinality(P \cup {n}) = Cardinality(P) + 1
  BY <1>1, <1>4, FS_AddElement
<1>6. CountIn(q, S) = Cardinality(P)
  BY DEF CountIn, P
<1>7. QED
  BY <1>1, <1>3, <1>5, <1>6 DEF CountIn

LEMMA CountTail ==
  ASSUME NEW T, NEW q \in Seq(T), q # <<>>, NEW S
  PROVE  CountIn(Tail(q), S) + (IF Head(q) \in S THEN 1 ELSE 0) <= CountIn(q, S)
<1> DEFINE A == PlacesIn(Tail(q), S)
           P == PlacesIn(q, S)
           B == P \ {1}
           f == [i \in A |-> i + 1]
<1>1. /\ Len(q) \in Nat /\ Len(q) > 0 /\ Len(Tail(q)) = Len(q) - 1
      /\ Head(q) = q[1] /\ Tail(q) \in Seq(T)
      /\ \A i \in 1..Len(q) - 1 : Tail(q)[i] = q[i + 1]
  OBVIOUS
<1>2. /\ IsFiniteSet(P) /\ CountIn(q, S) \in Nat
      /\ IsFiniteSet(A) /\ CountIn(Tail(q), S) \in Nat
  BY <1>1, CountInType, Zenon
<1>3. \A i \in A : i \in Nat /\ i + 1 \in B
  BY <1>1 DEF PlacesIn
<1>4. 1 \in P <=> Head(q) \in S
  BY <1>1 DEF PlacesIn
<1> HIDE DEF A, P
<1>5. f \in Injection(A, B)
  BY <1>3 DEF Injection, IsInjective
<1>6. /\ IsFiniteSet(B)
      /\ Cardinality(B) = IF 1 \in P THEN Cardinality(P) - 1 ELSE Cardinality(P)
  BY <1>2, FS_RemoveElement
<1> HIDE DEF B, f
<1>7. Cardinality(A) <= Cardinality(B)
  BY <1>5, <1>6, FS_Injection
<1>8. CountIn(Tail(q), S) = Cardinality(A) /\ CountIn(q, S) = Cardinality(P)
  BY DEF CountIn, A, P
<1>9. QED
  BY <1>2, <1>4, <1>6, <1>7, <1>8

LEMMA CountSelected ==
  ASSUME NEW T, NEW q \in Seq(T), NEW I, I \subseteq 1..Len(q), NEW S
  PROVE  CountIn(Selected(q, I), S) <= CountIn(q, S)
<1> DEFINE t == Selected(q, I)
           A == PlacesIn(t, S)
           P == PlacesIn(q, S)
           f == [n \in A |-> CHOOSE i \in I : Rank(I, i) = n]
<1>1. IsSelection(q, I, T)
  BY SelectedElements, Zenon
<1>2. IsFiniteSet(P)
  BY CountInType, Zenon
<1>3. ASSUME NEW n \in A
      PROVE  f[n] \in P /\ Rank(I, f[n]) = n
  <2>1. n \in 1..Cardinality(I) /\ t[n] \in S
    BY <1>1 DEF PlacesIn, IsSelection
  <2>2. f[n] \in I /\ Rank(I, f[n]) = n
    BY <2>1, <1>1 DEF IsSelection
  <2>3. t[n] = q[f[n]]
    BY <2>1, <2>2, <1>1 DEF IsSelection
  <2>4. QED
    BY <2>1, <2>2, <2>3 DEF PlacesIn
<1> HIDE DEF P
<1>4. f \in Injection(A, P)
  BY <1>3 DEF Injection, IsInjective
<1> HIDE DEF A, f
<1>5. Cardinality(A) <= Cardinality(P)
  BY <1>2, <1>4, FS_Injection
<1>6. QED
  BY <1>5 DEF CountIn, A, P
=============================================================================
