---------------------------- MODULE Folding_proofs ----------------------------
(***************************************************************************)
(* Induction for the proofs of several components, stated about sets       *)
(* instead of predicates, what makes a fold over a finite set well-defined *)
(* and what a fold over a sequence is, element after element.              *)
(***************************************************************************)
EXTENDS Integers, SequencesExt, FiniteSetTheorems, WellFoundedInduction, TLAPS

\* A set of natural numbers has a least element.
LEMMA LeastExists ==
    ASSUME NEW S \in SUBSET Nat, S # {}
    PROVE  \E x \in S : \A y \in S : x <= y
<1>1. PICK x \in S : \A y \in S : ~(<<y, x>> \in OpToRel(<, Nat))
  BY WFMin, NatLessThanWellFounded
<1>2. \A y \in S : ~(y < x)
  BY <1>1 DEF OpToRel
<1> QED
  BY <1>2

\* A set with 0 that with n has n + 1 has all natural numbers.
LEMMA NatInductionSet ==
    ASSUME NEW S, 0 \in S, \A n \in Nat : n \in S => n + 1 \in S
    PROVE  Nat \subseteq S
<1> SUFFICES ASSUME Nat \ S # {} PROVE FALSE  OBVIOUS
<1>1. PICK n \in Nat \ S : \A m \in Nat \ S : n <= m
  BY LeastExists
<1>2. n # 0 /\ n - 1 \in Nat  BY <1>1
<1>3. n - 1 \in S  BY <1>1, <1>2
<1>4. (n - 1) + 1 \in S  BY <1>2, <1>3
<1> QED BY <1>1, <1>4

\* The same up to a bound.
LEMMA UptoInductionSet ==
    ASSUME NEW k \in Nat, NEW S, 0 \in S,
           \A n \in 0 .. k : n < k /\ n \in S => n + 1 \in S
    PROVE  0 .. k \subseteq S
<1> DEFINE T == {n \in Nat : n <= k => n \in S}
<1>1. 0 \in T  OBVIOUS
<1>2. \A n \in Nat : n \in T => n + 1 \in T  OBVIOUS
<1> HIDE DEF T
<1>3. Nat \subseteq T  BY <1>1, <1>2, NatInductionSet
<1> QED BY <1>3 DEF T

\* A family of subsets of a finite set that has a set whenever it has all its
\* proper subsets has all subsets.
LEMMA SubsetInductionSet ==
    ASSUME NEW U, IsFiniteSet(U), NEW P,
           \A s \in SUBSET U :
               (\A t \in SUBSET s : t # s => t \in P) => s \in P
    PROVE  SUBSET U \subseteq P
<1> SUFFICES ASSUME NEW u \in SUBSET U, u \notin P PROVE FALSE  OBVIOUS
<1> DEFINE Sizes == {Cardinality(s) : s \in (SUBSET U) \ P}
<1>1. \A s \in SUBSET U : IsFiniteSet(s) /\ Cardinality(s) \in Nat
  BY FS_Subset, FS_CardinalityType
<1>2. Sizes \in SUBSET Nat /\ Sizes # {}
  <2>1. \A s \in (SUBSET U) \ P : s \in SUBSET U  OBVIOUS
  <2>2. \A s \in (SUBSET U) \ P : Cardinality(s) \in Nat  BY <1>1, <2>1
  <2>3. u \in (SUBSET U) \ P  OBVIOUS
  <2> QED BY <2>2, <2>3
<1>3. PICK s \in (SUBSET U) \ P : \A r \in Sizes : Cardinality(s) <= r
  <2>1. PICK n \in Sizes : \A r \in Sizes : n <= r  BY <1>2, LeastExists
  <2> QED BY <2>1
<1>4. ASSUME NEW t \in SUBSET s, t # s PROVE t \in P
  <2>1. Cardinality(t) < Cardinality(s)
    BY <1>1, <1>4, FS_Subset
  <2>2. t \in SUBSET U /\ Cardinality(t) \in Nat /\ Cardinality(s) \in Nat
    BY <1>1
  <2>3. CASE t \notin P
    <3>1. Cardinality(t) \in Sizes  BY <2>2, <2>3
    <3> QED BY <1>3, <2>1, <2>2, <3>1
  <2> QED BY <2>3
<1>5. s \in SUBSET U  BY <1>3
<1>6. s \in P  BY <1>4, <1>5
<1> QED BY <1>3, <1>6

\* Two functions of the subsets of a finite set are equal if they are for a set
\* whenever they are for all of it but one element.
SameSteps(F, H, U) ==
    /\ F = [s \in SUBSET U |-> F[s]] /\ H = [s \in SUBSET U |-> H[s]]
    /\ F[{}] = H[{}]
    /\ \A s \in SUBSET U : s # {} =>
         \E c \in s : F[s \ {c}] = H[s \ {c}] => F[s] = H[s]

LEMMA SameFold ==
    ASSUME NEW U, IsFiniteSet(U), NEW F, NEW H, SameSteps(F, H, U)
    PROVE  F = H
<1> USE DEF SameSteps
<1> DEFINE P == {s \in SUBSET U : F[s] = H[s]}
<1>1. ASSUME NEW s \in SUBSET U, \A t \in SUBSET s : t # s => t \in P
      PROVE  s \in P
  <2>1. CASE s = {}  BY <2>1
  <2>2. CASE s # {}
    <3>1. PICK c \in s : F[s \ {c}] = H[s \ {c}] => F[s] = H[s]  BY <2>2
    <3>2. s \ {c} \in SUBSET s /\ s \ {c} # s  OBVIOUS
    <3>3. s \ {c} \in P  BY <1>1, <3>2
    <3> QED BY <3>1, <3>3
  <2> QED BY <2>1, <2>2
<1> HIDE DEF P
<1>2. SUBSET U \subseteq P  BY <1>1, SubsetInductionSet
<1>3. \A s \in SUBSET U : F[s] = H[s]  BY <1>2 DEF P
<1> QED BY <1>3

\* F folds the subsets of U: pick says which element is taken next, g is the
\* step.
IsFold(F, U, V, base, g, pick) ==
    /\ F \in [SUBSET U -> V]
    /\ \A s \in SUBSET U :
         F[s] = IF s = {} THEN base ELSE g[<<pick[s], F[s \ {pick[s]}]>>]

Picks(pick, U) == \A s \in SUBSET U : s # {} => pick[s] \in s

\* For every order in which elements are taken out of a finite set, and every
\* step, there is a function that folds all its subsets.
LEMMA FoldExists ==
    ASSUME NEW U, IsFiniteSet(U), NEW V, NEW base \in V,
           NEW g \in [U \X V -> V], NEW pick, Picks(pick, U)
    PROVE  \E F : IsFold(F, U, V, base, g, pick)
<1> USE DEF Picks
<1> DEFINE Small(n) == {s \in SUBSET U : Cardinality(s) <= n}
           Folds(F, n) ==
             /\ F \in [Small(n) -> V]
             /\ \A s \in Small(n) :
                  F[s] = IF s = {} THEN base
                         ELSE g[<<pick[s], F[s \ {pick[s]}]>>]
           Good == {n \in Nat : \E F : Folds(F, n)}
<1>1. \A s \in SUBSET U :
        /\ IsFiniteSet(s) /\ Cardinality(s) \in Nat
        /\ Cardinality(s) = 0 <=> s = {}
        /\ Cardinality(s) <= Cardinality(U)
        /\ s # {} => /\ pick[s] \in s
                     /\ s \ {pick[s]} \in SUBSET U
                     /\ Cardinality(s \ {pick[s]}) = Cardinality(s) - 1
  BY FS_Subset, FS_CardinalityType, FS_EmptySet, FS_RemoveElement
<1>2. 0 \in Good
  <2> DEFINE F == [s \in Small(0) |-> base]
  <2>1. ASSUME NEW s \in Small(0) PROVE s = {}
    <3>1. s \in SUBSET U /\ Cardinality(s) <= 0  OBVIOUS
    <3>2. Cardinality(s) \in Nat /\ (Cardinality(s) = 0 <=> s = {})
      BY <1>1, <3>1
    <3>3. Cardinality(s) = 0  BY <3>1, <3>2
    <3> QED BY <3>2, <3>3
  <2>2. Folds(F, 0)  BY <2>1
  <2> HIDE DEF F
  <2> QED BY <2>2
<1>3. ASSUME NEW n \in Nat, n \in Good PROVE n + 1 \in Good
  <2>1. PICK F : Folds(F, n)  BY <1>3
  <2> DEFINE H == [s \in Small(n + 1) |->
                     IF s = {} THEN base ELSE g[<<pick[s], F[s \ {pick[s]}]>>]]
  <2>2. ASSUME NEW s \in Small(n + 1), s # {}
        PROVE  s \ {pick[s]} \in Small(n) /\ pick[s] \in U
    <3>1. s \in SUBSET U /\ Cardinality(s) <= n + 1  OBVIOUS
    <3>2. /\ Cardinality(s) \in Nat /\ pick[s] \in s
          /\ s \ {pick[s]} \in SUBSET U
          /\ Cardinality(s \ {pick[s]}) = Cardinality(s) - 1
      BY <1>1, <2>2, <3>1
    <3> QED BY <3>1, <3>2
  <2>3. \A s \in Small(n + 1) : H[s] \in V
    BY <2>1, <2>2
  <2>4. \A s \in Small(n) : s \in Small(n + 1) /\ H[s] = F[s]
    <3>1. ASSUME NEW s \in Small(n) PROVE s \in Small(n + 1)
      <4>1. s \in SUBSET U /\ Cardinality(s) <= n  OBVIOUS
      <4>2. Cardinality(s) \in Nat  BY <1>1, <4>1
      <4> QED BY <4>1, <4>2
    <3> QED BY <2>1, <3>1
  <2>5. Folds(H, n + 1)  BY <2>2, <2>3, <2>4
  <2> HIDE DEF Folds, H
  <2> QED BY <2>5
<1> HIDE DEF Good
<1>4. Nat \subseteq Good  BY <1>2, <1>3, NatInductionSet
<1>5. Cardinality(U) \in Nat /\ Small(Cardinality(U)) = SUBSET U
  BY <1>1, FS_CardinalityType
<1>6. PICK F : Folds(F, Cardinality(U))  BY <1>4, <1>5 DEF Good
<1> QED BY <1>5, <1>6 DEF IsFold

-----------------------------------------------------------------------------
(* Folds over sequences, from the left.                                    *)

\* The largest place of a set of places is the one a fold from the left takes
\* last.
LEMMA MaxPlace ==
    ASSUME NEW n \in Nat, NEW S \in SUBSET (1 .. n), S # {}
    PROVE  Max(S) \in S /\ \A y \in S : y <= Max(S)
<1> DEFINE T == {n - x : x \in S}
<1>1. T \in SUBSET Nat /\ T # {}
  <2>1. \A x \in S : x \in 1 .. n  OBVIOUS
  <2>2. \A x \in 1 .. n : n - x \in Nat  OBVIOUS
  <2> QED BY <2>1, <2>2
<1>2. PICK m \in T : \A y \in T : m <= y  BY <1>1, LeastExists
<1>3. PICK x \in S : m = n - x  OBVIOUS
<1>4. ASSUME NEW y \in S PROVE x >= y
  <2>1. n - x <= n - y  BY <1>2, <1>3
  <2>2. x \in 1 .. n /\ y \in 1 .. n  OBVIOUS
  <2> QED BY <2>1, <2>2
<1>5. \E k \in S : \A y \in S : k >= y  BY <1>4
<1>6. Max(S) \in S /\ \A y \in S : Max(S) >= y  BY <1>5 DEF Max
<1>7. \A y \in S : y \in Int  OBVIOUS
<1> QED BY <1>6, <1>7

LEMMA LastPlace ==
    ASSUME NEW n \in Nat, n # 0
    PROVE  Max(1 .. n) = n
<1>1. n \in 1 .. n /\ 1 .. n \in SUBSET (1 .. n)  OBVIOUS
<1>2. Max(1 .. n) \in 1 .. n /\ \A y \in 1 .. n : y <= Max(1 .. n)
  <2>1. 1 .. n # {}  BY <1>1
  <2> QED BY <1>1, <2>1, MaxPlace
<1>3. n <= Max(1 .. n) /\ Max(1 .. n) <= n /\ Max(1 .. n) \in Nat
  BY <1>1, <1>2
<1> QED BY <1>3

\* It is what a fold from the left with step g computes for each set of places.
OrderFold(It, V, base, g, s) ==
    /\ It \in [SUBSET (DOMAIN s) -> V]
    /\ \A t \in SUBSET (DOMAIN s) :
         It[t] = IF t = {} THEN base ELSE g[<<It[t \ {Max(t)}], s[Max(t)]>>]

LEMMA OrderFoldExists ==
    ASSUME NEW V, NEW base \in V, NEW L, NEW g \in [V \X L -> V],
           NEW s \in Seq(L)
    PROVE  \E It : OrderFold(It, V, base, g, s)
<1> DEFINE n == Len(s)
           U == 1 .. n
           pick == [t \in SUBSET U |-> Max(t)]
           h == [a \in U \X V |-> g[<<a[2], s[a[1]]>>]]
<1>1. n \in Nat /\ DOMAIN s = U /\ IsFiniteSet(U) /\ \A i \in U : s[i] \in L
  BY FS_Interval
<1>2. h \in [U \X V -> V]  BY <1>1
<1>3. Picks(pick, U)
  <2>1. ASSUME NEW t \in SUBSET U, t # {} PROVE Max(t) \in t
    BY <1>1, <2>1, MaxPlace
  <2> QED BY <2>1 DEF Picks
<1>4. \A t \in SUBSET U : pick[t] = Max(t)  OBVIOUS
<1>5. \A i \in U, v \in V : h[<<i, v>>] = g[<<v, s[i]>>]  BY <1>1
<1> HIDE DEF pick, h, U
<1>6. PICK It : IsFold(It, U, V, base, h, pick)
  BY <1>1, <1>2, <1>3, FoldExists
<1>7. ASSUME NEW t \in SUBSET U, t # {}
      PROVE  It[t] = g[<<It[t \ {Max(t)}], s[Max(t)]>>]
  <2>1. Max(t) \in t /\ pick[t] = Max(t)  BY <1>3, <1>4, <1>7 DEF Picks
  <2>2. Max(t) \in U /\ t \ {Max(t)} \in SUBSET U  BY <2>1
  <2>3. It[t \ {Max(t)}] \in V  BY <1>6, <2>2 DEF IsFold
  <2>4. It[t] = h[<<Max(t), It[t \ {Max(t)}]>>]
    BY <1>6, <1>7, <2>1 DEF IsFold
  <2> QED BY <1>5, <2>2, <2>3, <2>4
<1>8. It \in [SUBSET U -> V] /\ It[{}] = base  BY <1>6 DEF IsFold
<1> QED BY <1>1, <1>7, <1>8 DEF OrderFold

LEMMA OrderFoldAppend ==
    ASSUME NEW V, NEW base \in V, NEW L, NEW g, NEW s \in Seq(L), NEW e \in L,
           NEW It, OrderFold(It, V, base, g, s),
           NEW Jt, OrderFold(Jt, V, base, g, Append(s, e))
    PROVE  /\ It[DOMAIN s] \in V
           /\ Jt[DOMAIN Append(s, e)] = g[<<It[DOMAIN s], e>>]
<1> DEFINE n == Len(s)
           more == Append(s, e)
           Kt == [t \in SUBSET (1 .. n) |-> Jt[t]]
<1>1. /\ n \in Nat /\ DOMAIN s = 1 .. n /\ DOMAIN more = 1 .. n + 1
      /\ more[n + 1] = e
      /\ \A i \in 1 .. n : more[i] = s[i]
  OBVIOUS
<1>2. OrderFold(Jt, V, base, g, more)  OBVIOUS
<1> HIDE DEF more
<1>3. It = Kt
  <2>1. ASSUME NEW t \in SUBSET (1 .. n)
        PROVE  /\ t \in SUBSET (DOMAIN more)
               /\ t # {} => /\ Max(t) \in t /\ more[Max(t)] = s[Max(t)]
                            /\ t \ {Max(t)} \in SUBSET (1 .. n)
    <3>1. t \in SUBSET (DOMAIN more)  BY <1>1
    <3>2. ASSUME t # {} PROVE Max(t) \in t  BY <1>1, <3>2, MaxPlace
    <3> QED BY <1>1, <3>1, <3>2
  <2>2. ASSUME NEW t \in SUBSET (1 .. n), t # {}
        PROVE  \E c \in t : It[t \ {c}] = Kt[t \ {c}] => It[t] = Kt[t]
    <3>1. It[t] = g[<<It[t \ {Max(t)}], s[Max(t)]>>]
      BY <1>1, <2>2 DEF OrderFold
    <3>2. Jt[t] = g[<<Jt[t \ {Max(t)}], s[Max(t)]>>]
      BY <1>2, <2>1, <2>2 DEF OrderFold
    <3>3. Kt[t] = Jt[t] /\ Kt[t \ {Max(t)}] = Jt[t \ {Max(t)}]
      BY <2>1, <2>2
    <3> QED BY <2>1, <2>2, <3>1, <3>2, <3>3
  <2>3. /\ It = [t \in SUBSET (1 .. n) |-> It[t]]
        /\ Kt = [t \in SUBSET (1 .. n) |-> Kt[t]]
    BY <1>1 DEF OrderFold
  <2>4. It[{}] = base /\ Kt[{}] = base
    BY <1>1, <1>2 DEF OrderFold
  <2> HIDE DEF Kt
  <2>5. SameSteps(It, Kt, 1 .. n)  BY <2>2, <2>3, <2>4 DEF SameSteps
  <2>6. IsFiniteSet(1 .. n)  BY <1>1, FS_Interval
  <2> QED BY <2>5, <2>6, SameFold
<1>4. Jt[1 .. n + 1] = g[<<Jt[1 .. n], e>>]
  <2>1. n + 1 \in Nat /\ n + 1 # 0 /\ 1 .. n + 1 # {}  BY <1>1
  <2>2. Max(1 .. n + 1) = n + 1  BY <2>1, LastPlace
  <2>3. (1 .. n + 1) \ {n + 1} = 1 .. n  BY <1>1
  <2>4. Jt[1 .. n + 1] = g[<<Jt[(1 .. n + 1) \ {Max(1 .. n + 1)}],
                             more[Max(1 .. n + 1)]>>]
    BY <1>1, <1>2, <2>1 DEF OrderFold
  <2> QED BY <1>1, <2>2, <2>3, <2>4
<1>5. Jt[1 .. n] = It[1 .. n]  BY <1>3
<1>6. It[1 .. n] \in V  BY <1>1 DEF OrderFold
<1> QED BY <1>1, <1>4, <1>5, <1>6 DEF more

-----------------------------------------------------------------------------
(* Sequences.                                                              *)

LEMMA SeqParts ==
    ASSUME NEW S, NEW s \in Seq(S), NEW t \in Seq(S), NEW e \in S
    PROVE  /\ s \o t \in Seq(S) /\ s \o <<>> = s /\ <<>> \o s = s
           /\ s \o Append(t, e) = Append(s \o t, e)
           /\ Front(Append(s, e)) = s /\ Last(Append(s, e)) = e
           /\ t # <<>> => /\ Append(s, Head(t)) \o Tail(t) = s \o t
                          /\ Head(t) \in S /\ Tail(t) \in Seq(S)
                          /\ Append(Front(t), Last(t)) = t
                          /\ Front(t) \in Seq(S) /\ Last(t) \in S
<1>1. s \o t \in Seq(S) /\ s \o <<>> = s /\ <<>> \o s = s  OBVIOUS
<1>2. s \o Append(t, e) = Append(s \o t, e)  OBVIOUS
<1>3. Front(Append(s, e)) = s /\ Last(Append(s, e)) = e
  BY DEF Front, Last
<1>4. ASSUME t # <<>>
      PROVE  /\ Append(s, Head(t)) \o Tail(t) = s \o t
             /\ Head(t) \in S /\ Tail(t) \in Seq(S)
  BY <1>4
<1>5. ASSUME t # <<>>
      PROVE  /\ Append(Front(t), Last(t)) = t
             /\ Front(t) \in Seq(S) /\ Last(t) \in S
  BY <1>5 DEF Front, Last
<1> QED BY <1>1, <1>2, <1>3, <1>4, <1>5
=============================================================================
