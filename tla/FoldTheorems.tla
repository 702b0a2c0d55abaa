---------------------------- MODULE FoldTheorems ----------------------------
(***************************************************************************)
(* Induction over data, in a form the provers can apply.  The theorems of  *)
(* the library on induction and on recursive definitions take the property *)
(* or the definition as an operator, which a prover cannot instantiate;    *)
(* these take a set or a function instead, and rest on the library's       *)
(* theorem that every set of natural numbers has a minimal element.  Sums  *)
(* and the folds of sequences are then known by the states they pass.      *)
(***************************************************************************)
EXTENDS Integers, Sequences, FiniteSets, FiniteSetsExt, Functions,
        FiniteSetTheorems, WellFoundedInduction, TLAPS

(* Every non-empty set of natural numbers has a least element.             *)
LEMMA LeastNumber ==
  ASSUME NEW T \in SUBSET Nat, T # {}
  PROVE  \E n \in T : \A m \in T : n <= m
<1> DEFINE R == OpToRel(<, Nat)
<1>1. R = {ss \in Nat \X Nat : ss[1] < ss[2]}
  BY DEF OpToRel
<1>2. IsWellFoundedOn(R, Nat)
  BY NatLessThanWellFounded
<1> HIDE DEF R
<1>3. ASSUME NEW n \in Nat, NEW m \in Nat, <<m, n>> \notin R PROVE n <= m
  <2>1. <<m, n>> \in Nat \X Nat
    OBVIOUS
  <2> QED  BY <1>1, <1>3, <2>1
<1>4. \E n \in T : \A m \in T : <<m, n>> \notin R
  BY <1>2, WFMin
<1> QED  BY <1>3, <1>4

(* What holds of 0 and of the number after each holds up to n.             *)
LEMMA UpTo ==
  ASSUME NEW n \in Nat, NEW P, 0 \in P, \A k \in 0..(n - 1) : k \in P => k + 1 \in P
  PROVE  \A k \in 0..n : k \in P
<1> DEFINE T == {k \in 0..n : k \notin P}
<1> SUFFICES ASSUME T # {} PROVE FALSE
  OBVIOUS
<1>1. T \in SUBSET Nat
  OBVIOUS
<1>2. PICK k \in T : \A m \in T : k <= m
  BY <1>1, LeastNumber
<1>3. k \in 0..n /\ k \notin P /\ k # 0
  BY <1>2
<1>4. k - 1 \in 0..(n - 1) /\ k - 1 \in 0..n /\ ~(k <= k - 1) /\ (k - 1) + 1 = k
  BY <1>3
<1>5. k - 1 \in P
  BY <1>2, <1>4
<1> QED  BY <1>3, <1>4, <1>5

(* An element of every set but the empty one.                              *)
ChoosesFrom(choose, S) == \A s \in SUBSET S : s # {} => choose[s] \in s

(* What holds of a set without its chosen element holds of the set.        *)
GrowsBy(choose, S, P) == \A s \in SUBSET S : (s # {} /\ s \ {choose[s]} \in P) => s \in P

(* The folds, from base, over the subsets of S.                            *)
FoldsBy(choose, S, base, op, g) ==
  \A s \in SUBSET S :
    g[s] = IF s = {} THEN base ELSE op[<<choose[s], g[s \ {choose[s]}]>>]

(* What holds of the empty set, and of a set when it holds without the     *)
(* element that is chosen from it, holds of every subset of a finite set.  *)
LEMMA SubsetsOf ==
  ASSUME NEW S, IsFiniteSet(S), NEW P, NEW choose, {} \in P,
         ChoosesFrom(choose, S), GrowsBy(choose, S, P)
  PROVE  \A s \in SUBSET S : s \in P
<1> DEFINE Bad == {s \in SUBSET S : s \notin P}
           T == {Cardinality(s) : s \in Bad}
<1>1. \A s \in SUBSET S : IsFiniteSet(s) /\ Cardinality(s) \in Nat
  BY FS_Subset, FS_CardinalityType
<1> SUFFICES ASSUME Bad # {} PROVE FALSE
  OBVIOUS
<1>2. T \in SUBSET Nat /\ T # {}
  BY <1>1
<1>3. PICK n \in T : \A m \in T : n <= m
  BY <1>2, LeastNumber
<1>4. PICK s \in Bad : \A u \in Bad : Cardinality(s) <= Cardinality(u)
  BY <1>3
<1>5. s \in SUBSET S /\ s # {} /\ choose[s] \in s /\ s \ {choose[s]} \in Bad
  BY <1>4 DEF ChoosesFrom, GrowsBy
<1>6. Cardinality(s \ {choose[s]}) = Cardinality(s) - 1
  BY <1>1, <1>5, FS_RemoveElement
<1> QED  BY <1>1, <1>4, <1>5, <1>6

(* A fold over a finite set that starts with base, takes out one element   *)
(* after the other and combines each with the fold over what is left, is   *)
(* defined: for every subset of the set.                                   *)
LEMMA FoldExists ==
  ASSUME NEW S, IsFiniteSet(S), NEW U, NEW base \in U, NEW op \in [S \X U -> U], NEW choose,
         ChoosesFrom(choose, S)
  PROVE  \E g \in [SUBSET S -> U] : FoldsBy(choose, S, base, op, g)
<1> DEFINE Holds(g, s) == g[s] = IF s = {} THEN base ELSE op[<<choose[s], g[s \ {choose[s]}]>>]
           Good(k) == \E g \in [SUBSET S -> U] :
                        \A s \in SUBSET S : Cardinality(s) <= k => Holds(g, s)
           P == {k \in Nat : Good(k)}
           n == Cardinality(S)
<1>1. \A s \in SUBSET S : IsFiniteSet(s) /\ Cardinality(s) \in Nat /\ Cardinality(s) <= n
  BY FS_Subset, FS_CardinalityType
<1>2. \A s \in SUBSET S : s # {} =>
        /\ Cardinality(s \ {choose[s]}) = Cardinality(s) - 1
        /\ s \ {choose[s]} \in SUBSET S /\ choose[s] \in S
  BY <1>1, FS_RemoveElement DEF ChoosesFrom
<1>3. 0 \in P
  <2> DEFINE g == [s \in SUBSET S |-> base]
  <2>1. g \in [SUBSET S -> U]
    OBVIOUS
  <2>2. ASSUME NEW s \in SUBSET S, Cardinality(s) <= 0 PROVE Holds(g, s)
    <3>1. s = {}
      BY <1>1, <2>2, FS_EmptySet
    <3> QED  BY <3>1
  <2> HIDE DEF g
  <2> QED  BY <2>1, <2>2
<1>4. ASSUME NEW k \in Nat, k \in P PROVE k + 1 \in P
  <2>1. PICK g \in [SUBSET S -> U] : \A s \in SUBSET S : Cardinality(s) <= k => Holds(g, s)
    BY <1>4
  <2> DEFINE h == [s \in SUBSET S |-> IF s = {} THEN base ELSE op[<<choose[s], g[s \ {choose[s]}]>>]]
  <2>2. h \in [SUBSET S -> U]
    BY <1>2
  <2>3. \A s \in SUBSET S : Cardinality(s) <= k => h[s] = g[s]
    BY <2>1
  <2>4. ASSUME NEW s \in SUBSET S, Cardinality(s) <= k + 1 PROVE Holds(h, s)
    <3>1. CASE s = {}
      BY <3>1
    <3>2. CASE s # {}
      <4>1. s \ {choose[s]} \in SUBSET S /\ Cardinality(s \ {choose[s]}) <= k
        BY <1>1, <1>2, <2>4, <3>2
      <4>2. h[s \ {choose[s]}] = g[s \ {choose[s]}]
        BY <2>3, <4>1
      <4> QED  BY <3>2, <4>2
    <3> QED  BY <3>1, <3>2
  <2>5. \A s \in SUBSET S : Cardinality(s) <= k + 1 => Holds(h, s)
    BY <2>4
  <2> HIDE DEF h
  <2>6. Good(k + 1)
    BY <2>2, <2>5
  <2> HIDE DEF Good
  <2> QED  BY <2>6
<1>5. n \in Nat
  BY FS_CardinalityType
<1>6. n \in P
  <2> HIDE DEF P, n
  <2>1. \A k \in 0..(n - 1) : k \in P => k + 1 \in P
    BY <1>4, <1>5
  <2> QED  BY <1>3, <1>5, <2>1, UpTo
<1> QED  BY <1>1, <1>6 DEF FoldsBy

-----------------------------------------------------------------------------
(* Sums.                                                                   *)

AnyOf(S) == [s \in SUBSET S |-> CHOOSE x \in s : TRUE]

(* The sums of f over the subsets of S.                                    *)
SumsOf(f, S, sums) ==
  /\ SumFunctionOnSet(f, S) = sums[S]
  /\ sums[{}] = 0
  /\ \A s \in SUBSET S : sums[s] \in Int
  /\ \A s \in SUBSET S : s # {} =>
       /\ AnyOf(S)[s] \in s
       /\ sums[s] = f[AnyOf(S)[s]] + sums[s \ {AnyOf(S)[s]}]

(* The recursive definition behind a finite sum has a solution.            *)
LEMMA SumsExist ==
  ASSUME NEW f, NEW S, IsFiniteSet(S), \A x \in S : f[x] \in Int
  PROVE  \E sums : SumsOf(f, S, sums)
<1> DEFINE choice == AnyOf(S)
           Sums(g) == g = [s \in SUBSET S |->
             IF s = {} THEN 0 ELSE f[CHOOSE x \in s : TRUE] + g[s \ {CHOOSE x \in s : TRUE}]]
           sums == CHOOSE g : Sums(g)
           op == [p \in S \X Int |-> f[p[1]] + p[2]]
<1>1. SumFunctionOnSet(f, S) = sums[S]
  BY DEF SumFunctionOnSet, FoldFunctionOnSet, MapThenFoldSet
<1>2. \A s \in SUBSET S : /\ choice[s] = CHOOSE x \in s : TRUE
                          /\ s # {} => choice[s] \in s
  BY DEF AnyOf
<1>3. op \in [S \X Int -> Int]
  OBVIOUS
<1>4. \A x \in S, v \in Int : op[<<x, v>>] = f[x] + v
  OBVIOUS
<1> HIDE DEF op, choice
<1>5. \E g \in [SUBSET S -> Int] : FoldsBy(choice, S, 0, op, g)
  <2>1. ChoosesFrom(choice, S)
    BY <1>2 DEF ChoosesFrom
  <2>2. 0 \in Int
    OBVIOUS
  <2> QED  BY <1>3, <2>1, <2>2, FoldExists
<1>6. PICK g \in [SUBSET S -> Int] : \A s \in SUBSET S :
        g[s] = IF s = {} THEN 0 ELSE op[<<choice[s], g[s \ {choice[s]}]>>]
  BY <1>5 DEF FoldsBy
<1>7. Sums(g)
  <2>1. ASSUME NEW s \in SUBSET S
        PROVE  g[s] = IF s = {} THEN 0 ELSE f[CHOOSE x \in s : TRUE] + g[s \ {CHOOSE x \in s : TRUE}]
    <3>1. CASE s = {}
      BY <1>6, <3>1
    <3>2. CASE s # {}
      <4>1. choice[s] \in S /\ s \ {choice[s]} \in SUBSET S
        BY <1>2, <3>2
      <4>2. g[s \ {choice[s]}] \in Int
        BY <4>1
      <4>3. g[s] = op[<<choice[s], g[s \ {choice[s]}]>>]
        BY <1>6, <3>2
      <4>4. g[s] = f[choice[s]] + g[s \ {choice[s]}]
        BY <1>4, <4>1, <4>2, <4>3
      <4> QED  BY <1>2, <3>2, <4>4
    <3> QED  BY <3>1, <3>2
  <2> QED  BY <2>1
<1>8. Sums(sums)
  <2> HIDE DEF Sums
  <2> QED  BY <1>7
<1>9. \A s \in SUBSET S : sums[s] = IF s = {} THEN 0 ELSE f[choice[s]] + sums[s \ {choice[s]}]
  <2>1. \A s \in SUBSET S : sums[s] =
          IF s = {} THEN 0 ELSE f[CHOOSE x \in s : TRUE] + sums[s \ {CHOOSE x \in s : TRUE}]
    BY <1>8
  <2>2. ASSUME NEW s \in SUBSET S
        PROVE  sums[s] = IF s = {} THEN 0 ELSE f[choice[s]] + sums[s \ {choice[s]}]
    <3>1. choice[s] = CHOOSE x \in s : TRUE
      BY <1>2
    <3>2. sums[s] = IF s = {} THEN 0
            ELSE f[CHOOSE x \in s : TRUE] + sums[s \ {CHOOSE x \in s : TRUE}]
      BY <2>1
    <3> HIDE DEF sums
    <3> QED  BY <3>1, <3>2
  <2> QED  BY <2>2
<1> HIDE DEF sums, Sums
<1>10. \A s \in SUBSET S : sums[s] \in Int
  <2> DEFINE P == {s \in SUBSET S : sums[s] \in Int}
  <2>1. {} \in P
    <3>1. {} \in SUBSET S
      OBVIOUS
    <3>2. sums[{}] = 0
      BY <1>9, <3>1
    <3> QED  BY <3>1, <3>2
  <2>2. ASSUME NEW s \in SUBSET S, s # {}
        PROVE  choice[s] \in s /\ (s \ {choice[s]} \in P => s \in P)
    <3>1. choice[s] \in s /\ choice[s] \in S
      BY <1>2, <2>2
    <3>2. sums[s] = f[choice[s]] + sums[s \ {choice[s]}]
      BY <1>9, <2>2
    <3>3. f[choice[s]] \in Int
      BY <3>1
    <3> QED  BY <3>1, <3>2, <3>3
  <2> HIDE DEF P
  <2>3. ChoosesFrom(choice, S) /\ GrowsBy(choice, S, P)
    BY <2>2 DEF ChoosesFrom, GrowsBy
  <2>4. \A s \in SUBSET S : s \in P
    BY <2>1, <2>3, SubsetsOf
  <2> QED  BY <2>4 DEF P
<1>11. sums[{}] = 0
  <2>1. {} \in SUBSET S
    OBVIOUS
  <2> QED  BY <1>9, <2>1
<1>12. SumsOf(f, S, sums)
  BY <1>1, <1>2, <1>9, <1>10, <1>11 DEF SumsOf, choice
<1> QED
  BY <1>12

(* A sum of natural numbers is one.                                        *)
LEMMA SumIsNatural ==
  ASSUME NEW f, NEW S, IsFiniteSet(S), \A x \in S : f[x] \in Nat
  PROVE  SumFunctionOnSet(f, S) \in Nat
<1>1. PICK sums : SumsOf(f, S, sums)
  <2>1. \A x \in S : f[x] \in Int
    OBVIOUS
  <2>2. \E sums : SumsOf(f, S, sums)
    BY <2>1, SumsExist
  <2> QED  BY <2>2
<1> DEFINE P == {s \in SUBSET S : sums[s] \in Nat}
           choice == AnyOf(S)
<1>2. {} \in P
  BY <1>1 DEF SumsOf
<1>3. ASSUME NEW s \in SUBSET S, s # {}
      PROVE  choice[s] \in s /\ (s \ {choice[s]} \in P => s \in P)
  <2>1. choice[s] \in s /\ sums[s] = f[choice[s]] + sums[s \ {choice[s]}]
    BY <1>1, <1>3 DEF SumsOf
  <2>2. f[choice[s]] \in Nat
    BY <2>1
  <2> QED  BY <2>1, <2>2
<1> HIDE DEF P, choice
<1>4. ChoosesFrom(choice, S) /\ GrowsBy(choice, S, P)
  BY <1>3 DEF ChoosesFrom, GrowsBy
<1>5. S \in P
  BY <1>2, <1>4, SubsetsOf
<1> QED  BY <1>1, <1>5 DEF P, SumsOf

-----------------------------------------------------------------------------
(* Loops: folds over 1..n that take out the last number first.             *)

Lasts(n) == [s \in SUBSET (1..n) |-> Max(s)]

(* Taking the greatest element runs through 1..n from its end.             *)
LEMMA LastsChoose ==
  ASSUME NEW n \in Nat
  PROVE  /\ IsFiniteSet(1..n) /\ ChoosesFrom(Lasts(n), 1..n)
         /\ \A s \in SUBSET (1..n) :
              /\ Lasts(n)[s] = Max(s)
              /\ s # {} => Max(s) \in 1..n /\ s \ {Max(s)} \in SUBSET (1..n)
         /\ \A k \in 1..n : Lasts(n)[1..k] = k /\ (1..k) \ {k} = 1..(k - 1)
<1>1. IsFiniteSet(1..n)
  <2>1. 1 \in Int /\ n \in Int
    OBVIOUS
  <2> QED  BY <2>1, FS_Interval
<1>2. \A s \in SUBSET (1..n) : Lasts(n)[s] = CHOOSE x \in s : \A y \in s : x >= y
  BY DEF Lasts, Max
<1>3. ASSUME NEW s \in SUBSET (1..n), s # {} PROVE \E x \in s : \A y \in s : x >= y
  <2> DEFINE T == {n - y : y \in s}
  <2>1. T \in SUBSET Nat /\ T # {}
    <3>1. \A y \in s : n - y \in Nat
      OBVIOUS
    <3> QED  BY <1>3, <3>1
  <2>2. \E m \in T : \A t \in T : m <= t
    <3> HIDE DEF T
    <3> QED  BY <2>1, LeastNumber
  <2>3. PICK m \in T : \A t \in T : m <= t
    BY <2>2
  <2>4. PICK x \in s : m = n - x
    BY <2>3
  <2>5. ASSUME NEW y \in s PROVE x >= y
    <3>1. n - x <= n - y
      BY <2>3, <2>4
    <3> QED  BY <3>1
  <2> QED  BY <2>5
<1>4. ASSUME NEW s \in SUBSET (1..n), s # {}
      PROVE  Lasts(n)[s] \in s /\ \A y \in s : Lasts(n)[s] >= y
  <2>1. \E x \in s : \A y \in s : x >= y
    BY <1>3, <1>4
  <2>2. Lasts(n)[s] = CHOOSE x \in s : \A y \in s : x >= y
    BY <1>2
  <2> QED  BY <2>1, <2>2
<1>5. ASSUME NEW k \in 1..n PROVE Lasts(n)[1..k] = k /\ (1..k) \ {k} = 1..(k - 1)
  <2>1. 1..k \in SUBSET (1..n) /\ k \in 1..k
    OBVIOUS
  <2>2. Lasts(n)[1..k] \in 1..k /\ Lasts(n)[1..k] >= k
    BY <1>4, <2>1
  <2> QED  BY <2>2
<1>6. \A s \in SUBSET (1..n) : Lasts(n)[s] = Max(s)
  BY DEF Lasts
<1>7. ASSUME NEW s \in SUBSET (1..n), s # {}
      PROVE  Max(s) \in 1..n /\ s \ {Max(s)} \in SUBSET (1..n)
  <2>1. Max(s) \in s
    BY <1>4, <1>6, <1>7
  <2> QED  BY <2>1
<1>8. ChoosesFrom(Lasts(n), 1..n)
  BY <1>4 DEF ChoosesFrom
<1> QED  BY <1>1, <1>5, <1>6, <1>7, <1>8

(* The loop is defined,                                                    *)
LEMMA LoopExists ==
  ASSUME NEW n \in Nat, NEW U, NEW base \in U, NEW op \in [(1..n) \X U -> U]
  PROVE  \E g \in [SUBSET (1..n) -> U] : FoldsBy(Lasts(n), 1..n, base, op, g)
BY LastsChoose, FoldExists

(* A fold over the subsets of 1..n that agrees with op on U.               *)
AgreesOn(U, n, base, op, g) ==
  /\ n \in Nat /\ base \in U /\ op \in [(1..n) \X U -> U]
  /\ g[{}] = base
  /\ \A s \in SUBSET (1..n) : (s # {} /\ g[s \ {Lasts(n)[s]}] \in U) =>
       g[s] = op[<<Lasts(n)[s], g[s \ {Lasts(n)[s]}]>>]

(* The states of a loop: before it, and after each of its n steps.         *)
LoopStates(n, base, op, st) ==
  /\ st[0] = base
  /\ \A k \in 1..n : st[k] = op[<<k, st[k - 1]>>]

(* and passes through a sequence of states, to the last of them.           *)
LEMMA LoopUnfolds ==
  ASSUME NEW n, NEW U, NEW base, NEW op, NEW g, AgreesOn(U, n, base, op, g)
  PROVE  \E st \in [0..n -> U] : LoopStates(n, base, op, st) /\ g[1..n] = st[n]
<1> DEFINE st == [k \in 0..n |-> g[1..k]]
           P == {k \in Nat : g[1..k] \in U}
<1>0. n \in Nat /\ base \in U /\ op \in [(1..n) \X U -> U]
  BY DEF AgreesOn
<1>1. g[1..0] = base
  <2>1. 1..0 = {}
    OBVIOUS
  <2> QED  BY <2>1 DEF AgreesOn
<1>2. ASSUME NEW k \in 1..n, g[1..(k - 1)] \in U
      PROVE  g[1..k] = op[<<k, g[1..(k - 1)]>>]
  <2>1. 1..k \in SUBSET (1..n) /\ 1..k # {}
    BY <1>0
  <2>2. Lasts(n)[1..k] = k /\ (1..k) \ {k} = 1..(k - 1)
    BY <1>0, LastsChoose
  <2> QED  BY <1>2, <2>1, <2>2 DEF AgreesOn
<1>3. \A k \in 0..n : k \in P
  <2>1. 0 \in P
    BY <1>0, <1>1
  <2>2. ASSUME NEW k \in 0..(n - 1), k \in P PROVE k + 1 \in P
    <3>1. k + 1 \in 1..n /\ (k + 1) - 1 = k /\ g[1..k] \in U
      BY <1>0, <2>2
    <3>2. g[1..(k + 1)] = op[<<k + 1, g[1..k]>>]
      BY <1>2, <3>1
    <3>3. <<k + 1, g[1..k]>> \in (1..n) \X U
      BY <3>1
    <3> QED  BY <1>0, <3>1, <3>2, <3>3
  <2> HIDE DEF P
  <2> QED  BY <1>0, <2>1, <2>2, UpTo
<1>4. st \in [0..n -> U]
  BY <1>3
<1>5. ASSUME NEW k \in 1..n PROVE st[k] = op[<<k, st[k - 1]>>]
  <2>1. k - 1 \in 0..n /\ k \in 0..n
    BY <1>0
  <2>2. g[1..(k - 1)] \in U
    BY <1>3, <2>1
  <2> QED  BY <1>2, <2>1, <2>2
<1>6. st[0] = base /\ st[n] = g[1..n]
  BY <1>0, <1>1
<1> HIDE DEF st
<1>7. LoopStates(n, base, op, st)
  BY <1>5, <1>6 DEF LoopStates
<1> QED  BY <1>4, <1>6, <1>7

-----------------------------------------------------------------------------
(* Sequences.                                                              *)

(* An element of a sequence over S is in S.                                *)
LEMMA ElementOf ==
  ASSUME NEW S, NEW s \in Seq(S), NEW i \in 1..Len(s)
  PROVE  s[i] \in S
OBVIOUS

(* Appending an element.                                                   *)
LEMMA AppendFacts ==
  ASSUME NEW S, NEW s \in Seq(S), NEW e \in S
  PROVE  /\ Append(s, e) \in Seq(S)
         /\ Len(s) \in Nat /\ Len(Append(s, e)) = Len(s) + 1
         /\ Append(s, e)[Len(s) + 1] = e
         /\ \A k \in 1..Len(s) : Append(s, e)[k] = s[k]
         /\ 1..Len(Append(s, e)) = (1..Len(s)) \cup {Len(s) + 1}
         /\ Len(s) + 1 \notin 1..Len(s)
<1>1. /\ Append(s, e) \in Seq(S)
      /\ Len(s) \in Nat /\ Len(Append(s, e)) = Len(s) + 1
      /\ Append(s, e)[Len(s) + 1] = e
      /\ \A k \in 1..Len(s) : Append(s, e)[k] = s[k]
  OBVIOUS
<1>2. \A n \in Nat : 1..(n + 1) = (1..n) \cup {n + 1} /\ n + 1 \notin 1..n
  OBVIOUS
<1> QED  BY <1>1, <1>2
=============================================================================
