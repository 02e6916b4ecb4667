---------------------------- MODULE AuctionProofs ----------------------------
(***************************************************************************)
(* Proofs about Auction, for any bandwidth, chunk and least message size   *)
(* and any sequence of bids.                                               *)
(*                                                                         *)
(* The first sections, on induction, sums and folds, are about no program; *)
(* the proofs about tables of cells use them too.  Induction and recursion *)
(* over the natural numbers, finite sets and sequences are stated in terms *)
(* of sets and functions: what NaturalsInduction says of predicates is     *)
(* said of sets of numbers, and what it says of definitions of functions   *)
(* in which each step is an operator is said of steps that are functions.  *)
(*                                                                         *)
(* Each row of the dynamic program is the best that a selection of the     *)
(* items so far can be worth in each capacity, and the trace-back spends   *)
(* what the last row says: so the selection is as good as any.  The slots  *)
(* of the winners follow each other, and are multiples of the chunk.       *)
(* A bid added at the end is looked at first, and taken only if it raises  *)
(* the last row: so the auction is worth more or stays the same.           *)
(***************************************************************************)
EXTENDS Auction, FiniteSetTheorems, FunctionTheorems, WellFoundedInduction, TLAPS

-----------------------------------------------------------------------------
(***************************************************************************)
(* Induction.                                                              *)
(***************************************************************************)
\* A set of numbers that holds 0, and with a number the next, holds all.
LEMMA NatSetInduction ==
  ASSUME NEW S, 0 \in S, \A n \in Nat : n \in S => n + 1 \in S
  PROVE  Nat \subseteq S
<1> DEFINE T  == Nat \ S
           TT == {1 .. n : n \in T}
<1> SUFFICES ASSUME T # {} PROVE FALSE
  OBVIOUS
<1>1. TT \subseteq FiniteSubsetsOf(Nat)
  <2>1. \A n \in Nat : IsFiniteSet(1 .. n) /\ 1 .. n \subseteq Nat
    BY FS_Interval
  <2> QED BY <2>1 DEF FiniteSubsetsOf
<1>2. TT # {}
  OBVIOUS
<1>3. IsWellFoundedOn(StrictSubsetOrdering(Nat), FiniteSubsetsOf(Nat))
  BY FS_StrictSubsetOrderingWellFounded
<1>4. PICK A \in TT : \A B \in TT : <<B, A>> \notin StrictSubsetOrdering(Nat)
  <2> HIDE DEF TT
  <2> QED BY <1>1, <1>2, <1>3, WFMin
<1>5. PICK n \in T : A = 1 .. n
  OBVIOUS
<1>6. n \in Nat /\ n # 0 /\ n - 1 \in Nat
  OBVIOUS
<1>7. n - 1 \notin T
  <2>1. \A m \in T : <<1 .. m, A>> \notin StrictSubsetOrdering(Nat)
    BY <1>4
  <2>2. <<1 .. (n - 1), 1 .. n>> \in StrictSubsetOrdering(Nat)
    <3>1. 1 .. (n - 1) \subseteq 1 .. n /\ 1 .. n \subseteq Nat /\ n \in 1 .. n /\ n \notin 1 .. (n - 1)
      BY <1>6
    <3> QED BY <3>1 DEF StrictSubsetOrdering
  <2> QED BY <1>5, <2>1, <2>2
<1> QED BY <1>6, <1>7

\* f is the function that begins with base and goes on by step.
IsNatRecursion(f, T, base, step) ==
  /\ f \in [Nat -> T]
  /\ f[0] = base
  /\ \A n \in Nat : f[n + 1] = step[n][f[n]]

\* A function on the numbers may be defined by its first value and by what
\* comes next.
LEMMA NatSetRecursion ==
  ASSUME NEW T, NEW base \in T, NEW step \in [Nat -> [T -> T]]
  PROVE  \E f : IsNatRecursion(f, T, base, step)
<1> DEFINE Upto(n) == {h \in [0 .. n -> T] :
                         h[0] = base /\ \A i \in 0 .. n - 1 : h[i + 1] = step[i][h[i]]}
<1>u. \A n : \A h \in Upto(n) :
        /\ h \in [0 .. n -> T] /\ h[0] = base
        /\ \A i \in 0 .. n - 1 : h[i + 1] = step[i][h[i]]
  OBVIOUS
<1>1. \A n \in Nat : Upto(n) # {}
  <2> DEFINE S == {n \in Nat : Upto(n) # {}}
  <2>1. 0 \in S
    <3>1. [i \in 0 .. 0 |-> base] \in Upto(0)
      OBVIOUS
    <3> QED BY <3>1
  <2>2. ASSUME NEW n \in Nat, n \in S PROVE n + 1 \in S
    <3>1. PICK h \in [0 .. n -> T] : h[0] = base /\ \A i \in 0 .. n - 1 : h[i + 1] = step[i][h[i]]
      BY <2>2
    <3> DEFINE k == [i \in 0 .. n + 1 |-> IF i = n + 1 THEN step[n][h[n]] ELSE h[i]]
    <3>2. k \in [0 .. n + 1 -> T]
      <4>1. step[n][h[n]] \in T
        BY <3>1
      <4> QED BY <4>1, <3>1
    <3>3. k[0] = base
      BY <3>1
    <3>4. \A i \in 0 .. n : k[i + 1] = step[i][k[i]]
      BY <3>1
    <3>5. (n + 1) - 1 = n /\ n + 1 \in Nat
      OBVIOUS
    <3> HIDE DEF k
    <3>6. k \in Upto(n + 1)
      BY <3>2, <3>3, <3>4, <3>5
    <3> QED BY <3>5, <3>6
  <2> HIDE DEF S
  <2>3. Nat \subseteq S
    BY <2>1, <2>2, NatSetInduction
  <2> QED BY <2>3 DEF S
<1> HIDE DEF Upto
<1>2. \A i \in Nat : \A n, m \in Nat : \A g \in Upto(n), h \in Upto(m) :
        i <= n /\ i <= m => g[i] = h[i]
  <2> DEFINE Agree(i) == \A n, m \in Nat : \A g \in Upto(n), h \in Upto(m) :
                            i <= n /\ i <= m => g[i] = h[i]
             S == {i \in Nat : Agree(i)}
  <2>1. Agree(0)
    BY <1>u
  <2>2. ASSUME NEW i \in Nat, Agree(i) PROVE Agree(i + 1)
    <3> SUFFICES ASSUME NEW n \in Nat, NEW m \in Nat, NEW g \in Upto(n), NEW h \in Upto(m),
                        i + 1 <= n, i + 1 <= m
                 PROVE  g[i + 1] = h[i + 1]
      OBVIOUS
    <3>1. g[i] = h[i]
      BY <2>2
    <3>2. i \in 0 .. n - 1 /\ i \in 0 .. m - 1
      OBVIOUS
    <3>3. g[i + 1] = step[i][g[i]] /\ h[i + 1] = step[i][h[i]]
      BY <3>2, <1>u
    <3> QED BY <3>1, <3>3
  <2> HIDE DEF Agree
  <2>3. Nat \subseteq S
    <3>1. 0 \in S /\ \A i \in Nat : i \in S => i + 1 \in S
      BY <2>1, <2>2
    <3> HIDE DEF S
    <3> QED BY <3>1, NatSetInduction
  <2>4. \A i \in Nat : Agree(i)
    BY <2>3
  <2> QED BY <2>4 DEF Agree
<1> DEFINE c(n) == CHOOSE h : h \in Upto(n)
           f == [n \in Nat |-> c(n)[n]]
<1>3. \A n \in Nat : c(n) \in Upto(n)
  BY <1>1
<1> HIDE DEF c
<1>4. \A n \in Nat : c(n) \in [0 .. n -> T] /\ c(n)[0] = base
        /\ \A i \in 0 .. n - 1 : c(n)[i + 1] = step[i][c(n)[i]]
  BY <1>3, <1>u
<1>5. f \in [Nat -> T]
  BY <1>4
<1>6. f[0] = base
  BY <1>4
<1>7. ASSUME NEW n \in Nat PROVE f[n + 1] = step[n][f[n]]
  <2>1. n + 1 \in Nat /\ n \in 0 .. (n + 1) - 1 /\ n <= n /\ n <= n + 1
    OBVIOUS
  <2>2. c(n + 1)[n + 1] = step[n][c(n + 1)[n]]
    BY <2>1, <1>4
  <2>3. c(n + 1)[n] = c(n)[n]
    BY <2>1, <1>2, <1>3
  <2> QED BY <2>1, <2>2, <2>3
<1> HIDE DEF f
<1> QED BY <1>5, <1>6, <1>7 DEF IsNatRecursion

\* iter is the function on the subsets of S that has the value base at {}, and
\* that g gives for a set from what is left when the choice c is taken out.
IsSubsetRecursion(iter, S, T, base, g, c) ==
  /\ iter \in [SUBSET S -> T]
  /\ \A s \in SUBSET S :
       iter[s] = IF s = {} THEN base ELSE g[c[s]][iter[s \ {c[s]}]]

\* A function on the subsets of a finite set may be defined by its value at the
\* empty set, and by what comes of a set from which an element of the set's
\* choice is taken: the definition that MapThenFoldSet makes.
LEMMA SubsetRecursion ==
  ASSUME NEW S, IsFiniteSet(S), NEW T, NEW base \in T,
         NEW g \in [S -> [T -> T]],
         NEW c, \A s \in SUBSET S : s # {} => c[s] \in s
  PROVE  \E iter : IsSubsetRecursion(iter, S, T, base, g, c)
<1> DEFINE F == [SUBSET S -> T]
           Next1(h) == [s \in SUBSET S |-> IF s = {} THEN base ELSE g[c[s]][h[s \ {c[s]}]]]
           zero == [s \in SUBSET S |-> base]
           step == [n \in Nat |-> [h \in F |-> Next1(h)]]
<1>1. \A h \in F : Next1(h) \in F
  <2> TAKE h \in F
  <2>1. \A s \in SUBSET S : s # {} => c[s] \in S /\ s \ {c[s]} \in SUBSET S
    OBVIOUS
  <2>2. \A s \in SUBSET S : (IF s = {} THEN base ELSE g[c[s]][h[s \ {c[s]}]]) \in T
    BY <2>1
  <2> QED BY <2>2
<1>n. \A h : \A s \in SUBSET S :
        Next1(h)[s] = IF s = {} THEN base ELSE g[c[s]][h[s \ {c[s]}]]
  OBVIOUS
<1> HIDE DEF Next1
<1>2. step \in [Nat -> [F -> F]]
  BY <1>1
<1>3. zero \in F
  OBVIOUS
<1> HIDE DEF F
<1>4. PICK it \in [Nat -> F] : it[0] = zero /\ \A n \in Nat : it[n + 1] = step[n][it[n]]
  <2> HIDE DEF step, zero
  <2>1. PICK f : IsNatRecursion(f, F, zero, step)
    BY <1>2, <1>3, NatSetRecursion
  <2> QED BY <2>1 DEF IsNatRecursion
<1>5. \A n \in Nat : it[n + 1] = Next1(it[n])
  BY <1>4
<1>6. \A n \in Nat : \A s \in SUBSET S :
        it[n + 1][s] = IF s = {} THEN base ELSE g[c[s]][it[n][s \ {c[s]}]]
  <2> TAKE n \in Nat
  <2>1. it[n + 1] = Next1(it[n])
    BY <1>5
  <2>2. \A s \in SUBSET S :
          Next1(it[n])[s] = IF s = {} THEN base ELSE g[c[s]][it[n][s \ {c[s]}]]
    BY <1>n
  <2> QED BY <2>1, <2>2, Zenon
<1>7. \A s \in SUBSET S : IsFiniteSet(s) /\ Cardinality(s) \in Nat /\ Cardinality(s) <= Cardinality(S)
  BY FS_Subset, FS_CardinalityType
<1>8. \A n \in Nat : \A s \in SUBSET S : Cardinality(s) <= n => it[n + 1][s] = it[n][s]
  <2> DEFINE A == {n \in Nat : \A s \in SUBSET S : Cardinality(s) <= n => it[n + 1][s] = it[n][s]}
  <2>1. 0 \in A
    <3> SUFFICES ASSUME NEW s \in SUBSET S, Cardinality(s) <= 0
                 PROVE  it[0 + 1][s] = it[0][s]
      OBVIOUS
    <3>1. Cardinality(s) = 0
      BY <1>7
    <3>2. s = {}
      BY <3>1, <1>7, FS_EmptySet
    <3>3. it[0 + 1][s] = base
      BY <3>2, <1>6
    <3>4. it[0][s] = base
      BY <1>4
    <3> QED BY <3>3, <3>4
  <2>2. ASSUME NEW n \in Nat, n \in A PROVE n + 1 \in A
    <3> SUFFICES ASSUME NEW s \in SUBSET S, Cardinality(s) <= n + 1
                 PROVE  it[(n + 1) + 1][s] = it[n + 1][s]
      OBVIOUS
    <3>0. n + 1 \in Nat
      OBVIOUS
    <3>1. CASE s = {}
      BY <3>0, <3>1, <1>6
    <3>2. CASE s # {}
      <4> DEFINE r == s \ {c[s]}
      <4>1. c[s] \in s /\ r \in SUBSET S
        BY <3>2
      <4>2. Cardinality(r) = Cardinality(s) - 1
        BY <4>1, <1>7, FS_RemoveElement
      <4>3. Cardinality(r) <= n
        BY <4>2, <1>7
      <4>4. it[n + 1][r] = it[n][r]
        BY <4>1, <4>3, <2>2
      <4>5. it[(n + 1) + 1][s] = g[c[s]][it[n + 1][r]]
        BY <3>0, <3>2, <1>6
      <4>6. it[n + 1][s] = g[c[s]][it[n][r]]
        BY <3>2, <1>6
      <4> QED BY <4>4, <4>5, <4>6
    <3> QED BY <3>1, <3>2
  <2> HIDE DEF A
  <2>3. Nat \subseteq A
    BY <2>1, <2>2, NatSetInduction
  <2> QED BY <2>3 DEF A
<1> DEFINE N == Cardinality(S)
<1>9. N \in Nat
  BY FS_CardinalityType
<1>10. \A s \in SUBSET S : it[N][s] = IF s = {} THEN base ELSE g[c[s]][it[N][s \ {c[s]}]]
  <2> TAKE s \in SUBSET S
  <2>1. it[N + 1][s] = it[N][s]
    BY <1>7, <1>8, <1>9
  <2> QED BY <2>1, <1>6, <1>9
<1>11. it[N] \in [SUBSET S -> T]
  BY <1>9 DEF F
<1> QED BY <1>10, <1>11 DEF IsSubsetRecursion


\* Sets of numbers up to a bound have a greatest.
LEMMA GreatestExists ==
  ASSUME NEW n \in Nat, NEW S, S \subseteq 1 .. n, S # {}
  PROVE  \E m \in S : \A y \in S : m >= y
<1> DEFINE Has(Q) == \E m \in Q : \A y \in Q : m >= y
           A == {k \in Nat : \A Q \in SUBSET (1 .. k) : Q # {} => Has(Q)}
<1>1. 0 \in A
  <2>1. 1 .. 0 = {}
    OBVIOUS
  <2> QED BY <2>1
<1>2. ASSUME NEW k \in Nat, k \in A PROVE k + 1 \in A
  <2> SUFFICES ASSUME NEW Q \in SUBSET (1 .. k + 1), Q # {} PROVE Has(Q)
    OBVIOUS
  <2>1. CASE k + 1 \in Q
    BY <2>1
  <2>2. CASE k + 1 \notin Q
    <3>1. Q \in SUBSET (1 .. k)
      BY <2>2
    <3> QED BY <1>2, <3>1
  <2> QED BY <2>1, <2>2
<1> HIDE DEF A
<1>3. Nat \subseteq A
  BY <1>1, <1>2, NatSetInduction
<1>4. n \in A
  BY <1>3
<1> QED BY <1>4 DEF A

\* f is the running value of a fold of n steps g over base.
IsFold(f, n, T, base, g) ==
  /\ f \in [0 .. n -> T]
  /\ f[0] = base
  /\ \A k \in 0 .. n - 1 : f[k + 1] = g[k + 1][f[k]]

\* What FoldLeft's function of sets of positions, which takes out the greatest,
\* has at the whole is what comes of taking the positions in order.
LEMMA FoldByGreatest ==
  ASSUME NEW n \in Nat, NEW T, NEW base \in T, NEW g \in [1 .. n -> [T -> T]],
         NEW iter, iter[{}] = base,
         \A k \in 0 .. n - 1 : iter[1 .. k] \in T => iter[1 .. k + 1] = g[k + 1][iter[1 .. k]]
  PROVE  \E f : IsFold(f, n, T, base, g) /\ iter[1 .. n] = f[n]
<1> DEFINE A == {k \in Nat : k <= n => iter[1 .. k] \in T}
           f == [k \in 0 .. n |-> iter[1 .. k]]
<1>0. 1 .. 0 = {}
  OBVIOUS
<1>1. 0 \in A
  BY <1>0
<1>2. ASSUME NEW k \in Nat, k \in A PROVE k + 1 \in A
  <2> SUFFICES ASSUME k + 1 <= n PROVE iter[1 .. k + 1] \in T
    OBVIOUS
  <2>1. k \in 0 .. n - 1 /\ k + 1 \in 1 .. n
    OBVIOUS
  <2>2. iter[1 .. k] \in T
    BY <1>2, <2>1
  <2>3. iter[1 .. k + 1] = g[k + 1][iter[1 .. k]]
    BY <2>1, <2>2
  <2> QED BY <2>1, <2>2, <2>3
<1> HIDE DEF A
<1>3. Nat \subseteq A
  BY <1>1, <1>2, NatSetInduction
<1>4. \A k \in 0 .. n : iter[1 .. k] \in T
  BY <1>3 DEF A
<1>5. f \in [0 .. n -> T] /\ f[n] = iter[1 .. n]
  BY <1>4
<1>6. f[0] = base
  BY <1>0
<1>7. \A k \in 0 .. n - 1 : f[k + 1] = g[k + 1][f[k]]
  <2> TAKE k \in 0 .. n - 1
  <2>1. k \in 0 .. n /\ k + 1 \in 0 .. n
    OBVIOUS
  <2> QED BY <2>1, <1>4
<1> HIDE DEF f
<1> QED BY <1>5, <1>6, <1>7 DEF IsFold

\* FoldByGreatest with its last hypothesis in one word.
RunsOn(iter, n, T, g) ==
  \A k \in 0 .. n - 1 : iter[1 .. k] \in T => iter[1 .. k + 1] = g[k + 1][iter[1 .. k]]

LEMMA FoldThatRunsOn ==
  ASSUME NEW n \in Nat, NEW T, NEW base \in T, NEW g \in [1 .. n -> [T -> T]],
         NEW iter, iter[{}] = base, RunsOn(iter, n, T, g)
  PROVE  \E f : IsFold(f, n, T, base, g) /\ iter[1 .. n] = f[n]
<1>1. \A k \in 0 .. n - 1 : iter[1 .. k] \in T => iter[1 .. k + 1] = g[k + 1][iter[1 .. k]]
  BY DEF RunsOn
<1> QED BY <1>1, FoldByGreatest

\* Folds of the same steps have the same values, as far as both go.
LEMMA FoldPrefix ==
  ASSUME NEW n \in Nat, NEW m \in Nat, n <= m, NEW T, NEW U, NEW base, NEW g, NEW h,
         NEW f, NEW e, IsFold(f, n, T, base, g), IsFold(e, m, U, base, h),
         \A k \in 1 .. n : g[k] = h[k]
  PROVE  \A k \in 0 .. n : f[k] = e[k]
<1> DEFINE A == {k \in Nat : k <= n => f[k] = e[k]}
<1>1. 0 \in A
  BY DEF IsFold
<1>2. ASSUME NEW k \in Nat, k \in A PROVE k + 1 \in A
  <2> SUFFICES ASSUME k + 1 <= n PROVE f[k + 1] = e[k + 1]
    OBVIOUS
  <2>1. k \in 0 .. n - 1 /\ k \in 0 .. m - 1 /\ k + 1 \in 1 .. n /\ k <= n
    OBVIOUS
  <2>2. f[k + 1] = g[k + 1][f[k]] /\ e[k + 1] = h[k + 1][e[k]]
    BY <2>1 DEF IsFold
  <2>3. f[k] = e[k] /\ g[k + 1] = h[k + 1]
    BY <1>2, <2>1
  <2> QED BY <2>2, <2>3
<1> HIDE DEF A
<1>3. Nat \subseteq A
  BY <1>1, <1>2, NatSetInduction
<1> QED BY <1>3 DEF A


\* c chooses an element of each subset of S, and j follows the recursion as long
\* as its values have the type.
Chooses(c, S) == \A s \in SUBSET S : s # {} => c[s] \in s

Follows(j, S, T, base, g, c) ==
  /\ j[{}] = base
  /\ \A s \in SUBSET S : s # {} /\ j[s \ {c[s]}] \in T => j[s] = g[c[s]][j[s \ {c[s]}]]

\* Whatever satisfies the equations of a recursion is what it defines.
LEMMA SubsetRecursionUnique ==
  ASSUME NEW S, IsFiniteSet(S), NEW T, NEW base, NEW g, NEW c, Chooses(c, S),
         NEW iter, IsSubsetRecursion(iter, S, T, base, g, c),
         NEW j, Follows(j, S, T, base, g, c)
  PROVE  j[S] = iter[S]
<1> USE DEF Chooses, Follows
<1> DEFINE A == {n \in Nat : \A s \in SUBSET S : Cardinality(s) = n => j[s] = iter[s]}
<1>1. \A s \in SUBSET S : IsFiniteSet(s) /\ Cardinality(s) \in Nat
  BY FS_Subset, FS_CardinalityType
<1>2. iter[{}] = base /\ \A s \in SUBSET S : iter[s] \in T /\
        (s # {} => iter[s] = g[c[s]][iter[s \ {c[s]}]])
  BY DEF IsSubsetRecursion
<1>3. 0 \in A
  <2> SUFFICES ASSUME NEW s \in SUBSET S, Cardinality(s) = 0 PROVE j[s] = iter[s]
    OBVIOUS
  <2>1. s = {}
    BY <1>1, FS_EmptySet
  <2> QED BY <1>2, <2>1
<1>4. ASSUME NEW n \in Nat, n \in A PROVE n + 1 \in A
  <2> SUFFICES ASSUME NEW s \in SUBSET S, Cardinality(s) = n + 1 PROVE j[s] = iter[s]
    OBVIOUS
  <2> DEFINE r == s \ {c[s]}
  <2>1. s # {}
    BY FS_EmptySet
  <2>2. c[s] \in s /\ r \in SUBSET S
    BY <2>1
  <2>3. Cardinality(r) = n
    <3>1. Cardinality(r) = Cardinality(s) - 1
      BY <1>1, <2>2, FS_RemoveElement
    <3> QED BY <3>1
  <2>4. j[r] = iter[r] /\ iter[r] \in T
    BY <1>2, <1>4, <2>2, <2>3
  <2> QED BY <1>2, <2>1, <2>2, <2>4
<1> HIDE DEF A
<1>5. Nat \subseteq A
  BY <1>3, <1>4, NatSetInduction
<1>6. Cardinality(S) \in A
  BY <1>5, FS_CardinalityType
<1> QED BY <1>6 DEF A

-----------------------------------------------------------------------------
(***************************************************************************)
(* Folds of functions.                                                     *)
(***************************************************************************)
\* A fold of n steps has running values.
LEMMA FoldExists ==
  ASSUME NEW n \in Nat, NEW T, NEW base \in T, NEW g \in [1 .. n -> [T -> T]]
  PROVE  \E f : IsFold(f, n, T, base, g)
<1> DEFINE step == [k \in Nat |-> IF k + 1 \in 1 .. n THEN g[k + 1] ELSE [t \in T |-> t]]
<1>1. step \in [Nat -> [T -> T]]
  OBVIOUS
<1>2. \A k \in 0 .. n - 1 : k \in Nat /\ step[k] = g[k + 1]
  OBVIOUS
<1> HIDE DEF step
<1>3. PICK f : IsNatRecursion(f, T, base, step)
  BY <1>1, NatSetRecursion
<1> DEFINE e == [k \in 0 .. n |-> f[k]]
<1>4. e \in [0 .. n -> T] /\ e[0] = base
  BY <1>3 DEF IsNatRecursion
<1>5. \A k \in 0 .. n - 1 : e[k + 1] = g[k + 1][e[k]]
  <2> TAKE k \in 0 .. n - 1
  <2>1. e[k + 1] = f[k + 1] /\ e[k] = f[k] /\ k \in Nat
    OBVIOUS
  <2>2. f[k + 1] = step[k][f[k]]
    BY <2>1, <1>3 DEF IsNatRecursion
  <2> QED BY <2>1, <2>2, <1>2
<1> HIDE DEF e
<1> QED BY <1>4, <1>5 DEF IsFold

-----------------------------------------------------------------------------
(***************************************************************************)
(* Sums of a function over finite sets.                                    *)
(***************************************************************************)
AnyOf(s) == CHOOSE x \in s : TRUE

IsSum(iter, F, S) ==
  /\ iter \in [SUBSET S -> Nat]
  /\ \A s \in SUBSET S : iter[s] = IF s = {} THEN 0 ELSE F[AnyOf(s)] + iter[s \ {AnyOf(s)}]

LEMMA SumIsRecursion ==
  ASSUME NEW D, NEW F \in [D -> Nat], NEW S \in SUBSET D, IsFiniteSet(S)
  PROVE  \E iter : IsSum(iter, F, S) /\ SumFunctionOnSet(F, S) = iter[S]
<1> DEFINE c == [s \in SUBSET S |-> AnyOf(s)]
           g == [x \in S |-> [n \in Nat |-> F[x] + n]]
           body(it) == [s \in SUBSET S |->
                          IF s = {} THEN 0
                          ELSE F[CHOOSE x \in s : TRUE] + it[s \ {CHOOSE x \in s : TRUE}]]
           j == CHOOSE it : it = body(it)
<1>1. /\ \A s \in SUBSET S : c[s] = AnyOf(s)
      /\ \A s \in SUBSET S : s # {} => AnyOf(s) \in s /\ AnyOf(s) \in S
      /\ g \in [S -> [Nat -> Nat]]
      /\ \A x \in S, n \in Nat : g[x][n] = F[x] + n
  BY DEF AnyOf
<1> HIDE DEF c, g
<1>2. PICK iter : IsSubsetRecursion(iter, S, Nat, 0, g, c)
  BY <1>1, SubsetRecursion
<1>3. IsSum(iter, F, S)
  <2>1. iter \in [SUBSET S -> Nat]
    BY <1>2 DEF IsSubsetRecursion
  <2>2. ASSUME NEW s \in SUBSET S
        PROVE  iter[s] = IF s = {} THEN 0 ELSE F[AnyOf(s)] + iter[s \ {AnyOf(s)}]
    <3>1. /\ iter[s] = IF s = {} THEN 0 ELSE g[c[s]][iter[s \ {c[s]}]]
          /\ iter[s \ {c[s]}] \in Nat
      BY <1>2 DEF IsSubsetRecursion
    <3> QED BY <1>1, <3>1
  <2> QED BY <2>1, <2>2 DEF IsSum
<1>4. iter = body(iter)
  <2>1. iter = [s \in SUBSET S |-> iter[s]]
    BY <1>3 DEF IsSum
  <2> QED BY <1>3, <2>1 DEF IsSum, AnyOf
<1>5. j = body(j)
  BY <1>4
<1>6. SumFunctionOnSet(F, S) = j[S]
  BY DEF SumFunctionOnSet, FoldFunctionOnSet, MapThenFoldSet
<1> HIDE DEF j
<1>7. \A s \in SUBSET S : j[s] = IF s = {} THEN 0 ELSE F[AnyOf(s)] + j[s \ {AnyOf(s)}]
  BY <1>5 DEF AnyOf
<1> HIDE DEF body
<1>8. Follows(j, S, Nat, 0, g, c)
  <2>1. ASSUME NEW s \in SUBSET S, s # {}, j[s \ {c[s]}] \in Nat
        PROVE  j[s] = g[c[s]][j[s \ {c[s]}]]
    <3>1. c[s] = AnyOf(s) /\ AnyOf(s) \in S
      BY <1>1, <2>1
    <3>2. j[s] = F[AnyOf(s)] + j[s \ {AnyOf(s)}]
      BY <1>7, <2>1
    <3>3. g[AnyOf(s)][j[s \ {AnyOf(s)}]] = F[AnyOf(s)] + j[s \ {AnyOf(s)}]
      BY <1>1, <2>1, <3>1
    <3> QED BY <3>1, <3>2, <3>3
  <2>2. j[{}] = 0
    BY <1>7
  <2> QED BY <2>1, <2>2 DEF Follows
<1>9. Chooses(c, S)
  BY <1>1 DEF Chooses
<1>10. j[S] = iter[S]
  BY <1>2, <1>8, <1>9, SubsetRecursionUnique
<1> QED BY <1>3, <1>6, <1>10

\* What the recursion has for a subset is the sum over that subset.
LEMMA SumsAgree ==
  ASSUME NEW S, IsFiniteSet(S), NEW F, NEW f, IsSum(f, F, S),
         NEW R \in SUBSET S, NEW h, IsSum(h, F, R)
  PROVE  f[R] = h[R]
<1> DEFINE A == {n \in Nat : \A s \in SUBSET R : Cardinality(s) = n => f[s] = h[s]}
<1>1. \A s \in SUBSET R : s \in SUBSET S /\ IsFiniteSet(s) /\ Cardinality(s) \in Nat
  BY FS_Subset, FS_CardinalityType
<1>2. 0 \in A
  <2> SUFFICES ASSUME NEW s \in SUBSET R, Cardinality(s) = 0 PROVE f[s] = h[s]
    OBVIOUS
  <2>1. s = {}
    BY <1>1, FS_EmptySet
  <2> QED BY <1>1, <2>1 DEF IsSum
<1>3. ASSUME NEW n \in Nat, n \in A PROVE n + 1 \in A
  <2> SUFFICES ASSUME NEW s \in SUBSET R, Cardinality(s) = n + 1 PROVE f[s] = h[s]
    OBVIOUS
  <2> DEFINE r == s \ {AnyOf(s)}
  <2>1. s # {}
    BY FS_EmptySet
  <2>2. AnyOf(s) \in s /\ r \in SUBSET R /\ IsFiniteSet(s)
    BY <2>1, <1>1 DEF AnyOf
  <2>3. Cardinality(r) = n
    <3>1. Cardinality(r) = Cardinality(s) - 1
      BY <2>2, FS_RemoveElement
    <3> QED BY <3>1
  <2>4. f[r] = h[r]
    BY <1>3, <2>2, <2>3
  <2>5. f[s] = F[AnyOf(s)] + f[r] /\ h[s] = F[AnyOf(s)] + h[r]
    BY <2>1, <1>1 DEF IsSum
  <2> QED BY <2>4, <2>5
<1> HIDE DEF A
<1>4. Nat \subseteq A
  BY <1>2, <1>3, NatSetInduction
<1>5. Cardinality(R) \in A
  BY <1>1, <1>4
<1> QED BY <1>5 DEF A

LEMMA SumOfAny ==
  ASSUME NEW D, NEW F \in [D -> Nat], NEW S \in SUBSET D, IsFiniteSet(S)
  PROVE  /\ SumFunctionOnSet(F, S) \in Nat
         /\ S = {} => SumFunctionOnSet(F, S) = 0
         /\ S # {} => SumFunctionOnSet(F, S)
                        = F[AnyOf(S)] + SumFunctionOnSet(F, S \ {AnyOf(S)})
<1>1. PICK f : IsSum(f, F, S) /\ SumFunctionOnSet(F, S) = f[S]
  BY SumIsRecursion
<1> DEFINE R == S \ {AnyOf(S)}
<1>2. R \in SUBSET S /\ R \in SUBSET D /\ IsFiniteSet(R)
  BY FS_Subset
<1> HIDE DEF R
<1>3. PICK h : IsSum(h, F, R) /\ SumFunctionOnSet(F, R) = h[R]
  BY <1>2, SumIsRecursion
<1>4. f[R] = h[R]
  BY <1>1, <1>2, <1>3, SumsAgree
<1>5. f[S] \in Nat /\ f[S] = IF S = {} THEN 0 ELSE F[AnyOf(S)] + f[R]
  BY <1>1 DEF IsSum, R
<1> QED BY <1>1, <1>3, <1>4, <1>5 DEF R

\* The sum over nothing is 0, and any element may be taken out.
SumsUp(F, D) ==
  /\ SumFunctionOnSet(F, {}) = 0
  /\ \A S \in SUBSET D : SumFunctionOnSet(F, S) \in Nat
  /\ \A S \in SUBSET D : \A x \in S :
       SumFunctionOnSet(F, S) = F[x] + SumFunctionOnSet(F, S \ {x})

LEMMA SumFacts ==
  ASSUME NEW D, IsFiniteSet(D), NEW F \in [D -> Nat]
  PROVE  SumsUp(F, D)
<1> DEFINE Sum(s) == SumFunctionOnSet(F, s)
           Takes(s) == \A x \in s : Sum(s) = F[x] + Sum(s \ {x})
           A == {n \in Nat : \A s \in SUBSET D : Cardinality(s) = n => Takes(s)}
<1>1. \A s \in SUBSET D : IsFiniteSet(s) /\ Cardinality(s) \in Nat
  BY FS_Subset, FS_CardinalityType
<1>a. ASSUME NEW s \in SUBSET D
      PROVE  /\ Sum(s) \in Nat
             /\ s # {} => Sum(s) = F[AnyOf(s)] + Sum(s \ {AnyOf(s)})
  BY <1>1, SumOfAny
<1> HIDE DEF Sum
<1>2. \A s \in SUBSET D : /\ Sum(s) \in Nat
                          /\ s # {} => Sum(s) = F[AnyOf(s)] + Sum(s \ {AnyOf(s)})
                          /\ s # {} => AnyOf(s) \in s
  <2>1. \A s : s # {} => AnyOf(s) \in s
    BY DEF AnyOf
  <2> QED BY <1>a, <2>1
<1>3. 0 \in A
  <2> SUFFICES ASSUME NEW s \in SUBSET D, Cardinality(s) = 0 PROVE Takes(s)
    OBVIOUS
  <2>1. s = {}
    BY <1>1, FS_EmptySet
  <2> QED BY <2>1
<1>4. ASSUME NEW n \in Nat, n \in A PROVE n + 1 \in A
  <2> SUFFICES ASSUME NEW s \in SUBSET D, Cardinality(s) = n + 1, NEW x \in s
               PROVE  Sum(s) = F[x] + Sum(s \ {x})
    OBVIOUS
  <2> DEFINE c == AnyOf(s)
  <2>1. s # {} /\ c \in s /\ Sum(s) = F[c] + Sum(s \ {c})
    BY <1>2
  <2> HIDE DEF c
  <2>2. CASE c = x
    BY <2>1, <2>2
  <2>3. CASE c # x
    <3> DEFINE q == s \ {c}
               r == s \ {x}
               p == (s \ {c}) \ {x}
    <3>1. q \in SUBSET D /\ r \in SUBSET D /\ x \in q /\ c \in r /\ p = r \ {c} /\ p \in SUBSET D
      BY <2>1, <2>3
    <3>2. Cardinality(q) = Cardinality(s) - 1 /\ Cardinality(r) = Cardinality(s) - 1
      BY <1>1, <2>1, FS_RemoveElement
    <3>3. Cardinality(q) = n /\ Cardinality(r) = n
      BY <3>2
    <3>4. Takes(q) /\ Takes(r)
      BY <1>4, <3>1, <3>3
    <3>5. Sum(q) = F[x] + Sum(p)
      BY <3>1, <3>4
    <3>6. Sum(r) = F[c] + Sum(p)
      BY <3>1, <3>4
    <3>7. F[x] \in Nat /\ F[c] \in Nat /\ Sum(p) \in Nat
      BY <1>2, <2>1, <3>1
    <3> QED BY <2>1, <3>5, <3>6, <3>7
  <2> QED BY <2>2, <2>3
<1> HIDE DEF A
<1>5. Nat \subseteq A
  BY <1>3, <1>4, NatSetInduction
<1>6. ASSUME NEW s \in SUBSET D PROVE Takes(s)
  <2>1. Cardinality(s) \in A
    BY <1>1, <1>5
  <2> QED BY <2>1 DEF A
<1>7. Sum({}) = 0
  <2>1. {} \in SUBSET D /\ IsFiniteSet({})
    BY FS_EmptySet
  <2> QED BY <2>1, SumOfAny DEF Sum
<1>8. \A S \in SUBSET D : Sum(S) \in Nat /\ \A x \in S : Sum(S) = F[x] + Sum(S \ {x})
  BY <1>2, <1>6
<1> QED BY <1>7, <1>8 DEF Sum, SumsUp

-----------------------------------------------------------------------------
(***************************************************************************)
(* Max and FoldLeft.                                                       *)
(***************************************************************************)
LEMMA MaxOfPositions ==
  ASSUME NEW n \in Nat, NEW x \in SUBSET (1 .. n), x # {}
  PROVE  Max(x) \in x /\ \A y \in x : Max(x) >= y
<1>1. \E m \in x : \A y \in x : m >= y
  BY GreatestExists
<1> QED BY <1>1 DEF Max

LEMMA MaxOfInterval ==
  ASSUME NEW n \in Nat, NEW k \in 0 .. n - 1
  PROVE  /\ 1 .. k + 1 \in SUBSET (1 .. n) /\ 1 .. k + 1 # {} /\ k + 1 \in 1 .. n
         /\ Max(1 .. k + 1) = k + 1 /\ (1 .. k + 1) \ {k + 1} = 1 .. k
<1>1. k \in Nat /\ k + 1 \in 1 .. n
  OBVIOUS
<1>2. \A y \in 1 .. k + 1 : y \in 1 .. n
  BY <1>1
<1>3. k + 1 \in 1 .. k + 1
  BY <1>1
<1>5. (1 .. k + 1) \ {k + 1} = 1 .. k
  BY <1>1
<1> DEFINE x == 1 .. k + 1
<1>4. x \in SUBSET (1 .. n) /\ x # {} /\ k + 1 \in x /\ x \subseteq Nat
      /\ \A y \in x : y <= k + 1
  BY <1>1, <1>2, <1>3
<1>e. x = 1 .. k + 1
  OBVIOUS
<1> HIDE DEF x
<1>6. Max(x) \in x /\ Max(x) >= k + 1
  BY <1>4, MaxOfPositions
<1>7. Max(x) = k + 1
  <2>1. Max(x) \in Nat /\ Max(x) <= k + 1
    BY <1>4, <1>6
  <2> QED BY <1>1, <1>6, <2>1
<1> QED BY <1>1, <1>4, <1>5, <1>7, <1>e

\* FoldLeft takes out the greatest position: its function of sets of positions
\* exists, and has at the whole what comes of taking the positions in order.
IsFoldOfSets(it, n, T, base, g) ==
  /\ it \in [SUBSET (1 .. n) -> T]
  /\ \A x \in SUBSET (1 .. n) :
       it[x] = IF x = {} THEN base ELSE g[Max(x)][it[x \ {Max(x)}]]

LEMMA FoldLeftExists ==
  ASSUME NEW n \in Nat, NEW T, NEW base \in T, NEW g \in [1 .. n -> [T -> T]]
  PROVE  \E it : IsFoldOfSets(it, n, T, base, g)
<1> DEFINE c == [x \in SUBSET (1 .. n) |-> Max(x)]
<1>1. \A x \in SUBSET (1 .. n) : c[x] = Max(x)
  OBVIOUS
<1>2. \A x \in SUBSET (1 .. n) : x # {} => c[x] \in x
  BY <1>1, MaxOfPositions
<1>3. IsFiniteSet(1 .. n)
  BY FS_Interval
<1> HIDE DEF c
<1> DEFINE S == 1 .. n
<1>s. S = 1 .. n
  OBVIOUS
<1> HIDE DEF S
<1>4. PICK it : IsSubsetRecursion(it, S, T, base, g, c)
  BY <1>s, <1>2, <1>3, SubsetRecursion
<1>5. \A x \in SUBSET S : it[x] = IF x = {} THEN base ELSE g[c[x]][it[x \ {c[x]}]]
  BY <1>4 DEF IsSubsetRecursion
<1>6. it \in [SUBSET S -> T]
  BY <1>4 DEF IsSubsetRecursion
<1>7. \A x \in SUBSET S : it[x] = IF x = {} THEN base ELSE g[Max(x)][it[x \ {Max(x)}]]
  BY <1>1, <1>5, <1>s
<1> QED BY <1>6, <1>7, <1>s DEF IsFoldOfSets

\* j has these values as far as they have the type.
TakesGreatest(j, n, T, base, g) ==
  \A x \in SUBSET (1 .. n) :
    /\ x = {} => j[x] = base
    /\ x # {} /\ j[x \ {Max(x)}] \in T => j[x] = g[Max(x)][j[x \ {Max(x)}]]

\* A fold of n steps comes to v.
FoldsTo(v, n, T, base, g) == \E f : IsFold(f, n, T, base, g) /\ v = f[n]

LEMMA FoldLeftRuns ==
  ASSUME NEW n \in Nat, NEW T, NEW base \in T, NEW g \in [1 .. n -> [T -> T]],
         NEW j, TakesGreatest(j, n, T, base, g)
  PROVE  FoldsTo(j[1 .. n], n, T, base, g)
<1>1. j[{}] = base
  BY DEF TakesGreatest
<1>2. ASSUME NEW k \in 0 .. n - 1, j[1 .. k] \in T
      PROVE  j[1 .. k + 1] = g[k + 1][j[1 .. k]]
  <2>1. /\ 1 .. k + 1 \in SUBSET (1 .. n) /\ 1 .. k + 1 # {} /\ k + 1 \in 1 .. n
        /\ Max(1 .. k + 1) = k + 1 /\ (1 .. k + 1) \ {k + 1} = 1 .. k
    BY MaxOfInterval
  <2> DEFINE x == 1 .. k + 1
  <2>2. x \in SUBSET (1 .. n) /\ x # {} /\ Max(x) = k + 1 /\ x \ {Max(x)} = 1 .. k
    BY <2>1
  <2>e. x = 1 .. k + 1
    OBVIOUS
  <2> HIDE DEF x
  <2>3. j[x \ {Max(x)}] \in T => j[x] = g[Max(x)][j[x \ {Max(x)}]]
    BY <2>2 DEF TakesGreatest
  <2> QED BY <1>2, <2>2, <2>3, <2>e
<1>3. RunsOn(j, n, T, g)
  BY <1>2 DEF RunsOn
<1> QED BY <1>1, <1>3, FoldThatRunsOn DEF FoldsTo

\* What a fold comes to has the type; a fold of no steps is its base, and one
\* more step is applied to what the others come to.
LEMMA FoldsToTyped ==
  ASSUME NEW n \in Nat, NEW T, NEW base, NEW g, NEW v, FoldsTo(v, n, T, base, g)
  PROVE  v \in T
BY DEF FoldsTo, IsFold

LEMMA FoldsToBase ==
  ASSUME NEW T, NEW base, NEW g, NEW v, FoldsTo(v, 0, T, base, g)
  PROVE  v = base
BY DEF FoldsTo, IsFold

LEMMA FoldsToNext ==
  ASSUME NEW n \in Nat, NEW T, NEW U, NEW base, NEW g, NEW h, NEW v, NEW u,
         FoldsTo(v, n, T, base, g), FoldsTo(u, n + 1, U, base, h),
         \A k \in 1 .. n : g[k] = h[k]
  PROVE  v \in U /\ u = h[n + 1][v]
<1>1. PICK f : IsFold(f, n, T, base, g) /\ v = f[n]
  BY DEF FoldsTo
<1>2. PICK e : IsFold(e, n + 1, U, base, h) /\ u = e[n + 1]
  BY DEF FoldsTo
<1>3. n + 1 \in Nat /\ n <= n + 1 /\ n \in 0 .. n /\ n \in 0 .. (n + 1) - 1
  OBVIOUS
<1>4. f[n] = e[n]
  BY <1>1, <1>2, <1>3, FoldPrefix
<1>5. e[n] \in U /\ e[n + 1] = h[n + 1][e[n]]
  BY <1>2, <1>3 DEF IsFold
<1> QED BY <1>1, <1>2, <1>4, <1>5

-----------------------------------------------------------------------------
(***************************************************************************)
(* The valid bids.                                                         *)
(***************************************************************************)
ValidAmong(E) == {bid \in E : IsValid(bid)}

KeepSteps(s, E) ==
  [i \in 1 .. Len(s) |-> [valid \in Seq(ValidAmong(E)) |-> Keep(valid, s[i])]]

LEMMA KeepIsFold ==
  ASSUME NEW E, NEW s \in Seq(E)
  PROVE  FoldsTo(FoldLeft(Keep, <<>>, s), Len(s), Seq(ValidAmong(E)), <<>>,
                 KeepSteps(s, E))
<1> DEFINE n == Len(s)
           T == Seq(ValidAmong(E))
           g == KeepSteps(s, E)
           body(it) == [x \in SUBSET (1 .. n) |->
                          IF x = {} THEN <<>> ELSE Keep(it[x \ {Max(x)}], s[Max(x)])]
           j == CHOOSE it : it = body(it)
<1>0. n \in Nat /\ DOMAIN s = 1 .. n /\ <<>> \in T
  OBVIOUS
<1>1. \A i \in 1 .. n, a \in T : Keep(a, s[i]) \in T
  BY DEF Keep, ValidAmong
<1>2. g \in [1 .. n -> [T -> T]] /\ \A i \in 1 .. n, a \in T : g[i][a] = Keep(a, s[i])
  BY <1>1 DEF KeepSteps
<1>3. \A x \in SUBSET (1 .. n) : x # {} => Max(x) \in 1 .. n
  BY <1>0, MaxOfPositions
<1> HIDE DEF T, g
<1>4. PICK it : IsFoldOfSets(it, n, T, <<>>, g)
  <2> HIDE DEF n
  <2> QED BY <1>0, <1>2, FoldLeftExists
<1>5. it = body(it)
  <2> USE <1>4 DEF IsFoldOfSets
  <2>1. it = [x \in SUBSET (1 .. n) |-> it[x]]
    OBVIOUS
  <2>2. ASSUME NEW x \in SUBSET (1 .. n)
        PROVE  it[x] = IF x = {} THEN <<>> ELSE Keep(it[x \ {Max(x)}], s[Max(x)])
    <3>1. it[x \ {Max(x)}] \in T
      OBVIOUS
    <3>2. it[x] = IF x = {} THEN <<>> ELSE g[Max(x)][it[x \ {Max(x)}]]
      OBVIOUS
    <3> QED BY <1>2, <1>3, <3>1, <3>2
  <2> QED BY <2>1, <2>2
<1>6. j = body(j)
  BY <1>5
<1>7. FoldLeft(Keep, <<>>, s) = j[1 .. n]
  <2>1. j = CHOOSE e : e = [x \in SUBSET DOMAIN s |->
                              IF x = {} THEN <<>> ELSE Keep(e[x \ {Max(x)}], s[Max(x)])]
    BY <1>0
  <2> HIDE DEF j
  <2>2. FoldLeft(Keep, <<>>, s) = j[DOMAIN s]
    BY <2>1 DEF FoldLeft, MapThenFoldSet
  <2> QED BY <1>0, <2>2
<1> HIDE DEF j
<1>8. \A x \in SUBSET (1 .. n) :
        j[x] = IF x = {} THEN <<>> ELSE Keep(j[x \ {Max(x)}], s[Max(x)])
  BY <1>6
<1> HIDE DEF body
<1>9. TakesGreatest(j, n, T, <<>>, g)
  BY <1>2, <1>3, <1>8 DEF TakesGreatest
<1> HIDE DEF n
<1>10. FoldsTo(j[1 .. n], n, T, <<>>, g)
  BY <1>0, <1>2, <1>9, FoldLeftRuns
<1> QED BY <1>7, <1>10 DEF n, T, g

\* A bid more is kept if it is valid.
LEMMA KeepMore ==
  ASSUME NEW E, NEW s \in Seq(E), NEW b \in E
  PROVE  /\ FoldLeft(Keep, <<>>, <<>>) = <<>>
         /\ FoldLeft(Keep, <<>>, s) \in Seq(ValidAmong(E))
         /\ FoldLeft(Keep, <<>>, Append(s, b)) = Keep(FoldLeft(Keep, <<>>, s), b)
<1> DEFINE n == Len(s)
           t == Append(s, b)
           T == Seq(ValidAmong(E))
           g == KeepSteps(s, E)
           h == KeepSteps(t, E)
<1>1. /\ t \in Seq(E) /\ Len(t) = n + 1 /\ n \in Nat /\ t[n + 1] = b
      /\ \A i \in 1 .. n : t[i] = s[i]
  OBVIOUS
<1>2. <<>> \in Seq(E) /\ Len(<<>>) = 0
  OBVIOUS
<1>3. FoldsTo(FoldLeft(Keep, <<>>, <<>>), 0, T, <<>>, KeepSteps(<<>>, E))
  BY <1>2, KeepIsFold
<1>4. FoldsTo(FoldLeft(Keep, <<>>, s), n, T, <<>>, g)
  BY KeepIsFold
<1> HIDE DEF t
<1>5. FoldsTo(FoldLeft(Keep, <<>>, t), n + 1, T, <<>>, h)
  BY <1>1, KeepIsFold
<1>6. \A i \in 1 .. n : g[i] = h[i]
  BY <1>1 DEF KeepSteps
<1>7. \A a \in T : h[n + 1][a] = Keep(a, b)
  BY <1>1 DEF KeepSteps
<1> HIDE DEF n, T, g, h
<1>8. FoldLeft(Keep, <<>>, <<>>) = <<>>
  BY <1>3, FoldsToBase
<1>9. FoldLeft(Keep, <<>>, s) \in T
  BY <1>1, <1>4, FoldsToTyped
<1>10. FoldLeft(Keep, <<>>, t) = h[n + 1][FoldLeft(Keep, <<>>, s)]
  BY <1>1, <1>4, <1>5, <1>6, FoldsToNext
<1> QED BY <1>7, <1>8, <1>9, <1>10 DEF t, T

LEMMA SeqIsItsValues ==
  ASSUME NEW E, NEW s \in Seq(E)
  PROVE  s = [i \in 1 .. Len(s) |-> s[i]]
OBVIOUS

LEMMA ClampTyped ==
  ASSUME NEW b \in BidType
  PROVE  /\ Clamp(b) \in BidType
         /\ Clamp(b).message_hash = b.message_hash /\ Clamp(b).weight = b.weight
         /\ Clamp(b).size = IF b.size < min_message_size THEN min_message_size ELSE b.size
BY EngineAssumption DEF Clamp, BidType

\* The valid bids are bids, with the size they pay for.
LEMMA ValidBidsFacts ==
  ASSUME NEW bids \in Seq(BidType)
  PROVE  /\ ValidBids(bids) \in Seq(BidType)
         /\ \A k \in DOMAIN ValidBids(bids) :
              /\ IsValid(ValidBids(bids)[k])
              /\ \E i \in DOMAIN bids : ValidBids(bids)[k] = Clamp(bids[i])
<1> DEFINE s == [i \in DOMAIN bids |-> Clamp(bids[i])]
           E == {Clamp(bids[i]) : i \in DOMAIN bids}
<1>1. \A b \in BidType : Clamp(b) \in BidType
  BY ClampTyped
<1>2. E \subseteq BidType
  BY <1>1
<1>3. s \in Seq(E)
  OBVIOUS
<1>4. ValidBids(bids) = FoldLeft(Keep, <<>>, s)
  BY DEF ValidBids
<1>5. \A e \in E : \E i \in DOMAIN bids : e = Clamp(bids[i])
  OBVIOUS
<1>n. s = <<>> \/ \E b : b \in E
  OBVIOUS
<1> HIDE DEF s, E
<1>6. FoldLeft(Keep, <<>>, s) \in Seq(ValidAmong(E))
  <2>1. CASE \E b : b \in E
    BY <1>3, <2>1, KeepMore
  <2>2. CASE s = <<>>
    <3>1. FoldsTo(FoldLeft(Keep, <<>>, s), Len(s), Seq(ValidAmong(E)), <<>>, KeepSteps(s, E))
      BY <1>3, KeepIsFold
    <3>2. Len(s) \in Nat
      BY <1>3
    <3> QED BY <3>1, <3>2, FoldsToTyped
  <2> QED BY <1>n, <2>1, <2>2
<1> DEFINE v == ValidBids(bids)
<1>7. v \in Seq(ValidAmong(E))
  BY <1>4, <1>6
<1> HIDE DEF v
<1>8. \A k \in DOMAIN v : v[k] \in E /\ IsValid(v[k])
  BY <1>7 DEF ValidAmong
<1>9. v \in Seq(BidType)
  BY <1>2, <1>7 DEF ValidAmong
<1> QED BY <1>5, <1>8, <1>9 DEF v

LEMMA ValidBidsAppend ==
  ASSUME NEW bids \in Seq(BidType), NEW b \in BidType
  PROVE  /\ ValidBids(<<>>) = <<>>
         /\ ValidBids(Append(bids, b)) = Keep(ValidBids(bids), Clamp(b))
<1> DEFINE s == [i \in DOMAIN bids |-> Clamp(bids[i])]
           t == [i \in DOMAIN Append(bids, b) |-> Clamp(Append(bids, b)[i])]
<1>1. Clamp(b) \in BidType /\ \A i \in DOMAIN bids : Clamp(bids[i]) \in BidType
  BY ClampTyped
<1>2. s \in Seq(BidType)
  BY <1>1
<1>3. t = Append(s, Clamp(b))
  <2>1. DOMAIN Append(bids, b) = 1 .. Len(bids) + 1
    OBVIOUS
  <2>2. DOMAIN Append(s, Clamp(b)) = 1 .. Len(bids) + 1
    BY <1>2
  <2>3. \A i \in 1 .. Len(bids) + 1 : t[i] = Append(s, Clamp(b))[i]
    BY <1>2, <2>1
  <2>4. Append(s, Clamp(b)) \in Seq(BidType)
    BY <1>1, <1>2
  <2> DEFINE u == Append(s, Clamp(b))
  <2>l. Len(u) = Len(bids) + 1
    BY <1>2
  <2> HIDE DEF u
  <2>5. u = [i \in 1 .. Len(u) |-> u[i]]
    BY <2>4, SeqIsItsValues DEF u
  <2>6. u = [i \in 1 .. Len(bids) + 1 |-> u[i]]
    BY <2>5, <2>l, Zenon
  <2> QED BY <2>1, <2>3, <2>6 DEF u
<1>4. [i \in DOMAIN <<>> |-> Clamp(<<>>[i])] = <<>>
  OBVIOUS
<1>5. ValidBids(bids) = FoldLeft(Keep, <<>>, s) /\ ValidBids(Append(bids, b)) = FoldLeft(Keep, <<>>, t)
  BY DEF ValidBids
<1>6. ValidBids(<<>>) = FoldLeft(Keep, <<>>, <<>>)
  BY <1>4 DEF ValidBids
<1> HIDE DEF s, t
<1> QED BY <1>1, <1>2, <1>3, <1>5, <1>6, KeepMore

-----------------------------------------------------------------------------
(***************************************************************************)
(* The rows of the knapsack.                                               *)
(***************************************************************************)
\* A quotient rounded up or down.
LEMMA Quotients ==
  ASSUME NEW a \in Nat, NEW d \in Nat \ {0}
  PROVE  /\ a \div d \in Nat /\ (a \div d) * d <= a
         /\ (a + d - 1) \div d \in Nat /\ ((a + d - 1) \div d) * d >= a
<1>1. ASSUME NEW m \in Nat
      PROVE  /\ m \div d \in Nat /\ m % d \in Nat /\ m % d <= d - 1
             /\ m = ((m \div d) * d) + (m % d)
  <2>1. m = (d * (m \div d)) + (m % d) /\ m \div d \in Nat /\ m % d \in 0 .. d - 1
    OBVIOUS
  <2>2. d * (m \div d) = (m \div d) * d
    BY <2>1
  <2> QED BY <2>1, <2>2
<1>2. a + d - 1 \in Nat
  OBVIOUS
<1>3. /\ a \div d \in Nat /\ a % d \in Nat /\ a = ((a \div d) * d) + (a % d)
  BY <1>1
<1>4. (a \div d) * d \in Nat
  BY <1>3
<1> DEFINE q == (a + d - 1) \div d
           r == (a + d - 1) % d
<1>5. q \in Nat /\ r \in Nat /\ r <= d - 1 /\ a + d - 1 = q * d + r
  BY <1>1, <1>2
<1> HIDE DEF q, r
<1>6. q * d \in Nat
  BY <1>5
<1>7. q * d >= a
  BY <1>5, <1>6
<1> QED BY <1>3, <1>4, <1>5, <1>7 DEF q

LEMMA ChunksTyped ==
  /\ TotalChunks \in Nat /\ TotalChunks * chunk_bytes <= total_bandwidth
  /\ \A b \in BidType : Chunks(b) \in Nat /\ Chunks(b) * chunk_bytes >= b.size
<1>1. TotalChunks \in Nat /\ TotalChunks * chunk_bytes <= total_bandwidth
  BY EngineAssumption, Quotients DEF TotalChunks
<1>2. ASSUME NEW b \in BidType PROVE Chunks(b) \in Nat /\ Chunks(b) * chunk_bytes >= b.size
  <2>1. b.size \in Nat
    BY DEF BidType
  <2> QED BY <2>1, EngineAssumption, Quotients DEF Chunks
<1> QED BY <1>1, <1>2

DpRow == [Capacities -> Nat]

LEMMA NextRowAt ==
  ASSUME NEW row \in DpRow, NEW b \in BidType
  PROVE  /\ NextRow(row, b) \in DpRow
         /\ \A w \in Capacities :
              /\ row[w] <= NextRow(row, b)[w]
              /\ Chunks(b) <= w => w - Chunks(b) \in Capacities
              /\ Chunks(b) <= w => row[w - Chunks(b)] + b.weight <= NextRow(row, b)[w]
              /\ NextRow(row, b)[w] # row[w] =>
                   /\ Chunks(b) <= w
                   /\ NextRow(row, b)[w] = row[w - Chunks(b)] + b.weight
<1>1. Chunks(b) \in Nat /\ TotalChunks \in Nat /\ b.weight \in Nat
  BY ChunksTyped DEF BidType
<1>2. \A w \in Capacities : Chunks(b) <= w => w - Chunks(b) \in Capacities
  BY <1>1 DEF Capacities
<1>3. \A w \in Capacities : Chunks(b) <= w => Include(row, b, w) = row[w - Chunks(b)] + b.weight
                              /\ Include(row, b, w) \in Nat
  BY <1>1, <1>2 DEF Include, DpRow
<1>4. \A w \in Capacities :
        NextRow(row, b)[w] = IF Chunks(b) <= w /\ Include(row, b, w) > row[w]
                               THEN Include(row, b, w) ELSE row[w]
  BY DEF NextRow
<1>5. NextRow(row, b) \in DpRow
  BY <1>3 DEF NextRow, DpRow
<1>6. \A w \in Capacities : row[w] \in Nat
  BY DEF DpRow
<1> QED BY <1>2, <1>3, <1>4, <1>5, <1>6

LEMMA RowsFacts ==
  ASSUME NEW items \in Seq(BidType)
  PROVE  /\ Rows(items) \in [0 .. Len(items) -> DpRow]
         /\ Rows(items)[0] = [w \in Capacities |-> 0]
         /\ \A k \in 1 .. Len(items) :
              Rows(items)[k] = NextRow(Rows(items)[k - 1], items[k])
<1> DEFINE n == Len(items)
           base == [w \in Capacities |-> 0]
           g == [k \in 1 .. n |-> [row \in DpRow |-> NextRow(row, items[k])]]
           body(f) == [k \in 0 .. n |-> IF k = 0 THEN [w \in Capacities |-> 0]
                                        ELSE NextRow(f[k - 1], items[k])]
           r == CHOOSE f : f = body(f)
<1>1. n \in Nat /\ base \in DpRow /\ \A k \in 1 .. n : items[k] \in BidType
  BY DEF DpRow
<1>2. g \in [1 .. n -> [DpRow -> DpRow]] /\ \A k \in 1 .. n, row \in DpRow : g[k][row] = NextRow(row, items[k])
  BY <1>1, NextRowAt
<1>b. base = [w \in Capacities |-> 0]
  OBVIOUS
<1> HIDE DEF n, g, base
<1>3. PICK f : IsFold(f, n, DpRow, base, g)
  BY <1>1, <1>2, FoldExists
<1>4. /\ f \in [0 .. n -> DpRow] /\ f[0] = base
      /\ \A k \in 0 .. n - 1 : f[k + 1] = g[k + 1][f[k]]
  BY <1>3 DEF IsFold
<1>5. f = body(f)
  <2>1. f = [k \in 0 .. n |-> f[k]]
    BY <1>4
  <2>2. ASSUME NEW k \in 0 .. n, k # 0 PROVE f[k] = NextRow(f[k - 1], items[k])
    <3>1. k - 1 \in 0 .. n - 1 /\ k - 1 \in 0 .. n /\ k \in 1 .. n /\ (k - 1) + 1 = k
      BY <1>1, <2>2
    <3>2. f[k] = g[k][f[k - 1]] /\ f[k - 1] \in DpRow
      BY <1>4, <3>1
    <3> QED BY <1>2, <3>1, <3>2
  <2> QED BY <1>4, <1>b, <2>1, <2>2
<1>6. r = body(r)
  BY <1>5
<1>7. Rows(items) = r
  BY DEF Rows, n
<1> HIDE DEF r
<1>8. DOMAIN r = 0 .. n /\ \A k \in 0 .. n : r[k] = IF k = 0 THEN base ELSE NextRow(r[k - 1], items[k])
  BY <1>6, <1>b
<1> HIDE DEF body
<1> DEFINE A == {k \in Nat : k <= n => r[k] \in DpRow}
<1>9. 0 \in A
  BY <1>1, <1>8
<1>10. ASSUME NEW k \in Nat, k \in A PROVE k + 1 \in A
  <2> SUFFICES ASSUME k + 1 <= n PROVE r[k + 1] \in DpRow
    OBVIOUS
  <2>1. k + 1 \in 0 .. n /\ k + 1 # 0 /\ (k + 1) - 1 = k /\ k + 1 \in 1 .. n /\ k <= n
    BY <1>1
  <2>2. r[k + 1] = NextRow(r[k], items[k + 1]) /\ r[k] \in DpRow
    BY <1>8, <1>10, <2>1
  <2> QED BY <1>1, <2>1, <2>2, NextRowAt
<1> HIDE DEF A
<1>11. Nat \subseteq A
  BY <1>9, <1>10, NatSetInduction
<1>12. \A k \in 0 .. n : r[k] \in DpRow
  BY <1>11 DEF A
<1>13. r \in [0 .. n -> DpRow]
  <2>1. r = [k \in 0 .. n |-> r[k]]
    BY <1>6 DEF body
  <2> QED BY <1>12, <2>1
<1>14. r[0] = base /\ \A k \in 1 .. n : r[k] = NextRow(r[k - 1], items[k])
  BY <1>1, <1>8
<1> QED BY <1>7, <1>13, <1>14, <1>b DEF n

-----------------------------------------------------------------------------
(***************************************************************************)
(* Weights and sizes of selections.                                        *)
(***************************************************************************)
LEMMA WeightFacts ==
  ASSUME NEW items \in Seq(BidType)
  PROVE  /\ WeightOf(items, {}) = 0
         /\ \A S \in SUBSET DOMAIN items :
              /\ WeightOf(items, S) \in Nat
              /\ \A x \in S : WeightOf(items, S) = items[x].weight + WeightOf(items, S \ {x})
<1> DEFINE D == DOMAIN items
           F == [i \in D |-> items[i].weight]
<1>1. IsFiniteSet(D) /\ \A i \in D : items[i].weight \in Nat
  <2>1. D = 1 .. Len(items) /\ Len(items) \in Nat /\ \A i \in D : items[i] \in BidType
    OBVIOUS
  <2>2. IsFiniteSet(1 .. Len(items))
    BY <2>1, FS_Interval
  <2> QED BY <2>1, <2>2 DEF BidType
<1>2. F \in [D -> Nat] /\ \A i \in D : F[i] = items[i].weight
  BY <1>1
<1>3. \A S : WeightOf(items, S) = SumFunctionOnSet(F, S)
  BY DEF WeightOf
<1> HIDE DEF D, F
<1>4. /\ SumFunctionOnSet(F, {}) = 0
      /\ \A S \in SUBSET D : SumFunctionOnSet(F, S) \in Nat
      /\ \A S \in SUBSET D : \A x \in S : SumFunctionOnSet(F, S) = F[x] + SumFunctionOnSet(F, S \ {x})
  <2>1. SumsUp(F, D)
    BY <1>1, <1>2, SumFacts
  <2> QED BY <2>1 DEF SumsUp
<1>5. ASSUME NEW S \in SUBSET D
      PROVE  WeightOf(items, S) \in Nat
             /\ \A x \in S : WeightOf(items, S) = items[x].weight + WeightOf(items, S \ {x})
  <2>1. WeightOf(items, S) \in Nat
    BY <1>3, <1>4
  <2>2. ASSUME NEW x \in S
        PROVE  WeightOf(items, S) = items[x].weight + WeightOf(items, S \ {x})
    <3>1. SumFunctionOnSet(F, S) = F[x] + SumFunctionOnSet(F, S \ {x}) /\ F[x] = items[x].weight
      BY <1>2, <1>4
    <3> QED BY <1>3, <3>1, Zenon
  <2> QED BY <2>1, <2>2
<1>6. WeightOf(items, {}) = 0
  BY <1>3, <1>4
<1> QED BY <1>5, <1>6 DEF D

LEMMA ChunksFacts ==
  ASSUME NEW items \in Seq(BidType)
  PROVE  /\ ChunksOf(items, {}) = 0
         /\ \A S \in SUBSET DOMAIN items :
              /\ ChunksOf(items, S) \in Nat
              /\ \A x \in S : ChunksOf(items, S) = Chunks(items[x]) + ChunksOf(items, S \ {x})
<1> DEFINE D == DOMAIN items
           F == [i \in D |-> Chunks(items[i])]
<1>1. IsFiniteSet(D) /\ \A i \in D : Chunks(items[i]) \in Nat
  <2>1. D = 1 .. Len(items) /\ Len(items) \in Nat /\ \A i \in D : items[i] \in BidType
    OBVIOUS
  <2>2. IsFiniteSet(1 .. Len(items))
    BY <2>1, FS_Interval
  <2> QED BY <2>1, <2>2, ChunksTyped
<1>2. F \in [D -> Nat] /\ \A i \in D : F[i] = Chunks(items[i])
  BY <1>1
<1>3. \A S : ChunksOf(items, S) = SumFunctionOnSet(F, S)
  BY DEF ChunksOf
<1> HIDE DEF D, F
<1>4. /\ SumFunctionOnSet(F, {}) = 0
      /\ \A S \in SUBSET D : SumFunctionOnSet(F, S) \in Nat
      /\ \A S \in SUBSET D : \A x \in S : SumFunctionOnSet(F, S) = F[x] + SumFunctionOnSet(F, S \ {x})
  <2>1. SumsUp(F, D)
    BY <1>1, <1>2, SumFacts
  <2> QED BY <2>1 DEF SumsUp
<1>5. \A S \in SUBSET D : \A x \in S : x \in D
  OBVIOUS
<1>6. ChunksOf(items, {}) = 0
  BY <1>3, <1>4
<1>7. ASSUME NEW S \in SUBSET D
      PROVE  /\ ChunksOf(items, S) \in Nat
             /\ \A x \in S : ChunksOf(items, S) = Chunks(items[x]) + ChunksOf(items, S \ {x})
  <2>1. ChunksOf(items, S) \in Nat
    BY <1>3, <1>4, <1>7
  <2>2. ASSUME NEW x \in S
        PROVE  ChunksOf(items, S) = Chunks(items[x]) + ChunksOf(items, S \ {x})
    <3>1. F[x] = Chunks(items[x])
      BY <1>2, <1>5
    <3>2. SumFunctionOnSet(F, S) = F[x] + SumFunctionOnSet(F, S \ {x})
      BY <1>4
    <3> QED BY <1>3, <3>1, <3>2
  <2> QED BY <2>1, <2>2
<1> QED BY <1>6, <1>7 DEF D

-----------------------------------------------------------------------------
(***************************************************************************)
(* The knapsack.                                                           *)
(***************************************************************************)
TraceStates(items) == [w : Capacities, selected : SUBSET DOMAIN items]

LEMMA VisitTyped ==
  ASSUME NEW items \in Seq(BidType), NEW i \in 1 .. Len(items), NEW at \in TraceStates(items)
  PROVE  /\ Visit(Rows(items), items, i, at) \in TraceStates(items)
         /\ Rows(items)[i][at.w] = Rows(items)[i - 1][at.w] =>
              Visit(Rows(items), items, i, at) = at
         /\ Rows(items)[i][at.w] # Rows(items)[i - 1][at.w] =>
              /\ Visit(Rows(items), items, i, at).w = at.w - Chunks(items[i])
              /\ Visit(Rows(items), items, i, at).selected = at.selected \cup {i}
              /\ Rows(items)[i][at.w]
                   = Rows(items)[i - 1][at.w - Chunks(items[i])] + items[i].weight
<1> DEFINE rows == Rows(items)
           c == Chunks(items[i])
<1>1. /\ i \in DOMAIN items /\ items[i] \in BidType /\ i - 1 \in 0 .. Len(items)
      /\ i \in 1 .. Len(items)
  OBVIOUS
<1>2. at.w \in Capacities /\ at.selected \in SUBSET DOMAIN items
  BY DEF TraceStates
<1>3. rows[i - 1] \in DpRow /\ rows[i] = NextRow(rows[i - 1], items[i])
  BY <1>1, RowsFacts
<1>4. rows[i][at.w] # rows[i - 1][at.w] =>
         /\ at.w - c \in Capacities
         /\ rows[i][at.w] = rows[i - 1][at.w - c] + items[i].weight
  <2> DEFINE row == rows[i - 1]
             b == items[i]
  <2>1. row \in DpRow /\ b \in BidType /\ rows[i] = NextRow(row, b) /\ at.w \in Capacities
    BY <1>1, <1>2, <1>3
  <2> HIDE DEF row, b, rows
  <2>2. /\ Chunks(b) <= at.w => at.w - Chunks(b) \in Capacities
        /\ NextRow(row, b)[at.w] # row[at.w] =>
             /\ Chunks(b) <= at.w
             /\ NextRow(row, b)[at.w] = row[at.w - Chunks(b)] + b.weight
    BY <2>1, NextRowAt
  <2> QED BY <2>1, <2>2 DEF row, b
<1> HIDE DEF rows, c
<1>5. CASE rows[i][at.w] = rows[i - 1][at.w]
  <2>1. Visit(rows, items, i, at) = at
    BY <1>5 DEF Visit
  <2> QED BY <1>5, <2>1 DEF rows
<1>6. CASE rows[i][at.w] # rows[i - 1][at.w]
  <2>1. Visit(rows, items, i, at) = [w |-> at.w - c, selected |-> at.selected \cup {i}]
    BY <1>6 DEF Visit, c
  <2>2. Visit(rows, items, i, at) \in TraceStates(items)
    BY <1>1, <1>2, <1>4, <1>6, <2>1 DEF TraceStates
  <2> QED BY <1>4, <1>6, <2>1, <2>2 DEF rows, c
<1> QED BY <1>5, <1>6

IsTrace(at, items) ==
  /\ at \in [0 .. Len(items) -> TraceStates(items)]
  /\ at[0] = [w |-> TotalChunks, selected |-> {}]
  /\ \A k \in 0 .. Len(items) - 1 :
       at[k + 1] = Visit(Rows(items), items, Len(items) - k, at[k])

LEMMA TraceExists ==
  ASSUME NEW items \in Seq(BidType)
  PROVE  \E at : IsTrace(at, items) /\ TraceBack(items) = at[Len(items)].selected
<1> DEFINE n == Len(items)
           rows == Rows(items)
           T == TraceStates(items)
           base == [w |-> TotalChunks, selected |-> {}]
           g == [k \in 1 .. n |-> [s \in T |-> Visit(rows, items, n - k + 1, s)]]
           body(f) == [k \in 0 .. n |->
                         IF k = 0 THEN [w |-> TotalChunks, selected |-> {}]
                         ELSE Visit(rows, items, n - k + 1, f[k - 1])]
           r == CHOOSE f : f = body(f)
<1>1. n \in Nat /\ base \in T
  BY ChunksTyped DEF TraceStates, Capacities
<1>2. \A i \in 1 .. n, s \in T : Visit(rows, items, i, s) \in T
  BY VisitTyped
<1>3. \A k \in 1 .. n : n - k + 1 \in 1 .. n
  BY <1>1
<1> HIDE DEF T, rows
<1>4. g \in [1 .. n -> [T -> T]] /\ \A k \in 1 .. n, s \in T : g[k][s] = Visit(rows, items, n - k + 1, s)
  BY <1>2, <1>3
<1>b. base = [w |-> TotalChunks, selected |-> {}]
  OBVIOUS
<1> HIDE DEF n, g, base
<1>5. PICK f : IsFold(f, n, T, base, g)
  BY <1>1, <1>4, FoldExists
<1>6. /\ f \in [0 .. n -> T] /\ f[0] = base
      /\ \A k \in 0 .. n - 1 : f[k + 1] = g[k + 1][f[k]]
  BY <1>5 DEF IsFold
<1>7. f = body(f)
  <2>1. f = [k \in 0 .. n |-> f[k]]
    BY <1>6
  <2>2. ASSUME NEW k \in 0 .. n, k # 0 PROVE f[k] = Visit(rows, items, n - k + 1, f[k - 1])
    <3>1. k - 1 \in 0 .. n - 1 /\ k - 1 \in 0 .. n /\ k \in 1 .. n /\ (k - 1) + 1 = k
      BY <1>1, <2>2
    <3>2. f[k] = g[k][f[k - 1]] /\ f[k - 1] \in T
      BY <1>6, <3>1
    <3> QED BY <1>4, <3>1, <3>2
  <2> QED BY <1>6, <1>b, <2>1, <2>2
<1>8. r = body(r)
  BY <1>7
<1>9. TraceBack(items) = r[n].selected
  BY DEF TraceBack, n, rows
<1> HIDE DEF r
<1>10. DOMAIN r = 0 .. n /\ \A k \in 0 .. n : r[k] = IF k = 0 THEN base ELSE Visit(rows, items, n - k + 1, r[k - 1])
  BY <1>8, <1>b
<1> HIDE DEF body
<1> DEFINE A == {k \in Nat : k <= n => r[k] = f[k]}
<1>11. 0 \in A
  BY <1>1, <1>6, <1>10
<1>12. ASSUME NEW k \in Nat, k \in A PROVE k + 1 \in A
  <2> SUFFICES ASSUME k + 1 <= n PROVE r[k + 1] = f[k + 1]
    OBVIOUS
  <2>1. k + 1 \in 0 .. n /\ k + 1 # 0 /\ (k + 1) - 1 = k /\ k + 1 \in 1 .. n /\ k <= n
        /\ k \in 0 .. n - 1 /\ k \in 0 .. n
    BY <1>1
  <2>2. r[k + 1] = Visit(rows, items, n - (k + 1) + 1, r[k]) /\ r[k] = f[k]
    BY <1>10, <1>12, <2>1
  <2>3. f[k + 1] = g[k + 1][f[k]] /\ f[k] \in T
    BY <1>6, <2>1
  <2> QED BY <1>4, <2>1, <2>2, <2>3
<1> HIDE DEF A
<1>13. Nat \subseteq A
  BY <1>11, <1>12, NatSetInduction
<1>14. r[n] = f[n]
  BY <1>1, <1>13 DEF A
<1>15. IsTrace(f, items)
  <2>1. ASSUME NEW k \in 0 .. n - 1 PROVE f[k + 1] = Visit(rows, items, n - k, f[k])
    <3>1. k + 1 \in 1 .. n /\ k \in 0 .. n /\ n - (k + 1) + 1 = n - k
      BY <1>1
    <3>2. f[k] \in T
      BY <1>6, <3>1
    <3>3. f[k + 1] = Visit(rows, items, n - (k + 1) + 1, f[k])
      BY <1>4, <1>6, <3>1, <3>2
    <3> QED BY <3>1, <3>3, Zenon
  <2> QED BY <1>6, <1>b, <2>1 DEF IsTrace, n, rows, T
<1> QED BY <1>9, <1>14, <1>15, Zenon DEF n

\* What the trace-back keeps: the items taken so far fill what is no longer
\* free, and are worth what the rows have more for the whole than for the rest.
TraceInv(items, k, s) ==
  /\ \A i \in s.selected : i >= Len(items) - k + 1
  /\ ChunksOf(items, s.selected) + s.w = TotalChunks
  /\ Rows(items)[Len(items) - k][s.w] + WeightOf(items, s.selected)
       = Rows(items)[Len(items)][TotalChunks]

LEMMA TraceStep ==
  ASSUME NEW items \in Seq(BidType), NEW k \in 0 .. Len(items) - 1,
         NEW s \in TraceStates(items), TraceInv(items, k, s)
  PROVE  TraceInv(items, k + 1, Visit(Rows(items), items, Len(items) - k, s))
<1> DEFINE n == Len(items)
           rows == Rows(items)
           i == n - k
           c == Chunks(items[i])
           v == Visit(rows, items, i, s)
           S == s.selected
           R == S \cup {i}
<1>1. /\ n \in Nat /\ i \in 1 .. n /\ i \in DOMAIN items /\ items[i] \in BidType
      /\ i - 1 = n - (k + 1) /\ i - 1 \in 0 .. n /\ i \in 0 .. n
  OBVIOUS
<1>2. s.w \in Capacities /\ S \in SUBSET DOMAIN items
  BY DEF TraceStates
<1>3. /\ v \in TraceStates(items)
      /\ rows[i][s.w] = rows[i - 1][s.w] => v = s
      /\ rows[i][s.w] # rows[i - 1][s.w] =>
              /\ v.w = s.w - c /\ v.selected = R
              /\ rows[i][s.w] = rows[i - 1][s.w - c] + items[i].weight
  <2>1. i \in 1 .. Len(items)
    BY <1>1
  <2> HIDE DEF i
  <2>2. v \in TraceStates(items)
    BY <2>1, VisitTyped
  <2>3. rows[i][s.w] = rows[i - 1][s.w] => v = s
    BY <2>1, VisitTyped
  <2>4. rows[i][s.w] # rows[i - 1][s.w] => v.w = s.w - c
    BY <2>1, VisitTyped
  <2>5. rows[i][s.w] # rows[i - 1][s.w] => v.selected = R
    BY <2>1, VisitTyped
  <2>6. rows[i][s.w] # rows[i - 1][s.w] =>
          rows[i][s.w] = rows[i - 1][s.w - c] + items[i].weight
    BY <2>1, VisitTyped
  <2> QED BY <2>2, <2>3, <2>4, <2>5, <2>6
<1>4. /\ \A x \in S : x >= i + 1
      /\ ChunksOf(items, S) + s.w = TotalChunks
      /\ rows[i][s.w] + WeightOf(items, S) = rows[n][TotalChunks]
  <2>1. n - k + 1 = i + 1
    BY <1>1
  <2> QED BY <2>1 DEF TraceInv
<1>5. \A x \in S : x \in Nat
  BY <1>1, <1>2
<1>c. c \in Nat /\ items[i].weight \in Nat
  BY <1>1, ChunksTyped DEF BidType
<1>g. TraceInv(items, k + 1, v) <=>
        /\ \A x \in v.selected : x >= n - (k + 1) + 1
        /\ ChunksOf(items, v.selected) + v.w = TotalChunks
        /\ rows[n - (k + 1)][v.w] + WeightOf(items, v.selected) = rows[n][TotalChunks]
  BY DEF TraceInv
<1>6. CASE rows[i][s.w] = rows[i - 1][s.w]
  <2>1. v = s
    BY <1>3, <1>6
  <2>2. \A x \in S : x >= n - (k + 1) + 1
    BY <1>1, <1>4, <1>5
  <2>3. rows[n - (k + 1)][s.w] = rows[i][s.w]
    BY <1>1, <1>6
  <2> QED BY <1>4, <1>g, <2>1, <2>2, <2>3
<1>7. CASE rows[i][s.w] # rows[i - 1][s.w]
  <2>1. v.w = s.w - c /\ v.selected = R /\ rows[i][s.w] = rows[i - 1][s.w - c] + items[i].weight
    BY <1>3, <1>7
  <2>2. i \notin S
    BY <1>1, <1>4
  <2>3. i \in R /\ R \ {i} = S /\ R \in SUBSET DOMAIN items
    BY <1>1, <1>2, <2>2
  <2>s. s.w \in Nat /\ s.w - c \in Capacities
    <3>1. v.w \in Capacities
      BY <1>3 DEF TraceStates
    <3> QED BY <1>2, <2>1, <3>1, ChunksTyped DEF Capacities
  <2>4. ChunksOf(items, R) = c + ChunksOf(items, S) /\ ChunksOf(items, S) \in Nat
    <3> HIDE DEF R, S
    <3> QED BY <1>2, <2>3, ChunksFacts
  <2>5. WeightOf(items, R) = items[i].weight + WeightOf(items, S) /\ WeightOf(items, S) \in Nat
    <3> HIDE DEF R, S
    <3> QED BY <1>2, <2>3, WeightFacts
  <2>6. rows[i - 1][s.w - c] \in Nat
    <3>1. rows[i - 1] \in DpRow
      BY <1>1, RowsFacts
    <3> QED BY <2>s, <3>1 DEF DpRow
  <2>7. \A x \in R : x >= n - (k + 1) + 1
    <3>1. n - (k + 1) + 1 = i
      BY <1>1
    <3>2. \A x \in S : x >= i
      BY <1>1, <1>4, <1>5
    <3>3. i >= i
      BY <1>1
    <3> QED BY <3>1, <3>2, <3>3
  <2> HIDE DEF c, v, R, S, rows, i
  <2>8. ChunksOf(items, R) + (s.w - c) = TotalChunks
    BY <1>4, <1>c, <2>4, <2>s
  <2>9. rows[i - 1][s.w - c] + WeightOf(items, R) = rows[n][TotalChunks]
    <3> DEFINE a == rows[i - 1][s.w - c]
               b == WeightOf(items, S)
               e == items[i].weight
    <3>1. rows[i][s.w] = a + e /\ WeightOf(items, R) = e + b
      BY <2>1, <2>5
    <3>2. a \in Nat /\ b \in Nat /\ e \in Nat
      BY <1>c, <2>5, <2>6
    <3>3. rows[i][s.w] + b = rows[n][TotalChunks]
      BY <1>4
    <3> HIDE DEF a, b, e
    <3>4. a + (e + b) = (a + e) + b
      BY <3>2
    <3>5. a + WeightOf(items, R) = rows[n][TotalChunks]
      BY <3>1, <3>3, <3>4
    <3> QED BY <3>5 DEF a
  <2>10. TraceInv(items, k + 1, v)
    BY <1>1, <1>g, <2>1, <2>7, <2>8, <2>9
  <2> QED BY <2>10 DEF v, rows, i
<1> QED BY <1>6, <1>7 DEF rows

\* The items selected fit, and are worth what the last row has.
LEMMA TraceBackFacts ==
  ASSUME NEW items \in Seq(BidType)
  PROVE  /\ TraceBack(items) \in SUBSET DOMAIN items
         /\ ChunksOf(items, TraceBack(items)) <= TotalChunks
         /\ WeightOf(items, TraceBack(items)) = Rows(items)[Len(items)][TotalChunks]
<1> DEFINE n == Len(items)
<1>1. PICK at : IsTrace(at, items) /\ TraceBack(items) = at[n].selected
  BY TraceExists
<1>2. /\ at \in [0 .. n -> TraceStates(items)]
      /\ at[0] = [w |-> TotalChunks, selected |-> {}]
      /\ \A k \in 0 .. n - 1 : at[k + 1] = Visit(Rows(items), items, n - k, at[k])
  BY <1>1 DEF IsTrace
<1>n. n \in Nat
  OBVIOUS
<1>3. TraceInv(items, 0, at[0])
  <2>1. at[0].w = TotalChunks /\ at[0].selected = {}
    BY <1>2
  <2>2. ChunksOf(items, {}) = 0 /\ WeightOf(items, {}) = 0
    BY ChunksFacts, WeightFacts
  <2>3. TotalChunks \in Capacities /\ TotalChunks \in Nat
    BY ChunksTyped DEF Capacities
  <2>4. Rows(items)[n] \in DpRow
    BY <1>n, RowsFacts
  <2>5. Rows(items)[n][TotalChunks] \in Nat
    BY <2>3, <2>4 DEF DpRow
  <2>6. n - 0 = n
    BY <1>n
  <2>7. Rows(items)[n - 0][at[0].w] + WeightOf(items, at[0].selected) = Rows(items)[n][TotalChunks]
    BY <2>1, <2>2, <2>5, <2>6
  <2>8. ChunksOf(items, at[0].selected) + at[0].w = TotalChunks
    BY <2>1, <2>2, <2>3
  <2> QED BY <2>1, <2>7, <2>8 DEF TraceInv
<1> DEFINE A == {k \in Nat : k <= n => TraceInv(items, k, at[k])}
<1>4. 0 \in A
  BY <1>3
<1>5. ASSUME NEW k \in Nat, k \in A PROVE k + 1 \in A
  <2> SUFFICES ASSUME k + 1 <= n PROVE TraceInv(items, k + 1, at[k + 1])
    OBVIOUS
  <2>1. k \in 0 .. n - 1 /\ k \in 0 .. n /\ k <= n
    BY <1>n
  <2>2. TraceInv(items, k, at[k]) /\ at[k] \in TraceStates(items)
    BY <1>2, <1>5, <2>1
  <2>3. TraceInv(items, k + 1, Visit(Rows(items), items, n - k, at[k]))
    BY <2>1, <2>2, TraceStep
  <2> QED BY <1>2, <2>1, <2>3
<1> HIDE DEF A
<1>6. Nat \subseteq A
  BY <1>4, <1>5, NatSetInduction
<1>7. TraceInv(items, n, at[n]) /\ at[n] \in TraceStates(items)
  BY <1>2, <1>6, <1>n DEF A
<1> DEFINE S == TraceBack(items)
           w == at[n].w
<1>8. S \in SUBSET DOMAIN items /\ w \in Capacities
  BY <1>1, <1>7 DEF TraceStates
<1>9. /\ ChunksOf(items, S) + w = TotalChunks
      /\ Rows(items)[0][w] + WeightOf(items, S) = Rows(items)[n][TotalChunks]
  <2>1. n - n = 0
    BY <1>n
  <2> QED BY <1>1, <1>7, <2>1 DEF TraceInv
<1>10. Rows(items)[0][w] = 0 /\ w \in Nat
  BY <1>8, RowsFacts, ChunksTyped DEF Capacities
<1> HIDE DEF S, w
<1>11. ChunksOf(items, S) \in Nat /\ WeightOf(items, S) \in Nat
  BY <1>8, ChunksFacts, WeightFacts
<1>12. WeightOf(items, S) = Rows(items)[n][TotalChunks]
  BY <1>9, <1>10, <1>11
<1>13. ChunksOf(items, S) <= TotalChunks
  BY <1>9, <1>10, <1>11
<1> QED BY <1>8, <1>12, <1>13 DEF S

\* No selection of the first k items that fits w is worth more than row k has.
RowBounds(items, k) ==
  \A S \in SUBSET (1 .. k) : \A w \in Capacities :
    ChunksOf(items, S) <= w => WeightOf(items, S) <= Rows(items)[k][w]

LEMMA RowBoundsNext ==
  ASSUME NEW items \in Seq(BidType), NEW k \in 0 .. Len(items) - 1, RowBounds(items, k)
  PROVE  RowBounds(items, k + 1)
<1> DEFINE n == Len(items)
           rows == Rows(items)
           i == k + 1
           c == Chunks(items[i])
           e == items[i].weight
<1> SUFFICES ASSUME NEW S \in SUBSET (1 .. i), NEW w \in Capacities, ChunksOf(items, S) <= w
             PROVE  WeightOf(items, S) <= rows[i][w]
  BY DEF RowBounds
<1>1. /\ n \in Nat /\ k \in Nat /\ i \in 1 .. n /\ i \in DOMAIN items /\ items[i] \in BidType
      /\ i - 1 = k /\ k \in 0 .. n /\ 1 .. i \subseteq DOMAIN items
  OBVIOUS
<1>2. rows[k] \in DpRow /\ rows[i] = NextRow(rows[k], items[i])
  BY <1>1, RowsFacts
<1>3. /\ rows[i] \in DpRow
      /\ rows[k][w] <= rows[i][w]
      /\ c <= w => w - c \in Capacities
      /\ c <= w => rows[k][w - c] + e <= rows[i][w]
  <2> HIDE DEF rows, i
  <2> QED BY <1>1, <1>2, NextRowAt
<1>4. c \in Nat /\ e \in Nat /\ w \in Nat
  BY <1>1, ChunksTyped DEF BidType, Capacities
<1>5. S \in SUBSET DOMAIN items
  BY <1>1
<1>6. ChunksOf(items, S) \in Nat /\ WeightOf(items, S) \in Nat
  BY <1>5, ChunksFacts, WeightFacts
<1>7. CASE i \notin S
  <2>1. S \in SUBSET (1 .. k)
    BY <1>1, <1>7
  <2>2. WeightOf(items, S) <= rows[k][w]
    BY <2>1 DEF RowBounds
  <2>3. rows[k][w] \in Nat /\ rows[i][w] \in Nat
    BY <1>2, <1>3 DEF DpRow
  <2> HIDE DEF rows, i
  <2> QED BY <1>3, <1>6, <2>2, <2>3
<1>8. CASE i \in S
  <2> DEFINE R == S \ {i}
  <2>1. R \in SUBSET (1 .. k) /\ R \in SUBSET DOMAIN items
    BY <1>1, <1>5
  <2>2. ChunksOf(items, S) = c + ChunksOf(items, R) /\ ChunksOf(items, R) \in Nat
    <3> HIDE DEF i
    <3> QED BY <1>5, <1>8, <2>1, ChunksFacts
  <2>3. WeightOf(items, S) = e + WeightOf(items, R) /\ WeightOf(items, R) \in Nat
    <3> HIDE DEF i
    <3> QED BY <1>5, <1>8, <2>1, WeightFacts
  <2> HIDE DEF R, i, c, e, rows
  <2>4. c <= w /\ ChunksOf(items, R) <= w - c
    BY <1>4, <2>2
  <2>5. w - c \in Capacities
    BY <1>3, <2>4
  <2>6. WeightOf(items, R) <= rows[k][w - c]
    BY <2>1, <2>4, <2>5 DEF RowBounds, rows
  <2>7. rows[k][w - c] \in Nat /\ rows[i][w] \in Nat
    BY <1>2, <1>3, <2>5 DEF DpRow
  <2>8. rows[k][w - c] + e <= rows[i][w]
    BY <1>3, <2>4
  <2> DEFINE low  == rows[k][w - c]
             up   == rows[i][w]
             rest == WeightOf(items, R)
  <2>9. /\ low \in Nat /\ up \in Nat /\ rest \in Nat /\ e \in Nat
        /\ WeightOf(items, S) = e + rest /\ rest <= low /\ low + e <= up
    BY <1>4, <2>3, <2>6, <2>7, <2>8
  <2> HIDE DEF low, up, rest
  <2>10. WeightOf(items, S) <= up
    BY <2>9
  <2> QED BY <2>10 DEF up
<1> QED BY <1>7, <1>8

LEMMA RowsBound ==
  ASSUME NEW items \in Seq(BidType)
  PROVE  RowBounds(items, Len(items))
<1> DEFINE n == Len(items)
           A == {k \in Nat : k <= n => RowBounds(items, k)}
<1>n. n \in Nat
  OBVIOUS
<1>1. 0 \in A
  <2>1. ASSUME NEW S \in SUBSET (1 .. 0), NEW w \in Capacities
        PROVE  WeightOf(items, S) <= Rows(items)[0][w]
    <3>1. S = {}
      OBVIOUS
    <3>2. WeightOf(items, S) = 0
      BY <3>1, WeightFacts
    <3>3. Rows(items)[0][w] = 0
      BY RowsFacts
    <3> QED BY <3>2, <3>3
  <2>2. RowBounds(items, 0)
    BY <2>1 DEF RowBounds
  <2> QED BY <2>2
<1>2. ASSUME NEW k \in Nat, k \in A PROVE k + 1 \in A
  <2> SUFFICES ASSUME k + 1 <= n PROVE RowBounds(items, k + 1)
    OBVIOUS
  <2>1. k \in 0 .. n - 1 /\ RowBounds(items, k)
    BY <1>n, <1>2
  <2> QED BY <2>1, RowBoundsNext
<1> HIDE DEF A
<1>3. Nat \subseteq A
  BY <1>1, <1>2, NatSetInduction
<1>4. RowBounds(items, n)
  BY <1>3, <1>n DEF A
<1> QED BY <1>4

\* The greatest of a set of numbers.
LEMMA GreatestIs ==
  ASSUME NEW V, NEW m \in V, V \subseteq Nat, \A v \in V : v <= m
  PROVE  Max(V) = m
<1>1. \E x \in V : \A y \in V : x >= y
  OBVIOUS
<1>2. Max(V) \in V /\ \A y \in V : Max(V) >= y
  BY <1>1 DEF Max
<1>3. Max(V) >= m /\ Max(V) <= m /\ Max(V) \in Nat /\ m \in Nat
  BY <1>2
<1> QED BY <1>3

\* The trace-back selects what fits and is worth as much as anything that fits.
LEMMA Knapsack ==
  ASSUME NEW items \in Seq(BidType)
  PROVE  /\ TraceBack(items) \in Selections(items)
         /\ WeightOf(items, TraceBack(items)) = BestWeight(items)
<1> DEFINE V == {WeightOf(items, chosen) : chosen \in Selections(items)}
           S == TraceBack(items)
           n == Len(items)
<1>1. S \in Selections(items)
  BY TraceBackFacts DEF Selections
<1>2. WeightOf(items, S) \in V
  BY <1>1
<1>3. ASSUME NEW R \in Selections(items)
      PROVE  WeightOf(items, R) \in Nat /\ WeightOf(items, R) <= WeightOf(items, S)
  <2>1. R \in SUBSET DOMAIN items /\ ChunksOf(items, R) <= TotalChunks /\ DOMAIN items = 1 .. n
    BY DEF Selections
  <2>2. WeightOf(items, R) \in Nat
    BY <2>1, WeightFacts
  <2>3. RowBounds(items, n)
    BY RowsBound
  <2>4. TotalChunks \in Capacities
    BY ChunksTyped DEF Capacities
  <2>5. WeightOf(items, R) <= Rows(items)[n][TotalChunks]
    BY <2>1, <2>3, <2>4 DEF RowBounds
  <2> QED BY <2>2, <2>5, TraceBackFacts
<1>4. V \subseteq Nat /\ \A v \in V : v <= WeightOf(items, S)
  BY <1>3
<1>5. BestWeight(items) = Max(V)
  BY DEF BestWeight
<1> HIDE DEF V, S
<1>6. Max(V) = WeightOf(items, S)
  BY <1>2, <1>4, GreatestIs
<1> QED BY <1>1, <1>5, <1>6 DEF S

-----------------------------------------------------------------------------
(***************************************************************************)
(* Order.                                                                  *)
(***************************************************************************)
\* R is a total order of U.
IsOrder(R, U) ==
  /\ \A a, b, c \in U : <<a, b>> \in R /\ <<b, c>> \in R => <<a, c>> \in R
  /\ \A a, b \in U : a # b => <<a, b>> \in R \/ <<b, a>> \in R

\* Of finitely many, one is the last.
LEMMA LastInOrder ==
  ASSUME NEW U, NEW R, IsOrder(R, U), NEW n \in Nat
  PROVE  \A S \in SUBSET U : IsFiniteSet(S) /\ Cardinality(S) = n + 1 =>
           \E m \in S : \A c \in S : c # m => <<c, m>> \in R
<1> DEFINE HasLast(S) == \E m \in S : \A c \in S : c # m => <<c, m>> \in R
           A == {k \in Nat : \A S \in SUBSET U :
                               IsFiniteSet(S) /\ Cardinality(S) = k + 1 => HasLast(S)}
<1>1. 0 \in A
  <2> SUFFICES ASSUME NEW S \in SUBSET U, IsFiniteSet(S), Cardinality(S) = 0 + 1
               PROVE  HasLast(S)
    OBVIOUS
  <2>0. Cardinality(S) = 1
    OBVIOUS
  <2>1. \E x : S = {x}
    BY <2>0, FS_Singleton
  <2> QED BY <2>1
<1>2. ASSUME NEW k \in Nat, k \in A PROVE k + 1 \in A
  <2> SUFFICES ASSUME NEW S \in SUBSET U, IsFiniteSet(S), Cardinality(S) = (k + 1) + 1
               PROVE  HasLast(S)
    <3> HIDE DEF HasLast
    <3> QED OBVIOUS
  <2>1. PICK x \in S : TRUE
    BY FS_EmptySet
  <2> DEFINE Q == S \ {x}
  <2>2. Q \in SUBSET U /\ IsFiniteSet(Q) /\ Cardinality(Q) = k + 1
    BY FS_RemoveElement
  <2>3. PICK m \in Q : \A c \in Q : c # m => <<c, m>> \in R
    <3> HIDE DEF Q
    <3> QED BY <1>2, <2>2
  <2>4. m \in U /\ x \in U /\ m # x /\ m \in S
    OBVIOUS
  <2>5. CASE <<m, x>> \in R
    <3>1. \A c \in S : c # x => <<c, x>> \in R
      BY <2>3, <2>4, <2>5 DEF IsOrder
    <3> QED BY <3>1
  <2>6. CASE <<x, m>> \in R
    <3>1. \A c \in S : c # m => <<c, m>> \in R
      BY <2>3, <2>6
    <3> QED BY <2>4, <3>1
  <2> QED BY <2>4, <2>5, <2>6 DEF IsOrder
<1> HIDE DEF A
<1>3. Nat \subseteq A
  BY <1>1, <1>2, NatSetInduction
<1>4. n \in A
  BY <1>3
<1> QED BY <1>4 DEF A

InOrderOf(R, s) == \A i, j \in DOMAIN s : i < j => <<s[i], s[j]>> \in R

\* Finitely many can be put in order.
LEMMA OrderedExists ==
  ASSUME NEW U, NEW R, IsOrder(R, U), NEW S \in SUBSET U, IsFiniteSet(S)
  PROVE  \E s \in [1 .. Cardinality(S) -> S] :
           InOrderOf(R, s) /\ \A i, j \in 1 .. Cardinality(S) : i # j => s[i] # s[j]
<1> DEFINE Sorts(n, Q) == \E s \in [1 .. n -> Q] :
                            InOrderOf(R, s) /\ \A i, j \in 1 .. n : i # j => s[i] # s[j]
           A == {n \in Nat : \A Q \in SUBSET U :
                               IsFiniteSet(Q) /\ Cardinality(Q) = n => Sorts(n, Q)}
<1>1. 0 \in A
  <2> SUFFICES ASSUME NEW Q PROVE Sorts(0, Q)
    OBVIOUS
  <2>1. [i \in 1 .. 0 |-> i] \in [1 .. 0 -> Q] /\ InOrderOf(R, [i \in 1 .. 0 |-> i])
    BY DEF InOrderOf
  <2> QED BY <2>1
<1>2. ASSUME NEW n \in Nat, n \in A PROVE n + 1 \in A
  <2> SUFFICES ASSUME NEW Q \in SUBSET U, IsFiniteSet(Q), Cardinality(Q) = n + 1
               PROVE  Sorts(n + 1, Q)
    <3> HIDE DEF Sorts
    <3> QED OBVIOUS
  <2>1. PICK m \in Q : \A c \in Q : c # m => <<c, m>> \in R
    BY LastInOrder
  <2> DEFINE P == Q \ {m}
  <2>2. P \in SUBSET U /\ IsFiniteSet(P) /\ Cardinality(P) = n
    <3>1. IsFiniteSet(P) /\ Cardinality(P) = Cardinality(Q) - 1
      BY FS_RemoveElement
    <3> QED BY <3>1
  <2>3. PICK s \in [1 .. n -> P] :
          InOrderOf(R, s) /\ \A i, j \in 1 .. n : i # j => s[i] # s[j]
    <3> HIDE DEF P
    <3> QED BY <1>2, <2>2
  <2> DEFINE t == [i \in 1 .. n + 1 |-> IF i = n + 1 THEN m ELSE s[i]]
  <2>4. \A i \in 1 .. n : s[i] \in Q /\ s[i] # m /\ <<s[i], m>> \in R
    BY <2>1, <2>3
  <2>5. t \in [1 .. n + 1 -> Q]
    BY <2>4
  <2>6. InOrderOf(R, t)
    BY <2>3, <2>4 DEF InOrderOf
  <2>7. \A i, j \in 1 .. n + 1 : i # j => t[i] # t[j]
    BY <2>3, <2>4
  <2> QED BY <2>5, <2>6, <2>7
<1> HIDE DEF A
<1>3. Nat \subseteq A
  BY <1>1, <1>2, NatSetInduction
<1>4. Cardinality(S) \in A
  BY <1>3, FS_CardinalityType
<1> QED BY <1>4 DEF A

\* What is in an enumeration without repetition of as many as there are.
LEMMA EnumeratesAll ==
  ASSUME NEW S, IsFiniteSet(S), NEW s \in [1 .. Cardinality(S) -> S],
         \A i, j \in 1 .. Cardinality(S) : i # j => s[i] # s[j]
  PROVE  \A c \in S : \E i \in 1 .. Cardinality(S) : s[i] = c
<1> DEFINE n == Cardinality(S)
<1>1. n \in Nat
  BY FS_CardinalityType
<1>2. s \in Injection(1 .. n, S)
  BY DEF Injection, IsInjective
<1>3. Cardinality(1 .. n) = n /\ IsFiniteSet(1 .. n)
  BY <1>1, FS_Interval
<1>4. s \in Surjection(1 .. n, S)
  <2>1. n = Cardinality(S)
    OBVIOUS
  <2> HIDE DEF n
  <2> QED BY <1>1, <1>2, <1>3, <2>1, FS_Injection
<1> QED BY <1>4 DEF Surjection

\* The items in the order of their hashes.
IsHashOrder(items, q) ==
  /\ q \in SetToSeqs(TraceBack(items))
  /\ Sorted(items, q)
  /\ SortedByHash(items) = [k \in DOMAIN q |-> items[q[k]]]

LEMMA SortedByHashFacts ==
  ASSUME NEW items \in Seq(BidType)
  PROVE  /\ IsFiniteSet(TraceBack(items)) /\ Cardinality(TraceBack(items)) \in Nat
         /\ \E q : IsHashOrder(items, q)
<1> DEFINE U == DOMAIN items
           S == TraceBack(items)
           R == {p \in U \X U : Before(items, p[1], p[2])}
<1>1. S \in SUBSET U /\ IsFiniteSet(S) /\ Cardinality(S) \in Nat
  <2>1. S \in SUBSET U /\ U = 1 .. Len(items) /\ Len(items) \in Nat
    BY TraceBackFacts
  <2>2. IsFiniteSet(U)
    BY <2>1, FS_Interval
  <2> HIDE DEF S, U
  <2> QED BY <2>1, <2>2, FS_Subset, FS_CardinalityType
<1>2. \A a \in U : a \in Nat /\ items[a].message_hash \in Nat
  <2>1. \A a \in U : items[a] \in BidType /\ a \in Nat
    OBVIOUS
  <2> QED BY <2>1 DEF BidType
<1>3. \A a, b \in U : <<a, b>> \in R <=> Before(items, a, b)
  OBVIOUS
<1> HIDE DEF R
<1>4. IsOrder(R, U)
  <2> HIDE DEF U
  <2>1. \A a, b, c \in U : Before(items, a, b) /\ Before(items, b, c) => Before(items, a, c)
    BY <1>2 DEF Before
  <2>2. \A a, b \in U : a # b => Before(items, a, b) \/ Before(items, b, a)
    BY <1>2 DEF Before
  <2> QED BY <1>3, <2>1, <2>2 DEF IsOrder
<1> HIDE DEF U, S
<1>5. PICK s \in [1 .. Cardinality(S) -> S] :
        InOrderOf(R, s) /\ \A i, j \in 1 .. Cardinality(S) : i # j => s[i] # s[j]
  BY <1>1, <1>4, OrderedExists
<1>6. s \in SetToSeqs(S)
  BY <1>5 DEF SetToSeqs
<1>7. Sorted(items, s)
  <2>1. DOMAIN s = 1 .. Cardinality(S) /\ \A i \in DOMAIN s : s[i] \in U
    BY <1>1, <1>5
  <2>2. \A i, j \in DOMAIN s : i < j => <<s[i], s[j]>> \in R
    BY <1>5 DEF InOrderOf
  <2> QED BY <1>3, <2>1, <2>2 DEF Sorted
<1> DEFINE q == CHOOSE r \in SetToSeqs(TraceBack(items)) : Sorted(items, r)
<1>8. q \in SetToSeqs(TraceBack(items)) /\ Sorted(items, q)
  BY <1>6, <1>7 DEF S
<1>9. SortedByHash(items) = [k \in DOMAIN q |-> items[q[k]]]
  BY DEF SortedByHash
<1> HIDE DEF q
<1>10. IsHashOrder(items, q)
  BY <1>8, <1>9 DEF IsHashOrder
<1> QED BY <1>1, <1>10 DEF S

\* An order has every item selected once.
LEMMA HashOrderFacts ==
  ASSUME NEW items \in Seq(BidType), NEW q, IsHashOrder(items, q)
  PROVE  /\ Cardinality(TraceBack(items)) \in Nat
         /\ q \in [1 .. Cardinality(TraceBack(items)) -> TraceBack(items)]
         /\ q \in [1 .. Cardinality(TraceBack(items)) -> DOMAIN items]
         /\ \A i, j \in 1 .. Cardinality(TraceBack(items)) : i # j => q[i] # q[j]
         /\ TraceBack(items) = {q[i] : i \in 1 .. Cardinality(TraceBack(items))}
         /\ SortedByHash(items) \in Seq(BidType)
         /\ Len(SortedByHash(items)) = Cardinality(TraceBack(items))
         /\ \A k \in 1 .. Cardinality(TraceBack(items)) : SortedByHash(items)[k] = items[q[k]]
<1> DEFINE S == TraceBack(items)
           n == Cardinality(S)
<1>1. S \subseteq DOMAIN items /\ IsFiniteSet(S) /\ n \in Nat
  BY TraceBackFacts, SortedByHashFacts
<1>2. q \in [1 .. n -> S] /\ \A i, j \in 1 .. n : i # j => q[i] # q[j]
  BY DEF IsHashOrder, SetToSeqs
<1>3. \A c \in S : \E i \in 1 .. n : q[i] = c
  <2> HIDE DEF S
  <2> QED BY <1>1, <1>2, EnumeratesAll
<1>4. SortedByHash(items) = [k \in 1 .. n |-> items[q[k]]]
  BY <1>2 DEF IsHashOrder
<1> HIDE DEF S, n
<1>5. S = {q[i] : i \in 1 .. n}
  BY <1>2, <1>3
<1>6. q \in [1 .. n -> DOMAIN items]
  BY <1>1, <1>2
<1>7. \A k \in 1 .. n : items[q[k]] \in BidType
  BY <1>6
<1>8. SortedByHash(items) \in Seq(BidType) /\ Len(SortedByHash(items)) = n
  BY <1>1, <1>4, <1>7
<1> QED BY <1>1, <1>2, <1>4, <1>5, <1>6, <1>8 DEF S, n

-----------------------------------------------------------------------------
(***************************************************************************)
(* Sums of sequences.                                                      *)
(***************************************************************************)
\* The sum of the first k.
LEMMA PrefixSums ==
  ASSUME NEW n \in Nat, NEW G \in [1 .. n -> Nat]
  PROVE  /\ SumFunctionOnSet(G, 1 .. 0) = 0
         /\ \A k \in 0 .. n : SumFunctionOnSet(G, 1 .. k) \in Nat
         /\ \A k \in 0 .. n - 1 :
              SumFunctionOnSet(G, 1 .. k + 1) = SumFunctionOnSet(G, 1 .. k) + G[k + 1]
<1>1. IsFiniteSet(1 .. n)
  BY FS_Interval
<1>2. /\ SumFunctionOnSet(G, {}) = 0
      /\ \A S \in SUBSET (1 .. n) : SumFunctionOnSet(G, S) \in Nat
      /\ \A S \in SUBSET (1 .. n) : \A x \in S :
              SumFunctionOnSet(G, S) = G[x] + SumFunctionOnSet(G, S \ {x})
  <2> DEFINE D == 1 .. n
  <2>1. IsFiniteSet(D) /\ G \in [D -> Nat]
    BY <1>1
  <2> HIDE DEF D
  <2>2. SumsUp(G, D)
    BY <2>1, SumFacts
  <2> QED BY <2>2 DEF D, SumsUp
<1>3. 1 .. 0 = {}
  OBVIOUS
<1>4. \A k \in 0 .. n : 1 .. k \in SUBSET (1 .. n)
  OBVIOUS
<1>5. ASSUME NEW k \in 0 .. n - 1
      PROVE  SumFunctionOnSet(G, 1 .. k + 1) = SumFunctionOnSet(G, 1 .. k) + G[k + 1]
  <2>1. k + 1 \in 1 .. k + 1 /\ (1 .. k + 1) \ {k + 1} = 1 .. k /\ k + 1 \in 0 .. n /\ k \in 0 .. n
        /\ k + 1 \in 1 .. n
    OBVIOUS
  <2>2. 1 .. k + 1 \in SUBSET (1 .. n)
    BY <1>4, <2>1
  <2>3. SumFunctionOnSet(G, 1 .. k + 1) = G[k + 1] + SumFunctionOnSet(G, (1 .. k + 1) \ {k + 1})
    BY <1>2, <2>1, <2>2
  <2>4. SumFunctionOnSet(G, 1 .. k + 1) = G[k + 1] + SumFunctionOnSet(G, 1 .. k)
    BY <2>1, <2>3, Zenon
  <2>5. SumFunctionOnSet(G, 1 .. k) \in Nat /\ G[k + 1] \in Nat
    BY <1>2, <1>4, <2>1
  <2> QED BY <2>4, <2>5
<1> QED BY <1>2, <1>3, <1>4, <1>5

\* q has each of S once.
Enumerates(q, n, S) ==
  /\ q \in [1 .. n -> S]
  /\ \A i, j \in 1 .. n : i # j => q[i] # q[j]
  /\ \A x \in S : \E i \in 1 .. n : q[i] = x

\* G has c times what F has at the places that q gives.
Scales(G, n, c, F, q) ==
  /\ G \in [1 .. n -> Nat]
  /\ \A i \in 1 .. n : G[i] = c * F[q[i]]

\* A sum over what is enumerated is the sum of the enumeration, also c times.
LEMMA SumReindexed ==
  ASSUME NEW n \in Nat, NEW D, IsFiniteSet(D), NEW F \in [D -> Nat], NEW c \in Nat,
         NEW S \in SUBSET D, NEW q, Enumerates(q, n, S), NEW G, Scales(G, n, c, F, q)
  PROVE  SumFunctionOnSet(G, 1 .. n) = c * SumFunctionOnSet(F, S)
<1> DEFINE Q(k) == {q[i] : i \in 1 .. k}
           A == {k \in Nat : k <= n =>
                   SumFunctionOnSet(G, 1 .. k) = c * SumFunctionOnSet(F, Q(k))}
<1>q. /\ q \in [1 .. n -> D] /\ \A i, j \in 1 .. n : i # j => q[i] # q[j]
      /\ Q(n) = S
  BY DEF Enumerates
<1>g. G \in [1 .. n -> Nat] /\ \A i \in 1 .. n : G[i] = c * F[q[i]]
  BY DEF Scales
<1>1. /\ SumFunctionOnSet(F, {}) = 0
      /\ \A s \in SUBSET D : SumFunctionOnSet(F, s) \in Nat
      /\ \A s \in SUBSET D : \A x \in s :
              SumFunctionOnSet(F, s) = F[x] + SumFunctionOnSet(F, s \ {x})
  <2>1. SumsUp(F, D)
    BY SumFacts
  <2> QED BY <2>1 DEF SumsUp
<1>2. 0 \in A
  <2>1. Q(0) = {}
    OBVIOUS
  <2>2. SumFunctionOnSet(G, 1 .. 0) = 0
    BY <1>g, PrefixSums
  <2>3. SumFunctionOnSet(F, Q(0)) = 0
    BY <1>1, <2>1, Zenon
  <2>4. c * 0 = 0
    OBVIOUS
  <2> HIDE DEF Q
  <2>5. SumFunctionOnSet(G, 1 .. 0) = c * SumFunctionOnSet(F, Q(0))
    BY <2>2, <2>3, <2>4, Zenon
  <2> QED BY <2>5
<1>3. ASSUME NEW k \in Nat, k \in A PROVE k + 1 \in A
  <2> SUFFICES ASSUME k + 1 <= n
               PROVE  SumFunctionOnSet(G, 1 .. k + 1) = c * SumFunctionOnSet(F, Q(k + 1))
    OBVIOUS
  <2>1. k \in 0 .. n - 1 /\ k + 1 \in 1 .. n /\ k + 1 \in 1 .. k + 1 /\ k \in 0 .. n
    OBVIOUS
  <2> DEFINE x == q[k + 1]
             R == Q(k + 1)
             T == Q(k)
  <2>2. x \in R /\ x \in D /\ R \in SUBSET D /\ T \in SUBSET D
    BY <1>q, <2>1
  <2>3. R \ {x} = T
    <3>1. \A i \in 1 .. k + 1 : i # k + 1 => q[i] # x
      BY <1>q, <2>1
    <3>2. \A i \in 1 .. k : q[i] # x
      BY <3>1
    <3>3. \A y \in R \ {x} : y \in T
      OBVIOUS
    <3>4. \A y \in T : y \in R \ {x}
      BY <3>2
    <3> HIDE DEF R, T, x
    <3> QED BY <3>3, <3>4
  <2>4. SumFunctionOnSet(G, 1 .. k) = c * SumFunctionOnSet(F, T)
    BY <1>3, <2>1
  <2>5. SumFunctionOnSet(G, 1 .. k + 1) = SumFunctionOnSet(G, 1 .. k) + G[k + 1]
    BY <1>g, <2>1, PrefixSums
  <2>6. G[k + 1] = c * F[x] /\ F[x] \in Nat
    BY <1>g, <2>1, <2>2
  <2> HIDE DEF R, T, x
  <2>7. SumFunctionOnSet(F, R) = F[x] + SumFunctionOnSet(F, T) /\ SumFunctionOnSet(F, T) \in Nat
    BY <1>1, <2>2, <2>3
  <2> DEFINE a == F[x]
             b == SumFunctionOnSet(F, T)
  <2>8. a \in Nat /\ b \in Nat
    BY <2>6, <2>7
  <2> HIDE DEF a, b
  <2>9. c * (a + b) = (c * b) + (c * a)
    BY <2>8
  <2>10. SumFunctionOnSet(G, 1 .. k + 1) = c * SumFunctionOnSet(F, R)
    BY <2>4, <2>5, <2>6, <2>7, <2>9 DEF a, b
  <2> QED BY <2>10 DEF R
<1> HIDE DEF A
<1>4. Nat \subseteq A
  BY <1>2, <1>3, NatSetInduction
<1>5. n \in A
  BY <1>4
<1> HIDE DEF Q
<1>6. SumFunctionOnSet(G, 1 .. n) = c * SumFunctionOnSet(F, Q(n))
  BY <1>5 DEF A
<1> QED BY <1>6, <1>q, Zenon

-----------------------------------------------------------------------------
(***************************************************************************)
(* The slots.                                                              *)
(***************************************************************************)
WinnerType == [bid : BidType, slot_idx : Nat, slot_size : Nat]

LEMMA AddSlotTyped ==
  ASSUME NEW ws \in Seq(WinnerType), NEW b \in BidType
  PROVE  /\ End(ws) \in Nat /\ Chunks(b) * chunk_bytes \in Nat
         /\ ws = <<>> => End(ws) = 0
         /\ ws # <<>> => End(ws) = ws[Len(ws)].slot_idx + ws[Len(ws)].slot_size
         /\ AddSlot(ws, b) \in Seq(WinnerType)
         /\ AddSlot(ws, b)
              = Append(ws, [bid |-> b, slot_idx |-> End(ws),
                            slot_size |-> Chunks(b) * chunk_bytes])
<1>1. ws # <<>> => End(ws) = ws[Len(ws)].slot_idx + ws[Len(ws)].slot_size
  BY DEF End, Last
<1>2. ws # <<>> => ws[Len(ws)] \in WinnerType
  OBVIOUS
<1>3. ws # <<>> => ws[Len(ws)].slot_idx \in Nat /\ ws[Len(ws)].slot_size \in Nat
  BY <1>2 DEF WinnerType
<1>4. ws = <<>> => End(ws) = 0
  BY DEF End
<1>5. End(ws) \in Nat
  BY <1>1, <1>3, <1>4
<1>6. Chunks(b) * chunk_bytes \in Nat
  BY ChunksTyped, EngineAssumption
<1>7. AddSlot(ws, b) = Append(ws, [bid |-> b, slot_idx |-> End(ws),
                                   slot_size |-> Chunks(b) * chunk_bytes])
  BY DEF AddSlot, AuctionWinner
<1>8. [bid |-> b, slot_idx |-> End(ws), slot_size |-> Chunks(b) * chunk_bytes] \in WinnerType
  BY <1>5, <1>6 DEF WinnerType
<1>9. AddSlot(ws, b) \in Seq(WinnerType)
  BY <1>7, <1>8
<1> QED BY <1>1, <1>4, <1>5, <1>6, <1>7, <1>9

AddSlotSteps(s) ==
  [i \in 1 .. Len(s) |-> [ws \in Seq(WinnerType) |-> AddSlot(ws, s[i])]]

LEMMA AddSlotIsFold ==
  ASSUME NEW s \in Seq(BidType)
  PROVE  FoldsTo(FoldLeft(AddSlot, <<>>, s), Len(s), Seq(WinnerType), <<>>,
                 AddSlotSteps(s))
<1> DEFINE n == Len(s)
           T == Seq(WinnerType)
           g == AddSlotSteps(s)
           body(it) == [x \in SUBSET (1 .. n) |->
                          IF x = {} THEN <<>> ELSE AddSlot(it[x \ {Max(x)}], s[Max(x)])]
           j == CHOOSE it : it = body(it)
<1>0. n \in Nat /\ DOMAIN s = 1 .. n /\ <<>> \in T
  OBVIOUS
<1>1. \A i \in 1 .. n, a \in T : AddSlot(a, s[i]) \in T
  <2>1. \A i \in 1 .. n : s[i] \in BidType
    OBVIOUS
  <2>2. \A a \in T, b \in BidType : AddSlot(a, b) \in T
    BY AddSlotTyped
  <2> QED BY <2>1, <2>2
<1>2. g \in [1 .. n -> [T -> T]] /\ \A i \in 1 .. n, a \in T : g[i][a] = AddSlot(a, s[i])
  BY <1>1 DEF AddSlotSteps
<1>3. \A x \in SUBSET (1 .. n) : x # {} => Max(x) \in 1 .. n
  BY <1>0, MaxOfPositions
<1> HIDE DEF T, g
<1>4. PICK it : IsFoldOfSets(it, n, T, <<>>, g)
  <2> HIDE DEF n
  <2> QED BY <1>0, <1>2, FoldLeftExists
<1>5. it = body(it)
  <2> USE <1>4 DEF IsFoldOfSets
  <2>1. it = [x \in SUBSET (1 .. n) |-> it[x]]
    OBVIOUS
  <2>2. ASSUME NEW x \in SUBSET (1 .. n)
        PROVE  it[x] = IF x = {} THEN <<>> ELSE AddSlot(it[x \ {Max(x)}], s[Max(x)])
    <3>1. it[x \ {Max(x)}] \in T
      OBVIOUS
    <3>2. it[x] = IF x = {} THEN <<>> ELSE g[Max(x)][it[x \ {Max(x)}]]
      OBVIOUS
    <3> QED BY <1>2, <1>3, <3>1, <3>2
  <2> QED BY <2>1, <2>2
<1>6. j = body(j)
  BY <1>5
<1>7. FoldLeft(AddSlot, <<>>, s) = j[1 .. n]
  <2>1. j = CHOOSE e : e = [x \in SUBSET DOMAIN s |->
                              IF x = {} THEN <<>> ELSE AddSlot(e[x \ {Max(x)}], s[Max(x)])]
    BY <1>0
  <2> HIDE DEF j
  <2>2. FoldLeft(AddSlot, <<>>, s) = j[DOMAIN s]
    BY <2>1 DEF FoldLeft, MapThenFoldSet
  <2> QED BY <1>0, <2>2
<1> HIDE DEF j
<1>8. \A x \in SUBSET (1 .. n) :
        j[x] = IF x = {} THEN <<>> ELSE AddSlot(j[x \ {Max(x)}], s[Max(x)])
  BY <1>6
<1> HIDE DEF body
<1>9. TakesGreatest(j, n, T, <<>>, g)
  BY <1>2, <1>3, <1>8 DEF TakesGreatest
<1> HIDE DEF n
<1>10. FoldsTo(j[1 .. n], n, T, <<>>, g)
  BY <1>0, <1>2, <1>9, FoldLeftRuns
<1> QED BY <1>7, <1>10 DEF n, T, g

\* One bid more, one slot more.
LEMMA AddSlotMore ==
  ASSUME NEW s \in Seq(BidType), NEW b \in BidType
  PROVE  /\ FoldLeft(AddSlot, <<>>, <<>>) = <<>>
         /\ FoldLeft(AddSlot, <<>>, s) \in Seq(WinnerType)
         /\ FoldLeft(AddSlot, <<>>, Append(s, b)) = AddSlot(FoldLeft(AddSlot, <<>>, s), b)
<1> DEFINE n == Len(s)
           t == Append(s, b)
           T == Seq(WinnerType)
           g == AddSlotSteps(s)
           h == AddSlotSteps(t)
<1>1. /\ t \in Seq(BidType) /\ Len(t) = n + 1 /\ n \in Nat /\ t[n + 1] = b
      /\ \A i \in 1 .. n : t[i] = s[i]
  OBVIOUS
<1>2. <<>> \in Seq(BidType) /\ Len(<<>>) = 0
  OBVIOUS
<1>3. FoldsTo(FoldLeft(AddSlot, <<>>, <<>>), 0, T, <<>>, AddSlotSteps(<<>>))
  BY <1>2, AddSlotIsFold
<1>4. FoldsTo(FoldLeft(AddSlot, <<>>, s), n, T, <<>>, g)
  BY AddSlotIsFold
<1> HIDE DEF t
<1>5. FoldsTo(FoldLeft(AddSlot, <<>>, t), n + 1, T, <<>>, h)
  BY <1>1, AddSlotIsFold
<1>6. \A i \in 1 .. n : g[i] = h[i]
  BY <1>1 DEF AddSlotSteps
<1>7. \A a \in T : h[n + 1][a] = AddSlot(a, b)
  BY <1>1 DEF AddSlotSteps
<1> HIDE DEF n, T, g, h
<1>8. FoldLeft(AddSlot, <<>>, <<>>) = <<>>
  BY <1>3, FoldsToBase
<1>9. FoldLeft(AddSlot, <<>>, s) \in T
  BY <1>1, <1>4, FoldsToTyped
<1>10. FoldLeft(AddSlot, <<>>, t) = h[n + 1][FoldLeft(AddSlot, <<>>, s)]
  BY <1>1, <1>4, <1>5, <1>6, FoldsToNext
<1> QED BY <1>7, <1>8, <1>9, <1>10 DEF t, T

\* ws are the slots of the bids s, one after the other.
SlotsOf(s, ws) ==
  /\ ws \in Seq(WinnerType) /\ Len(ws) = Len(s)
  /\ \A k \in 1 .. Len(s) :
       /\ ws[k].bid = s[k] /\ ws[k].slot_size = Chunks(s[k]) * chunk_bytes
       /\ ws[k].slot_idx = IF k = 1 THEN 0 ELSE ws[k - 1].slot_idx + ws[k - 1].slot_size

LEMMA SlotsOfAppend ==
  ASSUME NEW s \in Seq(BidType), NEW b \in BidType, NEW ws, SlotsOf(s, ws)
  PROVE  SlotsOf(Append(s, b), AddSlot(ws, b))
<1> DEFINE n == Len(s)
           t == Append(s, b)
           w == [bid |-> b, slot_idx |-> End(ws), slot_size |-> Chunks(b) * chunk_bytes]
           us == Append(ws, w)
<1>1. /\ ws \in Seq(WinnerType) /\ Len(ws) = n /\ n \in Nat
      /\ \A k \in 1 .. n :
           /\ ws[k].bid = s[k] /\ ws[k].slot_size = Chunks(s[k]) * chunk_bytes
           /\ ws[k].slot_idx = IF k = 1 THEN 0 ELSE ws[k - 1].slot_idx + ws[k - 1].slot_size
  BY DEF SlotsOf
<1>2. AddSlot(ws, b) = us /\ us \in Seq(WinnerType)
  BY <1>1, AddSlotTyped
<1>w. w.bid = b /\ w.slot_idx = End(ws) /\ w.slot_size = Chunks(b) * chunk_bytes
  OBVIOUS
<1> HIDE DEF w
<1>3. /\ Len(t) = n + 1 /\ t[n + 1] = b /\ \A k \in 1 .. n : t[k] = s[k]
      /\ Len(us) = n + 1 /\ us[n + 1] = w /\ \A k \in 1 .. n : us[k] = ws[k]
  BY <1>1
<1>4. n = 0 => End(ws) = 0
  <2>1. n = 0 => ws = <<>>
    BY <1>1
  <2> QED BY <2>1 DEF End
<1>5. n # 0 => End(ws) = ws[n].slot_idx + ws[n].slot_size
  BY <1>1, AddSlotTyped
<1> HIDE DEF t, us
<1>6. ASSUME NEW k \in 1 .. n + 1
      PROVE  /\ us[k].bid = t[k] /\ us[k].slot_size = Chunks(t[k]) * chunk_bytes
             /\ us[k].slot_idx = IF k = 1 THEN 0 ELSE us[k - 1].slot_idx + us[k - 1].slot_size
  <2>1. CASE k \in 1 .. n
    <3>1. us[k] = ws[k] /\ t[k] = s[k]
      BY <1>3, <2>1
    <3>2. k # 1 => k - 1 \in 1 .. n
      BY <2>1
    <3>3. k # 1 => us[k - 1] = ws[k - 1]
      BY <1>3, <3>2
    <3>4. /\ ws[k].bid = s[k] /\ ws[k].slot_size = Chunks(s[k]) * chunk_bytes
          /\ ws[k].slot_idx = IF k = 1 THEN 0 ELSE ws[k - 1].slot_idx + ws[k - 1].slot_size
      BY <1>1, <2>1
    <3> QED BY <3>1, <3>3, <3>4
  <2>2. CASE k = n + 1
    <3>1. us[k] = w /\ t[k] = b
      BY <1>3, <2>2
    <3>2. k # 1 => n # 0 /\ n \in 1 .. n /\ k - 1 = n
      BY <1>1, <2>2
    <3>3. k # 1 => us[k - 1] = ws[n]
      BY <1>3, <3>2
    <3>4. k = 1 => n = 0
      BY <1>1, <2>2
    <3>5. End(ws) = IF k = 1 THEN 0 ELSE us[k - 1].slot_idx + us[k - 1].slot_size
      BY <1>4, <1>5, <3>2, <3>3, <3>4
    <3> QED BY <1>w, <3>1, <3>5
  <2> QED BY <1>1, <2>1, <2>2
<1>7. SlotsOf(t, us)
  BY <1>2, <1>3, <1>6 DEF SlotsOf
<1> QED BY <1>2, <1>7 DEF t

LEMMA SlotsFollow ==
  ASSUME NEW s \in Seq(BidType)
  PROVE  SlotsOf(s, FoldLeft(AddSlot, <<>>, s))
<1> DEFINE A == {n \in Nat : \A t \in Seq(BidType) :
                   Len(t) = n => SlotsOf(t, FoldLeft(AddSlot, <<>>, t))}
<1>1. 0 \in A
  <2> SUFFICES ASSUME NEW t \in Seq(BidType), Len(t) = 0
               PROVE  SlotsOf(t, FoldLeft(AddSlot, <<>>, t))
    OBVIOUS
  <2>1. t = <<>>
    OBVIOUS
  <2>2. FoldsTo(FoldLeft(AddSlot, <<>>, t), 0, Seq(WinnerType), <<>>, AddSlotSteps(t))
    BY AddSlotIsFold
  <2>3. FoldLeft(AddSlot, <<>>, t) = <<>>
    BY <2>2, FoldsToBase
  <2>4. <<>> \in Seq(WinnerType) /\ Len(<<>>) = 0
    OBVIOUS
  <2>5. SlotsOf(<<>>, <<>>)
    BY <2>4 DEF SlotsOf
  <2> QED BY <2>1, <2>3, <2>5, Zenon
<1>2. ASSUME NEW n \in Nat, n \in A PROVE n + 1 \in A
  <2> SUFFICES ASSUME NEW t \in Seq(BidType), Len(t) = n + 1
               PROVE  SlotsOf(t, FoldLeft(AddSlot, <<>>, t))
    OBVIOUS
  <2> DEFINE r == [i \in 1 .. n |-> t[i]]
             b == t[n + 1]
  <2>1. b \in BidType /\ r \in Seq(BidType) /\ Len(r) = n
    OBVIOUS
  <2>2. t = Append(r, b)
    OBVIOUS
  <2> HIDE DEF r, b
  <2>3. SlotsOf(r, FoldLeft(AddSlot, <<>>, r))
    BY <1>2, <2>1
  <2>4. SlotsOf(Append(r, b), AddSlot(FoldLeft(AddSlot, <<>>, r), b))
    BY <2>1, <2>3, SlotsOfAppend
  <2>5. FoldLeft(AddSlot, <<>>, Append(r, b)) = AddSlot(FoldLeft(AddSlot, <<>>, r), b)
    BY <2>1, AddSlotMore
  <2> QED BY <2>2, <2>4, <2>5, Zenon
<1> HIDE DEF A
<1>3. Nat \subseteq A
  BY <1>1, <1>2, NatSetInduction
<1>4. Len(s) \in A
  BY <1>3
<1> QED BY <1>4 DEF A

\* Where the k-th slot ends: after the bytes of the first k.
SlotSizes(ws) == [k \in DOMAIN ws |-> ws[k].slot_size]

Upto(ws, k) == SumFunctionOnSet(SlotSizes(ws), 1 .. k)

LEMMA SlotPlaces ==
  ASSUME NEW s \in Seq(BidType), NEW ws, SlotsOf(s, ws)
  PROVE  /\ Upto(ws, 0) = 0 /\ Allocated(ws) = Upto(ws, Len(ws))
         /\ DOMAIN ws = 1 .. Len(ws) /\ Len(ws) = Len(s) /\ Len(ws) \in Nat
         /\ \A k \in 0 .. Len(ws) : Upto(ws, k) \in Nat
         /\ \A k \in 1 .. Len(ws) :
              /\ ws[k].slot_idx = Upto(ws, k - 1)
              /\ ws[k].slot_size \in Nat
              /\ Upto(ws, k) = ws[k].slot_idx + ws[k].slot_size
<1> DEFINE n == Len(ws)
           G == SlotSizes(ws)
<1>1. /\ ws \in Seq(WinnerType) /\ DOMAIN ws = 1 .. n /\ n \in Nat /\ n = Len(s)
      /\ \A k \in 1 .. n :
           ws[k].slot_idx = IF k = 1 THEN 0 ELSE ws[k - 1].slot_idx + ws[k - 1].slot_size
  BY DEF SlotsOf
<1>2. \A k \in 1 .. n : ws[k].slot_size \in Nat /\ ws[k].slot_idx \in Nat
  <2>1. \A k \in 1 .. n : ws[k] \in WinnerType
    BY <1>1
  <2> QED BY <2>1 DEF WinnerType
<1>3. G \in [1 .. n -> Nat] /\ DOMAIN G = 1 .. n /\ \A k \in 1 .. n : G[k] = ws[k].slot_size
  BY <1>1, <1>2 DEF SlotSizes
<1>a. Allocated(ws) = SumFunctionOnSet(G, DOMAIN G)
  BY DEF Allocated, SumFunction, SlotSizes
<1>u. \A k : Upto(ws, k) = SumFunctionOnSet(G, 1 .. k)
  BY DEF Upto
<1> HIDE DEF n, G
<1>4. Allocated(ws) = Upto(ws, n)
  BY <1>3, <1>a, <1>u
<1>p. /\ SumFunctionOnSet(G, 1 .. 0) = 0
      /\ \A k \in 0 .. n : SumFunctionOnSet(G, 1 .. k) \in Nat
      /\ \A k \in 0 .. n - 1 :
              SumFunctionOnSet(G, 1 .. k + 1) = SumFunctionOnSet(G, 1 .. k) + G[k + 1]
  BY <1>1, <1>3, PrefixSums
<1>5. Upto(ws, 0) = 0 /\ \A k \in 0 .. n : Upto(ws, k) \in Nat
  BY <1>u, <1>p
<1>6. \A k \in 0 .. n - 1 : Upto(ws, k + 1) = Upto(ws, k) + G[k + 1]
  BY <1>u, <1>p
<1>7. \A k \in 0 .. n - 1 : k + 1 \in 1 .. n /\ G[k + 1] = ws[k + 1].slot_size
  BY <1>1, <1>3
<1> DEFINE A == {k \in Nat : k + 1 <= n => ws[k + 1].slot_idx = Upto(ws, k)}
<1>8. 0 \in A
  <2> SUFFICES ASSUME 0 + 1 <= n PROVE ws[0 + 1].slot_idx = Upto(ws, 0)
    OBVIOUS
  <2>1. 1 \in 1 .. n /\ 0 + 1 = 1
    BY <1>1
  <2>2. ws[1].slot_idx = 0
    BY <1>1, <2>1
  <2> QED BY <1>5, <2>1, <2>2
<1>9. ASSUME NEW k \in Nat, k \in A PROVE k + 1 \in A
  <2> SUFFICES ASSUME (k + 1) + 1 <= n PROVE ws[(k + 1) + 1].slot_idx = Upto(ws, k + 1)
    OBVIOUS
  <2> DEFINE m == (k + 1) + 1
  <2>1. m \in 1 .. n /\ m # 1 /\ m - 1 = k + 1 /\ k \in 0 .. n - 1 /\ k + 1 <= n
    BY <1>1
  <2>2. ws[m].slot_idx = ws[m - 1].slot_idx + ws[m - 1].slot_size
    BY <1>1, <2>1
  <2>3. ws[k + 1].slot_idx = Upto(ws, k)
    BY <1>9, <2>1
  <2>4. Upto(ws, k + 1) = Upto(ws, k) + ws[k + 1].slot_size
    BY <1>6, <1>7, <2>1
  <2> HIDE DEF m
  <2>5. ws[m].slot_idx = Upto(ws, k + 1)
    BY <2>1, <2>2, <2>3, <2>4
  <2> QED BY <2>5 DEF m
<1> HIDE DEF A
<1>10. Nat \subseteq A
  BY <1>8, <1>9, NatSetInduction
<1>11. ASSUME NEW k \in 1 .. n
       PROVE  ws[k].slot_idx = Upto(ws, k - 1) /\ Upto(ws, k) = ws[k].slot_idx + ws[k].slot_size
  <2>1. k - 1 \in Nat /\ k - 1 \in 0 .. n - 1 /\ (k - 1) + 1 = k /\ k <= n
    BY <1>1
  <2>2. k - 1 \in A
    BY <1>10, <2>1
  <2>3. ws[k].slot_idx = Upto(ws, k - 1)
    BY <2>1, <2>2 DEF A
  <2>4. Upto(ws, (k - 1) + 1) = Upto(ws, k - 1) + ws[(k - 1) + 1].slot_size
    BY <1>6, <1>7, <2>1
  <2>5. Upto(ws, k) = Upto(ws, k - 1) + ws[k].slot_size
    BY <2>1, <2>4, Zenon
  <2> QED BY <2>3, <2>5
<1> QED BY <1>1, <1>2, <1>4, <1>5, <1>11 DEF n

\* The slots lie one after the other from 0 to the bytes allocated.
LEMMA SlotsArePartition ==
  ASSUME NEW s \in Seq(BidType), NEW ws, SlotsOf(s, ws)
  PROVE  /\ Allocated(ws) \in Nat
         /\ UNION {Slot(ws[k]) : k \in DOMAIN ws} = 0 .. (Allocated(ws) - 1)
         /\ \A k \in DOMAIN ws :
              ws[k].slot_idx \in Nat /\ ws[k].slot_idx + ws[k].slot_size <= Allocated(ws)
         /\ \A j, k \in DOMAIN ws : j < k => ws[j].slot_idx + ws[j].slot_size <= ws[k].slot_idx
<1> DEFINE n == Len(ws)
           U(k) == Upto(ws, k)
<1>1. U(0) = 0 /\ Allocated(ws) = U(n) /\ DOMAIN ws = 1 .. n /\ n \in Nat
  BY SlotPlaces
<1>2. \A k \in 0 .. n : U(k) \in Nat
  BY SlotPlaces
<1>3. \A k \in 1 .. n : /\ ws[k].slot_idx = U(k - 1) /\ ws[k].slot_size \in Nat
                        /\ U(k) = ws[k].slot_idx + ws[k].slot_size
  BY SlotPlaces
<1> HIDE DEF U, n
<1>4. \A k \in 1 .. n : k - 1 \in 0 .. n /\ k \in 0 .. n
  BY <1>1
<1> DEFINE A == {k \in Nat : k <= n => \A j \in 0 .. k : U(j) <= U(k)}
<1>5. 0 \in A
  BY <1>1, <1>2
<1>6. ASSUME NEW k \in Nat, k \in A PROVE k + 1 \in A
  <2> SUFFICES ASSUME k + 1 <= n, NEW j \in 0 .. k + 1 PROVE U(j) <= U(k + 1)
    OBVIOUS
  <2>1. k \in 0 .. n /\ k + 1 \in 1 .. n /\ (k + 1) - 1 = k /\ k <= n /\ k + 1 \in 0 .. n
    BY <1>1
  <2>2. U(k) \in Nat /\ U(k + 1) \in Nat
    BY <1>2, <2>1
  <2>3. ws[k + 1].slot_idx = U(k) /\ ws[k + 1].slot_size \in Nat
        /\ U(k + 1) = ws[k + 1].slot_idx + ws[k + 1].slot_size
    BY <1>3, <2>1
  <2>4. U(k) <= U(k + 1)
    BY <2>2, <2>3
  <2>5. CASE j = k + 1
    BY <2>2, <2>5
  <2>6. CASE j \in 0 .. k
    <3>1. U(j) <= U(k)
      BY <1>6, <2>1, <2>6
    <3>2. j \in 0 .. n
      BY <1>1, <2>1, <2>6
    <3>3. U(j) \in Nat
      BY <1>2, <3>2
    <3> QED BY <2>2, <2>4, <3>1, <3>3
  <2> QED BY <2>5, <2>6
<1> HIDE DEF A
<1>7. Nat \subseteq A
  BY <1>5, <1>6, NatSetInduction
<1>8. \A k \in 0 .. n : \A j \in 0 .. k : U(j) <= U(k)
  BY <1>1, <1>7 DEF A
<1>9. ASSUME NEW k \in 1 .. n
      PROVE  ws[k].slot_idx \in Nat /\ ws[k].slot_idx + ws[k].slot_size <= U(n)
  <2>1. U(k) <= U(n) /\ U(k - 1) \in Nat
    BY <1>1, <1>2, <1>4, <1>8
  <2> QED BY <1>3, <2>1
<1>10. ASSUME NEW j \in 1 .. n, NEW k \in 1 .. n, j < k
       PROVE  ws[j].slot_idx + ws[j].slot_size <= ws[k].slot_idx
  <2>1. j \in 0 .. k - 1 /\ k - 1 \in 0 .. n
    BY <1>1, <1>10
  <2>2. U(j) <= U(k - 1)
    BY <1>8, <2>1
  <2> QED BY <1>3, <2>2
<1> DEFINE B == {k \in Nat : k <= n =>
                   \A x : (\E j \in 1 .. k : x \in Slot(ws[j])) <=> x \in 0 .. (U(k) - 1)}
<1>11. 0 \in B
  <2>1. \A x : x \notin 0 .. (U(0) - 1)
    BY <1>1
  <2> QED BY <2>1
<1>12. ASSUME NEW k \in Nat, k \in B PROVE k + 1 \in B
  <2> SUFFICES ASSUME k + 1 <= n, NEW x
               PROVE  (\E j \in 1 .. k + 1 : x \in Slot(ws[j])) <=> x \in 0 .. (U(k + 1) - 1)
    OBVIOUS
  <2>1. k \in 0 .. n /\ k + 1 \in 1 .. n /\ (k + 1) - 1 = k /\ k <= n /\ k + 1 \in 0 .. n
    BY <1>1
  <2>2. (\E j \in 1 .. k : x \in Slot(ws[j])) <=> x \in 0 .. (U(k) - 1)
    BY <1>12, <2>1
  <2>3. ws[k + 1].slot_idx = U(k) /\ ws[k + 1].slot_size \in Nat /\ U(k) \in Nat
        /\ U(k + 1) = U(k) + ws[k + 1].slot_size
    BY <1>2, <1>3, <2>1
  <2>4. Slot(ws[k + 1]) = U(k) .. (U(k + 1) - 1)
    BY <2>3 DEF Slot
  <2>5. (\E j \in 1 .. k + 1 : x \in Slot(ws[j]))
          <=> (\E j \in 1 .. k : x \in Slot(ws[j])) \/ x \in Slot(ws[k + 1])
    BY <2>1
  <2>6. x \in 0 .. (U(k + 1) - 1) <=> x \in 0 .. (U(k) - 1) \/ x \in U(k) .. (U(k + 1) - 1)
    BY <2>3
  <2> QED BY <2>2, <2>4, <2>5, <2>6
<1> HIDE DEF B
<1>13. Nat \subseteq B
  BY <1>11, <1>12, NatSetInduction
<1>14. \A x : (\E j \in 1 .. n : x \in Slot(ws[j])) <=> x \in 0 .. (U(n) - 1)
  BY <1>1, <1>13 DEF B
<1>15. \A x : x \in UNION {Slot(ws[k]) : k \in 1 .. n} <=> \E j \in 1 .. n : x \in Slot(ws[j])
  OBVIOUS
<1>16. UNION {Slot(ws[k]) : k \in 1 .. n} = 0 .. (U(n) - 1)
  <2> DEFINE V == UNION {Slot(ws[k]) : k \in 1 .. n}
             I == 0 .. (U(n) - 1)
  <2>1. \A x : x \in V <=> x \in I
    BY <1>14, <1>15
  <2> HIDE DEF V, I
  <2>2. V = I
    BY <2>1
  <2> QED BY <2>2 DEF V, I
<1>17. U(n) \in Nat
  BY <1>1, <1>2
<1> QED BY <1>1, <1>9, <1>10, <1>16, <1>17

-----------------------------------------------------------------------------
(***************************************************************************)
(* The auction as a whole.                                                 *)
(***************************************************************************)
Sold(items) == FoldLeft(AddSlot, <<>>, SortedByHash(items))

LEMMA TimesMonotone ==
  ASSUME NEW c \in Nat, NEW a \in Nat, NEW b \in Nat, a <= b
  PROVE  c * a <= c * b
<1> DEFINE d == b - a
<1>1. d \in Nat /\ b = a + d
  OBVIOUS
<1> HIDE DEF d
<1>2. c * (a + d) = (c * a) + (c * d)
  BY <1>1
<1>3. c * a \in Nat /\ c * d \in Nat
  BY <1>1
<1>4. c * b = (c * a) + (c * d)
  BY <1>1, <1>2
<1> QED BY <1>3, <1>4

\* The slots sold are those of the selected items.
LEMMA SoldFacts ==
  ASSUME NEW items \in Seq(BidType)
  PROVE  /\ SortedByHash(items) \in Seq(BidType)
         /\ SlotsOf(SortedByHash(items), Sold(items))
         /\ \A k \in 1 .. Len(SortedByHash(items)) :
              \E i \in DOMAIN items : SortedByHash(items)[k] = items[i]
         /\ TotalWeight(Sold(items)) = WeightOf(items, TraceBack(items))
         /\ Allocated(Sold(items)) = chunk_bytes * ChunksOf(items, TraceBack(items))
<1> DEFINE S == TraceBack(items)
           n == Cardinality(S)
           s == SortedByHash(items)
           ws == Sold(items)
           D == DOMAIN items
           W == [i \in D |-> items[i].weight]
           C == [i \in D |-> Chunks(items[i])]
           V == [k \in 1 .. n |-> ws[k].bid.weight]
           G == SlotSizes(ws)
<1>1. PICK q : IsHashOrder(items, q)
  BY SortedByHashFacts
<1>2. /\ n \in Nat /\ q \in [1 .. n -> D]
      /\ \A i, j \in 1 .. n : i # j => q[i] # q[j]
      /\ S = {q[i] : i \in 1 .. n}
      /\ s \in Seq(BidType) /\ Len(s) = n
      /\ \A k \in 1 .. n : s[k] = items[q[k]]
  BY <1>1, HashOrderFacts
<1>3. SlotsOf(s, ws)
  BY <1>2, SlotsFollow DEF Sold
<1>4. IsFiniteSet(D) /\ \A i \in D : items[i] \in BidType
  <2>1. D = 1 .. Len(items) /\ Len(items) \in Nat
    OBVIOUS
  <2>2. IsFiniteSet(1 .. Len(items))
    BY <2>1, FS_Interval
  <2> QED BY <2>1, <2>2
<1>5. \A i \in D : items[i].weight \in Nat /\ Chunks(items[i]) \in Nat
  BY <1>4, ChunksTyped DEF BidType
<1>6. W \in [D -> Nat] /\ C \in [D -> Nat] /\ \A i \in D : W[i] = items[i].weight /\ C[i] = Chunks(items[i])
  BY <1>5
<1>7. WeightOf(items, S) = SumFunctionOnSet(W, S) /\ ChunksOf(items, S) = SumFunctionOnSet(C, S)
  BY DEF WeightOf, ChunksOf
<1>8. DOMAIN ws = 1 .. n /\ Len(ws) = n
  BY <1>2, <1>3, SlotPlaces
<1>9. /\ \A k \in 1 .. n : ws[k].bid = s[k] /\ ws[k].slot_size = Chunks(s[k]) * chunk_bytes
  BY <1>2, <1>3 DEF SlotsOf
<1>10. TotalWeight(ws) = SumFunctionOnSet(V, 1 .. n)
  BY <1>8 DEF TotalWeight, SumFunction
<1>11. Allocated(ws) = SumFunctionOnSet(G, 1 .. n)
  BY <1>2, <1>3, <1>8, SlotPlaces DEF Upto
<1>12. \A k \in 1 .. n : q[k] \in D /\ V[k] = 1 * W[q[k]] /\ G[k] = chunk_bytes * C[q[k]]
  <2> SUFFICES ASSUME NEW k \in 1 .. n
               PROVE  q[k] \in D /\ V[k] = 1 * W[q[k]] /\ G[k] = chunk_bytes * C[q[k]]
    OBVIOUS
  <2>1. q[k] \in D /\ s[k] = items[q[k]]
    BY <1>2
  <2>2. V[k] = items[q[k]].weight /\ items[q[k]].weight \in Nat
    BY <1>5, <1>9, <2>1
  <2>3. G[k] = Chunks(items[q[k]]) * chunk_bytes /\ Chunks(items[q[k]]) \in Nat
    BY <1>5, <1>8, <1>9, <2>1 DEF SlotSizes
  <2>4. W[q[k]] = items[q[k]].weight /\ C[q[k]] = Chunks(items[q[k]])
    BY <1>6, <2>1
  <2> HIDE DEF V, G, W, C
  <2>5. V[k] = 1 * W[q[k]]
    BY <2>2, <2>4
  <2>6. G[k] = chunk_bytes * C[q[k]]
    BY <2>3, <2>4, EngineAssumption
  <2> QED BY <2>1, <2>5, <2>6
<1>13. DOMAIN V = 1 .. n /\ DOMAIN G = 1 .. n /\ G = [k \in 1 .. n |-> G[k]] /\ V = [k \in 1 .. n |-> V[k]]
  BY <1>8 DEF SlotSizes
<1> HIDE DEF S, n, s, ws, D, W, C, V, G
<1>14. chunk_bytes \in Nat /\ 1 \in Nat
  BY EngineAssumption
<1>15. \A k \in 1 .. n : W[q[k]] \in Nat /\ C[q[k]] \in Nat
  BY <1>6, <1>12
<1>16. \A k \in 1 .. n : V[k] \in Nat /\ G[k] \in Nat
  BY <1>12, <1>14, <1>15
<1>17. V \in [1 .. n -> Nat] /\ G \in [1 .. n -> Nat]
  BY <1>13, <1>16
<1>e. Enumerates(q, n, S) /\ S \in SUBSET D
  <2>1. q \in [1 .. n -> S] /\ \A x \in S : \E i \in 1 .. n : q[i] = x
    BY <1>2
  <2> QED BY <1>2, <2>1 DEF Enumerates
<1>v. Scales(V, n, 1, W, q)
  BY <1>12, <1>17 DEF Scales
<1>g. Scales(G, n, chunk_bytes, C, q)
  BY <1>12, <1>17 DEF Scales
<1>18. SumFunctionOnSet(V, 1 .. n) = 1 * SumFunctionOnSet(W, S)
  <2>1. n \in Nat /\ IsFiniteSet(D) /\ W \in [D -> Nat] /\ 1 \in Nat
    BY <1>2, <1>4, <1>6
  <2>2. S \in SUBSET D /\ Enumerates(q, n, S) /\ Scales(V, n, 1, W, q)
    BY <1>e, <1>v
  <2> QED BY <2>1, <2>2, SumReindexed
<1>19. SumFunctionOnSet(G, 1 .. n) = chunk_bytes * SumFunctionOnSet(C, S)
  <2>1. n \in Nat /\ IsFiniteSet(D) /\ C \in [D -> Nat] /\ chunk_bytes \in Nat
    BY <1>2, <1>4, <1>6, <1>14
  <2>2. S \in SUBSET D /\ Enumerates(q, n, S) /\ Scales(G, n, chunk_bytes, C, q)
    BY <1>e, <1>g
  <2> QED BY <2>1, <2>2, SumReindexed
<1>20. TotalWeight(ws) = 1 * WeightOf(items, S)
  BY <1>7, <1>10, <1>18, Zenon
<1>21. Allocated(ws) = chunk_bytes * ChunksOf(items, S)
  BY <1>7, <1>11, <1>19, Zenon
<1>22. WeightOf(items, S) \in Nat
  BY TraceBackFacts, WeightFacts DEF S
<1>23. TotalWeight(ws) = WeightOf(items, S)
  BY <1>20, <1>22
<1>24. \A k \in 1 .. Len(s) : \E i \in D : s[k] = items[i]
  BY <1>2, <1>12
<1> QED BY <1>2, <1>3, <1>21, <1>23, <1>24 DEF S, s, ws, D

\* What the auction gives.
RunsWell(bids, ws) ==
  /\ ws \in Seq(WinnerType)
  /\ \A k \in DOMAIN ws :
       /\ \E i \in DOMAIN bids : ws[k].bid = Clamp(bids[i])
       /\ ws[k].bid.size <= ws[k].slot_size
       /\ ws[k].bid.size >= min_message_size
       /\ ws[k].slot_idx + ws[k].slot_size <= Allocated(ws)
  /\ \A j, k \in DOMAIN ws : j < k => ws[j].slot_idx + ws[j].slot_size <= ws[k].slot_idx
  /\ Allocated(ws) \in Nat /\ Allocated(ws) <= total_bandwidth
  /\ UNION {Slot(ws[k]) : k \in DOMAIN ws} = 0 .. (Allocated(ws) - 1)

LEMMA NothingRunsWell ==
  ASSUME NEW bids
  PROVE  RunsWell(bids, <<>>) /\ Allocated(<<>>) = 0 /\ TotalWeight(<<>>) = 0
<1>1. SlotsOf(<<>>, <<>>)
  BY DEF SlotsOf
<1>2. <<>> \in Seq(BidType) /\ <<>> \in Seq(WinnerType) /\ Len(<<>>) = 0 /\ DOMAIN <<>> = {}
  OBVIOUS
<1>3. Allocated(<<>>) = 0
  BY <1>1, <1>2, SlotPlaces
<1>4. UNION {Slot(<<>>[k]) : k \in DOMAIN <<>>} = 0 .. (Allocated(<<>>) - 1)
  BY <1>1, <1>2, SlotsArePartition
<1>5. 0 <= total_bandwidth
  BY EngineAssumption
<1>6. TotalWeight(<<>>) = 0
  <2> DEFINE V == [k \in DOMAIN <<>> |-> <<>>[k].bid.weight]
  <2>1. V \in [{} -> Nat] /\ DOMAIN V = {}
    BY <1>2
  <2>2. TotalWeight(<<>>) = SumFunctionOnSet(V, DOMAIN V)
    BY DEF TotalWeight, SumFunction
  <2> HIDE DEF V
  <2>3. SumsUp(V, {})
    BY <2>1, FS_EmptySet, SumFacts
  <2>4. SumFunctionOnSet(V, {}) = 0
    BY <2>3 DEF SumsUp
  <2> QED BY <2>1, <2>2, <2>4, Zenon
<1> QED BY <1>2, <1>3, <1>4, <1>5, <1>6 DEF RunsWell

LEMMA RunAuctionFacts ==
  ASSUME NEW bids \in Seq(BidType)
  PROVE  RunsWell(bids, run_auction(bids))
<1> DEFINE items == ValidBids(bids)
           s == SortedByHash(items)
           ws == Sold(items)
<1>1. CASE TotalChunks = 0
  <2>1. run_auction(bids) = <<>>
    BY <1>1 DEF run_auction
  <2> QED BY <2>1, NothingRunsWell
<1>2. CASE TotalChunks # 0
  <2>1. run_auction(bids) = ws
    BY <1>2 DEF run_auction, Sold
  <2>2. /\ items \in Seq(BidType)
        /\ \A k \in DOMAIN items :
              /\ IsValid(items[k])
              /\ \E i \in DOMAIN bids : items[k] = Clamp(bids[i])
    BY ValidBidsFacts
  <2> HIDE DEF items
  <2>3. /\ s \in Seq(BidType) /\ SlotsOf(s, ws)
        /\ \A k \in 1 .. Len(s) : \E i \in DOMAIN items : s[k] = items[i]
        /\ Allocated(ws) = chunk_bytes * ChunksOf(items, TraceBack(items))
    BY <2>2, SoldFacts
  <2> HIDE DEF s, ws
  <2>4. /\ DOMAIN ws = 1 .. Len(s) /\ ws \in Seq(WinnerType)
        /\ \A k \in 1 .. Len(s) : ws[k].bid = s[k] /\ ws[k].slot_size = Chunks(s[k]) * chunk_bytes
    BY <2>3 DEF SlotsOf
  <2>5. /\ Allocated(ws) \in Nat
        /\ UNION {Slot(ws[k]) : k \in DOMAIN ws} = 0 .. (Allocated(ws) - 1)
        /\ \A k \in DOMAIN ws :
              ws[k].slot_idx \in Nat /\ ws[k].slot_idx + ws[k].slot_size <= Allocated(ws)
        /\ \A j, k \in DOMAIN ws : j < k => ws[j].slot_idx + ws[j].slot_size <= ws[k].slot_idx
    BY <2>3, SlotsArePartition
  <2>6. Allocated(ws) <= total_bandwidth
    <3> DEFINE c == ChunksOf(items, TraceBack(items))
    <3>1. c \in Nat /\ c <= TotalChunks
      BY <2>2, TraceBackFacts, ChunksFacts
    <3>2. chunk_bytes \in Nat /\ TotalChunks \in Nat /\ total_bandwidth \in Nat
      BY EngineAssumption, ChunksTyped
    <3> HIDE DEF c
    <3>3. chunk_bytes * c <= chunk_bytes * TotalChunks
      BY <3>1, <3>2, TimesMonotone
    <3>4. chunk_bytes * TotalChunks <= total_bandwidth
      <4>1. TotalChunks * chunk_bytes <= total_bandwidth
        BY ChunksTyped
      <4>2. TotalChunks * chunk_bytes = chunk_bytes * TotalChunks
        BY <3>2
      <4> QED BY <4>1, <4>2
    <3>5. Allocated(ws) = chunk_bytes * c
      BY <2>3 DEF c
    <3>6. chunk_bytes * TotalChunks \in Nat
      BY <3>2
    <3> QED BY <2>5, <3>2, <3>3, <3>4, <3>5, <3>6
  <2>7. ASSUME NEW k \in DOMAIN ws
        PROVE  /\ \E i \in DOMAIN bids : ws[k].bid = Clamp(bids[i])
               /\ ws[k].bid.size <= ws[k].slot_size
               /\ ws[k].bid.size >= min_message_size
    <3>1. k \in 1 .. Len(s) /\ s[k] \in BidType
      BY <2>3, <2>4
    <3>2. PICK i \in DOMAIN items : s[k] = items[i]
      BY <2>3, <3>1
    <3>3. PICK h \in DOMAIN bids : items[i] = Clamp(bids[h])
      BY <2>2
    <3>4. ws[k].bid = Clamp(bids[h]) /\ ws[k].bid = s[k]
      BY <2>4, <3>1, <3>2, <3>3
    <3>5. s[k].size <= ws[k].slot_size
      <4>1. Chunks(s[k]) * chunk_bytes >= s[k].size
        BY <3>1, ChunksTyped
      <4>2. ws[k].slot_size = Chunks(s[k]) * chunk_bytes
        BY <2>4, <3>1
      <4>3. s[k].size \in Nat /\ Chunks(s[k]) * chunk_bytes \in Nat
        <5>1. s[k] \in BidType /\ Chunks(s[k]) \in Nat
          BY <3>1, ChunksTyped
        <5>2. s[k].size \in Nat
          BY <5>1 DEF BidType
        <5>3. Chunks(s[k]) * chunk_bytes \in Nat
          BY <5>1, EngineAssumption
        <5> QED BY <5>2, <5>3
      <4> QED BY <4>1, <4>2, <4>3
    <3>6. s[k].size >= min_message_size
      <4>1. bids[h] \in BidType /\ s[k] = Clamp(bids[h])
        BY <3>2, <3>3
      <4>2. bids[h].size \in Nat /\ min_message_size \in Nat
        BY <4>1, EngineAssumption DEF BidType
      <4>3. s[k].size = IF bids[h].size < min_message_size THEN min_message_size ELSE bids[h].size
        BY <4>1, ClampTyped
      <4> QED BY <4>2, <4>3
    <3> QED BY <3>4, <3>5, <3>6
  <2>8. RunsWell(bids, ws)
    BY <2>4, <2>5, <2>6, <2>7 DEF RunsWell
  <2> QED BY <2>1, <2>8
<1> QED BY <1>1, <1>2

\* The winners are worth as much as any selection of the valid bids that fits,
\* unless there is no chunk to sell and a bid may be of no bytes.
LEMMA RunAuctionOptimal ==
  ASSUME NEW bids \in Seq(BidType), TotalChunks # 0 \/ min_message_size # 0
  PROVE  TotalWeight(run_auction(bids)) = BestWeight(ValidBids(bids))
<1> DEFINE items == ValidBids(bids)
<1>1. /\ items \in Seq(BidType)
      /\ \A k \in DOMAIN items :
           IsValid(items[k]) /\ \E i \in DOMAIN bids : items[k] = Clamp(bids[i])
  BY ValidBidsFacts
<1> HIDE DEF items
<1>2. BestWeight(items) = WeightOf(items, TraceBack(items))
  BY <1>1, Knapsack
<1>3. CASE TotalChunks # 0
  <2>1. run_auction(bids) = Sold(items)
    BY <1>3 DEF run_auction, Sold, items
  <2>2. TotalWeight(Sold(items)) = WeightOf(items, TraceBack(items))
    BY <1>1, SoldFacts
  <2> QED BY <1>2, <2>1, <2>2 DEF items
<1>4. CASE TotalChunks = 0
  <2>1. run_auction(bids) = <<>>
    BY <1>4 DEF run_auction
  <2>2. DOMAIN items = {}
    <3> SUFFICES ASSUME NEW k \in DOMAIN items PROVE FALSE
      OBVIOUS
    <3>1. items[k] \in BidType /\ Chunks(items[k]) <= 0
      BY <1>1, <1>4 DEF IsValid
    <3>2. PICK i \in DOMAIN bids : items[k] = Clamp(bids[i])
      BY <1>1
    <3>3. bids[i] \in BidType /\ bids[i].size \in Nat /\ min_message_size \in Nat /\ min_message_size # 0
      <4>1. bids[i] \in BidType
        OBVIOUS
      <4>2. bids[i].size \in Nat
        BY <4>1 DEF BidType
      <4> QED BY <1>4, <4>1, <4>2, EngineAssumption
    <3>4. items[k].size >= 1 /\ items[k].size \in Nat
      <4>1. Clamp(bids[i]).size =
              IF bids[i].size < min_message_size THEN min_message_size ELSE bids[i].size
        BY <3>3, ClampTyped
      <4>2. items[k].size = IF bids[i].size < min_message_size THEN min_message_size
                                                               ELSE bids[i].size
        BY <3>2, <4>1
      <4> QED BY <3>3, <4>2
    <3>5. Chunks(items[k]) = 0 /\ Chunks(items[k]) * chunk_bytes >= items[k].size
      BY <3>1, ChunksTyped
    <3>6. 0 * chunk_bytes = 0
      BY EngineAssumption
    <3> QED BY <3>4, <3>5, <3>6
  <2>3. TraceBack(items) = {}
    BY <1>1, <2>2, TraceBackFacts
  <2>4. WeightOf(items, {}) = 0
    BY <1>1, WeightFacts
  <2>5. TotalWeight(<<>>) = 0
    BY NothingRunsWell
  <2> QED BY <1>2, <2>1, <2>3, <2>4, <2>5, Zenon DEF items
<1> QED BY <1>3, <1>4

-----------------------------------------------------------------------------
(***************************************************************************)
(* One bid more.                                                           *)
(***************************************************************************)
LEMMA RowsAppend ==
  ASSUME NEW items \in Seq(BidType), NEW b \in BidType
  PROVE  \A k \in 0 .. Len(items) : Rows(Append(items, b))[k] = Rows(items)[k]
<1> DEFINE n == Len(items)
           more == Append(items, b)
           A == {k \in Nat : k <= n => Rows(more)[k] = Rows(items)[k]}
<1>1. /\ n \in Nat /\ more \in Seq(BidType) /\ Len(more) = n + 1
      /\ \A k \in 1 .. n : more[k] = items[k]
  OBVIOUS
<1> HIDE DEF more
<1>2. 0 \in A
  <2>1. Rows(more)[0] = [w \in Capacities |-> 0]
    BY <1>1, RowsFacts
  <2>2. Rows(items)[0] = [w \in Capacities |-> 0]
    BY RowsFacts
  <2>3. Rows(more)[0] = Rows(items)[0]
    BY <2>1, <2>2, Zenon
  <2> QED BY <2>3
<1>3. ASSUME NEW k \in Nat, k \in A PROVE k + 1 \in A
  <2> SUFFICES ASSUME k + 1 <= n PROVE Rows(more)[k + 1] = Rows(items)[k + 1]
    OBVIOUS
  <2> DEFINE m == k + 1
  <2>1. m \in 1 .. n /\ m \in 1 .. Len(more) /\ m - 1 = k /\ more[m] = items[m]
    BY <1>1
  <2>2. Rows(more)[k] = Rows(items)[k]
    BY <1>1, <1>3
  <2> HIDE DEF m, n
  <2>3. Rows(more)[m] = NextRow(Rows(more)[m - 1], more[m])
    BY <1>1, <2>1, RowsFacts
  <2>4. Rows(items)[m] = NextRow(Rows(items)[m - 1], items[m])
    BY <2>1, RowsFacts DEF n
  <2>5. Rows(more)[m] = Rows(items)[m]
    BY <2>1, <2>2, <2>3, <2>4, Zenon
  <2> QED BY <2>5 DEF m
<1> HIDE DEF A
<1>4. Nat \subseteq A
  BY <1>2, <1>3, NatSetInduction
<1> QED BY <1>1, <1>4 DEF A, more

\* If the last item improves nothing, the trace-back goes as without it.
LEMMA TraceBackAppend ==
  ASSUME NEW items \in Seq(BidType), NEW b \in BidType,
         Rows(Append(items, b))[Len(items) + 1][TotalChunks]
           = Rows(items)[Len(items)][TotalChunks]
  PROVE  TraceBack(Append(items, b)) = TraceBack(items)
<1> DEFINE n == Len(items)
           more == Append(items, b)
<1>1. /\ n \in Nat /\ more \in Seq(BidType) /\ Len(more) = n + 1
      /\ \A k \in 1 .. n : more[k] = items[k]
  OBVIOUS
<1>2. \A k \in 0 .. n : Rows(more)[k] = Rows(items)[k]
  BY RowsAppend
<1>3. Rows(more)[n + 1][TotalChunks] = Rows(items)[n][TotalChunks]
  OBVIOUS
<1> HIDE DEF more
<1>4. PICK f : IsTrace(f, items) /\ TraceBack(items) = f[n].selected
  BY TraceExists
<1>5. PICK h : IsTrace(h, more) /\ TraceBack(more) = h[n + 1].selected
  BY <1>1, TraceExists
<1>6. /\ f[0] = [w |-> TotalChunks, selected |-> {}]
      /\ \A k \in 0 .. n - 1 : f[k + 1] = Visit(Rows(items), items, n - k, f[k])
  BY <1>4 DEF IsTrace
<1>7. /\ h[0] = [w |-> TotalChunks, selected |-> {}]
      /\ \A k \in 0 .. (n + 1) - 1 : h[k + 1] = Visit(Rows(more), more, (n + 1) - k, h[k])
  BY <1>1, <1>5 DEF IsTrace
<1> HIDE DEF n
<1>8. \A s : \A i \in 1 .. n : Visit(Rows(more), more, i, s) = Visit(Rows(items), items, i, s)
  <2> SUFFICES ASSUME NEW i \in 1 .. n, NEW s
               PROVE  Visit(Rows(more), more, i, s) = Visit(Rows(items), items, i, s)
    OBVIOUS
  <2>1. i \in 0 .. n /\ i - 1 \in 0 .. n
    BY <1>1
  <2>2. Rows(more)[i] = Rows(items)[i] /\ Rows(more)[i - 1] = Rows(items)[i - 1] /\ more[i] = items[i]
    BY <1>1, <1>2, <2>1
  <2> QED BY <2>2 DEF Visit
<1> DEFINE A == {k \in Nat : k <= n => h[k + 1] = f[k]}
<1>9. 0 \in A
  <2>1. 0 \in 0 .. (n + 1) - 1 /\ 0 + 1 = 1 /\ (n + 1) - 0 = n + 1 /\ (n + 1) - 1 = n /\ n \in 0 .. n
    BY <1>1
  <2>2. h[0 + 1] = Visit(Rows(more), more, (n + 1) - 0, h[0])
    BY <1>7, <2>1
  <2>3. h[1] = Visit(Rows(more), more, n + 1, h[0])
    BY <2>1, <2>2, Zenon
  <2>4. h[0].w = TotalChunks
    BY <1>7
  <2>5. Rows(more)[n + 1][h[0].w] = Rows(more)[(n + 1) - 1][h[0].w]
    BY <1>2, <1>3, <2>1, <2>4
  <2>6. Visit(Rows(more), more, n + 1, h[0]) = h[0]
    BY <2>5 DEF Visit
  <2>7. h[0 + 1] = f[0]
    BY <1>6, <1>7, <2>1, <2>3, <2>6
  <2> QED BY <2>7
<1>10. ASSUME NEW k \in Nat, k \in A PROVE k + 1 \in A
  <2> SUFFICES ASSUME k + 1 <= n PROVE h[(k + 1) + 1] = f[k + 1]
    OBVIOUS
  <2>1. k + 1 \in 0 .. (n + 1) - 1 /\ k \in 0 .. n - 1 /\ (n + 1) - (k + 1) = n - k /\ n - k \in 1 .. n
        /\ k <= n
    BY <1>1
  <2>2. h[(k + 1) + 1] = Visit(Rows(more), more, (n + 1) - (k + 1), h[k + 1])
    BY <1>7, <2>1
  <2>3. h[k + 1] = f[k]
    BY <1>10, <2>1
  <2>4. f[k + 1] = Visit(Rows(items), items, n - k, f[k])
    BY <1>6, <2>1
  <2>5. h[(k + 1) + 1] = Visit(Rows(more), more, n - k, f[k])
    BY <2>1, <2>2, <2>3, Zenon
  <2> QED BY <1>8, <2>1, <2>4, <2>5
<1> HIDE DEF A
<1>11. Nat \subseteq A
  BY <1>9, <1>10, NatSetInduction
<1>12. h[n + 1] = f[n]
  BY <1>1, <1>11 DEF A
<1> QED BY <1>4, <1>5, <1>12, Zenon DEF more

\* The same items selected are sold in the same order.
LEMMA SortedByHashAppend ==
  ASSUME NEW items \in Seq(BidType), NEW b \in BidType,
         TraceBack(Append(items, b)) = TraceBack(items)
  PROVE  SortedByHash(Append(items, b)) = SortedByHash(items)
<1> DEFINE more == Append(items, b)
           S == TraceBack(items)
<1>1. S \subseteq 1 .. Len(items) /\ \A k \in 1 .. Len(items) : more[k] = items[k]
  BY TraceBackFacts
<1>2. \A q \in SetToSeqs(S) : \A j \in DOMAIN q : q[j] \in S
  BY DEF SetToSeqs
<1>s. TraceBack(more) = S
  OBVIOUS
<1> HIDE DEF more, S
<1>3. \A q \in SetToSeqs(S) : \A j \in DOMAIN q : more[q[j]] = items[q[j]]
  BY <1>1, <1>2
<1>4. \A q \in SetToSeqs(S) : Sorted(more, q) <=> Sorted(items, q)
  BY <1>3 DEF Sorted, Before
<1> DEFINE c == CHOOSE q \in SetToSeqs(S) : Sorted(items, q)
           d == CHOOSE q \in SetToSeqs(S) : Sorted(more, q)
<1>5. c = d
  BY <1>4
<1>6. \E q \in SetToSeqs(S) : Sorted(items, q)
  BY SortedByHashFacts DEF IsHashOrder, S
<1>7. c \in SetToSeqs(S)
  BY <1>6
<1>8. SortedByHash(items) = [k \in DOMAIN c |-> items[c[k]]]
  BY DEF SortedByHash, S
<1>9. SortedByHash(more) = [k \in DOMAIN d |-> more[d[k]]]
  BY <1>s DEF SortedByHash
<1> HIDE DEF c, d
<1>10. SortedByHash(more) = [k \in DOMAIN c |-> more[c[k]]]
  BY <1>5, <1>9, Zenon
<1>11. [k \in DOMAIN c |-> more[c[k]]] = [k \in DOMAIN c |-> items[c[k]]]
  BY <1>3, <1>7
<1> QED BY <1>8, <1>10, <1>11, Zenon DEF more

LEMMA SoldMore ==
  ASSUME NEW items \in Seq(BidType), NEW b \in BidType
  PROVE  \/ TotalWeight(Sold(Append(items, b))) > TotalWeight(Sold(items))
         \/ Sold(Append(items, b)) = Sold(items)
<1> DEFINE n == Len(items)
           more == Append(items, b)
<1>1. n \in Nat /\ more \in Seq(BidType) /\ Len(more) = n + 1 /\ more[n + 1] = b
  OBVIOUS
<1> HIDE DEF more
<1>2. TotalWeight(Sold(items)) = Rows(items)[n][TotalChunks]
  BY SoldFacts, TraceBackFacts
<1>3. TotalWeight(Sold(more)) = Rows(more)[n + 1][TotalChunks]
  <2>1. TotalWeight(Sold(more)) = WeightOf(more, TraceBack(more))
    BY <1>1, SoldFacts
  <2>2. WeightOf(more, TraceBack(more)) = Rows(more)[Len(more)][TotalChunks]
    BY <1>1, TraceBackFacts
  <2> QED BY <1>1, <2>1, <2>2
<1>4. Rows(more)[n] = Rows(items)[n]
  <2>1. n \in 0 .. n
    BY <1>1
  <2> QED BY <2>1, RowsAppend DEF more
<1>5. Rows(items)[n][TotalChunks] \in Nat /\ Rows(more)[n + 1][TotalChunks] \in Nat
      /\ Rows(items)[n][TotalChunks] <= Rows(more)[n + 1][TotalChunks]
  <2>1. n \in 0 .. n /\ n + 1 \in 1 .. Len(more) /\ n + 1 \in 0 .. Len(more) /\ (n + 1) - 1 = n
    BY <1>1
  <2>2. TotalChunks \in Capacities
    BY ChunksTyped DEF Capacities
  <2> HIDE DEF n
  <2>3. Rows(items)[n] \in DpRow
    BY <2>1, RowsFacts DEF n
  <2>4. Rows(more)[n + 1] = NextRow(Rows(items)[n], b)
    <3>1. Rows(more)[n + 1] = NextRow(Rows(more)[(n + 1) - 1], more[n + 1])
      BY <1>1, <2>1, RowsFacts
    <3> QED BY <1>1, <1>4, <2>1, <3>1, Zenon
  <2>5. NextRow(Rows(items)[n], b) \in DpRow
        /\ Rows(items)[n][TotalChunks] <= NextRow(Rows(items)[n], b)[TotalChunks]
    BY <2>2, <2>3, NextRowAt
  <2> QED BY <2>2, <2>3, <2>4, <2>5 DEF DpRow
<1>6. CASE Rows(more)[n + 1][TotalChunks] = Rows(items)[n][TotalChunks]
  <2>1. TraceBack(more) = TraceBack(items)
    BY <1>6, TraceBackAppend DEF more
  <2>2. SortedByHash(more) = SortedByHash(items)
    BY <2>1, SortedByHashAppend DEF more
  <2>3. Sold(more) = Sold(items)
    BY <2>2 DEF Sold
  <2> QED BY <2>3 DEF more
<1>7. CASE Rows(more)[n + 1][TotalChunks] # Rows(items)[n][TotalChunks]
  <2>1. TotalWeight(Sold(more)) > TotalWeight(Sold(items))
    BY <1>2, <1>3, <1>5, <1>7
  <2> QED BY <2>1 DEF more
<1> QED BY <1>6, <1>7

\* One bid more makes the auction worth more, or leaves it as it is.
LEMMA RunAuctionMore ==
  ASSUME NEW bids \in Seq(BidType), NEW b \in BidType
  PROVE  \/ TotalWeight(run_auction(Append(bids, b))) > TotalWeight(run_auction(bids))
         \/ run_auction(Append(bids, b)) = run_auction(bids)
<1> DEFINE items == ValidBids(bids)
           more == ValidBids(Append(bids, b))
           c == Clamp(b)
<1>1. items \in Seq(BidType) /\ c \in BidType
  BY ValidBidsFacts, ClampTyped
<1>2. more = Keep(items, c)
  BY ValidBidsAppend
<1> HIDE DEF items, more, c
<1>3. CASE TotalChunks = 0
  BY <1>3 DEF run_auction
<1>4. CASE TotalChunks # 0
  <2>1. run_auction(bids) = Sold(items) /\ run_auction(Append(bids, b)) = Sold(more)
    BY <1>4 DEF run_auction, Sold, items, more
  <2>2. CASE IsValid(c)
    <3>1. more = Append(items, c)
      BY <1>2, <2>2 DEF Keep
    <3>2. \/ TotalWeight(Sold(Append(items, c))) > TotalWeight(Sold(items))
          \/ Sold(Append(items, c)) = Sold(items)
      BY <1>1, SoldMore
    <3> QED BY <2>1, <3>1, <3>2, Zenon
  <2>3. CASE ~IsValid(c)
    <3>1. more = items
      BY <1>2, <2>3 DEF Keep
    <3> QED BY <2>1, <3>1
  <2> QED BY <2>2, <2>3
<1> QED BY <1>3, <1>4
=============================================================================
