---------------------------- MODULE FoldInduction ----------------------------
(***************************************************************************)
(* Induction over data, stated with sets: the folds of the community       *)
(* modules are recursive functions, and what one of them computes for      *)
(* every input is shown here once.  The induction theorems of the library  *)
(* take an operator; a set of numbers says the same.                       *)
(***************************************************************************)
EXTENDS Selection, SequencesExt, FiniteSetTheorems, SequenceTheorems,
        WellFoundedInduction, TLAPS

(* Every natural number is in a set that holds zero and, with a number,    *)
(* the next one.                                                           *)
LEMMA Induction ==
  ASSUME NEW S, 0 \in S, \A n \in Nat : n \in S => n + 1 \in S
  PROVE  \A n \in Nat : n \in S
<1>1. ASSUME NEW T, T = {n \in Nat : n \notin S}, T # {}
      PROVE  FALSE
  <2>1. IsWellFoundedOn(OpToRel(<, Nat), Nat)
    BY NatLessThanWellFounded
  <2>2. T \subseteq Nat
    BY <1>1
  <2>3. PICK x \in T : \A y \in T : ~ (<<y, x>> \in OpToRel(<, Nat))
    BY <1>1, <2>1, <2>2, WFMin
  <2>4. x \in Nat /\ x \notin S
    BY <1>1
  <2>5. x # 0 /\ x - 1 \in Nat /\ (x - 1) + 1 = x
    BY <2>4
  <2>6. <<x - 1, x>> \in OpToRel(<, Nat)
    BY <2>4, <2>5 DEF OpToRel
  <2>7. x - 1 \in S
    BY <1>1, <2>3, <2>5, <2>6
  <2>. QED
    BY <2>4, <2>5, <2>7
<1>. QED
  BY <1>1

(* The same up to a bound.                                                 *)
LEMMA InductionTo ==
  ASSUME NEW n \in Nat, NEW S, 0 \in S, \A k \in 1 .. n : k - 1 \in S => k \in S
  PROVE  \A k \in 0 .. n : k \in S
<1> DEFINE T == {k \in Nat : k <= n => k \in S}
<1>1. 0 \in T
  OBVIOUS
<1>2. ASSUME NEW k \in Nat, k \in T
      PROVE  k + 1 \in T
  <2>1. CASE k + 1 <= n
    <3>1. k \in S /\ k + 1 \in 1 .. n /\ (k + 1) - 1 = k
      BY <1>2, <2>1
    <3>2. k + 1 \in S
      BY <3>1
    <3>. QED
      BY <3>2
  <2>2. CASE ~ (k + 1 <= n)
    BY <2>2
  <2>. QED
    BY <2>1, <2>2
<1>3. \A k \in Nat : k \in T
  <2>. HIDE DEF T
  <2>. QED  BY <1>1, <1>2, Induction
<1>. QED
  BY <1>3

(***************************************************************************)
(* A fold takes one element after the other out of a finite set D and      *)
(* combines it with what the rest of the set gives: pick is the element    *)
(* taken and step the operation, as functions; the results stay in A.      *)
(***************************************************************************)
Picks(pick, D) == \A s \in SUBSET D : s # {} => pick[s] \in s

StaysIn(step, D, A) == \A x \in D, a \in A : step[<<x, a>>] \in A

Folds(g, D, base, pick, step) ==
  \A s \in SUBSET D :
    g[s] = IF s = {} THEN base ELSE step[<<pick[s], g[s \ {pick[s]}]>>]

(* The recursive function that computes a fold exists.                     *)
LEMMA FoldExists ==
  ASSUME NEW D, IsFiniteSet(D), NEW A, NEW base \in A,
         NEW pick, Picks(pick, D), NEW step, StaysIn(step, D, A)
  PROVE  \E g \in [SUBSET D -> A] : Folds(g, D, base, pick, step)
<1> DEFINE Small(n) == {s \in SUBSET D : Cardinality(s) <= n}
           FoldsOn(g, S) == \A s \in S :
             g[s] = IF s = {} THEN base
                              ELSE step[<<pick[s], g[s \ {pick[s]}]>>]
           T == {n \in Nat : \E g \in [Small(n) -> A] : FoldsOn(g, Small(n))}
<1>1. \A s \in SUBSET D : IsFiniteSet(s) /\ Cardinality(s) \in Nat
  BY FS_Subset, FS_CardinalityType
<1>2. ASSUME NEW s \in SUBSET D, s # {}
      PROVE  /\ s \ {pick[s]} \in SUBSET D
             /\ pick[s] \in D
             /\ Cardinality(s \ {pick[s]}) = Cardinality(s) - 1
  BY <1>1, <1>2, FS_RemoveElement DEF Picks
<1>3. 0 \in T
  <2>1. \A s \in Small(0) : s = {}
    BY <1>1, FS_EmptySet
  <2>2. [s \in Small(0) |-> base] \in [Small(0) -> A]
    OBVIOUS
  <2>3. FoldsOn([s \in Small(0) |-> base], Small(0))
    BY <2>1
  <2>. QED
    BY <2>2, <2>3
<1>4. ASSUME NEW n \in Nat, n \in T
      PROVE  n + 1 \in T
  <2>1. PICK g \in [Small(n) -> A] : FoldsOn(g, Small(n))
    BY <1>4
  <2> DEFINE rest(s) == s \ {pick[s]}
             h == [s \in Small(n + 1) |->
                     IF s = {} THEN base ELSE step[<<pick[s], g[rest(s)]>>]]
  <2>2. ASSUME NEW s \in Small(n + 1), s # {}
        PROVE  rest(s) \in Small(n) /\ pick[s] \in D
    BY <1>1, <1>2, <2>2
  <2>3. \A s \in Small(n) : s \in Small(n + 1)
    BY <1>1
  <2>4. \A s \in Small(n) : h[s] = g[s]
    BY <2>1, <2>3
  <2>5. ASSUME NEW s \in Small(n + 1)
        PROVE  h[s] \in A
    <3>1. CASE s = {}
      BY <3>1
    <3>2. CASE s # {}
      <4>1. g[rest(s)] \in A /\ pick[s] \in D
        BY <2>2, <3>2
      <4>2. h[s] = step[<<pick[s], g[rest(s)]>>]
        BY <3>2
      <4>. QED
        BY <4>1, <4>2 DEF StaysIn
    <3>. QED
      BY <3>1, <3>2
  <2>6. h \in [Small(n + 1) -> A]
    BY <2>5
  <2>7. FoldsOn(h, Small(n + 1))
    BY <2>2, <2>4
  <2>. HIDE DEF h, Small, FoldsOn
  <2>. QED
    BY <2>6, <2>7
<1>5. \A n \in Nat : n \in T
  <2>. HIDE DEF T
  <2>. QED  BY <1>3, <1>4, Induction
<1>6. Small(Cardinality(D)) = SUBSET D
  BY <1>1, FS_Subset, FS_CardinalityType
<1>7. Cardinality(D) \in T
  BY <1>5, FS_CardinalityType
<1>. QED
  BY <1>6, <1>7 DEF Folds
-----------------------------------------------------------------------------
(***************************************************************************)
(* Folds over a sequence, from left to right: the element taken out of a   *)
(* set of positions is the last one.                                       *)
(***************************************************************************)

LEMMA LastPosition ==
  ASSUME NEW n \in Nat, NEW s \in SUBSET (1 .. n), s # {}
  PROVE  Max(s) \in s
<1> DEFINE T == {k \in Nat : \A r \in SUBSET (1 .. k) :
                   r # {} => \E x \in r : \A y \in r : x >= y}
<1>1. 0 \in T
  <2>1. 1 .. 0 = {}
    OBVIOUS
  <2>. QED
    BY <2>1
<1>2. ASSUME NEW k \in Nat, k \in T
      PROVE  k + 1 \in T
  <2>1. ASSUME NEW r \in SUBSET (1 .. k + 1), r # {}
        PROVE  \E x \in r : \A y \in r : x >= y
    <3>1. CASE k + 1 \in r
      BY <3>1
    <3>2. CASE k + 1 \notin r
      <4>1. r \in SUBSET (1 .. k)
        BY <3>2
      <4>. QED
        BY <1>2, <2>1, <4>1
    <3>. QED
      BY <3>1, <3>2
  <2>. QED
    BY <2>1
<1>3. n \in T
  <2>. HIDE DEF T
  <2>. QED  BY <1>1, <1>2, Induction
<1>. QED
  BY <1>3 DEF Max

LEMMA LastOfInterval ==
  ASSUME NEW n \in Nat, NEW k \in 1 .. n
  PROVE  /\ 1 .. k \in SUBSET (1 .. n)
         /\ 1 .. k # {}
         /\ Max(1 .. k) = k
         /\ (1 .. k) \ {k} = 1 .. (k - 1)
BY DEF Max

LeftFolds(g, n, base, step) ==
  \A s \in SUBSET (1 .. n) :
    g[s] = IF s = {} THEN base ELSE step[<<Max(s), g[s \ {Max(s)}]>>]

(* FoldLeft's recursive function exists, if every step stays in A.         *)
LEMMA LeftFoldExists ==
  ASSUME NEW n \in Nat, NEW A, NEW base \in A,
         NEW step, StaysIn(step, 1 .. n, A)
  PROVE  \E g \in [SUBSET (1 .. n) -> A] : LeftFolds(g, n, base, step)
<1> DEFINE pick == [s \in SUBSET (1 .. n) |-> Max(s)]
<1>1. IsFiniteSet(1 .. n)
  BY FS_Interval
<1>2. Picks(pick, 1 .. n)
  BY LastPosition DEF Picks
<1>3. \A s \in SUBSET (1 .. n) : pick[s] = Max(s)
  OBVIOUS
<1>. HIDE DEF pick
<1>4. \E g \in [SUBSET (1 .. n) -> A] : Folds(g, 1 .. n, base, pick, step)
  BY <1>1, <1>2, FoldExists
<1>. QED
  BY <1>3, <1>4, Zenon DEF Folds, LeftFolds

(* The results of the fold, one more element each time.                    *)
Accumulates(acc, n, A, base, step) ==
  /\ acc \in [0 .. n -> A]
  /\ acc[0] = base
  /\ \A k \in 1 .. n : acc[k] = step[<<k, acc[k - 1]>>]

(* What iter computes, as far as its own results are in A.                 *)
LeftFoldsIn(iter, n, A, base, step) ==
  \A s \in SUBSET (1 .. n) :
    /\ s = {} => iter[s] = base
    /\ s # {} /\ iter[s \ {Max(s)}] \in A =>
         iter[s] = step[<<Max(s), iter[s \ {Max(s)}]>>]

LEMMA LeftFoldAccumulates ==
  ASSUME NEW n \in Nat, NEW A, NEW base \in A,
         NEW step, StaysIn(step, 1 .. n, A),
         NEW iter, LeftFoldsIn(iter, n, A, base, step)
  PROVE  \E acc : Accumulates(acc, n, A, base, step) /\ acc[n] = iter[1 .. n]
<1> DEFINE acc == [k \in 0 .. n |-> iter[1 .. k]]
           T == {k \in 0 .. n : acc[k] \in A}
<1>1. acc[0] = base
  <2>1. 1 .. 0 = {}
    OBVIOUS
  <2>2. iter[{}] = base
    BY DEF LeftFoldsIn
  <2>. QED
    BY <2>1, <2>2
<1>2. ASSUME NEW k \in 1 .. n, acc[k - 1] \in A
      PROVE  acc[k] = step[<<k, acc[k - 1]>>]
  <2>1. acc[k] = iter[1 .. k] /\ acc[k - 1] = iter[1 .. (k - 1)]
    OBVIOUS
  <2>. HIDE DEF acc
  <2>2. /\ 1 .. k \in SUBSET (1 .. n) /\ 1 .. k # {}
        /\ Max(1 .. k) = k /\ (1 .. k) \ {k} = 1 .. (k - 1)
    BY LastOfInterval
  <2>3. iter[(1 .. k) \ {Max(1 .. k)}] \in A
    BY <1>2, <2>1, <2>2
  <2>4. iter[1 .. k] = step[<<Max(1 .. k), iter[(1 .. k) \ {Max(1 .. k)}]>>]
    BY <2>2, <2>3, Zenon DEF LeftFoldsIn
  <2>. QED
    BY <2>1, <2>2, <2>4
<1>. HIDE DEF acc
<1>3. \A k \in 0 .. n : k \in T
  <2>1. 0 \in T
    BY <1>1
  <2>2. ASSUME NEW k \in 1 .. n, k - 1 \in T
        PROVE  k \in T
    <3>1. acc[k] = step[<<k, acc[k - 1]>>] /\ acc[k - 1] \in A
      BY <1>2, <2>2
    <3>. QED
      BY <3>1 DEF StaysIn
  <2>. HIDE DEF T
  <2>. QED
    BY <2>1, <2>2, InductionTo
<1>4. acc \in [0 .. n -> A] /\ acc[n] = iter[1 .. n]
  BY <1>3 DEF acc
<1>. QED
  BY <1>1, <1>2, <1>3, <1>4 DEF Accumulates

-----------------------------------------------------------------------------
(***************************************************************************)
(* Sums over a function.                                                   *)
(***************************************************************************)

(* What holds of the empty set, and of a set when it holds without the     *)
(* element picked from it, holds of every subset.                          *)
LEMMA SubsetInduction ==
  ASSUME NEW D, IsFiniteSet(D), NEW pick, Picks(pick, D),
         NEW T, {} \in T,
         \A s \in SUBSET D : s # {} /\ s \ {pick[s]} \in T => s \in T
  PROVE  \A s \in SUBSET D : s \in T
<1> DEFINE U == {n \in Nat : \A s \in SUBSET D : Cardinality(s) <= n => s \in T}
<1>1. \A s \in SUBSET D : IsFiniteSet(s) /\ Cardinality(s) \in Nat
  BY FS_Subset, FS_CardinalityType
<1>2. 0 \in U
  <2>1. ASSUME NEW s \in SUBSET D, Cardinality(s) <= 0
        PROVE  s \in T
    <3>1. Cardinality(s) = 0 /\ IsFiniteSet(s)
      BY <1>1, <2>1
    <3>. QED
      BY <3>1, FS_EmptySet
  <2>. QED
    BY <2>1
<1>3. ASSUME NEW n \in Nat, n \in U
      PROVE  n + 1 \in U
  <2>1. ASSUME NEW s \in SUBSET D, Cardinality(s) <= n + 1, s # {}
        PROVE  s \in T
    <3>1. pick[s] \in s
      BY <2>1 DEF Picks
    <3>2. Cardinality(s \ {pick[s]}) = Cardinality(s) - 1
      BY <1>1, <3>1, FS_RemoveElement
    <3>3. s \ {pick[s]} \in T
      BY <1>1, <1>3, <2>1, <3>2
    <3>. QED
      BY <2>1, <3>3
  <2>. QED
    BY <2>1
<1>4. \A n \in Nat : n \in U
  <2>. HIDE DEF U
  <2>. QED  BY <1>2, <1>3, Induction
<1>. QED
  BY <1>1, <1>4

Chosen(D) == [s \in SUBSET D |-> CHOOSE x \in s : TRUE]

LEMMA ChosenPicks ==
  ASSUME NEW D
  PROVE  /\ Picks(Chosen(D), D)
         /\ \A s \in SUBSET D : Chosen(D)[s] = CHOOSE x \in s : TRUE
BY DEF Picks, Chosen

(* The partial sums of fun, by set of indices.                             *)
Sums(g, fun, D) ==
  /\ g \in [SUBSET D -> Nat]
  /\ g[{}] = 0
  /\ \A s \in SUBSET D : s # {} =>
       g[s] = fun[Chosen(D)[s]] + g[s \ {Chosen(D)[s]}]

LEMMA SumExists ==
  ASSUME NEW D, IsFiniteSet(D), NEW fun \in [D -> Nat]
  PROVE  \E g : Sums(g, fun, D) /\ g[D] = SumFunction(fun)
<1> DEFINE step == [e \in D \X Nat |-> fun[e[1]] + e[2]]
           pick == Chosen(D)
           Iterates(h) == h = [s \in SUBSET D |->
             IF s = {} THEN 0
             ELSE fun[CHOOSE x \in s : TRUE] + h[s \ {CHOOSE x \in s : TRUE}]]
           iter == CHOOSE h : Iterates(h)
<1>1. SumFunction(fun) = iter[D]
  <2>1. DOMAIN fun = D
    OBVIOUS
  <2>. QED
    BY <2>1 DEF SumFunction, SumFunctionOnSet, FoldFunctionOnSet, MapThenFoldSet
<1>2. \A x \in D, a \in Nat : step[<<x, a>>] = fun[x] + a
  OBVIOUS
<1>3. \A x \in D, a \in Nat : fun[x] + a \in Nat
  OBVIOUS
<1>4. Picks(pick, D) /\ \A s \in SUBSET D : pick[s] = CHOOSE x \in s : TRUE
  BY ChosenPicks
<1>. HIDE DEF step, pick
<1>5. StaysIn(step, D, Nat)
  BY <1>2, <1>3 DEF StaysIn
<1>6. Iterates(iter)
  <2>1. PICK g \in [SUBSET D -> Nat] : Folds(g, D, 0, pick, step)
    <3> DEFINE A == Nat
               base == 0
    <3>1. /\ IsFiniteSet(D) /\ base \in A
          /\ Picks(pick, D) /\ StaysIn(step, D, A)
      BY <1>4, <1>5
    <3>. HIDE DEF A, base
    <3>2. \E g \in [SUBSET D -> A] : Folds(g, D, base, pick, step)
      BY <3>1, FoldExists
    <3>. QED
      BY <3>2 DEF A, base
  <2>2. ASSUME NEW s \in SUBSET D, s # {}
        PROVE  g[s] = fun[pick[s]] + g[s \ {pick[s]}]
    <3>1. pick[s] \in D /\ s \ {pick[s]} \in SUBSET D
      BY <1>4, <2>2 DEF Picks
    <3>. QED
      BY <1>2, <2>1, <2>2, <3>1 DEF Folds
  <2>3. Iterates(g)
    BY <1>4, <2>1, <2>2 DEF Folds
  <2>. QED
    BY <2>3
<1>7. /\ iter[{}] = 0
      /\ \A s \in SUBSET D : s # {} =>
           iter[s] = fun[pick[s]] + iter[s \ {pick[s]}]
  BY <1>4, <1>6
<1>8. DOMAIN iter = SUBSET D /\ iter = [s \in DOMAIN iter |-> iter[s]]
  BY <1>6
<1>. HIDE DEF iter, Iterates
<1>9. \A s \in SUBSET D : s \in {r \in SUBSET D : iter[r] \in Nat}
  <2> DEFINE T == {r \in SUBSET D : iter[r] \in Nat}
  <2>1. {} \in T
    BY <1>7
  <2>2. ASSUME NEW s \in SUBSET D, s # {}, s \ {pick[s]} \in T
        PROVE  s \in T
    <3>1. pick[s] \in D
      BY <1>4, <2>2 DEF Picks
    <3>2. fun[pick[s]] \in Nat /\ iter[s \ {pick[s]}] \in Nat
      BY <2>2, <3>1
    <3>3. iter[s] = fun[pick[s]] + iter[s \ {pick[s]}]
      BY <1>7, <2>2
    <3>4. iter[s] \in Nat
      BY <3>2, <3>3
    <3>. QED
      BY <3>4
  <2>. HIDE DEF T
  <2>3. \A s \in SUBSET D : s \in T
    BY <1>4, <2>1, <2>2, SubsetInduction
  <2>. QED
    BY <2>3 DEF T
<1>10. Sums(iter, fun, D)
  BY <1>7, <1>8, <1>9 DEF Sums, pick
<1>. QED
  BY <1>1, <1>10

(* A sum is a number, and grows with every summand.                        *)
LEMMA SumMonotone ==
  ASSUME NEW D, IsFiniteSet(D), NEW f \in [D -> Nat], NEW h \in [D -> Nat],
         \A x \in D : f[x] <= h[x]
  PROVE  /\ SumFunction(f) \in Nat /\ SumFunction(h) \in Nat
         /\ SumFunction(f) <= SumFunction(h)
<1>1. PICK a : Sums(a, f, D) /\ a[D] = SumFunction(f)
  BY SumExists
<1>2. PICK b : Sums(b, h, D) /\ b[D] = SumFunction(h)
  BY SumExists
<1> DEFINE T == {s \in SUBSET D : a[s] <= b[s]}
<1>3. {} \in T
  BY <1>1, <1>2 DEF Sums
<1>4. ASSUME NEW s \in SUBSET D, s # {}, s \ {Chosen(D)[s]} \in T
      PROVE  s \in T
  <2>1. PICK x \in D, r \in SUBSET D : x = Chosen(D)[s] /\ r = s \ {x}
    BY <1>4, ChosenPicks DEF Picks
  <2>2. a[s] = f[x] + a[r] /\ b[s] = h[x] + b[r]
    BY <1>1, <1>2, <1>4, <2>1 DEF Sums
  <2>3. a[r] \in Nat /\ b[r] \in Nat /\ a[r] <= b[r]
    BY <1>1, <1>2, <1>4, <2>1 DEF Sums
  <2>4. f[x] \in Nat /\ h[x] \in Nat /\ f[x] <= h[x]
    OBVIOUS
  <2>. QED
    BY <2>2, <2>3, <2>4
<1>5. \A s \in SUBSET D : s \in T
  <2>1. Picks(Chosen(D), D)
    BY ChosenPicks
  <2>. HIDE DEF T
  <2>. QED
    BY <1>3, <1>4, <2>1, SubsetInduction
<1>. QED
  BY <1>1, <1>2, <1>5 DEF Sums

(* Equal summands multiply.                                                *)
LEMMA SumOfEquals ==
  ASSUME NEW D, IsFiniteSet(D), NEW k \in Nat, NEW f \in [D -> Nat],
         \A x \in D : f[x] = k
  PROVE  SumFunction(f) = k * Cardinality(D)
<1>1. PICK a : Sums(a, f, D) /\ a[D] = SumFunction(f)
  BY SumExists
<1> DEFINE T == {s \in SUBSET D : a[s] = k * Cardinality(s)}
<1>2. {} \in T
  BY <1>1, FS_EmptySet DEF Sums
<1>3. ASSUME NEW s \in SUBSET D, s # {}, s \ {Chosen(D)[s]} \in T
      PROVE  s \in T
  <2>1. PICK x \in D, r \in SUBSET D : x = Chosen(D)[s] /\ r = s \ {x} /\ x \in s
    BY <1>3, ChosenPicks DEF Picks
  <2>2. a[s] = k + a[r] /\ a[r] = k * Cardinality(r)
    BY <1>1, <1>3, <2>1 DEF Sums
  <2>3. PICK n \in Nat : n = Cardinality(r) /\ Cardinality(s) = n + 1
    <3>1. IsFiniteSet(s) /\ IsFiniteSet(r)
      BY FS_Subset
    <3>2. Cardinality(r) = Cardinality(s) - 1 /\ Cardinality(s) \in Nat
      BY <2>1, <3>1, FS_RemoveElement, FS_CardinalityType
    <3>. QED
      BY <3>1, <3>2, FS_CardinalityType
  <2>4. k + k * n = k * (n + 1)
    OBVIOUS
  <2>. QED
    BY <2>2, <2>3, <2>4
<1>4. \A s \in SUBSET D : s \in T
  <2>1. Picks(Chosen(D), D)
    BY ChosenPicks
  <2>. HIDE DEF T
  <2>. QED
    BY <1>2, <1>3, <2>1, SubsetInduction
<1>. QED
  BY <1>1, <1>4

-----------------------------------------------------------------------------
(***************************************************************************)
(* Sequences of no matter what.                                            *)
(***************************************************************************)

IsList(list) == list \in Seq(ToSet(list))

(* A sequence over any set is a list.                                      *)
LEMMA ListsAreLists ==
  ASSUME NEW S, NEW list \in Seq(S)
  PROVE  IsList(list)
<1>1. list \in [1 .. Len(list) -> S] /\ Len(list) \in Nat /\ DOMAIN list = 1 .. Len(list)
  OBVIOUS
<1>2. list \in [1 .. Len(list) -> ToSet(list)]
  BY <1>1 DEF ToSet
<1>. QED
  BY <1>1, <1>2, SeqDef DEF IsList

(* A list's positions.                                                     *)
LEMMA ListFacts ==
  ASSUME NEW list, IsList(list)
  PROVE  /\ Len(list) \in Nat /\ DOMAIN list = 1 .. Len(list)
         /\ list \in Seq(ToSet(list))
BY DEF IsList

(* A function on 1 .. n is a list.                                         *)
LEMMA FunctionsAreLists ==
  ASSUME NEW n \in Nat, NEW f, DOMAIN f = 1 .. n, f = [i \in 1 .. n |-> f[i]]
  PROVE  IsList(f) /\ Len(f) = n
<1>1. f \in [1 .. n -> ToSet(f)]
  BY DEF ToSet
<1>2. f \in Seq(ToSet(f))
  BY <1>1, SeqDef
<1>. QED
  BY <1>2 DEF IsList

-----------------------------------------------------------------------------
(***************************************************************************)
(* The elements of a sequence at some places.                              *)
(***************************************************************************)

(* place holds these places, as far as n, in their order.                  *)
Enumerates(place, n, places) ==
  /\ place \in Seq(1 .. n)
  /\ \A k \in 1 .. Len(place) : place[k] \in places
  /\ \A j, k \in 1 .. Len(place) : j < k => place[j] < place[k]
  /\ \A i \in 1 .. n : i \in places => \E k \in 1 .. Len(place) : place[k] = i

LEMMA EnumerationGrows ==
  ASSUME NEW n \in Nat \ {0}, NEW places, NEW place, Enumerates(place, n - 1, places)
  PROVE  /\ n \in places => Enumerates(Append(place, n), n, places)
         /\ n \notin places => Enumerates(place, n, places)
<1>1. place \in Seq(1 .. n - 1) /\ Len(place) \in Nat
  BY DEF Enumerates
<1>2. place \in Seq(1 .. n)
  <2>1. 1 .. n - 1 \subseteq 1 .. n
    OBVIOUS
  <2>. QED
    BY <1>1, <2>1
<1>3. \A k \in 1 .. Len(place) : place[k] \in 1 .. n - 1
  BY <1>1
<1>4. CASE n \in places
  <2> DEFINE longer == Append(place, n)
  <2>1. /\ longer \in Seq(1 .. n) /\ Len(longer) = Len(place) + 1
        /\ \A k \in 1 .. Len(place) : longer[k] = place[k]
        /\ longer[Len(longer)] = n
    BY <1>1, <1>2
  <2>. HIDE DEF longer
  <2>2. \A k \in 1 .. Len(longer) : k \in 1 .. Len(place) \/ k = Len(longer)
    BY <1>1, <2>1
  <2>3. \A k \in 1 .. Len(longer) : longer[k] \in places
    BY <1>4, <2>1, <2>2 DEF Enumerates
  <2>4. ASSUME NEW j \in 1 .. Len(longer), NEW k \in 1 .. Len(longer), j < k
        PROVE  longer[j] < longer[k]
    <3>1. j \in 1 .. Len(place)
      BY <1>1, <2>1, <2>4
    <3>2. CASE k \in 1 .. Len(place)
      BY <2>1, <2>4, <3>1, <3>2 DEF Enumerates
    <3>3. CASE k = Len(longer)
      BY <1>3, <2>1, <3>1, <3>3
    <3>. QED
      BY <2>2, <3>2, <3>3
  <2>5. ASSUME NEW i \in 1 .. n, i \in places
        PROVE  \E k \in 1 .. Len(longer) : longer[k] = i
    <3>1. CASE i = n
      BY <1>1, <2>1, <3>1
    <3>2. CASE i \in 1 .. n - 1
      <4>1. PICK k \in 1 .. Len(place) : place[k] = i
        BY <2>5, <3>2 DEF Enumerates
      <4>2. k \in 1 .. Len(longer)
        BY <1>1, <2>1
      <4>. QED
        BY <2>1, <4>1, <4>2
    <3>. QED
      BY <3>1, <3>2
  <2>6. Enumerates(longer, n, places)
    BY <2>1, <2>3, <2>4, <2>5 DEF Enumerates
  <2>. QED
    BY <1>4, <2>6 DEF longer
<1>5. CASE n \notin places
  <2>1. \A i \in 1 .. n : i \in places => i \in 1 .. n - 1
    BY <1>5
  <2>2. Enumerates(place, n, places)
    BY <1>2, <2>1 DEF Enumerates
  <2>. QED
    BY <1>5, <2>2
<1>. QED
  BY <1>4, <1>5

(* The recursive function behind ElementsAt.                               *)
Selects(upTo, m, seq, places) ==
  upTo = [n \in 0 .. m |->
            IF n = 0 THEN << >>
            ELSE IF n \in places THEN Append(upTo[n - 1], seq[n]) ELSE upTo[n - 1]]

LEMMA SelectionExists ==
  ASSUME NEW seq, NEW places
  PROVE  \A m \in Nat : \E upTo : Selects(upTo, m, seq, places)
<1> DEFINE T == {m \in Nat : \E upTo : Selects(upTo, m, seq, places)}
<1>1. 0 \in T
  <2>1. Selects([n \in 0 .. 0 |-> << >>], 0, seq, places)
    BY DEF Selects
  <2>. QED
    BY <2>1
<1>2. ASSUME NEW m \in Nat, m \in T
      PROVE  m + 1 \in T
  <2>1. PICK f : Selects(f, m, seq, places)
    BY <1>2
  <2> DEFINE g == [n \in 0 .. m + 1 |->
                     IF n = 0 THEN << >>
                     ELSE IF n \in places THEN Append(f[n - 1], seq[n]) ELSE f[n - 1]]
  <2>2. ASSUME NEW n \in 0 .. m
        PROVE  n \in 0 .. m + 1 /\ g[n] = f[n]
    <3>1. n \in 0 .. m + 1
      OBVIOUS
    <3>2. f[n] = IF n = 0 THEN << >>
                 ELSE IF n \in places THEN Append(f[n - 1], seq[n]) ELSE f[n - 1]
      BY <2>1, Zenon DEF Selects
    <3>. QED
      BY <3>1, <3>2
  <2>3. \A n \in 0 .. m + 1 : n # 0 => n - 1 \in 0 .. m
    OBVIOUS
  <2>4. \A n \in 0 .. m + 1 : n # 0 => g[n - 1] = f[n - 1]
    BY <2>2, <2>3
  <2>5. Selects(g, m + 1, seq, places)
    BY <2>4 DEF Selects
  <2>. QED
    BY <2>5
<1>3. \A m \in Nat : m \in T
  <2>. HIDE DEF T
  <2>. QED  BY <1>1, <1>2, Induction
<1>. QED
  BY <1>3

(* They are elements of the sequence, each from its place.                 *)
LEMMA ElementsAtPlaces ==
  ASSUME NEW S, NEW seq \in Seq(S), NEW places
  PROVE  /\ ElementsAt(seq, places) \in Seq(S)
         /\ \E place :
              /\ Enumerates(place, Len(seq), places)
              /\ Len(ElementsAt(seq, places)) = Len(place)
              /\ \A k \in 1 .. Len(place) : ElementsAt(seq, places)[k] = seq[place[k]]
<1> DEFINE size == Len(seq)
           upTo == CHOOSE f : Selects(f, size, seq, places)
           Reads(place, n) ==
             /\ upTo[n] \in Seq(S) /\ Len(upTo[n]) = Len(place)
             /\ \A k \in 1 .. Len(place) : upTo[n][k] = seq[place[k]]
           T == {n \in Nat : n <= size =>
                   \E place : Enumerates(place, n, places) /\ Reads(place, n)}
<1>1. ElementsAt(seq, places) = upTo[size]
  BY DEF ElementsAt, Selects
<1>2. size \in Nat
  OBVIOUS
<1>3. Selects(upTo, size, seq, places)
  BY <1>2, SelectionExists
<1>4. \A n \in 0 .. size :
        upTo[n] = IF n = 0 THEN << >>
                  ELSE IF n \in places THEN Append(upTo[n - 1], seq[n]) ELSE upTo[n - 1]
  BY <1>3 DEF Selects
<1>5. \A n \in 1 .. size : seq[n] \in S
  OBVIOUS
<1>. HIDE DEF upTo, size
<1>6. 0 \in T
  <2>1. upTo[0] = << >>
    BY <1>2, <1>4
  <2>2. Enumerates(<< >>, 0, places)
    BY DEF Enumerates
  <2>3. Reads(<< >>, 0)
    BY <2>1
  <2>. QED
    BY <2>2, <2>3
<1>7. ASSUME NEW n \in Nat, n \in T
      PROVE  n + 1 \in T
  <2>. SUFFICES ASSUME n + 1 <= size
                PROVE  \E place : Enumerates(place, n + 1, places) /\ Reads(place, n + 1)
    OBVIOUS
  <2>1. PICK place : Enumerates(place, n, places) /\ Reads(place, n)
    BY <1>2, <1>7
  <2>2. /\ n + 1 \in 1 .. size /\ n + 1 \in 0 .. size /\ n + 1 # 0
        /\ (n + 1) - 1 = n /\ n + 1 \in Nat \ {0}
    BY <1>2
  <2>3. /\ n + 1 \in places => Enumerates(Append(place, n + 1), n + 1, places)
        /\ n + 1 \notin places => Enumerates(place, n + 1, places)
    BY <2>1, <2>2, EnumerationGrows
  <2>4. upTo[n + 1] = IF n + 1 \in places THEN Append(upTo[n], seq[n + 1]) ELSE upTo[n]
    BY <1>4, <2>2
  <2>5. place \in Seq(1 .. n) /\ Len(place) \in Nat
    BY <2>1 DEF Enumerates
  <2>6. CASE n + 1 \in places
    <3> DEFINE longer == Append(place, n + 1)
    <3>1. /\ Len(longer) = Len(place) + 1 /\ longer[Len(place) + 1] = n + 1
          /\ \A k \in 1 .. Len(place) : longer[k] = place[k]
      <4>1. place \in Seq(Nat) /\ n + 1 \in Nat
        <5>1. 1 .. n \subseteq Nat
          OBVIOUS
        <5>. QED
          BY <2>5, <5>1
      <4>. QED
        BY <4>1
    <3>2. upTo[n + 1] = Append(upTo[n], seq[n + 1]) /\ seq[n + 1] \in S
      BY <1>5, <2>2, <2>4, <2>6
    <3>3. upTo[n] \in Seq(S) /\ Len(upTo[n]) = Len(place)
      BY <2>1
    <3>4. /\ upTo[n + 1] \in Seq(S) /\ Len(upTo[n + 1]) = Len(place) + 1
          /\ \A k \in 1 .. Len(place) : upTo[n + 1][k] = upTo[n][k]
          /\ upTo[n + 1][Len(place) + 1] = seq[n + 1]
      BY <3>2, <3>3
    <3>. HIDE DEF longer
    <3>5. Reads(longer, n + 1)
      <4>1. Len(upTo[n + 1]) = Len(longer)
        BY <3>1, <3>4
      <4>2. \A k \in 1 .. Len(longer) : k \in 1 .. Len(place) \/ k = Len(place) + 1
        BY <2>5, <3>1
      <4>3. \A k \in 1 .. Len(longer) : upTo[n + 1][k] = seq[longer[k]]
        BY <2>1, <3>1, <3>4, <4>2
      <4>. QED
        BY <3>4, <4>1, <4>3
    <3>6. Enumerates(longer, n + 1, places)
      BY <2>3, <2>6 DEF longer
    <3>. QED
      BY <3>5, <3>6
  <2>7. CASE n + 1 \notin places
    BY <2>1, <2>3, <2>4, <2>7
  <2>. QED
    BY <2>6, <2>7
<1>8. size \in T
  <2>1. \A n \in Nat : n \in T
    <3>. HIDE DEF T
    <3>. QED  BY <1>6, <1>7, Induction
  <2>. QED
    BY <1>2, <2>1
<1>9. PICK place : Enumerates(place, size, places) /\ Reads(place, size)
  BY <1>2, <1>8
<1>. QED
  BY <1>1, <1>9 DEF size

(* The recursive function behind ElementsAt gives what it selects.          *)
LEMMA ElementsAtSelects ==
  ASSUME NEW seq, Len(seq) \in Nat, NEW places
  PROVE  \E upTo : /\ Selects(upTo, Len(seq), seq, places)
                   /\ ElementsAt(seq, places) = upTo[Len(seq)]
<1> DEFINE upTo == CHOOSE f : Selects(f, Len(seq), seq, places)
<1>1. Selects(upTo, Len(seq), seq, places)
  BY SelectionExists
<1>2. ElementsAt(seq, places) = upTo[Len(seq)]
  BY DEF ElementsAt, Selects
<1>. QED
  BY <1>1, <1>2

(* A place more is an element more, at the end.                            *)
LEMMA ElementsAtGrows ==
  ASSUME NEW seq, Len(seq) \in Nat, NEW places, NEW n \in 1 .. Len(seq)
  PROVE  ElementsAt(seq, places \cap (1 .. n)) =
           IF n \in places
           THEN Append(ElementsAt(seq, places \cap (1 .. n - 1)), seq[n])
           ELSE ElementsAt(seq, places \cap (1 .. n - 1))
<1> DEFINE size == Len(seq)
           more == places \cap (1 .. n)
           fewer == places \cap (1 .. n - 1)
<1>1. PICK f : Selects(f, size, seq, more) /\ ElementsAt(seq, more) = f[size]
  BY ElementsAtSelects
<1>2. PICK g : Selects(g, size, seq, fewer) /\ ElementsAt(seq, fewer) = g[size]
  BY ElementsAtSelects
<1>3. /\ f[0] = << >>
      /\ \A m \in 1 .. size : f[m] = IF m \in more THEN Append(f[m - 1], seq[m]) ELSE f[m - 1]
      /\ g[0] = << >>
      /\ \A m \in 1 .. size : g[m] = IF m \in fewer THEN Append(g[m - 1], seq[m]) ELSE g[m - 1]
  <2>1. 0 \in 0 .. size /\ \A m \in 1 .. size : m \in 0 .. size /\ m # 0
    OBVIOUS
  <2>. HIDE DEF more, fewer, size
  <2>2. /\ \A m \in 0 .. size : f[m] = IF m = 0 THEN << >>
             ELSE IF m \in more THEN Append(f[m - 1], seq[m]) ELSE f[m - 1]
        /\ \A m \in 0 .. size : g[m] = IF m = 0 THEN << >>
             ELSE IF m \in fewer THEN Append(g[m - 1], seq[m]) ELSE g[m - 1]
    BY <1>1, <1>2, Zenon DEF Selects
  <2>. QED
    BY <2>1, <2>2
<1>4. \A m \in 0 .. n - 1 : f[m] = g[m]
  <2> DEFINE T == {m \in 0 .. n - 1 : f[m] = g[m]}
  <2>1. 0 \in T
    BY <1>3
  <2>2. ASSUME NEW m \in 1 .. n - 1, m - 1 \in T
        PROVE  m \in T
    <3>1. m \in 1 .. size /\ (m \in more <=> m \in fewer)
      OBVIOUS
    <3>. QED
      BY <1>3, <2>2, <3>1
  <2>. HIDE DEF T
  <2>3. n - 1 \in Nat
    OBVIOUS
  <2>4. \A m \in 0 .. n - 1 : m \in T
    BY <2>1, <2>2, <2>3, InductionTo
  <2>. QED
    BY <2>4 DEF T
<1>5. f[n] = IF n \in places THEN Append(g[n - 1], seq[n]) ELSE g[n - 1]
  <2>1. n \in 1 .. size /\ n - 1 \in 0 .. n - 1 /\ (n \in more <=> n \in places)
    OBVIOUS
  <2>. QED
    BY <1>3, <1>4, <2>1
<1>6. \A m \in n .. size : f[m] = f[n] /\ g[m] = g[n - 1]
  <2> DEFINE T == {d \in 0 .. size - n : f[n + d] = f[n] /\ g[n + d] = g[n - 1]}
  <2>1. 0 \in T
    <3>1. n \in 1 .. size /\ n \notin fewer /\ 0 \in 0 .. size - n /\ n + 0 = n
      OBVIOUS
    <3>. QED
      BY <1>3, <3>1
  <2>2. ASSUME NEW d \in 1 .. size - n, d - 1 \in T
        PROVE  d \in T
    <3>1. /\ n + d \in 1 .. size /\ n + d \notin fewer /\ n + d \notin more
          /\ n + (d - 1) = (n + d) - 1 /\ d \in 0 .. size - n
      OBVIOUS
    <3>. HIDE DEF more, fewer
    <3>. QED
      BY <1>3, <2>2, <3>1
  <2>. HIDE DEF T
  <2>3. size - n \in Nat
    OBVIOUS
  <2>4. \A d \in 0 .. size - n : d \in T
    BY <2>1, <2>2, <2>3, InductionTo
  <2>5. ASSUME NEW m \in n .. size
        PROVE  f[m] = f[n] /\ g[m] = g[n - 1]
    <3>1. m - n \in 0 .. size - n /\ n + (m - n) = m
      OBVIOUS
    <3>. QED
      BY <2>4, <3>1 DEF T
  <2>. QED
    BY <2>5
<1>7. size \in n .. size
  OBVIOUS
<1>. QED
  BY <1>1, <1>2, <1>5, <1>6, <1>7

LEMMA ElementsAtNoPlace ==
  ASSUME NEW seq, Len(seq) \in Nat
  PROVE  ElementsAt(seq, {}) = << >>
<1> DEFINE size == Len(seq)
<1>1. PICK f : Selects(f, size, seq, {}) /\ ElementsAt(seq, {}) = f[size]
  BY ElementsAtSelects
<1>2. f[0] = << >> /\ \A m \in 1 .. size : f[m] = f[m - 1]
  <2>1. 0 \in 0 .. size /\ \A m \in 1 .. size : m \in 0 .. size /\ m # 0
    OBVIOUS
  <2>. HIDE DEF size
  <2>2. \A m \in 0 .. size : f[m] = IF m = 0 THEN << >> ELSE f[m - 1]
    BY <1>1, Zenon DEF Selects
  <2>. QED
    BY <2>1, <2>2
<1> DEFINE T == {m \in 0 .. size : f[m] = << >>}
<1>3. 0 \in T
  BY <1>2
<1>4. ASSUME NEW m \in 1 .. size, m - 1 \in T PROVE m \in T
  BY <1>2, <1>4
<1>5. size \in Nat /\ size \in 0 .. size
  OBVIOUS
<1>. HIDE DEF T, size
<1>6. \A m \in 0 .. size : m \in T
  BY <1>3, <1>4, <1>5, InductionTo
<1>. QED
  BY <1>1, <1>5, <1>6 DEF T

(* The elements at these places are in bijection with the places.          *)
LEMMA ElementsAreAtPlaces ==
  ASSUME NEW list, IsList(list), NEW places \in SUBSET DOMAIN list
  PROVE  LET chosen == ElementsAt(list, places)
         IN  /\ IsList(chosen) /\ IsFiniteSet(places)
             /\ Cardinality(places) = Len(chosen)
             /\ \E place \in Bijection(1 .. Len(chosen), places) :
                  \A k \in 1 .. Len(chosen) : chosen[k] = list[place[k]]
<1> DEFINE chosen == ElementsAt(list, places)
           size == Len(chosen)
<1>1. list \in Seq(ToSet(list)) /\ DOMAIN list = 1 .. Len(list) /\ Len(list) \in Nat
  BY ListFacts
<1>2. /\ chosen \in Seq(ToSet(list))
      /\ \E place : /\ Enumerates(place, Len(list), places)
                    /\ size = Len(place)
                    /\ \A k \in 1 .. Len(place) : chosen[k] = list[place[k]]
  BY <1>1, ElementsAtPlaces
<1>3. IsList(chosen) /\ size \in Nat
  BY <1>2, ListsAreLists
<1>4. PICK place : /\ Enumerates(place, Len(list), places)
                   /\ size = Len(place)
                   /\ \A k \in 1 .. Len(place) : chosen[k] = list[place[k]]
  BY <1>2
<1>. HIDE DEF chosen
<1>5. place \in Bijection(1 .. size, places)
  <2>1. /\ place \in [1 .. size -> places]
        /\ \A j, k \in 1 .. size : j < k => place[j] < place[k]
        /\ \A i \in places : \E k \in 1 .. size : place[k] = i
    BY <1>1, <1>4 DEF Enumerates
  <2>2. \A k \in 1 .. size : place[k] \in Int
    BY <1>1, <2>1
  <2>3. ASSUME NEW j \in 1 .. size, NEW k \in 1 .. size, place[j] = place[k]
        PROVE  j = k
    <3>1. ~(place[j] < place[k]) /\ ~(place[k] < place[j])
      BY <2>2, <2>3
    <3>. QED
      BY <2>1, <3>1
  <2>. QED
    BY <2>1, <2>3 DEF Bijection, Injection, Surjection, IsInjective
<1>6. IsFiniteSet(places) /\ Cardinality(places) = size
  <2>1. IsFiniteSet(1 .. size) /\ Cardinality(1 .. size) = size
    BY <1>3, FS_Interval
  <2>2. ExistsBijection(1 .. size, places)
    BY <1>5 DEF ExistsBijection
  <2>. QED
    BY <2>1, <2>2, FS_Bijection
<1>. QED
  BY <1>3, <1>4, <1>5, <1>6 DEF chosen
=============================================================================
