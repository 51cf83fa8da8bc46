-------------------------- MODULE CalculatorProofs --------------------------
(***************************************************************************)
(* What the calculators answer, for every input and not only those the     *)
(* runs try.  A theorem about one of them assumes that the last call was   *)
(* made with some input and answered with what the calculator computes,    *)
(* and proves of it what the runs check, or speaks of the operators the    *)
(* answer is made of; the last ones conclude what holds of the             *)
(* specification.                                                          *)
(*                                                                         *)
(* First come the facts about lists and sets that the answers are folded   *)
(* over.  A fold is the value of a function that its equation defines at   *)
(* every beginning of the list, or at every subset: that there is such a   *)
(* function is proved by induction, and what the fold computes is then     *)
(* read off, beginning by beginning.                                       *)
(***************************************************************************)
EXTENDS MCCalculators, FiniteSetTheorems, WellFoundedInduction, TLAPS

(* Induction over the natural numbers, with the set of those of which      *)
(* something is true instead of a predicate: a set that misses a number    *)
(* misses a least one.                                                     *)
LEMMA Induction ==
  ASSUME NEW A, 0 \in A, \A n \in Nat : n \in A => n + 1 \in A
  PROVE  Nat \subseteq A
<1> DEFINE R == OpToRel(<, Nat)
           T == Nat \ A
<1> SUFFICES ASSUME T # {} PROVE FALSE
  OBVIOUS
<1>1. PICK k \in T : \A m \in T : ~(<<m, k>> \in R)
  <2>1. IsWellFoundedOn(R, Nat) /\ T \subseteq Nat
    BY NatLessThanWellFounded
  <2> HIDE DEF R, T
  <2> QED
    BY <2>1, WFMin, Zenon
<1>2. k # 0 /\ k - 1 \in Nat
  OBVIOUS
<1>3. k - 1 \notin T
  <2>1. k - 1 < k
    BY <1>2
  <2>2. <<k - 1, k>> \in R
    BY <1>2, <2>1 DEF OpToRel
  <2> QED
    BY <1>1, <2>2
<1> QED
  BY <1>2, <1>3

(* The same up to a number.                                                *)
LEMMA InductionUpTo ==
  ASSUME NEW n \in Nat, NEW A, 0 \in A, \A k \in 1 .. n : k - 1 \in A => k \in A
  PROVE  0 .. n \subseteq A
<1> DEFINE B == {m \in Nat : m <= n => m \in A}
<1>1. 0 \in B
  OBVIOUS
<1>2. ASSUME NEW m \in Nat, m \in B PROVE m + 1 \in B
  <2>1. m + 1 \in 1 .. n /\ m \in A => m + 1 \in A
    <3>1. (m + 1) - 1 = m
      OBVIOUS
    <3> QED
      BY <3>1
  <2> QED
    BY <1>2, <2>1
<1> HIDE DEF B
<1>3. Nat \subseteq B
  BY <1>1, <1>2, Induction
<1> QED
  BY <1>3 DEF B

(* Of the non-empty sets of numbers up to n, Max is the greatest.          *)
LEMMA MaxIsIn ==
  ASSUME NEW n \in Nat, NEW t \in SUBSET (1 .. n), t # {}
  PROVE  Max(t) \in t /\ \A j \in t : Max(t) >= j
<1> DEFINE R == OpToRel(<, Nat)
           T == {n - i : i \in t}
<1>1. T \subseteq Nat /\ T # {}
  <2>1. \A i \in t : n - i \in Nat
    BY n \in Nat
  <2> QED
    BY <2>1
<1>2. PICK k \in T : \A m \in T : ~(<<m, k>> \in R)
  <2>1. IsWellFoundedOn(R, Nat)
    BY NatLessThanWellFounded
  <2> HIDE DEF R, T
  <2> QED
    BY <1>1, <2>1, WFMin, Zenon
<1>3. PICK i \in t : k = n - i
  OBVIOUS
<1>4. ASSUME NEW j \in t PROVE i >= j
  <2>1. n - j \in T /\ n - j \in Nat /\ k \in Nat
    BY <1>1
  <2>2. n - j < k => <<n - j, k>> \in R
    BY <2>1 DEF OpToRel
  <2>3. ~(n - j < k)
    BY <1>2, <2>1, <2>2
  <2> QED
    BY <1>3, <2>3
<1> QED
  BY <1>4 DEF Max

(* What folds are the value of: a function on the sets of S that takes one *)
(* element after the other, as c chooses.                                  *)
Folding(f, S, X, base, c, step) ==
  /\ f \in [SUBSET S -> X]
  /\ \A t \in SUBSET S : f[t] = IF t = {} THEN base ELSE step[<<c[t], f[t \ {c[t]}]>>]

(* A function on the finite sets of S that a fold is the value of exists:  *)
(* one that answers for sets of up to n elements gives one for n + 1.      *)
LEMMA RecursionExists ==
  ASSUME NEW S, IsFiniteSet(S), NEW X, NEW base \in X, NEW c,
         \A t \in SUBSET S : t # {} => c[t] \in t,
         NEW step \in [S \X X -> X]
  PROVE  \E f : Folding(f, S, X, base, c, step)
<1> DEFINE Next1(f, t) == IF t = {} THEN base ELSE step[<<c[t], f[t \ {c[t]}]>>]
           Good(n) == \E f \in [SUBSET S -> X] : \A t \in SUBSET S :
                         Cardinality(t) <= n => f[t] = Next1(f, t)
           A == {n \in Nat : Good(n)}
<1>1. 0 \in A
  <2> DEFINE f == [t \in SUBSET S |-> base]
  <2>1. f \in [SUBSET S -> X]
    OBVIOUS
  <2>2. ASSUME NEW t \in SUBSET S, Cardinality(t) <= 0 PROVE f[t] = Next1(f, t)
    <3>1. IsFiniteSet(t) /\ Cardinality(t) \in Nat
      BY FS_Subset, FS_CardinalityType
    <3>2. t = {}
      BY <2>2, <3>1, FS_EmptySet
    <3> QED
      BY <3>2
  <2> QED
    BY <2>1, <2>2
<1>2. ASSUME NEW n \in Nat, n \in A PROVE n + 1 \in A
  <2>1. PICK f \in [SUBSET S -> X] : \A t \in SUBSET S :
                Cardinality(t) <= n => f[t] = Next1(f, t)
    BY <1>2
  <2> DEFINE g == [t \in SUBSET S |-> Next1(f, t)]
  <2>2. g \in [SUBSET S -> X]
    <3>1. ASSUME NEW t \in SUBSET S PROVE Next1(f, t) \in X
      <4>1. CASE t # {}
        <5>1. c[t] \in S /\ t \ {c[t]} \in SUBSET S
          BY <4>1
        <5>2. f[t \ {c[t]}] \in X
          BY <5>1
        <5>3. <<c[t], f[t \ {c[t]}]>> \in S \X X
          BY <5>1, <5>2
        <5> QED
          BY <4>1, <5>3
      <4> QED
        BY <4>1
    <3> HIDE DEF Next1
    <3> QED
      BY <3>1
  <2>3. ASSUME NEW t \in SUBSET S, Cardinality(t) <= n + 1 PROVE g[t] = Next1(g, t)
    <3>1. CASE t # {}
      <4>1. c[t] \in t /\ t \ {c[t]} \in SUBSET S
        BY <3>1
      <4>2. Cardinality(t \ {c[t]}) <= n
        <5>1. IsFiniteSet(t) /\ Cardinality(t) \in Nat
          BY FS_Subset, FS_CardinalityType
        <5>2. Cardinality(t \ {c[t]}) = Cardinality(t) - 1
          BY <4>1, <5>1, FS_RemoveElement
        <5> QED
          BY <2>3, <5>1, <5>2
      <4>3. f[t \ {c[t]}] = g[t \ {c[t]}]
        <5>1. f[t \ {c[t]}] = Next1(f, t \ {c[t]})
          BY <2>1, <4>1, <4>2
        <5> HIDE DEF Next1
        <5> QED
          BY <4>1, <5>1
      <4>4. g[t] = Next1(f, t)
        BY DEF g
      <4> HIDE DEF g
      <4> QED
        BY <3>1, <4>3, <4>4
    <3>2. CASE t = {}
      BY <3>2
    <3> QED
      BY <3>1, <3>2
  <2> HIDE DEF g, Next1
  <2>4. Good(n + 1)
    BY <2>2, <2>3
  <2> QED
    BY <2>4
<1>3. Nat \subseteq A
  <2> HIDE DEF A
  <2> QED
    BY <1>1, <1>2, Induction
<1>4. Cardinality(S) \in Nat
  BY FS_CardinalityType
<1>5. PICK f \in [SUBSET S -> X] : \A t \in SUBSET S :
              Cardinality(t) <= Cardinality(S) => f[t] = Next1(f, t)
  BY <1>3, <1>4
<1>6. \A t \in SUBSET S : Cardinality(t) <= Cardinality(S)
  BY FS_Subset
<1> HIDE DEF Next1
<1>7. \A t \in SUBSET S : f[t] = Next1(f, t)
  BY <1>5, <1>6
<1> QED
  BY <1>7 DEF Next1, Folding

(* The same for the elements of a list, taken from its last.               *)
ListFolding(f, n, X, base, step) ==
  /\ f \in [SUBSET (1 .. n) -> X]
  /\ \A t \in SUBSET (1 .. n) :
        f[t] = IF t = {} THEN base ELSE step[<<Max(t), f[t \ {Max(t)}]>>]

LEMMA ListRecursionExists ==
  ASSUME NEW n \in Nat, NEW X, NEW base \in X, NEW step \in [(1 .. n) \X X -> X]
  PROVE  \E f : ListFolding(f, n, X, base, step)
<1>1. PICK S : S = 1 .. n
  OBVIOUS
<1>2. IsFiniteSet(S)
  BY <1>1, FS_Interval
<1>3. \A t \in SUBSET S : t # {} => Max(t) \in t
  BY <1>1, MaxIsIn
<1>4. PICK c : \A t \in SUBSET S : c[t] = Max(t)
  <2> WITNESS [t \in SUBSET S |-> Max(t)]
  <2> QED
    OBVIOUS
<1>5. PICK f : Folding(f, S, X, base, c, step)
  <2>1. \A t \in SUBSET S : t # {} => c[t] \in t
    BY <1>3, <1>4
  <2>2. step \in [S \X X -> X]
    BY <1>1
  <2> QED
    BY <1>2, <2>1, <2>2, RecursionExists
<1>6. \A t \in SUBSET S :
         f[t] = IF t = {} THEN base ELSE step[<<Max(t), f[t \ {Max(t)}]>>]
  BY <1>4, <1>5 DEF Folding
<1> QED
  BY <1>1, <1>5, <1>6 DEF Folding, ListFolding

(* The beginnings of a list are where such a function is asked.            *)
LEMMA Beginnings ==
  ASSUME NEW n \in Nat
  PROVE  /\ 1 .. 0 = {}
         /\ \A k \in 1 .. n : /\ 1 .. k \in SUBSET (1 .. n) /\ 1 .. k # {}
                              /\ Max(1 .. k) = k /\ (1 .. k) \ {k} = 1 .. (k - 1)
<1>1. ASSUME NEW k \in 1 .. n PROVE Max(1 .. k) = k
  <2>1. 1 .. k \in SUBSET (1 .. k) /\ 1 .. k # {} /\ k \in Nat /\ k \in 1 .. k
    OBVIOUS
  <2>2. Max(1 .. k) \in 1 .. k /\ Max(1 .. k) >= k
    BY <2>1, MaxIsIn
  <2> QED
    BY <2>2
<1> QED
  BY <1>1

(* So along a list there are the results of its beginnings.                *)
Results(g, n, X, base, step) ==
  /\ g \in [0 .. n -> X]
  /\ g[0] = base
  /\ \A k \in 1 .. n : g[k] = step[<<k, g[k - 1]>>]

LEMMA ResultsExist ==
  ASSUME NEW n \in Nat, NEW X, NEW base \in X, NEW step \in [(1 .. n) \X X -> X]
  PROVE  \E g : Results(g, n, X, base, step)
<1>1. PICK f : ListFolding(f, n, X, base, step)
  BY ListRecursionExists
<1> DEFINE g == [k \in 0 .. n |-> f[1 .. k]]
<1>2. g \in [0 .. n -> X]
  BY <1>1 DEF ListFolding
<1>3. g[0] = base
  <2>1. 0 \in 0 .. n /\ 1 .. 0 = {}
    BY Beginnings
  <2>2. g[0] = f[{}]
    BY <2>1
  <2>3. f[{}] = base
    BY <1>1 DEF ListFolding
  <2> QED
    BY <2>2, <2>3
<1>4. ASSUME NEW k \in 1 .. n PROVE g[k] = step[<<k, g[k - 1]>>]
  <2>1. k \in 0 .. n /\ k - 1 \in 0 .. n
    OBVIOUS
  <2>2. f[1 .. k] = step[<<k, f[1 .. (k - 1)]>>]
    BY <1>1, Beginnings DEF ListFolding
  <2> QED
    BY <2>1, <2>2
<1> HIDE DEF g
<1> QED
  BY <1>2, <1>3, <1>4 DEF Results

(* What FoldLeft answers from is such a function too, with the operator it *)
(* folds where step is: it has the same results.                           *)
Follows(h, n, X, base, step) ==
  /\ h[{}] = base
  /\ \A k \in 1 .. n : h[1 .. (k - 1)] \in X => h[1 .. k] = step[<<k, h[1 .. (k - 1)]>>]

LastResult(x, n, X, base, step) == \E g : Results(g, n, X, base, step) /\ x = g[n]

LEMMA ResultsAlong ==
  ASSUME NEW n \in Nat, NEW X, NEW base \in X, NEW step \in [(1 .. n) \X X -> X],
         NEW h, Follows(h, n, X, base, step)
  PROVE  LastResult(h[1 .. n], n, X, base, step)
<1>1. PICK g : Results(g, n, X, base, step)
  BY ResultsExist
<1> DEFINE A == {k \in 0 .. n : h[1 .. k] = g[k]}
<1>2. 0 \in A
  <2>1. 0 \in 0 .. n /\ 1 .. 0 = {}
    OBVIOUS
  <2> QED
    BY <1>1, <2>1 DEF Results, Follows
<1>3. ASSUME NEW k \in 1 .. n, k - 1 \in A PROVE k \in A
  <2>1. k - 1 \in 0 .. n /\ k \in 0 .. n /\ h[1 .. (k - 1)] = g[k - 1]
    BY <1>3
  <2>2. g[k - 1] \in X
    BY <1>1, <2>1 DEF Results
  <2>3. h[1 .. k] = step[<<k, g[k - 1]>>]
    BY <2>1, <2>2 DEF Follows
  <2> QED
    BY <1>1, <2>1, <2>3 DEF Results
<1> HIDE DEF A
<1>4. 0 .. n \subseteq A
  BY <1>2, <1>3, InductionUpTo
<1>5. h[1 .. n] = g[n]
  <2>1. n \in 0 .. n
    OBVIOUS
  <2> QED
    BY <1>4, <2>1 DEF A
<1> QED
  BY <1>1, <1>5 DEF LastResult

(* FlattenSeq puts one list of a list after the other.                     *)
LEMMA FlattenIs ==
  ASSUME NEW V, NEW seqs \in Seq(Seq(V))
  PROVE  \E g \in [0 .. Len(seqs) -> Seq(V)] :
            /\ g[0] = <<>>
            /\ \A k \in 1 .. Len(seqs) : g[k] = g[k - 1] \o seqs[k]
            /\ FlattenSeq(seqs) = g[Len(seqs)]
<1> DEFINE n == Len(seqs)
           step == [s \in (1 .. n) \X Seq(V) |-> s[2] \o seqs[s[1]]]
<1>1. n \in Nat /\ <<>> \in Seq(V) /\ \A k \in 1 .. n : seqs[k] \in Seq(V)
  OBVIOUS
<1>2. step \in [(1 .. n) \X Seq(V) -> Seq(V)]
  BY <1>1
<1>3. \A k \in 1 .. n, s \in Seq(V) : step[<<k, s>>] = s \o seqs[k]
  OBVIOUS
<1> HIDE DEF n, step
<1>4. PICK g : Results(g, n, Seq(V), <<>>, step)
  BY <1>1, <1>2, ResultsExist
<1>8. g \in [0 .. n -> Seq(V)] /\ g[0] = <<>>
  BY <1>4 DEF Results
<1>5. \A k \in 1 .. n : g[k - 1] \in Seq(V) /\ g[k] = g[k - 1] \o seqs[k]
  <2>1. ASSUME NEW k \in 1 .. n PROVE g[k - 1] \in Seq(V) /\ g[k] = step[<<k, g[k - 1]>>]
    <3>1. k - 1 \in 0 .. n
      BY <1>1
    <3> QED
      BY <1>4, <3>1 DEF Results
  <2> QED
    BY <1>3, <2>1
<1>9. n > 0 => g[1] = seqs[1]
  <2>1. ASSUME n > 0 PROVE g[1] = <<>> \o seqs[1] /\ seqs[1] \in Seq(V)
    <3>1. 1 \in 1 .. n /\ 1 - 1 = 0
      BY <1>1, <2>1
    <3>2. g[1] = g[1 - 1] \o seqs[1]
      BY <1>5, <3>1
    <3> QED
      BY <1>1, <1>8, <3>1, <3>2
  <2> QED
    BY <2>1
<1>6. CASE n = 0
  <2>1. FlattenSeq(seqs) = <<>>
    BY <1>6 DEF FlattenSeq, n
  <2> QED
    BY <1>5, <1>6, <1>8, <2>1 DEF n
<1>7. CASE n > 0
  <2> DEFINE first == [i \in 1 .. Len(seqs) |-> g[i]]
  <2>1. first = [i \in 1 .. Len(seqs) |-> IF i = 1 THEN seqs[i] ELSE first[i - 1] \o seqs[i]]
    <3>1. ASSUME NEW i \in 1 .. n
          PROVE  g[i] = IF i = 1 THEN seqs[i] ELSE g[i - 1] \o seqs[i]
      <4>1. CASE i = 1
        BY <1>7, <1>9, <4>1
      <4> QED
        BY <1>5, <4>1
    <3>2. \A i \in 1 .. n : i # 1 => i - 1 \in 1 .. n
      BY <1>1
    <3> QED
      BY <3>1, <3>2 DEF n
  <2>2. PICK flatten :
          /\ flatten = [i \in 1 .. Len(seqs) |->
                          IF i = 1 THEN seqs[i] ELSE flatten[i - 1] \o seqs[i]]
          /\ FlattenSeq(seqs) = flatten[Len(seqs)]
    <3>1. Len(seqs) # 0
      BY <1>7 DEF n
    <3> HIDE DEF first
    <3> QED
      BY <2>1, <3>1, Zenon DEF FlattenSeq
  <2>3. 0 .. n \subseteq {k \in 0 .. n : k = 0 \/ flatten[k] = g[k]}
    <3> DEFINE A == {k \in 0 .. n : k = 0 \/ flatten[k] = g[k]}
    <3>1. 0 \in A
      BY <1>1
    <3>2. ASSUME NEW k \in 1 .. n, k - 1 \in A PROVE k \in A
      <4>1. CASE k = 1
        <5>1. flatten[1] = seqs[1]
          BY <2>2, <4>1 DEF n
        <5> QED
          BY <1>7, <1>9, <4>1, <5>1
      <4>2. CASE k # 1
        <5>1. flatten[k] = flatten[k - 1] \o seqs[k]
          BY <2>2, <4>2 DEF n
        <5>2. k - 1 # 0 /\ k \in 0 .. n
          BY <1>1, <4>2
        <5>3. flatten[k - 1] = g[k - 1]
          BY <3>2, <5>2
        <5> QED
          BY <1>5, <5>1, <5>2, <5>3
      <4> QED
        BY <4>1, <4>2
    <3> HIDE DEF A
    <3>3. 0 .. n \subseteq A
      BY <1>1, <3>1, <3>2, InductionUpTo
    <3> QED
      BY <3>3 DEF A
  <2>4. n \in 0 .. n /\ n # 0 /\ n = Len(seqs)
    BY <1>1, <1>7 DEF n
  <2>5. FlattenSeq(seqs) = g[n]
    BY <2>2, <2>3, <2>4
  <2> QED
    BY <1>5, <1>8, <2>5 DEF n
<1>10. n = 0 \/ n > 0
  BY <1>1
<1> QED
  BY <1>6, <1>7, <1>10, Zenon

(* The smaller of two.                                                     *)
LEMMA MinOfTwo ==
  ASSUME NEW a \in Int, NEW b \in Int
  PROVE  Min({a, b}) = IF b < a THEN b ELSE a
<1>1. \E x \in {a, b} : \A y \in {a, b} : x <= y
  OBVIOUS
<1>2. Min({a, b}) \in {a, b} /\ \A y \in {a, b} : Min({a, b}) <= y
  BY <1>1, Zenon DEF Min
<1> QED
  BY <1>2

(* A fixed element of a set.                                               *)
OneOf(t) == CHOOSE x \in t : TRUE

LEMMA OneIsIn == ASSUME NEW t, t # {} PROVE OneOf(t) \in t
BY DEF OneOf

(* Induction over the subsets of a finite set, by any of their elements.   *)
LEMMA SubsetInduction ==
  ASSUME NEW S, IsFiniteSet(S), NEW A, {} \in A,
         \A t \in SUBSET S : t # {} /\ t \ {OneOf(t)} \in A => t \in A
  PROVE  SUBSET S \subseteq A
<1> DEFINE B == {n \in Nat : \A t \in SUBSET S : Cardinality(t) = n => t \in A}
<1>1. \A t \in SUBSET S : IsFiniteSet(t) /\ Cardinality(t) \in Nat
  BY FS_Subset, FS_CardinalityType
<1>2. 0 \in B
  <2>1. ASSUME NEW t \in SUBSET S, Cardinality(t) = 0 PROVE t \in A
    BY <1>1, <2>1, FS_EmptySet
  <2> QED
    BY <2>1
<1>3. ASSUME NEW n \in Nat, n \in B PROVE n + 1 \in B
  <2>1. ASSUME NEW t \in SUBSET S, Cardinality(t) = n + 1 PROVE t \in A
    <3>1. t # {}
      BY <1>1, <2>1, FS_EmptySet
    <3>2. PICK x : x = OneOf(t) /\ x \in t
      BY <3>1, OneIsIn
    <3>3. Cardinality(t \ {x}) = n
      <4>1. IsFiniteSet(t)
        BY <1>1
      <4>2. Cardinality(t \ {x}) = Cardinality(t) - 1
        BY <3>2, <4>1, FS_RemoveElement
      <4> QED
        BY <2>1, <4>2
    <3>4. t \ {x} \in A
      BY <1>3, <3>3
    <3> QED
      BY <3>1, <3>2, <3>4
  <2> QED
    BY <2>1
<1> HIDE DEF B
<1>4. Nat \subseteq B
  BY <1>2, <1>3, Induction
<1>5. ASSUME NEW t \in SUBSET S PROVE t \in A
  BY <1>1, <1>4 DEF B
<1> QED
  BY <1>5

(* The sums of the numbers of a set's subsets, one element after another.  *)
Sums(f, S, w) ==
  \A t \in SUBSET S : f[t] = IF t = {} THEN 0 ELSE w[OneOf(t)] + f[t \ {OneOf(t)}]

LEMMA SumsExist ==
  ASSUME NEW S, IsFiniteSet(S), NEW w \in [S -> Int]
  PROVE  \E f : f \in [SUBSET S -> Int] /\ Sums(f, S, w)
<1> DEFINE step == [p \in S \X Int |-> w[p[1]] + p[2]]
           c == [t \in SUBSET S |-> OneOf(t)]
<1>1. step \in [S \X Int -> Int]
  <2>1. ASSUME NEW p \in S \X Int PROVE w[p[1]] + p[2] \in Int
    <3>1. w[p[1]] \in Int /\ p[2] \in Int
      OBVIOUS
    <3> QED
      BY <3>1
  <2> QED
    BY <2>1
<1>2. \A t \in SUBSET S : t # {} => c[t] \in t
  BY OneIsIn
<1>3. \A x \in S, n \in Int : step[<<x, n>>] = w[x] + n
  OBVIOUS
<1>4. \A t \in SUBSET S : c[t] = OneOf(t)
  OBVIOUS
<1> HIDE DEF step, c
<1>5. 0 \in Int
  OBVIOUS
<1>6. PICK f : Folding(f, S, Int, 0, c, step)
  BY <1>1, <1>2, <1>5, RecursionExists
<1>7. f \in [SUBSET S -> Int]
  BY <1>6 DEF Folding
<1>8. ASSUME NEW t \in SUBSET S
      PROVE  f[t] = IF t = {} THEN 0 ELSE w[OneOf(t)] + f[t \ {OneOf(t)}]
  <2>1. CASE t = {}
    BY <1>6, <2>1 DEF Folding
  <2>2. CASE t # {}
    <3>1. OneOf(t) \in S /\ t \ {OneOf(t)} \in SUBSET S
      BY <2>2, OneIsIn
    <3>2. f[t \ {OneOf(t)}] \in Int
      BY <1>7, <3>1
    <3>3. f[t] = step[<<OneOf(t), f[t \ {OneOf(t)}]>>]
      BY <1>4, <1>6, <2>2 DEF Folding
    <3> QED
      BY <1>3, <2>2, <3>1, <3>2, <3>3
  <2> QED
    BY <2>1, <2>2
<1> QED
  BY <1>7, <1>8 DEF Sums

(* The sum of weights is a number; that of what is weighed is as often     *)
(* what they are all equal to.                                             *)
LEMMA SumsOfEqual ==
  ASSUME NEW S, IsFiniteSet(S), NEW w \in [S -> Nat \ {0}], NEW x \in Int, NEW v,
         \A s \in S : v[s] = w[s] * x,
         NEW f, Sums(f, S, w), NEW g, Sums(g, S, v)
  PROVE  f[S] \in Nat /\ (S # {} => f[S] # 0) /\ g[S] = f[S] * x
<1> DEFINE A == {t \in SUBSET S : f[t] \in Nat /\ (t # {} => f[t] # 0) /\ g[t] = f[t] * x}
<1>1. {} \in A
  <2>1. f[{}] = 0 /\ g[{}] = 0
    BY DEF Sums
  <2> QED
    BY <2>1
<1>2. ASSUME NEW t \in SUBSET S, t # {}, t \ {OneOf(t)} \in A PROVE t \in A
  <2> DEFINE a == w[OneOf(t)]  b == f[t \ {OneOf(t)}]
  <2>1. OneOf(t) \in S
    BY <1>2, OneIsIn
  <2>2. a \in Nat \ {0} /\ v[OneOf(t)] = a * x
    BY <2>1
  <2>3. b \in Nat /\ g[t \ {OneOf(t)}] = b * x
    BY <1>2
  <2>4. f[t] = a + b /\ g[t] = v[OneOf(t)] + g[t \ {OneOf(t)}]
    BY <1>2 DEF Sums
  <2> HIDE DEF a, b
  <2>5. a + b \in Nat /\ a + b # 0 /\ a * x + b * x = (a + b) * x
    BY <2>2, <2>3
  <2> QED
    BY <2>2, <2>3, <2>4, <2>5
<1> HIDE DEF A
<1>3. SUBSET S \subseteq A
  BY <1>1, <1>2, SubsetInduction
<1> QED
  BY <1>3 DEF A
-----------------------------------------------------------------------------
Pairs == Int \X Int
FieldPoints == [point : Pairs, bearing : Pairs]

(* What the last call was.                                                 *)
Answered(of, in, out) == call = [of |-> of, in |-> in, out |-> out]

(* A pair is its components.                                               *)
LEMMA PairOf ==
  ASSUME NEW v \in Pairs
  PROVE  v[1] \in Int /\ v[2] \in Int /\ v = <<v[1], v[2]>>
BY DEF Pairs

(* A point of the field is its components.                                 *)
LEMMA FieldPointOf ==
  ASSUME NEW p \in FieldPoints
  PROVE  \E x, y, c, s \in Int : p = [point |-> <<x, y>>, bearing |-> <<c, s>>]
<1> DEFINE x == p.point[1]  y == p.point[2]  c == p.bearing[1]  s == p.bearing[2]
<1>1. p.point \in Pairs /\ p.bearing \in Pairs
  BY DEF FieldPoints
<1>2. x \in Int /\ y \in Int /\ c \in Int /\ s \in Int
  BY <1>1, PairOf
<1>3. p.point = <<x, y>> /\ p.bearing = <<c, s>>
  BY <1>1, PairOf
<1>4. p = [point |-> <<x, y>>, bearing |-> <<c, s>>]
  BY <1>3 DEF FieldPoints
<1> QED
  BY <1>2, <1>4

(* What the mirrors make of the components of a point, and what is ahead.  *)
PointAt(x, y, c, s) == FieldPoint(<<x, y>>, <<c, s>>)

LEMMA MirrorsOf ==
  ASSUME NEW x \in Int, NEW y \in Int, NEW c \in Int, NEW s \in Int
  PROVE  /\ mirror(PointAt(x, y, c, s)) = PointAt(2536 - x, 5527 - y, -c, -s)
         /\ mirrorOnlyY(PointAt(x, y, c, s)) = PointAt(x, 5527 - y, -c, s)
         /\ mirrorOnlyX(PointAt(x, y, c, s)) = PointAt(2536 - x, y, c, -s)
         /\ flipDirection(PointAt(x, y, c, s)) = PointAt(x, y, -c, -s)
         /\ Ahead(PointAt(x, y, c, s)) = PointAt(x + s, y + c, c, s)
<1> USE DEF PointAt, FieldPoint, HalfTurned, Opposite, Cos, Sin
<1>1. -(-s) = s /\ 1 * s = s /\ 1 * c = c
  OBVIOUS
<1> QED
  BY <1>1 DEF mirror, mirrorOnlyY, mirrorOnlyX, flipDirection, Ahead, Plus, AtBearing,
              field_size_x, field_size_y

(* The same for a number and its image, of each component.                 *)
LEMMA ImagesOf ==
  ASSUME NEW x \in Int, NEW y \in Int, NEW c \in Int, NEW s \in Int,
         NEW x2, NEW y2, NEW c2, NEW s2,
         x2 = 2536 - x, y2 = 5527 - y, c2 = -c, s2 = -s
  PROVE  /\ mirror(PointAt(x, y, c, s)) = PointAt(x2, y2, c2, s2)
         /\ mirrorOnlyY(PointAt(x, y, c, s)) = PointAt(x, y2, c2, s)
         /\ mirrorOnlyX(PointAt(x, y, c, s)) = PointAt(x2, y, c, s2)
         /\ flipDirection(PointAt(x, y, c, s)) = PointAt(x, y, c2, s2)
BY MirrorsOf

LEMMA AheadIs ==
  ASSUME NEW x \in Int, NEW y \in Int, NEW c \in Int, NEW s \in Int,
         NEW u, NEW v, u = x + s, v = y + c
  PROVE  Ahead(PointAt(x, y, c, s)) = PointAt(u, v, c, s)
BY MirrorsOf

(* A mirrored path is driven the mirrored way, for every point of the      *)
(* plane and every bearing, with each of the mirrors.                      *)
THEOREM MirrorsAgreeEverywhere ==
  ASSUME NEW how \in Mirrors, NEW p \in FieldPoints,
         Answered("mirror", [how |-> how, p |-> p], Mirrored(how, p))
  PROVE  MirrorsAgree
<1>1. PICK x \in Int, y \in Int, c \in Int, s \in Int : p = PointAt(x, y, c, s)
  BY FieldPointOf DEF PointAt, FieldPoint
<1>2. /\ call.of = "mirror" /\ call.out = Mirrored(how, p)
      /\ call.in.how = how /\ call.in.p = p
  BY DEF Answered
(* Its mirror image, the point ahead, and the mirror image of that.        *)
<1>3. PICK x2 \in Int, y2 \in Int, c2 \in Int, s2 \in Int :
        /\ x2 = 2536 - x /\ y2 = 5527 - y /\ c2 = -c /\ s2 = -s
        /\ x = 2536 - x2 /\ y = 5527 - y2 /\ c = -c2 /\ s = -s2
  BY DEF field_size_x, field_size_y
<1>4. PICK u \in Int, v \in Int, u2 \in Int, v2 \in Int :
        /\ u = x + s /\ v = y + c /\ u2 = x2 + s2 /\ v2 = y2 + c2
        /\ x = u + s2 /\ y = v + c2 /\ x2 = u2 + s /\ y2 = v2 + c
        /\ u2 = 2536 - u /\ v2 = 5527 - v
  BY <1>3 DEF field_size_x, field_size_y
<1>5. CASE how = "mirror"
  <2>1. \A q : Mirrored(how, q) = mirror(q)
    BY <1>5, Zenon DEF Mirrored
  <2>2. mirror(p) = PointAt(x2, y2, c2, s2)
    BY <1>1, <1>3, ImagesOf
  <2>3. mirror(Ahead(p)) = PointAt(u2, v2, c2, s2)
    <3>1. Ahead(p) = PointAt(u, v, c, s)
      BY <1>1, <1>4, AheadIs
    <3> QED
      BY <1>3, <1>4, <3>1, ImagesOf
  <2>4. mirror(PointAt(x2, y2, c2, s2)) = p
    BY <1>1, <1>3, ImagesOf
  <2>5. Ahead(PointAt(x2, y2, c2, s2)) = PointAt(u2, v2, c2, s2)
    BY <1>4, AheadIs
  <2>6. flipDirection(PointAt(u2, v2, c2, s2)) = PointAt(u2, v2, c, s)
    BY <1>3, ImagesOf
  <2>7. Ahead(PointAt(u2, v2, c, s)) = PointAt(x2, y2, c, s)
    <3>1. x2 = u2 + s /\ y2 = v2 + c
      BY <1>4
    <3> QED
      BY <3>1, AheadIs
  <2>8. PointAt(x2, y2, c, s).point = PointAt(x2, y2, c2, s2).point
    BY DEF PointAt, FieldPoint
  <2> QED
    BY <1>2, <2>1, <2>2, <2>3, <2>4, <2>5, <2>6, <2>7, <2>8, Zenon DEF MirrorsAgree
<1>6. CASE how = "mirrorOnlyY"
  <2>1. \A q : Mirrored(how, q) = mirrorOnlyY(q)
    BY <1>6, Zenon DEF Mirrored
  <2>2. mirrorOnlyY(p) = PointAt(x, y2, c2, s)
    BY <1>1, <1>3, ImagesOf
  <2>3. mirrorOnlyY(Ahead(p)) = PointAt(u, v2, c2, s)
    <3>1. Ahead(p) = PointAt(u, v, c, s)
      BY <1>1, <1>4, AheadIs
    <3> QED
      BY <1>3, <1>4, <3>1, ImagesOf
  <2>4. mirrorOnlyY(PointAt(x, y2, c2, s)) = p
    BY <1>1, <1>3, ImagesOf
  <2>5. Ahead(PointAt(x, y2, c2, s)) = PointAt(u, v2, c2, s)
    BY <1>4, AheadIs
  <2>6. flipDirection(PointAt(u, v2, c2, s)) = PointAt(u, v2, c, s2)
    BY <1>3, ImagesOf
  <2>7. Ahead(PointAt(u, v2, c, s2)) = PointAt(x, y2, c, s2)
    <3>1. x = u + s2 /\ y2 = v2 + c
      BY <1>4
    <3> QED
      BY <3>1, AheadIs
  <2>8. PointAt(x, y2, c, s2).point = PointAt(x, y2, c2, s).point
    BY DEF PointAt, FieldPoint
  <2> QED
    BY <1>2, <2>1, <2>2, <2>3, <2>4, <2>5, <2>6, <2>7, <2>8, Zenon DEF MirrorsAgree
<1>7. CASE how = "mirrorOnlyX"
  <2>1. \A q : Mirrored(how, q) = mirrorOnlyX(q)
    BY <1>7, Zenon DEF Mirrored
  <2>2. mirrorOnlyX(p) = PointAt(x2, y, c, s2)
    BY <1>1, <1>3, ImagesOf
  <2>3. mirrorOnlyX(Ahead(p)) = PointAt(u2, v, c, s2)
    <3>1. Ahead(p) = PointAt(u, v, c, s)
      BY <1>1, <1>4, AheadIs
    <3> QED
      BY <1>3, <1>4, <3>1, ImagesOf
  <2>4. mirrorOnlyX(PointAt(x2, y, c, s2)) = p
    BY <1>1, <1>3, ImagesOf
  <2>5. Ahead(PointAt(x2, y, c, s2)) = PointAt(u2, v, c, s2)
    BY <1>4, AheadIs
  <2>6. flipDirection(PointAt(u2, v, c, s2)) = PointAt(u2, v, c2, s)
    BY <1>3, ImagesOf
  <2>7. Ahead(PointAt(u2, v, c2, s)) = PointAt(x2, y, c2, s)
    <3>1. x2 = u2 + s /\ y = v + c2
      BY <1>4
    <3> QED
      BY <3>1, AheadIs
  <2>8. PointAt(x2, y, c2, s).point = PointAt(x2, y, c, s2).point
    BY DEF PointAt, FieldPoint
  <2> QED
    BY <1>2, <2>1, <2>2, <2>3, <2>4, <2>5, <2>6, <2>7, <2>8, Zenon DEF MirrorsAgree
<1> QED
  BY <1>5, <1>6, <1>7 DEF Mirrors
-----------------------------------------------------------------------------
(* The order in which ClosestWheel takes the wheels is total and           *)
(* transitive, so that there is a first: by l, whether angleTo() takes the *)
(* long way to a wheel, and the dot product d with it.                     *)
Sooner(l, d, i, j) ==
  \/ ~ l[i] /\ l[j]
  \/ l[i] /\ l[j] /\ d[i] < d[j]
  \/ ~ l[i] /\ ~ l[j] /\ d[i] > d[j]

Before(l, d, i, j) == Sooner(l, d, i, j) \/ (i < j /\ ~ Sooner(l, d, j, i))

LEMMA BeforeIsTotal ==
  ASSUME NEW l \in [Wheels -> BOOLEAN], NEW d \in [Wheels -> Int],
         NEW i \in Wheels, NEW j \in Wheels, i # j
  PROVE  Before(l, d, i, j) \/ Before(l, d, j, i)
<1>1. d[i] \in Int /\ d[j] \in Int /\ i \in Int /\ j \in Int
  BY DEF Wheels
<1> QED
  BY <1>1 DEF Before, Sooner

LEMMA BeforeIsTransitive ==
  ASSUME NEW l \in [Wheels -> BOOLEAN], NEW d \in [Wheels -> Int],
         NEW i \in Wheels, NEW j \in Wheels, NEW k \in Wheels,
         Before(l, d, i, j), Before(l, d, j, k)
  PROVE  Before(l, d, i, k)
<1>1. /\ d[i] \in Int /\ d[j] \in Int /\ d[k] \in Int
      /\ i \in Int /\ j \in Int /\ k \in Int
  BY DEF Wheels
<1> QED
  BY <1>1 DEF Before, Sooner

LEMMA FirstExists ==
  ASSUME NEW l \in [Wheels -> BOOLEAN], NEW d \in [Wheels -> Int]
  PROVE  \E i \in Wheels : \A j \in Wheels \ {i} : Before(l, d, i, j)
<1>1. Wheels = {1, 2, 3, 4}
  BY DEF Wheels
<1>2. PICK a \in {1, 2} : \A j \in {1, 2} \ {a} : Before(l, d, a, j)
  BY <1>1, BeforeIsTotal
<1>3. PICK b \in {3, 4} : \A j \in {3, 4} \ {b} : Before(l, d, b, j)
  BY <1>1, BeforeIsTotal
<1>4. CASE Before(l, d, a, b)
  <2>1. \A j \in Wheels \ {a} : Before(l, d, a, j)
    BY <1>1, <1>2, <1>3, <1>4, BeforeIsTransitive
  <2> QED
    BY <1>1, <1>2, <2>1
<1>5. CASE Before(l, d, b, a)
  <2>1. \A j \in Wheels \ {b} : Before(l, d, b, j)
    BY <1>1, <1>2, <1>3, <1>5, BeforeIsTransitive
  <2> QED
    BY <1>1, <1>3, <2>1
<1> QED
  BY <1>1, <1>2, <1>3, <1>4, <1>5, BeforeIsTotal

(* Where the wheels of a robot with the bearing <<c, s>> are.              *)
LEMMA WheelsAre ==
  ASSUME NEW c \in Int, NEW s \in Int
  PROVE  /\ WheelVecs(<<c, s>>)[1] = <<c + s, c - s>>
         /\ WheelVecs(<<c, s>>)[2] = <<s - c, c + s>>
         /\ WheelVecs(<<c, s>>)[3] = <<-(c + s), s - c>>
         /\ WheelVecs(<<c, s>>)[4] = <<c - s, -(c + s)>>
<1>1. /\ 1 * c + 1 * s = c + s /\ 1 * c - 1 * s = c - s
      /\ -1 * c + 1 * s = s - c /\ 1 * c - -1 * s = c + s
      /\ -1 * c + -1 * s = -(c + s) /\ -1 * c - -1 * s = s - c
      /\ 1 * c + -1 * s = c - s /\ -1 * c - 1 * s = -(c + s)
  OBVIOUS
<1> QED
  BY <1>1 DEF WheelVecs, Wheels, Rotate, Cos, Sin

(* The dot and cross products with the wheels are those with the first of  *)
(* them, turned by quarters.                                               *)
LEMMA ProductsWithWheels ==
  ASSUME NEW x \in Int, NEW y \in Int, NEW c \in Int, NEW s \in Int
  PROVE  \E d, e \in Int :
           LET v == <<x, y>>
               w == WheelVecs(<<c, s>>)
           IN  /\ Dot(v, w[1]) = d  /\ Cross(v, w[1]) = e
               /\ Dot(v, w[2]) = -e /\ Cross(v, w[2]) = d
               /\ Dot(v, w[3]) = -d /\ Cross(v, w[3]) = -e
               /\ Dot(v, w[4]) = e  /\ Cross(v, w[4]) = -d
<1> DEFINE xc == x * c  xs == x * s  yc == y * c  ys == y * s
           v == <<x, y>>
           w == WheelVecs(<<c, s>>)
           d == xc + xs + yc - ys
           e == xc - xs - yc - ys
<1>1. xc \in Int /\ xs \in Int /\ yc \in Int /\ ys \in Int
  OBVIOUS
<1>2. /\ x * (c + s) = xc + xs /\ x * (c - s) = xc - xs
      /\ y * (c + s) = yc + ys /\ y * (c - s) = yc - ys
      /\ x * (s - c) = xs - xc /\ y * (s - c) = ys - yc
      /\ x * (-(c + s)) = -(xc + xs) /\ y * (-(c + s)) = -(yc + ys)
  OBVIOUS
<1> HIDE DEF xc, xs, yc, ys
<1>3. w[1] = <<c + s, c - s>> /\ w[2] = <<s - c, c + s>>
      /\ w[3] = <<-(c + s), s - c>> /\ w[4] = <<c - s, -(c + s)>>
  BY WheelsAre
<1> HIDE DEF w
<1>4. Dot(v, w[1]) = d /\ Cross(v, w[1]) = e
  BY <1>1, <1>2, <1>3 DEF Dot, Cross
<1>5. Dot(v, w[2]) = -e /\ Cross(v, w[2]) = d
  BY <1>1, <1>2, <1>3 DEF Dot, Cross
<1>6. Dot(v, w[3]) = -d /\ Cross(v, w[3]) = -e
  BY <1>1, <1>2, <1>3 DEF Dot, Cross
<1>7. Dot(v, w[4]) = e /\ Cross(v, w[4]) = -d
  BY <1>1, <1>2, <1>3 DEF Dot, Cross
<1>8. d \in Int /\ e \in Int
  BY <1>1
<1> HIDE DEF d, e, v
<1> QED
  BY <1>4, <1>5, <1>6, <1>7, <1>8 DEF v, w

(* One of the wheels is within a quarter turn, the short way.              *)
LEMMA OneIsNear ==
  ASSUME NEW x \in Int, NEW y \in Int, NEW c \in Int, NEW s \in Int
  PROVE  \E k \in Wheels : /\ ~ LongWay(<<x, y>>, WheelVecs(<<c, s>>)[k])
                           /\ Dot(<<x, y>>, WheelVecs(<<c, s>>)[k]) >= 0
<1> DEFINE v == <<x, y>>
           w == WheelVecs(<<c, s>>)
<1>1. PICK d \in Int, e \in Int :
        /\ Dot(v, w[1]) = d  /\ Cross(v, w[1]) = e
        /\ Dot(v, w[2]) = -e /\ Cross(v, w[2]) = d
        /\ Dot(v, w[3]) = -d /\ Cross(v, w[3]) = -e
        /\ Dot(v, w[4]) = e  /\ Cross(v, w[4]) = -d
  BY ProductsWithWheels
<1>2. Wheels = {1, 2, 3, 4}
  BY DEF Wheels
<1> HIDE DEF v, w
<1>3. CASE Above(v)
  <2>1. \E k \in {1, 2, 3, 4} : Dot(v, w[k]) >= 0 /\ Cross(v, w[k]) <= 0
    BY <1>1
  <2>2. PICK k \in Wheels : Dot(v, w[k]) >= 0 /\ Cross(v, w[k]) <= 0
    BY <1>2, <2>1
  <2>3. Cross(v, w[k]) \in Int
    BY <1>1, <1>2
  <2>4. ~ LongWay(v, w[k])
    BY <1>3, <2>2, <2>3 DEF LongWay
  <2> QED
    BY <2>2, <2>4 DEF v, w
<1>4. CASE ~ Above(v)
  <2>1. \E k \in {1, 2, 3, 4} : Dot(v, w[k]) >= 0 /\ Cross(v, w[k]) >= 0
    BY <1>1
  <2>2. PICK k \in Wheels : Dot(v, w[k]) >= 0 /\ Cross(v, w[k]) >= 0
    BY <1>2, <2>1
  <2>3. Cross(v, w[k]) \in Int
    BY <1>1, <1>2
  <2>4. ~ LongWay(v, w[k])
    BY <1>4, <2>2, <2>3 DEF LongWay
  <2> QED
    BY <2>2, <2>4 DEF v, w
<1> QED
  BY <1>3, <1>4

(* The wheel that is chosen lies on the side away from the change of       *)
(* velocity, for every change and every bearing.                           *)
THEOREM ChosenWheelLiesBehind ==
  ASSUME NEW change \in Pairs, NEW bearing \in Pairs,
         Answered("tip", [change |-> change, bearing |-> bearing],
                  ClosestWheel(change, bearing))
  PROVE  TipsOverChosenWheel
<1> DEFINE at == AtLeastOne(change)
           x == at[1] * (-1)
           y == at[2] * (-1)
           c == bearing[1]
           s == bearing[2]
           w == WheelVecs(bearing)
           back == Times(at, -1)
           l == [k \in Wheels |-> LongWay(back, w[k])]
           d == [k \in Wheels |-> Dot(back, w[k])]
           i == ClosestWheel(change, bearing)
<1>1. bearing = <<c, s>> /\ c \in Int /\ s \in Int
  BY PairOf
<1>2. at[1] \in Int /\ at[2] \in Int
  BY PairOf DEF AtLeastOne
<1> HIDE DEF at
<1>3. back = <<x, y>> /\ x \in Int /\ y \in Int
  BY <1>2 DEF Times
<1>4. \A k \in Wheels : Dot(back, w[k]) \in Int /\ w[k][1] \in Int /\ w[k][2] \in Int
  <2>1. \A k \in {1, 2, 3, 4} : w[k][1] \in Int /\ w[k][2] \in Int
    <3>1. /\ w[1] = <<c + s, c - s>> /\ w[2] = <<s - c, c + s>>
          /\ w[3] = <<-(c + s), s - c>> /\ w[4] = <<c - s, -(c + s)>>
      BY <1>1, WheelsAre
    <3> HIDE DEF w
    <3> QED
      BY <1>1, <3>1
  <2>2. \A k \in Wheels : w[k][1] \in Int /\ w[k][2] \in Int
    BY <2>1 DEF Wheels
  <2> HIDE DEF w, x, y
  <2> QED
    BY <1>3, <2>2 DEF Dot
<1>5. PICK k \in Wheels : ~ l[k] /\ d[k] >= 0
  BY <1>1, <1>3, OneIsNear
<1>6. l \in [Wheels -> BOOLEAN] /\ d \in [Wheels -> Int]
  <2>1. \A j \in Wheels : LongWay(back, w[j]) \in BOOLEAN
    BY Zenon DEF LongWay
  <2> HIDE DEF back, w
  <2>2. l \in [Wheels -> BOOLEAN]
    BY <2>1
  <2>3. d \in [Wheels -> Int]
    BY <1>4
  <2> QED
    BY <2>2, <2>3
<1>7. i \in Wheels /\ \A j \in Wheels \ {i} : Before(l, d, i, j)
  <2>1. \A a, b \in Wheels : Sooner(l, d, a, b) <=> NearerInAngle(back, w[a], w[b])
    <3> HIDE DEF back, w
    <3> QED
      BY DEF Sooner, NearerInAngle
  <2>2. \E a \in Wheels : \A b \in Wheels \ {a} :
          \/ NearerInAngle(back, w[a], w[b])
          \/ a < b /\ ~ NearerInAngle(back, w[b], w[a])
    <3> HIDE DEF l, d, back, w
    <3> QED
      BY <1>6, <2>1, FirstExists DEF Before
  <2>3. i = CHOOSE a \in Wheels : \A b \in Wheels \ {a} :
          \/ NearerInAngle(back, w[a], w[b])
          \/ a < b /\ ~ NearerInAngle(back, w[b], w[a])
    BY DEF ClosestWheel, at
  <2> HIDE DEF i, back, w
  <2>4. /\ i \in Wheels
        /\ \A b \in Wheels \ {i} :
             \/ NearerInAngle(back, w[i], w[b])
             \/ i < b /\ ~ NearerInAngle(back, w[b], w[i])
    BY <2>2, <2>3, Zenon
  <2> HIDE DEF l, d
  <2> QED
    BY <2>1, <2>4 DEF Before
<1>8. d[i] >= 0
  <2> HIDE DEF l, d, i
  <2>1. d[k] \in Int /\ d[i] \in Int /\ l[i] \in BOOLEAN /\ l[k] \in BOOLEAN
    BY <1>6, <1>7
  <2> QED
    BY <1>5, <1>7, <2>1 DEF Before, Sooner
<1>9. Dot(w[i], at) <= 0
  <2>1. Dot(back, w[i]) >= 0 /\ w[i][1] \in Int /\ w[i][2] \in Int
    <3> HIDE DEF i, back, w
    <3> QED
      BY <1>4, <1>7, <1>8
  <2> DEFINE p == w[i][1]  q == w[i][2]
  <2> HIDE DEF w, i
  <2>2. x * p + y * q >= 0
    BY <1>3, <2>1 DEF Dot
  <2> HIDE DEF p, q
  <2>3. p \in Int /\ q \in Int
    BY <2>1 DEF p, q
  <2>4. p * at[1] + q * at[2] = -(x * p + y * q)
    BY <1>2, <2>3
  <2>5. p * at[1] + q * at[2] <= 0
    BY <1>2, <1>3, <2>2, <2>3, <2>4
  <2> QED
    BY <2>5 DEF Dot, p, q
<1>10. call.in.bearing = bearing /\ call.in.change = change /\ call.out = i
  BY DEF Answered
<1> HIDE DEF w, i
<1> QED
  BY <1>9, <1>10 DEF TipsOverChosenWheel, at, w
-----------------------------------------------------------------------------
(* A set of numbers up to n has a greatest: the provers have induction     *)
(* only as a fact about a well-founded relation.                           *)
LEMMA GreatestUpTo ==
  ASSUME NEW n \in Nat, NEW M, M \subseteq 0 .. n, M # {}
  PROVE  \E i \in M : \A j \in M : j <= i
<1> DEFINE R == OpToRel(<, Nat)
           T == {n - i : i \in M}
<1>1. T \subseteq Nat /\ T # {}
  <2>1. \A i \in M : n - i \in Nat
    BY n \in Nat
  <2> QED
    BY <2>1
<1>2. PICK k \in T : \A m \in T : ~(<<m, k>> \in R)
  <2>1. IsWellFoundedOn(R, Nat)
    BY NatLessThanWellFounded
  <2> HIDE DEF R, T
  <2> QED
    BY <1>1, <2>1, WFMin, Zenon
<1>3. PICK i \in M : k = n - i
  OBVIOUS
<1>4. ASSUME NEW j \in M PROVE j <= i
  <2>1. n - j \in T /\ n - j \in Nat /\ k \in Nat
    BY <1>1
  <2>2. n - j < k => <<n - j, k>> \in R
    BY <2>1 DEF OpToRel
  <2>3. ~(n - j < k)
    BY <1>2, <2>1, <2>2
  <2> QED
    BY <1>3, <2>3
<1> QED
  BY <1>4

(* A motion the open-loop calculator may be asked for.                     *)
Motion == [translation : Pairs, rotation : Int, bearing : Pairs,
           max_speed : Int, cut : BOOLEAN]

(* The wheels of a robot that moves by <<p, q>> in its own frame and turns *)
(* by r: they differ from that by a and b, one way or the other.           *)
Corners(p, q, a, b) ==
  << <<p + a, q - b>>, <<p + a, q + b>>, <<p - a, q + b>>, <<p - a, q - b>> >>

LEMMA TargetsAre ==
  ASSUME NEW asked \in Motion
  PROVE  \E p, q \in Int :
           /\ InFrame(asked.translation, asked.bearing) = <<p, q>>
           /\ \A r \in Int : \A i \in Modules :
                ModuleTargets(asked, r)[i] = Corners(p, q, 5 * r * Forward, 5 * r * Horizontal)[i]
<1> DEFINE x == asked.translation[1]  y == asked.translation[2]
           c == asked.bearing[1]      s == asked.bearing[2]
           p == x * c - y * s         q == y * c + x * s
<1>1. asked.translation = <<x, y>> /\ asked.bearing = <<c, s>>
      /\ x \in Int /\ y \in Int /\ c \in Int /\ s \in Int
  <2>1. asked.translation \in Pairs /\ asked.bearing \in Pairs
    BY DEF Motion
  <2> QED
    BY <2>1, PairOf
<1> HIDE DEF x, y, c, s
<1>2. p \in Int /\ q \in Int
  BY <1>1
<1>3. /\ x * c + y * (-s) = p /\ y * c - x * (-s) = q /\ x * s + y * c = q
  BY <1>1
<1>4. InFrame(asked.translation, asked.bearing) = <<p, q>>
  <2>1. InFrame(<<x, y>>, <<c, s>>) = <<x * c + y * (-s), x * s + y * c>>
    BY DEF InFrame, RightOf, AheadOf, Dot, Cos, Sin
  <2> QED
    BY <1>1, <1>3, <2>1
<1>5. Rotate(asked.translation, Opposite(asked.bearing)) = <<p, q>>
  <2>1. Rotate(<<x, y>>, Opposite(<<c, s>>)) = <<x * c + y * (-s), y * c - x * (-s)>>
    BY DEF Rotate, Opposite, Cos, Sin
  <2> QED
    BY <1>1, <1>3, <2>1
<1> HIDE DEF p, q
<1>6. ASSUME NEW r \in Int, NEW i \in Modules
      PROVE  ModuleTargets(asked, r)[i] = Corners(p, q, 5 * r * Forward, 5 * r * Horizontal)[i]
  <2> DEFINE a == 5 * r * Forward  b == 5 * r * Horizontal
  <2>1. a \in Int /\ b \in Int /\ Forward \in Int /\ Horizontal \in Int
    BY KinematicsAssumption
  <2>2. /\ 5 * r * (-Forward) = -a /\ -5 * r * Horizontal = -b
        /\ -5 * r * (-Horizontal) = b
    BY <2>1
  <2>3. ModuleTargets(asked, r)[i]
          = Plus(<<p, q>>, <<5 * r * Location[i][2], -5 * r * Location[i][1]>>)
    BY <1>5 DEF ModuleTargets
  <2>4. <<5 * r * Location[i][2], -5 * r * Location[i][1]>>
          = << <<a, -b>>, <<a, b>>, <<-a, b>>, <<-a, -b>> >>[i]
    BY <2>2 DEF Location, Modules
  <2> HIDE DEF a, b
  <2>5. ModuleTargets(asked, r)[i] = Corners(p, q, a, b)[i]
    BY <1>2, <2>1, <2>3, <2>4 DEF Corners, Plus, Modules
  <2> QED
    BY <2>5 DEF a, b
<1> QED
  BY <1>2, <1>4, <1>6

(* The greatest of four numbers is one of them.                            *)
LEMMA MaxOfFour ==
  ASSUME NEW f \in [Modules -> Int]
  PROVE  \E i \in Modules : /\ Max({f[j] : j \in Modules}) = f[i]
                            /\ \A j \in Modules : f[j] <= f[i]
<1>1. Modules = {1, 2, 3, 4}
  BY DEF Modules
<1>2. \E i \in Modules : \A j \in Modules : f[j] <= f[i]
  <2>1. PICK a \in {1, 2} : f[1] <= f[a] /\ f[2] <= f[a]
    BY <1>1
  <2>2. PICK b \in {3, 4} : f[3] <= f[b] /\ f[4] <= f[b]
    BY <1>1
  <2>3. CASE f[b] <= f[a]
    BY <1>1, <2>1, <2>2, <2>3
  <2>4. CASE f[a] <= f[b]
    BY <1>1, <2>1, <2>2, <2>4
  <2> QED
    BY <1>1, <2>1, <2>2, <2>3, <2>4
<1> DEFINE S == {f[j] : j \in Modules}
<1>3. Max(S) \in S /\ \A y \in S : Max(S) >= y
  <2>1. \E x \in S : \A y \in S : x >= y
    BY <1>2
  <2> HIDE DEF S
  <2> QED
    BY <2>1, Zenon DEF Max
<1> QED
  BY <1>3

(* The greatest speed of the wheels, for a and b.                          *)
LEMMA CornersAre ==
  ASSUME NEW p \in Int, NEW q \in Int, NEW a \in Int, NEW b \in Int, NEW i \in Modules
  PROVE  /\ Corners(p, q, a, b)[i] \in Pairs
         /\ Square(Corners(p, q, a, b)[i]) \in Int
<1> DEFINE v == Corners(p, q, a, b)[i]
<1>1. v \in Pairs
  BY DEF Corners, Modules, Pairs
<1> HIDE DEF v
<1>2. v[1] \in Int /\ v[2] \in Int
  BY <1>1, PairOf
<1>3. v[1] * v[1] + v[2] * v[2] \in Int
  BY <1>2
<1> QED
  BY <1>1, <1>3 DEF Square, Dot, v

LEMMA MaxMagnitudeIs ==
  ASSUME NEW targets, \A i \in Modules : Square(targets[i]) \in Int
  PROVE  \E i \in Modules : /\ MaxMagnitude(targets) = Square(targets[i])
                            /\ \A j \in Modules : Square(targets[j]) <= Square(targets[i])
<1> DEFINE f == [i \in Modules |-> Square(targets[i])]
<1>1. f \in [Modules -> Int]
  OBVIOUS
<1>2. {f[j] : j \in Modules} = {Square(targets[j]) : j \in Modules}
  OBVIOUS
<1>3. \A i \in Modules : f[i] = Square(targets[i])
  OBVIOUS
<1> HIDE DEF f
<1> QED
  BY <1>1, <1>2, <1>3, MaxOfFour DEF MaxMagnitude

(* A product with a number that is no smaller is no smaller, one way or    *)
(* the other.                                                              *)
LEMMA ProductGrows ==
  ASSUME NEW r \in Int, NEW s \in Int, NEW u \in Int, Absolute(r) <= Absolute(s)
  PROVE  r * u <= s * u \/ r * u <= (-s) * u
<1>1. /\ r <= s \/ r <= -s
      /\ s <= r \/ -s <= r
  BY DEF Absolute
<1>2. ASSUME NEW t \in Int, r <= t, u >= 0 PROVE r * u <= t * u
  BY <1>2
<1>3. ASSUME NEW t \in Int, t <= r, u < 0 PROVE r * u <= t * u
  BY <1>3
<1>4. -s \in Int /\ (u >= 0 \/ u < 0)
  OBVIOUS
<1> QED
  BY <1>1, <1>2, <1>3, <1>4

LEMMA SquareGrows ==
  ASSUME NEW r \in Int, NEW s \in Int, Absolute(r) <= Absolute(s)
  PROVE  r * r <= s * s
<1>1. PICK m \in Nat : r * r = m * m /\ m = Absolute(r)
  <2>1. (-r) * (-r) = r * r
    OBVIOUS
  <2> QED
    BY <2>1 DEF Absolute
<1>2. PICK n \in Nat : s * s = n * n /\ n = Absolute(s)
  <2>1. (-s) * (-s) = s * s
    OBVIOUS
  <2> QED
    BY <2>1 DEF Absolute
<1>3. m <= n
  BY <1>1, <1>2
<1>4. m * m <= n * n
  BY <1>3
<1> QED
  BY <1>1, <1>2, <1>4

(* The speed of each wheel by how fast the robot turns.                    *)
LEMMA SpeedOf ==
  ASSUME NEW p \in Int, NEW q \in Int
  PROVE  \E k \in Nat, g \in [Modules -> Int] :
           /\ g[3] = -g[1] /\ g[4] = -g[2]
           /\ \A r \in Int, i \in Modules :
                Square(Corners(p, q, 5 * r * Forward, 5 * r * Horizontal)[i])
                  = (p * p + q * q) + k * (r * r) + r * g[i]
<1> DEFINE F == Forward  H == Horizontal
           k == 25 * (F * F + H * H)
           u == 10 * (p * F - q * H)
           w == 10 * (p * F + q * H)
           g == [i \in Modules |-> <<u, w, -u, -w>>[i]]
<1>1. F \in Nat /\ H \in Nat
  BY KinematicsAssumption
<1>2. k \in Nat /\ u \in Int /\ w \in Int
  <2>1. F * F \in Nat /\ H * H \in Nat /\ p * F \in Int /\ q * H \in Int
    BY <1>1
  <2> QED
    BY <2>1
<1>3. g \in [Modules -> Int] /\ g[1] = u /\ g[2] = w /\ g[3] = -u /\ g[4] = -w
  <2> HIDE DEF u, w
  <2> QED
    BY <1>2 DEF Modules
<1>4. ASSUME NEW r \in Int, NEW i \in Modules
      PROVE  Square(Corners(p, q, 5 * r * F, 5 * r * H)[i])
               = (p * p + q * q) + k * (r * r) + r * g[i]
  <2> DEFINE a == 5 * r * F  b == 5 * r * H
             pp == p * p  qq == q * q  kr == k * (r * r)  ru == r * u  rw == r * w
  <2>1. a \in Int /\ b \in Int /\ pp \in Int /\ qq \in Int
        /\ kr \in Int /\ ru \in Int /\ rw \in Int
    BY <1>1, <1>2
  <2>2. a * a + b * b = kr
    BY <1>1
  <2>3. 2 * (p * a) - 2 * (q * b) = ru /\ 2 * (p * a) + 2 * (q * b) = rw
    BY <1>1
  <2>4. r * (-u) = -ru /\ r * (-w) = -rw
    <3> HIDE DEF u, w
    <3> QED
      BY <1>2
  <2> HIDE DEF a, b, k, u, w, g, kr, ru, rw
  <2>5. /\ (p + a) * (p + a) + (q - b) * (q - b) = (pp + qq) + kr + ru
        /\ (p + a) * (p + a) + (q + b) * (q + b) = (pp + qq) + kr + rw
        /\ (p - a) * (p - a) + (q + b) * (q + b) = (pp + qq) + kr + (-ru)
        /\ (p - a) * (p - a) + (q - b) * (q - b) = (pp + qq) + kr + (-rw)
    BY <2>1, <2>2, <2>3
  <2> HIDE DEF pp, qq
  <2>6. Square(Corners(p, q, a, b)[i]) = (pp + qq) + kr + r * g[i]
    BY <1>3, <2>4, <2>5 DEF Corners, Square, Dot, Modules, ru, rw
  <2> QED
    BY <2>6 DEF a, b, pp, qq, kr
<1> HIDE DEF k, g
<1> QED
  BY <1>2, <1>3, <1>4

(* Where one wheel is too fast, one is for every faster rotation, whichever*)
(* way: the wheels lie opposite each other.                                *)
LEMMA FasterIsTooFast ==
  ASSUME NEW asked \in Motion, NEW r \in Int, NEW s \in Int, NEW m \in Int,
         Absolute(r) <= Absolute(s), TooFast(ModuleTargets(asked, r), m)
  PROVE  TooFast(ModuleTargets(asked, s), m)
<1> DEFINE speed(t, i) == Square(ModuleTargets(asked, t)[i])
<1>1. PICK p \in Int, q \in Int :
        \A t \in Int : \A i \in Modules :
          ModuleTargets(asked, t)[i] = Corners(p, q, 5 * t * Forward, 5 * t * Horizontal)[i]
  BY TargetsAre
<1>2. PICK k \in Nat, g \in [Modules -> Int] :
        /\ g[3] = -g[1] /\ g[4] = -g[2]
        /\ \A t \in Int, i \in Modules :
             Square(Corners(p, q, 5 * t * Forward, 5 * t * Horizontal)[i])
               = (p * p + q * q) + k * (t * t) + t * g[i]
  BY SpeedOf
<1>3. \A t \in Int, i \in Modules : /\ speed(t, i) = (p * p + q * q) + k * (t * t) + t * g[i]
                                    /\ speed(t, i) \in Int
  <2> SUFFICES ASSUME NEW t \in Int, NEW i \in Modules
               PROVE  /\ speed(t, i) = (p * p + q * q) + k * (t * t) + t * g[i]
                      /\ speed(t, i) \in Int
    OBVIOUS
  <2>1. speed(t, i) = (p * p + q * q) + k * (t * t) + t * g[i]
    BY <1>1, <1>2
  <2>2. g[i] \in Int
    BY <1>2
  <2>3. p * p \in Int /\ q * q \in Int /\ k * (t * t) \in Int /\ t * g[i] \in Int
    BY <1>2, <2>2
  <2> QED
    BY <2>1, <2>3
<1> HIDE DEF speed
(* The fastest wheel, and one that is as fast at s.                        *)
<1>4. PICK i \in Modules : MaxMagnitude(ModuleTargets(asked, r)) = speed(r, i)
  BY <1>3, MaxMagnitudeIs DEF speed
<1>5. \E j \in Modules : r * g[i] <= s * g[j]
  <2>1. g[i] \in Int
    BY <1>2
  <2>2. PICK j \in Modules : g[j] = -g[i]
    <3>1. Modules = {1, 2, 3, 4} /\ g[1] \in Int /\ g[2] \in Int
      BY <1>2 DEF Modules
    <3>2. -(-g[1]) = g[1] /\ -(-g[2]) = g[2]
      BY <3>1
    <3>3. \A n \in {1, 2, 3, 4} : \E j \in {1, 2, 3, 4} : g[j] = -g[n]
      BY <1>2, <3>2
    <3> QED
      BY <3>1, <3>3
  <2>3. s * (-g[i]) = (-s) * g[i]
    BY <2>1
  <2> QED
    BY <2>1, <2>2, <2>3, ProductGrows
<1>6. PICK j \in Modules : r * g[i] <= s * g[j]
  BY <1>5
<1>7. speed(r, i) <= speed(s, j)
  <2>1. k * (r * r) <= k * (s * s)
    <3>1. r * r <= s * s /\ r * r \in Int /\ s * s \in Int
      BY SquareGrows
    <3> QED
      BY <1>2, <3>1
  <2> DEFINE kr == k * (r * r)  ks == k * (s * s)  gr == r * g[i]  gs == s * g[j]
             pq == p * p + q * q
  <2>2. g[i] \in Int /\ g[j] \in Int /\ k \in Int
    BY <1>2
  <2>3. kr \in Int /\ ks \in Int /\ gr \in Int /\ gs \in Int /\ pq \in Int
    BY <2>2
  <2>4. speed(r, i) = pq + kr + gr /\ speed(s, j) = pq + ks + gs
    BY <1>3
  <2>5. kr <= ks /\ gr <= gs
    BY <1>6, <2>1
  <2> HIDE DEF kr, ks, gr, gs, pq
  <2> QED
    BY <2>3, <2>4, <2>5
<1>8. speed(s, j) <= MaxMagnitude(ModuleTargets(asked, s))
  BY <1>3, MaxMagnitudeIs DEF speed
<1>9. MaxMagnitude(ModuleTargets(asked, s)) \in Int /\ 25 * m * m \in Int
  <2>1. \E n \in Modules : MaxMagnitude(ModuleTargets(asked, s)) = speed(s, n)
    BY <1>3, MaxMagnitudeIs DEF speed
  <2> QED
    BY <1>3, <2>1
<1> QED
  BY <1>3, <1>4, <1>7, <1>8, <1>9 DEF TooFast

(* What steps leave of a number, and one step more.                        *)
LEMMA StepsLeave ==
  ASSUME NEW size \in Nat, NEW dec \in Nat \ {0}
  PROVE  /\ (size % dec) \in 0 .. (dec - 1) /\ (size % dec) <= size
         /\ (size - (size % dec)) % dec = 0
         /\ \A t \in Int : (size - t) % dec = 0 => (size - (t + dec)) % dec = 0
<1>1. \A k \in Int : (dec * k) % dec = 0
  OBVIOUS
<1>2. /\ (size % dec) \in 0 .. (dec - 1) /\ (size \div dec) \in Nat
      /\ size = dec * (size \div dec) + (size % dec)
  OBVIOUS
<1>3. (size % dec) <= size /\ (size - (size % dec)) % dec = 0
  <2> DEFINE k == size \div dec  rest == size % dec
  <2>1. k \in Nat /\ rest \in Nat /\ size = dec * k + rest
    BY <1>2
  <2> HIDE DEF k, rest
  <2>2. dec * k \in Nat /\ size - rest = dec * k
    BY <2>1
  <2>3. rest <= size /\ (size - rest) % dec = 0
    BY <1>1, <2>1, <2>2
  <2> QED
    BY <2>3 DEF rest
<1>4. ASSUME NEW t \in Int, (size - t) % dec = 0 PROVE (size - (t + dec)) % dec = 0
  <2> DEFINE n == size - t  k == n \div dec
  <2>1. n \in Int /\ n = dec * k + (n % dec) /\ k \in Int
    <3>1. n \in Int
      OBVIOUS
    <3> HIDE DEF n
    <3> QED
      BY <3>1
  <2>2. n = dec * k
    BY <1>4, <2>1
  <2> HIDE DEF k
  <2>3. size - (t + dec) = dec * (k - 1) /\ k - 1 \in Int
    <3>1. dec * (k - 1) = dec * k - dec
      BY <2>1
    <3> QED
      BY <2>1, <2>2, <3>1
  <2> QED
    BY <1>1, <2>3
<1> QED
  BY <1>2, <1>3, <1>4

(* What is left of the rotation: it turns the same way, fits unless it is  *)
(* none at all, and a step more would not.                                 *)
LEMMA CutRotationIs ==
  ASSUME NEW asked \in Motion
  PROVE  LET r == CutRotation(asked)
             size == Absolute(asked.rotation)
             toofast(t) == TooFast(ModuleTargets(asked, t), asked.max_speed)
         IN  /\ r \in -size .. size /\ r * asked.rotation >= 0
             /\ toofast(r) => r = 0
             /\ \/ r = asked.rotation
                \/ toofast(r + CopySign(RotationIterDec, asked.rotation))
                \/ size - Absolute(r) < RotationIterDec
<1> DEFINE R == asked.rotation
           size == Absolute(R)
           dec == RotationIterDec
           toofast(t) == TooFast(ModuleTargets(asked, t), asked.max_speed)
           left == {t \in 0 .. size : (size - t) % dec = 0 /\ ~ toofast(CopySign(t, R))}
           r == CutRotation(asked)
<1>1. R \in Int /\ size \in Nat /\ dec \in Nat \ {0} /\ asked.max_speed \in Int
  BY KinematicsAssumption DEF Motion, Absolute
<1>2. r = IF left = {} THEN 0 ELSE CopySign(Max(left), R)
  BY DEF CutRotation
<1>3. \A t \in Int, u \in Int : Absolute(t) <= Absolute(u) /\ toofast(t) => toofast(u)
  BY <1>1, FasterIsTooFast
<1>4. \A t \in Nat : /\ CopySign(t, R) \in Int /\ Absolute(CopySign(t, R)) = t
                     /\ CopySign(t, R) * R >= 0
  <2> SUFFICES ASSUME NEW t \in Nat
               PROVE  /\ CopySign(t, R) \in Int /\ Absolute(CopySign(t, R)) = t
                      /\ CopySign(t, R) * R >= 0
    OBVIOUS
  <2> HIDE DEF R
  <2>1. CASE R >= 0
    <3>1. t * R >= 0
      BY <1>1, <2>1
    <3> QED
      BY <1>1, <2>1, <3>1 DEF CopySign, Absolute
  <2>2. CASE R < 0
    <3>1. (-t) * R >= 0
      BY <1>1, <2>2
    <3> QED
      BY <1>1, <2>2, <3>1 DEF CopySign, Absolute
  <2> QED
    BY <1>1, <2>1, <2>2
<1> HIDE DEF toofast, r
<1>5. CASE left = {}
  <2>1. r = 0
    BY <1>2, <1>5
  <2>2. 0 \in -size .. size /\ 0 * R >= 0 /\ Absolute(0) = 0
    BY <1>1 DEF Absolute
  <2>3. CASE size >= dec
    <3> DEFINE rest == size % dec
    <3>1. rest \in Nat /\ rest < dec /\ rest \in 0 .. size /\ (size - rest) % dec = 0
      <4> HIDE DEF size, dec
      <4>1. /\ (size % dec) \in 0 .. (dec - 1) /\ (size % dec) <= size
            /\ (size - (size % dec)) % dec = 0
        BY <1>1, StepsLeave
      <4> HIDE DEF left
      <4> QED
        BY <1>1, <4>1
    <3> HIDE DEF rest
    <3>2. toofast(CopySign(rest, R))
      BY <1>5, <3>1
    <3>3. toofast(CopySign(dec, R))
      BY <1>1, <1>3, <1>4, <3>1, <3>2
    <3>4. 0 + CopySign(dec, R) = CopySign(dec, R)
      BY <1>1, <1>4
    <3> QED
      BY <2>1, <2>2, <3>3, <3>4 DEF r, toofast
  <2>4. CASE size < dec
    BY <1>1, <2>1, <2>2, <2>4 DEF r, toofast
  <2> QED
    BY <1>1, <2>3, <2>4
<1>6. CASE left # {}
  <2>1. PICK m \in left : \A n \in left : n <= m
    <3>1. left \subseteq 0 .. size
      OBVIOUS
    <3> HIDE DEF left
    <3> QED
      BY <1>1, <1>6, <3>1, GreatestUpTo
  <2>2. Max(left) \in left /\ \A n \in left : n <= Max(left)
    <3>1. \E x \in left : \A y \in left : x >= y
      BY <2>1
    <3>2. Max(left) \in left /\ \A y \in left : Max(left) >= y
      <4> HIDE DEF left
      <4> QED
        BY <3>1, Zenon DEF Max
    <3> QED
      BY <3>2
  <2> DEFINE top == Max(left)
  <2>3. top \in 0 .. size /\ (size - top) % dec = 0 /\ ~ toofast(CopySign(top, R))
    BY <2>2
  <2>4. r = CopySign(top, R)
    BY <1>2, <1>6
  <2>5. \A n \in left : n <= top
    BY <2>2
  <2> HIDE DEF top
  <2>6. /\ r \in -size .. size /\ r * R >= 0 /\ Absolute(r) = top /\ ~ toofast(r)
    <3>1. CopySign(top, R) \in -size .. size
      BY <1>1, <2>3 DEF CopySign
    <3> QED
      BY <1>4, <2>3, <2>4, <3>1
  <2>7. CASE top + dec <= size
    <3>1. (size - (top + dec)) % dec = 0
      <4> HIDE DEF size, dec, left
      <4>1. \A n \in Int : (size - n) % dec = 0 => (size - (n + dec)) % dec = 0
        BY <1>1, StepsLeave
      <4>2. top \in Int /\ (size - top) % dec = 0
        BY <1>1, <2>3
      <4> QED
        BY <4>1, <4>2
    <3>2. top + dec \in 0 .. size /\ ~(top + dec <= top)
      BY <1>1, <2>3, <2>7
    <3>3. toofast(CopySign(top + dec, R))
      BY <2>5, <3>1, <3>2
    <3>4. CopySign(top + dec, R) = r + CopySign(dec, R)
      BY <1>1, <2>3, <2>4 DEF CopySign
    <3> QED
      BY <2>6, <3>3, <3>4 DEF r, toofast
  <2>8. CASE size < top + dec
    <3>1. size - Absolute(r) < dec
      BY <1>1, <2>3, <2>6, <2>8
    <3> QED
      BY <2>6, <3>1 DEF r, toofast
  <2> QED
    BY <1>1, <2>3, <2>7, <2>8
<1> QED
  BY <1>5, <1>6

(* What the wheels share is the robot's motion, and the rest its rotation. *)
LEMMA RestIsRotation ==
  ASSUME NEW p \in Int, NEW q \in Int, NEW r \in Int, NEW i \in Modules
  PROVE  Minus(Corners(p, q, 5 * r * Forward, 5 * r * Horizontal)[i], <<p, q>>)
           = <<5 * r * Location[i][2], -5 * r * Location[i][1]>>
<1> DEFINE a == 5 * r * Forward  b == 5 * r * Horizontal
<1>1. a \in Int /\ b \in Int /\ Forward \in Int /\ Horizontal \in Int
  BY KinematicsAssumption
<1>2. /\ 5 * r * (-Forward) = -a /\ -5 * r * Horizontal = -b
      /\ -5 * r * (-Horizontal) = b
  BY <1>1
<1>3. <<5 * r * Location[i][2], -5 * r * Location[i][1]>>
        = << <<a, -b>>, <<a, b>>, <<-a, b>>, <<-a, -b>> >>[i]
  BY <1>2 DEF Location, Modules
<1> HIDE DEF a, b
<1>4. /\ (p + a) - p = a /\ (p - a) - p = -a
      /\ (q + b) - q = b /\ (q - b) - q = -b
  BY <1>1
<1>5. Minus(Corners(p, q, a, b)[i], <<p, q>>)
        = << <<a, -b>>, <<a, b>>, <<-a, b>>, <<-a, -b>> >>[i]
  BY <1>4 DEF Minus, Corners, Modules
<1> QED
  BY <1>3, <1>5 DEF a, b

(* The wheels do what the calculator was asked for, whatever that was: no  *)
(* wheel is too fast, and rotation is given up only as far as it must      *)
(* (swerve_ol_calculator.cc:9-88).                                         *)
THEOREM WheelsObey ==
  ASSUME NEW asked \in Motion, Answered("wheels", asked, calculate(asked))
  PROVE  WheelsAsAsked
<1> DEFINE r == IF asked.cut THEN CutRotation(asked) ELSE asked.rotation
           targets == ModuleTargets(asked, r)
           mean == InFrame(asked.translation, asked.bearing)
           most == Absolute(asked.rotation)
           m == asked.max_speed
           toofast(t) == TooFast(ModuleTargets(asked, t), m)
<1>1. /\ call.of = "wheels" /\ call.in = asked
      /\ call.out.targets = targets /\ call.out.rescaled = toofast(r)
      /\ call.out.fastest = MaxMagnitude(targets)
  BY DEF Answered, calculate
<1>2. /\ asked.rotation \in Int /\ most \in Nat /\ m \in Int /\ asked.cut \in BOOLEAN
      /\ RotationIterDec \in Nat /\ asked.rotation \in -most .. most
      /\ asked.rotation * asked.rotation >= 0
  <2>1. asked.rotation \in Int /\ m \in Int /\ asked.cut \in BOOLEAN /\ RotationIterDec \in Nat
    BY KinematicsAssumption DEF Motion
  <2> DEFINE R == asked.rotation
  <2> HIDE DEF R
  <2>2. Absolute(R) \in Nat /\ R \in -Absolute(R) .. Absolute(R) /\ R * R >= 0
    BY <2>1 DEF R, Absolute
  <2> QED
    BY <2>1, <2>2 DEF R
<1>3. /\ r \in -most .. most /\ r * asked.rotation >= 0
      /\ ~ asked.cut => r = asked.rotation
      /\ asked.cut /\ toofast(r) => r = 0 /\ toofast(0)
      /\ r # asked.rotation => \/ toofast(r + CopySign(RotationIterDec, asked.rotation))
                               \/ most - Absolute(r) < RotationIterDec
  <2>1. CASE asked.cut
    <3>1. r = CutRotation(asked)
      BY <2>1
    <3> HIDE DEF r
    <3> QED
      BY <2>1, <3>1, CutRotationIs
  <2>2. CASE ~ asked.cut
    BY <1>2, <2>2
  <2> QED
    BY <1>2, <2>1, <2>2
<1>4. PICK p \in Int, q \in Int :
        /\ mean = <<p, q>>
        /\ \A t \in Int : \A i \in Modules :
             ModuleTargets(asked, t)[i] = Corners(p, q, 5 * t * Forward, 5 * t * Horizontal)[i]
  BY TargetsAre
<1>5. r \in Int
  BY <1>2, <1>3
<1> HIDE DEF r, mean, most, m
<1>6. \A i \in Modules : Square(targets[i]) \in Int
  <2> SUFFICES ASSUME NEW i \in Modules PROVE Square(targets[i]) \in Int
    OBVIOUS
  <2>1. targets[i] = Corners(p, q, 5 * r * Forward, 5 * r * Horizontal)[i]
    BY <1>4, <1>5
  <2>2. 5 * r * Forward \in Int /\ 5 * r * Horizontal \in Int
    BY <1>5, KinematicsAssumption
  <2> QED
    BY <2>1, <2>2, CornersAre
<1>7. \A i \in Modules : Minus(targets[i], mean)
                           = <<5 * r * Location[i][2], -5 * r * Location[i][1]>>
  BY <1>4, <1>5, RestIsRotation
<1> HIDE DEF targets
<1>8. \A i \in Modules : Square(targets[i]) <= IF toofast(r) THEN MaxMagnitude(targets)
                                               ELSE 25 * m * m
  <2>1. /\ \A i \in Modules : Square(targets[i]) <= MaxMagnitude(targets)
        /\ MaxMagnitude(targets) \in Int
    BY <1>6, MaxMagnitudeIs
  <2>2. toofast(r) <=> MaxMagnitude(targets) > 25 * m * m
    BY DEF TooFast, targets
  <2>3. 25 * m * m \in Int
    BY <1>2
  <2> HIDE DEF toofast
  <2> QED
    BY <1>6, <2>1, <2>2, <2>3
<1>9. r \in Turning(targets, mean, most)
  BY <1>3, <1>7 DEF Turning
<1> QED
  BY <1>1, <1>3, <1>8, <1>9, Zenon DEF WheelsAsAsked, most, mean, m, targets
-----------------------------------------------------------------------------
Circle == {a \in Pairs : a[1] * a[1] + a[2] * a[2] = 25}

(* What four vectors add up to that are each turned the same way.          *)
LEMMA FourSums ==
  ASSUME NEW g \in Int, NEW h \in Int, NEW k \in Int, NEW l \in Int,
         NEW t1, NEW t2, NEW t3, NEW t4,
         t1 = (g + h) + (k - l), t2 = (g + h) + (k + l),
         t3 = (g - h) + (k + l), t4 = (g - h) + (k - l)
  PROVE  (t1 + t2) + (t3 + t4) = 4 * (g + k)
OBVIOUS

LEMMA FourDifferences ==
  ASSUME NEW g \in Int, NEW h \in Int, NEW k \in Int, NEW l \in Int,
         NEW t1, NEW t2, NEW t3, NEW t4,
         t1 = (g - h) - (k + l), t2 = (g + h) - (k + l),
         t3 = (g + h) - (k - l), t4 = (g - h) - (k - l)
  PROVE  (t1 + t2) + (t3 + t4) = 4 * (g - k)
OBVIOUS

LEMMA ProductsOfSums ==
  ASSUME NEW p \in Int, NEW a \in Int, NEW c \in Int
  PROVE  (p + a) * c = p * c + a * c /\ (p - a) * c = p * c - a * c
OBVIOUS

(* What the odometry makes of the ways: rotation cancels.                  *)
FourTimes(p, q, c, s) == <<4 * (p * c + q * s), 4 * (q * c - p * s)>>

LEMMA RotationCancels ==
  ASSUME NEW p \in Int, NEW q \in Int, NEW a \in Int, NEW b \in Int,
         NEW c \in Int, NEW s \in Int, NEW ways,
         \A i \in Modules : ways[i] = Corners(p, q, a, b)[i]
  PROVE  SumOfWays(ways, <<c, s>>) = FourTimes(p, q, c, s)
<1> DEFINE x1 == (p + a) * c + (q - b) * s   y1 == (q - b) * c - (p + a) * s
           x2 == (p + a) * c + (q + b) * s   y2 == (q + b) * c - (p + a) * s
           x3 == (p - a) * c + (q + b) * s   y3 == (q + b) * c - (p - a) * s
           x4 == (p - a) * c + (q - b) * s   y4 == (q - b) * c - (p - a) * s
<1>1. /\ ways[1] = <<p + a, q - b>> /\ ways[2] = <<p + a, q + b>>
      /\ ways[3] = <<p - a, q + b>> /\ ways[4] = <<p - a, q - b>>
  BY DEF Corners, Modules
<1>2. /\ Rotate(ways[1], <<c, s>>) = <<x1, y1>> /\ Rotate(ways[2], <<c, s>>) = <<x2, y2>>
      /\ Rotate(ways[3], <<c, s>>) = <<x3, y3>> /\ Rotate(ways[4], <<c, s>>) = <<x4, y4>>
  <2>1. \A u, v : Rotate(<<u, v>>, <<c, s>>) = <<u * c + v * s, v * c - u * s>>
    BY DEF Rotate, Cos, Sin
  <2> QED
    BY <1>1, <2>1, Zenon
<1> DEFINE pc == p * c  ps == p * s  qc == q * c  qs == q * s
           ac == a * c  sa == a * s  bc == b * c  bs == b * s
<1>3. /\ pc \in Int /\ ps \in Int /\ qc \in Int /\ qs \in Int
      /\ ac \in Int /\ sa \in Int /\ bc \in Int /\ bs \in Int
  OBVIOUS
<1>4. /\ (p + a) * c = pc + ac /\ (p - a) * c = pc - ac
      /\ (p + a) * s = ps + sa /\ (p - a) * s = ps - sa
      /\ (q + b) * c = qc + bc /\ (q - b) * c = qc - bc
      /\ (q + b) * s = qs + bs /\ (q - b) * s = qs - bs
  BY ProductsOfSums
<1> HIDE DEF pc, ps, qc, qs, ac, sa, bc, bs
<1>5. /\ x1 = (pc + ac) + (qs - bs) /\ x2 = (pc + ac) + (qs + bs)
      /\ x3 = (pc - ac) + (qs + bs) /\ x4 = (pc - ac) + (qs - bs)
  BY <1>4, Zenon
<1>6. /\ y1 = (qc - bc) - (ps + sa) /\ y2 = (qc + bc) - (ps + sa)
      /\ y3 = (qc + bc) - (ps - sa) /\ y4 = (qc - bc) - (ps - sa)
  BY <1>4, Zenon
<1> HIDE DEF x1, x2, x3, x4, y1, y2, y3, y4
<1>7. (x1 + x2) + (x3 + x4) = 4 * (pc + qs)
  BY <1>3, <1>5, FourSums
<1>8. (y1 + y2) + (y3 + y4) = 4 * (qc - ps)
  BY <1>3, <1>6, FourDifferences
<1>9. SumOfWays(ways, <<c, s>>) = <<(x1 + x2) + (x3 + x4), (y1 + y2) + (y3 + y4)>>
  <2>1. SumOfWays(ways, <<c, s>>)
          = Plus(Plus(Rotate(ways[1], <<c, s>>), Rotate(ways[2], <<c, s>>)),
                 Plus(Rotate(ways[3], <<c, s>>), Rotate(ways[4], <<c, s>>)))
    BY DEF SumOfWays
  <2>2. SumOfWays(ways, <<c, s>>) = Plus(Plus(<<x1, y1>>, <<x2, y2>>),
                                            Plus(<<x3, y3>>, <<x4, y4>>))
    BY <1>2, <2>1, Zenon
  <2>3. Plus(Plus(<<x1, y1>>, <<x2, y2>>), Plus(<<x3, y3>>, <<x4, y4>>))
          = <<(x1 + x2) + (x3 + x4), (y1 + y2) + (y3 + y4)>>
    BY DEF Plus
  <2> QED
    BY <2>2, <2>3, Zenon
<1> QED
  BY <1>7, <1>8, <1>9, Zenon DEF pc, ps, qc, qs, FourTimes

(* The robot's bearing turns the translation to its frame and back.        *)
LEMMA ThereAndBack ==
  ASSUME NEW x \in Int, NEW y \in Int, NEW c \in Int, NEW s \in Int, c * c + s * s = 25,
         NEW p \in Int, NEW q \in Int, p = x * c - y * s, q = y * c + x * s
  PROVE  4 * (p * c + q * s) = x * 100 /\ 4 * (q * c - p * s) = y * 100
<1> DEFINE cc == c * c  ss == s * s  cs == c * s
<1>1. /\ p * c = x * cc - y * cs /\ q * s = y * cs + x * ss
      /\ q * c = y * cc + x * cs /\ p * s = x * cs - y * ss
  OBVIOUS
<1>2. x * cc + x * ss = x * (cc + ss) /\ y * cc + y * ss = y * (cc + ss)
  OBVIOUS
<1>3. /\ x * cc \in Int /\ x * ss \in Int /\ x * cs \in Int
      /\ y * cc \in Int /\ y * ss \in Int /\ y * cs \in Int /\ cc + ss = 25
  OBVIOUS
<1> DEFINE xcc == x * cc  xss == x * ss  xcs == x * cs
           ycc == y * cc  yss == y * ss  ycs == y * cs
<1>4. /\ p * c = xcc - ycs /\ q * s = ycs + xss /\ q * c = ycc + xcs /\ p * s = xcs - yss
      /\ xcc + xss = x * 25 /\ ycc + yss = y * 25
      /\ xcc \in Int /\ xss \in Int /\ xcs \in Int
      /\ ycc \in Int /\ yss \in Int /\ ycs \in Int
  BY <1>1, <1>2, <1>3
<1> HIDE DEF xcc, xss, xcs, ycc, yss, ycs
<1>5. p * c + q * s = x * 25 /\ q * c - p * s = y * 25
  BY <1>4
<1> QED
  BY <1>5

LEMMA MovesAsAsked ==
  ASSUME NEW asked \in Motion, asked.bearing \in Circle
  PROVE  /\ SumOfWays(calculate(asked).targets, asked.bearing)
              = Times(asked.translation, 100)
         /\ Times(asked.translation, 100) \in Pairs
<1> DEFINE x == asked.translation[1]  y == asked.translation[2]
           c == asked.bearing[1]      s == asked.bearing[2]
           r == IF asked.cut THEN CutRotation(asked) ELSE asked.rotation
<1>1. asked.translation = <<x, y>> /\ asked.bearing = <<c, s>>
      /\ x \in Int /\ y \in Int /\ c \in Int /\ s \in Int
  <2>1. asked.translation \in Pairs /\ asked.bearing \in Pairs
    BY DEF Motion
  <2> QED
    BY <2>1, PairOf
<1>2. c * c + s * s = 25
  BY DEF Circle, c, s
<1>3. r \in Int
  <2>1. asked.rotation \in Int /\ Absolute(asked.rotation) \in Int
    BY DEF Motion, Absolute
  <2> QED
    BY <2>1, CutRotationIs
<1>4. calculate(asked).targets = ModuleTargets(asked, r)
  BY DEF calculate
<1> HIDE DEF r
<1>5. PICK p \in Int, q \in Int :
        /\ InFrame(asked.translation, asked.bearing) = <<p, q>>
        /\ \A t \in Int : \A i \in Modules :
             ModuleTargets(asked, t)[i] = Corners(p, q, 5 * t * Forward, 5 * t * Horizontal)[i]
  BY TargetsAre
<1> DEFINE a == 5 * r * Forward  b == 5 * r * Horizontal
<1>6. a \in Int /\ b \in Int
  BY <1>3, KinematicsAssumption
<1>7. \A i \in Modules : calculate(asked).targets[i] = Corners(p, q, a, b)[i]
  BY <1>3, <1>4, <1>5
<1>c. c \in Int /\ s \in Int /\ p \in Int /\ q \in Int
  BY <1>1
<1> HIDE DEF x, y, c, s, a, b
<1>8. p = x * c - y * s /\ q = y * c + x * s
  <2>1. InFrame(<<x, y>>, <<c, s>>) = <<x * c + y * (-s), x * s + y * c>>
    BY DEF InFrame, RightOf, AheadOf, Dot, Cos, Sin
  <2>2. x * c + y * (-s) = x * c - y * s /\ x * s + y * c = y * c + x * s
    BY <1>1
  <2> QED
    BY <1>1, <1>5, <2>1, <2>2
<1>9. SumOfWays(calculate(asked).targets, <<c, s>>) = <<x * 100, y * 100>>
  <2> DEFINE ways == calculate(asked).targets
  <2>1. \A i \in Modules : ways[i] = Corners(p, q, a, b)[i]
    BY <1>7
  <2> HIDE DEF ways
  <2>2. SumOfWays(ways, <<c, s>>) = FourTimes(p, q, c, s)
    <3>1. /\ c \in Int /\ s \in Int /\ p \in Int /\ q \in Int
          /\ a \in Int /\ b \in Int
      BY <1>c, <1>6
    <3>2. \A w : (\A i \in Modules : w[i] = Corners(p, q, a, b)[i])
                => SumOfWays(w, <<c, s>>) = FourTimes(p, q, c, s)
      BY <3>1, RotationCancels
    <3> QED
      BY <2>1, <3>2, Zenon
  <2>3. 4 * (p * c + q * s) = x * 100 /\ 4 * (q * c - p * s) = y * 100
    BY <1>1, <1>2, <1>8, ThereAndBack
  <2> QED
    BY <2>2, <2>3, Zenon DEF ways, FourTimes
<1> QED
  BY <1>1, <1>9 DEF Times, Pairs

(* Two motions, one after the other, are found by the odometry as the      *)
(* fudge factor's share of what was asked for, from wherever the robot was *)
(* put, with any bearings, rotations and speeds and any factor             *)
(* (swerve_odometry_calculator.cc:7-28, .h).                               *)
THEOREM OdometryFollows ==
  ASSUME NEW last \in Pairs, NEW start \in Pairs, NEW odom_ff \in Int,
         NEW m \in Motion, NEW n \in Motion, m.bearing \in Circle, n.bearing \in Circle,
         LET journey == [last |-> last, start |-> start, odom_ff |-> odom_ff,
                         moves |-> <<m, n>>]
         IN  Answered("odometry", journey, Travel(journey))
  PROVE  OdometrySeesMotion
<1> DEFINE journey == [last |-> last, start |-> start, odom_ff |-> odom_ff,
                       moves |-> <<m, n>>]
           v == Displacement(calculate(m).targets, m.bearing, odom_ff)
           w == Displacement(calculate(n).targets, n.bearing, odom_ff)
<1>1. call.of = "odometry" /\ call.in = journey /\ call.out = Travel(journey)
  BY DEF Answered
<1>2. /\ journey.moves[1] = m /\ journey.moves[2] = n /\ journey.start = start
      /\ journey.last = last /\ journey.odom_ff = odom_ff
  OBVIOUS
<1>3. Travel(journey) = Plus(Plus(Plus(last, v), w), Minus(start, last))
  BY <1>2 DEF Travel, SetPosition, Moved, OdometryPosition
<1>4. /\ v = Times(Times(m.translation, 100), odom_ff)
      /\ w = Times(Times(n.translation, 100), odom_ff)
      /\ m.translation \in Pairs /\ n.translation \in Pairs
  BY MovesAsAsked DEF Motion, Displacement
<1> HIDE DEF journey, v, w
<1>5. \A t, u \in Pairs :
        Plus(Plus(Plus(last, Times(Times(t, 100), odom_ff)), Times(Times(u, 100), odom_ff)),
             Minus(start, last))
          = Plus(start, Times(Times(Plus(t, u), 100), odom_ff))
  <2> SUFFICES ASSUME NEW t \in Pairs, NEW u \in Pairs
               PROVE  Plus(Plus(Plus(last, Times(Times(t, 100), odom_ff)),
                                Times(Times(u, 100), odom_ff)),
                           Minus(start, last))
                        = Plus(start, Times(Times(Plus(t, u), 100), odom_ff))
    OBVIOUS
  <2>1. /\ last[1] \in Int /\ last[2] \in Int /\ start[1] \in Int /\ start[2] \in Int
        /\ t[1] \in Int /\ t[2] \in Int /\ u[1] \in Int /\ u[2] \in Int
    BY PairOf
  <2>2. ASSUME NEW a \in Int, NEW b \in Int, NEW l \in Int, NEW o \in Int
        PROVE  ((l + (a * 100) * odom_ff) + (b * 100) * odom_ff) + (o - l)
                 = o + ((a + b) * 100) * odom_ff
    <3>1. ((a + b) * 100) * odom_ff = (a * 100) * odom_ff + (b * 100) * odom_ff
      BY ProductsOfSums
    <3>2. (a * 100) * odom_ff \in Int /\ (b * 100) * odom_ff \in Int
      OBVIOUS
    <3> QED
      BY <3>1, <3>2
  <2> QED
    BY <2>1, <2>2 DEF Plus, Minus, Times
<1>6. Travel(journey)
        = Plus(start, Times(Times(Plus(m.translation, n.translation), 100), odom_ff))
  BY <1>3, <1>4, <1>5
<1> QED
  BY <1>1, <1>2, <1>6, Zenon DEF OdometrySeesMotion
-----------------------------------------------------------------------------
(* What is turned from the robot's frame and seen from it is what it was,  *)
(* and what is turned round besides is the opposite.                       *)
LEMMA TurnedAndSeen ==
  ASSUME NEW x \in Int, NEW y \in Int, NEW c \in Int, NEW s \in Int, c * c + s * s = 25
  PROVE  /\ InFrame(Rotate(<<x, y>>, <<c, s>>), <<c, s>>) = <<x * 25, y * 25>>
         /\ InFrame(Times(Rotate(<<x, y>>, <<c, s>>), -1), <<c, s>>) = <<x * (-25), y * (-25)>>
<1> DEFINE u == x * c + y * s
           v == y * c - x * s
<1>1. u * c - v * s = x * 25 /\ v * c + u * s = y * 25
  <2> DEFINE xcc == x * (c * c)  xss == x * (s * s)  xcs == x * (c * s)
             ycc == y * (c * c)  yss == y * (s * s)  ycs == y * (c * s)
  <2>1. /\ u * c = xcc + ycs /\ v * s = ycs - xss /\ v * c = ycc - xcs /\ u * s = xcs + yss
        /\ xcc \in Int /\ xss \in Int /\ xcs \in Int
        /\ ycc \in Int /\ yss \in Int /\ ycs \in Int
    OBVIOUS
  <2>2. xcc + xss = x * (c * c + s * s) /\ ycc + yss = y * (c * c + s * s)
    OBVIOUS
  <2>3. xcc + xss = x * 25 /\ ycc + yss = y * 25
    BY <2>2
  <2> HIDE DEF u, v, xcc, xss, xcs, ycc, yss, ycs
  <2> QED
    BY <2>1, <2>3
<1>2. Rotate(<<x, y>>, <<c, s>>) = <<u, v>>
  BY DEF Rotate, Cos, Sin
<1>3. u \in Int /\ v \in Int
  OBVIOUS
<1> HIDE DEF u, v
<1>4. \A m, n \in Int : InFrame(<<m, n>>, <<c, s>>) = <<m * c - n * s, n * c + m * s>>
  <2> SUFFICES ASSUME NEW m \in Int, NEW n \in Int
               PROVE  InFrame(<<m, n>>, <<c, s>>) = <<m * c - n * s, n * c + m * s>>
    OBVIOUS
  <2>1. InFrame(<<m, n>>, <<c, s>>) = <<m * c + n * (-s), m * s + n * c>>
    BY DEF InFrame, RightOf, AheadOf, Dot, Cos, Sin
  <2>2. m * c + n * (-s) = m * c - n * s /\ m * s + n * c = n * c + m * s
    OBVIOUS
  <2> QED
    BY <2>1, <2>2
<1>5. InFrame(<<u, v>>, <<c, s>>) = <<x * 25, y * 25>>
  BY <1>1, <1>3, <1>4
<1>6. InFrame(<<u * (-1), v * (-1)>>, <<c, s>>) = <<x * (-25), y * (-25)>>
  <2>1. /\ (u * (-1)) * c - (v * (-1)) * s = -(u * c - v * s)
        /\ (v * (-1)) * c + (u * (-1)) * s = -(v * c + u * s)
        /\ u * (-1) \in Int /\ v * (-1) \in Int
    BY <1>3
  <2>2. -(x * 25) = x * (-25) /\ -(y * 25) = y * (-25)
    OBVIOUS
  <2> QED
    BY <1>1, <1>4, <2>1, <2>2
<1> QED
  BY <1>2, <1>5, <1>6 DEF Times

(* A button of rc_control moves the robot along its own axes, as pressed   *)
(* on the red side and the other way on the blue side, with any bearing,   *)
(* sticks, limiters and alignment (DriveCommand::calculateTarget).         *)
THEOREM ButtonsMoveAlongAxes ==
  ASSUME NEW ramp, NEW in, in.rc_control, in.blue \in BOOLEAN, in.bearing \in Circle,
         Answered("rc", in, Target(ramp, in))
  PROVE  TeleopAsDriven
<1> DEFINE x == RcVelocity(in.button)[1]  y == RcVelocity(in.button)[2]
           c == in.bearing[1]  s == in.bearing[2]
           turned == Rotate(RcVelocity(in.button), in.bearing)
<1>1. call.of = "rc" /\ call.in = in
      /\ call.out.velocity = IF in.blue THEN Times(turned, -1) ELSE turned
  BY DEF Answered, Target
<1>2. RcVelocity(in.button) \in Pairs
  <2>1. RcSpeed \in Int
    BY TeleopAssumption
  <2>2. RcVelocity(in.button) \in {<<RcSpeed, 0>>, <<-RcSpeed, 0>>, <<0, RcSpeed>>,
                                   <<0, -RcSpeed>>, <<0, 0>>}
    BY Zenon DEF RcVelocity
  <2> QED
    BY <2>1, <2>2 DEF Pairs
<1>3. /\ RcVelocity(in.button) = <<x, y>> /\ x \in Int /\ y \in Int
      /\ in.bearing = <<c, s>> /\ c \in Int /\ s \in Int /\ c * c + s * s = 25
  BY <1>2, PairOf DEF Circle
<1> HIDE DEF x, y, c, s
<1>4. /\ InFrame(turned, in.bearing) = <<x * 25, y * 25>>
      /\ InFrame(Times(turned, -1), in.bearing) = <<x * (-25), y * (-25)>>
  BY <1>3, TurnedAndSeen
<1>5. InFrame(call.out.velocity, call.in.bearing)
        = Times(RcVelocity(call.in.button), 25 * Side(call.in.blue))
  <2>1. CASE in.blue
    BY <1>1, <1>3, <1>4, <2>1 DEF Times, Side
  <2>2. CASE ~ in.blue
    BY <1>1, <1>3, <1>4, <2>2 DEF Times, Side
  <2> QED
    BY <2>1, <2>2
<1> QED
  BY <1>1, <1>5 DEF TeleopAsDriven
-----------------------------------------------------------------------------
(* What a robot with a bearing sees at a place of its own frame is there   *)
(* on the field where rotate() puts it.                                    *)
LEMMA WorldIsRotated ==
  ASSUME NEW v \in Pairs, NEW b \in Pairs
  PROVE  World(v, b) = Rotate(v, b) /\ Rotate(v, b) \in Pairs
<1> DEFINE x == v[1]  y == v[2]  c == b[1]  s == b[2]
           xc == x * c  xs == x * s  yc == y * c  ys == y * s
<1>1. x \in Int /\ y \in Int /\ c \in Int /\ s \in Int
  BY PairOf
<1> HIDE DEF x, y, c, s
<1>2. /\ xc \in Int /\ xs \in Int /\ yc \in Int /\ ys \in Int
      /\ c * x = xc /\ (-s) * x = -xs /\ s * y = ys /\ c * y = yc
  BY <1>1
<1>3. World(v, b) = <<c * x + s * y, (-s) * x + c * y>>
  BY DEF World, RightOf, AheadOf, Plus, Times, Cos, Sin, x, y, c, s
<1>4. Rotate(v, b) = <<x * c + y * s, y * c - x * s>>
  BY DEF Rotate, Cos, Sin, x, y, c, s
<1> HIDE DEF xc, xs, yc, ys
<1>5. x * c = xc /\ y * s = ys /\ y * c = yc /\ x * s = xs
  BY DEF xc, xs, yc, ys
<1> QED
  BY <1>2, <1>3, <1>4, <1>5 DEF Pairs

(* Turned by any number of quarters and back.                              *)
LEMMA TurnedBack ==
  ASSUME NEW b \in Pairs, NEW n \in Int
  PROVE  QuarterTurned(QuarterTurned(b, n), -n) = b
<1>1. /\ b[1] \in Int /\ b[2] \in Int /\ b = <<b[1], b[2]>>
  BY PairOf
<1>2. \A z \in Int : -(-z) = z
  OBVIOUS
<1>3. CASE n % 4 = 0
  <2>1. (-n) % 4 = 0
    BY <1>3
  <2> QED
    BY <1>3, <2>1 DEF QuarterTurned
<1>4. CASE n % 4 = 1
  <2>1. (-n) % 4 = 3
    BY <1>4
  <2>2. QuarterTurned(b, n) = QuarterMore(b)
    BY <1>4 DEF QuarterTurned
  <2>3. \A a : QuarterTurned(a, -n) = <<Sin(a), -Cos(a)>>
    BY <2>1 DEF QuarterTurned
  <2> QED
    BY <1>1, <1>2, <2>2, <2>3 DEF QuarterMore, Sin, Cos
<1>5. CASE n % 4 = 2
  <2>1. (-n) % 4 = 2
    BY <1>5
  <2>2. QuarterTurned(b, n) = <<-Cos(b), -Sin(b)>>
    BY <1>5 DEF QuarterTurned
  <2>3. \A a : QuarterTurned(a, -n) = <<-Cos(a), -Sin(a)>>
    BY <2>1 DEF QuarterTurned
  <2> QED
    BY <1>1, <1>2, <2>2, <2>3 DEF Sin, Cos
<1>6. CASE n % 4 = 3
  <2>1. (-n) % 4 = 1
    BY <1>6
  <2>2. QuarterTurned(b, n) = <<Sin(b), -Cos(b)>>
    BY <1>6 DEF QuarterTurned
  <2>3. \A a : QuarterTurned(a, -n) = QuarterMore(a)
    BY <2>1 DEF QuarterTurned
  <2> QED
    BY <1>1, <1>2, <2>2, <2>3 DEF QuarterMore, Sin, Cos
<1> QED
  BY <1>3, <1>4, <1>5, <1>6

(* A robot that is at "position" with this bearing sees something at "at"  *)
(* of its own frame, "at" in fifths.                                       *)
Sees(position, bearing, place, at) ==
  Times(Minus(place, position), 25) = World(at, bearing)

(* A tag that a camera sees from there, of which the robot hears after it  *)
(* has turned; where the robot is by then.                                 *)
Sighting(position, bearing, velocity, turns, pose, frame, camera, j, tag_locations) ==
  /\ frame.tl \in Int /\ frame.delay \in Int
  /\ frame.distances[j] \in Int /\ frame.tx[j] \in Pairs
  /\ tag_locations[frame.tags[j]] \in Pairs
  /\ Sees(position, bearing, tag_locations[frame.tags[j]],
          Plus(Times(CameraOffset[camera], 5), AtBearing(frame.distances[j], frame.tx[j])))
  /\ pose.bearing = QuarterTurned(bearing, turns * (frame.tl + frame.delay))
  /\ pose.velocity = velocity

MovedTo(position, velocity, time) == Times(Plus(position, Times(velocity, time)), 25)

(* Every tag that a camera sees puts the robot where it is now, from any   *)
(* camera, angle and distance, though it has moved and turned since the    *)
(* capture by which the estimate of its position has no part               *)
(* (AprilTagCalculator::calculate, getPos).                                *)
THEOREM TagShowsPosition ==
  ASSUME NEW position \in Pairs, NEW bearing \in Pairs, NEW velocity \in Pairs,
         NEW turns \in Int, NEW pose, NEW frame, NEW camera \in DOMAIN CameraOffset, NEW j,
         NEW tag_locations,
         Sighting(position, bearing, velocity, turns, pose, frame, camera, j, tag_locations)
  PROVE  ByTag(pose, turns, frame, camera, j, tag_locations)
           = MovedTo(position, velocity, frame.tl + frame.delay)
<1> USE DEF Sighting
<1> DEFINE tl == frame.tl + frame.delay
           tag == tag_locations[frame.tags[j]]
           at == Plus(Times(CameraOffset[camera], 5),
                      AtBearing(frame.distances[j], frame.tx[j]))
           p1 == position[1]  p2 == position[2]  t1 == tag[1]  t2 == tag[2]
           v1 == velocity[1]  v2 == velocity[2]
<1>1. tl \in Int /\ turns * tl \in Int
  OBVIOUS
<1>2. BearingAtCapture(pose, turns, tl) = bearing
  <2> DEFINE n == turns * tl
  <2>1. n \in Int /\ pose.bearing = QuarterTurned(bearing, n)
    BY <1>1
  <2>2. BearingAtCapture(pose, turns, tl) = QuarterTurned(pose.bearing, -n)
    BY DEF BearingAtCapture
  <2> HIDE DEF n
  <2> QED
    BY <2>1, <2>2, TurnedBack
<1>3. at \in Pairs
  <2>1. CameraOffset[camera] \in Pairs
    BY LocalizationAssumption DEF Pairs
  <2> DEFINE o == CameraOffset[camera]  d == frame.distances[j]  th == frame.tx[j]
  <2>2. o[1] \in Int /\ o[2] \in Int /\ th[1] \in Int /\ th[2] \in Int /\ d \in Int
    BY <2>1, PairOf
  <2> HIDE DEF o, d, th
  <2>3. at = <<o[1] * 5 + d * th[2], o[2] * 5 + d * th[1]>>
    BY DEF Plus, Times, AtBearing, Sin, Cos, o, d, th
  <2>4. d * th[2] \in Int /\ d * th[1] \in Int
    BY <2>2
  <2> HIDE DEF at
  <2> QED
    BY <2>2, <2>3, <2>4 DEF Pairs
<1>4. Rotate(at, bearing) = <<(t1 - p1) * 25, (t2 - p2) * 25>>
  <2>1. Times(Minus(tag, position), 25) = Rotate(at, bearing)
    BY <1>3, WorldIsRotated DEF Sees
  <2> QED
    BY <2>1 DEF Times, Minus
<1>5. getPos(bearing, frame.tx[j], frame.distances[j], tag, camera)
        = Minus(Times(tag, 25), Rotate(at, bearing))
  BY DEF getPos
<1>6. ByTag(pose, turns, frame, camera, j, tag_locations)
        = Plus(Minus(Times(tag, 25), Rotate(at, bearing)), Times(Times(velocity, tl), 25))
  BY <1>2, <1>5 DEF ByTag
<1>7. /\ p1 \in Int /\ p2 \in Int /\ t1 \in Int /\ t2 \in Int /\ v1 \in Int /\ v2 \in Int
  BY PairOf
<1> DEFINE w1 == v1 * tl  w2 == v2 * tl
<1>8. w1 \in Int /\ w2 \in Int
  BY <1>1, <1>7
<1>9. Times(velocity, tl) = <<w1, w2>>
  BY DEF Times
<1> HIDE DEF at, tl, tag, p1, p2, t1, t2, v1, v2, w1, w2
<1>10. Plus(Minus(Times(tag, 25), Rotate(at, bearing)), Times(Times(velocity, tl), 25))
         = <<(t1 * 25 - (t1 - p1) * 25) + w1 * 25, (t2 * 25 - (t2 - p2) * 25) + w2 * 25>>
  BY <1>4, <1>9 DEF Plus, Minus, Times, t1, t2
<1>11. Times(Plus(position, Times(velocity, tl)), 25) = <<(p1 + w1) * 25, (p2 + w2) * 25>>
  BY <1>9 DEF Plus, Times, p1, p2
<1>12. /\ (t1 * 25 - (t1 - p1) * 25) + w1 * 25 = (p1 + w1) * 25
       /\ (t2 * 25 - (t2 - p2) * 25) + w2 * 25 = (p2 + w2) * 25
  BY <1>7, <1>8
<1> QED
  BY <1>6, <1>10, <1>11, <1>12 DEF tl, MovedTo

(* Every piece of a frame is where the camera saw it, if the robot moved   *)
(* but did not turn since the capture (GPDSubsystem::ReadFromHardware).    *)
THEOREM PieceShowsPlace ==
  ASSUME NEW pose, NEW latency \in Int, NEW distances, NEW theta_x, NEW place \in Pairs,
         NEW i \in 1 .. Min({Len(distances), Len(theta_x)}),
         pose.position \in Pairs, pose.velocity \in Pairs, pose.bearing \in Pairs,
         distances[i] \in Int, theta_x[i] \in Pairs,
         Sees(Minus(pose.position, Times(pose.velocity, latency)), pose.bearing, place,
              Plus(Times(IntakeToCam, 5), AtBearing(distances[i], theta_x[i])))
  PROVE  GamePieces(pose, 0, latency, distances, theta_x)[i] = Times(place, 25)
<1> DEFINE b == pose.bearing  d == distances[i]  th == theta_x[i]
           then == Minus(pose.position, Times(pose.velocity, latency))
           c == b[1]  s == b[2]  tc == th[1]  ts == th[2]
           o1 == IntakeToCam[1]  o2 == IntakeToCam[2]
           x == d * ts  y == d * tc
<1>1. /\ IntakeToCam \in Pairs /\ b = <<c, s>> /\ th = <<tc, ts>>
      /\ c \in Int /\ s \in Int /\ tc \in Int /\ ts \in Int /\ d \in Int
      /\ o1 \in Int /\ o2 \in Int
  <2>1. IntakeToCam \in Pairs
    BY LocalizationAssumption DEF Pairs
  <2> QED
    BY <2>1, PairOf
<1>2. BearingAtCapture(pose, 0, latency) = b
  <2>1. PICK z \in Int : z = 0 * latency /\ (-z) % 4 = 0
    OBVIOUS
  <2>2. BearingAtCapture(pose, 0, latency) = QuarterTurned(b, -z)
    BY <2>1 DEF BearingAtCapture
  <2> HIDE DEF b
  <2> QED
    <3>1. (-z) % 4 = 0
      BY <2>1
    <3>2. \A a : QuarterTurned(a, -z) = a
      BY <3>1 DEF QuarterTurned
    <3> QED
      BY <2>2, <3>2, Zenon
<1>3. GamePieces(pose, 0, latency, distances, theta_x)[i]
        = Plus(Plus(AtBearing(d, Sum25(b, th)), Times(then, 25)),
               Times(Rotate(IntakeToCam, b), 5))
  BY <1>2 DEF GamePieces
<1>4. then \in Pairs
  <2>1. /\ pose.position[1] \in Int /\ pose.position[2] \in Int
        /\ pose.velocity[1] * latency \in Int /\ pose.velocity[2] * latency \in Int
    BY PairOf
  <2> DEFINE f1 == pose.position[1]  f2 == pose.position[2]
             e1 == pose.velocity[1] * latency  e2 == pose.velocity[2] * latency
  <2>2. then = <<f1 - e1, f2 - e2>>
    BY DEF Minus, Times
  <2> HIDE DEF f1, f2, e1, e2, then
  <2>3. f1 - e1 \in Int /\ f2 - e2 \in Int
    BY <2>1 DEF f1, f2, e1, e2
  <2> QED
    BY <2>2, <2>3 DEF Pairs
<1> HIDE DEF b, d, th, then, c, s, tc, ts, o1, o2
<1>5. x \in Int /\ y \in Int
  BY <1>1
<1>6. AtBearing(d, th) = <<x, y>>
  BY DEF AtBearing, Sin, Cos, tc, ts
<1>7. AtBearing(d, Sum25(b, th)) = Rotate(<<x, y>>, b)
  <2>1. Sum25(b, th) = <<c * tc - s * ts, s * tc + c * ts>>
    BY DEF Sum25, Sin, Cos, c, s, tc, ts
  <2>2. AtBearing(d, Sum25(b, th)) = <<d * (s * tc + c * ts), d * (c * tc - s * ts)>>
    BY <2>1 DEF AtBearing, Sin, Cos
  <2>3. Rotate(<<x, y>>, b) = <<x * c + y * s, y * c - x * s>>
    BY DEF Rotate, Sin, Cos, c, s
  <2>4. d * (s * tc + c * ts) = x * c + y * s /\ d * (c * tc - s * ts) = y * c - x * s
    BY <1>1
  <2> QED
    BY <2>2, <2>3, <2>4
<1> HIDE DEF x, y
<1> DEFINE at == Plus(Times(IntakeToCam, 5), AtBearing(d, th))
<1>8. at = <<o1 * 5 + x, o2 * 5 + y>> /\ at \in Pairs
  <2>1. at = <<o1 * 5 + x, o2 * 5 + y>>
    BY <1>6 DEF Plus, Times, o1, o2
  <2>2. o1 * 5 + x \in Int /\ o2 * 5 + y \in Int
    BY <1>1, <1>5
  <2> HIDE DEF at
  <2> QED
    BY <2>1, <2>2 DEF Pairs
<1>9. Times(Minus(place, then), 25) = Rotate(at, b)
  <2>1. b \in Pairs
    BY DEF b
  <2>2. Sees(then, b, place, at)
    BY DEF then, b, d, th
  <2> HIDE DEF at
  <2> QED
    BY <1>8, <2>1, <2>2, WorldIsRotated DEF Sees
<1>10. Rotate(at, b) = Plus(Rotate(<<x, y>>, b), Times(Rotate(IntakeToCam, b), 5))
  <2> DEFINE o1c == o1 * c  o1s == o1 * s  o2c == o2 * c  o2s == o2 * s
             xc == x * c  xs == x * s  yc == y * c  ys == y * s
  <2>1. /\ o1c \in Int /\ o1s \in Int /\ o2c \in Int /\ o2s \in Int
        /\ xc \in Int /\ xs \in Int /\ yc \in Int /\ ys \in Int
    BY <1>1, <1>5
  <2>2. /\ (o1 * 5 + x) * c = o1c * 5 + xc /\ (o1 * 5 + x) * s = o1s * 5 + xs
        /\ (o2 * 5 + y) * c = o2c * 5 + yc /\ (o2 * 5 + y) * s = o2s * 5 + ys
    BY <1>1, <1>5
  <2>3. Rotate(at, b) = <<(o1 * 5 + x) * c + (o2 * 5 + y) * s,
                          (o2 * 5 + y) * c - (o1 * 5 + x) * s>>
    BY <1>8 DEF Rotate, Sin, Cos, c, s
  <2>4. /\ Rotate(<<x, y>>, b) = <<xc + ys, yc - xs>>
        /\ Times(Rotate(IntakeToCam, b), 5) = <<(o1c + o2s) * 5, (o2c - o1s) * 5>>
    BY DEF Rotate, Times, Sin, Cos, c, s, o1, o2
  <2> HIDE DEF o1c, o1s, o2c, o2s, xc, xs, yc, ys, at
  <2>5. /\ (o1c * 5 + xc) + (o2s * 5 + ys) = (xc + ys) + (o1c + o2s) * 5
        /\ (o2c * 5 + yc) - (o1s * 5 + xs) = (yc - xs) + (o2c - o1s) * 5
    BY <2>1
  <2> QED
    BY <2>2, <2>3, <2>4, <2>5 DEF Plus
<1> DEFINE r == Rotate(<<x, y>>, b)  q == Times(Rotate(IntakeToCam, b), 5)
           m1 == r[1]  m2 == r[2]  q1 == q[1]  q2 == q[2]
           p1 == place[1]  p2 == place[2]  h1 == then[1]  h2 == then[2]
<1>11. /\ m1 \in Int /\ m2 \in Int /\ q1 \in Int /\ q2 \in Int
       /\ p1 \in Int /\ p2 \in Int /\ h1 \in Int /\ h2 \in Int /\ place = <<p1, p2>>
  <2>1. b \in Pairs /\ <<x, y>> \in Pairs
    BY <1>5 DEF Pairs, b
  <2>2. r \in Pairs /\ Rotate(IntakeToCam, b) \in Pairs
    BY <1>1, <2>1, WorldIsRotated
  <2> DEFINE t == Rotate(IntakeToCam, b)
  <2>3. t[1] \in Int /\ t[2] \in Int /\ q = <<t[1] * 5, t[2] * 5>>
    BY <2>2, PairOf DEF Times
  <2> HIDE DEF r, q, t
  <2>4. m1 \in Int /\ m2 \in Int /\ h1 \in Int /\ h2 \in Int
    BY <1>4, <2>2, PairOf
  <2>5. p1 \in Int /\ p2 \in Int /\ place = <<p1, p2>>
    BY PairOf
  <2>6. q1 \in Int /\ q2 \in Int
    BY <2>3
  <2> QED
    BY <2>4, <2>5, <2>6
<1> HIDE DEF r, q, p1, p2
<1>12. (p1 - h1) * 25 = m1 + q1 /\ (p2 - h2) * 25 = m2 + q2
  <2>1. Times(Minus(place, then), 25) = Plus(r, q)
    BY <1>9, <1>10 DEF r, q
  <2> QED
    BY <2>1 DEF Times, Minus, Plus, p1, p2
<1>13. GamePieces(pose, 0, latency, distances, theta_x)[i]
         = <<(m1 + h1 * 25) + q1, (m2 + h2 * 25) + q2>>
  BY <1>3, <1>7 DEF r, q, Plus, Times
<1> HIDE DEF m1, m2, q1, q2, h1, h2
<1>14. (m1 + h1 * 25) + q1 = p1 * 25 /\ (m2 + h2 * 25) + q2 = p2 * 25
  BY <1>11, <1>12
<1> QED
  BY <1>13, <1>14 DEF Times, p1, p2

(* The twelve angles.                                                      *)
LEMMA BearingsAre == Angles5 \subseteq Pairs /\ Angles5 \subseteq Circle
BY DEF Angles5, Pairs, Circle

IsSum(x, S, w) == \E f : Sums(f, S, w) /\ x = f[S]

(* What a weighted mean is made of.                                        *)
WeightTotal(frames, S) == MapThenSumSet(LAMBDA s : Weight(frames[s[1]], s[2]), S)

WeightedPart(pose, turns, frames, tag_locations, k, S) ==
  MapThenSumSet(LAMBDA s : Weight(frames[s[1]], s[2])
                           * ByTag(pose, turns, frames[s[1]], s[1], s[2],
                                   tag_locations)[k], S)

LEMMA TotalIs ==
  ASSUME NEW S, IsFiniteSet(S), NEW frames, NEW w \in [S -> Int],
         \A s \in S : w[s] = Weight(frames[s[1]], s[2])
  PROVE  IsSum(WeightTotal(frames, S), S, w)
<1> DEFINE weighed(x) == Weight(frames[x[1]], x[2])
<1>1. PICK f : f \in [SUBSET S -> Int] /\ Sums(f, S, w)
  BY SumsExist
<1>2. ASSUME NEW t \in SUBSET S, t # {} PROVE w[OneOf(t)] = weighed(OneOf(t))
  BY <1>2, OneIsIn
<1> DEFINE Adds(h) ==
             h = [s \in SUBSET S |->
                    IF s = {} THEN 0
                    ELSE weighed(CHOOSE x \in s : TRUE) + h[s \ {CHOOSE x \in s : TRUE}]]
           sum == CHOOSE h : Adds(h)
<1>3. WeightTotal(frames, S) = sum[S]
  BY DEF WeightTotal, MapThenSumSet, MapThenFoldSet
<1> HIDE DEF weighed
<1>4. Adds(f)
  <2>1. ASSUME NEW t \in SUBSET S
        PROVE  f[t] = IF t = {} THEN 0 ELSE weighed(OneOf(t)) + f[t \ {OneOf(t)}]
    BY <1>1, <1>2 DEF Sums
  <2> QED
    BY <1>1, <2>1 DEF OneOf
<1> HIDE DEF Adds
<1>5. Adds(sum)
  BY <1>4
<1> HIDE DEF sum
<1>6. PICK h : h = sum /\ Adds(h)
  BY <1>5
<1>7. ASSUME NEW t \in SUBSET S
      PROVE  h[t] = IF t = {} THEN 0 ELSE w[OneOf(t)] + h[t \ {OneOf(t)}]
  <2>1. t # {} => w[OneOf(t)] = weighed(OneOf(t))
    BY <1>2
  <2>2. h[t] = IF t = {} THEN 0 ELSE weighed(OneOf(t)) + h[t \ {OneOf(t)}]
    BY <1>6 DEF OneOf, Adds
  <2> QED
    BY <2>1, <2>2
<1>8. Sums(h, S, w)
  BY <1>7 DEF Sums
<1> QED
  BY <1>3, <1>6, <1>8 DEF IsSum

LEMMA PartIs ==
  ASSUME NEW S, IsFiniteSet(S), NEW frames, NEW pose, NEW turns, NEW tag_locations, NEW k,
         NEW v \in [S -> Int],
         \A s \in S : v[s] = Weight(frames[s[1]], s[2])
                              * ByTag(pose, turns, frames[s[1]], s[1], s[2], tag_locations)[k]
  PROVE  IsSum(WeightedPart(pose, turns, frames, tag_locations, k, S), S, v)
<1> DEFINE weighed(x) == Weight(frames[x[1]], x[2])
                         * ByTag(pose, turns, frames[x[1]], x[1], x[2], tag_locations)[k]
<1>1. PICK f : f \in [SUBSET S -> Int] /\ Sums(f, S, v)
  BY SumsExist
<1>2. ASSUME NEW t \in SUBSET S, t # {} PROVE v[OneOf(t)] = weighed(OneOf(t))
  BY <1>2, OneIsIn
<1> DEFINE Adds(h) ==
             h = [s \in SUBSET S |->
                    IF s = {} THEN 0
                    ELSE weighed(CHOOSE x \in s : TRUE) + h[s \ {CHOOSE x \in s : TRUE}]]
           sum == CHOOSE h : Adds(h)
<1>3. WeightedPart(pose, turns, frames, tag_locations, k, S) = sum[S]
  BY DEF WeightedPart, MapThenSumSet, MapThenFoldSet
<1> HIDE DEF weighed
<1>4. Adds(f)
  <2>1. ASSUME NEW t \in SUBSET S
        PROVE  f[t] = IF t = {} THEN 0 ELSE weighed(OneOf(t)) + f[t \ {OneOf(t)}]
    BY <1>1, <1>2 DEF Sums
  <2> QED
    BY <1>1, <2>1 DEF OneOf
<1> HIDE DEF Adds
<1>5. Adds(sum)
  BY <1>4
<1> HIDE DEF sum
<1>6. PICK h : h = sum /\ Adds(h)
  BY <1>5
<1>7. ASSUME NEW t \in SUBSET S
      PROVE  h[t] = IF t = {} THEN 0 ELSE v[OneOf(t)] + h[t \ {OneOf(t)}]
  <2>1. t # {} => v[OneOf(t)] = weighed(OneOf(t))
    BY <1>2
  <2>2. h[t] = IF t = {} THEN 0 ELSE weighed(OneOf(t)) + h[t \ {OneOf(t)}]
    BY <1>6 DEF OneOf, Adds
  <2> QED
    BY <2>1, <2>2
<1>8. Sums(h, S, v)
  BY <1>7 DEF Sums
<1> QED
  BY <1>3, <1>6, <1>8 DEF IsSum

AllTimes(v, S, w, x) == \A s \in S : v[s] = w[s] * x

AsOften(p, t, x) == t \in Nat /\ t # 0 /\ p = t * x

LEMMA SumsAre ==
  ASSUME NEW S, IsFiniteSet(S), S # {}, NEW w, w \in [S -> Nat \ {0}], NEW x, x \in Int,
         NEW v, AllTimes(v, S, w, x), NEW t, IsSum(t, S, w), NEW p, IsSum(p, S, v)
  PROVE  AsOften(p, t, x)
<1>1. PICK f : Sums(f, S, w) /\ t = f[S]
  BY DEF IsSum
<1>2. PICK g : Sums(g, S, v) /\ p = g[S]
  BY DEF IsSum
<1>3. \A s \in S : v[s] = w[s] * x
  BY DEF AllTimes
<1> QED
  BY <1>1, <1>2, <1>3, SumsOfEqual DEF AsOften

LEMMA Quotient ==
  ASSUME NEW n \in Nat, n # 0, NEW x \in Int
  PROVE  (n * x) \div n = x
OBVIOUS

(* Every tag that is seen shows the robot at this place.                   *)
AllShow(pose, turns, frames, tag_locations, place) ==
  \A s \in Seen(frames, tag_locations) :
    /\ Weight(frames[s[1]], s[2]) \in Nat \ {0}
    /\ ByTag(pose, turns, frames[s[1]], s[1], s[2], tag_locations) = place

Reading(place, pose) ==
  [pos |-> place, found |-> TRUE, correction |-> Minus(place, Times(pose.position, 25))]

(* When every tag that is seen shows the robot at the same place, so does  *)
(* the mean of what they show, with any weights.                           *)
THEOREM MeanIsWhereAllAre ==
  ASSUME NEW pose, NEW turns, NEW frames, NEW tag_locations, NEW correction,
         Len(frames) \in Nat, NEW place \in Pairs,
         Seen(frames, tag_locations) # {},
         AllShow(pose, turns, frames, tag_locations, place)
  PROVE  TagPosition(pose, turns, frames, tag_locations, correction) = Reading(place, pose)
<1> USE DEF AllShow
<1> DEFINE S == Seen(frames, tag_locations)
           x == place[1]  y == place[2]
           total == WeightTotal(frames, S)
           part1 == WeightedPart(pose, turns, frames, tag_locations, 1, S)
           part2 == WeightedPart(pose, turns, frames, tag_locations, 2, S)
           w == [s \in S |-> Weight(frames[s[1]], s[2])]
           v1 == [s \in S |-> w[s] * x]  v2 == [s \in S |-> w[s] * y]
<1>1. IsFiniteSet(S)
  <2>1. IsFiniteSet(1 .. Len(frames)) /\ IsFiniteSet(1 .. 8)
    <3>1. 1 \in Int /\ 8 \in Int /\ Len(frames) \in Int
      OBVIOUS
    <3>2. IsFiniteSet(1 .. Len(frames))
      BY <3>1, FS_Interval
    <3>3. IsFiniteSet(1 .. 8)
      BY <3>1, FS_Interval
    <3> QED
      BY <3>2, <3>3
  <2>2. IsFiniteSet((1 .. Len(frames)) \X (1 .. 8))
    BY <2>1, FS_Product
  <2>3. S \subseteq (1 .. Len(frames)) \X (1 .. 8)
    BY DEF Seen
  <2> HIDE DEF S
  <2> QED
    BY <2>2, <2>3, FS_Subset
<1>2. x \in Int /\ y \in Int /\ place = <<x, y>>
  BY PairOf
<1>3. w \in [S -> Nat \ {0}] /\ \A s \in S : w[s] = Weight(frames[s[1]], s[2])
  OBVIOUS
<1>4. \A s \in S : /\ ByTag(pose, turns, frames[s[1]], s[1], s[2], tag_locations)[1] = x
                   /\ ByTag(pose, turns, frames[s[1]], s[1], s[2], tag_locations)[2] = y
  OBVIOUS
<1>9. S # {}
  OBVIOUS
<1> HIDE DEF S, x, y, w
<1>5. /\ v1 \in [S -> Int] /\ v2 \in [S -> Int]
      /\ \A s \in S : v1[s] = w[s] * x /\ v2[s] = w[s] * y
  <2>1. \A s \in S : w[s] * x \in Int /\ w[s] * y \in Int
    <3>1. \A s \in S : w[s] \in Int
      BY <1>3
    <3> QED
      BY <1>2, <3>1
  <2> QED
    BY <2>1
<1>6. w \in [S -> Int]
  BY <1>3
<1> HIDE DEF v1, v2
<1>7. IsSum(total, S, w)
  BY <1>1, <1>3, <1>6, TotalIs
<1>8. IsSum(part1, S, v1)
  <2>1. \A s \in S : v1[s] = Weight(frames[s[1]], s[2])
                              * ByTag(pose, turns, frames[s[1]], s[1], s[2], tag_locations)[1]
    BY <1>3, <1>4, <1>5
  <2> QED
    BY <1>1, <1>5, <2>1, PartIs
<1>10. IsSum(part2, S, v2)
  <2>1. \A s \in S : v2[s] = Weight(frames[s[1]], s[2])
                              * ByTag(pose, turns, frames[s[1]], s[1], s[2], tag_locations)[2]
    BY <1>3, <1>4, <1>5
  <2> QED
    BY <1>1, <1>5, <2>1, PartIs
<1>12. TagPosition(pose, turns, frames, tag_locations, correction)
         = LET pos == << part1 \div total, part2 \div total >>
           IN  [pos |-> pos, found |-> TRUE, correction |-> Minus(pos, Times(pose.position, 25))]
  BY <1>9 DEF TagPosition, S, WeightTotal, WeightedPart
<1> HIDE DEF total, part1, part2
<1>11. total \in Nat /\ total # 0 /\ part1 = total * x /\ part2 = total * y
  <2>1. AsOften(part1, total, x)
    <3>1. AllTimes(v1, S, w, x)
      BY <1>5 DEF AllTimes
    <3>2. w \in [S -> Nat \ {0}]
      BY <1>3
    <3>3. x \in Int
      BY <1>2
    <3> QED
      BY <1>1, <1>7, <1>8, <1>9, <3>1, <3>2, <3>3, SumsAre
  <2>2. AsOften(part2, total, y)
    <3>1. AllTimes(v2, S, w, y)
      BY <1>5 DEF AllTimes
    <3>2. w \in [S -> Nat \ {0}]
      BY <1>3
    <3>3. y \in Int
      BY <1>2
    <3> QED
      BY <1>1, <1>7, <1>9, <1>10, <3>1, <3>2, <3>3, SumsAre
  <2> QED
    BY <2>1, <2>2 DEF AsOften
<1>13. part1 \div total = x /\ part2 \div total = y
  BY <1>2, <1>11, Quotient
<1> QED
  BY <1>2, <1>12, <1>13 DEF Reading

(* An offset in steps of five, which any of the twelve bearings turns into *)
(* whole numbers.                                                          *)
InFives(offset) == \E p \in Pairs : offset = Times(p, 5)

(* The cameras are where the views' lengths come out whole.                *)
CamerasInFives ==
  /\ {1, 2} \subseteq DOMAIN CameraOffset
  /\ \A k \in {1, 2} : InFives(CameraOffset[k])
  /\ InFives(IntakeToCam)

LEMMA ViewIs ==
  ASSUME NEW view \in Views
  PROVE  /\ view.position \in Pairs /\ view.bearing \in Pairs /\ view.velocity \in Pairs
         /\ view.turns \in Int /\ view.age \in Int /\ view.error \in Pairs
         /\ \A k \in {1, 2} : view.at[k] \in {25, 50, 100} /\ view.theta[k] \in Pairs
         /\ view.at = <<view.at[1], view.at[2]>>
         /\ view.theta = <<view.theta[1], view.theta[2]>>
<1>1. PICK p \in {<<30, 200>>}, b \in Angles5, v \in {<<0, 0>>, <<2, -3>>},
           w \in {-1, 0, 1}, a \in {1, 2}, e \in {<<0, 0>>, <<4, -6>>},
           d1 \in {25, 100}, d2 \in {50}, t \in {<<3, 4>>, <<0, -5>>} :
        view = [position |-> p, bearing |-> b, velocity |-> v, turns |-> w, age |-> a,
                error |-> e, at |-> <<d1, d2>>, theta |-> <<t, <<4, 3>> >>]
  BY DEF Views
<1>2. p \in Pairs /\ b \in Pairs /\ v \in Pairs /\ e \in Pairs /\ t \in Pairs
      /\ <<4, 3>> \in Pairs
  BY BearingsAre DEF Pairs
<1>3. \A k \in {1, 2} : view.at[k] \in {25, 50, 100} /\ view.theta[k] \in Pairs
  <2>1. view.at[1] = d1 /\ view.at[2] = d2 /\ view.theta[1] = t /\ view.theta[2] = <<4, 3>>
    BY <1>1
  <2> QED
    BY <1>2, <2>1
<1> QED
  BY <1>1, <1>2, <1>3

(* So what is seen is at a place with whole coordinates.                   *)
LEMMA PlaceIsSeen ==
  ASSUME NEW view \in Views, NEW k \in {1, 2}, NEW offset, InFives(offset)
  PROVE  /\ Place(view, k, offset) \in Pairs
         /\ Sees(view.position, view.bearing, Place(view, k, offset),
                 Plus(Times(offset, 5), AtBearing(view.at[k], view.theta[k])))
<1> DEFINE at == Plus(Times(offset, 5), AtBearing(view.at[k], view.theta[k]))
           c == view.bearing[1]  s == view.bearing[2]
           x == view.position[1]  y == view.position[2]
           t1 == view.theta[k][1]  t2 == view.theta[k][2]
<1>1. PICK p \in Pairs : offset = Times(p, 5)
  BY DEF InFives
<1>2. PICK m \in Int : view.at[k] = 25 * m
  <2>1. view.at[k] \in {25, 50, 100}
    BY ViewIs
  <2> QED
    BY <2>1
<1>3. /\ c \in Int /\ s \in Int /\ x \in Int /\ y \in Int /\ t1 \in Int /\ t2 \in Int
      /\ view.bearing = <<c, s>> /\ p[1] \in Int /\ p[2] \in Int
  <2>1. view.bearing \in Pairs /\ view.position \in Pairs /\ view.theta[k] \in Pairs
    BY ViewIs
  <2> QED
    BY <2>1, PairOf
<1> DEFINE a == p[1] + m * t2  b == p[2] + m * t1
<1>4. a \in Int /\ b \in Int
  BY <1>3
<1>5. at = <<25 * a, 25 * b>>
  <2>1. at = <<(p[1] * 5) * 5 + view.at[k] * t2, (p[2] * 5) * 5 + view.at[k] * t1>>
    BY <1>1 DEF Plus, Times, AtBearing, Sin, Cos
  <2>2. (p[1] * 5) * 5 + (25 * m) * t2 = 25 * a /\ (p[2] * 5) * 5 + (25 * m) * t1 = 25 * b
    BY <1>3
  <2> QED
    BY <1>2, <2>1, <2>2
<1> HIDE DEF at, a, b
<1>6. at \in Pairs
  BY <1>4, <1>5 DEF Pairs
<1> DEFINE u == c * a + s * b  v == c * b - s * a
<1>7. World(at, view.bearing) = <<25 * u, 25 * v>> /\ u \in Int /\ v \in Int
  <2>1. World(at, view.bearing) = Rotate(at, view.bearing)
    <3>1. view.bearing \in Pairs
      BY ViewIs
    <3> QED
      BY <1>6, <3>1, WorldIsRotated
  <2>2. Rotate(at, view.bearing) = <<(25 * a) * c + (25 * b) * s, (25 * b) * c - (25 * a) * s>>
    BY <1>5 DEF Rotate, Sin, Cos
  <2> HIDE DEF c, s
  <2>3. /\ (25 * a) * c + (25 * b) * s = 25 * u
        /\ (25 * b) * c - (25 * a) * s = 25 * v
    BY <1>3, <1>4
  <2>4. u \in Int /\ v \in Int
    BY <1>3, <1>4
  <2> QED
    BY <2>1, <2>2, <2>3, <2>4
<1> HIDE DEF u, v, c, s
<1>8. Place(view, k, offset) = <<x + u, y + v>>
  <2>1. Place(view, k, offset)
          = Plus(view.position, << (25 * u) \div 25, (25 * v) \div 25 >>)
    BY <1>7 DEF Place, at
  <2>2. (25 * u) \div 25 = u /\ (25 * v) \div 25 = v
    BY <1>7
  <2> QED
    BY <2>1, <2>2 DEF Plus
<1>9. Times(Minus(Place(view, k, offset), view.position), 25)
        = <<((x + u) - x) * 25, ((y + v) - y) * 25>>
  BY <1>8 DEF Times, Minus
<1> HIDE DEF x, y
<1>10. ((x + u) - x) * 25 = 25 * u /\ ((y + v) - y) * 25 = 25 * v
  BY <1>3, <1>7
<1> QED
  <2>1. Place(view, k, offset) \in Pairs
    BY <1>3, <1>7, <1>8 DEF Pairs
  <2> QED
    BY <1>7, <1>9, <1>10, <2>1 DEF Sees, at

(* A camera's tag, of the three there are, and what it is seen by.         *)
LEMMA SightingShows ==
  ASSUME CamerasInFives, NEW view \in Views, NEW camera \in {1, 2}, NEW k \in {1, 2},
         NEW frame, NEW j, frame.tl \in Int, frame.delay \in Int,
         frame.tl + frame.delay = view.age,
         frame.distances[j] = view.at[k], frame.tx[j] = view.theta[k],
         TagLocations(view)[frame.tags[j]] = Place(view, k, CameraOffset[camera])
  PROVE  /\ Weight(frame, j) \in Nat \ {0}
         /\ ByTag(Estimated(view), view.turns, frame, camera, j, TagLocations(view))
              = Times(Now(view).position, 25)
<1>1. Weight(frame, j) \in Nat \ {0}
  <2>1. view.at[k] \in {25, 50, 100}
    BY ViewIs
  <2>2. Weight(frame, j) = 1200 \div view.at[k]
    BY DEF Weight, WeightDistance
  <2>3. 1200 \div 25 = 48 /\ 1200 \div 50 = 24 /\ 1200 \div 100 = 12
    BY SMT
  <2> QED
    BY <2>1, <2>2, <2>3, SMT
<1>2. InFives(CameraOffset[camera]) /\ camera \in DOMAIN CameraOffset
  BY DEF CamerasInFives
<1>3. /\ Place(view, k, CameraOffset[camera]) \in Pairs
      /\ Sees(view.position, view.bearing, Place(view, k, CameraOffset[camera]),
              Plus(Times(CameraOffset[camera], 5), AtBearing(view.at[k], view.theta[k])))
  BY <1>2, PlaceIsSeen
<1>4. /\ view.position \in Pairs /\ view.bearing \in Pairs /\ view.velocity \in Pairs
      /\ view.turns \in Int /\ view.at[k] \in Int /\ view.theta[k] \in Pairs
  BY ViewIs
<1>5. /\ Estimated(view).bearing = QuarterTurned(view.bearing, view.turns * view.age)
      /\ Estimated(view).velocity = view.velocity
      /\ Now(view).position = Plus(view.position, Times(view.velocity, view.age))
  BY DEF Estimated, Now
<1>6. ByTag(Estimated(view), view.turns, frame, camera, j, TagLocations(view))
        = Times(Plus(view.position, Times(view.velocity, frame.tl + frame.delay)), 25)
  <2> DEFINE tags == TagLocations(view)  pose == Estimated(view)
  <2>1. tags[frame.tags[j]] = Place(view, k, CameraOffset[camera])
    OBVIOUS
  <2>2. pose.bearing = QuarterTurned(view.bearing, view.turns * (frame.tl + frame.delay))
    BY <1>5
  <2>3. pose.velocity = view.velocity
    BY <1>5
  <2>4. frame.distances[j] \in Int /\ frame.tx[j] \in Pairs
    BY <1>4
  <2> HIDE DEF tags, pose
  <2>5. /\ tags[frame.tags[j]] \in Pairs
        /\ Sees(view.position, view.bearing, tags[frame.tags[j]],
                Plus(Times(CameraOffset[camera], 5),
                     AtBearing(frame.distances[j], frame.tx[j])))
    BY <1>3, <2>1
  <2>6. /\ view.position \in Pairs /\ view.bearing \in Pairs /\ view.velocity \in Pairs
        /\ view.turns \in Int /\ camera \in DOMAIN CameraOffset
    BY <1>2, <1>4
  <2>7. ByTag(pose, view.turns, frame, camera, j, tags)
          = MovedTo(view.position, view.velocity, frame.tl + frame.delay)
    <3>1. Sighting(view.position, view.bearing, view.velocity, view.turns, pose, frame,
                   camera, j, tags)
      BY <2>2, <2>3, <2>4, <2>5 DEF Sighting
    <3> QED
      BY <2>6, <3>1, TagShowsPosition
  <2> QED
    BY <2>7 DEF tags, pose, MovedTo
<1> QED
  BY <1>1, <1>5, <1>6

ShowsNow(view, frame, camera, j) ==
  /\ Weight(frame, j) \in Nat \ {0}
  /\ ByTag(Estimated(view), view.turns, frame, camera, j, TagLocations(view))
       = Times(Now(view).position, 25)

(* Whatever the cameras wrote, what is seen in it shows where the robot is *)
(* now: frames that are too old or half written show nothing.              *)
LEMMA FramesShow ==
  ASSUME CamerasInFives, NEW view \in Views, NEW frames \in Frames(view)
  PROVE  /\ Len(frames) \in Nat
         /\ \A s \in Seen(frames, TagLocations(view)) :
              ShowsNow(view, frames[s[1]], s[1], s[2])
<1> DEFINE d == view.at  t == view.theta  tags == TagLocations(view)
           tooOld == Freshness + 1
<1>1. PICK f, g : frames = <<f, g>>
  BY DEF Frames
<1>2. /\ view.age \in Int /\ view.age - 1 \in Int
      /\ d = <<d[1], d[2]>> /\ t = <<t[1], t[2]>>
  BY ViewIs
<1>3. /\ DOMAIN tags = 1 .. 3
      /\ tags[1] = Place(view, 1, CameraOffset[1]) /\ tags[2] = Place(view, 2, CameraOffset[2])
      /\ tags[3] = Place(view, 2, CameraOffset[1])
  BY DEF TagLocations
<1>4. Freshness \in Nat /\ ~ tooOld <= Freshness
  BY LocalizationAssumption
<1> HIDE DEF d, t, tags
(* What a frame shows: nothing, or each of its tags.                       *)
<1> DEFINE Shows(frame, camera) ==
             \A j \in 1 .. 8 : /\ Usable(frame) /\ j <= Len(frame.tags)
                               /\ frame.tags[j] \in DOMAIN tags
                               => ShowsNow(view, frame, camera, j)
<1>5. ASSUME Shows(f, 1), Shows(g, 2)
      PROVE  /\ Len(frames) \in Nat
             /\ \A s \in Seen(frames, tags) : ShowsNow(view, frames[s[1]], s[1], s[2])
  <2>1. Len(frames) = 2 /\ frames[1] = f /\ frames[2] = g
    BY <1>1
  <2>2. ASSUME NEW s \in Seen(frames, tags) PROVE ShowsNow(view, frames[s[1]], s[1], s[2])
    <3>1. /\ s[1] \in 1 .. Len(frames) /\ s[2] \in 1 .. 8 /\ Usable(frames[s[1]])
          /\ s[2] <= Len(frames[s[1]].tags) /\ frames[s[1]].tags[s[2]] \in DOMAIN tags
      BY DEF Seen
    <3>2. CASE s[1] = 1
      BY <1>5, <2>1, <3>1, <3>2
    <3>3. CASE s[1] = 2
      BY <1>5, <2>1, <3>1, <3>3
    <3> QED
      BY <2>1, <3>1, <3>2, <3>3
  <2> QED
    BY <2>1, <2>2
<1>6. ASSUME NEW frame, NEW camera \in {1, 2}, NEW j, NEW k \in {1, 2}, frame.tl \in Int,
             frame.delay \in Int, frame.tl + frame.delay = view.age,
             frame.distances[j] = d[k], frame.tx[j] = t[k],
             tags[frame.tags[j]] = Place(view, k, CameraOffset[camera])
      PROVE  ShowsNow(view, frame, camera, j)
  BY <1>6, SightingShows DEF d, t, tags, ShowsNow
<1>7. ASSUME NEW tl, NEW distances, NEW tx, NEW seen, NEW camera
      PROVE  Shows(Frame(tooOld, tl, distances, tx, seen), camera)
  <2>1. ~ Usable(Frame(tooOld, tl, distances, tx, seen))
    BY <1>4 DEF Usable, Frame
  <2> QED
    BY <2>1
<1>8. ASSUME NEW first \in {1, 9}
      PROVE  Shows(Frame(0, view.age, d, t, <<first, 3>>), 1)
  <2> DEFINE frame == Frame(0, view.age, d, t, <<first, 3>>)
  <2>1. /\ frame.tl = view.age /\ frame.delay = 0 /\ frame.distances = d /\ frame.tx = t
        /\ Len(frame.tags) = 2 /\ frame.tags[1] = first /\ frame.tags[2] = 3
    BY DEF Frame
  <2> HIDE DEF frame
  <2>2. ASSUME first = 1 PROVE ShowsNow(view, frame, 1, 1)
    BY <1>2, <1>3, <1>6, <2>1, <2>2
  <2>3. ShowsNow(view, frame, 1, 2)
    BY <1>2, <1>3, <1>6, <2>1
  <2>4. 9 \notin DOMAIN tags
    BY <1>3
  <2>5. ASSUME NEW j \in 1 .. 8, j <= Len(frame.tags), frame.tags[j] \in DOMAIN tags
        PROVE  ShowsNow(view, frame, 1, j)
    <3>1. j = 1 \/ j = 2
      BY <2>1, <2>5
    <3>2. j = 1 => first = 1
      BY <2>1, <2>4, <2>5
    <3> QED
      BY <2>2, <2>3, <3>1, <3>2
  <2> QED
    BY <2>5 DEF frame
<1>9. ASSUME NEW k \in {1, 2}, NEW delay \in {0, 1}
      PROVE  Shows(Frame(delay, view.age - delay, <<d[k]>>, <<t[k]>>, <<k>>), k)
  <2> DEFINE frame == Frame(delay, view.age - delay, <<d[k]>>, <<t[k]>>, <<k>>)
  <2>1. /\ frame.tl = view.age - delay /\ frame.delay = delay
        /\ frame.distances[1] = d[k] /\ frame.tx[1] = t[k]
        /\ Len(frame.tags) = 1 /\ frame.tags[1] = k
    BY DEF Frame
  <2> HIDE DEF frame
  <2>2. frame.tl \in Int /\ frame.delay \in Int /\ frame.tl + frame.delay = view.age
    BY <1>2, <2>1
  <2>3. ShowsNow(view, frame, k, 1)
    BY <1>3, <1>6, <2>1, <2>2
  <2>4. ASSUME NEW j \in 1 .. 8, j <= Len(frame.tags) PROVE ShowsNow(view, frame, k, j)
    <3>1. j = 1
      BY <2>1, <2>4
    <3> QED
      BY <2>3, <3>1
  <2> QED
    BY <2>4 DEF frame
<1>10. Shows(Frame(0, view.age, <<d[2]>>, <<t[1], t[2]>>, <<2>>), 2)
  <2>1. ~ Usable(Frame(0, view.age, <<d[2]>>, <<t[1], t[2]>>, <<2>>))
    BY DEF Usable, Frame
  <2> QED
    BY <2>1
<1>11. Shows(Frame(0, view.age, <<d[1]>>, <<t[1]>>, <<1>>), 1)
  <2>1. view.age - 0 = view.age
    BY <1>2
  <2> QED
    BY <1>9, <2>1
<1>12. Shows(Frame(1, view.age - 1, <<d[2]>>, <<t[2]>>, <<2>>), 2)
  BY <1>9
<1> HIDE DEF Shows, tooOld
<1>13. \/ /\ f = Frame(0, view.age, <<d[1]>>, <<t[1]>>, <<1>>)
          /\ g = Frame(1, view.age - 1, <<d[2]>>, <<t[2]>>, <<2>>)
       \/ f = Frame(0, view.age, d, t, <<1, 3>>) /\ g = Frame(tooOld, 0, <<d[2]>>, <<t[1]>>, <<2>>)
       \/ /\ f = Frame(0, view.age, d, t, <<9, 3>>)
          /\ g = Frame(0, view.age, <<d[2]>>, <<t[1], t[2]>>, <<2>>)
       \/ f = Frame(tooOld, view.age, d, t, <<1, 3>>) /\ g = Frame(tooOld, 0, <<>>, <<>>, <<>>)
  <2>1. frames \in Frames(view)
    OBVIOUS
  <2> QED
    BY <1>1, <2>1 DEF Frames, d, t, tooOld
<1>14. Shows(f, 1) /\ Shows(g, 2)
  BY <1>7, <1>8, <1>10, <1>11, <1>12, <1>13
<1> QED
  BY <1>5, <1>14 DEF tags

TagsCalled ==
  \E view \in Views : \E frames \in Frames(view) :
    Answered("tags", view, Localize(view, frames))

PiecesCalled ==
  \E view \in Views :
    Answered("pieces", view,
             GamePieces(Now(view), view.turns, view.age, view.at, view.theta))

(* The first reading.                                                      *)
LEMMA FirstReading ==
  ASSUME CamerasInFives, NEW view \in Views, NEW frames \in Frames(view), NEW first,
         first = TagPosition(Estimated(view), view.turns, frames, TagLocations(view), <<0, 0>>)
  PROVE  LET estimate == Times(Estimated(view).position, 25)
         IN  /\ first.pos = IF first.found THEN Times(Now(view).position, 25) ELSE estimate
             /\ first.pos \in Pairs
             /\ first.correction = Minus(first.pos, estimate)
<1> DEFINE pose == Estimated(view)  tags == TagLocations(view)
           place == Times(Now(view).position, 25)  estimate == Times(pose.position, 25)
           seen == Seen(frames, tags)
<1>1. /\ Now(view).position \in Pairs /\ pose.position \in Pairs
      /\ place \in Pairs /\ estimate \in Pairs
  <2>1. /\ view.position \in Pairs /\ view.velocity \in Pairs /\ view.age \in Int
        /\ view.error \in Pairs
    BY ViewIs
  <2>2. ASSUME NEW u \in Pairs, NEW v \in Pairs PROVE Plus(u, v) \in Pairs
    BY PairOf DEF Plus, Pairs
  <2>3. ASSUME NEW u \in Pairs, NEW n \in Int PROVE Times(u, n) \in Pairs
    <3>1. u[1] * n \in Int /\ u[2] * n \in Int
      BY PairOf
    <3> QED
      BY <3>1 DEF Times, Pairs
  <2>4. /\ Now(view).position = Plus(view.position, Times(view.velocity, view.age))
        /\ pose.position = Plus(Now(view).position, view.error)
    BY DEF Now, Estimated
  <2>5. Now(view).position \in Pairs
    BY <2>1, <2>2, <2>3, <2>4
  <2>6. pose.position \in Pairs
    BY <2>1, <2>2, <2>4, <2>5
  <2> QED
    BY <2>3, <2>5, <2>6
<1>2. CASE seen = {}
  <2>1. /\ first.pos = Plus(estimate, <<0, 0>>) /\ first.found = FALSE
        /\ first.correction = <<0, 0>>
    BY <1>2 DEF TagPosition
  <2> HIDE DEF estimate
  <2>2. Plus(estimate, <<0, 0>>) = estimate /\ Minus(estimate, estimate) = <<0, 0>>
    BY <1>1, PairOf DEF Plus, Minus
  <2> QED
    BY <1>1, <2>1, <2>2 DEF estimate
<1>3. CASE seen # {}
  <2>1. /\ Len(frames) \in Nat
        /\ \A s \in seen : ShowsNow(view, frames[s[1]], s[1], s[2])
    BY FramesShow
  <2>2. AllShow(pose, view.turns, frames, tags, place)
    BY <2>1 DEF ShowsNow, AllShow
  <2> HIDE DEF pose, tags, place
  <2>3. first = Reading(place, pose)
    <3>1. first = TagPosition(pose, view.turns, frames, tags, <<0, 0>>)
      BY DEF pose, tags
    <3> QED
      BY <1>1, <1>3, <2>1, <2>2, <3>1, MeanIsWhereAllAre
  <2> QED
    BY <1>1, <2>3 DEF place, pose, Reading
<1> QED
  BY <1>2, <1>3

(* The second, without frames.                                             *)
LEMMA LaterReading ==
  ASSUME NEW pose, NEW turns, NEW tag_locations, NEW correction
  PROVE  TagPosition(pose, turns, <<>>, tag_locations, correction)
           = [pos |-> Plus(Times(pose.position, 25), correction),
              found |-> FALSE, correction |-> correction]
<1>1. Seen(<<>>, tag_locations) = {}
  BY DEF Seen
<1> QED
  BY <1>1 DEF TagPosition

LEMMA TagsAgree ==
  ASSUME CamerasInFives, NEW view \in Views, NEW frames \in Frames(view)
  PROVE  LET truth == Now(view).position
             first == Localize(view, frames)[1]
             later == Localize(view, frames)[2]
         IN  /\ first.pos = Times(IF first.found THEN truth ELSE Estimated(view).position, 25)
             /\ later.pos = Plus(first.pos, Times(<<7, 1>>, 25)) /\ ~ later.found
<1> DEFINE first == TagPosition(Estimated(view), view.turns, frames, TagLocations(view),
                                <<0, 0>>)
           estimated == Estimated(view).position
           estimate == Times(estimated, 25)
           moved == [Estimated(view) EXCEPT !.position = Plus(@, <<7, 1>>)]
           later == TagPosition(moved, view.turns, <<>>, TagLocations(view), first.correction)
<1>1. Localize(view, frames) = <<first, later>>
  BY DEF Localize
<1>2. later.pos = Plus(Times(moved.position, 25), first.correction) /\ later.found = FALSE
  <2> HIDE DEF moved, first
  <2> QED
    BY LaterReading
<1>3. moved.position = Plus(estimated, <<7, 1>>)
  BY DEF Estimated
<1> HIDE DEF first, moved, later
<1>4. /\ first.pos = IF first.found THEN Times(Now(view).position, 25) ELSE estimate
      /\ first.pos \in Pairs
      /\ first.correction = Minus(first.pos, estimate)
  BY FirstReading DEF first
<1>5. estimated \in Pairs
  <2>1. view.position \in Pairs /\ view.velocity \in Pairs /\ view.age \in Int
        /\ view.error \in Pairs
    BY ViewIs
  <2>2. view.velocity[1] * view.age \in Int /\ view.velocity[2] * view.age \in Int
    BY <2>1, PairOf
  <2>3. estimated = << (view.position[1] + view.velocity[1] * view.age) + view.error[1],
                       (view.position[2] + view.velocity[2] * view.age) + view.error[2] >>
    BY DEF Estimated, Now, Plus, Times
  <2> QED
    BY <2>1, <2>2, <2>3, PairOf DEF Pairs
<1> HIDE DEF estimated
<1>6. Plus(Times(moved.position, 25), first.correction) = Plus(first.pos, Times(<<7, 1>>, 25))
  <2> DEFINE e1 == estimated[1]  e2 == estimated[2]  f1 == first.pos[1]  f2 == first.pos[2]
  <2>1. e1 \in Int /\ e2 \in Int /\ f1 \in Int /\ f2 \in Int
    BY <1>4, <1>5, PairOf
  <2>2. Plus(Times(moved.position, 25), first.correction)
          = <<(e1 + 7) * 25 + (f1 - e1 * 25), (e2 + 1) * 25 + (f2 - e2 * 25)>>
    BY <1>3, <1>4 DEF Plus, Times, Minus
  <2>3. Plus(first.pos, Times(<<7, 1>>, 25)) = <<f1 + 7 * 25, f2 + 1 * 25>>
    BY DEF Plus, Times
  <2> HIDE DEF e1, e2, f1, f2
  <2>4. /\ (e1 + 7) * 25 + (f1 - e1 * 25) = f1 + 7 * 25
        /\ (e2 + 1) * 25 + (f2 - e2 * 25) = f2 + 1 * 25
    BY <2>1
  <2> QED
    BY <2>2, <2>3, <2>4
<1> QED
  BY <1>1, <1>2, <1>4, <1>6 DEF estimated

LEMMA PiecesAgree ==
  ASSUME CamerasInFives, NEW view \in Views, view.turns = 0,
         NEW out, out = GamePieces(Now(view), view.turns, view.age, view.at, view.theta),
         NEW k \in DOMAIN out
  PROVE  out[k] = Times(Place(view, k, IntakeToCam), 25)
<1>1. /\ view.position \in Pairs /\ view.bearing \in Pairs /\ view.velocity \in Pairs
      /\ view.age \in Int
      /\ view.at = <<view.at[1], view.at[2]>> /\ view.theta = <<view.theta[1], view.theta[2]>>
  BY ViewIs
<1>2. /\ k \in {1, 2} /\ k \in 1 .. Min({Len(view.at), Len(view.theta)})
  <2>1. DOMAIN out = 1 .. Min({Len(view.at), Len(view.theta)})
    BY DEF GamePieces
  <2>2. Len(view.at) = 2 /\ Len(view.theta) = 2
    BY <1>1
  <2>3. Min({2, 2}) = 2
    BY MinOfTwo
  <2> QED
    BY <2>1, <2>2, <2>3
<1>3. view.at[k] \in Int /\ view.theta[k] \in Pairs
  BY <1>2, ViewIs
<1>4. Now(view).bearing = view.bearing
  <2>1. view.turns * view.age = 0
    BY <1>1
  <2> QED
    BY <2>1 DEF Now, QuarterTurned
<1>5. /\ Now(view).velocity = view.velocity
      /\ Now(view).position \in Pairs
      /\ Minus(Now(view).position, Times(view.velocity, view.age)) = view.position
  <2> DEFINE a == view.velocity[1] * view.age  b == view.velocity[2] * view.age
             x == view.position[1]  y == view.position[2]
  <2>1. a \in Int /\ b \in Int /\ x \in Int /\ y \in Int /\ view.position = <<x, y>>
    BY <1>1, PairOf
  <2>2. /\ Now(view).velocity = view.velocity /\ Now(view).position = <<x + a, y + b>>
        /\ Times(view.velocity, view.age) = <<a, b>>
    BY DEF Now, Plus, Times
  <2> HIDE DEF a, b, x, y
  <2>3. (x + a) - a = x /\ (y + b) - b = y
    BY <2>1
  <2> QED
    BY <2>1, <2>2, <2>3 DEF Minus, Pairs
<1>6. /\ Place(view, k, IntakeToCam) \in Pairs
      /\ Sees(view.position, view.bearing, Place(view, k, IntakeToCam),
              Plus(Times(IntakeToCam, 5), AtBearing(view.at[k], view.theta[k])))
  BY <1>2, PlaceIsSeen DEF CamerasInFives
<1> QED
  BY <1>1, <1>2, <1>3, <1>4, <1>5, <1>6, PieceShowsPlace
-----------------------------------------------------------------------------
(* What the last call was asked of the reef, and what it answered.          *)
ReefCalled ==
  \E d \in -179 .. 180, mirrored \in BOOLEAN :
    Answered("reef", [direction |-> d, mirrored |-> mirrored], ClosestReefSide(d, mirrored))

(* Of two sides of the reef, the one that a direction is within 30 degrees *)
(* of is none that is further from it.                                     *)
LEMMA WithinThirty ==
  ASSUME NEW d \in -179 .. 180, NEW q \in 0 .. 5, NEW k \in 0 .. 5, Apart(d, 60 * q) <= 30
  PROVE  Apart(d, 60 * q) <= Apart(d, 60 * k)
<1>1. q \in {0, 1, 2, 3, 4, 5} /\ k \in {0, 1, 2, 3, 4, 5}
  OBVIOUS
<1>2. CASE q = k
  BY <1>2 DEF Apart
<1>3. CASE q # k
  <2>1. Apart(d, 60 * k) >= 30
    BY <1>1, <1>3, SMTT(30) DEF Apart
  <2>2. Apart(d, 60 * k) \in Int /\ Apart(d, 60 * q) \in Int
    BY DEF Apart
  <2> HIDE DEF Apart
  <2> QED
    BY <2>1, <2>2
<1> QED
  BY <1>2, <1>3

(* The direction of a side.                                                *)
SideTowards(s, mirrored) == (60 * s + (IF mirrored THEN 180 ELSE 0)) % 360

LEMMA SidesLie ==
  ASSUME NEW s \in 0 .. 5, NEW mirrored \in BOOLEAN
  PROVE  \E q \in 0 .. 5 : SideTowards(s, mirrored) = 60 * q
<1>1. CASE mirrored
  <2>1. (s + 3) % 6 \in 0 .. 5 /\ (60 * s + 180) % 360 = 60 * ((s + 3) % 6)
    OBVIOUS
  <2> QED
    BY <1>1, <2>1 DEF SideTowards
<1>2. CASE ~mirrored
  <2>1. (60 * s + 0) % 360 = 60 * s
    OBVIOUS
  <2> QED
    BY <1>2, <2>1 DEF SideTowards
<1> QED
  BY <1>1, <1>2

(* The side that is chosen is within 30 degrees.                           *)
LEMMA ChosenWithinThirty ==
  ASSUME NEW d \in -179 .. 180, NEW mirrored \in BOOLEAN, ~(mirrored /\ d \in -30 .. -1)
  PROVE  LET s == ClosestReefSide(d, mirrored)
         IN  s \in 0 .. 5 /\ Apart(d, SideTowards(s, mirrored)) <= 30
<1> DEFINE angle == IF d < 0 THEN d + 360 ELSE d
           q == (angle + 30) \div 60
           s == ClosestReefSide(d, mirrored)
<1>1. angle \in 0 .. 359 /\ q \in 0 .. 6 /\ (d = angle \/ d = angle - 360)
  OBVIOUS
<1>2. CASE angle < 330
  <2>1. q \in 0 .. 5 /\ 60 * q - 30 <= angle /\ angle < 60 * q + 30
    BY <1>1, <1>2
  <2>2. s \in 0 .. 5 /\ SideTowards(s, mirrored) = 60 * q
    <3>1. CASE mirrored
      <4>1. s = (q + 3) % 6
        BY <1>2, <3>1 DEF ClosestReefSide
      <4> HIDE DEF s, q
      <4>2. (60 * s + 180) % 360 = 60 * q
        BY <2>1, <4>1
      <4> QED
        BY <2>1, <3>1, <4>1, <4>2 DEF SideTowards
    <3>2. CASE ~mirrored
      <4>1. s = (q + 0) % 6
        BY <1>2, <3>2 DEF ClosestReefSide
      <4> HIDE DEF s, q
      <4>2. (60 * s + 0) % 360 = 60 * q
        BY <2>1, <4>1
      <4> QED
        BY <2>1, <3>2, <4>1, <4>2 DEF SideTowards
    <3> QED
      BY <3>1, <3>2
  <2>3. Apart(d, 60 * q) <= 30
    <3> HIDE DEF angle, q
    <3> QED
      BY <1>1, <2>1 DEF Apart
  <2> HIDE DEF angle, q, s
  <2> QED
    BY <2>2, <2>3 DEF s
<1>3. CASE ~(angle < 330)
  <2>1. ~mirrored /\ d \in -30 .. -1
    BY <1>1, <1>3
  <2>2. s = 0
    BY <1>3 DEF ClosestReefSide
  <2>3. SideTowards(0, mirrored) = 0
    BY <2>1 DEF SideTowards
  <2>4. Apart(d, 0) <= 30
    BY <2>1 DEF Apart
  <2> QED
    BY <2>2, <2>3, <2>4
<1> QED
  BY <1>2, <1>3

(* An alignment goes to no side of the reef that is further than another   *)
(* (ReefProvider::getClosestReefSide), and both of the side's locations    *)
(* lie on the alliance's reef (getReefScoringLocations).  Not so in the    *)
(* case that NearestSide leaves out: a blue robot in the last 30 degrees   *)
(* before 0 is sent to the far side (reef.cc:65).                          *)
THEOREM NoSideIsNearer ==
  ASSUME ReefCalled
  PROVE  NearestSide
<1>1. PICK d \in -179 .. 180, mirrored \in BOOLEAN :
        Answered("reef", [direction |-> d, mirrored |-> mirrored], ClosestReefSide(d, mirrored))
  BY DEF ReefCalled
<1> DEFINE s == ClosestReefSide(d, mirrored)
<1>2. call.in.direction = d /\ call.in.mirrored = mirrored /\ call.out = s
  BY <1>1 DEF Answered
<1> SUFFICES ASSUME ~(mirrored /\ d \in -30 .. -1), NEW k \in Locations, NEW left \in 0 .. 1
             PROVE  LET chosen == ScoringLocation(2 * s + 1 - left, mirrored)
                        other == ScoringLocation(k, mirrored)
                    IN  /\ Apart(d, chosen.towards) <= Apart(d, other.towards)
                        /\ chosen.left = (left = 1)
                        /\ chosen.center = ReefCenter(mirrored)
  BY <1>2 DEF NearestSide
<1>3. s \in 0 .. 5 /\ Apart(d, SideTowards(s, mirrored)) <= 30
  BY ChosenWithinThirty
<1> HIDE DEF s
<1> DEFINE n == 2 * s + 1 - left
<1>4. n \div 2 = s /\ (n % 2 = 0) = (left = 1)
  BY <1>3
<1>5. k \div 2 \in 0 .. 5
  BY DEF Locations
<1> HIDE DEF n
<1>6. /\ ScoringLocation(n, mirrored).towards = SideTowards(s, mirrored)
      /\ ScoringLocation(n, mirrored).left = (left = 1)
      /\ ScoringLocation(k, mirrored).towards = SideTowards(k \div 2, mirrored)
  BY <1>4 DEF ScoringLocation, SideTowards
<1>7. ScoringLocation(n, mirrored).center = ReefCenter(mirrored)
  <2>1. field_size_x - reefPoint[1] = reefPoint[1] /\ <<reefPoint[1], reefPoint[2]>> = reefPoint
    BY SMT DEF field_size_x, reefPoint
  <2> QED
    BY <2>1, Zenon DEF ScoringLocation, ReefCenter
<1>8. PICK q \in 0 .. 5 : SideTowards(s, mirrored) = 60 * q
  BY <1>3, SidesLie
<1>9. PICK j \in 0 .. 5 : SideTowards(k \div 2, mirrored) = 60 * j
  BY <1>5, SidesLie
<1>10. Apart(d, 60 * q) <= Apart(d, 60 * j)
  BY <1>3, <1>8, WithinThirty
<1> QED
  BY <1>6, <1>7, <1>8, <1>9, <1>10 DEF n
-----------------------------------------------------------------------------
(* The sextets that are packed, and what is read into nothing else.        *)
Sextet == 0 .. 63

PackState == [output : Seq(Nat), buffer : Nat, bits : {0, 2, 4, 6}]

LEMMA PackType ==
  ASSUME NEW p \in PackState, NEW v \in Sextet
  PROVE  Pack(p, v) \in PackState
<1> DEFINE w == v * 2^(18 - p.bits)
           q == [output |-> p.output, buffer |-> p.buffer + w, bits |-> p.bits + 6]
<1>1. w \in Nat
  <2> DEFINE e == 18 - p.bits
  <2>1. e \in {18, 16, 14, 12}
    BY DEF PackState
  <2> HIDE DEF e
  <2>2. 2^e \in Nat
    <3>1. 2^e \in {2^18, 2^16, 2^14, 2^12}
      BY <2>1, Zenon
    <3>2. {2^18, 2^16, 2^14, 2^12} \subseteq Nat
      BY SMT
    <3> QED
      BY <3>1, <3>2, Zenon
  <2>3. w = v * 2^e /\ v \in Nat
    BY DEF e, Sextet
  <2> HIDE DEF w
  <2> QED
    BY <2>2, <2>3
<1> HIDE DEF w
<1>2. /\ q.output = p.output /\ q.buffer = p.buffer + w /\ q.bits = p.bits + 6
      /\ q.output \in Seq(Nat) /\ q.buffer \in Nat /\ q.bits \in {6, 8, 10, 12}
  BY <1>1 DEF PackState
<1>3. q \in [output : Seq(Nat), buffer : Nat, bits : {6, 8, 10, 12}]
  BY <1>1 DEF PackState
<1>4. PushBytes(q) \in PackState
  <2> HIDE DEF q
  <2>1. CASE q.bits < 8
    BY <1>3, <2>1 DEF PushBytes, PackState
  <2>2. CASE ~(q.bits < 8)
    <3>1. 2^16 = 65536 /\ 2^8 = 256
      OBVIOUS
    <3>2. q.buffer \div 65536 \in Nat /\ (q.buffer % 65536) * 256 \in Nat
      BY <1>2
    <3>3. Append(q.output, q.buffer \div 65536) \in Seq(Nat)
      BY <1>2, <3>2
    <3>4. q.bits - 8 \in {0, 2, 4, 6}
      BY <1>2, <2>2
    <3> QED
      BY <2>2, <3>1, <3>2, <3>3, <3>4 DEF PushBytes, PackState
  <2> QED
    BY <2>1, <2>2
<1>5. Pack(p, v) = PushBytes(q)
  BY DEF Pack, w
<1> QED
  BY <1>4, <1>5

(* What is packed of the beginnings of a list of sextets.                  *)
LEMMA PackedSoFar ==
  ASSUME NEW seq \in Seq(Sextet)
  PROVE  \E g \in [0 .. Len(seq) -> PackState] :
            /\ g[0] = NothingPacked
            /\ \A k \in 1 .. Len(seq) : g[k] = Pack(g[k - 1], seq[k])
            /\ FoldLeft(Pack, NothingPacked, seq) = g[Len(seq)]
<1> DEFINE n == Len(seq)
           step == [s \in (1 .. n) \X PackState |-> Pack(s[2], seq[s[1]])]
<1>1. n \in Nat /\ DOMAIN seq = 1 .. n /\ \A k \in 1 .. n : seq[k] \in Sextet
  OBVIOUS
<1>2. step \in [(1 .. n) \X PackState -> PackState]
  BY <1>1, PackType
<1>3. \A k \in 1 .. n, x \in PackState : step[<<k, x>>] = Pack(x, seq[k])
  OBVIOUS
<1> HIDE DEF n, step
<1>4. NothingPacked \in PackState
  BY DEF NothingPacked, PackState
<1>5. PICK f : ListFolding(f, n, PackState, NothingPacked, step)
  BY <1>1, <1>2, <1>4, ListRecursionExists
<1>6. f = [t \in SUBSET DOMAIN seq |->
             IF t = {} THEN NothingPacked ELSE Pack(f[t \ {Max(t)}], seq[Max(t)])]
  <2>1. ASSUME NEW t \in SUBSET (1 .. n), t # {}
        PROVE  step[<<Max(t), f[t \ {Max(t)}]>>] = Pack(f[t \ {Max(t)}], seq[Max(t)])
    <3>1. Max(t) \in 1 .. n /\ f[t \ {Max(t)}] \in PackState
      BY <1>1, <1>5, <2>1, MaxIsIn DEF ListFolding
    <3> QED
      BY <1>3, <3>1
  <2>2. \A t \in SUBSET (1 .. n) :
           f[t] = IF t = {} THEN NothingPacked ELSE Pack(f[t \ {Max(t)}], seq[Max(t)])
    BY <1>5, <2>1 DEF ListFolding
  <2>3. f \in [SUBSET (1 .. n) -> PackState]
    BY <1>5 DEF ListFolding
  <2> QED
    BY <1>1, <2>2, <2>3
<1>7. PICK h : /\ h = [t \in SUBSET DOMAIN seq |->
                         IF t = {} THEN NothingPacked ELSE Pack(h[t \ {Max(t)}], seq[Max(t)])]
               /\ FoldLeft(Pack, NothingPacked, seq) = h[DOMAIN seq]
  BY <1>6 DEF FoldLeft, MapThenFoldSet
<1>8. h[{}] = NothingPacked
  <2>1. {} \in SUBSET DOMAIN seq
    OBVIOUS
  <2> QED
    BY <1>7, <2>1
<1>9. ASSUME NEW k \in 1 .. n, h[1 .. (k - 1)] \in PackState
      PROVE  h[1 .. k] = step[<<k, h[1 .. (k - 1)]>>]
  <2>1. /\ 1 .. k \in SUBSET DOMAIN seq /\ 1 .. k # {}
        /\ Max(1 .. k) = k /\ (1 .. k) \ {k} = 1 .. (k - 1)
    BY <1>1, Beginnings
  <2>2. h[1 .. k] = Pack(h[1 .. (k - 1)], seq[k])
    BY <1>7, <2>1
  <2> QED
    BY <1>3, <1>9, <2>2
<1>10. PICK g : Results(g, n, PackState, NothingPacked, step) /\ h[1 .. n] = g[n]
  <2>1. Follows(h, n, PackState, NothingPacked, step)
    BY <1>8, <1>9 DEF Follows
  <2>2. n \in Nat
    BY <1>1
  <2>3. LastResult(h[1 .. n], n, PackState, NothingPacked, step)
    BY <1>2, <1>4, <2>1, <2>2, ResultsAlong
  <2> QED
    BY <2>3 DEF LastResult
<1>11. ASSUME NEW k \in 1 .. n PROVE g[k] = Pack(g[k - 1], seq[k])
  <2>1. k - 1 \in 0 .. n
    BY <1>1
  <2>2. g[k - 1] \in PackState /\ g[k] = step[<<k, g[k - 1]>>]
    BY <1>10, <2>1 DEF Results
  <2> QED
    BY <1>3, <2>2
<1>12. /\ g \in [0 .. n -> PackState] /\ g[0] = NothingPacked
       /\ FoldLeft(Pack, NothingPacked, seq) = g[n]
  BY <1>1, <1>7, <1>10 DEF Results
<1> QED
  BY <1>11, <1>12 DEF n

(* Four sextets are three bytes, each of the end of a sextet and the begin *)
(* of the next; after the last come zeros.                                 *)
SextetAt(c, i) == IF i \in 1 .. Len(c) THEN c[i] ELSE 0

ByteFrom(a, b, s) ==
  CASE s = 1 -> a * 4 + b \div 16
    [] s = 2 -> (a % 16) * 16 + b \div 4
    [] s = 3 -> (a % 4) * 64 + b

ByteAt(c, i, s) == ByteFrom(SextetAt(c, 4 * i + s), SextetAt(c, 4 * i + s + 1), s)

OutputIs(output, c, n) ==
  /\ output \in Seq(Nat) /\ Len(output) = n
  /\ \A i \in Nat, s \in 1 .. 3 : 3 * i + s <= n => output[3 * i + s] = ByteAt(c, i, s)

(* How many bits are pending after r sextets of four, and what they are.   *)
Pending(r) == IF r = 0 THEN 0 ELSE 8 - 2 * r

Left(a, r) ==
  CASE r = 0 -> 0
    [] r = 1 -> a * 262144
    [] r = 2 -> (a % 16) * 1048576
    [] r = 3 -> (a % 4) * 4194304

LEMMA PackFresh ==
  ASSUME NEW p, NEW v \in Sextet, p.bits = 0, p.buffer = 0
  PROVE  Pack(p, v) = [output |-> p.output, buffer |-> Left(v, 1), bits |-> Pending(1)]
<1> DEFINE w == v * 262144  q == [output |-> p.output, buffer |-> w, bits |-> 6]
<1>1. v \in Nat /\ w \in Nat
  BY SMT DEF Sextet
<1>2. p.buffer + v * 2^(18 - p.bits) = w /\ p.bits + 6 = 6
  <2>1. 2^(18 - p.bits) = 2^(18 - 0)
    BY Zenon
  <2>2. 2^(18 - 0) = 262144
    BY SMT
  <2> DEFINE e == 2^(18 - p.bits)
  <2>3. e = 262144
    BY <2>1, <2>2, SMT
  <2> HIDE DEF e
  <2>4. p.buffer + v * e = w
    BY <1>1, <2>3, SMT
  <2> QED
    BY <2>4, SMT DEF e
<1> HIDE DEF w
<1>3. Pack(p, v) = PushBytes(q)
  BY <1>2, SMT DEF Pack
<1>4. PushBytes(q) = q
  BY SMT DEF PushBytes
<1>5. Left(v, 1) = w /\ Pending(1) = 6
  BY SMT DEF Left, Pending, w
<1> QED
  BY <1>3, <1>4, <1>5

LEMMA PackFills ==
  ASSUME NEW p, NEW r \in 1 .. 3, NEW a \in Sextet, NEW v \in Sextet,
         p.bits = Pending(r), p.buffer = Left(a, r)
  PROVE  /\ ByteFrom(a, v, r) \in Nat
         /\ Pack(p, v) = [output |-> Append(p.output, ByteFrom(a, v, r)),
                          buffer |-> Left(v, (r + 1) % 4), bits |-> Pending((r + 1) % 4)]
<1>1. a \in Int /\ v \in Int /\ 0 <= a /\ a <= 63 /\ 0 <= v /\ v <= 63
  BY DEF Sextet
<1>2. CASE r = 1
  <2> DEFINE b == a * 262144  w == v * 4096  n == b + w
             q == [output |-> p.output, buffer |-> n, bits |-> 12]
  <2>1. p.buffer = b /\ (r + 1) % 4 = 2
    BY <1>2, SMT DEF Left
  <2>8. p.bits = 6
    BY <1>2 DEF Pending
  <2>2. /\ n \div 65536 = a * 4 + v \div 16 /\ (n % 65536) * 256 = (v % 16) * 1048576
        /\ a * 4 + v \div 16 \in Nat /\ b \in Nat /\ w \in Nat
    BY <1>1, SMT
  <2>3. p.buffer + v * 2^(18 - p.bits) = n /\ p.bits + 6 = 12
    <3>1. 2^(18 - p.bits) = 2^(18 - 6)
      BY <2>8, Zenon
    <3>2. 2^(18 - 6) = 4096
      BY SMT
    <3> DEFINE e == 2^(18 - p.bits)
    <3>3. e = 4096
      BY <3>1, <3>2, SMT
    <3> HIDE DEF e, b
    <3>4. p.buffer + v * e = n
      BY <2>1, <3>3, SMT
    <3> QED
      BY <2>8, <3>4, SMT DEF e
  <2> HIDE DEF b, w, n
  <2>4. Pack(p, v) = PushBytes(q)
    BY <2>3, SMT DEF Pack
  <2>5. PushBytes(q) = [output |-> Append(p.output, n \div 2^16),
                        buffer |-> (n % 2^16) * 2^8, bits |-> 4]
    BY SMT DEF PushBytes
  <2>6. n \div 2^16 = n \div 65536 /\ (n % 2^16) * 2^8 = (n % 65536) * 256
    <3>1. n \in Nat
      BY <2>2, SMT DEF n
    <3> QED
      BY <3>1, SMT
  <2>7. /\ ByteFrom(a, v, r) = n \div 2^16 /\ n \div 2^16 \in Nat
        /\ Left(v, (r + 1) % 4) = (n % 2^16) * 2^8
        /\ Pending((r + 1) % 4) = 4
    BY <1>2, <2>1, <2>2, <2>6, SMT DEF ByteFrom, Left, Pending
  <2> QED
    BY <2>4, <2>5, <2>7, Zenon
<1>3. CASE r = 2
  <2> DEFINE b == (a % 16) * 1048576  w == v * 16384  n == b + w
             q == [output |-> p.output, buffer |-> n, bits |-> 10]
  <2>1. p.buffer = b /\ (r + 1) % 4 = 3
    BY <1>3, SMT DEF Left
  <2>8. p.bits = 4
    BY <1>3 DEF Pending
  <2>2. /\ n \div 65536 = (a % 16) * 16 + v \div 4 /\ (n % 65536) * 256 = (v % 4) * 4194304
        /\ (a % 16) * 16 + v \div 4 \in Nat /\ b \in Nat /\ w \in Nat
    BY <1>1, SMT
  <2>3. p.buffer + v * 2^(18 - p.bits) = n /\ p.bits + 6 = 10
    <3>1. 2^(18 - p.bits) = 2^(18 - 4)
      BY <2>8, Zenon
    <3>2. 2^(18 - 4) = 16384
      BY SMT
    <3> DEFINE e == 2^(18 - p.bits)
    <3>3. e = 16384
      BY <3>1, <3>2, SMT
    <3> HIDE DEF e, b
    <3>4. p.buffer + v * e = n
      BY <2>1, <3>3, SMT
    <3> QED
      BY <2>8, <3>4, SMT DEF e
  <2> HIDE DEF b, w, n
  <2>4. Pack(p, v) = PushBytes(q)
    BY <2>3, SMT DEF Pack
  <2>5. PushBytes(q) = [output |-> Append(p.output, n \div 2^16),
                        buffer |-> (n % 2^16) * 2^8, bits |-> 2]
    BY SMT DEF PushBytes
  <2>6. n \div 2^16 = n \div 65536 /\ (n % 2^16) * 2^8 = (n % 65536) * 256
    <3>1. n \in Nat
      BY <2>2, SMT DEF n
    <3> QED
      BY <3>1, SMT
  <2>7. /\ ByteFrom(a, v, r) = n \div 2^16 /\ n \div 2^16 \in Nat
        /\ Left(v, (r + 1) % 4) = (n % 2^16) * 2^8
        /\ Pending((r + 1) % 4) = 2
    BY <1>3, <2>1, <2>2, <2>6, SMT DEF ByteFrom, Left, Pending
  <2> QED
    BY <2>4, <2>5, <2>7, Zenon
<1>4. CASE r = 3
  <2> DEFINE b == (a % 4) * 4194304  w == v * 65536  n == b + w
             q == [output |-> p.output, buffer |-> n, bits |-> 8]
  <2>1. p.buffer = b /\ (r + 1) % 4 = 0
    BY <1>4, SMT DEF Left
  <2>8. p.bits = 2
    BY <1>4 DEF Pending
  <2>2. /\ n \div 65536 = (a % 4) * 64 + v /\ (n % 65536) * 256 = 0
        /\ (a % 4) * 64 + v \in Nat /\ b \in Nat /\ w \in Nat
    BY <1>1, SMT
  <2>3. p.buffer + v * 2^(18 - p.bits) = n /\ p.bits + 6 = 8
    <3>1. 2^(18 - p.bits) = 2^(18 - 2)
      BY <2>8, Zenon
    <3>2. 2^(18 - 2) = 65536
      BY SMT
    <3> DEFINE e == 2^(18 - p.bits)
    <3>3. e = 65536
      BY <3>1, <3>2, SMT
    <3> HIDE DEF e, b
    <3>4. p.buffer + v * e = n
      BY <2>1, <3>3, SMT
    <3> QED
      BY <2>8, <3>4, SMT DEF e
  <2> HIDE DEF b, w, n
  <2>4. Pack(p, v) = PushBytes(q)
    BY <2>3, SMT DEF Pack
  <2>5. PushBytes(q) = [output |-> Append(p.output, n \div 2^16),
                        buffer |-> (n % 2^16) * 2^8, bits |-> 0]
    BY SMT DEF PushBytes
  <2>6. n \div 2^16 = n \div 65536 /\ (n % 2^16) * 2^8 = (n % 65536) * 256
    <3>1. n \in Nat
      BY <2>2, SMT DEF n
    <3> QED
      BY <3>1, SMT
  <2>7. /\ ByteFrom(a, v, r) = n \div 2^16 /\ n \div 2^16 \in Nat
        /\ Left(v, (r + 1) % 4) = (n % 2^16) * 2^8
        /\ Pending((r + 1) % 4) = 0
    BY <1>4, <2>1, <2>2, <2>6, SMT DEF ByteFrom, Left, Pending
  <2> QED
    BY <2>4, <2>5, <2>7, Zenon
<1> QED
  BY <1>2, <1>3, <1>4

(* What is left in the end is put out with zeros below it.                 *)
LEMMA LastByte ==
  ASSUME NEW a \in Sextet, NEW r \in 1 .. 3
  PROVE  Left(a, r) \div 2^16 = ByteFrom(a, 0, r) /\ ByteFrom(a, 0, r) \in Nat
<1>1. a \in Int /\ 0 <= a /\ a <= 63
  BY DEF Sextet
<1>2. /\ (a * 262144) \div 2^16 = a * 4 + 0 \div 16 /\ a * 4 + 0 \div 16 \in Nat
      /\ ((a % 16) * 1048576) \div 2^16 = (a % 16) * 16 + 0 \div 4
      /\ (a % 16) * 16 + 0 \div 4 \in Nat
      /\ ((a % 4) * 4194304) \div 2^16 = (a % 4) * 64 + 0 /\ (a % 4) * 64 + 0 \in Nat
  BY <1>1, SMT
<1> QED
  BY <1>2, SMT DEF Left, ByteFrom

(* After q blocks and r sextets of the next.                               *)
PackedAs(p, c, q, r) ==
  /\ OutputIs(p.output, c, 3 * q + (IF r = 0 THEN 0 ELSE r - 1))
  /\ p.bits = Pending(r)
  /\ p.buffer = Left(SextetAt(c, 4 * q + r), r)

LEMMA OutputGrows ==
  ASSUME NEW c, NEW output, NEW i \in Nat, NEW s \in 1 .. 3, NEW byte \in Nat,
         OutputIs(output, c, 3 * i + (s - 1)), byte = ByteAt(c, i, s)
  PROVE  OutputIs(Append(output, byte), c, 3 * i + s)
<1> DEFINE n == 3 * i + (s - 1)  longer == Append(output, byte)
<1>1. /\ longer \in Seq(Nat) /\ Len(longer) = n + 1 /\ longer[n + 1] = byte
      /\ \A k \in 1 .. n : longer[k] = output[k]
  BY DEF OutputIs
<1> HIDE DEF longer
<1>2. ASSUME NEW j \in Nat, NEW t \in 1 .. 3, 3 * j + t <= 3 * i + s
      PROVE  longer[3 * j + t] = ByteAt(c, j, t)
  <2>1. CASE 3 * j + t <= n
    <3>1. 3 * j + t \in 1 .. n
      BY <2>1
    <3>2. output[3 * j + t] = ByteAt(c, j, t)
      BY <2>1 DEF OutputIs
    <3> HIDE DEF n
    <3> QED
      BY <1>1, <3>1, <3>2
  <2>2. CASE 3 * j + t > n
    <3>1. 3 * j + t = 3 * i + s
      BY <1>2, <2>2
    <3>2. j = i /\ t = s /\ 3 * j + t = n + 1
      BY <3>1
    <3> QED
      BY <1>1, <3>2
  <2> QED
    BY <2>1, <2>2
<1>3. n + 1 = 3 * i + s
  OBVIOUS
<1>4. Len(longer) = 3 * i + s
  BY <1>1, <1>3
<1>5. OutputIs(longer, c, 3 * i + s)
  BY <1>1, <1>2, <1>4 DEF OutputIs
<1> QED
  BY <1>5 DEF longer

LEMMA PackKeeps ==
  ASSUME NEW c \in Seq(Sextet), NEW q \in Nat, NEW r \in 0 .. 3, 4 * q + r < Len(c),
         NEW p, PackedAs(p, c, q, r)
  PROVE  PackedAs(Pack(p, c[4 * q + r + 1]), c, IF r = 3 THEN q + 1 ELSE q, (r + 1) % 4)
<1> DEFINE v == c[4 * q + r + 1]  x == Pack(p, v)
<1>1. v \in Sextet /\ v = SextetAt(c, 4 * q + r + 1)
  BY DEF SextetAt
<1>2. CASE r = 0
  <2>1. p.bits = 0 /\ p.buffer = 0 /\ OutputIs(p.output, c, 3 * q + 0)
    BY <1>2 DEF PackedAs, Pending, Left
  <2> HIDE DEF v
  <2>2. x = [output |-> p.output, buffer |-> Left(v, 1), bits |-> Pending(1)]
    BY <1>1, <2>1, PackFresh
  <2>3. (r + 1) % 4 = 1 /\ 4 * q + r + 1 = 4 * q + 1 /\ 1 - 1 = 0
    BY <1>2
  <2>4. PackedAs(x, c, q, 1)
    <3>1. x.output = p.output /\ x.buffer = Left(SextetAt(c, 4 * q + 1), 1)
          /\ x.bits = Pending(1)
      BY <1>1, <2>2, <2>3
    <3> HIDE DEF x
    <3> QED
      BY <2>1, <2>3, <3>1 DEF PackedAs
  <2> QED
    BY <1>2, <2>3, <2>4 DEF v
<1>3. CASE r # 0
  <2> DEFINE a == SextetAt(c, 4 * q + r)  byte == ByteFrom(a, v, r)
             q2 == IF r = 3 THEN q + 1 ELSE q  r2 == (r + 1) % 4
  <2>1. r \in 1 .. 3 /\ a \in Sextet
    <3>1. r \in 1 .. 3 /\ 4 * q + r \in 1 .. Len(c)
      BY <1>3
    <3> QED
      BY <3>1 DEF SextetAt
  <2>2. p.bits = Pending(r) /\ p.buffer = Left(a, r) /\ OutputIs(p.output, c, 3 * q + (r - 1))
    BY <1>3 DEF PackedAs
  <2> HIDE DEF a, v
  <2>3. /\ byte \in Nat
        /\ x = [output |-> Append(p.output, byte), buffer |-> Left(v, r2), bits |-> Pending(r2)]
    BY <1>1, <2>1, <2>2, PackFills
  <2>4. x.output = Append(p.output, byte) /\ x.buffer = Left(v, r2) /\ x.bits = Pending(r2)
    BY <2>3
  <2>5. byte = ByteAt(c, q, r)
    BY <1>1 DEF ByteAt, a
  <2> HIDE DEF byte, x
  <2>6. OutputIs(x.output, c, 3 * q + r)
    BY <2>1, <2>2, <2>3, <2>4, <2>5, OutputGrows
  <2>7. /\ 3 * q + r = 3 * q2 + (IF r2 = 0 THEN 0 ELSE r2 - 1)
        /\ r2 # 0 => 4 * q2 + r2 = 4 * q + r + 1
    BY <2>1
  <2> HIDE DEF q2, r2
  <2>8. x.buffer = Left(SextetAt(c, 4 * q2 + r2), r2)
    <3>1. CASE r2 = 0
      <4>1. \A y : Left(y, r2) = 0
        BY <3>1 DEF Left
      <4> QED
        BY <2>4, <4>1, Zenon
    <3>2. CASE r2 # 0
      BY <1>1, <2>4, <2>7, <3>2
    <3> QED
      BY <3>1, <3>2
  <2>9. PackedAs(x, c, q2, r2)
    BY <2>4, <2>6, <2>7, <2>8 DEF PackedAs
  <2> QED
    BY <2>9 DEF q2, r2, x, v
<1> QED
  BY <1>2, <1>3

(* The bytes of a text are its sextets, as many as it takes.               *)
LEMMA BytesAre ==
  ASSUME NEW c \in Seq(Sextet)
  PROVE  OutputIs(pack_bytes(c), c, (6 * Len(c) + 7) \div 8)
<1> DEFINE n == Len(c)
<1>1. PICK g \in [0 .. n -> PackState] :
               /\ g[0] = NothingPacked
               /\ \A k \in 1 .. n : g[k] = Pack(g[k - 1], c[k])
               /\ FoldLeft(Pack, NothingPacked, c) = g[n]
  BY PackedSoFar
<1> DEFINE A == {k \in 0 .. n : PackedAs(g[k], c, k \div 4, k % 4)}
<1>2. 0 \in A
  <2>1. NothingPacked.output = <<>> /\ NothingPacked.bits = 0 /\ NothingPacked.buffer = 0
    BY DEF NothingPacked
  <2>2. OutputIs(<<>>, c, 0)
    BY DEF OutputIs
  <2>3. PackedAs(NothingPacked, c, 0, 0)
    <3>1. 3 * 0 + 0 = 0 /\ Pending(0) = 0 /\ \A y : Left(y, 0) = 0
      BY DEF Pending, Left
    <3> QED
      BY <2>1, <2>2, <3>1 DEF PackedAs
  <2>4. 0 \div 4 = 0 /\ 0 % 4 = 0 /\ 0 \in 0 .. n
    OBVIOUS
  <2> QED
    BY <1>1, <2>3, <2>4
<1>3. ASSUME NEW k \in 1 .. n, k - 1 \in A PROVE k \in A
  <2> DEFINE q == (k - 1) \div 4  r == (k - 1) % 4
  <2>1. q \in Nat /\ r \in 0 .. 3 /\ 4 * q + r = k - 1
    OBVIOUS
  <2>2. k \div 4 = (IF r = 3 THEN q + 1 ELSE q) /\ k % 4 = (r + 1) % 4
    OBVIOUS
  <2>3. PackedAs(g[k - 1], c, q, r)
    BY <1>3
  <2> HIDE DEF q, r
  <2>4. 4 * q + r < Len(c) /\ 4 * q + r + 1 = k
    BY <2>1
  <2>5. PackedAs(Pack(g[k - 1], c[k]), c, IF r = 3 THEN q + 1 ELSE q, (r + 1) % 4)
    BY <2>1, <2>3, <2>4, PackKeeps
  <2>6. PackedAs(g[k], c, k \div 4, k % 4)
    BY <1>1, <2>2, <2>5
  <2> QED
    BY <2>6
<1>4. n \in A
  <2>1. n \in Nat /\ n \in 0 .. n
    OBVIOUS
  <2> HIDE DEF A, n
  <2>2. 0 .. n \subseteq A
    BY <1>2, <1>3, <2>1, InductionUpTo
  <2> QED
    BY <2>1, <2>2
<1> DEFINE p == g[n]  q == n \div 4  r == n % 4
<1>5. PackedAs(p, c, q, r)
  BY <1>4
<1>6. n \in Nat /\ q \in Nat /\ r \in 0 .. 3 /\ 4 * q + r = n
  OBVIOUS
<1>7. pack_bytes(c) = IF p.bits > 0 THEN Append(p.output, p.buffer \div 2^16) ELSE p.output
  BY <1>1 DEF pack_bytes
<1> HIDE DEF p, q, r, A
<1>8. CASE r = 0
  <2>1. p.bits = 0 /\ OutputIs(p.output, c, 3 * q + 0)
    BY <1>5, <1>8 DEF PackedAs, Pending
  <2>2. 3 * q + 0 = (6 * n + 7) \div 8
    BY <1>6, <1>8
  <2>3. pack_bytes(c) = p.output
    BY <1>7, <2>1
  <2> QED
    BY <2>1, <2>2, <2>3
<1>9. CASE r # 0
  <2> DEFINE a == SextetAt(c, 4 * q + r)  byte == ByteFrom(a, 0, r)
  <2>1. r \in 1 .. 3 /\ a \in Sextet /\ SextetAt(c, 4 * q + r + 1) = 0
    <3>1. r \in 1 .. 3 /\ 4 * q + r \in 1 .. Len(c) /\ ~(4 * q + r + 1 \in 1 .. Len(c))
      BY <1>6, <1>9
    <3> QED
      BY <3>1 DEF SextetAt
  <2>2. p.bits > 0 /\ p.buffer = Left(a, r) /\ OutputIs(p.output, c, 3 * q + (r - 1))
    <3>1. Pending(r) > 0
      BY <2>1 DEF Pending
    <3> QED
      BY <1>5, <1>9, <3>1 DEF PackedAs
  <2> HIDE DEF a
  <2>3. Left(a, r) \div 2^16 = byte /\ byte \in Nat
    BY <2>1, LastByte
  <2>4. byte = ByteAt(c, q, r)
    BY <2>1 DEF ByteAt, a
  <2> HIDE DEF byte
  <2>5. OutputIs(Append(p.output, byte), c, 3 * q + r)
    BY <1>6, <2>1, <2>2, <2>3, <2>4, OutputGrows
  <2>6. 3 * q + r = (6 * n + 7) \div 8
    BY <1>6, <2>1
  <2>7. pack_bytes(c) = Append(p.output, byte)
    BY <1>7, <2>2, <2>3, Zenon
  <2> QED
    BY <2>5, <2>6, <2>7
<1> QED
  BY <1>8, <1>9
-----------------------------------------------------------------------------
(* What the first eight powers are.                                        *)
Two(t) ==
  CASE t = 0 -> 1 [] t = 1 -> 2 [] t = 2 -> 4 [] t = 3 -> 8
    [] t = 4 -> 16 [] t = 5 -> 32 [] t = 6 -> 64 [] t = 7 -> 128

LEMMA PowersAre ==
  ASSUME NEW t \in 0 .. 7
  PROVE  2^t = Two(t)
<1> DEFINE e == 2^t
<1>1. ASSUME t = 0 PROVE e = Two(t)
  <2>1. e = 2^0
    BY <1>1, Zenon
  <2>2. 2^0 = 1
    BY SMT
  <2> HIDE DEF e
  <2> QED
    BY <1>1, <2>1, <2>2, SMT DEF Two
<1>2. ASSUME t = 1 PROVE e = Two(t)
  <2>1. e = 2^1
    BY <1>2, Zenon
  <2>2. 2^1 = 2
    BY SMT
  <2> HIDE DEF e
  <2> QED
    BY <1>2, <2>1, <2>2, SMT DEF Two
<1>3. ASSUME t = 2 PROVE e = Two(t)
  <2>1. e = 2^2
    BY <1>3, Zenon
  <2>2. 2^2 = 4
    BY SMT
  <2> HIDE DEF e
  <2> QED
    BY <1>3, <2>1, <2>2, SMT DEF Two
<1>4. ASSUME t = 3 PROVE e = Two(t)
  <2>1. e = 2^3
    BY <1>4, Zenon
  <2>2. 2^3 = 8
    BY SMT
  <2> HIDE DEF e
  <2> QED
    BY <1>4, <2>1, <2>2, SMT DEF Two
<1>5. ASSUME t = 4 PROVE e = Two(t)
  <2>1. e = 2^4
    BY <1>5, Zenon
  <2>2. 2^4 = 16
    BY SMT
  <2> HIDE DEF e
  <2> QED
    BY <1>5, <2>1, <2>2, SMT DEF Two
<1>6. ASSUME t = 5 PROVE e = Two(t)
  <2>1. e = 2^5
    BY <1>6, Zenon
  <2>2. 2^5 = 32
    BY SMT
  <2> HIDE DEF e
  <2> QED
    BY <1>6, <2>1, <2>2, SMT DEF Two
<1>7. ASSUME t = 6 PROVE e = Two(t)
  <2>1. e = 2^6
    BY <1>7, Zenon
  <2>2. 2^6 = 64
    BY SMT
  <2> HIDE DEF e
  <2> QED
    BY <1>7, <2>1, <2>2, SMT DEF Two
<1>8. ASSUME t = 7 PROVE e = Two(t)
  <2>1. e = 2^7
    BY <1>8, Zenon
  <2>2. 2^7 = 128
    BY SMT
  <2> HIDE DEF e
  <2> QED
    BY <1>8, <2>1, <2>2, SMT DEF Two
<1> HIDE DEF e
<1>9. e = Two(t)
  BY <1>1, <1>2, <1>3, <1>4, <1>5, <1>6, <1>7, <1>8
<1> QED
  BY <1>9 DEF e

(* The bits of a sextet, from its highest.                                 *)
SextetBit(v, k) == (v \div Two(5 - k)) % 2

(* The bits of a byte are the last ones of a sextet and the first ones of  *)
(* the next.                                                               *)
LEMMA BitsOfByte ==
  ASSUME NEW a \in Sextet, NEW b \in Sextet, NEW s \in 1 .. 3, NEW t \in 0 .. 7
  PROVE  (ByteFrom(a, b, s) \div Two(7 - t)) % 2
           = IF t < 8 - 2 * s THEN SextetBit(a, t + 2 * s - 2)
             ELSE SextetBit(b, t - (8 - 2 * s))
<1>1. a \in Int /\ b \in Int /\ 0 <= a /\ a <= 63 /\ 0 <= b /\ b <= 63
  BY DEF Sextet
<1>2. CASE s = 1
  <2>1. /\ ((a * 4 + b \div 16) \div 128) % 2 = (a \div 32) % 2
        /\ ((a * 4 + b \div 16) \div 64) % 2 = (a \div 16) % 2
        /\ ((a * 4 + b \div 16) \div 32) % 2 = (a \div 8) % 2
        /\ ((a * 4 + b \div 16) \div 16) % 2 = (a \div 4) % 2
        /\ ((a * 4 + b \div 16) \div 8) % 2 = (a \div 2) % 2
        /\ ((a * 4 + b \div 16) \div 4) % 2 = (a \div 1) % 2
        /\ ((a * 4 + b \div 16) \div 2) % 2 = (b \div 32) % 2
        /\ ((a * 4 + b \div 16) \div 1) % 2 = (b \div 16) % 2
    BY <1>1, SMT
  <2>2. ByteFrom(a, b, s) = a * 4 + b \div 16
    BY <1>2, SMT DEF ByteFrom
  <2>3. CASE t = 0
    BY <1>2, <2>1, <2>2, <2>3, SMT DEF SextetBit, Two
  <2>4. CASE t = 1
    BY <1>2, <2>1, <2>2, <2>4, SMT DEF SextetBit, Two
  <2>5. CASE t = 2
    BY <1>2, <2>1, <2>2, <2>5, SMT DEF SextetBit, Two
  <2>6. CASE t = 3
    BY <1>2, <2>1, <2>2, <2>6, SMT DEF SextetBit, Two
  <2>7. CASE t = 4
    BY <1>2, <2>1, <2>2, <2>7, SMT DEF SextetBit, Two
  <2>8. CASE t = 5
    BY <1>2, <2>1, <2>2, <2>8, SMT DEF SextetBit, Two
  <2>9. CASE t = 6
    BY <1>2, <2>1, <2>2, <2>9, SMT DEF SextetBit, Two
  <2>10. CASE t = 7
    BY <1>2, <2>1, <2>2, <2>10, SMT DEF SextetBit, Two
  <2> QED
    BY <2>3, <2>4, <2>5, <2>6, <2>7, <2>8, <2>9, <2>10
<1>3. CASE s = 2
  <2>1. /\ (((a % 16) * 16 + b \div 4) \div 128) % 2 = (a \div 8) % 2
        /\ (((a % 16) * 16 + b \div 4) \div 64) % 2 = (a \div 4) % 2
        /\ (((a % 16) * 16 + b \div 4) \div 32) % 2 = (a \div 2) % 2
        /\ (((a % 16) * 16 + b \div 4) \div 16) % 2 = (a \div 1) % 2
        /\ (((a % 16) * 16 + b \div 4) \div 8) % 2 = (b \div 32) % 2
        /\ (((a % 16) * 16 + b \div 4) \div 4) % 2 = (b \div 16) % 2
        /\ (((a % 16) * 16 + b \div 4) \div 2) % 2 = (b \div 8) % 2
        /\ (((a % 16) * 16 + b \div 4) \div 1) % 2 = (b \div 4) % 2
    BY <1>1, SMT
  <2>2. ByteFrom(a, b, s) = (a % 16) * 16 + b \div 4
    BY <1>3, SMT DEF ByteFrom
  <2>3. CASE t = 0
    BY <1>3, <2>1, <2>2, <2>3, SMT DEF SextetBit, Two
  <2>4. CASE t = 1
    BY <1>3, <2>1, <2>2, <2>4, SMT DEF SextetBit, Two
  <2>5. CASE t = 2
    BY <1>3, <2>1, <2>2, <2>5, SMT DEF SextetBit, Two
  <2>6. CASE t = 3
    BY <1>3, <2>1, <2>2, <2>6, SMT DEF SextetBit, Two
  <2>7. CASE t = 4
    BY <1>3, <2>1, <2>2, <2>7, SMT DEF SextetBit, Two
  <2>8. CASE t = 5
    BY <1>3, <2>1, <2>2, <2>8, SMT DEF SextetBit, Two
  <2>9. CASE t = 6
    BY <1>3, <2>1, <2>2, <2>9, SMT DEF SextetBit, Two
  <2>10. CASE t = 7
    BY <1>3, <2>1, <2>2, <2>10, SMT DEF SextetBit, Two
  <2> QED
    BY <2>3, <2>4, <2>5, <2>6, <2>7, <2>8, <2>9, <2>10
<1>4. CASE s = 3
  <2>1. /\ (((a % 4) * 64 + b) \div 128) % 2 = (a \div 2) % 2
        /\ (((a % 4) * 64 + b) \div 64) % 2 = (a \div 1) % 2
        /\ (((a % 4) * 64 + b) \div 32) % 2 = (b \div 32) % 2
        /\ (((a % 4) * 64 + b) \div 16) % 2 = (b \div 16) % 2
        /\ (((a % 4) * 64 + b) \div 8) % 2 = (b \div 8) % 2
        /\ (((a % 4) * 64 + b) \div 4) % 2 = (b \div 4) % 2
        /\ (((a % 4) * 64 + b) \div 2) % 2 = (b \div 2) % 2
        /\ (((a % 4) * 64 + b) \div 1) % 2 = (b \div 1) % 2
    BY <1>1, SMT
  <2>2. ByteFrom(a, b, s) = (a % 4) * 64 + b
    BY <1>4, SMT DEF ByteFrom
  <2>3. CASE t = 0
    BY <1>4, <2>1, <2>2, <2>3, SMT DEF SextetBit, Two
  <2>4. CASE t = 1
    BY <1>4, <2>1, <2>2, <2>4, SMT DEF SextetBit, Two
  <2>5. CASE t = 2
    BY <1>4, <2>1, <2>2, <2>5, SMT DEF SextetBit, Two
  <2>6. CASE t = 3
    BY <1>4, <2>1, <2>2, <2>6, SMT DEF SextetBit, Two
  <2>7. CASE t = 4
    BY <1>4, <2>1, <2>2, <2>7, SMT DEF SextetBit, Two
  <2>8. CASE t = 5
    BY <1>4, <2>1, <2>2, <2>8, SMT DEF SextetBit, Two
  <2>9. CASE t = 6
    BY <1>4, <2>1, <2>2, <2>9, SMT DEF SextetBit, Two
  <2>10. CASE t = 7
    BY <1>4, <2>1, <2>2, <2>10, SMT DEF SextetBit, Two
  <2> QED
    BY <2>3, <2>4, <2>5, <2>6, <2>7, <2>8, <2>9, <2>10
<1> QED
  BY <1>2, <1>3, <1>4

(* Where a bit of the text is found.                                       *)
LEMMA BitAt ==
  ASSUME NEW bytes, NEW q \in Nat, NEW s \in 1 .. 3, NEW t \in 0 .. 7
  PROVE  Bit(bytes, 24 * q + 8 * (s - 1) + t) = (bytes[3 * q + s] \div Two(7 - t)) % 2
<1> DEFINE n == 24 * q + 8 * (s - 1) + t
<1>1. n \div 8 + 1 = 3 * q + s /\ n % 8 = t /\ 7 - t \in 0 .. 7
  OBVIOUS
<1>2. 2^(7 - t) = Two(7 - t)
  BY <1>1, PowersAre
<1>3. Bit(bytes, n) = (bytes[3 * q + s] \div 2^(7 - t)) % 2
  <2> HIDE DEF n
  <2> QED
    BY <1>1, Zenon DEF Bit
<1> QED
  BY <1>2, <1>3

LEMMA BitOfText ==
  ASSUME NEW c \in Seq(Sextet), NEW bytes, NEW size \in Nat, OutputIs(bytes, c, size),
         NEW i \in Nat \ {0}, NEW k \in 0 .. 5, 6 * (i - 1) + k < 8 * size
  PROVE  Bit(bytes, 6 * (i - 1) + k) = SextetBit(SextetAt(c, i), k)
<1> DEFINE q == (i - 1) \div 4  r == (i - 1) % 4  m == 6 * r + k
           s == m \div 8 + 1  t == m % 8
           a == SextetAt(c, 4 * q + s)  b == SextetAt(c, 4 * q + s + 1)
<1>1. q \in Nat /\ r \in 0 .. 3 /\ i = 4 * q + r + 1
  OBVIOUS
<1> HIDE DEF q, r
<1>2. /\ s \in 1 .. 3 /\ t \in 0 .. 7 /\ 6 * (i - 1) + k = 24 * q + 8 * (s - 1) + t
      /\ t < 8 - 2 * s => s = r + 1 /\ k = t + 2 * s - 2
      /\ ~(t < 8 - 2 * s) => s = r /\ k = t - (8 - 2 * s)
  BY <1>1
<1> HIDE DEF m, s, t
<1>3. 3 * q + s <= size
  BY <1>1, <1>2
<1>4. bytes[3 * q + s] = ByteFrom(a, b, s)
  BY <1>1, <1>2, <1>3 DEF OutputIs, ByteAt
<1>5. a \in Sextet /\ b \in Sextet
  <2>1. 0 \in Sextet
    BY DEF Sextet
  <2> QED
    BY <2>1 DEF SextetAt
<1> HIDE DEF a, b
<1>6. Bit(bytes, 6 * (i - 1) + k) = (ByteFrom(a, b, s) \div Two(7 - t)) % 2
  <2>1. Bit(bytes, 24 * q + 8 * (s - 1) + t) = (bytes[3 * q + s] \div Two(7 - t)) % 2
    <3>1. q \in Nat /\ s \in 1 .. 3 /\ t \in 0 .. 7
      BY <1>1, <1>2
    <3> QED
      BY <3>1, BitAt, Zenon
  <2>2. 6 * (i - 1) + k = 24 * q + 8 * (s - 1) + t
    BY <1>2
  <2> QED
    BY <1>4, <2>1, <2>2, Zenon
<1>7. (ByteFrom(a, b, s) \div Two(7 - t)) % 2
         = IF t < 8 - 2 * s THEN SextetBit(a, t + 2 * s - 2) ELSE SextetBit(b, t - (8 - 2 * s))
  BY <1>2, <1>5, BitsOfByte
<1>8. /\ t < 8 - 2 * s => a = SextetAt(c, i) /\ k = t + 2 * s - 2
      /\ ~(t < 8 - 2 * s) => b = SextetAt(c, i) /\ k = t - (8 - 2 * s)
  BY <1>1, <1>2 DEF a, b
<1> QED
  BY <1>6, <1>7, <1>8

LEMMA AddBitType ==
  ASSUME NEW x \in Nat, NEW b \in 0 .. 1
  PROVE  AddBit(x, b) \in Nat
BY DEF AddBit

(* The number of the beginnings of a list of bits.                         *)
LEMMA NumberSoFar ==
  ASSUME NEW seq \in Seq(0 .. 1)
  PROVE  \E g \in [0 .. Len(seq) -> Nat] :
            /\ g[0] = 0
            /\ \A k \in 1 .. Len(seq) : g[k] = AddBit(g[k - 1], seq[k])
            /\ FoldLeft(AddBit, 0, seq) = g[Len(seq)]
<1> DEFINE n == Len(seq)
           step == [s \in (1 .. n) \X Nat |-> AddBit(s[2], seq[s[1]])]
<1>1. n \in Nat /\ DOMAIN seq = 1 .. n /\ \A k \in 1 .. n : seq[k] \in (0 .. 1)
  OBVIOUS
<1>2. step \in [(1 .. n) \X Nat -> Nat]
  BY <1>1, AddBitType
<1>3. \A k \in 1 .. n, x \in Nat : step[<<k, x>>] = AddBit(x, seq[k])
  OBVIOUS
<1> HIDE DEF n, step
<1>4. 0 \in Nat
  OBVIOUS
<1>5. PICK f : ListFolding(f, n, Nat, 0, step)
  BY <1>1, <1>2, <1>4, ListRecursionExists
<1>6. f = [t \in SUBSET DOMAIN seq |->
             IF t = {} THEN 0 ELSE AddBit(f[t \ {Max(t)}], seq[Max(t)])]
  <2>1. ASSUME NEW t \in SUBSET (1 .. n), t # {}
        PROVE  step[<<Max(t), f[t \ {Max(t)}]>>] = AddBit(f[t \ {Max(t)}], seq[Max(t)])
    <3>1. Max(t) \in 1 .. n /\ f[t \ {Max(t)}] \in Nat
      BY <1>1, <1>5, <2>1, MaxIsIn DEF ListFolding
    <3> QED
      BY <1>3, <3>1
  <2>2. \A t \in SUBSET (1 .. n) :
           f[t] = IF t = {} THEN 0 ELSE AddBit(f[t \ {Max(t)}], seq[Max(t)])
    BY <1>5, <2>1 DEF ListFolding
  <2>3. f \in [SUBSET (1 .. n) -> Nat]
    BY <1>5 DEF ListFolding
  <2> QED
    BY <1>1, <2>2, <2>3
<1>7. PICK h : /\ h = [t \in SUBSET DOMAIN seq |->
                         IF t = {} THEN 0 ELSE AddBit(h[t \ {Max(t)}], seq[Max(t)])]
               /\ FoldLeft(AddBit, 0, seq) = h[DOMAIN seq]
  BY <1>6 DEF FoldLeft, MapThenFoldSet
<1>8. h[{}] = 0
  <2>1. {} \in SUBSET DOMAIN seq
    OBVIOUS
  <2> QED
    BY <1>7, <2>1
<1>9. ASSUME NEW k \in 1 .. n, h[1 .. (k - 1)] \in Nat
      PROVE  h[1 .. k] = step[<<k, h[1 .. (k - 1)]>>]
  <2>1. /\ 1 .. k \in SUBSET DOMAIN seq /\ 1 .. k # {}
        /\ Max(1 .. k) = k /\ (1 .. k) \ {k} = 1 .. (k - 1)
    BY <1>1, Beginnings
  <2>2. h[1 .. k] = AddBit(h[1 .. (k - 1)], seq[k])
    BY <1>7, <2>1
  <2> QED
    BY <1>3, <1>9, <2>2
<1>10. PICK g : Results(g, n, Nat, 0, step) /\ h[1 .. n] = g[n]
  <2>1. Follows(h, n, Nat, 0, step)
    BY <1>8, <1>9 DEF Follows
  <2>2. n \in Nat
    BY <1>1
  <2>3. LastResult(h[1 .. n], n, Nat, 0, step)
    BY <1>2, <1>4, <2>1, <2>2, ResultsAlong
  <2> QED
    BY <2>3 DEF LastResult
<1>11. ASSUME NEW k \in 1 .. n PROVE g[k] = AddBit(g[k - 1], seq[k])
  <2>1. k - 1 \in 0 .. n
    BY <1>1
  <2>2. g[k - 1] \in Nat /\ g[k] = step[<<k, g[k - 1]>>]
    BY <1>10, <2>1 DEF Results
  <2> QED
    BY <1>3, <2>2
<1>12. g \in [0 .. n -> Nat] /\ g[0] = 0 /\ FoldLeft(AddBit, 0, seq) = g[n]
  BY <1>1, <1>7, <1>10 DEF Results
<1> QED
  BY <1>11, <1>12 DEF n

(* Six bits add up to what they are of.                                    *)
LEMMA SextetIs ==
  ASSUME NEW v \in Int, 0 <= v, v <= 63
  PROVE  v = 32 * ((v \div 32) % 2) + 16 * ((v \div 16) % 2) + 8 * ((v \div 8) % 2)
               + 4 * ((v \div 4) % 2) + 2 * ((v \div 2) % 2) + ((v \div 1) % 2)
<1>1. (v \div 32) % 2 = v \div 32
  BY SMT
<1>2. (v \div 16) % 2 = v \div 16 - 2 * (v \div 32)
  BY SMT
<1>3. (v \div 8) % 2 = v \div 8 - 2 * (v \div 16)
  BY SMT
<1>4. (v \div 4) % 2 = v \div 4 - 2 * (v \div 8)
  BY SMT
<1>5. (v \div 2) % 2 = v \div 2 - 2 * (v \div 4)
  BY SMT
<1>6. (v \div 1) % 2 = v - 2 * (v \div 2)
  BY SMT
<1>7. /\ v \div 32 \in Int /\ v \div 16 \in Int /\ v \div 8 \in Int
      /\ v \div 4 \in Int /\ v \div 2 \in Int
  BY SMT
<1> QED
  BY <1>1, <1>2, <1>3, <1>4, <1>5, <1>6, <1>7, SMT

(* Six bits make the sextet, fewer make it when they are nothing.          *)
LEMMA NumberOfBits ==
  ASSUME NEW v \in Sextet, NEW n \in 0 .. 6, NEW bits \in Seq(0 .. 1), Len(bits) = n,
         \A k \in 1 .. n : bits[k] = SextetBit(v, k - 1),
         n # 6 => v = 0
  PROVE  FoldLeft(AddBit, 0, bits) = v
<1>1. PICK g \in [0 .. n -> Nat] :
            /\ g[0] = 0
            /\ \A k \in 1 .. n : g[k] = AddBit(g[k - 1], bits[k])
            /\ FoldLeft(AddBit, 0, bits) = g[n]
  BY NumberSoFar
<1>2. \A k \in 1 .. n : g[k] = 2 * g[k - 1] + SextetBit(v, k - 1)
  BY <1>1 DEF AddBit
<1>3. CASE n = 6
  <2> DEFINE b0 == (v \div 32) % 2  b1 == (v \div 16) % 2  b2 == (v \div 8) % 2
             b3 == (v \div 4) % 2  b4 == (v \div 2) % 2  b5 == (v \div 1) % 2
  <2>1. /\ g[1] = 2 * g[0] + SextetBit(v, 0) /\ g[2] = 2 * g[1] + SextetBit(v, 1)
        /\ g[3] = 2 * g[2] + SextetBit(v, 2) /\ g[4] = 2 * g[3] + SextetBit(v, 3)
        /\ g[5] = 2 * g[4] + SextetBit(v, 4) /\ g[6] = 2 * g[5] + SextetBit(v, 5)
    <3>1. /\ 1 - 1 = 0 /\ 2 - 1 = 1 /\ 3 - 1 = 2 /\ 4 - 1 = 3 /\ 5 - 1 = 4 /\ 6 - 1 = 5
          /\ 1 \in 1 .. n /\ 2 \in 1 .. n /\ 3 \in 1 .. n /\ 4 \in 1 .. n /\ 5 \in 1 .. n
          /\ 6 \in 1 .. n
      BY <1>3
    <3> QED
      BY <1>2, <3>1
  <2>2. /\ SextetBit(v, 0) = b0 /\ SextetBit(v, 1) = b1 /\ SextetBit(v, 2) = b2
        /\ SextetBit(v, 3) = b3 /\ SextetBit(v, 4) = b4 /\ SextetBit(v, 5) = b5
    BY SMT DEF SextetBit, Two
  <2>3. v \in Int /\ 0 <= v /\ v <= 63
    BY DEF Sextet
  <2>4. v = 32 * b0 + 16 * b1 + 8 * b2 + 4 * b3 + 2 * b4 + b5
    BY <2>3, SextetIs
  <2>5. /\ g[1] \in Nat /\ g[2] \in Nat /\ g[3] \in Nat /\ g[4] \in Nat /\ g[5] \in Nat
        /\ g[6] \in Nat /\ g[0] = 0
    BY <1>1, <1>3
  <2>6. b0 \in Int /\ b1 \in Int /\ b2 \in Int /\ b3 \in Int /\ b4 \in Int /\ b5 \in Int
    BY <2>3
  <2> HIDE DEF b0, b1, b2, b3, b4, b5
  <2>7. g[6] = 32 * b0 + 16 * b1 + 8 * b2 + 4 * b3 + 2 * b4 + b5
    <3>1. /\ g[1] = 2 * g[0] + b0 /\ g[2] = 2 * g[1] + b1 /\ g[3] = 2 * g[2] + b2
          /\ g[4] = 2 * g[3] + b3 /\ g[5] = 2 * g[4] + b4 /\ g[6] = 2 * g[5] + b5
      BY <2>1, <2>2
    <3> QED
      BY <2>5, <2>6, <3>1
  <2> QED
    BY <1>1, <1>3, <2>4, <2>7
<1>4. CASE n # 6
  <2>1. \A k \in 0 .. 5 : SextetBit(0, k) = 0
    BY SMT DEF SextetBit, Two
  <2> DEFINE A == {k \in 0 .. n : g[k] = 0}
  <2>2. 0 \in A
    <3>1. 0 \in 0 .. n
      OBVIOUS
    <3> QED
      BY <1>1, <3>1
  <2>3. ASSUME NEW k \in 1 .. n, k - 1 \in A PROVE k \in A
    <3>4. g[k - 1] = 0
      BY <2>3
    <3>5. k \in 0 .. n /\ k - 1 \in 0 .. 5
      OBVIOUS
    <3>1. g[k - 1] = 0 /\ k \in 0 .. n /\ k - 1 \in 0 .. 5
      BY <3>4, <3>5
    <3>2. SextetBit(v, k - 1) = 0
      BY <1>4, <2>1, <3>1, Zenon
    <3>3. g[k] = 2 * 0 + 0
      BY <1>2, <3>1, <3>2
    <3> QED
      BY <3>1, <3>3
  <2> HIDE DEF A
  <2>4. 0 .. n \subseteq A
    <3>1. n \in Nat
      OBVIOUS
    <3> QED
      BY <2>2, <2>3, <3>1, InductionUpTo
  <2>5. g[n] = 0
    <3>1. n \in 0 .. n
      OBVIOUS
    <3> QED
      BY <2>4, <3>1 DEF A
  <2> QED
    BY <1>1, <1>4, <2>5, Zenon
<1> QED
  BY <1>3, <1>4

(* So every number that is read is a sextet of the text, or nothing after  *)
(* the last.                                                               *)
LEMMA NumbersAre ==
  ASSUME NEW c \in Seq(Sextet), NEW bytes, OutputIs(bytes, c, (6 * Len(c) + 7) \div 8),
         NEW i \in 1 .. (8 * Len(bytes) + 5) \div 6
  PROVE  Number(bytes, 6 * (i - 1)) = SextetAt(c, i)
<1> DEFINE size == Len(bytes)  v == SextetAt(c, i)  n == 6 * (i - 1)
           m == Min({6, 8 * size - n})
           bits == [k \in 1 .. m |-> Bit(bytes, n + k - 1)]
<1>1. size = (6 * Len(c) + 7) \div 8 /\ size \in Nat /\ Len(c) \in Nat
  BY DEF OutputIs
<1>2. 8 * size - n \in Nat \ {0} /\ i \in Nat \ {0} /\ n \in Nat
  BY <1>1
<1>3. m \in 1 .. 6 /\ m <= 8 * size - n /\ (m # 6 => m = 8 * size - n /\ m < 6)
  <2> DEFINE left == 8 * size - n
  <2>4. m = Min({6, left})
    OBVIOUS
  <2> HIDE DEF size, n, m
  <2>1. left \in Nat \ {0}
    BY <1>2
  <2>2. m = IF left < 6 THEN left ELSE 6
    <3> HIDE DEF left
    <3>1. left \in Int /\ 6 \in Int
      BY <2>1
    <3> QED
      BY <2>4, <3>1, MinOfTwo, Zenon
  <2> HIDE DEF left
  <2>3. m \in 1 .. 6 /\ m <= left /\ (m # 6 => m = left /\ m < 6)
    BY <2>1, <2>2
  <2> QED
    BY <2>3 DEF left
<1>4. v \in Sextet
  <2>1. 0 \in Sextet
    BY DEF Sextet
  <2> QED
    BY <2>1 DEF SextetAt
<1> HIDE DEF m, v, size
<1>5. m # 6 => v = 0
  <2>1. ASSUME m # 6 PROVE i > Len(c)
    BY <1>1, <1>2, <1>3, <2>1
  <2> QED
    BY <1>1, <2>1 DEF SextetAt, v
<1>6. ASSUME NEW k \in 1 .. m PROVE bits[k] = SextetBit(v, k - 1)
  <2>1. k - 1 \in 0 .. 5 /\ n + (k - 1) < 8 * size /\ n + k - 1 = n + (k - 1)
    <3> HIDE DEF n
    <3> QED
      BY <1>1, <1>2, <1>3
  <2>2. bits[k] = Bit(bytes, n + (k - 1))
    BY <2>1
  <2>3. OutputIs(bytes, c, size)
    BY <1>1
  <2>4. Bit(bytes, n + (k - 1)) = SextetBit(v, k - 1)
    BY <1>1, <1>2, <2>1, <2>3, BitOfText DEF v
  <2> QED
    BY <2>2, <2>4
<1>7. \A k \in 0 .. 5 : SextetBit(v, k) \in 0 .. 1
  <2>1. \A k \in 0 .. 5 : Two(5 - k) \in Nat \ {0}
    BY SMT DEF Two
  <2>2. v \in Nat
    BY <1>4 DEF Sextet
  <2>3. ASSUME NEW d \in Nat \ {0} PROVE (v \div d) % 2 \in 0 .. 1
    BY <2>2
  <2> QED
    BY <2>1, <2>3 DEF SextetBit
<1>8. bits \in Seq(0 .. 1) /\ Len(bits) = m
  <2>1. ASSUME NEW k \in 1 .. m PROVE bits[k] \in 0 .. 1
    <3>1. k - 1 \in 0 .. 5
      BY <1>3
    <3> QED
      BY <1>6, <1>7, <3>1
  <2>2. DOMAIN bits = 1 .. m /\ m \in Nat /\ bits = [k \in 1 .. m |-> bits[k]]
    BY <1>3
  <2> HIDE DEF bits
  <2> QED
    BY <2>1, <2>2
<1>9. Number(bytes, n) = FoldLeft(AddBit, 0, bits)
  BY DEF Number, m, size
<1> HIDE DEF bits, n
<1>10. FoldLeft(AddBit, 0, bits) = v
  <2>1. m \in 0 .. 6
    BY <1>3
  <2> QED
    BY <1>4, <1>5, <1>6, <1>8, <2>1, NumberOfBits
<1> QED
  BY <1>9, <1>10 DEF v, n
-----------------------------------------------------------------------------
(* Where the lists that FlattenSeq puts one after the other end.           *)
Laid(ends, seqs, flat) ==
  /\ ends \in [0 .. Len(seqs) -> 0 .. Len(flat)]
  /\ ends[0] = 0 /\ ends[Len(seqs)] = Len(flat)
  /\ \A k \in 1 .. Len(seqs) :
        /\ ends[k] = ends[k - 1] + Len(seqs[k])
        /\ \A j \in 1 .. Len(seqs[k]) : flat[ends[k - 1] + j] = seqs[k][j]

Begins(s, flat) == Len(s) <= Len(flat) /\ \A j \in 1 .. Len(s) : flat[j] = s[j]

LEMMA BeginsWithPart ==
  ASSUME NEW V, NEW s \in Seq(V), NEW part \in Seq(V), NEW flat \in Seq(V),
         Begins(s \o part, flat)
  PROVE  /\ Begins(s, flat) /\ Len(s \o part) = Len(s) + Len(part)
         /\ \A j \in 1 .. Len(part) : flat[Len(s) + j] = part[j]
<1>1. /\ Len(s \o part) = Len(s) + Len(part) /\ Len(s) \in Nat /\ Len(part) \in Nat
      /\ Len(flat) \in Nat
  OBVIOUS
<1>2. /\ \A j \in 1 .. Len(s) : (s \o part)[j] = s[j]
      /\ \A j \in 1 .. Len(part) : (s \o part)[Len(s) + j] = part[j]
  OBVIOUS
<1>3. /\ \A j \in 1 .. Len(s) : j \in 1 .. Len(s \o part)
      /\ \A j \in 1 .. Len(part) : Len(s) + j \in 1 .. Len(s \o part)
  BY <1>1
<1>4. Len(s) <= Len(flat)
  BY <1>1 DEF Begins
<1> QED
  BY <1>1, <1>2, <1>3, <1>4 DEF Begins

LEMMA FlattenLays ==
  ASSUME NEW V, NEW seqs \in Seq(Seq(V))
  PROVE  /\ FlattenSeq(seqs) \in Seq(V)
         /\ \E ends : Laid(ends, seqs, FlattenSeq(seqs))
<1> DEFINE n == Len(seqs)  flat == FlattenSeq(seqs)
<1>1. PICK g \in [0 .. n -> Seq(V)] :
            /\ g[0] = <<>>
            /\ \A k \in 1 .. n : g[k] = g[k - 1] \o seqs[k]
            /\ flat = g[n]
  BY FlattenIs
<1>2. n \in Nat /\ n \in 0 .. n /\ \A k \in 1 .. n : seqs[k] \in Seq(V)
  OBVIOUS
<1> HIDE DEF n, flat
<1>3. flat \in Seq(V)
  BY <1>1, <1>2
<1> DEFINE A == {d \in 0 .. n : Begins(g[n - d], flat)}
<1>4. 0 \in A
  <2>1. n - 0 = n /\ 0 \in 0 .. n
    BY <1>2
  <2>2. Begins(flat, flat)
    BY <1>3 DEF Begins
  <2> QED
    BY <1>1, <2>1, <2>2
<1>5. ASSUME NEW d \in 1 .. n, d - 1 \in A PROVE d \in A
  <2>1. /\ n - (d - 1) \in 1 .. n /\ (n - (d - 1)) - 1 = n - d /\ n - d \in 0 .. n
        /\ d \in 0 .. n
    BY <1>2
  <2>2. g[n - (d - 1)] = g[n - d] \o seqs[n - (d - 1)]
    BY <1>1, <2>1
  <2>3. g[n - d] \in Seq(V) /\ seqs[n - (d - 1)] \in Seq(V)
    BY <1>1, <1>2, <2>1
  <2>4. Begins(g[n - d] \o seqs[n - (d - 1)], flat)
    BY <1>5, <2>2
  <2>5. Begins(g[n - d], flat)
    BY <1>3, <2>3, <2>4, BeginsWithPart
  <2> QED
    BY <2>1, <2>5
<1> HIDE DEF A
<1>6. 0 .. n \subseteq A
  BY <1>2, <1>4, <1>5, InductionUpTo
<1>7. ASSUME NEW k \in 0 .. n PROVE Begins(g[k], flat)
  <2>1. n - k \in 0 .. n /\ n - (n - k) = k
    BY <1>2
  <2>2. n - k \in A
    BY <1>6, <2>1
  <2> QED
    BY <2>1, <2>2 DEF A
<1> DEFINE ends == [k \in 0 .. n |-> Len(g[k])]
<1>8. ends \in [0 .. n -> 0 .. Len(flat)]
  <2>1. ASSUME NEW k \in 0 .. n PROVE Len(g[k]) \in 0 .. Len(flat)
    <3>1. Len(g[k]) \in Nat /\ Len(flat) \in Nat /\ Len(g[k]) <= Len(flat)
      BY <1>1, <1>3, <1>7 DEF Begins
    <3> QED
      BY <3>1
  <2> QED
    BY <2>1
<1>9. ends[0] = 0 /\ ends[n] = Len(flat)
  BY <1>1, <1>2
<1>10. ASSUME NEW k \in 1 .. n
       PROVE  /\ ends[k] = ends[k - 1] + Len(seqs[k])
              /\ \A j \in 1 .. Len(seqs[k]) : flat[ends[k - 1] + j] = seqs[k][j]
  <2>1. k \in 0 .. n /\ k - 1 \in 0 .. n
    BY <1>2
  <2>2. g[k] = g[k - 1] \o seqs[k] /\ g[k - 1] \in Seq(V) /\ seqs[k] \in Seq(V)
    BY <1>1, <1>2, <2>1
  <2>3. Begins(g[k - 1] \o seqs[k], flat)
    BY <1>7, <2>1, <2>2
  <2>4. /\ Len(g[k - 1] \o seqs[k]) = Len(g[k - 1]) + Len(seqs[k])
        /\ \A j \in 1 .. Len(seqs[k]) : flat[Len(g[k - 1]) + j] = seqs[k][j]
    BY <1>3, <2>2, <2>3, BeginsWithPart
  <2>5. ends[k] = Len(g[k]) /\ ends[k - 1] = Len(g[k - 1])
    BY <2>1
  <2> HIDE DEF ends
  <2> QED
    BY <2>2, <2>4, <2>5
<1> HIDE DEF ends
<1>11. Laid(ends, seqs, flat)
  BY <1>8, <1>9, <1>10 DEF Laid, n
<1> QED
  BY <1>3, <1>11 DEF flat
-----------------------------------------------------------------------------
(* What a text is made of: only letters are written in capitals.           *)
Printable ==
  {x \in [value : (0 .. 62) \cup {Unknown}, upper : BOOLEAN] : x.upper => x.value \in Letters}

(* What can be read of a character: nothing but a space of an unknown one. *)
Legible(x) == IF x.value = Unknown THEN Char(Space, FALSE) ELSE x

Codes(x) == IF x.upper THEN <<Capital, char_conv(x)>> ELSE <<char_conv(x)>>

ReadState == [out : Seq([value : Nat, upper : BOOLEAN]), capNext : BOOLEAN]

LEMMA UnpackType ==
  ASSUME NEW read \in ReadState, NEW v \in Sextet
  PROVE  Unpack(read, v) \in ReadState
<1>1. v \in Nat /\ (read.capNext /\ v \in Letters) \in BOOLEAN
  BY DEF Sextet, ReadState
<1>2. Char(v, read.capNext /\ v \in Letters) \in [value : Nat, upper : BOOLEAN]
  BY <1>1 DEF Char
<1>3. read.out \in Seq([value : Nat, upper : BOOLEAN])
  BY DEF ReadState
<1>4. Append(read.out, Char(v, read.capNext /\ v \in Letters))
         \in Seq([value : Nat, upper : BOOLEAN])
  BY <1>2, <1>3
<1>5. CASE v >= EncodingSize
  BY <1>5 DEF Unpack, ReadState
<1>6. CASE ~(v >= EncodingSize)
  BY <1>4, <1>6 DEF Unpack, ReadState
<1> QED
  BY <1>5, <1>6

(* What is read of the beginnings of a list of sextets.                    *)
LEMMA ReadSoFar ==
  ASSUME NEW seq \in Seq(Sextet)
  PROVE  \E g \in [0 .. Len(seq) -> ReadState] :
            /\ g[0] = NothingRead
            /\ \A k \in 1 .. Len(seq) : g[k] = Unpack(g[k - 1], seq[k])
            /\ FoldLeft(Unpack, NothingRead, seq) = g[Len(seq)]
<1> DEFINE n == Len(seq)
           step == [s \in (1 .. n) \X ReadState |-> Unpack(s[2], seq[s[1]])]
<1>1. n \in Nat /\ DOMAIN seq = 1 .. n /\ \A k \in 1 .. n : seq[k] \in Sextet
  OBVIOUS
<1>2. step \in [(1 .. n) \X ReadState -> ReadState]
  BY <1>1, UnpackType
<1>3. \A k \in 1 .. n, x \in ReadState : step[<<k, x>>] = Unpack(x, seq[k])
  OBVIOUS
<1> HIDE DEF n, step
<1>4. NothingRead \in ReadState
  BY DEF NothingRead, ReadState
<1>5. PICK f : ListFolding(f, n, ReadState, NothingRead, step)
  BY <1>1, <1>2, <1>4, ListRecursionExists
<1>6. f = [t \in SUBSET DOMAIN seq |->
             IF t = {} THEN NothingRead ELSE Unpack(f[t \ {Max(t)}], seq[Max(t)])]
  <2>1. ASSUME NEW t \in SUBSET (1 .. n), t # {}
        PROVE  step[<<Max(t), f[t \ {Max(t)}]>>] = Unpack(f[t \ {Max(t)}], seq[Max(t)])
    <3>1. Max(t) \in 1 .. n /\ f[t \ {Max(t)}] \in ReadState
      BY <1>1, <1>5, <2>1, MaxIsIn DEF ListFolding
    <3> QED
      BY <1>3, <3>1
  <2>2. \A t \in SUBSET (1 .. n) :
           f[t] = IF t = {} THEN NothingRead ELSE Unpack(f[t \ {Max(t)}], seq[Max(t)])
    BY <1>5, <2>1 DEF ListFolding
  <2>3. f \in [SUBSET (1 .. n) -> ReadState]
    BY <1>5 DEF ListFolding
  <2> QED
    BY <1>1, <2>2, <2>3
<1>7. PICK h : /\ h = [t \in SUBSET DOMAIN seq |->
                         IF t = {} THEN NothingRead ELSE Unpack(h[t \ {Max(t)}], seq[Max(t)])]
               /\ FoldLeft(Unpack, NothingRead, seq) = h[DOMAIN seq]
  BY <1>6 DEF FoldLeft, MapThenFoldSet
<1>8. h[{}] = NothingRead
  <2>1. {} \in SUBSET DOMAIN seq
    OBVIOUS
  <2> QED
    BY <1>7, <2>1
<1>9. ASSUME NEW k \in 1 .. n, h[1 .. (k - 1)] \in ReadState
      PROVE  h[1 .. k] = step[<<k, h[1 .. (k - 1)]>>]
  <2>1. /\ 1 .. k \in SUBSET DOMAIN seq /\ 1 .. k # {}
        /\ Max(1 .. k) = k /\ (1 .. k) \ {k} = 1 .. (k - 1)
    BY <1>1, Beginnings
  <2>2. h[1 .. k] = Unpack(h[1 .. (k - 1)], seq[k])
    BY <1>7, <2>1
  <2> QED
    BY <1>3, <1>9, <2>2
<1>10. PICK g : Results(g, n, ReadState, NothingRead, step) /\ h[1 .. n] = g[n]
  <2>1. Follows(h, n, ReadState, NothingRead, step)
    BY <1>8, <1>9 DEF Follows
  <2>2. n \in Nat
    BY <1>1
  <2>3. LastResult(h[1 .. n], n, ReadState, NothingRead, step)
    BY <1>2, <1>4, <2>1, <2>2, ResultsAlong
  <2> QED
    BY <2>3 DEF LastResult
<1>11. ASSUME NEW k \in 1 .. n PROVE g[k] = Unpack(g[k - 1], seq[k])
  <2>1. k - 1 \in 0 .. n
    BY <1>1
  <2>2. g[k - 1] \in ReadState /\ g[k] = step[<<k, g[k - 1]>>]
    BY <1>10, <2>1 DEF Results
  <2> QED
    BY <1>3, <2>2
<1>12. /\ g \in [0 .. n -> ReadState] /\ g[0] = NothingRead
       /\ FoldLeft(Unpack, NothingRead, seq) = g[n]
  BY <1>1, <1>7, <1>10 DEF Results
<1> QED
  BY <1>11, <1>12 DEF n

(* A character is read from its codes, after whatever was read before.     *)
LEMMA CodesAreRead ==
  ASSUME NEW x \in Printable, NEW out
  PROVE  LET before == [out |-> out, capNext |-> FALSE]
             after == [out |-> Append(out, Legible(x)), capNext |-> FALSE]
         IN  /\ Codes(x) \in Seq(Sextet)
             /\ \/ Len(Codes(x)) = 1 /\ Unpack(before, Codes(x)[1]) = after
                \/ Len(Codes(x)) = 2 /\ Unpack(Unpack(before, Codes(x)[1]), Codes(x)[2]) = after
<1> DEFINE before == [out |-> out, capNext |-> FALSE]
           after == [out |-> Append(out, Legible(x)), capNext |-> FALSE]
           v == char_conv(x)
<1>1. /\ x.value \in (0 .. 62) \cup {64} /\ x.upper \in BOOLEAN
      /\ x = [value |-> x.value, upper |-> x.upper]
      /\ x.upper => x.value \in 1 .. 26
  BY DEF Printable, Unknown, Letters
<1>2. v \in 0 .. 62 /\ v \in Sextet /\ Capital \in Sextet /\ ~(v >= EncodingSize)
  <2>1. v \in 0 .. 62
    BY <1>1 DEF char_conv, Unknown, Space
  <2>2. ~(v >= 63)
    BY <2>1
  <2> QED
    BY <2>1, <2>2 DEF Sextet, Capital, EncodingSize
<1> HIDE DEF v
<1>3. CASE x.upper
  <2>1. Codes(x) = <<Capital, v>>
    BY <1>3 DEF Codes, v
  <2>2. Unpack(before, Capital) = [out |-> out, capNext |-> TRUE]
    <3>1. Capital >= EncodingSize
      BY SMT DEF Capital, EncodingSize
    <3>2. Unpack(before, Capital) = [before EXCEPT !.capNext = TRUE]
      BY <3>1, Zenon DEF Unpack
    <3> QED
      BY <3>2
  <2>3. v = x.value /\ v \in Letters /\ Legible(x) = x /\ x = Char(v, TRUE)
    BY <1>1, <1>3 DEF char_conv, Legible, Unknown, Letters, v, Char
  <2>4. Unpack([out |-> out, capNext |-> TRUE], v) = after
    <3>1. Unpack([out |-> out, capNext |-> TRUE], v)
            = [out |-> Append(out, Char(v, TRUE /\ v \in Letters)), capNext |-> FALSE]
      BY <1>2 DEF Unpack
    <3>2. (TRUE /\ v \in Letters) = TRUE
      BY <2>3
    <3> QED
      BY <2>3, <3>1, <3>2, Zenon
  <2>5. /\ Codes(x) \in Seq(Sextet) /\ Len(Codes(x)) = 2
        /\ Codes(x)[1] = Capital /\ Codes(x)[2] = v
    BY <1>2, <2>1
  <2> HIDE DEF before, after
  <2>6. Unpack(Unpack(before, Codes(x)[1]), Codes(x)[2]) = after
    BY <2>2, <2>4, <2>5, Zenon
  <2> QED
    BY <2>5, <2>6, Zenon DEF before, after
<1>4. CASE ~x.upper
  <2>1. Codes(x) = <<v>>
    BY <1>4 DEF Codes, v
  <2>2. Char(v, FALSE) = Legible(x)
    <3>1. CASE x.value = Unknown
      BY <3>1 DEF char_conv, Legible, v
    <3>2. CASE x.value # Unknown
      <4>1. v = x.value /\ Legible(x) = x /\ x.upper = FALSE
        BY <1>1, <1>4, <3>2 DEF char_conv, Legible, v
      <4> QED
        BY <1>1, <4>1 DEF Char
    <3> QED
      BY <3>1, <3>2
  <2>3. Unpack(before, v) = after
    <3>1. Unpack(before, v)
            = [out |-> Append(out, Char(v, FALSE /\ v \in Letters)), capNext |-> FALSE]
      BY <1>2 DEF Unpack
    <3>2. (FALSE /\ v \in Letters) = FALSE
      OBVIOUS
    <3> QED
      BY <2>2, <3>1, <3>2, Zenon
  <2>4. Codes(x) \in Seq(Sextet) /\ Len(Codes(x)) = 1 /\ Codes(x)[1] = v
    BY <1>2, <2>1
  <2> HIDE DEF before, after
  <2>5. Unpack(before, Codes(x)[1]) = after
    BY <2>3, <2>4, Zenon
  <2> QED
    BY <2>4, <2>5, Zenon DEF before, after
<1> QED
  BY <1>1, <1>3, <1>4

(* A last sextet may be of nothing but bits that fill up the last byte.    *)
LEMMA Groups ==
  ASSUME NEW n \in Nat
  PROVE  (8 * ((6 * n + 7) \div 8) + 5) \div 6 \in {n, n + 1}
<1> DEFINE q == n \div 4  r == n % 4  b == (6 * n + 7) \div 8
<1>1. q \in Nat /\ r \in 0 .. 3 /\ n = 4 * q + r
  OBVIOUS
<1>2. b = 3 * q + r
  BY <1>1
<1> HIDE DEF q, r, b
<1>3. (8 * b + 5) \div 6 \in {n, n + 1}
  BY <1>1, <1>2
<1> QED
  BY <1>3 DEF b

(* Whatever is logged, the client reads it: capital letters and all, with  *)
(* a space for every character that has no code; bits that fill up the     *)
(* last byte may add one empty line.                                       *)
THEOREM TextIsRead ==
  ASSUME NEW data \in Seq(Printable)
  PROVE  LET text == [i \in DOMAIN data |-> Legible(data[i])]
         IN  decompress(compress(data)) \in {text, Append(text, Char(Newline, FALSE))}
<1> DEFINE n == Len(data)
           text == [i \in DOMAIN data |-> Legible(data[i])]
           seqs == [i \in DOMAIN data |-> Codes(data[i])]
           c == Sextets(data)
           bytes == pack_bytes(c)
           groups == (8 * Len(bytes) + 5) \div 6
           w == [i \in 1 .. groups |-> Number(bytes, 6 * (i - 1))]
<1> SUFFICES decompress(compress(data)) \in {text, Append(text, Char(Newline, FALSE))}
  OBVIOUS
<1>1. n \in Nat /\ DOMAIN data = 1 .. n /\ \A k \in 1 .. n : data[k] \in Printable
  OBVIOUS
<1>2. seqs \in Seq(Seq(Sextet)) /\ Len(seqs) = n /\ \A k \in 1 .. n : seqs[k] = Codes(data[k])
  <2>1. \A k \in 1 .. n : Codes(data[k]) \in Seq(Sextet)
    BY <1>1, CodesAreRead
  <2> QED
    BY <1>1, <2>1
<1>3. c = FlattenSeq(seqs)
  BY DEF Sextets, Codes
<1> HIDE DEF seqs, c
<1>4. c \in Seq(Sextet) /\ Len(c) \in Nat
  BY <1>2, <1>3, FlattenLays
<1>5. PICK ends : Laid(ends, seqs, c)
  BY <1>2, <1>3, FlattenLays
<1>6. OutputIs(bytes, c, (6 * Len(c) + 7) \div 8)
  BY <1>4, BytesAre
<1> HIDE DEF bytes
<1>7. groups \in {Len(c), Len(c) + 1} /\ groups \in Nat
  <2>1. Len(bytes) = (6 * Len(c) + 7) \div 8
    BY <1>6 DEF OutputIs
  <2> QED
    BY <1>4, <2>1, Groups
<1>8. ASSUME NEW i \in 1 .. groups PROVE w[i] = SextetAt(c, i)
  BY <1>4, <1>6, NumbersAre
<1> HIDE DEF groups
<1>9. w \in Seq(Sextet) /\ Len(w) = groups
  <2>1. 0 \in Sextet
    BY DEF Sextet
  <2>2. \A i \in 1 .. groups : w[i] \in Sextet
    BY <1>4, <1>8, <2>1 DEF SextetAt
  <2>3. DOMAIN w = 1 .. groups /\ w = [i \in 1 .. groups |-> w[i]]
    OBVIOUS
  <2> HIDE DEF w
  <2> QED
    BY <1>7, <2>2, <2>3
<1>10. decompress(compress(data)) = FoldLeft(Unpack, NothingRead, w).out
  BY DEF decompress, compress, w, groups, bytes, c
<1> HIDE DEF w
<1>11. PICK h \in [0 .. groups -> ReadState] :
            /\ h[0] = NothingRead
            /\ \A k \in 1 .. groups : h[k] = Unpack(h[k - 1], w[k])
            /\ FoldLeft(Unpack, NothingRead, w) = h[groups]
  BY <1>9, ReadSoFar
<1>18. \A k \in 1 .. groups : h[k] = Unpack(h[k - 1], w[k])
  BY <1>11
<1>19. decompress(compress(data)) = h[groups].out
  BY <1>10, <1>11
<1> DEFINE read(k) == [out |-> [i \in 1 .. k |-> Legible(data[i])], capNext |-> FALSE]
           A == {k \in 0 .. n : h[ends[k]] = read(k)}
<1>12. 0 \in A
  <2>1. read(0) = NothingRead
    BY DEF NothingRead
  <2>2. ends[0] = 0
    BY <1>5 DEF Laid
  <2>3. 0 \in 0 .. n
    BY <1>1
  <2> HIDE DEF read
  <2> QED
    BY <1>11, <2>1, <2>2, <2>3
<1>13. ASSUME NEW k \in 1 .. n, k - 1 \in A PROVE k \in A
  <2> DEFINE x == data[k]  e == ends[k - 1]  so_far == [i \in 1 .. k - 1 |-> Legible(data[i])]
             before == [out |-> so_far, capNext |-> FALSE]
             after == [out |-> Append(so_far, Legible(x)), capNext |-> FALSE]
  <2>1. after = read(k)
    <3>1. Append(so_far, Legible(x)) = [i \in 1 .. k |-> Legible(data[i])]
      OBVIOUS
    <3> QED
      BY <3>1
  <2>2. h[e] = before
    BY <1>13
  <2>3. /\ e \in 0 .. Len(c) /\ ends[k] \in 0 .. Len(c) /\ ends[k] = e + Len(Codes(x))
        /\ \A j \in 1 .. Len(Codes(x)) : c[e + j] = Codes(x)[j]
    <3>1. k - 1 \in 0 .. n /\ k \in 0 .. n
      BY <1>1
    <3>2. seqs[k] = Codes(x)
      BY <1>2
    <3>3. /\ e \in 0 .. Len(c) /\ ends[k] \in 0 .. Len(c) /\ ends[k] = e + Len(seqs[k])
          /\ \A j \in 1 .. Len(seqs[k]) : c[e + j] = seqs[k][j]
      BY <1>2, <1>5, <3>1 DEF Laid
    <3> QED
      BY <3>2, <3>3
  <2>4. /\ \/ Len(Codes(x)) = 1 /\ Unpack(before, Codes(x)[1]) = after
           \/ Len(Codes(x)) = 2 /\ Unpack(Unpack(before, Codes(x)[1]), Codes(x)[2]) = after
    BY <1>1, CodesAreRead
  <2>5. ASSUME NEW j \in 1 .. Len(Codes(x)), Len(Codes(x)) \in {1, 2}
        PROVE  h[e + j] = Unpack(h[(e + j) - 1], Codes(x)[j])
    <3>1. e + j \in 1 .. Len(c) /\ e + j \in 1 .. groups
      BY <1>4, <1>7, <2>3, <2>5
    <3>2. w[e + j] = c[e + j]
      BY <1>8, <3>1 DEF SextetAt
    <3>3. h[e + j] = Unpack(h[(e + j) - 1], w[e + j])
      BY <1>18, <3>1, Zenon
    <3> QED
      BY <2>3, <3>2, <3>3
  <2> HIDE DEF before, after, e, x, read
  <2>6. h[ends[k]] = after
    <3>1. CASE Len(Codes(x)) = 1 /\ Unpack(before, Codes(x)[1]) = after
      <4>1. 1 \in 1 .. Len(Codes(x)) /\ (e + 1) - 1 = e
        BY <2>3, <3>1
      <4>2. h[e + 1] = Unpack(h[e], Codes(x)[1])
        BY <2>5, <3>1, <4>1
      <4> QED
        BY <2>2, <2>3, <3>1, <4>2
    <3>2. CASE Len(Codes(x)) = 2 /\ Unpack(Unpack(before, Codes(x)[1]), Codes(x)[2]) = after
      <4>1. /\ 1 \in 1 .. Len(Codes(x)) /\ (e + 1) - 1 = e
            /\ 2 \in 1 .. Len(Codes(x)) /\ (e + 2) - 1 = e + 1
        BY <2>3, <3>2
      <4>2. h[e + 1] = Unpack(h[e], Codes(x)[1])
        BY <2>5, <3>2, <4>1
      <4>3. h[e + 2] = Unpack(h[e + 1], Codes(x)[2])
        BY <2>5, <3>2, <4>1
      <4> QED
        BY <2>2, <2>3, <3>2, <4>2, <4>3
    <3> QED
      BY <2>4, <3>1, <3>2
  <2> QED
    BY <1>1, <2>1, <2>6
<1> HIDE DEF A
<1>14. 0 .. n \subseteq A
  BY <1>1, <1>12, <1>13, InductionUpTo
<1>15. h[Len(c)] = [out |-> text, capNext |-> FALSE]
  <2>1. n \in 0 .. n /\ ends[n] = Len(c)
    BY <1>1, <1>2, <1>5 DEF Laid
  <2>2. h[ends[n]] = read(n)
    BY <1>14, <2>1 DEF A
  <2> QED
    BY <1>1, <2>1, <2>2
<1>16. CASE groups = Len(c)
  <2> HIDE DEF text
  <2>1. decompress(compress(data)) = text
    BY <1>15, <1>16, <1>19
  <2> QED
    BY <2>1
<1>17. CASE groups = Len(c) + 1
  <2>1. groups \in 1 .. groups /\ groups - 1 = Len(c) /\ ~(groups \in 1 .. Len(c))
    BY <1>4, <1>17
  <2>2. w[groups] = 0
    BY <1>8, <2>1 DEF SextetAt
  <2>3. h[groups] = Unpack(h[Len(c)], 0)
    BY <1>11, <2>1, <2>2
  <2> HIDE DEF text
  <2>4. Unpack([out |-> text, capNext |-> FALSE], 0)
           = [out |-> Append(text, Char(0, FALSE /\ 0 \in Letters)), capNext |-> FALSE]
    BY DEF Unpack, EncodingSize
  <2>5. (FALSE /\ 0 \in Letters) = FALSE
    OBVIOUS
  <2>6. h[groups] = [out |-> Append(text, Char(Newline, FALSE)), capNext |-> FALSE]
    BY <1>15, <2>3, <2>4, <2>5, Zenon DEF Newline
  <2>7. decompress(compress(data)) = Append(text, Char(Newline, FALSE))
    <3> DEFINE longer == Append(text, Char(Newline, FALSE))
    <3>1. h[groups] = [out |-> longer, capNext |-> FALSE]
      BY <2>6
    <3> HIDE DEF longer
    <3>2. h[groups].out = longer
      BY <3>1
    <3>3. decompress(compress(data)) = longer
      BY <1>19, <3>2, Zenon
    <3> QED
      BY <3>3 DEF longer
  <2> QED
    BY <2>7
<1> QED
  BY <1>7, <1>16, <1>17
-----------------------------------------------------------------------------
(* A simulated motor, and one that is inverted and was asked the same.     *)
SimOf(inverted, x, v, a, type, m, gains, l, b) ==
  [inverted |-> inverted, position |-> x, velocity |-> v, current |-> a,
   message |-> [type |-> type, value |-> m], gains |-> gains, load |-> l, battery |-> b]

SimGains == [kP : Int, kI : Int, kD : Int, kFF : Int]

Twins(plain, inverted) ==
  \E x, v, a, m, l, b \in Int, type \in {"DC", "Velocity"}, gains \in SimGains :
    /\ plain = SimOf(FALSE, x, v, a, type, m, gains, l, b)
    /\ inverted = SimOf(TRUE, -x, -v, -a, type, -m, gains, -l, b)

LEMMA TwinsOf ==
  ASSUME NEW x \in Int, NEW v \in Int, NEW a \in Int, NEW m \in Int, NEW l \in Int,
         NEW b \in Int, NEW type \in {"DC", "Velocity"}, NEW gains \in SimGains,
         NEW p, p = SimOf(FALSE, x, v, a, type, m, gains, l, b),
         NEW i, i = SimOf(TRUE, -x, -v, -a, type, -m, gains, -l, b)
  PROVE  Twins(p, i)
BY DEF Twins

LEMMA AtMostIsOdd ==
  ASSUME NEW x \in Int, NEW n \in Nat
  PROVE  AtMost(x, n) \in Int /\ AtMost(-x, n) = -AtMost(x, n)
BY DEF AtMost

LEMMA TowardZeroIsOdd ==
  ASSUME NEW x \in Int, NEW d \in Nat \ {0}
  PROVE  /\ TowardZero(x, [num |-> 1, den |-> d]) \in Int
         /\ TowardZero(-x, [num |-> 1, den |-> d]) = -TowardZero(x, [num |-> 1, den |-> d])
<1>1. x * 1 = x /\ (-x) * 1 = -x /\ -(-x) = x
  OBVIOUS
<1>2. x \div d \in Int /\ (-x) \div d \in Int /\ 0 \div d = 0
  OBVIOUS
<1> QED
  BY <1>1, <1>2 DEF TowardZero

LEMMA ProductsAreOdd ==
  ASSUME NEW x \in Int, NEW k \in Int
  PROVE  k * x \in Int /\ x * k \in Int /\ k * (-x) = -(k * x) /\ (-x) * k = -(x * k)
OBVIOUS

(* The duty cycle asked of a motor, of the other its opposite.             *)
LEMMA DutyIsOdd ==
  ASSUME NEW p, NEW i, Twins(p, i)
  PROVE  Duty(p) \in Int /\ Duty(i) = -Duty(p)
<1>0. PICK x \in Int, v \in Int, a \in Int, m \in Int, l \in Int, b \in Int,
           type \in {"DC", "Velocity"}, gains \in SimGains :
        /\ p = SimOf(FALSE, x, v, a, type, m, gains, l, b)
        /\ i = SimOf(TRUE, -x, -v, -a, type, -m, gains, -l, b)
  BY DEF Twins
<1> DEFINE out == Output(gains, m, 0, 0, l)
<1>1. FullDuty \in Nat
  BY SimulatorAssumption
<1>2. /\ p.message.type = type /\ p.message.value = m /\ p.gains = gains /\ p.load = l
      /\ i.message.type = type /\ i.message.value = -m /\ i.gains = gains /\ i.load = -l
  BY <1>0 DEF SimOf
<1>3. out \in Int /\ Output(gains, -m, 0, 0, -l) = -out
  <2>1. gains.kP \in Int /\ gains.kI \in Int /\ gains.kD \in Int /\ gains.kFF \in Int
    BY DEF SimGains
  <2> DEFINE pm == gains.kP * m  fl == gains.kFF * l
  <2>2. /\ pm \in Int /\ fl \in Int /\ gains.kI * 0 = 0 /\ gains.kD * 0 = 0
        /\ gains.kP * (-m) = -pm /\ gains.kFF * (-l) = -fl
    BY <2>1, ProductsAreOdd
  <2>3. out = pm + fl /\ Output(gains, -m, 0, 0, -l) = -pm + -fl
    BY <2>2 DEF Output
  <2> HIDE DEF pm, fl, out
  <2> QED
    BY <2>2, <2>3
<1> HIDE DEF out
<1>4. CASE type = "DC"
  <2>1. Duty(p) = AtMost(m, FullDuty) /\ Duty(i) = AtMost(-m, FullDuty)
    BY <1>2, <1>4, Zenon DEF Duty
  <2> QED
    BY <1>1, <2>1, AtMostIsOdd
<1>5. CASE type = "Velocity"
  <2>1. Duty(p) = AtMost(out, FullDuty)
        /\ Duty(i) = AtMost(Output(gains, -m, 0, 0, -l), FullDuty)
    BY <1>2, <1>5, Zenon DEF Duty, out
  <2> QED
    BY <1>1, <1>3, <2>1, AtMostIsOdd
<1> QED
  BY <1>4, <1>5

(* A tick keeps them twins.                                                *)
LEMMA TickKeepsTwins ==
  ASSUME NEW p, NEW i, Twins(p, i), NEW dt \in Int
  PROVE  Twins(TickAfter(p, dt), TickAfter(i, dt))
<1>1. PICK x \in Int, v \in Int, a \in Int, m \in Int, l \in Int, b \in Int,
           type \in {"DC", "Velocity"}, gains \in SimGains :
        /\ p = SimOf(FALSE, x, v, a, type, m, gains, l, b)
        /\ i = SimOf(TRUE, -x, -v, -a, type, -m, gains, -l, b)
  BY DEF Twins
<1>2. /\ FullDuty \in Nat /\ SimConductance \in Int /\ TorquePerAmpere \in Int
      /\ Inertia \in Nat \ {0}
  BY SimulatorAssumption
<1>a. Duty(p) \in Int /\ Duty(i) = -Duty(p)
  BY DutyIsOdd
<1> DEFINE duty == Duty(p)
           draw == PredictDraw(duty, v, b, SimConductance)
           torque == draw * TorquePerAmpere - l
           grown == v + TowardZero(torque * dt, [num |-> 1, den |-> Inertia])
           new == AtMost(grown, FullDuty)
           moved == x + (v + new) * dt
<1>3. duty \in Int /\ Duty(i) = -duty
  BY <1>a
<1> HIDE DEF duty
<1>4. draw \in Int /\ PredictDraw(-duty, -v, b, SimConductance) = -draw
  <2> DEFINE db == duty * b  vb == v * b  n == db - vb
  <2>1. db \in Int /\ vb \in Int /\ (-duty) * b = -db /\ (-v) * b = -vb
    BY <1>3, ProductsAreOdd
  <2> HIDE DEF db, vb
  <2>2. n \in Int /\ -db - -vb = -n
    BY <2>1
  <2> HIDE DEF n
  <2>3. draw = n * SimConductance
        /\ PredictDraw(-duty, -v, b, SimConductance) = (-n) * SimConductance
    BY <2>1, <2>2 DEF PredictDraw, n, db, vb
  <2> HIDE DEF draw
  <2> QED
    BY <1>2, <2>2, <2>3, ProductsAreOdd
<1> HIDE DEF draw
<1>5. torque \in Int /\ (-draw) * TorquePerAmpere - (-l) = -torque
  <2> DEFINE dq == draw * TorquePerAmpere
  <2>1. dq \in Int /\ (-draw) * TorquePerAmpere = -dq
    BY <1>2, <1>4, ProductsAreOdd
  <2> HIDE DEF dq
  <2>2. dq - l \in Int /\ -dq - (-l) = -(dq - l)
    BY <2>1
  <2> QED
    BY <2>1, <2>2 DEF dq
<1> HIDE DEF torque
<1>6. /\ grown \in Int
      /\ -v + TowardZero((-torque) * dt, [num |-> 1, den |-> Inertia]) = -grown
  <2> DEFINE td == torque * dt  t == TowardZero(td, [num |-> 1, den |-> Inertia])
  <2>1. td \in Int /\ (-torque) * dt = -td
    BY <1>5, ProductsAreOdd
  <2> HIDE DEF td
  <2>2. t \in Int /\ TowardZero(-td, [num |-> 1, den |-> Inertia]) = -t
    BY <1>2, <2>1, TowardZeroIsOdd
  <2> HIDE DEF t
  <2>3. v + t \in Int /\ -v + -t = -(v + t)
    BY <2>2
  <2> QED
    BY <2>1, <2>2, <2>3 DEF t, td
<1> HIDE DEF grown
<1>7. new \in Int /\ AtMost(-grown, FullDuty) = -new
  BY <1>2, <1>6, AtMostIsOdd
<1> HIDE DEF new
<1>8. moved \in Int /\ -x + (-v + -new) * dt = -moved
  <2> DEFINE w == v + new
  <2>1. w \in Int /\ -v + -new = -w
    BY <1>7
  <2> HIDE DEF w
  <2> DEFINE wd == w * dt
  <2>2. wd \in Int /\ (-w) * dt = -wd
    BY <2>1, ProductsAreOdd
  <2> HIDE DEF wd
  <2>3. x + wd \in Int /\ -x + -wd = -(x + wd)
    BY <2>2
  <2> QED
    BY <2>1, <2>2, <2>3 DEF wd, w
<1> HIDE DEF moved
<1>9. TickAfter(p, dt) = SimOf(FALSE, moved, new, draw, type, m, gains, l, b)
  <2>1. /\ p.velocity = v /\ p.position = x /\ p.battery = b /\ p.load = l
    BY <1>1 DEF SimOf
  <2>2. PredictDraw(Duty(p), p.velocity, p.battery, SimConductance) = draw
        /\ Torque(p) = torque
    BY <2>1 DEF Torque, current_to_torque, draw, duty, torque
  <2>3. AtMost(predict_velocity(p.velocity, Torque(p), dt), FullDuty) = new
    BY <2>1, <2>2, Zenon DEF predict_velocity, grown, new
  <2>4. predict_position(p.velocity + new, p.position, dt) = moved
    BY <2>1 DEF predict_position, moved
  <2>5. TickAfter(p, dt) = [p EXCEPT !.current = draw, !.position = moved, !.velocity = new]
    BY <2>2, <2>3, <2>4 DEF TickAfter
  <2> QED
    BY <1>1, <2>5 DEF SimOf
<1>10. TickAfter(i, dt) = SimOf(TRUE, -moved, -new, -draw, type, -m, gains, -l, b)
  <2>1. /\ i.velocity = -v /\ i.position = -x /\ i.battery = b /\ i.load = -l
    BY <1>1 DEF SimOf
  <2>2. PredictDraw(Duty(i), i.velocity, i.battery, SimConductance) = -draw
        /\ Torque(i) = -torque
    BY <1>3, <1>4, <1>5, <2>1 DEF Torque, current_to_torque
  <2>3. AtMost(predict_velocity(i.velocity, Torque(i), dt), FullDuty) = -new
    BY <1>6, <1>7, <2>1, <2>2, Zenon DEF predict_velocity
  <2>4. predict_position(i.velocity + -new, i.position, dt) = -moved
    BY <1>8, <2>1 DEF predict_position
  <2>5. TickAfter(i, dt) = [i EXCEPT !.current = -draw, !.position = -moved, !.velocity = -new]
    BY <2>2, <2>3, <2>4 DEF TickAfter
  <2> QED
    BY <1>1, <2>5 DEF SimOf
<1> QED
  <2>1. draw \in Int /\ moved \in Int /\ new \in Int
    BY <1>4, <1>7, <1>8
  <2> QED
    BY <1>9, <1>10, <2>1, TwinsOf

(* Nobody who asks a simulated motor for duty cycles and velocities, zeroes *)
(* it and gives it loads sees whether it is inverted: the two start as      *)
(* twins, every request and every pass of MotorMonkey, however late, keeps  *)
(* them so, and twins read the same and know the same requests for ones     *)
(* they have (MCSimulator.cc).                                              *)
THEOREM InversionIsUnseen ==
  /\ \A gains \in SimGains :
       Twins(NewSimulator(gains), SetInverted(NewSimulator(gains), TRUE))
  /\ \A p, i : Twins(p, i) =>
       /\ \A type \in {"DC", "Velocity"}, value \in Int :
            Twins(Write(p, type, value), Write(i, type, value))
       /\ \A value \in Int : Twins(ZeroEncoder(p, value), ZeroEncoder(i, value))
       /\ \A voltage, load, dt \in Int :
            Twins(MonkeyTick(p, voltage, load, dt), MonkeyTick(i, voltage, load, dt))
       /\ Readings(p) = Readings(i)
       /\ \A type \in {"DC", "Velocity"}, value \in Int :
            IsDuplicateControlMessage(p, type, value)
              <=> IsDuplicateControlMessage(i, type, value)
<1>1. ASSUME NEW gains \in SimGains
      PROVE  Twins(NewSimulator(gains), SetInverted(NewSimulator(gains), TRUE))
  <2>1. NewSimulator(gains) = SimOf(FALSE, 0, 0, 0, "DC", 0, gains, 0, 0)
    BY DEF NewSimulator, SimOf
  <2>2. PICK z \in Int : z = 0 /\ -z = z
    OBVIOUS
  <2> DEFINE n == NewSimulator(gains)
  <2>3. n = SimOf(FALSE, z, z, z, "DC", z, gains, z, z)
    BY <2>1, <2>2
  <2> HIDE DEF n
  <2>4. SetInverted(n, TRUE) = [n EXCEPT !.inverted = TRUE, !.position = -z]
    BY <2>3 DEF SetInverted, SimOf
  <2>5. SetInverted(n, TRUE) = SimOf(TRUE, -z, z, z, "DC", z, gains, z, z)
    BY <2>3, <2>4 DEF SimOf
  <2>6. SetInverted(n, TRUE) = SimOf(TRUE, -z, -z, -z, "DC", -z, gains, -z, z)
    BY <2>2, <2>5
  <2>7. Twins(n, SetInverted(n, TRUE))
    BY <2>3, <2>6, TwinsOf
  <2> QED
    BY <2>7 DEF n
<1>2. ASSUME NEW p, NEW i, Twins(p, i)
      PROVE  /\ \A type \in {"DC", "Velocity"}, value \in Int :
                  Twins(Write(p, type, value), Write(i, type, value))
             /\ \A value \in Int : Twins(ZeroEncoder(p, value), ZeroEncoder(i, value))
             /\ \A voltage, load \in Int :
                  Twins(SetLoad(SetBatteryVoltage(p, voltage), load),
                        SetLoad(SetBatteryVoltage(i, voltage), load))
             /\ Readings(p) = Readings(i)
             /\ \A type \in {"DC", "Velocity"}, value \in Int :
                  IsDuplicateControlMessage(p, type, value)
                    <=> IsDuplicateControlMessage(i, type, value)
  <2>1. PICK x \in Int, v \in Int, a \in Int, m \in Int, l \in Int, b \in Int,
             type \in {"DC", "Velocity"}, gains \in SimGains :
          /\ p = SimOf(FALSE, x, v, a, type, m, gains, l, b)
          /\ i = SimOf(TRUE, -x, -v, -a, type, -m, gains, -l, b)
    BY <1>2 DEF Twins
  <2>t. /\ \A w : Turn(p, w) = w
        /\ \A w : Turn(i, w) = -w
    BY <2>1 DEF Turn, SimOf
  <2>2. ASSUME NEW asked \in {"DC", "Velocity"}, NEW value \in Int
        PROVE  Twins(Write(p, asked, value), Write(i, asked, value))
    <3>1. /\ Write(p, asked, value) = SimOf(FALSE, x, v, a, asked, value, gains, l, b)
          /\ Write(i, asked, value) = SimOf(TRUE, -x, -v, -a, asked, -value, gains, -l, b)
      <4>1. /\ Write(p, asked, value)
                 = [p EXCEPT !.message = [type |-> asked, value |-> value]]
            /\ Write(i, asked, value)
                 = [i EXCEPT !.message = [type |-> asked, value |-> -value]]
        BY <2>t DEF Write, Requested
      <4> QED
        BY <2>1, <4>1 DEF SimOf
    <3> QED
      BY <3>1, TwinsOf
  <2>3. ASSUME NEW value \in Int PROVE Twins(ZeroEncoder(p, value), ZeroEncoder(i, value))
    <3>1. /\ ZeroEncoder(p, value) = SimOf(FALSE, value, v, a, type, m, gains, l, b)
          /\ ZeroEncoder(i, value) = SimOf(TRUE, -value, -v, -a, type, -m, gains, -l, b)
      <4>1. /\ ZeroEncoder(p, value) = [p EXCEPT !.position = value]
            /\ ZeroEncoder(i, value) = [i EXCEPT !.position = -value]
        BY <2>t DEF ZeroEncoder
      <4> QED
        BY <2>1, <4>1 DEF SimOf
    <3> QED
      BY <3>1, TwinsOf
  <2>4. ASSUME NEW voltage \in Int, NEW load \in Int
        PROVE  Twins(SetLoad(SetBatteryVoltage(p, voltage), load),
                     SetLoad(SetBatteryVoltage(i, voltage), load))
    <3>1. /\ SetLoad(SetBatteryVoltage(p, voltage), load)
               = SimOf(FALSE, x, v, a, type, m, gains, load, voltage)
          /\ SetLoad(SetBatteryVoltage(i, voltage), load)
               = SimOf(TRUE, -x, -v, -a, type, -m, gains, -load, voltage)
      <4> DEFINE q == SetBatteryVoltage(p, voltage)  j == SetBatteryVoltage(i, voltage)
      <4>1. /\ q = SimOf(FALSE, x, v, a, type, m, gains, l, voltage)
            /\ j = SimOf(TRUE, -x, -v, -a, type, -m, gains, -l, voltage)
        <5>1. q = [p EXCEPT !.battery = voltage] /\ j = [i EXCEPT !.battery = voltage]
          BY DEF SetBatteryVoltage
        <5> HIDE DEF q, j
        <5>2. q = SimOf(FALSE, x, v, a, type, m, gains, l, voltage)
          BY <2>1, <5>1 DEF SimOf
        <5>3. j = SimOf(TRUE, -x, -v, -a, type, -m, gains, -l, voltage)
          BY <2>1, <5>1 DEF SimOf
        <5> QED
          BY <5>2, <5>3
      <4> HIDE DEF q, j
      <4>2. Turn(q, load) = load /\ Turn(j, load) = -load
        BY <4>1 DEF Turn, SimOf
      <4>3. /\ SetLoad(q, load) = [q EXCEPT !.load = load]
            /\ SetLoad(j, load) = [j EXCEPT !.load = -load]
        BY <4>2 DEF SetLoad
      <4>4. /\ SetLoad(q, load) = SimOf(FALSE, x, v, a, type, m, gains, load, voltage)
            /\ SetLoad(j, load) = SimOf(TRUE, -x, -v, -a, type, -m, gains, -load, voltage)
        BY <4>1, <4>3 DEF SimOf
      <4> QED
        BY <4>4 DEF q, j
    <3> QED
      BY <3>1, TwinsOf
  <2>5. Readings(p) = Readings(i)
    <3>1. -(-x) = x /\ -(-v) = v /\ Magnitude(-a) = Magnitude(a)
      BY DEF Magnitude
    <3>2. /\ Readings(p) = [position |-> x, velocity |-> v, current |-> Magnitude(a)]
          /\ Readings(i) = [position |-> -(-x), velocity |-> -(-v),
                            current |-> Magnitude(-a)]
      BY <2>1 DEF Readings, Turn, SimOf
    <3> QED
      BY <3>1, <3>2
  <2>6. ASSUME NEW asked \in {"DC", "Velocity"}, NEW value \in Int
        PROVE  IsDuplicateControlMessage(p, asked, value)
                 <=> IsDuplicateControlMessage(i, asked, value)
    <3>1. IsDuplicateControlMessage(p, asked, value) <=> type = asked /\ m = value
      BY <2>1 DEF IsDuplicateControlMessage, Requested, Turn, SimOf
    <3>2. IsDuplicateControlMessage(i, asked, value) <=> type = asked /\ -m = -value
      BY <2>1 DEF IsDuplicateControlMessage, Requested, Turn, SimOf
    <3> QED
      BY <3>1, <3>2
  <2> QED
    BY <2>2, <2>3, <2>4, <2>5, <2>6
<1>3. ASSUME NEW p, NEW i, Twins(p, i), NEW voltage \in Int, NEW load \in Int, NEW dt \in Int
      PROVE  Twins(MonkeyTick(p, voltage, load, dt), MonkeyTick(i, voltage, load, dt))
  <2>1. Twins(TickAfter(p, dt), TickAfter(i, dt))
    BY <1>3, TickKeepsTwins
  <2>2. Twins(SetLoad(SetBatteryVoltage(TickAfter(p, dt), voltage), load),
              SetLoad(SetBatteryVoltage(TickAfter(i, dt), voltage), load))
    BY <1>2, <2>1
  <2> QED
    BY <2>2, TickKeepsTwins DEF MonkeyTick
<1> QED
  BY <1>1, <1>2, <1>3

(* The simulators there are, and what is asked of one that is not driven   *)
(* by position.                                                            *)
Simulators ==
  [inverted : BOOLEAN, position : Int, velocity : Int, current : Int,
   message : [type : {"DC", "Velocity"}, value : Int], gains : SimGains,
   load : Int, battery : Int]

Asks ==
  [do : {"DC", "Velocity", "zero"}, value : Int] \cup [do : {"pass"}, load : Int, dt : Int]

(* Each has a twin, which is one of them.                                  *)
LEMMA TwinsExist ==
  ASSUME NEW s
  PROVE  s \in Simulators <=> \E t : Twins(s, t) \/ Twins(t, s)
<1>1. ASSUME s \in Simulators PROVE \E t : Twins(s, t) \/ Twins(t, s)
  <2>1. PICK inverted \in BOOLEAN, x \in Int, v \in Int, a \in Int, type \in {"DC", "Velocity"},
             m \in Int, gains \in SimGains, l \in Int, b \in Int :
          s = SimOf(inverted, x, v, a, type, m, gains, l, b)
    <3>1. /\ s = SimOf(s.inverted, s.position, s.velocity, s.current, s.message.type,
                      s.message.value, s.gains, s.load, s.battery)
          /\ s.inverted \in BOOLEAN /\ s.position \in Int /\ s.velocity \in Int
          /\ s.current \in Int /\ s.message.type \in {"DC", "Velocity"}
          /\ s.message.value \in Int /\ s.gains \in SimGains /\ s.load \in Int
          /\ s.battery \in Int
      BY <1>1 DEF Simulators, SimOf
    <3> QED
      BY <3>1
  <2>2. CASE inverted = FALSE
    <3>1. Twins(s, SimOf(TRUE, -x, -v, -a, type, -m, gains, -l, b))
      BY <2>1, <2>2, TwinsOf
    <3> QED
      BY <3>1
  <2>3. CASE inverted = TRUE
    <3>1. /\ -x \in Int /\ -v \in Int /\ -a \in Int /\ -m \in Int /\ -l \in Int
          /\ -(-x) = x /\ -(-v) = v /\ -(-a) = a /\ -(-m) = m /\ -(-l) = l
      OBVIOUS
    <3>2. s = SimOf(TRUE, -(-x), -(-v), -(-a), type, -(-m), gains, -(-l), b)
      BY <2>1, <2>3, <3>1
    <3>3. Twins(SimOf(FALSE, -x, -v, -a, type, -m, gains, -l, b), s)
      BY <3>1, <3>2, TwinsOf
    <3> QED
      BY <3>3
  <2> QED
    BY <2>1, <2>2, <2>3
<1>2. ASSUME NEW p, NEW i, Twins(p, i) PROVE p \in Simulators /\ i \in Simulators
  <2>1. PICK x \in Int, v \in Int, a \in Int, m \in Int, l \in Int, b \in Int,
             type \in {"DC", "Velocity"}, gains \in SimGains :
          /\ p = SimOf(FALSE, x, v, a, type, m, gains, l, b)
          /\ i = SimOf(TRUE, -x, -v, -a, type, -m, gains, -l, b)
    BY <1>2 DEF Twins
  <2>2. -x \in Int /\ -v \in Int /\ -a \in Int /\ -m \in Int /\ -l \in Int
    OBVIOUS
  <2>3. p \in Simulators
    BY <2>1 DEF Simulators, SimOf
  <2>4. \A y, w, c, n, k \in Int : SimOf(TRUE, y, w, c, type, n, gains, k, b) \in Simulators
    BY <2>1 DEF Simulators, SimOf
  <2> QED
    BY <2>1, <2>2, <2>3, <2>4
<1> QED
  BY <1>1, <1>2

(* Twins that are asked the same are twins.                                *)
LEMMA ServedTwins ==
  ASSUME NEW p, NEW i, Twins(p, i), NEW r \in Asks
  PROVE  Twins(Served(p, r), Served(i, r))
<1>1. CASE r \in [do : {"pass"}, load : Int, dt : Int]
  <2>1. r.do = "pass" /\ r.load \in Int /\ r.dt \in Int /\ 12 \in Int
    BY <1>1
  <2>2. Served(p, r) = MonkeyTick(p, 12, r.load, r.dt)
    BY <2>1 DEF Served
  <2>3. Served(i, r) = MonkeyTick(i, 12, r.load, r.dt)
    BY <2>1 DEF Served
  <2>4. \A voltage, load, dt \in Int :
          Twins(MonkeyTick(p, voltage, load, dt), MonkeyTick(i, voltage, load, dt))
    BY InversionIsUnseen
  <2> QED
    BY <2>1, <2>2, <2>3, <2>4
<1>2. CASE r \in [do : {"DC", "Velocity", "zero"}, value : Int]
  <2>1. r.do \in {"DC", "Velocity", "zero"} /\ r.value \in Int
    BY <1>2
  <2>2. CASE r.do = "zero"
    <3>1. Served(p, r) = ZeroEncoder(p, r.value) /\ Served(i, r) = ZeroEncoder(i, r.value)
      BY <2>2 DEF Served
    <3> QED
      BY <2>1, <3>1, InversionIsUnseen
  <2>3. CASE r.do \in {"DC", "Velocity"}
    <3>1. Served(p, r) = Write(p, r.do, r.value) /\ Served(i, r) = Write(i, r.do, r.value)
      BY <2>3 DEF Served
    <3> QED
      BY <2>1, <2>3, <3>1, InversionIsUnseen
  <2> QED
    BY <2>1, <2>2, <2>3
<1> QED
  BY <1>1, <1>2 DEF Asks

LEMMA ServedType ==
  ASSUME NEW s \in Simulators, NEW r \in Asks
  PROVE  Served(s, r) \in Simulators
<1>1. PICK t : Twins(s, t) \/ Twins(t, s)
  BY TwinsExist
<1>2. Twins(Served(s, r), Served(t, r)) \/ Twins(Served(t, r), Served(s, r))
  BY <1>1, ServedTwins
<1> QED
  BY <1>2, TwinsExist

(* A simulator after each of the requests.                                 *)
LEMMA ServedSoFar ==
  ASSUME NEW seq \in Seq(Asks), NEW base \in Simulators
  PROVE  \E g \in [0 .. Len(seq) -> Simulators] :
            /\ g[0] = base
            /\ \A k \in 1 .. Len(seq) : g[k] = Served(g[k - 1], seq[k])
            /\ FoldLeft(Served, base, seq) = g[Len(seq)]
<1> DEFINE n == Len(seq)
           step == [s \in (1 .. n) \X Simulators |-> Served(s[2], seq[s[1]])]
<1>1. n \in Nat /\ DOMAIN seq = 1 .. n /\ \A k \in 1 .. n : seq[k] \in Asks
  OBVIOUS
<1>2. step \in [(1 .. n) \X Simulators -> Simulators]
  BY <1>1, ServedType
<1>3. \A k \in 1 .. n, x \in Simulators : step[<<k, x>>] = Served(x, seq[k])
  OBVIOUS
<1> HIDE DEF n, step
<1>4. base \in Simulators
  OBVIOUS
<1>5. PICK f : ListFolding(f, n, Simulators, base, step)
  BY <1>1, <1>2, <1>4, ListRecursionExists
<1>6. f = [t \in SUBSET DOMAIN seq |->
             IF t = {} THEN base ELSE Served(f[t \ {Max(t)}], seq[Max(t)])]
  <2>1. ASSUME NEW t \in SUBSET (1 .. n), t # {}
        PROVE  step[<<Max(t), f[t \ {Max(t)}]>>] = Served(f[t \ {Max(t)}], seq[Max(t)])
    <3>1. Max(t) \in 1 .. n /\ f[t \ {Max(t)}] \in Simulators
      BY <1>1, <1>5, <2>1, MaxIsIn DEF ListFolding
    <3> QED
      BY <1>3, <3>1
  <2>2. \A t \in SUBSET (1 .. n) :
           f[t] = IF t = {} THEN base ELSE Served(f[t \ {Max(t)}], seq[Max(t)])
    BY <1>5, <2>1 DEF ListFolding
  <2>3. f \in [SUBSET (1 .. n) -> Simulators]
    BY <1>5 DEF ListFolding
  <2> QED
    BY <1>1, <2>2, <2>3
<1>7. PICK h : /\ h = [t \in SUBSET DOMAIN seq |->
                         IF t = {} THEN base ELSE Served(h[t \ {Max(t)}], seq[Max(t)])]
               /\ FoldLeft(Served, base, seq) = h[DOMAIN seq]
  BY <1>6 DEF FoldLeft, MapThenFoldSet
<1>8. h[{}] = base
  <2>1. {} \in SUBSET DOMAIN seq
    OBVIOUS
  <2> QED
    BY <1>7, <2>1
<1>9. ASSUME NEW k \in 1 .. n, h[1 .. (k - 1)] \in Simulators
      PROVE  h[1 .. k] = step[<<k, h[1 .. (k - 1)]>>]
  <2>1. /\ 1 .. k \in SUBSET DOMAIN seq /\ 1 .. k # {}
        /\ Max(1 .. k) = k /\ (1 .. k) \ {k} = 1 .. (k - 1)
    BY <1>1, Beginnings
  <2>2. h[1 .. k] = Served(h[1 .. (k - 1)], seq[k])
    BY <1>7, <2>1
  <2> QED
    BY <1>3, <1>9, <2>2
<1>10. PICK g : Results(g, n, Simulators, base, step) /\ h[1 .. n] = g[n]
  <2>1. Follows(h, n, Simulators, base, step)
    BY <1>8, <1>9 DEF Follows
  <2>2. n \in Nat
    BY <1>1
  <2>3. LastResult(h[1 .. n], n, Simulators, base, step)
    BY <1>2, <1>4, <2>1, <2>2, ResultsAlong
  <2> QED
    BY <2>3 DEF LastResult
<1>11. ASSUME NEW k \in 1 .. n PROVE g[k] = Served(g[k - 1], seq[k])
  <2>1. k - 1 \in 0 .. n
    BY <1>1
  <2>2. g[k - 1] \in Simulators /\ g[k] = step[<<k, g[k - 1]>>]
    BY <1>10, <2>1 DEF Results
  <2> QED
    BY <1>3, <2>2
<1>12. g \in [0 .. n -> Simulators] /\ g[0] = base /\ FoldLeft(Served, base, seq) = g[n]
  BY <1>1, <1>7, <1>10 DEF Results
<1> QED
  BY <1>11, <1>12 DEF n

(* And so for any number of requests, of any values and any passes, late   *)
(* ones too: the simulated motor and the inverted one read the same at the *)
(* end, and know the same requests for ones they have.                     *)
THEOREM InversionStaysUnseen ==
  ASSUME NEW gains \in SimGains, NEW requests \in Seq(Asks)
  PROVE  LET plain    == FoldLeft(Served, NewSimulator(gains), requests)
             inverted == FoldLeft(Served, SetInverted(NewSimulator(gains), TRUE), requests)
         IN  /\ Readings(plain) = Readings(inverted)
             /\ \A type \in {"DC", "Velocity"}, value \in Int :
                  IsDuplicateControlMessage(plain, type, value)
                    <=> IsDuplicateControlMessage(inverted, type, value)
<1>0. PICK n, new, turned : /\ n = Len(requests) /\ new = NewSimulator(gains)
                            /\ turned = SetInverted(NewSimulator(gains), TRUE)
  OBVIOUS
<1>1. Twins(new, turned) /\ new \in Simulators /\ turned \in Simulators
  <2>1. Twins(new, turned)
    BY <1>0, InversionIsUnseen
  <2> QED
    BY <2>1, TwinsExist
<1>2. PICK g : /\ g[0] = new /\ \A k \in 1 .. n : g[k] = Served(g[k - 1], requests[k])
               /\ FoldLeft(Served, new, requests) = g[n]
  <2>1. \E f \in [0 .. Len(requests) -> Simulators] :
          /\ f[0] = new
          /\ \A k \in 1 .. Len(requests) : f[k] = Served(f[k - 1], requests[k])
          /\ FoldLeft(Served, new, requests) = f[Len(requests)]
    BY <1>1, ServedSoFar
  <2> QED
    BY <1>0, <2>1
<1>3. PICK h : /\ h[0] = turned /\ \A k \in 1 .. n : h[k] = Served(h[k - 1], requests[k])
               /\ FoldLeft(Served, turned, requests) = h[n]
  <2>1. \E f \in [0 .. Len(requests) -> Simulators] :
          /\ f[0] = turned
          /\ \A k \in 1 .. Len(requests) : f[k] = Served(f[k - 1], requests[k])
          /\ FoldLeft(Served, turned, requests) = f[Len(requests)]
    BY <1>1, ServedSoFar
  <2> QED
    BY <1>0, <2>1
<1> DEFINE A == {k \in 0 .. n : Twins(g[k], h[k])}
<1>4. n \in Nat /\ \A k \in 1 .. n : requests[k] \in Asks
  BY <1>0
<1>5. 0 \in A
  BY <1>1, <1>2, <1>3, <1>4
<1>6. ASSUME NEW k \in 1 .. n, k - 1 \in A PROVE k \in A
  <2>1. Twins(g[k - 1], h[k - 1]) /\ requests[k] \in Asks /\ k \in 0 .. n
    BY <1>4, <1>6
  <2>2. Twins(Served(g[k - 1], requests[k]), Served(h[k - 1], requests[k]))
    BY <2>1, ServedTwins
  <2> QED
    BY <1>2, <1>3, <2>1, <2>2
<1>7. \A k \in 1 .. n : k - 1 \in A => k \in A
  BY <1>6
<1> HIDE DEF A
<1>8. 0 .. n \subseteq A
  BY <1>4, <1>5, <1>7, InductionUpTo
<1>9. n \in A
  BY <1>4, <1>8
<1>10. PICK plain, inverted : /\ plain = FoldLeft(Served, new, requests)
                              /\ inverted = FoldLeft(Served, turned, requests)
  OBVIOUS
<1>11. Twins(plain, inverted)
  BY <1>2, <1>3, <1>9, <1>10 DEF A
<1>12. /\ Readings(plain) = Readings(inverted)
       /\ \A type \in {"DC", "Velocity"}, value \in Int :
            IsDuplicateControlMessage(plain, type, value)
              <=> IsDuplicateControlMessage(inverted, type, value)
  BY <1>11, InversionIsUnseen
<1> QED
  BY <1>0, <1>10, <1>12
-----------------------------------------------------------------------------
(* Of a set of natural numbers Min is the least.                           *)
LEMMA MinIsIn ==
  ASSUME NEW t \in SUBSET Nat, t # {}
  PROVE  Min(t) \in t /\ \A j \in t : Min(t) <= j
<1> DEFINE R == OpToRel(<, Nat)
<1>1. PICK k \in t : \A m \in t : ~(<<m, k>> \in R)
  <2>1. IsWellFoundedOn(R, Nat)
    BY NatLessThanWellFounded
  <2> HIDE DEF R
  <2> QED
    BY <2>1, WFMin, Zenon
<1>2. \A j \in t : k <= j
  <2>1. ASSUME NEW j \in t, ~ k <= j PROVE FALSE
    <3>1. j < k /\ j \in Nat /\ k \in Nat
      BY <2>1
    <3>2. <<j, k>> \in R
      BY <3>1 DEF OpToRel
    <3> QED
      BY <1>1, <3>2
  <2> QED
    BY <2>1
<1>3. \E x \in t : \A y \in t : x <= y
  BY <1>2
<1> QED
  BY <1>3, Zenon DEF Min

(* What can be the value of a point, with tokens of T: whatever is written *)
(* for its coordinates, and the origin.                                    *)
Values(T) ==
  {Origin} \cup {At(l[3], l[4], l[5], l[6]) : l \in Seq(T)}
           \cup {At(l[3], l[4], l[5], Zero) : l \in Seq(T)}
           \cup {At(l[2], l[3], l[4], l[5]) : l \in Seq(T)}
           \cup {At(l[2], l[3], l[4], Zero) : l \in Seq(T)}

NamedPoint(T) == [name : T, value : Values(T)]
Named(T) == Seq(NamedPoint(T))

Knows(points, name) == \E i \in DOMAIN points : points[i].name = name

(* The first point with a name is found, and no later one changes it.      *)
LEMMA FirstIsFound ==
  ASSUME NEW V, NEW points \in Seq(V), NEW name, NEW default
  PROVE  /\ ~ Knows(points, name) => Find(points, name, default) = default
         /\ Knows(points, name) =>
              \E i \in DOMAIN points :
                /\ points[i].name = name /\ Find(points, name, default) = points[i].value
                /\ \A j \in DOMAIN points : points[j].name = name => i <= j
<1> DEFINE found == {i \in 1 .. Len(points) : points[i].name = name}
           first == IF found # {} THEN Min(found) ELSE 0
<1>1. SelectInSeq(points, LAMBDA e : e.name = name) = first
  BY DEF SelectInSeq
<1>2. Find(points, name, default) = IF first = 0 THEN default ELSE points[first].value
  BY <1>1 DEF Find
<1>3. DOMAIN points = 1 .. Len(points) /\ Len(points) \in Nat
  OBVIOUS
<1>4. CASE found = {}
  BY <1>2, <1>3, <1>4 DEF Knows
<1>5. CASE found # {}
  <2>1. found \subseteq Nat
    BY <1>3
  <2>2. Min(found) \in found /\ \A j \in found : Min(found) <= j
    BY <1>5, <2>1, MinIsIn
  <2>3. first = Min(found) /\ first # 0
    BY <1>5, <2>2
  <2>4. /\ first \in DOMAIN points /\ points[first].name = name
        /\ Find(points, name, default) = points[first].value
        /\ \A j \in DOMAIN points : points[j].name = name => first <= j
    BY <1>2, <1>3, <2>2, <2>3
  <2> HIDE DEF first
  <2> QED
    BY <2>4 DEF Knows
<1> QED
  BY <1>4, <1>5

LEMMA FindAppended ==
  ASSUME NEW V, NEW points \in Seq(V), NEW e \in V, NEW name, NEW default
  PROVE  /\ Knows(Append(points, e), name) <=> Knows(points, name) \/ e.name = name
         /\ Find(Append(points, e), name, default)
              = IF Knows(points, name) THEN Find(points, name, default)
                ELSE IF e.name = name THEN e.value ELSE default
<1> DEFINE n == Len(points)  more == Append(points, e)
<1>1. /\ n \in Nat /\ DOMAIN points = 1 .. n /\ more \in Seq(V) /\ DOMAIN more = 1 .. n + 1
      /\ more[n + 1] = e /\ \A i \in 1 .. n : more[i] = points[i]
  OBVIOUS
<1> HIDE DEF n, more
<1>2. Knows(more, name) <=> Knows(points, name) \/ e.name = name
  <2>1. ASSUME Knows(more, name) PROVE Knows(points, name) \/ e.name = name
    <3>1. PICK i \in 1 .. n + 1 : more[i].name = name
      BY <1>1, <2>1 DEF Knows
    <3>2. i \in 1 .. n \/ i = n + 1
      BY <1>1
    <3> QED
      BY <1>1, <3>1, <3>2 DEF Knows
  <2>2. ASSUME Knows(points, name) PROVE Knows(more, name)
    <3>1. PICK i \in 1 .. n : points[i].name = name
      BY <1>1, <2>2 DEF Knows
    <3>2. i \in 1 .. n + 1
      BY <1>1
    <3> QED
      BY <1>1, <3>1, <3>2 DEF Knows
  <2>3. n + 1 \in 1 .. n + 1
    BY <1>1
  <2> QED
    BY <1>1, <2>1, <2>2, <2>3 DEF Knows
<1>3. CASE Knows(points, name)
  <2>1. PICK i \in 1 .. n :
          /\ points[i].name = name /\ Find(points, name, default) = points[i].value
          /\ \A j \in 1 .. n : points[j].name = name => i <= j
    BY <1>1, <1>3, FirstIsFound
  <2>2. PICK k \in 1 .. n + 1 :
          /\ more[k].name = name /\ Find(more, name, default) = more[k].value
          /\ \A j \in 1 .. n + 1 : more[j].name = name => k <= j
    BY <1>1, <1>2, <1>3, FirstIsFound
  <2>3. i \in 1 .. n + 1 /\ more[i].name = name
    BY <1>1, <2>1
  <2>4. k <= i /\ k \in 1 .. n
    BY <1>1, <2>2, <2>3
  <2>5. i <= k
    BY <1>1, <2>1, <2>2, <2>4
  <2>6. i = k
    BY <1>1, <2>4, <2>5
  <2> QED
    BY <1>1, <1>2, <1>3, <2>1, <2>2, <2>6 DEF more
<1>4. CASE ~ Knows(points, name) /\ e.name = name
  <2>1. PICK k \in 1 .. n + 1 : more[k].name = name /\ Find(more, name, default) = more[k].value
    BY <1>1, <1>2, <1>4, FirstIsFound
  <2>2. k = n + 1
    <3>1. k \notin 1 .. n
      BY <1>1, <1>4, <2>1 DEF Knows
    <3> QED
      BY <1>1, <3>1
  <2> QED
    BY <1>1, <1>2, <1>4, <2>1, <2>2 DEF more
<1>5. CASE ~ Knows(points, name) /\ e.name # name
  BY <1>1, <1>2, <1>5, FirstIsFound DEF more
<1> QED
  BY <1>2, <1>3, <1>4, <1>5 DEF more

LEMMA AddPointType ==
  ASSUME NEW T, NEW points \in Named(T), NEW line \in Seq(T)
  PROVE  /\ parsePoint(line, points) \in Values(T)
         /\ AddPoint(points, line) \in Named(T)
<1>1. ASSUME NEW name PROVE getPoint(points, name) \in Values(T)
  <2>1. points \in Seq(NamedPoint(T))
    BY DEF Named
  <2>2. Origin \in Values(T)
    BY DEF Values
  <2>3. \A i \in DOMAIN points : points[i].value \in Values(T)
    <3>1. \A i \in DOMAIN points : points[i] \in NamedPoint(T)
      BY <2>1
    <3> QED
      BY <3>1 DEF NamedPoint
  <2> QED
    BY <2>1, <2>2, <2>3, FirstIsFound DEF getPoint
<1>2. parsePoint(line, points) \in Values(T)
  <2>1. Origin \in Values(T) /\ At(line[3], line[4], line[5], line[6]) \in Values(T)
        /\ At(line[3], line[4], line[5], Zero) \in Values(T)
        /\ At(line[2], line[3], line[4], line[5]) \in Values(T)
        /\ At(line[2], line[3], line[4], Zero) \in Values(T)
    BY DEF Values
  <2> QED
    BY <1>1, <2>1 DEF parsePoint
<1>3. CASE Len(line) >= 2
  <2>1. line[2] \in T
    BY <1>3
  <2>2. [name |-> line[2], value |-> parsePoint(line, points)] \in NamedPoint(T)
    BY <1>2, <2>1 DEF NamedPoint
  <2> QED
    BY <1>2, <1>3, <2>2 DEF AddPoint, Named
<1>4. CASE ~ Len(line) >= 2
  BY <1>2, <1>4 DEF AddPoint
<1> QED
  BY <1>3, <1>4

(* The points of the beginnings of a file.                                 *)
LEMMA PointsSoFar ==
  ASSUME NEW T, NEW seq \in Seq(Seq(T))
  PROVE  \E g \in [0 .. Len(seq) -> Named(T)] :
            /\ g[0] = <<>>
            /\ \A k \in 1 .. Len(seq) : g[k] = AddPoint(g[k - 1], seq[k])
            /\ FoldLeft(AddPoint, <<>>, seq) = g[Len(seq)]
<1> DEFINE n == Len(seq)
           step == [s \in (1 .. n) \X Named(T) |-> AddPoint(s[2], seq[s[1]])]
<1>1. n \in Nat /\ DOMAIN seq = 1 .. n /\ \A k \in 1 .. n : seq[k] \in Seq(T)
  OBVIOUS
<1>2. step \in [(1 .. n) \X Named(T) -> Named(T)]
  BY <1>1, AddPointType
<1>3. \A k \in 1 .. n, x \in Named(T) : step[<<k, x>>] = AddPoint(x, seq[k])
  OBVIOUS
<1> HIDE DEF n, step
<1>4. <<>> \in Named(T)
  BY DEF Named
<1>5. PICK f : ListFolding(f, n, Named(T), <<>>, step)
  BY <1>1, <1>2, <1>4, ListRecursionExists
<1>6. f = [t \in SUBSET DOMAIN seq |->
             IF t = {} THEN <<>> ELSE AddPoint(f[t \ {Max(t)}], seq[Max(t)])]
  <2>1. ASSUME NEW t \in SUBSET (1 .. n), t # {}
        PROVE  step[<<Max(t), f[t \ {Max(t)}]>>] = AddPoint(f[t \ {Max(t)}], seq[Max(t)])
    <3>1. Max(t) \in 1 .. n /\ f[t \ {Max(t)}] \in Named(T)
      BY <1>1, <1>5, <2>1, MaxIsIn DEF ListFolding
    <3> QED
      BY <1>3, <3>1
  <2>2. \A t \in SUBSET (1 .. n) :
           f[t] = IF t = {} THEN <<>> ELSE AddPoint(f[t \ {Max(t)}], seq[Max(t)])
    BY <1>5, <2>1 DEF ListFolding
  <2>3. f \in [SUBSET (1 .. n) -> Named(T)]
    BY <1>5 DEF ListFolding
  <2> QED
    BY <1>1, <2>2, <2>3
<1>7. PICK h : /\ h = [t \in SUBSET DOMAIN seq |->
                         IF t = {} THEN <<>> ELSE AddPoint(h[t \ {Max(t)}], seq[Max(t)])]
               /\ FoldLeft(AddPoint, <<>>, seq) = h[DOMAIN seq]
  BY <1>6 DEF FoldLeft, MapThenFoldSet
<1>8. h[{}] = <<>>
  <2>1. {} \in SUBSET DOMAIN seq
    OBVIOUS
  <2> QED
    BY <1>7, <2>1
<1>9. ASSUME NEW k \in 1 .. n, h[1 .. (k - 1)] \in Named(T)
      PROVE  h[1 .. k] = step[<<k, h[1 .. (k - 1)]>>]
  <2>1. /\ 1 .. k \in SUBSET DOMAIN seq /\ 1 .. k # {}
        /\ Max(1 .. k) = k /\ (1 .. k) \ {k} = 1 .. (k - 1)
    BY <1>1, Beginnings
  <2>2. h[1 .. k] = AddPoint(h[1 .. (k - 1)], seq[k])
    BY <1>7, <2>1
  <2> QED
    BY <1>3, <1>9, <2>2
<1>10. PICK g : Results(g, n, Named(T), <<>>, step) /\ h[1 .. n] = g[n]
  <2>1. Follows(h, n, Named(T), <<>>, step)
    BY <1>8, <1>9 DEF Follows
  <2>2. n \in Nat
    BY <1>1
  <2>3. LastResult(h[1 .. n], n, Named(T), <<>>, step)
    BY <1>2, <1>4, <2>1, <2>2, ResultsAlong
  <2> QED
    BY <2>3 DEF LastResult
<1>11. ASSUME NEW k \in 1 .. n PROVE g[k] = AddPoint(g[k - 1], seq[k])
  <2>1. k - 1 \in 0 .. n
    BY <1>1
  <2>2. g[k - 1] \in Named(T) /\ g[k] = step[<<k, g[k - 1]>>]
    BY <1>10, <2>1 DEF Results
  <2> QED
    BY <1>3, <2>2
<1>12. g \in [0 .. n -> Named(T)] /\ g[0] = <<>> /\ FoldLeft(AddPoint, <<>>, seq) = g[n]
  BY <1>1, <1>7, <1>10 DEF Results
<1> QED
  BY <1>11, <1>12 DEF n

(* The lines that name a point, of the first so many; the first of them is *)
(* the one that is meant.                                                  *)
Naming(lines, k, name) == {i \in 1 .. k : Len(lines[i]) >= 2 /\ lines[i][2] = name}

PointNamed(lines, k, name) ==
  IF Naming(lines, k, name) = {} THEN Origin
  ELSE parsePoint(lines[Min(Naming(lines, k, name))], <<>>)

(* What a line says does not depend on the points, unless it names one.    *)
LEMMA SaysTheSame ==
  ASSUME NEW points, NEW line, ~ Knows(points, line[2]), NEW T, points \in Named(T)
  PROVE  parsePoint(line, points) = parsePoint(line, <<>>)
<1>1. getPoint(points, line[2]) = Origin /\ getPoint(<<>>, line[2]) = Origin
  <2>1. points \in Seq(NamedPoint(T)) /\ <<>> \in Seq(NamedPoint(T))
    BY DEF Named
  <2>2. ~ Knows(<<>>, line[2])
    BY DEF Knows
  <2> QED
    BY <2>1, <2>2, FirstIsFound DEF getPoint
<1> QED
  BY <1>1 DEF parsePoint

LEMMA PointsAre ==
  ASSUME NEW T, NEW lines \in Seq(Seq(T)), NEW name
  PROVE  getPoint(FoldLeft(AddPoint, <<>>, lines), name) = PointNamed(lines, Len(lines), name)
<1> DEFINE n == Len(lines)
<1>1. n \in Nat /\ \A k \in 1 .. n : lines[k] \in Seq(T)
  OBVIOUS
<1>2. PICK g \in [0 .. n -> Named(T)] :
        /\ g[0] = <<>>
        /\ \A k \in 1 .. n : g[k] = AddPoint(g[k - 1], lines[k])
        /\ FoldLeft(AddPoint, <<>>, lines) = g[n]
  BY PointsSoFar
<1> DEFINE A == {k \in 0 .. n :
                   /\ getPoint(g[k], name) = PointNamed(lines, k, name)
                   /\ Knows(g[k], name) <=> Naming(lines, k, name) # {}}
<1>3. 0 \in A
  <2>1. ~ Knows(<<>>, name)
    BY DEF Knows
  <2>2. getPoint(<<>>, name) = Origin
    <3>1. <<>> \in Seq(NamedPoint(T))
      OBVIOUS
    <3> QED
      BY <2>1, <3>1, FirstIsFound DEF getPoint
  <2>3. Naming(lines, 0, name) = {}
    BY DEF Naming
  <2> QED
    BY <1>1, <1>2, <2>1, <2>2, <2>3 DEF PointNamed
<1>4. ASSUME NEW k \in 1 .. n, k - 1 \in A PROVE k \in A
  <2> DEFINE line == lines[k]  points == g[k - 1]  before == Naming(lines, k - 1, name)
             names == Len(line) >= 2 /\ line[2] = name
             value == parsePoint(line, points)
  <2>1. /\ k - 1 \in 0 .. n /\ k \in 0 .. n /\ points \in Named(T) /\ line \in Seq(T)
        /\ g[k] = AddPoint(points, line)
    <3>1. k - 1 \in 0 .. n /\ k \in 0 .. n
      BY <1>1
    <3>2. points \in Named(T)
      BY <1>2, <3>1
    <3>3. line \in Seq(T)
      BY <1>1
    <3> QED
      BY <1>2, <3>1, <3>2, <3>3
  <2>2. /\ getPoint(points, name) = PointNamed(lines, k - 1, name)
        /\ Knows(points, name) <=> before # {}
    BY <1>4
  <2>3. Naming(lines, k, name) = before \cup (IF names THEN {k} ELSE {})
    BY <1>1 DEF Naming
  <2>4. before \subseteq 1 .. (k - 1) /\ before \subseteq Nat /\ \A j \in before : j < k
    BY <1>1 DEF Naming
  <2>5. CASE ~ Len(line) >= 2
    <3>1. g[k] = points
      BY <2>1, <2>5 DEF AddPoint
    <3>2. Naming(lines, k, name) = before
      BY <2>3, <2>5
    <3> HIDE DEF before
    <3> QED
      BY <2>1, <2>2, <3>1, <3>2 DEF PointNamed, before
  <2>6. CASE Len(line) >= 2
    <3> DEFINE e == [name |-> line[2], value |-> value]
    <3>1. g[k] = Append(points, e)
      BY <2>1, <2>6 DEF AddPoint
    <3>2. e \in NamedPoint(T) /\ points \in Seq(NamedPoint(T))
      <4> HIDE DEF line, points
      <4>1. value \in Values(T)
        BY <2>1, AddPointType
      <4>2. line[2] \in T
        BY <2>1, <2>6
      <4>3. points \in Seq(NamedPoint(T))
        BY <2>1 DEF Named
      <4> HIDE DEF value
      <4> QED
        BY <4>1, <4>2, <4>3 DEF NamedPoint
    <3>3. /\ Knows(g[k], name) <=> Knows(points, name) \/ e.name = name
          /\ Find(g[k], name, Origin)
               = IF Knows(points, name) THEN Find(points, name, Origin)
                 ELSE IF e.name = name THEN e.value ELSE Origin
      <4> HIDE DEF e, points
      <4> QED
        BY <3>1, <3>2, FindAppended
    <3>4. e.name = line[2] /\ e.value = value
      OBVIOUS
    <3> HIDE DEF e
    <3>5. CASE line[2] # name
      <4>1. Naming(lines, k, name) = before
        BY <2>3, <3>5
      <4>2. /\ Knows(g[k], name) <=> Knows(points, name)
            /\ getPoint(g[k], name) = IF Knows(points, name) THEN getPoint(points, name)
                                      ELSE Origin
        BY <3>3, <3>4, <3>5 DEF getPoint
      <4> HIDE DEF before, points
      <4> QED
        BY <2>1, <2>2, <4>1, <4>2 DEF PointNamed, before
    <3>6. CASE line[2] = name /\ before = {}
      <4>1. Naming(lines, k, name) = {k}
        BY <2>3, <2>6, <3>6
      <4>2. Min({k}) = k
        <5>1. k \in Nat /\ {k} \subseteq Nat /\ {k} # {}
          BY <1>1
        <5>2. Min({k}) \in {k}
          BY <5>1, MinIsIn
        <5> QED
          BY <5>2
      <4>3. value = parsePoint(line, <<>>)
        BY <2>1, <2>2, <3>6, SaysTheSame
      <4>4. Knows(g[k], name) /\ getPoint(g[k], name) = value
        BY <2>2, <3>3, <3>4, <3>6 DEF getPoint
      <4> QED
        BY <2>1, <4>1, <4>2, <4>3, <4>4 DEF PointNamed
    <3>7. CASE line[2] = name /\ before # {}
      <4>1. Naming(lines, k, name) = before \cup {k}
        BY <2>3, <2>6, <3>7
      <4>2. Min(before \cup {k}) = Min(before)
        <5>1. k \in Nat /\ before \cup {k} \subseteq Nat /\ before \cup {k} # {}
          BY <1>1, <2>4
        <5>2. Min(before) \in before /\ \A j \in before : Min(before) <= j
          BY <2>4, <3>7, MinIsIn
        <5>3. /\ Min(before \cup {k}) \in before \cup {k}
              /\ \A j \in before \cup {k} : Min(before \cup {k}) <= j
          BY <5>1, MinIsIn
        <5> HIDE DEF before
        <5>4. Min(before) < k /\ Min(before) \in Nat /\ Min(before \cup {k}) <= Min(before)
          BY <2>4, <5>2, <5>3
        <5>5. Min(before \cup {k}) \in before
          BY <5>1, <5>3, <5>4
        <5>6. Min(before) <= Min(before \cup {k})
          BY <5>2, <5>5
        <5>7. Min(before \cup {k}) \in Nat
          BY <5>1, <5>3
        <5> QED
          BY <5>4, <5>6, <5>7
      <4>3. Knows(g[k], name) /\ getPoint(g[k], name) = getPoint(points, name)
        BY <2>2, <3>3, <3>7 DEF getPoint
      <4> HIDE DEF before, points
      <4> QED
        BY <2>1, <2>2, <3>7, <4>1, <4>2, <4>3 DEF PointNamed, before
    <3> QED
      BY <3>5, <3>6, <3>7
  <2> QED
    BY <2>5, <2>6
<1> HIDE DEF A, n
<1>5. n \in 0 .. n
  BY <1>1
<1>6. 0 .. n \subseteq A
  <2>1. \A k \in 1 .. n : k - 1 \in A => k \in A
    BY <1>4
  <2>2. n \in Nat
    BY <1>1
  <2> QED
    BY <1>3, <2>1, <2>2, InductionUpTo
<1> QED
  BY <1>2, <1>5, <1>6 DEF A, n

(* A last line that is read twice names nothing anew.                      *)
SameNames(more, lines, name) ==
  PointNamed(more, Len(more), name) = PointNamed(lines, Len(lines), name)

LEMMA ReadTwice ==
  ASSUME NEW T, NEW lines \in Seq(Seq(T)), lines # <<>>, NEW name
  PROVE  LET more == Append(lines, Last(lines))
         IN  more \in Seq(Seq(T)) /\ SameNames(more, lines, name)
<1>0. PICK n, more : n = Len(lines) /\ more = Append(lines, lines[n])
  OBVIOUS
<1> SUFFICES more \in Seq(Seq(T)) /\ SameNames(more, lines, name)
  BY <1>0 DEF Last
<1> DEFINE before == Naming(lines, n, name)  after == Naming(more, n + 1, name)
<1>1. n \in Nat /\ n >= 1 /\ lines[n] \in Seq(T)
  BY <1>0
<1>2. /\ more \in Seq(Seq(T)) /\ Len(more) = n + 1 /\ more[n + 1] = lines[n]
      /\ \A i \in 1 .. n : more[i] = lines[i]
  BY <1>0, <1>1
<1>3. \A i \in 1 .. n : i \in after <=> i \in before
  BY <1>1, <1>2 DEF Naming
<1>4. n + 1 \in after <=> n \in before
  BY <1>1, <1>2 DEF Naming
<1>5. after \subseteq 1 .. n + 1 /\ before \subseteq 1 .. n
  BY DEF Naming
<1> HIDE DEF before, after
<1>6. after = before \cup (IF n \in before THEN {n + 1} ELSE {})
  <2>1. ASSUME NEW i \in after PROVE i \in before \/ (i = n + 1 /\ n \in before)
    BY <1>1, <1>3, <1>4, <1>5
  <2>2. before \subseteq after
    BY <1>3, <1>5
  <2> QED
    BY <1>4, <2>1, <2>2
<1>7. before \subseteq Nat /\ after \subseteq Nat
  BY <1>1, <1>5
<1>8. CASE before = {}
  <2>1. after = {}
    BY <1>6, <1>8
  <2> QED
    BY <1>0, <1>2, <1>8, <2>1 DEF SameNames, PointNamed, before, after
<1>9. CASE before # {}
  <2>1. Min(before) \in before /\ \A j \in before : Min(before) <= j
    BY <1>7, <1>9, MinIsIn
  <2>2. after # {}
    BY <1>6, <1>9
  <2>3. Min(after) \in after /\ \A j \in after : Min(after) <= j
    BY <1>7, <2>2, MinIsIn
  <2>4. Min(after) <= Min(before) /\ Min(before) \in 1 .. n
    BY <1>5, <1>6, <2>1, <2>3
  <2>5. Min(after) \in before
    BY <1>1, <1>6, <1>7, <2>3, <2>4
  <2>6. Min(before) <= Min(after) /\ Min(after) \in Nat
    BY <1>7, <2>1, <2>5
  <2>7. Min(after) = Min(before)
    BY <2>4, <2>6
  <2>8. more[Min(after)] = lines[Min(before)]
    BY <1>2, <2>4, <2>7
  <2> QED
    BY <1>0, <1>2, <1>9, <2>2, <2>8 DEF SameNames, PointNamed, before, after
<1> QED
  BY <1>8, <1>9

(* The first line of a file that gives a name to a point is the one that   *)
(* is meant, whatever the others say and wherever the file ends; a line    *)
(* that names a point by its own name means the origin                     *)
(* (Field::readPointsFile, parsePoint, getPoint).                          *)
THEOREM FirstNameIsMeant ==
  ASSUME NEW T, NEW file, file.lines \in Seq(Seq(T)), NEW name
  PROVE  getPoint(readPointsFile(file), name)
           = PointNamed(file.lines, Len(file.lines), name)
<1>1. PICK lines \in Seq(Seq(T)) : lines = file.lines
  OBVIOUS
<1>2. PICK all : all = readLines(file)
  OBVIOUS
<1>3. all \in Seq(Seq(T)) /\ SameNames(all, lines, name)
  <2>1. CASE lines = <<>>
    <3>1. all = << <<>> >>
      BY <1>1, <1>2, <2>1 DEF readLines
    <3>2. all \in Seq(Seq(T)) /\ Len(all) = 1 /\ all[1] = <<>> /\ Len(lines) = 0
      BY <2>1, <3>1
    <3>3. Naming(all, 1, name) = {} /\ Naming(lines, 0, name) = {}
      BY <3>2 DEF Naming
    <3> QED
      BY <3>2, <3>3 DEF SameNames, PointNamed
  <2>2. CASE lines # <<>> /\ file.newline
    <3>1. all = Append(lines, Last(lines))
      BY <1>1, <1>2, <2>2 DEF readLines
    <3> QED
      BY <2>2, <3>1, ReadTwice
  <2>3. CASE lines # <<>> /\ ~ file.newline
    BY <1>1, <1>2, <2>3 DEF readLines, SameNames
  <2> QED
    BY <2>1, <2>2, <2>3
<1>4. getPoint(FoldLeft(AddPoint, <<>>, all), name) = PointNamed(all, Len(all), name)
  BY <1>3, PointsAre
<1> QED
  BY <1>1, <1>2, <1>3, <1>4 DEF readPointsFile, SameNames

LEMMA PlacesAreNamed ==
  ASSUME Zero = "0", NEW lines \in Seq(PointLines), NEW name
  PROVE  PointNamed(lines, Len(lines), name) = NamedPlace(lines, name)
<1> DEFINE named == Naming(lines, Len(lines), name)
<1>1. named = {i \in DOMAIN lines : Len(lines[i]) >= 2 /\ lines[i][2] = name}
  BY DEF Naming
<1>2. CASE named = {}
  BY <1>1, <1>2 DEF PointNamed, NamedPlace
<1>3. CASE named # {}
  <2>1. named \subseteq Nat
    BY DEF Naming
  <2>2. PICK m : m = Min(named) /\ m \in named
    BY <1>3, <2>1, MinIsIn
  <2>3. lines[m] \in PointLines /\ Len(lines[m]) >= 2
    BY <1>1, <2>2
  <2>4. getPoint(<<>>, "home") = Origin
    <3>1. <<>> \in Seq({}) /\ ~ Knows(<<>>, "home")
      BY DEF Knows
    <3> QED
      BY <3>1, FirstIsFound DEF getPoint
  <2>5. parsePoint(lines[m], <<>>) = IF lines[m][1] = "F" THEN Origin ELSE Says(lines[m])
    <3>1. CASE lines[m] = <<"N", "home", "a", "b", "c">>
      BY <3>1 DEF parsePoint, At, Says, Place1
    <3>2. CASE lines[m] = <<"N", "home", "b", "a", "0", "c">>
      BY <3>2 DEF parsePoint, At, Says, Place2
    <3>3. CASE lines[m] = <<"F", "home">>
      BY <2>4, <3>3 DEF parsePoint
    <3>4. CASE lines[m] = <<"N", "reef", "b", "a", "0", "c">>
      BY <3>4 DEF parsePoint, At, Says, Place2
    <3>5. lines[m] # <<>>
      BY <2>3
    <3> QED
      BY <2>3, <3>1, <3>2, <3>3, <3>4, <3>5 DEF PointLines
  <2> QED
    BY <1>1, <1>3, <2>2, <2>5 DEF PointNamed, NamedPlace
<1> QED
  BY <1>2, <1>3

LEMMA Flattened ==
  ASSUME NEW V, NEW a \in Seq(V), NEW b \in Seq(V)
  PROVE  /\ FlattenSeq(<< <<>>, a, b>>) = a \o b
         /\ FlattenSeq(<< <<>>, a, b, b>>) = (a \o b) \o b
<1>0. <<>> \in Seq(V) /\ \A s \in Seq(V) : <<>> \o s = s
  OBVIOUS
<1>1. FlattenSeq(<< <<>>, a, b>>) = a \o b
  <2> DEFINE seqs == << <<>>, a, b>>
  <2>1. /\ seqs \in Seq(Seq(V)) /\ Len(seqs) = 3
        /\ seqs[1] = <<>> /\ seqs[2] = a /\ seqs[3] = b
    BY <1>0
  <2> HIDE DEF seqs
  <2>2. PICK g \in [0 .. Len(seqs) -> Seq(V)] :
          /\ g[0] = <<>>
          /\ \A k \in 1 .. Len(seqs) : g[k] = g[k - 1] \o seqs[k]
          /\ FlattenSeq(seqs) = g[Len(seqs)]
    BY <2>1, FlattenIs
  <2>3. g[1] = g[0] \o seqs[1] /\ g[2] = g[1] \o seqs[2] /\ g[3] = g[2] \o seqs[3]
    <3>1. 1 \in 1 .. 3 /\ 2 \in 1 .. 3 /\ 3 \in 1 .. 3 /\ 1 - 1 = 0 /\ 2 - 1 = 1 /\ 3 - 1 = 2
      OBVIOUS
    <3> QED
      BY <2>1, <2>2, <3>1
  <2>4. g[1] = <<>> /\ g[2] = a
    BY <1>0, <2>1, <2>2, <2>3
  <2> QED
    BY <2>1, <2>2, <2>3, <2>4 DEF seqs
<1>2. FlattenSeq(<< <<>>, a, b, b>>) = (a \o b) \o b
  <2> DEFINE seqs == << <<>>, a, b, b>>
  <2>1. /\ seqs \in Seq(Seq(V)) /\ Len(seqs) = 4
        /\ seqs[1] = <<>> /\ seqs[2] = a /\ seqs[3] = b /\ seqs[4] = b
    BY <1>0
  <2> HIDE DEF seqs
  <2>2. PICK g \in [0 .. Len(seqs) -> Seq(V)] :
          /\ g[0] = <<>>
          /\ \A k \in 1 .. Len(seqs) : g[k] = g[k - 1] \o seqs[k]
          /\ FlattenSeq(seqs) = g[Len(seqs)]
    BY <2>1, FlattenIs
  <2>3. /\ g[1] = g[0] \o seqs[1] /\ g[2] = g[1] \o seqs[2]
        /\ g[3] = g[2] \o seqs[3] /\ g[4] = g[3] \o seqs[4]
    <3>1. /\ 1 \in 1 .. 4 /\ 2 \in 1 .. 4 /\ 3 \in 1 .. 4 /\ 4 \in 1 .. 4
          /\ 1 - 1 = 0 /\ 2 - 1 = 1 /\ 3 - 1 = 2 /\ 4 - 1 = 3
      OBVIOUS
    <3> QED
      BY <2>1, <2>2, <3>1
  <2>4. g[1] = <<>> /\ g[2] = a
    BY <1>0, <2>1, <2>2, <2>3
  <2> QED
    BY <2>1, <2>2, <2>3, <2>4 DEF seqs
<1> QED
  BY <1>1, <1>2

(* The path, with its points as they are named.                            *)
LEMMA PathIsRead ==
  ASSUME Zero = "0", NEW files \in Files, NEW points, NEW home,
         getPoint(points, "home") = home
  PROVE  getPath(readAllPaths([way |-> files.path], points), "way") = <<home, Place1>>
<1> DEFINE path == files.path  all == [way |-> path]  names == SetToSeq(DOMAIN all)
           lines == << <<"F", "home">>, <<"P", "a", "b", "c">> >>
<1>1. path = [lines |-> lines, newline |-> FALSE]
  <2>1. PICK ps \in SeqOf(PointLines, 3), pn \in BOOLEAN, l1 \in Lasts, l2 \in Lasts,
             n \in BOOLEAN :
          files = [points |-> [lines |-> ps, newline |-> pn],
                   path |-> [lines |-> lines, newline |-> FALSE],
                   script |-> [lines |-> << <<"1", "2">>, <<"F", "reef">>, l1, l2>>,
                               newline |-> n]]
    BY DEF Files
  <2> QED
    BY <2>1
<1>2. readLines(path) = lines
  BY <1>1 DEF readLines
<1>3. DOMAIN all = {"way"} /\ all["way"] = path
  OBVIOUS
<1>4. names = <<"way">>
  <2>1. Cardinality({"way"}) = 1
    BY FS_Singleton
  <2>2. SetToSeq({"way"}) = CHOOSE f \in [1 .. 1 -> {"way"}] : IsInjective(f)
    BY <2>1 DEF SetToSeq
  <2>3. \E f \in [1 .. 1 -> {"way"}] : IsInjective(f)
    <3>1. [i \in 1 .. 1 |-> "way"] \in [1 .. 1 -> {"way"}]
      OBVIOUS
    <3>2. IsInjective([i \in 1 .. 1 |-> "way"])
      BY DEF IsInjective
    <3> QED
      BY <3>1, <3>2
  <2>4. SetToSeq({"way"}) \in [1 .. 1 -> {"way"}]
    BY <2>2, <2>3
  <2>5. \A f \in [1 .. 1 -> {"way"}] : f = <<"way">>
    OBVIOUS
  <2> QED
    BY <1>3, <2>4, <2>5
<1>5. readAllPaths(all, points)
        = [k \in {1} |-> [name |-> "way",
                          value |-> [i \in {1, 2} |-> parsePoint(lines[i], points)]]]
  <2>1. readAllPaths(all, points)
          = [k \in DOMAIN names |->
               [name |-> names[k],
                value |-> [i \in DOMAIN readLines(all[names[k]]) |->
                             parsePoint(readLines(all[names[k]])[i], points)]]]
    BY DEF readAllPaths
  <2>2. DOMAIN names = {1} /\ names[1] = "way" /\ readLines(all["way"]) = lines
    BY <1>2, <1>3, <1>4
  <2>3. DOMAIN lines = {1, 2}
    OBVIOUS
  <2> HIDE DEF names, all, lines
  <2> QED
    BY <2>1, <2>2, <2>3
<1>6. parsePoint(lines[1], points) = home /\ parsePoint(lines[2], points) = Place1
  BY DEF parsePoint, At, Place1
<1>7. [i \in {1, 2} |-> parsePoint(lines[i], points)] = <<home, Place1>>
  BY <1>6
<1> DEFINE entry == [name |-> "way", value |-> <<home, Place1>>]
<1>8. readAllPaths(all, points) = <<entry>>
  <2> HIDE DEF lines, all
  <2> QED
    BY <1>5, <1>7
<1>9. Find(<<entry>>, "way", <<>>) = entry.value
  <2>1. <<entry>> \in Seq({entry}) /\ DOMAIN <<entry>> = {1} /\ <<entry>>[1] = entry
        /\ entry.name = "way"
    OBVIOUS
  <2>2. Knows(<<entry>>, "way")
    BY <2>1 DEF Knows
  <2>3. PICK one, its : one = <<entry>> /\ its = entry
    OBVIOUS
  <2> HIDE DEF entry
  <2>4. /\ one \in Seq({its}) /\ Knows(one, "way") /\ DOMAIN one = {1} /\ one[1] = its
    BY <2>1, <2>2, <2>3
  <2>5. Find(one, "way", <<>>) = its.value
    BY <2>4, FirstIsFound
  <2> QED
    BY <2>3, <2>5
<1> HIDE DEF all
<1> QED
  BY <1>8, <1>9 DEF getPath, all

(* What the last call was asked of the files, and what it answered.        *)
FilesCalled == \E files \in Files : Answered("files", files, Start(files))

LEMMA FilesAre ==
  ASSUME NEW files \in Files
  PROVE  \E ps \in Seq(PointLines), l1 \in Lasts, l2 \in Lasts :
           /\ files.points.lines = ps
           /\ files.script.lines = << <<"1", "2">>, <<"F", "reef">>, l1, l2>>
<1>1. PICK ps \in SeqOf(PointLines, 3), pn \in BOOLEAN, l1 \in Lasts, l2 \in Lasts,
           n \in BOOLEAN :
        files = [points |-> [lines |-> ps, newline |-> pn],
                 path |-> [lines |-> << <<"F", "home">>, <<"P", "a", "b", "c">> >>,
                           newline |-> FALSE],
                 script |-> [lines |-> << <<"1", "2">>, <<"F", "reef">>, l1, l2>>,
                             newline |-> n]]
  BY DEF Files
<1>2. ps \in Seq(PointLines)
  <2>1. PICK m \in 0 .. 3 : ps \in [1 .. m -> PointLines]
    BY DEF SeqOf
  <2>2. m \in Nat
    OBVIOUS
  <2> QED
    BY <2>1, <2>2
<1> QED
  BY <1>1, <1>2

LEMMA SameList ==
  ASSUME NEW V, NEW x \in Seq(V), NEW y \in Seq(V), Len(x) = Len(y),
         \A i \in 1 .. Len(x) : x[i] = y[i]
  PROVE  x = y
OBVIOUS

LEMMA FourAndOne ==
  ASSUME NEW a, NEW b, NEW c, NEW d, NEW e
  PROVE  Append(<<a, b, c, d>>, e) = <<a, b, c, d, e>>
<1>1. <<a, b, c, d>> \in Seq({a, b, c, d}) /\ Len(<<a, b, c, d>>) = 4
  OBVIOUS
<1>2. /\ Len(Append(<<a, b, c, d>>, e)) = 5
      /\ \A i \in 1 .. 4 : Append(<<a, b, c, d>>, e)[i] = <<a, b, c, d>>[i]
      /\ Append(<<a, b, c, d>>, e)[5] = e
  BY <1>1
<1>3. Append(<<a, b, c, d>>, e) \in Seq({a, b, c, d, e})
  BY <1>1
<1>4. <<a, b, c, d, e>> \in Seq({a, b, c, d, e}) /\ Len(<<a, b, c, d, e>>) = 5
  OBVIOUS
<1>5. \A i \in 1 .. 5 : Append(<<a, b, c, d>>, e)[i] = <<a, b, c, d, e>>[i]
  <2>1. 1 .. 5 = {1, 2, 3, 4, 5} /\ 1 .. 4 = {1, 2, 3, 4}
    OBVIOUS
  <2> QED
    BY <1>2, <2>1
<1>6. PICK x, y : x = Append(<<a, b, c, d>>, e) /\ y = <<a, b, c, d, e>>
  OBVIOUS
<1>7. PICK V : V = {a, b, c, d, e}
  OBVIOUS
<1>8. x \in Seq(V) /\ y \in Seq(V) /\ Len(x) = 5 /\ Len(y) = 5
  BY <1>2, <1>3, <1>4, <1>6, <1>7
<1>9. x = y
  <2>1. \A i \in 1 .. 5 : x[i] = y[i]
    BY <1>5, <1>6
  <2> QED
    BY <1>8, <2>1, SameList
<1> QED
  BY <1>6, <1>9

LEMMA PointLinesAre == PointLines \subseteq Seq(MCTokens)
<1>1. /\ "N" \in MCTokens /\ "F" \in MCTokens /\ "home" \in MCTokens /\ "reef" \in MCTokens
      /\ "0" \in MCTokens /\ "a" \in MCTokens /\ "b" \in MCTokens /\ "c" \in MCTokens
  BY DEF MCTokens
<1>2. /\ <<"N", "home", "a", "b", "c">> \in Seq(MCTokens)
      /\ <<"N", "home", "b", "a", "0", "c">> \in Seq(MCTokens)
      /\ <<"F", "home">> \in Seq(MCTokens) /\ <<>> \in Seq(MCTokens)
      /\ <<"N", "reef", "b", "a", "0", "c">> \in Seq(MCTokens)
  BY <1>1
<1> QED
  BY <1>2, Zenon DEF PointLines

(* What a line of the script does, with what the path is.                  *)
Does(line, path) ==
  CASE line = <<"PATH", "way">> -> <<[path |-> path]>>
    [] line = <<"ACT", "score">> -> <<[act |-> "score"]>>
    [] OTHER -> <<>>

LEMMA LinesDo ==
  ASSUME NEW line \in Lasts, NEW paths, NEW path, getPath(paths, "way") = path
  PROVE  Action(line, paths) = Does(line, path)
<1>1. CASE line = <<"PATH", "way">>
  BY <1>1 DEF Action, Does
<1>2. CASE line = <<"ACT", "score">>
  BY <1>2 DEF Action, Does
<1>3. CASE line = <<"WAIT", "2">>
  BY <1>3 DEF Action, Does
<1>4. CASE line = <<"ACT">>
  BY <1>4 DEF Action, Does
<1> QED
  BY <1>1, <1>2, <1>3, <1>4 DEF Lasts

LEMMA ScriptIsRun ==
  ASSUME Zero = "0", NEW files \in Files
  PROVE  LET lines == files.points.lines
             script == files.script
             path == <<NamedPlace(lines, "home"), Place1>>
         IN  Start(files) =
               {[red |-> "1", blue |-> "2", start |-> NamedPlace(lines, "reef"),
                 actions |-> Does(script.lines[3], path) \o Does(script.lines[4], path)
                             \o (IF script.newline THEN Does(script.lines[4], path)
                                 ELSE <<>>)]}
<1> DEFINE points == readPointsFile(files.points)
           paths == readAllPaths([way |-> files.path], points)
           home == NamedPlace(files.points.lines, "home")
           reef == NamedPlace(files.points.lines, "reef")
           path == <<home, Place1>>
<1>1. PICK ps \in Seq(PointLines), l1 \in Lasts, l2 \in Lasts :
        /\ files.points.lines = ps
        /\ files.script.lines = << <<"1", "2">>, <<"F", "reef">>, l1, l2>>
  BY FilesAre
<1>2. /\ getPoint(points, "home") = home
      /\ getPoint(points, "reef") = reef
  <2>1. PointLines \subseteq Seq(MCTokens)
    BY PointLinesAre
  <2>2. ps \in Seq(Seq(MCTokens))
    BY <2>1
  <2>3. ASSUME NEW name
        PROVE  getPoint(points, name) = NamedPlace(files.points.lines, name)
    <3>1. getPoint(points, name) = PointNamed(ps, Len(ps), name)
      BY <1>1, <2>2, FirstNameIsMeant
    <3> QED
      BY <1>1, <3>1, PlacesAreNamed
  <2> HIDE DEF points
  <2> QED
    BY <2>3
<1>3. getPath(paths, "way") = path
  <2> HIDE DEF points, home
  <2> QED
    BY <1>2, PathIsRead
<1> DEFINE a == Does(l1, path)  b == Does(l2, path)
           all == IF files.script.newline
                  THEN << <<"1", "2">>, <<"F", "reef">>, l1, l2, l2>>
                  ELSE << <<"1", "2">>, <<"F", "reef">>, l1, l2>>
           rest == IF files.script.newline THEN << <<"F", "reef">>, l1, l2, l2>>
                   ELSE << <<"F", "reef">>, l1, l2>>
           acts == [i \in DOMAIN rest |-> Action(rest[i], paths)]
<1>4. Start(files) = AutoData(files.script, points, paths)
  BY DEF Start
<1>5. readLines(files.script) = all
  <2>1. PICK four : four = << <<"1", "2">>, <<"F", "reef">>, l1, l2>>
    OBVIOUS
  <2>2. four # <<>> /\ Last(four) = l2
    BY <2>1 DEF Last
  <2>3. Append(four, l2) = << <<"1", "2">>, <<"F", "reef">>, l1, l2, l2>>
    BY <2>1, FourAndOne, Zenon
  <2>4. readLines(files.script)
          = IF files.script.newline THEN Append(four, Last(four)) ELSE four
    BY <1>1, <2>1, <2>2 DEF readLines
  <2> QED
    BY <2>1, <2>2, <2>3, <2>4
<1>6. /\ Len(all) >= 2 /\ all[1] = <<"1", "2">> /\ all[2] = <<"F", "reef">> /\ Tail(all) = rest
  OBVIOUS
<1>7. AutoData(files.script, points, paths)
        = {[red |-> "1", blue |-> "2", start |-> parsePoint(<<"F", "reef">>, points),
            actions |-> FlattenSeq(acts)]}
  <2> HIDE DEF all, rest, points, paths
  <2>1. AutoData(files.script, points, paths)
          = IF Len(all) < 2 THEN {}
            ELSE {[red |-> all[1][1], blue |-> all[1][2], start |-> parsePoint(all[2], points),
                   actions |-> FlattenSeq([i \in DOMAIN Tail(all) |->
                                             Action(Tail(all)[i], paths)])]}
    BY <1>5 DEF AutoData
  <2>2. ~ Len(all) < 2 /\ all[1][1] = "1" /\ all[1][2] = "2"
    <3>1. Len(all) \in Nat
      BY DEF all
    <3> QED
      BY <1>6, <3>1
  <2> QED
    BY <1>6, <2>1, <2>2
<1>8. parsePoint(<<"F", "reef">>, points) = reef
  <2> HIDE DEF points, reef
  <2> QED
    BY <1>2 DEF parsePoint
<1>9. /\ Action(<<"F", "reef">>, paths) = <<>>
      /\ Action(l1, paths) = a /\ Action(l2, paths) = b
  <2> HIDE DEF paths, path
  <2>1. Action(<<"F", "reef">>, paths) = <<>>
    BY DEF Action
  <2> QED
    BY <1>3, <2>1, LinesDo
<1>10. acts = IF files.script.newline THEN << <<>>, a, b, b>> ELSE << <<>>, a, b>>
  <2> HIDE DEF paths, a, b
  <2>1. CASE files.script.newline
    <3>1. rest = << <<"F", "reef">>, l1, l2, l2>>
      BY <2>1
    <3>2. DOMAIN rest = 1 .. 4
      BY <3>1
    <3>3. acts = [i \in 1 .. 4 |-> Action(<< <<"F", "reef">>, l1, l2, l2>>[i], paths)]
      BY <3>1, <3>2
    <3> HIDE DEF acts, rest
    <3>4. acts = << Action(<<"F", "reef">>, paths), Action(l1, paths), Action(l2, paths),
                    Action(l2, paths) >>
      BY <3>3
    <3> QED
      BY <1>9, <2>1, <3>4
  <2>2. CASE ~ files.script.newline
    <3>1. rest = << <<"F", "reef">>, l1, l2>>
      BY <2>2
    <3>2. DOMAIN rest = 1 .. 3
      BY <3>1
    <3>3. acts = [i \in 1 .. 3 |-> Action(<< <<"F", "reef">>, l1, l2>>[i], paths)]
      BY <3>1, <3>2
    <3> HIDE DEF acts, rest
    <3>4. acts = << Action(<<"F", "reef">>, paths), Action(l1, paths), Action(l2, paths) >>
      BY <3>3
    <3> QED
      BY <1>9, <2>2, <3>4
  <2> QED
    BY <2>1, <2>2
<1>11. \E V : a \in Seq(V) /\ b \in Seq(V)
  <2> DEFINE V == {[path |-> path], [act |-> "score"]}
  <2>1. [path |-> path] \in V /\ [act |-> "score"] \in V
    OBVIOUS
  <2> HIDE DEF V, path
  <2>2. <<[path |-> path]>> \in Seq(V) /\ <<[act |-> "score"]>> \in Seq(V) /\ <<>> \in Seq(V)
    BY <2>1
  <2>3. a \in Seq(V) /\ b \in Seq(V)
    BY <2>2 DEF Does
  <2> QED
    BY <2>3
<1>12. FlattenSeq(acts) = a \o b \o (IF files.script.newline THEN b ELSE <<>>)
  <2> HIDE DEF acts, a, b
  <2>1. PICK V : a \in Seq(V) /\ b \in Seq(V)
    BY <1>11
  <2>2. (a \o b) \o <<>> = a \o b
    BY <2>1
  <2> QED
    BY <1>10, <2>1, <2>2, Flattened
<1> QED
  <2>1. files.script.lines[3] = l1 /\ files.script.lines[4] = l2
    BY <1>1
  <2> HIDE DEF acts, points, paths, home, reef
  <2> QED
    BY <1>4, <1>7, <1>8, <1>12, <2>1 DEF a, b, path, home, reef

LEMMA FilesShow ==
  ASSUME Zero = "0", FilesCalled
  PROVE  ScriptRunsAsWritten
<1>1. PICK files \in Files : Answered("files", files, Start(files))
  BY DEF FilesCalled
<1>2. call.of = "files" /\ call.in = files /\ call.out = Start(files)
  BY <1>1 DEF Answered
<1> QED
  BY <1>2, ScriptIsRun DEF ScriptRunsAsWritten, Does
-----------------------------------------------------------------------------
(* What the last call was asked is something the theorems above are about, *)
(* and what it answered is what the calculator computes.                   *)
MirrorCalled ==
  \E how \in Mirrors, p \in FieldPoints :
    Answered("mirror", [how |-> how, p |-> p], Mirrored(how, p))

TipCalled ==
  \E change, bearing \in Pairs :
    Answered("tip", [change |-> change, bearing |-> bearing], ClosestWheel(change, bearing))

WheelsCalled == \E asked \in Motion : Answered("wheels", asked, calculate(asked))

OdometryCalled ==
  \E last, start \in Pairs, odom_ff \in Int, m, n \in {a \in Motion : a.bearing \in Circle} :
    LET journey == [last |-> last, start |-> start, odom_ff |-> odom_ff, moves |-> <<m, n>>]
    IN  Answered("odometry", journey, Travel(journey))

LogCalled == \E data \in Seq(Printable) : Answered("log", data, decompress(compress(data)))

Faithful ==
  /\ call.of = "mirror" => MirrorCalled
  /\ call.of = "tip" => TipCalled
  /\ call.of = "wheels" => WheelsCalled
  /\ call.of = "odometry" => OdometryCalled
  /\ call.of = "reef" => ReefCalled
  /\ call.of = "log" => LogCalled
  /\ call.of = "files" => FilesCalled
  /\ call.of = "tags" => TagsCalled
  /\ call.of = "pieces" => PiecesCalled

LEMMA CallIs ==
  ASSUME NEW of, NEW in, NEW out, Called(of, in, out)
  PROVE  call'.of = of /\ Answered(of, in, out)'
BY DEF Called, Answered

LEMMA CharactersArePrintable == Characters \subseteq Printable
<1> SUFFICES ASSUME NEW x \in Characters PROVE x \in Printable
  OBVIOUS
<1>1. x \in {Char(v, FALSE) : v \in {0, 1, 26, 30, 62, Unknown}} \/ x = Char(26, TRUE)
  BY DEF Characters, Newline, Space
<1>2. CASE x = Char(26, TRUE)
  <2>1. 26 \in 0 .. 62 /\ 26 \in Letters
    BY SMT DEF Letters
  <2> QED
    BY <1>2, <2>1, Zenon DEF Printable, Char
<1>3. ASSUME NEW v \in {0, 1, 26, 30, 62, Unknown}, x = Char(v, FALSE) PROVE x \in Printable
  <2>1. v \in (0 .. 62) \cup {Unknown}
    BY <1>3, SMT
  <2> QED
    BY <1>3, <2>1, SMT DEF Printable, Char
<1> QED
  BY <1>1, <1>2, <1>3

(* Every call keeps it: one that is answered establishes the part that is  *)
(* about its calculator, and the others are about another call.            *)
LEMMA FaithfulSteps == Faithful /\ [Next]_call => Faithful'
<1> SUFFICES ASSUME Faithful, [Next]_call PROVE Faithful'
  OBVIOUS
<1>1. ASSUME call'.of \notin {"mirror", "tip", "wheels", "odometry", "reef", "log", "tags",
                             "pieces", "files"}
      PROVE  Faithful'
  BY <1>1 DEF Faithful
<1>2. CASE CallWheels
  <2>1. PICK asked \in Motions : Called("wheels", asked, calculate(asked))
    BY <1>2 DEF CallWheels
  <2>2. asked \in Motion
    BY BearingsAre DEF Motions, Motion, Asked, Pairs
  <2>3. call'.of = "wheels" /\ WheelsCalled'
    BY <2>1, <2>2, CallIs, Zenon DEF WheelsCalled
  <2> QED
    BY <2>3 DEF Faithful
<1>3. CASE CallOdometry
  <2>1. PICK j \in Journeys : Called("odometry", j, Travel(j))
    BY <1>3 DEF CallOdometry
  <2>3. ASSUME NEW m \in Firsts PROVE m \in Motion /\ m.bearing \in Circle
    BY BearingsAre DEF Firsts, Motion, Asked, Pairs
  <2>4. ASSUME NEW n \in Seconds PROVE n \in Motion /\ n.bearing \in Circle
    <3>1. PICK r \in {0, 3}, b \in Angles5 : n = Asked(<<0, -2>>, r, b, 99, FALSE)
      BY DEF Seconds, Asked
    <3>2. <<0, -2>> \in Pairs /\ b \in Pairs /\ b \in Circle
      BY BearingsAre DEF Pairs
    <3> QED
      BY <3>1, <3>2 DEF Motion, Asked
  <2>2. PICK l \in {<<0, 0>>, <<30, -7>>}, p \in {<<0, 0>>, <<200, 400>>},
             f \in FudgeFactors, m \in Firsts, n \in Seconds :
               j = [last |-> l, start |-> p, odom_ff |-> f, moves |-> <<m, n>>]
    BY DEF Journeys
  <2>5. l \in Pairs /\ p \in Pairs /\ f \in Int
    BY DEF Pairs, FudgeFactors
  <2>6. call'.of = "odometry" /\ Answered("odometry", j, Travel(j))'
    BY <2>1, CallIs
  <2>7. OdometryCalled'
    <3>1. /\ m \in {a \in Motion : a.bearing \in Circle}
          /\ n \in {a \in Motion : a.bearing \in Circle}
      BY <2>3, <2>4
    <3> QED
      BY <2>2, <2>5, <2>6, <3>1, Zenon DEF OdometryCalled
  <2> QED
    BY <2>6, <2>7 DEF Faithful
<1>4. CASE CallMirror
  <2>1. PICK how \in Mirrors, x \in {0, 600, 2536}, y \in {0, 1414, 5527}, b \in Angles5 :
          Called("mirror", [how |-> how, p |-> FieldPoint(<<x, y>>, b)],
                 Mirrored(how, FieldPoint(<<x, y>>, b)))
    BY <1>4 DEF CallMirror
  <2>2. FieldPoint(<<x, y>>, b) \in FieldPoints
    BY BearingsAre DEF FieldPoints, FieldPoint, Pairs
  <2>3. call'.of = "mirror" /\ MirrorCalled'
    <3>1. PICK q \in FieldPoints :
            Called("mirror", [how |-> how, p |-> q], Mirrored(how, q))
      BY <2>1, <2>2
    <3>2. /\ call'.of = "mirror"
          /\ Answered("mirror", [how |-> how, p |-> q], Mirrored(how, q))'
      BY <3>1, CallIs
    <3> QED
      BY <3>2 DEF MirrorCalled
  <2> QED
    BY <2>3 DEF Faithful
<1>5. CASE CallTip
  <2>1. PICK change \in {-60, -7, 0, 1, 20} \X {-33, 0, 2, 50}, b \in Angles5 :
          Called("tip", [change |-> change, bearing |-> b], ClosestWheel(change, b))
    BY <1>5 DEF CallTip
  <2>2. change \in Pairs /\ b \in Pairs
    BY BearingsAre DEF Pairs
  <2>3. call'.of = "tip" /\ TipCalled'
    BY <2>1, <2>2, CallIs, Zenon DEF TipCalled
  <2> QED
    BY <2>3 DEF Faithful
<1>6. CASE CallTags
  <2>1. PICK view \in Views : \E frames \in Frames(view) :
          Called("tags", view, Localize(view, frames))
    BY <1>6 DEF CallTags
  <2>3. PICK frames \in Frames(view) : Called("tags", view, Localize(view, frames))
    BY <2>1
  <2>2. call'.of = "tags" /\ TagsCalled'
    BY <2>3, CallIs, Zenon DEF TagsCalled
  <2> QED
    BY <2>2 DEF Faithful
<1>7. CASE CallPieces
  <2>1. PICK view \in Views :
          Called("pieces", view,
                 GamePieces(Now(view), view.turns, view.age, view.at, view.theta))
    BY <1>7 DEF CallPieces
  <2>2. call'.of = "pieces" /\ PiecesCalled'
    BY <2>1, CallIs, Zenon DEF PiecesCalled
  <2> QED
    BY <2>2 DEF Faithful
<1>8. CASE CallReef
  <2>1. PICK d \in -179 .. 180, mirrored \in BOOLEAN :
          Called("reef", [direction |-> d, mirrored |-> mirrored], ClosestReefSide(d, mirrored))
    BY <1>8 DEF CallReef
  <2>2. call'.of = "reef" /\ ReefCalled'
    BY <2>1, CallIs, Zenon DEF ReefCalled
  <2> QED
    BY <2>2 DEF Faithful
<1>9. CASE CallHold
  BY <1>1, <1>9, CallIs DEF CallHold
<1>10. CASE CallRc
  BY <1>1, <1>10, CallIs DEF CallRc
<1>11. CASE CallLog
  <2>4. PICK n \in 0 .. 5 : \E text \in [1 .. n -> Characters] :
          Called("log", text, decompress(compress(text)))
    BY <1>11 DEF CallLog
  <2>1. PICK text \in [1 .. n -> Characters] : Called("log", text, decompress(compress(text)))
    BY <2>4
  <2>2. text \in Seq(Printable)
    <3>1. n \in Nat /\ text \in [1 .. n -> Printable]
      BY CharactersArePrintable
    <3> QED
      BY <3>1
  <2>3. call'.of = "log" /\ LogCalled'
    BY <2>1, <2>2, CallIs, Zenon DEF LogCalled
  <2> QED
    BY <2>3 DEF Faithful
<1>12. CASE CallFiles
  <2>1. PICK files \in Files : Called("files", files, Start(files))
    BY <1>12 DEF CallFiles
  <2>2. call'.of = "files" /\ FilesCalled'
    BY <2>1, CallIs, Zenon DEF FilesCalled
  <2> QED
    BY <2>2 DEF Faithful
<1>13. CASE CallSimulation
  BY <1>1, <1>13, CallIs DEF CallSimulation
<1>14. CASE Return
  BY <1>1, <1>14 DEF Return, Idle
<1>15. CASE UNCHANGED call
  <2>1. /\ MirrorCalled' <=> MirrorCalled
        /\ TipCalled' <=> TipCalled
        /\ WheelsCalled' <=> WheelsCalled
        /\ OdometryCalled' <=> OdometryCalled
    BY <1>15, Zenon DEF MirrorCalled, TipCalled, WheelsCalled, OdometryCalled, Answered
  <2>2. /\ ReefCalled' <=> ReefCalled
        /\ LogCalled' <=> LogCalled
        /\ TagsCalled' <=> TagsCalled
        /\ PiecesCalled' <=> PiecesCalled
        /\ FilesCalled' <=> FilesCalled
    BY <1>15, Zenon DEF ReefCalled, LogCalled, TagsCalled, PiecesCalled, FilesCalled, Answered
  <2> QED
    BY <1>15, <2>1, <2>2 DEF Faithful
<1> QED
  BY <1>2, <1>3, <1>4, <1>5, <1>6, <1>7, <1>8, <1>9, <1>10, <1>11, <1>12, <1>13,
     <1>14, <1>15 DEF Next

LEMMA FaithfulAlways == Spec => []Faithful
<1>1. Init => Faithful
  BY DEF Init, Idle, Faithful
<1> QED
  BY <1>1, FaithfulSteps, PTL DEF Spec

(* So what the runs check of these calculators follows from what is true   *)
(* of them for all inputs.                                                 *)
THEOREM CalculatorsAgree ==
  Spec => [](MirrorsAgree /\ TipsOverChosenWheel /\ WheelsAsAsked /\ OdometrySeesMotion)
<1>1. Faithful => MirrorsAgree
  BY MirrorsAgreeEverywhere DEF Faithful, MirrorCalled, MirrorsAgree
<1>2. Faithful => TipsOverChosenWheel
  BY ChosenWheelLiesBehind DEF Faithful, TipCalled, TipsOverChosenWheel
<1>3. Faithful => WheelsAsAsked
  BY WheelsObey DEF Faithful, WheelsCalled, WheelsAsAsked
<1>4. Faithful => OdometrySeesMotion
  BY OdometryFollows DEF Faithful, OdometryCalled, OdometrySeesMotion
<1> QED
  BY <1>1, <1>2, <1>3, <1>4, FaithfulAlways, PTL

(* An alignment goes to the nearest side of the reef from every direction, *)
(* except for a robot of the blue alliance in the last 30 degrees before   *)
(* 0, which goes to the far side (reef.cc:65) and which NearestSide leaves *)
(* out.                                                                    *)
THEOREM ReefSideIsNearest == Spec => []NearestSide
<1>1. Faithful => NearestSide
  BY NoSideIsNearer DEF Faithful, NearestSide
<1> QED
  BY <1>1, FaithfulAlways, PTL

(* The client reads the text that was logged.                              *)
THEOREM TextSurvives == Spec => []LogTextSurvives
<1>1. ASSUME LogCalled PROVE LogTextSurvives
  <2>1. PICK data \in Seq(Printable) : Answered("log", data, decompress(compress(data)))
    BY <1>1 DEF LogCalled
  <2> DEFINE text == [i \in DOMAIN data |-> Legible(data[i])]
  <2>2. decompress(compress(data)) \in {text, Append(text, Char(Newline, FALSE))}
    BY TextIsRead
  <2>3. call.in = data /\ call.out = decompress(compress(data))
    BY <2>1 DEF Answered
  <2>4. text = [i \in DOMAIN call.in |->
                  IF call.in[i].value = Unknown THEN Char(Space, FALSE) ELSE call.in[i]]
    BY <2>3 DEF Legible
  <2> HIDE DEF text
  <2> QED
    BY <2>2, <2>3, <2>4 DEF LogTextSurvives
<1>2. Faithful => LogTextSurvives
  BY <1>1 DEF Faithful, LogTextSurvives
<1> QED
  BY <1>2, FaithfulAlways, PTL

(* What the cameras see is where it is, if they are where the views'       *)
(* lengths come out whole.                                                 *)
THEOREM SightingsShowPlaces ==
  ASSUME CamerasInFives
  PROVE  Spec => []SightingsAgree
<1>1. ASSUME TagsCalled PROVE SightingsAgree
  <2>1. PICK view \in Views : \E frames \in Frames(view) :
          Answered("tags", view, Localize(view, frames))
    BY <1>1 DEF TagsCalled
  <2>3. PICK frames \in Frames(view) : Answered("tags", view, Localize(view, frames))
    BY <2>1
  <2>2. call.of = "tags" /\ call.in = view /\ call.out = Localize(view, frames)
    BY <2>3 DEF Answered
  <2> QED
    BY <2>2, TagsAgree DEF SightingsAgree
<1>2. ASSUME PiecesCalled PROVE SightingsAgree
  <2>1. PICK view \in Views :
          Answered("pieces", view,
                   GamePieces(Now(view), view.turns, view.age, view.at, view.theta))
    BY <1>2 DEF PiecesCalled
  <2> DEFINE out == GamePieces(Now(view), view.turns, view.age, view.at, view.theta)
  <2>2. call.of = "pieces" /\ call.in = view /\ call.out = out
    BY <2>1 DEF Answered
  <2>3. view.turns = 0 => \A k \in DOMAIN out : out[k] = Times(Place(view, k, IntakeToCam), 25)
    BY PiecesAgree
  <2> HIDE DEF out
  <2> QED
    BY <2>2, <2>3 DEF SightingsAgree
<1>3. Faithful => SightingsAgree
  BY <1>1, <1>2 DEF Faithful, SightingsAgree
<1> QED
  BY <1>3, FaithfulAlways, PTL

(* A script does what is written in it: the first line that names a point  *)
(* is meant, and a last line that is read twice is done twice.  The number *)
(* 0 is the token "0", as it is in the files.                              *)
THEOREM ScriptIsAlwaysRun ==
  ASSUME Zero = "0"
  PROVE  Spec => []ScriptRunsAsWritten
<1>1. Faithful => ScriptRunsAsWritten
  BY FilesShow, Zenon DEF Faithful, ScriptRunsAsWritten
<1> QED
  BY <1>1, FaithfulAlways, PTL
=============================================================================
