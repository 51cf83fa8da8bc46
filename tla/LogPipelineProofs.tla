-------------------------- MODULE LogPipelineProofs --------------------------
(***************************************************************************)
(* Theorems about LogPipeline, for any clients, messages, limits and       *)
(* periods: the types, what the sender's unlocked check may rely on, and   *)
(* that the queues in a row are one FifoChannel.                           *)
(***************************************************************************)
EXTENDS LogPipeline, WellFoundedInduction, SequenceTheorems, TLAPS

(***************************************************************************)
(* What the provers cannot do by themselves: reason about a recursive      *)
(* function.  Each is shown to satisfy its own equation, and what follows  *)
(* from that is shown by induction, put as a fact about a set of numbers.  *)
(***************************************************************************)

(* A set of natural numbers has a least element.                           *)
LEMMA LeastNat ==
  ASSUME NEW T, T \subseteq Nat, T # {}
  PROVE  \E n \in T : \A m \in T : n <= m
<1> DEFINE R == OpToRel(<, Nat)
<1>1. PICK n \in T : \A m \in T : ~(<<m, n>> \in R)
  <2>1. IsWellFoundedOn(R, Nat)
    BY NatLessThanWellFounded
  <2> HIDE DEF R
  <2> QED
    BY <2>1, WFMin, Zenon
<1>2. ASSUME NEW m \in T PROVE n <= m
  <2>1. m \in Nat /\ n \in Nat
    OBVIOUS
  <2>2. m < n => <<m, n>> \in R
    BY <2>1 DEF OpToRel
  <2>3. ~(m < n)
    BY <1>1, <2>2
  <2> QED
    BY <2>1, <2>3
<1> QED
  BY <1>2

(* Induction over the natural numbers.                                     *)
LEMMA Induction ==
  ASSUME NEW T, 0 \in T, \A n \in Nat : n \in T => n + 1 \in T
  PROVE  \A n \in Nat : n \in T
<1> DEFINE Bad == Nat \ T
<1> SUFFICES ASSUME Bad # {} PROVE FALSE
  OBVIOUS
<1>1. PICK n \in Bad : \A m \in Bad : n <= m
  <2>1. Bad \subseteq Nat
    OBVIOUS
  <2> HIDE DEF Bad
  <2> QED
    BY <2>1, LeastNat
<1>2. n \in Nat \ {0} /\ n - 1 \in Nat /\ n - 1 \notin Bad
  BY <1>1
<1> QED
  BY <1>1, <1>2

(* The functions that start with a at 0 and go on, up to n, by a step: a    *)
(* function from pairs of an index and the value before it.                *)
Steps(S, n) == [(1 .. n) \X S -> S]
Recursion(S, a, n, step) ==
  {f \in [0 .. n -> S] : f[0] = a /\ \A i \in 1 .. n : f[i] = step[<<i, f[i - 1]>>]}

(* There is such a function.                                               *)
LEMMA RecursionExists ==
  ASSUME NEW S, NEW a \in S, NEW n \in Nat, NEW step \in Steps(S, n)
  PROVE  \E f : f \in Recursion(S, a, n, step)
<1> DEFINE Good(f, k) == /\ f \in [0 .. k -> S] /\ f[0] = a
                         /\ \A i \in 1 .. k : f[i] = step[<<i, f[i - 1]>>]
           T == {k \in Nat : k <= n => \E f : Good(f, k)}
<1>1. 0 \in T
  <2> DEFINE f == [i \in 0 .. 0 |-> a]
  <2>1. Good(f, 0)
    OBVIOUS
  <2> QED
    BY <2>1
<1>2. \A k \in Nat : k \in T => k + 1 \in T
  <2> HIDE DEF Good
  <2> SUFFICES ASSUME NEW k \in Nat, k \in T, k + 1 <= n
               PROVE  \E f : Good(f, k + 1)
    OBVIOUS
  <2>1. PICK f : Good(f, k)
    OBVIOUS
  <2> USE DEF Good
  <2> DEFINE v == step[<<k + 1, f[k]>>]
             h == [i \in 0 .. k + 1 |-> IF i <= k THEN f[i] ELSE v]
  <2>2. v \in S
    <3>1. f[k] \in S /\ k + 1 \in 1 .. n
      BY <2>1
    <3>2. <<k + 1, f[k]>> \in (1 .. n) \X S
      BY <3>1
    <3> QED
      BY <3>2 DEF Steps
  <2>3. /\ h \in [0 .. k + 1 -> S] /\ h[k + 1] = v
        /\ \A i \in 0 .. k : h[i] = f[i]
    BY <2>1, <2>2
  <2> HIDE DEF h, v
  <2>4. \A i \in 1 .. k + 1 : h[i] = step[<<i, h[i - 1]>>]
    <3> SUFFICES ASSUME NEW i \in 1 .. k + 1 PROVE h[i] = step[<<i, h[i - 1]>>]
      OBVIOUS
    <3>1. h[i - 1] = f[i - 1]
      BY <2>3
    <3>2. CASE i = k + 1
      BY <2>3, <3>1, <3>2 DEF v
    <3>3. CASE i \in 1 .. k
      BY <2>1, <2>3, <3>1, <3>3
    <3> QED
      BY <3>2, <3>3
  <2>5. Good(h, k + 1)
    BY <2>1, <2>3, <2>4
  <2> QED
    BY <2>5
<1>3. PICK f : Good(f, n)
  <2> HIDE DEF T
  <2>1. n \in T
    BY <1>1, <1>2, Induction
  <2> QED
    BY <2>1 DEF T
<1> QED
  BY <1>3 DEF Recursion


(* The greatest element of a set of numbers up to n.                       *)
LEMMA GreatestUpTo ==
  ASSUME NEW n \in Nat, NEW M, M \subseteq 0 .. n, M # {}
  PROVE  \E i \in M : \A j \in M : j <= i
<1> DEFINE T == {n - i : i \in M}
<1>1. T \subseteq Nat /\ T # {}
  <2>1. \A i \in M : n - i \in Nat
    BY n \in Nat
  <2> QED
    BY <2>1
<1>2. PICK k \in T : \A m \in T : k <= m
  <2> HIDE DEF T
  <2> QED
    BY <1>1, LeastNat
<1>3. PICK i \in M : k = n - i
  OBVIOUS
<1>4. \A j \in M : n - i <= n - j
  BY <1>2, <1>3
<1>5. \A j \in M : j <= i
  BY <1>4
<1> QED
  BY <1>5
-----------------------------------------------------------------------------
Entries == [id : Items, char_count : CharCounts]

(* The loop packs some of the queue, at least none and at most all of it.  *)
LEMMA FittingType ==
  ASSUME NEW q \in Seq(Entries)
  PROVE  Fitting(q) \in 0 .. Len(q)
<1> DEFINE n == Len(q)
           Sums(f) == f = [i \in 0 .. n |-> IF i = 0 THEN 0 ELSE f[i - 1] + q[i].char_count]
<1>1. n \in Nat /\ \A i \in 1 .. n : q[i].char_count \in Nat
  <2>1. n \in Nat /\ \A i \in 1 .. n : q[i] \in Entries
    OBVIOUS
  <2>2. \A e \in Entries : e.char_count \in Nat
    BY PipelineAssumption DEF Entries
  <2> QED
    BY <2>1, <2>2
<1>2. \E f : Sums(f)
  <2> DEFINE step == [p \in (1 .. n) \X Nat |-> p[2] + q[p[1]].char_count]
  <2>1. step \in Steps(Nat, n)
    BY <1>1 DEF Steps
  <2>2. \A i \in 1 .. n, k \in Nat : step[<<i, k>>] = k + q[i].char_count
    OBVIOUS
  <2> HIDE DEF step, n, Sums
  <2>3. PICK f : f \in Recursion(Nat, 0, n, step)
    BY <1>1, <2>1, RecursionExists
  <2> USE DEF Recursion
  <2>4. \A i \in 0 .. n : f[i] = IF i = 0 THEN 0 ELSE f[i - 1] + q[i].char_count
    <3> SUFFICES ASSUME NEW i \in 0 .. n, i # 0 PROVE f[i] = f[i - 1] + q[i].char_count
      BY <2>3
    <3>1. i \in 1 .. n /\ f[i - 1] \in Nat
      BY <1>1, <2>3
    <3> QED
      BY <2>2, <2>3, <3>1
  <2>5. f = [i \in 0 .. n |-> f[i]]
    BY <2>3
  <2>6. Sums(f)
    BY <2>4, <2>5 DEF Sums
  <2> QED
    BY <2>6
<1>3. CharsUpTo(q)[0] = 0
  <2>1. CharsUpTo(q) = CHOOSE f : Sums(f)
    BY DEF CharsUpTo
  <2>2. Sums(CharsUpTo(q))
    <3> HIDE DEF Sums
    <3> QED
      BY <1>2, <2>1
  <2> QED
    BY <1>1, <2>2
<1> DEFINE M == {i \in 0 .. n : CharsUpTo(q)[i] <= RateLimit}
<1>4. 0 \in M /\ M \subseteq 0 .. n
  BY <1>1, <1>3, PipelineAssumption
<1>5. \E i \in M : \A j \in M : j <= i
  <2> HIDE DEF M, n
  <2> QED
    BY <1>1, <1>4, GreatestUpTo
<1>6. Fitting(q) = CHOOSE i \in M : \A j \in M : j <= i
  BY DEF Fitting
<1> HIDE DEF M, n
<1>7. Fitting(q) \in M
  BY <1>5, <1>6
<1> QED
  BY <1>4, <1>7 DEF n
-----------------------------------------------------------------------------
Registered == [addr : Clients, age : 0 .. KeepAlive + 1]
Distinct(q) == \A i, j \in DOMAIN q : q[i].addr = q[j].addr => i = j

(* Pruning keeps the list one of clients, each registered once.            *)
LEMMA KeptType ==
  ASSUME NEW q \in Seq(Registered), Distinct(q)
  PROVE  Kept(q) \in Seq(Registered) /\ Distinct(Kept(q))
<1> DEFINE n == Len(q)
           S == Seq(Registered)
           gone == Erased(q)
           Keeps(f) == f = [i \in 0 .. n |->
                         IF i = 0 THEN <<>>
                         ELSE IF i \in gone THEN f[i - 1] ELSE Append(f[i - 1], q[i])]
<1>1. n \in Nat /\ \A i \in 1 .. n : q[i] \in Registered
  OBVIOUS
<1>2. \E f : Keeps(f)
  <2> DEFINE step == [p \in (1 .. n) \X S |->
                        IF p[1] \in gone THEN p[2] ELSE Append(p[2], q[p[1]])]
  <2>1. step \in Steps(S, n)
    <3> SUFFICES ASSUME NEW p \in (1 .. n) \X S
                 PROVE  (IF p[1] \in gone THEN p[2] ELSE Append(p[2], q[p[1]])) \in S
      BY DEF Steps
    <3>1. p[1] \in 1 .. n /\ p[2] \in Seq(Registered) /\ q[p[1]] \in Registered
      BY <1>1
    <3>2. Append(p[2], q[p[1]]) \in Seq(Registered)
      BY <3>1
    <3> QED
      BY <3>1, <3>2
  <2>2. \A i \in 1 .. n, k \in S :
          step[<<i, k>>] = IF i \in gone THEN k ELSE Append(k, q[i])
    OBVIOUS
  <2>3. <<>> \in S
    OBVIOUS
  <2> HIDE DEF step, n, S, gone, Keeps
  <2>4. PICK f : f \in Recursion(S, <<>>, n, step)
    BY <1>1, <2>1, <2>3, RecursionExists
  <2> USE DEF Recursion
  <2>5. \A i \in 0 .. n : f[i] = IF i = 0 THEN <<>>
                                 ELSE IF i \in gone THEN f[i - 1] ELSE Append(f[i - 1], q[i])
    <3> SUFFICES ASSUME NEW i \in 0 .. n, i # 0
                 PROVE  f[i] = IF i \in gone THEN f[i - 1] ELSE Append(f[i - 1], q[i])
      BY <2>4
    <3>1. i \in 1 .. n /\ i - 1 \in 0 .. n
      BY <1>1
    <3>2. f[i - 1] \in S
      BY <2>4, <3>1
    <3> QED
      BY <2>2, <2>4, <3>1, <3>2
  <2>6. f = [i \in 0 .. n |-> f[i]]
    BY <2>4
  <2>7. Keeps(f)
    BY <2>5, <2>6 DEF Keeps
  <2> QED
    BY <2>7
<1> DEFINE kept == CHOOSE f : Keeps(f)
<1>3. Keeps(kept)
  <2> HIDE DEF Keeps
  <2> QED
    BY <1>2
<1>4. Kept(q) = kept[n]
  BY DEF Kept
<1> HIDE DEF kept
<1> DEFINE Good(i) == /\ kept[i] \in Seq(Registered)
                      /\ Distinct(kept[i])
                      /\ \A a \in DOMAIN kept[i] : \E b \in 1 .. i : kept[i][a] = q[b]
           T == {i \in Nat : i <= n => Good(i)}
<1>5. 0 \in T
  <2>1. kept[0] = <<>>
    BY <1>1, <1>3
  <2>2. Distinct(<<>>)
    BY DEF Distinct
  <2>3. Good(0)
    <3> HIDE DEF n, gone, Keeps, S
    <3> QED
      BY <2>1, <2>2
  <2> HIDE DEF Good
  <2> QED
    BY <2>3
<1>6. ASSUME NEW i \in Nat, i \in T PROVE i + 1 \in T
  <2> SUFFICES ASSUME i + 1 <= n PROVE Good(i + 1)
    OBVIOUS
  <2>1. Good(i)
    BY <1>1, <1>6
  <2>2. i + 1 \in 1 .. n /\ i + 1 - 1 = i
    BY <1>1
  <2>3. kept[i + 1] = IF i + 1 \in gone THEN kept[i] ELSE Append(kept[i], q[i + 1])
    <3>1. i + 1 \in 0 .. n /\ i + 1 # 0
      BY <2>2
    <3> HIDE DEF gone, T, S, Good, kept, n
    <3>2. kept[i + 1] = IF i + 1 = 0 THEN <<>>
            ELSE IF i + 1 \in gone THEN kept[i + 1 - 1] ELSE Append(kept[i + 1 - 1], q[i + 1])
      <4>1. \A j \in 0 .. n : kept[j] = IF j = 0 THEN <<>>
              ELSE IF j \in gone THEN kept[j - 1] ELSE Append(kept[j - 1], q[j])
        BY <1>3
      <4> HIDE DEF Keeps
      <4> QED
        BY <3>1, <4>1
    <3> QED
      BY <2>2, <3>1, <3>2
  <2>4. CASE i + 1 \in gone
    BY <2>1, <2>3, <2>4
  <2>5. CASE i + 1 \notin gone
    <3> DEFINE k == kept[i]
               e == q[i + 1]
    <3>1. kept[i + 1] = Append(k, e)
      BY <2>3, <2>5
    <3>2. k \in Seq(Registered) /\ e \in Registered
      BY <1>1, <2>1, <2>2
    <3>3. \A a \in DOMAIN k : k[a].addr # e.addr
      <4> SUFFICES ASSUME NEW a \in DOMAIN k, k[a].addr = e.addr PROVE FALSE
        OBVIOUS
      <4>1. PICK b \in 1 .. i : k[a] = q[b]
        BY <2>1
      <4>2. b \in DOMAIN q /\ i + 1 \in DOMAIN q /\ b # i + 1
        BY <2>2
      <4> QED
        BY <4>1, <4>2 DEF Distinct
    <3>4. \A a \in DOMAIN k : \E b \in 1 .. i : k[a] = q[b]
      BY <2>1
    <3>5. \A a, b \in DOMAIN k : k[a].addr = k[b].addr => a = b
      BY <2>1 DEF Distinct
    <3> HIDE DEF k, e, T, Good
    <3>6. /\ Append(k, e) \in Seq(Registered)
          /\ DOMAIN Append(k, e) = 1 .. Len(k) + 1 /\ DOMAIN k = 1 .. Len(k)
          /\ Len(k) \in Nat
          /\ \A a \in 1 .. Len(k) : Append(k, e)[a] = k[a]
          /\ Append(k, e)[Len(k) + 1] = e
      BY <3>2
    <3>7. Distinct(Append(k, e))
      BY <3>3, <3>5, <3>6 DEF Distinct
    <3>8. \A a \in DOMAIN Append(k, e) : \E b \in 1 .. i + 1 : Append(k, e)[a] = q[b]
      BY <3>4, <3>6 DEF e
    <3> QED
      BY <3>1, <3>6, <3>7, <3>8 DEF Good
  <2> QED
    BY <2>4, <2>5
<1>7. n \in T
  <2> HIDE DEF T, n
  <2> QED
    BY <1>1, <1>5, <1>6, Induction
<1> QED
  BY <1>1, <1>4, <1>7
-----------------------------------------------------------------------------
(* The prefixes of a sequence of sequences, each joined into one.          *)
Joins(S, B) ==
  {g \in [0 .. Len(B) -> Seq(S)] :
     g[0] = <<>> /\ \A i \in 1 .. Len(B) : g[i] = g[i - 1] \o B[i]}

LEMMA JoinsExist ==
  ASSUME NEW S, NEW B \in Seq(Seq(S))
  PROVE  \E g : g \in Joins(S, B)
<1> DEFINE n == Len(B)
           T == Seq(S)
           step == [p \in (1 .. n) \X T |-> p[2] \o B[p[1]]]
<1>1. n \in Nat /\ <<>> \in T
  OBVIOUS
<1>2. step \in Steps(T, n)
  <2> SUFFICES ASSUME NEW p \in (1 .. n) \X T PROVE p[2] \o B[p[1]] \in T
    BY DEF Steps
  <2>1. p[2] \in Seq(S) /\ B[p[1]] \in Seq(S)
    BY <1>1
  <2> QED
    BY <2>1, ConcatProperties
<1>3. \A i \in 1 .. n, k \in T : step[<<i, k>>] = k \o B[i]
  OBVIOUS
<1> HIDE DEF n, T, step
<1>4. PICK g : g \in Recursion(T, <<>>, n, step)
  BY <1>1, <1>2, RecursionExists
<1>5. g \in [0 .. n -> T] /\ g[0] = <<>>
  BY <1>4 DEF Recursion
<1>6. ASSUME NEW i \in 1 .. n PROVE g[i] = g[i - 1] \o B[i]
  <2>1. i - 1 \in 0 .. n
    BY <1>1
  <2>2. g[i - 1] \in T
    BY <1>5, <2>1
  <2>3. g[i] = step[<<i, g[i - 1]>>]
    BY <1>4 DEF Recursion
  <2> QED
    BY <1>3, <2>2, <2>3
<1> QED
  BY <1>5, <1>6 DEF Joins, n, T

(* Flattening gives the last of them.                                      *)
LEMMA FlattenIsLast ==
  ASSUME NEW S, NEW B \in Seq(Seq(S)), NEW g \in Joins(S, B)
  PROVE  FlattenSeq(B) = g[Len(B)]
<1> DEFINE n == Len(B)
<1>1. n \in Nat /\ g \in [0 .. n -> Seq(S)] /\ g[0] = <<>>
      /\ \A i \in 1 .. n : g[i] = g[i - 1] \o B[i]
  <2>1. n \in Nat
    OBVIOUS
  <2> QED
    BY <2>1 DEF Joins
<1>2. CASE n = 0
  <2>1. B = <<>>
    BY <1>2
  <2> QED
    BY <1>1, <1>2, <2>1 DEF FlattenSeq
<1>3. CASE n # 0
  <2> DEFINE Flat(f) == f = [i \in 1 .. n |-> IF i = 1 THEN B[i] ELSE f[i - 1] \o B[i]]
             flatten == CHOOSE f : Flat(f)
             c == [i \in 1 .. n |-> g[i]]
  <2>1. FlattenSeq(B) = flatten[n]
    BY <1>3 DEF FlattenSeq
  <2>2. \A i \in 1 .. n : c[i] = IF i = 1 THEN B[i] ELSE c[i - 1] \o B[i]
    <3> SUFFICES ASSUME NEW i \in 1 .. n
                 PROVE  g[i] = IF i = 1 THEN B[i] ELSE g[i - 1] \o B[i]
      BY <1>1
    <3>1. B[i] \in Seq(S)
      OBVIOUS
    <3>2. <<>> \o B[i] = B[i]
      BY <3>1, ConcatEmptySeq
    <3>3. g[i] = g[i - 1] \o B[i]
      BY <1>1
    <3>4. i = 1 => i - 1 = 0
      OBVIOUS
    <3> HIDE DEF flatten, Flat, c, n
    <3> QED
      BY <1>1, <3>2, <3>3, <3>4
  <2>3. Flat(c)
    <3>1. c = [i \in 1 .. n |-> c[i]]
      OBVIOUS
    <3> HIDE DEF c
    <3> QED
      BY <2>2, <3>1
  <2>4. Flat(flatten)
    <3> HIDE DEF Flat, c
    <3> QED
      BY <2>3
  <2> HIDE DEF flatten
  <2>5. \A i \in 1 .. n : flatten[i] = IF i = 1 THEN B[i] ELSE flatten[i - 1] \o B[i]
    BY <2>4
  <2> HIDE DEF c, Flat
  <2> DEFINE T == {i \in Nat : i + 1 <= n => flatten[i + 1] = c[i + 1]}
  <2>6. 0 \in T
    BY <1>1, <1>3, <2>2, <2>5
  <2>7. ASSUME NEW i \in Nat, i \in T PROVE i + 1 \in T
    <3> SUFFICES ASSUME i + 2 <= n PROVE flatten[i + 2] = c[i + 2]
      OBVIOUS
    <3>1. PICK j \in 1 .. n : j = i + 2 /\ j # 1 /\ j - 1 = i + 1
      BY <1>1
    <3>2. flatten[j - 1] = c[j - 1]
      BY <1>1, <2>7, <3>1
    <3>3. flatten[j] = flatten[j - 1] \o B[j]
      BY <2>5, <3>1
    <3>4. c[j] = c[j - 1] \o B[j]
      BY <2>2, <3>1
    <3> QED
      BY <3>1, <3>2, <3>3, <3>4
  <2>8. n - 1 \in T
    <3>1. \A i \in Nat : i \in T
      <4> HIDE DEF T
      <4> QED
        BY <2>6, <2>7, Induction
    <3>2. n - 1 \in Nat
      BY <1>1, <1>3
    <3> HIDE DEF T, n
    <3> QED
      BY <3>1, <3>2
  <2>9. flatten[n] = c[n]
    BY <1>1, <2>8
  <2> QED
    BY <1>1, <1>3, <2>1, <2>9 DEF c
<1> QED
  BY <1>2, <1>3

(* What is flattened is a sequence of what the parts hold.                 *)
LEMMA FlattenType ==
  ASSUME NEW S, NEW B \in Seq(Seq(S))
  PROVE  FlattenSeq(B) \in Seq(S)
<1>1. PICK g : g \in Joins(S, B)
  BY JoinsExist
<1>2. FlattenSeq(B) = g[Len(B)]
  BY <1>1, FlattenIsLast
<1>3. g \in [0 .. Len(B) -> Seq(S)] /\ Len(B) \in 0 .. Len(B)
  BY <1>1 DEF Joins
<1> QED
  BY <1>2, <1>3

(* A part added at the end is added at the end of the whole.               *)
LEMMA FlattenAppend ==
  ASSUME NEW S, NEW B \in Seq(Seq(S)), NEW x \in Seq(S)
  PROVE  FlattenSeq(Append(B, x)) = FlattenSeq(B) \o x
<1> DEFINE n == Len(B)
           C == Append(B, x)
<1>1. PICK g : g \in Joins(S, B)
  BY JoinsExist
<1>2. n \in Nat /\ g \in [0 .. n -> Seq(S)] /\ g[0] = <<>>
      /\ \A i \in 1 .. n : g[i] = g[i - 1] \o B[i]
  <2>1. n \in Nat
    OBVIOUS
  <2> QED
    BY <1>1, <2>1 DEF Joins
<1>3. /\ C \in Seq(Seq(S)) /\ Len(C) = n + 1 /\ C[n + 1] = x
      /\ \A i \in 1 .. n : C[i] = B[i]
  OBVIOUS
<1> DEFINE last == g[n] \o x
           h == [i \in 0 .. n + 1 |-> IF i <= n THEN g[i] ELSE last]
<1>4. last \in Seq(S)
  <2>1. g[n] \in Seq(S)
    BY <1>2
  <2> QED
    BY <2>1, ConcatProperties
<1> HIDE DEF C, last
<1>5. /\ h \in [0 .. n + 1 -> Seq(S)] /\ h[n + 1] = last
      /\ \A i \in 0 .. n : h[i] = g[i]
  BY <1>2, <1>4
<1> HIDE DEF h, n
<1>6. ASSUME NEW i \in 1 .. n + 1 PROVE h[i] = h[i - 1] \o C[i]
  <2>1. i - 1 \in 0 .. n
    BY <1>2
  <2>2. h[i - 1] = g[i - 1]
    BY <1>5, <2>1
  <2>3. CASE i = n + 1
    <3>1. h[i] = g[n] \o x /\ C[i] = x /\ i - 1 = n
      BY <1>2, <1>3, <1>5, <2>3 DEF last
    <3> QED
      BY <2>2, <3>1
  <2>4. CASE i # n + 1
    <3>1. i \in 1 .. n /\ i \in 0 .. n
      BY <1>2, <2>4
    <3>2. h[i] = g[i] /\ C[i] = B[i] /\ g[i] = g[i - 1] \o B[i]
      BY <1>2, <1>3, <1>5, <3>1
    <3> QED
      BY <2>2, <3>2
  <2> QED
    BY <2>3, <2>4
<1>7. h \in Joins(S, C)
  BY <1>2, <1>3, <1>5, <1>6 DEF Joins
<1>8. FlattenSeq(C) = h[n + 1]
  BY <1>3, <1>7, FlattenIsLast
<1>9. FlattenSeq(B) = g[n]
  BY <1>1, FlattenIsLast DEF n
<1> QED
  BY <1>5, <1>8, <1>9 DEF C, last, n

(* The whole starts with its first part.                                   *)
LEMMA FlattenHead ==
  ASSUME NEW S, NEW B \in Seq(Seq(S)), B # <<>>
  PROVE  FlattenSeq(B) = Head(B) \o FlattenSeq(Tail(B))
<1> DEFINE R == Tail(B)
           n == Len(R)
           x == Head(B)
<1>1. /\ R \in Seq(Seq(S)) /\ Len(B) = n + 1 /\ n \in Nat /\ x \in Seq(S) /\ x = B[1]
      /\ \A i \in 1 .. n : R[i] = B[i + 1]
  OBVIOUS
<1> HIDE DEF R, x
<1>2. PICK g : g \in Joins(S, R)
  BY <1>1, JoinsExist
<1>3. g \in [0 .. n -> Seq(S)] /\ g[0] = <<>>
      /\ \A i \in 1 .. n : g[i] = g[i - 1] \o R[i]
  BY <1>2 DEF Joins
<1> DEFINE h == [i \in 0 .. n + 1 |-> IF i = 0 THEN <<>> ELSE x \o g[i - 1]]
<1>4. \A i \in 0 .. n : x \o g[i] \in Seq(S)
  BY <1>1, <1>3, ConcatProperties
<1>5. /\ h \in [0 .. n + 1 -> Seq(S)] /\ h[0] = <<>>
      /\ \A i \in 1 .. n + 1 : h[i] = x \o g[i - 1]
  <2>1. \A i \in 0 .. n + 1 : i # 0 => i - 1 \in 0 .. n
    BY <1>1
  <2>2. <<>> \in Seq(S)
    OBVIOUS
  <2> HIDE DEF n
  <2>3. \A i \in 1 .. n + 1 : i \in 0 .. n + 1 /\ i # 0
    BY <1>1
  <2>4. 0 \in 0 .. n + 1
    BY <1>1
  <2>5. h \in [0 .. n + 1 -> Seq(S)]
    BY <1>4, <2>1, <2>2
  <2> QED
    BY <2>3, <2>4, <2>5
<1> HIDE DEF h, n
<1>6. ASSUME NEW i \in 1 .. n + 1 PROVE h[i] = h[i - 1] \o B[i]
  <2>1. CASE i = 1
    <3>1. PICK j \in 1 .. n + 1 : j = 1 /\ j - 1 = 0
      BY <1>1
    <3>3. h[j] = x \o g[j - 1] /\ h[0] = <<>> /\ B[j] = x
      BY <1>1, <1>5, <3>1
    <3>2. x \o <<>> = x /\ <<>> \o x = x
      BY <1>1, ConcatEmptySeq
    <3> QED
      BY <1>3, <2>1, <3>1, <3>2, <3>3
  <2>2. CASE i # 1
    <3>1. i - 1 \in 1 .. n /\ i - 1 \in 1 .. n + 1 /\ i - 1 - 1 \in 0 .. n /\ i - 1 + 1 = i
      BY <1>1, <2>2
    <3>2. h[i] = x \o g[i - 1] /\ h[i - 1] = x \o g[i - 1 - 1]
      BY <1>5, <3>1
    <3>3. g[i - 1] = g[i - 1 - 1] \o B[i]
      BY <1>1, <1>3, <3>1
    <3>4. g[i - 1 - 1] \in Seq(S) /\ B[i] \in Seq(S)
      BY <1>1, <1>3, <3>1
    <3>5. (x \o g[i - 1 - 1]) \o B[i] = x \o (g[i - 1 - 1] \o B[i])
      <4>1. x \in Seq(S)
        BY <1>1
      <4>2. \A s, t \in Seq(S) : (x \o s) \o t = x \o (s \o t)
        BY <4>1
      <4> QED
        BY <3>4, <4>2
    <3> QED
      BY <3>2, <3>3, <3>5
  <2> QED
    BY <2>1, <2>2
<1>7. h \in Joins(S, B)
  BY <1>1, <1>5, <1>6 DEF Joins
<1>8. FlattenSeq(B) = h[n + 1]
  BY <1>1, <1>7, FlattenIsLast
<1>9. FlattenSeq(R) = g[n]
  BY <1>1, <1>2, FlattenIsLast DEF n
<1>10. h[n + 1] = x \o g[n]
  <2>1. PICK i \in 1 .. n + 1 : i = n + 1 /\ i - 1 = n
    BY <1>1
  <2>2. h[i] = x \o g[i - 1]
    BY <1>5
  <2> QED
    BY <2>1, <2>2
<1> QED
  BY <1>8, <1>9, <1>10 DEF R, x
-----------------------------------------------------------------------------
QueuesOK ==
  /\ messages \in Seq(Entries)
  /\ log_bundle \in Seq(Items) /\ msg \in Seq(Items)
  /\ taken \in Seq(Items) /\ handed \subseteq Items
  /\ bundles \in Seq(Seq(Items) \ {<<>>})
  /\ sender \in {"wait", "pop", "send"} /\ (sender = "send" <=> msg # <<>>)
  /\ num_logged \in 0 .. MaxLogged
ClientsOK == clients \in Seq(Registered) /\ Distinct(clients)
TimesOK ==
  /\ bundle_age \in 0 .. BundlePeriod
  /\ receiver \in {"recv", "prune"} /\ prune_due \in BOOLEAN
  /\ t_age \in 0 .. PrunePeriod + 1 /\ prune_age \in 0 .. PrunePeriod + 1

LEMMA TypeParts == TypeOK <=> QueuesOK /\ ClientsOK /\ TimesOK
BY DEF TypeOK, QueuesOK, ClientsOK, TimesOK, Entries, Registered, Distinct

(* From the check to the end of the send a list of clients that is empty   *)
(* was emptied by pruning.                                                 *)
EmptiedByPrune == (sender # "wait" /\ clients = <<>>) => pruned

Inv == QueuesOK /\ ClientsOK /\ TimesOK /\ PopFindsBundle /\ EmptiedByPrune

LEMMA InvInit == Init => Inv
<1> SUFFICES ASSUME Init PROVE Inv
  OBVIOUS
<1>1. QueuesOK
  BY PipelineAssumption DEF Init, QueuesOK
<1>2. ClientsOK
  BY DEF Init, ClientsOK, Distinct
<1>3. TimesOK
  <2>1. PrunePeriod + 1 \in Nat /\ BundlePeriod \in Nat
    BY PipelineAssumption
  <2>2. 0 \in 0 .. PrunePeriod + 1 /\ BundlePeriod \in 0 .. BundlePeriod
    BY <2>1
  <2> QED
    BY <2>2 DEF Init, TimesOK
<1> QED
  BY <1>1, <1>2, <1>3 DEF Init, Inv, PopFindsBundle, EmptiedByPrune

(* A numbered message at the end of the queue.                             *)
LEMMA InvAddMessage ==
  ASSUME Inv, NEW k \in CharCounts, AddMessage(k)
  PROVE  Inv'
<1>1. num_logged' \in 0 .. MaxLogged /\ num_logged' \in Items
  BY PipelineAssumption DEF Inv, QueuesOK, AddMessage, Items
<1>2. [id |-> num_logged', char_count |-> k] \in Entries
  BY <1>1 DEF Entries
<1>3. messages' \in Seq(Entries)
  BY <1>2 DEF Inv, QueuesOK, AddMessage
<1>4. QueuesOK'
  BY <1>1, <1>3 DEF history, Inv, QueuesOK, AddMessage, log_thread, sending
<1>5. ClientsOK' /\ TimesOK'
  BY DEF Inv, ClientsOK, TimesOK, Distinct, AddMessage, log_thread, receiving
<1> QED
  BY <1>4, <1>5 DEF Inv, PopFindsBundle, EmptiedByPrune, AddMessage, sending

(* The ids of a queue of entries, and of a stretch of it.                  *)
LEMMA IdsType ==
  ASSUME NEW q \in Seq(Entries)
  PROVE  Ids(q) \in Seq(Items) /\ Len(Ids(q)) = Len(q)
<1>1. \A i \in 1 .. Len(q) : q[i] \in Entries
  OBVIOUS
<1>2. \A e \in Entries : e.id \in Items
  BY DEF Entries
<1>3. Len(q) \in Nat /\ DOMAIN q = 1 .. Len(q)
  OBVIOUS
<1>4. Ids(q) \in [1 .. Len(q) -> Items]
  BY <1>1, <1>2, <1>3 DEF Ids
<1> QED
  BY <1>3, <1>4

LEMMA Stretch ==
  ASSUME NEW S, NEW q \in Seq(S), NEW m \in 1 .. Len(q) + 1, NEW n \in 0 .. Len(q)
  PROVE  SubSeq(q, m, n) \in Seq(S)
<1>1. \A i \in m .. n : q[i] \in S
  OBVIOUS
<1> QED
  BY <1>1, SubSeqProperties

LEMMA InvBundle ==
  ASSUME Inv, Bundle
  PROVE  Inv'
<1>1. messages \in Seq(Entries) /\ Fitting(messages) \in 0 .. Len(messages)
  BY FittingType DEF Inv, QueuesOK
<1>2. /\ Fitting(messages) + 1 \in 1 .. Len(messages) + 1
      /\ 1 \in 1 .. Len(messages) + 1 /\ Len(messages) \in 0 .. Len(messages)
  BY <1>1
<1>3. messages' \in Seq(Entries)
  BY <1>1, <1>2, Stretch DEF Bundle, LeftBehind
<1>4. SubSeq(messages, 1, Fitting(messages)) \in Seq(Entries)
  BY <1>1, <1>2, Stretch
<1>5. log_bundle' \in Seq(Items)
  BY <1>4, IdsType DEF Bundle
<1>6. QueuesOK'
  BY <1>3, <1>5 DEF history, Inv, QueuesOK, Bundle, sending
<1>7. ClientsOK'
  BY DEF Inv, ClientsOK, Distinct, Bundle
<1>8. TimesOK'
  BY PipelineAssumption DEF Inv, TimesOK, Bundle, receiving
<1> QED
  BY <1>6, <1>7, <1>8 DEF Inv, PopFindsBundle, EmptiedByPrune, Bundle, sending

LEMMA InvHandOver ==
  ASSUME Inv, HandOver
  PROVE  Inv'
<1>1. bundles' \in Seq(Seq(Items) \ {<<>>}) /\ bundles' # <<>>
  <2>1. log_bundle \in Seq(Items) \ {<<>>} /\ bundles \in Seq(Seq(Items) \ {<<>>})
    BY DEF Inv, QueuesOK, HandOver
  <2> QED
    BY <2>1 DEF HandOver
<1>2. QueuesOK'
  BY <1>1 DEF history, Inv, QueuesOK, HandOver, sending
<1>3. ClientsOK' /\ TimesOK'
  BY DEF Inv, ClientsOK, TimesOK, Distinct, HandOver, receiving
<1> QED
  BY <1>1, <1>2, <1>3 DEF Inv, PopFindsBundle, EmptiedByPrune, HandOver, sending

LEMMA InvSender ==
  ASSUME Inv, Sender
  PROVE  Inv'
<1>1. CASE SenderCheck
  <2>1. QueuesOK'
    BY <1>1 DEF history, Inv, QueuesOK, SenderCheck, log_thread
  <2>2. ClientsOK' /\ TimesOK'
    BY <1>1 DEF Inv, ClientsOK, TimesOK, Distinct, SenderCheck, log_thread, receiving
  <2> QED
    BY <1>1, <2>1, <2>2 DEF Inv, PopFindsBundle, EmptiedByPrune, SenderCheck, ReadyToSend
<1>2. CASE SenderPop
  <2>1. bundles \in Seq(Seq(Items) \ {<<>>}) /\ bundles # <<>>
    BY <1>2 DEF Inv, QueuesOK, PopFindsBundle, SenderPop
  <2>2. Tail(bundles) \in Seq(Seq(Items) \ {<<>>}) /\ Head(bundles) \in Seq(Items) \ {<<>>}
    BY <2>1
  <2>3. QueuesOK'
    BY <1>2, <2>2 DEF history, Inv, QueuesOK, SenderPop, log_thread
  <2>4. ClientsOK' /\ TimesOK'
    BY <1>2 DEF Inv, ClientsOK, TimesOK, Distinct, SenderPop, log_thread, receiving
  <2> QED
    BY <1>2, <2>3, <2>4 DEF Inv, PopFindsBundle, EmptiedByPrune, SenderPop
<1>3. CASE SenderSend
  <2>1. taken' \in Seq(Items) /\ handed' \subseteq Items
    <3>1. msg \in Seq(Items) /\ taken \in Seq(Items) /\ handed \subseteq Items
      BY DEF Inv, QueuesOK
    <3>2. taken' = taken \o msg /\ handed' \subseteq handed \cup ToSet(msg)
      BY <1>3 DEF SenderSend
    <3>3. ToSet(msg) \subseteq Items
      <4> HIDE DEF Items
      <4> QED
        BY <3>1 DEF ToSet
    <3> HIDE DEF Items
    <3> QED
      BY <3>1, <3>2, <3>3, ConcatProperties
  <2>2. QueuesOK'
    BY <1>3, <2>1 DEF Inv, QueuesOK, SenderSend, log_thread
  <2>3. ClientsOK' /\ TimesOK'
    BY <1>3 DEF Inv, ClientsOK, TimesOK, Distinct, SenderSend, log_thread, receiving
  <2> QED
    BY <1>3, <2>2, <2>3 DEF Inv, PopFindsBundle, EmptiedByPrune, SenderSend
<1> QED
  BY <1>1, <1>2, <1>3 DEF Sender

(* Hearing of a client registers it if it is not, and leaves the list with *)
(* at least one.                                                           *)
LEMMA HeardType ==
  ASSUME ClientsOK, NEW c \in Clients
  PROVE  Heard(c) \in Seq(Registered) /\ Distinct(Heard(c)) /\ Heard(c) # <<>>
<1> DEFINE e == NewClient(c)
           n == Len(clients)
<1>1. e \in Registered /\ e.addr = c
  BY PipelineAssumption DEF NewClient, Registered
<1>2. clients \in Seq(Registered) /\ n \in Nat /\ DOMAIN clients = 1 .. n
  BY DEF ClientsOK
<1>3. \A i, j \in 1 .. n : clients[i].addr = clients[j].addr => i = j
  BY <1>2 DEF ClientsOK, Distinct
<1> HIDE DEF e, n
<1>4. CASE Position(c) = {}
  <2>1. Heard(c) = Append(clients, e)
    BY <1>4 DEF Heard, e
  <2>2. \A i \in 1 .. n : clients[i].addr # c
    BY <1>2, <1>4 DEF Position
  <2>3. /\ Append(clients, e) \in Seq(Registered) /\ Append(clients, e) # <<>>
        /\ DOMAIN Append(clients, e) = 1 .. n + 1 /\ Append(clients, e)[n + 1] = e
        /\ \A i \in 1 .. n : Append(clients, e)[i] = clients[i]
    BY <1>1, <1>2 DEF n
  <2>4. Distinct(Append(clients, e))
    BY <1>1, <1>2, <1>3, <2>2, <2>3 DEF Distinct
  <2> QED
    BY <2>1, <2>3, <2>4
<1>5. CASE Position(c) # {}
  <2> DEFINE h == [i \in DOMAIN clients |-> IF i \in Position(c) THEN e ELSE clients[i]]
  <2>1. Heard(c) = h
    BY <1>5 DEF Heard, e
  <2>2. h \in [1 .. n -> Registered]
    BY <1>1, <1>2
  <2>3. \A i \in 1 .. n : h[i].addr = clients[i].addr
    BY <1>1, <1>2 DEF Position
  <2>4. DOMAIN h = 1 .. n /\ 1 .. n # {}
    BY <1>2, <1>5 DEF Position
  <2> HIDE DEF h
  <2>5. h \in Seq(Registered) /\ h # <<>>
    BY <1>2, <2>2, <2>4
  <2>6. Distinct(h)
    BY <1>3, <2>3, <2>4 DEF Distinct
  <2> QED
    BY <2>1, <2>5, <2>6
<1> QED
  BY <1>4, <1>5

LEMMA InvReceive ==
  ASSUME Inv, NEW c \in Clients, Receive(c)
  PROVE  Inv'
<1>1. ClientsOK' /\ clients' # <<>>
  BY HeardType DEF Inv, ClientsOK, Receive
<1>2. QueuesOK' /\ TimesOK'
  BY DEF history, Inv, QueuesOK, TimesOK, Receive, log_thread, sending
<1> QED
  BY <1>1, <1>2 DEF Inv, PopFindsBundle, EmptiedByPrune, Receive, sending

(* A list that pruning emptied has become shorter.                         *)
LEMMA InvPrune ==
  ASSUME Inv, Prune
  PROVE  Inv'
<1>1. ClientsOK'
  BY KeptType DEF Inv, ClientsOK, Prune
<1>2. QueuesOK'
  BY DEF history, Inv, QueuesOK, Prune, log_thread, sending
<1>3. TimesOK'
  <2>1. prune_due' \in BOOLEAN
    <3>1. (prune_age' > PrunePeriod) \in BOOLEAN
      OBVIOUS
    <3> QED
      BY <3>1, Zenon DEF Prune
  <2> QED
    BY <2>1, PipelineAssumption DEF Inv, TimesOK, Prune, log_thread
<1>4. clients' = <<>> => clients = <<>> \/ pruned'
  <2>1. clients' = <<>> => Len(clients') = 0
    OBVIOUS
  <2>2. clients # <<>> => Len(clients) > 0
    BY DEF Inv, ClientsOK
  <2> QED
    BY <2>1, <2>2 DEF Prune
<1>5. pruned => pruned'
  BY DEF Prune
<1> QED
  BY <1>1, <1>2, <1>3, <1>4, <1>5 DEF Inv, PopFindsBundle, EmptiedByPrune, Prune, sending

LEMMA InvElapse ==
  ASSUME Inv, Elapse
  PROVE  Inv'
<1> DEFINE n == Len(clients)
<1>1. clients \in Seq(Registered) /\ n \in Nat /\ DOMAIN clients = 1 .. n
  BY DEF Inv, ClientsOK
<1>2. ASSUME NEW i \in 1 .. n
      PROVE  clients'[i] \in Registered /\ clients'[i].addr = clients[i].addr
  <2>1. clients'[i] = [clients[i] EXCEPT !.age = Older(@, KeepAlive)]
    BY <1>1 DEF Elapse
  <2>2. clients[i] \in Registered
    BY <1>1
  <2>3. Older(clients[i].age, KeepAlive) \in 0 .. KeepAlive + 1
    BY <2>2, PipelineAssumption DEF Older, Registered
  <2> QED
    BY <2>1, <2>2, <2>3 DEF Registered
<1>3. clients' \in [1 .. n -> Registered]
  BY <1>1, <1>2 DEF Elapse
<1>4. clients' \in Seq(Registered) /\ (clients' = <<>> => clients = <<>>)
  BY <1>1, <1>3
<1>5. ClientsOK'
  BY <1>1, <1>2, <1>3, <1>4 DEF Inv, ClientsOK, Distinct
<1>6. QueuesOK'
  BY DEF history, Inv, QueuesOK, Elapse, sending
<1>7. TimesOK'
  BY PipelineAssumption DEF Inv, TimesOK, Elapse, Older
<1> QED
  BY <1>4, <1>5, <1>6, <1>7 DEF Inv, PopFindsBundle, EmptiedByPrune, Elapse, sending

LEMMA InvStep == Inv /\ [Next]_vars => Inv'
<1> SUFFICES ASSUME Inv, [Next]_vars PROVE Inv'
  OBVIOUS
<1>1. CASE ReceiveNothing
  <2>1. QueuesOK' /\ ClientsOK'
    BY <1>1 DEF history, Inv, QueuesOK, ClientsOK, Distinct, ReceiveNothing, log_thread,
                sending
  <2>2. TimesOK'
    BY <1>1 DEF Inv, TimesOK, ReceiveNothing, log_thread
  <2> QED
    BY <1>1, <2>1, <2>2 DEF Inv, PopFindsBundle, EmptiedByPrune, ReceiveNothing, sending
<1>2. CASE UNCHANGED vars
  <2>1. QueuesOK' /\ ClientsOK' /\ TimesOK'
    BY <1>2 DEF history, Inv, QueuesOK, ClientsOK, TimesOK, Distinct, vars, log_thread,
                sending,
                receiving
  <2> QED
    BY <1>2, <2>1 DEF Inv, PopFindsBundle, EmptiedByPrune, vars, sending
<1> QED
  BY <1>1, <1>2, InvAddMessage, InvBundle, InvHandOver, InvSender, InvReceive, InvPrune,
     InvElapse DEF Next, LogThread

LEMMA InvHolds == Spec => []Inv
BY InvInit, InvStep, PTL DEF Spec

(* Every variable keeps its type: bundles and the bundle being sent are    *)
(* never empty ones, every id is one that was logged, and no address is    *)
(* registered twice, whatever was heard and pruned.                        *)
THEOREM TypeCorrect == Spec => []TypeOK
<1>1. Inv => TypeOK
  BY TypeParts DEF Inv
<1> QED
  BY <1>1, InvHolds, PTL

(* The sender pops from a queue that is not empty, although it looked at   *)
(* the queue without the lock and clients came and went meanwhile.         *)
THEOREM PopIsSafe == Spec => []PopFindsBundle
<1>1. Inv => PopFindsBundle
  BY DEF Inv
<1> QED
  BY <1>1, InvHolds, PTL

(* A bundle that is sent to nobody was lost to a prune after the check.    *)
THEOREM LossNeedsPrune == Spec => []LostOnlyToPrune
<1>1. Inv => LostOnlyToPrune
  BY DEF Inv, EmptiedByPrune, LostOnlyToPrune
<1> QED
  BY <1>1, InvHolds, PTL
-----------------------------------------------------------------------------
(***************************************************************************)
(* Refinement: the four queues in a row implement one FifoChannel.         *)
(***************************************************************************)

LEMMA AppendLater ==
  ASSUME NEW S, NEW s \in Seq(S), NEW t \in Seq(S), NEW e \in S
  PROVE  s \o Append(t, e) = Append(s \o t, e)
<1> DEFINE a == s \o Append(t, e)
           b == Append(s \o t, e)
           m == Len(s)
           n == Len(t)
<1>1. m \in Nat /\ n \in Nat
  OBVIOUS
<1>2. a \in Seq(S) /\ b \in Seq(S) /\ Len(a) = m + n + 1 /\ Len(b) = m + n + 1
  OBVIOUS
<1>3. ASSUME NEW i \in 1 .. m + n + 1 PROVE a[i] = b[i]
  OBVIOUS
<1> HIDE DEF a, b
<1> QED
  BY <1>2, <1>3, SeqEqual

(* What is in flight before the bundle, what follows it, and the whole.    *)
LEMMA InFlightType ==
  ASSUME QueuesOK
  PROVE  /\ FlattenSeq(bundles) \in Seq(Items) /\ Ids(messages) \in Seq(Items)
         /\ InFlight \in Seq(Items)
<1>1. bundles \in Seq(Seq(Items))
  BY DEF QueuesOK
<1>2. FlattenSeq(bundles) \in Seq(Items)
  BY <1>1, FlattenType
<1>3. Ids(messages) \in Seq(Items)
  BY IdsType DEF QueuesOK
<1> HIDE DEF Items
<1>4. msg \in Seq(Items) /\ log_bundle \in Seq(Items)
  BY DEF QueuesOK
<1>5. msg \o FlattenSeq(bundles) \in Seq(Items)
  BY <1>2, <1>4, ConcatProperties
<1>6. msg \o FlattenSeq(bundles) \o log_bundle \in Seq(Items)
  BY <1>4, <1>5, ConcatProperties
<1> QED
  BY <1>2, <1>3, <1>6, ConcatProperties DEF InFlight

(* The message just logged is the last of what is in flight.               *)
LEMMA AddMessagePuts ==
  ASSUME Inv, NEW k \in CharCounts, AddMessage(k)
  PROVE  num_logged' \in Items /\ Fifo!Put(num_logged')
<1> DEFINE e == [id |-> num_logged', char_count |-> k]
           before == msg \o FlattenSeq(bundles) \o log_bundle
<1>1. num_logged' \in Items
  BY PipelineAssumption DEF Inv, QueuesOK, AddMessage, Items
<1>2. messages \in Seq(Entries) /\ e \in Entries /\ messages' = Append(messages, e)
  BY <1>1 DEF Inv, QueuesOK, AddMessage, Entries
<1>3. Ids(messages') = Append(Ids(messages), num_logged')
  <2> DEFINE n == Len(messages)
             r == Append(messages, e)
  <2>1. /\ n \in Nat /\ DOMAIN messages = 1 .. n /\ DOMAIN r = 1 .. n + 1
        /\ r[n + 1] = e /\ \A i \in 1 .. n : r[i] = messages[i]
    BY <1>2
  <2>2. r \in Seq(Entries)
    BY <1>2
  <2>3. /\ Ids(r) \in Seq(Items) /\ Len(Ids(r)) = n + 1
        /\ Ids(messages) \in Seq(Items) /\ Len(Ids(messages)) = n
    <3>1. Len(r) = n + 1
      BY <1>2
    <3> HIDE DEF r, n, e
    <3>2. Ids(r) \in Seq(Items) /\ Len(Ids(r)) = n + 1
      BY <2>2, <3>1, IdsType
    <3>3. Ids(messages) \in Seq(Items) /\ Len(Ids(messages)) = n
      BY <1>2, IdsType DEF n
    <3> QED
      BY <3>2, <3>3
  <2>4. \A i \in 1 .. n + 1 : Ids(r)[i] = r[i].id
    BY <2>1 DEF Ids
  <2>5. \A i \in 1 .. n : Ids(messages)[i] = messages[i].id
    BY <2>1 DEF Ids
  <2> DEFINE q == Append(Ids(messages), num_logged')
  <2>6. /\ q \in Seq(Items) /\ Len(q) = n + 1 /\ q[n + 1] = num_logged'
        /\ \A i \in 1 .. n : q[i] = Ids(messages)[i]
    BY <1>1, <2>3
  <2>7. \A i \in 1 .. n + 1 : Ids(r)[i] = q[i]
    <3> SUFFICES ASSUME NEW i \in 1 .. n + 1 PROVE Ids(r)[i] = q[i]
      OBVIOUS
    <3>1. CASE i = n + 1
      BY <2>1, <2>4, <2>6, <3>1
    <3>2. CASE i # n + 1
      <4>1. i \in 1 .. n
        BY <2>1, <3>2
      <4> QED
        BY <2>1, <2>4, <2>5, <2>6, <4>1
    <3> QED
      BY <3>1, <3>2
  <2> HIDE DEF q, r, n
  <2>8. Ids(r) = q
    BY <2>3, <2>6, <2>7, SeqEqual
  <2> QED
    BY <1>2, <2>8 DEF q, r
<1>4. before \in Seq(Items) /\ Ids(messages) \in Seq(Items)
  <2>1. FlattenSeq(bundles) \in Seq(Items) /\ Ids(messages) \in Seq(Items)
    BY InFlightType DEF Inv
  <2>2. msg \in Seq(Items) /\ log_bundle \in Seq(Items)
    BY DEF Inv, QueuesOK
  <2> HIDE DEF Items
  <2>3. msg \o FlattenSeq(bundles) \in Seq(Items)
    BY <2>1, <2>2, ConcatProperties
  <2> QED
    BY <2>1, <2>2, <2>3, ConcatProperties
<1>5. before' = before /\ taken' = taken
  BY DEF history, AddMessage, log_thread, sending
<1>6. InFlight' = before \o Append(Ids(messages), num_logged')
  BY <1>3, <1>5 DEF InFlight
<1>7. InFlight' = Append(InFlight, num_logged')
  <2> HIDE DEF before, Items, e
  <2>1. InFlight' = Append(before \o Ids(messages), num_logged')
    BY <1>1, <1>4, <1>6, AppendLater
  <2> QED
    BY <2>1 DEF before, InFlight
<1> QED
  BY <1>1, <1>5, <1>7 DEF Fifo!Put

(* Bundling splits the first queue where the limit says.                   *)
LEMMA BundleStutters ==
  ASSUME Inv, Bundle
  PROVE  UNCHANGED <<InFlight, taken>>
<1> DEFINE n == Len(messages)
           f == Fitting(messages)
           p == SubSeq(messages, 1, f)
           r == SubSeq(messages, f + 1, n)
<1>1. messages \in Seq(Entries) /\ n \in Nat /\ f \in 0 .. n
  BY FittingType DEF Inv, QueuesOK
<1> HIDE DEF f
<1>2. /\ p \in Seq(Entries) /\ Len(p) = f /\ \A i \in 1 .. f : p[i] = messages[i]
      /\ r \in Seq(Entries) /\ Len(r) = n - f
      /\ \A i \in 1 .. n - f : r[i] = messages[f + i]
  BY <1>1
<1> HIDE DEF p, r, n
<1>3. /\ Ids(p) \in Seq(Items) /\ Len(Ids(p)) = f
      /\ Ids(r) \in Seq(Items) /\ Len(Ids(r)) = n - f
      /\ Ids(messages) \in Seq(Items) /\ Len(Ids(messages)) = n
  BY <1>1, <1>2, IdsType DEF n
<1>4. /\ \A i \in 1 .. f : Ids(p)[i] = messages[i].id
      /\ \A i \in 1 .. n - f : Ids(r)[i] = messages[f + i].id
      /\ \A i \in 1 .. n : Ids(messages)[i] = messages[i].id
  <2>1. DOMAIN p = 1 .. f /\ DOMAIN r = 1 .. n - f /\ DOMAIN messages = 1 .. n
    BY <1>1, <1>2 DEF n
  <2> QED
    BY <1>2, <2>1 DEF Ids
<1>5. Ids(p) \o Ids(r) = Ids(messages)
  <2> DEFINE a == Ids(p)
             b == Ids(r)
             c == a \o b
             m == Ids(messages)
  <2>1. c \in Seq(Items) /\ Len(c) = n /\ m \in Seq(Items) /\ Len(m) = n
    <3> HIDE DEF a, b, Items
    <3>1. a \in Seq(Items) /\ Len(a) = f /\ b \in Seq(Items) /\ Len(b) = n - f
      BY <1>3 DEF a, b
    <3>2. a \o b \in Seq(Items) /\ Len(a \o b) = f + (n - f)
      BY <3>1, ConcatProperties
    <3>3. f + (n - f) = n
      BY <1>1
    <3> QED
      BY <1>3, <3>2, <3>3
  <2>2. ASSUME NEW i \in 1 .. n PROVE c[i] = m[i]
    <3> HIDE DEF a, b, m, Items
    <3>1. a \in Seq(Items) /\ Len(a) = f /\ b \in Seq(Items) /\ Len(b) = n - f
      BY <1>3 DEF a, b
    <3>2. c[i] = IF i <= f THEN a[i] ELSE b[i - f]
      BY <1>1, <3>1, ConcatProperties
    <3>3. CASE i <= f
      <4>1. i \in 1 .. f
        BY <1>1, <3>3
      <4> QED
        BY <1>4, <3>2, <3>3, <4>1 DEF a, m
    <3>4. CASE ~(i <= f)
      <4>1. i - f \in 1 .. n - f /\ f + (i - f) = i
        BY <1>1, <3>4
      <4>2. b[i - f] = messages[f + (i - f)].id
        BY <1>4, <4>1 DEF b
      <4> QED
        BY <1>4, <3>2, <3>4, <4>1, <4>2 DEF m
    <3> QED
      BY <3>3, <3>4
  <2> HIDE DEF c, m
  <2>3. c = m
    BY <1>1, <2>1, <2>2, SeqEqual
  <2> QED
    BY <2>3 DEF c, m
<1>6. /\ log_bundle = <<>> /\ log_bundle' = Ids(p) /\ messages' = r
      /\ msg' = msg /\ bundles' = bundles /\ taken' = taken
  BY DEF history, Bundle, LeftBehind, sending, p, r, f, n
<1> DEFINE a == msg \o FlattenSeq(bundles)
<1>7. a \in Seq(Items)
  <2>1. FlattenSeq(bundles) \in Seq(Items) /\ msg \in Seq(Items)
    BY InFlightType DEF Inv, QueuesOK
  <2> HIDE DEF Items
  <2> QED
    BY <2>1, ConcatProperties
<1>8. InFlight = a \o <<>> \o Ids(messages) /\ InFlight' = a \o Ids(p) \o Ids(r)
  BY <1>6 DEF InFlight
<1>9. a \o <<>> = a
  BY <1>7, ConcatEmptySeq
<1>10. (a \o Ids(p)) \o Ids(r) = a \o (Ids(p) \o Ids(r))
  BY <1>3, <1>7
<1> QED
  BY <1>5, <1>6, <1>8, <1>9, <1>10

(* Handing a bundle over adds it as a whole to the second queue.           *)
LEMMA HandOverStutters ==
  ASSUME Inv, HandOver
  PROVE  UNCHANGED <<InFlight, taken>>
<1> DEFINE f == FlattenSeq(bundles)
           i == Ids(messages)
<1>1. bundles \in Seq(Seq(Items)) /\ log_bundle \in Seq(Items) /\ msg \in Seq(Items)
  BY DEF Inv, QueuesOK
<1>2. f \in Seq(Items) /\ i \in Seq(Items)
  BY InFlightType DEF Inv
<1>3. FlattenSeq(bundles') = f \o log_bundle
  BY <1>1, FlattenAppend DEF HandOver
<1>4. msg' = msg /\ log_bundle' = <<>> /\ Ids(messages') = i /\ taken' = taken
  BY DEF history, HandOver, sending
<1> HIDE DEF f, i, Items
<1>5. InFlight' = msg \o (f \o log_bundle) \o <<>> \o i
  BY <1>3, <1>4 DEF InFlight
<1>6. InFlight = msg \o f \o log_bundle \o i
  BY DEF InFlight, f, i
<1>7. msg \o (f \o log_bundle) = msg \o f \o log_bundle
  BY <1>1, <1>2
<1>8. (msg \o f \o log_bundle) \o <<>> = msg \o f \o log_bundle
  <2>1. msg \o f \in Seq(Items)
    BY <1>1, <1>2, ConcatProperties
  <2>2. msg \o f \o log_bundle \in Seq(Items)
    BY <1>1, <2>1, ConcatProperties
  <2> QED
    BY <2>2, ConcatEmptySeq
<1> QED
  BY <1>4, <1>5, <1>6, <1>7, <1>8

(* Popping moves the first bundle in front of the others.                  *)
LEMMA SenderPopStutters ==
  ASSUME Inv, SenderPop
  PROVE  UNCHANGED <<InFlight, taken>>
<1> DEFINE h == Head(bundles)
           f == FlattenSeq(Tail(bundles))
           rest == log_bundle \o Ids(messages)
<1>1. bundles \in Seq(Seq(Items)) /\ bundles # <<>>
  BY DEF Inv, QueuesOK, PopFindsBundle, SenderPop
<1>2. h \in Seq(Items) /\ Tail(bundles) \in Seq(Seq(Items))
  BY <1>1
<1>3. FlattenSeq(bundles) = h \o f /\ f \in Seq(Items)
  BY <1>1, <1>2, FlattenHead, FlattenType
<1>4. msg = <<>> /\ msg' = h /\ FlattenSeq(bundles') = f
  BY DEF Inv, QueuesOK, SenderPop
<1>5. log_bundle' = log_bundle /\ messages' = messages /\ taken' = taken
  BY DEF history, SenderPop, log_thread
<1> HIDE DEF h, f, Items
<1>6. InFlight = <<>> \o (h \o f) \o log_bundle \o Ids(messages)
  BY <1>3, <1>4 DEF InFlight
<1>7. InFlight' = h \o f \o log_bundle \o Ids(messages)
  BY <1>4, <1>5 DEF InFlight
<1>8. <<>> \o (h \o f) = h \o f
  <2>1. h \o f \in Seq(Items)
    BY <1>2, <1>3, ConcatProperties
  <2> QED
    BY <2>1, ConcatEmptySeq
<1> QED
  BY <1>5, <1>6, <1>7, <1>8

(* A send emits the bundle that was popped, the first of what is in flight. *)
LEMMA SenderSendEmits ==
  ASSUME Inv, SenderSend
  PROVE  Len(msg) \in 1 .. Len(InFlight) /\ Fifo!Emit(Len(msg))
<1> DEFINE f == FlattenSeq(bundles)
           i == Ids(messages)
           rest == f \o log_bundle \o i
           n == Len(msg)
<1>1. msg \in Seq(Items) /\ msg # <<>> /\ log_bundle \in Seq(Items)
  BY DEF Inv, QueuesOK, SenderSend
<1>2. f \in Seq(Items) /\ i \in Seq(Items)
  BY InFlightType DEF Inv
<1>3. /\ taken' = taken \o msg /\ msg' = <<>> /\ bundles' = bundles
      /\ log_bundle' = log_bundle /\ messages' = messages
  BY DEF SenderSend, log_thread
<1> HIDE DEF f, i, Items
<1>4. rest \in Seq(Items)
  <2>1. f \o log_bundle \in Seq(Items)
    BY <1>1, <1>2, ConcatProperties
  <2> QED
    BY <1>2, <2>1, ConcatProperties
<1>5. InFlight = msg \o rest
  <2>1. InFlight = msg \o f \o log_bundle \o i
    BY DEF InFlight, f, i
  <2>2. (msg \o f) \o log_bundle = msg \o (f \o log_bundle)
    BY <1>1, <1>2
  <2>3. f \o log_bundle \in Seq(Items)
    BY <1>1, <1>2, ConcatProperties
  <2>4. (msg \o (f \o log_bundle)) \o i = msg \o ((f \o log_bundle) \o i)
    BY <1>1, <1>2, <2>3
  <2> QED
    BY <2>1, <2>2, <2>4
<1>6. InFlight' = <<>> \o f \o log_bundle \o i
  BY <1>3 DEF InFlight, f, i
<1>7. InFlight' = rest
  <2>1. <<>> \o f = f
    BY <1>2, ConcatEmptySeq
  <2> QED
    BY <1>6, <2>1
<1> HIDE DEF rest
<1>8. n \in Nat \ {0} /\ Len(rest) \in Nat /\ Len(msg \o rest) = n + Len(rest)
  BY <1>1, <1>4
<1>9. SubSeq(msg \o rest, 1, n) = msg
  <2>1. n \in 1 .. n /\ 1 \in 1 .. n
    BY <1>8
  <2> HIDE DEF n
  <2>2. SubSeq(msg \o rest, 1, n) = SubSeq(msg, 1, n)
    BY <1>1, <1>4, <2>1, SubSeqOfConcat1 DEF n
  <2> QED
    BY <1>1, <2>2, SubSeqFull DEF n
<1>10. SubSeq(msg \o rest, n + 1, Len(msg \o rest)) = rest
  <2> DEFINE w == msg \o rest
             u == SubSeq(w, n + 1, Len(w))
  <2>1. /\ w \in Seq(Items) /\ Len(w) = n + Len(rest)
        /\ \A j \in 1 .. Len(rest) : w[n + j] = rest[j]
    BY <1>1, <1>4
  <2> HIDE DEF w, n
  <2>2. /\ u \in Seq(Items) /\ Len(u) = Len(rest)
        /\ \A j \in 1 .. Len(rest) : u[j] = w[n + j]
    BY <1>8, <2>1
  <2> HIDE DEF u
  <2>3. u = rest
    BY <1>4, <2>1, <2>2, SeqEqual
  <2> QED
    BY <2>3 DEF u, w, n
<1>11. n \in 1 .. Len(InFlight)
  BY <1>5, <1>8
<1> QED
  BY <1>3, <1>5, <1>7, <1>9, <1>10, <1>11 DEF Fifo!Emit

LEMMA FifoStep == Inv /\ [Next]_vars => [Fifo!Next]_<<InFlight, taken>>
<1> SUFFICES ASSUME Inv, [Next]_vars PROVE [Fifo!Next]_<<InFlight, taken>>
  OBVIOUS
<1>1. ASSUME NEW k \in CharCounts, AddMessage(k) PROVE Fifo!Next
  BY <1>1, AddMessagePuts DEF Fifo!Next
<1>2. ASSUME SenderSend PROVE Fifo!Next
  BY <1>2, SenderSendEmits DEF Fifo!Next
<1>3. \/ \E k \in CharCounts : AddMessage(k)
      \/ SenderSend \/ Bundle \/ HandOver \/ SenderPop
      \/ UNCHANGED <<msg, bundles, log_bundle, messages, taken>>
  BY DEF history, Next, vars, LogThread, Sender, SenderCheck, Receive, ReceiveNothing,
         Prune,
         Elapse, log_thread, sending
<1>4. ASSUME UNCHANGED <<msg, bundles, log_bundle, messages, taken>>
      PROVE  UNCHANGED <<InFlight, taken>>
  BY <1>4 DEF InFlight
<1> QED
  BY <1>1, <1>2, <1>3, <1>4, BundleStutters, HandOverStutters, SenderPopStutters

(* What the robot logged leaves in order, each message once and none       *)
(* skipped, though it passes four queues under two locks, however the      *)
(* threads interleave and wherever the rate limit cuts.  A bundle whose    *)
(* clients are all pruned leaves for nobody: that is LossNeedsPrune's.     *)
THEOREM RefinesFifo == Spec => ImplementsFifo
<1>1. Init => Fifo!Init
  BY DEF Init, Fifo!Init, InFlight, Ids, FlattenSeq
<1> QED
  BY <1>1, InvHolds, FifoStep, PTL DEF Spec, ImplementsFifo, Fifo!Spec
=============================================================================
