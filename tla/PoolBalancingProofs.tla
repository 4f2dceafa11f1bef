------------------------ MODULE PoolBalancingProofs -------------------------
(***************************************************************************)
(* Proofs about PoolBalancing for any pools, shares, miners and rates.     *)
(*                                                                         *)
(* The plan is made by folds. What a fold goes through is a function on    *)
(* the places of its sequence (FoldPath), and induction over these places  *)
(* gives what it returns.                                                  *)
(***************************************************************************)
EXTENDS PoolBalancing, NaturalsInduction, WellFoundedInduction, TLAPS

-----------------------------------------------------------------------------
(* Folds.                                                                   *)

LEMMA LeastNat ==
    ASSUME NEW T \in SUBSET Nat, T # {}
    PROVE  \E n \in T : \A k \in T : ~(k < n)
<1>1. PICK n \in T : \A k \in T : <<k, n>> \notin OpToRel(<, Nat)
  BY NatLessThanWellFounded, WFMin
<1>2. \A k \in T : k < n => <<k, n>> \in OpToRel(<, Nat)
  BY DEF OpToRel
<1> QED
  BY <1>1, <1>2

\* Induction over the places of a sequence, for a set of them.
Inductive(S, n) == 0 \in S /\ \A k \in 0..n : k \in S /\ k # n => k + 1 \in S

LEMMA IndexInduction ==
    ASSUME NEW n \in Nat, NEW S, Inductive(S, n)
    PROVE  n \in S /\ \A k \in 0..n : k \in S
<1> USE DEF Inductive
<1> SUFFICES ASSUME {k \in 0..n : k \notin S} # {} PROVE FALSE
  OBVIOUS
<1> PICK T : T = {k \in 0..n : k \notin S}
  OBVIOUS
<1>1. T \in SUBSET Nat /\ T # {}
  OBVIOUS
<1>2. PICK m \in T : \A k \in T : ~(k < m)
  BY <1>1, LeastNat
<1>3. m \in 0..n /\ m \notin S /\ m # 0
  BY <1>2
<1>4. m - 1 \in 0..n /\ m - 1 # n /\ m - 1 + 1 = m /\ m - 1 < m
  BY <1>3
<1>5. m - 1 \in S
  BY <1>2, <1>4
<1> QED
  BY <1>3, <1>4, <1>5

LEMMA MaxExists ==
    ASSUME NEW n \in Nat, NEW s \in SUBSET (1..n), s # {}
    PROVE  Max(s) \in s /\ \A x \in s : Max(s) >= x
<1> PICK T : T = {n - x : x \in s}
  OBVIOUS
<1>0. \A x \in s : x \in 1..n /\ n - x \in Nat
  OBVIOUS
<1>1. T \in SUBSET Nat /\ T # {}
  BY <1>0
<1>2. PICK m \in T : \A k \in T : ~(k < m)
  BY <1>1, LeastNat
<1>3. PICK x \in s : m = n - x
  BY <1>2
<1>4. \A y \in s : x >= y
  BY <1>0, <1>2, <1>3
<1> QED
  BY <1>4 DEF Max

LEMMA MaxIs ==
    ASSUME NEW n \in Nat, NEW s \in SUBSET (1..n), NEW x \in s, \A y \in s : x >= y
    PROVE  Max(s) = x
<1>1. Max(s) \in s /\ \A y \in s : Max(s) >= y
  BY MaxExists
<1> PICK y : y = Max(s)
  OBVIOUS
<1>2. y \in s /\ x \in 1..n /\ y \in 1..n /\ x >= y /\ y >= x
  BY <1>1
<1>3. y = x
  BY <1>2
<1> QED
  BY <1>3

\* h is the function a left fold of n steps is defined by.
IsFold(h, n, base, step) ==
    \A s \in SUBSET (1..n) : h[s] = IF s = {} THEN base ELSE step[<<h[s \ {Max(s)}], Max(s)>>]

\* g is that function where it matters, on prefixes.
FoldsPrefixes(g, n, Acc, base, step) ==
    /\ g[{}] = base
    /\ \A k \in 1..n : g[1..(k - 1)] \in Acc => g[1..k] = step[<<g[1..(k - 1)], k>>]

\* a is what the fold goes through, and it ends where g does.
IsPath(a, n, base, step, g) ==
    /\ a[0] = base
    /\ \A k \in 1..n : a[k] = step[<<a[k - 1], k>>]
    /\ a[n] = g[1..n]

LEMMA FoldExists ==
    ASSUME NEW n \in Nat, NEW Acc, NEW base \in Acc, NEW step \in [Acc \X (1..n) -> Acc]
    PROVE  \E h \in [SUBSET (1..n) -> Acc] : IsFold(h, n, base, step)
<1> DEFINE Folds(h, k) == \A s \in SUBSET (1..k) :
              h[s] = IF s = {} THEN base ELSE step[<<h[s \ {Max(s)}], Max(s)>>]
           Done == {k \in 0..n : \E h \in [SUBSET (1..k) -> Acc] : Folds(h, k)}
<1>1. 0 \in Done
  <2>1. 1..0 = {}
    OBVIOUS
  <2> PICK h : h = [s \in SUBSET (1..0) |-> base]
    OBVIOUS
  <2>2. h \in [SUBSET (1..0) -> Acc]
    OBVIOUS
  <2>3. Folds(h, 0)
    BY <2>1
  <2>4. 0 \in 0..n
    OBVIOUS
  <2> QED
    BY <2>2, <2>3, <2>4
<1>2. ASSUME NEW k \in 0..n, k \in Done, k # n PROVE k + 1 \in Done
  <2> PICK h \in [SUBSET (1..k) -> Acc] : Folds(h, k)
    BY <1>2
  <2>1. k + 1 \in 1..n /\ 1..(k + 1) \in SUBSET (1..n)
    BY <1>2
  <2>2. \A s \in SUBSET (1..(k + 1)) : s \ {k + 1} \in SUBSET (1..k)
    OBVIOUS
  <2> PICK g : g = [s \in SUBSET (1..(k + 1)) |->
                      IF k + 1 \in s THEN step[<<h[s \ {k + 1}], k + 1>>] ELSE h[s]]
    OBVIOUS
  <2>3. \A s \in SUBSET (1..(k + 1)) : k + 1 \notin s => s \in SUBSET (1..k)
    OBVIOUS
  <2>4. g \in [SUBSET (1..(k + 1)) -> Acc]
    BY <2>1, <2>2, <2>3
  <2>5. ASSUME NEW s \in SUBSET (1..(k + 1))
        PROVE  g[s] = IF s = {} THEN base ELSE step[<<g[s \ {Max(s)}], Max(s)>>]
    <3>1. CASE k + 1 \in s
      <4>1. Max(s) = k + 1
        <5>1. \A y \in s : k + 1 >= y
          OBVIOUS
        <5> QED
          BY <2>1, <3>1, <5>1, MaxIs
      <4>2. s \ {k + 1} \in SUBSET (1..(k + 1)) /\ k + 1 \notin s \ {k + 1} /\ s # {}
        BY <3>1
      <4>3. g[s] = step[<<h[s \ {k + 1}], k + 1>>] /\ g[s \ {k + 1}] = h[s \ {k + 1}]
        BY <3>1, <4>2
      <4> QED
        BY <4>1, <4>2, <4>3
    <3>2. CASE k + 1 \notin s
      <4>1. s \in SUBSET (1..k) /\ g[s] = h[s]
        BY <3>2, <2>3
      <4>2. s \ {Max(s)} \in SUBSET (1..(k + 1)) /\ k + 1 \notin s \ {Max(s)}
        BY <3>2
      <4>3. g[s \ {Max(s)}] = h[s \ {Max(s)}]
        BY <4>2
      <4>4. h[s] = IF s = {} THEN base ELSE step[<<h[s \ {Max(s)}], Max(s)>>]
        BY <4>1
      <4> QED
        BY <4>1, <4>3, <4>4
    <3> QED
      BY <3>1, <3>2
  <2>6. k + 1 \in 0..n
    BY <1>2
  <2>7. Folds(g, k + 1)
    BY <2>5
  <2> QED
    BY <2>4, <2>6, <2>7
<1>3. n \in 0..n
  OBVIOUS
<1> HIDE DEF Done
<1>4. n \in Done
  BY <1>1, <1>2, <1>3, IndexInduction DEF Inductive
<1> QED
  BY <1>4 DEF Done, IsFold

\* The sets a fold over the places of a sequence goes through.
LEMMA PrefixFacts ==
    ASSUME NEW n \in Nat
    PROVE  /\ 1..0 = {}
           /\ \A k \in 1..n : /\ 1..k \in SUBSET (1..n) /\ 1..k # {} /\ Max(1..k) = k
                              /\ (1..k) \ {k} = 1..(k - 1) /\ k - 1 \in 0..n
<1>1. ASSUME NEW k \in 1..n PROVE Max(1..k) = k
  <2>1. 1..k \in SUBSET (1..n) /\ k \in 1..k /\ \A y \in 1..k : k >= y
    OBVIOUS
  <2> QED
    BY <2>1, MaxIs
<1>2. \A k \in 1..n : 1..k \in SUBSET (1..n) /\ 1..k # {} /\ (1..k) \ {k} = 1..(k - 1) /\ k - 1 \in 0..n
  OBVIOUS
<1> QED
  BY <1>1, <1>2

\* What a fold went through.
LEMMA FoldPath ==
    ASSUME NEW n \in Nat, NEW Acc, NEW base \in Acc, NEW step \in [Acc \X (1..n) -> Acc],
           NEW g, FoldsPrefixes(g, n, Acc, base, step)
    PROVE  \E a \in [0..n -> Acc] : IsPath(a, n, base, step, g)
<1> PICK a : a = [k \in 0..n |-> g[1..k]]
  OBVIOUS
<1>1. a[0] = base /\ a[n] = g[1..n]
  BY PrefixFacts DEF FoldsPrefixes
<1>2. ASSUME NEW k \in 1..n, a[k - 1] \in Acc
      PROVE  a[k] = step[<<a[k - 1], k>>] /\ a[k] \in Acc
  <2>1. a[k] = g[1..k] /\ a[k - 1] = g[1..(k - 1)]
    OBVIOUS
  <2>2. <<a[k - 1], k>> \in Acc \X (1..n)
    BY <1>2
  <2> QED
    BY <1>2, <2>1, <2>2 DEF FoldsPrefixes
<1> PICK S : S = {k \in 0..n : a[k] \in Acc}
  OBVIOUS
<1>3. \A k \in 0..n : k \in S
  <2>1. 0 \in S
    BY <1>1
  <2>2. ASSUME NEW k \in 0..n, k \in S, k # n PROVE k + 1 \in S
    <3>1. k + 1 \in 1..n /\ k + 1 - 1 = k /\ k + 1 \in 0..n
      BY <2>2
    <3> PICK j \in 1..n : j = k + 1 /\ j - 1 = k
      BY <3>1
    <3>2. a[j] \in Acc
      BY <1>2, <2>2
    <3> QED
      BY <3>1, <3>2
  <2> QED
    BY <2>1, <2>2, IndexInduction DEF Inductive
<1>4. \A k \in 1..n : k - 1 \in 0..n
  OBVIOUS
<1>5. \A k \in 1..n : a[k] = step[<<a[k - 1], k>>]
  BY <1>2, <1>3, <1>4
<1> QED
  BY <1>1, <1>3, <1>5 DEF IsPath

\* A sum is made in steps.
LEMMA SumRuns ==
    ASSUME NEW E, NEW seq \in Seq(E), NEW f \in [E -> Int]
    PROVE  \E a \in [0..Len(seq) -> Int] :
              /\ a[0] = 0
              /\ \A k \in 1..Len(seq) : a[k] = a[k - 1] + f[seq[k]]
              /\ SumOf(f, seq) = a[Len(seq)]
<1> PICK n : n = Len(seq)
  OBVIOUS
<1>1. n \in Nat /\ DOMAIN seq = 1..n /\ 0 \in Int /\ \A i \in 1..n : seq[i] \in E /\ f[seq[i]] \in Int
  OBVIOUS
<1>a. PICK Acc, zero : Acc = Int /\ zero = 0
  OBVIOUS
<1>b. PICK step : step = [t \in Int \X (1..n) |-> t[1] + f[seq[t[2]]]]
  OBVIOUS
<1>2. /\ step \in [Acc \X (1..n) -> Acc] /\ zero \in Acc
      /\ \A v \in Int, i \in 1..n : step[<<v, i>>] = v + f[seq[i]]
  BY <1>1, <1>a, <1>b
<1> DEFINE Rec(h) == h = [s \in SUBSET (1..n) |->
                            IF s = {} THEN 0 ELSE h[s \ {Max(s)}] + f[seq[Max(s)]]]
<1>3. \E h : Rec(h)
  <2>1. PICK h \in [SUBSET (1..n) -> Acc] : IsFold(h, n, zero, step)
    BY <1>1, <1>2, FoldExists
  <2>2. ASSUME NEW s \in SUBSET (1..n), s # {}
        PROVE  h[s] = h[s \ {Max(s)}] + f[seq[Max(s)]]
    <3>1. Max(s) \in 1..n /\ h[s \ {Max(s)}] \in Int
      BY <1>1, <1>a, <2>2, MaxExists
    <3> QED
      BY <1>2, <1>a, <2>1, <2>2, <3>1 DEF IsFold
  <2>3. Rec(h)
    BY <1>a, <2>1, <2>2 DEF IsFold
  <2> QED
    BY <2>3
<1>4. PICK g : g = CHOOSE h : Rec(h)
  OBVIOUS
<1>5. Rec(g)
  BY <1>3, <1>4
<1>6. SumOf(f, seq) = g[1..n]
  BY <1>1, <1>4 DEF SumOf, FoldLeft, MapThenFoldSet
<1>7. {} \in SUBSET (1..n) /\ g[{}] = zero
  BY <1>5, <1>a
<1>8. ASSUME NEW k \in 1..n, g[1..(k - 1)] \in Acc PROVE g[1..k] = step[<<g[1..(k - 1)], k>>]
  <2>1. 1..k \in SUBSET (1..n) /\ 1..k # {} /\ Max(1..k) = k /\ (1..k) \ {k} = 1..(k - 1)
    BY <1>1, PrefixFacts
  <2>2. g[1..k] = g[1..(k - 1)] + f[seq[k]]
    BY <1>5, <2>1
  <2> QED
    BY <1>2, <1>8, <1>a, <2>2
<1> HIDE DEF Rec
<1>c. FoldsPrefixes(g, n, Acc, zero, step)
  BY <1>7, <1>8 DEF FoldsPrefixes
<1>9. PICK a \in [0..n -> Acc] : IsPath(a, n, zero, step, g)
  BY <1>1, <1>2, <1>c, FoldPath
<1>10. \A k \in 1..n : k - 1 \in 0..n
  BY <1>1
<1> QED
  BY <1>2, <1>6, <1>9, <1>10, <1>a DEF IsPath

-----------------------------------------------------------------------------
(* Sums.                                                                    *)

\* h is the sum of f and g, which have numbers for what is in seq.
IsPlus(h, f, g, E, seq) ==
    /\ seq \in Seq(E)
    /\ f \in [E -> Int] /\ g \in [E -> Int] /\ h \in [E -> Int]
    /\ \A x \in E : h[x] = f[x] + g[x]

\* The sum of sums.
LEMMA SumPlus ==
    ASSUME NEW E, NEW seq, NEW f, NEW g, NEW h, IsPlus(h, f, g, E, seq)
    PROVE  /\ SumOf(f, seq) \in Int /\ SumOf(g, seq) \in Int
           /\ SumOf(h, seq) = SumOf(f, seq) + SumOf(g, seq)
<1>0. /\ seq \in Seq(E)
      /\ f \in [E -> Int] /\ g \in [E -> Int] /\ h \in [E -> Int]
      /\ \A x \in E : h[x] = f[x] + g[x]
  BY DEF IsPlus
<1> PICK n : n = Len(seq)
  OBVIOUS
<1>1. n \in Nat /\ \A k \in 1..n : k - 1 \in 0..n /\ seq[k] \in E
  BY <1>0
<1>2. PICK a \in [0..n -> Int] :
        a[0] = 0 /\ (\A k \in 1..n : a[k] = a[k - 1] + f[seq[k]]) /\ SumOf(f, seq) = a[n]
  BY <1>0, SumRuns
<1>3. PICK b \in [0..n -> Int] :
        b[0] = 0 /\ (\A k \in 1..n : b[k] = b[k - 1] + g[seq[k]]) /\ SumOf(g, seq) = b[n]
  BY <1>0, SumRuns
<1>4. PICK c \in [0..n -> Int] :
        c[0] = 0 /\ (\A k \in 1..n : c[k] = c[k - 1] + h[seq[k]]) /\ SumOf(h, seq) = c[n]
  BY <1>0, SumRuns
<1> PICK S : S = {k \in 0..n : c[k] = a[k] + b[k]}
  OBVIOUS
<1>5. 0 \in S
  BY <1>1, <1>2, <1>3, <1>4
<1>6. ASSUME NEW k \in 0..n, k \in S, k # n PROVE k + 1 \in S
  <2>1. PICK j \in 1..n : j = k + 1 /\ j - 1 = k /\ j \in 0..n
    BY <1>1, <1>6
  <2>2. a[j] = a[k] + f[seq[j]] /\ b[j] = b[k] + g[seq[j]] /\ c[j] = c[k] + h[seq[j]]
    BY <1>2, <1>3, <1>4, <2>1
  <2>3. /\ a[k] \in Int /\ b[k] \in Int /\ c[k] = a[k] + b[k]
        /\ f[seq[j]] \in Int /\ g[seq[j]] \in Int /\ h[seq[j]] = f[seq[j]] + g[seq[j]]
    BY <1>0, <1>1, <1>6, <2>1
  <2>4. c[j] = a[j] + b[j]
    BY <2>2, <2>3
  <2> QED
    BY <2>1, <2>4
<1>7. n \in S
  <2>1. Inductive(S, n)
    BY <1>5, <1>6 DEF Inductive
  <2> QED
    BY <1>1, <2>1, IndexInduction
<1>8. a[n] \in Int /\ b[n] \in Int
  BY <1>1
<1> QED
  BY <1>2, <1>3, <1>4, <1>7, <1>8

\* A sum of natural numbers.
LEMMA SumNat ==
    ASSUME NEW E, NEW seq \in Seq(E), NEW f \in [E -> Nat]
    PROVE  SumOf(f, seq) \in Nat
<1> PICK n : n = Len(seq)
  OBVIOUS
<1>1. n \in Nat /\ f \in [E -> Int] /\ \A k \in 1..n : k - 1 \in 0..n /\ f[seq[k]] \in Nat
  OBVIOUS
<1>2. PICK a \in [0..n -> Int] :
        a[0] = 0 /\ (\A k \in 1..n : a[k] = a[k - 1] + f[seq[k]]) /\ SumOf(f, seq) = a[n]
  BY <1>1, SumRuns
<1> PICK S : S = {k \in 0..n : a[k] \in Nat}
  OBVIOUS
<1>3. 0 \in S
  BY <1>1, <1>2
<1>4. ASSUME NEW k \in 0..n, k \in S, k # n PROVE k + 1 \in S
  <2>1. PICK j \in 1..n : j = k + 1 /\ j - 1 = k /\ j \in 0..n
    BY <1>1, <1>4
  <2>2. a[j] \in Nat
    BY <1>1, <1>2, <1>4, <2>1
  <2> QED
    BY <2>1, <2>2
<1>5. n \in S
  <2>1. Inductive(S, n)
    BY <1>3, <1>4 DEF Inductive
  <2> QED
    BY <1>1, <2>1, IndexInduction
<1> QED
  BY <1>2, <1>5

\* A sum of smaller numbers is smaller.
LEMMA SumMonotone ==
    ASSUME NEW E, NEW seq \in Seq(E), NEW f \in [E -> Int], NEW g \in [E -> Int],
           \A x \in E : f[x] <= g[x]
    PROVE  SumOf(f, seq) <= SumOf(g, seq)
<1>1. PICK d : d = [x \in E |-> g[x] - f[x]]
  OBVIOUS
<1>2. d \in [E -> Nat]
  BY <1>1
<1>3. d \in [E -> Int]
  BY <1>1
<1>4. IsPlus(g, f, d, E, seq)
  BY <1>1, <1>3 DEF IsPlus
<1>5. SumOf(d, seq) \in Nat
  BY <1>2, SumNat
<1>6. SumOf(f, seq) \in Int /\ SumOf(g, seq) = SumOf(f, seq) + SumOf(d, seq)
  BY <1>4, SumPlus
<1> QED
  BY <1>5, <1>6

\* f is not 0 at x at most.
IsSingle(f, x, E) == \A y \in E : y # x => f[y] = 0

\* A sum of one number, where nothing occurs twice.
LEMMA SumSingle ==
    ASSUME NEW E, NEW seq \in Seq(E), IsInjective(seq), NEW f \in [E -> Int], NEW x \in ToSet(seq),
           IsSingle(f, x, E)
    PROVE  SumOf(f, seq) = f[x]
<1> PICK n : n = Len(seq)
  OBVIOUS
<1>1. n \in Nat /\ DOMAIN seq = 1..n /\ \A k \in 1..n : k - 1 \in 0..n /\ seq[k] \in E
  OBVIOUS
<1>2. PICK i \in 1..n : seq[i] = x
  BY <1>1 DEF ToSet
<1>3. x \in E /\ f[x] \in Int /\ \A k \in 1..n : k # i => f[seq[k]] = 0
  BY <1>1, <1>2 DEF IsInjective, IsSingle
<1>4. PICK a \in [0..n -> Int] :
        a[0] = 0 /\ (\A k \in 1..n : a[k] = a[k - 1] + f[seq[k]]) /\ SumOf(f, seq) = a[n]
  BY SumRuns
<1> PICK S : S = {k \in 0..n : a[k] = IF k < i THEN 0 ELSE f[x]}
  OBVIOUS
<1>5. 0 \in S
  BY <1>1, <1>2, <1>4
<1>6. ASSUME NEW k \in 0..n, k \in S, k # n PROVE k + 1 \in S
  <2>1. PICK j \in 1..n : j = k + 1 /\ j - 1 = k /\ j \in 0..n
    BY <1>1, <1>6
  <2>2. a[j] = a[k] + f[seq[j]] /\ a[k] = IF k < i THEN 0 ELSE f[x]
    BY <1>4, <1>6, <2>1
  <2>3. a[j] = IF j < i THEN 0 ELSE f[x]
    BY <1>2, <1>3, <2>1, <2>2
  <2> QED
    BY <2>1, <2>3
<1>7. n \in S
  <2>1. Inductive(S, n)
    BY <1>5, <1>6 DEF Inductive
  <2> QED
    BY <1>1, <2>1, IndexInduction
<1> QED
  BY <1>2, <1>4, <1>7

-----------------------------------------------------------------------------
(* Selections.                                                              *)

\* a is what the selection of the elements of T goes through.
IsSelection(a, seq, T) ==
    /\ a[0] = <<>>
    /\ \A k \in 1..Len(seq) : a[k] = IF seq[k] \in T THEN Append(a[k - 1], seq[k]) ELSE a[k - 1]
    /\ Only(seq, T) = a[Len(seq)]

\* A selection is made in steps.
LEMMA OnlyRuns ==
    ASSUME NEW E, NEW seq \in Seq(E), NEW T
    PROVE  \E a \in [0..Len(seq) -> Seq(E)] : IsSelection(a, seq, T)
<1>0. PICK n, Acc, none : n = Len(seq) /\ Acc = Seq(E) /\ none = <<>>
  OBVIOUS
<1>1. n \in Nat /\ DOMAIN seq = 1..n /\ none \in Acc /\ \A i \in 1..n : seq[i] \in E
  BY <1>0
<1> DEFINE add(v, i) == IF seq[i] \in T THEN Append(v, seq[i]) ELSE v
<1>b. PICK step : step = [t \in Acc \X (1..n) |-> add(t[1], t[2])]
  OBVIOUS
<1>2. /\ step \in [Acc \X (1..n) -> Acc]
      /\ \A v \in Acc, i \in 1..n : step[<<v, i>>] = add(v, i)
  BY <1>0, <1>1, <1>b
<1> DEFINE Rec(h) == h = [s \in SUBSET (1..n) |->
                            IF s = {} THEN <<>> ELSE add(h[s \ {Max(s)}], Max(s))]
<1>3. \E h : Rec(h)
  <2>1. PICK h \in [SUBSET (1..n) -> Acc] : IsFold(h, n, none, step)
    BY <1>1, <1>2, FoldExists
  <2>2. ASSUME NEW s \in SUBSET (1..n), s # {}
        PROVE  h[s] = add(h[s \ {Max(s)}], Max(s))
    <3>1. Max(s) \in 1..n /\ h[s \ {Max(s)}] \in Acc
      BY <1>1, <2>2, MaxExists
    <3> HIDE DEF add
    <3> QED
      BY <1>2, <2>1, <2>2, <3>1 DEF IsFold
  <2>3. Rec(h)
    <3> HIDE DEF add
    <3> QED
      BY <1>0, <2>1, <2>2 DEF IsFold
  <2> QED
    BY <2>3
<1>4. PICK g : g = CHOOSE h : Rec(h)
  OBVIOUS
<1>5. Rec(g)
  BY <1>3, <1>4
<1>6. Only(seq, T) = g[1..n]
  BY <1>1, <1>4 DEF Only, FoldLeft, MapThenFoldSet
<1>7. g[{}] = none
  BY <1>5, <1>0
<1>8. ASSUME NEW k \in 1..n, g[1..(k - 1)] \in Acc PROVE g[1..k] = step[<<g[1..(k - 1)], k>>]
  <2>1. 1..k \in SUBSET (1..n) /\ 1..k # {} /\ Max(1..k) = k /\ (1..k) \ {k} = 1..(k - 1)
    BY <1>1, PrefixFacts
  <2> HIDE DEF add
  <2>2. g[1..k] = add(g[1..(k - 1)], k)
    BY <1>5, <2>1
  <2> QED
    BY <1>2, <1>8, <2>2
<1> HIDE DEF Rec
<1>c. FoldsPrefixes(g, n, Acc, none, step)
  BY <1>7, <1>8 DEF FoldsPrefixes
<1>9. PICK a \in [0..n -> Acc] : IsPath(a, n, none, step, g)
  BY <1>1, <1>2, <1>c, FoldPath
<1>10. \A k \in 1..n : a[k - 1] \in Acc
  BY <1>1
<1>11. /\ a \in [0..Len(seq) -> Seq(E)] /\ a[0] = <<>> /\ Only(seq, T) = a[Len(seq)]
  BY <1>0, <1>6, <1>9 DEF IsPath
<1>12. ASSUME NEW k \in 1..n
       PROVE  a[k] = IF seq[k] \in T THEN Append(a[k - 1], seq[k]) ELSE a[k - 1]
  <2>1. a[k] = step[<<a[k - 1], k>>]
    BY <1>9 DEF IsPath
  <2> QED
    BY <1>2, <1>10, <2>1
<1> QED
  BY <1>0, <1>11, <1>12 DEF IsSelection

\* A selection has the selected elements, and none twice if the sequence has none twice.
LEMMA OnlyFacts ==
    ASSUME NEW E, NEW seq \in Seq(E), NEW T
    PROVE  /\ Only(seq, T) \in Seq(E)
           /\ ToSet(Only(seq, T)) = ToSet(seq) \cap T
           /\ IsInjective(seq) => IsInjective(Only(seq, T))
<1>0. PICK n : n = Len(seq)
  OBVIOUS
<1>1. n \in Nat /\ DOMAIN seq = 1..n /\ \A i \in 1..n : seq[i] \in E
  BY <1>0
<1>a. PICK a \in [0..Len(seq) -> Seq(E)] : IsSelection(a, seq, T)
  BY OnlyRuns
<1>2. /\ a \in [0..n -> Seq(E)] /\ a[0] = <<>>
      /\ \A k \in 1..n : a[k] = IF seq[k] \in T THEN Append(a[k - 1], seq[k]) ELSE a[k - 1]
      /\ Only(seq, T) = a[n]
  BY <1>0, <1>a DEF IsSelection
<1> DEFINE Good(k) == /\ ToSet(a[k]) = {seq[i] : i \in 1..k} \cap T
                      /\ IsInjective(seq) => IsInjective(a[k])
<1>3. PICK S : S = {k \in 0..n : Good(k)}
  OBVIOUS
<1>4. 0 \in S
  <2>1. a[0] = <<>> /\ DOMAIN a[0] = {} /\ 1..0 = {}
    BY <1>2
  <2>2. Good(0)
    BY <2>1 DEF ToSet, IsInjective
  <2> QED
    BY <1>1, <1>3, <2>2
<1>5. ASSUME NEW k \in 0..n, k \in S, k # n PROVE k + 1 \in S
  <2>1. PICK j \in 1..n : j = k + 1 /\ j - 1 = k /\ j \in 0..n
    BY <1>1, <1>5
  <2>2. a[j] = IF seq[j] \in T THEN Append(a[k], seq[j]) ELSE a[k]
    BY <1>2, <2>1
  <2>3. Good(k) /\ a[k] \in Seq(E) /\ seq[j] \in E
    BY <1>1, <1>2, <1>3, <1>5
  <2>4. {seq[i] : i \in 1..j} = {seq[i] : i \in 1..k} \cup {seq[j]}
    <3>1. 1..j = 1..k \cup {j}
      BY <2>1
    <3> QED
      BY <3>1
  <2>5. CASE seq[j] \notin T
    BY <1>3, <2>1, <2>2, <2>3, <2>4, <2>5
  <2>6. CASE seq[j] \in T
    <3>1. PICK c, l : c = a[k] /\ l = Len(c)
      OBVIOUS
    <3>2. /\ l \in Nat /\ DOMAIN c = 1..l /\ DOMAIN a[j] = 1..(l + 1)
          /\ a[j][l + 1] = seq[j] /\ \A i \in 1..l : a[j][i] = c[i] /\ i \in 1..(l + 1)
          /\ \A i \in 1..(l + 1) : i \in 1..l \/ i = l + 1
          /\ l + 1 \in 1..(l + 1)
      BY <2>2, <2>3, <2>6, <3>1
    <3>3. ToSet(a[j]) = ToSet(c) \cup {seq[j]}
      BY <3>2 DEF ToSet
    <3>4. ToSet(a[j]) = {seq[i] : i \in 1..j} \cap T
      BY <2>3, <2>4, <2>6, <3>1, <3>3
    <3>5. ASSUME IsInjective(seq) PROVE IsInjective(a[j])
      <4>1. ASSUME NEW i \in 1..l PROVE c[i] # seq[j]
        <5>1. c[i] \in ToSet(c)
          BY <3>2 DEF ToSet
        <5>2. PICK p \in 1..k : c[i] = seq[p]
          BY <2>3, <3>1, <5>1
        <5>3. p \in DOMAIN seq /\ j \in DOMAIN seq /\ p # j
          BY <1>1, <2>1
        <5> QED
          BY <3>5, <5>2, <5>3 DEF IsInjective
      <4>2. IsInjective(c)
        BY <2>3, <3>1, <3>5
      <4> QED
        BY <3>2, <4>1, <4>2 DEF IsInjective
    <3> QED
      BY <1>3, <2>1, <3>4, <3>5
  <2> QED
    BY <2>5, <2>6
<1>6. n \in S
  <2>1. Inductive(S, n)
    BY <1>4, <1>5 DEF Inductive
  <2> QED
    BY <1>1, <2>1, IndexInduction
<1>7. Good(n) /\ a[n] \in Seq(E)
  BY <1>1, <1>2, <1>3, <1>6
<1>8. ToSet(seq) = {seq[i] : i \in 1..n}
  BY <1>1 DEF ToSet
<1> QED
  BY <1>2, <1>7, <1>8

-----------------------------------------------------------------------------
(* The hash rate of sets of miners.                                         *)

\* A rate is a natural number.
LEMMA RateTypes ==
    ASSUME TypeOK
    PROVE  /\ rate \in [Miners -> Nat] /\ home \in [Miners -> PoolSet] /\ usable \in SUBSET PoolSet
           /\ Pools \in Seq(PoolSet) /\ Fleet \in Seq(Miners)
BY BalanceAssumption DEF TypeOK, Miners, PoolSet

\* Who counts with which rate.
RateIn(S) == [m \in Miners |-> IF m \in S THEN rate[m] ELSE 0]

LEMMA RateNat ==
    ASSUME TypeOK, NEW S
    PROVE  RateOf(S) \in Nat
<1>1. RateIn(S) \in [Miners -> Nat]
  BY RateTypes DEF RateIn
<1>2. SumOf(RateIn(S), Fleet) \in Nat
  BY <1>1, RateTypes, SumNat
<1> QED
  BY <1>2 DEF RateOf, RateIn

\* Disjoint sets add up.
LEMMA RatePlus ==
    ASSUME TypeOK, NEW S, NEW T, S \cap T = {}
    PROVE  RateOf(S \cup T) = RateOf(S) + RateOf(T)
<1>1. \A U : RateIn(U) \in [Miners -> Int]
  BY RateTypes DEF RateIn
<1>2. IsPlus(RateIn(S \cup T), RateIn(S), RateIn(T), Miners, Fleet)
  <2>1. \A m \in Miners : RateIn(S \cup T)[m] = RateIn(S)[m] + RateIn(T)[m]
    BY RateTypes DEF RateIn
  <2> QED
    BY <1>1, <2>1, RateTypes DEF IsPlus
<1>3. SumOf(RateIn(S \cup T), Fleet) = SumOf(RateIn(S), Fleet) + SumOf(RateIn(T), Fleet)
  BY <1>2, SumPlus
<1> QED
  BY <1>3 DEF RateOf, RateIn

\* A part has no more than the whole.
LEMMA RateMonotone ==
    ASSUME TypeOK, NEW T, NEW S \in SUBSET T
    PROVE  RateOf(S) <= RateOf(T)
<1>1. RateIn(S) \in [Miners -> Int] /\ RateIn(T) \in [Miners -> Int]
  BY RateTypes DEF RateIn
<1>2. \A m \in Miners : RateIn(S)[m] <= RateIn(T)[m]
  BY RateTypes DEF RateIn
<1>3. SumOf(RateIn(S), Fleet) <= SumOf(RateIn(T), Fleet)
  BY <1>1, <1>2, RateTypes, SumMonotone
<1> QED
  BY <1>3 DEF RateOf, RateIn

LEMMA RateEmpty ==
    ASSUME TypeOK
    PROVE  RateOf({}) = 0
<1>1. PICK r : r = RateOf({})
  OBVIOUS
<1>2. {} \cup {} = {} /\ {} \cap {} = {}
  OBVIOUS
<1>3. RateOf({} \cup {}) = RateOf({}) + RateOf({})
  BY <1>2, RatePlus
<1>4. r \in Nat /\ r = r + r
  BY <1>1, <1>2, <1>3, RateNat
<1>5. r = 0
  BY <1>4
<1> QED
  BY <1>1, <1>5

\* One miner has its rate.
LEMMA RateSingle ==
    ASSUME TypeOK, NEW m \in Miners
    PROVE  RateOf({m}) = rate[m]
<1>1. RateIn({m}) \in [Miners -> Int]
  BY RateTypes DEF RateIn
<1>2. IsSingle(RateIn({m}), m, Miners) /\ RateIn({m})[m] = rate[m]
  BY DEF RateIn, IsSingle
<1>3. m \in ToSet(Fleet) /\ IsInjective(Fleet)
  BY BalanceAssumption DEF Miners
<1>4. SumOf(RateIn({m}), Fleet) = RateIn({m})[m]
  <2>1. Fleet \in Seq(Miners)
    BY RateTypes
  <2> QED
    BY <1>1, <1>2, <1>3, <2>1, SumSingle
<1> QED
  BY <1>2, <1>4 DEF RateOf, RateIn

\* A set is no faster than its parts together.
LEMMA RateAtMost ==
    ASSUME TypeOK, NEW S, NEW T
    PROVE  RateOf(S \cup T) <= RateOf(S) + RateOf(T)
<1>1. RateOf(S \cup T) = RateOf(S) + RateOf(T \ S)
  <2>1. S \cap (T \ S) = {} /\ S \cup T = S \cup (T \ S)
    OBVIOUS
  <2> QED
    BY <2>1, RatePlus
<1>2. RateOf(T \ S) <= RateOf(T)
  BY RateMonotone
<1> QED
  BY <1>1, <1>2, RateNat

\* A miner counts where it is: over all pools the miners of S are counted once.
LEMMA RateByPool ==
    ASSUME TypeOK, NEW S \in SUBSET Miners, NEW at \in [Miners -> PoolSet]
    PROVE  SumOf([p \in PoolSet |-> RateOf({m \in S : at[m] = p})], Pools) = RateOf(S)
<1>0. PICK n, f : n = Len(Pools) /\ f = [p \in PoolSet |-> RateOf({m \in S : at[m] = p})]
  OBVIOUS
<1>1. /\ n \in Nat /\ DOMAIN Pools = 1..n
      /\ \A k \in 1..n : Pools[k] \in PoolSet /\ f[Pools[k]] = RateOf({m \in S : at[m] = Pools[k]})
  <2>1. Pools \in Seq(PoolSet)
    BY RateTypes
  <2>2. n \in Nat /\ DOMAIN Pools = 1..n /\ \A k \in 1..n : Pools[k] \in PoolSet
    BY <1>0, <2>1
  <2> QED
    BY <1>0, <2>2
<1>2. f \in [PoolSet -> Int]
  BY <1>0, RateNat
<1>3. PICK a \in [0..Len(Pools) -> Int] :
        /\ a[0] = 0
        /\ \A k \in 1..Len(Pools) : a[k] = a[k - 1] + f[Pools[k]]
        /\ SumOf(f, Pools) = a[Len(Pools)]
  BY <1>2, RateTypes, SumRuns
<1> DEFINE upTo(k) == {m \in S : \E i \in 1..k : at[m] = Pools[i]}
<1>4. PICK D : D = {k \in 0..n : a[k] = RateOf(upTo(k))}
  OBVIOUS
<1>5. 0 \in D
  <2>1. upTo(0) = {}
    OBVIOUS
  <2> QED
    BY <1>1, <1>3, <1>4, <2>1, RateEmpty
<1>6. ASSUME NEW k \in 0..n, k \in D, k # n PROVE k + 1 \in D
  <2>1. PICK j \in 1..n : j = k + 1 /\ j - 1 = k /\ j \in 0..n
    BY <1>1, <1>6
  <2>2. PICK new : new = {m \in S : at[m] = Pools[j]}
    OBVIOUS
  <2>3. upTo(j) = upTo(k) \cup new
    <3>1. \A i \in 1..j : i \in 1..k \/ i = j
      BY <2>1
    <3>2. \A i \in 1..k : i \in 1..j
      BY <2>1
    <3>3. j \in 1..j
      BY <2>1
    <3> QED
      BY <2>2, <3>1, <3>2, <3>3
  <2>4. upTo(k) \cap new = {}
    <3>1. \A i \in 1..k : Pools[i] # Pools[j]
      <4>1. \A i \in 1..k : i \in DOMAIN Pools /\ j \in DOMAIN Pools /\ i # j
        BY <1>1, <2>1
      <4>2. IsInjective(Pools)
        BY BalanceAssumption
      <4> QED
        BY <4>1, <4>2 DEF IsInjective
    <3> QED
      BY <2>2, <3>1
  <2>5. a[j] = a[k] + f[Pools[j]]
    BY <1>0, <1>3, <2>1
  <2>6. a[k] = RateOf(upTo(k)) /\ f[Pools[j]] = RateOf(new)
    BY <1>1, <1>4, <1>6, <2>2
  <2> HIDE DEF upTo
  <2>7. RateOf(upTo(j)) = RateOf(upTo(k)) + RateOf(new)
    BY <2>3, <2>4, RatePlus
  <2> QED
    BY <1>4, <2>1, <2>5, <2>6, <2>7
<1>7. n \in D
  <2>1. Inductive(D, n)
    BY <1>5, <1>6 DEF Inductive
  <2> QED
    BY <1>1, <2>1, IndexInduction
<1>8. upTo(n) = S
  <2>1. ASSUME NEW m \in S PROVE \E i \in 1..n : at[m] = Pools[i]
    BY <1>1 DEF PoolSet, ToSet
  <2> QED
    BY <2>1
<1> QED
  BY <1>0, <1>3, <1>4, <1>7, <1>8

-----------------------------------------------------------------------------
(* Who is taken.                                                            *)

\* The accumulator of Take and TakeDonors.
Budgeted == [taken : Seq(Miners), left : Int]

\* One miner is taken if it fits.
TakeOne(v, m, enough) ==
    IF v.left < enough \/ rate[m] = 0 \/ rate[m] > v.left THEN v
    ELSE [taken |-> Append(v.taken, m), left |-> v.left - rate[m]]

\* m was taken on the way from v to w.
HasTaken(v, w, m) ==
    /\ rate[m] # 0 /\ rate[m] <= v.left
    /\ w.left = v.left - rate[m]
    /\ ToSet(w.taken) = ToSet(v.taken) \cup {m}

LEMMA TakeOneTypes ==
    ASSUME TypeOK, NEW v \in Budgeted, NEW m \in Miners, NEW enough
    PROVE  /\ TakeOne(v, m, enough) \in Budgeted
           /\ TakeOne(v, m, enough) = v \/ HasTaken(v, TakeOne(v, m, enough), m)
<1>1. rate[m] \in Nat /\ v.taken \in Seq(Miners) /\ v.left \in Int
  BY RateTypes DEF Budgeted
<1>2. PICK more : more = Append(v.taken, m)
  OBVIOUS
<1>3. more \in Seq(Miners) /\ ToSet(more) = ToSet(v.taken) \cup {m}
  <2>1. PICK t, n : t = v.taken /\ n = Len(t)
    OBVIOUS
  <2>2. /\ DOMAIN t = 1..n /\ DOMAIN more = 1..(n + 1) /\ more[n + 1] = m
        /\ more \in Seq(Miners) /\ \A i \in 1..n : more[i] = t[i] /\ i \in 1..(n + 1)
        /\ \A i \in 1..(n + 1) : i \in 1..n \/ i = n + 1
        /\ n + 1 \in 1..(n + 1)
    BY <1>1, <1>2, <2>1
  <2> QED
    BY <2>1, <2>2 DEF ToSet
<1>4. CASE v.left < enough \/ rate[m] = 0 \/ rate[m] > v.left
  BY <1>4 DEF TakeOne
<1>5. CASE ~(v.left < enough \/ rate[m] = 0 \/ rate[m] > v.left)
  <2>1. TakeOne(v, m, enough) = [taken |-> more, left |-> v.left - rate[m]]
    BY <1>2, <1>5 DEF TakeOne
  <2>2. v.left - rate[m] \in Int /\ rate[m] <= v.left /\ rate[m] # 0
    BY <1>1, <1>5
  <2> QED
    BY <1>3, <2>1, <2>2 DEF Budgeted, HasTaken
<1> QED
  BY <1>4, <1>5

\* a is what Take goes through.
IsTaking(a, ms, budget, enough) ==
    /\ a[0] = [taken |-> <<>>, left |-> budget]
    /\ \A k \in 1..Len(ms) : a[k] = TakeOne(a[k - 1], ms[k], enough)
    /\ Take(ms, budget, enough) = a[Len(ms)]

LEMMA TakeRuns ==
    ASSUME TypeOK, NEW ms \in Seq(Miners), NEW budget \in Int, NEW enough
    PROVE  \E a \in [0..Len(ms) -> Budgeted] : IsTaking(a, ms, budget, enough)
<1>0. PICK n, none : n = Len(ms) /\ none = [taken |-> <<>>, left |-> budget]
  OBVIOUS
<1>1. n \in Nat /\ DOMAIN ms = 1..n /\ none \in Budgeted /\ \A i \in 1..n : ms[i] \in Miners
  BY <1>0 DEF Budgeted
<1>2. PICK step : step = [t \in Budgeted \X (1..n) |-> TakeOne(t[1], ms[t[2]], enough)]
  OBVIOUS
<1>3. step \in [Budgeted \X (1..n) -> Budgeted]
  BY <1>1, <1>2, TakeOneTypes
<1>4. \A v \in Budgeted, i \in 1..n : step[<<v, i>>] = TakeOne(v, ms[i], enough)
  BY <1>2
<1> DEFINE Rec(h) == h = [s \in SUBSET (1..n) |->
                            IF s = {} THEN none ELSE TakeOne(h[s \ {Max(s)}], ms[Max(s)], enough)]
<1>5. \E h : Rec(h)
  <2>1. PICK h \in [SUBSET (1..n) -> Budgeted] : IsFold(h, n, none, step)
    BY <1>1, <1>3, FoldExists
  <2>2. ASSUME NEW s \in SUBSET (1..n), s # {}
        PROVE  h[s] = TakeOne(h[s \ {Max(s)}], ms[Max(s)], enough)
    <3>1. Max(s) \in 1..n /\ h[s \ {Max(s)}] \in Budgeted
      BY <1>1, <2>2, MaxExists
    <3> QED
      BY <1>4, <2>1, <2>2, <3>1 DEF IsFold
  <2>3. Rec(h)
    BY <2>1, <2>2 DEF IsFold
  <2> QED
    BY <2>3
<1>6. PICK g : g = CHOOSE h : Rec(h)
  OBVIOUS
<1>7. Rec(g)
  BY <1>5, <1>6
<1>8. Take(ms, budget, enough) = g[1..n]
  BY <1>0, <1>1, <1>6 DEF Take, FoldLeft, MapThenFoldSet, TakeOne
<1>9. FoldsPrefixes(g, n, Budgeted, none, step)
  <2>1. g[{}] = none
    BY <1>7
  <2>2. ASSUME NEW k \in 1..n, g[1..(k - 1)] \in Budgeted
        PROVE  g[1..k] = step[<<g[1..(k - 1)], k>>]
    <3>1. 1..k \in SUBSET (1..n) /\ 1..k # {} /\ Max(1..k) = k /\ (1..k) \ {k} = 1..(k - 1)
      BY <1>1, PrefixFacts
    <3>2. g[1..k] = TakeOne(g[1..(k - 1)], ms[k], enough)
      BY <1>7, <3>1
    <3> QED
      BY <1>4, <2>2, <3>2
  <2> QED
    BY <2>1, <2>2 DEF FoldsPrefixes
<1> HIDE DEF Rec
<1>10. PICK a \in [0..n -> Budgeted] : IsPath(a, n, none, step, g)
  BY <1>1, <1>3, <1>9, FoldPath
<1>11. \A k \in 1..n : a[k] = TakeOne(a[k - 1], ms[k], enough)
  <2>1. \A k \in 1..n : a[k - 1] \in Budgeted /\ a[k] = step[<<a[k - 1], k>>]
    BY <1>1, <1>10 DEF IsPath
  <2> QED
    BY <1>4, <2>1
<1>12. a[0] = none /\ Take(ms, budget, enough) = a[n]
  BY <1>8, <1>10 DEF IsPath
<1> QED
  BY <1>0, <1>11, <1>12 DEF IsTaking

\* What is taken was there, has a rate, and fits into the budget with what is left.
LEMMA TakeFacts ==
    ASSUME TypeOK, NEW ms \in Seq(Miners), NEW budget \in Nat, NEW enough,
           NEW r, r = Take(ms, budget, enough)
    PROVE  /\ r.taken \in Seq(Miners) /\ r.left \in Nat
           /\ ToSet(r.taken) \subseteq ToSet(ms)
           /\ RateOf(ToSet(r.taken)) <= budget - r.left
<1>0. PICK n : n = Len(ms)
  OBVIOUS
<1>1. n \in Nat /\ \A k \in 1..n : ms[k] \in Miners /\ ms[k] \in ToSet(ms)
  BY <1>0 DEF ToSet
<1>2. PICK a \in [0..Len(ms) -> Budgeted] : IsTaking(a, ms, budget, enough)
  BY TakeRuns
<1>3. /\ a \in [0..n -> Budgeted] /\ a[0] = [taken |-> <<>>, left |-> budget]
      /\ \A k \in 1..n : a[k] = TakeOne(a[k - 1], ms[k], enough)
      /\ r = a[n]
  BY <1>0, <1>2 DEF IsTaking
<1> DEFINE Good(v) == /\ v.left \in Nat
                      /\ ToSet(v.taken) \subseteq ToSet(ms)
                      /\ RateOf(ToSet(v.taken)) <= budget - v.left
<1>4. PICK S : S = {k \in 0..n : Good(a[k])}
  OBVIOUS
<1>5. 0 \in S
  <2>1. a[0].taken = <<>> /\ a[0].left = budget
    BY <1>3
  <2>2. ToSet(a[0].taken) = {}
    BY <2>1 DEF ToSet
  <2>4. RateOf(ToSet(a[0].taken)) = 0
    BY <2>2, RateEmpty
  <2>3. Good(a[0])
    BY <2>1, <2>2, <2>4
  <2> QED
    BY <1>1, <1>4, <2>3
<1>6. ASSUME NEW k \in 0..n, k \in S, k # n PROVE k + 1 \in S
  <2>1. PICK j \in 1..n : j = k + 1 /\ j - 1 = k /\ j \in 0..n
    BY <1>1, <1>6
  <2>2. PICK v, m : v = a[k] /\ m = ms[j]
    OBVIOUS
  <2>3. v \in Budgeted /\ m \in Miners /\ m \in ToSet(ms) /\ a[j] = TakeOne(v, m, enough) /\ Good(v)
    BY <1>1, <1>3, <1>4, <1>6, <2>1, <2>2
  <2>4. CASE a[j] = v
    BY <1>4, <2>1, <2>3, <2>4
  <2>5. CASE a[j] # v
    <3>1. /\ rate[m] <= v.left /\ a[j].left = v.left - rate[m]
          /\ ToSet(a[j].taken) = ToSet(v.taken) \cup {m}
      <4>1. v \in Budgeted /\ m \in Miners
        BY <2>3
      <4>2. TakeOne(v, m, enough) = v \/ HasTaken(v, TakeOne(v, m, enough), m)
        BY <4>1, TakeOneTypes
      <4>3. HasTaken(v, a[j], m)
        BY <2>3, <2>5, <4>2
      <4> QED
        BY <4>3 DEF HasTaken
    <3>2. RateOf(ToSet(a[j].taken)) <= RateOf(ToSet(v.taken)) + rate[m]
      BY <2>3, <3>1, RateAtMost, RateSingle
    <3>3. RateOf(ToSet(a[j].taken)) \in Nat /\ RateOf(ToSet(v.taken)) \in Nat /\ rate[m] \in Nat
      BY <2>3, RateNat, RateTypes
    <3>4. Good(a[j])
      BY <2>3, <3>1, <3>2, <3>3
    <3> QED
      BY <1>4, <2>1, <3>4
  <2> QED
    BY <2>4, <2>5
<1>7. n \in S
  <2>1. Inductive(S, n)
    BY <1>5, <1>6 DEF Inductive
  <2> QED
    BY <1>1, <2>1, IndexInduction
<1>8. r \in Budgeted /\ Good(r)
  BY <1>1, <1>3, <1>4, <1>7
<1> QED
  BY <1>8 DEF Budgeted

-----------------------------------------------------------------------------
(* The pools in their orders.                                               *)

\* Two sequences one after the other.
LEMMA ConcatFacts ==
    ASSUME NEW E, NEW s \in Seq(E), NEW t \in Seq(E)
    PROVE  /\ s \o t \in Seq(E) /\ ToSet(s \o t) = ToSet(s) \cup ToSet(t)
           /\ IsInjective(s) /\ IsInjective(t) /\ ToSet(s) \cap ToSet(t) = {} => IsInjective(s \o t)
<1> PICK n, l, u : n = Len(s) /\ l = Len(t) /\ u = s \o t
  OBVIOUS
<1>1. /\ n \in Nat /\ l \in Nat /\ DOMAIN s = 1..n /\ DOMAIN t = 1..l /\ DOMAIN u = 1..(n + l)
      /\ u \in Seq(E)
  OBVIOUS
<1>2. /\ \A i \in 1..n : u[i] = s[i] /\ i \in 1..(n + l)
      /\ \A i \in 1..l : u[n + i] = t[i] /\ n + i \in 1..(n + l)
  OBVIOUS
<1>3. \A i \in 1..(n + l) : i \in 1..n \/ \E j \in 1..l : i = n + j
  <2>1. \A i \in 1..(n + l) : i \in 1..n \/ (i - n \in 1..l /\ i = n + (i - n))
    BY <1>1
  <2> QED
    BY <2>1
<1>4. ToSet(u) = ToSet(s) \cup ToSet(t)
  <2>1. ToSet(s) = {s[i] : i \in 1..n} /\ ToSet(t) = {t[i] : i \in 1..l}
    BY <1>1 DEF ToSet
  <2>2. ToSet(u) = {u[i] : i \in 1..(n + l)}
    BY <1>1 DEF ToSet
  <2>3. \A x \in ToSet(u) : x \in ToSet(s) \cup ToSet(t)
    BY <1>2, <1>3, <2>1, <2>2
  <2>4. \A x \in ToSet(s) : x \in ToSet(u)
    <3>1. \A i \in 1..n : s[i] = u[i] /\ i \in 1..(n + l)
      BY <1>2
    <3> QED
      BY <2>1, <2>2, <3>1
  <2>5. \A x \in ToSet(t) : x \in ToSet(u)
    <3>1. \A i \in 1..l : t[i] = u[n + i] /\ n + i \in 1..(n + l)
      BY <1>2
    <3> QED
      BY <2>1, <2>2, <3>1
  <2> QED
    BY <2>3, <2>4, <2>5
<1>5. ASSUME IsInjective(s), IsInjective(t), ToSet(s) \cap ToSet(t) = {}
      PROVE  IsInjective(u)
  <2>1. \A i \in 1..n, j \in 1..l : s[i] # t[j]
    BY <1>1, <1>5 DEF ToSet
  <2>2. ASSUME NEW i \in 1..(n + l), NEW j \in 1..(n + l), u[i] = u[j] PROVE i = j
    <3>1. CASE i \in 1..n /\ j \in 1..n
      BY <1>1, <1>2, <1>5, <2>2, <3>1 DEF IsInjective
    <3>2. CASE (\E x \in 1..l : i = n + x) /\ (\E y \in 1..l : j = n + y)
      <4>1. PICK x \in 1..l, y \in 1..l : i = n + x /\ j = n + y
        BY <3>2
      <4>2. x = y
        <5>1. t[x] = u[n + x] /\ t[y] = u[n + y]
          BY <1>2
        <5>2. t[x] = t[y]
          BY <2>2, <4>1, <5>1
        <5> QED
          BY <1>1, <1>5, <5>2 DEF IsInjective
      <4> QED
        BY <4>1, <4>2
    <3>3. CASE i \in 1..n /\ \E y \in 1..l : j = n + y
      BY <1>2, <2>1, <2>2, <3>3
    <3>4. CASE j \in 1..n /\ \E y \in 1..l : i = n + y
      BY <1>2, <2>1, <2>2, <3>4
    <3> QED
      BY <1>3, <3>1, <3>2, <3>3, <3>4
  <2> QED
    BY <1>1, <2>2 DEF IsInjective
<1> QED
  BY <1>1, <1>4, <1>5

\* Each order lists the pools it is to list, and no pool twice.
LEMMA PoolFacts ==
    ASSUME TypeOK
    PROVE  /\ OtherPools \in Seq(PoolSet) /\ ToSet(OtherPools) = PoolSet \ {DevPool}
           /\ ActivePools \in Seq(PoolSet \ {DevPool})
           /\ ToSet(ActivePools) = ((PoolSet \ {DevPool}) \ EarlierDevPools) \cap usable
           /\ ByDelta \in Seq(PoolSet) /\ ToSet(ByDelta) = PoolSet /\ IsInjective(ByDelta)
<1>1. Pools \in Seq(PoolSet) /\ IsInjective(Pools) /\ ToSet(Pools) = PoolSet
  BY BalanceAssumption DEF PoolSet
<1>2. PICK dev, user : dev = Only(Pools, {DevPool}) /\ user = Only(Pools, PoolSet \ {DevPool})
  OBVIOUS
<1>3. dev \in Seq(PoolSet) /\ ToSet(dev) = PoolSet \cap {DevPool} /\ IsInjective(dev)
  BY <1>1, <1>2, OnlyFacts
<1>4. user \in Seq(PoolSet) /\ ToSet(user) = PoolSet \cap (PoolSet \ {DevPool}) /\ IsInjective(user)
  BY <1>1, <1>2, OnlyFacts
<1>5. user \in Seq(PoolSet \ {DevPool})
  <2>1. \A i \in 1..Len(user) : user[i] \in PoolSet \ {DevPool}
    BY <1>4 DEF ToSet
  <2> QED
    BY <1>4, <2>1
<1>6. user = OtherPools
  BY <1>2 DEF OtherPools
<1>7. PICK own : own = Only(user, PoolSet \ EarlierDevPools) /\ ActivePools = Only(own, usable)
  BY <1>6 DEF ActivePools, UserPools
<1>8. /\ ActivePools \in Seq(PoolSet \ {DevPool})
      /\ ToSet(ActivePools) = (ToSet(user) \cap (PoolSet \ EarlierDevPools)) \cap usable
  <2>1. own \in Seq(PoolSet \ {DevPool}) /\ ToSet(own) = ToSet(user) \cap (PoolSet \ EarlierDevPools)
    BY <1>5, <1>7, OnlyFacts
  <2>2. ActivePools \in Seq(PoolSet \ {DevPool})
    BY <1>7, <2>1, OnlyFacts
  <2>3. ToSet(ActivePools) = ToSet(own) \cap usable
    BY <1>7, <2>1, OnlyFacts
  <2> QED
    BY <2>1, <2>2, <2>3
<1>9. ByDelta = dev \o user
  BY <1>2, <1>6 DEF ByDelta
<1>10. ToSet(dev) \cap ToSet(user) = {} /\ ToSet(dev) \cup ToSet(user) = PoolSet
  BY <1>3, <1>4
<1>11. ByDelta \in Seq(PoolSet) /\ ToSet(ByDelta) = PoolSet /\ IsInjective(ByDelta)
  BY <1>3, <1>4, <1>9, <1>10, ConcatFacts
<1> QED
  BY <1>4, <1>6, <1>8, <1>11

LEMMA LowFacts ==
    ASSUME TypeOK
    PROVE  /\ LowPools \in Seq(PoolSet) /\ ToSet(LowPools) = {p \in PoolSet : NeedsHashrate(p)}
           /\ IsInjective(LowPools)
<1>1. PICK T : T = {p \in PoolSet : NeedsHashrate(p)}
  OBVIOUS
<1>2. LowPools = Only(ByDelta, T)
  BY <1>1 DEF LowPools
<1>3. ByDelta \in Seq(PoolSet) /\ ToSet(ByDelta) = PoolSet /\ IsInjective(ByDelta)
  BY PoolFacts
<1>4. LowPools \in Seq(PoolSet) /\ ToSet(LowPools) = PoolSet \cap T /\ IsInjective(LowPools)
  BY <1>2, <1>3, OnlyFacts
<1> QED
  BY <1>1, <1>4

LEMMA HighFacts ==
    ASSUME TypeOK
    PROVE  HighPools \in Seq(PoolSet) /\ ToSet(HighPools) = {p \in PoolSet : HasExcess(p)}
<1>1. PICK T : T = {p \in PoolSet : HasExcess(p)}
  OBVIOUS
<1>2. HighPools = Only(ByDelta, T)
  BY <1>1 DEF HighPools
<1>3. ByDelta \in Seq(PoolSet) /\ ToSet(ByDelta) = PoolSet
  BY PoolFacts
<1>4. HighPools \in Seq(PoolSet) /\ ToSet(HighPools) = PoolSet \cap T
  BY <1>2, <1>3, OnlyFacts
<1> QED
  BY <1>1, <1>4

LEMMA DonorFacts ==
    ASSUME TypeOK
    PROVE  Donors \in Seq(PoolSet) /\ ToSet(Donors) = {p \in PoolSet : ~NeedsHashrate(p)}
<1>1. PICK T : T = {p \in PoolSet : ~NeedsHashrate(p)}
  OBVIOUS
<1>2. Donors = Only(Pools, T) /\ Pools \in Seq(PoolSet) /\ ToSet(Pools) = PoolSet
  BY <1>1, RateTypes DEF Donors, PoolSet
<1>3. Donors \in Seq(PoolSet) /\ ToSet(Donors) = PoolSet \cap T
  BY <1>2, OnlyFacts
<1> QED
  BY <1>1, <1>3

\* The target rates, when there is a pool to give them to.
LEMMA IdealFacts ==
    ASSUME TypeOK, ActivePools # <<>>, NEW p \in PoolSet
    PROVE  /\ IdealRate(p) \in Int /\ Hashrate(home, p) \in Nat
           /\ TotalShare \in Nat
           /\ p # DevPool /\ TotalShare > 0 /\ Share[p] = 0 => IdealRate(p) = 0
<1>1. ActivePools \in Seq(PoolSet \ {DevPool}) /\ Share \in [PoolSet \ {DevPool} -> Nat]
  BY PoolFacts, BalanceAssumption DEF PoolSet
<1>2. TotalShare \in Nat
  BY <1>1, SumNat DEF TotalShare
<1>3. TotalRate \in Nat /\ DeveloperShare \in Nat
  BY RateNat, BalanceAssumption DEF TotalRate
<1>4. TotalRate * DeveloperShare \in Int
  BY <1>3
<1>5. DevRate \in Int
  BY <1>4 DEF DevRate
<1>6. Len(ActivePools) \in Nat /\ Len(ActivePools) > 0
  BY <1>1
<1>7. Hashrate(home, p) \in Nat
  BY RateNat DEF Hashrate
<1>8. CASE p = DevPool
  BY <1>2, <1>5, <1>7, <1>8 DEF IdealRate
<1>9. CASE p # DevPool /\ p \notin EarlierDevPools /\ TotalShare > 0
  <2>1. PICK r, w : r = TotalRate - DevRate /\ w = Share[p]
    OBVIOUS
  <2>2. r \in Int /\ w \in Nat
    BY <1>1, <1>3, <1>5, <1>9, <2>1
  <2>3. r * w \in Int /\ (w = 0 => r * w = 0)
    BY <2>2
  <2>4. IdealRate(p) = (r * w) \div TotalShare
    BY <1>9, <2>1 DEF IdealRate
  <2>5. IdealRate(p) \in Int
    BY <1>2, <1>9, <2>3, <2>4
  <2>6. w = 0 => IdealRate(p) = 0
    BY <1>2, <1>9, <2>3, <2>4
  <2> QED
    BY <1>2, <1>7, <2>1, <2>5, <2>6
<1>10. CASE p # DevPool /\ p \notin EarlierDevPools /\ ~(TotalShare > 0)
  <2>1. TotalRate - DevRate \in Int
    BY <1>3, <1>5
  <2>2. IdealRate(p) = (TotalRate - DevRate) \div Len(ActivePools)
    BY <1>10 DEF IdealRate
  <2>3. IdealRate(p) \in Int
    BY <1>6, <2>1, <2>2
  <2> QED
    BY <1>2, <1>7, <1>10, <2>3
<1>11. CASE p # DevPool /\ p \in EarlierDevPools
  <2>1. PICK r, w : r = TotalRate - DevRate /\ w = Share[p]
    OBVIOUS
  <2>2. r \in Int /\ w \in Nat
    BY <1>1, <1>3, <1>5, <1>11, <2>1
  <2>3. r * w \in Int /\ (w = 0 => r * w = 0)
    BY <2>2
  <2>4. IdealRate(p) = (r * w) \div 100
    BY <1>11, <2>1 DEF IdealRate
  <2>5. IdealRate(p) \in Int /\ (w = 0 => IdealRate(p) = 0)
    BY <2>3, <2>4
  <2> QED
    BY <1>2, <1>7, <2>1, <2>5
<1> QED
  BY <1>8, <1>9, <1>10, <1>11

-----------------------------------------------------------------------------
(* Who is freed.                                                            *)

LEMMA MinersOfFacts ==
    ASSUME TypeOK, NEW p, NEW settled \in SUBSET Miners
    PROVE  /\ MinersOf(p, settled) \in Seq(Miners)
           /\ ToSet(MinersOf(p, settled)) = {m \in settled : home[m] = p}
<1>1. PICK T : T = {m \in settled : home[m] = p}
  OBVIOUS
<1>2. MinersOf(p, settled) = Only(Fleet, T) /\ ToSet(Fleet) = Miners
  BY <1>1 DEF MinersOf, Miners
<1>3. Fleet \in Seq(Miners)
  BY RateTypes
<1>4. Only(Fleet, T) \in Seq(Miners) /\ ToSet(Only(Fleet, T)) = ToSet(Fleet) \cap T
  BY <1>3, OnlyFacts
<1>5. Miners \cap T = T
  BY <1>1
<1> QED
  BY <1>1, <1>2, <1>4, <1>5

\* A usable pool keeps its target rate, an unusable one no miner that works.
LEMMA FreedFromFacts ==
    ASSUME TypeOK, ActivePools # <<>>, NEW p \in PoolSet, HasExcess(p)
    PROVE  /\ FreedFrom(p) \in Seq(Miners)
           /\ ToSet(FreedFrom(p)) \subseteq {m \in Miners : home[m] = p}
           /\ p \in usable => RateOf(ToSet(FreedFrom(p))) <= Hashrate(home, p) - IdealRate(p)
           /\ p \notin usable =>
                ToSet(FreedFrom(p)) = {m \in Miners : home[m] = p /\ rate[m] > 0}
<1>1. PICK ms : ms = MinersOf(p, Miners)
  OBVIOUS
<1>2. ms \in Seq(Miners) /\ ToSet(ms) = {m \in Miners : home[m] = p}
  BY <1>1, MinersOfFacts
<1>3. CASE p \in usable
  <2>1. PICK b : b = Hashrate(home, p) - IdealRate(p)
    OBVIOUS
  <2>2. b \in Nat
    BY <1>3, <2>1, IdealFacts DEF HasExcess
  <2>3. PICK r : r = Take(ms, b, 0)
    OBVIOUS
  <2>4. /\ r.taken \in Seq(Miners) /\ r.left \in Nat
        /\ ToSet(r.taken) \subseteq ToSet(ms)
        /\ RateOf(ToSet(r.taken)) <= b - r.left
    BY <1>2, <2>2, <2>3, TakeFacts
  <2>5. FreedFrom(p) = r.taken
    BY <1>1, <1>3, <2>1, <2>3 DEF FreedFrom
  <2>6. RateOf(ToSet(r.taken)) <= b
    BY <2>2, <2>4, RateNat
  <2> QED
    BY <1>2, <1>3, <2>1, <2>4, <2>5, <2>6
<1>4. CASE p \notin usable
  <2>1. PICK T : T = {m \in Miners : rate[m] > 0}
    OBVIOUS
  <2>2. FreedFrom(p) = Only(ms, T)
    BY <1>1, <1>4, <2>1 DEF FreedFrom
  <2>3. Only(ms, T) \in Seq(Miners) /\ ToSet(Only(ms, T)) = ToSet(ms) \cap T
    BY <1>2, OnlyFacts
  <2> QED
    BY <1>2, <1>4, <2>1, <2>2, <2>3
<1> QED
  BY <1>3, <1>4

\* a is what freeing goes through, pool by pool.
IsFreeing(a) ==
    /\ a[0] = <<>>
    /\ \A k \in 1..Len(HighPools) : a[k] = a[k - 1] \o FreedFrom(HighPools[k])
    /\ FreedMiners = a[Len(HighPools)]

LEMMA FreeingRuns ==
    ASSUME TypeOK, ActivePools # <<>>
    PROVE  \E a \in [0..Len(HighPools) -> Seq(Miners)] : IsFreeing(a)
<1>0. PICK n, Acc, none : n = Len(HighPools) /\ Acc = Seq(Miners) /\ none = <<>>
  OBVIOUS
<1>1. /\ n \in Nat /\ DOMAIN HighPools = 1..n /\ none \in Acc
      /\ \A i \in 1..n : HighPools[i] \in ToSet(HighPools)
  BY <1>0, HighFacts DEF ToSet
<1>2. \A i \in 1..n : FreedFrom(HighPools[i]) \in Seq(Miners)
  BY <1>1, HighFacts, FreedFromFacts
<1>3. PICK step : step = [t \in Acc \X (1..n) |-> t[1] \o FreedFrom(HighPools[t[2]])]
  OBVIOUS
<1>4. \A v \in Acc, i \in 1..n : step[<<v, i>>] = v \o FreedFrom(HighPools[i])
  BY <1>3
<1>5. step \in [Acc \X (1..n) -> Acc]
  BY <1>0, <1>2, <1>3
<1> DEFINE Rec(h) == h = [s \in SUBSET (1..n) |->
                            IF s = {} THEN <<>> ELSE h[s \ {Max(s)}] \o FreedFrom(HighPools[Max(s)])]
<1>6. \E h : Rec(h)
  <2>1. PICK h \in [SUBSET (1..n) -> Acc] : IsFold(h, n, none, step)
    BY <1>1, <1>5, FoldExists
  <2>2. ASSUME NEW s \in SUBSET (1..n), s # {}
        PROVE  h[s] = h[s \ {Max(s)}] \o FreedFrom(HighPools[Max(s)])
    <3>1. Max(s) \in 1..n /\ h[s \ {Max(s)}] \in Acc
      BY <1>1, <2>2, MaxExists
    <3> QED
      BY <1>4, <2>1, <2>2, <3>1 DEF IsFold
  <2>3. Rec(h)
    BY <1>0, <2>1, <2>2 DEF IsFold
  <2> QED
    BY <2>3
<1>7. PICK g : g = CHOOSE h : Rec(h)
  OBVIOUS
<1>8. Rec(g)
  BY <1>6, <1>7
<1>9. FreedMiners = g[1..n]
  BY <1>1, <1>7 DEF FreedMiners, FoldLeft, MapThenFoldSet
<1>10. FoldsPrefixes(g, n, Acc, none, step)
  <2>1. g[{}] = none
    BY <1>0, <1>8
  <2>2. ASSUME NEW k \in 1..n, g[1..(k - 1)] \in Acc
        PROVE  g[1..k] = step[<<g[1..(k - 1)], k>>]
    <3>1. 1..k \in SUBSET (1..n) /\ 1..k # {} /\ Max(1..k) = k /\ (1..k) \ {k} = 1..(k - 1)
      BY <1>1, PrefixFacts
    <3>2. g[1..k] = g[1..(k - 1)] \o FreedFrom(HighPools[k])
      BY <1>8, <3>1
    <3> QED
      BY <1>4, <2>2, <3>2
  <2> QED
    BY <2>1, <2>2 DEF FoldsPrefixes
<1> HIDE DEF Rec
<1>11. PICK a \in [0..n -> Acc] : IsPath(a, n, none, step, g)
  BY <1>1, <1>5, <1>10, FoldPath
<1>12. \A k \in 1..n : a[k] = a[k - 1] \o FreedFrom(HighPools[k])
  <2>1. \A k \in 1..n : a[k - 1] \in Acc /\ a[k] = step[<<a[k - 1], k>>]
    BY <1>1, <1>11 DEF IsPath
  <2> QED
    BY <1>4, <2>1
<1>13. a[0] = none /\ FreedMiners = a[n]
  BY <1>9, <1>11 DEF IsPath
<1> QED
  BY <1>0, <1>12, <1>13 DEF IsFreeing

\* The miners freed.
Freed == ToSet(FreedMiners)

LEMMA FreedAre ==
    ASSUME TypeOK, ActivePools # <<>>
    PROVE  /\ FreedMiners \in Seq(Miners)
           /\ Freed = UNION {ToSet(FreedFrom(p)) : p \in {q \in PoolSet : HasExcess(q)}}
<1>0. PICK n : n = Len(HighPools)
  OBVIOUS
<1>1. n \in Nat /\ DOMAIN HighPools = 1..n /\ \A i \in 1..n : HighPools[i] \in ToSet(HighPools)
  BY <1>0, HighFacts DEF ToSet
<1>2. \A i \in 1..n : FreedFrom(HighPools[i]) \in Seq(Miners)
  BY <1>1, HighFacts, FreedFromFacts
<1>3. PICK a \in [0..Len(HighPools) -> Seq(Miners)] : IsFreeing(a)
  BY FreeingRuns
<1>4. /\ a \in [0..n -> Seq(Miners)] /\ a[0] = <<>> /\ FreedMiners = a[n]
      /\ \A k \in 1..n : a[k] = a[k - 1] \o FreedFrom(HighPools[k])
  BY <1>0, <1>3 DEF IsFreeing
<1> DEFINE upTo(k) == UNION {ToSet(FreedFrom(HighPools[i])) : i \in 1..k}
<1>5. PICK S : S = {k \in 0..n : ToSet(a[k]) = upTo(k)}
  OBVIOUS
<1>6. 0 \in S
  <2>1. ToSet(a[0]) = {} /\ upTo(0) = {}
    BY <1>4 DEF ToSet
  <2> QED
    BY <1>1, <1>5, <2>1
<1>7. ASSUME NEW k \in 0..n, k \in S, k # n PROVE k + 1 \in S
  <2>1. PICK j \in 1..n : j = k + 1 /\ j - 1 = k /\ j \in 0..n
    BY <1>1, <1>7
  <2>2. upTo(j) = upTo(k) \cup ToSet(FreedFrom(HighPools[j]))
    <3>1. 1..j = 1..k \cup {j}
      BY <2>1
    <3> QED
      BY <3>1
  <2>3. a[j] = a[k] \o FreedFrom(HighPools[j]) /\ ToSet(a[k]) = upTo(k) /\ a[k] \in Seq(Miners)
    BY <1>4, <1>5, <1>7, <2>1
  <2> HIDE DEF upTo
  <2>4. ToSet(a[j]) = ToSet(a[k]) \cup ToSet(FreedFrom(HighPools[j]))
    BY <1>2, <2>3, ConcatFacts
  <2> QED
    BY <1>5, <2>1, <2>2, <2>3, <2>4
<1>8. n \in S
  <2>1. Inductive(S, n)
    BY <1>6, <1>7 DEF Inductive
  <2> QED
    BY <1>1, <2>1, IndexInduction
<1>9. ToSet(HighPools) = {HighPools[i] : i \in 1..n}
  BY <1>1 DEF ToSet
<1>10. upTo(n) = UNION {ToSet(FreedFrom(p)) : p \in ToSet(HighPools)}
  BY <1>9
<1>11. ToSet(a[n]) = upTo(n)
  BY <1>5, <1>8
<1>12. FreedMiners \in Seq(Miners)
  BY <1>1, <1>4
<1> HIDE DEF upTo
<1> QED
  BY <1>4, <1>10, <1>11, <1>12, HighFacts DEF Freed

\* The freed miners leave pools that have too much, no more of each usable one than it has
\* too much, and all miners that work leave the unusable pools.
LEMMA FreedFacts ==
    ASSUME TypeOK, ActivePools # <<>>
    PROVE  /\ FreedMiners \in Seq(Miners) /\ Freed \in SUBSET Miners
           /\ \A m \in Freed : HasExcess(home[m])
           /\ \A p \in usable : HasExcess(p) =>
                RateOf({m \in Freed : home[m] = p}) <= Hashrate(home, p) - IdealRate(p)
           /\ \A m \in Miners : home[m] \notin usable /\ rate[m] > 0 => m \in Freed
<1>1. FreedMiners \in Seq(Miners)
  BY FreedAre
<1>2. PICK ex : ex = {q \in PoolSet : HasExcess(q)}
  OBVIOUS
<1>3. Freed = UNION {ToSet(FreedFrom(p)) : p \in ex}
  BY <1>2, FreedAre
<1>4. \A p \in ex : ToSet(FreedFrom(p)) \subseteq {m \in Miners : home[m] = p}
  BY <1>2, FreedFromFacts
<1>5. Freed \in SUBSET Miners /\ \A m \in Freed : home[m] \in ex
  BY <1>3, <1>4
<1>6. ASSUME NEW p \in usable, HasExcess(p)
      PROVE  RateOf({m \in Freed : home[m] = p}) <= Hashrate(home, p) - IdealRate(p)
  <2>1. p \in ex
    BY <1>2, <1>6, RateTypes
  <2>2. {m \in Freed : home[m] = p} = ToSet(FreedFrom(p))
    BY <1>3, <1>4, <2>1
  <2> QED
    BY <1>2, <1>6, <2>1, <2>2, FreedFromFacts
<1>7. ASSUME NEW m \in Miners, home[m] \notin usable, rate[m] > 0 PROVE m \in Freed
  <2>1. home[m] \in PoolSet /\ HasExcess(home[m])
    BY <1>7, RateTypes DEF HasExcess
  <2>2. m \in ToSet(FreedFrom(home[m]))
    BY <1>7, <2>1, FreedFromFacts
  <2> QED
    BY <1>2, <1>3, <2>1, <2>2
<1> QED
  BY <1>1, <1>2, <1>5, <1>6, <1>7

-----------------------------------------------------------------------------
(* Who is taken from donors.                                                *)

LEMMA TakeTypes ==
    ASSUME TypeOK, NEW ms \in Seq(Miners), NEW budget \in Int, NEW enough
    PROVE  Take(ms, budget, enough) \in Budgeted
<1>1. PICK a \in [0..Len(ms) -> Budgeted] : IsTaking(a, ms, budget, enough)
  BY TakeRuns
<1>2. Len(ms) \in 0..Len(ms) /\ Take(ms, budget, enough) = a[Len(ms)]
  BY <1>1 DEF IsTaking
<1> QED
  BY <1>2

\* What donor p adds.
FromDonor(v, p, settled) ==
    LET g == Take(MinersOf(p, settled), v.left, EnoughBelow)
    IN  [taken |-> v.taken \o g.taken, left |-> g.left]

LEMMA FromDonorTypes ==
    ASSUME TypeOK, NEW settled \in SUBSET Miners, NEW v \in Budgeted, NEW p
    PROVE  FromDonor(v, p, settled) \in Budgeted
<1>1. PICK g : g = Take(MinersOf(p, settled), v.left, EnoughBelow)
  OBVIOUS
<1>2. MinersOf(p, settled) \in Seq(Miners) /\ v.left \in Int /\ v.taken \in Seq(Miners)
  BY MinersOfFacts DEF Budgeted
<1>3. g \in Budgeted
  BY <1>1, <1>2, TakeTypes
<1>4. FromDonor(v, p, settled) = [taken |-> v.taken \o g.taken, left |-> g.left]
  BY <1>1 DEF FromDonor
<1>5. v.taken \o g.taken \in Seq(Miners) /\ g.left \in Int
  BY <1>2, <1>3 DEF Budgeted
<1> QED
  BY <1>4, <1>5 DEF Budgeted

\* a is what TakeDonors goes through, donor by donor.
IsDonating(a, settled, deficit) ==
    /\ a[0] = [taken |-> <<>>, left |-> deficit]
    /\ \A k \in 1..Len(Donors) : a[k] = FromDonor(a[k - 1], Donors[k], settled)
    /\ TakeDonors(settled, deficit) = a[Len(Donors)].taken

LEMMA DonatingRuns ==
    ASSUME TypeOK, NEW settled \in SUBSET Miners, NEW deficit \in Int
    PROVE  \E a \in [0..Len(Donors) -> Budgeted] : IsDonating(a, settled, deficit)
<1>0. PICK n, none : n = Len(Donors) /\ none = [taken |-> <<>>, left |-> deficit]
  OBVIOUS
<1>1. n \in Nat /\ DOMAIN Donors = 1..n /\ none \in Budgeted
  BY <1>0, DonorFacts DEF Budgeted
<1>2. PICK step : step = [t \in Budgeted \X (1..n) |-> FromDonor(t[1], Donors[t[2]], settled)]
  OBVIOUS
<1>3. step \in [Budgeted \X (1..n) -> Budgeted]
  BY <1>2, FromDonorTypes
<1>4. \A v \in Budgeted, i \in 1..n : step[<<v, i>>] = FromDonor(v, Donors[i], settled)
  BY <1>2
<1> DEFINE Rec(h) == h = [s \in SUBSET (1..n) |->
                            IF s = {} THEN none ELSE FromDonor(h[s \ {Max(s)}], Donors[Max(s)], settled)]
<1>5. \E h : Rec(h)
  <2>1. PICK h \in [SUBSET (1..n) -> Budgeted] : IsFold(h, n, none, step)
    BY <1>1, <1>3, FoldExists
  <2>2. ASSUME NEW s \in SUBSET (1..n), s # {}
        PROVE  h[s] = FromDonor(h[s \ {Max(s)}], Donors[Max(s)], settled)
    <3>1. Max(s) \in 1..n /\ h[s \ {Max(s)}] \in Budgeted
      BY <1>1, <2>2, MaxExists
    <3> QED
      BY <1>4, <2>1, <2>2, <3>1 DEF IsFold
  <2>3. Rec(h)
    BY <2>1, <2>2 DEF IsFold
  <2> QED
    BY <2>3
<1>6. PICK g : g = CHOOSE h : Rec(h)
  OBVIOUS
<1>7. Rec(g)
  BY <1>5, <1>6
<1>8. TakeDonors(settled, deficit) = g[1..n].taken
  BY <1>0, <1>1, <1>6 DEF TakeDonors, FoldLeft, MapThenFoldSet, FromDonor
<1>9. FoldsPrefixes(g, n, Budgeted, none, step)
  <2>1. g[{}] = none
    BY <1>7
  <2>2. ASSUME NEW k \in 1..n, g[1..(k - 1)] \in Budgeted
        PROVE  g[1..k] = step[<<g[1..(k - 1)], k>>]
    <3>1. 1..k \in SUBSET (1..n) /\ 1..k # {} /\ Max(1..k) = k /\ (1..k) \ {k} = 1..(k - 1)
      BY <1>1, PrefixFacts
    <3>2. g[1..k] = FromDonor(g[1..(k - 1)], Donors[k], settled)
      BY <1>7, <3>1
    <3> QED
      BY <1>4, <2>2, <3>2
  <2> QED
    BY <2>1, <2>2 DEF FoldsPrefixes
<1> HIDE DEF Rec
<1>10. PICK a \in [0..n -> Budgeted] : IsPath(a, n, none, step, g)
  BY <1>1, <1>3, <1>9, FoldPath
<1>11. \A k \in 1..n : a[k] = FromDonor(a[k - 1], Donors[k], settled)
  <2>1. \A k \in 1..n : a[k - 1] \in Budgeted /\ a[k] = step[<<a[k - 1], k>>]
    BY <1>1, <1>10 DEF IsPath
  <2> QED
    BY <1>4, <2>1
<1>12. a[0] = none /\ TakeDonors(settled, deficit) = a[n].taken
  BY <1>8, <1>10 DEF IsPath
<1> QED
  BY <1>0, <1>11, <1>12 DEF IsDonating

\* Donors give settled miners, from pools that are not short, and no more than the deficit.
LEMMA DonatedFacts ==
    ASSUME TypeOK, NEW settled \in SUBSET Miners, NEW deficit \in Nat
    PROVE  /\ TakeDonors(settled, deficit) \in Seq(Miners)
           /\ ToSet(TakeDonors(settled, deficit)) \subseteq {m \in settled : ~NeedsHashrate(home[m])}
           /\ RateOf(ToSet(TakeDonors(settled, deficit))) <= deficit
<1>0. PICK n, T : n = Len(Donors) /\ T = {m \in settled : ~NeedsHashrate(home[m])}
  OBVIOUS
<1>1. n \in Nat /\ DOMAIN Donors = 1..n /\ \A k \in 1..n : ~NeedsHashrate(Donors[k])
  <2>1. n \in Nat /\ DOMAIN Donors = 1..n
    BY <1>0, DonorFacts
  <2>2. \A k \in 1..n : Donors[k] \in ToSet(Donors)
    BY <2>1 DEF ToSet
  <2> QED
    BY <2>1, <2>2, DonorFacts
<1>2. PICK a \in [0..Len(Donors) -> Budgeted] : IsDonating(a, settled, deficit)
  <2>1. deficit \in Int
    OBVIOUS
  <2> QED
    BY <2>1, DonatingRuns
<1>3. /\ a \in [0..n -> Budgeted] /\ a[0] = [taken |-> <<>>, left |-> deficit]
      /\ \A k \in 1..n : a[k] = FromDonor(a[k - 1], Donors[k], settled)
      /\ TakeDonors(settled, deficit) = a[n].taken
  BY <1>0, <1>2 DEF IsDonating
<1> DEFINE Good(v) == /\ v.left \in Nat
                      /\ ToSet(v.taken) \subseteq T
                      /\ RateOf(ToSet(v.taken)) <= deficit - v.left
<1>4. PICK S : S = {k \in 0..n : Good(a[k])}
  OBVIOUS
<1>5. 0 \in S
  <2>1. a[0].taken = <<>> /\ a[0].left = deficit
    BY <1>3
  <2>2. ToSet(a[0].taken) = {}
    BY <2>1 DEF ToSet
  <2>3. RateOf(ToSet(a[0].taken)) = 0
    BY <2>2, RateEmpty
  <2>4. Good(a[0])
    BY <2>1, <2>2, <2>3
  <2> QED
    BY <1>1, <1>4, <2>4
<1>6. ASSUME NEW k \in 0..n, k \in S, k # n PROVE k + 1 \in S
  <2>1. PICK j \in 1..n : j = k + 1 /\ j - 1 = k /\ j \in 0..n
    BY <1>1, <1>6
  <2>2. PICK v, p, ms : v = a[k] /\ p = Donors[j] /\ ms = MinersOf(p, settled)
    OBVIOUS
  <2>3. v \in Budgeted /\ Good(v) /\ ~NeedsHashrate(p) /\ a[j] = FromDonor(v, p, settled)
    BY <1>1, <1>3, <1>4, <1>6, <2>1, <2>2
  <2>4. ms \in Seq(Miners) /\ ToSet(ms) \subseteq T
    <3>1. ms \in Seq(Miners) /\ ToSet(ms) = {m \in settled : home[m] = p}
      BY <2>2, MinersOfFacts
    <3> QED
      BY <1>0, <2>3, <3>1
  <2>5. PICK g : g = Take(ms, v.left, EnoughBelow)
    OBVIOUS
  <2>6. v.left \in Nat
    BY <2>3
  <2>7. /\ g.taken \in Seq(Miners) /\ g.left \in Nat
        /\ ToSet(g.taken) \subseteq ToSet(ms)
        /\ RateOf(ToSet(g.taken)) <= v.left - g.left
    BY <2>4, <2>5, <2>6, TakeFacts
  <2>8. a[j] = [taken |-> v.taken \o g.taken, left |-> g.left]
    BY <2>2, <2>3, <2>5 DEF FromDonor
  <2>9. ToSet(v.taken \o g.taken) = ToSet(v.taken) \cup ToSet(g.taken)
    <3>1. v.taken \in Seq(Miners)
      BY <2>3 DEF Budgeted
    <3> QED
      BY <2>7, <3>1, ConcatFacts
  <2>10. PICK x, y, z : /\ x = RateOf(ToSet(v.taken)) /\ y = RateOf(ToSet(g.taken))
                        /\ z = RateOf(ToSet(v.taken) \cup ToSet(g.taken))
    OBVIOUS
  <2>11. x \in Nat /\ y \in Nat /\ z \in Nat /\ z <= x + y
    BY <2>10, RateNat, RateAtMost
  <2>12. x <= deficit - v.left /\ y <= v.left - g.left
    BY <2>3, <2>7, <2>10
  <2>13. z <= deficit - g.left
    BY <2>6, <2>7, <2>11, <2>12
  <2>14. Good(a[j])
    <3>1. PICK w : w = v.taken \o g.taken
      OBVIOUS
    <3>2. a[j].left = g.left /\ a[j].taken = w
      <4>1. PICK b, u : b = g.left /\ u = a[j]
        OBVIOUS
      <4>2. u = [taken |-> w, left |-> b]
        BY <2>8, <3>1, <4>1
      <4>3. u.left = b /\ u.taken = w
        BY <4>2
      <4> QED
        BY <4>1, <4>3
    <3>3. ToSet(w) \subseteq T
      BY <2>3, <2>4, <2>7, <2>9, <3>1
    <3>4. RateOf(ToSet(w)) = z
      BY <2>9, <2>10, <3>1
    <3> QED
      BY <2>7, <2>13, <3>2, <3>3, <3>4
  <2> QED
    BY <1>4, <2>1, <2>14
<1>7. n \in S
  <2>1. Inductive(S, n)
    BY <1>5, <1>6 DEF Inductive
  <2> QED
    BY <1>1, <2>1, IndexInduction
<1>8. a[n] \in Budgeted /\ Good(a[n])
  BY <1>1, <1>3, <1>4, <1>7
<1>9. RateOf(ToSet(a[n].taken)) <= deficit
  BY <1>8, RateNat
<1> QED
  BY <1>0, <1>3, <1>8, <1>9 DEF Budgeted

-----------------------------------------------------------------------------
(* Who goes where.                                                          *)

\* The accumulator of planPoolRebalance.
PlanSoFar == [freed : Seq(Miners), settled : SUBSET Miners, at : [Miners -> PoolSet]]

\* The miners an allocation moves: own of the freed ones, don of the settled ones.
IsAllocation(v, w, p, own, don) ==
    /\ own \subseteq ToSet(v.freed)
    /\ don \subseteq {m \in v.settled : ~NeedsHashrate(home[m])}
    /\ ToSet(w.freed) = ToSet(v.freed) \ own
    /\ w.settled = v.settled \ don
    /\ w.at = [m \in Miners |-> IF m \in own \cup don THEN p ELSE v.at[m]]

LEMMA AllocateFacts ==
    ASSUME TypeOK, ActivePools # <<>>, NEW v \in PlanSoFar, NEW p \in PoolSet, NeedsHashrate(p)
    PROVE  /\ Allocate(v, p) \in PlanSoFar
           /\ \E own \in SUBSET Miners, don \in SUBSET Miners :
                /\ IsAllocation(v, Allocate(v, p), p, own, don)
                /\ RateOf(own \cup don) <= IdealRate(p) - Hashrate(home, p)
<1>1. v.freed \in Seq(Miners) /\ v.settled \in SUBSET Miners /\ v.at \in [Miners -> PoolSet]
  BY DEF PlanSoFar
<1>2. PICK b : b = IdealRate(p) - Hashrate(home, p)
  OBVIOUS
<1>3. b \in Nat
  BY <1>2, IdealFacts DEF NeedsHashrate
<1>4. PICK r : r = Take(v.freed, b, 0)
  OBVIOUS
<1>5. /\ r.taken \in Seq(Miners) /\ r.left \in Nat
      /\ ToSet(r.taken) \subseteq ToSet(v.freed)
      /\ RateOf(ToSet(r.taken)) <= b - r.left
  BY <1>1, <1>3, <1>4, TakeFacts
<1>6. PICK d : d = IF r.left > TakeDonorsAbove THEN TakeDonors(v.settled, r.left) ELSE <<>>
  OBVIOUS
<1>7. /\ d \in Seq(Miners)
      /\ ToSet(d) \subseteq {m \in v.settled : ~NeedsHashrate(home[m])}
      /\ RateOf(ToSet(d)) <= r.left
  <2>1. CASE r.left > TakeDonorsAbove
    BY <1>1, <1>5, <1>6, <2>1, DonatedFacts
  <2>2. CASE ~(r.left > TakeDonorsAbove)
    <3>1. d = <<>> /\ ToSet(d) = {}
      BY <1>6, <2>2 DEF ToSet
    <3>2. RateOf(ToSet(d)) = 0
      BY <3>1, RateEmpty
    <3> QED
      BY <1>5, <3>1, <3>2
  <2> QED
    BY <2>1, <2>2
<1>8. PICK own, don, fr : own = ToSet(r.taken) /\ don = ToSet(d) /\ fr = Only(v.freed, Miners \ own)
  OBVIOUS
<1>9. own \in SUBSET Miners /\ don \in SUBSET Miners /\ ToSet(v.freed) \subseteq Miners
  BY <1>1, <1>5, <1>7, <1>8 DEF ToSet
<1>10. fr \in Seq(Miners) /\ ToSet(fr) = ToSet(v.freed) \ own
  <2>1. fr \in Seq(Miners) /\ ToSet(fr) = ToSet(v.freed) \cap (Miners \ own)
    BY <1>1, <1>8, OnlyFacts
  <2> QED
    BY <1>9, <2>1
<1>11. PICK at : at = [m \in Miners |-> IF m \in own \cup don THEN p ELSE v.at[m]]
  OBVIOUS
<1>12. at \in [Miners -> PoolSet]
  BY <1>1, <1>11
<1>13. MovedTo(v.at, r.taken \o d, p) = at
  <2>1. ToSet(r.taken \o d) = own \cup don
    BY <1>5, <1>7, <1>8, ConcatFacts
  <2> QED
    BY <1>11, <2>1 DEF MovedTo
<1>14. Allocate(v, p) = [freed |-> fr, settled |-> v.settled \ don, at |-> at]
  BY <1>2, <1>4, <1>6, <1>8, <1>13 DEF Allocate
<1>15. PICK w : w = Allocate(v, p)
  OBVIOUS
<1>16. w.freed = fr /\ w.settled = v.settled \ don /\ w.at = at
  BY <1>14, <1>15
<1>17. w \in PlanSoFar
  BY <1>1, <1>10, <1>12, <1>14, <1>15 DEF PlanSoFar
<1>18. IsAllocation(v, w, p, own, don)
  BY <1>5, <1>7, <1>8, <1>10, <1>11, <1>16 DEF IsAllocation
<1>19. RateOf(own \cup don) <= b
  <2>1. RateOf(own \cup don) <= RateOf(own) + RateOf(don)
    BY RateAtMost
  <2>2. RateOf(own \cup don) \in Nat /\ RateOf(own) \in Nat /\ RateOf(don) \in Nat
    BY RateNat
  <2> QED
    BY <1>3, <1>5, <1>7, <1>8, <2>1, <2>2
<1> QED
  BY <1>2, <1>9, <1>15, <1>17, <1>18, <1>19

\* Where planPoolRebalance starts.
PlanStart == [freed |-> FreedMiners, settled |-> Miners \ Freed, at |-> home]

\* a is what it goes through, one pool that is short after another.
IsPlanning(a) ==
    /\ a[0] = PlanStart
    /\ \A k \in 1..Len(LowPools) : a[k] = Allocate(a[k - 1], LowPools[k])
    /\ Plan = Remainder(a[Len(LowPools)])

LEMMA PlanningRuns ==
    ASSUME TypeOK, ActivePools # <<>>
    PROVE  \E a \in [0..Len(LowPools) -> PlanSoFar] : IsPlanning(a)
<1>0. PICK n : n = Len(LowPools)
  OBVIOUS
<1>1. n \in Nat /\ DOMAIN LowPools = 1..n
  BY <1>0, LowFacts
<1>2. \A i \in 1..n : LowPools[i] \in PoolSet /\ NeedsHashrate(LowPools[i])
  <2>1. \A i \in 1..n : LowPools[i] \in ToSet(LowPools)
    BY <1>1 DEF ToSet
  <2> QED
    BY <2>1, LowFacts
<1>3. PlanStart \in PlanSoFar
  <2>1. FreedMiners \in Seq(Miners) /\ home \in [Miners -> PoolSet] /\ Miners \ Freed \in SUBSET Miners
    BY FreedFacts, RateTypes
  <2> QED
    BY <2>1 DEF PlanStart, PlanSoFar
<1>4. PICK step : step = [t \in PlanSoFar \X (1..n) |-> Allocate(t[1], LowPools[t[2]])]
  OBVIOUS
<1>5. \A v \in PlanSoFar, i \in 1..n : step[<<v, i>>] = Allocate(v, LowPools[i])
  BY <1>4
<1>6. \A v \in PlanSoFar, i \in 1..n : Allocate(v, LowPools[i]) \in PlanSoFar
  BY <1>2, AllocateFacts
<1>7. step \in [PlanSoFar \X (1..n) -> PlanSoFar]
  BY <1>4, <1>6
<1> DEFINE Rec(h) == h = [s \in SUBSET (1..n) |->
                            IF s = {} THEN PlanStart ELSE Allocate(h[s \ {Max(s)}], LowPools[Max(s)])]
<1>8. \E h : Rec(h)
  <2>1. PICK h \in [SUBSET (1..n) -> PlanSoFar] : IsFold(h, n, PlanStart, step)
    BY <1>1, <1>3, <1>7, FoldExists
  <2>2. ASSUME NEW s \in SUBSET (1..n), s # {}
        PROVE  h[s] = Allocate(h[s \ {Max(s)}], LowPools[Max(s)])
    <3>1. Max(s) \in 1..n /\ h[s \ {Max(s)}] \in PlanSoFar
      BY <1>1, <2>2, MaxExists
    <3> QED
      BY <1>5, <2>1, <2>2, <3>1 DEF IsFold
  <2>3. Rec(h)
    BY <2>1, <2>2 DEF IsFold
  <2> QED
    BY <2>3
<1>9. PICK g : g = CHOOSE h : Rec(h)
  OBVIOUS
<1>10. Rec(g)
  BY <1>8, <1>9
<1>11. Plan = Remainder(g[1..n])
  <2>1. FoldLeft(Allocate, PlanStart, LowPools) = g[1..n]
    BY <1>1, <1>9 DEF FoldLeft, MapThenFoldSet
  <2>2. Plan = Remainder(FoldLeft(Allocate, PlanStart, LowPools))
    BY DEF Plan, PlanStart, Freed
  <2> QED
    BY <2>1, <2>2
<1>12. FoldsPrefixes(g, n, PlanSoFar, PlanStart, step)
  <2>1. g[{}] = PlanStart
    BY <1>10
  <2>2. ASSUME NEW k \in 1..n, g[1..(k - 1)] \in PlanSoFar
        PROVE  g[1..k] = step[<<g[1..(k - 1)], k>>]
    <3>1. 1..k \in SUBSET (1..n) /\ 1..k # {} /\ Max(1..k) = k /\ (1..k) \ {k} = 1..(k - 1)
      BY <1>1, PrefixFacts
    <3>2. g[1..k] = Allocate(g[1..(k - 1)], LowPools[k])
      BY <1>10, <3>1
    <3> QED
      BY <1>5, <2>2, <3>2
  <2> QED
    BY <2>1, <2>2 DEF FoldsPrefixes
<1> HIDE DEF Rec
<1>13. PICK a \in [0..n -> PlanSoFar] : IsPath(a, n, PlanStart, step, g)
  BY <1>1, <1>3, <1>7, <1>12, FoldPath
<1>14. \A k \in 1..n : a[k] = Allocate(a[k - 1], LowPools[k])
  <2>1. \A k \in 1..n : a[k - 1] \in PlanSoFar /\ a[k] = step[<<a[k - 1], k>>]
    BY <1>1, <1>13 DEF IsPath
  <2> QED
    BY <1>5, <2>1
<1>15. a[0] = PlanStart /\ Plan = Remainder(a[n])
  BY <1>11, <1>13 DEF IsPath
<1> QED
  BY <1>0, <1>14, <1>15 DEF IsPlanning

\* The miners an allocation has moved so far.
Placed(v) == Miners \ (ToSet(v.freed) \cup v.settled)

\* What holds after the allocations to the first k pools that are short: whoever moved went to
\* one of these, was freed or sat on a pool that is not short, and no pool is past its target.
PlanInvariant(v, k) ==
    /\ ToSet(v.freed) \subseteq Freed
    /\ v.settled \subseteq Miners \ Freed
    /\ \A m \in Miners \ Placed(v) : v.at[m] = home[m]
    /\ \A m \in Placed(v) : \E i \in 1..k : v.at[m] = LowPools[i]
    /\ \A m \in Placed(v) \ Freed : ~NeedsHashrate(home[m])
    /\ \A p \in PoolSet : NeedsHashrate(p) =>
         RateOf({m \in Placed(v) : v.at[m] = p}) <= IdealRate(p) - Hashrate(home, p)

LEMMA PlanStarts ==
    ASSUME TypeOK, ActivePools # <<>>
    PROVE  PlanInvariant(PlanStart, 0)
<1>1. PlanStart.freed = FreedMiners /\ PlanStart.settled = Miners \ Freed /\ PlanStart.at = home
  BY DEF PlanStart
<1>2. Placed(PlanStart) = {}
  BY <1>1 DEF Placed, Freed
<1>3. ASSUME NEW p \in PoolSet, NeedsHashrate(p)
      PROVE  RateOf({m \in Placed(PlanStart) : PlanStart.at[m] = p}) <= IdealRate(p) - Hashrate(home, p)
  <2>1. {m \in Placed(PlanStart) : PlanStart.at[m] = p} = {}
    BY <1>2
  <2>2. IdealRate(p) - Hashrate(home, p) \in Nat
    BY <1>3, IdealFacts DEF NeedsHashrate
  <2>3. RateOf({m \in Placed(PlanStart) : PlanStart.at[m] = p}) = 0
    BY <2>1, RateEmpty
  <2> QED
    BY <2>2, <2>3
<1> QED
  BY <1>1, <1>2, <1>3 DEF PlanInvariant, Freed

LEMMA PlanAdvances ==
    ASSUME TypeOK, ActivePools # <<>>, NEW v \in PlanSoFar, NEW k \in 0..Len(LowPools),
           k # Len(LowPools), PlanInvariant(v, k)
    PROVE  PlanInvariant(Allocate(v, LowPools[k + 1]), k + 1)
<1>0. PICK n, p, w : n = Len(LowPools) /\ p = LowPools[k + 1] /\ w = Allocate(v, p)
  OBVIOUS
<1>1. n \in Nat /\ DOMAIN LowPools = 1..n /\ k + 1 \in 1..n
  BY <1>0, LowFacts
<1>2. p \in PoolSet /\ NeedsHashrate(p)
  <2>1. p \in ToSet(LowPools)
    BY <1>0, <1>1 DEF ToSet
  <2> QED
    BY <2>1, LowFacts
<1>3. \A i \in 1..k : LowPools[i] # p /\ i \in 1..(k + 1)
  <2>1. \A i \in 1..k : i \in DOMAIN LowPools /\ k + 1 \in DOMAIN LowPools /\ i # k + 1 /\ i \in 1..(k + 1)
    BY <1>1
  <2>2. IsInjective(LowPools)
    BY LowFacts
  <2> QED
    BY <1>0, <2>1, <2>2 DEF IsInjective
<1>4. PICK own \in SUBSET Miners, don \in SUBSET Miners :
        /\ IsAllocation(v, w, p, own, don)
        /\ RateOf(own \cup don) <= IdealRate(p) - Hashrate(home, p)
  BY <1>0, <1>2, AllocateFacts
<1>5. /\ own \subseteq ToSet(v.freed)
      /\ don \subseteq v.settled /\ \A m \in don : ~NeedsHashrate(home[m])
      /\ ToSet(w.freed) = ToSet(v.freed) \ own
      /\ w.settled = v.settled \ don
      /\ w.at = [m \in Miners |-> IF m \in own \cup don THEN p ELSE v.at[m]]
  BY <1>4 DEF IsAllocation
<1>6. /\ ToSet(v.freed) \subseteq Freed
      /\ v.settled \subseteq Miners \ Freed
      /\ \A m \in Miners \ Placed(v) : v.at[m] = home[m]
      /\ \A m \in Placed(v) : \E i \in 1..k : v.at[m] = LowPools[i]
      /\ \A m \in Placed(v) \ Freed : ~NeedsHashrate(home[m])
      /\ \A q \in PoolSet : NeedsHashrate(q) =>
           RateOf({m \in Placed(v) : v.at[m] = q}) <= IdealRate(q) - Hashrate(home, q)
  BY DEF PlanInvariant
<1>7. /\ Placed(w) = Placed(v) \cup (own \cup don)
      /\ Placed(v) \cap (own \cup don) = {}
      /\ own \subseteq Freed
  BY <1>5, <1>6, FreedFacts DEF Placed
<1>8. Placed(v) \in SUBSET Miners
  BY DEF Placed
<1>9. /\ \A m \in own \cup don : w.at[m] = p
      /\ \A m \in Miners : m \notin own \cup don => w.at[m] = v.at[m]
  BY <1>5
<1>10. \A m \in Miners \ Placed(w) : w.at[m] = home[m]
  BY <1>6, <1>7, <1>9
<1>11. \A m \in Placed(w) : \E i \in 1..(k + 1) : w.at[m] = LowPools[i]
  <2>1. ASSUME NEW m \in own \cup don PROVE \E i \in 1..(k + 1) : w.at[m] = LowPools[i]
    <3>1. w.at[m] = LowPools[k + 1] /\ k + 1 \in 1..(k + 1)
      BY <1>0, <1>9, <2>1
    <3> QED
      BY <3>1
  <2>2. ASSUME NEW m \in Placed(v) PROVE \E i \in 1..(k + 1) : w.at[m] = LowPools[i]
    <3>1. w.at[m] = v.at[m]
      BY <1>7, <1>8, <1>9
    <3> QED
      BY <1>3, <1>6, <3>1
  <2> QED
    BY <1>7, <2>1, <2>2
<1>12. \A m \in Placed(w) \ Freed : ~NeedsHashrate(home[m])
  BY <1>5, <1>6, <1>7
<1>13. ASSUME NEW q \in PoolSet, NeedsHashrate(q)
       PROVE  RateOf({m \in Placed(w) : w.at[m] = q}) <= IdealRate(q) - Hashrate(home, q)
  <2>1. CASE q = p
    <3>1. \A m \in Placed(v) : w.at[m] # p
      BY <1>3, <1>6, <1>7, <1>8, <1>9
    <3>2. {m \in Placed(w) : w.at[m] = q} = own \cup don
      BY <1>7, <1>9, <2>1, <3>1
    <3> QED
      BY <1>4, <2>1, <3>2
  <2>2. CASE q # p
    <3>1. {m \in Placed(w) : w.at[m] = q} = {m \in Placed(v) : v.at[m] = q}
      BY <1>7, <1>8, <1>9, <2>2
    <3> QED
      BY <1>6, <1>13, <3>1
  <2> QED
    BY <2>1, <2>2
<1>14. ToSet(w.freed) \subseteq Freed /\ w.settled \subseteq Miners \ Freed
  BY <1>5, <1>6
<1>15. PlanInvariant(w, k + 1)
  BY <1>10, <1>11, <1>12, <1>13, <1>14 DEF PlanInvariant
<1> QED
  BY <1>0, <1>15

\* own and rem are the freed miners that are moved, as allocated and as what remains, and don
\* those taken from donors.
IsPlan(own, don, rem) ==
    /\ own \cup rem \subseteq Freed /\ don \cap Freed = {} /\ own \cap rem = {}
    /\ \A m \in Miners \ (own \cup don \cup rem) : Plan[m] = home[m]
    /\ \A m \in own \cup don : NeedsHashrate(Plan[m])
    /\ \A m \in don : ~NeedsHashrate(home[m])
    /\ \A m \in rem : NeedsHashrate(Plan[m]) /\ Plan[m] # DevPool
    /\ \A p \in PoolSet : NeedsHashrate(p) =>
         RateOf({m \in own \cup don : Plan[m] = p}) <= IdealRate(p) - Hashrate(home, p)
    /\ Freed \subseteq own \cup rem \/ \A p \in PoolSet \ {DevPool} : ~NeedsHashrate(p)

LEMMA PlanFacts ==
    ASSUME TypeOK, ActivePools # <<>>
    PROVE  /\ Plan \in [Miners -> PoolSet]
           /\ \E own \in SUBSET Miners, don \in SUBSET Miners, rem \in SUBSET Miners :
                IsPlan(own, don, rem)
<1>0. PICK n : n = Len(LowPools)
  OBVIOUS
<1>1. n \in Nat /\ DOMAIN LowPools = 1..n
  BY <1>0, LowFacts
<1>2. PICK a \in [0..Len(LowPools) -> PlanSoFar] : IsPlanning(a)
  BY PlanningRuns
<1>3. /\ a \in [0..n -> PlanSoFar] /\ a[0] = PlanStart /\ Plan = Remainder(a[n])
      /\ \A k \in 1..n : a[k] = Allocate(a[k - 1], LowPools[k])
  BY <1>0, <1>2 DEF IsPlanning
<1>4. PICK S : S = {k \in 0..n : PlanInvariant(a[k], k)}
  OBVIOUS
<1>5. n \in S
  <2>1. 0 \in S
    BY <1>1, <1>3, <1>4, PlanStarts
  <2>2. ASSUME NEW k \in 0..n, k \in S, k # n PROVE k + 1 \in S
    <3>1. PICK j \in 1..n : j = k + 1 /\ j - 1 = k /\ j \in 0..n
      BY <1>1, <2>2
    <3>2. a[k] \in PlanSoFar /\ PlanInvariant(a[k], k) /\ a[j] = Allocate(a[k], LowPools[k + 1])
      BY <1>3, <1>4, <2>2, <3>1
    <3>3. PlanInvariant(Allocate(a[k], LowPools[k + 1]), k + 1)
      BY <1>0, <2>2, <3>2, PlanAdvances
    <3> QED
      BY <1>4, <3>1, <3>2, <3>3
  <2>3. Inductive(S, n)
    BY <2>1, <2>2 DEF Inductive
  <2> QED
    BY <1>1, <2>3, IndexInduction
<1>6. PICK v : v = a[n]
  OBVIOUS
<1>7. v \in PlanSoFar /\ PlanInvariant(v, n) /\ Plan = Remainder(v)
  BY <1>1, <1>3, <1>4, <1>5, <1>6
<1>8. v.freed \in Seq(Miners) /\ v.settled \in SUBSET Miners /\ v.at \in [Miners -> PoolSet]
  BY <1>7 DEF PlanSoFar
<1>9. /\ ToSet(v.freed) \subseteq Freed
      /\ v.settled \subseteq Miners \ Freed
      /\ \A m \in Miners \ Placed(v) : v.at[m] = home[m]
      /\ \A m \in Placed(v) : \E i \in 1..n : v.at[m] = LowPools[i]
      /\ \A m \in Placed(v) \ Freed : ~NeedsHashrate(home[m])
      /\ \A p \in PoolSet : NeedsHashrate(p) =>
           RateOf({m \in Placed(v) : v.at[m] = p}) <= IdealRate(p) - Hashrate(home, p)
  BY <1>7 DEF PlanInvariant
<1>10. \A i \in 1..n : NeedsHashrate(LowPools[i])
  <2>1. \A i \in 1..n : LowPools[i] \in ToSet(LowPools)
    BY <1>1 DEF ToSet
  <2> QED
    BY <2>1, LowFacts
<1>11. PICK own, don, left : own = Placed(v) \cap Freed /\ don = Placed(v) \ Freed /\ left = ToSet(v.freed)
  OBVIOUS
<1>12. /\ own \in SUBSET Miners /\ don \in SUBSET Miners /\ left \in SUBSET Miners
       /\ own \cup left = Freed /\ don \cap Freed = {} /\ own \cap left = {} /\ don \cap left = {}
       /\ own \cup don = Placed(v)
  BY <1>9, <1>11, FreedFacts DEF Placed
<1>13. \A m \in own \cup don : NeedsHashrate(v.at[m])
  BY <1>9, <1>10, <1>12
<1>14. PICK low : low = Only(LowPools, PoolSet \ {DevPool})
  OBVIOUS
<1>15. low \in Seq(PoolSet) /\ ToSet(low) = {p \in PoolSet \ {DevPool} : NeedsHashrate(p)}
  <2>1. low \in Seq(PoolSet) /\ ToSet(low) = ToSet(LowPools) \cap (PoolSet \ {DevPool})
    BY <1>14, LowFacts, OnlyFacts
  <2> QED
    BY <2>1, LowFacts
<1>16. CASE low = <<>>
  <2>1. Plan = v.at
    BY <1>7, <1>14, <1>16 DEF Remainder
  <2>2. \A p \in PoolSet \ {DevPool} : ~NeedsHashrate(p)
    <3>1. ToSet(low) = {}
      BY <1>16 DEF ToSet
    <3> QED
      BY <1>15, <3>1
  <2>3. IsPlan(own, don, {})
    BY <1>9, <1>11, <1>12, <1>13, <2>1, <2>2 DEF IsPlan
  <2>4. {} \in SUBSET Miners
    OBVIOUS
  <2> QED
    BY <1>8, <1>12, <2>1, <2>3, <2>4
<1>17. CASE low # <<>>
  <2>1. PICK d : d = Head(low)
    OBVIOUS
  <2>2. d \in PoolSet /\ NeedsHashrate(d) /\ d # DevPool
    <3>1. 1 \in DOMAIN low /\ d = low[1]
      BY <1>15, <1>17, <2>1
    <3>2. d \in ToSet(low)
      BY <3>1 DEF ToSet
    <3> QED
      BY <1>15, <3>2
  <2>3. Plan = [m \in Miners |-> IF m \in left THEN d ELSE v.at[m]]
    BY <1>7, <1>11, <1>14, <1>17, <2>1 DEF Remainder, MovedTo
  <2>4. Plan \in [Miners -> PoolSet]
    BY <1>8, <2>2, <2>3
  <2>5. \A m \in Miners : Plan[m] = IF m \in left THEN d ELSE v.at[m]
    BY <2>3
  <2>6. \A m \in Miners \ (own \cup don \cup left) : Plan[m] = home[m]
    BY <1>9, <1>12, <2>5
  <2>7. \A m \in own \cup don : Plan[m] = v.at[m]
    BY <1>12, <2>5
  <2>8. \A p \in PoolSet : {m \in own \cup don : Plan[m] = p} = {m \in Placed(v) : v.at[m] = p}
    BY <1>12, <2>7
  <2>9. \A m \in left : NeedsHashrate(Plan[m]) /\ Plan[m] # DevPool
    BY <1>12, <2>2, <2>5
  <2>10. \A m \in own \cup don : NeedsHashrate(Plan[m])
    BY <1>13, <2>7
  <2>11. IsPlan(own, don, left)
    BY <1>9, <1>11, <1>12, <2>6, <2>8, <2>9, <2>10 DEF IsPlan
  <2> QED
    BY <1>12, <2>4, <2>11
<1> QED
  BY <1>16, <1>17

-----------------------------------------------------------------------------
(* The invariants.                                                          *)

LEMMA NoPlanNoMove ==
    ASSUME ActivePools = <<>>
    PROVE  Plan = home
BY DEF Plan

LEMMA TypeInductive ==
    ASSUME TypeOK, [Next]_vars
    PROVE  TypeOK'
<1>1. usable \subseteq PoolSet /\ home \in [Miners -> PoolSet] /\ rate \in [Miners -> Rates]
  BY DEF TypeOK
<1>2. CASE BalanceWorkers
  <2>1. Plan \in [Miners -> PoolSet]
    <3>1. CASE ActivePools = <<>>
      BY <1>1, <3>1, NoPlanNoMove
    <3>2. CASE ActivePools # <<>>
      BY <3>2, PlanFacts
    <3> QED
      BY <3>1, <3>2
  <2>2. home' = Plan /\ usable' = usable /\ rate' = rate
    BY <1>2 DEF BalanceWorkers
  <2> HIDE DEF Plan
  <2> QED
    BY <1>1, <2>1, <2>2 DEF TypeOK, Miners, PoolSet
<1>3. CASE \E p \in PoolSet : PoolChanges(p)
  BY <1>1, <1>3 DEF PoolChanges, TypeOK, Miners, PoolSet
<1>4. CASE \E m \in Miners, r \in Rates : SpeedChanges(m, r)
  BY <1>1, <1>4 DEF SpeedChanges, TypeOK, Miners, PoolSet
<1>5. CASE UNCHANGED vars
  BY <1>1, <1>5 DEF vars, TypeOK, Miners, PoolSet
<1> QED
  BY <1>2, <1>3, <1>4, <1>5 DEF Next

\* Types hold for any pools, miners and rates: the plan of a balancing puts every miner on a
\* pool of the configuration (balance.js, planPoolRebalance).
THEOREM TypeCorrect == Spec => []TypeOK
<1>1. Init => TypeOK
  BY DEF Init, TypeOK
<1>2. TypeOK /\ [Next]_vars => TypeOK'
  BY TypeInductive
<1> QED
  BY <1>1, <1>2, PTL DEF Spec

LEMMA DeadEmptied ==
    ASSUME TypeOK
    PROVE  DeadPoolsEmptied
<1> SUFFICES ASSUME NEW m \in Miners, rate[m] > 0, Plan[m] \notin usable,
                    NEW p \in ToSet(ActivePools)
             PROVE  ~NeedsHashrate(p)
  BY DEF DeadPoolsEmptied
<1>1. ActivePools # <<>>
  BY DEF ToSet
<1>2. p \in PoolSet \ {DevPool}
  BY PoolFacts
<1>3. PICK own \in SUBSET Miners, don \in SUBSET Miners, rem \in SUBSET Miners :
        IsPlan(own, don, rem)
  BY <1>1, PlanFacts
<1>4. ~NeedsHashrate(Plan[m])
  BY DEF NeedsHashrate
<1>5. m \notin own \cup don \cup rem /\ Plan[m] = home[m]
  BY <1>3, <1>4 DEF IsPlan
<1>6. m \in Freed
  BY <1>1, <1>5, FreedFacts
<1> QED
  BY <1>2, <1>3, <1>5, <1>6 DEF IsPlan

\* After every balancing a miner that works sits on an unusable pool only if no user pool is
\* short of hashrate, whatever the pools, shares and rates (balance.js, freePoolMiners with
\* force and distributeRemainingMiners).
THEOREM DeadPoolsEmptiedHolds == Spec => []DeadPoolsEmptied
<1>1. TypeOK => DeadPoolsEmptied
  BY DeadEmptied
<1> QED
  BY <1>1, TypeCorrect, PTL

-----------------------------------------------------------------------------
(* The moves.                                                               *)

\* Only a balancing moves miners, when there is a pool to move them to.
LEMMA MovesAreBalancing ==
    ASSUME TypeOK, [Next]_vars, Moved # {}
    PROVE  home' = Plan /\ ActivePools # <<>>
<1>1. home' # home
  BY DEF Moved
<1>2. BalanceWorkers
  BY <1>1 DEF Next, PoolChanges, SpeedChanges, vars
<1>3. home' = Plan
  BY <1>2 DEF BalanceWorkers
<1>4. ActivePools # <<>>
  BY <1>1, <1>3, NoPlanNoMove
<1> QED
  BY <1>3, <1>4

\* A pool has not both too much and too little.
LEMMA NotBoth ==
    ASSUME TypeOK, ActivePools # <<>>, NEW p \in PoolSet, HasExcess(p)
    PROVE  ~NeedsHashrate(p)
<1>1. IdealRate(p) \in Int /\ Hashrate(home, p) \in Int
  BY IdealFacts
<1> QED
  BY <1>1 DEF HasExcess, NeedsHashrate

\* The miners moved are those of the plan, from pools not short to pools that are.
LEMMA PlanMoves ==
    ASSUME TypeOK, ActivePools # <<>>, NEW own \in SUBSET Miners, NEW don \in SUBSET Miners,
           NEW rem \in SUBSET Miners, IsPlan(own, don, rem)
    PROVE  /\ {m \in Miners : Plan[m] # home[m]} = own \cup don \cup rem
           /\ \A m \in own \cup don \cup rem : NeedsHashrate(Plan[m]) /\ ~NeedsHashrate(home[m])
<1>1. ASSUME NEW m \in own \cup don \cup rem
      PROVE  NeedsHashrate(Plan[m]) /\ ~NeedsHashrate(home[m])
  <2>1. NeedsHashrate(Plan[m])
    BY DEF IsPlan
  <2>2. m \in Freed => HasExcess(home[m]) /\ home[m] \in PoolSet
    BY FreedFacts, RateTypes
  <2>3. m \in Freed => ~NeedsHashrate(home[m])
    BY <2>2, NotBoth
  <2> QED
    BY <2>1, <2>3 DEF IsPlan
<1>2. \A m \in own \cup don \cup rem : Plan[m] # home[m]
  <2>1. ASSUME NEW m \in own \cup don \cup rem, Plan[m] = home[m] PROVE FALSE
    <3>1. NeedsHashrate(Plan[m]) /\ ~NeedsHashrate(home[m])
      BY <1>1
    <3> QED
      BY <2>1, <3>1
  <2> QED
    BY <2>1
<1>3. \A m \in Miners : Plan[m] # home[m] => m \in own \cup don \cup rem
  BY DEF IsPlan
<1> QED
  BY <1>1, <1>2, <1>3

LEMMA MovesUseful ==
    ASSUME TypeOK, [Next]_vars
    PROVE  \A m \in Moved : NeedsHashrate(home'[m]) /\ ~NeedsHashrate(home[m])
<1> SUFFICES ASSUME NEW m \in Moved
             PROVE  NeedsHashrate(home'[m]) /\ ~NeedsHashrate(home[m])
  OBVIOUS
<1>1. home' = Plan /\ ActivePools # <<>>
  BY MovesAreBalancing
<1>2. PICK own \in SUBSET Miners, don \in SUBSET Miners, rem \in SUBSET Miners :
        IsPlan(own, don, rem)
  BY <1>1, PlanFacts
<1>3. m \in {x \in Miners : Plan[x] # home[x]}
  BY <1>1 DEF Moved
<1>4. NeedsHashrate(Plan[m]) /\ ~NeedsHashrate(home[m])
  BY <1>1, <1>2, <1>3, PlanMoves
<1> QED
  BY <1>1, <1>4

\* Every move of every balancing goes from a pool that is not short to a usable one that is
\* (balance.js, allocateFreedMiners and takeDonorMiners).
THEOREM MovesAreUsefulHolds == Spec => MovesAreUseful
<1>1. TypeOK /\ [Next]_vars =>
        [\A m \in Moved : NeedsHashrate(home'[m]) /\ ~NeedsHashrate(home[m])]_vars
  BY MovesUseful
<1> QED
  BY <1>1, TypeCorrect, PTL DEF Spec, MovesAreUseful

LEMMA MovesRespectShares ==
    ASSUME TypeOK, [Next]_vars
    PROVE  \A m \in Moved :
             IF home'[m] = DevPool THEN Hashrate(home', DevPool) <= DevRate
             ELSE TotalShare > 0 => Share[home'[m]] > 0
<1> SUFFICES ASSUME NEW m \in Moved
             PROVE  IF home'[m] = DevPool THEN Hashrate(home', DevPool) <= DevRate
                    ELSE TotalShare > 0 => Share[home'[m]] > 0
  OBVIOUS
<1>1. home' = Plan /\ ActivePools # <<>>
  BY MovesAreBalancing
<1>2. PICK own \in SUBSET Miners, don \in SUBSET Miners, rem \in SUBSET Miners :
        IsPlan(own, don, rem)
  BY <1>1, PlanFacts
<1>3. PICK p : p = Plan[m]
  OBVIOUS
<1>4. m \in {x \in Miners : Plan[x] # home[x]}
  BY <1>1 DEF Moved
<1>5. p \in PoolSet /\ NeedsHashrate(p)
  <2>1. p \in PoolSet
    BY <1>1, <1>3, <1>4, PlanFacts
  <2> QED
    BY <1>1, <1>2, <1>3, <1>4, <2>1, PlanMoves
<1>6. /\ IdealRate(p) \in Int /\ Hashrate(home, p) \in Nat /\ TotalShare \in Nat
      /\ p # DevPool /\ TotalShare > 0 /\ Share[p] = 0 => IdealRate(p) = 0
  BY <1>1, <1>5, IdealFacts
<1>7. IdealRate(p) > Hashrate(home, p)
  BY <1>5 DEF NeedsHashrate
<1>8. CASE p = DevPool
  <2>1. PICK here, new : here = {x \in Miners : home[x] = p} /\ new = {x \in own \cup don : Plan[x] = p}
    OBVIOUS
  <2>2. {x \in Miners : Plan[x] = p} \subseteq here \cup new
    BY <1>2, <1>8, <2>1 DEF IsPlan
  <2>3. RateOf(new) <= IdealRate(p) - Hashrate(home, p)
    BY <1>2, <1>5, <2>1 DEF IsPlan
  <2>4. RateOf(here) = Hashrate(home, p)
    BY <2>1 DEF Hashrate
  <2>5. RateOf({x \in Miners : Plan[x] = p}) <= RateOf(here \cup new)
    BY <2>2, RateMonotone
  <2>6. RateOf(here \cup new) <= RateOf(here) + RateOf(new)
    BY RateAtMost
  <2>7. PICK r : r = RateOf({x \in Miners : Plan[x] = p})
    OBVIOUS
  <2>8. r \in Nat /\ RateOf(here \cup new) \in Nat /\ RateOf(here) \in Nat /\ RateOf(new) \in Nat
    BY <2>7, RateNat
  <2>9. r <= IdealRate(p)
    BY <1>6, <2>3, <2>4, <2>5, <2>6, <2>7, <2>8
  <2>10. r = Hashrate(Plan, p)
    BY <2>7 DEF Hashrate
  <2>11. IdealRate(p) = DevRate
    BY <1>8 DEF IdealRate
  <2> QED
    BY <1>1, <1>3, <1>8, <2>9, <2>10, <2>11
<1>9. CASE p # DevPool
  <2>1. Share[p] \in Nat
    BY <1>5, <1>9, BalanceAssumption DEF PoolSet
  <2>2. TotalShare > 0 => Share[p] > 0
    BY <1>6, <1>7, <1>9, <2>1
  <2> QED
    BY <1>1, <1>3, <1>9, <2>2
<1> QED
  BY <1>8, <1>9

\* No move ever gives the developer's pool more than its share, or a miner to a backup pool
\* while a pool with a share is usable (README.md, pools[].share; balance.js,
\* distributeRemainingMiners).
THEOREM SharesRespectedHolds == Spec => SharesRespected
<1>1. TypeOK /\ [Next]_vars =>
        [\A m \in Moved :
          IF home'[m] = DevPool THEN Hashrate(home', DevPool) <= DevRate
          ELSE TotalShare > 0 => Share[home'[m]] > 0]_vars
  BY MovesRespectShares
<1> QED
  BY <1>1, TypeCorrect, PTL DEF Spec, SharesRespected

-----------------------------------------------------------------------------
(* The distance from the targets.                                           *)

\* h is the sum of a, b and c.
IsPlusOfThree(h, a, b, c, E, seq) ==
    /\ seq \in Seq(E)
    /\ a \in [E -> Int] /\ b \in [E -> Int] /\ c \in [E -> Int] /\ h \in [E -> Int]
    /\ \A x \in E : h[x] = a[x] + (b[x] + c[x])

LEMMA SumOfThree ==
    ASSUME NEW E, NEW seq, NEW a, NEW b, NEW c, NEW h, IsPlusOfThree(h, a, b, c, E, seq)
    PROVE  /\ SumOf(a, seq) \in Int /\ SumOf(b, seq) \in Int /\ SumOf(c, seq) \in Int
           /\ SumOf(h, seq) = SumOf(a, seq) + (SumOf(b, seq) + SumOf(c, seq))
<1>1. PICK s : s = [x \in E |-> b[x] + c[x]]
  OBVIOUS
<1>2. IsPlus(s, b, c, E, seq)
  BY <1>1 DEF IsPlus, IsPlusOfThree
<1>3. IsPlus(h, a, s, E, seq)
  BY <1>1, <1>2 DEF IsPlus, IsPlusOfThree
<1>4. /\ SumOf(b, seq) \in Int /\ SumOf(c, seq) \in Int
      /\ SumOf(s, seq) = SumOf(b, seq) + SumOf(c, seq)
  BY <1>2, SumPlus
<1>5. SumOf(a, seq) \in Int /\ SumOf(h, seq) = SumOf(a, seq) + SumOf(s, seq)
  BY <1>3, SumPlus
<1> QED
  BY <1>4, <1>5

\* How far each pool is from what it should have, as in Imbalance.
Off(at) == [p \in PoolSet |-> IF p \in usable THEN Distance(Hashrate(at, p), IdealRate(p))
                              ELSE Hashrate(at, p)]

\* How fast the miners of S are on each pool.
RatesAt(S, at) == [p \in PoolSet |-> RateOf({m \in S : at[m] = p})]

LEMMA OffTypes ==
    ASSUME TypeOK, ActivePools # <<>>, NEW at
    PROVE  Off(at) \in [PoolSet -> Int]
<1>1. ASSUME NEW p \in PoolSet
      PROVE  Hashrate(at, p) \in Int /\ IdealRate(p) \in Int
             /\ Distance(Hashrate(at, p), IdealRate(p)) \in Int
  <2>1. Hashrate(at, p) \in Nat /\ IdealRate(p) \in Int
    BY IdealFacts, RateNat DEF Hashrate
  <2> QED
    BY <2>1 DEF Distance
<1> QED
  BY <1>1 DEF Off

LEMMA RatesAtTypes ==
    ASSUME TypeOK, NEW S, NEW at
    PROVE  RatesAt(S, at) \in [PoolSet -> Int]
BY RateNat DEF RatesAt

\* What each pool loses to the moves and gains from them.
LEMMA HashrateMoves ==
    ASSUME TypeOK, ActivePools # <<>>, NEW own \in SUBSET Miners, NEW don \in SUBSET Miners,
           NEW rem \in SUBSET Miners, IsPlan(own, don, rem), NEW p
    PROVE  Hashrate(Plan, p) + RateOf({m \in own \cup rem : home[m] = p})
             + RateOf({m \in don : home[m] = p})
           = Hashrate(home, p) + RateOf({m \in own \cup don : Plan[m] = p})
             + RateOf({m \in rem : Plan[m] = p})
<1>1. PICK stay, lost, given, got, put :
        /\ stay = {m \in Miners \ (own \cup don \cup rem) : home[m] = p}
        /\ lost = {m \in own \cup rem : home[m] = p} /\ given = {m \in don : home[m] = p}
        /\ got = {m \in own \cup don : Plan[m] = p} /\ put = {m \in rem : Plan[m] = p}
  OBVIOUS
<1>2. /\ own \cup rem \subseteq Freed /\ don \cap Freed = {} /\ own \cap rem = {}
      /\ \A m \in Miners \ (own \cup don \cup rem) : Plan[m] = home[m]
  BY DEF IsPlan
<1>3. {m \in Miners : home[m] = p} = stay \cup (lost \cup given)
  BY <1>1
<1>4. stay \cap (lost \cup given) = {} /\ lost \cap given = {}
  BY <1>1, <1>2
<1>5. {m \in Miners : Plan[m] = p} = stay \cup (got \cup put)
  BY <1>1, <1>2
<1>6. stay \cap (got \cup put) = {} /\ got \cap put = {}
  BY <1>1, <1>2
<1>7. Hashrate(home, p) = RateOf(stay) + RateOf(lost \cup given)
  BY <1>3, <1>4, RatePlus DEF Hashrate
<1>8. RateOf(lost \cup given) = RateOf(lost) + RateOf(given)
  BY <1>4, RatePlus
<1>9. Hashrate(Plan, p) = RateOf(stay) + RateOf(got \cup put)
  BY <1>5, <1>6, RatePlus DEF Hashrate
<1>10. RateOf(got \cup put) = RateOf(got) + RateOf(put)
  BY <1>6, RatePlus
<1>11. /\ RateOf(stay) \in Nat /\ RateOf(lost) \in Nat /\ RateOf(given) \in Nat
       /\ RateOf(got) \in Nat /\ RateOf(put) \in Nat
  BY RateNat
<1>12. Hashrate(Plan, p) + RateOf(lost) + RateOf(given)
         = Hashrate(home, p) + RateOf(got) + RateOf(put)
  BY <1>7, <1>8, <1>9, <1>10, <1>11
<1> QED
  BY <1>1, <1>12

\* A pool comes closer to its target by what is freed there and allocated to it, but for what
\* donors give and what remains.
LEMMA OffMoves ==
    ASSUME TypeOK, ActivePools # <<>>, NEW own \in SUBSET Miners, NEW don \in SUBSET Miners,
           NEW rem \in SUBSET Miners, IsPlan(own, don, rem), NEW p \in PoolSet
    PROVE  Off(Plan)[p] + (RatesAt(own \cup rem, home)[p] + RatesAt(own \cup don, Plan)[p])
           <= Off(home)[p] + (RatesAt(don, home)[p] + RatesAt(rem, Plan)[p])
<1>1. PICK lost, given, got, put :
        /\ lost = {m \in own \cup rem : home[m] = p} /\ given = {m \in don : home[m] = p}
        /\ got = {m \in own \cup don : Plan[m] = p} /\ put = {m \in rem : Plan[m] = p}
  OBVIOUS
<1>2. PICK h, g, t, l, v, o, u :
        /\ h = Hashrate(home, p) /\ g = Hashrate(Plan, p) /\ t = IdealRate(p)
        /\ l = RateOf(lost) /\ v = RateOf(given) /\ o = RateOf(got) /\ u = RateOf(put)
  OBVIOUS
<1>3. g + l + v = h + o + u
  BY <1>1, <1>2, HashrateMoves
<1>4. /\ h \in Nat /\ g \in Nat /\ t \in Int /\ l \in Nat /\ v \in Nat /\ o \in Nat /\ u \in Nat
  BY <1>2, IdealFacts, RateNat DEF Hashrate
<1>5. /\ Off(Plan)[p] = IF p \in usable THEN Distance(g, t) ELSE g
      /\ Off(home)[p] = IF p \in usable THEN Distance(h, t) ELSE h
      /\ RatesAt(own \cup rem, home)[p] = l /\ RatesAt(own \cup don, Plan)[p] = o
      /\ RatesAt(don, home)[p] = v /\ RatesAt(rem, Plan)[p] = u
  BY <1>1, <1>2 DEF Off, RatesAt
<1>6. \A m \in own \cup don \cup rem : NeedsHashrate(Plan[m]) /\ ~NeedsHashrate(home[m])
  BY PlanMoves
<1>7. CASE NeedsHashrate(p)
  <2>1. lost = {} /\ given = {}
    BY <1>1, <1>6, <1>7
  <2>2. l = 0 /\ v = 0
    BY <1>2, <2>1, RateEmpty
  <2>3. o <= t - h
    BY <1>1, <1>2, <1>7 DEF IsPlan
  <2>4. p \in usable /\ t > h
    BY <1>2, <1>7 DEF NeedsHashrate
  <2>5. Distance(h, t) = t - h /\ Distance(g, t) = IF g < t THEN t - g ELSE g - t
    BY <1>4, <2>4 DEF Distance
  <2>6. Distance(g, t) + (l + o) <= Distance(h, t) + (v + u)
    BY <1>3, <1>4, <2>2, <2>3, <2>5
  <2> QED
    BY <1>5, <2>4, <2>6
<1>8. CASE ~NeedsHashrate(p)
  <2>1. got = {} /\ put = {}
    BY <1>1, <1>6, <1>8
  <2>2. o = 0 /\ u = 0
    BY <1>2, <2>1, RateEmpty
  <2>3. CASE p \notin usable
    <3>1. g + (l + o) <= h + (v + u)
      BY <1>3, <1>4, <2>2
    <3> QED
      BY <1>5, <2>3, <3>1
  <2>4. CASE p \in usable /\ HasExcess(p)
    <3>1. PICK all : all = {m \in Freed : home[m] = p}
      OBVIOUS
    <3>2. lost \subseteq all
      BY <1>1, <3>1 DEF IsPlan
    <3>3. l <= RateOf(all)
      BY <1>2, <3>2, RateMonotone
    <3>4. RateOf(all) <= h - t /\ RateOf(all) \in Nat
      BY <1>2, <2>4, <3>1, FreedFacts, RateNat
    <3>5. t < h
      BY <1>2, <2>4 DEF HasExcess
    <3>6. Distance(h, t) = h - t /\ Distance(g, t) = IF g < t THEN t - g ELSE g - t
      BY <1>4, <3>5 DEF Distance
    <3>7. Distance(g, t) + (l + o) <= Distance(h, t) + (v + u)
      BY <1>3, <1>4, <2>2, <3>3, <3>4, <3>6
    <3> QED
      BY <1>5, <2>4, <3>7
  <2>5. CASE p \in usable /\ ~HasExcess(p)
    <3>1. lost = {}
      <4>1. \A m \in own \cup rem : HasExcess(home[m])
        BY FreedFacts DEF IsPlan
      <4> QED
        BY <1>1, <2>5, <4>1
    <3>2. l = 0
      BY <1>2, <3>1, RateEmpty
    <3>3. t = h
      BY <1>2, <1>4, <1>8, <2>5 DEF HasExcess, NeedsHashrate
    <3>4. Distance(h, t) = 0 /\ Distance(g, t) = IF g < t THEN t - g ELSE g - t
      BY <1>4, <3>3 DEF Distance
    <3>5. Distance(g, t) + (l + o) <= Distance(h, t) + (v + u)
      BY <1>3, <1>4, <2>2, <3>2, <3>3, <3>4
    <3> QED
      BY <1>5, <2>5, <3>5
  <2> QED
    BY <2>3, <2>4, <2>5
<1> QED
  BY <1>7, <1>8

\* A plan takes off the distance twice what it allocates of the freed miners, at least.
LEMMA PlanGains ==
    ASSUME TypeOK, ActivePools # <<>>, NEW own \in SUBSET Miners, NEW don \in SUBSET Miners,
           NEW rem \in SUBSET Miners, IsPlan(own, don, rem)
    PROVE  Imbalance(Plan) + 2 * RateOf(own) <= Imbalance(home)
<1>2. PICK d, l, o, c, v, u :
        /\ d = Off(Plan) /\ l = RatesAt(own \cup rem, home) /\ o = RatesAt(own \cup don, Plan)
        /\ c = Off(home) /\ v = RatesAt(don, home) /\ u = RatesAt(rem, Plan)
  OBVIOUS
<1>3. /\ d \in [PoolSet -> Int] /\ l \in [PoolSet -> Int] /\ o \in [PoolSet -> Int]
      /\ c \in [PoolSet -> Int] /\ v \in [PoolSet -> Int] /\ u \in [PoolSet -> Int]
  BY <1>2, OffTypes, RatesAtTypes
<1>4. \A p \in PoolSet : d[p] + (l[p] + o[p]) <= c[p] + (v[p] + u[p])
  BY <1>2, OffMoves
<1>5. Pools \in Seq(PoolSet)
  BY RateTypes
<1>6. PICK x, y : /\ x = [p \in PoolSet |-> d[p] + (l[p] + o[p])]
                  /\ y = [p \in PoolSet |-> c[p] + (v[p] + u[p])]
  OBVIOUS
<1>7. /\ SumOf(d, Pools) \in Int /\ SumOf(l, Pools) \in Int /\ SumOf(o, Pools) \in Int
      /\ SumOf(x, Pools) = SumOf(d, Pools) + (SumOf(l, Pools) + SumOf(o, Pools))
  <2>1. IsPlusOfThree(x, d, l, o, PoolSet, Pools)
    BY <1>3, <1>5, <1>6 DEF IsPlusOfThree
  <2> QED
    BY <2>1, SumOfThree
<1>8. /\ SumOf(c, Pools) \in Int /\ SumOf(v, Pools) \in Int /\ SumOf(u, Pools) \in Int
      /\ SumOf(y, Pools) = SumOf(c, Pools) + (SumOf(v, Pools) + SumOf(u, Pools))
  <2>1. IsPlusOfThree(y, c, v, u, PoolSet, Pools)
    BY <1>3, <1>5, <1>6 DEF IsPlusOfThree
  <2> QED
    BY <2>1, SumOfThree
<1>9. SumOf(x, Pools) <= SumOf(y, Pools)
  <2>1. x \in [PoolSet -> Int]
    BY <1>3, <1>6
  <2>2. y \in [PoolSet -> Int]
    BY <1>3, <1>6
  <2>3. \A p \in PoolSet : x[p] <= y[p]
    BY <1>4, <1>6
  <2> QED
    BY <1>5, <2>1, <2>2, <2>3, SumMonotone
<1>10. SumOf(l, Pools) = RateOf(own \cup rem) /\ SumOf(v, Pools) = RateOf(don)
  <2>1. home \in [Miners -> PoolSet] /\ own \cup rem \in SUBSET Miners
    BY RateTypes
  <2> QED
    BY <1>2, <2>1, RateByPool DEF RatesAt
<1>11. SumOf(o, Pools) = RateOf(own \cup don) /\ SumOf(u, Pools) = RateOf(rem)
  <2>1. PICK at : at = Plan
    OBVIOUS
  <2>2. at \in [Miners -> PoolSet] /\ own \cup don \in SUBSET Miners
    BY <2>1, PlanFacts
  <2> QED
    BY <1>2, <2>1, <2>2, RateByPool DEF RatesAt
<1>12. RateOf(own \cup rem) = RateOf(own) + RateOf(rem) /\ RateOf(own \cup don) = RateOf(own) + RateOf(don)
  <2>1. own \cap rem = {} /\ own \cap don = {}
    BY DEF IsPlan
  <2> QED
    BY <2>1, RatePlus
<1>13. RateOf(own) \in Nat /\ RateOf(rem) \in Nat /\ RateOf(don) \in Nat
  BY RateNat
<1>14. SumOf(d, Pools) + 2 * RateOf(own) <= SumOf(c, Pools)
  BY <1>7, <1>8, <1>9, <1>10, <1>11, <1>12, <1>13
<1>15. Imbalance(Plan) = SumOf(d, Pools) /\ Imbalance(home) = SumOf(c, Pools)
  BY <1>2 DEF Imbalance, Off
<1> QED
  BY <1>14, <1>15

LEMMA ImbalanceInt ==
    ASSUME TypeOK, ActivePools # <<>>, NEW at
    PROVE  Imbalance(at) \in Int
<1>1. PICK d : d = Off(at)
  OBVIOUS
<1>2. d \in [PoolSet -> Int] /\ Pools \in Seq(PoolSet)
  BY <1>1, OffTypes, RateTypes
<1>3. IsPlus(d, d, [p \in PoolSet |-> 0], PoolSet, Pools)
  BY <1>2 DEF IsPlus
<1>4. SumOf(d, Pools) \in Int
  BY <1>3, SumPlus
<1> QED
  BY <1>1, <1>4 DEF Imbalance, Off

LEMMA PlanNeverWorse ==
    ASSUME TypeOK, ActivePools # <<>>
    PROVE  Imbalance(Plan) <= Imbalance(home)
<1>1. PICK own \in SUBSET Miners, don \in SUBSET Miners, rem \in SUBSET Miners :
        IsPlan(own, don, rem)
  BY PlanFacts
<1>2. PICK x, y, r : x = Imbalance(Plan) /\ y = Imbalance(home) /\ r = RateOf(own)
  OBVIOUS
<1>3. x + 2 * r <= y
  BY <1>1, <1>2, PlanGains
<1>4. x \in Int /\ y \in Int /\ r \in Nat
  BY <1>2, ImbalanceInt, RateNat
<1> QED
  BY <1>2, <1>3, <1>4

\* No balancing ever takes the fleet farther from its targets: what is allocated comes off the
\* distance twice, and what donors give or what remains adds no more than it takes off
\* (balance.js, planPoolRebalance).
THEOREM NeverWorseHolds == Spec => NeverWorse
<1>1. ASSUME TypeOK, [Next]_vars, Moved # {}
      PROVE  Imbalance(home') <= Imbalance(home)
  <2>1. home' = Plan /\ ActivePools # <<>>
    BY <1>1, MovesAreBalancing
  <2>2. Imbalance(Plan) <= Imbalance(home)
    BY <1>1, <2>1, PlanNeverWorse
  <2> QED
    BY <2>1, <2>2
<1>2. TypeOK /\ [Next]_vars => [Moved # {} => Imbalance(home') <= Imbalance(home)]_vars
  BY <1>1
<1> QED
  BY <1>2, TypeCorrect, PTL DEF Spec, NeverWorse
=============================================================================
