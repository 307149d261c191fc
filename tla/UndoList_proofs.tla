------------------------- MODULE UndoList_proofs -------------------------
(* Proofs about UndoList.  What the record, the stack of undo_list and the games *)
(* have to do with each other is Sound; Standing says that there is such a pairing *)
(* of actions with commands, and Inv adds what can be done again.                 *)
EXTENDS UndoList, TLAPS, SequenceTheorems, WellFoundedInduction

\* A set of numbers that is not empty has a least one.
LEMMA LeastNat ==
  ASSUME NEW T \in SUBSET Nat, T # {}
  PROVE  \E x \in T : \A y \in T : x <= y
<1>1. IsWellFoundedOn(OpToRel(<, Nat), Nat)
  BY NatLessThanWellFounded
<1>2. PICK x \in T : \A y \in T : ~ (<<y, x>> \in OpToRel(<, Nat))
  BY <1>1, WFMin, Zenon
<1>3. \A y \in T : ~(y < x)
  BY <1>2 DEF OpToRel
<1>4. \A y \in T : x <= y
  BY <1>3, SMT
<1> QED
  BY <1>4

\* What holds from lo on, step by step, holds for all that follow.
LEMMA UpFrom ==
  ASSUME NEW lo \in Nat, NEW hi \in Nat, NEW G,
         lo \in G, \A i \in lo..hi : i # lo /\ i - 1 \in G => i \in G
  PROVE  \A i \in lo..hi : i \in G
<1> SUFFICES ASSUME NEW i \in lo..hi, i \notin G PROVE FALSE
  OBVIOUS
<1> DEFINE T == {n \in lo..hi : n \notin G}
<1>1. T \in SUBSET Nat /\ T # {}
  OBVIOUS
<1>2. PICK x \in T : \A y \in T : x <= y
  BY <1>1, LeastNat
<1>3. x # lo /\ x - 1 \in lo..hi /\ x - 1 \in Nat /\ ~(x <= x - 1)
  BY <1>2
<1>4. x - 1 \in G
  BY <1>2, <1>3
<1> QED
  BY <1>2, <1>3, <1>4

\* A function that is defined by recursion exists: q runs through D from base by the
\* steps of F.
Steps(F, N, D) == F \in [1..N -> [D -> D]]
Runs(q, N, D, base, F) ==
  q \in [0..N -> D] /\ q[0] = base /\ \A i \in 1..N : q[i] = F[i][q[i - 1]]

LEMMA Recursion ==
  ASSUME NEW N \in Nat, NEW D, NEW base \in D, NEW F, Steps(F, N, D)
  PROVE  \E q : Runs(q, N, D, base, F)
<1> DEFINE G == {n \in 0..N : \E q : Runs(q, n, D, base, F)}
<1>1. 0 \in G
  <2> DEFINE q == [i \in 0..0 |-> base]
  <2>1. Runs(q, 0, D, base, F)
    BY DEF Runs
  <2> QED
    BY <2>1
<1>2. ASSUME NEW n \in 1..N, n - 1 \in G PROVE n \in G
  <2>1. PICK q : Runs(q, n - 1, D, base, F)
    BY <1>2
  <2> DEFINE r == [i \in 0..n |-> IF i = n THEN F[n][q[n - 1]] ELSE q[i]]
  <2>2. q[n - 1] \in D /\ F[n][q[n - 1]] \in D
    BY <2>1 DEF Runs, Steps
  <2>3. r \in [0..n -> D]
    BY <2>1, <2>2 DEF Runs
  <2>4. r[0] = base /\ \A i \in 1..n : r[i] = F[i][r[i - 1]]
    <3>1. \A i \in 1..n : r[i - 1] = q[i - 1] /\ (i # n => i \in 1..(n - 1) /\ r[i] = q[i])
      OBVIOUS
    <3>2. r[0] = q[0] /\ r[n] = F[n][q[n - 1]]
      OBVIOUS
    <3> QED
      BY <2>1, <3>1, <3>2 DEF Runs
  <2> HIDE DEF r
  <2>5. Runs(r, n, D, base, F)
    BY <2>3, <2>4 DEF Runs
  <2>6. n \in 0..N
    OBVIOUS
  <2> QED
    BY <2>5, <2>6
<1>3. \A i \in 0..N : i # 0 /\ i - 1 \in G => i \in G
  BY <1>2
<1>4. N \in G
  <2> HIDE DEF G
  <2> QED
    BY <1>1, <1>3, UpFrom
<1> QED
  BY <1>4

-----------------------------------------------------------------------------
(* The part of a sequence that is kept.                                      *)

\* t is what is left of s; the i-th of it is the f[i]-th of s.
Part(t, s, I, f) ==
  /\ f \in [0..Len(t) -> 0..Len(s)]
  /\ f[0] = 0
  /\ \A i \in 1..Len(t) : /\ f[i] \in I /\ f[i - 1] < f[i] /\ t[i] = s[f[i]]
                          /\ \A j \in f[i - 1]+1..f[i]-1 : j \notin I
  /\ \A j \in f[Len(t)]+1..Len(s) : j \notin I

KeptStep(s, I, n, t) == IF n \in I THEN Append(t, s[n]) ELSE t

Unfolds(k, s, I, S) ==
  /\ k \in [0..Len(s) -> Seq(S)]
  /\ k[0] = <<>>
  /\ \A n \in 1..Len(s) : k[n] = KeptStep(s, I, n, k[n - 1])

LEMMA KeptUnfolds ==
  ASSUME NEW S, NEW s \in Seq(S), NEW I
  PROVE  \E k : Unfolds(k, s, I, S) /\ Kept(s, I) = k[Len(s)]
<1> DEFINE Def(kept) == [n \in 0..Len(s) |->
                           IF n = 0 THEN <<>> ELSE KeptStep(s, I, n, kept[n - 1])]
           F == [n \in 1..Len(s) |-> [t \in Seq(S) |-> KeptStep(s, I, n, t)]]
           C == CHOOSE kept : kept = Def(kept)
<1>a. Len(s) \in Nat /\ \A n \in 1..Len(s) : s[n] \in S
  OBVIOUS
<1>b. \A n \in 1..Len(s), t \in Seq(S) : KeptStep(s, I, n, t) \in Seq(S)
  BY <1>a DEF KeptStep
<1>c. Steps(F, Len(s), Seq(S))
  BY <1>b DEF Steps
<1>d. PICK q : Runs(q, Len(s), Seq(S), <<>>, F)
  <2>1. <<>> \in Seq(S)
    OBVIOUS
  <2> HIDE DEF F
  <2> QED
    BY <1>a, <1>c, <2>1, Recursion
<1>e. ASSUME NEW i \in 1..Len(s) PROVE q[i] = KeptStep(s, I, i, q[i - 1])
  <2>1. q[i - 1] \in Seq(S)
    BY <1>a, <1>d DEF Runs
  <2>2. q[i] = F[i][q[i - 1]]
    BY <1>d DEF Runs
  <2> QED
    BY <2>1, <2>2
<1>f. q = Def(q)
  BY <1>a, <1>d, <1>e DEF Runs
<1>g. C = Def(C)
  <2> HIDE DEF Def
  <2> QED
    BY <1>f
<1>h. Kept(s, I) = C[Len(s)]
  BY DEF Kept, KeptStep
<1> HIDE DEF C
<1>i. \A n \in 0..Len(s) : C[n] = IF n = 0 THEN <<>> ELSE KeptStep(s, I, n, C[n - 1])
  BY <1>g
<1>j. C[0] = <<>> /\ \A n \in 1..Len(s) : C[n] = KeptStep(s, I, n, C[n - 1])
  BY <1>a, <1>i
<1>k. \A n \in 0..Len(s) : C[n] \in Seq(S)
  <2> DEFINE G == {n \in 0..Len(s) : C[n] \in Seq(S)}
  <2>1. <<>> \in Seq(S) /\ 0 \in 0..Len(s)
    BY <1>a
  <2>2. C[0] \in Seq(S) /\ G \in SUBSET Nat
    BY <1>a, <1>j, <2>1
  <2>5. 0 \in G
    BY <2>1, <2>2
  <2>3. ASSUME NEW n \in 0..Len(s), n # 0, n - 1 \in G PROVE n \in G
    <3>1. n \in 1..Len(s)
      BY <1>a, <2>3
    <3> QED
      BY <1>b, <1>j, <2>3, <3>1
  <2> HIDE DEF G
  <2>4. \A n \in 0..Len(s) : n \in G
    BY <1>a, <2>3, <2>5, UpFrom
  <2> QED
    BY <2>4 DEF G
<1>l. C = [n \in 0..Len(s) |-> C[n]]
  BY <1>g
<1>m. C \in [0..Len(s) -> Seq(S)]
  BY <1>k, <1>l
<1> QED
  BY <1>h, <1>j, <1>m DEF Unfolds

\* The same up to the n-th element of s.
PartTo(t, s, I, f, n) ==
  /\ f \in [0..Len(t) -> 0..n]
  /\ f[0] = 0
  /\ \A i \in 1..Len(t) : /\ f[i] \in I /\ f[i - 1] < f[i] /\ t[i] = s[f[i]]
                          /\ \A j \in f[i - 1]+1..f[i]-1 : j \notin I
  /\ \A j \in f[Len(t)]+1..n : j \notin I

LEMMA PartGrows ==
  ASSUME NEW S, NEW s \in Seq(S), NEW I, NEW n \in 1..Len(s), NEW t \in Seq(S), NEW f,
         PartTo(t, s, I, f, n - 1)
  PROVE  \E e : PartTo(KeptStep(s, I, n, t), s, I, e, n)
<1>1. Len(s) \in Nat /\ n \in Nat /\ n - 1 \in Nat /\ s[n] \in S /\ Len(t) \in Nat
  OBVIOUS
<1>f. /\ f \in [0..Len(t) -> 0..(n - 1)]
      /\ f[0] = 0
      /\ \A i \in 1..Len(t) : /\ f[i] \in I /\ f[i - 1] < f[i] /\ t[i] = s[f[i]]
                              /\ \A j \in f[i - 1]+1..f[i]-1 : j \notin I
      /\ \A j \in f[Len(t)]+1..n - 1 : j \notin I
  BY DEF PartTo
<1>2. CASE n \notin I
  <2>1. KeptStep(s, I, n, t) = t
    BY <1>2 DEF KeptStep
  <2>2. f \in [0..Len(t) -> 0..n]
    BY <1>1, <1>f
  <2>3. \A j \in f[Len(t)]+1..n : j \notin I
    BY <1>1, <1>2, <1>f
  <2>4. PartTo(t, s, I, f, n)
    BY <1>f, <2>2, <2>3 DEF PartTo
  <2> QED
    BY <2>1, <2>4
<1>3. CASE n \in I
  <2> DEFINE u == Append(t, s[n])
             l == Len(t)
             e == [i \in 0..l+1 |-> IF i = l + 1 THEN n ELSE f[i]]
  <2>1. KeptStep(s, I, n, t) = u
    BY <1>3 DEF KeptStep
  <2>2. Len(u) = l + 1 /\ u[l + 1] = s[n] /\ \A i \in 1..l : u[i] = t[i]
    BY <1>1
  <2>3. e \in [0..l+1 -> 0..n] /\ e[0] = 0
    BY <1>1, <1>f
  <2>4. \A i \in 1..l : e[i] = f[i] /\ e[i - 1] = f[i - 1]
    BY <1>1
  <2>5. e[l + 1] = n /\ e[l] = f[l] /\ f[l] \in 0..(n - 1)
    BY <1>1, <1>f
  <2> HIDE DEF e, u
  <2>6. ASSUME NEW i \in 1..l+1
        PROVE  /\ e[i] \in I /\ e[i - 1] < e[i] /\ u[i] = s[e[i]]
               /\ \A j \in e[i - 1]+1..e[i]-1 : j \notin I
    <3>1. CASE i \in 1..l
      BY <1>f, <2>2, <2>4, <3>1
    <3>2. CASE i = l + 1
      <4>1. e[i] = n /\ e[i - 1] = f[l] /\ u[i] = s[n]
        BY <1>1, <2>2, <2>5, <3>2
      <4>2. \A j \in f[l]+1..n-1 : j \notin I
        BY <1>f
      <4> QED
        BY <1>1, <1>3, <2>5, <4>1, <4>2
    <3> QED
      BY <1>1, <3>1, <3>2
  <2>7. \A j \in e[l + 1]+1..n : j \notin I
    BY <1>1, <2>5
  <2>8. PartTo(u, s, I, e, n)
    BY <2>2, <2>3, <2>6, <2>7 DEF PartTo
  <2> QED
    BY <2>1, <2>8
<1> QED
  BY <1>2, <1>3

\* Kept(s, I) is the part of s at I.
LEMMA KeptIsPart ==
  ASSUME NEW S, NEW s \in Seq(S), NEW I
  PROVE  Kept(s, I) \in Seq(S) /\ \E f : Part(Kept(s, I), s, I, f)
<1>0. PICK k : Unfolds(k, s, I, S) /\ Kept(s, I) = k[Len(s)]
  BY KeptUnfolds
<1>1. /\ k \in [0..Len(s) -> Seq(S)]
      /\ k[0] = <<>>
      /\ \A n \in 1..Len(s) : k[n] = KeptStep(s, I, n, k[n - 1])
      /\ Kept(s, I) = k[Len(s)]
  BY <1>0 DEF Unfolds
<1>2. Len(s) \in Nat
  OBVIOUS
<1> DEFINE G == {n \in 0..Len(s) : \E f : PartTo(k[n], s, I, f, n)}
<1>3. 0 \in G
  <2> DEFINE f == [i \in 0..0 |-> 0]
  <2>1. PartTo(<<>>, s, I, f, 0)
    BY DEF PartTo
  <2>2. PartTo(k[0], s, I, f, 0)
    BY <1>1, <2>1
  <2> HIDE DEF f
  <2> QED
    BY <1>2, <2>2
<1>4. ASSUME NEW n \in 0..Len(s), n # 0, n - 1 \in G PROVE n \in G
  <2>1. PICK f : PartTo(k[n - 1], s, I, f, n - 1)
    BY <1>4
  <2>2. n \in 1..Len(s) /\ k[n - 1] \in Seq(S) /\ k[n] = KeptStep(s, I, n, k[n - 1])
    BY <1>1, <1>2, <1>4
  <2>3. \E e : PartTo(k[n], s, I, e, n)
    BY <2>1, <2>2, PartGrows
  <2> QED
    BY <2>3
<1>5. Len(s) \in G
  <2> HIDE DEF G
  <2>1. \A i \in 0..Len(s) : i # 0 /\ i - 1 \in G => i \in G
    BY <1>4
  <2>2. \A i \in 0..Len(s) : i \in G
    BY <1>2, <1>3, <2>1, UpFrom
  <2> QED
    BY <1>2, <2>2
<1>6. PICK f : PartTo(k[Len(s)], s, I, f, Len(s))
  BY <1>5
<1>7. Part(Kept(s, I), s, I, f)
  BY <1>1, <1>6 DEF Part, PartTo
<1> QED
  BY <1>1, <1>2, <1>7

LEMMA PartRises ==
  ASSUME NEW t, Len(t) \in Nat, NEW s, Len(s) \in Nat, NEW I, NEW f, Part(t, s, I, f),
         NEW i \in 0..Len(t), NEW j \in 0..Len(t), i < j
  PROVE  f[i] < f[j]
<1> DEFINE G == {n \in i+1..Len(t) : f[i] < f[n]}
<1>0. f \in [0..Len(t) -> 0..Len(s)]
  BY DEF Part
<1>n. \A n \in 0..Len(t) : f[n] \in Nat
  BY <1>0
<1>m. \A n \in 1..Len(t) : f[n - 1] < f[n]
  BY DEF Part
<1>1. /\ \A n \in 0..Len(t) : f[n] \in Nat
      /\ \A n \in 1..Len(t) : f[n - 1] < f[n]
  BY <1>n, <1>m
<1>2. i + 1 \in G
  <2>1. i + 1 \in 1..Len(t) /\ (i + 1) - 1 = i
    OBVIOUS
  <2>2. f[i] < f[i + 1]
    BY <1>1, <2>1
  <2> QED
    BY <2>1, <2>2
<1>3. ASSUME NEW n \in i+1..Len(t), n # i + 1, n - 1 \in G PROVE n \in G
  <2>1. n \in 1..Len(t) /\ n \in 0..Len(t) /\ n - 1 \in 0..Len(t)
    BY <1>3
  <2>2. f[n - 1] < f[n] /\ f[i] < f[n - 1] /\ f[i] \in Nat /\ f[n] \in Nat /\ f[n - 1] \in Nat
    BY <1>1, <1>3, <2>1
  <2> QED
    BY <2>2
<1>4. \A n \in i+1..Len(t) : n \in G
  <2>1. i + 1 \in Nat
    OBVIOUS
  <2> HIDE DEF G
  <2> QED
    BY <1>2, <1>3, <2>1, UpFrom
<1> QED
  BY <1>4

\* No position of I is passed over.
LEMMA PartOnto ==
  ASSUME NEW t, Len(t) \in Nat, NEW s, Len(s) \in Nat, NEW I, NEW f, Part(t, s, I, f),
         NEW j \in 1..Len(s), j \in I
  PROVE  \E i \in 1..Len(t) : f[i] = j
<1> DEFINE T == {i \in 0..Len(t) : j <= f[i]}
<1>1. /\ f \in [0..Len(t) -> 0..Len(s)] /\ f[0] = 0
      /\ \A i \in 1..Len(t) : \A n \in f[i - 1]+1..f[i]-1 : n \notin I
      /\ \A n \in f[Len(t)]+1..Len(s) : n \notin I
  BY DEF Part
<1>2. Len(t) \in T
  BY <1>1
<1>3. T \in SUBSET Nat /\ T # {}
  BY <1>2
<1>4. PICK i \in T : \A n \in T : i <= n
  BY <1>3, LeastNat
<1>5. i \in 1..Len(t) /\ i - 1 \in 0..Len(t) /\ i - 1 \notin T
  BY <1>1, <1>4
<1>6. f[i] \in Nat /\ f[i - 1] \in Nat /\ f[i - 1] < j /\ j <= f[i]
  BY <1>1, <1>4, <1>5
<1>7. j \notin f[i - 1]+1..f[i]-1
  BY <1>1, <1>5
<1>8. f[i] = j
  BY <1>6, <1>7
<1> QED
  BY <1>5, <1>8

\* What is kept from the beginning stays where it is.
LEMMA PartBegins ==
  ASSUME NEW t, Len(t) \in Nat, NEW s, Len(s) \in Nat, NEW I, NEW f, Part(t, s, I, f),
         NEW m \in 0..Len(s), \A j \in 1..m : j \in I
  PROVE  m <= Len(t) /\ \A i \in 0..m : f[i] = i
<1> DEFINE G == {n \in 0..m : n <= Len(t) /\ f[n] = n}
<1>1. /\ f \in [0..Len(t) -> 0..Len(s)] /\ f[0] = 0
      /\ \A i \in 1..Len(t) : f[i - 1] < f[i]
      /\ \A i \in 1..Len(t) : \A n \in f[i - 1]+1..f[i]-1 : n \notin I
      /\ \A n \in f[Len(t)]+1..Len(s) : n \notin I
  BY DEF Part
<1>2. 0 \in G
  BY <1>1
<1>3. ASSUME NEW n \in 0..m, n # 0, n - 1 \in G PROVE n \in G
  <2>1. n - 1 \in 0..Len(t) /\ f[n - 1] = n - 1 /\ n \in 1..m /\ n \in I /\ n \in 1..Len(s)
    BY <1>3
  <2>2. n - 1 # Len(t)
    BY <1>1, <2>1
  <2>3. n \in 1..Len(t)
    BY <2>1, <2>2
  <2>4. f[n] \in Nat /\ f[n - 1] < f[n] /\ n \notin f[n - 1]+1..f[n]-1
    BY <1>1, <2>1, <2>3
  <2>5. f[n] = n
    BY <2>1, <2>4
  <2> QED
    BY <2>3, <2>5
<1>4. \A n \in 0..m : n \in G
  <2>1. m \in Nat
    OBVIOUS
  <2> HIDE DEF G
  <2>2. \A i \in 0..m : i # 0 /\ i - 1 \in G => i \in G
    BY <1>3
  <2> QED
    BY <1>2, <2>1, <2>2, UpFrom
<1>5. m \in G
  BY <1>4
<1> QED
  BY <1>4, <1>5

\* A part of a part.
LEMMA PartOfPart ==
  ASSUME NEW t, Len(t) \in Nat, NEW s, Len(s) \in Nat, NEW u, Len(u) \in Nat,
         NEW I, NEW f, Part(t, s, I, f), NEW J, NEW g, Part(u, t, J, g),
         NEW K, \A i \in 1..Len(t) : i \in J <=> f[i] \in K,
         \A j \in 1..Len(s) : j \in K => j \in I
  PROVE  \E h : Part(u, s, K, h)
<1> DEFINE h == [i \in 0..Len(u) |-> f[g[i]]]
<1>1. /\ f \in [0..Len(t) -> 0..Len(s)] /\ f[0] = 0
      /\ \A i \in 1..Len(t) : f[i] \in I /\ t[i] = s[f[i]]
  BY DEF Part
<1>2. /\ g \in [0..Len(u) -> 0..Len(t)] /\ g[0] = 0
      /\ \A i \in 1..Len(u) : g[i] \in J /\ g[i - 1] < g[i] /\ u[i] = t[g[i]]
      /\ \A i \in 1..Len(u) : \A j \in g[i - 1]+1..g[i]-1 : j \notin J
      /\ \A j \in g[Len(u)]+1..Len(t) : j \notin J
  BY DEF Part
<1>3. h \in [0..Len(u) -> 0..Len(s)] /\ h[0] = 0
  <2>1. \A i \in 0..Len(u) : f[g[i]] \in 0..Len(s)
    BY <1>1, <1>2
  <2>2. 0 \in 0..Len(u)
    OBVIOUS
  <2> QED
    BY <1>1, <1>2, <2>1, <2>2
<1>4. \A i \in 0..Len(u) : h[i] = f[g[i]]
  OBVIOUS
<1> HIDE DEF h
<1>5. \A i, j \in 0..Len(t) : i < j => f[i] < f[j]
  BY PartRises
\* What stands in s between two elements of t is not kept.
<1>6. ASSUME NEW a \in 0..Len(t), NEW b \in Nat, b <= Len(s),
             NEW m \in 0..Len(t)+1, \A i \in a+1..m-1 : i \notin J,
             m <= Len(t) => b <= f[m] - 1,
             NEW j \in f[a]+1..b
      PROVE  j \notin K
  <2>1. SUFFICES ASSUME j \in K PROVE FALSE
    OBVIOUS
  <2>2. f[a] \in Nat /\ j \in 1..Len(s)
    <3>1. f[a] \in 0..Len(s) /\ Len(s) \in Nat
      BY <1>1
    <3>2. b \in Nat /\ b <= Len(s) /\ j \in f[a]+1..b
      BY <1>6
    <3> QED
      BY <3>1, <3>2
  <2>3. j \in I
    BY <2>1, <2>2
  <2>4. PICK i \in 1..Len(t) : f[i] = j
    BY <2>2, <2>3, PartOnto
  <2>5. i \in J
    BY <2>1, <2>4
  <2>6. a < i
    <3>1. i \in 0..Len(t) /\ ~(f[i] < f[a]) /\ f[i] # f[a]
      BY <2>2, <2>4
    <3>2. ~(i < a) /\ i # a
      BY <1>5, <3>1
    <3> QED
      BY <3>2
  <2>7. i < m
    <3>1. CASE m <= Len(t)
      <4>1. m \in 0..Len(t) /\ i \in 0..Len(t) /\ f[m] \in Nat /\ f[i] \in Nat
        BY <1>1, <3>1
      <4>2. f[i] < f[m]
        BY <1>6, <2>4, <3>1, <4>1
      <4>3. ~(m < i) /\ m # i
        BY <1>5, <4>1, <4>2
      <4> QED
        BY <4>1, <4>3
    <3>2. CASE ~(m <= Len(t))
      BY <3>2
    <3> QED
      BY <3>1, <3>2
  <2>8. i \in a+1..m-1
    BY <2>6, <2>7
  <2> QED
    BY <1>6, <2>5, <2>8
<1>7. ASSUME NEW i \in 1..Len(u)
      PROVE  /\ h[i] \in K /\ h[i - 1] < h[i] /\ u[i] = s[h[i]]
             /\ \A j \in h[i - 1]+1..h[i]-1 : j \notin K
  <2>1. /\ i \in 0..Len(u) /\ i - 1 \in 0..Len(u)
        /\ g[i] \in 0..Len(t) /\ g[i - 1] \in 0..Len(t) /\ g[i - 1] < g[i] /\ g[i] \in J
    BY <1>2
  <2>2. g[i] \in 1..Len(t)
    BY <2>1
  <2>3. h[i] = f[g[i]] /\ h[i - 1] = f[g[i - 1]]
    BY <1>4, <2>1
  <2>4. h[i] \in K /\ u[i] = s[h[i]]
    BY <1>1, <1>2, <2>1, <2>2, <2>3
  <2>5. h[i - 1] < h[i]
    BY <1>5, <2>1, <2>3
  <2>6. ASSUME NEW j \in h[i - 1]+1..h[i]-1 PROVE j \notin K
    <3> DEFINE a == g[i - 1]
               m == g[i]
               b == f[g[i]] - 1
    <3>1. a \in 0..Len(t) /\ m \in 0..Len(t)+1 /\ b \in Nat /\ b <= Len(s)
      <4>1. f[g[i]] \in 0..Len(s) /\ f[g[i - 1]] \in 0..Len(s) /\ Len(s) \in Nat
        BY <1>1, <2>1
      <4>2. f[g[i - 1]] < f[g[i]]
        BY <2>3, <2>5
      <4>3. b \in Nat /\ b <= Len(s)
        BY <4>1, <4>2
      <4>4. a \in 0..Len(t) /\ m \in 0..Len(t)+1
        BY <2>1
      <4> QED
        BY <4>3, <4>4
    <3>2. \A k \in a+1..m-1 : k \notin J
      BY <1>2
    <3>3. (m <= Len(t) => b <= f[m] - 1) /\ j \in f[a]+1..b
      BY <1>1, <2>1, <2>3
    <3> HIDE DEF a, m, b
    <3> QED
      BY <1>6, <3>1, <3>2, <3>3
  <2> QED
    BY <2>4, <2>5, <2>6
<1>8. ASSUME NEW j \in h[Len(u)]+1..Len(s) PROVE j \notin K
  <2> DEFINE a == g[Len(u)]
             m == Len(t) + 1
             b == Len(s)
  <2>1. a \in 0..Len(t) /\ m \in 0..Len(t)+1 /\ b \in Nat /\ b <= Len(s)
    BY <1>2
  <2>2. \A k \in a+1..m-1 : k \notin J
    BY <1>2
  <2>3. (m <= Len(t) => b <= f[m] - 1) /\ j \in f[a]+1..b
    BY <1>4
  <2> HIDE DEF a, m, b
  <2> QED
    BY <1>6, <2>1, <2>2, <2>3
<1>9. Part(u, s, K, h)
  BY <1>3, <1>7, <1>8 DEF Part
<1> QED
  BY <1>9

-----------------------------------------------------------------------------
(* Folding.                                                                  *)

LEMMA MaxOfNumbers ==
  ASSUME NEW N \in Nat, NEW s \in SUBSET (1..N), s # {}
  PROVE  Max(s) \in s /\ \A y \in s : y <= Max(s)
<1> DEFINE T == {k \in 0..N : N - k \in s}
<1>0. \A x \in s : x \in 1..N
  OBVIOUS
<1>1. T \in SUBSET Nat /\ T # {}
  <2>1. PICK x \in s : x \in 1..N
    BY <1>0
  <2>2. N - x \in 0..N /\ N - (N - x) = x
    BY <2>1
  <2>3. N - x \in T
    BY <2>1, <2>2
  <2> QED
    BY <2>3
<1>2. PICK z \in T : \A y \in T : z <= y
  BY <1>1, LeastNat
<1>3. N - z \in s /\ z \in 0..N
  BY <1>2
<1>4. ASSUME NEW y \in s PROVE N - z >= y
  <2>1. y \in 1..N
    BY <1>0
  <2>2. N - y \in 0..N /\ N - (N - y) = y
    BY <2>1
  <2>3. N - y \in T
    BY <2>2
  <2>4. z <= N - y
    BY <1>2, <2>3
  <2> QED
    BY <1>3, <2>1, <2>4
<1>5. Max(s) \in s /\ \A y \in s : Max(s) >= y
  BY <1>3, <1>4 DEF Max
<1> QED
  BY <1>5

\* What folding over sets of numbers, the largest last, is made of.
Folds(it, N, base, F) ==
  it = [s \in SUBSET (1..N) |-> IF s = {} THEN base ELSE F[Max(s)][it[s \ {Max(s)}]]]

LEMMA FoldExists ==
  ASSUME NEW N \in Nat, NEW D, NEW base \in D, NEW F, Steps(F, N, D)
  PROVE  \E it : it \in [SUBSET (1..N) -> D] /\ Folds(it, N, base, F)
<1> DEFINE E  == [SUBSET (1..N) -> D]
           b0 == [s \in SUBSET (1..N) |-> base]
           G  == [k \in 1..N |-> [r \in E |->
                    [s \in SUBSET (1..N) |-> IF k \in s THEN F[k][r[s \ {k}]] ELSE r[s]]]]
<1>1. b0 \in E
  OBVIOUS
<1>f. \A k \in 1..N, d \in D : F[k][d] \in D
  BY DEF Steps
<1>2. Steps(G, N, E)
  <2>1. ASSUME NEW k \in 1..N, NEW r \in E, NEW s \in SUBSET (1..N)
        PROVE  (IF k \in s THEN F[k][r[s \ {k}]] ELSE r[s]) \in D
    BY <1>f
  <2> QED
    BY <2>1 DEF Steps
<1>3. PICK q : Runs(q, N, E, b0, G)
  <2> HIDE DEF E, b0, G
  <2> QED
    BY <1>1, <1>2, Recursion
<1>4. q[0] = b0 /\ \A i \in 0..N : q[i] \in E
  BY <1>3 DEF Runs
<1>5. ASSUME NEW k \in 1..N, NEW s \in SUBSET (1..N)
      PROVE  q[k][s] = IF k \in s THEN F[k][q[k - 1][s \ {k}]] ELSE q[k - 1][s]
  <2>1. q[k - 1] \in E /\ q[k] = G[k][q[k - 1]]
    <3> HIDE DEF E, G, b0
    <3>1. k - 1 \in 0..N
      OBVIOUS
    <3> QED
      BY <1>3, <1>4, <3>1 DEF Runs
  <2> QED
    BY <2>1
<1> DEFINE it == q[N]
\* From its largest number on a set has its value.
<1>6. ASSUME NEW k \in 0..N, NEW s \in SUBSET (1..k)
      PROVE  q[k][s] = it[s]
  <2> DEFINE H == {n \in k..N : q[n][s] = q[k][s]}
  <2>1. k \in H
    OBVIOUS
  <2>2. ASSUME NEW n \in k..N, n # k, n - 1 \in H PROVE n \in H
    <3>1. n \in 1..N /\ n \notin s /\ s \in SUBSET (1..N)
      BY <2>2
    <3> QED
      BY <1>5, <2>2, <3>1
  <2>3. \A n \in k..N : n \in H
    <3> HIDE DEF H
    <3>1. \A n \in k..N : n # k /\ n - 1 \in H => n \in H
      BY <2>2
    <3> QED
      BY <2>1, <3>1, UpFrom
  <2> QED
    BY <2>3
<1>7. ASSUME NEW s \in SUBSET (1..N)
      PROVE  it[s] = IF s = {} THEN base ELSE F[Max(s)][it[s \ {Max(s)}]]
  <2>1. CASE s = {}
    <3>1. s \in SUBSET (1..0) /\ q[0][s] = base
      BY <1>4, <2>1
    <3> QED
      BY <1>6, <2>1, <3>1
  <2>2. CASE s # {}
    <3> DEFINE m == Max(s)
    <3>1. m \in s /\ \A y \in s : y <= m
      BY <2>2, MaxOfNumbers
    <3> HIDE DEF m
    <3>2. m \in 1..N /\ m - 1 \in 0..N /\ s \in SUBSET (1..m) /\ s \ {m} \in SUBSET (1..(m - 1))
      BY <3>1
    <3>3. it[s] = q[m][s] /\ it[s \ {m}] = q[m - 1][s \ {m}]
      BY <1>6, <3>2
    <3>4. q[m][s] = F[m][q[m - 1][s \ {m}]]
      BY <1>5, <3>1, <3>2
    <3> QED
      BY <2>2, <3>3, <3>4 DEF m
  <2> QED
    BY <2>1, <2>2
<1>8. it \in E
  BY <1>4
<1>9. it = [s \in SUBSET (1..N) |-> IF s = {} THEN base ELSE F[Max(s)][it[s \ {Max(s)}]]]
  <2> HIDE DEF it
  <2> QED
    BY <1>7, <1>8
<1> QED
  BY <1>8, <1>9 DEF Folds

-----------------------------------------------------------------------------
(* Games and commands.                                                       *)

\* Commands that name what they are about.
Orders ==
  {c \in Commands : /\ c.kind \in {"recruit", "recall", "move"} => c.to \in Hexes
                    /\ c.kind \in {"move", "rename"} => c.at \in Hexes
                    /\ c.kind = "rename" => c.name \in Names}

LEMMA ExecuteTyped ==
  ASSUME NEW g \in Games, NEW c \in Orders
  PROVE  Execute(g, c) \in Games
<1> DEFINE Places == Hexes \cup {"unborn", "recall", "gone"}
<1>1. /\ g.at \in [Units -> Places] /\ g.name \in [Units -> Names]
      /\ g.said \in Nat /\ g.auto \in BOOLEAN
      /\ g = [at |-> g.at, name |-> g.name, said |-> g.said, auto |-> g.auto]
  BY DEF Games
<1>2. /\ c.kind \in {"recruit", "recall", "move"} => c.to \in Places
      /\ c.kind = "rename" => c.name \in Names
  BY DEF Orders
<1>3. CASE c.kind = "recruit"
  <2>1. Execute(g, c) = [g EXCEPT !.at = [@ EXCEPT ![c.unit] = c.to],
                                  !.name = [@ EXCEPT ![c.unit] = "own"]]
    BY <1>1, <1>3 DEF Execute, Born, Placed
  <2>2. [g.at EXCEPT ![c.unit] = c.to] \in [Units -> Places]
    BY <1>1, <1>2, <1>3
  <2>3. [g.name EXCEPT ![c.unit] = "own"] \in [Units -> Names]
    BY <1>1 DEF Names
  <2> QED
    BY <1>1, <2>1, <2>2, <2>3 DEF Games
<1>4. CASE c.kind = "recall"
  <2>1. Execute(g, c) = [g EXCEPT !.at = [@ EXCEPT ![c.unit] = c.to]]
    BY <1>1, <1>4 DEF Execute, Placed
  <2>2. [g.at EXCEPT ![c.unit] = c.to] \in [Units -> Places]
    BY <1>1, <1>2, <1>4
  <2> QED
    BY <1>1, <2>1, <2>2 DEF Games
<1>5. CASE c.kind = "disband"
  <2>1. Execute(g, c) = [g EXCEPT !.at = [@ EXCEPT ![c.unit] = "gone"]]
    BY <1>1, <1>5 DEF Execute, Placed
  <2>2. [g.at EXCEPT ![c.unit] = "gone"] \in [Units -> Places]
    BY <1>1
  <2> QED
    BY <1>1, <2>1, <2>2 DEF Games
<1>6. CASE c.kind = "move"
  <2> DEFINE at == [u \in Units |-> IF g.at[u] = c.at THEN c.to ELSE g.at[u]]
  <2>1. Execute(g, c) = [g EXCEPT !.at = at]
    BY <1>6 DEF Execute, Moved
  <2>2. at \in [Units -> Places]
    BY <1>1, <1>2, <1>6
  <2> HIDE DEF at
  <2> QED
    BY <1>1, <2>1, <2>2 DEF Games
<1>7. CASE c.kind = "rename"
  <2> DEFINE name == [u \in Units |-> IF g.at[u] = c.at THEN c.name ELSE g.name[u]]
  <2>1. Execute(g, c) = [g EXCEPT !.name = name]
    BY <1>7 DEF Execute, Renamed
  <2>2. name \in [Units -> Names]
    BY <1>1, <1>2, <1>7
  <2> HIDE DEF name
  <2> QED
    BY <1>1, <2>1, <2>2 DEF Games
<1>8. CASE c.kind = "speak"
  <2>1. Execute(g, c) = [g EXCEPT !.said = @ + 1]
    BY <1>8 DEF Execute
  <2> QED
    BY <1>1, <2>1 DEF Games
<1>9. CASE c.kind \in {"shroud_on", "shroud_off"}
  <2>1. Execute(g, c) = [g EXCEPT !.auto = (c.kind = "shroud_on")]
    BY <1>9 DEF Execute
  <2> QED
    BY <1>1, <2>1 DEF Games
<1>10. CASE c.kind \notin {"recruit", "recall", "disband", "move", "rename", "speak",
                           "shroud_on", "shroud_off"}
  BY <1>10 DEF Execute
<1> QED
  BY <1>3, <1>4, <1>5, <1>6, <1>7, <1>8, <1>9, <1>10

-----------------------------------------------------------------------------
(* Running commands.                                                         *)

\* Q are the games that one gets from g when the commands in E are run.
Chain(Q, g, cs, E) ==
  /\ Q \in [0..Len(cs) -> Games]
  /\ Q[0] = g
  /\ \A i \in 1..Len(cs) : Q[i] = IF i \in E THEN Execute(Q[i - 1], cs[i]) ELSE Q[i - 1]

LEMMA ChainExists ==
  ASSUME NEW g \in Games, NEW cs \in Seq(Orders), NEW E
  PROVE  \E Q : Chain(Q, g, cs, E)
<1> DEFINE F == [i \in 1..Len(cs) |-> [h \in Games |-> IF i \in E THEN Execute(h, cs[i]) ELSE h]]
<1>1. Len(cs) \in Nat /\ \A i \in 1..Len(cs) : cs[i] \in Orders
  OBVIOUS
<1>2. \A i \in 1..Len(cs), h \in Games : Execute(h, cs[i]) \in Games
  BY <1>1, ExecuteTyped
<1>3. Steps(F, Len(cs), Games)
  BY <1>2 DEF Steps
<1>4. PICK Q : Runs(Q, Len(cs), Games, g, F)
  <2> HIDE DEF F
  <2> QED
    BY <1>1, <1>3, Recursion
<1>5. Q \in [0..Len(cs) -> Games] /\ Q[0] = g
  BY <1>4 DEF Runs
<1>6. ASSUME NEW i \in 1..Len(cs)
      PROVE  Q[i] = IF i \in E THEN Execute(Q[i - 1], cs[i]) ELSE Q[i - 1]
  <2>1. Q[i - 1] \in Games
    BY <1>1, <1>5
  <2>2. Q[i] = F[i][Q[i - 1]]
    BY <1>4 DEF Runs
  <2> QED
    BY <2>1, <2>2
<1>7. Chain(Q, g, cs, E)
  BY <1>5, <1>6 DEF Chain
<1> QED
  BY <1>7

LEMMA ChainUnique ==
  ASSUME NEW cs, Len(cs) \in Nat, NEW g, NEW E, NEW Q, NEW R,
         Chain(Q, g, cs, E), Chain(R, g, cs, E)
  PROVE  \A i \in 0..Len(cs) : Q[i] = R[i]
<1> DEFINE H == {i \in 0..Len(cs) : Q[i] = R[i]}
<1>1. 0 \in H
  BY DEF Chain
<1>2. ASSUME NEW i \in 0..Len(cs), i # 0, i - 1 \in H PROVE i \in H
  <2>1. i \in 1..Len(cs)
    BY <1>2
  <2> QED
    BY <1>2, <2>1 DEF Chain
<1>3. \A i \in 0..Len(cs) : i \in H
  <2>1. \A i \in 0..Len(cs) : i # 0 /\ i - 1 \in H => i \in H
    BY <1>2
  <2> HIDE DEF H
  <2> QED
    BY <1>1, <2>1, UpFrom
<1> QED
  BY <1>3

\* Running a list of commands is running one after another.
LEMMA RunIsChain ==
  ASSUME NEW g \in Games, NEW cs \in Seq(Orders), NEW Q, Chain(Q, g, cs, 1..Len(cs))
  PROVE  Run(g, cs) = Q[Len(cs)]
<1> DEFINE N == Len(cs)
           F == [i \in 1..N |-> [h \in Games |-> Execute(h, cs[i])]]
           Def(it) == [s \in SUBSET DOMAIN cs |->
                         IF s = {} THEN g ELSE Execute(it[s \ {Max(s)}], cs[Max(s)])]
           C == CHOOSE it : it = Def(it)
<1>1. N \in Nat /\ DOMAIN cs = 1..N /\ \A i \in 1..N : cs[i] \in Orders
  OBVIOUS
<1>2. \A i \in 1..N, h \in Games : Execute(h, cs[i]) \in Games
  BY <1>1, ExecuteTyped
<1>3. Steps(F, N, Games)
  BY <1>2 DEF Steps
<1>4. PICK it : it \in [SUBSET (1..N) -> Games] /\ Folds(it, N, g, F)
  <2> HIDE DEF F, N
  <2> QED
    BY <1>1, <1>3, FoldExists
<1>5. ASSUME NEW s \in SUBSET (1..N), s # {}
      PROVE  it[s] = Execute(it[s \ {Max(s)}], cs[Max(s)])
  <2>1. Max(s) \in s
    BY <1>1, <1>5, MaxOfNumbers
  <2>2. Max(s) \in 1..N /\ it[s \ {Max(s)}] \in Games
    BY <1>4, <2>1
  <2>3. it[s] = F[Max(s)][it[s \ {Max(s)}]]
    BY <1>4, <1>5 DEF Folds
  <2> QED
    BY <2>2, <2>3
<1>6. it[{}] = g
  BY <1>4 DEF Folds
<1>7. it = Def(it)
  BY <1>1, <1>4, <1>5, <1>6
<1>8. C = Def(C)
  <2> HIDE DEF Def
  <2> QED
    BY <1>7
<1>9. Run(g, cs) = C[DOMAIN cs]
  BY DEF Run, FoldLeft, MapThenFoldSet
<1> HIDE DEF C
<1>10. \A s \in SUBSET (1..N) :
         C[s] = IF s = {} THEN g ELSE Execute(C[s \ {Max(s)}], cs[Max(s)])
  BY <1>1, <1>8
<1> DEFINE H == {n \in 0..N : C[1..n] = Q[n]}
<1>11. 0 \in H
  <2>1. 1..0 = {} /\ {} \in SUBSET (1..N)
    OBVIOUS
  <2>2. C[1..0] = g
    BY <1>10, <2>1
  <2> QED
    BY <1>1, <2>2 DEF Chain
<1>12. ASSUME NEW n \in 0..N, n # 0, n - 1 \in H PROVE n \in H
  <2> DEFINE s == 1..n
  <2>a. n \in 1..N /\ n \in s
    BY <1>1, <1>12
  <2>b. s \in SUBSET (1..N)
    BY <1>1, <2>a
  <2>c. s \ {n} = 1..(n - 1)
    BY <1>1, <2>a
  <2>1. n \in 1..N /\ s \in SUBSET (1..N) /\ s # {} /\ s \ {n} = 1..(n - 1) /\ n \in s
    BY <2>a, <2>b, <2>c
  <2>2. Max(s) = n
    <3>1. Max(s) \in s /\ \A y \in s : y <= Max(s)
      BY <1>1, <2>1, MaxOfNumbers
    <3> QED
      BY <1>1, <2>1, <3>1
  <2>3. C[s] = Execute(C[1..(n - 1)], cs[n])
    <3> HIDE DEF s
    <3> QED
      BY <1>10, <2>1, <2>2
  <2>4. Q[n] = Execute(Q[n - 1], cs[n])
    BY <2>1 DEF Chain
  <2> QED
    BY <1>12, <2>3, <2>4
<1>13. \A n \in 0..N : n \in H
  <2>1. \A i \in 0..N : i # 0 /\ i - 1 \in H => i \in H
    BY <1>12
  <2> HIDE DEF H
  <2> QED
    BY <1>1, <1>11, <2>1, UpFrom
<1>14. N \in H
  BY <1>1, <1>13
<1> QED
  BY <1>1, <1>9, <1>14

\* The games at the places of a part, and those of its elements that are in E.
Through(Q, f, t) == [i \in 0..Len(t) |-> Q[f[i]]]
Hits(E, f, t) == {i \in 1..Len(t) : f[i] \in E}

\* The games of a part are those of the whole in which nothing else is run.
LEMMA ChainOfPart ==
  ASSUME NEW s, Len(s) \in Nat, NEW t, Len(t) \in Nat, NEW I, NEW f, Part(t, s, I, f),
         NEW g, NEW E, \A i \in 1..Len(s) : i \in E => i \in I,
         NEW Q, Chain(Q, g, s, E)
  PROVE  /\ Chain(Through(Q, f, t), g, t, Hits(E, f, t))
         /\ Q[f[Len(t)]] = Q[Len(s)]
<1>1. /\ f \in [0..Len(t) -> 0..Len(s)] /\ f[0] = 0
      /\ \A i \in 1..Len(t) : f[i - 1] < f[i] /\ t[i] = s[f[i]]
      /\ \A i \in 1..Len(t) : \A n \in f[i - 1]+1..f[i]-1 : n \notin I
      /\ \A n \in f[Len(t)]+1..Len(s) : n \notin I
  BY DEF Part
<1>2. /\ Q \in [0..Len(s) -> Games] /\ Q[0] = g
      /\ \A i \in 1..Len(s) : Q[i] = IF i \in E THEN Execute(Q[i - 1], s[i]) ELSE Q[i - 1]
  BY DEF Chain
\* Where nothing is kept nothing changes.
<1>3. ASSUME NEW lo \in 0..Len(s), NEW hi \in 0..Len(s), lo <= hi, \A n \in lo+1..hi : n \notin I
      PROVE  Q[hi] = Q[lo]
  <2> DEFINE H == {n \in lo..hi : Q[n] = Q[lo]}
  <2>1. lo \in H
    BY <1>3
  <2>2. ASSUME NEW n \in lo..hi, n # lo, n - 1 \in H PROVE n \in H
    <3>1. n \in 1..Len(s) /\ n \in lo+1..hi
      BY <2>2
    <3>2. n \notin E
      BY <1>3, <3>1
    <3> QED
      BY <1>2, <2>2, <3>1, <3>2
  <2>3. \A n \in lo..hi : n \in H
    <3>1. \A n \in lo..hi : n # lo /\ n - 1 \in H => n \in H
      BY <2>2
    <3>2. lo \in Nat /\ hi \in Nat
      OBVIOUS
    <3> HIDE DEF H
    <3> QED
      BY <2>1, <3>1, <3>2, UpFrom
  <2> QED
    BY <1>3, <2>3
<1> DEFINE R == [i \in 0..Len(t) |-> Q[f[i]]]
<1>4. R \in [0..Len(t) -> Games] /\ R[0] = g
  BY <1>1, <1>2
<1>5. ASSUME NEW i \in 1..Len(t)
      PROVE  R[i] = IF f[i] \in E THEN Execute(R[i - 1], t[i]) ELSE R[i - 1]
  <2>1. i - 1 \in 0..Len(t) /\ i \in 0..Len(t)
    OBVIOUS
  <2>2. f[i - 1] \in 0..Len(s) /\ f[i] \in 1..Len(s) /\ f[i] - 1 \in 0..Len(s) /\ f[i - 1] <= f[i] - 1
    BY <1>1, <2>1
  <2>3. Q[f[i] - 1] = Q[f[i - 1]]
    BY <1>1, <1>3, <2>2
  <2>4. R[i] = Q[f[i]] /\ R[i - 1] = Q[f[i - 1]] /\ t[i] = s[f[i]]
    BY <1>1, <2>1
  <2> HIDE DEF R
  <2> QED
    BY <1>2, <2>2, <2>3, <2>4
<1>6. Q[f[Len(t)]] = Q[Len(s)]
  <2>1. f[Len(t)] \in 0..Len(s)
    BY <1>1
  <2>2. f[Len(t)] <= Len(s) /\ Len(s) \in 0..Len(s)
    BY <2>1
  <2> QED
    BY <1>1, <1>3, <2>1, <2>2
<1>7. Chain(R, g, t, Hits(E, f, t))
  <2> HIDE DEF R
  <2>1. \A i \in 1..Len(t) : i \in Hits(E, f, t) <=> f[i] \in E
    BY DEF Hits
  <2> QED
    BY <1>4, <1>5, <2>1 DEF Chain
<1>8. R = Through(Q, f, t)
  BY DEF Through
<1> HIDE DEF R
<1> QED
  BY <1>6, <1>7, <1>8

LEMMA RunOfKept ==
  ASSUME NEW g \in Games, NEW cs \in Seq(Orders), NEW E, NEW Q, Chain(Q, g, cs, E)
  PROVE  Run(g, Kept(cs, E)) = Q[Len(cs)]
<1> DEFINE t == Kept(cs, E)
<1>1. t \in Seq(Orders)
  BY KeptIsPart
<1>2. PICK f : Part(t, cs, E, f)
  BY KeptIsPart
<1>3. Len(cs) \in Nat /\ Len(t) \in Nat
  BY <1>1
<1> DEFINE R == Through(Q, f, t)
<1> HIDE DEF t
<1>4. Chain(R, g, t, Hits(E, f, t)) /\ Q[f[Len(t)]] = Q[Len(cs)]
  BY <1>2, <1>3, ChainOfPart
<1>5. Hits(E, f, t) = 1..Len(t)
  BY <1>2 DEF Part, Hits
<1>6. Chain(R, g, t, 1..Len(t))
  BY <1>4, <1>5
<1>7. R[Len(t)] = Q[Len(cs)]
  BY <1>3, <1>4 DEF Through
<1> HIDE DEF R
<1>8. Run(g, t) = R[Len(t)]
  BY <1>1, <1>6, RunIsChain
<1> QED
  BY <1>7, <1>8 DEF t

-----------------------------------------------------------------------------
(* What undo can rely on.                                                    *)

Places == Hexes \cup {"unborn", "recall", "gone"}

\* Where the units are, and whether the shroud is updated at once.
Board(g) == [at |-> g.at, auto |-> g.auto]
Boards == [at : [Units -> Places], auto : BOOLEAN]

Alone(at) == \A u, v \in Units : at[u] \in Hexes /\ at[u] = at[v] => u = v
Vacant(at, hex) == \A u \in Units : at[u] # hex

Moving == {"recruit", "recall", "disband", "move"}

\* Where the command finds its unit, and where it brings it.
Source(c) == IF c.kind = "recruit" THEN "unborn" ELSE IF c.kind = "move" THEN c.at ELSE "recall"
Goal(c) == IF c.kind = "disband" THEN "gone" ELSE c.to

\* The command c brings its unit u from its place in a to that in b.
Brings(c, u, a, b) ==
  /\ u \in Units /\ (c.kind # "move" => u = c.unit)
  /\ a[u] = Source(c) /\ b = [a EXCEPT ![u] = Goal(c)]

AtStep(a, c, b) ==
  /\ c.kind \in Moving
  /\ c.kind # "disband" => c.to \in Hexes /\ Vacant(a, c.to)
  /\ c.kind = "move" => c.at \in Hexes
  /\ \E u : Brings(c, u, a, b)

\* The command c leads from the board p to the board q, and back.
BoardStep(p, c, q) ==
  \/ AtStep(p.at, c, q.at) /\ q.auto = p.auto
  \/ /\ c.kind \in Shroud /\ q.at = p.at
     /\ q.auto = IF c.kind = "update_shroud" THEN p.auto ELSE (c.kind = "shroud_on")

OwnNames(g) == \A u \in Units : g.at[u] = "unborn" => g.name[u] = "own"

\* The same game, but for the names of some.
Alike(g, h, lost) ==
  /\ g.at = h.at /\ g.said = h.said /\ g.auto = h.auto
  /\ \A u \in Units \ lost : g.name[u] = h.name[u]

LEMMA GameFields ==
  ASSUME NEW g \in Games
  PROVE  /\ g.at \in [Units -> Places] /\ g.name \in [Units -> Names]
         /\ g.said \in Nat /\ g.auto \in BOOLEAN
         /\ g = [at |-> g.at, name |-> g.name, said |-> g.said, auto |-> g.auto]
         /\ Board(g) \in Boards /\ Board(g).at = g.at /\ Board(g).auto = g.auto
  BY DEF Games, Places, Board, Boards

LEMMA BoardFields ==
  ASSUME NEW b \in Boards
  PROVE  /\ b.at \in [Units -> Places] /\ b.auto \in BOOLEAN
         /\ b = [at |-> b.at, auto |-> b.auto]
  BY DEF Boards

LEMMA BoardIs ==
  ASSUME NEW g \in Games, NEW b \in Boards
  PROVE  Board(g) = b <=> g.at = b.at /\ g.auto = b.auto
  BY GameFields, BoardFields DEF Board

\* What each command does, field by field.
LEMMA Executed ==
  ASSUME NEW g \in Games, NEW c \in Orders
  PROVE  /\ Execute(g, c).at =
              IF c.kind \in {"recruit", "recall", "disband"} THEN [g.at EXCEPT ![c.unit] = Goal(c)]
              ELSE IF c.kind = "move"
                   THEN [u \in Units |-> IF g.at[u] = c.at THEN c.to ELSE g.at[u]]
                   ELSE g.at
         /\ Execute(g, c).name =
              IF c.kind = "recruit" THEN [g.name EXCEPT ![c.unit] = "own"]
              ELSE IF c.kind = "rename"
                   THEN [u \in Units |-> IF g.at[u] = c.at THEN c.name ELSE g.name[u]]
                   ELSE g.name
         /\ Execute(g, c).said = IF c.kind = "speak" THEN g.said + 1 ELSE g.said
         /\ Execute(g, c).auto = IF c.kind \in {"shroud_on", "shroud_off"}
                                 THEN (c.kind = "shroud_on") ELSE g.auto
<1>1. g = [at |-> g.at, name |-> g.name, said |-> g.said, auto |-> g.auto]
  BY GameFields
<1>2. CASE c.kind = "recruit"
  <2>1. Execute(g, c) = [at |-> [g.at EXCEPT ![c.unit] = c.to],
                         name |-> [g.name EXCEPT ![c.unit] = "own"],
                         said |-> g.said, auto |-> g.auto]
    BY <1>1, <1>2 DEF Execute, Born, Placed
  <2> QED
    BY <1>2, <2>1 DEF Goal
<1>3. CASE c.kind = "recall"
  <2>1. Execute(g, c) = [at |-> [g.at EXCEPT ![c.unit] = c.to], name |-> g.name,
                         said |-> g.said, auto |-> g.auto]
    BY <1>1, <1>3 DEF Execute, Placed
  <2> QED
    BY <1>3, <2>1 DEF Goal
<1>4. CASE c.kind = "disband"
  <2>1. Execute(g, c) = [at |-> [g.at EXCEPT ![c.unit] = "gone"], name |-> g.name,
                         said |-> g.said, auto |-> g.auto]
    BY <1>1, <1>4 DEF Execute, Placed
  <2> QED
    BY <1>4, <2>1 DEF Goal
<1>5. CASE c.kind = "move"
  <2>1. Execute(g, c) = [at |-> [u \in Units |-> IF g.at[u] = c.at THEN c.to ELSE g.at[u]],
                         name |-> g.name, said |-> g.said, auto |-> g.auto]
    BY <1>1, <1>5 DEF Execute, Moved
  <2> QED
    BY <1>5, <2>1
<1>6. CASE c.kind = "rename"
  <2>1. Execute(g, c) = [at |-> g.at,
                         name |-> [u \in Units |-> IF g.at[u] = c.at THEN c.name ELSE g.name[u]],
                         said |-> g.said, auto |-> g.auto]
    BY <1>1, <1>6 DEF Execute, Renamed
  <2> QED
    BY <1>6, <2>1
<1>7. CASE c.kind = "speak"
  <2>1. Execute(g, c) = [at |-> g.at, name |-> g.name, said |-> g.said + 1, auto |-> g.auto]
    BY <1>1, <1>7 DEF Execute
  <2> QED
    BY <1>7, <2>1
<1>8. CASE c.kind \in {"shroud_on", "shroud_off"}
  <2>1. Execute(g, c) = [at |-> g.at, name |-> g.name, said |-> g.said,
                         auto |-> (c.kind = "shroud_on")]
    BY <1>1, <1>8 DEF Execute
  <2> QED
    BY <1>8, <2>1
<1>9. CASE c.kind \notin {"recruit", "recall", "disband", "move", "rename", "speak",
                          "shroud_on", "shroud_off"}
  <2>1. Execute(g, c) = g
    BY <1>9 DEF Execute
  <2> QED
    BY <1>9, <2>1
<1> QED
  BY <1>2, <1>3, <1>4, <1>5, <1>6, <1>7, <1>8, <1>9

\* The same, unit by unit.
LEMMA ExecutedUnit ==
  ASSUME NEW g \in Games, NEW c \in Orders, NEW u \in Units
  PROVE  /\ Execute(g, c).at[u] =
              IF c.kind \in {"recruit", "recall", "disband"} /\ u = c.unit THEN Goal(c)
              ELSE IF c.kind = "move" /\ g.at[u] = c.at THEN c.to ELSE g.at[u]
         /\ Execute(g, c).name[u] =
              IF c.kind = "recruit" /\ u = c.unit THEN "own"
              ELSE IF c.kind = "rename" /\ g.at[u] = c.at THEN c.name ELSE g.name[u]
<1> DEFINE at == Execute(g, c).at
           name == Execute(g, c).name
<1>1. g.name \in [Units -> Names] /\ g.at \in [Units -> Places]
  BY GameFields
<1>2. /\ at = IF c.kind \in {"recruit", "recall", "disband"} THEN [g.at EXCEPT ![c.unit] = Goal(c)]
              ELSE IF c.kind = "move"
                   THEN [v \in Units |-> IF g.at[v] = c.at THEN c.to ELSE g.at[v]]
                   ELSE g.at
      /\ name = IF c.kind = "recruit" THEN [g.name EXCEPT ![c.unit] = "own"]
                ELSE IF c.kind = "rename"
                     THEN [v \in Units |-> IF g.at[v] = c.at THEN c.name ELSE g.name[v]]
                     ELSE g.name
  BY Executed
<1> HIDE DEF at, name
<1>3. at[u] = IF c.kind \in {"recruit", "recall", "disband"} /\ u = c.unit THEN Goal(c)
              ELSE IF c.kind = "move" /\ g.at[u] = c.at THEN c.to ELSE g.at[u]
  BY <1>1, <1>2
<1>4. name[u] = IF c.kind = "recruit" /\ u = c.unit THEN "own"
                ELSE IF c.kind = "rename" /\ g.at[u] = c.at THEN c.name ELSE g.name[u]
  BY <1>1, <1>2
<1> QED
  BY <1>3, <1>4 DEF at, name

LEMMA OwnNamesKept ==
  ASSUME NEW g \in Games, NEW c \in Orders, OwnNames(g)
  PROVE  OwnNames(Execute(g, c))
<1>1. \A u \in Units : g.at[u] = "unborn" => g.name[u] = "own"
  BY DEF OwnNames
<1>2. /\ c.kind \in {"recruit", "recall", "disband"} => Goal(c) # "unborn"
      /\ c.kind = "move" => c.to # "unborn"
      /\ c.kind = "rename" => c.at # "unborn"
  BY PlacesAssumption DEF Orders, Goal
<1>3. ASSUME NEW u \in Units, Execute(g, c).at[u] = "unborn"
      PROVE  Execute(g, c).name[u] = "own"
  <2>1. g.at[u] = "unborn"
    BY <1>2, <1>3, ExecutedUnit
  <2> QED
    BY <1>1, <1>2, <2>1, ExecutedUnit
<1> QED
  BY <1>3 DEF OwnNames

\* Games that are alike stay so.
LEMMA AlikeExecutes ==
  ASSUME NEW g \in Games, NEW h \in Games, NEW lost, NEW c \in Orders, Alike(g, h, lost)
  PROVE  Alike(Execute(g, c), Execute(h, c), lost)
<1>1. /\ g.at = h.at /\ g.said = h.said /\ g.auto = h.auto
      /\ \A u \in Units \ lost : g.name[u] = h.name[u]
  BY DEF Alike
<1>2. Execute(g, c).at = Execute(h, c).at
  <2>1. Execute(g, c) \in Games /\ Execute(h, c) \in Games
    BY ExecuteTyped
  <2>2. Execute(g, c).at \in [Units -> Places] /\ Execute(h, c).at \in [Units -> Places]
    BY <2>1, GameFields
  <2>3. ASSUME NEW u \in Units PROVE Execute(g, c).at[u] = Execute(h, c).at[u]
    <3>1. g.at[u] = h.at[u]
      BY <1>1
    <3> QED
      BY <3>1, ExecutedUnit
  <2> QED
    BY <2>2, <2>3
<1>3. Execute(g, c).said = Execute(h, c).said
  <2>1. Execute(g, c).said = IF c.kind = "speak" THEN g.said + 1 ELSE g.said
    BY Executed
  <2>2. Execute(h, c).said = IF c.kind = "speak" THEN h.said + 1 ELSE h.said
    BY Executed
  <2> QED
    BY <1>1, <2>1, <2>2
<1>4. Execute(g, c).auto = Execute(h, c).auto
  <2>1. Execute(g, c).auto = IF c.kind \in {"shroud_on", "shroud_off"}
                             THEN (c.kind = "shroud_on") ELSE g.auto
    BY Executed
  <2>2. Execute(h, c).auto = IF c.kind \in {"shroud_on", "shroud_off"}
                             THEN (c.kind = "shroud_on") ELSE h.auto
    BY Executed
  <2> QED
    BY <1>1, <2>1, <2>2
<1>5. ASSUME NEW u \in Units \ lost
      PROVE  Execute(g, c).name[u] = Execute(h, c).name[u]
  <2>1. g.at[u] = h.at[u] /\ g.name[u] = h.name[u]
    BY <1>1
  <2> QED
    BY <2>1, ExecutedUnit
<1> QED
  BY <1>2, <1>3, <1>4, <1>5 DEF Alike

LEMMA StepFacts ==
  ASSUME NEW a \in [Units -> Places], NEW c \in Orders, NEW b, AtStep(a, c, b), Alone(a)
  PROVE  /\ b \in [Units -> Places] /\ Alone(b) /\ Goal(c) \in Places
         /\ \E u \in Units : /\ Brings(c, u, a, b) /\ b[u] = Goal(c)
                             /\ \A v \in Units : v # u => b[v] = a[v]
<1>1. PICK u \in Units : Brings(c, u, a, b)
  BY DEF AtStep, Brings
<1>2. b = [a EXCEPT ![u] = Goal(c)]
  BY <1>1 DEF Brings
<1>3. Goal(c) \in Places
  BY DEF Goal, Places, AtStep
<1>4. b \in [Units -> Places] /\ b[u] = Goal(c) /\ \A v \in Units : v # u => b[v] = a[v]
  BY <1>2, <1>3
<1>5. Goal(c) \in Hexes => \A v \in Units : a[v] # Goal(c)
  BY PlacesAssumption DEF Goal, AtStep, Vacant
<1>6. Alone(b)
  <2> SUFFICES ASSUME NEW v \in Units, NEW w \in Units, b[v] \in Hexes, b[v] = b[w]
               PROVE  v = w
    BY DEF Alone
  <2>1. CASE v = u /\ w # u
    BY <1>4, <1>5, <2>1
  <2>2. CASE v # u /\ w = u
    BY <1>4, <1>5, <2>2
  <2>3. CASE v # u /\ w # u
    <3>1. b[v] = a[v] /\ b[w] = a[w]
      BY <1>4, <2>3
    <3> QED
      BY <3>1 DEF Alone
  <2> QED
    BY <2>1, <2>2, <2>3
<1> QED
  BY <1>1, <1>3, <1>4, <1>6

\* The command leads from board to board.
LEMMA StepExecutes ==
  ASSUME NEW g \in Games, OwnNames(g), Alone(g.at), NEW c \in Orders, NEW b \in Boards,
         BoardStep(Board(g), c, b)
  PROVE  /\ Board(Execute(g, c)) = b /\ Alone(b.at)
         /\ Execute(g, c).said = g.said /\ Execute(g, c).name = g.name
<1>1. /\ Board(g).at = g.at /\ Board(g).auto = g.auto /\ g.at \in [Units -> Places]
      /\ g.name \in [Units -> Names]
  BY GameFields
<1>2. Execute(g, c) \in Games
  BY ExecuteTyped
<1>3. CASE AtStep(g.at, c, b.at) /\ b.auto = g.auto
  <2>0. c.kind \in Moving
    BY <1>3 DEF AtStep
  <2>1. b.at \in [Units -> Places] /\ Alone(b.at)
    BY <1>1, <1>3, StepFacts
  <2>2. PICK u \in Units : /\ Brings(c, u, g.at, b.at) /\ b.at[u] = Goal(c)
                           /\ \A v \in Units : v # u => b.at[v] = g.at[v]
    BY <1>1, <1>3, StepFacts
  <2>3. /\ c.kind # "move" => u = c.unit
        /\ g.at[u] = Source(c)
    BY <2>2 DEF Brings
  <2>4. c.kind = "move" => c.at \in Hexes /\ Source(c) = c.at /\ Goal(c) = c.to
    BY <1>3 DEF AtStep, Source, Goal
  <2>5. ASSUME NEW v \in Units PROVE Execute(g, c).at[v] = b.at[v]
    <3>1. CASE c.kind = "move"
      <4>1. g.at[v] = c.at <=> v = u
        BY <2>3, <2>4, <3>1 DEF Alone
      <4>2. Execute(g, c).at[v] = IF g.at[v] = c.at THEN c.to ELSE g.at[v]
        BY <3>1, ExecutedUnit
      <4> QED
        BY <2>2, <2>4, <3>1, <4>1, <4>2
    <3>2. CASE c.kind # "move"
      <4>1. Execute(g, c).at[v] = IF v = u THEN Goal(c) ELSE g.at[v]
        BY <2>0, <2>3, <3>2, ExecutedUnit DEF Moving
      <4> QED
        BY <2>2, <4>1
    <3> QED
      BY <3>1, <3>2
  <2>6. Execute(g, c).at = b.at
    <3>1. Execute(g, c).at \in [Units -> Places]
      BY <1>2, GameFields
    <3> QED
      BY <2>1, <2>5, <3>1
  <2>7. ASSUME NEW v \in Units PROVE Execute(g, c).name[v] = g.name[v]
    <3>1. c.kind = "recruit" => Source(c) = "unborn"
      BY DEF Source
    <3>2. c.kind = "recruit" => g.name[c.unit] = "own"
      BY <2>3, <3>1 DEF OwnNames
    <3> QED
      BY <2>0, <3>2, ExecutedUnit DEF Moving
  <2>8. Execute(g, c).name = g.name
    <3>1. Execute(g, c).name \in [Units -> Names]
      BY <1>2, GameFields
    <3> QED
      BY <1>1, <2>7, <3>1
  <2>9. Execute(g, c).said = g.said /\ Execute(g, c).auto = g.auto
    <3>1. c.kind \notin {"speak", "shroud_on", "shroud_off"}
      BY <2>0 DEF Moving
    <3> QED
      BY <3>1, Executed
  <2> QED
    BY <1>2, <1>3, <2>1, <2>6, <2>8, <2>9, BoardIs
<1>4. CASE /\ c.kind \in Shroud /\ b.at = g.at
           /\ b.auto = IF c.kind = "update_shroud" THEN g.auto ELSE (c.kind = "shroud_on")
  <2>1. /\ c.kind \notin {"recruit", "recall", "disband", "move", "rename", "speak"}
        /\ c.kind = "update_shroud" \/ c.kind \in {"shroud_on", "shroud_off"}
        /\ c.kind = "update_shroud" => c.kind \notin {"shroud_on", "shroud_off"}
    BY <1>4 DEF Shroud
  <2>2. Execute(g, c).at = g.at /\ Execute(g, c).name = g.name
    BY <2>1, Executed
  <2>3. Execute(g, c).said = g.said /\ Execute(g, c).auto = b.auto
    BY <1>4, <2>1, Executed
  <2> QED
    BY <1>2, <1>4, <2>2, <2>3, BoardIs
<1> QED
  BY <1>1, <1>3, <1>4 DEF BoardStep

\* What was done can be taken back, and leads back.
LEMMA StepTakenBack ==
  ASSUME NEW g \in Games, OwnNames(g), NEW c \in Orders, NEW a \in [Units -> Places],
         AtStep(a, c, g.at), Alone(a)
  PROVE  /\ CanTakeBack(g, c)
         /\ TakeBack(g, c) \in Games /\ OwnNames(TakeBack(g, c))
         /\ TakeBack(g, c).at = a
         /\ TakeBack(g, c).said = g.said /\ TakeBack(g, c).auto = g.auto
         /\ \A v \in Units : ~(c.kind = "recruit" /\ v = c.unit) => TakeBack(g, c).name[v] = g.name[v]
<1> DEFINE h == TakeBack(g, c)
<1>0. /\ c.kind \in Moving
      /\ c.kind # "disband" => c.to \in Hexes /\ Vacant(a, c.to)
      /\ c.kind = "move" => c.at \in Hexes
  BY DEF AtStep
<1>1. /\ g.at \in [Units -> Places] /\ g.name \in [Units -> Names] /\ Alone(g.at)
      /\ g.said \in Nat /\ g.auto \in BOOLEAN
      /\ g = [at |-> g.at, name |-> g.name, said |-> g.said, auto |-> g.auto]
  BY GameFields, StepFacts
<1>2. PICK u \in Units : /\ Brings(c, u, a, g.at) /\ g.at[u] = Goal(c)
                         /\ \A v \in Units : v # u => g.at[v] = a[v]
  BY StepFacts
<1>3. (c.kind # "move" => u = c.unit) /\ a[u] = Source(c)
  BY <1>2 DEF Brings
<1>4. [g.at EXCEPT ![u] = Source(c)] = a
  BY <1>1, <1>2, <1>3
<1>5. CASE c.kind = "recruit"
  <2>1. h = [at |-> [g.at EXCEPT ![c.unit] = "unborn"], name |-> [g.name EXCEPT ![c.unit] = "own"],
             said |-> g.said, auto |-> g.auto]
    BY <1>1, <1>5 DEF TakeBack, Placed
  <2>2. h.at = a /\ h.name = [g.name EXCEPT ![c.unit] = "own"] /\ h.said = g.said /\ h.auto = g.auto
    BY <1>3, <1>4, <1>5, <2>1 DEF Source
  <2>3. h.name \in [Units -> Names]
    BY <1>1, <2>2 DEF Names
  <2>4. h = [at |-> h.at, name |-> h.name, said |-> h.said, auto |-> h.auto]
    BY <2>1
  <2> HIDE DEF h
  <2>5. h \in Games
    BY <1>1, <2>2, <2>3, <2>4 DEF Games, Places
  <2>6. \A v \in Units : h.name[v] = IF v = c.unit THEN "own" ELSE g.name[v]
    BY <1>1, <2>2
  <2>7. OwnNames(h)
    <3>1. \A v \in Units : v # c.unit /\ a[v] = "unborn" => g.name[v] = "own"
      BY <1>2, <1>3, <1>5 DEF OwnNames
    <3> QED
      BY <2>2, <2>6, <3>1 DEF OwnNames
  <2>8. CanTakeBack(g, c)
    BY <1>2, <1>5 DEF CanTakeBack, Free, Goal
  <2> QED
    BY <1>5, <2>2, <2>5, <2>6, <2>7, <2>8 DEF h
<1>6. CASE c.kind \in {"recall", "disband"}
  <2>1. h = [at |-> [g.at EXCEPT ![c.unit] = "recall"], name |-> g.name,
             said |-> g.said, auto |-> g.auto]
    BY <1>1, <1>6 DEF TakeBack, Placed
  <2>2. h.at = a /\ h.name = g.name /\ h.said = g.said /\ h.auto = g.auto
    BY <1>3, <1>4, <1>6, <2>1 DEF Source
  <2>4. h = [at |-> h.at, name |-> h.name, said |-> h.said, auto |-> h.auto]
    BY <2>1
  <2> HIDE DEF h
  <2>5. h \in Games
    BY <1>1, <2>2, <2>4 DEF Games, Places
  <2>7. OwnNames(h)
    <3>1. a[c.unit] = "recall" /\ u = c.unit
      BY <1>3, <1>6 DEF Source
    <3>2. \A v \in Units : a[v] = "unborn" => g.name[v] = "own"
      BY <1>2, <3>1 DEF OwnNames
    <3> QED
      BY <2>2, <3>2 DEF OwnNames
  <2>8. CanTakeBack(g, c)
    BY <1>2, <1>6 DEF CanTakeBack, Free, Goal
  <2> QED
    BY <2>2, <2>5, <2>7, <2>8 DEF h
<1>7. CASE c.kind = "move"
  <2>0. c.at \in Hexes /\ a[u] = c.at /\ g.at[u] = c.to /\ c.to # c.at
    BY <1>0, <1>2, <1>3, <1>7 DEF Source, Goal, Vacant
  <2>1. h = [at |-> [v \in Units |-> IF g.at[v] = c.to THEN c.at ELSE g.at[v]], name |-> g.name,
             said |-> g.said, auto |-> g.auto]
    BY <1>1, <1>7 DEF TakeBack, Moved
  <2>2. h.name = g.name /\ h.said = g.said /\ h.auto = g.auto
    BY <2>1
  <2>3. h.at = a
    <3>1. \A v \in Units : g.at[v] = c.to => v = u
      BY <1>0, <1>1, <1>7, <2>0 DEF Alone
    <3>2. ASSUME NEW v \in Units PROVE (IF g.at[v] = c.to THEN c.at ELSE g.at[v]) = a[v]
      BY <1>2, <2>0, <3>1
    <3> QED
      BY <2>1, <3>2
  <2>4. h = [at |-> h.at, name |-> h.name, said |-> h.said, auto |-> h.auto]
    BY <2>1
  <2> HIDE DEF h
  <2>5. h \in Games
    BY <1>1, <2>2, <2>3, <2>4 DEF Games, Places
  <2>7. OwnNames(h)
    <3>2. \A v \in Units : a[v] = "unborn" => g.name[v] = "own"
      BY <1>2, <2>0, PlacesAssumption DEF OwnNames
    <3> QED
      BY <2>2, <2>3, <3>2 DEF OwnNames
  <2>8. Free(g, c.at)
    <3>1. \A v \in Units : a[v] = c.at => v = u
      BY <2>0 DEF Alone
    <3> QED
      BY <1>2, <2>0, <3>1 DEF Free
  <2>9. CanTakeBack(g, c)
    BY <1>7, <2>0, <2>8 DEF CanTakeBack, Free
  <2> QED
    BY <2>2, <2>3, <2>5, <2>7, <2>9 DEF h
<1> QED
  BY <1>0, <1>5, <1>6, <1>7 DEF Moving

LEMMA StepAgain ==
  ASSUME NEW g \in Games, NEW c, NEW b, AtStep(g.at, c, b)
  PROVE  CanDoAgain(g, c)
<1>1. PICK u : Brings(c, u, g.at, b)
  BY DEF AtStep
<1> QED
  BY <1>1 DEF AtStep, CanDoAgain, Free, Vacant, Brings, Source, Moving

-----------------------------------------------------------------------------
(* One command back.                                                         *)

\* The actions whose events may ask questions and that can be undone all the same.
Asking == {"move", "recruit", "recall"}

\* What is recorded after an action of a kind and stays when it is undone, or goes
\* with it: messages, renames of units on the board, answers to its questions.
Quiet(d, board, after) ==
  \/ d.kind = "speak"
  \/ d.kind = "rename" /\ ~d.sent /\ ~Vacant(board.at, d.at)
  \/ d.kind = "choice" /\ ~d.sent /\ after \in Asking

\* What undo_cut takes away with the command c, and what it makes of the rest.
Orphaned(c, d) == c.kind \in {"recruit", "recall"} /\ Async(d) /\ d.at = c.to
Dropped(c, d) == Dependent(d) \/ Orphaned(c, d)
Mended(c, d) ==
  IF c.kind = "move" /\ Async(d) /\ d.at = c.to THEN [d EXCEPT !.at = c.at] ELSE d

\* The game z without the command that leads from p to q, and the game x with it.
Related(x, z, q, p, away) ==
  /\ Board(x) = q /\ Board(z) = p /\ z.said = x.said
  /\ \A v \in Units \ away : z.name[v] = x.name[v]

LEMMA OrderFields ==
  ASSUME NEW d \in Orders
  PROVE  /\ d = [kind |-> d.kind, unit |-> d.unit, at |-> d.at, to |-> d.to,
                 name |-> d.name, sent |-> d.sent]
         /\ d.kind \in Kinds /\ d.unit \in Units \cup {None} /\ d.at \in Hexes \cup {None}
         /\ d.to \in Hexes \cup {None} /\ d.name \in Names \cup {None} /\ d.sent \in BOOLEAN
         /\ d.kind \in {"recruit", "recall", "move"} => d.to \in Hexes
         /\ d.kind \in {"move", "rename"} => d.at \in Hexes
         /\ d.kind = "rename" => d.name \in Names
  BY DEF Orders, Commands

LEMMA MendedFields ==
  ASSUME NEW c \in Orders, NEW d \in Orders
  PROVE  /\ Mended(c, d) \in Orders
         /\ Mended(c, d).kind = d.kind /\ Mended(c, d).sent = d.sent
         /\ Mended(c, d).name = d.name
         /\ Mended(c, d).at = IF c.kind = "move" /\ Async(d) /\ d.at = c.to THEN c.at ELSE d.at
         /\ ~Async(d) => Mended(c, d) = d
<1>1. CASE c.kind = "move" /\ Async(d) /\ d.at = c.to
  <2>1. Mended(c, d) = [kind |-> d.kind, unit |-> d.unit, at |-> c.at, to |-> d.to,
                        name |-> d.name, sent |-> d.sent]
    BY <1>1, OrderFields DEF Mended
  <2>2. c.at \in Hexes
    BY <1>1, OrderFields
  <2> DEFINE e == Mended(c, d)
  <2>3. /\ e.kind = d.kind /\ e.unit = d.unit /\ e.at = c.at /\ e.to = d.to
        /\ e.name = d.name /\ e.sent = d.sent
    BY <2>1
  <2>4. e \in Commands
    BY <2>1, <2>2, OrderFields DEF Commands
  <2> HIDE DEF e
  <2>5. e \in Orders
    BY <2>2, <2>3, <2>4, OrderFields DEF Orders
  <2> QED
    BY <1>1, <2>3, <2>5 DEF e
<1>2. CASE ~(c.kind = "move" /\ Async(d) /\ d.at = c.to)
  BY <1>2 DEF Mended
<1> QED
  BY <1>1, <1>2

\* A rename and a message change neither what stands where nor the shroud.
LEMMA QuietExecutes ==
  ASSUME NEW x \in Games, NEW d \in Orders, d.kind \in {"speak", "rename", "choice"}
  PROVE  /\ Board(Execute(x, d)) = Board(x)
         /\ Execute(x, d).said = IF d.kind = "speak" THEN x.said + 1 ELSE x.said
         /\ \A v \in Units : Execute(x, d).name[v] =
              IF d.kind = "rename" /\ x.at[v] = d.at THEN d.name ELSE x.name[v]
<1>1. Execute(x, d) \in Games
  BY ExecuteTyped
<1>2. /\ d.kind \notin {"recruit", "recall", "disband", "move", "shroud_on", "shroud_off"}
      /\ d.kind # "recruit"
  OBVIOUS
<1>3. Execute(x, d).at = x.at
  BY <1>2, Executed
<1>4. Execute(x, d).auto = x.auto
  BY <1>2, Executed
<1>5. Execute(x, d).said = IF d.kind = "speak" THEN x.said + 1 ELSE x.said
  BY Executed
<1>6. \A v \in Units : Execute(x, d).name[v] =
              IF d.kind = "rename" /\ x.at[v] = d.at THEN d.name ELSE x.name[v]
  BY <1>2, ExecutedUnit
<1>7. Board(Execute(x, d)) = Board(x)
  BY <1>3, <1>4 DEF Board
<1> QED
  BY <1>5, <1>6, <1>7

\* The boards of a step differ in one unit at most.
LEMMA StepMoves ==
  ASSUME NEW p \in Boards, NEW q \in Boards, NEW c \in Orders, BoardStep(p, c, q), Alone(p.at)
  PROVE  /\ Alone(q.at)
         /\ c.kind \notin Moving => q.at = p.at
         /\ c.kind \in Moving =>
              \E u \in Units : /\ p.at[u] = Source(c) /\ q.at[u] = Goal(c)
                               /\ c.kind # "move" => u = c.unit
                               /\ \A v \in Units : v # u => q.at[v] = p.at[v]
                               /\ c.kind # "disband" => c.to \in Hexes /\ Vacant(p.at, c.to)
<1>1. p.at \in [Units -> Places] /\ q.at \in [Units -> Places]
  BY BoardFields
<1>2. CASE AtStep(p.at, c, q.at)
  <2>1. c.kind \in Moving /\ (c.kind # "disband" => c.to \in Hexes /\ Vacant(p.at, c.to))
    BY <1>2 DEF AtStep
  <2>2. /\ Alone(q.at)
        /\ \E u \in Units : /\ Brings(c, u, p.at, q.at) /\ q.at[u] = Goal(c)
                            /\ \A v \in Units : v # u => q.at[v] = p.at[v]
    BY <1>1, <1>2, StepFacts
  <2> QED
    BY <2>1, <2>2 DEF Brings
<1>3. CASE c.kind \in Shroud /\ q.at = p.at
  <2>1. c.kind \notin Moving
    BY <1>3 DEF Shroud, Moving
  <2> QED
    BY <1>3, <2>1
<1> QED
  BY <1>2, <1>3 DEF BoardStep

LEMMA StepBack ==
  ASSUME NEW p \in Boards, NEW q \in Boards, NEW c \in Orders, BoardStep(p, c, q), Alone(p.at),
         NEW x \in Games, NEW z \in Games, NEW away, Related(x, z, q, p, away),
         NEW d \in Orders, Quiet(d, q, c.kind), Orphaned(c, d) => c.unit \in away
  PROVE  /\ Dropped(c, d) => Related(Execute(x, d), z, q, p, away)
         /\ ~Dropped(c, d) => /\ Related(Execute(x, d), Execute(z, Mended(c, d)), q, p, away)
                              /\ \A after : Quiet(Mended(c, d), p, after)
<1>1. /\ Board(x) = q /\ Board(z) = p /\ z.said = x.said
      /\ \A v \in Units \ away : z.name[v] = x.name[v]
  BY DEF Related
<1>2. x.at = q.at /\ z.at = p.at
  BY <1>1, BoardIs
<1>3. d.kind \in {"speak", "rename", "choice"} /\ (Async(d) <=> d.kind = "rename")
      /\ (Dependent(d) <=> d.kind = "choice")
  BY DEF Quiet, Async, Dependent
<1>4. /\ Board(Execute(x, d)) = q
      /\ Execute(x, d).said = IF d.kind = "speak" THEN x.said + 1 ELSE x.said
      /\ \A v \in Units : Execute(x, d).name[v] =
              IF d.kind = "rename" /\ q.at[v] = d.at THEN d.name ELSE x.name[v]
  BY <1>1, <1>2, <1>3, QuietExecutes
<1>5. /\ c.kind \notin Moving => q.at = p.at
      /\ Alone(q.at)
  BY StepMoves
<1>6. p.at \in [Units -> Places] /\ q.at \in [Units -> Places]
  BY BoardFields
<1>7. CASE Dependent(d)
  <2>1. Related(Execute(x, d), z, q, p, away)
    BY <1>1, <1>3, <1>4, <1>7 DEF Related
  <2> QED
    BY <1>7, <2>1 DEF Dropped
<1>8. CASE Orphaned(c, d)
  <2>1. c.kind \in Moving /\ c.kind # "move" /\ c.kind # "disband" /\ Goal(c) = c.to
        /\ d.kind = "rename" /\ d.at = c.to
    BY <1>3, <1>8 DEF Orphaned, Moving, Goal
  <2>2. q.at[c.unit] = c.to /\ c.to \in Hexes /\ c.unit \in Units
    BY <2>1, StepMoves
  <2>3. \A v \in Units : q.at[v] = d.at => v = c.unit
    BY <1>5, <2>1, <2>2 DEF Alone
  <2>4. \A v \in Units \ away : Execute(x, d).name[v] = x.name[v]
    BY <1>4, <1>8, <2>3
  <2>5. Related(Execute(x, d), z, q, p, away)
    BY <1>1, <1>4, <2>1, <2>4 DEF Related
  <2> QED
    BY <1>8, <2>5 DEF Dropped
<1>9. CASE ~Dropped(c, d)
  <2> DEFINE e == Mended(c, d)
  <2>0. ~Orphaned(c, d) /\ ~Dependent(d)
    BY <1>9 DEF Dropped
  <2>1. /\ e \in Orders /\ e.kind = d.kind /\ e.sent = d.sent /\ e.name = d.name
        /\ e.at = IF c.kind = "move" /\ Async(d) /\ d.at = c.to THEN c.at ELSE d.at
    BY MendedFields
  <2> HIDE DEF e
  <2>2. /\ Board(Execute(z, e)) = p
        /\ Execute(z, e).said = IF d.kind = "speak" THEN z.said + 1 ELSE z.said
        /\ \A v \in Units : Execute(z, e).name[v] =
              IF d.kind = "rename" /\ p.at[v] = e.at THEN d.name ELSE z.name[v]
    BY <1>1, <1>2, <1>3, <2>1, QuietExecutes
  \* The rename is about the same unit.
  <2>3. ASSUME d.kind = "rename"
        PROVE  /\ \A v \in Units : p.at[v] = e.at <=> q.at[v] = d.at
               /\ ~Vacant(p.at, e.at)
    <3>1. d.at \in Hexes /\ d.at # "gone" /\ d.at # "unborn" /\ d.at # "recall"
      BY <2>3, PlacesAssumption, OrderFields
    <3>2. ~Vacant(q.at, d.at)
      BY <2>3 DEF Quiet
    <3>3. CASE c.kind \notin Moving
      BY <1>5, <2>1, <3>2, <3>3 DEF Moving
    <3>4. CASE c.kind \in Moving
      <4>1. PICK u \in Units : /\ p.at[u] = Source(c) /\ q.at[u] = Goal(c)
                               /\ c.kind # "move" => u = c.unit
                               /\ \A v \in Units : v # u => q.at[v] = p.at[v]
                               /\ c.kind # "disband" => c.to \in Hexes /\ Vacant(p.at, c.to)
        BY <3>4, StepMoves
      <4>2. CASE c.kind = "move" /\ d.at = c.to
        <5>1. e.at = c.at /\ p.at[u] = c.at /\ q.at[u] = c.to /\ c.at \in Hexes
          BY <1>3, <2>1, <2>3, <4>1, <4>2, OrderFields DEF Source, Goal
        <5>2. \A v \in Units : p.at[v] = c.at => v = u
          BY <5>1 DEF Alone
        <5>3. \A v \in Units : q.at[v] = c.to => v = u
          BY <1>5, <3>1, <4>2, <5>1 DEF Alone
        <5> QED
          BY <4>2, <5>1, <5>2, <5>3 DEF Vacant
      <4>3. CASE ~(c.kind = "move" /\ d.at = c.to)
        <5>1. e.at = d.at
          BY <2>1, <4>3
        <5>2. d.at # Goal(c)
          BY <1>3, <2>0, <2>3, <3>1, <3>4, <4>3 DEF Goal, Orphaned, Moving
        <5>3. q.at[u] # d.at
          BY <4>1, <5>2
        <5>4. c.kind # "move" => p.at[u] # d.at
          BY <3>1, <4>1 DEF Source
        <5>5. c.kind = "move" => p.at[u] # d.at
          <6> SUFFICES ASSUME c.kind = "move", p.at[u] = d.at PROVE FALSE
            OBVIOUS
          <6>1. PICK v \in Units : q.at[v] = d.at
            BY <3>2 DEF Vacant
          <6>2. v # u /\ p.at[v] = d.at
            BY <4>1, <5>3, <6>1
          <6> QED
            BY <3>1, <6>2 DEF Alone
        <5>6. \A v \in Units : p.at[v] = d.at <=> q.at[v] = d.at
          BY <4>1, <5>3, <5>4, <5>5
        <5> QED
          BY <3>2, <5>1, <5>6 DEF Vacant
      <4> QED
        BY <4>2, <4>3
    <3> QED
      BY <3>3, <3>4
  <2>4. \A v \in Units \ away : Execute(z, e).name[v] = Execute(x, d).name[v]
    BY <1>1, <1>4, <2>2, <2>3
  <2>5. Execute(z, e).said = Execute(x, d).said
    BY <1>1, <1>4, <2>2
  <2>6. Related(Execute(x, d), Execute(z, e), q, p, away)
    BY <1>4, <2>2, <2>4, <2>5 DEF Related
  <2>7. \A after : Quiet(e, p, after)
    <3>1. d.kind # "choice"
      BY <1>3, <2>0
    <3>2. d.kind = "rename" => ~d.sent
      BY DEF Quiet
    <3> QED
      BY <1>3, <2>1, <2>3, <3>1, <3>2 DEF Quiet
  <2> QED
    BY <1>9, <2>6, <2>7 DEF e
<1> QED
  BY <1>7, <1>8, <1>9 DEF Dropped

-----------------------------------------------------------------------------
(* undo_cut leaves a part of the record.                                     *)

LEMMA SubSeqIs ==
  ASSUME NEW S, NEW s \in Seq(S), NEW m \in 1..Len(s)+1, NEW n \in 0..Len(s)
  PROVE  /\ SubSeq(s, m, n) \in Seq(S)
         /\ Len(SubSeq(s, m, n)) = IF m <= n THEN n - m + 1 ELSE 0
         /\ \A i \in 1..n-m+1 : SubSeq(s, m, n)[i] = s[m + i - 1]
<1>1. \A i \in m..n : s[i] \in S
  OBVIOUS
<1>2. m \in Int /\ n \in Int
  OBVIOUS
<1> QED
  BY <1>1, <1>2, SubSeqProperties

LEMMA BeginIs ==
  ASSUME NEW S, NEW s \in Seq(S), NEW n \in 0..Len(s)
  PROVE  /\ SubSeq(s, 1, n) \in Seq(S) /\ Len(SubSeq(s, 1, n)) = n
         /\ \A i \in 1..n : SubSeq(s, 1, n)[i] = s[i]
<1> DEFINE t == SubSeq(s, 1, n)
<1>1. 1 \in 1..Len(s)+1 /\ n \in Nat
  OBVIOUS
<1>2. /\ t \in Seq(S)
      /\ Len(t) = IF 1 <= n THEN n - 1 + 1 ELSE 0
      /\ \A i \in 1..n-1+1 : t[i] = s[1 + i - 1]
  BY <1>1, SubSeqIs
<1> HIDE DEF t
<1>3. Len(t) = n
  BY <1>1, <1>2
<1>4. ASSUME NEW i \in 1..n PROVE t[i] = s[i]
  <2>1. i \in 1..n-1+1 /\ 1 + i - 1 = i
    BY <1>1
  <2> QED
    BY <1>2, <2>1
<1> QED
  BY <1>2, <1>3, <1>4 DEF t

LEMMA CatIs ==
  ASSUME NEW S, NEW s \in Seq(S), NEW t \in Seq(S)
  PROVE  /\ s \o t \in Seq(S) /\ Len(s \o t) = Len(s) + Len(t)
         /\ \A i \in 1..Len(s) : (s \o t)[i] = s[i]
         /\ \A i \in 1..Len(t) : (s \o t)[Len(s) + i] = t[i]
<1>1. \A i \in 1..Len(s)+Len(t) : (s \o t)[i] = IF i <= Len(s) THEN s[i] ELSE t[i - Len(s)]
  OBVIOUS
<1>2. Len(s) \in Nat /\ Len(t) \in Nat
  OBVIOUS
<1>3. \A i \in 1..Len(s) : (s \o t)[i] = s[i]
  BY <1>1, <1>2
<1>4. ASSUME NEW i \in 1..Len(t) PROVE (s \o t)[Len(s) + i] = t[i]
  <2>1. Len(s) + i \in 1..Len(s)+Len(t) /\ ~(Len(s) + i <= Len(s)) /\ (Len(s) + i) - Len(s) = i
    BY <1>2
  <2> QED
    BY <1>1, <2>1
<1> QED
  BY <1>3, <1>4

LEMMA RemoveAtIs ==
  ASSUME NEW S, NEW s \in Seq(S), NEW n \in 1..Len(s)
  PROVE  /\ RemoveAt(s, n) \in Seq(S) /\ Len(RemoveAt(s, n)) = Len(s) - 1
         /\ \A i \in 1..Len(s)-1 : RemoveAt(s, n)[i] = IF i < n THEN s[i] ELSE s[i + 1]
<1> DEFINE a == SubSeq(s, 1, n - 1)
           b == SubSeq(s, n + 1, Len(s))
<1>0. Len(s) \in Nat /\ 1 \in 1..Len(s)+1 /\ n - 1 \in 0..Len(s) /\ n + 1 \in 1..Len(s)+1
      /\ Len(s) \in 0..Len(s)
  OBVIOUS
<1>1. /\ a \in Seq(S)
      /\ Len(a) = IF 1 <= n - 1 THEN (n - 1) - 1 + 1 ELSE 0
      /\ \A i \in 1..(n - 1)-1+1 : a[i] = s[1 + i - 1]
  BY <1>0, SubSeqIs
<1>2. /\ b \in Seq(S)
      /\ Len(b) = IF n + 1 <= Len(s) THEN Len(s) - (n + 1) + 1 ELSE 0
      /\ \A i \in 1..Len(s)-(n + 1)+1 : b[i] = s[n + 1 + i - 1]
  BY <1>0, SubSeqIs
<1>3. RemoveAt(s, n) = a \o b
  BY DEF RemoveAt
<1> HIDE DEF a, b
<1>4. Len(a) = n - 1 /\ Len(b) = Len(s) - n
  BY <1>0, <1>1, <1>2
<1>5. ASSUME NEW i \in 1..Len(s)-1 PROVE (a \o b)[i] = IF i < n THEN s[i] ELSE s[i + 1]
  <2>1. CASE i < n
    <3>1. i \in 1..Len(a) /\ i \in 1..(n - 1)-1+1 /\ 1 + i - 1 = i
      BY <1>0, <1>4, <2>1
    <3>2. (a \o b)[i] = a[i] /\ a[i] = s[1 + i - 1]
      BY <1>1, <1>2, <3>1, CatIs
    <3> QED
      BY <2>1, <3>1, <3>2
  <2>2. CASE ~(i < n)
    <3> DEFINE k == i - (n - 1)
    <3>1. k \in 1..Len(b) /\ k \in 1..Len(s)-(n + 1)+1 /\ n + 1 + k - 1 = i + 1 /\ Len(a) + k = i
      BY <1>0, <1>4, <2>2
    <3> HIDE DEF k
    <3>2. (a \o b)[Len(a) + k] = b[k] /\ b[k] = s[n + 1 + k - 1]
      BY <1>1, <1>2, <3>1, CatIs
    <3> QED
      BY <2>2, <3>1, <3>2
  <2> QED
    BY <2>1, <2>2
<1>6. a \o b \in Seq(S) /\ Len(a \o b) = Len(s) - 1
  BY <1>0, <1>1, <1>2, <1>4, CatIs
<1> QED
  BY <1>3, <1>5, <1>6

\* Who keeps everything has what he had.
LEMMA KeptAll ==
  ASSUME NEW S, NEW s \in Seq(S), NEW I, \A j \in 1..Len(s) : j \in I
  PROVE  Kept(s, I) = s
<1> DEFINE t == Kept(s, I)
<1>1. t \in Seq(S)
  BY KeptIsPart
<1>2. PICK f : Part(t, s, I, f)
  BY KeptIsPart
<1> HIDE DEF t
<1>3. Len(s) \in Nat /\ Len(t) \in Nat /\ Len(s) \in 0..Len(s)
  BY <1>1
<1>4. Len(s) <= Len(t) /\ \A i \in 0..Len(s) : f[i] = i
  BY <1>2, <1>3, PartBegins
<1>5. /\ f \in [0..Len(t) -> 0..Len(s)]
      /\ \A i \in 1..Len(t) : f[i - 1] < f[i] /\ t[i] = s[f[i]]
  BY <1>2 DEF Part
<1>6. Len(s) = Len(t)
  <2> SUFFICES ASSUME Len(s) < Len(t) PROVE FALSE
    BY <1>3, <1>4
  <2>1. Len(s) + 1 \in 1..Len(t) /\ Len(s) + 1 \in 0..Len(t) /\ (Len(s) + 1) - 1 = Len(s)
    BY <1>3
  <2>2. f[Len(s)] < f[Len(s) + 1] /\ f[Len(s)] = Len(s)
    BY <1>3, <1>4, <1>5, <2>1
  <2>3. f[Len(s) + 1] \in 0..Len(s)
    BY <1>5, <2>1
  <2> QED
    BY <1>3, <2>2, <2>3
<1>7. \A i \in 1..Len(t) : t[i] = s[i]
  <2> SUFFICES ASSUME NEW i \in 1..Len(t) PROVE t[i] = s[i]
    OBVIOUS
  <2>1. i \in 0..Len(s)
    BY <1>3, <1>6
  <2> QED
    BY <1>4, <1>5, <2>1
<1>8. t = s
  BY <1>1, <1>6, <1>7
<1> QED
  BY <1>8 DEF t

\* The positions of I but n.
But(s, I, n) == {j \in 1..Len(s) : j \in I /\ j # n}

\* A part without its n-th element, where nothing was left out before.
LEMMA PartRemoved ==
  ASSUME NEW S, NEW t \in Seq(S), NEW s, Len(s) \in Nat, NEW I, NEW f, Part(t, s, I, f),
         NEW n \in 1..Len(s), \A j \in 1..n : j \in I
  PROVE  /\ n \in 1..Len(t) /\ RemoveAt(t, n) \in Seq(S)
         /\ \E e : Part(RemoveAt(t, n), s, But(s, I, n), e)
<1>1. /\ f \in [0..Len(t) -> 0..Len(s)] /\ f[0] = 0
      /\ \A i \in 1..Len(t) : f[i] \in I /\ f[i - 1] < f[i] /\ t[i] = s[f[i]]
      /\ \A i \in 1..Len(t) : \A j \in f[i - 1]+1..f[i]-1 : j \notin I
      /\ \A j \in f[Len(t)]+1..Len(s) : j \notin I
  BY DEF Part
<1>2. Len(t) \in Nat /\ n \in 0..Len(s)
  OBVIOUS
<1>3. n <= Len(t) /\ \A i \in 0..n : f[i] = i
  BY <1>2, PartBegins
<1> DEFINE u == RemoveAt(t, n)
           m == Len(t) - 1
           J == But(s, I, n)
           e == [i \in 0..m |-> IF i < n THEN f[i] ELSE f[i + 1]]
<1>4. n \in 1..Len(t)
  BY <1>2, <1>3
<1>5. /\ u \in Seq(S) /\ Len(u) = m
      /\ \A i \in 1..m : u[i] = IF i < n THEN t[i] ELSE t[i + 1]
  BY <1>4, RemoveAtIs
<1>6. m \in Nat /\ n \in Nat /\ n - 1 \in 0..m
  BY <1>2, <1>4
<1>7. e \in [0..m -> 0..Len(s)] /\ e[0] = 0
  <2>1. ASSUME NEW i \in 0..m PROVE (IF i < n THEN f[i] ELSE f[i + 1]) \in 0..Len(s)
    <3>1. i \in 0..Len(t) /\ i + 1 \in 0..Len(t)
      BY <1>2
    <3> QED
      BY <1>1, <3>1
  <2>2. 0 \in 0..m /\ 0 < n
    BY <1>6
  <2> QED
    BY <1>1, <2>1, <2>2
<1>8. \A i \in 0..m : e[i] = IF i < n THEN f[i] ELSE f[i + 1]
  OBVIOUS
<1>j. \A j : j \in J => j \in I /\ j # n
  BY DEF But
<1>k. \A j \in 1..Len(s) : j \in I /\ j # n => j \in J
  BY DEF But
<1> HIDE DEF u, e, J
<1>r. \A i \in 0..Len(t) : f[i] \in Nat /\ f[i] \in 0..Len(s)
  BY <1>1
<1>g. \A i \in 1..Len(t) : \A j \in f[i - 1]+1..f[i]-1 : j \notin I
  BY <1>1
<1>h. \A i \in 1..Len(t) : f[i] \in I /\ f[i - 1] < f[i] /\ t[i] = s[f[i]]
  BY <1>1
<1>9. ASSUME NEW i \in 1..m
      PROVE  /\ e[i] \in J /\ e[i - 1] < e[i] /\ u[i] = s[e[i]]
             /\ \A j \in e[i - 1]+1..e[i]-1 : j \notin J
  <2>0. i \in 1..Len(t) /\ i - 1 \in 0..m /\ i \in 0..m /\ i + 1 \in 1..Len(t) /\ (i + 1) - 1 = i
        /\ i - 1 \in 0..Len(t) /\ i \in 0..Len(t) /\ i + 1 \in 0..Len(t)
    BY <1>2
  <2>1. CASE i < n
    <3>1. e[i] = f[i] /\ e[i - 1] = f[i - 1] /\ u[i] = t[i] /\ f[i] = i
      BY <1>3, <1>5, <1>6, <1>8, <2>0, <2>1
    <3>2. f[i] \in 1..Len(s) /\ f[i] \in I /\ f[i] # n
      BY <1>1, <1>3, <1>r, <2>0, <2>1, <3>1
    <3>3. \A j \in f[i - 1]+1..f[i]-1 : j \notin I
      BY <1>g, <2>0
    <3>4. f[i - 1] < f[i] /\ t[i] = s[f[i]]
      BY <1>h, <2>0
    <3>5. e[i] \in J
      BY <1>j, <1>k, <3>1, <3>2
    <3>6. \A j \in e[i - 1]+1..e[i]-1 : j \notin J
      BY <1>j, <1>k, <3>1, <3>3
    <3> QED
      BY <3>1, <3>4, <3>5, <3>6
  <2>2. CASE i = n
    <3>1. e[i] = f[n + 1] /\ e[i - 1] = f[n - 1] /\ u[i] = t[n + 1]
      BY <1>5, <1>6, <1>8, <2>0, <2>2
    <3>2. f[n - 1] = n - 1 /\ f[n] = n /\ f[n] < f[n + 1]
      BY <1>1, <1>3, <1>6, <2>0, <2>2
    <3>3. f[n + 1] \in 1..Len(s) /\ f[n + 1] \in I /\ f[n + 1] # n /\ t[n + 1] = s[f[n + 1]]
      BY <1>1, <1>r, <2>0, <2>2, <3>2
    <3>4. \A j \in f[n]+1..f[n + 1]-1 : j \notin I
      BY <1>g, <2>0, <2>2
    <3>5. \A j \in f[n - 1]+1..f[n + 1]-1 : j \notin J
      BY <1>j, <1>r, <2>0, <2>2, <3>2, <3>4
    <3>6. e[i - 1] < e[i]
      BY <1>6, <3>1, <3>2, <3>3
    <3>7. \A j \in e[i - 1]+1..e[i]-1 : j \notin J
      BY <3>1, <3>5
    <3>8. f[n + 1] \in J
      BY <1>k, <3>3
    <3>9. e[i] \in J /\ u[i] = s[e[i]]
      BY <3>1, <3>3, <3>8, Zenon
    <3> QED
      BY <3>6, <3>7, <3>9
  <2>3. CASE i > n
    <3>1. e[i] = f[i + 1] /\ e[i - 1] = f[i] /\ u[i] = t[i + 1]
      <4>1. ~(i < n) /\ ~(i - 1 < n) /\ (i - 1) + 1 = i
        BY <1>6, <2>3
      <4> QED
        BY <1>5, <1>8, <2>0, <4>1
    <3>2. n < f[i]
      <4>1. f[n] < f[i]
        <5>1. n \in 0..Len(t)
          BY <1>4
        <5> QED
          BY <1>2, <2>0, <2>3, <5>1, PartRises
      <4> QED
        BY <1>3, <1>6, <4>1
    <3>3. f[i] < f[i + 1] /\ f[i + 1] \in I /\ t[i + 1] = s[f[i + 1]]
      BY <1>h, <2>0
    <3>4. f[i + 1] \in 1..Len(s) /\ f[i + 1] # n
      BY <1>6, <1>r, <2>0, <3>2, <3>3
    <3>5. \A j \in f[i]+1..f[i + 1]-1 : j \notin I
      BY <1>g, <2>0
    <3> QED
      BY <1>j, <1>k, <3>1, <3>3, <3>4, <3>5
  <2> QED
    BY <1>6, <2>1, <2>2, <2>3
<1>10. \A j \in e[m]+1..Len(s) : j \notin J
  <2>0. m \in 0..m /\ m + 1 = Len(t)
    BY <1>2, <1>6
  <2>1. CASE m < n
    <3>a. m = n - 1 /\ Len(t) = n /\ n - 1 \in 0..n /\ n \in 0..n
      BY <1>2, <1>3, <1>4, <1>6, <2>1
    <3>b. f[n - 1] = n - 1 /\ f[n] = n
      BY <1>3, <3>a
    <3>c. e[m] = f[n - 1]
      BY <1>8, <2>0, <2>1, <3>a
    <3>1. m = n - 1 /\ Len(t) = n /\ e[m] = f[n - 1] /\ f[n - 1] = n - 1 /\ f[Len(t)] = n
      BY <3>a, <3>b, <3>c
    <3> QED
      BY <1>1, <1>6, <1>j, <3>1
  <2>2. CASE ~(m < n)
    <3>1. e[m] = f[Len(t)]
      BY <1>8, <2>0, <2>2
    <3> QED
      BY <1>1, <1>j, <3>1
  <2> QED
    BY <2>1, <2>2
<1>11. Part(u, s, J, e)
  BY <1>5, <1>7, <1>9, <1>10 DEF Part
<1> QED
  BY <1>4, <1>5, <1>11 DEF u, J

LEMMA MaxIs ==
  ASSUME NEW T \in SUBSET Int, NEW n \in T, \A y \in T : y <= n
  PROVE  Max(T) = n
<1> DEFINE P(x) == x \in T /\ \A y \in T : x >= y
<1>1. P(n)
  OBVIOUS
<1>2. Max(T) = CHOOSE x : P(x)
  BY DEF Max
<1>3. P(Max(T))
  BY <1>1, <1>2
<1>4. Max(T) \in Int /\ n \in Int /\ Max(T) >= n /\ n >= Max(T)
  BY <1>3
<1> QED
  BY <1>4

LEMMA LastRealIs ==
  ASSUME NEW cs, Len(cs) \in Nat, DOMAIN cs = 1..Len(cs), NEW n \in 1..Len(cs),
         Real(cs[n]), ~cs[n].sent, \A j \in n+1..Len(cs) : ~Real(cs[j])
  PROVE  LastReal(cs) = n
<1> DEFINE T == {0} \cup {i \in DOMAIN cs : Real(cs[i]) /\ ~cs[i].sent}
<1>1. T \in SUBSET Int /\ n \in T
  OBVIOUS
<1>2. ASSUME NEW y \in T PROVE y <= n
  <2>1. CASE y = 0
    BY <2>1
  <2>2. CASE y \in 1..Len(cs) /\ Real(cs[y])
    <3>1. y \notin n+1..Len(cs)
      BY <2>2
    <3> QED
      BY <2>2, <3>1
  <2> QED
    BY <2>1, <2>2
<1>3. LastReal(cs) = Max(T)
  BY DEF LastReal
<1> HIDE DEF T
<1> QED
  BY <1>1, <1>2, <1>3, MaxIs

\* What undo_cut mends, and what it keeps.
Fixed(cs, n) == [j \in 1..Len(cs) |-> IF j > n THEN Mended(cs[n], cs[j]) ELSE cs[j]]
Spared(cs, n) == {j \in 1..Len(cs) : j # n /\ (j > n => ~Dropped(cs[n], cs[j]))}

LEMMA FixedIs ==
  ASSUME NEW cs \in Seq(Orders), NEW n \in 1..Len(cs)
  PROVE  /\ Fixed(cs, n) \in Seq(Orders) /\ Len(Fixed(cs, n)) = Len(cs)
         /\ \A j \in 1..Len(cs) : Fixed(cs, n)[j] = IF j > n THEN Mended(cs[n], cs[j]) ELSE cs[j]
         /\ cs[n].kind # "move" => Fixed(cs, n) = cs
<1>1. Len(cs) \in Nat /\ \A j \in 1..Len(cs) : cs[j] \in Orders
  OBVIOUS
<1>2. \A j \in 1..Len(cs) : (IF j > n THEN Mended(cs[n], cs[j]) ELSE cs[j]) \in Orders
  BY <1>1, MendedFields
<1>3. \A j \in 1..Len(cs) : Fixed(cs, n)[j] = IF j > n THEN Mended(cs[n], cs[j]) ELSE cs[j]
  BY DEF Fixed
<1>4. DOMAIN Fixed(cs, n) = 1..Len(cs)
  BY DEF Fixed
<1>5. Fixed(cs, n) \in [1..Len(cs) -> Orders]
  BY <1>2 DEF Fixed
<1>6. Fixed(cs, n) \in Seq(Orders) /\ Len(Fixed(cs, n)) = Len(cs)
  BY <1>1, <1>4, <1>5
<1>7. ASSUME cs[n].kind # "move" PROVE Fixed(cs, n) = cs
  <2>1. \A j \in 1..Len(cs) : Fixed(cs, n)[j] = cs[j]
    BY <1>3, <1>7 DEF Mended
  <2> QED
    BY <1>6, <2>1
<1> QED
  BY <1>3, <1>6, <1>7

\* undo_cut mends the record and takes a part of it.
LEMMA UndoCutIsPart ==
  ASSUME NEW cs \in Seq(Orders), NEW n \in 1..Len(cs), LastReal(cs) = n, NumbersHold(cs)
  PROVE  /\ UndoCut(cs) \in Seq(Orders)
         /\ \E e : Part(UndoCut(cs), Fixed(cs, n), Spared(cs, n), e)
<1> DEFINE I1 == {i \in DOMAIN cs : i <= n \/ ~Dependent(cs[i])}
           rest == WithoutAnswers(cs, n)
           c == cs[n]
           F == Fixed(cs, n)
           N == Len(cs)
<1>1. N \in Nat /\ DOMAIN cs = 1..N /\ c \in Orders /\ n # 0 /\ n \in 0..N
  OBVIOUS
<1>2. /\ F \in Seq(Orders) /\ Len(F) = N
      /\ \A j \in 1..N : F[j] = IF j > n THEN Mended(c, cs[j]) ELSE cs[j]
      /\ c.kind # "move" => F = cs
  BY FixedIs
<1>3. rest = Kept(cs, I1)
  BY DEF WithoutAnswers
<1>4. rest \in Seq(Orders)
  BY <1>3, KeptIsPart
<1>5. PICK f : Part(rest, cs, I1, f)
  BY <1>3, KeptIsPart
<1>6. \A j \in 1..n : j \in I1
  BY <1>1
<1>i. \A j \in 1..N : j \in I1 <=> j <= n \/ ~Dependent(cs[j])
  BY <1>1
<1>u. UndoCut(cs) = CASE n = 0 -> cs
        [] n # 0 /\ c.kind = "move" -> RemoveAt(Repaired(rest, n), n)
        [] n # 0 /\ c.kind \in {"recruit", "recall"} -> RemoveAt(Without(rest, Orphans(cs, n)), n)
        [] OTHER -> RemoveAt(rest, n)
  BY DEF UndoCut
<1> HIDE DEF I1, rest, F
<1>7. CASE c.kind = "move"
  <2> DEFINE W == Repaired(rest, n)
  <2>1. Len(rest) \in Nat /\ \A i \in 1..Len(rest) : rest[i] \in Orders
    BY <1>4
  <2>2. n <= Len(rest) /\ \A i \in 0..n : f[i] = i
    BY <1>1, <1>5, <1>6, <2>1, PartBegins
  <2>3. /\ f \in [0..Len(rest) -> 0..N] /\ f[0] = 0
        /\ \A i \in 1..Len(rest) : f[i] \in I1 /\ f[i - 1] < f[i] /\ rest[i] = cs[f[i]]
        /\ \A i \in 1..Len(rest) : \A j \in f[i - 1]+1..f[i]-1 : j \notin I1
        /\ \A j \in f[Len(rest)]+1..N : j \notin I1
    BY <1>5 DEF Part
  <2>4. rest[n] = c
    <3>1. n \in 1..Len(rest) /\ f[n] = n
      BY <1>1, <2>1, <2>2
    <3> QED
      BY <2>3, <3>1
  <2>5. \A i \in 1..Len(rest) : W[i] = IF i > n THEN Mended(c, rest[i]) ELSE rest[i]
    <3>1. DOMAIN rest = 1..Len(rest)
      BY <1>4
    <3> QED
      BY <1>7, <2>4, <3>1 DEF Repaired, Mended
  <2>6. DOMAIN W = 1..Len(rest)
    BY <1>4 DEF Repaired
  <2>w. \A i \in 1..Len(rest) : (IF i > n THEN Mended(c, rest[i]) ELSE rest[i]) \in Orders
    BY <1>1, <2>1, MendedFields
  <2>x. W = [i \in 1..Len(rest) |-> W[i]]
    BY <1>4 DEF Repaired
  <2> HIDE DEF W
  <2>7. W \in [1..Len(rest) -> Orders]
    BY <2>5, <2>w, <2>x
  <2>8. W \in Seq(Orders) /\ Len(W) = Len(rest)
    BY <2>1, <2>6, <2>7
  <2>9. ASSUME NEW i \in 1..Len(rest) PROVE W[i] = F[f[i]]
    <3>1. f[i] \in 1..N /\ rest[i] = cs[f[i]]
      <4>1. i \in 0..Len(rest) /\ i - 1 \in 0..Len(rest)
        BY <2>1
      <4>2. f[i] \in 0..N /\ f[i - 1] \in 0..N
        BY <2>3, <4>1, Zenon
      <4>3. f[i - 1] < f[i] /\ rest[i] = cs[f[i]]
        BY <2>3, Zenon
      <4> QED
        BY <1>1, <4>2, <4>3
    <3>2. i > n <=> f[i] > n
      <4>1. CASE i > n
        <5>1. f[n] < f[i]
          <6>1. n \in 0..Len(rest) /\ i \in 0..Len(rest)
            BY <2>1, <2>2
          <6> QED
            BY <1>1, <1>5, <2>1, <4>1, <6>1, PartRises
        <5> QED
          BY <1>1, <2>2, <3>1, <4>1, <5>1
      <4>2. CASE ~(i > n)
        <5>1. f[i] = i
          BY <2>2, <4>2
        <5> QED
          BY <4>2, <5>1
      <4> QED
        BY <4>1, <4>2
    <3> QED
      BY <1>2, <2>5, <3>1, <3>2
  <2>10. Part(W, F, I1, f)
    BY <1>2, <2>3, <2>8, <2>9 DEF Part
  <2>11. /\ RemoveAt(W, n) \in Seq(Orders)
         /\ \E e : Part(RemoveAt(W, n), F, But(F, I1, n), e)
    <3>1. Len(F) \in Nat /\ n \in 1..Len(F)
      BY <1>1, <1>2
    <3> QED
      BY <1>6, <2>8, <2>10, <3>1, PartRemoved
  <2>12. But(F, I1, n) = Spared(cs, n)
    <3>1. \A j \in 1..N : Dropped(c, cs[j]) <=> Dependent(cs[j])
      BY <1>7 DEF Dropped, Orphaned
    <3>2. \A j \in 1..N : j \in I1 <=> (j > n => ~Dropped(c, cs[j]))
      BY <1>1, <1>i, <3>1
    <3> QED
      BY <1>2, <3>2 DEF Spared, But
  <2>13. UndoCut(cs) = RemoveAt(W, n)
    BY <1>1, <1>7, <1>u DEF W
  <2> QED
    BY <2>11, <2>12, <2>13 DEF F
<1>8. CASE c.kind \in {"recruit", "recall"}
  <2> DEFINE I2 == DOMAIN rest \ Orphans(rest, n)
             W == Kept(rest, I2)
             K == {j \in 1..N : j \in I1 /\ ~(j > n /\ Orphaned(c, cs[j]))}
  <2>1. /\ Len(rest) \in Nat /\ DOMAIN rest = 1..Len(rest) /\ Len(cs) \in Nat
        /\ \A i \in 1..Len(rest) : rest[i] \in Orders
    BY <1>4
  <2>2. n <= Len(rest) /\ \A i \in 0..n : f[i] = i
    BY <1>1, <1>5, <1>6, <2>1, PartBegins
  <2>3. /\ f \in [0..Len(rest) -> 0..N]
        /\ \A i \in 1..Len(rest) : f[i] \in I1 /\ f[i - 1] < f[i] /\ rest[i] = cs[f[i]]
    BY <1>5 DEF Part
  <2>4. rest[n] = c
    <3>1. n \in 1..Len(rest) /\ f[n] = n
      BY <1>1, <2>1, <2>2
    <3> QED
      BY <2>3, <3>1
  <2>5. Without(rest, Orphans(cs, n)) = W
    <3>1. Orphans(WithoutAnswers(cs, n), n) = Orphans(cs, n)
      BY <1>1, <1>8 DEF NumbersHold
    <3> QED
      BY <3>1 DEF Without, rest
  <2>6. \A i \in 1..Len(rest) : i \in I2 <=> ~(i > n /\ Orphaned(c, rest[i]))
    BY <1>1, <1>8, <2>1, <2>4 DEF Orphans, Orphaned
  <2>7. ASSUME NEW i \in 1..Len(rest) PROVE i \in I2 <=> f[i] \in K
    <3>1. f[i] \in 1..N /\ rest[i] = cs[f[i]] /\ f[i] \in I1
      <4>1. f[i] \in 0..N /\ f[i - 1] \in 0..N /\ f[i - 1] < f[i]
        BY <2>1, <2>3
      <4> QED
        BY <2>3, <4>1
    <3>2. i > n <=> f[i] > n
      <4>1. CASE i > n
        <5>1. f[n] < f[i]
          <6>1. n \in 0..Len(rest) /\ i \in 0..Len(rest)
            BY <2>1, <2>2
          <6> QED
            BY <1>1, <1>5, <2>1, <4>1, <6>1, PartRises
        <5> QED
          BY <1>1, <2>2, <3>1, <4>1, <5>1
      <4>2. CASE ~(i > n)
        <5>1. f[i] = i
          BY <2>2, <4>2
        <5> QED
          BY <4>2, <5>1
      <4> QED
        BY <4>1, <4>2
    <3> QED
      BY <2>6, <3>1, <3>2
  <2>8. W \in Seq(Orders) /\ \E g : Part(W, rest, I2, g)
    BY <1>4, KeptIsPart
  <2>9. \A j \in 1..N : j \in K <=> j \in I1 /\ ~(j > n /\ Orphaned(c, cs[j]))
    OBVIOUS
  <2> HIDE DEF W, I2, K
  <2>10. \E e : Part(W, cs, K, e)
    <3>1. PICK g : Part(W, rest, I2, g)
      BY <2>8
    <3>2. Len(W) \in Nat
      BY <2>8
    <3> QED
      BY <1>5, <2>1, <2>7, <2>9, <3>1, <3>2, PartOfPart
  <2>11. \A j \in 1..n : j \in K
    BY <1>1, <1>6, <2>9
  <2>12. /\ RemoveAt(W, n) \in Seq(Orders)
         /\ \E e : Part(RemoveAt(W, n), cs, But(cs, K, n), e)
    BY <1>1, <2>8, <2>10, <2>11, PartRemoved
  <2>13. But(cs, K, n) = Spared(cs, n)
    <3>1. \A j \in 1..N : j \in K <=> (j > n => ~Dropped(c, cs[j]))
      BY <1>1, <1>i, <2>9 DEF Dropped
    <3> QED
      BY <3>1 DEF Spared, But
  <2>14. UndoCut(cs) = RemoveAt(W, n)
    BY <1>1, <1>8, <1>u, <2>5
  <2>15. F = cs
    BY <1>2, <1>8
  <2> QED
    BY <2>12, <2>13, <2>14, <2>15 DEF F
<1>9. CASE c.kind \notin {"move", "recruit", "recall"}
  <2>1. /\ RemoveAt(rest, n) \in Seq(Orders)
        /\ \E e : Part(RemoveAt(rest, n), cs, But(cs, I1, n), e)
    BY <1>1, <1>4, <1>5, <1>6, PartRemoved
  <2>2. But(cs, I1, n) = Spared(cs, n)
    <3>1. \A j \in 1..N : Dropped(c, cs[j]) <=> Dependent(cs[j])
      BY <1>9 DEF Dropped, Orphaned
    <3>2. \A j \in 1..N : j \in I1 <=> (j > n => ~Dropped(c, cs[j]))
      BY <1>1, <1>i, <3>1
    <3> QED
      BY <3>2 DEF Spared, But
  <2>3. UndoCut(cs) = RemoveAt(rest, n)
    BY <1>1, <1>9, <1>u
  <2>4. F = cs
    BY <1>2, <1>9
  <2> QED
    BY <2>1, <2>2, <2>3, <2>4 DEF F
<1> QED
  BY <1>7, <1>8, <1>9 DEF F

-----------------------------------------------------------------------------
(* What undo_cut leaves leads one board back.                                *)

\* What is run of a record, from behind position lo on.
Exec(cs, lo, skip) == {j \in 1..Len(cs) : j > lo /\ ~(skip /\ cs[j].sent)}

LEMMA ChainTyped ==
  ASSUME NEW g \in Games, OwnNames(g), NEW cs \in Seq(Orders), NEW E, NEW Q, Chain(Q, g, cs, E)
  PROVE  \A i \in 0..Len(cs) : Q[i] \in Games /\ OwnNames(Q[i])
<1> DEFINE H == {i \in 0..Len(cs) : OwnNames(Q[i])}
<1>1. /\ Q \in [0..Len(cs) -> Games] /\ Q[0] = g /\ Len(cs) \in Nat
      /\ \A i \in 1..Len(cs) : Q[i] = IF i \in E THEN Execute(Q[i - 1], cs[i]) ELSE Q[i - 1]
  BY DEF Chain
<1>2. 0 \in H
  BY <1>1
<1>3. ASSUME NEW i \in 0..Len(cs), i # 0, i - 1 \in H PROVE i \in H
  <2>1. i \in 1..Len(cs) /\ cs[i] \in Orders /\ Q[i - 1] \in Games /\ OwnNames(Q[i - 1])
    BY <1>1, <1>3
  <2>2. OwnNames(Execute(Q[i - 1], cs[i]))
    BY <2>1, OwnNamesKept
  <2>3. OwnNames(Q[i])
    BY <1>1, <2>1, <2>2
  <2> QED
    BY <2>3
<1>4. \A i \in 0..Len(cs) : i \in H
  <2>1. \A i \in 0..Len(cs) : i # 0 /\ i - 1 \in H => i \in H
    BY <1>3
  <2> HIDE DEF H
  <2> QED
    BY <1>1, <1>2, <2>1, UpFrom
<1> QED
  BY <1>1, <1>4

\* The record that undo_cut leaves.
LEMMA CutRecord ==
  ASSUME NEW cs \in Seq(Orders), NEW n \in 1..Len(cs), LastReal(cs) = n, NumbersHold(cs),
         NEW p \in Boards, NEW q \in Boards, BoardStep(p, cs[n], q), Alone(p.at),
         \A j \in n+1..Len(cs) : Quiet(cs[j], q, cs[n].kind)
  PROVE  /\ UndoCut(cs) \in Seq(Orders) /\ n - 1 \in 0..Len(UndoCut(cs))
         /\ \E e : /\ Part(UndoCut(cs), Fixed(cs, n), Spared(cs, n), e)
                   /\ \A i \in 0..n-1 : e[i] = i
                   /\ \A i \in n..Len(UndoCut(cs)) : e[i] \in n+1..Len(cs)
         /\ \A i \in 1..n-1 : UndoCut(cs)[i] = cs[i]
         /\ \A i \in n..Len(UndoCut(cs)) : \A after : Quiet(UndoCut(cs)[i], p, after)
<1> DEFINE t == UndoCut(cs)
           F == Fixed(cs, n)
           I == Spared(cs, n)
           c == cs[n]
<1>1. /\ Len(cs) \in Nat /\ c \in Orders /\ \A j \in 1..Len(cs) : cs[j] \in Orders
      /\ n - 1 \in 0..Len(cs)
  OBVIOUS
<1>3. t \in Seq(Orders) /\ \E e : Part(t, F, I, e)
  BY UndoCutIsPart
<1>4. PICK e : Part(t, F, I, e)
  BY <1>3
<1>5. /\ F \in Seq(Orders) /\ Len(F) = Len(cs)
      /\ \A j \in 1..Len(cs) : F[j] = IF j > n THEN Mended(c, cs[j]) ELSE cs[j]
  BY FixedIs
<1>6. \A j \in 1..Len(cs) : j \in I <=> j # n /\ (j > n => ~Dropped(c, cs[j]))
  BY DEF Spared
<1> HIDE DEF t, F, I
<1>7. \A j \in 1..n-1 : j \in I
  BY <1>1, <1>6
<1>8. Len(t) \in Nat /\ Len(F) \in Nat /\ n - 1 \in 0..Len(F)
  BY <1>1, <1>3, <1>5
<1>9. n - 1 <= Len(t) /\ \A i \in 0..n-1 : e[i] = i
  BY <1>4, <1>7, <1>8, PartBegins
<1>10. /\ e \in [0..Len(t) -> 0..Len(cs)]
       /\ \A i \in 1..Len(t) : e[i] \in I /\ t[i] = F[e[i]]
  BY <1>4, <1>5 DEF Part
<1>11. ASSUME NEW i \in n..Len(t) PROVE e[i] \in n+1..Len(cs)
  <2>1. i \in 0..Len(t) /\ i \in 1..Len(t) /\ n - 1 \in 0..Len(t) /\ n - 1 < i /\ n - 1 \in 0..n-1
    BY <1>8, <1>9
  <2>2. e[n - 1] < e[i]
    BY <1>4, <1>8, <2>1, PartRises
  <2>3. e[n - 1] = n - 1 /\ e[i] \in 0..Len(cs)
    BY <1>9, <1>10, <2>1
  <2>4. e[i] \in 1..Len(cs) /\ e[i] # n
    BY <1>6, <1>10, <2>1, <2>2, <2>3
  <2> QED
    BY <2>2, <2>3, <2>4
<1>12. ASSUME NEW i \in 1..n-1 PROVE t[i] = cs[i]
  <2>1. i \in 1..Len(t) /\ e[i] = i /\ i \in 1..Len(cs) /\ ~(i > n)
    BY <1>1, <1>8, <1>9
  <2> QED
    BY <1>5, <1>10, <2>1
<1>13. ASSUME NEW i \in n..Len(t) PROVE \A after : Quiet(t[i], p, after)
  <2> DEFINE d == cs[e[i]]
  <2>1. e[i] \in n+1..Len(cs) /\ e[i] \in 1..Len(cs) /\ e[i] > n /\ i \in 1..Len(t)
    BY <1>8, <1>11
  <2>2. t[i] = Mended(c, d) /\ ~Dropped(c, d) /\ d \in Orders /\ Quiet(d, q, c.kind)
    BY <1>1, <1>5, <1>6, <1>10, <2>1
  \* Any games with these boards do.
  <2>3. PICK x \in Games, z \in Games : Related(x, z, q, p, {})
    <3> DEFINE x == [at |-> q.at, name |-> [u \in Units |-> "own"], said |-> 0, auto |-> q.auto]
               z == [at |-> p.at, name |-> [u \in Units |-> "own"], said |-> 0, auto |-> p.auto]
    <3>1. x \in Games /\ z \in Games
      BY BoardFields DEF Games, Places, Names
    <3>2. Board(x) = q /\ Board(z) = p
      BY BoardFields DEF Board
    <3>3. Related(x, z, q, p, {})
      BY <3>2 DEF Related
    <3> HIDE DEF x, z
    <3> QED
      BY <3>1, <3>3
  <2> HIDE DEF d
  <2>4. Orphaned(c, d) => c.unit \in {}
    BY <2>2 DEF Dropped
  <2> QED
    BY <1>1, <2>2, <2>3, <2>4, StepBack
<1>14. \E k : /\ Part(t, F, I, k)
              /\ \A i \in 0..n-1 : k[i] = i
              /\ \A i \in n..Len(t) : k[i] \in n+1..Len(cs)
  BY <1>4, <1>9, <1>11
<1>15. n - 1 \in 0..Len(t)
  BY <1>8, <1>9
<1> QED
  BY <1>3, <1>12, <1>13, <1>14, <1>15 DEF t, F, I

\* The n-th command led from the board p to the board q, and can be cut.
Cuttable(cs, n, p, q) ==
  /\ n \in 1..Len(cs) /\ LastReal(cs) = n /\ NumbersHold(cs) /\ ~cs[n].sent
  /\ p \in Boards /\ q \in Boards /\ BoardStep(p, cs[n], q) /\ Alone(p.at)
  /\ \A j \in n+1..Len(cs) : Quiet(cs[j], q, cs[n].kind)

Loses(cs, n, away) ==
  \A j \in n+1..Len(cs) : Orphaned(cs[n], cs[j]) => cs[n].unit \in away

\* R are the games without the n-th command, Q those with it.
CutChain(R, Q, g0, cs, lo, skip, n, p, q, away) ==
  /\ Chain(R, g0, UndoCut(cs), Exec(UndoCut(cs), lo, skip))
  /\ \A j \in 0..n-1 : R[j] = Q[j]
  /\ \A j \in n..Len(UndoCut(cs)) : Board(R[j]) = p
  /\ Related(Q[Len(cs)], R[Len(UndoCut(cs))], q, p, away)

LEMMA CutFollows ==
  ASSUME NEW cs \in Seq(Orders), NEW n, NEW p, NEW q, Cuttable(cs, n, p, q),
         NEW away, Loses(cs, n, away),
         NEW g0 \in Games, OwnNames(g0), NEW lo \in Nat, lo < n, NEW skip,
         NEW Q, Chain(Q, g0, cs, Exec(cs, lo, skip)), Board(Q[n - 1]) = p
  PROVE  \E R : CutChain(R, Q, g0, cs, lo, skip, n, p, q, away)
<1> DEFINE t == UndoCut(cs)
           F == Fixed(cs, n)
           I == Spared(cs, n)
           c == cs[n]
           N == Len(cs)
           E == Exec(cs, lo, skip)
           EI == E \cap I
<1>0. /\ n \in 1..Len(cs) /\ LastReal(cs) = n /\ NumbersHold(cs) /\ ~cs[n].sent
      /\ p \in Boards /\ q \in Boards /\ BoardStep(p, cs[n], q) /\ Alone(p.at)
      /\ \A j \in n+1..Len(cs) : Quiet(cs[j], q, cs[n].kind)
      /\ \A j \in n+1..Len(cs) : Orphaned(cs[n], cs[j]) => cs[n].unit \in away
  BY DEF Cuttable, Loses
<1> USE <1>0
<1>1. /\ N \in Nat /\ c \in Orders /\ \A j \in 1..N : cs[j] \in Orders
      /\ n - 1 \in 0..N /\ n \in 0..N /\ N \in 0..N
  OBVIOUS
<1>2. /\ F \in Seq(Orders) /\ Len(F) = N
      /\ \A j \in 1..N : F[j] = IF j > n THEN Mended(c, cs[j]) ELSE cs[j]
  BY FixedIs
<1>3. \A j \in 1..N : j \in I <=> j # n /\ (j > n => ~Dropped(c, cs[j]))
  BY DEF Spared
<1>4. t \in Seq(Orders) /\ n - 1 \in 0..Len(t)
  BY CutRecord
<1>5. PICK e : /\ Part(t, F, I, e)
               /\ \A i \in 0..n-1 : e[i] = i
               /\ \A i \in n..Len(t) : e[i] \in n+1..N
  BY CutRecord
<1>6. \A j \in 1..N : j \in E <=> j > lo /\ ~(skip /\ cs[j].sent)
  BY DEF Exec
<1> HIDE DEF t, F, I, E
<1>7. PICK Z : Chain(Z, g0, F, EI)
  BY <1>2, ChainExists
<1> HIDE DEF EI
<1>8. \A j \in 1..N : j \in EI <=> j \in E /\ j \in I
  BY DEF EI
<1>9. /\ Z[0] = g0
      /\ \A i \in 1..N : Z[i] = IF i \in EI THEN Execute(Z[i - 1], F[i]) ELSE Z[i - 1]
  BY <1>2, <1>7 DEF Chain
<1>10. /\ Q[0] = g0
       /\ \A i \in 1..N : Q[i] = IF i \in E THEN Execute(Q[i - 1], cs[i]) ELSE Q[i - 1]
  BY DEF Chain, E
<1>11. \A i \in 0..N : Q[i] \in Games /\ OwnNames(Q[i])
  BY ChainTyped DEF E
<1>12. \A i \in 0..N : Z[i] \in Games
  BY <1>2, <1>7, ChainTyped
\* The same games up to the command that is cut.
<1>13. \A i \in 0..n-1 : Z[i] = Q[i]
  <2> DEFINE H == {i \in 0..n-1 : Z[i] = Q[i]}
  <2>1. 0 \in H
    BY <1>1, <1>9, <1>10
  <2>2. ASSUME NEW i \in 0..n-1, i # 0, i - 1 \in H PROVE i \in H
    <3>1. i \in 1..N /\ ~(i > n) /\ i # n
      BY <1>1, <2>2
    <3>2. (i \in EI <=> i \in E) /\ F[i] = cs[i]
      BY <1>2, <1>3, <1>8, <3>1
    <3>3. Z[i - 1] = Q[i - 1]
      BY <2>2
    <3>4. Z[i] = IF i \in EI THEN Execute(Z[i - 1], F[i]) ELSE Z[i - 1]
      BY <1>9, <3>1
    <3>5. Q[i] = IF i \in E THEN Execute(Q[i - 1], cs[i]) ELSE Q[i - 1]
      BY <1>10, <3>1
    <3>6. Z[i] = Q[i]
      BY <3>2, <3>3, <3>4, <3>5
    <3> QED
      BY <2>2, <3>6
  <2>3. \A i \in 0..n-1 : i \in H
    <3>1. \A i \in 0..n-1 : i # 0 /\ i - 1 \in H => i \in H
      BY <2>2
    <3>2. n - 1 \in Nat
      OBVIOUS
    <3> HIDE DEF H
    <3> QED
      BY <2>1, <3>1, <3>2, UpFrom
  <2> QED
    BY <2>3
\* One without it, the other with it.
<1>14. Related(Q[n], Z[n], q, p, away)
  <2>1. n - 1 \in 0..n-1 /\ n \in E /\ n \notin EI
    BY <1>1, <1>3, <1>6, <1>8
  <2>2. Z[n] = Q[n - 1] /\ Q[n] = Execute(Q[n - 1], c)
    BY <1>1, <1>9, <1>10, <1>13, <2>1
  <2>3. Q[n - 1] \in Games /\ OwnNames(Q[n - 1]) /\ Alone(Q[n - 1].at)
    <3>1. Q[n - 1] \in Games /\ OwnNames(Q[n - 1])
      BY <1>1, <1>11
    <3> QED
      BY <3>1, BoardIs
  <2>4. Board(Execute(Q[n - 1], c)) = q /\ Execute(Q[n - 1], c).said = Q[n - 1].said
        /\ Execute(Q[n - 1], c).name = Q[n - 1].name
    BY <1>1, <2>3, StepExecutes
  <2> QED
    BY <2>2, <2>4 DEF Related
<1>15. \A j \in n..N : Related(Q[j], Z[j], q, p, away)
  <2> DEFINE H == {j \in n..N : Related(Q[j], Z[j], q, p, away)}
  <2>1. n \in H
    BY <1>1, <1>14
  <2>2. ASSUME NEW j \in n..N, j # n, j - 1 \in H PROVE j \in H
    <3>1. j \in n+1..N /\ j \in 1..N /\ j > n /\ j - 1 \in 0..N
      BY <1>1, <2>2
    <3> DEFINE d == cs[j]
               x == Q[j - 1]
               z == Z[j - 1]
    <3>2. /\ d \in Orders /\ Quiet(d, q, c.kind) /\ (Orphaned(c, d) => c.unit \in away)
          /\ x \in Games /\ z \in Games /\ Related(x, z, q, p, away)
      BY <1>1, <1>11, <1>12, <2>2, <3>1
    <3>3. /\ Q[j] = IF j \in E THEN Execute(x, d) ELSE x
          /\ Z[j] = IF j \in EI THEN Execute(z, Mended(c, d)) ELSE z
          /\ j \in EI <=> j \in E /\ ~Dropped(c, d)
      BY <1>2, <1>3, <1>8, <1>9, <1>10, <3>1
    <3> HIDE DEF d, x, z
    <3>4. /\ Dropped(c, d) => Related(Execute(x, d), z, q, p, away)
          /\ ~Dropped(c, d) => Related(Execute(x, d), Execute(z, Mended(c, d)), q, p, away)
      BY <1>1, <3>2, StepBack
    <3>5. Related(Q[j], Z[j], q, p, away)
      BY <3>2, <3>3, <3>4
    <3> QED
      BY <3>5
  <2>3. \A j \in n..N : j \in H
    <3>1. \A j \in n..N : j # n /\ j - 1 \in H => j \in H
      BY <2>2
    <3>2. n \in Nat
      OBVIOUS
    <3> HIDE DEF H
    <3> QED
      BY <1>1, <2>1, <3>1, <3>2, UpFrom
  <2> QED
    BY <2>3
<1> DEFINE R == Through(Z, e, t)
           ER == Hits(EI, e, t)
<1>16. Len(F) \in Nat /\ Len(t) \in Nat
  BY <1>1, <1>2, <1>4
<1>17. Chain(R, g0, t, ER) /\ Z[e[Len(t)]] = Z[N]
  <2>1. \A i \in 1..Len(F) : i \in EI => i \in I
    BY <1>2, <1>8
  <2> QED
    <3>1. Part(t, F, I, e)
      BY <1>5
    <3>2. Chain(R, g0, t, ER) /\ Z[e[Len(t)]] = Z[Len(F)]
      BY <1>7, <1>16, <2>1, <3>1, ChainOfPart
    <3> QED
      BY <1>2, <3>2
<1>18. ER = Exec(t, lo, skip)
  <2>1. ASSUME NEW i \in 1..Len(t)
        PROVE  e[i] \in EI <=> i > lo /\ ~(skip /\ t[i].sent)
    <3>1. e[i] \in I /\ e[i] \in 0..N /\ t[i] = F[e[i]]
      <4>1. i \in 0..Len(t)
        OBVIOUS
      <4> QED
        BY <1>2, <1>5, <4>1 DEF Part
    <3>2. e[i] \in 1..N /\ (e[i] > lo <=> i > lo)
      <4>1. CASE i \in n..Len(t)
        <5>1. e[i] \in n+1..N
          BY <1>5, <4>1
        <5> QED
          BY <1>1, <4>1, <5>1
      <4>2. CASE i \in 0..n-1
        <5>1. e[i] = i
          BY <1>5, <4>2
        <5> QED
          BY <1>1, <4>2, <5>1
      <4> QED
        BY <1>16, <4>1, <4>2
    <3>3. t[i].sent = cs[e[i]].sent
      BY <1>1, <1>2, <3>1, <3>2, MendedFields
    <3> QED
      BY <1>6, <1>8, <3>1, <3>2, <3>3
  <2> QED
    BY <2>1 DEF Exec, Hits
<1>19. ASSUME NEW j \in 0..n-1 PROVE R[j] = Q[j]
  <2>1. j \in 0..Len(t) /\ e[j] = j
    BY <1>4, <1>5, <1>16
  <2> QED
    BY <1>13, <2>1 DEF Through
<1>20. ASSUME NEW j \in n..Len(t) PROVE Board(R[j]) = p
  <2>1. j \in 0..Len(t) /\ e[j] \in n+1..N /\ e[j] \in n..N
    BY <1>5, <1>16
  <2>2. Related(Q[e[j]], Z[e[j]], q, p, away)
    BY <1>15, <2>1
  <2> QED
    BY <2>1, <2>2 DEF Related, Through
<1>21. Related(Q[N], R[Len(t)], q, p, away)
  <2>1. R[Len(t)] = Z[N] /\ N \in n..N
    BY <1>1, <1>16, <1>17 DEF Through
  <2> QED
    BY <1>15, <2>1
<1> HIDE DEF R, ER
<1>22. Chain(R, g0, t, Exec(t, lo, skip))
  BY <1>17, <1>18
<1>23. CutChain(R, Q, g0, cs, lo, skip, n, p, q, away)
  BY <1>19, <1>20, <1>21, <1>22 DEF t, CutChain
<1> QED
  BY <1>23

-----------------------------------------------------------------------------
(* What holds of the record, the stack and the games.                        *)

Stacks == Seq([command : Orders, data : {<<>>}])

After(us, k) == IF k = 0 THEN "start" ELSE us[k].command.kind

\* Position j of the record belongs to the k-th action, or stands before the first.
Belongs(us, P, k, j) == P[k] <= j /\ (k < Len(us) => j < P[k + 1])

\* The actions on the stack us are the commands at P, behind what was sent.
Paired(cs, up, us, P) ==
  /\ \A k \in 0..Len(us) : P[k] \in up..Len(cs)
  /\ \A k, l \in 0..Len(us) : k < l => P[k] < P[l]
  /\ \A k \in 1..Len(us) : cs[P[k]] = us[k].command

\* A are the boards between them.
Stepped(us, A) ==
  /\ \A k \in 0..Len(us) : A[k] \in Boards /\ Alone(A[k].at)
  /\ \A k \in 1..Len(us) : BoardStep(A[k - 1], us[k].command, A[k]) /\ ~us[k].command.sent

Calm(cs, us, P, A) ==
  \A k \in 0..Len(us), j \in 1..Len(cs) :
    P[k] # j /\ Belongs(us, P, k, j) => Quiet(cs[j], A[k], After(us, k))

\* Who runs what is on record behind position lo gets the boards A and the game h.
Follows(g0, lo, skip, cs, us, P, A, h, lost) ==
  \E Q : /\ Chain(Q, g0, cs, Exec(cs, lo, skip))
         /\ \A k \in 0..Len(us), j \in 0..Len(cs) : Belongs(us, P, k, j) => Board(Q[j]) = A[k]
         /\ Alike(Q[Len(cs)], h, lost)

Typed(cs, up, us, g, p) ==
  /\ cs \in Seq(Orders) /\ up \in 0..Len(cs) /\ us \in Stacks
  /\ g \in Games /\ OwnNames(g) /\ p \in Games /\ OwnNames(p)

Sound(cs, up, us, g, p, lost, P, A) ==
  /\ Typed(cs, up, us, g, p)
  /\ Paired(cs, up, us, P) /\ Stepped(us, A) /\ Calm(cs, us, P, A)
  /\ A[Len(us)] = Board(g)
  /\ Follows(NewGame, 0, FALSE, cs, us, P, A, g, lost)
  /\ Follows(p, up, TRUE, cs, us, P, A, g, lost)

LEMMA NewGameTyped == NewGame \in Games /\ OwnNames(NewGame) /\ Alone(NewGame.at)
<1>1. NewGame \in Games
  BY DEF NewGame, Games, Names
<1>2. OwnNames(NewGame)
  BY DEF NewGame, OwnNames
<1>3. Alone(NewGame.at)
  BY PlacesAssumption DEF NewGame, Alone
<1> QED
  BY <1>1, <1>2, <1>3

LEMMA ElementIs ==
  ASSUME NEW S, NEW s \in Seq(S)
  PROVE  Len(s) \in Nat /\ \A i \in 1..Len(s) : s[i] \in S
  OBVIOUS

LEMMA StackIs ==
  ASSUME NEW us \in Stacks
  PROVE  /\ Len(us) \in Nat
         /\ \A k \in 1..Len(us) : /\ us[k].command \in Orders /\ us[k].data = <<>>
                                  /\ us[k] = Action(us[k].command)
<1>1. Len(us) \in Nat /\ \A k \in 1..Len(us) : us[k] \in [command : Orders, data : {<<>>}]
  <2>1. us \in Seq([command : Orders, data : {<<>>}])
    BY DEF Stacks
  <2> QED
    BY <2>1, ElementIs, Zenon
<1>2. ASSUME NEW k \in 1..Len(us)
      PROVE  /\ us[k].command \in Orders /\ us[k].data = <<>>
             /\ us[k] = [command |-> us[k].command, data |-> us[k].data]
  <2>1. us[k] \in [command : Orders, data : {<<>>}]
    BY <1>1
  <2>2. us[k].command \in Orders /\ us[k].data \in {<<>>}
    BY <2>1
  <2>3. us[k] = [command |-> us[k].command, data |-> us[k].data]
    BY <2>1, Zenon
  <2> QED
    BY <2>2, <2>3
<1> QED
  BY <1>1, <1>2 DEF Action

\* The topmost action is the last command that undo_cut would take.
LEMMA SoundTop ==
  ASSUME NEW cs, NEW up, NEW us, NEW P, NEW A, cs \in Seq(Orders), up \in 0..Len(cs), us \in Stacks,
         Paired(cs, up, us, P), Stepped(us, A), Calm(cs, us, P, A), Len(us) # 0
  PROVE  LET m == Len(us)
             n == P[m]
         IN  /\ m \in 1..Len(us) /\ n \in 1..Len(cs) /\ up < n /\ LastReal(cs) = n
             /\ cs[n] = us[m].command /\ ~cs[n].sent
             /\ A[m - 1] \in Boards /\ A[m] \in Boards
             /\ BoardStep(A[m - 1], cs[n], A[m]) /\ Alone(A[m - 1].at)
             /\ \A j \in n+1..Len(cs) : Quiet(cs[j], A[m], cs[n].kind)
<1> DEFINE m == Len(us)
           n == P[m]
<1>1. m \in Nat /\ m \in 1..m /\ m \in 0..m /\ m - 1 \in 0..m /\ m - 1 < m /\ Len(cs) \in Nat
      /\ DOMAIN cs = 1..Len(cs)
  BY StackIs
<1>2. n \in up..Len(cs) /\ P[m - 1] \in up..Len(cs) /\ P[m - 1] < n /\ cs[n] = us[m].command
  BY <1>1 DEF Paired
<1>3. /\ A[m - 1] \in Boards /\ A[m] \in Boards /\ BoardStep(A[m - 1], cs[n], A[m])
      /\ Alone(A[m - 1].at) /\ ~cs[n].sent
  BY <1>1, <1>2 DEF Stepped
<1>4. n \in 1..Len(cs) /\ up < n
  BY <1>1, <1>2
<1>5. ASSUME NEW j \in n+1..Len(cs) PROVE Quiet(cs[j], A[m], cs[n].kind)
  <2>1. j \in 1..Len(cs) /\ n # j /\ n <= j /\ ~(m < Len(us)) /\ m # 0
    BY <1>1, <1>4
  <2>2. Belongs(us, P, m, j)
    BY <2>1 DEF Belongs
  <2>3. After(us, m) = cs[n].kind
    BY <1>2, <2>1 DEF After
  <2> QED
    BY <1>1, <2>1, <2>2, <2>3 DEF Calm
<1>6. \A j \in n+1..Len(cs) : ~Real(cs[j])
  BY <1>5 DEF Quiet, Real, Undoable, Async, Dependent
<1>7. Real(cs[n])
  <2>1. cs[n].kind \in Moving \/ cs[n].kind \in Shroud
    BY <1>3 DEF BoardStep, AtStep
  <2> QED
    BY <2>1 DEF Real, Undoable, Async, Dependent, Moving, Shroud
<1>8. LastReal(cs) = n
  BY <1>1, <1>3, <1>4, <1>6, <1>7, LastRealIs
<1> QED
  BY <1>1, <1>2, <1>3, <1>4, <1>5, <1>8

\* The game that is left when the action for c was taken back from g.
Reverted(g, h, c) ==
  /\ h \in Games /\ OwnNames(h) /\ h.said = g.said
  /\ \A v \in Units : ~(c.kind = "recruit" /\ v = c.unit) => h.name[v] = g.name[v]

\* What stands before the topmost action belongs to the same action without it.
LEMMA BelongsCut ==
  ASSUME NEW us, NEW vs, NEW P, NEW m \in Nat, m # 0, Len(us) = m, Len(vs) = m - 1,
         \A k \in 0..m : P[k] \in Nat, \A k, l \in 0..m : k < l => P[k] < P[l],
         NEW k \in 0..m-1, NEW j \in Nat, Belongs(vs, P, k, j)
  PROVE  /\ j \in 0..P[m]-1 => Belongs(us, P, k, j)
         /\ j >= P[m] => k = m - 1
<1>1. k \in 0..m /\ m \in 0..m /\ k + 1 \in 0..m /\ P[m] \in Nat /\ P[k + 1] \in Nat
  OBVIOUS
<1>2. P[k] <= j /\ (k < m - 1 => j < P[k + 1])
  BY DEF Belongs
<1>3. ASSUME j \in 0..P[m]-1 PROVE Belongs(us, P, k, j)
  <2>1. CASE k < m - 1
    BY <1>2, <2>1 DEF Belongs
  <2>2. CASE k = m - 1
    <3>1. k + 1 = m /\ j < P[m]
      BY <1>1, <1>3, <2>2
    <3> QED
      BY <1>2, <3>1 DEF Belongs
  <2> QED
    BY <2>1, <2>2
<1>4. ASSUME j >= P[m] PROVE k = m - 1
  <2> SUFFICES ASSUME k < m - 1 PROVE FALSE
    OBVIOUS
  <2>1. k + 1 < m /\ j < P[k + 1]
    BY <1>2
  <2>2. P[k + 1] < P[m]
    BY <1>1, <2>1
  <2> QED
    BY <1>1, <1>4, <2>1, <2>2
<1> QED
  BY <1>3, <1>4

LEMMA FollowsCut ==
  ASSUME NEW cs, NEW up, NEW us, NEW P, NEW A, cs \in Seq(Orders), up \in 0..Len(cs), us \in Stacks,
         Paired(cs, up, us, P), Stepped(us, A), Calm(cs, us, P, A), Len(us) # 0, NumbersHold(cs),
         NEW g0 \in Games, OwnNames(g0), NEW lo \in Nat, lo <= up, NEW skip,
         NEW g \in Games, NEW lost, NEW h, NEW missing,
         Follows(g0, lo, skip, cs, us, P, A, g, lost),
         Reverted(g, h, us[Len(us)].command), Board(h) = A[Len(us) - 1],
         lost \subseteq missing,
         us[Len(us)].command.kind = "recall" /\ Orphans(cs, LastReal(cs)) # {}
            => us[Len(us)].command.unit \in missing
  PROVE  Follows(g0, lo, skip, UndoCut(cs), SubSeq(us, 1, Len(us) - 1), P, A, h, missing)
<1> DEFINE m == Len(us)
           n == P[m]
           c == cs[n]
           t == UndoCut(cs)
           vs == SubSeq(us, 1, m - 1)
           p == A[m - 1]
           q == A[m]
           away == IF c.kind = "recruit" \/ (c.kind = "recall" /\ Orphans(cs, n) # {})
                   THEN {c.unit} ELSE {}
<1>1. /\ m \in 1..m /\ n \in 1..Len(cs) /\ up < n /\ LastReal(cs) = n
      /\ c = us[m].command /\ ~c.sent /\ p \in Boards /\ q \in Boards
      /\ BoardStep(p, c, q) /\ Alone(p.at)
      /\ \A j \in n+1..Len(cs) : Quiet(cs[j], q, c.kind)
  BY SoundTop
<1>2. /\ m \in Nat /\ Len(cs) \in Nat /\ up \in Nat /\ c \in Orders
      /\ \A j \in 1..Len(cs) : cs[j] \in Orders
  BY <1>1, StackIs
<1>3. PICK Q : /\ Chain(Q, g0, cs, Exec(cs, lo, skip))
               /\ \A k \in 0..Len(us), j \in 0..Len(cs) :
                    Belongs(us, P, k, j) => Board(Q[j]) = A[k]
               /\ Alike(Q[Len(cs)], g, lost)
  BY DEF Follows
<1>p. /\ \A k \in 0..m : P[k] \in up..Len(cs) /\ P[k] \in Nat
      /\ \A k, l \in 0..m : k < l => P[k] < P[l]
  BY <1>2 DEF Paired
<1>v. Len(vs) = m - 1
  <2>1. m - 1 \in 0..Len(us)
    BY <1>2, <1>1
  <2> QED
    BY <2>1, BeginIs DEF Stacks
<1> HIDE DEF vs
<1>4. Board(Q[n - 1]) = p
  <2>1. m - 1 \in 0..m /\ n - 1 \in 0..Len(cs) /\ m - 1 < m /\ m \in 0..m /\ (m - 1) + 1 = m
    BY <1>1, <1>2
  <2>2. P[m - 1] < n /\ P[m - 1] \in Nat /\ n \in Nat
    BY <1>p, <2>1
  <2>3. Belongs(us, P, m - 1, n - 1)
    BY <2>1, <2>2 DEF Belongs
  <2> QED
    BY <1>3, <2>1, <2>3
<1>5. \A j \in n+1..Len(cs) : Orphaned(c, cs[j]) => c.unit \in away
  <2> SUFFICES ASSUME NEW j \in n+1..Len(cs), Orphaned(c, cs[j]) PROVE c.unit \in away
    OBVIOUS
  <2>1. j \in Orphans(cs, n)
    BY DEF Orphans, Orphaned
  <2>2. c.kind \in {"recruit", "recall"}
    BY DEF Orphaned
  <2> QED
    BY <2>1, <2>2
<1>6. PICK R : /\ Chain(R, g0, t, Exec(t, lo, skip))
               /\ \A j \in 0..n-1 : R[j] = Q[j]
               /\ \A j \in n..Len(t) : Board(R[j]) = p
               /\ Related(Q[Len(cs)], R[Len(t)], q, p, away)
  <2>1. lo < n
    BY <1>1, <1>2
  <2>2. Chain(Q, g0, cs, Exec(cs, lo, skip))
    BY <1>3
  <2>3. Cuttable(cs, n, p, q)
    BY <1>1 DEF Cuttable
  <2>4. Loses(cs, n, away)
    BY <1>5 DEF Loses
  <2> HIDE DEF away, n, p, q
  <2>5. PICK R : CutChain(R, Q, g0, cs, lo, skip, n, p, q, away)
    BY <1>4, <2>1, <2>2, <2>3, <2>4, CutFollows
  <2> QED
    BY <2>5 DEF CutChain
<1>t. t \in Seq(Orders) /\ n - 1 \in 0..Len(t) /\ Len(t) \in Nat
  <2> HIDE DEF n, p, q
  <2>1. t \in Seq(Orders) /\ n - 1 \in 0..Len(t)
    BY <1>1, CutRecord
  <2> QED
    BY <2>1
<1>7. ASSUME NEW k \in 0..Len(vs), NEW j \in 0..Len(t), Belongs(vs, P, k, j)
      PROVE  Board(R[j]) = A[k]
  <2>1. k \in 0..m /\ k \in 0..m-1 /\ m - 1 \in 0..m
    BY <1>1, <1>2, <1>v
  <2>5. /\ j \in 0..n-1 => Belongs(us, P, k, j)
        /\ j \in n..Len(t) => k = m - 1
    <3>1. /\ j \in Nat /\ m # 0 /\ Len(us) = m /\ Belongs(vs, P, k, j)
          /\ \A i \in 0..m : P[i] \in Nat
      BY <1>1, <1>2, <1>7, <1>p, <1>t
    <3>2. /\ j \in 0..P[m]-1 => Belongs(us, P, k, j)
          /\ j >= P[m] => k = m - 1
      <4> HIDE DEF m
      <4> QED
        BY <1>2, <1>p, <1>v, <2>1, <3>1, BelongsCut
    <3> QED
      BY <3>2
  <2>2. CASE j \in 0..n-1
    <3>2. j \in 0..Len(cs) /\ R[j] = Q[j]
      BY <1>1, <1>2, <1>6, <2>2
    <3> QED
      BY <1>3, <2>1, <2>2, <2>5, <3>2
  <2>3. CASE j \in n..Len(t)
    BY <1>6, <2>3, <2>5
  <2>4. j \in 0..n-1 \/ j \in n..Len(t)
    BY <1>1, <1>t
  <2> QED
    BY <2>2, <2>3, <2>4
<1>8. Alike(R[Len(t)], h, missing)
  <2> DEFINE r == R[Len(t)]
             x == Q[Len(cs)]
  <2>1. r \in Games /\ OwnNames(r)
    <3>1. Len(t) \in 0..Len(t)
      BY <1>t
    <3> QED
      BY <1>6, <1>t, <3>1, ChainTyped
  <2>2. Board(r) = p /\ r.said = x.said /\ \A v \in Units \ away : r.name[v] = x.name[v]
    BY <1>6 DEF Related
  <2>3. x.said = g.said /\ \A v \in Units \ lost : x.name[v] = g.name[v]
    BY <1>3 DEF Alike
  <2>4. /\ h \in Games /\ OwnNames(h) /\ h.said = g.said
        /\ \A v \in Units : ~(c.kind = "recruit" /\ v = c.unit) => h.name[v] = g.name[v]
    BY <1>1 DEF Reverted
  <2>5. h.at = r.at /\ h.auto = r.auto
    <3>1. Board(h) = p
      OBVIOUS
    <3> QED
      BY <1>1, <2>1, <2>2, <2>4, <3>1, BoardIs
  <2>6. ASSUME NEW v \in Units \ missing PROVE r.name[v] = h.name[v]
    <3>1. v \in Units \ lost
      BY <2>6
    <3>2. CASE v \in Units \ away
      <4>1. r.name[v] = g.name[v]
        BY <2>2, <2>3, <3>1, <3>2
      <4>2. CASE ~(c.kind = "recruit" /\ v = c.unit)
        BY <2>4, <4>1, <4>2
      <4>3. CASE c.kind = "recruit" /\ v = c.unit
        BY <3>2, <4>3
      <4> QED
        BY <4>2, <4>3
    <3>3. CASE v \in away
      <4>1. CASE c.kind = "recruit"
        <5>1. v = c.unit
          BY <3>3, <4>1
        <5>2. p.at[v] = "unborn"
          <6>1. AtStep(p.at, c, q.at)
            BY <1>1, <4>1 DEF BoardStep, Shroud
          <6> QED
            BY <4>1, <5>1, <6>1 DEF AtStep, Brings, Source
        <5>3. r.at[v] = "unborn" /\ h.at[v] = "unborn"
          BY <1>1, <2>1, <2>2, <2>5, <5>2, BoardIs
        <5> QED
          BY <2>1, <2>4, <5>3 DEF OwnNames
      <4>2. CASE c.kind # "recruit"
        <5>1. c.kind = "recall" /\ Orphans(cs, n) # {} /\ v = c.unit
          BY <3>3, <4>2
        <5>2. v \in missing
          BY <1>1, <5>1
        <5> QED
          BY <2>6, <5>2
      <4> QED
        BY <4>1, <4>2
    <3> QED
      BY <3>2, <3>3
  <2> HIDE DEF r, x, away
  <2>7. r.said = h.said
    BY <2>2, <2>3, <2>4
  <2> QED
    BY <2>5, <2>6, <2>7 DEF Alike, r
<1>9. Follows(g0, lo, skip, t, vs, P, A, h, missing)
  BY <1>6, <1>7, <1>8 DEF Follows
<1> QED
  BY <1>9 DEF vs

\* undo_cut takes the topmost action off the record.
LEMMA CutSound ==
  ASSUME NEW cs, NEW up, NEW us, NEW g, NEW p, NEW lost, NEW P, NEW A,
         Sound(cs, up, us, g, p, lost, P, A), Len(us) # 0, NumbersHold(cs),
         NEW h, NEW missing, lost \subseteq missing,
         Reverted(g, h, us[Len(us)].command), Board(h) = A[Len(us) - 1],
         us[Len(us)].command.kind = "recall" /\ Orphans(cs, LastReal(cs)) # {}
            => us[Len(us)].command.unit \in missing
  PROVE  Sound(UndoCut(cs), up, SubSeq(us, 1, Len(us) - 1), h, p, missing, P, A)
<1> DEFINE m == Len(us)
           n == P[m]
           t == UndoCut(cs)
           vs == SubSeq(us, 1, m - 1)
<1>1. /\ cs \in Seq(Orders) /\ up \in 0..Len(cs) /\ us \in Stacks
      /\ g \in Games /\ OwnNames(g) /\ p \in Games /\ OwnNames(p)
      /\ Paired(cs, up, us, P) /\ Stepped(us, A) /\ Calm(cs, us, P, A)
      /\ Follows(NewGame, 0, FALSE, cs, us, P, A, g, lost)
      /\ Follows(p, up, TRUE, cs, us, P, A, g, lost)
  BY DEF Sound, Typed
<1>2. /\ m \in 1..m /\ n \in 1..Len(cs) /\ up < n /\ LastReal(cs) = n
      /\ cs[n] = us[m].command /\ ~cs[n].sent /\ A[m - 1] \in Boards /\ A[m] \in Boards
      /\ BoardStep(A[m - 1], cs[n], A[m]) /\ Alone(A[m - 1].at)
      /\ \A j \in n+1..Len(cs) : Quiet(cs[j], A[m], cs[n].kind)
  BY <1>1, SoundTop
<1>3. m \in Nat /\ m - 1 \in Nat /\ m - 1 \in 0..m /\ up \in Nat /\ Len(cs) \in Nat
  BY <1>1, <1>2, StackIs
<1>4. vs \in Stacks /\ Len(vs) = m - 1 /\ \A k \in 1..m-1 : vs[k] = us[k]
  BY <1>1, <1>3, BeginIs DEF Stacks
<1>5. /\ t \in Seq(Orders) /\ n - 1 \in 0..Len(t)
      /\ \A i \in 1..n-1 : t[i] = cs[i]
      /\ \A i \in n..Len(t) : \A after : Quiet(t[i], A[m - 1], after)
  <2> HIDE DEF n, t
  <2> QED
    BY <1>1, <1>2, CutRecord DEF t
<1> HIDE DEF vs, t
<1>6. /\ \A k \in 0..m : P[k] \in up..Len(cs) /\ P[k] \in Nat
      /\ \A k, l \in 0..m : k < l => P[k] < P[l]
      /\ \A k \in 1..m : cs[P[k]] = us[k].command
  BY <1>1, <1>3 DEF Paired
<1>7. Len(t) \in Nat /\ up \in 0..Len(t)
  BY <1>2, <1>3, <1>5
<1>8. Paired(t, up, vs, P)
  <2>1. ASSUME NEW k \in 0..m-1 PROVE P[k] \in up..Len(t) /\ P[k] \in 0..n-1
    <3>1. k \in 0..m /\ m \in 0..m /\ k < m
      BY <1>3
    <3>a. P[k] < n
      BY <1>6, <3>1
    <3>b. P[k] \in up..Len(cs)
      BY <1>6, <3>1
    <3>2. P[k] < n /\ P[k] \in up..Len(cs)
      BY <3>a, <3>b
    <3>c. n - 1 \in 0..Len(t) /\ n \in Nat /\ up \in Nat /\ Len(t) \in Nat /\ P[k] \in Nat
      BY <1>2, <1>3, <1>5, <1>7, <1>6, <3>1
    <3> HIDE DEF n
    <3> QED
      BY <3>2, <3>c
  <2>2. \A k, l \in 0..m-1 : k < l => P[k] < P[l]
    BY <1>3, <1>6
  <2>3. ASSUME NEW k \in 1..m-1 PROVE t[P[k]] = vs[k].command
    <3>1. k \in 0..m-1 /\ k \in 1..m /\ k \in 0..m /\ 0 \in 0..m /\ 0 < k
      BY <1>3
    <3>2. P[0] < P[k] /\ P[0] \in Nat /\ P[k] \in 0..n-1
      BY <1>6, <2>1, <3>1
    <3>3. P[k] \in 1..n-1
      BY <3>2
    <3> QED
      BY <1>4, <1>5, <1>6, <3>1, <3>3
  <2> QED
    BY <1>4, <2>1, <2>2, <2>3 DEF Paired
<1>9. Stepped(vs, A)
  <2>1. \A k \in 0..m-1 : k \in 0..m
    BY <1>3
  <2>2. \A k \in 1..m-1 : k \in 1..m
    BY <1>3
  <2> QED
    BY <1>1, <1>4, <2>1, <2>2 DEF Stepped
<1>10. Calm(t, vs, P, A)
  <2> SUFFICES ASSUME NEW k \in 0..m-1, NEW j \in 1..Len(t), P[k] # j, Belongs(vs, P, k, j)
               PROVE  Quiet(t[j], A[k], After(vs, k))
    BY <1>4 DEF Calm
  <2>1. /\ j \in 0..n-1 => Belongs(us, P, k, j)
        /\ j \in n..Len(t) => k = m - 1
    <3>1. /\ j \in Nat /\ m \in Nat /\ m # 0 /\ Len(us) = m /\ Len(vs) = m - 1
          /\ \A i \in 0..m : P[i] \in Nat
          /\ \A i \in 0..m : \A l \in 0..m : i < l => P[i] < P[l]
      <4>1. j \in Nat /\ m \in Nat /\ m # 0
        BY <1>2, <1>3, <1>7
      <4>2. Len(us) = m /\ Len(vs) = m - 1
        BY <1>4
      <4> QED
        BY <1>6, <4>1, <4>2
    <3>2. /\ j \in 0..P[m]-1 => Belongs(us, P, k, j)
          /\ j >= P[m] => k = m - 1
      <4> HIDE DEF m, n
      <4> QED
        BY <3>1, BelongsCut
    <3> QED
      BY <3>2
  <2>2. CASE j \in 0..n-1
    <3>1. j \in 1..Len(cs) /\ j \in 1..n-1 /\ k \in 0..m
      BY <1>2, <1>3, <2>2
    <3>2. Quiet(cs[j], A[k], After(us, k))
      BY <1>1, <2>1, <2>2, <3>1 DEF Calm
    <3>3. After(us, k) = After(vs, k)
      BY <1>3, <1>4 DEF After
    <3> QED
      BY <1>5, <3>1, <3>2, <3>3
  <2>3. CASE j \in n..Len(t)
    BY <1>5, <2>1, <2>3
  <2> QED
    BY <1>2, <1>7, <2>2, <2>3
<1>11. /\ Follows(NewGame, 0, FALSE, t, vs, P, A, h, missing)
       /\ Follows(p, up, TRUE, t, vs, P, A, h, missing)
  <2>1. 0 \in Nat /\ 0 <= up /\ up <= up /\ up \in Nat
    BY <1>3
  <2>2. Follows(NewGame, 0, FALSE, t, vs, P, A, h, missing)
    BY <1>1, <2>1, FollowsCut, NewGameTyped DEF t, vs
  <2>3. Follows(p, up, TRUE, t, vs, P, A, h, missing)
    BY <1>1, <2>1, FollowsCut DEF t, vs
  <2> QED
    BY <2>2, <2>3
<1>12. Typed(t, up, vs, h, p)
  BY <1>1, <1>4, <1>5, <1>7 DEF Typed, Reverted
<1> QED
  BY <1>4, <1>8, <1>9, <1>10, <1>11, <1>12 DEF Sound, t, vs

-----------------------------------------------------------------------------
(* A command is added to the record.                                         *)

LEMMA AppendIs ==
  ASSUME NEW S, NEW s \in Seq(S), NEW c \in S
  PROVE  /\ Append(s, c) \in Seq(S) /\ Len(Append(s, c)) = Len(s) + 1
         /\ \A i \in 1..Len(s) : Append(s, c)[i] = s[i]
         /\ Append(s, c)[Len(s) + 1] = c
  OBVIOUS

LEMMA ExecGrows ==
  ASSUME NEW cs \in Seq(Orders), NEW c \in Orders, NEW lo \in Nat, lo <= Len(cs), NEW skip
  PROVE  /\ \A j \in 1..Len(cs) : j \in Exec(Append(cs, c), lo, skip) <=> j \in Exec(cs, lo, skip)
         /\ Len(cs) + 1 \in Exec(Append(cs, c), lo, skip) <=> ~(skip /\ c.sent)
<1> DEFINE t == Append(cs, c)
<1>1. /\ Len(t) = Len(cs) + 1 /\ \A i \in 1..Len(cs) : t[i] = cs[i]
      /\ t[Len(cs) + 1] = c /\ Len(cs) \in Nat
  BY AppendIs
<1> HIDE DEF t
<1>2. \A j \in 1..Len(cs) : j \in Exec(t, lo, skip) <=> j \in Exec(cs, lo, skip)
  BY <1>1 DEF Exec
<1>3. Len(cs) + 1 \in Exec(t, lo, skip) <=> ~(skip /\ c.sent)
  <2>1. Len(cs) + 1 \in 1..Len(t) /\ Len(cs) + 1 > lo
    BY <1>1
  <2> QED
    BY <1>1, <2>1 DEF Exec
<1> QED
  BY <1>2, <1>3 DEF t

\* The games, one more.
ChainMore(R, Q, g0, cs, c, lo, skip) ==
  /\ Chain(R, g0, Append(cs, c), Exec(Append(cs, c), lo, skip))
  /\ \A i \in 0..Len(cs) : R[i] = Q[i]
  /\ R[Len(cs) + 1] = IF skip /\ c.sent THEN Q[Len(cs)] ELSE Execute(Q[Len(cs)], c)

LEMMA ChainGrows ==
  ASSUME NEW cs \in Seq(Orders), NEW c \in Orders, NEW lo \in Nat, lo <= Len(cs), NEW skip,
         NEW g0, NEW Q, Chain(Q, g0, cs, Exec(cs, lo, skip))
  PROVE  \E R : ChainMore(R, Q, g0, cs, c, lo, skip)
<1> DEFINE t == Append(cs, c)
           N == Len(cs)
           last == IF skip /\ c.sent THEN Q[N] ELSE Execute(Q[N], c)
           R == [i \in 0..N+1 |-> IF i = N + 1 THEN last ELSE Q[i]]
<1>1. /\ Len(t) = N + 1 /\ \A i \in 1..N : t[i] = cs[i]
      /\ t[N + 1] = c /\ N \in Nat
  BY AppendIs
<1>2. /\ \A j \in 1..N : j \in Exec(t, lo, skip) <=> j \in Exec(cs, lo, skip)
      /\ N + 1 \in Exec(t, lo, skip) <=> ~(skip /\ c.sent)
  BY ExecGrows
<1>3. /\ Q \in [0..N -> Games] /\ Q[0] = g0
      /\ \A i \in 1..N : Q[i] = IF i \in Exec(cs, lo, skip) THEN Execute(Q[i - 1], cs[i]) ELSE Q[i - 1]
  BY DEF Chain
<1> HIDE DEF t
<1>4. last \in Games
  <2>1. Q[N] \in Games
    BY <1>1, <1>3
  <2>2. Execute(Q[N], c) \in Games
    BY <2>1, ExecuteTyped
  <2> QED
    BY <2>1, <2>2
<1>5. R \in [0..N+1 -> Games]
  <2> HIDE DEF last
  <2>1. ASSUME NEW i \in 0..N+1 PROVE (IF i = N + 1 THEN last ELSE Q[i]) \in Games
    <3>1. i # N + 1 => i \in 0..N
      BY <1>1
    <3> QED
      BY <1>3, <1>4, <3>1
  <2> QED
    BY <2>1
<1>6. \A i \in 0..N : R[i] = Q[i]
  BY <1>1
<1>7. R[N + 1] = last
  BY <1>1
<1> HIDE DEF R
<1>8. ASSUME NEW i \in 1..N+1
      PROVE  R[i] = IF i \in Exec(t, lo, skip) THEN Execute(R[i - 1], t[i]) ELSE R[i - 1]
  <2>1. CASE i \in 1..N
    <3>1. i \in 0..N /\ i - 1 \in 0..N
      BY <1>1, <2>1
    <3>2. R[i] = Q[i] /\ R[i - 1] = Q[i - 1]
      BY <1>6, <3>1
    <3> QED
      BY <1>1, <1>2, <1>3, <2>1, <3>2
  <2>2. CASE i = N + 1
    <3>1. N \in 0..N /\ i - 1 = N
      BY <1>1, <2>2
    <3>2. R[i - 1] = Q[N] /\ R[i] = last /\ t[i] = c
      BY <1>1, <1>6, <1>7, <2>2, <3>1
    <3> QED
      BY <1>2, <2>2, <3>2
  <2> QED
    BY <1>1, <2>1, <2>2
<1>9. R[0] = g0
  BY <1>1, <1>3, <1>6
<1>10. Chain(R, g0, t, Exec(t, lo, skip))
  BY <1>1, <1>5, <1>8, <1>9 DEF Chain
<1>11. ChainMore(R, Q, g0, cs, c, lo, skip)
  BY <1>6, <1>7, <1>10 DEF ChainMore, t
<1> QED
  BY <1>11

\* What comes last belongs to the topmost action.
LEMMA BelongsEnd ==
  ASSUME NEW cs, Len(cs) \in Nat, NEW up \in Nat, NEW us, Len(us) \in Nat, NEW P,
         Paired(cs, up, us, P)
  PROVE  /\ \A j \in Nat : j >= Len(cs) => Belongs(us, P, Len(us), j)
         /\ \A k \in 0..Len(us), j \in Nat : j > Len(cs) /\ Belongs(us, P, k, j) => k = Len(us)
<1>1. \A k \in 0..Len(us) : P[k] \in up..Len(cs)
  BY DEF Paired
<1>2. ASSUME NEW j \in Nat, j >= Len(cs) PROVE Belongs(us, P, Len(us), j)
  <2>1. P[Len(us)] \in up..Len(cs)
    BY <1>1
  <2>2. P[Len(us)] <= j
    BY <1>2, <2>1
  <2> QED
    BY <2>2 DEF Belongs
<1>3. ASSUME NEW k \in 0..Len(us), NEW j \in Nat, j > Len(cs), Belongs(us, P, k, j)
      PROVE  k = Len(us)
  <2> SUFFICES ASSUME k < Len(us) PROVE FALSE
    OBVIOUS
  <2>1. j < P[k + 1] /\ k + 1 \in 0..Len(us)
    BY <1>3 DEF Belongs
  <2>2. P[k + 1] \in up..Len(cs)
    BY <1>1, <2>1
  <2> QED
    BY <1>3, <2>1, <2>2
<1> QED
  BY <1>2, <1>3

LEMMA FollowsQuiet ==
  ASSUME NEW cs \in Seq(Orders), NEW up \in Nat, NEW us, Len(us) \in Nat, NEW P, NEW A,
         Paired(cs, up, us, P), NEW c \in Orders, c.kind \in {"speak", "rename", "choice"},
         NEW lo \in Nat, lo <= Len(cs), NEW skip, skip => ~c.sent, NEW g0 \in Games, OwnNames(g0),
         NEW g \in Games, NEW lost, Follows(g0, lo, skip, cs, us, P, A, g, lost)
  PROVE  Follows(g0, lo, skip, Append(cs, c), us, P, A, Execute(g, c), lost)
<1> DEFINE t == Append(cs, c)
           N == Len(cs)
<1>1. N \in Nat /\ N \in 0..N /\ Len(t) = N + 1
  BY AppendIs
<1>2. PICK Q : /\ Chain(Q, g0, cs, Exec(cs, lo, skip))
               /\ \A k \in 0..Len(us), j \in 0..N : Belongs(us, P, k, j) => Board(Q[j]) = A[k]
               /\ Alike(Q[N], g, lost)
  BY DEF Follows
<1>3. PICK R : ChainMore(R, Q, g0, cs, c, lo, skip)
  BY <1>2, ChainGrows
<1>4. /\ Chain(R, g0, t, Exec(t, lo, skip))
      /\ \A i \in 0..N : R[i] = Q[i]
      /\ R[N + 1] = Execute(Q[N], c)
  BY <1>3 DEF ChainMore
<1>5. Q[N] \in Games
  BY <1>1, <1>2, ChainTyped
<1>6. Alike(R[N + 1], Execute(g, c), lost)
  BY <1>2, <1>4, <1>5, AlikeExecutes
<1>7. ASSUME NEW k \in 0..Len(us), NEW j \in 0..N+1, Belongs(us, P, k, j)
      PROVE  Board(R[j]) = A[k]
  <2>1. CASE j \in 0..N
    BY <1>2, <1>4, <1>7, <2>1
  <2>2. CASE j = N + 1
    <3>1. j \in Nat /\ j > N
      BY <1>1, <2>2
    <3>2. k = Len(us)
      BY <1>1, <1>7, <3>1, BelongsEnd
    <3>3. Belongs(us, P, Len(us), N)
      BY <1>1, BelongsEnd
    <3>4. Board(Q[N]) = A[k]
      BY <1>1, <1>2, <3>2, <3>3
    <3>5. Board(Execute(Q[N], c)) = Board(Q[N])
      BY <1>5, QuietExecutes
    <3> QED
      BY <1>4, <2>2, <3>4, <3>5
  <2> QED
    BY <1>1, <2>1, <2>2
<1> HIDE DEF t
<1>8. Follows(g0, lo, skip, t, us, P, A, Execute(g, c), lost)
  BY <1>1, <1>4, <1>6, <1>7 DEF Follows
<1> QED
  BY <1>8 DEF t

\* A message, a rename or an answer comes after the actions.
LEMMA PairedQuiet ==
  ASSUME NEW cs \in Seq(Orders), NEW up \in 0..Len(cs), NEW us, Len(us) \in Nat, NEW P, NEW A,
         Paired(cs, up, us, P), Calm(cs, us, P, A),
         NEW c \in Orders, Quiet(c, A[Len(us)], After(us, Len(us)))
  PROVE  Paired(Append(cs, c), up, us, P) /\ Calm(Append(cs, c), us, P, A)
<1> DEFINE t == Append(cs, c)
           N == Len(cs)
<1>1. /\ N \in Nat /\ Len(t) = N + 1 /\ \A i \in 1..N : t[i] = cs[i]
      /\ t[N + 1] = c /\ up \in Nat
  BY AppendIs
<1> HIDE DEF t
<1>2. /\ \A k \in 0..Len(us) : P[k] \in up..N
      /\ \A k, l \in 0..Len(us) : k < l => P[k] < P[l]
      /\ \A k \in 1..Len(us) : cs[P[k]] = us[k].command
  BY DEF Paired
<1>3. \A k \in 0..Len(us) : P[k] \in up..Len(t)
  BY <1>1, <1>2
<1>4. ASSUME NEW k \in 1..Len(us) PROVE t[P[k]] = us[k].command
  <2>1. k \in 0..Len(us) /\ 0 \in 0..Len(us) /\ 0 < k
    OBVIOUS
  <2>2. P[0] < P[k] /\ P[0] \in up..N /\ P[k] \in up..N
    BY <1>2, <2>1
  <2>3. P[k] \in 1..N
    BY <1>1, <2>2
  <2> QED
    BY <1>1, <1>2, <2>3
<1>5. Paired(t, up, us, P)
  BY <1>2, <1>3, <1>4 DEF Paired
<1>6. ASSUME NEW k \in 0..Len(us), NEW j \in 1..Len(t), P[k] # j, Belongs(us, P, k, j)
      PROVE  Quiet(t[j], A[k], After(us, k))
  <2>1. CASE j \in 1..N
    BY <1>1, <1>6, <2>1 DEF Calm
  <2>2. CASE j = N + 1
    <3>1. j \in Nat /\ j > N
      BY <1>1, <2>2
    <3>2. k = Len(us)
      BY <1>1, <1>6, <3>1, BelongsEnd
    <3> QED
      BY <1>1, <2>2, <3>2
  <2> QED
    BY <1>1, <2>1, <2>2
<1>7. Calm(t, us, P, A)
  BY <1>6 DEF Calm
<1> QED
  BY <1>5, <1>7 DEF t

LEMMA AppendQuiet ==
  ASSUME NEW cs, NEW up, NEW us, NEW g, NEW p, NEW lost, NEW P, NEW A,
         Sound(cs, up, us, g, p, lost, P, A),
         NEW c \in Orders, ~c.sent, Quiet(c, A[Len(us)], After(us, Len(us)))
  PROVE  Sound(Append(cs, c), up, us, Execute(g, c), p, lost, P, A)
<1>1. /\ cs \in Seq(Orders) /\ up \in 0..Len(cs) /\ us \in Stacks
      /\ g \in Games /\ OwnNames(g) /\ p \in Games /\ OwnNames(p)
      /\ Paired(cs, up, us, P) /\ Stepped(us, A) /\ Calm(cs, us, P, A)
      /\ Follows(NewGame, 0, FALSE, cs, us, P, A, g, lost)
      /\ Follows(p, up, TRUE, cs, us, P, A, g, lost) /\ A[Len(us)] = Board(g)
  BY DEF Sound, Typed
<1>2. Len(us) \in Nat /\ Len(cs) \in Nat /\ up \in Nat /\ up <= Len(cs) /\ 0 \in Nat /\ 0 <= Len(cs)
  BY <1>1, StackIs
<1>3. c.kind \in {"speak", "rename", "choice"}
  BY DEF Quiet
<1>4. Follows(NewGame, 0, FALSE, Append(cs, c), us, P, A, Execute(g, c), lost)
  BY <1>1, <1>2, <1>3, FollowsQuiet, NewGameTyped
<1>5. Follows(p, up, TRUE, Append(cs, c), us, P, A, Execute(g, c), lost)
  BY <1>1, <1>2, <1>3, FollowsQuiet
<1>6. Paired(Append(cs, c), up, us, P) /\ Calm(Append(cs, c), us, P, A)
  BY <1>1, <1>2, PairedQuiet
<1>7. Append(cs, c) \in Seq(Orders) /\ up \in 0..Len(Append(cs, c))
  BY <1>1, <1>2, AppendIs
<1>8. Execute(g, c) \in Games /\ OwnNames(Execute(g, c)) /\ Board(Execute(g, c)) = Board(g)
  BY <1>1, <1>3, ExecuteTyped, OwnNamesKept, QuietExecutes
<1>9. Typed(Append(cs, c), up, us, Execute(g, c), p)
  BY <1>1, <1>7, <1>8 DEF Typed
<1> QED
  BY <1>1, <1>4, <1>5, <1>6, <1>8, <1>9 DEF Sound

\* F2 is F with one value more.
More(F2, F, m, v) == (\A k \in 0..m : F2[k] = F[k]) /\ F2[m + 1] = v

LEMMA MoreExists ==
  ASSUME NEW F, NEW m \in Nat, NEW v
  PROVE  \E F2 : More(F2, F, m, v)
<1> DEFINE F2 == [k \in 0..m+1 |-> IF k = m + 1 THEN v ELSE F[k]]
<1>1. (\A k \in 0..m : F2[k] = F[k]) /\ F2[m + 1] = v
  OBVIOUS
<1>2. More(F2, F, m, v)
  BY <1>1 DEF More
<1> QED
  BY <1>2

\* With one action more on the stack.
LEMMA BelongsPush ==
  ASSUME NEW cs, Len(cs) \in Nat, NEW up \in Nat, NEW us, Len(us) \in Nat, NEW P,
         Paired(cs, up, us, P), NEW P2, More(P2, P, Len(us), Len(cs) + 1),
         NEW vs, Len(vs) = Len(us) + 1,
         NEW k \in 0..Len(us)+1, NEW j \in 0..Len(cs)+1, Belongs(vs, P2, k, j)
  PROVE  \/ k = Len(us) + 1 /\ j = Len(cs) + 1
         \/ k \in 0..Len(us) /\ j \in 0..Len(cs) /\ Belongs(us, P, k, j)
<1> DEFINE m == Len(us)
           N == Len(cs)
<1>1. \A i \in 0..m : P[i] \in up..N
  BY DEF Paired
<1>2. (\A i \in 0..m : P2[i] = P[i]) /\ P2[m + 1] = N + 1
  BY DEF More
<1>3. P2[k] <= j /\ (k < m + 1 => j < P2[k + 1])
  BY DEF Belongs
<1>4. CASE k = m + 1
  BY <1>2, <1>3, <1>4
<1>5. CASE k = m
  BY <1>2, <1>3, <1>5 DEF Belongs
<1>6. CASE k < m
  <2>1. k \in 0..m /\ k + 1 \in 0..m
    BY <1>6
  <2>2. P[k] <= j /\ j < P[k + 1] /\ P[k + 1] \in up..N
    BY <1>1, <1>2, <1>3, <1>6, <2>1
  <2> QED
    BY <1>6, <2>1, <2>2 DEF Belongs
<1> QED
  BY <1>4, <1>5, <1>6

LEMMA FollowsReal ==
  ASSUME NEW cs \in Seq(Orders), NEW up \in Nat, NEW us, Len(us) \in Nat, NEW P, NEW A,
         Paired(cs, up, us, P), NEW c \in Orders, ~c.sent,
         NEW g \in Games, NEW b \in Boards, BoardStep(Board(g), c, b), Alone(g.at),
         NEW vs, Len(vs) = Len(us) + 1,
         NEW P2, More(P2, P, Len(us), Len(cs) + 1), NEW A2, More(A2, A, Len(us), b),
         NEW lo \in Nat, lo <= Len(cs), NEW skip, NEW g0 \in Games, OwnNames(g0),
         NEW lost, Follows(g0, lo, skip, cs, us, P, A, g, lost)
  PROVE  Follows(g0, lo, skip, Append(cs, c), vs, P2, A2, Execute(g, c), lost)
<1> DEFINE t == Append(cs, c)
           N == Len(cs)
           m == Len(us)
<1>1. N \in Nat /\ N \in 0..N /\ Len(t) = N + 1
  BY AppendIs
<1>2. PICK Q : /\ Chain(Q, g0, cs, Exec(cs, lo, skip))
               /\ \A k \in 0..m, j \in 0..N : Belongs(us, P, k, j) => Board(Q[j]) = A[k]
               /\ Alike(Q[N], g, lost)
  BY DEF Follows
<1>3. PICK R : ChainMore(R, Q, g0, cs, c, lo, skip)
  BY <1>2, ChainGrows
<1>4. /\ Chain(R, g0, t, Exec(t, lo, skip))
      /\ \A i \in 0..N : R[i] = Q[i]
      /\ R[N + 1] = Execute(Q[N], c)
  BY <1>3 DEF ChainMore
<1>5. Q[N] \in Games /\ OwnNames(Q[N])
  BY <1>1, <1>2, ChainTyped
<1>6. Alike(R[N + 1], Execute(g, c), lost)
  BY <1>2, <1>4, <1>5, AlikeExecutes
<1>7. Board(R[N + 1]) = b
  <2>1. Q[N].at = g.at /\ Board(Q[N]) = Board(g)
    BY <1>2 DEF Alike, Board
  <2> QED
    BY <1>4, <1>5, <2>1, StepExecutes
<1>8. ASSUME NEW k \in 0..m+1, NEW j \in 0..N+1, Belongs(vs, P2, k, j)
      PROVE  Board(R[j]) = A2[k]
  <2>1. \/ k = m + 1 /\ j = N + 1
        \/ k \in 0..m /\ j \in 0..N /\ Belongs(us, P, k, j)
    BY <1>1, <1>8, BelongsPush
  <2> QED
    BY <1>2, <1>4, <1>7, <2>1 DEF More
<1> HIDE DEF t
<1>9. Follows(g0, lo, skip, t, vs, P2, A2, Execute(g, c), lost)
  BY <1>1, <1>4, <1>6, <1>8 DEF Follows
<1> QED
  BY <1>9 DEF t

\* An action: the command goes on record, the action on the stack.
LEMMA AppendReal ==
  ASSUME NEW cs, NEW up, NEW us, NEW g, NEW p, NEW lost, NEW P, NEW A,
         Sound(cs, up, us, g, p, lost, P, A),
         NEW c \in Orders, ~c.sent, NEW b \in Boards, BoardStep(Board(g), c, b),
         NEW P2, More(P2, P, Len(us), Len(cs) + 1), NEW A2, More(A2, A, Len(us), b)
  PROVE  Sound(Append(cs, c), up, Append(us, Action(c)), Execute(g, c), p, lost, P2, A2)
<1> DEFINE t == Append(cs, c)
           vs == Append(us, Action(c))
           N == Len(cs)
           m == Len(us)
<1>1. /\ cs \in Seq(Orders) /\ up \in 0..N /\ us \in Stacks
      /\ g \in Games /\ OwnNames(g) /\ p \in Games /\ OwnNames(p)
      /\ Paired(cs, up, us, P) /\ Stepped(us, A) /\ Calm(cs, us, P, A)
      /\ Follows(NewGame, 0, FALSE, cs, us, P, A, g, lost)
      /\ Follows(p, up, TRUE, cs, us, P, A, g, lost) /\ A[m] = Board(g)
  BY DEF Sound, Typed
<1>2. m \in Nat /\ N \in Nat /\ up \in Nat /\ up <= N /\ 0 \in Nat /\ 0 <= N
  BY <1>1, StackIs
<1>3. /\ t \in Seq(Orders) /\ Len(t) = N + 1 /\ \A i \in 1..N : t[i] = cs[i]
      /\ t[N + 1] = c
  BY <1>1, AppendIs
<1>4. /\ vs \in Stacks /\ Len(vs) = m + 1 /\ \A k \in 1..m : vs[k] = us[k]
      /\ vs[m + 1].command = c
  <2>1. Action(c) \in [command : Orders, data : {<<>>}] /\ Action(c).command = c
    BY DEF Action
  <2> HIDE DEF vs
  <2>2. /\ vs \in Seq([command : Orders, data : {<<>>}]) /\ Len(vs) = m + 1
        /\ \A k \in 1..m : vs[k] = us[k]
        /\ vs[m + 1] = Action(c)
    BY <1>1, <2>1, AppendIs DEF Stacks, vs
  <2> QED
    BY <2>1, <2>2 DEF Stacks
<1>5. A[m].at = g.at /\ Alone(g.at)
  <2>1. m \in 0..m
    BY <1>2
  <2>2. Alone(A[m].at)
    BY <1>1, <2>1 DEF Stepped
  <2> QED
    BY <1>1, <2>2, GameFields
<1> HIDE DEF t, vs
<1>6. Follows(NewGame, 0, FALSE, t, vs, P2, A2, Execute(g, c), lost)
  BY <1>1, <1>2, <1>4, <1>5, FollowsReal, NewGameTyped DEF t
<1>7. Follows(p, up, TRUE, t, vs, P2, A2, Execute(g, c), lost)
  BY <1>1, <1>2, <1>4, <1>5, FollowsReal DEF t
<1>8. /\ \A k \in 0..m : P2[k] = P[k] /\ A2[k] = A[k]
      /\ P2[m + 1] = N + 1 /\ A2[m + 1] = b
  BY DEF More
<1>9. Paired(t, up, vs, P2)
  <2>1. /\ \A k \in 0..m : P[k] \in up..N
        /\ \A k, l \in 0..m : k < l => P[k] < P[l]
        /\ \A k \in 1..m : cs[P[k]] = us[k].command
    BY <1>1 DEF Paired
  <2>2. ASSUME NEW k \in 0..m+1 PROVE P2[k] \in up..N+1
    <3>1. k \in 0..m \/ k = m + 1
      BY <1>2
    <3> QED
      BY <1>2, <1>8, <2>1, <3>1
  <2>3. ASSUME NEW k \in 0..m+1, NEW l \in 0..m+1, k < l PROVE P2[k] < P2[l]
    <3>1. k \in 0..m /\ (l \in 0..m \/ l = m + 1)
      BY <1>2, <2>3
    <3>2. P2[k] = P[k] /\ P[k] \in up..N
      BY <1>8, <2>1, <3>1
    <3>3. CASE l \in 0..m
      BY <1>8, <2>1, <2>3, <3>1, <3>3
    <3>4. CASE l = m + 1
      BY <1>2, <1>8, <3>2, <3>4
    <3> QED
      BY <3>1, <3>3, <3>4
  <2>4. ASSUME NEW k \in 1..m+1 PROVE t[P2[k]] = vs[k].command
    <3>1. CASE k \in 1..m
      <4>1. k \in 0..m /\ 0 \in 0..m /\ 0 < k
        BY <1>2, <3>1
      <4>2. P[0] < P[k] /\ P[0] \in up..N /\ P[k] \in up..N
        BY <2>1, <4>1
      <4>3. P[k] \in 1..N
        BY <1>2, <4>2
      <4> QED
        BY <1>3, <1>4, <1>8, <2>1, <3>1, <4>1, <4>3
    <3>2. CASE k = m + 1
      BY <1>3, <1>4, <1>8, <3>2
    <3> QED
      BY <1>2, <3>1, <3>2
  <2> QED
    BY <1>3, <1>4, <2>2, <2>3, <2>4 DEF Paired
<1>10. Stepped(vs, A2)
  <2>1. /\ \A k \in 0..m : A[k] \in Boards /\ Alone(A[k].at)
        /\ \A k \in 1..m : BoardStep(A[k - 1], us[k].command, A[k]) /\ ~us[k].command.sent
    BY <1>1 DEF Stepped
  <2>2. Alone(b.at)
    BY <1>1, <1>5, StepExecutes
  <2>3. ASSUME NEW k \in 0..m+1 PROVE A2[k] \in Boards /\ Alone(A2[k].at)
    <3>1. k \in 0..m \/ k = m + 1
      BY <1>2
    <3> QED
      BY <1>8, <2>1, <2>2, <3>1
  <2>4. ASSUME NEW k \in 1..m+1
        PROVE  BoardStep(A2[k - 1], vs[k].command, A2[k]) /\ ~vs[k].command.sent
    <3>1. CASE k \in 1..m
      <4>1. k \in 0..m /\ k - 1 \in 0..m
        BY <1>2, <3>1
      <4> QED
        BY <1>4, <1>8, <2>1, <3>1, <4>1
    <3>2. CASE k = m + 1
      <4>1. k - 1 = m /\ m \in 0..m
        BY <1>2, <3>2
      <4> QED
        BY <1>1, <1>4, <1>8, <3>2, <4>1
    <3> QED
      BY <1>2, <3>1, <3>2
  <2> QED
    BY <1>4, <2>3, <2>4 DEF Stepped
<1>11. Calm(t, vs, P2, A2)
  <2> SUFFICES ASSUME NEW k \in 0..m+1, NEW j \in 1..N+1, P2[k] # j, Belongs(vs, P2, k, j)
               PROVE  Quiet(t[j], A2[k], After(vs, k))
    BY <1>3, <1>4 DEF Calm
  <2>1. j \in 0..N+1
    BY <1>2
  <2>2. \/ k = m + 1 /\ j = N + 1
        \/ k \in 0..m /\ j \in 0..N /\ Belongs(us, P, k, j)
    BY <1>1, <1>2, <1>4, <2>1, BelongsPush
  <2>3. k \in 0..m /\ j \in 1..N /\ Belongs(us, P, k, j)
    BY <1>2, <1>8, <2>2
  <2>4. Quiet(cs[j], A[k], After(us, k))
    BY <1>1, <1>8, <2>3 DEF Calm
  <2>5. After(us, k) = After(vs, k)
    BY <1>2, <1>4, <2>3 DEF After
  <2> QED
    BY <1>3, <1>8, <2>3, <2>4, <2>5
<1>12. Typed(t, up, vs, Execute(g, c), p)
  <2>1. Execute(g, c) \in Games /\ OwnNames(Execute(g, c))
    BY <1>1, ExecuteTyped, OwnNamesKept
  <2>2. up \in 0..Len(t)
    BY <1>2, <1>3
  <2> QED
    BY <1>1, <1>3, <1>4, <2>1, <2>2 DEF Typed
<1>13. A2[Len(vs)] = Board(Execute(g, c))
  BY <1>1, <1>4, <1>5, <1>8, StepExecutes
<1> QED
  BY <1>6, <1>7, <1>9, <1>10, <1>11, <1>12, <1>13 DEF Sound, t, vs

-----------------------------------------------------------------------------
(* Nothing can be undone.                                                    *)

Reaches(g0, lo, skip, cs, h, lost) ==
  \E Q : Chain(Q, g0, cs, Exec(cs, lo, skip)) /\ Alike(Q[Len(cs)], h, lost)

Settled(cs, up, g, p, lost) ==
  /\ Typed(cs, up, <<>>, g, p) /\ Alone(g.at)
  /\ Reaches(NewGame, 0, FALSE, cs, g, lost)
  /\ Reaches(p, up, TRUE, cs, g, lost)

Here(cs) == [k \in 0..0 |-> Len(cs)]
Now(g) == [k \in 0..0 |-> Board(g)]

LEMMA EmptyStack == <<>> \in Stacks /\ Len(<<>>) = 0
  BY DEF Stacks

LEMMA SoundSettles ==
  ASSUME NEW cs, NEW up, NEW us, NEW g, NEW p, NEW lost, NEW P, NEW A,
         Sound(cs, up, us, g, p, lost, P, A)
  PROVE  Settled(cs, up, g, p, lost)
<1>1. Typed(cs, up, us, g, p) /\ Stepped(us, A) /\ A[Len(us)] = Board(g)
  BY DEF Sound
<1>2. us \in Stacks /\ g \in Games /\ Len(us) \in Nat
  BY <1>1, StackIs DEF Typed
<1>3. Alone(g.at)
  <2>1. Len(us) \in 0..Len(us)
    BY <1>2
  <2>2. Alone(Board(g).at)
    BY <1>1, <2>1 DEF Stepped
  <2> QED
    BY <1>2, <2>2, GameFields
<1>4. Typed(cs, up, <<>>, g, p)
  BY <1>1, EmptyStack DEF Typed
<1>5. Reaches(NewGame, 0, FALSE, cs, g, lost)
  <2>1. Follows(NewGame, 0, FALSE, cs, us, P, A, g, lost)
    BY DEF Sound
  <2> QED
    BY <2>1 DEF Follows, Reaches
<1>6. Reaches(p, up, TRUE, cs, g, lost)
  <2>1. Follows(p, up, TRUE, cs, us, P, A, g, lost)
    BY DEF Sound
  <2> QED
    BY <2>1 DEF Follows, Reaches
<1> QED
  BY <1>3, <1>4, <1>5, <1>6 DEF Settled

LEMMA FollowsSettled ==
  ASSUME NEW cs, Len(cs) \in Nat, NEW g \in Games, NEW g0, NEW lo, NEW skip, NEW lost,
         Reaches(g0, lo, skip, cs, g, lost)
  PROVE  Follows(g0, lo, skip, cs, <<>>, Here(cs), Now(g), g, lost)
<1>1. PICK Q : Chain(Q, g0, cs, Exec(cs, lo, skip)) /\ Alike(Q[Len(cs)], g, lost)
  BY DEF Reaches
<1>2. Q[Len(cs)] \in Games
  <2>1. Q \in [0..Len(cs) -> Games] /\ Len(cs) \in 0..Len(cs)
    BY <1>1 DEF Chain
  <2> QED
    BY <2>1
<1>3. Board(Q[Len(cs)]) = Board(g)
  BY <1>1, <1>2 DEF Alike, Board
<1>4. ASSUME NEW k \in 0..Len(<<>>), NEW j \in 0..Len(cs), Belongs(<<>>, Here(cs), k, j)
      PROVE  Board(Q[j]) = Now(g)[k]
  <2>1. k = 0 /\ k \in 0..0
    BY EmptyStack
  <2>2. Here(cs)[k] = Len(cs) /\ Now(g)[k] = Board(g)
    BY <2>1 DEF Here, Now
  <2>3. j = Len(cs)
    BY <1>4, <2>2 DEF Belongs
  <2> QED
    BY <1>3, <2>2, <2>3
<1> QED
  BY <1>1, <1>4 DEF Follows

LEMMA SettledSound ==
  ASSUME NEW cs, NEW up, NEW g, NEW p, NEW lost, Settled(cs, up, g, p, lost)
  PROVE  Sound(cs, up, <<>>, g, p, lost, Here(cs), Now(g))
<1>1. /\ Typed(cs, up, <<>>, g, p) /\ Alone(g.at)
      /\ Reaches(NewGame, 0, FALSE, cs, g, lost) /\ Reaches(p, up, TRUE, cs, g, lost)
  BY DEF Settled
<1>2. cs \in Seq(Orders) /\ up \in 0..Len(cs) /\ g \in Games /\ Len(cs) \in Nat
  BY <1>1 DEF Typed
<1>3. Here(cs)[0] = Len(cs) /\ Now(g)[0] = Board(g)
  BY DEF Here, Now
<1>4. Paired(cs, up, <<>>, Here(cs))
  <2>1. \A k \in 0..Len(<<>>) : k = 0
    BY EmptyStack
  <2>2. \A k \in 1..Len(<<>>) : FALSE
    BY EmptyStack
  <2>3. Here(cs)[0] \in up..Len(cs)
    BY <1>2, <1>3
  <2>4. \A k \in 0..Len(<<>>) : Here(cs)[k] \in up..Len(cs)
    BY <2>1, <2>3
  <2>5. \A k, l \in 0..Len(<<>>) : k < l => Here(cs)[k] < Here(cs)[l]
    BY <2>1
  <2>6. \A k \in 1..Len(<<>>) : cs[Here(cs)[k]] = <<>>[k].command
    BY <2>2
  <2> QED
    BY <2>4, <2>5, <2>6 DEF Paired
<1>5. Stepped(<<>>, Now(g))
  <2>1. \A k \in 0..Len(<<>>) : k = 0
    BY EmptyStack
  <2>2. \A k \in 1..Len(<<>>) : FALSE
    BY EmptyStack
  <2>3. Now(g)[0] \in Boards /\ Alone(Now(g)[0].at)
    BY <1>1, <1>2, <1>3, GameFields
  <2>4. \A k \in 0..Len(<<>>) : Now(g)[k] \in Boards /\ Alone(Now(g)[k].at)
    BY <2>1, <2>3
  <2>5. \A k \in 1..Len(<<>>) : /\ BoardStep(Now(g)[k - 1], <<>>[k].command, Now(g)[k])
                                /\ ~<<>>[k].command.sent
    BY <2>2
  <2> QED
    BY <2>4, <2>5 DEF Stepped
<1>6. Calm(cs, <<>>, Here(cs), Now(g))
  <2> SUFFICES ASSUME NEW k \in 0..Len(<<>>), NEW j \in 1..Len(cs), Here(cs)[k] # j,
                      Belongs(<<>>, Here(cs), k, j)
               PROVE  FALSE
    BY DEF Calm
  <2>1. Here(cs)[k] = Len(cs)
    BY EmptyStack DEF Here
  <2>2. Len(cs) <= j
    BY <2>1 DEF Belongs
  <2> QED
    BY <1>2, <2>1, <2>2
<1>7. Follows(NewGame, 0, FALSE, cs, <<>>, Here(cs), Now(g), g, lost)
  BY <1>1, <1>2, FollowsSettled
<1>8. Follows(p, up, TRUE, cs, <<>>, Here(cs), Now(g), g, lost)
  BY <1>1, <1>2, FollowsSettled
<1>9. Now(g)[Len(<<>>)] = Board(g)
  BY <1>3, EmptyStack
<1> QED
  BY <1>1, <1>4, <1>5, <1>6, <1>7, <1>8, <1>9 DEF Sound

\* Commands that change nothing of the game.
Idle == {"fight", "seed", "choice", "start", "update_shroud"}

LEMMA IdleExecutes ==
  ASSUME NEW g, NEW c, c.kind \in Idle
  PROVE  Execute(g, c) = g
  BY DEF Execute, Idle

LEMMA ReachesIdle ==
  ASSUME NEW cs \in Seq(Orders), NEW c \in Orders, c.kind \in Idle, NEW lo \in Nat, lo <= Len(cs),
         NEW skip, NEW g0, NEW g, NEW lost, Reaches(g0, lo, skip, cs, g, lost)
  PROVE  Reaches(g0, lo, skip, Append(cs, c), g, lost)
<1>1. PICK Q : Chain(Q, g0, cs, Exec(cs, lo, skip)) /\ Alike(Q[Len(cs)], g, lost)
  BY DEF Reaches
<1>2. PICK R : ChainMore(R, Q, g0, cs, c, lo, skip)
  BY <1>1, ChainGrows
<1>3. /\ Chain(R, g0, Append(cs, c), Exec(Append(cs, c), lo, skip))
      /\ R[Len(cs) + 1] = IF skip /\ c.sent THEN Q[Len(cs)] ELSE Execute(Q[Len(cs)], c)
  BY <1>2 DEF ChainMore
<1>4. R[Len(cs) + 1] = Q[Len(cs)]
  BY <1>3, IdleExecutes
<1>5. Len(Append(cs, c)) = Len(cs) + 1
  BY AppendIs
<1>6. Alike(R[Len(Append(cs, c))], g, lost)
  BY <1>1, <1>4, <1>5
<1> QED
  BY <1>3, <1>6 DEF Reaches

LEMMA SettledIdle ==
  ASSUME NEW cs, NEW up, NEW g, NEW p, NEW lost, Settled(cs, up, g, p, lost),
         NEW c \in Orders, c.kind \in Idle
  PROVE  Settled(Append(cs, c), up, g, p, lost)
<1>1. /\ Typed(cs, up, <<>>, g, p) /\ Alone(g.at)
      /\ Reaches(NewGame, 0, FALSE, cs, g, lost) /\ Reaches(p, up, TRUE, cs, g, lost)
  BY DEF Settled
<1>2. /\ cs \in Seq(Orders) /\ up \in 0..Len(cs) /\ Len(cs) \in Nat /\ up \in Nat
      /\ up <= Len(cs) /\ 0 <= Len(cs)
  BY <1>1 DEF Typed
<1>3. Append(cs, c) \in Seq(Orders) /\ up \in 0..Len(Append(cs, c))
  BY <1>2, AppendIs
<1>4. Typed(Append(cs, c), up, <<>>, g, p)
  BY <1>1, <1>3 DEF Typed
<1>5. Reaches(NewGame, 0, FALSE, Append(cs, c), g, lost)
  BY <1>1, <1>2, ReachesIdle
<1>6. Reaches(p, up, TRUE, Append(cs, c), g, lost)
  BY <1>1, <1>2, ReachesIdle
<1> QED
  BY <1>1, <1>4, <1>5, <1>6 DEF Settled

\* What is unsent is what commit_and_sync sends.
LEMMA UnsentIs ==
  ASSUME NEW cs, Len(cs) \in Nat, NEW up \in Nat
  PROVE  Unsent(cs, up) = Kept(cs, Exec(cs, up, TRUE))
<1>1. {i \in up+1..Len(cs) : ~cs[i].sent} = Exec(cs, up, TRUE)
  BY DEF Exec
<1> QED
  BY <1>1 DEF Unsent

LEMMA ReachesSent ==
  ASSUME NEW cs \in Seq(Orders), NEW up \in Nat, NEW g \in Games, NEW p \in Games, OwnNames(p),
         NEW lost, Reaches(p, up, TRUE, cs, g, lost)
  PROVE  LET q == Run(p, Unsent(cs, up))
         IN  q \in Games /\ OwnNames(q) /\ Alike(q, g, lost)
<1>1. PICK Q : Chain(Q, p, cs, Exec(cs, up, TRUE)) /\ Alike(Q[Len(cs)], g, lost)
  BY DEF Reaches
<1>2. Len(cs) \in Nat /\ Len(cs) \in 0..Len(cs)
  OBVIOUS
<1>3. Run(p, Unsent(cs, up)) = Q[Len(cs)]
  BY <1>1, <1>2, UnsentIs, RunOfKept
<1>4. Q[Len(cs)] \in Games /\ OwnNames(Q[Len(cs)])
  BY <1>1, <1>2, ChainTyped
<1> QED
  BY <1>1, <1>3, <1>4

\* Who has what was sent is where the game is.
LEMMA ReachesNow ==
  ASSUME NEW cs, Len(cs) \in Nat, NEW lo, lo = Len(cs), NEW skip, NEW q \in Games, NEW g,
         NEW lost, Alike(q, g, lost)
  PROVE  Reaches(q, lo, skip, cs, g, lost)
<1> DEFINE Q == [i \in 0..Len(cs) |-> q]
<1>1. Q \in [0..Len(cs) -> Games] /\ Q[0] = q /\ Q[Len(cs)] = q
  OBVIOUS
<1>2. Exec(cs, lo, skip) = {}
  BY DEF Exec
<1>3. \A i \in 1..Len(cs) : Q[i] = Q[i - 1]
  OBVIOUS
<1> HIDE DEF Q
<1>4. Chain(Q, q, cs, Exec(cs, lo, skip))
  BY <1>1, <1>2, <1>3 DEF Chain
<1> QED
  BY <1>1, <1>4 DEF Reaches

LEMMA SettledSends ==
  ASSUME NEW cs, NEW up, NEW g, NEW p, NEW lost, Settled(cs, up, g, p, lost)
  PROVE  Settled(cs, Len(cs), g, Run(p, Unsent(cs, up)), lost)
<1> DEFINE q == Run(p, Unsent(cs, up))
<1>1. /\ Typed(cs, up, <<>>, g, p) /\ Alone(g.at)
      /\ Reaches(NewGame, 0, FALSE, cs, g, lost) /\ Reaches(p, up, TRUE, cs, g, lost)
  BY DEF Settled
<1>2. /\ cs \in Seq(Orders) /\ up \in Nat /\ g \in Games /\ p \in Games /\ OwnNames(p)
      /\ Len(cs) \in Nat /\ Len(cs) \in 0..Len(cs)
  BY <1>1 DEF Typed
<1>3. q \in Games /\ OwnNames(q) /\ Alike(q, g, lost)
  BY <1>1, <1>2, ReachesSent
<1> HIDE DEF q
<1>4. Reaches(q, Len(cs), TRUE, cs, g, lost)
  BY <1>2, <1>3, ReachesNow
<1>5. Typed(cs, Len(cs), <<>>, g, q)
  BY <1>1, <1>2, <1>3 DEF Typed
<1>6. Settled(cs, Len(cs), g, q, lost)
  BY <1>1, <1>4, <1>5 DEF Settled
<1> QED
  BY <1>6 DEF q

\* ... and the answer of the server comes as sent.
LEMMA SettledAnswered ==
  ASSUME NEW cs, NEW g, NEW p, NEW lost, Settled(cs, Len(cs), g, p, lost),
         NEW c \in Orders, c.kind \in Idle, c.sent
  PROVE  Settled(Append(cs, c), Len(Append(cs, c)), g, p, lost)
<1> DEFINE t == Append(cs, c)
<1>1. Settled(t, Len(cs), g, p, lost)
  BY SettledIdle
<1>2. Typed(t, Len(cs), <<>>, g, p) /\ Alone(g.at) /\ Reaches(NewGame, 0, FALSE, t, g, lost)
  BY <1>1 DEF Settled
<1>3. Typed(cs, Len(cs), <<>>, g, p) /\ Reaches(p, Len(cs), TRUE, cs, g, lost)
  BY DEF Settled
<1>4. t \in Seq(Orders) /\ cs \in Seq(Orders) /\ Len(cs) \in Nat /\ p \in Games /\ Len(t) \in Nat
      /\ Len(t) \in 0..Len(t)
  BY <1>2, <1>3 DEF Typed
<1>5. Alike(p, g, lost)
  <2>1. PICK Q : Chain(Q, p, cs, Exec(cs, Len(cs), TRUE)) /\ Alike(Q[Len(cs)], g, lost)
    BY <1>3 DEF Reaches
  <2> DEFINE H == {i \in 0..Len(cs) : Q[i] = p}
  <2>2. 0 \in H
    BY <1>4, <2>1 DEF Chain
  <2>3. Exec(cs, Len(cs), TRUE) = {}
    BY <1>4 DEF Exec
  <2>4. \A i \in 0..Len(cs) : i # 0 /\ i - 1 \in H => i \in H
    <3> SUFFICES ASSUME NEW i \in 0..Len(cs), i # 0, i - 1 \in H PROVE i \in H
      OBVIOUS
    <3>1. i \in 1..Len(cs)
      BY <1>4
    <3>2. Q[i] = Q[i - 1]
      BY <2>1, <2>3, <3>1 DEF Chain
    <3> QED
      BY <3>2
  <2>5. \A i \in 0..Len(cs) : i \in H
    <3> HIDE DEF H
    <3> QED
      BY <1>4, <2>2, <2>4, UpFrom
  <2>6. Q[Len(cs)] = p
    BY <1>4, <2>5
  <2> QED
    BY <2>1, <2>6
<1> HIDE DEF t
<1>6. Reaches(p, Len(t), TRUE, t, g, lost)
  BY <1>4, <1>5, ReachesNow
<1>7. Typed(t, Len(t), <<>>, g, p)
  BY <1>2, <1>4 DEF Typed
<1>8. Settled(t, Len(t), g, p, lost)
  BY <1>2, <1>6, <1>7 DEF Settled
<1> QED
  BY <1>8 DEF t

-----------------------------------------------------------------------------
(* Messages.                                                                 *)

\* The game, with so many messages.
Saying(g, n) == [g EXCEPT !.said = n]

LEMMA SayingFields ==
  ASSUME NEW g \in Games, NEW n \in Nat
  PROVE  /\ Saying(g, n) \in Games /\ Board(Saying(g, n)) = Board(g)
         /\ Saying(g, n).at = g.at /\ Saying(g, n).name = g.name
         /\ Saying(g, n).auto = g.auto /\ Saying(g, n).said = n
         /\ OwnNames(g) => OwnNames(Saying(g, n))
<1>1. /\ g.at \in [Units -> Places] /\ g.name \in [Units -> Names]
      /\ g.said \in Nat /\ g.auto \in BOOLEAN
      /\ g = [at |-> g.at, name |-> g.name, said |-> g.said, auto |-> g.auto]
  BY GameFields
<1>2. Saying(g, n) = [at |-> g.at, name |-> g.name, said |-> n, auto |-> g.auto]
  BY <1>1 DEF Saying
<1>3. Saying(g, n) \in Games
  BY <1>1, <1>2 DEF Games, Places
<1> QED
  BY <1>2, <1>3 DEF Board, OwnNames

LEMMA SameGame ==
  ASSUME NEW g \in Games, NEW h \in Games,
         g.at = h.at, g.name = h.name, g.said = h.said, g.auto = h.auto
  PROVE  g = h
  BY GameFields

\* How many were written does not matter to a command.
LEMMA SayingExecutes ==
  ASSUME NEW g \in Games, NEW c \in Orders, NEW n \in Nat
  PROVE  Execute(Saying(g, n), c)
           = Saying(Execute(g, c), IF c.kind = "speak" THEN n + 1 ELSE n)
<1> DEFINE h == Saying(g, n)
           m == IF c.kind = "speak" THEN n + 1 ELSE n
           x == Execute(h, c)
           y == Saying(Execute(g, c), m)
<1>1. /\ h \in Games /\ h.at = g.at /\ h.name = g.name /\ h.auto = g.auto /\ h.said = n
  BY SayingFields
<1>2. Execute(g, c) \in Games /\ m \in Nat
  BY ExecuteTyped
<1>3. /\ y \in Games /\ y.at = Execute(g, c).at /\ y.name = Execute(g, c).name
      /\ y.auto = Execute(g, c).auto /\ y.said = m
  <2> HIDE DEF m
  <2> QED
    BY <1>2, SayingFields
<1> HIDE DEF h, y
<1>4. x \in Games
  BY <1>1, ExecuteTyped
<1>f. /\ x.at \in [Units -> Places] /\ y.at \in [Units -> Places]
      /\ x.name \in [Units -> Names] /\ y.name \in [Units -> Names]
  <2> HIDE DEF x
  <2> QED
    BY <1>3, <1>4, GameFields
<1>u. ASSUME NEW u \in Units PROVE x.at[u] = y.at[u] /\ x.name[u] = y.name[u]
  <2>1. /\ x.at[u] = IF c.kind \in {"recruit", "recall", "disband"} /\ u = c.unit THEN Goal(c)
                     ELSE IF c.kind = "move" /\ h.at[u] = c.at THEN c.to ELSE h.at[u]
        /\ x.name[u] = IF c.kind = "recruit" /\ u = c.unit THEN "own"
                       ELSE IF c.kind = "rename" /\ h.at[u] = c.at THEN c.name ELSE h.name[u]
    BY <1>1, ExecutedUnit
  <2>2. /\ Execute(g, c).at[u] =
              IF c.kind \in {"recruit", "recall", "disband"} /\ u = c.unit THEN Goal(c)
              ELSE IF c.kind = "move" /\ g.at[u] = c.at THEN c.to ELSE g.at[u]
        /\ Execute(g, c).name[u] =
              IF c.kind = "recruit" /\ u = c.unit THEN "own"
              ELSE IF c.kind = "rename" /\ g.at[u] = c.at THEN c.name ELSE g.name[u]
    BY ExecutedUnit
  <2> HIDE DEF x
  <2>3. x.at[u] = y.at[u]
    BY <1>1, <1>3, <2>1, <2>2
  <2>4. x.name[u] = y.name[u]
    BY <1>1, <1>3, <2>1, <2>2
  <2> QED
    BY <2>3, <2>4
<1>5. x.at = y.at
  <2> HIDE DEF x
  <2> QED
    BY <1>f, <1>u
<1>6. x.name = y.name
  <2> HIDE DEF x
  <2> QED
    BY <1>f, <1>u
<1>7. x.said = y.said
  BY <1>1, <1>3, Executed
<1>8. x.auto = y.auto
  BY <1>1, <1>3, Executed
<1>9. x = y
  <2> HIDE DEF x
  <2> QED
    BY <1>3, <1>4, <1>5, <1>6, <1>7, <1>8, SameGame
<1> QED
  BY <1>9 DEF h, y

LEMMA SpeakIs ==
  ASSUME NEW g \in Games, NEW c, c.kind = "speak"
  PROVE  Execute(g, c) = Saying(g, g.said + 1)
  BY DEF Execute, Saying

LEMMA SaidAfter ==
  ASSUME NEW g \in Games, NEW c \in Orders
  PROVE  Execute(g, c).said = IF c.kind = "speak" THEN g.said + 1 ELSE g.said
  BY Executed

LEMMA LouderExecutes ==
  ASSUME NEW x \in Games, NEW d \in Orders
  PROVE  Execute(Saying(x, x.said + 1), d) = Saying(Execute(x, d), Execute(x, d).said + 1)
<1>1. x.said \in Nat /\ x.said + 1 \in Nat
  BY GameFields
<1>2. Execute(x, d).said = IF d.kind = "speak" THEN x.said + 1 ELSE x.said
  BY Executed
<1>3. Execute(Saying(x, x.said + 1), d)
        = Saying(Execute(x, d), IF d.kind = "speak" THEN x.said + 1 + 1 ELSE x.said + 1)
  BY <1>1, SayingExecutes
<1>4. CASE d.kind = "speak"
  BY <1>2, <1>3, <1>4
<1>5. CASE d.kind # "speak"
  BY <1>2, <1>3, <1>5
<1> QED
  BY <1>4, <1>5

\* Another player's message reaches everyone at once.
LEMMA FollowsReceived ==
  ASSUME NEW cs \in Seq(Orders), NEW up \in Nat, up <= Len(cs), NEW us, Len(us) \in Nat,
         NEW P, NEW A, Paired(cs, up, us, P), NEW c \in Orders, c.kind = "speak", c.sent,
         NEW p \in Games, OwnNames(p), NEW g \in Games, NEW lost,
         Follows(p, up, TRUE, cs, us, P, A, g, lost)
  PROVE  Follows(Execute(p, c), up, TRUE, Append(cs, c), us, P, A, Execute(g, c), lost)
<1> DEFINE t == Append(cs, c)
           N == Len(cs)
           E == Exec(cs, up, TRUE)
<1>1. N \in Nat /\ N \in 0..N /\ Len(t) = N + 1
  BY AppendIs
<1>2. PICK Q : /\ Chain(Q, p, cs, E)
               /\ \A k \in 0..Len(us), j \in 0..N : Belongs(us, P, k, j) => Board(Q[j]) = A[k]
               /\ Alike(Q[N], g, lost)
  BY DEF Follows
<1> DEFINE W == [i \in 0..N |-> Saying(Q[i], Q[i].said + 1)]
<1>3. /\ Q \in [0..N -> Games] /\ Q[0] = p
      /\ \A i \in 1..N : Q[i] = IF i \in E THEN Execute(Q[i - 1], cs[i]) ELSE Q[i - 1]
  BY <1>2 DEF Chain
<1>4. \A i \in 0..N : Q[i] \in Games /\ Q[i].said \in Nat /\ Q[i].said + 1 \in Nat
  BY <1>3, GameFields
<1>5. \A i \in 0..N : W[i] = Saying(Q[i], Q[i].said + 1) /\ W[i] \in Games
  BY <1>4, SayingFields
<1>6. W \in [0..N -> Games]
  BY <1>5
<1> HIDE DEF W, E, t
<1>7. W[0] = Execute(p, c)
  BY <1>1, <1>3, <1>5, SpeakIs
<1>8. ASSUME NEW i \in 1..N
      PROVE  W[i] = IF i \in E THEN Execute(W[i - 1], cs[i]) ELSE W[i - 1]
  <2>1. i \in 0..N /\ i - 1 \in 0..N /\ cs[i] \in Orders
    BY <1>1
  <2>2. CASE i \in E
    <3>1. Q[i] = Execute(Q[i - 1], cs[i])
      BY <1>3, <2>2
    <3>2. W[i - 1] = Saying(Q[i - 1], Q[i - 1].said + 1) /\ Q[i - 1] \in Games
      BY <1>4, <1>5, <2>1
    <3>3. Execute(W[i - 1], cs[i]) = Saying(Q[i], Q[i].said + 1)
      BY <2>1, <3>1, <3>2, LouderExecutes
    <3> QED
      BY <1>5, <2>1, <2>2, <3>3
  <2>3. CASE i \notin E
    BY <1>3, <1>5, <2>1, <2>3
  <2> QED
    BY <2>2, <2>3
<1>9. Chain(W, Execute(p, c), cs, Exec(cs, up, TRUE))
  BY <1>6, <1>7, <1>8 DEF Chain, E
<1>10. PICK R : ChainMore(R, W, Execute(p, c), cs, c, up, TRUE)
  BY <1>9, ChainGrows
<1>11. /\ Chain(R, Execute(p, c), t, Exec(t, up, TRUE))
       /\ \A i \in 0..N : R[i] = W[i]
       /\ R[N + 1] = W[N]
  BY <1>10 DEF ChainMore, t
<1>12. \A i \in 0..N : Board(W[i]) = Board(Q[i])
  <2> SUFFICES ASSUME NEW i \in 0..N PROVE Board(W[i]) = Board(Q[i])
    OBVIOUS
  <2>1. Q[i] \in Games /\ Q[i].said + 1 \in Nat /\ W[i] = Saying(Q[i], Q[i].said + 1)
    BY <1>4, <1>5
  <2>2. Board(Saying(Q[i], Q[i].said + 1)) = Board(Q[i])
    BY <2>1, SayingFields
  <2> QED
    BY <2>1, <2>2
<1>13. Alike(R[N + 1], Execute(g, c), lost)
  <2>1. Execute(Q[N], c) = W[N]
    BY <1>1, <1>4, <1>5, SpeakIs
  <2>2. Alike(Execute(Q[N], c), Execute(g, c), lost)
    BY <1>1, <1>2, <1>4, AlikeExecutes
  <2> QED
    BY <1>11, <2>1, <2>2
<1>14. ASSUME NEW k \in 0..Len(us), NEW j \in 0..N+1, Belongs(us, P, k, j)
       PROVE  Board(R[j]) = A[k]
  <2>1. CASE j \in 0..N
    BY <1>2, <1>11, <1>12, <1>14, <2>1
  <2>2. CASE j = N + 1
    <3>1. j \in Nat /\ j > N
      BY <1>1, <2>2
    <3>2. k = Len(us)
      BY <1>1, <1>14, <3>1, BelongsEnd
    <3>3. Belongs(us, P, Len(us), N)
      BY <1>1, BelongsEnd
    <3>4. Board(Q[N]) = A[k]
      BY <1>1, <1>2, <3>2, <3>3
    <3> QED
      BY <1>1, <1>11, <1>12, <2>2, <3>4
  <2> QED
    BY <1>1, <2>1, <2>2
<1>15. Follows(Execute(p, c), up, TRUE, t, us, P, A, Execute(g, c), lost)
  BY <1>1, <1>11, <1>13, <1>14 DEF Follows
<1> QED
  BY <1>15 DEF t

LEMMA AppendReceived ==
  ASSUME NEW cs, NEW up, NEW us, NEW g, NEW p, NEW lost, NEW P, NEW A,
         Sound(cs, up, us, g, p, lost, P, A), NEW c \in Orders, c.kind = "speak", c.sent
  PROVE  Sound(Append(cs, c), up, us, Execute(g, c), Execute(p, c), lost, P, A)
<1>1. /\ cs \in Seq(Orders) /\ up \in 0..Len(cs) /\ us \in Stacks
      /\ g \in Games /\ OwnNames(g) /\ p \in Games /\ OwnNames(p)
      /\ Paired(cs, up, us, P) /\ Stepped(us, A) /\ Calm(cs, us, P, A)
      /\ Follows(NewGame, 0, FALSE, cs, us, P, A, g, lost)
      /\ Follows(p, up, TRUE, cs, us, P, A, g, lost) /\ A[Len(us)] = Board(g)
  BY DEF Sound, Typed
<1>2. Len(us) \in Nat /\ Len(cs) \in Nat /\ up \in Nat /\ up <= Len(cs) /\ 0 \in Nat /\ 0 <= Len(cs)
  BY <1>1, StackIs
<1>3. Quiet(c, A[Len(us)], After(us, Len(us)))
  BY DEF Quiet
<1>4. Follows(NewGame, 0, FALSE, Append(cs, c), us, P, A, Execute(g, c), lost)
  BY <1>1, <1>2, FollowsQuiet, NewGameTyped
<1>5. Follows(Execute(p, c), up, TRUE, Append(cs, c), us, P, A, Execute(g, c), lost)
  BY <1>1, <1>2, FollowsReceived
<1>6. Paired(Append(cs, c), up, us, P) /\ Calm(Append(cs, c), us, P, A)
  BY <1>1, <1>2, <1>3, PairedQuiet
<1>7. Append(cs, c) \in Seq(Orders) /\ up \in 0..Len(Append(cs, c))
  BY <1>1, <1>2, AppendIs
<1>8. Execute(g, c) \in Games /\ OwnNames(Execute(g, c)) /\ Board(Execute(g, c)) = Board(g)
  BY <1>1, ExecuteTyped, OwnNamesKept, QuietExecutes
<1>9. Execute(p, c) \in Games /\ OwnNames(Execute(p, c))
  BY <1>1, ExecuteTyped, OwnNamesKept
<1>10. Typed(Append(cs, c), up, us, Execute(g, c), Execute(p, c))
  BY <1>1, <1>7, <1>8, <1>9 DEF Typed
<1> QED
  BY <1>1, <1>4, <1>5, <1>6, <1>8, <1>10 DEF Sound

AsSent(d) == [d EXCEPT !.sent = TRUE]

LEMMA AsSentFields ==
  ASSUME NEW d \in Orders
  PROVE  AsSent(d) \in Orders /\ AsSent(d).sent /\ AsSent(d).kind = d.kind
<1> DEFINE e == AsSent(d)
<1>1. d \in Commands
  BY DEF Orders
<1>2. e \in Commands
  BY <1>1 DEF AsSent, Commands
<1>3. e.kind = d.kind /\ e.unit = d.unit /\ e.at = d.at /\ e.to = d.to /\ e.name = d.name
  BY <1>1 DEF AsSent, Commands
<1>5. e.sent
  BY <1>1 DEF AsSent, Commands
<1> HIDE DEF e
<1>4. e \in Orders
  BY <1>2, <1>3, OrderFields DEF Orders
<1> QED
  BY <1>3, <1>4, <1>5 DEF e

LEMMA MarkedIs ==
  ASSUME NEW cs \in Seq(Orders), NEW up \in Nat
  PROVE  /\ Marked(cs, up) \in Seq(Orders) /\ Len(Marked(cs, up)) = Len(cs)
         /\ \A j \in 1..Len(cs) :
              /\ ~(j > up /\ cs[j].kind = "speak") => Marked(cs, up)[j] = cs[j]
              /\ j > up /\ cs[j].kind = "speak" => Marked(cs, up)[j].sent
              /\ Marked(cs, up)[j].kind = cs[j].kind
<1> DEFINE m(j) == IF j > up /\ ~Undoable(cs[j]) THEN AsSent(cs[j]) ELSE cs[j]
<1>1. Len(cs) \in Nat /\ DOMAIN cs = 1..Len(cs) /\ \A j \in 1..Len(cs) : cs[j] \in Orders
  OBVIOUS
<1>2. \A d \in Orders : AsSent(d) \in Orders /\ AsSent(d).sent /\ AsSent(d).kind = d.kind
  BY AsSentFields
<1>3. \A j \in 1..Len(cs) : m(j) \in Orders
  BY <1>1, <1>2
<1>4. Marked(cs, up) = [j \in 1..Len(cs) |-> m(j)]
  BY <1>1 DEF Marked, AsSent
<1>5. \A j \in 1..Len(cs) : Marked(cs, up)[j] = m(j)
  BY <1>4
<1>6. Marked(cs, up) \in [1..Len(cs) -> Orders]
  <2> HIDE DEF m
  <2> QED
    BY <1>3, <1>4
<1>7. Marked(cs, up) \in Seq(Orders) /\ Len(Marked(cs, up)) = Len(cs)
  BY <1>1, <1>6
<1>8. ASSUME NEW j \in 1..Len(cs)
      PROVE  /\ ~(j > up /\ cs[j].kind = "speak") => Marked(cs, up)[j] = cs[j]
             /\ j > up /\ cs[j].kind = "speak" => Marked(cs, up)[j].sent
             /\ Marked(cs, up)[j].kind = cs[j].kind
  <2>1. Undoable(cs[j]) <=> cs[j].kind # "speak"
    BY DEF Undoable
  <2>2. CASE j > up /\ cs[j].kind = "speak"
    BY <1>1, <1>2, <1>5, <2>1, <2>2
  <2>3. CASE ~(j > up /\ cs[j].kind = "speak")
    BY <1>5, <2>1, <2>3
  <2> QED
    BY <2>2, <2>3
<1> QED
  BY <1>7, <1>8

\* To be marked as sent changes nothing for who runs the whole record.
LEMMA FollowsMarked ==
  ASSUME NEW cs \in Seq(Orders), NEW up \in Nat, NEW us, NEW P, NEW A, NEW g0, NEW g, NEW lost,
         Follows(g0, 0, FALSE, cs, us, P, A, g, lost)
  PROVE  Follows(g0, 0, FALSE, Marked(cs, up), us, P, A, g, lost)
<1> DEFINE t == Marked(cs, up)
           N == Len(cs)
<1>1. PICK Q : /\ Chain(Q, g0, cs, Exec(cs, 0, FALSE))
               /\ \A k \in 0..Len(us), j \in 0..N : Belongs(us, P, k, j) => Board(Q[j]) = A[k]
               /\ Alike(Q[N], g, lost)
  BY DEF Follows
<1>2. Len(t) = N /\ \A j \in 1..N : /\ cs[j].kind # "speak" => t[j] = cs[j]
                                    /\ t[j].kind = cs[j].kind
  BY MarkedIs
<1> HIDE DEF t
<1>3. Exec(cs, 0, FALSE) = 1..N /\ Exec(t, 0, FALSE) = 1..N
  BY <1>2 DEF Exec
<1>4. /\ Q \in [0..N -> Games] /\ Q[0] = g0
      /\ \A i \in 1..N : Q[i] = Execute(Q[i - 1], cs[i])
  BY <1>1, <1>3 DEF Chain
<1>5. ASSUME NEW i \in 1..N PROVE Q[i] = Execute(Q[i - 1], t[i])
  <2>1. CASE cs[i].kind = "speak"
    <3>1. Q[i - 1] \in Games
      BY <1>4
    <3> QED
      BY <1>2, <1>4, <2>1, <3>1, SpeakIs
  <2>2. CASE cs[i].kind # "speak"
    BY <1>2, <1>4, <2>2
  <2> QED
    BY <2>1, <2>2
<1>6. Chain(Q, g0, t, Exec(t, 0, FALSE))
  BY <1>2, <1>3, <1>4, <1>5 DEF Chain
<1>7. Follows(g0, 0, FALSE, t, us, P, A, g, lost)
  BY <1>1, <1>2, <1>6 DEF Follows
<1> QED
  BY <1>7 DEF t

LEMMA SayingTwice ==
  ASSUME NEW g \in Games, NEW m, NEW n
  PROVE  Saying(Saying(g, m), n) = Saying(g, n) /\ Saying(g, g.said) = g
  BY GameFields DEF Saying

FinalOnes(cs, up) == {i \in up+1..Len(cs) : ~cs[i].sent /\ ~Undoable(cs[i])}

\* Messages change nothing but how many there are.
LEMMA FinalRuns ==
  ASSUME NEW cs \in Seq(Orders), NEW up \in Nat, NEW p \in Games,
         NEW Q, Chain(Q, p, cs, Exec(cs, up, TRUE)),
         NEW W, Chain(W, p, cs, FinalOnes(cs, up))
  PROVE  W[Len(cs)] = Saying(p, Q[Len(cs)].said)
<1> DEFINE N == Len(cs)
<1>c. N \in Nat
  OBVIOUS
<1>a. /\ Q \in [0..N -> Games] /\ Q[0] = p
      /\ \A i \in 1..N : Q[i] = IF i \in Exec(cs, up, TRUE) THEN Execute(Q[i - 1], cs[i]) ELSE Q[i - 1]
  BY DEF Chain
<1>b. /\ W \in [0..N -> Games] /\ W[0] = p
      /\ \A i \in 1..N : W[i] = IF i \in FinalOnes(cs, up) THEN Execute(W[i - 1], cs[i]) ELSE W[i - 1]
  BY DEF Chain
<1>1. /\ N \in Nat /\ Q \in [0..N -> Games] /\ Q[0] = p /\ W \in [0..N -> Games] /\ W[0] = p
      /\ \A i \in 1..N : Q[i] = IF i \in Exec(cs, up, TRUE) THEN Execute(Q[i - 1], cs[i]) ELSE Q[i - 1]
      /\ \A i \in 1..N : W[i] = IF i \in FinalOnes(cs, up) THEN Execute(W[i - 1], cs[i]) ELSE W[i - 1]
  BY <1>a, <1>b, <1>c
<1> DEFINE H == {i \in 0..N : W[i] = Saying(p, Q[i].said)}
<1>2. 0 \in H
  <2>1. W[0] = Saying(p, Q[0].said)
    BY <1>1, SayingTwice
  <2> QED
    BY <1>1, <2>1
<1>3. ASSUME NEW i \in 0..N, i # 0, i - 1 \in H PROVE i \in H
  <2>1. i \in 1..N /\ i - 1 \in 0..N /\ cs[i] \in Orders /\ Q[i - 1] \in Games
        /\ Q[i - 1].said \in Nat /\ W[i - 1] = Saying(p, Q[i - 1].said)
    BY <1>1, <1>3, GameFields
  <2>2. i \in FinalOnes(cs, up) <=> i \in Exec(cs, up, TRUE) /\ cs[i].kind = "speak"
    BY <1>1, <2>1 DEF FinalOnes, Exec, Undoable
  <2>3. CASE i \in FinalOnes(cs, up)
    <3>1. W[i] = Execute(W[i - 1], cs[i]) /\ Q[i] = Execute(Q[i - 1], cs[i]) /\ cs[i].kind = "speak"
      BY <1>1, <2>1, <2>2, <2>3
    <3>2. Q[i].said = Q[i - 1].said + 1
      BY <2>1, <3>1, SaidAfter
    <3>3. W[i - 1] \in Games /\ W[i - 1].said = Q[i - 1].said
      <4> DEFINE n == Q[i - 1].said
      <4>1. n \in Nat /\ W[i - 1] = Saying(p, n)
        BY <2>1
      <4> HIDE DEF n
      <4>2. Saying(p, n) \in Games /\ Saying(p, n).said = n
        BY <4>1, SayingFields
      <4>3. W[i - 1] \in Games /\ W[i - 1].said = n
        BY <4>1, <4>2
      <4> QED
        BY <4>3 DEF n
    <3>4. W[i] = Saying(W[i - 1], Q[i].said)
      BY <3>1, <3>2, <3>3, SpeakIs
    <3>5. W[i] = Saying(p, Q[i].said)
      BY <2>1, <3>4, SayingTwice
    <3> QED
      BY <1>3, <3>5
  <2>4. CASE i \notin FinalOnes(cs, up)
    <3>1. W[i] = W[i - 1]
      BY <1>1, <2>1, <2>4
    <3>2. Q[i].said = Q[i - 1].said
      <4>1. CASE i \in Exec(cs, up, TRUE)
        <5>1. Q[i] = Execute(Q[i - 1], cs[i]) /\ cs[i].kind # "speak"
          BY <1>1, <2>1, <2>2, <2>4, <4>1
        <5> QED
          BY <2>1, <5>1, SaidAfter
      <4>2. CASE i \notin Exec(cs, up, TRUE)
        BY <1>1, <2>1, <4>2
      <4> QED
        BY <4>1, <4>2
    <3> QED
      BY <1>3, <2>1, <3>1, <3>2
  <2> QED
    BY <2>3, <2>4
<1>4. \A i \in 0..N : i \in H
  <2>1. \A i \in 0..N : i # 0 /\ i - 1 \in H => i \in H
    BY <1>3
  <2> HIDE DEF H
  <2> QED
    BY <1>1, <1>2, <2>1, UpFrom
<1> QED
  BY <1>1, <1>4

\* What is final goes out, and the rest still leads where it led.
LEMMA FollowsFinal ==
  ASSUME NEW cs \in Seq(Orders), NEW up \in Nat, NEW us, NEW P, NEW A, NEW p \in Games,
         NEW g, NEW lost, Follows(p, up, TRUE, cs, us, P, A, g, lost)
  PROVE  /\ Follows(Run(p, Final(cs, up)), up, TRUE, Marked(cs, up), us, P, A, g, lost)
         /\ \E n \in Nat : Run(p, Final(cs, up)) = Saying(p, n)
<1> DEFINE t == Marked(cs, up)
           N == Len(cs)
           p2 == Run(p, Final(cs, up))
           n == p2.said
<1>1. PICK Q : /\ Chain(Q, p, cs, Exec(cs, up, TRUE))
               /\ \A k \in 0..Len(us), j \in 0..N : Belongs(us, P, k, j) => Board(Q[j]) = A[k]
               /\ Alike(Q[N], g, lost)
  BY DEF Follows
<1>2. PICK W : Chain(W, p, cs, FinalOnes(cs, up))
  BY ChainExists
<1>3. p2 = W[N]
  <2>1. Run(p, Kept(cs, FinalOnes(cs, up))) = W[Len(cs)]
    BY <1>2, RunOfKept
  <2>2. Final(cs, up) = Kept(cs, FinalOnes(cs, up))
    BY DEF Final, FinalOnes
  <2> QED
    BY <2>1, <2>2
<1>4. p2 = Saying(p, Q[N].said)
  <2>1. Chain(Q, p, cs, Exec(cs, up, TRUE))
    BY <1>1
  <2>2. W[Len(cs)] = Saying(p, Q[Len(cs)].said)
    BY <1>2, <2>1, FinalRuns
  <2> QED
    BY <1>3, <2>2
<1>5. /\ N \in Nat /\ Q \in [0..N -> Games] /\ Q[0] = p
      /\ \A i \in 1..N : Q[i] = IF i \in Exec(cs, up, TRUE) THEN Execute(Q[i - 1], cs[i]) ELSE Q[i - 1]
      /\ N \in 0..N
  <2>1. Chain(Q, p, cs, Exec(cs, up, TRUE))
    BY <1>1
  <2>2. /\ Q \in [0..N -> Games] /\ Q[0] = p
        /\ \A i \in 1..N : Q[i] = IF i \in Exec(cs, up, TRUE) THEN Execute(Q[i - 1], cs[i]) ELSE Q[i - 1]
    BY <2>1 DEF Chain
  <2>3. N \in Nat
    OBVIOUS
  <2>4. N \in 0..N
    BY <2>3
  <2> QED
    BY <2>2, <2>3, <2>4
<1>6. Q[N] \in Games /\ Q[N].said \in Nat
  BY <1>5, GameFields
<1> HIDE DEF p2
<1>7. n = Q[N].said /\ n \in Nat
  BY <1>4, <1>6, SayingFields
<1>8. /\ t \in Seq(Orders) /\ Len(t) = N
      /\ \A j \in 1..N : /\ ~(j > up /\ cs[j].kind = "speak") => t[j] = cs[j]
                         /\ j > up /\ cs[j].kind = "speak" => t[j].sent
  BY MarkedIs
<1> HIDE DEF t, n
<1> DEFINE R == [i \in 0..N |-> Saying(Q[i], n)]
<1>9. \A i \in 0..N : R[i] = Saying(Q[i], n) /\ R[i] \in Games /\ Board(R[i]) = Board(Q[i])
  <2> SUFFICES ASSUME NEW i \in 0..N
               PROVE  R[i] = Saying(Q[i], n) /\ R[i] \in Games /\ Board(R[i]) = Board(Q[i])
    OBVIOUS
  <2>1. Q[i] \in Games /\ R[i] = Saying(Q[i], n)
    BY <1>5
  <2> QED
    BY <1>7, <2>1, SayingFields
<1>10. R \in [0..N -> Games]
  BY <1>9
<1> HIDE DEF R
<1>11. R[0] = p2
  BY <1>4, <1>5, <1>7, <1>9
<1>12. ASSUME NEW i \in 1..N
       PROVE  R[i] = IF i \in Exec(t, up, TRUE) THEN Execute(R[i - 1], t[i]) ELSE R[i - 1]
  <2>1. i \in 0..N /\ i - 1 \in 0..N /\ cs[i] \in Orders /\ Q[i - 1] \in Games
    BY <1>5
  <2>2. i \in Exec(t, up, TRUE) <=> i \in Exec(cs, up, TRUE) /\ cs[i].kind # "speak"
    BY <1>8, <2>1 DEF Exec
  <2>3. CASE i \in Exec(t, up, TRUE)
    <3>1. Q[i] = Execute(Q[i - 1], cs[i]) /\ cs[i].kind # "speak" /\ t[i] = cs[i]
      BY <1>5, <1>8, <2>2, <2>3
    <3>2. Execute(Saying(Q[i - 1], n), cs[i]) = Saying(Execute(Q[i - 1], cs[i]), n)
      BY <1>7, <2>1, <3>1, SayingExecutes
    <3> QED
      BY <1>9, <2>1, <2>3, <3>1, <3>2
  <2>4. CASE i \notin Exec(t, up, TRUE)
    <3>1. CASE i \in Exec(cs, up, TRUE)
      <4>1. Q[i] = Execute(Q[i - 1], cs[i]) /\ cs[i].kind = "speak"
        BY <1>5, <2>2, <2>4, <3>1
      <4>2. Q[i] = Saying(Q[i - 1], Q[i - 1].said + 1)
        BY <2>1, <4>1, SpeakIs
      <4>3. Saying(Q[i], n) = Saying(Q[i - 1], n)
        BY <2>1, <4>2, SayingTwice
      <4> QED
        BY <1>9, <2>1, <2>4, <4>3
    <3>2. CASE i \notin Exec(cs, up, TRUE)
      BY <1>5, <1>9, <2>1, <2>4, <3>2
    <3> QED
      BY <3>1, <3>2
  <2> QED
    BY <2>3, <2>4
<1>13. Chain(R, p2, t, Exec(t, up, TRUE))
  BY <1>8, <1>10, <1>11, <1>12 DEF Chain
<1>14. R[N] = Q[N]
  BY <1>5, <1>6, <1>7, <1>9, SayingTwice
<1>15. Follows(p2, up, TRUE, t, us, P, A, g, lost)
  <2>1. \A k \in 0..Len(us), j \in 0..Len(t) : Belongs(us, P, k, j) => Board(R[j]) = A[k]
    BY <1>1, <1>8, <1>9
  <2>2. Alike(R[Len(t)], g, lost)
    BY <1>1, <1>8, <1>14
  <2> QED
    BY <1>13, <2>1, <2>2 DEF Follows
<1> QED
  BY <1>4, <1>6, <1>15 DEF p2, t

LEMMA SendMarked ==
  ASSUME NEW cs, NEW up, NEW us, NEW g, NEW p, NEW lost, NEW P, NEW A,
         Sound(cs, up, us, g, p, lost, P, A)
  PROVE  Sound(Marked(cs, up), up, us, g, Run(p, Final(cs, up)), lost, P, A)
<1> DEFINE t == Marked(cs, up)
           p2 == Run(p, Final(cs, up))
<1>1. /\ cs \in Seq(Orders) /\ up \in 0..Len(cs) /\ us \in Stacks
      /\ g \in Games /\ OwnNames(g) /\ p \in Games /\ OwnNames(p)
      /\ Paired(cs, up, us, P) /\ Stepped(us, A) /\ Calm(cs, us, P, A)
      /\ Follows(NewGame, 0, FALSE, cs, us, P, A, g, lost)
      /\ Follows(p, up, TRUE, cs, us, P, A, g, lost) /\ A[Len(us)] = Board(g)
  BY DEF Sound, Typed
<1>2. Len(us) \in Nat /\ Len(cs) \in Nat /\ up \in Nat
  BY <1>1, StackIs
<1>3. Follows(NewGame, 0, FALSE, t, us, P, A, g, lost)
  BY <1>1, <1>2, FollowsMarked
<1>4. /\ Follows(p2, up, TRUE, t, us, P, A, g, lost)
      /\ \E n \in Nat : p2 = Saying(p, n)
  <2>1. up \in Nat /\ p \in Games /\ cs \in Seq(Orders) /\ Follows(p, up, TRUE, cs, us, P, A, g, lost)
    BY <1>1, <1>2
  <2> QED
    BY <2>1, FollowsFinal
<1>5. /\ t \in Seq(Orders) /\ Len(t) = Len(cs)
      /\ \A j \in 1..Len(cs) : /\ ~(j > up /\ cs[j].kind = "speak") => t[j] = cs[j]
                               /\ t[j].kind = cs[j].kind
  BY <1>1, <1>2, MarkedIs
<1> HIDE DEF t, p2
<1>6. p2 \in Games /\ OwnNames(p2)
  BY <1>1, <1>4, SayingFields
<1>7. Typed(t, up, us, g, p2)
  BY <1>1, <1>5, <1>6 DEF Typed
<1>8. Paired(t, up, us, P)
  <2>1. /\ \A k \in 0..Len(us) : P[k] \in up..Len(cs)
        /\ \A k, l \in 0..Len(us) : k < l => P[k] < P[l]
        /\ \A k \in 1..Len(us) : cs[P[k]] = us[k].command
    BY <1>1 DEF Paired
  <2>2. ASSUME NEW k \in 1..Len(us) PROVE t[P[k]] = us[k].command
    <3>1. k \in 0..Len(us) /\ 0 \in 0..Len(us) /\ 0 < k
      OBVIOUS
    <3>2. P[0] < P[k] /\ P[0] \in up..Len(cs) /\ P[k] \in up..Len(cs)
      BY <2>1, <3>1
    <3>3. P[k] \in 1..Len(cs)
      BY <1>2, <3>2
    <3>4. BoardStep(A[k - 1], us[k].command, A[k])
      BY <1>1 DEF Stepped
    <3>5. us[k].command.kind # "speak"
      BY <3>4 DEF BoardStep, AtStep, Moving, Shroud
    <3> QED
      BY <1>5, <2>1, <3>3, <3>5
  <2> QED
    BY <1>5, <2>1, <2>2 DEF Paired
<1>9. Calm(t, us, P, A)
  <2> SUFFICES ASSUME NEW k \in 0..Len(us), NEW j \in 1..Len(t), P[k] # j, Belongs(us, P, k, j)
               PROVE  Quiet(t[j], A[k], After(us, k))
    BY DEF Calm
  <2>1. Quiet(cs[j], A[k], After(us, k)) /\ j \in 1..Len(cs)
    BY <1>1, <1>5 DEF Calm
  <2>2. CASE cs[j].kind = "speak"
    BY <1>5, <2>1, <2>2 DEF Quiet
  <2>3. CASE cs[j].kind # "speak"
    BY <1>5, <2>1, <2>3
  <2> QED
    BY <2>2, <2>3
<1>10. Sound(t, up, us, g, p2, lost, P, A)
  BY <1>1, <1>3, <1>4, <1>7, <1>8, <1>9 DEF Sound
<1> QED
  BY <1>10 DEF t, p2

-----------------------------------------------------------------------------
(* The shroud actions on top.                                                *)

\* The largest of some numbers, 0 if there is none.
LEMMA MaxOrZero ==
  ASSUME NEW N \in Nat, NEW T \in SUBSET (1..N)
  PROVE  LET n == Max({0} \cup T)
         IN  n \in 0..N /\ (n # 0 => n \in T) /\ \A y \in n+1..N : y \notin T
<1> DEFINE U == {0} \cup T
           n == Max(U)
<1>1. \A y \in T : y \in 1..N
  OBVIOUS
<1>2. U \in SUBSET Int
  BY <1>1
<1>3. CASE T = {}
  <2>1. 0 \in U /\ \A y \in U : y <= 0
    BY <1>3
  <2> HIDE DEF U
  <2>2. n = 0
    BY <1>2, <2>1, MaxIs
  <2> QED
    BY <1>3, <2>2 DEF U
<1>4. CASE T # {}
  <2> DEFINE m == Max(T)
  <2>1. m \in T /\ \A y \in T : y <= m
    BY <1>4, MaxOfNumbers
  <2> HIDE DEF m
  <2>2. m \in 1..N
    BY <1>1, <2>1
  <2>3. m \in U /\ \A y \in U : y <= m
    BY <2>1, <2>2
  <2> HIDE DEF U
  <2>4. n = m
    BY <1>2, <2>3, MaxIs
  <2> HIDE DEF n
  <2>5. ASSUME NEW y \in n+1..N PROVE y \notin T
    <3>1. ~(y <= m)
      BY <2>2, <2>4
    <3> QED
      BY <2>1, <3>1
  <2>6. n \in 0..N /\ n \in T
    BY <2>1, <2>2, <2>4
  <2> QED
    BY <2>5, <2>6 DEF n, U
<1> QED
  BY <1>3, <1>4

LEMMA UndoCutTyped ==
  ASSUME NEW cs \in Seq(Orders)
  PROVE  UndoCut(cs) \in Seq(Orders)
<1> DEFINE n == LastReal(cs)
           T == {i \in DOMAIN cs : Real(cs[i]) /\ ~cs[i].sent}
           rest == WithoutAnswers(cs, n)
<1>1. Len(cs) \in Nat /\ DOMAIN cs = 1..Len(cs)
  OBVIOUS
<1>2. n \in 0..Len(cs)
  <2>1. T \in SUBSET (1..Len(cs)) /\ n = Max({0} \cup T)
    BY <1>1 DEF LastReal
  <2> HIDE DEF T, n
  <2> QED
    BY <1>1, <2>1, MaxOrZero
<1> HIDE DEF n
<1>3. CASE n = 0
  BY <1>3 DEF UndoCut, n
<1>4. CASE n # 0
  <2>1. n \in 1..Len(cs)
    BY <1>1, <1>2, <1>4
  <2>2. rest \in Seq(Orders) /\ n \in 1..Len(rest)
    <3> DEFINE I == {i \in DOMAIN cs : i <= n \/ ~Dependent(cs[i])}
    <3>1. rest = Kept(cs, I)
      BY DEF WithoutAnswers
    <3>2. \A j \in 1..n : j \in I
      BY <1>1, <2>1
    <3> HIDE DEF I, rest
    <3>3. rest \in Seq(Orders) /\ \E f : Part(rest, cs, I, f)
      BY <3>1, KeptIsPart
    <3>4. PICK f : Part(rest, cs, I, f)
      BY <3>3
    <3>5. Len(rest) \in Nat /\ n \in 0..Len(cs)
      BY <1>2, <3>3
    <3>6. n <= Len(rest)
      BY <1>1, <3>2, <3>4, <3>5, PartBegins
    <3> QED
      BY <2>1, <3>3, <3>5, <3>6
  <2> HIDE DEF rest
  <2>3. RemoveAt(rest, n) \in Seq(Orders)
    BY <2>2, RemoveAtIs
  <2>4. RemoveAt(Repaired(rest, n), n) \in Seq(Orders) \/ cs[n].kind # "move"
    <3> SUFFICES ASSUME cs[n].kind = "move" PROVE RemoveAt(Repaired(rest, n), n) \in Seq(Orders)
      OBVIOUS
    <3> DEFINE r(i) == IF i > n /\ Async(rest[i]) /\ rest[i].at = rest[n].to
                       THEN [rest[i] EXCEPT !.at = rest[n].at] ELSE rest[i]
    <3>1. Len(rest) \in Nat /\ DOMAIN rest = 1..Len(rest) /\ \A i \in 1..Len(rest) : rest[i] \in Orders
      BY <2>2
    <3>2. rest[n] = cs[n]
      <4> DEFINE I == {i \in DOMAIN cs : i <= n \/ ~Dependent(cs[i])}
      <4>1. rest = Kept(cs, I)
        BY DEF WithoutAnswers, rest
      <4>2. \A j \in 1..n : j \in I
        BY <1>1, <2>1
      <4> HIDE DEF I
      <4>3. PICK f : Part(rest, cs, I, f)
        BY <4>1, KeptIsPart
      <4>4. n \in 0..Len(cs) /\ n \in 0..n
        BY <1>2, <2>1
      <4>5. \A i \in 0..n : f[i] = i
        BY <1>1, <3>1, <4>2, <4>3, <4>4, PartBegins
      <4> QED
        BY <2>2, <4>3, <4>4, <4>5 DEF Part
    <3>3. ASSUME NEW i \in 1..Len(rest) PROVE r(i) \in Orders
      <4>1. rest[i] \in Orders /\ rest[n] \in Orders /\ rest[n].kind = "move"
        BY <2>2, <3>1, <3>2
      <4>2. Mended(rest[n], rest[i]) \in Orders
        BY <4>1, MendedFields
      <4> QED
        BY <4>1, <4>2 DEF Mended
    <3>4. Repaired(rest, n) = [i \in 1..Len(rest) |-> r(i)]
      BY <3>1 DEF Repaired
    <3> HIDE DEF r
    <3>5. Repaired(rest, n) \in [1..Len(rest) -> Orders]
      BY <3>3, <3>4
    <3>6. Repaired(rest, n) \in Seq(Orders) /\ Len(Repaired(rest, n)) = Len(rest)
      BY <3>1, <3>5
    <3> QED
      BY <2>2, <3>6, RemoveAtIs
  <2>5. RemoveAt(Without(rest, Orphans(cs, n)), n) \in Seq(Orders)
    <3> DEFINE I == DOMAIN rest \ Orphans(cs, n)
               w == Kept(rest, I)
    <3>1. Len(rest) \in Nat /\ DOMAIN rest = 1..Len(rest) /\ \A j \in 1..n : j \in I
      BY <1>1, <2>1, <2>2 DEF Orphans
    <3>2. Without(rest, Orphans(cs, n)) = w
      BY DEF Without
    <3> HIDE DEF I
    <3>3. w \in Seq(Orders) /\ \E f : Part(w, rest, I, f)
      BY <2>2, KeptIsPart
    <3> HIDE DEF w
    <3>4. PICK f : Part(w, rest, I, f)
      BY <3>3
    <3>5. Len(w) \in Nat /\ n \in 0..Len(rest)
      BY <2>2, <3>3
    <3>6. n <= Len(w)
      BY <3>1, <3>4, <3>5, PartBegins
    <3>7. n \in 1..Len(w)
      BY <2>1, <3>5, <3>6
    <3> QED
      BY <3>2, <3>3, <3>7, RemoveAtIs
  <2>6. UndoCut(cs) = IF cs[n].kind = "move" THEN RemoveAt(Repaired(rest, n), n)
                      ELSE IF cs[n].kind \in {"recruit", "recall"}
                           THEN RemoveAt(Without(rest, Orphans(cs, n)), n) ELSE RemoveAt(rest, n)
    BY <1>4 DEF UndoCut, n, rest
  <2> QED
    BY <2>3, <2>4, <2>5, <2>6
<1> QED
  BY <1>3, <1>4

LEMMA TopIs ==
  ASSUME undos \in Stacks
  PROVE  /\ Len(undos) \in Nat /\ Top \in 0..Len(undos)
         /\ Top # 0 => undos[Top].command.kind \notin Shroud
         /\ \A i \in Top+1..Len(undos) : undos[i].command.kind \in Shroud
<1> DEFINE T == {i \in DOMAIN undos : undos[i].command.kind \notin Shroud}
<1>1. Len(undos) \in Nat /\ DOMAIN undos = 1..Len(undos)
  BY DEF Stacks
<1>2. T \in SUBSET (1..Len(undos)) /\ Top = Max({0} \cup T)
  BY <1>1 DEF Top
<1>3. \A i \in 1..Len(undos) : i \in T <=> undos[i].command.kind \notin Shroud
  BY <1>1
<1> HIDE DEF T
<1>4. Top \in 0..Len(undos) /\ (Top # 0 => Top \in T) /\ \A y \in Top+1..Len(undos) : y \notin T
  BY <1>1, <1>2, MaxOrZero
<1>5. ASSUME Top # 0 PROVE undos[Top].command.kind \notin Shroud
  BY <1>1, <1>3, <1>4, <1>5
<1>6. ASSUME NEW i \in Top+1..Len(undos) PROVE undos[i].command.kind \in Shroud
  <2>1. i \in 1..Len(undos)
    BY <1>1, <1>4
  <2> QED
    BY <1>3, <1>4, <2>1
<1> QED
  BY <1>1, <1>4, <1>5, <1>6

LEMMA OnTopIs ==
  ASSUME undos \in Stacks
  PROVE  /\ OnTop \in Stacks /\ Len(OnTop) = Len(undos) - Top
         /\ \A i \in 1..Len(OnTop) : OnTop[i] = undos[Top + i] /\ OnTop[i].command.kind \in Shroud
         /\ Again \in Seq(Orders) /\ Len(Again) = Len(OnTop)
         /\ \A i \in 1..Len(OnTop) : Again[i] = OnTop[i].command
<1>1. /\ Len(undos) \in Nat /\ Top \in 0..Len(undos)
      /\ \A i \in Top+1..Len(undos) : undos[i].command.kind \in Shroud
  BY TopIs
<1>2. Top + 1 \in 1..Len(undos)+1 /\ Len(undos) \in 0..Len(undos)
  BY <1>1
<1>3. /\ OnTop \in Stacks
      /\ Len(OnTop) = IF Top + 1 <= Len(undos) THEN Len(undos) - (Top + 1) + 1 ELSE 0
      /\ \A i \in 1..Len(undos)-(Top + 1)+1 : OnTop[i] = undos[Top + 1 + i - 1]
  BY <1>2, SubSeqIs DEF OnTop, Stacks
<1>4. Len(OnTop) = Len(undos) - Top
  BY <1>1, <1>3
<1>5. ASSUME NEW i \in 1..Len(OnTop)
      PROVE  OnTop[i] = undos[Top + i] /\ OnTop[i].command.kind \in Shroud
  <2>1. i \in 1..Len(undos)-(Top + 1)+1 /\ Top + 1 + i - 1 = Top + i /\ Top + i \in Top+1..Len(undos)
    BY <1>1, <1>4
  <2> QED
    BY <1>1, <1>3, <2>1
<1>6. Len(OnTop) \in Nat /\ DOMAIN OnTop = 1..Len(OnTop)
  BY <1>3 DEF Stacks
<1>7. \A i \in 1..Len(OnTop) : OnTop[i].command \in Orders
  BY <1>3, StackIs
<1>8. Again = [i \in 1..Len(OnTop) |-> OnTop[i].command]
  BY <1>6 DEF Again
<1>9. Again \in [1..Len(OnTop) -> Orders]
  BY <1>7, <1>8
<1>10. Again \in Seq(Orders) /\ Len(Again) = Len(OnTop)
  BY <1>6, <1>9
<1> QED
  BY <1>3, <1>4, <1>5, <1>8, <1>10

\* Each of them cuts its command.
Peels(C, cs, k) ==
  /\ C \in [0..k -> Seq(Orders)] /\ C[0] = cs
  /\ \A j \in 1..k : C[j] = UndoCut(C[j - 1])

LEMMA PeelsExist ==
  ASSUME NEW cs \in Seq(Orders), NEW k \in Nat
  PROVE  \E C : Peels(C, cs, k)
<1> DEFINE F == [i \in 1..k |-> [d \in Seq(Orders) |-> UndoCut(d)]]
<1>1. \A d \in Seq(Orders) : UndoCut(d) \in Seq(Orders)
  BY UndoCutTyped
<1>2. Steps(F, k, Seq(Orders))
  BY <1>1 DEF Steps
<1>3. PICK C : Runs(C, k, Seq(Orders), cs, F)
  <2> HIDE DEF F
  <2> QED
    BY <1>2, Recursion
<1>4. Peels(C, cs, k)
  <2>1. /\ C \in [0..k -> Seq(Orders)] /\ C[0] = cs
        /\ \A i \in 1..k : C[i] = F[i][C[i - 1]]
    BY <1>3 DEF Runs
  <2>2. ASSUME NEW j \in 1..k PROVE C[j] = UndoCut(C[j - 1])
    <3>1. C[j - 1] \in Seq(Orders)
      BY <2>1
    <3> QED
      BY <2>1, <3>1
  <2> QED
    BY <2>1, <2>2 DEF Peels
<1> QED
  BY <1>4

LEMMA PeeledIs ==
  ASSUME cmds \in Seq(Orders), Len(OnTop) \in Nat, DOMAIN OnTop = 1..Len(OnTop),
         NEW C, Peels(C, cmds, Len(OnTop))
  PROVE  Peeled = C[Len(OnTop)]
<1> DEFINE k == Len(OnTop)
           F == [i \in 1..k |-> [d \in Seq(Orders) |-> UndoCut(d)]]
           Def(it) == [s \in SUBSET DOMAIN OnTop |->
                         IF s = {} THEN cmds ELSE UndoCut(it[s \ {Max(s)}])]
           B == CHOOSE it : it = Def(it)
<1>1. k \in Nat /\ DOMAIN OnTop = 1..k
  OBVIOUS
<1>2. \A d \in Seq(Orders) : UndoCut(d) \in Seq(Orders)
  BY UndoCutTyped
<1>3. Steps(F, k, Seq(Orders))
  BY <1>2 DEF Steps
<1>4. PICK it : it \in [SUBSET (1..k) -> Seq(Orders)] /\ Folds(it, k, cmds, F)
  <2> HIDE DEF F, k
  <2> QED
    BY <1>1, <1>3, FoldExists
<1>5. ASSUME NEW s \in SUBSET (1..k), s # {}
      PROVE  it[s] = UndoCut(it[s \ {Max(s)}])
  <2>1. Max(s) \in s
    BY <1>1, <1>5, MaxOfNumbers
  <2>2. Max(s) \in 1..k /\ it[s \ {Max(s)}] \in Seq(Orders)
    BY <1>4, <2>1
  <2>3. it[s] = F[Max(s)][it[s \ {Max(s)}]]
    BY <1>4, <1>5 DEF Folds
  <2> QED
    BY <2>2, <2>3
<1>6. it[{}] = cmds
  BY <1>4 DEF Folds
<1>7. it = Def(it)
  BY <1>1, <1>4, <1>5, <1>6
<1>8. B = Def(B)
  <2> HIDE DEF Def
  <2> QED
    BY <1>7
<1>9. Peeled = B[DOMAIN OnTop]
  BY DEF Peeled, FoldLeft, MapThenFoldSet
<1> HIDE DEF B
<1>10. \A s \in SUBSET (1..k) : B[s] = IF s = {} THEN cmds ELSE UndoCut(B[s \ {Max(s)}])
  BY <1>1, <1>8
<1> DEFINE H == {n \in 0..k : B[1..n] = C[n]}
<1>11. 0 \in H
  <2>1. 1..0 = {} /\ {} \in SUBSET (1..k)
    OBVIOUS
  <2>2. B[1..0] = cmds
    BY <1>10, <2>1
  <2> QED
    BY <1>1, <2>2 DEF Peels
<1>12. ASSUME NEW n \in 0..k, n # 0, n - 1 \in H PROVE n \in H
  <2> DEFINE s == 1..n
  <2>a. n \in 1..k /\ n \in s
    BY <1>1, <1>12
  <2>b. s \in SUBSET (1..k)
    BY <1>1, <2>a
  <2>c. s \ {n} = 1..(n - 1)
    BY <1>1, <2>a
  <2>1. n \in 1..k /\ s \in SUBSET (1..k) /\ s # {} /\ s \ {n} = 1..(n - 1) /\ n \in s
    BY <2>a, <2>b, <2>c
  <2>2. Max(s) = n
    <3>1. Max(s) \in s /\ \A y \in s : y <= Max(s)
      BY <1>1, <2>1, MaxOfNumbers
    <3> QED
      BY <1>1, <2>1, <3>1
  <2>3. B[s] = UndoCut(B[1..(n - 1)])
    <3> HIDE DEF s
    <3> QED
      BY <1>10, <2>1, <2>2
  <2>4. C[n] = UndoCut(C[n - 1])
    BY <2>1 DEF Peels
  <2> QED
    BY <1>12, <2>3, <2>4
<1>13. \A n \in 0..k : n \in H
  <2>1. \A i \in 0..k : i # 0 /\ i - 1 \in H => i \in H
    BY <1>12
  <2> HIDE DEF H
  <2> QED
    BY <1>1, <1>11, <2>1, UpFrom
<1>14. k \in H
  BY <1>1, <1>13
<1> QED
  BY <1>1, <1>9, <1>14

-----------------------------------------------------------------------------
(* What was sent.                                                            *)

Sents(cs) == {i \in 1..Len(cs) : cs[i].sent}

\* h is where the sent commands of cs are in t.
Finds(h, cs, t) ==
  /\ \A i \in Sents(cs) : h[i] \in Sents(t) /\ t[h[i]] = cs[i]
  /\ \A i, j \in Sents(cs) : i < j => h[i] < h[j]

\* t has what was sent of cs, and what cs begins with.
Retains(up, cs, t) ==
  /\ up <= Len(t) /\ \A i \in 1..up : t[i] = cs[i]
  /\ \E h : Finds(h, cs, t)

LEMMA RetainsMore ==
  ASSUME NEW up \in Nat, NEW cs, NEW t, Len(cs) \in Nat, Len(t) \in Nat, up <= Len(cs),
         Len(cs) <= Len(t), \A i \in 1..Len(cs) : t[i] = cs[i]
  PROVE  Retains(up, cs, t)
<1> DEFINE h == [i \in Sents(cs) |-> i]
<1>1. \A i \in Sents(cs) : h[i] = i /\ i \in 1..Len(cs) /\ i \in 1..Len(t)
  BY DEF Sents
<1>2. \A i \in Sents(cs) : t[i] = cs[i] /\ cs[i].sent
  BY <1>1 DEF Sents
<1>3. \A i \in Sents(cs) : i \in Sents(t)
  BY <1>1, <1>2 DEF Sents
<1> HIDE DEF h
<1>4. Finds(h, cs, t)
  BY <1>1, <1>2, <1>3 DEF Finds
<1>5. up <= Len(t) /\ \A i \in 1..up : t[i] = cs[i]
  OBVIOUS
<1> QED
  BY <1>4, <1>5 DEF Retains

LEMMA RetainsOn ==
  ASSUME NEW up \in Nat, NEW cs, NEW t, NEW w, Retains(up, cs, t), Retains(up, t, w)
  PROVE  Retains(up, cs, w)
<1>1. PICK h : Finds(h, cs, t)
  BY DEF Retains
<1>2. PICK k : Finds(k, t, w)
  BY DEF Retains
<1> DEFINE l == [i \in Sents(cs) |-> k[h[i]]]
<1>3. \A i \in Sents(cs) : l[i] = k[h[i]] /\ h[i] \in Sents(t) /\ t[h[i]] = cs[i]
  BY <1>1 DEF Finds
<1> HIDE DEF l
<1>4. \A i \in Sents(cs) : l[i] \in Sents(w) /\ w[l[i]] = cs[i]
  BY <1>2, <1>3 DEF Finds
<1>5. ASSUME NEW i \in Sents(cs), NEW j \in Sents(cs), i < j PROVE l[i] < l[j]
  <2>1. h[i] < h[j] /\ h[i] \in Sents(t) /\ h[j] \in Sents(t)
    BY <1>1, <1>5 DEF Finds
  <2>2. k[h[i]] < k[h[j]]
    BY <1>2, <2>1 DEF Finds
  <2> QED
    BY <1>3, <2>2
<1>6. Finds(l, cs, w)
  BY <1>4, <1>5 DEF Finds
<1>7. up <= Len(w) /\ \A i \in 1..up : w[i] = cs[i]
  BY DEF Retains
<1> QED
  BY <1>6, <1>7 DEF Retains

LEMMA PartFalls ==
  ASSUME NEW t, Len(t) \in Nat, NEW s, Len(s) \in Nat, NEW I, NEW f, Part(t, s, I, f),
         NEW i \in 0..Len(t), NEW j \in 0..Len(t), f[i] < f[j]
  PROVE  i < j
<1>1. f[i] \in Nat /\ f[j] \in Nat
  BY DEF Part
<1>2. CASE j < i
  <2>1. f[j] < f[i]
    BY <1>2, PartRises
  <2> QED
    BY <1>1, <2>1
<1> QED
  BY <1>1, <1>2

\* undo_cut takes nothing that was sent.
LEMMA CutRetains ==
  ASSUME NEW cs, NEW up, NEW us, NEW g, NEW p, NEW lost, NEW P, NEW A,
         Sound(cs, up, us, g, p, lost, P, A), Len(us) # 0, NumbersHold(cs)
  PROVE  Retains(up, cs, UndoCut(cs))
<1> DEFINE m == Len(us)
           n == P[m]
           t == UndoCut(cs)
           F == Fixed(cs, n)
           I == Spared(cs, n)
<1>1. /\ cs \in Seq(Orders) /\ up \in 0..Len(cs) /\ us \in Stacks
      /\ Paired(cs, up, us, P) /\ Stepped(us, A) /\ Calm(cs, us, P, A)
  BY DEF Sound, Typed
<1>2. /\ n \in 1..Len(cs) /\ up < n /\ LastReal(cs) = n /\ ~cs[n].sent
      /\ A[m - 1] \in Boards /\ A[m] \in Boards
      /\ BoardStep(A[m - 1], cs[n], A[m]) /\ Alone(A[m - 1].at)
      /\ \A j \in n+1..Len(cs) : Quiet(cs[j], A[m], cs[n].kind)
  BY <1>1, SoundTop
<1> HIDE DEF m, n, t
<1>3. /\ t \in Seq(Orders) /\ n - 1 \in 0..Len(t)
      /\ \A i \in 1..n-1 : t[i] = cs[i]
      /\ \E e : Part(t, F, I, e)
  <2> HIDE DEF F, I
  <2> QED
    BY <1>1, <1>2, CutRecord DEF t, F, I
<1>4. PICK e : Part(t, F, I, e)
  BY <1>3
<1>5. /\ Len(cs) \in Nat /\ up \in Nat /\ Len(t) \in Nat /\ cs[n] \in Orders
      /\ \A j \in 1..Len(cs) : cs[j] \in Orders
  BY <1>1, <1>2, <1>3, ElementIs
<1>6. /\ Len(F) = Len(cs)
      /\ \A j \in 1..Len(cs) : F[j] = IF j > n THEN Mended(cs[n], cs[j]) ELSE cs[j]
  BY <1>1, <1>2, FixedIs
<1>7. ASSUME NEW j \in Sents(cs) PROVE j \in I /\ F[j] = cs[j] /\ j \in 1..Len(cs) /\ cs[j].sent
  <2>1. j \in 1..Len(cs) /\ cs[j].sent /\ j # n
    BY <1>2 DEF Sents
  <2>2. j > n => cs[j].kind = "speak"
    <3>1. j > n => j \in n+1..Len(cs)
      BY <1>2, <2>1
    <3> QED
      BY <1>2, <2>1, <3>1 DEF Quiet
  <2>3. j > n => ~Dropped(cs[n], cs[j]) /\ ~Async(cs[j])
    BY <2>2 DEF Dropped, Dependent, Orphaned, Async
  <2>4. j > n => Mended(cs[n], cs[j]) = cs[j]
    BY <1>5, <2>1, <2>3, MendedFields
  <2> QED
    BY <1>6, <2>1, <2>3, <2>4 DEF Spared
<1> HIDE DEF F, I
<1> DEFINE h == [j \in Sents(cs) |-> CHOOSE i \in 1..Len(t) : e[i] = j]
<1>8. ASSUME NEW j \in Sents(cs) PROVE h[j] \in 1..Len(t) /\ e[h[j]] = j
  <2>1. j \in 1..Len(F) /\ j \in I /\ Len(F) \in Nat
    BY <1>5, <1>6, <1>7
  <2>2. \E i \in 1..Len(t) : e[i] = j
    BY <1>4, <1>5, <2>1, PartOnto
  <2> QED
    BY <2>2
<1> HIDE DEF h
<1>9. ASSUME NEW j \in Sents(cs) PROVE h[j] \in Sents(t) /\ t[h[j]] = cs[j]
  <2>1. h[j] \in 1..Len(t) /\ t[h[j]] = F[e[h[j]]]
    BY <1>4, <1>8 DEF Part
  <2> QED
    BY <1>7, <1>8, <2>1 DEF Sents
<1>10. ASSUME NEW i \in Sents(cs), NEW j \in Sents(cs), i < j PROVE h[i] < h[j]
  <2>1. h[i] \in 0..Len(t) /\ h[j] \in 0..Len(t) /\ e[h[i]] < e[h[j]]
    BY <1>5, <1>8, <1>10
  <2>2. Len(F) \in Nat
    BY <1>5, <1>6
  <2> QED
    BY <1>4, <1>5, <2>1, <2>2, PartFalls
<1>11. Finds(h, cs, t)
  BY <1>9, <1>10 DEF Finds
<1>12. up <= Len(t) /\ \A i \in 1..up : t[i] = cs[i]
  BY <1>2, <1>3, <1>5
<1>13. Retains(up, cs, t)
  BY <1>11, <1>12 DEF Retains
<1> QED
  BY <1>13 DEF t

LEMMA SameSequence ==
  ASSUME NEW S, NEW s \in Seq(S), NEW t \in Seq(S), Len(s) = Len(t),
         \A i \in 1..Len(s) : s[i] = t[i]
  PROVE  s = t
  OBVIOUS

LEMMA BeginAll ==
  ASSUME NEW S, NEW s \in Seq(S)
  PROVE  SubSeq(s, 1, Len(s)) = s /\ SubSeq(s, 1, 0) = <<>>
<1>1. Len(s) \in Nat /\ Len(s) \in 0..Len(s) /\ 0 \in 0..Len(s)
  OBVIOUS
<1>2. /\ SubSeq(s, 1, Len(s)) \in Seq(S) /\ Len(SubSeq(s, 1, Len(s))) = Len(s)
      /\ \A i \in 1..Len(s) : SubSeq(s, 1, Len(s))[i] = s[i]
  BY <1>1, BeginIs
<1>3. SubSeq(s, 1, 0) \in Seq(S) /\ Len(SubSeq(s, 1, 0)) = 0
  BY <1>1, BeginIs
<1>4. SubSeq(s, 1, Len(s)) = s
  BY <1>2, SameSequence
<1>5. SubSeq(s, 1, 0) = <<>>
  BY <1>3
<1> QED
  BY <1>4, <1>5

LEMMA BeginTwice ==
  ASSUME NEW S, NEW s \in Seq(S), NEW m \in 0..Len(s), NEW n \in 0..m
  PROVE  SubSeq(SubSeq(s, 1, m), 1, n) = SubSeq(s, 1, n)
<1>1. Len(s) \in Nat /\ n \in 0..Len(s) /\ m \in Nat /\ n \in Nat
  OBVIOUS
<1> DEFINE t == SubSeq(s, 1, m)
<1>2. t \in Seq(S) /\ Len(t) = m /\ \A i \in 1..m : t[i] = s[i]
  BY BeginIs
<1> HIDE DEF t
<1>3. n \in 0..Len(t)
  BY <1>2
<1>4. /\ SubSeq(t, 1, n) \in Seq(S) /\ Len(SubSeq(t, 1, n)) = n
      /\ \A i \in 1..n : SubSeq(t, 1, n)[i] = t[i]
  BY <1>2, <1>3, BeginIs
<1>5. /\ SubSeq(s, 1, n) \in Seq(S) /\ Len(SubSeq(s, 1, n)) = n
      /\ \A i \in 1..n : SubSeq(s, 1, n)[i] = s[i]
  BY <1>1, BeginIs
<1>6. \A i \in 1..n : i \in 1..m
  BY <1>1
<1>7. SubSeq(t, 1, n) = SubSeq(s, 1, n)
  BY <1>2, <1>4, <1>5, <1>6, SameSequence
<1> QED
  BY <1>7 DEF t

\* One element more of t behind s.
LEMMA BeginMore ==
  ASSUME NEW S, NEW s \in Seq(S), NEW t \in Seq(S), NEW n \in 1..Len(t)
  PROVE  s \o SubSeq(t, 1, n) = Append(s \o SubSeq(t, 1, n - 1), t[n])
<1> DEFINE a == SubSeq(t, 1, n)
           b == SubSeq(t, 1, n - 1)
<1>1. Len(t) \in Nat /\ n \in 0..Len(t) /\ n - 1 \in 0..Len(t) /\ t[n] \in S /\ Len(s) \in Nat
  OBVIOUS
<1>2. a \in Seq(S) /\ Len(a) = n /\ \A i \in 1..n : a[i] = t[i]
  BY <1>1, BeginIs
<1>3. b \in Seq(S) /\ Len(b) = n - 1 /\ \A i \in 1..n-1 : b[i] = t[i]
  BY <1>1, BeginIs
<1> HIDE DEF a, b
<1>4. /\ s \o a \in Seq(S) /\ Len(s \o a) = Len(s) + n
      /\ \A i \in 1..Len(s) : (s \o a)[i] = s[i]
      /\ \A i \in 1..n : (s \o a)[Len(s) + i] = a[i]
  <2>1. /\ s \o a \in Seq(S) /\ Len(s \o a) = Len(s) + Len(a)
        /\ \A i \in 1..Len(s) : (s \o a)[i] = s[i]
        /\ \A i \in 1..Len(a) : (s \o a)[Len(s) + i] = a[i]
    <3>1. a \in Seq(S)
      BY <1>2
    <3> QED
      BY <3>1, CatIs
  <2>2. Len(a) = n
    BY <1>2
  <2> QED
    BY <2>1, <2>2
<1>5. /\ s \o b \in Seq(S) /\ Len(s \o b) = Len(s) + (n - 1)
      /\ \A i \in 1..Len(s) : (s \o b)[i] = s[i]
      /\ \A i \in 1..n-1 : (s \o b)[Len(s) + i] = b[i]
  <2>1. /\ s \o b \in Seq(S) /\ Len(s \o b) = Len(s) + Len(b)
        /\ \A i \in 1..Len(s) : (s \o b)[i] = s[i]
        /\ \A i \in 1..Len(b) : (s \o b)[Len(s) + i] = b[i]
    <3>1. b \in Seq(S)
      BY <1>3
    <3> QED
      BY <3>1, CatIs
  <2>2. Len(b) = n - 1
    BY <1>3
  <2> QED
    BY <2>1, <2>2
<1> DEFINE x == s \o a
           y == s \o b
           z == Append(y, t[n])
<1> HIDE DEF x, y
<1>6. /\ z \in Seq(S) /\ Len(z) = Len(y) + 1 /\ \A i \in 1..Len(y) : z[i] = y[i]
      /\ z[Len(y) + 1] = t[n]
  BY <1>1, <1>5, AppendIs DEF y
<1> HIDE DEF z
<1>7. Len(x) = Len(z)
  BY <1>1, <1>4, <1>5, <1>6 DEF x, y
<1>8. ASSUME NEW i \in 1..Len(x) PROVE x[i] = z[i]
  <2>1. CASE i \in 1..Len(s)
    <3>1. i \in 1..Len(y)
      BY <1>1, <1>5, <2>1 DEF y
    <3> QED
      BY <1>4, <1>5, <1>6, <2>1, <3>1 DEF x, y
  <2>2. CASE i \notin 1..Len(s)
    <3> DEFINE j == i - Len(s)
    <3>1. j \in 1..n /\ i = Len(s) + j
      BY <1>1, <1>4, <2>2 DEF x
    <3> HIDE DEF j
    <3>2. x[i] = t[j]
      BY <1>2, <1>4, <3>1 DEF x
    <3>3. CASE j = n
      <4>1. i = Len(y) + 1
        BY <1>1, <1>5, <3>1, <3>3 DEF y
      <4> QED
        BY <1>6, <3>2, <3>3, <4>1
    <3>4. CASE j # n
      <4>1. j \in 1..n-1 /\ i \in 1..Len(y)
        BY <1>1, <1>5, <3>1, <3>4 DEF y
      <4>2. y[i] = b[j]
        BY <1>5, <3>1, <4>1 DEF y
      <4> QED
        BY <1>3, <1>6, <3>2, <4>1, <4>2
    <3> QED
      BY <3>3, <3>4
  <2> QED
    BY <2>1, <2>2
<1>9. x = z
  BY <1>4, <1>6, <1>7, <1>8, SameSequence DEF x
<1> QED
  BY <1>9 DEF a, b, x, y, z

\* The game, with automatic updates of the shroud or without.
Lit(g, auto) == [g EXCEPT !.auto = auto]

LEMMA LitFields ==
  ASSUME NEW g \in Games, NEW x \in BOOLEAN
  PROVE  /\ Lit(g, x) \in Games
         /\ Lit(g, x).at = g.at /\ Lit(g, x).name = g.name /\ Lit(g, x).said = g.said
         /\ Lit(g, x).auto = x
         /\ OwnNames(g) => OwnNames(Lit(g, x))
<1>1. Lit(g, x) \in Games
  BY DEF Lit, Games
<1>2. /\ Lit(g, x).at = g.at /\ Lit(g, x).name = g.name /\ Lit(g, x).said = g.said
      /\ Lit(g, x).auto = x
  BY DEF Lit, Games
<1> QED
  BY <1>1, <1>2 DEF OwnNames

LEMMA LitTwice ==
  ASSUME NEW g \in Games, NEW x \in BOOLEAN, NEW y \in BOOLEAN
  PROVE  Lit(Lit(g, x), y) = Lit(g, y) /\ Lit(g, g.auto) = g
<1>1. /\ Lit(g, x) \in Games /\ Lit(g, x).at = g.at /\ Lit(g, x).name = g.name
      /\ Lit(g, x).said = g.said
  BY LitFields
<1>2. /\ Lit(g, y) \in Games /\ Lit(g, y).at = g.at /\ Lit(g, y).name = g.name
      /\ Lit(g, y).said = g.said /\ Lit(g, y).auto = y
  BY LitFields
<1>3. /\ Lit(Lit(g, x), y) \in Games /\ Lit(Lit(g, x), y).at = Lit(g, x).at
      /\ Lit(Lit(g, x), y).name = Lit(g, x).name /\ Lit(Lit(g, x), y).said = Lit(g, x).said
      /\ Lit(Lit(g, x), y).auto = y
  BY <1>1, LitFields
<1>4. Lit(Lit(g, x), y) = Lit(g, y)
  BY <1>1, <1>2, <1>3, SameGame
<1>5. g.auto \in BOOLEAN
  BY GameFields
<1>6. Lit(g, g.auto) = g
  BY <1>5, LitFields, SameGame
<1> QED
  BY <1>4, <1>6

\* The peels, one by one.
PeelsTo(C, j, up, us, g, p, lost, P, A) ==
  LET m == Len(us) - j
  IN  /\ Sound(C[j], up, SubSeq(us, 1, m), Lit(g, A[m].auto), p, lost, P, A)
      /\ Retains(up, C[0], C[j])

\* Only the undo of a recruit or a recall removes by numbers.
LEMMA ShroudHolds ==
  ASSUME NEW cs, NEW up, NEW us, NEW g, NEW p, NEW lost, NEW P, NEW A,
         Sound(cs, up, us, g, p, lost, P, A), Len(us) # 0,
         us[Len(us)].command.kind \in Shroud
  PROVE  NumbersHold(cs)
<1> DEFINE n == P[Len(us)]
<1>1. /\ cs \in Seq(Orders) /\ up \in 0..Len(cs) /\ us \in Stacks
      /\ Paired(cs, up, us, P) /\ Stepped(us, A) /\ Calm(cs, us, P, A)
  BY DEF Sound, Typed
<1>2. LastReal(cs) = n /\ cs[n] = us[Len(us)].command
  BY <1>1, SoundTop
<1>3. cs[n].kind \notin {"recruit", "recall"}
  BY <1>2 DEF Shroud
<1> HIDE DEF n
<1> QED
  BY <1>2, <1>3 DEF NumbersHold

LEMMA PeelOne ==
  ASSUME NEW C, NEW up, NEW us \in Stacks, NEW g \in Games, NEW p, NEW lost, NEW P, NEW A,
         NEW j \in Nat, j # 0, j <= Len(us), C[j] = UndoCut(C[j - 1]),
         us[Len(us) - j + 1].command.kind \in Shroud,
         PeelsTo(C, j - 1, up, us, g, p, lost, P, A)
  PROVE  PeelsTo(C, j, up, us, g, p, lost, P, A)
<1> DEFINE m == Len(us) - (j - 1)
           vs == SubSeq(us, 1, m)
           x == Lit(g, A[m].auto)
           y == Lit(g, A[m - 1].auto)
           c == us[m].command
<1>1. Len(us) \in Nat /\ m \in 1..Len(us) /\ m \in 0..Len(us) /\ m = Len(us) - j + 1
      /\ m - 1 = Len(us) - j /\ m - 1 \in 0..m
  <2> DEFINE l == Len(us)
  <2>1. l \in Nat
    BY StackIs
  <2>2. j <= l /\ m = l - (j - 1)
    OBVIOUS
  <2> HIDE DEF l, m
  <2>3. m \in 1..l /\ m \in 0..l /\ m = l - j + 1 /\ m - 1 = l - j /\ m - 1 \in 0..m
    BY <2>1, <2>2
  <2> QED
    BY <2>1, <2>3 DEF l
<1>2. Sound(C[j - 1], up, vs, x, p, lost, P, A)
  BY DEF PeelsTo
<1>3. Len(vs) = m /\ vs[m] = us[m] /\ vs \in Stacks
  <2> HIDE DEF m
  <2>1. us \in Seq([command : Orders, data : {<<>>}])
    BY DEF Stacks
  <2>2. /\ vs \in Seq([command : Orders, data : {<<>>}]) /\ Len(vs) = m
        /\ \A i \in 1..m : vs[i] = us[i]
    BY <1>1, <2>1, BeginIs
  <2>3. m \in 1..m
    BY <1>1
  <2> QED
    BY <2>2, <2>3 DEF Stacks
<1>4. SubSeq(vs, 1, m - 1) = SubSeq(us, 1, m - 1)
  BY <1>1, BeginTwice DEF Stacks
<1> HIDE DEF vs, m
<1>5. Stepped(vs, A) /\ A[m] = Board(x)
  BY <1>2, <1>3 DEF Sound
<1>6. A[m] \in Boards /\ A[m - 1] \in Boards /\ BoardStep(A[m - 1], c, A[m])
  <2>1. m \in 0..Len(vs) /\ m - 1 \in 0..Len(vs) /\ m \in 1..Len(vs)
    BY <1>1, <1>3
  <2>2. A[m] \in Boards /\ A[m - 1] \in Boards /\ BoardStep(A[m - 1], vs[m].command, A[m])
    BY <1>5, <2>1 DEF Stepped
  <2> QED
    BY <1>3, <2>2
<1>7. c.kind \in Shroud /\ A[m].at = A[m - 1].at
  <2>1. c.kind \in Shroud
    BY <1>1
  <2>2. c.kind \notin Moving
    BY <2>1 DEF Shroud, Moving
  <2> QED
    BY <1>6, <2>1, <2>2 DEF BoardStep, AtStep
<1>8. A[m].auto \in BOOLEAN /\ A[m - 1].auto \in BOOLEAN
  BY <1>6, BoardFields
<1>9. /\ x \in Games /\ x.at = g.at /\ x.name = g.name /\ x.said = g.said
      /\ y \in Games /\ y.at = g.at /\ y.name = g.name /\ y.said = g.said /\ y.auto = A[m - 1].auto
  BY <1>8, LitFields
<1>10. OwnNames(y)
  <2>1. OwnNames(x)
    BY <1>2 DEF Sound, Typed
  <2> QED
    BY <1>9, <2>1 DEF OwnNames
<1> HIDE DEF x, y
<1>11. Board(y) = A[m - 1]
  <2>1. A[m].at = x.at
    BY <1>5, <1>9, GameFields
  <2>2. y.at = A[m - 1].at
    BY <1>7, <1>9, <2>1
  <2> QED
    BY <1>6, <1>9, <2>2, BoardIs
<1>12. Reverted(x, y, c)
  BY <1>9, <1>10 DEF Reverted
<1>n. Len(vs) # 0 /\ NumbersHold(C[j - 1])
  <2>1. Len(vs) # 0 /\ vs[Len(vs)].command.kind \in Shroud
    BY <1>1, <1>3, <1>7
  <2> QED
    BY <1>2, <2>1, ShroudHolds
<1>13. Sound(UndoCut(C[j - 1]), up, SubSeq(vs, 1, m - 1), y, p, lost, P, A)
  <2>1. Len(vs) # 0 /\ lost \subseteq lost /\ vs[Len(vs)].command = c
        /\ vs[Len(vs)].command.kind # "recall" /\ Board(y) = A[Len(vs) - 1]
        /\ Reverted(x, y, vs[Len(vs)].command)
    BY <1>1, <1>3, <1>7, <1>11, <1>12 DEF Shroud
  <2>2. Sound(UndoCut(C[j - 1]), up, SubSeq(vs, 1, Len(vs) - 1), y, p, lost, P, A)
    BY <1>2, <1>n, <2>1, CutSound
  <2> QED
    BY <1>3, <2>2
<1>14. Sound(C[j], up, SubSeq(us, 1, m - 1), Lit(g, A[m - 1].auto), p, lost, P, A)
  BY <1>4, <1>13 DEF y
<1>15. Retains(up, C[0], C[j])
  <2>1. Retains(up, C[j - 1], UndoCut(C[j - 1])) /\ up \in Nat
    <3>1. Len(vs) # 0
      BY <1>1, <1>3
    <3>2. up \in 0..Len(C[j - 1]) /\ C[j - 1] \in Seq(Orders)
      BY <1>2 DEF Sound, Typed
    <3>3. up \in Nat
      BY <3>2, ElementIs
    <3> QED
      BY <1>2, <1>n, <3>1, <3>3, CutRetains
  <2>2. Retains(up, C[0], C[j - 1])
    BY DEF PeelsTo
  <2> QED
    BY <2>1, <2>2, RetainsOn
<1> QED
  BY <1>1, <1>14, <1>15 DEF PeelsTo

LEMMA PeelSound ==
  ASSUME NEW up, NEW g, NEW p, NEW lost, NEW P, NEW A,
         Sound(cmds, up, undos, g, p, lost, P, A)
  PROVE  /\ Sound(Peeled, up, SubSeq(undos, 1, Top), Lit(g, A[Top].auto), p, lost, P, A)
         /\ A[Top].at = g.at /\ Retains(up, cmds, Peeled)
<1> DEFINE k == Len(OnTop)
           L == Len(undos)
<1>1. cmds \in Seq(Orders) /\ undos \in Stacks /\ g \in Games /\ A[L] = Board(g)
  BY DEF Sound, Typed
<1>2. /\ L \in Nat /\ Top \in 0..L /\ k = L - Top /\ k \in Nat
      /\ \A i \in Top+1..L : undos[i].command.kind \in Shroud
  BY <1>1, TopIs, OnTopIs
<1>3. DOMAIN OnTop = 1..k
  BY <1>1, OnTopIs DEF Stacks
<1>4. PICK C : Peels(C, cmds, k)
  BY <1>1, <1>2, PeelsExist
<1>5. Peeled = C[k]
  BY <1>1, <1>2, <1>3, <1>4, PeeledIs
<1>6. C[0] = cmds /\ \A j \in 1..k : C[j] = UndoCut(C[j - 1])
  BY <1>4 DEF Peels
<1> HIDE DEF k, L
<1> DEFINE H == {j \in 0..k : PeelsTo(C, j, up, undos, g, p, lost, P, A)}
<1>7. 0 \in H
  <2>1. SubSeq(undos, 1, L) = undos /\ L - 0 = L
    BY <1>1, <1>2, BeginAll DEF Stacks, L
  <2>2. A[L].auto = g.auto /\ g.auto \in BOOLEAN
    BY <1>1, GameFields
  <2>3. Lit(g, A[L].auto) = g
    BY <1>1, <2>2, LitTwice
  <2>4. Retains(up, C[0], C[0])
    <3>1. up \in 0..Len(cmds)
      BY DEF Sound, Typed
    <3>2. Len(cmds) \in Nat /\ up \in Nat /\ up <= Len(cmds)
      BY <1>1, <3>1, ElementIs
    <3> QED
      BY <1>6, <3>2, RetainsMore
  <2>5. PeelsTo(C, 0, up, undos, g, p, lost, P, A)
    BY <1>6, <2>1, <2>3, <2>4 DEF PeelsTo, L
  <2> QED
    BY <1>2, <2>5
<1>8. \A j \in 0..k : j # 0 /\ j - 1 \in H => j \in H
  <2> SUFFICES ASSUME NEW j \in 0..k, j # 0, PeelsTo(C, j - 1, up, undos, g, p, lost, P, A)
               PROVE  PeelsTo(C, j, up, undos, g, p, lost, P, A)
    OBVIOUS
  <2>1. j \in Nat /\ j <= Len(undos) /\ j \in 1..k /\ L - j + 1 \in Top+1..L
    BY <1>2 DEF L
  <2>2. C[j] = UndoCut(C[j - 1]) /\ undos[Len(undos) - j + 1].command.kind \in Shroud
    BY <1>2, <1>6, <2>1 DEF L
  <2> QED
    BY <1>1, <2>1, <2>2, PeelOne
<1>9. \A j \in 0..k : j \in H
  <2> HIDE DEF H
  <2> QED
    BY <1>2, <1>7, <1>8, UpFrom
<1>10. PeelsTo(C, k, up, undos, g, p, lost, P, A)
  BY <1>2, <1>9
<1>11. L - k = Top
  BY <1>2
<1>12. Sound(Peeled, up, SubSeq(undos, 1, Top), Lit(g, A[Top].auto), p, lost, P, A)
  BY <1>5, <1>10, <1>11 DEF PeelsTo, L
<1>13. A[Top].at = g.at
  <2>1. A[Top] = Board(Lit(g, A[Top].auto))
    <3>1. Len(SubSeq(undos, 1, Top)) = Top
      BY <1>1, <1>2, BeginIs DEF Stacks, L
    <3> QED
      BY <1>12, <3>1 DEF Sound
  <2>2. Stepped(SubSeq(undos, 1, Top), A) /\ Len(SubSeq(undos, 1, Top)) = Top
    BY <1>1, <1>2, <1>12, BeginIs DEF Sound, Stacks, L
  <2>3. A[Top] \in Boards
    BY <1>2, <2>2 DEF Stepped
  <2>4. A[Top].auto \in BOOLEAN
    BY <2>3, BoardFields
  <2>5. Lit(g, A[Top].auto) \in Games /\ Lit(g, A[Top].auto).at = g.at
    BY <1>1, <2>4, LitFields
  <2> QED
    BY <2>1, <2>5, GameFields
<1>14. Retains(up, cmds, Peeled)
  BY <1>5, <1>6, <1>10 DEF PeelsTo
<1> QED
  BY <1>12, <1>13, <1>14

Standing(cs, up, us, g, p, lost) == \E P, A : Sound(cs, up, us, g, p, lost, P, A)

LEMMA NothingMore ==
  ASSUME NEW S, NEW s \in Seq(S)
  PROVE  s \o <<>> = s /\ <<>> \o s = s
<1>1. <<>> \in Seq(S) /\ Len(<<>>) = 0 /\ Len(s) \in Nat
  OBVIOUS
<1>2. /\ s \o <<>> \in Seq(S) /\ Len(s \o <<>>) = Len(s) + Len(<<>>)
      /\ \A i \in 1..Len(s) : (s \o <<>>)[i] = s[i]
  BY <1>1, CatIs
<1>3. /\ <<>> \o s \in Seq(S) /\ Len(<<>> \o s) = Len(<<>>) + Len(s)
      /\ \A i \in 1..Len(s) : (<<>> \o s)[Len(<<>>) + i] = s[i]
  BY <1>1, CatIs
<1>4. s \o <<>> = s
  BY <1>1, <1>2, SameSequence
<1>5. \A i \in 1..Len(s) : (<<>> \o s)[i] = s[i]
  BY <1>1, <1>3
<1>6. <<>> \o s = s
  BY <1>1, <1>3, <1>5, SameSequence
<1> QED
  BY <1>4, <1>6

LEMMA OneMore ==
  ASSUME NEW S, NEW s \in Seq(S), NEW c \in S
  PROVE  s \o <<c>> = Append(s, c)
<1>1. <<c>> \in Seq(S) /\ Len(<<c>>) = 1 /\ <<c>>[1] = c /\ 1 \in 1..Len(<<c>>) /\ Len(s) \in Nat
  OBVIOUS
<1>2. s \o SubSeq(<<c>>, 1, 1) = Append(s \o SubSeq(<<c>>, 1, 0), <<c>>[1])
  BY <1>1, BeginMore
<1>3. SubSeq(<<c>>, 1, 1) = <<c>> /\ SubSeq(<<c>>, 1, 0) = <<>>
  BY <1>1, BeginAll
<1>4. s \o <<>> = s
  BY NothingMore
<1> QED
  BY <1>1, <1>2, <1>3, <1>4

\* A shroud action is put back.
Lights(x, c, y) == y = IF c.kind = "update_shroud" THEN x ELSE (c.kind = "shroud_on")

LEMMA PutOne ==
  ASSUME NEW cs, NEW up, NEW vs, NEW h \in Games, NEW p, NEW lost,
         NEW x \in BOOLEAN, NEW y \in BOOLEAN,
         Standing(cs, up, vs, Lit(h, x), p, lost),
         NEW c \in Orders, c.kind \in Shroud, ~c.sent, Lights(x, c, y)
  PROVE  Standing(Append(cs, c), up, Append(vs, Action(c)), Lit(h, y), p, lost)
<1> DEFINE g == Lit(h, x)
           b == [at |-> h.at, auto |-> y]
<1>1. PICK P, A : Sound(cs, up, vs, g, p, lost, P, A)
  BY DEF Standing
<1>2. /\ g \in Games /\ g.at = h.at /\ g.name = h.name /\ g.said = h.said /\ g.auto = x
      /\ h.at \in [Units -> Places]
  BY LitFields, GameFields
<1>3. b \in Boards /\ b.at = h.at /\ b.auto = y
  BY <1>2 DEF Boards
<1>4. vs \in Stacks
  BY <1>1 DEF Sound, Typed
<1>5. Len(vs) \in Nat
  BY <1>4, StackIs
<1> HIDE DEF g, b
<1>6. BoardStep(Board(g), c, b)
  BY <1>2, <1>3, GameFields DEF BoardStep, Lights
<1>7. PICK P2 : More(P2, P, Len(vs), Len(cs) + 1)
  BY <1>5, MoreExists
<1>8. PICK A2 : More(A2, A, Len(vs), b)
  BY <1>5, MoreExists
<1>9. Sound(Append(cs, c), up, Append(vs, Action(c)), Execute(g, c), p, lost, P2, A2)
  BY <1>1, <1>3, <1>6, <1>7, <1>8, AppendReal
<1>10. Execute(g, c) = Lit(h, y)
  <2>1. /\ Execute(g, c) \in Games /\ Execute(g, c).at = g.at /\ Execute(g, c).name = g.name
        /\ Execute(g, c).said = g.said
        /\ Execute(g, c).auto = IF c.kind \in {"shroud_on", "shroud_off"}
                                THEN (c.kind = "shroud_on") ELSE g.auto
    BY <1>2, Executed, ExecuteTyped DEF Shroud
  <2>2. Execute(g, c).auto = y
    <3>1. CASE c.kind = "update_shroud"
      BY <1>2, <2>1, <3>1 DEF Lights
    <3>2. CASE c.kind # "update_shroud"
      BY <2>1, <3>2 DEF Lights, Shroud
    <3> QED
      BY <3>1, <3>2
  <2>3. /\ Lit(h, y) \in Games /\ Lit(h, y).at = h.at /\ Lit(h, y).name = h.name
        /\ Lit(h, y).said = h.said /\ Lit(h, y).auto = y
    BY LitFields
  <2> QED
    BY <1>2, <2>1, <2>2, <2>3, SameGame
<1> QED
  BY <1>9, <1>10 DEF Standing

PutTo(i, cs, ds, up, vs, ts, h, a, p, lost) ==
  Standing(cs \o SubSeq(ds, 1, i), up, vs \o SubSeq(ts, 1, i), Lit(h, a[i]), p, lost)

LEMMA PutBack ==
  ASSUME NEW cs, NEW up, NEW vs, NEW h \in Games, NEW p, NEW lost, NEW a,
         Standing(cs, up, vs, Lit(h, a[0]), p, lost),
         NEW ts \in Stacks, NEW ds \in Seq(Orders), Len(ds) = Len(ts),
         \A i \in 0..Len(ts) : a[i] \in BOOLEAN,
         \A i \in 1..Len(ts) : /\ ds[i] = ts[i].command /\ ds[i].kind \in Shroud /\ ~ds[i].sent
                               /\ Lights(a[i - 1], ds[i], a[i])
  PROVE  Standing(cs \o ds, up, vs \o ts, Lit(h, a[Len(ts)]), p, lost)
<1> DEFINE k == Len(ts)
           H == {i \in 0..k : PutTo(i, cs, ds, up, vs, ts, h, a, p, lost)}
<1>1. /\ k \in Nat /\ Len(ds) = k /\ 0 \in 0..k
      /\ \A i \in 1..k : ds[i] \in Orders /\ ts[i] = Action(ts[i].command)
  BY StackIs
<1>2. cs \in Seq(Orders) /\ vs \in Stacks
  BY DEF Standing, Sound, Typed
<1>3. 0 \in H
  <2>1. SubSeq(ds, 1, 0) = <<>> /\ cs \o <<>> = cs
    BY <1>2, BeginAll, NothingMore
  <2>2. SubSeq(ts, 1, 0) = <<>> /\ vs \o <<>> = vs
    BY <1>2, BeginAll, NothingMore DEF Stacks
  <2>3. PutTo(0, cs, ds, up, vs, ts, h, a, p, lost)
    BY <2>1, <2>2 DEF PutTo
  <2> QED
    BY <1>1, <2>3
<1>4. \A i \in 0..k : i # 0 /\ i - 1 \in H => i \in H
  <2> SUFFICES ASSUME NEW i \in 0..k, i # 0, PutTo(i - 1, cs, ds, up, vs, ts, h, a, p, lost)
               PROVE  PutTo(i, cs, ds, up, vs, ts, h, a, p, lost)
    OBVIOUS
  <2>1. i \in 1..k /\ i \in 0..k /\ i - 1 \in 0..k /\ i \in 1..Len(ds) /\ i \in 1..Len(ts)
    BY <1>1
  <2>2. cs \o SubSeq(ds, 1, i) = Append(cs \o SubSeq(ds, 1, i - 1), ds[i])
    BY <1>2, <2>1, BeginMore
  <2>3. vs \o SubSeq(ts, 1, i) = Append(vs \o SubSeq(ts, 1, i - 1), ts[i])
    BY <1>2, <2>1, BeginMore DEF Stacks
  <2>4. ts[i] = Action(ds[i]) /\ ds[i] \in Orders /\ ds[i].kind \in Shroud /\ ~ds[i].sent
        /\ Lights(a[i - 1], ds[i], a[i]) /\ a[i] \in BOOLEAN /\ a[i - 1] \in BOOLEAN
    BY <1>1, <2>1
  <2>5. Standing(cs \o SubSeq(ds, 1, i - 1), up, vs \o SubSeq(ts, 1, i - 1), Lit(h, a[i - 1]), p, lost)
    BY DEF PutTo
  <2>6. Standing(Append(cs \o SubSeq(ds, 1, i - 1), ds[i]), up,
                 Append(vs \o SubSeq(ts, 1, i - 1), Action(ds[i])), Lit(h, a[i]), p, lost)
    BY <2>4, <2>5, PutOne
  <2> QED
    BY <2>2, <2>3, <2>4, <2>6 DEF PutTo
<1>5. \A i \in 0..k : i \in H
  <2> HIDE DEF H
  <2> QED
    BY <1>1, <1>3, <1>4, UpFrom
<1>6. PutTo(k, cs, ds, up, vs, ts, h, a, p, lost)
  BY <1>1, <1>5
<1>7. SubSeq(ds, 1, k) = ds /\ SubSeq(ts, 1, k) = ts
  BY <1>1, BeginAll DEF Stacks
<1> QED
  BY <1>6, <1>7 DEF PutTo

\* The answers to an action's questions.
LEMMA AppendChoices ==
  ASSUME NEW cs \in Seq(Orders), NEW ds \in Seq(Orders), NEW n \in 0..Len(ds),
         NEW up, NEW us, NEW g, NEW p, NEW lost, NEW P, NEW A,
         Sound(cs \o SubSeq(ds, 1, n), up, us, g, p, lost, P, A),
         \A i \in n+1..Len(ds) : ds[i].kind = "choice" /\ ~ds[i].sent,
         n < Len(ds) => After(us, Len(us)) \in Asking
  PROVE  Sound(cs \o ds, up, us, g, p, lost, P, A)
<1> DEFINE H == {i \in n..Len(ds) : Sound(cs \o SubSeq(ds, 1, i), up, us, g, p, lost, P, A)}
<1>1. Len(ds) \in Nat /\ n \in Nat /\ n \in n..Len(ds) /\ Len(ds) \in n..Len(ds)
  OBVIOUS
<1>2. n \in H
  BY <1>1
<1>3. \A i \in n..Len(ds) : i # n /\ i - 1 \in H => i \in H
  <2> SUFFICES ASSUME NEW i \in n..Len(ds), i # n,
                      Sound(cs \o SubSeq(ds, 1, i - 1), up, us, g, p, lost, P, A)
               PROVE  Sound(cs \o SubSeq(ds, 1, i), up, us, g, p, lost, P, A)
    OBVIOUS
  <2>1. i \in 1..Len(ds) /\ i \in n+1..Len(ds) /\ n < Len(ds) /\ ds[i] \in Orders
    BY <1>1
  <2>2. cs \o SubSeq(ds, 1, i) = Append(cs \o SubSeq(ds, 1, i - 1), ds[i])
    BY <2>1, BeginMore
  <2>3. ds[i].kind = "choice" /\ ~ds[i].sent
    BY <2>1
  <2>4. Quiet(ds[i], A[Len(us)], After(us, Len(us)))
    BY <2>1, <2>3 DEF Quiet
  <2>5. Sound(Append(cs \o SubSeq(ds, 1, i - 1), ds[i]), up, us, Execute(g, ds[i]), p, lost, P, A)
    BY <2>1, <2>3, <2>4, AppendQuiet
  <2>6. Execute(g, ds[i]) = g
    BY <2>3, IdleExecutes DEF Idle
  <2> QED
    BY <2>2, <2>5, <2>6
<1>4. \A i \in n..Len(ds) : i \in H
  <2> HIDE DEF H
  <2> QED
    BY <1>1, <1>2, <1>3, UpFrom
<1>5. Sound(cs \o SubSeq(ds, 1, Len(ds)), up, us, g, p, lost, P, A)
  BY <1>1, <1>4
<1>6. SubSeq(ds, 1, Len(ds)) = ds
  BY BeginAll
<1> QED
  BY <1>5, <1>6

\* An action, with the answers to its questions.
LEMMA Acts ==
  ASSUME NEW cs, NEW up, NEW us, NEW g, NEW p, NEW lost, Standing(cs, up, us, g, p, lost),
         NEW b \in Boards, NEW ds \in Seq(Orders), Len(ds) # 0,
         ~ds[1].sent, BoardStep(Board(g), ds[1], b),
         \A i \in 2..Len(ds) : ds[i].kind = "choice" /\ ~ds[i].sent /\ ds[1].kind \in Asking
  PROVE  Standing(cs \o ds, up, Append(us, Action(ds[1])), Execute(g, ds[1]), p, lost)
<1> DEFINE c == ds[1]
           vs == Append(us, Action(c))
<1>1. PICK P, A : Sound(cs, up, us, g, p, lost, P, A)
  BY DEF Standing
<1>2. cs \in Seq(Orders) /\ us \in Stacks
  BY <1>1 DEF Sound, Typed
<1>3. Len(us) \in Nat /\ Len(ds) \in Nat /\ 1 \in 1..Len(ds) /\ 1 \in 0..Len(ds) /\ c \in Orders
  BY <1>2, StackIs
<1>4. PICK P2 : More(P2, P, Len(us), Len(cs) + 1)
  BY <1>3, MoreExists
<1>5. PICK A2 : More(A2, A, Len(us), b)
  BY <1>3, MoreExists
<1> HIDE DEF c
<1>6. Sound(Append(cs, c), up, vs, Execute(g, c), p, lost, P2, A2)
  <2>1. ~c.sent /\ BoardStep(Board(g), c, b)
    BY DEF c
  <2> QED
    BY <1>1, <1>3, <1>4, <1>5, <2>1, AppendReal
<1>7. cs \o SubSeq(ds, 1, 1) = Append(cs, c)
  <2>1. cs \o SubSeq(ds, 1, 1) = Append(cs \o SubSeq(ds, 1, 0), ds[1])
    BY <1>2, <1>3, BeginMore
  <2>2. SubSeq(ds, 1, 0) = <<>> /\ cs \o <<>> = cs
    BY <1>2, BeginAll, NothingMore
  <2> QED
    BY <2>1, <2>2 DEF c
<1>8. 1 < Len(ds) => After(vs, Len(vs)) \in Asking
  <2>1. Len(vs) = Len(us) + 1 /\ vs[Len(us) + 1] = Action(c)
    <3>1. Action(c) \in [command : Orders, data : {<<>>}]
      BY <1>3 DEF Action
    <3> QED
      BY <1>2, <3>1, AppendIs DEF Stacks
  <2>2. After(vs, Len(vs)) = c.kind
    BY <1>3, <2>1 DEF After, Action
  <2>3. 1 < Len(ds) => c.kind \in Asking
    <3>1. 1 < Len(ds) => 2 \in 2..Len(ds)
      BY <1>3
    <3> QED
      BY <3>1 DEF c
  <2> QED
    BY <2>2, <2>3
<1> HIDE DEF vs
<1>9. Sound(cs \o ds, up, vs, Execute(g, c), p, lost, P2, A2)
  <2>1. \A i \in 1+1..Len(ds) : ds[i].kind = "choice" /\ ~ds[i].sent
    OBVIOUS
  <2>2. Sound(cs \o SubSeq(ds, 1, 1), up, vs, Execute(g, c), p, lost, P2, A2)
    BY <1>6, <1>7
  <2> QED
    BY <1>2, <1>3, <1>8, <2>1, <2>2, AppendChoices
<1> QED
  BY <1>9 DEF Standing, c, vs

\* ... that cannot be undone.
LEMMA Settles ==
  ASSUME NEW cs, NEW up, NEW us, NEW g, NEW p, NEW lost, Standing(cs, up, us, g, p, lost)
  PROVE  Settled(cs, up, g, p, lost) /\ Standing(cs, up, <<>>, g, p, lost)
<1>1. Settled(cs, up, g, p, lost)
  BY SoundSettles DEF Standing
<1> QED
  BY <1>1, SettledSound DEF Standing

LEMMA SettledStands ==
  ASSUME NEW cs, NEW up, NEW g, NEW p, NEW lost, Settled(cs, up, g, p, lost)
  PROVE  Standing(cs, up, <<>>, g, p, lost)
  BY SettledSound DEF Standing

-----------------------------------------------------------------------------
(* Undo.                                                                     *)

\* The shroud actions come back on top of what is below.
LEMMA Regains ==
  ASSUME undos \in Stacks, NEW A, Stepped(undos, A), NEW cs, NEW up, NEW vs, NEW h \in Games,
         NEW p, NEW lost, Standing(cs, up, vs, Lit(h, A[Top].auto), p, lost)
  PROVE  Standing(cs \o Again, up, vs \o OnTop, Lit(h, A[Len(undos)].auto), p, lost)
<1> DEFINE k == Len(OnTop)
           a == [i \in 0..k |-> A[Top + i].auto]
<1>1. /\ Len(undos) \in Nat /\ Top \in 0..Len(undos) /\ k = Len(undos) - Top /\ k \in Nat
      /\ OnTop \in Stacks /\ Again \in Seq(Orders) /\ Len(Again) = k
      /\ \A i \in 1..k : /\ OnTop[i] = undos[Top + i] /\ OnTop[i].command.kind \in Shroud
                         /\ Again[i] = OnTop[i].command
  BY TopIs, OnTopIs
<1> HIDE DEF k
<1>2. \A i \in 0..k : a[i] = A[Top + i].auto
  OBVIOUS
<1> HIDE DEF a
<1>3. ASSUME NEW i \in 0..k PROVE a[i] \in BOOLEAN
  <2>1. Top + i \in 0..Len(undos)
    BY <1>1
  <2>2. A[Top + i] \in Boards
    BY <2>1 DEF Stepped
  <2> QED
    BY <1>2, <2>2, BoardFields
<1>4. ASSUME NEW i \in 1..k
      PROVE  /\ Again[i] = OnTop[i].command /\ Again[i].kind \in Shroud /\ ~Again[i].sent
             /\ Lights(a[i - 1], Again[i], a[i])
  <2> DEFINE j == Top + i
             c == undos[j].command
  <2>1. j \in 1..Len(undos) /\ i \in 0..k /\ i - 1 \in 0..k /\ Top + (i - 1) = j - 1
    BY <1>1
  <2>2. Again[i] = c /\ c.kind \in Shroud
    BY <1>1
  <2>3. a[i] = A[j].auto
    BY <1>2, <2>1
  <2> HIDE DEF j
  <2>4. a[i - 1] = A[j - 1].auto
    BY <1>2, <2>1
  <2>5. BoardStep(A[j - 1], c, A[j]) /\ ~c.sent
    BY <2>1 DEF Stepped
  <2> HIDE DEF c
  <2>6. c.kind \notin Moving
    BY <2>2 DEF Shroud, Moving
  <2>7. A[j].auto = IF c.kind = "update_shroud" THEN A[j - 1].auto ELSE (c.kind = "shroud_on")
    BY <2>5, <2>6 DEF BoardStep, AtStep
  <2>8. Lights(a[i - 1], c, a[i])
    BY <2>3, <2>4, <2>7 DEF Lights
  <2> QED
    BY <1>1, <2>2, <2>5, <2>8
<1>5. a[0] = A[Top].auto /\ a[k] = A[Len(undos)].auto
  <2>1. 0 \in 0..k /\ k \in 0..k /\ Top + 0 = Top /\ Top + k = Len(undos)
    BY <1>1
  <2> QED
    BY <1>2, <2>1
<1>6. Standing(cs, up, vs, Lit(h, a[0]), p, lost) /\ Len(Again) = Len(OnTop)
  BY <1>1, <1>5 DEF k
<1>7. Standing(cs \o Again, up, vs \o OnTop, Lit(h, a[Len(OnTop)]), p, lost)
  BY <1>1, <1>3, <1>4, <1>6, PutBack DEF k
<1> QED
  BY <1>5, <1>7 DEF k

\* With nothing but shroud actions on the stack, undo puts back what it took.
LEMMA UndoNothing ==
  ASSUME NEW up, NEW g, NEW p, NEW lost, Standing(cmds, up, undos, g, p, lost), Top = 0
  PROVE  Standing(Peeled \o Again, up, undos, g, p, lost)
<1>1. PICK P, A : Sound(cmds, up, undos, g, p, lost, P, A)
  BY DEF Standing
<1>2. undos \in Stacks /\ g \in Games /\ A[Len(undos)] = Board(g) /\ Stepped(undos, A)
  BY <1>1 DEF Sound, Typed
<1>3. Standing(Peeled, up, SubSeq(undos, 1, 0), Lit(g, A[Top].auto), p, lost)
  BY <1>1, PeelSound DEF Standing
<1>4. SubSeq(undos, 1, 0) = <<>> /\ SubSeq(undos, 1, Len(undos)) = undos
  BY <1>2, BeginAll DEF Stacks
<1>5. Standing(Peeled \o Again, up, <<>> \o OnTop, Lit(g, A[Len(undos)].auto), p, lost)
  BY <1>2, <1>3, <1>4, Regains
<1>6. OnTop = undos
  <2>1. Top + 1 = 1
    OBVIOUS
  <2> QED
    BY <1>4, <2>1 DEF OnTop
<1>7. <<>> \o OnTop = undos
  BY <1>2, <1>6, NothingMore DEF Stacks
<1>8. Lit(g, A[Len(undos)].auto) = g
  <2>1. A[Len(undos)].auto = g.auto /\ g.auto \in BOOLEAN
    BY <1>2, GameFields
  <2> QED
    BY <1>2, <2>1, LitTwice
<1> QED
  BY <1>5, <1>7, <1>8

\* What redo needs of an action.
Redoable(a) ==
  /\ a.command \in Orders /\ ~a.command.sent
  /\ a.data \in Seq(Orders) /\ Len(a.data) # 0 /\ a.data[1] = a.command
  /\ \A i \in 2..Len(a.data) : a.data[i].kind = "choice" /\ ~a.data[i].sent /\ a.command.kind \in Asking

LEMMA CutIs ==
  ASSUME NEW cs, NEW up, NEW us, NEW g, NEW p, NEW lost, NEW P, NEW A,
         Sound(cs, up, us, g, p, lost, P, A), Len(us) # 0
  PROVE  Redoable([command |-> us[Len(us)].command, data |-> Cut(cs)])
<1> DEFINE m == Len(us)
           n == P[m]
           I == {n} \cup {i \in n+1..Len(cs) : Dependent(cs[i])}
           d == Cut(cs)
<1>1. /\ cs \in Seq(Orders) /\ up \in 0..Len(cs) /\ us \in Stacks /\ Paired(cs, up, us, P)
      /\ Stepped(us, A) /\ Calm(cs, us, P, A)
  BY DEF Sound, Typed
<1>2. /\ m \in 1..m /\ n \in 1..Len(cs) /\ up < n /\ LastReal(cs) = n
      /\ cs[n] = us[m].command /\ ~cs[n].sent
      /\ \A j \in n+1..Len(cs) : Quiet(cs[j], A[m], cs[n].kind)
  BY <1>1, SoundTop
<1>3. d = Kept(cs, I)
  BY <1>2 DEF Cut
<1> HIDE DEF d, m, n
<1>4. d \in Seq(Orders) /\ \E f : Part(d, cs, I, f)
  <2> HIDE DEF I
  <2> QED
    BY <1>1, <1>3, KeptIsPart
<1>5. PICK f : Part(d, cs, I, f)
  BY <1>4
<1>6. Len(d) \in Nat /\ Len(cs) \in Nat /\ n \in I /\ \A i \in I : i >= n /\ i \in 1..Len(cs)
  BY <1>1, <1>2, <1>4
<1>7. PICK e \in 1..Len(d) : f[e] = n
  <2> HIDE DEF I
  <2> QED
    BY <1>2, <1>5, <1>6, PartOnto
<1>p. f \in [0..Len(d) -> 0..Len(cs)] /\ \A i \in 1..Len(d) : f[i] \in I /\ d[i] = cs[f[i]]
  BY <1>5 DEF Part
<1>8. Len(d) # 0 /\ 1 \in 1..Len(d) /\ f[1] = n
  <2>1. 1 \in 1..Len(d) /\ 1 \in 0..Len(d) /\ e \in 0..Len(d)
    BY <1>6, <1>7
  <2>2. f[1] >= n /\ f[1] \in Nat
    BY <1>6, <1>p, <2>1
  <2>3. CASE e = 1
    BY <1>7, <2>1, <2>3
  <2>4. CASE e # 1
    <3>1. 1 < e
      BY <1>6, <1>7, <2>4
    <3>2. f[1] < f[e]
      <4> HIDE DEF I
      <4> QED
        BY <1>5, <1>6, <2>1, <3>1, PartRises
    <3> QED
      BY <1>2, <1>6, <1>7, <2>2, <3>2
  <2> QED
    BY <1>6, <2>1, <2>3, <2>4
<1>9. d[1] = cs[n]
  BY <1>8, <1>p
<1>10. ASSUME NEW i \in 2..Len(d)
       PROVE  d[i].kind = "choice" /\ ~d[i].sent /\ cs[n].kind \in Asking
  <2>1. i \in 1..Len(d) /\ 1 \in 0..Len(d) /\ i \in 0..Len(d) /\ 1 < i
    BY <1>6
  <2>2. f[1] < f[i]
    <3> HIDE DEF I
    <3> QED
      BY <1>5, <1>6, <2>1, PartRises
  <2>3. f[i] \in I /\ d[i] = cs[f[i]] /\ f[i] # n
    BY <1>6, <1>8, <1>p, <2>1, <2>2
  <2>4. f[i] \in n+1..Len(cs) /\ Dependent(cs[f[i]])
    BY <2>3
  <2>5. Quiet(cs[f[i]], A[m], cs[n].kind)
    BY <1>2, <2>4
  <2> QED
    BY <2>3, <2>4, <2>5 DEF Quiet, Dependent
<1>11. cs[n] \in Orders /\ us[Len(us)].command = cs[n]
  BY <1>1, <1>2 DEF m
<1>12. Redoable([command |-> cs[n], data |-> d])
  BY <1>2, <1>4, <1>8, <1>9, <1>10, <1>11 DEF Redoable
<1> QED
  BY <1>11, <1>12 DEF d

\* One action is taken back.
Undone(g, h, c, cs, up, us, p, missing) ==
  /\ Standing(cs, up, us, h, p, missing)
  /\ AtStep(h.at, c, g.at) /\ Alone(h.at) /\ h \in Games

LEMMA UndoOne ==
  ASSUME NEW up, NEW g, NEW p, NEW lost, Standing(cmds, up, undos, g, p, lost), Top # 0,
         CanTakeBack(g, undos[Top].command) => NumbersHold(Peeled), NEW missing, lost \subseteq missing,
         undos[Top].command.kind = "recall" /\ Orphans(Peeled, LastReal(Peeled)) # {}
            => undos[Top].command.unit \in missing
  PROVE  LET c == undos[Top].command
         IN  /\ CanTakeBack(g, c)
             /\ Undone(g, TakeBack(g, c), c, UndoCut(Peeled) \o Again, up,
                       SubSeq(undos, 1, Top - 1) \o OnTop, p, missing)
             /\ Redoable([command |-> c, data |-> Cut(Peeled)])
<1> DEFINE c == undos[Top].command
           us == SubSeq(undos, 1, Top)
           h == TakeBack(g, c)
<1>1. PICK P, A : Sound(cmds, up, undos, g, p, lost, P, A)
  BY DEF Standing
<1>2. /\ undos \in Stacks /\ g \in Games /\ OwnNames(g) /\ A[Len(undos)] = Board(g)
      /\ Stepped(undos, A)
  BY <1>1 DEF Sound, Typed
<1>3. /\ Len(undos) \in Nat /\ Top \in 1..Len(undos) /\ Top \in 0..Len(undos)
      /\ Top - 1 \in 0..Top /\ Top - 1 \in 0..Len(undos) /\ c.kind \notin Shroud
  BY <1>2, TopIs
<1> DEFINE gl == Lit(g, A[Top].auto)
           hl == Lit(h, A[Top - 1].auto)
<1>4. Sound(Peeled, up, us, gl, p, lost, P, A) /\ A[Top].at = g.at
  BY <1>1, PeelSound
<1>5. Len(us) = Top /\ us[Top] = undos[Top] /\ us \in Stacks
  <2>1. undos \in Seq([command : Orders, data : {<<>>}])
    BY <1>2 DEF Stacks
  <2>2. /\ us \in Seq([command : Orders, data : {<<>>}]) /\ Len(us) = Top
        /\ \A i \in 1..Top : us[i] = undos[i]
    BY <1>3, <2>1, BeginIs
  <2>3. Top \in 1..Top
    BY <1>3
  <2> QED
    BY <2>2, <2>3 DEF Stacks
<1>6. /\ A[Top] \in Boards /\ A[Top - 1] \in Boards /\ Alone(A[Top - 1].at)
      /\ BoardStep(A[Top - 1], c, A[Top])
  BY <1>2, <1>3 DEF Stepped
<1>7. AtStep(A[Top - 1].at, c, g.at) /\ A[Top].auto = A[Top - 1].auto
  BY <1>3, <1>4, <1>6 DEF BoardStep
<1>8. c \in Orders
  BY <1>2, <1>3, StackIs
<1>9. /\ CanTakeBack(g, c) /\ h \in Games /\ OwnNames(h) /\ h.at = A[Top - 1].at
      /\ h.said = g.said /\ h.auto = g.auto
      /\ \A v \in Units : ~(c.kind = "recruit" /\ v = c.unit) => h.name[v] = g.name[v]
  <2>1. A[Top - 1].at \in [Units -> Places]
    BY <1>6, BoardFields
  <2> HIDE DEF c
  <2> QED
    BY <1>2, <1>6, <1>7, <1>8, <2>1, StepTakenBack
<1>n. NumbersHold(Peeled)
  BY <1>9
<1>10. A[Top].auto \in BOOLEAN /\ A[Top - 1].auto \in BOOLEAN
  BY <1>6, BoardFields
<1> HIDE DEF h, c, us
<1>11. /\ gl \in Games /\ gl.at = g.at /\ gl.name = g.name /\ gl.said = g.said
       /\ hl \in Games /\ hl.at = h.at /\ hl.name = h.name /\ hl.said = h.said
       /\ hl.auto = A[Top - 1].auto /\ OwnNames(hl)
  BY <1>2, <1>9, <1>10, LitFields
<1> HIDE DEF gl, hl
<1>12. Reverted(gl, hl, c)
  BY <1>9, <1>11 DEF Reverted
<1>13. Board(hl) = A[Top - 1]
  BY <1>6, <1>9, <1>11, BoardIs
<1>14. Sound(UndoCut(Peeled), up, SubSeq(us, 1, Top - 1), hl, p, missing, P, A)
  <2>1. /\ Len(us) # 0 /\ us[Len(us)].command = c /\ Reverted(gl, hl, us[Len(us)].command)
        /\ Board(hl) = A[Len(us) - 1]
    BY <1>3, <1>5, <1>12, <1>13 DEF c
  <2>2. us[Len(us)].command.kind = "recall" /\ Orphans(Peeled, LastReal(Peeled)) # {}
          => us[Len(us)].command.unit \in missing
    BY <2>1 DEF c
  <2>3. Sound(UndoCut(Peeled), up, SubSeq(us, 1, Len(us) - 1), hl, p, missing, P, A)
    BY <1>4, <1>n, <2>1, <2>2, CutSound
  <2> QED
    BY <1>5, <2>3
<1>15. SubSeq(us, 1, Top - 1) = SubSeq(undos, 1, Top - 1)
  BY <1>2, <1>3, BeginTwice DEF us, Stacks
<1>16. Standing(UndoCut(Peeled) \o Again, up, SubSeq(undos, 1, Top - 1) \o OnTop, h, p, missing)
  <2>1. Standing(UndoCut(Peeled), up, SubSeq(undos, 1, Top - 1), Lit(h, A[Top].auto), p, missing)
    BY <1>7, <1>14, <1>15 DEF Standing, hl
  <2>2. Standing(UndoCut(Peeled) \o Again, up, SubSeq(undos, 1, Top - 1) \o OnTop,
                 Lit(h, A[Len(undos)].auto), p, missing)
    BY <1>2, <1>9, <2>1, Regains
  <2>3. A[Len(undos)].auto = h.auto /\ h.auto \in BOOLEAN
    BY <1>2, <1>9, GameFields
  <2>4. Lit(h, A[Len(undos)].auto) = h
    BY <1>9, <2>3, LitTwice
  <2> QED
    BY <2>2, <2>4
<1>17. Redoable([command |-> c, data |-> Cut(Peeled)])
  <2>1. Redoable([command |-> us[Len(us)].command, data |-> Cut(Peeled)])
    BY <1>3, <1>4, <1>5, CutIs
  <2> QED
    BY <1>5, <2>1 DEF c
<1>18. Undone(g, h, c, UndoCut(Peeled) \o Again, up, SubSeq(undos, 1, Top - 1) \o OnTop, p, missing)
  BY <1>6, <1>7, <1>9, <1>16 DEF Undone
<1> QED
  BY <1>9, <1>17, <1>18 DEF c, h

-----------------------------------------------------------------------------
(* The invariant.                                                            *)

\* B are the places of the units after each redo.
Restorable(rs, B, at) ==
  /\ rs \in Seq([command : Orders, data : Seq(Orders)])
  /\ \A i \in 0..Len(rs) : B[i] \in [Units -> Places] /\ Alone(B[i])
  /\ B[Len(rs)] = at
  /\ \A i \in 1..Len(rs) : AtStep(B[i], rs[i].command, B[i - 1]) /\ Redoable(rs[i])

CanRedo(rs, at) == \E B : Restorable(rs, B, at)

Inv ==
  /\ Standing(cmds, upto, undos, game, peer, lapsed)
  /\ CanRedo(redos, game.at)
  /\ lapsed \subseteq Units /\ control \in {"ours", "leaving", "lost"}

LEMMA StandingFacts ==
  ASSUME NEW cs, NEW up, NEW us, NEW g, NEW p, NEW lost, Standing(cs, up, us, g, p, lost)
  PROVE  /\ cs \in Seq(Orders) /\ up \in 0..Len(cs) /\ us \in Stacks
         /\ g \in Games /\ OwnNames(g) /\ p \in Games /\ OwnNames(p) /\ Alone(g.at)
<1>1. Settled(cs, up, g, p, lost)
  BY Settles
<1>2. Typed(cs, up, us, g, p)
  BY DEF Standing, Sound
<1> QED
  BY <1>1, <1>2 DEF Settled, Typed

LEMMA NoRedo ==
  ASSUME NEW cs, NEW up, NEW us, NEW g, NEW p, NEW lost, Standing(cs, up, us, g, p, lost)
  PROVE  CanRedo(<<>>, g.at)
<1> DEFINE B == [i \in 0..0 |-> g.at]
<1>1. g \in Games /\ Alone(g.at)
  BY StandingFacts
<1>2. g.at \in [Units -> Places]
  BY <1>1, GameFields
<1>3. Len(<<>>) = 0 /\ <<>> \in Seq([command : Orders, data : Seq(Orders)])
  OBVIOUS
<1>4. B[0] = g.at /\ \A i \in 0..Len(<<>>) : i = 0
  BY <1>3
<1>5. \A i \in 1..Len(<<>>) : FALSE
  BY <1>3
<1> HIDE DEF B
<1>6. \A i \in 1..Len(<<>>) : AtStep(B[i], <<>>[i].command, B[i - 1]) /\ Redoable(<<>>[i])
  BY <1>5
<1>7. \A i \in 0..Len(<<>>) : B[i] \in [Units -> Places] /\ Alone(B[i])
  BY <1>1, <1>2, <1>4
<1>8. Restorable(<<>>, B, g.at)
  BY <1>3, <1>4, <1>6, <1>7 DEF Restorable
<1> QED
  BY <1>8 DEF CanRedo

\* Commands that are about nothing.
Plain == {"fight", "speak", "choice", "seed", "start"} \cup Shroud

LEMMA PlainCommand ==
  ASSUME NEW k \in Plain
  PROVE  /\ Command(k) \in Orders /\ Command(k).kind = k /\ ~Command(k).sent
         /\ AsSent(Command(k)) \in Orders /\ AsSent(Command(k)).kind = k /\ AsSent(Command(k)).sent
<1>1. Command(k) \in Commands /\ Command(k).kind = k /\ ~Command(k).sent
  BY DEF Command, Commands, Kinds, Plain
<1>2. Command(k) \in Orders
  BY <1>1 DEF Orders, Plain, Shroud
<1> QED
  BY <1>1, <1>2, AsSentFields

-----------------------------------------------------------------------------
(* Actions.                                                                  *)

\* An action's commands with an answer more.
LEMMA Answered ==
  ASSUME NEW ds \in Seq(Orders), Len(ds) # 0, NEW n \in 0..1, n # 0 => ds[1].kind \in Asking,
         \A i \in 2..Len(ds) : ds[i].kind = "choice" /\ ~ds[i].sent /\ ds[1].kind \in Asking,
         NEW x, x = [i \in 1..n |-> Command("choice")]
  PROVE  /\ x \in Seq(Orders) /\ ds \o x \in Seq(Orders) /\ Len(ds \o x) # 0
         /\ (ds \o x)[1] = ds[1]
         /\ \A i \in 2..Len(ds \o x) : /\ (ds \o x)[i].kind = "choice" /\ ~(ds \o x)[i].sent
                                      /\ ds[1].kind \in Asking
<1>1. Command("choice") \in Orders /\ Command("choice").kind = "choice" /\ ~Command("choice").sent
  BY PlainCommand DEF Plain
<1>2. /\ x \in Seq(Orders) /\ Len(x) = n
      /\ \A i \in 1..n : x[i].kind = "choice" /\ ~x[i].sent
  <2>1. x \in [1..n -> Orders]
    BY <1>1
  <2>2. x \in Seq(Orders) /\ Len(x) = n
    BY <2>1
  <2> QED
    BY <1>1, <2>2
<1> DEFINE es == ds \o x
<1>3. /\ es \in Seq(Orders) /\ Len(es) = Len(ds) + n
      /\ \A i \in 1..Len(ds) : es[i] = ds[i]
      /\ \A i \in 1..n : es[Len(ds) + i] = x[i]
  BY <1>2, CatIs
<1>4. Len(ds) \in Nat /\ 1 \in 1..Len(ds)
  OBVIOUS
<1> HIDE DEF es
<1>5. ASSUME NEW i \in 2..Len(es)
      PROVE  es[i].kind = "choice" /\ ~es[i].sent /\ ds[1].kind \in Asking
  <2>1. CASE i <= Len(ds)
    <3>1. i \in 1..Len(ds) /\ i \in 2..Len(ds)
      BY <1>4, <2>1
    <3> QED
      BY <1>3, <3>1
  <2>2. CASE ~(i <= Len(ds))
    <3> DEFINE k == i - Len(ds)
    <3>1. k \in 1..n /\ Len(ds) + k = i /\ n # 0
      BY <1>3, <1>4, <2>2
    <3> HIDE DEF k
    <3>2. es[i] = x[k]
      BY <1>3, <3>1
    <3> QED
      BY <1>2, <3>1, <3>2
  <2> QED
    BY <2>1, <2>2
<1>6. Len(es) # 0 /\ es[1] = ds[1]
  BY <1>3, <1>4
<1> QED
  BY <1>2, <1>3, <1>5, <1>6 DEF es

LEMMA Performs ==
  ASSUME Inv, NEW c \in Orders, ~c.sent, NEW n \in 0..1, n # 0 => c.kind \in Asking,
         NEW undoable \in BOOLEAN, Perform(c, n, undoable),
         NEW b \in Boards, BoardStep(Board(game), c, b)
  PROVE  Inv'
<1> DEFINE x == [i \in 1..n |-> Command("choice")]
           ds == <<c>> \o x
<1>3. /\ <<c>> \in Seq(Orders) /\ Len(<<c>>) # 0 /\ <<c>>[1] = c
      /\ \A i \in 2..Len(<<c>>) : FALSE
  OBVIOUS
<1>5. /\ x \in Seq(Orders) /\ ds \in Seq(Orders) /\ Len(ds) # 0 /\ ds[1] = c
      /\ \A i \in 2..Len(ds) : ds[i].kind = "choice" /\ ~ds[i].sent /\ ds[1].kind \in Asking
  <2> DEFINE s == <<c>>
  <2>1. /\ s \in Seq(Orders) /\ Len(s) # 0 /\ s[1] = c
        /\ \A i \in 2..Len(s) : s[i].kind = "choice" /\ ~s[i].sent /\ s[1].kind \in Asking
    BY <1>3
  <2> HIDE DEF s, x
  <2>2. x = [i \in 1..n |-> Command("choice")]
    BY DEF x
  <2>3. /\ x \in Seq(Orders) /\ s \o x \in Seq(Orders) /\ Len(s \o x) # 0 /\ (s \o x)[1] = s[1]
        /\ \A i \in 2..Len(s \o x) : /\ (s \o x)[i].kind = "choice" /\ ~(s \o x)[i].sent
                                     /\ s[1].kind \in Asking
    BY <2>1, <2>2, Answered
  <2> QED
    BY <2>1, <2>3 DEF s
<1> HIDE DEF x, ds
<1>6. Standing(cmds, upto, undos, game, peer, lapsed)
  BY DEF Inv
<1>7. Standing(cmds \o ds, upto, Append(undos, Action(c)), Execute(game, c), peer, lapsed)
  <2>1. Len(ds) # 0 /\ ~ds[1].sent /\ BoardStep(Board(game), ds[1], b)
    BY <1>5
  <2>2. Standing(cmds \o ds, upto, Append(undos, Action(ds[1])), Execute(game, ds[1]), peer, lapsed)
    BY <1>5, <1>6, <2>1, Acts
  <2> QED
    BY <1>5, <2>2
<1>8. cmds' = cmds \o ds
  <2>1. cmds \in Seq(Orders)
    BY <1>6, StandingFacts
  <2>2. (cmds \o <<c>>) \o x = cmds \o (<<c>> \o x)
    BY <1>3, <1>5, <2>1, ConcatAssociative
  <2> QED
    BY <2>2 DEF Perform, x, ds
<1>9. /\ game' = Execute(game, c) /\ redos' = <<>>
      /\ undos' = IF undoable THEN Append(undos, Action(c)) ELSE <<>>
      /\ upto' = upto /\ peer' = peer /\ lapsed' = lapsed /\ control' = control
  BY DEF Perform
<1>10. Standing(cmds', upto', undos', game', peer', lapsed')
  <2>1. CASE undoable
    BY <1>7, <1>8, <1>9, <2>1
  <2>2. CASE ~undoable
    <3>1. Standing(cmds \o ds, upto, <<>>, Execute(game, c), peer, lapsed)
      BY <1>7, Settles
    <3> QED
      BY <1>8, <1>9, <2>2, <3>1
  <2> QED
    BY <2>1, <2>2
<1>11. CanRedo(redos', game'.at)
  BY <1>9, <1>10, NoRedo
<1>12. lapsed' \subseteq Units /\ control' \in {"ours", "leaving", "lost"}
  BY <1>9 DEF Inv
<1> QED
  BY <1>10, <1>11, <1>12 DEF Inv

\* The board after a command brought a unit.
LEMMA BoardAfter ==
  ASSUME NEW g \in Games, NEW c \in Orders, NEW u \in Units, c.kind \in Moving,
         c.kind # "move" => c.unit = u, g.at[u] = Source(c), Goal(c) \in Places,
         c.kind # "disband" => c.to \in Hexes /\ Free(g, c.to),
         c.kind = "move" => c.at \in Hexes
  PROVE  \E b \in Boards : BoardStep(Board(g), c, b)
<1> DEFINE a == [g.at EXCEPT ![u] = Goal(c)]
           b == [at |-> a, auto |-> g.auto]
<1>1. g.at \in [Units -> Places] /\ g.auto \in BOOLEAN /\ Board(g).at = g.at /\ Board(g).auto = g.auto
  BY GameFields
<1>2. a \in [Units -> Places]
  BY <1>1
<1>3. b \in Boards /\ b.at = a /\ b.auto = g.auto
  BY <1>1, <1>2 DEF Boards
<1>4. Brings(c, u, g.at, a)
  BY DEF Brings
<1> HIDE DEF a, b
<1>5. AtStep(g.at, c, a)
  BY <1>4 DEF AtStep, Vacant, Free
<1>6. BoardStep(Board(g), c, b)
  BY <1>1, <1>3, <1>5 DEF BoardStep
<1> QED
  BY <1>3, <1>6

LEMMA RecruitKeeps ==
  ASSUME Inv, Recruit
  PROVE  Inv'
<1>1. PICK u \in Recruits, h \in Hexes, n \in 0..1, undoable \in BOOLEAN :
        /\ game.at[u] = "unborn" /\ Free(game, h)
        /\ Perform([Command("recruit") EXCEPT !.unit = u, !.to = h], n, undoable)
  BY DEF Recruit
<1> DEFINE c == [Command("recruit") EXCEPT !.unit = u, !.to = h]
<1>2. c \in Commands /\ c.kind = "recruit" /\ c.unit = u /\ c.to = h /\ ~c.sent
  BY DEF Command, Commands, Kinds, Units
<1>3. Perform(c, n, undoable)
  BY <1>1
<1> HIDE DEF c
<1>4. c \in Orders
  BY <1>2 DEF Orders
<1>5. c.kind \in Asking /\ u \in Units
  BY <1>2 DEF Asking, Units
<1>6. game \in Games
  BY StandingFacts DEF Inv
<1>7. PICK b \in Boards : BoardStep(Board(game), c, b)
  <2>1. /\ c.kind \in Moving /\ c.unit = u /\ game.at[u] = Source(c) /\ Goal(c) \in Places
        /\ c.to \in Hexes /\ Free(game, c.to) /\ c.kind # "move"
    BY <1>1, <1>2 DEF Moving, Source, Goal, Places
  <2> QED
    BY <1>4, <1>5, <1>6, <2>1, BoardAfter
<1> QED
  BY <1>2, <1>3, <1>4, <1>5, <1>7, Performs

LEMMA RecallKeeps ==
  ASSUME Inv, Recall
  PROVE  Inv'
<1>1. PICK u \in Veterans, h \in Hexes, n \in 0..1, undoable \in BOOLEAN :
        /\ game.at[u] = "recall" /\ Free(game, h)
        /\ Perform([Command("recall") EXCEPT !.unit = u, !.to = h], n, undoable)
  BY DEF Recall
<1> DEFINE c == [Command("recall") EXCEPT !.unit = u, !.to = h]
<1>2. c \in Commands /\ c.kind = "recall" /\ c.unit = u /\ c.to = h /\ ~c.sent
  BY DEF Command, Commands, Kinds, Units
<1>3. Perform(c, n, undoable)
  BY <1>1
<1> HIDE DEF c
<1>4. c \in Orders
  BY <1>2 DEF Orders
<1>5. c.kind \in Asking /\ u \in Units
  BY <1>2 DEF Asking, Units
<1>6. game \in Games
  BY StandingFacts DEF Inv
<1>7. PICK b \in Boards : BoardStep(Board(game), c, b)
  <2>1. /\ c.kind \in Moving /\ c.unit = u /\ game.at[u] = Source(c) /\ Goal(c) \in Places
        /\ c.to \in Hexes /\ Free(game, c.to) /\ c.kind # "move"
    BY <1>1, <1>2 DEF Moving, Source, Goal, Places
  <2> QED
    BY <1>4, <1>5, <1>6, <2>1, BoardAfter
<1> QED
  BY <1>2, <1>3, <1>4, <1>5, <1>7, Performs

LEMMA MoveKeeps ==
  ASSUME Inv, MoveUnit
  PROVE  Inv'
<1>1. PICK u \in Units, h \in Hexes, n \in 0..1, undoable \in BOOLEAN :
        /\ game.at[u] \in Hexes /\ Free(game, h)
        /\ Perform([Command("move") EXCEPT !.at = game.at[u], !.to = h], n, undoable)
  BY DEF MoveUnit
<1> DEFINE from == game.at[u]
           c == [Command("move") EXCEPT !.at = from, !.to = h]
<1>2. from \in Hexes /\ Perform(c, n, undoable) /\ from = game.at[u]
  BY <1>1
<1> HIDE DEF from
<1>3. c \in Commands /\ c.kind = "move" /\ c.at = from /\ c.to = h /\ ~c.sent
  BY <1>2 DEF Command, Commands, Kinds
<1> HIDE DEF c
<1>4. c \in Orders
  BY <1>2, <1>3 DEF Orders
<1>5. c.kind \in Asking
  BY <1>3 DEF Asking
<1>6. game \in Games
  BY StandingFacts DEF Inv
<1>7. PICK b \in Boards : BoardStep(Board(game), c, b)
  <2>1. /\ c.kind \in Moving /\ c.kind = "move" /\ game.at[u] = Source(c) /\ Goal(c) \in Places
        /\ c.to \in Hexes /\ Free(game, c.to) /\ c.at \in Hexes
    BY <1>1, <1>2, <1>3 DEF Moving, Source, Goal, Places
  <2> QED
    BY <1>4, <1>6, <2>1, BoardAfter
<1> QED
  BY <1>2, <1>3, <1>4, <1>5, <1>7, Performs

LEMMA DismissKeeps ==
  ASSUME Inv, Dismiss
  PROVE  Inv'
<1>1. PICK u \in Veterans :
        /\ game.at[u] = "recall"
        /\ Perform([Command("disband") EXCEPT !.unit = u], 0, TRUE)
  BY DEF Dismiss
<1> DEFINE c == [Command("disband") EXCEPT !.unit = u]
<1>2. c \in Commands /\ c.kind = "disband" /\ c.unit = u /\ ~c.sent
  BY DEF Command, Commands, Kinds, Units
<1>3. Perform(c, 0, TRUE)
  BY <1>1
<1> HIDE DEF c
<1>4. c \in Orders
  BY <1>2 DEF Orders
<1>5. u \in Units
  BY DEF Units
<1>6. game \in Games
  BY StandingFacts DEF Inv
<1>7. PICK b \in Boards : BoardStep(Board(game), c, b)
  <2>1. /\ c.kind \in Moving /\ c.unit = u /\ game.at[u] = Source(c) /\ Goal(c) \in Places
        /\ c.kind = "disband" /\ c.kind # "move"
    BY <1>1, <1>2 DEF Moving, Source, Goal, Places
  <2> QED
    BY <1>4, <1>5, <1>6, <2>1, BoardAfter
<1>8. 0 \in 0..1 /\ TRUE \in BOOLEAN
  OBVIOUS
<1> QED
  BY <1>2, <1>3, <1>4, <1>7, <1>8, Performs

\* A command that changes nothing of where the units are.
LEMMA QuietStands ==
  ASSUME NEW cs, NEW up, NEW us, NEW g, NEW p, NEW lost, Standing(cs, up, us, g, p, lost),
         NEW c \in Orders, ~c.sent,
         c.kind = "speak" \/ (c.kind = "rename" /\ \E u \in Units : g.at[u] = c.at)
  PROVE  Standing(Append(cs, c), up, us, Execute(g, c), p, lost) /\ Execute(g, c).at = g.at
<1>1. PICK P, A : Sound(cs, up, us, g, p, lost, P, A)
  BY DEF Standing
<1>2. g \in Games /\ A[Len(us)] = Board(g)
  BY <1>1 DEF Sound, Typed
<1>3. Quiet(c, A[Len(us)], After(us, Len(us)))
  BY <1>2, GameFields DEF Quiet, Vacant
<1>4. Sound(Append(cs, c), up, us, Execute(g, c), p, lost, P, A)
  BY <1>1, <1>3, AppendQuiet
<1>5. Execute(g, c).at = g.at
  BY <1>2, Executed
<1> QED
  BY <1>4, <1>5 DEF Standing

LEMMA RenameKeeps ==
  ASSUME Inv, Rename
  PROVE  Inv'
<1>1. PICK u \in Units :
        /\ game.at[u] \in Hexes
        /\ cmds' = Append(cmds, [Command("rename") EXCEPT !.at = game.at[u], !.name = "new"])
        /\ game' = Renamed(game, game.at[u], "new")
        /\ UNCHANGED <<upto, undos, redos, peer, lapsed, control>>
  BY DEF Rename
<1> DEFINE hex == game.at[u]
           c == [Command("rename") EXCEPT !.at = hex, !.name = "new"]
<1>2. hex \in Hexes /\ cmds' = Append(cmds, c) /\ game' = Renamed(game, hex, "new") /\ hex = game.at[u]
  BY <1>1
<1> HIDE DEF hex
<1>3. c \in Commands /\ c.kind = "rename" /\ c.at = hex /\ c.name = "new" /\ ~c.sent
  BY <1>2 DEF Command, Commands, Kinds, Names
<1> HIDE DEF c
<1>4. c \in Orders
  BY <1>2, <1>3 DEF Orders, Names
<1>5. game' = Execute(game, c)
  BY <1>2, <1>3 DEF Execute
<1>6. /\ Standing(Append(cmds, c), upto, undos, Execute(game, c), peer, lapsed)
      /\ Execute(game, c).at = game.at
  <2>1. Standing(cmds, upto, undos, game, peer, lapsed) /\ c.kind = "rename"
        /\ \E v \in Units : game.at[v] = c.at
    BY <1>2, <1>3 DEF Inv
  <2> QED
    BY <1>3, <1>4, <2>1, QuietStands
<1> QED
  BY <1>1, <1>2, <1>5, <1>6 DEF Inv

LEMMA SpeakKeeps ==
  ASSUME Inv, Speak
  PROVE  Inv'
<1> DEFINE c == Command("speak")
<1>1. c \in Orders /\ c.kind = "speak" /\ ~c.sent
  BY PlainCommand DEF Plain
<1> HIDE DEF c
<1>2. /\ Standing(Append(cmds, c), upto, undos, Execute(game, c), peer, lapsed)
      /\ Execute(game, c).at = game.at
  <2>1. Standing(cmds, upto, undos, game, peer, lapsed)
    BY DEF Inv
  <2> QED
    BY <1>1, <2>1, QuietStands
<1>3. /\ cmds' = Append(cmds, c) /\ game' = Execute(game, c)
      /\ UNCHANGED <<upto, undos, redos, peer, lapsed, control>>
  BY DEF Speak, c
<1> QED
  BY <1>2, <1>3 DEF Inv

LEMMA ReceiveKeeps ==
  ASSUME Inv, Receive
  PROVE  Inv'
<1> DEFINE c == AsSent(Command("speak"))
<1>1. c \in Orders /\ c.kind = "speak" /\ c.sent
  BY PlainCommand DEF Plain
<1>2. /\ cmds' = Append(cmds, c) /\ game' = Execute(game, c) /\ peer' = Execute(peer, c)
      /\ UNCHANGED <<upto, undos, redos, lapsed, control>>
  BY DEF Receive, AsSent
<1> HIDE DEF c
<1>3. PICK P, A : Sound(cmds, upto, undos, game, peer, lapsed, P, A)
  BY DEF Inv, Standing
<1>4. Sound(Append(cmds, c), upto, undos, Execute(game, c), Execute(peer, c), lapsed, P, A)
  BY <1>1, <1>3, AppendReceived
<1>5. Standing(cmds', upto', undos', game', peer', lapsed')
  BY <1>2, <1>4 DEF Standing
<1>6. game'.at = game.at
  <2>1. game \in Games
    BY StandingFacts DEF Inv
  <2> QED
    BY <1>1, <1>2, <2>1, Executed
<1> QED
  BY <1>2, <1>5, <1>6 DEF Inv

-----------------------------------------------------------------------------
(* The shroud.                                                               *)

LEMMA ShroudStands ==
  ASSUME NEW cs, NEW up, NEW us, NEW g, NEW p, NEW lost, Standing(cs, up, us, g, p, lost),
         NEW c \in Orders, ~c.sent, c.kind \in Shroud
  PROVE  /\ Standing(Append(cs, c), up, Append(us, Action(c)), Execute(g, c), p, lost)
         /\ Execute(g, c).at = g.at
<1>1. g \in Games /\ g.auto \in BOOLEAN
  BY StandingFacts, GameFields
<1> DEFINE y == IF c.kind = "update_shroud" THEN g.auto ELSE (c.kind = "shroud_on")
<1>2. y \in BOOLEAN /\ Lights(g.auto, c, y)
  BY <1>1 DEF Lights
<1>3. Lit(g, g.auto) = g
  BY <1>1, LitTwice
<1> HIDE DEF y
<1>4. Standing(Append(cs, c), up, Append(us, Action(c)), Lit(g, y), p, lost)
  <2>1. Standing(cs, up, us, Lit(g, g.auto), p, lost)
    BY <1>3
  <2> QED
    BY <1>1, <1>2, <2>1, PutOne
<1>5. Execute(g, c) = Lit(g, y)
  <2>1. CASE c.kind = "update_shroud"
    BY <1>2, <1>3, <2>1, IdleExecutes DEF Lights, Idle
  <2>2. CASE c.kind # "update_shroud"
    BY <1>2, <2>2 DEF Lights, Execute, Lit, Shroud
  <2> QED
    BY <2>1, <2>2
<1>6. Lit(g, y).at = g.at
  BY <1>1, <1>2, LitFields
<1> QED
  BY <1>4, <1>5, <1>6

LEMMA CommittedStands ==
  ASSUME NEW cs, NEW up, NEW g, NEW p, NEW lost, Standing(cs, up, undos, g, p, lost),
         NEW us \in Committed
  PROVE  Standing(Append(cs, Command("update_shroud")), up, us, g, p, lost)
<1> DEFINE c == Command("update_shroud")
<1>1. c \in Orders /\ c.kind = "update_shroud" /\ ~c.sent
  BY PlainCommand DEF Plain, Shroud
<1>2. us = undos \o <<Action(c)>> \/ us = <<Action(c)>>
  BY DEF Committed
<1> HIDE DEF c
<1>3. Execute(g, c) = g
  BY <1>1, IdleExecutes DEF Idle
<1>4. Action(c) \in [command : Orders, data : {<<>>}]
  BY <1>1 DEF Action
<1>5. CASE us = undos \o <<Action(c)>>
  <2>1. undos \in Stacks
    BY StandingFacts
  <2>2. us = Append(undos, Action(c))
    BY <1>4, <1>5, <2>1, OneMore DEF Stacks
  <2>3. Standing(Append(cs, c), up, Append(undos, Action(c)), Execute(g, c), p, lost)
    BY <1>1, ShroudStands DEF Shroud
  <2> QED
    BY <1>3, <2>2, <2>3 DEF c
<1>6. CASE us = <<Action(c)>>
  <2>1. Standing(cs, up, <<>>, g, p, lost)
    BY Settles
  <2>2. us = Append(<<>>, Action(c))
    BY <1>6
  <2>3. Standing(Append(cs, c), up, Append(<<>>, Action(c)), Execute(g, c), p, lost)
    BY <1>1, <2>1, ShroudStands DEF Shroud
  <2> QED
    BY <1>3, <2>2, <2>3 DEF c
<1> QED
  BY <1>2, <1>5, <1>6

LEMMA UpdateShroudKeeps ==
  ASSUME Inv, UpdateShroud
  PROVE  Inv'
<1>1. /\ cmds' = Append(cmds, Command("update_shroud")) /\ undos' \in Committed
      /\ UNCHANGED <<upto, redos, game, peer, lapsed, control>>
  BY DEF UpdateShroud
<1>2. Standing(Append(cmds, Command("update_shroud")), upto, undos', game, peer, lapsed)
  BY <1>1, CommittedStands DEF Inv
<1> QED
  BY <1>1, <1>2 DEF Inv

LEMMA TwoMore ==
  ASSUME NEW S, NEW s \in Seq(S), NEW c \in S, NEW d \in S
  PROVE  s \o <<c, d>> = Append(Append(s, c), d)
<1>1. <<c>> \in Seq(S) /\ <<d>> \in Seq(S) /\ <<c, d>> = <<c>> \o <<d>>
  <2>1. /\ <<c>> \in Seq(S) /\ <<d>> \in Seq(S)
        /\ Append(<<c>>, d) = <<c>> \o <<d>>
    BY OneMore
  <2>2. /\ Append(<<c>>, d) \in Seq(S) /\ Len(Append(<<c>>, d)) = 2
        /\ Append(<<c>>, d)[1] = c /\ Append(<<c>>, d)[2] = d
    <3>1. Len(<<c>>) = 1 /\ <<c>>[1] = c /\ 1 \in 1..1 /\ 1 + 1 = 2
      OBVIOUS
    <3> QED
      BY <2>1, <3>1, AppendIs
  <2>3. <<c, d>> \in Seq(S) /\ Len(<<c, d>>) = 2 /\ <<c, d>>[1] = c /\ <<c, d>>[2] = d
    OBVIOUS
  <2>4. \A i \in 1..Len(<<c, d>>) : i = 1 \/ i = 2
    BY <2>3
  <2>5. \A i \in 1..Len(<<c, d>>) : <<c, d>>[i] = Append(<<c>>, d)[i]
    BY <2>2, <2>3, <2>4
  <2>6. <<c, d>> = Append(<<c>>, d)
    BY <2>2, <2>3, <2>5, SameSequence
  <2> QED
    BY <2>1, <2>6
<1>2. s \o <<c, d>> = (s \o <<c>>) \o <<d>>
  BY <1>1, ConcatAssociative
<1>3. s \o <<c>> = Append(s, c) /\ Append(s, c) \in Seq(S)
  BY OneMore
<1> QED
  BY <1>2, <1>3, OneMore

LEMMA ToggleKeeps ==
  ASSUME Inv, ToggleShroud
  PROVE  Inv'
<1> DEFINE kind == IF game.auto THEN "shroud_off" ELSE "shroud_on"
           c == Command(kind)
           d == Command("update_shroud")
<1>1. kind \in Shroud /\ kind \in Plain
  BY DEF Plain, Shroud
<1>2. c \in Orders /\ c.kind = kind /\ ~c.sent
  <2> HIDE DEF kind
  <2> QED
    BY <1>1, PlainCommand
<1>3. d \in Orders
  BY PlainCommand DEF Plain, Shroud
<1>4. /\ \/ cmds' = Append(cmds, c) /\ undos' = Append(undos, Action(c))
         \/ cmds' = cmds \o <<d, c>> /\ \E u \in Committed : undos' = Append(u, Action(c))
      /\ game' = Execute(game, c)
      /\ UNCHANGED <<upto, redos, peer, lapsed, control>>
  BY DEF ToggleShroud
<1> HIDE DEF c, kind
<1>5. Standing(cmds, upto, undos, game, peer, lapsed) /\ cmds \in Seq(Orders)
  BY StandingFacts DEF Inv
<1>6. Standing(cmds', upto, undos', Execute(game, c), peer, lapsed) /\ Execute(game, c).at = game.at
  <2>1. CASE cmds' = Append(cmds, c) /\ undos' = Append(undos, Action(c))
    BY <1>1, <1>2, <1>5, <2>1, ShroudStands
  <2>2. CASE cmds' = cmds \o <<d, c>> /\ \E u \in Committed : undos' = Append(u, Action(c))
    <3>1. PICK u \in Committed : undos' = Append(u, Action(c))
      BY <2>2
    <3>2. Standing(Append(cmds, d), upto, u, game, peer, lapsed)
      BY <1>5, CommittedStands
    <3>3. cmds' = Append(Append(cmds, d), c)
      <4> HIDE DEF d
      <4> QED
        BY <1>2, <1>3, <1>5, <2>2, TwoMore
    <3> HIDE DEF d
    <3>4. /\ Standing(Append(Append(cmds, d), c), upto, Append(u, Action(c)), Execute(game, c), peer, lapsed)
          /\ Execute(game, c).at = game.at
      BY <1>1, <1>2, <3>2, ShroudStands
    <3> QED
      BY <3>1, <3>3, <3>4
  <2> QED
    BY <1>4, <2>1, <2>2
<1> QED
  BY <1>4, <1>6 DEF Inv

-----------------------------------------------------------------------------
(* A fight, and the sender.                                                  *)

LEMMA FightKeeps ==
  ASSUME Inv, Fight
  PROVE  Inv'
<1> DEFINE c == Command("fight")
           d == AsSent(Command("seed"))
           t == Append(cmds, c)
           p == Run(peer, Unsent(t, upto))
<1>1. c \in Orders /\ c.kind \in Idle /\ d \in Orders /\ d.kind \in Idle /\ d.sent
  BY PlainCommand DEF Plain, Idle
<1>2. /\ cmds' = cmds \o <<c, d>> /\ upto' = Len(cmds') /\ peer' = p
      /\ undos' = <<>> /\ redos' = <<>> /\ UNCHANGED <<game, lapsed, control>>
  BY DEF Fight, AsSent
<1> HIDE DEF c, d
<1>3. Standing(cmds, upto, undos, game, peer, lapsed) /\ cmds \in Seq(Orders)
  BY StandingFacts DEF Inv
<1>4. Settled(t, upto, game, peer, lapsed)
  BY <1>1, <1>3, Settles, SettledIdle
<1> HIDE DEF t
<1>5. Settled(t, Len(t), game, p, lapsed)
  BY <1>4, SettledSends
<1> HIDE DEF p
<1>6. Settled(Append(t, d), Len(Append(t, d)), game, p, lapsed)
  BY <1>1, <1>5, SettledAnswered
<1>7. cmds' = Append(t, d)
  BY <1>1, <1>2, <1>3, TwoMore DEF t
<1>8. Standing(cmds', upto', undos', game', peer', lapsed')
  BY <1>2, <1>6, <1>7, SettledStands
<1>9. CanRedo(redos', game'.at)
  BY <1>2, <1>8, NoRedo
<1>10. lapsed' \subseteq Units /\ control' \in {"ours", "leaving", "lost"}
  BY <1>2 DEF Inv
<1> QED
  BY <1>8, <1>9, <1>10 DEF Inv

LEMMA SendKeeps ==
  ASSUME Inv, Send
  PROVE  Inv'
<1>1. UNCHANGED <<undos, redos, game, lapsed, control>>
  BY DEF Send
<1>2. CASE /\ peer' = Run(peer, Final(cmds, upto)) /\ cmds' = Marked(cmds, upto) /\ upto' = upto
  <2>1. PICK P, A : Sound(cmds, upto, undos, game, peer, lapsed, P, A)
    BY DEF Inv, Standing
  <2>2. Sound(Marked(cmds, upto), upto, undos, game, Run(peer, Final(cmds, upto)), lapsed, P, A)
    BY <2>1, SendMarked
  <2>3. Standing(cmds', upto', undos', game', peer', lapsed')
    BY <1>1, <1>2, <2>2 DEF Standing
  <2> QED
    BY <1>1, <2>3 DEF Inv
<1>3. CASE /\ undos = <<>> /\ peer' = Run(peer, Unsent(cmds, upto)) /\ upto' = Len(cmds)
           /\ cmds' = cmds
  <2>1. Settled(cmds, upto, game, peer, lapsed)
    BY Settles DEF Inv
  <2>2. Settled(cmds, Len(cmds), game, Run(peer, Unsent(cmds, upto)), lapsed)
    BY <2>1, SettledSends
  <2>3. Standing(cmds', upto', undos', game', peer', lapsed')
    BY <1>1, <1>3, <2>2, SettledStands
  <2> QED
    BY <1>1, <2>3 DEF Inv
<1> QED
  BY <1>2, <1>3 DEF Send

-----------------------------------------------------------------------------
(* Undo and redo.                                                            *)

LEMMA RedoablePushed ==
  ASSUME NEW rs, NEW at, CanRedo(rs, at), NEW a, Redoable(a),
         a \in [command : Orders, data : Seq(Orders)],
         NEW b \in [Units -> Places], Alone(b), AtStep(b, a.command, at)
  PROVE  CanRedo(Append(rs, a), b)
<1>1. PICK B : Restorable(rs, B, at)
  BY DEF CanRedo
<1>2. /\ rs \in Seq([command : Orders, data : Seq(Orders)])
      /\ \A i \in 0..Len(rs) : B[i] \in [Units -> Places] /\ Alone(B[i])
      /\ B[Len(rs)] = at
      /\ \A i \in 1..Len(rs) : AtStep(B[i], rs[i].command, B[i - 1]) /\ Redoable(rs[i])
  BY <1>1 DEF Restorable
<1>3. Len(rs) \in Nat /\ Len(rs) \in 0..Len(rs)
  BY <1>2
<1>4. PICK B2 : More(B2, B, Len(rs), b)
  BY <1>3, MoreExists
<1>5. (\A i \in 0..Len(rs) : B2[i] = B[i]) /\ B2[Len(rs) + 1] = b
  BY <1>4 DEF More
<1> DEFINE ss == Append(rs, a)
<1>6. /\ ss \in Seq([command : Orders, data : Seq(Orders)]) /\ Len(ss) = Len(rs) + 1
      /\ \A i \in 1..Len(rs) : ss[i] = rs[i]
      /\ ss[Len(rs) + 1] = a
  BY <1>2, AppendIs
<1> HIDE DEF ss
<1>7. ASSUME NEW i \in 0..Len(ss) PROVE B2[i] \in [Units -> Places] /\ Alone(B2[i])
  <2>1. i \in 0..Len(rs) \/ i = Len(rs) + 1
    BY <1>3, <1>6
  <2> QED
    BY <1>2, <1>5, <2>1
<1>8. ASSUME NEW i \in 1..Len(ss)
      PROVE  AtStep(B2[i], ss[i].command, B2[i - 1]) /\ Redoable(ss[i])
  <2>1. CASE i \in 1..Len(rs)
    <3>1. i \in 0..Len(rs) /\ i - 1 \in 0..Len(rs)
      BY <1>3, <2>1
    <3> QED
      BY <1>2, <1>5, <1>6, <2>1, <3>1
  <2>2. CASE i = Len(rs) + 1
    <3>1. i - 1 = Len(rs)
      BY <1>3, <2>2
    <3>2. B2[i - 1] = at /\ B2[i] = b /\ ss[i] = a
      BY <1>2, <1>3, <1>5, <1>6, <2>2, <3>1
    <3> QED
      BY <3>2
  <2> QED
    BY <1>3, <1>6, <2>1, <2>2
<1>9. B2[Len(ss)] = b
  BY <1>5, <1>6
<1>10. Restorable(ss, B2, b)
  BY <1>6, <1>7, <1>8, <1>9 DEF Restorable
<1> QED
  BY <1>10 DEF CanRedo, ss

LEMMA UndoKeeps ==
  ASSUME Inv, UndoStep, control' = control, ~stale'
  PROVE  Inv'
<1>1. Standing(cmds, upto, undos, game, peer, lapsed) /\ UNCHANGED <<upto, peer>>
  BY DEF Inv, UndoStep
<1>2. CASE Top = 0
  <2>1. cmds' = Peeled \o Again /\ UNCHANGED <<undos, redos, game, lapsed>>
    BY <1>2 DEF UndoStep
  <2>2. Standing(Peeled \o Again, upto, undos, game, peer, lapsed)
    BY <1>1, <1>2, UndoNothing
  <2> QED
    BY <1>1, <2>1, <2>2 DEF Inv
<1>3. CASE Top # 0
  <2> DEFINE c == undos[Top].command
             more == IF c.kind = "recall" /\ Orphans(Peeled, LastReal(Peeled)) # {}
                     THEN lapsed \cup {c.unit} ELSE lapsed
             h == TakeBack(game, c)
             a == [command |-> c, data |-> Cut(Peeled)]
  <2>1. /\ CanTakeBack(game, c)
        /\ Undone(game, h, c, UndoCut(Peeled) \o Again, upto,
                  SubSeq(undos, 1, Top - 1) \o OnTop, peer, more)
        /\ Redoable(a)
    <3>1. lapsed \subseteq more
      OBVIOUS
    <3>2. undos[Top].command.kind = "recall" /\ Orphans(Peeled, LastReal(Peeled)) # {}
            => undos[Top].command.unit \in more
      OBVIOUS
    <3>3. CanTakeBack(game, undos[Top].command) => NumbersHold(Peeled)
      BY <1>3 DEF UndoStep
    <3> HIDE DEF more
    <3> QED
      BY <1>1, <1>3, <3>1, <3>2, <3>3, UndoOne
  <2>2. /\ undos' = SubSeq(undos, 1, Top - 1) \o OnTop
        /\ cmds' = UndoCut(Peeled) \o Again /\ game' = h
        /\ redos' = Append(redos, a) /\ lapsed' = more
    BY <1>3, <2>1 DEF UndoStep
  <2>3. c \in Orders
    <3>1. undos \in Stacks
      BY <1>1, StandingFacts
    <3>2. Top \in 1..Len(undos)
      BY <1>3, <3>1, TopIs
    <3> QED
      BY <3>1, <3>2, StackIs
  <2>4. /\ Standing(UndoCut(Peeled) \o Again, upto, SubSeq(undos, 1, Top - 1) \o OnTop, h, peer, more)
        /\ AtStep(h.at, c, game.at) /\ Alone(h.at) /\ h \in Games
    BY <2>1 DEF Undone
  <2>5. more \subseteq Units
    <3>1. lapsed \subseteq Units
      BY DEF Inv
    <3>2. c.kind = "recall" => c.unit \in Units
      BY <2>4 DEF AtStep, Brings
    <3> QED
      BY <3>1, <3>2
  <2>6. a \in [command : Orders, data : Seq(Orders)] /\ a.command = c
    <3>1. Cut(Peeled) \in Seq(Orders)
      BY <2>1 DEF Redoable
    <3> QED
      BY <2>3, <3>1
  <2> HIDE DEF a, h, c, more
  <2>7. CanRedo(Append(redos, a), h.at)
    <3>1. h.at \in [Units -> Places] /\ CanRedo(redos, game.at)
      BY <2>4, GameFields DEF Inv
    <3> QED
      BY <2>1, <2>4, <2>6, <3>1, RedoablePushed
  <2>8. Standing(cmds', upto', undos', game', peer', lapsed')
    BY <1>1, <2>2, <2>4
  <2>9. CanRedo(redos', game'.at)
    BY <2>2, <2>7
  <2>10. lapsed' \subseteq Units /\ control' \in {"ours", "leaving", "lost"}
    BY <2>2, <2>5 DEF Inv
  <2> QED
    BY <2>8, <2>9, <2>10 DEF Inv
<1> QED
  BY <1>2, <1>3

LEMMA RedoStands ==
  ASSUME Inv, Redo
  PROVE  Inv'
<1> DEFINE N == Len(redos)
           rs == SubSeq(redos, 1, N - 1)
           a == redos[N]
           c == a.command
<1>1. PICK B : Restorable(redos, B, game.at)
  BY DEF Inv, CanRedo
<1>2. /\ redos \in Seq([command : Orders, data : Seq(Orders)])
      /\ \A i \in 0..Len(redos) : B[i] \in [Units -> Places] /\ Alone(B[i])
      /\ B[Len(redos)] = game.at
      /\ \A i \in 1..Len(redos) : AtStep(B[i], redos[i].command, B[i - 1]) /\ Redoable(redos[i])
  BY <1>1 DEF Restorable
<1>3. N \in Nat /\ N # 0 /\ N \in 1..N /\ N - 1 \in 0..N
  <2>1. N \in Nat /\ (N = 0 => redos = <<>>)
    BY <1>2
  <2>2. redos # <<>>
    BY DEF Redo
  <2> QED
    BY <2>1, <2>2
<1>4. Last(redos) = a /\ Front(redos) = rs
  BY DEF Last, Front
<1>5. /\ rs \in Seq([command : Orders, data : Seq(Orders)]) /\ Len(rs) = N - 1
      /\ \A i \in 1..N-1 : rs[i] = redos[i]
  BY <1>2, <1>3, BeginIs
<1>6. AtStep(game.at, c, B[N - 1]) /\ Redoable(a)
  BY <1>2, <1>3
<1>7. redos' = rs /\ UNCHANGED <<upto, peer, lapsed, control>>
  BY <1>4 DEF Redo
<1>8. Standing(cmds, upto, undos, game, peer, lapsed) /\ cmds \in Seq(Orders) /\ game \in Games
      /\ OwnNames(game) /\ Alone(game.at)
  BY StandingFacts DEF Inv
<1> HIDE DEF rs, N, a
<1>9. CanDoAgain(game, c)
  BY <1>6, <1>8, StepAgain
<1>10. /\ c \in Orders /\ ~c.sent /\ a.data \in Seq(Orders) /\ Len(a.data) # 0 /\ a.data[1] = c
       /\ \A i \in 2..Len(a.data) : a.data[i].kind = "choice" /\ ~a.data[i].sent /\ c.kind \in Asking
  BY <1>6 DEF Redoable
<1>11. PICK es \in Seq(Orders) :
         /\ cmds' = cmds \o es /\ game' = Execute(game, c) /\ undos' = Append(undos, Action(c))
         /\ Len(es) # 0 /\ es[1] = c
         /\ \A i \in 2..Len(es) : es[i].kind = "choice" /\ ~es[i].sent /\ es[1].kind \in Asking
  <2>1. /\ \E n \in IF c.kind \in {"recruit", "recall"} THEN 0..1 ELSE {0} :
             cmds' = cmds \o a.data \o [i \in 1..n |-> Command("choice")]
        /\ game' = Execute(game, c) /\ undos' = Append(undos, Action(c))
    BY <1>4, <1>9 DEF Redo
  <2>2. PICK n \in 0..1 : /\ cmds' = cmds \o a.data \o [i \in 1..n |-> Command("choice")]
                          /\ n # 0 => c.kind \in {"recruit", "recall"}
    BY <2>1
  <2> DEFINE d == a.data
             x == [i \in 1..n |-> Command("choice")]
             es == d \o x
  <2>3. /\ d \in Seq(Orders) /\ Len(d) # 0 /\ d[1] = c /\ (n # 0 => d[1].kind \in Asking)
        /\ \A i \in 2..Len(d) : d[i].kind = "choice" /\ ~d[i].sent /\ d[1].kind \in Asking
    BY <1>10, <2>2 DEF Asking
  <2>4. cmds' = cmds \o d \o x /\ x = [i \in 1..n |-> Command("choice")]
    BY <2>2
  <2> HIDE DEF d, x
  <2>5. /\ x \in Seq(Orders) /\ es \in Seq(Orders) /\ Len(es) # 0 /\ es[1] = c
        /\ \A i \in 2..Len(es) : es[i].kind = "choice" /\ ~es[i].sent /\ es[1].kind \in Asking
    BY <2>3, <2>4, Answered
  <2>6. cmds' = cmds \o es
    <3> DEFINE O == Orders
               c0 == cmds
    <3>1. c0 \in Seq(O) /\ d \in Seq(O) /\ x \in Seq(O)
      BY <1>8, <2>3, <2>5
    <3> HIDE DEF O, c0
    <3>2. (c0 \o d) \o x = c0 \o (d \o x)
      BY <3>1, ConcatAssociative
    <3> QED
      BY <2>4, <3>2, Zenon DEF c0
  <2> HIDE DEF es
  <2> QED
    BY <2>1, <2>5, <2>6
<1> DEFINE b == [at |-> B[N - 1], auto |-> game.auto]
<1>12. b \in Boards /\ b.at = B[N - 1] /\ b.auto = game.auto
  <2>1. B[N - 1] \in [Units -> Places] /\ game.auto \in BOOLEAN
    BY <1>2, <1>3, <1>8, GameFields DEF N
  <2> QED
    BY <2>1 DEF Boards
<1> HIDE DEF b, c
<1>13. BoardStep(Board(game), c, b)
  BY <1>6, <1>8, <1>12, GameFields DEF BoardStep
<1>14. Standing(cmds', upto', undos', game', peer', lapsed')
  <2>1. BoardStep(Board(game), es[1], b) /\ ~es[1].sent
    BY <1>10, <1>11, <1>13
  <2>2. Standing(cmds \o es, upto, Append(undos, Action(es[1])), Execute(game, es[1]),
                 peer, lapsed)
    BY <1>8, <1>11, <1>12, <2>1, Acts
  <2> QED
    BY <1>7, <1>11, <2>2
<1>15. game'.at = B[N - 1]
  <2>1. Board(Execute(game, c)) = b
    BY <1>8, <1>10, <1>12, <1>13, StepExecutes
  <2>2. Execute(game, c) \in Games
    BY <1>8, <1>10, ExecuteTyped
  <2> QED
    BY <1>11, <1>12, <2>1, <2>2, GameFields
<1>16. Restorable(rs, B, B[N - 1])
  <2>1. \A i \in 0..Len(rs) : B[i] \in [Units -> Places] /\ Alone(B[i])
    BY <1>2, <1>3, <1>5 DEF N
  <2>2. \A i \in 1..Len(rs) : AtStep(B[i], rs[i].command, B[i - 1]) /\ Redoable(rs[i])
    <3> SUFFICES ASSUME NEW i \in 1..Len(rs)
                 PROVE  AtStep(B[i], rs[i].command, B[i - 1]) /\ Redoable(rs[i])
      OBVIOUS
    <3>1. i \in 1..N-1 /\ i \in 1..Len(redos)
      BY <1>3, <1>5 DEF N
    <3> QED
      BY <1>2, <1>5, <3>1
  <2> QED
    BY <1>5, <2>1, <2>2 DEF Restorable
<1>17. CanRedo(redos', game'.at)
  BY <1>7, <1>15, <1>16 DEF CanRedo
<1>18. lapsed' \subseteq Units /\ control' \in {"ours", "leaving", "lost"}
  BY <1>7 DEF Inv
<1> QED
  BY <1>14, <1>17, <1>18 DEF Inv

-----------------------------------------------------------------------------
(* The theorems.                                                             *)

LEMMA InitKeeps ==
  ASSUME Init
  PROVE  Inv
<1> DEFINE c == AsSent(Command("start"))
<1>1. c \in Orders /\ c.kind = "start" /\ c.sent
  BY PlainCommand DEF Plain
<1>2. /\ cmds = <<c>> /\ upto = 1 /\ undos = <<>> /\ redos = <<>>
      /\ game = NewGame /\ peer = NewGame /\ lapsed = {} /\ control = "ours"
  BY DEF Init, AsSent
<1> HIDE DEF c
<1>3. <<>> \in Seq(Orders) /\ Len(<<>>) = 0 /\ Len(<<>>) \in Nat /\ 0 \in 0..Len(<<>>)
  OBVIOUS
<1>4. NewGame \in Games /\ OwnNames(NewGame) /\ Alone(NewGame.at)
  BY NewGameTyped
<1>5. Alike(NewGame, NewGame, {})
  BY DEF Alike
<1>6. Reaches(NewGame, 0, FALSE, <<>>, NewGame, {}) /\ Reaches(NewGame, 0, TRUE, <<>>, NewGame, {})
  BY <1>3, <1>4, <1>5, ReachesNow
<1>7. Typed(<<>>, 0, <<>>, NewGame, NewGame)
  BY <1>3, <1>4, EmptyStack DEF Typed
<1>8. Settled(<<>>, Len(<<>>), NewGame, NewGame, {})
  BY <1>3, <1>4, <1>6, <1>7 DEF Settled
<1>9. c.kind \in Idle
  BY <1>1 DEF Idle
<1>10. Settled(Append(<<>>, c), Len(Append(<<>>, c)), NewGame, NewGame, {})
  BY <1>1, <1>8, <1>9, SettledAnswered
<1>11. Append(<<>>, c) = <<c>> /\ Len(<<c>>) = 1
  <2>1. <<>> \o <<c>> = Append(<<>>, c)
    BY <1>1, <1>3, OneMore
  <2>2. <<c>> \in Seq(Orders) /\ Len(<<c>>) = 1
    BY <1>1
  <2>3. <<>> \o <<c>> = <<c>>
    BY <2>2, NothingMore
  <2> QED
    BY <2>1, <2>2, <2>3
<1>12. Standing(cmds, upto, undos, game, peer, lapsed)
  BY <1>2, <1>10, <1>11, SettledStands
<1>13. CanRedo(redos, game.at)
  BY <1>2, <1>12, NoRedo
<1> QED
  BY <1>2, <1>12, <1>13 DEF Inv

LEMMA LoseSideKeeps ==
  ASSUME Inv, LoseSide
  PROVE  Inv'
<1>1. control' = "leaving" /\ UNCHANGED <<cmds, upto, undos, redos, game, peer, lapsed>>
  BY DEF LoseSide
<1> QED
  BY <1>1 DEF Inv

LEMMA LeaveKeeps ==
  ASSUME Inv, Leave, ~stale'
  PROVE  Inv'
<1>1. CASE UndoStep /\ UNCHANGED control
  BY <1>1, UndoKeeps
<1>2. CASE /\ undos = <<>> /\ redos' = <<>> /\ control' = "lost"
           /\ UNCHANGED <<cmds, upto, undos, game, peer, lapsed>>
  <2>1. Standing(cmds', upto', undos', game', peer', lapsed')
    BY <1>2 DEF Inv
  <2>2. CanRedo(redos', game'.at)
    BY <1>2, <2>1, NoRedo
  <2> QED
    BY <1>2, <2>1, <2>2 DEF Inv
<1> QED
  BY <1>1, <1>2 DEF Leave

LEMMA StepKeeps ==
  ASSUME Inv, [Next]_vars, ~stale'
  PROVE  Inv'
<1>1. CASE Recruit
  BY <1>1, RecruitKeeps
<1>2. CASE Recall
  BY <1>2, RecallKeeps
<1>3. CASE MoveUnit
  BY <1>3, MoveKeeps
<1>4. CASE Dismiss
  BY <1>4, DismissKeeps
<1>5. CASE Fight
  BY <1>5, FightKeeps
<1>6. CASE Rename
  BY <1>6, RenameKeeps
<1>7. CASE Speak
  BY <1>7, SpeakKeeps
<1>8. CASE Receive
  BY <1>8, ReceiveKeeps
<1>9. CASE UpdateShroud
  BY <1>9, UpdateShroudKeeps
<1>10. CASE ToggleShroud
  BY <1>10, ToggleKeeps
<1>11. CASE Undo
  BY <1>11, UndoKeeps DEF Undo
<1>12. CASE Redo
  BY <1>12, RedoStands
<1>13. CASE Send
  BY <1>13, SendKeeps
<1>14. CASE LoseSide
  BY <1>14, LoseSideKeeps
<1>15. CASE Leave
  BY <1>15, LeaveKeeps
<1>16. CASE UNCHANGED vars
  BY <1>16 DEF Inv, vars
<1> QED
  BY <1>1, <1>2, <1>3, <1>4, <1>5, <1>6, <1>7, <1>8, <1>9, <1>10, <1>11, <1>12, <1>13, <1>14,
     <1>15, <1>16 DEF Next

\* Once numbers were stale, that is on record for good.
LEMMA StaleStays ==
  ASSUME [Next]_vars
  PROVE  stale' = stale \/ stale' = (stale \/ ~NumbersHold(Peeled))
<1>1. CASE Recruit \/ Recall \/ MoveUnit \/ Dismiss
  BY <1>1 DEF Recruit, Recall, MoveUnit, Dismiss, Perform
<1>2. CASE Fight \/ Rename \/ Speak \/ Receive
  BY <1>2 DEF Fight, Rename, Speak, Receive
<1>3. CASE UpdateShroud \/ ToggleShroud \/ Redo
  BY <1>3 DEF UpdateShroud, ToggleShroud, Redo
<1>4. CASE UndoStep
  BY <1>4 DEF UndoStep
<1>5. CASE Undo \/ LoseSide \/ Leave
  BY <1>4, <1>5 DEF Undo, LoseSide, Leave
<1>6. CASE Send
  BY <1>6 DEF Send
<1>7. CASE UNCHANGED vars
  BY <1>7 DEF vars
<1> QED
  BY <1>1, <1>2, <1>3, <1>5, <1>6, <1>7 DEF Next

\* The invariant holds until numbers were stale.
Guarded == stale \in BOOLEAN /\ (~stale => Inv)

LEMMA StepGuards ==
  ASSUME Guarded, [Next]_vars
  PROVE  Guarded' /\ (~stale' => Inv /\ Inv')
<1>1. stale' \in BOOLEAN /\ (~stale' => ~stale)
  BY StaleStays DEF Guarded
<1>2. ASSUME ~stale' PROVE Inv /\ Inv'
  <2>1. Inv
    BY <1>1, <1>2 DEF Guarded
  <2> QED
    BY <1>2, <2>1, StepKeeps
<1> QED
  BY <1>1, <1>2 DEF Guarded

LEMMA AlwaysGuarded == Spec => []Guarded
<1>1. Init => Guarded
  BY InitKeeps DEF Init, Guarded
<1>2. Guarded /\ [Next]_vars => Guarded'
  BY StepGuards
<1> QED
  BY <1>1, <1>2, PTL DEF Spec

LEMMA SeqLarger ==
  ASSUME NEW S, NEW T, S \subseteq T, NEW s \in Seq(S)
  PROVE  s \in Seq(T)
<1>1. Len(s) \in Nat /\ s \in [1..Len(s) -> S]
  OBVIOUS
<1>2. s \in [1..Len(s) -> T]
  BY <1>1
<1> QED
  BY <1>1, <1>2

LEMMA InvTyped ==
  ASSUME Inv, stale \in BOOLEAN
  PROVE  TypeOK
<1>1. /\ cmds \in Seq(Orders) /\ upto \in 0..Len(cmds) /\ undos \in Stacks
      /\ game \in Games /\ peer \in Games
  BY StandingFacts DEF Inv
<1>2. redos \in Seq([command : Orders, data : Seq(Orders)])
  BY DEF Inv, CanRedo, Restorable
<1>3. Orders \subseteq Commands
  BY DEF Orders
<1>4. cmds \in Seq(Commands)
  BY <1>1, <1>3, SeqLarger
<1>5. undos \in Seq([command : Commands, data : {<<>>}])
  <2>1. [command : Orders, data : {<<>>}] \subseteq [command : Commands, data : {<<>>}]
    BY <1>3
  <2>2. undos \in Seq([command : Orders, data : {<<>>}])
    BY <1>1 DEF Stacks
  <2> QED
    BY <2>1, <2>2, SeqLarger
<1>6. redos \in Seq([command : Commands, data : Seq(Commands)])
  <2>1. Seq(Orders) \subseteq Seq(Commands)
    BY <1>3, SeqLarger
  <2>2. [command : Orders, data : Seq(Orders)] \subseteq [command : Commands, data : Seq(Commands)]
    BY <1>3, <2>1
  <2> QED
    BY <1>2, <2>2, SeqLarger
<1>7. lapsed \subseteq Units /\ control \in {"ours", "leaving", "lost"}
  BY DEF Inv
<1> QED
  BY <1>1, <1>4, <1>5, <1>6, <1>7 DEF TypeOK

LEMMA InvReproduces ==
  ASSUME Inv
  PROVE  RecordReproduces
<1>1. Settled(cmds, upto, game, peer, lapsed) /\ cmds \in Seq(Orders)
  BY Settles, StandingFacts DEF Inv
<1>2. Reaches(NewGame, 0, FALSE, cmds, game, lapsed)
  BY <1>1 DEF Settled
<1>3. PICK Q : /\ Chain(Q, NewGame, cmds, Exec(cmds, 0, FALSE))
               /\ Alike(Q[Len(cmds)], game, lapsed)
  BY <1>2 DEF Reaches
<1>4. Exec(cmds, 0, FALSE) = 1..Len(cmds)
  <2>1. Len(cmds) \in Nat
    BY <1>1
  <2> QED
    BY <2>1 DEF Exec
<1>5. Chain(Q, NewGame, cmds, 1..Len(cmds))
  BY <1>3, <1>4
<1>6. Run(NewGame, cmds) = Q[Len(cmds)]
  BY <1>1, <1>5, NewGameTyped, RunIsChain
<1> QED
  BY <1>3, <1>6 DEF RecordReproduces, Same, Alike

LEMMA InvCatchesUp ==
  ASSUME Inv
  PROVE  PeerCatchesUp
<1>1. /\ Settled(cmds, upto, game, peer, lapsed) /\ cmds \in Seq(Orders) /\ upto \in 0..Len(cmds)
      /\ game \in Games /\ peer \in Games /\ OwnNames(peer)
  BY Settles, StandingFacts DEF Inv
<1>2. Reaches(peer, upto, TRUE, cmds, game, lapsed)
  BY <1>1 DEF Settled
<1>a. upto \in Nat
  BY <1>1, ElementIs
<1>3. Alike(Run(peer, Unsent(cmds, upto)), game, lapsed)
  BY <1>1, <1>2, <1>a, ReachesSent
<1> QED
  BY <1>3 DEF PeerCatchesUp, Same, Alike

LEMMA TakesBack ==
  ASSUME NEW up, NEW g, NEW p, NEW lost, Standing(cmds, up, undos, g, p, lost), Top # 0
  PROVE  CanTakeBack(g, undos[Top].command)
<1> DEFINE c == undos[Top].command
<1>1. PICK P, A : Sound(cmds, up, undos, g, p, lost, P, A)
  BY DEF Standing
<1>2. /\ undos \in Stacks /\ g \in Games /\ OwnNames(g) /\ A[Len(undos)] = Board(g)
      /\ Stepped(undos, A)
  BY <1>1 DEF Sound, Typed
<1>3. /\ Len(undos) \in Nat /\ Top \in 1..Len(undos) /\ Top \in 0..Len(undos)
      /\ Top - 1 \in 0..Len(undos) /\ c.kind \notin Shroud
  BY <1>2, TopIs
<1>4. A[Top].at = g.at
  BY <1>1, PeelSound
<1>5. /\ A[Top] \in Boards /\ A[Top - 1] \in Boards /\ Alone(A[Top - 1].at)
      /\ BoardStep(A[Top - 1], c, A[Top])
  BY <1>2, <1>3 DEF Stepped
<1>6. AtStep(A[Top - 1].at, c, g.at)
  BY <1>3, <1>4, <1>5 DEF BoardStep
<1>7. c \in Orders /\ A[Top - 1].at \in [Units -> Places]
  BY <1>2, <1>3, <1>5, StackIs, BoardFields
<1> HIDE DEF c
<1> QED
  BY <1>2, <1>5, <1>6, <1>7, StepTakenBack DEF c

LEMMA InvUndoes ==
  ASSUME Inv
  PROVE  UndoPossible
<1>1. /\ Standing(cmds, upto, undos, game, peer, lapsed) /\ lapsed \subseteq Units
      /\ undos \in Stacks /\ game \in Games
  BY StandingFacts DEF Inv
<1>2. ASSUME Top # 0 PROVE CanTakeBack(game, undos[Top].command)
  BY <1>1, <1>2, TakesBack
<1>3. ASSUME redos # <<>> PROVE CanDoAgain(game, Last(redos).command)
  <2>1. PICK B : Restorable(redos, B, game.at)
    BY DEF Inv, CanRedo
  <2>2. /\ redos \in Seq([command : Orders, data : Seq(Orders)]) /\ B[Len(redos)] = game.at
        /\ \A i \in 1..Len(redos) : AtStep(B[i], redos[i].command, B[i - 1])
    BY <2>1 DEF Restorable
  <2>3. Len(redos) \in 1..Len(redos) /\ Last(redos) = redos[Len(redos)]
    BY <1>3, <2>2 DEF Last
  <2>4. AtStep(game.at, Last(redos).command, B[Len(redos) - 1])
    BY <2>2, <2>3
  <2> QED
    BY <1>1, <2>4, StepAgain
<1> QED
  BY <1>2, <1>3 DEF UndoPossible

\* Between an action and the next no command on record can be undone.
LEMMA NoneBetween ==
  ASSUME NEW cs, NEW us, NEW P, NEW A, Calm(cs, us, P, A), NEW k \in 0..Len(us),
         NEW j \in 1..Len(cs), P[k] # j, P[k] <= j, k < Len(us) => j < P[k + 1]
  PROVE  ~Real(cs[j])
<1>1. Belongs(us, P, k, j)
  BY DEF Belongs
<1>2. Quiet(cs[j], A[k], After(us, k))
  BY <1>1 DEF Calm
<1> QED
  BY <1>2 DEF Quiet, Real, Undoable, Async, Dependent

LEMMA InvOnRecord ==
  ASSUME Inv
  PROVE  StackIsRecord
<1> DEFINE I == {i \in upto+1..Len(cmds) : ~cmds[i].sent /\ Real(cmds[i])}
           open == Kept(cmds, I)
           n == Len(open)
           m == Len(undos)
<1>1. PICK P, A : Sound(cmds, upto, undos, game, peer, lapsed, P, A)
  BY DEF Inv, Standing
<1>2. /\ cmds \in Seq(Orders) /\ upto \in 0..Len(cmds) /\ undos \in Stacks
      /\ Paired(cmds, upto, undos, P) /\ Stepped(undos, A) /\ Calm(cmds, undos, P, A)
  BY <1>1 DEF Sound, Typed
<1>3. Len(cmds) \in Nat /\ m \in Nat /\ upto \in Nat /\ DOMAIN undos = 1..m
  BY <1>2, StackIs DEF Stacks
<1>4. open \in Seq(Orders) /\ \E f : Part(open, cmds, I, f)
  <2> HIDE DEF I
  <2> QED
    BY <1>2, KeptIsPart
<1>5. PICK f : Part(open, cmds, I, f)
  BY <1>4
<1>6. /\ n \in Nat /\ f \in [0..n -> 0..Len(cmds)]
      /\ \A i \in 1..n : f[i] \in I /\ open[i] = cmds[f[i]]
  BY <1>4, <1>5 DEF Part
<1>7. ASSUME NEW k \in 1..m
      PROVE  P[k] \in I /\ P[k] \in 1..Len(cmds) /\ cmds[P[k]] = undos[k].command
  <2>1. k \in 0..m /\ k - 1 \in 0..m /\ k - 1 < k
    BY <1>3
  <2>2. P[k] \in upto..Len(cmds) /\ P[k - 1] \in upto..Len(cmds) /\ P[k - 1] < P[k]
        /\ cmds[P[k]] = undos[k].command
    BY <1>2, <2>1 DEF Paired
  <2>3. P[k] \in upto+1..Len(cmds) /\ P[k] \in 1..Len(cmds)
    BY <1>2, <1>3, <2>2
  <2> DEFINE c == undos[k].command
  <2>4. BoardStep(A[k - 1], c, A[k]) /\ ~c.sent
    BY <1>2 DEF Stepped
  <2> HIDE DEF c
  <2>5. c.kind \in Moving \/ c.kind \in Shroud
    BY <2>4 DEF BoardStep, AtStep
  <2>6. Real(c)
    BY <2>5 DEF Real, Undoable, Async, Dependent, Moving, Shroud
  <2> QED
    BY <2>2, <2>3, <2>4, <2>6 DEF c
<1>8. \A j \in I : j \in 1..Len(cmds) /\ Real(cmds[j])
  BY <1>2, <1>3
<1> HIDE DEF I, open, n, m
\* What stands d places below the top of one is what stands d below that of the other.
<1> DEFINE G == {d \in 0..m-1 : n - d \in 1..n /\ f[n - d] = P[m - d]}
\* The position after the one where the d-th from the top is on record.
<1>9. ASSUME NEW d \in 0..m-1, d # 0 => d - 1 \in G PROVE d \in G
  <2> DEFINE k == m - d
             b == n - d
  <2>1. k \in 1..m /\ k \in 0..m /\ (d = 0 => k = m) /\ (d # 0 => k + 1 \in 1..m /\ k < m)
    BY <1>3
  <2>2. d # 0 => b + 1 \in 1..n /\ f[b + 1] = P[k + 1]
    <3>1. m - (d - 1) = k + 1 /\ n - (d - 1) = b + 1
      BY <1>3, <1>6
    <3> QED
      BY <1>9, <3>1
  <2>3. d = 0 => b = n
    BY <1>6
  <2>d. d \in Nat /\ b \in Int /\ b <= n /\ k = m - d
    BY <1>3, <1>6
  <2> HIDE DEF k, b
  <2>4. P[k] \in I /\ P[k] \in 1..Len(cmds)
    BY <1>7, <2>1
  <2>5. PICK e \in 1..n : f[e] = P[k]
    BY <1>3, <1>5, <1>6, <2>4, PartOnto DEF n
  <2>6. e <= b
    <3>1. CASE d = 0
      BY <2>3, <2>5, <3>1
    <3>2. CASE d # 0
      <4>1. P[k] < P[k + 1]
        <5>1. k \in 0..m /\ k + 1 \in 0..m /\ k < k + 1
          BY <1>3, <2>1, <3>2
        <5> QED
          BY <1>2, <5>1 DEF Paired, m
      <4>2. f[e] < f[b + 1] /\ e \in 0..n /\ b + 1 \in 0..n
        BY <1>6, <2>2, <2>5, <3>2, <4>1
      <4>3. e < b + 1
        BY <1>3, <1>5, <1>6, <4>2, PartFalls DEF n
      <4> QED
        BY <2>d, <2>5, <4>3
    <3> QED
      BY <3>1, <3>2
  <2>7. b \in 1..n
    BY <2>d, <2>5, <2>6
  <2>8. CASE e = b
    BY <2>5, <2>7, <2>8 DEF k, b
  <2>9. CASE e # b
    <3>1. e < b /\ e \in 0..n /\ b \in 0..n
      BY <1>6, <2>5, <2>6, <2>7, <2>9
    <3>2. f[e] < f[b]
      BY <1>3, <1>5, <1>6, <3>1, PartRises DEF n
    <3> DEFINE j == f[b]
    <3>3. j \in 1..Len(cmds) /\ Real(cmds[j])
      BY <1>6, <1>8, <2>7
    <3>4. P[k] < j
      BY <2>5, <3>2
    <3>5. k < m => j < P[k + 1]
      <4> SUFFICES ASSUME k < m PROVE j < P[k + 1]
        OBVIOUS
      <4>1. d # 0
        BY <1>3, <2>1
      <4>2. b + 1 \in 1..n /\ b + 1 \in 0..n /\ f[b + 1] = P[k + 1] /\ b < b + 1
        BY <1>6, <2>2, <2>7, <4>1
      <4>3. f[b] < f[b + 1]
        BY <1>3, <1>5, <1>6, <3>1, <4>2, PartRises DEF n
      <4> QED
        BY <4>2, <4>3
    <3> HIDE DEF j
    <3>6. ~Real(cmds[j])
      <4>1. P[k] # j /\ P[k] <= j /\ k \in 0..Len(undos) /\ (k < Len(undos) => j < P[k + 1])
        BY <2>1, <2>4, <3>3, <3>4, <3>5 DEF m
      <4> QED
        BY <1>2, <3>3, <4>1, NoneBetween
    <3> QED
      BY <3>3, <3>6
  <2> QED
    BY <2>8, <2>9
<1>10. ASSUME m # 0 PROVE \A d \in 0..m-1 : d \in G
  <2>1. 0 \in 0..m-1 /\ m - 1 \in Nat
    BY <1>3, <1>10
  <2>2. 0 \in G
    BY <1>9, <2>1
  <2>3. \A d \in 0..m-1 : d # 0 /\ d - 1 \in G => d \in G
    BY <1>9
  <2> HIDE DEF G
  <2> QED
    BY <2>1, <2>2, <2>3, UpFrom
<1>11. m <= n
  <2>1. CASE m = 0
    BY <1>6, <2>1
  <2>2. CASE m # 0
    <3>1. m - 1 \in 0..m-1
      BY <1>3, <2>2
    <3>2. m - 1 \in G
      BY <1>10, <2>2, <3>1
    <3>3. n - (m - 1) \in 1..n
      BY <3>2
    <3> QED
      BY <1>3, <1>6, <3>3
  <2> QED
    BY <2>1, <2>2
<1>12. ASSUME NEW i \in 1..m PROVE undos[i].command = open[n - m + i]
  <2>1. m - i \in 0..m-1 /\ m # 0 /\ n - (m - i) = n - m + i /\ m - (m - i) = i
    BY <1>3, <1>6
  <2>2. m - i \in G
    BY <1>10, <2>1
  <2>3. n - m + i \in 1..n /\ f[n - m + i] = P[i]
    BY <2>1, <2>2
  <2>4. open[n - m + i] = cmds[P[i]]
    BY <1>6, <2>3
  <2> QED
    BY <1>7, <2>4
<1> QED
  BY <1>3, <1>11, <1>12 DEF StackIsRecord, open, I, n, m

\* The recorder, the stacks, the games and the place of the sender have their types until
\* an undo has removed commands by stale numbers (replay.cpp:566).
THEOREM Typing == Spec => [](~stale => TypeOK)
<1>1. Guarded => (~stale => TypeOK)
  BY InvTyped DEF Guarded
<1> QED
  BY <1>1, AlwaysGuarded, PTL

\* The record replayed from the start of the turn gives the game as it is, after
\* any undo and redo (do_replay_handle on what undo_cut leaves), until one of them
\* has removed commands by stale numbers.
THEOREM TurnIsOnRecord == Spec => []RecordReproduces
<1>1. Guarded => RecordReproduces
  BY InvReproduces DEF Guarded, RecordReproduces
<1> QED
  BY <1>1, AlwaysGuarded, PTL

-----------------------------------------------------------------------------
(* What was sent stays.                                                      *)

Rises(F, n) ==
  /\ \A i \in 1..n : F[i] \in Nat
  /\ \A i, j \in 1..n : i < j => F[i] < F[j]

Agree(F, G, n, m) == n <= m /\ \A i \in 1..n : F[i] = G[i]

LEMMA RiseAlike ==
  ASSUME NEW n \in Nat, NEW m \in Nat, NEW F, NEW G, Rises(F, n), Rises(G, m),
         \A i \in 1..n : \E j \in 1..m : F[i] = G[j],
         \A j \in 1..m : \E i \in 1..n : G[j] = F[i]
  PROVE  Agree(F, G, n, m)
<1> DEFINE T(k) == k <= m /\ \A i \in 1..k : F[i] = G[i]
           H == {k \in 0..n : T(k)}
<1>1. 0 \in H
  OBVIOUS
<1>2. ASSUME NEW k \in 0..n, k # 0, k - 1 \in H PROVE k \in H
  <2>1. k \in 1..n /\ k - 1 <= m /\ \A i \in 1..k-1 : F[i] = G[i]
    BY <1>2
  <2>2. PICK j \in 1..m : F[k] = G[j]
    BY <2>1
  <2>3. ASSUME j < k PROVE FALSE
    <3>1. j \in 1..k-1 /\ j \in 1..n
      BY <2>1, <2>3
    <3>2. F[j] < F[k] /\ F[j] = G[j] /\ F[j] \in Nat
      BY <2>1, <2>3, <3>1 DEF Rises
    <3> QED
      BY <2>2, <3>2
  <2>4. k <= m /\ k \in 1..m
    BY <2>1, <2>2, <2>3
  <2>5. ASSUME k < j PROVE FALSE
    <3>1. G[k] < G[j]
      BY <2>2, <2>4, <2>5 DEF Rises
    <3>2. PICK i \in 1..n : G[k] = F[i]
      BY <2>4
    <3>3. F[i] < F[k] /\ F[i] \in Nat /\ F[k] \in Nat
      BY <2>1, <2>2, <3>1, <3>2 DEF Rises
    <3>4. i < k
      <4>1. CASE k < i
        <5>1. F[k] < F[i]
          BY <2>1, <4>1 DEF Rises
        <5> QED
          BY <3>3, <5>1
      <4>2. CASE k = i
        BY <3>3, <4>2
      <4> QED
        BY <2>1, <4>1, <4>2
    <3>5. i \in 1..k-1 /\ i \in 1..m
      BY <2>1, <3>4
    <3>6. G[i] < G[k] /\ G[i] = F[i] /\ G[i] \in Nat
      BY <2>1, <2>4, <3>4, <3>5 DEF Rises
    <3> QED
      BY <3>2, <3>6
  <2>6. j = k
    BY <2>1, <2>2, <2>3, <2>5
  <2>7. \A i \in 1..k : F[i] = G[i]
    <3>1. \A i \in 1..k : i \in 1..k-1 \/ i = k
      BY <2>1
    <3>2. F[k] = G[k]
      BY <2>2, <2>6
    <3> QED
      BY <2>1, <3>1, <3>2
  <2>8. T(k)
    BY <2>4, <2>7
  <2> HIDE DEF T
  <2> QED
    BY <2>8
<1>3. n \in H
  <2>1. \A k \in 0..n : k # 0 /\ k - 1 \in H => k \in H
    BY <1>2
  <2> HIDE DEF H
  <2>2. \A k \in 0..n : k \in H
    BY <1>1, <2>1, UpFrom
  <2> QED
    BY <2>2
<1> QED
  BY <1>3 DEF Agree

LEMMA PartEnumerates ==
  ASSUME NEW t, Len(t) \in Nat, NEW s, Len(s) \in Nat, NEW I, NEW f, Part(t, s, I, f)
  PROVE  /\ Rises(f, Len(t))
         /\ \A i \in 1..Len(t) : f[i] \in I /\ f[i] \in 1..Len(s) /\ t[i] = s[f[i]]
<1>1. \A i \in 1..Len(t) : f[i] \in I /\ f[i] \in 1..Len(s) /\ t[i] = s[f[i]]
  <2> SUFFICES ASSUME NEW i \in 1..Len(t)
               PROVE  f[i] \in I /\ f[i] \in 1..Len(s) /\ t[i] = s[f[i]]
    OBVIOUS
  <2>a. i \in 0..Len(t) /\ i - 1 \in 0..Len(t)
    OBVIOUS
  <2>b. f \in [0..Len(t) -> 0..Len(s)] /\ f[i - 1] < f[i] /\ f[i] \in I /\ t[i] = s[f[i]]
    BY DEF Part
  <2>1. f[i] \in 0..Len(s) /\ f[i - 1] \in 0..Len(s) /\ f[i - 1] < f[i]
        /\ f[i] \in I /\ t[i] = s[f[i]]
    BY <2>a, <2>b
  <2> QED
    BY <2>1
<1>2. \A i, j \in 1..Len(t) : i < j => f[i] < f[j]
  <2> SUFFICES ASSUME NEW i \in 1..Len(t), NEW j \in 1..Len(t), i < j PROVE f[i] < f[j]
    OBVIOUS
  <2>1. i \in 0..Len(t) /\ j \in 0..Len(t)
    OBVIOUS
  <2> QED
    BY <2>1, PartRises
<1> QED
  BY <1>1, <1>2 DEF Rises

\* What was sent of cs is found in t.
LEMMA FoundAgain ==
  ASSUME NEW cs \in Seq(Orders), NEW t \in Seq(Orders), NEW h, Finds(h, cs, t)
  PROVE  \E I \in SUBSET Sents(t) : Kept(t, I) = Kept(cs, Sents(cs))
<1> DEFINE J == Sents(cs)
           I == {h[j] : j \in J}
           u == Kept(t, I)
           s == Kept(cs, J)
<1>1. I \in SUBSET Sents(t)
  BY DEF Finds
<1>2. \A i \in I : \E j \in J : i = h[j]
  OBVIOUS
<1>3. \A j \in J : h[j] \in I
  OBVIOUS
<1>4. u \in Seq(Orders) /\ (\E e : Part(u, t, I, e)) /\ s \in Seq(Orders) /\ (\E f : Part(s, cs, J, f))
  <2> HIDE DEF I, J
  <2> QED
    BY KeptIsPart
<1>5. PICK e : Part(u, t, I, e)
  BY <1>4
<1>6. PICK f : Part(s, cs, J, f)
  BY <1>4
<1> HIDE DEF I, u, s
<1>7. Len(u) \in Nat /\ Len(s) \in Nat /\ Len(t) \in Nat /\ Len(cs) \in Nat
  BY <1>4, ElementIs
<1>8. /\ Rises(e, Len(u))
      /\ \A i \in 1..Len(u) : e[i] \in I /\ e[i] \in 1..Len(t) /\ u[i] = t[e[i]]
  BY <1>5, <1>7, PartEnumerates
<1>9. /\ Rises(f, Len(s))
      /\ \A i \in 1..Len(s) : f[i] \in J /\ f[i] \in 1..Len(cs) /\ s[i] = cs[f[i]]
  <2> HIDE DEF J
  <2> QED
    BY <1>6, <1>7, PartEnumerates
<1> DEFINE F == [i \in 1..Len(s) |-> h[f[i]]]
<1>10. \A i \in 1..Len(s) : F[i] = h[f[i]]
  OBVIOUS
<1> HIDE DEF F
<1>11. Rises(F, Len(s))
  <2>1. \A i \in 1..Len(s) : F[i] \in Nat
    <3> SUFFICES ASSUME NEW i \in 1..Len(s) PROVE F[i] \in Nat
      OBVIOUS
    <3>1. h[f[i]] \in Sents(t)
      BY <1>9 DEF Finds
    <3> QED
      BY <1>10, <3>1 DEF Sents
  <2>2. \A i, j \in 1..Len(s) : i < j => F[i] < F[j]
    <3> SUFFICES ASSUME NEW i \in 1..Len(s), NEW j \in 1..Len(s), i < j PROVE F[i] < F[j]
      OBVIOUS
    <3>1. f[i] < f[j] /\ f[i] \in J /\ f[j] \in J
      BY <1>9 DEF Rises
    <3>2. h[f[i]] < h[f[j]]
      BY <3>1 DEF Finds
    <3> QED
      BY <1>10, <3>2
  <2> QED
    BY <2>1, <2>2 DEF Rises
<1>12. \A i \in 1..Len(s) : \E j \in 1..Len(u) : F[i] = e[j]
  <2> SUFFICES ASSUME NEW i \in 1..Len(s) PROVE \E j \in 1..Len(u) : F[i] = e[j]
    OBVIOUS
  <2>1. F[i] \in I /\ F[i] \in 1..Len(t)
    <3>1. F[i] \in I
      BY <1>3, <1>9, <1>10
    <3> QED
      BY <1>1, <3>1 DEF Sents
  <2>2. \E j \in 1..Len(u) : e[j] = F[i]
    BY <1>5, <1>7, <2>1, PartOnto
  <2> QED
    BY <2>2
<1>13. \A j \in 1..Len(u) : \E i \in 1..Len(s) : e[j] = F[i]
  <2> SUFFICES ASSUME NEW j \in 1..Len(u) PROVE \E i \in 1..Len(s) : e[j] = F[i]
    OBVIOUS
  <2>1. PICK k \in J : e[j] = h[k]
    BY <1>2, <1>8
  <2>2. k \in 1..Len(cs)
    BY DEF Sents
  <2>3. PICK i \in 1..Len(s) : f[i] = k
    <3> HIDE DEF J
    <3> QED
      BY <1>6, <1>7, <2>1, <2>2, PartOnto
  <2> QED
    BY <1>10, <2>1, <2>3
<1>r. Rises(e, Len(u))
  BY <1>8
<1>14. Len(s) <= Len(u) /\ \A i \in 1..Len(s) : F[i] = e[i]
  <2> DEFINE n == Len(s)
             m == Len(u)
  <2>1. /\ n \in Nat /\ m \in Nat /\ Rises(F, n) /\ Rises(e, m)
        /\ \A i \in 1..n : \E j \in 1..m : F[i] = e[j]
        /\ \A j \in 1..m : \E i \in 1..n : e[j] = F[i]
    BY <1>7, <1>r, <1>11, <1>12, <1>13
  <2> HIDE DEF n, m
  <2>2. Agree(F, e, n, m)
    BY <2>1, RiseAlike
  <2> QED
    BY <2>2 DEF Agree, n, m
<1>15. Len(u) <= Len(s)
  <2>1. Agree(e, F, Len(u), Len(s))
    BY <1>7, <1>r, <1>11, <1>12, <1>13, RiseAlike
  <2> QED
    BY <2>1 DEF Agree
<1>16. \A i \in 1..Len(u) : u[i] = s[i]
  <2> SUFFICES ASSUME NEW i \in 1..Len(u) PROVE u[i] = s[i]
    OBVIOUS
  <2>1. i \in 1..Len(s)
    BY <1>7, <1>15
  <2>2. u[i] = t[h[f[i]]] /\ s[i] = cs[f[i]] /\ f[i] \in J
    BY <1>8, <1>9, <1>10, <1>14, <2>1
  <2>3. t[h[f[i]]] = cs[f[i]]
    BY <2>2 DEF Finds
  <2> QED
    BY <2>2, <2>3
<1>17. u = s
  <2>1. Len(u) = Len(s)
    BY <1>7, <1>14, <1>15
  <2> QED
    BY <1>4, <1>16, <2>1, SameSequence
<1> QED
  BY <1>1, <1>17 DEF u, s

\* A step of the property.
SentStays ==
  /\ upto <= upto'
  /\ IsPrefix(SubSeq(cmds, 1, upto), cmds')
  /\ \E I \in SUBSET {i \in DOMAIN cmds' : cmds'[i].sent} :
       Kept(cmds', I) = Kept(cmds, {i \in DOMAIN cmds : cmds[i].sent})

LEMMA RetainsStays ==
  ASSUME cmds \in Seq(Orders), upto \in 0..Len(cmds), cmds' \in Seq(Orders), upto <= upto',
         Retains(upto, cmds, cmds')
  PROVE  SentStays
<1>1. PICK h : Finds(h, cmds, cmds')
  BY DEF Retains
<1>2. \E I \in SUBSET Sents(cmds') : Kept(cmds', I) = Kept(cmds, Sents(cmds))
  BY <1>1, FoundAgain
<1>3. /\ Sents(cmds') = {i \in DOMAIN cmds' : cmds'[i].sent}
      /\ Sents(cmds) = {i \in DOMAIN cmds : cmds[i].sent}
  BY DEF Sents
<1>4. IsPrefix(SubSeq(cmds, 1, upto), cmds')
  <2> DEFINE a == SubSeq(cmds, 1, upto)
             b == SubSeq(cmds', 1, upto)
  <2>1. upto \in Nat /\ upto <= Len(cmds') /\ Len(cmds') \in Nat /\ \A i \in 1..upto : cmds'[i] = cmds[i]
    BY ElementIs DEF Retains
  <2>2. upto \in 0..Len(cmds')
    BY <2>1
  <2>3. /\ a \in Seq(Orders) /\ Len(a) = upto /\ \A i \in 1..upto : a[i] = cmds[i]
        /\ b \in Seq(Orders) /\ Len(b) = upto /\ \A i \in 1..upto : b[i] = cmds'[i]
    BY <2>2, BeginIs
  <2> HIDE DEF a, b
  <2>4. a = b
    BY <2>1, <2>3, SameSequence
  <2>5. Len(a) <= Len(cmds') /\ SubSeq(a, 1, Len(a)) = a
    BY <2>1, <2>3, BeginAll
  <2>6. SubSeq(cmds', 1, Len(a)) = a
    BY <2>3, <2>4 DEF b
  <2> QED
    BY <2>5, <2>6 DEF IsPrefix, a
<1> QED
  BY <1>2, <1>3, <1>4 DEF SentStays

LEMMA CatRetains ==
  ASSUME NEW cs \in Seq(Orders), NEW up \in 0..Len(cs), NEW ds \in Seq(Orders)
  PROVE  Retains(up, cs, cs \o ds)
<1>1. Len(cs) \in Nat /\ Len(ds) \in Nat /\ up \in Nat /\ up <= Len(cs)
  BY ElementIs
<1>2. Len(cs \o ds) = Len(cs) + Len(ds) /\ \A i \in 1..Len(cs) : (cs \o ds)[i] = cs[i]
  BY CatIs
<1> HIDE DEF Retains
<1>3. Len(cs \o ds) \in Nat /\ Len(cs) <= Len(cs \o ds)
  BY <1>1, <1>2
<1> QED
  BY <1>1, <1>2, <1>3, RetainsMore

\* What only adds to the record.
LEMMA AddsStays ==
  ASSUME Inv, NEW ds \in Seq(Orders), cmds' = cmds \o ds, upto' \in {upto, Len(cmds')}
  PROVE  SentStays
<1>1. cmds \in Seq(Orders) /\ upto \in 0..Len(cmds)
  BY StandingFacts DEF Inv
<1>2. /\ cmds' \in Seq(Orders) /\ Len(cmds') = Len(cmds) + Len(ds)
      /\ Len(cmds) \in Nat /\ Len(ds) \in Nat
  BY <1>1, CatIs, ElementIs
<1>3. upto <= upto'
  BY <1>1, <1>2
<1>4. Retains(upto, cmds, cmds')
  BY <1>1, CatRetains
<1> QED
  BY <1>1, <1>2, <1>3, <1>4, RetainsStays

LEMMA AppendStays ==
  ASSUME Inv, NEW c \in Orders, cmds' = Append(cmds, c), upto' \in {upto, Len(cmds')}
  PROVE  SentStays
<1>1. cmds \in Seq(Orders) /\ <<c>> \in Seq(Orders)
  BY StandingFacts DEF Inv
<1>2. cmds' = cmds \o <<c>>
  BY <1>1, OneMore
<1> QED
  BY <1>1, <1>2, AddsStays

LEMMA PerformStays ==
  ASSUME Inv, NEW c \in Orders, NEW n \in 0..1, NEW undoable, Perform(c, n, undoable)
  PROVE  SentStays
<1> DEFINE x == [i \in 1..n |-> Command("choice")]
<1>1. x \in Seq(Orders) /\ <<c>> \in Seq(Orders) /\ cmds \in Seq(Orders)
  <2>1. Command("choice") \in Orders
    BY PlainCommand DEF Plain
  <2>2. x \in [1..n -> Orders]
    BY <2>1
  <2> QED
    BY <2>2, StandingFacts DEF Inv
<1>2. cmds' = cmds \o <<c>> \o x /\ upto' = upto
  BY DEF Perform
<1> HIDE DEF x
<1>3. cmds' = cmds \o (<<c>> \o x)
  BY <1>1, <1>2, ConcatAssociative
<1>4. <<c>> \o x \in Seq(Orders)
  BY <1>1, CatIs
<1> QED
  BY <1>2, <1>3, <1>4, AddsStays

LEMMA UndoStays ==
  ASSUME Inv, Inv', UndoStep, ~stale'
  PROVE  SentStays
<1>1. /\ cmds \in Seq(Orders) /\ upto \in 0..Len(cmds) /\ undos \in Stacks /\ cmds' \in Seq(Orders)
  <2>1. cmds \in Seq(Orders) /\ upto \in 0..Len(cmds) /\ undos \in Stacks
    BY StandingFacts DEF Inv
  <2>2. Standing(cmds', upto', undos', game', peer', lapsed')
    BY DEF Inv
  <2>3. cmds' \in Seq(Orders)
    BY <2>2, StandingFacts
  <2> QED
    BY <2>1, <2>3
<1>2. PICK P, A : Sound(cmds, upto, undos, game, peer, lapsed, P, A)
  BY DEF Inv, Standing
<1> DEFINE us == SubSeq(undos, 1, Top)
<1>3. /\ Sound(Peeled, upto, us, Lit(game, A[Top].auto), peer, lapsed, P, A)
      /\ Retains(upto, cmds, Peeled)
  BY <1>2, PeelSound
<1>4. Len(us) = Top /\ Again \in Seq(Orders) /\ upto \in Nat
  <2>1. Top \in 0..Len(undos)
    BY <1>1, TopIs
  <2> QED
    BY <1>1, <2>1, BeginIs, OnTopIs, ElementIs DEF Stacks
<1>5. Peeled \in Seq(Orders) /\ upto \in 0..Len(Peeled)
  BY <1>3 DEF Sound, Typed
<1>6. \/ cmds' = Peeled \o Again
      \/ Top # 0 /\ cmds' = UndoCut(Peeled) \o Again /\ NumbersHold(Peeled)
  BY DEF UndoStep
<1>7. Retains(upto, cmds, cmds')
  <2>1. CASE cmds' = Peeled \o Again
    <3>1. Retains(upto, Peeled, Peeled \o Again)
      BY <1>4, <1>5, CatRetains
    <3> QED
      BY <1>3, <1>4, <2>1, <3>1, RetainsOn
  <2>2. CASE Top # 0 /\ cmds' = UndoCut(Peeled) \o Again /\ NumbersHold(Peeled)
    <3>1. Retains(upto, Peeled, UndoCut(Peeled))
      BY <1>3, <1>4, <2>2, CutRetains
    <3>2. UndoCut(Peeled) \in Seq(Orders) /\ upto \in 0..Len(UndoCut(Peeled))
      <4>1. UndoCut(Peeled) \in Seq(Orders)
        BY <1>5, UndoCutTyped
      <4>2. Len(UndoCut(Peeled)) \in Nat /\ upto <= Len(UndoCut(Peeled))
        BY <3>1, <4>1, ElementIs DEF Retains
      <4> QED
        BY <1>4, <4>1, <4>2
    <3>3. Retains(upto, UndoCut(Peeled), UndoCut(Peeled) \o Again)
      BY <1>4, <3>2, CatRetains
    <3>4. Retains(upto, cmds, UndoCut(Peeled))
      BY <1>3, <1>4, <3>1, RetainsOn
    <3> QED
      BY <1>4, <2>2, <3>3, <3>4, RetainsOn
  <2> QED
    BY <1>6, <2>1, <2>2
<1>8. upto <= upto'
  BY <1>4 DEF UndoStep
<1> QED
  BY <1>1, <1>7, <1>8, RetainsStays

LEMMA ActsStay ==
  ASSUME Inv, Recruit \/ Recall \/ MoveUnit \/ Dismiss
  PROVE  SentStays
<1>2. CASE Recruit
  <2>1. PICK u \in Recruits, h \in Hexes, n \in 0..1, undoable \in BOOLEAN :
          Perform([Command("recruit") EXCEPT !.unit = u, !.to = h], n, undoable)
    BY <1>2 DEF Recruit
  <2> DEFINE c == [Command("recruit") EXCEPT !.unit = u, !.to = h]
  <2>2. c \in Commands /\ c.kind = "recruit" /\ c.to = h
    BY DEF Command, Commands, Kinds, Units
  <2>3. Perform(c, n, undoable)
    BY <2>1
  <2> HIDE DEF c
  <2>4. c \in Orders
    BY <2>2 DEF Orders
  <2> QED
    BY <2>3, <2>4, PerformStays
<1>3. CASE Recall
  <2>1. PICK u \in Veterans, h \in Hexes, n \in 0..1, undoable \in BOOLEAN :
          Perform([Command("recall") EXCEPT !.unit = u, !.to = h], n, undoable)
    BY <1>3 DEF Recall
  <2> DEFINE c == [Command("recall") EXCEPT !.unit = u, !.to = h]
  <2>2. c \in Commands /\ c.kind = "recall" /\ c.to = h
    BY DEF Command, Commands, Kinds, Units
  <2>3. Perform(c, n, undoable)
    BY <2>1
  <2> HIDE DEF c
  <2>4. c \in Orders
    BY <2>2 DEF Orders
  <2> QED
    BY <2>3, <2>4, PerformStays
<1>4. CASE MoveUnit
  <2>1. PICK u \in Units, h \in Hexes, n \in 0..1, undoable \in BOOLEAN :
          /\ game.at[u] \in Hexes
          /\ Perform([Command("move") EXCEPT !.at = game.at[u], !.to = h], n, undoable)
    BY <1>4 DEF MoveUnit
  <2> DEFINE from == game.at[u]
             c == [Command("move") EXCEPT !.at = from, !.to = h]
  <2>2. from \in Hexes /\ Perform(c, n, undoable)
    BY <2>1
  <2> HIDE DEF from
  <2>3. c \in Commands /\ c.kind = "move" /\ c.at = from /\ c.to = h
    BY <2>2 DEF Command, Commands, Kinds
  <2> HIDE DEF c
  <2>4. c \in Orders
    BY <2>2, <2>3 DEF Orders
  <2> QED
    BY <2>2, <2>4, PerformStays
<1>5. CASE Dismiss
  <2>1. PICK u \in Veterans : Perform([Command("disband") EXCEPT !.unit = u], 0, TRUE)
    BY <1>5 DEF Dismiss
  <2> DEFINE c == [Command("disband") EXCEPT !.unit = u]
  <2>2. c \in Commands /\ c.kind = "disband"
    BY DEF Command, Commands, Kinds, Units
  <2>3. Perform(c, 0, TRUE)
    BY <2>1
  <2>5. 0 \in 0..1
    OBVIOUS
  <2> HIDE DEF c
  <2>4. c \in Orders
    BY <2>2 DEF Orders
  <2> QED
    BY <2>3, <2>4, <2>5, PerformStays
<1> QED
  BY <1>2, <1>3, <1>4, <1>5

LEMMA FightStays ==
  ASSUME Inv, Fight
  PROVE  SentStays
<1> DEFINE c == Command("fight")
           d == AsSent(Command("seed"))
<1>1. c \in Orders /\ d \in Orders
  BY PlainCommand DEF Plain
<1>2. cmds' = cmds \o <<c, d>> /\ upto' = Len(cmds')
  BY DEF Fight, AsSent
<1> HIDE DEF c, d
<1>3. <<c, d>> \in Seq(Orders)
  BY <1>1
<1> QED
  BY <1>2, <1>3, AddsStays

LEMMA TalkStays ==
  ASSUME Inv, Rename \/ Speak \/ Receive
  PROVE  SentStays
<1>1. CASE Rename
  <2>1. PICK u \in Units :
          /\ game.at[u] \in Hexes /\ upto' = upto
          /\ cmds' = Append(cmds, [Command("rename") EXCEPT !.at = game.at[u], !.name = "new"])
    BY <1>1 DEF Rename
  <2> DEFINE hex == game.at[u]
             c == [Command("rename") EXCEPT !.at = hex, !.name = "new"]
  <2>2. hex \in Hexes /\ cmds' = Append(cmds, c)
    BY <2>1
  <2> HIDE DEF hex
  <2>3. c \in Commands /\ c.kind = "rename" /\ c.at = hex /\ c.name = "new"
    BY <2>2 DEF Command, Commands, Kinds, Names
  <2> HIDE DEF c
  <2>4. c \in Orders
    BY <2>2, <2>3 DEF Orders, Names
  <2> QED
    BY <2>1, <2>2, <2>4, AppendStays
<1>2. CASE Speak
  <2>1. Command("speak") \in Orders
    BY PlainCommand DEF Plain
  <2>2. cmds' = Append(cmds, Command("speak")) /\ upto' = upto
    BY <1>2 DEF Speak
  <2> QED
    BY <2>1, <2>2, AppendStays
<1>3. CASE Receive
  <2>1. AsSent(Command("speak")) \in Orders
    BY PlainCommand DEF Plain
  <2>2. cmds' = Append(cmds, AsSent(Command("speak"))) /\ upto' = upto
    BY <1>3 DEF Receive, AsSent
  <2> QED
    BY <2>1, <2>2, AppendStays
<1> QED
  BY <1>1, <1>2, <1>3

LEMMA ShroudStays ==
  ASSUME Inv, UpdateShroud \/ ToggleShroud
  PROVE  SentStays
<1>1. \A k \in Shroud : Command(k) \in Orders
  BY PlainCommand DEF Plain
<1>2. CASE UpdateShroud
  <2>1. cmds' = Append(cmds, Command("update_shroud")) /\ upto' = upto
    BY <1>2 DEF UpdateShroud
  <2>2. Command("update_shroud") \in Orders
    BY <1>1 DEF Shroud
  <2> QED
    BY <2>1, <2>2, AppendStays
<1>3. CASE ToggleShroud
  <2> DEFINE kind == IF game.auto THEN "shroud_off" ELSE "shroud_on"
             c == Command(kind)
             d == Command("update_shroud")
  <2>1. kind \in Shroud
    BY DEF Shroud
  <2>2. upto' = upto /\ (cmds' = Append(cmds, c) \/ cmds' = cmds \o <<d, c>>)
    BY <1>3 DEF ToggleShroud
  <2> HIDE DEF kind
  <2>3. c \in Orders /\ d \in Orders
    BY <1>1, <2>1 DEF Shroud
  <2> HIDE DEF c, d
  <2>4. CASE cmds' = Append(cmds, c)
    BY <2>2, <2>3, <2>4, AppendStays
  <2>5. CASE cmds' = cmds \o <<d, c>>
    <3>1. <<d, c>> \in Seq(Orders)
      BY <2>3
    <3> QED
      BY <2>2, <2>5, <3>1, AddsStays
  <2> QED
    BY <2>2, <2>4, <2>5
<1> QED
  BY <1>2, <1>3

LEMMA RedoStays ==
  ASSUME Inv, Redo
  PROVE  SentStays
<1>1. cmds \in Seq(Orders) /\ upto' = upto
  BY StandingFacts DEF Inv, Redo
<1>2. CASE cmds' = cmds
  <2>1. <<>> \in Seq(Orders) /\ cmds \o <<>> = cmds
    BY <1>1, NothingMore
  <2> QED
    BY <1>1, <1>2, <2>1, AddsStays
<1>3. CASE cmds' # cmds
  <2>a. PICK c : \E n \in IF c.kind \in {"recruit", "recall"} THEN 0..1 ELSE {0} :
                    cmds' = cmds \o Last(redos).data \o [i \in 1..n |-> Command("choice")]
    BY <1>3 DEF Redo
  <2>c. PICK n \in IF c.kind \in {"recruit", "recall"} THEN 0..1 ELSE {0} :
                    cmds' = cmds \o Last(redos).data \o [i \in 1..n |-> Command("choice")]
    BY <2>a
  <2>1. n \in 0..1 /\ cmds' = cmds \o Last(redos).data \o [i \in 1..n |-> Command("choice")]
    BY <2>c
  <2> DEFINE x == [i \in 1..n |-> Command("choice")]
             d == Last(redos).data
  <2>2. x \in Seq(Orders)
    <3>1. Command("choice") \in Orders
      BY PlainCommand DEF Plain
    <3>2. x \in [1..n -> Orders]
      BY <3>1
    <3>3. n \in Nat
      BY <2>1
    <3> QED
      BY <3>2, <3>3
  <2>3. d \in Seq(Orders)
    <3> DEFINE S == [command : Orders, data : Seq(Orders)]
    <3>1. redos \in Seq(S)
      BY DEF Inv, CanRedo, Restorable
    <3>2. redos # <<>>
      BY DEF Redo
    <3> HIDE DEF S
    <3>3. Len(redos) \in 1..Len(redos)
      BY <3>1, <3>2
    <3>4. redos[Len(redos)] \in S
      BY <3>1, <3>3, ElementIs
    <3>5. Last(redos) \in S
      BY <3>4 DEF Last
    <3> QED
      BY <3>5 DEF S
  <2> HIDE DEF x, d
  <2>4. cmds' = cmds \o (d \o x)
    <3>1. cmds' = cmds \o d \o x
      BY <2>1 DEF d, x
    <3> QED
      BY <1>1, <2>2, <2>3, <3>1, ConcatAssociative
  <2>5. d \o x \in Seq(Orders)
    BY <2>2, <2>3, CatIs
  <2> QED
    BY <1>1, <2>4, <2>5, AddsStays
<1> QED
  BY <1>2, <1>3

LEMMA SendStays ==
  ASSUME Inv, Send
  PROVE  SentStays
<1>1. cmds \in Seq(Orders) /\ upto \in 0..Len(cmds) /\ upto \in Nat
  <2>1. cmds \in Seq(Orders) /\ upto \in 0..Len(cmds)
    BY StandingFacts DEF Inv
  <2> QED
    BY <2>1, ElementIs
<1>2. CASE cmds' = cmds /\ upto' = Len(cmds)
  <2>1. <<>> \in Seq(Orders) /\ cmds \o <<>> = cmds
    BY <1>1, NothingMore
  <2> QED
    BY <1>2, <2>1, AddsStays
<1>3. CASE cmds' = Marked(cmds, upto) /\ upto' = upto
  <2>1. /\ cmds' \in Seq(Orders) /\ Len(cmds') = Len(cmds)
        /\ \A j \in 1..Len(cmds) : ~(j > upto /\ cmds[j].kind = "speak") => cmds'[j] = cmds[j]
        /\ \A j \in 1..Len(cmds) : cmds'[j] = cmds[j] \/ cmds'[j] = AsSent(cmds[j])
    <3>1. \A j \in 1..Len(cmds) : cmds'[j] = cmds[j] \/ cmds'[j] = AsSent(cmds[j])
      <4> SUFFICES ASSUME NEW j \in 1..Len(cmds)
                   PROVE  cmds'[j] = cmds[j] \/ cmds'[j] = AsSent(cmds[j])
        OBVIOUS
      <4>1. Marked(cmds, upto) =
              [i \in DOMAIN cmds |-> IF i > upto /\ ~Undoable(cmds[i])
                                     THEN AsSent(cmds[i]) ELSE cmds[i]]
        BY DEF Marked, AsSent
      <4>2. j \in DOMAIN cmds
        BY <1>1
      <4>3. cmds'[j] = IF j > upto /\ ~Undoable(cmds[j]) THEN AsSent(cmds[j]) ELSE cmds[j]
        BY <1>3, <4>1, <4>2
      <4> QED
        BY <4>3
    <3> QED
      BY <1>1, <1>3, <3>1, MarkedIs
  <2>2. Len(cmds) \in Nat /\ \A j \in 1..Len(cmds) : cmds[j] \in Orders
    BY <1>1, ElementIs
  <2>3. ASSUME NEW d \in Orders, d.sent PROVE AsSent(d) = d
    <3>1. d \in Commands
      BY DEF Orders
    <3> QED
      BY <2>3, <3>1 DEF AsSent, Commands
  <2>4. \A j \in Sents(cmds) : j \in 1..Len(cmds) /\ cmds[j].sent /\ cmds'[j] = cmds[j]
    BY <2>1, <2>2, <2>3 DEF Sents
  <2> DEFINE h == [j \in Sents(cmds) |-> j]
  <2>5. \A j \in Sents(cmds) : h[j] = j /\ j \in Sents(cmds')
    BY <2>1, <2>4 DEF Sents
  <2> HIDE DEF h
  <2>6. Finds(h, cmds, cmds')
    BY <2>4, <2>5 DEF Finds
  <2>7. upto <= Len(cmds') /\ \A i \in 1..upto : cmds'[i] = cmds[i]
    BY <1>1, <2>1, <2>2
  <2>8. Retains(upto, cmds, cmds')
    BY <2>6, <2>7 DEF Retains
  <2>9. upto <= upto'
    BY <1>1, <1>3
  <2> QED
    BY <1>1, <2>1, <2>8, <2>9, RetainsStays
<1> QED
  BY <1>2, <1>3 DEF Send

LEMMA StepStays ==
  ASSUME Inv, Inv', [Next]_vars, ~stale'
  PROVE  [SentStays]_vars
<1>1. CASE Recruit \/ Recall \/ MoveUnit \/ Dismiss
  BY <1>1, ActsStay
<1>2. CASE Fight
  BY <1>2, FightStays
<1>3. CASE Rename \/ Speak \/ Receive
  BY <1>3, TalkStays
<1>4. CASE UpdateShroud \/ ToggleShroud
  BY <1>4, ShroudStays
<1>5. CASE Undo
  BY <1>5, UndoStays DEF Undo
<1>6. CASE Redo
  BY <1>6, RedoStays
<1>7. CASE Send
  BY <1>7, SendStays
<1>8. CASE LoseSide \/ Leave
  <2>1. CASE UndoStep
    BY <2>1, UndoStays
  <2>2. CASE UNCHANGED <<cmds, upto>>
    <3>1. cmds \in Seq(Orders)
      BY StandingFacts DEF Inv
    <3>2. <<>> \in Seq(Orders) /\ cmds \o <<>> = cmds
      BY <3>1, NothingMore
    <3> QED
      BY <2>2, <3>2, AddsStays
  <2> QED
    BY <1>8, <2>1, <2>2 DEF LoseSide, Leave
<1> QED
  BY <1>1, <1>2, <1>3, <1>4, <1>5, <1>6, <1>7, <1>8 DEF Next

\* What commit_and_sync would send next brings the other machines to the game here.
THEOREM OthersCatchUp == Spec => []PeerCatchesUp
<1>1. Guarded => PeerCatchesUp
  BY InvCatchesUp DEF Guarded, PeerCatchesUp
<1> QED
  BY <1>1, AlwaysGuarded, PTL

\* The stack of undo_list is the end of what undo_cut would take from the record, until
\* an undo has removed commands by stale numbers.
THEOREM StackMeetsRecord == Spec => [](~stale => StackIsRecord)
<1>1. Guarded => (~stale => StackIsRecord)
  BY InvOnRecord DEF Guarded
<1> QED
  BY <1>1, AlwaysGuarded, PTL

\* undo_list::undo and undo_list::redo find the units of their action and its way free,
\* until an undo has removed commands by stale numbers.
THEOREM UndoFindsItsWay == Spec => [](~stale => UndoPossible)
<1>1. Guarded => (~stale => UndoPossible)
  BY InvUndoes DEF Guarded
<1> QED
  BY <1>1, AlwaysGuarded, PTL

\* What was sent stays on record in its order, whatever undo_cut takes away and
\* sync_non_undoable marks.
THEOREM SentIsKept == Spec => SentKept
<1>1. Init => Guarded
  BY InitKeeps DEF Init, Guarded
<1>2. Guarded /\ [Next]_vars => Guarded'
  BY StepGuards
<1>3. Guarded /\ [Next]_vars => [~stale' => SentStays]_vars
  <2> SUFFICES ASSUME Guarded, [Next]_vars, ~stale', ~UNCHANGED vars
               PROVE  SentStays
    OBVIOUS
  <2>1. Inv /\ Inv'
    BY StepGuards
  <2> QED
    BY <2>1, StepStays
<1> QED
  BY <1>1, <1>2, <1>3, PTL DEF Spec, SentKept, SentStays
=============================================================================
