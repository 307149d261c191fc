------------------------- MODULE SideActions_proofs -------------------------
(***************************************************************************)
(* SideActions, for any units, any number of plans, turns and commands.     *)
(*                                                                          *)
(* First the operations of the container, one after another: what they      *)
(* keep, where they fail, and what they make of the places of the plans.    *)
(* Then the commands: a command is Safe from one list to another when every *)
(* ally at the first gets to the second, unless it is lost.  All that the   *)
(* owner tells is safe, so that what is on its way leads the ally to the    *)
(* list of the owner, wherever the two are (IInv).                          *)
(*                                                                          *)
(* The folds and the recursive functions of the model have no types: a      *)
(* lemma XFollow for each says that there are values that go from the first *)
(* to the last by its steps (XPath).                                        *)
(***************************************************************************)
EXTENDS SideActions, TLAPS, SequenceTheorems, FiniteSetTheorems, WellFoundedInduction

\* A set of numbers that is not empty has a least one.
LEMMA LeastNat ==
  ASSUME NEW T \in SUBSET Nat, T # {}
  PROVE  \E x \in T : \A y \in T : x <= y
<1>1. IsWellFoundedOn(OpToRel(<, Nat), Nat)
  BY NatLessThanWellFounded
<1>2. PICK x \in T : \A y \in T : ~ (<<y, x>> \in OpToRel(<, Nat))
  BY <1>1, WFMin, Zenon
<1>3. \A y \in T : ~(y < x)
  BY <1>2 DEF OpToRel
<1>4. \A y \in T : x <= y
  BY <1>3, SMT
<1> QED
  BY <1>4

\* What holds from lo on, step by step, holds for all that follow.
LEMMA UpFrom ==
  ASSUME NEW lo \in Nat, NEW hi \in Nat, NEW G,
         lo \in G, \A i \in lo..hi : i # lo /\ i - 1 \in G => i \in G
  PROVE  \A i \in lo..hi : i \in G
<1> SUFFICES ASSUME NEW i \in lo..hi, i \notin G PROVE FALSE
  OBVIOUS
<1> DEFINE T == {n \in lo..hi : n \notin G}
<1>1. T \in SUBSET Nat /\ T # {}
  OBVIOUS
<1>2. PICK x \in T : \A y \in T : x <= y
  BY <1>1, LeastNat
<1>3. x # lo /\ x - 1 \in lo..hi /\ x - 1 \in Nat /\ ~(x <= x - 1)
  BY <1>2
<1>4. x - 1 \in G
  BY <1>2, <1>3
<1> QED
  BY <1>2, <1>3, <1>4

\* A set of numbers that is bounded has a greatest one.
LEMMA MaxOfNumbers ==
  ASSUME NEW N \in Nat, NEW s \in SUBSET (1..N), s # {}
  PROVE  Max(s) \in s /\ \A y \in s : y <= Max(s)
<1> DEFINE T == {k \in 0..N : N - k \in s}
<1>0. \A x \in s : x \in 1..N
  OBVIOUS
<1>1. T \in SUBSET Nat /\ T # {}
  <2>1. PICK x \in s : x \in 1..N
    BY <1>0
  <2>2. N - x \in 0..N /\ N - (N - x) = x
    BY <2>1
  <2>3. N - x \in T
    BY <2>1, <2>2
  <2> QED
    BY <2>3
<1>2. PICK z \in T : \A y \in T : z <= y
  BY <1>1, LeastNat
<1>3. N - z \in s /\ z \in 0..N
  BY <1>2
<1>4. ASSUME NEW y \in s PROVE N - z >= y
  <2>1. y \in 1..N
    BY <1>0
  <2>2. N - y \in 0..N /\ N - (N - y) = y
    BY <2>1
  <2>3. N - y \in T
    BY <2>2
  <2>4. z <= N - y
    BY <1>2, <2>3
  <2> QED
    BY <1>3, <2>1, <2>4
<1>5. Max(s) \in s /\ \A y \in s : Max(s) >= y
  BY <1>3, <1>4 DEF Max
<1> QED
  BY <1>5

-----------------------------------------------------------------------------
(* The container. *)

Faults == {"none", "assertion", "dangling", "null"}
Containers == [acts : Seq(Action), begins : Seq(Nat), fault : Faults]

\* A container at work, and what a container of a machine may be.
InOrder(c) == c \in Containers /\ c.fault = "none" /\ TurnsInOrder(c)
Lists == {c \in Containers : c.fault = "none" => TurnsInOrder(c)}

\* Where the turns of a list of N actions begin.
Rising(b, N) ==
  /\ N \in Nat /\ Len(b) \in Nat /\ b \in [1..Len(b) -> 1..N]
  /\ Len(b) = 0 <=> N = 0
  /\ Len(b) # 0 => b[1] = 1
  /\ \A i, j \in 1..Len(b) : /\ i <= j => b[i] <= b[j]
                             /\ i < j /\ j >= 3 => b[i] < b[j]

LEMMA ContainerIs ==
  ASSUME NEW c \in Containers
  PROVE  /\ c = [acts |-> c.acts, begins |-> c.begins, fault |-> c.fault]
         /\ c.acts \in Seq(Action) /\ Len(c.acts) \in Nat /\ c.acts \in [1..Len(c.acts) -> Action]
         /\ c.begins \in Seq(Nat) /\ Len(c.begins) \in Nat /\ c.begins \in [1..Len(c.begins) -> Nat]
         /\ c.fault \in Faults
BY DEF Containers

LEMMA OrderRises ==
  ASSUME NEW c, InOrder(c)
  PROVE  Rising(c.begins, Len(c.acts))
<1> DEFINE b == c.begins
           N == Len(c.acts)
           K == Len(b)
<1>1. /\ N \in Nat /\ K \in Nat /\ b \in [1..K -> Nat] /\ DOMAIN b = 1..K /\ DOMAIN c.acts = 1..N
      /\ (K = 0 <=> b = <<>>) /\ (N = 0 <=> c.acts = <<>>)
  BY ContainerIs DEF InOrder
<1>2. /\ b = <<>> <=> c.acts = <<>>
      /\ b # <<>> => b[1] = 1
      /\ \A i \in 1..K : b[i] \in 1..N
      /\ \A i \in 1..K : i > 1 => b[i - 1] < b[i] \/ (i = 2 /\ b[1] = b[2])
  BY <1>1 DEF InOrder, TurnsInOrder
<1> HIDE DEF b, N, K
<1>3. b \in [1..K -> 1..N]
  BY <1>1, <1>2
<1>4. ASSUME NEW i \in 1..K
      PROVE  \A j \in i..K : b[i] <= b[j] /\ (i < j /\ j >= 3 => b[i] < b[j])
  <2> DEFINE G == {j \in i..K : b[i] <= b[j] /\ (i < j /\ j >= 3 => b[i] < b[j])}
  <2>1. i \in G
    BY <1>1
  <2>2. ASSUME NEW j \in i..K, j # i, j - 1 \in G PROVE j \in G
    <3>1. j \in 1..K /\ j - 1 \in 1..K /\ j > 1 /\ b[j] \in Nat /\ b[j - 1] \in Nat /\ b[i] \in Nat
      BY <1>1, <2>2
    <3>2. b[j - 1] < b[j] \/ (j = 2 /\ b[j - 1] = b[j])
      BY <1>2, <3>1
    <3>3. b[i] <= b[j - 1]
      BY <2>2
    <3> QED
      BY <3>1, <3>2, <3>3
  <2>3. \A j \in i..K : j # i /\ j - 1 \in G => j \in G
    BY <2>2
  <2>4. \A j \in i..K : j \in G
    <3> HIDE DEF G
    <3>1. i \in Nat
      BY <1>1
    <3> QED
      BY <1>1, <2>1, <2>3, <3>1, UpFrom
  <2> QED
    BY <2>4
<1>5. \A i, j \in 1..K : i <= j => b[i] <= b[j] /\ (i < j /\ j >= 3 => b[i] < b[j])
  BY <1>1, <1>4
<1>6. Rising(b, N)
  <2>1. K = 0 <=> N = 0
    BY <1>1, <1>2
  <2>2. K # 0 => b[1] = 1
    BY <1>1, <1>2
  <2> QED
    BY <1>1, <1>3, <1>5, <2>1, <2>2 DEF Rising, K
<1> QED
  BY <1>6 DEF b, N

\* The turn that is meant: of turns that begin at one action, the last.
TurnIs(b, p, t) ==
  /\ t \in 0..(Len(b) - 1) /\ b[t + 1] <= p
  /\ t + 1 < Len(b) => p < b[t + 2]

\* Of numbers up to N there is a largest.
LEMMA MaxOfNaturals ==
  ASSUME NEW N \in Nat, NEW S \in SUBSET (0..N), S # {}
  PROVE  Max(S) \in S /\ \A y \in S : y <= Max(S)
<1> DEFINE T == {k \in 0..N : N - k \in S}
<1>0. \A x \in S : x \in 0..N
  OBVIOUS
<1>1. T \in SUBSET Nat /\ T # {}
  <2>1. PICK x \in S : x \in 0..N
    BY <1>0
  <2>2. N - x \in 0..N /\ N - (N - x) = x
    BY <2>1
  <2>3. N - x \in T
    BY <2>1, <2>2
  <2>4. T \in SUBSET Nat
    OBVIOUS
  <2> QED
    BY <2>3, <2>4
<1>2. PICK z \in T : \A y \in T : z <= y
  BY <1>1, LeastNat
<1>3. N - z \in S /\ z \in 0..N
  BY <1>2
<1>4. ASSUME NEW y \in S PROVE N - z >= y
  <2>1. y \in 0..N
    BY <1>0
  <2>2. N - y \in 0..N /\ N - (N - y) = y
    BY <2>1
  <2>3. N - y \in T
    BY <2>2
  <2>4. z <= N - y
    BY <1>2, <2>3
  <2> QED
    BY <1>3, <2>1, <2>4
<1>5. Max(S) \in S /\ \A y \in S : Max(S) >= y
  BY <1>3, <1>4 DEF Max
<1> QED
  BY <1>5

LEMMA GetTurnIs ==
  ASSUME NEW c, InOrder(c), NEW p \in Nat, p >= 1, Len(c.acts) # 0
  PROVE  TurnIs(c.begins, p, GetTurn(c, p))
<1> DEFINE b == c.begins
           K == Len(b)
           D == (0..K) \X (0..K)
           Last_(lo, hi) == Max({t \in lo..(hi - 1) : t = lo \/ b[t + 1] <= p})
           Def(impl) == [r \in (0..NumTurns(c)) \X (0..NumTurns(c)) |->
               LET mid == (r[1] + r[2]) \div 2
               IN  IF r[1] + 1 >= r[2]            THEN r[1]
                   ELSE IF p < c.begins[mid + 1]  THEN impl[<<r[1], mid>>]
                   ELSE IF p > c.begins[mid + 1]  THEN impl[<<mid, r[2]>>]
                   ELSE mid]
           C == CHOOSE impl : impl = Def(impl)
<1>1. GetTurn(c, p) = C[<<0, K>>]
  BY DEF GetTurn, NumTurns
<1>2. Rising(b, Len(c.acts)) /\ K \in Nat /\ K # 0
  <2>1. Rising(b, Len(c.acts))
    BY OrderRises
  <2> QED
    BY <2>1 DEF Rising
<1>3. /\ b \in [1..K -> Nat] /\ b[1] = 1
      /\ \A i, j \in 1..K : (i <= j => b[i] <= b[j]) /\ (i < j /\ j >= 3 => b[i] < b[j])
  BY <1>2 DEF Rising
<1> DEFINE sol == [d \in D |-> IF d[1] + 1 >= d[2] THEN d[1] ELSE Last_(d[1], d[2])]
<1>4. ASSUME NEW lo \in 0..K, NEW hi \in 0..K, lo < hi
      PROVE  /\ Last_(lo, hi) \in lo..(hi - 1) /\ (Last_(lo, hi) = lo \/ b[Last_(lo, hi) + 1] <= p)
             /\ \A t \in lo..(hi - 1) : t = lo \/ b[t + 1] <= p => t <= Last_(lo, hi)
  <2> DEFINE S == {t \in lo..(hi - 1) : t = lo \/ b[t + 1] <= p}
  <2>1. lo \in S
    BY <1>2, <1>4
  <2>2. S \in SUBSET (0..K)
    BY <1>2, <1>4
  <2>3. Max(S) \in S /\ \A y \in S : y <= Max(S)
    <3> HIDE DEF S
    <3> QED
      BY <1>2, <2>1, <2>2, MaxOfNaturals
  <2> QED
    BY <2>3
<1>5. ASSUME NEW lo \in 0..K, NEW hi \in 0..K, lo < hi, NEW t \in lo..(hi - 1), t = lo \/ b[t + 1] <= p,
             \A u \in t+1..hi-1 : b[u + 1] > p
      PROVE  Last_(lo, hi) = t
  <2> DEFINE m == Last_(lo, hi)
  <2>1. m \in lo..(hi - 1) /\ (m = lo \/ b[m + 1] <= p) /\ t <= m
    BY <1>4, <1>5
  <2> HIDE DEF m
  <2>2. ASSUME m # t PROVE FALSE
    <3>1. m \in t+1..hi-1 /\ m # lo
      BY <1>2, <2>1, <2>2
    <3>2. b[m + 1] > p /\ b[m + 1] <= p /\ m + 1 \in 1..K
      BY <1>2, <1>5, <2>1, <3>1
    <3>3. b[m + 1] \in Nat
      BY <1>3, <3>2
    <3> QED
      BY <3>2, <3>3
  <2> QED
    BY <2>2 DEF m
<1> HIDE DEF Last_, b, K
<1>6. ASSUME NEW lo \in 0..K, NEW hi \in 0..K, NEW mid, mid = (lo + hi) \div 2
      PROVE  sol[<<lo, hi>>] = IF lo + 1 >= hi THEN lo
                               ELSE IF p < b[mid + 1] THEN sol[<<lo, mid>>]
                               ELSE IF p > b[mid + 1] THEN sol[<<mid, hi>>] ELSE mid
  <2>0. \A x \in 0..K, y \in 0..K : sol[<<x, y>>] = IF x + 1 >= y THEN x ELSE Last_(x, y)
    OBVIOUS
  <2>1. CASE lo + 1 >= hi
    BY <2>0, <2>1
  <2>2. CASE ~(lo + 1 >= hi)
    <3>1. mid \in lo+1..hi-1 /\ mid \in 0..K /\ lo < hi /\ mid + 1 \in 1..K /\ mid \in Nat
      BY <1>2, <1>6, <2>2
    <3>2. sol[<<lo, hi>>] = Last_(lo, hi)
      BY <2>0, <2>2
    <3>3. \A u \in mid+1..hi-1 : b[u + 1] \in Nat /\ b[mid + 1] < b[u + 1]
      <4> SUFFICES ASSUME NEW u \in mid+1..hi-1 PROVE b[u + 1] \in Nat /\ b[mid + 1] < b[u + 1]
        OBVIOUS
      <4>1. u + 1 \in 1..K /\ mid + 1 < u + 1 /\ u + 1 >= 3
        BY <1>2, <3>1
      <4> DEFINE i == mid + 1
                 j == u + 1
      <4>2. i \in 1..K /\ j \in 1..K /\ i < j /\ j >= 3
        BY <3>1, <4>1
      <4> HIDE DEF i, j
      <4>3. b[i] < b[j] /\ b[j] \in Nat
        BY <1>3, <4>2
      <4> QED
        BY <4>3 DEF i, j
    <3>4. b[mid + 1] \in Nat
      BY <1>3, <3>1
    <3>a. CASE p < b[mid + 1]
      <4>1. sol[<<lo, mid>>] = IF lo + 1 >= mid THEN lo ELSE Last_(lo, mid)
        BY <2>0, <3>1
      <4> DEFINE m == Last_(lo, mid)
      <4>2. m \in lo..(mid - 1) /\ (m = lo \/ b[m + 1] <= p)
            /\ \A t \in lo..(mid - 1) : t = lo \/ b[t + 1] <= p => t <= m
        BY <1>4, <3>1
      <4> HIDE DEF m
      <4>3. \A u \in m+1..hi-1 : b[u + 1] > p
        <5> SUFFICES ASSUME NEW u \in m+1..hi-1 PROVE b[u + 1] > p
          OBVIOUS
        <5>1. u + 1 \in 1..K /\ u # lo
          BY <1>2, <3>1, <4>2
        <5>2. b[u + 1] \in Nat
          BY <1>3, <5>1
        <5>3. CASE u < mid
          <6>1. u \in lo..(mid - 1) /\ ~(u <= m)
            BY <1>2, <3>1, <4>2, <5>3
          <6> QED
            BY <4>2, <5>2, <6>1
        <5>4. CASE u >= mid
          <6>0. mid + 1 <= u + 1
            BY <3>1, <5>4
          <6> DEFINE i == mid + 1
                     j == u + 1
          <6>a. i \in 1..K /\ j \in 1..K /\ i <= j
            BY <3>1, <5>1, <6>0
          <6> HIDE DEF i, j
          <6>b. b[i] <= b[j]
            BY <1>3, <6>a
          <6>1. b[mid + 1] <= b[u + 1]
            BY <6>b DEF i, j
          <6> QED
            BY <3>a, <3>4, <5>2, <6>1
        <5> QED
          BY <3>1, <4>2, <5>3, <5>4
      <4>4. m \in lo..(hi - 1)
        BY <1>2, <3>1, <4>2
      <4>5. Last_(lo, hi) = m
        BY <1>5, <3>1, <4>2, <4>3, <4>4
      <4>6. lo + 1 >= mid => m = lo
        BY <3>1, <4>2
      <4> QED
        BY <2>2, <3>a, <3>2, <4>1, <4>5, <4>6 DEF m
    <3>b. CASE p > b[mid + 1]
      <4>1. sol[<<mid, hi>>] = IF mid + 1 >= hi THEN mid ELSE Last_(mid, hi)
        BY <2>0, <3>1
      <4> DEFINE m == Last_(mid, hi)
      <4>2. m \in mid..(hi - 1) /\ (m = mid \/ b[m + 1] <= p)
            /\ \A t \in mid..(hi - 1) : t = mid \/ b[t + 1] <= p => t <= m
        BY <1>4, <3>1
      <4> HIDE DEF m
      <4>3. \A u \in m+1..hi-1 : b[u + 1] > p
        <5> SUFFICES ASSUME NEW u \in m+1..hi-1 PROVE b[u + 1] > p
          OBVIOUS
        <5>1. u + 1 \in 1..K /\ u \in mid..(hi - 1) /\ ~(u <= m)
          BY <1>2, <3>1, <4>2
        <5>2. b[u + 1] \in Nat
          BY <1>3, <5>1
        <5> QED
          BY <4>2, <5>1, <5>2
      <4>4. m \in lo..(hi - 1) /\ b[m + 1] <= p
        BY <1>2, <3>b, <3>1, <3>4, <4>2
      <4>5. Last_(lo, hi) = m
        BY <1>5, <3>1, <4>3, <4>4
      <4>6. mid + 1 >= hi => m = mid
        BY <3>1, <4>2
      <4> QED
        BY <2>2, <3>b, <3>2, <3>4, <4>1, <4>5, <4>6 DEF m
    <3>c. CASE p = b[mid + 1]
      <4>1. mid \in lo..(hi - 1) /\ b[mid + 1] <= p
        BY <1>2, <3>c, <3>1, <3>4
      <4>2. \A u \in mid+1..hi-1 : b[u + 1] > p
        BY <3>c, <3>3, <3>4
      <4>3. Last_(lo, hi) = mid
        BY <1>5, <3>1, <4>1, <4>2
      <4> QED
        BY <2>2, <3>c, <3>2, <3>4, <4>3
    <3> QED
      BY <3>a, <3>b, <3>c, <3>4
  <2> QED
    BY <2>1, <2>2
<1>7. sol = Def(sol)
  <2>1. ASSUME NEW r \in D
        PROVE  sol[r] = LET mid == (r[1] + r[2]) \div 2
                        IN  IF r[1] + 1 >= r[2]    THEN r[1]
                            ELSE IF p < b[mid + 1]  THEN sol[<<r[1], mid>>]
                            ELSE IF p > b[mid + 1]  THEN sol[<<mid, r[2]>>]
                            ELSE mid
    <3>1. r = <<r[1], r[2]>> /\ r[1] \in 0..K /\ r[2] \in 0..K
      OBVIOUS
    <3> HIDE DEF sol
    <3> QED
      BY <1>6, <3>1
  <2>2. sol = [r \in D |-> sol[r]]
    OBVIOUS
  <2>3. NumTurns(c) = K
    BY DEF NumTurns, K, b
  <2> HIDE DEF sol
  <2> QED
    BY <2>1, <2>2, <2>3 DEF b
<1>8. C = Def(C)
  <2> HIDE DEF Def, sol
  <2> QED
    BY <1>7
<1> HIDE DEF C
<1>9. \A lo, hi \in 0..K :
         C[<<lo, hi>>] = LET mid == (lo + hi) \div 2
                        IN  IF lo + 1 >= hi    THEN lo
                            ELSE IF p < b[mid + 1]  THEN C[<<lo, mid>>]
                            ELSE IF p > b[mid + 1]  THEN C[<<mid, hi>>]
                            ELSE mid
  BY <1>8 DEF NumTurns, K, b
\* Both have the same values, the shorter the range the sooner.
<1> DEFINE G == {n \in 0..K : \A lo, hi \in 0..K : hi - lo <= n => C[<<lo, hi>>] = sol[<<lo, hi>>]}
<1>10. 0 \in G
  <2> HIDE DEF sol
  <2>1. ASSUME NEW lo \in 0..K, NEW hi \in 0..K, hi - lo <= 0 PROVE C[<<lo, hi>>] = sol[<<lo, hi>>]
    <3>0. lo + 1 >= hi
      BY <1>2, <2>1
    <3>1. C[<<lo, hi>>] = lo
      BY <1>9, <3>0
    <3>2. sol[<<lo, hi>>] = lo
      BY <1>6, <3>0
    <3> QED
      BY <3>1, <3>2
  <2>2. \A lo, hi \in 0..K : hi - lo <= 0 => C[<<lo, hi>>] = sol[<<lo, hi>>]
    BY <2>1
  <2>3. 0 \in 0..K
    BY <1>2
  <2> HIDE DEF K
  <2> QED
    BY <2>2, <2>3, Zenon
<1>11. ASSUME NEW n \in 0..K, n # 0, n - 1 \in G PROVE n \in G
  <2>1. ASSUME NEW lo \in 0..K, NEW hi \in 0..K, hi - lo <= n PROVE C[<<lo, hi>>] = sol[<<lo, hi>>]
    <3> DEFINE mid == (lo + hi) \div 2
    <3>1. CASE lo + 1 >= hi
      <4>1. C[<<lo, hi>>] = lo
        BY <1>2, <1>9, <3>1
      <4>2. sol[<<lo, hi>>] = lo
        BY <1>2, <1>6, <3>1
      <4> QED
        BY <4>1, <4>2
    <3>2. CASE ~(lo + 1 >= hi)
      <4>1. mid \in lo+1..hi-1 /\ mid \in 0..K /\ mid - lo <= n - 1 /\ hi - mid <= n - 1
        BY <1>2, <2>1, <3>2
      <4> HIDE DEF sol
      <4>2. C[<<lo, mid>>] = sol[<<lo, mid>>] /\ C[<<mid, hi>>] = sol[<<mid, hi>>]
        BY <1>11, <4>1
      <4>3. C[<<lo, hi>>] = IF lo + 1 >= hi THEN lo
                            ELSE IF p < b[mid + 1]  THEN C[<<lo, mid>>]
                            ELSE IF p > b[mid + 1]  THEN C[<<mid, hi>>]
                            ELSE mid
        BY <1>9
      <4>4. sol[<<lo, hi>>] = IF lo + 1 >= hi THEN lo
                            ELSE IF p < b[mid + 1]  THEN sol[<<lo, mid>>]
                            ELSE IF p > b[mid + 1]  THEN sol[<<mid, hi>>]
                            ELSE mid
        BY <1>6
      <4> QED
        BY <4>2, <4>3, <4>4
    <3> QED
      BY <3>1, <3>2
  <2> HIDE DEF sol
  <2> QED
    BY <2>1
<1>12. K \in G
  <2> HIDE DEF G
  <2>1. \A i \in 0..K : i # 0 /\ i - 1 \in G => i \in G
    BY <1>11
  <2>2. \A i \in 0..K : i \in G
    BY <1>2, <1>10, <2>1, UpFrom
  <2> QED
    BY <1>2, <2>2
<1>13. GetTurn(c, p) = sol[<<0, K>>]
  <2>1. 0 \in 0..K /\ K \in 0..K /\ K - 0 <= K
    BY <1>2
  <2> HIDE DEF sol
  <2> QED
    BY <1>1, <1>12, <2>1
<1>14. CASE K = 1
  <2>1. GetTurn(c, p) = 0
    BY <1>13, <1>14
  <2> QED
    BY <1>3, <1>14, <2>1 DEF TurnIs, K, b
<1>15. CASE K # 1
  <2>1. GetTurn(c, p) = Last_(0, K)
    BY <1>2, <1>13, <1>15
  <2> HIDE DEF sol
  <2> DEFINE m == Last_(0, K)
  <2>2. m \in 0..(K - 1) /\ (m = 0 \/ b[m + 1] <= p) /\ \A t \in 0..(K - 1) : t = 0 \/ b[t + 1] <= p => t <= m
    BY <1>2, <1>4
  <2> HIDE DEF m
  <2>3. b[m + 1] <= p
    BY <1>3, <2>2
  <2>4. ASSUME m + 1 < K PROVE p < b[m + 2]
    <3>1. m + 1 \in 0..(K - 1) /\ ~(m + 1 <= m) /\ m + 2 \in 1..K /\ (m + 1) + 1 = m + 2
      BY <1>2, <2>2, <2>4
    <3>2. ~(b[m + 2] <= p)
      BY <2>2, <3>1
    <3>3. b[m + 2] \in Nat
      BY <1>3, <3>1
    <3> QED
      BY <3>2, <3>3
  <2>5. GetTurn(c, p) = m
    BY <2>1 DEF m
  <2> QED
    BY <2>2, <2>3, <2>4, <2>5 DEF TurnIs, K, b
<1> QED
  BY <1>14, <1>15

-----------------------------------------------------------------------------
(* Sequences. *)

LEMMA SubSeqIs ==
  ASSUME NEW S, NEW s \in Seq(S), NEW m \in 1..Len(s)+1, NEW n \in 0..Len(s)
  PROVE  /\ SubSeq(s, m, n) \in Seq(S)
         /\ Len(SubSeq(s, m, n)) = IF m <= n THEN n - m + 1 ELSE 0
         /\ \A i \in 1..n-m+1 : SubSeq(s, m, n)[i] = s[m + i - 1]
<1>1. \A i \in m..n : s[i] \in S
  OBVIOUS
<1>2. m \in Int /\ n \in Int
  OBVIOUS
<1> QED
  BY <1>1, <1>2, SubSeqProperties

LEMMA BeginIs ==
  ASSUME NEW S, NEW s \in Seq(S), NEW n \in 0..Len(s)
  PROVE  /\ SubSeq(s, 1, n) \in Seq(S) /\ Len(SubSeq(s, 1, n)) = n
         /\ \A i \in 1..n : SubSeq(s, 1, n)[i] = s[i]
<1> DEFINE t == SubSeq(s, 1, n)
<1>1. 1 \in 1..Len(s)+1 /\ n \in Nat
  OBVIOUS
<1>2. /\ t \in Seq(S)
      /\ Len(t) = IF 1 <= n THEN n - 1 + 1 ELSE 0
      /\ \A i \in 1..n-1+1 : t[i] = s[1 + i - 1]
  BY <1>1, SubSeqIs
<1> HIDE DEF t
<1>3. Len(t) = n
  BY <1>1, <1>2
<1>4. ASSUME NEW i \in 1..n PROVE t[i] = s[i]
  <2>1. i \in 1..n-1+1 /\ 1 + i - 1 = i
    BY <1>1
  <2> QED
    BY <1>2, <2>1
<1> QED
  BY <1>2, <1>3, <1>4 DEF t

LEMMA CatIs ==
  ASSUME NEW S, NEW s \in Seq(S), NEW t \in Seq(S)
  PROVE  /\ s \o t \in Seq(S) /\ Len(s \o t) = Len(s) + Len(t)
         /\ \A i \in 1..Len(s) : (s \o t)[i] = s[i]
         /\ \A i \in 1..Len(t) : (s \o t)[Len(s) + i] = t[i]
<1>1. \A i \in 1..Len(s)+Len(t) : (s \o t)[i] = IF i <= Len(s) THEN s[i] ELSE t[i - Len(s)]
  OBVIOUS
<1>2. Len(s) \in Nat /\ Len(t) \in Nat
  OBVIOUS
<1>3. \A i \in 1..Len(s) : (s \o t)[i] = s[i]
  BY <1>1, <1>2
<1>4. ASSUME NEW i \in 1..Len(t) PROVE (s \o t)[Len(s) + i] = t[i]
  <2>1. Len(s) + i \in 1..Len(s)+Len(t) /\ ~(Len(s) + i <= Len(s)) /\ (Len(s) + i) - Len(s) = i
    BY <1>2
  <2> QED
    BY <1>1, <2>1
<1> QED
  BY <1>3, <1>4

LEMMA RemoveAtIs ==
  ASSUME NEW S, NEW s \in Seq(S), NEW n \in 1..Len(s)
  PROVE  /\ RemoveAt(s, n) \in Seq(S) /\ Len(RemoveAt(s, n)) = Len(s) - 1
         /\ \A i \in 1..Len(s)-1 : RemoveAt(s, n)[i] = IF i < n THEN s[i] ELSE s[i + 1]
<1> DEFINE a == SubSeq(s, 1, n - 1)
           b == SubSeq(s, n + 1, Len(s))
<1>0. Len(s) \in Nat /\ 1 \in 1..Len(s)+1 /\ n - 1 \in 0..Len(s) /\ n + 1 \in 1..Len(s)+1
      /\ Len(s) \in 0..Len(s)
  OBVIOUS
<1>1. /\ a \in Seq(S)
      /\ Len(a) = IF 1 <= n - 1 THEN (n - 1) - 1 + 1 ELSE 0
      /\ \A i \in 1..(n - 1)-1+1 : a[i] = s[1 + i - 1]
  BY <1>0, SubSeqIs
<1>2. /\ b \in Seq(S)
      /\ Len(b) = IF n + 1 <= Len(s) THEN Len(s) - (n + 1) + 1 ELSE 0
      /\ \A i \in 1..Len(s)-(n + 1)+1 : b[i] = s[n + 1 + i - 1]
  BY <1>0, SubSeqIs
<1>3. RemoveAt(s, n) = a \o b
  BY DEF RemoveAt
<1> HIDE DEF a, b
<1>4. Len(a) = n - 1 /\ Len(b) = Len(s) - n
  BY <1>0, <1>1, <1>2
<1>5. ASSUME NEW i \in 1..Len(s)-1 PROVE (a \o b)[i] = IF i < n THEN s[i] ELSE s[i + 1]
  <2>1. CASE i < n
    <3>1. i \in 1..Len(a) /\ i \in 1..(n - 1)-1+1 /\ 1 + i - 1 = i
      BY <1>0, <1>4, <2>1
    <3>2. (a \o b)[i] = a[i] /\ a[i] = s[1 + i - 1]
      BY <1>1, <1>2, <3>1, CatIs
    <3> QED
      BY <2>1, <3>1, <3>2
  <2>2. CASE ~(i < n)
    <3> DEFINE k == i - (n - 1)
    <3>1. k \in 1..Len(b) /\ k \in 1..Len(s)-(n + 1)+1 /\ n + 1 + k - 1 = i + 1 /\ Len(a) + k = i
      BY <1>0, <1>4, <2>2
    <3> HIDE DEF k
    <3>2. (a \o b)[Len(a) + k] = b[k] /\ b[k] = s[n + 1 + k - 1]
      BY <1>1, <1>2, <3>1, CatIs
    <3> QED
      BY <2>2, <3>1, <3>2
  <2> QED
    BY <2>1, <2>2
<1>6. a \o b \in Seq(S) /\ Len(a \o b) = Len(s) - 1
  <2>1. a \in Seq(S) /\ b \in Seq(S)
    BY <1>1, <1>2
  <2>2. a \o b \in Seq(S) /\ Len(a \o b) = Len(a) + Len(b)
    BY <2>1, CatIs
  <2> QED
    BY <1>0, <1>4, <2>2
<1> QED
  BY <1>3, <1>5, <1>6

LEMMA SameSequence ==
  ASSUME NEW S, NEW s \in Seq(S), NEW t \in Seq(S), Len(s) = Len(t),
         \A i \in 1..Len(s) : s[i] = t[i]
  PROVE  s = t
  OBVIOUS

LEMMA InsertAtIs ==
  ASSUME NEW S, NEW s \in Seq(S), NEW n \in 1..Len(s)+1, NEW e \in S
  PROVE  /\ InsertAt(s, n, e) \in Seq(S) /\ Len(InsertAt(s, n, e)) = Len(s) + 1
         /\ \A i \in 1..Len(s)+1 :
              InsertAt(s, n, e)[i] = IF i < n THEN s[i] ELSE IF i = n THEN e ELSE s[i - 1]
<1> DEFINE a == SubSeq(s, 1, n - 1)
           b == SubSeq(s, n, Len(s))
           m == a \o <<e>>
<1>0. Len(s) \in Nat /\ n - 1 \in 0..Len(s) /\ n \in Nat /\ Len(s) \in 0..Len(s)
  OBVIOUS
<1>1. a \in Seq(S) /\ Len(a) = n - 1 /\ \A i \in 1..(n - 1) : a[i] = s[i]
  BY <1>0, BeginIs
<1>2. /\ b \in Seq(S)
      /\ Len(b) = IF n <= Len(s) THEN Len(s) - n + 1 ELSE 0
      /\ \A i \in 1..Len(s)-n+1 : b[i] = s[n + i - 1]
  BY <1>0, SubSeqIs
<1>3. InsertAt(s, n, e) = m \o b
  BY DEF InsertAt
<1>4. <<e>> \in Seq(S) /\ Len(<<e>>) = 1 /\ <<e>>[1] = e /\ 1 \in 1..Len(<<e>>)
  OBVIOUS
<1> HIDE DEF a, b
<1>5. /\ m \in Seq(S) /\ Len(m) = Len(a) + Len(<<e>>)
      /\ \A i \in 1..Len(a) : m[i] = a[i]
      /\ \A i \in 1..Len(<<e>>) : m[Len(a) + i] = <<e>>[i]
  BY <1>1, <1>4, CatIs
<1>6. Len(m) = n /\ m[n] = e /\ \A i \in 1..(n - 1) : m[i] = s[i]
  <2>1. Len(m) = n
    BY <1>0, <1>1, <1>4, <1>5
  <2>2. m[Len(a) + 1] = e /\ Len(a) + 1 = n
    BY <1>0, <1>1, <1>4, <1>5
  <2>3. \A i \in 1..(n - 1) : m[i] = s[i]
    BY <1>1, <1>5
  <2> QED
    BY <2>1, <2>2, <2>3
<1>7. Len(b) = Len(s) - n + 1
  BY <1>0, <1>2
<1> HIDE DEF m
<1>8. /\ m \o b \in Seq(S) /\ Len(m \o b) = Len(m) + Len(b)
      /\ \A i \in 1..Len(m) : (m \o b)[i] = m[i]
      /\ \A i \in 1..Len(b) : (m \o b)[Len(m) + i] = b[i]
  <2>1. m \in Seq(S) /\ b \in Seq(S)
    BY <1>2, <1>5
  <2> QED
    BY <2>1, CatIs
<1>9. ASSUME NEW i \in 1..Len(s)+1
      PROVE  (m \o b)[i] = IF i < n THEN s[i] ELSE IF i = n THEN e ELSE s[i - 1]
  <2>1. CASE i < n
    <3>1. i \in 1..(n - 1) /\ i \in 1..Len(m)
      BY <1>0, <1>6, <2>1
    <3> QED
      BY <1>6, <1>8, <2>1, <3>1
  <2>2. CASE i = n
    <3>1. n \in 1..Len(m)
      BY <1>0, <1>6
    <3> QED
      BY <1>0, <1>6, <1>8, <2>2, <3>1
  <2>3. CASE n < i
    <3> DEFINE k == i - n
    <3>1. k \in 1..Len(b) /\ k \in 1..Len(s)-n+1 /\ Len(m) + k = i /\ n + k - 1 = i - 1
      BY <1>0, <1>6, <1>7, <2>3
    <3> HIDE DEF k
    <3>2. (m \o b)[Len(m) + k] = b[k] /\ b[k] = s[n + k - 1]
      BY <1>2, <1>8, <3>1
    <3> QED
      BY <1>0, <2>3, <3>1, <3>2
  <2>4. i < n \/ i = n \/ n < i
    BY <1>0
  <2> QED
    BY <2>1, <2>2, <2>3, <2>4
<1>10. Len(m \o b) = Len(s) + 1
  BY <1>0, <1>6, <1>7, <1>8
<1> QED
  BY <1>3, <1>8, <1>9, <1>10

-----------------------------------------------------------------------------
(* Where the turns begin. *)

LEMMA TurnBegins ==
  ASSUME NEW c, InOrder(c), NEW t \in Nat
  PROVE  /\ Len(c.acts) \in Nat /\ Len(c.begins) \in Nat
         /\ TurnBegin(c, t) \in 1..Len(c.acts)+1
         /\ t < Len(c.begins) => TurnBegin(c, t) = c.begins[t + 1] /\ TurnBegin(c, t) <= Len(c.acts)
         /\ t >= Len(c.begins) => TurnBegin(c, t) = Len(c.acts) + 1
         /\ TurnBegin(c, 0) = 1
         /\ TurnEnd(c, t) = TurnBegin(c, t + 1) /\ TurnEnd(c, t) \in 1..Len(c.acts)+1
         /\ TurnBegin(c, t) <= TurnEnd(c, t)
         /\ t >= 1 /\ t < Len(c.begins) => TurnBegin(c, t) < TurnEnd(c, t)
<1> DEFINE b == c.begins
           N == Len(c.acts)
           K == Len(b)
<1>1. Rising(b, N)
  BY OrderRises
<1>2. /\ N \in Nat /\ K \in Nat /\ b \in [1..K -> 1..N] /\ (K = 0 <=> N = 0) /\ (K # 0 => b[1] = 1)
      /\ \A i, j \in 1..K : (i <= j => b[i] <= b[j]) /\ (i < j /\ j >= 3 => b[i] < b[j])
  BY <1>1 DEF Rising
<1>3. \A u \in Nat : TurnBegin(c, u) = IF u >= K THEN N + 1 ELSE b[u + 1]
  BY DEF TurnBegin, NumTurns, End
<1> HIDE DEF b, N, K
<1>4. \A u \in Nat : u < K => u + 1 \in 1..K /\ b[u + 1] \in 1..N
  BY <1>2
<1>5. \A u \in Nat : TurnBegin(c, u) \in 1..N+1
  BY <1>2, <1>3, <1>4
<1>6. TurnEnd(c, t) = TurnBegin(c, t + 1) /\ t + 1 \in Nat
  BY DEF TurnEnd
<1>7. TurnBegin(c, 0) = 1
  BY <1>2, <1>3
<1>8. ASSUME t < K, t + 1 < K
      PROVE  b[t + 1] <= b[t + 2] /\ (t >= 1 => b[t + 1] < b[t + 2])
  <2> DEFINE i == t + 1
             j == t + 2
  <2>1. i \in 1..K /\ j \in 1..K /\ i <= j /\ i < j /\ (t >= 1 => j >= 3)
    BY <1>2, <1>8
  <2> HIDE DEF i, j
  <2>2. b[i] <= b[j] /\ (t >= 1 => b[i] < b[j])
    BY <1>2, <2>1
  <2> QED
    BY <2>2 DEF i, j
<1>9. TurnBegin(c, t) <= TurnEnd(c, t) /\ (t >= 1 /\ t < K => TurnBegin(c, t) < TurnEnd(c, t))
  <2>1. CASE t >= K
    BY <1>2, <1>3, <1>6, <2>1
  <2>2. CASE t < K /\ t + 1 >= K
    BY <1>2, <1>3, <1>4, <1>6, <2>2
  <2>3. CASE t < K /\ t + 1 < K
    <3>1. TurnBegin(c, t) = b[t + 1] /\ TurnBegin(c, t + 1) = b[t + 2]
      BY <1>2, <1>3, <1>6, <2>3
    <3> QED
      BY <1>6, <1>8, <2>3, <3>1
  <2> QED
    BY <1>2, <2>1, <2>2, <2>3
<1>10. t < K => TurnBegin(c, t) = b[t + 1] /\ TurnBegin(c, t) <= N
  BY <1>2, <1>3, <1>4
<1>11. t >= K => TurnBegin(c, t) = N + 1
  BY <1>3
<1>12. TurnEnd(c, t) \in 1..N+1
  BY <1>5, <1>6
<1> QED
  BY <1>2, <1>5, <1>6, <1>7, <1>9, <1>10, <1>11, <1>12 DEF b, N, K

\* Turns that begin later lie behind.
LEMMA TurnsFollow ==
  ASSUME NEW c, InOrder(c), NEW t \in Nat, NEW u \in Nat, t < u
  PROVE  TurnEnd(c, t) <= TurnBegin(c, u)
<1> DEFINE G == {v \in (t + 1)..u : TurnEnd(c, t) <= TurnBegin(c, v)}
<1>1. t + 1 \in Nat /\ u \in (t + 1)..u
  OBVIOUS
<1>2. t + 1 \in G
  BY <1>1, TurnBegins DEF TurnEnd
<1>3. ASSUME NEW v \in (t + 1)..u, v # t + 1, v - 1 \in G PROVE v \in G
  <2>1. v - 1 \in Nat /\ (v - 1) + 1 = v /\ v \in Nat
    BY <1>3
  <2>2. TurnBegin(c, v - 1) <= TurnBegin(c, v) /\ TurnBegin(c, v - 1) \in 1..Len(c.acts)+1
        /\ TurnBegin(c, v) \in 1..Len(c.acts)+1 /\ TurnEnd(c, t) \in 1..Len(c.acts)+1 /\ Len(c.acts) \in Nat
    BY <2>1, TurnBegins
  <2>3. TurnEnd(c, t) <= TurnBegin(c, v - 1)
    BY <1>3
  <2>4. TurnEnd(c, t) <= TurnBegin(c, v)
    BY <2>2, <2>3
  <2> QED
    BY <2>4
<1>4. \A v \in (t + 1)..u : v \in G
  <2>1. \A v \in (t + 1)..u : v # t + 1 /\ v - 1 \in G => v \in G
    BY <1>3
  <2> HIDE DEF G
  <2> QED
    BY <1>1, <1>2, <2>1, UpFrom
<1> QED
  BY <1>1, <1>4

\* The binary search of get_turn_impl finds the turn in which the action stands, and
\* position_in_turn its place there.
THEOREM TurnOfAction ==
  ASSUME NEW c, InOrder(c), NEW p \in 1..Len(c.acts)
  PROVE  /\ GetTurn(c, p) \in 0..Len(c.begins)-1
         /\ TurnBegin(c, GetTurn(c, p)) <= p /\ p < TurnEnd(c, GetTurn(c, p))
         /\ PositionInTurn(c, p) \in Nat
         /\ TurnBegin(c, GetTurn(c, p)) + PositionInTurn(c, p) = p
<1> DEFINE t == GetTurn(c, p)
<1>0. Len(c.acts) \in Nat /\ Len(c.begins) \in Nat /\ p \in Nat /\ p >= 1 /\ Len(c.acts) # 0
  BY ContainerIs DEF InOrder
<1>1. TurnIs(c.begins, p, t)
  BY <1>0, GetTurnIs
<1> HIDE DEF t
<1>2. t \in 0..Len(c.begins)-1 /\ c.begins[t + 1] <= p
      /\ (t + 1 < Len(c.begins) => p < c.begins[t + 2])
  BY <1>1 DEF TurnIs
<1>3. t \in Nat /\ t + 1 \in Nat /\ t < Len(c.begins) /\ (t + 1) + 1 = t + 2
  BY <1>0, <1>2
<1>4. TurnBegin(c, t) = c.begins[t + 1] /\ TurnBegin(c, t) \in 1..Len(c.acts)+1 /\ TurnEnd(c, t) = TurnBegin(c, t + 1)
  BY <1>3, TurnBegins
<1>5. p < TurnEnd(c, t)
  <2>1. CASE t + 1 < Len(c.begins)
    <3>1. TurnBegin(c, t + 1) = c.begins[(t + 1) + 1]
      BY <1>3, <2>1, TurnBegins
    <3> QED
      BY <1>2, <1>3, <1>4, <2>1, <3>1
  <2>2. CASE t + 1 >= Len(c.begins)
    <3>1. TurnBegin(c, t + 1) = Len(c.acts) + 1
      BY <1>3, <2>2, TurnBegins
    <3> QED
      BY <1>0, <1>4, <3>1
  <2> QED
    BY <1>0, <1>3, <2>1, <2>2
<1>6. PositionInTurn(c, p) = p - TurnBegin(c, t)
  BY DEF PositionInTurn, t
<1>7. PositionInTurn(c, p) \in Nat /\ TurnBegin(c, t) + PositionInTurn(c, p) = p
  BY <1>0, <1>2, <1>4, <1>6
<1> QED
  BY <1>2, <1>4, <1>5, <1>7 DEF t

LEMMA OneTurn ==
  ASSUME NEW c, InOrder(c), NEW p \in 1..Len(c.acts), NEW t \in Nat,
         TurnBegin(c, t) <= p, p < TurnEnd(c, t)
  PROVE  GetTurn(c, p) = t
<1> DEFINE u == GetTurn(c, p)
<1>1. u \in 0..Len(c.begins)-1 /\ TurnBegin(c, u) <= p /\ p < TurnEnd(c, u)
  BY TurnOfAction
<1> HIDE DEF u
<1>2. u \in Nat /\ Len(c.acts) \in Nat /\ TurnBegin(c, u) \in 1..Len(c.acts)+1 /\ TurnEnd(c, u) \in 1..Len(c.acts)+1
      /\ TurnBegin(c, t) \in 1..Len(c.acts)+1 /\ TurnEnd(c, t) \in 1..Len(c.acts)+1
  <2>1. u \in Nat
    BY <1>1
  <2> QED
    BY <2>1, TurnBegins
<1>3. ~(u < t)
  <2> SUFFICES ASSUME u < t PROVE FALSE
    OBVIOUS
  <2>1. TurnEnd(c, u) <= TurnBegin(c, t)
    BY <1>2, TurnsFollow
  <2> QED
    BY <1>1, <1>2, <2>1
<1>4. ~(t < u)
  <2> SUFFICES ASSUME t < u PROVE FALSE
    OBVIOUS
  <2>1. TurnEnd(c, t) <= TurnBegin(c, u)
    BY <1>2, TurnsFollow
  <2> QED
    BY <1>1, <1>2, <2>1
<1>5. u = t
  BY <1>2, <1>3, <1>4
<1> QED
  BY <1>5 DEF u

-----------------------------------------------------------------------------
(* What is put in. *)

\* c with a at p, in turn t; the later turns begin one further on.
Grown(c, t, p, a) ==
  [acts   |-> InsertAt(c.acts, p, a),
   begins |-> [i \in 1..Len(c.begins) |-> IF i <= t + 1 THEN c.begins[i] ELSE c.begins[i] + 1],
   fault  |-> "none"]

\* c with a at the end, in a turn of its own.
Opened(c, t, a) ==
  [acts   |-> InsertAt(c.acts, Len(c.acts) + 1, a),
   begins |-> IF t = 1 /\ Len(c.begins) = 0 THEN <<1, 1>> ELSE Append(c.begins, Len(c.acts) + 1),
   fault  |-> "none"]

\* How the turns of a container are seen to be in order.
LEMMA InOrderIs ==
  ASSUME NEW s \in Seq(Action), NEW b \in Seq(Nat), Rising(b, Len(s))
  PROVE  InOrder([acts |-> s, begins |-> b, fault |-> "none"])
<1> DEFINE c == [acts |-> s, begins |-> b, fault |-> "none"]
           N == Len(s)
           K == Len(b)
<1>1. c \in Containers /\ c.fault = "none" /\ c.acts = s /\ c.begins = b
  BY DEF Containers, Faults
<1>2. /\ N \in Nat /\ K \in Nat /\ b \in [1..K -> 1..N] /\ (K = 0 <=> N = 0) /\ (K # 0 => b[1] = 1)
      /\ \A i, j \in 1..K : (i <= j => b[i] <= b[j]) /\ (i < j /\ j >= 3 => b[i] < b[j])
  BY DEF Rising
<1>3. DOMAIN b = 1..K /\ DOMAIN s = 1..N /\ (b = <<>> <=> K = 0) /\ (s = <<>> <=> N = 0)
  OBVIOUS
<1> HIDE DEF c, N, K
<1>4. ASSUME NEW i \in 1..K, i > 1 PROVE b[i - 1] < b[i] \/ (i = 2 /\ b[1] = b[2])
  <2> DEFINE h == i - 1
  <2>1. h \in 1..K /\ h <= i /\ h < i /\ (i # 2 => i >= 3) /\ 1 \in 1..K
    BY <1>2, <1>4
  <2> HIDE DEF h
  <2>2. b[h] <= b[i] /\ (i >= 3 => b[h] < b[i]) /\ b[h] \in 1..N /\ b[i] \in 1..N
    BY <1>2, <2>1
  <2>3. CASE i = 2
    <3>1. b[1] <= b[2] /\ b[1] \in 1..N /\ b[2] \in 1..N
      BY <2>2, <2>3 DEF h
    <3> QED
      BY <1>2, <2>3, <3>1
  <2>4. CASE i # 2
    BY <2>1, <2>2, <2>4 DEF h
  <2> QED
    BY <2>3, <2>4
<1>5. TurnsInOrder(c)
  BY <1>1, <1>2, <1>3, <1>4 DEF TurnsInOrder
<1>6. InOrder(c)
  BY <1>1, <1>5 DEF InOrder
<1> QED
  BY <1>6 DEF c

LEMMA GrownIs ==
  ASSUME NEW c, InOrder(c), NEW t \in Nat, t < Len(c.begins), NEW a \in Action,
         NEW p \in 1..Len(c.acts)+1
  PROVE  InOrder(Grown(c, t, p, a))
<1> DEFINE b == c.begins
           N == Len(c.acts)
           K == Len(b)
           s == InsertAt(c.acts, p, a)
           e == [i \in 1..K |-> IF i <= t + 1 THEN b[i] ELSE b[i] + 1]
<1>1. Rising(b, N)
  BY OrderRises
<1>2. /\ N \in Nat /\ K \in Nat /\ b \in [1..K -> 1..N] /\ (K = 0 <=> N = 0) /\ (K # 0 => b[1] = 1)
      /\ \A i, j \in 1..K : (i <= j => b[i] <= b[j]) /\ (i < j /\ j >= 3 => b[i] < b[j])
  BY <1>1 DEF Rising
<1>3. c.acts \in Seq(Action)
  BY ContainerIs DEF InOrder
<1>4. s \in Seq(Action) /\ Len(s) = N + 1
  BY <1>3, InsertAtIs
<1> HIDE DEF b, N, K, s
<1>5. e \in Seq(Nat) /\ Len(e) = K /\ \A i \in 1..K : e[i] = IF i <= t + 1 THEN b[i] ELSE b[i] + 1
  BY <1>2
<1> HIDE DEF e
<1>6. e \in [1..K -> 1..(N + 1)]
  <2>1. \A i \in 1..K : e[i] \in 1..(N + 1)
    <3> SUFFICES ASSUME NEW i \in 1..K PROVE e[i] \in 1..(N + 1)
      OBVIOUS
    <3>1. b[i] \in 1..N
      BY <1>2
    <3>2. e[i] = b[i] \/ e[i] = b[i] + 1
      BY <1>5
    <3> QED
      BY <1>2, <3>1, <3>2
  <2>2. DOMAIN e = 1..K /\ e = [i \in 1..K |-> e[i]]
    BY <1>5
  <2> QED
    BY <2>1, <2>2
<1>7. ASSUME NEW i \in 1..K, NEW j \in 1..K
      PROVE  (i <= j => e[i] <= e[j]) /\ (i < j /\ j >= 3 => e[i] < e[j])
  <2>1. b[i] \in Nat /\ b[j] \in Nat /\ (i <= j => b[i] <= b[j]) /\ (i < j /\ j >= 3 => b[i] < b[j])
    BY <1>2
  <2>2. e[i] = (IF i <= t + 1 THEN b[i] ELSE b[i] + 1) /\ e[j] = (IF j <= t + 1 THEN b[j] ELSE b[j] + 1)
    BY <1>5
  <2> QED
    BY <1>2, <2>1, <2>2
<1>8. e[1] = 1 /\ K # 0 /\ N # 0
  <2>1. K # 0 /\ 1 \in 1..K /\ 1 <= t + 1
    BY <1>2 DEF K, b
  <2> QED
    BY <1>2, <1>5, <2>1
<1>9. Rising(e, Len(s))
  BY <1>2, <1>4, <1>5, <1>6, <1>7, <1>8 DEF Rising
<1>10. InOrder([acts |-> s, begins |-> e, fault |-> "none"])
  BY <1>4, <1>5, <1>9, InOrderIs
<1> QED
  BY <1>10 DEF Grown, s, e, b, K

LEMMA OpenedIs ==
  ASSUME NEW c, InOrder(c), NEW t \in Nat, NEW a \in Action
  PROVE  InOrder(Opened(c, t, a))
<1> DEFINE b == c.begins
           N == Len(c.acts)
           K == Len(b)
           s == InsertAt(c.acts, N + 1, a)
           e == Opened(c, t, a).begins
<1>1. Rising(b, N)
  BY OrderRises
<1>2. /\ N \in Nat /\ K \in Nat /\ b \in [1..K -> 1..N] /\ (K = 0 <=> N = 0) /\ (K # 0 => b[1] = 1)
      /\ \A i, j \in 1..K : (i <= j => b[i] <= b[j]) /\ (i < j /\ j >= 3 => b[i] < b[j])
  BY <1>1 DEF Rising
<1>3. c.acts \in Seq(Action) /\ b \in Seq(Nat)
  BY ContainerIs DEF InOrder
<1>4. s \in Seq(Action) /\ Len(s) = N + 1
  <2>1. N + 1 \in 1..Len(c.acts)+1
    BY <1>2
  <2> DEFINE n == N + 1
  <2>2. n \in 1..Len(c.acts)+1
    BY <2>1
  <2> HIDE DEF n
  <2>3. InsertAt(c.acts, n, a) \in Seq(Action) /\ Len(InsertAt(c.acts, n, a)) = Len(c.acts) + 1
    BY <1>3, <2>2, InsertAtIs
  <2> QED
    BY <2>3 DEF n
<1>5. Opened(c, t, a) = [acts |-> s, begins |-> e, fault |-> "none"]
      /\ e = IF t = 1 /\ K = 0 THEN <<1, 1>> ELSE Append(b, N + 1)
  BY DEF Opened
<1> HIDE DEF b, N, K, s, e
<1>6. CASE t = 1 /\ K = 0
  <2>1. e = <<1, 1>> /\ e \in Seq(Nat) /\ Len(e) = 2 /\ N = 0 /\ Len(s) = 1
    BY <1>2, <1>4, <1>5, <1>6
  <2>2. Rising(e, Len(s))
    BY <2>1 DEF Rising
  <2> QED
    BY <1>4, <1>5, <2>1, <2>2, InOrderIs
<1>7. CASE ~(t = 1 /\ K = 0)
  <2>1. /\ e \in Seq(Nat) /\ Len(e) = K + 1 /\ e[K + 1] = N + 1 /\ \A i \in 1..K : e[i] = b[i]
    BY <1>2, <1>3, <1>5, <1>7
  <2>2. ASSUME NEW i \in 1..(K + 1) PROVE (i \in 1..K /\ e[i] = b[i] /\ e[i] \in 1..N) \/ (i = K + 1 /\ e[i] = N + 1)
    BY <1>2, <2>1
  <2>3. e \in [1..(K + 1) -> 1..(N + 1)]
    <3>1. \A i \in 1..(K + 1) : e[i] \in 1..(N + 1)
      BY <1>2, <2>2
    <3>2. e = [i \in 1..(K + 1) |-> e[i]]
      BY <1>2, <2>1
    <3> QED
      BY <3>1, <3>2
  <2>4. ASSUME NEW i \in 1..(K + 1), NEW j \in 1..(K + 1)
        PROVE  (i <= j => e[i] <= e[j]) /\ (i < j /\ j >= 3 => e[i] < e[j])
    <3>1. CASE i \in 1..K /\ j \in 1..K
      BY <1>2, <2>1, <3>1
    <3>2. CASE i = K + 1
      BY <1>2, <2>2, <3>2
    <3>3. CASE i \in 1..K /\ j = K + 1
      BY <1>2, <2>2, <3>3
    <3> QED
      BY <1>2, <3>1, <3>2, <3>3
  <2>5. e[1] = 1
    BY <1>2, <2>1
  <2>6. Rising(e, Len(s))
    BY <1>2, <1>4, <2>1, <2>3, <2>4, <2>5 DEF Rising
  <2> QED
    BY <1>4, <1>5, <2>1, <2>6, InOrderIs
<1> QED
  BY <1>6, <1>7

LEMMA SetActs ==
  ASSUME NEW c \in Containers, NEW x
  PROVE  [c EXCEPT !.acts = x] = [acts |-> x, begins |-> c.begins, fault |-> c.fault]
BY ContainerIs

LEMMA SetBegins ==
  ASSUME NEW c \in Containers, NEW x
  PROVE  [c EXCEPT !.begins = x] = [acts |-> c.acts, begins |-> x, fault |-> c.fault]
BY ContainerIs

LEMMA SetFault ==
  ASSUME NEW c \in Containers, NEW x
  PROVE  [c EXCEPT !.fault = x] = [acts |-> c.acts, begins |-> c.begins, fault |-> x]
BY ContainerIs

\* actions_.insert.
LEMMA PlacedIs ==
  ASSUME NEW c, InOrder(c), NEW p, NEW a
  PROVE  Placed(c, p, a) =
           [acts   |-> InsertAt(c.acts, p, a),
            begins |-> [i \in 1..Len(c.begins) |-> IF c.begins[i] >= p THEN c.begins[i] + 1 ELSE c.begins[i]],
            fault  |-> "none"]
<1>1. /\ c = [acts |-> c.acts, begins |-> c.begins, fault |-> "none"]
      /\ DOMAIN c.begins = 1..Len(c.begins)
  BY ContainerIs DEF InOrder
<1> QED
  BY <1>1 DEF Placed

\* Behind the first action of a turn, or at its end, what is put in is in that turn.
LEMMA PlacedInTurn ==
  ASSUME NEW c, InOrder(c), NEW t \in Nat, t < Len(c.begins), NEW a \in Action,
         NEW p \in Nat, TurnBegin(c, t) < p, p <= TurnEnd(c, t)
  PROVE  Placed(c, p, a) = Grown(c, t, p, a) /\ p \in 2..Len(c.acts)+1
<1> DEFINE b == c.begins
           N == Len(c.acts)
           K == Len(b)
<1>1. Rising(b, N)
  BY OrderRises
<1>2. /\ N \in Nat /\ K \in Nat /\ b \in [1..K -> 1..N]
      /\ \A i, j \in 1..K : (i <= j => b[i] <= b[j]) /\ (i < j /\ j >= 3 => b[i] < b[j])
  BY <1>1 DEF Rising
<1>3. TurnBegin(c, t) = b[t + 1] /\ TurnEnd(c, t) \in 1..N+1 /\ TurnBegin(c, t) \in 1..N+1
      /\ TurnEnd(c, t) = TurnBegin(c, t + 1)
  BY TurnBegins
<1>4. t + 1 < K => TurnEnd(c, t) = b[t + 2]
  <2>1. t + 1 \in Nat /\ (t + 1) + 1 = t + 2
    OBVIOUS
  <2> QED
    BY <1>3, <2>1, TurnBegins
<1>0. t < K
  OBVIOUS
<1> HIDE DEF b, N, K
<1>5. ASSUME NEW i \in 1..K
      PROVE  (IF b[i] >= p THEN b[i] + 1 ELSE b[i]) = IF i <= t + 1 THEN b[i] ELSE b[i] + 1
  <2>1. CASE i <= t + 1
    <3> DEFINE j == t + 1
    <3>1. j \in 1..K /\ i <= j
      BY <1>0, <1>2, <2>1
    <3> HIDE DEF j
    <3>2. b[i] <= b[j] /\ b[i] \in Nat /\ b[j] \in Nat
      BY <1>2, <3>1
    <3>3. b[j] < p
      BY <1>3 DEF j
    <3> QED
      BY <2>1, <3>2, <3>3
  <2>2. CASE i > t + 1
    <3> DEFINE j == t + 2
    <3>1. j \in 1..K /\ j <= i /\ t + 1 < K
      BY <1>0, <1>2, <2>2
    <3> HIDE DEF j
    <3>2. b[j] <= b[i] /\ b[i] \in Nat /\ b[j] \in Nat
      BY <1>2, <3>1
    <3>3. p <= b[j]
      BY <1>4, <3>1 DEF j
    <3>4. b[i] >= p
      BY <3>2, <3>3
    <3> QED
      BY <2>2, <3>4
  <2> QED
    BY <1>2, <2>1, <2>2
<1>6. [i \in 1..K |-> IF b[i] >= p THEN b[i] + 1 ELSE b[i]]
      = [i \in 1..K |-> IF i <= t + 1 THEN b[i] ELSE b[i] + 1]
  BY <1>5
<1>7. p \in 2..N+1
  BY <1>2, <1>3
<1> QED
  BY <1>6, <1>7, PlacedIs DEF Grown, b, K, N

\* At the beginning of a turn it is, but for the beginning of that turn and of one
\* that is empty.
LEMMA PlacedAtTurn ==
  ASSUME NEW c, InOrder(c), NEW t \in Nat, t < Len(c.begins), NEW a \in Action
  PROVE  LET p == TurnBegin(c, t)
             d == Placed(c, p, a)
         IN  /\ d.acts = Grown(c, t, p, a).acts /\ d.fault = "none"
             /\ d = [acts |-> d.acts, begins |-> d.begins, fault |-> "none"]
             /\ DOMAIN d.begins = 1..Len(c.begins)
             /\ \A i \in 1..Len(c.begins) :
                  d.begins[i] = IF i = t + 1 \/ (c.begins[i] = p) THEN p + 1 ELSE Grown(c, t, p, a).begins[i]
<1> DEFINE b == c.begins
           N == Len(c.acts)
           K == Len(b)
           p == TurnBegin(c, t)
           d == Placed(c, p, a)
<1>1. Rising(b, N)
  BY OrderRises
<1>2. /\ N \in Nat /\ K \in Nat /\ b \in [1..K -> 1..N]
      /\ \A i, j \in 1..K : (i <= j => b[i] <= b[j]) /\ (i < j /\ j >= 3 => b[i] < b[j])
  BY <1>1 DEF Rising
<1>3. p = b[t + 1] /\ p \in Nat /\ t < K /\ t + 1 \in 1..K
  <2>1. p = b[t + 1] /\ p \in 1..Len(c.acts)+1
    BY TurnBegins
  <2> QED
    BY <1>2, <2>1
<1>4. d = [acts |-> InsertAt(c.acts, p, a),
           begins |-> [i \in 1..K |-> IF b[i] >= p THEN b[i] + 1 ELSE b[i]], fault |-> "none"]
  BY PlacedIs
<1>5. Grown(c, t, p, a).acts = InsertAt(c.acts, p, a)
      /\ \A i \in 1..K : Grown(c, t, p, a).begins[i] = IF i <= t + 1 THEN b[i] ELSE b[i] + 1
  BY DEF Grown
<1> HIDE DEF b, N, K, p, d
<1>6. ASSUME NEW i \in 1..K
      PROVE  d.begins[i] = IF i = t + 1 \/ b[i] = p THEN p + 1 ELSE Grown(c, t, p, a).begins[i]
  <2>1. d.begins[i] = IF b[i] >= p THEN b[i] + 1 ELSE b[i]
    BY <1>4
  <2>2. b[i] \in Nat
    BY <1>2
  <2> DEFINE j == t + 1
  <2>3. j \in 1..K /\ b[j] = p
    BY <1>3
  <2> HIDE DEF j
  <2>4. (i <= j => b[i] <= p) /\ (j <= i => p <= b[i])
    BY <1>2, <2>3
  <2>5. Grown(c, t, p, a).begins[i] = IF i <= j THEN b[i] ELSE b[i] + 1
    BY <1>5 DEF j
  <2>6. d.begins[i] = IF i = j \/ b[i] = p THEN p + 1 ELSE Grown(c, t, p, a).begins[i]
    <3>1. CASE b[i] = p
      BY <1>3, <2>1, <3>1
    <3>2. CASE b[i] # p /\ i <= j
      <4>1. ~(b[i] >= p) /\ i # j
        BY <1>3, <2>2, <2>3, <2>4, <3>2
      <4> QED
        BY <2>1, <2>5, <3>2, <4>1
    <3>3. CASE b[i] # p /\ j < i
      <4>1. b[i] >= p /\ i # j /\ ~(i <= j)
        BY <1>2, <1>3, <2>2, <2>3, <2>4, <3>3
      <4> QED
        BY <2>1, <2>5, <3>3, <4>1
    <3> QED
      BY <1>2, <2>3, <3>1, <3>2, <3>3
  <2> QED
    BY <2>6 DEF j
<1>7. /\ d.acts = Grown(c, t, p, a).acts /\ d.fault = "none"
      /\ d = [acts |-> d.acts, begins |-> d.begins, fault |-> "none"]
      /\ DOMAIN d.begins = 1..K
  BY <1>4, <1>5
<1> QED
  BY <1>6, <1>7 DEF p, d, b, K

LEMMA PlacedContainer ==
  ASSUME NEW c, InOrder(c), NEW p \in 1..Len(c.acts)+1, NEW a \in Action
  PROVE  Placed(c, p, a) \in Containers /\ Len(Placed(c, p, a).begins) = Len(c.begins)
<1> DEFINE y == [i \in 1..Len(c.begins) |-> IF c.begins[i] >= p THEN c.begins[i] + 1 ELSE c.begins[i]]
           x == InsertAt(c.acts, p, a)
<1>1. Placed(c, p, a) = [acts |-> x, begins |-> y, fault |-> "none"]
  BY PlacedIs
<1>2. c.acts \in Seq(Action) /\ c.begins \in [1..Len(c.begins) -> Nat] /\ Len(c.begins) \in Nat
  BY ContainerIs DEF InOrder
<1>3. x \in Seq(Action)
  BY <1>2, InsertAtIs
<1>4. y \in Seq(Nat) /\ Len(y) = Len(c.begins)
  BY <1>2
<1> HIDE DEF x, y
<1> QED
  BY <1>1, <1>3, <1>4 DEF Containers, Faults

LEMMA TurnSizeIs ==
  ASSUME NEW c, InOrder(c), NEW t \in Nat
  PROVE  /\ TurnSize(c, t) \in Nat
         /\ TurnSize(c, t) = 0 <=> TurnEnd(c, t) = TurnBegin(c, t)
         /\ TurnBegin(c, t) + TurnSize(c, t) = TurnEnd(c, t)
<1>1. TurnBegin(c, t) \in 1..Len(c.acts)+1 /\ TurnEnd(c, t) \in 1..Len(c.acts)+1 /\ TurnBegin(c, t) <= TurnEnd(c, t)
      /\ Len(c.acts) \in Nat
  BY TurnBegins
<1>2. TurnSize(c, t) = TurnEnd(c, t) - TurnBegin(c, t)
  BY DEF TurnSize
<1> QED
  BY <1>1, <1>2

\* queue, by its cases.
LEMMA QueueCases ==
  ASSUME NEW c, InOrder(c), NEW t \in Nat, NEW a \in Action,
         t <= Len(c.begins) \/ (t = 1 /\ Len(c.begins) = 0)
  PROVE  LET p  == TurnEnd(c, t)
             d  == Placed(c, p, a)
             bg == IF t = 1 /\ Len(c.begins) = 0 THEN Append(d.begins, p) ELSE d.begins
             nb == IF t >= Len(bg) THEN Append(bg, p)
                   ELSE IF t = 0 /\ TurnSize(c, 0) = 0 THEN [bg EXCEPT ![1] = p] ELSE bg
         IN  Queue(c, t, a) = [acts |-> d.acts, begins |-> nb, fault |-> d.fault]
<1> DEFINE p  == TurnEnd(c, t)
           d  == Placed(c, p, a)
           fo == t = 1 /\ NumTurns(c) = 0
           bg == IF fo THEN Append(d.begins, p) ELSE d.begins
           nb == IF t >= Len(bg) THEN Append(bg, p)
                 ELSE IF t = 0 /\ TurnSize(c, 0) = 0 THEN [bg EXCEPT ![1] = p] ELSE bg
<1>1. Queue(c, t, a) = IF t > NumTurns(c) /\ ~fo THEN Fails(c, "assertion") ELSE [d EXCEPT !.begins = nb]
  BY DEF Queue
<1>2. p \in 1..Len(c.acts)+1
  BY TurnBegins
<1>3. d \in Containers
  <2> HIDE DEF p
  <2> QED
    BY <1>2, PlacedContainer
<1>4. Len(c.begins) \in Nat
  BY ContainerIs DEF InOrder
<1>5. ~(t > NumTurns(c) /\ ~fo)
  BY <1>4 DEF NumTurns
<1>6. [d EXCEPT !.begins = nb] = [acts |-> d.acts, begins |-> nb, fault |-> d.fault]
  <2> HIDE DEF d, nb
  <2> QED
    BY <1>3, SetBegins
<1>7. Queue(c, t, a) = [acts |-> d.acts, begins |-> nb, fault |-> d.fault]
  <2> HIDE DEF d, nb, fo
  <2> QED
    BY <1>1, <1>5, <1>6
<1> QED
  BY <1>7 DEF NumTurns

LEMMA QueueGrows ==
  ASSUME NEW c, InOrder(c), NEW t \in Nat, t < Len(c.begins), NEW a \in Action
  PROVE  Queue(c, t, a) = Grown(c, t, TurnEnd(c, t), a)
<1> DEFINE p  == TurnEnd(c, t)
           d  == Placed(c, p, a)
           K  == Len(c.begins)
           nb == IF t = 0 /\ TurnSize(c, 0) = 0 THEN [d.begins EXCEPT ![1] = p] ELSE d.begins
<1>1. K \in Nat /\ t <= K /\ K # 0
  BY ContainerIs DEF InOrder
<1>2. p \in 1..Len(c.acts)+1 /\ TurnBegin(c, t) \in 1..Len(c.acts)+1 /\ TurnBegin(c, t) <= p /\ Len(c.acts) \in Nat
      /\ (t >= 1 => TurnBegin(c, t) < p) /\ TurnBegin(c, 0) = 1 /\ TurnBegin(c, t) = c.begins[t + 1]
  BY TurnBegins
<1>3. Len(d.begins) = K
  <2> HIDE DEF p
  <2> QED
    BY <1>2, PlacedContainer
<1>4. Queue(c, t, a) = [acts |-> d.acts, begins |-> nb, fault |-> d.fault]
  <2> DEFINE bg == IF t = 1 /\ Len(c.begins) = 0 THEN Append(d.begins, p) ELSE d.begins
             n2 == IF t >= Len(bg) THEN Append(bg, p)
                   ELSE IF t = 0 /\ TurnSize(c, 0) = 0 THEN [bg EXCEPT ![1] = p] ELSE bg
  <2>1. Queue(c, t, a) = [acts |-> d.acts, begins |-> n2, fault |-> d.fault]
    BY <1>1, QueueCases
  <2>2. bg = d.begins
    BY <1>1
  <2>3. ~(t >= K)
    BY <1>1
  <2> HIDE DEF bg, d, p
  <2>4. n2 = nb
    BY <1>3, <2>2, <2>3
  <2> QED
    BY <2>1, <2>4
<1>5. CASE t = 0 /\ TurnSize(c, 0) = 0
  <2>1. p = TurnBegin(c, t) /\ p = 1
    BY <1>2, <1>5, TurnSizeIs
  <2> DEFINE g == Grown(c, t, p, a)
  <2>2. /\ d.acts = g.acts /\ d.fault = "none" /\ DOMAIN d.begins = 1..K
        /\ \A i \in 1..K : d.begins[i] = IF i = t + 1 \/ (c.begins[i] = p) THEN p + 1 ELSE g.begins[i]
    <3> DEFINE q == TurnBegin(c, t)
               e == Placed(c, q, a)
               h == Grown(c, t, q, a)
    <3>1. /\ e.acts = h.acts /\ e.fault = "none" /\ DOMAIN e.begins = 1..K
          /\ \A i \in 1..K : e.begins[i] = IF i = t + 1 \/ (c.begins[i] = q) THEN q + 1 ELSE h.begins[i]
      BY PlacedAtTurn
    <3>2. q = p /\ e = d /\ h = g
      BY <2>1
    <3> HIDE DEF q, e, h, d, g, p, K
    <3> QED
      BY <3>1, <3>2
  <2>3. /\ DOMAIN g.begins = 1..K
        /\ \A i \in 1..K : g.begins[i] = IF i <= t + 1 THEN c.begins[i] ELSE c.begins[i] + 1
        /\ g = [acts |-> g.acts, begins |-> g.begins, fault |-> "none"]
        /\ g.begins = [i \in 1..K |-> g.begins[i]]
    BY DEF Grown
  <2> HIDE DEF g
  <2>4. nb = [d.begins EXCEPT ![1] = p]
    BY <1>5
  <2>5. \A i \in 1..K : [d.begins EXCEPT ![1] = p][i] = g.begins[i]
    <3> SUFFICES ASSUME NEW i \in 1..K PROVE [d.begins EXCEPT ![1] = p][i] = g.begins[i]
      OBVIOUS
    <3>1. [d.begins EXCEPT ![1] = p][i] = IF i = 1 THEN p ELSE d.begins[i]
      BY <2>2
    <3> HIDE DEF d, p
    <3>2. d.begins[i] = IF i = 1 \/ (c.begins[i] = p) THEN p + 1 ELSE g.begins[i]
      BY <1>5, <2>2
    <3>3. g.begins[i] = IF i = 1 THEN c.begins[i] ELSE c.begins[i] + 1
      <4>1. i <= t + 1 <=> i = 1
        BY <1>1, <1>5
      <4> QED
        BY <2>3, <4>1
    <3>4. i = 1 => c.begins[i] = p
      BY <1>2, <1>5, <2>1
    <3> QED
      BY <3>1, <3>2, <3>3, <3>4
  <2>6. DOMAIN [d.begins EXCEPT ![1] = p] = 1..K
        /\ [d.begins EXCEPT ![1] = p] = [i \in 1..K |-> [d.begins EXCEPT ![1] = p][i]]
    BY <2>2
  <2>7. nb = g.begins
    <3> DEFINE v == [d.begins EXCEPT ![1] = p]
    <3>1. nb = v /\ v = [i \in 1..K |-> v[i]] /\ \A i \in 1..K : v[i] = g.begins[i]
      BY <2>4, <2>5, <2>6
    <3> HIDE DEF v, nb
    <3> QED
      BY <2>3, <3>1
  <2> HIDE DEF nb, d
  <2>8. Queue(c, t, a) = g
    BY <1>4, <2>2, <2>3, <2>7
  <2> QED
    BY <2>8 DEF g
<1>6. CASE ~(t = 0 /\ TurnSize(c, 0) = 0)
  <2>1. TurnBegin(c, t) < p
    <3>1. CASE t = 0
      <4>1. p # TurnBegin(c, t)
        BY <1>6, <3>1, TurnSizeIs
      <4> HIDE DEF p
      <4> QED
        BY <1>2, <4>1
    <3>2. CASE t # 0
      BY <1>2, <3>2
    <3> QED
      BY <3>1, <3>2
  <2>2. d = Grown(c, t, p, a)
    <3> HIDE DEF p
    <3>1. p \in Nat /\ p <= TurnEnd(c, t)
      BY <1>2 DEF p
    <3> QED
      BY <2>1, <3>1, PlacedInTurn
  <2>3. nb = d.begins
    BY <1>6
  <2>4. d = [acts |-> d.acts, begins |-> d.begins, fault |-> d.fault]
    BY <2>2 DEF Grown
  <2> QED
    BY <1>4, <2>2, <2>3, <2>4
<1> QED
  BY <1>5, <1>6

LEMMA QueueOpens ==
  ASSUME NEW c, InOrder(c), NEW t \in Nat, NEW a \in Action,
         t = Len(c.begins) \/ (t = 1 /\ Len(c.begins) = 0)
  PROVE  Queue(c, t, a) = Opened(c, t, a)
<1> DEFINE p  == TurnEnd(c, t)
           N  == Len(c.acts)
           b  == c.begins
           K  == Len(b)
           d  == Placed(c, p, a)
           bg == IF t = 1 /\ Len(c.begins) = 0 THEN Append(d.begins, p) ELSE d.begins
           nb == IF t >= Len(bg) THEN Append(bg, p)
                 ELSE IF t = 0 /\ TurnSize(c, 0) = 0 THEN [bg EXCEPT ![1] = p] ELSE bg
<1>1. Rising(b, N)
  BY OrderRises
<1>2. N \in Nat /\ K \in Nat /\ b \in [1..K -> 1..N]
  BY <1>1 DEF Rising
<1>3. p = N + 1
  <2>1. t + 1 \in Nat /\ t + 1 >= Len(c.begins)
    BY <1>2
  <2>2. TurnBegin(c, t + 1) = N + 1 /\ TurnEnd(c, t) = TurnBegin(c, t + 1)
    BY <2>1, TurnBegins
  <2> QED
    BY <2>2
<1>4. Queue(c, t, a) = [acts |-> d.acts, begins |-> nb, fault |-> d.fault]
  BY <1>2, QueueCases
<1> HIDE DEF p
<1>5. d = [acts   |-> InsertAt(c.acts, p, a),
           begins |-> [i \in 1..K |-> IF b[i] >= p THEN b[i] + 1 ELSE b[i]], fault |-> "none"]
  BY PlacedIs
<1>6. d.begins = b
  <2>1. \A i \in 1..K : b[i] \in 1..N /\ ~(b[i] >= p)
    BY <1>2, <1>3
  <2> HIDE DEF b, K, N, d
  <2>2. b = [i \in 1..K |-> b[i]]
    BY <1>2
  <2>3. [i \in 1..K |-> IF b[i] >= p THEN b[i] + 1 ELSE b[i]] = [i \in 1..K |-> b[i]]
    BY <2>1
  <2>4. d.begins = [i \in 1..K |-> IF b[i] >= p THEN b[i] + 1 ELSE b[i]]
    BY <1>5
  <2> QED
    BY <2>2, <2>3, <2>4
<1>7. nb = IF t = 1 /\ K = 0 THEN <<1, 1>> ELSE Append(b, N + 1)
  <2>1. CASE t = 1 /\ K = 0
    <3>1. b = <<>> /\ N = 0 /\ p = 1
      BY <1>1, <1>2, <1>3, <2>1 DEF Rising
    <3>2. bg = <<1>>
      <4> HIDE DEF d
      <4> QED
        BY <1>6, <2>1, <3>1
    <3>3. Len(bg) = 1 /\ Append(bg, p) = <<1, 1>>
      <4> HIDE DEF bg, d
      <4>1. <<1>> \in Seq(Nat) /\ Len(<<1>>) = 1 /\ <<1, 1>> \in Seq(Nat) /\ Len(<<1, 1>>) = 2
        OBVIOUS
      <4>2. Append(<<1>>, 1) \in Seq(Nat) /\ Len(Append(<<1>>, 1)) = 2
        BY <4>1
      <4>3. \A i \in 1..2 : Append(<<1>>, 1)[i] = <<1, 1>>[i]
        BY <4>1
      <4>4. Append(<<1>>, 1) = <<1, 1>>
        BY <4>1, <4>2, <4>3, SameSequence
      <4> QED
        BY <3>1, <3>2, <4>1, <4>4
    <3> HIDE DEF bg
    <3> QED
      BY <2>1, <3>3
  <2>2. CASE ~(t = 1 /\ K = 0)
    <3>1. bg = b
      <4> HIDE DEF d
      <4> QED
        BY <1>6, <2>2
    <3> HIDE DEF bg
    <3>2. t >= Len(bg)
      BY <1>2, <2>2, <3>1
    <3> QED
      BY <1>3, <2>2, <3>1, <3>2
  <2> QED
    BY <2>1, <2>2
<1>8. d.acts = InsertAt(c.acts, N + 1, a) /\ d.fault = "none"
  BY <1>3, <1>5
<1> HIDE DEF nb, d
<1> QED
  BY <1>4, <1>7, <1>8 DEF Opened

LEMMA QueueFails ==
  ASSUME NEW c, InOrder(c), NEW t \in Nat, NEW a,
         t > Len(c.begins), ~(t = 1 /\ Len(c.begins) = 0)
  PROVE  Queue(c, t, a) = Fails(c, "assertion")
<1> DEFINE nb == Queue(c, t, a).begins
<1>1. t > NumTurns(c) /\ ~(t = 1 /\ NumTurns(c) = 0)
  BY DEF NumTurns
<1> QED
  BY <1>1, Zenon DEF Queue

\* insert: in the turn of the action before, or of the first action.
LEMMA InsertFirst ==
  ASSUME NEW c, InOrder(c), NEW a \in Action, Len(c.begins) # 0
  PROVE  Insert(c, 1, a) = Grown(c, 0, 1, a)
<1> DEFINE b == c.begins
           N == Len(c.acts)
           K == Len(b)
           d == Placed(c, 1, a)
           y == [d.begins EXCEPT ![1] = 1]
           z == [i \in 1..K |-> IF i <= 0 + 1 THEN b[i] ELSE b[i] + 1]
<1>1. Rising(b, N)
  BY OrderRises
<1>2. N \in Nat /\ K \in Nat /\ b \in [1..K -> 1..N] /\ K # 0 /\ b[1] = 1
  BY <1>1 DEF Rising
<1>3. d = [acts   |-> InsertAt(c.acts, 1, a),
           begins |-> [i \in 1..K |-> IF b[i] >= 1 THEN b[i] + 1 ELSE b[i]], fault |-> "none"]
  BY PlacedIs
<1>4. ~(1 > End(c)) /\ c.begins # <<>> /\ 1 = 1
  BY <1>2 DEF End
<1>5. Insert(c, 1, a) = [d EXCEPT !.begins[1] = 1]
  BY <1>4, Zenon DEF Insert
<1>6. d \in Containers
  <2>1. 1 \in 1..Len(c.acts)+1
    BY <1>2
  <2> QED
    BY <2>1, PlacedContainer
<1>7. [d EXCEPT !.begins[1] = 1] = [acts |-> d.acts, begins |-> y, fault |-> d.fault]
  <2> HIDE DEF d
  <2> QED
    BY <1>6, SetBegins
<1>8. y = z
  <2>1. d.begins = [i \in 1..K |-> IF b[i] >= 1 THEN b[i] + 1 ELSE b[i]]
    BY <1>3
  <2> HIDE DEF d, b, K
  <2>2. y = [i \in 1..K |-> y[i]] /\ \A i \in 1..K : y[i] = IF i = 1 THEN 1 ELSE IF b[i] >= 1 THEN b[i] + 1 ELSE b[i]
    BY <2>1
  <2>3. ASSUME NEW i \in 1..K PROVE y[i] = z[i]
    <3>1. b[i] \in 1..N
      BY <1>2
    <3>2. z[i] = IF i <= 0 + 1 THEN b[i] ELSE b[i] + 1
      OBVIOUS
    <3> QED
      BY <1>2, <2>2, <3>1, <3>2
  <2>4. z = [i \in 1..K |-> z[i]]
    OBVIOUS
  <2> HIDE DEF y, z
  <2> QED
    BY <2>2, <2>3, <2>4
<1>9. d.acts = InsertAt(c.acts, 1, a) /\ d.fault = "none"
  BY <1>3
<1> HIDE DEF d, y, z
<1>10. Insert(c, 1, a) = [acts |-> InsertAt(c.acts, 1, a), begins |-> z, fault |-> "none"]
  BY <1>5, <1>7, <1>8, <1>9
<1> QED
  BY <1>10 DEF Grown, z

LEMMA InsertBehind ==
  ASSUME NEW c, InOrder(c), NEW a, NEW p \in 2..Len(c.acts)+1
  PROVE  Insert(c, p, a) = Placed(c, p, a)
<1>1. Len(c.acts) \in Nat
  BY ContainerIs DEF InOrder
<1>2. ~(p > End(c)) /\ p # 1
  BY <1>1 DEF End
<1> QED
  BY <1>2, Zenon DEF Insert

LEMMA InsertFails ==
  ASSUME NEW c, InOrder(c), NEW a, NEW p \in Nat, p > Len(c.acts) + 1 \/ (p = 1 /\ Len(c.begins) = 0)
  PROVE  \E why \in Faults \ {"none"} : Insert(c, p, a) = Fails(c, why)
<1>1. Len(c.acts) \in Nat /\ Len(c.begins) \in Nat /\ (Len(c.begins) = 0 => c.begins = <<>>)
  BY ContainerIs DEF InOrder
<1>2. CASE p > Len(c.acts) + 1
  <2>1. p > End(c) /\ p # 1
    BY <1>1, <1>2 DEF End
  <2>2. Insert(c, p, a) = Fails(c, "assertion")
    BY <2>1, Zenon DEF Insert
  <2> QED
    BY <2>2 DEF Faults
<1>3. CASE ~(p > Len(c.acts) + 1) /\ p = 1 /\ Len(c.begins) = 0
  <2>1. ~(p > End(c)) /\ p = 1 /\ c.begins = <<>>
    BY <1>1, <1>3 DEF End
  <2>2. Insert(c, p, a) = Fails(c, "dangling")
    BY <2>1, Zenon DEF Insert
  <2> QED
    BY <2>2 DEF Faults
<1> QED
  BY <1>2, <1>3

\* push_front: at the beginning of the turn.
LEMMA PushFrontGrows ==
  ASSUME NEW c, InOrder(c), NEW t \in Nat, t < Len(c.begins), NEW a \in Action
  PROVE  PushFront(c, t, a) = Grown(c, t, TurnBegin(c, t), a)
<1> DEFINE b == c.begins
           N == Len(c.acts)
           K == Len(b)
           p == TurnBegin(c, t)
           g == Grown(c, t, p, a)
           d == Insert(c, p, a)
           e == [d EXCEPT !.begins[t + 1] = p]
           y == [d.begins EXCEPT ![t + 1] = p]
<1>1. Rising(b, N)
  BY OrderRises
<1>2. /\ N \in Nat /\ K \in Nat /\ b \in [1..K -> 1..N] /\ K # 0 /\ b[1] = 1
      /\ \A i, j \in 1..K : (i <= j => b[i] <= b[j]) /\ (i < j /\ j >= 3 => b[i] < b[j])
  BY <1>1 DEF Rising
<1>3. /\ p \in 1..N+1 /\ p = b[t + 1] /\ TurnBegin(c, 0) = 1 /\ p <= N
  BY TurnBegins
<1>4. CASE TurnSize(c, t) = 0
  <2>1. TurnEnd(c, t) = p
    BY <1>4, TurnSizeIs
  <2>2. Queue(c, t, a) = Grown(c, t, TurnEnd(c, t), a)
    BY QueueGrows
  <2>3. PushFront(c, t, a) = Queue(c, t, a)
    BY <1>4, Zenon DEF PushFront
  <2> QED
    BY <2>1, <2>2, <2>3
<1>5. CASE TurnSize(c, t) # 0
  <2>0. /\ g = [acts |-> InsertAt(c.acts, p, a), begins |-> g.begins, fault |-> "none"]
        /\ g.begins = [i \in 1..K |-> g.begins[i]]
        /\ \A i \in 1..K : g.begins[i] = IF i <= t + 1 THEN b[i] ELSE b[i] + 1
    BY DEF Grown
  <2>1. d \in Containers /\ d.acts = InsertAt(c.acts, p, a) /\ d.fault = "none" /\ DOMAIN d.begins = 1..K
        /\ \A i \in 1..K : i # t + 1 => d.begins[i] = g.begins[i]
        /\ (t = 1 => d.begins[2] # 1)
        /\ d.begins[1] = 1 /\ Len(d.begins) = K
    <3>1. CASE p = 1
      <4>1. d = Grown(c, 0, 1, a)
        BY <1>2, <1>3, <3>1, InsertFirst
      <4>2. d = [acts |-> InsertAt(c.acts, 1, a),
                 begins |-> [i \in 1..K |-> IF i <= 0 + 1 THEN b[i] ELSE b[i] + 1], fault |-> "none"]
        BY <4>1 DEF Grown
      <4>3. InOrder(d)
        <5>1. 1 \in 1..Len(c.acts)+1 /\ 0 < Len(c.begins) /\ 0 \in Nat
          BY <1>2
        <5>2. InOrder(Grown(c, 0, 1, a))
          BY <5>1, GrownIs
        <5> QED
          BY <4>1, <5>2
      <4>4. t = 0 \/ t = 1
        <5> SUFFICES ASSUME t >= 2 PROVE FALSE
          OBVIOUS
        <5> DEFINE j == t + 1
        <5>1. 1 \in 1..K /\ j \in 1..K /\ 1 < j /\ j >= 3
          BY <1>2
        <5>2. b[j] = 1
          BY <1>3, <3>1
        <5> HIDE DEF j, p
        <5>3. b[1] < b[j]
          BY <1>2, <5>1
        <5> QED
          BY <1>2, <5>2, <5>3
      <4>5. DOMAIN d.begins = 1..K /\ \A i \in 1..K : d.begins[i] = IF i <= 0 + 1 THEN b[i] ELSE b[i] + 1
        BY <4>2
      <4>6. d.acts = InsertAt(c.acts, p, a) /\ d.fault = "none"
        BY <3>1, <4>2
      <4> HIDE DEF d, g, p, b, K
      <4>7. d.begins \in Seq(Nat) /\ d \in Containers
        BY <4>3 DEF InOrder, Containers
      <4>8. Len(d.begins) = K
        BY <1>2, <4>5, <4>7
      <4>9. \A i \in 1..K : i # t + 1 => d.begins[i] = g.begins[i]
        <5> SUFFICES ASSUME NEW i \in 1..K, i # t + 1 PROVE d.begins[i] = g.begins[i]
          OBVIOUS
        <5>1. i <= t + 1 <=> i <= 0 + 1
          BY <1>2, <4>4
        <5> QED
          BY <2>0, <4>5, <5>1
      <4>10. d.begins[1] = 1 /\ (t = 1 => d.begins[2] # 1)
        <5>1. 1 \in 1..K
          BY <1>2
        <5>2. d.begins[1] = b[1]
          BY <4>5, <5>1
        <5>3. ASSUME t = 1 PROVE d.begins[2] # 1
          <6>1. 2 \in 1..K
            BY <1>2, <5>3 DEF K, b
          <6>2. d.begins[2] = b[2] + 1 /\ b[2] \in 1..N
            BY <1>2, <4>5, <6>1
          <6> QED
            BY <6>2
        <5> QED
          BY <1>2, <5>2, <5>3
      <4> QED
        BY <4>5, <4>6, <4>7, <4>8, <4>9, <4>10
    <3>2. CASE p # 1
      <4>1. p \in 2..Len(c.acts)+1 /\ p \in 1..Len(c.acts)+1
        BY <1>2, <1>3, <3>2
      <4>2. d = Placed(c, p, a)
        <5> HIDE DEF p
        <5> QED
          BY <4>1, InsertBehind
      <4>3. d \in Containers /\ Len(d.begins) = K
        <5> HIDE DEF p
        <5> QED
          BY <4>1, <4>2, PlacedContainer
      <4>4. /\ d.acts = g.acts /\ d.fault = "none" /\ DOMAIN d.begins = 1..K
            /\ \A i \in 1..K : d.begins[i] = IF i = t + 1 \/ b[i] = p THEN p + 1 ELSE g.begins[i]
        <5>1. /\ Placed(c, p, a).acts = g.acts /\ Placed(c, p, a).fault = "none" /\ DOMAIN Placed(c, p, a).begins = 1..K
              /\ \A i \in 1..K : Placed(c, p, a).begins[i] = IF i = t + 1 \/ b[i] = p THEN p + 1 ELSE g.begins[i]
          BY PlacedAtTurn
        <5> HIDE DEF d, p, g, K, b
        <5> QED
          BY <4>2, <5>1
      <4>5. t >= 1
        BY <1>3, <3>2
      <4>6. \A i \in 1..K : i # t + 1 => b[i] # p
        <5> SUFFICES ASSUME NEW i \in 1..K, i # t + 1, b[i] = p PROVE FALSE
          OBVIOUS
        <5> DEFINE j == t + 1
        <5>1. j \in 1..K /\ b[j] = p /\ i # j /\ j >= 2
          BY <1>2, <1>3, <4>5
        <5> HIDE DEF j, p
        <5>2. (i < j /\ j >= 3 => b[i] < b[j]) /\ (j < i /\ i >= 3 => b[j] < b[i]) /\ b[i] \in Nat /\ b[j] \in Nat
          BY <1>2, <5>1
        <5>3. i = 1 => b[i] = 1
          BY <1>2
        <5> QED
          BY <1>2, <3>2, <5>1, <5>2, <5>3
      <4> HIDE DEF d, p, g, b, K
      <4>7. \A i \in 1..K : i # t + 1 => d.begins[i] = g.begins[i]
        BY <4>4, <4>6
      <4>8. d.begins[1] = 1
        <5>1. 1 \in 1..K /\ 1 # t + 1 /\ 1 <= t + 1
          BY <1>2, <4>5
        <5>2. d.begins[1] = g.begins[1] /\ g.begins[1] = b[1]
          BY <2>0, <4>7, <5>1
        <5> QED
          BY <1>2, <5>2
      <4>9. ASSUME t = 1 PROVE d.begins[2] # 1
        <5>1. 2 \in 1..K /\ 2 = t + 1
          BY <1>2, <4>9 DEF K, b
        <5>2. d.begins[2] = p + 1
          BY <4>4, <5>1
        <5> QED
          BY <1>3, <3>2, <5>2
      <4>10. d.acts = InsertAt(c.acts, p, a)
        BY <2>0, <4>4
      <4> QED
        BY <4>3, <4>4, <4>7, <4>8, <4>9, <4>10
    <3> QED
      BY <3>1, <3>2
  <2>2. ~(TurnSize(c, t) # 0 /\ t = 1 /\ TurnSize(d, 0) = 0)
    <3> SUFFICES ASSUME t = 1, TurnSize(d, 0) = 0 PROVE FALSE
      OBVIOUS
    <3> HIDE DEF d
    <3>1. K >= 2
      BY <1>2
    <3>2. TurnBegin(d, 0) = d.begins[1] /\ TurnBegin(d, 1) = d.begins[2]
      BY <1>2, <2>1, <3>1 DEF TurnBegin, NumTurns
    <3>3. TurnSize(d, 0) = d.begins[2] - d.begins[1]
      BY <3>2 DEF TurnSize, TurnEnd
    <3>4. d.begins[1] = 1 /\ d.begins[2] # 1 /\ d.begins[2] \in Nat
      <4>1. d.begins \in [1..Len(d.begins) -> Nat]
        BY <2>1, ContainerIs
      <4>2. 2 \in 1..Len(d.begins)
        BY <1>2, <2>1, <3>1
      <4> QED
        BY <2>1, <4>1, <4>2
    <3> QED
      BY <3>3, <3>4
  <2>3. PushFront(c, t, a) = e
    BY <1>5, <2>2, Zenon DEF PushFront
  <2>4. e = [acts |-> d.acts, begins |-> y, fault |-> d.fault]
    <3>0. d \in Containers
      BY <2>1
    <3> HIDE DEF d, p
    <3> QED
      BY <3>0, SetBegins
  <2>5. y = g.begins
    <3>1. y = [i \in 1..K |-> y[i]] /\ \A i \in 1..K : y[i] = IF i = t + 1 THEN p ELSE d.begins[i]
      <4>1. DOMAIN d.begins = 1..K /\ d.begins = [i \in 1..K |-> d.begins[i]]
        <5> HIDE DEF d, g
        <5>1. d.begins \in [1..Len(d.begins) -> Nat] /\ Len(d.begins) = K
          BY <2>1, ContainerIs
        <5> QED
          BY <5>1
      <4> HIDE DEF d, p, K, g
      <4> QED
        BY <4>1
    <3> HIDE DEF y, d, g, p, K, b
    <3>2. ASSUME NEW i \in 1..K PROVE y[i] = g.begins[i]
      <4>1. CASE i = t + 1
        BY <1>2, <1>3, <2>0, <3>1, <4>1
      <4>2. CASE i # t + 1
        BY <2>1, <3>1, <4>2
      <4> QED
        BY <4>1, <4>2
    <3> QED
      BY <2>0, <3>1, <3>2
  <2>6. d.acts = InsertAt(c.acts, p, a) /\ d.fault = "none"
    BY <2>1
  <2> HIDE DEF d, e, y, g
  <2> QED
    BY <2>0, <2>3, <2>4, <2>5, <2>6 DEF g
<1> QED
  BY <1>4, <1>5

\* safe_insert: at a position of a turn, its end included.
LEMMA SafeInsertGrows ==
  ASSUME NEW c, InOrder(c), NEW t \in Nat, t < Len(c.begins), NEW a \in Action,
         NEW pos \in 0..TurnSize(c, t)
  PROVE  SafeInsert(c, t, pos, a) = Grown(c, t, TurnBegin(c, t) + pos, a)
<1> DEFINE p == TurnBegin(c, t) + pos
<1>1. /\ TurnBegin(c, t) \in 1..Len(c.acts)+1 /\ TurnEnd(c, t) \in 1..Len(c.acts)+1 /\ Len(c.acts) \in Nat
      /\ TurnSize(c, t) \in Nat /\ TurnBegin(c, t) + TurnSize(c, t) = TurnEnd(c, t)
  BY TurnBegins, TurnSizeIs
<1>2. CASE pos = 0
  <2>1. p = TurnBegin(c, t) /\ SafeInsert(c, t, pos, a) = PushFront(c, t, a)
    BY <1>1, <1>2 DEF SafeInsert
  <2>2. PushFront(c, t, a) = Grown(c, t, TurnBegin(c, t), a)
    BY PushFrontGrows
  <2> QED
    BY <2>1, <2>2
<1>3. CASE pos # 0
  <2>1. p \in Nat /\ TurnBegin(c, t) < p /\ p <= TurnEnd(c, t)
    BY <1>1, <1>3
  <2>2. SafeInsert(c, t, pos, a) = Insert(c, p, a)
    BY <1>3 DEF SafeInsert
  <2> HIDE DEF p
  <2>3. Placed(c, p, a) = Grown(c, t, p, a) /\ p \in 2..Len(c.acts)+1
    BY <2>1, PlacedInTurn
  <2>4. Insert(c, p, a) = Placed(c, p, a)
    BY <2>3, InsertBehind
  <2> QED
    BY <2>2, <2>3, <2>4 DEF p
<1> QED
  BY <1>2, <1>3

\* A turn that does not begin has no size.
LEMMA NoTurn ==
  ASSUME NEW c, InOrder(c), NEW t \in Nat, t >= Len(c.begins)
  PROVE  TurnSize(c, t) = 0 /\ TurnBegin(c, t) = Len(c.acts) + 1 /\ TurnEnd(c, t) = Len(c.acts) + 1
<1>0. Len(c.begins) \in Nat
  BY ContainerIs DEF InOrder
<1>1. t + 1 \in Nat /\ t + 1 >= Len(c.begins)
  BY <1>0
<1>2. TurnBegin(c, t) = Len(c.acts) + 1 /\ TurnBegin(c, t + 1) = Len(c.acts) + 1 /\ Len(c.acts) \in Nat
      /\ TurnEnd(c, t) = TurnBegin(c, t + 1)
  BY <1>1, TurnBegins
<1> QED
  BY <1>2, TurnSizeIs

LEMMA SafeInsertOpens ==
  ASSUME NEW c, InOrder(c), NEW t \in Nat, NEW a \in Action,
         t = Len(c.begins) \/ (t = 1 /\ Len(c.begins) = 0)
  PROVE  SafeInsert(c, t, 0, a) = Opened(c, t, a)
<1>1. TurnSize(c, t) = 0
  <2>1. t >= Len(c.begins)
    BY TurnBegins
  <2> QED
    BY <2>1, NoTurn
<1>2. PushFront(c, t, a) = Queue(c, t, a)
  BY <1>1, Zenon DEF PushFront
<1>3. SafeInsert(c, t, 0, a) = PushFront(c, t, a)
  BY DEF SafeInsert
<1> QED
  BY <1>2, <1>3, QueueOpens

LEMMA FailsIs ==
  ASSUME NEW c, InOrder(c), NEW why \in Faults \ {"none"}
  PROVE  Fails(c, why) \in Lists /\ Fails(c, why) = [acts |-> c.acts, begins |-> c.begins, fault |-> why]
<1>1. c \in Containers
  BY DEF InOrder
<1>2. Fails(c, why) = [acts |-> c.acts, begins |-> c.begins, fault |-> why]
  BY <1>1, SetFault DEF Fails
<1>3. c.acts \in Seq(Action) /\ c.begins \in Seq(Nat)
  BY <1>1, ContainerIs
<1> QED
  BY <1>2, <1>3 DEF Lists, Containers

LEMMA ListsIs ==
  ASSUME NEW c \in Lists
  PROVE  c \in Containers /\ c.fault \in Faults /\ (InOrder(c) \/ c.fault # "none")
BY ContainerIs DEF Lists, InOrder

LEMMA InOrderList ==
  ASSUME NEW c, InOrder(c)
  PROVE  c \in Lists /\ c.fault = "none" /\ c \in Containers /\ Len(c.acts) \in Nat
BY ContainerIs DEF InOrder, Lists

LEMMA GrownLength ==
  ASSUME NEW c, InOrder(c), NEW t, NEW a \in Action, NEW p \in 1..Len(c.acts)+1
  PROVE  Len(Grown(c, t, p, a).acts) = Len(c.acts) + 1 /\ Len(Opened(c, t, a).acts) = Len(c.acts) + 1
<1>1. c.acts \in Seq(Action) /\ Len(c.acts) \in Nat
  BY ContainerIs DEF InOrder
<1>2. Len(InsertAt(c.acts, p, a)) = Len(c.acts) + 1
  BY <1>1, InsertAtIs
<1>3. Len(InsertAt(c.acts, Len(c.acts) + 1, a)) = Len(c.acts) + 1
  <2> DEFINE q == Len(c.acts) + 1
  <2>1. q \in 1..Len(c.acts)+1
    BY <1>1
  <2> HIDE DEF q
  <2>2. Len(InsertAt(c.acts, q, a)) = Len(c.acts) + 1
    BY <1>1, <2>1, InsertAtIs
  <2> QED
    BY <2>2 DEF q
<1> QED
  BY <1>2, <1>3 DEF Grown, Opened

\* Wherever something is to be put in, the container stays in order or gives up.
LEMMA SafeInsertKeeps ==
  ASSUME NEW c, InOrder(c), NEW t \in Nat, NEW pos \in Nat, NEW a \in Action
  PROVE  SafeInsert(c, t, pos, a) \in Lists
<1> DEFINE K == Len(c.begins)
           p == TurnBegin(c, t) + pos
<1>0. Len(c.acts) \in Nat /\ K \in Nat /\ TurnBegin(c, t) \in 1..Len(c.acts)+1
  BY TurnBegins
<1>1. CASE pos = 0 /\ t < K
  <2>1. pos \in 0..TurnSize(c, t)
    BY <1>1, TurnSizeIs
  <2>2. SafeInsert(c, t, pos, a) = Grown(c, t, p, a)
    BY <1>1, <2>1, SafeInsertGrows
  <2>3. p \in 1..Len(c.acts)+1
    BY <1>0, <1>1
  <2> HIDE DEF p
  <2>4. InOrder(Grown(c, t, p, a))
    BY <1>1, <2>3, GrownIs
  <2> QED
    BY <2>2, <2>4, InOrderList
<1>2. CASE pos = 0 /\ (t = K \/ (t = 1 /\ K = 0))
  <2>1. SafeInsert(c, t, pos, a) = Opened(c, t, a)
    BY <1>2, SafeInsertOpens
  <2>2. InOrder(Opened(c, t, a))
    BY OpenedIs
  <2> QED
    BY <2>1, <2>2, InOrderList
<1>3. CASE pos = 0 /\ t > K /\ ~(t = 1 /\ K = 0)
  <2>1. TurnSize(c, t) = 0
    BY <1>0, <1>3, NoTurn
  <2>2. SafeInsert(c, t, pos, a) = Queue(c, t, a)
    <3>1. PushFront(c, t, a) = Queue(c, t, a)
      BY <2>1, Zenon DEF PushFront
    <3> QED
      BY <1>3, <3>1 DEF SafeInsert
  <2>3. Queue(c, t, a) = Fails(c, "assertion")
    BY <1>3, QueueFails
  <2>4. "assertion" \in Faults \ {"none"}
    BY DEF Faults
  <2> QED
    BY <2>2, <2>3, <2>4, FailsIs
<1>4. CASE pos # 0
  <2>1. SafeInsert(c, t, pos, a) = Insert(c, p, a) /\ p \in Nat /\ p >= 2
    BY <1>0, <1>4 DEF SafeInsert
  <2>2. CASE p > Len(c.acts) + 1
    <3> HIDE DEF p
    <3>1. PICK why \in Faults \ {"none"} : Insert(c, p, a) = Fails(c, why)
      BY <2>1, <2>2, InsertFails
    <3> QED
      BY <2>1, <3>1, FailsIs
  <2>3. CASE p <= Len(c.acts) + 1
    <3> HIDE DEF p
    <3>1. p \in 2..Len(c.acts)+1 /\ p - 1 \in 1..Len(c.acts)
      BY <1>0, <2>1, <2>3
    <3> DEFINE u == GetTurn(c, p - 1)
    <3>2. u \in 0..K-1 /\ TurnBegin(c, u) <= p - 1 /\ p - 1 < TurnEnd(c, u)
      BY <3>1, TurnOfAction
    <3> HIDE DEF u
    <3>3. u \in Nat /\ u < K
      BY <1>0, <3>2
    <3>4. TurnBegin(c, u) \in 1..Len(c.acts)+1 /\ TurnEnd(c, u) \in 1..Len(c.acts)+1
      BY <3>3, TurnBegins
    <3>5. TurnBegin(c, u) < p /\ p <= TurnEnd(c, u) /\ p \in 1..Len(c.acts)+1
      BY <1>0, <2>1, <3>1, <3>2, <3>4
    <3>6. Placed(c, p, a) = Grown(c, u, p, a)
      BY <2>1, <3>3, <3>5, PlacedInTurn
    <3>7. InOrder(Grown(c, u, p, a))
      BY <3>3, <3>5, GrownIs
    <3> QED
      BY <2>1, <3>1, <3>6, <3>7, InsertBehind, InOrderList
  <2> QED
    BY <1>0, <2>1, <2>2, <2>3
<1> QED
  BY <1>0, <1>1, <1>2, <1>3, <1>4

-----------------------------------------------------------------------------
(* What is taken out. *)

\* c without p, of turn t: the later turns begin one earlier.
Cut(c, t, p) ==
  [acts   |-> RemoveAt(c.acts, p),
   begins |-> [i \in 1..Len(c.begins) |-> IF i <= t + 1 THEN c.begins[i] ELSE c.begins[i] - 1],
   fault  |-> "none"]

\* c without the last turn, that has one action.
Shortened(c) ==
  [acts |-> RemoveAt(c.acts, Len(c.acts)), begins |-> Front(c.begins), fault |-> "none"]

LEMMA FoundIs ==
  ASSUME NEW c, InOrder(c), NEW p \in 1..Len(c.acts), NEW found,
         found = {i \in DOMAIN c.begins : c.begins[i] = p}, found # {}
  PROVE  /\ Min(found) \in 1..Len(c.begins) /\ c.begins[Min(found)] = p
         /\ \A j \in 1..Len(c.begins) : c.begins[j] = p => Min(found) <= j
<1>1. DOMAIN c.begins = 1..Len(c.begins)
  BY ContainerIs DEF InOrder
<1>2. found \in SUBSET Nat
  BY <1>1
<1>3. PICK x \in found : \A y \in found : x <= y
  BY <1>2, LeastNat
<1>4. Min(found) \in found /\ \A y \in found : Min(found) <= y
  BY <1>3 DEF Min
<1> QED
  BY <1>1, <1>4

LEMMA CutIs ==
  ASSUME NEW c, InOrder(c), NEW p \in 1..Len(c.acts), NEW t \in 0..Len(c.begins)-1,
         TurnBegin(c, t) <= p, p < TurnEnd(c, t),
         TurnSize(c, t) > 1 \/ (t = 0 /\ Len(c.acts) > 1)
  PROVE  InOrder(Cut(c, t, p)) /\ Len(Cut(c, t, p).acts) = Len(c.acts) - 1
         /\ Len(Cut(c, t, p).begins) = Len(c.begins)
         /\ \A i \in 1..Len(c.begins) :
              Cut(c, t, p).begins[i] = IF i <= t + 1 THEN c.begins[i] ELSE c.begins[i] - 1
<1> DEFINE b == c.begins
           N == Len(c.acts)
           K == Len(b)
           s == RemoveAt(c.acts, p)
           e == [i \in 1..K |-> IF i <= t + 1 THEN b[i] ELSE b[i] - 1]
<1>1. Rising(b, N)
  BY OrderRises
<1>2. /\ N \in Nat /\ K \in Nat /\ b \in [1..K -> 1..N] /\ (K = 0 <=> N = 0) /\ (K # 0 => b[1] = 1)
      /\ \A i, j \in 1..K : (i <= j => b[i] <= b[j]) /\ (i < j /\ j >= 3 => b[i] < b[j])
  BY <1>1 DEF Rising
<1>3. c.acts \in Seq(Action)
  BY ContainerIs DEF InOrder
<1>4. s \in Seq(Action) /\ Len(s) = N - 1
  BY <1>3, RemoveAtIs
<1>5. t \in Nat /\ t < K /\ p \in 1..N /\ t + 1 \in 1..K /\ t + 1 \in Nat
  BY <1>2
<1>6. /\ TurnBegin(c, t) = b[t + 1]
      /\ TurnEnd(c, t) = IF t + 1 < K THEN b[t + 2] ELSE N + 1
      /\ TurnSize(c, t) = TurnEnd(c, t) - TurnBegin(c, t)
  <2>1. TurnBegin(c, t) = b[t + 1] /\ TurnEnd(c, t) = TurnBegin(c, t + 1)
    BY <1>5, TurnBegins
  <2> DEFINE u == t + 1
  <2>2. u \in Nat /\ u + 1 = t + 2
    BY <1>5
  <2> HIDE DEF u
  <2>3. (u < K => TurnBegin(c, u) = b[u + 1]) /\ (u >= K => TurnBegin(c, u) = N + 1)
    BY <2>2, TurnBegins
  <2>4. (u < K) \/ (u >= K)
    BY <1>2, <2>2
  <2> QED
    BY <1>2, <2>1, <2>2, <2>3, <2>4 DEF u, TurnSize
<1> DEFINE B1 == b[t + 1]
           B2 == IF t + 1 < K THEN b[t + 2] ELSE N + 1
<1>7. /\ B1 \in 1..N /\ B2 \in 1..N+1 /\ B1 <= p /\ p < B2 /\ N > 1
      /\ B2 > B1 + 1 \/ t = 0
  <2>1. B1 \in 1..N /\ (t + 1 < K => b[t + 2] \in 1..N)
    <3> DEFINE v == t + 2
    <3>1. t + 1 < K => v \in 1..K
      BY <1>2, <1>5
    <3> HIDE DEF v
    <3>2. B1 \in 1..N /\ (t + 1 < K => b[v] \in 1..N)
      BY <1>2, <1>5, <3>1
    <3> QED
      BY <3>2 DEF v
  <2>2. B1 <= p /\ p < B2
    BY <1>6
  <2>3. B2 \in 1..N+1
    BY <1>2, <2>1
  <2>4. B2 > B1 + 1 \/ (t = 0 /\ N > 1)
    BY <1>6, <2>1, <2>3
  <2>5. N > 1
    BY <1>2, <2>1, <2>2, <2>3, <2>4, SMTT(30)
  <2> HIDE DEF B1, B2
  <2> QED
    BY <2>1, <2>2, <2>3, <2>4, <2>5
<1>8. \A i \in 1..K : (i <= t + 1 => b[i] <= B1) /\ (i > t + 1 => b[i] >= B2 /\ b[i] > p)
  <2> SUFFICES ASSUME NEW i \in 1..K PROVE (i <= t + 1 => b[i] <= B1) /\ (i > t + 1 => b[i] >= B2 /\ b[i] > p)
    OBVIOUS
  <2> DEFINE u == t + 1
             v == t + 2
  <2>1. u \in 1..K /\ (i <= u \/ i > u) /\ (i > u => v \in 1..K /\ v <= i /\ u < K)
    BY <1>2, <1>5
  <2> HIDE DEF u, v
  <2>2. (i <= u => b[i] <= b[u]) /\ (i > u => b[v] <= b[i] /\ u < K) /\ b[i] \in 1..N
    BY <1>2, <2>1
  <2> QED
    BY <1>2, <1>7, <2>1, <2>2 DEF u, v
<1> HIDE DEF b, N, K, s, B1, B2
<1>9. Len(e) = K /\ \A i \in 1..K : e[i] = IF i <= t + 1 THEN b[i] ELSE b[i] - 1
  BY <1>2
<1> HIDE DEF e
<1>10. \A i \in 1..K : e[i] \in 1..(N - 1)
  <2> SUFFICES ASSUME NEW i \in 1..K PROVE e[i] \in 1..(N - 1)
    OBVIOUS
  <2>1. b[i] \in 1..N
    BY <1>2
  <2>2. CASE i <= t + 1
    <3>1. e[i] = b[i] /\ b[i] <= B1
      BY <1>8, <1>9, <2>2
    <3>2. B1 <= N - 1
      <4>1. CASE B2 > B1 + 1
        BY <1>2, <1>7, <4>1
      <4>2. CASE t = 0
        <5>1. B1 = 1
          BY <1>2, <1>5, <4>2 DEF B1
        <5> QED
          BY <1>2, <1>7, <5>1
      <4> QED
        BY <1>7, <4>1, <4>2
    <3> QED
      BY <1>2, <1>7, <2>1, <3>1, <3>2
  <2>3. CASE i > t + 1
    <3>1. e[i] = b[i] - 1 /\ b[i] > p
      BY <1>5, <1>8, <1>9, <2>3
    <3> QED
      BY <1>2, <1>5, <2>1, <3>1
  <2> QED
    BY <1>5, <2>2, <2>3
<1>11. e \in [1..K -> 1..(N - 1)] /\ e \in Seq(Nat)
  <2>1. e = [i \in 1..K |-> e[i]]
    BY DEF e
  <2>2. \A i \in 1..K : e[i] \in Nat
    BY <1>2, <1>10
  <2>3. e \in [1..K -> 1..(N - 1)]
    BY <1>10, <2>1
  <2>4. e \in [1..K -> Nat]
    BY <2>1, <2>2
  <2>5. K \in Nat
    BY <1>2
  <2>6. e \in Seq(Nat)
    BY <2>4, <2>5
  <2> QED
    BY <2>3, <2>6
<1>12. ASSUME NEW i \in 1..K, NEW j \in 1..K
       PROVE  (i <= j => e[i] <= e[j]) /\ (i < j /\ j >= 3 => e[i] < e[j])
  <2>1. b[i] \in Nat /\ b[j] \in Nat /\ (i <= j => b[i] <= b[j]) /\ (i < j /\ j >= 3 => b[i] < b[j])
    BY <1>2
  <2>2. e[i] = (IF i <= t + 1 THEN b[i] ELSE b[i] - 1) /\ e[j] = (IF j <= t + 1 THEN b[j] ELSE b[j] - 1)
    BY <1>9
  <2>3. CASE i <= t + 1 /\ j > t + 1
    <3>1. b[i] <= B1 /\ b[j] >= B2 /\ b[j] > p
      BY <1>8, <2>3
    <3>2. e[i] = b[i] /\ e[j] = b[j] - 1
      BY <1>5, <2>2, <2>3
    <3>3. e[i] <= e[j]
      BY <1>5, <1>7, <2>1, <3>1, <3>2
    <3>4. t # 0 => e[i] < e[j]
      BY <1>5, <1>7, <2>1, <3>1, <3>2
    <3>5. t = 0 /\ j >= 3 => e[i] < e[j]
      <4> SUFFICES ASSUME t = 0, j >= 3 PROVE e[i] < e[j]
        OBVIOUS
      <4>1. 2 \in 1..K /\ 2 < j
        BY <1>2
      <4>2. b[2] < b[j] /\ b[2] \in 1..N
        BY <1>2, <4>1
      <4>3. b[2] = B2
        BY <1>2, <4>1 DEF B2
      <4> QED
        BY <1>7, <2>1, <3>1, <3>2, <4>2, <4>3
    <3> QED
      BY <3>3, <3>4, <3>5
  <2>4. CASE ~(i <= t + 1 /\ j > t + 1)
    BY <1>5, <2>1, <2>2, <2>4
  <2> QED
    BY <2>3, <2>4
<1>13. e[1] = 1 /\ K # 0
  <2>1. K # 0 /\ 1 \in 1..K /\ 1 <= t + 1
    BY <1>2, <1>5
  <2> QED
    BY <1>2, <1>9, <2>1
<1>14. Rising(e, Len(s))
  <2>1. N - 1 \in Nat /\ N - 1 # 0
    BY <1>2, <1>7
  <2> QED
    BY <2>1, <1>2, <1>4, <1>9, <1>11, <1>12, <1>13 DEF Rising
<1>15. InOrder([acts |-> s, begins |-> e, fault |-> "none"])
  BY <1>4, <1>11, <1>14, InOrderIs
<1>16. Cut(c, t, p) = [acts |-> s, begins |-> e, fault |-> "none"]
  BY DEF Cut, s, e, b, K
<1> QED
  BY <1>4, <1>9, <1>15, <1>16 DEF N, K, b

LEMMA ShortenedIs ==
  ASSUME NEW c, InOrder(c), Len(c.acts) > 1, c.begins[Len(c.begins)] = Len(c.acts)
  PROVE  /\ InOrder(Shortened(c)) /\ Len(Shortened(c).acts) = Len(c.acts) - 1
         /\ Len(c.begins) >= 2
         /\ Len(Front(c.begins)) = Len(c.begins) - 1
         /\ \A i \in 1..Len(c.begins)-1 : Front(c.begins)[i] = c.begins[i] /\ c.begins[i] \in 1..Len(c.acts)-1
<1> DEFINE b == c.begins
           N == Len(c.acts)
           K == Len(b)
           s == RemoveAt(c.acts, N)
           e == Front(b)
<1>1. Rising(b, N)
  BY OrderRises
<1>2. /\ N \in Nat /\ K \in Nat /\ b \in [1..K -> 1..N] /\ (K = 0 <=> N = 0) /\ (K # 0 => b[1] = 1)
      /\ \A i, j \in 1..K : (i <= j => b[i] <= b[j]) /\ (i < j /\ j >= 3 => b[i] < b[j])
  BY <1>1 DEF Rising
<1>3. c.acts \in Seq(Action) /\ b \in Seq(Nat) /\ N > 1 /\ b[K] = N
  BY ContainerIs DEF InOrder
<1>4. s \in Seq(Action) /\ Len(s) = N - 1
  <2>1. N \in 1..Len(c.acts)
    BY <1>2, <1>3
  <2> HIDE DEF N
  <2>2. RemoveAt(c.acts, N) \in Seq(Action) /\ Len(RemoveAt(c.acts, N)) = Len(c.acts) - 1
    BY <1>3, <2>1, RemoveAtIs
  <2> QED
    BY <2>2 DEF N
<1>5. K >= 2
  BY <1>2, <1>3
<1>6. e \in Seq(Nat) /\ Len(e) = K - 1 /\ \A i \in 1..K-1 : e[i] = b[i]
  <2> DEFINE n == K - 1
  <2>1. n \in 0..Len(b) /\ e = SubSeq(b, 1, n)
    BY <1>2, <1>5 DEF Front
  <2> HIDE DEF n, b, e
  <2>2. e \in Seq(Nat) /\ Len(e) = n /\ \A i \in 1..n : e[i] = b[i]
    BY <1>3, <2>1, BeginIs
  <2> QED
    BY <2>2 DEF n
<1> HIDE DEF b, N, K, s, e
<1>7. \A i \in 1..K-1 : i \in 1..K /\ b[i] \in 1..N-1 /\ e[i] = b[i]
  <2> SUFFICES ASSUME NEW i \in 1..K-1 PROVE i \in 1..K /\ b[i] \in 1..N-1 /\ e[i] = b[i]
    OBVIOUS
  <2>1. i \in 1..K /\ K \in 1..K /\ i < K
    BY <1>2, <1>5
  <2>2. b[i] \in 1..N /\ (K >= 3 => b[i] < b[K])
    BY <1>2, <2>1
  <2>3. K = 2 => i = 1 /\ b[i] = 1
    BY <1>2, <2>1
  <2> QED
    BY <1>2, <1>3, <1>5, <1>6, <2>1, <2>2, <2>3
<1>8. e \in [1..K-1 -> 1..N-1]
  <2>1. e = [i \in 1..K-1 |-> e[i]]
    BY <1>2, <1>6
  <2>2. \A i \in 1..K-1 : e[i] \in 1..N-1
    BY <1>7
  <2> QED
    BY <2>1, <2>2
<1>9. \A i, j \in 1..K-1 : (i <= j => e[i] <= e[j]) /\ (i < j /\ j >= 3 => e[i] < e[j])
  <2> SUFFICES ASSUME NEW i \in 1..K-1, NEW j \in 1..K-1
               PROVE  (i <= j => e[i] <= e[j]) /\ (i < j /\ j >= 3 => e[i] < e[j])
    OBVIOUS
  <2>1. i \in 1..K /\ j \in 1..K /\ e[i] = b[i] /\ e[j] = b[j]
    BY <1>7
  <2> QED
    BY <1>2, <2>1
<1>10. e[1] = 1
  BY <1>2, <1>5, <1>7
<1>11. Rising(e, Len(s))
  <2>1. N - 1 \in Nat /\ K - 1 \in Nat /\ N - 1 # 0 /\ K - 1 # 0
    BY <1>2, <1>3, <1>5
  <2> QED
    BY <2>1, <1>4, <1>6, <1>8, <1>9, <1>10 DEF Rising
<1>12. InOrder([acts |-> s, begins |-> e, fault |-> "none"])
  BY <1>4, <1>6, <1>11, InOrderIs
<1>13. Shortened(c) = [acts |-> s, begins |-> e, fault |-> "none"]
  BY DEF Shortened, s, e, b, N
<1> QED
  BY <1>4, <1>5, <1>6, <1>7, <1>12, <1>13 DEF N, K, b, e

\* What follows p is of its turn unless its turn ends with it.
LEMMA NextAction ==
  ASSUME NEW c, InOrder(c), NEW p \in 1..Len(c.acts), p < Len(c.acts), NEW i \in 1..Len(c.begins),
         c.begins[i] = p, GetTurn(c, p + 1) = i - 1
  PROVE  GetTurn(c, p) = i - 1 /\ TurnSize(c, i - 1) > 1 /\ \A j \in 1..Len(c.begins) : j > i => c.begins[j] > p
<1> DEFINE N == Len(c.acts)
           K == Len(c.begins)
           t == i - 1
           q == p + 1
<1>1. N \in Nat /\ K \in Nat
  BY ContainerIs DEF InOrder
<1>2. q \in 1..N /\ t \in Nat /\ t < K /\ t + 1 = i /\ GetTurn(c, q) = t
  BY <1>1
<1> HIDE DEF q, t
<1>3. TurnBegin(c, t) <= q /\ q < TurnEnd(c, t)
  BY <1>2, TurnOfAction
<1>4. TurnBegin(c, t) = p /\ TurnBegin(c, t) \in 1..N+1 /\ TurnEnd(c, t) \in 1..N+1
  BY <1>2, TurnBegins
<1>5. TurnSize(c, t) > 1
  BY <1>1, <1>3, <1>4 DEF TurnSize, q
<1>6. GetTurn(c, p) = t
  <2>1. TurnBegin(c, t) <= p /\ p < TurnEnd(c, t)
    BY <1>1, <1>3, <1>4 DEF q
  <2> QED
    BY <1>2, <2>1, OneTurn
<1>7. ASSUME NEW j \in 1..K, j > i PROVE c.begins[j] > p
  <2> DEFINE u == j - 1
  <2>1. u \in Nat /\ u < K /\ u + 1 = j /\ t < u
    BY <1>1, <1>2, <1>7
  <2> HIDE DEF u
  <2>2. TurnEnd(c, t) <= TurnBegin(c, u)
    BY <1>2, <2>1, TurnsFollow
  <2>3. TurnBegin(c, u) = c.begins[j] /\ TurnBegin(c, u) \in 1..N+1
    BY <2>1, TurnBegins
  <2> QED
    BY <1>1, <1>3, <1>4, <2>2, <2>3 DEF q
<1> QED
  BY <1>5, <1>6, <1>7 DEF t

\* A begin that is behind p moves with its action.
After(b, p) == [j \in DOMAIN b |-> IF b[j] > p THEN b[j] - 1 ELSE b[j]]

LEMMA EraseOpens ==
  ASSUME NEW c, InOrder(c), NEW p,
         NEW found, found = {i \in DOMAIN c.begins : c.begins[i] = p},
         NEW nb, nb = IF found = {}              THEN c.begins
                      ELSE IF Len(c.acts) = 1    THEN <<>>
                      ELSE IF p = Len(c.acts)    THEN Front(c.begins)
                      ELSE [c.begins EXCEPT ![Min(found)] =
                              IF GetTurn(c, p + 1) = Min(found) - 1 THEN p + 1 ELSE TurnEnd(c, 0)]
  PROVE  Erase(c, p) =
           IF found # {} /\ p < Len(c.acts) /\ ~(GetTurn(c, p + 1) = Min(found) - 1) /\ Min(found) # 1
           THEN Fails(c, "assertion")
           ELSE IF p \in ToSet(nb) THEN Fails(c, "dangling")
           ELSE [acts |-> RemoveAt(c.acts, p), begins |-> After(nb, p), fault |-> "none"]
BY Zenon DEF Erase, After, InOrder

\* An action is taken out of its turn, and its turn with it if it is the last; or the container gives up.
LEMMA EraseIs ==
  ASSUME NEW c, InOrder(c), NEW p \in 1..Len(c.acts)
  PROVE  \/ \E why \in Faults \ {"none"} : Erase(c, p) = Fails(c, why)
         \/ Len(c.acts) = 1 /\ Erase(c, p) = Empty
         \/ Len(c.acts) > 1 /\ p = Len(c.acts) /\ c.begins[Len(c.begins)] = p /\ Erase(c, p) = Shortened(c)
         \/ /\ TurnSize(c, GetTurn(c, p)) > 1 \/ (GetTurn(c, p) = 0 /\ Len(c.acts) > 1)
            /\ Erase(c, p) = Cut(c, GetTurn(c, p), p)
<1> DEFINE b == c.begins
           N == Len(c.acts)
           K == Len(b)
           t == GetTurn(c, p)
           found == {i \in DOMAIN c.begins : c.begins[i] = p}
           m == Min(found)
           still == GetTurn(c, p + 1) = m - 1
           nb == IF found = {} THEN b ELSE IF N = 1 THEN <<>> ELSE IF p = N THEN Front(b)
                 ELSE [b EXCEPT ![m] = IF still THEN p + 1 ELSE TurnEnd(c, 0)]
           r == [acts |-> RemoveAt(c.acts, p), begins |-> After(nb, p), fault |-> "none"]
<1>1. Rising(b, N)
  BY OrderRises
<1>2. /\ N \in Nat /\ K \in Nat /\ b \in [1..K -> 1..N] /\ (K = 0 <=> N = 0) /\ (K # 0 => b[1] = 1)
      /\ \A i, j \in 1..K : (i <= j => b[i] <= b[j]) /\ (i < j /\ j >= 3 => b[i] < b[j])
  BY <1>1 DEF Rising
<1>3. c.acts \in Seq(Action) /\ b \in Seq(Nat) /\ DOMAIN b = 1..K
  BY ContainerIs DEF InOrder
<1>4. Erase(c, p) = IF found # {} /\ p < N /\ ~still /\ m # 1 THEN Fails(c, "assertion")
                    ELSE IF p \in ToSet(nb) THEN Fails(c, "dangling") ELSE r
  <2> DEFINE f == found
             g == nb
  <2>1. f = {i \in DOMAIN c.begins : c.begins[i] = p}
    OBVIOUS
  <2>2. g = IF f = {}              THEN c.begins
                      ELSE IF Len(c.acts) = 1    THEN <<>>
                      ELSE IF p = Len(c.acts)    THEN Front(c.begins)
                      ELSE [c.begins EXCEPT ![Min(f)] =
                              IF GetTurn(c, p + 1) = Min(f) - 1 THEN p + 1 ELSE TurnEnd(c, 0)]
    OBVIOUS
  <2> HIDE DEF f, g
  <2>3. Erase(c, p) =
           IF f # {} /\ p < Len(c.acts) /\ ~(GetTurn(c, p + 1) = Min(f) - 1) /\ Min(f) # 1
           THEN Fails(c, "assertion")
           ELSE IF p \in ToSet(g) THEN Fails(c, "dangling")
           ELSE [acts |-> RemoveAt(c.acts, p), begins |-> After(g, p), fault |-> "none"]
    BY <2>1, <2>2, EraseOpens, ZenonT(60)
  <2> QED
    BY <2>3 DEF f, g
<1>5. t \in 0..K-1 /\ t \in Nat /\ t < K /\ TurnBegin(c, t) <= p /\ p < TurnEnd(c, t) /\ p \in 1..N
      /\ TurnBegin(c, t) = b[t + 1] /\ t + 1 \in 1..K
      /\ (t + 1 < K => TurnEnd(c, t) = b[t + 2]) /\ (t + 1 >= K => TurnEnd(c, t) = N + 1)
      /\ TurnSize(c, t) = TurnEnd(c, t) - TurnBegin(c, t)
  <2>1. t \in 0..K-1 /\ TurnBegin(c, t) <= p /\ p < TurnEnd(c, t)
    BY TurnOfAction
  <2> HIDE DEF t
  <2>2. t \in Nat /\ t < K /\ t + 1 \in 1..K
    BY <1>2, <2>1
  <2>3. TurnBegin(c, t) = b[t + 1] /\ TurnEnd(c, t) = TurnBegin(c, t + 1)
    BY <2>2, TurnBegins
  <2> DEFINE u == t + 1
  <2>4. u \in Nat /\ u + 1 = t + 2
    BY <2>2
  <2> HIDE DEF u
  <2>5. (u < K => TurnBegin(c, u) = b[u + 1]) /\ (u >= K => TurnBegin(c, u) = N + 1)
    BY <2>4, TurnBegins
  <2>6. TurnEnd(c, t) = TurnBegin(c, u)
    BY <2>3 DEF u
  <2>7. TurnSize(c, t) = TurnEnd(c, t) - TurnBegin(c, t)
    BY DEF TurnSize
  <2>8. (u < K => TurnEnd(c, t) = b[t + 2]) /\ (u >= K => TurnEnd(c, t) = N + 1)
    BY <2>4, <2>5, <2>6
  <2> QED
    BY <2>1, <2>2, <2>3, <2>7, <2>8 DEF u
<1> HIDE DEF t
\* How the begins of a result compare with those of Cut.
<1>6. ASSUME NEW e, e \in [1..K -> Nat],
             \A j \in 1..K : e[j] = IF j <= t + 1 THEN b[j] ELSE b[j] - 1
      PROVE  [acts |-> RemoveAt(c.acts, p), begins |-> e, fault |-> "none"] = Cut(c, t, p)
  <2>1. e = [j \in 1..K |-> IF j <= t + 1 THEN b[j] ELSE b[j] - 1]
    BY <1>6
  <2> QED
    BY <2>1 DEF Cut
<1>7. \A j \in 1..K : (j <= t + 1 => b[j] <= b[t + 1]) /\ (j > t + 1 => b[j] > p) /\ b[j] \in 1..N
  <2> SUFFICES ASSUME NEW j \in 1..K PROVE (j <= t + 1 => b[j] <= b[t + 1]) /\ (j > t + 1 => b[j] > p) /\ b[j] \in 1..N
    OBVIOUS
  <2> DEFINE u == t + 1
             v == t + 2
  <2>1. u \in 1..K /\ (j <= u \/ j > u) /\ (j > u => v \in 1..K /\ v <= j /\ u < K)
    BY <1>2, <1>5
  <2>2. u < K => p < b[v]
    BY <1>5
  <2> HIDE DEF u, v
  <2>3. (j <= u => b[j] <= b[u]) /\ (j > u => b[v] <= b[j] /\ u < K /\ b[v] \in 1..N) /\ b[j] \in 1..N
    BY <1>2, <2>1
  <2>4. b[u] \in 1..N /\ p \in Nat /\ N \in Nat
    BY <1>2, <1>5, <2>1
  <2>5. j > u => b[j] > p
    BY <2>2, <2>3, <2>4
  <2> QED
    BY <2>3, <2>5 DEF u
<1>8. CASE found = {}
  <2>1. nb = b
    BY <1>8
  <2>2. p \notin ToSet(nb)
    BY <1>8, <2>1 DEF ToSet
  <2>3. Erase(c, p) = r
    BY <1>4, <1>8, <2>2, Zenon
  <2> DEFINE e == After(nb, p)
  <2>4. e \in [1..K -> Nat] /\ \A j \in 1..K : e[j] = IF j <= t + 1 THEN b[j] ELSE b[j] - 1
    <3>1. e = [j \in 1..K |-> IF b[j] > p THEN b[j] - 1 ELSE b[j]]
      BY <1>3, <2>1 DEF After
    <3> HIDE DEF e, found, nb, b, K, N
    <3>2. \A j \in 1..K : (IF b[j] > p THEN b[j] - 1 ELSE b[j]) = (IF j <= t + 1 THEN b[j] ELSE b[j] - 1)
                          /\ (IF b[j] > p THEN b[j] - 1 ELSE b[j]) \in Nat
      <4> SUFFICES ASSUME NEW j \in 1..K
                   PROVE  (IF b[j] > p THEN b[j] - 1 ELSE b[j]) = (IF j <= t + 1 THEN b[j] ELSE b[j] - 1)
                          /\ (IF b[j] > p THEN b[j] - 1 ELSE b[j]) \in Nat
        OBVIOUS
      <4>1. (j <= t + 1 => b[j] <= b[t + 1]) /\ (j > t + 1 => b[j] > p) /\ b[j] \in 1..N /\ b[t + 1] \in 1..N /\ b[t + 1] <= p
        BY <1>5, <1>7
      <4> QED
        BY <1>2, <1>5, <4>1
    <3> QED
      BY <3>1, <3>2
  <2> HIDE DEF e
  <2>5. [acts |-> RemoveAt(c.acts, p), begins |-> e, fault |-> "none"] = Cut(c, t, p)
    BY <2>4, <1>6
  <2>6. b[t + 1] < p
    <3>1. b[t + 1] # p
      BY <1>3, <1>5, <1>8
    <3> QED
      BY <1>2, <1>5, <3>1
  <2>7. TurnSize(c, t) > 1
    <3>1. b[t + 1] \in 1..N /\ TurnEnd(c, t) \in 1..N+1
      BY <1>5, <1>7, TurnBegins
    <3> QED
      BY <1>2, <1>5, <2>6, <3>1
  <2> QED
    BY <2>3, <2>5, <2>7 DEF t, e
<1>9. CASE found # {} /\ N = 1
  <2>1. nb = <<>> /\ p = 1 /\ ~(p < N)
    BY <1>5, <1>9
  <2>2. p \notin ToSet(nb)
    <3>1. DOMAIN nb = {}
      BY <2>1
    <3> HIDE DEF nb
    <3> QED
      BY <3>1 DEF ToSet
  <2>3. Erase(c, p) = r
    BY <1>4, <2>1, <2>2, Zenon
  <2>4. RemoveAt(c.acts, p) = <<>>
    <3>1. RemoveAt(c.acts, p) \in Seq(Action) /\ Len(RemoveAt(c.acts, p)) = N - 1
      BY <1>3, RemoveAtIs
    <3> QED
      BY <1>9, <3>1
  <2>5. After(nb, p) = <<>>
    BY <2>1 DEF After
  <2> QED
    BY <1>9, <2>3, <2>4, <2>5 DEF Empty
<1>10. CASE found # {} /\ N # 1
  <2>0. N > 1
    <3>1. N \in Nat /\ p \in 1..N /\ N # 1
      BY <1>2, <1>5, <1>10
    <3> HIDE DEF N
    <3>2. p \in Int /\ p >= 1 /\ p <= N
      BY <3>1
    <3> QED
      BY <3>1, <3>2
  <2>1. m \in 1..K /\ b[m] = p /\ \A j \in 1..K : b[j] = p => m <= j
    BY <1>10, FoundIs
  <2>2. CASE p = N
    <3>1. b[K] = N
      <4>1. K \in 1..K /\ m <= K
        BY <1>2, <2>1
      <4>2. b[m] <= b[K] /\ b[K] \in 1..N
        BY <1>2, <2>1, <4>1
      <4> QED
        BY <1>2, <2>1, <2>2, <4>2
    <3>2. /\ K >= 2 /\ Len(Front(b)) = K - 1
          /\ \A i \in 1..K-1 : Front(b)[i] = b[i] /\ b[i] \in 1..N-1
      BY <2>0, <3>1, ShortenedIs
    <3>3. Front(b) \in Seq(Nat)
      <4> DEFINE n == K - 1
      <4>1. n \in 0..Len(b) /\ Front(b) = SubSeq(b, 1, n)
        BY <1>2, <3>2 DEF Front
      <4> HIDE DEF n, b
      <4> QED
        BY <1>3, <4>1, BeginIs
    <3>4. nb = Front(b) /\ DOMAIN Front(b) = 1..K-1
      BY <1>10, <2>2, <3>2, <3>3
    <3>5. p \notin ToSet(nb)
      <4>1. \A i \in 1..K-1 : Front(b)[i] # p
        BY <1>2, <2>2, <3>2
      <4> QED
        BY <3>4, <4>1 DEF ToSet
    <3>6. Erase(c, p) = r
      <4>1. ~(p < N)
        BY <1>2, <2>2
      <4> QED
        BY <1>4, <3>5, <4>1, Zenon
    <3>7. After(nb, p) = Front(b)
      <4>1. After(nb, p) = [j \in 1..K-1 |-> IF Front(b)[j] > p THEN Front(b)[j] - 1 ELSE Front(b)[j]]
        BY <3>4 DEF After
      <4>2. \A j \in 1..K-1 : ~(Front(b)[j] > p)
        BY <1>2, <2>2, <3>2
      <4>3. Front(b) = [j \in 1..K-1 |-> Front(b)[j]]
        <5> DEFINE g == Front(b)
        <5>1. g \in Seq(Nat) /\ DOMAIN g = 1..K-1
          BY <3>3, <3>4
        <5> HIDE DEF g, K
        <5>2. g = [j \in DOMAIN g |-> g[j]]
          BY <5>1
        <5> QED
          BY <5>1, <5>2 DEF g
      <4> QED
        BY <4>1, <4>2, <4>3
    <3>8. r = Shortened(c)
      BY <2>2, <3>7 DEF Shortened
    <3> QED
      BY <2>0, <2>2, <3>1, <3>6, <3>8
  <2>3. CASE p # N /\ still
    <3>0. p < N
      BY <1>2, <1>5, <2>3
    <3>1. GetTurn(c, p) = m - 1 /\ TurnSize(c, m - 1) > 1 /\ \A j \in 1..K : j > m => b[j] > p
      <4> HIDE DEF m
      <4> QED
        BY <2>1, <2>3, <3>0, NextAction DEF m
    <3>2. t = m - 1 /\ t + 1 = m
      BY <1>5, <2>1, <3>1 DEF t
    <3> HIDE DEF m
    <3>3. nb = [b EXCEPT ![m] = p + 1]
      BY <1>10, <2>3 DEF m
    <3> HIDE DEF nb, found
    <3>4. DOMAIN nb = 1..K /\ nb[m] = p + 1 /\ \A j \in 1..K : j # m => nb[j] = b[j]
      BY <1>3, <2>1, <3>3
    <3>5. \A j \in 1..K : j # m => b[j] # p
      BY <1>2, <2>1, <3>1
    <3>6. p \notin ToSet(nb)
      <4>1. \A j \in 1..K : nb[j] # p
        BY <1>5, <3>4, <3>5
      <4> QED
        BY <3>4, <4>1 DEF ToSet
    <3>7. Erase(c, p) = r
      BY <1>4, <2>3, <3>6, Zenon
    <3> DEFINE e == After(nb, p)
    <3>8. e = [j \in 1..K |-> IF nb[j] > p THEN nb[j] - 1 ELSE nb[j]]
      BY <3>4 DEF After
    <3> HIDE DEF e, b, K, N
    <3>9. e \in [1..K -> Nat] /\ \A j \in 1..K : e[j] = IF j <= t + 1 THEN b[j] ELSE b[j] - 1
      <4>1. \A j \in 1..K : (IF nb[j] > p THEN nb[j] - 1 ELSE nb[j]) = (IF j <= t + 1 THEN b[j] ELSE b[j] - 1)
                            /\ (IF nb[j] > p THEN nb[j] - 1 ELSE nb[j]) \in Nat
        <5> SUFFICES ASSUME NEW j \in 1..K
                     PROVE  (IF nb[j] > p THEN nb[j] - 1 ELSE nb[j]) = (IF j <= t + 1 THEN b[j] ELSE b[j] - 1)
                            /\ (IF nb[j] > p THEN nb[j] - 1 ELSE nb[j]) \in Nat
          OBVIOUS
        <5>1. (j <= t + 1 => b[j] <= b[t + 1]) /\ (j > t + 1 => b[j] > p) /\ b[j] \in 1..N /\ b[t + 1] = p
          BY <1>5, <1>7, <2>1, <3>2
        <5>2. CASE j = m
          <6>1. nb[j] = p + 1 /\ b[j] = p /\ j <= t + 1 /\ p \in Nat
            BY <1>5, <2>1, <3>2, <3>4, <5>2
          <6> QED
            BY <6>1
        <5>3. CASE j # m
          <6>1. nb[j] = b[j] /\ b[j] # p /\ p \in Nat /\ t \in Nat /\ j \in Nat /\ b[j] \in Nat
            BY <1>5, <3>4, <3>5, <5>1, <5>3
          <6> QED
            BY <5>1, <6>1
        <5> QED
          BY <5>2, <5>3
      <4> QED
        BY <3>8, <4>1
    <3>10. r = Cut(c, t, p)
      BY <3>9, <1>6 DEF e, K
    <3> QED
      BY <3>1, <3>2, <3>7, <3>10 DEF t
  <2>4. CASE p # N /\ ~still /\ m # 1
    <3>1. p < N
      BY <1>2, <1>5, <2>4
    <3>2. Erase(c, p) = Fails(c, "assertion")
      BY <1>4, <1>10, <2>4, <3>1, Zenon
    <3>3. "assertion" \in Faults \ {"none"}
      BY DEF Faults
    <3> QED
      BY <3>2, <3>3
  <2>5. CASE p # N /\ ~still /\ m = 1
    <3>0. p < N /\ p = 1 /\ p + 1 = 2
      <4>1. p = b[1] /\ b[1] = 1
        <5>1. K # 0
          BY <1>2, <1>5
        <5> QED
          BY <1>2, <2>1, <2>5, <5>1
      <4> QED
        BY <2>0, <4>1
    <3> DEFINE E0 == TurnEnd(c, 0)
    <3>1. GetTurn(c, 2) # 0
      BY <2>5, <3>0
    <3>2. ~(2 < E0)
      <4>1. 2 \in 1..N /\ TurnBegin(c, 0) = 1
        BY <1>2, <3>0, TurnBegins
      <4> QED
        BY <3>1, <4>1, OneTurn
    <3>3. E0 \in 1..N+1 /\ K >= 2 /\ E0 = b[2]
      <4>1. E0 \in 1..N+1 /\ E0 = TurnBegin(c, 1) /\ TurnBegin(c, 0) = 1
        BY TurnBegins
      <4>2. (1 < K => TurnBegin(c, 1) = b[2]) /\ (1 >= K => TurnBegin(c, 1) = N + 1)
        <5> DEFINE h == 1
        <5>1. h \in Nat /\ h + 1 = 2
          OBVIOUS
        <5> HIDE DEF h
        <5>2. (h < K => TurnBegin(c, h) = b[h + 1]) /\ (h >= K => TurnBegin(c, h) = N + 1)
          BY <5>1, TurnBegins
        <5> QED
          BY <5>1, <5>2 DEF h
      <4> QED
        BY <1>2, <3>0, <3>2, <4>1, <4>2
    <3> HIDE DEF E0
    <3>4. E0 = 1 \/ E0 = 2
      BY <1>2, <3>2, <3>3
    <3>5. nb = [b EXCEPT ![1] = E0]
      BY <1>10, <2>5 DEF E0
    <3>6. Erase(c, p) = IF p \in ToSet(nb) THEN Fails(c, "dangling") ELSE r
      BY <1>4, <2>5, Zenon
    <3> HIDE DEF m, nb, found
    <3>7. DOMAIN nb = 1..K /\ nb[1] = E0 /\ \A j \in 1..K : j # 1 => nb[j] = b[j]
      BY <1>2, <1>3, <3>3, <3>5
    <3>8. CASE E0 = 1
      <4>1. 1 \in DOMAIN nb /\ nb[1] = p
        BY <1>2, <3>0, <3>3, <3>7, <3>8
      <4>2. p \in ToSet(nb)
        BY <4>1 DEF ToSet
      <4>3. Erase(c, p) = Fails(c, "dangling")
        BY <3>6, <4>2, Zenon
      <4>4. "dangling" \in Faults \ {"none"}
        BY DEF Faults
      <4> QED
        BY <4>3, <4>4
    <3>9. CASE E0 = 2
      <4>1. t = 0
        <5>1. TurnBegin(c, 0) = 1
          BY TurnBegins
        <5>2. TurnBegin(c, 0) <= p /\ p < TurnEnd(c, 0)
          BY <3>0, <3>9, <5>1 DEF E0
        <5> QED
          BY <5>2, OneTurn DEF t
      <4>2. \A j \in 1..K : j # 1 => b[j] > 1
        BY <1>7, <1>2, <3>0, <4>1
      <4>3. p \notin ToSet(nb)
        <5>1. \A j \in 1..K : nb[j] # 1
          BY <3>7, <3>9, <4>2, <1>7
        <5> QED
          BY <3>0, <3>7, <5>1 DEF ToSet
      <4>4. Erase(c, p) = r
        BY <3>6, <4>3, Zenon
      <4> DEFINE e == After(nb, p)
      <4>5. e = [j \in 1..K |-> IF nb[j] > p THEN nb[j] - 1 ELSE nb[j]]
        BY <3>7 DEF After
      <4> HIDE DEF e, b, K, N
      <4>6. e \in [1..K -> Nat] /\ \A j \in 1..K : e[j] = IF j <= t + 1 THEN b[j] ELSE b[j] - 1
        <5>1. \A j \in 1..K : (IF nb[j] > p THEN nb[j] - 1 ELSE nb[j]) = (IF j <= t + 1 THEN b[j] ELSE b[j] - 1)
                              /\ (IF nb[j] > p THEN nb[j] - 1 ELSE nb[j]) \in Nat
          <6> SUFFICES ASSUME NEW j \in 1..K
                       PROVE  (IF nb[j] > p THEN nb[j] - 1 ELSE nb[j]) = (IF j <= t + 1 THEN b[j] ELSE b[j] - 1)
                              /\ (IF nb[j] > p THEN nb[j] - 1 ELSE nb[j]) \in Nat
            OBVIOUS
          <6>1. b[j] \in 1..N /\ (j = 1 => b[j] = 1 /\ nb[j] = 2) /\ (j # 1 => nb[j] = b[j] /\ b[j] > 1)
            BY <1>2, <1>7, <3>3, <3>7, <3>9, <4>2
          <6> QED
            BY <1>2, <3>0, <4>1, <6>1
        <5> QED
          BY <4>5, <5>1
      <4>7. r = Cut(c, t, p)
        BY <4>6, <1>6 DEF e, K
      <4> QED
        BY <2>0, <4>1, <4>4, <4>7 DEF t, N
    <3> QED
      BY <3>4, <3>8, <3>9
  <2> QED
    BY <2>2, <2>3, <2>4, <2>5
<1> QED
  BY <1>8, <1>9, <1>10

LEMMA EmptyIs == InOrder(Empty) /\ Empty \in Lists /\ Len(Empty.acts) = 0
<1>1. InOrder(Empty)
  BY DEF InOrder, TurnsInOrder, Empty, Containers, Faults
<1> QED
  BY <1>1, InOrderList DEF Empty

LEMMA EraseKeeps ==
  ASSUME NEW c, InOrder(c), NEW p \in 1..Len(c.acts)
  PROVE  /\ Erase(c, p) \in Lists
         /\ Erase(c, p).fault = "none" => Len(Erase(c, p).acts) = Len(c.acts) - 1
<1>1. CASE \E why \in Faults \ {"none"} : Erase(c, p) = Fails(c, why)
  <2>1. PICK why \in Faults \ {"none"} : Erase(c, p) = Fails(c, why)
    BY <1>1
  <2> QED
    BY <2>1, FailsIs
<1>2. CASE Len(c.acts) = 1 /\ Erase(c, p) = Empty
  BY <1>2, EmptyIs
<1>3. CASE Len(c.acts) > 1 /\ p = Len(c.acts) /\ c.begins[Len(c.begins)] = p /\ Erase(c, p) = Shortened(c)
  <2>1. InOrder(Shortened(c)) /\ Len(Shortened(c).acts) = Len(c.acts) - 1
    BY <1>3, ShortenedIs
  <2> QED
    BY <1>3, <2>1, InOrderList
<1>4. CASE /\ TurnSize(c, GetTurn(c, p)) > 1 \/ (GetTurn(c, p) = 0 /\ Len(c.acts) > 1)
           /\ Erase(c, p) = Cut(c, GetTurn(c, p), p)
  <2> DEFINE t == GetTurn(c, p)
  <2>1. t \in 0..Len(c.begins)-1 /\ TurnBegin(c, t) <= p /\ p < TurnEnd(c, t)
        /\ (TurnSize(c, t) > 1 \/ (t = 0 /\ Len(c.acts) > 1)) /\ Erase(c, p) = Cut(c, t, p)
    BY <1>4, TurnOfAction
  <2> HIDE DEF t
  <2>2. InOrder(Cut(c, t, p)) /\ Len(Cut(c, t, p).acts) = Len(c.acts) - 1
    BY <2>1, CutIs
  <2> QED
    BY <2>1, <2>2, InOrderList
<1> QED
  BY <1>1, <1>2, <1>3, <1>4, EraseIs

\* While a later turn is planned, erasing an action of this turn moves its begin, or the container gives up.
LEMMA EraseEarly ==
  ASSUME NEW c, InOrder(c), NEW p \in 1..Len(c.acts), Len(c.begins) >= 2, p < c.begins[2]
  PROVE  \/ Erase(c, p).fault # "none" /\ Erase(c, p) \in Lists
         \/ InOrder(Erase(c, p)) /\ Len(Erase(c, p).begins) = Len(c.begins) /\ Erase(c, p).begins[2] = c.begins[2] - 1
<1> DEFINE b == c.begins
           N == Len(c.acts)
           K == Len(b)
<1>1. Rising(b, N)
  BY OrderRises
<1>2. N \in Nat /\ K \in Nat /\ b[2] \in 1..N
  BY <1>1 DEF Rising
<1>3. N > 1 /\ p # N /\ 2 \in 1..K /\ 0 \in 0..K-1
  BY <1>2
<1>4. TurnEnd(c, 0) = b[2] /\ TurnBegin(c, 0) = 1
  <2> DEFINE h == 1
  <2>1. h \in Nat /\ h + 1 = 2 /\ h < K
    BY <1>2
  <2>2. TurnEnd(c, 0) = TurnBegin(c, h) /\ TurnBegin(c, 0) = 1
    BY TurnBegins
  <2> HIDE DEF h
  <2>3. TurnBegin(c, h) = b[h + 1]
    BY <2>1, TurnBegins
  <2> QED
    BY <2>1, <2>2, <2>3
<1>5. GetTurn(c, p) = 0
  <2>1. TurnBegin(c, 0) <= p /\ p < TurnEnd(c, 0)
    BY <1>4
  <2> QED
    BY <2>1, OneTurn
<1>6. CASE \E why \in Faults \ {"none"} : Erase(c, p) = Fails(c, why)
  <2>1. PICK why \in Faults \ {"none"} : Erase(c, p) = Fails(c, why)
    BY <1>6
  <2> QED
    BY <2>1, FailsIs
<1>7. CASE Erase(c, p) = Cut(c, GetTurn(c, p), p)
  <2>1. InOrder(Cut(c, 0, p)) /\ Len(Cut(c, 0, p).begins) = K
        /\ \A i \in 1..K : Cut(c, 0, p).begins[i] = IF i <= 0 + 1 THEN b[i] ELSE b[i] - 1
    BY <1>3, <1>4, CutIs
  <2>2. Cut(c, 0, p).begins[2] = b[2] - 1
    BY <1>3, <2>1
  <2> QED
    BY <1>5, <1>7, <2>1, <2>2
<1>8. Len(c.acts) # 1 /\ p # Len(c.acts)
  <2>1. N # 1 /\ p # N
    <3> HIDE DEF N
    <3> QED
      BY <1>2, <1>3
  <2> QED
    BY <2>1
<1> HIDE DEF b, N, K
<1>9. (\E why \in Faults \ {"none"} : Erase(c, p) = Fails(c, why)) \/ Erase(c, p) = Cut(c, GetTurn(c, p), p)
  BY <1>8, EraseIs
<1> QED
  BY <1>6, <1>7, <1>9

\* Other actions in the same places leave the turns as they are.
LEMMA OtherActions ==
  ASSUME NEW c, InOrder(c), NEW s \in Seq(Action), Len(s) = Len(c.acts)
  PROVE  InOrder([acts |-> s, begins |-> c.begins, fault |-> "none"])
<1>1. Rising(c.begins, Len(s)) /\ c.begins \in Seq(Nat)
  BY OrderRises, ContainerIs DEF InOrder
<1> QED
  BY <1>1, InOrderIs

\* replace
LEMMA ReplacedIs ==
  ASSUME NEW c, InOrder(c), NEW p \in 1..Len(c.acts), NEW a \in Action
  PROVE  InOrder([c EXCEPT !.acts[p] = a]) /\ Len([c EXCEPT !.acts[p] = a].acts) = Len(c.acts)
<1> DEFINE s == [c.acts EXCEPT ![p] = a]
<1>1. c \in Containers /\ c.acts \in Seq(Action)
  BY ContainerIs DEF InOrder
<1>2. s \in Seq(Action) /\ Len(s) = Len(c.acts)
  BY <1>1
<1>3. [c EXCEPT !.acts[p] = a] = [c EXCEPT !.acts = s]
  BY Zenon
<1> HIDE DEF s
<1>4. [c EXCEPT !.acts = s] = [acts |-> s, begins |-> c.begins, fault |-> "none"]
  BY <1>1, SetActs DEF InOrder
<1>5. InOrder([acts |-> s, begins |-> c.begins, fault |-> "none"])
  BY <1>2, OtherActions
<1> QED
  BY <1>2, <1>3, <1>4, <1>5

LEMMA SwappedIs ==
  ASSUME NEW c, InOrder(c), NEW p \in 2..Len(c.acts)
  PROVE  InOrder(Swapped(c, p)) /\ Len(Swapped(c, p).acts) = Len(c.acts)
<1> DEFINE s1 == [c.acts EXCEPT ![p] = c.acts[p - 1]]
           s == [s1 EXCEPT ![p - 1] = c.acts[p]]
<1>1. c \in Containers /\ c.acts \in Seq(Action) /\ Len(c.acts) \in Nat /\ p \in 1..Len(c.acts) /\ p - 1 \in 1..Len(c.acts)
  BY ContainerIs DEF InOrder
<1>2. c.acts[p - 1] \in Action /\ c.acts[p] \in Action
  BY <1>1
<1>3. s1 \in Seq(Action) /\ Len(s1) = Len(c.acts)
  BY <1>1, <1>2
<1>4. s \in Seq(Action) /\ Len(s) = Len(c.acts)
  <2> HIDE DEF s1
  <2> QED
    BY <1>1, <1>2, <1>3
<1>5. Swapped(c, p) = [c EXCEPT !.acts = s]
  <2>1. Swapped(c, p) = [c EXCEPT !.acts = [[c.acts EXCEPT ![p] = c.acts[p - 1]] EXCEPT ![p - 1] = c.acts[p]]]
    BY <1>1, Zenon DEF Swapped, Containers
  <2> QED
    BY <2>1, Zenon
<1> HIDE DEF s
<1>6. [c EXCEPT !.acts = s] = [acts |-> s, begins |-> c.begins, fault |-> "none"]
  BY <1>1, SetActs DEF InOrder
<1>7. InOrder([acts |-> s, begins |-> c.begins, fault |-> "none"])
  BY <1>4, OtherActions
<1> QED
  BY <1>4, <1>5, <1>6, <1>7

LEMMA BumpedIs ==
  ASSUME NEW c, InOrder(c), NEW p \in 2..Len(c.acts), NEW dead
  PROVE  Bumped(c, p, dead) \in Lists /\ Len(Bumped(c, p, dead).acts) = Len(c.acts)
<1>1. InOrder(Swapped(c, p)) /\ Len(Swapped(c, p).acts) = Len(c.acts)
  BY SwappedIs
<1>2. "null" \in Faults \ {"none"}
  BY DEF Faults
<1>3. Bumped(c, p, dead) = Fails(c, "null") \/ Bumped(c, p, dead) = Swapped(c, p)
  BY DEF Bumped
<1> QED
  BY <1>1, <1>2, <1>3, FailsIs, InOrderList

\* turn_shift: the turn that is over has no actions left.
LEMMA TurnShiftIs ==
  ASSUME NEW c, InOrder(c), Len(c.begins) >= 2, c.begins[2] = 1
  PROVE  InOrder(TurnShift(c))
<1> DEFINE b == c.begins
           N == Len(c.acts)
           K == Len(b)
           e == Tail(b)
<1>1. Rising(b, N)
  BY OrderRises
<1>2. /\ N \in Nat /\ K \in Nat /\ b \in [1..K -> 1..N] /\ (K = 0 <=> N = 0) /\ (K # 0 => b[1] = 1)
      /\ \A i, j \in 1..K : (i <= j => b[i] <= b[j]) /\ (i < j /\ j >= 3 => b[i] < b[j])
  BY <1>1 DEF Rising
<1>3. c \in Containers /\ c.acts \in Seq(Action) /\ b \in Seq(Nat)
  BY ContainerIs DEF InOrder
<1>4. TurnSize(c, 0) = 0
  <2> DEFINE h == 1
  <2>1. h \in Nat /\ h + 1 = 2 /\ h < K
    BY <1>2
  <2>2. TurnEnd(c, 0) = TurnBegin(c, h) /\ TurnBegin(c, 0) = 1
    BY TurnBegins
  <2> HIDE DEF h
  <2>3. TurnBegin(c, h) = b[h + 1]
    BY <2>1, TurnBegins
  <2> QED
    BY <2>1, <2>2, <2>3 DEF TurnSize
<1>5. TurnShift(c) = [acts |-> c.acts, begins |-> e, fault |-> "none"]
  <2>1. TurnShift(c) = [c EXCEPT !.begins = Tail(c.begins)]
    BY <1>4 DEF TurnShift
  <2> DEFINE x == Tail(c.begins)
  <2> HIDE DEF x
  <2>2. [c EXCEPT !.begins = x] = [acts |-> c.acts, begins |-> x, fault |-> "none"]
    BY <1>3, SetBegins DEF InOrder
  <2> QED
    BY <2>1, <2>2 DEF x
<1>6. e \in Seq(Nat) /\ Len(e) = K - 1 /\ \A i \in 1..K-1 : e[i] = b[i + 1]
  BY <1>2, <1>3
<1>7. b[2] = 1
  OBVIOUS
<1> HIDE DEF b, N, K, e
<1>8. e \in [1..K-1 -> 1..N]
  <2>1. e = [i \in 1..K-1 |-> e[i]]
    BY <1>2, <1>6
  <2>2. \A i \in 1..K-1 : e[i] \in 1..N
    BY <1>2, <1>6
  <2> QED
    BY <2>1, <2>2
<1>9. \A i, j \in 1..K-1 : (i <= j => e[i] <= e[j]) /\ (i < j /\ j >= 3 => e[i] < e[j])
  <2> SUFFICES ASSUME NEW i \in 1..K-1, NEW j \in 1..K-1
               PROVE  (i <= j => e[i] <= e[j]) /\ (i < j /\ j >= 3 => e[i] < e[j])
    OBVIOUS
  <2> DEFINE u == i + 1
             v == j + 1
  <2>1. u \in 1..K /\ v \in 1..K /\ (i <= j => u <= v) /\ (i < j /\ j >= 3 => u < v /\ v >= 3)
    BY <1>2
  <2>2. e[i] = b[u] /\ e[j] = b[v]
    BY <1>6
  <2> HIDE DEF u, v
  <2> QED
    BY <1>2, <2>1, <2>2
<1>10. Rising(e, Len(c.acts))
  <2>1. K - 1 \in Nat /\ K - 1 # 0 /\ N # 0 /\ e[1] = 1 /\ K >= 2
    <3>1. K >= 2
      BY DEF K, b
    <3>2. 1 \in 1..K-1
      BY <1>2, <3>1
    <3>3. e[1] = b[1 + 1]
      BY <1>6, <3>2
    <3> QED
      BY <1>2, <1>7, <3>1, <3>3
  <2> QED
    BY <2>1, <1>2, <1>6, <1>8, <1>9 DEF Rising, N
<1>11. InOrder([acts |-> c.acts, begins |-> e, fault |-> "none"])
  BY <1>3, <1>6, <1>10, InOrderIs
<1> QED
  BY <1>5, <1>11

-----------------------------------------------------------------------------
(* What is done for one after another (FoldLeft): its values, one after each step. *)

LEMMA Numbers ==
  ASSUME NEW n \in Nat, n >= 1
  PROVE  /\ Max(1..n) = n /\ (1..n) \ {n} = 1..(n - 1) /\ 1..n # {}
         /\ \A s \in SUBSET (1..n) : n \in s => Max(s) = n /\ s \ {n} \in SUBSET (1..(n - 1))
         /\ \A s \in SUBSET (1..n) : n \notin s => s \in SUBSET (1..(n - 1))
         /\ \A s \in SUBSET (1..n) : s # {} => Max(s) \in s
<1>1. \A s \in SUBSET (1..n) : s # {} => Max(s) \in s /\ \A y \in s : y <= Max(s)
  BY MaxOfNumbers
<1>2. ASSUME NEW s \in SUBSET (1..n), n \in s PROVE Max(s) = n /\ s \ {n} \in SUBSET (1..(n - 1))
  <2>1. Max(s) \in s /\ n <= Max(s)
    BY <1>1, <1>2
  <2> DEFINE m == Max(s)
  <2>2. m \in 1..n /\ n <= m
    BY <2>1
  <2> HIDE DEF m
  <2>3. m = n
    BY <2>2
  <2> QED
    BY <1>2, <2>3 DEF m
<1>3. (1..n) \ {n} = 1..(n - 1) /\ n \in 1..n
  OBVIOUS
<1>4. Max(1..n) = n
  BY <1>2, <1>3
<1> QED
  BY <1>1, <1>2, <1>3, <1>4

Erased(d, p) == IF d.fault = "none" THEN Erase(d, p) ELSE d

\* The erasures of this turn's actions, from the last to the first.
ErasePath(q, c, N) ==
  /\ q[0] = c
  /\ \A n \in 1..N : q[n] = Erased(q[n - 1], TurnEnd(c, 0) - n)
  /\ Begun(c) = IF q[N].fault = "none" THEN TurnShift(q[N]) ELSE q[N]

LEMMA ErasesFollow ==
  ASSUME NEW c, NEW N \in Nat, N = TurnSize(c, 0)
  PROVE  \E q : ErasePath(q, c, N)
<1> DEFINE Ps == [i \in 1..TurnSize(c, 0) |-> TurnEnd(c, 0) - i]
           Def(it, n) == [s \in SUBSET (1..n) |-> IF s = {} THEN c ELSE Erased(it[s \ {Max(s)}], Ps[Max(s)])]
           G == {n \in 0..N : \E it : it = Def(it, n)}
<1>1. 0 \in G
  <2> DEFINE it == [s \in {{}} |-> c]
  <2>1. SUBSET (1..0) = {{}}
    OBVIOUS
  <2>2. it = Def(it, 0)
    BY <2>1
  <2> HIDE DEF it, Def
  <2> QED
    BY <2>2
<1>2. ASSUME NEW n \in 0..N, n # 0, n - 1 \in G PROVE n \in G
  <2>1. PICK f : f = Def(f, n - 1)
    BY <1>2
  <2> DEFINE g == [s \in SUBSET (1..n) |-> IF n \in s THEN Erased(f[s \ {n}], Ps[n]) ELSE f[s]]
  <2>2. n \in Nat /\ n >= 1
    BY <1>2
  <2>3. ASSUME NEW s \in SUBSET (1..n)
        PROVE  g[s] = IF s = {} THEN c ELSE Erased(g[s \ {Max(s)}], Ps[Max(s)])
    <3> HIDE DEF Ps
    <3>1. CASE n \in s
      <4>1. Max(s) = n /\ s \ {n} \in SUBSET (1..(n - 1)) /\ s \ {n} \in SUBSET (1..n) /\ s # {}
        BY <2>2, <3>1, Numbers
      <4>2. g[s] = Erased(f[s \ {n}], Ps[n]) /\ g[s \ {n}] = f[s \ {n}]
        BY <3>1, <4>1
      <4> QED
        BY <4>1, <4>2
    <3>2. CASE n \notin s /\ s # {}
      <4>1. Max(s) \in s /\ s \in SUBSET (1..(n - 1)) /\ s \ {Max(s)} \in SUBSET (1..n) /\ n \notin s \ {Max(s)}
        BY <2>2, <3>2, Numbers
      <4>2. g[s] = f[s] /\ g[s \ {Max(s)}] = f[s \ {Max(s)}]
        BY <3>2, <4>1
      <4>3. f[s] = Erased(f[s \ {Max(s)}], Ps[Max(s)])
        BY <2>1, <3>2, <4>1
      <4> QED
        BY <3>2, <4>2, <4>3
    <3>3. CASE s = {}
      <4>1. {} \in SUBSET (1..(n - 1))
        OBVIOUS
      <4>2. f[{}] = c
        BY <2>1, <4>1
      <4> QED
        BY <3>3, <4>2
    <3> QED
      BY <3>1, <3>2, <3>3
  <2>4. g = [s \in SUBSET (1..n) |-> g[s]]
    OBVIOUS
  <2>5. g = Def(g, n)
    <3> HIDE DEF g, Ps
    <3> QED
      BY <2>3, <2>4
  <2> HIDE DEF g, Def
  <2> QED
    BY <2>5
<1>3. \E it : it = Def(it, N)
  <2>1. \A i \in 0..N : i # 0 /\ i - 1 \in G => i \in G
    BY <1>2
  <2>2. N \in G
    <3> HIDE DEF G
    <3>1. 0 \in Nat /\ N \in Nat
      OBVIOUS
    <3>2. \A i \in 0..N : i \in G
      BY <1>1, <2>1, <3>1, UpFrom, Zenon
    <3> QED
      BY <3>2
  <2> QED
    BY <2>2
<1> DEFINE C == CHOOSE it : it = Def(it, N)
<1>4. C = Def(C, N)
  <2> HIDE DEF Def
  <2> QED
    BY <1>3
<1>5. Begun(c) = IF C[1..N].fault = "none" THEN TurnShift(C[1..N]) ELSE C[1..N]
  <2>1. DOMAIN Ps = 1..N
    BY Zenon
  <2> DEFINE C2 == CHOOSE it : it = [s \in SUBSET DOMAIN Ps |-> IF s = {} THEN c ELSE Erased(it[s \ {Max(s)}], Ps[Max(s)])]
  <2>2. Begun(c) = IF C2[DOMAIN Ps].fault = "none" THEN TurnShift(C2[DOMAIN Ps]) ELSE C2[DOMAIN Ps]
    BY DEF Begun, FoldLeft, MapThenFoldSet, Erased
  <2>3. C2 = C
    BY <2>1
  <2> HIDE DEF C2, C, Ps
  <2> QED
    BY <2>1, <2>2, <2>3
<1> HIDE DEF C
<1> DEFINE q == [n \in 0..N |-> C[1..n]]
<1>6. q[0] = c
  <2>1. 1..0 = {} /\ {} \in SUBSET (1..N)
    OBVIOUS
  <2>2. C[{}] = c
    BY <1>4, <2>1
  <2> QED
    BY <2>1, <2>2
<1>7. ASSUME NEW n \in 1..N PROVE q[n] = Erased(q[n - 1], TurnEnd(c, 0) - n)
  <2>1. n \in Nat /\ n >= 1 /\ n \in 0..N /\ n - 1 \in 0..N /\ 1..n \in SUBSET (1..N)
    OBVIOUS
  <2>2. Max(1..n) = n /\ (1..n) \ {n} = 1..(n - 1) /\ 1..n # {}
    BY <2>1, Numbers
  <2>3. Ps[n] = TurnEnd(c, 0) - n
    OBVIOUS
  <2> DEFINE s == 1..n
  <2> HIDE DEF Ps, s
  <2>4. C[s] = Erased(C[s \ {Max(s)}], Ps[Max(s)])
    BY <1>4, <2>1, <2>2 DEF s
  <2> QED
    BY <2>1, <2>2, <2>3, <2>4 DEF s
<1>8. q[N] = C[1..N]
  OBVIOUS
<1> HIDE DEF q
<1> QED
  BY <1>5, <1>6, <1>7, <1>8 DEF ErasePath

Pushed(c, dead, d, p) ==
  IF d.fault = "none" /\ Actor(d.acts[p]) \in LazyUnits(c, dead)
  THEN Erase(SafeInsert(d, GetTurn(d, p) + 1, 0, d.acts[p]), p)
  ELSE d

\* The plans pushed back, from the last to the first.
PushPath(q, c, dead, N) ==
  /\ q[0] = c
  /\ \A n \in 1..N : q[n] = Pushed(c, dead, q[n - 1], (End(c) - n))
  /\ PushedBack(c, dead) = q[N]

LEMMA PushesFollow ==
  ASSUME NEW c, NEW dead, NEW N \in Nat, N = Len(c.acts)
  PROVE  \E q : PushPath(q, c, dead, N)
<1> DEFINE Ps == [i \in 1..Len(c.acts) |-> End(c) - i]
           Def(it, n) == [s \in SUBSET (1..n) |-> IF s = {} THEN c ELSE Pushed(c, dead, it[s \ {Max(s)}], Ps[Max(s)])]
           G == {n \in 0..N : \E it : it = Def(it, n)}
<1>1. 0 \in G
  <2> DEFINE it == [s \in {{}} |-> c]
  <2>1. SUBSET (1..0) = {{}}
    OBVIOUS
  <2>2. it = Def(it, 0)
    BY <2>1
  <2> HIDE DEF it, Def
  <2> QED
    BY <2>2
<1>2. ASSUME NEW n \in 0..N, n # 0, n - 1 \in G PROVE n \in G
  <2>1. PICK f : f = Def(f, n - 1)
    BY <1>2
  <2> DEFINE g == [s \in SUBSET (1..n) |-> IF n \in s THEN Pushed(c, dead, f[s \ {n}], Ps[n]) ELSE f[s]]
  <2>2. n \in Nat /\ n >= 1
    BY <1>2
  <2>3. ASSUME NEW s \in SUBSET (1..n)
        PROVE  g[s] = IF s = {} THEN c ELSE Pushed(c, dead, g[s \ {Max(s)}], Ps[Max(s)])
    <3> HIDE DEF Ps
    <3>1. CASE n \in s
      <4>1. Max(s) = n /\ s \ {n} \in SUBSET (1..(n - 1)) /\ s \ {n} \in SUBSET (1..n) /\ s # {}
        BY <2>2, <3>1, Numbers
      <4>2. g[s] = Pushed(c, dead, f[s \ {n}], Ps[n]) /\ g[s \ {n}] = f[s \ {n}]
        BY <3>1, <4>1
      <4> QED
        BY <4>1, <4>2
    <3>2. CASE n \notin s /\ s # {}
      <4>1. Max(s) \in s /\ s \in SUBSET (1..(n - 1)) /\ s \ {Max(s)} \in SUBSET (1..n) /\ n \notin s \ {Max(s)}
        BY <2>2, <3>2, Numbers
      <4>2. g[s] = f[s] /\ g[s \ {Max(s)}] = f[s \ {Max(s)}]
        BY <3>2, <4>1
      <4>3. f[s] = Pushed(c, dead, f[s \ {Max(s)}], Ps[Max(s)])
        BY <2>1, <3>2, <4>1
      <4> QED
        BY <3>2, <4>2, <4>3
    <3>3. CASE s = {}
      <4>1. {} \in SUBSET (1..(n - 1))
        OBVIOUS
      <4>2. f[{}] = c
        BY <2>1, <4>1
      <4> QED
        BY <3>3, <4>2
    <3> QED
      BY <3>1, <3>2, <3>3
  <2>4. g = [s \in SUBSET (1..n) |-> g[s]]
    OBVIOUS
  <2>5. g = Def(g, n)
    <3> HIDE DEF g, Ps
    <3> QED
      BY <2>3, <2>4
  <2> HIDE DEF g, Def
  <2> QED
    BY <2>5
<1>3. \E it : it = Def(it, N)
  <2>1. \A i \in 0..N : i # 0 /\ i - 1 \in G => i \in G
    BY <1>2
  <2>2. N \in G
    <3> HIDE DEF G
    <3>1. 0 \in Nat /\ N \in Nat
      OBVIOUS
    <3>2. \A i \in 0..N : i \in G
      BY <1>1, <2>1, <3>1, UpFrom, Zenon
    <3> QED
      BY <3>2
  <2> QED
    BY <2>2
<1> DEFINE C == CHOOSE it : it = Def(it, N)
<1>4. C = Def(C, N)
  <2> HIDE DEF Def
  <2> QED
    BY <1>3
<1>5. PushedBack(c, dead) = C[1..N]
  <2>1. DOMAIN Ps = 1..N
    BY Zenon
  <2> DEFINE C2 == CHOOSE it : it = [s \in SUBSET DOMAIN Ps |-> IF s = {} THEN c ELSE Pushed(c, dead, it[s \ {Max(s)}], Ps[Max(s)])]
  <2>2. PushedBack(c, dead) = C2[DOMAIN Ps]
    BY DEF PushedBack, FoldLeft, MapThenFoldSet, Pushed
  <2>3. C2 = C
    BY <2>1
  <2> HIDE DEF C2, C, Ps
  <2> QED
    BY <2>1, <2>2, <2>3
<1> HIDE DEF C
<1> DEFINE q == [n \in 0..N |-> C[1..n]]
<1>6. q[0] = c
  <2>1. 1..0 = {} /\ {} \in SUBSET (1..N)
    OBVIOUS
  <2>2. C[{}] = c
    BY <1>4, <2>1
  <2> QED
    BY <2>1, <2>2
<1>7. ASSUME NEW n \in 1..N PROVE q[n] = Pushed(c, dead, q[n - 1], (End(c) - n))
  <2>1. n \in Nat /\ n >= 1 /\ n \in 0..N /\ n - 1 \in 0..N /\ 1..n \in SUBSET (1..N)
    OBVIOUS
  <2>2. Max(1..n) = n /\ (1..n) \ {n} = 1..(n - 1) /\ 1..n # {}
    BY <2>1, Numbers
  <2>3. Ps[n] = (End(c) - n)
    OBVIOUS
  <2> DEFINE s == 1..n
  <2> HIDE DEF Ps, s
  <2>4. C[s] = Pushed(c, dead, C[s \ {Max(s)}], Ps[Max(s)])
    BY <1>4, <2>1, <2>2 DEF s
  <2> QED
    BY <2>1, <2>2, <2>3, <2>4 DEF s
<1>8. q[N] = C[1..N]
  OBVIOUS
<1> HIDE DEF q
<1> QED
  BY <1>5, <1>6, <1>7, <1>8 DEF PushPath

\* The plans of a move that takes N turns.
QueuePath(q, base, first, u, N) ==
  /\ q[0] = base
  /\ \A n \in 1..N : q[n] = Queued(q[n - 1], first + n - 1, u)
  /\ FoldLeft(LAMBDA r, i : Queued(r, first + i - 1, u), base, [i \in 1..N |-> i]) = q[N]

LEMMA QueuesFollow ==
  ASSUME NEW base, NEW first, NEW u, NEW N \in Nat
  PROVE  \E q : QueuePath(q, base, first, u, N)
<1> DEFINE Ps == [i \in 1..N |-> i]
           Def(it, n) == [s \in SUBSET (1..n) |-> IF s = {} THEN base ELSE Queued(it[s \ {Max(s)}], first + Ps[Max(s)] - 1, u)]
           G == {n \in 0..N : \E it : it = Def(it, n)}
<1>1. 0 \in G
  <2> DEFINE it == [s \in {{}} |-> base]
  <2>1. SUBSET (1..0) = {{}}
    OBVIOUS
  <2>2. it = Def(it, 0)
    BY <2>1
  <2> HIDE DEF it, Def
  <2> QED
    BY <2>2
<1>2. ASSUME NEW n \in 0..N, n # 0, n - 1 \in G PROVE n \in G
  <2>1. PICK f : f = Def(f, n - 1)
    BY <1>2
  <2> DEFINE g == [s \in SUBSET (1..n) |-> IF n \in s THEN Queued(f[s \ {n}], first + Ps[n] - 1, u) ELSE f[s]]
  <2>2. n \in Nat /\ n >= 1
    BY <1>2
  <2>3. ASSUME NEW s \in SUBSET (1..n)
        PROVE  g[s] = IF s = {} THEN base ELSE Queued(g[s \ {Max(s)}], first + Ps[Max(s)] - 1, u)
    <3> HIDE DEF Ps
    <3>1. CASE n \in s
      <4>1. Max(s) = n /\ s \ {n} \in SUBSET (1..(n - 1)) /\ s \ {n} \in SUBSET (1..n) /\ s # {}
        BY <2>2, <3>1, Numbers
      <4>2. g[s] = Queued(f[s \ {n}], first + Ps[n] - 1, u) /\ g[s \ {n}] = f[s \ {n}]
        BY <3>1, <4>1
      <4> QED
        BY <4>1, <4>2
    <3>2. CASE n \notin s /\ s # {}
      <4>1. Max(s) \in s /\ s \in SUBSET (1..(n - 1)) /\ s \ {Max(s)} \in SUBSET (1..n) /\ n \notin s \ {Max(s)}
        BY <2>2, <3>2, Numbers
      <4>2. g[s] = f[s] /\ g[s \ {Max(s)}] = f[s \ {Max(s)}]
        BY <3>2, <4>1
      <4>3. f[s] = Queued(f[s \ {Max(s)}], first + Ps[Max(s)] - 1, u)
        BY <2>1, <3>2, <4>1
      <4> QED
        BY <3>2, <4>2, <4>3
    <3>3. CASE s = {}
      <4>1. {} \in SUBSET (1..(n - 1))
        OBVIOUS
      <4>2. f[{}] = base
        BY <2>1, <4>1
      <4> QED
        BY <3>3, <4>2
    <3> QED
      BY <3>1, <3>2, <3>3
  <2>4. g = [s \in SUBSET (1..n) |-> g[s]]
    OBVIOUS
  <2>5. g = Def(g, n)
    <3> HIDE DEF g, Ps
    <3> QED
      BY <2>3, <2>4
  <2> HIDE DEF g, Def
  <2> QED
    BY <2>5
<1>3. \E it : it = Def(it, N)
  <2>1. \A i \in 0..N : i # 0 /\ i - 1 \in G => i \in G
    BY <1>2
  <2>2. N \in G
    <3> HIDE DEF G
    <3>1. 0 \in Nat /\ N \in Nat
      OBVIOUS
    <3>2. \A i \in 0..N : i \in G
      BY <1>1, <2>1, <3>1, UpFrom, Zenon
    <3> QED
      BY <3>2
  <2> QED
    BY <2>2
<1> DEFINE C == CHOOSE it : it = Def(it, N)
<1>4. C = Def(C, N)
  <2> HIDE DEF Def
  <2> QED
    BY <1>3
<1>5. FoldLeft(LAMBDA r, i : Queued(r, first + i - 1, u), base, [i \in 1..N |-> i]) = C[1..N]
  <2>1. DOMAIN Ps = 1..N
    BY Zenon
  <2> DEFINE C2 == CHOOSE it : it = [s \in SUBSET DOMAIN Ps |-> IF s = {} THEN base ELSE Queued(it[s \ {Max(s)}], first + Ps[Max(s)] - 1, u)]
  <2>2. FoldLeft(LAMBDA r, i : Queued(r, first + i - 1, u), base, [i \in 1..N |-> i]) = C2[DOMAIN Ps]
    BY DEF FoldLeft, MapThenFoldSet
  <2>3. C2 = C
    BY <2>1
  <2> HIDE DEF C2, C, Ps
  <2> QED
    BY <2>1, <2>2, <2>3
<1> HIDE DEF C
<1> DEFINE q == [n \in 0..N |-> C[1..n]]
<1>6. q[0] = base
  <2>1. 1..0 = {} /\ {} \in SUBSET (1..N)
    OBVIOUS
  <2>2. C[{}] = base
    BY <1>4, <2>1
  <2> QED
    BY <2>1, <2>2
<1>7. ASSUME NEW n \in 1..N PROVE q[n] = Queued(q[n - 1], first + n - 1, u)
  <2>1. n \in Nat /\ n >= 1 /\ n \in 0..N /\ n - 1 \in 0..N /\ 1..n \in SUBSET (1..N)
    OBVIOUS
  <2>2. Max(1..n) = n /\ (1..n) \ {n} = 1..(n - 1) /\ 1..n # {}
    BY <2>1, Numbers
  <2>3. Ps[n] = n
    OBVIOUS
  <2> DEFINE s == 1..n
  <2> HIDE DEF Ps, s
  <2>4. C[s] = Queued(C[s \ {Max(s)}], first + Ps[Max(s)] - 1, u)
    BY <1>4, <2>1, <2>2 DEF s
  <2> QED
    BY <2>1, <2>2, <2>3, <2>4 DEF s
<1>8. q[N] = C[1..N]
  OBVIOUS
<1> HIDE DEF q
<1> QED
  BY <1>5, <1>6, <1>7, <1>8 DEF QueuePath

\* The insert commands of a refresh, one after another.
RunPath(q, base, cmds, N) ==
  /\ q[0] = base
  /\ \A n \in 1..N : q[n] = Ran(q[n - 1], cmds[n])
  /\ FoldLeft(Ran, base, cmds) = q[N]

LEMMA RunsFollow ==
  ASSUME NEW base, NEW cmds, NEW N \in Nat, DOMAIN cmds = 1..N
  PROVE  \E q : RunPath(q, base, cmds, N)
<1> DEFINE Ps == cmds
           Def(it, n) == [s \in SUBSET (1..n) |-> IF s = {} THEN base ELSE Ran(it[s \ {Max(s)}], Ps[Max(s)])]
           G == {n \in 0..N : \E it : it = Def(it, n)}
<1>1. 0 \in G
  <2> DEFINE it == [s \in {{}} |-> base]
  <2>1. SUBSET (1..0) = {{}}
    OBVIOUS
  <2>2. it = Def(it, 0)
    BY <2>1
  <2> HIDE DEF it, Def
  <2> QED
    BY <2>2
<1>2. ASSUME NEW n \in 0..N, n # 0, n - 1 \in G PROVE n \in G
  <2>1. PICK f : f = Def(f, n - 1)
    BY <1>2
  <2> DEFINE g == [s \in SUBSET (1..n) |-> IF n \in s THEN Ran(f[s \ {n}], Ps[n]) ELSE f[s]]
  <2>2. n \in Nat /\ n >= 1
    BY <1>2
  <2>3. ASSUME NEW s \in SUBSET (1..n)
        PROVE  g[s] = IF s = {} THEN base ELSE Ran(g[s \ {Max(s)}], Ps[Max(s)])
    <3> HIDE DEF Ps
    <3>1. CASE n \in s
      <4>1. Max(s) = n /\ s \ {n} \in SUBSET (1..(n - 1)) /\ s \ {n} \in SUBSET (1..n) /\ s # {}
        BY <2>2, <3>1, Numbers
      <4>2. g[s] = Ran(f[s \ {n}], Ps[n]) /\ g[s \ {n}] = f[s \ {n}]
        BY <3>1, <4>1
      <4> QED
        BY <4>1, <4>2
    <3>2. CASE n \notin s /\ s # {}
      <4>1. Max(s) \in s /\ s \in SUBSET (1..(n - 1)) /\ s \ {Max(s)} \in SUBSET (1..n) /\ n \notin s \ {Max(s)}
        BY <2>2, <3>2, Numbers
      <4>2. g[s] = f[s] /\ g[s \ {Max(s)}] = f[s \ {Max(s)}]
        BY <3>2, <4>1
      <4>3. f[s] = Ran(f[s \ {Max(s)}], Ps[Max(s)])
        BY <2>1, <3>2, <4>1
      <4> QED
        BY <3>2, <4>2, <4>3
    <3>3. CASE s = {}
      <4>1. {} \in SUBSET (1..(n - 1))
        OBVIOUS
      <4>2. f[{}] = base
        BY <2>1, <4>1
      <4> QED
        BY <3>3, <4>2
    <3> QED
      BY <3>1, <3>2, <3>3
  <2>4. g = [s \in SUBSET (1..n) |-> g[s]]
    OBVIOUS
  <2>5. g = Def(g, n)
    <3> HIDE DEF g, Ps
    <3> QED
      BY <2>3, <2>4
  <2> HIDE DEF g, Def
  <2> QED
    BY <2>5
<1>3. \E it : it = Def(it, N)
  <2>1. \A i \in 0..N : i # 0 /\ i - 1 \in G => i \in G
    BY <1>2
  <2>2. N \in G
    <3> HIDE DEF G
    <3>1. 0 \in Nat /\ N \in Nat
      OBVIOUS
    <3>2. \A i \in 0..N : i \in G
      BY <1>1, <2>1, <3>1, UpFrom, Zenon
    <3> QED
      BY <3>2
  <2> QED
    BY <2>2
<1> DEFINE C == CHOOSE it : it = Def(it, N)
<1>4. C = Def(C, N)
  <2> HIDE DEF Def
  <2> QED
    BY <1>3
<1>5. FoldLeft(Ran, base, cmds) = C[1..N]
  <2>1. DOMAIN Ps = 1..N
    OBVIOUS
  <2> DEFINE C2 == CHOOSE it : it = [s \in SUBSET DOMAIN Ps |-> IF s = {} THEN base ELSE Ran(it[s \ {Max(s)}], Ps[Max(s)])]
  <2>2. FoldLeft(Ran, base, cmds) = C2[DOMAIN Ps]
    BY DEF FoldLeft, MapThenFoldSet
  <2>3. C2 = C
    BY <2>1
  <2> HIDE DEF C2, C, Ps
  <2> QED
    BY <2>1, <2>2, <2>3
<1> HIDE DEF C
<1> DEFINE q == [n \in 0..N |-> C[1..n]]
<1>6. q[0] = base
  <2>1. 1..0 = {} /\ {} \in SUBSET (1..N)
    OBVIOUS
  <2>2. C[{}] = base
    BY <1>4, <2>1
  <2> QED
    BY <2>1, <2>2
<1>7. ASSUME NEW n \in 1..N PROVE q[n] = Ran(q[n - 1], cmds[n])
  <2>1. n \in Nat /\ n >= 1 /\ n \in 0..N /\ n - 1 \in 0..N /\ 1..n \in SUBSET (1..N)
    OBVIOUS
  <2>2. Max(1..n) = n /\ (1..n) \ {n} = 1..(n - 1) /\ 1..n # {}
    BY <2>1, Numbers
  <2>3. Ps[n] = cmds[n]
    OBVIOUS
  <2> DEFINE s == 1..n
  <2> HIDE DEF Ps, s
  <2>4. C[s] = Ran(C[s \ {Max(s)}], Ps[Max(s)])
    BY <1>4, <2>1, <2>2 DEF s
  <2> QED
    BY <2>1, <2>2, <2>3, <2>4 DEF s
<1>8. q[N] = C[1..N]
  OBVIOUS
<1> HIDE DEF q
<1> QED
  BY <1>5, <1>6, <1>7, <1>8 DEF RunPath

\* The commands of a packet, one after another; some of the bumps are refused.
Delivered(base, cmds, refused) ==
  FoldLeft(LAMBDA a, i : Executed(a, cmds[i], i \in refused), base, [i \in DOMAIN cmds |-> i])

ExecutePath(q, base, cmds, refused, N) ==
  /\ q[0] = base
  /\ \A n \in 1..N : q[n] = Executed(q[n - 1], cmds[n], n \in refused)
  /\ Delivered(base, cmds, refused) = q[N]

LEMMA ExecutesFollow ==
  ASSUME NEW base, NEW cmds, NEW refused, NEW N \in Nat, DOMAIN cmds = 1..N
  PROVE  \E q : ExecutePath(q, base, cmds, refused, N)
<1> DEFINE Ps == [i \in 1..N |-> i]
           Def(it, n) == [s \in SUBSET (1..n) |-> IF s = {} THEN base ELSE Executed(it[s \ {Max(s)}], cmds[Ps[Max(s)]], Ps[Max(s)] \in refused)]
           G == {n \in 0..N : \E it : it = Def(it, n)}
<1>1. 0 \in G
  <2> DEFINE it == [s \in {{}} |-> base]
  <2>1. SUBSET (1..0) = {{}}
    OBVIOUS
  <2>2. it = Def(it, 0)
    BY <2>1
  <2> HIDE DEF it, Def
  <2> QED
    BY <2>2
<1>2. ASSUME NEW n \in 0..N, n # 0, n - 1 \in G PROVE n \in G
  <2>1. PICK f : f = Def(f, n - 1)
    BY <1>2
  <2> DEFINE g == [s \in SUBSET (1..n) |-> IF n \in s THEN Executed(f[s \ {n}], cmds[Ps[n]], Ps[n] \in refused) ELSE f[s]]
  <2>2. n \in Nat /\ n >= 1
    BY <1>2
  <2>3. ASSUME NEW s \in SUBSET (1..n)
        PROVE  g[s] = IF s = {} THEN base ELSE Executed(g[s \ {Max(s)}], cmds[Ps[Max(s)]], Ps[Max(s)] \in refused)
    <3> HIDE DEF Ps
    <3>1. CASE n \in s
      <4>1. Max(s) = n /\ s \ {n} \in SUBSET (1..(n - 1)) /\ s \ {n} \in SUBSET (1..n) /\ s # {}
        BY <2>2, <3>1, Numbers
      <4>2. g[s] = Executed(f[s \ {n}], cmds[Ps[n]], Ps[n] \in refused) /\ g[s \ {n}] = f[s \ {n}]
        BY <3>1, <4>1
      <4> QED
        BY <4>1, <4>2
    <3>2. CASE n \notin s /\ s # {}
      <4>1. Max(s) \in s /\ s \in SUBSET (1..(n - 1)) /\ s \ {Max(s)} \in SUBSET (1..n) /\ n \notin s \ {Max(s)}
        BY <2>2, <3>2, Numbers
      <4>2. g[s] = f[s] /\ g[s \ {Max(s)}] = f[s \ {Max(s)}]
        BY <3>2, <4>1
      <4>3. f[s] = Executed(f[s \ {Max(s)}], cmds[Ps[Max(s)]], Ps[Max(s)] \in refused)
        BY <2>1, <3>2, <4>1
      <4> QED
        BY <3>2, <4>2, <4>3
    <3>3. CASE s = {}
      <4>1. {} \in SUBSET (1..(n - 1))
        OBVIOUS
      <4>2. f[{}] = base
        BY <2>1, <4>1
      <4> QED
        BY <3>3, <4>2
    <3> QED
      BY <3>1, <3>2, <3>3
  <2>4. g = [s \in SUBSET (1..n) |-> g[s]]
    OBVIOUS
  <2>5. g = Def(g, n)
    <3> HIDE DEF g, Ps
    <3> QED
      BY <2>3, <2>4
  <2> HIDE DEF g, Def
  <2> QED
    BY <2>5
<1>3. \E it : it = Def(it, N)
  <2>1. \A i \in 0..N : i # 0 /\ i - 1 \in G => i \in G
    BY <1>2
  <2>2. N \in G
    <3> HIDE DEF G
    <3>1. 0 \in Nat /\ N \in Nat
      OBVIOUS
    <3>2. \A i \in 0..N : i \in G
      BY <1>1, <2>1, <3>1, UpFrom, Zenon
    <3> QED
      BY <3>2
  <2> QED
    BY <2>2
<1> DEFINE C == CHOOSE it : it = Def(it, N)
<1>4. C = Def(C, N)
  <2> HIDE DEF Def
  <2> QED
    BY <1>3
<1>5. Delivered(base, cmds, refused) = C[1..N]
  <2>1. DOMAIN Ps = 1..N
    BY Zenon
  <2> DEFINE C2 == CHOOSE it : it = [s \in SUBSET DOMAIN Ps |-> IF s = {} THEN base ELSE Executed(it[s \ {Max(s)}], cmds[Ps[Max(s)]], Ps[Max(s)] \in refused)]
  <2>2. Delivered(base, cmds, refused) = C2[DOMAIN Ps]
    BY DEF Delivered, FoldLeft, MapThenFoldSet
  <2>3. C2 = C
    BY <2>1
  <2> HIDE DEF C2, C, Ps
  <2> QED
    BY <2>1, <2>2, <2>3
<1> HIDE DEF C
<1> DEFINE q == [n \in 0..N |-> C[1..n]]
<1>6. q[0] = base
  <2>1. 1..0 = {} /\ {} \in SUBSET (1..N)
    OBVIOUS
  <2>2. C[{}] = base
    BY <1>4, <2>1
  <2> QED
    BY <2>1, <2>2
<1>7. ASSUME NEW n \in 1..N PROVE q[n] = Executed(q[n - 1], cmds[n], n \in refused)
  <2>1. n \in Nat /\ n >= 1 /\ n \in 0..N /\ n - 1 \in 0..N /\ 1..n \in SUBSET (1..N)
    OBVIOUS
  <2>2. Max(1..n) = n /\ (1..n) \ {n} = 1..(n - 1) /\ 1..n # {}
    BY <2>1, Numbers
  <2>3. Ps[n] = n
    OBVIOUS
  <2> DEFINE s == 1..n
  <2> HIDE DEF Ps, s
  <2>4. C[s] = Executed(C[s \ {Max(s)}], cmds[Ps[Max(s)]], Ps[Max(s)] \in refused)
    BY <1>4, <2>1, <2>2 DEF s
  <2> QED
    BY <2>1, <2>2, <2>3, <2>4 DEF s
<1>8. q[N] = C[1..N]
  OBVIOUS
<1> HIDE DEF q
<1> QED
  BY <1>5, <1>6, <1>7, <1>8 DEF ExecutePath

-----------------------------------------------------------------------------
(* The end of a turn. *)

\* Any turn that begins, or the next one, takes a plan at its front.
LEMMA PutFirst ==
  ASSUME NEW c, InOrder(c), NEW t \in Nat, t <= Len(c.begins), NEW a \in Action
  PROVE  /\ InOrder(SafeInsert(c, t, 0, a)) /\ Len(SafeInsert(c, t, 0, a).acts) = Len(c.acts) + 1
         /\ Len(SafeInsert(c, t, 0, a).begins) \in Nat /\ Len(SafeInsert(c, t, 0, a).begins) > t
<1> DEFINE K == Len(c.begins)
           p == TurnBegin(c, t)
<1>1. K \in Nat /\ p \in 1..Len(c.acts)+1 /\ p + 0 = p
  BY TurnBegins
<1>2. CASE t < K
  <2>1. 0 \in 0..TurnSize(c, t)
    BY TurnSizeIs
  <2>2. SafeInsert(c, t, 0, a) = Grown(c, t, p, a)
    BY <1>1, <1>2, <2>1, SafeInsertGrows
  <2> HIDE DEF p
  <2>3. InOrder(Grown(c, t, p, a)) /\ Len(Grown(c, t, p, a).acts) = Len(c.acts) + 1
    BY <1>1, <1>2, GrownIs, GrownLength
  <2>4. Len(Grown(c, t, p, a).begins) = K
    BY <1>1 DEF Grown
  <2> QED
    BY <1>1, <1>2, <2>2, <2>3, <2>4
<1>3. CASE t = K
  <2>1. SafeInsert(c, t, 0, a) = Opened(c, t, a)
    BY <1>3, SafeInsertOpens
  <2> HIDE DEF p
  <2>2. InOrder(Opened(c, t, a)) /\ Len(Opened(c, t, a).acts) = Len(c.acts) + 1
    BY <1>1, OpenedIs, GrownLength
  <2>3. c.begins \in Seq(Nat) /\ Len(c.acts) + 1 \in Nat
    BY ContainerIs DEF InOrder
  <2>4. Len(Opened(c, t, a).begins) = K + 1
    <3>1. ~(t = 1 /\ K = 0)
      BY <1>3
    <3>2. Opened(c, t, a).begins = Append(c.begins, Len(c.acts) + 1)
      BY <3>1 DEF Opened
    <3> QED
      BY <2>3, <3>2
  <2> QED
    BY <1>1, <1>3, <2>1, <2>2, <2>4
<1> QED
  BY <1>1, <1>2, <1>3

\* A plan that is pushed back is put first in the next turn and taken out of its own.
LEMMA PushedKeeps ==
  ASSUME NEW c, NEW dead, NEW d \in Lists, NEW p \in 1..Len(d.acts)
  PROVE  /\ Pushed(c, dead, d, p) \in Lists
         /\ Pushed(c, dead, d, p).fault = "none" => Len(Pushed(c, dead, d, p).acts) = Len(d.acts)
<1>1. CASE d.fault = "none" /\ Actor(d.acts[p]) \in LazyUnits(c, dead)
  <2> DEFINE t == GetTurn(d, p) + 1
             a == d.acts[p]
             e == SafeInsert(d, t, 0, a)
  <2>1. InOrder(d) /\ d.acts \in Seq(Action) /\ Len(d.acts) \in Nat /\ Len(d.begins) \in Nat
    <3>1. InOrder(d)
      BY <1>1, ListsIs
    <3> QED
      BY <3>1, ContainerIs DEF InOrder
  <2>2. GetTurn(d, p) \in 0..Len(d.begins)-1
    BY <2>1, TurnOfAction
  <2>3. t \in Nat /\ t <= Len(d.begins) /\ a \in Action
    BY <2>1, <2>2
  <2>4. Pushed(c, dead, d, p) = Erase(e, p)
    BY <1>1 DEF Pushed
  <2> HIDE DEF t, a
  <2>5. InOrder(e) /\ Len(e.acts) = Len(d.acts) + 1
    BY <2>1, <2>3, PutFirst
  <2> HIDE DEF e
  <2>6. p \in 1..Len(e.acts)
    BY <2>1, <2>5
  <2>7. Erase(e, p) \in Lists /\ (Erase(e, p).fault = "none" => Len(Erase(e, p).acts) = Len(e.acts) - 1)
    BY <2>5, <2>6, EraseKeeps
  <2> QED
    BY <2>1, <2>4, <2>5, <2>7
<1>2. CASE ~(d.fault = "none" /\ Actor(d.acts[p]) \in LazyUnits(c, dead))
  <2>1. Pushed(c, dead, d, p) = d
    BY <1>2 DEF Pushed
  <2> QED
    BY <2>1
<1> QED
  BY <1>1, <1>2

LEMMA PushedBackKeeps ==
  ASSUME NEW c, InOrder(c), NEW dead
  PROVE  /\ PushedBack(c, dead) \in Lists
         /\ PushedBack(c, dead).fault = "none" => Len(PushedBack(c, dead).acts) = Len(c.acts)
<1> DEFINE N == Len(c.acts)
<1>1. N \in Nat /\ c \in Lists /\ End(c) = N + 1
  BY InOrderList DEF End
<1>2. PICK q : /\ q[0] = c
               /\ \A n \in 1..N : q[n] = Pushed(c, dead, q[n - 1], (End(c) - n))
               /\ PushedBack(c, dead) = q[N]
  <2>1. \E q : PushPath(q, c, dead, N)
    BY <1>1, PushesFollow
  <2> QED
    BY <2>1, Zenon DEF PushPath
<1> DEFINE Good(d) == d \in Lists /\ (d.fault = "none" => Len(d.acts) = N)
           H == {n \in 0..N : Good(q[n])}
<1>3. 0 \in H
  BY <1>1, <1>2
<1>4. ASSUME NEW n \in 0..N, n # 0, n - 1 \in H PROVE n \in H
  <2> DEFINE d == q[n - 1]
             p == End(c) - n
  <2>1. n \in 1..N /\ p \in 1..N /\ d \in Lists /\ (d.fault = "none" => Len(d.acts) = N)
    BY <1>1, <1>4
  <2>2. q[n] = Pushed(c, dead, d, p)
    BY <1>2, <2>1
  <2> HIDE DEF d, p
  <2>3. CASE d.fault = "none"
    <3>1. p \in 1..Len(d.acts)
      BY <2>1, <2>3
    <3>2. Good(Pushed(c, dead, d, p))
      BY <2>1, <2>3, <3>1, PushedKeeps
    <3> QED
      BY <2>2, <3>2
  <2>4. CASE d.fault # "none"
    <3>1. Pushed(c, dead, d, p) = d
      BY <2>4 DEF Pushed
    <3> QED
      BY <2>1, <2>2, <3>1
  <2> QED
    BY <2>3, <2>4
<1>5. N \in H
  <2>1. \A n \in 0..N : n # 0 /\ n - 1 \in H => n \in H
    BY <1>4
  <2> HIDE DEF H, N
  <2>2. 0 \in Nat /\ N \in Nat
    BY <1>1
  <2>3. \A n \in 0..N : n \in H
    BY <1>3, <2>1, <2>2, UpFrom, Zenon
  <2> QED
    BY <2>2, <2>3
<1> QED
  BY <1>2, <1>5

\* One round of the loop over the plans that are left.
Copied(s) ==
  IF s.act = s.end THEN s
  ELSE LET to == IF TurnSize(s.list, 1) = 0 THEN TurnEnd(s.list, 1) ELSE TurnBegin(s.list, 1)
       IN  [list |-> SafeInsert(s.list, 1, 0, s.list.acts[s.act]),
            act  |-> s.act + IF to <= s.act THEN 2 ELSE 1,
            end  |-> s.end + 1]

CopyPath(q, c, N) ==
  /\ q[0] = [list |-> c, act |-> TurnBegin(c, 0), end |-> TurnEnd(c, 0)]
  /\ \A n \in 1..N : q[n] = Copied(q[n - 1])
  /\ Remaining(c) = q[N].list

LEMMA CopiesFollow ==
  ASSUME NEW c, NEW N \in Nat, N = 2 * Len(c.acts)
  PROVE  \E q : CopyPath(q, c, N)
<1> DEFINE base == [list |-> c, act |-> TurnBegin(c, 0), end |-> TurnEnd(c, 0)]
           Def(it, n) == [k \in 0..n |-> IF k = 0 THEN base ELSE Copied(it[k - 1])]
           G == {n \in 0..N : \E it : it = Def(it, n)}
<1>1. 0 \in G
  <2> DEFINE it == [k \in 0..0 |-> base]
  <2>1. it = Def(it, 0)
    OBVIOUS
  <2> HIDE DEF it, Def
  <2> QED
    BY <2>1
<1>2. ASSUME NEW n \in 0..N, n # 0, n - 1 \in G PROVE n \in G
  <2>1. PICK f : f = Def(f, n - 1)
    BY <1>2
  <2> DEFINE g == [k \in 0..n |-> IF k = n THEN Copied(f[n - 1]) ELSE f[k]]
  <2>2. n \in Nat /\ n >= 1
    BY <1>2
  <2> HIDE DEF base
  <2>3. ASSUME NEW k \in 0..n
        PROVE  g[k] = IF k = 0 THEN base ELSE Copied(g[k - 1])
    <3>1. CASE k = n
      <4>1. k # 0 /\ k - 1 \in 0..n /\ k - 1 # n
        BY <2>2, <3>1
      <4>2. g[k] = Copied(f[n - 1]) /\ g[k - 1] = f[k - 1]
        BY <3>1, <4>1
      <4> QED
        BY <3>1, <4>1, <4>2
    <3>2. CASE k # n /\ k # 0
      <4>1. k - 1 \in 0..n /\ k - 1 # n /\ k \in 0..(n - 1)
        BY <2>2, <3>2
      <4>2. g[k] = f[k] /\ g[k - 1] = f[k - 1]
        BY <3>2, <4>1
      <4>3. f[k] = Copied(f[k - 1])
        BY <2>1, <3>2, <4>1
      <4> QED
        BY <3>2, <4>2, <4>3
    <3>3. CASE k # n /\ k = 0
      <4>1. 0 \in 0..(n - 1)
        BY <2>2
      <4>2. f[0] = base
        BY <2>1, <4>1
      <4> QED
        BY <3>3, <4>2
    <3> QED
      BY <3>1, <3>2, <3>3
  <2>4. g = [k \in 0..n |-> g[k]]
    OBVIOUS
  <2>5. g = Def(g, n)
    <3> HIDE DEF g
    <3> QED
      BY <2>3, <2>4
  <2> HIDE DEF g, Def
  <2> QED
    BY <2>5
<1>3. \E it : it = Def(it, N)
  <2>1. \A i \in 0..N : i # 0 /\ i - 1 \in G => i \in G
    BY <1>2
  <2>2. N \in G
    <3> HIDE DEF G
    <3>1. 0 \in Nat /\ N \in Nat
      OBVIOUS
    <3>2. \A i \in 0..N : i \in G
      BY <1>1, <2>1, <3>1, UpFrom, Zenon
    <3> QED
      BY <3>2
  <2> QED
    BY <2>2
<1> DEFINE C == CHOOSE it : it = Def(it, N)
<1>4. C = Def(C, N)
  <2> HIDE DEF Def
  <2> QED
    BY <1>3
<1>5. Remaining(c) = C[N].list
  BY DEF Remaining, Copied
<1> HIDE DEF C
<1>6. C[0] = base /\ \A n \in 1..N : C[n] = Copied(C[n - 1])
  <2> HIDE DEF base
  <2>1. \A n \in 0..N : C[n] = IF n = 0 THEN base ELSE Copied(C[n - 1])
    BY <1>4
  <2>2. 0 \in 0..N /\ \A n \in 1..N : n \in 0..N /\ n # 0
    OBVIOUS
  <2> QED
    BY <2>1, <2>2
<1> QED
  BY <1>5, <1>6 DEF CopyPath

\* The two places of the loop over the plans that are left.
LeftOver(s) ==
  /\ InOrder(s.list) /\ Len(s.list.begins) >= 1
  /\ s.act \in Nat /\ s.end \in Nat /\ s.act >= 1 /\ s.act <= s.end /\ s.end <= Len(s.list.acts) + 1

LEMMA CopiedKeeps ==
  ASSUME NEW s, LeftOver(s)
  PROVE  /\ LeftOver(Copied(s))
         /\ s.act # s.end \/ Len(s.list.begins) >= 2 => Len(Copied(s).list.begins) >= 2
<1> DEFINE c == s.list
           to == IF TurnSize(c, 1) = 0 THEN TurnEnd(c, 1) ELSE TurnBegin(c, 1)
           w  == IF to <= s.act THEN 2 ELSE 1
           e  == SafeInsert(c, 1, 0, c.acts[s.act])
<1>1. /\ InOrder(c) /\ Len(c.begins) >= 1
      /\ s.act \in Nat /\ s.end \in Nat /\ s.act >= 1 /\ s.act <= s.end /\ s.end <= Len(c.acts) + 1
  BY DEF LeftOver
<1>2. c.acts \in Seq(Action) /\ Len(c.acts) \in Nat /\ Len(c.begins) \in Nat
  BY <1>1, ContainerIs DEF InOrder
<1>3. CASE s.act = s.end
  <2>1. Copied(s) = s
    BY <1>3 DEF Copied
  <2> QED
    BY <1>3, <2>1
<1>4. CASE s.act # s.end
  <2>1. Copied(s) = [list |-> e, act |-> s.act + w, end |-> s.end + 1]
    BY <1>4 DEF Copied
  <2>2. s.act \in 1..Len(c.acts) /\ c.acts[s.act] \in Action
    BY <1>1, <1>2, <1>4
  <2>3. w = 1 \/ w = 2
    BY DEF w
  <2> HIDE DEF w, c
  <2> DEFINE a == c.acts[s.act]
  <2>4. a \in Action /\ 1 \in Nat /\ 1 <= Len(c.begins)
    BY <1>1, <2>2
  <2> HIDE DEF a
  <2>5. /\ InOrder(SafeInsert(c, 1, 0, a)) /\ Len(SafeInsert(c, 1, 0, a).acts) = Len(c.acts) + 1
        /\ Len(SafeInsert(c, 1, 0, a).begins) \in Nat /\ Len(SafeInsert(c, 1, 0, a).begins) > 1
    BY <1>1, <2>4, PutFirst
  <2>6. InOrder(e) /\ Len(e.acts) = Len(c.acts) + 1 /\ Len(e.begins) \in Nat /\ Len(e.begins) > 1
    BY <2>5 DEF a
  <2> HIDE DEF e
  <2> DEFINE r == [list |-> e, act |-> s.act + w, end |-> s.end + 1]
  <2>7. r.list = e /\ r.act = s.act + w /\ r.end = s.end + 1
    OBVIOUS
  <2>8. r.act \in Nat /\ r.end \in Nat /\ r.act >= 1 /\ r.act <= r.end /\ r.end <= Len(e.acts) + 1
    BY <1>1, <1>2, <1>4, <2>3, <2>6, <2>7, SMTT(40)
  <2> HIDE DEF r
  <2>9. LeftOver(r) /\ Len(r.list.begins) >= 2
    BY <2>6, <2>7, <2>8 DEF LeftOver
  <2> QED
    BY <2>1, <2>9 DEF r
<1> QED
  BY <1>3, <1>4

\* A container with plans for this turn or none: a turn is planned after it.
LEMMA RemainingIs ==
  ASSUME NEW c, InOrder(c), Len(c.acts) # 0
  PROVE  InOrder(Remaining(c)) /\ Len(Remaining(c).begins) >= 2
<1> DEFINE N == 2 * Len(c.acts)
           K == Len(c.begins)
<1>0. Rising(c.begins, Len(c.acts))
  BY OrderRises
<1>1. Len(c.acts) \in Nat /\ Len(c.acts) >= 1 /\ N \in Nat /\ N >= 2 /\ K \in Nat /\ K >= 1
  BY <1>0 DEF Rising
<1>2. PICK q : /\ q[0] = [list |-> c, act |-> TurnBegin(c, 0), end |-> TurnEnd(c, 0)]
               /\ \A n \in 1..N : q[n] = Copied(q[n - 1])
               /\ Remaining(c) = q[N].list
  <2>1. \E q : CopyPath(q, c, N)
    BY <1>1, CopiesFollow
  <2> QED
    BY <2>1, Zenon DEF CopyPath
<1> HIDE DEF N
<1>3. TurnBegin(c, 0) = 1 /\ TurnEnd(c, 0) \in 1..Len(c.acts)+1 /\ TurnBegin(c, 1) = TurnEnd(c, 0)
      /\ (1 >= K => TurnBegin(c, 1) = Len(c.acts) + 1)
  <2>1. TurnBegin(c, 0) = 1 /\ TurnEnd(c, 0) \in 1..Len(c.acts)+1 /\ TurnBegin(c, 0 + 1) = TurnEnd(c, 0)
    BY TurnBegins
  <2>2. 1 \in Nat /\ 0 + 1 = 1
    OBVIOUS
  <2>3. 1 >= K => TurnBegin(c, 1) = Len(c.acts) + 1
    BY <2>2, TurnBegins
  <2> QED
    BY <2>1, <2>2, <2>3
<1>4. LeftOver(q[0])
  BY <1>1, <1>2, <1>3 DEF LeftOver
<1>5. q[0].act # q[0].end \/ Len(q[0].list.begins) >= 2
  BY <1>1, <1>2, <1>3
<1> DEFINE H == {n \in 1..N : LeftOver(q[n]) /\ Len(q[n].list.begins) >= 2}
<1>6. 1 \in H
  <2>1. 1 \in 1..N /\ q[1] = Copied(q[0])
    BY <1>1, <1>2
  <2> QED
    BY <1>4, <1>5, <2>1, CopiedKeeps
<1>7. ASSUME NEW n \in 1..N, n # 1, n - 1 \in H PROVE n \in H
  <2>1. n \in 1..N /\ q[n] = Copied(q[n - 1]) /\ LeftOver(q[n - 1]) /\ Len(q[n - 1].list.begins) >= 2
    BY <1>2, <1>7
  <2> QED
    BY <2>1, CopiedKeeps
<1>8. N \in H
  <2>1. \A n \in 1..N : n # 1 /\ n - 1 \in H => n \in H
    BY <1>7
  <2> HIDE DEF H
  <2>2. 1 \in Nat /\ N \in Nat /\ N \in 1..N
    BY <1>1
  <2>3. \A n \in 1..N : n \in H
    BY <1>6, <2>1, <2>2, UpFrom, Zenon
  <2> QED
    BY <2>2, <2>3
<1> QED
  BY <1>2, <1>8 DEF LeftOver

\* The turn that is over goes, if its plans can be erased.
LEMMA BegunKeeps ==
  ASSUME NEW c, InOrder(c), Len(c.begins) >= 2
  PROVE  Begun(c) \in Lists
<1> DEFINE N == TurnSize(c, 0)
           B == c.begins[2]
<1>0. Rising(c.begins, Len(c.acts))
  BY OrderRises
<1>1. Len(c.acts) \in Nat /\ Len(c.begins) \in Nat /\ B \in 1..Len(c.acts)
  BY <1>0 DEF Rising
<1>2. TurnEnd(c, 0) = B /\ N = B - 1 /\ N \in Nat
  <2> DEFINE h == 1
  <2>1. h \in Nat /\ h + 1 = 2 /\ h < Len(c.begins)
    BY <1>1
  <2>2. TurnEnd(c, 0) = TurnBegin(c, h) /\ TurnBegin(c, 0) = 1
    BY TurnBegins
  <2> HIDE DEF h
  <2>3. TurnBegin(c, h) = c.begins[h + 1]
    BY <2>1, TurnBegins
  <2> QED
    BY <1>1, <2>1, <2>2, <2>3 DEF TurnSize
<1>3. PICK q : /\ q[0] = c
               /\ \A n \in 1..N : q[n] = Erased(q[n - 1], TurnEnd(c, 0) - n)
               /\ Begun(c) = IF q[N].fault = "none" THEN TurnShift(q[N]) ELSE q[N]
  <2>1. \E q : ErasePath(q, c, N)
    BY <1>2, ErasesFollow
  <2> QED
    BY <2>1, Zenon DEF ErasePath
<1> DEFINE Good(d, n) == \/ d.fault # "none" /\ d \in Lists
                         \/ InOrder(d) /\ Len(d.begins) >= 2 /\ d.begins[2] = B - n
           H == {n \in 0..N : Good(q[n], n)}
<1> HIDE DEF N
<1>4. 0 \in H
  <2>1. c.begins[2] = B - 0 /\ 0 \in 0..N
    BY <1>1, <1>2
  <2> QED
    BY <1>3, <2>1
<1>5. ASSUME NEW n \in 0..N, n # 0, n - 1 \in H PROVE n \in H
  <2> DEFINE d == q[n - 1]
             p == TurnEnd(c, 0) - n
  <2>1. n \in 1..N /\ p = B - n /\ p \in Nat /\ p >= 1 /\ Good(d, n - 1)
    BY <1>1, <1>2, <1>5
  <2>2. q[n] = Erased(d, p)
    BY <1>3, <2>1
  <2> HIDE DEF d, p, B
  <2>3. CASE d.fault # "none" /\ d \in Lists
    <3>1. Erased(d, p) = d
      BY <2>3 DEF Erased
    <3> QED
      BY <2>2, <2>3, <3>1
  <2>4. CASE InOrder(d) /\ Len(d.begins) >= 2 /\ d.begins[2] = B - (n - 1)
    <3>1. Rising(d.begins, Len(d.acts))
      BY <2>4, OrderRises
    <3>2. Len(d.acts) \in Nat /\ Len(d.begins) \in Nat /\ d.begins[2] \in 1..Len(d.acts)
      BY <2>4, <3>1 DEF Rising
    <3>3. d.begins[2] = p + 1
      BY <1>1, <2>1, <2>4
    <3>4. p \in 1..Len(d.acts) /\ p < d.begins[2]
      BY <2>1, <3>2, <3>3
    <3>5. \/ Erase(d, p).fault # "none" /\ Erase(d, p) \in Lists
          \/ InOrder(Erase(d, p)) /\ Len(Erase(d, p).begins) = Len(d.begins) /\ Erase(d, p).begins[2] = d.begins[2] - 1
      BY <2>4, <3>4, EraseEarly
    <3>6. Erased(d, p) = Erase(d, p)
      BY <2>4 DEF Erased, InOrder
    <3>7. d.begins[2] - 1 = B - n
      BY <1>1, <2>1, <3>3
    <3> QED
      BY <2>2, <2>4, <3>5, <3>6, <3>7
  <2> QED
    BY <2>1, <2>3, <2>4
<1>6. Good(q[N], N)
  <2>1. \A n \in 0..N : n # 0 /\ n - 1 \in H => n \in H
    BY <1>5
  <2> HIDE DEF H
  <2>2. 0 \in Nat /\ N \in Nat /\ N \in 0..N
    BY <1>2
  <2>3. \A n \in 0..N : n \in H
    BY <1>4, <2>1, <2>2, UpFrom, Zenon
  <2>4. N \in H
    BY <2>2, <2>3
  <2> QED
    BY <2>4 DEF H
<1> DEFINE d == q[N]
<1>7. Begun(c) = (IF d.fault = "none" THEN TurnShift(d) ELSE d) /\ Good(d, N) /\ B - N = 1
  BY <1>1, <1>2, <1>3, <1>6
<1> HIDE DEF d
<1>8. CASE d.fault # "none" /\ d \in Lists
  BY <1>7, <1>8
<1>9. CASE InOrder(d) /\ Len(d.begins) >= 2 /\ d.begins[2] = B - N
  <2>1. InOrder(TurnShift(d)) /\ d.fault = "none"
    BY <1>7, <1>9, TurnShiftIs DEF InOrder
  <2> QED
    BY <1>7, <2>1, InOrderList
<1> QED
  BY <1>7, <1>8, <1>9

LEMMA RawTurnShiftKeeps ==
  ASSUME NEW c, InOrder(c), Len(c.acts) # 0, NEW dead
  PROVE  RawTurnShift(c, dead) \in Lists
<1> DEFINE d == PushedBack(c, dead)
<1>1. d \in Lists /\ (d.fault = "none" => Len(d.acts) = Len(c.acts))
  BY PushedBackKeeps
<1>2. RawTurnShift(c, dead) = IF d.fault = "none" THEN Begun(Remaining(d)) ELSE d
  BY DEF RawTurnShift
<1> HIDE DEF d
<1>3. CASE d.fault = "none"
  <2>1. InOrder(d) /\ Len(d.acts) # 0
    BY <1>1, <1>3, ListsIs
  <2>2. InOrder(Remaining(d)) /\ Len(Remaining(d).begins) >= 2
    BY <2>1, RemainingIs
  <2> QED
    BY <1>2, <1>3, <2>2, BegunKeeps
<1> QED
  BY <1>1, <1>2, <1>3

-----------------------------------------------------------------------------
(* What is planned. *)

\* There is a number that no other plan for the unit has.
LEMMA FreshIs ==
  ASSUME NEW c, InOrder(c), Len(c.acts) < MaxActions, NEW u \in Units \cup {None}
  PROVE  Fresh(c, u) \in Action
<1> DEFINE N == Len(c.acts)
           used == {c.acts[p].n : p \in {q \in DOMAIN c.acts : c.acts[q].unit = u}}
           free == Nums \ used
           f == [k \in Nums |-> CHOOSE p \in 1..N : c.acts[p].n = k]
<1>1. N \in Nat /\ DOMAIN c.acts = 1..N /\ MaxActions \in Nat /\ N < MaxActions
  BY ContainerIs, SideAssumption DEF InOrder
<1>2. free # {}
  <2> SUFFICES ASSUME free = {} PROVE FALSE
    OBVIOUS
  <2>1. \A k \in Nums : \E p \in 1..N : c.acts[p].n = k
    BY <1>1
  <2>2. \A k \in Nums : f[k] \in 1..N /\ c.acts[f[k]].n = k
    BY <2>1
  <2>3. f \in [Nums -> 1..N]
    BY <2>2
  <2> HIDE DEF f
  <2> DEFINE S == Nums
             T == 1..N
  <2>4. IsFiniteSet(S) /\ Cardinality(S) = MaxActions
    <3> DEFINE b == MaxActions
    <3>1. 1 \in Int /\ b \in Int /\ b >= 1
      BY <1>1
    <3> HIDE DEF b
    <3>2. IsFiniteSet(1..b) /\ Cardinality(1..b) = IF 1 > b THEN 0 ELSE b-1+1
      BY <3>1, FS_Interval
    <3> QED
      BY <3>1, <3>2 DEF b, Nums
  <2>5. IsFiniteSet(T) /\ Cardinality(T) = N
    <3>1. 1 \in Int /\ N \in Int
      BY <1>1
    <3> HIDE DEF N
    <3>2. IsFiniteSet(1..N) /\ Cardinality(1..N) = IF 1 > N THEN 0 ELSE N-1+1
      BY <3>1, FS_Interval
    <3>3. N \in Nat
      BY <1>1
    <3> QED
      BY <3>2, <3>3
  <2>6. Cardinality(T) < Cardinality(S) /\ f \in [S -> T]
    BY <1>1, <2>3, <2>4, <2>5
  <2> HIDE DEF S, T
  <2>7. \E x, y \in S : x # y /\ f[x] = f[y]
    BY <2>4, <2>5, <2>6, FS_PigeonHole
  <2> QED
    BY <2>2, <2>7 DEF S
<1>3. free \in SUBSET Nat
  BY DEF Nums
<1> HIDE DEF free
<1>4. PICK x \in free : \A y \in free : x <= y
  BY <1>2, <1>3, LeastNat
<1>5. Min(free) \in free
  BY <1>4 DEF Min
<1>6. Min(free) \in Nums
  BY <1>5 DEF free
<1>7. Fresh(c, u) = [unit |-> u, n |-> Min(free)]
  BY DEF Fresh, free
<1> QED
  BY <1>6, <1>7 DEF Action

\* The turn of the unit's last plan is one of the turns planned, or the first of none.
LEMMA GetTurnNumIs ==
  ASSUME NEW c, InOrder(c), NEW u
  PROVE  GetTurnNumOf(c, u) \in Nat /\ (GetTurnNumOf(c, u) < Len(c.begins) \/ GetTurnNumOf(c, u) = 0)
<1> DEFINE his == {p \in DOMAIN c.acts : c.acts[p].unit = u}
           N == Len(c.acts)
<1>1. N \in Nat /\ DOMAIN c.acts = 1..N /\ Len(c.begins) \in Nat
  BY ContainerIs DEF InOrder
<1>2. GetTurnNumOf(c, u) = IF his = {} THEN 0 ELSE GetTurn(c, Max(his))
  BY DEF GetTurnNumOf
<1>3. his \in SUBSET (1..N)
  BY <1>1
<1> HIDE DEF his
<1>4. CASE his # {}
  <2>1. Max(his) \in 1..N
    BY <1>1, <1>3, <1>4, MaxOfNumbers
  <2> DEFINE p == Max(his)
  <2>2. p \in 1..Len(c.acts)
    BY <2>1
  <2> HIDE DEF p
  <2>3. GetTurn(c, p) \in 0..Len(c.begins)-1
    BY <2>2, TurnOfAction
  <2> QED
    BY <1>1, <1>2, <1>4, <2>3 DEF p
<1> QED
  BY <1>2, <1>4

\* The turns that can be planned.
MayPlan(c, t) == t \in Nat /\ (t <= Len(c.begins) \/ (t = 1 /\ Len(c.begins) = 0))

LEMMA QueueKeeps ==
  ASSUME NEW c, InOrder(c), NEW t, MayPlan(c, t), NEW a \in Action
  PROVE  /\ InOrder(Queue(c, t, a)) /\ Len(Queue(c, t, a).acts) = Len(c.acts) + 1
         /\ Len(Queue(c, t, a).begins) \in Nat /\ Len(Queue(c, t, a).begins) > t
         /\ TurnSize(Queue(c, t, a), t) - 1 \in Nat
         /\ SafeInsert(c, t, TurnSize(Queue(c, t, a), t) - 1, a) = Queue(c, t, a)
<1> DEFINE K == Len(c.begins)
           N == Len(c.acts)
           d == Queue(c, t, a)
<1>1. K \in Nat /\ N \in Nat /\ t \in Nat /\ c.begins \in Seq(Nat) /\ c.acts \in Seq(Action)
  BY ContainerIs DEF InOrder, MayPlan
<1>2. CASE t < K
  <2> DEFINE p == TurnEnd(c, t)
             u == t + 1
  <2>1. p \in 1..N+1 /\ TurnBegin(c, t) \in 1..N+1 /\ TurnBegin(c, t) = c.begins[t + 1] /\ p = TurnBegin(c, u)
    BY <1>1, <1>2, TurnBegins
  <2>2. d = Grown(c, t, p, a)
    BY <1>1, <1>2, QueueGrows
  <2>3. u \in Nat /\ u + 1 = t + 2 /\ u \in 1..K
    BY <1>1, <1>2
  <2>4. (u < K => TurnBegin(c, u) = c.begins[u + 1]) /\ (u >= K => TurnBegin(c, u) = N + 1)
    <3> HIDE DEF u
    <3> QED
      BY <2>3, TurnBegins
  <2>5. InOrder(d) /\ Len(d.acts) = N + 1
    <3> HIDE DEF p, d
    <3>1. InOrder(Grown(c, t, p, a)) /\ Len(Grown(c, t, p, a).acts) = N + 1
      BY <1>1, <1>2, <2>1, GrownIs, GrownLength
    <3> QED
      BY <2>2, <3>1
  <2>6. Len(d.begins) = K /\ \A i \in 1..K : d.begins[i] = IF i <= t + 1 THEN c.begins[i] ELSE c.begins[i] + 1
    <3>1. d.begins = [i \in 1..K |-> IF i <= t + 1 THEN c.begins[i] ELSE c.begins[i] + 1]
      BY <2>2 DEF Grown
    <3> HIDE DEF d
    <3> QED
      BY <1>1, <3>1
  <2> HIDE DEF d, p
  <2>7. TurnBegin(d, t) = TurnBegin(c, t)
    <3>1. TurnBegin(d, t) = d.begins[t + 1]
      BY <1>1, <1>2, <2>5, <2>6, TurnBegins
    <3> QED
      BY <1>1, <2>1, <2>3, <2>6, <3>1
  <2>8. TurnEnd(d, t) = p + 1
    <3>1. TurnEnd(d, t) = TurnBegin(d, u)
      BY <1>1, <2>5, TurnBegins
    <3> HIDE DEF u
    <3>2. (u < K => TurnBegin(d, u) = d.begins[u + 1]) /\ (u >= K => TurnBegin(d, u) = (N + 1) + 1)
      BY <2>3, <2>5, <2>6, TurnBegins
    <3>3. CASE u < K
      <4>1. u + 1 \in 1..K /\ ~(u + 1 <= t + 1)
        BY <1>1, <2>3, <3>3
      <4>2. d.begins[u + 1] = c.begins[u + 1] + 1
        BY <2>6, <4>1
      <4> QED
        BY <2>1, <2>4, <3>1, <3>2, <3>3, <4>2
    <3>4. CASE u >= K
      BY <2>1, <2>4, <3>1, <3>2, <3>4
    <3> QED
      BY <1>1, <2>3, <3>3, <3>4
  <2> DEFINE z == TurnSize(c, t)
  <2>9. z \in Nat /\ TurnBegin(c, t) + z = p
    BY <1>1, TurnSizeIs DEF p
  <2> HIDE DEF z, u
  <2>10. TurnSize(d, t) - 1 = z
    <3>1. TurnSize(d, t) = TurnEnd(d, t) - TurnBegin(d, t)
      BY DEF TurnSize
    <3> DEFINE y == TurnBegin(c, t)
    <3>2. y \in Nat /\ p \in Nat
      BY <1>1, <2>1
    <3>3. TurnSize(d, t) = (p + 1) - y /\ y + z = p
      BY <2>7, <2>8, <2>9, <3>1
    <3> HIDE DEF y
    <3> QED
      BY <2>9, <3>2, <3>3
  <2>11. SafeInsert(c, t, z, a) = Grown(c, t, TurnBegin(c, t) + z, a)
    <3>1. z \in 0..TurnSize(c, t)
      BY <2>9 DEF z
    <3> QED
      BY <1>1, <1>2, <3>1, SafeInsertGrows
  <2>12. SafeInsert(c, t, TurnSize(d, t) - 1, a) = d
    BY <2>2, <2>9, <2>10, <2>11
  <2>13. Len(d.begins) \in Nat /\ Len(d.begins) > t /\ TurnSize(d, t) - 1 \in Nat
    BY <1>1, <1>2, <2>6, <2>9, <2>10
  <2> QED
    BY <2>5, <2>12, <2>13 DEF d
<1>3. CASE t = K \/ (t = 1 /\ K = 0)
  <2>1. d = Opened(c, t, a)
    BY <1>1, <1>3, QueueOpens
  <2>2. InOrder(d) /\ Len(d.acts) = N + 1
    <3>1. N + 1 \in 1..N+1
      BY <1>1
    <3> DEFINE p == N + 1
    <3> HIDE DEF p
    <3>2. InOrder(Opened(c, t, a)) /\ Len(Opened(c, t, a).acts) = N + 1
      BY <1>1, <3>1, OpenedIs, GrownLength DEF p
    <3> QED
      BY <2>1, <3>2
  <2>3. Len(d.begins) = t + 1 /\ d.begins[t + 1] = N + 1
    <3>1. d.begins = IF t = 1 /\ K = 0 THEN <<1, 1>> ELSE Append(c.begins, N + 1)
      BY <2>1 DEF Opened
    <3>2. K = 0 => N = 0
      BY OrderRises DEF Rising
    <3>3. CASE t = 1 /\ K = 0
      <4>1. d.begins = <<1, 1>> /\ t + 1 = 2 /\ N + 1 = 1
        BY <3>1, <3>2, <3>3
      <4> HIDE DEF d
      <4> QED
        BY <4>1
    <3>4. CASE ~(t = 1 /\ K = 0)
      <4>1. d.begins = Append(c.begins, N + 1) /\ t = K
        BY <1>3, <3>1, <3>4
      <4> HIDE DEF d
      <4> QED
        BY <1>1, <4>1
    <3> QED
      BY <3>3, <3>4
  <2> HIDE DEF d
  <2>4. TurnBegin(d, t) = N + 1
    <3>1. t < Len(d.begins)
      BY <1>1, <2>3
    <3>2. TurnBegin(d, t) = d.begins[t + 1]
      BY <1>1, <2>2, <3>1, TurnBegins
    <3> QED
      BY <2>3, <3>2
  <2>5. TurnEnd(d, t) = (N + 1) + 1
    <3> DEFINE u == t + 1
    <3>1. u \in Nat /\ u >= Len(d.begins)
      BY <1>1, <2>3
    <3>2. TurnEnd(d, t) = TurnBegin(d, u)
      BY <1>1, <2>2, TurnBegins
    <3> HIDE DEF u
    <3> QED
      BY <2>2, <3>1, <3>2, TurnBegins
  <2>6. TurnSize(d, t) - 1 = 0
    <3>1. TurnSize(d, t) = TurnEnd(d, t) - TurnBegin(d, t)
      BY DEF TurnSize
    <3> QED
      BY <1>1, <2>4, <2>5, <3>1
  <2>7. SafeInsert(c, t, 0, a) = Opened(c, t, a)
    BY <1>1, <1>3, SafeInsertOpens
  <2> QED
    BY <1>1, <2>1, <2>2, <2>3, <2>6, <2>7 DEF d
<1> QED
  BY <1>1, <1>2, <1>3 DEF MayPlan

-----------------------------------------------------------------------------
(* The ally and the commands it is sent. *)

Inserts   == [type : {"insert"}, turn : Nat, pos : Nat, action : Action]
Replaces  == [type : {"replace"}, turn : Nat, pos : Nat, action : Action]
Removes   == [type : {"remove"}, turn : Nat, pos : Nat]
Bumps     == [type : {"bump_later"}, turn : Nat, pos : Nat]
Refreshes == [type : {"refresh"}, cmds : Seq(Inserts)]
Plain     == Inserts \cup Replaces \cup Removes \cup Bumps
Cmds      == Plain \cup {NetClear} \cup Refreshes

Packets == [cmds : Seq(Cmds), dies : SUBSET Units]
Allies  == [list : Lists, gone : SUBSET Units, dropped : BOOLEAN]

\* What an ally is when another list takes the place of its own, when it dropped a command,
\* and when it starts afresh.
LEMMA AllyWith ==
  ASSUME NEW a \in Allies, NEW x \in Lists
  PROVE  /\ [a EXCEPT !.list = x] \in Allies /\ [a EXCEPT !.list = x].list = x
         /\ [a EXCEPT !.list = x].gone = a.gone /\ [a EXCEPT !.list = x].dropped = a.dropped
BY DEF Allies

LEMMA AllyDrops ==
  ASSUME NEW a \in Allies
  PROVE  /\ [a EXCEPT !.dropped = TRUE] \in Allies /\ [a EXCEPT !.dropped = TRUE].list = a.list
         /\ [a EXCEPT !.dropped = TRUE].gone = a.gone /\ [a EXCEPT !.dropped = TRUE].dropped
BY DEF Allies

LEMMA AllyClears ==
  ASSUME NEW a \in Allies
  PROVE  LET e == [a EXCEPT !.list = Empty, !.dropped = FALSE]
         IN  e \in Allies /\ e.list = Empty /\ e.gone = a.gone
BY EmptyIs DEF Allies

LEMMA AllyIs ==
  ASSUME NEW a \in Allies
  PROVE  a.list \in Lists /\ a.gone \in SUBSET Units /\ a.dropped \in BOOLEAN
         /\ (a.list.fault = "none" => InOrder(a.list))
BY ListsIs DEF Allies

\* After a command an ally has the same dead, and what it dropped it has dropped.
SameAlly(r, a)  == r \in Allies /\ r.gone = a.gone
StaysAlly(r, a) == SameAlly(r, a) /\ (a.dropped => r.dropped)

LEMMA RanInsert ==
  ASSUME NEW a \in Allies, NEW cmd \in Inserts, a.list.fault = "none"
  PROVE  Ran(a, cmd) = IF ~Dead(cmd.action, a.gone)
                       THEN [a EXCEPT !.list = SafeInsert(a.list, cmd.turn, cmd.pos, cmd.action)]
                       ELSE [a EXCEPT !.dropped = TRUE]
<1>1. cmd.type = "insert"
  BY DEF Inserts
<1> QED
  BY <1>1, Zenon DEF Ran

LEMMA RanReplace ==
  ASSUME NEW a \in Allies, NEW cmd \in Replaces, a.list.fault = "none", NEW p, p = TurnBegin(a.list, cmd.turn) + cmd.pos
  PROVE  Ran(a, cmd) = IF ~Dead(cmd.action, a.gone) /\ ~(p >= End(a.list) \/ GetTurn(a.list, p) # cmd.turn)
                       THEN [a EXCEPT !.list.acts[p] = cmd.action]
                       ELSE [a EXCEPT !.dropped = TRUE]
<1>1. cmd.type = "replace" /\ cmd.type # "insert"
  BY DEF Replaces
<1> QED
  BY <1>1, Zenon DEF Ran

LEMMA RanRemove ==
  ASSUME NEW a \in Allies, NEW cmd \in Removes, a.list.fault = "none", NEW p, p = TurnBegin(a.list, cmd.turn) + cmd.pos
  PROVE  Ran(a, cmd) = IF p >= End(a.list) \/ GetTurn(a.list, p) # cmd.turn
                       THEN [a EXCEPT !.dropped = TRUE]
                       ELSE [a EXCEPT !.list = Erase(a.list, p)]
<1>1. cmd.type = "remove" /\ cmd.type # "insert" /\ cmd.type # "replace"
  BY DEF Removes
<1> QED
  BY <1>1, Zenon DEF Ran

LEMMA RanBump ==
  ASSUME NEW a \in Allies, NEW cmd \in Bumps, a.list.fault = "none", NEW p, p = TurnBegin(a.list, cmd.turn) + cmd.pos
  PROVE  Ran(a, cmd) = IF p + 1 >= End(a.list) \/ GetTurn(a.list, p) # cmd.turn
                       THEN [a EXCEPT !.dropped = TRUE]
                       ELSE IF BumpAllowed(a.list, p + 1, a.gone)
                       THEN [a EXCEPT !.list = Bumped(a.list, p + 1, a.gone)]
                       ELSE a
<1>1. cmd.type = "bump_later" /\ cmd.type # "insert" /\ cmd.type # "replace" /\ cmd.type # "remove"
  BY DEF Bumps
<1> QED
  BY <1>1, Zenon DEF Ran

LEMMA RanStopped ==
  ASSUME NEW a, NEW cmd, a.list.fault # "none"
  PROVE  Ran(a, cmd) = a /\ \A refuses \in BOOLEAN : Executed(a, cmd, refuses) = a
<1>1. Ran(a, cmd) = a
  BY Zenon DEF Ran
<1>2. \A refuses \in BOOLEAN : Executed(a, cmd, refuses) = a
  BY Zenon DEF Executed
<1> QED
  BY <1>1, <1>2

LEMMA RanKeeps ==
  ASSUME NEW a \in Allies, NEW cmd \in Plain
  PROVE  StaysAlly(Ran(a, cmd), a)
<1> DEFINE c == a.list
           p == TurnBegin(c, cmd.turn) + cmd.pos
           drop == [a EXCEPT !.dropped = TRUE]
<1>0. StaysAlly(a, a) /\ StaysAlly(drop, a) /\ \A x \in Lists : StaysAlly([a EXCEPT !.list = x], a)
  BY AllyDrops, AllyWith DEF StaysAlly, SameAlly
<1> HIDE DEF drop
<1>1. CASE c.fault # "none"
  BY <1>0, <1>1, RanStopped
<1>2. CASE c.fault = "none"
  <2>1. InOrder(c)
    BY <1>2, AllyIs
  <2>2. CASE cmd \in Inserts
    <3> DEFINE x == SafeInsert(c, cmd.turn, cmd.pos, cmd.action)
    <3>1. cmd.turn \in Nat /\ cmd.pos \in Nat /\ cmd.action \in Action
      BY <2>2 DEF Inserts
    <3>2. x \in Lists
      BY <2>1, <3>1, SafeInsertKeeps
    <3>3. Ran(a, cmd) = IF ~Dead(cmd.action, a.gone) THEN [a EXCEPT !.list = x] ELSE drop
      BY <1>2, <2>2, RanInsert DEF drop
    <3> HIDE DEF x
    <3> QED
      BY <1>0, <3>2, <3>3
  <2>3. CASE cmd \in Replaces \cup Removes \cup Bumps
    <3>0. cmd.turn \in Nat /\ cmd.pos \in Nat
      BY <2>3 DEF Replaces, Removes, Bumps
    <3>1. p \in Nat /\ p >= 1 /\ Len(c.acts) \in Nat /\ End(c) = Len(c.acts) + 1
      <4>1. TurnBegin(c, cmd.turn) \in 1..Len(c.acts)+1 /\ Len(c.acts) \in Nat
        BY <2>1, <3>0, TurnBegins
      <4> QED
        BY <3>0, <4>1 DEF End
    <3> HIDE DEF p
    <3>2. p < End(c) => p \in 1..Len(c.acts)
      BY <3>1
    <3>3. CASE cmd \in Replaces
      <4>1. Ran(a, cmd) = IF ~Dead(cmd.action, a.gone) /\ ~(p >= End(c) \/ GetTurn(c, p) # cmd.turn)
                          THEN [a EXCEPT !.list.acts[p] = cmd.action] ELSE drop
        BY <1>2, <3>3, RanReplace DEF drop, p
      <4>2. cmd.action \in Action
        BY <3>3 DEF Replaces
      <4> DEFINE x == [c EXCEPT !.acts[p] = cmd.action]
      <4>3. [a EXCEPT !.list.acts[p] = cmd.action] = [a EXCEPT !.list = x]
        BY Zenon
      <4>4. CASE p < End(c)
        <5>1. InOrder(x)
          BY <2>1, <3>2, <4>2, <4>4, ReplacedIs
        <5>2. x \in Lists
          BY <5>1, InOrderList
        <5> HIDE DEF x
        <5> QED
          BY <1>0, <4>1, <4>3, <5>2
      <4>5. CASE ~(p < End(c))
        <5>1. p >= End(c)
          BY <3>1, <4>5
        <5> QED
          BY <1>0, <4>1, <5>1
      <4> QED
        BY <4>4, <4>5
    <3>4. CASE cmd \in Removes
      <4>1. Ran(a, cmd) = IF p >= End(c) \/ GetTurn(c, p) # cmd.turn THEN drop ELSE [a EXCEPT !.list = Erase(c, p)]
        BY <1>2, <3>4, RanRemove DEF drop, p
      <4>2. CASE p < End(c)
        <5>1. Erase(c, p) \in Lists
          BY <2>1, <3>2, <4>2, EraseKeeps
        <5> QED
          BY <1>0, <4>1, <5>1
      <4>3. CASE ~(p < End(c))
        <5>1. p >= End(c)
          BY <3>1, <4>3
        <5> QED
          BY <1>0, <4>1, <5>1
      <4> QED
        BY <4>2, <4>3
    <3>5. CASE cmd \in Bumps
      <4> DEFINE r == p + 1
      <4>1. Ran(a, cmd) = IF r >= End(c) \/ GetTurn(c, p) # cmd.turn THEN drop
                          ELSE IF BumpAllowed(c, r, a.gone) THEN [a EXCEPT !.list = Bumped(c, r, a.gone)]
                          ELSE a
        BY <1>2, <3>5, RanBump DEF drop, p
      <4>2. CASE r < End(c)
        <5>1. r \in 2..Len(c.acts)
          BY <3>1, <4>2
        <5> HIDE DEF r
        <5>2. Bumped(c, r, a.gone) \in Lists
          BY <2>1, <5>1, BumpedIs
        <5> QED
          BY <1>0, <4>1, <5>2
      <4>3. CASE ~(r < End(c))
        <5>1. r >= End(c)
          BY <3>1, <4>3
        <5> QED
          BY <1>0, <4>1, <5>1
      <4> QED
        BY <4>2, <4>3
    <3> QED
      BY <2>3, <3>3, <3>4, <3>5
  <2> QED
    BY <2>2, <2>3 DEF Plain
<1> QED
  BY <1>1, <1>2

\* The insert commands of a refresh.
LEMMA RefreshKeeps ==
  ASSUME NEW a \in Allies, NEW cmds \in Seq(Inserts)
  PROVE  StaysAlly(FoldLeft(Ran, a, cmds), a)
<1> DEFINE N == Len(cmds)
<1>1. N \in Nat /\ DOMAIN cmds = 1..N /\ \A n \in 1..N : cmds[n] \in Inserts
  OBVIOUS
<1> HIDE DEF N
<1>2. PICK q : /\ q[0] = a
               /\ \A n \in 1..N : q[n] = Ran(q[n - 1], cmds[n])
               /\ FoldLeft(Ran, a, cmds) = q[N]
  <2>1. \E q : RunPath(q, a, cmds, N)
    BY <1>1, RunsFollow
  <2> QED
    BY <2>1, Zenon DEF RunPath
<1> DEFINE H == {n \in 0..N : StaysAlly(q[n], a)}
<1>3. 0 \in H
  BY <1>1, <1>2 DEF StaysAlly, SameAlly
<1>4. ASSUME NEW n \in 0..N, n # 0, n - 1 \in H PROVE n \in H
  <2>1. n \in 1..N /\ q[n] = Ran(q[n - 1], cmds[n]) /\ q[n - 1] \in Allies /\ cmds[n] \in Inserts
        /\ StaysAlly(q[n - 1], a)
    BY <1>1, <1>2, <1>4 DEF StaysAlly, SameAlly
  <2>2. StaysAlly(Ran(q[n - 1], cmds[n]), q[n - 1])
    <3> DEFINE x == q[n - 1]
               cmd == cmds[n]
    <3>1. x \in Allies /\ cmd \in Plain
      BY <2>1 DEF Plain
    <3> HIDE DEF x, cmd
    <3>2. StaysAlly(Ran(x, cmd), x)
      BY <3>1, RanKeeps
    <3> QED
      BY <3>2, Zenon DEF x, cmd
  <2> QED
    BY <2>1, <2>2 DEF StaysAlly, SameAlly
<1>5. N \in H
  <2>1. \A n \in 0..N : n # 0 /\ n - 1 \in H => n \in H
    BY <1>4
  <2> HIDE DEF H
  <2>2. 0 \in Nat /\ N \in Nat
    BY <1>1
  <2>3. \A n \in 0..N : n \in H
    BY <1>3, <2>1, <2>2, UpFrom, Zenon
  <2> QED
    BY <2>2, <2>3
<1> QED
  BY <1>2, <1>5

\* A bump may be refused; all other commands are run by an ally that works.
LEMMA ExecutedPlain ==
  ASSUME NEW a, a.list.fault = "none", NEW cmd \in Plain, NEW refuses \in BOOLEAN
  PROVE  Executed(a, cmd, refuses) = [a EXCEPT !.dropped = TRUE] \/ Executed(a, cmd, refuses) = Ran(a, cmd)
<1>1. cmd.type # "clear" /\ cmd.type # "refresh"
  BY DEF Plain, Inserts, Replaces, Removes, Bumps
<1> QED
  BY <1>1, Zenon DEF Executed

LEMMA ExecutedKeeps ==
  ASSUME NEW a \in Allies, NEW cmd \in Cmds, NEW refuses \in BOOLEAN
  PROVE  SameAlly(Executed(a, cmd, refuses), a)
<1> DEFINE e == [a EXCEPT !.list = Empty, !.dropped = FALSE]
<1>1. SameAlly(a, a) /\ SameAlly([a EXCEPT !.dropped = TRUE], a)
  BY AllyDrops DEF SameAlly
<1>2. e \in Allies /\ e.gone = a.gone
  BY AllyClears
<1> HIDE DEF e
<1>3. CASE a.list.fault # "none"
  BY <1>1, <1>3, RanStopped
<1>4. CASE a.list.fault = "none" /\ cmd \in Plain
  <2>1. StaysAlly(Ran(a, cmd), a)
    BY <1>4, RanKeeps
  <2> QED
    BY <1>1, <1>4, <2>1, ExecutedPlain DEF StaysAlly
<1>5. CASE a.list.fault = "none" /\ cmd = NetClear
  <2>1. cmd.type = "clear"
    BY <1>5 DEF NetClear
  <2>2. Executed(a, cmd, refuses) = e
    BY <1>5, <2>1, Zenon DEF Executed, e
  <2> QED
    BY <1>2, <2>2 DEF SameAlly
<1>6. CASE a.list.fault = "none" /\ cmd \in Refreshes
  <2>1. cmd.type = "refresh" /\ cmd.type # "clear" /\ cmd.cmds \in Seq(Inserts)
    BY <1>6 DEF Refreshes
  <2>2. Executed(a, cmd, refuses) = FoldLeft(Ran, e, cmd.cmds)
    BY <1>6, <2>1, Zenon DEF Executed, e
  <2>3. StaysAlly(FoldLeft(Ran, e, cmd.cmds), e)
    BY <1>2, <2>1, RefreshKeeps
  <2> QED
    BY <1>2, <2>2, <2>3 DEF StaysAlly, SameAlly
<1> QED
  BY <1>3, <1>4, <1>5, <1>6 DEF Cmds

-----------------------------------------------------------------------------
(* The plans told from the beginning (refresh). *)

\* The first k plans of a container.
Prefix(c, k) ==
  [acts   |-> SubSeq(c.acts, 1, k),
   begins |-> IF k = 0 THEN <<>> ELSE SubSeq(c.begins, 1, GetTurn(c, k) + 1),
   fault  |-> "none"]

LEMMA PrefixIs ==
  ASSUME NEW c, InOrder(c), NEW k \in 1..Len(c.acts)
  PROVE  LET e == Prefix(c, k)
             n == GetTurn(c, k) + 1
         IN  /\ e = [acts |-> e.acts, begins |-> e.begins, fault |-> "none"]
             /\ e.acts \in Seq(Action) /\ Len(e.acts) = k /\ \A i \in 1..k : e.acts[i] = c.acts[i]
             /\ e.begins \in Seq(Nat) /\ Len(e.begins) = n /\ \A i \in 1..n : e.begins[i] = c.begins[i]
<1> DEFINE t == GetTurn(c, k)
           n == t + 1
<1>1. c.acts \in Seq(Action) /\ c.begins \in Seq(Nat) /\ Len(c.begins) \in Nat /\ Len(c.acts) \in Nat
  BY ContainerIs DEF InOrder
<1>2. t \in 0..Len(c.begins)-1
  BY TurnOfAction
<1>3. n \in 0..Len(c.begins) /\ k \in 0..Len(c.acts) /\ k # 0
  BY <1>1, <1>2
<1> HIDE DEF n, t
<1>4. /\ SubSeq(c.acts, 1, k) \in Seq(Action) /\ Len(SubSeq(c.acts, 1, k)) = k
      /\ \A i \in 1..k : SubSeq(c.acts, 1, k)[i] = c.acts[i]
  BY <1>1, <1>3, BeginIs
<1>5. /\ SubSeq(c.begins, 1, n) \in Seq(Nat) /\ Len(SubSeq(c.begins, 1, n)) = n
      /\ \A i \in 1..n : SubSeq(c.begins, 1, n)[i] = c.begins[i]
  BY <1>1, <1>3, BeginIs
<1>6. Prefix(c, k) = [acts |-> SubSeq(c.acts, 1, k), begins |-> SubSeq(c.begins, 1, n), fault |-> "none"]
  BY <1>3 DEF Prefix, n, t
<1> QED
  BY <1>4, <1>5, <1>6 DEF n, t

LEMMA PrefixNone ==
  ASSUME NEW c, InOrder(c)
  PROVE  Prefix(c, 0) = Empty
<1>1. c.acts \in Seq(Action) /\ Len(c.acts) \in Nat
  BY ContainerIs DEF InOrder
<1>2. SubSeq(c.acts, 1, 0) \in Seq(Action) /\ Len(SubSeq(c.acts, 1, 0)) = 0
  <2>1. 0 \in 0..Len(c.acts)
    BY <1>1
  <2> QED
    BY <1>1, <2>1, BeginIs
<1>3. SubSeq(c.acts, 1, 0) = <<>>
  BY <1>2
<1> QED
  BY <1>3 DEF Prefix, Empty

LEMMA PrefixAll ==
  ASSUME NEW c, InOrder(c)
  PROVE  Prefix(c, Len(c.acts)) = c
<1> DEFINE N == Len(c.acts)
           K == Len(c.begins)
<1>1. c = [acts |-> c.acts, begins |-> c.begins, fault |-> "none"] /\ c.acts \in Seq(Action) /\ c.begins \in Seq(Nat)
      /\ N \in Nat /\ K \in Nat
  BY ContainerIs DEF InOrder
<1>2. K = 0 <=> N = 0
  BY OrderRises DEF Rising
<1>3. CASE N = 0
  <2>1. c.acts = <<>> /\ c.begins = <<>>
    BY <1>1, <1>2, <1>3
  <2>2. Prefix(c, N) = Empty
    BY <1>3, PrefixNone
  <2> QED
    BY <1>1, <2>1, <2>2 DEF Empty
<1>4. CASE N # 0
  <2>1. N \in 1..N /\ K >= 1
    BY <1>1, <1>2, <1>4
  <2> DEFINE t == GetTurn(c, N)
             e == Prefix(c, N)
  <2>2. t = K - 1
    <3> DEFINE u == K - 1
    <3>1. u \in Nat /\ u < K /\ u + 1 = K
      BY <1>1, <2>1
    <3> HIDE DEF u
    <3>2. TurnBegin(c, u) <= N /\ TurnBegin(c, u) \in 1..N+1
      BY <3>1, TurnBegins
    <3>3. TurnEnd(c, u) = N + 1
      <4>1. TurnEnd(c, u) = TurnBegin(c, u + 1)
        BY <3>1, TurnBegins
      <4>2. TurnBegin(c, K) = N + 1
        BY <1>1, TurnBegins
      <4> QED
        BY <3>1, <4>1, <4>2
    <3>4. N < TurnEnd(c, u)
      BY <1>1, <3>3
    <3>5. GetTurn(c, N) = u
      <4> HIDE DEF K
      <4> QED
        BY <2>1, <3>1, <3>2, <3>4, OneTurn
    <3> QED
      BY <3>5 DEF u
  <2>3. /\ e = [acts |-> e.acts, begins |-> e.begins, fault |-> "none"]
        /\ e.acts \in Seq(Action) /\ Len(e.acts) = N /\ \A i \in 1..N : e.acts[i] = c.acts[i]
        /\ e.begins \in Seq(Nat) /\ Len(e.begins) = t + 1 /\ \A i \in 1..t+1 : e.begins[i] = c.begins[i]
    BY <2>1, PrefixIs
  <2>4. t + 1 = K
    BY <1>1, <2>2
  <2> HIDE DEF e, t
  <2>5. e.acts = c.acts
    BY <1>1, <2>3, SameSequence
  <2>6. e.begins = c.begins
    BY <1>1, <2>3, <2>4, SameSequence
  <2> QED
    BY <1>1, <2>3, <2>5, <2>6 DEF e
<1> QED
  BY <1>3, <1>4

\* The insert command of the next plan adds it.
LEMMA PrefixNext ==
  ASSUME NEW c, InOrder(c), NEW k \in 1..Len(c.acts), InOrder(Prefix(c, k - 1))
  PROVE  /\ SafeInsert(Prefix(c, k - 1), GetTurn(c, k), PositionInTurn(c, k), c.acts[k]) = Prefix(c, k)
         /\ InOrder(Prefix(c, k))
<1> DEFINE N == Len(c.acts)
           b == c.begins
           K == Len(b)
           t == GetTurn(c, k)
           pos == PositionInTurn(c, k)
           a == c.acts[k]
           h == k - 1
           e == Prefix(c, h)
           f == Prefix(c, k)
           n == t + 1
<1>0. Rising(b, N)
  BY OrderRises
<1>1. /\ N \in Nat /\ K \in Nat /\ (K # 0 => b[1] = 1)
      /\ \A i, j \in 1..K : (i <= j => b[i] <= b[j]) /\ (i < j /\ j >= 3 => b[i] < b[j])
  BY <1>0 DEF Rising
<1>2. c.acts \in Seq(Action) /\ b \in Seq(Nat) /\ a \in Action
  BY ContainerIs DEF InOrder
<1>3. t \in 0..K-1 /\ TurnBegin(c, t) <= k /\ k < TurnEnd(c, t) /\ pos \in Nat /\ TurnBegin(c, t) + pos = k
  BY TurnOfAction
<1>4. /\ f = [acts |-> f.acts, begins |-> f.begins, fault |-> "none"]
      /\ f.acts \in Seq(Action) /\ Len(f.acts) = k /\ \A i \in 1..k : f.acts[i] = c.acts[i]
      /\ f.begins \in Seq(Nat) /\ Len(f.begins) = n /\ \A i \in 1..n : f.begins[i] = b[i]
  BY PrefixIs
<1> HIDE DEF t, pos, f, a
<1>5. k \in Nat /\ k >= 1 /\ k <= N /\ t \in Nat /\ t < K /\ n \in 1..K /\ n \in Nat
  BY <1>1, <1>3
<1>6. TurnBegin(c, t) = b[n] /\ TurnBegin(c, t) \in 1..N+1
  BY <1>5, TurnBegins
<1>7. InOrder(e)
  OBVIOUS
<1> HIDE DEF b, K
\* Its acts and a make those of f.
<1>8. ASSUME NEW s \in Seq(Action), Len(s) = h, \A i \in 1..h : s[i] = c.acts[i]
      PROVE  InsertAt(s, k, a) = f.acts
  <2>1. k \in 1..Len(s)+1
    BY <1>5, <1>8
  <2>2. /\ InsertAt(s, k, a) \in Seq(Action) /\ Len(InsertAt(s, k, a)) = Len(s) + 1
        /\ \A i \in 1..Len(s)+1 : InsertAt(s, k, a)[i] = IF i < k THEN s[i] ELSE IF i = k THEN a ELSE s[i - 1]
    <3>1. a \in Action
      BY <1>2
    <3>2. s \in Seq(Action)
      BY <1>8
    <3> HIDE DEF h, n, e
    <3> QED
      BY <2>1, <3>1, <3>2, InsertAtIs
  <2> DEFINE r == InsertAt(s, k, a)
  <2> HIDE DEF r
  <2>3. r \in Seq(Action) /\ Len(r) = k
    BY <1>5, <1>8, <2>2 DEF r
  <2>4. ASSUME NEW i \in 1..k PROVE r[i] = f.acts[i]
    <3>1. r[i] = IF i < k THEN s[i] ELSE IF i = k THEN a ELSE s[i - 1]
      BY <1>5, <1>8, <2>2 DEF r
    <3>2. i < k => s[i] = c.acts[i]
      BY <1>5, <1>8
    <3>3. f.acts[i] = c.acts[i] /\ (i < k \/ i = k)
      BY <1>4
    <3> QED
      BY <3>1, <3>2, <3>3 DEF a
  <2> QED
    BY <1>4, <2>3, <2>4, SameSequence DEF r
<1>9. CASE pos # 0
  <2>1. h \in 1..N /\ TurnBegin(c, t) <= h /\ h < TurnEnd(c, t)
    <3>1. TurnEnd(c, t) \in 1..N+1
      BY <1>5, TurnBegins
    <3> QED
      BY <1>1, <1>3, <1>5, <1>6, <1>9, <3>1
  <2>2. GetTurn(c, h) = t
    <3> HIDE DEF h, N
    <3> QED
      BY <1>5, <2>1, OneTurn DEF N
  <2>3. /\ e = [acts |-> e.acts, begins |-> e.begins, fault |-> "none"]
        /\ e.acts \in Seq(Action) /\ Len(e.acts) = h /\ \A i \in 1..h : e.acts[i] = c.acts[i]
        /\ e.begins \in Seq(Nat) /\ Len(e.begins) = n /\ \A i \in 1..n : e.begins[i] = b[i]
    <3> HIDE DEF h
    <3>1. h \in 1..Len(c.acts)
      BY <2>1
    <3> QED
      BY <2>2, <3>1, PrefixIs DEF b
  <2> HIDE DEF e
  <2>4. TurnBegin(e, t) = TurnBegin(c, t)
    <3>1. t < Len(e.begins)
      BY <1>5, <2>3
    <3>2. TurnBegin(e, t) = e.begins[t + 1]
      BY <1>5, <1>7, <3>1, TurnBegins
    <3> QED
      BY <1>5, <1>6, <2>3, <3>2
  <2>5. TurnEnd(e, t) = k
    <3>1. TurnEnd(e, t) = TurnBegin(e, n)
      BY <1>5, <1>7, TurnBegins
    <3>2. n >= Len(e.begins)
      BY <1>5, <2>3
    <3>3. TurnBegin(e, n) = h + 1
      <4> HIDE DEF n, h
      <4> QED
        BY <1>5, <1>7, <2>3, <3>2, TurnBegins
    <3> QED
      BY <1>5, <3>1, <3>3
  <2>6. pos \in 0..TurnSize(e, t) /\ t < Len(e.begins)
    <3>1. TurnSize(e, t) = k - TurnBegin(c, t)
      BY <2>4, <2>5 DEF TurnSize
    <3>2. TurnBegin(c, t) \in Nat
      BY <1>6
    <3> QED
      BY <1>3, <1>5, <2>3, <3>1, <3>2
  <2>7. SafeInsert(e, t, pos, a) = Grown(e, t, k, a)
    <3>1. SafeInsert(e, t, pos, a) = Grown(e, t, TurnBegin(e, t) + pos, a)
      BY <1>2, <1>5, <1>7, <2>6, SafeInsertGrows
    <3> QED
      BY <1>3, <2>4, <3>1
  <2>8. InOrder(Grown(e, t, k, a))
    <3>1. k \in 1..Len(e.acts)+1
      BY <1>5, <2>3
    <3> QED
      BY <1>2, <1>5, <1>7, <2>6, <3>1, GrownIs
  <2>9. Grown(e, t, k, a) = f
    <3> DEFINE g == Grown(e, t, k, a)
    <3>1. g = [acts |-> InsertAt(e.acts, k, a),
               begins |-> [i \in 1..n |-> IF i <= n THEN e.begins[i] ELSE e.begins[i] + 1], fault |-> "none"]
      BY <2>3 DEF Grown
    <3>2. [i \in 1..n |-> IF i <= n THEN e.begins[i] ELSE e.begins[i] + 1] = f.begins
      <4> DEFINE x == [i \in 1..n |-> IF i <= n THEN e.begins[i] ELSE e.begins[i] + 1]
      <4>1. \A i \in 1..n : x[i] = b[i] /\ b[i] \in Nat
        <5>1. \A i \in 1..n : i <= n
          BY <1>5
        <5>2. \A i \in 1..n : e.begins[i] \in Nat
          BY <1>5, <2>3
        <5> QED
          BY <2>3, <5>1, <5>2
      <4> HIDE DEF n
      <4>2. x \in Seq(Nat) /\ Len(x) = n
        <5>1. x = [i \in 1..n |-> x[i]]
          OBVIOUS
        <5>2. \A i \in 1..n : x[i] \in Nat
          BY <4>1
        <5> HIDE DEF x
        <5>3. x \in [1..n -> Nat]
          BY <5>1, <5>2
        <5> QED
          BY <1>5, <5>3
      <4> HIDE DEF x
      <4>3. /\ x \in Seq(Nat) /\ f.begins \in Seq(Nat) /\ Len(x) = Len(f.begins)
            /\ \A i \in 1..Len(x) : x[i] = f.begins[i]
        BY <1>4, <4>1, <4>2
      <4>4. x = f.begins
        BY <4>3, SameSequence
      <4> QED
        BY <4>4 DEF x
    <3>3. InsertAt(e.acts, k, a) = f.acts
      BY <1>8, <2>3
    <3> QED
      BY <1>4, <3>1, <3>2, <3>3
  <2> QED
    BY <2>7, <2>8, <2>9 DEF e, h, f, t, pos, a
<1>10. CASE pos = 0
  <2>1. b[n] = k
    BY <1>3, <1>6, <1>10
  <2>2. /\ e = [acts |-> e.acts, begins |-> e.begins, fault |-> "none"]
        /\ e.acts \in Seq(Action) /\ Len(e.acts) = h /\ \A i \in 1..h : e.acts[i] = c.acts[i]
        /\ e.begins \in Seq(Nat)
        /\ \/ Len(e.begins) = t /\ \A i \in 1..t : e.begins[i] = b[i]
           \/ Len(e.begins) = 0 /\ t = 1 /\ h = 0
    <3>1. CASE k = 1
      <4>1. h = 0 /\ e = Empty
        BY <3>1, PrefixNone
      <4>2. e.acts = <<>> /\ e.begins = <<>> /\ e.fault = "none"
        BY <4>1 DEF Empty
      <4>3. t = 0 \/ t = 1
        <5> SUFFICES ASSUME t >= 2 PROVE FALSE
          BY <1>5
        <5>1. 1 \in 1..K /\ 1 < n /\ n >= 3 /\ K # 0
          BY <1>1, <1>5
        <5>2. b[1] < b[n] /\ b[1] = 1
          BY <1>1, <1>5, <5>1
        <5> QED
          BY <2>1, <3>1, <5>2
      <4> HIDE DEF e
      <4>4. Len(e.acts) = 0 /\ Len(e.begins) = 0 /\ e.acts \in Seq(Action) /\ e.begins \in Seq(Nat)
        BY <4>2
      <4>5. e = [acts |-> e.acts, begins |-> e.begins, fault |-> "none"]
        BY <4>1, <4>2 DEF Empty
      <4> QED
        BY <4>1, <4>3, <4>4, <4>5
    <3>2. CASE k # 1
      <4>1. h \in 1..Len(c.acts) /\ h \in Nat
        BY <1>1, <1>5, <3>2
      <4> DEFINE u == GetTurn(c, h)
      <4>2. /\ e = [acts |-> e.acts, begins |-> e.begins, fault |-> "none"]
            /\ e.acts \in Seq(Action) /\ Len(e.acts) = h /\ \A i \in 1..h : e.acts[i] = c.acts[i]
            /\ e.begins \in Seq(Nat) /\ Len(e.begins) = u + 1 /\ \A i \in 1..u+1 : e.begins[i] = b[i]
        <5> HIDE DEF h
        <5> QED
          BY <4>1, PrefixIs DEF b
      <4>3. u \in 0..K-1 /\ TurnBegin(c, u) <= h /\ h < TurnEnd(c, u)
        <5> HIDE DEF h
        <5> QED
          BY <4>1, TurnOfAction DEF K, b
      <4> HIDE DEF u
      <4>4. u \in Nat /\ u < K
        BY <1>1, <4>3
      <4>5. TurnBegin(c, u) \in 1..N+1 /\ TurnEnd(c, u) \in 1..N+1 /\ TurnBegin(c, t) = k /\ TurnEnd(c, t) \in 1..N+1
            /\ TurnEnd(c, u) = TurnBegin(c, u + 1)
        <5>1. TurnBegin(c, u) \in 1..N+1 /\ TurnEnd(c, u) \in 1..N+1 /\ TurnEnd(c, u) = TurnBegin(c, u + 1)
          BY <4>4, TurnBegins
        <5>2. TurnEnd(c, t) \in 1..N+1
          BY <1>5, TurnBegins
        <5>3. TurnBegin(c, t) = k
          BY <1>3, <1>6, <1>10
        <5> QED
          BY <5>1, <5>2, <5>3
      <4>6. u < t
        <5>1. CASE t < u
          <6>1. TurnEnd(c, t) <= TurnBegin(c, u)
            BY <1>5, <4>4, <5>1, TurnsFollow
          <6> QED
            BY <1>3, <1>5, <4>3, <4>5, <6>1
        <5>2. CASE t = u
          BY <1>5, <4>3, <4>5, <5>2
        <5> QED
          BY <1>5, <4>4, <5>1, <5>2
      <4>7. ~(u + 1 < t)
        <5> SUFFICES ASSUME u + 1 < t PROVE FALSE
          OBVIOUS
        <5> DEFINE v == u + 1
        <5>1. v \in Nat /\ v >= 1 /\ v < t /\ v < K
          BY <1>1, <1>5, <4>4
        <5> HIDE DEF v
        <5>2. TurnBegin(c, v) < TurnEnd(c, v) /\ TurnBegin(c, v) \in 1..N+1 /\ TurnEnd(c, v) \in 1..N+1
          BY <5>1, TurnBegins DEF K, b
        <5>3. TurnEnd(c, v) <= TurnBegin(c, t)
          BY <1>5, <5>1, TurnsFollow
        <5>4. TurnEnd(c, u) = TurnBegin(c, v)
          BY <4>5 DEF v
        <5> QED
          BY <1>1, <1>5, <4>3, <4>5, <5>2, <5>3, <5>4
      <4>8. t = u + 1
        BY <1>5, <4>4, <4>6, <4>7
      <4> QED
        BY <4>2, <4>8
    <3> QED
      BY <3>1, <3>2
  <2> HIDE DEF e
  <2>3. SafeInsert(e, t, pos, a) = Opened(e, t, a)
    BY <1>2, <1>5, <1>7, <1>10, <2>2, SafeInsertOpens
  <2>4. InOrder(Opened(e, t, a))
    BY <1>2, <1>5, <1>7, OpenedIs
  <2>5. Opened(e, t, a) = f
    <3>1. Opened(e, t, a) = [acts |-> InsertAt(e.acts, k, a),
                             begins |-> IF t = 1 /\ Len(e.begins) = 0 THEN <<1, 1>> ELSE Append(e.begins, k), fault |-> "none"]
      <4>1. Len(e.acts) + 1 = k
        BY <1>5, <2>2
      <4> QED
        BY <4>1 DEF Opened
    <3>2. InsertAt(e.acts, k, a) = f.acts
      BY <1>8, <2>2
    <3>3. CASE Len(e.begins) = 0 /\ t = 1 /\ h = 0
      <4>1. k = 1 /\ n = 2 /\ b[2] = 1 /\ b[1] = 1
        BY <1>1, <1>5, <2>1, <3>3
      <4>2. f.begins = <<1, 1>>
        <5>1. Len(f.begins) = 2 /\ f.begins[1] = 1 /\ f.begins[2] = 1 /\ f.begins \in Seq(Nat)
          BY <1>4, <4>1
        <5> QED
          BY <5>1
      <4> QED
        BY <1>4, <3>1, <3>2, <3>3, <4>2
    <3>4. CASE Len(e.begins) = t /\ \A i \in 1..t : e.begins[i] = b[i]
      <4> DEFINE x == Append(e.begins, k)
      <4>1. x \in Seq(Nat) /\ Len(x) = t + 1 /\ x[t + 1] = k /\ \A i \in 1..t : x[i] = e.begins[i]
        BY <1>5, <2>2, <3>4
      <4> HIDE DEF x
      <4>2. ASSUME NEW i \in 1..n PROVE x[i] = f.begins[i]
        <5>1. f.begins[i] = b[i]
          BY <1>4
        <5>2. CASE i \in 1..t
          BY <3>4, <4>1, <5>1, <5>2
        <5>3. CASE i = n
          BY <2>1, <4>1, <5>1, <5>3
        <5> QED
          BY <1>5, <5>2, <5>3
      <4>3. x = f.begins
        BY <1>4, <4>1, <4>2, SameSequence
      <4>4. ~(t = 1 /\ Len(e.begins) = 0)
        BY <3>4
      <4> QED
        BY <1>4, <3>1, <3>2, <4>3, <4>4 DEF x
    <3> QED
      BY <2>2, <3>3, <3>4
  <2> QED
    BY <2>3, <2>4, <2>5 DEF e, h, f, t, pos, a
<1> QED
  BY <1>9, <1>10

-----------------------------------------------------------------------------
(* What the ally makes of the commands. *)

\* It has not run a command since it was last cleared, or has stopped at a dead unit.
Lost(a) == a.dropped \/ (a.list.fault = "null" /\ a.gone # {})

\* An ally that knows of the dead g and has the list c, or is lost, has the list d after the
\* command, or is lost: a refresh finds a lost ally again.
Safe(c, cmd, d, g) ==
  \A a \in Allies, refuses \in BOOLEAN :
    (Lost(a) \/ a.list = c) /\ g \subseteq a.gone =>
      Lost(Executed(a, cmd, refuses)) \/ Executed(a, cmd, refuses).list = d

\* So do the commands, one after another.
Leads(h, c, cmds, d, g) ==
  h[0] = c /\ h[Len(cmds)] = d /\ \A i \in 1..Len(cmds) : Safe(h[i - 1], cmds[i], h[i], g)
Reaches(c, cmds, d, g) == \E h : Leads(h, c, cmds, d, g)

LEMMA DropIsLost ==
  ASSUME NEW a \in Allies
  PROVE  Lost([a EXCEPT !.dropped = TRUE])
BY AllyDrops DEF Lost

\* It takes a command to start afresh to find a lost ally.
LEMMA LostStays ==
  ASSUME NEW a \in Allies, Lost(a), NEW cmd \in Plain, NEW refuses \in BOOLEAN
  PROVE  Lost(Executed(a, cmd, refuses))
<1>1. CASE a.list.fault # "none"
  BY <1>1, RanStopped
<1>2. CASE a.list.fault = "none"
  <2>1. a.dropped
    BY <1>2 DEF Lost
  <2>2. Lost(Ran(a, cmd))
    BY <2>1, RanKeeps DEF StaysAlly, Lost
  <2> QED
    BY <1>2, <2>2, ExecutedPlain, DropIsLost
<1> QED
  BY <1>1, <1>2

\* Of other commands it is enough to say what they do to an ally that runs them.
LEMMA SafeIs ==
  ASSUME NEW c, c.fault = "none", NEW cmd \in Plain, NEW d, NEW g,
         \A a \in Allies : a.list = c /\ g \subseteq a.gone => Lost(Ran(a, cmd)) \/ Ran(a, cmd).list = d
  PROVE  Safe(c, cmd, d, g)
<1> SUFFICES ASSUME NEW a \in Allies, NEW refuses \in BOOLEAN, Lost(a) \/ a.list = c, g \subseteq a.gone
             PROVE  Lost(Executed(a, cmd, refuses)) \/ Executed(a, cmd, refuses).list = d
  BY DEF Safe
<1>1. CASE Lost(a)
  BY <1>1, LostStays
<1>2. CASE a.list = c
  <2>1. Lost(Ran(a, cmd)) \/ Ran(a, cmd).list = d
    BY <1>2
  <2>2. a.list.fault = "none"
    BY <1>2
  <2>3. \/ Executed(a, cmd, refuses) = [a EXCEPT !.dropped = TRUE]
        \/ Executed(a, cmd, refuses) = Ran(a, cmd)
    BY <2>2, ExecutedPlain
  <2> QED
    BY <2>1, <2>3, DropIsLost
<1> QED
  BY <1>1, <1>2

LEMMA ReachesNone ==
  ASSUME NEW c, NEW d, NEW g
  PROVE  Reaches(c, <<>>, d, g) <=> c = d
<1>1. ASSUME c = d PROVE Reaches(c, <<>>, d, g)
  <2> DEFINE h == [i \in 0..0 |-> c]
  <2>1. Len(<<>>) = 0 /\ h[0] = c
    OBVIOUS
  <2> HIDE DEF h
  <2>2. \A i \in 1..0 : Safe(h[i - 1], <<>>[i], h[i], g)
    OBVIOUS
  <2>3. Leads(h, c, <<>>, d, g)
    BY <1>1, <2>1, <2>2 DEF Leads
  <2> QED
    BY <2>3 DEF Reaches
<1>2. ASSUME Reaches(c, <<>>, d, g) PROVE c = d
  <2>1. PICK h : Leads(h, c, <<>>, d, g)
    BY <1>2 DEF Reaches
  <2> QED
    BY <2>1 DEF Leads
<1> QED
  BY <1>1, <1>2

LEMMA ReachesOne ==
  ASSUME NEW c, NEW d, NEW g, NEW cmd, Safe(c, cmd, d, g)
  PROVE  Reaches(c, <<cmd>>, d, g)
<1> DEFINE h == [i \in 0..1 |-> IF i = 0 THEN c ELSE d]
           s == <<cmd>>
<1>1. Len(s) = 1 /\ s[1] = cmd /\ h[0] = c /\ h[1] = d
  OBVIOUS
<1> HIDE DEF h, s
<1>2. \A i \in 1..1 : Safe(h[i - 1], s[i], h[i], g)
  <2> SUFFICES ASSUME NEW i \in 1..1 PROVE Safe(h[i - 1], s[i], h[i], g)
    OBVIOUS
  <2>1. i = 1 /\ i - 1 = 0
    OBVIOUS
  <2> QED
    BY <1>1, <2>1
<1>3. Leads(h, c, s, d, g)
  BY <1>1, <1>2 DEF Leads
<1> QED
  BY <1>3 DEF Reaches, s

LEMMA ReachesThen ==
  ASSUME NEW S, NEW s \in Seq(S), NEW t \in Seq(S), NEW c, NEW d, NEW e, NEW g,
         Reaches(c, s, d, g), Reaches(d, t, e, g)
  PROVE  Reaches(c, s \o t, e, g)
<1>1. PICK f : Leads(f, c, s, d, g)
  BY DEF Reaches
<1>2. PICK k : Leads(k, d, t, e, g)
  BY DEF Reaches
<1> DEFINE M == Len(s)
           N == Len(t)
           st == s \o t
           h == [i \in 0..M+N |-> IF i <= M THEN f[i] ELSE k[i - M]]
<1>3. M \in Nat /\ N \in Nat /\ Len(st) = M + N /\ (\A i \in 1..M : st[i] = s[i]) /\ \A i \in 1..N : st[M + i] = t[i]
  BY CatIs
<1>4. f[0] = c /\ f[M] = d /\ \A i \in 1..M : Safe(f[i - 1], s[i], f[i], g)
  BY <1>1 DEF Leads
<1>5. k[0] = d /\ k[N] = e /\ \A i \in 1..N : Safe(k[i - 1], t[i], k[i], g)
  BY <1>2 DEF Leads
<1> HIDE DEF M, N, st
<1>6. /\ \A i \in 0..M : h[i] = f[i]
      /\ \A i \in 0..N : h[M + i] = k[i]
  <2>1. \A i \in 0..M : h[i] = f[i]
    BY <1>3
  <2>2. ASSUME NEW i \in 0..N PROVE h[M + i] = k[i]
    <3>1. M + i \in 0..M+N /\ (M + i <= M <=> i = 0) /\ (M + i) - M = i
      BY <1>3
    <3>2. CASE i = 0
      <4>1. M + i = M /\ M \in 0..M
        BY <1>3, <3>2
      <4>2. h[M] = f[M]
        BY <2>1, <4>1
      <4> QED
        BY <1>4, <1>5, <3>2, <4>1, <4>2
    <3>3. CASE i # 0
      BY <3>1, <3>3
    <3> QED
      BY <3>2, <3>3
  <2> QED
    BY <2>1, <2>2
<1> HIDE DEF h
<1>7. ASSUME NEW i \in 1..M+N PROVE Safe(h[i - 1], st[i], h[i], g)
  <2>1. CASE i <= M
    <3>1. i \in 1..M /\ i \in 0..M /\ i - 1 \in 0..M
      BY <1>3, <2>1
    <3>2. h[i - 1] = f[i - 1] /\ h[i] = f[i] /\ st[i] = s[i]
      BY <1>3, <1>6, <3>1
    <3> QED
      BY <1>4, <3>1, <3>2
  <2>2. CASE ~(i <= M)
    <3> DEFINE j == i - M
    <3>1. j \in 1..N /\ j \in 0..N /\ j - 1 \in 0..N /\ M + j = i /\ M + (j - 1) = i - 1
      BY <1>3, <2>2
    <3> HIDE DEF j
    <3>2. h[i - 1] = k[j - 1] /\ h[i] = k[j] /\ st[i] = t[j]
      BY <1>3, <1>6, <3>1
    <3> QED
      BY <1>5, <3>1, <3>2
  <2> QED
    BY <2>1, <2>2
<1>8. h[0] = c /\ h[M + N] = e
  <2>1. 0 \in 0..M /\ N \in 0..N
    BY <1>3
  <2> QED
    BY <1>4, <1>5, <1>6, <2>1
<1>9. Leads(h, c, st, e, g)
  BY <1>3, <1>7, <1>8 DEF Leads
<1> QED
  BY <1>9 DEF Reaches, st

\* Of an ally that knows of more dead the same can be said.
LEMMA ReachesMore ==
  ASSUME NEW c, NEW cmds, NEW d, NEW g, NEW k, Reaches(c, cmds, d, g), g \subseteq k
  PROVE  Reaches(c, cmds, d, k)
<1>1. PICK h : Leads(h, c, cmds, d, g)
  BY DEF Reaches
<1>2. \A x, cmd, y : Safe(x, cmd, y, g) => Safe(x, cmd, y, k)
  BY DEF Safe
<1>3. Leads(h, c, cmds, d, k)
  BY <1>1, <1>2 DEF Leads
<1> QED
  BY <1>3 DEF Reaches

\* An ally that executes a packet gets where its commands lead, unless it is lost.
LEMMA PacketExecuted ==
  ASSUME NEW a \in Allies, NEW cmds \in Seq(Cmds), NEW refused
  PROVE  LET r == Delivered(a, cmds, refused)
         IN  /\ SameAlly(r, a)
             /\ \A c, d, g : (Lost(a) \/ a.list = c) /\ Reaches(c, cmds, d, g) /\ g \subseteq a.gone
                             => Lost(r) \/ r.list = d
<1> DEFINE N == Len(cmds)
<1>1. N \in Nat /\ DOMAIN cmds = 1..N /\ \A n \in 1..N : cmds[n] \in Cmds
  OBVIOUS
<1> HIDE DEF N
<1>2. PICK q : /\ q[0] = a
               /\ \A n \in 1..N : q[n] = Executed(q[n - 1], cmds[n], n \in refused)
               /\ Delivered(a, cmds, refused) = q[N]
  <2>1. \E q : ExecutePath(q, a, cmds, refused, N)
    BY <1>1, ExecutesFollow
  <2> QED
    BY <2>1, Zenon DEF ExecutePath
<1> DEFINE H == {n \in 0..N : SameAlly(q[n], a)}
<1>3. 0 \in H
  BY <1>1, <1>2 DEF SameAlly
<1>4. ASSUME NEW n \in 0..N, n # 0, n - 1 \in H PROVE n \in H
  <2>1. n \in 1..N /\ q[n] = Executed(q[n - 1], cmds[n], n \in refused) /\ q[n - 1] \in Allies /\ cmds[n] \in Cmds
        /\ SameAlly(q[n - 1], a)
    BY <1>1, <1>2, <1>4 DEF SameAlly
  <2>2. SameAlly(Executed(q[n - 1], cmds[n], n \in refused), q[n - 1])
    <3> DEFINE x == q[n - 1]
               cmd == cmds[n]
               refuses == n \in refused
    <3>1. x \in Allies /\ cmd \in Cmds
      BY <2>1
    <3>3. refuses \in BOOLEAN
      OBVIOUS
    <3> HIDE DEF x, cmd, refuses
    <3>2. SameAlly(Executed(x, cmd, refuses), x)
      BY <3>1, <3>3, ExecutedKeeps
    <3> QED
      BY <3>2, Zenon DEF x, cmd, refuses
  <2> QED
    BY <2>1, <2>2 DEF SameAlly
<1>5. \A n \in 0..N : n \in H
  <2>1. \A n \in 0..N : n # 0 /\ n - 1 \in H => n \in H
    BY <1>4
  <2> HIDE DEF H
  <2>2. 0 \in Nat /\ N \in Nat
    BY <1>1
  <2> QED
    BY <1>3, <2>1, <2>2, UpFrom, Zenon
<1>6. ASSUME NEW c, NEW d, NEW g, Lost(a) \/ a.list = c, Reaches(c, cmds, d, g), g \subseteq a.gone
      PROVE  Lost(q[N]) \/ q[N].list = d
  <2>1. PICK h : h[0] = c /\ h[N] = d /\ \A i \in 1..N : Safe(h[i - 1], cmds[i], h[i], g)
    BY <1>6 DEF Reaches, Leads, N
  <2> DEFINE J == {n \in 0..N : Lost(q[n]) \/ q[n].list = h[n]}
  <2>2. 0 \in J
    BY <1>1, <1>2, <1>6, <2>1
  <2>3. ASSUME NEW n \in 0..N, n # 0, n - 1 \in J PROVE n \in J
    <3>1. n \in 1..N /\ q[n] = Executed(q[n - 1], cmds[n], n \in refused) /\ n - 1 \in 0..N
          /\ Safe(h[n - 1], cmds[n], h[n], g)
      BY <1>1, <1>2, <2>1, <2>3
    <3>2. SameAlly(q[n - 1], a)
      BY <1>5, <3>1
    <3>3. q[n - 1] \in Allies /\ g \subseteq q[n - 1].gone
      BY <1>6, <3>2 DEF SameAlly
    <3>4. Lost(q[n - 1]) \/ q[n - 1].list = h[n - 1]
      BY <2>3
    <3>5. (n \in refused) \in BOOLEAN
      OBVIOUS
    <3>6. Lost(Executed(q[n - 1], cmds[n], n \in refused)) \/ Executed(q[n - 1], cmds[n], n \in refused).list = h[n]
      BY <3>1, <3>3, <3>4, <3>5 DEF Safe
    <3> QED
      BY <3>1, <3>6
  <2>4. \A n \in 0..N : n \in J
    <3>1. \A n \in 0..N : n # 0 /\ n - 1 \in J => n \in J
      BY <2>3
    <3> HIDE DEF J
    <3>2. 0 \in Nat /\ N \in Nat
      BY <1>1
    <3> QED
      BY <2>2, <3>1, <3>2, UpFrom, Zenon
  <2>5. N \in J
    BY <1>1, <2>4
  <2> QED
    BY <2>1, <2>5
<1>7. N \in H
  BY <1>1, <1>5
<1> DEFINE r == Delivered(a, cmds, refused)
<1>8. r = q[N]
  BY <1>2
<1> HIDE DEF r
<1> QED
  BY <1>6, <1>7, <1>8 DEF r

\* What a command names: the turn of p and its place in it are where p is.
LEMMA NamedIs ==
  ASSUME NEW c, InOrder(c), NEW p \in 1..Len(c.acts)
  PROVE  /\ GetTurn(c, p) \in Nat /\ PositionInTurn(c, p) \in Nat
         /\ TurnBegin(c, GetTurn(c, p)) + PositionInTurn(c, p) = p
         /\ p < End(c) /\ ~(p >= End(c)) /\ p \in Nat /\ End(c) \in Nat
<1> DEFINE K == Len(c.begins)
<1>1. GetTurn(c, p) \in 0..K-1 /\ PositionInTurn(c, p) \in Nat /\ TurnBegin(c, GetTurn(c, p)) + PositionInTurn(c, p) = p
  BY TurnOfAction
<1>2. K \in Nat /\ Len(c.acts) \in Nat
  BY ContainerIs DEF InOrder
<1>3. GetTurn(c, p) \in Nat
  BY <1>1, <1>2
<1>4. p < End(c) /\ ~(p >= End(c)) /\ p \in Nat /\ End(c) \in Nat
  BY <1>2 DEF End
<1> QED
  BY <1>1, <1>3, <1>4

\* A plan that is queued.
LEMMA SafeQueue ==
  ASSUME NEW c, InOrder(c), NEW t, MayPlan(c, t), NEW x \in Action, NEW g
  PROVE  LET d == Queue(c, t, x)
             cmd == NetInsert(t, TurnSize(d, t) - 1, x)
         IN  cmd \in Cmds /\ Safe(c, cmd, d, g)
<1> DEFINE d == Queue(c, t, x)
           pos == TurnSize(d, t) - 1
           cmd == NetInsert(t, pos, x)
<1>1. pos \in Nat /\ SafeInsert(c, t, pos, x) = d /\ InOrder(d)
  BY QueueKeeps
<1>2. t \in Nat
  BY DEF MayPlan
<1> HIDE DEF pos, d
<1>3. cmd = [type |-> "insert", turn |-> t, pos |-> pos, action |-> x]
  BY DEF NetInsert
<1>4. cmd \in Inserts /\ cmd.turn = t /\ cmd.pos = pos /\ cmd.action = x
  BY <1>1, <1>2, <1>3 DEF Inserts
<1> HIDE DEF cmd
<1>5. ASSUME NEW a \in Allies, a.list = c, g \subseteq a.gone
      PROVE  Lost(Ran(a, cmd)) \/ Ran(a, cmd).list = d
  <2>1. a.list.fault = "none"
    BY <1>5 DEF InOrder
  <2>3. Ran(a, cmd) = IF ~Dead(x, a.gone) THEN [a EXCEPT !.list = d] ELSE [a EXCEPT !.dropped = TRUE]
    BY <1>1, <1>4, <1>5, <2>1, RanInsert
  <2>4. d \in Lists
    BY <1>1, InOrderList
  <2>5. [a EXCEPT !.list = d].list = d
    BY <2>4, AllyWith
  <2> QED
    BY <2>3, <2>5, DropIsLost
<1>6. cmd \in Plain /\ cmd \in Cmds
  BY <1>4 DEF Cmds, Plain
<1>7. c.fault = "none"
  BY DEF InOrder
<1>8. Safe(c, cmd, d, g)
  BY <1>5, <1>6, <1>7, SafeIs
<1> QED
  BY <1>6, <1>8 DEF cmd, d, pos

\* A plan that takes the place of another.
LEMMA SafeReplace ==
  ASSUME NEW c, InOrder(c), NEW p \in 1..Len(c.acts), NEW x \in Action, NEW g
  PROVE  NetReplace(c, p, x) \in Cmds /\ Safe(c, NetReplace(c, p, x), [c EXCEPT !.acts[p] = x], g)
<1> DEFINE cmd == NetReplace(c, p, x)
           d == [c EXCEPT !.acts[p] = x]
           t == GetTurn(c, p)
           pos == PositionInTurn(c, p)
<1>1. t \in Nat /\ pos \in Nat /\ TurnBegin(c, t) + pos = p /\ ~(p >= End(c))
  BY NamedIs
<1>2. cmd = [type |-> "replace", turn |-> t, pos |-> pos, action |-> x]
  BY DEF NetReplace
<1> HIDE DEF t, pos
<1>3. cmd \in Replaces /\ cmd.turn = t /\ cmd.pos = pos /\ cmd.action = x
  BY <1>1, <1>2 DEF Replaces
<1> HIDE DEF cmd
<1>4. InOrder(d) /\ d \in Lists
  BY ReplacedIs, InOrderList
<1>5. ASSUME NEW a \in Allies, a.list = c, g \subseteq a.gone
      PROVE  Lost(Ran(a, cmd)) \/ Ran(a, cmd).list = d
  <2>1. a.list.fault = "none"
    BY <1>5 DEF InOrder
  <2>3. Ran(a, cmd) = IF ~Dead(x, a.gone) /\ ~(p >= End(c) \/ GetTurn(c, p) # t)
                      THEN [a EXCEPT !.list.acts[p] = x] ELSE [a EXCEPT !.dropped = TRUE]
    <3>1. p = TurnBegin(a.list, cmd.turn) + cmd.pos
      BY <1>1, <1>3, <1>5
    <3>2. Ran(a, cmd) = IF ~Dead(cmd.action, a.gone) /\ ~(p >= End(a.list) \/ GetTurn(a.list, p) # cmd.turn)
                       THEN [a EXCEPT !.list.acts[p] = cmd.action]
                       ELSE [a EXCEPT !.dropped = TRUE]
      BY <1>3, <2>1, <3>1, RanReplace
    <3> QED
      BY <1>3, <1>5, <3>2, Zenon
  <2>4. [a EXCEPT !.list.acts[p] = x] = [a EXCEPT !.list = d]
    BY <1>5, Zenon
  <2>5. [a EXCEPT !.list = d].list = d
    BY <1>4, AllyWith
  <2> HIDE DEF d
  <2>6. CASE ~Dead(x, a.gone)
    <3>1. Ran(a, cmd) = [a EXCEPT !.list.acts[p] = x]
      BY <1>1, <2>3, <2>6, Zenon DEF t
    <3> QED
      BY <2>4, <2>5, <3>1, Zenon
  <2>7. CASE Dead(x, a.gone)
    <3>1. Ran(a, cmd) = [a EXCEPT !.dropped = TRUE]
      BY <2>3, <2>7, Zenon
    <3> QED
      BY <3>1, DropIsLost
  <2> QED
    BY <2>6, <2>7
<1>6. cmd \in Plain /\ cmd \in Cmds
  BY <1>3 DEF Cmds, Plain
<1>7. c.fault = "none"
  BY DEF InOrder
<1>8. Safe(c, cmd, d, g)
  <2> HIDE DEF d
  <2> QED
    BY <1>5, <1>6, <1>7, SafeIs
<1> QED
  BY <1>6, <1>8 DEF cmd, d

\* A plan that is erased.
LEMMA SafeRemove ==
  ASSUME NEW c, InOrder(c), NEW p \in 1..Len(c.acts), NEW g
  PROVE  NetRemove(c, p) \in Cmds /\ Safe(c, NetRemove(c, p), Erase(c, p), g)
<1> DEFINE cmd == NetRemove(c, p)
           d == Erase(c, p)
           t == GetTurn(c, p)
           pos == PositionInTurn(c, p)
<1>1. t \in Nat /\ pos \in Nat /\ TurnBegin(c, t) + pos = p /\ ~(p >= End(c))
  BY NamedIs
<1>2. cmd = [type |-> "remove", turn |-> t, pos |-> pos]
  BY DEF NetRemove
<1> HIDE DEF t, pos
<1>3. cmd \in Removes /\ cmd.turn = t /\ cmd.pos = pos
  BY <1>1, <1>2 DEF Removes
<1> HIDE DEF cmd
<1>4. d \in Lists
  BY EraseKeeps
<1>5. ASSUME NEW a \in Allies, a.list = c, g \subseteq a.gone
      PROVE  Lost(Ran(a, cmd)) \/ Ran(a, cmd).list = d
  <2>1. a.list.fault = "none"
    BY <1>5 DEF InOrder
  <2>3. p = TurnBegin(a.list, cmd.turn) + cmd.pos
    BY <1>1, <1>3, <1>5
  <2>4. Ran(a, cmd) = IF p >= End(a.list) \/ GetTurn(a.list, p) # cmd.turn
                      THEN [a EXCEPT !.dropped = TRUE] ELSE [a EXCEPT !.list = Erase(a.list, p)]
    BY <1>3, <2>1, <2>3, RanRemove
  <2>5. Ran(a, cmd) = [a EXCEPT !.list = d]
    BY <1>1, <1>3, <1>5, <2>4, Zenon DEF t
  <2> HIDE DEF d
  <2>6. [a EXCEPT !.list = d].list = d
    BY <1>4, AllyWith
  <2> QED
    BY <2>5, <2>6
<1>6. cmd \in Plain /\ cmd \in Cmds
  BY <1>3 DEF Cmds, Plain
<1>7. c.fault = "none"
  BY DEF InOrder
<1>8. Safe(c, cmd, d, g)
  <2> HIDE DEF d
  <2> QED
    BY <1>5, <1>6, <1>7, SafeIs
<1> QED
  BY <1>6, <1>8 DEF cmd, d

\* Two plans that pass each other, unless the owner stops at a dead unit.
LEMMA SafeBump ==
  ASSUME NEW c, InOrder(c), NEW p \in 2..Len(c.acts), NEW g, BumpAllowed(c, p, g), Bumped(c, p, g).fault = "none"
  PROVE  NetBumpLater(c, p - 1) \in Cmds /\ Safe(c, NetBumpLater(c, p - 1), Bumped(c, p, g), g)
<1> DEFINE q == p - 1
           cmd == NetBumpLater(c, q)
           d == Swapped(c, p)
           t == GetTurn(c, q)
           pos == PositionInTurn(c, q)
<1>0. p \in 1..Len(c.acts) /\ q \in 1..Len(c.acts) /\ q + 1 = p
  OBVIOUS
<1> HIDE DEF q
<1>1. t \in Nat /\ pos \in Nat /\ TurnBegin(c, t) + pos = q /\ ~(p >= End(c))
  BY <1>0, NamedIs
<1>2. cmd = [type |-> "bump_later", turn |-> t, pos |-> pos]
  BY DEF NetBumpLater
<1> HIDE DEF t, pos
<1>3. cmd \in Bumps /\ cmd.turn = t /\ cmd.pos = pos
  BY <1>1, <1>2 DEF Bumps
<1> HIDE DEF cmd
<1>4. InOrder(d) /\ d \in Lists
  BY SwappedIs, InOrderList
<1>5. Bumped(c, p, g) = d
  <2>1. "null" \in Faults \ {"none"}
    BY DEF Faults
  <2>2. Fails(c, "null").fault # "none"
    BY <2>1, FailsIs
  <2> QED
    BY <2>2 DEF Bumped
<1>6. ASSUME NEW a \in Allies, a.list = c, g \subseteq a.gone
      PROVE  Lost(Ran(a, cmd)) \/ Ran(a, cmd).list = d
  <2>1. a.list.fault = "none"
    BY <1>6 DEF InOrder
  <2>3. q = TurnBegin(a.list, cmd.turn) + cmd.pos
    BY <1>1, <1>3, <1>6
  <2>4. Ran(a, cmd) = IF q + 1 >= End(a.list) \/ GetTurn(a.list, q) # cmd.turn
                       THEN [a EXCEPT !.dropped = TRUE]
                       ELSE IF BumpAllowed(a.list, q + 1, a.gone)
                       THEN [a EXCEPT !.list = Bumped(a.list, q + 1, a.gone)]
                       ELSE a
    BY <1>3, <2>1, <2>3, RanBump
  <2>5. BumpAllowed(c, p, a.gone)
    BY <1>6 DEF BumpAllowed, Dead
  <2>6. Ran(a, cmd) = [a EXCEPT !.list = Bumped(c, p, a.gone)]
    BY <1>0, <1>1, <1>3, <1>6, <2>4, <2>5, Zenon DEF t
  <2>7. CASE Dead(c.acts[p], a.gone) /\ c.acts[p - 1].unit = None
    <3> DEFINE x == Fails(c, "null")
    <3>1. Bumped(c, p, a.gone) = x
      BY <2>7 DEF Bumped
    <3>2. x \in Lists /\ x.fault = "null"
      <4>1. "null" \in Faults \ {"none"}
        BY DEF Faults
      <4> QED
        BY <4>1, FailsIs
    <3>3. a.gone # {}
      BY <2>7 DEF Dead
    <3> HIDE DEF x
    <3>4. [a EXCEPT !.list = x].list = x /\ [a EXCEPT !.list = x].gone = a.gone
      BY <3>2, AllyWith
    <3> DEFINE y == [a EXCEPT !.list = x]
    <3>5. y.list.fault = "null" /\ y.gone # {} /\ Ran(a, cmd) = y
      BY <2>6, <3>1, <3>2, <3>3, <3>4
    <3> HIDE DEF y
    <3> QED
      BY <3>5 DEF Lost
  <2>8. CASE ~(Dead(c.acts[p], a.gone) /\ c.acts[p - 1].unit = None)
    <3>1. Bumped(c, p, a.gone) = d
      BY <2>8 DEF Bumped
    <3> HIDE DEF d
    <3>2. [a EXCEPT !.list = d].list = d
      BY <1>4, AllyWith
    <3> QED
      BY <2>6, <3>1, <3>2
  <2> QED
    BY <2>7, <2>8
<1>7. cmd \in Plain /\ cmd \in Cmds
  BY <1>3 DEF Cmds, Plain
<1>8. c.fault = "none"
  BY DEF InOrder
<1>9. Safe(c, cmd, d, g)
  <2> HIDE DEF d
  <2> QED
    BY <1>6, <1>7, <1>8, SafeIs
<1> QED
  BY <1>5, <1>7, <1>9 DEF cmd, d, q

\* What stopped stays as it is: it is lost, and has not the list of a machine that works.
LEMMA StoppedIsLost ==
  ASSUME NEW c, c.fault = "none", NEW a \in Allies, Lost(a) \/ a.list = c, a.list.fault # "none",
         NEW cmd, NEW refuses \in BOOLEAN
  PROVE  Lost(Executed(a, cmd, refuses))
BY RanStopped

\* All plans forgotten.
LEMMA SafeClear ==
  ASSUME NEW c, InOrder(c), NEW g
  PROVE  NetClear \in Cmds /\ Safe(c, NetClear, Empty, g)
<1>1. ASSUME NEW a \in Allies, NEW refuses \in BOOLEAN, a.list.fault = "none"
      PROVE  Executed(a, NetClear, refuses).list = Empty
  <2>1. NetClear.type = "clear"
    BY DEF NetClear
  <2>2. Executed(a, NetClear, refuses) = [a EXCEPT !.list = Empty, !.dropped = FALSE]
    BY <1>1, <2>1, Zenon DEF Executed
  <2> QED
    BY <2>2, AllyClears
<1>2. c.fault = "none"
  BY DEF InOrder
<1> QED
  BY <1>1, <1>2, StoppedIsLost DEF Safe, Cmds

\* All plans told again: an ally that works has by its commands the very container that
\* they were made from, turn by turn, whatever its copy was (make_net_cmd_refresh, and
\* execute_net_cmd of it), and it drops some only where a unit that plans is dead.
THEOREM RefreshRebuilds ==
  ASSUME NEW c, InOrder(c), NEW a \in Allies, a.list.fault = "none", NEW refuses \in BOOLEAN
  PROVE  LET r == Executed(a, NetRefresh(c), refuses)
         IN  /\ NetRefresh(c) \in Cmds
             /\ r.list = c \/ (r.dropped /\ \E p \in 1..Len(c.acts) : Dead(c.acts[p], a.gone))
<1> DEFINE N == Len(c.acts)
           cmd == NetRefresh(c)
           cmds == [p \in 1..N |-> NetInsert(GetTurn(c, p), PositionInTurn(c, p), c.acts[p])]
<1>1. N \in Nat /\ c.acts \in Seq(Action) /\ \A p \in 1..N : c.acts[p] \in Action
  BY ContainerIs DEF InOrder
<1>2. cmd = [type |-> "refresh", cmds |-> cmds]
  BY DEF NetRefresh
<1>3. ASSUME NEW p \in 1..N
      PROVE  cmds[p] \in Inserts /\ cmds[p].turn = GetTurn(c, p) /\ cmds[p].pos = PositionInTurn(c, p)
             /\ cmds[p].action = c.acts[p]
  <2>1. GetTurn(c, p) \in Nat /\ PositionInTurn(c, p) \in Nat
    BY NamedIs
  <2>2. cmds[p] = [type |-> "insert", turn |-> GetTurn(c, p), pos |-> PositionInTurn(c, p), action |-> c.acts[p]]
    BY DEF NetInsert
  <2> HIDE DEF cmds
  <2> QED
    BY <1>1, <2>1, <2>2 DEF Inserts
<1>4. cmds \in Seq(Inserts) /\ DOMAIN cmds = 1..N
  <2>1. cmds = [p \in 1..N |-> cmds[p]]
    OBVIOUS
  <2> HIDE DEF cmds, N
  <2>2. cmds \in [1..N -> Inserts]
    BY <1>3, <2>1
  <2> QED
    BY <1>1, <2>1, <2>2
<1> HIDE DEF cmds
<1>5. cmd \in Refreshes /\ cmd.type = "refresh" /\ cmd.cmds = cmds
  BY <1>2, <1>4 DEF Refreshes
<1> HIDE DEF cmd
<1> DEFINE mourned == \E p \in 1..Len(c.acts) : Dead(c.acts[p], a.gone)
<1>6. Executed(a, cmd, refuses).list = c \/ (Executed(a, cmd, refuses).dropped /\ mourned)
  <2> DEFINE e == [a EXCEPT !.list = Empty, !.dropped = FALSE]
             r == FoldLeft(Ran, e, cmds)
  <2>1. a.list.fault = "none" /\ cmd.type # "clear"
    BY <1>5
  <2>2. Executed(a, cmd, refuses) = r
    BY <1>5, <2>1, Zenon DEF Executed
  <2>3. e \in Allies /\ e.list = Empty /\ e.gone = a.gone
    BY AllyClears
  <2> HIDE DEF e, N
  <2>4. PICK q : /\ q[0] = e
                 /\ \A n \in 1..N : q[n] = Ran(q[n - 1], cmds[n])
                 /\ FoldLeft(Ran, e, cmds) = q[N]
    <3>1. \E q : RunPath(q, e, cmds, N)
      BY <1>1, <1>4, RunsFollow
    <3> QED
      BY <3>1, Zenon DEF RunPath
  <2> DEFINE Told(x, n) == /\ x \in Allies /\ x.gone = a.gone /\ InOrder(Prefix(c, n))
                           /\ (x.dropped /\ mourned) \/ x.list = Prefix(c, n)
             H == {n \in 0..N : Told(q[n], n)}
  <2>5. 0 \in H
    <3>1. Prefix(c, 0) = Empty /\ InOrder(Empty)
      BY PrefixNone, EmptyIs
    <3> QED
      BY <1>1, <2>3, <2>4, <3>1
  <2>6. ASSUME NEW n \in 0..N, n # 0, n - 1 \in H PROVE n \in H
    <3> DEFINE x == q[n - 1]
    <3>1. /\ n \in 1..N /\ n \in 1..Len(c.acts) /\ q[n] = Ran(x, cmds[n]) /\ x \in Allies /\ x.gone = a.gone
          /\ (x.dropped /\ mourned) \/ x.list = Prefix(c, n - 1)
          /\ InOrder(Prefix(c, n - 1))
      BY <1>1, <2>4, <2>6 DEF N
    <3> HIDE DEF x
    <3>2. cmds[n] \in Inserts /\ cmds[n].turn = GetTurn(c, n) /\ cmds[n].pos = PositionInTurn(c, n)
          /\ cmds[n].action = c.acts[n]
      BY <1>3, <3>1 DEF N
    <3>3. /\ SafeInsert(Prefix(c, n - 1), GetTurn(c, n), PositionInTurn(c, n), c.acts[n]) = Prefix(c, n)
          /\ InOrder(Prefix(c, n))
      BY <3>1, PrefixNext
    <3>4. StaysAlly(Ran(x, cmds[n]), x)
      BY <3>1, <3>2, RanKeeps DEF Plain
    <3>5. CASE x.dropped /\ mourned
      BY <3>1, <3>3, <3>4, <3>5 DEF StaysAlly, SameAlly
    <3>6. CASE x.list = Prefix(c, n - 1)
      <4>1. x.list.fault = "none"
        BY <3>1, <3>6 DEF InOrder
      <4>2. Ran(x, cmds[n]) = IF ~Dead(cmds[n].action, x.gone)
                       THEN [x EXCEPT !.list = SafeInsert(x.list, cmds[n].turn, cmds[n].pos, cmds[n].action)]
                       ELSE [x EXCEPT !.dropped = TRUE]
        BY <3>1, <3>2, <4>1, RanInsert
      <4> DEFINE y == Prefix(c, n)
      <4>3. SafeInsert(x.list, cmds[n].turn, cmds[n].pos, cmds[n].action) = y /\ InOrder(y)
        BY <3>2, <3>3, <3>6
      <4> HIDE DEF y
      <4>4. y \in Lists
        BY <4>3, InOrderList
      <4>5. [x EXCEPT !.list = y].list = y
        BY <3>1, <4>4, AllyWith
      <4>6. [x EXCEPT !.dropped = TRUE].dropped
        BY <3>1, AllyDrops
      <4>7. (Ran(x, cmds[n]).dropped /\ mourned) \/ Ran(x, cmds[n]).list = y
        <5>1. Dead(cmds[n].action, x.gone) => mourned
          BY <3>1, <3>2
        <5> QED
          BY <4>2, <4>3, <4>5, <4>6, <5>1
      <4>8. Told(Ran(x, cmds[n]), n)
        BY <3>1, <3>4, <4>3, <4>7 DEF StaysAlly, SameAlly, y
      <4> QED
        BY <3>1, <4>8
    <3> QED
      BY <3>1, <3>5, <3>6
  <2>7. Told(q[N], N)
    <3>1. \A n \in 0..N : n # 0 /\ n - 1 \in H => n \in H
      BY <2>6
    <3> HIDE DEF H
    <3>2. 0 \in Nat /\ N \in Nat
      BY <1>1
    <3>3. \A n \in 0..N : n \in H
      BY <2>5, <3>1, <3>2, UpFrom, Zenon
    <3>4. N \in H
      BY <3>2, <3>3
    <3> QED
      BY <3>4 DEF H
  <2>8. Prefix(c, N) = c
    BY PrefixAll DEF N
  <2> QED
    BY <2>2, <2>4, <2>7, <2>8
<1>7. cmd \in Cmds
  BY <1>5 DEF Cmds
<1> QED
  BY <1>6, <1>7 DEF cmd

LEMMA SafeRefresh ==
  ASSUME NEW c, InOrder(c), NEW b, InOrder(b), NEW g
  PROVE  NetRefresh(c) \in Cmds /\ Safe(b, NetRefresh(c), c, g)
<1>1. ASSUME NEW a \in Allies, NEW refuses \in BOOLEAN, a.list.fault = "none"
      PROVE  Lost(Executed(a, NetRefresh(c), refuses)) \/ Executed(a, NetRefresh(c), refuses).list = c
  BY <1>1, RefreshRebuilds DEF Lost
<1>2. NetRefresh(c) \in Cmds
  <2>1. [list |-> Empty, gone |-> {}, dropped |-> FALSE] \in Allies
    BY EmptyIs DEF Allies
  <2>2. [list |-> Empty, gone |-> {}, dropped |-> FALSE].list.fault = "none"
    BY EmptyIs DEF InOrder
  <2> QED
    BY <2>1, <2>2, RefreshRebuilds
<1>3. b.fault = "none"
  BY DEF InOrder
<1> QED
  BY <1>1, <1>2, <1>3, StoppedIsLost DEF Safe

\* The commands on their way are a list of commands.
LEMMA FlattenIs ==
  ASSUME NEW D, NEW seqs \in Seq(Seq(D))
  PROVE  FlattenSeq(seqs) \in Seq(D)
<1> DEFINE N == Len(seqs)
           Def(it, n) == [i \in 1..n |-> IF i = 1 THEN seqs[i] ELSE it[i - 1] \o seqs[i]]
           G == {n \in 1..N : \E it : it = Def(it, n)}
<1>1. N \in Nat /\ \A i \in 1..N : seqs[i] \in Seq(D)
  OBVIOUS
<1>2. CASE N = 0
  <2>1. FlattenSeq(seqs) = seqs
    BY <1>2, Zenon DEF FlattenSeq
  <2>2. seqs = <<>>
    BY <1>2
  <2> QED
    BY <2>1, <2>2
<1>3. CASE N # 0
  <2> HIDE DEF N
  <2>1. 1 \in 1..N
    BY <1>1, <1>3
  <2>2. 1 \in G
    <3> DEFINE it == [i \in 1..1 |-> seqs[1]]
    <3>1. it = Def(it, 1)
      OBVIOUS
    <3> HIDE DEF it, Def
    <3> QED
      BY <2>1, <3>1
  <2>3. ASSUME NEW n \in 1..N, n # 1, n - 1 \in G PROVE n \in G
    <3>1. PICK f : f = Def(f, n - 1)
      BY <2>3
    <3> DEFINE g == [i \in 1..n |-> IF i = n THEN f[n - 1] \o seqs[n] ELSE f[i]]
    <3>2. n \in Nat /\ n >= 2 /\ n - 1 \in 1..(n - 1)
      BY <1>1, <2>3
    <3>3. ASSUME NEW i \in 1..n
          PROVE  g[i] = IF i = 1 THEN seqs[i] ELSE g[i - 1] \o seqs[i]
      <4>1. CASE i = n
        <5>1. i # 1 /\ i - 1 \in 1..n /\ i - 1 # n
          BY <3>2, <4>1
        <5>2. g[i] = f[n - 1] \o seqs[n] /\ g[i - 1] = f[i - 1]
          BY <4>1, <5>1
        <5> QED
          BY <4>1, <5>1, <5>2
      <4>2. CASE i # n /\ i # 1
        <5>1. i - 1 \in 1..n /\ i - 1 # n /\ i \in 1..(n - 1)
          BY <3>2, <4>2
        <5>2. g[i] = f[i] /\ g[i - 1] = f[i - 1]
          BY <4>2, <5>1
        <5>3. f[i] = f[i - 1] \o seqs[i]
          BY <3>1, <4>2, <5>1
        <5> QED
          BY <4>2, <5>2, <5>3
      <4>3. CASE i # n /\ i = 1
        <5>1. 1 \in 1..(n - 1)
          BY <3>2
        <5>2. f[1] = seqs[1]
          BY <3>1, <5>1
        <5> QED
          BY <4>3, <5>2
      <4> QED
        BY <4>1, <4>2, <4>3
    <3>4. g = [i \in 1..n |-> g[i]]
      OBVIOUS
    <3>6. g = Def(g, n)
      <4> HIDE DEF g
      <4> QED
        BY <3>3, <3>4
    <3> HIDE DEF g, Def
    <3> QED
      BY <3>6
  <2>4. \E it : it = Def(it, N)
    <3>1. \A i \in 1..N : i # 1 /\ i - 1 \in G => i \in G
      BY <2>3
    <3>2. N \in G
      <4> HIDE DEF G
      <4>1. 1 \in Nat /\ N \in Nat
        BY <1>1
      <4>2. \A i \in 1..N : i \in G
        BY <2>2, <3>1, <4>1, UpFrom, Zenon
      <4> QED
        BY <1>1, <1>3, <4>2
    <3> QED
      BY <3>2
  <2> DEFINE C == CHOOSE it : it = Def(it, N)
  <2>5. C = Def(C, N)
    <3> HIDE DEF Def
    <3> QED
      BY <2>4
  <2>6. FlattenSeq(seqs) = C[N]
    BY <1>3 DEF FlattenSeq, N
  <2> HIDE DEF C
  <2>7. \A i \in 1..N : C[i] \in Seq(D)
    <3> DEFINE H == {i \in 1..N : C[i] \in Seq(D)}
    <3>1. 1 \in H
      BY <1>1, <2>1, <2>5
    <3>2. ASSUME NEW n \in 1..N, n # 1, n - 1 \in H PROVE n \in H
      <4>1. C[n] = C[n - 1] \o seqs[n]
        BY <2>5, <3>2
      <4>2. C[n - 1] \in Seq(D) /\ seqs[n] \in Seq(D)
        BY <1>1, <3>2
      <4>3. C[n - 1] \o seqs[n] \in Seq(D)
        BY <4>2, CatIs
      <4> QED
        BY <4>1, <4>3
    <3>3. \A i \in 1..N : i # 1 /\ i - 1 \in H => i \in H
      BY <3>2
    <3> HIDE DEF H
    <3>4. 1 \in Nat /\ N \in Nat
      BY <1>1
    <3>5. \A i \in 1..N : i \in H
      BY <3>1, <3>3, <3>4, UpFrom, Zenon
    <3> QED
      BY <3>5 DEF H
  <2>8. N \in 1..N
    BY <1>1, <1>3
  <2> QED
    BY <2>6, <2>7, <2>8
<1> QED
  BY <1>2, <1>3

-----------------------------------------------------------------------------
(* The state. *)

\* The dead that the ally knows of after packet i of w.
Known(g, w, i) == g \cup UNION {w[j].dies : j \in 1..i}

\* Only a machine that has just stopped may have a command that says nothing.
Typed ==
  /\ mine \in Lists /\ Len(mine.acts) <= MaxActions
  /\ gone \in SUBSET Units
  /\ Len(buffer) \in Nat /\ Len(buffer) <= MaxCommands
  /\ mine.fault = "none" => buffer \in Seq(Cmds)
  /\ wire \in Seq(Packets)
  /\ ally \in Allies
  /\ gone = Known(ally.gone, wire, Len(wire))

\* The owner has changed its list, and the commands say how, unless it stopped.
Told ==
  /\ mine' \in Lists /\ Len(mine'.acts) <= MaxActions
  /\ Len(buffer') \in Nat /\ Len(buffer') <= MaxCommands
  /\ mine'.fault = "none" =>
       \E cmds \in Seq(Cmds) : buffer' = buffer \o cmds /\ Reaches(mine, cmds, mine', gone)

LEMMA AtWork ==
  ASSUME Typed, Runs
  PROVE  InOrder(mine) /\ buffer \in Seq(Cmds) /\ Len(mine.acts) \in Nat /\ mine.acts \in Seq(Action)
         /\ DOMAIN mine.acts = 1..Len(mine.acts) /\ mine.fault = "none"
<1>1. InOrder(mine) /\ mine.fault = "none"
  BY ListsIs DEF Typed, Runs
<1>2. mine.acts \in Seq(Action)
  BY <1>1, ContainerIs DEF InOrder
<1> QED
  BY <1>1, <1>2 DEF Typed

LEMMA WireIs ==
  ASSUME Typed
  PROVE  Len(FlattenSeq([i \in DOMAIN wire |-> wire[i].cmds])) \in Nat
<1> DEFINE f == [i \in DOMAIN wire |-> wire[i].cmds]
<1>1. wire \in Seq(Packets) /\ Len(wire) \in Nat /\ DOMAIN wire = 1..Len(wire)
  BY DEF Typed
<1>2. \A i \in 1..Len(wire) : wire[i] \in Packets
  BY <1>1
<1>3. \A i \in 1..Len(wire) : wire[i].cmds \in Seq(Cmds)
  BY <1>2 DEF Packets
<1>4. f \in [1..Len(wire) -> Seq(Cmds)]
  BY <1>1, <1>3
<1> HIDE DEF f
<1>5. f \in Seq(Seq(Cmds))
  BY <1>1, <1>4
<1>6. FlattenSeq(f) \in Seq(Cmds)
  BY <1>5, FlattenIs
<1> QED
  BY <1>6 DEF f

\* Whatever has become of the list, if the commands say so.
LEMMA BecomeTold ==
  ASSUME Typed, Runs, NEW c \in Lists, NEW S, NEW cmds \in Seq(S), Become(c, cmds),
         c.fault = "none" => cmds \in Seq(Cmds) /\ Reaches(mine, cmds, c, gone)
  PROVE  Told
<1>1. mine' = c /\ buffer' = buffer \o cmds /\ Len(c.acts) <= MaxActions
      /\ Len(buffer') + Len(FlattenSeq([i \in DOMAIN wire |-> wire[i].cmds])) <= MaxCommands
  BY DEF Become
<1>2. Len(buffer') \in Nat
  <2> DEFINE D == S \cup Cmds
  <2>1. buffer \in Seq(Cmds)
    BY AtWork
  <2>2. buffer \in Seq(D) /\ cmds \in Seq(D)
    BY <2>1
  <2> HIDE DEF D
  <2>3. Len(buffer \o cmds) = Len(buffer) + Len(cmds) /\ Len(buffer) \in Nat /\ Len(cmds) \in Nat
    BY <2>2, CatIs
  <2> QED
    BY <1>1, <2>3
<1>3. Len(buffer') <= MaxCommands
  <2> DEFINE w == Len(FlattenSeq([i \in DOMAIN wire |-> wire[i].cmds]))
  <2>1. w \in Nat
    BY WireIs
  <2>2. Len(buffer') + w <= MaxCommands
    BY <1>1
  <2> HIDE DEF w
  <2> QED
    BY <1>2, <2>1, <2>2, SideAssumption
<1>4. c.fault = "none" => \E x \in Seq(Cmds) : buffer' = buffer \o x /\ Reaches(mine, x, c, gone)
  BY <1>1
<1> QED
  BY <1>1, <1>2, <1>3, <1>4 DEF Told

LEMMA BecomeByOne ==
  ASSUME Typed, Runs, NEW c \in Lists, NEW cmd, Become(c, <<cmd>>),
         c.fault = "none" => cmd \in Cmds /\ Safe(mine, cmd, c, gone)
  PROVE  Told
<1>1. <<cmd>> \in Seq({cmd})
  OBVIOUS
<1>2. ASSUME c.fault = "none" PROVE <<cmd>> \in Seq(Cmds) /\ Reaches(mine, <<cmd>>, c, gone)
  <2>1. cmd \in Cmds /\ Safe(mine, cmd, c, gone)
    BY <1>2
  <2>2. Reaches(mine, <<cmd>>, c, gone)
    BY <2>1, ReachesOne
  <2> QED
    BY <2>1, <2>2
<1> QED
  BY <1>1, <1>2, BecomeTold

\* One more plan is queued, and told.
LEMMA QueuedKeeps ==
  ASSUME NEW b, NEW g, NEW c, InOrder(c), Len(c.acts) < MaxActions, NEW t, MayPlan(c, t),
         NEW u \in Units \cup {None}, NEW z \in Seq(Cmds), Reaches(b, z, c, g),
         NEW s, s.list = c, s.cmds = z
  PROVE  LET r == Queued(s, t, u)
         IN  /\ InOrder(r.list) /\ Len(r.list.acts) = Len(c.acts) + 1 /\ MayPlan(r.list, t + 1)
             /\ r.cmds \in Seq(Cmds) /\ Reaches(b, r.cmds, r.list, g)
<1> DEFINE a == Fresh(c, u)
           d == Queue(c, t, a)
           cmd == NetInsert(t, TurnSize(d, t) - 1, a)
           r == Queued(s, t, u)
<1>1. a \in Action
  BY FreshIs
<1>2. r = [list |-> d, cmds |-> Append(z, cmd)]
  BY DEF Queued
<1> HIDE DEF a
<1>3. InOrder(d) /\ Len(d.acts) = Len(c.acts) + 1 /\ Len(d.begins) \in Nat /\ Len(d.begins) > t
  BY <1>1, QueueKeeps
<1>4. cmd \in Cmds /\ Safe(c, cmd, d, g)
  BY <1>1, SafeQueue
<1> HIDE DEF d, cmd
<1>5. MayPlan(d, t + 1)
  <2>1. t \in Nat
    BY DEF MayPlan
  <2> QED
    BY <1>3, <2>1 DEF MayPlan
<1>6. Reaches(c, <<cmd>>, d, g)
  BY <1>4, ReachesOne
<1>7. <<cmd>> \in Seq(Cmds) /\ Append(z, cmd) = z \o <<cmd>> /\ Append(z, cmd) \in Seq(Cmds)
  BY <1>4
<1>8. Reaches(b, z \o <<cmd>>, d, g)
  BY <1>6, <1>7, ReachesThen
<1>9. r.list = d /\ r.cmds = Append(z, cmd)
  BY <1>2
<1> HIDE DEF r
<1>10. /\ InOrder(r.list) /\ Len(r.list.acts) = Len(c.acts) + 1 /\ MayPlan(r.list, t + 1)
       /\ r.cmds \in Seq(Cmds) /\ Reaches(b, r.cmds, r.list, g)
  BY <1>3, <1>5, <1>7, <1>8, <1>9
<1> QED
  BY <1>10 DEF r

\* The next move of a unit starts in the turn of its last plan, or in the one after it.
LEMMA FirstTurn ==
  ASSUME NEW c, InOrder(c), NEW u, NEW late \in {0, 1}
  PROVE  MayPlan(c, GetTurnNumOf(c, u) + late)
<1>1. Len(c.begins) \in Nat
  BY ContainerIs DEF InOrder
<1>2. GetTurnNumOf(c, u) \in Nat /\ (GetTurnNumOf(c, u) < Len(c.begins) \/ GetTurnNumOf(c, u) = 0)
  BY GetTurnNumIs
<1> DEFINE t == GetTurnNumOf(c, u)
<1> HIDE DEF t
<1>3. t + late \in Nat /\ (t + late <= Len(c.begins) \/ (t + late = 1 /\ Len(c.begins) = 0))
  BY <1>1, <1>2 DEF t
<1> QED
  BY <1>3 DEF MayPlan, t

LEMMA ToldSaveMove ==
  ASSUME Typed, NEW u \in Units \ gone, NEW late \in {0, 1}, NEW turns \in {1, 2}, SaveMove(u, late, turns)
  PROVE  Told
<1> DEFINE first == GetTurnNumOf(mine, u) + late
           base == [list |-> mine, cmds |-> <<>>]
           s == FoldLeft(LAMBDA r, i : Queued(r, first + i - 1, u), base, [i \in 1..turns |-> i])
<1>1. Runs /\ Len(mine.acts) + turns <= MaxActions /\ Become(s.list, s.cmds)
  BY DEF SaveMove
<1>2. InOrder(mine) /\ Len(mine.acts) \in Nat /\ MaxActions \in Nat
  BY <1>1, AtWork, SideAssumption
<1>3. MayPlan(mine, first)
  BY <1>2, FirstTurn
<1>4. first \in Nat
  BY <1>3 DEF MayPlan
<1> HIDE DEF first
<1>5. PICK q : /\ q[0] = base
               /\ \A n \in 1..turns : q[n] = Queued(q[n - 1], first + n - 1, u)
               /\ s = q[turns]
  <2>1. turns \in Nat
    OBVIOUS
  <2>2. \E q : QueuePath(q, base, first, u, turns)
    BY <2>1, QueuesFollow
  <2> QED
    BY <2>2, Zenon DEF QueuePath
<1>6. base.list = mine /\ base.cmds = <<>> /\ <<>> \in Seq(Cmds) /\ Reaches(mine, <<>>, mine, gone)
  BY ReachesNone
<1> HIDE DEF s, base
<1>7. /\ InOrder(q[1].list) /\ Len(q[1].list.acts) = Len(mine.acts) + 1 /\ MayPlan(q[1].list, first + 1)
      /\ q[1].cmds \in Seq(Cmds) /\ Reaches(mine, q[1].cmds, q[1].list, gone)
  <2>1. q[1] = Queued(base, first, u)
    <3>1. q[1] = Queued(q[1 - 1], first + 1 - 1, u)
      BY <1>5
    <3>2. 1 - 1 = 0 /\ first + 1 - 1 = first
      BY <1>4
    <3> QED
      BY <1>5, <3>1, <3>2
  <2>2. Len(mine.acts) < MaxActions /\ u \in Units \cup {None}
    BY <1>1, <1>2
  <2> DEFINE y == Queued(base, first, u)
  <2>3. /\ InOrder(y.list) /\ Len(y.list.acts) = Len(mine.acts) + 1 /\ MayPlan(y.list, first + 1)
        /\ y.cmds \in Seq(Cmds) /\ Reaches(mine, y.cmds, y.list, gone)
    <3> DEFINE z == <<>>
    <3>1. z \in Seq(Cmds) /\ base.list = mine /\ base.cmds = z /\ Reaches(mine, z, mine, gone)
      BY <1>6
    <3> HIDE DEF z
    <3> QED
      BY <1>2, <1>3, <2>2, <3>1, QueuedKeeps
  <2> HIDE DEF y
  <2> QED
    BY <2>1, <2>3 DEF y
<1>8. InOrder(s.list) /\ s.cmds \in Seq(Cmds) /\ Reaches(mine, s.cmds, s.list, gone)
  <2>1. CASE turns = 1
    BY <1>5, <1>7, <2>1
  <2>2. CASE turns = 2
    <3> DEFINE x == q[1]
    <3>1. q[2] = Queued(x, first + 1, u)
      <4>1. q[2] = Queued(q[2 - 1], first + 2 - 1, u)
        BY <1>5, <2>2
      <4>2. 2 - 1 = 1 /\ first + 2 - 1 = first + 1
        BY <1>4
      <4> QED
        BY <4>1, <4>2
    <3>2. Len(x.list.acts) < MaxActions /\ u \in Units \cup {None}
      BY <1>1, <1>2, <1>7, <2>2
    <3>3. /\ InOrder(x.list) /\ MayPlan(x.list, first + 1)
          /\ x.cmds \in Seq(Cmds) /\ Reaches(mine, x.cmds, x.list, gone)
      BY <1>7
    <3> HIDE DEF x
    <3> DEFINE y == Queued(x, first + 1, u)
    <3>4. InOrder(y.list) /\ y.cmds \in Seq(Cmds) /\ Reaches(mine, y.cmds, y.list, gone)
      BY <3>2, <3>3, QueuedKeeps
    <3> HIDE DEF y
    <3> QED
      BY <1>5, <2>2, <3>1, <3>4 DEF y
  <2> QED
    BY <2>1, <2>2
<1>9. s.list \in Lists
  BY <1>8, InOrderList
<1> QED
  BY <1>1, <1>8, <1>9, BecomeTold

LEMMA ToldSaveRecruit ==
  ASSUME Typed, NEW t, SaveRecruit(t)
  PROVE  Told
<1> DEFINE base == [list |-> mine, cmds |-> <<>>]
           s == Queued(base, t, None)
<1>1. /\ Runs /\ Len(mine.acts) < MaxActions /\ Become(s.list, s.cmds)
      /\ t \in {GetTurnNumOf(mine, u) : u \in Units \ gone} \cup {IF NumTurns(mine) > 0 THEN NumTurns(mine) - 1 ELSE 0}
  BY DEF SaveRecruit
<1>2. InOrder(mine) /\ Len(mine.begins) \in Nat
  BY <1>1, AtWork, ContainerIs DEF InOrder
<1>3. MayPlan(mine, t)
  <2>1. CASE t \in {GetTurnNumOf(mine, u) : u \in Units \ gone}
    <3>1. PICK u \in Units : t = GetTurnNumOf(mine, u)
      BY <2>1
    <3>2. t \in Nat /\ (t < Len(mine.begins) \/ t = 0)
      BY <1>2, <3>1, GetTurnNumIs
    <3> QED
      BY <1>2, <3>2 DEF MayPlan
  <2>2. CASE t = IF NumTurns(mine) > 0 THEN NumTurns(mine) - 1 ELSE 0
    BY <1>2, <2>2 DEF MayPlan, NumTurns
  <2> QED
    BY <1>1, <2>1, <2>2
<1>4. base.list = mine /\ base.cmds = <<>> /\ <<>> \in Seq(Cmds) /\ Reaches(mine, <<>>, mine, gone)
  BY ReachesNone
<1> HIDE DEF base
<1>5. InOrder(s.list) /\ s.cmds \in Seq(Cmds) /\ Reaches(mine, s.cmds, s.list, gone)
  <2>1. None \in Units \cup {None}
    OBVIOUS
  <2> QED
    BY <1>1, <1>2, <1>3, <1>4, <2>1, QueuedKeeps
<1> HIDE DEF s
<1>6. s.list \in Lists
  BY <1>5, InOrderList
<1> QED
  BY <1>1, <1>5, <1>6, BecomeTold

LEMMA ToldErase ==
  ASSUME Typed, Runs, NEW p \in DOMAIN mine.acts, Become(Erase(mine, p), <<NetRemove(mine, p)>>)
  PROVE  Told
<1>1. InOrder(mine) /\ p \in 1..Len(mine.acts)
  BY AtWork
<1>2. Erase(mine, p) \in Lists
  BY <1>1, EraseKeeps
<1>3. NetRemove(mine, p) \in Cmds /\ Safe(mine, NetRemove(mine, p), Erase(mine, p), gone)
  BY <1>1, SafeRemove
<1> QED
  BY <1>2, <1>3, BecomeByOne

\* A plan for a later turn is executed: an assertion stops the machine.
LEMMA ToldTooEarly ==
  ASSUME Typed, NEW p, ExecuteTooEarly(p)
  PROVE  Told
<1> DEFINE c == Fails(mine, "assertion")
<1>1. Runs /\ Become(c, <<>>)
  BY DEF ExecuteTooEarly
<1>2. InOrder(mine)
  BY <1>1, AtWork
<1>3. c \in Lists /\ c.fault # "none"
  <2>1. "assertion" \in Faults \ {"none"}
    BY DEF Faults
  <2> QED
    BY <1>2, <2>1, FailsIs
<1> HIDE DEF c
<1>4. <<>> \in Seq(Cmds)
  OBVIOUS
<1> QED
  BY <1>1, <1>3, <1>4, BecomeTold

LEMMA ToldExecutePart ==
  ASSUME Typed, NEW p \in DOMAIN mine.acts, ExecutePart(p)
  PROVE  Told
<1> DEFINE mover == mine.acts[p].unit
           a == Fresh(mine, mover)
           c == [mine EXCEPT !.acts[p] = a]
<1>1. Runs /\ mover \in Units \ gone /\ Len(mine.acts) < MaxActions /\ Become(c, <<NetReplace(mine, p, a)>>)
  BY DEF ExecutePart
<1>2. InOrder(mine) /\ p \in 1..Len(mine.acts)
  BY <1>1, AtWork
<1>3. a \in Action
  BY <1>1, <1>2, FreshIs
<1> HIDE DEF a
<1>4. c \in Lists
  BY <1>2, <1>3, ReplacedIs, InOrderList
<1>5. NetReplace(mine, p, a) \in Cmds /\ Safe(mine, NetReplace(mine, p, a), c, gone)
  BY <1>2, <1>3, SafeReplace
<1> HIDE DEF c
<1> QED
  BY <1>1, <1>4, <1>5, BecomeByOne

LEMMA ToldBump ==
  ASSUME Typed, NEW p \in 2..Len(mine.acts), Bump(p)
  PROVE  Told
<1>1. Runs /\ BumpAllowed(mine, p, gone) /\ Become(Bumped(mine, p, gone), <<NetBumpLater(mine, p - 1)>>)
  BY DEF Bump
<1>2. InOrder(mine)
  BY <1>1, AtWork
<1>3. Bumped(mine, p, gone) \in Lists
  BY <1>2, BumpedIs
<1>4. Bumped(mine, p, gone).fault = "none" =>
        NetBumpLater(mine, p - 1) \in Cmds /\ Safe(mine, NetBumpLater(mine, p - 1), Bumped(mine, p, gone), gone)
  BY <1>1, <1>2, SafeBump
<1> QED
  BY <1>1, <1>3, <1>4, BecomeByOne

LEMMA ToldFinishSideTurn ==
  ASSUME Typed, FinishSideTurn
  PROVE  Told
<1> DEFINE c == RawTurnShift(mine, gone)
<1>1. Runs /\ mine # Empty /\ Become(c, <<NetRefresh(c)>>)
  BY DEF FinishSideTurn
<1>2. InOrder(mine)
  BY <1>1, AtWork
<1>3. Len(mine.acts) # 0
  <2> SUFFICES ASSUME Len(mine.acts) = 0 PROVE FALSE
    OBVIOUS
  <2>1. Len(mine.begins) = 0
    BY <1>2, OrderRises DEF Rising
  <2>2. mine = [acts |-> mine.acts, begins |-> mine.begins, fault |-> "none"]
        /\ mine.acts \in Seq(Action) /\ mine.begins \in Seq(Nat)
    BY <1>2, ContainerIs DEF InOrder
  <2>3. mine.acts = <<>> /\ mine.begins = <<>>
    BY <2>1, <2>2
  <2> QED
    BY <1>1, <2>2, <2>3 DEF Empty
<1>4. c \in Lists
  BY <1>2, <1>3, RawTurnShiftKeeps
<1> HIDE DEF c
<1>5. ASSUME c.fault = "none" PROVE NetRefresh(c) \in Cmds /\ Safe(mine, NetRefresh(c), c, gone)
  <2>1. InOrder(c)
    BY <1>4, <1>5, ListsIs
  <2> QED
    BY <1>2, <2>1, SafeRefresh
<1> QED
  BY <1>1, <1>4, <1>5, BecomeByOne

LEMMA ToldTakeSide ==
  ASSUME Typed, TakeSide
  PROVE  Told
<1>1. Runs /\ Become(Empty, <<NetClear>>)
  BY DEF TakeSide
<1>2. InOrder(mine) /\ Empty \in Lists
  BY <1>1, AtWork, EmptyIs
<1>3. NetClear \in Cmds /\ Safe(mine, NetClear, Empty, gone)
  BY <1>2, SafeClear
<1> QED
  BY <1>1, <1>2, <1>3, BecomeByOne

LEMMA ToldTellPlans ==
  ASSUME Typed, TellPlans
  PROVE  Told
<1>1. Runs /\ Become(mine, <<NetRefresh(mine)>>)
  BY DEF TellPlans
<1>2. InOrder(mine) /\ mine \in Lists
  BY <1>1, AtWork, InOrderList
<1>3. NetRefresh(mine) \in Cmds /\ Safe(mine, NetRefresh(mine), mine, gone)
  BY <1>2, SafeRefresh
<1> QED
  BY <1>1, <1>2, <1>3, BecomeByOne

\* What the owner does by itself leaves the ally and what is on its way alone.
Alone == Runs /\ Told /\ UNCHANGED <<gone, wire, ally>>

\* A unit dies: the ally will hear of it.
Dies(u) ==
  /\ u \in Units \ gone /\ gone' = gone \cup {u}
  /\ wire' = Append(wire, [cmds |-> <<>>, dies |-> {u}])
  /\ ally' = ally

LEMMA OneStep ==
  ASSUME Typed, Next
  PROVE  \/ Alone
         \/ \E u : Runs /\ Dies(u) /\ buffer = <<>> /\ Told
         \/ \E u : Runs /\ Dies(u) /\ UNCHANGED <<mine, buffer>>
         \/ SendNetworkData \/ Receive
<1>1. CASE \E u \in Units \ gone, late \in {0, 1}, turns \in {1, 2} : SaveMove(u, late, turns)
  BY <1>1, ToldSaveMove DEF Alone, SaveMove
<1>2. CASE \E t \in 0..MaxTurns : SaveRecruit(t)
  BY <1>2, ToldSaveRecruit DEF Alone, SaveRecruit
<1>3. ASSUME NEW p \in DOMAIN mine.acts, RemoveAction(p) PROVE Alone
  BY <1>3, ToldErase DEF Alone, RemoveAction
<1>4. ASSUME NEW p \in DOMAIN mine.acts, Execute(p)
      PROVE  \E u : Runs /\ Dies(u) /\ buffer = <<>> /\ Told
  <2> DEFINE u == mine.acts[p].unit
  <2>1. u \in MayDie \ gone /\ Runs /\ buffer = <<>> /\ gone' = gone \cup {u}
        /\ wire' = Append(wire, [cmds |-> <<>>, dies |-> {u}]) /\ ally' = ally
        /\ Become(Erase(mine, p), <<NetRemove(mine, p)>>)
    BY <1>4 DEF Execute
  <2>2. Told
    BY <2>1, ToldErase
  <2> HIDE DEF u
  <2>3. Dies(u)
    BY <2>1, SideAssumption DEF Dies
  <2> QED
    BY <2>1, <2>2, <2>3
<1>5. ASSUME NEW p \in DOMAIN mine.acts, ExecutePart(p) PROVE Alone
  BY <1>5, ToldExecutePart DEF Alone, ExecutePart
<1>55. ASSUME NEW p \in DOMAIN mine.acts, ExecuteTooEarly(p) PROVE Alone
  BY <1>55, ToldTooEarly DEF Alone, ExecuteTooEarly
<1>6. CASE \E p \in 2..Len(mine.acts) : Bump(p)
  BY <1>6, ToldBump DEF Alone, Bump
<1>7. CASE FinishSideTurn
  BY <1>7, ToldFinishSideTurn DEF Alone, FinishSideTurn
<1>8. CASE TakeSide
  BY <1>8, ToldTakeSide DEF Alone, TakeSide
<1>9. CASE TellPlans
  BY <1>9, ToldTellPlans DEF Alone, TellPlans
<1>10. ASSUME NEW u \in Units, EnemyKills(u)
       PROVE  \E v : Runs /\ Dies(v) /\ UNCHANGED <<mine, buffer>>
  <2>1. Runs /\ Dies(u) /\ UNCHANGED <<mine, buffer>>
    BY <1>10, SideAssumption DEF EnemyKills, Dies
  <2> QED
    BY <2>1
<1> QED
  BY <1>1, <1>2, <1>3, <1>4, <1>5, <1>55, <1>6, <1>7, <1>8, <1>9, <1>10 DEF Next

-----------------------------------------------------------------------------
(* What is on its way. *)

LEMMA AppendIs ==
  ASSUME NEW S, NEW w \in Seq(S), NEW x \in S
  PROVE  /\ Append(w, x) \in Seq(S) /\ Len(Append(w, x)) = Len(w) + 1 /\ Append(w, x)[Len(w) + 1] = x
         /\ \A i \in 1..Len(w) : Append(w, x)[i] = w[i]
OBVIOUS

LEMMA TailIs ==
  ASSUME NEW S, NEW w \in Seq(S), w # <<>>
  PROVE  /\ Len(w) \in Nat /\ Len(w) >= 1 /\ Head(w) = w[1] /\ w[1] \in S /\ Tail(w) \in Seq(S) /\ Len(Tail(w)) = Len(w) - 1
         /\ \A i \in 1..Len(w)-1 : Tail(w)[i] = w[i + 1]
OBVIOUS

LEMMA KnownAppend ==
  ASSUME NEW g, NEW S, NEW w \in Seq(S), NEW x \in S
  PROVE  /\ \A i \in 1..Len(w) : Known(g, Append(w, x), i) = Known(g, w, i)
         /\ Known(g, Append(w, x), Len(w) + 1) = Known(g, w, Len(w)) \cup x.dies
<1> DEFINE N == Len(w)
           v == Append(w, x)
<1>1. N \in Nat /\ v[N + 1] = x /\ \A i \in 1..N : v[i] = w[i]
  BY AppendIs
<1> HIDE DEF N, v
<1>2. ASSUME NEW i \in 1..N PROVE Known(g, v, i) = Known(g, w, i)
  <2>1. \A j \in 1..i : v[j] = w[j]
    BY <1>1
  <2>2. {v[j].dies : j \in 1..i} = {w[j].dies : j \in 1..i}
    BY <2>1
  <2> QED
    BY <2>2 DEF Known
<1>3. Known(g, v, N + 1) = Known(g, w, N) \cup x.dies
  <2>1. \A j \in 1..N+1 : j \in 1..N \/ j = N + 1
    BY <1>1
  <2>2. N + 1 \in 1..N+1 /\ \A j \in 1..N : j \in 1..N+1
    BY <1>1
  <2>3. {v[j].dies : j \in 1..N+1} = {w[j].dies : j \in 1..N} \cup {x.dies}
    BY <1>1, <2>1, <2>2
  <2> QED
    BY <2>3 DEF Known
<1> QED
  BY <1>2, <1>3 DEF N, v

LEMMA KnownTail ==
  ASSUME NEW g, NEW S, NEW w \in Seq(S), w # <<>>, NEW i \in 0..Len(w)-1
  PROVE  Known(g \cup w[1].dies, Tail(w), i) = Known(g, w, i + 1)
<1> DEFINE N == Len(w)
           v == Tail(w)
<1>1. N \in Nat /\ N >= 1 /\ \A j \in 1..N-1 : v[j] = w[j + 1]
  BY TailIs
<1> HIDE DEF N, v
<1>2. i \in Nat /\ i <= N - 1
  BY <1>1 DEF N
<1>3. \A j \in 1..i : v[j] = w[j + 1] /\ j + 1 \in 1..i+1
  BY <1>1, <1>2
<1>4. \A j \in 1..i+1 : j = 1 \/ (j - 1 \in 1..i /\ (j - 1) + 1 = j)
  BY <1>2
<1>5. 1 \in 1..i+1
  BY <1>2
<1>6. {w[j].dies : j \in 1..i+1} = {v[j].dies : j \in 1..i} \cup {w[1].dies}
  <2>1. ASSUME NEW j \in 1..i+1 PROVE w[j].dies \in {v[k].dies : k \in 1..i} \cup {w[1].dies}
    <3>1. CASE j = 1
      BY <3>1
    <3>2. CASE j - 1 \in 1..i /\ (j - 1) + 1 = j
      <4>1. v[j - 1] = w[(j - 1) + 1]
        BY <1>3, <3>2
      <4>2. v[j - 1].dies = w[j].dies
        BY <3>2, <4>1
      <4> QED
        BY <3>2, <4>2
    <3> QED
      BY <1>4, <3>1, <3>2
  <2>2. ASSUME NEW j \in 1..i PROVE v[j].dies \in {w[k].dies : k \in 1..i+1}
    BY <1>3
  <2> QED
    BY <1>5, <2>1, <2>2
<1>7. Known(g \cup w[1].dies, v, i) = Known(g, w, i + 1)
  BY <1>6 DEF Known
<1> QED
  BY <1>7 DEF v

\* By the packets of w the ally, at list l, comes to e, unless it is lost; m are the lists
\* that the owner had when it sent them.
Marked(m, l, g, w) ==
  /\ m[0] = l
  /\ \A i \in 1..Len(w) : Reaches(m[i - 1], w[i].cmds, m[i], Known(g, w, i))
Comes(l, g, w, e) == \E m : Marked(m, l, g, w) /\ m[Len(w)] = e

LEMMA ComesAppend ==
  ASSUME NEW l, NEW g, NEW S, NEW w \in Seq(S), NEW x \in S, NEW c, Comes(l, g, w, c), NEW e, NEW d,
         d = Known(g, w, Len(w)) \cup x.dies, Reaches(c, x.cmds, e, d)
  PROVE  Comes(l, g, Append(w, x), e)
<1>0. PICK m : Marked(m, l, g, w) /\ m[Len(w)] = c
  BY DEF Comes
<1> DEFINE N == Len(w)
           v == Append(w, x)
           k == [i \in 0..N+1 |-> IF i = N + 1 THEN e ELSE m[i]]
<1>1. N \in Nat /\ Len(v) = N + 1 /\ v[N + 1] = x /\ \A i \in 1..N : v[i] = w[i]
  BY AppendIs
<1>2. (\A i \in 1..N : Known(g, v, i) = Known(g, w, i)) /\ Known(g, v, N + 1) = Known(g, w, N) \cup x.dies
  BY KnownAppend
<1>3. m[0] = l /\ \A i \in 1..N : Reaches(m[i - 1], w[i].cmds, m[i], Known(g, w, i))
  BY <1>0 DEF Marked
<1>4. Reaches(m[N], x.cmds, e, Known(g, w, N) \cup x.dies)
  BY <1>0
<1> HIDE DEF N, v
<1>5. k[N + 1] = e /\ \A i \in 0..N : k[i] = m[i]
  BY <1>1
<1>6. 0 \in 0..N
  BY <1>1
<1> HIDE DEF k
<1>7. ASSUME NEW i \in 1..N+1 PROVE Reaches(k[i - 1], v[i].cmds, k[i], Known(g, v, i))
  <2>1. CASE i \in 1..N
    <3>1. i - 1 \in 0..N /\ i \in 0..N
      BY <1>1, <2>1
    <3>2. k[i - 1] = m[i - 1] /\ k[i] = m[i] /\ v[i] = w[i] /\ Known(g, v, i) = Known(g, w, i)
      BY <1>1, <1>2, <1>5, <2>1, <3>1
    <3> QED
      BY <1>3, <2>1, <3>2
  <2>2. CASE i = N + 1
    <3>1. i - 1 = N /\ N \in 0..N
      BY <1>1, <2>2
    <3>2. k[i - 1] = m[N] /\ k[i] = e /\ v[i] = x /\ Known(g, v, i) = Known(g, w, N) \cup x.dies
      BY <1>1, <1>2, <1>5, <2>2, <3>1
    <3> QED
      BY <1>4, <3>2
  <2> QED
    BY <1>1, <2>1, <2>2
<1>8. Marked(k, l, g, v) /\ k[Len(v)] = e
  BY <1>1, <1>3, <1>5, <1>6, <1>7 DEF Marked
<1>9. Comes(l, g, v, e)
  BY <1>8 DEF Comes
<1> QED
  BY <1>9 DEF v

LEMMA ComesTail ==
  ASSUME NEW l, NEW g, NEW S, NEW w \in Seq(S), w # <<>>, NEW e, Comes(l, g, w, e)
  PROVE  \E c : Reaches(l, w[1].cmds, c, g \cup w[1].dies) /\ Comes(c, g \cup w[1].dies, Tail(w), e)
<1>0. PICK m : Marked(m, l, g, w) /\ m[Len(w)] = e
  BY DEF Comes
<1> DEFINE N == Len(w)
           v == Tail(w)
           h == g \cup w[1].dies
           k == [i \in 0..N-1 |-> m[i + 1]]
<1>1. N \in Nat /\ N >= 1 /\ Len(v) = N - 1 /\ \A i \in 1..N-1 : v[i] = w[i + 1]
  BY TailIs
<1>2. \A i \in 0..N-1 : Known(h, v, i) = Known(g, w, i + 1)
  BY KnownTail
<1>3. m[0] = l /\ \A i \in 1..N : Reaches(m[i - 1], w[i].cmds, m[i], Known(g, w, i))
  BY <1>0 DEF Marked
<1>4. Known(g, w, 1) = h
  BY DEF Known
<1> HIDE DEF N, v, h
<1>5. \A i \in 0..N-1 : k[i] = m[i + 1]
  OBVIOUS
<1> HIDE DEF k
<1>6. ASSUME NEW i \in 1..N-1 PROVE Reaches(k[i - 1], v[i].cmds, k[i], Known(h, v, i))
  <2> DEFINE j == i + 1
  <2>1. i - 1 \in 0..N-1 /\ i \in 0..N-1 /\ j \in 1..N /\ (i - 1) + 1 = i /\ j - 1 = i
    BY <1>1
  <2>2. k[i - 1] = m[(i - 1) + 1] /\ k[i] = m[i + 1] /\ v[i] = w[i + 1] /\ Known(h, v, i) = Known(g, w, i + 1)
    BY <1>1, <1>2, <1>5, <2>1
  <2>3. k[i - 1] = m[j - 1] /\ k[i] = m[j] /\ v[i] = w[j] /\ Known(h, v, i) = Known(g, w, j)
    BY <2>1, <2>2
  <2> HIDE DEF j
  <2>4. Reaches(m[j - 1], w[j].cmds, m[j], Known(g, w, j))
    BY <1>3, <2>1
  <2> QED
    BY <2>3, <2>4
<1>7. k[0] = m[1] /\ k[Len(v)] = m[N]
  <2>1. 0 \in 0..N-1 /\ N - 1 \in 0..N-1 /\ 0 + 1 = 1 /\ (N - 1) + 1 = N
    BY <1>1
  <2> QED
    BY <1>1, <1>5, <2>1
<1>8. Marked(k, m[1], h, v)
  BY <1>1, <1>6, <1>7 DEF Marked
<1>9. Reaches(l, w[1].cmds, m[1], h)
  <2>1. 1 \in 1..N /\ 1 - 1 = 0
    BY <1>1
  <2>2. Reaches(m[1 - 1], w[1].cmds, m[1], Known(g, w, 1))
    BY <1>3, <2>1
  <2> QED
    BY <1>3, <1>4, <2>1, <2>2
<1>10. Comes(m[1], h, v, e)
  <2>1. m[N] = e
    BY <1>0 DEF N
  <2> QED
    BY <1>7, <1>8, <2>1 DEF Comes
<1> QED
  BY <1>9, <1>10 DEF h, v

\* What is on its way, and what is not sent yet, leads from a list c to the list of the owner;
\* the ally has c, or is lost.
Tracks ==
  Runs => \E c, e : /\ Lost(ally) \/ ally.list = c
                    /\ Comes(c, ally.gone, wire, e) /\ Reaches(e, buffer, mine, gone)

IInv == Typed /\ Tracks

LEMMA InitIInv == Init => IInv
<1> SUFFICES ASSUME Init PROVE IInv
  OBVIOUS
<1>1. /\ mine = Empty /\ gone = {} /\ buffer = <<>> /\ wire = <<>>
      /\ ally = [list |-> Empty, gone |-> {}, dropped |-> FALSE]
  BY DEF Init
<1>2. Empty \in Lists /\ Len(Empty.acts) = 0
  BY EmptyIs
<1>3. ally \in Allies /\ ally.list = Empty /\ ally.gone = {}
  BY <1>1, <1>2 DEF Allies
<1>4. Len(wire) = 0 /\ wire \in Seq(Packets) /\ Len(buffer) = 0 /\ buffer \in Seq(Cmds)
  BY <1>1
<1>5. Known({}, wire, 0) = {}
  BY DEF Known
<1>6. Typed
  BY <1>1, <1>2, <1>3, <1>4, <1>5, SideAssumption DEF Typed
<1>7. Tracks
  <2>1. Comes(Empty, {}, <<>>, Empty)
    <3> DEFINE m == [i \in 0..0 |-> Empty]
    <3>1. m[0] = Empty /\ Len(<<>>) = 0
      OBVIOUS
    <3> HIDE DEF m
    <3>2. Marked(m, Empty, {}, <<>>)
      BY <3>1 DEF Marked
    <3> QED
      BY <3>1, <3>2 DEF Comes
  <2>2. Comes(ally.list, ally.gone, wire, Empty)
    BY <1>1, <1>3, <2>1, Zenon
  <2>3. Reaches(Empty, buffer, mine, gone)
    BY <1>1, ReachesNone
  <2> QED
    BY <2>2, <2>3 DEF Tracks
<1> QED
  BY <1>6, <1>7 DEF IInv

LEMMA DiesTyped ==
  ASSUME Typed, NEW u, Dies(u)
  PROVE  /\ gone' \in SUBSET Units /\ wire' \in Seq(Packets) /\ ally' \in Allies
         /\ gone' = Known(ally'.gone, wire', Len(wire'))
<1> DEFINE x == [cmds |-> <<>>, dies |-> {u}]
<1>1. u \in Units /\ gone' = gone \cup {u} /\ wire' = Append(wire, x) /\ ally' = ally
  BY DEF Dies
<1>2. x \in Packets /\ x.dies = {u}
  BY <1>1 DEF Packets
<1> HIDE DEF x
<1>3. wire \in Seq(Packets) /\ gone \in SUBSET Units /\ ally \in Allies /\ gone = Known(ally.gone, wire, Len(wire))
  BY DEF Typed
<1>4. wire' \in Seq(Packets) /\ Len(wire') = Len(wire) + 1
  BY <1>1, <1>2, <1>3, AppendIs
<1>5. Known(ally.gone, wire', Len(wire) + 1) = gone \cup {u}
  BY <1>1, <1>2, <1>3, KnownAppend
<1> QED
  BY <1>1, <1>3, <1>4, <1>5

LEMMA DiesTracks ==
  ASSUME IInv, NEW u, Dies(u), Runs
  PROVE  \E c, e : /\ Lost(ally') \/ ally'.list = c
                   /\ Comes(c, ally'.gone, wire', e) /\ Reaches(e, buffer, mine, gone')
<1> DEFINE x == [cmds |-> <<>>, dies |-> {u}]
<1>1. u \in Units /\ gone' = gone \cup {u} /\ wire' = Append(wire, x) /\ ally' = ally
  BY DEF Dies
<1>2. x \in Packets /\ x.cmds = <<>>
  BY <1>1 DEF Packets
<1> HIDE DEF x
<1>3. wire \in Seq(Packets)
  BY DEF IInv, Typed
<1>4. PICK c, e : (Lost(ally) \/ ally.list = c) /\ Comes(c, ally.gone, wire, e) /\ Reaches(e, buffer, mine, gone)
  BY DEF IInv, Tracks
<1> DEFINE d == Known(ally.gone, wire, Len(wire)) \cup x.dies
<1>5. Reaches(e, x.cmds, e, d)
  BY <1>2, ReachesNone
<1>6. Comes(c, ally.gone, Append(wire, x), e)
  <2>1. d = Known(ally.gone, wire, Len(wire)) \cup x.dies
    OBVIOUS
  <2> HIDE DEF d
  <2> QED
    BY <1>2, <1>3, <1>4, <1>5, <2>1, ComesAppend
<1>7. Reaches(e, buffer, mine, gone')
  <2>1. gone \subseteq gone'
    BY <1>1
  <2> QED
    BY <1>4, <2>1, ReachesMore
<1> QED
  BY <1>1, <1>4, <1>6, <1>7

LEMMA ReceiveIs ==
  ASSUME IInv, Receive
  PROVE  /\ ally' \in Allies /\ wire' \in Seq(Packets) /\ UNCHANGED <<mine, gone, buffer>>
         /\ gone = Known(ally'.gone, wire', Len(wire'))
         /\ Tracks'
<1> DEFINE x == wire[1]
           a == [ally EXCEPT !.gone = @ \cup x.dies]
           h == ally.gone \cup x.dies
           N == Len(wire)
<1>1. wire # <<>> /\ wire \in Seq(Packets) /\ ally \in Allies /\ gone = Known(ally.gone, wire, N)
  BY DEF IInv, Typed, Receive
<1>2. /\ N \in Nat /\ N >= 1 /\ Head(wire) = x /\ x \in Packets /\ Tail(wire) \in Seq(Packets) /\ Len(Tail(wire)) = N - 1
  BY <1>1, TailIs
<1>3. PICK refused : ally' = Delivered(a, x.cmds, refused)
  <2>1. \E refused \in SUBSET DOMAIN Head(wire).cmds :
          ally' = Delivered([ally EXCEPT !.gone = @ \cup Head(wire).dies], Head(wire).cmds, refused)
    BY Zenon DEF Receive, Delivered
  <2>2. Head(wire) = x
    BY <1>2
  <2> QED
    BY <2>1, <2>2, Zenon
<1>33. wire' = Tail(wire) /\ UNCHANGED <<mine, gone, buffer>>
  BY DEF Receive
<1>4. x.cmds \in Seq(Cmds) /\ x.dies \in SUBSET Units
  BY <1>2 DEF Packets
<1> HIDE DEF x
<1>5. a \in Allies /\ a.gone = h /\ a.list = ally.list /\ a.dropped = ally.dropped
  BY <1>1, <1>4 DEF Allies
<1> HIDE DEF a, h
<1>6. /\ SameAlly(ally', a)
      /\ \A c, d, g : (Lost(a) \/ a.list = c) /\ Reaches(c, x.cmds, d, g) /\ g \subseteq a.gone
                      => Lost(ally') \/ ally'.list = d
  BY <1>3, <1>4, <1>5, PacketExecuted
<1>7. ally' \in Allies /\ ally'.gone = h
  BY <1>5, <1>6 DEF SameAlly
<1>8. gone = Known(ally'.gone, wire', Len(wire'))
  <2>1. N - 1 \in 0..Len(wire)-1 /\ (N - 1) + 1 = N
    BY <1>2
  <2> DEFINE i == N - 1
  <2>2. i \in 0..Len(wire)-1 /\ i + 1 = N
    BY <2>1
  <2> HIDE DEF i
  <2>3. Known(ally.gone \cup wire[1].dies, Tail(wire), i) = Known(ally.gone, wire, i + 1)
    BY <1>1, <2>2, KnownTail
  <2> QED
    BY <1>1, <1>2, <1>33, <1>7, <2>2, <2>3 DEF i, h, x
<1>9. Tracks'
  <2> SUFFICES ASSUME Runs'
               PROVE  \E c, e : /\ Lost(ally') \/ ally'.list = c
                                /\ Comes(c, ally'.gone, wire', e) /\ Reaches(e, buffer', mine', gone')
    BY DEF Tracks
  <2>1. Runs
    BY <1>33 DEF Runs
  <2>2. PICK c, e : (Lost(ally) \/ ally.list = c) /\ Comes(c, ally.gone, wire, e) /\ Reaches(e, buffer, mine, gone)
    BY <2>1 DEF IInv, Tracks
  <2>3. Lost(ally) => Lost(a)
    <3>1. ally.gone \subseteq a.gone
      BY <1>5 DEF h
    <3> QED
      BY <1>5, <3>1 DEF Lost
  <2>4. PICK d : Reaches(c, x.cmds, d, h) /\ Comes(d, h, Tail(wire), e)
    BY <1>1, <2>2, ComesTail DEF x, h
  <2>5. Lost(ally') \/ ally'.list = d
    BY <1>5, <1>6, <2>2, <2>3, <2>4
  <2> QED
    BY <1>33, <1>7, <2>2, <2>4, <2>5
<1> QED
  BY <1>2, <1>33, <1>7, <1>8, <1>9

LEMMA ToldTracks ==
  ASSUME Typed, Told, Runs', NEW c, NEW g, Runs, Reaches(c, buffer, mine, g), gone \subseteq g
  PROVE  Reaches(c, buffer', mine', g)
<1>1. mine'.fault = "none"
  BY DEF Runs
<1>2. PICK cmds \in Seq(Cmds) : buffer' = buffer \o cmds /\ Reaches(mine, cmds, mine', gone)
  BY <1>1 DEF Told
<1>3. buffer \in Seq(Cmds)
  BY AtWork
<1>4. Reaches(mine, cmds, mine', g)
  BY <1>2, ReachesMore
<1>5. Reaches(c, buffer \o cmds, mine', g)
  BY <1>3, <1>4, ReachesThen
<1> QED
  BY <1>2, <1>5

LEMMA ToldTyped ==
  ASSUME Typed, Told, Runs
  PROVE  /\ mine' \in Lists /\ Len(mine'.acts) <= MaxActions
         /\ Len(buffer') \in Nat /\ Len(buffer') <= MaxCommands
         /\ mine'.fault = "none" => buffer' \in Seq(Cmds)
<1>1. buffer \in Seq(Cmds)
  BY AtWork
<1>2. ASSUME mine'.fault = "none" PROVE buffer' \in Seq(Cmds)
  <2>1. PICK cmds \in Seq(Cmds) : buffer' = buffer \o cmds
    BY <1>2 DEF Told
  <2>2. buffer \o cmds \in Seq(Cmds)
    BY <1>1, CatIs
  <2> QED
    BY <2>1, <2>2
<1> QED
  BY <1>2 DEF Told

LEMMA NextIInv == IInv /\ [Next]_vars => IInv'
<1> SUFFICES ASSUME IInv, [Next]_vars PROVE IInv'
  OBVIOUS
<1>1. Typed /\ Tracks
  BY DEF IInv
<1>2. CASE UNCHANGED vars
  BY <1>1, <1>2 DEF IInv, Typed, Tracks, Runs, vars
<1>3. CASE Alone
  <2>1. Runs /\ Told /\ gone' = gone /\ wire' = wire /\ ally' = ally
    BY <1>3 DEF Alone
  <2>2. Typed'
    BY <1>1, <2>1, ToldTyped DEF Typed
  <2>3. Tracks'
    <3> SUFFICES ASSUME Runs'
                 PROVE  \E c, e : /\ Lost(ally) \/ ally.list = c
                                  /\ Comes(c, ally.gone, wire, e) /\ Reaches(e, buffer', mine', gone)
      BY <2>1 DEF Tracks
    <3>1. PICK c, e : (Lost(ally) \/ ally.list = c) /\ Comes(c, ally.gone, wire, e) /\ Reaches(e, buffer, mine, gone)
      BY <1>1, <2>1 DEF Tracks
    <3>2. Reaches(e, buffer', mine', gone)
      BY <1>1, <2>1, <3>1, ToldTracks
    <3> QED
      BY <3>1, <3>2
  <2> QED
    BY <2>2, <2>3 DEF IInv
<1>4. ASSUME NEW u, Runs, Dies(u), buffer = <<>>, Told PROVE IInv'
  <2>1. gone \subseteq gone' /\ ally' = ally
    BY <1>4 DEF Dies
  <2>2. Typed'
    BY <1>1, <1>4, DiesTyped, ToldTyped DEF Typed
  <2>3. Tracks'
    <3> SUFFICES ASSUME Runs'
                 PROVE  \E c, e : /\ Lost(ally') \/ ally'.list = c
                                  /\ Comes(c, ally'.gone, wire', e) /\ Reaches(e, buffer', mine', gone')
      BY DEF Tracks
    <3>1. PICK c, e : /\ Lost(ally') \/ ally'.list = c
                      /\ Comes(c, ally'.gone, wire', e) /\ Reaches(e, buffer, mine, gone')
      BY <1>4, DiesTracks
    <3>2. Reaches(e, buffer', mine', gone')
      BY <1>1, <1>4, <2>1, <3>1, ToldTracks
    <3> QED
      BY <3>1, <3>2
  <2> QED
    BY <2>2, <2>3 DEF IInv
<1>5. ASSUME NEW u, Runs, Dies(u), UNCHANGED <<mine, buffer>> PROVE IInv'
  <2>1. mine' = mine /\ buffer' = buffer
    BY <1>5
  <2>2. Typed'
    BY <1>1, <1>5, <2>1, DiesTyped DEF Typed
  <2>3. Tracks'
    BY <1>5, <2>1, DiesTracks DEF Tracks
  <2> QED
    BY <2>2, <2>3 DEF IInv
<1>6. CASE SendNetworkData
  <2> DEFINE x == [cmds |-> buffer, dies |-> {}]
  <2>1. Runs /\ wire' = Append(wire, x) /\ buffer' = <<>> /\ mine' = mine /\ gone' = gone /\ ally' = ally
    BY <1>6 DEF SendNetworkData
  <2>2. x \in Packets /\ x.dies = {} /\ x.cmds = buffer
    BY <1>1, <2>1, AtWork DEF Packets
  <2> HIDE DEF x
  <2>3. wire \in Seq(Packets) /\ gone = Known(ally.gone, wire, Len(wire))
    BY <1>1 DEF Typed
  <2>4. wire' \in Seq(Packets) /\ Len(wire') = Len(wire) + 1
    BY <2>1, <2>2, <2>3, AppendIs
  <2>5. Known(ally.gone, wire', Len(wire) + 1) = gone
    <3>0. x \in Packets
      BY <2>2
    <3>1. Known(ally.gone, Append(wire, x), Len(wire) + 1) = gone \cup x.dies
      BY <2>3, <3>0, KnownAppend
    <3>2. gone \cup {} = gone
      OBVIOUS
    <3> QED
      BY <2>1, <2>2, <3>1, <3>2
  <2>6. Len(buffer') = 0 /\ buffer' \in Seq(Cmds)
    BY <2>1
  <2>7. Typed'
    BY <1>1, <2>1, <2>4, <2>5, <2>6, SideAssumption DEF Typed
  <2>8. Tracks'
    <3> SUFFICES \E c, e : /\ Lost(ally) \/ ally.list = c
                           /\ Comes(c, ally.gone, wire', e) /\ Reaches(e, <<>>, mine, gone)
      BY <2>1 DEF Tracks
    <3>1. PICK c, e : (Lost(ally) \/ ally.list = c) /\ Comes(c, ally.gone, wire, e) /\ Reaches(e, buffer, mine, gone)
      BY <1>1, <2>1 DEF Tracks
    <3> DEFINE d == Known(ally.gone, wire, Len(wire)) \cup x.dies
    <3>2. Reaches(e, x.cmds, mine, d)
      BY <2>2, <2>3, <3>1
    <3>3. Comes(c, ally.gone, Append(wire, x), mine)
      <4>1. d = Known(ally.gone, wire, Len(wire)) \cup x.dies /\ x \in Packets
        BY <2>2
      <4> HIDE DEF d
      <4> QED
        BY <2>3, <3>1, <3>2, <4>1, ComesAppend
    <3> QED
      BY <2>1, <3>1, <3>3, ReachesNone
  <2> QED
    BY <2>7, <2>8 DEF IInv
<1>7. CASE Receive
  <2>1. /\ ally' \in Allies /\ wire' \in Seq(Packets) /\ UNCHANGED <<mine, gone, buffer>>
        /\ gone = Known(ally'.gone, wire', Len(wire'))
        /\ Tracks'
    BY <1>7, ReceiveIs
  <2>2. Typed'
    BY <1>1, <2>1 DEF Typed
  <2> QED
    BY <2>1, <2>2 DEF IInv
<1> QED
  BY <1>1, <1>2, <1>3, <1>4, <1>5, <1>6, <1>7, OneStep

-----------------------------------------------------------------------------
(* What the invariant says. *)

\* The inductive invariant: the containers are containers, all commands are commands, and
\* what is on its way to the ally leads it to the list of the owner.
THEOREM IInvariant == Spec => []IInv
BY InitIInv, NextIInv, PTL DEF Spec

\* Whatever is queued, erased, bumped, revised and shifted, the turns of the owner's
\* container follow one another unless it has stopped (side_actions_container).
THEOREM TypeCorrect == Spec => []TypeOK
<1>1. IInv => TypeOK
  <2> SUFFICES ASSUME IInv PROVE TypeOK
    OBVIOUS
  <2>1. Typed
    BY DEF IInv
  <2>2. mine.acts \in Seq(Action) /\ (mine.fault = "none" => TurnsInOrder(mine))
    BY <2>1, ListsIs, ContainerIs DEF Typed, InOrder
  <2>3. ally.gone \subseteq gone
    BY <2>1 DEF Typed, Known
  <2> QED
    BY <2>1, <2>2, <2>3, AllyIs DEF Typed, TypeOK
<1> QED
  BY <1>1, IInvariant, PTL

\* So do the turns in the copy of the ally, whatever commands it dropped.
THEOREM AllyInOrder == Spec => [](ally.list.fault = "none" => TurnsInOrder(ally.list))
<1>1. IInv => (ally.list.fault = "none" => TurnsInOrder(ally.list))
  BY ListsIs DEF IInv, Typed, Allies, InOrder
<1> QED
  BY <1>1, IInvariant, PTL

\* An ally that has been told everything has the plans of the owner: positions that were
\* taken at the owner mean the same in the copy (make_net_cmd_*, execute_net_cmd).
THEOREM AllyAlwaysFollows == Spec => []AllyFollows
<1>1. IInv => AllyFollows
  <2> SUFFICES ASSUME IInv, Runs, buffer = <<>>, wire = <<>>, ~ally.dropped
               PROVE  ally.list = mine \/ (ally.list.fault = "null" /\ ally.gone # {})
    BY DEF AllyFollows
  <2>1. CASE Lost(ally)
    BY <2>1 DEF Lost
  <2>2. CASE ~Lost(ally)
    <3>1. PICK e : Comes(ally.list, ally.gone, wire, e) /\ Reaches(e, buffer, mine, gone)
      BY <2>2, Zenon DEF IInv, Tracks
    <3>2. e = ally.list
      BY <3>1 DEF Comes, Marked
    <3>3. Reaches(ally.list, <<>>, mine, gone)
      BY <3>1, <3>2
    <3> QED
      BY <3>3, ReachesNone
  <2> QED
    BY <2>1, <2>2
<1> QED
  BY <1>1, IInvariant, PTL

-----------------------------------------------------------------------------
(* The plans of each turn in a container, as TurnPlans has them, and what each      *)
(* operation of the container makes of them.                                        *)
PlanOf(c) == [t \in 1..NumTurns(c) |-> SubSeq(c.acts, TurnBegin(c, t - 1), TurnEnd(c, t - 1) - 1)]

\* The plans of a container, turn by turn.
LEMMA PlanIs ==
  ASSUME NEW c, InOrder(c)
  PROVE  /\ PlanOf(c) \in Seq(Seq(Action)) /\ Len(PlanOf(c)) = Len(c.begins) /\ Len(c.begins) \in Nat
         /\ \A t \in 0..Len(c.begins)-1 :
              /\ t + 1 \in 1..Len(c.begins)
              /\ PlanOf(c)[t + 1] \in Seq(Action) /\ Len(PlanOf(c)[t + 1]) = TurnSize(c, t)
              /\ Len(PlanOf(c)[t + 1]) \in Nat /\ TurnBegin(c, t) + Len(PlanOf(c)[t + 1]) = TurnEnd(c, t)
              /\ \A i \in 1..TurnSize(c, t) : PlanOf(c)[t + 1][i] = c.acts[TurnBegin(c, t) + i - 1]
<1> DEFINE N == Len(c.acts)
           K == Len(c.begins)
           P(t) == SubSeq(c.acts, TurnBegin(c, t), TurnEnd(c, t) - 1)
<1>1. N \in Nat /\ K \in Nat /\ c.acts \in Seq(Action)
  BY ContainerIs DEF InOrder
<1>2. ASSUME NEW t \in 0..K-1
      PROVE  /\ P(t) \in Seq(Action) /\ Len(P(t)) = TurnSize(c, t)
             /\ Len(P(t)) \in Nat /\ TurnBegin(c, t) + Len(P(t)) = TurnEnd(c, t)
             /\ \A i \in 1..TurnSize(c, t) : P(t)[i] = c.acts[TurnBegin(c, t) + i - 1]
  <2> DEFINE m == TurnBegin(c, t)
             n == TurnEnd(c, t) - 1
  <2>0. t \in Nat
    BY <1>1
  <2>1. /\ TurnSize(c, t) \in Nat /\ m + TurnSize(c, t) = n + 1 /\ m \in 1..N+1 /\ n \in 0..N
    <3>1. /\ TurnBegin(c, t) \in 1..N+1 /\ TurnEnd(c, t) \in 1..N+1
          /\ TurnSize(c, t) \in Nat /\ TurnBegin(c, t) + TurnSize(c, t) = TurnEnd(c, t)
      BY <2>0, TurnBegins, TurnSizeIs
    <3> QED
      BY <1>1, <3>1
  <2> HIDE DEF m, n
  <2>2. /\ SubSeq(c.acts, m, n) \in Seq(Action)
        /\ Len(SubSeq(c.acts, m, n)) = IF m <= n THEN n - m + 1 ELSE 0
        /\ \A i \in 1..n-m+1 : SubSeq(c.acts, m, n)[i] = c.acts[m + i - 1]
    BY <1>1, <2>1, SubSeqIs
  <2>3. n - m + 1 = TurnSize(c, t) /\ (~(m <= n) => TurnSize(c, t) = 0)
    BY <1>1, <2>1
  <2>4. P(t) = SubSeq(c.acts, m, n)
    BY DEF m, n
  <2>5. m = TurnBegin(c, t) /\ n + 1 = TurnEnd(c, t)
    BY <1>1, <2>0, TurnBegins, SMTT(30) DEF m, n
  <2> HIDE DEF P
  <2> QED
    BY <2>1, <2>2, <2>3, <2>4, <2>5
<1>3. PlanOf(c) = [u \in 1..K |-> P(u - 1)]
  BY DEF PlanOf, NumTurns
<1> HIDE DEF P
<1>4. \A u \in 1..K : u - 1 \in 0..K-1 /\ P(u - 1) \in Seq(Action)
  BY <1>1, <1>2
<1>5. PlanOf(c) \in Seq(Seq(Action)) /\ Len(PlanOf(c)) = K
  BY <1>1, <1>3, <1>4
<1>6. \A t \in 0..K-1 : t + 1 \in 1..K /\ PlanOf(c)[t + 1] = P(t)
  BY <1>1, <1>3
<1> QED
  BY <1>1, <1>2, <1>5, <1>6

LEMMA PlanEquals ==
  ASSUME NEW c, InOrder(c), NEW P \in Seq(Seq(Action)), Len(P) = Len(c.begins),
         \A t \in 0..Len(c.begins)-1 :
           /\ Len(P[t + 1]) = TurnSize(c, t)
           /\ \A i \in 1..TurnSize(c, t) : P[t + 1][i] = c.acts[TurnBegin(c, t) + i - 1]
  PROVE  PlanOf(c) = P
<1> DEFINE Q == PlanOf(c)
           K == Len(c.begins)
<1>1. /\ Q \in Seq(Seq(Action)) /\ Len(Q) = K /\ K \in Nat
      /\ \A t \in 0..K-1 : /\ Q[t + 1] \in Seq(Action) /\ Len(Q[t + 1]) = TurnSize(c, t)
                           /\ \A i \in 1..TurnSize(c, t) : Q[t + 1][i] = c.acts[TurnBegin(c, t) + i - 1]
  BY PlanIs
<1> HIDE DEF Q
<1>2. ASSUME NEW u \in 1..K PROVE Q[u] = P[u]
  <2> DEFINE t == u - 1
  <2>1. t \in 0..K-1 /\ t + 1 = u
    BY <1>1
  <2> HIDE DEF t
  <2>2. P[u] \in Seq(Action)
    BY <1>1
  <2>3. /\ Q[u] \in Seq(Action) /\ Len(Q[u]) = TurnSize(c, t) /\ Len(P[u]) = TurnSize(c, t)
        /\ \A i \in 1..TurnSize(c, t) : Q[u][i] = c.acts[TurnBegin(c, t) + i - 1] /\ P[u][i] = c.acts[TurnBegin(c, t) + i - 1]
    BY <1>1, <2>1
  <2> DEFINE x == Q[u]
             y == P[u]
  <2>4. /\ x \in Seq(Action) /\ y \in Seq(Action) /\ Len(x) = Len(y) /\ \A i \in 1..Len(x) : x[i] = y[i]
    BY <2>2, <2>3
  <2> HIDE DEF x, y
  <2>5. x = y
    BY <2>4, SameSequence
  <2> QED
    BY <2>5 DEF x, y
<1>3. Len(Q) = Len(P) /\ \A u \in 1..Len(Q) : Q[u] = P[u]
  BY <1>1, <1>2
<1>4. Q = P
  <2> DEFINE S == Seq(Action)
  <2>1. Q \in Seq(S) /\ P \in Seq(S)
    BY <1>1
  <2> HIDE DEF S
  <2> QED
    BY <1>3, <2>1, SameSequence
<1> QED
  BY <1>4 DEF Q

\* One of the turns with something else in it.
LEMMA WithTurn ==
  ASSUME NEW P \in Seq(Seq(Action)), NEW t \in 1..Len(P), NEW x \in Seq(Action)
  PROVE  /\ [P EXCEPT ![t] = x] \in Seq(Seq(Action)) /\ Len([P EXCEPT ![t] = x]) = Len(P)
         /\ \A u \in 1..Len(P) : [P EXCEPT ![t] = x][u] = IF u = t THEN x ELSE P[u]
<1> DEFINE S == Seq(Action)
<1>1. P \in Seq(S) /\ x \in S
  OBVIOUS
<1> HIDE DEF S
<1>2. /\ [P EXCEPT ![t] = x] \in Seq(S) /\ Len([P EXCEPT ![t] = x]) = Len(P)
      /\ \A u \in 1..Len(P) : [P EXCEPT ![t] = x][u] = IF u = t THEN x ELSE P[u]
  BY <1>1
<1> QED
  BY <1>2 DEF S

\* What is put in turn t is in that turn, and the other turns stay.
LEMMA GrownPlan ==
  ASSUME NEW c, InOrder(c), NEW t \in Nat, t < Len(c.begins), NEW a \in Action,
         NEW i \in 1..TurnSize(c, t)+1, NEW p, p = TurnBegin(c, t) + i - 1
  PROVE  PlanOf(Grown(c, t, p, a)) = [PlanOf(c) EXCEPT ![t + 1] = InsertAt(PlanOf(c)[t + 1], i, a)]
<1> DEFINE N == Len(c.acts)
           K == Len(c.begins)
           g == Grown(c, t, p, a)
           x == InsertAt(PlanOf(c)[t + 1], i, a)
           Q == [PlanOf(c) EXCEPT ![t + 1] = x]
<1>1. /\ N \in Nat /\ K \in Nat /\ c.acts \in Seq(Action) /\ t \in 0..K-1
      /\ TurnBegin(c, t) \in 1..N+1 /\ TurnEnd(c, t) \in 1..N+1 /\ TurnSize(c, t) \in Nat
      /\ TurnBegin(c, t) + TurnSize(c, t) = TurnEnd(c, t)
  <2>1. N \in Nat /\ K \in Nat /\ c.acts \in Seq(Action)
    BY ContainerIs DEF InOrder
  <2>2. t \in 0..K-1
    BY <2>1
  <2>3. /\ TurnBegin(c, t) \in 1..N+1 /\ TurnEnd(c, t) \in 1..N+1
    BY TurnBegins
  <2>4. /\ TurnSize(c, t) \in Nat /\ TurnBegin(c, t) + TurnSize(c, t) = TurnEnd(c, t)
    BY TurnSizeIs
  <2> QED
    BY <2>1, <2>2, <2>3, <2>4
<1>2. p \in 1..N+1 /\ TurnBegin(c, t) <= p /\ p <= TurnEnd(c, t)
  BY <1>1, SMTT(30)
<1>3. InOrder(g) /\ Len(g.acts) = N + 1 /\ Len(g.begins) = K
  <2>1. InOrder(g) /\ Len(g.acts) = N + 1
    BY <1>1, <1>2, GrownIs, GrownLength
  <2>2. g.begins = [v \in 1..K |-> IF v <= t + 1 THEN c.begins[v] ELSE c.begins[v] + 1]
    BY DEF Grown
  <2>3. Len(g.begins) \in Nat /\ DOMAIN g.begins = 1..Len(g.begins)
    BY <2>1, ContainerIs DEF InOrder
  <2> QED
    BY <1>1, <2>1, <2>2, <2>3, SMTT(30)
<1>4. \A y \in 1..N+1 : g.acts[y] = IF y < p THEN c.acts[y] ELSE IF y = p THEN a ELSE c.acts[y - 1]
  <2>1. g.acts = InsertAt(c.acts, p, a)
    BY DEF Grown
  <2> DEFINE s == c.acts
  <2>2. s \in Seq(Action) /\ p \in 1..Len(s)+1
    BY <1>1, <1>2
  <2> HIDE DEF s
  <2>3. \A y \in 1..Len(s)+1 : InsertAt(s, p, a)[y] = IF y < p THEN s[y] ELSE IF y = p THEN a ELSE s[y - 1]
    BY <2>2, InsertAtIs
  <2> QED
    BY <2>1, <2>3 DEF s
<1>5. ASSUME NEW v \in 0..K
      PROVE  TurnBegin(g, v) = IF v <= t THEN TurnBegin(c, v) ELSE TurnBegin(c, v) + 1
  <2>0. v \in Nat
    BY <1>1
  <2>1. CASE v < K
    <3>0. v < Len(g.begins) /\ v < Len(c.begins) /\ v + 1 \in 1..K
      BY <1>1, <1>3, <2>0, <2>1, SMTT(30)
    <3>1. TurnBegin(g, v) = g.begins[v + 1] /\ TurnBegin(c, v) = c.begins[v + 1] /\ v + 1 \in 1..K
      <4> HIDE DEF g
      <4> QED
        BY <1>3, <2>0, <3>0, TurnBegins
    <3>2. g.begins[v + 1] = IF v + 1 <= t + 1 THEN c.begins[v + 1] ELSE c.begins[v + 1] + 1
      BY <3>1 DEF Grown
    <3> QED
      BY <1>1, <2>0, <3>1, <3>2
  <2>2. CASE v = K
    <3>1. v >= K /\ v >= Len(g.begins)
      BY <1>1, <1>3, <2>2
    <3>2. TurnBegin(g, v) = N + 1 + 1 /\ TurnBegin(c, v) = N + 1
      BY <1>3, <2>0, <3>1, TurnBegins
    <3> QED
      BY <1>1, <2>2, <3>2
  <2> QED
    BY <1>1, <2>1, <2>2
<1> HIDE DEF g
<1>6. ASSUME NEW v \in 0..K-1
      PROVE  /\ v \in Nat /\ v + 1 \in 0..K
             /\ TurnBegin(c, v) \in 1..N+1 /\ TurnSize(c, v) \in Nat
             /\ TurnBegin(c, v) + TurnSize(c, v) = TurnEnd(c, v)
             /\ TurnBegin(g, v) + TurnSize(g, v) = TurnEnd(g, v) /\ TurnSize(g, v) \in Nat
             /\ TurnEnd(c, v) = TurnBegin(c, v + 1) /\ TurnEnd(g, v) = TurnBegin(g, v + 1)
             /\ (v < t => TurnEnd(c, v) <= TurnBegin(c, t)) /\ (t < v => TurnEnd(c, t) <= TurnBegin(c, v))
  <2>1. v \in Nat /\ v + 1 \in 0..K
    BY <1>1
  <2> QED
    BY <1>3, <2>1, TurnBegins, TurnSizeIs, TurnsFollow
<1>7. ASSUME NEW v \in 0..K-1
      PROVE  TurnSize(g, v) = IF v = t THEN TurnSize(c, v) + 1 ELSE TurnSize(c, v)
  <2> DEFINE n == v + 1
  <2>1. /\ TurnBegin(g, v) = IF v <= t THEN TurnBegin(c, v) ELSE TurnBegin(c, v) + 1
        /\ TurnBegin(g, n) = IF n <= t THEN TurnBegin(c, n) ELSE TurnBegin(c, n) + 1
    <3>1. v \in 0..K /\ n \in 0..K
      BY <1>1, <1>6
    <3> HIDE DEF n, N, K
    <3> QED
      BY <1>5, <3>1
  <2>2. /\ TurnBegin(c, v) \in 1..N+1 /\ TurnSize(c, v) \in Nat /\ n = v + 1 /\ v \in Nat
        /\ TurnBegin(c, v) + TurnSize(c, v) = TurnBegin(c, n)
        /\ TurnBegin(g, v) + TurnSize(g, v) = TurnBegin(g, n) /\ TurnSize(g, v) \in Nat
    BY <1>6
  <2>3. t \in Nat
    OBVIOUS
  <2> HIDE DEF n, N, K
  <2>4. CASE v = t
    BY <2>1, <2>2, <2>3, <2>4
  <2>5. CASE v < t
    BY <2>1, <2>2, <2>3, <2>5
  <2>6. CASE v > t
    BY <2>1, <2>2, <2>3, <2>6
  <2> QED
    BY <2>2, <2>3, <2>4, <2>5, <2>6
<1>8. /\ PlanOf(c) \in Seq(Seq(Action)) /\ Len(PlanOf(c)) = K /\ t + 1 \in 1..K
      /\ \A v \in 0..K-1 : /\ v + 1 \in 1..K
                           /\ PlanOf(c)[v + 1] \in Seq(Action) /\ Len(PlanOf(c)[v + 1]) = TurnSize(c, v)
                           /\ \A j \in 1..TurnSize(c, v) : PlanOf(c)[v + 1][j] = c.acts[TurnBegin(c, v) + j - 1]
  BY <1>1, PlanIs
<1>9. /\ x \in Seq(Action) /\ Len(x) = TurnSize(c, t) + 1
      /\ \A j \in 1..TurnSize(c, t)+1 :
            x[j] = IF j < i THEN PlanOf(c)[t + 1][j] ELSE IF j = i THEN a ELSE PlanOf(c)[t + 1][j - 1]
  <2> DEFINE s == PlanOf(c)[t + 1]
  <2>1. s \in Seq(Action) /\ Len(s) = TurnSize(c, t)
    BY <1>1, <1>8
  <2>3. i \in 1..Len(s)+1
    BY <2>1
  <2> HIDE DEF s
  <2>2. /\ InsertAt(s, i, a) \in Seq(Action) /\ Len(InsertAt(s, i, a)) = Len(s) + 1
        /\ \A j \in 1..Len(s)+1 : InsertAt(s, i, a)[j] = IF j < i THEN s[j] ELSE IF j = i THEN a ELSE s[j - 1]
    <3>1. s \in Seq(Action)
      BY <2>1
    <3>2. a \in Action /\ i \in 1..Len(s)+1
      BY <2>3
    <3> HIDE DEF x, Q
    <3>3. InsertAt(s, i, a) \in Seq(Action)
      BY <3>1, <3>2, InsertAtIs
    <3>4. Len(InsertAt(s, i, a)) = Len(s) + 1
      BY <3>1, <3>2, InsertAtIs
    <3>5. \A j \in 1..Len(s)+1 : InsertAt(s, i, a)[j] = IF j < i THEN s[j] ELSE IF j = i THEN a ELSE s[j - 1]
      BY <3>1, <3>2, InsertAtIs
    <3> QED
      BY <3>3, <3>4, <3>5
  <2> QED
    BY <2>1, <2>2 DEF s
<1> HIDE DEF x
<1>10. /\ Q \in Seq(Seq(Action)) /\ Len(Q) = K
       /\ \A v \in 0..K-1 : Q[v + 1] = IF v = t THEN x ELSE PlanOf(c)[v + 1]
  <2>1. /\ Q \in Seq(Seq(Action)) /\ Len(Q) = K
        /\ \A u \in 1..K : Q[u] = IF u = t + 1 THEN x ELSE PlanOf(c)[u]
    BY <1>8, <1>9, WithTurn
  <2>2. \A v \in 0..K-1 : v + 1 \in 1..K /\ (v + 1 = t + 1 <=> v = t)
    BY <1>1
  <2> HIDE DEF Q
  <2> QED
    BY <2>1, <2>2
<1> HIDE DEF Q
<1>11. ASSUME NEW v \in 0..K-1
       PROVE  /\ Len(Q[v + 1]) = TurnSize(g, v)
              /\ \A j \in 1..TurnSize(g, v) : Q[v + 1][j] = g.acts[TurnBegin(g, v) + j - 1]
  <2>0. /\ v \in Nat /\ TurnBegin(c, v) \in 1..N+1 /\ TurnSize(c, v) \in Nat /\ v \in 0..K /\ TurnSize(g, v) \in Nat
        /\ TurnBegin(c, v) + TurnSize(c, v) = TurnEnd(c, v) /\ TurnEnd(c, v) \in 1..N+1
        /\ TurnBegin(g, v) = IF v <= t THEN TurnBegin(c, v) ELSE TurnBegin(c, v) + 1
        /\ (v < t => TurnEnd(c, v) <= TurnBegin(c, t)) /\ (t < v => TurnEnd(c, t) <= TurnBegin(c, v))
    <3>1. v \in Nat /\ v \in 0..K
      BY <1>1
    <3>2. TurnEnd(c, v) \in 1..N+1
      BY <3>1, TurnBegins
    <3> QED
      BY <1>5, <1>6, <3>1, <3>2
  <2>1. CASE v = t
    <3>1. Q[v + 1] = x /\ TurnSize(g, v) = TurnSize(c, t) + 1 /\ TurnBegin(g, v) = TurnBegin(c, t)
      BY <1>1, <1>7, <1>10, <2>0, <2>1, SMTT(30)
    <3>2. ASSUME NEW j \in 1..TurnSize(c, t)+1 PROVE x[j] = g.acts[TurnBegin(c, t) + j - 1]
      <4> DEFINE y == TurnBegin(c, t) + j - 1
      <4>1. /\ y \in 1..N+1 /\ j \in Nat /\ (j < i <=> y < p) /\ (j = i <=> y = p)
            /\ (j < i => j \in 1..TurnSize(c, t)) /\ (j > i => j - 1 \in 1..TurnSize(c, t))
            /\ y - 1 = TurnBegin(c, t) + (j - 1) - 1
        <5> DEFINE B == TurnBegin(c, t)
                   Z == TurnSize(c, t)
        <5>1. B \in Nat /\ Z \in Nat /\ B >= 1 /\ B + Z <= N + 1 /\ N \in Nat /\ p = B + i - 1 /\ i \in 1..Z+1 /\ j \in 1..Z+1
              /\ y = B + j - 1
          BY <1>1
        <5> HIDE DEF B, Z, y, N
        <5>2. /\ y \in 1..N+1 /\ j \in Nat /\ (j < i <=> y < p) /\ (j = i <=> y = p)
              /\ (j < i => j \in 1..Z) /\ (j > i => j - 1 \in 1..Z)
              /\ y - 1 = B + (j - 1) - 1
          BY <5>1
        <5> QED
          BY <5>2 DEF B, Z, N
      <4>2. g.acts[y] = IF y < p THEN c.acts[y] ELSE IF y = p THEN a ELSE c.acts[y - 1]
        BY <1>4, <4>1
      <4>3. x[j] = IF j < i THEN PlanOf(c)[t + 1][j] ELSE IF j = i THEN a ELSE PlanOf(c)[t + 1][j - 1]
        BY <1>9
      <4>4. j < i => PlanOf(c)[t + 1][j] = c.acts[y]
        BY <1>1, <1>8, <4>1
      <4>5. j > i => PlanOf(c)[t + 1][j - 1] = c.acts[y - 1]
        BY <1>1, <1>8, <4>1
      <4> HIDE DEF y
      <4>6. x[j] = g.acts[y]
        BY <1>1, <4>1, <4>2, <4>3, <4>4, <4>5, SMTT(30)
      <4> QED
        BY <4>6 DEF y
    <3> QED
      BY <1>9, <3>1, <3>2
  <2>2. CASE v < t
    <3>1. Q[v + 1] = PlanOf(c)[v + 1] /\ TurnSize(g, v) = TurnSize(c, v) /\ TurnBegin(g, v) = TurnBegin(c, v)
      BY <1>1, <1>7, <1>10, <2>0, <2>2, SMTT(30)
    <3>2. ASSUME NEW j \in 1..TurnSize(c, v) PROVE g.acts[TurnBegin(c, v) + j - 1] = c.acts[TurnBegin(c, v) + j - 1]
      <4> DEFINE B == TurnBegin(c, v)
                 Z == TurnSize(c, v)
      <4>0. /\ B \in Nat /\ Z \in Nat /\ B >= 1 /\ B + Z <= TurnBegin(c, t) /\ TurnBegin(c, t) \in Nat
            /\ TurnBegin(c, t) <= p /\ p \in 1..N+1 /\ N \in Nat
        <5>1. B + Z = TurnEnd(c, v) /\ TurnEnd(c, v) <= TurnBegin(c, t) /\ B \in Nat /\ B >= 1 /\ Z \in Nat
          BY <2>0, <2>2
        <5>2. TurnBegin(c, t) \in Nat /\ TurnBegin(c, t) <= p /\ p \in 1..N+1 /\ N \in Nat
          BY <1>1, <1>2
        <5> HIDE DEF B, Z, N
        <5> QED
          BY <5>1, <5>2
      <4> HIDE DEF B, Z, N
      <4>1. B + j - 1 \in 1..N+1 /\ B + j - 1 < p
        <5>1. j \in 1..Z
          BY DEF Z
        <5> QED
          BY <4>0, <5>1
      <4> USE DEF B, N
      <4> QED
        BY <1>4, <4>1
    <3> QED
      BY <1>8, <3>1, <3>2
  <2>3. CASE v > t
    <3>1. Q[v + 1] = PlanOf(c)[v + 1] /\ TurnSize(g, v) = TurnSize(c, v) /\ TurnBegin(g, v) = TurnBegin(c, v) + 1
      BY <1>1, <1>7, <1>10, <2>0, <2>3, SMTT(30)
    <3>2. ASSUME NEW j \in 1..TurnSize(c, v) PROVE g.acts[(TurnBegin(c, v) + 1) + j - 1] = c.acts[TurnBegin(c, v) + j - 1]
      <4> DEFINE y == (TurnBegin(c, v) + 1) + j - 1
      <4>1. y \in 1..N+1 /\ ~(y < p) /\ y # p /\ y - 1 = TurnBegin(c, v) + j - 1
        <5> DEFINE B == TurnBegin(c, v)
                   Z == TurnSize(c, v)
        <5>0. /\ B \in Nat /\ Z \in Nat /\ B + Z <= N + 1 /\ TurnEnd(c, t) <= B /\ TurnEnd(c, t) \in Nat
              /\ p <= TurnEnd(c, t) /\ p \in 1..N+1 /\ N \in Nat /\ j \in 1..Z /\ y = (B + 1) + j - 1
          <6>1. B + Z = TurnEnd(c, v) /\ TurnEnd(c, v) \in 1..N+1 /\ TurnEnd(c, t) <= B /\ B \in Nat /\ Z \in Nat
            BY <2>0, <2>3
          <6>2. TurnEnd(c, t) \in Nat /\ p <= TurnEnd(c, t) /\ p \in 1..N+1 /\ N \in Nat
            BY <1>1, <1>2
          <6>3. j \in 1..Z /\ y = (B + 1) + j - 1
            OBVIOUS
          <6> HIDE DEF B, Z, N, y
          <6> QED
            BY <6>1, <6>2, <6>3
        <5> HIDE DEF B, Z, N, y
        <5>1. y \in 1..N+1 /\ ~(y < p) /\ y # p /\ y - 1 = B + j - 1
          BY <5>0
        <5> QED
          BY <5>1 DEF B, N
      <4> HIDE DEF y
      <4>2. g.acts[y] = c.acts[y - 1]
        BY <1>4, <4>1
      <4> QED
        BY <4>1, <4>2 DEF y
    <3> QED
      BY <1>8, <3>1, <3>2
  <2> QED
    BY <1>1, <2>0, <2>1, <2>2, <2>3
<1>12. PlanOf(g) = Q
  BY <1>3, <1>10, <1>11, PlanEquals
<1> QED
  BY <1>12 DEF g, Q, x

\* What begins a turn is all that is in it.
LEMMA OpenedPlan ==
  ASSUME NEW c, InOrder(c), NEW t \in Nat, NEW a \in Action,
         t = Len(c.begins) \/ (t = 1 /\ Len(c.begins) = 0)
  PROVE  PlanOf(Opened(c, t, a)) =
           IF t = 1 /\ Len(c.begins) = 0 THEN <<<<>>, <<a>>>> ELSE Append(PlanOf(c), <<a>>)
<1> DEFINE N == Len(c.acts)
           K == Len(c.begins)
           o == Opened(c, t, a)
           S == Seq(Action)
<1>1. N \in Nat /\ K \in Nat /\ c.acts \in Seq(Action) /\ c.begins \in Seq(Nat)
  BY ContainerIs DEF InOrder
<1>2. InOrder(o) /\ Len(o.acts) = N + 1
  <2>1. N + 1 \in 1..N+1
    BY <1>1
  <2> QED
    BY <2>1, OpenedIs, GrownLength
<1>3. o.begins = IF t = 1 /\ K = 0 THEN <<1, 1>> ELSE Append(c.begins, N + 1)
  BY DEF Opened
<1>4. \A y \in 1..N+1 : o.acts[y] = IF y <= N THEN c.acts[y] ELSE a
  <2> DEFINE s == c.acts
             q == N + 1
  <2>1. o.acts = InsertAt(s, q, a)
    BY DEF Opened
  <2>2. s \in Seq(Action) /\ q \in 1..Len(s)+1
    BY <1>1
  <2> HIDE DEF s, q
  <2>3. \A y \in 1..Len(s)+1 : InsertAt(s, q, a)[y] = IF y < q THEN s[y] ELSE IF y = q THEN a ELSE s[y - 1]
    BY <2>2, InsertAtIs, SMTT(30)
  <2>4. \A y \in 1..N+1 : y \in 1..Len(s)+1 /\ (y < q <=> y <= N) /\ (~(y < q) => y = q)
    BY <1>1 DEF s, q
  <2> HIDE DEF o, N
  <2>5. ASSUME NEW y \in 1..N+1 PROVE o.acts[y] = IF y <= N THEN s[y] ELSE a
    BY <2>1, <2>3, <2>4
  <2> QED
    BY <2>5 DEF s
<1> HIDE DEF o
<1>5. CASE t = 1 /\ K = 0
  <2> DEFINE Q == <<<<>>, <<a>>>>
  <2>1. o.begins = <<1, 1>> /\ Len(o.begins) = 2 /\ o.begins[1] = 1 /\ o.begins[2] = 1
    BY <1>3, <1>5
  <2>2. N = 0
    BY <1>1, <1>5, OrderRises DEF Rising
  <2>3. TurnBegin(o, 0) = 1 /\ TurnBegin(o, 1) = 1 /\ TurnBegin(o, 2) = 2
    <3>1. TurnBegin(o, 0) = 1
      BY <1>2, TurnBegins
    <3>2. TurnBegin(o, 1) = 1
      <4>1. 1 \in Nat /\ 1 < Len(o.begins) /\ o.begins[1 + 1] = 1
        BY <2>1
      <4>2. TurnBegin(o, 1) = o.begins[1 + 1]
        BY <1>2, <4>1, TurnBegins
      <4> QED
        BY <4>1, <4>2
    <3>3. TurnBegin(o, 2) = 2
      <4>1. 2 \in Nat /\ 2 >= Len(o.begins)
        BY <2>1
      <4>2. TurnBegin(o, 2) = (N + 1) + 1
        BY <1>2, <4>1, TurnBegins
      <4> QED
        BY <2>2, <4>2
    <3> QED
      BY <3>1, <3>2, <3>3
  <2>4. TurnSize(o, 0) = 0 /\ TurnSize(o, 1) = 1
    BY <2>3 DEF TurnSize, TurnEnd
  <2>5. Q \in Seq(Seq(Action)) /\ Len(Q) = 2 /\ Q[1] = <<>> /\ Q[2] = <<a>>
    OBVIOUS
  <2>6. o.acts[1] = a
    BY <1>4, <2>2
  <2> HIDE DEF Q
  <2>7. ASSUME NEW v \in 0..Len(o.begins)-1
        PROVE  /\ Len(Q[v + 1]) = TurnSize(o, v)
               /\ \A j \in 1..TurnSize(o, v) : Q[v + 1][j] = o.acts[TurnBegin(o, v) + j - 1]
    <3>1. v = 0 \/ v = 1
      BY <2>1
    <3>2. CASE v = 0
      BY <2>4, <2>5, <3>2
    <3>3. CASE v = 1
      <4>1. Q[v + 1] = <<a>> /\ TurnSize(o, v) = 1 /\ TurnBegin(o, v) = 1
        BY <2>3, <2>4, <2>5, <3>3
      <4> QED
        BY <2>6, <4>1
    <3> QED
      BY <3>1, <3>2, <3>3
  <2>8. PlanOf(o) = Q
    BY <1>2, <2>1, <2>5, <2>7, PlanEquals
  <2> QED
    BY <1>5, <2>8 DEF o, Q
<1>6. CASE ~(t = 1 /\ K = 0)
  <2> DEFINE Q == Append(PlanOf(c), <<a>>)
  <2>1. o.begins = Append(c.begins, N + 1)
    BY <1>3, <1>6
  <2>2. Len(o.begins) = K + 1 /\ o.begins[K + 1] = N + 1 /\ \A v \in 0..K-1 : o.begins[v + 1] = c.begins[v + 1]
    BY <1>1, <2>1
  <2>3. ASSUME NEW v \in 0..K PROVE TurnBegin(o, v) = TurnBegin(c, v)
    <3>0. v \in Nat /\ v < Len(o.begins)
      BY <1>1, <2>2
    <3>1. TurnBegin(o, v) = o.begins[v + 1]
      BY <1>2, <3>0, TurnBegins
    <3>2. CASE v < K
      <4>1. v \in 0..K-1
        BY <1>1, <3>2
      <4>2. TurnBegin(c, v) = c.begins[v + 1]
        BY <3>0, <3>2, TurnBegins
      <4> QED
        BY <2>2, <3>1, <4>1, <4>2
    <3>3. CASE v = K
      <4>1. v >= Len(c.begins)
        BY <1>1, <3>3
      <4>2. TurnBegin(c, v) = N + 1
        BY <3>0, <4>1, TurnBegins
      <4> QED
        BY <2>2, <3>1, <3>3, <4>2
    <3> QED
      BY <1>1, <3>2, <3>3
  <2>4. TurnBegin(o, K + 1) = (N + 1) + 1 /\ TurnBegin(o, K) = N + 1
    <3>1. K + 1 \in Nat /\ K + 1 >= Len(o.begins) /\ K \in Nat /\ K < Len(o.begins)
      BY <1>1, <2>2
    <3>2. TurnBegin(o, K + 1) = (N + 1) + 1
      <4> DEFINE h == K + 1
      <4>1. h \in Nat /\ h >= Len(o.begins)
        BY <3>1
      <4> HIDE DEF h
      <4>2. TurnBegin(o, h) = Len(o.acts) + 1
        BY <1>2, <4>1, TurnBegins
      <4> QED
        BY <1>2, <4>2 DEF h
    <3>3. TurnBegin(o, K) = N + 1
      BY <1>2, <2>2, <3>1, TurnBegins
    <3> QED
      BY <3>2, <3>3
  <2>5. \A v \in 0..K-1 : TurnSize(o, v) = TurnSize(c, v)
    <3>1. \A v \in 0..K-1 : v \in 0..K /\ v + 1 \in 0..K
      BY <1>1
    <3> QED
      BY <2>3, <3>1 DEF TurnSize, TurnEnd
  <2>6. TurnSize(o, K) = 1
    BY <1>1, <2>4 DEF TurnSize, TurnEnd
  <2>7. /\ PlanOf(c) \in Seq(Seq(Action)) /\ Len(PlanOf(c)) = K
        /\ \A v \in 0..K-1 : /\ v + 1 \in 1..K
                             /\ PlanOf(c)[v + 1] \in Seq(Action) /\ Len(PlanOf(c)[v + 1]) = TurnSize(c, v)
                             /\ \A j \in 1..TurnSize(c, v) : PlanOf(c)[v + 1][j] = c.acts[TurnBegin(c, v) + j - 1]
    BY PlanIs
  <2>8. /\ Q \in Seq(Seq(Action)) /\ Len(Q) = K + 1 /\ Q[K + 1] = <<a>>
        /\ \A v \in 0..K-1 : Q[v + 1] = PlanOf(c)[v + 1]
    <3> DEFINE P == PlanOf(c)
               z == <<a>>
    <3>1. P \in Seq(S) /\ z \in S /\ Len(P) = K
      BY <2>7
    <3> HIDE DEF P, z, S
    <3>2. /\ Append(P, z) \in Seq(S) /\ Len(Append(P, z)) = K + 1 /\ Append(P, z)[K + 1] = z
          /\ \A u \in 1..Len(P) : Append(P, z)[u] = P[u]
      BY <3>1, AppendIs
    <3>3. \A v \in 0..K-1 : v + 1 \in 1..Len(P)
      BY <1>1, <3>1
    <3>4. \A v \in 0..K-1 : Append(P, z)[v + 1] = P[v + 1]
      BY <3>2, <3>3
    <3> QED
      BY <3>2, <3>4 DEF P, z, S
  <2> HIDE DEF Q
  <2>9. ASSUME NEW v \in 0..Len(o.begins)-1
        PROVE  /\ Len(Q[v + 1]) = TurnSize(o, v)
               /\ \A j \in 1..TurnSize(o, v) : Q[v + 1][j] = o.acts[TurnBegin(o, v) + j - 1]
    <3>1. CASE v = K
      <4>1. Q[v + 1] = <<a>> /\ TurnSize(o, v) = 1 /\ TurnBegin(o, v) = N + 1
        BY <2>4, <2>6, <2>8, <3>1
      <4>2. o.acts[N + 1] = a
        BY <1>1, <1>4, SMTT(30)
      <4>3. (N + 1) + 1 - 1 = N + 1
        BY <1>1
      <4> QED
        BY <4>1, <4>2, <4>3
    <3>2. CASE v # K
      <4>0. v \in 0..K-1 /\ v \in 0..K /\ v \in Nat
        BY <1>1, <2>2, <3>2
      <4>1. Q[v + 1] = PlanOf(c)[v + 1] /\ TurnSize(o, v) = TurnSize(c, v) /\ TurnBegin(o, v) = TurnBegin(c, v)
        BY <2>3, <2>5, <2>8, <4>0
      <4>2. /\ TurnBegin(c, v) \in 1..N+1 /\ TurnSize(c, v) \in Nat /\ TurnEnd(c, v) \in 1..N+1
            /\ TurnBegin(c, v) + TurnSize(c, v) = TurnEnd(c, v)
        BY <4>0, TurnBegins, TurnSizeIs
      <4>3. ASSUME NEW j \in 1..TurnSize(c, v) PROVE o.acts[TurnBegin(c, v) + j - 1] = c.acts[TurnBegin(c, v) + j - 1]
        <5>1. TurnBegin(c, v) + j - 1 \in 1..N+1 /\ TurnBegin(c, v) + j - 1 <= N
          BY <1>1, <4>2, SMTT(30)
        <5> QED
          BY <1>4, <5>1
      <4> QED
        BY <2>7, <4>0, <4>1, <4>3
    <3> QED
      BY <3>1, <3>2
  <2>10. PlanOf(o) = Q
    <3>1. Len(Q) = Len(o.begins) /\ Q \in Seq(Seq(Action))
      BY <2>2, <2>8
    <3> QED
      BY <1>2, <2>9, <3>1, PlanEquals
  <2> QED
    BY <1>6, <2>10 DEF o, Q
<1> QED
  BY <1>5, <1>6

\* What is taken out is out of its turn, and the other turns stay.
LEMMA CutPlan ==
  ASSUME NEW c, InOrder(c), NEW p \in 1..Len(c.acts), NEW t \in 0..Len(c.begins)-1,
         TurnBegin(c, t) <= p, p < TurnEnd(c, t),
         TurnSize(c, t) > 1 \/ (t = 0 /\ Len(c.acts) > 1),
         NEW i, i = p - TurnBegin(c, t) + 1
  PROVE  /\ i \in 1..Len(PlanOf(c)[t + 1])
         /\ PlanOf(Cut(c, t, p)) = [PlanOf(c) EXCEPT ![t + 1] = RemoveAt(PlanOf(c)[t + 1], i)]
<1> DEFINE N == Len(c.acts)
           K == Len(c.begins)
           g == Cut(c, t, p)
           x == RemoveAt(PlanOf(c)[t + 1], i)
           Q == [PlanOf(c) EXCEPT ![t + 1] = x]
<1>1. /\ N \in Nat /\ K \in Nat /\ c.acts \in Seq(Action) /\ t \in Nat
      /\ TurnBegin(c, t) \in 1..N+1 /\ TurnEnd(c, t) \in 1..N+1 /\ TurnSize(c, t) \in Nat
      /\ TurnBegin(c, t) + TurnSize(c, t) = TurnEnd(c, t)
  <2>1. N \in Nat /\ K \in Nat /\ c.acts \in Seq(Action)
    BY ContainerIs DEF InOrder
  <2>2. t \in Nat
    BY <2>1
  <2>3. /\ TurnBegin(c, t) \in 1..N+1 /\ TurnEnd(c, t) \in 1..N+1
    BY <2>2, TurnBegins
  <2>4. /\ TurnSize(c, t) \in Nat /\ TurnBegin(c, t) + TurnSize(c, t) = TurnEnd(c, t)
    BY <2>2, TurnSizeIs
  <2> QED
    BY <2>1, <2>2, <2>3, <2>4
<1>2. i \in 1..TurnSize(c, t) /\ p = TurnBegin(c, t) + i - 1
  <2> DEFINE B == TurnBegin(c, t)
             Z == TurnSize(c, t)
  <2>1. B \in Nat /\ Z \in Nat /\ p \in Nat /\ B <= p /\ p < B + Z /\ i = p - B + 1
    BY <1>1
  <2> HIDE DEF B, Z
  <2>2. i \in 1..Z /\ p = B + i - 1
    BY <2>1
  <2> QED
    BY <2>2 DEF B, Z
<1>3. /\ InOrder(g) /\ Len(g.acts) = N - 1 /\ Len(g.begins) = K
      /\ \A v \in 1..K : g.begins[v] = IF v <= t + 1 THEN c.begins[v] ELSE c.begins[v] - 1
  BY CutIs
<1>4. \A y \in 1..N-1 : g.acts[y] = IF y < p THEN c.acts[y] ELSE c.acts[y + 1]
  <2>1. g.acts = RemoveAt(c.acts, p)
    BY DEF Cut
  <2> DEFINE s == c.acts
  <2>2. s \in Seq(Action) /\ p \in 1..Len(s)
    BY <1>1
  <2> HIDE DEF s
  <2>3. \A y \in 1..Len(s)-1 : RemoveAt(s, p)[y] = IF y < p THEN s[y] ELSE s[y + 1]
    BY <2>2, RemoveAtIs
  <2> QED
    BY <2>1, <2>3 DEF s
<1> HIDE DEF g
<1>5. ASSUME NEW v \in 0..K
      PROVE  TurnBegin(g, v) = IF v <= t THEN TurnBegin(c, v) ELSE TurnBegin(c, v) - 1
  <2>0. v \in Nat
    BY <1>1
  <2>1. CASE v < K
    <3>0. v < Len(g.begins) /\ v < Len(c.begins) /\ v + 1 \in 1..K
      BY <1>1, <1>3, <2>0, <2>1, SMTT(30)
    <3>1. TurnBegin(g, v) = g.begins[v + 1] /\ TurnBegin(c, v) = c.begins[v + 1]
      BY <1>3, <2>0, <3>0, TurnBegins
    <3>2. g.begins[v + 1] = IF v + 1 <= t + 1 THEN c.begins[v + 1] ELSE c.begins[v + 1] - 1
      BY <1>3, <3>0
    <3> QED
      BY <1>1, <2>0, <3>1, <3>2
  <2>2. CASE v = K
    <3>1. v >= K /\ v >= Len(g.begins)
      BY <1>1, <1>3, <2>2
    <3>2. TurnBegin(g, v) = (N - 1) + 1 /\ TurnBegin(c, v) = N + 1
      BY <1>3, <2>0, <3>1, TurnBegins
    <3>3. ~(v <= t)
      BY <1>1, <2>2
    <3> QED
      BY <1>1, <3>2, <3>3
  <2> QED
    BY <1>1, <2>1, <2>2
<1>6. ASSUME NEW v \in 0..K-1
      PROVE  /\ v \in Nat /\ v + 1 \in 0..K /\ v \in 0..K
             /\ TurnBegin(c, v) \in 1..N+1 /\ TurnSize(c, v) \in Nat /\ TurnEnd(c, v) \in 1..N+1
             /\ TurnBegin(c, v) + TurnSize(c, v) = TurnEnd(c, v)
             /\ TurnBegin(g, v) + TurnSize(g, v) = TurnEnd(g, v) /\ TurnSize(g, v) \in Nat
             /\ TurnEnd(c, v) = TurnBegin(c, v + 1) /\ TurnEnd(g, v) = TurnBegin(g, v + 1)
             /\ (v < t => TurnEnd(c, v) <= TurnBegin(c, t)) /\ (t < v => TurnEnd(c, t) <= TurnBegin(c, v))
  <2>1. v \in Nat /\ v + 1 \in 0..K /\ v \in 0..K
    BY <1>1
  <2>2. /\ TurnBegin(c, v) \in 1..N+1 /\ TurnEnd(c, v) \in 1..N+1
        /\ TurnEnd(c, v) = TurnBegin(c, v + 1) /\ TurnEnd(g, v) = TurnBegin(g, v + 1)
    BY <1>3, <2>1, TurnBegins
  <2>3. /\ TurnBegin(c, v) + TurnSize(c, v) = TurnEnd(c, v) /\ TurnSize(c, v) \in Nat
        /\ TurnBegin(g, v) + TurnSize(g, v) = TurnEnd(g, v) /\ TurnSize(g, v) \in Nat
    BY <1>3, <2>1, TurnSizeIs
  <2>4. (v < t => TurnEnd(c, v) <= TurnBegin(c, t)) /\ (t < v => TurnEnd(c, t) <= TurnBegin(c, v))
    BY <1>1, <2>1, TurnsFollow
  <2> QED
    BY <2>1, <2>2, <2>3, <2>4
<1>7. ASSUME NEW v \in 0..K-1
      PROVE  TurnSize(g, v) = IF v = t THEN TurnSize(c, v) - 1 ELSE TurnSize(c, v)
  <2> DEFINE n == v + 1
  <2>1. /\ TurnBegin(g, v) = IF v <= t THEN TurnBegin(c, v) ELSE TurnBegin(c, v) - 1
        /\ TurnBegin(g, n) = IF n <= t THEN TurnBegin(c, n) ELSE TurnBegin(c, n) - 1
    <3>1. v \in 0..K /\ n \in 0..K
      BY <1>1, <1>6
    <3> HIDE DEF n, N, K
    <3> QED
      BY <1>5, <3>1
  <2>2. /\ TurnBegin(c, v) \in 1..N+1 /\ TurnSize(c, v) \in Nat /\ n = v + 1 /\ v \in Nat
        /\ TurnBegin(c, v) + TurnSize(c, v) = TurnBegin(c, n)
        /\ TurnBegin(g, v) + TurnSize(g, v) = TurnBegin(g, n) /\ TurnSize(g, v) \in Nat
    BY <1>6
  <2>3. t \in Nat
    BY <1>1
  <2> HIDE DEF n, N, K
  <2>4. CASE v = t
    BY <2>1, <2>2, <2>3, <2>4
  <2>5. CASE v < t
    BY <2>1, <2>2, <2>3, <2>5
  <2>6. CASE v > t
    BY <2>1, <2>2, <2>3, <2>6
  <2> QED
    BY <2>2, <2>3, <2>4, <2>5, <2>6
<1>8. /\ PlanOf(c) \in Seq(Seq(Action)) /\ Len(PlanOf(c)) = K /\ t + 1 \in 1..K
      /\ \A v \in 0..K-1 : /\ v + 1 \in 1..K
                           /\ PlanOf(c)[v + 1] \in Seq(Action) /\ Len(PlanOf(c)[v + 1]) = TurnSize(c, v)
                           /\ \A j \in 1..TurnSize(c, v) : PlanOf(c)[v + 1][j] = c.acts[TurnBegin(c, v) + j - 1]
  BY <1>1, PlanIs
<1>9. /\ x \in Seq(Action) /\ Len(x) = TurnSize(c, t) - 1
      /\ \A j \in 1..TurnSize(c, t)-1 : x[j] = IF j < i THEN PlanOf(c)[t + 1][j] ELSE PlanOf(c)[t + 1][j + 1]
  <2> DEFINE s == PlanOf(c)[t + 1]
  <2>1. s \in Seq(Action) /\ Len(s) = TurnSize(c, t)
    BY <1>8
  <2>2. s \in Seq(Action) /\ i \in 1..Len(s)
    BY <1>2, <2>1
  <2> HIDE DEF s, x, Q
  <2>3. RemoveAt(s, i) \in Seq(Action) /\ Len(RemoveAt(s, i)) = Len(s) - 1
    BY <2>2, RemoveAtIs
  <2>4. \A j \in 1..Len(s)-1 : RemoveAt(s, i)[j] = IF j < i THEN s[j] ELSE s[j + 1]
    BY <2>2, RemoveAtIs
  <2> QED
    BY <2>1, <2>3, <2>4 DEF s, x
<1> HIDE DEF x
<1>10. /\ Q \in Seq(Seq(Action)) /\ Len(Q) = K
       /\ \A v \in 0..K-1 : Q[v + 1] = IF v = t THEN x ELSE PlanOf(c)[v + 1]
  <2>1. /\ Q \in Seq(Seq(Action)) /\ Len(Q) = K
        /\ \A u \in 1..K : Q[u] = IF u = t + 1 THEN x ELSE PlanOf(c)[u]
    BY <1>8, <1>9, WithTurn
  <2>2. \A v \in 0..K-1 : v + 1 \in 1..K /\ (v + 1 = t + 1 <=> v = t)
    BY <1>1
  <2> HIDE DEF Q
  <2> QED
    BY <2>1, <2>2
<1> HIDE DEF Q
<1>11. ASSUME NEW v \in 0..K-1
       PROVE  /\ Len(Q[v + 1]) = TurnSize(g, v)
              /\ \A j \in 1..TurnSize(g, v) : Q[v + 1][j] = g.acts[TurnBegin(g, v) + j - 1]
  <2>0. TurnBegin(g, v) = IF v <= t THEN TurnBegin(c, v) ELSE TurnBegin(c, v) - 1
    BY <1>5, <1>6
  <2>1. CASE v = t
    <3>1. Q[v + 1] = x /\ TurnSize(g, v) = TurnSize(c, t) - 1 /\ TurnBegin(g, v) = TurnBegin(c, t)
      BY <1>1, <1>7, <1>10, <2>0, <2>1, SMTT(30)
    <3>2. ASSUME NEW j \in 1..TurnSize(c, t)-1 PROVE x[j] = g.acts[TurnBegin(c, t) + j - 1]
      <4> DEFINE y == TurnBegin(c, t) + j - 1
      <4>1. /\ y \in 1..N-1 /\ j \in Nat /\ (j < i <=> y < p)
            /\ j \in 1..TurnSize(c, t) /\ j + 1 \in 1..TurnSize(c, t)
            /\ y + 1 = TurnBegin(c, t) + (j + 1) - 1
        <5> DEFINE B == TurnBegin(c, t)
                   Z == TurnSize(c, t)
        <5>1. B \in Nat /\ Z \in Nat /\ B >= 1 /\ B + Z <= N + 1 /\ N \in Nat /\ p = B + i - 1 /\ i \in 1..Z /\ j \in 1..Z-1
              /\ y = B + j - 1
          <6>1. B \in 1..N+1 /\ Z \in Nat /\ B + Z \in 1..N+1 /\ N \in Nat
            BY <1>1
          <6>2. p = B + i - 1 /\ i \in 1..Z /\ j \in 1..Z-1 /\ y = B + j - 1
            BY <1>2
          <6> HIDE DEF B, Z, y, N
          <6> QED
            BY <6>1, <6>2
        <5> HIDE DEF B, Z, y, N
        <5>2. /\ y \in 1..N-1 /\ j \in Nat /\ (j < i <=> y < p) /\ j \in 1..Z /\ j + 1 \in 1..Z
              /\ y + 1 = B + (j + 1) - 1
          BY <5>1
        <5> QED
          BY <5>2 DEF B, Z, N
      <4>2. g.acts[y] = IF y < p THEN c.acts[y] ELSE c.acts[y + 1]
        BY <1>4, <4>1
      <4>3. x[j] = IF j < i THEN PlanOf(c)[t + 1][j] ELSE PlanOf(c)[t + 1][j + 1]
        BY <1>9
      <4>4. PlanOf(c)[t + 1][j] = c.acts[y]
        BY <1>8, <4>1
      <4>5. PlanOf(c)[t + 1][j + 1] = c.acts[y + 1]
        <5> DEFINE k == j + 1
        <5>1. k \in 1..TurnSize(c, t) /\ y + 1 = TurnBegin(c, t) + k - 1
          BY <4>1
        <5> HIDE DEF k, y
        <5>2. PlanOf(c)[t + 1][k] = c.acts[TurnBegin(c, t) + k - 1]
          BY <1>8, <5>1
        <5> QED
          BY <5>1, <5>2 DEF k
      <4> HIDE DEF y
      <4>6. x[j] = g.acts[y]
        BY <4>1, <4>2, <4>3, <4>4, <4>5
      <4> QED
        BY <4>6 DEF y
    <3> QED
      BY <1>9, <3>1, <3>2
  <2>2. CASE v < t
    <3>1. Q[v + 1] = PlanOf(c)[v + 1] /\ TurnSize(g, v) = TurnSize(c, v) /\ TurnBegin(g, v) = TurnBegin(c, v)
      <4>1. v \in Nat /\ t \in Nat /\ v # t /\ v <= t
        BY <1>1, <1>6, <2>2
      <4>2. Q[v + 1] = PlanOf(c)[v + 1]
        BY <1>10, <4>1
      <4>3. TurnSize(g, v) = TurnSize(c, v)
        BY <1>7, <4>1
      <4> QED
        BY <2>0, <4>1, <4>2, <4>3
    <3>2. ASSUME NEW j \in 1..TurnSize(c, v) PROVE g.acts[TurnBegin(c, v) + j - 1] = c.acts[TurnBegin(c, v) + j - 1]
      <4> DEFINE B == TurnBegin(c, v)
                 Z == TurnSize(c, v)
      <4>0. /\ B \in Nat /\ Z \in Nat /\ B >= 1 /\ B + Z <= TurnBegin(c, t) /\ TurnBegin(c, t) \in Nat
            /\ TurnBegin(c, t) <= p /\ p \in 1..N /\ N \in Nat
        <5>1. B + Z = TurnEnd(c, v) /\ TurnEnd(c, v) <= TurnBegin(c, t) /\ B \in Nat /\ B >= 1 /\ Z \in Nat
          BY <1>6, <2>2
        <5>2. TurnBegin(c, t) \in Nat /\ TurnBegin(c, t) <= p /\ p \in 1..N /\ N \in Nat
          BY <1>1
        <5> HIDE DEF B, Z, N
        <5> QED
          BY <5>1, <5>2
      <4> HIDE DEF B, Z, N
      <4>1. B + j - 1 \in 1..N-1 /\ B + j - 1 < p
        <5>1. j \in 1..Z
          BY DEF Z
        <5> QED
          BY <4>0, <5>1
      <4> USE DEF B, N
      <4> QED
        BY <1>4, <4>1
    <3> QED
      BY <1>8, <3>1, <3>2
  <2>3. CASE v > t
    <3>1. Q[v + 1] = PlanOf(c)[v + 1] /\ TurnSize(g, v) = TurnSize(c, v) /\ TurnBegin(g, v) = TurnBegin(c, v) - 1
      <4>1. v \in Nat /\ t \in Nat /\ v # t /\ ~(v <= t)
        BY <1>1, <1>6, <2>3
      <4>2. Q[v + 1] = PlanOf(c)[v + 1]
        BY <1>10, <4>1
      <4>3. TurnSize(g, v) = TurnSize(c, v)
        BY <1>7, <4>1
      <4> QED
        BY <2>0, <4>1, <4>2, <4>3
    <3>2. ASSUME NEW j \in 1..TurnSize(c, v) PROVE g.acts[(TurnBegin(c, v) - 1) + j - 1] = c.acts[TurnBegin(c, v) + j - 1]
      <4> DEFINE y == (TurnBegin(c, v) - 1) + j - 1
      <4>1. y \in 1..N-1 /\ ~(y < p) /\ y + 1 = TurnBegin(c, v) + j - 1
        <5> DEFINE B == TurnBegin(c, v)
                   Z == TurnSize(c, v)
        <5>0. /\ B \in Nat /\ Z \in Nat /\ B + Z <= N + 1 /\ TurnEnd(c, t) <= B /\ TurnEnd(c, t) \in Nat
              /\ p < TurnEnd(c, t) /\ p \in 1..N /\ N \in Nat /\ j \in 1..Z /\ y = (B - 1) + j - 1
          <6>1. B + Z = TurnEnd(c, v) /\ TurnEnd(c, v) \in 1..N+1 /\ TurnEnd(c, t) <= B /\ B \in Nat /\ Z \in Nat
            BY <1>6, <2>3
          <6>2. TurnEnd(c, t) \in Nat /\ p < TurnEnd(c, t) /\ p \in 1..N /\ N \in Nat
            BY <1>1
          <6>3. j \in 1..Z /\ y = (B - 1) + j - 1
            OBVIOUS
          <6> HIDE DEF B, Z, N, y
          <6> QED
            BY <6>1, <6>2, <6>3
        <5> HIDE DEF B, Z, N, y
        <5>1. y \in 1..N-1 /\ ~(y < p) /\ y + 1 = B + j - 1
          BY <5>0
        <5> QED
          BY <5>1 DEF B, N
      <4> HIDE DEF y
      <4>2. g.acts[y] = c.acts[y + 1]
        BY <1>4, <4>1
      <4> QED
        BY <4>1, <4>2 DEF y
    <3> QED
      BY <1>8, <3>1, <3>2
  <2> QED
    BY <1>1, <1>6, <2>1, <2>2, <2>3
<1>12. PlanOf(g) = Q
  BY <1>3, <1>10, <1>11, PlanEquals
<1>13. i \in 1..Len(PlanOf(c)[t + 1])
  BY <1>2, <1>8
<1> QED
  BY <1>12, <1>13 DEF g, Q, x

\* An erase gives up where it loses the iterator of a later turn, and nowhere else.
LEMMA EraseFails ==
  ASSUME NEW c, InOrder(c), NEW p \in 1..Len(c.acts)
  PROVE  Erase(c, p).fault # "none" <=> LosesTurn(c, p)
<1> DEFINE b == c.begins
           N == Len(c.acts)
           K == Len(b)
           t == GetTurn(c, p)
           found == {i \in DOMAIN b : b[i] = p}
           m == Min(found)
           still == GetTurn(c, p + 1) = m - 1
           nb == IF found = {}              THEN b
                 ELSE IF N = 1    THEN <<>>
                 ELSE IF p = N    THEN Front(b)
                 ELSE [b EXCEPT ![m] = IF still THEN p + 1 ELSE TurnEnd(c, 0)]
<1>1. Rising(b, N) /\ DOMAIN b = 1..K /\ b \in Seq(Nat)
  BY OrderRises, ContainerIs DEF InOrder
<1>2. /\ N \in Nat /\ K \in Nat /\ b \in [1..K -> 1..N] /\ (K # 0 => b[1] = 1)
      /\ \A i, j \in 1..K : (i <= j => b[i] <= b[j]) /\ (i < j /\ j >= 3 => b[i] < b[j])
  BY <1>1 DEF Rising
<1>3. /\ t \in 0..K-1 /\ t \in Nat /\ t + 1 \in 1..K /\ TurnBegin(c, t) = b[t + 1] /\ TurnBegin(c, t) <= p /\ p < TurnEnd(c, t)
  <2>1. t \in 0..K-1 /\ TurnBegin(c, t) <= p /\ p < TurnEnd(c, t)
    BY TurnOfAction
  <2> HIDE DEF t
  <2>2. t \in Nat /\ t + 1 \in 1..K /\ t < K
    BY <1>2, <2>1
  <2>3. TurnBegin(c, t) = b[t + 1]
    BY <2>2, TurnBegins
  <2> QED
    BY <2>1, <2>2, <2>3
<1>4. Erase(c, p) =
        IF found # {} /\ p < N /\ ~still /\ m # 1
        THEN Fails(c, "assertion")
        ELSE IF p \in ToSet(nb) THEN Fails(c, "dangling")
        ELSE [acts |-> RemoveAt(c.acts, p), begins |-> After(nb, p), fault |-> "none"]
  BY EraseOpens
<1>5. Fails(c, "assertion").fault # "none" /\ Fails(c, "dangling").fault # "none"
  BY FailsIs DEF Faults
<1>6. LosesTurn(c, p) <=> /\ t >= 1 /\ p = b[t + 1]
                        /\ \/ TurnSize(c, t) = 1 /\ t + 1 < K
                           \/ t = 1 /\ TurnBegin(c, 1) = 1 /\ N > 1
  BY <1>3 DEF LosesTurn, NumTurns
<1>7. found # {} => /\ m \in 1..K /\ b[m] = p /\ \A j \in 1..K : b[j] = p => m <= j
  <2> DEFINE F == found
  <2>1. F = {i \in DOMAIN c.begins : c.begins[i] = p}
    OBVIOUS
  <2> HIDE DEF F
  <2>2. F # {} => /\ Min(F) \in 1..Len(c.begins) /\ c.begins[Min(F)] = p
                  /\ \A j \in 1..Len(c.begins) : c.begins[j] = p => Min(F) <= j
    BY <2>1, FoundIs
  <2> QED
    BY <2>2 DEF F
<1> HIDE DEF still, m
<1>8. CASE found = {}
  <2>1. nb = b
    BY <1>8
  <2>2. p \notin ToSet(nb)
    BY <1>8, <2>1 DEF ToSet
  <2>3. Erase(c, p).fault = "none"
    <3> HIDE DEF nb, found
    <3> QED
      BY <1>4, <1>8, <2>2
  <2>4. p # b[t + 1]
    BY <1>1, <1>3, <1>8
  <2> QED
    BY <1>6, <2>3, <2>4
<1>9. CASE found # {} /\ N = 1
  <2>1. nb = <<>>
    BY <1>9
  <2>2. p \notin ToSet(nb) /\ ~(p < N)
    BY <1>9, <2>1 DEF ToSet
  <2>3. Erase(c, p).fault = "none"
    <3> HIDE DEF nb, found
    <3> QED
      BY <1>4, <2>2
  <2>4. t >= 1 => ~(t + 1 < K)
    <3> SUFFICES ASSUME t >= 1, t + 1 < K PROVE FALSE
      OBVIOUS
    <3> HIDE DEF t
    <3>1. 3 \in 1..K /\ 1 \in 1..K
      BY <1>2, <1>3
    <3>2. b[1] < b[3] /\ b[3] \in 1..N /\ b[1] \in 1..N
      BY <1>2, <3>1
    <3> QED
      BY <1>9, <3>2
  <2> QED
    BY <1>6, <1>9, <2>3, <2>4
<1>10. CASE found # {} /\ N # 1 /\ p = N
  <2>1. nb = Front(b)
    BY <1>10
  <2>0. p > 1 /\ ~(p < N) /\ K >= 1
    <3>1. N \in Nat /\ K \in Nat /\ t \in 0..K-1 /\ p = N /\ N # 1 /\ p >= 1
      BY <1>2, <1>3, <1>10
    <3> HIDE DEF t, N, K
    <3> QED
      BY <3>1
  <2>2. p \notin ToSet(nb)
    <3>1. K - 1 \in 0..Len(b)
      BY <1>2, <2>0
    <3>2. nb = SubSeq(b, 1, K - 1)
      BY <2>1 DEF Front
    <3>3. nb \in Seq(Nat) /\ Len(nb) = K - 1 /\ \A i \in 1..K-1 : nb[i] = b[i]
      <4> DEFINE n == K - 1
      <4>1. b \in Seq(Nat) /\ n \in 0..Len(b)
        BY <1>1, <3>1
      <4> HIDE DEF n
      <4>2. SubSeq(b, 1, n) \in Seq(Nat) /\ Len(SubSeq(b, 1, n)) = n
        BY <4>1, BeginIs
      <4>3. \A i \in 1..n : SubSeq(b, 1, n)[i] = b[i]
        BY <4>1, BeginIs
      <4> HIDE DEF nb
      <4> QED
        BY <3>2, <4>2, <4>3 DEF n
    <3>4. ASSUME NEW i \in 1..K-1, b[i] = p PROVE FALSE
      <4>1. i \in 1..K /\ K \in 1..K /\ b[i] \in 1..N /\ b[K] \in 1..N /\ i < K
        BY <1>2, <3>4
      <4>2. i # 1
        BY <1>2, <2>0, <3>4
      <4>3. K >= 3
        BY <4>1, <4>2
      <4>4. b[i] < b[K]
        BY <1>2, <4>1, <4>3
      <4> QED
        BY <1>10, <3>4, <4>1, <4>4
    <3>5. DOMAIN nb = 1..K-1
      BY <3>3
    <3> HIDE DEF nb
    <3> QED
      BY <3>3, <3>4, <3>5 DEF ToSet
  <2>3. Erase(c, p).fault = "none"
    <3> HIDE DEF nb, found
    <3> QED
      BY <1>4, <2>0, <2>2
  <2>4. ASSUME t >= 1, p = b[t + 1], t + 1 < K PROVE FALSE
    <3> HIDE DEF t
    <3>1. t + 1 \in 1..K /\ t + 2 \in 1..K /\ t + 1 < t + 2 /\ t + 2 >= 3
      BY <1>2, <1>3, <2>4
    <3>2. b[t + 1] < b[t + 2] /\ b[t + 2] \in 1..N
      BY <1>2, <3>1
    <3> QED
      BY <1>10, <2>4, <3>2
  <2>5. ASSUME t = 1, p = b[t + 1], TurnBegin(c, 1) = 1 PROVE FALSE
    <3> HIDE DEF t
    <3> QED
      BY <1>3, <2>0, <2>5
  <2> QED
    BY <1>6, <2>3, <2>4, <2>5
<1>11. CASE found # {} /\ N # 1 /\ p # N /\ still
  <2>0. p < N /\ p \in Nat /\ m \in 1..K /\ b[m] = p
    BY <1>2, <1>7, <1>11
  <2>1. nb = [b EXCEPT ![m] = p + 1]
    BY <1>11
  <2>2. t = m - 1 /\ TurnSize(c, m - 1) > 1 /\ \A j \in 1..K : j > m => b[j] > p
    BY <1>11, <2>0, NextAction DEF still
  <2>3. p \notin ToSet(nb)
    <3>1. DOMAIN nb = 1..K /\ \A j \in 1..K : nb[j] = IF j = m THEN p + 1 ELSE b[j]
      BY <1>1, <2>0, <2>1
    <3>2. \A j \in 1..K : nb[j] # p
      <4> SUFFICES ASSUME NEW j \in 1..K, nb[j] = p PROVE FALSE
        OBVIOUS
      <4>1. j # m
        BY <2>0, <3>1
      <4>2. b[j] = p
        BY <3>1, <4>1
      <4>3. m <= j
        BY <1>7, <1>11, <4>2
      <4>4. j > m
        BY <2>0, <4>1, <4>3
      <4>5. b[j] > p
        BY <2>2, <4>4
      <4> QED
        BY <2>0, <4>2, <4>5
    <3> HIDE DEF nb
    <3> QED
      BY <3>1, <3>2 DEF ToSet
  <2>4. Erase(c, p).fault = "none"
    <3> HIDE DEF nb, found
    <3> QED
      BY <1>4, <1>11, <2>3
  <2>5. TurnSize(c, t) > 1 /\ TurnSize(c, t) # 1
    <3>1. TurnSize(c, t) \in Nat
      BY <1>3, TurnSizeIs
    <3> QED
      BY <2>2, <3>1
  <2>6. ASSUME t = 1, TurnBegin(c, 1) = 1 PROVE FALSE
    <3>1. m = 2 /\ p = 1 /\ 1 \in 1..K
      <4> HIDE DEF t
      <4> QED
        BY <1>3, <2>0, <2>2, <2>6
    <3>2. b[1] = p
      BY <1>2, <3>1
    <3>3. m <= 1
      BY <1>7, <1>11, <3>1, <3>2
    <3> QED
      BY <3>1, <3>3
  <2> QED
    BY <1>6, <2>4, <2>5, <2>6
<1>12. CASE found # {} /\ N # 1 /\ p # N /\ ~still /\ m # 1
  <2>0. p < N /\ p \in Nat /\ m \in 1..K /\ b[m] = p /\ m - 1 \in Nat /\ m - 1 >= 1 /\ m - 1 < K /\ (m - 1) + 1 = m
    BY <1>2, <1>7, <1>12
  <2>1. Erase(c, p).fault # "none"
    <3> HIDE DEF nb, found
    <3> QED
      BY <1>4, <1>5, <1>12, <2>0
  <2> DEFINE v == m - 1
  <2>2. v \in Nat /\ v >= 1 /\ v < K /\ v + 1 = m
    BY <2>0
  <2>3. TurnBegin(c, v) = p /\ TurnBegin(c, v) < TurnEnd(c, v) /\ TurnEnd(c, v) \in 1..N+1 /\ TurnEnd(c, v) = TurnBegin(c, v + 1)
        /\ TurnBegin(c, v) + TurnSize(c, v) = TurnEnd(c, v) /\ TurnSize(c, v) \in Nat
    <3> HIDE DEF v
    <3>1. TurnBegin(c, v) = b[v + 1] /\ TurnBegin(c, v) < TurnEnd(c, v)
      BY <2>2, TurnBegins
    <3>2. TurnEnd(c, v) \in 1..N+1 /\ TurnEnd(c, v) = TurnBegin(c, v + 1)
      BY <2>2, TurnBegins
    <3> QED
      BY <2>0, <2>2, <3>1, <3>2, TurnSizeIs
  <2>4. t = v
    <3> HIDE DEF v
    <3>1. TurnBegin(c, v) <= p /\ p < TurnEnd(c, v)
      BY <2>0, <2>3
    <3> QED
      BY <2>2, <3>1, OneTurn
  <2>5. TurnEnd(c, v) = p + 1
    <3> SUFFICES ASSUME TurnEnd(c, v) # p + 1 PROVE FALSE
      OBVIOUS
    <3> DEFINE q == p + 1
    <3>1. q \in 1..Len(c.acts) /\ TurnBegin(c, v) <= q /\ q < TurnEnd(c, v)
      BY <1>2, <2>0, <2>3
    <3> HIDE DEF v, q
    <3>2. GetTurn(c, q) = v
      BY <2>2, <3>1, OneTurn
    <3> QED
      BY <1>12, <3>2 DEF still, v, q
  <2>6. TurnSize(c, v) = 1
    <3> HIDE DEF v
    <3> QED
      BY <2>0, <2>3, <2>5
  <2>7. v + 1 < K
    <3> SUFFICES ASSUME v + 1 >= K PROVE FALSE
      BY <1>2, <2>2
    <3> HIDE DEF v
    <3>1. v + 1 \in Nat
      BY <2>2
    <3>2. TurnBegin(c, v + 1) = N + 1
      BY <3>1, TurnBegins
    <3> QED
      BY <1>2, <2>0, <2>3, <2>5, <3>2
  <2>8. p = b[t + 1] /\ t >= 1 /\ TurnSize(c, t) = 1 /\ t + 1 < K
    <3> HIDE DEF v, t
    <3> QED
      BY <2>0, <2>2, <2>4, <2>6, <2>7
  <2> QED
    BY <1>6, <2>1, <2>8
<1>13. CASE found # {} /\ N # 1 /\ p # N /\ ~still /\ m = 1
  <2>0. p < N /\ p \in Nat /\ 1 \in 1..K /\ b[1] = p /\ p = 1 /\ K >= 1 /\ N > 1
    BY <1>2, <1>7, <1>13
  <2>1. nb = [b EXCEPT ![1] = TurnEnd(c, 0)]
    BY <1>13
  <2>2. K >= 2
    <3> SUFFICES ASSUME ~(K >= 2) PROVE FALSE
      OBVIOUS
    <3>0. K = 1
      <4>1. K \in Nat /\ K >= 1
        BY <1>2, <2>0
      <4> HIDE DEF K
      <4> QED
        BY <4>1
    <3> DEFINE q == p + 1
    <3>1. q \in 1..Len(c.acts)
      BY <1>2, <2>0
    <3> HIDE DEF q
    <3>2. GetTurn(c, q) \in 0..Len(c.begins)-1
      BY <3>1, TurnOfAction
    <3>3. GetTurn(c, q) = 0
      BY <3>0, <3>2
    <3> QED
      BY <1>13, <3>3 DEF still, q
  <2>3. TurnEnd(c, 0) = b[2] /\ b[2] \in 1..N /\ TurnBegin(c, 1) = b[2] /\ TurnBegin(c, 0) = 1 /\ TurnBegin(c, 1) < TurnEnd(c, 1)
    <3>1. 1 \in Nat /\ 1 < Len(c.begins) /\ 2 \in 1..K /\ 1 >= 1 /\ 0 \in Nat
      BY <1>2, <2>2
    <3>2. TurnBegin(c, 1) = b[1 + 1] /\ TurnBegin(c, 1) < TurnEnd(c, 1)
      BY <3>1, TurnBegins
    <3>3. TurnEnd(c, 0) = TurnBegin(c, 0 + 1) /\ TurnBegin(c, 0) = 1
      BY <3>1, TurnBegins
    <3> QED
      BY <1>2, <3>1, <3>2, <3>3
  <2>4. DOMAIN nb = 1..K /\ \A j \in 1..K : nb[j] = IF j = 1 THEN b[2] ELSE b[j]
    BY <1>1, <2>0, <2>1, <2>3
  <2>5. CASE b[2] = 1
    <3>1. p \in ToSet(nb)
      <4>1. nb[1] = p
        BY <2>0, <2>4, <2>5
      <4> HIDE DEF nb
      <4> QED
        BY <2>0, <2>4, <4>1 DEF ToSet
    <3>2. Erase(c, p).fault # "none"
      <4> HIDE DEF nb, found
      <4> QED
        BY <1>4, <1>5, <1>13, <3>1
    <3>3. t = 1
      <4>1. TurnBegin(c, 1) <= p /\ p < TurnEnd(c, 1)
        BY <2>0, <2>3, <2>5
      <4> QED
        BY <4>1, OneTurn
    <3>4. t >= 1 /\ p = b[t + 1] /\ t = 1 /\ TurnBegin(c, 1) = 1 /\ N > 1
      <4> HIDE DEF t
      <4> QED
        BY <2>0, <2>3, <2>5, <3>3
    <3> QED
      BY <1>6, <3>2, <3>4
  <2>6. CASE b[2] # 1
    <3>1. \A j \in 1..K : nb[j] # p
      <4> SUFFICES ASSUME NEW j \in 1..K, nb[j] = p PROVE FALSE
        OBVIOUS
      <4>1. CASE j = 1
        BY <2>0, <2>4, <2>6, <4>1
      <4>2. CASE j # 1
        <5>1. 2 \in 1..K /\ 2 <= j /\ b[j] = p
          BY <1>2, <2>2, <2>4, <4>2
        <5>2. b[2] <= b[j]
          BY <1>2, <5>1
        <5> QED
          BY <2>0, <2>3, <2>6, <5>1, <5>2
      <4> QED
        BY <4>1, <4>2
    <3>2. p \notin ToSet(nb)
      <4> HIDE DEF nb
      <4> QED
        BY <2>4, <3>1 DEF ToSet
    <3>3. Erase(c, p).fault = "none"
      <4> HIDE DEF nb, found
      <4> QED
        BY <1>4, <1>13, <3>2
    <3>4. t = 0
      <4>1. TurnBegin(c, 0) <= p /\ p < TurnEnd(c, 0)
        BY <2>0, <2>3, <2>6
      <4> QED
        BY <4>1, OneTurn
    <3>5. ~(t >= 1)
      <4> HIDE DEF t
      <4> QED
        BY <3>4
    <3> QED
      BY <1>6, <3>3, <3>5
  <2> QED
    BY <2>5, <2>6
<1> QED
  BY <1>8, <1>9, <1>10, <1>11, <1>12, <1>13

\* Without its only action the last turn is gone.
LEMMA ShortenedPlan ==
  ASSUME NEW c, InOrder(c), Len(c.acts) > 1, c.begins[Len(c.begins)] = Len(c.acts)
  PROVE  /\ Len(c.begins) >= 2 /\ Len(PlanOf(c)[Len(c.begins)]) = 1 /\ PlanOf(c)[Len(c.begins) - 1] # <<>>
         /\ PlanOf(Shortened(c)) = SubSeq(PlanOf(c), 1, Len(c.begins) - 1)
<1> DEFINE N == Len(c.acts)
           K == Len(c.begins)
           g == Shortened(c)
           n == K - 1
           P == PlanOf(c)
           Q == SubSeq(P, 1, n)
           S == Seq(Action)
<1>1. N \in Nat /\ K \in Nat /\ c.acts \in Seq(Action) /\ c.begins \in Seq(Nat) /\ K >= 2
  BY ContainerIs, ShortenedIs DEF InOrder
<1>2. /\ InOrder(g) /\ Len(g.acts) = N - 1 /\ g.begins = Front(c.begins)
      /\ Len(g.begins) = n /\ \A i \in 1..n : g.begins[i] = c.begins[i]
  BY ShortenedIs DEF Shortened
<1>3. \A y \in 1..N-1 : g.acts[y] = c.acts[y]
  <2>1. g.acts = RemoveAt(c.acts, N)
    BY DEF Shortened
  <2>2. c.acts \in Seq(Action) /\ N \in 1..Len(c.acts)
    BY <1>1
  <2>3. \A y \in 1..Len(c.acts)-1 : RemoveAt(c.acts, N)[y] = IF y < N THEN c.acts[y] ELSE c.acts[y + 1]
    BY <2>2, RemoveAtIs
  <2>4. \A y \in 1..N-1 : y < N
    BY <1>1
  <2> QED
    BY <2>1, <2>3, <2>4
<1> HIDE DEF g
<1>4. n \in Nat /\ n >= 1 /\ n < K /\ n + 1 = K /\ n \in 0..K-1
  BY <1>1
<1> HIDE DEF n
<1>5. ASSUME NEW v \in 0..n PROVE TurnBegin(g, v) = TurnBegin(c, v) /\ TurnBegin(c, v) = c.begins[v + 1]
  <2>0. v \in Nat /\ v < Len(c.begins)
    BY <1>1, <1>4
  <2>1. TurnBegin(c, v) = c.begins[v + 1]
    BY <2>0, TurnBegins
  <2>2. CASE v < n
    <3>1. v < Len(g.begins) /\ v + 1 \in 1..n
      BY <1>2, <1>4, <2>0, <2>2
    <3>2. TurnBegin(g, v) = g.begins[v + 1]
      BY <1>2, <2>0, <3>1, TurnBegins
    <3> QED
      BY <1>2, <2>1, <3>1, <3>2
  <2>3. CASE v = n
    <3>1. v >= Len(g.begins)
      BY <1>2, <1>4, <2>3
    <3>2. TurnBegin(g, v) = (N - 1) + 1
      BY <1>2, <2>0, <3>1, TurnBegins
    <3>3. c.begins[v + 1] = N
      BY <1>4, <2>3
    <3> QED
      BY <1>1, <2>1, <3>2, <3>3
  <2> QED
    BY <1>4, <2>2, <2>3
<1>6. TurnBegin(c, n) = N /\ TurnEnd(c, n) = N + 1 /\ TurnSize(c, n) = 1
  <2>1. n \in 0..n /\ n + 1 \in Nat /\ n + 1 >= Len(c.begins)
    BY <1>4
  <2>2. TurnBegin(c, n) = N
    BY <1>4, <1>5, <2>1
  <2>3. TurnBegin(c, n + 1) = N + 1
    BY <2>1, TurnBegins
  <2> QED
    BY <1>1, <2>2, <2>3 DEF TurnSize, TurnEnd
<1>7. /\ P \in Seq(S) /\ Len(P) = K
      /\ \A v \in 0..K-1 : /\ v + 1 \in 1..K
                           /\ P[v + 1] \in Seq(Action) /\ Len(P[v + 1]) = TurnSize(c, v)
                           /\ \A j \in 1..TurnSize(c, v) : P[v + 1][j] = c.acts[TurnBegin(c, v) + j - 1]
  BY PlanIs
<1> HIDE DEF P
<1>8. Q \in Seq(S) /\ Len(Q) = n /\ \A i \in 1..n : Q[i] = P[i]
  <2>1. n \in 0..Len(P) /\ P \in Seq(S)
    BY <1>4, <1>7
  <2> HIDE DEF S
  <2>2. Q \in Seq(S) /\ Len(Q) = n
    BY <2>1, BeginIs
  <2>3. \A i \in 1..n : Q[i] = P[i]
    BY <2>1, BeginIs
  <2> QED
    BY <2>2, <2>3
<1> HIDE DEF Q
<1>9. Len(P[K]) = 1
  <2>1. Len(P[n + 1]) = TurnSize(c, n)
    BY <1>4, <1>7
  <2> QED
    BY <1>4, <1>6, <2>1
<1>10. P[n] # <<>>
  <2> DEFINE v == n - 1
  <2>1. v \in 0..K-1 /\ v \in Nat /\ v + 1 = n /\ v < K
    BY <1>1, <1>4
  <2> HIDE DEF v
  <2>2. Len(P[n]) = TurnSize(c, v) /\ P[n] \in Seq(Action)
    BY <1>7, <2>1
  <2>3. TurnBegin(c, v) < TurnEnd(c, v)
    <3>1. CASE v >= 1
      BY <2>1, <3>1, TurnBegins
    <3>2. CASE v = 0
      <4>1. TurnBegin(c, 0) = 1 /\ TurnEnd(c, 0) = TurnBegin(c, 0 + 1)
        BY <2>1, <3>2, TurnBegins
      <4> QED
        BY <1>1, <1>6, <2>1, <3>2, <4>1
    <3> QED
      BY <2>1, <3>1, <3>2
  <2>4. TurnSize(c, v) # 0
    <3>1. TurnSize(c, v) = 0 <=> TurnEnd(c, v) = TurnBegin(c, v)
      BY <2>1, TurnSizeIs
    <3>2. TurnBegin(c, v) \in 1..N+1 /\ TurnEnd(c, v) \in 1..N+1
      BY <2>1, TurnBegins
    <3> QED
      BY <1>1, <2>3, <3>1, <3>2
  <2> QED
    BY <2>2, <2>4
<1>11. ASSUME NEW v \in 0..n-1
       PROVE  /\ Len(Q[v + 1]) = TurnSize(g, v)
              /\ \A j \in 1..TurnSize(g, v) : Q[v + 1][j] = g.acts[TurnBegin(g, v) + j - 1]
  <2>1. v \in Nat /\ v \in 0..n /\ v + 1 \in 0..n /\ v + 1 \in 1..n /\ v \in 0..K-1 /\ v < n
    BY <1>1, <1>4
  <2>2. TurnSize(g, v) = TurnSize(c, v) /\ TurnBegin(g, v) = TurnBegin(c, v)
    BY <1>5, <2>1 DEF TurnSize, TurnEnd
  <2>3. /\ TurnBegin(c, v) \in 1..N+1 /\ TurnEnd(c, v) \in 1..N+1 /\ TurnEnd(c, v) <= TurnBegin(c, n)
    BY <1>4, <2>1, TurnBegins, TurnsFollow
  <2>4. TurnBegin(c, v) + TurnSize(c, v) = TurnEnd(c, v) /\ TurnSize(c, v) \in Nat
    BY <2>1, TurnSizeIs
  <2>5. ASSUME NEW j \in 1..TurnSize(c, v) PROVE g.acts[TurnBegin(c, v) + j - 1] = c.acts[TurnBegin(c, v) + j - 1]
    <3>1. TurnBegin(c, v) + j - 1 \in 1..N-1
      BY <1>1, <1>6, <2>3, <2>4, SMTT(30)
    <3> QED
      BY <1>3, <3>1
  <2>6. Q[v + 1] = P[v + 1]
    BY <1>8, <2>1
  <2> QED
    BY <1>7, <2>1, <2>2, <2>5, <2>6
<1>12. PlanOf(g) = Q
  <2>1. Q \in Seq(Seq(Action)) /\ Len(Q) = Len(g.begins) /\ InOrder(g)
    BY <1>2, <1>8
  <2>2. \A v \in 0..Len(g.begins)-1 :
          /\ Len(Q[v + 1]) = TurnSize(g, v)
          /\ \A j \in 1..TurnSize(g, v) : Q[v + 1][j] = g.acts[TurnBegin(g, v) + j - 1]
    BY <1>2, <1>11
  <2> HIDE DEF Q, g
  <2> QED
    BY <2>1, <2>2, PlanEquals
<1> QED
  BY <1>1, <1>9, <1>10, <1>12 DEF n, Q, P, g

\* Other actions in one of the turns.
LEMMA ActsPlan ==
  ASSUME NEW c, InOrder(c), NEW s \in Seq(Action), Len(s) = Len(c.acts), NEW t \in 0..Len(c.begins)-1,
         NEW x \in Seq(Action), Len(x) = TurnSize(c, t),
         \A j \in 1..TurnSize(c, t) : x[j] = s[TurnBegin(c, t) + j - 1],
         \A y \in 1..Len(c.acts) : (TurnBegin(c, t) <= y /\ y < TurnEnd(c, t)) \/ s[y] = c.acts[y]
  PROVE  PlanOf([acts |-> s, begins |-> c.begins, fault |-> "none"]) = [PlanOf(c) EXCEPT ![t + 1] = x]
<1> DEFINE N == Len(c.acts)
           K == Len(c.begins)
           e == [acts |-> s, begins |-> c.begins, fault |-> "none"]
           Q == [PlanOf(c) EXCEPT ![t + 1] = x]
<1>1. /\ N \in Nat /\ K \in Nat /\ t \in Nat
  BY ContainerIs DEF InOrder
<1>2. InOrder(e)
  BY OtherActions
<1>3. e.acts = s /\ e.begins = c.begins /\ Len(e.acts) = N
  OBVIOUS
<1> HIDE DEF e
<1>4. ASSUME NEW v \in Nat PROVE TurnBegin(e, v) = TurnBegin(c, v) /\ TurnSize(e, v) = TurnSize(c, v)
  BY <1>3 DEF TurnSize, TurnEnd, TurnBegin, End, NumTurns
<1>5. /\ PlanOf(c) \in Seq(Seq(Action)) /\ Len(PlanOf(c)) = K
      /\ \A v \in 0..K-1 : /\ v + 1 \in 1..K
                           /\ PlanOf(c)[v + 1] \in Seq(Action) /\ Len(PlanOf(c)[v + 1]) = TurnSize(c, v)
                           /\ \A j \in 1..TurnSize(c, v) : PlanOf(c)[v + 1][j] = c.acts[TurnBegin(c, v) + j - 1]
  BY PlanIs
<1>6. /\ Q \in Seq(Seq(Action)) /\ Len(Q) = K
      /\ \A v \in 0..K-1 : Q[v + 1] = IF v = t THEN x ELSE PlanOf(c)[v + 1]
  <2>0. t + 1 \in 1..Len(PlanOf(c))
    BY <1>5
  <2>1. /\ Q \in Seq(Seq(Action)) /\ Len(Q) = K
        /\ \A u \in 1..K : Q[u] = IF u = t + 1 THEN x ELSE PlanOf(c)[u]
    BY <1>5, <2>0, WithTurn
  <2>2. \A v \in 0..K-1 : v + 1 \in 1..K /\ (v + 1 = t + 1 <=> v = t)
    BY <1>1
  <2> HIDE DEF Q
  <2> QED
    BY <2>1, <2>2
<1> HIDE DEF Q
<1>7. ASSUME NEW v \in 0..K-1
      PROVE  /\ Len(Q[v + 1]) = TurnSize(e, v)
             /\ \A j \in 1..TurnSize(e, v) : Q[v + 1][j] = e.acts[TurnBegin(e, v) + j - 1]
  <2>0. v \in Nat
    BY <1>1
  <2>1. TurnBegin(e, v) = TurnBegin(c, v) /\ TurnSize(e, v) = TurnSize(c, v)
    BY <1>4, <2>0
  <2>2. CASE v = t
    BY <1>3, <1>6, <2>1, <2>2
  <2>3. CASE v # t
    <3>1. Q[v + 1] = PlanOf(c)[v + 1]
      BY <1>6, <2>3
    <3>2. /\ TurnBegin(c, v) \in 1..N+1 /\ TurnEnd(c, v) \in 1..N+1
          /\ TurnBegin(c, t) \in 1..N+1 /\ TurnEnd(c, t) \in 1..N+1
      BY <1>1, <2>0, TurnBegins
    <3>3. TurnBegin(c, v) + TurnSize(c, v) = TurnEnd(c, v) /\ TurnSize(c, v) \in Nat
      BY <2>0, TurnSizeIs
    <3>4. TurnEnd(c, v) <= TurnBegin(c, t) \/ TurnEnd(c, t) <= TurnBegin(c, v)
      <4>1. v < t \/ t < v
        BY <1>1, <2>0, <2>3
      <4> QED
        BY <1>1, <2>0, <4>1, TurnsFollow
    <3>5. ASSUME NEW j \in 1..TurnSize(c, v) PROVE s[TurnBegin(c, v) + j - 1] = c.acts[TurnBegin(c, v) + j - 1]
      <4> DEFINE y == TurnBegin(c, v) + j - 1
      <4>1. y \in 1..N /\ ~(TurnBegin(c, t) <= y /\ y < TurnEnd(c, t))
        <5> DEFINE bv == TurnBegin(c, v)
                   ev == TurnEnd(c, v)
                   zv == TurnSize(c, v)
                   bt == TurnBegin(c, t)
                   et == TurnEnd(c, t)
        <5>1. /\ N \in Nat /\ bv \in 1..N+1 /\ ev \in 1..N+1 /\ bt \in 1..N+1 /\ et \in 1..N+1
              /\ zv \in Nat /\ bv + zv = ev /\ (ev <= bt \/ et <= bv) /\ j \in 1..zv
          BY <1>1, <3>2, <3>3, <3>4
        <5> HIDE DEF N, bv, ev, zv, bt, et
        <5>2. bv + j - 1 \in 1..N /\ ~(bt <= bv + j - 1 /\ bv + j - 1 < et)
          BY <5>1
        <5> QED
          BY <5>2 DEF bv, bt, et
      <4> HIDE DEF y
      <4>2. s[y] = c.acts[y]
        BY <4>1
      <4> QED
        BY <4>2 DEF y
    <3> QED
      BY <1>3, <1>5, <2>1, <3>1, <3>5
  <2> QED
    BY <2>2, <2>3
<1>8. PlanOf(e) = Q
  <2>1. Q \in Seq(Seq(Action)) /\ Len(Q) = Len(e.begins)
    BY <1>3, <1>6
  <2>2. \A v \in 0..Len(e.begins)-1 :
           /\ Len(Q[v + 1]) = TurnSize(e, v)
           /\ \A j \in 1..TurnSize(e, v) : Q[v + 1][j] = e.acts[TurnBegin(e, v) + j - 1]
    BY <1>3, <1>7
  <2> QED
    BY <1>2, <2>1, <2>2, PlanEquals
<1> QED
  BY <1>8 DEF e, Q

\* Where an action is in the plans.
LEMMA PlaceIs ==
  ASSUME NEW c, InOrder(c), NEW p \in 1..Len(c.acts)
  PROVE  LET t == GetTurn(c, p)
             i == PositionInTurn(c, p) + 1
         IN  /\ t \in 0..Len(c.begins)-1 /\ t \in Nat /\ t + 1 \in 1..Len(PlanOf(c)) /\ t + 1 \in DOMAIN PlanOf(c)
             /\ TurnBegin(c, t) <= p /\ p < TurnEnd(c, t)
             /\ TurnSize(c, t) = Len(PlanOf(c)[t + 1]) /\ TurnSize(c, t) \in Nat
             /\ i \in 1..TurnSize(c, t) /\ i \in DOMAIN PlanOf(c)[t + 1] /\ p = TurnBegin(c, t) + i - 1
             /\ PlanOf(c)[t + 1] \in Seq(Action) /\ PlanOf(c)[t + 1][i] = c.acts[p]
<1> DEFINE t == GetTurn(c, p)
           i == PositionInTurn(c, p) + 1
           N == Len(c.acts)
           K == Len(c.begins)
<1>1. /\ t \in 0..K-1 /\ TurnBegin(c, t) <= p /\ p < TurnEnd(c, t)
      /\ PositionInTurn(c, p) \in Nat /\ TurnBegin(c, t) + PositionInTurn(c, p) = p
  BY TurnOfAction
<1> HIDE DEF t
<1>2. N \in Nat /\ K \in Nat /\ t \in Nat
  <2>1. N \in Nat /\ K \in Nat
    BY ContainerIs DEF InOrder
  <2> QED
    BY <1>1, <2>1
<1>3. TurnBegin(c, t) \in 1..N+1 /\ TurnEnd(c, t) \in 1..N+1
  BY <1>2, TurnBegins
<1>4. TurnSize(c, t) \in Nat /\ TurnBegin(c, t) + TurnSize(c, t) = TurnEnd(c, t)
  BY <1>2, TurnSizeIs
<1>5. i \in 1..TurnSize(c, t) /\ p = TurnBegin(c, t) + i - 1
  <2>1. p \in Nat /\ N \in Nat /\ i = PositionInTurn(c, p) + 1
    BY <1>2
  <2> HIDE DEF i, N
  <2> QED
    BY <1>1, <1>3, <1>4, <2>1
<1> HIDE DEF i
<1>6. /\ PlanOf(c) \in Seq(Seq(Action)) /\ Len(PlanOf(c)) = K
      /\ t + 1 \in 1..K /\ PlanOf(c)[t + 1] \in Seq(Action) /\ Len(PlanOf(c)[t + 1]) = TurnSize(c, t)
      /\ \A j \in 1..TurnSize(c, t) : PlanOf(c)[t + 1][j] = c.acts[TurnBegin(c, t) + j - 1]
  BY <1>1, PlanIs
<1>7. DOMAIN PlanOf(c) = 1..K /\ DOMAIN PlanOf(c)[t + 1] = 1..TurnSize(c, t)
  BY <1>6
<1>8. PlanOf(c)[t + 1][i] = c.acts[p]
  BY <1>5, <1>6
<1> QED
  BY <1>1, <1>2, <1>4, <1>5, <1>6, <1>7, <1>8 DEF t, i

Replaced(c, p, a) == [c EXCEPT !.acts[p] = a]

LEMMA ReplacedPlan ==
  ASSUME NEW c, InOrder(c), NEW p \in 1..Len(c.acts), NEW a \in Action,
         NEW t, t = GetTurn(c, p), NEW i, i = PositionInTurn(c, p) + 1
  PROVE  PlanOf(Replaced(c, p, a)) = [PlanOf(c) EXCEPT ![t + 1] = [PlanOf(c)[t + 1] EXCEPT ![i] = a]]
<1> DEFINE s == [c.acts EXCEPT ![p] = a]
           y == PlanOf(c)[t + 1]
           x == [y EXCEPT ![i] = a]
<1>1. /\ t \in 0..Len(c.begins)-1 /\ t \in Nat /\ TurnSize(c, t) = Len(y) /\ TurnSize(c, t) \in Nat
      /\ i \in 1..TurnSize(c, t) /\ p = TurnBegin(c, t) + i - 1 /\ y \in Seq(Action)
      /\ TurnBegin(c, t) <= p /\ p < TurnEnd(c, t)
  BY PlaceIs
<1> HIDE DEF y
<1>2. c \in Containers /\ c.acts \in Seq(Action) /\ Len(c.acts) \in Nat
  BY ContainerIs DEF InOrder
<1>3. s \in Seq(Action) /\ Len(s) = Len(c.acts) /\ \A z \in 1..Len(c.acts) : s[z] = IF z = p THEN a ELSE c.acts[z]
  BY <1>2
<1>4. [c EXCEPT !.acts[p] = a] = [acts |-> s, begins |-> c.begins, fault |-> "none"]
  <2>1. [c EXCEPT !.acts[p] = a] = [c EXCEPT !.acts = s]
    BY Zenon
  <2> HIDE DEF s
  <2> QED
    BY <1>2, <2>1, SetActs DEF InOrder
<1> HIDE DEF s
<1>5. x \in Seq(Action) /\ Len(x) = TurnSize(c, t) /\ \A j \in 1..TurnSize(c, t) : x[j] = IF j = i THEN a ELSE y[j]
  BY <1>1
<1> HIDE DEF x
<1>6. TurnBegin(c, t) \in 1..Len(c.acts)+1 /\ TurnEnd(c, t) \in 1..Len(c.acts)+1
      /\ TurnBegin(c, t) + TurnSize(c, t) = TurnEnd(c, t)
  BY <1>1, TurnBegins, TurnSizeIs
<1>7. \A j \in 1..TurnSize(c, t) : y[j] = c.acts[TurnBegin(c, t) + j - 1]
  BY <1>1, PlanIs DEF y
<1>8. ASSUME NEW j \in 1..TurnSize(c, t) PROVE x[j] = s[TurnBegin(c, t) + j - 1]
  <2> DEFINE z == TurnBegin(c, t) + j - 1
  <2>1. z \in 1..Len(c.acts) /\ (z = p <=> j = i)
    <3> DEFINE B == TurnBegin(c, t)
               Z == TurnSize(c, t)
               N == Len(c.acts)
    <3>1. /\ B \in 1..N+1 /\ B + Z \in 1..N+1 /\ Z \in Nat /\ N \in Nat /\ p = B + i - 1 /\ z = B + j - 1
          /\ i \in 1..Z /\ j \in 1..Z
      BY <1>1, <1>2, <1>6
    <3> HIDE DEF B, Z, N, z
    <3>2. z \in 1..N /\ (z = p <=> j = i)
      BY <3>1
    <3> QED
      BY <3>2 DEF N
  <2>2. y[j] = c.acts[z]
    BY <1>7
  <2> HIDE DEF z
  <2>3. x[j] = s[z]
    BY <1>3, <1>5, <2>1, <2>2
  <2> QED
    BY <2>3 DEF z
<1>9. \A z \in 1..Len(c.acts) : (TurnBegin(c, t) <= z /\ z < TurnEnd(c, t)) \/ s[z] = c.acts[z]
  BY <1>1, <1>3
<1>10. PlanOf([acts |-> s, begins |-> c.begins, fault |-> "none"]) = [PlanOf(c) EXCEPT ![t + 1] = x]
  <2>1. t \in 0..Len(c.begins)-1 /\ s \in Seq(Action) /\ Len(s) = Len(c.acts) /\ x \in Seq(Action) /\ Len(x) = TurnSize(c, t)
    BY <1>1, <1>3, <1>5
  <2>2. \A j \in 1..TurnSize(c, t) : x[j] = s[TurnBegin(c, t) + j - 1]
    BY <1>8
  <2> QED
    BY <2>1, <2>2, <1>9, ActsPlan, SMTT(30)
<1> QED
  BY <1>4, <1>10, Zenon DEF x, y, Replaced

LEMMA SwappedPlan ==
  ASSUME NEW c, InOrder(c), NEW p \in 2..Len(c.acts), PositionInTurn(c, p) # 0,
         NEW t, t = GetTurn(c, p), NEW i, i = PositionInTurn(c, p) + 1
  PROVE  /\ i - 1 \in 1..Len(PlanOf(c)[t + 1]) /\ PlanOf(c)[t + 1][i - 1] = c.acts[p - 1]
         /\ PlanOf(Swapped(c, p)) =
              [PlanOf(c) EXCEPT ![t + 1] = [[PlanOf(c)[t + 1] EXCEPT ![i - 1] = c.acts[p]] EXCEPT ![i] = c.acts[p - 1]]]
<1> DEFINE s1 == [c.acts EXCEPT ![p] = c.acts[p - 1]]
           s == [s1 EXCEPT ![p - 1] = c.acts[p]]
           y == PlanOf(c)[t + 1]
           x1 == [y EXCEPT ![i - 1] = c.acts[p]]
           x == [x1 EXCEPT ![i] = c.acts[p - 1]]
<1>0. p \in 1..Len(c.acts) /\ p - 1 \in 1..Len(c.acts) /\ p - 1 # p
  OBVIOUS
<1>1. /\ t \in 0..Len(c.begins)-1 /\ t \in Nat /\ TurnSize(c, t) = Len(y) /\ TurnSize(c, t) \in Nat
      /\ i \in 1..TurnSize(c, t) /\ p = TurnBegin(c, t) + i - 1 /\ y \in Seq(Action)
      /\ TurnBegin(c, t) <= p /\ p < TurnEnd(c, t)
  BY <1>0, PlaceIs
<1> HIDE DEF y
<1>2. c \in Containers /\ c.acts \in Seq(Action) /\ Len(c.acts) \in Nat
  BY ContainerIs DEF InOrder
<1>3. s \in Seq(Action) /\ Len(s) = Len(c.acts)
      /\ \A z \in 1..Len(c.acts) : s[z] = IF z = p - 1 THEN c.acts[p] ELSE IF z = p THEN c.acts[p - 1] ELSE c.acts[z]
  <2>1. c.acts[p] \in Action /\ c.acts[p - 1] \in Action
    BY <1>0, <1>2
  <2>2. s1 \in Seq(Action) /\ Len(s1) = Len(c.acts) /\ \A z \in 1..Len(c.acts) : s1[z] = IF z = p THEN c.acts[p - 1] ELSE c.acts[z]
    BY <1>0, <1>2, <2>1
  <2> HIDE DEF s1
  <2> QED
    BY <1>0, <2>1, <2>2
<1>4. Swapped(c, p) = [acts |-> s, begins |-> c.begins, fault |-> "none"]
  <2>1. Swapped(c, p) = [c EXCEPT !.acts = s]
    <3>1. Swapped(c, p) = [[c EXCEPT !.acts = s1] EXCEPT !.acts = [[c EXCEPT !.acts = s1].acts EXCEPT ![p - 1] = c.acts[p]]]
      BY Zenon DEF Swapped
    <3>2. [c EXCEPT !.acts = s1] = [acts |-> s1, begins |-> c.begins, fault |-> c.fault]
      <4> HIDE DEF s1
      <4> QED
        BY <1>2, SetActs
    <3>3. [c EXCEPT !.acts = s] = [acts |-> s, begins |-> c.begins, fault |-> c.fault]
      <4> HIDE DEF s
      <4> QED
        BY <1>2, SetActs
    <3> HIDE DEF s1
    <3> QED
      BY <3>1, <3>2, <3>3
  <2> HIDE DEF s
  <2> QED
    BY <1>2, <2>1, SetActs DEF InOrder
<1> HIDE DEF s
<1>5. i - 1 \in 1..TurnSize(c, t)
  <2>1. i = PositionInTurn(c, p) + 1 /\ PositionInTurn(c, p) \in Nat
    BY <1>0, TurnOfAction
  <2> QED
    BY <1>1, <2>1
<1>6. x \in Seq(Action) /\ Len(x) = TurnSize(c, t)
      /\ \A j \in 1..TurnSize(c, t) : x[j] = IF j = i THEN c.acts[p - 1] ELSE IF j = i - 1 THEN c.acts[p] ELSE y[j]
  <2>1. c.acts[p] \in Action /\ c.acts[p - 1] \in Action
    BY <1>0, <1>2
  <2>2. x1 \in Seq(Action) /\ Len(x1) = TurnSize(c, t) /\ \A j \in 1..TurnSize(c, t) : x1[j] = IF j = i - 1 THEN c.acts[p] ELSE y[j]
    BY <1>1, <1>5, <2>1
  <2> HIDE DEF x1
  <2> QED
    BY <1>1, <2>1, <2>2
<1> HIDE DEF x
<1>7. TurnBegin(c, t) \in 1..Len(c.acts)+1 /\ TurnEnd(c, t) \in 1..Len(c.acts)+1
      /\ TurnBegin(c, t) + TurnSize(c, t) = TurnEnd(c, t)
  BY <1>1, TurnBegins, TurnSizeIs
<1>8. \A j \in 1..TurnSize(c, t) : y[j] = c.acts[TurnBegin(c, t) + j - 1]
  BY <1>1, PlanIs DEF y
<1>9. ASSUME NEW j \in 1..TurnSize(c, t) PROVE x[j] = s[TurnBegin(c, t) + j - 1]
  <2> DEFINE z == TurnBegin(c, t) + j - 1
  <2>1. z \in 1..Len(c.acts) /\ (z = p <=> j = i) /\ (z = p - 1 <=> j = i - 1)
    <3> DEFINE B == TurnBegin(c, t)
               Z == TurnSize(c, t)
               N == Len(c.acts)
    <3>1. /\ B \in 1..N+1 /\ B + Z \in 1..N+1 /\ Z \in Nat /\ N \in Nat /\ p = B + i - 1 /\ z = B + j - 1
          /\ i \in 1..Z /\ j \in 1..Z
      BY <1>1, <1>2, <1>7
    <3> HIDE DEF B, Z, N, z
    <3>2. z \in 1..N /\ (z = p <=> j = i) /\ (z = p - 1 <=> j = i - 1)
      BY <3>1, SMTT(30)
    <3> QED
      BY <3>2 DEF N
  <2>2. y[j] = c.acts[z]
    BY <1>8
  <2> HIDE DEF z
  <2>3. x[j] = s[z]
    BY <1>0, <1>3, <1>6, <2>1, <2>2
  <2> QED
    BY <2>3 DEF z
<1>10. TurnBegin(c, t) <= p - 1 /\ p - 1 < TurnEnd(c, t)
  BY <1>1, <1>2, <1>5, <1>7, SMTT(30)
<1>11. \A z \in 1..Len(c.acts) : (TurnBegin(c, t) <= z /\ z < TurnEnd(c, t)) \/ s[z] = c.acts[z]
  BY <1>1, <1>3, <1>10
<1>12. PlanOf([acts |-> s, begins |-> c.begins, fault |-> "none"]) = [PlanOf(c) EXCEPT ![t + 1] = x]
  <2>1. t \in 0..Len(c.begins)-1 /\ s \in Seq(Action) /\ Len(s) = Len(c.acts) /\ x \in Seq(Action) /\ Len(x) = TurnSize(c, t)
    BY <1>1, <1>3, <1>6
  <2>2. \A j \in 1..TurnSize(c, t) : x[j] = s[TurnBegin(c, t) + j - 1]
    BY <1>9
  <2> QED
    <3> HIDE DEF x1, s1
    <3>1. \A y0 \in 1..Len(c.acts) : (TurnBegin(c, t) <= y0 /\ y0 < TurnEnd(c, t)) \/ s[y0] = c.acts[y0]
      BY <1>11
    <3> QED
      BY <2>1, <2>2, <3>1, ActsPlan, SMTT(60)
<1>13. y[i - 1] = c.acts[p - 1]
  <2>1. TurnBegin(c, t) + (i - 1) - 1 = p - 1
    BY <1>1, <1>2, <1>7
  <2> QED
    BY <1>5, <1>8, <2>1
<1>14. i - 1 \in 1..Len(y)
  BY <1>1, <1>5
<1> QED
  BY <1>4, <1>12, <1>13, <1>14, Zenon DEF x, x1, y

-----------------------------------------------------------------------------
(* The steps of the owner are steps of TurnPlans.                                   *)
\* The plans at the owner, as TurnPlans has them.
Now == [t \in 1..NumTurns(mine) |-> SubSeq(mine.acts, TurnBegin(mine, t - 1), TurnEnd(mine, t - 1) - 1)]

LEMMA NowIs == Now = PlanOf(mine)
BY DEF Now, PlanOf

LEMMA NowThen == Now' = PlanOf(mine')
BY DEF Now, PlanOf

LEMMA TrimIs ==
  ASSUME NEW P \in Seq(Seq(Action)), NEW n \in 0..Len(P), n = 0 \/ P[n] # <<>>,
         \A i \in 1..Len(P) : i > n => P[i] = <<>>
  PROVE  Plans!Trim(P) = SubSeq(P, 1, n)
<1> DEFINE I == {i \in 1..Len(P) : P[i] # <<>>}
           last == IF I # {} THEN Max(I) ELSE 0
<1>1. Plans!Trim(P) = SubSeq(P, 1, last)
  BY DEF Plans!Trim, Plans!SelectLastInSeq, Plans!Max, Max
<1>2. last = n
  <2>0. Len(P) \in Nat /\ n \in Nat
    OBVIOUS
  <2>1. CASE n = 0
    <3>1. I = {}
      BY <2>0, <2>1
    <3> QED
      BY <2>1, <3>1
  <2>2. CASE n # 0
    <3>1. n \in I /\ I \in SUBSET (1..Len(P))
      BY <2>0, <2>2
    <3>2. \A i \in I : i <= n /\ i \in Nat
      BY <2>0
    <3> HIDE DEF I
    <3>3. Max(I) \in I /\ n <= Max(I)
      BY <2>0, <3>1, MaxOfNumbers
    <3>4. Max(I) = n
      BY <2>0, <3>2, <3>3
    <3> QED
      BY <3>1, <3>4
  <2> QED
    BY <2>1, <2>2
<1> QED
  BY <1>1, <1>2

LEMMA TrimFull ==
  ASSUME NEW P \in Seq(Seq(Action)), Len(P) = 0 \/ P[Len(P)] # <<>>
  PROVE  Plans!Trim(P) = P
<1> DEFINE n == Len(P)
           S == Seq(Action)
<1>1. n \in 0..Len(P) /\ \A i \in 1..Len(P) : ~(i > n)
  OBVIOUS
<1>2. Plans!Trim(P) = SubSeq(P, 1, n)
  <2> HIDE DEF n
  <2>1. n = Len(P)
    BY DEF n
  <2> QED
    BY <1>1, <2>1, TrimIs
<1>3. SubSeq(P, 1, n) = P
  <2>1. P \in Seq(S) /\ n \in 0..Len(P) /\ n = Len(P)
    OBVIOUS
  <2> HIDE DEF n, S
  <2>2. SubSeq(P, 1, n) \in Seq(S) /\ Len(SubSeq(P, 1, n)) = n
    BY <2>1, BeginIs
  <2>3. \A i \in 1..n : SubSeq(P, 1, n)[i] = P[i]
    BY <2>1, BeginIs
  <2> QED
    BY <2>1, <2>2, <2>3, SameSequence
<1> QED
  BY <1>2, <1>3

\* The last turn has something in it.
LEMMA LastTurn ==
  ASSUME NEW c, InOrder(c)
  PROVE  Len(PlanOf(c)) = 0 \/ PlanOf(c)[Len(PlanOf(c))] # <<>>
<1> DEFINE K == Len(c.begins)
           N == Len(c.acts)
<1>1. Rising(c.begins, N)
  BY OrderRises
<1>2. N \in Nat /\ K \in Nat /\ c.begins \in [1..K -> 1..N]
  BY <1>1 DEF Rising
<1>3. Len(PlanOf(c)) = K
  BY PlanIs
<1>4. CASE K # 0
  <2> DEFINE v == K - 1
  <2>1. v \in 0..K-1 /\ v \in Nat /\ v + 1 = K /\ v < K /\ v + 1 \in Nat /\ v + 1 >= K /\ v + 1 \in 1..K
    BY <1>2, <1>4
  <2> HIDE DEF v
  <2>2. TurnBegin(c, v) = c.begins[v + 1] /\ TurnEnd(c, v) = TurnBegin(c, v + 1) /\ TurnBegin(c, v + 1) = N + 1
    BY <2>1, TurnBegins
  <2>3. TurnSize(c, v) # 0
    <3>1. TurnSize(c, v) = 0 <=> TurnEnd(c, v) = TurnBegin(c, v)
      BY <2>1, TurnSizeIs
    <3>2. c.begins[v + 1] \in 1..N
      BY <1>2, <2>1
    <3> QED
      BY <1>2, <2>2, <3>1, <3>2
  <2>4. Len(PlanOf(c)[v + 1]) = TurnSize(c, v)
    BY <2>1, PlanIs
  <2>5. Len(<<>>) = 0
    OBVIOUS
  <2> QED
    BY <1>3, <2>1, <2>3, <2>4, <2>5
<1> QED
  BY <1>3, <1>4

LEMMA EmptyPlan == PlanOf(Empty) = <<>>
<1>1. NumTurns(Empty) = 0
  BY DEF Empty, NumTurns
<1>2. 1..0 = {}
  OBVIOUS
<1> QED
  BY <1>1, <1>2 DEF PlanOf

\* What is left when an action is erased.
LEMMA ErasedPlan ==
  ASSUME NEW c, InOrder(c), NEW p \in 1..Len(c.acts), ~LosesTurn(c, p),
         NEW t, t = GetTurn(c, p), NEW i, i = PositionInTurn(c, p) + 1
  PROVE  /\ InOrder(Erase(c, p))
         /\ PlanOf(Erase(c, p)) = Plans!Trim([PlanOf(c) EXCEPT ![t + 1] = RemoveAt(PlanOf(c)[t + 1], i)])
<1> DEFINE K == Len(c.begins)
           N == Len(c.acts)
           P == PlanOf(c)
           x == RemoveAt(P[t + 1], i)
           Q == [P EXCEPT ![t + 1] = x]
           S == Seq(Action)
<1>0. N \in Nat /\ K \in Nat
  BY ContainerIs DEF InOrder
<1>1. /\ t \in 0..K-1 /\ t \in Nat /\ t + 1 \in 1..Len(P)
      /\ TurnBegin(c, t) <= p /\ p < TurnEnd(c, t)
      /\ TurnSize(c, t) = Len(P[t + 1]) /\ TurnSize(c, t) \in Nat
      /\ i \in 1..TurnSize(c, t) /\ p = TurnBegin(c, t) + i - 1
      /\ P[t + 1] \in Seq(Action)
  BY PlaceIs
<1>2. Erase(c, p).fault = "none" /\ InOrder(Erase(c, p))
  <2>1. Erase(c, p).fault = "none"
    BY EraseFails
  <2> QED
    BY <2>1, EraseKeeps, ListsIs
<1>3. P \in Seq(S) /\ Len(P) = K /\ \A v \in 0..K-1 : v + 1 \in 1..K /\ Len(P[v + 1]) = TurnSize(c, v) /\ P[v + 1] \in Seq(Action)
  BY PlanIs
<1>4. x \in Seq(Action) /\ Len(x) = TurnSize(c, t) - 1
  <2> DEFINE y == P[t + 1]
  <2>1. y \in Seq(Action) /\ i \in 1..Len(y)
    BY <1>1
  <2> HIDE DEF y
  <2>2. RemoveAt(y, i) \in Seq(Action) /\ Len(RemoveAt(y, i)) = Len(y) - 1
    BY <2>1, RemoveAtIs
  <2> QED
    BY <1>1, <2>2 DEF y
<1>5. Q \in Seq(S) /\ Len(Q) = K /\ \A u \in 1..K : Q[u] = IF u = t + 1 THEN x ELSE P[u]
  <2> DEFINE w == t + 1
  <2>1. P \in Seq(Seq(Action)) /\ w \in 1..Len(P) /\ x \in Seq(Action)
    BY <1>1, <1>3, <1>4
  <2> HIDE DEF P, x, w
  <2>2. /\ [P EXCEPT ![w] = x] \in Seq(Seq(Action)) /\ Len([P EXCEPT ![w] = x]) = Len(P)
        /\ \A u \in 1..Len(P) : [P EXCEPT ![w] = x][u] = IF u = w THEN x ELSE P[u]
    BY <2>1, WithTurn
  <2> QED
    BY <1>3, <2>2 DEF w
<1> SUFFICES PlanOf(Erase(c, p)) = Plans!Trim(Q)
  BY <1>2
<1>6. CASE N = 1 /\ Erase(c, p) = Empty
  <2>1. ASSUME NEW u \in 1..K PROVE Q[u] = <<>>
    <3> DEFINE v == u - 1
    <3>1. v \in 0..K-1 /\ v \in Nat /\ v + 1 = u
      BY <1>0
    <3> HIDE DEF v
    <3>2. /\ TurnBegin(c, v) \in 1..N+1 /\ TurnEnd(c, v) \in 1..N+1 /\ TurnSize(c, v) \in Nat
          /\ TurnBegin(c, v) + TurnSize(c, v) = TurnEnd(c, v)
      BY <3>1, TurnBegins, TurnSizeIs
    <3>3. CASE v = t
      <4>1. Q[u] = x
        BY <1>5, <3>1, <3>3
      <4>2. TurnSize(c, t) = 1
        <5>1. TurnSize(c, t) \in Nat /\ TurnSize(c, t) >= 1
          BY <1>1
        <5>2. TurnBegin(c, t) \in 1..2 /\ TurnBegin(c, t) + TurnSize(c, t) \in 1..2
          BY <1>6, <3>2, <3>3
        <5> QED
          BY <5>1, <5>2
      <4>3. Len(x) = 0
        BY <1>4, <4>2
      <4> HIDE DEF x, Q
      <4> QED
        BY <1>4, <4>1, <4>3
    <3>4. CASE v # t
      <4>1. Q[u] = P[u]
        BY <1>1, <1>5, <3>1, <3>4, SMTT(30)
      <4>2. TurnSize(c, v) = 0
        <5> SUFFICES ASSUME TurnSize(c, v) # 0 PROVE FALSE
          OBVIOUS
        <5>1. TurnBegin(c, v) <= p /\ p < TurnEnd(c, v)
          BY <1>6, <3>2
        <5>2. GetTurn(c, p) = v
          BY <3>1, <5>1, OneTurn
        <5> QED
          BY <3>4, <5>2
      <4>3. Len(P[u]) = 0 /\ P[u] \in Seq(Action)
        BY <1>3, <3>1, <4>2
      <4> HIDE DEF P, Q
      <4> QED
        BY <4>1, <4>3
    <3> QED
      BY <3>3, <3>4
  <2>2. Plans!Trim(Q) = SubSeq(Q, 1, 0)
    <3> HIDE DEF Q
    <3>1. 0 \in 0..Len(Q) /\ \A u \in 1..Len(Q) : Q[u] = <<>>
      BY <1>0, <1>5, <2>1
    <3> QED
      BY <1>5, <3>1, TrimIs
  <2>3. SubSeq(Q, 1, 0) = <<>>
    <3> HIDE DEF Q
    <3> QED
      BY <1>5
  <2> QED
    BY <1>6, <2>2, <2>3, EmptyPlan
<1>7. CASE N > 1 /\ p = N /\ c.begins[K] = p /\ Erase(c, p) = Shortened(c)
  <2>1. /\ K >= 2 /\ Len(P[K]) = 1 /\ P[K - 1] # <<>>
        /\ PlanOf(Shortened(c)) = SubSeq(P, 1, K - 1)
    BY <1>7, ShortenedPlan
  <2>2. t = K - 1
    <3> DEFINE v == K - 1
    <3>1. v \in Nat /\ v < K /\ v + 1 = K /\ v + 1 \in Nat /\ v + 1 >= K
      BY <1>0, <2>1
    <3> HIDE DEF v
    <3>2. TurnBegin(c, v) = c.begins[v + 1] /\ TurnEnd(c, v) = TurnBegin(c, v + 1) /\ TurnBegin(c, v + 1) = N + 1
      BY <3>1, TurnBegins
    <3>3. TurnBegin(c, v) <= p /\ p < TurnEnd(c, v)
      BY <1>0, <1>7, <3>1, <3>2
    <3> QED
      BY <3>1, <3>3, OneTurn DEF v
  <2>3. Q[K] = <<>>
    <3>0. K \in 1..K /\ K = t + 1
      <4>1. K \in Nat /\ K >= 2 /\ t = K - 1
        BY <1>0, <2>1, <2>2
      <4> HIDE DEF K
      <4> QED
        BY <4>1
    <3>1. Q[K] = x /\ Len(x) = 0
      <4>1. Len(P[t + 1]) = 1
        BY <2>1, <3>0
      <4>2. Q[K] = x
        BY <1>5, <3>0
      <4> HIDE DEF Q, x, P
      <4>3. Len(x) = 0
        BY <1>1, <1>4, <4>1
      <4> QED
        BY <4>2, <4>3
    <3> HIDE DEF Q, x
    <3> QED
      BY <1>4, <3>1
  <2> DEFINE n == K - 1
  <2>4. n \in 0..K /\ n \in 1..K /\ n # t + 1 /\ \A u \in 1..n : u \in 1..K /\ u # t + 1
    BY <1>0, <2>1, <2>2
  <2>5. Q[n] # <<>>
    BY <1>5, <2>1, <2>4
  <2>6. \A u \in 1..K : u > n => u = K
    BY <1>0
  <2> HIDE DEF n
  <2>7. Plans!Trim(Q) = SubSeq(Q, 1, n)
    <3>1. n \in 0..Len(Q) /\ \A u \in 1..Len(Q) : u > n => Q[u] = <<>>
      BY <1>5, <2>3, <2>4, <2>6
    <3> HIDE DEF Q
    <3> QED
      BY <1>5, <2>5, <3>1, TrimIs
  <2>8. SubSeq(Q, 1, n) = SubSeq(P, 1, n)
    <3>0. n \in 0..Len(Q) /\ n \in 0..Len(P) /\ Q \in Seq(S) /\ P \in Seq(S)
      BY <1>3, <1>5, <2>4
    <3> HIDE DEF Q, P, S
    <3>1. SubSeq(Q, 1, n) \in Seq(S) /\ Len(SubSeq(Q, 1, n)) = n
      BY <3>0, BeginIs
    <3>2. SubSeq(P, 1, n) \in Seq(S) /\ Len(SubSeq(P, 1, n)) = n
      BY <3>0, BeginIs
    <3>3. \A u \in 1..n : SubSeq(Q, 1, n)[u] = Q[u]
      BY <3>0, BeginIs
    <3>4. \A u \in 1..n : SubSeq(P, 1, n)[u] = P[u]
      BY <3>0, BeginIs
    <3>5. \A u \in 1..n : Q[u] = P[u]
      BY <1>5, <2>4
    <3>6. \A u \in 1..Len(SubSeq(Q, 1, n)) : SubSeq(Q, 1, n)[u] = SubSeq(P, 1, n)[u]
      BY <3>1, <3>3, <3>4, <3>5
    <3> QED
      BY <3>1, <3>2, <3>6, SameSequence
  <2> QED
    BY <1>7, <2>1, <2>7, <2>8 DEF n
<1>8. CASE /\ TurnSize(c, GetTurn(c, p)) > 1 \/ (GetTurn(c, p) = 0 /\ N > 1)
           /\ Erase(c, p) = Cut(c, GetTurn(c, p), p)
  <2>1. i = p - TurnBegin(c, t) + 1
    <3>1. TurnBegin(c, t) \in 1..N+1
      BY <1>1, TurnBegins
    <3>2. p \in Nat /\ i \in Nat
      BY <1>1
    <3> QED
      BY <1>0, <1>1, <3>1, <3>2
  <2>2. PlanOf(Cut(c, t, p)) = Q
    <3>1. TurnSize(c, t) > 1 \/ (t = 0 /\ Len(c.acts) > 1)
      BY <1>8
    <3>2. t \in 0..Len(c.begins)-1 /\ TurnBegin(c, t) <= p /\ p < TurnEnd(c, t)
      BY <1>1
    <3> QED
      BY <2>1, <3>1, <3>2, CutPlan, SMTT(60)
  <2>3. PlanOf(Erase(c, p)) = Q
    BY <1>8, <2>2
  <2>4. Len(Q) = 0 \/ Q[Len(Q)] # <<>>
    <3> HIDE DEF Q
    <3> QED
      BY <1>2, <2>3, LastTurn
  <2>5. Plans!Trim(Q) = Q
    <3> HIDE DEF Q
    <3> QED
      BY <1>5, <2>4, TrimFull
  <2> QED
    BY <2>3, <2>5
<1>9. ~ \E why \in Faults \ {"none"} : Erase(c, p) = Fails(c, why)
  <2> SUFFICES ASSUME NEW why \in Faults \ {"none"}, Erase(c, p) = Fails(c, why) PROVE FALSE
    OBVIOUS
  <2>1. Fails(c, why).fault = why
    BY FailsIs
  <2> QED
    BY <1>2, <2>1
<1> QED
  BY <1>6, <1>7, <1>8, <1>9, EraseIs

\* Every turn but the one being played has something in it.
LEMMA NoGapsIs ==
  ASSUME NEW c, InOrder(c)
  PROVE  Plans!NoGaps(PlanOf(c))
<1> DEFINE K == Len(c.begins)
           P == PlanOf(c)
<1>1. Len(P) = K /\ K \in Nat
  BY PlanIs
<1> HIDE DEF P
<1>2. ASSUME NEW t \in 2..Len(P) PROVE P[t] # <<>>
  <2> DEFINE v == t - 1
  <2>1. v \in 0..K-1 /\ v \in Nat /\ v >= 1 /\ v < K /\ v + 1 = t
    BY <1>1
  <2> HIDE DEF v, K
  <2>2. TurnBegin(c, v) < TurnEnd(c, v)
    BY <2>1, TurnBegins DEF K
  <2>3. TurnSize(c, v) # 0
    <3>1. TurnSize(c, v) = 0 <=> TurnEnd(c, v) = TurnBegin(c, v)
      BY <2>1, TurnSizeIs
    <3>2. v \in Nat
      BY <2>1
    <3>3. TurnBegin(c, v) \in 1..Len(c.acts)+1 /\ Len(c.acts) \in Nat
      BY <3>2, TurnBegins, Zenon
    <3> QED
      BY <2>2, <3>1, <3>3
  <2>4. Len(P[v + 1]) = TurnSize(c, v)
    BY <2>1, PlanIs DEF K, P
  <2>5. Len(<<>>) = 0
    OBVIOUS
  <2> QED
    BY <2>1, <2>3, <2>4, <2>5
<1> QED
  BY <1>2 DEF Plans!NoGaps, P

\* No unit is an action.
ModelValues == Units \cap Action = {}

LEMMA AddIs ==
  ASSUME NEW P, NEW R, Now = P, Now' = R, NEW t \in 1..(Len(P) + 2), NEW k \in {0, 1},
         t <= Len(P) + 1 \/ t = 2,
         Len(R) = IF t + k > Len(P) THEN t + k ELSE Len(P),
         \A i \in DOMAIN R :
           /\ Plans!IsPrefix(Plans!Turn(P, i), R[i])
           /\ Len(R[i]) = Len(Plans!Turn(P, i)) + IF i \in t..(t + k) THEN 1 ELSE 0,
         UNCHANGED gone
  PROVE  Plans!Add
<1>1. \E u \in 1..(Len(Now) + 2), n \in {0, 1} :
        /\ u <= Len(Now) + 1 \/ u = 2
        /\ Len(Now') = IF u + n > Len(Now) THEN u + n ELSE Len(Now)
        /\ \A i \in DOMAIN Now' :
             /\ Plans!IsPrefix(Plans!Turn(Now, i), Now'[i])
             /\ Len(Now'[i]) = Len(Plans!Turn(Now, i)) + IF i \in u..(u + n) THEN 1 ELSE 0
        /\ UNCHANGED gone
  OBVIOUS
<1> QED
  BY <1>1, Zenon DEF Plans!Add, Now

LEMMA DropIs ==
  ASSUME NEW P, NEW R, Now = P, Now' = R, NEW t \in DOMAIN P, NEW i \in DOMAIN P[t],
         R = Plans!Trim([P EXCEPT ![t] = RemoveAt(P[t], i)]), Plans!NoGaps(R),
         gone' = gone \/ gone' = gone \cup ({P[t][i].unit} \ {None})
  PROVE  Plans!Drop
<1>1. Plans!RemoveAt(P[t], i) = RemoveAt(P[t], i)
  BY DEF Plans!RemoveAt, RemoveAt
<1>2. R = Plans!Trim([P EXCEPT ![t] = Plans!RemoveAt(P[t], i)])
  BY <1>1, Zenon
<1>3. \E u \in DOMAIN Now : \E j \in DOMAIN Now[u] :
        /\ Now' = Plans!Trim([Now EXCEPT ![u] = Plans!RemoveAt(Now[u], j)])
        /\ Plans!NoGaps(Now')
        /\ gone' = gone \/ gone' = gone \cup ({Now[u][j].unit} \ {None})
  BY <1>2, Zenon
<1> QED
  BY <1>3, Zenon DEF Plans!Drop, Now

LEMMA ReviseIs ==
  ASSUME NEW P, NEW R, Now = P, Now' = R, NEW t \in DOMAIN P, NEW i \in DOMAIN P[t],
         NEW a \in Action, a.unit = P[t][i].unit,
         R = [P EXCEPT ![t] = [P[t] EXCEPT ![i] = a]], UNCHANGED gone
  PROVE  Plans!Revise
<1>1. R = [P EXCEPT ![t][i] = a]
  BY Zenon
<1>2. a \in Plans!Action
  BY Zenon DEF Plans!Action, Action
<1>3. \E u \in DOMAIN Now : \E j \in DOMAIN Now[u], x \in Plans!Action :
        /\ x.unit = Now[u][j].unit
        /\ Now' = [Now EXCEPT ![u][j] = x]
        /\ UNCHANGED gone
  BY <1>1, <1>2, Zenon
<1> QED
  BY <1>3, Zenon DEF Plans!Revise, Now

LEMMA SwapIs ==
  ASSUME NEW P, NEW R, Now = P, Now' = R, NEW t \in DOMAIN P, NEW i \in 2..Len(P[t]),
         Actor(P[t][i - 1]) = Actor(P[t][i]) => P[t][i - 1].unit \in gone,
         R = [P EXCEPT ![t] = [[P[t] EXCEPT ![i - 1] = P[t][i]] EXCEPT ![i] = P[t][i - 1]]],
         UNCHANGED gone
  PROVE  Plans!Swap
<1>1. [P EXCEPT ![t] = [[P[t] EXCEPT ![i - 1] = P[t][i]] EXCEPT ![i] = P[t][i - 1]]]
      = [P EXCEPT ![t][i - 1] = P[t][i], ![t][i] = P[t][i - 1]]
  BY Zenon
<1>2. \A x : Plans!Actor(x) = Actor(x)
  BY Zenon DEF Plans!Actor, Actor
<1>3. \E u \in DOMAIN Now : \E j \in 2..Len(Now[u]) :
        /\ Plans!Actor(Now[u][j - 1]) = Plans!Actor(Now[u][j]) => Now[u][j - 1].unit \in gone
        /\ Now' = [Now EXCEPT ![u][j - 1] = Now[u][j], ![u][j] = Now[u][j - 1]]
        /\ UNCHANGED gone
  BY <1>1, <1>2, Zenon
<1> QED
  BY <1>3, Zenon DEF Plans!Swap, Now

LEMMA ClearIs ==
  ASSUME Now' = <<>>, UNCHANGED gone
  PROVE  Plans!Clear
BY Zenon DEF Plans!Clear, Now

LEMMA DieIs ==
  ASSUME Now' = Now, NEW u \in Units \ gone, gone' = gone \cup {u}
  PROVE  Plans!Die
BY Zenon DEF Plans!Die, Now

LEMMA StepIs ==
  ASSUME Plans!Add \/ Plans!Drop \/ Plans!Revise \/ Plans!Swap \/ Plans!Clear \/ Plans!Die
  PROVE  Plans!Next
BY Zenon DEF Plans!Next

\* The plans R are the plans P and one more action in each of the turns lo to hi.
Turn(P, i) == IF i \in DOMAIN P THEN P[i] ELSE <<>>
More(P, R, lo, hi) ==
  /\ R \in Seq(Seq(Action)) /\ Len(R) = (IF hi > Len(P) THEN hi ELSE Len(P))
  /\ \A i \in 1..Len(R) :
       /\ Len(R[i]) = Len(Turn(P, i)) + (IF i \in lo..hi THEN 1 ELSE 0)
       /\ \A j \in 1..Len(Turn(P, i)) : R[i][j] = Turn(P, i)[j]

LEMMA TurnIsPlans ==
  ASSUME NEW P, NEW i
  PROVE  Plans!Turn(P, i) = Turn(P, i)
BY Zenon DEF Plans!Turn, Turn

LEMMA TurnHas ==
  ASSUME NEW P \in Seq(Seq(Action)), NEW i
  PROVE  /\ Turn(P, i) \in Seq(Action) /\ Len(Turn(P, i)) \in Nat
         /\ i \in 1..Len(P) => Turn(P, i) = P[i]
         /\ i \notin 1..Len(P) => Turn(P, i) = <<>> /\ Len(Turn(P, i)) = 0
BY DEF Turn

LEMMA MoreIsPrefix ==
  ASSUME NEW P \in Seq(Seq(Action)), NEW R, NEW lo, NEW hi, More(P, R, lo, hi), NEW i \in DOMAIN R
  PROVE  /\ Plans!IsPrefix(Plans!Turn(P, i), R[i])
         /\ Len(R[i]) = Len(Plans!Turn(P, i)) + IF i \in lo..hi THEN 1 ELSE 0
<1> DEFINE s == Turn(P, i)
           r == R[i]
<1>1. /\ s \in Seq(Action) /\ r \in Seq(Action) /\ Len(r) = Len(s) + (IF i \in lo..hi THEN 1 ELSE 0)
      /\ \A j \in 1..Len(s) : r[j] = s[j]
  <2>1. R \in Seq(Seq(Action)) /\ i \in 1..Len(R)
    BY DEF More
  <2> QED
    BY <2>1, TurnHas DEF More
<1>2. Plans!Turn(P, i) = s
  BY TurnIsPlans
<1> HIDE DEF s, r
<1> DEFINE n == Len(s)
<1>3. n \in 0..Len(r) /\ n \in 0..Len(s) /\ n \in Nat
  BY <1>1
<1> HIDE DEF n
<1>4. SubSeq(s, 1, n) \in Seq(Action) /\ Len(SubSeq(s, 1, n)) = n /\ \A j \in 1..n : SubSeq(s, 1, n)[j] = s[j]
  BY <1>1, <1>3, BeginIs
<1>5. SubSeq(r, 1, n) \in Seq(Action) /\ Len(SubSeq(r, 1, n)) = n /\ \A j \in 1..n : SubSeq(r, 1, n)[j] = r[j]
  BY <1>1, <1>3, BeginIs
<1>6. SubSeq(s, 1, n) = SubSeq(r, 1, n)
  <2>1. \A j \in 1..n : SubSeq(s, 1, n)[j] = SubSeq(r, 1, n)[j]
    BY <1>1, <1>4, <1>5 DEF n
  <2> DEFINE x == SubSeq(s, 1, n)
             y == SubSeq(r, 1, n)
  <2>2. x \in Seq(Action) /\ y \in Seq(Action) /\ Len(x) = Len(y) /\ \A j \in 1..Len(x) : x[j] = y[j]
    BY <1>4, <1>5, <2>1
  <2> HIDE DEF x, y
  <2>3. x = y
    BY <2>2, SameSequence
  <2> QED
    BY <2>3 DEF x, y
<1>7. Len(s) <= Len(r)
  BY <1>3 DEF n
<1>8. SubSeq(s, 1, Len(s)) = SubSeq(r, 1, Len(s))
  BY <1>6 DEF n
<1>9. Plans!IsPrefix(s, r)
  BY <1>7, <1>8, Zenon DEF Plans!IsPrefix
<1> QED
  BY <1>1, <1>2, <1>9, Zenon DEF r

LEMMA InsertLast ==
  ASSUME NEW S, NEW s \in Seq(S), NEW n, n = Len(s) + 1, NEW e \in S
  PROVE  \A j \in 1..Len(s) : InsertAt(s, n, e)[j] = s[j]
<1> DEFINE m == n
<1>0. m = Len(s) + 1
  OBVIOUS
<1>1. m \in 1..Len(s)+1
  OBVIOUS
<1> HIDE DEF m
<1>2. \A j \in 1..Len(s)+1 : InsertAt(s, m, e)[j] = IF j < m THEN s[j] ELSE IF j = m THEN e ELSE s[j - 1]
  BY <1>1, InsertAtIs
<1>3. \A j \in 1..Len(s) : j \in 1..Len(s)+1 /\ j < m
  BY <1>0
<1>4. \A j \in 1..Len(s) : InsertAt(s, m, e)[j] = s[j]
  BY <1>2, <1>3
<1> QED
  BY <1>4 DEF m

LEMMA QueueMore ==
  ASSUME NEW c, InOrder(c), NEW t, MayPlan(c, t), NEW a \in Action
  PROVE  /\ More(PlanOf(c), PlanOf(Queue(c, t, a)), t + 1, t + 1)
         /\ t + 1 \in Nat /\ t + 1 >= 1 /\ (t + 1 <= Len(PlanOf(c)) + 1 \/ t + 1 = 2)
<1> DEFINE K == Len(c.begins)
           P == PlanOf(c)
           R == PlanOf(Queue(c, t, a))
           S == Seq(Action)
<1>1. P \in Seq(Seq(Action)) /\ Len(P) = K /\ K \in Nat
  BY PlanIs
<1>2. t \in Nat /\ (t <= K \/ (t = 1 /\ K = 0))
  BY DEF MayPlan
<1>3. <<a>> \in Seq(Action) /\ Len(<<a>>) = 1 /\ <<>> \in Seq(Action) /\ Len(<<>>) = 0
  OBVIOUS
<1>4. CASE t < K
  <2> DEFINE i == TurnSize(c, t) + 1
             p == TurnEnd(c, t)
             x == P[t + 1]
             y == InsertAt(x, i, a)
  <2>1. TurnSize(c, t) \in Nat /\ TurnBegin(c, t) + TurnSize(c, t) = TurnEnd(c, t)
    BY <1>2, TurnSizeIs
  <2>2. TurnBegin(c, t) \in Nat
    BY <1>2, TurnBegins
  <2>3. i \in 1..TurnSize(c, t)+1 /\ p = TurnBegin(c, t) + i - 1
    <3> DEFINE z == TurnSize(c, t)
               b == TurnBegin(c, t)
    <3> HIDE DEF z, b
    <3>1. z \in Nat /\ b \in Nat /\ b + z = p
      BY <2>1, <2>2 DEF z, b
    <3>2. z + 1 \in 1..z+1 /\ p = b + (z + 1) - 1
      BY <3>1
    <3> QED
      BY <3>2 DEF z, b
  <2>4. Queue(c, t, a) = Grown(c, t, p, a)
    BY <1>2, <1>4, QueueGrows
  <2> HIDE DEF p
  <2>5. R = [P EXCEPT ![t + 1] = y]
    BY <1>2, <1>4, <2>3, <2>4, GrownPlan
  <2>6. t \in 0..K-1 /\ t + 1 \in 1..K
    BY <1>1, <1>2, <1>4
  <2>7. x \in Seq(Action) /\ Len(x) = TurnSize(c, t) /\ Len(x) \in Nat
    BY <2>6, PlanIs
  <2> HIDE DEF x, R, P, K
  <2>8. i = Len(x) + 1 /\ i \in 1..Len(x)+1
    BY <2>7
  <2> HIDE DEF i
  <2>9. y \in Seq(Action) /\ Len(y) = Len(x) + 1
    BY <2>7, <2>8, InsertAtIs
  <2>11. \A j \in 1..Len(x) : y[j] = x[j]
    BY <2>7, <2>8, InsertLast
  <2> HIDE DEF y
  <2>12. R \in Seq(Seq(Action)) /\ Len(R) = Len(P) /\ \A u \in 1..Len(P) : R[u] = IF u = t + 1 THEN y ELSE P[u]
    BY <1>1, <2>5, <2>6, <2>9, WithTurn
  <2>13. \A u \in 1..Len(P) : Turn(P, u) = P[u] /\ Len(Turn(P, u)) \in Nat
    BY <1>1, TurnHas
  <2>14. ~(t + 1 > Len(P))
    BY <1>1, <1>2, <1>4
  <2>15. \A u \in Nat : u \in (t + 1)..(t + 1) <=> u = t + 1
    BY <1>2
  <2>16. Turn(P, t + 1) = x
    BY <1>1, <2>6, <2>13 DEF x
  <2>17. ASSUME NEW u \in 1..Len(R)
         PROVE  /\ Len(R[u]) = Len(Turn(P, u)) + (IF u \in (t + 1)..(t + 1) THEN 1 ELSE 0)
                /\ \A j \in 1..Len(Turn(P, u)) : R[u][j] = Turn(P, u)[j]
    <3>1. CASE u = t + 1
      BY <2>9, <2>11, <2>12, <2>15, <2>16, <3>1
    <3>2. CASE u # t + 1
      BY <2>12, <2>13, <2>15, <3>2
    <3> QED
      BY <3>1, <3>2
  <2>18. More(P, R, t + 1, t + 1)
    BY <2>12, <2>14, <2>17 DEF More
  <2>19. t + 1 \in Nat /\ t + 1 >= 1 /\ t + 1 <= Len(P) + 1
    BY <1>1, <1>2, <1>4
  <2> QED
    BY <2>18, <2>19 DEF P, R
<1>5. CASE t = K \/ (t = 1 /\ K = 0)
  <2>1. Queue(c, t, a) = Opened(c, t, a)
    BY <1>2, <1>5, QueueOpens
  <2>2. R = IF t = 1 /\ K = 0 THEN <<<<>>, <<a>>>> ELSE Append(P, <<a>>)
    BY <1>2, <1>5, <2>1, OpenedPlan
  <2> HIDE DEF P, R, K
  <2>3. CASE t = 1 /\ K = 0
    <3>1. P = <<>> /\ R = <<<<>>, <<a>>>> /\ Len(P) = 0 /\ Len(R) = 2 /\ R[1] = <<>> /\ R[2] = <<a>>
      BY <1>1, <2>2, <2>3
    <3>2. R \in Seq(Seq(Action))
      BY <1>3, <3>1
    <3>3. \A u \in 1..2 : Turn(P, u) = <<>> /\ Len(Turn(P, u)) = 0
      <4>1. \A u : u \notin 1..Len(P)
        BY <3>1
      <4> QED
        BY <1>1, <4>1, TurnHas
    <3>4. t + 1 = 2
      BY <2>3
    <3>5. More(P, R, 2, 2)
      BY <1>3, <3>1, <3>2, <3>3 DEF More
    <3> QED
      BY <3>4, <3>5 DEF P, R
  <2>4. CASE ~(t = 1 /\ K = 0)
    <3>1. R = Append(P, <<a>>) /\ t = Len(P)
      BY <1>1, <1>5, <2>2, <2>4
    <3> DEFINE x == <<a>>
    <3>2. x \in S
      BY <1>3
    <3>3. R \in Seq(S) /\ Len(R) = Len(P) + 1 /\ R[Len(P) + 1] = x /\ \A u \in 1..Len(P) : R[u] = P[u]
      <4> HIDE DEF S, x
      <4>1. P \in Seq(S)
        BY <1>1 DEF S
      <4> QED
        BY <3>1, <3>2, <4>1, AppendIs DEF x
    <3>4. \A u \in 1..Len(P) : Turn(P, u) = P[u] /\ Len(Turn(P, u)) \in Nat
      BY <1>1, TurnHas
    <3>5. Turn(P, t + 1) = <<>> /\ Len(Turn(P, t + 1)) = 0
      <4>1. t + 1 \notin 1..Len(P)
        BY <1>1, <3>1
      <4> QED
        BY <1>1, <4>1, TurnHas
    <3>6. R[t + 1] = x /\ Len(x) = 1 /\ Len(R) = t + 1 /\ t + 1 > Len(P) /\ t \in Nat /\ Len(P) \in Nat
      BY <1>1, <1>3, <3>1, <3>3
    <3> HIDE DEF x
    <3>7. \A u \in Nat : u \in (t + 1)..(t + 1) <=> u = t + 1
      BY <1>2
    <3>8. ASSUME NEW u \in 1..Len(R)
         PROVE  /\ Len(R[u]) = Len(Turn(P, u)) + (IF u \in (t + 1)..(t + 1) THEN 1 ELSE 0)
                /\ \A j \in 1..Len(Turn(P, u)) : R[u][j] = Turn(P, u)[j]
      <4>1. CASE u = t + 1
        <5>1. u \in Nat /\ R[u] = x /\ Turn(P, u) = <<>> /\ Len(Turn(P, u)) = 0 /\ u \in (t + 1)..(t + 1)
          BY <3>5, <3>6, <3>7, <4>1
        <5>2. Len(R[u]) = 1
          BY <3>6, <5>1
        <5>3. 1..Len(Turn(P, u)) = {}
          BY <5>1
        <5>4. Len(R[u]) = Len(Turn(P, u)) + (IF u \in (t + 1)..(t + 1) THEN 1 ELSE 0)
          BY <5>1, <5>2
        <5> QED
          BY <5>3, <5>4
      <4>2. CASE u # t + 1
        <5>1. u \in 1..Len(P) /\ u \in Nat
          BY <3>1, <3>6, <4>2
        <5> QED
          BY <3>3, <3>4, <3>7, <4>2, <5>1, SMTT(30)
      <4> QED
        BY <4>1, <4>2
    <3>9. More(P, R, t + 1, t + 1)
      BY <3>3, <3>6, <3>8 DEF More
    <3>10. t + 1 \in Nat /\ t + 1 >= 1 /\ t + 1 <= Len(P) + 1
      BY <3>1, <3>6
    <3> QED
      BY <3>9, <3>10 DEF P, R
  <2> QED
    BY <2>3, <2>4
<1> QED
  BY <1>1, <1>2, <1>4, <1>5

LEMMA MoreMore ==
  ASSUME NEW P \in Seq(Seq(Action)), NEW Q, NEW R, NEW x \in Nat, x >= 1, x <= Len(P) + 1 \/ x = 2,
         More(P, Q, x, x), More(Q, R, x + 1, x + 1)
  PROVE  More(P, R, x, x + 1)
<1>1. /\ Q \in Seq(Seq(Action)) /\ R \in Seq(Seq(Action)) /\ Len(P) \in Nat /\ Len(Q) \in Nat /\ Len(R) \in Nat
      /\ Len(Q) = (IF x > Len(P) THEN x ELSE Len(P))
      /\ Len(R) = (IF x + 1 > Len(Q) THEN x + 1 ELSE Len(Q))
  BY DEF More
<1>2. Len(R) = IF x + 1 > Len(P) THEN x + 1 ELSE Len(P)
  <2> DEFINE p == Len(P)
             q == Len(Q)
             r == Len(R)
  <2> HIDE DEF p, q, r
  <2>1. p \in Nat /\ q = (IF x > p THEN x ELSE p) /\ r = (IF x + 1 > q THEN x + 1 ELSE q)
    BY <1>1 DEF p, q, r
  <2>2. r = IF x + 1 > p THEN x + 1 ELSE p
    BY <2>1
  <2> QED
    BY <2>2 DEF p, r
<1>3. ASSUME NEW i \in 1..Len(R)
      PROVE  /\ Len(R[i]) = Len(Turn(P, i)) + (IF i \in x..(x + 1) THEN 1 ELSE 0)
             /\ \A j \in 1..Len(Turn(P, i)) : R[i][j] = Turn(P, i)[j]
  <2> DEFINE tp == Turn(P, i)
             tq == Turn(Q, i)
             tr == R[i]
  <2>1. /\ Len(tr) = Len(tq) + (IF i \in (x + 1)..(x + 1) THEN 1 ELSE 0)
        /\ \A j \in 1..Len(tq) : tr[j] = tq[j]
    BY <1>3 DEF More
  <2>2. Len(tp) \in Nat /\ Len(tq) \in Nat
    BY <1>1, TurnHas
  <2>3. /\ Len(tq) = Len(tp) + (IF i \in x..x THEN 1 ELSE 0)
        /\ \A j \in 1..Len(tp) : tq[j] = tp[j]
    <3>1. CASE i \in 1..Len(Q)
      <4>1. tq = Q[i]
        BY <1>1, <3>1, TurnHas
      <4> HIDE DEF tq
      <4> QED
        BY <3>1, <4>1 DEF More
    <3>2. CASE i \notin 1..Len(Q)
      <4>1. i \notin 1..Len(P) /\ i \notin x..x
        BY <1>1, <3>2
      <4>2. Len(tq) = 0 /\ Len(tp) = 0
        BY <1>1, <3>2, <4>1, TurnHas
      <4> HIDE DEF tq, tp
      <4> QED
        BY <4>1, <4>2
    <3> QED
      BY <3>1, <3>2
  <2> HIDE DEF tp, tq, tr
  <2>4. Len(tr) = Len(tp) + (IF i \in x..(x + 1) THEN 1 ELSE 0)
    <3>1. i \in Nat /\ x \in Nat
      OBVIOUS
    <3>2. (i \in x..(x + 1) <=> i = x \/ i = x + 1) /\ (i \in x..x <=> i = x) /\ (i \in (x + 1)..(x + 1) <=> i = x + 1)
      BY <3>1
    <3>3. CASE i = x
      <4>1. i # x + 1
        BY <3>1, <3>3
      <4> QED
        BY <2>1, <2>2, <2>3, <3>2, <3>3, <4>1
    <3>4. CASE i = x + 1
      <4>1. i # x
        BY <3>1, <3>4
      <4> QED
        BY <2>1, <2>2, <2>3, <3>2, <3>4, <4>1
    <3>5. CASE i # x /\ i # x + 1
      BY <2>1, <2>2, <2>3, <3>2, <3>5
    <3> QED
      BY <3>3, <3>4, <3>5
  <2>5. \A j \in 1..Len(tp) : tr[j] = tp[j]
    <3> TAKE j \in 1..Len(tp)
    <3>1. j \in 1..Len(tq)
      BY <2>2, <2>3
    <3> QED
      BY <2>1, <2>3, <3>1
  <2> QED
    BY <2>4, <2>5 DEF tp, tr
<1> QED
  BY <1>1, <1>2, <1>3 DEF More

\* More actions in one turn, or in two, are an Add.
LEMMA MoreAdds ==
  ASSUME NEW P \in Seq(Seq(Action)), NEW R, Now = P, Now' = R, UNCHANGED gone,
         NEW x \in Nat, x >= 1, x <= Len(P) + 1 \/ x = 2, NEW k \in {0, 1}, More(P, R, x, x + k)
  PROVE  Plans!Add
<1>1. x \in 1..(Len(P) + 2)
  <2>1. Len(P) \in Nat
    OBVIOUS
  <2> QED
    BY <2>1
<1>2. Len(R) = IF x + k > Len(P) THEN x + k ELSE Len(P)
  BY DEF More
<1>3. ASSUME NEW i \in DOMAIN R
      PROVE  /\ Plans!IsPrefix(Plans!Turn(P, i), R[i])
             /\ Len(R[i]) = Len(Plans!Turn(P, i)) + IF i \in x..(x + k) THEN 1 ELSE 0
  BY MoreIsPrefix
<1>4. \A i \in DOMAIN R :
        /\ Plans!IsPrefix(Plans!Turn(P, i), R[i])
        /\ Len(R[i]) = Len(Plans!Turn(P, i)) + IF i \in x..(x + k) THEN 1 ELSE 0
  BY <1>3
<1> QED
  BY <1>1, <1>2, <1>4, AddIs, ZenonT(60)

LEMMA AtWorkNow ==
  ASSUME Typed, Runs
  PROVE  InOrder(mine) /\ Now = PlanOf(mine) /\ PlanOf(mine) \in Seq(Seq(Action))
<1>1. InOrder(mine)
  BY AtWork
<1>2. Now = PlanOf(mine)
  BY NowIs
<1>3. PlanOf(mine) \in Seq(Seq(Action))
  BY <1>1, PlanIs
<1> QED
  BY <1>1, <1>2, <1>3

LEMMA Afterwards ==
  ASSUME NEW c, mine' = c, InOrder(c)
  PROVE  Now' = PlanOf(c) /\ PlanOf(c) \in Seq(Seq(Action)) /\ mine'.fault = "none"
<1>1. PlanOf(c) \in Seq(Seq(Action))
  BY PlanIs
<1>2. c.fault = "none"
  BY InOrderList
<1> QED
  BY <1>1, <1>2, NowThen

LEMMA MovePlanned ==
  ASSUME Typed, NEW u \in Units \ gone, NEW late \in {0, 1}, NEW turns \in {1, 2}, SaveMove(u, late, turns)
  PROVE  Plans!Add /\ mine'.fault = "none"
<1> DEFINE first == GetTurnNumOf(mine, u) + late
           base == [list |-> mine, cmds |-> <<>>]
           s == FoldLeft(LAMBDA r, i : Queued(r, first + i - 1, u), base, [i \in 1..turns |-> i])
           P == PlanOf(mine)
<1>1. Runs /\ Len(mine.acts) + turns <= MaxActions /\ mine' = s.list /\ UNCHANGED gone
  BY DEF SaveMove, Become
<1>2. InOrder(mine) /\ Len(mine.acts) \in Nat /\ MaxActions \in Nat /\ Now = P /\ P \in Seq(Seq(Action))
  BY <1>1, AtWork, AtWorkNow, SideAssumption
<1>3. MayPlan(mine, first)
  BY <1>2, FirstTurn
<1>4. first \in Nat
  BY <1>3 DEF MayPlan
<1> HIDE DEF first
<1>5. PICK q : /\ q[0] = base
               /\ \A n \in 1..turns : q[n] = Queued(q[n - 1], first + n - 1, u)
               /\ s = q[turns]
  <2>1. turns \in Nat
    OBVIOUS
  <2>2. \E q : QueuePath(q, base, first, u, turns)
    BY <2>1, QueuesFollow
  <2> QED
    BY <2>2, Zenon DEF QueuePath
<1>6. base.list = mine
  OBVIOUS
<1> HIDE DEF s, base
<1> DEFINE a == Fresh(mine, u)
           d == Queue(mine, first, a)
           Q == PlanOf(d)
<1>7. q[1].list = d
  <2>1. q[1] = Queued(base, first, u)
    <3>1. q[1] = Queued(q[1 - 1], first + 1 - 1, u)
      BY <1>5
    <3>2. 1 - 1 = 0 /\ first + 1 - 1 = first
      BY <1>4
    <3> QED
      BY <1>5, <3>1, <3>2
  <2>2. Queued(base, first, u).list = d
    BY <1>6, Zenon DEF Queued
  <2> QED
    BY <2>1, <2>2
<1>8. a \in Action
  BY <1>1, <1>2, FreshIs
<1> HIDE DEF a
<1>9. InOrder(d) /\ Len(d.acts) = Len(mine.acts) + 1 /\ Len(d.begins) \in Nat /\ Len(d.begins) > first
  BY <1>2, <1>3, <1>8, QueueKeeps
<1>10. More(P, Q, first + 1, first + 1)
  BY <1>2, <1>3, <1>8, QueueMore
<1>11. first + 1 \in Nat /\ first + 1 >= 1 /\ (first + 1 <= Len(P) + 1 \/ first + 1 = 2)
  BY <1>2, <1>3, <1>8, QueueMore
<1> HIDE DEF d, P
<1>12. CASE turns = 1
  <2>1. mine' = d
    BY <1>1, <1>5, <1>7, <1>12
  <2>2. Now' = Q /\ mine'.fault = "none"
    BY <1>9, <2>1, Afterwards
  <2> HIDE DEF Q
  <2>3. More(P, Q, first + 1, first + 1 + 0) /\ 0 \in {0, 1}
    BY <1>4, <1>10
  <2> DEFINE x == first + 1
  <2> HIDE DEF x
  <2>4. x \in Nat /\ x >= 1 /\ (x <= Len(P) + 1 \/ x = 2) /\ More(P, Q, x, x + 0)
    BY <1>11, <2>3 DEF x
  <2> QED
    BY <1>1, <1>2, <2>2, <2>3, <2>4, MoreAdds
<1>13. CASE turns = 2
  <2> DEFINE b == Fresh(d, u)
             e == Queue(d, first + 1, b)
             R == PlanOf(e)
  <2>1. q[2].list = e
    <3>1. q[2] = Queued(q[2 - 1], first + 2 - 1, u)
      BY <1>5, <1>13
    <3>2. 2 - 1 = 1 /\ first + 2 - 1 = first + 1
      BY <1>4
    <3>3. q[2] = Queued(q[1], first + 1, u)
      BY <3>1, <3>2
    <3>4. Queued(q[1], first + 1, u).list = e
      BY <1>7, Zenon DEF Queued
    <3> QED
      BY <3>3, <3>4
  <2>2. b \in Action
    <3>1. Len(d.acts) < MaxActions
      BY <1>1, <1>2, <1>9, <1>13
    <3> QED
      BY <1>9, <3>1, FreshIs
  <2> HIDE DEF b
  <2>3. MayPlan(d, first + 1)
    BY <1>4, <1>9 DEF MayPlan
  <2>4. InOrder(e)
    BY <1>9, <2>2, <2>3, QueueKeeps
  <2>5. More(Q, R, first + 1 + 1, first + 1 + 1)
    BY <1>9, <2>2, <2>3, QueueMore
  <2> HIDE DEF e
  <2>6. mine' = e
    BY <1>1, <1>5, <1>13, <2>1
  <2>7. Now' = R /\ mine'.fault = "none"
    BY <2>4, <2>6, Afterwards
  <2> HIDE DEF Q, R
  <2> DEFINE x == first + 1
  <2> HIDE DEF x
  <2>8. x \in Nat /\ x >= 1 /\ (x <= Len(P) + 1 \/ x = 2) /\ More(P, Q, x, x) /\ More(Q, R, x + 1, x + 1)
    BY <1>10, <1>11, <2>5 DEF x
  <2>9. More(P, R, x, x + 1) /\ 1 \in {0, 1}
    BY <1>2, <2>8, MoreMore
  <2> QED
    BY <1>1, <1>2, <2>7, <2>8, <2>9, MoreAdds
<1> QED
  BY <1>12, <1>13

LEMMA RecruitPlanned ==
  ASSUME Typed, NEW t, SaveRecruit(t)
  PROVE  Plans!Add /\ mine'.fault = "none"
<1> DEFINE base == [list |-> mine, cmds |-> <<>>]
           s == Queued(base, t, None)
           P == PlanOf(mine)
<1>1. /\ Runs /\ Len(mine.acts) < MaxActions /\ mine' = s.list /\ UNCHANGED gone
      /\ t \in {GetTurnNumOf(mine, u) : u \in Units \ gone} \cup {IF NumTurns(mine) > 0 THEN NumTurns(mine) - 1 ELSE 0}
  BY DEF SaveRecruit, Become
<1>2. InOrder(mine) /\ Len(mine.begins) \in Nat /\ Now = P /\ P \in Seq(Seq(Action))
  BY <1>1, AtWorkNow, ContainerIs DEF InOrder
<1>3. MayPlan(mine, t)
  <2>1. CASE t \in {GetTurnNumOf(mine, u) : u \in Units \ gone}
    <3>1. PICK u \in Units : t = GetTurnNumOf(mine, u)
      BY <2>1
    <3>2. t \in Nat /\ (t < Len(mine.begins) \/ t = 0)
      BY <1>2, <3>1, GetTurnNumIs
    <3> QED
      BY <1>2, <3>2 DEF MayPlan
  <2>2. CASE t = IF NumTurns(mine) > 0 THEN NumTurns(mine) - 1 ELSE 0
    BY <1>2, <2>2 DEF MayPlan, NumTurns
  <2> QED
    BY <1>1, <2>1, <2>2
<1> DEFINE a == Fresh(mine, None)
           d == Queue(mine, t, a)
           Q == PlanOf(d)
<1>4. s.list = d
  BY Zenon DEF Queued
<1>5. a \in Action
  BY <1>1, <1>2, FreshIs
<1> HIDE DEF a, s
<1>6. InOrder(d)
  BY <1>2, <1>3, <1>5, QueueKeeps
<1>7. More(P, Q, t + 1, t + 1)
  BY <1>2, <1>3, <1>5, QueueMore
<1>8. t + 1 \in Nat /\ t + 1 >= 1 /\ (t + 1 <= Len(P) + 1 \/ t + 1 = 2)
  BY <1>2, <1>3, <1>5, QueueMore
<1>9. Now' = Q /\ mine'.fault = "none"
  <2> HIDE DEF d
  <2>1. mine' = d
    BY <1>1, <1>4
  <2> QED
    BY <1>6, <2>1, Afterwards
<1> HIDE DEF P, Q, d
<1> DEFINE x == t + 1
<1>10. x + 0 = x /\ 0 \in {0, 1}
  BY <1>8
<1> HIDE DEF x
<1>11. x \in Nat /\ x >= 1 /\ (x <= Len(P) + 1 \/ x = 2) /\ More(P, Q, x, x + 0)
  BY <1>7, <1>8, <1>10 DEF x
<1> QED
  BY <1>1, <1>2, <1>9, <1>10, <1>11, MoreAdds

\* Erasing an action of the plans is a Drop, unless the iterator of a turn is lost.
LEMMA EraseDrops ==
  ASSUME Typed, Runs, NEW p \in DOMAIN mine.acts, mine' = Erase(mine, p),
         gone' = gone \/ (mine.acts[p].unit \in Units /\ gone' = gone \cup {mine.acts[p].unit})
  PROVE  IF mine'.fault = "none" THEN Plans!Drop ELSE LosesTurn(mine, p)
<1> DEFINE t == GetTurn(mine, p)
           i == PositionInTurn(mine, p) + 1
           P == PlanOf(mine)
           c == Erase(mine, p)
<1>1. InOrder(mine) /\ p \in 1..Len(mine.acts) /\ Now = P
  BY AtWork, AtWorkNow
<1>2. t + 1 \in DOMAIN P /\ i \in DOMAIN P[t + 1] /\ P[t + 1][i] = mine.acts[p]
  BY <1>1, PlaceIs
<1>3. c.fault # "none" <=> LosesTurn(mine, p)
  BY <1>1, EraseFails
<1>4. ~LosesTurn(mine, p) => InOrder(c) /\ PlanOf(c) = Plans!Trim([P EXCEPT ![t + 1] = RemoveAt(P[t + 1], i)])
  BY <1>1, ErasedPlan
<1> HIDE DEF c, P
<1>5. mine' = c
  BY DEF c
<1>6. CASE LosesTurn(mine, p)
  BY <1>3, <1>5, <1>6
<1>7. CASE ~LosesTurn(mine, p)
  <2>1. InOrder(c) /\ mine'.fault = "none"
    BY <1>3, <1>4, <1>5, <1>7
  <2>2. Now' = PlanOf(c) /\ Plans!NoGaps(PlanOf(c))
    BY <1>5, <2>1, Afterwards, NoGapsIs
  <2> HIDE DEF t, i
  <2>3. gone' = gone \/ gone' = gone \cup ({P[t + 1][i].unit} \ {None})
    <3>1. CASE mine.acts[p].unit \in Units
      <4>1. {mine.acts[p].unit} \ {None} = {mine.acts[p].unit}
        BY <3>1, SideAssumption
      <4> QED
        BY <1>2, <4>1
    <3> QED
      BY <3>1
  <2> DEFINE x == t + 1
             R == PlanOf(c)
  <2> HIDE DEF x, R
  <2>4. /\ x \in DOMAIN P /\ i \in DOMAIN P[x] /\ Now' = R
        /\ R = Plans!Trim([P EXCEPT ![x] = RemoveAt(P[x], i)]) /\ Plans!NoGaps(R)
        /\ gone' = gone \/ gone' = gone \cup ({P[x][i].unit} \ {None})
    BY <1>2, <1>4, <1>7, <2>2, <2>3, Zenon DEF x, R
  <2>5. Plans!Drop
    BY <1>1, <2>4, DropIs
  <2> QED
    BY <2>1, <2>5
<1> QED
  BY <1>6, <1>7

LEMMA PartRevises ==
  ASSUME Typed, NEW p \in DOMAIN mine.acts, ExecutePart(p)
  PROVE  Plans!Revise /\ mine'.fault = "none"
<1> DEFINE mover == mine.acts[p].unit
           a == Fresh(mine, mover)
           c == [mine EXCEPT !.acts[p] = a]
           t == GetTurn(mine, p)
           i == PositionInTurn(mine, p) + 1
           P == PlanOf(mine)
<1>1. Runs /\ mover \in Units \ gone /\ Len(mine.acts) < MaxActions /\ mine' = c /\ UNCHANGED gone
  BY DEF ExecutePart, Become
<1>2. InOrder(mine) /\ p \in 1..Len(mine.acts) /\ Now = P
  BY <1>1, AtWork, AtWorkNow
<1>3. a \in Action
  BY <1>1, <1>2, FreshIs
<1>4. a.unit = mover
  BY Zenon DEF Fresh
<1> HIDE DEF a
<1>5. InOrder(c)
  BY <1>2, <1>3, ReplacedIs
<1>6. t + 1 \in DOMAIN P /\ i \in DOMAIN P[t + 1] /\ P[t + 1][i] = mine.acts[p]
  BY <1>2, PlaceIs
<1>7. PlanOf(c) = [P EXCEPT ![t + 1] = [P[t + 1] EXCEPT ![i] = a]]
  <2> HIDE DEF t, i, c
  <2>1. InOrder(mine) /\ p \in 1..Len(mine.acts) /\ a \in Action
    BY <1>2, <1>3
  <2>2. t = GetTurn(mine, p) /\ i = PositionInTurn(mine, p) + 1 /\ c = Replaced(mine, p, a) /\ P = PlanOf(mine)
    BY Zenon DEF t, i, c, Replaced
  <2>3. PlanOf(Replaced(mine, p, a)) = [PlanOf(mine) EXCEPT ![t + 1] = [PlanOf(mine)[t + 1] EXCEPT ![i] = a]]
    BY <2>1, <2>2, ReplacedPlan
  <2> QED
    BY <2>2, <2>3, Zenon
<1> HIDE DEF c, P, t, i
<1>8. Now' = PlanOf(c) /\ mine'.fault = "none"
  BY <1>1, <1>5, Afterwards
<1> DEFINE x == t + 1
           R == PlanOf(c)
<1> HIDE DEF x, R
<1>9. /\ Now' = R /\ x \in DOMAIN P /\ i \in DOMAIN P[x] /\ a.unit = P[x][i].unit
      /\ R = [P EXCEPT ![x] = [P[x] EXCEPT ![i] = a]]
  BY <1>4, <1>6, <1>7, <1>8, Zenon DEF x, R
<1> QED
  BY <1>1, <1>2, <1>3, <1>8, <1>9, ReviseIs

\* A bump changes the places of two actions, unless it stops at a unit that is dead.
LEMMA BumpSwaps ==
  ASSUME ModelValues, Typed, NEW p \in 2..Len(mine.acts), Bump(p)
  PROVE  IF mine'.fault = "none" THEN Plans!Swap
         ELSE Dead(mine.acts[p], gone) /\ mine.acts[p - 1].unit = None
<1> DEFINE t == GetTurn(mine, p)
           i == PositionInTurn(mine, p) + 1
           P == PlanOf(mine)
           c == Bumped(mine, p, gone)
           first == mine.acts[p - 1]
           second == mine.acts[p]
<1>1. Runs /\ BumpAllowed(mine, p, gone) /\ mine' = c /\ UNCHANGED gone
  BY DEF Bump, Become
<1>2. InOrder(mine) /\ Now = P /\ P \in Seq(Seq(Action))
  BY <1>1, AtWorkNow
<1>3. Len(mine.acts) \in Nat /\ mine.acts \in Seq(Action)
  BY <1>1, AtWork
<1>4. p \in 1..Len(mine.acts) /\ first \in Action /\ second \in Action
  BY <1>3
<1>5. PositionInTurn(mine, p) # 0 /\ (first.unit \in gone \/ second.unit \in gone \/ Actor(first) # Actor(second))
  BY <1>1, Zenon DEF BumpAllowed, Dead
<1>6. t + 1 \in DOMAIN P /\ i \in 1..Len(P[t + 1]) /\ P[t + 1][i] = second /\ i - 1 \in 1..Len(P[t + 1])
      /\ P[t + 1][i - 1] = first
      /\ PlanOf(Swapped(mine, p)) = [P EXCEPT ![t + 1] = [[P[t + 1] EXCEPT ![i - 1] = second] EXCEPT ![i] = first]]
  <2>1. t + 1 \in DOMAIN P /\ i \in DOMAIN P[t + 1] /\ P[t + 1] \in Seq(Action) /\ P[t + 1][i] = second
    BY <1>2, <1>4, PlaceIs
  <2>5. InOrder(mine) /\ p \in 2..Len(mine.acts) /\ PositionInTurn(mine, p) # 0
    BY <1>2, <1>5
  <2>6. t = GetTurn(mine, p) /\ i = PositionInTurn(mine, p) + 1
    OBVIOUS
  <2> HIDE DEF P, t, i, first, second
  <2>7. /\ i - 1 \in 1..Len(PlanOf(mine)[t + 1]) /\ PlanOf(mine)[t + 1][i - 1] = mine.acts[p - 1]
        /\ PlanOf(Swapped(mine, p)) = [PlanOf(mine) EXCEPT ![t + 1] =
             [[PlanOf(mine)[t + 1] EXCEPT ![i - 1] = mine.acts[p]] EXCEPT ![i] = mine.acts[p - 1]]]
    BY <2>5, <2>6, SwappedPlan, SMTT(30)
  <2>2. i - 1 \in 1..Len(P[t + 1]) /\ P[t + 1][i - 1] = first
    BY <2>7 DEF P, first
  <2>3. PlanOf(Swapped(mine, p)) = [P EXCEPT ![t + 1] = [[P[t + 1] EXCEPT ![i - 1] = second] EXCEPT ![i] = first]]
    BY <2>7, Zenon DEF P, first, second
  <2>4. i \in 1..Len(P[t + 1])
    BY <2>1
  <2> QED
    BY <2>1, <2>2, <2>3, <2>4, Zenon
<1>7. Actor(first) = Actor(second) => first.unit \in gone
  <2> SUFFICES ASSUME Actor(first) = Actor(second), first.unit \notin gone PROVE FALSE
    OBVIOUS
  <2>1. second.unit \in gone /\ gone \subseteq Units
    BY <1>5 DEF Typed
  <2>2. Actor(second) = second.unit /\ second.unit \in Units
    BY <2>1, SideAssumption DEF Actor
  <2>3. CASE first.unit = None
    <3>1. Actor(first) \in Action
      BY <1>4, <2>3 DEF Actor
    <3> QED
      BY <2>2, <3>1 DEF ModelValues
  <2>4. CASE first.unit # None
    BY <2>1, <2>2, <2>4 DEF Actor
  <2> QED
    BY <2>3, <2>4
<1>8. c = IF second.unit \in gone /\ first.unit = None THEN Fails(mine, "null") ELSE Swapped(mine, p)
  BY Zenon DEF Bumped, Dead
<1>9. CASE second.unit \in gone /\ first.unit = None
  <2>1. c = Fails(mine, "null") /\ "null" \in Faults \ {"none"}
    BY <1>8, <1>9 DEF Faults
  <2> HIDE DEF c
  <2>2. mine'.fault # "none"
    BY <1>1, <1>2, <2>1, FailsIs
  <2> QED
    BY <1>9, <2>2 DEF Dead
<1>10. CASE ~(second.unit \in gone /\ first.unit = None)
  <2>1. c = Swapped(mine, p)
    BY <1>8, <1>10
  <2>2. InOrder(c)
    BY <1>2, <2>1, SwappedIs
  <2> HIDE DEF c, first, second, P
  <2>3. Now' = PlanOf(c) /\ mine'.fault = "none"
    BY <1>1, <2>2, Afterwards
  <2>4. i \in 2..Len(P[t + 1])
    BY <1>6
  <2> HIDE DEF t, i
  <2> DEFINE x == t + 1
             R == PlanOf(c)
  <2> HIDE DEF x
  <2>5. /\ x \in DOMAIN P /\ i \in 2..Len(P[x]) /\ P[x][i] = second /\ P[x][i - 1] = first
        /\ R = [P EXCEPT ![x] = [[P[x] EXCEPT ![i - 1] = second] EXCEPT ![i] = first]]
    BY <1>6, <2>1, <2>4, Zenon DEF x
  <2> HIDE DEF R
  <2>6. /\ Actor(P[x][i - 1]) = Actor(P[x][i]) => P[x][i - 1].unit \in gone
        /\ R = [P EXCEPT ![x] = [[P[x] EXCEPT ![i - 1] = P[x][i]] EXCEPT ![i] = P[x][i - 1]]]
    BY <1>7, <2>5, Zenon
  <2>7. Now' = R
    BY <2>3 DEF R
  <2>8. Plans!Swap
    BY <1>1, <1>2, <2>5, <2>6, <2>7, SwapIs
  <2> QED
    BY <2>3, <2>8
<1> QED
  BY <1>9, <1>10

LEMMA InitFollows ==
  ASSUME Init
  PROVE  Plans!Init
<1>1. mine = Empty /\ gone = {}
  BY DEF Init
<1>2. Now = <<>>
  <2>1. Now = PlanOf(mine)
    BY NowIs
  <2> QED
    BY <1>1, <2>1, EmptyPlan
<1> QED
  BY <1>1, <1>2, Zenon DEF Plans!Init, Now

\* Each step but the shift of the turns is one of TurnPlans, stops the machine as GivesUp
\* says, or changes no plans.
LEMMA StepFollows ==
  ASSUME ModelValues, IInv, Next
  PROVE  FinishSideTurn \/ KeepsPlans \/ UNCHANGED <<mine, gone>>
<1>0. Typed
  BY DEF IInv
<1> DEFINE OneOf == Plans!Add \/ Plans!Drop \/ Plans!Revise \/ Plans!Swap \/ Plans!Clear \/ Plans!Die
<1>1. ASSUME OneOf, mine'.fault = "none" PROVE KeepsPlans
  <2>1. Plans!Next
    BY <1>1, StepIs
  <2> QED
    BY <1>1, <2>1, Zenon DEF KeepsPlans
<1>2. ASSUME GivesUp, mine'.fault # "none" PROVE KeepsPlans
  BY <1>2, Zenon DEF KeepsPlans
<1> HIDE DEF OneOf
<1>3. ASSUME NEW u \in Units \ gone, NEW late \in {0, 1}, NEW turns \in {1, 2}, SaveMove(u, late, turns)
      PROVE  KeepsPlans
  BY <1>0, <1>1, <1>3, MovePlanned DEF OneOf
<1>4. ASSUME NEW t \in 0..MaxTurns, SaveRecruit(t) PROVE KeepsPlans
  BY <1>0, <1>1, <1>4, RecruitPlanned DEF OneOf
<1>5. ASSUME NEW p \in DOMAIN mine.acts, RemoveAction(p) PROVE KeepsPlans
  <2>1. Runs /\ mine' = Erase(mine, p) /\ gone' = gone
    BY <1>5 DEF RemoveAction, Become
  <2>2. IF mine'.fault = "none" THEN Plans!Drop ELSE LosesTurn(mine, p)
    BY <1>0, <2>1, EraseDrops
  <2>3. LosesTurn(mine, p) => GivesUp
    BY <1>5, Zenon DEF GivesUp
  <2> QED
    BY <1>1, <1>2, <2>2, <2>3, Zenon DEF OneOf
<1>6. ASSUME NEW p \in DOMAIN mine.acts, Execute(p) PROVE KeepsPlans
  <2>1. Runs /\ mine' = Erase(mine, p) /\ gone' = gone \cup {mine.acts[p].unit} /\ mine.acts[p].unit \in MayDie
    BY <1>6 DEF Execute, Become
  <2>2. mine.acts[p].unit \in Units
    BY <2>1, SideAssumption
  <2>3. IF mine'.fault = "none" THEN Plans!Drop ELSE LosesTurn(mine, p)
    BY <1>0, <2>1, <2>2, EraseDrops
  <2>4. LosesTurn(mine, p) => GivesUp
    BY <1>6, Zenon DEF GivesUp
  <2> QED
    BY <1>1, <1>2, <2>3, <2>4, Zenon DEF OneOf
<1>7. ASSUME NEW p \in DOMAIN mine.acts, ExecuteTooEarly(p) PROVE KeepsPlans
  <2>1. Runs /\ mine' = Fails(mine, "assertion")
    BY <1>7 DEF ExecuteTooEarly, Become
  <2>2. InOrder(mine) /\ "assertion" \in Faults \ {"none"}
    BY <1>0, <2>1, AtWork DEF Faults
  <2>3. mine'.fault # "none"
    BY <2>1, <2>2, FailsIs
  <2>4. GivesUp
    BY <1>7, Zenon DEF GivesUp
  <2> QED
    BY <1>2, <2>3, <2>4
<1>8. ASSUME NEW p \in DOMAIN mine.acts, ExecutePart(p) PROVE KeepsPlans
  BY <1>0, <1>1, <1>8, PartRevises DEF OneOf
<1>9. ASSUME NEW p \in 2..Len(mine.acts), Bump(p) PROVE KeepsPlans
  <2>1. IF mine'.fault = "none" THEN Plans!Swap ELSE Dead(mine.acts[p], gone) /\ mine.acts[p - 1].unit = None
    BY <1>0, <1>9, BumpSwaps
  <2>2. p \in DOMAIN mine.acts
    <3>1. Runs
      BY <1>9 DEF Bump
    <3>2. mine.acts \in Seq(Action) /\ Len(mine.acts) \in Nat
      BY <1>0, <3>1, AtWork
    <3> QED
      BY <3>2
  <2>3. Dead(mine.acts[p], gone) /\ mine.acts[p - 1].unit = None => GivesUp
    BY <1>9, <2>2, Zenon DEF GivesUp
  <2> QED
    BY <1>1, <1>2, <2>1, <2>3, Zenon DEF OneOf
<1>10. ASSUME TakeSide PROVE KeepsPlans
  <2>1. mine' = Empty /\ UNCHANGED gone
    BY <1>10 DEF TakeSide, Become
  <2>2. InOrder(Empty)
    BY EmptyIs
  <2>3. Now' = <<>> /\ mine'.fault = "none"
    BY <2>1, <2>2, Afterwards, EmptyPlan
  <2> QED
    BY <1>1, <2>1, <2>3, ClearIs DEF OneOf
<1>11. ASSUME NEW u \in Units, EnemyKills(u) PROVE KeepsPlans
  <2>1. Runs /\ u \in MayDie \ gone /\ gone' = gone \cup {u} /\ UNCHANGED mine
    BY <1>11 DEF EnemyKills
  <2>2. u \in Units \ gone /\ mine'.fault = "none"
    BY <2>1 DEF Runs
  <2>3. Now' = Now
    BY <2>1 DEF Now, NumTurns, TurnBegin, TurnEnd, End
  <2> QED
    BY <1>1, <2>1, <2>2, <2>3, DieIs DEF OneOf
<1>12. ASSUME TellPlans \/ SendNetworkData \/ Receive PROVE UNCHANGED <<mine, gone>>
  BY <1>12 DEF TellPlans, SendNetworkData, Receive, Become
<1> QED
  BY <1>3, <1>4, <1>5, <1>6, <1>7, <1>8, <1>9, <1>10, <1>11, <1>12 DEF Next

\* The owner's container does what TurnPlans promises in every step but the shift of the
\* turns (synced_enqueue, synced_erase, safe_erase, bump_earlier, bump_later, execute,
\* clear): what is planned for a turn and its order are what the actions say.  Only the
\* steps of GivesUp stop the machine instead.
THEOREM PlansFollow ==
  ModelValues => (Spec => Plans!Init /\ [][FinishSideTurn \/ KeepsPlans]_<<mine, gone>>)
<1> SUFFICES ASSUME ModelValues PROVE Spec => Plans!Init /\ [][FinishSideTurn \/ KeepsPlans]_<<mine, gone>>
  OBVIOUS
<1>1. Init => Plans!Init
  BY InitFollows
<1>2. IInv /\ [Next]_vars => [FinishSideTurn \/ KeepsPlans]_<<mine, gone>>
  <2> SUFFICES ASSUME IInv, [Next]_vars PROVE [FinishSideTurn \/ KeepsPlans]_<<mine, gone>>
    OBVIOUS
  <2>1. CASE Next
    BY <2>1, StepFollows
  <2>2. CASE UNCHANGED vars
    BY <2>2 DEF vars
  <2> QED
    BY <2>1, <2>2
<1>3. Spec => []IInv
  BY IInvariant
<1> QED
  BY <1>1, <1>2, <1>3, PTL DEF Spec

=============================================================================
