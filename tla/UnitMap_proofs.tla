--------------------------- MODULE UnitMap_proofs ---------------------------
(***************************************************************************)
(* UnitMap, for any numbers of units, hexes, iterators and ids.  The proof  *)
(* separates two halves of the inductive invariant.  Counted speaks of the  *)
(* nodes and the iterators; Indexed of the units, their owners and the two  *)
(* indices.  They meet in the nodes alone, so every action is a step of one *)
(* half on nodes that the other half finds to show the same units.          *)
(***************************************************************************)
EXTENDS UnitMap, FiniteSetTheorems, WellFoundedInduction, TLAPS

Nodes(m) == DOMAIN m \subseteq Ids /\ \A k \in DOMAIN m : m[k] \in Pod

Holders(it, k) == {h \in Iters : it[h] = k}

\* The reference counts of the nodes m under the iterators it.
Counted(m, it) ==
  /\ \A h \in Iters : it[h] \in Ids => it[h] \in DOMAIN m
  /\ \A k \in DOMAIN m : /\ m[k].ref_count = Cardinality(Holders(it, k))
                         /\ m[k].unit = NULL => m[k].ref_count > 0

\* The nodes m, the index lm and the units tell the same board.
Indexed(m, lm, ow, ud, hx) ==
  /\ \A l \in Locs : lm[l] # 0 => lm[l] \in Live(m) /\ hx[m[lm[l]].unit] = l
  /\ \A k \in Live(m) : /\ ud[m[k].unit] = k
                        /\ hx[m[k].unit] \in Locs
                        /\ lm[hx[m[k].unit]] = k
  /\ \A p \in Units : ow[p] = "map" <=> \E k \in Live(m) : m[k].unit = p
  /\ \A p \in Units : ow[p] # "free" => ud[p] \in Ids

\* The same units under the same ids: what counting leaves alone.
SameUnits(m, n) == /\ Live(n) = Live(m)
                   /\ \A k \in Live(m) : n[k].unit = m[k].unit

IInv == /\ TypeOK
        /\ Counted(umap, iter)
        /\ Indexed(umap, lmap, owner, uid, hex)

-----------------------------------------------------------------------------
(* Counting.                                                                *)

\* The smallest element is one of the set.
LEMMA LeastType ==
  ASSUME NEW S \in SUBSET Nat, NEW d PROVE Least(S, d) \in S \cup {d}
<1>1. CASE S = {}
  BY <1>1 DEF Least
<1>2. CASE S # {}
  <2>1. PICK x \in S : \A y \in S : ~ (<<y, x>> \in OpToRel(<, Nat))
    BY <1>2, NatLessThanWellFounded, WFMin
  <2>2. \A y \in S : ~ (y < x)
    BY <2>1 DEF OpToRel
  <2>3. \A y \in S : x <= y
    BY <2>2
  <2> QED
    BY <1>2, <2>3 DEF Least
<1> QED
  BY <1>1, <1>2

\* So is the greatest, of a set that has a bound.
LEMMA GreatestType ==
  ASSUME NEW n \in Nat, NEW S \in SUBSET (0 .. n), NEW d
  PROVE  Greatest(S, d) \in S \cup {d}
<1>1. CASE S = {}
  BY <1>1 DEF Greatest
<1>2. CASE S # {}
  <2> DEFINE T == {n - x : x \in S}
  <2>0. \A x \in S : x \in 0 .. n /\ n - x \in Nat
    OBVIOUS
  <2>1. T \in SUBSET Nat /\ T # {}
    BY <1>2, <2>0, Zenon
  <2>2. PICK x \in T : \A y \in T : ~ (<<y, x>> \in OpToRel(<, Nat))
    BY <2>1, NatLessThanWellFounded, WFMin
  <2>3. \A y \in T : ~ (y < x)
    BY <2>1, <2>2 DEF OpToRel
  <2>4. PICK i \in S : x = n - i
    BY <2>2
  <2>5. \A j \in S : i >= j
    <3> TAKE j \in S
    <3>1. n - j \in T /\ ~ (n - j < n - i)
      BY <2>3, <2>4
    <3> QED
      BY <2>0, <3>1
  <2> QED
    BY <1>2, <2>5 DEF Greatest
<1> QED
  BY <1>1, <1>2

\* Turning iterator h from a to b takes one holder from a and gives one to b.
LEMMA CountMoves ==
  ASSUME NEW it, NEW h \in Iters, NEW b, it[h] # b,
         NEW jt, jt = [it EXCEPT ![h] = b], it = [g \in Iters |-> it[g]]
  PROVE  /\ Cardinality(Holders(jt, b)) = Cardinality(Holders(it, b)) + 1
         /\ Cardinality(Holders(jt, it[h])) = Cardinality(Holders(it, it[h])) - 1
         /\ \A k : k # b /\ k # it[h] =>
              Cardinality(Holders(jt, k)) = Cardinality(Holders(it, k))
<1>1. \A k : IsFiniteSet(Holders(it, k))
  BY ItersFinite, FS_Subset DEF Holders
<1>2. Holders(jt, b) = Holders(it, b) \cup {h} /\ h \notin Holders(it, b)
  BY DEF Holders
<1>3. Holders(jt, it[h]) = Holders(it, it[h]) \ {h} /\ h \in Holders(it, it[h])
  BY DEF Holders
<1>4. \A k : k # b /\ k # it[h] => Holders(jt, k) = Holders(it, k)
  BY DEF Holders
<1>5. Cardinality(Holders(jt, b)) = Cardinality(Holders(it, b)) + 1
  BY <1>1, <1>2, FS_AddElement
<1>6. Cardinality(Holders(jt, it[h])) = Cardinality(Holders(it, it[h])) - 1
  BY <1>1, <1>3, FS_RemoveElement
<1> QED
  BY <1>4, <1>5, <1>6

\* A holder makes the count positive.
LEMMA HolderCounts ==
  ASSUME NEW it, NEW h \in Iters
  PROVE  Cardinality(Holders(it, it[h])) \in Nat \ {0}
<1>1. IsFiniteSet(Holders(it, it[h])) /\ h \in Holders(it, it[h])
  BY ItersFinite, FS_Subset DEF Holders
<1> QED
  BY <1>1, FS_CardinalityType, FS_EmptySet

LEMMA CountType ==
  ASSUME NEW it, NEW k PROVE Cardinality(Holders(it, k)) \in Nat
<1>1. IsFiniteSet(Holders(it, k))
  BY ItersFinite, FS_Subset DEF Holders
<1> QED
  BY <1>1, FS_CardinalityType

-----------------------------------------------------------------------------
(* The steps on nodes and iterators.                                        *)

Position == Ids \cup {Singular, End}

\* Assigning an iterator to a node, or to none, over well counted nodes keeps
\* them well counted, whatever the iterator pointed at and let go of.
LEMMA AssignCounts ==
  ASSUME NEW m, Nodes(m), iter \in [Iters -> Position], Counted(m, iter),
         NEW h \in Iters, NEW k \in DOMAIN m \cup {Singular, End}, Assign(m, h, k)
  PROVE  /\ Nodes(umap') /\ Counted(umap', iter') /\ SameUnits(m, umap')
         /\ iter' \in [Iters -> Position]
<1> DEFINE c == iter[h]
<1> USE MaxIdAssumption DEF Nodes, Position
<1>1. CASE c = k
  <2>1. umap' = m /\ iter' = iter
    BY <1>1 DEF Assign
  <2> QED
    BY <2>1 DEF SameUnits
<1>2. CASE c # k
  <2> DEFINE j == Inc(m, k)
  <2>1. umap' = Dec(j, c) /\ iter' = [iter EXCEPT ![h] = k]
    BY <1>2 DEF Assign
  <2>2. /\ DOMAIN j = DOMAIN m
        /\ \A i \in DOMAIN m : /\ j[i].unit = m[i].unit /\ j[i] \in Pod
                               /\ j[i].ref_count = IF i = k THEN m[i].ref_count + 1
                                                            ELSE m[i].ref_count
    BY DEF Inc, Pod
  <2>3. iter' \in [Iters -> Position]
    BY <2>1 DEF Ids
  <2>4. \A i : Cardinality(Holders(iter', i)) =
                 IF i = k THEN Cardinality(Holders(iter, i)) + 1
                 ELSE IF i = c THEN Cardinality(Holders(iter, i)) - 1
                 ELSE Cardinality(Holders(iter, i))
    <3>1. iter = [g \in Iters |-> iter[g]]
      OBVIOUS
    <3> HIDE DEF Position
    <3> QED
      BY <1>2, <2>1, <3>1, CountMoves
  <2>5. Cardinality(Holders(iter, c)) \in Nat \ {0}
    BY HolderCounts
  <2>6. CASE c \notin DOMAIN m
    <3>1. umap' = j /\ c \notin Ids
      BY <2>1, <2>2, <2>6 DEF Dec, Counted
    <3>2. \A g \in Iters : iter'[g] \in Ids => iter'[g] \in DOMAIN m
      BY <2>1 DEF Counted, Ids, Singular, End
    <3> QED
      BY <2>2, <2>3, <2>4, <2>6, <3>1, <3>2 DEF Counted, SameUnits, Live, Pod
  <2>7. CASE c \in DOMAIN m /\ m[c].ref_count = 1 /\ m[c].unit = NULL
    <3>1. umap' = WithoutNode(j, c)
      BY <1>2, <2>1, <2>2, <2>7 DEF Dec
    <3>2. DOMAIN umap' = DOMAIN m \ {c} /\ \A i \in DOMAIN m \ {c} : umap'[i] = j[i]
      BY <2>2, <3>1 DEF WithoutNode
    <3>3. \A g \in Iters : iter'[g] # c
      <4> SUFFICES ASSUME NEW g \in Iters, iter'[g] = c PROVE FALSE
        OBVIOUS
      <4>1. Cardinality(Holders(iter', c)) \in Nat \ {0}
        BY HolderCounts
      <4>2. Cardinality(Holders(iter', c)) = 0
        BY <1>2, <2>4, <2>7 DEF Counted
      <4> QED
        BY <4>1, <4>2
    <3>4. \A g \in Iters : iter'[g] \in Ids => iter'[g] \in DOMAIN umap'
      BY <2>1, <3>2, <3>3 DEF Counted, Ids, Singular, End
    <3> QED
      BY <2>2, <2>3, <2>4, <2>7, <3>2, <3>4 DEF Counted, SameUnits, Live, Pod
  <2>8. CASE c \in DOMAIN m /\ ~ (m[c].ref_count = 1 /\ m[c].unit = NULL)
    <3>1. umap' = [j EXCEPT ![c].ref_count = @ - 1]
      BY <1>2, <2>1, <2>2, <2>8 DEF Dec
    <3>2. m[c].ref_count \in Nat \ {0}
      BY <2>5, <2>8 DEF Counted
    <3>3. /\ DOMAIN umap' = DOMAIN m
          /\ \A i \in DOMAIN m :
               /\ umap'[i].unit = m[i].unit /\ umap'[i] \in Pod
               /\ umap'[i].ref_count = IF i = c THEN m[i].ref_count - 1
                                                ELSE j[i].ref_count
      BY <1>2, <2>2, <2>8, <3>1, <3>2 DEF Pod
    <3>4. \A g \in Iters : iter'[g] \in Ids => iter'[g] \in DOMAIN umap'
      BY <2>1, <3>3 DEF Counted, Ids, Singular, End
    <3>5. \A i \in DOMAIN m : umap'[i].ref_count = Cardinality(Holders(iter', i))
      <4> SUFFICES ASSUME NEW i \in DOMAIN m
                   PROVE  umap'[i].ref_count = Cardinality(Holders(iter', i))
        OBVIOUS
      <4>1. m[i].ref_count = Cardinality(Holders(iter, i)) /\ m[i].ref_count \in Nat
        BY DEF Counted, Pod
      <4>2. umap'[i].ref_count = IF i = c THEN m[i].ref_count - 1
                                 ELSE IF i = k THEN m[i].ref_count + 1
                                 ELSE m[i].ref_count
        BY <2>2, <3>3
      <4> QED
        BY <1>2, <2>4, <4>1, <4>2
    <3>6. \A i \in DOMAIN m : m[i].unit = NULL => umap'[i].ref_count > 0
      BY <2>2, <2>8, <3>2, <3>3 DEF Counted, Pod
    <3> QED
      BY <2>3, <3>3, <3>4, <3>5, <3>6 DEF Counted, SameUnits, Live
  <2> QED
    BY <2>6, <2>7, <2>8
<1> QED
  BY <1>1, <1>2

\* A returned iterator, kept or dropped, counts the same.
LEMMA ReturnCounts ==
  ASSUME NEW m, Nodes(m), iter \in [Iters -> Position], Counted(m, iter),
         NEW k \in DOMAIN m \cup {Singular, End}, Return(m, k)
  PROVE  /\ Nodes(umap') /\ Counted(umap', iter') /\ SameUnits(m, umap')
         /\ iter' \in [Iters -> Position]
<1>1. CASE \E h \in Iters : Assign(m, h, k)
  BY <1>1, AssignCounts
<1>2. CASE umap' = m /\ UNCHANGED iter
  BY <1>2 DEF SameUnits
<1> QED
  BY <1>1, <1>2 DEF Return

\* Storing a unit under an unused id, or in a ghost, keeps the counts.
LEMMA HoldingCounts ==
  ASSUME NEW m, Nodes(m), NEW it, Counted(m, it), NEW k \in Ids, NEW p \in Units
  PROVE  LET n == Holding(m, k, p) IN
         /\ Nodes(n) /\ Counted(n, it)
         /\ DOMAIN n = DOMAIN m \cup {k}
         /\ Live(n) = Live(m) \cup {k} /\ n[k].unit = p
         /\ \A i \in DOMAIN m \ {k} : n[i] = m[i]
<1> DEFINE n == Holding(m, k, p)
           count == IF k \in DOMAIN m THEN m[k].ref_count ELSE 0
<1>1. DOMAIN n = DOMAIN m \cup {k} /\ \A i \in DOMAIN m \ {k} : n[i] = m[i]
  BY DEF Holding, WithNode
<1>2. n[k].unit = p /\ n[k].ref_count = count
  BY DEF Holding, WithNode
<1>3. count = Cardinality(Holders(it, k)) /\ count \in Nat
  <2>1. CASE k \in DOMAIN m
    BY <2>1 DEF Counted, Nodes, Pod
  <2>2. CASE k \notin DOMAIN m
    <3>1. Holders(it, k) = {}
      BY <2>2 DEF Counted, Holders
    <3> QED
      BY <2>2, <3>1, FS_EmptySet
  <2> QED
    BY <2>1, <2>2
<1>4. n[k] \in Pod
  BY <1>3 DEF Holding, WithNode, Pod
<1>5. p # NULL
  BY NullAssumption
<1> QED
  BY <1>1, <1>2, <1>3, <1>4, <1>5 DEF Nodes, Counted, Live

\* Taking the unit out of a node, or the node with it, keeps the counts.
LEMMA VacatedCounts ==
  ASSUME NEW m, Nodes(m), NEW it, Counted(m, it), NEW k \in Live(m)
  PROVE  LET n == Vacated(m, k) IN
         /\ Nodes(n) /\ Counted(n, it)
         /\ Live(n) = Live(m) \ {k}
         /\ \A i \in Live(n) : n[i].unit = m[i].unit
<1> DEFINE n == Vacated(m, k)
<1>0. k \in DOMAIN m /\ m[k] \in Pod
  BY DEF Live, Nodes
<1>1. CASE m[k].ref_count = 0
  <2>1. DOMAIN n = DOMAIN m \ {k} /\ \A i \in DOMAIN m \ {k} : n[i] = m[i]
    BY <1>1 DEF Vacated, WithoutNode
  <2>2. \A h \in Iters : it[h] # k
    BY <1>0, <1>1, HolderCounts DEF Counted
  <2> QED
    BY <2>1, <2>2 DEF Nodes, Counted, Live
<1>2. CASE m[k].ref_count # 0
  <2>1. /\ DOMAIN n = DOMAIN m /\ \A i \in DOMAIN m \ {k} : n[i] = m[i]
        /\ n[k].unit = NULL /\ n[k].ref_count = m[k].ref_count /\ n[k] \in Pod
    BY <1>0, <1>2 DEF Vacated, Pod
  <2>2. m[k].ref_count > 0
    BY <1>0, <1>2 DEF Pod
  <2> QED
    BY <2>1, <2>2 DEF Nodes, Counted, Live
<1> QED
  BY <1>1, <1>2

-----------------------------------------------------------------------------
(* The steps on the indices and the units.                                  *)

LEMMA IndexedSame ==
  ASSUME NEW m, NEW n, SameUnits(m, n), NEW lm, NEW ow, NEW ud, NEW hx,
         Indexed(m, lm, ow, ud, hx)
  PROVE  Indexed(n, lm, ow, ud, hx)
BY DEF Indexed, SameUnits

\* The nodes n are the nodes m with the unit p, not on the board, under k.
Joins(m, n, lm, ow, ud, hx, k, p, l) ==
  /\ lm \in [Locs -> Ids \cup {0}]
  /\ ow \in [Units -> {"free", "caller", "map"}]
  /\ ud \in [Units -> Ids \cup {0}] /\ hx \in [Units -> Locs \cup {NULL}]
  /\ Nodes(m) /\ Indexed(m, lm, ow, ud, hx)
  /\ k \in Ids /\ k \notin Live(m) /\ p \in Units /\ ow[p] # "map"
  /\ l \in Locs /\ lm[l] = 0
  /\ Live(n) = Live(m) \cup {k} /\ n[k].unit = p
  /\ \A i \in Live(m) : n[i].unit = m[i].unit

\* A unit that is not on the board comes to stand on a free hex.
LEMMA IndexedLink ==
  ASSUME NEW m, NEW n, NEW lm, NEW ow, NEW ud, NEW hx, NEW k, NEW p, NEW l,
         Joins(m, n, lm, ow, ud, hx, k, p, l)
  PROVE  Indexed(n, [lm EXCEPT ![l] = k], [ow EXCEPT ![p] = "map"],
                 [ud EXCEPT ![p] = k], [hx EXCEPT ![p] = l])
<1> USE DEF Joins
<1> DEFINE lm2 == [lm EXCEPT ![l] = k]
           ow2 == [ow EXCEPT ![p] = "map"]
           ud2 == [ud EXCEPT ![p] = k]
           hx2 == [hx EXCEPT ![p] = l]
<1>0. k # 0
  BY DEF Ids
<1>1. \A i \in Live(m) : m[i].unit \in Units /\ m[i].unit # p
  BY DEF Indexed, Live, Nodes, Pod
<1>2. \A i \in Locs : lm2[i] # 0 => lm2[i] \in Live(n) /\ hx2[n[lm2[i]].unit] = i
  BY <1>0, <1>1 DEF Indexed
<1>3. \A i \in Live(n) : /\ ud2[n[i].unit] = i
                         /\ hx2[n[i].unit] \in Locs
                         /\ lm2[hx2[n[i].unit]] = i
  <2>1. /\ ud2[n[k].unit] = k /\ hx2[n[k].unit] \in Locs
        /\ lm2[hx2[n[k].unit]] = k
    OBVIOUS
  <2>2. \A i \in Live(m) : /\ ud2[n[i].unit] = i
                           /\ hx2[n[i].unit] \in Locs
                           /\ lm2[hx2[n[i].unit]] = i
    <3> SUFFICES ASSUME NEW i \in Live(m)
                 PROVE  /\ ud2[n[i].unit] = i
                        /\ hx2[n[i].unit] \in Locs
                        /\ lm2[hx2[n[i].unit]] = i
      OBVIOUS
    <3>1. i # 0
      BY DEF Live, Nodes, Ids
    <3>2. ud2[n[i].unit] = ud[m[i].unit] /\ hx2[n[i].unit] = hx[m[i].unit]
      BY <1>1
    <3>3. lm[hx[m[i].unit]] = i /\ hx[m[i].unit] \in Locs /\ ud[m[i].unit] = i
      BY DEF Indexed
    <3> QED
      BY <3>1, <3>2, <3>3
  <2> QED
    BY <2>1, <2>2
<1>4. \A q \in Units : ow2[q] = "map" <=> \E i \in Live(n) : n[i].unit = q
  BY <1>1 DEF Indexed
<1>5. \A q \in Units : ow2[q] # "free" => ud2[q] \in Ids
  BY DEF Indexed
<1> QED
  BY <1>2, <1>3, <1>4, <1>5 DEF Indexed

\* The nodes n are the nodes m without the unit at l.  It is with o now, and
\* every unit that is not freed keeps its id and its hex.
Parts(m, n, lm, ow, ud, hx, ud2, hx2, l, o) ==
  /\ lm \in [Locs -> Ids \cup {0}]
  /\ ow \in [Units -> {"free", "caller", "map"}]
  /\ Nodes(m) /\ Indexed(m, lm, ow, ud, hx)
  /\ l \in Locs /\ lm[l] # 0 /\ o \in {"free", "caller"}
  /\ Live(n) = Live(m) \ {lm[l]} /\ \A i \in Live(n) : n[i].unit = m[i].unit
  /\ \A q \in Units : q # m[lm[l]].unit \/ o = "caller" =>
                        ud2[q] = ud[q] /\ hx2[q] = hx[q]

\* A unit leaves the board.
LEMMA IndexedVacate ==
  ASSUME NEW m, NEW n, NEW lm, NEW ow, NEW ud, NEW hx, NEW ud2, NEW hx2, NEW l, NEW o,
         Parts(m, n, lm, ow, ud, hx, ud2, hx2, l, o)
  PROVE  Indexed(n, [lm EXCEPT ![l] = 0], [ow EXCEPT ![m[lm[l]].unit] = o], ud2, hx2)
<1> USE DEF Parts
<1> DEFINE k == lm[l]
           p == m[k].unit
           lm2 == [lm EXCEPT ![l] = 0]
           ow2 == [ow EXCEPT ![p] = o]
<1>1. k \in Live(m) /\ hx[p] = l /\ p \in Units
  BY DEF Indexed, Live, Nodes, Pod
<1>2. \A i \in Live(m) : m[i].unit \in Units /\ (m[i].unit = p => i = k)
  BY <1>1 DEF Indexed, Live, Nodes, Pod
<1>3. \A i \in Live(n) : hx[m[i].unit] # l
  BY <1>1, <1>2 DEF Indexed
<1>4. \A i \in Locs : lm2[i] # 0 => lm2[i] \in Live(n) /\ hx2[n[lm2[i]].unit] = i
  BY <1>1, <1>2 DEF Indexed
<1>5. \A i \in Live(n) : /\ ud2[n[i].unit] = i
                         /\ hx2[n[i].unit] \in Locs
                         /\ lm2[hx2[n[i].unit]] = i
  BY <1>1, <1>2, <1>3 DEF Indexed
<1>6. \A q \in Units : ow2[q] = "map" <=> \E i \in Live(n) : n[i].unit = q
  BY <1>1, <1>2 DEF Indexed
<1>7. \A q \in Units : ow2[q] # "free" => ud2[q] \in Ids
  BY <1>1 DEF Indexed
<1> QED
  BY <1>4, <1>5, <1>6, <1>7 DEF Indexed

-----------------------------------------------------------------------------
(* The inductive invariant.                                                 *)

\* IInv is what its two halves say, with the types of the other variables.
LEMMA IInvParts ==
  IInv <=> /\ Nodes(umap) /\ Counted(umap, iter) /\ iter \in [Iters -> Position]
           /\ Indexed(umap, lmap, owner, uid, hex)
           /\ lmap \in [Locs -> Ids \cup {0}]
           /\ owner \in [Units -> {"free", "caller", "map"}]
           /\ uid \in [Units -> Ids \cup {0}]
           /\ hex \in [Units -> Locs \cup {NULL}]
           /\ next_id \in 0 .. MaxId
BY DEF IInv, TypeOK, Nodes, Position

LEMMA InitIInv == Init => IInv
<1> SUFFICES ASSUME Init PROVE IInv
  OBVIOUS
<1>1. DOMAIN umap = {} /\ Live(umap) = {}
  BY DEF Init, Live
<1>2. 0 \in 0 .. MaxId /\ 0 \notin Ids
  BY MaxIdAssumption DEF Ids
<1>3. Counted(umap, iter) /\ iter \in [Iters -> Position]
  BY <1>1, <1>2 DEF Init, Counted, Position, Singular
<1> QED
  BY <1>1, <1>2, <1>3, IInvParts DEF Init, Nodes, Indexed

\* A step that only turns an iterator.
LEMMA TurnStep ==
  ASSUME IInv, NEW h \in Iters, NEW k \in DOMAIN umap \cup {Singular, End},
         Assign(umap, h, k), UNCHANGED <<lmap, unitVars>>
  PROVE  IInv'
<1>1. Nodes(umap) /\ Counted(umap, iter) /\ iter \in [Iters -> Position]
  BY IInvParts
<1>2. /\ Nodes(umap') /\ Counted(umap', iter') /\ SameUnits(umap, umap')
      /\ iter' \in [Iters -> Position]
  BY <1>1, AssignCounts
<1>3. Indexed(umap', lmap, owner, uid, hex)
  BY <1>2, IndexedSame, IInvParts
<1> QED
  BY <1>2, <1>3, IInvParts DEF unitVars, IInv, TypeOK, Nodes, Position

LEMMA LeastLive ==
  ASSUME Nodes(umap), NEW S \in SUBSET DOMAIN umap
  PROVE  /\ Least(S, End) \in DOMAIN umap \cup {Singular, End}
         /\ \A d \in DOMAIN umap \cup {End} :
              Greatest(S, d) \in DOMAIN umap \cup {Singular, End}
<1>1. S \in SUBSET Nat /\ S \in SUBSET (0 .. MaxId) /\ MaxId \in Nat
  BY MaxIdAssumption DEF Nodes, Ids
<1>2. Least(S, End) \in S \cup {End}
  BY <1>1, LeastType
<1>3. \A d : Greatest(S, d) \in S \cup {d}
  BY <1>1, GreatestType
<1> QED
  BY <1>2, <1>3

LEMMA IteratorStepIInv ==
  ASSUME IInv, NEW h \in Iters, IteratorStep(h) PROVE IInv'
<1> USE DEF IteratorStep
<1>0. Nodes(umap) /\ Counted(umap, iter) /\ iter \in [Iters -> Position]
  BY IInvParts
<1>1. CASE Release(h)
  BY <1>1, TurnStep DEF Release
<1>2. CASE Begin(h)
  <2>1. Least(Live(umap), End) \in DOMAIN umap \cup {Singular, End}
    BY <1>0, LeastLive DEF Live
  <2> QED
    BY <1>2, <2>1, TurnStep DEF Begin
<1>3. CASE Advance(h)
  <2> DEFINE S == {k \in Live(umap) : k > iter[h]}
  <2>1. S \in SUBSET DOMAIN umap
    BY DEF Live
  <2>2. Least(S, End) \in DOMAIN umap \cup {Singular, End}
    BY <1>0, <2>1, LeastLive
  <2> QED
    BY <1>3, <2>2, TurnStep DEF Advance
<1>4. CASE Retreat(h)
  <2> DEFINE S == {k \in Live(umap) : k < iter[h]}
             first == Least(DOMAIN umap, End)
  <2>1. S \in SUBSET DOMAIN umap
    BY DEF Live
  <2>2. first \in DOMAIN umap \cup {End}
    <3>1. DOMAIN umap \in SUBSET Nat
      BY <1>0 DEF Nodes, Ids
    <3> QED
      BY <3>1, LeastType
  <2>3. Greatest(S, first) \in DOMAIN umap \cup {Singular, End}
    <3> HIDE DEF S, first
    <3> QED
      BY <1>0, <2>1, <2>2, LeastLive
  <2> QED
    BY <1>4, <2>3, TurnStep DEF Retreat
<1>5. CASE \E g \in Iters : Copy(h, g)
  <2>1. PICK g \in Iters : Copy(h, g)
    BY <1>5
  <2>2. iter[g] \in DOMAIN umap \cup {Singular, End}
    BY <1>0 DEF Counted, Position
  <2> QED
    BY <2>1, <2>2, TurnStep DEF Copy
<1>6. CASE \E k \in Ids : FindId(h, k)
  <2>1. PICK k \in Ids : FindId(h, k)
    BY <1>6
  <2>2. Live(umap) \subseteq DOMAIN umap
    BY DEF Live
  <2> QED
    BY <2>1, <2>2, TurnStep DEF FindId
<1>7. CASE \E l \in Locs : FindLoc(h, l)
  <2>1. PICK l \in Locs : FindLoc(h, l)
    BY <1>7
  <2>2. lmap[l] # 0 => lmap[l] \in DOMAIN umap
    BY IInvParts DEF Indexed, Live
  <2> QED
    BY <2>1, <2>2, TurnStep DEF FindLoc
<1> QED
  BY <1>1, <1>2, <1>3, <1>4, <1>5, <1>6, <1>7

LEMMA CallerStepIInv ==
  ASSUME IInv, NEW p \in Units, CallerStep(p) PROVE IInv'
<1>0. /\ Indexed(umap, lmap, owner, uid, hex) /\ Nodes(umap)
      /\ owner[p] # "map" => \A k \in Live(umap) : umap[k].unit # p
  BY IInvParts DEF Indexed
<1>1. CASE \E k \in Ids, l \in Locs \cup {NULL} : NewUnit(p, k, l)
  <2>1. PICK k \in Ids, l \in Locs \cup {NULL} : NewUnit(p, k, l)
    BY <1>1
  <2>2. next_id' \in 0 .. MaxId
    BY <2>1, IInvParts DEF NewUnit, Ids
  <2>3. Indexed(umap, lmap, owner', uid', hex')
    BY <1>0, <2>1, IInvParts DEF NewUnit, Indexed
  <2> QED
    BY <2>1, <2>2, <2>3, IInvParts DEF NewUnit, IInv, TypeOK
<1>2. CASE \E l \in Locs \cup {NULL} : SetLocation(p, l)
  <2>1. PICK l \in Locs \cup {NULL} : SetLocation(p, l)
    BY <1>2
  <2>2. Indexed(umap, lmap, owner', uid', hex')
    BY <1>0, <2>1, IInvParts DEF SetLocation, Indexed
  <2> QED
    BY <2>1, <2>2, IInvParts DEF SetLocation, IInv, TypeOK
<1>3. CASE DeleteUnit(p)
  <2>1. Indexed(umap, lmap, owner', uid', hex')
    BY <1>0, <1>3, IInvParts DEF DeleteUnit, Indexed
  <2> QED
    BY <1>3, <2>1, IInvParts DEF DeleteUnit, IInv, TypeOK
<1> QED
  BY <1>1, <1>2, <1>3 DEF CallerStep

\* The key of a new unit is free or a ghost's; a key from the counter is free.
LEMMA StoredUnderType ==
  ASSUME NEW m, next_id \in 0 .. MaxId, NEW id, NEW k \in Ids, StoredUnder(m, id, k)
  PROVE  k \notin Live(m) /\ next_id' \in 0 .. MaxId /\ (k # id => k \notin DOMAIN m)
<1> DEFINE S == {i \in (next_id + 1) .. MaxId : i \notin DOMAIN m}
<1>1. S \in SUBSET Nat
  BY MaxIdAssumption
<1>2. Least(S, 0) \in S \cup {0}
  BY <1>1, LeastType
<1>3. CASE id \notin Live(m) /\ k = id /\ UNCHANGED next_id
  BY <1>3
<1>4. CASE k = Least(S, 0) /\ k # 0 /\ next_id' = k
  BY <1>2, <1>4, MaxIdAssumption DEF Live, Ids
<1> QED
  BY <1>3, <1>4 DEF StoredUnder

\* The unit q, off the board m, goes to the free hex l under the key k.
LEMMA LinkStep ==
  ASSUME IInv, NEW m, Nodes(m), Counted(m, iter),
         NEW lm \in [Locs -> Ids \cup {0}],
         NEW ow \in [Units -> {"free", "caller", "map"}],
         NEW ud \in [Units -> Ids \cup {0}], NEW hx \in [Units -> Locs \cup {NULL}],
         Indexed(m, lm, ow, ud, hx),
         NEW q \in Units, ow[q] # "map", NEW k \in Ids, k \notin Live(m),
         next_id' \in 0 .. MaxId, NEW l \in Locs, Link(m, lm, q, k, l),
         owner' = [ow EXCEPT ![q] = "map"], uid' = [ud EXCEPT ![q] = k],
         hex' = [hx EXCEPT ![q] = l]
  PROVE  IInv'
<1> DEFINE n == Holding(m, k, q)
<1>1. lm[l] = 0 /\ lmap' = [lm EXCEPT ![l] = k] /\ Return(n, k)
  BY DEF Link
<1>2. /\ Nodes(n) /\ Counted(n, iter) /\ DOMAIN n = DOMAIN m \cup {k}
      /\ Live(n) = Live(m) \cup {k} /\ n[k].unit = q
      /\ \A i \in DOMAIN m \ {k} : n[i] = m[i]
  BY HoldingCounts
<1> HIDE DEF n
<1>3. /\ Nodes(umap') /\ Counted(umap', iter') /\ SameUnits(n, umap')
      /\ iter' \in [Iters -> Position]
  BY <1>1, <1>2, ReturnCounts, IInvParts
<1>4. \A i \in Live(m) : n[i].unit = m[i].unit
  BY <1>2 DEF Live
<1>5. Indexed(n, lmap', owner', uid', hex')
  <2>1. Joins(m, n, lm, ow, ud, hx, k, q, l)
    BY <1>1, <1>2, <1>4 DEF Joins
  <2>2. Indexed(n, [lm EXCEPT ![l] = k], [ow EXCEPT ![q] = "map"],
                [ud EXCEPT ![q] = k], [hx EXCEPT ![q] = l])
    BY <2>1, IndexedLink
  <2> QED
    BY <1>1, <2>2
<1>6. Indexed(umap', lmap', owner', uid', hex')
  BY <1>3, <1>5, IndexedSame
<1>7. lmap' \in [Locs -> Ids \cup {0}]
  BY <1>1
<1> QED
  BY <1>3, <1>6, <1>7 DEF IInv, TypeOK, Nodes, Position

\* The hex l is taken and the key k is new: the board is as before.
LEMMA UnlinkStep ==
  ASSUME IInv, NEW k \in Ids, k \notin DOMAIN umap, next_id' \in 0 .. MaxId,
         NEW l \in Locs, Unlink(umap, lmap, k, l),
         owner' = owner, hex' = hex, uid' \in [Units -> Ids \cup {0}],
         \A q \in Units : uid'[q] # uid[q] => owner[q] = "caller" /\ uid'[q] = k
  PROVE  IInv'
<1> DEFINE n == WithoutNode(umap, k)
<1>1. lmap' = lmap /\ Return(n, End)
  BY DEF Unlink
<1>2. DOMAIN n = DOMAIN umap /\ \A i \in DOMAIN n : n[i] = umap[i]
  BY DEF WithoutNode
<1> HIDE DEF n
<1>3. Nodes(n) /\ Counted(n, iter) /\ SameUnits(umap, n)
  BY <1>2, IInvParts DEF Nodes, Counted, SameUnits, Live
<1>4. /\ Nodes(umap') /\ Counted(umap', iter') /\ SameUnits(n, umap')
      /\ iter' \in [Iters -> Position]
  BY <1>1, <1>3, ReturnCounts, IInvParts
<1>5. \A i \in Live(umap) : uid'[umap[i].unit] = uid[umap[i].unit]
  <2> SUFFICES ASSUME NEW i \in Live(umap), uid'[umap[i].unit] # uid[umap[i].unit]
               PROVE  FALSE
    OBVIOUS
  <2>1. umap[i].unit \in Units /\ owner[umap[i].unit] = "map"
    BY IInvParts DEF Indexed, Live, Nodes, Pod
  <2> QED
    BY <2>1
<1>6. Indexed(umap, lmap, owner, uid', hex)
  BY <1>5, IInvParts DEF Indexed
<1>7. Indexed(umap', lmap', owner', uid', hex')
  BY <1>1, <1>3, <1>4, <1>6, IndexedSame
<1> QED
  BY <1>1, <1>4, <1>7, IInvParts DEF IInv, TypeOK, Nodes, Position

\* Nothing is stored at a location that is not valid.
LEMMA DiscardIInv ==
  ASSUME IInv, Discard, UNCHANGED <<owner, uid, hex>> PROVE IInv'
<1>1. Nodes(umap) /\ Counted(umap, iter) /\ iter \in [Iters -> Position]
  BY IInvParts
<1>2. /\ Nodes(umap') /\ Counted(umap', iter') /\ SameUnits(umap, umap')
      /\ iter' \in [Iters -> Position]
  BY <1>1, ReturnCounts DEF Discard
<1>3. Indexed(umap', lmap, owner, uid, hex)
  BY <1>2, IndexedSame, IInvParts
<1> QED
  BY <1>2, <1>3, IInvParts DEF Discard, IInv, TypeOK, Nodes, Position

\* A successful or a failed insertion of the caller's unit p.
LEMMA InsertIInv ==
  ASSUME IInv, NEW p \in Units, hex[p] # NULL, GhostOntoVacant(uid[p], hex[p]), Insert(p)
  PROVE  IInv'
<1>1. PICK k \in Ids :
        /\ StoredUnder(umap, uid[p], k)
        /\ uid' = [uid EXCEPT ![p] = k]
        /\ \/ Link(umap, lmap, p, k, hex[p]) /\ owner' = [owner EXCEPT ![p] = "map"]
           \/ Unlink(umap, lmap, k, hex[p]) /\ UNCHANGED owner
  BY DEF Insert
<1>2. /\ owner[p] = "caller" /\ hex' = hex
      /\ k \notin Live(umap) /\ next_id' \in 0 .. MaxId
      /\ k # uid[p] => k \notin DOMAIN umap
  BY <1>1, StoredUnderType, IInvParts DEF Insert
<1>3. hex[p] \in Locs
  BY IInvParts
<1>4. CASE Link(umap, lmap, p, k, hex[p]) /\ owner' = [owner EXCEPT ![p] = "map"]
  <2>1. hex' = [hex EXCEPT ![p] = hex[p]]
    BY <1>2, IInvParts
  <2>2. /\ Nodes(umap) /\ Counted(umap, iter) /\ Indexed(umap, lmap, owner, uid, hex)
        /\ lmap \in [Locs -> Ids \cup {0}]
        /\ owner \in [Units -> {"free", "caller", "map"}]
        /\ uid \in [Units -> Ids \cup {0}]
        /\ hex \in [Units -> Locs \cup {NULL}]
    BY IInvParts
  <2> QED
    BY <1>1, <1>2, <1>3, <1>4, <2>1, <2>2, LinkStep
<1>5. CASE Unlink(umap, lmap, k, hex[p]) /\ UNCHANGED owner
  <2>1. k \notin DOMAIN umap
    BY <1>2, <1>5 DEF Unlink, GhostOntoVacant
  <2>2. uid' \in [Units -> Ids \cup {0}]
    BY <1>1, IInvParts
  <2>3. \A q \in Units : uid'[q] # uid[q] => owner[q] = "caller" /\ uid'[q] = k
    BY <1>1, <1>2, IInvParts
  <2> QED
    BY <1>2, <1>3, <1>5, <2>1, <2>2, <2>3, UnlinkStep
<1> QED
  BY <1>1, <1>4, <1>5

\* The same of a copy of s at the hex l.
LEMMA AddIInv ==
  ASSUME IInv, NEW s \in Units, NEW p \in Units, NEW l \in Locs,
         GhostOntoVacant(uid[s], l), Add(s, p, l)
  PROVE  IInv'
<1>1. PICK k \in Ids :
        /\ StoredUnder(umap, uid[s], k)
        /\ \/ /\ Link(umap, lmap, p, k, l)
              /\ owner' = [owner EXCEPT ![p] = "map"]
              /\ uid' = [uid EXCEPT ![p] = k]
              /\ hex' = [hex EXCEPT ![p] = l]
           \/ Unlink(umap, lmap, k, l) /\ UNCHANGED <<owner, uid, hex>>
  BY DEF Add
<1>2. /\ owner[p] # "map"
      /\ k \notin Live(umap) /\ next_id' \in 0 .. MaxId
      /\ k # uid[s] => k \notin DOMAIN umap
  BY <1>1, StoredUnderType, IInvParts DEF Add
<1>3. CASE /\ Link(umap, lmap, p, k, l)
           /\ owner' = [owner EXCEPT ![p] = "map"]
           /\ uid' = [uid EXCEPT ![p] = k]
           /\ hex' = [hex EXCEPT ![p] = l]
  <2>1. /\ Nodes(umap) /\ Counted(umap, iter) /\ Indexed(umap, lmap, owner, uid, hex)
        /\ lmap \in [Locs -> Ids \cup {0}]
        /\ owner \in [Units -> {"free", "caller", "map"}]
        /\ uid \in [Units -> Ids \cup {0}]
        /\ hex \in [Units -> Locs \cup {NULL}]
    BY IInvParts
  <2> QED
    BY <1>2, <1>3, <2>1, LinkStep
<1>4. CASE Unlink(umap, lmap, k, l) /\ UNCHANGED <<owner, uid, hex>>
  <2>1. k \notin DOMAIN umap
    BY <1>2, <1>4 DEF Unlink, GhostOntoVacant
  <2>2. uid' \in [Units -> Ids \cup {0}] /\ uid' = uid
    BY <1>4, IInvParts
  <2> QED
    BY <1>2, <1>4, <2>1, <2>2, UnlinkStep
<1> QED
  BY <1>1, <1>3, <1>4

\* The unit at a hex, and the board without it.
LEMMA VacateStep ==
  ASSUME IInv, NEW l \in Locs, lmap[l] # 0
  PROVE  LET k == lmap[l]
             n == Vacated(umap, k)
         IN /\ k \in Live(umap) /\ k \in Ids
            /\ umap[k].unit \in Units /\ owner[umap[k].unit] = "map"
            /\ hex[umap[k].unit] = l /\ uid[umap[k].unit] = k
            /\ Nodes(n) /\ Counted(n, iter)
            /\ Live(n) = Live(umap) \ {k}
            /\ \A i \in Live(n) : n[i].unit = umap[i].unit
<1> DEFINE k == lmap[l]
<1>1. /\ k \in Live(umap) /\ k \in Ids
      /\ umap[k].unit \in Units /\ owner[umap[k].unit] = "map"
      /\ hex[umap[k].unit] = l /\ uid[umap[k].unit] = k
  BY IInvParts DEF Indexed, Live, Nodes, Pod
<1> HIDE DEF k
<1> QED
  BY <1>1, VacatedCounts, IInvParts DEF k

LEMMA ReplaceIInv ==
  ASSUME IInv, NEW s \in Units, NEW l \in Locs, Replace(s, l) PROVE IInv'
<1> DEFINE q == umap[lmap[l]].unit
           m == Vacated(umap, lmap[l])
           lm == [lmap EXCEPT ![l] = 0]
           ow == [owner EXCEPT ![q] = "caller"]
<1>0. owner[s] # "free" => uid[s] \in Ids
  BY IInvParts DEF Indexed
<1>1. lmap[l] # 0 /\ UNCHANGED <<owner, hex>>
  BY DEF Replace
<1>2. PICK id, k \in Ids : /\ StoredUnder(m, id, k)
                           /\ Link(m, lm, q, k, l)
                           /\ uid' = [uid EXCEPT ![q] = k]
  BY <1>0 DEF Replace
<1>3. /\ q \in Units /\ owner[q] = "map" /\ hex[q] = l
      /\ Nodes(m) /\ Counted(m, iter) /\ Live(m) = Live(umap) \ {lmap[l]}
      /\ \A i \in Live(m) : m[i].unit = umap[i].unit
  BY <1>1, VacateStep
<1>4. /\ owner \in [Units -> {"free", "caller", "map"}]
      /\ lmap \in [Locs -> Ids \cup {0}]
      /\ uid \in [Units -> Ids \cup {0}] /\ hex \in [Units -> Locs \cup {NULL}]
      /\ next_id \in 0 .. MaxId /\ Nodes(umap)
      /\ Indexed(umap, lmap, owner, uid, hex)
  BY IInvParts
<1> HIDE DEF m
<1>5. Indexed(m, lm, ow, uid, hex)
  <2>1. Parts(umap, m, lmap, owner, uid, hex, uid, hex, l, "caller")
    BY <1>1, <1>3, <1>4 DEF Parts
  <2> QED
    BY <2>1, IndexedVacate
<1>6. k \notin Live(m) /\ next_id' \in 0 .. MaxId
  BY <1>2, <1>4, StoredUnderType
<1>7. owner' = [ow EXCEPT ![q] = "map"] /\ hex' = [hex EXCEPT ![q] = l]
  BY <1>1, <1>3, <1>4
<1>8. /\ lm \in [Locs -> Ids \cup {0}]
      /\ ow \in [Units -> {"free", "caller", "map"}] /\ ow[q] # "map"
  BY <1>3, <1>4
<1> HIDE DEF q, lm, ow
<1> QED
  BY <1>2, <1>3, <1>4, <1>5, <1>6, <1>7, <1>8, LinkStep

\* Extraction and erasure differ in who has the unit afterwards.
LEMMA VacateIInv ==
  ASSUME IInv, NEW l \in Locs, Extract(l) \/ Erase(l) PROVE IInv'
<1> DEFINE q == umap[lmap[l]].unit
           m == Vacated(umap, lmap[l])
           lm == [lmap EXCEPT ![l] = 0]
<1>1. lmap[l] # 0 /\ umap' = m /\ lmap' = lm /\ UNCHANGED <<iter, next_id>>
  BY DEF Extract, Erase
<1>2. /\ q \in Units /\ owner[q] = "map" /\ hex[q] = l
      /\ Nodes(m) /\ Counted(m, iter) /\ Live(m) = Live(umap) \ {lmap[l]}
      /\ \A i \in Live(m) : m[i].unit = umap[i].unit
  BY <1>1, VacateStep
<1>3. /\ owner \in [Units -> {"free", "caller", "map"}]
      /\ lmap \in [Locs -> Ids \cup {0}]
      /\ uid \in [Units -> Ids \cup {0}] /\ hex \in [Units -> Locs \cup {NULL}]
      /\ Nodes(umap) /\ Indexed(umap, lmap, owner, uid, hex)
  BY IInvParts
<1> HIDE DEF m
<1>4. Indexed(m, lm, owner', uid', hex')
  <2>1. CASE Extract(l)
    <3>1. owner' = [owner EXCEPT ![q] = "caller"] /\ UNCHANGED <<uid, hex>>
      BY <2>1 DEF Extract
    <3>2. Parts(umap, m, lmap, owner, uid, hex, uid, hex, l, "caller")
      BY <1>1, <1>2, <1>3 DEF Parts
    <3> QED
      BY <3>1, <3>2, IndexedVacate
  <2>2. CASE Erase(l)
    <3>1. /\ owner' = [owner EXCEPT ![q] = "free"]
          /\ \A p \in Units : p # q => uid'[p] = uid[p] /\ hex'[p] = hex[p]
      BY <1>3, <2>2 DEF Erase, Freed
    <3>2. Parts(umap, m, lmap, owner, uid, hex, uid', hex', l, "free")
      BY <1>1, <1>2, <1>3, <3>1 DEF Parts
    <3> QED
      BY <3>1, <3>2, IndexedVacate
  <2> QED
    BY <2>1, <2>2
<1>5. /\ owner' \in [Units -> {"free", "caller", "map"}] /\ lm \in [Locs -> Ids \cup {0}]
      /\ uid' \in [Units -> Ids \cup {0}] /\ hex' \in [Units -> Locs \cup {NULL}]
  BY <1>2, <1>3 DEF Extract, Erase, Freed
<1> HIDE DEF lm
<1> QED
  BY <1>1, <1>2, <1>4, <1>5, IInvParts DEF IInv, TypeOK, Nodes, Position

LEMMA MoveIInv ==
  ASSUME IInv, NEW src \in Locs, NEW dst \in Locs, Move(src, dst) PROVE IInv'
<1> DEFINE k == IF lmap[src] = 0 THEN End ELSE lmap[src]
<1>1. Return(umap, k) /\ UNCHANGED <<owner, uid, next_id>>
  BY DEF Move
<1>2. k \in DOMAIN umap \cup {Singular, End}
  BY IInvParts DEF Indexed, Live
<1>3. /\ Nodes(umap') /\ Counted(umap', iter') /\ SameUnits(umap, umap')
      /\ iter' \in [Iters -> Position]
  <2> HIDE DEF k
  <2> QED
    BY <1>1, <1>2, IInvParts, ReturnCounts
<1>4. Indexed(umap, lmap', owner, uid, hex')
  <2>1. CASE UNCHANGED <<lmap, hex>>
    BY <2>1, IInvParts
  <2>2. CASE /\ lmap[src] # 0 /\ lmap[dst] = 0
             /\ lmap' = [lmap EXCEPT ![src] = 0, ![dst] = lmap[src]]
             /\ hex' = [hex EXCEPT ![umap[lmap[src]].unit] = dst]
    <3> DEFINE q == umap[lmap[src]].unit
    <3>1. /\ lmap[src] \in Live(umap) /\ q \in Units
          /\ hex[q] = src /\ uid[q] = lmap[src] /\ src # dst
      BY <2>2, VacateStep
    <3>2. \A i \in Live(umap) : /\ umap[i].unit \in Units
                                /\ i # lmap[src] => umap[i].unit # q
      BY <2>2, <3>1, IInvParts DEF Indexed, Live, Nodes, Pod, Ids
    <3>3. \A i \in Locs : lmap'[i] # 0 =>
             lmap'[i] \in Live(umap) /\ hex'[umap[lmap'[i]].unit] = i
      BY <2>2, <3>1, <3>2, IInvParts DEF Indexed
    <3>4. \A i \in Live(umap) : /\ uid[umap[i].unit] = i
                                /\ hex'[umap[i].unit] \in Locs
                                /\ lmap'[hex'[umap[i].unit]] = i
      <4> SUFFICES ASSUME NEW i \in Live(umap)
                   PROVE  /\ uid[umap[i].unit] = i
                          /\ hex'[umap[i].unit] \in Locs
                          /\ lmap'[hex'[umap[i].unit]] = i
        OBVIOUS
      <4>1. /\ uid[umap[i].unit] = i /\ hex[umap[i].unit] \in Locs
            /\ lmap[hex[umap[i].unit]] = i
        BY IInvParts DEF Indexed
      <4>2. /\ lmap \in [Locs -> Ids \cup {0}]
            /\ hex \in [Units -> Locs \cup {NULL}]
        BY IInvParts
      <4>3. CASE i = lmap[src]
        BY <2>2, <3>1, <4>1, <4>2, <4>3
      <4>4. CASE i # lmap[src]
        <5>1. hex'[umap[i].unit] = hex[umap[i].unit]
          BY <2>2, <3>1, <3>2, <4>2, <4>4
        <5>2. hex[umap[i].unit] # src
          BY <4>1, <4>4
        <5>3. i # 0
          BY IInvParts DEF Live, Nodes, Ids
        <5>4. hex[umap[i].unit] # dst
          BY <2>2, <4>1, <5>3
        <5> QED
          BY <2>2, <4>1, <4>2, <5>1, <5>2, <5>4
      <4> QED
        BY <4>3, <4>4
    <3>5. \A p \in Units : owner[p] # "free" => uid[p] \in Ids
      BY <2>2, IInvParts DEF Indexed
    <3> QED
      BY <3>3, <3>4, <3>5, IInvParts DEF Indexed
  <2> QED
    BY <2>1, <2>2 DEF Move
<1>5. Indexed(umap', lmap', owner', uid', hex')
  BY <1>1, <1>3, <1>4, IndexedSame
<1>6. lmap' \in [Locs -> Ids \cup {0}] /\ hex' \in [Units -> Locs \cup {NULL}]
  BY IInvParts DEF Move
<1> QED
  BY <1>1, <1>3, <1>5, <1>6, IInvParts DEF IInv, TypeOK, Nodes, Position

LEMMA ClearIInv == ASSUME IInv, Clear PROVE IInv'
<1>1. DOMAIN umap' = {} /\ Live(umap') = {}
  BY DEF Clear, Live
<1>2. Nodes(umap') /\ Counted(umap', iter')
  <2>1. \A h \in Iters : iter'[h] \notin Ids
    BY MaxIdAssumption DEF Clear, Ids, Singular, End
  <2> QED
    BY <1>1, <2>1 DEF Nodes, Counted
<1>3. Indexed(umap', lmap', owner', uid', hex')
  BY <1>1, IInvParts DEF Clear, Indexed
<1>4. /\ lmap' \in [Locs -> Ids \cup {0}] /\ iter' = iter /\ next_id' = next_id
      /\ owner' \in [Units -> {"free", "caller", "map"}]
      /\ uid' \in [Units -> Ids \cup {0}] /\ hex' \in [Units -> Locs \cup {NULL}]
  BY IInvParts DEF Clear
<1> QED
  BY <1>2, <1>3, <1>4, IInvParts DEF IInv, TypeOK, Nodes, Position

LEMMA StutterIInv == ASSUME IInv, UNCHANGED vars PROVE IInv'
BY DEF IInv, TypeOK, Counted, Indexed, Live, vars

\* The invariant holds for every number of units, hexes, iterators and ids.
THEOREM IInvariant == Spec => []IInv
<1>1. ASSUME IInv, [Next]_vars PROVE IInv'
  <2>1. CASE \E h \in Iters : IteratorStep(h)
    BY <1>1, <2>1, IteratorStepIInv
  <2>2. CASE \E p \in Units : CallerStep(p)
    BY <1>1, <2>2, CallerStepIInv
  <2>3. CASE InsertStep
    <3>1. CASE \E l \in Locs : PutAt(l)
      BY <1>1, <3>1, NullAssumption, InsertIInv, AddIInv DEF PutAt
    <3>2. CASE \E p \in Units : hex[p] = NULL /\ Insert(p)
      BY <1>1, <3>2, DiscardIInv DEF Insert
    <3>3. CASE \E s \in Units : AddNowhere(s)
      BY <1>1, <3>3, DiscardIInv DEF AddNowhere
    <3>4. CASE \E s \in Units, l \in Locs : Replace(s, l)
      BY <1>1, <3>4, ReplaceIInv
    <3> QED
      BY <2>3, <3>1, <3>2, <3>3, <3>4 DEF InsertStep
  <2>4. CASE BoardStep
    BY <1>1, <2>4, VacateIInv, MoveIInv, ClearIInv DEF BoardStep
  <2>5. CASE UNCHANGED vars
    BY <1>1, <2>5, StutterIInv
  <2> QED
    BY <1>1, <2>1, <2>2, <2>3, <2>4, <2>5 DEF Next
<1> QED
  BY <1>1, InitIInv, PTL DEF Spec

\* The variables keep their types.
THEOREM TypeCorrect == Spec => []TypeOK
BY IInvariant, PTL DEF IInv

\* unit_map.hpp's promise: whatever is added, extracted, erased, moved and put
\* back, an iterator points at a node that exists and is counted.
THEOREM IteratorsAlwaysPersist == Spec => []IteratorsPersist
<1>1. IInv => IteratorsPersist
  BY DEF IInv, Counted, Holders, IteratorsPersist
<1> QED
  BY <1>1, IInvariant, PTL

\* No node outlives both its unit and its last iterator.
THEOREM NeverIdleGhost == Spec => []NoIdleGhost
<1>1. IInv => NoIdleGhost
  BY DEF IInv, Counted, NoIdleGhost
<1> QED
  BY <1>1, IInvariant, PTL

\* umap_ and lmap_ describe the same board after every operation.
THEOREM IndicesAlwaysAgree == Spec => []IndicesAgree
<1>1. IInv => IndicesAgree
  BY DEF IInv, Indexed, IndicesAgree
<1> QED
  BY <1>1, IInvariant, PTL

\* The map owns the units it holds and no other.
THEOREM UnitsAlwaysOwned == Spec => []UnitsOwned
<1>1. IInv => UnitsOwned
  BY DEF IInv, Indexed, UnitsOwned
<1> QED
  BY <1>1, IInvariant, PTL

-----------------------------------------------------------------------------
(***************************************************************************)
(* UnitMap implements UnitBoard.  The two indices and the nodes show a      *)
(* board: a step that leaves the units under their ids leaves it, and the   *)
(* others place, remove, exchange or move one unit on it, or sweep it.  An  *)
(* iterator turns to the unit placed or moved, or to what can be looked up.  *)
(***************************************************************************)

-----------------------------------------------------------------------------
(* What the nodes and the index show.                                       *)

\* The index lm names live nodes of m, each of them once.
Leads(m, lm) == /\ lm \in [Locs -> Ids \cup {0}]
                /\ \A l \in Locs : lm[l] # 0 => lm[l] \in Live(m)
                /\ \A i, j \in Locs : lm[i] # 0 /\ lm[i] = lm[j] => i = j

LEMMA IndexLeads == IInv => Leads(umap, lmap)
BY IInvParts DEF Indexed, Leads

\* Ghosts do not show.
LEMMA NamedLive ==
  ASSUME NEW m PROVE Named(m) = [k \in Ids |-> IF k \in Live(m) THEN m[k].unit ELSE NULL]
BY DEF Named, Live

\* The same units under the same ids show the same board.
LEMMA SameShows ==
  ASSUME NEW m, NEW n, NEW lm, SameUnits(m, n), Leads(m, lm)
  PROVE  /\ Named(n) = Named(m) /\ Standing(n, lm) = Standing(m, lm)
         /\ Leads(n, lm)
<1>1. Live(n) = Live(m) /\ \A k \in Live(m) : n[k].unit = m[k].unit
  BY DEF SameUnits
<1>2. Named(n) = Named(m)
  BY <1>1, NamedLive
<1>3. Standing(n, lm) = Standing(m, lm)
  BY <1>1 DEF Standing, Leads
<1> QED
  BY <1>1, <1>2, <1>3 DEF Leads

\* The nodes n are m with the unit p under the key k, for the free hex l.
Arrives(m, n, lm, k, p, l) ==
  /\ Leads(m, lm) /\ k \in Ids /\ k \notin Live(m) /\ l \in Locs /\ lm[l] = 0
  /\ Live(n) = Live(m) \cup {k} /\ n[k].unit = p
  /\ \A i \in Live(m) : n[i].unit = m[i].unit

\* They show the board of m with p placed on it.
Placed(m, n, lm, k, p, l) ==
  /\ Named(n) = [Named(m) EXCEPT ![k] = p] /\ Named(m)[k] = NULL
  /\ Standing(n, [lm EXCEPT ![l] = k]) = [Standing(m, lm) EXCEPT ![l] = p]
  /\ Standing(m, lm)[l] = NULL

\* A unit p that comes to the hex l under the key k.
LEMMA LinkShows ==
  ASSUME NEW m, NEW n, NEW lm, NEW k, NEW p, NEW l, Arrives(m, n, lm, k, p, l)
  PROVE  Placed(m, n, lm, k, p, l) /\ Leads(n, [lm EXCEPT ![l] = k])
<1> USE DEF Arrives
<1>1. Named(n) = [Named(m) EXCEPT ![k] = p] /\ Named(m)[k] = NULL
  BY NamedLive
<1>2. 0 \notin Ids
  BY DEF Ids
<1> DEFINE lm2 == [lm EXCEPT ![l] = k]
<1>3. lm2 \in [Locs -> Ids \cup {0}] /\ lm2[l] = k /\ \A i \in Locs \ {l} : lm2[i] = lm[i]
  BY DEF Leads
<1> HIDE DEF lm2
<1>4. Standing(n, lm2) = [Standing(m, lm) EXCEPT ![l] = p]
  <2>1. \A i \in Locs : Standing(n, lm2)[i] = [Standing(m, lm) EXCEPT ![l] = p][i]
    <3> SUFFICES ASSUME NEW i \in Locs
                 PROVE  Standing(n, lm2)[i] = [Standing(m, lm) EXCEPT ![l] = p][i]
      OBVIOUS
    <3>1. CASE i = l
      BY <1>2, <1>3, <3>1 DEF Standing
    <3>2. CASE i # l
      <4>1. lm[i] # 0 => n[lm[i]].unit = m[lm[i]].unit
        BY DEF Leads
      <4> QED
        BY <1>3, <3>2, <4>1 DEF Standing
    <3> QED
      BY <3>1, <3>2
  <2> QED
    BY <2>1 DEF Standing
<1>5. Leads(n, lm2)
  BY <1>2, <1>3 DEF Leads
<1> QED
  BY <1>1, <1>4, <1>5 DEF lm2, Standing, Placed

\* The unit that leaves the hex l.
LEMMA VacateShows ==
  ASSUME NEW m, NEW n, NEW lm, Leads(m, lm), NEW l \in Locs, lm[l] # 0,
         Live(n) = Live(m) \ {lm[l]}, \A i \in Live(n) : n[i].unit = m[i].unit
  PROVE  /\ Named(n) = [Named(m) EXCEPT ![lm[l]] = NULL]
         /\ Standing(m, lm)[l] = m[lm[l]].unit /\ Standing(m, lm)[l] # NULL
         /\ Named(m)[lm[l]] = Standing(m, lm)[l]
         /\ Standing(n, [lm EXCEPT ![l] = 0]) = [Standing(m, lm) EXCEPT ![l] = NULL]
         /\ Leads(n, [lm EXCEPT ![l] = 0])
<1> DEFINE k == lm[l]
           lm2 == [lm EXCEPT ![l] = 0]
<1>1. k \in Live(m) /\ k \in Ids
  BY DEF Leads
<1>2. Standing(m, lm)[l] = m[k].unit /\ m[k].unit # NULL
  BY <1>1 DEF Standing, Live
<1>3. lm2 \in [Locs -> Ids \cup {0}] /\ lm2[l] = 0 /\ \A i \in Locs \ {l} : lm2[i] = lm[i]
  BY DEF Leads
<1>4. \A i \in Locs \ {l} : lm[i] # 0 => lm[i] \in Live(n)
  BY DEF Leads
<1> HIDE DEF k, lm2
<1>5. Named(n) = [Named(m) EXCEPT ![k] = NULL] /\ Named(m)[k] = m[k].unit
  BY <1>1, NamedLive DEF k
<1>6. Standing(n, lm2) = [Standing(m, lm) EXCEPT ![l] = NULL]
  BY <1>3, <1>4 DEF Standing
<1>7. Leads(n, lm2)
  BY <1>3, <1>4 DEF Leads
<1> QED
  BY <1>2, <1>5, <1>6, <1>7 DEF k, lm2

-----------------------------------------------------------------------------
(* What the iterators follow.                                               *)

\* At most one iterator turned, to k.
Turned(k) == iter' = iter \/ \E h \in Iters : iter' = [iter EXCEPT ![h] = k]

\* The id that an iterator at k follows.
IdAt(k) == IF k \in Ids THEN k ELSE 0

\* Board!Result is Turned, in terms of the ids.
LEMMA TurnedResult ==
  ASSUME NEW k, Turned(k), iter \in [Iters -> Position]
  PROVE  Board!Result(IdAt(k))
<1>1. CASE iter' = iter
  BY <1>1 DEF Board!Result, Followed
<1>2. ASSUME NEW h \in Iters, iter' = [iter EXCEPT ![h] = k] PROVE Board!Result(IdAt(k))
  <2>1. Followed(iter') = [Followed(iter) EXCEPT ![h] = IdAt(k)]
    BY <1>2 DEF Followed, IdAt
  <2> QED
    BY <2>1 DEF Board!Result
<1> QED
  BY <1>1, <1>2 DEF Turned

\* An iterator that a call returns.
LEMMA ReturnTurns == ASSUME NEW m, NEW k, Return(m, k) PROVE Turned(k)
BY DEF Return, Assign, Turned

\* What is read through an iterator is what is found under its id.
LEMMA ReadIsNamed ==
  ASSUME NEW m, NEW it, Counted(m, it)
  PROVE  Read(m, it) = [h \in Iters |-> IF Followed(it)[h] = 0 THEN NULL
                                                             ELSE Named(m)[Followed(it)[h]]]
<1>1. 0 \notin Ids
  BY DEF Ids
<1> QED
  BY <1>1 DEF Counted, Read, Followed, Named

\* An operation of the board, and what is read through the handles after it.
LEMMA StepOfBoard ==
  ASSUME IInv',
         \/ \E p \in Units, k \in Ids, l \in Locs : Board!Place(p, k, l)
         \/ \E k \in Ids, l \in Locs : Board!Remove(k, l)
         \/ \E p \in Units, old, k \in Ids, l \in Locs : Board!Exchange(p, old, k, l)
         \/ \E k \in Ids, src, dst \in Locs : Board!Relocate(k, src, dst)
         \/ Board!Sweep
         \/ Board!Look
         \/ Board!Refuse
  PROVE  Board!Next
<1>1. Counted(umap', iter')
  BY DEF IInv
<1>2. Read(umap', iter') =
        [h \in Iters |-> IF Followed(iter')[h] = 0 THEN NULL
                                               ELSE Named(umap')[Followed(iter')[h]]]
  BY <1>1, ReadIsNamed
<1> QED
  BY <1>2 DEF Board!Next

\* A step that leaves the units under their ids shows as a look.
LEMMA LookStep ==
  ASSUME IInv, IInv', SameUnits(umap, umap'), lmap' = lmap, NEW k, Turned(k),
         k \in {Singular, End} \cup Live(umap) \cup {iter[g] : g \in Iters}
  PROVE  Board!Next
<1>1. Named(umap') = Named(umap) /\ Standing(umap', lmap') = Standing(umap, lmap)
  BY SameShows, IndexLeads
<1>2. /\ iter \in [Iters -> Position] /\ Live(umap) \subseteq Ids
      /\ Singular \notin Ids /\ End \notin Ids
  BY IInvParts, MaxIdAssumption DEF Nodes, Live, Ids, Singular, End
<1>3. Board!Result(IdAt(k))
  BY <1>2, TurnedResult
<1>4. IdAt(k) \in {0} \cup {i \in Ids : Named(umap)[i] # NULL} \cup {Followed(iter)[g] : g \in Iters}
  <2>1. CASE k \in Live(umap)
    BY <1>2, <2>1, NamedLive DEF Live, IdAt
  <2>2. CASE k \in {iter[g] : g \in Iters}
    BY <2>2 DEF Followed, IdAt
  <2>3. CASE k \in {Singular, End}
    BY <1>2, <2>3 DEF IdAt
  <2> QED
    BY <2>1, <2>2, <2>3
<1>5. Board!Look
  BY <1>1, <1>3, <1>4 DEF Board!Look
<1> QED
  BY <1>5, StepOfBoard

\* What an insertion that fails, or is not tried, shows.
LEMMA RefuseStep ==
  ASSUME IInv, SameUnits(umap, umap'), lmap' = lmap, Turned(End) PROVE Board!Refuse
<1>1. Named(umap') = Named(umap) /\ Standing(umap', lmap') = Standing(umap, lmap)
  BY SameShows, IndexLeads
<1>2. IdAt(End) = 0
  BY MaxIdAssumption DEF IdAt, Ids, End
<1>3. Board!Result(IdAt(End))
  BY IInvParts, TurnedResult
<1> QED
  BY <1>1, <1>2, <1>3 DEF Board!Refuse

-----------------------------------------------------------------------------
(* Every operation is a step of UnitBoard.                                  *)

\* A step that only turns an iterator.
LEMMA TurnRefines ==
  ASSUME IInv, IInv', NEW h \in Iters, NEW k, Assign(umap, h, k), lmap' = lmap,
         k \in {Singular, End} \cup Live(umap) \cup {iter[g] : g \in Iters}
  PROVE  Board!Next
<1>1. k \in DOMAIN umap \cup {Singular, End}
  BY IInvParts DEF Counted, Live, Position
<1>2. SameUnits(umap, umap')
  BY <1>1, IInvParts, AssignCounts
<1>3. Turned(k)
  BY DEF Assign, Turned
<1> QED
  BY <1>2, <1>3, LookStep

\* A ghost is followed by some iterator.
LEMMA NodesFollowed ==
  ASSUME IInv, NEW k \in DOMAIN umap
  PROVE  k \in Live(umap) \cup {iter[g] : g \in Iters}
<1>1. CASE umap[k].unit # NULL
  BY <1>1 DEF Live
<1>2. CASE umap[k].unit = NULL
  <2>1. Cardinality(Holders(iter, k)) > 0
    BY <1>2, IInvParts DEF Counted
  <2>2. Holders(iter, k) # {}
    BY <2>1, FS_EmptySet
  <2> QED
    BY <2>2 DEF Holders
<1> QED
  BY <1>1, <1>2

LEMMA IteratorRefines ==
  ASSUME IInv, IInv', NEW h \in Iters, IteratorStep(h) PROVE Board!Next
<1>0. DOMAIN umap \subseteq Ids /\ Live(umap) \subseteq DOMAIN umap
      /\ Ids \in SUBSET Nat /\ Ids \subseteq 0 .. MaxId /\ MaxId \in Nat
  BY IInvParts, MaxIdAssumption DEF Nodes, Live, Ids
<1>1. CASE Release(h)
  BY <1>1, TurnRefines DEF Release
<1>2. CASE Begin(h)
  <2>1. Least(Live(umap), End) \in Live(umap) \cup {End}
    BY <1>0, LeastType
  <2> QED
    BY <1>2, <2>1, TurnRefines DEF Begin
<1>3. CASE Advance(h)
  <2> DEFINE S == {k \in Live(umap) : k > iter[h]}
  <2>1. Least(S, End) \in S \cup {End}
    BY <1>0, LeastType
  <2> QED
    BY <1>3, <2>1, TurnRefines DEF Advance
<1>4. CASE Retreat(h)
  <2> DEFINE S == {k \in Live(umap) : k < iter[h]}
             first == Least(DOMAIN umap, End)
  <2>1. first \in DOMAIN umap \cup {End}
    BY <1>0, LeastType
  <2>2. S \in SUBSET (0 .. MaxId) /\ S \subseteq Live(umap)
    BY <1>0
  <2>3. Assign(umap, h, Greatest(S, first)) /\ lmap' = lmap
    BY <1>4 DEF Retreat
  <2> HIDE DEF S, first
  <2>4. Greatest(S, first) \in S \cup {first}
    BY <1>0, <2>2, GreatestType
  <2>5. Greatest(S, first) \in {End} \cup Live(umap) \cup {iter[g] : g \in Iters}
    BY <2>1, <2>2, <2>4, NodesFollowed
  <2> QED
    BY <2>3, <2>5, TurnRefines
<1>5. ASSUME NEW g \in Iters, Copy(h, g) PROVE Board!Next
  BY <1>5, TurnRefines DEF Copy
<1>6. ASSUME NEW k \in Ids, FindId(h, k) PROVE Board!Next
  BY <1>6, TurnRefines DEF FindId
<1>7. ASSUME NEW l \in Locs, FindLoc(h, l) PROVE Board!Next
  BY <1>7, TurnRefines, IndexLeads DEF FindLoc, Leads
<1> QED
  BY <1>1, <1>2, <1>3, <1>4, <1>5, <1>6, <1>7 DEF IteratorStep

\* Units off the board do not show.
LEMMA CallerRefines ==
  ASSUME IInv, IInv', NEW p \in Units, CallerStep(p) PROVE Board!Next
<1>1. UNCHANGED <<umap, lmap, iter>>
  BY DEF CallerStep, NewUnit, SetLocation, DeleteUnit
<1>2. SameUnits(umap, umap') /\ Turned(Singular)
  BY <1>1 DEF SameUnits, Turned
<1> QED
  BY <1>1, <1>2, LookStep

\* The nodes after a unit p was put under the key k, and the iterator to it.
LEMMA LinkTurns ==
  ASSUME IInv, NEW m, Nodes(m), Counted(m, iter), NEW k \in Ids, NEW p \in Units,
         k \notin Live(m), Return(Holding(m, k, p), k)
  PROVE  /\ Live(umap') = Live(m) \cup {k} /\ umap'[k].unit = p
         /\ \A i \in Live(m) : umap'[i].unit = m[i].unit
         /\ Board!Result(k)
<1> DEFINE n == Holding(m, k, p)
<1>1. /\ Nodes(n) /\ Counted(n, iter) /\ DOMAIN n = DOMAIN m \cup {k}
      /\ Live(n) = Live(m) \cup {k} /\ n[k].unit = p
      /\ \A i \in DOMAIN m \ {k} : n[i] = m[i]
  BY HoldingCounts
<1> HIDE DEF n
<1>2. SameUnits(n, umap')
  BY <1>1, ReturnCounts, IInvParts DEF n
<1>3. Live(umap') = Live(n) /\ \A i \in Live(n) : umap'[i].unit = n[i].unit
  BY <1>2 DEF SameUnits
<1>4. \A i \in Live(m) : i \in DOMAIN m \ {k} /\ i \in Live(n)
  BY <1>1 DEF Live
<1>5. Board!Result(IdAt(k))
  BY IInvParts, ReturnTurns, TurnedResult
<1> QED
  BY <1>1, <1>3, <1>4, <1>5 DEF IdAt

\* A unit that is put on the board is placed; one that finds its hex taken leaves
\* the board as it was.
LEMMA PutRefines ==
  ASSUME IInv, IInv', NEW p \in Units, NEW k \in Ids, NEW l \in Locs, NEW id,
         GhostOntoVacant(id, l), StoredUnder(umap, id, k),
         Link(umap, lmap, p, k, l) \/ Unlink(umap, lmap, k, l)
  PROVE  Board!Next /\ (lmap[l] # 0 => Board!Refuse)
<1>1. k \notin Live(umap) /\ (k # id => k \notin DOMAIN umap)
  BY StoredUnderType, IInvParts
<1>2. Nodes(umap) /\ Counted(umap, iter) /\ Leads(umap, lmap)
  BY IInvParts, IndexLeads
<1>3. CASE Link(umap, lmap, p, k, l)
  <2>1. lmap[l] = 0 /\ lmap' = [lmap EXCEPT ![l] = k] /\ Return(Holding(umap, k, p), k)
    BY <1>3 DEF Link
  <2>2. /\ Live(umap') = Live(umap) \cup {k} /\ umap'[k].unit = p
        /\ \A i \in Live(umap) : umap'[i].unit = umap[i].unit
        /\ Board!Result(k)
    BY <1>1, <1>2, <2>1, LinkTurns
  <2>3. /\ Named(umap') = [Named(umap) EXCEPT ![k] = p] /\ Named(umap)[k] = NULL
        /\ Standing(umap', lmap') = [Standing(umap, lmap) EXCEPT ![l] = p]
        /\ Standing(umap, lmap)[l] = NULL
    <3> DEFINE n == umap'
    <3>1. /\ Live(n) = Live(umap) \cup {k} /\ n[k].unit = p
          /\ \A i \in Live(umap) : n[i].unit = umap[i].unit
      BY <2>2
    <3> HIDE DEF n
    <3>2. /\ Named(n) = [Named(umap) EXCEPT ![k] = p] /\ Named(umap)[k] = NULL
          /\ Standing(n, [lmap EXCEPT ![l] = k]) = [Standing(umap, lmap) EXCEPT ![l] = p]
          /\ Standing(umap, lmap)[l] = NULL
      <4>1. Arrives(umap, n, lmap, k, p, l)
        BY <1>1, <1>2, <2>1, <3>1 DEF Arrives
      <4>2. Placed(umap, n, lmap, k, p, l)
        BY <4>1, LinkShows
      <4> QED
        BY <4>2 DEF Placed
    <3> QED
      BY <2>1, <3>2 DEF n
  <2>4. Board!Place(p, k, l)
    BY <2>2, <2>3 DEF Board!Place
  <2> QED
    BY <2>1, <2>4, StepOfBoard
<1>4. CASE Unlink(umap, lmap, k, l)
  <2>1. lmap' = lmap /\ lmap[l] # 0 /\ Return(WithoutNode(umap, k), End)
    BY <1>4 DEF Unlink
  <2>2. k \notin DOMAIN umap
    BY <1>1, <2>1 DEF GhostOntoVacant
  <2> DEFINE n == WithoutNode(umap, k)
  <2>3. DOMAIN n = DOMAIN umap /\ \A i \in DOMAIN n : n[i] = umap[i]
    BY <2>2 DEF WithoutNode
  <2> HIDE DEF n
  <2>4. Nodes(n) /\ Counted(n, iter) /\ SameUnits(umap, n)
    BY <1>2, <2>3 DEF Nodes, Counted, SameUnits, Live
  <2>5. SameUnits(n, umap')
    BY <2>1, <2>4, ReturnCounts, IInvParts DEF n
  <2>6. SameUnits(umap, umap')
    BY <2>4, <2>5 DEF SameUnits
  <2>7. Turned(End)
    BY <2>1, ReturnTurns
  <2> QED
    BY <2>1, <2>6, <2>7, RefuseStep, StepOfBoard
<1> QED
  BY <1>3, <1>4

LEMMA PutAtRefines ==
  ASSUME IInv, IInv', NEW l \in Locs, PutAt(l)
  PROVE  Board!Next /\ (lmap[l] # 0 => Board!Refuse)
<1>1. ASSUME NEW p \in Units, hex[p] = l, GhostOntoVacant(uid[p], l), Insert(p)
      PROVE  Board!Next /\ (lmap[l] # 0 => Board!Refuse)
  <2>1. PICK k \in Ids : /\ StoredUnder(umap, uid[p], k)
                         /\ Link(umap, lmap, p, k, l) \/ Unlink(umap, lmap, k, l)
    BY <1>1, NullAssumption DEF Insert
  <2> QED
    BY <1>1, <2>1, PutRefines
<1>2. ASSUME NEW s \in Units, NEW p \in Units, GhostOntoVacant(uid[s], l), Add(s, p, l)
      PROVE  Board!Next /\ (lmap[l] # 0 => Board!Refuse)
  <2>1. PICK k \in Ids : /\ StoredUnder(umap, uid[s], k)
                         /\ Link(umap, lmap, p, k, l) \/ Unlink(umap, lmap, k, l)
    BY <1>2 DEF Add
  <2> QED
    BY <1>2, <2>1, PutRefines
<1> QED
  BY <1>1, <1>2 DEF PutAt

LEMMA DiscardRefines == ASSUME IInv, IInv', Discard PROVE Board!Next
<1>1. SameUnits(umap, umap')
  BY IInvParts, ReturnCounts DEF Discard
<1>2. Turned(End)
  BY ReturnTurns DEF Discard
<1> QED
  BY <1>1, <1>2, RefuseStep, StepOfBoard DEF Discard

\* The unit at a hex, and what shows without it.
LEMMA GoneShows ==
  ASSUME IInv, NEW l \in Locs, lmap[l] # 0
  PROVE  LET k == lmap[l]
             n == Vacated(umap, k)
             lm == [lmap EXCEPT ![l] = 0]
         IN /\ k \in Ids /\ Nodes(n) /\ Counted(n, iter) /\ Leads(n, lm)
            /\ Live(n) = Live(umap) \ {k}
            /\ Standing(umap, lmap)[l] = umap[k].unit /\ Standing(umap, lmap)[l] # NULL
            /\ Named(umap)[k] = Standing(umap, lmap)[l]
            /\ Named(n) = [Named(umap) EXCEPT ![k] = NULL]
            /\ Standing(n, lm) = [Standing(umap, lmap) EXCEPT ![l] = NULL]
<1> DEFINE k == lmap[l]
           n == Vacated(umap, k)
<1>1. /\ k \in Ids /\ Nodes(n) /\ Counted(n, iter) /\ Live(n) = Live(umap) \ {k}
      /\ \A i \in Live(n) : n[i].unit = umap[i].unit
  BY VacateStep
<1> HIDE DEF n
<1>2. Leads(umap, lmap)
  BY IndexLeads
<1>3. /\ Named(n) = [Named(umap) EXCEPT ![k] = NULL]
      /\ Standing(umap, lmap)[l] = umap[k].unit /\ Standing(umap, lmap)[l] # NULL
      /\ Named(umap)[k] = Standing(umap, lmap)[l]
      /\ Standing(n, [lmap EXCEPT ![l] = 0]) = [Standing(umap, lmap) EXCEPT ![l] = NULL]
      /\ Leads(n, [lmap EXCEPT ![l] = 0])
  BY <1>1, <1>2, VacateShows
<1> QED
  BY <1>1, <1>3 DEF n

\* An extraction or an erasure removes a unit.
LEMMA VacateRefines ==
  ASSUME IInv, IInv', NEW l \in Locs, Extract(l) \/ Erase(l) PROVE Board!Next
<1>1. /\ lmap[l] # 0 /\ umap' = Vacated(umap, lmap[l])
      /\ lmap' = [lmap EXCEPT ![l] = 0] /\ iter' = iter
  BY DEF Extract, Erase
<1>2. Board!Remove(lmap[l], l) /\ lmap[l] \in Ids
  BY <1>1, GoneShows DEF Board!Remove
<1> QED
  BY <1>2, StepOfBoard

\* A replacement exchanges a unit for one in the same memory, under its own id or
\* a new one.
LEMMA ReplaceRefines ==
  ASSUME IInv, IInv', NEW s \in Units, NEW l \in Locs, Replace(s, l) PROVE Board!Next
<1> DEFINE old == lmap[l]
           q == umap[old].unit
           m == Vacated(umap, old)
           lm == [lmap EXCEPT ![l] = 0]
<1>0. owner[s] # "free" => uid[s] \in Ids
  BY IInvParts DEF Indexed
<1>1. PICK id, k \in Ids : /\ StoredUnder(m, id, k)
                           /\ Link(m, lm, q, k, l)
  BY <1>0 DEF Replace
<1>2. lmap[l] # 0
  BY DEF Replace
<1>3. /\ old \in Ids /\ Nodes(m) /\ Counted(m, iter) /\ Leads(m, lm)
      /\ Live(m) = Live(umap) \ {old}
      /\ Standing(umap, lmap)[l] = q /\ Standing(umap, lmap)[l] # NULL
      /\ Named(umap)[old] = Standing(umap, lmap)[l]
      /\ Named(m) = [Named(umap) EXCEPT ![old] = NULL]
      /\ Standing(m, lm) = [Standing(umap, lmap) EXCEPT ![l] = NULL]
  BY <1>2, GoneShows
<1>4. q \in Units
  BY <1>2, VacateStep
<1> HIDE DEF m, q, old, lm
<1>5. k \notin Live(m)
  BY <1>1, StoredUnderType, IInvParts
<1>6. lm[l] = 0 /\ lmap' = [lm EXCEPT ![l] = k] /\ Return(Holding(m, k, q), k)
  BY <1>1 DEF Link
<1>7. /\ Live(umap') = Live(m) \cup {k} /\ umap'[k].unit = q
      /\ \A i \in Live(m) : umap'[i].unit = m[i].unit
      /\ Board!Result(k)
  BY <1>3, <1>4, <1>5, <1>6, LinkTurns
<1>8. /\ Named(umap') = [Named(m) EXCEPT ![k] = q] /\ Named(m)[k] = NULL
      /\ Standing(umap', lmap') = [Standing(m, lm) EXCEPT ![l] = q]
  <2> DEFINE n == umap'
  <2>1. /\ Live(n) = Live(m) \cup {k} /\ n[k].unit = q
        /\ \A i \in Live(m) : n[i].unit = m[i].unit
    BY <1>7
  <2> HIDE DEF n
  <2>2. /\ Named(n) = [Named(m) EXCEPT ![k] = q] /\ Named(m)[k] = NULL
        /\ Standing(n, [lm EXCEPT ![l] = k]) = [Standing(m, lm) EXCEPT ![l] = q]
    <3>1. Arrives(m, n, lm, k, q, l)
      BY <1>3, <1>5, <1>6, <2>1 DEF Arrives
    <3>2. Placed(m, n, lm, k, q, l)
      BY <3>1, LinkShows
    <3> QED
      BY <3>2 DEF Placed
  <2> QED
    BY <1>6, <2>2 DEF n
<1>9. Board!Exchange(q, old, k, l)
  <2>1. Named(umap') = [Named(umap) EXCEPT ![old] = NULL, ![k] = q]
    BY <1>3, <1>8
  <2>2. Standing(umap', lmap') = [Standing(umap, lmap) EXCEPT ![l] = q]
    BY <1>3, <1>8 DEF Standing
  <2>3. k # old => Named(umap)[k] = NULL
    BY <1>3, <1>8 DEF Named
  <2> QED
    BY <1>3, <1>7, <2>1, <2>2, <2>3 DEF Board!Exchange
<1> QED
  BY <1>3, <1>4, <1>9, StepOfBoard

LEMMA MoveRefines ==
  ASSUME IInv, IInv', NEW src \in Locs, NEW dst \in Locs, Move(src, dst) PROVE Board!Next
<1> DEFINE k == IF lmap[src] = 0 THEN End ELSE lmap[src]
<1>1. Return(umap, k)
  BY DEF Move
<1>2. Leads(umap, lmap) /\ k \in Live(umap) \cup {End}
  BY IndexLeads DEF Leads
<1>3. SameUnits(umap, umap')
  <2>1. k \in DOMAIN umap \cup {Singular, End}
    BY <1>2 DEF Live
  <2> HIDE DEF k
  <2> QED
    BY <1>1, <2>1, IInvParts, ReturnCounts
<1>4. Turned(k)
  BY <1>1, ReturnTurns
<1>5. CASE lmap' = lmap
  BY <1>2, <1>3, <1>4, <1>5, LookStep
<1>6. CASE /\ lmap[src] # 0 /\ lmap[dst] = 0
           /\ lmap' = [lmap EXCEPT ![src] = 0, ![dst] = lmap[src]]
  <2>1. /\ lmap[src] \in Live(umap) /\ src # dst /\ lmap' \in [Locs -> Ids \cup {0}]
        /\ lmap'[dst] = lmap[src] /\ lmap'[src] = 0
        /\ \A i \in Locs \ {src, dst} : lmap'[i] = lmap[i]
    BY <1>2, <1>6 DEF Leads
  <2>2. Leads(umap, lmap')
    BY <1>2, <2>1 DEF Leads
  <2>3. Named(umap') = Named(umap) /\ Standing(umap', lmap') = Standing(umap, lmap')
    BY <1>3, <2>2, SameShows
  <2>4. /\ Standing(umap, lmap)[src] = umap[lmap[src]].unit /\ Standing(umap, lmap)[src] # NULL
        /\ Standing(umap, lmap)[dst] = NULL
    BY <1>6, <2>1 DEF Standing, Live
  <2>5. Standing(umap, lmap') = [Standing(umap, lmap) EXCEPT ![src] = NULL,
                                            ![dst] = Standing(umap, lmap)[src]]
    BY <1>6, <2>1, <2>4 DEF Standing
  <2>6. lmap[src] \in Ids /\ Named(umap)[lmap[src]] = Standing(umap, lmap)[src]
    BY <1>6, <2>1, <2>4, IInvParts, NamedLive DEF Live, Nodes
  <2>7. Board!Result(lmap[src])
    <3>1. Board!Result(IdAt(lmap[src]))
      BY <1>4, <1>6, IInvParts, TurnedResult
    <3> QED
      BY <2>6, <3>1 DEF IdAt
  <2>8. Board!Relocate(lmap[src], src, dst)
    BY <2>3, <2>4, <2>5, <2>6, <2>7 DEF Board!Relocate
  <2> QED
    BY <2>6, <2>8, StepOfBoard
<1> QED
  BY <1>5, <1>6 DEF Move

\* The sweep asserts that no iterator points at a node.
LEMMA ClearRefines == ASSUME IInv, IInv', Clear PROVE Board!Next
<1>1. /\ DOMAIN umap' = {} /\ lmap' = [l \in Locs |-> 0] /\ iter' = iter
      /\ \A h \in Iters : iter[h] \in {Singular, End}
  BY DEF Clear
<1>2. \A h \in Iters : Followed(iter)[h] = 0
  BY <1>1, MaxIdAssumption DEF Followed, Ids, Singular, End
<1>3. /\ Standing(umap', lmap') = [l \in Locs |-> NULL]
      /\ Named(umap') = [k \in Ids |-> NULL]
  BY <1>1 DEF Standing, Named
<1>4. Board!Sweep
  BY <1>1, <1>2, <1>3 DEF Board!Sweep
<1> QED
  BY <1>4, StepOfBoard

\* unit_map.hpp's promise, whole: whatever the nodes and the counts do, what is seen
\* at a hex, under an id and through an iterator is a board with handles that
\* follow an id for ever.
THEOREM BoardImplemented == Spec => ImplementsBoard
<1>1. Init => Board!Init
  <2> SUFFICES ASSUME Init PROVE Board!Init
    OBVIOUS
  <2>1. /\ DOMAIN umap = {} /\ lmap = [l \in Locs |-> 0] /\ iter = [h \in Iters |-> Singular]
        /\ 0 \notin Ids
    BY DEF Init, Ids
  <2> QED
    BY <2>1 DEF Board!Init, Standing, Named, Followed, Read, Singular
<1>2. IInv /\ IInv' /\ [Next]_vars => [Board!Next]_Board!vars
  <2> SUFFICES ASSUME IInv, IInv', [Next]_vars PROVE [Board!Next]_Board!vars
    OBVIOUS
  <2>1. CASE \E h \in Iters : IteratorStep(h)
    BY <2>1, IteratorRefines
  <2>2. CASE \E p \in Units : CallerStep(p)
    BY <2>2, CallerRefines
  <2>3. CASE InsertStep
    BY <2>3, PutAtRefines, DiscardRefines, ReplaceRefines DEF InsertStep, Insert, AddNowhere
  <2>4. CASE BoardStep
    BY <2>4, VacateRefines, MoveRefines, ClearRefines DEF BoardStep
  <2>5. CASE UNCHANGED vars
    BY <2>5 DEF vars, Board!vars, Standing, Named, Followed, Read
  <2> QED
    BY <2>1, <2>2, <2>3, <2>4, <2>5 DEF Next
<1>3. ASSUME IInv, IInv', [Next]_vars
      PROVE  [\A l \in Locs : lmap[l] # 0 /\ PutAt(l) => Board!Refuse]_vars
  BY <1>3, PutAtRefines
<1> QED
  BY <1>1, <1>2, <1>3, IInvariant, PTL DEF Spec, ImplementsBoard, Board!Spec
=============================================================================
