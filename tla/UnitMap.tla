------------------------------ MODULE UnitMap ------------------------------
(***************************************************************************)
(* unit_map (unit_map.hpp, unit_map.cpp): the doubly indexed container of   *)
(* the units of a scenario.  umap_ orders nodes by underlying id and counts *)
(* the iterators that point at each; lmap_ maps a hex to a node.  A node    *)
(* whose unit is gone stays as a ghost while some iterator points at it, so *)
(* that an iterator, once obtained, is never invalidated.                   *)
(*                                                                          *)
(* A unit object is a model value with an owner: nobody (freed memory), the *)
(* caller (new, extracted, or on a recall list) or the map.                 *)
(***************************************************************************)
EXTENDS Integers, FiniteSets

CONSTANTS Units,   \* unit objects in memory
          Locs,    \* valid hexes
          Iters,   \* iterator variables of the code that uses the map
          MaxId,   \* bound on the underlying ids handed out
          NULL     \* the null unit pointer

ASSUME NullAssumption  == NULL \notin Units \cup Locs
ASSUME MaxIdAssumption == MaxId \in Nat \ {0}
ASSUME ItersFinite     == IsFiniteSet(Iters)

VARIABLES umap,     \* underlying id -> [unit, ref_count]; ids with a node only
          lmap,     \* hex -> id of the node at that hex, 0 if none
          iter,     \* iterator -> id it points at, Singular or End
          owner,    \* unit object -> who must delete it
          uid,      \* unit object -> underlying_id(), 0 when freed
          hex,      \* unit object -> get_location(), NULL when it is not valid
          next_id   \* n_unit::id_manager::next_id_

vars == <<umap, lmap, iter, owner, uid, hex, next_id>>

Ids      == 1 .. MaxId
Singular == 0            \* a default constructed iterator: tank_ is NULL
End      == MaxId + 1    \* umap_.end()
Pod      == [unit : Units \cup {NULL}, ref_count : Nat]

TypeOK ==
  /\ DOMAIN umap \subseteq Ids
  /\ \A k \in DOMAIN umap : umap[k] \in Pod
  /\ lmap \in [Locs -> Ids \cup {0}]
  /\ iter \in [Iters -> Ids \cup {Singular, End}]
  /\ owner \in [Units -> {"free", "caller", "map"}]
  /\ uid \in [Units -> Ids \cup {0}]
  /\ hex \in [Units -> Locs \cup {NULL}]
  /\ next_id \in 0 .. MaxId

-----------------------------------------------------------------------------
(* The nodes of umap_ and the iterators that count on them.                 *)

Live(m) == {k \in DOMAIN m : m[k].unit # NULL}

WithNode(m, k, pod) ==
  [i \in DOMAIN m \cup {k} |-> IF i = k THEN pod ELSE m[i]]
WithoutNode(m, k)   == [i \in DOMAIN m \ {k} |-> m[i]]

\* Mutants: an iterator that does not count; a last one that leaves its ghost.
IncForgotten(m, k) == m
DecKeepsGhost(m, k) == IF k \in DOMAIN m THEN [m EXCEPT ![k].ref_count = @ - 1] ELSE m

\* iterator_base::inc and dec: the last iterator of a ghost erases its node.
Inc(m, k) == IF k \in DOMAIN m THEN [m EXCEPT ![k].ref_count = @ + 1] ELSE m
Dec(m, k) ==
  IF k \notin DOMAIN m THEN m
  ELSE IF m[k].ref_count = 1 /\ m[k].unit = NULL THEN WithoutNode(m, k)
  ELSE [m EXCEPT ![k].ref_count = @ - 1]

\* Iterator h, whose position is iter[h], is assigned an iterator to k made
\* over the nodes m: the temporary counts, h lets go, the temporary dies.
Assign(m, h, k) ==
  /\ umap' = IF iter[h] = k THEN m ELSE Dec(Inc(m, k), iter[h])
  /\ iter' = [iter EXCEPT ![h] = k]

\* A returned iterator to k: assigned to a variable, or dropped at once, which
\* leaves the count of a live node as it was.
Return(m, k) == \/ \E h \in Iters : Assign(m, h, k)
                \/ umap' = m /\ UNCHANGED iter

Least(S, default)    == IF S = {} THEN default ELSE CHOOSE i \in S : \A j \in S : i <= j
Greatest(S, default) == IF S = {} THEN default ELSE CHOOSE i \in S : \A j \in S : i >= j

Init ==
  /\ umap = [k \in {} |-> [unit |-> NULL, ref_count |-> 0]]
  /\ lmap = [l \in Locs |-> 0]
  /\ iter = [h \in Iters |-> Singular]
  /\ owner = [p \in Units |-> "free"]
  /\ uid = [p \in Units |-> 0]
  /\ hex = [p \in Units |-> NULL]
  /\ next_id = 0

unitVars == <<owner, uid, hex, next_id>>

-----------------------------------------------------------------------------
(* Iterators.                                                               *)

Copy(h, g) == /\ Assign(umap, h, iter[g])
              /\ UNCHANGED <<lmap, unitVars>>

Release(h) == /\ Assign(umap, h, Singular)
              /\ UNCHANGED <<lmap, unitVars>>

FindId(h, k) == /\ Assign(umap, h, IF k \in Live(umap) THEN k ELSE End)
                /\ UNCHANGED <<lmap, unitVars>>

FindLoc(h, l) == /\ Assign(umap, h, IF lmap[l] = 0 THEN End ELSE lmap[l])
                 /\ UNCHANGED <<lmap, unitVars>>

Begin(h) == /\ Assign(umap, h, Least(Live(umap), End))
            /\ UNCHANGED <<lmap, unitVars>>

Advance(h) ==
  /\ iter[h] \notin {Singular, End}
  /\ Assign(umap, h, Least({k \in Live(umap) : k > iter[h]}, End))
  /\ UNCHANGED <<lmap, unitVars>>

\* operator-- stops at the first node even when that node is a ghost.
Retreat(h) ==
  LET first == Least(DOMAIN umap, End) IN
  /\ iter[h] \notin {Singular, first}
  /\ Assign(umap, h, Greatest({k \in Live(umap) : k < iter[h]}, first))
  /\ UNCHANGED <<lmap, unitVars>>

-----------------------------------------------------------------------------
(* Units that the map does not own.                                         *)

\* unit(cfg): a unit read from WML brings the id it was stored with; a new one
\* takes the next id.  One without x and y has a location that is not valid.
NewUnit(p, k, l) ==
  /\ owner[p] = "free"
  /\ owner' = [owner EXCEPT ![p] = "caller"]
  /\ uid' = [uid EXCEPT ![p] = k]
  /\ hex' = [hex EXCEPT ![p] = l]
  /\ \/ UNCHANGED next_id
     \/ k = next_id + 1 /\ next_id' = k
  /\ UNCHANGED <<umap, lmap, iter>>

SetLocation(p, l) ==
  /\ owner[p] = "caller"
  /\ hex' = [hex EXCEPT ![p] = l]
  /\ UNCHANGED <<umap, lmap, iter, owner, uid, next_id>>

DeleteUnit(p) ==
  /\ owner[p] = "caller"
  /\ owner' = [owner EXCEPT ![p] = "free"]
  /\ uid' = [uid EXCEPT ![p] = 0]
  /\ hex' = [hex EXCEPT ![p] = NULL]
  /\ UNCHANGED <<umap, lmap, iter, next_id>>

-----------------------------------------------------------------------------
(* Insertion.                                                               *)

\* The key insert stores a unit with underlying id `id` under: its own id when
\* that is unused or belongs to a ghost, else the first id after next_id that
\* has no node (clone(false) until it fits).
StoredUnder(m, id, k) ==
  \/ /\ id \notin Live(m)
     /\ k = id
     /\ UNCHANGED next_id
  \/ /\ id \in Live(m)
     /\ k = Least({i \in (next_id + 1) .. MaxId : i \notin DOMAIN m}, 0)
     /\ k # 0
     /\ next_id' = k

\* Mutant: a reused ghost starts counting anew.
HoldingResets(m, k, p) == WithNode(m, k, [unit |-> p, ref_count |-> 0])

\* Node k of m now holds p; a ghost keeps the count of its iterators.
Holding(m, k, p) ==
  WithNode(m, k, [unit |-> p, ref_count |-> IF k \in DOMAIN m THEN m[k].ref_count
                                                             ELSE 0])

Link(m, lm, p, k, l) ==
  /\ lm[l] = 0
  /\ lmap' = [lm EXCEPT ![l] = k]
  /\ Return(Holding(m, k, p), k)

\* Nothing is stored, and the iterator returned points at no unit.
Discard == /\ Return(umap, End)
           /\ UNCHANGED <<lmap, next_id>>

\* The hex is taken.  The code looks at the count of its local pod, which is
\* always 0, so the node is erased even when it was a ghost with iterators.
Unlink(m, lm, k, l) ==
  /\ lm[l] # 0
  /\ lmap' = lm
  /\ Return(WithoutNode(m, k), End)

\* insert(p): on failure p stays with the caller, under its possibly new id; at
\* a location that is not valid nothing is tried.
Insert(p) ==
  /\ owner[p] = "caller"
  /\ \/ hex[p] = NULL /\ Discard /\ UNCHANGED <<owner, uid>>
     \/ /\ hex[p] # NULL
        /\ \E k \in Ids :
             /\ StoredUnder(umap, uid[p], k)
             /\ uid' = [uid EXCEPT ![p] = k]
             /\ \/ /\ Link(umap, lmap, p, k, hex[p])
                   /\ owner' = [owner EXCEPT ![p] = "map"]
                \/ Unlink(umap, lmap, k, hex[p]) /\ UNCHANGED owner
  /\ UNCHANGED hex

\* add(NULL, s), or replace there: the copy made of s is deleted again.
AddNowhere(s) == /\ owner[s] # "free"
                 /\ Discard
                 /\ UNCHANGED <<owner, uid, hex>>

\* add(l, s): insert p, a copy of s with s's id, at l; delete it on failure.
Add(s, p, l) ==
  /\ owner[s] # "free" /\ owner[p] = "free"
  /\ \E k \in Ids :
       /\ StoredUnder(umap, uid[s], k)
       /\ \/ /\ Link(umap, lmap, p, k, l)
             /\ owner' = [owner EXCEPT ![p] = "map"]
             /\ uid' = [uid EXCEPT ![p] = k]
             /\ hex' = [hex EXCEPT ![p] = l]
          \/ /\ Unlink(umap, lmap, k, l)
             /\ UNCHANGED <<owner, uid, hex>>

-----------------------------------------------------------------------------
(* Removal and movement.                                                    *)

\* Mutant: the node goes with the unit, iterators or not.
VacatedAlways(m, k) == WithoutNode(m, k)

\* The nodes after the unit at node k left: a ghost if iterators point at it.
Vacated(m, k) == IF m[k].ref_count = 0 THEN WithoutNode(m, k)
                                       ELSE [m EXCEPT ![k].unit = NULL]

Extract(l) ==
  /\ lmap[l] # 0
  /\ owner' = [owner EXCEPT ![umap[lmap[l]].unit] = "caller"]
  /\ umap' = Vacated(umap, lmap[l])
  /\ lmap' = [lmap EXCEPT ![l] = 0]
  /\ UNCHANGED <<iter, uid, hex, next_id>>

Freed(p) == /\ owner' = [owner EXCEPT ![p] = "free"]
            /\ uid' = [uid EXCEPT ![p] = 0]
            /\ hex' = [hex EXCEPT ![p] = NULL]

Erase(l) ==
  /\ lmap[l] # 0
  /\ Freed(umap[lmap[l]].unit)
  /\ umap' = Vacated(umap, lmap[l])
  /\ lmap' = [lmap EXCEPT ![l] = 0]
  /\ UNCHANGED <<iter, next_id>>

\* replace(l, s) where a unit q stands at l: erase(l), then add(l, s).  Unit
\* objects are interchangeable, so the copy takes the memory q gave back.  When s
\* is q itself add copies freed memory: the copy has whatever id it reads there.
\* On a free hex replace is Add.
Replace(s, l) ==
  /\ lmap[l] # 0
  /\ LET q == umap[lmap[l]].unit
         m == Vacated(umap, lmap[l])
     IN /\ owner[s] # "free"
        /\ \E id \in IF s = q THEN Ids ELSE {uid[s]}, k \in Ids :
             /\ StoredUnder(m, id, k)
             /\ Link(m, [lmap EXCEPT ![l] = 0], q, k, l)
             /\ uid' = [uid EXCEPT ![q] = k]
        /\ UNCHANGED <<owner, hex>>

\* Mutant: lmap_ keeps the hex the unit left.
MoveLeavesTrace(src, dst) ==
  /\ lmap[src] # 0 /\ lmap[dst] = 0
  /\ Return(umap, lmap[src])
  /\ lmap' = [lmap EXCEPT ![dst] = lmap[src]]
  /\ hex' = [hex EXCEPT ![umap[lmap[src]].unit] = dst]
  /\ UNCHANGED <<owner, uid, next_id>>

\* move(src, dst): to the same hex or to a free one; a taken destination
\* leaves everything but the returned iterator as it was.
Move(src, dst) ==
  /\ \/ /\ lmap[src] = 0
        /\ Return(umap, End)
        /\ UNCHANGED <<lmap, hex>>
     \/ /\ lmap[src] # 0 /\ (src = dst \/ lmap[dst] # 0)
        /\ Return(umap, lmap[src])
        /\ UNCHANGED <<lmap, hex>>
     \/ /\ lmap[src] # 0 /\ lmap[dst] = 0
        /\ Return(umap, lmap[src])
        /\ lmap' = [lmap EXCEPT ![src] = 0, ![dst] = lmap[src]]
        /\ hex' = [hex EXCEPT ![umap[lmap[src]].unit] = dst]
  /\ UNCHANGED <<owner, uid, next_id>>

\* Mutant: the maps are cleared and the units are not deleted.
ClearLeaks ==
  /\ \A h \in Iters : iter[h] \in {Singular, End}
  /\ umap' = [k \in {} |-> [unit |-> NULL, ref_count |-> 0]]
  /\ lmap' = [l \in Locs |-> 0]
  /\ UNCHANGED <<iter, unitVars>>

\* clear(): asserts that no iterator is outstanding.
Clear ==
  /\ \A h \in Iters : iter[h] \in {Singular, End}
  /\ owner' = [p \in Units |-> IF owner[p] = "map" THEN "free" ELSE owner[p]]
  /\ uid' = [p \in Units |-> IF owner[p] = "map" THEN 0 ELSE uid[p]]
  /\ hex' = [p \in Units |-> IF owner[p] = "map" THEN NULL ELSE hex[p]]
  /\ umap' = [k \in {} |-> [unit |-> NULL, ref_count |-> 0]]
  /\ lmap' = [l \in Locs |-> 0]
  /\ UNCHANGED <<iter, next_id>>

-----------------------------------------------------------------------------
\* No caller inserts a unit whose id still has a ghost onto a taken hex: those
\* that put a unit back (put_map, the temporary_unit_* scopes) empty it first.
GhostOntoVacant(id, l) == id \in DOMAIN umap \ Live(umap) => lmap[l] = 0

IteratorStep(h) ==
  \/ Release(h) \/ Begin(h) \/ Advance(h) \/ Retreat(h)
  \/ \E g \in Iters : Copy(h, g)
  \/ \E k \in Ids : FindId(h, k)
  \/ \E l \in Locs : FindLoc(h, l)

CallerStep(p) ==
  \/ \E k \in Ids, l \in Locs \cup {NULL} : NewUnit(p, k, l)
  \/ \E l \in Locs \cup {NULL} : SetLocation(p, l)
  \/ DeleteUnit(p)

\* Insertion at l with the callers' precaution.
PutAt(l) ==
  \/ \E p \in Units : hex[p] = l /\ GhostOntoVacant(uid[p], l) /\ Insert(p)
  \/ \E s, p \in Units : GhostOntoVacant(uid[s], l) /\ Add(s, p, l)

InsertStep ==
  \/ \E l \in Locs : PutAt(l)
  \/ \E p \in Units : hex[p] = NULL /\ Insert(p)
  \/ \E s \in Units : AddNowhere(s)
  \/ \E s \in Units, l \in Locs : Replace(s, l)

BoardStep ==
  \/ \E l \in Locs : Extract(l) \/ Erase(l)
  \/ \E src, dst \in Locs : Move(src, dst)
  \/ Clear

Next ==
  \/ \E h \in Iters : IteratorStep(h)
  \/ \E p \in Units : CallerStep(p)
  \/ InsertStep
  \/ BoardStep

Spec == Init /\ [][Next]_vars

-----------------------------------------------------------------------------
(* Properties.                                                              *)

\* Every iterator that points at a node points at one that still exists, and
\* the node counts exactly the iterators that point at it: the persistence
\* unit_map.hpp promises, which the reference counting is there to give.
IteratorsPersist ==
  /\ \A h \in Iters : iter[h] \in Ids => iter[h] \in DOMAIN umap
  /\ \A k \in DOMAIN umap : umap[k].ref_count = Cardinality({h \in Iters : iter[h] = k})

\* A ghost is kept only while an iterator points at it: whatever the order of
\* extractions, reinsertions and releases, no dead node is leaked.
NoIdleGhost == \A k \in DOMAIN umap : umap[k].unit = NULL => umap[k].ref_count > 0

\* The two indices describe the same board: a hex of lmap_ leads to a live unit
\* standing there, and a live unit is found under its own hex and its own id.
IndicesAgree ==
  /\ \A l \in Locs : lmap[l] # 0 => /\ lmap[l] \in Live(umap)
                                    /\ hex[umap[lmap[l]].unit] = l
  /\ \A k \in Live(umap) : /\ uid[umap[k].unit] = k
                           /\ hex[umap[k].unit] \in Locs
                           /\ lmap[hex[umap[k].unit]] = k

\* Units are owned by the container: the map owns exactly the units it holds,
\* so none is deleted twice, leaked or deleted under a live node.
UnitsOwned ==
  \A p \in Units : owner[p] = "map" <=> \E k \in Live(umap) : umap[k].unit = p

\* What the nodes m, the index lm and the iterators it show: the unit found at a
\* hex, the unit found under an id, the id an iterator follows and the unit read
\* through it.  An iterator whose node was erased would read freed memory, here
\* its own name.
Standing(m, lm) == [l \in Locs |-> IF lm[l] = 0 THEN NULL ELSE m[lm[l]].unit]
Named(m)        == [k \in Ids |-> IF k \in DOMAIN m THEN m[k].unit ELSE NULL]
Followed(it)    == [h \in Iters |-> IF it[h] \in Ids THEN it[h] ELSE 0]
Read(m, it)     == [h \in Iters |-> IF it[h] \notin Ids THEN NULL
                                    ELSE IF it[h] \in DOMAIN m THEN m[it[h]].unit
                                    ELSE h]

\* The counted nodes implement handles that follow an id for ever: what is seen
\* at a hex, under an id and through an iterator is what UnitBoard shows.
Board == INSTANCE UnitBoard WITH at     <- Standing(umap, lmap),
                                 named  <- Named(umap),
                                 handle <- Followed(iter),
                                 seen   <- Read(umap, iter)

\* Every operation shows as the operation of the board with its name, turns no
\* handle but the one that takes its result, and turns that one to the unit the
\* operation placed or moved.  An insertion on a taken hex changes nothing of
\* what is seen and its result follows nothing (Refuse).
ImplementsBoard ==
  /\ Board!Spec
  /\ [][\A l \in Locs : lmap[l] # 0 /\ PutAt(l) => Board!Refuse]_vars
=============================================================================
