----------------------------- MODULE UnitBoard -----------------------------
(***************************************************************************)
(* What unit_map.hpp promises its users: a board on which every hex holds   *)
(* at most one unit and every underlying id names at most one, and handles  *)
(* that follow an id for ever.  A handle whose unit leaves the board reads  *)
(* as no unit, and reads as a unit again when its id comes back.  There are *)
(* no nodes, no ghosts and no counts here.                                  *)
(*                                                                          *)
(* One promise is not here because the code does not keep it: the header    *)
(* says that a refused add, insert or move returns an iterator to the unit  *)
(* that occupies the location.  Add and insert return end() (Refuse), move  *)
(* the unit that stayed where it was (Look).                                *)
(***************************************************************************)
EXTENDS Integers

CONSTANTS Units, Locs, Iters, Ids, NULL

VARIABLES at,      \* hex -> unit found there
          named,   \* underlying id -> unit found under it
          handle,  \* handle -> id it follows, 0 if none
          seen     \* handle -> unit read through it

vars == <<at, named, handle, seen>>

Init == /\ at = [l \in Locs |-> NULL]
        /\ named = [k \in Ids |-> NULL]
        /\ handle = [h \in Iters |-> 0]
        /\ seen = [h \in Iters |-> NULL]

\* The result of an operation, a handle on k, is stored in one handle or dropped.
Result(k) == \/ UNCHANGED handle
             \/ \E h \in Iters : handle' = [handle EXCEPT ![h] = k]

\* A unit is placed under the id k; the result follows it.
Place(p, k, l) == /\ at[l] = NULL /\ named[k] = NULL
                  /\ at' = [at EXCEPT ![l] = p]
                  /\ named' = [named EXCEPT ![k] = p]
                  /\ Result(k)

Remove(k, l) == /\ at[l] # NULL /\ named[k] = at[l]
                /\ at' = [at EXCEPT ![l] = NULL]
                /\ named' = [named EXCEPT ![k] = NULL]
                /\ UNCHANGED handle

\* A unit takes the place of another; the result follows the new one.
Exchange(p, old, k, l) == /\ at[l] # NULL /\ named[old] = at[l]
                          /\ k # old => named[k] = NULL
                          /\ at' = [at EXCEPT ![l] = p]
                          /\ named' = [named EXCEPT ![old] = NULL, ![k] = p]
                          /\ Result(k)

\* The unit named k moves; the result follows it.
Relocate(k, src, dst) == /\ at[src] # NULL /\ at[dst] = NULL /\ named[k] = at[src]
                         /\ at' = [at EXCEPT ![src] = NULL, ![dst] = at[src]]
                         /\ UNCHANGED named
                         /\ Result(k)

\* Nobody holds a handle on anything when the board is swept.
Sweep == /\ \A h \in Iters : handle[h] = 0
         /\ at' = [l \in Locs |-> NULL]
         /\ named' = [k \in Ids |-> NULL]
         /\ UNCHANGED handle

\* A look at the board: a handle turns to nothing, to a unit on the board or to
\* what some handle follows.
Look == /\ UNCHANGED <<at, named>>
        /\ \E k \in {0} \cup {i \in Ids : named[i] # NULL} \cup {handle[g] : g \in Iters} :
             Result(k)

\* A refused insertion: the board is as it was and the result follows nothing.
Refuse == /\ UNCHANGED <<at, named>>
          /\ Result(0)

Next ==
  /\ \/ \E p \in Units, k \in Ids, l \in Locs : Place(p, k, l)
     \/ \E k \in Ids, l \in Locs : Remove(k, l)
     \/ \E p \in Units, old, k \in Ids, l \in Locs : Exchange(p, old, k, l)
     \/ \E k \in Ids, src, dst \in Locs : Relocate(k, src, dst)
     \/ Sweep
     \/ Look
     \/ Refuse
  /\ seen' = [h \in Iters |-> IF handle'[h] = 0 THEN NULL ELSE named'[handle'[h]]]

Spec == Init /\ [][Next]_vars
=============================================================================
