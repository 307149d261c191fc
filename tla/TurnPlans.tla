----------------------------- MODULE TurnPlans -----------------------------
(* What side_actions.hpp promises: the plans of a side are a list of turns, each *)
(* an order of actions, and only the turn that is being played may be empty while *)
(* a later one is planned.  No iterators and no positions in a common list here,  *)
(* and no operation that fails: where the code does not keep the promise is said  *)
(* in SideActions.                                                                *)
EXTENDS Naturals, Sequences, FiniteSets, SequencesExt

CONSTANTS Units, None, Nums

\* What is planned for a unit; a recruit or recall comes with a unit of its own.
Action == [unit : Units \cup {None}, n : Nums]
Actor(a) == IF a.unit = None THEN a ELSE a.unit

VARIABLES plan, \* turn -> what is planned for it, in order; the first is this turn
          gone  \* units that are dead

vars == <<plan, gone>>

Init == plan = <<>> /\ gone = {}

\* Without the empty turns at the end.
Trim(p) == SubSeq(p, 1, SelectLastInSeq(p, LAMBDA turn : turn # <<>>))

\* The invariant of the class.
NoGaps(p) == \A t \in 2..Len(p) : p[t] # <<>>

Times(a, s) == Cardinality({i \in DOMAIN s : s[i] = a})

Turn(p, t) == IF t \in DOMAIN p THEN p[t] ELSE <<>>

\* One more action in turn t, or in that and the next.  New plans may begin one turn
\* after the last, or leave out the turn being played.
Add ==
  \E t \in 1..(Len(plan) + 2), k \in {0, 1} :
    /\ t <= Len(plan) + 1 \/ t = 2
    /\ Len(plan') = IF t + k > Len(plan) THEN t + k ELSE Len(plan)
    /\ \A i \in DOMAIN plan' :
         /\ IsPrefix(Turn(plan, i), plan'[i])
         /\ Len(plan'[i]) = Len(Turn(plan, i)) + IF i \in t..(t + k) THEN 1 ELSE 0
    /\ UNCHANGED gone

Drop ==
  \E t \in DOMAIN plan : \E i \in DOMAIN plan[t] :
    /\ plan' = Trim([plan EXCEPT ![t] = RemoveAt(@, i)])
    /\ NoGaps(plan')
    /\ gone' = gone \/ gone' = gone \cup ({plan[t][i].unit} \ {None})

Revise ==
  \E t \in DOMAIN plan : \E i \in DOMAIN plan[t], a \in Action :
    /\ a.unit = plan[t][i].unit
    /\ plan' = [plan EXCEPT ![t][i] = a]
    /\ UNCHANGED gone

\* Neighbours in one turn change places, unless they are of one unit.
Swap ==
  \E t \in DOMAIN plan : \E i \in 2..Len(plan[t]) :
    LET first  == plan[t][i - 1]
        second == plan[t][i]
    IN  /\ Actor(first) = Actor(second) => first.unit \in gone
        /\ plan' = [plan EXCEPT ![t][i - 1] = second, ![t][i] = first]
        /\ UNCHANGED gone

\* The next turn begins.  Who did not finish is late by one turn from now on, before
\* what others planned; plans of the dead come first, in so many copies.
Late == {Actor(Turn(plan, 1)[i]) : i \in DOMAIN Turn(plan, 1)} \ gone
IsLate(a) == Actor(a) \in Late
OnTime(a) == ~IsLate(a)

Shifted(copies) ==
  LET next == Trim([t \in DOMAIN plan |-> SelectSeq(plan[t], IsLate)
                                          \o SelectSeq(Turn(plan, t + 1), OnTime)])
      idle == SelectSeq(Turn(plan, 1), OnTime)
  IN  /\ plan # <<>>
      /\ Len(plan') = IF next = <<>> /\ idle # <<>> THEN 1 ELSE Len(next)
      /\ \A t \in DOMAIN plan' \ {1} : plan'[t] = next[t]
      /\ plan' # <<>> =>
           /\ IsSuffix(Turn(next, 1), plan'[1])
           /\ \A a \in ToSet(idle) : Times(a, plan'[1]) = copies * Times(a, idle)
           /\ Len(plan'[1]) = Len(Turn(next, 1)) + copies * Len(idle)
      /\ NoGaps(plan')
      /\ UNCHANGED gone

\* One copy of each.
Shift == Shifted(1)

Clear == plan' = <<>> /\ UNCHANGED gone

Die == UNCHANGED plan /\ \E u \in Units \ gone : gone' = gone \cup {u}

Next == Add \/ Drop \/ Revise \/ Swap \/ Shift \/ Clear \/ Die

Spec == Init /\ [][Next]_vars
=============================================================================
