----------------------------- MODULE SharedGame -----------------------------
(* What a network game promises: the machines play one game.  A machine plays    *)
(* something new only when it has played all that the others have, takes back     *)
(* only what no other has played, and otherwise follows.                          *)
EXTENDS Integers, Sequences, SequencesExt

CONSTANTS Machine,
          Events   \* what can happen in the game

VARIABLES games, \* what each machine has played
          up     \* the machines in the game

vars == <<games, up>>

TypeOK == games \in [Machine -> Seq(Events)] /\ up \subseteq Machine

Init == games = [m \in Machine |-> <<>>] /\ up = Machine

\* Only the game of m changes.
Only(m) == /\ games' \in [Machine -> Seq(Events)]
           /\ \A n \in Machine \ {m} : games'[n] = games[n]
           /\ up' = up

\* m plays one more event.
Extends(m) ==
  /\ IsPrefix(games[m], games'[m])
  /\ Len(games'[m]) = Len(games[m]) + 1
  /\ Only(m)

\* A new event, by a machine that is behind nobody.
Lead(m) ==
  /\ m \in up
  /\ \A n \in up : IsPrefix(games[n], games[m])
  /\ Extends(m)

\* An event that another machine has played.
Follow(m) ==
  /\ m \in up
  /\ Extends(m)
  /\ \E n \in up : IsPrefix(games'[m], games[n])

\* Undo: nobody else has seen what goes.
TakeBack(m) ==
  /\ m \in up
  /\ IsPrefix(games'[m], games[m])
  /\ \A n \in up \ {m} : IsPrefix(games[n], games'[m])
  /\ Only(m)

Leave(m) == m \in up /\ up' = up \ {m} /\ UNCHANGED games

Next == \E m \in Machine : Lead(m) \/ Follow(m) \/ TakeBack(m) \/ Leave(m)

Spec == Init /\ [][Next]_vars

\* Two machines differ at most in how far they have come.
OneGame == \A m, n \in up : IsPrefix(games[m], games[n]) \/ IsPrefix(games[n], games[m])
=============================================================================
