------------------------------- MODULE Replay -------------------------------
(* The recorder of replay.cpp: a list of commands, each with flags that say     *)
(* whether it can be undone, whether it belongs to the command before it, and   *)
(* whether it was sent.  Between two calls during one's own turn pos_ is the     *)
(* number of commands, so to insert at pos_ is to append.                        *)
EXTENDS Integers, Sequences, SequencesExt

CONSTANT None

\* What is left of s when only the positions in I are kept.
Kept(s, I) ==
  LET kept[n \in 0..Len(s)] ==
        IF n = 0 THEN <<>>
        ELSE IF n \in I THEN Append(kept[n - 1], s[n]) ELSE kept[n - 1]
  IN  kept[Len(s)]

\* A command of a kind; at and to are hexes, name is what a rename gives.
Command(kind) ==
  [kind |-> kind, unit |-> None, at |-> None, to |-> None, name |-> None, sent |-> FALSE]

\* "dependent": the user's or the server's answer to a question.
Dependent(c) == c.kind \in {"choice", "seed"}

\* "async": may be given out of turn, but is about a unit that undo may take away.
Async(c) == c.kind = "rename"

\* "undo" is not "no".
Undoable(c) == c.kind # "speak"

\* What undo_cut and get_last_real_command look for.  The first does not take sent
\* commands.
Real(c) == Undoable(c) /\ ~Async(c) /\ ~Dependent(c)

\* The command that the next undo cuts, 0 if there is none.
LastReal(cmds) == Max({0} \cup {i \in DOMAIN cmds : Real(cmds[i]) /\ ~cmds[i].sent})

\* What undo_cut hands to the action: the command and the answers that belong to it.
Cut(cmds) ==
  LET n == LastReal(cmds)
  IN  IF n = 0 THEN <<>>
      ELSE Kept(cmds, {n} \cup {i \in n+1..Len(cmds) : Dependent(cmds[i])})

\* The answers behind the n-th command are dropped.
WithoutAnswers(cmds, n) == Kept(cmds, {i \in DOMAIN cmds : i <= n \/ ~Dependent(cmds[i])})

\* Mutant of Repaired: renames keep the hex where the undone move ended.
NotRepaired(cmds, n) == cmds

\* Renames of the unit that the n-th command moved are about where it started.
Repaired(cmds, n) ==
  [i \in DOMAIN cmds |-> IF i > n /\ Async(cmds[i]) /\ cmds[i].at = cmds[n].to
                         THEN [cmds[i] EXCEPT !.at = cmds[n].at] ELSE cmds[i]]

\* Renames of the unit that the n-th command brought; numbers in the list as it is
\* before the answers are dropped.
Orphans(cmds, n) == {i \in n+1..Len(cmds) : Async(cmds[i]) /\ cmds[i].at = cmds[n].to}

\* remove_command for each number, the largest first; one that is too large does
\* nothing.
Without(cmds, numbers) == Kept(cmds, DOMAIN cmds \ numbers)

\* The numbers that undo_cut removes by are those of the renames that it means, though
\* it drops the answers before.
NumbersHold(cmds) ==
  LET n == LastReal(cmds)
  IN  n # 0 /\ cmds[n].kind \in {"recruit", "recall"}
        => Orphans(WithoutAnswers(cmds, n), n) = Orphans(cmds, n)

\* replay::undo_cut.
UndoCut(cmds) ==
  LET n    == LastReal(cmds)
      rest == WithoutAnswers(cmds, n)
  IN  CASE n = 0                                 -> cmds
        [] n # 0 /\ cmds[n].kind = "move"        -> RemoveAt(Repaired(rest, n), n)
        [] n # 0 /\ cmds[n].kind \in {"recruit", "recall"}
                                                 -> RemoveAt(Without(rest, Orphans(cmds, n)), n)
        [] OTHER                                 -> RemoveAt(rest, n)

\* get_data_range(upto_, ncommands()): what commit_and_sync sends.
Unsent(cmds, upto) == Kept(cmds, {i \in upto+1..Len(cmds) : ~cmds[i].sent})

\* get_data_range with NON_UNDO_DATA: what sync_non_undoable sends ...
Final(cmds, upto) ==
  Kept(cmds, {i \in upto+1..Len(cmds) : ~cmds[i].sent /\ ~Undoable(cmds[i])})

\* Mutant of Marked.
NotMarked(cmds, upto) == cmds

\* ... and marks.
Marked(cmds, upto) ==
  [i \in DOMAIN cmds |-> IF i > upto /\ ~Undoable(cmds[i])
                         THEN [cmds[i] EXCEPT !.sent = TRUE] ELSE cmds[i]]
=============================================================================
