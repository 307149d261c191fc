---------------------------- MODULE SideActions ----------------------------
(* The planned actions of one side (whiteboard/side_actions.cpp, with the callers *)
(* of manager.cpp and mapbuilder.cpp) on the machine that owns the side, and the    *)
(* copy that an ally keeps from the net_cmds it is sent.                            *)
(*                                                                                  *)
(* The container is a multi_index list with stable nodes and a deque of iterators   *)
(* to the first node of each turn.  An iterator is the position of its node here,   *)
(* so that inserting and erasing move it; one that is left on the erased node       *)
(* dangles.  A fault, of whatever kind, stops the machine: an assertion (the build  *)
(* undefines NDEBUG), a dangling iterator or a null pointer.                        *)
(*                                                                                  *)
(* An action is its unit and a number; routes, hexes, gold and drawing are left     *)
(* out, so that whether a move may pass another action is a choice.  Attacks are    *)
(* moves, recalls are recruits.  The ally hides the plans: its own map building     *)
(* would remove the plans that it finds invalid, too.  It sends each bump that it   *)
(* runs again; if that ever reaches the owner, it is one more Bump there.           *)
EXTENDS Naturals, Sequences, FiniteSets, SequencesExt

CONSTANTS Units,
          None,        \* no unit: a recruit brings its own
          MaxActions,  \* bound on the plans of the side
          MaxTurns,    \* bound on the turns planned
          MaxCommands, \* bound on the commands that the ally has not got yet
          MayDie       \* units that may die

ASSUME SideAssumption ==
  /\ MaxActions \in Nat /\ MaxTurns \in Nat /\ MaxCommands \in Nat
  /\ None \notin Units /\ MayDie \subseteq Units

Nums   == 1..MaxActions
Action == [unit : Units \cup {None}, n : Nums]

VARIABLES mine,   \* the container at the owner
          gone,   \* units that are dead at the owner
          buffer, \* net_buffer_: commands not sent yet
          wire,   \* packets of commands, and deaths, on their way to the ally
          ally    \* the ally's container, its dead units, and whether it did not run a
                  \* command since the container was last cleared

vars == <<mine, gone, buffer, wire, ally>>

Empty == [acts |-> <<>>, begins |-> <<>>, fault |-> "none"]

Init == /\ mine = Empty /\ gone = {} /\ buffer = <<>> /\ wire = <<>>
        /\ ally = [list |-> Empty, gone |-> {}, dropped |-> FALSE]

-----------------------------------------------------------------------------
(* The container.  Turns count from 0, positions from 1; one past the last is end(). *)

End(c)      == Len(c.acts) + 1
NumTurns(c) == Len(c.begins)

TurnBegin(c, t) == IF t >= NumTurns(c) THEN End(c) ELSE c.begins[t + 1]
TurnEnd(c, t)   == TurnBegin(c, t + 1)
TurnSize(c, t)  == TurnEnd(c, t) - TurnBegin(c, t)

\* get_turn_impl: of turns that begin at the same action, the last one is meant.
GetTurn(c, p) ==
  LET impl[r \in (0..NumTurns(c)) \X (0..NumTurns(c))] ==
        LET mid == (r[1] + r[2]) \div 2
        IN  IF r[1] + 1 >= r[2]            THEN r[1]
            ELSE IF p < c.begins[mid + 1]  THEN impl[<<r[1], mid>>]
            ELSE IF p > c.begins[mid + 1]  THEN impl[<<mid, r[2]>>]
            ELSE mid
  IN  impl[<<0, NumTurns(c)>>]

PositionInTurn(c, p) == p - TurnBegin(c, GetTurn(c, p))

Fails(c, why) == [c EXCEPT !.fault = why]

\* actions_.insert: the iterators at and behind p follow their nodes.
Placed(c, p, a) ==
  [acts   |-> InsertAt(c.acts, p, a),
   begins |-> [i \in DOMAIN c.begins |-> IF c.begins[i] >= p THEN c.begins[i] + 1 ELSE c.begins[i]],
   fault  |-> c.fault]

Insert(c, p, a) ==
  CASE p > End(c)                 -> Fails(c, "assertion")
    [] p = 1 /\ c.begins = <<>>   -> Fails(c, "dangling")
    [] p = 1 /\ c.begins # <<>>   -> [Placed(c, p, a) EXCEPT !.begins[1] = 1]
    [] OTHER                      -> Placed(c, p, a)

\* A mutation: the first plan for this turn, with later turns planned, begins no turn.
QueueBehind(c, t, a) ==
  LET p == TurnEnd(c, t)
      d == Placed(c, p, a)
      begins == IF t = 1 /\ NumTurns(c) = 0 THEN <<p>> ELSE d.begins
  IN  IF t > Len(begins) THEN Fails(c, "assertion")
      ELSE [d EXCEPT !.begins = IF t = Len(begins) THEN Append(begins, p) ELSE begins]

Queue(c, t, a) ==
  LET future_only == t = 1 /\ NumTurns(c) = 0
      current_turn_unplanned == TurnSize(c, 0) = 0
      p == TurnEnd(c, t)
      d == Placed(c, p, a)
      begins == IF future_only THEN Append(d.begins, p) ELSE d.begins
  IN  IF t > NumTurns(c) /\ ~future_only THEN Fails(c, "assertion")
      ELSE [d EXCEPT !.begins = IF t >= Len(begins) THEN Append(begins, p)
                                ELSE IF t = 0 /\ current_turn_unplanned THEN [begins EXCEPT ![1] = p]
                                ELSE begins]

\* A mutation: the turn still begins where it did.
PushBehind(c, t, a) ==
  IF TurnSize(c, t) = 0 THEN Queue(c, t, a) ELSE Insert(c, TurnBegin(c, t), a)

PushFront(c, t, a) ==
  LET p == TurnBegin(c, t)
      d == Insert(c, p, a)
      e == [d EXCEPT !.begins[t + 1] = p]
  IN  CASE TurnSize(c, t) = 0 -> Queue(c, t, a)
        [] TurnSize(c, t) # 0 /\ t = 1 /\ TurnSize(d, 0) = 0 -> [e EXCEPT !.begins[1] = p]
        [] OTHER -> e

SafeInsert(c, t, pos, a) ==
  IF pos = 0 THEN PushFront(c, t, a) ELSE Insert(c, TurnBegin(c, t) + pos, a)

\* The beginning of a turn moves on with its first action; the first turn found to
\* begin there is the one that is looked at.
Erase(c, p) ==
  LET found == {i \in DOMAIN c.begins : c.begins[i] = p}
      i == Min(found)
      still == GetTurn(c, p + 1) = i - 1
      begins == IF found = {}              THEN c.begins
                ELSE IF Len(c.acts) = 1    THEN <<>>
                ELSE IF p = Len(c.acts)    THEN Front(c.begins)
                ELSE [c.begins EXCEPT ![i] = IF still THEN p + 1 ELSE TurnEnd(c, 0)]
  IN  IF found # {} /\ p < Len(c.acts) /\ ~still /\ i # 1 THEN Fails(c, "assertion")
      ELSE IF p \in ToSet(begins) THEN Fails(c, "dangling")
      ELSE [acts   |-> RemoveAt(c.acts, p),
            begins |-> [j \in DOMAIN begins |-> IF begins[j] > p THEN begins[j] - 1 ELSE begins[j]],
            fault  |-> c.fault]

Swapped(c, p) == [c EXCEPT !.acts[p] = c.acts[p - 1], !.acts[p - 1] = c.acts[p]]

TurnShift(c) == IF TurnSize(c, 0) # 0 THEN Fails(c, "assertion")
                                      ELSE [c EXCEPT !.begins = Tail(@)]

-----------------------------------------------------------------------------
(* side_actions::raw_turn_shift *)

Dead(a, dead) == a.unit \in dead

\* get_unit, as far as comparing two goes.
Actor(a) == IF a.unit = None THEN a ELSE a.unit

\* Units with plans left for this turn: all their plans are pushed back one turn.
LazyUnits(c, dead) ==
  {Actor(c.acts[p]) : p \in {q \in TurnBegin(c, 0)..(TurnEnd(c, 0) - 1) : ~Dead(c.acts[q], dead)}}

PushedBack(c, dead) ==
  LET lazy == LazyUnits(c, dead)
      push(d, p) == IF d.fault = "none" /\ Actor(d.acts[p]) \in lazy
                    THEN Erase(SafeInsert(d, GetTurn(d, p) + 1, 0, d.acts[p]), p)
                    ELSE d
  IN  FoldLeft(push, c, [i \in 1..Len(c.acts) |-> End(c) - i])

\* Plans without a unit are copied to the front of the next turn, up to the action at
\* which that turn began: the loop meets its own copies and copies them again.
Remaining(c) ==
  LET step(s) ==
        LET to == IF TurnSize(s.list, 1) = 0 THEN TurnEnd(s.list, 1) ELSE TurnBegin(s.list, 1)
        IN  [list |-> SafeInsert(s.list, 1, 0, s.list.acts[s.act]),
             act  |-> s.act + IF to <= s.act THEN 2 ELSE 1,
             end  |-> s.end + 1]
      loop[k \in 0..(2 * Len(c.acts))] ==
        IF k = 0 THEN [list |-> c, act |-> TurnBegin(c, 0), end |-> TurnEnd(c, 0)]
        ELSE LET s == loop[k - 1] IN IF s.act = s.end THEN s ELSE step(s)
  IN  loop[2 * Len(c.acts)].list

\* erase(first, last) of this turn, and turn_shift.
Begun(c) ==
  LET erase(d, p) == IF d.fault = "none" THEN Erase(d, p) ELSE d
      rest == FoldLeft(erase, c, [i \in 1..TurnSize(c, 0) |-> TurnEnd(c, 0) - i])
  IN  IF rest.fault = "none" THEN TurnShift(rest) ELSE rest

RawTurnShift(c, dead) ==
  LET d == PushedBack(c, dead) IN IF d.fault = "none" THEN Begun(Remaining(d)) ELSE d

-----------------------------------------------------------------------------
(* net_cmds, made before or after the local change as the code does, and applied *)

NetInsert(t, pos, a)  == [type |-> "insert", turn |-> t, pos |-> pos, action |-> a]
NetReplace(c, p, a)   == [type |-> "replace", turn |-> GetTurn(c, p), pos |-> PositionInTurn(c, p), action |-> a]
NetRemove(c, p)       == [type |-> "remove", turn |-> GetTurn(c, p), pos |-> PositionInTurn(c, p)]
NetBumpLater(c, p)    == [type |-> "bump_later", turn |-> GetTurn(c, p), pos |-> PositionInTurn(c, p)]
NetClear              == [type |-> "clear"]
NetRefresh(c)         == [type |-> "refresh", cmds |->
                            [p \in 1..Len(c.acts) |-> NetInsert(GetTurn(c, p), PositionInTurn(c, p), c.acts[p])]]

\* bump_earlier lets nothing into another turn, and no two actions of one unit pass
\* each other.  A move that passes a recruit is asked for its unit without a look.
BumpAllowed(c, p, dead) ==
  /\ PositionInTurn(c, p) # 0
  /\ Dead(c.acts[p - 1], dead) \/ Dead(c.acts[p], dead) \/ Actor(c.acts[p - 1]) # Actor(c.acts[p])

Bumped(c, p, dead) ==
  IF Dead(c.acts[p], dead) /\ c.acts[p - 1].unit = None THEN Fails(c, "null") ELSE Swapped(c, p)

\* swapable_with_move looks at the map, and the ally has its own: it may refuse to let
\* a move of a living unit pass a recruit, and says nothing of it.
MayRefuse(a, cmd) ==
  LET c == a.list
      p == TurnBegin(c, cmd.turn) + cmd.pos
  IN  /\ cmd.type = "bump_later" /\ p + 1 < End(c) /\ GetTurn(c, p) = cmd.turn
      /\ BumpAllowed(c, p + 1, a.gone)
      /\ c.acts[p].unit = None /\ c.acts[p + 1].unit \in Units \ a.gone

\* execute_net_cmd, of a command of its own or of a refresh.
Ran(a, cmd) ==
  LET c == a.list
      p == TurnBegin(c, cmd.turn) + cmd.pos
      drop == [a EXCEPT !.dropped = TRUE]
      known == ~Dead(cmd.action, a.gone)
      misses == p >= End(c) \/ GetTurn(c, p) # cmd.turn
  IN  IF c.fault # "none" THEN a
      ELSE IF cmd.type = "insert" THEN
        IF known THEN [a EXCEPT !.list = SafeInsert(c, cmd.turn, cmd.pos, cmd.action)] ELSE drop
      ELSE IF cmd.type = "replace" THEN
        IF known /\ ~misses THEN [a EXCEPT !.list.acts[p] = cmd.action] ELSE drop
      ELSE IF cmd.type = "remove" THEN
        IF misses THEN drop ELSE [a EXCEPT !.list = Erase(c, p)]
      ELSE \* bump_later
        IF p + 1 >= End(c) \/ GetTurn(c, p) # cmd.turn THEN drop
        ELSE IF BumpAllowed(c, p + 1, a.gone) THEN [a EXCEPT !.list = Bumped(c, p + 1, a.gone)]
        ELSE a

\* refresh clears and runs its own insert commands.
Executed(a, cmd, refuses) ==
  LET cleared == [a EXCEPT !.list = Empty, !.dropped = FALSE]
  IN  IF a.list.fault # "none"                 THEN a
      ELSE IF cmd.type = "clear"               THEN cleared
      ELSE IF cmd.type = "refresh"             THEN FoldLeft(Ran, cleared, cmd.cmds)
      ELSE IF refuses /\ MayRefuse(a, cmd)     THEN [a EXCEPT !.dropped = TRUE]
      ELSE Ran(a, cmd)

-----------------------------------------------------------------------------
(* What the owner does. *)

Runs == mine.fault = "none"

\* The new list and the commands for it; a machine that stopped does nothing more.
Become(c, cmds) ==
  /\ mine' = c
  /\ buffer' = buffer \o cmds
  /\ Len(c.acts) <= MaxActions /\ Len(c.begins) <= MaxTurns
  /\ Len(buffer') + Len(FlattenSeq([i \in DOMAIN wire |-> wire[i].cmds])) <= MaxCommands

\* A number that no other plan for this unit has.
Fresh(c, u) ==
  [unit |-> u, n |-> Min(Nums \ {c.acts[p].n : p \in {q \in DOMAIN c.acts : c.acts[q].unit = u}})]

GetTurnNumOf(c, u) ==
  LET his == {p \in DOMAIN c.acts : c.acts[p].unit = u}
  IN  IF his = {} THEN 0 ELSE GetTurn(c, Max(his))

\* A mutation: the position is taken for that before the insertion.
QueuedBefore(s, t, u) ==
  LET a == Fresh(s.list, u)
      d == Queue(s.list, t, a)
  IN  [list |-> d, cmds |-> Append(s.cmds, NetInsert(t, TurnSize(d, t), a))]

\* synced_enqueue: the command comes after the insertion.
Queued(s, t, u) ==
  LET a == Fresh(s.list, u)
      d == Queue(s.list, t, a)
  IN  [list |-> d, cmds |-> Append(s.cmds, NetInsert(t, TurnSize(d, t) - 1, a))]

\* save_temp_move, save_temp_attack: a move takes turns turns, from the turn of the
\* unit's last plan or the next.
SaveMove(u, late, turns) ==
  LET first == GetTurnNumOf(mine, u) + late
      s == FoldLeft(LAMBDA r, i : Queued(r, first + i - 1, u), [list |-> mine, cmds |-> <<>>],
                    [i \in 1..turns |-> i])
  IN  /\ Runs
      /\ Len(mine.acts) + turns <= MaxActions
      /\ Become(s.list, s.cmds)
      /\ UNCHANGED <<gone, wire, ally>>

\* save_recruit: in the turn of the recruiter's last plan.  save_recall: in the last turn.
SaveRecruit(t) ==
  LET s == Queued([list |-> mine, cmds |-> <<>>], t, None)
  IN  /\ Runs
      /\ Len(mine.acts) < MaxActions
      /\ t \in {GetTurnNumOf(mine, u) : u \in Units \ gone}
              \cup {IF NumTurns(mine) > 0 THEN NumTurns(mine) - 1 ELSE 0}
      /\ Become(s.list, s.cmds)
      /\ UNCHANGED <<gone, wire, ally>>

\* synced_erase, for contextual_delete, for an action that is invalid when it is to be
\* executed, and for mapbuilder::process, which passes over the plans of the dead.
RemoveAction(p) ==
  /\ Runs
  /\ Become(Erase(mine, p), <<NetRemove(mine, p)>>)
  /\ UNCHANGED <<gone, wire, ally>>

\* execute, of an action of this turn that is complete then, whether it succeeded or
\* not.  The fight may cost the unit: it is sent, after what waits, before the action
\* is erased.
Execute(p) ==
  /\ Runs
  /\ p < TurnEnd(mine, 0)
  /\ mine.acts[p].unit \in MayDie \ gone
  /\ buffer = <<>>
  /\ gone' = gone \cup {mine.acts[p].unit}
  /\ wire' = Append(wire, [cmds |-> <<>>, dies |-> {mine.acts[p].unit}])
  /\ Become(Erase(mine, p), <<NetRemove(mine, p)>>)
  /\ UNCHANGED ally

\* contextual_execute takes the first plan of the unit selected, of whatever turn, if
\* anything is planned for this one; execute asserts that it is planned for this one.
ExecuteTooEarly(p) ==
  /\ Runs
  /\ TurnSize(mine, 0) > 0 /\ p >= TurnEnd(mine, 0)
  /\ ~Dead(mine.acts[p], gone)
  /\ \A q \in 1..(p - 1) : Actor(mine.acts[q]) # Actor(mine.acts[p])
  /\ Become(Fails(mine, "assertion"), <<>>)
  /\ UNCHANGED <<gone, wire, ally>>

\* execute, of a move that is interrupted and revises itself.
ExecutePart(p) ==
  LET mover == mine.acts[p].unit
      a == Fresh(mine, mover)
  IN  /\ Runs
      /\ p < TurnEnd(mine, 0)
      /\ mover \in Units \ gone /\ Len(mine.acts) < MaxActions
      /\ Become([mine EXCEPT !.acts[p] = a], <<NetReplace(mine, p, a)>>)
      /\ UNCHANGED <<gone, wire, ally>>

\* bump_earlier of p, or bump_later of the action before it.
Bump(p) ==
  /\ Runs
  /\ BumpAllowed(mine, p, gone)
  /\ Become(Bumped(mine, p, gone), <<NetBumpLater(mine, p - 1)>>)
  /\ UNCHANGED <<gone, wire, ally>>

\* on_finish_side_turn: also when the time is up, with plans left for this turn.
FinishSideTurn ==
  LET c == RawTurnShift(mine, gone)
  IN  /\ Runs
      /\ mine # Empty
      /\ Become(c, <<NetRefresh(c)>>)
      /\ UNCHANGED <<gone, wire, ally>>

\* on_change_controller: the side has just come to this machine ...
TakeSide == /\ Runs
            /\ Become(Empty, <<NetClear>>)
            /\ UNCHANGED <<gone, wire, ally>>

\* ... or another client has got a side, and is told the plans of this one.
TellPlans == /\ Runs
             /\ Become(mine, <<NetRefresh(mine)>>)
             /\ UNCHANGED <<gone, wire, ally>>

\* send_network_data
SendNetworkData ==
  /\ Runs /\ buffer # <<>>
  /\ wire' = Append(wire, [cmds |-> buffer, dies |-> {}])
  /\ buffer' = <<>>
  /\ UNCHANGED <<mine, gone, ally>>

\* An enemy kills the unit: the ally hears of it before what the owner has not sent yet.
EnemyKills(u) ==
  /\ Runs /\ u \in MayDie \ gone
  /\ gone' = gone \cup {u}
  /\ wire' = Append(wire, [cmds |-> <<>>, dies |-> {u}])
  /\ UNCHANGED <<mine, buffer, ally>>

\* process_network_data at the ally: all commands of a packet, in their order.
Receive ==
  /\ wire # <<>>
  /\ LET cmds == Head(wire).cmds
     IN  \E refused \in SUBSET DOMAIN cmds :
           ally' = FoldLeft(LAMBDA a, i : Executed(a, cmds[i], i \in refused),
                            [ally EXCEPT !.gone = @ \cup Head(wire).dies],
                            [i \in DOMAIN cmds |-> i])
  /\ wire' = Tail(wire)
  /\ UNCHANGED <<mine, gone, buffer>>

Next ==
  \/ \E u \in Units \ gone, late \in {0, 1}, turns \in {1, 2} : SaveMove(u, late, turns)
  \/ \E t \in 0..MaxTurns : SaveRecruit(t)
  \/ \E p \in DOMAIN mine.acts : RemoveAction(p) \/ Execute(p) \/ ExecuteTooEarly(p) \/ ExecutePart(p)
  \/ \E p \in 2..Len(mine.acts) : Bump(p)
  \/ FinishSideTurn \/ TakeSide \/ TellPlans \/ SendNetworkData
  \/ \E u \in Units : EnemyKills(u)
  \/ Receive

Spec == Init /\ [][Next]_vars

-----------------------------------------------------------------------------
(* What makes the plans correct. *)

\* The turns follow one another in the list, the first begins with it, and only the
\* first may be empty (the invariants of side_actions_container).
TurnsInOrder(c) ==
  /\ c.begins = <<>> <=> c.acts = <<>>
  /\ c.begins # <<>> => c.begins[1] = 1
  /\ \A i \in DOMAIN c.begins :
       /\ c.begins[i] \in DOMAIN c.acts
       /\ i > 1 => c.begins[i - 1] < c.begins[i] \/ (i = 2 /\ c.begins[1] = c.begins[2])

TypeOK ==
  /\ mine.acts \in Seq(Action) /\ Len(mine.acts) <= MaxActions
  /\ gone \subseteq Units /\ ally.gone \subseteq gone
  /\ Len(buffer) <= MaxCommands
  /\ ally.dropped \in BOOLEAN
  /\ mine.fault = "none" => TurnsInOrder(mine)

Plans == INSTANCE TurnPlans WITH
  plan <- [t \in 1..NumTurns(mine) |->
             SubSeq(mine.acts, TurnBegin(mine, t - 1), TurnEnd(mine, t - 1) - 1)]

\* erase loses the iterator of a later turn where the turn's only action is planned and
\* further turns are, or nothing is planned for this turn.
LosesTurn(c, p) ==
  LET t == GetTurn(c, p)
  IN  /\ t >= 1 /\ p = TurnBegin(c, t)
      /\ \/ TurnSize(c, t) = 1 /\ t + 1 < NumTurns(c)
         \/ t = 1 /\ TurnBegin(c, 1) = 1 /\ Len(c.acts) > 1

\* A later turn has plans of lazy units only.
LosesShift(c, dead) ==
  \E t \in 1..(NumTurns(c) - 1) : \A p \in TurnBegin(c, t)..(TurnEnd(c, t) - 1) :
    Actor(c.acts[p]) \in LazyUnits(c, dead)

\* The steps on which the code stops.
GivesUp ==
  \/ \E p \in DOMAIN mine.acts :
       \/ (RemoveAction(p) \/ Execute(p)) /\ LosesTurn(mine, p)
       \/ ExecuteTooEarly(p)
       \/ Bump(p) /\ Dead(mine.acts[p], gone) /\ mine.acts[p - 1].unit = None
  \/ FinishSideTurn /\ LosesShift(mine, gone)

\* The list and its iterators are the plans of each turn, whatever is queued, erased,
\* bumped and shifted in whatever order, unless the code stops, which it does on the
\* steps of GivesUp only; and shifting keeps the plans of the dead twice, where the
\* promise is once (side_actions.cpp:884).
KeepsPlans ==
  IF mine'.fault = "none" THEN Plans!Next \/ Plans!Shifted(2) ELSE GivesUp

ImplementsTurnPlans == Plans!Init /\ [][KeepsPlans]_<<mine, gone>>

\* An ally that has been told everything has the same plans, unless it did not run a
\* command since it last cleared its copy: after a refresh or a clear it is right again
\* (execute_net_cmd, make_net_cmd_*).  It stops only where the unit of a move that is
\* bumped is dead by now.
AllyFollows ==
  Runs /\ buffer = <<>> /\ wire = <<>> /\ ~ally.dropped =>
    ally.list = mine \/ (ally.list.fault = "null" /\ ally.gone # {})
=============================================================================
