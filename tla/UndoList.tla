------------------------------ MODULE UndoList ------------------------------
(* A player's turn in a network game: what he does, undoes and redoes           *)
(* (actions/undo.cpp), what the recorder keeps of it (Replay) and what the       *)
(* sender has told the others (replay_network_sender, turn_info::send_data).     *)
(* The game is where the units are, what they are called, how many messages were *)
(* written and whether the shroud is updated at once; whatever else a command    *)
(* changes is left out.                                                          *)
EXTENDS Replay

CONSTANTS Recruits, Veterans,  \* units that can be recruited, recalled
          Hexes,
          MaxCommands,         \* bound: commands on record
          MaxMessages          \* bound: messages, from here and from others

\* A unit that is on no hex is at one of these.
ASSUME PlacesAssumption == Hexes \cap {"unborn", "recall", "gone"} = {}

ASSUME BoundsAssumption == MaxCommands \in Nat /\ MaxMessages \in Nat

VARIABLES cmds, upto,          \* the recorder; replay_network_sender::upto_
          undos, redos,        \* undo_list
          game, peer,          \* the game here, and on the other machines
          lapsed,              \* history: renamed units whose recall was undone
          stale,               \* history: an undo removed commands by numbers that
                               \* did not hold any more
          control              \* "ours", "leaving" while the turn is restarted, "lost"

vars == <<cmds, upto, undos, redos, game, peer, lapsed, stale, control>>

Units == Recruits \cup Veterans
Names == {"own", "new"}
Shroud == {"update_shroud", "shroud_on", "shroud_off"}

-----------------------------------------------------------------------------
(* The game.                                                                 *)

NewGame == [at   |-> [u \in Units |-> IF u \in Recruits THEN "unborn" ELSE "recall"],
            name |-> [u \in Units |-> "own"], said |-> 0, auto |-> TRUE]

Free(g, hex) == \A u \in Units : g.at[u] # hex

Placed(g, u, place) == [g EXCEPT !.at[u] = place]

Moved(g, from, to) ==
  [g EXCEPT !.at = [u \in Units |-> IF g.at[u] = from THEN to ELSE g.at[u]]]

Renamed(g, hex, name) ==
  [g EXCEPT !.name = [u \in Units |-> IF g.at[u] = hex THEN name ELSE g.name[u]]]

Born(g, u, hex) == [Placed(g, u, hex) EXCEPT !.name[u] = "own"]

\* What do_replay_handle makes of a command.
Execute(g, c) ==
  CASE c.kind = "recruit"                     -> Born(g, c.unit, c.to)
    [] c.kind = "recall"                      -> Placed(g, c.unit, c.to)
    [] c.kind = "disband"                     -> Placed(g, c.unit, "gone")
    [] c.kind = "move"                        -> Moved(g, c.at, c.to)
    [] c.kind = "rename"                      -> Renamed(g, c.at, c.name)
    [] c.kind = "speak"                       -> [g EXCEPT !.said = @ + 1]
    [] c.kind \in {"shroud_on", "shroud_off"} -> [g EXCEPT !.auto = (c.kind = "shroud_on")]
    [] OTHER                                  -> g

Run(g, commands) == FoldLeft(Execute, g, commands)

-----------------------------------------------------------------------------
(* The undo stack.  An action has the fields of its command, and, once undone,   *)
(* the replay data that undo_cut gave it.                                        *)

Action(c) == [command |-> c, data |-> <<>>]

Kinds == {"recruit", "recall", "disband", "move", "fight", "rename", "speak",
          "choice", "seed", "start"} \cup Shroud

Commands == [kind : Kinds, unit : Units \cup {None}, at : Hexes \cup {None},
             to : Hexes \cup {None}, name : Names \cup {None}, sent : BOOLEAN]

Games == [at : [Units -> Hexes \cup {"unborn", "recall", "gone"}],
          name : [Units -> Names], said : Nat, auto : BOOLEAN]

TypeOK ==
  /\ cmds \in Seq(Commands) /\ upto \in 0..Len(cmds)
  /\ undos \in Seq([command : Commands, data : {<<>>}])
  /\ redos \in Seq([command : Commands, data : Seq(Commands)])
  /\ game \in Games /\ peer \in Games
  /\ lapsed \subseteq Units /\ stale \in BOOLEAN
  /\ control \in {"ours", "leaving", "lost"}

\* The turn begins with everything sent.
Init ==
  /\ cmds = <<[Command("start") EXCEPT !.sent = TRUE]>> /\ upto = 1
  /\ undos = <<>> /\ redos = <<>>
  /\ game = NewGame /\ peer = NewGame
  /\ lapsed = {} /\ stale = FALSE /\ control = "ours"

\* Room for a command and so many more.
Room(more) == control = "ours" /\ Len(cmds) + more < MaxCommands

\* Mutant of Perform: an action that cannot be undone leaves the stack alone.
PerformKeeps(c, choices, undoable) ==
  /\ cmds' = cmds \o <<c>> \o [i \in 1..choices |-> Command("choice")]
  /\ game' = Execute(game, c)
  /\ undos' = IF undoable THEN Append(undos, Action(c)) ELSE undos
  /\ redos' = <<>>
  /\ UNCHANGED <<upto, peer, lapsed, stale, control>>

\* Mutant of Perform: what could be done again still can.
PerformKeepsRedos(c, choices, undoable) ==
  /\ cmds' = cmds \o <<c>> \o [i \in 1..choices |-> Command("choice")]
  /\ game' = Execute(game, c)
  /\ undos' = IF undoable THEN Append(undos, Action(c)) ELSE <<>>
  /\ UNCHANGED <<redos, upto, peer, lapsed, stale, control>>

\* run_in_synced_context: the command, the answers that its events asked for, and
\* either an action on the stack (which empties the other) or none on either.
Perform(c, choices, undoable) ==
  /\ cmds' = cmds \o <<c>> \o [i \in 1..choices |-> Command("choice")]
  /\ game' = Execute(game, c)
  /\ undos' = IF undoable THEN Append(undos, Action(c)) ELSE <<>>
  /\ redos' = <<>>
  /\ UNCHANGED <<upto, peer, lapsed, stale, control>>

Recruit ==
  \E u \in Recruits, h \in Hexes, n \in 0..1, undoable \in BOOLEAN :
    /\ Room(n) /\ game.at[u] = "unborn" /\ Free(game, h)
    /\ Perform([Command("recruit") EXCEPT !.unit = u, !.to = h], n, undoable)

Recall ==
  \E u \in Veterans, h \in Hexes, n \in 0..1, undoable \in BOOLEAN :
    /\ Room(n) /\ game.at[u] = "recall" /\ Free(game, h)
    /\ Perform([Command("recall") EXCEPT !.unit = u, !.to = h], n, undoable)

MoveUnit ==
  \E u \in Units, h \in Hexes, n \in 0..1, undoable \in BOOLEAN :
    /\ Room(n) /\ game.at[u] \in Hexes /\ Free(game, h)
    /\ Perform([Command("move") EXCEPT !.at = game.at[u], !.to = h], n, undoable)

Dismiss ==
  \E u \in Veterans :
    /\ Room(0) /\ game.at[u] = "recall"
    /\ Perform([Command("disband") EXCEPT !.unit = u], 0, TRUE)

\* An attack, an event: the stack is cleared, the others are told while the answer
\* of the server is awaited, and the answer comes as sent.
Fight ==
  /\ Room(1)
  /\ cmds' = cmds \o <<Command("fight"), [Command("seed") EXCEPT !.sent = TRUE]>>
  /\ upto' = Len(cmds')
  /\ peer' = Run(peer, Unsent(Append(cmds, Command("fight")), upto))
  /\ undos' = <<>> /\ redos' = <<>>
  /\ UNCHANGED <<game, lapsed, stale, control>>

Rename ==
  \E u \in Units :
    /\ Room(0) /\ game.at[u] \in Hexes
    /\ cmds' = Append(cmds, [Command("rename") EXCEPT !.at = game.at[u], !.name = "new"])
    /\ game' = Renamed(game, game.at[u], "new")
    /\ UNCHANGED <<upto, undos, redos, peer, lapsed, stale, control>>

Speak ==
  /\ Room(0) /\ game.said < MaxMessages
  /\ cmds' = Append(cmds, Command("speak"))
  /\ game' = Execute(game, Command("speak"))
  /\ UNCHANGED <<upto, undos, redos, peer, lapsed, stale, control>>

\* handle_turn with a message from another player.
Receive ==
  LET c == [Command("speak") EXCEPT !.sent = TRUE]
  IN  /\ Room(0) /\ game.said < MaxMessages
      /\ cmds' = Append(cmds, c)
      /\ game' = Execute(game, c)
      /\ peer' = Execute(peer, c)
      /\ UNCHANGED <<upto, undos, redos, lapsed, stale, control>>

\* The stack after commit_vision: it is dropped when something came into sight.
Committed == {undos \o <<Action(Command("update_shroud"))>>} \cup
             {<<Action(Command("update_shroud"))>> : seen \in IF game.auto THEN {} ELSE {TRUE}}

\* update_shroud_now.  The redo stack stays.
UpdateShroud ==
  /\ Room(0)
  /\ cmds' = Append(cmds, Command("update_shroud"))
  /\ undos' \in Committed
  /\ UNCHANGED <<upto, redos, game, peer, lapsed, stale, control>>

\* toggle_shroud_updates, which first updates when it turns automatic updates on.
ToggleShroud ==
  LET c == Command(IF game.auto THEN "shroud_off" ELSE "shroud_on")
  IN  /\ Room(IF game.auto THEN 0 ELSE 1)
      /\ \/ /\ game.auto
            /\ cmds' = Append(cmds, c)
            /\ undos' = Append(undos, Action(c))
         \/ /\ ~game.auto
            /\ cmds' = cmds \o <<Command("update_shroud"), c>>
            /\ \E u \in Committed : undos' = Append(u, Action(c))
      /\ game' = Execute(game, c)
      /\ UNCHANGED <<upto, redos, peer, lapsed, stale, control>>

-----------------------------------------------------------------------------
(* Undo and redo.                                                            *)

\* Whether undo_action::undo finds the unit, and the way back free.
CanTakeBack(g, c) ==
  CASE c.kind \in {"recruit", "recall"} -> ~Free(g, c.to)
    [] c.kind = "move"                  -> ~Free(g, c.to) /\ Free(g, c.at)
    [] OTHER                            -> TRUE

TakeBack(g, c) ==
  CASE c.kind = "recruit"               -> [Placed(g, c.unit, "unborn") EXCEPT !.name[c.unit] = "own"]
    [] c.kind \in {"recall", "disband"} -> Placed(g, c.unit, "recall")
    [] c.kind = "move"                  -> Moved(g, c.to, c.at)

\* The topmost action that is not about the shroud, 0 if there is none.
Top == Max({0} \cup {i \in DOMAIN undos : undos[i].command.kind \notin Shroud})

\* The shroud actions above it; each takes its command from the record, undoes what
\* is below, and comes back.
OnTop == SubSeq(undos, Top + 1, Len(undos))

Again == [i \in DOMAIN OnTop |-> OnTop[i].command]

Peeled == FoldLeft(LAMBDA c, a : UndoCut(c), cmds, OnTop)

UndoStep ==
  /\ undos # <<>>
  /\ \/ /\ Top = 0
        /\ cmds' = Peeled \o Again
        /\ UNCHANGED <<undos, redos, game, lapsed, stale>>
     \/ /\ Top # 0
        /\ undos' = SubSeq(undos, 1, Top - 1) \o OnTop
        /\ LET c == undos[Top].command
           IN  \/ /\ CanTakeBack(game, c)
                  /\ cmds' = UndoCut(Peeled) \o Again
                  /\ game' = TakeBack(game, c)
                  /\ redos' = Append(redos, [command |-> c, data |-> Cut(Peeled)])
                  /\ lapsed' = IF c.kind = "recall" /\ Orphans(Peeled, LastReal(Peeled)) # {}
                               THEN lapsed \cup {c.unit} ELSE lapsed
                  /\ stale' = (stale \/ ~NumbersHold(Peeled))
               \/ /\ ~CanTakeBack(game, c)
                  /\ cmds' = Peeled \o Again
                  /\ UNCHANGED <<redos, game, lapsed, stale>>
  /\ UNCHANGED <<upto, peer>>

Undo == control = "ours" /\ UndoStep /\ UNCHANGED control

\* Whether undo_action::redo finds the unit or a place for it.
CanDoAgain(g, c) ==
  CASE c.kind \in {"recruit", "recall"} -> Free(g, c.to)
    [] c.kind = "move"                  -> ~Free(g, c.at)
    [] OTHER                            -> TRUE

\* Mutant of Redo: the action keeps its replay data.
RedoKeeps ==
  /\ control = "ours" /\ redos # <<>>
  /\ Len(cmds) + Len(Last(redos).data) <= MaxCommands
  /\ redos' = Front(redos)
  /\ cmds' = cmds \o Last(redos).data
  /\ game' = Execute(game, Last(redos).command)
  /\ undos' = Append(undos, Last(redos))
  /\ UNCHANGED <<upto, peer, lapsed, stale, control>>

\* undo_list::redo.  A recruit or recall fires its events again.
Redo ==
  /\ control = "ours" /\ redos # <<>>
  /\ redos' = Front(redos)
  /\ LET c == Last(redos).command
     IN  \/ /\ CanDoAgain(game, c)
            /\ \E n \in IF c.kind \in {"recruit", "recall"} THEN 0..1 ELSE {0} :
                 /\ Len(cmds) + Len(Last(redos).data) + n <= MaxCommands
                 /\ cmds' = cmds \o Last(redos).data \o [i \in 1..n |-> Command("choice")]
            /\ game' = Execute(game, c)
            /\ undos' = Append(undos, Action(c))
         \/ /\ ~CanDoAgain(game, c)
            /\ UNCHANGED <<cmds, game, undos>>
  /\ UNCHANGED <<upto, peer, lapsed, stale, control>>

-----------------------------------------------------------------------------
(* The sender, and the loss of the turn.                                     *)

\* Mutant of Send: everything goes out though something can be undone.
SendAll ==
  /\ upto' = Len(cmds)
  /\ peer' = Run(peer, Unsent(cmds, upto))
  /\ UNCHANGED <<cmds, undos, redos, game, lapsed, stale, control>>

\* turn_info::send_data: sync_non_undoable or commit_and_sync.
Send ==
  /\ \/ /\ undos # <<>>
        /\ peer' = Run(peer, Final(cmds, upto))
        /\ cmds' = Marked(cmds, upto)
        /\ UNCHANGED upto
     \/ /\ undos = <<>>
        /\ peer' = Run(peer, Unsent(cmds, upto))
        /\ upto' = Len(cmds)
        /\ UNCHANGED cmds
  /\ UNCHANGED <<undos, redos, game, lapsed, stale, control>>

\* Another player is given the side: PROCESS_RESTART_TURN.
LoseSide ==
  /\ control = "ours"
  /\ control' = "leaving"
  /\ UNCHANGED <<cmds, upto, undos, redos, game, peer, lapsed, stale>>

\* while(can_undo()) undo(), then the end of the turn clears both stacks.
Leave ==
  /\ control = "leaving"
  /\ \/ UndoStep /\ UNCHANGED control
     \/ /\ undos = <<>> /\ redos' = <<>> /\ control' = "lost"
        /\ UNCHANGED <<cmds, upto, undos, game, peer, lapsed, stale>>

Next ==
  \/ Recruit \/ Recall \/ MoveUnit \/ Dismiss \/ Fight \/ Rename \/ Speak \/ Receive
  \/ UpdateShroud \/ ToggleShroud \/ Undo \/ Redo
  \/ control # "leaving" /\ Send
  \/ LoseSide \/ Leave

Spec == Init /\ [][Next]_vars

\* The loop of play_human_turn runs.
FairSpec == Spec /\ WF_vars(Leave)

-----------------------------------------------------------------------------
(* What makes it correct.                                                    *)

\* The same game, up to the names that lapsed: see RecallKeepsName in the README.
Same(g, h) ==
  /\ g.at = h.at /\ g.said = h.said /\ g.auto = h.auto
  /\ \A u \in Units \ lapsed : g.name[u] = h.name[u]

\* Who replays the record of the turn gets the game as it is (replay.cpp): no undo
\* and no redo, in whatever order with renames, messages and shroud updates, leaves
\* a command too many, too few, or about the wrong hex, until numbers were stale.
RecordReproduces == ~stale => Same(Run(NewGame, cmds), game)

\* What is not sent yet brings the other machines to the same game: nothing is
\* lost, sent twice, or sent and then undone (replay_network_sender, undo_cut), until
\* numbers were stale.
PeerCatchesUp == ~stale => Same(Run(peer, Unsent(cmds, upto)), game)

\* The actions that can be undone are the last commands on record that undo_cut
\* would take, in the same order (undo_list::undo, which pairs them by position).
StackIsRecord ==
  LET open == Kept(cmds, {i \in upto+1..Len(cmds) : ~cmds[i].sent /\ Real(cmds[i])})
  IN  /\ Len(undos) <= Len(open)
      /\ \A i \in DOMAIN undos :
           undos[i].command = open[Len(open) - Len(undos) + i]

\* Every undo finds its unit, and the way back free ("Illegal 'undo' found"); every
\* redo too (the assertion in move_action::redo).
UndoPossible ==
  /\ Top # 0 => CanTakeBack(game, undos[Top].command)
  /\ redos # <<>> => CanDoAgain(game, Last(redos).command)

\* What was sent stays on record, in its order ("We assume that all already sent
\* (sent=yes) data isn't undoable").  A message marked later may stand before others.
\* An undo by stale numbers may remove one.
SentKept ==
  [][~stale' =>
       /\ upto <= upto'
       /\ IsPrefix(SubSeq(cmds, 1, upto), cmds')
       /\ \E I \in SUBSET {i \in DOMAIN cmds' : cmds'[i].sent} :
            Kept(cmds', I) = Kept(cmds, {i \in DOMAIN cmds : cmds[i].sent})]_vars

\* A player who loses the side leaves the turn (play_human_turn: "Clean undo stack
\* if turn has to be restarted (losing control)").
LosingSideEnds == control = "leaving" ~> control = "lost"
=============================================================================
