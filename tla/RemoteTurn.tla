----------------------------- MODULE RemoteTurn -----------------------------
(* The turns of a network game, on every machine at once: commands that are      *)
(* recorded and sent, questions to a side or to the server in the middle of a     *)
(* command (replay.cpp, synced_context.cpp), the loop that reads the network       *)
(* (playturn.cpp, playmp_controller.cpp), undo, and a player who leaves and whose  *)
(* sides the host gives away.                                                      *)
(*                                                                                *)
(* The server has no source here.  It sends what it gets to the others in one      *)
(* order, answers require_random with a seed for all, tells the host which sides   *)
(* were dropped, and hands a side over at the host's word.  That a message reaches *)
(* it when it is sent loses nothing: no machine can tell.                          *)
EXTENDS Replay, FiniteSets

CONSTANTS Machine,
          Hosts,       \* one of them is the host
          LastSide,    \* sides are 1..LastSide
          Home,        \* the machine of each side
          Scripts,     \* the lists of questions a command of each kind may ask
          MaxCommands, \* bound on the commands of a game
          MayLeave     \* machines that may leave; one does at most

Side   == 1..LastSide
Server == 0  \* questions to the server have no side

\* Kinds of commands; a "move" can be undone, an "attack" stands for those that cannot.
Kinds == {"init_side", "move", "attack", "end_turn"}

ASSUME RemoteAssumption ==
  /\ Hosts \subseteq Machine /\ LastSide \in Nat \ {0} /\ MaxCommands \in Nat
  /\ Home \in [Side -> Machine] /\ None \notin Side /\ None \notin Kinds
  /\ \A kind \in Kinds : \A script \in Scripts[kind] : script \in Seq(Side \cup {Server})

VARIABLES st,    \* the state of each machine
          inbox, \* what the server has sent to each machine
          seeds, \* how many seeds the server has drawn
          up,    \* machines in the game
          host,  \* the host
          error, \* machines that reported that the game is out of sync
          \* What the properties ask of the past: machines that cleared their undo stack
          \* and no command did, and what happened that ends one game for all.
          cleared, stray

vars == <<st, inbox, seeds, up, host, error, cleared, stray>>

\* One who had cleared the undo stack left; a side was given away while the host did not
\* wait for it; the host waited in vain for a side to change hands.
Strays == {"left", "gift", "late"}

\* An entry of the record: a command with the questions its events ask, or the answer
\* that a machine gave for a side.
Entry(kind, by, side, script) ==
  [kind |-> kind, by |-> by, side |-> side, script |-> script, sent |-> FALSE]
Received(e) == [e EXCEPT !.sent = TRUE]

\* What an entry does to the game.
Event(e) == [kind |-> e.kind, by |-> e.by, side |-> e.side]

\* A command under way: look is the loop of a question before it waits, pull after.
NoRun == [kind |-> None, left |-> <<>>, phase |-> "idle", simul |-> FALSE, seeded |-> FALSE,
          local |-> FALSE, required |-> FALSE]

Start ==
  [rec |-> <<>>, pos |-> 0, upto |-> 0, game |-> <<>>, undo |-> 0, run |-> NoRun,
   turn |-> 1, inited |-> TRUE, owner |-> Home, mode |-> [s \in Side |-> "human"],
   expect |-> None]

Init ==
  /\ st = [m \in Machine |-> Start]
  /\ inbox = [m \in Machine |-> <<>>]
  /\ seeds = 0
  /\ up = Machine
  /\ host \in Hosts
  /\ error = {}
  /\ cleared = {} /\ stray = {}

-----------------------------------------------------------------------------
(* The record and the network. *)

AtEnd(r)  == r.pos = Len(r.rec)
Idle(r)   == r.run.phase = "idle"
Asked(r)  == Head(r.run.left)

Message(what, body) == [what |-> what, body |-> body]

\* The server hands messages to the machines in to.
Post(to, messages) ==
  inbox' = [n \in Machine |-> IF n \in to \cap up THEN inbox[n] \o messages ELSE inbox[n]]

\* turn_info::send_data: nothing while there is something to undo.
Outgoing(r) == IF r.undo > 0 THEN <<>> ELSE Unsent(r.rec, r.upto)
Flushed(r)  == IF r.undo > 0 THEN r ELSE [r EXCEPT !.upto = Len(r.rec)]
Packet(r)   == [i \in DOMAIN Outgoing(r) |-> Message("entry", Received(Outgoing(r)[i]))]
SendsTo(m)  == Machine \ {m}

-----------------------------------------------------------------------------
(* A command and its questions. *)

\* Mutant of CanUndo: answers that were sent are forgotten.
CanUndoSent(m, r) ==
  /\ r.run.kind = "move"
  /\ ~r.run.seeded
  /\ ~(r.owner[r.turn] = m /\ r.mode[r.turn] = "ai")

\* synced_context::can_undo, and the AI keeps no undo stack.
CanUndo(m, r) ==
  /\ r.run.kind = "move"
  /\ ~r.run.simul /\ ~r.run.seeded
  /\ ~(r.owner[r.turn] = m /\ r.mode[r.turn] = "ai")

\* The command is over.
Ended(m, r) ==
  LET ends == r.run.kind = "end_turn"
  IN  [r EXCEPT !.undo   = IF CanUndo(m, r) THEN @ + 1 ELSE 0,
                !.turn   = IF ends THEN (@ % LastSide) + 1 ELSE @,
                !.inited = IF ends THEN FALSE ELSE @,
                !.run    = NoRun]

\* Mutant of Commits: get_user_choice leaves the undo stack as it is.
ChoiceKeepsUndo(r) == IF Asked(r) = Server THEN 0 ELSE r.undo

\* A question to the server or to another side commits what could be undone.
Commits(r) == IF Asked(r) = r.turn THEN r.undo ELSE 0

\* To the next question of the command, or to its end.
GoesOn(m, r) ==
  IF r.run.left = <<>> THEN Ended(m, r)
  ELSE [r EXCEPT !.undo = Commits(r),
                 !.run  = [r.run EXCEPT !.phase = "look", !.local = FALSE, !.required = FALSE]]

\* The command e starts, which is in the record at pos + 1.
Begins(m, r, e) ==
  GoesOn(m, [r EXCEPT !.pos    = @ + 1,
                      !.game   = Append(@, Event(e)),
                      !.undo   = IF \/ e.kind = "end_turn"
                                    \/ r.owner[r.turn] = m /\ r.mode[r.turn] = "ai"
                                 THEN 0 ELSE @,
                      !.inited = @ \/ e.kind = "init_side",
                      !.run    = [NoRun EXCEPT !.kind = e.kind, !.left = e.script]])

\* The question is answered by e; consumed says how many entries of the record that was.
Answered(m, r, e, consumed) ==
  GoesOn(m, [r EXCEPT !.pos  = @ + consumed,
                      !.game = Append(@, Event(e)),
                      !.run  = [r.run EXCEPT !.left   = Tail(r.run.left),
                                             !.seeded = r.run.seeded \/ e.kind = "seed"]])

-----------------------------------------------------------------------------
(* The player whose turn it is. *)

Recorded(m, r, kind, script) ==
  LET e == Entry(kind, m, r.turn, script)
  IN  Begins(m, [r EXCEPT !.rec = Append(@, e)], e)

Commands(r) == Cardinality({i \in DOMAIN r.game : r.game[i].kind \in Kinds})

\* The player or the AI at m gives a command.  The first one of a turn is init_side.
Perform(m, kind) ==
  LET r == st[m]
  IN  /\ m \in up /\ Idle(r) /\ AtEnd(r)
      /\ r.owner[r.turn] = m /\ r.mode[r.turn] # "idle"
      /\ kind = "init_side" <=> ~r.inited
      /\ Commands(r) < MaxCommands
      /\ \E script \in Scripts[kind] : st' = [st EXCEPT ![m] = Recorded(m, r, kind, script)]
      /\ UNCHANGED <<inbox, seeds, up, host, error, cleared, stray>>

\* The game without its last command and the answers that belong to it.
TakenBack(game) ==
  SubSeq(game, 1, Max({i \in DOMAIN game : game[i].kind \in Kinds}) - 1)

\* Mutant of Undo: the command stays in the record.
UndoUncut(m) ==
  LET r == st[m]
  IN  /\ m \in up /\ Idle(r) /\ AtEnd(r) /\ r.undo > 0
      /\ r.owner[r.turn] = m /\ r.mode[r.turn] = "human"
      /\ st' = [st EXCEPT ![m].game = TakenBack(@), ![m].undo = @ - 1]
      /\ UNCHANGED <<inbox, seeds, up, host, error, cleared, stray>>

\* undo_list::undo with replay::undo_cut.
Undo(m) ==
  LET r == st[m]
  IN  /\ m \in up /\ Idle(r) /\ AtEnd(r) /\ r.undo > 0
      /\ r.owner[r.turn] = m /\ r.mode[r.turn] = "human"
      /\ st' = [st EXCEPT ![m] = [r EXCEPT !.rec = UndoCut(@), !.pos = Len(UndoCut(r.rec)),
                                           !.game = TakenBack(@), !.undo = @ - 1]]
      /\ UNCHANGED <<inbox, seeds, up, host, error, cleared, stray>>

\* The whiteboard or a click on an enemy clears the undo stack, no command does: the
\* others keep theirs.
Commit(m) ==
  LET r == st[m]
  IN  /\ m \in up /\ Idle(r) /\ r.undo > 0
      /\ r.owner[r.turn] = m /\ r.mode[r.turn] = "human"
      /\ st' = [st EXCEPT ![m].undo = 0]
      /\ cleared' = cleared \cup {m}
      /\ UNCHANGED <<inbox, seeds, up, host, error, stray>>

-----------------------------------------------------------------------------
(* Waiting for an answer. *)

\* A question whose loop turns at m, and no change of hands keeps it busy.
Looping(m) ==
  /\ m \in up
  /\ st[m].run.phase \in {"look", "pull"}
  /\ st[m].expect = None

\* The side asked is played at m.
Local(m) == Asked(st[m]) # Server /\ st[m].owner[Asked(st[m])] = m

\* It is: ask the user, record and, if needed, send the answer.
Choose(m) ==
  LET r == st[m]
      q == Asked(r)
      e == Entry("choice", m, q, <<>>)
      s == [r EXCEPT !.rec = Append(@, e)]
      sends == r.run.simul \/ r.turn # q
  IN  /\ Looping(m) /\ AtEnd(r)
      /\ Local(m)
      /\ IF sends
         THEN /\ st' = [st EXCEPT ![m] = Answered(m, Flushed([s EXCEPT !.run.simul = TRUE]), e, 1)]
              /\ Post(SendsTo(m), Packet(s))
         ELSE /\ st' = [st EXCEPT ![m] = Answered(m, s, e, 1)]
              /\ UNCHANGED inbox
      /\ UNCHANGED <<seeds, up, host, error, cleared, stray>>

\* It is not: pull_remote_user_input sends what there is and begins to read.
Pull(m) ==
  LET r == st[m]
      q == Asked(r)
  IN  /\ Looping(m) /\ AtEnd(r)
      /\ r.run.phase = "look"
      /\ ~Local(m)
      /\ st' = [st EXCEPT ![m] = [Flushed(r) EXCEPT
                  !.run.simul = TRUE, !.run.phase = "pull",
                  !.run.local = (q = Server /\ r.owner[r.turn] = m)]]
      /\ Post(SendsTo(m), Packet(r))
      /\ UNCHANGED <<seeds, up, host, error, cleared, stray>>

Seed(n) == Message("entry", Received(Entry("seed", n, Server, <<>>)))

\* Mutants of Require: each machine asks, whoever has the side; a machine asks again.
RequireAnyway(m) ==
  LET r == st[m]
  IN  /\ Looping(m)
      /\ r.run.phase = "pull" /\ Asked(r) = Server /\ ~r.run.required
      /\ st' = [st EXCEPT ![m].run.required = TRUE]
      /\ seeds' = seeds + 1
      /\ Post(Machine, <<Seed(seeds')>>)
      /\ UNCHANGED <<up, host, error, cleared, stray>>

RequireAgain(m) ==
  LET r == st[m]
  IN  /\ Looping(m)
      /\ r.run.phase = "pull" /\ Asked(r) = Server /\ r.run.local
      /\ st' = [st EXCEPT ![m].run.required = TRUE]
      /\ seeds' = seeds + 1
      /\ Post(Machine, <<Seed(seeds')>>)
      /\ UNCHANGED <<up, host, error, cleared, stray>>

\* After the first pull a machine that had the side asks the server for a seed, once.
\* One that had not will not ask even if it has by now.
Require(m) ==
  LET r == st[m]
  IN  /\ Looping(m)
      /\ r.run.phase = "pull" /\ Asked(r) = Server /\ ~r.run.required
      /\ st' = [st EXCEPT ![m].run.required = TRUE]
      /\ IF r.run.local
         THEN /\ seeds' = seeds + 1
              /\ Post(Machine, <<Seed(seeds')>>)
         ELSE UNCHANGED <<seeds, inbox>>
      /\ UNCHANGED <<up, host, error, cleared, stray>>

\* The record has more: the answer, or what should not be there.  An answer for another
\* side is skipped; instead of anything else the user is asked, and nothing is recorded.
Fits(e, q)      == e.kind = IF q = Server THEN "seed" ELSE "choice"
OtherSide(e, q) == Fits(e, q) /\ e.side # q /\ q # Server

Taken(m, r, e) ==
  IF OtherSide(e, Asked(r)) THEN [r EXCEPT !.pos = @ + 1]
  ELSE IF Fits(e, Asked(r)) THEN Answered(m, r, e, 1)
  ELSE Answered(m, r, Entry("choice", m, Asked(r), <<>>), 0)

Take(m) ==
  LET r == st[m]
      e == r.rec[r.pos + 1]
  IN  /\ Looping(m) /\ ~AtEnd(r)
      /\ Asked(r) = Server /\ r.run.phase = "pull" => r.run.required
      /\ st' = [st EXCEPT ![m] = Taken(m, r, e)]
      /\ error' = IF Fits(e, Asked(r)) /\ ~OtherSide(e, Asked(r)) THEN error ELSE error \cup {m}
      /\ UNCHANGED <<inbox, seeds, up, host, cleared, stray>>

-----------------------------------------------------------------------------
(* Reading the network. *)

\* Any loop that handles network data sends what there is, between commands and in a wait.
Send(m) ==
  LET r == st[m]
  IN  /\ m \in up /\ r.run.phase \in {"idle", "pull"}
      /\ Outgoing(r) # <<>>
      /\ st' = [st EXCEPT ![m] = Flushed(r)]
      /\ Post(SendsTo(m), Packet(r))
      /\ UNCHANGED <<seeds, up, host, error, cleared, stray>>

\* There is a message and m is ready for it.
Ready(m) ==
  /\ m \in up
  /\ st[m].run.phase \in {"idle", "pull"}
  /\ AtEnd(st[m])
  /\ inbox[m] # <<>>

Next1(m) == Head(inbox[m])
Rest(m)  == [inbox EXCEPT ![m] = Tail(@)]

\* turn_info::handle_turn puts the entry into the record and plays it, but in a wait an
\* entry stays for the question's loop.  An answer that no command waits for is skipped.
Played(m, r, e) ==
  IF ~Idle(r) THEN r
  ELSE IF Dependent(e) THEN [r EXCEPT !.pos = @ + 1]
  ELSE Begins(m, r, e)

ReceiveEntry(m) ==
  LET e == Next1(m).body
      r == [st[m] EXCEPT !.rec = Append(@, e)]
  IN  /\ Ready(m)
      /\ Next1(m).what = "entry"
      /\ st' = [st EXCEPT ![m] = Played(m, r, e)]
      /\ error' = IF Dependent(e) = Idle(st[m]) THEN error \cup {m} ELSE error
      /\ inbox' = Rest(m)
      /\ UNCHANGED <<seeds, up, host, cleared, stray>>

\* maybe_do_init_side, for the machine that has the side by now.
MaybeInit(m, r, s) ==
  IF ~r.inited /\ r.owner[r.turn] = m
  THEN \E script \in Scripts["init_side"] : s = Recorded(m, r, "init_side", script)
  ELSE s = r

\* change_controller: the side is that player's from now on.  It ends the wait of a
\* machine that gave away the side whose turn it is.
ReceiveControl(m) ==
  LET cmd == Next1(m).body
      r == [st[m] EXCEPT !.owner[cmd.side] = cmd.owner, !.mode[cmd.side] = "human",
                         !.expect = IF cmd.side = st[m].turn THEN None ELSE @]
  IN  /\ Ready(m)
      /\ Next1(m).what = "control"
      /\ \E s \in {r} \cup {Recorded(m, r, "init_side", q) : q \in Scripts["init_side"]} :
            MaybeInit(m, r, s) /\ st' = [st EXCEPT ![m] = s]
      /\ inbox' = Rest(m)
      /\ UNCHANGED <<seeds, up, host, error, cleared, stray>>

Control(side, owner) == Message("control", [side |-> side, owner |-> owner])

\* m has read its message and sends change_controller, which reaches it too if back.
Assign(m, back, side, owner) ==
  inbox' = [n \in Machine |->
    LET rest == IF n = m THEN Tail(inbox[n]) ELSE inbox[n]
    IN  IF n \in up /\ (n = m => back) THEN Append(rest, Control(side, owner)) ELSE rest]

\* side_drop: the host plays the side itself, or lets the AI ...
KeepSide(m, mode) ==
  LET side == Next1(m).body.side
      r == [st[m] EXCEPT !.owner[side] = m, !.mode[side] = mode]
  IN  /\ Ready(m)
      /\ Next1(m).what = "side_drop"
      /\ \E s \in {r} \cup {Recorded(m, r, "init_side", q) : q \in Scripts["init_side"]} :
            MaybeInit(m, r, s) /\ st' = [st EXCEPT ![m] = s]
      /\ Assign(m, FALSE, side, m)
      /\ UNCHANGED <<seeds, up, host, error, cleared, stray>>

\* ... or leaves it idle, of which the others hear nothing ...
IdleSide(m) ==
  LET side == Next1(m).body.side
  IN  /\ Ready(m)
      /\ Next1(m).what = "side_drop"
      /\ st' = [st EXCEPT ![m].owner[side] = m, ![m].mode[side] = "idle"]
      /\ inbox' = Rest(m)
      /\ UNCHANGED <<seeds, up, host, error, cleared, stray>>

\* The gift of a side is awaited by a wait for that side, and between commands in the
\* turn of that side.
Waiting(r)       == r.run.phase = "pull"
Awaited(r, side) == IF Waiting(r) THEN Asked(r) = side ELSE side = r.turn

\* ... or gives it to n; until the server says so to all it is idle at the host, which
\* goes on waiting if it waited.
GiveSide(m, n) ==
  LET side == Next1(m).body.side
  IN  /\ Ready(m)
      /\ Next1(m).what = "side_drop"
      /\ n \in up \ {m}
      /\ st' = [st EXCEPT ![m].owner[side] = m, ![m].mode[side] = "idle",
                          ![m].expect = IF Waiting(st[m]) THEN side ELSE @]
      /\ Assign(m, TRUE, side, n)
      /\ stray' = IF Awaited(st[m], side) THEN stray ELSE stray \cup {"gift"}
      /\ UNCHANGED <<seeds, up, host, error, cleared>>

\* The answer of the server came, or stays unread behind an entry that the wait does not
\* take.
Came(m, r) == r.owner[r.expect] # m \/ ~AtEnd(r)

\* The wait for the change of hands ends after 20 seconds, whatever the server did.
TimeOut(m) ==
  LET r == st[m]
  IN  /\ m \in up
      /\ r.expect # None
      /\ st' = [st EXCEPT ![m].expect = None]
      /\ stray' = IF Came(m, r) THEN stray ELSE stray \cup {"late"}
      /\ UNCHANGED <<inbox, seeds, up, host, error, cleared>>

\* A machine leaves, and the server tells the host of its sides.
Leave(m) ==
  LET dropped == SetToSeq({s \in Side : Home[s] = m})
  IN  /\ up = Machine
      /\ m \in MayLeave \ {host}
      /\ up' = up \ {m}
      /\ Post({host}, [i \in DOMAIN dropped |-> Message("side_drop", [side |-> dropped[i]])])
      /\ stray' = IF m \in cleared THEN stray \cup {"left"} ELSE stray
      /\ UNCHANGED <<st, seeds, host, error, cleared>>

-----------------------------------------------------------------------------

Reads(m) ==
  \/ ReceiveEntry(m)
  \/ ReceiveControl(m)
  \/ \E mode \in {"human", "ai"} : KeepSide(m, mode)
  \/ IdleSide(m)
  \/ \E n \in Machine : GiveSide(m, n)

\* What the loops of a machine do by themselves, the answers of its user included.
Works(m) ==
  \/ Choose(m) \/ Pull(m) \/ Require(m) \/ Take(m)
  \/ Send(m) \/ Reads(m) \/ TimeOut(m)

\* What nobody has to do.
Plays(m) == (\E kind \in Kinds : Perform(m, kind)) \/ Undo(m) \/ Commit(m) \/ Leave(m)

Next == \E m \in Machine : Works(m) \/ Plays(m)

\* A machine in the game runs, and a user who is asked answers.
Fairness == \A m \in Machine : WF_vars(Works(m))

Spec == Init /\ [][Next]_vars /\ Fairness

-----------------------------------------------------------------------------

OnCourse == stray = {}

\* What the variables are.  Before anything strays the server is asked for one seed by
\* each command that needs one, by the machine that gives the command, and no machine can
\* undo more than the commands there were.
TypeOK ==
  /\ host \in Hosts /\ up \subseteq Machine /\ error \subseteq Machine
  /\ cleared \subseteq Machine /\ stray \subseteq Strays
  /\ OnCourse => seeds \in 0..MaxCommands /\ \A m \in Machine : st[m].undo <= MaxCommands
  /\ \A m \in Machine : LET r == st[m] IN
       /\ r.pos \in 0..Len(r.rec) /\ r.upto \in 0..Len(r.rec)
       /\ r.undo \in Nat /\ r.turn \in Side /\ r.inited \in BOOLEAN
       /\ r.owner \in [Side -> Machine]
       /\ r.run.phase \in {"idle", "look", "pull"}
       /\ Idle(r) <=> r.run.left = <<>>

PlayedOf(r) == [i \in 1..r.pos |-> Event(r.rec[i])]
Matches     == \A m \in up : st[m].game = PlayedOf(st[m])

\* The game of a machine is what its record says: a replay of the record gives the same
\* game, whatever was undone, answered here or elsewhere, or taken over from another
\* (undo_cut finds the command that the undo stack has on top; do_replay plays each
\* entry once), as long as nothing strays.
RecordIsGame == OnCourse => Matches

\* The same, though the host gave a side away while it did not wait for it: no question is
\* decided twice, as playmp_controller.cpp:592 means to ensure.
GiftKeepsRecord == stray = {"gift"} => Matches

\* No machine reports that the game is out of sync (replay::process_error) before anything
\* strays: each answer meets its question, and no question meets anything but an answer
\* (do_replay_handle, get_user_choice_internal, ask_server).
NoError == OnCourse => error = {}

\* A seed is known by its number.
Events == [kind : Kinds \cup {"choice"}, by : Machine, side : Side]
            \cup [kind : {"seed"}, by : Nat, side : {Server}]
Shared == INSTANCE SharedGame WITH games <- [m \in Machine |-> st[m].game]

\* The machines play one game until something strays: who is ahead is ahead of all, the
\* others follow, and undo takes back what no other machine has played.
ImplementsSharedGame ==
  Shared!Init /\ [][OnCourse' => Shared!Next \/ UNCHANGED Shared!vars]_vars

\* A machine that took the side over after it had begun to wait for the seed, as a machine
\* without the side: did_require is set, and it never asks (synced_context.cpp:297).
Forgotten(m) ==
  LET r == st[m]
  IN  /\ m \in up /\ r.run.phase = "pull" /\ Asked(r) = Server
      /\ r.run.required /\ ~r.run.local /\ r.owner[r.turn] = m

Waits(m) == m \in up /\ Waiting(st[m])

\* A wait for an answer ends, though the one who should give it may leave: another takes
\* the side over and answers.  Where nobody asks the server any more, or something strays,
\* it may not.
WaitsEnd ==
  \A m \in Machine :
    Waits(m) ~> ~Waits(m) \/ ~OnCourse \/ \E n \in Machine : Forgotten(n)
=============================================================================
