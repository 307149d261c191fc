# TLA+ models of Battle for Wesnoth (Android port of the 1.12.6 client)

This directory holds TLA+ models of the parts of the game where the order of things
matters: containers whose iterators outlive their elements, threads that share queues,
an operation that goes on after its caller gave up, a record of commands that must
reproduce the game on every machine although its author may undo, machines that ask
each other in the middle of a command, and plans that the game overtakes. TLC checks each
model on small instances; for all seven (UnitMap, NetworkWorker, AsyncConnect, EventPump,
UndoList, RemoteTurn and SideActions) TLAPS proves the main safety properties for instances of
any size.

Some things go wrong in this code and are in the models, because the code does them. Four of them
are runs that end in a violation. The others are remembered by history variables (`early`, `woken`,
`stale`, `stray`, `dropped`) or named by an operator (`GivesUp`, `Forgotten`), and the properties say what holds
otherwise; sections 2 and 5 name each.

`src/jni/src` (C++, about 300 000 lines) is the game; `src/src/it/ap/wesnoth` (Java) is
the Android shell around it. Paths below are relative to `src/jni/src`. The build leaves
assertions on (`Application.mk:4`), so a failed assertion ends the program.

## 1. The system

| part | state it keeps | operations | talks to | what is hard |
|---|---|---|---|---|
| **unit map** (`unit_map.*`, `unit_id.cpp`) | two indices over nodes that count their iterators | insert, add, replace, move, extract, erase, clear, iterate | everything that touches a unit | iterators kept across events in which units die and come back |
| **network worker pool** (`network_worker.cpp`) | queues, socket states, threads, one mutex, one condition | queue, receive, close, detect errors; threads that transfer | `network.cpp`, called by the main thread | interleavings, lost notifications, failures half way, shutdown |
| **asynchronous operations** (`thread.*`, `connect_operation` in `network.cpp`) | a list of operations, a flag for each side | execute, run, abort | `network.cpp`'s containers | a caller that gives up while the thread finishes |
| **recorder and undo list** (`replay.*`, `actions/undo.*`, `playturn.cpp`) | a list of commands with flags, two stacks, how much was sent | record, cut, undo, redo, send | synced commands, network, whiteboard | commands that can be undone interleaved with some that cannot |
| **synced commands** (`synced_context.*`, `synced_checkup.*`, `random_new*`, `replay_helper.*`) | whether a command runs, seeds, answers | run a command, ask a user or the server, check results | recorder, network | a question is answered on one machine and needed on all |
| **turn control** (`play*_controller.*`, `playturn.*`) | whose turn it is, how it ends | human, network and AI turns; side drop; linger | all of the above | messages that arrive at the wrong moment |
| **game events** (`game_events/`) | a queue of raised events, the handlers | raise, pump, fire, add and remove handlers | scripts and every action | events that fire events and change the handlers |
| **whiteboard** (`whiteboard/`) | planned actions of each side, by turn | plan, move, remove, execute, send | unit map, undo list, network | plans that the real game overtakes |
| **actions** (`actions/`) | a move, an attack, a recruit under way | move, attack, create, heal, clear shroud | unit map, events, undo list | ambushes, sightings and events in the middle |
| **saves, persistent variables** (`savegame.*`, `persist_*`) | files, open transactions | save, load, begin, end, cancel | recorder, undo list | what is saved in the middle of something |
| **set-up of network games** (`multiplayer_*`, `mp_depcheck.*`) | sides and who controls them, options | join, leave, change, check | network | several users and defaults |
| **computer players** (`ai/`) | candidate actions and their scores | evaluate, execute | actions | a move changes what the others are worth |
| **interface** (`gui/`, `widgets/`, `display.*`, `events.*`) | windows, focus, capture | draw, dispatch | all | callbacks that close their window |
| **WML and Lua** (`serialization/`, `config.*`, `formula*`, `scripting/`) | parsed data | parse, evaluate | all | a language, not a protocol |
| **Android shell** (Java) | surface, downloads, settings | start, download, patch | the game through SDL | the life cycle of an activity |

`PROJECT.json` lists all parts, with those that are not modelled and the reason, and the
hazards, each at its line.

## 2. The modules

### UnitMap, UnitBoard: the board of units

`UnitMap` is `unit_map.cpp`. `umap` maps an underlying id to a node `[unit, ref_count]`,
`lmap` a hex to an id; `iter` holds the iterator variables of the code that uses the map.
`Assign` and `Return` are what happens to the counts when an iterator is assigned or
returned (copy, destroy the old, destroy the temporary). A unit that is removed while an
iterator points at it leaves a ghost, and the last iterator that leaves the ghost erases
it (`Dec`). Each public operation of the class is an action; loading a unit with an id that
is in use renumbers it (`StoredUnder`).

The callers never put a unit whose id has a ghost on a hex that is taken; the guard
`GhostOntoVacant` states that.

Left out are what needs a second map (swap, assignment), and `clear(true)`, which only the destructor
calls.

`UnitBoard` is what `unit_map.hpp` promises: at most one unit on a hex and under an id,
handles that follow an id for ever, and for each operation the handle that it returns. There are no
nodes and no counts in it. In one respect the promise is not the header's: `unit_map.hpp:316-317`, `:326-327` and `:339-340` say
that an operation which is refused returns the unit that occupies the hex, but
`unit_map.cpp:138` and `:200` return `end()`, and a refused `move` (`:107`) the unit that did not
move. `Refuse` and `Look` have what the code does. `ImplementsBoard` is the refinement.

### NetworkWorker: the threads behind the network

One action for each step between two uses of shared state: `Enter` to `Spawn` are a thread
that looks for work with the mutex, `CheckLocked` to `CheckSocketResult` a thread at work
without it; the calls are the main thread's, through `network.cpp`; `Start`, `Disconnect`,
`Unmanage`, `ResetErrors`, `NotifyAll` and `Join` are the life of the pool. A thread that
wakes for no reason is allowed, and so is a connection that fails at any piece of a
transfer. A message is its number; `wire` is a history of what left the machine. `Kept` is a
removal from a queue in terms of positions, the form in which it can be proved about. Left
out: the contents of messages, `sendfile`, pings, statistics. The model has one shard, as
the code has (`NUM_SHARDS` is 1).

### AsyncConnect: an operation its caller may abandon

`async_operation::execute` with `connect_operation::run`, which is the one that touches
shared containers. `active` is the list that keeps operations alive; the program's smart
pointers are counted by `copied`, since the list's pointer goes only if no thread has one
(`Unique`). A wait may end with a notification, a timeout, or for no reason, which POSIX allows
and `thread.cpp:166` takes for a notification; and the caller may give up before the new thread has run
at all. Both happen in all runs. `woken` has the operations whose wait ended for no reason, `early` those whose
caller left before the thread had read its pointer; `OutcomeKept` and `NetworkNotShared` speak of operations
outside `woken`, `ReachedOutlivesThread` of those outside `early`, so that what goes wrong with one operation
is shown to stay with it. A thread that finds its operation destroyed ends the program
(`dead`): what it would do after that is undefined.

### Replay, UndoList: a turn that can be undone

`Replay` has operators on lists of commands: which commands can be undone (`Undoable`), belong
to the one before (`Dependent`) or may come out of turn (`Async`: renames), what
`undo_cut` removes and repairs (`UndoCut`), and what is sent (`Unsent`, `Final`, `Marked`). All that
leaves commands out is a `Kept` of positions.

`UndoList` is a turn of the player at this machine. `Perform` is `run_in_synced_context`:
the command, the answers its events asked for, and the undo stack, which gets an action
or is emptied. `Undo`, `Redo` and the shroud actions, which undo themselves, undo what is
below and put themselves back, are the code's. `Send` is `turn_info::send_data`. The
game is reduced to where units are, their names, the messages written and whether
the shroud is updated at once. `peer` is the game on the other machines.

When a recall is undone, `undo_cut` removes the renames of the recalled unit from the
record, but the unit goes back to the recall list with its new name. The others never
hear of the name: the machines differ, though only in a name and only until the unit is
renamed again. Nothing in the repository says which name is right (RecallKeepsName).
`RecordReproduces` and `PeerCatchesUp` compare the names of all units but those
(`lapsed`); without this exception TLC finds both violated.

`undo_cut` takes numbers of commands and removes others before it uses them
(`replay.cpp:566`). `UndoCut` does the same; `NumbersHold` says when the numbers still name what they did, and `stale` that
an undo went on with others. That needs a recruit or recall whose event asks a question and can still be
undone, which `create.cpp` allows. `RecordReproduces`, `PeerCatchesUp` and `SentKept` say what holds as long as
`stale` is false; TLC finds each of them violated without that condition. `StackIsRecord` and `UndoPossible` are
checked without it.

### RemoteTurn, SharedGame: a network game on all its machines

`RemoteTurn` uses the operators of `Replay` for the record of each machine (`rec`, played up
to `pos`, sent up to `upto`) and adds what a command may ask. `Perform` is
`run_in_synced_context` of the player or the AI; a command is under way in `run`, with
the questions its events have yet to ask. `Choose`, `Pull`, `Require` and `Take` are the loop of
`get_user_choice_internal` and `ask_server`: the machine that has the side asks its user and sends
the answer, the others send what they have and read the network; the machine whose turn
it is asks the server for a seed, once. `ReceiveEntry` is `turn_info::handle_turn` with
`do_replay`: between commands an entry is played at once, in a wait it stays for the question.
`KeepSide`, `IdleSide`, `GiveSide` and `ReceiveControl` are what happens to the sides of a
player who left, `expect` is the wait for the change of controller, which ends after 20 seconds
whatever came (`TimeOut`). `Commit` clears the undo stack without a command, as an attack of the mouse
(`mouse_events.cpp:1101`) and the whiteboard (`side_actions.cpp:346`) do. The server (`inbox`, `Post`, `Leave`) has no source in this repository: it keeps
one order of messages for all.

`SharedGame` is the promise: the machines play one game; one may lead that is behind nobody,
the others follow, and undo takes back what no other has played. `ImplementsSharedGame` is the
refinement, of what each machine has played.

Three things end the one game, and the model has them; `stray` remembers which happened.

- `left`: one who had cleared its undo stack without a command leaves. The others still have the stack, and
  who takes the side over can undo what all have played (`replay.cpp:900`).
- `gift`: the host gives a side away while it does not wait for it (`Awaited`), and answers for it as the
  new owner does (`playmp_controller.cpp:199`).
- `late`: the 20 seconds are over before the change of controller came (`Came`), with the same effect.

The properties say what holds until then (`OnCourse`). Of histories in which only one of the three happens, TLC finds: after
each of them `RecordIsGame` and the one game fail if they are asked for; `NoError` fails after `gift` and after `late`, and holds after
`left`. `GiftKeepsRecord` asks for the record after a gift, which the comment at `playmp_controller.cpp:592` means
to ensure, and is the violation of `remote_turn_gift`.

Left out: chat, labels and renames; redo; questions before the first turn; questions to
several sides or to sides nobody plays; the data of the whiteboard; a change of host; the
linger mode and the timer. At most one machine leaves.

### SideActions, TurnPlans: the plans of a side

`SideActions` is the container of `whiteboard/side_actions.cpp` as it is: a list in the order of
execution and a deque of iterators to the first action of each turn. An iterator is a
position; `Insert` and `Erase` move those behind it, as the nodes of the list do. `Queue`,
`PushFront`, `SafeInsert`, `Erase`, `Swapped` and `TurnShift` are the container's operations, line by line;
`RawTurnShift` is the end of a turn with plans left. `mine` belongs to the machine of the side,
`ally` is the copy that another machine keeps from the commands it gets (`Ran`), each
made from positions at the sender. An assertion, an iterator that is left on an erased node
or a null pointer stops the machine (`fault`).

`TurnPlans` is the promise of `side_actions.hpp`: for each turn a list of actions, no empty turn
but the first, and one copy of each plan after a shift. No operation of it fails. The code does not keep this promise
everywhere, and `SideActions` says where: `GivesUp` has the steps on which the machine stops (an erase that
loses a turn, `LosesTurn`; a shift over a turn of lazy plans, `LosesShift`; a bump of a dead unit's move past a recruit;
`ExecuteTooEarly`, the assertion of `side_actions.cpp:320` on a plan of a later turn that `contextual_execute` passes), and `KeepsPlans` allows a shift
that keeps the plans of the dead twice (`Shifted(2)`). `ImplementsTurnPlans` is the refinement with these exceptions: every
other step is one of `TurnPlans`, and each step of `GivesUp` is one that really stops.

The ally looks at its own map before it lets a move pass a recruit, and refuses without a word
(`side_actions.cpp:496`, `MayRefuse`); it drops commands for units that it does not know or has lost, with a line in its
log (`:703`). In both cases its positions differ from the owner's until a clear or a refresh (`dropped`), and
`AllyFollows` asks nothing in between.

Left out: routes, hexes, gold, drawing, and with them whether a move may pass another
action (a choice); the map that is built from the plans. Attacks are moves, recalls are recruits. `suppose_dead`, an AI
that takes over a side and clears its plans, and an ally that shows the plans, and removes
those it finds invalid, are not modelled. Commands come back from the server to nobody: the ally queues a bump that it ran once
more (`side_actions.cpp:513`), for the allies of its own; if the server handed that to the owner, which this
repository cannot tell, the owner would bump once more.

### EventPump: events that fire events

`stack` holds the pumps under way, each with its queue, the variables it will put back and
its iteration (`main`, `var`, `end`). `Raise`, `AddHandler`, `RemoveHandler`,
`SetVariable` and `Pump` are what the game does between pumps, and what the commands of a handler
or Lua do inside one. `NextEvent`, `Iterate`, `FilterOut`, `Run`, `EndRun`, `Finish` are
the loop of `pump`; `Offer` and `Advance` are the two operators of `manager::iteration`, with
all that happens to the lists below. `ref_count` has the nodes of all lists: 1 for the
list, 2 for each iterator, so that an erased node has an even count. A handler lives while it is
in `active_` or a pump holds a pointer to it. `Throw` is a jailbreak exception, such as the
end of a level, which Lua hands on through every pump.

Left out: what filters look at (a filter matches or not), menu items, handlers with a list of
names, the contexts that say whether the game changed. The commands of a handler do not write
`x1` to `y2` themselves.

## 3. The runs

| run | instance | what it shows |
|---|---|---|
| `unit_map` | 3 units, 2 hexes, 2 iterators, ids 1..3 | counts are right and iterators valid, ghosts are not leaked, the indices agree, units have one owner; the map implements the board |
| `network_worker` | 3 threads, 2 sockets, 2 messages | the bookkeeping of sockets, queues, threads and errors, the integrity of a stream, and that the destructor owns the thread map |
| `network_worker_game` | 1 thread as in the game, 2 sockets, 2 messages | no work is stranded, messages are sent or their socket fails, shutdown ends |
| `network_worker_close` (violation) | 1 thread, 1 socket | a close that was put off is forgotten |
| `async_connect` | 3 operations | what a caller was told stays true and containers are touched by one side at a time, but for operations whose wait ended for no reason; an operation whose thread read its pointer in time outlives the thread; every call returns |
| `async_connect_slow` (violation) | 2 operations | an operation is destroyed under its thread |
| `undo_list` | 1 recruit, 1 veteran, 2 hexes, 5 commands, 2 messages | until numbers were stale, the record replays to the game, the others can catch up, undo meets its command, what was sent stays in its order; undo and the stack agree with the record throughout |
| `undo_list_restart` (violation) | 1 recruit, 2 hexes | a player who loses the side undoes for ever |
| `event_pump` | 3 events, 3 handlers, 5 together; 2 names, 6 kinds of handlers; 2 pumps deep | iterators of nested pumps stay valid, events meet their handlers in order and once, one-time handlers run once, variables and events survive nesting, refusal and exceptions |
| `remote_turn` | 3 machines, 2 sides, 2 commands with up to two questions each, one player who may leave | until something strays, the machines play one game, which each record says; answers meet their questions; waits end |
| `remote_turn_gift` (violation) | the same, all steps | host and new owner both answer for the side |
| `side_actions` | 1 unit that may die and recruits, 3 actions, 3 turns, 2 commands on the way | the plans are what the turns say, and the machine stops on the steps of `GivesUp` only; an ally that ran all commands since the last clear or refresh has the same plans |

Why the bounds are enough to meet the hazards. *Unit map:* with two iterators one can make a
ghost while the other keeps it; three units are needed for a ghost, a unit that
returns under its id and another one in its place; three ids let a renumbering run into
an id that is used. *Network:* one thread works, one waits, one leaves (the pool's smallest
limits reach all three), two sockets let one block the other, and two messages let one
fail while another is queued. *Operations:* the third operation is made while the first
and second are abandoned. *Undo:* a command takes a step to record, one to undo, one to
redo; five commands, answers included, allow a recruit that asks, a rename, a move and another command in every
order; on two hexes a unit moves on and another takes its place. *Events:* one event is
handled, one waits in its pump and one is raised by a handler; of three handlers one runs, one is
removed by it and one comes after, or is added. Two pumps show nesting and, the limit being two,
the refusal. The six kinds of handlers have each pair of a name or variable, once or always, removable
or not. *Network games:* the third machine plays no side, so it follows, may be the host and may
be given a side; a move asks its own side or another first, an attack another side and then the
server, so that a wait follows an answer, and each of the machines with a side may leave in it. The second command
shows what comes after a question. Every machine may clear its undo stack without a command, and the wait
for a change of controller may end at any moment. The run stops where something strays (`MCNext`): its properties but for
the types ask nothing of what comes after, and the types hold there too, in a run of all 329 358 states that takes twice as long.
*Plans:* a move of two turns with a third planned, and a turn with nothing planned before
one with plans, need three actions; the actions of a unit and of recruits, which have none yet,
differ in all operations. An ally that has dropped a command is followed as long as a clear or
a refresh is on its way to it, one that has stopped is not (`Follows`): `AllyFollows` asks nothing of the states behind these. A simulation with two units, six actions and four turns found nothing else.
Symmetry is used for model values that no action tells apart, and only in runs without
liveness. Deadlock is not checked where the user may simply stop, or where all operations
were made; it is checked for the network.

Fairness. *Network:* threads are scheduled, and the mutex is free again and again (strong
fairness for each thread's steps: no thread holds it while it transfers); a transfer ends
because `poll` has a timeout; a destructor that was entered goes on. The main thread need
not call anything. *Operations:* weak fairness for the caller inside its call (a timeout ends its wait), strong for
the thread, whose mutex is free at each wait of the caller. *Undo:* weak fairness for the
loop of `play_human_turn` that leaves the turn, since that is a loop. *Network games:* weak fairness
for what each machine in the game does by itself; a user who is asked answers. Nobody has to
give commands, and one who is asked may leave instead.

Each property of a passing run has a mutant, a plausible bug (a dropped guard, a missing
reset) that makes TLC find that property violated.

## 4. What is proved

TLAPS proves these for every value of the constants.

`UnitMap_proofs`, for any units, hexes and ids and any finite set of iterators:
`Spec` implies always `TypeOK`, `IteratorsPersist`, `NoIdleGhost`, `IndicesAgree`,
`UnitsOwned`. The inductive invariant is `IInv == TypeOK /\ Counted /\ Indexed`. `Counted`:
nodes exist for the positions of iterators, counts equal the number of iterators, and ghosts
have one. `Indexed`: hex, id, node and owner of each unit agree. Neither part follows from the
properties one by one: that a vacated node may be erased needs the count, and the count's
step needs that the new position has a node. The lemmas go with the operators:
`AssignCounts` and `ReturnCounts` (an assignment keeps counts), `HoldingCounts`, `VacatedCounts`
(nodes that get or lose a unit), `IndexedLink`, `IndexedVacate` (the indices of a unit that
comes or goes); each action has a lemma that combines them. The assumptions are those of the
module: `NULL` is no unit and no hex, `MaxId` is a positive number, iterators are finitely many.
From `IInv` it follows that `UnitMap` implements `UnitBoard` (`Spec => ImplementsBoard`).
`SameShows`, `LinkShows` and `VacateShows` say what the two indices show when nodes change and
units do not, when a unit comes and when one leaves; `Turned` is the step of the iterators, for which
`NodesFollowed` is needed: `operator--` may stop at a ghost, which some iterator follows. Each
operation is then one step of the board or leaves it as it was.

`NetworkWorker_proofs`, for any finite sets of threads and sockets and any limits: `Spec` implies
always `TypeOK`, `HeldByOne`, `BuffersKnown`, `PoolBounded`, and `JoinOwnsThreads`. The inductive
invariant `IInv` adds three parts. `Mutexed`: the mutex belongs to the one thread that is
where a thread has it. `Employed`: a thread has a socket exactly while it has a job, and a message
while it sends and none while it receives. `Living`: the threads that exist are those of the map, sockets are all closed once
the destructor has begun, nobody joins a thread after it has had the mutex, and a thread that
is about to create another one still may. That two threads never share a socket
needs the first two; that the destructor owns the map needs all three, since a thread that
would change it has a job (it creates) or found the pool in use (it joins). Each part has a lemma
that every action keeps it. `KeptIsPart`, `OthersAreOther`, `RemovedIsPart` and `FirstIsLeast` are the
lemmas about queues: what removing elements leaves, and that the first job is found.
The second half of the module adds what is true of the data, from `IInv`. `ReceivedOnce`: a socket waits, is asked for,
is received from or has a message, and each step moves it from one to the next: `CountAppended`,
`CountRemoved` and `CountOthers` say how often an element is in a queue after a step
(`RemovedPointwise` gives the injection for the removed one), `NothingMore` settles the steps that move nothing.
That the closing of a socket that nobody holds leaves no receiver needs `HeldByOne`.
`StreamIntact`: next to it are inductive that the queue is in the order of the numbers and holds
nothing for a socket in error (`Lined`), that a message under way has begun where the last one ended (`Begun`),
and that the queue continues the stream of each socket from there on (`Continued`); that the thread with the lowest place in the
queue takes the next message of a socket is `KeptInOrder`, and `Undisturbed` is every step that leaves a socket alone.
`NoStranded` is proved where the pool keeps its threads (`MinThreads > 0` and
`MaxThreads` in `1..MinThreads`): a thread that could take a job and sleeps has been
told, since who ends its job is awake and looks itself (`HolderIsAwake`), who adds one
tells (`AnnounceWakes`), and what is taken makes no work (`RemovingMakesNoWork`). With the default limits (1, 0) a
thread may leave while another sleeps, and what is told may reach the one that leaves; that stays with TLC.
The assumptions are those of the module: `MinThreads` is at most the number of threads there are.

`AsyncConnect_proofs`, for any operations: `Spec` implies always `TypeOK`, `OutcomeKept`,
`NetworkNotShared` and `ReachedOutlivesThread`. The inductive invariant `IInv` adds to the properties who holds
a mutex (`Locked`), that the caller stays until the end or the abort (`Attended`), which
flags are set when (`Progress`), what is told against what is connected (`Outcome`),
and that the list holds only operations that were started (`Listed`). It holds that a thread in its critical section
has either a waiting caller or an abort it will see: the flag `aborted_` is read under the
mutex, and set under it; a caller that was woken for no reason is the exception, which stays with its operation.

`EventPump_proofs`, for any names, handlers and depth of nesting: `Spec` implies always all its
invariants. They stand on four inductive ones, each proved from those before it.
`IInv` (for `RunsAsAllowed` and `TypeOK`) says of the stack of pumps that each one has a handler
while it offers or runs it, lets go of one that runs once, and that only the innermost pump offers one (`Nested`), that an exception
has a pump to go through (`Thrown`), that what is offered is active or held further out (`Alive`), and that a
`first_time_only` handler that has run is neither active nor held by a pump (`Ran`). Of the lists by name
it needs only that their nodes are handlers: the iterator looks a handler up in `active_`, so
the order and the clean-up of the lists cannot make a dead one run.
`Linked` (for `NodesCounted`) adds where iterators may be (`AtNodes`), that counts are the numbers of iterators (`Counts`),
that a node of a handler that is gone is there for an iterator (`Needed`), and that an active handler is in
its list (`Found`). `Kept` (for `EventsKept`) adds that the events wait in the order of
their numbers (`InLine`) and that each pump has saved what it will put back (`Saves`, `Restores`, `Knows`).
`AllMet` (for `MeetsHandlers`) says of each pump, not only the innermost, which handlers it has met
and which are ahead of its two iterators (`Met`, `Unmet`, `AtMet`, `Ahead`, `Rising`). The lemmas
go with the operators: `PushedKeeps` and `PoppedKeeps` (the stack), `MovedCounts`, `SeekCounts` and `CountsPushed` (the iterators),
`FirstLeaves` and `LastJoins` (the events), `FirstIsLeast` and `NextIsNext` (the two
lists). The assumptions are those of the module; one of them, `NamesAssumption`, says that a handler
whose names have variables is not filed under a name, as `add_event_handler` has it.

`UndoList_proofs`, for any units, any hexes and a record of any length: `Spec` implies always `TypeOK`,
`RecordReproduces`, `PeerCatchesUp`, `StackIsRecord` and `UndoPossible` as long as no undo has worked with stale
numbers (`~stale`), and each step is one that `SentKept` allows. None of these is inductive alone: that an undo leaves a record which
replays to the game needs the board before the undone command, and that no later one depends on it.
The inductive invariant is `Inv == Standing /\ CanRedo` with two types. `Standing` says that there are
positions `P` in the record, behind what was sent, for the actions on the stack (`Paired`), and boards
`A` between them (`Stepped`), such that
all other commands are calm: they move nobody (`Calm`, `Quiet`), and renames are about hexes that
the board has; and whoever runs the whole record, or the other machines what they have not run,
passes through these boards and comes to the game (`Follows`). `CanRedo` says the same of the redo stack:
boards along which its actions can be done again, each with its command as the first of its data.
The argument follows `undo_cut`. `UndoCut` leaves a part of the record with renames mended
(`Cuttable`, `Loses`): behind the cut the boards are one action back, and the names agree but
for those that lapse (`CutChain`). Shroud actions on top peel off one by one and come back
(`Peels`, `PeelsTo`); a command that is added is either the next action, or calm, or ends what can be undone
(`Settled`: nothing is on the stack, only the two runs are left). `SentKept` needs that what was sent of the record is
found in what follows, in order (`Retains`, `Finds`), step by step through the peeling.
Two things make it possible in this proof system. `Kept`, a part of a sequence, is a recursive function
in `Replay`, so that `Part` can say what it is (a sequence of positions that rises) and whoever needs more of it reads
positions; and runs are chains of games (`Chain`), one per position, which `FoldLeft` computes (`Recursion`, `Folds`). What
is shown for every length goes from position to position (`UpFrom`, on the least number that fails).
The assumptions are those of the module (the places of units that are on no hex are no hexes). No kind of command is left
out: events of recruits, recalls and moves may ask and stay undoable. A step that makes `stale` true is where the argument ends, since behind it
`undo_cut` has removed other commands than it meant to; what `TypeOK`, `StackIsRecord` and `UndoPossible` say
of the states after it is only checked by TLC.

`SideActions_proofs`, for any units, any number of plans, turns and commands: `Spec` implies always `TypeOK` and
`AllyFollows`, and the turns of the ally's copy follow one another too. `AllyFollows` speaks of the moment when nothing is
buffered or under way; the inductive invariant is what holds at every other moment: `IInv == Typed /\ Tracks`. `Typed` says that the
containers of the owner and the ally are in order or have stopped, that every packet holds commands, and that the dead the owner knows are
those the ally will know when it has received all. `Tracks` says that the ally, unless it did not run a command since it last cleared its copy, gets along the packets on
their way to some list (`Comes`), and from there by the commands in the buffer to the list of the owner (`Reaches`).
The argument has three layers. First each operation of the container on its own: `GetTurnIs` and `TurnOfAction` (the binary search of
`get_turn_impl`, shown against the last turn that begins in time), `QueueCases`, `InsertBehind`, `PushFrontGrows`, `EraseIs`, `BumpedIs` and `RawTurnShiftKeeps`: the turns
stay in order or the operation ends in one of its assertions. Then the commands: a command is `Safe` from one list to another
when an ally that has the first, and knows of the units that are dead, gets to the second or is lost: it drops or refuses the
command, or stops at a dead unit. A move, a recruit, an insertion, a removal, a bump and a replacement are safe; so is the refresh at the end of a turn,
which removes all and tells the plans again: `PrefixNext` says that the next `insert` command extends the plans told so far by one, with its turn, and
`RefreshRebuilds` that the last one makes the very container, empty turns included. Last the steps: whatever the owner does is a row of
safe commands at the end of the buffer (`OneStep`, `ToldTracks`), and `ComesAppend` and `ComesTail` move the rows along the wire.
`PlansFollow` is the refinement of `TurnPlans`, for every step but the shift of the turns: `PlanOf` reads the turns from the
list and its iterators, and a lemma for each operation says what it makes of them (`GrownPlan`, `OpenedPlan`, `CutPlan`,
`ShortenedPlan`, `ReplacedPlan`, `SwappedPlan`). `EraseFails` says when an erase stops the machine, for any container in order: exactly
where `LosesTurn` holds. It needs that no unit is an action (`ModelValues`). Every step of the owner but the end of a turn is a step of `TurnPlans`,
or one of `GivesUp` that stops it.
The loops of the code are folds and recursive functions in the model; a lemma for each (`...Follow`) turns it into a
path of values from the first to the last (`...Path`). The assumption is that of the module, `SideAssumption`: the constants are the finite sets and numbers they look like.

`RemoteTurnLog_proofs` and `RemoteTurn_proofs`, for any machines, sides, lists of questions and number of commands: until something strays,
`TypeOK`, `RecordIsGame`, `NoError` and the `OneGame` of `SharedGame` hold, which it implements (`ImplementsSharedGame`). None of these says what the machines that
have not read their messages yet are about to do, which is what the next step needs. The inductive invariant `IInv` says that there is one
log `L` of commands and answers, that the game goes through a stage `S[i]` after each entry (`After`: whose turn it is, the command under
way, the questions left, what could be undone), and that what each machine has in its record and what waits in
its inbox are, one behind the other, a beginning of this log. Three things are said of the log: an entry fits the stage before it
(`Fitting`, so an answer meets its question), counts and shapes of a stage agree with the log up to it (`Sound`), and `C` entries have been sent:
behind them is only what one machine did in its own turn (`Leads`, `Ahead`). Of each machine `Mach` says that its record, its command and
its undo stack are those of its place in the log (`Keeps`, `Stands`, `Stacked`), that what it has not sent is what the others lack (`Sent`),
and that it will not be asked for an answer which is already under way (`Pending`).
The hard part are the sides that change hands. `F` says who has each side once all messages about sides are read; there is at most one such
message in an inbox (`Inbox`), it is about a side that was dropped (`Dropped`), and until it is read only the host may believe that it has a
side that it gave away, idle and waiting for just this side (`Held`, `Views`).
Each action has a lemma that it keeps `IInv`, which names the new log: one entry longer for a command, an answer or a seed, shorter for an
undo (`TakenBack` is where the last command begins: `Begun`), else the same. The refinement then reads the games from the log: an action adds
to one game what the log has next (`Adds`), takes back what is behind `C` (`Backs`), lets a machine go (`Leaves`), or leaves the games alone (`Silent`).
`PlaysOneGame` says what that is worth: of two machines one has played a prefix of what the
other has. The first module holds the invariant and what is true of the log and of one machine at its place in it; the second
the actions and the theorems.
That nothing has strayed is needed at three places, and only there: in the step of `GiveSide`, of `TimeOut` and of `Leave`. Once something has strayed it stays
so (`Past`), hence each theorem has the form `[](OnCourse => ...)`.
The theorems assume, besides `RemoteAssumption`, `OneSideEach`: who may leave has one side. This is a limit of the
proof, whose invariant has one message about sides in an inbox. On an instance with a
player of both sides who leaves (not among the runs) TLC finds no violation.
Only `TypeOK`, which counts the seeds, needs `OneSeed` as well: a command asks for one seed at most, as the code keeps one generator for
each, and `init_side`, which `MaxCommands` does not bound when a side is taken over, for none.

Only checked by TLC: all liveness (`CallReturns`, `EventuallySent`, `ShutdownEnds`,
`WaitsEnd`), which the proof system does not reach; the shift of the turns in `ImplementsTurnPlans`, whose sequences are
filtered by `SelectSeq`, an operator the provers know nothing of;
`NoStranded` for limits where a thread may leave while another sleeps.
No module with proofs uses `RECURSIVE`.

## 5. What the models found

1. `network_worker.cpp:640` overwrites the request to close a busy socket, which
   `network.hpp:173` promises to honour (`network_worker_close`).
2. `thread.cpp:161` hands the thread the address of a parameter of `execute`
   (`async_connect_slow`).
3. `playmp_controller.cpp:216` undoes while something can be undone, but undoing a shroud
   action puts it back (`undo_list_restart`).
4. `playmp_controller.cpp:199` goes on with the host's own turn while a side it has given away
   still counts as its own, so that two machines answer for the side (`remote_turn_gift`).

Observations without a run; those that bite are among the hazards in `PROJECT.json`:

- `unit_map.cpp:189` looks at the count of a local variable, so the branch that undoes
  a reinsertion is dead. No caller runs into it.
- `replay.cpp:566` removes commands by numbers that were taken before others were removed (`stale`). It
  needs an event that asks a question and can be undone.
- `unit_map.hpp:316`, `:326` and `:339` promise the unit in the way, `unit_map.cpp:138` and `:200` return `end()`, and `:107` the
  unit that did not move.
- `synced_context.cpp:297` remembers that a machine without the side did not ask for a seed, also when it has
  taken the side over since: all wait for ever (`Forgotten`, which `WaitsEnd` exempts).
- `replay.cpp:900` replays the commands of others with the undo stack in use; who takes over a side
  can undo them (`left`).
- `playmp_controller.cpp:594` stops waiting for a change of controller after 20 seconds whether it came or not, and
  two machines answer for the side (`late`).
- `thread.cpp:166` takes a wait that ends without a reason for a notification: the caller goes on while the thread
  connects (`woken`).
- Undoing a recall leaves the unit its new name (RecallKeepsName, above).
- `side_actions.cpp:217` leaves the iterator of a later turn on the action that is erased when it is the turn's only one
  with a turn behind it; the shift of a turn (`:875`, `:228`) asserts that it does not happen; plans of the dead
  are copied twice (`:884`); a move past a recruit asks a unit that is dead (`:457`); a plan of a later turn that is executed
  meets an assertion (`:320`). `GivesUp` and `Shifted(2)` name these cases.
- `side_actions.cpp:703` drops a command for a unit that the ally does not know or has lost, and `:496` refuses a bump in silence,
  after which the positions of the two machines differ.

## 6. The plan

Done: UnitMap, NetworkWorker, AsyncConnect, EventPump, UndoList, RemoteTurn, SharedGame
and SideActions with proofs, and TurnPlans.

What is left, in this order:

1. A turn with save and load added to `UndoList` (`play_controller.cpp:797`), and redo with events that ask.
2. The transactions of persistent variables, which ask through `RemoteTurn`'s questions.
3. A move with ambush and sighting as the steps of one action, with the events in between.
4. Questions to several sides at once, and the change of host, in `RemoteTurn`.

Theorems to come: the shift of the turns in `ImplementsTurnPlans`; RemoteTurn with a
player of several sides who leaves, for which `IInv` must follow a row of messages about sides.
