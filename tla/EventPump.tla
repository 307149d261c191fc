----------------------------- MODULE EventPump -----------------------------
(* Game events (game_events/pump.cpp, handlers.cpp): events are raised and wait  *)
(* in a queue; a pump takes the queue and offers each event to its handlers,     *)
(* whose commands raise and pump other events, add handlers and remove them.     *)
(* The handlers of a name, and those whose names have variables, are in lists    *)
(* (utils/smart_list.hpp) that are iterated by all pumps that are under way.     *)
(*                                                                               *)
(* A handler is its place in active_; it has one name.  Events are numbered in   *)
(* the order in which they are raised.  Filters change nothing.  What handlers   *)
(* do to the game, and what a pump reports of it, is left out.                   *)
EXTENDS Integers, Sequences, FiniteSets, SequencesExt

CONSTANTS Names,        \* of events
          Ids,          \* of handlers that have one
          Configs,      \* the handlers that the scenario has and that commands add
          MaxLoop,      \* game_config::max_loop
          MaxEvents,    \* bound: events raised
          MaxHandlers,  \* bound: handlers added
          MaxBoth,      \* bound: events raised and handlers added
          None          \* no id

ASSUME BoundsAssumption ==
  MaxLoop \in Nat \ {0} /\ MaxEvents \in Nat /\ MaxHandlers \in Nat /\ MaxBoth \in Nat
ASSUME NoneAssumption == None \notin Ids

Variable == "$name"   \* a name with a variable in it
Handler  == [name : Names \cup {Variable}, id : Ids \cup {None}, once : BOOLEAN]

ASSUME ConfigsAssumption == Configs \subseteq Handler

\* Handlers whose names have variables are not filed by name (add_event_handler);
\* the names of events have none.
ASSUME NamesAssumption == Variable \notin Names

VARIABLES
  raised,        \* how many events were
  taken,         \* history: events that a pump has begun with
  events_queue,
  handlers,      \* every handler added: its name, its id, whether it runs once
  active,        \* handlers in active_
  id_map,        \* id -> handler, 0 if none
  ref_count,     \* node -> count, for the nodes of all lists
  stack,         \* the pumps under way, the outermost first
  x1,            \* the event whose place is in the variables x1 to y2, 0 before any
  value,         \* of the variable in the names that have one
  runs,          \* history: handler that runs once -> how often it ran, up to twice
  throwing       \* an exception goes through the pumps

vars == <<raised, taken, events_queue, handlers, active, id_map, ref_count, stack, x1, value,
          runs, throwing>>

Root    == 0   \* of every list

Event   == [number : 1..MaxEvents, name : Names]
NoEvent == [number |-> 0, name |-> None]
Frame   == [queue : Seq(Event), saved : 0..MaxEvents, ev : Event \cup {NoEvent},
            phase : {"next", "lua", "offer", "running"},
            main : 0..MaxHandlers, var : 0..MaxHandlers, end : 0..MaxHandlers,
            cur : 0..MaxHandlers, is_main : BOOLEAN, met : Seq(1..MaxHandlers)]

TypeOK ==
  /\ raised \in 0..MaxEvents /\ taken \subseteq 1..raised
  /\ events_queue \in Seq(Event)
  /\ handlers \in Seq(Configs) /\ active \subseteq DOMAIN handlers
  /\ id_map \in [Ids -> {0} \cup DOMAIN handlers]
  /\ DOMAIN ref_count \subseteq DOMAIN handlers
  /\ \A h \in DOMAIN ref_count : ref_count[h] \in Nat \ {0}
  /\ stack \in Seq(Frame) /\ Len(stack) <= MaxLoop
  /\ x1 \in 0..raised
  /\ value \in Names
  /\ runs \in [1..MaxHandlers -> 0..2]
  /\ throwing \in BOOLEAN

Init ==
  /\ raised = 0 /\ taken = {} /\ events_queue = <<>>
  /\ handlers = <<>> /\ active = {} /\ id_map = [i \in Ids |-> 0]
  /\ ref_count = [h \in {} |-> 0]
  /\ stack = <<>> /\ x1 = 0 /\ value \in Names
  /\ runs = [h \in 1..MaxHandlers |-> 0]
  /\ throwing = FALSE

-----------------------------------------------------------------------------
(* The lists.                                                                *)

\* The nodes of the list of a name; lists grow at their ends, so they are in order.
Nodes(rc, name) == {h \in DOMAIN rc : handlers[h].name = name}

Flagged(rc, h) == (rc[h] % 2) = 0

First(S) == IF S = {} THEN Root ELSE CHOOSE h \in S : \A g \in S : h <= g

\* ++ and begin: the next node that is not flagged, begin after the root.
Next1(rc, name, p) == First({h \in Nodes(rc, name) : h > p /\ ~Flagged(rc, h)})

\* refer, unref and check_erase: nodes that nobody counts are gone.
Counted(rc) == [h \in {g \in DOMAIN rc : rc[g] # 0} |-> rc[h]]

Moved(rc, from, to) ==
  Counted([h \in DOMAIN rc |-> rc[h] + (IF h = to THEN 2 ELSE 0) - (IF h = from THEN 2 ELSE 0)])

\* Mutant of Passed: nodes are deleted at once.
PassedDeletes(rc, S) == [h \in DOMAIN rc \ S |-> rc[h]]

\* Erasing flags a node.
Passed(rc, S) == [h \in DOMAIN rc |-> IF h \in S THEN rc[h] - (rc[h] % 2) ELSE rc[h]]

\* An iterator goes from p over the dead to a node that is not before p.
Seek(rc, name, p, to, dead) ==
  Moved(Passed(rc, {h \in Nodes(rc, name) \cap dead : p # Root /\ p <= h /\ (h < to \/ to = Root)}),
        p, to)

-----------------------------------------------------------------------------
(* Commands: of the game, or of a handler or Lua code that runs.             *)

Top == Last(stack)

WithTop(f) == Append(Front(stack), f)

Commanding == ~throwing /\ (stack # <<>> => Top.phase \in {"lua", "running"})

\* Who has a pointer to a handler, besides active_.
Held(frames) == {frames[i].cur : i \in DOMAIN frames} \ {0}

Bounded == raised + Len(handlers) < MaxBoth

Raise ==
  /\ Commanding /\ raised < MaxEvents /\ Bounded
  /\ raised' = raised + 1
  /\ \E n \in Names : events_queue' = Append(events_queue, [number |-> raised', name |-> n])
  /\ UNCHANGED <<taken, handlers, active, id_map, ref_count, stack, x1, value, runs, throwing>>

\* add_event_handler; one with the id of a handler that lives is ignored.
AddHandler ==
  \E h \in Configs :
    /\ Commanding /\ Len(handlers) < MaxHandlers /\ Bounded
    /\ h.id # None => id_map[h.id] \notin active \cup Held(stack)
    /\ handlers' = Append(handlers, h)
    /\ active' = active \cup {Len(handlers')}
    /\ id_map' = [i \in Ids |-> IF i = h.id THEN Len(handlers') ELSE id_map[i]]
    /\ ref_count' = [g \in DOMAIN ref_count \cup {Len(handlers')} |->
                       IF g = Len(handlers') THEN 1 ELSE ref_count[g]]
    /\ UNCHANGED <<raised, taken, events_queue, stack, x1, value, runs, throwing>>

\* remove_event_handler leaves the handler to those who hold it, and its node to the
\* next iteration.
RemoveHandler ==
  \E i \in Ids :
    /\ Commanding /\ id_map[i] # 0
    /\ active' = active \ {id_map[i]}
    /\ id_map' = [id_map EXCEPT ![i] = 0]
    /\ UNCHANGED <<raised, taken, events_queue, handlers, ref_count, stack, x1, value, runs, throwing>>

SetVariable ==
  /\ Commanding
  /\ \E n \in Names \ {value} : value' = n
  /\ UNCHANGED <<raised, taken, events_queue, handlers, active, id_map, ref_count, stack, x1,
                 runs, throwing>>

\* The end of a scenario, with what is left in the queue and in the lists.
Clear ==
  /\ stack = <<>> /\ handlers # <<>>
  /\ raised' = 0 /\ taken' = {} /\ events_queue' = <<>>
  /\ handlers' = <<>> /\ active' = {} /\ id_map' = [i \in Ids |-> 0]
  /\ ref_count' = [h \in {} |-> 0]
  /\ runs' = [h \in 1..MaxHandlers |-> 0]
  /\ UNCHANGED <<stack, x1, value, throwing>>

\* Mutant of Pump: one pump too many.
PumpBeyond ==
  /\ Commanding /\ events_queue # <<>> /\ Len(stack) <= MaxLoop
  /\ stack' = Append(stack, [queue |-> events_queue, saved |-> x1, ev |-> NoEvent, phase |-> "next",
                             main |-> Root, var |-> Root, end |-> 0, cur |-> 0,
                             is_main |-> FALSE, met |-> <<>>])
  /\ events_queue' = <<>>
  /\ UNCHANGED <<raised, taken, handlers, active, id_map, ref_count, x1, value, runs, throwing>>

\* The pump takes the queue, and keeps x1 to y2.  Too deep, it leaves it there.
Pump ==
  /\ Commanding /\ events_queue # <<>> /\ Len(stack) < MaxLoop
  /\ stack' = Append(stack, [queue |-> events_queue, saved |-> x1, ev |-> NoEvent, phase |-> "next",
                             main |-> Root, var |-> Root, end |-> 0, cur |-> 0,
                             is_main |-> FALSE, met |-> <<>>])
  /\ events_queue' = <<>>
  /\ UNCHANGED <<raised, taken, handlers, active, id_map, ref_count, x1, value, runs, throwing>>

-----------------------------------------------------------------------------
(* A pump.                                                                   *)

\* pump_manager::next, then the event goes to Lua.
NextEvent ==
  /\ stack # <<>> /\ ~throwing /\ Top.phase = "next" /\ Top.queue # <<>>
  /\ stack' = WithTop([Top EXCEPT !.queue = Tail(@), !.ev = Head(Top.queue), !.phase = "lua",
                                  !.end = 0, !.met = <<>>])
  /\ taken' = taken \cup {Head(Top.queue).number}
  /\ UNCHANGED <<raised, events_queue, handlers, active, id_map, ref_count, x1, value, runs, throwing>>

\* ptr_index: end_, here f.end + 1, for handlers added since the iteration began and for none.
Index(f, h) == IF h = Root \/ h > f.end THEN f.end + 1 ELSE h

\* manager::iteration::operator*, which passes the dead of both lists and the handlers
\* that the variable does not name now, for a frame that holds no handler.
Offer(f, rc) ==
  LET alive == active \cup Held(Front(stack))
      dead  == DOMAIN handlers \ alive
      name  == f.ev.name
      m     == IF f.main = Root THEN Root
               ELSE First({h \in Nodes(rc, name) \cap alive : h >= f.main})
      v     == IF f.var = Root THEN Root
               ELSE First({h \in Nodes(rc, Variable) \cap alive :
                             h >= f.var /\ (h >= Index(f, m) \/ value = name)})
      rest  == Seek(Seek(rc, name, f.main, m, dead), Variable, f.var, v, dead)
      cur   == IF Index(f, m) <= Index(f, v) THEN m ELSE v
  IN  \/ /\ Index(f, cur) <= f.end
         /\ stack' = WithTop([f EXCEPT !.phase = "offer", !.main = m, !.var = v, !.cur = cur,
                                       !.is_main = (cur = m), !.met = Append(@, cur)])
         /\ ref_count' = rest
         /\ x1' = IF f.phase = "lua" THEN f.ev.number ELSE x1
      \/ /\ Index(f, cur) > f.end
         /\ stack' = WithTop([f EXCEPT !.phase = "next", !.main = Root, !.var = Root,
                                       !.is_main = FALSE])
         /\ ref_count' = Moved(Moved(rest, m, Root), v, Root)
         /\ UNCHANGED x1

\* The iteration begins.
Iterate ==
  /\ stack # <<>> /\ ~throwing /\ Top.phase = "lua"
  /\ LET m == Next1(ref_count, Top.ev.name, Root)
         v == Next1(ref_count, Variable, Root)
     IN  Offer([Top EXCEPT !.main = m, !.var = v, !.end = Len(handlers)],
               Moved(Moved(ref_count, Root, m), Root, v))
  /\ UNCHANGED <<raised, taken, events_queue, handlers, active, id_map, value, runs, throwing>>

\* Mutant of Advance: both lists advance.
AdvanceBoth ==
  LET m == Next1(ref_count, Top.ev.name, Top.main)
      v == Next1(ref_count, Variable, Top.var)
  IN  Offer([Top EXCEPT !.main = m, !.var = v, !.cur = 0],
            Moved(Moved(ref_count, Top.main, m), Top.var, v))

\* operator++: in the list that the handler came from; then the pump lets go of it.
Advance ==
  LET m == Next1(ref_count, Top.ev.name, Top.main)
      v == Next1(ref_count, Variable, Top.var)
  IN  \/ /\ Top.is_main
         /\ Offer([Top EXCEPT !.main = m, !.cur = 0], Moved(ref_count, Top.main, m))
      \/ /\ ~Top.is_main
         /\ Offer([Top EXCEPT !.var = v, !.cur = 0], Moved(ref_count, Top.var, v))

\* The handler's filters do not match.
FilterOut ==
  /\ stack # <<>> /\ ~throwing /\ Top.phase = "offer"
  /\ Advance
  /\ UNCHANGED <<raised, taken, events_queue, handlers, active, id_map, value, runs, throwing>>

UpTo2(n) == IF n > 2 THEN 2 ELSE n

\* Mutant of Run: a handler that runs once is disabled and the pump keeps it.
RunHolds ==
  /\ stack # <<>> /\ ~throwing /\ Top.phase = "offer"
  /\ active' = IF handlers[Top.cur].once THEN active \ {Top.cur} ELSE active
  /\ stack' = WithTop([Top EXCEPT !.phase = "running"])
  /\ runs' = [runs EXCEPT ![Top.cur] = IF handlers[Top.cur].once THEN UpTo2(@ + 1) ELSE @]
  /\ UNCHANGED <<raised, taken, events_queue, handlers, id_map, ref_count, x1, value, throwing>>

\* handle_event: a handler that runs once is disabled and let go before it runs.
Run ==
  /\ stack # <<>> /\ ~throwing /\ Top.phase = "offer"
  /\ \/ /\ handlers[Top.cur].once
        /\ active' = active \ {Top.cur}
        /\ stack' = WithTop([Top EXCEPT !.phase = "running", !.cur = 0])
     \/ /\ ~handlers[Top.cur].once
        /\ stack' = WithTop([Top EXCEPT !.phase = "running"])
        /\ UNCHANGED active
  /\ runs' = [runs EXCEPT ![Top.cur] = IF handlers[Top.cur].once THEN UpTo2(@ + 1) ELSE @]
  /\ UNCHANGED <<raised, taken, events_queue, handlers, id_map, ref_count, x1, value, throwing>>

EndRun ==
  /\ stack # <<>> /\ ~throwing /\ Top.phase = "running"
  /\ Advance
  /\ UNCHANGED <<raised, taken, events_queue, handlers, active, id_map, value, runs, throwing>>

\* ~pump_manager puts x1 to y2 back.
Restored(f) == f.saved

Finish ==
  /\ stack # <<>> /\ ~throwing /\ Top.phase = "next" /\ Top.queue = <<>>
  /\ stack' = Front(stack)
  /\ x1' = Restored(Top)
  /\ UNCHANGED <<raised, taken, events_queue, handlers, active, id_map, ref_count, value, runs, throwing>>

\* A handler, or Lua, ends the level or the turn.
Throw ==
  /\ stack # <<>> /\ ~throwing /\ Top.phase \in {"lua", "running"}
  /\ throwing' = TRUE
  /\ UNCHANGED <<raised, taken, events_queue, handlers, active, id_map, ref_count, stack, x1, value, runs>>

\* Mutant of PutBack: what is left comes after what was raised since.
PutBehind(f) == events_queue \o f.queue

\* ~pump_manager keeps the events that were not pumped.
PutBack(f) == f.queue \o events_queue

Unwind ==
  /\ throwing
  /\ stack' = Front(stack)
  /\ ref_count' = Moved(Moved(ref_count, Top.main, Root), Top.var, Root)
  /\ events_queue' = PutBack(Top)
  /\ x1' = Restored(Top)
  /\ throwing' = (Len(stack) > 1)
  /\ UNCHANGED <<raised, taken, handlers, active, id_map, value, runs>>

-----------------------------------------------------------------------------
Next ==
  \/ Raise \/ AddHandler \/ RemoveHandler \/ SetVariable \/ Clear \/ Pump
  \/ NextEvent \/ Iterate \/ FilterOut \/ Run \/ EndRun \/ Finish
  \/ Throw \/ Unwind

Spec == Init /\ [][Next]_vars

-----------------------------------------------------------------------------
(* What makes it correct.                                                    *)

Iterators(h) == Cardinality({i \in DOMAIN stack : stack[i].main = h}) +
                Cardinality({i \in DOMAIN stack : stack[i].var = h})

\* Iterators never invalidate: whatever the pumps below and above erase, every iterator
\* is at a node that exists and counts it; no node that was erased stays longer
\* (smart_list); and a handler that is active can be found (handler_list).
NodesCounted ==
  /\ \A i \in DOMAIN stack : {stack[i].main, stack[i].var} \subseteq DOMAIN ref_count \cup {Root}
  /\ \A h \in DOMAIN ref_count : ref_count[h] \div 2 = Iterators(h)
  /\ \A h \in active : h \in DOMAIN ref_count /\ ~Flagged(ref_count, h)

\* An event meets its handlers in the order in which they were added, each once, only
\* those that were there when its turn came, and of these all that were not removed
\* before (manager::iteration).
MeetsHandlers ==
  \A i \in DOMAIN stack :
    LET f == stack[i]
    IN  /\ \A j, k \in DOMAIN f.met : j < k => f.met[j] < f.met[k]
        /\ \A k \in DOMAIN f.met : f.met[k] <= f.end
        /\ f.phase = "next" =>
             \A h \in active : h <= f.end /\ handlers[h].name = f.ev.name => h \in Range(f.met)

\* A handler runs if it is active or runs already (the comment on disable), and a
\* first_time_only handler runs once, even if its own commands raise its event.
RunsAsAllowed ==
  /\ \A h \in DOMAIN handlers : handlers[h].once => runs[h] < 2
  /\ \A i \in DOMAIN stack :
       stack[i].phase = "offer" => stack[i].cur \in active \cup Held(SubSeq(stack, 1, i - 1))

Numbers(q)   == {q[k].number : k \in DOMAIN q}
Sorted(q)    == \A j, k \in DOMAIN q : j < k => q[j].number < q[k].number
Before(p, q) == \A j \in DOMAIN p, k \in DOMAIN q : p[j].number < q[k].number

\* Every event raised waits once, in a pump or in events_queue, until a pump begins with
\* it, those raised earlier in the outer pumps and first in the queues, also when pumps
\* are nested, refused or unwound by an exception.  While a handler runs, x1 to y2 are
\* of its event, whatever events its commands pumped, and out of all pumps they are what
\* they were (pump_manager).
EventsKept ==
  /\ Numbers(events_queue) \cup UNION {Numbers(stack[i].queue) : i \in DOMAIN stack}
       = 1..raised \ taken
  /\ Sorted(events_queue)
  /\ \A i \in DOMAIN stack : Sorted(stack[i].queue) /\ Before(stack[i].queue, events_queue)
  /\ \A i, j \in DOMAIN stack : i < j => Before(stack[i].queue, stack[j].queue)
  /\ stack # <<>> /\ Top.phase = "running" /\ ~throwing => x1 = Top.ev.number
  /\ stack = <<>> => x1 = 0
=============================================================================
