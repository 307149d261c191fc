-------------------------- MODULE EventPump_proofs --------------------------
(*****************************************************************************)
(* Game events, for any names, handlers and bounds, and however deep pumps    *)
(* are nested.                                                                *)
(*                                                                            *)
(* IInv: what a pump offers is active or is held by a pump further out, and   *)
(* a handler that runs once is gone before it runs.  Of the lists nothing is  *)
(* used but that their nodes are handlers.                                    *)
(*                                                                            *)
(* Linked: a node counts the iterators that are at it, and what is active     *)
(* has a node that iterations find.  It is kept by whatever moves one         *)
(* iterator, and the iterators of the innermost pump are counted like the     *)
(* others.                                                                    *)
(*                                                                            *)
(* Kept: the queues of the pumps, the outermost first, and then events_queue  *)
(* are the events that wait, in order; what a pump does moves events only     *)
(* between neighbours.  Each pump has saved the place that the one further    *)
(* out needs.                                                                 *)
(*                                                                            *)
(* AllMet: an active handler of the event that was not met is not before      *)
(* the iterator of its list.                                                  *)
(*****************************************************************************)
EXTENDS EventPump, FiniteSetTheorems, SequenceTheorems, WellFoundedInduction, TLAPS

-----------------------------------------------------------------------------
(* The stack and the first of a set.                                        *)

\* First finds an element, or the root.
LEMMA FirstType ==
  ASSUME NEW S \in SUBSET Nat PROVE First(S) \in S \cup {Root}
<1>1. CASE S = {}
  BY <1>1 DEF First
<1>2. CASE S # {}
  <2>1. PICK x \in S : \A y \in S : ~ (<<y, x>> \in OpToRel(<, Nat))
    BY <1>2, NatLessThanWellFounded, WFMin
  <2>2. \A y \in S : ~ (y < x)
    BY <2>1 DEF OpToRel
  <2>3. \A y \in S : x <= y
    BY <2>2
  <2> QED
    BY <1>2, <2>3 DEF First
<1> QED
  BY <1>1, <1>2

\* The pumps that are further out than the last one.
Outer == Front(stack)

\* The innermost pump and those further out.
LEMMA TopOfStack ==
  ASSUME stack \in Seq(Frame), stack # <<>>
  PROVE  /\ Len(stack) \in Nat \ {0} /\ Top = stack[Len(stack)] /\ Top \in Frame
         /\ Outer \in Seq(Frame) /\ Len(Outer) = Len(stack) - 1
         /\ \A i \in 1..(Len(stack) - 1) : Outer[i] = stack[i]
<1>1. Len(stack) \in Nat \ {0}
  OBVIOUS
<1>2. Top = stack[Len(stack)] /\ Top \in Frame
  BY <1>1 DEF Top, Last
<1>3. /\ Outer \in Seq(Frame) /\ Len(Outer) = Len(stack) - 1
      /\ \A i \in 1..(Len(stack) - 1) : Outer[i] = stack[i]
  <2>1. Len(stack) - 1 \in Int /\ \A i \in 1..(Len(stack) - 1) : stack[i] \in Frame
    BY <1>1
  <2> DEFINE n == Len(stack) - 1
  <2>2. n \in Nat /\ \A i \in 1..n : stack[1 + i - 1] = stack[i]
    BY <1>1
  <2> HIDE DEF n
  <2>3. /\ SubSeq(stack, 1, n) \in Seq(Frame)
        /\ Len(SubSeq(stack, 1, n)) = IF 1 <= n THEN n - 1 + 1 ELSE 0
        /\ \A i \in 1..(n - 1 + 1) : SubSeq(stack, 1, n)[i] = stack[1 + i - 1]
    BY <2>1, <2>2, SubSeqProperties DEF n
  <2>4. n - 1 + 1 = n /\ (IF 1 <= n THEN n - 1 + 1 ELSE 0) = n
    BY <2>2
  <2>5. Outer = SubSeq(stack, 1, n)
    BY DEF Outer, Front, n
  <2> QED
    BY <2>2, <2>3, <2>4, <2>5 DEF n
<1> QED
  BY <1>1, <1>2, <1>3

\* Another innermost pump over the same ones.
LEMMA PushedOver ==
  ASSUME NEW q \in Seq(Frame), NEW f \in Frame
  PROVE  LET r == Append(q, f) IN
         /\ r \in Seq(Frame) /\ r # <<>> /\ Len(r) = Len(q) + 1
         /\ Last(r) = f /\ Front(r) = q
         /\ Held(r) = Held(q) \cup ({f.cur} \ {0})
         /\ \A i \in DOMAIN r : \/ r[i] = f /\ i = Len(r)
                                \/ i \in DOMAIN q /\ r[i] = q[i]
<1> DEFINE r == Append(q, f)
<1>1. /\ r \in Seq(Frame) /\ r # <<>> /\ Len(r) = Len(q) + 1 /\ Len(q) \in Nat
      /\ DOMAIN r = 1..(Len(q) + 1) /\ DOMAIN q = 1..Len(q)
      /\ r[Len(q) + 1] = f /\ \A i \in DOMAIN q : r[i] = q[i]
  OBVIOUS
<1> HIDE DEF r
<1>2. Front(r) = q /\ Last(r) = f
  <2>1. /\ Front(r) \in Seq(Frame) /\ Len(Front(r)) = Len(q)
        /\ \A i \in 1..Len(q) : Front(r)[i] = q[i]
    BY <1>1, SubSeqProperties DEF Front
  <2> QED
    BY <1>1, <2>1, SeqEqual DEF Last
<1>3. \A i \in DOMAIN r : \/ r[i] = f /\ i = Len(r)
                          \/ i \in DOMAIN q /\ r[i] = q[i]
  <2> SUFFICES ASSUME NEW i \in DOMAIN r
               PROVE  \/ r[i] = f /\ i = Len(r)
                      \/ i \in DOMAIN q /\ r[i] = q[i]
    BY Zenon
  <2>1. i \in 1..(Len(q) + 1)
    BY <1>1
  <2>2. CASE i = Len(q) + 1
    <3>1. i = Len(r) /\ r[i] = f
      BY <1>1, <2>2
    <3> QED
      BY <3>1
  <2>3. CASE i # Len(q) + 1
    <3>1. i \in DOMAIN q
      BY <1>1, <2>1, <2>3
    <3> QED
      BY <1>1, <3>1
  <2> QED
    BY <2>2, <2>3
<1>4. Held(r) = Held(q) \cup ({f.cur} \ {0})
  BY <1>1, <1>3 DEF Held
<1> QED
  BY <1>1, <1>2, <1>3, <1>4 DEF r

-----------------------------------------------------------------------------
(* The invariant.                                                           *)

Types ==
  /\ raised \in 0..MaxEvents /\ x1 \in 0..MaxEvents
  /\ events_queue \in Seq(Event)
  /\ handlers \in Seq(Handler) /\ Len(handlers) <= MaxHandlers
  /\ active \subseteq DOMAIN handlers
  /\ id_map \in [Ids -> {0} \cup DOMAIN handlers]
  /\ DOMAIN ref_count \subseteq DOMAIN handlers
  /\ stack \in Seq(Frame)
  /\ runs \in [1..MaxHandlers -> 0..2]
  /\ throwing \in BOOLEAN

\* A pump has a handler while it offers or runs it, and lets go of one that runs once.
Holds(f) ==
  /\ f.cur # 0 => f.phase \in {"offer", "running"} /\ f.cur \in DOMAIN handlers
  /\ f.phase = "offer" => f.cur # 0
  /\ f.phase = "running" /\ f.cur # 0 => ~handlers[f.cur].once

\* Only the innermost pump offers: the others wait for a handler or for Lua.
Nested ==
  /\ \A i \in DOMAIN stack : Holds(stack[i])
  /\ \A i \in DOMAIN stack : i # Len(stack) => stack[i].phase \in {"lua", "running"}

\* An exception goes through pumps.
Thrown == throwing => stack # <<>>

\* What is offered is alive.
Alive == stack # <<>> /\ Top.phase = "offer" => Top.cur \in active \cup Held(Outer)

\* A handler that ran once is gone.
Ran ==
  /\ \A h \in DOMAIN handlers : handlers[h].once /\ runs[h] # 0 =>
        runs[h] = 1 /\ h \notin active /\ h \notin Held(stack)
  /\ \A h \in 1..MaxHandlers : h \notin DOMAIN handlers => runs[h] = 0

IInv == Types /\ Nested /\ Thrown /\ Alive /\ Ran

USE BoundsAssumption, NoneAssumption, ConfigsAssumption

\* Nodes go, and none comes.
LEMMA NodesGo ==
  /\ \A rc, from, to : DOMAIN Moved(rc, from, to) \subseteq DOMAIN rc
  /\ \A rc, name, p, to, dead : DOMAIN Seek(rc, name, p, to, dead) \subseteq DOMAIN rc
<1>1. \A rc : DOMAIN Counted(rc) \subseteq DOMAIN rc
  BY DEF Counted
<1>2. \A rc, from, to : DOMAIN Moved(rc, from, to) \subseteq DOMAIN rc
  BY <1>1 DEF Moved
<1>3. \A rc, S : DOMAIN Passed(rc, S) = DOMAIN rc
  BY DEF Passed
<1> QED
  BY <1>2, <1>3, Zenon DEF Seek

\* A pump f over those of q, where handlers and runs are as before.
LEMMA PushedKeeps ==
  ASSUME IInv, NEW q \in Seq(Frame), NEW f \in Frame, stack' = Append(q, f),
         UNCHANGED <<handlers, active, runs>>,
         \A i \in DOMAIN q : Holds(q[i]) /\ q[i].phase \in {"lua", "running"},
         Held(q) \subseteq Held(stack), Holds(f),
         f.cur \in {0} \cup active \cup Held(stack),
         f.phase = "offer" => f.cur \in active \cup Held(q)
  PROVE  stack' \in Seq(Frame) /\ Nested' /\ Thrown' /\ Alive' /\ Ran'
<1>1. /\ stack' \in Seq(Frame) /\ stack' # <<>> /\ Len(stack') = Len(q) + 1
      /\ Last(stack') = f /\ Front(stack') = q
      /\ Held(stack') = Held(q) \cup ({f.cur} \ {0})
      /\ \A i \in DOMAIN stack' : \/ stack'[i] = f /\ i = Len(stack')
                                  \/ i \in DOMAIN q /\ stack'[i] = q[i]
  BY PushedOver
<1>2. Nested'
  BY <1>1 DEF Nested, Holds
<1>3. Alive'
  BY <1>1 DEF Alive, Top, Outer
<1>4. Ran'
  BY <1>1 DEF IInv, Types, Ran
<1> QED
  BY <1>1, <1>2, <1>3, <1>4 DEF Thrown

\* The pumps further out.
LEMMA OuterPumps ==
  ASSUME IInv, stack # <<>>
  PROVE  /\ Outer \in Seq(Frame) /\ Top \in Frame /\ Holds(Top)
         /\ \A i \in DOMAIN Outer : Holds(Outer[i]) /\ Outer[i].phase \in {"lua", "running"}
         /\ Held(stack) = Held(Outer) \cup ({Top.cur} \ {0})
         /\ \A h \in Held(Outer) : h \in DOMAIN handlers /\ ~handlers[h].once
<1>1. /\ Len(stack) \in Nat \ {0} /\ Top = stack[Len(stack)] /\ Top \in Frame
      /\ Outer \in Seq(Frame) /\ Len(Outer) = Len(stack) - 1
      /\ \A i \in 1..(Len(stack) - 1) : Outer[i] = stack[i]
  BY TopOfStack DEF IInv, Types
<1>2. DOMAIN Outer = 1..(Len(stack) - 1) /\ DOMAIN stack = 1..Len(stack)
  BY <1>1 DEF IInv, Types
<1>3. \A i \in DOMAIN Outer : Holds(Outer[i]) /\ Outer[i].phase \in {"lua", "running"}
  BY <1>1, <1>2 DEF IInv, Nested
<1>4. Holds(Top)
  BY <1>1, <1>2 DEF IInv, Nested
<1>5. Held(stack) = Held(Outer) \cup ({Top.cur} \ {0})
  BY <1>1, <1>2 DEF Held
<1>6. \A h \in Held(Outer) : h \in DOMAIN handlers /\ ~handlers[h].once
  BY <1>3 DEF Held, Holds
<1> QED
  BY <1>1, <1>3, <1>4, <1>5, <1>6

\* The innermost pump ends.
LEMMA PoppedKeeps ==
  ASSUME IInv, stack # <<>>, stack' = Outer, UNCHANGED <<handlers, active, runs>>
  PROVE  stack' \in Seq(Frame) /\ Nested' /\ Alive' /\ Ran'
<1>1. /\ Outer \in Seq(Frame)
      /\ \A i \in DOMAIN Outer : Holds(Outer[i]) /\ Outer[i].phase \in {"lua", "running"}
      /\ Held(Outer) \subseteq Held(stack)
  BY OuterPumps
<1>2. Nested'
  BY <1>1 DEF Nested, Holds
<1>3. Alive'
  <2> SUFFICES ASSUME Outer # <<>> PROVE Last(Outer).phase # "offer"
    BY DEF Alive, Top
  <2>1. Len(Outer) \in DOMAIN Outer
    BY <1>1
  <2> QED
    BY <1>1, <2>1 DEF Last
<1>4. Ran'
  BY <1>1 DEF IInv, Ran
<1> QED
  BY <1>1, <1>2, <1>3, <1>4

-----------------------------------------------------------------------------
(* The steps.                                                               *)

LEMMA RaiseKeeps == ASSUME IInv, Raise PROVE IInv'
<1>1. /\ raised' \in 0..MaxEvents /\ raised' \in 1..MaxEvents
      /\ UNCHANGED <<handlers, active, id_map, ref_count, stack, x1, runs, throwing>>
  BY DEF Raise, IInv, Types
<1>2. PICK n \in Names : events_queue' = Append(events_queue, [number |-> raised', name |-> n])
  BY DEF Raise
<1>3. events_queue' \in Seq(Event)
  BY <1>1, <1>2 DEF IInv, Types, Event
<1> QED
  BY <1>1, <1>3 DEF IInv, Types, Nested, Holds, Thrown, Alive, Top, Outer, Ran

LEMMA SetVariableKeeps == ASSUME IInv, SetVariable PROVE IInv'
BY DEF SetVariable, IInv, Types, Nested, Holds, Thrown, Alive, Top, Outer, Ran

LEMMA ThrowKeeps == ASSUME IInv, Throw PROVE IInv'
BY DEF Throw, IInv, Types, Nested, Holds, Thrown, Alive, Top, Outer, Ran

\* A command finds no handler offered.
LEMMA CommandOffersNot ==
  ASSUME IInv, Commanding PROVE ~ (stack # <<>> /\ Top.phase = "offer")
BY DEF Commanding

LEMMA AddHandlerKeeps == ASSUME IInv, AddHandler PROVE IInv'
<1>1. PICK h \in Configs :
        /\ Len(handlers) < MaxHandlers
        /\ handlers' = Append(handlers, h)
        /\ active' = active \cup {Len(handlers')}
        /\ id_map' = [i \in Ids |-> IF i = h.id THEN Len(handlers') ELSE id_map[i]]
        /\ ref_count' = [g \in DOMAIN ref_count \cup {Len(handlers')} |->
                           IF g = Len(handlers') THEN 1 ELSE ref_count[g]]
        /\ UNCHANGED <<raised, taken, events_queue, stack, x1, value, runs, throwing>>
  BY DEF AddHandler
<1>2. /\ handlers \in Seq(Handler) /\ Len(handlers) \in Nat /\ h \in Handler
      /\ active \subseteq DOMAIN handlers /\ DOMAIN ref_count \subseteq DOMAIN handlers
      /\ id_map \in [Ids -> {0} \cup DOMAIN handlers]
  BY DEF IInv, Types
<1> DEFINE n == Len(handlers) + 1
<1>3. /\ Len(handlers') = n /\ handlers' \in Seq(Handler) /\ n \in 1..MaxHandlers
      /\ DOMAIN handlers' = DOMAIN handlers \cup {n} /\ n \notin DOMAIN handlers
      /\ \A i \in DOMAIN handlers : handlers'[i] = handlers[i]
  BY <1>1, <1>2
<1> HIDE DEF n
<1>4. Types'
  BY <1>1, <1>2, <1>3 DEF IInv, Types
<1>5. Nested'
  BY <1>1, <1>3 DEF IInv, Nested, Holds
<1>6. Alive'
  BY <1>1, CommandOffersNot DEF AddHandler, Alive, Top
<1>7. Ran'
  <2>1. runs[n] = 0
    BY <1>3 DEF IInv, Ran
  <2>2. \A i \in DOMAIN handlers : i # n
    BY <1>3
  <2> QED
    BY <1>1, <1>3, <2>1, <2>2 DEF IInv, Ran
<1> QED
  BY <1>1, <1>4, <1>5, <1>6, <1>7 DEF IInv, Thrown

LEMMA RemoveHandlerKeeps == ASSUME IInv, RemoveHandler PROVE IInv'
<1>1. /\ active' \subseteq active /\ id_map' \in [Ids -> {0} \cup DOMAIN handlers]
      /\ UNCHANGED <<raised, events_queue, handlers, ref_count, stack, x1, runs, throwing>>
  BY DEF RemoveHandler, IInv, Types
<1>2. Alive'
  BY <1>1, CommandOffersNot DEF RemoveHandler, Alive, Top
<1> QED
  BY <1>1, <1>2 DEF IInv, Types, Nested, Holds, Thrown, Ran

LEMMA ClearKeeps == ASSUME IInv, Clear PROVE IInv'
<1>1. /\ stack = <<>> /\ raised' = 0 /\ events_queue' = <<>>
      /\ handlers' = <<>> /\ active' = {} /\ id_map' = [i \in Ids |-> 0]
      /\ ref_count' = [h \in {} |-> 0] /\ runs' = [h \in 1..MaxHandlers |-> 0]
      /\ UNCHANGED <<stack, x1, throwing>>
  BY DEF Clear
<1>2. Types'
  BY <1>1 DEF IInv, Types
<1> QED
  BY <1>1, <1>2 DEF IInv, Nested, Thrown, Alive, Ran

LEMMA PumpKeeps == ASSUME IInv, Pump PROVE IInv'
<1> DEFINE f == [queue |-> events_queue, saved |-> x1, ev |-> NoEvent, phase |-> "next",
                 main |-> Root, var |-> Root, end |-> 0, cur |-> 0,
                 is_main |-> FALSE, met |-> <<>>]
<1>1. /\ stack' = Append(stack, f) /\ events_queue' = <<>>
      /\ UNCHANGED <<raised, handlers, active, id_map, ref_count, x1, runs, throwing>>
  BY DEF Pump
<1>2. f \in Frame
  BY DEF IInv, Types, Frame, Root
<1>3. f.cur = 0 /\ f.phase = "next"
  OBVIOUS
<1> HIDE DEF f
<1>4. stack \in Seq(Frame) /\ \A i \in DOMAIN stack : Holds(stack[i])
  BY DEF IInv, Types, Nested
<1>5. \A i \in DOMAIN stack : stack[i].phase \in {"lua", "running"}
  <2> SUFFICES ASSUME NEW i \in DOMAIN stack PROVE stack[i].phase \in {"lua", "running"}
    OBVIOUS
  <2>1. CASE i # Len(stack)
    BY <2>1 DEF IInv, Nested
  <2>2. CASE i = Len(stack)
    <3>1. stack # <<>> /\ Top = stack[i]
      BY <1>4, <2>2 DEF Top, Last
    <3> QED
      BY <3>1 DEF Pump, Commanding
  <2> QED
    BY <2>1, <2>2
<1>6. Holds(f)
  BY <1>3 DEF Holds
<1>7. stack' \in Seq(Frame) /\ Nested' /\ Thrown' /\ Alive' /\ Ran'
  BY <1>1, <1>2, <1>3, <1>4, <1>5, <1>6, PushedKeeps
<1>8. events_queue' \in Seq(Event)
  BY <1>1
<1> QED
  BY <1>1, <1>7, <1>8 DEF IInv, Types

LEMMA NextEventKeeps == ASSUME IInv, NextEvent PROVE IInv'
<1> DEFINE f == [Top EXCEPT !.queue = Tail(@), !.ev = Head(Top.queue), !.phase = "lua",
                            !.end = 0, !.met = <<>>]
<1>1. /\ stack # <<>> /\ Top.phase = "next" /\ Top.queue # <<>> /\ stack' = Append(Outer, f)
      /\ UNCHANGED <<raised, events_queue, handlers, active, id_map, ref_count, x1, runs, throwing>>
  BY DEF NextEvent, WithTop, Outer
<1>2. /\ Outer \in Seq(Frame) /\ Top \in Frame /\ Holds(Top)
      /\ \A i \in DOMAIN Outer : Holds(Outer[i]) /\ Outer[i].phase \in {"lua", "running"}
      /\ Held(Outer) \subseteq Held(stack)
  BY <1>1, OuterPumps
<1>3. Top.cur = 0
  BY <1>1, <1>2 DEF Holds
<1>4. Tail(Top.queue) \in Seq(Event) /\ Head(Top.queue) \in Event
  BY <1>1, <1>2, HeadTailProperties DEF Frame
<1>5. f \in Frame /\ f.cur = 0 /\ f.phase = "lua"
  <2>1. 0 \in 0..MaxHandlers /\ <<>> \in Seq(1..MaxHandlers)
    OBVIOUS
  <2> QED
    BY <1>2, <1>3, <1>4, <2>1 DEF Frame
<1> HIDE DEF f
<1>6. Holds(f)
  BY <1>5 DEF Holds
<1>7. stack' \in Seq(Frame) /\ Nested' /\ Thrown' /\ Alive' /\ Ran'
  BY <1>1, <1>2, <1>5, <1>6, PushedKeeps
<1> QED
  BY <1>1, <1>7 DEF IInv, Types

\* A pump looks for the next handler: what it finds is alive.
LEMMA OfferKeeps ==
  ASSUME IInv, stack # <<>>, NEW f \in Frame, f.cur = 0,
         NEW rc, DOMAIN rc \subseteq DOMAIN handlers, Offer(f, rc),
         UNCHANGED <<raised, events_queue, handlers, active, id_map, runs, throwing>>
  PROVE  IInv'
<1> DEFINE alive == active \cup Held(Outer)
           dead  == DOMAIN handlers \ alive
           name  == f.ev.name
           S     == {h \in Nodes(rc, name) \cap alive : h >= f.main}
           m     == IF f.main = Root THEN Root ELSE First(S)
           V     == {h \in Nodes(rc, Variable) \cap alive :
                       h >= f.var /\ (h >= Index(f, m) \/ value = name)}
           v     == IF f.var = Root THEN Root ELSE First(V)
           rest  == Seek(Seek(rc, name, f.main, m, dead), Variable, f.var, v, dead)
           cur   == IF Index(f, m) <= Index(f, v) THEN m ELSE v
           g     == [f EXCEPT !.phase = "offer", !.main = m, !.var = v, !.cur = cur,
                              !.is_main = (cur = m), !.met = Append(@, cur)]
           e     == [f EXCEPT !.phase = "next", !.main = Root, !.var = Root,
                              !.is_main = FALSE]
<1>1. \/ /\ Index(f, cur) <= f.end /\ stack' = Append(Outer, g) /\ ref_count' = rest
         /\ x1' = IF f.phase = "lua" THEN f.ev.number ELSE x1
      \/ /\ stack' = Append(Outer, e) /\ x1' = x1
         /\ ref_count' = Moved(Moved(rest, m, Root), v, Root)
  BY DEF Offer, WithTop, Outer
<1>2. /\ Outer \in Seq(Frame)
      /\ \A i \in DOMAIN Outer : Holds(Outer[i]) /\ Outer[i].phase \in {"lua", "running"}
      /\ Held(Outer) \subseteq Held(stack) /\ Held(Outer) \subseteq DOMAIN handlers
  BY OuterPumps
<1>3. /\ active \subseteq DOMAIN handlers /\ DOMAIN handlers \subseteq 1..MaxHandlers
      /\ MaxHandlers \in Nat
  BY DEF IInv, Types
<1>4. alive \subseteq 1..MaxHandlers
  BY <1>2, <1>3
<1> HIDE DEF alive
<1>5. m \in alive \cup {Root}
  <2>1. S \subseteq alive
    OBVIOUS
  <2> HIDE DEF S
  <2>2. S \in SUBSET Nat
    BY <1>4, <2>1
  <2> QED
    BY <2>1, <2>2, FirstType
<1> HIDE DEF m, dead
<1>6. v \in alive \cup {Root}
  <2>1. V \subseteq alive
    OBVIOUS
  <2> HIDE DEF V
  <2>2. V \in SUBSET Nat
    BY <1>4, <2>1
  <2> QED
    BY <2>1, <2>2, FirstType
<1>7. DOMAIN rest \subseteq DOMAIN handlers
  <2>1. DOMAIN Seek(rc, name, f.main, m, dead) \subseteq DOMAIN handlers
    BY NodesGo
  <2> HIDE DEF v
  <2> QED
    BY <2>1, NodesGo
<1> HIDE DEF v, rest
<1>8. DOMAIN ref_count' \subseteq DOMAIN handlers
  <2>1. DOMAIN Moved(rest, m, Root) \subseteq DOMAIN handlers
    BY <1>7, NodesGo
  <2>2. DOMAIN Moved(Moved(rest, m, Root), v, Root) \subseteq DOMAIN handlers
    BY <2>1, NodesGo
  <2> QED
    BY <1>1, <1>7, <2>2
<1>9. x1' \in 0..MaxEvents
  <2>1. f.ev.number \in 0..MaxEvents
    BY DEF Frame, Event, NoEvent
  <2> QED
    BY <1>1, <2>1 DEF IInv, Types
<1>10. CASE Index(f, cur) <= f.end /\ stack' = Append(Outer, g)
  <2>1. cur \in alive \cup {Root}
    BY <1>5, <1>6
  <2>2. f.end \in Nat
    BY <1>3 DEF Frame
  <2> HIDE DEF cur
  <2>3. cur \in alive /\ cur # 0
    BY <1>4, <1>10, <2>1, <2>2 DEF Index, Root
  <2>4. g \in Frame /\ g.cur = cur /\ g.phase = "offer"
    <3>1. cur \in 1..MaxHandlers /\ Append(f.met, cur) \in Seq(1..MaxHandlers)
      BY <1>4, <2>3 DEF Frame
    <3>2. m \in 0..MaxHandlers /\ v \in 0..MaxHandlers /\ cur \in 0..MaxHandlers
      BY <1>3, <1>4, <1>5, <1>6, <3>1 DEF Root
    <3> QED
      BY <3>1, <3>2 DEF Frame
  <2> HIDE DEF g
  <2>5. Holds(g)
    BY <1>2, <1>3, <2>3, <2>4 DEF Holds, alive
  <2>6. g.cur \in active \cup Held(Outer)
    BY <2>3, <2>4 DEF alive
  <2>7. stack' \in Seq(Frame) /\ Nested' /\ Thrown' /\ Alive' /\ Ran'
    BY <1>2, <1>10, <2>4, <2>5, <2>6, PushedKeeps
  <2> QED
    BY <1>8, <1>9, <2>7 DEF IInv, Types
<1>11. CASE stack' = Append(Outer, e)
  <2>1. e \in Frame /\ e.cur = 0 /\ e.phase = "next"
    BY <1>3 DEF Frame, Root
  <2> HIDE DEF e
  <2>2. Holds(e)
    BY <2>1 DEF Holds
  <2>3. stack' \in Seq(Frame) /\ Nested' /\ Thrown' /\ Alive' /\ Ran'
    BY <1>2, <1>11, <2>1, <2>2, PushedKeeps
  <2> QED
    BY <1>8, <1>9, <2>3 DEF IInv, Types
<1> QED
  BY <1>1, <1>10, <1>11

\* An iterator goes to a handler or to the root.
LEMMA NextIsHandler ==
  ASSUME IInv, NEW rc, DOMAIN rc \subseteq DOMAIN handlers, NEW name, NEW p
  PROVE  Next1(rc, name, p) \in 0..MaxHandlers
<1> DEFINE S == {h \in Nodes(rc, name) : h > p /\ ~Flagged(rc, h)}
<1>1. S \subseteq DOMAIN handlers /\ DOMAIN handlers \subseteq 1..MaxHandlers /\ MaxHandlers \in Nat
  BY DEF Nodes, IInv, Types
<1>2. S \in SUBSET Nat
  BY <1>1
<1>3. Next1(rc, name, p) = First(S)
  BY DEF Next1
<1> HIDE DEF S
<1> QED
  BY <1>1, <1>2, <1>3, FirstType DEF Root

LEMMA IterateKeeps == ASSUME IInv, Iterate PROVE IInv'
<1> DEFINE m == Next1(ref_count, Top.ev.name, Root)
           v == Next1(ref_count, Variable, Root)
           f == [Top EXCEPT !.main = m, !.var = v, !.end = Len(handlers)]
           rc == Moved(Moved(ref_count, Root, m), Root, v)
<1>1. /\ stack # <<>> /\ Top.phase = "lua" /\ Offer(f, rc)
      /\ UNCHANGED <<raised, events_queue, handlers, active, id_map, runs, throwing>>
  BY DEF Iterate
<1>2. Top \in Frame /\ Holds(Top)
  BY <1>1, OuterPumps
<1>3. DOMAIN ref_count \subseteq DOMAIN handlers /\ Len(handlers) \in 0..MaxHandlers
  BY DEF IInv, Types
<1>4. m \in 0..MaxHandlers /\ v \in 0..MaxHandlers
  BY <1>3, NextIsHandler
<1> HIDE DEF m, v
<1>5. DOMAIN rc \subseteq DOMAIN handlers
  BY <1>3, NodesGo
<1>6. Top.cur = 0
  BY <1>1, <1>2 DEF Holds
<1>7. f \in Frame /\ f.cur = 0
  BY <1>2, <1>3, <1>4, <1>6 DEF Frame
<1> HIDE DEF f, rc
<1> QED
  BY <1>1, <1>5, <1>7, OfferKeeps

\* The pump lets go of its handler and looks for the next one.
LEMMA AdvanceKeeps ==
  ASSUME IInv, stack # <<>>, Advance,
         UNCHANGED <<raised, events_queue, handlers, active, id_map, runs, throwing>>
  PROVE  IInv'
<1> DEFINE m == Next1(ref_count, Top.ev.name, Top.main)
           v == Next1(ref_count, Variable, Top.var)
           f == [Top EXCEPT !.main = m, !.cur = 0]
           g == [Top EXCEPT !.var = v, !.cur = 0]
<1>1. \/ Offer(f, Moved(ref_count, Top.main, m))
      \/ Offer(g, Moved(ref_count, Top.var, v))
  BY DEF Advance
<1>2. Top \in Frame /\ 0 \in 0..MaxHandlers
  BY OuterPumps
<1>3. DOMAIN ref_count \subseteq DOMAIN handlers
  BY DEF IInv, Types
<1>4. m \in 0..MaxHandlers /\ v \in 0..MaxHandlers
  BY <1>3, NextIsHandler
<1> HIDE DEF m, v
<1>5. /\ DOMAIN Moved(ref_count, Top.main, m) \subseteq DOMAIN handlers
      /\ DOMAIN Moved(ref_count, Top.var, v) \subseteq DOMAIN handlers
  BY <1>3, NodesGo
<1>6. f \in Frame /\ f.cur = 0 /\ g \in Frame /\ g.cur = 0
  BY <1>2, <1>4 DEF Frame
<1> HIDE DEF f, g
<1> QED
  BY <1>1, <1>5, <1>6, OfferKeeps

\* A handler that runs once is let go of before it runs, and runs for the first time.
LEMMA RunKeeps == ASSUME IInv, Run PROVE IInv'
<1> DEFINE c == Top.cur
           f == [Top EXCEPT !.phase = "running", !.cur = 0]
           g == [Top EXCEPT !.phase = "running"]
<1>1. /\ stack # <<>> /\ Top.phase = "offer"
      /\ \/ handlers[c].once /\ active' = active \ {c} /\ stack' = Append(Outer, f)
         \/ ~handlers[c].once /\ active' = active /\ stack' = Append(Outer, g)
      /\ runs' = [runs EXCEPT ![c] = IF handlers[c].once THEN UpTo2(@ + 1) ELSE @]
      /\ UNCHANGED <<raised, events_queue, handlers, id_map, ref_count, x1, throwing>>
  BY DEF Run, WithTop, Outer
<1>2. /\ Outer \in Seq(Frame) /\ Top \in Frame /\ Holds(Top)
      /\ \A i \in DOMAIN Outer : Holds(Outer[i]) /\ Outer[i].phase \in {"lua", "running"}
      /\ Held(stack) = Held(Outer) \cup ({c} \ {0})
      /\ \A h \in Held(Outer) : h \in DOMAIN handlers /\ ~handlers[h].once
  BY <1>1, OuterPumps
<1>3. c # 0 /\ c \in DOMAIN handlers /\ c \in active \cup Held(Outer)
  BY <1>1, <1>2 DEF Holds, IInv, Alive
<1>4. /\ runs \in [1..MaxHandlers -> 0..2] /\ DOMAIN handlers \subseteq 1..MaxHandlers
      /\ handlers \in Seq(Handler)
  BY DEF IInv, Types
<1>5. CASE handlers[c].once
  <2>1. f \in Frame /\ f.cur = 0 /\ f.phase = "running"
    <3>1. 0 \in 0..MaxHandlers
      OBVIOUS
    <3> QED
      BY <1>2, <3>1 DEF Frame
  <2>2. active' = active \ {c} /\ stack' = Append(Outer, f)
    BY <1>1, <1>5
  <2> HIDE DEF f
  <2>3. runs[c] = 0
    BY <1>2, <1>3, <1>5 DEF IInv, Ran
  <2>4. c \notin Held(Outer)
    BY <1>2, <1>5
  <2> HIDE DEF c
  <2>5. runs'[c] = 1 /\ \A h \in 1..MaxHandlers : h # c => runs'[h] = runs[h]
    BY <1>1, <1>3, <1>4, <1>5, <2>3 DEF UpTo2
  <2>6. /\ stack' \in Seq(Frame) /\ stack' # <<>> /\ Len(stack') = Len(Outer) + 1
        /\ Last(stack') = f /\ Held(stack') = Held(Outer)
        /\ \A i \in DOMAIN stack' : \/ stack'[i] = f /\ i = Len(stack')
                                    \/ i \in DOMAIN Outer /\ stack'[i] = Outer[i]
    <3>1. Held(stack') = Held(Outer) \cup ({f.cur} \ {0})
      BY <1>2, <2>1, <2>2, PushedOver
    <3>2. Held(stack') = Held(Outer)
      BY <2>1, <3>1
    <3> QED
      BY <1>2, <2>1, <2>2, <3>2, PushedOver
  <2>7. Nested'
    BY <1>1, <1>2, <2>1, <2>6 DEF Nested, Holds
  <2>8. Alive'
    BY <2>1, <2>6 DEF Alive, Top
  <2>9. Ran'
    BY <1>1, <1>2, <1>3, <1>4, <2>2, <2>4, <2>5, <2>6 DEF IInv, Ran
  <2>10. runs' \in [1..MaxHandlers -> 0..2]
    BY <1>1, <1>3, <1>4, <1>5, <2>3 DEF UpTo2
  <2> QED
    BY <1>1, <2>2, <2>6, <2>7, <2>8, <2>9, <2>10 DEF IInv, Types, Thrown
<1>6. CASE ~handlers[c].once
  <2>1. g \in Frame /\ g.cur = c /\ g.phase = "running"
    BY <1>2 DEF Frame
  <2>2. active' = active /\ stack' = Append(Outer, g)
    BY <1>1, <1>6
  <2> HIDE DEF g
  <2>3. Holds(g)
    BY <1>3, <1>6, <2>1 DEF Holds
  <2> HIDE DEF c
  <2>4. runs' = runs
    BY <1>1, <1>4, <1>6
  <2>5. stack' \in Seq(Frame) /\ Nested' /\ Thrown' /\ Alive' /\ Ran'
    BY <1>1, <1>2, <1>3, <2>1, <2>2, <2>3, <2>4, PushedKeeps
  <2> QED
    BY <1>1, <2>2, <2>4, <2>5 DEF IInv, Types
<1> QED
  BY <1>5, <1>6

LEMMA FinishKeeps == ASSUME IInv, Finish PROVE IInv'
<1>1. /\ stack # <<>> /\ stack' = Outer /\ x1' = Top.saved
      /\ UNCHANGED <<raised, events_queue, handlers, active, id_map, ref_count, runs, throwing>>
  BY DEF Finish, Outer, Restored
<1>2. x1' \in 0..MaxEvents
  BY <1>1, OuterPumps DEF Frame
<1>3. stack' \in Seq(Frame) /\ Nested' /\ Alive' /\ Ran'
  BY <1>1, PoppedKeeps
<1> QED
  BY <1>1, <1>2, <1>3 DEF Finish, Thrown, IInv, Types

LEMMA UnwindKeeps == ASSUME IInv, Unwind PROVE IInv'
<1>0. stack # <<>>
  BY DEF IInv, Thrown, Unwind
<1>1. /\ stack' = Outer /\ x1' = Top.saved /\ events_queue' = Top.queue \o events_queue
      /\ ref_count' = Moved(Moved(ref_count, Top.main, Root), Top.var, Root)
      /\ throwing' = (Len(stack) > 1)
      /\ UNCHANGED <<raised, handlers, active, id_map, runs>>
  BY DEF Unwind, Outer, Restored, PutBack
<1>2. Top \in Frame
  BY <1>0, OuterPumps
<1>3. x1' \in 0..MaxEvents /\ events_queue' \in Seq(Event)
  BY <1>1, <1>2 DEF Frame, IInv, Types
<1>4. DOMAIN ref_count' \subseteq DOMAIN handlers
  <2>1. DOMAIN Moved(ref_count, Top.main, Root) \subseteq DOMAIN handlers
    BY NodesGo DEF IInv, Types
  <2> QED
    BY <1>1, <2>1, NodesGo
<1>5. stack' \in Seq(Frame) /\ Nested' /\ Alive' /\ Ran'
  BY <1>0, <1>1, PoppedKeeps
<1>6. throwing' \in BOOLEAN /\ Thrown'
  <2>1. Len(Outer) = Len(stack) - 1 /\ Len(stack) \in Nat
    BY <1>0, TopOfStack DEF IInv, Types
  <2>2. throwing' => Len(Outer) # 0
    <3>1. Len(stack) > 1 => Len(Outer) # 0
      BY <2>1
    <3> QED
      BY <1>1, <3>1
  <2>3. Len(<<>>) = 0
    OBVIOUS
  <2> QED
    BY <1>1, <2>2, <2>3 DEF Thrown
<1> QED
  BY <1>1, <1>3, <1>4, <1>5, <1>6 DEF IInv, Types

\* RunsAsAllowed is what the invariant says of the innermost pump.
LEMMA IInvAllows == IInv => RunsAsAllowed
<1> SUFFICES ASSUME IInv PROVE RunsAsAllowed
  OBVIOUS
<1>1. \A h \in DOMAIN handlers : handlers[h].once => runs[h] < 2
  <2> SUFFICES ASSUME NEW h \in DOMAIN handlers, handlers[h].once PROVE runs[h] < 2
    OBVIOUS
  <2>1. runs[h] = 0 \/ runs[h] = 1
    BY DEF IInv, Ran
  <2> QED
    BY <2>1
<1>2. ASSUME NEW i \in DOMAIN stack, stack[i].phase = "offer"
      PROVE  stack[i].cur \in active \cup Held(SubSeq(stack, 1, i - 1))
  <2>1. i = Len(stack) /\ stack # <<>>
    BY <1>2 DEF IInv, Nested
  <2>2. Top = stack[i] /\ Outer = SubSeq(stack, 1, i - 1)
    BY <2>1 DEF Top, Last, Outer, Front
  <2> QED
    BY <1>2, <2>1, <2>2 DEF IInv, Alive
<1> QED
  BY <1>1, <1>2 DEF RunsAsAllowed

\* What IInv says is so from the beginning and after every step.
LEMMA InitIInv == ASSUME Init PROVE IInv
<1>1. /\ raised = 0 /\ events_queue = <<>> /\ handlers = <<>> /\ active = {}
      /\ id_map = [i \in Ids |-> 0] /\ ref_count = [h \in {} |-> 0] /\ stack = <<>>
      /\ x1 = 0 /\ runs = [h \in 1..MaxHandlers |-> 0] /\ throwing = FALSE
  BY DEF Init
<1>2. Types
  <2>1. /\ raised \in 0..MaxEvents /\ x1 \in 0..MaxEvents /\ Len(handlers) <= MaxHandlers
        /\ DOMAIN handlers = {} /\ DOMAIN ref_count = {}
    BY <1>1
  <2>2. events_queue \in Seq(Event) /\ handlers \in Seq(Handler) /\ stack \in Seq(Frame)
    BY <1>1
  <2>3. id_map \in [Ids -> {0} \cup DOMAIN handlers] /\ throwing \in BOOLEAN
    BY <1>1
  <2>4. runs \in [1..MaxHandlers -> 0..2]
    <3>1. 0 \in 0..2
      OBVIOUS
    <3> QED
      BY <1>1, <3>1
  <2> QED
    BY <1>1, <2>1, <2>2, <2>3, <2>4 DEF Types
<1> QED
  BY <1>1, <1>2 DEF IInv, Nested, Thrown, Alive, Ran

LEMMA NextIInv == ASSUME IInv, [Next]_vars PROVE IInv'
<1>1. CASE UNCHANGED vars
  BY <1>1 DEF vars, IInv, Types, Nested, Holds, Thrown, Alive, Top, Outer, Ran
<1>2. CASE Raise \/ AddHandler \/ RemoveHandler \/ SetVariable \/ Clear
  BY <1>2, RaiseKeeps, AddHandlerKeeps, RemoveHandlerKeeps, SetVariableKeeps, ClearKeeps
<1>3. CASE Pump \/ NextEvent \/ Iterate \/ Run \/ Finish \/ Throw \/ Unwind
  BY <1>3, PumpKeeps, NextEventKeeps, IterateKeeps, RunKeeps, FinishKeeps, ThrowKeeps,
     UnwindKeeps
<1>4. CASE FilterOut \/ EndRun
  BY <1>4, AdvanceKeeps DEF FilterOut, EndRun
<1> QED
  BY <1>1, <1>2, <1>3, <1>4 DEF Next

\* A handler is run only if it is active or a pump further out runs it (the comment on
\* event_handler::disable), and a first_time_only handler runs once, also when its own
\* commands raise its event, whatever is added, removed or thrown in between.
THEOREM AlwaysRunsAsAllowed == Spec => []RunsAsAllowed
<1> QED
  BY InitIInv, NextIInv, IInvAllows, PTL DEF Spec

-----------------------------------------------------------------------------
(* The nodes and who counts them.                                           *)

\* How many of the iterators a and b are at h.
One(a, h) == IF a = h THEN 1 ELSE 0

\* The iterators of the pumps q at h.
AtMain(q, h) == {i \in DOMAIN q : q[i].main = h}
AtVar(q, h)  == {i \in DOMAIN q : q[i].var = h}
Its(q, h)    == Cardinality(AtMain(q, h)) + Cardinality(AtVar(q, h))

\* The iterators of the pumps q, and a and b, are at nodes.
AtNodes(rc, q, a, b) ==
  /\ Root \notin DOMAIN rc
  /\ a \in DOMAIN rc \cup {Root} /\ b \in DOMAIN rc \cup {Root}
  /\ \A i \in DOMAIN q : q[i].main \in DOMAIN rc \cup {Root} /\ q[i].var \in DOMAIN rc \cup {Root}

\* A node counts them, twice each.
Counts(rc, q, a, b) ==
  \A h \in DOMAIN rc : rc[h] \in Nat /\ rc[h] \div 2 = Its(q, h) + One(a, h) + One(b, h)

\* No node is left that nobody needs.
Needed(rc) == \A h \in DOMAIN rc : rc[h] # 0

\* The nodes that can be found.
Found(rc) == {h \in DOMAIN rc : rc[h] % 2 = 1}

\* Iterators are counted.
LEMMA ItsType ==
  ASSUME NEW q \in Seq(Frame), NEW h
  PROVE  /\ Its(q, h) \in Nat
         /\ Its(q, h) = 0 => \A i \in DOMAIN q : q[i].main # h /\ q[i].var # h
<1>1. IsFiniteSet(1..Len(q)) /\ DOMAIN q = 1..Len(q)
  BY FS_Interval
<1>2. AtMain(q, h) \subseteq 1..Len(q) /\ AtVar(q, h) \subseteq 1..Len(q)
  BY <1>1 DEF AtMain, AtVar
<1>3. IsFiniteSet(AtMain(q, h)) /\ IsFiniteSet(AtVar(q, h))
  BY <1>1, <1>2, FS_Subset
<1>4. Cardinality(AtMain(q, h)) \in Nat /\ Cardinality(AtVar(q, h)) \in Nat
  BY <1>3, FS_CardinalityType
<1>5. Its(q, h) \in Nat
  BY <1>4 DEF Its
<1>6. ASSUME Its(q, h) = 0
      PROVE  \A i \in DOMAIN q : q[i].main # h /\ q[i].var # h
  <2>1. Cardinality(AtMain(q, h)) = 0 /\ Cardinality(AtVar(q, h)) = 0
    BY <1>4, <1>6 DEF Its
  <2>2. AtMain(q, h) = {} /\ AtVar(q, h) = {}
    BY <1>3, <2>1, FS_EmptySet
  <2> QED
    BY <2>2 DEF AtMain, AtVar
<1> QED
  BY <1>5, <1>6

\* The pumps q and f over them.
LEMMA ItsPushed ==
  ASSUME NEW q \in Seq(Frame), NEW f \in Frame, NEW h
  PROVE  Its(Append(q, f), h) = Its(q, h) + One(f.main, h) + One(f.var, h)
<1> DEFINE n == Len(q) + 1
           r == Append(q, f)
<1>1. /\ DOMAIN q = 1..Len(q) /\ DOMAIN r = DOMAIN q \cup {n} /\ n \notin DOMAIN q
      /\ r[n] = f /\ \A i \in DOMAIN q : r[i] = q[i]
  OBVIOUS
<1> HIDE DEF n, r
<1>2. IsFiniteSet(1..Len(q))
  BY FS_Interval
<1>3. AtMain(q, h) \subseteq 1..Len(q) /\ AtVar(q, h) \subseteq 1..Len(q)
  BY <1>1 DEF AtMain, AtVar
<1>4. IsFiniteSet(AtMain(q, h)) /\ IsFiniteSet(AtVar(q, h))
  BY <1>2, <1>3, FS_Subset
<1>5. Cardinality(AtMain(q, h)) \in Nat /\ Cardinality(AtVar(q, h)) \in Nat
  BY <1>4, FS_CardinalityType
<1>6. n \notin AtMain(q, h) /\ n \notin AtVar(q, h)
  BY <1>1 DEF AtMain, AtVar
<1>7. Cardinality(AtMain(r, h)) = Cardinality(AtMain(q, h)) + One(f.main, h)
  <2>1. CASE f.main = h
    <3>1. AtMain(r, h) = AtMain(q, h) \cup {n}
      BY <1>1, <2>1 DEF AtMain
    <3> QED
      BY <1>4, <1>6, <2>1, <3>1, FS_AddElement DEF One
  <2>2. CASE f.main # h
    <3>1. AtMain(r, h) = AtMain(q, h)
      BY <1>1, <2>2 DEF AtMain
    <3> QED
      BY <1>5, <2>2, <3>1 DEF One
  <2> QED
    BY <2>1, <2>2
<1>8. Cardinality(AtVar(r, h)) = Cardinality(AtVar(q, h)) + One(f.var, h)
  <2>1. CASE f.var = h
    <3>1. AtVar(r, h) = AtVar(q, h) \cup {n}
      BY <1>1, <2>1 DEF AtVar
    <3> QED
      BY <1>4, <1>6, <2>1, <3>1, FS_AddElement DEF One
  <2>2. CASE f.var # h
    <3>1. AtVar(r, h) = AtVar(q, h)
      BY <1>1, <2>2 DEF AtVar
    <3> QED
      BY <1>5, <2>2, <3>1 DEF One
  <2> QED
    BY <2>1, <2>2
<1>9. Its(r, h) = Its(q, h) + One(f.main, h) + One(f.var, h)
  <2>1. One(f.main, h) \in Nat /\ One(f.var, h) \in Nat
    BY DEF One
  <2> QED
    BY <1>5, <1>7, <1>8, <2>1 DEF Its
<1> QED
  BY <1>9 DEF r

\* The iterators of the innermost pump are counted like those of the others.
LEMMA CountsPushed ==
  ASSUME NEW q \in Seq(Frame), NEW f \in Frame, NEW rc
  PROVE  /\ AtNodes(rc, Append(q, f), Root, Root) <=> AtNodes(rc, q, f.main, f.var)
         /\ Root \notin DOMAIN rc =>
              (Counts(rc, Append(q, f), Root, Root) <=> Counts(rc, q, f.main, f.var))
<1> DEFINE r == Append(q, f)
<1>1. /\ DOMAIN r = DOMAIN q \cup {Len(q) + 1} /\ r[Len(q) + 1] = f
      /\ Len(q) + 1 \notin DOMAIN q
      /\ \A i \in DOMAIN q : r[i] = q[i]
  OBVIOUS
<1> HIDE DEF r
<1>2. AtNodes(rc, r, Root, Root) <=> AtNodes(rc, q, f.main, f.var)
  BY <1>1 DEF AtNodes
<1>3. \A h : Its(r, h) = Its(q, h) + One(f.main, h) + One(f.var, h)
  BY ItsPushed DEF r
<1>4. ASSUME Root \notin DOMAIN rc, NEW h \in DOMAIN rc
      PROVE  Its(r, h) + One(Root, h) + One(Root, h) = Its(q, h) + One(f.main, h) + One(f.var, h)
  <2>1. One(Root, h) = 0
    BY <1>4 DEF One
  <2>2. Its(q, h) \in Nat /\ One(f.main, h) \in Nat /\ One(f.var, h) \in Nat
    BY ItsType DEF One
  <2>3. Its(r, h) = Its(q, h) + One(f.main, h) + One(f.var, h)
    BY <1>3
  <2> QED
    BY <2>1, <2>2, <2>3
<1>5. ASSUME Root \notin DOMAIN rc
      PROVE  Counts(rc, r, Root, Root) <=> Counts(rc, q, f.main, f.var)
  BY <1>4, <1>5 DEF Counts
<1> QED
  BY <1>2, <1>5 DEF r

\* The iterators a and b may change places.
LEMMA CountsTurned ==
  ASSUME NEW q \in Seq(Frame), NEW rc, NEW a, NEW b,
         AtNodes(rc, q, a, b), Counts(rc, q, a, b)
  PROVE  AtNodes(rc, q, b, a) /\ Counts(rc, q, b, a)
<1>1. AtNodes(rc, q, b, a)
  BY DEF AtNodes
<1>2. ASSUME NEW h \in DOMAIN rc
      PROVE  rc[h] \in Nat /\ rc[h] \div 2 = Its(q, h) + One(b, h) + One(a, h)
  <2>1. Its(q, h) \in Nat /\ One(a, h) \in Nat /\ One(b, h) \in Nat
    BY ItsType DEF One
  <2> QED
    BY <1>2, <2>1 DEF Counts
<1> QED
  BY <1>1, <1>2 DEF Counts

\* An iterator moves from a: it is counted where it is then, and all that was found
\* before is found.
LEMMA MovedCounts ==
  ASSUME NEW q \in Seq(Frame), NEW rc, NEW a, NEW b, NEW to,
         AtNodes(rc, q, a, b), Counts(rc, q, a, b), to \in DOMAIN rc \cup {Root}
  PROVE  LET r == Moved(rc, a, to) IN
         /\ AtNodes(r, q, to, b) /\ Counts(r, q, to, b) /\ Needed(r)
         /\ DOMAIN r \subseteq DOMAIN rc /\ Found(rc) \subseteq Found(r)
<1> DEFINE s == [h \in DOMAIN rc |-> rc[h] + (IF h = to THEN 2 ELSE 0) - (IF h = a THEN 2 ELSE 0)]
           r == Counted(s)
<1>1. Moved(rc, a, to) = r
  BY DEF Moved
<1>2. ASSUME NEW h \in DOMAIN rc
      PROVE  /\ s[h] \in Nat /\ s[h] \div 2 = Its(q, h) + One(to, h) + One(b, h)
             /\ (s[h] % 2) = (rc[h] % 2)
  <2>1. Its(q, h) \in Nat /\ One(a, h) \in {0, 1} /\ One(b, h) \in {0, 1} /\ One(to, h) \in {0, 1}
    BY ItsType DEF One
  <2>2. s[h] = rc[h] + 2 * One(to, h) - 2 * One(a, h)
    <3>1. rc[h] \in Nat
      BY DEF Counts
    <3> QED
      BY <3>1 DEF One
  <2>3. rc[h] \in Nat /\ rc[h] \div 2 = Its(q, h) + One(a, h) + One(b, h)
    BY DEF Counts
  <2> HIDE DEF s
  <2>4. \A c \in Nat, i \in Nat, x, y, z \in {0, 1} :
          c \div 2 = i + x + y =>
             LET d == c + 2 * z - 2 * x IN d \in Nat /\ d \div 2 = i + z + y /\ (d % 2) = (c % 2)
    OBVIOUS
  <2> QED
    BY <2>1, <2>2, <2>3, <2>4
<1>3. DOMAIN s = DOMAIN rc
  OBVIOUS
<1> HIDE DEF s
<1>4. DOMAIN r = {h \in DOMAIN rc : s[h] # 0} /\ \A h \in DOMAIN r : r[h] = s[h]
  BY <1>3 DEF Counted
<1> HIDE DEF r
<1>5. Counts(r, q, to, b) /\ Needed(r)
  BY <1>2, <1>4 DEF Counts, Needed
<1>6. Found(rc) \subseteq Found(r)
  <2>1. ASSUME NEW h \in DOMAIN rc, rc[h] % 2 = 1 PROVE s[h] # 0
    BY <1>2, <2>1
  <2> QED
    BY <1>2, <1>4, <2>1 DEF Found
<1>7. ASSUME NEW h \in DOMAIN rc,
             \/ h = to \/ h = b \/ \E i \in DOMAIN q : q[i].main = h \/ q[i].var = h
      PROVE  h \in DOMAIN r
  <2>1. Its(q, h) \in Nat /\ One(b, h) \in {0, 1} /\ One(to, h) \in {0, 1}
    BY ItsType DEF One
  <2>2. Its(q, h) + One(to, h) + One(b, h) # 0
    <3>1. CASE h = to \/ h = b
      <4>1. One(to, h) = 1 \/ One(b, h) = 1
        BY <3>1 DEF One
      <4> QED
        BY <2>1, <4>1
    <3>2. CASE \E i \in DOMAIN q : q[i].main = h \/ q[i].var = h
      <4>1. Its(q, h) # 0
        BY <3>2, ItsType
      <4> QED
        BY <2>1, <4>1
    <3> QED
      BY <1>7, <3>1, <3>2
  <2>3. s[h] # 0
    BY <1>2, <2>2
  <2> QED
    BY <1>4, <2>3
<1>8. AtNodes(r, q, to, b)
  BY <1>4, <1>7 DEF AtNodes
<1> QED
  BY <1>1, <1>4, <1>5, <1>6, <1>8

\* An iterator passes nodes of the dead and goes on to a node.
LEMMA SeekCounts ==
  ASSUME NEW q \in Seq(Frame), NEW rc, NEW name, NEW p, NEW b, NEW to, NEW dead,
         AtNodes(rc, q, p, b), Counts(rc, q, p, b), to \in DOMAIN rc \cup {Root}
  PROVE  LET r == Seek(rc, name, p, to, dead) IN
         /\ AtNodes(r, q, to, b) /\ Counts(r, q, to, b) /\ Needed(r)
         /\ DOMAIN r \subseteq DOMAIN rc /\ Found(rc) \ dead \subseteq Found(r)
<1> DEFINE S == {h \in Nodes(rc, name) \cap dead : p # Root /\ p <= h /\ (h < to \/ to = Root)}
           s == Passed(rc, S)
<1>1. S \subseteq dead
  OBVIOUS
<1>2. Seek(rc, name, p, to, dead) = Moved(s, p, to)
  BY DEF Seek
<1> HIDE DEF S
<1>3. /\ DOMAIN s = DOMAIN rc
      /\ \A h \in DOMAIN rc : s[h] = IF h \in S THEN rc[h] - (rc[h] % 2) ELSE rc[h]
  BY DEF Passed
<1> HIDE DEF s
<1>4. ASSUME NEW h \in DOMAIN rc
      PROVE  s[h] \in Nat /\ s[h] \div 2 = rc[h] \div 2
  <2>1. rc[h] \in Nat
    BY DEF Counts
  <2>2. \A c \in Nat : c - (c % 2) \in Nat /\ (c - (c % 2)) \div 2 = c \div 2
    OBVIOUS
  <2>3. s[h] = rc[h] \/ s[h] = rc[h] - (rc[h] % 2)
    BY <1>3
  <2> QED
    BY <2>1, <2>2, <2>3
<1>5. AtNodes(s, q, p, b) /\ Counts(s, q, p, b)
  BY <1>3, <1>4 DEF AtNodes, Counts
<1>6. Found(rc) \ dead \subseteq Found(s)
  BY <1>1, <1>3 DEF Found
<1>7. to \in DOMAIN s \cup {Root}
  BY <1>3
<1> DEFINE r == Moved(s, p, to)
<1>8. /\ AtNodes(r, q, to, b) /\ Counts(r, q, to, b) /\ Needed(r)
      /\ DOMAIN r \subseteq DOMAIN s /\ Found(s) \subseteq Found(r)
  BY <1>5, <1>7, MovedCounts
<1> HIDE DEF r
<1>9. Seek(rc, name, p, to, dead) = r
  BY <1>2 DEF r
<1>10. DOMAIN r \subseteq DOMAIN rc /\ Found(rc) \ dead \subseteq Found(r)
  BY <1>3, <1>6, <1>8
<1> QED
  BY <1>8, <1>9, <1>10, Zenon

\* A pump has its handler where one of its iterators is; before and after the iteration
\* these are at the root.
Placed(f) ==
  /\ f.cur # 0 => f.cur \in {f.main, f.var}
  /\ f.phase \in {"next", "lua"} => f.main = Root /\ f.var = Root

\* The iterators are counted, and what is active is found.
Linked ==
  /\ \A i \in DOMAIN stack : Placed(stack[i])
  /\ AtNodes(ref_count, stack, Root, Root)
  /\ Counts(ref_count, stack, Root, Root)
  /\ Needed(ref_count)
  /\ active \subseteq Found(ref_count)

\* The innermost pump is over those further out.
LEMMA StackIsPushed ==
  ASSUME stack \in Seq(Frame), stack # <<>>
  PROVE  /\ stack = Append(Outer, Top)
         /\ DOMAIN Outer \subseteq DOMAIN stack /\ Len(stack) \in DOMAIN stack
<1>1. /\ Len(stack) \in Nat \ {0} /\ Top = stack[Len(stack)] /\ Top \in Frame
      /\ Outer \in Seq(Frame) /\ Len(Outer) = Len(stack) - 1
      /\ \A i \in 1..(Len(stack) - 1) : Outer[i] = stack[i]
  BY TopOfStack
<1>2. /\ Append(Outer, Top) \in Seq(Frame) /\ Len(Append(Outer, Top)) = Len(Outer) + 1
      /\ Append(Outer, Top)[Len(Outer) + 1] = Top
      /\ \A i \in 1..Len(Outer) : Append(Outer, Top)[i] = Outer[i]
  BY <1>1
<1>3. Len(Append(Outer, Top)) = Len(stack) /\ Len(Outer) + 1 = Len(stack)
  BY <1>1, <1>2
<1>4. \A i \in 1..Len(stack) : Append(Outer, Top)[i] = stack[i]
  <2> SUFFICES ASSUME NEW i \in 1..Len(stack) PROVE Append(Outer, Top)[i] = stack[i]
    OBVIOUS
  <2>1. CASE i = Len(stack)
    BY <1>1, <1>2, <1>3, <2>1
  <2>2. CASE i # Len(stack)
    <3>1. i \in 1..(Len(stack) - 1) /\ i \in 1..Len(Outer)
      BY <1>1, <2>2
    <3> QED
      BY <1>1, <1>2, <3>1
  <2> QED
    BY <2>1, <2>2
<1>5. stack = Append(Outer, Top)
  BY <1>2, <1>3, <1>4, SeqEqual
<1>6. DOMAIN Outer = 1..(Len(stack) - 1) /\ DOMAIN stack = 1..Len(stack)
  BY <1>1
<1>7. DOMAIN Outer \subseteq DOMAIN stack /\ Len(stack) \in DOMAIN stack
  BY <1>1, <1>6
<1> QED
  BY <1>5, <1>7

\* The innermost pump's iterators are counted.
LEMMA TopCounted ==
  ASSUME IInv, Linked, stack # <<>>
  PROVE  /\ Outer \in Seq(Frame) /\ Top \in Frame
         /\ AtNodes(ref_count, Outer, Top.main, Top.var)
         /\ Counts(ref_count, Outer, Top.main, Top.var)
         /\ Placed(Top) /\ \A i \in DOMAIN Outer : Placed(Outer[i])
<1>1. /\ stack \in Seq(Frame) /\ stack = Append(Outer, Top)
      /\ DOMAIN Outer \subseteq DOMAIN stack /\ Len(stack) \in DOMAIN stack
  BY StackIsPushed DEF IInv, Types
<1>2. /\ Top = stack[Len(stack)] /\ Top \in Frame /\ Outer \in Seq(Frame)
      /\ \A i \in 1..(Len(stack) - 1) : Outer[i] = stack[i]
      /\ Len(stack) \in Nat /\ Len(Outer) = Len(stack) - 1
  BY <1>1, TopOfStack
<1>3. /\ AtNodes(ref_count, Outer, Top.main, Top.var)
      /\ Counts(ref_count, Outer, Top.main, Top.var)
  <2>1. AtNodes(ref_count, Append(Outer, Top), Root, Root)
    BY <1>1, Zenon DEF Linked
  <2>2. Counts(ref_count, Append(Outer, Top), Root, Root)
    BY <1>1, Zenon DEF Linked
  <2>3. Root \notin DOMAIN ref_count
    BY DEF Linked, AtNodes
  <2> QED
    BY <1>2, <2>1, <2>2, <2>3, CountsPushed
<1>4. Placed(Top)
  BY <1>1, <1>2 DEF Linked
<1>5. \A i \in DOMAIN Outer : Placed(Outer[i])
  <2>1. DOMAIN Outer = 1..(Len(stack) - 1)
    BY <1>2
  <2> QED
    BY <1>1, <1>2, <2>1 DEF Linked
<1> QED
  BY <1>2, <1>3, <1>4, <1>5

\* A pump f over those of q, with its iterators counted.
LEMMA PushedLinked ==
  ASSUME NEW q \in Seq(Frame), NEW f \in Frame, stack' = Append(q, f),
         AtNodes(ref_count', q, f.main, f.var), Counts(ref_count', q, f.main, f.var),
         Needed(ref_count'), active' \subseteq Found(ref_count'),
         Placed(f), \A i \in DOMAIN q : Placed(q[i])
  PROVE  Linked'
<1>1. /\ AtNodes(ref_count', Append(q, f), Root, Root)
      /\ Counts(ref_count', Append(q, f), Root, Root)
  <2>1. Root \notin DOMAIN ref_count'
    BY DEF AtNodes
  <2> QED
    BY <2>1, CountsPushed
<1>2. \A i \in DOMAIN stack' : \/ stack'[i] = f
                               \/ i \in DOMAIN q /\ stack'[i] = q[i]
  BY PushedOver
<1>3. \A i \in DOMAIN stack' : Placed(stack'[i])
  BY <1>2
<1>4. AtNodes(ref_count', stack', Root, Root) /\ Counts(ref_count', stack', Root, Root)
  BY <1>1
<1> QED
  BY <1>3, <1>4 DEF Linked

\* A pump looks for the next handler: what it finds has a node, also when the handler
\* is dead and another pump holds it.
LEMMA OfferLinks ==
  ASSUME IInv, Linked, stack # <<>>, NEW f \in Frame, NEW rc,
         DOMAIN rc \subseteq DOMAIN handlers,
         AtNodes(rc, Outer, f.main, f.var), Counts(rc, Outer, f.main, f.var),
         active \subseteq Found(rc), Offer(f, rc), UNCHANGED active,
         f.cur = 0
  PROVE  Linked'
<1> DEFINE alive == active \cup Held(Outer)
           dead  == DOMAIN handlers \ alive
           name  == f.ev.name
           S     == {h \in Nodes(rc, name) \cap alive : h >= f.main}
           m     == IF f.main = Root THEN Root ELSE First(S)
           V     == {h \in Nodes(rc, Variable) \cap alive :
                       h >= f.var /\ (h >= Index(f, m) \/ value = name)}
           v     == IF f.var = Root THEN Root ELSE First(V)
           mid   == Seek(rc, name, f.main, m, dead)
           rest  == Seek(mid, Variable, f.var, v, dead)
           cur   == IF Index(f, m) <= Index(f, v) THEN m ELSE v
           g     == [f EXCEPT !.phase = "offer", !.main = m, !.var = v, !.cur = cur,
                              !.is_main = (cur = m), !.met = Append(@, cur)]
           e     == [f EXCEPT !.phase = "next", !.main = Root, !.var = Root,
                              !.is_main = FALSE]
<1>1. \/ /\ Index(f, cur) <= f.end /\ stack' = Append(Outer, g) /\ ref_count' = rest
      \/ /\ stack' = Append(Outer, e)
         /\ ref_count' = Moved(Moved(rest, m, Root), v, Root)
  BY DEF Offer, WithTop, Outer
<1>2. /\ Outer \in Seq(Frame) /\ Held(Outer) \subseteq DOMAIN handlers
      /\ \A i \in DOMAIN Outer : Placed(Outer[i])
  BY OuterPumps, TopCounted
<1>3. DOMAIN handlers \subseteq 1..MaxHandlers /\ active \subseteq DOMAIN handlers
  BY DEF IInv, Types
<1>4. m \in (DOMAIN rc \cap alive) \cup {Root}
  <2>1. S \subseteq DOMAIN rc \cap alive
    BY DEF Nodes
  <2> HIDE DEF S
  <2>2. S \in SUBSET Nat
    BY <1>3, <2>1
  <2> QED
    BY <2>1, <2>2, FirstType
<1> HIDE DEF m
<1>5. v \in (DOMAIN rc \cap alive) \cup {Root}
  <2>1. V \subseteq DOMAIN rc \cap alive
    BY DEF Nodes
  <2> HIDE DEF V
  <2>2. V \in SUBSET Nat
    BY <1>3, <2>1
  <2> QED
    BY <2>1, <2>2, FirstType
<1> HIDE DEF v
<1>6. active \cap dead = {}
  OBVIOUS
<1> HIDE DEF dead
<1>7. /\ AtNodes(mid, Outer, m, f.var) /\ Counts(mid, Outer, m, f.var)
      /\ Found(rc) \ dead \subseteq Found(mid)
  <2>1. m \in DOMAIN rc \cup {Root}
    BY <1>4
  <2> QED
    BY <1>2, <2>1, SeekCounts
<1> HIDE DEF mid
<1>8. active \subseteq Found(mid)
  BY <1>6, <1>7
<1>9. v \in DOMAIN mid \cup {Root}
  <2>1. CASE v \in active
    BY <1>8, <2>1 DEF Found
  <2>2. CASE v \in Held(Outer)
    <3>1. PICK i \in DOMAIN Outer : v = Outer[i].cur /\ v # 0
      BY <2>2 DEF Held
    <3>2. v \in {Outer[i].main, Outer[i].var}
      BY <1>2, <3>1 DEF Placed
    <3> QED
      BY <1>7, <3>2 DEF AtNodes
  <2> QED
    BY <1>5, <2>1, <2>2
<1>10. /\ AtNodes(rest, Outer, m, v) /\ Counts(rest, Outer, m, v)
       /\ Needed(rest) /\ active \subseteq Found(rest)
  <2>1. AtNodes(mid, Outer, f.var, m) /\ Counts(mid, Outer, f.var, m)
    BY <1>2, <1>7, CountsTurned
  <2>2. /\ AtNodes(rest, Outer, v, m) /\ Counts(rest, Outer, v, m) /\ Needed(rest)
        /\ Found(mid) \ dead \subseteq Found(rest)
    BY <1>2, <1>9, <2>1, SeekCounts
  <2> HIDE DEF rest
  <2>3. AtNodes(rest, Outer, m, v) /\ Counts(rest, Outer, m, v)
    BY <1>2, <2>2, CountsTurned
  <2> QED
    BY <1>6, <1>8, <2>2, <2>3
<1> HIDE DEF rest
<1>11. CASE Index(f, cur) <= f.end /\ stack' = Append(Outer, g) /\ ref_count' = rest
  <2>1. g \in Frame /\ g.main = m /\ g.var = v /\ g.cur = cur /\ g.phase = "offer"
    <3>1. f.end \in Nat /\ cur \in {m, v}
      BY <1>3 DEF Frame
    <3>2. m \in 0..MaxHandlers /\ v \in 0..MaxHandlers /\ cur \in 0..MaxHandlers
      <4>1. m \in DOMAIN handlers \cup {0} /\ v \in DOMAIN handlers \cup {0}
        BY <1>4, <1>5 DEF Root
      <4> QED
        BY <1>3, <3>1, <4>1
    <3> HIDE DEF cur
    <3>3. cur # 0
      BY <1>11, <3>1 DEF Index, Root
    <3>4. Append(f.met, cur) \in Seq(1..MaxHandlers)
      BY <3>2, <3>3 DEF Frame
    <3> QED
      BY <3>2, <3>4 DEF Frame
  <2>2. cur \in {m, v}
    OBVIOUS
  <2> HIDE DEF g, cur
  <2>3. Placed(g)
    BY <2>1, <2>2 DEF Placed
  <2> QED
    BY <1>2, <1>10, <1>11, <2>1, <2>3, PushedLinked
<1>12. CASE stack' = Append(Outer, e) /\ ref_count' = Moved(Moved(rest, m, Root), v, Root)
  <2>1. e \in Frame /\ e.main = Root /\ e.var = Root /\ e.cur = 0
    BY <1>3 DEF Frame, Root
  <2> HIDE DEF e
  <2>2. Placed(e)
    BY <2>1 DEF Placed
  <2> DEFINE r == Moved(rest, m, Root)
             s == Moved(r, v, Root)
  <2>3. AtNodes(r, Outer, Root, v) /\ Counts(r, Outer, Root, v) /\ Found(rest) \subseteq Found(r)
    BY <1>2, <1>10, MovedCounts
  <2> HIDE DEF r
  <2>4. AtNodes(r, Outer, v, Root) /\ Counts(r, Outer, v, Root)
    BY <1>2, <2>3, CountsTurned
  <2>5. /\ AtNodes(s, Outer, Root, Root) /\ Counts(s, Outer, Root, Root) /\ Needed(s)
        /\ Found(r) \subseteq Found(s)
    BY <1>2, <2>4, MovedCounts
  <2>6. ref_count' = s
    BY <1>12 DEF r
  <2> HIDE DEF s
  <2>7. active' \subseteq Found(ref_count') /\ Needed(ref_count')
    BY <1>10, <2>3, <2>5, <2>6
  <2>8. /\ AtNodes(ref_count', Outer, e.main, e.var)
        /\ Counts(ref_count', Outer, e.main, e.var)
    BY <2>1, <2>5, <2>6
  <2> QED
    BY <1>2, <1>12, <2>1, <2>2, <2>7, <2>8, PushedLinked
<1> QED
  BY <1>1, <1>11, <1>12

\* Where nothing is linked or unlinked.
LEMMA SameLinks ==
  ASSUME Linked, UNCHANGED <<stack, ref_count>>, active' \subseteq active PROVE Linked'
BY DEF Linked, Placed

\* A new handler has a node that nobody counts.
LEMMA AddHandlerLinks == ASSUME IInv, Linked, AddHandler PROVE Linked'
<1> DEFINE n == Len(handlers) + 1
<1>1. /\ Len(handlers') = n /\ active' = active \cup {n}
      /\ ref_count' = [g \in DOMAIN ref_count \cup {n} |-> IF g = n THEN 1 ELSE ref_count[g]]
      /\ stack' = stack
  <2>1. PICK h \in Configs :
          /\ handlers' = Append(handlers, h)
          /\ active' = active \cup {Len(handlers')}
          /\ ref_count' = [g \in DOMAIN ref_count \cup {Len(handlers')} |->
                             IF g = Len(handlers') THEN 1 ELSE ref_count[g]]
          /\ stack' = stack
    BY DEF AddHandler
  <2>2. Len(handlers') = n
    BY <2>1 DEF IInv, Types
  <2> QED
    BY <2>1, <2>2
<1>2. n \notin DOMAIN ref_count /\ n # Root /\ stack \in Seq(Frame)
  BY DEF IInv, Types, Root
<1> HIDE DEF n
<1>3. AtNodes(ref_count', stack', Root, Root)
  BY <1>1, <1>2 DEF Linked, AtNodes
<1>4. Its(stack, n) = 0
  <2>1. \A i \in DOMAIN stack : stack[i].main # n /\ stack[i].var # n
    BY <1>2 DEF Linked, AtNodes
  <2>2. AtMain(stack, n) = {} /\ AtVar(stack, n) = {}
    BY <2>1 DEF AtMain, AtVar
  <2> QED
    BY <2>2, FS_EmptySet DEF Its
<1>5. Counts(ref_count', stack', Root, Root)
  <2> SUFFICES ASSUME NEW h \in DOMAIN ref_count'
               PROVE  /\ ref_count'[h] \in Nat
                      /\ ref_count'[h] \div 2 = Its(stack, h) + One(Root, h) + One(Root, h)
    BY <1>1 DEF Counts
  <2>1. CASE h = n
    <3>1. ref_count'[h] = 1 /\ 1 \div 2 = 0 /\ One(Root, h) = 0
      BY <1>1, <1>2, <2>1 DEF One
    <3> QED
      BY <1>4, <2>1, <3>1
  <2>2. CASE h # n
    <3>1. h \in DOMAIN ref_count /\ ref_count'[h] = ref_count[h]
      BY <1>1, <2>2
    <3> QED
      BY <3>1 DEF Linked, Counts
  <2> QED
    BY <2>1, <2>2
<1>6. Needed(ref_count')
  BY <1>1 DEF Linked, Needed
<1>7. active' \subseteq Found(ref_count')
  <2>1. active \subseteq Found(ref_count)
    BY DEF Linked
  <2>2. 1 % 2 = 1
    OBVIOUS
  <2> QED
    BY <1>1, <1>2, <2>1, <2>2 DEF Found
<1>8. \A i \in DOMAIN stack' : Placed(stack'[i])
  BY <1>1 DEF Linked
<1> QED
  BY <1>3, <1>5, <1>6, <1>7, <1>8 DEF Linked

LEMMA ClearLinks == ASSUME Linked, Clear PROVE Linked'
<1>1. stack = <<>> /\ stack' = <<>> /\ active' = {} /\ ref_count' = [h \in {} |-> 0]
  BY DEF Clear
<1>2. DOMAIN stack' = {} /\ DOMAIN ref_count' = {}
  BY <1>1
<1> QED
  BY <1>1, <1>2 DEF Linked, AtNodes, Counts, Needed

LEMMA PumpLinks == ASSUME IInv, Linked, Pump PROVE Linked'
<1> DEFINE f == [queue |-> events_queue, saved |-> x1, ev |-> NoEvent, phase |-> "next",
                 main |-> Root, var |-> Root, end |-> 0, cur |-> 0,
                 is_main |-> FALSE, met |-> <<>>]
<1>1. stack' = Append(stack, f) /\ UNCHANGED <<ref_count, active>> /\ stack \in Seq(Frame)
  BY DEF Pump, IInv, Types
<1>2. f \in Frame /\ f.main = Root /\ f.var = Root /\ f.cur = 0
  <2>1. <<>> \in Seq(1..MaxHandlers) /\ events_queue \in Seq(Event) /\ x1 \in 0..MaxEvents
    BY DEF IInv, Types
  <2> QED
    BY <2>1 DEF Frame, Root
<1> HIDE DEF f
<1>3. Placed(f)
  BY <1>2 DEF Placed
<1>4. /\ AtNodes(ref_count', stack, f.main, f.var) /\ Counts(ref_count', stack, f.main, f.var)
      /\ Needed(ref_count') /\ active' \subseteq Found(ref_count')
      /\ \A i \in DOMAIN stack : Placed(stack[i])
  BY <1>1, <1>2 DEF Linked
<1> QED
  BY <1>1, <1>2, <1>3, <1>4, PushedLinked

\* The innermost pump becomes f, with its iterators where they are.
LEMMA SameIterators ==
  ASSUME IInv, Linked, stack # <<>>, NEW f \in Frame, stack' = Append(Outer, f),
         f.main = Top.main, f.var = Top.var, Placed(f),
         UNCHANGED ref_count, active' \subseteq active
  PROVE  Linked'
<1>1. /\ Outer \in Seq(Frame) /\ AtNodes(ref_count, Outer, Top.main, Top.var)
      /\ Counts(ref_count, Outer, Top.main, Top.var)
      /\ \A i \in DOMAIN Outer : Placed(Outer[i])
  BY TopCounted
<1>2. /\ AtNodes(ref_count', Outer, f.main, f.var) /\ Counts(ref_count', Outer, f.main, f.var)
      /\ Needed(ref_count') /\ active' \subseteq Found(ref_count')
  BY <1>1 DEF Linked
<1> QED
  BY <1>1, <1>2, PushedLinked

LEMMA NextEventLinks == ASSUME IInv, Linked, NextEvent PROVE Linked'
<1> DEFINE f == [Top EXCEPT !.queue = Tail(@), !.ev = Head(Top.queue), !.phase = "lua",
                            !.end = 0, !.met = <<>>]
<1>1. /\ stack # <<>> /\ Top.phase = "next" /\ Top.queue # <<>>
      /\ stack' = Append(Outer, f) /\ UNCHANGED <<ref_count, active>>
  BY DEF NextEvent, WithTop, Outer
<1>2. Top \in Frame /\ Placed(Top) /\ Holds(Top)
  BY <1>1, TopCounted, OuterPumps
<1>3. Tail(Top.queue) \in Seq(Event) /\ Head(Top.queue) \in Event
  BY <1>1, <1>2, HeadTailProperties DEF Frame
<1>4. f \in Frame /\ f.main = Top.main /\ f.var = Top.var /\ f.cur = Top.cur
  <2>1. 0 \in 0..MaxHandlers /\ <<>> \in Seq(1..MaxHandlers)
    OBVIOUS
  <2> QED
    BY <1>2, <1>3, <2>1 DEF Frame
<1> HIDE DEF f
<1>5. Placed(f)
  BY <1>1, <1>2, <1>4 DEF Placed, Holds
<1> QED
  BY <1>1, <1>4, <1>5, SameIterators

LEMMA RunLinks == ASSUME IInv, Linked, Run PROVE Linked'
<1> DEFINE c == Top.cur
           f == [Top EXCEPT !.phase = "running", !.cur = 0]
           g == [Top EXCEPT !.phase = "running"]
<1>1. /\ stack # <<>> /\ Top.phase = "offer" /\ ref_count' = ref_count
      /\ \/ active' = active \ {c} /\ stack' = Append(Outer, f)
         \/ active' = active /\ stack' = Append(Outer, g)
  BY DEF Run, WithTop, Outer
<1>2. Top \in Frame /\ Placed(Top)
  BY <1>1, TopCounted
<1>3. f \in Frame /\ f.main = Top.main /\ f.var = Top.var /\ f.cur = 0 /\ f.phase = "running"
  <2>1. 0 \in 0..MaxHandlers
    OBVIOUS
  <2> QED
    BY <1>2, <2>1 DEF Frame
<1>4. g \in Frame /\ g.main = Top.main /\ g.var = Top.var /\ g.cur = c /\ g.phase = "running"
  BY <1>2 DEF Frame
<1> HIDE DEF f, g
<1>5. Placed(f) /\ Placed(g)
  BY <1>2, <1>3, <1>4 DEF Placed
<1>6. active' \subseteq active
  BY <1>1
<1> QED
  BY <1>1, <1>3, <1>4, <1>5, <1>6, SameIterators

\* The innermost pump ends, its iterators at the root.
LEMMA PoppedLinked ==
  ASSUME NEW q \in Seq(Frame), stack' = q, UNCHANGED active,
         AtNodes(ref_count', q, Root, Root), Counts(ref_count', q, Root, Root),
         Needed(ref_count'), active \subseteq Found(ref_count'),
         \A i \in DOMAIN q : Placed(q[i])
  PROVE  Linked'
BY DEF Linked

LEMMA FinishLinks == ASSUME IInv, Linked, Finish PROVE Linked'
<1>1. stack # <<>> /\ Top.phase = "next" /\ stack' = Outer /\ UNCHANGED <<ref_count, active>>
  BY DEF Finish, Outer
<1>2. /\ Outer \in Seq(Frame) /\ Top.main = Root /\ Top.var = Root
      /\ AtNodes(ref_count, Outer, Top.main, Top.var)
      /\ Counts(ref_count, Outer, Top.main, Top.var)
      /\ \A i \in DOMAIN Outer : Placed(Outer[i])
  BY <1>1, TopCounted DEF Placed
<1>3. /\ AtNodes(ref_count', Outer, Root, Root) /\ Counts(ref_count', Outer, Root, Root)
      /\ Needed(ref_count') /\ active \subseteq Found(ref_count')
  BY <1>1, <1>2 DEF Linked
<1> QED
  BY <1>1, <1>2, <1>3, PoppedLinked

LEMMA UnwindLinks == ASSUME IInv, Linked, Unwind PROVE Linked'
<1> DEFINE r == Moved(ref_count, Top.main, Root)
           s == Moved(r, Top.var, Root)
<1>1. stack # <<>> /\ stack' = Outer /\ ref_count' = s /\ UNCHANGED active
  BY DEF Unwind, Outer, IInv, Thrown
<1>2. /\ Outer \in Seq(Frame) /\ AtNodes(ref_count, Outer, Top.main, Top.var)
      /\ Counts(ref_count, Outer, Top.main, Top.var)
      /\ \A i \in DOMAIN Outer : Placed(Outer[i])
  BY <1>1, TopCounted
<1>3. /\ AtNodes(r, Outer, Root, Top.var) /\ Counts(r, Outer, Root, Top.var)
      /\ Found(ref_count) \subseteq Found(r)
  BY <1>2, MovedCounts
<1> HIDE DEF r
<1>4. AtNodes(r, Outer, Top.var, Root) /\ Counts(r, Outer, Top.var, Root)
  BY <1>2, <1>3, CountsTurned
<1>5. /\ AtNodes(s, Outer, Root, Root) /\ Counts(s, Outer, Root, Root) /\ Needed(s)
      /\ Found(r) \subseteq Found(s)
  BY <1>2, <1>4, MovedCounts
<1> HIDE DEF s
<1>6. active \subseteq Found(s)
  BY <1>3, <1>5 DEF Linked
<1> QED
  BY <1>1, <1>2, <1>5, <1>6, PoppedLinked

\* An iterator goes to a node that is found, or to the root.
LEMMA NextIsFound ==
  ASSUME NEW rc, DOMAIN rc \subseteq Nat, NEW name, NEW p,
         \A h \in DOMAIN rc : rc[h] \in Nat
  PROVE  Next1(rc, name, p) \in Found(rc) \cup {Root}
<1> DEFINE S == {h \in Nodes(rc, name) : h > p /\ ~Flagged(rc, h)}
<1>1. S \subseteq DOMAIN rc
  BY DEF Nodes
<1>2. \A c \in Nat : c % 2 # 0 => c % 2 = 1
  OBVIOUS
<1>3. S \subseteq Found(rc)
  BY <1>1, <1>2 DEF Flagged, Found
<1>4. Next1(rc, name, p) = First(S)
  BY DEF Next1
<1> HIDE DEF S
<1>5. S \in SUBSET Nat
  BY <1>1
<1> QED
  BY <1>3, <1>4, <1>5, FirstType

LEMMA IterateLinks == ASSUME IInv, Linked, Iterate PROVE Linked'
<1> DEFINE m == Next1(ref_count, Top.ev.name, Root)
           v == Next1(ref_count, Variable, Root)
           f == [Top EXCEPT !.main = m, !.var = v, !.end = Len(handlers)]
           r == Moved(ref_count, Root, m)
           s == Moved(r, Root, v)
<1>1. stack # <<>> /\ Top.phase = "lua" /\ Offer(f, s) /\ UNCHANGED active
  BY DEF Iterate
<1>2. /\ Outer \in Seq(Frame) /\ Top \in Frame /\ Top.main = Root /\ Top.var = Root
      /\ AtNodes(ref_count, Outer, Top.main, Top.var)
      /\ Counts(ref_count, Outer, Top.main, Top.var)
  BY <1>1, TopCounted DEF Placed
<1>3. /\ AtNodes(ref_count, Outer, Root, Root) /\ Counts(ref_count, Outer, Root, Root)
      /\ active \subseteq Found(ref_count)
  BY <1>2 DEF Linked
<1>4. Top.cur = 0
  BY <1>1, OuterPumps DEF Holds
<1>5. DOMAIN ref_count \subseteq DOMAIN handlers /\ Len(handlers) \in 0..MaxHandlers
  BY DEF IInv, Types
<1>6. DOMAIN ref_count \subseteq Nat /\ DOMAIN handlers = 1..Len(handlers)
  BY <1>5 DEF IInv, Types
<1>7. m \in Found(ref_count) \cup {Root} /\ v \in Found(ref_count) \cup {Root}
  <2>1. \A h \in DOMAIN ref_count : ref_count[h] \in Nat
    BY <1>3 DEF Counts
  <2> QED
    BY <1>6, <2>1, NextIsFound
<1> HIDE DEF m, v
<1>8. /\ AtNodes(r, Outer, m, Root) /\ Counts(r, Outer, m, Root)
      /\ DOMAIN r \subseteq DOMAIN ref_count /\ Found(ref_count) \subseteq Found(r)
  <2>1. m \in DOMAIN ref_count \cup {Root}
    BY <1>7 DEF Found
  <2> QED
    BY <1>2, <1>3, <2>1, MovedCounts
<1> HIDE DEF r
<1>9. /\ AtNodes(s, Outer, v, m) /\ Counts(s, Outer, v, m)
      /\ DOMAIN s \subseteq DOMAIN r /\ Found(r) \subseteq Found(s)
  <2>1. v \in DOMAIN r \cup {Root}
    BY <1>7, <1>8 DEF Found
  <2>2. AtNodes(r, Outer, Root, m) /\ Counts(r, Outer, Root, m)
    BY <1>2, <1>8, CountsTurned
  <2> QED
    BY <1>2, <2>1, <2>2, MovedCounts
<1> HIDE DEF s
<1>10. AtNodes(s, Outer, m, v) /\ Counts(s, Outer, m, v)
  BY <1>2, <1>9, CountsTurned
<1>11. f \in Frame /\ f.main = m /\ f.var = v /\ f.cur = 0
  <2>1. m \in 0..MaxHandlers /\ v \in 0..MaxHandlers
    BY <1>5, <1>6, <1>7 DEF Found, Root
  <2> QED
    BY <1>2, <1>4, <1>5, <2>1 DEF Frame
<1> HIDE DEF f
<1>12. /\ DOMAIN s \subseteq DOMAIN handlers /\ active \subseteq Found(s)
       /\ AtNodes(s, Outer, f.main, f.var) /\ Counts(s, Outer, f.main, f.var)
  BY <1>3, <1>5, <1>8, <1>9, <1>10, <1>11
<1> QED
  BY <1>1, <1>11, <1>12, OfferLinks

\* The pump goes on from its handler.
LEMMA AdvanceLinks ==
  ASSUME IInv, Linked, stack # <<>>, Advance, UNCHANGED active
  PROVE  Linked'
<1> DEFINE m == Next1(ref_count, Top.ev.name, Top.main)
           v == Next1(ref_count, Variable, Top.var)
           f == [Top EXCEPT !.main = m, !.cur = 0]
           g == [Top EXCEPT !.var = v, !.cur = 0]
           r == Moved(ref_count, Top.main, m)
           s == Moved(ref_count, Top.var, v)
<1>1. Offer(f, r) \/ Offer(g, s)
  BY DEF Advance
<1>2. /\ Outer \in Seq(Frame) /\ Top \in Frame
      /\ AtNodes(ref_count, Outer, Top.main, Top.var)
      /\ Counts(ref_count, Outer, Top.main, Top.var)
      /\ active \subseteq Found(ref_count)
  BY TopCounted DEF Linked
<1>3. /\ DOMAIN ref_count \subseteq DOMAIN handlers /\ DOMAIN ref_count \subseteq Nat
      /\ DOMAIN handlers \subseteq 1..MaxHandlers
  BY DEF IInv, Types
<1>4. /\ m \in DOMAIN ref_count \cup {Root} /\ v \in DOMAIN ref_count \cup {Root}
      /\ m \in 0..MaxHandlers /\ v \in 0..MaxHandlers
  <2>1. \A h \in DOMAIN ref_count : ref_count[h] \in Nat
    BY <1>2 DEF Counts
  <2>2. m \in Found(ref_count) \cup {Root} /\ v \in Found(ref_count) \cup {Root}
    BY <1>3, <2>1, NextIsFound
  <2> HIDE DEF m, v
  <2>3. m \in DOMAIN ref_count \cup {Root} /\ v \in DOMAIN ref_count \cup {Root}
    BY <2>2 DEF Found
  <2> QED
    BY <1>3, <2>3 DEF Root
<1> HIDE DEF m, v
<1>5. CASE Offer(f, r)
  <2>1. /\ AtNodes(r, Outer, m, Top.var) /\ Counts(r, Outer, m, Top.var)
        /\ DOMAIN r \subseteq DOMAIN ref_count /\ Found(ref_count) \subseteq Found(r)
    BY <1>2, <1>4, MovedCounts
  <2> HIDE DEF r
  <2>2. f \in Frame /\ f.main = m /\ f.var = Top.var /\ f.cur = 0
    <3>1. 0 \in 0..MaxHandlers
      OBVIOUS
    <3> QED
      BY <1>2, <1>4, <3>1 DEF Frame
  <2> HIDE DEF f
  <2>3. /\ DOMAIN r \subseteq DOMAIN handlers /\ active \subseteq Found(r)
        /\ AtNodes(r, Outer, f.main, f.var) /\ Counts(r, Outer, f.main, f.var)
    BY <1>2, <1>3, <2>1, <2>2
  <2> QED
    BY <1>5, <2>2, <2>3, OfferLinks
<1>6. CASE Offer(g, s)
  <2>1. AtNodes(ref_count, Outer, Top.var, Top.main) /\ Counts(ref_count, Outer, Top.var, Top.main)
    BY <1>2, CountsTurned
  <2>2. /\ AtNodes(s, Outer, v, Top.main) /\ Counts(s, Outer, v, Top.main)
        /\ DOMAIN s \subseteq DOMAIN ref_count /\ Found(ref_count) \subseteq Found(s)
    BY <1>2, <1>4, <2>1, MovedCounts
  <2> HIDE DEF s
  <2>3. AtNodes(s, Outer, Top.main, v) /\ Counts(s, Outer, Top.main, v)
    BY <1>2, <2>2, CountsTurned
  <2>4. g \in Frame /\ g.main = Top.main /\ g.var = v /\ g.cur = 0
    <3>1. 0 \in 0..MaxHandlers
      OBVIOUS
    <3> QED
      BY <1>2, <1>4, <3>1 DEF Frame
  <2> HIDE DEF g
  <2>5. /\ DOMAIN s \subseteq DOMAIN handlers /\ active \subseteq Found(s)
        /\ AtNodes(s, Outer, g.main, g.var) /\ Counts(s, Outer, g.main, g.var)
    BY <1>2, <1>3, <2>2, <2>3, <2>4
  <2> QED
    BY <1>6, <2>4, <2>5, OfferLinks
<1> QED
  BY <1>1, <1>5, <1>6

\* Whatever a step does to the lists.
LEMMA NextLinks == ASSUME IInv, Linked, [Next]_vars PROVE Linked'
<1>1. CASE UNCHANGED vars \/ Raise \/ RemoveHandler \/ SetVariable \/ Throw
  <2>1. UNCHANGED <<stack, ref_count>> /\ active' \subseteq active
    BY <1>1 DEF vars, Raise, RemoveHandler, SetVariable, Throw
  <2> QED
    BY <2>1, SameLinks
<1>2. CASE AddHandler \/ Clear \/ Pump \/ NextEvent \/ Iterate \/ Run \/ Finish \/ Unwind
  BY <1>2, AddHandlerLinks, ClearLinks, PumpLinks, NextEventLinks, IterateLinks, RunLinks,
     FinishLinks, UnwindLinks
<1>3. CASE FilterOut \/ EndRun
  BY <1>3, AdvanceLinks DEF FilterOut, EndRun
<1> QED
  BY <1>1, <1>2, <1>3 DEF Next

\* Counted iterators are what NodesCounted is about.
LEMMA LinkedCounts == ASSUME IInv, Linked PROVE NodesCounted
<1>1. \A i \in DOMAIN stack : {stack[i].main, stack[i].var} \subseteq DOMAIN ref_count \cup {Root}
  BY DEF Linked, AtNodes
<1>2. ASSUME NEW h \in DOMAIN ref_count PROVE ref_count[h] \div 2 = Iterators(h)
  <2>1. Iterators(h) = Its(stack, h)
    BY DEF Iterators, Its, AtMain, AtVar
  <2>2. One(Root, h) = 0
    BY DEF One, Linked, AtNodes
  <2>3. Its(stack, h) \in Nat
    BY ItsType DEF IInv, Types
  <2>4. ref_count[h] \div 2 = Its(stack, h) + One(Root, h) + One(Root, h)
    BY DEF Linked, Counts
  <2> QED
    BY <2>1, <2>2, <2>3, <2>4
<1>3. ASSUME NEW h \in active PROVE h \in DOMAIN ref_count /\ ~Flagged(ref_count, h)
  BY DEF Linked, Found, Flagged
<1> QED
  BY <1>1, <1>2, <1>3 DEF NodesCounted

LEMMA InitLinks == ASSUME Init PROVE Linked
<1>1. stack = <<>> /\ active = {} /\ ref_count = [h \in {} |-> 0]
  BY DEF Init
<1>2. DOMAIN stack = {} /\ DOMAIN ref_count = {}
  BY <1>1
<1> QED
  BY <1>1, <1>2 DEF Linked, AtNodes, Counts, Needed

\* Iterators never invalidate (smart_list), whatever pumps further in and further out
\* remove: each is at a node that counts it, a node that nobody counts and that was
\* erased is gone, and every active handler has a node that iterations find.
THEOREM NodesStayCounted == Spec => []NodesCounted
<1> QED
  BY InitIInv, NextIInv, InitLinks, NextLinks, LinkedCounts, PTL DEF Spec

-----------------------------------------------------------------------------
(* The events that wait.                                                     *)

\* The numbers of the events in the queues of the pumps q.
Waiting(q) == UNION {Numbers(q[i].queue) : i \in DOMAIN q}

\* The events of the pumps q and then those of e are the ones of S, in order.
InLine(q, e, S) ==
  /\ Numbers(e) \cup Waiting(q) = S
  /\ Sorted(e)
  /\ \A i \in DOMAIN q : Sorted(q[i].queue) /\ Before(q[i].queue, e)
  /\ \A i, j \in DOMAIN q : i < j => Before(q[i].queue, q[j].queue)

\* The elements of a queue after another one.
LEMMA InBoth ==
  ASSUME NEW p \in Seq(Event), NEW e \in Seq(Event)
  PROVE  /\ p \o e \in Seq(Event)
         /\ \A k \in DOMAIN (p \o e) :
              \/ k \in DOMAIN p /\ (p \o e)[k] = p[k]
              \/ k > Len(p) /\ k - Len(p) \in DOMAIN e /\ (p \o e)[k] = e[k - Len(p)]
         /\ \A k \in DOMAIN p : k \in DOMAIN (p \o e) /\ (p \o e)[k] = p[k] /\ k <= Len(p)
         /\ \A k \in DOMAIN e : /\ k + Len(p) \in DOMAIN (p \o e)
                                /\ (p \o e)[k + Len(p)] = e[k] /\ k + Len(p) > Len(p)
<1> DEFINE r == p \o e
<1>1. /\ r \in Seq(Event) /\ Len(r) = Len(p) + Len(e) /\ Len(p) \in Nat /\ Len(e) \in Nat
      /\ \A k \in 1..(Len(p) + Len(e)) : r[k] = IF k <= Len(p) THEN p[k] ELSE e[k - Len(p)]
  OBVIOUS
<1>2. DOMAIN p = 1..Len(p) /\ DOMAIN e = 1..Len(e)
  OBVIOUS
<1> HIDE DEF r
<1>3. DOMAIN r = 1..(Len(p) + Len(e))
  BY <1>1
<1>4. ASSUME NEW k \in DOMAIN r
      PROVE  \/ k \in DOMAIN p /\ r[k] = p[k]
             \/ k > Len(p) /\ k - Len(p) \in DOMAIN e /\ r[k] = e[k - Len(p)]
  BY <1>1, <1>2, <1>3
<1>5. ASSUME NEW k \in DOMAIN p
      PROVE  k \in DOMAIN r /\ r[k] = p[k] /\ k <= Len(p)
  BY <1>1, <1>2, <1>3
<1>6. ASSUME NEW k \in DOMAIN e
      PROVE  k + Len(p) \in DOMAIN r /\ r[k + Len(p)] = e[k] /\ k + Len(p) > Len(p)
  <2>1. k \in 1..Len(e)
    BY <1>2
  <2> QED
    BY <1>1, <1>3, <2>1
<1> QED
  BY <1>1, <1>4, <1>5, <1>6 DEF r

LEMMA JoinedNumbers ==
  ASSUME NEW p \in Seq(Event), NEW e \in Seq(Event)
  PROVE  Numbers(p \o e) = Numbers(p) \cup Numbers(e)
<1> DEFINE r == p \o e
<1>1. /\ \A k \in DOMAIN r : \/ k \in DOMAIN p /\ r[k] = p[k]
                             \/ k > Len(p) /\ k - Len(p) \in DOMAIN e /\ r[k] = e[k - Len(p)]
      /\ \A k \in DOMAIN p : k \in DOMAIN r /\ r[k] = p[k] /\ k <= Len(p)
      /\ \A k \in DOMAIN e : k + Len(p) \in DOMAIN r /\ r[k + Len(p)] = e[k] /\ k + Len(p) > Len(p)
  BY InBoth
<1> HIDE DEF r
<1>2. Numbers(r) \subseteq Numbers(p) \cup Numbers(e)
  BY <1>1 DEF Numbers
<1>3. Numbers(p) \cup Numbers(e) \subseteq Numbers(r)
  BY <1>1 DEF Numbers
<1> QED
  BY <1>2, <1>3 DEF r

LEMMA JoinedSorted ==
  ASSUME NEW p \in Seq(Event), NEW e \in Seq(Event)
  PROVE  Sorted(p \o e) <=> Sorted(p) /\ Sorted(e) /\ Before(p, e)
<1> DEFINE r == p \o e
<1>0. Len(p) \in Nat /\ DOMAIN p \subseteq Nat /\ DOMAIN e \subseteq Nat /\ DOMAIN r \subseteq Nat
  BY InBoth
<1>1. /\ \A k \in DOMAIN r : \/ k \in DOMAIN p /\ r[k] = p[k]
                             \/ k > Len(p) /\ k - Len(p) \in DOMAIN e /\ r[k] = e[k - Len(p)]
      /\ \A k \in DOMAIN p : k \in DOMAIN r /\ r[k] = p[k] /\ k <= Len(p)
      /\ \A k \in DOMAIN e : k + Len(p) \in DOMAIN r /\ r[k + Len(p)] = e[k] /\ k + Len(p) > Len(p)
  BY InBoth
<1> HIDE DEF r
<1>2. ASSUME Sorted(r) PROVE Sorted(p) /\ Sorted(e) /\ Before(p, e)
  <2>1. Sorted(p)
    BY <1>1, <1>2 DEF Sorted
  <2>2. ASSUME NEW j \in DOMAIN e, NEW k \in DOMAIN e, j < k PROVE e[j].number < e[k].number
    <3>1. j + Len(p) < k + Len(p)
      BY <1>0, <2>2
    <3> QED
      BY <1>1, <1>2, <3>1 DEF Sorted
  <2>3. ASSUME NEW j \in DOMAIN p, NEW k \in DOMAIN e PROVE p[j].number < e[k].number
    <3>1. j < k + Len(p)
      BY <1>0, <1>1
    <3> QED
      BY <1>1, <1>2, <3>1 DEF Sorted
  <2> QED
    BY <2>1, <2>2, <2>3 DEF Sorted, Before
<1>3. ASSUME Sorted(p), Sorted(e), Before(p, e) PROVE Sorted(r)
  <2> SUFFICES ASSUME NEW j \in DOMAIN r, NEW k \in DOMAIN r, j < k
               PROVE  r[j].number < r[k].number
    BY DEF Sorted
  <2>1. CASE j \in DOMAIN p /\ r[j] = p[j] /\ k \in DOMAIN p /\ r[k] = p[k]
    BY <1>3, <2>1 DEF Sorted
  <2>2. CASE /\ j \in DOMAIN p /\ r[j] = p[j]
             /\ k > Len(p) /\ k - Len(p) \in DOMAIN e /\ r[k] = e[k - Len(p)]
    BY <1>3, <2>2 DEF Before
  <2>3. CASE /\ j > Len(p) /\ j - Len(p) \in DOMAIN e /\ r[j] = e[j - Len(p)]
             /\ k > Len(p) /\ k - Len(p) \in DOMAIN e /\ r[k] = e[k - Len(p)]
    <3>1. j - Len(p) < k - Len(p)
      BY <1>0
    <3> QED
      BY <1>3, <2>3, <3>1 DEF Sorted
  <2>4. ~ (j > Len(p) /\ k \in DOMAIN p)
    BY <1>0, <1>1
  <2> QED
    BY <1>1, <2>1, <2>2, <2>3, <2>4
<1> QED
  BY <1>2, <1>3 DEF r

LEMMA JoinedBefore ==
  ASSUME NEW p \in Seq(Event), NEW e \in Seq(Event), NEW o
  PROVE  Before(o, p \o e) <=> Before(o, p) /\ Before(o, e)
<1> DEFINE r == p \o e
<1>1. /\ \A k \in DOMAIN r : \/ k \in DOMAIN p /\ r[k] = p[k]
                             \/ k > Len(p) /\ k - Len(p) \in DOMAIN e /\ r[k] = e[k - Len(p)]
      /\ \A k \in DOMAIN p : k \in DOMAIN r /\ r[k] = p[k] /\ k <= Len(p)
      /\ \A k \in DOMAIN e : k + Len(p) \in DOMAIN r /\ r[k + Len(p)] = e[k] /\ k + Len(p) > Len(p)
  BY InBoth
<1> HIDE DEF r
<1>2. Before(o, r) => Before(o, p) /\ Before(o, e)
  BY <1>1 DEF Before
<1>3. Before(o, p) /\ Before(o, e) => Before(o, r)
  BY <1>1 DEF Before
<1> QED
  BY <1>2, <1>3 DEF r

\* What the innermost pump has left comes before what is in events_queue.
LEMMA InLinePushed ==
  ASSUME NEW q \in Seq(Frame), NEW f \in Frame, NEW e \in Seq(Event), NEW S
  PROVE  InLine(Append(q, f), e, S) <=> InLine(q, f.queue \o e, S)
<1> DEFINE r == Append(q, f)
           n == Len(q) + 1
<1>1. /\ DOMAIN r = DOMAIN q \cup {n} /\ r[n] = f /\ n \notin DOMAIN q /\ n \in Nat
      /\ \A i \in DOMAIN q : r[i] = q[i] /\ i < n /\ i \in Nat
      /\ f.queue \in Seq(Event)
  <2>1. f.queue \in Seq(Event)
    BY DEF Frame
  <2> QED
    BY <2>1
<1> HIDE DEF r, n
<1>2. Waiting(r) = Waiting(q) \cup Numbers(f.queue)
  <2>1. \A x : x \in Waiting(r) <=> \E i \in DOMAIN r : x \in Numbers(r[i].queue)
    BY DEF Waiting
  <2>2. \A x : x \in Waiting(q) <=> \E i \in DOMAIN q : x \in Numbers(q[i].queue)
    BY DEF Waiting
  <2>3. \A x : x \in Waiting(r) <=> x \in Waiting(q) \/ x \in Numbers(f.queue)
    BY <1>1, <2>1, <2>2
  <2> QED
    BY <2>3
<1>3. Numbers(e) \cup Waiting(r) = Numbers(f.queue \o e) \cup Waiting(q)
  BY <1>1, <1>2, JoinedNumbers
<1>4. Sorted(f.queue \o e) <=> Sorted(f.queue) /\ Sorted(e) /\ Before(f.queue, e)
  BY <1>1, JoinedSorted
<1>5. \A i \in DOMAIN q :
        Before(q[i].queue, f.queue \o e) <=> Before(q[i].queue, f.queue) /\ Before(q[i].queue, e)
  BY <1>1, JoinedBefore
<1>6. ASSUME InLine(r, e, S) PROVE InLine(q, f.queue \o e, S)
  <2>1. Sorted(f.queue \o e)
    BY <1>1, <1>4, <1>6 DEF InLine
  <2>2. \A i \in DOMAIN q : Sorted(q[i].queue) /\ Before(q[i].queue, f.queue \o e)
    BY <1>1, <1>5, <1>6 DEF InLine
  <2>3. \A i, j \in DOMAIN q : i < j => Before(q[i].queue, q[j].queue)
    BY <1>1, <1>6 DEF InLine
  <2>4. Numbers(f.queue \o e) \cup Waiting(q) = S
    BY <1>3, <1>6 DEF InLine
  <2> QED
    BY <2>1, <2>2, <2>3, <2>4 DEF InLine
<1>7. ASSUME InLine(q, f.queue \o e, S) PROVE InLine(r, e, S)
  <2>1. Sorted(e) /\ Sorted(f.queue) /\ Before(f.queue, e)
    BY <1>4, <1>7 DEF InLine
  <2>2. \A i \in DOMAIN r : Sorted(r[i].queue) /\ Before(r[i].queue, e)
    BY <1>1, <1>5, <1>7, <2>1 DEF InLine
  <2>3. ASSUME NEW i \in DOMAIN r, NEW j \in DOMAIN r, i < j PROVE Before(r[i].queue, r[j].queue)
    <3>1. i \in DOMAIN q /\ r[i] = q[i]
      BY <1>1, <2>3
    <3>2. CASE j \in DOMAIN q
      BY <1>1, <1>7, <2>3, <3>1, <3>2 DEF InLine
    <3>3. CASE j = n
      BY <1>1, <1>5, <1>7, <3>1, <3>3 DEF InLine
    <3> QED
      BY <1>1, <3>2, <3>3
  <2>4. Numbers(e) \cup Waiting(r) = S
    BY <1>3, <1>7 DEF InLine
  <2> QED
    BY <2>1, <2>2, <2>3, <2>4 DEF InLine
<1> QED
  BY <1>6, <1>7 DEF r

\* The first event leaves the queue.
LEMMA FirstLeaves ==
  ASSUME NEW q \in Seq(Frame), NEW e \in Seq(Event), NEW S, e # <<>>, InLine(q, e, S)
  PROVE  InLine(q, Tail(e), S \ {Head(e).number})
<1> DEFINE t == Tail(e)
           x == Head(e).number
<1>1. /\ Len(e) \in Nat \ {0} /\ x = e[1].number /\ t \in Seq(Event) /\ Len(t) = Len(e) - 1
      /\ \A k \in 1..(Len(e) - 1) : t[k] = e[k + 1]
  BY HeadTailProperties
<1>2. DOMAIN e = 1..Len(e) /\ DOMAIN t = 1..(Len(e) - 1)
  BY <1>1
<1> HIDE DEF t, x
<1>3. \A k \in DOMAIN t : k + 1 \in DOMAIN e /\ t[k] = e[k + 1] /\ k \in Nat
  BY <1>1, <1>2
<1>4. 1 \in DOMAIN e /\ \A k \in DOMAIN e : k # 1 => 1 < k /\ k - 1 \in DOMAIN t /\ t[k - 1] = e[k]
  <2> SUFFICES ASSUME NEW k \in DOMAIN e, k # 1
               PROVE  1 < k /\ k - 1 \in DOMAIN t /\ t[k - 1] = e[k]
    BY <1>1, <1>2
  <2>1. k - 1 \in 1..(Len(e) - 1) /\ (k - 1) + 1 = k
    BY <1>1, <1>2
  <2> QED
    BY <1>1, <1>2, <2>1
<1>5. \A k \in DOMAIN e : e[k].number \in Nat
  <2>1. \A k \in DOMAIN e : e[k] \in Event
    BY <1>2
  <2> QED
    BY <2>1 DEF Event
<1>6. Sorted(e)
  BY DEF InLine
<1>7. Numbers(t) = Numbers(e) \ {x}
  <2>1. ASSUME NEW k \in DOMAIN t PROVE t[k].number \in Numbers(e) \ {x}
    <3>1. e[1].number < e[k + 1].number
      <4>1. 1 < k + 1
        BY <1>2, <1>3, <2>1
      <4> QED
        BY <1>3, <1>4, <1>6, <4>1 DEF Sorted
    <3>2. e[1].number # e[k + 1].number
      BY <1>3, <1>4, <1>5, <3>1
    <3> QED
      BY <1>1, <1>3, <3>2 DEF Numbers
  <2>2. ASSUME NEW k \in DOMAIN e, e[k].number # x PROVE e[k].number \in Numbers(t)
    <3>1. k # 1
      BY <1>1, <2>2
    <3> QED
      BY <1>4, <3>1 DEF Numbers
  <2> QED
    BY <2>1, <2>2 DEF Numbers
<1>8. x \notin Waiting(q)
  <2> SUFFICES ASSUME NEW i \in DOMAIN q, NEW k \in DOMAIN q[i].queue, q[i].queue[k].number = x
               PROVE  FALSE
    BY DEF Waiting, Numbers
  <2>1. Before(q[i].queue, e)
    BY DEF InLine
  <2>2. q[i].queue[k].number < x
    BY <1>1, <1>4, <2>1 DEF Before
  <2>3. x \in Nat
    BY <1>1, <1>4, <1>5
  <2> QED
    BY <2>2, <2>3
<1>9. Numbers(t) \cup Waiting(q) = S \ {x}
  BY <1>7, <1>8 DEF InLine
<1>10. Sorted(t)
  <2> SUFFICES ASSUME NEW j \in DOMAIN t, NEW k \in DOMAIN t, j < k
               PROVE  t[j].number < t[k].number
    BY DEF Sorted
  <2>1. j + 1 < k + 1
    BY <1>3
  <2> QED
    BY <1>3, <1>6, <2>1 DEF Sorted
<1>11. ASSUME NEW i \in DOMAIN q PROVE Sorted(q[i].queue) /\ Before(q[i].queue, t)
  BY <1>3 DEF InLine, Before
<1>12. InLine(q, t, S \ {x})
  BY <1>9, <1>10, <1>11 DEF InLine
<1> QED
  BY <1>12 DEF t, x

\* A new event comes last.
LEMMA LastJoins ==
  ASSUME NEW q \in Seq(Frame), NEW e \in Seq(Event), NEW S, NEW x \in Event,
         InLine(q, e, S), \A s \in S : s < x.number
  PROVE  InLine(q, Append(e, x), S \cup {x.number})
<1> DEFINE r == Append(e, x)
           n == Len(e) + 1
<1>1. /\ DOMAIN r = DOMAIN e \cup {n} /\ r[n] = x /\ n \in Nat
      /\ \A k \in DOMAIN e : r[k] = e[k] /\ k < n /\ k \in Nat
  OBVIOUS
<1> HIDE DEF r, n
<1>2. Numbers(r) = Numbers(e) \cup {x.number}
  BY <1>1 DEF Numbers
<1>3. Numbers(r) \cup Waiting(q) = S \cup {x.number}
  BY <1>2 DEF InLine
<1>4. Sorted(r)
  <2> SUFFICES ASSUME NEW j \in DOMAIN r, NEW k \in DOMAIN r, j < k
               PROVE  r[j].number < r[k].number
    BY DEF Sorted
  <2>1. j \in DOMAIN e /\ r[j] = e[j]
    BY <1>1
  <2>2. CASE k \in DOMAIN e
    BY <1>1, <2>1, <2>2 DEF InLine, Sorted
  <2>3. CASE k = n
    <3>1. e[j].number \in S
      BY <2>1 DEF InLine, Numbers
    <3> QED
      BY <1>1, <2>1, <2>3, <3>1
  <2> QED
    BY <1>1, <2>2, <2>3
<1>5. ASSUME NEW i \in DOMAIN q PROVE Sorted(q[i].queue) /\ Before(q[i].queue, r)
  <2>1. \A j \in DOMAIN q[i].queue : q[i].queue[j].number \in S
    BY DEF InLine, Waiting, Numbers
  <2> QED
    BY <1>1, <2>1 DEF InLine, Before
<1>6. InLine(q, r, S \cup {x.number})
  BY <1>3, <1>4, <1>5 DEF InLine
<1> QED
  BY <1>6 DEF r

-----------------------------------------------------------------------------
(* Whose event x1 to y2 are of.                                              *)

\* With the pumps q, x is the place of the event whose handlers run, if there is one.
Restores(q, x) ==
  /\ q = <<>> => x = 0
  /\ q # <<>> /\ Last(q).phase \in {"offer", "running"} => x = Last(q).ev.number

\* Every pump of q has kept that for the pumps further out.
Saves(q) ==
  \A n \in DOMAIN q :
    /\ n = 1 => q[n].saved = 0
    /\ n > 1 /\ q[n - 1].phase \in {"offer", "running"} => q[n].saved = q[n - 1].ev.number

\* Nothing is of an event yet to be raised.
Knows(f, n) == f.saved <= n /\ f.ev.number <= n

Kept ==
  /\ taken \subseteq 1..raised /\ x1 <= raised
  /\ InLine(stack, events_queue, 1..raised \ taken)
  /\ Saves(stack) /\ Restores(stack, x1)
  /\ \A i \in DOMAIN stack : Knows(stack[i], raised)
  /\ handlers \in Seq(Configs) /\ value \in Names /\ Len(stack) <= MaxLoop

LEMMA SavesPushed ==
  ASSUME NEW q \in Seq(Frame), NEW f \in Frame
  PROVE  Saves(Append(q, f)) <=> Saves(q) /\ Restores(q, f.saved)
<1> DEFINE r == Append(q, f)
           n == Len(q) + 1
<1>1. /\ DOMAIN r = DOMAIN q \cup {n} /\ r[n] = f /\ n \in Nat /\ DOMAIN q = 1..Len(q)
      /\ n - 1 = Len(q) /\ \A i \in DOMAIN q : r[i] = q[i] /\ i < n /\ i \in Nat
  OBVIOUS
<1> HIDE DEF r
<1>2. \A i \in DOMAIN q : i > 1 => i - 1 \in DOMAIN q
  BY <1>1
<1>3. \A i \in DOMAIN q : r[i] = q[i] /\ (i > 1 => r[i - 1] = q[i - 1])
  BY <1>1, <1>2
<1>4. Saves(r) <=> Saves(q) /\ /\ n = 1 => f.saved = 0
                               /\ n > 1 /\ r[n - 1].phase \in {"offer", "running"} =>
                                    f.saved = r[n - 1].ev.number
  BY <1>1, <1>3 DEF Saves
<1>5. CASE q = <<>>
  <2>1. n = 1
    BY <1>5
  <2> QED
    BY <1>4, <1>5, <2>1 DEF Restores, r
<1>6. CASE q # <<>>
  <2>1. n > 1 /\ n - 1 \in DOMAIN q /\ Last(q) = q[n - 1]
    BY <1>1, <1>6 DEF Last
  <2>2. r[n - 1] = Last(q) /\ n # 1
    BY <1>1, <2>1
  <2> HIDE DEF n
  <2> QED
    BY <1>4, <1>6, <2>1, <2>2 DEF Restores, r
<1> QED
  BY <1>5, <1>6

\* A pump f over those of q.
LEMMA PushedKept ==
  ASSUME NEW q \in Seq(Frame), NEW f \in Frame, stack' = Append(q, f), Len(q) < MaxLoop,
         events_queue' \in Seq(Event), taken' \subseteq 1..raised', x1' <= raised',
         InLine(q, f.queue \o events_queue', 1..raised' \ taken'),
         Saves(q), Restores(q, f.saved), \A i \in DOMAIN q : Knows(q[i], raised'),
         Knows(f, raised'), f.phase \in {"offer", "running"} => x1' = f.ev.number,
         handlers' \in Seq(Configs), value' \in Names
  PROVE  Kept'
<1>1. /\ stack' \in Seq(Frame) /\ stack' # <<>> /\ Last(stack') = f /\ Len(stack') = Len(q) + 1
      /\ \A i \in DOMAIN stack' : \/ stack'[i] = f
                                  \/ i \in DOMAIN q /\ stack'[i] = q[i]
  BY PushedOver
<1>2. InLine(stack', events_queue', 1..raised' \ taken')
  BY InLinePushed
<1>3. Saves(stack')
  BY SavesPushed
<1>4. Restores(stack', x1')
  BY <1>1 DEF Restores
<1>5. \A i \in DOMAIN stack' : Knows(stack'[i], raised')
  BY <1>1
<1>6. Len(stack') <= MaxLoop
  BY <1>1
<1> QED
  BY <1>2, <1>3, <1>4, <1>5, <1>6 DEF Kept

\* The events and places of the innermost pump.
LEMMA TopKept ==
  ASSUME IInv, Kept, stack # <<>>
  PROVE  /\ Outer \in Seq(Frame) /\ Top \in Frame /\ Len(Outer) < MaxLoop
         /\ InLine(Outer, Top.queue \o events_queue, 1..raised \ taken)
         /\ Saves(Outer) /\ Restores(Outer, Top.saved)
         /\ \A i \in DOMAIN Outer : Knows(Outer[i], raised)
         /\ Knows(Top, raised)
         /\ Top.phase \in {"offer", "running"} => x1 = Top.ev.number
<1>1. /\ stack \in Seq(Frame) /\ stack = Append(Outer, Top)
      /\ DOMAIN Outer \subseteq DOMAIN stack /\ Len(stack) \in DOMAIN stack
  BY StackIsPushed DEF IInv, Types
<1>2. /\ Top = stack[Len(stack)] /\ Top \in Frame /\ Outer \in Seq(Frame)
      /\ \A i \in 1..(Len(stack) - 1) : Outer[i] = stack[i]
      /\ Len(stack) \in Nat /\ Len(Outer) = Len(stack) - 1
  BY <1>1, TopOfStack
<1>3. events_queue \in Seq(Event)
  BY DEF IInv, Types
<1>4. InLine(Append(Outer, Top), events_queue, 1..raised \ taken) /\ Saves(Append(Outer, Top))
  BY <1>1, Zenon DEF Kept
<1>5. InLine(Outer, Top.queue \o events_queue, 1..raised \ taken)
  BY <1>2, <1>3, <1>4, InLinePushed
<1>6. Saves(Outer) /\ Restores(Outer, Top.saved)
  BY <1>2, <1>4, SavesPushed
<1>7. Top.phase \in {"offer", "running"} => x1 = Top.ev.number
  BY DEF Kept, Restores, Top
<1>8. Knows(Top, raised)
  BY <1>1, <1>2 DEF Kept
<1>9. \A i \in DOMAIN Outer : Knows(Outer[i], raised)
  <2>1. DOMAIN Outer = 1..(Len(stack) - 1)
    BY <1>2
  <2> QED
    BY <1>1, <1>2, <2>1 DEF Kept
<1>10. Len(Outer) < MaxLoop
  BY <1>2 DEF Kept
<1> QED
  BY <1>2, <1>5, <1>6, <1>7, <1>8, <1>9, <1>10

\* The innermost pump becomes f, with the same events.
LEMMA SameEvents ==
  ASSUME IInv, Kept, stack # <<>>, NEW f \in Frame, stack' = Append(Outer, f),
         f.queue = Top.queue, f.saved = Top.saved, f.ev = Top.ev,
         f.phase \in {"offer", "running"} => x1' = f.ev.number, x1' \in {x1, Top.ev.number},
         UNCHANGED <<raised, taken, events_queue, handlers, value>>
  PROVE  Kept'
<1>1. /\ Outer \in Seq(Frame) /\ Len(Outer) < MaxLoop
      /\ InLine(Outer, Top.queue \o events_queue, 1..raised \ taken)
      /\ Saves(Outer) /\ Restores(Outer, Top.saved)
      /\ \A i \in DOMAIN Outer : Knows(Outer[i], raised)
      /\ Knows(Top, raised)
  BY TopKept
<1>2. Knows(f, raised') /\ x1' <= raised'
  BY <1>1 DEF Knows, Kept
<1>3. InLine(Outer, f.queue \o events_queue', 1..raised' \ taken')
  BY <1>1
<1>4. Restores(Outer, f.saved) /\ \A i \in DOMAIN Outer : Knows(Outer[i], raised')
  BY <1>1
<1>5. /\ events_queue' \in Seq(Event) /\ taken' \subseteq 1..raised'
      /\ handlers' \in Seq(Configs) /\ value' \in Names
  BY DEF Kept, IInv, Types
<1> QED
  BY <1>1, <1>2, <1>3, <1>4, <1>5, PushedKept

LEMMA RaiseKept == ASSUME IInv, Kept, Raise PROVE Kept'
<1> DEFINE S == 1..raised \ taken
<1>1. /\ raised' = raised + 1 /\ raised < MaxEvents /\ raised \in Nat
      /\ UNCHANGED <<taken, handlers, stack, x1, value>>
  BY DEF Raise, IInv, Types
<1>2. PICK n \in Names : events_queue' = Append(events_queue, [number |-> raised', name |-> n])
  BY DEF Raise
<1> DEFINE x == [number |-> raised', name |-> n]
<1>3. x \in Event /\ x.number = raised + 1
  BY <1>1 DEF Event
<1>4. events_queue' = Append(events_queue, x)
  BY <1>2
<1> HIDE DEF x
<1>5. stack \in Seq(Frame) /\ events_queue \in Seq(Event) /\ InLine(stack, events_queue, S)
  BY DEF IInv, Types, Kept
<1>6. \A s \in S : s < x.number
  BY <1>1, <1>3
<1>7. S \cup {x.number} = 1..raised' \ taken'
  <2>1. taken \subseteq 1..raised
    BY DEF Kept
  <2> QED
    BY <1>1, <1>3, <2>1
<1> HIDE DEF S
<1>8. InLine(stack', events_queue', S \cup {x.number})
  BY <1>1, <1>3, <1>4, <1>5, <1>6, LastJoins
<1>9. InLine(stack', events_queue', 1..raised' \ taken')
  BY <1>7, <1>8
<1>10. x1' <= raised' /\ taken' \subseteq 1..raised'
  <2>1. x1 \in Nat
    BY DEF IInv, Types
  <2> QED
    BY <1>1, <2>1 DEF Kept
<1>11. \A i \in DOMAIN stack' : Knows(stack'[i], raised')
  <2> SUFFICES ASSUME NEW i \in DOMAIN stack PROVE Knows(stack[i], raised')
    BY <1>1
  <2>1. stack[i] \in Frame
    BY <1>5
  <2>2. stack[i].saved \in Nat /\ stack[i].ev.number \in Nat
    BY <2>1 DEF Frame, Event, NoEvent
  <2> QED
    BY <1>1, <2>2 DEF Kept, Knows
<1>12. Saves(stack') /\ Restores(stack', x1') /\ Len(stack') <= MaxLoop
  BY <1>1 DEF Kept
<1> QED
  BY <1>1, <1>9, <1>10, <1>11, <1>12 DEF Kept

LEMMA ClearKept == ASSUME IInv, Kept, Clear PROVE Kept'
<1>1. /\ stack = <<>> /\ stack' = <<>> /\ x1' = x1 /\ raised' = 0 /\ taken' = {}
      /\ events_queue' = <<>> /\ handlers' = <<>> /\ value' = value
  BY DEF Clear
<1>2. x1 = 0
  BY <1>1 DEF Kept, Restores
<1>3. DOMAIN stack' = {} /\ DOMAIN events_queue' = {} /\ 1..raised' \ taken' = {}
  BY <1>1
<1>4. InLine(stack', events_queue', 1..raised' \ taken')
  BY <1>3 DEF InLine, Numbers, Waiting, Sorted
<1>5. Saves(stack') /\ Restores(stack', x1')
  BY <1>1, <1>2, <1>3 DEF Saves, Restores
<1>6. handlers' \in Seq(Configs) /\ Len(stack') <= MaxLoop /\ value' \in Names
  BY <1>1 DEF Kept
<1> QED
  BY <1>1, <1>2, <1>3, <1>4, <1>5, <1>6 DEF Kept

LEMMA PumpKept == ASSUME IInv, Kept, Pump PROVE Kept'
<1> DEFINE f == [queue |-> events_queue, saved |-> x1, ev |-> NoEvent, phase |-> "next",
                 main |-> Root, var |-> Root, end |-> 0, cur |-> 0,
                 is_main |-> FALSE, met |-> <<>>]
<1>1. /\ stack' = Append(stack, f) /\ events_queue' = <<>> /\ Len(stack) < MaxLoop
      /\ UNCHANGED <<raised, taken, handlers, x1, value>>
  BY DEF Pump
<1>2. stack \in Seq(Frame) /\ events_queue \in Seq(Event) /\ x1 \in 0..MaxEvents /\ raised \in Nat
  BY DEF IInv, Types
<1>3. /\ f \in Frame /\ f.queue = events_queue /\ f.saved = x1 /\ f.ev.number = 0
      /\ f.phase = "next"
  <2>1. <<>> \in Seq(1..MaxHandlers)
    OBVIOUS
  <2> QED
    BY <1>2, <2>1 DEF Frame, Root, NoEvent
<1> HIDE DEF f
<1>4. f.queue \o events_queue' = events_queue /\ events_queue' \in Seq(Event)
  BY <1>1, <1>2, <1>3
<1>5. InLine(stack, f.queue \o events_queue', 1..raised' \ taken')
  BY <1>1, <1>4 DEF Kept
<1>6. Knows(f, raised') /\ \A i \in DOMAIN stack : Knows(stack[i], raised')
  BY <1>1, <1>2, <1>3 DEF Kept, Knows
<1>7. Saves(stack) /\ Restores(stack, f.saved)
  BY <1>3 DEF Kept
<1>8. /\ taken' \subseteq 1..raised' /\ x1' <= raised'
      /\ handlers' \in Seq(Configs) /\ value' \in Names
  BY <1>1 DEF Kept
<1> QED
  BY <1>1, <1>2, <1>3, <1>4, <1>5, <1>6, <1>7, <1>8, PushedKept

\* The pump begins with its first event, the first of all that wait there.
LEMMA NextEventKept == ASSUME IInv, Kept, NextEvent PROVE Kept'
<1> DEFINE x == Head(Top.queue)
           f == [Top EXCEPT !.queue = Tail(@), !.ev = Head(Top.queue), !.phase = "lua",
                            !.end = 0, !.met = <<>>]
           S == 1..raised \ taken
<1>1. /\ stack # <<>> /\ Top.phase = "next" /\ Top.queue # <<>>
      /\ stack' = Append(Outer, f) /\ taken' = taken \cup {x.number}
      /\ UNCHANGED <<raised, events_queue, handlers, x1, value>>
  BY DEF NextEvent, WithTop, Outer
<1>2. /\ Outer \in Seq(Frame) /\ Top \in Frame /\ Len(Outer) < MaxLoop
      /\ InLine(Outer, Top.queue \o events_queue, S)
      /\ Saves(Outer) /\ Restores(Outer, Top.saved)
      /\ \A i \in DOMAIN Outer : Knows(Outer[i], raised)
      /\ Knows(Top, raised)
  BY <1>1, TopKept
<1>3. Top.queue \in Seq(Event) /\ events_queue \in Seq(Event) /\ raised \in Nat
  <2>1. Top.queue \in Seq(Event)
    BY <1>2 DEF Frame
  <2> QED
    BY <2>1 DEF IInv, Types
<1>4. Tail(Top.queue) \in Seq(Event) /\ x \in Event
  BY <1>1, <1>3, HeadTailProperties
<1>5. /\ f \in Frame /\ f.queue = Tail(Top.queue) /\ f.saved = Top.saved /\ f.ev = x
      /\ f.phase = "lua"
  <2>1. 0 \in 0..MaxHandlers /\ <<>> \in Seq(1..MaxHandlers)
    OBVIOUS
  <2> QED
    BY <1>2, <1>4, <2>1 DEF Frame
<1> HIDE DEF f
<1>6. /\ Top.queue \o events_queue \in Seq(Event) /\ Top.queue \o events_queue # <<>>
      /\ Head(Top.queue \o events_queue) = x
      /\ Tail(Top.queue \o events_queue) = Tail(Top.queue) \o events_queue
  <2> DEFINE p == Top.queue
             e == events_queue
             t == Tail(p)
  <2>1. p \in Seq(Event) /\ e \in Seq(Event) /\ p # <<>> /\ Len(p) \in Nat \ {0} /\ Len(e) \in Nat
    BY <1>1, <1>3
  <2> HIDE DEF p, e
  <2>2. /\ p \o e \in Seq(Event) /\ Len(p \o e) = Len(p) + Len(e)
        /\ \A k \in 1..(Len(p) + Len(e)) : (p \o e)[k] = IF k <= Len(p) THEN p[k] ELSE e[k - Len(p)]
    BY <2>1
  <2>3. p \o e # <<>>
    BY <2>1, <2>2
  <2>4. Head(p \o e) = p[1] /\ Head(p) = p[1]
    <3>1. 1 \in 1..(Len(p) + Len(e)) /\ 1 <= Len(p)
      BY <2>1
    <3>2. (p \o e)[1] = p[1]
      BY <2>2, <3>1
    <3> QED
      BY <2>1, <2>2, <2>3, <3>2
  <2>5. /\ t \in Seq(Event) /\ Len(t) = Len(p) - 1
        /\ \A k \in 1..(Len(p) - 1) : t[k] = p[k + 1]
    BY <2>1, HeadTailProperties
  <2>6. /\ Tail(p \o e) \in Seq(Event) /\ Len(Tail(p \o e)) = Len(p) + Len(e) - 1
        /\ \A k \in 1..(Len(p) + Len(e) - 1) : Tail(p \o e)[k] = (p \o e)[k + 1]
    BY <2>1, <2>2, <2>3, HeadTailProperties
  <2> HIDE DEF t
  <2>7. /\ t \o e \in Seq(Event) /\ Len(t \o e) = Len(p) - 1 + Len(e)
        /\ \A k \in 1..(Len(p) - 1 + Len(e)) :
             (t \o e)[k] = IF k <= Len(p) - 1 THEN t[k] ELSE e[k - (Len(p) - 1)]
    <3>1. /\ t \o e \in Seq(Event) /\ Len(t \o e) = Len(t) + Len(e)
          /\ \A k \in 1..(Len(t) + Len(e)) :
               (t \o e)[k] = IF k <= Len(t) THEN t[k] ELSE e[k - Len(t)]
      <4>1. t \in Seq(Event)
        BY <2>5
      <4> QED
        BY <2>1, <4>1, ConcatProperties
    <3> QED
      BY <2>5, <3>1, Zenon
  <2>8. \A k \in 1..(Len(p) + Len(e) - 1) : Tail(p \o e)[k] = (t \o e)[k]
    <3> SUFFICES ASSUME NEW k \in 1..(Len(p) + Len(e) - 1) PROVE Tail(p \o e)[k] = (t \o e)[k]
      OBVIOUS
    <3>1. /\ k + 1 \in 1..(Len(p) + Len(e)) /\ k \in 1..(Len(p) - 1 + Len(e))
          /\ (k + 1) - Len(p) = k - (Len(p) - 1)
      BY <2>1
    <3>2. CASE k <= Len(p) - 1
      <4>1. k + 1 <= Len(p) /\ k \in 1..(Len(p) - 1)
        BY <2>1, <3>2
      <4> QED
        BY <2>2, <2>5, <2>6, <2>7, <3>1, <3>2, <4>1
    <3>3. CASE ~ (k <= Len(p) - 1)
      <4>1. ~ (k + 1 <= Len(p))
        BY <2>1, <3>3
      <4> QED
        BY <2>2, <2>6, <2>7, <3>1, <3>3, <4>1
    <3> QED
      BY <3>2, <3>3
  <2>9. Tail(p \o e) = t \o e
    <3>1. Len(p) + Len(e) - 1 = Len(p) - 1 + Len(e)
      BY <2>1
    <3> QED
      BY <2>6, <2>7, <2>8, <3>1, SeqEqual
  <2> QED
    BY <2>2, <2>3, <2>4, <2>9 DEF p, e, t
<1>7. InLine(Outer, Tail(Top.queue) \o events_queue, S \ {x.number})
  <2>1. InLine(Outer, Tail(Top.queue \o events_queue), S \ {Head(Top.queue \o events_queue).number})
    BY <1>2, <1>6, FirstLeaves
  <2> QED
    BY <1>6, <2>1
<1>8. x.number \in S
  <2>1. Len(Top.queue) \in Nat \ {0}
    BY <1>1, <1>3
  <2>2. 1 \in DOMAIN Top.queue /\ x = Top.queue[1]
    BY <1>1, <1>3, <2>1
  <2>3. x.number \in Numbers(Top.queue)
    BY <2>2 DEF Numbers
  <2>4. x.number \in Numbers(Top.queue \o events_queue)
    BY <1>3, <2>3, JoinedNumbers
  <2> QED
    BY <1>2, <2>4 DEF InLine
<1>9. taken' \subseteq 1..raised' /\ x1' <= raised'
  BY <1>1, <1>8 DEF Kept
<1>10. S \ {x.number} = 1..raised' \ taken'
  BY <1>1
<1>11. InLine(Outer, f.queue \o events_queue', 1..raised' \ taken')
  BY <1>1, <1>5, <1>7, <1>10
<1>12. Knows(f, raised') /\ \A i \in DOMAIN Outer : Knows(Outer[i], raised')
  BY <1>1, <1>2, <1>3, <1>5, <1>8 DEF Knows
<1>13. /\ events_queue' \in Seq(Event) /\ handlers' \in Seq(Configs) /\ value' \in Names
       /\ Restores(Outer, f.saved)
  BY <1>1, <1>2, <1>3, <1>5 DEF Kept
<1> QED
  BY <1>1, <1>2, <1>5, <1>9, <1>11, <1>12, <1>13, PushedKept

\* What a step makes the innermost pump is a pump.
LEMMA TopIsFrame ==
  ASSUME NEW q \in Seq(Frame), NEW f, stack' = Append(q, f), stack' \in Seq(Frame)
  PROVE  f \in Frame
<1> DEFINE r == Append(q, f)
<1>1. Len(q) \in Nat /\ Len(r) = Len(q) + 1 /\ r[Len(q) + 1] = f
  OBVIOUS
<1> HIDE DEF r
<1>2. r \in Seq(Frame)
  BY DEF r
<1>3. Len(q) + 1 \in 1..Len(r)
  BY <1>1
<1> QED
  BY <1>1, <1>2, <1>3

\* A pump that looks for the next handler keeps its events; as it begins to, x1 to y2
\* become those of its event.
LEMMA OfferKept ==
  ASSUME IInv, IInv', Kept, stack # <<>>, NEW f \in Frame, NEW rc, Offer(f, rc),
         f.queue = Top.queue, f.saved = Top.saved, f.ev = Top.ev, f.phase = Top.phase,
         f.phase \in {"lua", "offer", "running"},
         UNCHANGED <<raised, taken, events_queue, handlers, value>>
  PROVE  Kept'
<1> DEFINE alive == active \cup Held(Outer)
           m == IF f.main = Root THEN Root
                ELSE First({h \in Nodes(rc, f.ev.name) \cap alive : h >= f.main})
           v == IF f.var = Root THEN Root
                ELSE First({h \in Nodes(rc, Variable) \cap alive :
                              h >= f.var /\ (h >= Index(f, m) \/ value = f.ev.name)})
           c == IF Index(f, m) <= Index(f, v) THEN m ELSE v
           g == [f EXCEPT !.phase = "offer", !.main = m, !.var = v, !.cur = c,
                          !.is_main = (c = m), !.met = Append(@, c)]
           e == [f EXCEPT !.phase = "next", !.main = Root, !.var = Root, !.is_main = FALSE]
<1>1. \/ stack' = Append(Outer, g) /\ x1' = IF f.phase = "lua" THEN f.ev.number ELSE x1
      \/ stack' = Append(Outer, e) /\ x1' = x1
  BY DEF Offer, WithTop, Outer
<1> HIDE DEF m, v, c
<1>2. /\ Outer \in Seq(Frame) /\ Top \in Frame /\ stack' \in Seq(Frame)
      /\ Top.phase \in {"offer", "running"} => x1 = Top.ev.number
  BY TopKept DEF IInv, Types
<1>3. CASE stack' = Append(Outer, g) /\ x1' = IF f.phase = "lua" THEN f.ev.number ELSE x1
  <2>1. g \in Frame
    <3> HIDE DEF g
    <3> QED
      BY <1>2, <1>3, TopIsFrame
  <2>2. g.queue = f.queue /\ g.saved = f.saved /\ g.ev = f.ev /\ g.phase = "offer"
    BY DEF Frame
  <2> HIDE DEF g
  <2>3. x1' = g.ev.number /\ x1' \in {x1, Top.ev.number}
    BY <1>2, <1>3, <2>2
  <2> QED
    BY <1>3, <2>1, <2>2, <2>3, SameEvents
<1>4. CASE stack' = Append(Outer, e) /\ x1' = x1
  <2>1. e \in Frame
    <3> HIDE DEF e
    <3> QED
      BY <1>2, <1>4, TopIsFrame
  <2>2. e.queue = f.queue /\ e.saved = f.saved /\ e.ev = f.ev /\ e.phase = "next"
    BY DEF Frame
  <2> HIDE DEF e
  <2> QED
    BY <1>4, <2>1, <2>2, SameEvents
<1> QED
  BY <1>1, <1>3, <1>4

LEMMA IterateKept == ASSUME IInv, IInv', Kept, Iterate PROVE Kept'
<1> DEFINE m == Next1(ref_count, Top.ev.name, Root)
           v == Next1(ref_count, Variable, Root)
           f == [Top EXCEPT !.main = m, !.var = v, !.end = Len(handlers)]
           rc == Moved(Moved(ref_count, Root, m), Root, v)
<1>1. /\ stack # <<>> /\ Top.phase = "lua" /\ Offer(f, rc)
      /\ UNCHANGED <<raised, taken, events_queue, handlers, value>>
  BY DEF Iterate
<1>2. /\ Top \in Frame /\ DOMAIN ref_count \subseteq DOMAIN handlers
      /\ Len(handlers) \in 0..MaxHandlers
  BY <1>1, TopKept DEF IInv, Types
<1>3. m \in 0..MaxHandlers /\ v \in 0..MaxHandlers
  BY <1>2, NextIsHandler
<1> HIDE DEF m, v, rc
<1>4. /\ f \in Frame /\ f.queue = Top.queue /\ f.saved = Top.saved /\ f.ev = Top.ev
      /\ f.phase = Top.phase
  BY <1>2, <1>3 DEF Frame
<1> HIDE DEF f
<1> QED
  BY <1>1, <1>4, OfferKept

LEMMA AdvanceKept ==
  ASSUME IInv, IInv', Kept, stack # <<>>, Top.phase \in {"offer", "running"}, Advance,
         UNCHANGED <<raised, taken, events_queue, handlers, value>>
  PROVE  Kept'
<1> DEFINE m == Next1(ref_count, Top.ev.name, Top.main)
           v == Next1(ref_count, Variable, Top.var)
           f == [Top EXCEPT !.main = m, !.cur = 0]
           g == [Top EXCEPT !.var = v, !.cur = 0]
           r == Moved(ref_count, Top.main, m)
           s == Moved(ref_count, Top.var, v)
<1>1. Offer(f, r) \/ Offer(g, s)
  BY DEF Advance
<1>2. Top \in Frame /\ DOMAIN ref_count \subseteq DOMAIN handlers /\ 0 \in 0..MaxHandlers
  BY TopKept DEF IInv, Types
<1>3. m \in 0..MaxHandlers /\ v \in 0..MaxHandlers
  BY <1>2, NextIsHandler
<1> HIDE DEF m, v, r, s
<1>4. /\ f \in Frame /\ f.queue = Top.queue /\ f.saved = Top.saved /\ f.ev = Top.ev
      /\ f.phase = Top.phase
  BY <1>2, <1>3 DEF Frame
<1>5. /\ g \in Frame /\ g.queue = Top.queue /\ g.saved = Top.saved /\ g.ev = Top.ev
      /\ g.phase = Top.phase
  BY <1>2, <1>3 DEF Frame
<1> HIDE DEF f, g
<1> QED
  BY <1>1, <1>4, <1>5, OfferKept

LEMMA RunKept == ASSUME IInv, Kept, Run PROVE Kept'
<1> DEFINE f == [Top EXCEPT !.phase = "running", !.cur = 0]
           g == [Top EXCEPT !.phase = "running"]
<1>1. /\ stack # <<>> /\ Top.phase = "offer"
      /\ stack' = Append(Outer, f) \/ stack' = Append(Outer, g)
      /\ UNCHANGED <<raised, taken, events_queue, handlers, value, x1>>
  BY DEF Run, WithTop, Outer
<1>2. Top \in Frame /\ x1 = Top.ev.number /\ 0 \in 0..MaxHandlers
  BY <1>1, TopKept
<1>3. f \in Frame /\ f.queue = Top.queue /\ f.saved = Top.saved /\ f.ev = Top.ev
  BY <1>2 DEF Frame
<1>4. g \in Frame /\ g.queue = Top.queue /\ g.saved = Top.saved /\ g.ev = Top.ev
  BY <1>2 DEF Frame
<1> HIDE DEF f, g
<1> QED
  BY <1>1, <1>2, <1>3, <1>4, SameEvents

\* The innermost pump ends and puts x1 to y2 back.
LEMMA PoppedKept ==
  ASSUME IInv, Kept, stack # <<>>, stack' = Outer, x1' = Top.saved,
         InLine(Outer, events_queue', 1..raised \ taken),
         UNCHANGED <<raised, taken, handlers, value>>
  PROVE  Kept'
<1>1. /\ Outer \in Seq(Frame) /\ Len(Outer) < MaxLoop /\ Saves(Outer) /\ Restores(Outer, Top.saved)
      /\ \A i \in DOMAIN Outer : Knows(Outer[i], raised)
      /\ Knows(Top, raised)
  BY TopKept
<1>2. x1' <= raised' /\ Len(stack') <= MaxLoop
  BY <1>1 DEF Knows
<1>3. InLine(stack', events_queue', 1..raised' \ taken')
  OBVIOUS
<1>4. Saves(stack') /\ Restores(stack', x1') /\ \A i \in DOMAIN stack' : Knows(stack'[i], raised')
  BY <1>1
<1> QED
  BY <1>2, <1>3, <1>4 DEF Kept

LEMMA FinishKept == ASSUME IInv, Kept, Finish PROVE Kept'
<1>1. /\ stack # <<>> /\ Top.queue = <<>> /\ stack' = Outer /\ x1' = Top.saved
      /\ UNCHANGED <<raised, taken, events_queue, handlers, value>>
  BY DEF Finish, Outer, Restored
<1>2. InLine(Outer, Top.queue \o events_queue, 1..raised \ taken)
  BY <1>1, TopKept
<1>3. Top.queue \o events_queue = events_queue'
  <2>1. events_queue \in Seq(Event)
    BY DEF IInv, Types
  <2>2. <<>> \o events_queue = events_queue
    BY <2>1
  <2> QED
    BY <1>1, <2>2
<1>4. InLine(Outer, events_queue', 1..raised \ taken)
  BY <1>2, <1>3
<1> QED
  BY <1>1, <1>4, PoppedKept

LEMMA UnwindKept == ASSUME IInv, Kept, Unwind PROVE Kept'
<1>1. /\ stack # <<>> /\ stack' = Outer /\ x1' = Top.saved
      /\ events_queue' = Top.queue \o events_queue
      /\ UNCHANGED <<raised, taken, handlers, value>>
  BY DEF Unwind, Outer, Restored, PutBack, IInv, Thrown
<1>2. InLine(Outer, Top.queue \o events_queue, 1..raised \ taken)
  BY <1>1, TopKept
<1>3. InLine(Outer, events_queue', 1..raised \ taken)
  BY <1>1, <1>2
<1> QED
  BY <1>1, <1>3, PoppedKept

LEMMA AddHandlerKept == ASSUME IInv, Kept, AddHandler PROVE Kept'
<1>1. /\ \E h \in Configs : handlers' = Append(handlers, h)
      /\ UNCHANGED <<raised, taken, events_queue, stack, x1, value>>
  BY DEF AddHandler
<1>2. handlers' \in Seq(Configs)
  BY <1>1 DEF Kept
<1> QED
  BY <1>1, <1>2 DEF Kept

\* Whatever a step does to the events.
LEMMA NextKept == ASSUME IInv, IInv', Kept, [Next]_vars PROVE Kept'
<1>1. CASE UNCHANGED vars \/ RemoveHandler \/ SetVariable \/ Throw
  <2>1. UNCHANGED <<raised, taken, events_queue, handlers, stack, x1>> /\ value' \in Names
    BY <1>1 DEF vars, RemoveHandler, SetVariable, Throw, Kept
  <2> QED
    BY <2>1 DEF Kept
<1>2. CASE Raise \/ AddHandler \/ Clear \/ Pump \/ NextEvent \/ Iterate \/ Run \/ Finish \/ Unwind
  BY <1>2, RaiseKept, AddHandlerKept, ClearKept, PumpKept, NextEventKept, IterateKept, RunKept,
     FinishKept, UnwindKept
<1>3. CASE FilterOut \/ EndRun
  BY <1>3, AdvanceKept DEF FilterOut, EndRun
<1> QED
  BY <1>1, <1>2, <1>3 DEF Next

LEMMA InitKept == ASSUME Init PROVE Kept
<1>1. /\ raised = 0 /\ taken = {} /\ events_queue = <<>> /\ handlers = <<>> /\ stack = <<>>
      /\ x1 = 0 /\ value \in Names
  BY DEF Init
<1>2. DOMAIN stack = {} /\ DOMAIN events_queue = {} /\ 1..raised \ taken = {}
  BY <1>1
<1>3. InLine(stack, events_queue, 1..raised \ taken)
  BY <1>2 DEF InLine, Numbers, Waiting, Sorted
<1>4. Saves(stack) /\ Restores(stack, x1)
  BY <1>1, <1>2 DEF Saves, Restores
<1>5. handlers \in Seq(Configs) /\ Len(stack) <= MaxLoop
  BY <1>1
<1> QED
  BY <1>1, <1>2, <1>3, <1>4, <1>5 DEF Kept

LEMMA KeptIsKept == ASSUME Kept PROVE EventsKept
<1>1. InLine(stack, events_queue, 1..raised \ taken) /\ Restores(stack, x1)
  BY DEF Kept
<1> QED
  BY <1>1 DEF InLine, Waiting, Restores, EventsKept, Top

\* Every event raised waits once and in its place until a pump begins with it, also when
\* pumps are nested, refused or unwound by an exception, and while a handler runs x1 to
\* y2 are of its event (pump_manager).
THEOREM EventsAlwaysKept == Spec => []EventsKept
<1> QED
  BY InitIInv, NextIInv, InitKept, NextKept, KeptIsKept, PTL DEF Spec

LEMMA AllTypes == ASSUME IInv, Linked, Kept PROVE TypeOK
<1>1. /\ raised \in 0..MaxEvents /\ x1 \in 0..MaxEvents /\ events_queue \in Seq(Event)
      /\ active \subseteq DOMAIN handlers /\ id_map \in [Ids -> {0} \cup DOMAIN handlers]
      /\ DOMAIN ref_count \subseteq DOMAIN handlers /\ stack \in Seq(Frame)
      /\ runs \in [1..MaxHandlers -> 0..2] /\ throwing \in BOOLEAN
  BY DEF IInv, Types
<1>2. /\ taken \subseteq 1..raised /\ handlers \in Seq(Configs) /\ value \in Names
      /\ Len(stack) <= MaxLoop
  BY DEF Kept
<1>3. x1 \in 0..raised
  BY <1>1 DEF Kept
<1>4. \A h \in DOMAIN ref_count : ref_count[h] \in Nat \ {0}
  BY DEF Linked, Counts, Needed
<1> QED
  BY <1>1, <1>2, <1>3, <1>4 DEF TypeOK

\* Every variable has its type: pumps are nested at most max_loop deep, and no node has
\* a count of 0.
THEOREM TypesAreRight == Spec => []TypeOK
<1> QED
  BY InitIInv, NextIInv, InitLinks, NextLinks, InitKept, NextKept, AllTypes, PTL DEF Spec

-----------------------------------------------------------------------------
(* The handlers that an event meets.                                        *)

Rising(q) == \A j, k \in DOMAIN q : j < k => q[j] < q[k]

\* Active handlers of the event of the pump f that it did not meet.
Unmet(f, all, act) ==
  {h \in act : h <= f.end /\ all[h].name = f.ev.name /\ h \notin Range(f.met)}

\* The iterator whose handler was met last is there, the other one is further on.
AtMet(f) ==
  /\ f.met # <<>>
  /\ f.is_main => f.main = Last(f.met) /\ (f.var = Root \/ f.var > Last(f.met))
  /\ ~ f.is_main => f.var = Last(f.met) /\ (f.main = Root \/ f.main > Last(f.met))

\* The active handlers of the event that are still to be met are not before its iterator.
Ahead(f, all, act) == \A h \in Unmet(f, all, act) : f.main # Root /\ f.main <= h

\* What the pump f has met, with the handlers all of which those of act are active.
Met(f, all, act) ==
  /\ f.end <= Len(all) /\ Rising(f.met) /\ \A k \in DOMAIN f.met : f.met[k] <= f.end
  /\ f.phase = "next" => Unmet(f, all, act) = {}
  /\ f.phase = "lua" => f.end = 0 /\ f.met = <<>>
  /\ f.phase # "next" => f.ev \in Event
  /\ f.phase \in {"offer", "running"} => AtMet(f) /\ Ahead(f, all, act)

AllMet == \A i \in DOMAIN stack : Met(stack[i], handlers, active)

\* First finds the least.
LEMMA FirstIsLeast ==
  ASSUME NEW S \in SUBSET Nat, NEW x \in S
  PROVE  First(S) \in S /\ First(S) <= x
<1>1. PICK l \in S : \A y \in S : ~ (<<y, l>> \in OpToRel(<, Nat))
  BY NatLessThanWellFounded, WFMin
<1>2. \A y \in S : ~ (y < l)
  BY <1>1 DEF OpToRel
<1>3. \A y \in S : l <= y
  BY <1>2
<1>4. S # {}
  OBVIOUS
<1> QED
  BY <1>3, <1>4 DEF First

\* Handlers are added after those that a pump may meet, and what was removed need not
\* be met.
LEMMA MetStays ==
  ASSUME NEW f \in Frame, NEW all, NEW act, NEW more, NEW still,
         act \subseteq DOMAIN all, still \subseteq Nat, all \in Seq(Handler), more \in Seq(Handler),
         Len(all) <= Len(more), \A h \in DOMAIN all : more[h] = all[h],
         \A h \in still : h \in act \/ h > Len(all),
         Met(f, all, act)
  PROVE  Met(f, more, still)
<1>1. f.end \in Nat /\ f.end <= Len(all)
  BY DEF Met, Frame
<1>2. Unmet(f, more, still) \subseteq Unmet(f, all, act)
  <2> SUFFICES ASSUME NEW h \in still, h <= f.end, more[h].name = f.ev.name,
                      h \notin Range(f.met)
               PROVE  h \in Unmet(f, all, act)
    BY DEF Unmet
  <2>1. h \in act
    <3>1. h \in Nat /\ Len(all) \in Nat
      OBVIOUS
    <3>2. ~ (h > Len(all))
      BY <1>1, <3>1
    <3> QED
      BY <3>2
  <2>2. more[h] = all[h]
    BY <2>1
  <2> QED
    BY <2>1, <2>2 DEF Unmet
<1>3. f.end <= Len(more)
  BY <1>1
<1> QED
  BY <1>2, <1>3 DEF Met, Ahead

\* A pump f over those of q.
LEMMA PushedMet ==
  ASSUME NEW q \in Seq(Frame), NEW f \in Frame, stack' = Append(q, f),
         \A i \in DOMAIN q : Met(q[i], handlers', active'), Met(f, handlers', active')
  PROVE  AllMet'
<1>1. \A i \in DOMAIN stack' : \/ stack'[i] = f
                               \/ i \in DOMAIN q /\ stack'[i] = q[i]
  BY PushedOver
<1> QED
  BY <1>1 DEF AllMet

\* The pumps further out and the innermost one.
LEMMA TopMet ==
  ASSUME IInv, AllMet, stack # <<>>
  PROVE  /\ Outer \in Seq(Frame) /\ Top \in Frame /\ Met(Top, handlers, active)
         /\ \A i \in DOMAIN Outer : Met(Outer[i], handlers, active)
<1>1. stack \in Seq(Frame)
  BY DEF IInv, Types
<1>2. /\ Len(stack) \in Nat \ {0} /\ Top = stack[Len(stack)] /\ Top \in Frame
      /\ Outer \in Seq(Frame) /\ Len(Outer) = Len(stack) - 1
      /\ \A i \in 1..(Len(stack) - 1) : Outer[i] = stack[i]
  BY <1>1, TopOfStack
<1>3. DOMAIN stack = 1..Len(stack) /\ DOMAIN Outer = 1..(Len(stack) - 1)
  BY <1>1, <1>2
<1> QED
  BY <1>2, <1>3 DEF AllMet

\* What was met is still less than a later handler.
LEMMA RisingFurther ==
  ASSUME NEW q \in Seq(Nat), NEW c \in Nat, Rising(q), \A k \in DOMAIN q : q[k] < c
  PROVE  /\ Rising(Append(q, c)) /\ Last(Append(q, c)) = c /\ Append(q, c) # <<>>
         /\ Range(q) \subseteq Range(Append(q, c))
         /\ \A k \in DOMAIN Append(q, c) : \/ k \in DOMAIN q /\ Append(q, c)[k] = q[k]
                                           \/ Append(q, c)[k] = c
<1> DEFINE r == Append(q, c)
           n == Len(q) + 1
<1>1. /\ DOMAIN r = DOMAIN q \cup {n} /\ r[n] = c /\ Len(r) = n /\ n \in Nat /\ n # 0
      /\ \A k \in DOMAIN q : r[k] = q[k] /\ k < n /\ k \in Nat /\ r[k] \in Nat
  OBVIOUS
<1> HIDE DEF r, n
<1>2. Rising(r)
  <2> SUFFICES ASSUME NEW j \in DOMAIN r, NEW k \in DOMAIN r, j < k PROVE r[j] < r[k]
    BY DEF Rising
  <2>1. j \in DOMAIN q
    BY <1>1
  <2>2. CASE k \in DOMAIN q
    BY <1>1, <2>1, <2>2 DEF Rising
  <2>3. CASE k = n
    BY <1>1, <2>1, <2>3
  <2> QED
    BY <1>1, <2>2, <2>3
<1>3. Last(r) = c
  BY <1>1 DEF Last
<1>4. r # <<>>
  BY <1>1
<1>5. Range(q) \subseteq Range(r)
  BY <1>1 DEF Range
<1> QED
  BY <1>1, <1>2, <1>3, <1>4, <1>5 DEF r

\* A pump looks for the next handler: those that it leaves out are dead, or of the other
\* list and no longer named.
LEMMA OfferMeets ==
  ASSUME IInv, IInv', stack # <<>>, NEW f \in Frame, NEW rc, DOMAIN rc \subseteq DOMAIN handlers,
         active \subseteq Found(rc), Offer(f, rc), UNCHANGED <<handlers, active>>,
         f.ev \in Event, f.end <= Len(handlers), Rising(f.met),
         \A k \in DOMAIN f.met : /\ f.met[k] <= f.end
                                 /\ f.main = Root \/ f.met[k] < f.main
                                 /\ f.var = Root \/ f.met[k] < f.var,
         Ahead(f, handlers, active),
         \A i \in DOMAIN Outer : Met(Outer[i], handlers, active)
  PROVE  AllMet'
<1> DEFINE alive == active \cup Held(Outer)
           name  == f.ev.name
           S     == {h \in Nodes(rc, name) \cap alive : h >= f.main}
           m     == IF f.main = Root THEN Root ELSE First(S)
           V     == {h \in Nodes(rc, Variable) \cap alive :
                       h >= f.var /\ (h >= Index(f, m) \/ value = name)}
           v     == IF f.var = Root THEN Root ELSE First(V)
           cur   == IF Index(f, m) <= Index(f, v) THEN m ELSE v
           g     == [f EXCEPT !.phase = "offer", !.main = m, !.var = v, !.cur = cur,
                              !.is_main = (cur = m), !.met = Append(@, cur)]
           e     == [f EXCEPT !.phase = "next", !.main = Root, !.var = Root,
                              !.is_main = FALSE]
<1>1. \/ Index(f, cur) <= f.end /\ stack' = Append(Outer, g)
      \/ ~ (Index(f, cur) <= f.end) /\ stack' = Append(Outer, e)
  <2>1. \/ Index(f, cur) <= f.end /\ stack' = Append(Outer, g)
        \/ Index(f, cur) > f.end /\ stack' = Append(Outer, e)
    BY DEF Offer, WithTop, Outer
  <2>2. f.end \in Nat /\ f.main \in Nat /\ f.var \in Nat
    BY DEF Frame
  <2>3. Index(f, cur) > f.end => ~ (Index(f, cur) <= f.end)
    <3>1. S \in SUBSET Nat /\ V \in SUBSET Nat
      BY DEF Nodes, IInv, Types
    <3>2. m \in Nat
      <4> HIDE DEF S
      <4>1. First(S) \in S \cup {Root}
        BY <3>1, FirstType
      <4>2. Root \in Nat
        BY DEF Root
      <4>3. First(S) \in Nat
        BY <3>1, <4>1, <4>2
      <4> QED
        BY <4>2, <4>3
    <3>3. v \in Nat
      <4> HIDE DEF V, m
      <4>1. First(V) \in V \cup {Root}
        BY <3>1, FirstType
      <4>2. Root \in Nat
        BY DEF Root
      <4>3. First(V) \in Nat
        BY <3>1, <4>1, <4>2
      <4> QED
        BY <4>2, <4>3
    <3> HIDE DEF m, v
    <3> QED
      BY <2>2, <3>2, <3>3 DEF Index
  <2> QED
    BY <2>1, <2>3
<1>2. /\ Outer \in Seq(Frame) /\ DOMAIN handlers \subseteq Nat \ {0}
      /\ active \subseteq DOMAIN handlers /\ stack' \in Seq(Frame)
  BY OuterPumps DEF IInv, Types
<1>3. f.end \in Nat /\ f.main \in Nat /\ f.var \in Nat /\ f.met \in Seq(Nat)
  <2>1. f.met \in Seq(1..MaxHandlers)
    BY DEF Frame
  <2>2. f.met \in Seq(Nat)
    BY <2>1
  <2> QED
    BY <2>2 DEF Frame
<1>4. f.ev.name # Variable
  BY NamesAssumption DEF Event
<1> HIDE DEF alive
<1>5. /\ m # Root => m \in Nat \ {0} /\ f.main # Root /\ f.main <= m /\ handlers[m].name = name
      /\ \A h \in Unmet(f, handlers, active) : h \in Nat \ {0} /\ m # Root /\ m <= h
  <2>1. S \in SUBSET Nat /\ S \subseteq Nat \ {0}
    BY <1>2 DEF Nodes
  <2>2. m # Root => m \in S /\ f.main # Root
    <3> HIDE DEF S
    <3> QED
      BY <2>1, FirstType
  <2>3. ASSUME NEW h \in Unmet(f, handlers, active) PROVE h \in Nat \ {0} /\ m # Root /\ m <= h
    <3>1. f.main # Root /\ f.main <= h /\ h \in active /\ handlers[h].name = name
      BY DEF Ahead, Unmet
    <3>2. h \in Nodes(rc, name) /\ h \in alive /\ h \in Nat \ {0}
      BY <1>2, <3>1 DEF Nodes, Found, alive
    <3>3. h \in S
      BY <1>3, <3>1, <3>2
    <3> HIDE DEF S
    <3>4. m \in S /\ m <= h
      BY <2>1, <3>1, <3>3, FirstIsLeast
    <3> QED
      BY <2>1, <3>2, <3>4 DEF Root
  <2>4. \A x \in S : x \in Nat \ {0} /\ f.main <= x /\ handlers[x].name = name
    BY <1>3, <2>1 DEF Nodes
  <2> HIDE DEF m, S
  <2> QED
    BY <2>2, <2>3, <2>4
<1> HIDE DEF m
<1>6. v # Root => v \in Nat \ {0} /\ f.var # Root /\ f.var <= v /\ handlers[v].name = Variable
  <2>1. V \in SUBSET Nat /\ V \subseteq Nat \ {0}
    BY <1>2 DEF Nodes
  <2>2. v # Root => v \in V /\ f.var # Root
    <3> HIDE DEF V
    <3> QED
      BY <2>1, FirstType
  <2>3. \A x \in V : x \in Nat \ {0} /\ f.var <= x /\ handlers[x].name = Variable
    BY <1>3, <2>1 DEF Nodes
  <2> HIDE DEF v, V
  <2> QED
    BY <2>2, <2>3
<1> HIDE DEF v
<1>7. m # Root /\ v # Root => m # v
  BY <1>4, <1>5, <1>6
<1>8. m \in Nat /\ v \in Nat /\ Root = 0
  BY <1>5, <1>6 DEF Root
<1>9. CASE Index(f, cur) <= f.end /\ stack' = Append(Outer, g)
  <2>1. /\ cur \in Nat \ {0} /\ cur <= f.end
        /\ \/ cur = m /\ m # Root /\ (v = Root \/ v > m)
           \/ cur = v /\ v # Root /\ cur # m /\ (m = Root \/ m > v)
    <3>1. CASE Index(f, m) <= Index(f, v)
      BY <1>3, <1>7, <1>8, <1>9, <3>1 DEF Index
    <3>2. CASE ~ (Index(f, m) <= Index(f, v))
      BY <1>3, <1>7, <1>8, <1>9, <3>2 DEF Index
    <3> QED
      BY <3>1, <3>2
  <2> HIDE DEF cur
  <2>2. g \in Frame
    <3> HIDE DEF g
    <3> QED
      BY <1>2, <1>9, TopIsFrame
  <2>3. /\ g.met = Append(f.met, cur) /\ g.end = f.end /\ g.ev = f.ev /\ g.phase = "offer"
        /\ g.main = m /\ g.var = v /\ (g.is_main <=> cur = m)
    BY DEF Frame
  <2> HIDE DEF g
  <2>4. \A k \in DOMAIN f.met : f.met[k] < cur /\ f.met[k] \in Nat
    <3> SUFFICES ASSUME NEW k \in DOMAIN f.met PROVE f.met[k] < cur /\ f.met[k] \in Nat
      OBVIOUS
    <3>1. f.met[k] \in Nat
      BY <1>3
    <3>2. CASE cur = m /\ m # Root
      BY <1>3, <1>5, <2>1, <3>1, <3>2
    <3>3. CASE cur = v /\ v # Root
      BY <1>3, <1>6, <2>1, <3>1, <3>3
    <3> QED
      BY <2>1, <3>1, <3>2, <3>3
  <2>5. /\ Rising(g.met) /\ Last(g.met) = cur /\ g.met # <<>>
        /\ Range(f.met) \subseteq Range(g.met)
        /\ \A k \in DOMAIN g.met : g.met[k] <= g.end
    <3>1. cur \in Nat
      BY <2>1
    <3>2. /\ Rising(Append(f.met, cur)) /\ Last(Append(f.met, cur)) = cur
          /\ Append(f.met, cur) # <<>> /\ Range(f.met) \subseteq Range(Append(f.met, cur))
          /\ \A k \in DOMAIN Append(f.met, cur) :
               \/ k \in DOMAIN f.met /\ Append(f.met, cur)[k] = f.met[k]
               \/ Append(f.met, cur)[k] = cur
      BY <1>3, <2>4, <3>1, RisingFurther
    <3> QED
      BY <2>1, <2>3, <3>2
  <2>6. AtMet(g)
    BY <1>8, <2>1, <2>3, <2>5 DEF AtMet
  <2>7. Ahead(g, handlers, active)
    <3>1. Unmet(g, handlers, active) \subseteq Unmet(f, handlers, active)
      BY <2>3, <2>5 DEF Unmet
    <3> QED
      BY <1>5, <2>3, <3>1 DEF Ahead
  <2>8. Met(g, handlers', active')
    BY <2>3, <2>5, <2>6, <2>7 DEF Met
  <2> QED
    BY <1>2, <1>9, <2>2, <2>8, PushedMet
<1>10. CASE ~ (Index(f, cur) <= f.end) /\ stack' = Append(Outer, e)
  <2>1. ASSUME NEW h \in Unmet(f, handlers, active) PROVE FALSE
    <3>1. m # Root /\ m <= h /\ h <= f.end /\ h \in Nat
      BY <1>5 DEF Unmet
    <3>2. Index(f, m) = m /\ m <= f.end
      BY <1>3, <1>8, <3>1 DEF Index
    <3>3. Index(f, v) \in Nat
      BY <1>3, <1>8 DEF Index
    <3>4. cur = m \/ (cur = v /\ ~ (Index(f, m) <= Index(f, v)))
      OBVIOUS
    <3> HIDE DEF cur
    <3> QED
      BY <1>3, <1>8, <1>10, <3>2, <3>3, <3>4
  <2> HIDE DEF cur
  <2>2. e \in Frame
    <3> HIDE DEF e
    <3> QED
      BY <1>2, <1>10, TopIsFrame
  <2>3. e.met = f.met /\ e.end = f.end /\ e.ev = f.ev /\ e.phase = "next"
    BY DEF Frame
  <2> HIDE DEF e
  <2>4. Unmet(e, handlers, active) = {}
    BY <2>1, <2>3 DEF Unmet
  <2>5. Met(e, handlers', active')
    BY <2>3, <2>4 DEF Met
  <2> QED
    BY <1>2, <1>10, <2>2, <2>5, PushedMet
<1> QED
  BY <1>1, <1>9, <1>10

\* An iterator goes to the next node that is found.
LEMMA NextIsNext ==
  ASSUME NEW rc, DOMAIN rc \in SUBSET (Nat \ {0}), \A h \in DOMAIN rc : rc[h] \in Nat,
         NEW name, NEW p \in Nat
  PROVE  LET n == Next1(rc, name, p) IN
         /\ n \in Nat /\ (n # Root => n > p)
         /\ \A h \in Found(rc) : handlers[h].name = name /\ h > p => n # Root /\ n <= h
<1> DEFINE S == {h \in Nodes(rc, name) : h > p /\ ~Flagged(rc, h)}
           n == First(S)
<1>1. Next1(rc, name, p) = n
  BY DEF Next1
<1>2. S \in SUBSET Nat /\ \A h \in S : h > p /\ h # Root
  BY DEF Nodes, Root
<1>3. \A h \in Found(rc) : handlers[h].name = name /\ h > p => h \in S
  <2>1. \A c \in Nat : c % 2 = 1 => c % 2 # 0
    OBVIOUS
  <2> QED
    BY <2>1 DEF Found, Nodes, Flagged
<1> HIDE DEF S
<1>4. n \in S \cup {Root}
  BY <1>2, FirstType
<1>5. \A h \in S : n \in S /\ n <= h
  BY <1>2, FirstIsLeast
<1> HIDE DEF n
<1>6. n \in Nat /\ (n # Root => n > p)
  BY <1>2, <1>4 DEF Root
<1>7. \A h \in Found(rc) : handlers[h].name = name /\ h > p => n # Root /\ n <= h
  BY <1>2, <1>3, <1>5
<1> QED
  BY <1>1, <1>6, <1>7

\* The last that was met is the greatest.
LEMMA LastIsMost ==
  ASSUME NEW q \in Seq(Nat), Rising(q), q # <<>>
  PROVE  Last(q) \in Range(q) /\ Last(q) \in Nat /\ \A k \in DOMAIN q : q[k] <= Last(q)
<1>1. Len(q) \in DOMAIN q /\ DOMAIN q = 1..Len(q) /\ Last(q) = q[Len(q)]
  BY DEF Last
<1>2. Last(q) \in Range(q) /\ Last(q) \in Nat
  BY <1>1 DEF Range
<1>3. ASSUME NEW k \in DOMAIN q PROVE q[k] <= Last(q)
  <2>1. CASE k = Len(q)
    BY <1>1, <1>2, <2>1
  <2>2. CASE k # Len(q)
    <3>1. k < Len(q) /\ q[k] \in Nat
      BY <1>1, <2>2
    <3>2. q[k] < Last(q)
      BY <1>1, <3>1 DEF Rising
    <3> QED
      BY <1>2, <3>1, <3>2
  <2> QED
    BY <2>1, <2>2
<1> QED
  BY <1>2, <1>3

\* The iteration begins with all handlers ahead.
LEMMA IterateMeets == ASSUME IInv, IInv', Linked, AllMet, Iterate PROVE AllMet'
<1> DEFINE m == Next1(ref_count, Top.ev.name, Root)
           v == Next1(ref_count, Variable, Root)
           f == [Top EXCEPT !.main = m, !.var = v, !.end = Len(handlers)]
           r == Moved(ref_count, Root, m)
           s == Moved(r, Root, v)
<1>1. stack # <<>> /\ Top.phase = "lua" /\ Offer(f, s) /\ UNCHANGED <<handlers, active>>
  BY DEF Iterate
<1>2. /\ Outer \in Seq(Frame) /\ Top \in Frame /\ Met(Top, handlers, active)
      /\ \A i \in DOMAIN Outer : Met(Outer[i], handlers, active)
  BY <1>1, TopMet
<1>3. Top.ev \in Event /\ Top.met = <<>>
  BY <1>1, <1>2 DEF Met
<1>4. /\ AtNodes(ref_count, Outer, Root, Root) /\ Counts(ref_count, Outer, Root, Root)
      /\ active \subseteq Found(ref_count)
  BY <1>1, TopCounted DEF Placed, Linked
<1>5. /\ DOMAIN ref_count \subseteq DOMAIN handlers /\ Len(handlers) \in 0..MaxHandlers
      /\ DOMAIN handlers = 1..Len(handlers) /\ active \subseteq DOMAIN handlers
  BY DEF IInv, Types
<1>6. DOMAIN ref_count \in SUBSET (Nat \ {0}) /\ \A h \in DOMAIN ref_count : ref_count[h] \in Nat
  BY <1>4, <1>5 DEF Counts
<1>7. Root \in Nat /\ Root = 0
  BY DEF Root
<1>8. /\ m \in 0..MaxHandlers /\ v \in 0..MaxHandlers
      /\ m \in Found(ref_count) \cup {Root} /\ v \in Found(ref_count) \cup {Root}
  <2>1. m \in 0..MaxHandlers /\ v \in 0..MaxHandlers
    BY <1>5, NextIsHandler
  <2>2. DOMAIN ref_count \subseteq Nat
    BY <1>6
  <2>3. m \in Found(ref_count) \cup {Root} /\ v \in Found(ref_count) \cup {Root}
    BY <1>6, <2>2, NextIsFound
  <2> QED
    BY <2>1, <2>3
<1>9. \A h \in Found(ref_count) : handlers[h].name = Top.ev.name /\ h > Root => m # Root /\ m <= h
  BY <1>6, <1>7, NextIsNext
<1> HIDE DEF m, v
<1>10. /\ AtNodes(r, Outer, m, Root) /\ Counts(r, Outer, m, Root)
       /\ DOMAIN r \subseteq DOMAIN ref_count /\ Found(ref_count) \subseteq Found(r)
  <2>1. m \in DOMAIN ref_count \cup {Root}
    BY <1>8 DEF Found
  <2> QED
    BY <1>2, <1>4, <2>1, MovedCounts
<1> HIDE DEF r
<1>11. DOMAIN s \subseteq DOMAIN r /\ Found(r) \subseteq Found(s)
  <2>1. v \in DOMAIN r \cup {Root}
    BY <1>8, <1>10 DEF Found
  <2>2. AtNodes(r, Outer, Root, m) /\ Counts(r, Outer, Root, m)
    BY <1>2, <1>10, CountsTurned
  <2> QED
    BY <1>2, <2>1, <2>2, MovedCounts
<1> HIDE DEF s
<1>12. /\ f \in Frame /\ f.main = m /\ f.ev = Top.ev /\ f.met = <<>> /\ f.end = Len(handlers)
  BY <1>2, <1>3, <1>5, <1>8 DEF Frame
<1> HIDE DEF f
<1>13. Ahead(f, handlers, active)
  <2> SUFFICES ASSUME NEW h \in active, handlers[h].name = Top.ev.name PROVE m # Root /\ m <= h
    BY <1>12 DEF Ahead, Unmet
  <2>1. h > Root
    BY <1>5, <1>7
  <2> QED
    BY <1>4, <1>9, <2>1
<1>14. Rising(f.met) /\ DOMAIN f.met = {} /\ f.end <= Len(handlers)
  BY <1>5, <1>12 DEF Rising
<1>15. DOMAIN s \subseteq DOMAIN handlers /\ active \subseteq Found(s)
  BY <1>4, <1>5, <1>10, <1>11
<1> QED
  BY <1>1, <1>2, <1>3, <1>12, <1>13, <1>14, <1>15, OfferMeets

\* The pump goes on in the list that its handler came from.
LEMMA AdvanceMeets ==
  ASSUME IInv, IInv', Linked, AllMet, stack # <<>>, Top.phase \in {"offer", "running"}, Advance,
         UNCHANGED <<handlers, active>>
  PROVE  AllMet'
<1> DEFINE m == Next1(ref_count, Top.ev.name, Top.main)
           v == Next1(ref_count, Variable, Top.var)
           f == [Top EXCEPT !.main = m, !.cur = 0]
           g == [Top EXCEPT !.var = v, !.cur = 0]
           r == Moved(ref_count, Top.main, m)
           s == Moved(ref_count, Top.var, v)
           p == Last(Top.met)
<1>1. \/ Top.is_main /\ Offer(f, r)
      \/ ~ Top.is_main /\ Offer(g, s)
  BY DEF Advance
<1>2. /\ Outer \in Seq(Frame) /\ Top \in Frame /\ Met(Top, handlers, active)
      /\ \A i \in DOMAIN Outer : Met(Outer[i], handlers, active)
  BY TopMet
<1>3. /\ Top.ev \in Event /\ Rising(Top.met) /\ Top.end <= Len(handlers)
      /\ \A k \in DOMAIN Top.met : Top.met[k] <= Top.end
      /\ Top.met # <<>> /\ Ahead(Top, handlers, active)
      /\ Top.is_main => Top.main = p /\ (Top.var = Root \/ Top.var > p)
      /\ ~ Top.is_main => Top.var = p /\ (Top.main = Root \/ Top.main > p)
  BY <1>2 DEF Met, AtMet
<1>4. /\ AtNodes(ref_count, Outer, Top.main, Top.var)
      /\ Counts(ref_count, Outer, Top.main, Top.var)
      /\ active \subseteq Found(ref_count)
  BY TopCounted DEF Linked
<1>5. /\ DOMAIN ref_count \subseteq DOMAIN handlers /\ DOMAIN handlers \in SUBSET (Nat \ {0})
      /\ active \subseteq DOMAIN handlers
  BY DEF IInv, Types
<1>6. DOMAIN ref_count \in SUBSET (Nat \ {0}) /\ \A h \in DOMAIN ref_count : ref_count[h] \in Nat
  BY <1>4, <1>5 DEF Counts
<1>7. Top.main \in Nat /\ Top.var \in Nat /\ Top.end \in Nat /\ Top.met \in Seq(Nat)
  <2>1. Top.met \in Seq(1..MaxHandlers)
    BY <1>2 DEF Frame
  <2>2. Top.met \in Seq(Nat)
    BY <2>1
  <2> QED
    BY <1>2, <2>2 DEF Frame
<1>8. /\ p \in Range(Top.met) /\ p \in Nat
      /\ \A k \in DOMAIN Top.met : Top.met[k] <= p /\ Top.met[k] \in Nat
  BY <1>3, <1>7, LastIsMost
<1>9. /\ m \in Nat /\ (m # Root => m > Top.main) /\ v \in Nat /\ (v # Root => v > Top.var)
      /\ \A h \in Found(ref_count) :
           handlers[h].name = Top.ev.name /\ h > Top.main => m # Root /\ m <= h
  BY <1>6, <1>7, NextIsNext
<1>10. /\ m \in DOMAIN ref_count \cup {Root} /\ v \in DOMAIN ref_count \cup {Root}
       /\ m \in 0..MaxHandlers /\ v \in 0..MaxHandlers
  <2>1. m \in 0..MaxHandlers /\ v \in 0..MaxHandlers
    BY <1>5, NextIsHandler
  <2>2. DOMAIN ref_count \subseteq Nat
    BY <1>6
  <2>3. m \in Found(ref_count) \cup {Root} /\ v \in Found(ref_count) \cup {Root}
    BY <1>6, <2>2, NextIsFound
  <2> HIDE DEF m, v
  <2> QED
    BY <2>1, <2>3 DEF Found
<1> HIDE DEF m, v, p
<1>11. CASE Top.is_main /\ Offer(f, r)
  <2>1. DOMAIN r \subseteq DOMAIN ref_count /\ Found(ref_count) \subseteq Found(r)
    BY <1>2, <1>4, <1>10, MovedCounts
  <2> HIDE DEF r
  <2>2. /\ f \in Frame /\ f.main = m /\ f.var = Top.var /\ f.met = Top.met /\ f.ev = Top.ev
        /\ f.end = Top.end
    <3>1. 0 \in 0..MaxHandlers
      OBVIOUS
    <3> QED
      BY <1>2, <1>10, <3>1 DEF Frame
  <2> HIDE DEF f
  <2>3. \A k \in DOMAIN f.met : /\ f.met[k] <= f.end
                                /\ f.main = Root \/ f.met[k] < f.main
                                /\ f.var = Root \/ f.met[k] < f.var
    BY <1>3, <1>7, <1>8, <1>9, <1>11, <2>2
  <2>4. Ahead(f, handlers, active)
    <3> SUFFICES ASSUME NEW h \in Unmet(f, handlers, active) PROVE m # Root /\ m <= h
      BY <2>2 DEF Ahead
    <3>1. h \in Unmet(Top, handlers, active) /\ h \in active /\ handlers[h].name = Top.ev.name
      BY <2>2 DEF Unmet
    <3>2. Top.main <= h /\ h # p
      BY <1>3, <1>8, <3>1 DEF Ahead, Unmet
    <3>3. h > Top.main
      BY <1>3, <1>5, <1>7, <1>11, <3>1, <3>2
    <3> QED
      BY <1>4, <1>9, <3>1, <3>3
  <2>5. DOMAIN r \subseteq DOMAIN handlers /\ active \subseteq Found(r)
    BY <1>4, <1>5, <2>1
  <2>6. f.ev \in Event /\ f.end <= Len(handlers) /\ Rising(f.met)
    BY <1>3, <2>2
  <2> QED
    BY <1>2, <1>11, <2>2, <2>3, <2>4, <2>5, <2>6, OfferMeets
<1>12. CASE ~ Top.is_main /\ Offer(g, s)
  <2>1. DOMAIN s \subseteq DOMAIN ref_count /\ Found(ref_count) \subseteq Found(s)
    <3>1. /\ AtNodes(ref_count, Outer, Top.var, Top.main)
          /\ Counts(ref_count, Outer, Top.var, Top.main)
      BY <1>2, <1>4, CountsTurned
    <3> QED
      BY <1>2, <1>10, <3>1, MovedCounts
  <2> HIDE DEF s
  <2>2. /\ g \in Frame /\ g.var = v /\ g.main = Top.main /\ g.met = Top.met /\ g.ev = Top.ev
        /\ g.end = Top.end
    <3>1. 0 \in 0..MaxHandlers
      OBVIOUS
    <3> QED
      BY <1>2, <1>10, <3>1 DEF Frame
  <2> HIDE DEF g
  <2>3. \A k \in DOMAIN g.met : /\ g.met[k] <= g.end
                                /\ g.main = Root \/ g.met[k] < g.main
                                /\ g.var = Root \/ g.met[k] < g.var
    BY <1>3, <1>7, <1>8, <1>9, <1>12, <2>2
  <2>4. Ahead(g, handlers, active)
    BY <1>3, <2>2 DEF Ahead, Unmet
  <2>5. DOMAIN s \subseteq DOMAIN handlers /\ active \subseteq Found(s)
    BY <1>4, <1>5, <2>1
  <2>6. g.ev \in Event /\ g.end <= Len(handlers) /\ Rising(g.met)
    BY <1>3, <2>2
  <2> QED
    BY <1>2, <1>12, <2>2, <2>3, <2>4, <2>5, <2>6, OfferMeets
<1> QED
  BY <1>1, <1>11, <1>12

\* Where pumps stay or end, handlers are only added and removed.
LEMMA FewerMeet ==
  ASSUME IInv, IInv', AllMet, NEW q \in Seq(Frame), stack' = q,
         \A i \in DOMAIN q : i \in DOMAIN stack /\ q[i] = stack[i],
         Len(handlers) <= Len(handlers'), \A h \in DOMAIN handlers : handlers'[h] = handlers[h],
         \A h \in active' : h \in active \/ h > Len(handlers)
  PROVE  AllMet'
<1>1. /\ stack \in Seq(Frame) /\ active \subseteq DOMAIN handlers /\ active' \subseteq Nat
      /\ handlers \in Seq(Handler) /\ handlers' \in Seq(Handler)
  BY DEF IInv, Types
<1>2. ASSUME NEW i \in DOMAIN q PROVE Met(q[i], handlers', active')
  <2>1. q[i] \in Frame /\ Met(q[i], handlers, active)
    BY DEF AllMet
  <2> QED
    BY <1>1, <2>1, MetStays
<1> QED
  BY <1>2 DEF AllMet

LEMMA AddHandlerMeets == ASSUME IInv, IInv', AllMet, AddHandler PROVE AllMet'
<1>1. PICK h \in Configs :
        /\ handlers' = Append(handlers, h)
        /\ active' = active \cup {Len(handlers')}
        /\ stack' = stack
  BY DEF AddHandler
<1>2. stack \in Seq(Frame) /\ handlers \in Seq(Handler)
  BY DEF IInv, Types
<1>3. /\ Len(handlers') = Len(handlers) + 1 /\ Len(handlers) \in Nat
      /\ \A i \in DOMAIN handlers : handlers'[i] = handlers[i]
  BY <1>1, <1>2
<1>4. \A i \in active' : i \in active \/ i > Len(handlers)
  BY <1>1, <1>3
<1>5. Len(handlers) <= Len(handlers')
  BY <1>3
<1> QED
  BY <1>1, <1>2, <1>3, <1>4, <1>5, FewerMeet

\* The innermost pump becomes f, others stay.
LEMMA TopBecomes ==
  ASSUME IInv, IInv', AllMet, stack # <<>>, NEW f, stack' = Append(Outer, f),
         handlers' = handlers, active' \subseteq active,
         f \in Frame => Met(f, handlers, active)
  PROVE  AllMet'
<1>1. /\ Outer \in Seq(Frame)
      /\ \A i \in DOMAIN Outer : Met(Outer[i], handlers, active)
  BY TopMet
<1>2. /\ active \subseteq DOMAIN handlers /\ active' \subseteq Nat /\ handlers \in Seq(Handler)
      /\ stack' \in Seq(Frame) /\ Len(handlers) <= Len(handlers)
  BY DEF IInv, Types
<1>3. f \in Frame
  BY <1>1, <1>2, TopIsFrame
<1>4. Met(f, handlers', active')
  BY <1>2, <1>3, MetStays
<1>5. ASSUME NEW i \in DOMAIN Outer PROVE Met(Outer[i], handlers', active')
  <2>1. Outer[i] \in Frame
    BY <1>1
  <2> QED
    BY <1>1, <1>2, <2>1, MetStays
<1> QED
  BY <1>1, <1>3, <1>4, <1>5, PushedMet

LEMMA PumpMeets == ASSUME IInv, IInv', AllMet, Pump PROVE AllMet'
<1> DEFINE f == [queue |-> events_queue, saved |-> x1, ev |-> NoEvent, phase |-> "next",
                 main |-> Root, var |-> Root, end |-> 0, cur |-> 0,
                 is_main |-> FALSE, met |-> <<>>]
<1>1. stack' = Append(stack, f) /\ UNCHANGED <<handlers, active>>
  BY DEF Pump
<1>2. /\ stack \in Seq(Frame) /\ stack' \in Seq(Frame) /\ active \subseteq Nat \ {0}
      /\ Len(handlers) \in Nat
  BY DEF IInv, Types
<1>3. f.met = <<>> /\ f.end = 0 /\ f.phase = "next"
  OBVIOUS
<1> HIDE DEF f
<1>4. f \in Frame
  BY <1>1, <1>2, TopIsFrame
<1>5. Rising(f.met) /\ DOMAIN f.met = {}
  BY <1>3 DEF Rising
<1>6. Unmet(f, handlers, active) = {}
  <2>1. \A h \in active : ~ (h <= f.end)
    <3>1. \A n \in Nat \ {0} : ~ (n <= 0)
      OBVIOUS
    <3> QED
      BY <1>2, <1>3, <3>1
  <2> QED
    BY <2>1 DEF Unmet
<1>7. Met(f, handlers', active')
  BY <1>1, <1>2, <1>3, <1>5, <1>6 DEF Met
<1>8. \A i \in DOMAIN stack : Met(stack[i], handlers', active')
  BY <1>1 DEF AllMet
<1> QED
  BY <1>1, <1>2, <1>4, <1>7, <1>8, PushedMet

LEMMA NextEventMeets == ASSUME IInv, IInv', AllMet, NextEvent PROVE AllMet'
<1> DEFINE f == [Top EXCEPT !.queue = Tail(@), !.ev = Head(Top.queue), !.phase = "lua",
                            !.end = 0, !.met = <<>>]
<1>1. /\ stack # <<>> /\ Top.queue # <<>> /\ stack' = Append(Outer, f)
      /\ UNCHANGED <<handlers, active>>
  BY DEF NextEvent, WithTop, Outer
<1>2. Top \in Frame /\ Len(handlers) \in Nat
  BY <1>1, TopMet DEF IInv, Types
<1>3. Head(Top.queue) \in Event
  BY <1>1, <1>2, HeadTailProperties DEF Frame
<1>4. f.met = <<>> /\ f.end = 0 /\ f.phase = "lua" /\ f.ev \in Event
  BY <1>2, <1>3 DEF Frame
<1> HIDE DEF f
<1>5. Met(f, handlers, active)
  <2>1. Rising(f.met) /\ DOMAIN f.met = {}
    BY <1>4 DEF Rising
  <2> QED
    BY <1>2, <1>4, <2>1 DEF Met
<1> QED
  BY <1>1, <1>5, TopBecomes

LEMMA RunMeets == ASSUME IInv, IInv', AllMet, Run PROVE AllMet'
<1> DEFINE f == [Top EXCEPT !.phase = "running", !.cur = 0]
           g == [Top EXCEPT !.phase = "running"]
<1>1. /\ stack # <<>> /\ Top.phase = "offer"
      /\ stack' = Append(Outer, f) \/ stack' = Append(Outer, g)
      /\ handlers' = handlers /\ active' \subseteq active
  BY DEF Run, WithTop, Outer
<1>2. Top \in Frame /\ Met(Top, handlers, active)
  BY <1>1, TopMet
<1>3. /\ f.main = Top.main /\ f.var = Top.var /\ f.met = Top.met /\ f.ev = Top.ev
      /\ f.end = Top.end /\ f.is_main = Top.is_main /\ f.phase = "running"
  BY <1>2 DEF Frame
<1>4. /\ g.main = Top.main /\ g.var = Top.var /\ g.met = Top.met /\ g.ev = Top.ev
      /\ g.end = Top.end /\ g.is_main = Top.is_main /\ g.phase = "running"
  BY <1>2 DEF Frame
<1> HIDE DEF f, g
<1>5. Met(f, handlers, active)
  BY <1>1, <1>2, <1>3 DEF Met, AtMet, Ahead, Unmet
<1>6. Met(g, handlers, active)
  BY <1>1, <1>2, <1>4 DEF Met, AtMet, Ahead, Unmet
<1> QED
  BY <1>1, <1>5, <1>6, TopBecomes

\* Whatever a step does to what is met.
LEMMA NextMeets == ASSUME IInv, IInv', Linked, AllMet, [Next]_vars PROVE AllMet'
<1>1. /\ stack \in Seq(Frame) /\ Len(handlers) \in Nat
  BY DEF IInv, Types
<1>2. CASE UNCHANGED vars \/ Raise \/ RemoveHandler \/ SetVariable \/ Throw
  <2>1. stack' = stack /\ handlers' = handlers /\ active' \subseteq active
    BY <1>2 DEF vars, Raise, RemoveHandler, SetVariable, Throw
  <2>2. Len(handlers) <= Len(handlers') /\ \A h \in DOMAIN handlers : handlers'[h] = handlers[h]
    BY <1>1, <2>1
  <2> QED
    BY <1>1, <2>1, <2>2, FewerMeet
<1>3. CASE Finish \/ Unwind
  <2>1. stack # <<>> /\ stack' = Outer /\ handlers' = handlers /\ active' = active
    BY <1>3 DEF Finish, Unwind, Outer, IInv, Thrown
  <2>2. \A i \in DOMAIN Outer : Met(Outer[i], handlers, active)
    BY <2>1, TopMet
  <2> QED
    BY <2>1, <2>2 DEF AllMet
<1>4. CASE Clear
  <2>1. stack' = <<>>
    BY <1>4 DEF Clear
  <2> QED
    BY <2>1 DEF AllMet
<1>5. CASE AddHandler \/ Pump \/ NextEvent \/ Iterate \/ Run
  BY <1>5, AddHandlerMeets, PumpMeets, NextEventMeets, IterateMeets, RunMeets
<1>6. CASE FilterOut \/ EndRun
  BY <1>6, AdvanceMeets DEF FilterOut, EndRun
<1> QED
  BY <1>2, <1>3, <1>4, <1>5, <1>6 DEF Next

LEMMA InitMeets == ASSUME Init PROVE AllMet
BY DEF Init, AllMet

LEMMA MetMeets == ASSUME AllMet PROVE MeetsHandlers
<1> SUFFICES ASSUME NEW i \in DOMAIN stack
             PROVE  LET f == stack[i]
                    IN  /\ \A j, k \in DOMAIN f.met : j < k => f.met[j] < f.met[k]
                        /\ \A k \in DOMAIN f.met : f.met[k] <= f.end
                        /\ f.phase = "next" =>
                             \A h \in active : h <= f.end /\ handlers[h].name = f.ev.name =>
                                                 h \in Range(f.met)
  BY DEF MeetsHandlers
<1> DEFINE f == stack[i]
<1>1. Met(f, handlers, active)
  BY DEF AllMet
<1> HIDE DEF f
<1>2. \A j, k \in DOMAIN f.met : j < k => f.met[j] < f.met[k]
  BY <1>1 DEF Met, Rising
<1>3. \A k \in DOMAIN f.met : f.met[k] <= f.end
  BY <1>1 DEF Met
<1>4. f.phase = "next" => \A h \in active : h <= f.end /\ handlers[h].name = f.ev.name =>
                                               h \in Range(f.met)
  BY <1>1 DEF Met, Unmet
<1> QED
  BY <1>2, <1>3, <1>4, Zenon DEF f

\* An event meets its handlers in the order in which they were added, each once, and of
\* those that were there when its turn came all that were not removed before, whatever
\* handlers and nested pumps add, remove and pass (manager::iteration).
THEOREM HandlersAreMet == Spec => []MeetsHandlers
<1> QED
  BY InitIInv, NextIInv, InitLinks, NextLinks, InitMeets, NextMeets, MetMeets, PTL DEF Spec
=============================================================================
