------------------------ MODULE RemoteTurnLog_proofs ------------------------
(***************************************************************************)
(* The game of the machines of RemoteTurn as one log of commands and        *)
(* answers: the inductive invariant IInv, the stages that the game goes     *)
(* through along the log, and what a machine does at its place in it.  A    *)
(* machine has played a beginning of the log, what waits in its inbox comes *)
(* next, and what was not sent is the end of it that only the machine whose *)
(* turn it is has.  The actions and the theorems are in RemoteTurn_proofs.  *)
(***************************************************************************)
EXTENDS RemoteTurn, TLAPS, SequenceTheorems, FiniteSetTheorems, WellFoundedInduction

\* What the theorems ask of the constants: who may leave has one side at most.
OneSideEach == \A s1, s2 \in Side : Home[s1] = Home[s2] /\ Home[s1] \in MayLeave => s1 = s2

\* What the bound of seeds in TypeOK asks of them: a command asks the server once at most,
\* init_side does not.
OneSeed ==
  /\ \A kind \in Kinds : \A script \in Scripts[kind] : \A i, j \in DOMAIN script :
        script[i] = Server /\ script[j] = Server => i = j
  /\ \A script \in Scripts["init_side"] : \A i \in DOMAIN script : script[i] # Server

-----------------------------------------------------------------------------
(* Types. *)

Asks    == Side \cup {Server}
Things  == Kinds \cup {"choice", "seed"}
Happens == [kind : Things, by : Machine \cup Nat, side : Asks]
Entries == [kind : Things, by : Machine \cup Nat, side : Asks, script : Seq(Asks), sent : BOOLEAN]
Runs    == [kind : Kinds \cup {None}, left : Seq(Asks), phase : {"idle", "look", "pull"},
            simul : BOOLEAN, seeded : BOOLEAN, local : BOOLEAN, required : BOOLEAN]
States  == [rec : Seq(Entries), pos : Nat, upto : Nat, game : Seq(Happens), undo : Nat,
            run : Runs, turn : Side, inited : BOOLEAN, owner : [Side -> Machine],
            mode : [Side -> {"human", "ai", "idle"}], expect : Side \cup {None}]
Messages == [what : {"entry"}, body : Entries]
              \cup [what : {"control"}, body : [side : Side, owner : Machine]]
              \cup [what : {"side_drop"}, body : [side : Side]]
Stages == [turn : Side, inited : BOOLEAN, kind : Kinds \cup {None}, left : Seq(Asks),
           begin : Nat, undo : Nat, remote : BOOLEAN, cmds : Nat, big : Nat, seeds : Nat]

-----------------------------------------------------------------------------
(* The log of the game: what all machines play, and the stages that it goes        *)
(* through.                                                                        *)

Rests(s) == s.left = <<>>
Actor(s) == IF Rests(s) THEN s.turn ELSE Head(s.left)
Writer(s) == IF Actor(s) = Server THEN s.turn ELSE Actor(s)

Base == [turn |-> 1, inited |-> TRUE, kind |-> None, left |-> <<>>, begin |-> 0, undo |-> 0,
         remote |-> FALSE, cmds |-> 0, big |-> 0, seeds |-> 0]

\* After the i-th entry e.
NextLeft(s, e)   == IF Rests(s) THEN e.script ELSE Tail(s.left)
NextKind(s, e)   == IF Rests(s) THEN e.kind ELSE s.kind
NextRemote(s)    == ~Rests(s) /\ (s.remote \/ Head(s.left) # s.turn)
NextInited(s, e) == s.inited \/ (Rests(s) /\ e.kind = "init_side")
NextUndo(s, e)   == IF Rests(s) /\ e.kind = "end_turn" THEN 0 ELSE s.undo

After(s, e, i) ==
  [turn   |-> IF NextLeft(s, e) = <<>> /\ NextKind(s, e) = "end_turn"
              THEN (s.turn % LastSide) + 1 ELSE s.turn,
   inited |-> IF NextLeft(s, e) = <<>> /\ NextKind(s, e) = "end_turn"
              THEN FALSE ELSE NextInited(s, e),
   kind   |-> IF NextLeft(s, e) = <<>> THEN None ELSE NextKind(s, e),
   left   |-> NextLeft(s, e),
   begin  |-> IF Rests(s) THEN i ELSE s.begin,
   undo   |-> IF NextLeft(s, e) = <<>>
              THEN IF NextKind(s, e) = "move" /\ ~NextRemote(s) THEN NextUndo(s, e) + 1 ELSE 0
              ELSE IF Head(NextLeft(s, e)) = s.turn THEN NextUndo(s, e) ELSE 0,
   remote |-> NextLeft(s, e) # <<>> /\ NextRemote(s),
   cmds   |-> IF Rests(s) THEN s.cmds + 1 ELSE s.cmds,
   big    |-> IF Rests(s) /\ e.kind # "init_side" THEN s.big + 1 ELSE s.big,
   seeds  |-> IF ~Rests(s) /\ e.kind = "seed" THEN s.seeds + 1 ELSE s.seeds]

\* The entry that may come at this stage.
Fitting(s, e) ==
  /\ e.sent
  /\ IF Rests(s)
     THEN /\ e.kind \in Kinds /\ e.side = s.turn /\ e.by \in Machine
          /\ e.kind = "init_side" <=> ~s.inited
          /\ e.script \in Scripts[e.kind]
     ELSE /\ e.script = <<>> /\ e.side = Head(s.left)
          /\ IF Head(s.left) = Server THEN e.kind = "seed" /\ e.by \in Nat
                                      ELSE e.kind = "choice" /\ e.by \in Machine

AsksServer(l) == \E j \in DOMAIN l : l[j] = Server

\* A command at stage s began behind stage p.
Within(s, p) ==
  /\ p.turn = s.turn /\ (s.kind # "init_side" => p.inited = s.inited)
  /\ ~s.remote => s.seeds = p.seeds
  /\ ~s.remote /\ Head(s.left) = s.turn /\ s.kind # "end_turn" => s.undo = p.undo

\* Each seed has a command of its own.
Drawn(s) == OneSeed =>
  /\ s.seeds + (IF AsksServer(s.left) THEN 1 ELSE 0) <= s.big
  /\ \A j1, j2 \in DOMAIN s.left : s.left[j1] = Server /\ s.left[j2] = Server => j1 = j2

\* What holds of the i-th stage.
Counts(L, S, i) ==
  LET s == S[i] IN
  /\ s.undo + (IF s.kind = "move" THEN 1 ELSE 0) <= s.big
  /\ s.big <= s.cmds /\ s.big <= MaxCommands
  /\ Drawn(s)
  /\ s.cmds = Cardinality({j \in 1..i : L[j].kind \in Kinds})
  /\ \A j \in 0..i : S[j].cmds <= s.cmds
Shapes(s) ==
  /\ ~s.inited => Rests(s) /\ s.undo = 0
  /\ s.remote => s.undo = 0 /\ ~Rests(s)
  /\ Rests(s) <=> s.kind = None
  /\ ~Rests(s) /\ Head(s.left) # s.turn => s.undo = 0
  /\ s.kind = "end_turn" => s.undo = 0
Begun(L, S, i) ==
  LET s == S[i] b == S[i].begin IN
  /\ ~Rests(s) \/ s.undo > 0 => i > 0
  /\ i > 0 => /\ b \in 1..i /\ L[b].kind \in Kinds /\ \A j \in b+1..i : L[j].kind \notin Kinds
              /\ Rests(S[b - 1]) /\ s.cmds = S[b - 1].cmds + 1
  /\ ~Rests(s) => L[b].kind = s.kind /\ Within(s, S[b - 1])
  /\ Rests(s) /\ s.undo > 0 =>
       /\ L[b].kind = "move" /\ s.undo = S[b - 1].undo + 1
       /\ S[b - 1].turn = s.turn /\ S[b - 1].inited = s.inited /\ S[b - 1].seeds = s.seeds
Sound(L, S, i) == Counts(L, S, i) /\ Shapes(S[i]) /\ Begun(L, S, i)

Log(L, S) ==
  /\ L \in Seq(Entries) /\ S \in [0..Len(L) -> Stages] /\ S[0] = Base
  /\ \A i \in 1..Len(L) : S[i] = After(S[i - 1], L[i], i) /\ Fitting(S[i - 1], L[i])
  /\ \A i \in 0..Len(L) : Sound(L, S, i)

-----------------------------------------------------------------------------
(* A machine m with state r and inbox q, which has a message about a side at k, 0  *)
(* if none; C entries of the log were sent, and F says who has a side in the end.  *)

Same(e, f) == e.kind = f.kind /\ e.by = f.by /\ e.side = f.side /\ e.script = f.script

Own(m, r, s) == r.owner[s] = m
GapAt(r, k)  == Len(r.rec) + k - 1
Index(r, k, j) == IF k = 0 \/ j < k THEN Len(r.rec) + j ELSE Len(r.rec) + j - 1
Total(r, q, k) == IF k = 0 THEN Len(r.rec) + Len(q) ELSE Len(r.rec) + Len(q) - 1
\* Who m thinks has side s when it reads the entry after the i-th.
OwnAt(m, r, k, F, i, s) == IF k # 0 /\ i >= GapAt(r, k) THEN F[s] = m ELSE Own(m, r, s)

Keeps(r, L) ==
  /\ Len(r.rec) <= Len(L) /\ \A i \in 1..Len(r.rec) : Same(r.rec[i], L[i])
  /\ r.pos <= Len(r.rec) /\ Len(r.rec) <= r.pos + 1
  /\ Len(r.rec) = r.pos + 1 => r.run.phase = "pull"
  /\ Len(r.game) = r.pos /\ \A i \in 1..r.pos : r.game[i] = Event(L[i])

Stands(r, s) ==
  /\ r.turn = s.turn /\ r.inited = s.inited /\ r.run.kind = s.kind /\ r.run.left = s.left
  /\ Idle(r) <=> Rests(s)
  /\ Idle(r) => r.run = NoRun
  /\ r.undo <= s.undo
  /\ s.remote \/ r.run.phase = "pull" => r.run.simul
  /\ r.run.seeded => s.remote
  /\ r.run.phase = "look" => ~r.run.local /\ ~r.run.required
  /\ r.run.local \/ r.run.required => ~Rests(s) /\ Head(s.left) = Server

Inbox(r, q, k, L) ==
  /\ k \in 0..Len(q)
  /\ k # 0 => q[k].what \in {"control", "side_drop"}
  /\ \A j \in 1..Len(q) : j # k => Index(r, k, j) <= Len(L) /\ q[j] = Message("entry", L[Index(r, k, j)])

Sent(r, q, k, L, C) ==
  /\ r.upto <= C /\ r.upto <= Len(r.rec)
  /\ \A i \in 1..Len(r.rec) : IF i <= C THEN i <= r.upto \/ r.rec[i].sent ELSE ~r.rec[i].sent
  /\ \/ Total(r, q, k) = C
     \/ Total(r, q, k) = Len(L) /\ Len(r.rec) = Len(L) /\ r.pos = Len(L) /\ r.run.phase # "pull"

Pending(m, r, k, L, S, F) ==
  /\ \A i \in r.pos..Len(L)-1 : Actor(S[i]) # Server => ~OwnAt(m, r, k, F, i, Actor(S[i]))
  /\ \A i \in r.pos+1..Len(L)-1 : Actor(S[i]) = Server => ~OwnAt(m, r, k, F, i, S[i].turn)
  /\ r.run.phase = "look" /\ Actor(S[r.pos]) = Server /\ Own(m, r, r.turn) => r.pos = Len(L)
  /\ r.run.local /\ ~r.run.required => r.pos = Len(L) /\ F[r.turn] = m

Held(m, r, k, F, h) ==
  \A s \in Side : Own(m, r, s) /\ F[s] # m =>
    /\ m = h /\ k = 1 /\ r.mode[s] = "idle" /\ r.pos = Len(r.rec)
    /\ \/ r.run.phase = "pull" /\ r.expect = s /\ Head(r.run.left) = s
       \/ Idle(r) /\ r.turn = s

Stacked(m, r, L, S, C, F, h) ==
  LET s == S[r.pos] IN
  Own(m, r, r.turn) /\ F[r.turn] = m =>
    /\ r.run.simul => s.remote \/ Actor(s) # s.turn
    /\ m \notin cleared \cup {h} => r.undo = s.undo
    /\ r.pos = Len(L) /\ ~r.run.simul =>
         r.undo + S[C].cmds + (IF Rests(s) THEN 0 ELSE 1) <= s.cmds

Mach(m, r, q, k, L, S, C, F, h) ==
  /\ Keeps(r, L) /\ Stands(r, S[r.pos]) /\ Inbox(r, q, k, L) /\ Sent(r, q, k, L, C)
  /\ Pending(m, r, k, L, S, F) /\ Held(m, r, k, F, h) /\ Stacked(m, r, L, S, C, F, h)

-----------------------------------------------------------------------------
(* All machines: t are their states, q their inboxes, g the places of the messages *)
(* about sides, n the seeds drawn, u the machines in the game, h the host.         *)

Ahead(w, t, q, L, S, C, F, g, u) ==
  /\ w \in u /\ Total(t[w], q[w], g[w]) = Len(L)
  /\ \A m \in u \ {w} : Total(t[m], q[m], g[m]) = C
  /\ \A i \in C..Len(L)-1 : /\ Own(w, t[w], S[i].turn) /\ F[S[i].turn] = w
                            /\ Actor(S[i]) = S[i].turn
Leads(t, q, L, S, C, F, g, u) ==
  /\ C \in 0..Len(L)
  /\ \A i \in C..Len(L) : S[i].seeds = S[C].seeds
  /\ Len(L) > C => \E w \in u : Ahead(w, t, q, L, S, C, F, g, u)

Settled(t, S, C, F, u, h) ==
  /\ S[C].undo > 0 => LET w == F[S[C].turn] IN
                        w \in u /\ w \in cleared \cup {h} /\ Own(w, t[w], S[C].turn)
  /\ ~Rests(S[C]) => S[C].remote \/ Actor(S[C]) # S[C].turn

Present(F, u, h) ==
  /\ h \in u /\ u \subseteq Machine /\ (u = Machine \/ \E x \in MayLeave \ {h} : u = Machine \ {x})
  /\ F \in [Side -> Machine]
  /\ \A s \in Side : (Home[s] \in u => F[s] = Home[s]) /\ (F[s] \in u \/ F[s] = Home[s])

\* Messages about sides: the side is one that was dropped.
Dropped(m, t, q, L, S, F, g, u, h) ==
  g[m] # 0 =>
    LET msg == q[m][g[m]] s == q[m][g[m]].body.side IN
    /\ s \in Side /\ Home[s] \notin u
    /\ msg.what = "control" => msg.body.owner = F[s] /\ F[s] \in u
    /\ msg.what = "side_drop" =>
         /\ m = h /\ F[s] = Home[s]
         /\ \A x \in u : (x # m => g[x] = 0) /\ t[x].owner[s] = Home[s]
         /\ \A i \in GapAt(t[m], g[m])..Len(L)-1 : Writer(S[i]) # s
Views(m, r, q, k, F, u, h) ==
  /\ \A s \in Side : Home[s] \in u => r.owner[s] = Home[s]
  /\ m # h => \A s \in Side : r.mode[s] # "ai"
  /\ \A s \in Side : \/ k # 0 /\ q[k].what = "control" /\ q[k].body.side = s
                     \/ Own(m, r, s) <=> F[s] = m

World(t, q, n, u, h, L, S, C, F, g) ==
  /\ t \in [Machine -> States] /\ q \in [Machine -> Seq(Messages)] /\ g \in [Machine -> Nat]
  /\ Log(L, S) /\ n = S[Len(L)].seeds
  /\ Leads(t, q, L, S, C, F, g, u) /\ Settled(t, S, C, F, u, h) /\ Present(F, u, h)
  /\ \A m \in u : /\ Mach(m, t[m], q[m], g[m], L, S, C, F, h)
                  /\ Dropped(m, t, q, L, S, F, g, u, h)
                  /\ Views(m, t[m], q[m], g[m], F, u, h)

IInv == /\ error = {} /\ host \in Hosts
        /\ \E L, S, C, F, g : World(st, inbox, seeds, up, host, L, S, C, F, g)

\* The world after a step that leaves cleared alone.
LEMMA WorldNow ==
  ASSUME \E L, S, C, F, g : World(st', inbox', seeds', up', host', L, S, C, F, g),
         cleared' = cleared, error' = {}, host' \in Hosts
  PROVE  IInv'
<1> PICK L, S, C, F, g : World(st', inbox', seeds', up', host', L, S, C, F, g)
  OBVIOUS
<1>1. Settled(st', S, C, F, up', host') => Settled(st, S, C, F, up, host)'
  BY DEF Settled
<1>2. ASSUME NEW m \in up', Mach(m, st'[m], inbox'[m], g[m], L, S, C, F, host')
      PROVE  Mach(m, st[m], inbox[m], g[m], L, S, C, F, host)'
  BY <1>2 DEF Mach, Stacked
<1>3. World(st, inbox, seeds, up, host, L, S, C, F, g)'
  BY <1>1, <1>2 DEF World
<1> QED
  BY <1>3 DEF IInv

-----------------------------------------------------------------------------
(* What the operators of a command do to the fields of a state.                    *)

LEMMA StateFields ==
  ASSUME NEW r \in States
  PROVE  /\ r.rec \in Seq(Entries) /\ r.pos \in Nat /\ r.upto \in Nat /\ r.game \in Seq(Happens)
         /\ r.undo \in Nat /\ r.run \in Runs /\ r.turn \in Side /\ r.inited \in BOOLEAN
         /\ r.owner \in [Side -> Machine] /\ r.mode \in [Side -> {"human", "ai", "idle"}]
         /\ r.expect \in Side \cup {None}
         /\ r.run.kind \in Kinds \cup {None} /\ r.run.left \in Seq(Asks)
         /\ r.run.phase \in {"idle", "look", "pull"} /\ r.run.simul \in BOOLEAN
         /\ r.run.seeded \in BOOLEAN /\ r.run.local \in BOOLEAN /\ r.run.required \in BOOLEAN
BY DEF States, Runs

LEMMA EntryFields ==
  ASSUME NEW e \in Entries
  PROVE  /\ e.kind \in Things /\ e.by \in Machine \cup Nat /\ e.side \in Asks
         /\ e.script \in Seq(Asks) /\ e.sent \in BOOLEAN
         /\ Event(e) \in Happens /\ Event(e).kind = e.kind /\ Event(e).by = e.by /\ Event(e).side = e.side
         /\ Received(e) \in Entries /\ Same(Received(e), e) /\ Received(e).sent
<1>1. /\ e.kind \in Things /\ e.by \in Machine \cup Nat /\ e.side \in Asks
      /\ e.script \in Seq(Asks) /\ e.sent \in BOOLEAN
  BY DEF Entries
<1>2. Event(e) \in Happens /\ Event(e).kind = e.kind /\ Event(e).by = e.by /\ Event(e).side = e.side
  BY <1>1 DEF Event, Happens
<1>3. Received(e) \in Entries
  BY Zenon DEF Received, Entries
<1>4. Same(Received(e), e) /\ Received(e).sent
  BY Zenon DEF Received, Entries, Same
<1> QED
  BY <1>1, <1>2, <1>3, <1>4

LEMMA SameEntry ==
  ASSUME NEW e \in Entries, NEW f \in Entries, Same(e, f), e.sent = f.sent
  PROVE  e = f
BY DEF Entries, Same

LEMMA SideIs == Side \in SUBSET (Nat \ {0}) /\ 1 \in Side /\ \A s \in Side : (s % LastSide) + 1 \in Side
  BY RemoteAssumption DEF Side

LEMMA NoRunIs ==
  /\ NoRun \in Runs /\ NoRun.kind = None /\ NoRun.left = <<>> /\ NoRun.phase = "idle"
  /\ ~NoRun.simul /\ ~NoRun.seeded /\ ~NoRun.local /\ ~NoRun.required
BY DEF NoRun, Runs

\* What a command does not touch.
Untouched(t, r) ==
  /\ t.rec = r.rec /\ t.upto = r.upto
  /\ t.owner = r.owner /\ t.mode = r.mode /\ t.expect = r.expect

EndTurn(r)   == (r.turn % LastSide) + 1
ComputerAt(m, r) == r.owner[r.turn] = m /\ r.mode[r.turn] = "ai"

SeededBy(r, e) == r.run.seeded \/ e.kind = "seed"

LEMMA EndedIs ==
  ASSUME NEW r \in States, NEW m
  PROVE  /\ Ended(m, r) \in States /\ Untouched(Ended(m, r), r)
         /\ Ended(m, r).pos = r.pos /\ Ended(m, r).game = r.game
         /\ Ended(m, r).undo = IF CanUndo(m, r) THEN r.undo + 1 ELSE 0
         /\ Ended(m, r).turn = IF r.run.kind = "end_turn" THEN EndTurn(r) ELSE r.turn
         /\ Ended(m, r).inited = IF r.run.kind = "end_turn" THEN FALSE ELSE r.inited
         /\ Ended(m, r).run = NoRun
<1> DEFINE t == Ended(m, r)
<1>0. r.undo \in Nat /\ r.turn \in Side
  BY StateFields
<1>1. r.undo + 1 \in Nat /\ EndTurn(r) \in Side
  <2>1. (r.turn % LastSide) + 1 \in Side
    BY <1>0, SideIs, Zenon
  <2> QED
    BY <1>0, <2>1 DEF EndTurn
<1>2. NoRun \in Runs
  BY NoRunIs
<1>3. t \in States
  BY <1>1, <1>2, Zenon DEF Ended, States, EndTurn
<1>4. t.rec = r.rec /\ t.upto = r.upto /\ t.owner = r.owner /\ t.mode = r.mode /\ t.expect = r.expect
  BY Zenon DEF Ended, States
<1>5. t.pos = r.pos /\ t.game = r.game /\ t.run = NoRun
  BY Zenon DEF Ended, States
<1>6. t.undo = IF CanUndo(m, r) THEN r.undo + 1 ELSE 0
  BY Zenon DEF Ended, States
<1>7. t.turn = IF r.run.kind = "end_turn" THEN EndTurn(r) ELSE r.turn
  BY Zenon DEF Ended, States, EndTurn
<1>8. t.inited = IF r.run.kind = "end_turn" THEN FALSE ELSE r.inited
  BY Zenon DEF Ended, States
<1> QED
  BY <1>3, <1>4, <1>5, <1>6, <1>7, <1>8 DEF Untouched

LEMMA LooksIs ==
  ASSUME NEW r \in States, NEW m, r.run.left # <<>>
  PROVE  LET t == GoesOn(m, r) IN
         /\ t \in States /\ Untouched(t, r)
         /\ t.pos = r.pos /\ t.game = r.game /\ t.undo = Commits(r)
         /\ t.turn = r.turn /\ t.inited = r.inited
         /\ t.run.kind = r.run.kind /\ t.run.left = r.run.left /\ t.run.phase = "look"
         /\ t.run.simul = r.run.simul /\ t.run.seeded = r.run.seeded
         /\ ~t.run.local /\ ~t.run.required
<1> DEFINE t == GoesOn(m, r)
           u == [r.run EXCEPT !.phase = "look", !.local = FALSE, !.required = FALSE]
<1>1. Commits(r) \in Nat /\ r.run \in Runs
  BY StateFields DEF Commits
<1>2. u \in Runs
  BY <1>1, Zenon DEF Runs
<1>3. /\ u.kind = r.run.kind /\ u.left = r.run.left /\ u.phase = "look" /\ u.simul = r.run.simul
      /\ u.seeded = r.run.seeded /\ u.local = FALSE /\ u.required = FALSE
  BY <1>1, Zenon DEF Runs
<1>4. t = [r EXCEPT !.undo = Commits(r), !.run = u]
  BY Zenon DEF GoesOn, States
<1> HIDE DEF u, t
<1>5. t \in States
  BY <1>1, <1>2, <1>4, Zenon DEF States
<1>6. t.rec = r.rec /\ t.upto = r.upto /\ t.owner = r.owner /\ t.mode = r.mode /\ t.expect = r.expect
  BY <1>4, Zenon DEF States
<1>7. /\ t.pos = r.pos /\ t.game = r.game /\ t.undo = Commits(r) /\ t.turn = r.turn
      /\ t.inited = r.inited /\ t.run = u
  BY <1>4, Zenon DEF States
<1> QED
  BY <1>3, <1>5, <1>6, <1>7 DEF Untouched, t

\* What is left to undo when the command e begins, and whether the side is ready.
UndoBy(m, r, e) == IF e.kind = "end_turn" \/ ComputerAt(m, r) THEN 0 ELSE r.undo
InitedBy(r, e)  == r.inited \/ e.kind = "init_side"

\* The fields behind the command e.
BeginsFields(m, r, e, t) ==
  /\ t \in States /\ Untouched(t, r)
  /\ t.pos = r.pos + 1 /\ t.game = Append(r.game, Event(e))
  /\ e.script = <<>> =>
       /\ t.undo = IF e.kind = "move" /\ ~ComputerAt(m, r) THEN UndoBy(m, r, e) + 1 ELSE 0
       /\ t.turn = IF e.kind = "end_turn" THEN EndTurn(r) ELSE r.turn
       /\ t.inited = IF e.kind = "end_turn" THEN FALSE ELSE InitedBy(r, e)
       /\ t.run = NoRun
  /\ e.script # <<>> =>
       /\ t.undo = IF Head(e.script) = r.turn THEN UndoBy(m, r, e) ELSE 0
       /\ t.turn = r.turn /\ t.inited = InitedBy(r, e)
       /\ t.run.kind = e.kind /\ t.run.left = e.script /\ t.run.phase = "look"
       /\ ~t.run.simul /\ ~t.run.seeded /\ ~t.run.local /\ ~t.run.required

LEMMA BeginsIs ==
  ASSUME NEW r \in States, NEW m, NEW e \in Entries, e.kind \in Kinds
  PROVE  BeginsFields(m, r, e, Begins(m, r, e))
<1>a. UndoBy(m, r, e) \in Nat /\ InitedBy(r, e) \in BOOLEAN
  BY StateFields DEF UndoBy, InitedBy
<1> DEFINE u == [NoRun EXCEPT !.kind = e.kind, !.left = e.script]
           v == [r EXCEPT !.pos = r.pos + 1, !.game = Append(r.game, Event(e)), !.undo = UndoBy(m, r, e),
                          !.inited = InitedBy(r, e), !.run = u]
           t == Begins(m, r, e)
<1>1. /\ NoRun \in Runs /\ e.kind \in Kinds \cup {None} /\ e.script \in Seq(Asks)
      /\ r.pos + 1 \in Nat /\ Append(r.game, Event(e)) \in Seq(Happens)
  BY NoRunIs, EntryFields, StateFields
<1>2. u \in Runs
  BY <1>1, Zenon DEF Runs
<1>3a. /\ u.kind = e.kind /\ u.left = e.script /\ u.phase = NoRun.phase /\ u.simul = NoRun.simul
      /\ u.seeded = NoRun.seeded /\ u.local = NoRun.local /\ u.required = NoRun.required
  BY <1>1, Zenon DEF Runs
<1>3. /\ u.kind = e.kind /\ u.left = e.script /\ ~u.simul
      /\ ~u.seeded /\ ~u.local /\ ~u.required
  BY <1>3a, NoRunIs
<1>4. t = GoesOn(m, v)
  BY Zenon DEF Begins, ComputerAt, UndoBy, InitedBy
<1> HIDE DEF u, t
<1>5. v \in States
  BY <1>a, <1>1, <1>2, Zenon DEF States
<1>6. v.rec = r.rec /\ v.upto = r.upto /\ v.owner = r.owner /\ v.mode = r.mode /\ v.expect = r.expect
  BY Zenon DEF States
<1>7. /\ v.pos = r.pos + 1 /\ v.game = Append(r.game, Event(e)) /\ v.undo = UndoBy(m, r, e) /\ v.turn = r.turn
      /\ v.inited = InitedBy(r, e) /\ v.run = u
  BY Zenon DEF States
<1> HIDE DEF v
<1>8. CASE e.script = <<>>
  <2>1. t = Ended(m, v)
    BY <1>3, <1>4, <1>7, <1>8 DEF GoesOn
  <2>2. CanUndo(m, v) <=> e.kind = "move" /\ ~ComputerAt(m, r)
    BY <1>3, <1>6, <1>7 DEF CanUndo, ComputerAt
  <2>3. EndTurn(v) = EndTurn(r)
    BY <1>7 DEF EndTurn
  <2>4. /\ t \in States /\ Untouched(t, v)
        /\ t.pos = v.pos /\ t.game = v.game
        /\ t.undo = IF CanUndo(m, v) THEN v.undo + 1 ELSE 0
        /\ t.turn = IF v.run.kind = "end_turn" THEN EndTurn(v) ELSE v.turn
        /\ t.inited = IF v.run.kind = "end_turn" THEN FALSE ELSE v.inited
        /\ t.run = NoRun
    <3>1. /\ Ended(m, v) \in States /\ Untouched(Ended(m, v), v)
          /\ Ended(m, v).pos = v.pos /\ Ended(m, v).game = v.game
          /\ Ended(m, v).undo = IF CanUndo(m, v) THEN v.undo + 1 ELSE 0
          /\ Ended(m, v).turn = IF v.run.kind = "end_turn" THEN EndTurn(v) ELSE v.turn
          /\ Ended(m, v).inited = IF v.run.kind = "end_turn" THEN FALSE ELSE v.inited
          /\ Ended(m, v).run = NoRun
      BY <1>5, EndedIs, Zenon
    <3> QED
      BY <2>1, <3>1, Zenon
  <2> QED
    BY <1>3, <1>6, <1>7, <1>8, <2>2, <2>3, <2>4 DEF Untouched, t, BeginsFields
<1>9. CASE e.script # <<>>
  <2>1. v.run.left # <<>>
    BY <1>3, <1>7, <1>9
  <2>2. Commits(v) = IF Head(e.script) = r.turn THEN UndoBy(m, r, e) ELSE 0
    BY <1>3, <1>7 DEF Commits, Asked
  <2>3. /\ t \in States /\ Untouched(t, v)
        /\ t.pos = v.pos /\ t.game = v.game /\ t.undo = Commits(v)
        /\ t.turn = v.turn /\ t.inited = v.inited
        /\ t.run.kind = v.run.kind /\ t.run.left = v.run.left /\ t.run.phase = "look"
        /\ t.run.simul = v.run.simul /\ t.run.seeded = v.run.seeded
        /\ ~t.run.local /\ ~t.run.required
    BY <1>4, <1>5, <2>1, LooksIs
  <2> QED
    BY <1>3, <1>6, <1>7, <1>9, <2>2, <2>3 DEF Untouched, t, BeginsFields
<1> QED
  BY <1>8, <1>9

\* The fields behind the answer e, when l is left to ask.
AnsweredFields(m, r, e, c, l, t) ==
  /\ t \in States /\ Untouched(t, r)
  /\ t.pos = r.pos + c /\ t.game = Append(r.game, Event(e))
  /\ l = <<>> =>
       /\ t.undo = IF /\ r.run.kind = "move" /\ ~r.run.simul /\ ~SeededBy(r, e)
                      /\ ~ComputerAt(m, r)
                   THEN r.undo + 1 ELSE 0
       /\ t.turn = IF r.run.kind = "end_turn" THEN EndTurn(r) ELSE r.turn
       /\ t.inited = IF r.run.kind = "end_turn" THEN FALSE ELSE r.inited
       /\ t.run = NoRun
  /\ l # <<>> =>
       /\ t.undo = IF Head(l) = r.turn THEN r.undo ELSE 0
       /\ t.turn = r.turn /\ t.inited = r.inited
       /\ t.run.kind = r.run.kind /\ t.run.left = l /\ t.run.phase = "look"
       /\ t.run.simul = r.run.simul /\ t.run.seeded = SeededBy(r, e)
       /\ ~t.run.local /\ ~t.run.required

LEMMA AnsweredIs ==
  ASSUME NEW r \in States, NEW m, NEW e \in Entries, r.run.left # <<>>, NEW c \in Nat,
         NEW l, l = Tail(r.run.left)
  PROVE  AnsweredFields(m, r, e, c, l, Answered(m, r, e, c))
<1> DEFINE u == [r.run EXCEPT !.left = l, !.seeded = SeededBy(r, e)]
           v == [r EXCEPT !.pos = r.pos + c, !.game = Append(r.game, Event(e)), !.run = u]
           t == Answered(m, r, e, c)
<1>1. /\ r.run \in Runs /\ l \in Seq(Asks)
      /\ r.pos + c \in Nat /\ Append(r.game, Event(e)) \in Seq(Happens)
  BY EntryFields, StateFields
<1>0. SeededBy(r, e) \in BOOLEAN
  BY StateFields DEF SeededBy
<1>2. u \in Runs
  BY <1>0, <1>1, Zenon DEF Runs
<1>3. /\ u.kind = r.run.kind /\ u.left = l /\ u.phase = r.run.phase /\ u.simul = r.run.simul
      /\ u.seeded = SeededBy(r, e) /\ u.local = r.run.local /\ u.required = r.run.required
  BY <1>1, Zenon DEF Runs
<1>4. t = GoesOn(m, v)
  <2>1. u = [r.run EXCEPT !.left = Tail(r.run.left), !.seeded = r.run.seeded \/ e.kind = "seed"]
    BY Zenon DEF SeededBy
  <2> HIDE DEF u
  <2> QED
    BY <2>1, Zenon DEF Answered
<1> HIDE DEF u, t
<1>5. v \in States
  BY <1>1, <1>2, Zenon DEF States
<1>6. v.rec = r.rec /\ v.upto = r.upto /\ v.owner = r.owner /\ v.mode = r.mode /\ v.expect = r.expect
  BY Zenon DEF States
<1>7. /\ v.pos = r.pos + c /\ v.game = Append(r.game, Event(e)) /\ v.undo = r.undo /\ v.turn = r.turn
      /\ v.inited = r.inited /\ v.run = u
  BY Zenon DEF States
<1> HIDE DEF v
<1>8. CASE l = <<>>
  <2>1. t = Ended(m, v)
    BY <1>3, <1>4, <1>7, <1>8 DEF GoesOn
  <2>2. CanUndo(m, v) <=> r.run.kind = "move" /\ ~r.run.simul /\ ~SeededBy(r, e) /\ ~ComputerAt(m, r)
    BY <1>3, <1>6, <1>7 DEF CanUndo, ComputerAt
  <2>3. EndTurn(v) = EndTurn(r)
    BY <1>7 DEF EndTurn
  <2>4. /\ t \in States /\ Untouched(t, v)
        /\ t.pos = v.pos /\ t.game = v.game
        /\ t.undo = IF CanUndo(m, v) THEN v.undo + 1 ELSE 0
        /\ t.turn = IF v.run.kind = "end_turn" THEN EndTurn(v) ELSE v.turn
        /\ t.inited = IF v.run.kind = "end_turn" THEN FALSE ELSE v.inited
        /\ t.run = NoRun
    <3>1. /\ Ended(m, v) \in States /\ Untouched(Ended(m, v), v)
          /\ Ended(m, v).pos = v.pos /\ Ended(m, v).game = v.game
          /\ Ended(m, v).undo = IF CanUndo(m, v) THEN v.undo + 1 ELSE 0
          /\ Ended(m, v).turn = IF v.run.kind = "end_turn" THEN EndTurn(v) ELSE v.turn
          /\ Ended(m, v).inited = IF v.run.kind = "end_turn" THEN FALSE ELSE v.inited
          /\ Ended(m, v).run = NoRun
      BY <1>5, EndedIs, Zenon
    <3> QED
      BY <2>1, <3>1, Zenon
  <2> QED
    BY <1>3, <1>6, <1>7, <1>8, <2>2, <2>3, <2>4 DEF Untouched, t, AnsweredFields
<1>9. CASE l # <<>>
  <2>1. v.run.left # <<>>
    BY <1>3, <1>7, <1>9
  <2>2. Commits(v) = IF Head(l) = r.turn THEN r.undo ELSE 0
    BY <1>3, <1>7 DEF Commits, Asked
  <2>3. /\ t \in States /\ Untouched(t, v)
        /\ t.pos = v.pos /\ t.game = v.game /\ t.undo = Commits(v)
        /\ t.turn = v.turn /\ t.inited = v.inited
        /\ t.run.kind = v.run.kind /\ t.run.left = v.run.left /\ t.run.phase = "look"
        /\ t.run.simul = v.run.simul /\ t.run.seeded = v.run.seeded
        /\ ~t.run.local /\ ~t.run.required
    BY <1>4, <1>5, <2>1, LooksIs
  <2> QED
    BY <1>3, <1>6, <1>7, <1>9, <2>2, <2>3 DEF Untouched, t, AnsweredFields
<1> QED
  BY <1>8, <1>9

-----------------------------------------------------------------------------
(* The stages of the log.                                                          *)

LEMMA StageFields ==
  ASSUME NEW s \in Stages
  PROVE  /\ s.turn \in Side /\ s.inited \in BOOLEAN /\ s.kind \in Kinds \cup {None}
         /\ s.left \in Seq(Asks) /\ s.begin \in Nat /\ s.undo \in Nat /\ s.remote \in BOOLEAN
         /\ s.cmds \in Nat /\ s.big \in Nat /\ s.seeds \in Nat
BY DEF Stages

\* The first of a sequence that is not empty, and the rest.
LEMMA HeadTail ==
  ASSUME NEW X, NEW l \in Seq(X), l # <<>>
  PROVE  /\ Len(l) \in Nat \ {0} /\ Head(l) = l[1] /\ Head(l) \in X /\ Tail(l) \in Seq(X)
         /\ Len(Tail(l)) = Len(l) - 1 /\ \A i \in 1..Len(l) - 1 : Tail(l)[i] = l[i + 1]
OBVIOUS

LEMMA ActorIs ==
  ASSUME NEW s \in Stages
  PROVE  /\ Actor(s) \in Asks /\ (Actor(s) # Server => Actor(s) \in Side)
         /\ Rests(s) => Actor(s) = s.turn
         /\ ~Rests(s) => Actor(s) = Head(s.left)
<1>1. s.turn \in Side /\ s.left \in Seq(Asks)
  BY StageFields
<1>2. CASE Rests(s)
  BY <1>1, <1>2 DEF Actor, Asks
<1>3. CASE ~Rests(s)
  <2>1. Head(s.left) \in Asks
    BY <1>1, <1>3, HeadTail DEF Rests
  <2> QED
    BY <1>3, <2>1 DEF Actor, Asks
<1> QED
  BY <1>2, <1>3

LEMMA BaseIs == Base \in Stages /\ Rests(Base) /\ Base.undo = 0 /\ Base.inited /\ ~Base.remote
<1>1. 1 \in Side /\ <<>> \in Seq(Asks)
  BY SideIs
<1> QED
  BY <1>1 DEF Base, Stages, Rests

\* What After makes of the fields.
AfterFields(s, e, i, t) ==
  /\ t \in Stages
  /\ t.left = NextLeft(s, e)
  /\ t.begin = (IF Rests(s) THEN i ELSE s.begin)
  /\ t.cmds = (IF Rests(s) THEN s.cmds + 1 ELSE s.cmds)
  /\ t.big = (IF Rests(s) /\ e.kind # "init_side" THEN s.big + 1 ELSE s.big)
  /\ t.seeds = (IF ~Rests(s) /\ e.kind = "seed" THEN s.seeds + 1 ELSE s.seeds)
  /\ NextLeft(s, e) = <<>> =>
       /\ Rests(t) /\ t.kind = None /\ ~t.remote
       /\ t.turn = (IF NextKind(s, e) = "end_turn" THEN (s.turn % LastSide) + 1 ELSE s.turn)
       /\ t.inited = (IF NextKind(s, e) = "end_turn" THEN FALSE ELSE NextInited(s, e))
       /\ t.undo = (IF NextKind(s, e) = "move" /\ ~NextRemote(s) THEN NextUndo(s, e) + 1 ELSE 0)
  /\ NextLeft(s, e) # <<>> =>
       /\ ~Rests(t) /\ t.kind = NextKind(s, e) /\ t.remote = NextRemote(s)
       /\ t.turn = s.turn /\ t.inited = NextInited(s, e)
       /\ t.undo = (IF Head(NextLeft(s, e)) = s.turn THEN NextUndo(s, e) ELSE 0)

LEMMA AfterIs ==
  ASSUME NEW s \in Stages, NEW e \in Entries, NEW i \in Nat, Rests(s) => e.kind \in Kinds
  PROVE  AfterFields(s, e, i, After(s, e, i))
<1>0. /\ s.turn \in Side /\ s.inited \in BOOLEAN /\ s.kind \in Kinds \cup {None}
      /\ s.left \in Seq(Asks) /\ s.begin \in Nat /\ s.undo \in Nat /\ s.remote \in BOOLEAN
      /\ s.cmds \in Nat /\ s.big \in Nat /\ s.seeds \in Nat
      /\ e.script \in Seq(Asks)
  BY StageFields, EntryFields
<1>1. NextLeft(s, e) \in Seq(Asks)
  <2>1. CASE Rests(s)
    BY <1>0, <2>1 DEF NextLeft
  <2>2. CASE ~Rests(s)
    BY <1>0, <2>2, HeadTail DEF NextLeft, Rests
  <2> QED
    BY <2>1, <2>2
<1>2. /\ NextKind(s, e) \in Kinds \cup {None} /\ NextRemote(s) \in BOOLEAN
      /\ NextInited(s, e) \in BOOLEAN /\ NextUndo(s, e) \in Nat
  BY <1>0 DEF NextKind, NextRemote, NextInited, NextUndo
<1>3. (s.turn % LastSide) + 1 \in Side
  BY <1>0, SideIs, Zenon
<1> DEFINE t == After(s, e, i)
<1>4. /\ t.left = NextLeft(s, e)
      /\ t.begin = (IF Rests(s) THEN i ELSE s.begin)
      /\ t.cmds = (IF Rests(s) THEN s.cmds + 1 ELSE s.cmds)
      /\ t.big = (IF Rests(s) /\ e.kind # "init_side" THEN s.big + 1 ELSE s.big)
      /\ t.seeds = (IF ~Rests(s) /\ e.kind = "seed" THEN s.seeds + 1 ELSE s.seeds)
  BY DEF After
<1>5. ASSUME NextLeft(s, e) = <<>>
      PROVE  /\ Rests(t) /\ t.kind = None /\ ~t.remote
             /\ t.turn = (IF NextKind(s, e) = "end_turn" THEN (s.turn % LastSide) + 1 ELSE s.turn)
             /\ t.inited = (IF NextKind(s, e) = "end_turn" THEN FALSE ELSE NextInited(s, e))
             /\ t.undo = (IF NextKind(s, e) = "move" /\ ~NextRemote(s) THEN NextUndo(s, e) + 1 ELSE 0)
  BY <1>4, <1>5 DEF After, Rests
<1>6. ASSUME NextLeft(s, e) # <<>>
      PROVE  /\ ~Rests(t) /\ t.kind = NextKind(s, e) /\ t.remote = NextRemote(s)
             /\ t.turn = s.turn /\ t.inited = NextInited(s, e)
             /\ t.undo = (IF Head(NextLeft(s, e)) = s.turn THEN NextUndo(s, e) ELSE 0)
  BY <1>2, <1>4, <1>6 DEF After, Rests
<1>7. t \in Stages
  <2>1. /\ t.turn \in Side /\ t.inited \in BOOLEAN /\ t.kind \in Kinds \cup {None} /\ t.left \in Seq(Asks)
        /\ t.begin \in Nat /\ t.undo \in Nat /\ t.remote \in BOOLEAN
        /\ t.cmds \in Nat /\ t.big \in Nat /\ t.seeds \in Nat
    <3>1. t.left \in Seq(Asks) /\ t.begin \in Nat /\ t.cmds \in Nat /\ t.big \in Nat /\ t.seeds \in Nat
      BY <1>0, <1>1, <1>4
    <3>2. CASE NextLeft(s, e) = <<>>
      <4> HIDE DEF t
      <4>1. t.turn \in Side
        BY <1>0, <1>3, <1>5, <3>2
      <4>2. t.remote \in BOOLEAN
        BY DEF t, After
      <4>3. t.undo \in Nat
        <5>1. t.undo = (IF NextKind(s, e) = "move" /\ ~NextRemote(s) THEN NextUndo(s, e) + 1 ELSE 0)
          BY <1>5, <3>2
        <5> QED
          BY <1>2, <5>1
      <4>4. t.inited \in BOOLEAN
        <5>1. t.inited = (IF NextKind(s, e) = "end_turn" THEN FALSE ELSE NextInited(s, e))
          BY <1>5, <3>2, Zenon
        <5> QED
          BY <1>2, <5>1, Zenon
      <4>5. t.kind = None
        BY <1>5, <3>2
      <4> QED
        BY <3>1, <4>1, <4>2, <4>3, <4>4, <4>5
    <3>3. CASE NextLeft(s, e) # <<>>
      <4> HIDE DEF t
      <4> QED
        BY <1>0, <1>2, <1>6, <3>1, <3>3
    <3> QED
      BY <3>2, <3>3
  <2>2. t = [turn |-> t.turn, inited |-> t.inited, kind |-> t.kind, left |-> t.left, begin |-> t.begin,
             undo |-> t.undo, remote |-> t.remote, cmds |-> t.cmds, big |-> t.big, seeds |-> t.seeds]
    BY DEF After
  <2> HIDE DEF t
  <2> QED
    BY <2>1, <2>2 DEF Stages
<1> HIDE DEF t
<1>8. AfterFields(s, e, i, t)
  BY <1>4, <1>5, <1>6, <1>7 DEF AfterFields
<1> QED
  BY <1>8 DEF t

LEMMA KindsAre ==
  /\ "init_side" \in Kinds /\ "move" \in Kinds /\ "end_turn" \in Kinds
  /\ "choice" \notin Kinds /\ "seed" \notin Kinds /\ None \notin Kinds
  /\ "move" # "end_turn" /\ "move" # "init_side" /\ "init_side" # "end_turn"
BY RemoteAssumption DEF Kinds

LEMMA ScriptIs ==
  ASSUME NEW kind \in Kinds, NEW script \in Scripts[kind]
  PROVE  script \in Seq(Asks)
BY RemoteAssumption DEF Asks

\* The i-th stage comes behind the entry that fits the stage before.
Follows(L, S, i) ==
  /\ L \in Seq(Entries) /\ S \in [0..Len(L) -> Stages] /\ i \in 1..Len(L)
  /\ S[i] = After(S[i - 1], L[i], i) /\ Fitting(S[i - 1], L[i])
  /\ Sound(L, S, i - 1)

\* A command begins at i, or an answer comes.
LEMMA FollowsTypes ==
  ASSUME NEW L, NEW S, NEW i, Follows(L, S, i)
  PROVE  /\ i \in Nat \ {0} /\ i - 1 \in Nat /\ S[i - 1] \in Stages /\ L[i] \in Entries /\ Len(L) \in Nat
         /\ Rests(S[i - 1]) => /\ L[i].kind \in Kinds /\ L[i].script \in Scripts[L[i].kind]
                               /\ L[i].script \in Seq(Asks)
                               /\ L[i].kind = "init_side" <=> ~S[i - 1].inited
         /\ ~Rests(S[i - 1]) => /\ L[i].kind = IF Head(S[i - 1].left) = Server THEN "seed" ELSE "choice"
                                /\ L[i].kind \notin Kinds
                                /\ S[i - 1].left \in Seq(Asks) /\ S[i - 1].left # <<>>
<1>1. i \in Nat \ {0} /\ i - 1 \in Nat /\ i - 1 \in 0..Len(L) /\ Len(L) \in Nat
  BY DEF Follows
<1>2. S[i - 1] \in Stages /\ L[i] \in Entries
  BY <1>1 DEF Follows
<1>3. Fitting(S[i - 1], L[i])
  BY DEF Follows
<1>4. ASSUME Rests(S[i - 1])
      PROVE  /\ L[i].kind \in Kinds /\ L[i].script \in Scripts[L[i].kind] /\ L[i].script \in Seq(Asks)
             /\ L[i].kind = "init_side" <=> ~S[i - 1].inited
  BY <1>3, <1>4, ScriptIs DEF Fitting
<1>5. ASSUME ~Rests(S[i - 1])
      PROVE  /\ L[i].kind = (IF Head(S[i - 1].left) = Server THEN "seed" ELSE "choice")
             /\ L[i].kind \notin Kinds
             /\ S[i - 1].left \in Seq(Asks) /\ S[i - 1].left # <<>>
  BY <1>2, <1>3, <1>5, KindsAre, StageFields DEF Fitting, Rests
<1> QED
  BY <1>1, <1>2, <1>4, <1>5

\* The fields of the stage behind a command, and behind an answer.
\* The stage t behind s and the command e.
CommandFields(s, e, i, t) ==
  /\ t \in Stages /\ t.left = e.script /\ t.begin = i /\ t.cmds = s.cmds + 1
  /\ t.big = (IF e.kind # "init_side" THEN s.big + 1 ELSE s.big) /\ t.seeds = s.seeds
  /\ e.script = <<>> =>
       /\ Rests(t) /\ t.kind = None /\ ~t.remote
       /\ t.turn = (IF e.kind = "end_turn" THEN (s.turn % LastSide) + 1 ELSE s.turn)
       /\ (e.kind = "end_turn" => ~t.inited)
       /\ (e.kind # "end_turn" => (t.inited <=> (s.inited \/ e.kind = "init_side")))
       /\ t.undo = (IF e.kind = "move" THEN s.undo + 1 ELSE 0)
  /\ e.script # <<>> =>
       /\ ~Rests(t) /\ t.kind = e.kind /\ ~t.remote /\ t.turn = s.turn
       /\ (t.inited <=> (s.inited \/ e.kind = "init_side"))
       /\ t.undo = (IF Head(e.script) = s.turn /\ e.kind # "end_turn" THEN s.undo ELSE 0)

LEMMA AfterCommand ==
  ASSUME NEW L, NEW S, NEW i, Follows(L, S, i), Rests(S[i - 1])
  PROVE  CommandFields(S[i - 1], L[i], i, S[i])
<1> DEFINE s == S[i - 1]
           t == S[i]
           e == L[i]
<1>1. /\ i \in Nat \ {0} /\ s \in Stages /\ e \in Entries /\ e.kind \in Kinds
  BY FollowsTypes
<1>2. t = After(s, e, i)
  BY DEF Follows
<1>3. NextLeft(s, e) = e.script /\ NextKind(s, e) = e.kind /\ ~NextRemote(s)
  BY DEF NextLeft, NextKind, NextRemote
<1>4. NextInited(s, e) <=> (s.inited \/ e.kind = "init_side")
  BY DEF NextInited
<1>5. NextUndo(s, e) = IF e.kind = "end_turn" THEN 0 ELSE s.undo
  BY DEF NextUndo
<1> HIDE DEF s, t, e
<1>6. Rests(s)
  BY DEF s
<1>w. AfterFields(s, e, i, t)
  <2>1. s \in Stages /\ e \in Entries /\ i \in Nat /\ (Rests(s) => e.kind \in Kinds)
    BY <1>1, <1>6
  <2> QED
    BY <1>2, <2>1, AfterIs
<1>7. /\ t \in Stages /\ t.left = e.script /\ t.begin = i /\ t.cmds = s.cmds + 1
      /\ t.big = (IF e.kind # "init_side" THEN s.big + 1 ELSE s.big) /\ t.seeds = s.seeds
  BY <1>3, <1>6, <1>w DEF AfterFields
<1>8. ASSUME e.script = <<>>
      PROVE  /\ Rests(t) /\ t.kind = None /\ ~t.remote
             /\ t.turn = (IF e.kind = "end_turn" THEN (s.turn % LastSide) + 1 ELSE s.turn)
             /\ (e.kind = "end_turn" => ~t.inited)
             /\ (e.kind # "end_turn" => (t.inited <=> (s.inited \/ e.kind = "init_side")))
             /\ t.undo = (IF e.kind = "move" THEN s.undo + 1 ELSE 0)
  <2>1. /\ Rests(t) /\ t.kind = None /\ ~t.remote
        /\ t.turn = (IF e.kind = "end_turn" THEN (s.turn % LastSide) + 1 ELSE s.turn)
        /\ t.inited = (IF e.kind = "end_turn" THEN FALSE ELSE NextInited(s, e))
        /\ t.undo = (IF e.kind = "move" /\ ~NextRemote(s) THEN NextUndo(s, e) + 1 ELSE 0)
    BY <1>3, <1>8, <1>w DEF AfterFields
  <2>2. t.undo = (IF e.kind = "move" THEN s.undo + 1 ELSE 0)
    BY <1>3, <1>5, <2>1
  <2>3. (e.kind = "end_turn" => ~t.inited) /\ (e.kind # "end_turn" => (t.inited <=> NextInited(s, e)))
    BY <2>1, Zenon
  <2> QED
    BY <1>4, <2>1, <2>2, <2>3
<1>9. ASSUME e.script # <<>>
      PROVE  /\ ~Rests(t) /\ t.kind = e.kind /\ ~t.remote /\ t.turn = s.turn
             /\ (t.inited <=> (s.inited \/ e.kind = "init_side"))
             /\ t.undo = (IF Head(e.script) = s.turn /\ e.kind # "end_turn" THEN s.undo ELSE 0)
  <2>1. /\ ~Rests(t) /\ t.kind = e.kind /\ t.remote = NextRemote(s)
        /\ t.turn = s.turn /\ t.inited = NextInited(s, e)
        /\ t.undo = (IF Head(e.script) = s.turn THEN NextUndo(s, e) ELSE 0)
    BY <1>3, <1>9, <1>w DEF AfterFields
  <2> QED
    BY <1>3, <1>4, <1>5, <2>1
<1>z. CommandFields(s, e, i, t)
  BY <1>7, <1>8, <1>9 DEF CommandFields
<1> QED
  BY <1>z DEF s, t, e

\* The stage t behind s and an answer.
AnswerFields(s, t) ==
  /\ t \in Stages /\ t.left = Tail(s.left) /\ t.begin = s.begin /\ t.cmds = s.cmds
  /\ t.big = s.big /\ t.seeds = (IF Head(s.left) = Server THEN s.seeds + 1 ELSE s.seeds)
  /\ Tail(s.left) = <<>> =>
       /\ Rests(t) /\ t.kind = None /\ ~t.remote
       /\ t.turn = (IF s.kind = "end_turn" THEN (s.turn % LastSide) + 1 ELSE s.turn)
       /\ (s.kind = "end_turn" => ~t.inited)
       /\ (s.kind # "end_turn" => (t.inited <=> s.inited))
       /\ t.undo = (IF s.kind = "move" /\ ~s.remote /\ Head(s.left) = s.turn THEN s.undo + 1 ELSE 0)
  /\ Tail(s.left) # <<>> =>
       /\ ~Rests(t) /\ t.kind = s.kind /\ (t.remote <=> (s.remote \/ Head(s.left) # s.turn))
       /\ t.turn = s.turn /\ (t.inited <=> s.inited)
       /\ t.undo = (IF Head(Tail(s.left)) = s.turn THEN s.undo ELSE 0)

LEMMA AfterAnswer ==
  ASSUME NEW L, NEW S, NEW i, Follows(L, S, i), ~Rests(S[i - 1])
  PROVE  AnswerFields(S[i - 1], S[i])
<1> DEFINE s == S[i - 1]
           t == S[i]
           e == L[i]
<1>1. /\ i \in Nat \ {0} /\ s \in Stages /\ e \in Entries
      /\ e.kind = (IF Head(s.left) = Server THEN "seed" ELSE "choice")
  BY FollowsTypes
<1>2. t = After(s, e, i)
  BY DEF Follows
<1>3. NextLeft(s, e) = Tail(s.left) /\ NextKind(s, e) = s.kind
  BY DEF NextLeft, NextKind
<1>3a. NextRemote(s) <=> (s.remote \/ Head(s.left) # s.turn)
  BY DEF NextRemote
<1>4. NextInited(s, e) <=> s.inited
  BY DEF NextInited
<1>5. NextUndo(s, e) = s.undo
  BY DEF NextUndo
<1> HIDE DEF s, t, e
<1>6. ~Rests(s)
  BY DEF s
<1>w. AfterFields(s, e, i, t)
  <2>1. s \in Stages /\ e \in Entries /\ i \in Nat /\ (Rests(s) => e.kind \in Kinds)
    BY <1>1, <1>6
  <2> QED
    BY <1>2, <2>1, AfterIs
<1>7. /\ t \in Stages /\ t.left = Tail(s.left) /\ t.begin = s.begin /\ t.cmds = s.cmds
      /\ t.big = s.big /\ t.seeds = (IF e.kind = "seed" THEN s.seeds + 1 ELSE s.seeds)
  BY <1>3, <1>6, <1>w DEF AfterFields
<1>8. ASSUME Tail(s.left) = <<>>
      PROVE  /\ Rests(t) /\ t.kind = None /\ ~t.remote
             /\ t.turn = (IF s.kind = "end_turn" THEN (s.turn % LastSide) + 1 ELSE s.turn)
             /\ (s.kind = "end_turn" => ~t.inited)
             /\ (s.kind # "end_turn" => (t.inited <=> s.inited))
             /\ t.undo = (IF s.kind = "move" /\ ~s.remote /\ Head(s.left) = s.turn THEN s.undo + 1 ELSE 0)
  <2>1. /\ Rests(t) /\ t.kind = None /\ ~t.remote
        /\ t.turn = (IF s.kind = "end_turn" THEN (s.turn % LastSide) + 1 ELSE s.turn)
        /\ t.inited = (IF s.kind = "end_turn" THEN FALSE ELSE NextInited(s, e))
        /\ t.undo = (IF s.kind = "move" /\ ~NextRemote(s) THEN NextUndo(s, e) + 1 ELSE 0)
    BY <1>3, <1>8, <1>w DEF AfterFields
  <2>2. t.undo = (IF s.kind = "move" /\ ~s.remote /\ Head(s.left) = s.turn THEN s.undo + 1 ELSE 0)
    BY <1>3a, <1>5, <2>1
  <2>3. (s.kind = "end_turn" => ~t.inited) /\ (s.kind # "end_turn" => (t.inited <=> NextInited(s, e)))
    BY <2>1, Zenon
  <2> QED
    BY <1>4, <2>1, <2>2, <2>3
<1>9. ASSUME Tail(s.left) # <<>>
      PROVE  /\ ~Rests(t) /\ t.kind = s.kind /\ (t.remote <=> (s.remote \/ Head(s.left) # s.turn))
             /\ t.turn = s.turn /\ (t.inited <=> s.inited)
             /\ t.undo = (IF Head(Tail(s.left)) = s.turn THEN s.undo ELSE 0)
  <2>1. /\ ~Rests(t) /\ t.kind = s.kind /\ t.remote = NextRemote(s)
        /\ t.turn = s.turn /\ t.inited = NextInited(s, e)
        /\ t.undo = (IF Head(Tail(s.left)) = s.turn THEN NextUndo(s, e) ELSE 0)
    BY <1>3, <1>9, <1>w DEF AfterFields
  <2> QED
    BY <1>3a, <1>4, <1>5, <2>1
<1>z. AnswerFields(s, t)
  BY <1>1, <1>7, <1>8, <1>9 DEF AnswerFields
<1> QED
  BY <1>z DEF s, t, e

LEMMA ShapesNext ==
  ASSUME NEW L, NEW S, NEW i, Follows(L, S, i)
  PROVE  Shapes(S[i])
<1> DEFINE s == S[i - 1]
           t == S[i]
           e == L[i]
<1>1. /\ ~s.inited => Rests(s) /\ s.undo = 0
      /\ s.remote => s.undo = 0 /\ ~Rests(s)
      /\ Rests(s) <=> s.kind = None
      /\ ~Rests(s) /\ Head(s.left) # s.turn => s.undo = 0
      /\ s.kind = "end_turn" => s.undo = 0
  BY DEF Follows, Sound, Shapes
<1>2. /\ Rests(s) => e.kind \in Kinds /\ (e.kind = "init_side" <=> ~s.inited)
      /\ s \in Stages
  BY FollowsTypes
<1>0. s.inited \in BOOLEAN /\ s.undo \in Nat /\ s.remote \in BOOLEAN
  BY <1>2, StageFields
<1>3. CASE Rests(s)
  <2>1. CommandFields(s, e, i, t)
    BY <1>3, AfterCommand
  <2>2. CASE e.script = <<>>
    <3>1. Rests(t) /\ t.kind = None /\ ~t.remote
      BY <2>1, <2>2 DEF CommandFields
    <3>2. /\ (e.kind # "end_turn" => (t.inited <=> (s.inited \/ e.kind = "init_side")))
          /\ t.undo = (IF e.kind = "move" THEN s.undo + 1 ELSE 0)
      BY <2>1, <2>2 DEF CommandFields
    <3> HIDE DEF s, t, e
    <3>3. ~t.inited => t.undo = 0
      BY <1>2, <1>3, <3>2, KindsAre
    <3>9. Shapes(t)
      BY <3>1, <3>3, KindsAre DEF Shapes
    <3> QED
      BY <3>9 DEF t
  <2>3. CASE e.script # <<>>
    <3>1. /\ ~Rests(t) /\ t.kind = e.kind /\ ~t.remote /\ t.turn = s.turn /\ t.left = e.script
          /\ (t.inited <=> (s.inited \/ e.kind = "init_side"))
          /\ t.undo = (IF Head(e.script) = s.turn /\ e.kind # "end_turn" THEN s.undo ELSE 0)
      BY <2>1, <2>3 DEF CommandFields
    <3> HIDE DEF s, t, e
    <3>2. t.inited
      BY <1>2, <1>3, <3>1
    <3>3. t.kind # None
      BY <1>2, <1>3, <3>1, KindsAre
    <3>4. Head(t.left) # t.turn => t.undo = 0
      BY <3>1
    <3>5. t.kind = "end_turn" => t.undo = 0
      BY <3>1
    <3>9. Shapes(t)
      BY <3>1, <3>2, <3>3, <3>4, <3>5 DEF Shapes
    <3> QED
      BY <3>9 DEF t
  <2>4. Shapes(t)
    BY <2>2, <2>3
  <2> QED
    BY <2>4 DEF t
<1>4. CASE ~Rests(s)
  <2>1. AnswerFields(s, t)
    BY <1>4, AfterAnswer
  <2>2. CASE Tail(s.left) = <<>>
    <3>1. /\ Rests(t) /\ t.kind = None /\ ~t.remote
          /\ (s.kind # "end_turn" => (t.inited <=> s.inited))
          /\ t.undo = (IF s.kind = "move" /\ ~s.remote /\ Head(s.left) = s.turn THEN s.undo + 1 ELSE 0)
      BY <2>1, <2>2 DEF AnswerFields
    <3> HIDE DEF s, t, e
    <3>2. ~t.inited => t.undo = 0
      BY <1>1, <1>4, <3>1, KindsAre
    <3>9. Shapes(t)
      BY <3>1, <3>2, KindsAre DEF Shapes
    <3> QED
      BY <3>9 DEF t
  <2>3. CASE Tail(s.left) # <<>>
    <3>1. /\ ~Rests(t) /\ t.kind = s.kind /\ (t.remote <=> (s.remote \/ Head(s.left) # s.turn))
          /\ t.turn = s.turn /\ (t.inited <=> s.inited) /\ t.left = Tail(s.left)
          /\ t.undo = (IF Head(Tail(s.left)) = s.turn THEN s.undo ELSE 0)
      BY <2>1, <2>3 DEF AnswerFields
    <3> HIDE DEF s, t, e
    <3>2. t.inited /\ t.kind # None
      BY <1>1, <1>4, <3>1
    <3>3. t.remote => t.undo = 0
      BY <1>1, <1>4, <3>1
    <3>4. Head(t.left) # t.turn => t.undo = 0
      BY <3>1
    <3>5. t.kind = "end_turn" => t.undo = 0
      BY <1>1, <3>1
    <3>9. Shapes(t)
      BY <3>1, <3>2, <3>3, <3>4, <3>5 DEF Shapes
    <3> QED
      BY <3>9 DEF t
  <2>4. Shapes(t)
    BY <2>2, <2>3
  <2> QED
    BY <2>4 DEF t
<1> QED
  BY <1>3, <1>4

LEMMA BegunNext ==
  ASSUME NEW L, NEW S, NEW i, Follows(L, S, i)
  PROVE  Begun(L, S, i)
<1> DEFINE s == S[i - 1]
           t == S[i]
           e == L[i]
           b == s.begin
           p == S[b - 1]
<1>1. /\ i \in Nat \ {0} /\ i - 1 \in Nat /\ s \in Stages /\ e \in Entries
      /\ Rests(s) => e.kind \in Kinds /\ (e.kind = "init_side" <=> ~s.inited)
      /\ ~Rests(s) => e.kind \notin Kinds
  BY FollowsTypes
<1>2. Shapes(s) /\ Begun(L, S, i - 1)
  BY DEF Follows, Sound
<1>0. s.turn \in Side /\ Server \notin Side /\ s.begin \in Nat /\ s.inited \in BOOLEAN /\ s.remote \in BOOLEAN
  BY <1>1, StageFields, SideIs DEF Server
<1>3. CASE Rests(s)
  <2>1. CommandFields(s, e, i, t)
    BY <1>3, AfterCommand
  <2>2. /\ t.begin = i /\ t.cmds = s.cmds + 1 /\ t.seeds = s.seeds
    BY <2>1 DEF CommandFields
  <2>3. i \in 1..i /\ \A j \in i+1..i : L[j].kind \notin Kinds
    BY <1>1
  <2>4. ASSUME ~Rests(t) PROVE e.kind = t.kind /\ Within(t, s)
    <3>1. e.script # <<>>
      BY <2>1, <2>4 DEF CommandFields
    <3>2. t.kind = e.kind /\ t.turn = s.turn /\ (t.inited <=> (s.inited \/ e.kind = "init_side")) /\ t.left = e.script
      BY <2>1, <3>1 DEF CommandFields
    <3>3. t.undo = (IF Head(e.script) = s.turn /\ e.kind # "end_turn" THEN s.undo ELSE 0)
      BY <2>1, <3>1 DEF CommandFields
    <3>5. t \in Stages
      BY <2>1 DEF CommandFields
    <3>6. t.inited \in BOOLEAN
      BY <3>5, StageFields
    <3> HIDE DEF s, t, e
    <3>4. t.kind # "init_side" => s.inited = t.inited
      BY <1>0, <3>2, <3>6
    <3> QED
      BY <2>2, <3>2, <3>3, <3>4 DEF Within
  <2>5. ASSUME Rests(t), t.undo > 0
        PROVE  e.kind = "move" /\ t.undo = s.undo + 1 /\ s.turn = t.turn /\ s.inited = t.inited
    <3>1. e.script = <<>>
      BY <2>1, <2>5 DEF CommandFields
    <3>2. t.undo = (IF e.kind = "move" THEN s.undo + 1 ELSE 0)
      BY <2>1, <3>1 DEF CommandFields
    <3>3. e.kind = "move"
      BY <2>5, <3>2
    <3>5. t \in Stages
      BY <2>1 DEF CommandFields
    <3>6. t.inited \in BOOLEAN
      BY <3>5, StageFields
    <3>4. s.turn = t.turn /\ (s.inited <=> t.inited)
      BY <2>1, <3>1, <3>3, KindsAre DEF CommandFields
    <3> QED
      BY <1>0, <3>2, <3>3, <3>4, <3>6
  <2> HIDE DEF s, t, e
  <2>6. t = S[i] /\ e = L[i] /\ s = S[i - 1]
    BY DEF t, e, s
  <2> QED
    BY <1>1, <1>3, <2>2, <2>3, <2>4, <2>5, <2>6 DEF Begun
<1>4. CASE ~Rests(s)
  <2>1. AnswerFields(s, t)
    BY <1>4, AfterAnswer
  <2>2. /\ i - 1 > 0 /\ b \in 1..i-1 /\ L[b].kind \in Kinds /\ \A j \in b+1..i-1 : L[j].kind \notin Kinds
        /\ Rests(p) /\ s.cmds = p.cmds + 1 /\ L[b].kind = s.kind /\ Within(s, p)
    BY <1>2, <1>4 DEF Begun
  <2>3. t.begin = b /\ t.cmds = s.cmds /\ t.seeds = (IF Head(s.left) = Server THEN s.seeds + 1 ELSE s.seeds)
        /\ t.left = Tail(s.left)
    BY <2>1 DEF AnswerFields
  <2>4. b \in 1..i /\ \A j \in b+1..i : L[j].kind \notin Kinds
    <3>1. e.kind \notin Kinds
      BY <1>1, <1>4
    <3>2. \A j \in b+1..i : j \in b+1..i-1 \/ j = i
      BY <1>0, <1>1
    <3> QED
      BY <1>1, <2>2, <3>1, <3>2
  <2>5. /\ p.turn = s.turn /\ (s.kind # "init_side" => p.inited = s.inited)
        /\ (~s.remote => s.seeds = p.seeds)
        /\ (~s.remote /\ Head(s.left) = s.turn /\ s.kind # "end_turn" => s.undo = p.undo)
    BY <2>2 DEF Within
  <2>t. t \in Stages
    BY <2>1 DEF AnswerFields
  <2>u. t.inited \in BOOLEAN /\ t.remote \in BOOLEAN
    BY <2>t, StageFields
  <2>6. ASSUME ~Rests(t) PROVE s.kind = t.kind /\ Within(t, p)
    <3>1. Tail(s.left) # <<>>
      BY <2>1, <2>6 DEF AnswerFields
    <3>2. /\ t.kind = s.kind /\ (t.remote <=> (s.remote \/ Head(s.left) # s.turn))
          /\ t.turn = s.turn /\ (t.inited <=> s.inited)
          /\ t.undo = (IF Head(Tail(s.left)) = s.turn THEN s.undo ELSE 0)
      BY <2>1, <3>1 DEF AnswerFields
    <3> HIDE DEF s, t, e, p, b
    <3>3. t.inited = s.inited
      BY <1>0, <2>u, <3>2
    <3>4. ~t.remote => t.seeds = p.seeds
      BY <1>0, <2>3, <2>5, <3>2
    <3>5. ~t.remote /\ Head(t.left) = t.turn /\ t.kind # "end_turn" => t.undo = p.undo
      BY <2>3, <2>5, <3>2
    <3> QED
      BY <2>5, <3>2, <3>3, <3>4, <3>5 DEF Within
  <2>7. ASSUME Rests(t), t.undo > 0
        PROVE  /\ s.kind = "move" /\ t.undo = p.undo + 1 /\ p.turn = t.turn /\ p.inited = t.inited
               /\ p.seeds = t.seeds
    <3>1. Tail(s.left) = <<>>
      BY <2>1, <2>7 DEF AnswerFields
    <3>2. /\ t.turn = (IF s.kind = "end_turn" THEN (s.turn % LastSide) + 1 ELSE s.turn)
          /\ (s.kind # "end_turn" => (t.inited <=> s.inited))
          /\ t.undo = (IF s.kind = "move" /\ ~s.remote /\ Head(s.left) = s.turn THEN s.undo + 1 ELSE 0)
      BY <2>1, <3>1 DEF AnswerFields
    <3>3. s.kind = "move" /\ ~s.remote /\ Head(s.left) = s.turn
      BY <2>7, <3>2
    <3> HIDE DEF s, t, e, p, b
    <3> QED
      BY <1>0, <2>3, <2>5, <2>u, <3>2, <3>3, KindsAre
  <2> HIDE DEF s, t, e, p, b
  <2>8. t = S[i] /\ p = S[b - 1]
    BY DEF t, p
  <2> QED
    BY <1>1, <2>2, <2>3, <2>4, <2>6, <2>7, <2>8 DEF Begun
<1> QED
  BY <1>3, <1>4

LEMMA CountsNext ==
  ASSUME NEW L, NEW S, NEW i, Follows(L, S, i),
         Rests(S[i - 1]) /\ L[i].kind # "init_side" => S[i - 1].cmds < MaxCommands
  PROVE  Counts(L, S, i)
<1> DEFINE s == S[i - 1]
           t == S[i]
           e == L[i]
           J(n) == {j \in 1..n : L[j].kind \in Kinds}
<1>1. /\ i \in Nat \ {0} /\ i - 1 \in Nat /\ s \in Stages /\ e \in Entries
  BY FollowsTypes
<1>2. Shapes(s) /\ Counts(L, S, i - 1)
  BY DEF Follows, Sound
<1>c. /\ s.undo + (IF s.kind = "move" THEN 1 ELSE 0) <= s.big
      /\ s.big <= s.cmds /\ s.big <= MaxCommands
      /\ Drawn(s)
      /\ s.cmds = Cardinality(J(i - 1))
      /\ \A j \in 0..i-1 : S[j].cmds <= s.cmds
  BY <1>2 DEF Counts
<1>d. ASSUME OneSeed
      PROVE  /\ s.seeds + (IF AsksServer(s.left) THEN 1 ELSE 0) <= s.big
             /\ \A j1, j2 \in DOMAIN s.left : s.left[j1] = Server /\ s.left[j2] = Server => j1 = j2
  BY <1>c, <1>d DEF Drawn
<1>0. /\ s.turn \in Side /\ s.cmds \in Nat /\ s.big \in Nat /\ s.undo \in Nat /\ s.seeds \in Nat /\ MaxCommands \in Nat
      /\ s.left \in Seq(Asks)
  BY <1>1, StageFields, RemoteAssumption
<1>f. IsFiniteSet(J(i - 1))
  <2>1. IsFiniteSet(1..i-1)
    BY <1>1, FS_Interval
  <2> QED
    BY <2>1, FS_Subset
<1>m. ASSUME s.cmds <= t.cmds PROVE \A j \in 0..i : S[j].cmds <= t.cmds
  <2> SUFFICES ASSUME NEW j \in 0..i PROVE S[j].cmds <= t.cmds
    OBVIOUS
  <2>0. t \in Stages /\ S[j] \in Stages
    BY DEF Follows
  <2>1. t.cmds \in Nat /\ S[j].cmds \in Nat
    BY <2>0, StageFields
  <2>2. CASE j = i
    BY <2>1, <2>2
  <2>3. CASE j # i
    <3>1. j \in 0..i-1
      BY <1>1, <2>3
    <3>2. S[j].cmds <= s.cmds
      BY <1>c, <3>1
    <3> QED
      BY <1>0, <1>m, <2>1, <3>2
  <2> QED
    BY <2>2, <2>3
<1>3. CASE Rests(s)
  <2>0. e.kind \in Kinds /\ e.script \in Scripts[e.kind] /\ e.script \in Seq(Asks)
    BY <1>3, FollowsTypes
  <2>1. CommandFields(s, e, i, t)
    BY <1>3, AfterCommand
  <2>2. /\ t.left = e.script /\ t.cmds = s.cmds + 1
        /\ t.big = (IF e.kind # "init_side" THEN s.big + 1 ELSE s.big) /\ t.seeds = s.seeds
    BY <2>1 DEF CommandFields
  <2>3. t.undo + (IF t.kind = "move" THEN 1 ELSE 0) <= t.big
    <3>1. CASE e.script = <<>>
      <4>1. t.kind = None /\ t.undo = (IF e.kind = "move" THEN s.undo + 1 ELSE 0)
        BY <2>1, <3>1 DEF CommandFields
      <4> HIDE DEF s, t, e
      <4>2. s.undo <= s.big
        BY <1>0, <1>c
      <4> QED
        BY <1>0, <2>2, <4>1, <4>2, KindsAre
    <3>2. CASE e.script # <<>>
      <4>1. t.kind = e.kind /\ t.undo = (IF Head(e.script) = s.turn /\ e.kind # "end_turn" THEN s.undo ELSE 0)
        BY <2>1, <3>2 DEF CommandFields
      <4> HIDE DEF s, t, e
      <4>2. s.undo <= s.big
        BY <1>0, <1>c
      <4> QED
        BY <1>0, <2>2, <4>1, <4>2, KindsAre
    <3> QED
      BY <3>1, <3>2
  <2>4. t.big <= t.cmds /\ t.big <= MaxCommands
    <3>1. e.kind # "init_side" => s.cmds < MaxCommands
      BY <1>3
    <3> HIDE DEF s, t, e
    <3> QED
      BY <1>0, <1>c, <2>2, <3>1
  <2>5. ASSUME OneSeed
        PROVE  \A j1, j2 \in DOMAIN t.left : t.left[j1] = Server /\ t.left[j2] = Server => j1 = j2
    BY <2>0, <2>2, <2>5 DEF OneSeed
  <2>6. ASSUME OneSeed
        PROVE  t.seeds + (IF AsksServer(t.left) THEN 1 ELSE 0) <= t.big
    <3>1. e.kind = "init_side" => ~AsksServer(t.left)
      BY <2>0, <2>2, <2>6 DEF OneSeed, AsksServer
    <3>2. s.seeds <= s.big
      BY <1>0, <1>d, <2>6
    <3> HIDE DEF s, t, e
    <3> QED
      BY <1>0, <2>2, <3>1, <3>2
  <2>o. Drawn(t)
    BY <2>5, <2>6 DEF Drawn
  <2>7. t.cmds = Cardinality(J(i))
    <3>1. J(i) = J(i - 1) \cup {i} /\ i \notin J(i - 1)
      BY <1>1, <2>0
    <3>2. Cardinality(J(i - 1) \cup {i}) = Cardinality(J(i - 1)) + 1
      BY <1>f, <3>1, FS_AddElement
    <3> QED
      BY <1>c, <2>2, <3>1, <3>2
  <2>8. s.cmds <= t.cmds
    BY <1>0, <2>2
  <2> QED
    BY <1>m, <2>3, <2>4, <2>o, <2>7, <2>8 DEF Counts
<1>4. CASE ~Rests(s)
  <2>0. e.kind \notin Kinds /\ s.left # <<>>
    BY <1>4, FollowsTypes
  <2>1. AnswerFields(s, t)
    BY <1>4, AfterAnswer
  <2>2. /\ t.left = Tail(s.left) /\ t.cmds = s.cmds /\ t.big = s.big
        /\ t.seeds = (IF Head(s.left) = Server THEN s.seeds + 1 ELSE s.seeds)
    BY <2>1 DEF AnswerFields
  <2>3. t.undo + (IF t.kind = "move" THEN 1 ELSE 0) <= t.big
    <3>1. CASE Tail(s.left) = <<>>
      <4>1. t.kind = None /\ t.undo = (IF s.kind = "move" /\ ~s.remote /\ Head(s.left) = s.turn THEN s.undo + 1 ELSE 0)
        BY <2>1, <3>1 DEF AnswerFields
      <4> HIDE DEF s, t, e
      <4> QED
        BY <1>0, <1>c, <2>2, <4>1, KindsAre
    <3>2. CASE Tail(s.left) # <<>>
      <4>1. t.kind = s.kind /\ t.undo = (IF Head(Tail(s.left)) = s.turn THEN s.undo ELSE 0)
        BY <2>1, <3>2 DEF AnswerFields
      <4> HIDE DEF s, t, e
      <4> QED
        BY <1>0, <1>c, <2>2, <4>1
    <3> QED
      BY <3>1, <3>2
  <2>4. t.big <= t.cmds /\ t.big <= MaxCommands
    BY <1>c, <2>2
  <2>h. /\ Len(s.left) \in Nat \ {0} /\ Head(s.left) = s.left[1] /\ Tail(s.left) \in Seq(Asks)
        /\ Len(Tail(s.left)) = Len(s.left) - 1 /\ \A j \in 1..Len(s.left) - 1 : Tail(s.left)[j] = s.left[j + 1]
    BY <1>0, <2>0, HeadTail
  <2>d. DOMAIN s.left = 1..Len(s.left) /\ DOMAIN t.left = 1..Len(s.left) - 1
    BY <1>0, <2>2, <2>h
  <2>k. \A j \in DOMAIN t.left : j + 1 \in DOMAIN s.left /\ t.left[j] = s.left[j + 1]
    BY <2>2, <2>d, <2>h
  <2>5. ASSUME OneSeed
        PROVE  \A j1, j2 \in DOMAIN t.left : t.left[j1] = Server /\ t.left[j2] = Server => j1 = j2
    <3> SUFFICES ASSUME NEW j1 \in DOMAIN t.left, NEW j2 \in DOMAIN t.left, t.left[j1] = Server, t.left[j2] = Server
                 PROVE  j1 = j2
      OBVIOUS
    <3>1. j1 + 1 = j2 + 1
      BY <1>d, <2>5, <2>k
    <3>2. j1 \in Nat /\ j2 \in Nat
      BY <2>d
    <3> QED
      BY <3>1, <3>2
  <2>6. ASSUME OneSeed
        PROVE  t.seeds + (IF AsksServer(t.left) THEN 1 ELSE 0) <= t.big
    <3>1. CASE Head(s.left) = Server
      <4>1. 1 \in DOMAIN s.left /\ s.left[1] = Server
        BY <2>d, <2>h, <3>1
      <4>2. AsksServer(s.left)
        BY <4>1 DEF AsksServer
      <4>3. ~AsksServer(t.left)
        <5> SUFFICES ASSUME NEW j \in DOMAIN t.left, t.left[j] = Server PROVE FALSE
          BY DEF AsksServer
        <5>1. j + 1 = 1
          BY <1>d, <2>6, <2>k, <4>1
        <5>2. j \in Nat \ {0}
          BY <2>d
        <5> QED
          BY <5>1, <5>2
      <4> HIDE DEF s, t, e
      <4> QED
        BY <1>0, <1>d, <2>6, <2>2, <3>1, <4>2, <4>3
    <3>2. CASE Head(s.left) # Server
      <4>1. AsksServer(t.left) => AsksServer(s.left)
        BY <2>k DEF AsksServer
      <4> HIDE DEF s, t, e
      <4> QED
        BY <1>0, <1>d, <2>6, <2>2, <3>2, <4>1
    <3> QED
      BY <3>1, <3>2
  <2>o. Drawn(t)
    BY <2>5, <2>6 DEF Drawn
  <2>7. t.cmds = Cardinality(J(i))
    <3>1. J(i) = J(i - 1)
      BY <1>1, <2>0
    <3> QED
      BY <1>c, <2>2, <3>1
  <2>8. s.cmds <= t.cmds
    BY <1>0, <2>2
  <2> QED
    BY <1>m, <2>3, <2>4, <2>o, <2>7, <2>8 DEF Counts
<1> QED
  BY <1>3, <1>4

LEMMA SoundNext ==
  ASSUME NEW L, NEW S, NEW i, Follows(L, S, i),
         Rests(S[i - 1]) /\ L[i].kind # "init_side" => S[i - 1].cmds < MaxCommands
  PROVE  Sound(L, S, i)
BY ShapesNext, BegunNext, CountsNext DEF Sound

LEMMA LogTypes ==
  ASSUME NEW L, NEW S, Log(L, S)
  PROVE  /\ L \in Seq(Entries) /\ Len(L) \in Nat /\ S \in [0..Len(L) -> Stages] /\ S[0] = Base
         /\ \A i \in 1..Len(L) : L[i] \in Entries /\ S[i - 1] \in Stages /\ S[i] \in Stages /\ i - 1 \in 0..Len(L)
         /\ \A i \in 0..Len(L) : S[i] \in Stages
<1>1. L \in Seq(Entries) /\ S \in [0..Len(L) -> Stages] /\ S[0] = Base
  BY DEF Log
<1> QED
  BY <1>1

\* What holds of a stage depends on what is before it only.
LEMMA SoundLocal ==
  ASSUME NEW L, NEW S, NEW L2, NEW S2, NEW i \in Nat, Sound(L, S, i),
         \A j \in 0..i : S2[j] = S[j], \A j \in 1..i : L2[j] = L[j]
  PROVE  Sound(L2, S2, i)
<1>1. S2[i] = S[i]
  OBVIOUS
<1>2. Shapes(S2[i])
  BY <1>1 DEF Sound
<1>3. Counts(L2, S2, i)
  <2>1. {j \in 1..i : L2[j].kind \in Kinds} = {j \in 1..i : L[j].kind \in Kinds}
    OBVIOUS
  <2>2. Counts(L, S, i)
    BY DEF Sound
  <2>3. \A j \in 0..i : S2[j].cmds <= S2[i].cmds
    BY <1>1, <2>2 DEF Counts
  <2> QED
    BY <1>1, <2>1, <2>2, <2>3 DEF Counts
<1>4. Begun(L2, S2, i)
  <2> DEFINE s == S[i]
             b == S[i].begin
  <2>0. Begun(L, S, i)
    BY DEF Sound
  <2>1. ~Rests(s) \/ s.undo > 0 => i > 0
    BY <2>0 DEF Begun
  <2>2. CASE i = 0
    <3>1. Rests(s) /\ ~(s.undo > 0)
      BY <2>1, <2>2
    <3> HIDE DEF s
    <3>2. S2[i] = s
      BY <1>1 DEF s
    <3> QED
      BY <2>2, <3>1, <3>2 DEF Begun
  <2>3. CASE i > 0
    <3>1. b \in 1..i
      BY <2>0, <2>3 DEF Begun
    <3>2. b \in Nat /\ b - 1 \in 0..i /\ \A j \in b+1..i : j \in 1..i
      BY <3>1
    <3>3. S2[b - 1] = S[b - 1] /\ L2[b] = L[b] /\ \A j \in b+1..i : L2[j] = L[j]
      BY <3>1, <3>2
    <3>4. /\ L[b].kind \in Kinds /\ \A j \in b+1..i : L[j].kind \notin Kinds
          /\ Rests(S[b - 1]) /\ s.cmds = S[b - 1].cmds + 1
          /\ ~Rests(s) => L[b].kind = s.kind /\ Within(s, S[b - 1])
          /\ Rests(s) /\ s.undo > 0 =>
               /\ L[b].kind = "move" /\ s.undo = S[b - 1].undo + 1
               /\ S[b - 1].turn = s.turn /\ S[b - 1].inited = s.inited /\ S[b - 1].seeds = s.seeds
      BY <2>0, <2>3 DEF Begun
    <3>5. S2[i] = s /\ S2[i].begin = b
      BY <1>1
    <3> HIDE DEF s, b
    <3> QED
      BY <2>3, <3>1, <3>3, <3>4, <3>5 DEF Begun
  <2> QED
    BY <2>2, <2>3
<1> QED
  BY <1>2, <1>3, <1>4 DEF Sound

\* The stages when e comes behind L.
Longer(L, S, e) ==
  [j \in 0..Len(L)+1 |-> IF j = Len(L) + 1 THEN After(S[Len(L)], e, Len(L) + 1) ELSE S[j]]

LEMMA LongerIs ==
  ASSUME NEW L, NEW S, Log(L, S), NEW e \in Entries
  PROVE  /\ Append(L, e) \in Seq(Entries) /\ Len(Append(L, e)) = Len(L) + 1
         /\ Append(L, e)[Len(L) + 1] = e /\ \A i \in 1..Len(L) : Append(L, e)[i] = L[i]
         /\ \A i \in 0..Len(L) : Longer(L, S, e)[i] = S[i]
         /\ Longer(L, S, e)[Len(L) + 1] = After(S[Len(L)], e, Len(L) + 1)
<1>1. L \in Seq(Entries) /\ Len(L) \in Nat
  BY LogTypes
<1> QED
  BY <1>1 DEF Longer

LEMMA LogGrows ==
  ASSUME NEW L, NEW S, Log(L, S), NEW e \in Entries, Fitting(S[Len(L)], e),
         Rests(S[Len(L)]) /\ e.kind # "init_side" => S[Len(L)].cmds < MaxCommands
  PROVE  Log(Append(L, e), Longer(L, S, e))
<1> DEFINE K == Append(L, e)
           T == Longer(L, S, e)
           N == Len(L)
<1>1. /\ L \in Seq(Entries) /\ N \in Nat /\ S \in [0..N -> Stages] /\ S[0] = Base
      /\ \A i \in 0..N : S[i] \in Stages
  BY LogTypes
<1>2. /\ K \in Seq(Entries) /\ Len(K) = N + 1 /\ K[N + 1] = e /\ \A i \in 1..N : K[i] = L[i]
      /\ \A i \in 0..N : T[i] = S[i]
      /\ T[N + 1] = After(S[N], e, N + 1)
  BY LongerIs
<1>3. S[N] \in Stages /\ N + 1 \in Nat
  BY <1>1
<1>4. Rests(S[N]) => e.kind \in Kinds
  BY DEF Fitting
<1>5. After(S[N], e, N + 1) \in Stages
  <2>1. AfterFields(S[N], e, N + 1, After(S[N], e, N + 1))
    BY <1>3, <1>4, AfterIs
  <2> QED
    BY <2>1 DEF AfterFields
<1>6. T \in [0..N+1 -> Stages]
  <2>1. \A j \in 0..N+1 : (IF j = N + 1 THEN After(S[N], e, N + 1) ELSE S[j]) \in Stages
    BY <1>1, <1>5
  <2> QED
    BY <2>1 DEF Longer
<1>7. T[0] = Base
  BY <1>1, <1>2
<1>8. /\ \A i \in 1..N : S[i] = After(S[i - 1], L[i], i) /\ Fitting(S[i - 1], L[i])
      /\ \A i \in 0..N : Sound(L, S, i)
  BY DEF Log
<1> HIDE DEF K, T
<1>9. \A i \in 1..N+1 : T[i] = After(T[i - 1], K[i], i) /\ Fitting(T[i - 1], K[i])
  <2> SUFFICES ASSUME NEW i \in 1..N+1
               PROVE  T[i] = After(T[i - 1], K[i], i) /\ Fitting(T[i - 1], K[i])
    OBVIOUS
  <2>1. CASE i = N + 1
    <3>1. T[i - 1] = S[N] /\ K[i] = e /\ T[i] = After(S[N], e, N + 1)
      BY <1>1, <1>2, <2>1
    <3> QED
      BY <2>1, <3>1
  <2>2. CASE i # N + 1
    <3>1. i \in 1..N /\ i - 1 \in 0..N /\ i \in 0..N
      BY <1>1, <2>2
    <3>2. T[i - 1] = S[i - 1] /\ K[i] = L[i] /\ T[i] = S[i]
      BY <1>2, <3>1
    <3> QED
      BY <1>8, <3>1, <3>2
  <2> QED
    BY <2>1, <2>2
<1>10. \A i \in 0..N : Sound(K, T, i)
  <2> SUFFICES ASSUME NEW i \in 0..N PROVE Sound(K, T, i)
    OBVIOUS
  <2>1. i \in Nat /\ Sound(L, S, i)
    BY <1>1, <1>8
  <2>2. (\A j \in 0..i : T[j] = S[j]) /\ (\A j \in 1..i : K[j] = L[j])
    BY <1>1, <1>2
  <2> QED
    BY <2>1, <2>2, SoundLocal
<1>11. Sound(K, T, N + 1)
  <2> DEFINE n == N + 1
  <2>1. Sound(K, T, n - 1)
    BY <1>1, <1>10
  <2>2. n \in 1..Len(K)
    BY <1>1, <1>2
  <2>3. Follows(K, T, n)
    BY <1>2, <1>6, <1>9, <2>1, <2>2 DEF Follows
  <2>4. T[n - 1] = S[N] /\ K[n] = e
    BY <1>1, <1>2
  <2>5. Rests(T[n - 1]) /\ K[n].kind # "init_side" => T[n - 1].cmds < MaxCommands
    BY <2>4
  <2> HIDE DEF n
  <2>6. Sound(K, T, n)
    BY <2>3, <2>5, SoundNext
  <2> QED
    BY <2>6 DEF n
<1>12. \A i \in 0..N+1 : Sound(K, T, i)
  <2>1. \A i \in 0..N+1 : i \in 0..N \/ i = N + 1
    BY <1>1
  <2> QED
    BY <1>10, <1>11, <2>1
<1>13. Log(K, T)
  BY <1>2, <1>6, <1>7, <1>9, <1>12 DEF Log
<1> QED
  BY <1>13 DEF K, T

\* The stages up to the n-th entry.
Shorter(S, n) == [i \in 0..n |-> S[i]]

LEMMA ShorterIs ==
  ASSUME NEW L, NEW S, Log(L, S), NEW n \in 0..Len(L)
  PROVE  /\ SubSeq(L, 1, n) \in Seq(Entries) /\ Len(SubSeq(L, 1, n)) = n
         /\ \A i \in 1..n : SubSeq(L, 1, n)[i] = L[i]
         /\ \A i \in 0..n : Shorter(S, n)[i] = S[i]
         /\ n \in Nat
<1>1. L \in Seq(Entries) /\ Len(L) \in Nat
  BY LogTypes
<1> QED
  BY <1>1 DEF Shorter

LEMMA LogCut ==
  ASSUME NEW L, NEW S, Log(L, S), NEW n \in 0..Len(L)
  PROVE  Log(SubSeq(L, 1, n), Shorter(S, n))
<1> DEFINE K == SubSeq(L, 1, n)
           T == Shorter(S, n)
           N == Len(L)
<1>1. /\ L \in Seq(Entries) /\ N \in Nat /\ S \in [0..N -> Stages] /\ S[0] = Base
      /\ \A i \in 0..N : S[i] \in Stages
  BY LogTypes
<1>2. /\ K \in Seq(Entries) /\ Len(K) = n /\ \A i \in 1..n : K[i] = L[i]
      /\ \A i \in 0..n : T[i] = S[i]
      /\ n \in Nat /\ n <= N
  BY <1>1, ShorterIs
<1>3. T \in [0..n -> Stages]
  BY <1>1, <1>2 DEF Shorter
<1>8. /\ \A i \in 1..N : S[i] = After(S[i - 1], L[i], i) /\ Fitting(S[i - 1], L[i])
      /\ \A i \in 0..N : Sound(L, S, i)
  BY DEF Log
<1> HIDE DEF K, T
<1>4. T[0] = Base
  BY <1>1, <1>2
<1>5. \A i \in 1..n : T[i] = After(T[i - 1], K[i], i) /\ Fitting(T[i - 1], K[i])
  <2> SUFFICES ASSUME NEW i \in 1..n
               PROVE  T[i] = After(T[i - 1], K[i], i) /\ Fitting(T[i - 1], K[i])
    OBVIOUS
  <2>1. i \in 1..N /\ i - 1 \in 0..n /\ i \in 0..n
    BY <1>1, <1>2
  <2>2. T[i - 1] = S[i - 1] /\ K[i] = L[i] /\ T[i] = S[i]
    BY <1>2, <2>1
  <2> QED
    BY <1>8, <2>1, <2>2
<1>6. \A i \in 0..n : Sound(K, T, i)
  <2> SUFFICES ASSUME NEW i \in 0..n PROVE Sound(K, T, i)
    OBVIOUS
  <2>0. i \in 0..N
    BY <1>1, <1>2
  <2>1. i \in Nat /\ Sound(L, S, i)
    BY <1>8, <2>0
  <2>2. (\A j \in 0..i : T[j] = S[j]) /\ (\A j \in 1..i : K[j] = L[j])
    BY <1>1, <1>2
  <2> QED
    BY <2>1, <2>2, SoundLocal
<1>7. Log(K, T)
  BY <1>2, <1>3, <1>4, <1>5, <1>6 DEF Log
<1> QED
  BY <1>7 DEF K, T

-----------------------------------------------------------------------------
(* A machine follows the stages.                                                   *)

\* A run that reads or waits for more than its own side is one in which a question was
\* asked elsewhere.
Alone(r, s) == r.run.simul => s.remote \/ Actor(s) # s.turn

\* m goes from r at stage s to x at stage t.
Moves(m, r, x, s, t) ==
  /\ x \in States /\ Untouched(x, r) /\ Stands(x, t)
  /\ x.run.phase # "pull" /\ ~x.run.local /\ ~x.run.required
  /\ x.undo <= r.undo + (IF Rests(t) THEN 1 ELSE 0)
  /\ x.run.simul => r.run.simul
  /\ r.run.simul /\ Rests(t) => x.undo = 0
  /\ Alone(r, s) => Alone(x, t)
  /\ Alone(r, s) /\ ~ComputerAt(m, r) /\ r.undo = s.undo => x.undo = t.undo

LEMMA SameAfter ==
  ASSUME NEW s, NEW e, NEW f, NEW i, Same(e, f)
  PROVE  After(s, e, i) = After(s, f, i)
<1>1. /\ NextLeft(s, e) = NextLeft(s, f) /\ NextKind(s, e) = NextKind(s, f)
      /\ NextInited(s, e) = NextInited(s, f) /\ NextUndo(s, e) = NextUndo(s, f) /\ e.kind = f.kind
  BY DEF NextLeft, NextKind, NextInited, NextUndo, Same
<1> QED
  BY <1>1 DEF After

LEMMA BeginMoves ==
  ASSUME NEW r \in States, NEW s \in Stages, NEW e \in Entries, NEW i \in Nat, NEW m,
         Stands(r, s), Rests(s), e.kind \in Kinds, e.kind = "init_side" <=> ~s.inited
  PROVE  /\ Moves(m, r, Begins(m, r, e), s, After(s, e, i))
         /\ Begins(m, r, e).pos = r.pos + 1 /\ Begins(m, r, e).game = Append(r.game, Event(e))
<1> DEFINE x == Begins(m, r, e)
           t == After(s, e, i)
           p == UndoBy(m, r, e)
           y == InitedBy(r, e)
<1>0. /\ r.undo \in Nat /\ s.undo \in Nat /\ r.inited \in BOOLEAN /\ p \in Nat /\ y \in BOOLEAN
      /\ s.inited \in BOOLEAN
  BY StateFields, StageFields DEF UndoBy, InitedBy
<1>1. /\ r.turn = s.turn /\ r.inited = s.inited /\ r.undo <= s.undo /\ r.run = NoRun
  BY DEF Stands
<1>2. ~r.run.simul
  BY <1>1, NoRunIs
<1>3. /\ x \in States /\ Untouched(x, r)
      /\ x.pos = r.pos + 1 /\ x.game = Append(r.game, Event(e))
      /\ e.script = <<>> =>
           /\ x.undo = (IF e.kind = "move" /\ ~ComputerAt(m, r) THEN p + 1 ELSE 0)
           /\ x.turn = (IF e.kind = "end_turn" THEN EndTurn(r) ELSE r.turn)
           /\ x.inited = (IF e.kind = "end_turn" THEN FALSE ELSE y)
           /\ x.run = NoRun
      /\ e.script # <<>> =>
           /\ x.undo = (IF Head(e.script) = r.turn THEN p ELSE 0)
           /\ x.turn = r.turn /\ x.inited = y
           /\ x.run.kind = e.kind /\ x.run.left = e.script /\ x.run.phase = "look"
           /\ ~x.run.simul /\ ~x.run.seeded /\ ~x.run.local /\ ~x.run.required
  <2>1. BeginsFields(m, r, e, x)
    BY BeginsIs
  <2> HIDE DEF x
  <2> QED
    BY <2>1 DEF BeginsFields
<1>4. AfterFields(s, e, i, t)
  BY AfterIs
<1>5. /\ NextLeft(s, e) = e.script /\ NextKind(s, e) = e.kind /\ ~NextRemote(s)
      /\ NextInited(s, e) = (s.inited \/ e.kind = "init_side")
      /\ NextUndo(s, e) = (IF e.kind = "end_turn" THEN 0 ELSE s.undo)
  BY DEF NextLeft, NextKind, NextRemote, NextInited, NextUndo
<1>6. NextInited(s, e) = y
  BY <1>1, <1>5 DEF InitedBy
<1>7. p <= NextUndo(s, e) /\ p <= r.undo
  BY <1>0, <1>1, <1>5 DEF UndoBy
<1>8. ~ComputerAt(m, r) /\ r.undo = s.undo => p = NextUndo(s, e)
  BY <1>5 DEF UndoBy
<1>n. NextUndo(s, e) \in Nat
  BY <1>0, <1>5
<1>9. CASE e.script = <<>>
  <2>1. /\ x.undo = (IF e.kind = "move" /\ ~ComputerAt(m, r) THEN p + 1 ELSE 0)
        /\ x.turn = (IF e.kind = "end_turn" THEN EndTurn(r) ELSE r.turn)
        /\ x.inited = (IF e.kind = "end_turn" THEN FALSE ELSE y)
        /\ x.run = NoRun
    BY <1>3, <1>9
  <2>2. /\ Rests(t) /\ t.kind = None /\ ~t.remote /\ t.left = <<>>
        /\ t.turn = (IF e.kind = "end_turn" THEN (s.turn % LastSide) + 1 ELSE s.turn)
        /\ t.inited = (IF e.kind = "end_turn" THEN FALSE ELSE NextInited(s, e))
        /\ t.undo = (IF e.kind = "move" THEN NextUndo(s, e) + 1 ELSE 0)
    BY <1>4, <1>5, <1>9 DEF AfterFields
  <2>3. x.turn = t.turn
    BY <1>1, <2>1, <2>2 DEF EndTurn
  <2>4. x.inited = t.inited
    <3>1. CASE e.kind = "end_turn"
      BY <2>1, <2>2, <3>1
    <3>2. CASE e.kind # "end_turn"
      BY <1>6, <2>1, <2>2, <3>2
    <3> QED
      BY <3>1, <3>2
  <2> HIDE DEF x, t, p, y
  <2>5. /\ x.run.kind = None /\ x.run.left = <<>> /\ x.run.phase = "idle"
        /\ ~x.run.simul /\ ~x.run.seeded /\ ~x.run.local /\ ~x.run.required
    BY <2>1, NoRunIs
  <2>6. x.undo <= t.undo /\ x.undo <= r.undo + 1
    BY <1>0, <1>7, <1>n, <2>1, <2>2
  <2>7. ~ComputerAt(m, r) /\ r.undo = s.undo => x.undo = t.undo
    BY <1>8, <2>1, <2>2
  <2>8. Stands(x, t)
    BY <2>1, <2>2, <2>3, <2>4, <2>5, <2>6 DEF Stands, Idle
  <2>9. Moves(m, r, x, s, t)
    BY <1>2, <1>3, <2>2, <2>5, <2>6, <2>7, <2>8 DEF Moves, Alone
  <2> QED
    BY <1>3, <2>9 DEF x, t
<1>10. CASE e.script # <<>>
  <2>1. /\ x.undo = (IF Head(e.script) = r.turn THEN p ELSE 0)
        /\ x.turn = r.turn /\ x.inited = y
        /\ x.run.kind = e.kind /\ x.run.left = e.script /\ x.run.phase = "look"
        /\ ~x.run.simul /\ ~x.run.seeded /\ ~x.run.local /\ ~x.run.required
    BY <1>3, <1>10
  <2>2. /\ ~Rests(t) /\ t.kind = e.kind /\ ~t.remote /\ t.left = e.script
        /\ t.turn = s.turn /\ t.inited = y
        /\ t.undo = (IF Head(e.script) = s.turn THEN NextUndo(s, e) ELSE 0)
    <3>1. /\ ~Rests(t) /\ t.kind = NextKind(s, e) /\ t.remote = NextRemote(s)
          /\ t.turn = s.turn /\ t.inited = NextInited(s, e) /\ t.left = NextLeft(s, e)
          /\ t.undo = (IF Head(NextLeft(s, e)) = s.turn THEN NextUndo(s, e) ELSE 0)
      BY <1>4, <1>5, <1>10 DEF AfterFields
    <3> QED
      BY <1>5, <1>6, <3>1
  <2> HIDE DEF x, t, p, y
  <2>6. x.undo <= t.undo /\ x.undo <= r.undo
    BY <1>0, <1>1, <1>7, <1>n, <2>1, <2>2
  <2>7. ~ComputerAt(m, r) /\ r.undo = s.undo => x.undo = t.undo
    BY <1>1, <1>8, <2>1, <2>2
  <2>8. Stands(x, t)
    BY <1>1, <2>1, <2>2, <2>6 DEF Stands, Idle
  <2>9. Moves(m, r, x, s, t)
    BY <1>0, <1>2, <1>3, <2>1, <2>2, <2>6, <2>7, <2>8 DEF Moves, Alone
  <2> QED
    BY <1>3, <2>9 DEF x, t
<1> QED
  BY <1>9, <1>10

LEMMA AnswerMoves ==
  ASSUME NEW r \in States, NEW s \in Stages, NEW e \in Entries, NEW i \in Nat, NEW m, NEW c \in Nat,
         Stands(r, s), ~Rests(s), s.kind \in Kinds,
         e.kind = IF Head(s.left) = Server THEN "seed" ELSE "choice",
         Head(s.left) # s.turn => r.run.simul
  PROVE  /\ Moves(m, r, Answered(m, r, e, c), s, After(s, e, i))
         /\ Answered(m, r, e, c).pos = r.pos + c
         /\ Answered(m, r, e, c).game = Append(r.game, Event(e))
<1> DEFINE x == Answered(m, r, e, c)
           t == After(s, e, i)
           l == Tail(s.left)
<1>0. /\ r.undo \in Nat /\ s.undo \in Nat /\ r.inited \in BOOLEAN /\ s.inited \in BOOLEAN
      /\ s.turn \in Side /\ Server \notin Side /\ r.run.simul \in BOOLEAN /\ r.run.seeded \in BOOLEAN
  BY StateFields, StageFields, SideIs DEF Server
<1>1. /\ r.turn = s.turn /\ r.inited = s.inited /\ r.undo <= s.undo
      /\ r.run.kind = s.kind /\ r.run.left = s.left /\ (s.remote => r.run.simul)
      /\ (r.run.seeded => s.remote)
  BY DEF Stands
<1>2. r.run.left # <<>> /\ l = Tail(r.run.left)
  BY <1>1 DEF Rests
<1>3. /\ x \in States /\ Untouched(x, r)
      /\ x.pos = r.pos + c /\ x.game = Append(r.game, Event(e))
      /\ l = <<>> =>
           /\ x.undo = (IF /\ r.run.kind = "move" /\ ~r.run.simul /\ ~SeededBy(r, e)
                           /\ ~ComputerAt(m, r)
                        THEN r.undo + 1 ELSE 0)
           /\ x.turn = (IF r.run.kind = "end_turn" THEN EndTurn(r) ELSE r.turn)
           /\ x.inited = (IF r.run.kind = "end_turn" THEN FALSE ELSE r.inited)
           /\ x.run = NoRun
      /\ l # <<>> =>
           /\ x.undo = (IF Head(l) = r.turn THEN r.undo ELSE 0)
           /\ x.turn = r.turn /\ x.inited = r.inited
           /\ x.run.kind = r.run.kind /\ x.run.left = l /\ x.run.phase = "look"
           /\ x.run.simul = r.run.simul /\ x.run.seeded = SeededBy(r, e)
           /\ ~x.run.local /\ ~x.run.required
  <2>1. AnsweredFields(m, r, e, c, l, x)
    BY <1>2, AnsweredIs
  <2> HIDE DEF x, l
  <2> QED
    BY <2>1 DEF AnsweredFields
<1>4. AfterFields(s, e, i, t)
  BY AfterIs
<1>5. /\ NextLeft(s, e) = l /\ NextKind(s, e) = s.kind /\ NextUndo(s, e) = s.undo
      /\ NextInited(s, e) = s.inited
  BY <1>0 DEF NextLeft, NextKind, NextInited, NextUndo
<1>6. NextRemote(s) <=> (s.remote \/ Head(s.left) # s.turn)
  BY DEF NextRemote
<1>7. SeededBy(r, e) => NextRemote(s)
  BY <1>0, <1>1, <1>6 DEF SeededBy
<1>8. NextRemote(s) => r.run.simul
  BY <1>1, <1>6
<1>9. Alone(r, s) => (r.run.simul => NextRemote(s))
  <2>1. Actor(s) = Head(s.left)
    BY ActorIs
  <2> QED
    BY <1>6, <2>1 DEF Alone
<1>10. CASE l = <<>>
  <2>1. /\ x.undo = (IF /\ s.kind = "move" /\ ~r.run.simul /\ ~SeededBy(r, e)
                        /\ ~ComputerAt(m, r)
                     THEN r.undo + 1 ELSE 0)
        /\ x.turn = (IF s.kind = "end_turn" THEN EndTurn(r) ELSE r.turn)
        /\ x.inited = (IF s.kind = "end_turn" THEN FALSE ELSE r.inited)
        /\ x.run = NoRun
    <3> HIDE DEF x, l
    <3> QED
    BY <1>1, <1>3, <1>10
  <2>2. /\ Rests(t) /\ t.kind = None /\ ~t.remote /\ t.left = <<>>
        /\ t.turn = (IF s.kind = "end_turn" THEN (s.turn % LastSide) + 1 ELSE s.turn)
        /\ t.inited = (IF s.kind = "end_turn" THEN FALSE ELSE s.inited)
        /\ t.undo = (IF s.kind = "move" /\ ~NextRemote(s) THEN s.undo + 1 ELSE 0)
    <3> HIDE DEF t, l
    <3>1. /\ Rests(t) /\ t.kind = None /\ ~t.remote /\ t.left = NextLeft(s, e)
          /\ t.turn = (IF NextKind(s, e) = "end_turn" THEN (s.turn % LastSide) + 1 ELSE s.turn)
          /\ t.inited = (IF NextKind(s, e) = "end_turn" THEN FALSE ELSE NextInited(s, e))
          /\ t.undo = (IF NextKind(s, e) = "move" /\ ~NextRemote(s) THEN NextUndo(s, e) + 1 ELSE 0)
      BY <1>4, <1>5, <1>10 DEF AfterFields
    <3> QED
      BY <1>5, <1>10, <3>1
  <2>3. x.turn = t.turn
    BY <1>1, <2>1, <2>2 DEF EndTurn
  <2>4. x.inited = t.inited
    BY <1>1, <2>1, <2>2, Zenon
  <2> HIDE DEF x, t, l
  <2>5. /\ x.run.kind = None /\ x.run.left = <<>> /\ x.run.phase = "idle"
        /\ ~x.run.simul /\ ~x.run.seeded /\ ~x.run.local /\ ~x.run.required
    BY <2>1, NoRunIs
  <2>6. x.undo <= t.undo /\ x.undo <= r.undo + 1
    BY <1>0, <1>1, <1>8, <2>1, <2>2
  <2>7. Alone(r, s) /\ ~ComputerAt(m, r) /\ r.undo = s.undo => x.undo = t.undo
    BY <1>7, <1>8, <1>9, <2>1, <2>2
  <2>a. r.run.simul => x.undo = 0
    BY <2>1
  <2>8. Stands(x, t)
    BY <2>1, <2>2, <2>3, <2>4, <2>5, <2>6 DEF Stands, Idle
  <2>9. Moves(m, r, x, s, t)
    BY <1>3, <2>2, <2>5, <2>6, <2>7, <2>8, <2>a DEF Moves, Alone
  <2> QED
    BY <1>3, <2>9 DEF x, t
<1>11. CASE l # <<>>
  <2>1. /\ x.undo = (IF Head(l) = s.turn THEN r.undo ELSE 0)
        /\ x.turn = s.turn /\ x.inited = s.inited
        /\ x.run.kind = s.kind /\ x.run.left = l /\ x.run.phase = "look"
        /\ x.run.simul = r.run.simul /\ x.run.seeded = SeededBy(r, e)
        /\ ~x.run.local /\ ~x.run.required
    <3> HIDE DEF x, l
    <3> QED
      BY <1>1, <1>3, <1>11
  <2>2. /\ ~Rests(t) /\ t.kind = s.kind /\ t.remote = NextRemote(s) /\ t.left = l
        /\ t.turn = s.turn /\ t.inited = s.inited
        /\ t.undo = (IF Head(l) = s.turn THEN s.undo ELSE 0)
    <3> HIDE DEF t, l
    <3>1. /\ ~Rests(t) /\ t.kind = NextKind(s, e) /\ t.remote = NextRemote(s)
          /\ t.turn = s.turn /\ t.inited = NextInited(s, e) /\ t.left = NextLeft(s, e)
          /\ t.undo = (IF Head(NextLeft(s, e)) = s.turn THEN NextUndo(s, e) ELSE 0)
      BY <1>4, <1>5, <1>11 DEF AfterFields
    <3> QED
      BY <1>5, <3>1
  <2> HIDE DEF x, t, l
  <2>6. x.undo <= t.undo /\ x.undo <= r.undo
    BY <1>0, <1>1, <2>1, <2>2
  <2>7. r.undo = s.undo => x.undo = t.undo
    BY <1>1, <2>1, <2>2
  <2>8. Stands(x, t)
    BY <1>7, <1>8, <2>1, <2>2, <2>6 DEF Stands, Idle
  <2>a. Alone(r, s) => Alone(x, t)
    <3>1. Alone(r, s) => (x.run.simul => t.remote)
      BY <1>9, <2>1, <2>2
    <3> QED
      BY <3>1 DEF Alone
  <2>9. Moves(m, r, x, s, t)
    BY <1>0, <1>3, <2>1, <2>2, <2>6, <2>7, <2>8, <2>a DEF Moves
  <2> QED
    BY <1>3, <2>9 DEF x, t
<1> QED
  BY <1>10, <1>11

-----------------------------------------------------------------------------
(* Parts of sequences.                                                             *)

\* A set of numbers that is not empty has a least one.
LEMMA LeastNat ==
  ASSUME NEW T \in SUBSET Nat, T # {}
  PROVE  \E x \in T : \A y \in T : x <= y
<1>1. IsWellFoundedOn(OpToRel(<, Nat), Nat)
  BY NatLessThanWellFounded
<1>2. PICK x \in T : \A y \in T : ~ (<<y, x>> \in OpToRel(<, Nat))
  BY <1>1, WFMin, Zenon
<1>3. \A y \in T : ~(y < x)
  BY <1>2 DEF OpToRel
<1>4. \A y \in T : x <= y
  BY <1>3, SMT
<1> QED
  BY <1>4

\* What holds from lo on, step by step, holds for all that follow.
LEMMA UpFrom ==
  ASSUME NEW lo \in Nat, NEW hi \in Nat, NEW G,
         lo \in G, \A i \in lo..hi : i # lo /\ i - 1 \in G => i \in G
  PROVE  \A i \in lo..hi : i \in G
<1> SUFFICES ASSUME NEW i \in lo..hi, i \notin G PROVE FALSE
  OBVIOUS
<1> DEFINE T == {n \in lo..hi : n \notin G}
<1>1. T \in SUBSET Nat /\ T # {}
  OBVIOUS
<1>2. PICK x \in T : \A y \in T : x <= y
  BY <1>1, LeastNat
<1>3. x # lo /\ x - 1 \in lo..hi /\ x - 1 \in Nat /\ ~(x <= x - 1)
  BY <1>2
<1>4. x - 1 \in G
  BY <1>2, <1>3
<1> QED
  BY <1>2, <1>3, <1>4

\* A function that is defined by recursion exists: q runs through D from base by the
\* steps of F.
Steps(F, N, D) == F \in [1..N -> [D -> D]]
Climbs(q, N, D, base, F) ==
  q \in [0..N -> D] /\ q[0] = base /\ \A i \in 1..N : q[i] = F[i][q[i - 1]]

LEMMA Recursion ==
  ASSUME NEW N \in Nat, NEW D, NEW base \in D, NEW F, Steps(F, N, D)
  PROVE  \E q : Climbs(q, N, D, base, F)
<1> DEFINE G == {n \in 0..N : \E q : Climbs(q, n, D, base, F)}
<1>1. 0 \in G
  <2> DEFINE q == [i \in 0..0 |-> base]
  <2>1. Climbs(q, 0, D, base, F)
    BY DEF Climbs
  <2> QED
    BY <2>1
<1>2. ASSUME NEW n \in 1..N, n - 1 \in G PROVE n \in G
  <2>1. PICK q : Climbs(q, n - 1, D, base, F)
    BY <1>2
  <2> DEFINE r == [i \in 0..n |-> IF i = n THEN F[n][q[n - 1]] ELSE q[i]]
  <2>2. q[n - 1] \in D /\ F[n][q[n - 1]] \in D
    BY <2>1 DEF Climbs, Steps
  <2>3. r \in [0..n -> D]
    BY <2>1, <2>2 DEF Climbs
  <2>4. r[0] = base /\ \A i \in 1..n : r[i] = F[i][r[i - 1]]
    <3>1. \A i \in 1..n : r[i - 1] = q[i - 1] /\ (i # n => i \in 1..(n - 1) /\ r[i] = q[i])
      OBVIOUS
    <3>2. r[0] = q[0] /\ r[n] = F[n][q[n - 1]]
      OBVIOUS
    <3> QED
      BY <2>1, <3>1, <3>2 DEF Climbs
  <2> HIDE DEF r
  <2>5. Climbs(r, n, D, base, F)
    BY <2>3, <2>4 DEF Climbs
  <2>6. n \in 0..N
    OBVIOUS
  <2> QED
    BY <2>5, <2>6
<1>3. \A i \in 0..N : i # 0 /\ i - 1 \in G => i \in G
  BY <1>2
<1>4. N \in G
  <2> HIDE DEF G
  <2> QED
    BY <1>1, <1>3, UpFrom
<1> QED
  BY <1>4

KeptStep(s, I, n, t) == IF n \in I THEN Append(t, s[n]) ELSE t

Unfolds(k, s, I, S) ==
  /\ k \in [0..Len(s) -> Seq(S)]
  /\ k[0] = <<>>
  /\ \A n \in 1..Len(s) : k[n] = KeptStep(s, I, n, k[n - 1])

LEMMA KeptUnfolds ==
  ASSUME NEW S, NEW s \in Seq(S), NEW I
  PROVE  \E k : Unfolds(k, s, I, S) /\ Kept(s, I) = k[Len(s)]
<1> DEFINE Def(kept) == [n \in 0..Len(s) |->
                           IF n = 0 THEN <<>> ELSE KeptStep(s, I, n, kept[n - 1])]
           F == [n \in 1..Len(s) |-> [t \in Seq(S) |-> KeptStep(s, I, n, t)]]
           C == CHOOSE kept : kept = Def(kept)
<1>a. Len(s) \in Nat /\ \A n \in 1..Len(s) : s[n] \in S
  OBVIOUS
<1>b. \A n \in 1..Len(s), t \in Seq(S) : KeptStep(s, I, n, t) \in Seq(S)
  BY <1>a DEF KeptStep
<1>c. Steps(F, Len(s), Seq(S))
  BY <1>b DEF Steps
<1>d. PICK q : Climbs(q, Len(s), Seq(S), <<>>, F)
  <2>1. <<>> \in Seq(S)
    OBVIOUS
  <2> HIDE DEF F
  <2> QED
    BY <1>a, <1>c, <2>1, Recursion
<1>e. ASSUME NEW i \in 1..Len(s) PROVE q[i] = KeptStep(s, I, i, q[i - 1])
  <2>1. q[i - 1] \in Seq(S)
    BY <1>a, <1>d DEF Climbs
  <2>2. q[i] = F[i][q[i - 1]]
    BY <1>d DEF Climbs
  <2> QED
    BY <2>1, <2>2
<1>f. q = Def(q)
  BY <1>a, <1>d, <1>e DEF Climbs
<1>g. C = Def(C)
  <2> HIDE DEF Def
  <2> QED
    BY <1>f
<1>h. Kept(s, I) = C[Len(s)]
  BY DEF Kept, KeptStep
<1> HIDE DEF C
<1>i. \A n \in 0..Len(s) : C[n] = IF n = 0 THEN <<>> ELSE KeptStep(s, I, n, C[n - 1])
  BY <1>g
<1>j. C[0] = <<>> /\ \A n \in 1..Len(s) : C[n] = KeptStep(s, I, n, C[n - 1])
  BY <1>a, <1>i
<1>k. \A n \in 0..Len(s) : C[n] \in Seq(S)
  <2> DEFINE G == {n \in 0..Len(s) : C[n] \in Seq(S)}
  <2>1. <<>> \in Seq(S) /\ 0 \in 0..Len(s)
    BY <1>a
  <2>2. C[0] \in Seq(S) /\ G \in SUBSET Nat
    BY <1>a, <1>j, <2>1
  <2>5. 0 \in G
    BY <2>1, <2>2
  <2>3. ASSUME NEW n \in 0..Len(s), n # 0, n - 1 \in G PROVE n \in G
    <3>1. n \in 1..Len(s)
      BY <1>a, <2>3
    <3> QED
      BY <1>b, <1>j, <2>3, <3>1
  <2> HIDE DEF G
  <2>4. \A n \in 0..Len(s) : n \in G
    BY <1>a, <2>3, <2>5, UpFrom
  <2> QED
    BY <2>4 DEF G
<1>l. C = [n \in 0..Len(s) |-> C[n]]
  BY <1>g
<1>m. C \in [0..Len(s) -> Seq(S)]
  BY <1>k, <1>l
<1> QED
  BY <1>h, <1>j, <1>m DEF Unfolds


\* What is kept when nothing before the c-th goes on, or nothing after it.
LEMMA KeptEnd ==
  ASSUME NEW X, NEW s \in Seq(X), NEW I, NEW c \in 0..Len(s),
         \A i \in 1..Len(s) : i \in I <=> i > c
  PROVE  /\ Kept(s, I) \in Seq(X) /\ Len(Kept(s, I)) = Len(s) - c
         /\ \A i \in 1..Len(s) - c : Kept(s, I)[i] = s[c + i]
<1>0. PICK k : Unfolds(k, s, I, X) /\ Kept(s, I) = k[Len(s)]
  BY KeptUnfolds
<1>1. /\ k \in [0..Len(s) -> Seq(X)]
      /\ k[0] = <<>>
      /\ \A n \in 1..Len(s) : k[n] = KeptStep(s, I, n, k[n - 1])
  BY <1>0 DEF Unfolds
<1>2. Len(s) \in Nat /\ \A i \in 1..Len(s) : s[i] \in X
  OBVIOUS
<1> DEFINE D(n) == IF n <= c THEN 0 ELSE n - c
           G == {n \in 0..Len(s) : Len(k[n]) = D(n) /\ \A i \in 1..D(n) : k[n][i] = s[c + i]}
<1>3. 0 \in G
  BY <1>1, <1>2
<1>4. ASSUME NEW n \in 0..Len(s), n # 0, n - 1 \in G PROVE n \in G
  <2>r. n \in 1..Len(s) /\ n - 1 \in 0..Len(s)
    BY <1>2, <1>4 DEF G
  <2>1. n \in 1..Len(s) /\ n - 1 \in 0..Len(s) /\ k[n - 1] \in Seq(X) /\ k[n] = KeptStep(s, I, n, k[n - 1])
    BY <1>1, <2>r
  <2>2. CASE n <= c
    BY <1>4, <2>1, <2>2 DEF KeptStep
  <2>3. CASE n > c
    <3>1. k[n] = Append(k[n - 1], s[n]) /\ Len(k[n - 1]) = n - 1 - c
      BY <1>4, <2>1, <2>3 DEF KeptStep
    <3>2. Len(k[n]) = n - c /\ \A i \in 1..n - c : k[n][i] = IF i = n - c THEN s[n] ELSE k[n - 1][i]
      BY <1>2, <2>1, <2>3, <3>1
    <3>3. \A i \in 1..n - c : k[n][i] = s[c + i]
      BY <1>4, <2>1, <2>3, <3>2
    <3> QED
      BY <2>3, <3>2, <3>3
  <2> QED
    BY <2>1, <2>2, <2>3
<1>5. Len(s) \in G
  <2> HIDE DEF G
  <2>1. \A i \in 0..Len(s) : i # 0 /\ i - 1 \in G => i \in G
    BY <1>4
  <2>2. \A i \in 0..Len(s) : i \in G
    BY <1>2, <1>3, <2>1, UpFrom
  <2> QED
    BY <1>2, <2>2
<1> QED
  BY <1>0, <1>1, <1>2, <1>5

LEMMA KeptStart ==
  ASSUME NEW X, NEW s \in Seq(X), NEW I, NEW c \in 0..Len(s),
         \A i \in 1..Len(s) : i \in I <=> i <= c
  PROVE  /\ Kept(s, I) \in Seq(X) /\ Len(Kept(s, I)) = c
         /\ \A i \in 1..c : Kept(s, I)[i] = s[i]
<1>0. PICK k : Unfolds(k, s, I, X) /\ Kept(s, I) = k[Len(s)]
  BY KeptUnfolds
<1>1. /\ k \in [0..Len(s) -> Seq(X)]
      /\ k[0] = <<>>
      /\ \A n \in 1..Len(s) : k[n] = KeptStep(s, I, n, k[n - 1])
  BY <1>0 DEF Unfolds
<1>2. Len(s) \in Nat /\ \A i \in 1..Len(s) : s[i] \in X
  OBVIOUS
<1> DEFINE D(n) == IF n <= c THEN n ELSE c
           G == {n \in 0..Len(s) : Len(k[n]) = D(n) /\ \A i \in 1..D(n) : k[n][i] = s[i]}
<1>3. 0 \in G
  BY <1>1, <1>2
<1>4. ASSUME NEW n \in 0..Len(s), n # 0, n - 1 \in G PROVE n \in G
  <2>r. n \in 1..Len(s) /\ n - 1 \in 0..Len(s)
    BY <1>2, <1>4 DEF G
  <2>1. n \in 1..Len(s) /\ n - 1 \in 0..Len(s) /\ k[n - 1] \in Seq(X) /\ k[n] = KeptStep(s, I, n, k[n - 1])
    BY <1>1, <2>r
  <2>2. CASE n > c
    BY <1>4, <2>1, <2>2 DEF KeptStep
  <2>3. CASE n <= c
    <3>1. k[n] = Append(k[n - 1], s[n]) /\ Len(k[n - 1]) = n - 1
      BY <1>4, <2>1, <2>3 DEF KeptStep
    <3>2. Len(k[n]) = n /\ \A i \in 1..n : k[n][i] = IF i = n THEN s[n] ELSE k[n - 1][i]
      BY <1>2, <2>1, <2>3, <3>1
    <3>3. \A i \in 1..n : k[n][i] = s[i]
      BY <1>4, <2>1, <2>3, <3>2
    <3> QED
      BY <2>3, <3>2, <3>3
  <2> QED
    BY <2>1, <2>2, <2>3
<1>5. Len(s) \in G
  <2> HIDE DEF G
  <2>1. \A i \in 0..Len(s) : i # 0 /\ i - 1 \in G => i \in G
    BY <1>4
  <2>2. \A i \in 0..Len(s) : i \in G
    BY <1>2, <1>3, <2>1, UpFrom
  <2> QED
    BY <1>2, <2>2
<1> QED
  BY <1>0, <1>1, <1>2, <1>5

LEMMA MaxIs ==
  ASSUME NEW T \in SUBSET Int, NEW n \in T, \A y \in T : y <= n
  PROVE  Max(T) = n
<1> DEFINE P(x) == x \in T /\ \A y \in T : x >= y
<1>1. P(n)
  OBVIOUS
<1>2. Max(T) = CHOOSE x : P(x)
  BY DEF Max
<1>3. P(Max(T))
  BY <1>1, <1>2
<1>4. Max(T) \in Int /\ n \in Int /\ Max(T) >= n /\ n >= Max(T)
  BY <1>3
<1> QED
  BY <1>4

\* A machine's record r.rec is the log so far.
Copies(r, L) == Len(r.rec) <= Len(L) /\ \A i \in 1..Len(r.rec) : Same(r.rec[i], L[i])

\* How much of the record was sent.
Marks(r, C) ==
  /\ r.upto <= C
  /\ \A i \in 1..Len(r.rec) : IF i <= C THEN i <= r.upto \/ r.rec[i].sent ELSE ~r.rec[i].sent

LEMMA MessageIs ==
  ASSUME NEW e \in Entries
  PROVE  /\ Message("entry", e) \in Messages /\ Message("entry", e).what = "entry"
         /\ Message("entry", e).body = e
  BY Zenon DEF Message, Messages

LEMMA RestIs ==
  ASSUME NEW s \in Seq(Entries), NEW upto \in Nat, NEW c \in 0..Len(s),
         \A i \in 1..Len(s) : i > upto /\ ~s[i].sent <=> i > c
  PROVE  /\ Unsent(s, upto) \in Seq(Entries) /\ Len(Unsent(s, upto)) = Len(s) - c
         /\ \A i \in 1..Len(s) - c : Unsent(s, upto)[i] = s[c + i]
<1> DEFINE I == {i \in upto+1..Len(s) : ~s[i].sent}
<1>1. \A i \in 1..Len(s) : i \in I <=> i > c
  OBVIOUS
<1>2. Unsent(s, upto) = Kept(s, I)
  BY DEF Unsent
<1>3. /\ Kept(s, I) \in Seq(Entries) /\ Len(Kept(s, I)) = Len(s) - c
      /\ \A i \in 1..Len(s) - c : Kept(s, I)[i] = s[c + i]
  <2> HIDE DEF I
  <2> QED
    BY <1>1, KeptEnd
<1> QED
  BY <1>2, <1>3

\* What a machine sends when it has nothing to undo: the entries that it wrote last.
LEMMA UnsentIs ==
  ASSUME NEW r \in States, NEW L, NEW S, Log(L, S), Copies(r, L), NEW C \in Nat, Marks(r, C)
  PROVE  LET c == IF Len(r.rec) <= C THEN Len(r.rec) ELSE C
             u == Unsent(r.rec, r.upto)
         IN  /\ u \in Seq(Entries) /\ Len(u) = Len(r.rec) - c
             /\ \A i \in 1..Len(r.rec) - c : u[i] = r.rec[c + i] /\ Received(u[i]) = L[c + i]
<1> DEFINE c == IF Len(r.rec) <= C THEN Len(r.rec) ELSE C
           u == Unsent(r.rec, r.upto)
<1>1. r.rec \in Seq(Entries) /\ r.upto \in Nat
  BY StateFields
<1>2. Len(r.rec) \in Nat /\ c \in 0..Len(r.rec) /\ \A i \in 1..Len(r.rec) : r.rec[i] \in Entries
  BY <1>1
<1>3. \A i \in 1..Len(r.rec) : i > r.upto /\ ~r.rec[i].sent <=> i > c
  BY <1>1, <1>2 DEF Marks
<1>5. /\ u \in Seq(Entries) /\ Len(u) = Len(r.rec) - c
      /\ \A i \in 1..Len(r.rec) - c : u[i] = r.rec[c + i]
  <2> HIDE DEF c
  <2> QED
    BY <1>1, <1>2, <1>3, RestIs
<1>6. ASSUME NEW i \in 1..Len(r.rec) - c PROVE Received(u[i]) = L[c + i]
  <2>1. c + i \in 1..Len(r.rec) /\ c + i \in 1..Len(L)
    BY <1>2, LogTypes DEF Copies
  <2>2. Same(r.rec[c + i], L[c + i]) /\ L[c + i].sent /\ L[c + i] \in Entries /\ r.rec[c + i] \in Entries
    BY <2>1, <1>2, LogTypes DEF Copies, Log, Fitting
  <2>3. Received(r.rec[c + i]) \in Entries /\ Received(r.rec[c + i]).sent /\ Same(Received(r.rec[c + i]), r.rec[c + i])
    BY <2>2, EntryFields
  <2>4. Same(Received(r.rec[c + i]), L[c + i]) /\ Received(r.rec[c + i]).sent = L[c + i].sent
    <3>1. Same(Received(r.rec[c + i]), L[c + i])
      BY <2>2, <2>3 DEF Same
    <3>2. Received(r.rec[c + i]).sent \in BOOLEAN /\ L[c + i].sent \in BOOLEAN
      BY <2>2, <2>3, EntryFields
    <3> QED
      BY <3>1, <3>2, <2>2, <2>3, Zenon
  <2>5. Received(r.rec[c + i]) = L[c + i]
    BY <2>2, <2>3, <2>4, SameEntry
  <2> QED
    BY <2>5, <1>5
<1> QED
  BY <1>5, <1>6

LEMMA PacketIs ==
  ASSUME NEW r \in States, NEW L, NEW S, Log(L, S), Copies(r, L), NEW C \in Nat, Marks(r, C)
  PROVE  /\ r.undo # 0 => Outgoing(r) = <<>> /\ Packet(r) = <<>>
         /\ Len(r.rec) <= C => Outgoing(r) = <<>> /\ Packet(r) = <<>>
         /\ r.undo = 0 /\ Len(r.rec) > C =>
              /\ Packet(r) \in Seq(Messages) /\ Len(Packet(r)) = Len(r.rec) - C
              /\ \A i \in 1..Len(r.rec) - C : Packet(r)[i] = Message("entry", L[C + i])
<1>1. r.rec \in Seq(Entries) /\ r.undo \in Nat /\ Len(r.rec) \in Nat
  BY StateFields
<1> DEFINE c == IF Len(r.rec) <= C THEN Len(r.rec) ELSE C
           u == Unsent(r.rec, r.upto)
<1>2. /\ u \in Seq(Entries) /\ Len(u) = Len(r.rec) - c
      /\ \A i \in 1..Len(r.rec) - c : u[i] = r.rec[c + i] /\ Received(u[i]) = L[c + i]
  BY UnsentIs
<1> HIDE DEF u
<1>3. Outgoing(r) = IF r.undo > 0 THEN <<>> ELSE u
  BY DEF Outgoing, u
<1>4. Outgoing(r) = <<>> => Packet(r) = <<>>
  BY DEF Packet
<1>5. Len(r.rec) <= C => u = <<>>
  BY <1>1, <1>2
<1>6. ASSUME r.undo = 0, Len(r.rec) > C
      PROVE  /\ Packet(r) \in Seq(Messages) /\ Len(Packet(r)) = Len(r.rec) - C
             /\ \A i \in 1..Len(r.rec) - C : Packet(r)[i] = Message("entry", L[C + i])
  <2>0. c = C /\ Outgoing(r) = u
    BY <1>1, <1>3, <1>6
  <2>a. Len(u) = Len(r.rec) - C /\ u \in Seq(Entries)
    BY <2>0, <1>2
  <2>b. DOMAIN u = 1..Len(u)
    BY <2>a
  <2>1. Outgoing(r) = u /\ Len(u) = Len(r.rec) - C /\ DOMAIN u = 1..Len(r.rec) - C
    BY <2>0, <2>a, <2>b
  <2>2. Packet(r) = [i \in 1..Len(r.rec) - C |-> Message("entry", Received(u[i]))]
    BY <2>1 DEF Packet
  <2>3. \A i \in 1..Len(r.rec) - C : Received(u[i]) = L[C + i] /\ L[C + i] \in Entries
    BY <1>1, <1>2, <1>6, LogTypes DEF Copies
  <2>4. \A i \in 1..Len(r.rec) - C : Packet(r)[i] = Message("entry", L[C + i]) /\ Message("entry", L[C + i]) \in Messages
    BY <2>2, <2>3, MessageIs
  <2>5. Len(r.rec) - C \in Nat
    BY <1>1, <1>6
  <2>6. [i \in 1..Len(r.rec) - C |-> Message("entry", Received(u[i]))] \in Seq(Messages)
    <3> DEFINE f == [i \in 1..Len(r.rec) - C |-> Message("entry", Received(u[i]))]
    <3>1. \A i \in 1..Len(r.rec) - C : Message("entry", Received(u[i])) \in Messages
      BY <2>3, MessageIs
    <3>2. f \in [1..Len(r.rec) - C -> Messages]
      BY <3>1, Zenon
    <3> HIDE DEF f
    <3>3. f \in Seq(Messages)
      BY <3>2, <2>5, SeqDef
    <3> QED
      BY <3>3 DEF f
  <2>7. Len([i \in 1..Len(r.rec) - C |-> Message("entry", Received(u[i]))]) = Len(r.rec) - C
    BY <2>5
  <2> QED
    BY <2>2, <2>4, <2>6, <2>7
<1> QED
  BY <1>1, <1>3, <1>4, <1>5, <1>6

-----------------------------------------------------------------------------
\* Undo.

\* b is the last command of the record, a move that was not sent.
LastMove(r, b) ==
  /\ b \in 1..Len(r.rec) /\ r.rec[b].kind = "move" /\ ~r.rec[b].sent
  /\ \A i \in b+1..Len(r.rec) : r.rec[i].kind \in {"choice", "seed"}

LEMMA UndoCutIs ==
  ASSUME NEW r \in States, NEW b, LastMove(r, b)
  PROVE  UndoCut(r.rec) = SubSeq(r.rec, 1, b - 1)
<1> DEFINE s == r.rec
<1>1. s \in Seq(Entries) /\ Len(s) \in Nat /\ b \in 1..Len(s) /\ \A i \in 1..Len(s) : s[i] \in Entries
  BY StateFields DEF LastMove
<1>2. /\ s[b].kind = "move" /\ ~s[b].sent
      /\ \A i \in b+1..Len(s) : s[i].kind \in {"choice", "seed"}
  BY DEF LastMove
<1> HIDE DEF s
<1>3. Real(s[b]) /\ \A i \in b+1..Len(s) : ~Real(s[i])
  BY <1>2 DEF Real, Undoable, Async, Dependent
<1>4. LastReal(s) = b
  <2> DEFINE T == {0} \cup {i \in DOMAIN s : Real(s[i]) /\ ~s[i].sent}
  <2>1. T \in SUBSET Int /\ b \in T /\ \A y \in T : y <= b
    BY <1>1, <1>2, <1>3
  <2>2. LastReal(s) = Max(T)
    BY DEF LastReal
  <2> HIDE DEF T
  <2> QED
    BY <2>1, <2>2, MaxIs
<1> DEFINE I == {i \in DOMAIN s : i <= b \/ ~Dependent(s[i])}
           w == WithoutAnswers(s, b)
<1>5. \A i \in 1..Len(s) : i \in I <=> i <= b
  BY <1>1, <1>2 DEF Dependent
<1>6. w = Kept(s, I)
  BY DEF WithoutAnswers
<1>7. w \in Seq(Entries) /\ Len(w) = b /\ \A i \in 1..b : w[i] = s[i]
  <2> HIDE DEF I, w
  <2> QED
    BY <1>1, <1>5, <1>6, KeptStart
<1> HIDE DEF w, I
<1>8. Repaired(w, b) = w
  <2>1. DOMAIN w = 1..b
    BY <1>1, <1>7
  <2>2. Repaired(w, b) = [i \in 1..b |-> w[i]]
    BY <2>1, <1>1 DEF Repaired
  <2> QED
    BY <2>1, <2>2, <1>7
<1>9. UndoCut(s) = RemoveAt(Repaired(w, b), b)
  <2>1. b # 0
    BY <1>1
  <2> QED
    BY <1>2, <1>4, <2>1, Zenon DEF UndoCut, w
<1>10. RemoveAt(w, b) = SubSeq(w, 1, b - 1)
  BY <1>1, <1>7 DEF RemoveAt
<1>11. SubSeq(w, 1, b - 1) = SubSeq(s, 1, b - 1)
  BY <1>1, <1>7
<1> QED
  BY <1>8, <1>9, <1>10, <1>11 DEF s

LEMMA TakenBackIs ==
  ASSUME NEW game \in Seq(Happens), NEW b \in 1..Len(game), game[b].kind \in Kinds,
         \A i \in b+1..Len(game) : game[i].kind \notin Kinds
  PROVE  TakenBack(game) = SubSeq(game, 1, b - 1)
<1> DEFINE T == {i \in DOMAIN game : game[i].kind \in Kinds}
<1>1. T \in SUBSET Int /\ b \in T /\ \A y \in T : y <= b
  OBVIOUS
<1>2. TakenBack(game) = SubSeq(game, 1, Max(T) - 1)
  BY DEF TakenBack
<1> HIDE DEF T
<1> QED
  BY <1>1, <1>2, MaxIs

-----------------------------------------------------------------------------
(* One machine m does something, the others hear of it at most.                    *)

\* m writes an entry, or not.
Extends(L, S, L2, S2, F, m) ==
  /\ Log(L, S) /\ Log(L2, S2) /\ (Len(L2) = Len(L) \/ Len(L2) = Len(L) + 1)
  /\ \A i \in 1..Len(L) : L2[i] = L[i]
  /\ \A i \in 0..Len(L) : S2[i] = S[i]
  /\ Len(L2) = Len(L) + 1 =>
       LET s == S[Len(L)] IN F[IF Actor(s) = Server THEN s.turn ELSE Actor(s)] = m

\* The messages P say what is in the log behind C, or nothing is sent.
Spread(L2, C, C2, P) ==
  /\ P \in Seq(Messages)
  /\ \/ C2 = C /\ P = <<>>
     \/ C2 = Len(L2) /\ Len(P) = Len(L2) - C /\ \A i \in 1..Len(P) : P[i] = Message("entry", L2[C + i])

LEMMA ExtendsTypes ==
  ASSUME NEW L, NEW S, NEW L2, NEW S2, NEW F, NEW m, Extends(L, S, L2, S2, F, m)
  PROVE  /\ L \in Seq(Entries) /\ Len(L) \in Nat /\ L2 \in Seq(Entries) /\ Len(L2) \in Nat
         /\ S \in [0..Len(L) -> Stages] /\ S2 \in [0..Len(L2) -> Stages] /\ Len(L) <= Len(L2)
         /\ \A i \in 0..Len(L) : S[i] \in Stages
         /\ \A i \in 0..Len(L2) : S2[i] \in Stages
  BY LogTypes DEF Extends

\* The entries that y has, or will read.
LEMMA TotalIs ==
  ASSUME NEW r \in States, NEW q \in Seq(Messages), NEW k \in 0..Len(q)
  PROVE  /\ Total(r, q, k) \in Nat /\ Len(r.rec) <= Total(r, q, k) /\ Len(q) \in Nat /\ Len(r.rec) \in Nat
         /\ r.pos \in Nat /\ k \in Nat
         /\ k # 0 => GapAt(r, k) <= Total(r, q, k) /\ GapAt(r, k) \in Nat /\ GapAt(r, k) >= Len(r.rec)
         /\ \A j \in 1..Len(q) : Index(r, k, j) \in 1..Total(r, q, k) \/ j = k
         /\ \A j \in 1..Len(q) : Index(r, k, j) \in Nat
<1>1. r.rec \in Seq(Entries) /\ Len(r.rec) \in Nat /\ Len(q) \in Nat /\ r.pos \in Nat
  BY StateFields
<1> QED
  BY <1>1 DEF Total, GapAt, Index

\* y's inbox when P is put behind it.
Hears(L, S, L2, S2, F, m, C, C2, P, r, q, k) ==
  /\ Extends(L, S, L2, S2, F, m) /\ C \in 0..Len(L) /\ C2 \in Nat /\ Spread(L2, C, C2, P)
  /\ r \in States /\ q \in Seq(Messages) /\ Inbox(r, q, k, L) /\ Total(r, q, k) = C

Heard(L2, C2, q, p, r, k) ==
  /\ p \in Seq(Messages) /\ Inbox(r, p, k, L2) /\ Total(r, p, k) = C2
  /\ k # 0 => p[k] = q[k]

LEMMA InboxGrows ==
  ASSUME NEW L, NEW S, NEW L2, NEW S2, NEW F, NEW m, NEW C, NEW C2, NEW P, NEW r, NEW q, NEW k,
         Hears(L, S, L2, S2, F, m, C, C2, P, r, q, k)
  PROVE  Heard(L2, C2, q, q \o P, r, k)
<1> USE DEF Hears
<1>1. /\ k \in 0..Len(q) /\ L \in Seq(Entries) /\ Len(L) \in Nat /\ L2 \in Seq(Entries) /\ Len(L2) \in Nat
      /\ Len(L) <= Len(L2) /\ P \in Seq(Messages) /\ Len(P) \in Nat /\ Len(q) \in Nat
  BY ExtendsTypes DEF Inbox, Spread
<1>2. /\ q \o P \in Seq(Messages) /\ Len(q \o P) = Len(q) + Len(P)
      /\ \A j \in 1..Len(q) : (q \o P)[j] = q[j]
      /\ \A i \in 1..Len(P) : (q \o P)[Len(q) + i] = P[i]
  BY <1>1
<1> DEFINE Q == q \o P
<1> HIDE DEF Q
<1>3. /\ Q \in Seq(Messages) /\ Len(Q) = Len(q) + Len(P)
      /\ \A j \in 1..Len(q) : Q[j] = q[j]
      /\ \A i \in 1..Len(P) : Q[Len(q) + i] = P[i]
  BY <1>2 DEF Q
<1>4. Len(P) = C2 - C
  <2>1. CASE C2 = C /\ P = <<>>
    BY <2>1, <1>1
  <2>2. CASE C2 = Len(L2) /\ Len(P) = Len(L2) - C
    BY <2>2, <1>1
  <2> QED
    BY <2>1, <2>2 DEF Spread
<1>5. /\ Len(r.rec) \in Nat /\ \A j \in 1..Len(q) : Index(r, k, j) \in 1..C \/ j = k
      /\ \A j \in 1..Len(q) : Index(r, k, j) \in Nat
  BY <1>1, TotalIs
<1>6. Total(r, Q, k) = C2
  <2>1. Len(Q) = Len(q) + (C2 - C) /\ Len(q) \in Nat /\ Len(r.rec) \in Nat /\ C \in Nat /\ C2 \in Nat
    BY <1>1, <1>3, <1>4, <1>5
  <2>2. C = IF k = 0 THEN Len(r.rec) + Len(q) ELSE Len(r.rec) + Len(q) - 1
    BY DEF Total
  <2>3. C2 = IF k = 0 THEN Len(r.rec) + Len(Q) ELSE Len(r.rec) + Len(Q) - 1
    <3>1. CASE k = 0
      <4>1. C = Len(r.rec) + Len(q)
        BY <2>2, <3>1
      <4>2. Len(Q) \in Int /\ Len(Q) = Len(q) + C2 - C
        BY <2>1
      <4>3. C2 = Len(r.rec) + Len(Q)
        BY <2>1, <4>1, <4>2
      <4> QED
        BY <3>1, <4>3
    <3>2. CASE k # 0
      <4>1. C = Len(r.rec) + Len(q) - 1
        BY <2>2, <3>2
      <4>2. Len(Q) \in Int /\ Len(Q) = Len(q) + C2 - C
        BY <2>1
      <4>3. C2 = Len(r.rec) + Len(Q) - 1
        BY <2>1, <4>1, <4>2
      <4> QED
        BY <3>2, <4>3
    <3> QED
      BY <3>1, <3>2
  <2> QED
    BY <2>3 DEF Total
<1>7. ASSUME NEW j \in 1..Len(Q), j # k
      PROVE  Index(r, k, j) <= Len(L2) /\ Q[j] = Message("entry", L2[Index(r, k, j)])
  <2>1. CASE j <= Len(q)
    <3>1. j \in 1..Len(q) /\ Q[j] = q[j] /\ Index(r, k, j) \in 1..C
      BY <1>1, <1>3, <1>5, <1>7, <2>1
    <3>2. q[j] = Message("entry", L[Index(r, k, j)]) /\ Index(r, k, j) \in 1..Len(L)
      BY <1>1, <1>7, <3>1 DEF Inbox
    <3>3. L2[Index(r, k, j)] = L[Index(r, k, j)]
      BY <3>2 DEF Extends
    <3>4. Index(r, k, j) <= Len(L2)
      BY <3>2, <1>1
    <3> QED
      BY <3>1, <3>2, <3>3, <3>4
  <2>2. CASE j > Len(q)
    <3> DEFINE i == j - Len(q)
    <3>1. i \in 1..Len(P) /\ Q[j] = P[i]
      <4>1. i \in 1..Len(P) /\ j = Len(q) + i
        BY <1>1, <1>3, <1>7, <2>2
      <4> QED
        BY <4>1, <1>3
    <3>2. Index(r, k, j) = C + i
      <4>1. C = IF k = 0 THEN Len(r.rec) + Len(q) ELSE Len(r.rec) + Len(q) - 1
        BY DEF Total
      <4>2. Index(r, k, j) = IF k = 0 THEN Len(r.rec) + j ELSE Len(r.rec) + j - 1
        BY <1>1, <1>3, <2>2 DEF Index
      <4>3. Len(r.rec) \in Nat /\ Len(q) \in Nat /\ j \in Nat /\ C \in Nat
        BY <1>1, <1>5, <1>7, <1>3
      <4> QED
        BY <4>1, <4>2, <4>3
    <3>3. C2 = Len(L2) /\ P[i] = Message("entry", L2[C + i])
      <4>1. P # <<>>
        BY <3>1
      <4> HIDE DEF i
      <4> QED
        BY <3>1, <4>1 DEF Spread
    <3>4. C + i <= Len(L2)
      BY <1>1, <1>4, <3>1, <3>3
    <3> HIDE DEF i
    <3> QED
      BY <3>1, <3>2, <3>3, <3>4
  <2> QED
    BY <2>1, <2>2, <1>1
<1>8. k \in 0..Len(Q) /\ (k # 0 => Q[k] = q[k])
  BY <1>1, <1>3
<1>9. k # 0 => Q[k].what \in {"control", "side_drop"}
  BY <1>8 DEF Inbox
<1>10. Inbox(r, Q, k, L2)
  BY <1>7, <1>8, <1>9 DEF Inbox
<1> QED
  BY <1>3, <1>6, <1>8, <1>10 DEF Q, Heard

\* What y, which does nothing, may ask itself when m has written.
LEMMA PendingOther ==
  ASSUME NEW L, NEW S, NEW L2, NEW S2, NEW F \in [Side -> Machine], NEW m, Extends(L, S, L2, S2, F, m),
         NEW y, y # m, NEW u, NEW h,
         NEW r \in States, NEW q \in Seq(Messages), NEW k \in 0..Len(q), Total(r, q, k) <= Len(L),
         NEW C \in 0..Len(L), Mach(y, r, q, k, L, S, C, F, h),
         k = 0 => \A s \in Side : Own(y, r, s) <=> F[s] = y
  PROVE  Pending(y, r, k, L2, S2, F)
<1>1. /\ Len(L) \in Nat /\ Len(L2) \in Nat /\ \A i \in 0..Len(L) : S[i] \in Stages /\ S2[i] = S[i]
      /\ (Len(L2) = Len(L) \/ Len(L2) = Len(L) + 1)
  BY ExtendsTypes DEF Extends
<1>2. /\ Len(r.rec) \in Nat /\ r.pos \in Nat /\ r.pos <= Len(r.rec) /\ Len(r.rec) <= Len(L)
      /\ k # 0 => GapAt(r, k) <= Len(L) /\ GapAt(r, k) \in Nat
  BY TotalIs, <1>1 DEF Mach, Keeps
<1>3. /\ \A i \in r.pos..Len(L)-1 : Actor(S[i]) # Server => ~OwnAt(y, r, k, F, i, Actor(S[i]))
      /\ \A i \in r.pos+1..Len(L)-1 : Actor(S[i]) = Server => ~OwnAt(y, r, k, F, i, S[i].turn)
      /\ r.run.phase = "look" /\ Actor(S[r.pos]) = Server /\ Own(y, r, r.turn) => r.pos = Len(L)
      /\ r.run.local /\ ~r.run.required => r.pos = Len(L) /\ F[r.turn] = y
  BY DEF Mach, Pending
<1>4. S2[r.pos] = S[r.pos] /\ r.turn = S[r.pos].turn /\ r.turn \in Side
  BY <1>1, <1>2, StageFields DEF Mach, Stands
<1>5. CASE Len(L2) = Len(L)
  <2>1. \A i \in r.pos..Len(L)-1 : S2[i] = S[i]
    BY <1>1, <1>2
  <2>2. \A i \in r.pos..Len(L2)-1 : Actor(S2[i]) # Server => ~OwnAt(y, r, k, F, i, Actor(S2[i]))
    BY <1>3, <1>5, <2>1
  <2>3. \A i \in r.pos+1..Len(L2)-1 : Actor(S2[i]) = Server => ~OwnAt(y, r, k, F, i, S2[i].turn)
    <3>1. ASSUME NEW i \in r.pos+1..Len(L)-1 PROVE i \in r.pos..Len(L)-1
      BY <1>1, <1>2
    <3> QED
      BY <1>3, <1>5, <2>1, <3>1
  <2> QED
    BY <1>3, <1>4, <1>5, <2>2, <2>3 DEF Pending
<1>6. CASE Len(L2) = Len(L) + 1
  <2> DEFINE N == Len(L)
             s == S[N]
             a == IF Actor(s) = Server THEN s.turn ELSE Actor(s)
  <2>1. s \in Stages /\ a \in Side /\ F[a] = m /\ F[a] # y
    <3>1. s \in Stages
      BY <1>1
    <3>2. a \in Side
      BY <3>1, ActorIs, StageFields
    <3>3. F[a] = m
      BY <1>6 DEF Extends
    <3> QED
      BY <3>1, <3>2, <3>3
  <2>2. ~OwnAt(y, r, k, F, N, a)
    <3> HIDE DEF a, s
    <3>1. CASE k = 0
      BY <2>1, <3>1 DEF OwnAt
    <3>2. CASE k # 0
      BY <2>1, <3>2, <1>2 DEF OwnAt
    <3> QED
      BY <3>1, <3>2
  <2>3. ASSUME NEW i \in r.pos..Len(L2)-1, Actor(S2[i]) # Server
        PROVE  ~OwnAt(y, r, k, F, i, Actor(S2[i]))
    <3>1. CASE i = N
      BY <2>2, <2>3, <3>1, <1>1
    <3>2. CASE i # N
      <4>1. i \in r.pos..Len(L)-1 /\ S2[i] = S[i]
        BY <3>2, <1>1, <1>2, <1>6, <2>3
      <4> QED
        BY <4>1, <2>3, <1>3
    <3> QED
      BY <3>1, <3>2
  <2>4. ASSUME NEW i \in r.pos+1..Len(L2)-1, Actor(S2[i]) = Server
        PROVE  ~OwnAt(y, r, k, F, i, S2[i].turn)
    <3>1. CASE i = N
      BY <2>2, <2>4, <3>1, <1>1
    <3>2. CASE i # N
      <4>1. i \in r.pos+1..Len(L)-1 /\ S2[i] = S[i]
        BY <3>2, <1>1, <1>2, <1>6, <2>4
      <4> QED
        BY <4>1, <2>4, <1>3
    <3> QED
      BY <3>1, <3>2
  <2>5. ~(r.run.phase = "look" /\ Actor(S2[r.pos]) = Server /\ Own(y, r, r.turn))
    <3>1. ASSUME r.run.phase = "look", Actor(S2[r.pos]) = Server, Own(y, r, r.turn) PROVE FALSE
      <4>1. r.pos = N /\ a = r.turn
        BY <3>1, <1>3, <1>4
      <4>2. F[r.turn] # y
        BY <4>1, <2>1
      <4>3. r.run.phase = "pull" \/ Idle(r)
        BY <3>1, <4>2, <1>4 DEF Mach, Held
      <4> QED
        BY <3>1, <4>3 DEF Idle
    <3> QED
      BY <3>1
  <2>6. ~(r.run.local /\ ~r.run.required)
    <3>1. ASSUME r.run.local, ~r.run.required PROVE FALSE
      <4>1. r.pos = N /\ F[r.turn] = y
        BY <3>1, <1>3
      <4>2. ~Rests(s) /\ Head(s.left) = Server
        BY <3>1, <4>1 DEF Mach, Stands
      <4>3. a = r.turn
        BY <4>1, <4>2, <1>4, <2>1, ActorIs
      <4> QED
        BY <4>1, <4>3, <2>1
    <3> QED
      BY <3>1
  <2> QED
    BY <2>3, <2>4, <2>5, <2>6 DEF Pending
<1> QED
  BY <1>1, <1>5, <1>6

\* y, which is not ahead, hears of what m did.
Listens(L, S, L2, S2, F, m, C, C2, P, y, u, h, r, q, k) ==
  /\ F \in [Side -> Machine] /\ Extends(L, S, L2, S2, F, m) /\ C \in 0..Len(L) /\ C2 \in Nat
  /\ Spread(L2, C, C2, P) /\ y # m /\ r \in States /\ q \in Seq(Messages)
  /\ Mach(y, r, q, k, L, S, C, F, h) /\ Views(y, r, q, k, F, u, h) /\ Total(r, q, k) = C
Heard2(y, r, q, p, k, L2, S2, C2, F, u, h) ==
  /\ Mach(y, r, p, k, L2, S2, C2, F, h) /\ Views(y, r, p, k, F, u, h)
  /\ Total(r, p, k) = C2 /\ p \in Seq(Messages)
  /\ k # 0 => p[k] = q[k]

LEMMA OtherHears ==
  ASSUME NEW L, NEW S, NEW L2, NEW S2, NEW F, NEW m, NEW C, NEW C2, NEW P,
         NEW y, NEW u, NEW h, NEW r, NEW q, NEW k,
         Listens(L, S, L2, S2, F, m, C, C2, P, y, u, h, r, q, k)
  PROVE  Heard2(y, r, q, q \o P, k, L2, S2, C2, F, u, h)
<1> USE DEF Listens
<1>1. /\ Len(L) \in Nat /\ Len(L2) \in Nat /\ \A i \in 0..Len(L) : S[i] \in Stages /\ S2[i] = S[i]
      /\ (Len(L2) = Len(L) \/ Len(L2) = Len(L) + 1) /\ k \in 0..Len(q)
      /\ \A i \in 1..Len(L) : L2[i] = L[i]
  BY ExtendsTypes DEF Extends, Mach, Inbox
<1>2. /\ Len(r.rec) \in Nat /\ r.pos \in Nat /\ r.pos <= Len(r.rec) /\ Len(r.rec) <= C
  BY TotalIs, <1>1 DEF Mach, Keeps
<1>3. /\ q \o P \in Seq(Messages) /\ Inbox(r, q \o P, k, L2) /\ Total(r, q \o P, k) = C2
      /\ k # 0 => (q \o P)[k] = q[k]
  <2>1. Hears(L, S, L2, S2, F, m, C, C2, P, r, q, k)
    BY DEF Mach, Hears
  <2>2. Heard(L2, C2, q, q \o P, r, k)
    BY <2>1, InboxGrows
  <2> QED
    BY <2>2 DEF Heard
<1>4. C <= C2
  BY <1>1 DEF Spread
<1>5. Keeps(r, L2)
  <2>1. Keeps(r, L)
    BY DEF Mach
  <2>a. C \in Nat /\ C <= Len(L)
    BY <1>1
  <2>b. \A i \in 1..Len(r.rec) : i \in 1..Len(L)
    BY <1>1, <1>2, <2>a
  <2>2. Len(r.rec) <= Len(L2) /\ \A i \in 1..Len(r.rec) : Same(r.rec[i], L2[i])
    <3>1. Len(r.rec) <= Len(L2)
      BY <1>1, <1>2, <2>a
    <3>2. \A i \in 1..Len(r.rec) : Same(r.rec[i], L[i])
      BY <2>1 DEF Keeps
    <3> QED
      BY <3>1, <3>2, <2>b, <1>1
  <2>3. \A i \in 1..r.pos : r.game[i] = Event(L2[i])
    BY <2>1, <1>1, <1>2 DEF Keeps
  <2> QED
    BY <2>1, <2>2, <2>3 DEF Keeps
<1>6. S2[r.pos] = S[r.pos] /\ Stands(r, S2[r.pos])
  BY <1>1, <1>2 DEF Mach
<1>7. Sent(r, q \o P, k, L2, C2)
  <2>1. r.upto \in Nat /\ r.upto <= C /\ r.upto <= Len(r.rec)
    BY StateFields DEF Mach, Sent
  <2>2. \A i \in 1..Len(r.rec) : i <= r.upto \/ r.rec[i].sent
    BY <1>2 DEF Mach, Sent
  <2>3. \A i \in 1..Len(r.rec) : i <= C2
    BY <1>2, <1>4
  <2>4. r.upto <= C2
    BY <2>1, <1>4
  <2> QED
    BY <2>1, <2>2, <2>3, <2>4, <1>3 DEF Sent
<1>8. Pending(y, r, k, L2, S2, F)
  <2>1. k = 0 => \A s \in Side : Own(y, r, s) <=> F[s] = y
    BY DEF Views
  <2>2. Total(r, q, k) <= Len(L)
    BY <1>1
  <2> QED
    BY <2>1, <2>2, <1>1, PendingOther
<1>9. Held(y, r, k, F, h)
  BY DEF Mach
<1>10. Stacked(y, r, L2, S2, C2, F, h)
  <2>1. Stacked(y, r, L, S, C, F, h)
    BY DEF Mach
  <2>2. r.pos = Len(L2) => r.pos = Len(L) /\ C = Len(L) /\ C2 = C
    BY <1>1, <1>2, <1>4 DEF Spread
  <2>3. S2[C] = S[C]
    BY <1>1
  <2> QED
    BY <2>1, <2>2, <2>3, <1>6 DEF Stacked
<1>11. Views(y, r, q \o P, k, F, u, h)
  BY <1>3 DEF Views
<1> QED
  BY <1>3, <1>5, <1>6, <1>7, <1>8, <1>9, <1>10, <1>11 DEF Mach, Heard2

\* What is known of a machine in the game.
LEMMA Members ==
  ASSUME NEW t, NEW q, NEW n, NEW u, NEW h, NEW L, NEW S, NEW C, NEW F, NEW g,
         World(t, q, n, u, h, L, S, C, F, g), NEW y \in u
  PROVE  /\ y \in Machine /\ t[y] \in States /\ q[y] \in Seq(Messages) /\ g[y] \in Nat /\ g[y] \in 0..Len(q[y])
         /\ Mach(y, t[y], q[y], g[y], L, S, C, F, h) /\ Dropped(y, t, q, L, S, F, g, u, h)
         /\ Views(y, t[y], q[y], g[y], F, u, h)
         /\ C \in 0..Len(L) /\ Len(L) \in Nat /\ C \in Nat /\ F \in [Side -> Machine] /\ Log(L, S)
         /\ Total(t[y], q[y], g[y]) \in {C, Len(L)}
<1>1. /\ y \in Machine /\ C \in 0..Len(L) /\ F \in [Side -> Machine] /\ Log(L, S)
      /\ t \in [Machine -> States] /\ q \in [Machine -> Seq(Messages)] /\ g \in [Machine -> Nat]
      /\ Mach(y, t[y], q[y], g[y], L, S, C, F, h) /\ Dropped(y, t, q, L, S, F, g, u, h)
      /\ Views(y, t[y], q[y], g[y], F, u, h)
  BY DEF World, Present, Leads
<1>2. Len(L) \in Nat
  BY <1>1, LogTypes
<1>3. g[y] \in 0..Len(q[y])
  BY <1>1 DEF Mach, Inbox
<1>4. Total(t[y], q[y], g[y]) \in {C, Len(L)}
  BY <1>1 DEF Mach, Sent
<1> QED
  BY <1>1, <1>2, <1>3, <1>4

\* One at most is ahead.
LEMMA Behind ==
  ASSUME NEW t, NEW q, NEW n, NEW u, NEW h, NEW L, NEW S, NEW C, NEW F, NEW g,
         World(t, q, n, u, h, L, S, C, F, g), NEW m \in u, Total(t[m], q[m], g[m]) = Len(L),
         NEW y \in u, y # m
  PROVE  /\ Total(t[y], q[y], g[y]) = C
         /\ Len(L) > C => Ahead(m, t, q, L, S, C, F, g, u)
<1>1. C \in 0..Len(L) /\ Len(L) \in Nat /\ Total(t[y], q[y], g[y]) \in {C, Len(L)}
  BY Members
<1>2. CASE Len(L) = C
  BY <1>1, <1>2
<1>3. CASE Len(L) > C
  <2>1. PICK w \in u : Ahead(w, t, q, L, S, C, F, g, u)
    BY <1>3 DEF World, Leads
  <2>2. w = m
    BY <2>1, <1>1, <1>3 DEF Ahead
  <2> QED
    BY <2>1, <2>2 DEF Ahead
<1> QED
  BY <1>1, <1>2, <1>3

LEMMA Foremost ==
  ASSUME NEW t, NEW q, NEW n, NEW u, NEW h, NEW L, NEW S, NEW C, NEW F, NEW g,
         World(t, q, n, u, h, L, S, C, F, g), NEW m \in u, Total(t[m], q[m], g[m]) = Len(L), Len(L) > C
  PROVE  Ahead(m, t, q, L, S, C, F, g, u)
<1>1. C \in 0..Len(L) /\ Len(L) \in Nat
  BY Members
<1>2. PICK w \in u : Ahead(w, t, q, L, S, C, F, g, u)
  BY DEF World, Leads
<1>3. w = m
  BY <1>2, <1>1 DEF Ahead
<1> QED
  BY <1>2, <1>3

-----------------------------------------------------------------------------

\* m's state is x, its inbox p; it hands P to the others.
Told(q, u, m, p, P) == [y \in Machine |-> IF y = m THEN p ELSE IF y \in u THEN q[y] \o P ELSE q[y]]

Acts(t, q, n, u, h, L, S, C, F, g, m, x, p, j, n2, L2, S2, C2, P) ==
  /\ World(t, q, n, u, h, L, S, C, F, g) /\ m \in u
  /\ x \in States /\ p \in Seq(Messages) /\ j \in Nat /\ C2 \in Nat
  /\ x.owner = t[m].owner /\ x.mode = t[m].mode
  /\ Extends(L, S, L2, S2, F, m) /\ (Len(L2) = Len(L) => L2 = L /\ S2 = S)
  /\ Spread(L2, C, C2, P) /\ n2 = S2[Len(L2)].seeds
  /\ Len(L2) # Len(L) \/ C2 # C => Total(t[m], q[m], g[m]) = Len(L)
  /\ Total(x, p, j) = Total(t[m], q[m], g[m]) + (Len(L2) - Len(L))
  /\ Mach(m, x, p, j, L2, S2, C2, F, h)
  /\ C2 # C => Settled(t, S2, C2, F, u, h)
  /\ (j = 0 <=> g[m] = 0)
  /\ j # 0 => p[j] = q[m][g[m]] /\ GapAt(x, j) >= GapAt(t[m], g[m])
  /\ C2 # Len(L2) /\ Len(L2) # Len(L) =>
       LET s == S[Len(L)] IN
       Own(m, t[m], s.turn) /\ F[s.turn] = m /\ Actor(s) = s.turn /\ S2[Len(L2)].seeds = s.seeds

LEMMA StepWorld ==
  ASSUME NEW t, NEW q, NEW n, NEW u, NEW h, NEW L, NEW S, NEW C, NEW F, NEW g,
         NEW m, NEW x, NEW p, NEW j, NEW n2, NEW L2, NEW S2, NEW C2, NEW P,
         Acts(t, q, n, u, h, L, S, C, F, g, m, x, p, j, n2, L2, S2, C2, P)
  PROVE  World([t EXCEPT ![m] = x], Told(q, u, m, p, P), n2, u, h, L2, S2, C2, F, [g EXCEPT ![m] = j])
<1> DEFINE t2 == [t EXCEPT ![m] = x]
           q2 == Told(q, u, m, p, P)
           g2 == [g EXCEPT ![m] = j]
           N == Len(L)
<1>1. /\ World(t, q, n, u, h, L, S, C, F, g) /\ m \in u /\ m \in Machine
      /\ x \in States /\ p \in Seq(Messages) /\ j \in Nat /\ C2 \in Nat
      /\ x.owner = t[m].owner /\ x.mode = t[m].mode
      /\ Extends(L, S, L2, S2, F, m) /\ Spread(L2, C, C2, P)
      /\ t \in [Machine -> States] /\ q \in [Machine -> Seq(Messages)] /\ g \in [Machine -> Nat]
      /\ P \in Seq(Messages) /\ u \in SUBSET Machine /\ Present(F, u, h) /\ Settled(t, S, C, F, u, h)
  BY DEF Acts, World, Present, Spread
<1>w. World(t, q, n, u, h, L, S, C, F, g) /\ m \in u
  BY DEF Acts
<1>2. /\ t2 \in [Machine -> States] /\ g2 \in [Machine -> Nat]
      /\ t2[m] = x /\ g2[m] = j
      /\ \A y \in Machine : y # m => t2[y] = t[y] /\ g2[y] = g[y]
  BY <1>1
<1>3. /\ q2[m] = p /\ \A y \in u : y # m => q2[y] = q[y] \o P
      /\ q2 \in [Machine -> Seq(Messages)]
  <2>1. \A y \in Machine : q[y] \in Seq(Messages) /\ q[y] \o P \in Seq(Messages)
    BY <1>1
  <2>2. \A y \in Machine : (IF y = m THEN p ELSE IF y \in u THEN q[y] \o P ELSE q[y]) \in Seq(Messages)
    BY <1>1, <2>1
  <2> QED
    BY <1>1, <2>2 DEF Told
<1> HIDE DEF t2, q2, g2
<1>4. /\ N \in Nat /\ Len(L2) \in Nat /\ C \in 0..N /\ C \in Nat
      /\ (Len(L2) = N \/ Len(L2) = N + 1) /\ (Len(L2) = N => L2 = L /\ S2 = S)
      /\ \A i \in 0..N : S[i] \in Stages /\ S2[i] = S[i]
      /\ Log(L2, S2) /\ F \in [Side -> Machine] /\ Log(L, S)
  <2>1. C \in 0..N /\ N \in Nat /\ C \in Nat /\ F \in [Side -> Machine] /\ Log(L, S)
    BY <1>w, Members
  <2>2. Extends(L, S, L2, S2, F, m) /\ (Len(L2) = N => L2 = L /\ S2 = S)
    BY DEF Acts
  <2>3. Len(L2) \in Nat /\ \A i \in 0..N : S[i] \in Stages
    BY <2>2, ExtendsTypes
  <2> QED
    BY <2>1, <2>2, <2>3 DEF Extends
<1>5. C2 = C \/ C2 = Len(L2)
  BY <1>1 DEF Spread
<1>6. C2 \in 0..Len(L2)
  BY <1>4, <1>5
<1>7. ASSUME NEW y \in u PROVE \A s \in Side : t2[y].owner = t[y].owner /\ t2[y].mode = t[y].mode
  BY <1>1, <1>2
<1>8. ASSUME C2 = C, Len(L2) = N, NEW y \in u, y # m PROVE q2[y] = q[y]
  <2>1. P = <<>>
    <3>1. CASE P = <<>>
      BY <3>1
    <3>2. CASE C2 = Len(L2) /\ Len(P) = Len(L2) - C
      BY <3>2, <1>1, <1>4, <1>8
    <3> QED
      BY <3>1, <3>2, <1>1 DEF Spread
  <2>2. q[y] \in Seq(Messages)
    BY <1>1
  <2> QED
    BY <1>3, <1>8, <2>1, <2>2
\* The others.
<1>9. ASSUME NEW y \in u, y # m
      PROVE  /\ Mach(y, t2[y], q2[y], g2[y], L2, S2, C2, F, h) /\ Views(y, t2[y], q2[y], g2[y], F, u, h)
             /\ g2[y] # 0 => q2[y][g2[y]] = q[y][g[y]]
             /\ Total(t[y], q[y], g[y]) = C => Total(t2[y], q2[y], g2[y]) = C2
             /\ t2[y] = t[y] /\ g2[y] = g[y]
  <2>1. t2[y] = t[y] /\ g2[y] = g[y] /\ q2[y] = q[y] \o P
    BY <1>1, <1>2, <1>3, <1>9
  <2>2. /\ t[y] \in States /\ q[y] \in Seq(Messages) /\ Mach(y, t[y], q[y], g[y], L, S, C, F, h)
        /\ Views(y, t[y], q[y], g[y], F, u, h) /\ Total(t[y], q[y], g[y]) \in {C, N}
    BY <1>1, Members
  <2>3. CASE Total(t[y], q[y], g[y]) = C
    <3>1. /\ Mach(y, t[y], q[y] \o P, g[y], L2, S2, C2, F, h) /\ Views(y, t[y], q[y] \o P, g[y], F, u, h)
          /\ Total(t[y], q[y] \o P, g[y]) = C2
          /\ g[y] # 0 => (q[y] \o P)[g[y]] = q[y][g[y]]
      <4>1. Listens(L, S, L2, S2, F, m, C, C2, P, y, u, h, t[y], q[y], g[y])
        BY <1>1, <1>4, <1>9, <2>2, <2>3 DEF Listens
      <4>2. Heard2(y, t[y], q[y], q[y] \o P, g[y], L2, S2, C2, F, u, h)
        BY <4>1, OtherHears
      <4> QED
        BY <4>2 DEF Heard2
    <3> QED
      BY <2>1, <3>1
  <2>4. CASE Total(t[y], q[y], g[y]) # C
    <3>1. Len(L2) = N /\ C2 = C
      <4>1. ASSUME Len(L2) # N \/ C2 # C PROVE FALSE
        <5>1. Total(t[m], q[m], g[m]) = N
          BY <4>1 DEF Acts
        <5>2. Total(t[y], q[y], g[y]) = C
          BY <5>1, <1>w, <1>9, Behind
        <5> QED
          BY <5>2, <2>4
      <4> QED
        BY <4>1
    <3>2. q2[y] = q[y] /\ L2 = L /\ S2 = S
      BY <3>1, <1>8, <1>4, <1>9
    <3> QED
      BY <2>1, <2>2, <2>4, <3>1, <3>2
  <2> QED
    BY <2>3, <2>4
\* m itself.
<1>10. /\ Mach(m, x, p, j, L2, S2, C2, F, h) /\ Views(m, x, p, j, F, u, h)
       /\ (j = 0 <=> g[m] = 0) /\ (j # 0 => p[j] = q[m][g[m]] /\ GapAt(x, j) >= GapAt(t[m], g[m]))
       /\ Total(x, p, j) = Total(t[m], q[m], g[m]) + (Len(L2) - N)
       /\ Total(t[m], q[m], g[m]) \in {C, N}
  <2>1. /\ (j = 0 <=> g[m] = 0) /\ (j # 0 => p[j] = q[m][g[m]] /\ GapAt(x, j) >= GapAt(t[m], g[m]))
        /\ Mach(m, x, p, j, L2, S2, C2, F, h)
        /\ Total(x, p, j) = Total(t[m], q[m], g[m]) + (Len(L2) - N)
    BY DEF Acts
  <2>2. Views(m, t[m], q[m], g[m], F, u, h) /\ Total(t[m], q[m], g[m]) \in {C, N}
    BY <1>1, Members
  <2>3. Views(m, x, p, j, F, u, h)
    BY <2>1, <2>2, <1>1 DEF Views, Own
  <2> QED
    BY <2>1, <2>2, <2>3
<1>11. Leads(t2, q2, L2, S2, C2, F, g2, u)
  <2>1. \A i \in C..N : S[i].seeds = S[C].seeds
    BY <1>1 DEF World, Leads
  <2>2. \A i \in C2..Len(L2) : S2[i].seeds = S2[C2].seeds
    <3>1. CASE C2 = Len(L2)
      BY <3>1, <1>4
    <3>2. CASE C2 = C /\ C2 # Len(L2)
      <4>1. \A i \in C..N : S2[i].seeds = S2[C].seeds
        BY <1>4, <2>1
      <4>2. ASSUME Len(L2) = N + 1 PROVE S2[Len(L2)].seeds = S2[C].seeds
        <5>1. S2[Len(L2)].seeds = S[N].seeds
          BY <3>2, <4>2, <1>4 DEF Acts
        <5> QED
          BY <5>1, <2>1, <1>4
      <4>3. ASSUME NEW i \in C2..Len(L2) PROVE i \in C..N \/ (i = Len(L2) /\ Len(L2) = N + 1)
        BY <1>4, <3>2
      <4> QED
        BY <3>2, <4>1, <4>2, <4>3
    <3> QED
      BY <3>1, <3>2, <1>5
  <2>3. ASSUME Len(L2) > C2 PROVE \E w \in u : Ahead(w, t2, q2, L2, S2, C2, F, g2, u)
    <3>1. C2 = C /\ C2 # Len(L2)
      BY <1>4, <1>5, <2>3
    <3>2. CASE Len(L2) = N
      <4>1. Len(L) > C /\ L2 = L /\ S2 = S
        BY <1>4, <2>3, <3>1, <3>2
      <4>2. PICK w \in u : Ahead(w, t, q, L, S, C, F, g, u)
        BY <4>1, <1>1 DEF World, Leads
      <4>3. \A y \in u : Total(t2[y], q2[y], g2[y]) = Total(t[y], q[y], g[y])
        <5>1. TAKE y \in u
        <5>2. CASE y = m
          <6>1. Total(t[m], q[m], g[m]) \in Int
            BY <1>10, <1>4
          <6> QED
            BY <5>2, <6>1, <1>2, <1>3, <1>4, <1>10, <3>2
        <5>3. CASE y # m
          BY <5>3, <1>8, <1>9, <3>1, <3>2
        <5> QED
          BY <5>2, <5>3
      <4>4. \A s \in Side : t2[w].owner = t[w].owner
        BY <1>7
      <4>5. \A i \in C..N-1 : S[i].turn \in Side
        BY <1>4, StageFields
      <4>6. Ahead(w, t2, q2, L2, S2, C2, F, g2, u)
        BY <4>1, <4>2, <4>3, <4>4, <4>5, <3>1 DEF Ahead, Own
      <4> QED
        BY <4>6
    <3>3. CASE Len(L2) = N + 1
      <4>1. Total(t[m], q[m], g[m]) = N /\ Total(x, p, j) = Len(L2)
        BY <1>4, <1>10, <3>3 DEF Acts
      <4>2. \A y \in u \ {m} : Total(t2[y], q2[y], g2[y]) = C2
        <5>1. ASSUME NEW y \in u, y # m PROVE Total(t[y], q[y], g[y]) = C
          BY <1>w, <4>1, <5>1, Behind
        <5> QED
          BY <5>1, <1>9
      <4>3. /\ Own(m, t[m], S[N].turn) /\ F[S[N].turn] = m /\ Actor(S[N]) = S[N].turn
        BY <1>4, <3>1, <3>3 DEF Acts
      <4>4. \A i \in C..N-1 : Own(m, t[m], S[i].turn) /\ F[S[i].turn] = m /\ Actor(S[i]) = S[i].turn
        <5>1. CASE N = C
          BY <5>1, <1>4
        <5>2. CASE N > C
          BY <5>2, <4>1, <1>w, Foremost DEF Ahead
        <5> QED
          BY <5>1, <5>2, <1>4
      <4>5. ASSUME NEW i \in C2..Len(L2)-1
            PROVE  Own(m, x, S2[i].turn) /\ F[S2[i].turn] = m /\ Actor(S2[i]) = S2[i].turn
        <5>1. (i \in C..N-1 \/ i = N) /\ i \in 0..N
          BY <1>4, <3>1, <3>3
        <5> QED
          BY <5>1, <4>3, <4>4, <1>1, <1>4 DEF Own
      <4>6. Ahead(m, t2, q2, L2, S2, C2, F, g2, u)
        BY <1>1, <1>2, <1>3, <4>1, <4>2, <4>5 DEF Ahead
      <4> QED
        BY <4>6, <1>1
    <3> QED
      BY <3>2, <3>3, <1>4
  <2> QED
    BY <1>6, <2>2, <2>3 DEF Leads
<1>12. Settled(t2, S2, C2, F, u, h)
  <2>1. Settled(t, S2, C2, F, u, h)
    <3>1. CASE C2 # C
      BY <3>1 DEF Acts
    <3>2. CASE C2 = C
      BY <3>2, <1>1, <1>4 DEF Settled
    <3> QED
      BY <3>1, <3>2
  <2>2. \A y \in u : t2[y].owner = t[y].owner
    BY <1>7, SideIs
  <2> QED
    BY <2>1, <2>2 DEF Settled, Own
<1>13. ASSUME NEW y \in u PROVE Dropped(y, t2, q2, L2, S2, F, g2, u, h)
  <2> DEFINE msg == q[y][g[y]]
             s == q[y][g[y]].body.side
  <2>1. Dropped(y, t, q, L, S, F, g, u, h)
    BY <1>1, <1>13, Members
  <2>2. /\ g2[y] = 0 <=> g[y] = 0
        /\ g2[y] # 0 => q2[y][g2[y]] = msg
        /\ g2[y] # 0 => GapAt(t2[y], g2[y]) >= GapAt(t[y], g[y])
    <3>1. CASE y = m
      BY <3>1, <1>2, <1>3, <1>10
    <3>2. CASE y # m
      <4>1. g[y] # 0 => GapAt(t[y], g[y]) \in Nat
        <5>1. t[y] \in States /\ q[y] \in Seq(Messages) /\ g[y] \in 0..Len(q[y])
          BY <1>1, <1>13, Members
        <5> QED
          BY <5>1, TotalIs
      <4> QED
        BY <3>2, <4>1, <1>9
    <3> QED
      BY <3>1, <3>2
  <2>3. \A z \in u : (g2[z] = 0 <=> g[z] = 0) /\ t2[z].owner = t[z].owner
    BY <1>1, <1>2, <1>7, <1>9, <1>10
  <2>4. ASSUME g[y] # 0, msg.what = "side_drop", NEW i \in GapAt(t2[y], g2[y])..Len(L2)-1
        PROVE  Writer(S2[i]) # s
    <3>1. GapAt(t[y], g[y]) \in Nat /\ GapAt(t2[y], g2[y]) \in Int
      <4>1. t[y] \in States /\ q[y] \in Seq(Messages) /\ g[y] \in 0..Len(q[y])
        BY <1>1, <1>13, Members
      <4>2. GapAt(t[y], g[y]) \in Nat
        BY <4>1, <2>4, TotalIs
      <4>3. t2[y] \in States /\ g2[y] \in Nat /\ t2[y].rec \in Seq(Entries)
        BY <1>1, <1>2, StateFields
      <4>4. Len(t2[y].rec) \in Nat
        BY <4>3
      <4> QED
        BY <4>2, <4>3, <4>4 DEF GapAt
    <3>2. i \in GapAt(t[y], g[y])..N-1 \/ (i = N /\ Len(L2) = N + 1)
      BY <3>1, <2>2, <2>4, <1>4
    <3>3. CASE i \in GapAt(t[y], g[y])..N-1
      <4>1. Writer(S[i]) # s
        BY <2>1, <2>4, <3>3 DEF Dropped
      <4>2. i \in 0..N
        BY <3>1, <3>3, <1>4
      <4> QED
        BY <4>1, <4>2, <1>4
    <3>4. CASE i = N /\ Len(L2) = N + 1
      <4>1. F[Writer(S[N])] = m /\ S2[i] = S[N]
        BY <1>1, <1>4, <3>4 DEF Extends, Writer
      <4>2. s \in Side /\ Home[s] \notin u /\ F[s] = Home[s]
        BY <2>1, <2>4 DEF Dropped
      <4> QED
        BY <4>1, <4>2, <1>1
    <3> QED
      BY <3>2, <3>3, <3>4
  <2> HIDE DEF msg, s
  <2>5. ASSUME g[y] # 0
        PROVE  /\ s \in Side /\ Home[s] \notin u
               /\ msg.what = "control" => msg.body.owner = F[s] /\ F[s] \in u
               /\ msg.what = "side_drop" =>
                    /\ y = h /\ F[s] = Home[s]
                    /\ \A z \in u : (z # y => g2[z] = 0) /\ t2[z].owner[s] = Home[s]
                    /\ \A i \in GapAt(t2[y], g2[y])..Len(L2)-1 : Writer(S2[i]) # s
    <3>1. /\ s \in Side /\ Home[s] \notin u
          /\ msg.what = "control" => msg.body.owner = F[s] /\ F[s] \in u
          /\ msg.what = "side_drop" =>
               /\ y = h /\ F[s] = Home[s]
               /\ \A z \in u : (z # y => g[z] = 0) /\ t[z].owner[s] = Home[s]
      BY <2>1, <2>5 DEF Dropped, msg, s
    <3> QED
      BY <3>1, <2>3, <2>4, <2>5
  <2>6. g2[y] # 0 => g[y] # 0 /\ msg = q2[y][g2[y]] /\ s = q2[y][g2[y]].body.side
    BY <2>2 DEF msg, s
  <2> QED
    BY <2>5, <2>6 DEF Dropped
<1>14. ASSUME NEW y \in u
       PROVE  /\ Mach(y, t2[y], q2[y], g2[y], L2, S2, C2, F, h)
              /\ Views(y, t2[y], q2[y], g2[y], F, u, h)
  BY <1>2, <1>3, <1>9, <1>10
<1>15. n2 = S2[Len(L2)].seeds
  BY DEF Acts
<1>16. World(t2, q2, n2, u, h, L2, S2, C2, F, g2)
  BY <1>1, <1>2, <1>3, <1>4, <1>11, <1>12, <1>13, <1>14, <1>15 DEF World
<1> QED
  BY <1>16 DEF t2, q2, g2

-----------------------------------------------------------------------------
(* A machine by itself.                                                            *)

Place(m, r, q, k, L, S, C, F, u, h) ==
  /\ r \in States /\ q \in Seq(Messages) /\ k \in 0..Len(q) /\ Log(L, S) /\ C \in 0..Len(L)
  /\ F \in [Side -> Machine]
  /\ Mach(m, r, q, k, L, S, C, F, h) /\ Views(m, r, q, k, F, u, h)

LEMMA PlaceIs ==
  ASSUME NEW t, NEW q, NEW n, NEW u, NEW h, NEW L, NEW S, NEW C, NEW F, NEW g,
         World(t, q, n, u, h, L, S, C, F, g), NEW m \in u
  PROVE  Place(m, t[m], q[m], g[m], L, S, C, F, u, h)
  BY Members DEF Place

PlaceFields(r, q, k, L, S, C) ==
  /\ Len(L) \in Nat /\ C \in Nat /\ C <= Len(L) /\ Len(q) \in Nat /\ k \in Nat /\ k <= Len(q)
  /\ r.rec \in Seq(Entries) /\ Len(r.rec) \in Nat /\ r.pos \in Nat /\ r.pos <= Len(r.rec)
  /\ (Len(r.rec) = r.pos \/ Len(r.rec) = r.pos + 1) /\ (Len(r.rec) = r.pos + 1 => r.run.phase = "pull")
  /\ Len(r.rec) <= Len(L) /\ r.pos \in 0..Len(L)
  /\ Total(r, q, k) \in Nat /\ Len(r.rec) <= Total(r, q, k) /\ Total(r, q, k) <= Len(L)
  /\ (Total(r, q, k) = C \/ Total(r, q, k) = Len(L))
  /\ S[r.pos] \in Stages /\ Shapes(S[r.pos]) /\ Stands(r, S[r.pos]) /\ r.turn = S[r.pos].turn
  /\ r.game \in Seq(Happens) /\ Len(r.game) = r.pos
  /\ \A i \in 1..Len(r.rec) : r.rec[i] \in Entries /\ L[i] \in Entries /\ Same(r.rec[i], L[i])
  /\ \A i \in 1..r.pos : r.game[i] = Event(L[i])
  /\ L \in Seq(Entries) /\ r.upto \in Nat /\ r.upto <= C /\ r.upto <= Len(r.rec) /\ r.undo \in Nat
  /\ (Total(r, q, k) = IF k = 0 THEN Len(r.rec) + Len(q) ELSE Len(r.rec) + Len(q) - 1)

LEMMA PlaceHas ==
  ASSUME NEW m, NEW r, NEW q, NEW k, NEW L, NEW S, NEW C, NEW F, NEW u, NEW h,
         Place(m, r, q, k, L, S, C, F, u, h)
  PROVE  PlaceFields(r, q, k, L, S, C)
<1>1. /\ r \in States /\ q \in Seq(Messages) /\ k \in 0..Len(q) /\ Log(L, S) /\ C \in 0..Len(L)
      /\ Keeps(r, L) /\ Stands(r, S[r.pos]) /\ Sent(r, q, k, L, C)
  BY DEF Place, Mach
<1>2. Len(L) \in Nat /\ L \in Seq(Entries) /\ \A i \in 0..Len(L) : S[i] \in Stages
  BY <1>1, LogTypes
<1>3. r.rec \in Seq(Entries) /\ r.pos \in Nat /\ r.game \in Seq(Happens) /\ r.upto \in Nat /\ r.undo \in Nat
  BY <1>1, StateFields
<1>4. Len(r.rec) \in Nat /\ Len(q) \in Nat
  BY <1>1, <1>3
<1>5. Total(r, q, k) \in Nat /\ Len(r.rec) <= Total(r, q, k)
  BY <1>1, TotalIs
<1>6. r.pos <= Len(r.rec) /\ Len(r.rec) <= r.pos + 1 /\ Len(r.rec) <= Len(L)
  BY <1>1 DEF Keeps
<1>7. r.pos \in 0..Len(L) /\ (Len(r.rec) = r.pos \/ Len(r.rec) = r.pos + 1)
  BY <1>2, <1>3, <1>4, <1>6
<1>8. Shapes(S[r.pos]) /\ S[r.pos] \in Stages
  BY <1>1, <1>2, <1>7 DEF Log, Sound
<1>9. Total(r, q, k) = C \/ Total(r, q, k) = Len(L)
  BY <1>1 DEF Sent
<1>10. \A i \in 1..Len(r.rec) : r.rec[i] \in Entries /\ L[i] \in Entries /\ Same(r.rec[i], L[i])
  BY <1>1, <1>2, <1>3, <1>4, <1>6 DEF Keeps
<1>11. C \in Nat /\ C <= Len(L) /\ k \in Nat /\ k <= Len(q) /\ Total(r, q, k) <= Len(L)
  BY <1>1, <1>2, <1>4, <1>9
<1>12. r.turn = S[r.pos].turn
  BY <1>1 DEF Stands
<1>13. /\ Len(r.game) = r.pos /\ \A i \in 1..r.pos : r.game[i] = Event(L[i])
       /\ (Len(r.rec) = r.pos + 1 => r.run.phase = "pull")
  BY <1>1 DEF Keeps
<1>14. r.upto <= C /\ r.upto <= Len(r.rec)
  BY <1>1 DEF Sent
<1>15. Total(r, q, k) = IF k = 0 THEN Len(r.rec) + Len(q) ELSE Len(r.rec) + Len(q) - 1
  BY DEF Total
<1> QED
  BY <1>1, <1>2, <1>3, <1>4, <1>5, <1>6, <1>7, <1>8, <1>9, <1>10, <1>11, <1>12, <1>13, <1>14, <1>15 DEF PlaceFields

\* Nothing of what m has is somebody else's.
Secure(m, r, F) == \A s \in Side : Own(m, r, s) => F[s] = m

LEMMA SecureHeld ==
  ASSUME NEW m, NEW r, NEW x, NEW F, NEW j, NEW h, Secure(m, r, F), x.owner = r.owner
  PROVE  Held(m, x, j, F, h) /\ Secure(m, x, F)
  BY DEF Secure, Held, Own

LEMMA OneLeft ==
  ASSUME NEW a \in Nat, NEW b \in Nat, NEW k \in Nat, k <= b, a = IF k = 0 THEN a + b ELSE a + b - 1
  PROVE  \A i \in 1..b : i = k
  OBVIOUS

\* Who has the word, and the side, has all there is.
Word(m, r, q, k, L, S, C, F, u, h) ==
  /\ Place(m, r, q, k, L, S, C, F, u, h) /\ AtEnd(r)
  /\ Actor(S[r.pos]) # Server /\ Own(m, r, Actor(S[r.pos])) /\ F[Actor(S[r.pos])] = m
WordHas(r, q, k, L) ==
  /\ r.pos = Len(L) /\ Len(r.rec) = Len(L) /\ Total(r, q, k) = Len(L)
  /\ \A i \in 1..Len(q) : i = k

LEMMA HasWord ==
  ASSUME NEW m, NEW r, NEW q, NEW k, NEW L, NEW S, NEW C, NEW F, NEW u, NEW h,
         Word(m, r, q, k, L, S, C, F, u, h)
  PROVE  WordHas(r, q, k, L)
<1>w. /\ Place(m, r, q, k, L, S, C, F, u, h) /\ AtEnd(r)
      /\ Actor(S[r.pos]) # Server /\ Own(m, r, Actor(S[r.pos])) /\ F[Actor(S[r.pos])] = m
  BY DEF Word
<1>1. PlaceFields(r, q, k, L, S, C)
  BY <1>w, PlaceHas
<1> DEFINE a == Actor(S[r.pos])
<1>2. OwnAt(m, r, k, F, r.pos, a)
  BY <1>w DEF OwnAt
<1>3. \A i \in r.pos..Len(L)-1 : Actor(S[i]) # Server => ~OwnAt(m, r, k, F, i, Actor(S[i]))
  BY <1>w DEF Place, Mach, Pending
<1>4. ~(r.pos \in r.pos..Len(L)-1)
  BY <1>w, <1>2, <1>3
<1>5. r.pos = Len(L)
  BY <1>1, <1>4 DEF PlaceFields
<1>6. Len(r.rec) = Len(L)
  BY <1>w, <1>5 DEF AtEnd
<1>7. Total(r, q, k) = Len(L)
  BY <1>1, <1>6 DEF PlaceFields
<1>8. Total(r, q, k) = IF k = 0 THEN Len(r.rec) + Len(q) ELSE Len(r.rec) + Len(q) - 1
  BY DEF Total
<1>a. Len(q) \in Nat /\ k \in Nat /\ k <= Len(q) /\ Len(L) \in Nat
  BY <1>1 DEF PlaceFields
<1>10. \A i \in 1..Len(q) : i = k
  BY <1>a, <1>6, <1>7, <1>8, OneLeft
<1> QED
  BY <1>5, <1>6, <1>7, <1>10 DEF WordHas

-----------------------------------------------------------------------------
(* Nothing but flags change.                                                       *)

\* The record, the game and who has what stay.
Lies(r, x) ==
  /\ x \in States /\ x.rec = r.rec /\ x.pos = r.pos /\ x.game = r.game
  /\ x.owner = r.owner /\ x.mode = r.mode /\ x.turn = r.turn /\ x.inited = r.inited
  /\ x.run.kind = r.run.kind /\ x.run.left = r.run.left

LEMMA LiesSame ==
  ASSUME NEW r, NEW x, Lies(r, x), NEW q, NEW k, NEW L, NEW F, NEW m
  PROVE  /\ Total(x, q, k) = Total(r, q, k) /\ GapAt(x, k) = GapAt(r, k)
         /\ \A j : Index(x, k, j) = Index(r, k, j)
         /\ \A i, s : OwnAt(m, x, k, F, i, s) <=> OwnAt(m, r, k, F, i, s)
         /\ \A s : Own(m, x, s) <=> Own(m, r, s)
         /\ Inbox(r, q, k, L) => Inbox(x, q, k, L)
<1>1. x.rec = r.rec /\ x.owner = r.owner
  BY DEF Lies
<1>2. /\ Total(x, q, k) = Total(r, q, k) /\ GapAt(x, k) = GapAt(r, k)
      /\ \A j : Index(x, k, j) = Index(r, k, j)
      /\ \A s : Own(m, x, s) <=> Own(m, r, s)
  BY <1>1 DEF Total, GapAt, Index, Own
<1>3. \A i, s : OwnAt(m, x, k, F, i, s) <=> OwnAt(m, r, k, F, i, s)
  BY <1>2 DEF OwnAt
<1>4. Inbox(r, q, k, L) => Inbox(x, q, k, L)
  BY <1>2 DEF Inbox
<1> QED
  BY <1>2, <1>3, <1>4

\* The wait for the change ends.
LEMMA ExpectMach ==
  ASSUME NEW m, NEW r, NEW q, NEW k, NEW L, NEW S, NEW C, NEW F, NEW u, NEW h,
         Place(m, r, q, k, L, S, C, F, u, h), r.expect # None,
         ~Own(m, r, r.expect) \/ ~AtEnd(r),
         NEW x, Lies(r, x), x.upto = r.upto, x.undo = r.undo, x.run = r.run
  PROVE  Mach(m, x, q, k, L, S, C, F, h)
<1>1. /\ Keeps(r, L) /\ Stands(r, S[r.pos]) /\ Inbox(r, q, k, L) /\ Sent(r, q, k, L, C)
      /\ Pending(m, r, k, L, S, F) /\ Held(m, r, k, F, h) /\ Stacked(m, r, L, S, C, F, h)
  BY DEF Place, Mach
<1>2. /\ x.rec = r.rec /\ x.pos = r.pos /\ x.game = r.game
      /\ x.owner = r.owner /\ x.mode = r.mode /\ x.turn = r.turn /\ x.inited = r.inited
  BY DEF Lies
<1>3. Keeps(x, L)
  BY <1>1, <1>2 DEF Keeps
<1>4. Stands(x, S[x.pos])
  BY <1>1, <1>2 DEF Stands, Idle
<1>5. Inbox(x, q, k, L) /\ Sent(x, q, k, L, C)
  BY <1>1, <1>2, LiesSame DEF Sent
<1>6. Pending(m, x, k, L, S, F)
  BY <1>1, <1>2, LiesSame DEF Pending
<1>7. Held(m, x, k, F, h)
  BY <1>1, <1>2 DEF Held, Own, Idle, AtEnd
<1>8. Stacked(m, x, L, S, C, F, h)
  BY <1>1, <1>2 DEF Stacked, Own
<1> QED
  BY <1>3, <1>4, <1>5, <1>6, <1>7, <1>8 DEF Mach

\* The undo stack of m is cleared, the others keep theirs.
LEMMA CommitMach ==
  ASSUME NEW m, NEW r, NEW q, NEW k, NEW L, NEW S, NEW C, NEW F, NEW u, NEW h,
         Place(m, r, q, k, L, S, C, F, u, h),
         NEW x, Lies(r, x), x.upto = r.upto, x.undo = 0, x.run = r.run, x.expect = r.expect
  PROVE  /\ Keeps(x, L) /\ Stands(x, S[x.pos]) /\ Inbox(x, q, k, L) /\ Sent(x, q, k, L, C)
         /\ Pending(m, x, k, L, S, F) /\ Held(m, x, k, F, h)
         /\ Own(m, x, x.turn) /\ F[x.turn] = m =>
              /\ x.run.simul => S[x.pos].remote \/ Actor(S[x.pos]) # S[x.pos].turn
              /\ x.pos = Len(L) /\ ~x.run.simul =>
                   x.undo + S[C].cmds + (IF Rests(S[x.pos]) THEN 0 ELSE 1) <= S[x.pos].cmds
<1>1. /\ Keeps(r, L) /\ Stands(r, S[r.pos]) /\ Inbox(r, q, k, L) /\ Sent(r, q, k, L, C)
      /\ Pending(m, r, k, L, S, F) /\ Held(m, r, k, F, h) /\ Stacked(m, r, L, S, C, F, h)
  BY DEF Place, Mach
<1>2. /\ x.rec = r.rec /\ x.pos = r.pos /\ x.game = r.game
      /\ x.owner = r.owner /\ x.mode = r.mode /\ x.turn = r.turn /\ x.inited = r.inited
  BY DEF Lies
<1>f. PlaceFields(r, q, k, L, S, C)
  BY PlaceHas
<1>u. S[r.pos].undo \in Nat /\ S[r.pos].cmds \in Nat /\ S[C] \in Stages /\ S[C].cmds \in Nat
  <2>1. S[C] \in Stages
    BY LogTypes DEF Place
  <2> QED
    BY <1>f, <2>1, StageFields DEF PlaceFields
<1>3. Keeps(x, L)
  BY <1>1, <1>2 DEF Keeps
<1>4. Stands(x, S[x.pos])
  BY <1>1, <1>2, <1>u DEF Stands, Idle
<1>5. Inbox(x, q, k, L) /\ Sent(x, q, k, L, C)
  BY <1>1, <1>2, LiesSame DEF Sent
<1>6. Pending(m, x, k, L, S, F)
  BY <1>1, <1>2, LiesSame DEF Pending
<1>7. Held(m, x, k, F, h)
  BY <1>1, <1>2 DEF Held, Own, Idle
<1>8. Own(m, x, x.turn) /\ F[x.turn] = m =>
        /\ x.run.simul => S[x.pos].remote \/ Actor(S[x.pos]) # S[x.pos].turn
        /\ x.pos = Len(L) /\ ~x.run.simul =>
             x.undo + S[C].cmds + (IF Rests(S[x.pos]) THEN 0 ELSE 1) <= S[x.pos].cmds
  <2>1. ASSUME Own(m, r, r.turn), F[r.turn] = m
        PROVE  /\ r.run.simul => S[r.pos].remote \/ Actor(S[r.pos]) # S[r.pos].turn
               /\ r.pos = Len(L) /\ ~r.run.simul =>
                    0 + S[C].cmds + (IF Rests(S[r.pos]) THEN 0 ELSE 1) <= S[r.pos].cmds
    <3>1. r.undo \in Nat
      BY <1>f DEF PlaceFields
    <3>2. /\ r.run.simul => S[r.pos].remote \/ Actor(S[r.pos]) # S[r.pos].turn
          /\ r.pos = Len(L) /\ ~r.run.simul =>
               r.undo + S[C].cmds + (IF Rests(S[r.pos]) THEN 0 ELSE 1) <= S[r.pos].cmds
      BY <1>1, <2>1 DEF Stacked
    <3> QED
      BY <3>1, <3>2, <1>u
  <2> QED
    BY <1>2, <2>1 DEF Own
<1> QED
  BY <1>3, <1>4, <1>5, <1>6, <1>7, <1>8

\* In a wait everything that was sent is here or on its way, and nothing else.
LEMMA WaitTotal ==
  ASSUME NEW m, NEW r, NEW q, NEW k, NEW L, NEW S, NEW C, NEW F, NEW u, NEW h,
         Place(m, r, q, k, L, S, C, F, u, h), r.run.phase = "pull"
  PROVE  Total(r, q, k) = C
  BY DEF Place, Mach, Sent

\* Who is to ask the server is up to date, and has the side.
LEMMA LocalIs ==
  ASSUME NEW m, NEW r, NEW q, NEW k, NEW L, NEW S, NEW C, NEW F, NEW u, NEW h,
         Place(m, r, q, k, L, S, C, F, u, h), r.run.phase = "pull", r.run.local, ~r.run.required
  PROVE  /\ r.pos = Len(L) /\ C = Len(L) /\ F[r.turn] = m /\ ~Rests(S[Len(L)])
         /\ Head(S[Len(L)].left) = Server /\ Actor(S[Len(L)]) = Server /\ r.turn = S[Len(L)].turn
<1>1. PlaceFields(r, q, k, L, S, C) /\ Total(r, q, k) = C
  BY PlaceHas, WaitTotal
<1>2. r.pos = Len(L) /\ F[r.turn] = m
  BY DEF Place, Mach, Pending
<1>3. C = Len(L)
  BY <1>1, <1>2 DEF PlaceFields
<1>4. ~Rests(S[r.pos]) /\ Head(S[r.pos].left) = Server /\ r.turn = S[r.pos].turn
  BY DEF Place, Mach, Stands
<1>5. Actor(S[r.pos]) = Server
  BY <1>4 DEF Actor
<1> QED
  BY <1>2, <1>3, <1>4, <1>5

\* Only flags of the run differ.
Flagged(r, x) ==
  /\ Lies(r, x) /\ x.undo = r.undo /\ x.expect = r.expect
  /\ x.run.simul = r.run.simul /\ x.run.seeded = r.run.seeded /\ x.run.phase = r.run.phase
  /\ x.run.local = r.run.local /\ x.upto = r.upto /\ x.run.required

LEMMA FlaggedStands ==
  ASSUME NEW r, NEW x, NEW s, Stands(r, s), Flagged(r, x), r.run.phase = "pull", Head(s.left) = Server, ~Rests(s)
  PROVE  Stands(x, s)
  BY DEF Stands, Flagged, Lies, Idle

\* m asked the server, or need not.
LEMMA RequiredMach ==
  ASSUME NEW m, NEW r, NEW q, NEW k, NEW L, NEW S, NEW C, NEW F, NEW u, NEW h,
         Place(m, r, q, k, L, S, C, F, u, h), r.run.phase = "pull", Head(r.run.left) = Server,
         ~r.run.local, NEW x, Flagged(r, x)
  PROVE  Mach(m, x, q, k, L, S, C, F, h)
<1>1. /\ Keeps(r, L) /\ Stands(r, S[r.pos]) /\ Inbox(r, q, k, L) /\ Sent(r, q, k, L, C)
      /\ Pending(m, r, k, L, S, F) /\ Held(m, r, k, F, h) /\ Stacked(m, r, L, S, C, F, h)
  BY DEF Place, Mach
<1>2. /\ x.rec = r.rec /\ x.pos = r.pos /\ x.game = r.game /\ Lies(r, x)
      /\ x.owner = r.owner /\ x.mode = r.mode /\ x.turn = r.turn /\ x.inited = r.inited
  BY DEF Lies, Flagged
<1>3. Keeps(x, L)
  BY <1>1, <1>2 DEF Keeps, Flagged
<1>4. Stands(x, S[x.pos])
  <2>1. Head(S[r.pos].left) = Server /\ ~Rests(S[r.pos])
    BY <1>1 DEF Stands, Idle
  <2> QED
    BY <1>1, <1>2, <2>1, FlaggedStands
<1>5. Inbox(x, q, k, L) /\ Sent(x, q, k, L, C)
  BY <1>1, <1>2, LiesSame DEF Sent, Flagged
<1>6. Pending(m, x, k, L, S, F)
  BY <1>1, <1>2, LiesSame DEF Pending, Flagged
<1>7. Held(m, x, k, F, h)
  BY <1>1, <1>2 DEF Held, Own, Idle, Flagged, Lies
<1>8. Stacked(m, x, L, S, C, F, h)
  BY <1>1, <1>2 DEF Stacked, Own, Flagged
<1> QED
  BY <1>3, <1>4, <1>5, <1>6, <1>7, <1>8 DEF Mach

\* m asked the server, who has drawn a seed for all.
LEMMA SeedMach ==
  ASSUME NEW m, NEW r, NEW q, NEW k, NEW L, NEW S, NEW C, NEW F, NEW u, NEW h,
         Place(m, r, q, k, L, S, C, F, u, h), r.run.phase = "pull", r.run.local, ~r.run.required,
         NEW x, Flagged(r, x), NEW L2, NEW S2, Extends(L, S, L2, S2, F, m), Len(L2) = Len(L) + 1,
         NEW p, Heard(L2, Len(L2), q, p, r, k)
  PROVE  Mach(m, x, p, k, L2, S2, Len(L2), F, h)
<1>1. /\ Keeps(r, L) /\ Stands(r, S[r.pos]) /\ Inbox(r, q, k, L) /\ Sent(r, q, k, L, C)
      /\ Pending(m, r, k, L, S, F) /\ Held(m, r, k, F, h) /\ Stacked(m, r, L, S, C, F, h)
  BY DEF Place, Mach
<1>2. /\ x.rec = r.rec /\ x.pos = r.pos /\ x.game = r.game /\ Lies(r, x)
      /\ x.owner = r.owner /\ x.mode = r.mode /\ x.turn = r.turn /\ x.inited = r.inited
  BY DEF Lies, Flagged
<1>f. PlaceFields(r, q, k, L, S, C)
  BY PlaceHas
<1>l. /\ r.pos = Len(L) /\ C = Len(L) /\ F[r.turn] = m /\ ~Rests(S[Len(L)])
      /\ Head(S[Len(L)].left) = Server /\ Actor(S[Len(L)]) = Server /\ r.turn = S[Len(L)].turn
  BY LocalIs
<1>n. /\ Len(L) \in Nat /\ Len(r.rec) = Len(L) /\ r.upto <= Len(r.rec) /\ r.upto \in Nat
      /\ S2[r.pos] = S[r.pos] /\ \A i \in 1..Len(L) : L2[i] = L[i]
  BY <1>f, <1>l DEF PlaceFields, Extends
<1>3. Keeps(x, L2)
  <2>1. \A i \in 1..Len(r.rec) : Same(r.rec[i], L2[i])
    BY <1>f, <1>n DEF PlaceFields
  <2>2. \A i \in 1..r.pos : r.game[i] = Event(L2[i])
    BY <1>f, <1>n, <1>l DEF PlaceFields
  <2>3. Len(r.game) = r.pos /\ r.pos \in Nat
    BY <1>f DEF PlaceFields
  <2> QED
    BY <1>2, <1>l, <1>n, <2>1, <2>2, <2>3 DEF Keeps
<1>4. Stands(x, S2[x.pos])
  BY <1>1, <1>2, <1>l, <1>n, FlaggedStands
<1>5. Inbox(r, p, k, L2) /\ Total(r, p, k) = Len(L2)
  BY DEF Heard
<1>6. Inbox(x, p, k, L2) /\ Total(x, p, k) = Len(L2)
  BY <1>2, <1>5, LiesSame
<1>7. Sent(x, p, k, L2, Len(L2))
  <2>1. \A i \in 1..Len(r.rec) : i <= Len(L2) /\ (i <= r.upto \/ r.rec[i].sent)
    BY <1>1, <1>l, <1>n DEF Sent
  <2>2. r.upto <= Len(L2)
    BY <1>n
  <2> QED
    BY <1>2, <1>6, <1>n, <2>1, <2>2 DEF Sent, Flagged
<1>8. Pending(m, x, k, L2, S2, F)
  <2>1. \A i \in r.pos..Len(L2)-1 : i = Len(L)
    BY <1>n, <1>l
  <2>2. \A i \in r.pos+1..Len(L2)-1 : FALSE
    BY <1>n, <1>l
  <2>3. Actor(S2[Len(L)]) = Server
    BY <1>n, <1>l
  <2> QED
    BY <1>2, <2>1, <2>2, <2>3 DEF Pending, Flagged
<1>9. Held(m, x, k, F, h)
  BY <1>1, <1>2 DEF Held, Own, Idle, Flagged, Lies
<1>10. Stacked(m, x, L2, S2, Len(L2), F, h)
  <2>1. x.pos # Len(L2)
    BY <1>2, <1>n, <1>l
  <2> QED
    BY <1>1, <1>2, <1>n, <2>1 DEF Stacked, Own, Flagged
<1> QED
  BY <1>3, <1>4, <1>6, <1>7, <1>8, <1>9, <1>10 DEF Mach

\* The turn passes only with end_turn.
LEMMA TurnStays ==
  ASSUME NEW L, NEW S, Log(L, S), NEW i \in 1..Len(L), S[i].undo # 0 \/ ~Rests(S[i])
  PROVE  S[i].turn = S[i - 1].turn
<1>1. /\ S[i] = After(S[i - 1], L[i], i) /\ Fitting(S[i - 1], L[i]) /\ S[i - 1] \in Stages /\ L[i] \in Entries
      /\ i \in Nat
  BY LogTypes DEF Log
<1>2. Follows(L, S, i)
  <2>1. i - 1 \in 0..Len(L) /\ L \in Seq(Entries) /\ S \in [0..Len(L) -> Stages]
    BY LogTypes
  <2>2. Sound(L, S, i - 1)
    BY <2>1 DEF Log
  <2> QED
    BY <1>1, <2>1, <2>2 DEF Follows
<1>3. CASE Rests(S[i - 1])
  <2>1. CommandFields(S[i - 1], L[i], i, S[i])
    BY <1>2, <1>3, AfterCommand
  <2>2. CASE L[i].script = <<>>
    <3>1. L[i].kind # "move" => S[i].undo = 0
      BY <2>1, <2>2 DEF CommandFields
    <3>2. Rests(S[i])
      BY <2>1, <2>2 DEF CommandFields
    <3>3. L[i].kind = "move"
      BY <3>1, <3>2
    <3> QED
      BY <2>1, <2>2, <3>3 DEF CommandFields
  <2>3. CASE L[i].script # <<>>
    BY <2>1, <2>3 DEF CommandFields
  <2> QED
    BY <2>2, <2>3
<1>4. CASE ~Rests(S[i - 1])
  <2>1. AnswerFields(S[i - 1], S[i])
    BY <1>2, <1>4, AfterAnswer
  <2>2. CASE Tail(S[i - 1].left) = <<>>
    <3>1. S[i - 1].kind # "move" => S[i].undo = 0
      BY <2>1, <2>2 DEF AnswerFields
    <3>2. Rests(S[i])
      BY <2>1, <2>2 DEF AnswerFields
    <3>3. S[i - 1].kind = "move"
      BY <3>1, <3>2
    <3> QED
      BY <2>1, <2>2, <3>3 DEF AnswerFields
  <2>3. CASE Tail(S[i - 1].left) # <<>>
    BY <2>1, <2>3 DEF AnswerFields
  <2> QED
    BY <2>2, <2>3
<1> QED
  BY <1>3, <1>4

\* Who is ahead has the side all the way.
Lead(m, r, q, k, L, S, C, F) ==
  Total(r, q, k) = Len(L) /\ Len(L) > C =>
    \A i \in C..Len(L)-1 : Own(m, r, S[i].turn) /\ F[S[i].turn] = m /\ Actor(S[i]) = S[i].turn

LEMMA LeadIs ==
  ASSUME NEW t, NEW q, NEW n, NEW u, NEW h, NEW L, NEW S, NEW C, NEW F, NEW g,
         World(t, q, n, u, h, L, S, C, F, g), NEW m \in u
  PROVE  Lead(m, t[m], q[m], g[m], L, S, C, F)
<1>1. ASSUME Total(t[m], q[m], g[m]) = Len(L), Len(L) > C PROVE Ahead(m, t, q, L, S, C, F, g, u)
  BY <1>1, Foremost
<1> QED
  BY <1>1 DEF Lead, Ahead

\* A machine with unsent entries is ahead, and has played all.
LEMMA UnsentLead ==
  ASSUME NEW m, NEW r, NEW q, NEW k, NEW L, NEW S, NEW C, NEW F, NEW u, NEW h,
         Place(m, r, q, k, L, S, C, F, u, h), Lead(m, r, q, k, L, S, C, F), Len(r.rec) > C
  PROVE  /\ Total(r, q, k) = Len(L) /\ Len(r.rec) = Len(L) /\ r.pos = Len(L) /\ r.run.phase # "pull"
         /\ Len(L) > C /\ r.turn = S[Len(L)].turn
         /\ S[Len(L)].undo # 0 \/ ~Rests(S[Len(L)]) => Own(m, r, r.turn) /\ F[r.turn] = m
<1>1. PlaceFields(r, q, k, L, S, C)
  BY PlaceHas
<1>2. Total(r, q, k) # C
  BY <1>1 DEF PlaceFields
<1>3. Total(r, q, k) = Len(L) /\ Len(r.rec) = Len(L) /\ r.pos = Len(L) /\ r.run.phase # "pull"
  BY <1>2 DEF Place, Mach, Sent
<1>4. Len(L) > C /\ r.turn = S[Len(L)].turn /\ Len(L) \in Nat /\ C \in Nat
  BY <1>1, <1>3 DEF PlaceFields
<1>5. ASSUME S[Len(L)].undo # 0 \/ ~Rests(S[Len(L)]) PROVE Own(m, r, r.turn) /\ F[r.turn] = m
  <2>1. Len(L) - 1 \in C..Len(L)-1 /\ Len(L) \in 1..Len(L)
    BY <1>4
  <2>2. Own(m, r, S[Len(L) - 1].turn) /\ F[S[Len(L) - 1].turn] = m
    BY <1>3, <1>4, <2>1 DEF Lead
  <2>3. S[Len(L)].turn = S[Len(L) - 1].turn
    BY <1>5, <2>1, TurnStays DEF Place
  <2> QED
    BY <1>4, <2>2, <2>3
<1> QED
  BY <1>3, <1>4, <1>5

\* m begins to read; it may send what it has not sent.
Pulled(m, r, x) ==
  /\ Lies(r, x) /\ x.undo = r.undo /\ x.expect = r.expect
  /\ x.run.simul /\ x.run.seeded = r.run.seeded /\ x.run.phase = "pull"
  /\ x.run.required = r.run.required
  /\ x.run.local => Head(r.run.left) = Server /\ Own(m, r, r.turn)
  /\ x.upto = IF r.undo > 0 THEN r.upto ELSE Len(r.rec)

LEMMA PullMach ==
  ASSUME NEW m, NEW r, NEW q, NEW k, NEW L, NEW S, NEW C, NEW F, NEW u, NEW h,
         Place(m, r, q, k, L, S, C, F, u, h), Lead(m, r, q, k, L, S, C, F),
         r.run.phase = "look", AtEnd(r), ~(Head(r.run.left) # Server /\ Own(m, r, Head(r.run.left))),
         NEW x, Pulled(m, r, x), NEW D, D = IF Len(r.rec) > C THEN Len(L) ELSE C
  PROVE  /\ Mach(m, x, q, k, L, S, D, F, h)
         /\ Len(r.rec) > C => /\ r.undo = 0 /\ Len(r.rec) = Len(L) /\ Total(r, q, k) = Len(L)
                              /\ S[Len(L)].undo = 0 /\ Actor(S[Len(L)]) # S[Len(L)].turn
<1>1. /\ Keeps(r, L) /\ Stands(r, S[r.pos]) /\ Inbox(r, q, k, L) /\ Sent(r, q, k, L, C)
      /\ Pending(m, r, k, L, S, F) /\ Held(m, r, k, F, h) /\ Stacked(m, r, L, S, C, F, h)
  BY DEF Place, Mach
<1>2. /\ x.rec = r.rec /\ x.pos = r.pos /\ x.game = r.game /\ Lies(r, x)
      /\ x.owner = r.owner /\ x.mode = r.mode /\ x.turn = r.turn /\ x.inited = r.inited
      /\ x.run.kind = r.run.kind /\ x.run.left = r.run.left
  BY DEF Lies, Pulled
<1>f. PlaceFields(r, q, k, L, S, C)
  BY PlaceHas
<1> DEFINE s == S[r.pos]
<1>s. /\ s \in Stages /\ Shapes(s) /\ r.turn = s.turn /\ r.run.left = s.left /\ r.undo <= s.undo
      /\ r.undo \in Nat /\ s.undo \in Nat /\ ~Rests(s) /\ Actor(s) = Head(s.left)
  <2>1. s \in Stages /\ Shapes(s) /\ r.undo \in Nat
    BY <1>f DEF PlaceFields
  <2>2. s.undo \in Nat
    BY <2>1, StageFields
  <2>3. ~Rests(s) /\ r.turn = s.turn /\ r.run.left = s.left /\ r.undo <= s.undo
    BY <1>1 DEF Stands, Idle
  <2> QED
    BY <2>1, <2>2, <2>3 DEF Actor
<1>o. Own(m, r, r.turn) => Head(s.left) # s.turn
  <2>1. s.turn # Server
    <3>1. s.turn \in Side
      BY <1>s, StageFields
    <3> QED
      BY <3>1, SideIs DEF Server
  <2> QED
    BY <1>s, <2>1
<1>u. Len(r.rec) > C =>
        /\ r.undo = 0 /\ Len(r.rec) = Len(L) /\ Total(r, q, k) = Len(L) /\ r.pos = Len(L)
        /\ s.undo = 0 /\ Actor(s) # s.turn
  <2>1. ASSUME Len(r.rec) > C PROVE Total(r, q, k) = Len(L) /\ Len(r.rec) = Len(L) /\ r.pos = Len(L) /\ Own(m, r, r.turn)
    BY <1>s, <2>1, UnsentLead
  <2>2. ASSUME Len(r.rec) > C PROVE Head(s.left) # s.turn
    BY <1>o, <2>1, <2>2
  <2>3. ASSUME Len(r.rec) > C PROVE s.undo = 0
    BY <1>s, <2>2, <2>3 DEF Shapes
  <2>4. ASSUME Len(r.rec) > C PROVE r.undo = 0
    BY <1>s, <2>3, <2>4
  <2> QED
    BY <1>s, <2>1, <2>2, <2>3, <2>4
<1>w. \A v \in Side : Own(m, r, v) => F[v] = m
  <2>1. r.run.phase # "pull" /\ ~Idle(r)
    BY DEF Idle
  <2> QED
    BY <1>1, <2>1 DEF Held
<1>3. Keeps(x, L)
  <2>1. Len(r.rec) = r.pos
    BY DEF AtEnd
  <2> QED
    BY <1>1, <1>2, <1>f, <2>1 DEF Keeps, Pulled
<1>4. Stands(x, S[x.pos])
  <2>1. x.run.local => Head(s.left) = Server
    BY <1>s DEF Pulled
  <2>2. ~Idle(x) /\ x.run.simul /\ x.run.phase = "pull" /\ x.undo = r.undo /\ x.run.seeded = r.run.seeded
    BY DEF Idle, Pulled
  <2>3. ~x.run.required
    BY <1>1 DEF Stands, Pulled
  <2> QED
    BY <1>1, <1>2, <1>s, <2>1, <2>2, <2>3 DEF Stands
<1>5. Inbox(x, q, k, L)
  BY <1>1, <1>2, LiesSame
<1>6. Sent(x, q, k, L, D)
  <2>1. Total(x, q, k) = Total(r, q, k)
    BY <1>2, LiesSame
  <2>2. r.upto \in Nat /\ r.upto <= C /\ r.upto <= Len(r.rec) /\ C \in Nat /\ Len(r.rec) \in Nat
    BY <1>f DEF PlaceFields
  <2>3. CASE Len(r.rec) > C
    <3>1. x.upto = Len(L) /\ D = Len(L) /\ Len(r.rec) = Len(L)
      BY <1>u, <2>3, <1>s DEF Pulled
    <3> QED
      BY <1>2, <1>u, <2>1, <2>2, <2>3, <3>1 DEF Sent
  <2>4. CASE ~(Len(r.rec) > C)
    <3>1. D = C /\ x.upto <= C /\ x.upto <= Len(r.rec) /\ r.upto <= x.upto /\ x.upto \in Nat
      BY <2>2, <2>4, <1>s DEF Pulled
    <3>2. Total(r, q, k) = C
      <4>1. CASE Total(r, q, k) = C
        BY <4>1
      <4>2. CASE Len(r.rec) = Len(L) /\ Total(r, q, k) = Len(L)
        BY <4>2, <2>2, <2>4, <1>f DEF PlaceFields
      <4> QED
        BY <4>1, <4>2, <1>1 DEF Sent
    <3>3. \A i \in 1..Len(r.rec) : i <= C /\ (i <= r.upto \/ r.rec[i].sent)
      BY <1>1, <2>2, <2>4 DEF Sent
    <3>4. \A i \in 1..Len(r.rec) : i <= x.upto \/ r.rec[i].sent
      BY <2>2, <3>1, <3>3
    <3> QED
      BY <1>2, <2>1, <3>1, <3>2, <3>3, <3>4 DEF Sent
  <2> QED
    BY <2>3, <2>4
<1>7. Pending(m, x, k, L, S, F)
  <2>1. /\ \A i \in r.pos..Len(L)-1 : Actor(S[i]) # Server => ~OwnAt(m, x, k, F, i, Actor(S[i]))
        /\ \A i \in r.pos+1..Len(L)-1 : Actor(S[i]) = Server => ~OwnAt(m, x, k, F, i, S[i].turn)
    BY <1>1, <1>2, LiesSame DEF Pending
  <2>2. ASSUME x.run.local PROVE r.pos = Len(L) /\ F[r.turn] = m
    <3>1. Head(r.run.left) = Server /\ Own(m, r, r.turn)
      BY <2>2 DEF Pulled
    <3>2. Actor(s) = Server
      BY <1>s, <3>1
    <3>3. r.pos = Len(L)
      BY <1>1, <3>1, <3>2 DEF Pending
    <3>4. r.turn \in Side
      BY <1>s, StageFields
    <3> QED
      BY <3>1, <3>3, <3>4, <1>w
  <2>3. x.run.phase # "look"
    BY DEF Pulled
  <2> QED
    BY <1>2, <2>1, <2>2, <2>3 DEF Pending
<1>8. Held(m, x, k, F, h)
  BY <1>2, <1>w DEF Held, Own
<1>9. Stacked(m, x, L, S, D, F, h)
  <2>1. x.run.simul /\ x.undo = r.undo
    BY DEF Pulled
  <2>2. Own(m, r, r.turn) => Actor(s) # s.turn
    BY <1>o, <1>s
  <2> QED
    BY <1>1, <1>2, <2>1, <2>2 DEF Stacked, Own
<1>10. Mach(m, x, q, k, L, S, D, F, h)
  BY <1>3, <1>4, <1>5, <1>6, <1>7, <1>8, <1>9 DEF Mach
<1> QED
  BY <1>10, <1>u

\* m sends what it has not sent.
Flushes(r, x) ==
  /\ Lies(r, x) /\ x.undo = r.undo /\ x.expect = r.expect /\ x.run = r.run /\ x.upto = Len(r.rec)

LEMMA SendMach ==
  ASSUME NEW m, NEW r, NEW q, NEW k, NEW L, NEW S, NEW C, NEW F, NEW u, NEW h,
         Place(m, r, q, k, L, S, C, F, u, h), Lead(m, r, q, k, L, S, C, F),
         r.run.phase \in {"idle", "pull"}, Len(r.rec) > C, r.undo = 0, NEW x, Flushes(r, x)
  PROVE  /\ Mach(m, x, q, k, L, S, Len(L), F, h) /\ Len(r.rec) = Len(L) /\ Total(r, q, k) = Len(L)
         /\ Rests(S[Len(L)])
         /\ S[Len(L)].undo # 0 => /\ F[S[Len(L)].turn] = m /\ m \in cleared \cup {h}
                                  /\ Own(m, r, S[Len(L)].turn)
<1>1. /\ Keeps(r, L) /\ Stands(r, S[r.pos]) /\ Inbox(r, q, k, L) /\ Sent(r, q, k, L, C)
      /\ Pending(m, r, k, L, S, F) /\ Held(m, r, k, F, h) /\ Stacked(m, r, L, S, C, F, h)
  BY DEF Place, Mach
<1>2. /\ x.rec = r.rec /\ x.pos = r.pos /\ x.game = r.game /\ Lies(r, x)
      /\ x.owner = r.owner /\ x.mode = r.mode /\ x.turn = r.turn /\ x.inited = r.inited
      /\ x.undo = r.undo /\ x.expect = r.expect /\ x.run = r.run /\ x.upto = Len(r.rec)
  BY DEF Lies, Flushes
<1>f. PlaceFields(r, q, k, L, S, C)
  BY PlaceHas
<1>u. /\ Total(r, q, k) = Len(L) /\ Len(r.rec) = Len(L) /\ r.pos = Len(L) /\ r.run.phase # "pull"
      /\ Len(L) > C /\ r.turn = S[Len(L)].turn
      /\ S[Len(L)].undo # 0 \/ ~Rests(S[Len(L)]) => Own(m, r, r.turn) /\ F[r.turn] = m
  BY UnsentLead
<1>i. Idle(r) /\ Rests(S[Len(L)])
  BY <1>1, <1>u DEF Idle, Stands
<1>3. Keeps(x, L) /\ Stands(x, S[x.pos])
  BY <1>1, <1>2 DEF Keeps, Stands, Idle
<1>4. Inbox(x, q, k, L) /\ Total(x, q, k) = Total(r, q, k)
  BY <1>1, <1>2, LiesSame
<1>5. Sent(x, q, k, L, Len(L))
  <2>1. Len(L) \in Nat
    BY <1>f DEF PlaceFields
  <2> QED
    BY <1>2, <1>u, <1>4, <2>1 DEF Sent
<1>6. Pending(m, x, k, L, S, F)
  BY <1>1, <1>2, LiesSame DEF Pending
<1>7. Held(m, x, k, F, h)
  BY <1>1, <1>2 DEF Held, Own, Idle
<1>8. Stacked(m, x, L, S, Len(L), F, h)
  <2>1. S[Len(L)].cmds \in Nat
    BY <1>f, <1>u, StageFields DEF PlaceFields
  <2>2. r.pos = Len(L) /\ ~r.run.simul =>
          r.undo + S[Len(L)].cmds + (IF Rests(S[r.pos]) THEN 0 ELSE 1) <= S[r.pos].cmds
    BY <1>u, <1>i, <2>1
  <2> QED
    BY <1>1, <1>2, <2>2 DEF Stacked, Own
<1>9. ASSUME S[Len(L)].undo # 0
      PROVE  F[S[Len(L)].turn] = m /\ m \in cleared \cup {h} /\ Own(m, r, S[Len(L)].turn)
  <2>1. Own(m, r, r.turn) /\ F[r.turn] = m /\ r.turn = S[Len(L)].turn
    BY <1>9, <1>u
  <2>2. m \notin cleared \cup {h} => r.undo = S[Len(L)].undo
    BY <1>1, <1>u, <2>1 DEF Stacked
  <2> QED
    BY <1>9, <2>1, <2>2
<1>10. Mach(m, x, q, k, L, S, Len(L), F, h)
  BY <1>3, <1>4, <1>5, <1>6, <1>7, <1>8 DEF Mach
<1> QED
  BY <1>9, <1>10, <1>u, <1>i

-----------------------------------------------------------------------------
(* A machine plays the next entry of the log.                                      *)

\* From r, by way of r1, to x, with the entry e.
Goes(m, r, r1, x, e, L2, S2) ==
  /\ r1.owner = r.owner /\ r1.mode = r.mode /\ r1.turn = r.turn /\ r1.undo = r.undo
  /\ Alone(r, S2[r.pos]) => Alone(r1, S2[r.pos])
  /\ Moves(m, r1, x, S2[r.pos], S2[r.pos + 1])
  /\ x.pos = r.pos + 1 /\ x.game = Append(r.game, Event(e)) /\ Same(e, L2[r.pos + 1])
  /\ Len(x.rec) = r.pos + 1 /\ \A i \in 1..r.pos : x.rec[i] = r.rec[i]
  /\ Same(x.rec[r.pos + 1], L2[r.pos + 1])

LEMMA GoesKeeps ==
  ASSUME NEW m, NEW r, NEW q, NEW k, NEW L, NEW S, NEW C, NEW F, NEW u, NEW h,
         Place(m, r, q, k, L, S, C, F, u, h), NEW L2, NEW S2, Extends(L, S, L2, S2, F, m),
         r.pos < Len(L2), NEW r1, NEW x, NEW e, Goes(m, r, r1, x, e, L2, S2)
  PROVE  Keeps(x, L2)
<1>1. PlaceFields(r, q, k, L, S, C)
  BY PlaceHas
<1>2. /\ r.pos \in Nat /\ Len(L) \in Nat /\ Len(L2) \in Nat /\ r.pos <= Len(L) /\ r.pos + 1 <= Len(L2)
      /\ \A i \in 1..Len(L) : L2[i] = L[i]
      /\ r.game \in Seq(Happens) /\ Len(r.game) = r.pos
      /\ r.pos <= Len(r.rec)
  BY <1>1, ExtendsTypes DEF PlaceFields, Extends
<1>3. \A i \in 1..r.pos : Same(r.rec[i], L2[i]) /\ r.game[i] = Event(L2[i])
  <2>1. \A i \in 1..Len(r.rec) : Same(r.rec[i], L[i])
    BY <1>1 DEF PlaceFields
  <2>2. \A i \in 1..r.pos : r.game[i] = Event(L[i])
    BY <1>1 DEF PlaceFields
  <2>3. Len(r.rec) \in Nat
    BY <1>1 DEF PlaceFields
  <2> QED
    BY <1>2, <2>1, <2>2, <2>3
<1>4. /\ x.pos = r.pos + 1 /\ x.game = Append(r.game, Event(e)) /\ Same(e, L2[r.pos + 1])
      /\ Len(x.rec) = r.pos + 1 /\ \A i \in 1..r.pos : x.rec[i] = r.rec[i]
      /\ Same(x.rec[r.pos + 1], L2[r.pos + 1])
  BY DEF Goes
<1>5. \A i \in 1..Len(x.rec) : Same(x.rec[i], L2[i])
  <2>1. \A i \in 1..r.pos + 1 : i \in 1..r.pos \/ i = r.pos + 1
    BY <1>2
  <2> QED
    BY <1>3, <1>4, <2>1
<1>6. Event(e) = Event(L2[r.pos + 1])
  BY <1>4 DEF Same, Event
<1>7. Len(x.game) = r.pos + 1 /\ \A i \in 1..r.pos + 1 : x.game[i] = Event(L2[i])
  <2>1. /\ Len(x.game) = r.pos + 1 /\ \A i \in 1..r.pos : x.game[i] = r.game[i]
        /\ x.game[r.pos + 1] = Event(e)
    BY <1>2, <1>4
  <2>2. \A i \in 1..r.pos + 1 : i \in 1..r.pos \/ i = r.pos + 1
    BY <1>2
  <2> QED
    BY <1>3, <1>6, <2>1, <2>2
<1>8. x.run.phase # "pull"
  BY DEF Goes, Moves
<1> QED
  BY <1>2, <1>4, <1>5, <1>7, <1>8 DEF Keeps

\* What is on the undo stack.
LEMMA GoesStacked ==
  ASSUME NEW m, NEW r, NEW q, NEW k, NEW L, NEW S, NEW C, NEW F, NEW u, NEW h,
         Place(m, r, q, k, L, S, C, F, u, h), NEW L2, NEW S2, Extends(L, S, L2, S2, F, m),
         r.pos < Len(L2), NEW r1, NEW x, NEW e, Goes(m, r, r1, x, e, L2, S2),
         NEW C2 \in 0..Len(L2),
         /\ Own(m, r, r.turn) /\ F[r.turn] = m /\ S2[r.pos + 1].turn = r.turn
         /\ r.pos + 1 = Len(L2) /\ ~x.run.simul
         => x.undo + S2[C2].cmds + (IF Rests(S2[r.pos + 1]) THEN 0 ELSE 1) <= S2[r.pos + 1].cmds
  PROVE  Stacked(m, x, L2, S2, C2, F, h)
<1> DEFINE s == S2[r.pos]
           v == S2[r.pos + 1]
<1>1. PlaceFields(r, q, k, L, S, C)
  BY PlaceHas
<1>2. /\ r.pos \in Nat /\ Len(L2) \in Nat /\ r.pos + 1 \in 1..Len(L2) /\ s = S[r.pos]
      /\ Log(L2, S2) /\ r.turn = s.turn
  BY <1>1, ExtendsTypes DEF PlaceFields, Extends
<1>3. /\ r1.owner = r.owner /\ r1.mode = r.mode /\ r1.turn = r.turn /\ r1.undo = r.undo
      /\ Alone(r, s) => Alone(r1, s)
      /\ Moves(m, r1, x, s, v) /\ x.pos = r.pos + 1
  BY DEF Goes
<1>4. x \in States /\ x.owner = r.owner /\ Stands(x, v) /\ x.turn = v.turn /\ x.undo <= v.undo
  BY <1>3 DEF Moves, Untouched, Stands
<1>5. v \in Stages /\ v.undo \in Nat /\ x.undo \in Nat /\ v.cmds \in Nat
  <2>1. v \in Stages
    BY <1>2, ExtendsTypes
  <2> QED
    BY <2>1, <1>4, StageFields, StateFields
<1>6. CASE v.turn # s.turn
  <2>1. Rests(v) /\ v.undo = 0
    <3>1. (r.pos + 1) - 1 = r.pos
      BY <1>2
    <3> QED
      BY <1>2, <1>6, <3>1, TurnStays
  <2>2. x.undo = 0 /\ ~x.run.simul
    BY <1>4, <1>5, <2>1, NoRunIs DEF Stands
  <2>3. r.pos + 1 = Len(L2) => S2[C2].cmds <= v.cmds
    <3>1. r.pos + 1 \in 0..Len(L2)
      BY <1>2
    <3>2. Counts(L2, S2, r.pos + 1)
      BY <1>2, <3>1 DEF Log, Sound
    <3> QED
      BY <3>2 DEF Counts
  <2>4. S2[C2].cmds \in Nat
    BY ExtendsTypes, StageFields
  <2> QED
    BY <1>3, <1>5, <2>1, <2>2, <2>3, <2>4 DEF Stacked
<1>7. CASE v.turn = s.turn
  <2> SUFFICES ASSUME Own(m, x, x.turn), F[x.turn] = m
               PROVE  /\ x.run.simul => v.remote \/ Actor(v) # v.turn
                      /\ m \notin cleared \cup {h} => x.undo = v.undo
                      /\ x.pos = Len(L2) /\ ~x.run.simul =>
                           x.undo + S2[C2].cmds + (IF Rests(v) THEN 0 ELSE 1) <= v.cmds
    BY <1>3 DEF Stacked
  <2>1. x.turn = r.turn /\ Own(m, r, r.turn) /\ F[r.turn] = m
    BY <1>2, <1>4, <1>7 DEF Own
  <2>2. Alone(r, s) /\ (m \notin cleared \cup {h} => r.undo = s.undo)
    BY <2>1, <1>2 DEF Place, Mach, Stacked, Alone
  <2>3. Alone(x, v)
    BY <1>3, <2>2 DEF Moves
  <2>4. ASSUME m \notin cleared \cup {h} PROVE x.undo = v.undo
    <3>1. \A z \in Side : r.mode[z] # "ai"
      BY <2>4 DEF Place, Views
    <3>2. r.turn \in Side
      BY <1>2, StageFields, ExtendsTypes, <1>1 DEF PlaceFields
    <3>3. ~ComputerAt(m, r1)
      BY <1>3, <3>1, <3>2 DEF ComputerAt
    <3> QED
      BY <1>3, <2>2, <2>4, <3>3 DEF Moves
  <2> QED
    BY <1>3, <1>2, <1>7, <2>1, <2>3, <2>4 DEF Alone
<1> QED
  BY <1>6, <1>7

\* What there is to play, and to whom it belongs, when m has played an entry of the log.
LEMMA GoesPending ==
  ASSUME NEW m, NEW r, NEW q, NEW k, NEW L, NEW S, NEW C, NEW F, NEW u, NEW h,
         Place(m, r, q, k, L, S, C, F, u, h), Secure(m, r, F), r.pos < Len(L),
         NEW r1, NEW x, NEW e, Goes(m, r, r1, x, e, L, S), NEW j,
         \A i, s : OwnAt(m, x, j, F, i, s) => OwnAt(m, r, k, F, i, s)
  PROVE  Pending(m, x, j, L, S, F)
<1>1. PlaceFields(r, q, k, L, S, C)
  BY PlaceHas
<1>2. /\ \A i \in r.pos..Len(L)-1 : Actor(S[i]) # Server => ~OwnAt(m, r, k, F, i, Actor(S[i]))
      /\ \A i \in r.pos+1..Len(L)-1 : Actor(S[i]) = Server => ~OwnAt(m, r, k, F, i, S[i].turn)
  BY DEF Place, Mach, Pending
<1>3. r.pos \in Nat /\ Len(L) \in Nat /\ r.pos + 1 <= Len(L)
  BY <1>1 DEF PlaceFields
<1>4. /\ x.pos = r.pos + 1 /\ x.owner = r.owner /\ ~x.run.local /\ x.turn = S[r.pos + 1].turn
  BY DEF Goes, Moves, Untouched, Stands
<1>5. \A i \in r.pos+1..Len(L)-1 : Actor(S[i]) # Server => ~OwnAt(m, x, j, F, i, Actor(S[i]))
  <2>1. \A i \in r.pos+1..Len(L)-1 : i \in r.pos..Len(L)-1
    BY <1>3
  <2> QED
    BY <1>2, <2>1
<1>6. \A i \in (r.pos+1)+1..Len(L)-1 : Actor(S[i]) = Server => ~OwnAt(m, x, j, F, i, S[i].turn)
  <2>1. \A i \in (r.pos+1)+1..Len(L)-1 : i \in r.pos+1..Len(L)-1
    BY <1>3
  <2> QED
    BY <1>2, <2>1
<1>7. ASSUME Actor(S[r.pos + 1]) = Server, Own(m, x, x.turn) PROVE r.pos + 1 = Len(L)
  <2>1. x.turn \in Side
    <3>1. S[r.pos + 1] \in Stages
      BY <1>3, LogTypes DEF Place
    <3> QED
      BY <3>1, <1>4, StageFields
  <2>2. Own(m, r, x.turn) /\ F[x.turn] = m
    BY <1>4, <1>7, <2>1 DEF Own, Secure
  <2>3. OwnAt(m, r, k, F, r.pos + 1, x.turn)
    BY <2>2 DEF OwnAt
  <2>4. ~(r.pos + 1 \in r.pos+1..Len(L)-1)
    BY <1>2, <1>4, <1>7, <2>3
  <2> QED
    BY <1>3, <2>4
<1> QED
  BY <1>4, <1>5, <1>6, <1>7 DEF Pending

\* The whole.
Carries(m, r, q, k, L, S, C, F, u, h, L2, S2, r1, x, e, C2, p, j) ==
  /\ Place(m, r, q, k, L, S, C, F, u, h) /\ Secure(m, r, F)
  /\ Extends(L, S, L2, S2, F, m) /\ r.pos < Len(L2) /\ C2 \in 0..Len(L2)
  /\ Goes(m, r, r1, x, e, L2, S2)
  /\ Inbox(x, p, j, L2) /\ Sent(x, p, j, L2, C2)
  /\ L2 = L /\ S2 = S => \A i, s : OwnAt(m, x, j, F, i, s) => OwnAt(m, r, k, F, i, s)
  /\ (L2 = L /\ S2 = S) \/ r.pos + 1 = Len(L2)
  /\ /\ Own(m, r, r.turn) /\ F[r.turn] = m /\ S2[r.pos + 1].turn = r.turn
     /\ r.pos + 1 = Len(L2) /\ ~x.run.simul
     => x.undo + S2[C2].cmds + (IF Rests(S2[r.pos + 1]) THEN 0 ELSE 1) <= S2[r.pos + 1].cmds

LEMMA CarriesMach ==
  ASSUME NEW m, NEW r, NEW q, NEW k, NEW L, NEW S, NEW C, NEW F, NEW u, NEW h,
         NEW L2, NEW S2, NEW r1, NEW x, NEW e, NEW C2, NEW p, NEW j,
         Carries(m, r, q, k, L, S, C, F, u, h, L2, S2, r1, x, e, C2, p, j)
  PROVE  Mach(m, x, p, j, L2, S2, C2, F, h)
<1>1. /\ Place(m, r, q, k, L, S, C, F, u, h) /\ Secure(m, r, F)
      /\ Extends(L, S, L2, S2, F, m) /\ r.pos < Len(L2) /\ C2 \in 0..Len(L2)
      /\ Goes(m, r, r1, x, e, L2, S2)
      /\ Inbox(x, p, j, L2) /\ Sent(x, p, j, L2, C2)
  BY DEF Carries
<1>2. /\ x.pos = r.pos + 1 /\ Stands(x, S2[r.pos + 1]) /\ x.owner = r.owner /\ ~x.run.local
  BY <1>1, Zenon DEF Goes, Moves, Untouched
<1>o. x.owner = r.owner
  BY <1>2
<1>3. Keeps(x, L2)
  BY <1>1, GoesKeeps
<1>4. Held(m, x, j, F, h)
  BY <1>1, <1>o, SecureHeld
<1>5. Stacked(m, x, L2, S2, C2, F, h)
  <2>1. /\ Own(m, r, r.turn) /\ F[r.turn] = m /\ S2[r.pos + 1].turn = r.turn
        /\ r.pos + 1 = Len(L2) /\ ~x.run.simul
        => x.undo + S2[C2].cmds + (IF Rests(S2[r.pos + 1]) THEN 0 ELSE 1) <= S2[r.pos + 1].cmds
    BY DEF Carries
  <2> QED
    BY <1>1, <2>1, GoesStacked
<1>6. Pending(m, x, j, L2, S2, F)
  <2>1. CASE L2 = L /\ S2 = S
    <3>1. \A i, s : OwnAt(m, x, j, F, i, s) => OwnAt(m, r, k, F, i, s)
      BY <2>1 DEF Carries
    <3>2. r.pos < Len(L) /\ Goes(m, r, r1, x, e, L, S)
      BY <1>1, <2>1
    <3>3. Pending(m, x, j, L, S, F)
      BY <1>1, <3>1, <3>2, GoesPending
    <3> QED
      BY <3>3, <2>1
  <2>2. CASE r.pos + 1 = Len(L2)
    <3>1. x.pos = Len(L2) /\ ~x.run.local /\ Len(L2) \in Nat
      BY <1>1, <1>2, <2>2, ExtendsTypes
    <3>2. \A i \in x.pos..Len(L2)-1 : FALSE
      BY <3>1
    <3>3. \A i \in x.pos+1..Len(L2)-1 : FALSE
      BY <3>1
    <3> QED
      BY <3>1, <3>2, <3>3 DEF Pending
  <2> QED
    BY <2>1, <2>2 DEF Carries
<1> QED
  BY <1>1, <1>2, <1>3, <1>4, <1>5, <1>6 DEF Mach

\* The next entry of the log fits.
LEMMA NextEntry ==
  ASSUME NEW m, NEW r, NEW q, NEW k, NEW L, NEW S, NEW C, NEW F, NEW u, NEW h,
         Place(m, r, q, k, L, S, C, F, u, h), r.pos < Len(L), NEW e \in Entries, Same(e, L[r.pos + 1])
  PROVE  /\ S[r.pos + 1] = After(S[r.pos], e, r.pos + 1) /\ S[r.pos] \in Stages /\ S[r.pos + 1] \in Stages
         /\ r.pos + 1 \in Nat /\ r.pos + 1 \in 1..Len(L)
         /\ Rests(S[r.pos]) => e.kind \in Kinds /\ (e.kind = "init_side" <=> ~S[r.pos].inited)
         /\ ~Rests(S[r.pos]) => /\ e.kind = IF Head(S[r.pos].left) = Server THEN "seed" ELSE "choice"
                                /\ e.side = Head(S[r.pos].left) /\ S[r.pos].kind \in Kinds
         /\ Follows(L, S, r.pos + 1)
<1>1. PlaceFields(r, q, k, L, S, C) /\ Log(L, S)
  BY PlaceHas DEF Place
<1>2. /\ r.pos + 1 \in Nat /\ r.pos + 1 \in 1..Len(L) /\ (r.pos + 1) - 1 = r.pos /\ S[r.pos] \in Stages
      /\ S[r.pos + 1] \in Stages /\ r.pos \in 0..Len(L)
  <2>1. r.pos \in Nat /\ Len(L) \in Nat /\ r.pos \in 0..Len(L)
    BY <1>1 DEF PlaceFields
  <2>2. \A i \in 0..Len(L) : S[i] \in Stages
    BY <1>1, LogTypes
  <2>3. r.pos + 1 \in 0..Len(L) /\ (r.pos + 1) - 1 = r.pos /\ r.pos + 1 \in 1..Len(L)
    BY <2>1
  <2> QED
    BY <2>1, <2>2, <2>3
<1>3. S[r.pos + 1] = After(S[r.pos], L[r.pos + 1], r.pos + 1) /\ Fitting(S[r.pos], L[r.pos + 1])
  BY <1>1, <1>2 DEF Log
<1>4. After(S[r.pos], e, r.pos + 1) = After(S[r.pos], L[r.pos + 1], r.pos + 1)
  BY SameAfter
<1>5. e.kind = L[r.pos + 1].kind /\ e.side = L[r.pos + 1].side
  BY DEF Same
<1>6. ~Rests(S[r.pos]) => S[r.pos].kind \in Kinds
  <2>1. S[r.pos].kind \in Kinds \cup {None}
    BY <1>2, StageFields
  <2>2. Shapes(S[r.pos])
    BY <1>1 DEF PlaceFields
  <2> QED
    BY <2>1, <2>2 DEF Shapes
<1>7. Follows(L, S, r.pos + 1)
  <2>1. Sound(L, S, r.pos) /\ L \in Seq(Entries) /\ S \in [0..Len(L) -> Stages]
    BY <1>1, <1>2 DEF Log
  <2> QED
    BY <1>2, <1>3, <2>1 DEF Follows
<1>8. Rests(S[r.pos]) => e.kind \in Kinds /\ (e.kind = "init_side" <=> ~S[r.pos].inited)
  BY <1>3, <1>5 DEF Fitting
<1>9. ~Rests(S[r.pos]) => /\ e.kind = (IF Head(S[r.pos].left) = Server THEN "seed" ELSE "choice")
                          /\ e.side = Head(S[r.pos].left)
  BY <1>3, <1>5 DEF Fitting
<1> QED
  BY <1>2, <1>3, <1>4, <1>6, <1>7, <1>8, <1>9

LEMMA CmdsGrow ==
  ASSUME NEW L, NEW S, Log(L, S), NEW i \in 0..Len(L), NEW j \in 0..i
  PROVE  S[j].cmds <= S[i].cmds /\ S[j].cmds \in Nat /\ S[i].cmds \in Nat
<1>1. Counts(L, S, i)
  BY DEF Log, Sound
<1>2. S[i] \in Stages /\ S[j] \in Stages
  BY LogTypes
<1> QED
  BY <1>1, <1>2, StageFields DEF Counts

\* get_user_choice_internal or ask_server takes the answer.
LEMMA TakeMach ==
  ASSUME NEW m, NEW r, NEW q, NEW k, NEW L, NEW S, NEW C, NEW F, NEW u, NEW h,
         Place(m, r, q, k, L, S, C, F, u, h), r.run.phase \in {"look", "pull"}, ~AtEnd(r)
  PROVE  LET e == r.rec[r.pos + 1] x == Answered(m, r, e, 1) IN
         /\ Fits(e, Asked(r)) /\ ~OtherSide(e, Asked(r))
         /\ x \in States /\ Untouched(x, r) /\ Mach(m, x, q, k, L, S, C, F, h)
<1> DEFINE e == r.rec[r.pos + 1]
           x == Answered(m, r, e, 1)
           s == S[r.pos]
           v == S[r.pos + 1]
<1>1. PlaceFields(r, q, k, L, S, C) /\ Log(L, S) /\ r \in States
  BY PlaceHas DEF Place
<1>2. Len(r.rec) = r.pos + 1 /\ r.run.phase = "pull" /\ r.pos < Len(L) /\ r.pos \in Nat /\ Len(L) \in Nat
  BY <1>1 DEF PlaceFields, AtEnd
<1>3. e \in Entries /\ Same(e, L[r.pos + 1])
  <2>1. \A i \in 1..Len(r.rec) : r.rec[i] \in Entries /\ L[i] \in Entries /\ Same(r.rec[i], L[i])
    BY <1>1 DEF PlaceFields
  <2>2. r.pos + 1 \in 1..Len(r.rec)
    BY <1>2
  <2> QED
    BY <2>1, <2>2
<1> HIDE DEF e
<1>4. /\ v = After(s, e, r.pos + 1) /\ s \in Stages /\ v \in Stages
      /\ r.pos + 1 \in Nat /\ r.pos + 1 \in 1..Len(L) /\ Follows(L, S, r.pos + 1)
      /\ ~Rests(s) => /\ e.kind = IF Head(s.left) = Server THEN "seed" ELSE "choice"
                      /\ e.side = Head(s.left) /\ s.kind \in Kinds
  BY <1>2, <1>3, NextEntry
<1>5. /\ Stands(r, s) /\ ~Rests(s) /\ r.run.left = s.left /\ r.run.simul
  BY <1>1, <1>2 DEF PlaceFields, Stands, Idle
<1>6. Fits(e, Asked(r)) /\ ~OtherSide(e, Asked(r))
  BY <1>4, <1>5 DEF Fits, OtherSide, Asked
<1>7. /\ Moves(m, r, x, s, v) /\ x.pos = r.pos + 1 /\ x.game = Append(r.game, Event(e))
  <2>1. Moves(m, r, Answered(m, r, e, 1), s, After(s, e, r.pos + 1))
        /\ Answered(m, r, e, 1).pos = r.pos + 1
        /\ Answered(m, r, e, 1).game = Append(r.game, Event(e))
    BY <1>1, <1>3, <1>4, <1>5, AnswerMoves
  <2> QED
    BY <2>1, <1>4
<1>8. ~Rests(v) => x.run.simul
  <2> DEFINE l == Tail(r.run.left)
  <2>1. r.run.left # <<>>
    BY <1>5 DEF Rests
  <2>2. AnsweredFields(m, r, e, 1, l, x)
    BY <1>1, <1>3, <2>1, AnsweredIs
  <2>3. (r.pos + 1) - 1 = r.pos
    BY <1>2
  <2>4. AnswerFields(s, v)
    BY <1>4, <1>5, <2>3, AfterAnswer
  <2>5. v.left = l
    BY <1>5, <2>4 DEF AnswerFields
  <2> HIDE DEF l
  <2> QED
    BY <1>5, <2>2, <2>5 DEF AnsweredFields, Rests
<1> HIDE DEF x
<1>9. /\ x \in States /\ Untouched(x, r) /\ x.rec = r.rec /\ x.owner = r.owner /\ x.upto = r.upto
      /\ Stands(x, v)
  BY <1>7 DEF Moves, Untouched
<1>10. Secure(m, r, F)
  BY <1>2 DEF Place, Mach, Held, Secure
<1>11. Total(r, q, k) = C /\ r.pos + 1 <= C /\ C \in Nat
  <2>1. Total(r, q, k) = C
    BY <1>2, WaitTotal
  <2> QED
    BY <1>1, <1>2, <2>1 DEF PlaceFields
<1>12. /\ Total(x, q, k) = Total(r, q, k) /\ GapAt(x, k) = GapAt(r, k)
       /\ \A i : Index(x, k, i) = Index(r, k, i)
       /\ \A i, z : OwnAt(m, x, k, F, i, z) <=> OwnAt(m, r, k, F, i, z)
  BY <1>9 DEF Total, GapAt, Index, OwnAt, Own
<1>13. Inbox(x, q, k, L)
  BY <1>12 DEF Place, Mach, Inbox
<1>14. Sent(x, q, k, L, C)
  BY <1>9, <1>11, <1>12 DEF Place, Mach, Sent
<1>15. Extends(L, S, L, S, F, m)
  BY <1>1, <1>2 DEF Extends
<1>16. Goes(m, r, r, x, e, L, S)
  <2>1. Len(x.rec) = r.pos + 1 /\ \A i \in 1..r.pos : x.rec[i] = r.rec[i]
    BY <1>2, <1>9
  <2>2. Same(x.rec[r.pos + 1], L[r.pos + 1])
    BY <1>3, <1>9 DEF e
  <2> QED
    BY <1>3, <1>7, <2>1, <2>2 DEF Goes
<1>17. r.pos + 1 = Len(L) /\ ~x.run.simul
       => x.undo + S[C].cmds + (IF Rests(v) THEN 0 ELSE 1) <= v.cmds
  <2> SUFFICES ASSUME r.pos + 1 = Len(L), ~x.run.simul PROVE x.undo + S[C].cmds + (IF Rests(v) THEN 0 ELSE 1) <= v.cmds
    OBVIOUS
  <2>1. Rests(v)
    BY <1>8
  <2>2. x.undo = 0
    BY <1>5, <1>7, <2>1 DEF Moves
  <2>3. C \in 0..r.pos + 1
    BY <1>1, <1>2, <1>11 DEF PlaceFields
  <2>4. r.pos + 1 \in 0..Len(L)
    BY <1>2
  <2>5. S[C].cmds <= v.cmds /\ S[C].cmds \in Nat /\ v.cmds \in Nat
    BY <1>1, <2>3, <2>4, CmdsGrow
  <2> QED
    BY <2>1, <2>2, <2>5
<1>18. C \in 0..Len(L)
  BY DEF Place
<1>19. Carries(m, r, q, k, L, S, C, F, u, h, L, S, r, x, e, C, q, k)
  BY <1>2, <1>10, <1>12, <1>13, <1>14, <1>15, <1>16, <1>17, <1>18 DEF Carries
<1>20. Mach(m, x, q, k, L, S, C, F, h)
  BY <1>19, CarriesMach
<1> QED
  BY <1>6, <1>9, <1>20 DEF e, x

-----------------------------------------------------------------------------
(* A machine reads the next entry.                                                 *)

LEMMA TailIs ==
  ASSUME NEW q \in Seq(Messages), q # <<>>, NEW p, p = Tail(q)
  PROVE  /\ p \in Seq(Messages) /\ Len(q) \in Nat \ {0} /\ Len(p) \in Nat /\ Len(p) + 1 = Len(q)
         /\ Head(q) = q[1] /\ \A i \in 1..Len(p) : p[i] = q[i + 1] /\ i + 1 \in 1..Len(q)
<1>1. /\ Len(q) \in Nat \ {0} /\ Head(q) = q[1] /\ Tail(q) \in Seq(Messages) /\ Len(Tail(q)) = Len(q) - 1
      /\ \A i \in 1..Len(q) - 1 : Tail(q)[i] = q[i + 1]
  BY HeadTail
<1>2. Len(p) = Len(q) - 1 /\ p \in Seq(Messages) /\ \A i \in 1..Len(q) - 1 : p[i] = q[i + 1]
  BY <1>1
<1> QED
  BY <1>1, <1>2

\* The entry e is off the inbox and in the record.
Reads1(r, q, k, L, x, p, j, e) ==
  /\ p \in Seq(Messages) /\ k # 1 /\ j \in Nat /\ e \in Entries /\ e = L[Len(r.rec) + 1] /\ e.sent
  /\ Len(r.rec) + 1 <= Len(L)
  /\ Inbox(x, p, j, L) /\ Total(x, p, j) = Total(r, q, k)
  /\ (j = 0 <=> k = 0) /\ (j # 0 => p[j] = q[k] /\ GapAt(x, j) = GapAt(r, k))

LEMMA ReadsEntry ==
  ASSUME NEW m, NEW r, NEW q, NEW k, NEW L, NEW S, NEW C, NEW F, NEW u, NEW h,
         Place(m, r, q, k, L, S, C, F, u, h), q # <<>>, Head(q).what = "entry",
         NEW x, Len(x.rec) = Len(r.rec) + 1, NEW p, p = Tail(q), NEW j, j = IF k = 0 THEN 0 ELSE k - 1,
         NEW e, e = Head(q).body
  PROVE  Reads1(r, q, k, L, x, p, j, e)
<1>1. PlaceFields(r, q, k, L, S, C) /\ Log(L, S) /\ q \in Seq(Messages) /\ Inbox(r, q, k, L)
  BY PlaceHas DEF Place, Mach
<1>2. /\ p \in Seq(Messages) /\ Len(q) \in Nat \ {0} /\ Len(p) \in Nat /\ Len(p) + 1 = Len(q)
      /\ Head(q) = q[1] /\ \A i \in 1..Len(p) : p[i] = q[i + 1] /\ i + 1 \in 1..Len(q)
  BY <1>1, TailIs
<1>3. k # 1
  BY <1>1, <1>2 DEF Inbox
<1>n. k \in Nat /\ k <= Len(q) /\ Len(r.rec) \in Nat /\ Len(L) \in Nat
  BY <1>1 DEF PlaceFields
<1>4. Index(r, k, 1) = Len(r.rec) + 1
  BY <1>3, <1>n DEF Index
<1>5. Len(r.rec) + 1 <= Len(L) /\ q[1] = Message("entry", L[Len(r.rec) + 1])
  <2>1. 1 \in 1..Len(q) /\ 1 # k
    BY <1>2, <1>3
  <2> QED
    BY <1>1, <1>4, <2>1 DEF Inbox
<1>6. L[Len(r.rec) + 1] \in Entries /\ L[Len(r.rec) + 1].sent
  <2>1. Len(r.rec) + 1 \in 1..Len(L)
    BY <1>5, <1>n
  <2>2. Fitting(S[(Len(r.rec) + 1) - 1], L[Len(r.rec) + 1])
    BY <1>1, <2>1 DEF Log
  <2> QED
    BY <1>1, <2>1, <2>2, LogTypes DEF Fitting
<1>7. e = L[Len(r.rec) + 1]
  BY <1>2, <1>5, <1>6, MessageIs
<1>8. /\ j \in Nat /\ j <= Len(p) /\ (j = 0 <=> k = 0) /\ (k # 0 => j = k - 1 /\ k = j + 1 /\ j \in 1..Len(p))
  BY <1>2, <1>3, <1>n
<1>9. j # 0 => p[j] = q[k]
  BY <1>2, <1>8
<1>10. j # 0 => GapAt(x, j) = GapAt(r, k)
  <2> DEFINE a == Len(r.rec)
  <2>1. Len(x.rec) = a + 1 /\ a \in Nat
    BY <1>n
  <2> HIDE DEF a
  <2>2. GapAt(x, j) = (a + 1) + j - 1
    BY <2>1 DEF GapAt
  <2>3. GapAt(r, k) = a + k - 1
    BY DEF GapAt, a
  <2> QED
    BY <2>1, <2>2, <2>3, <1>8
<1>11. Total(x, p, j) = Total(r, q, k)
  <2> DEFINE a == Len(r.rec)
             b == Len(p)
  <2>1. Len(x.rec) = a + 1 /\ Len(q) = b + 1 /\ a \in Nat /\ b \in Nat
    BY <1>2, <1>n
  <2> HIDE DEF a, b
  <2>2. Total(x, p, j) = IF j = 0 THEN (a + 1) + b ELSE (a + 1) + b - 1
    BY <2>1 DEF Total, b
  <2>3. Total(r, q, k) = IF k = 0 THEN a + (b + 1) ELSE a + (b + 1) - 1
    BY <2>1 DEF Total, a
  <2> QED
    BY <1>8, <2>1, <2>2, <2>3
<1>12. ASSUME NEW i \in 1..Len(p), i # j
       PROVE  Index(x, j, i) <= Len(L) /\ p[i] = Message("entry", L[Index(x, j, i)])
  <2>1. p[i] = q[i + 1] /\ i + 1 \in 1..Len(q) /\ i + 1 # k
    BY <1>2, <1>8, <1>12
  <2>2. Index(x, j, i) = Index(r, k, i + 1)
    <3> DEFINE a == Len(r.rec)
    <3>1. Len(x.rec) = a + 1 /\ a \in Nat /\ i \in Nat
      BY <1>n
    <3> HIDE DEF a
    <3>2. Index(x, j, i) = IF j = 0 \/ i < j THEN (a + 1) + i ELSE (a + 1) + i - 1
      BY <3>1 DEF Index
    <3>3. Index(r, k, i + 1) = IF k = 0 \/ i + 1 < k THEN a + (i + 1) ELSE a + (i + 1) - 1
      BY <3>1 DEF Index, a
    <3>4. (j = 0 \/ i < j) <=> (k = 0 \/ i + 1 < k)
      BY <3>1, <1>8, <1>n
    <3> QED
      BY <3>1, <3>2, <3>3, <3>4
  <2> QED
    BY <1>1, <2>1, <2>2 DEF Inbox
<1>13. j # 0 => p[j].what \in {"control", "side_drop"}
  BY <1>1, <1>8, <1>9 DEF Inbox
<1>14. Inbox(x, p, j, L)
  BY <1>8, <1>12, <1>13 DEF Inbox
<1> QED
  BY <1>2, <1>3, <1>5, <1>6, <1>7, <1>8, <1>9, <1>10, <1>11, <1>14 DEF Reads1

\* r1 is r with e in the record.
Appended(r, r1, e) ==
  /\ r1 \in States /\ r1.rec = Append(r.rec, e) /\ r1.pos = r.pos /\ r1.upto = r.upto
  /\ r1.game = r.game /\ r1.undo = r.undo /\ r1.run = r.run /\ r1.turn = r.turn
  /\ r1.inited = r.inited /\ r1.owner = r.owner /\ r1.mode = r.mode /\ r1.expect = r.expect

LEMMA AppendedRec ==
  ASSUME NEW r, NEW r1, NEW e \in Entries, Appended(r, r1, e), r.rec \in Seq(Entries)
  PROVE  /\ Len(r1.rec) = Len(r.rec) + 1 /\ Len(r.rec) \in Nat
         /\ \A i \in 1..Len(r.rec) : r1.rec[i] = r.rec[i]
         /\ r1.rec[Len(r.rec) + 1] = e
  BY DEF Appended

LEMMA AppendedStands ==
  ASSUME NEW r, NEW r1, NEW e, Appended(r, r1, e), NEW s, Stands(r, s)
  PROVE  Stands(r1, s)
  BY DEF Stands, Appended, Idle

ReceiveHas(m, r, q, k, L, S, C, F, u, h, p, j, e, r1) ==
  /\ Place(m, r, q, k, L, S, C, F, u, h) /\ r.run.phase \in {"idle", "pull"} /\ AtEnd(r)
  /\ q # <<>> /\ Head(q).what = "entry"
  /\ p = Tail(q) /\ j = (IF k = 0 THEN 0 ELSE k - 1) /\ e = Head(q).body /\ Appended(r, r1, e)
ReceiveDone(m, r, q, k, L, S, C, F, h, p, j, e, x) ==
  /\ Dependent(e) <=> ~Idle(r)
  /\ x \in States /\ x.owner = r.owner /\ x.mode = r.mode
  /\ Reads1(r, q, k, L, x, p, j, e) /\ Mach(m, x, p, j, L, S, C, F, h)

LEMMA ReceiveMach ==
  ASSUME NEW m, NEW r, NEW q, NEW k, NEW L, NEW S, NEW C, NEW F, NEW u, NEW h, NEW p, NEW j, NEW e,
         NEW r1, ReceiveHas(m, r, q, k, L, S, C, F, u, h, p, j, e, r1),
         NEW x, x = Played(m, r1, e)
  PROVE  ReceiveDone(m, r, q, k, L, S, C, F, h, p, j, e, x)
<1> DEFINE s == S[r.pos]
           v == S[r.pos + 1]
<1>0. /\ Place(m, r, q, k, L, S, C, F, u, h) /\ r.run.phase \in {"idle", "pull"} /\ AtEnd(r)
      /\ q # <<>> /\ Head(q).what = "entry"
      /\ p = Tail(q) /\ j = (IF k = 0 THEN 0 ELSE k - 1) /\ e = Head(q).body /\ Appended(r, r1, e)
  BY DEF ReceiveHas
<1>1. PlaceFields(r, q, k, L, S, C) /\ Log(L, S) /\ r \in States /\ r.rec \in Seq(Entries)
  BY <1>0, PlaceHas, StateFields DEF Place
<1>a. /\ Keeps(r, L) /\ Stands(r, s) /\ Inbox(r, q, k, L) /\ Sent(r, q, k, L, C)
      /\ Pending(m, r, k, L, S, F) /\ Held(m, r, k, F, h) /\ Stacked(m, r, L, S, C, F, h)
  BY <1>0 DEF Place, Mach
<1>e. e \in Entries
  <2>1. q \in Seq(Messages) /\ Inbox(r, q, k, L) /\ Len(r.rec) \in Nat /\ k \in Nat
    BY <1>0, <1>1, <1>a DEF PlaceFields, Place
  <2>2. /\ Len(q) \in Nat \ {0} /\ Head(q) = q[1]
    BY <1>0, <2>1, HeadTail
  <2>3. k # 1 /\ 1 \in 1..Len(q)
    BY <1>0, <2>1, <2>2 DEF Inbox
  <2>4. Index(r, k, 1) = Len(r.rec) + 1
    BY <1>0, <2>1, <2>3 DEF Index
  <2>5. q[1] = Message("entry", L[Len(r.rec) + 1]) /\ Len(r.rec) + 1 <= Len(L)
    BY <1>0, <2>1, <2>3, <2>4 DEF Inbox
  <2>6. L[Len(r.rec) + 1] \in Entries
    BY <1>0, <2>1, <2>5, <1>1, LogTypes
  <2> QED
    BY <1>0, <2>2, <2>5, <2>6, MessageIs
<1>2. /\ Len(r1.rec) = Len(r.rec) + 1 /\ Len(r.rec) \in Nat
      /\ \A i \in 1..Len(r.rec) : r1.rec[i] = r.rec[i]
      /\ r1.rec[Len(r.rec) + 1] = e
  BY <1>0, <1>1, <1>e, AppendedRec
<1>3. Reads1(r, q, k, L, r1, p, j, e)
  BY <1>0, <1>2, ReadsEntry
<1>4. /\ Len(r.rec) = r.pos /\ r.pos \in Nat /\ Len(L) \in Nat /\ r.pos < Len(L) /\ e = L[r.pos + 1]
      /\ e.sent /\ Total(r, q, k) = C /\ r.pos + 1 <= C /\ C \in Nat
  <2>1. Len(r.rec) = r.pos /\ r.pos \in Nat /\ Len(L) \in Nat /\ C \in Nat
    BY <1>0, <1>1 DEF AtEnd, PlaceFields
  <2>2. r.pos < Len(L) /\ e = L[r.pos + 1] /\ e.sent
    BY <1>0, <2>1, <1>3 DEF Reads1
  <2>3. Total(r, q, k) = C
    <3>1. Len(r.rec) # Len(L)
      BY <1>0, <2>1, <2>2
    <3> QED
      BY <1>0, <1>a, <3>1 DEF Sent
  <2>4. Total(r, q, k) >= r.pos + 1
    <3>1. Total(r1, p, j) >= Len(r1.rec)
      <4>1. p \in Seq(Messages) /\ j \in 0..Len(p) /\ r1 \in States
        BY <1>0, <1>3 DEF Reads1, Appended, Inbox
      <4>2. Len(r1.rec) <= Total(r1, p, j) /\ Total(r1, p, j) \in Nat
        BY <1>0, <4>1, TotalIs
      <4> QED
        BY <1>0, <4>2, <1>2, <2>1
    <3>2. Total(r1, p, j) = Total(r, q, k)
      BY <1>0, <1>3 DEF Reads1
    <3> QED
      BY <1>0, <3>1, <3>2, <1>2, <2>1
  <2> QED
    BY <1>0, <2>1, <2>2, <2>3, <2>4
<1>s. Same(e, L[r.pos + 1])
  BY <1>0, <1>4 DEF Same
<1>5. /\ v = After(s, e, r.pos + 1) /\ s \in Stages /\ v \in Stages
      /\ r.pos + 1 \in Nat /\ r.pos + 1 \in 1..Len(L) /\ Follows(L, S, r.pos + 1)
      /\ Rests(s) => e.kind \in Kinds /\ (e.kind = "init_side" <=> ~s.inited)
      /\ ~Rests(s) => /\ e.kind = IF Head(s.left) = Server THEN "seed" ELSE "choice"
                      /\ e.side = Head(s.left) /\ s.kind \in Kinds
  BY <1>0, <1>4, <1>e, <1>s, NextEntry
<1>6. Idle(r) <=> Rests(s)
  BY <1>0, <1>a DEF Stands
<1>7. Dependent(e) <=> ~Idle(r)
  BY <1>0, <1>5, <1>6, KindsAre DEF Dependent
<1>8. Secure(m, r, F)
  BY <1>0, <1>a, <1>3 DEF Held, Secure, Reads1
<1>9. /\ r1 \in States /\ r1.owner = r.owner /\ r1.mode = r.mode /\ r1.turn = r.turn /\ r1.undo = r.undo
      /\ r1.pos = r.pos /\ r1.game = r.game /\ r1.run = r.run /\ r1.upto = r.upto /\ r1.expect = r.expect
      /\ r1.inited = r.inited
  BY <1>0 DEF Appended
<1>10. Idle(r1) <=> Idle(r)
  BY <1>0, <1>9 DEF Idle
<1>11. CASE ~Idle(r)
  <2>1. x = r1 /\ r.run.phase = "pull"
    BY <1>0, <1>10, <1>11 DEF Played, Idle
  <2>2. Keeps(r1, L)
    <3>1. \A i \in 1..Len(r1.rec) : Same(r1.rec[i], L[i])
      <4>1. \A i \in 1..Len(r1.rec) : i \in 1..Len(r.rec) \/ i = r.pos + 1
        BY <1>0, <1>2, <1>4
      <4>2. \A i \in 1..Len(r.rec) : Same(r.rec[i], L[i])
        BY <1>0, <1>a DEF Keeps
      <4> QED
        BY <1>0, <1>2, <1>4, <1>s, <4>1, <4>2
    <3> QED
      BY <1>0, <1>a, <1>2, <1>4, <1>9, <2>1, <3>1 DEF Keeps
  <2>3. Stands(r1, S[r1.pos])
    BY <1>0, <1>a, <1>9, AppendedStands
  <2>4. Inbox(r1, p, j, L) /\ Total(r1, p, j) = C
    BY <1>0, <1>3, <1>4 DEF Reads1
  <2>5. Sent(r1, p, j, L, C)
    <3>1. \A i \in 1..Len(r1.rec) : i <= C /\ (i <= r.upto \/ r1.rec[i].sent)
      <4>1. \A i \in 1..Len(r1.rec) : i \in 1..Len(r.rec) \/ i = Len(r.rec) + 1
        BY <1>0, <1>2
      <4>2. \A i \in 1..Len(r.rec) : i <= C /\ (i <= r.upto \/ r.rec[i].sent)
        BY <1>0, <1>a, <1>2, <1>4 DEF Sent
      <4> QED
        BY <1>0, <1>2, <1>4, <4>1, <4>2
    <3>2. r1.upto <= C /\ r1.upto <= Len(r1.rec)
      <4>1. r.upto \in Nat /\ r.upto <= C /\ r.upto <= Len(r.rec)
        BY <1>0, <1>1 DEF PlaceFields
      <4> QED
        BY <1>0, <4>1, <1>2, <1>9
    <3> QED
      BY <1>0, <3>1, <3>2, <2>4, <1>9 DEF Sent
  <2>6. \A i, z : OwnAt(m, r1, j, F, i, z) <=> OwnAt(m, r, k, F, i, z)
    BY <1>0, <1>3, <1>9 DEF OwnAt, Own, Reads1
  <2>7. Pending(m, r1, j, L, S, F)
    BY <1>0, <1>a, <1>9, <2>6 DEF Pending, Own
  <2>8. Held(m, r1, j, F, h)
    BY <1>0, <1>8, <1>9, SecureHeld
  <2>9. Stacked(m, r1, L, S, C, F, h)
    BY <1>0, <1>a, <1>9 DEF Stacked, Own
  <2>10. Mach(m, r1, p, j, L, S, C, F, h)
    BY <1>0, <2>2, <2>3, <2>4, <2>5, <2>7, <2>8, <2>9 DEF Mach
  <2> QED
    BY <1>0, <1>3, <1>7, <1>9, <2>1, <2>10 DEF ReceiveDone
<1>12. CASE Idle(r)
  <2>1. x = Begins(m, r1, e) /\ Rests(s) /\ e.kind \in Kinds /\ (e.kind = "init_side" <=> ~s.inited)
    BY <1>0, <1>5, <1>6, <1>7, <1>10, <1>12 DEF Played
  <2>2. Stands(r1, s)
    BY <1>0, <1>a, AppendedStands
  <2>3. Moves(m, r1, x, s, v) /\ x.pos = r.pos + 1 /\ x.game = Append(r.game, Event(e))
    <3>1. /\ Moves(m, r1, Begins(m, r1, e), s, After(s, e, r.pos + 1))
          /\ Begins(m, r1, e).pos = r1.pos + 1 /\ Begins(m, r1, e).game = Append(r1.game, Event(e))
      BY <1>0, <1>5, <1>9, <1>e, <2>1, <2>2, BeginMoves
    <3> QED
      BY <1>0, <3>1, <2>1, <1>5, <1>9
  <2>4. x \in States /\ x.rec = r1.rec /\ x.owner = r.owner /\ x.mode = r.mode /\ x.upto = r.upto /\ Stands(x, v)
    BY <1>0, <2>3, <1>9 DEF Moves, Untouched
  <2>5. Reads1(r, q, k, L, x, p, j, e)
    BY <1>0, <1>2, <2>4, ReadsEntry
  <2>6. Inbox(x, p, j, L) /\ Total(x, p, j) = C
    BY <1>0, <1>4, <2>5 DEF Reads1
  <2>7. \A i, z : OwnAt(m, x, j, F, i, z) <=> OwnAt(m, r, k, F, i, z)
    BY <1>0, <2>4, <2>5 DEF OwnAt, Own, Reads1
  <2>8. Sent(x, p, j, L, C)
    <3>1. \A i \in 1..Len(x.rec) : i <= C /\ (i <= r.upto \/ x.rec[i].sent)
      <4>1. \A i \in 1..Len(x.rec) : i \in 1..Len(r.rec) \/ i = Len(r.rec) + 1
        BY <1>0, <1>2, <2>4
      <4>2. \A i \in 1..Len(r.rec) : i <= C /\ (i <= r.upto \/ r.rec[i].sent)
        BY <1>0, <1>a, <1>2, <1>4 DEF Sent
      <4> QED
        BY <1>0, <1>2, <1>4, <2>4, <4>1, <4>2
    <3>2. x.upto <= C /\ x.upto <= Len(x.rec)
      <4>1. r.upto \in Nat /\ r.upto <= C /\ r.upto <= Len(r.rec)
        BY <1>0, <1>1 DEF PlaceFields
      <4> QED
        BY <1>0, <4>1, <1>2, <2>4
    <3> QED
      BY <1>0, <3>1, <3>2, <2>6, <2>4 DEF Sent
  <2>9. Extends(L, S, L, S, F, m)
    BY <1>0, <1>1, <1>4 DEF Extends
  <2>10. Goes(m, r, r1, x, e, L, S)
    <3>1. /\ Len(x.rec) = r.pos + 1 /\ \A i \in 1..r.pos : x.rec[i] = r.rec[i]
          /\ Same(x.rec[r.pos + 1], L[r.pos + 1])
      BY <1>0, <1>2, <1>4, <1>s, <2>4
    <3>2. Alone(r, s) => Alone(r1, s)
      BY <1>0, <1>9 DEF Alone
    <3> QED
      BY <1>0, <1>9, <1>s, <2>3, <3>1, <3>2 DEF Goes
  <2>11. ~(Own(m, r, r.turn) /\ v.turn = r.turn)
    <3>1. ASSUME Own(m, r, r.turn) PROVE FALSE
      <4>1. Actor(s) = s.turn /\ s.turn = r.turn /\ s.turn \in Side
        BY <1>0, <1>a, <2>1, <1>5, StageFields DEF Actor, Stands
      <4>2. s.turn # Server
        BY <1>0, <4>1, SideIs DEF Server
      <4>3. r.pos \in r.pos..Len(L)-1
        BY <1>0, <1>4
      <4>4. ~OwnAt(m, r, k, F, r.pos, s.turn)
        BY <1>0, <1>a, <4>1, <4>2, <4>3 DEF Pending
      <4>5. F[s.turn] = m
        BY <1>0, <3>1, <4>1, <1>8 DEF Secure
      <4> QED
        BY <1>0, <3>1, <4>1, <4>4, <4>5 DEF OwnAt
    <3> QED
      BY <1>0, <3>1
  <2>12. C \in 0..Len(L)
    BY <1>0 DEF Place
  <2>13. Carries(m, r, q, k, L, S, C, F, u, h, L, S, r1, x, e, C, p, j)
    BY <1>0, <1>4, <1>8, <2>6, <2>7, <2>8, <2>9, <2>10, <2>11, <2>12 DEF Carries
  <2>14. Mach(m, x, p, j, L, S, C, F, h)
    BY <1>0, <2>13, CarriesMach
  <2> QED
    BY <1>0, <1>7, <2>4, <2>5, <2>14, <2>5 DEF ReceiveDone
<1> QED
  BY <1>0, <1>11, <1>12

-----------------------------------------------------------------------------
(* A machine writes the next entry.                                                *)

LEMMA EntryIs ==
  ASSUME NEW kind \in Things, NEW by \in Machine \cup Nat, NEW side \in Asks, NEW script \in Seq(Asks)
  PROVE  LET e == Entry(kind, by, side, script) IN
         /\ e \in Entries /\ e.kind = kind /\ e.by = by /\ e.side = side /\ e.script = script /\ ~e.sent
         /\ Received(e) \in Entries /\ Same(e, Received(e)) /\ Received(e).sent
<1> DEFINE e == Entry(kind, by, side, script)
<1>1. e \in Entries /\ e.kind = kind /\ e.by = by /\ e.side = side /\ e.script = script /\ ~e.sent
  BY Zenon DEF Entry, Entries
<1>2. Received(e) \in Entries /\ Same(Received(e), e) /\ Received(e).sent
  BY <1>1, EntryFields
<1> QED
  BY <1>1, <1>2 DEF Same

\* m writes the entry f.
Log2(L, S, F, m, f, L2, S2) ==
  /\ Log(L, S) /\ f \in Entries /\ Fitting(S[Len(L)], f)
  /\ Rests(S[Len(L)]) /\ f.kind # "init_side" => S[Len(L)].cmds < MaxCommands
  /\ F[IF Actor(S[Len(L)]) = Server THEN S[Len(L)].turn ELSE Actor(S[Len(L)])] = m
  /\ L2 = Append(L, f) /\ S2 = Longer(L, S, f)
Log2Has(L, S, F, m, f, L2, S2) ==
  /\ Extends(L, S, L2, S2, F, m) /\ Len(L2) = Len(L) + 1 /\ L2[Len(L) + 1] = f
  /\ S2[Len(L) + 1] = After(S[Len(L)], f, Len(L) + 1) /\ S2[Len(L)] = S[Len(L)]
  /\ Follows(L2, S2, Len(L) + 1)

LEMMA WriteLog ==
  ASSUME NEW L, NEW S, NEW F, NEW m, NEW f, NEW L2, NEW S2, Log2(L, S, F, m, f, L2, S2)
  PROVE  Log2Has(L, S, F, m, f, L2, S2)
<1>0. /\ Log(L, S) /\ f \in Entries /\ Fitting(S[Len(L)], f)
      /\ Rests(S[Len(L)]) /\ f.kind # "init_side" => S[Len(L)].cmds < MaxCommands
      /\ F[IF Actor(S[Len(L)]) = Server THEN S[Len(L)].turn ELSE Actor(S[Len(L)])] = m
      /\ L2 = Append(L, f) /\ S2 = Longer(L, S, f)
  BY DEF Log2
<1>1. Log(L2, S2)
  BY <1>0, LogGrows
<1>2. /\ L2 \in Seq(Entries) /\ Len(L2) = Len(L) + 1
      /\ L2[Len(L) + 1] = f /\ \A i \in 1..Len(L) : L2[i] = L[i]
      /\ \A i \in 0..Len(L) : S2[i] = S[i]
      /\ S2[Len(L) + 1] = After(S[Len(L)], f, Len(L) + 1)
  BY <1>0, LongerIs
<1>3. Extends(L, S, L2, S2, F, m)
  BY <1>0, <1>1, <1>2 DEF Extends
<1>4. Len(L) \in Nat /\ S2 \in [0..Len(L2) -> Stages]
  BY <1>1, LogTypes
<1>5. (Len(L) + 1) - 1 = Len(L) /\ Len(L) + 1 \in 1..Len(L2) /\ Len(L) \in 0..Len(L2) /\ Len(L) \in 0..Len(L)
  BY <1>2, <1>4
<1>6. Sound(L2, S2, Len(L)) /\ S2[Len(L)] = S[Len(L)]
  BY <1>1, <1>2, <1>5 DEF Log
<1>7. Follows(L2, S2, Len(L) + 1)
  BY <1>0, <1>2, <1>4, <1>5, <1>6 DEF Follows
<1> QED
  BY <1>2, <1>3, <1>6, <1>7 DEF Log2Has

Writes(m, r, q, k, L, S, C, F, u, h, L2, S2, r1, x, e, C2) ==
  /\ Place(m, r, q, k, L, S, C, F, u, h) /\ Secure(m, r, F)
  /\ r.pos = Len(L) /\ Len(r.rec) = Len(L) /\ \A i \in 1..Len(q) : i = k
  /\ Extends(L, S, L2, S2, F, m) /\ Len(L2) = Len(L) + 1
  /\ e \in Entries /\ Same(e, L2[Len(L) + 1]) /\ ~e.sent
  /\ r1.rec = Append(r.rec, e)
  /\ r1.owner = r.owner /\ r1.mode = r.mode /\ r1.turn = r.turn /\ r1.undo = r.undo
  /\ Alone(r, S[Len(L)]) => Alone(r1, S[Len(L)])
  /\ Moves(m, r1, x, S[Len(L)], S2[Len(L) + 1])
  /\ x.pos = r.pos + 1 /\ x.game = Append(r.game, Event(e))
  /\ (C2 = C /\ x.upto = r.upto) \/ (C2 = Len(L2) /\ x.upto = Len(L2))
  /\ /\ Own(m, r, r.turn) /\ F[r.turn] = m /\ S2[Len(L) + 1].turn = r.turn /\ ~x.run.simul
     => x.undo + S2[C2].cmds + (IF Rests(S2[Len(L) + 1]) THEN 0 ELSE 1) <= S2[Len(L) + 1].cmds

Written(m, r, q, k, L2, S2, F, h, x, C2) ==
  /\ Mach(m, x, q, k, L2, S2, C2, F, h) /\ Total(x, q, k) = Len(L2) /\ Total(x, q, k) = Total(r, q, k) + 1
  /\ GapAt(x, k) >= GapAt(r, k)
  /\ x \in States /\ x.owner = r.owner /\ x.mode = r.mode

LEMMA TotalNext ==
  ASSUME NEW r, NEW x, NEW q \in Seq(Messages), NEW k \in 0..Len(q), Len(r.rec) \in Nat, Len(x.rec) = Len(r.rec) + 1
  PROVE  Total(x, q, k) = Total(r, q, k) + 1 /\ GapAt(x, k) >= GapAt(r, k)
<1> DEFINE a == Len(r.rec)
           b == Len(q)
<1>1. a \in Nat /\ b \in Nat /\ Len(x.rec) = a + 1 /\ k \in Nat
  OBVIOUS
<1> HIDE DEF a, b
<1>2. Total(x, q, k) = (IF k = 0 THEN (a + 1) + b ELSE (a + 1) + b - 1) /\ GapAt(x, k) = (a + 1) + k - 1
  BY <1>1 DEF Total, GapAt, b
<1>3. Total(r, q, k) = (IF k = 0 THEN a + b ELSE a + b - 1) /\ GapAt(r, k) = a + k - 1
  BY DEF Total, GapAt, a, b
<1> QED
  BY <1>1, <1>2, <1>3

LEMMA WritesMach ==
  ASSUME NEW m, NEW r, NEW q, NEW k, NEW L, NEW S, NEW C, NEW F, NEW u, NEW h,
         NEW L2, NEW S2, NEW r1, NEW x, NEW e, NEW C2,
         Writes(m, r, q, k, L, S, C, F, u, h, L2, S2, r1, x, e, C2)
  PROVE  Written(m, r, q, k, L2, S2, F, h, x, C2)
<1>1. /\ Place(m, r, q, k, L, S, C, F, u, h) /\ Secure(m, r, F)
      /\ r.pos = Len(L) /\ Len(r.rec) = Len(L) /\ \A i \in 1..Len(q) : i = k
      /\ Extends(L, S, L2, S2, F, m) /\ Len(L2) = Len(L) + 1
      /\ e \in Entries /\ Same(e, L2[Len(L) + 1]) /\ ~e.sent
      /\ r1.rec = Append(r.rec, e)
      /\ x.pos = r.pos + 1
      /\ (C2 = C /\ x.upto = r.upto) \/ (C2 = Len(L2) /\ x.upto = Len(L2))
      /\ Moves(m, r1, x, S[Len(L)], S2[Len(L) + 1])
  BY DEF Writes
<1>2. PlaceFields(r, q, k, L, S, C) /\ q \in Seq(Messages) /\ k \in 0..Len(q) /\ Sent(r, q, k, L, C) /\ Inbox(r, q, k, L)
  BY <1>1, PlaceHas DEF Place, Mach
<1>3. /\ x \in States /\ x.rec = r1.rec /\ x.owner = r1.owner /\ x.mode = r1.mode
      /\ x.run.phase # "pull"
  BY <1>1 DEF Moves, Untouched
<1>o. x.owner = r.owner /\ x.mode = r.mode
  BY <1>3 DEF Writes
<1>n. /\ Len(L) \in Nat /\ C \in Nat /\ C <= Len(L) /\ r.upto \in Nat /\ r.upto <= C /\ r.rec \in Seq(Entries)
      /\ C2 \in Nat /\ Len(L2) \in Nat
  BY <1>1, <1>2 DEF PlaceFields
<1>4. /\ Len(x.rec) = Len(L) + 1 /\ \A i \in 1..Len(L) : x.rec[i] = r.rec[i]
      /\ x.rec[Len(L) + 1] = e
  <2>1. /\ Len(r1.rec) = Len(L) + 1 /\ \A i \in 1..Len(L) : r1.rec[i] = r.rec[i]
        /\ r1.rec[Len(L) + 1] = e
    BY <1>1, <1>n
  <2> QED
    BY <1>3, <2>1
<1>5. Total(x, q, k) = Total(r, q, k) + 1 /\ GapAt(x, k) >= GapAt(r, k)
  BY <1>1, <1>2, <1>4, <1>n, TotalNext
<1>6. Total(x, q, k) = Len(L2)
  <2>1. Total(r, q, k) = Len(L)
    BY <1>1, <1>2 DEF PlaceFields
  <2> QED
    BY <1>1, <1>5, <2>1
<1>7. Inbox(x, q, k, L2)
  BY <1>1, <1>2 DEF Inbox
<1>8. Sent(x, q, k, L2, C2)
  <2>1. \A i \in 1..Len(x.rec) : i \in 1..Len(L) \/ i = Len(L) + 1
    BY <1>4, <1>n
  <2>2. \A i \in 1..Len(L) : IF i <= C THEN i <= r.upto \/ r.rec[i].sent ELSE ~r.rec[i].sent
    BY <1>1, <1>2 DEF Sent
  <2>3. CASE C2 = C /\ x.upto = r.upto
    <3>1. \A i \in 1..Len(x.rec) : IF i <= C2 THEN i <= x.upto \/ x.rec[i].sent ELSE ~x.rec[i].sent
      <4>1. TAKE i \in 1..Len(x.rec)
      <4>2. CASE i \in 1..Len(L)
        BY <4>2, <1>4, <2>2, <2>3
      <4>3. CASE i = Len(L) + 1
        <5>1. ~(i <= C2) /\ ~x.rec[i].sent
          BY <4>3, <1>1, <1>4, <1>n, <2>3
        <5> QED
          BY <5>1
      <4> QED
        BY <2>1, <4>2, <4>3
    <3>2. x.upto <= C2 /\ x.upto <= Len(x.rec) /\ Len(x.rec) = Len(L2) /\ x.pos = Len(L2)
      BY <2>3, <1>1, <1>4, <1>n
    <3> QED
      BY <3>1, <3>2, <1>3, <1>6 DEF Sent
  <2>4. CASE C2 = Len(L2) /\ x.upto = Len(L2)
    <3>1. \A i \in 1..Len(x.rec) : i <= C2 /\ i <= x.upto
      BY <2>4, <1>1, <1>4, <1>n
    <3>2. x.upto <= C2 /\ x.upto <= Len(x.rec)
      BY <2>4, <1>1, <1>4, <1>n
    <3> QED
      BY <3>1, <3>2, <2>4, <1>6 DEF Sent
  <2> QED
    BY <1>1, <2>3, <2>4
<1>9. Goes(m, r, r1, x, e, L2, S2)
  <2>1. /\ r1.owner = r.owner /\ r1.mode = r.mode /\ r1.turn = r.turn /\ r1.undo = r.undo
        /\ (Alone(r, S[Len(L)]) => Alone(r1, S[Len(L)]))
        /\ x.game = Append(r.game, Event(e))
    BY DEF Writes
  <2>2. S2[r.pos] = S[Len(L)] /\ r.pos + 1 = Len(L) + 1
    BY <1>1, <1>n DEF Extends
  <2>3. \A i \in 1..r.pos : x.rec[i] = r.rec[i]
    BY <1>1, <1>4
  <2>4. Len(x.rec) = r.pos + 1 /\ Same(x.rec[r.pos + 1], L2[r.pos + 1]) /\ Same(e, L2[r.pos + 1])
    BY <1>1, <1>4, <2>2
  <2>5. Moves(m, r1, x, S2[r.pos], S2[r.pos + 1])
    BY <1>1, <2>2
  <2> QED
    BY <1>1, <2>1, <2>2, <2>3, <2>4, <2>5 DEF Goes
<1>10. C2 \in 0..Len(L2) /\ r.pos < Len(L2) /\ r.pos + 1 = Len(L2) /\ L2 # L
  BY <1>1, <1>n
<1>11. /\ Own(m, r, r.turn) /\ F[r.turn] = m /\ S2[r.pos + 1].turn = r.turn
       /\ r.pos + 1 = Len(L2) /\ ~x.run.simul
       => x.undo + S2[C2].cmds + (IF Rests(S2[r.pos + 1]) THEN 0 ELSE 1) <= S2[r.pos + 1].cmds
  <2>1. r.pos + 1 = Len(L) + 1
    BY <1>1
  <2> QED
    BY <2>1 DEF Writes
<1>12. Carries(m, r, q, k, L, S, C, F, u, h, L2, S2, r1, x, e, C2, q, k)
  BY <1>1, <1>7, <1>8, <1>9, <1>10, <1>11 DEF Carries
<1>13. Mach(m, x, q, k, L2, S2, C2, F, h)
  BY <1>12, CarriesMach
<1> QED
  BY <1>3, <1>o, <1>5, <1>6, <1>13 DEF Written

-----------------------------------------------------------------------------
(* A machine gives a command.                                                      *)

\* m may give that command: it has the side whose turn it is, and is not waiting.
May(m, r, F, kind, script) ==
  /\ Idle(r) /\ AtEnd(r) /\ Own(m, r, r.turn) /\ Secure(m, r, F)
  /\ kind \in Kinds /\ (kind = "init_side" <=> ~r.inited) /\ script \in Scripts[kind]
  /\ (kind # "init_side" => Commands(r) < MaxCommands)

\* What the record has of it, as the log has it.
Gives(m, r, kind, script) == Received(Entry(kind, m, r.turn, script))

\* The record grows.
LEMMA AppendIs ==
  ASSUME NEW r \in States, NEW e \in Entries, NEW r1, r1 = [r EXCEPT !.rec = Append(@, e)]
  PROVE  Appended(r, r1, e)
<1>1. r.rec \in Seq(Entries)
  BY StateFields
<1>2. Append(r.rec, e) \in Seq(Entries)
  BY <1>1
<1>3. [r EXCEPT !.rec = Append(@, e)] \in States
  BY <1>2, Zenon DEF States
<1>4. /\ r1.rec = Append(r.rec, e) /\ r1.pos = r.pos /\ r1.upto = r.upto
      /\ r1.game = r.game /\ r1.undo = r.undo /\ r1.run = r.run /\ r1.turn = r.turn
      /\ r1.inited = r.inited /\ r1.owner = r.owner /\ r1.mode = r.mode /\ r1.expect = r.expect
  BY Zenon DEF States
<1> QED
  BY <1>3, <1>4 DEF Appended

\* Commands counts the commands of the log.
LEMMA CommandsAre ==
  ASSUME NEW m, NEW r, NEW q, NEW k, NEW L, NEW S, NEW C, NEW F, NEW u, NEW h,
         Place(m, r, q, k, L, S, C, F, u, h), r.pos = Len(L)
  PROVE  Commands(r) = S[Len(L)].cmds
<1>1. PlaceFields(r, q, k, L, S, C) /\ Log(L, S)
  BY PlaceHas DEF Place
<1>2. /\ r.game \in Seq(Happens) /\ Len(r.game) = Len(L) /\ L \in Seq(Entries) /\ Len(L) \in Nat
      /\ \A i \in 1..Len(L) : r.game[i] = Event(L[i])
  BY <1>1 DEF PlaceFields
<1>3. DOMAIN r.game = 1..Len(L)
  BY <1>2
<1>4. \A i \in 1..Len(L) : r.game[i].kind = L[i].kind
  <2>1. \A i \in 1..Len(L) : L[i] \in Entries
    BY <1>2
  <2> QED
    BY <1>2, <2>1, EntryFields
<1>5. {i \in DOMAIN r.game : r.game[i].kind \in Kinds} = {j \in 1..Len(L) : L[j].kind \in Kinds}
  BY <1>3, <1>4
<1>6. Counts(L, S, Len(L))
  <2>1. Len(L) \in 0..Len(L)
    BY <1>2
  <2> QED
    BY <1>1, <2>1 DEF Log, Sound
<1> QED
  BY <1>5, <1>6 DEF Commands, Counts

RecordDone(m, r, q, k, L, S, F, h, L2, S2, x, C) ==
  /\ Extends(L, S, L2, S2, F, m) /\ Len(L2) = Len(L) + 1
  /\ Written(m, r, q, k, L2, S2, F, h, x, C)
  /\ r.pos = Len(L) /\ Total(r, q, k) = Len(L) /\ S2[Len(L2)].seeds = S[Len(L)].seeds
  /\ Own(m, r, S[Len(L)].turn) /\ F[S[Len(L)].turn] = m /\ Actor(S[Len(L)]) = S[Len(L)].turn

LEMMA RecordMach ==
  ASSUME NEW m \in Machine, NEW r, NEW q, NEW k, NEW L, NEW S, NEW C, NEW F, NEW u, NEW h,
         Place(m, r, q, k, L, S, C, F, u, h), NEW kind, NEW script, May(m, r, F, kind, script),
         NEW x, x = Recorded(m, r, kind, script),
         NEW L2, NEW S2, L2 = Append(L, Gives(m, r, kind, script)), S2 = Longer(L, S, Gives(m, r, kind, script))
  PROVE  RecordDone(m, r, q, k, L, S, F, h, L2, S2, x, C)
<1> DEFINE e == Entry(kind, m, r.turn, script)
           f == Gives(m, r, kind, script)
           s == S[Len(L)]
           v == S2[Len(L) + 1]
           r1 == [r EXCEPT !.rec = Append(@, e)]
<1>1. PlaceFields(r, q, k, L, S, C) /\ Log(L, S) /\ r \in States
  BY PlaceHas DEF Place
<1>2. /\ Idle(r) /\ AtEnd(r) /\ Own(m, r, r.turn) /\ Secure(m, r, F)
      /\ kind \in Kinds /\ (kind = "init_side" <=> ~r.inited) /\ script \in Scripts[kind]
      /\ (kind # "init_side" => Commands(r) < MaxCommands)
  BY DEF May
<1>3. r.turn \in Side /\ r.turn \in Asks /\ r.turn # Server
  <2>1. r.turn \in Side
    BY <1>1, StateFields
  <2> QED
    BY <2>1, SideIs DEF Asks, Server
<1>4. Stands(r, S[r.pos]) /\ S[r.pos].turn = r.turn /\ Rests(S[r.pos]) /\ Actor(S[r.pos]) = r.turn
  <2>1. Stands(r, S[r.pos]) /\ r.turn = S[r.pos].turn
    BY <1>1 DEF PlaceFields
  <2>2. Rests(S[r.pos])
    BY <2>1, <1>2 DEF Stands
  <2> QED
    BY <2>1, <2>2 DEF Actor
<1>5. F[r.turn] = m
  BY <1>2, <1>3 DEF Secure
<1>6. /\ r.pos = Len(L) /\ Len(r.rec) = Len(L) /\ Total(r, q, k) = Len(L)
      /\ \A i \in 1..Len(q) : i = k
  <2>1. Actor(S[r.pos]) # Server /\ Own(m, r, Actor(S[r.pos])) /\ F[Actor(S[r.pos])] = m
    BY <1>2, <1>3, <1>4, <1>5
  <2>2. AtEnd(r) /\ Place(m, r, q, k, L, S, C, F, u, h)
    BY <1>2
  <2>3. Word(m, r, q, k, L, S, C, F, u, h)
    BY <2>1, <2>2 DEF Word
  <2>4. WordHas(r, q, k, L)
    BY <2>3, HasWord
  <2> QED
    BY <2>4 DEF WordHas
<1>7. /\ Stands(r, s) /\ s.turn = r.turn /\ Rests(s) /\ Actor(s) = r.turn /\ s \in Stages
      /\ (s.inited <=> r.inited) /\ s.inited = r.inited
  <2>1. S[r.pos] \in Stages
    BY <1>1 DEF PlaceFields
  <2> QED
    BY <2>1, <1>4, <1>6 DEF Stands
<1>8. script \in Seq(Asks) /\ kind \in Things
  BY <1>2, ScriptIs DEF Things
<1>9. /\ e \in Entries /\ e.kind = kind /\ e.by = m /\ e.side = r.turn /\ e.script = script /\ ~e.sent
      /\ f \in Entries /\ Same(e, f) /\ f.sent
  <2>1. m \in Machine \cup Nat
    OBVIOUS
  <2> QED
    BY <1>3, <1>8, <2>1, EntryIs DEF Gives
<1>10. f.kind = kind /\ f.side = r.turn /\ f.by = m /\ f.script = script
  BY <1>9 DEF Same
<1> HIDE DEF e, f
<1>11. Fitting(s, f)
  BY <1>2, <1>7, <1>9, <1>10 DEF Fitting
<1>12. f.kind # "init_side" => s.cmds < MaxCommands
  BY <1>2, <1>6, <1>10, CommandsAre
<1>13. F[IF Actor(s) = Server THEN s.turn ELSE Actor(s)] = m
  BY <1>3, <1>5, <1>7
<1>14. /\ Extends(L, S, L2, S2, F, m) /\ Len(L2) = Len(L) + 1 /\ L2[Len(L) + 1] = f
       /\ v = After(s, f, Len(L) + 1) /\ S2[Len(L)] = s
       /\ Follows(L2, S2, Len(L) + 1)
  <2>1. L2 = Append(L, f) /\ S2 = Longer(L, S, f)
    BY DEF f
  <2>2. Log(L, S) /\ f \in Entries /\ Fitting(S[Len(L)], f)
    BY <1>1, <1>9, <1>11
  <2>3. Rests(S[Len(L)]) /\ f.kind # "init_side" => S[Len(L)].cmds < MaxCommands
    BY <1>12
  <2>4. F[IF Actor(S[Len(L)]) = Server THEN S[Len(L)].turn ELSE Actor(S[Len(L)])] = m
    BY <1>13
  <2>5. Log2(L, S, F, m, f, L2, S2)
    BY <2>1, <2>2, <2>3, <2>4 DEF Log2
  <2>6. Log2Has(L, S, F, m, f, L2, S2)
    BY <2>5, WriteLog
  <2> QED
    BY <2>6 DEF Log2Has
<1>15. Appended(r, r1, e)
  BY <1>1, <1>9, AppendIs
<1> HIDE DEF r1
<1>16. x = Begins(m, r1, e)
  BY DEF Recorded, r1, e
<1>17. Len(L) \in Nat /\ C \in Nat /\ C <= Len(L) /\ Len(L) + 1 \in Nat /\ r.undo \in Nat
  BY <1>1 DEF PlaceFields
<1>18. Moves(m, r1, x, s, v) /\ x.pos = r.pos + 1 /\ x.game = Append(r.game, Event(e))
  <2>1. Stands(r1, s) /\ r1 \in States
    BY <1>7, <1>15, AppendedStands DEF Appended
  <2>2. e.kind \in Kinds /\ (e.kind = "init_side" <=> ~s.inited)
    BY <1>2, <1>7, <1>9
  <2>3. /\ Moves(m, r1, Begins(m, r1, e), s, After(s, e, Len(L) + 1))
        /\ Begins(m, r1, e).pos = r1.pos + 1 /\ Begins(m, r1, e).game = Append(r1.game, Event(e))
    BY <1>7, <1>9, <1>17, <2>1, <2>2, BeginMoves
  <2>4. v = After(s, e, Len(L) + 1)
    BY <1>9, <1>14, SameAfter
  <2>5. r1.pos = r.pos /\ r1.game = r.game
    BY <1>15 DEF Appended
  <2> QED
    BY <1>16, <2>3, <2>4, <2>5
<1>19. /\ r1.rec = Append(r.rec, e)
       /\ r1.owner = r.owner /\ r1.mode = r.mode /\ r1.turn = r.turn /\ r1.undo = r.undo
       /\ r1.upto = r.upto /\ r1.run = r.run
  BY <1>15 DEF Appended
<1>20. (Alone(r, s) => Alone(r1, s)) /\ x.upto = r.upto
  BY <1>18, <1>19 DEF Alone, Moves, Untouched
<1>21. CommandFields(s, f, Len(L) + 1, v)
  <2>1. (Len(L) + 1) - 1 = Len(L)
    BY <1>17
  <2>2. Rests(S2[(Len(L) + 1) - 1])
    BY <2>1, <1>7, <1>14
  <2> QED
    BY <2>1, <2>2, <1>14, AfterCommand
<1>22. v.cmds = s.cmds + 1 /\ v.seeds = s.seeds /\ s.cmds \in Nat
  BY <1>7, <1>21, StageFields DEF CommandFields
<1>23. x.undo + S2[C].cmds + (IF Rests(v) THEN 0 ELSE 1) <= v.cmds
  <2>1. r.undo + S[C].cmds <= s.cmds
    <3>1. ~r.run.simul
      BY <1>2, <1>7, NoRunIs DEF Stands
    <3>2. Stacked(m, r, L, S, C, F, h)
      BY DEF Place, Mach
    <3>3. S[C].cmds \in Nat
      <4>1. C \in 0..Len(L)
        BY <1>17
      <4> QED
        BY <1>1, <4>1, LogTypes, StageFields
    <3> QED
      BY <1>2, <1>5, <1>6, <1>7, <1>17, <1>22, <3>1, <3>2, <3>3 DEF Stacked
  <2>2. x.undo <= r.undo + (IF Rests(v) THEN 1 ELSE 0) /\ x.undo \in Nat
    BY <1>18, <1>19, StateFields DEF Moves
  <2>3. S2[C] = S[C] /\ S[C].cmds \in Nat
    <3>1. C \in 0..Len(L)
      BY <1>17
    <3> QED
      BY <1>1, <1>14, <3>1, LogTypes, StageFields DEF Extends
  <2> QED
    BY <1>17, <1>22, <2>1, <2>2, <2>3
<1>24. Writes(m, r, q, k, L, S, C, F, u, h, L2, S2, r1, x, e, C)
  BY <1>2, <1>6, <1>9, <1>14, <1>18, <1>19, <1>20, <1>23 DEF Writes
<1>25. Written(m, r, q, k, L2, S2, F, h, x, C)
  BY <1>24, WritesMach
<1> QED
  BY <1>2, <1>5, <1>6, <1>7, <1>14, <1>22, <1>25 DEF RecordDone

-----------------------------------------------------------------------------
(* A machine answers a question.                                                   *)

Chooses(m, r, q, k, L, S, C, F, u, h, e, L2, S2) ==
  /\ Place(m, r, q, k, L, S, C, F, u, h) /\ m \in Machine
  /\ r.run.phase \in {"look", "pull"} /\ r.expect = None /\ AtEnd(r)
  /\ Asked(r) # Server /\ Own(m, r, Asked(r))
  /\ e = Entry("choice", m, Asked(r), <<>>)
  /\ L2 = Append(L, Received(e)) /\ S2 = Longer(L, S, Received(e))

ChoosesHas(m, r, q, k, L, S, C, F, h, e, L2, S2) ==
  /\ Secure(m, r, F) /\ PlaceFields(r, q, k, L, S, C) /\ Stacked(m, r, L, S, C, F, h)
  /\ r.pos = Len(L) /\ Len(r.rec) = Len(L) /\ Total(r, q, k) = Len(L) /\ \A i \in 1..Len(q) : i = k
  /\ S[Len(L)] \in Stages /\ Shapes(S[Len(L)]) /\ Stands(r, S[Len(L)]) /\ ~Rests(S[Len(L)])
  /\ r.turn = S[Len(L)].turn
  /\ S[Len(L)].kind \in Kinds /\ Actor(S[Len(L)]) = Asked(r) /\ Head(S[Len(L)].left) = Asked(r)
  /\ F[Asked(r)] = m
  /\ e \in Entries /\ e.kind = "choice" /\ ~e.sent /\ Same(e, L2[Len(L) + 1])
  /\ Extends(L, S, L2, S2, F, m) /\ Len(L2) = Len(L) + 1 /\ S2[Len(L)] = S[Len(L)]
  /\ S2[Len(L) + 1] = After(S[Len(L)], e, Len(L) + 1)
  /\ AnswerFields(S[Len(L)], S2[Len(L) + 1]) /\ Shapes(S2[Len(L) + 1])
  /\ S2[Len(L) + 1].seeds = S[Len(L)].seeds

LEMMA ChoosesIs ==
  ASSUME NEW m, NEW r, NEW q, NEW k, NEW L, NEW S, NEW C, NEW F, NEW u, NEW h,
         NEW e, NEW L2, NEW S2, Chooses(m, r, q, k, L, S, C, F, u, h, e, L2, S2)
  PROVE  ChoosesHas(m, r, q, k, L, S, C, F, h, e, L2, S2)
<1> DEFINE f == Received(e)
           s == S[Len(L)]
           v == S2[Len(L) + 1]
           a == Asked(r)
<1>1. /\ Place(m, r, q, k, L, S, C, F, u, h) /\ m \in Machine
      /\ r.run.phase \in {"look", "pull"} /\ r.expect = None /\ AtEnd(r)
      /\ a # Server /\ Own(m, r, a) /\ e = Entry("choice", m, a, <<>>)
      /\ L2 = Append(L, f) /\ S2 = Longer(L, S, f)
  BY DEF Chooses
<1>2. PlaceFields(r, q, k, L, S, C) /\ Log(L, S) /\ r \in States
  BY <1>1, PlaceHas DEF Place
<1>3. /\ Stands(r, S[r.pos]) /\ S[r.pos] \in Stages /\ Shapes(S[r.pos]) /\ r.turn = S[r.pos].turn
      /\ ~Rests(S[r.pos]) /\ r.run.left = S[r.pos].left
  <2>1. Stands(r, S[r.pos]) /\ S[r.pos] \in Stages /\ Shapes(S[r.pos]) /\ r.turn = S[r.pos].turn
    BY <1>2 DEF PlaceFields
  <2> QED
    BY <1>1, <2>1 DEF Stands, Idle
<1>4. Actor(S[r.pos]) = a /\ a \in Side /\ S[r.pos].kind \in Kinds /\ Head(S[r.pos].left) = a
  <2>1. Actor(S[r.pos]) = a /\ Head(S[r.pos].left) = a
    BY <1>3 DEF Actor, Asked
  <2>2. a \in Side
    BY <1>1, <1>3, <2>1, ActorIs
  <2>3. S[r.pos].kind \in Kinds
    BY <1>3, StageFields DEF Shapes
  <2> QED
    BY <2>1, <2>2, <2>3
<1>5. Secure(m, r, F)
  <2>1. \A z \in Side : Own(m, r, z) /\ F[z] # m =>
          (r.run.phase = "pull" /\ r.expect = z) \/ Idle(r)
    BY <1>1 DEF Place, Mach, Held
  <2>2. None \notin Side
    BY RemoteAssumption
  <2> QED
    BY <1>1, <2>1, <2>2 DEF Secure, Idle
<1>6. F[a] = m
  BY <1>1, <1>4, <1>5 DEF Secure
<1>7. /\ r.pos = Len(L) /\ Len(r.rec) = Len(L) /\ Total(r, q, k) = Len(L) /\ \A i \in 1..Len(q) : i = k
  <2>1. Word(m, r, q, k, L, S, C, F, u, h)
    BY <1>1, <1>4, <1>6 DEF Word
  <2>2. WordHas(r, q, k, L)
    BY <2>1, HasWord
  <2> QED
    BY <2>2 DEF WordHas
<1>8. /\ e \in Entries /\ e.kind = "choice" /\ e.by = m /\ e.side = a /\ e.script = <<>> /\ ~e.sent
      /\ f \in Entries /\ Same(e, f) /\ f.sent
  <2>1. "choice" \in Things /\ m \in Machine \cup Nat /\ a \in Asks /\ <<>> \in Seq(Asks)
    BY <1>1, <1>4 DEF Things, Asks
  <2> DEFINE c == Entry("choice", m, a, <<>>)
  <2>2. /\ c \in Entries /\ c.kind = "choice" /\ c.by = m /\ c.side = a /\ c.script = <<>> /\ ~c.sent
        /\ Received(c) \in Entries /\ Same(c, Received(c)) /\ Received(c).sent
    BY <2>1, EntryIs
  <2>3. e = c
    BY <1>1
  <2> HIDE DEF c
  <2> QED
    BY <2>2, <2>3
<1>9. f.kind = "choice" /\ f.by = m /\ f.side = a /\ f.script = <<>>
  BY <1>8 DEF Same
<1> HIDE DEF f
<1>10. Log2(L, S, F, m, f, L2, S2)
  <2>1. Fitting(S[Len(L)], f)
    BY <1>1, <1>3, <1>4, <1>7, <1>8, <1>9 DEF Fitting
  <2>2. ~Rests(S[Len(L)]) /\ Actor(S[Len(L)]) = a
    BY <1>3, <1>4, <1>7
  <2> QED
    BY <1>1, <1>2, <1>6, <1>8, <2>1, <2>2 DEF Log2
<1>11. /\ Extends(L, S, L2, S2, F, m) /\ Len(L2) = Len(L) + 1 /\ L2[Len(L) + 1] = f
       /\ v = After(s, f, Len(L) + 1) /\ S2[Len(L)] = s /\ Follows(L2, S2, Len(L) + 1)
  <2>1. Log2Has(L, S, F, m, f, L2, S2)
    BY <1>10, WriteLog
  <2> QED
    BY <2>1 DEF Log2Has
<1>12. v = After(s, e, Len(L) + 1) /\ Same(e, L2[Len(L) + 1])
  BY <1>8, <1>11, SameAfter
<1>13. AnswerFields(s, v) /\ Shapes(v)
  <2>1. (Len(L) + 1) - 1 = Len(L)
    BY <1>2 DEF PlaceFields
  <2>2. ~Rests(S2[(Len(L) + 1) - 1]) /\ S2[(Len(L) + 1) - 1] = s
    BY <2>1, <1>3, <1>7, <1>11
  <2>3. AnswerFields(S2[(Len(L) + 1) - 1], S2[Len(L) + 1])
    BY <2>2, <1>11, AfterAnswer
  <2>4. Shapes(v)
    BY <1>11, ShapesNext
  <2> QED
    BY <2>2, <2>3, <2>4
<1>14. v.seeds = s.seeds
  BY <1>1, <1>4, <1>7, <1>13 DEF AnswerFields
<1>15. Stacked(m, r, L, S, C, F, h)
  BY <1>1 DEF Place, Mach
<1> QED
  BY <1>2, <1>3, <1>4, <1>5, <1>6, <1>7, <1>8, <1>11, <1>12, <1>13, <1>14, <1>15 DEF ChoosesHas

\* AnswerMoves, in one piece.
Answers(r, s, e, i, c) ==
  /\ r \in States /\ s \in Stages /\ e \in Entries /\ i \in Nat /\ c \in Nat
  /\ Stands(r, s) /\ ~Rests(s) /\ s.kind \in Kinds
  /\ e.kind = IF Head(s.left) = Server THEN "seed" ELSE "choice"
  /\ Head(s.left) # s.turn => r.run.simul
AnswersHas(m, r, s, e, i, c) ==
  /\ Moves(m, r, Answered(m, r, e, c), s, After(s, e, i))
  /\ Answered(m, r, e, c).pos = r.pos + c
  /\ Answered(m, r, e, c).game = Append(r.game, Event(e))

LEMMA AnswersIs ==
  ASSUME NEW r, NEW s, NEW e, NEW i, NEW c, NEW m, Answers(r, s, e, i, c)
  PROVE  AnswersHas(m, r, s, e, i, c)
<1>1. /\ r \in States /\ s \in Stages /\ e \in Entries /\ i \in Nat /\ c \in Nat
      /\ Stands(r, s) /\ ~Rests(s) /\ s.kind \in Kinds
      /\ e.kind = IF Head(s.left) = Server THEN "seed" ELSE "choice"
      /\ Head(s.left) # s.turn => r.run.simul
  BY DEF Answers
<1> QED
  BY <1>1, AnswerMoves DEF AnswersHas

\* Nothing to undo, and no question to the side itself.
Quiet(s) == s.undo = 0 /\ (~Rests(s) => s.remote \/ Actor(s) # s.turn)

ChoiceDone(m, r, q, k, L, S, C, F, u, h, L2, S2, x, C2, P) ==
  /\ Extends(L, S, L2, S2, F, m) /\ Len(L2) = Len(L) + 1
  /\ Written(m, r, q, k, L2, S2, F, h, x, C2) /\ Spread(L2, C, C2, P)
  /\ Total(r, q, k) = Len(L) /\ S2[Len(L2)].seeds = S[Len(L)].seeds
  /\ C2 # C => Quiet(S2[C2])
  /\ C2 # Len(L2) => /\ Own(m, r, S[Len(L)].turn) /\ F[S[Len(L)].turn] = m
                     /\ Actor(S[Len(L)]) = S[Len(L)].turn

\* The answer stays with the command.
LEMMA ChooseAlone ==
  ASSUME NEW m, NEW r, NEW q, NEW k, NEW L, NEW S, NEW C, NEW F, NEW u, NEW h,
         NEW e, NEW L2, NEW S2, Chooses(m, r, q, k, L, S, C, F, u, h, e, L2, S2),
         ~(r.run.simul \/ r.turn # Asked(r)), NEW r1, r1 = [r EXCEPT !.rec = Append(@, e)],
         NEW x, x = Answered(m, r1, e, 1)
  PROVE  ChoiceDone(m, r, q, k, L, S, C, F, u, h, L2, S2, x, C, <<>>)
<1> DEFINE s == S[Len(L)]
           v == S2[Len(L) + 1]
           a == Asked(r)
<1>1. ChoosesHas(m, r, q, k, L, S, C, F, h, e, L2, S2)
  BY ChoosesIs
<1>2. /\ Secure(m, r, F) /\ PlaceFields(r, q, k, L, S, C) /\ Stacked(m, r, L, S, C, F, h)
      /\ r.pos = Len(L) /\ Len(r.rec) = Len(L) /\ Total(r, q, k) = Len(L) /\ \A i \in 1..Len(q) : i = k
      /\ s \in Stages /\ Shapes(s) /\ Stands(r, s) /\ ~Rests(s) /\ r.turn = s.turn
      /\ s.kind \in Kinds /\ Actor(s) = a /\ Head(s.left) = a /\ F[a] = m
      /\ e \in Entries /\ e.kind = "choice" /\ ~e.sent /\ Same(e, L2[Len(L) + 1])
      /\ Extends(L, S, L2, S2, F, m) /\ Len(L2) = Len(L) + 1 /\ S2[Len(L)] = s
      /\ v = After(s, e, Len(L) + 1) /\ AnswerFields(s, v) /\ Shapes(v) /\ v.seeds = s.seeds
  BY <1>1 DEF ChoosesHas
<1>3. /\ Place(m, r, q, k, L, S, C, F, u, h) /\ a # Server /\ Own(m, r, a) /\ a = r.turn /\ ~r.run.simul
      /\ r \in States /\ Log(L, S)
  BY DEF Chooses, Place
<1>4. Appended(r, r1, e)
  BY <1>2, <1>3, AppendIs
<1>5. /\ r1 \in States /\ r1.rec = Append(r.rec, e) /\ r1.pos = r.pos /\ r1.upto = r.upto
      /\ r1.game = r.game /\ r1.undo = r.undo /\ r1.run = r.run /\ r1.turn = r.turn
      /\ r1.owner = r.owner /\ r1.mode = r.mode /\ Stands(r1, s)
  BY <1>2, <1>4, AppendedStands DEF Appended
<1>6. Len(L) \in Nat /\ C \in Nat /\ C <= Len(L) /\ Len(L) + 1 \in Nat /\ r.undo \in Nat
  BY <1>2 DEF PlaceFields
<1>7. Moves(m, r1, x, s, v) /\ x.pos = r.pos + 1 /\ x.game = Append(r.game, Event(e))
  <2>1. e.kind = IF Head(s.left) = Server THEN "seed" ELSE "choice"
    BY <1>2, <1>3
  <2>2. Head(s.left) # s.turn => r1.run.simul
    BY <1>2, <1>3
  <2>3. /\ Moves(m, r1, Answered(m, r1, e, 1), s, After(s, e, Len(L) + 1))
        /\ Answered(m, r1, e, 1).pos = r1.pos + 1
        /\ Answered(m, r1, e, 1).game = Append(r1.game, Event(e))
    <3>1. /\ r1 \in States /\ s \in Stages /\ e \in Entries /\ Len(L) + 1 \in Nat /\ 1 \in Nat
          /\ Stands(r1, s) /\ ~Rests(s) /\ s.kind \in Kinds
      BY <1>2, <1>5, <1>6
    <3>2. e.kind = "choice" /\ Head(s.left) # Server /\ Head(s.left) = s.turn
      BY <1>2, <1>3
    <3> HIDE DEF s
    <3>3. e.kind = IF Head(s.left) = Server THEN "seed" ELSE "choice"
      BY <3>2
    <3> QED
      <4>1. Answers(r1, s, e, Len(L) + 1, 1)
        BY <3>1, <3>2, <3>3 DEF Answers
      <4>2. AnswersHas(m, r1, s, e, Len(L) + 1, 1)
        BY <4>1, AnswersIs
      <4> QED
        BY <4>2 DEF AnswersHas
  <2> QED
    BY <1>2, <1>5, <2>3
<1>8. (Alone(r, s) => Alone(r1, s)) /\ x.upto = r.upto
  BY <1>5, <1>7 DEF Alone, Moves, Untouched
<1>9. v.cmds = s.cmds /\ s.cmds \in Nat
  BY <1>2, StageFields DEF AnswerFields
<1>10. x.undo + S2[C].cmds + (IF Rests(v) THEN 0 ELSE 1) <= v.cmds
  <2>1. S2[C] = S[C] /\ S[C].cmds \in Nat
    <3>1. C \in 0..Len(L)
      BY <1>6
    <3> QED
      BY <1>2, <1>3, <3>1, LogTypes, StageFields DEF Extends
  <2>2. r.undo + S[C].cmds + 1 <= s.cmds
    BY <1>2, <1>3 DEF Stacked
  <2>3. x.undo <= r.undo + (IF Rests(v) THEN 1 ELSE 0) /\ x.undo \in Nat
    BY <1>5, <1>7, StateFields DEF Moves
  <2> QED
    BY <1>6, <1>9, <2>1, <2>2, <2>3
<1>11. Writes(m, r, q, k, L, S, C, F, u, h, L2, S2, r1, x, e, C)
  BY <1>2, <1>3, <1>5, <1>7, <1>8, <1>10 DEF Writes
<1>12. Written(m, r, q, k, L2, S2, F, h, x, C)
  BY <1>11, WritesMach
<1>13. Spread(L2, C, C, <<>>)
  BY DEF Spread
<1> QED
  BY <1>2, <1>3, <1>12, <1>13 DEF ChoiceDone

\* A machine reads what it sends, and will read what is sent.
SentAllHas(r, x) ==
  /\ x \in States /\ x.rec = r.rec /\ x.pos = r.pos /\ x.game = r.game /\ x.undo = 0
  /\ x.upto = Len(r.rec) /\ x.turn = r.turn /\ x.inited = r.inited
  /\ x.owner = r.owner /\ x.mode = r.mode /\ x.expect = r.expect
  /\ x.run.simul /\ x.run.kind = r.run.kind /\ x.run.left = r.run.left
  /\ x.run.phase = r.run.phase /\ (x.run.seeded <=> r.run.seeded)
  /\ (x.run.local <=> r.run.local) /\ (x.run.required <=> r.run.required)

LEMMA SentAll ==
  ASSUME NEW r \in States, r.undo = 0, NEW x, x = Flushed([r EXCEPT !.run.simul = TRUE])
  PROVE  SentAllHas(r, x)
<1> DEFINE t == [r EXCEPT !.run.simul = TRUE]
<1>1. r.run \in Runs /\ r.rec \in Seq(Entries)
  BY StateFields
<1>2. [r.run EXCEPT !.simul = TRUE] \in Runs
  BY <1>1, Zenon DEF Runs
<1>3. t = [r EXCEPT !.run = [r.run EXCEPT !.simul = TRUE]]
  BY Zenon
<1>4. t \in States
  BY <1>2, <1>3, Zenon DEF States
<1>5. t.run = [r.run EXCEPT !.simul = TRUE]
  BY <1>3, Zenon DEF States
<1>6. /\ t.rec = r.rec /\ t.pos = r.pos /\ t.game = r.game /\ t.undo = r.undo /\ t.turn = r.turn
      /\ t.inited = r.inited /\ t.owner = r.owner /\ t.mode = r.mode /\ t.expect = r.expect
  BY Zenon DEF States
<1>r. LET z == [r.run EXCEPT !.simul = TRUE] IN
      /\ z.simul = TRUE /\ z.kind = r.run.kind /\ z.left = r.run.left
      /\ z.phase = r.run.phase /\ z.seeded = r.run.seeded
      /\ z.local = r.run.local /\ z.required = r.run.required
  BY <1>1, Zenon DEF Runs
<1>7. /\ t.run.simul = TRUE /\ t.run.kind = r.run.kind /\ t.run.left = r.run.left
      /\ t.run.phase = r.run.phase /\ t.run.seeded = r.run.seeded
      /\ t.run.local = r.run.local /\ t.run.required = r.run.required
  BY <1>5, <1>r
<1> HIDE DEF t
<1>8. Len(t.rec) \in Nat
  BY <1>1, <1>6
<1> DEFINE y == [t EXCEPT !.upto = Len(t.rec)]
<1>9. y \in States
  BY <1>4, <1>8, Zenon DEF States
<1>10. /\ y.rec = t.rec /\ y.pos = t.pos /\ y.game = t.game /\ y.undo = t.undo /\ y.turn = t.turn
       /\ y.inited = t.inited /\ y.owner = t.owner /\ y.mode = t.mode /\ y.expect = t.expect
       /\ y.run = t.run /\ y.upto = Len(t.rec)
  BY <1>4, Zenon DEF States
<1>11. Flushed(t) = y
  <2>1. ~(t.undo > 0)
    BY <1>6
  <2> QED
    BY <2>1 DEF Flushed
<1> HIDE DEF y
<1>12. x = y
  BY <1>11 DEF t
<1> QED
  BY <1>6, <1>7, <1>9, <1>10, <1>12 DEF SentAllHas

\* PacketIs, in one piece.
Packs(r, L, S, C) ==
  /\ r \in States /\ Log(L, S) /\ Copies(r, L) /\ C \in Nat /\ Marks(r, C)
PacksHas(r, L, C) ==
  /\ r.undo # 0 => Outgoing(r) = <<>> /\ Packet(r) = <<>>
  /\ Len(r.rec) <= C => Outgoing(r) = <<>> /\ Packet(r) = <<>>
  /\ r.undo = 0 /\ Len(r.rec) > C =>
       /\ Packet(r) \in Seq(Messages) /\ Len(Packet(r)) = Len(r.rec) - C
       /\ \A i \in 1..Len(r.rec) - C : Packet(r)[i] = Message("entry", L[C + i])

LEMMA PacksIs ==
  ASSUME NEW r, NEW L, NEW S, NEW C, Packs(r, L, S, C)
  PROVE  PacksHas(r, L, C)
<1>1. r \in States /\ Log(L, S) /\ Copies(r, L) /\ C \in Nat /\ Marks(r, C)
  BY DEF Packs
<1> QED
  BY <1>1, PacketIs DEF PacksHas

\* The packet of a machine that has just written an entry.
LEMMA PacketNext ==
  ASSUME NEW r, NEW r1, NEW e \in Entries, Appended(r, r1, e), NEW L, NEW S, NEW C \in Nat, NEW L2, NEW S2,
         Log(L2, S2), r.rec \in Seq(Entries), Len(L2) = Len(L) + 1, Len(r.rec) = Len(L), C <= Len(L),
         r.undo = 0, ~e.sent, Same(e, L2[Len(L) + 1]),
         \A i \in 1..Len(L) : Same(r.rec[i], L2[i]),
         r.upto <= C, \A i \in 1..Len(r.rec) : IF i <= C THEN i <= r.upto \/ r.rec[i].sent ELSE ~r.rec[i].sent
  PROVE  Spread(L2, C, Len(L2), Packet(r1))
<1>1. /\ Len(r1.rec) = Len(L) + 1 /\ Len(L) \in Nat
      /\ \A i \in 1..Len(L) : r1.rec[i] = r.rec[i]
      /\ r1.rec[Len(L) + 1] = e
  BY AppendedRec
<1>2. r1 \in States /\ r1.undo = 0 /\ r1.upto = r.upto
  BY DEF Appended
<1>3. \A i \in 1..Len(r1.rec) : i \in 1..Len(L) \/ i = Len(L) + 1
  BY <1>1
<1>4. Copies(r1, L2)
  <2>1. \A i \in 1..Len(r1.rec) : Same(r1.rec[i], L2[i])
    BY <1>1, <1>3
  <2> QED
    BY <1>1, <2>1 DEF Copies
<1>5. Marks(r1, C)
  <2>1. ASSUME NEW i \in 1..Len(r1.rec)
        PROVE  IF i <= C THEN i <= r1.upto \/ r1.rec[i].sent ELSE ~r1.rec[i].sent
    <3>1. CASE i \in 1..Len(L)
      BY <3>1, <1>1, <1>2
    <3>2. CASE i = Len(L) + 1
      <4>1. ~(i <= C) /\ ~r1.rec[i].sent
        BY <3>2, <1>1
      <4> QED
        BY <4>1
    <3> QED
      BY <1>3, <3>1, <3>2
  <2> QED
    BY <1>2, <2>1 DEF Marks
<1>6. /\ Packet(r1) \in Seq(Messages) /\ Len(Packet(r1)) = Len(r1.rec) - C
      /\ \A i \in 1..Len(r1.rec) - C : Packet(r1)[i] = Message("entry", L2[C + i])
  <2>1. r1.undo = 0 /\ Len(r1.rec) > C
    BY <1>1, <1>2
  <2> QED
    <3>1. Packs(r1, L2, S2, C)
      BY <1>2, <1>4, <1>5 DEF Packs
    <3>2. PacksHas(r1, L2, C)
      BY <3>1, PacksIs
    <3> QED
      BY <2>1, <3>2 DEF PacksHas
<1> QED
  BY <1>1, <1>6 DEF Spread

\* The answer is sent, with what was not sent yet.
LEMMA ChooseSends ==
  ASSUME NEW m, NEW r, NEW q, NEW k, NEW L, NEW S, NEW C, NEW F, NEW u, NEW h,
         NEW e, NEW L2, NEW S2, Chooses(m, r, q, k, L, S, C, F, u, h, e, L2, S2),
         r.run.simul \/ r.turn # Asked(r), NEW y, y = [r EXCEPT !.rec = Append(@, e)],
         NEW r1, r1 = Flushed([y EXCEPT !.run.simul = TRUE]), NEW x, x = Answered(m, r1, e, 1)
  PROVE  ChoiceDone(m, r, q, k, L, S, C, F, u, h, L2, S2, x, Len(L2), Packet(y))
<1> DEFINE s == S[Len(L)]
           v == S2[Len(L) + 1]
           a == Asked(r)
<1>1. ChoosesHas(m, r, q, k, L, S, C, F, h, e, L2, S2)
  BY ChoosesIs
<1>2. /\ Secure(m, r, F) /\ PlaceFields(r, q, k, L, S, C) /\ Stacked(m, r, L, S, C, F, h)
      /\ r.pos = Len(L) /\ Len(r.rec) = Len(L) /\ Total(r, q, k) = Len(L) /\ \A i \in 1..Len(q) : i = k
      /\ s \in Stages /\ Shapes(s) /\ Stands(r, s) /\ ~Rests(s) /\ r.turn = s.turn
      /\ s.kind \in Kinds /\ Actor(s) = a /\ Head(s.left) = a /\ F[a] = m
      /\ e \in Entries /\ e.kind = "choice" /\ ~e.sent /\ Same(e, L2[Len(L) + 1])
      /\ Extends(L, S, L2, S2, F, m) /\ Len(L2) = Len(L) + 1 /\ S2[Len(L)] = s
      /\ v = After(s, e, Len(L) + 1) /\ AnswerFields(s, v) /\ Shapes(v) /\ v.seeds = s.seeds
  BY <1>1 DEF ChoosesHas
<1>3. /\ Place(m, r, q, k, L, S, C, F, u, h) /\ a # Server /\ Own(m, r, a)
      /\ r \in States /\ Log(L, S)
  BY DEF Chooses, Place
<1>4. Appended(r, y, e)
  BY <1>2, <1>3, AppendIs
<1>n. Len(L) \in Nat /\ C \in Nat /\ C <= Len(L) /\ Len(L) + 1 \in Nat /\ r.undo \in Nat /\ r.rec \in Seq(Entries)
  BY <1>2 DEF PlaceFields
<1>5. s.remote \/ Head(s.left) # s.turn
  <2>1. CASE Head(s.left) # s.turn
    BY <2>1
  <2>2. CASE Head(s.left) = s.turn
    <3>1. r.run.simul /\ Own(m, r, r.turn) /\ F[r.turn] = m
      BY <1>2, <1>3, <2>2
    <3> QED
      BY <3>1, <1>2, <2>2 DEF Stacked
  <2> QED
    BY <2>1, <2>2
<1>6. s.undo = 0 /\ r.undo = 0
  <2>1. s.undo = 0
    BY <1>2, <1>5 DEF Shapes
  <2> QED
    BY <2>1, <1>2, <1>n DEF Stands
<1>7. y \in States /\ y.undo = 0 /\ Stands(y, s)
  BY <1>2, <1>4, <1>6, AppendedStands DEF Appended
<1>8. /\ y.rec = Append(r.rec, e) /\ y.pos = r.pos /\ y.game = r.game /\ y.turn = r.turn
      /\ y.inited = r.inited /\ y.owner = r.owner /\ y.mode = r.mode /\ y.run = r.run /\ y.undo = r.undo
  BY <1>4 DEF Appended
<1>9. /\ r1 \in States /\ r1.rec = y.rec /\ r1.pos = y.pos /\ r1.game = y.game /\ r1.undo = 0
      /\ r1.upto = Len(y.rec) /\ r1.turn = y.turn /\ r1.inited = y.inited
      /\ r1.owner = y.owner /\ r1.mode = y.mode /\ r1.expect = y.expect
      /\ r1.run.simul /\ r1.run.kind = y.run.kind /\ r1.run.left = y.run.left
      /\ r1.run.phase = y.run.phase /\ (r1.run.seeded <=> y.run.seeded)
      /\ (r1.run.local <=> y.run.local) /\ (r1.run.required <=> y.run.required)
  <2>1. SentAllHas(y, r1)
    BY <1>7, SentAll
  <2> QED
    BY <2>1 DEF SentAllHas
<1>10. Stands(r1, s)
  <2>1. Idle(r1) <=> Idle(y)
    BY <1>9 DEF Idle
  <2>2. ~Idle(y)
    BY <1>2, <1>7 DEF Stands
  <2> QED
    BY <1>7, <1>9, <2>1, <2>2 DEF Stands
<1>11. Moves(m, r1, x, s, v) /\ x.pos = r.pos + 1 /\ x.game = Append(r.game, Event(e))
  <2>1. e.kind = IF Head(s.left) = Server THEN "seed" ELSE "choice"
    BY <1>2, <1>3
  <2>2. /\ r1 \in States /\ s \in Stages /\ e \in Entries /\ Len(L) + 1 \in Nat /\ 1 \in Nat
        /\ Stands(r1, s) /\ ~Rests(s) /\ s.kind \in Kinds /\ r1.run.simul
    BY <1>2, <1>9, <1>10, <1>n
  <2>3. Answers(r1, s, e, Len(L) + 1, 1)
    BY <2>1, <2>2 DEF Answers
  <2>4. AnswersHas(m, r1, s, e, Len(L) + 1, 1)
    BY <2>3, AnswersIs
  <2>5. /\ Moves(m, r1, Answered(m, r1, e, 1), s, After(s, e, Len(L) + 1))
        /\ Answered(m, r1, e, 1).pos = r1.pos + 1
        /\ Answered(m, r1, e, 1).game = Append(r1.game, Event(e))
    BY <2>4 DEF AnswersHas
  <2> QED
    BY <1>2, <1>8, <1>9, <2>5
<1>12. Alone(r, s) => Alone(r1, s)
  BY <1>2, <1>5 DEF Alone
<1>13. Len(y.rec) = Len(L2) /\ x.upto = Len(L2)
  <2>1. Len(y.rec) = Len(L) + 1
    BY <1>2, <1>4, <1>n, AppendedRec
  <2>2. x.upto = r1.upto
    BY <1>11 DEF Moves, Untouched
  <2> QED
    BY <1>2, <1>9, <2>1, <2>2
<1>14. v.cmds \in Nat /\ v.undo = 0 /\ (~Rests(v) => v.remote)
  <2>1. v.cmds \in Nat /\ v.undo \in Nat /\ v \in Stages
    BY <1>2, StageFields DEF AnswerFields
  <2>2. CASE Tail(s.left) = <<>>
    BY <1>2, <1>5, <2>1, <2>2 DEF AnswerFields
  <2>3. CASE Tail(s.left) # <<>>
    <3>1. v.remote
      BY <1>2, <1>5, <2>3 DEF AnswerFields
    <3> QED
      BY <1>2, <2>1, <3>1 DEF Shapes
  <2> QED
    BY <2>2, <2>3
<1>15. ~x.run.simul => x.undo + S2[Len(L2)].cmds + (IF Rests(v) THEN 0 ELSE 1) <= v.cmds
  <2>1. S2[Len(L2)] = v
    BY <1>2
  <2>2. CASE Rests(v)
    <3>1. x.undo = 0
      BY <1>9, <1>11, <2>2 DEF Moves
    <3> QED
      BY <2>1, <2>2, <3>1, <1>14
  <2>3. CASE ~Rests(v)
    <3>1. x.run.simul
      BY <1>11, <1>14, <2>3 DEF Moves, Stands
    <3> QED
      BY <3>1
  <2> QED
    BY <2>2, <2>3
<1>16. Writes(m, r, q, k, L, S, C, F, u, h, L2, S2, r1, x, e, Len(L2))
  <2>1. r1.owner = r.owner /\ r1.mode = r.mode /\ r1.turn = r.turn /\ r1.undo = r.undo /\ r1.rec = Append(r.rec, e)
    BY <1>6, <1>8, <1>9
  <2> QED
    BY <1>2, <1>3, <1>11, <1>12, <1>13, <1>15, <2>1 DEF Writes
<1>17. Written(m, r, q, k, L2, S2, F, h, x, Len(L2))
  BY <1>16, WritesMach
<1>18. Spread(L2, C, Len(L2), Packet(y))
  <2>1. Log(L2, S2)
    BY <1>2 DEF Extends
  <2>2. \A i \in 1..Len(L) : Same(r.rec[i], L2[i])
    BY <1>2 DEF PlaceFields, Extends
  <2>3. r.upto <= C /\ \A i \in 1..Len(r.rec) : IF i <= C THEN i <= r.upto \/ r.rec[i].sent ELSE ~r.rec[i].sent
    BY <1>3 DEF Place, Mach, Sent
  <2> QED
    BY <1>2, <1>4, <1>6, <1>n, <2>1, <2>2, <2>3, PacketNext
<1>19. Quiet(S2[Len(L2)])
  <2>1. S2[Len(L2)] = v
    BY <1>2
  <2> QED
    BY <2>1, <1>14 DEF Quiet
<1> QED
  BY <1>2, <1>17, <1>18, <1>19 DEF ChoiceDone
=============================================================================
