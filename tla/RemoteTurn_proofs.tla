------------------------- MODULE RemoteTurn_proofs --------------------------
(***************************************************************************)
(* The machines of a network game play one game, for any machines, sides,   *)
(* commands and questions.  Each action keeps the IInv of                   *)
(* RemoteTurnLog_proofs; then come what it does to the games, and with it   *)
(* the refinement of SharedGame.                                            *)
(***************************************************************************)
EXTENDS RemoteTurnLog_proofs

-----------------------------------------------------------------------------
(* The actions that leave the sides where they are.                                *)

\* A step of m that keeps the world keeps the invariant.
LEMMA Done ==
  ASSUME IInv, NEW m, NEW L, NEW S, NEW C, NEW F, NEW g, NEW x, NEW p, NEW j, NEW L2, NEW S2, NEW C2, NEW P,
         Acts(st, inbox, seeds, up, host, L, S, C, F, g, m, x, p, j, seeds', L2, S2, C2, P),
         st' = [st EXCEPT ![m] = x], inbox' = Told(inbox, up, m, p, P), UNCHANGED <<up, host, error, cleared>>
  PROVE  IInv'
<1>1. World([st EXCEPT ![m] = x], Told(inbox, up, m, p, P), seeds', up, host, L2, S2, C2, F, [g EXCEPT ![m] = j])
  BY StepWorld
<1>2. World(st', inbox', seeds', up', host', L2, S2, C2, F, [g EXCEPT ![m] = j])
  BY <1>1
<1>3. error' = {} /\ host' \in Hosts /\ cleared' = cleared
  BY DEF IInv
<1> QED
  BY <1>2, <1>3, WorldNow

\* Nothing is written, read or sent.
Calm(t, q, n, u, h, L, S, C, F, g, m, x) ==
  /\ World(t, q, n, u, h, L, S, C, F, g) /\ m \in u
  /\ x \in States /\ x.rec = t[m].rec /\ x.owner = t[m].owner /\ x.mode = t[m].mode
  /\ Mach(m, x, q[m], g[m], L, S, C, F, h)

LEMMA CalmActs ==
  ASSUME NEW t, NEW q, NEW n, NEW u, NEW h, NEW L, NEW S, NEW C, NEW F, NEW g, NEW m, NEW x,
         Calm(t, q, n, u, h, L, S, C, F, g, m, x)
  PROVE  /\ Acts(t, q, n, u, h, L, S, C, F, g, m, x, q[m], g[m], n, L, S, C, <<>>)
         /\ q = Told(q, u, m, q[m], <<>>)
<1>1. /\ World(t, q, n, u, h, L, S, C, F, g) /\ m \in u
      /\ x \in States /\ x.rec = t[m].rec /\ x.owner = t[m].owner /\ x.mode = t[m].mode
      /\ Mach(m, x, q[m], g[m], L, S, C, F, h)
  BY DEF Calm
<1>2. /\ m \in Machine /\ t[m] \in States /\ q[m] \in Seq(Messages) /\ g[m] \in Nat /\ g[m] \in 0..Len(q[m])
      /\ C \in Nat /\ Len(L) \in Nat /\ Log(L, S)
  BY <1>1, Members
<1>3. Extends(L, S, L, S, F, m)
  BY <1>2 DEF Extends
<1>4. Spread(L, C, C, <<>>)
  BY DEF Spread
<1>5. n = S[Len(L)].seeds
  BY <1>1 DEF World
<1>6. /\ Total(x, q[m], g[m]) = Total(t[m], q[m], g[m]) /\ GapAt(x, g[m]) = GapAt(t[m], g[m])
      /\ Total(t[m], q[m], g[m]) \in Nat /\ GapAt(t[m], g[m]) \in Int
  <2>1. Total(t[m], q[m], g[m]) \in Nat /\ Len(t[m].rec) \in Nat
    BY <1>2, TotalIs
  <2>2. Total(x, q[m], g[m]) = Total(t[m], q[m], g[m]) /\ GapAt(x, g[m]) = GapAt(t[m], g[m])
    BY <1>1 DEF Total, GapAt
  <2>3. GapAt(t[m], g[m]) \in Int
    <3> DEFINE a == Len(t[m].rec)
               b == g[m]
    <3>1. a \in Nat /\ b \in Nat
      BY <1>2, <2>1
    <3>2. GapAt(t[m], g[m]) = a + b - 1
      BY DEF GapAt
    <3> HIDE DEF a, b
    <3> QED
      BY <3>1, <3>2
  <2> QED
    BY <2>1, <2>2, <2>3
<1>7. Acts(t, q, n, u, h, L, S, C, F, g, m, x, q[m], g[m], n, L, S, C, <<>>)
  <2>1. Total(x, q[m], g[m]) = Total(t[m], q[m], g[m]) + (Len(L) - Len(L)) /\ GapAt(x, g[m]) >= GapAt(t[m], g[m])
    BY <1>2, <1>6
  <2> QED
    BY <1>1, <1>2, <1>3, <1>4, <1>5, <2>1 DEF Acts
<1>8. q = Told(q, u, m, q[m], <<>>)
  <2>1. q \in [Machine -> Seq(Messages)]
    BY <1>1 DEF World
  <2>2. \A y \in Machine : q[y] = IF y = m THEN q[m] ELSE IF y \in u THEN q[y] \o <<>> ELSE q[y]
    <3>1. \A y \in Machine : q[y] \o <<>> = q[y]
      BY <2>1
    <3> QED
      BY <3>1
  <2>3. q = [y \in Machine |-> q[y]]
    BY <2>1
  <2>4. Told(q, u, m, q[m], <<>>) = [y \in Machine |-> q[y]]
    BY <2>2, Zenon DEF Told
  <2> QED
    BY <2>3, <2>4
<1> QED
  BY <1>7, <1>8

LEMMA CalmDone ==
  ASSUME IInv, NEW m, NEW L, NEW S, NEW C, NEW F, NEW g, NEW x,
         Calm(st, inbox, seeds, up, host, L, S, C, F, g, m, x),
         st' = [st EXCEPT ![m] = x], UNCHANGED <<inbox, seeds, up, host, error, cleared>>
  PROVE  IInv'
<1>1. /\ Acts(st, inbox, seeds, up, host, L, S, C, F, g, m, x, inbox[m], g[m], seeds, L, S, C, <<>>)
      /\ inbox = Told(inbox, up, m, inbox[m], <<>>)
  BY CalmActs
<1>2. Acts(st, inbox, seeds, up, host, L, S, C, F, g, m, x, inbox[m], g[m], seeds', L, S, C, <<>>)
  BY <1>1
<1>3. inbox' = Told(inbox, up, m, inbox[m], <<>>) /\ UNCHANGED <<up, host, error, cleared>>
  BY <1>1
<1> QED
  BY <1>2, <1>3, Done

\* What a step of a machine starts from.
Here(m, L, S, C, F, g) ==
  /\ World(st, inbox, seeds, up, host, L, S, C, F, g) /\ m \in up /\ m \in Machine
  /\ Place(m, st[m], inbox[m], g[m], L, S, C, F, up, host)
  /\ Lead(m, st[m], inbox[m], g[m], L, S, C, F)
  /\ st \in [Machine -> States] /\ st[m] \in States /\ inbox \in [Machine -> Seq(Messages)]

LEMMA HereIs ==
  ASSUME IInv, NEW m \in up
  PROVE  \E L, S, C, F, g : Here(m, L, S, C, F, g)
<1>1. PICK L, S, C, F, g : World(st, inbox, seeds, up, host, L, S, C, F, g)
  BY DEF IInv
<1>2. Place(m, st[m], inbox[m], g[m], L, S, C, F, up, host)
  BY <1>1, PlaceIs
<1>3. Lead(m, st[m], inbox[m], g[m], L, S, C, F)
  BY <1>1, LeadIs
<1>4. m \in Machine /\ st[m] \in States
  BY <1>1, Members
<1>5. st \in [Machine -> States] /\ inbox \in [Machine -> Seq(Messages)]
  BY <1>1 DEF World
<1> QED
  BY <1>1, <1>2, <1>3, <1>4, <1>5 DEF Here

LEMMA TimeOutStep ==
  ASSUME IInv, NEW m \in Machine, TimeOut(m), OnCourse'
  PROVE  IInv'
<1> DEFINE r == st[m]
           x == [r EXCEPT !.expect = None]
<1>1. /\ m \in up /\ r.expect # None /\ (r.owner[r.expect] # m \/ ~AtEnd(r))
      /\ st' = [st EXCEPT ![m].expect = None] /\ UNCHANGED <<inbox, seeds, up, host, error, cleared>>
  BY DEF TimeOut, Came, OnCourse
<1>2. PICK L, S, C, F, g : Here(m, L, S, C, F, g)
  BY <1>1, HereIs
<1>3. /\ Place(m, r, inbox[m], g[m], L, S, C, F, up, host) /\ r \in States
      /\ World(st, inbox, seeds, up, host, L, S, C, F, g)
  BY <1>2 DEF Here
<1>4. x \in States
  BY <1>3, Zenon DEF States
<1>5. /\ x.rec = r.rec /\ x.pos = r.pos /\ x.game = r.game /\ x.owner = r.owner /\ x.mode = r.mode
      /\ x.turn = r.turn /\ x.inited = r.inited /\ x.run = r.run /\ x.upto = r.upto /\ x.undo = r.undo
  BY <1>3, Zenon DEF States
<1>6. st' = [st EXCEPT ![m] = x]
  BY <1>1
<1> HIDE DEF x
<1>7. Lies(r, x)
  BY <1>4, <1>5 DEF Lies
<1>8. Mach(m, x, inbox[m], g[m], L, S, C, F, host)
  BY <1>1, <1>3, <1>5, <1>7, ExpectMach DEF Own
<1>9. Calm(st, inbox, seeds, up, host, L, S, C, F, g, m, x)
  BY <1>1, <1>3, <1>4, <1>5, <1>8 DEF Calm
<1> QED
  BY <1>1, <1>6, <1>9, CalmDone

\* A machine whose record and sides are as before.
LEMMA LeadsSame ==
  ASSUME NEW t, NEW t2, NEW q, NEW L, NEW S, NEW C, NEW F, NEW g, NEW u, Leads(t, q, L, S, C, F, g, u),
         \A y \in u : t2[y].rec = t[y].rec /\ t2[y].owner = t[y].owner
  PROVE  Leads(t2, q, L, S, C, F, g, u)
<1>1. \A y \in u : Total(t2[y], q[y], g[y]) = Total(t[y], q[y], g[y])
  BY DEF Total
<1>2. ASSUME NEW w \in u, Ahead(w, t, q, L, S, C, F, g, u) PROVE Ahead(w, t2, q, L, S, C, F, g, u)
  BY <1>1, <1>2 DEF Ahead, Own
<1> QED
  BY <1>2 DEF Leads

LEMMA DroppedSame ==
  ASSUME NEW t, NEW t2, NEW q, NEW L, NEW S, NEW F, NEW g, NEW u, NEW h, NEW m \in u, Dropped(m, t, q, L, S, F, g, u, h),
         \A y \in u : t2[y].rec = t[y].rec /\ t2[y].owner = t[y].owner
  PROVE  Dropped(m, t2, q, L, S, F, g, u, h)
<1>1. GapAt(t2[m], g[m]) = GapAt(t[m], g[m])
  BY DEF GapAt
<1> QED
  BY <1>1 DEF Dropped

\* The others keep what m clears: from now on m is one of those whose stack is shorter.
LEMMA CommitStep ==
  ASSUME IInv, NEW m \in Machine, Commit(m)
  PROVE  IInv'
<1> DEFINE r == st[m]
           x == [r EXCEPT !.undo = 0]
<1>1. /\ m \in up /\ cleared' = cleared \cup {m}
      /\ st' = [st EXCEPT ![m].undo = 0] /\ UNCHANGED <<inbox, seeds, up, host, error>>
  BY DEF Commit
<1>2. PICK L, S, C, F, g : Here(m, L, S, C, F, g)
  BY <1>1, HereIs
<1>3. /\ Place(m, r, inbox[m], g[m], L, S, C, F, up, host) /\ r \in States
      /\ World(st, inbox, seeds, up, host, L, S, C, F, g)
  BY <1>2 DEF Here
<1>4. x \in States
  BY <1>3, Zenon DEF States
<1>5. /\ x.rec = r.rec /\ x.pos = r.pos /\ x.game = r.game /\ x.owner = r.owner /\ x.mode = r.mode
      /\ x.turn = r.turn /\ x.inited = r.inited /\ x.run = r.run /\ x.upto = r.upto /\ x.undo = 0
      /\ x.expect = r.expect
  BY <1>3, Zenon DEF States
<1>6. st' = [st EXCEPT ![m] = x]
  BY <1>1
<1> HIDE DEF x
<1>7. Lies(r, x)
  BY <1>4, <1>5 DEF Lies
<1>8. /\ st \in [Machine -> States] /\ inbox \in [Machine -> Seq(Messages)] /\ g \in [Machine -> Nat]
      /\ Log(L, S) /\ seeds = S[Len(L)].seeds /\ up \subseteq Machine
      /\ Leads(st, inbox, L, S, C, F, g, up) /\ Settled(st, S, C, F, up, host) /\ Present(F, up, host)
  BY <1>3 DEF World, Present
<1>9. ASSUME NEW y \in up
      PROVE  /\ Mach(y, st[y], inbox[y], g[y], L, S, C, F, host) /\ Dropped(y, st, inbox, L, S, F, g, up, host)
             /\ Views(y, st[y], inbox[y], g[y], F, up, host)
  BY <1>3 DEF World
<1>10. /\ st' \in [Machine -> States] /\ st'[m] = x /\ \A y \in Machine : y # m => st'[y] = st[y]
  BY <1>4, <1>6, <1>8
<1>11. \A y \in up : st'[y].rec = st[y].rec /\ st'[y].owner = st[y].owner /\ st'[y].mode = st[y].mode
  BY <1>5, <1>8, <1>10
<1>12. Leads(st', inbox, L, S, C, F, g, up)
  BY <1>8, <1>11, LeadsSame
<1>13. Settled(st, S, C, F, up, host)'
  <2>1. /\ S[C].undo > 0 => LET w == F[S[C].turn] IN w \in up /\ w \in cleared \cup {host} /\ Own(w, st[w], S[C].turn)
        /\ ~Rests(S[C]) => S[C].remote \/ Actor(S[C]) # S[C].turn
    BY <1>8 DEF Settled
  <2>2. \A w \in up : Own(w, st'[w], S[C].turn) <=> Own(w, st[w], S[C].turn)
    BY <1>11 DEF Own
  <2> QED
    BY <1>1, <2>1, <2>2 DEF Settled
<1>14. ASSUME NEW y \in up
       PROVE  Mach(y, st[y], inbox[y], g[y], L, S, C, F, host)'
  <2> DEFINE q == inbox[y]
             k == g[y]
             h == host
             z == st'[y]
  <2>1. /\ Keeps(z, L) /\ Stands(z, S[z.pos]) /\ Inbox(z, q, k, L) /\ Sent(z, q, k, L, C)
        /\ Pending(y, z, k, L, S, F) /\ Held(y, z, k, F, h)
        /\ Own(y, z, z.turn) /\ F[z.turn] = y =>
             /\ z.run.simul => S[z.pos].remote \/ Actor(S[z.pos]) # S[z.pos].turn
             /\ y \notin cleared' \cup {h} => z.undo = S[z.pos].undo
             /\ z.pos = Len(L) /\ ~z.run.simul =>
                  z.undo + S[C].cmds + (IF Rests(S[z.pos]) THEN 0 ELSE 1) <= S[z.pos].cmds
    <3>1. CASE y = m
      <4>1. z = x /\ y \in cleared'
        BY <1>1, <1>10, <3>1
      <4>2. /\ Keeps(x, L) /\ Stands(x, S[x.pos]) /\ Inbox(x, q, k, L) /\ Sent(x, q, k, L, C)
            /\ Pending(m, x, k, L, S, F) /\ Held(m, x, k, F, h)
            /\ Own(m, x, x.turn) /\ F[x.turn] = m =>
                 /\ x.run.simul => S[x.pos].remote \/ Actor(S[x.pos]) # S[x.pos].turn
                 /\ x.pos = Len(L) /\ ~x.run.simul =>
                      x.undo + S[C].cmds + (IF Rests(S[x.pos]) THEN 0 ELSE 1) <= S[x.pos].cmds
        BY <1>3, <1>5, <1>7, <3>1, CommitMach
      <4> QED
        BY <3>1, <4>1, <4>2
    <3>2. CASE y # m
      <4>1. z = st[y] /\ (y \notin cleared' \cup {h} => y \notin cleared \cup {h})
        BY <1>1, <1>8, <1>10, <3>2
      <4> QED
        BY <1>9, <4>1 DEF Mach, Stacked
    <3> QED
      BY <3>1, <3>2
  <2>2. inbox' = inbox /\ host' = host
    BY <1>1
  <2> QED
    BY <2>1, <2>2 DEF Mach, Stacked
<1>15. ASSUME NEW y \in up
       PROVE  Dropped(y, st', inbox, L, S, F, g, up, host) /\ Views(y, st'[y], inbox[y], g[y], F, up, host)
  <2>1. Dropped(y, st', inbox, L, S, F, g, up, host)
    BY <1>9, <1>11, DroppedSame
  <2>2. Views(y, st'[y], inbox[y], g[y], F, up, host)
    BY <1>9, <1>11 DEF Views, Own
  <2> QED
    BY <2>1, <2>2
<1>16. World(st, inbox, seeds, up, host, L, S, C, F, g)'
  BY <1>1, <1>8, <1>10, <1>12, <1>13, <1>14, <1>15 DEF World
<1> QED
  BY <1>1, <1>16 DEF IInv

\* What a machine sends, the others get.
LEMMA PostIs ==
  ASSUME NEW m \in Machine, NEW P, Post(SendsTo(m), P)
  PROVE  inbox' = Told(inbox, up, m, inbox[m], P)
<1>1. \A y \in Machine : (IF y \in SendsTo(m) \cap up THEN inbox[y] \o P ELSE inbox[y])
                           = (IF y = m THEN inbox[m] ELSE IF y \in up THEN inbox[y] \o P ELSE inbox[y])
  <2>1. \A y \in Machine : y \in SendsTo(m) <=> y # m
    BY DEF SendsTo
  <2> QED
    BY <2>1
<1> QED
  BY <1>1, Zenon DEF Post, Told

LEMMA PostAll ==
  ASSUME NEW m \in up, NEW P, Post(Machine, P), m \in Machine
  PROVE  inbox' = Told(inbox, up, m, inbox[m] \o P, P)
<1>1. \A y \in Machine : (IF y \in Machine \cap up THEN inbox[y] \o P ELSE inbox[y])
                           = (IF y = m THEN inbox[m] \o P ELSE IF y \in up THEN inbox[y] \o P ELSE inbox[y])
  OBVIOUS
<1> QED
  BY <1>1, Zenon DEF Post, Told

\* The flag of a question to the server.
LEMMA RequiredIs ==
  ASSUME NEW r \in States, NEW x, x = [r EXCEPT !.run.required = TRUE]
  PROVE  Flagged(r, x)
<1> DEFINE z == [r.run EXCEPT !.required = TRUE]
           y == [r EXCEPT !.run = z]
<1>1. r.run \in Runs
  BY StateFields
<1>2. /\ z \in Runs /\ z.required = TRUE /\ z.simul = r.run.simul /\ z.kind = r.run.kind /\ z.left = r.run.left
      /\ z.phase = r.run.phase /\ z.seeded = r.run.seeded /\ z.local = r.run.local
  BY <1>1, Zenon DEF Runs
<1>3. x = y
  BY Zenon
<1> HIDE DEF z
<1>4. /\ y \in States /\ y.rec = r.rec /\ y.pos = r.pos /\ y.game = r.game /\ y.undo = r.undo /\ y.turn = r.turn
      /\ y.inited = r.inited /\ y.owner = r.owner /\ y.mode = r.mode /\ y.expect = r.expect
      /\ y.run = z /\ y.upto = r.upto
  BY <1>2, Zenon DEF States
<1> HIDE DEF y
<1> QED
  BY <1>2, <1>3, <1>4 DEF Flagged, Lies

\* The seed that m asked for.
LEMMA SeedActs ==
  ASSUME NEW m, NEW L, NEW S, NEW C, NEW F, NEW g, Here(m, L, S, C, F, g),
         st[m].run.phase = "pull", st[m].run.local, ~st[m].run.required,
         NEW x, Flagged(st[m], x), NEW P, P = <<Seed(seeds + 1)>>,
         NEW f, f = Received(Entry("seed", seeds + 1, Server, <<>>)),
         NEW L2, NEW S2, L2 = Append(L, f), S2 = Longer(L, S, f)
  PROVE  Acts(st, inbox, seeds, up, host, L, S, C, F, g, m, x, inbox[m] \o P, g[m], seeds + 1, L2, S2, Len(L2), P)
<1> DEFINE r == st[m]
           q == inbox[m]
           k == g[m]
           s == S[Len(L)]
           v == S2[Len(L) + 1]
<1>1. /\ World(st, inbox, seeds, up, host, L, S, C, F, g) /\ m \in up /\ m \in Machine
      /\ Place(m, r, q, k, L, S, C, F, up, host) /\ r \in States
  BY DEF Here
<1>2. /\ r.pos = Len(L) /\ C = Len(L) /\ F[r.turn] = m /\ ~Rests(s)
      /\ Head(s.left) = Server /\ Actor(s) = Server /\ r.turn = s.turn
  BY <1>1, LocalIs
<1>3. Total(r, q, k) = C /\ PlaceFields(r, q, k, L, S, C) /\ Log(L, S) /\ q \in Seq(Messages) /\ k \in 0..Len(q)
  BY <1>1, WaitTotal, PlaceHas DEF Place
<1>n. Len(L) \in Nat /\ C \in Nat /\ C \in 0..Len(L) /\ k \in Nat
  BY <1>3, <1>2 DEF PlaceFields
<1>4. seeds = s.seeds /\ seeds \in Nat /\ s \in Stages /\ s.turn \in Side /\ s.turn # Server
  <2>1. seeds = s.seeds
    BY <1>1 DEF World
  <2>2. s \in Stages
    BY <1>2, <1>3 DEF PlaceFields
  <2>3. s.seeds \in Nat /\ s.turn \in Side
    BY <2>2, StageFields
  <2> QED
    BY <2>1, <2>2, <2>3, SideIs DEF Server
<1>5. /\ f \in Entries /\ f.kind = "seed" /\ f.by = seeds + 1 /\ f.side = Server /\ f.script = <<>> /\ f.sent
  <2> DEFINE c == Entry("seed", seeds + 1, Server, <<>>)
  <2>1. "seed" \in Things /\ seeds + 1 \in Machine \cup Nat /\ Server \in Asks /\ <<>> \in Seq(Asks)
    BY <1>4 DEF Things, Asks
  <2>2. /\ c \in Entries /\ c.kind = "seed" /\ c.by = seeds + 1 /\ c.side = Server /\ c.script = <<>> /\ ~c.sent
        /\ Received(c) \in Entries /\ Same(c, Received(c)) /\ Received(c).sent
    BY <2>1, EntryIs
  <2>3. f = Received(c)
    OBVIOUS
  <2> HIDE DEF c
  <2> QED
    BY <2>2, <2>3 DEF Same
<1>6. /\ Extends(L, S, L2, S2, F, m) /\ Len(L2) = Len(L) + 1 /\ L2[Len(L) + 1] = f
      /\ v = After(s, f, Len(L) + 1) /\ S2[Len(L)] = s /\ Follows(L2, S2, Len(L) + 1)
  <2>1. Fitting(s, f)
    BY <1>2, <1>4, <1>5 DEF Fitting
  <2>2. Log2(L, S, F, m, f, L2, S2)
    BY <1>2, <1>3, <1>5, <2>1 DEF Log2
  <2>3. Log2Has(L, S, F, m, f, L2, S2)
    BY <2>2, WriteLog
  <2> QED
    BY <2>3 DEF Log2Has
<1>7. AnswerFields(s, v) /\ Shapes(v)
  <2>1. (Len(L) + 1) - 1 = Len(L)
    BY <1>n
  <2>2. ~Rests(S2[(Len(L) + 1) - 1]) /\ S2[(Len(L) + 1) - 1] = s
    BY <2>1, <1>2, <1>6
  <2>3. AnswerFields(S2[(Len(L) + 1) - 1], S2[Len(L) + 1])
    BY <2>2, <1>6, AfterAnswer
  <2>4. Shapes(v)
    BY <1>6, ShapesNext
  <2> QED
    BY <2>2, <2>3, <2>4
<1>8. v.seeds = seeds + 1
  BY <1>2, <1>4, <1>7 DEF AnswerFields
<1>9. Settled(st, S2, Len(L2), F, up, host)
  <2>1. v.undo = 0 /\ (~Rests(v) => v.remote)
    <3>1. v.undo \in Nat
      BY <1>7, StageFields DEF AnswerFields
    <3>2. CASE Tail(s.left) = <<>>
      BY <1>2, <1>4, <1>7, <3>2 DEF AnswerFields
    <3>3. CASE Tail(s.left) # <<>>
      <4>1. v.remote
        BY <1>2, <1>4, <1>7, <3>3 DEF AnswerFields
      <4> QED
        BY <4>1, <1>7 DEF Shapes
    <3> QED
      BY <3>2, <3>3
  <2> QED
    BY <1>6, <2>1 DEF Settled
<1>10. Spread(L2, C, Len(L2), P)
  <2>1. P = <<Message("entry", f)>>
    BY DEF Seed
  <2>2. Message("entry", f) \in Messages
    BY <1>5, MessageIs
  <2>3. P \in Seq(Messages) /\ Len(P) = 1 /\ P[1] = Message("entry", f)
    BY <2>1, <2>2
  <2>4. \A i \in 1..Len(P) : P[i] = Message("entry", L2[C + i])
    BY <2>3, <1>2, <1>6
  <2> QED
    BY <2>3, <2>4, <1>2, <1>6, <1>n DEF Spread
<1>11. Heard(L2, Len(L2), q, q \o P, r, k)
  <2>1. Inbox(r, q, k, L)
    BY <1>1 DEF Place, Mach
  <2>2. Hears(L, S, L2, S2, F, m, C, Len(L2), P, r, q, k)
    BY <1>1, <1>3, <1>6, <1>n, <1>10, <2>1 DEF Hears
  <2> QED
    BY <2>2, InboxGrows
<1>12. Mach(m, x, q \o P, k, L2, S2, Len(L2), F, host)
  BY <1>1, <1>6, <1>11, SeedMach
<1>13. q \o P \in Seq(Messages) /\ Total(r, q \o P, k) = Len(L2) /\ (k # 0 => (q \o P)[k] = q[k])
  BY <1>11 DEF Heard
<1>14. Total(x, q \o P, k) = Len(L2) /\ GapAt(x, k) = GapAt(r, k)
  <2>1. Lies(r, x)
    BY DEF Flagged
  <2> QED
    BY <2>1, <1>13, LiesSame
<1>15. x \in States /\ x.owner = r.owner /\ x.mode = r.mode
  BY DEF Flagged, Lies
<1>16. Total(x, q \o P, k) = Total(r, q, k) + (Len(L2) - Len(L))
  BY <1>2, <1>3, <1>6, <1>14, <1>n
<1>17. k # 0 => (q \o P)[k] = q[k] /\ GapAt(x, k) >= GapAt(r, k)
  <2>1. GapAt(r, k) \in Int
    <3>1. Len(r.rec) \in Nat
      BY <1>3 DEF PlaceFields
    <3> DEFINE a == Len(r.rec)
    <3>2. GapAt(r, k) = a + k - 1
      BY DEF GapAt
    <3> HIDE DEF a, k
    <3>3. a \in Nat /\ k \in Nat
      BY <3>1, <1>n DEF a
    <3> QED
      BY <3>2, <3>3
  <2>2. GapAt(x, k) >= GapAt(r, k)
    BY <1>14, <2>1
  <2> QED
    BY <1>13, <2>2, Zenon
<1>18. Len(L2) \in Nat /\ Len(L2) # Len(L)
  BY <1>6, <1>n
<1>19. seeds + 1 = S2[Len(L2)].seeds
  BY <1>6, <1>8
<1> QED
  BY <1>1, <1>2, <1>3, <1>6, <1>9, <1>10, <1>12, <1>13, <1>15, <1>16, <1>17, <1>18, <1>19, <1>n DEF Acts

LEMMA RequireStep ==
  ASSUME IInv, NEW m \in Machine, Require(m)
  PROVE  IInv'
<1> DEFINE r == st[m]
           x == [r EXCEPT !.run.required = TRUE]
<1>1. /\ m \in up /\ r.run.phase = "pull" /\ Asked(r) = Server /\ ~r.run.required
      /\ st' = [st EXCEPT ![m].run.required = TRUE] /\ UNCHANGED <<up, host, error, cleared>>
  BY DEF Require, Looping
<1>2. PICK L, S, C, F, g : Here(m, L, S, C, F, g)
  BY <1>1, HereIs
<1>3. /\ Place(m, r, inbox[m], g[m], L, S, C, F, up, host) /\ r \in States
      /\ World(st, inbox, seeds, up, host, L, S, C, F, g)
  BY <1>2 DEF Here
<1>4. st' = [st EXCEPT ![m] = x]
  BY <1>1
<1>5. Flagged(r, x)
  BY <1>3, RequiredIs
<1> HIDE DEF x
<1>6. CASE r.run.local
  <2> DEFINE f == Received(Entry("seed", seeds + 1, Server, <<>>))
             P == <<Seed(seeds + 1)>>
  <2>1. seeds' = seeds + 1 /\ Post(Machine, P)
    BY <1>6 DEF Require
  <2>2. inbox' = Told(inbox, up, m, inbox[m] \o P, P)
    BY <1>1, <2>1, PostAll
  <2>3. Acts(st, inbox, seeds, up, host, L, S, C, F, g, m, x, inbox[m] \o P, g[m], seeds + 1,
             Append(L, f), Longer(L, S, f), Len(Append(L, f)), P)
    BY <1>1, <1>2, <1>5, <1>6, SeedActs
  <2> HIDE DEF f, P
  <2>4. Acts(st, inbox, seeds, up, host, L, S, C, F, g, m, x, inbox[m] \o P, g[m], seeds',
             Append(L, f), Longer(L, S, f), Len(Append(L, f)), P)
    BY <2>1, <2>3
  <2> QED
    BY <1>1, <1>4, <2>2, <2>4, Done
<1>7. CASE ~r.run.local
  <2>1. UNCHANGED <<seeds, inbox>>
    BY <1>7 DEF Require
  <2>2. Mach(m, x, inbox[m], g[m], L, S, C, F, host)
    BY <1>1, <1>3, <1>5, <1>7, RequiredMach DEF Asked
  <2>3. x \in States /\ x.rec = r.rec /\ x.owner = r.owner /\ x.mode = r.mode
    BY <1>5 DEF Flagged, Lies
  <2>4. Calm(st, inbox, seeds, up, host, L, S, C, F, g, m, x)
    BY <1>1, <1>3, <2>2, <2>3 DEF Calm
  <2> QED
    BY <1>1, <1>4, <2>1, <2>4, CalmDone
<1> QED
  BY <1>6, <1>7

\* Something may be sent, nothing is written or read.
Emits(t, q, n, u, h, L, S, C, F, g, m, x, D, P) ==
  /\ World(t, q, n, u, h, L, S, C, F, g) /\ m \in u
  /\ x \in States /\ x.rec = t[m].rec /\ x.owner = t[m].owner /\ x.mode = t[m].mode
  /\ Mach(m, x, q[m], g[m], L, S, D, F, h) /\ Spread(L, C, D, P) /\ D \in Nat
  /\ D # C => Total(t[m], q[m], g[m]) = Len(L) /\ Settled(t, S, D, F, u, h)

LEMMA EmitActs ==
  ASSUME NEW t, NEW q, NEW n, NEW u, NEW h, NEW L, NEW S, NEW C, NEW F, NEW g, NEW m, NEW x, NEW D, NEW P,
         Emits(t, q, n, u, h, L, S, C, F, g, m, x, D, P)
  PROVE  Acts(t, q, n, u, h, L, S, C, F, g, m, x, q[m], g[m], n, L, S, D, P)
<1>1. /\ World(t, q, n, u, h, L, S, C, F, g) /\ m \in u
      /\ x \in States /\ x.rec = t[m].rec /\ x.owner = t[m].owner /\ x.mode = t[m].mode
      /\ Mach(m, x, q[m], g[m], L, S, D, F, h) /\ Spread(L, C, D, P) /\ D \in Nat
      /\ D # C => Total(t[m], q[m], g[m]) = Len(L) /\ Settled(t, S, D, F, u, h)
  BY DEF Emits
<1>2. /\ m \in Machine /\ t[m] \in States /\ q[m] \in Seq(Messages) /\ g[m] \in Nat /\ g[m] \in 0..Len(q[m])
      /\ C \in Nat /\ Len(L) \in Nat /\ Log(L, S)
  BY <1>1, Members
<1>3. Extends(L, S, L, S, F, m)
  BY <1>2 DEF Extends
<1>5. n = S[Len(L)].seeds
  BY <1>1 DEF World
<1>6. /\ Total(x, q[m], g[m]) = Total(t[m], q[m], g[m]) /\ GapAt(x, g[m]) = GapAt(t[m], g[m])
      /\ Total(t[m], q[m], g[m]) \in Nat /\ GapAt(t[m], g[m]) \in Int
  <2>1. Total(t[m], q[m], g[m]) \in Nat /\ Len(t[m].rec) \in Nat
    BY <1>2, TotalIs
  <2>2. Total(x, q[m], g[m]) = Total(t[m], q[m], g[m]) /\ GapAt(x, g[m]) = GapAt(t[m], g[m])
    BY <1>1 DEF Total, GapAt
  <2>3. GapAt(t[m], g[m]) \in Int
    <3> DEFINE a == Len(t[m].rec)
               b == g[m]
    <3>1. a \in Nat /\ b \in Nat
      BY <1>2, <2>1
    <3>2. GapAt(t[m], g[m]) = a + b - 1
      BY DEF GapAt
    <3> HIDE DEF a, b
    <3> QED
      BY <3>1, <3>2
  <2> QED
    BY <2>1, <2>2, <2>3
<1>7. Total(x, q[m], g[m]) = Total(t[m], q[m], g[m]) + (Len(L) - Len(L)) /\ GapAt(x, g[m]) >= GapAt(t[m], g[m])
  BY <1>2, <1>6
<1> QED
  BY <1>1, <1>2, <1>3, <1>5, <1>7 DEF Acts

LEMMA PacketSpread ==
  ASSUME NEW m, NEW r, NEW q, NEW k, NEW L, NEW S, NEW C, NEW F, NEW u, NEW h,
         Place(m, r, q, k, L, S, C, F, u, h), Len(r.rec) > C => r.undo = 0 /\ Len(r.rec) = Len(L),
         NEW D, D = IF Len(r.rec) > C THEN Len(L) ELSE C
  PROVE  /\ Spread(L, C, D, Packet(r)) /\ D \in Nat
         /\ Outgoing(r) # <<>> => Len(r.rec) > C /\ r.undo = 0
<1>1. PlaceFields(r, q, k, L, S, C) /\ r \in States /\ Log(L, S) /\ Keeps(r, L) /\ Sent(r, q, k, L, C)
  BY PlaceHas DEF Place, Mach
<1>2. Len(L) \in Nat /\ C \in Nat /\ Len(r.rec) \in Nat
  BY <1>1 DEF PlaceFields
<1>3. Packs(r, L, S, C)
  <2>1. Copies(r, L)
    BY <1>1 DEF Keeps, Copies
  <2>2. Marks(r, C)
    BY <1>1 DEF Sent, Marks
  <2> QED
    BY <1>1, <1>2, <2>1, <2>2 DEF Packs
<1>4. PacksHas(r, L, C)
  BY <1>3, PacksIs
<1>5. CASE Len(r.rec) > C
  <2>1. /\ Packet(r) \in Seq(Messages) /\ Len(Packet(r)) = Len(L) - C /\ D = Len(L)
        /\ \A i \in 1..Len(Packet(r)) : Packet(r)[i] = Message("entry", L[C + i])
    BY <1>4, <1>5 DEF PacksHas
  <2>2. Spread(L, C, D, Packet(r))
    BY <2>1, <1>2 DEF Spread
  <2> QED
    BY <1>2, <1>5, <2>1, <2>2
<1>6. CASE ~(Len(r.rec) > C)
  <2>1. Outgoing(r) = <<>> /\ Packet(r) = <<>> /\ D = C
    BY <1>2, <1>4, <1>6 DEF PacksHas
  <2> QED
    BY <1>2, <2>1 DEF Spread
<1> QED
  BY <1>5, <1>6

\* m has nothing to send while it has something to undo, or has sent all there was.
LEMMA OutgoingIs ==
  ASSUME NEW m, NEW r, NEW q, NEW k, NEW L, NEW S, NEW C, NEW F, NEW u, NEW h,
         Place(m, r, q, k, L, S, C, F, u, h), Outgoing(r) # <<>>
  PROVE  Len(r.rec) > C /\ r.undo = 0
<1>1. PlaceFields(r, q, k, L, S, C) /\ r \in States /\ Log(L, S) /\ Keeps(r, L) /\ Sent(r, q, k, L, C)
  BY PlaceHas DEF Place, Mach
<1>2. Len(L) \in Nat /\ C \in Nat /\ Len(r.rec) \in Nat
  BY <1>1 DEF PlaceFields
<1>3. Packs(r, L, S, C)
  <2>1. Copies(r, L)
    BY <1>1 DEF Keeps, Copies
  <2>2. Marks(r, C)
    BY <1>1 DEF Sent, Marks
  <2> QED
    BY <1>1, <1>2, <2>1, <2>2 DEF Packs
<1>4. PacksHas(r, L, C)
  BY <1>3, PacksIs
<1> QED
  BY <1>2, <1>4 DEF PacksHas

LEMMA FlushedIs ==
  ASSUME NEW r \in States
  PROVE  LET y == Flushed(r) IN
         /\ y \in States /\ y.rec = r.rec /\ y.pos = r.pos /\ y.game = r.game /\ y.undo = r.undo /\ y.turn = r.turn
         /\ y.inited = r.inited /\ y.owner = r.owner /\ y.mode = r.mode /\ y.expect = r.expect
         /\ y.run = r.run /\ y.upto = IF r.undo > 0 THEN r.upto ELSE Len(r.rec)
<1> DEFINE y == [r EXCEPT !.upto = Len(r.rec)]
<1>1. Len(r.rec) \in Nat
  BY StateFields
<1>2. y \in States
  BY <1>1, Zenon DEF States
<1>3. /\ y.rec = r.rec /\ y.pos = r.pos /\ y.game = r.game /\ y.undo = r.undo /\ y.turn = r.turn
      /\ y.inited = r.inited /\ y.owner = r.owner /\ y.mode = r.mode /\ y.expect = r.expect
      /\ y.run = r.run /\ y.upto = Len(r.rec)
  BY Zenon DEF States
<1>4. Flushed(r) = IF r.undo > 0 THEN r ELSE y
  BY DEF Flushed
<1> HIDE DEF y
<1> QED
  BY <1>2, <1>3, <1>4

LEMMA PulledIs ==
  ASSUME NEW m, NEW r \in States, NEW b \in BOOLEAN, b => Asked(r) = Server /\ r.owner[r.turn] = m,
         NEW x, x = [Flushed(r) EXCEPT !.run.simul = TRUE, !.run.phase = "pull", !.run.local = b]
  PROVE  Pulled(m, r, x)
<1> DEFINE y == Flushed(r)
           z == [r.run EXCEPT !.simul = TRUE, !.phase = "pull", !.local = b]
           w == [y EXCEPT !.run = z]
<1>1. /\ y \in States /\ y.rec = r.rec /\ y.pos = r.pos /\ y.game = r.game /\ y.undo = r.undo /\ y.turn = r.turn
      /\ y.inited = r.inited /\ y.owner = r.owner /\ y.mode = r.mode /\ y.expect = r.expect
      /\ y.run = r.run /\ y.upto = IF r.undo > 0 THEN r.upto ELSE Len(r.rec)
  BY FlushedIs
<1>2. r.run \in Runs
  BY StateFields
<1>3. "pull" \in {"idle", "look", "pull"}
  OBVIOUS
<1>4. /\ z \in Runs /\ z.simul = TRUE /\ z.kind = r.run.kind /\ z.left = r.run.left
      /\ z.phase = "pull" /\ z.seeded = r.run.seeded /\ z.local = b /\ z.required = r.run.required
  BY <1>2, <1>3, Zenon DEF Runs
<1>5. x = w
  <2>1. y.run = r.run
    BY <1>1
  <2> HIDE DEF y
  <2>2. x = [y EXCEPT !.run.simul = TRUE, !.run.phase = "pull", !.run.local = b]
    BY DEF y
  <2>3. [y EXCEPT !.run.simul = TRUE, !.run.phase = "pull", !.run.local = b]
          = [y EXCEPT !.run = [y.run EXCEPT !.simul = TRUE, !.phase = "pull", !.local = b]]
    BY Zenon
  <2> QED
    BY <2>1, <2>2, <2>3, Zenon
<1> HIDE DEF y, z
<1>6. /\ w \in States /\ w.rec = y.rec /\ w.pos = y.pos /\ w.game = y.game /\ w.undo = y.undo /\ w.turn = y.turn
      /\ w.inited = y.inited /\ w.owner = y.owner /\ w.mode = y.mode /\ w.expect = y.expect
      /\ w.run = z /\ w.upto = y.upto
  BY <1>1, <1>4, Zenon DEF States
<1> HIDE DEF w
<1> QED
  BY <1>1, <1>4, <1>5, <1>6 DEF Pulled, Lies, Own, Asked

LEMMA EmitDone ==
  ASSUME IInv, NEW m \in Machine, NEW L, NEW S, NEW C, NEW F, NEW g, NEW x, NEW D, NEW P,
         Emits(st, inbox, seeds, up, host, L, S, C, F, g, m, x, D, P),
         st' = [st EXCEPT ![m] = x], Post(SendsTo(m), P), UNCHANGED <<seeds, up, host, error, cleared>>
  PROVE  IInv'
<1>1. Acts(st, inbox, seeds, up, host, L, S, C, F, g, m, x, inbox[m], g[m], seeds, L, S, D, P)
  BY EmitActs
<1>2. Acts(st, inbox, seeds, up, host, L, S, C, F, g, m, x, inbox[m], g[m], seeds', L, S, D, P)
  BY <1>1
<1>3. inbox' = Told(inbox, up, m, inbox[m], P)
  BY PostIs
<1> QED
  BY <1>2, <1>3, Done

LEMMA PullStep ==
  ASSUME IInv, NEW m \in Machine, Pull(m)
  PROVE  IInv'
<1> DEFINE r == st[m]
           b == Asked(r) = Server /\ r.owner[r.turn] = m
           x == [Flushed(r) EXCEPT !.run.simul = TRUE, !.run.phase = "pull", !.run.local = b]
<1>1. /\ m \in up /\ r.run.phase = "look" /\ AtEnd(r) /\ ~(Asked(r) # Server /\ r.owner[Asked(r)] = m)
      /\ st' = [st EXCEPT ![m] = x] /\ Post(SendsTo(m), Packet(r)) /\ UNCHANGED <<seeds, up, host, error, cleared>>
  BY DEF Pull, Looping, Local
<1>2. PICK L, S, C, F, g : Here(m, L, S, C, F, g)
  BY <1>1, HereIs
<1>3. /\ Place(m, r, inbox[m], g[m], L, S, C, F, up, host) /\ r \in States
      /\ World(st, inbox, seeds, up, host, L, S, C, F, g)
      /\ Lead(m, r, inbox[m], g[m], L, S, C, F)
  BY <1>2 DEF Here
<1>4. b \in BOOLEAN /\ (b => Asked(r) = Server /\ r.owner[r.turn] = m)
  OBVIOUS
<1>5. Pulled(m, r, x)
  <2> HIDE DEF b
  <2> QED
    BY <1>3, <1>4, PulledIs
<1> HIDE DEF x, b
<1> DEFINE D == IF Len(r.rec) > C THEN Len(L) ELSE C
<1>6. /\ Mach(m, x, inbox[m], g[m], L, S, D, F, host)
      /\ Len(r.rec) > C => /\ r.undo = 0 /\ Len(r.rec) = Len(L) /\ Total(r, inbox[m], g[m]) = Len(L)
                           /\ S[Len(L)].undo = 0 /\ Actor(S[Len(L)]) # S[Len(L)].turn
  <2>1. ~(Head(r.run.left) # Server /\ Own(m, r, Head(r.run.left)))
    BY <1>1 DEF Asked, Own
  <2>2. D = IF Len(r.rec) > C THEN Len(L) ELSE C
    OBVIOUS
  <2>3. /\ Place(m, r, inbox[m], g[m], L, S, C, F, up, host) /\ Lead(m, r, inbox[m], g[m], L, S, C, F)
        /\ r.run.phase = "look" /\ AtEnd(r)
    BY <1>1, <1>3
  <2> HIDE DEF D, r
  <2> QED
    BY <1>5, <2>1, <2>2, <2>3, PullMach
<1>7. Spread(L, C, D, Packet(r)) /\ D \in Nat
  BY <1>3, <1>6, PacketSpread
<1>8. D # C => Total(r, inbox[m], g[m]) = Len(L) /\ Settled(st, S, D, F, up, host)
  <2>1. CASE Len(r.rec) > C
    BY <1>6, <2>1 DEF Settled
  <2>2. CASE ~(Len(r.rec) > C)
    BY <2>2
  <2> QED
    BY <2>1, <2>2
<1>9. x \in States /\ x.rec = r.rec /\ x.owner = r.owner /\ x.mode = r.mode
  BY <1>5 DEF Pulled, Lies
<1> HIDE DEF D
<1>10. Emits(st, inbox, seeds, up, host, L, S, C, F, g, m, x, D, Packet(r))
  BY <1>1, <1>3, <1>6, <1>7, <1>8, <1>9 DEF Emits
<1> QED
  BY <1>1, <1>10, EmitDone

LEMMA SendStep ==
  ASSUME IInv, NEW m \in Machine, Send(m)
  PROVE  IInv'
<1> DEFINE r == st[m]
           x == Flushed(r)
<1>1. /\ m \in up /\ r.run.phase \in {"idle", "pull"} /\ Outgoing(r) # <<>>
      /\ st' = [st EXCEPT ![m] = x] /\ Post(SendsTo(m), Packet(r)) /\ UNCHANGED <<seeds, up, host, error, cleared>>
  BY DEF Send
<1>2. PICK L, S, C, F, g : Here(m, L, S, C, F, g)
  BY <1>1, HereIs
<1>3. /\ Place(m, r, inbox[m], g[m], L, S, C, F, up, host) /\ r \in States
      /\ World(st, inbox, seeds, up, host, L, S, C, F, g)
      /\ Lead(m, r, inbox[m], g[m], L, S, C, F)
  BY <1>2 DEF Here
<1>4. Len(r.rec) > C /\ r.undo = 0
  BY <1>1, <1>3, OutgoingIs
<1>5. Flushes(r, x)
  BY <1>3, <1>4, FlushedIs DEF Flushes, Lies
<1> HIDE DEF x
<1>6. /\ Mach(m, x, inbox[m], g[m], L, S, Len(L), F, host) /\ Len(r.rec) = Len(L)
      /\ Total(r, inbox[m], g[m]) = Len(L) /\ Rests(S[Len(L)])
      /\ S[Len(L)].undo # 0 => /\ F[S[Len(L)].turn] = m /\ m \in cleared \cup {host}
                               /\ Own(m, r, S[Len(L)].turn)
  BY <1>1, <1>3, <1>4, <1>5, SendMach
<1> DEFINE D == IF Len(r.rec) > C THEN Len(L) ELSE C
<1>7. Spread(L, C, D, Packet(r)) /\ D \in Nat /\ D = Len(L)
  BY <1>3, <1>4, <1>6, PacketSpread
<1>8. Settled(st, S, D, F, up, host)
  <2>1. S[Len(L)].undo > 0 => S[Len(L)].undo # 0
    OBVIOUS
  <2> QED
    BY <1>1, <1>6, <1>7, <2>1 DEF Settled
<1>9. x \in States /\ x.rec = r.rec /\ x.owner = r.owner /\ x.mode = r.mode
  BY <1>5 DEF Flushes, Lies
<1> HIDE DEF D
<1>10. Emits(st, inbox, seeds, up, host, L, S, C, F, g, m, x, D, Packet(r))
  BY <1>1, <1>3, <1>6, <1>7, <1>8, <1>9 DEF Emits
<1> QED
  BY <1>1, <1>10, EmitDone

LEMMA TakeStep ==
  ASSUME IInv, NEW m \in Machine, Take(m)
  PROVE  IInv'
<1> DEFINE r == st[m]
           e == r.rec[r.pos + 1]
           x == Answered(m, r, e, 1)
<1>1. /\ m \in up /\ r.run.phase \in {"look", "pull"} /\ ~AtEnd(r)
      /\ st' = [st EXCEPT ![m] = Taken(m, r, e)] /\ UNCHANGED <<inbox, seeds, up, host, cleared>>
      /\ error' = IF Fits(e, Asked(r)) /\ ~OtherSide(e, Asked(r)) THEN error ELSE error \cup {m}
  BY DEF Take, Looping
<1>2. PICK L, S, C, F, g : Here(m, L, S, C, F, g)
  BY <1>1, HereIs
<1>3. /\ Place(m, r, inbox[m], g[m], L, S, C, F, up, host) /\ r \in States
      /\ World(st, inbox, seeds, up, host, L, S, C, F, g)
  BY <1>2 DEF Here
<1>4. /\ Fits(e, Asked(r)) /\ ~OtherSide(e, Asked(r))
      /\ x \in States /\ Untouched(x, r) /\ Mach(m, x, inbox[m], g[m], L, S, C, F, host)
  BY <1>1, <1>3, TakeMach
<1>5. Taken(m, r, e) = x /\ error' = error
  BY <1>1, <1>4 DEF Taken
<1>6. st' = [st EXCEPT ![m] = x]
  BY <1>1, <1>5
<1> HIDE DEF x
<1>7. Calm(st, inbox, seeds, up, host, L, S, C, F, g, m, x)
  BY <1>1, <1>3, <1>4 DEF Calm, Untouched
<1> QED
  BY <1>1, <1>5, <1>6, <1>7, CalmDone

\* The first message is gone.
LEMMA RestTold ==
  ASSUME NEW q \in [Machine -> Seq(Messages)], NEW m \in Machine, NEW u, NEW p, p = Tail(q[m])
  PROVE  [q EXCEPT ![m] = Tail(@)] = Told(q, u, m, p, <<>>)
<1>1. \A y \in Machine : (IF y = m THEN p ELSE q[y])
                           = IF y = m THEN p ELSE IF y \in u THEN q[y] \o <<>> ELSE q[y]
  <2>1. \A y \in Machine : q[y] \o <<>> = q[y]
    OBVIOUS
  <2> QED
    BY <2>1
<1>2. [q EXCEPT ![m] = Tail(@)] = [y \in Machine |-> IF y = m THEN p ELSE q[y]]
  OBVIOUS
<1> QED
  BY <1>1, <1>2, Zenon DEF Told

LEMMA ReceiveEntryStep ==
  ASSUME IInv, NEW m \in Machine, ReceiveEntry(m)
  PROVE  IInv'
<1> DEFINE r == st[m]
           q == inbox[m]
           e == Head(q).body
           r1 == [r EXCEPT !.rec = Append(@, e)]
           x == Played(m, r1, e)
           p == Tail(q)
<1>1. /\ m \in up /\ r.run.phase \in {"idle", "pull"} /\ AtEnd(r) /\ q # <<>> /\ Head(q).what = "entry"
      /\ st' = [st EXCEPT ![m] = x] /\ inbox' = [inbox EXCEPT ![m] = Tail(@)] /\ UNCHANGED <<seeds, up, host, cleared>>
      /\ error' = IF Dependent(e) = Idle(r) THEN error \cup {m} ELSE error
  BY DEF ReceiveEntry, Ready, Next1, Rest
<1>2. PICK L, S, C, F, g : Here(m, L, S, C, F, g)
  BY <1>1, HereIs
<1>3. /\ Place(m, r, q, g[m], L, S, C, F, up, host) /\ r \in States
      /\ World(st, inbox, seeds, up, host, L, S, C, F, g)
      /\ inbox \in [Machine -> Seq(Messages)] /\ q \in Seq(Messages)
  BY <1>2 DEF Here
<1>4. e \in Entries
  <2>1. Head(q) \in Messages
    BY <1>1, <1>3, HeadTail
  <2> QED
    BY <1>1, <2>1 DEF Messages
<1>5. Appended(r, r1, e)
  BY <1>3, <1>4, AppendIs
<1> DEFINE k == g[m]
           j == IF k = 0 THEN 0 ELSE k - 1
<1> HIDE DEF x, r1
<1>6. /\ Dependent(e) <=> ~Idle(r)
      /\ x \in States /\ x.owner = r.owner /\ x.mode = r.mode
      /\ Reads1(r, q, k, L, x, p, j, e) /\ Mach(m, x, p, j, L, S, C, F, host)
  <2>1. ReceiveHas(m, r, q, k, L, S, C, F, up, host, p, j, e, r1)
    BY <1>1, <1>3, <1>5 DEF ReceiveHas
  <2>2. x = Played(m, r1, e)
    BY DEF x
  <2> HIDE DEF p, j, e, k, q, r
  <2>3. ReceiveDone(m, r, q, k, L, S, C, F, host, p, j, e, x)
    BY <2>1, <2>2, ReceiveMach
  <2> QED
    BY <2>3 DEF ReceiveDone
<1>7. error' = error
  <2>1. Dependent(e) \in BOOLEAN /\ Idle(r) \in BOOLEAN
    BY DEF Dependent, Idle
  <2> QED
    BY <1>1, <1>6, <2>1
<1>8. /\ C \in Nat /\ Len(L) \in Nat /\ Log(L, S) /\ k \in Nat /\ k \in 0..Len(q)
  BY <1>1, <1>3, Members
<1> HIDE DEF j
<1>9. /\ p \in Seq(Messages) /\ j \in Nat /\ Total(x, p, j) = Total(r, q, k) /\ (j = 0 <=> k = 0)
      /\ (j # 0 => p[j] = q[k] /\ GapAt(x, j) = GapAt(r, k))
  BY <1>6 DEF Reads1
<1>10. Total(r, q, k) \in Nat /\ (k # 0 => GapAt(r, k) \in Nat)
  BY <1>3, <1>8, TotalIs
<1>11. Acts(st, inbox, seeds, up, host, L, S, C, F, g, m, x, p, j, seeds, L, S, C, <<>>)
  <2>1. Extends(L, S, L, S, F, m) /\ Spread(L, C, C, <<>>)
    BY <1>8 DEF Extends, Spread
  <2>2. seeds = S[Len(L)].seeds
    BY <1>3 DEF World
  <2>3. Total(x, p, j) = Total(r, q, k) + (Len(L) - Len(L))
    BY <1>8, <1>9, <1>10
  <2>4. j # 0 => p[j] = q[k] /\ GapAt(x, j) >= GapAt(r, k)
    <3>1. j # 0 => GapAt(x, j) >= GapAt(r, k)
      BY <1>9, <1>10
    <3> QED
      BY <1>9, <3>1
  <2> QED
    BY <1>1, <1>3, <1>6, <1>8, <1>9, <2>1, <2>2, <2>3, <2>4 DEF Acts
<1>12. Acts(st, inbox, seeds, up, host, L, S, C, F, g, m, x, p, j, seeds', L, S, C, <<>>)
  BY <1>1, <1>11
<1>13. inbox' = Told(inbox, up, m, p, <<>>)
  BY <1>1, <1>3, RestTold
<1> QED
  BY <1>1, <1>7, <1>12, <1>13, Done

\* A command that may be given.
LEMMA RecordWorld ==
  ASSUME NEW t, NEW q, NEW n, NEW u, NEW h, NEW L, NEW S, NEW C, NEW F, NEW g,
         World(t, q, n, u, h, L, S, C, F, g), NEW m \in u, NEW kind, NEW script,
         May(m, t[m], F, kind, script), NEW x, x = Recorded(m, t[m], kind, script)
  PROVE  \E L2, S2, g2 : World([t EXCEPT ![m] = x], q, n, u, h, L2, S2, C, F, g2)
<1> DEFINE r == t[m]
           f == Gives(m, r, kind, script)
           L2 == Append(L, f)
           S2 == Longer(L, S, f)
<1>1. Place(m, r, q[m], g[m], L, S, C, F, u, h)
  BY PlaceIs
<1>2. /\ m \in Machine /\ q[m] \in Seq(Messages) /\ g[m] \in Nat /\ g[m] \in 0..Len(q[m])
      /\ C \in Nat /\ Len(L) \in Nat /\ C \in 0..Len(L)
  BY Members
<1>3. RecordDone(m, r, q[m], g[m], L, S, F, h, L2, S2, x, C)
  BY <1>1, <1>2, RecordMach
<1> HIDE DEF L2, S2
<1>4. /\ Extends(L, S, L2, S2, F, m) /\ Len(L2) = Len(L) + 1
      /\ Written(m, r, q[m], g[m], L2, S2, F, h, x, C)
      /\ r.pos = Len(L) /\ Total(r, q[m], g[m]) = Len(L) /\ S2[Len(L2)].seeds = S[Len(L)].seeds
      /\ Own(m, r, S[Len(L)].turn) /\ F[S[Len(L)].turn] = m /\ Actor(S[Len(L)]) = S[Len(L)].turn
  BY <1>3 DEF RecordDone
<1>5. /\ Mach(m, x, q[m], g[m], L2, S2, C, F, h) /\ Total(x, q[m], g[m]) = Len(L2)
      /\ GapAt(x, g[m]) >= GapAt(r, g[m])
      /\ x \in States /\ x.owner = r.owner /\ x.mode = r.mode
  BY <1>4 DEF Written
<1>6. n = S2[Len(L2)].seeds
  BY <1>4 DEF World
<1>7. Total(x, q[m], g[m]) = Total(r, q[m], g[m]) + (Len(L2) - Len(L))
  BY <1>2, <1>4, <1>5
<1>8. Spread(L2, C, C, <<>>)
  BY DEF Spread
<1>9. Acts(t, q, n, u, h, L, S, C, F, g, m, x, q[m], g[m], n, L2, S2, C, <<>>)
  <2>1. Len(L2) # Len(L)
    BY <1>2, <1>4
  <2> QED
    BY <1>2, <1>4, <1>5, <1>6, <1>7, <1>8, <2>1 DEF Acts
<1>10. World([t EXCEPT ![m] = x], Told(q, u, m, q[m], <<>>), n, u, h, L2, S2, C, F, [g EXCEPT ![m] = g[m]])
  BY <1>9, StepWorld
<1>11. q = Told(q, u, m, q[m], <<>>)
  <2>1. t[m] \in States /\ Mach(m, t[m], q[m], g[m], L, S, C, F, h)
    BY Members
  <2>2. Calm(t, q, n, u, h, L, S, C, F, g, m, t[m])
    BY <2>1 DEF Calm
  <2> QED
    BY <2>2, CalmActs
<1> QED
  BY <1>10, <1>11

LEMMA PerformStep ==
  ASSUME IInv, NEW m \in Machine, NEW kind \in Kinds, Perform(m, kind)
  PROVE  IInv'
<1> DEFINE r == st[m]
<1>1. /\ m \in up /\ Idle(r) /\ AtEnd(r) /\ r.owner[r.turn] = m /\ r.mode[r.turn] # "idle"
      /\ (kind = "init_side" <=> ~r.inited) /\ Commands(r) < MaxCommands
      /\ UNCHANGED <<inbox, seeds, up, host, error, cleared>>
  BY DEF Perform
<1>2. PICK script \in Scripts[kind] : st' = [st EXCEPT ![m] = Recorded(m, r, kind, script)]
  BY DEF Perform
<1>3. PICK L, S, C, F, g : Here(m, L, S, C, F, g)
  BY <1>1, HereIs
<1>4. /\ Place(m, r, inbox[m], g[m], L, S, C, F, up, host)
      /\ World(st, inbox, seeds, up, host, L, S, C, F, g)
  BY <1>3 DEF Here
<1>5. Secure(m, r, F)
  <2>1. Held(m, r, g[m], F, host)
    BY <1>4 DEF Place, Mach
  <2>2. r.run.phase # "pull"
    BY <1>1 DEF Idle
  <2> QED
    BY <1>1, <2>1, <2>2 DEF Held, Secure
<1>6. May(m, r, F, kind, script)
  BY <1>1, <1>2, <1>5 DEF May, Own
<1>7. PICK L2, S2, g2 : World([st EXCEPT ![m] = Recorded(m, r, kind, script)], inbox, seeds, up, host, L2, S2, C, F, g2)
  BY <1>1, <1>4, <1>6, RecordWorld
<1>8. World(st', inbox', seeds', up', host', L2, S2, C, F, g2)
  BY <1>1, <1>2, <1>7
<1>9. error' = {} /\ host' \in Hosts /\ cleared' = cleared
  BY <1>1 DEF IInv
<1> QED
  BY <1>8, <1>9, WorldNow

ChoiceGoes(t, q, n, u, h, L, S, C, F, g, m, L2, S2, x, C2, P) ==
  /\ World(t, q, n, u, h, L, S, C, F, g) /\ m \in u
  /\ ChoiceDone(m, t[m], q[m], g[m], L, S, C, F, u, h, L2, S2, x, C2, P)

LEMMA ChoiceActs ==
  ASSUME NEW t, NEW q, NEW n, NEW u, NEW h, NEW L, NEW S, NEW C, NEW F, NEW g, NEW m,
         NEW L2, NEW S2, NEW x, NEW C2, NEW P,
         ChoiceGoes(t, q, n, u, h, L, S, C, F, g, m, L2, S2, x, C2, P)
  PROVE  Acts(t, q, n, u, h, L, S, C, F, g, m, x, q[m], g[m], n, L2, S2, C2, P)
<1> DEFINE r == t[m]
<1>1. /\ World(t, q, n, u, h, L, S, C, F, g) /\ m \in u
      /\ Extends(L, S, L2, S2, F, m) /\ Len(L2) = Len(L) + 1
      /\ Written(m, r, q[m], g[m], L2, S2, F, h, x, C2) /\ Spread(L2, C, C2, P)
      /\ Total(r, q[m], g[m]) = Len(L) /\ S2[Len(L2)].seeds = S[Len(L)].seeds
      /\ C2 # C => Quiet(S2[C2])
      /\ C2 # Len(L2) => /\ Own(m, r, S[Len(L)].turn) /\ F[S[Len(L)].turn] = m
                         /\ Actor(S[Len(L)]) = S[Len(L)].turn
  BY DEF ChoiceGoes, ChoiceDone
<1>2. /\ m \in Machine /\ q[m] \in Seq(Messages) /\ g[m] \in Nat /\ g[m] \in 0..Len(q[m])
      /\ C \in Nat /\ Len(L) \in Nat
  BY <1>1, Members
<1>3. /\ Mach(m, x, q[m], g[m], L2, S2, C2, F, h) /\ Total(x, q[m], g[m]) = Len(L2)
      /\ GapAt(x, g[m]) >= GapAt(r, g[m])
      /\ x \in States /\ x.owner = r.owner /\ x.mode = r.mode
  BY <1>1 DEF Written
<1>4. n = S2[Len(L2)].seeds
  BY <1>1 DEF World
<1>5. Total(x, q[m], g[m]) = Total(r, q[m], g[m]) + (Len(L2) - Len(L))
  BY <1>1, <1>2, <1>3
<1>6. Len(L2) # Len(L) /\ C2 \in Nat
  BY <1>1, <1>2 DEF Spread
<1>7. C2 # C => Settled(t, S2, C2, F, u, h)
  <2>1. C2 # C => S2[C2].undo = 0
    BY <1>1 DEF Quiet
  <2> QED
    BY <1>1, <2>1 DEF Quiet, Settled
<1> QED
  BY <1>1, <1>2, <1>3, <1>4, <1>5, <1>6, <1>7 DEF Acts

LEMMA ChooseStep ==
  ASSUME IInv, NEW m \in Machine, Choose(m)
  PROVE  IInv'
<1> DEFINE r == st[m]
           e == Entry("choice", m, Asked(r), <<>>)
           s == [r EXCEPT !.rec = Append(@, e)]
           r1 == Flushed([s EXCEPT !.run.simul = TRUE])
           sends == r.run.simul \/ r.turn # Asked(r)
<1>1. /\ m \in up /\ r.run.phase \in {"look", "pull"} /\ r.expect = None /\ AtEnd(r)
      /\ Asked(r) # Server /\ r.owner[Asked(r)] = m
      /\ UNCHANGED <<seeds, up, host, error, cleared>>
      /\ sends => st' = [st EXCEPT ![m] = Answered(m, r1, e, 1)] /\ Post(SendsTo(m), Packet(s))
      /\ ~sends => st' = [st EXCEPT ![m] = Answered(m, s, e, 1)] /\ UNCHANGED inbox
  BY DEF Choose, Looping, Local
<1>2. PICK L, S, C, F, g : Here(m, L, S, C, F, g)
  BY <1>1, HereIs
<1>3. /\ Place(m, r, inbox[m], g[m], L, S, C, F, up, host)
      /\ World(st, inbox, seeds, up, host, L, S, C, F, g)
  BY <1>2 DEF Here
<1> DEFINE L2 == Append(L, Received(e))
           S2 == Longer(L, S, Received(e))
<1>4. Chooses(m, r, inbox[m], g[m], L, S, C, F, up, host, e, L2, S2)
  BY <1>1, <1>3 DEF Chooses, Own
<1>5. CASE sends
  <2> DEFINE x == Answered(m, r1, e, 1)
  <2>1. ChoiceDone(m, r, inbox[m], g[m], L, S, C, F, up, host, L2, S2, x, Len(L2), Packet(s))
    BY <1>4, <1>5, ChooseSends
  <2> HIDE DEF x, s, L2, S2
  <2>2. ChoiceGoes(st, inbox, seeds, up, host, L, S, C, F, g, m, L2, S2, x, Len(L2), Packet(s))
    BY <1>1, <1>3, <2>1 DEF ChoiceGoes
  <2>3. Acts(st, inbox, seeds, up, host, L, S, C, F, g, m, x, inbox[m], g[m], seeds, L2, S2, Len(L2), Packet(s))
    BY <2>2, ChoiceActs
  <2>4. Acts(st, inbox, seeds, up, host, L, S, C, F, g, m, x, inbox[m], g[m], seeds', L2, S2, Len(L2), Packet(s))
    BY <1>1, <2>3
  <2>5. inbox' = Told(inbox, up, m, inbox[m], Packet(s)) /\ st' = [st EXCEPT ![m] = x]
    BY <1>1, <1>5, PostIs DEF x
  <2> QED
    BY <1>1, <2>4, <2>5, Done
<1>6. CASE ~sends
  <2> DEFINE x == Answered(m, s, e, 1)
  <2>1. ChoiceDone(m, r, inbox[m], g[m], L, S, C, F, up, host, L2, S2, x, C, <<>>)
    BY <1>4, <1>6, ChooseAlone
  <2> HIDE DEF x, L2, S2
  <2>2. ChoiceGoes(st, inbox, seeds, up, host, L, S, C, F, g, m, L2, S2, x, C, <<>>)
    BY <1>1, <1>3, <2>1 DEF ChoiceGoes
  <2>3. Acts(st, inbox, seeds, up, host, L, S, C, F, g, m, x, inbox[m], g[m], seeds, L2, S2, C, <<>>)
    BY <2>2, ChoiceActs
  <2>4. Acts(st, inbox, seeds, up, host, L, S, C, F, g, m, x, inbox[m], g[m], seeds', L2, S2, C, <<>>)
    BY <1>1, <2>3
  <2>5. inbox' = Told(inbox, up, m, inbox[m], <<>>) /\ st' = [st EXCEPT ![m] = x]
    <3>1. st[m] \in States /\ Mach(m, st[m], inbox[m], g[m], L, S, C, F, host)
      BY <1>1, <1>3, Members
    <3>2. Calm(st, inbox, seeds, up, host, L, S, C, F, g, m, st[m])
      BY <1>1, <1>3, <3>1 DEF Calm
    <3>3. inbox = Told(inbox, up, m, inbox[m], <<>>)
      BY <3>2, CalmActs
    <3>4. UNCHANGED inbox /\ st' = [st EXCEPT ![m] = x]
      BY <1>1, <1>6 DEF x
    <3> QED
      BY <3>3, <3>4
  <2> QED
    BY <1>1, <2>4, <2>5, Done
<1> QED
  BY <1>5, <1>6

-----------------------------------------------------------------------------
(* Undo: the log loses its last command.                                           *)

\* L2 and S2 are the first n entries of the log and their stages.
Cuts(L, S, n, L2, S2) ==
  Log(L, S) /\ n \in 0..Len(L) /\ L2 = SubSeq(L, 1, n) /\ S2 = Shorter(S, n)
CutsHas(L, S, n, L2, S2) ==
  /\ Log(L2, S2) /\ Len(L2) = n /\ n \in Nat /\ Len(L) \in Nat /\ n <= Len(L)
  /\ \A i \in 1..n : L2[i] = L[i]
  /\ \A i \in 0..n : S2[i] = S[i]

LEMMA CutsIs ==
  ASSUME NEW L, NEW S, NEW n, NEW L2, NEW S2, Cuts(L, S, n, L2, S2)
  PROVE  CutsHas(L, S, n, L2, S2)
<1>1. Log(L, S) /\ n \in 0..Len(L) /\ L2 = SubSeq(L, 1, n) /\ S2 = Shorter(S, n)
  BY DEF Cuts
<1>2. Log(L2, S2)
  BY <1>1, LogCut
<1>3. Len(L2) = n /\ n \in Nat /\ (\A i \in 1..n : L2[i] = L[i]) /\ (\A i \in 0..n : S2[i] = S[i])
  BY <1>1, ShorterIs
<1>4. Len(L) \in Nat
  BY <1>1, LogTypes
<1> QED
  BY <1>1, <1>2, <1>3, <1>4 DEF CutsHas

\* Who had nothing of what is cut, and has not the side, does not notice.
CutFor(y, r, q, k, L, S, C, F, u, h, n, L2, S2) ==
  /\ Place(y, r, q, k, L, S, C, F, u, h) /\ Total(r, q, k) = C
  /\ CutsHas(L, S, n, L2, S2) /\ C <= n /\ n < Len(L) /\ F[S[n].turn] # y

LEMMA CutOther ==
  ASSUME NEW y, NEW r, NEW q, NEW k, NEW L, NEW S, NEW C, NEW F, NEW u, NEW h, NEW n, NEW L2, NEW S2,
         CutFor(y, r, q, k, L, S, C, F, u, h, n, L2, S2)
  PROVE  Mach(y, r, q, k, L2, S2, C, F, h)
<1>1. /\ Place(y, r, q, k, L, S, C, F, u, h) /\ Total(r, q, k) = C
      /\ C <= n /\ n < Len(L) /\ F[S[n].turn] # y
      /\ Log(L2, S2) /\ Len(L2) = n /\ n \in Nat /\ Len(L) \in Nat
      /\ \A i \in 1..n : L2[i] = L[i]
      /\ \A i \in 0..n : S2[i] = S[i]
  BY DEF CutFor, CutsHas
<1>2. PlaceFields(r, q, k, L, S, C)
  BY <1>1, PlaceHas
<1>3. /\ Keeps(r, L) /\ Stands(r, S[r.pos]) /\ Inbox(r, q, k, L) /\ Sent(r, q, k, L, C)
      /\ Pending(y, r, k, L, S, F) /\ Held(y, r, k, F, h) /\ Stacked(y, r, L, S, C, F, h)
      /\ r \in States /\ q \in Seq(Messages) /\ k \in 0..Len(q)
  BY <1>1 DEF Place, Mach
<1>4. /\ C \in Nat /\ r.pos \in Nat /\ Len(r.rec) \in Nat /\ r.pos <= Len(r.rec) /\ Len(r.rec) <= C
      /\ r.pos <= n /\ Len(r.rec) <= n /\ r.pos # Len(L) /\ r.turn = S[r.pos].turn
  BY <1>1, <1>2 DEF PlaceFields
<1>5. Keeps(r, L2)
  <2>1. \A i \in 1..Len(r.rec) : i \in 1..n /\ L2[i] = L[i]
    BY <1>1, <1>4
  <2>2. \A i \in 1..r.pos : i \in 1..n /\ L2[i] = L[i]
    BY <1>1, <1>4
  <2> QED
    BY <1>1, <1>3, <1>4, <2>1, <2>2 DEF Keeps
<1>6. S2[r.pos] = S[r.pos]
  BY <1>1, <1>4
<1>7. Stands(r, S2[r.pos])
  BY <1>3, <1>6
<1>8. Inbox(r, q, k, L2)
  <2>1. \A j \in 1..Len(q) : Index(r, k, j) \in 1..C \/ j = k
    BY <1>1, <1>3, TotalIs
  <2>2. ASSUME NEW j \in 1..Len(q), j # k
        PROVE  Index(r, k, j) <= Len(L2) /\ q[j] = Message("entry", L2[Index(r, k, j)])
    <3>1. Index(r, k, j) \in 1..n
      BY <1>1, <1>4, <2>1, <2>2
    <3>2. q[j] = Message("entry", L[Index(r, k, j)])
      BY <1>3, <2>2 DEF Inbox
    <3> QED
      BY <1>1, <3>1, <3>2
  <2> QED
    BY <1>3, <2>2 DEF Inbox
<1>9. Sent(r, q, k, L2, C)
  BY <1>1, <1>3 DEF Sent
<1>10. Pending(y, r, k, L2, S2, F)
  <2>1. ~(r.run.phase = "look" /\ Actor(S[r.pos]) = Server /\ Own(y, r, r.turn))
    BY <1>3, <1>4 DEF Pending
  <2>2. ~(r.run.local /\ ~r.run.required)
    BY <1>3, <1>4 DEF Pending
  <2>3. \A i \in r.pos..n-1 : i \in r.pos..Len(L)-1 /\ S2[i] = S[i]
    BY <1>1, <1>4
  <2>4. \A i \in r.pos+1..n-1 : i \in r.pos+1..Len(L)-1 /\ S2[i] = S[i]
    BY <1>1, <1>4
  <2>5. \A i \in r.pos..n-1 : Actor(S2[i]) # Server => ~OwnAt(y, r, k, F, i, Actor(S2[i]))
    BY <1>3, <2>3 DEF Pending
  <2>6. \A i \in r.pos+1..n-1 : Actor(S2[i]) = Server => ~OwnAt(y, r, k, F, i, S2[i].turn)
    BY <1>3, <2>4 DEF Pending
  <2> QED
    BY <1>1, <1>6, <2>1, <2>2, <2>5, <2>6 DEF Pending
<1>11. Stacked(y, r, L2, S2, C, F, h)
  <2>1. Own(y, r, r.turn) /\ F[r.turn] = y => r.pos # Len(L2)
    BY <1>1, <1>4
  <2> QED
    BY <1>3, <1>6, <2>1 DEF Stacked
<1> QED
  BY <1>3, <1>5, <1>7, <1>8, <1>9, <1>10, <1>11 DEF Mach

\* m may take back its last command.
Undoes(m, r, q, k, L, S, C, F, u, h) ==
  /\ Place(m, r, q, k, L, S, C, F, u, h) /\ Idle(r) /\ AtEnd(r) /\ r.undo > 0
  /\ Own(m, r, r.turn) /\ r.mode[r.turn] = "human"
\* It began with the b-th entry, and nothing of it was sent.
UndoesHas(m, r, q, k, L, S, C, F, b) ==
  /\ Secure(m, r, F) /\ PlaceFields(r, q, k, L, S, C) /\ r.run = NoRun
  /\ r.pos = Len(L) /\ Len(r.rec) = Len(L) /\ Total(r, q, k) = Len(L) /\ \A i \in 1..Len(q) : i = k
  /\ b \in 1..Len(L) /\ C <= b - 1 /\ LastMove(r, b)
  /\ r.game[b].kind \in Kinds /\ \A i \in b+1..Len(r.game) : r.game[i].kind \notin Kinds
  /\ F[S[Len(L)].turn] = m /\ Own(m, r, S[Len(L)].turn)
  /\ Rests(S[b - 1]) /\ S[Len(L)].cmds = S[b - 1].cmds + 1 /\ S[Len(L)].undo = S[b - 1].undo + 1
  /\ S[b - 1].turn = S[Len(L)].turn /\ S[b - 1].inited = S[Len(L)].inited /\ S[b - 1].seeds = S[Len(L)].seeds
  /\ r.undo + S[C].cmds <= S[Len(L)].cmds

LEMMA UndoesIs ==
  ASSUME NEW m, NEW r, NEW q, NEW k, NEW L, NEW S, NEW C, NEW F, NEW u, NEW h,
         Undoes(m, r, q, k, L, S, C, F, u, h), NEW b, b = S[Len(L)].begin
  PROVE  UndoesHas(m, r, q, k, L, S, C, F, b)
<1> DEFINE N == Len(L)
           s == S[Len(L)]
<1>1. /\ Place(m, r, q, k, L, S, C, F, u, h) /\ Idle(r) /\ AtEnd(r) /\ r.undo > 0
      /\ Own(m, r, r.turn) /\ r.mode[r.turn] = "human"
  BY DEF Undoes
<1>2. PlaceFields(r, q, k, L, S, C)
  BY <1>1, PlaceHas
<1>3. /\ Keeps(r, L) /\ Stands(r, S[r.pos]) /\ Inbox(r, q, k, L) /\ Sent(r, q, k, L, C)
      /\ Pending(m, r, k, L, S, F) /\ Held(m, r, k, F, h) /\ Stacked(m, r, L, S, C, F, h)
      /\ r \in States /\ q \in Seq(Messages) /\ k \in 0..Len(q) /\ Log(L, S)
  BY <1>1 DEF Place, Mach
<1>4. r.run = NoRun /\ Rests(S[r.pos]) /\ r.undo <= S[r.pos].undo /\ r.turn = S[r.pos].turn /\ r.run.phase = "idle"
  BY <1>1, <1>3 DEF Stands, Idle
<1>5. Secure(m, r, F)
  <2>1. r.mode[r.turn] # "idle" /\ r.run.phase # "pull"
    BY <1>1, <1>4
  <2> QED
    BY <1>3, <2>1 DEF Held, Secure
<1>6. r.turn \in Side /\ S[r.pos] \in Stages /\ F[r.turn] = m
  <2>1. r.turn \in Side
    BY <1>3, StateFields
  <2> QED
    BY <2>1, <1>1, <1>2, <1>5 DEF Secure, PlaceFields
<1>7. r.pos = N /\ Len(r.rec) = N /\ Total(r, q, k) = N /\ \A i \in 1..Len(q) : i = k
  <2>1. Actor(S[r.pos]) = r.turn
    BY <1>4, <1>6, ActorIs
  <2>2. r.turn # Server
    BY <1>6, SideIs DEF Server
  <2>3. Word(m, r, q, k, L, S, C, F, u, h)
    BY <1>1, <1>6, <2>1, <2>2 DEF Word
  <2>4. WordHas(r, q, k, L)
    BY <2>3, HasWord
  <2> QED
    BY <2>4 DEF WordHas
<1>8. r.undo + S[C].cmds <= s.cmds
  <2>1. ~r.run.simul
    BY <1>4, NoRunIs
  <2>2. r.undo + S[C].cmds + (IF Rests(S[r.pos]) THEN 0 ELSE 1) <= S[r.pos].cmds
    BY <1>1, <1>3, <1>6, <1>7, <2>1 DEF Stacked
  <2>3. C \in 0..N
    BY <1>1 DEF Place
  <2>4. S[C] \in Stages
    BY <1>3, <2>3, LogTypes
  <2>5. S[C].cmds \in Nat /\ r.undo \in Nat
    BY <2>4, <1>2, StageFields DEF PlaceFields
  <2> QED
    BY <2>2, <2>5, <1>4, <1>7
<1>9. s \in Stages /\ s.undo > 0 /\ Rests(s) /\ N \in Nat /\ C \in Nat /\ C <= N /\ r.undo \in Nat /\ s.undo \in Nat
  <2>1. s \in Stages /\ r.undo \in Nat /\ N \in Nat /\ C \in Nat /\ C <= N
    BY <1>2, <1>6, <1>7 DEF PlaceFields
  <2>2. s.undo \in Nat
    BY <2>1, StageFields
  <2> QED
    BY <2>1, <2>2, <1>1, <1>4, <1>7
<1>10. Begun(L, S, N)
  <2>1. N \in 0..N
    BY <1>9
  <2> QED
    BY <1>3, <2>1 DEF Log, Sound
<1>11. /\ b \in 1..N /\ L[b].kind \in Kinds /\ \A i \in b+1..N : L[i].kind \notin Kinds
       /\ Rests(S[b - 1]) /\ s.cmds = S[b - 1].cmds + 1
       /\ L[b].kind = "move" /\ s.undo = S[b - 1].undo + 1
       /\ S[b - 1].turn = s.turn /\ S[b - 1].inited = s.inited /\ S[b - 1].seeds = s.seeds
  BY <1>9, <1>10 DEF Begun
<1>12. C <= b - 1
  <2> SUFFICES ASSUME C >= b PROVE FALSE
    BY <1>9, <1>11
  <2>1. b \in 0..C /\ C \in 0..N
    BY <1>9, <1>11
  <2>2. S[b].cmds <= S[C].cmds /\ S[b].cmds \in Nat /\ S[C].cmds \in Nat
    BY <1>3, <2>1, CmdsGrow
  <2>3. Follows(L, S, b)
    <3>1. b - 1 \in 0..N
      BY <1>9, <1>11
    <3> QED
      BY <1>3, <1>11, <3>1 DEF Follows, Log
  <2>4. S[b].cmds = S[b - 1].cmds + 1
    <3>1. CommandFields(S[b - 1], L[b], b, S[b])
      BY <2>3, <1>11, AfterCommand
    <3> QED
      BY <3>1 DEF CommandFields
  <2> QED
    BY <2>2, <2>4, <1>1, <1>8, <1>9, <1>11
<1>13. \A i \in 1..N : Same(r.rec[i], L[i]) /\ r.rec[i] \in Entries /\ r.game[i] = Event(L[i]) /\ L[i] \in Entries
  BY <1>2, <1>7 DEF PlaceFields
<1>14. LastMove(r, b)
  <2>1. r.rec[b].kind = "move"
    BY <1>11, <1>13 DEF Same
  <2>2. ~r.rec[b].sent
    BY <1>3, <1>7, <1>9, <1>11, <1>12 DEF Sent
  <2>3. \A i \in b+1..N : r.rec[i].kind \in {"choice", "seed"}
    <3>1. \A i \in b+1..N : i \in 1..N
      BY <1>9, <1>11
    <3>2. \A i \in 1..N : r.rec[i].kind \in Things /\ r.rec[i].kind = L[i].kind
      BY <1>13, EntryFields DEF Same
    <3> QED
      BY <3>1, <3>2, <1>11 DEF Things
  <2> QED
    BY <1>7, <1>11, <2>1, <2>2, <2>3 DEF LastMove
<1>15. r.game[b].kind \in Kinds /\ \A i \in b+1..Len(r.game) : r.game[i].kind \notin Kinds
  <2>1. Len(r.game) = N
    BY <1>2, <1>7 DEF PlaceFields
  <2>2. \A i \in 1..N : r.game[i].kind = L[i].kind
    BY <1>13, EntryFields
  <2>3. \A i \in b+1..N : i \in 1..N
    BY <1>9, <1>11
  <2> QED
    BY <2>1, <2>2, <2>3, <1>11
<1>16. F[s.turn] = m /\ Own(m, r, s.turn)
  BY <1>1, <1>4, <1>6, <1>7
<1> QED
  BY <1>2, <1>4, <1>5, <1>7, <1>8, <1>11, <1>12, <1>14, <1>15, <1>16 DEF UndoesHas

\* What is left when the b-th entry and all behind it are taken back.
Undone(r, x, b) ==
  /\ x \in States /\ x.pos = b - 1 /\ x.upto = r.upto /\ x.undo = r.undo - 1
  /\ x.run = r.run /\ x.turn = r.turn /\ x.inited = r.inited
  /\ x.owner = r.owner /\ x.mode = r.mode /\ x.expect = r.expect
  /\ Len(x.rec) = b - 1 /\ Len(x.game) = b - 1
  /\ \A i \in 1..b - 1 : x.rec[i] = r.rec[i] /\ x.game[i] = r.game[i]

\* The first n of a sequence.
LEMMA FirstIs ==
  ASSUME NEW X, NEW s \in Seq(X), NEW n \in 0..Len(s), NEW z, z = SubSeq(s, 1, n)
  PROVE  z \in Seq(X) /\ Len(z) = n /\ \A i \in 1..n : z[i] = s[i]
<1>1. n \in Nat /\ n <= Len(s) /\ Len(s) \in Nat
  OBVIOUS
<1>2. \A i \in 1..n : s[i] \in X
  BY <1>1
<1> QED
  BY <1>1, <1>2

LEMMA UndoneIs ==
  ASSUME NEW m, NEW r, NEW q, NEW k, NEW L, NEW S, NEW C, NEW F, NEW b,
         UndoesHas(m, r, q, k, L, S, C, F, b), r \in States, r.undo > 0,
         NEW x, x = [r EXCEPT !.rec = UndoCut(@), !.pos = Len(UndoCut(r.rec)),
                              !.game = TakenBack(@), !.undo = @ - 1]
  PROVE  Undone(r, x, b)
<1>1. /\ PlaceFields(r, q, k, L, S, C) /\ r.pos = Len(L) /\ Len(r.rec) = Len(L)
      /\ b \in 1..Len(L) /\ LastMove(r, b)
      /\ r.game[b].kind \in Kinds /\ \A i \in b+1..Len(r.game) : r.game[i].kind \notin Kinds
  BY DEF UndoesHas
<1>2. /\ r.rec \in Seq(Entries) /\ r.game \in Seq(Happens) /\ Len(r.game) = Len(L) /\ Len(L) \in Nat
      /\ r.undo \in Nat
  BY <1>1 DEF PlaceFields
<1> DEFINE R == SubSeq(r.rec, 1, b - 1)
           G == SubSeq(r.game, 1, b - 1)
<1>3. UndoCut(r.rec) = R
  BY <1>1, UndoCutIs
<1>4. TakenBack(r.game) = G
  <2>1. b \in 1..Len(r.game)
    BY <1>1, <1>2
  <2> QED
    BY <1>1, <1>2, <2>1, TakenBackIs
<1>5. b - 1 \in 0..Len(r.rec) /\ b - 1 \in 0..Len(r.game) /\ b - 1 \in Nat /\ r.undo - 1 \in Nat
  BY <1>1, <1>2
<1>6. R \in Seq(Entries) /\ Len(R) = b - 1 /\ \A i \in 1..b - 1 : R[i] = r.rec[i]
  BY <1>2, <1>5, FirstIs
<1>7. G \in Seq(Happens) /\ Len(G) = b - 1 /\ \A i \in 1..b - 1 : G[i] = r.game[i]
  BY <1>2, <1>5, FirstIs
<1> HIDE DEF R, G
<1>8. x = [r EXCEPT !.rec = R, !.pos = b - 1, !.game = G, !.undo = r.undo - 1]
  BY <1>3, <1>4, <1>6, Zenon
<1>9. x \in States
  BY <1>5, <1>6, <1>7, <1>8, Zenon DEF States
<1>10. /\ x.rec = R /\ x.pos = b - 1 /\ x.game = G /\ x.undo = r.undo - 1
       /\ x.run = r.run /\ x.turn = r.turn /\ x.inited = r.inited /\ x.upto = r.upto
       /\ x.owner = r.owner /\ x.mode = r.mode /\ x.expect = r.expect
  BY <1>8, Zenon DEF States
<1> QED
  BY <1>6, <1>7, <1>9, <1>10 DEF Undone

UndoHas(m, r, q, k, L, S, C, F, u, h, b, x, L2, S2) ==
  /\ Place(m, r, q, k, L, S, C, F, u, h) /\ UndoesHas(m, r, q, k, L, S, C, F, b)
  /\ Undone(r, x, b) /\ CutsHas(L, S, b - 1, L2, S2)

LEMMA UndoMach ==
  ASSUME NEW m, NEW r, NEW q, NEW k, NEW L, NEW S, NEW C, NEW F, NEW u, NEW h, NEW b, NEW x, NEW L2, NEW S2,
         UndoHas(m, r, q, k, L, S, C, F, u, h, b, x, L2, S2)
  PROVE  Mach(m, x, q, k, L2, S2, C, F, h) /\ Total(x, q, k) = b - 1 /\ (k # 0 => GapAt(x, k) = b - 1)
<1> DEFINE N == Len(L)
           s == S[N]
           v == S[b - 1]
<1>1. /\ Place(m, r, q, k, L, S, C, F, u, h)
      /\ Secure(m, r, F) /\ PlaceFields(r, q, k, L, S, C) /\ r.run = NoRun
      /\ r.pos = N /\ Len(r.rec) = N /\ Total(r, q, k) = N /\ \A i \in 1..Len(q) : i = k
      /\ b \in 1..N /\ C <= b - 1 /\ LastMove(r, b)
      /\ F[s.turn] = m /\ Own(m, r, s.turn)
      /\ Rests(v) /\ s.cmds = v.cmds + 1 /\ s.undo = v.undo + 1
      /\ v.turn = s.turn /\ v.inited = s.inited
      /\ r.undo + S[C].cmds <= s.cmds
  BY DEF UndoHas, UndoesHas
<1>2. /\ x \in States /\ x.pos = b - 1 /\ x.upto = r.upto /\ x.undo = r.undo - 1
      /\ x.run = r.run /\ x.turn = r.turn /\ x.inited = r.inited
      /\ x.owner = r.owner /\ x.mode = r.mode /\ x.expect = r.expect
      /\ Len(x.rec) = b - 1 /\ Len(x.game) = b - 1
      /\ \A i \in 1..b - 1 : x.rec[i] = r.rec[i] /\ x.game[i] = r.game[i]
  BY DEF UndoHas, Undone
<1>3. /\ Len(L2) = b - 1 /\ b - 1 \in Nat /\ N \in Nat /\ b - 1 <= N
      /\ \A i \in 1..b - 1 : L2[i] = L[i]
      /\ \A i \in 0..b - 1 : S2[i] = S[i]
  BY DEF UndoHas, CutsHas
<1>4. /\ Keeps(r, L) /\ Stands(r, s) /\ Inbox(r, q, k, L) /\ Sent(r, q, k, L, C)
      /\ Stacked(m, r, L, S, C, F, h) /\ q \in Seq(Messages) /\ k \in 0..Len(q) /\ Log(L, S)
      /\ C \in 0..N /\ C \in Nat /\ k \in Nat /\ Len(q) \in Nat /\ r.undo \in Nat /\ r.upto \in Nat /\ r.upto <= C
  BY <1>1 DEF Place, Mach, PlaceFields
<1>5. S2[b - 1] = v /\ S2[C] = S[C] /\ v \in Stages /\ s \in Stages /\ Shapes(v) /\ S[C] \in Stages
  <2>1. b - 1 \in 0..N /\ b - 1 \in 0..b - 1 /\ C \in 0..b - 1 /\ N \in 0..N
    BY <1>1, <1>3, <1>4
  <2>2. v \in Stages /\ s \in Stages /\ S[C] \in Stages
    BY <1>4, <2>1, LogTypes
  <2>3. Shapes(v)
    BY <1>4, <2>1 DEF Log, Sound
  <2> QED
    BY <1>3, <2>1, <2>2, <2>3
<1> HIDE DEF s, v
<1>6. s.undo \in Nat /\ v.undo \in Nat /\ s.cmds \in Nat /\ v.cmds \in Nat /\ S[C].cmds \in Nat
  BY <1>5, StageFields
<1>7. Keeps(x, L2)
  <2>1. \A i \in 1..b - 1 : i \in 1..N
    BY <1>1, <1>3
  <2>2. \A i \in 1..b - 1 : Same(x.rec[i], L2[i]) /\ x.game[i] = Event(L2[i])
    <3>1. \A i \in 1..N : Same(r.rec[i], L[i]) /\ r.game[i] = Event(L[i])
      BY <1>1, <1>4 DEF Keeps
    <3> QED
      BY <2>1, <3>1, <1>2, <1>3
  <2>3. Len(x.rec) <= Len(L2) /\ x.pos <= Len(x.rec) /\ Len(x.rec) # x.pos + 1 /\ Len(x.rec) <= x.pos + 1
    BY <1>2, <1>3
  <2> QED
    BY <1>2, <1>3, <2>2, <2>3 DEF Keeps
<1>8. x.run.kind = None /\ x.run.left = <<>> /\ x.run.phase = "idle" /\ ~x.run.simul /\ ~x.run.seeded
      /\ ~x.run.local /\ ~x.run.required
  BY <1>1, <1>2, NoRunIs
<1>9. v.kind = None /\ v.left = <<>> /\ ~v.remote
  BY <1>1, <1>5 DEF Shapes, Rests
<1>10. r.turn = s.turn /\ r.inited = s.inited /\ r.undo <= s.undo
  BY <1>4 DEF Stands
<1>11. Stands(x, v)
  <2>1. x.undo <= v.undo
    BY <1>1, <1>2, <1>4, <1>6, <1>10
  <2>2. Idle(x)
    BY <1>8 DEF Idle
  <2> QED
    BY <1>1, <1>2, <1>8, <1>9, <1>10, <2>1, <2>2 DEF Stands
<1>12. Inbox(x, q, k, L2)
  BY <1>1, <1>4 DEF Inbox
<1>13. Total(x, q, k) = b - 1
  <2>1. Total(r, q, k) = IF k = 0 THEN N + Len(q) ELSE N + Len(q) - 1
    BY <1>1 DEF Total
  <2>2. Total(x, q, k) = IF k = 0 THEN (b - 1) + Len(q) ELSE (b - 1) + Len(q) - 1
    BY <1>2 DEF Total
  <2> QED
    BY <1>1, <1>3, <1>4, <2>1, <2>2
<1>14. k # 0 => GapAt(x, k) = b - 1
  <2> SUFFICES ASSUME k # 0 PROVE GapAt(x, k) = b - 1
    OBVIOUS
  <2>1. 1 \in 1..Len(q)
    BY <1>4
  <2>2. k = 1
    BY <1>1, <2>1
  <2>3. GapAt(x, k) = (b - 1) + k - 1
    BY <1>2 DEF GapAt
  <2> QED
    BY <2>2, <2>3, <1>3
<1>15. Sent(x, q, k, L2, C)
  <2>1. x.upto <= C /\ x.upto <= Len(x.rec)
    BY <1>1, <1>2, <1>3, <1>4
  <2>2. \A i \in 1..Len(x.rec) : IF i <= C THEN i <= x.upto \/ x.rec[i].sent ELSE ~x.rec[i].sent
    <3>1. \A i \in 1..b - 1 : i \in 1..N
      BY <1>1, <1>3
    <3>2. \A i \in 1..N : IF i <= C THEN i <= r.upto \/ r.rec[i].sent ELSE ~r.rec[i].sent
      BY <1>1, <1>4 DEF Sent
    <3> QED
      BY <3>1, <3>2, <1>2
  <2> QED
    BY <2>1, <2>2, <1>2, <1>3, <1>8, <1>13 DEF Sent
<1>16. Pending(m, x, k, L2, S2, F)
  <2>1. \A i : i \notin b - 1..(b - 1)-1 /\ i \notin (b - 1)+1..(b - 1)-1
    BY <1>3
  <2> QED
    BY <2>1, <1>2, <1>3, <1>8 DEF Pending
<1>17. Held(m, x, k, F, h)
  BY <1>1, <1>2, SecureHeld
<1>18. Stacked(m, x, L2, S2, C, F, h)
  <2>1. m \notin cleared \cup {h} => x.undo = v.undo
    <3>1. m \notin cleared \cup {h} => r.undo = s.undo
      BY <1>1, <1>4, <1>10 DEF Stacked, s
    <3> QED
      BY <3>1, <1>1, <1>2, <1>4, <1>6
  <2>2. x.undo + S2[C].cmds + 0 <= v.cmds
    <3>1. r.undo + S[C].cmds <= s.cmds /\ s.cmds = v.cmds + 1
      BY <1>1
    <3>2. x.undo = r.undo - 1 /\ r.undo \in Nat /\ S2[C].cmds = S[C].cmds
      BY <1>2, <1>4, <1>5
    <3> QED
      BY <3>1, <3>2, <1>6
  <2> QED
    BY <2>1, <2>2, <1>1, <1>2, <1>5, <1>8 DEF Stacked
<1>19. Mach(m, x, q, k, L2, S2, C, F, h)
  BY <1>2, <1>5, <1>7, <1>11, <1>12, <1>15, <1>16, <1>17, <1>18 DEF Mach
<1> QED
  BY <1>13, <1>14, <1>19

UndoAll(t, q, n, u, h, L, S, C, F, g, m, b, x, L2, S2) ==
  /\ World(t, q, n, u, h, L, S, C, F, g) /\ m \in u
  /\ UndoesHas(m, t[m], q[m], g[m], L, S, C, F, b)
  /\ Undone(t[m], x, b) /\ Cuts(L, S, b - 1, L2, S2)

LEMMA UndoWorld ==
  ASSUME NEW t, NEW q, NEW n, NEW u, NEW h, NEW L, NEW S, NEW C, NEW F, NEW g, NEW m, NEW b, NEW x,
         NEW L2, NEW S2, UndoAll(t, q, n, u, h, L, S, C, F, g, m, b, x, L2, S2)
  PROVE  World([t EXCEPT ![m] = x], q, n, u, h, L2, S2, C, F, g)
<1> DEFINE N == Len(L)
           t2 == [t EXCEPT ![m] = x]
<1>1. /\ World(t, q, n, u, h, L, S, C, F, g) /\ m \in u
      /\ UndoesHas(m, t[m], q[m], g[m], L, S, C, F, b)
      /\ Undone(t[m], x, b) /\ Cuts(L, S, b - 1, L2, S2)
  BY DEF UndoAll
<1>2. /\ t \in [Machine -> States] /\ q \in [Machine -> Seq(Messages)] /\ g \in [Machine -> Nat]
      /\ n = S[N].seeds /\ Leads(t, q, L, S, C, F, g, u) /\ Settled(t, S, C, F, u, h) /\ Present(F, u, h)
      /\ Log(L, S)
  BY <1>1 DEF World
<1>3. CutsHas(L, S, b - 1, L2, S2)
  BY <1>1, CutsIs
<1>4. /\ Log(L2, S2) /\ Len(L2) = b - 1 /\ b - 1 \in Nat /\ N \in Nat /\ b - 1 <= N
      /\ \A i \in 0..b - 1 : S2[i] = S[i]
  BY <1>3 DEF CutsHas
<1>5. /\ Total(t[m], q[m], g[m]) = N /\ b \in 1..N /\ C <= b - 1
      /\ F[S[N].turn] = m /\ S[b - 1].seeds = S[N].seeds
  BY <1>1 DEF UndoesHas
<1>6. m \in Machine /\ Place(m, t[m], q[m], g[m], L, S, C, F, u, h) /\ C \in Nat /\ C \in 0..N
  BY <1>1, Members, PlaceIs
<1>7. x \in States /\ x.owner = t[m].owner /\ x.mode = t[m].mode
  BY <1>1 DEF Undone
<1>8. N > C
  BY <1>4, <1>5, <1>6
<1>9. Ahead(m, t, q, L, S, C, F, g, u)
  BY <1>1, <1>5, <1>8, Foremost
<1>10. /\ \A y \in u \ {m} : Total(t[y], q[y], g[y]) = C
       /\ \A i \in C..N-1 : Own(m, t[m], S[i].turn) /\ F[S[i].turn] = m /\ Actor(S[i]) = S[i].turn
  BY <1>9 DEF Ahead
<1>11. /\ t2 \in [Machine -> States] /\ t2[m] = x /\ \A y \in Machine : y # m => t2[y] = t[y]
  BY <1>2, <1>6, <1>7
<1> HIDE DEF t2
<1>12. Mach(m, x, q[m], g[m], L2, S2, C, F, h) /\ Total(x, q[m], g[m]) = b - 1
       /\ (g[m] # 0 => GapAt(x, g[m]) = b - 1)
  <2>1. UndoHas(m, t[m], q[m], g[m], L, S, C, F, u, h, b, x, L2, S2)
    BY <1>1, <1>3, <1>6 DEF UndoHas
  <2> QED
    BY <2>1, UndoMach
<1>13. ASSUME NEW y \in u, y # m PROVE Mach(y, t[y], q[y], g[y], L2, S2, C, F, h) /\ Total(t[y], q[y], g[y]) = C
  <2>1. Total(t[y], q[y], g[y]) = C
    BY <1>10, <1>13
  <2>2. Place(y, t[y], q[y], g[y], L, S, C, F, u, h)
    BY <1>1, <1>13, PlaceIs
  <2>3. b - 1 < Len(L) /\ F[S[b - 1].turn] # y
    <3>1. b - 1 \in C..N-1
      BY <1>4, <1>5, <1>6
    <3> QED
      BY <1>10, <1>13, <3>1
  <2>4. CutFor(y, t[y], q[y], g[y], L, S, C, F, u, h, b - 1, L2, S2)
    BY <2>1, <2>2, <2>3, <1>3, <1>5 DEF CutFor
  <2> QED
    BY <2>1, <2>4, CutOther
<1>14. ASSUME NEW y \in u PROVE t2[y].owner = t[y].owner /\ t2[y].mode = t[y].mode /\ y \in Machine
  <2>1. y \in Machine
    BY <1>1, <1>14, Members
  <2> QED
    BY <1>7, <1>11, <2>1
<1>15. Leads(t2, q, L2, S2, C, F, g, u)
  <2>1. C \in 0..Len(L2)
    BY <1>4, <1>5, <1>6
  <2>2. \A i \in C..Len(L2) : S2[i].seeds = S2[C].seeds
    <3>1. \A i \in C..N : S[i].seeds = S[C].seeds
      BY <1>2 DEF Leads
    <3>2. \A i \in C..b - 1 : i \in C..N /\ S2[i] = S[i]
      BY <1>4, <1>6
    <3>3. S2[C] = S[C]
      BY <1>4, <1>5, <1>6
    <3> QED
      BY <3>1, <3>2, <3>3, <1>4
  <2>3. Ahead(m, t2, q, L2, S2, C, F, g, u)
    <3>1. Total(t2[m], q[m], g[m]) = Len(L2)
      BY <1>4, <1>11, <1>12
    <3>2. \A y \in u \ {m} : Total(t2[y], q[y], g[y]) = C
      BY <1>11, <1>13, <1>14
    <3>3. ASSUME NEW i \in C..Len(L2)-1
          PROVE  Own(m, t2[m], S2[i].turn) /\ F[S2[i].turn] = m /\ Actor(S2[i]) = S2[i].turn
      <4>1. i \in C..N-1 /\ S2[i] = S[i]
        BY <1>4, <1>5, <1>6
      <4> QED
        BY <1>7, <1>10, <1>11, <4>1 DEF Own
    <3> QED
      BY <1>1, <3>1, <3>2, <3>3 DEF Ahead
  <2> QED
    BY <1>1, <2>1, <2>2, <2>3 DEF Leads
<1>16. Settled(t2, S2, C, F, u, h)
  <2>1. S2[C] = S[C]
    BY <1>4, <1>5, <1>6
  <2> QED
    BY <1>1, <1>2, <1>14, <2>1 DEF Settled, Own
<1>17. n = S2[Len(L2)].seeds
  <2>1. S2[Len(L2)] = S[b - 1]
    BY <1>4
  <2> QED
    BY <2>1, <1>2, <1>5
<1>18. ASSUME NEW y \in u PROVE Dropped(y, t2, q, L2, S2, F, g, u, h)
  <2> DEFINE msg == q[y][g[y]]
             s == q[y][g[y]].body.side
  <2>1. Dropped(y, t, q, L, S, F, g, u, h)
    BY <1>1, <1>18, Members
  <2>2. ASSUME g[y] # 0, msg.what = "side_drop", NEW i \in GapAt(t2[y], g[y])..Len(L2)-1
        PROVE  Writer(S2[i]) # s
    <3>1. CASE y = m
      <4>1. i \in b - 1..(b - 1)-1
        BY <3>1, <2>2, <1>4, <1>11, <1>12
      <4> QED
        BY <4>1, <1>4
    <3>2. CASE y # m
      <4>1. t2[y] = t[y] /\ GapAt(t[y], g[y]) \in Nat
        <5>1. t[y] \in States /\ q[y] \in Seq(Messages) /\ g[y] \in 0..Len(q[y])
          BY <1>1, <1>18, Members
        <5>2. GapAt(t[y], g[y]) \in Nat
          BY <5>1, <2>2, TotalIs
        <5> QED
          BY <3>2, <5>2, <1>11, <1>14, <1>18
      <4>2. i \in GapAt(t[y], g[y])..N-1 /\ i \in 0..b - 1
        BY <4>1, <2>2, <1>4
      <4>3. Writer(S[i]) # s
        BY <2>1, <2>2, <4>2 DEF Dropped
      <4> QED
        BY <4>2, <4>3, <1>4
    <3> QED
      BY <3>1, <3>2
  <2> HIDE DEF msg, s
  <2>3. ASSUME g[y] # 0
        PROVE  /\ s \in Side /\ Home[s] \notin u
               /\ msg.what = "control" => msg.body.owner = F[s] /\ F[s] \in u
               /\ msg.what = "side_drop" =>
                    /\ y = h /\ F[s] = Home[s]
                    /\ \A z \in u : (z # y => g[z] = 0) /\ t2[z].owner[s] = Home[s]
                    /\ \A i \in GapAt(t2[y], g[y])..Len(L2)-1 : Writer(S2[i]) # s
    <3>1. /\ s \in Side /\ Home[s] \notin u
          /\ msg.what = "control" => msg.body.owner = F[s] /\ F[s] \in u
          /\ msg.what = "side_drop" =>
               /\ y = h /\ F[s] = Home[s]
               /\ \A z \in u : (z # y => g[z] = 0) /\ t[z].owner[s] = Home[s]
      BY <2>1, <2>3 DEF Dropped, msg, s
    <3> QED
      BY <3>1, <2>2, <2>3, <1>14
  <2> QED
    BY <2>3 DEF Dropped, msg, s
<1>19. ASSUME NEW y \in u
       PROVE  Mach(y, t2[y], q[y], g[y], L2, S2, C, F, h) /\ Views(y, t2[y], q[y], g[y], F, u, h)
  <2>1. Views(y, t2[y], q[y], g[y], F, u, h)
    <3>1. Views(y, t[y], q[y], g[y], F, u, h)
      BY <1>1, <1>19, Members
    <3> QED
      BY <3>1, <1>14 DEF Views, Own
  <2>2. Mach(y, t2[y], q[y], g[y], L2, S2, C, F, h)
    <3>1. CASE y = m
      BY <3>1, <1>11, <1>12
    <3>2. CASE y # m
      BY <3>2, <1>11, <1>13, <1>14
    <3> QED
      BY <3>1, <3>2
  <2> QED
    BY <2>1, <2>2
<1>20. World(t2, q, n, u, h, L2, S2, C, F, g)
  BY <1>2, <1>4, <1>11, <1>15, <1>16, <1>17, <1>18, <1>19 DEF World
<1> QED
  BY <1>20 DEF t2

LEMMA UndoStep ==
  ASSUME IInv, NEW m \in Machine, Undo(m)
  PROVE  IInv'
<1> DEFINE r == st[m]
           x == [r EXCEPT !.rec = UndoCut(@), !.pos = Len(UndoCut(r.rec)),
                          !.game = TakenBack(@), !.undo = @ - 1]
<1>1. /\ m \in up /\ Idle(r) /\ AtEnd(r) /\ r.undo > 0 /\ r.owner[r.turn] = m /\ r.mode[r.turn] = "human"
      /\ st' = [st EXCEPT ![m] = x] /\ UNCHANGED <<inbox, seeds, up, host, error, cleared>>
  BY Zenon DEF Undo
<1> HIDE DEF x
<1>2. PICK L, S, C, F, g : Here(m, L, S, C, F, g)
  BY <1>1, HereIs
<1>3. /\ Place(m, r, inbox[m], g[m], L, S, C, F, up, host) /\ r \in States
      /\ World(st, inbox, seeds, up, host, L, S, C, F, g)
  BY <1>2 DEF Here
<1> DEFINE b == S[Len(L)].begin
           L2 == SubSeq(L, 1, b - 1)
           S2 == Shorter(S, b - 1)
<1>4. UndoesHas(m, r, inbox[m], g[m], L, S, C, F, b)
  <2>1. Undoes(m, r, inbox[m], g[m], L, S, C, F, up, host)
    BY <1>1, <1>3 DEF Undoes, Own
  <2> QED
    BY <2>1, UndoesIs
<1> HIDE DEF b
<1>5. Undone(r, x, b)
  BY <1>1, <1>3, <1>4, UndoneIs DEF x
<1>6. Cuts(L, S, b - 1, L2, S2)
  <2>1. b \in 1..Len(L) /\ PlaceFields(r, inbox[m], g[m], L, S, C)
    BY <1>4 DEF UndoesHas
  <2>2. Len(L) \in Nat
    BY <2>1 DEF PlaceFields
  <2>3. b - 1 \in 0..Len(L)
    BY <2>1, <2>2
  <2> QED
    BY <1>3, <2>3 DEF Cuts, World
<1> HIDE DEF L2, S2
<1>7. UndoAll(st, inbox, seeds, up, host, L, S, C, F, g, m, b, x, L2, S2)
  BY <1>1, <1>3, <1>4, <1>5, <1>6 DEF UndoAll
<1>8. World([st EXCEPT ![m] = x], inbox, seeds, up, host, L2, S2, C, F, g)
  BY <1>7, UndoWorld
<1>9. World(st', inbox', seeds', up', host', L2, S2, C, F, g)
  BY <1>1, <1>8
<1>10. error' = {} /\ host' \in Hosts /\ cleared' = cleared
  BY <1>1 DEF IInv
<1> QED
  BY <1>9, <1>10, WorldNow

-----------------------------------------------------------------------------
(* Sides change hands.                                                             *)

\* x is r with other hands, and perhaps another wait for them.
Handed(r, x) ==
  /\ x \in States /\ x.rec = r.rec /\ x.pos = r.pos /\ x.upto = r.upto /\ x.game = r.game
  /\ x.undo = r.undo /\ x.run = r.run /\ x.turn = r.turn /\ x.inited = r.inited

\* m has read a message about a side, and has in x what F2 gives it.
Takes(m, r, q, L, S, C, F, u, h, x, p, F2) ==
  /\ Place(m, r, q, 1, L, S, C, F, u, h) /\ Lead(m, r, q, 1, L, S, C, F)
  /\ r.run.phase \in {"idle", "pull"} /\ AtEnd(r) /\ q # <<>> /\ p = Tail(q) /\ Handed(r, x)
  /\ F2 \in [Side -> Machine]
  /\ \A s \in Side : /\ Own(m, x, s) <=> F2[s] = m
                     /\ F[s] = m => F2[s] = m
                     /\ Own(m, r, s) /\ F2[s] = m => F[s] = m
  /\ \A i \in r.pos..Len(L)-1 : F2[Writer(S[i])] = F[Writer(S[i])]
  /\ S[C].undo > 0 /\ F2[S[C].turn] = m => Own(m, r, S[C].turn)
  /\ ~Rests(S[C]) => S[C].remote \/ Actor(S[C]) # S[C].turn

\* Who gets a side finds nothing to undo.
LEMMA TakesStacked ==
  ASSUME NEW m, NEW r, NEW q, NEW L, NEW S, NEW C, NEW F, NEW u, NEW h, NEW x, NEW p, NEW F2,
         Takes(m, r, q, L, S, C, F, u, h, x, p, F2)
  PROVE  Stacked(m, x, L, S, C, F2, h)
<1> DEFINE N == Len(L)
           s == S[r.pos]
<1>1. /\ Place(m, r, q, 1, L, S, C, F, u, h) /\ Lead(m, r, q, 1, L, S, C, F)
      /\ r.run.phase \in {"idle", "pull"} /\ AtEnd(r) /\ Handed(r, x)
      /\ \A z \in Side : /\ F[z] = m => F2[z] = m
                         /\ Own(m, r, z) /\ F2[z] = m => F[z] = m
      /\ \A i \in r.pos..N-1 : F2[Writer(S[i])] = F[Writer(S[i])]
      /\ S[C].undo > 0 /\ F2[S[C].turn] = m => Own(m, r, S[C].turn)
      /\ ~Rests(S[C]) => S[C].remote \/ Actor(S[C]) # S[C].turn
  BY DEF Takes
<1>2. /\ PlaceFields(r, q, 1, L, S, C) /\ Stands(r, s) /\ Pending(m, r, 1, L, S, F)
      /\ Stacked(m, r, L, S, C, F, h) /\ r \in States /\ Log(L, S)
  BY <1>1, PlaceHas DEF Place, Mach
<1>3. /\ N \in Nat /\ C \in Nat /\ C <= N /\ r.pos \in Nat /\ r.pos = Len(r.rec) /\ r.pos <= N
      /\ s \in Stages /\ Shapes(s) /\ r.turn = s.turn /\ r.undo \in Nat /\ Len(r.rec) <= Total(r, q, 1)
      /\ Total(r, q, 1) \in Nat /\ Total(r, q, 1) <= N /\ r.turn \in Side
  BY <1>1, <1>2, StateFields DEF PlaceFields, AtEnd
<1>4. s.undo \in Nat /\ r.undo <= s.undo
  BY <1>2, <1>3, StageFields DEF Stands
<1>5. x.turn = r.turn /\ x.undo = r.undo /\ x.run = r.run /\ x.pos = r.pos
  BY <1>1 DEF Handed
<1> SUFFICES ASSUME F2[r.turn] = m, ~(Own(m, r, r.turn) /\ F[r.turn] = m)
             PROVE  Stacked(m, x, L, S, C, F2, h)
  <2>1. CASE F2[r.turn] = m
    <3>1. CASE Own(m, r, r.turn) /\ F[r.turn] = m
      BY <1>2, <1>5, <3>1 DEF Stacked
    <3> QED
      BY <2>1, <3>1
  <2>2. CASE F2[r.turn] # m
    BY <2>2, <1>5 DEF Stacked
  <2> QED
    BY <2>1, <2>2
<1>6. ~Own(m, r, r.turn)
  BY <1>1, <1>3
<1>7. Actor(s) = s.turn => r.pos = N
  <2> SUFFICES ASSUME Actor(s) = s.turn, r.pos # N PROVE FALSE
    OBVIOUS
  <2>1. r.pos \in r.pos..N-1
    BY <1>3
  <2>2. s.turn # Server
    BY <1>3, SideIs DEF Server
  <2>3. Writer(s) = r.turn
    BY <1>3, <2>2 DEF Writer
  <2>4. F[r.turn] = m
    BY <1>1, <2>1, <2>3
  <2>5. ~OwnAt(m, r, 1, F, r.pos, r.turn)
    BY <1>2, <1>3, <2>1, <2>2 DEF Pending
  <2>6. GapAt(r, 1) = r.pos
    BY <1>3 DEF GapAt
  <2> QED
    BY <2>4, <2>5, <2>6, <1>3 DEF OwnAt
<1>8. r.pos = N => s.undo = 0 /\ (~Rests(s) => s.remote \/ Actor(s) # s.turn)
  <2> SUFFICES ASSUME r.pos = N PROVE s.undo = 0 /\ (~Rests(s) => s.remote \/ Actor(s) # s.turn)
    OBVIOUS
  <2>1. CASE N = C
    BY <2>1, <1>1, <1>3, <1>4, <1>6
  <2>2. CASE N > C
    <3>1. N \in 1..N /\ N - 1 \in C..N-1
      BY <2>2, <1>3
    <3>2. Total(r, q, 1) = N
      BY <1>3
    <3>3. Own(m, r, S[N - 1].turn)
      BY <1>1, <2>2, <3>1, <3>2 DEF Lead
    <3>4. s.undo # 0 \/ ~Rests(s) => s.turn = S[N - 1].turn
      BY <1>2, <3>1, TurnStays
    <3> QED
      BY <3>3, <3>4, <1>3, <1>6
  <2> QED
    BY <2>1, <2>2, <1>3
<1>9. s.undo = 0
  <2>1. CASE Actor(s) = s.turn
    BY <2>1, <1>7, <1>8
  <2>2. CASE Actor(s) # s.turn
    <3>1. ~Rests(s) /\ Head(s.left) # s.turn
      BY <2>2, <1>3, ActorIs
    <3> QED
      BY <3>1, <1>3 DEF Shapes
  <2> QED
    BY <2>1, <2>2
<1>10. r.undo = 0
  BY <1>3, <1>4, <1>9
<1>11. r.run.simul => s.remote \/ Actor(s) # s.turn
  <2> SUFFICES ASSUME r.run.simul, Actor(s) = s.turn PROVE s.remote
    OBVIOUS
  <2>1. ~Rests(s)
    <3>1. Rests(s) => ~r.run.simul
      BY <1>2, NoRunIs DEF Stands
    <3> QED
      BY <3>1
  <2> QED
    BY <2>1, <1>7, <1>8
<1>12. r.pos = N /\ ~r.run.simul => r.undo + S[C].cmds + (IF Rests(s) THEN 0 ELSE 1) <= s.cmds
  <2> SUFFICES ASSUME r.pos = N, ~r.run.simul
               PROVE  r.undo + S[C].cmds + (IF Rests(s) THEN 0 ELSE 1) <= s.cmds
    OBVIOUS
  <2>1. Rests(s)
    <3>1. r.run.phase # "pull"
      BY <1>2 DEF Stands
    <3>2. Idle(r)
      BY <3>1, <1>1 DEF Idle
    <3> QED
      BY <3>2, <1>2 DEF Stands
  <2>2. C \in 0..N /\ N \in 0..N
    BY <1>3
  <2>3. S[C].cmds <= S[N].cmds /\ S[C].cmds \in Nat /\ S[N].cmds \in Nat
    BY <1>2, <2>2, CmdsGrow
  <2> QED
    BY <2>1, <2>3, <1>10
<1> QED
  BY <1>5, <1>9, <1>10, <1>11, <1>12 DEF Stacked

LEMMA TakesMach ==
  ASSUME NEW m, NEW r, NEW q, NEW L, NEW S, NEW C, NEW F, NEW u, NEW h, NEW x, NEW p, NEW F2,
         Takes(m, r, q, L, S, C, F, u, h, x, p, F2)
  PROVE  Mach(m, x, p, 0, L, S, C, F2, h) /\ Total(x, p, 0) = Total(r, q, 1) /\ p \in Seq(Messages)
<1> DEFINE N == Len(L)
           s == S[r.pos]
<1>1. /\ Place(m, r, q, 1, L, S, C, F, u, h)
      /\ r.run.phase \in {"idle", "pull"} /\ AtEnd(r) /\ q # <<>> /\ p = Tail(q) /\ Handed(r, x)
      /\ \A z \in Side : /\ Own(m, x, z) <=> F2[z] = m
                         /\ F[z] = m => F2[z] = m
      /\ \A i \in r.pos..N-1 : F2[Writer(S[i])] = F[Writer(S[i])]
  BY DEF Takes
<1>2. /\ Keeps(r, L) /\ Stands(r, s) /\ Inbox(r, q, 1, L) /\ Sent(r, q, 1, L, C)
      /\ Pending(m, r, 1, L, S, F) /\ PlaceFields(r, q, 1, L, S, C) /\ q \in Seq(Messages)
      /\ r \in States /\ Log(L, S)
  BY <1>1, PlaceHas DEF Place, Mach
<1>3. /\ N \in Nat /\ r.pos \in Nat /\ r.pos = Len(r.rec) /\ Len(r.rec) \in Nat
  BY <1>1, <1>2 DEF PlaceFields, AtEnd
<1>4. /\ x.rec = r.rec /\ x.pos = r.pos /\ x.upto = r.upto /\ x.game = r.game
      /\ x.undo = r.undo /\ x.run = r.run /\ x.turn = r.turn /\ x.inited = r.inited
  BY <1>1 DEF Handed
<1>5. /\ p \in Seq(Messages) /\ Len(q) \in Nat \ {0} /\ Len(p) \in Nat /\ Len(p) + 1 = Len(q)
      /\ \A i \in 1..Len(p) : p[i] = q[i + 1] /\ i + 1 \in 1..Len(q)
  BY <1>1, <1>2, TailIs
<1>6. Keeps(x, L) /\ Stands(x, S[x.pos])
  BY <1>2, <1>4 DEF Keeps, Stands, Idle
<1>7. Total(x, p, 0) = Total(r, q, 1)
  <2> DEFINE a == Len(r.rec)
             b == Len(p)
  <2>1. Total(x, p, 0) = a + b
    BY <1>4 DEF Total
  <2>2. Total(r, q, 1) = a + Len(q) - 1
    BY DEF Total
  <2>3. a \in Nat /\ b \in Nat /\ Len(q) = b + 1
    BY <1>3, <1>5
  <2> HIDE DEF a, b
  <2> QED
    BY <2>1, <2>2, <2>3
<1>8. Inbox(x, p, 0, L)
  <2>1. ASSUME NEW i \in 1..Len(p)
        PROVE  Index(x, 0, i) <= N /\ p[i] = Message("entry", L[Index(x, 0, i)])
    <3>1. p[i] = q[i + 1] /\ i + 1 \in 1..Len(q) /\ i + 1 # 1
      BY <1>5, <2>1
    <3>2. Index(x, 0, i) = Len(r.rec) + i
      BY <1>4 DEF Index
    <3>3. Index(r, 1, i + 1) = Len(r.rec) + i
      <4> DEFINE a == Len(r.rec)
      <4>1. a \in Nat /\ i \in Nat
        BY <1>3
      <4>2. Index(r, 1, i + 1) = IF 1 = 0 \/ i + 1 < 1 THEN a + (i + 1) ELSE a + (i + 1) - 1
        BY DEF Index
      <4> HIDE DEF a
      <4>3. Index(r, 1, i + 1) = a + i
        BY <4>1, <4>2, <2>1
      <4> QED
        BY <4>3 DEF a
    <3> QED
      BY <3>1, <3>2, <3>3, <1>2 DEF Inbox
  <2> QED
    BY <1>5, <2>1 DEF Inbox
<1>9. Sent(x, p, 0, L, C)
  BY <1>2, <1>4, <1>7 DEF Sent
<1>10. \A i \in r.pos..N-1 : \A z : OwnAt(m, r, 1, F, i, z) <=> F[z] = m
  <2>1. GapAt(r, 1) = r.pos
    BY <1>3 DEF GapAt
  <2> QED
    BY <2>1, <1>3 DEF OwnAt
<1>11. \A i, z : OwnAt(m, x, 0, F2, i, z) <=> Own(m, x, z)
  BY DEF OwnAt
<1>12. \A i \in r.pos..N-1 : S[i] \in Stages /\ (Actor(S[i]) # Server => Actor(S[i]) \in Side) /\ S[i].turn \in Side
  <2>1. \A i \in r.pos..N-1 : i \in 0..N
    BY <1>3
  <2> QED
    BY <2>1, <1>2, LogTypes, ActorIs, StageFields
<1>13. Pending(m, x, 0, L, S, F2)
  <2>1. ASSUME NEW i \in r.pos..N-1, Actor(S[i]) # Server PROVE ~OwnAt(m, x, 0, F2, i, Actor(S[i]))
    <3>1. F[Actor(S[i])] # m
      BY <1>2, <1>10, <2>1 DEF Pending
    <3>2. F2[Actor(S[i])] = F[Actor(S[i])]
      BY <1>1, <2>1 DEF Writer
    <3> QED
      BY <3>1, <3>2, <1>1, <1>11, <1>12, <2>1
  <2>2. ASSUME NEW i \in r.pos+1..N-1, Actor(S[i]) = Server PROVE ~OwnAt(m, x, 0, F2, i, S[i].turn)
    <3>0. i \in r.pos..N-1
      BY <1>3
    <3>1. F[S[i].turn] # m
      BY <1>2, <1>10, <2>2, <3>0 DEF Pending
    <3>2. F2[S[i].turn] = F[S[i].turn]
      BY <1>1, <2>2, <3>0 DEF Writer
    <3> QED
      BY <3>0, <3>1, <3>2, <1>1, <1>11, <1>12
  <2>3. r.run.phase # "look"
    BY <1>1
  <2>4. r.run.local /\ ~r.run.required => r.pos = N /\ F2[r.turn] = m
    <3>1. r.turn \in Side
      BY <1>2, StateFields
    <3> QED
      BY <1>1, <1>2, <3>1 DEF Pending
  <2> QED
    BY <1>4, <2>1, <2>2, <2>3, <2>4 DEF Pending
<1>14. Held(m, x, 0, F2, h)
  BY <1>1 DEF Held
<1>15. Stacked(m, x, L, S, C, F2, h)
  BY TakesStacked
<1>16. Mach(m, x, p, 0, L, S, C, F2, h)
  BY <1>6, <1>8, <1>9, <1>13, <1>14, <1>15 DEF Mach
<1> QED
  BY <1>5, <1>7, <1>16

\* y, which has no message about a side, hears or does not hear that sides go from F to F2.
Elsewhere(y, r, q, L, S, C, F, u, h, F2) ==
  /\ Place(y, r, q, 0, L, S, C, F, u, h)
  /\ \A s \in Side : F[s] = y => F2[s] = y

LEMMA ElsewhereMach ==
  ASSUME NEW y, NEW r, NEW q, NEW L, NEW S, NEW C, NEW F, NEW u, NEW h, NEW F2,
         Elsewhere(y, r, q, L, S, C, F, u, h, F2)
  PROVE  Mach(y, r, q, 0, L, S, C, F2, h)
<1>1. Place(y, r, q, 0, L, S, C, F, u, h) /\ \A s \in Side : F[s] = y => F2[s] = y
  BY DEF Elsewhere
<1>2. /\ Keeps(r, L) /\ Stands(r, S[r.pos]) /\ Inbox(r, q, 0, L) /\ Sent(r, q, 0, L, C)
      /\ Pending(y, r, 0, L, S, F) /\ Held(y, r, 0, F, h) /\ Stacked(y, r, L, S, C, F, h)
      /\ Views(y, r, q, 0, F, u, h) /\ r \in States
  BY <1>1 DEF Place, Mach
<1>3. \A s \in Side : Own(y, r, s) => F[s] = y
  BY <1>2 DEF Views
<1>4. r.turn \in Side
  BY <1>2, StateFields
<1>5. Pending(y, r, 0, L, S, F2)
  <2>1. \A i, s : OwnAt(y, r, 0, F2, i, s) <=> OwnAt(y, r, 0, F, i, s)
    BY DEF OwnAt
  <2> QED
    BY <1>1, <1>2, <1>4, <2>1 DEF Pending
<1>6. Held(y, r, 0, F2, h)
  BY <1>1, <1>3 DEF Held
<1>7. Stacked(y, r, L, S, C, F2, h)
  BY <1>2, <1>3, <1>4 DEF Stacked
<1> QED
  BY <1>2, <1>5, <1>6, <1>7 DEF Mach

\* The message comes behind all that is in the inbox.
Notified(y, r, q, L, S, C, F, u, h, F2, msg) ==
  /\ Elsewhere(y, r, q, L, S, C, F, u, h, F2)
  /\ msg \in Messages /\ msg.what \in {"control", "side_drop"}
  /\ \A i \in r.pos..Len(L)-1 : i >= Total(r, q, 0) => F2[Writer(S[i])] # y
NotifiedHas(y, r, q, p, k, L, S, C, h, F2, msg) ==
  /\ Mach(y, r, p, k, L, S, C, F2, h) /\ Total(r, p, k) = Total(r, q, 0) /\ GapAt(r, k) = Total(r, q, 0)
  /\ p \in Seq(Messages) /\ k \in Nat \ {0} /\ k \in 0..Len(p) /\ p[k] = msg

LEMMA NotifiedMach ==
  ASSUME NEW y, NEW r, NEW q, NEW L, NEW S, NEW C, NEW F, NEW u, NEW h, NEW F2, NEW msg,
         Notified(y, r, q, L, S, C, F, u, h, F2, msg), NEW p, p = Append(q, msg), NEW k, k = Len(q) + 1
  PROVE  NotifiedHas(y, r, q, p, k, L, S, C, h, F2, msg)
<1>1. /\ Elsewhere(y, r, q, L, S, C, F, u, h, F2)
      /\ Place(y, r, q, 0, L, S, C, F, u, h) /\ \A s \in Side : F[s] = y => F2[s] = y
      /\ msg \in Messages /\ msg.what \in {"control", "side_drop"}
      /\ \A i \in r.pos..Len(L)-1 : i >= Total(r, q, 0) => F2[Writer(S[i])] # y
  BY DEF Notified, Elsewhere
<1>2. /\ Mach(y, r, q, 0, L, S, C, F2, h) /\ PlaceFields(r, q, 0, L, S, C)
      /\ q \in Seq(Messages) /\ r \in States /\ Log(L, S)
  BY <1>1, ElsewhereMach, PlaceHas DEF Place
<1>3. /\ Keeps(r, L) /\ Stands(r, S[r.pos]) /\ Inbox(r, q, 0, L) /\ Sent(r, q, 0, L, C)
      /\ Pending(y, r, 0, L, S, F2) /\ Held(y, r, 0, F2, h) /\ Stacked(y, r, L, S, C, F2, h)
  BY <1>2 DEF Mach
<1> DEFINE a == Len(r.rec)
           b == Len(q)
<1>4. a \in Nat /\ b \in Nat /\ k = b + 1 /\ Len(L) \in Nat /\ r.pos \in Nat
  BY <1>2 DEF PlaceFields
<1>5. p \in Seq(Messages) /\ Len(p) = b + 1 /\ p[k] = msg /\ \A i \in 1..b : p[i] = q[i]
  BY <1>1, <1>2, <1>4
<1>6. /\ Total(r, q, 0) = a + b
      /\ Total(r, p, k) = IF k = 0 THEN a + Len(p) ELSE a + Len(p) - 1
      /\ GapAt(r, k) = a + k - 1
      /\ \A i : Index(r, 0, i) = a + i
      /\ \A i : i < k => Index(r, k, i) = a + i
  BY DEF Total, GapAt, Index
<1> HIDE DEF a, b
<1>7. Total(r, p, k) = Total(r, q, 0) /\ GapAt(r, k) = Total(r, q, 0) /\ Total(r, q, 0) \in Nat
  BY <1>4, <1>5, <1>6
<1>8. Inbox(r, p, k, L)
  <2>1. ASSUME NEW i \in 1..Len(p), i # k
        PROVE  Index(r, k, i) <= Len(L) /\ p[i] = Message("entry", L[Index(r, k, i)])
    <3>1. i \in 1..b /\ i # 0 /\ i < k
      BY <1>4, <1>5, <2>1
    <3>2. Index(r, 0, i) <= Len(L) /\ q[i] = Message("entry", L[Index(r, 0, i)])
      BY <1>3, <3>1 DEF Inbox, b
    <3> QED
      BY <3>1, <3>2, <1>5, <1>6
  <2> QED
    BY <1>1, <1>4, <1>5, <2>1 DEF Inbox
<1>9. Sent(r, p, k, L, C)
  BY <1>3, <1>7 DEF Sent
<1>10. Pending(y, r, k, L, S, F2)
  <2>1. \A i, s : i >= Total(r, q, 0) => (OwnAt(y, r, k, F2, i, s) <=> F2[s] = y)
    BY <1>4, <1>7 DEF OwnAt
  <2>2. \A i, s : ~(i >= Total(r, q, 0)) => (OwnAt(y, r, k, F2, i, s) <=> OwnAt(y, r, 0, F2, i, s))
    BY <1>7 DEF OwnAt
  <2>3. ASSUME NEW i \in r.pos..Len(L)-1, Actor(S[i]) # Server PROVE ~OwnAt(y, r, k, F2, i, Actor(S[i]))
    <3>1. ~OwnAt(y, r, 0, F2, i, Actor(S[i]))
      BY <1>3, <2>3 DEF Pending
    <3>2. i >= Total(r, q, 0) => F2[Actor(S[i])] # y
      BY <1>1, <2>3 DEF Writer
    <3> QED
      BY <3>1, <3>2, <2>1, <2>2
  <2>4. ASSUME NEW i \in r.pos+1..Len(L)-1, Actor(S[i]) = Server PROVE ~OwnAt(y, r, k, F2, i, S[i].turn)
    <3>0. i \in r.pos..Len(L)-1
      BY <1>4
    <3>1. ~OwnAt(y, r, 0, F2, i, S[i].turn)
      BY <1>3, <2>4 DEF Pending
    <3>2. i >= Total(r, q, 0) => F2[S[i].turn] # y
      BY <1>1, <2>4, <3>0 DEF Writer
    <3> QED
      BY <3>1, <3>2, <2>1, <2>2
  <2> QED
    BY <1>3, <2>3, <2>4 DEF Pending
<1>11. Held(y, r, k, F2, h)
  <2>1. \A s \in Side : Own(y, r, s) => F2[s] = y
    <3>1. \A s \in Side : Own(y, r, s) => F[s] = y
      BY <1>1 DEF Place, Views
    <3> QED
      BY <1>1, <3>1
  <2> QED
    BY <2>1 DEF Held
<1>12. Mach(y, r, p, k, L, S, C, F2, h)
  BY <1>3, <1>8, <1>9, <1>10, <1>11 DEF Mach
<1>13. k \in Nat \ {0} /\ k \in 0..Len(p)
  BY <1>4, <1>5
<1> QED
  BY <1>5, <1>7, <1>12, <1>13 DEF NotifiedHas

\* What y has not been sent yet was written by another, who is in the game.
LEMMA Later ==
  ASSUME NEW t, NEW q, NEW n, NEW u, NEW h, NEW L, NEW S, NEW C, NEW F, NEW g,
         World(t, q, n, u, h, L, S, C, F, g), NEW y \in u,
         NEW i \in Nat, i < Len(L), i >= Total(t[y], q[y], g[y])
  PROVE  \E w \in u \ {y} : /\ F[Writer(S[i])] = w /\ Ahead(w, t, q, L, S, C, F, g, u) /\ Writer(S[i]) = S[i].turn
                            /\ S[i].turn \in Side
<1>1. /\ Total(t[y], q[y], g[y]) \in {C, Len(L)} /\ C \in Nat /\ Len(L) \in Nat /\ Log(L, S)
  BY Members
<1>2. Total(t[y], q[y], g[y]) = C /\ C < Len(L) /\ i \in C..Len(L)-1 /\ i \in 0..Len(L)
  BY <1>1
<1>3. PICK w \in u : Ahead(w, t, q, L, S, C, F, g, u)
  BY <1>1, <1>2 DEF World, Leads
<1>4. w # y
  BY <1>1, <1>2, <1>3 DEF Ahead
<1>5. S[i].turn \in Side /\ S[i].turn # Server
  BY <1>1, <1>2, LogTypes, StageFields, SideIs DEF Server
<1>6. F[S[i].turn] = w /\ Actor(S[i]) = S[i].turn
  BY <1>2, <1>3 DEF Ahead
<1> QED
  BY <1>3, <1>4, <1>5, <1>6 DEF Writer

\* The sides go from F to F2; nothing is written.
Hands(t, q, n, u, h, L, S, C, F, g, t2, q2, g2, F2) ==
  /\ World(t, q, n, u, h, L, S, C, F, g)
  /\ t2 \in [Machine -> States] /\ q2 \in [Machine -> Seq(Messages)] /\ g2 \in [Machine -> Nat]
  /\ Present(F2, u, h)
  /\ \A s \in Side : F[s] \in u => F2[s] = F[s]
  /\ \A y \in u : /\ Mach(y, t2[y], q2[y], g2[y], L, S, C, F2, h)
                  /\ Total(t2[y], q2[y], g2[y]) = Total(t[y], q[y], g[y])
                  /\ Dropped(y, t2, q2, L, S, F2, g2, u, h)
                  /\ Views(y, t2[y], q2[y], g2[y], F2, u, h)
                  /\ \A s \in Side : Own(y, t[y], s) /\ F[s] = y => Own(y, t2[y], s)

LEMMA HandsWorld ==
  ASSUME NEW t, NEW q, NEW n, NEW u, NEW h, NEW L, NEW S, NEW C, NEW F, NEW g,
         NEW t2, NEW q2, NEW g2, NEW F2, Hands(t, q, n, u, h, L, S, C, F, g, t2, q2, g2, F2)
  PROVE  World(t2, q2, n, u, h, L, S, C, F2, g2)
<1>1. /\ World(t, q, n, u, h, L, S, C, F, g)
      /\ t2 \in [Machine -> States] /\ q2 \in [Machine -> Seq(Messages)] /\ g2 \in [Machine -> Nat]
      /\ Present(F2, u, h)
      /\ \A s \in Side : F[s] \in u => F2[s] = F[s]
      /\ \A y \in u : /\ Mach(y, t2[y], q2[y], g2[y], L, S, C, F2, h)
                      /\ Total(t2[y], q2[y], g2[y]) = Total(t[y], q[y], g[y])
                      /\ Dropped(y, t2, q2, L, S, F2, g2, u, h)
                      /\ Views(y, t2[y], q2[y], g2[y], F2, u, h)
                      /\ \A s \in Side : Own(y, t[y], s) /\ F[s] = y => Own(y, t2[y], s)
  BY DEF Hands
<1>2. /\ Log(L, S) /\ n = S[Len(L)].seeds
      /\ Leads(t, q, L, S, C, F, g, u) /\ Settled(t, S, C, F, u, h)
  BY <1>1 DEF World
<1>3. C \in 0..Len(L) /\ Len(L) \in Nat /\ \A i \in 0..Len(L) : S[i].turn \in Side
  BY <1>2, LogTypes, StageFields DEF Leads
<1>4. Leads(t2, q2, L, S, C, F2, g2, u)
  <2>1. ASSUME NEW w \in u, Ahead(w, t, q, L, S, C, F, g, u) PROVE Ahead(w, t2, q2, L, S, C, F2, g2, u)
    <3>1. /\ Total(t[w], q[w], g[w]) = Len(L)
          /\ \A y \in u \ {w} : Total(t[y], q[y], g[y]) = C
          /\ \A i \in C..Len(L)-1 : /\ Own(w, t[w], S[i].turn) /\ F[S[i].turn] = w
                                    /\ Actor(S[i]) = S[i].turn
      BY <2>1 DEF Ahead
    <3>2. \A i \in C..Len(L)-1 : i \in 0..Len(L)
      BY <1>3
    <3>3. \A i \in C..Len(L)-1 : /\ Own(w, t2[w], S[i].turn) /\ F2[S[i].turn] = w
                                 /\ Actor(S[i]) = S[i].turn
      BY <1>1, <1>3, <2>1, <3>1, <3>2
    <3> QED
      BY <1>1, <2>1, <3>1, <3>3 DEF Ahead
  <2> QED
    BY <1>2, <2>1 DEF Leads
<1>5. Settled(t2, S, C, F2, u, h)
  <2>1. S[C].turn \in Side
    BY <1>3
  <2>2. /\ S[C].undo > 0 => /\ F[S[C].turn] \in u /\ F[S[C].turn] \in cleared \cup {h}
                            /\ Own(F[S[C].turn], t[F[S[C].turn]], S[C].turn)
        /\ ~Rests(S[C]) => S[C].remote \/ Actor(S[C]) # S[C].turn
    BY <1>2 DEF Settled
  <2>3. S[C].undo > 0 => /\ F2[S[C].turn] = F[S[C].turn] /\ F2[S[C].turn] \in u
                         /\ F2[S[C].turn] \in cleared \cup {h}
                         /\ Own(F2[S[C].turn], t2[F2[S[C].turn]], S[C].turn)
    BY <1>1, <2>1, <2>2
  <2> QED
    BY <2>2, <2>3 DEF Settled
<1> QED
  BY <1>1, <1>2, <1>4, <1>5 DEF World

\* What m reads about a side it takes, and the world goes on.
LEMMA HeadGap ==
  ASSUME NEW r, NEW q \in Seq(Messages), NEW k \in Nat, NEW L, Inbox(r, q, k, L), q # <<>>, Head(q).what # "entry",
         L \in Seq(Entries)
  PROVE  k = 1 /\ Head(q) = q[1]
<1>1. Len(q) \in Nat \ {0} /\ Head(q) = q[1]
  BY HeadTail
<1>2. k # 1 => q[1] = Message("entry", L[Index(r, k, 1)])
  BY <1>1 DEF Inbox
<1>3. \A e : Message("entry", e).what = "entry"
  BY DEF Message
<1> QED
  BY <1>1, <1>2, <1>3

\* m reads who has side a, and has it in x.
Learns(m, L, S, C, F, g, a, x) ==
  /\ Here(m, L, S, C, F, g) /\ Ready(m) /\ Next1(m).what = "control"
  /\ a = Next1(m).body.side /\ Handed(st[m], x)
  /\ x.owner = [st[m].owner EXCEPT ![a] = Next1(m).body.owner]
  /\ x.mode = [st[m].mode EXCEPT ![a] = "human"]
LearnsHas(m, L, S, C, F, g, a, x) ==
  /\ Takes(m, st[m], inbox[m], L, S, C, F, up, host, x, Tail(inbox[m]), F) /\ g[m] = 1
  /\ a \in Side /\ Home[a] \notin up
  /\ x.owner \in [Side -> Machine] /\ \A s \in Side : s # a => x.owner[s] = st[m].owner[s]
  /\ F[a] \in up

LEMMA ControlTakes ==
  ASSUME NEW m, NEW L, NEW S, NEW C, NEW F, NEW g, NEW a, NEW x, Learns(m, L, S, C, F, g, a, x)
  PROVE  LearnsHas(m, L, S, C, F, g, a, x)
<1> DEFINE r == st[m]
           q == inbox[m]
<1>0. /\ Here(m, L, S, C, F, g) /\ Ready(m) /\ Next1(m).what = "control"
      /\ a = Head(q).body.side /\ Handed(r, x)
      /\ x.owner = [r.owner EXCEPT ![a] = Head(q).body.owner]
  BY DEF Learns, Next1
<1>1. /\ World(st, inbox, seeds, up, host, L, S, C, F, g) /\ m \in up
      /\ Place(m, r, q, g[m], L, S, C, F, up, host) /\ Lead(m, r, q, g[m], L, S, C, F)
      /\ r \in States
  BY <1>0 DEF Here
<1>2. /\ r.run.phase \in {"idle", "pull"} /\ AtEnd(r) /\ q # <<>> /\ Head(q).what = "control"
  BY <1>0 DEF Ready, Next1
<1>3. /\ q \in Seq(Messages) /\ g[m] \in Nat /\ Inbox(r, q, g[m], L) /\ Views(m, r, q, g[m], F, up, host)
      /\ L \in Seq(Entries) /\ F \in [Side -> Machine] /\ Dropped(m, st, inbox, L, S, F, g, up, host) /\ C \in 0..Len(L)
      /\ Settled(st, S, C, F, up, host)
  <2>1. /\ q \in Seq(Messages) /\ Views(m, r, q, g[m], F, up, host) /\ Mach(m, r, q, g[m], L, S, C, F, host)
        /\ Log(L, S) /\ C \in 0..Len(L) /\ F \in [Side -> Machine]
    BY <1>1 DEF Place
  <2>2. L \in Seq(Entries)
    BY <2>1, LogTypes
  <2>3. Inbox(r, q, g[m], L)
    BY <2>1 DEF Mach
  <2>4. g[m] \in Nat /\ Dropped(m, st, inbox, L, S, F, g, up, host)
    BY <1>1, Members
  <2>5. Settled(st, S, C, F, up, host)
    BY <1>1 DEF World
  <2> QED
    BY <2>1, <2>2, <2>3, <2>4, <2>5
<1>4. g[m] = 1 /\ Head(q) = q[1]
  BY <1>2, <1>3, HeadGap
<1>5. a \in Side /\ Home[a] \notin up /\ Head(q).body.owner = F[a] /\ F[a] \in up
  BY <1>0, <1>2, <1>3, <1>4 DEF Dropped
<1>6. r.owner \in [Side -> Machine]
  BY <1>1, StateFields
<1>7. x.owner \in [Side -> Machine] /\ x.owner[a] = F[a] /\ \A s \in Side : s # a => x.owner[s] = r.owner[s]
  BY <1>0, <1>3, <1>5, <1>6
<1>8. \A s \in Side : Own(m, x, s) <=> F[s] = m
  <2>1. \A s \in Side : s # a => (Own(m, r, s) <=> F[s] = m)
    BY <1>0, <1>3, <1>4 DEF Views
  <2> QED
    BY <1>7, <2>1 DEF Own
<1>9. S[C].undo > 0 /\ F[S[C].turn] = m => Own(m, r, S[C].turn)
  BY <1>3 DEF Settled
<1>10. ~Rests(S[C]) => S[C].remote \/ Actor(S[C]) # S[C].turn
  BY <1>3 DEF Settled
<1>11. Takes(m, r, q, L, S, C, F, up, host, x, Tail(q), F)
  BY <1>0, <1>1, <1>2, <1>3, <1>4, <1>8, <1>9, <1>10 DEF Takes
<1> QED
  BY <1>4, <1>5, <1>7, <1>11 DEF LearnsHas

\* What changes with the hands.
Hand(r, a, o, md, ex) == [r EXCEPT !.owner[a] = o, !.mode[a] = md, !.expect = ex]

HandHas(r, a, o, md, x) ==
  /\ Handed(r, x) /\ x.owner = [r.owner EXCEPT ![a] = o] /\ x.mode = [r.mode EXCEPT ![a] = md]

LEMMA HandedIs ==
  ASSUME NEW r \in States, NEW a \in Side, NEW o \in Machine, NEW md \in {"human", "ai", "idle"},
         NEW ex \in Side \cup {None}, NEW x, x = Hand(r, a, o, md, ex)
  PROVE  HandHas(r, a, o, md, x) /\ x.expect = ex
<1>1. /\ r.owner \in [Side -> Machine] /\ r.mode \in [Side -> {"human", "ai", "idle"}]
  BY StateFields
<1> DEFINE ow == [r.owner EXCEPT ![a] = o]
           mo == [r.mode EXCEPT ![a] = md]
<1>2. ow \in [Side -> Machine] /\ mo \in [Side -> {"human", "ai", "idle"}]
  BY <1>1
<1>3. x = [r EXCEPT !.owner = ow, !.mode = mo, !.expect = ex]
  BY Zenon DEF Hand
<1> HIDE DEF ow, mo
<1>4. x \in States
  BY <1>2, <1>3, Zenon DEF States
<1>5. /\ x.rec = r.rec /\ x.pos = r.pos /\ x.upto = r.upto /\ x.game = r.game
      /\ x.undo = r.undo /\ x.run = r.run /\ x.turn = r.turn /\ x.inited = r.inited
  BY <1>3, Zenon DEF States
<1>6. x.owner = ow /\ x.mode = mo /\ x.expect = ex
  BY <1>3, Zenon DEF States
<1>7. Handed(r, x)
  BY <1>4, <1>5 DEF Handed
<1> QED
  BY <1>6, <1>7 DEF ow, mo, HandHas

LEMMA HandedSame ==
  ASSUME NEW r \in States, NEW a \in Side, NEW o \in Machine, NEW md \in {"human", "ai", "idle"},
         NEW x, x = [r EXCEPT !.owner[a] = o, !.mode[a] = md]
  PROVE  HandHas(r, a, o, md, x) /\ x.expect = r.expect
<1>1. /\ r.owner \in [Side -> Machine] /\ r.mode \in [Side -> {"human", "ai", "idle"}]
  BY StateFields
<1> DEFINE ow == [r.owner EXCEPT ![a] = o]
           mo == [r.mode EXCEPT ![a] = md]
<1>2. ow \in [Side -> Machine] /\ mo \in [Side -> {"human", "ai", "idle"}]
  BY <1>1
<1>3. x = [r EXCEPT !.owner = ow, !.mode = mo]
  BY Zenon
<1> HIDE DEF ow, mo
<1>4. x \in States
  BY <1>2, <1>3, Zenon DEF States
<1>5. /\ x.rec = r.rec /\ x.pos = r.pos /\ x.upto = r.upto /\ x.game = r.game
      /\ x.undo = r.undo /\ x.run = r.run /\ x.turn = r.turn /\ x.inited = r.inited
  BY <1>3, Zenon DEF States
<1>6. x.owner = ow /\ x.mode = mo /\ x.expect = r.expect
  BY <1>3, Zenon DEF States
<1>7. Handed(r, x)
  BY <1>4, <1>5 DEF Handed
<1> QED
  BY <1>6, <1>7 DEF ow, mo, HandHas

\* m, who has read, gives the first command of a turn, or does not.
LEMMA InitWorld ==
  ASSUME NEW t, NEW q, NEW n, NEW u, NEW h, NEW L, NEW S, NEW C, NEW F, NEW g,
         World(t, q, n, u, h, L, S, C, F, g), NEW m \in u, g[m] = 0, AtEnd(t[m]),
         NEW s, MaybeInit(m, t[m], s)
  PROVE  \E L2, S2, g2 : World([t EXCEPT ![m] = s], q, n, u, h, L2, S2, C, F, g2)
<1> DEFINE r == t[m]
<1>1. Place(m, r, q[m], g[m], L, S, C, F, u, h) /\ t \in [Machine -> States] /\ m \in Machine
  BY PlaceIs, Members DEF World
<1>2. CASE ~r.inited /\ r.owner[r.turn] = m
  <2>1. PICK script \in Scripts["init_side"] : s = Recorded(m, r, "init_side", script)
    BY <1>2 DEF MaybeInit
  <2>2. PlaceFields(r, q[m], g[m], L, S, C)
    BY <1>1, PlaceHas
  <2>3. Stands(r, S[r.pos]) /\ Shapes(S[r.pos])
    BY <2>2 DEF PlaceFields
  <2>4. Idle(r)
    BY <1>2, <2>3 DEF Stands, Shapes
  <2>5. \A z \in Side : Own(m, r, z) <=> F[z] = m
    BY <1>1 DEF Place, Views
  <2>6. Secure(m, r, F)
    BY <2>5 DEF Secure
  <2>7. May(m, r, F, "init_side", script)
    BY <1>2, <2>1, <2>4, <2>6, KindsAre DEF May, Own
  <2> HIDE DEF r
  <2>8. \E L2, S2, g2 : World([t EXCEPT ![m] = s], q, n, u, h, L2, S2, C, F, g2)
    BY <2>1, <2>7, RecordWorld DEF r
  <2> QED
    BY <2>8
<1>3. CASE ~(~r.inited /\ r.owner[r.turn] = m)
  <2>1. s = t[m]
    BY <1>3 DEF MaybeInit
  <2>2. [t EXCEPT ![m] = s] = t
    BY <2>1, <1>1
  <2> QED
    BY <2>2
<1> QED
  BY <1>2, <1>3

\* The world where m has read who has a side.
LEMMA ControlWorld ==
  ASSUME NEW m, NEW L, NEW S, NEW C, NEW F, NEW g, NEW a, NEW x, Learns(m, L, S, C, F, g, a, x),
         NEW t2, t2 = [st EXCEPT ![m] = x], NEW q2, q2 = Rest(m), NEW g2, g2 = [g EXCEPT ![m] = 0]
  PROVE  World(t2, q2, seeds, up, host, L, S, C, F, g2) /\ g2[m] = 0
<1> DEFINE r == st[m]
           q == inbox[m]
<1>1. /\ World(st, inbox, seeds, up, host, L, S, C, F, g) /\ m \in up /\ m \in Machine
      /\ st \in [Machine -> States] /\ inbox \in [Machine -> Seq(Messages)]
  BY DEF Here, Learns
<1>2. g \in [Machine -> Nat] /\ Present(F, up, host)
  BY <1>1 DEF World
<1>3. /\ Takes(m, r, q, L, S, C, F, up, host, x, Tail(q), F) /\ g[m] = 1 /\ a \in Side /\ Home[a] \notin up
      /\ \A s \in Side : s # a => x.owner[s] = r.owner[s]
  BY ControlTakes DEF LearnsHas
<1>4. Mach(m, x, Tail(q), 0, L, S, C, F, host) /\ Total(x, Tail(q), 0) = Total(r, q, 1) /\ Tail(q) \in Seq(Messages)
  <2> DEFINE p == Tail(q)
  <2>1. Takes(m, r, q, L, S, C, F, up, host, x, p, F)
    BY <1>3
  <2> HIDE DEF p, r, q
  <2> QED
    BY <2>1, TakesMach DEF p
<1>5. x \in States /\ \A s \in Side : Own(m, x, s) <=> F[s] = m
  BY <1>3 DEF Takes, Handed
<1>6. /\ t2 \in [Machine -> States] /\ q2 \in [Machine -> Seq(Messages)] /\ g2 \in [Machine -> Nat]
      /\ t2[m] = x /\ q2[m] = Tail(q) /\ g2[m] = 0
      /\ \A y \in Machine : y # m => t2[y] = st[y] /\ q2[y] = inbox[y] /\ g2[y] = g[y]
  BY <1>1, <1>2, <1>4, <1>5 DEF Rest
<1>7. Views(m, x, Tail(q), 0, F, up, host)
  <2>0. x.mode = [r.mode EXCEPT ![a] = "human"]
    BY DEF Learns
  <2>1. Views(m, r, q, g[m], F, up, host) /\ r.mode \in [Side -> {"human", "ai", "idle"}]
    BY <1>1, Members, StateFields
  <2>2. \A s \in Side : Home[s] \in up => x.owner[s] = Home[s]
    BY <1>3, <2>1 DEF Views
  <2>3. m # host => \A s \in Side : x.mode[s] # "ai"
    BY <2>0, <2>1 DEF Views
  <2> QED
    BY <1>5, <2>2, <2>3 DEF Views
<1>8. ASSUME NEW y \in up
      PROVE  /\ Mach(y, t2[y], q2[y], g2[y], L, S, C, F, host)
             /\ Total(t2[y], q2[y], g2[y]) = Total(st[y], inbox[y], g[y])
             /\ Dropped(y, t2, q2, L, S, F, g2, up, host)
             /\ Views(y, t2[y], q2[y], g2[y], F, up, host)
             /\ \A s \in Side : Own(y, st[y], s) /\ F[s] = y => Own(y, t2[y], s)
  <2>1. CASE y = m
    <3>1. Dropped(m, t2, q2, L, S, F, g2, up, host)
      BY <1>6 DEF Dropped
    <3> QED
      BY <2>1, <3>1, <1>3, <1>4, <1>5, <1>6, <1>7
  <2>2. CASE y # m
    <3>1. /\ y \in Machine /\ Mach(y, st[y], inbox[y], g[y], L, S, C, F, host)
          /\ Dropped(y, st, inbox, L, S, F, g, up, host)
          /\ Views(y, st[y], inbox[y], g[y], F, up, host)
      BY <1>1, <1>8, Members
    <3>2. t2[y] = st[y] /\ q2[y] = inbox[y] /\ g2[y] = g[y]
      BY <1>6, <2>2, <3>1
    <3>3. Dropped(y, t2, q2, L, S, F, g2, up, host)
      <4>1. g[y] # 0 => inbox[y][g[y]].what # "side_drop"
        BY <3>1, <2>2, <1>1, <1>3 DEF Dropped
      <4> QED
        BY <3>1, <3>2, <4>1 DEF Dropped
    <3> QED
      BY <3>1, <3>2, <3>3 DEF Own
  <2> QED
    BY <2>1, <2>2
<1>9. Hands(st, inbox, seeds, up, host, L, S, C, F, g, t2, q2, g2, F)
  BY <1>1, <1>2, <1>6, <1>8 DEF Hands
<1>10. World(t2, q2, seeds, up, host, L, S, C, F, g2)
  BY <1>9, HandsWorld
<1> QED
  BY <1>3, <1>6, <1>10

LEMMA ReceiveControlStep ==
  ASSUME IInv, NEW m \in Machine, ReceiveControl(m)
  PROVE  IInv'
<1> DEFINE cmd == Next1(m).body
           x == [st[m] EXCEPT !.owner[cmd.side] = cmd.owner, !.mode[cmd.side] = "human",
                              !.expect = IF cmd.side = st[m].turn THEN None ELSE @]
           ex == IF cmd.side = st[m].turn THEN None ELSE st[m].expect
           t2 == [st EXCEPT ![m] = x]
           q2 == Rest(m)
<1>1. /\ Ready(m) /\ Next1(m).what = "control"
      /\ \E s \in {x} \cup {Recorded(m, x, "init_side", q) : q \in Scripts["init_side"]} :
            MaybeInit(m, x, s) /\ st' = [st EXCEPT ![m] = s]
      /\ inbox' = Rest(m) /\ UNCHANGED <<seeds, up, host, error, cleared>>
  BY DEF ReceiveControl
<1>2. m \in up /\ AtEnd(st[m])
  BY <1>1 DEF Ready
<1>3. PICK L, S, C, F, g : Here(m, L, S, C, F, g)
  BY <1>2, HereIs
<1>4. st[m] \in States /\ st \in [Machine -> States] /\ m \in Machine /\ g \in [Machine -> Nat]
  BY <1>3 DEF Here, World
<1>5. cmd.side \in Side /\ cmd.owner \in Machine
  <2> DEFINE q == inbox[m]
  <2>1. Dropped(m, st, inbox, L, S, F, g, up, host) /\ q \in Seq(Messages) /\ g[m] \in Nat /\ up \subseteq Machine
    BY <1>2, <1>3, Members DEF Here, World, Present
  <2>2. L \in Seq(Entries) /\ Inbox(st[m], q, g[m], L)
    BY <1>2, <1>3, Members, LogTypes DEF Here, Mach
  <2>3. q # <<>> /\ Head(q).what # "entry"
    BY <1>1 DEF Ready, Next1
  <2>4. g[m] = 1 /\ Head(q) = q[1]
    BY <2>1, <2>2, <2>3, HeadGap
  <2> QED
    BY <1>1, <2>1, <2>4 DEF Dropped, Next1
<1>6. ex \in Side \cup {None}
  BY <1>4, StateFields
<1>7. x = [st[m] EXCEPT !.owner[cmd.side] = cmd.owner, !.mode[cmd.side] = "human", !.expect = ex]
  BY <1>4, Zenon DEF States
<1> HIDE DEF x, ex
<1>8. Learns(m, L, S, C, F, g, cmd.side, x)
  <2> DEFINE r == st[m]
             a == cmd.side
             o == cmd.owner
             md == "human"
  <2>1. r \in States /\ a \in Side /\ o \in Machine /\ md \in {"human", "ai", "idle"}
    BY <1>4, <1>5
  <2>2. x = Hand(r, a, o, md, ex)
    BY <1>7 DEF Hand
  <2> HIDE DEF r, a, o, md, cmd
  <2>3. HandHas(r, a, o, md, x)
    BY <1>6, <2>1, <2>2, HandedIs
  <2> QED
    BY <1>1, <1>3, <2>3 DEF HandHas, Learns, r, a, o, md, cmd
<1> DEFINE g2 == [g EXCEPT ![m] = 0]
<1>9. World(t2, q2, seeds, up, host, L, S, C, F, g2) /\ g2[m] = 0
  <2> HIDE DEF t2, q2, g2
  <2>1. t2 = [st EXCEPT ![m] = x] /\ q2 = Rest(m) /\ g2 = [g EXCEPT ![m] = 0]
    BY DEF t2, q2, g2
  <2> QED
    BY <1>8, <2>1, ControlWorld
<1>10. t2[m] = x /\ AtEnd(x)
  BY <1>2, <1>4, <1>8 DEF Learns, Handed, AtEnd
<1>11. PICK s : MaybeInit(m, x, s) /\ st' = [st EXCEPT ![m] = s]
  BY <1>1
<1>12. \E L2, S2, gg : World([t2 EXCEPT ![m] = s], q2, seeds, up, host, L2, S2, C, F, gg)
  <2> HIDE DEF t2, q2, g2
  <2> QED
    BY <1>2, <1>9, <1>10, <1>11, InitWorld
<1>13. st' = [t2 EXCEPT ![m] = s]
  BY <1>4, <1>11
<1>14. inbox' = q2
  BY <1>1
<1>15. error = {} /\ host \in Hosts
  BY DEF IInv
<1> HIDE DEF t2, q2, g2, cmd
<1>16. \E L2, S2, gg : World(st', inbox', seeds', up', host', L2, S2, C, F, gg)
  <2>1. seeds' = seeds /\ up' = up /\ host' = host
    BY <1>1
  <2> QED
    BY <2>1, <1>12, <1>13, <1>14
<1>17. error' = {} /\ host' \in Hosts /\ cleared' = cleared
  BY <1>1, <1>15
<1> QED
  BY <1>16, <1>17, WorldNow

-----------------------------------------------------------------------------
(* The host m reads that side a was dropped, and lets o have it.                   *)

Drops(m, L, S, C, F, g, a, o, F2) ==
  /\ Here(m, L, S, C, F, g) /\ Ready(m) /\ Next1(m).what = "side_drop" /\ a = Next1(m).body.side
  /\ o \in up /\ F2 = [F EXCEPT ![a] = o]
DropsHas(m, L, S, C, F, g, a, o, F2) ==
  /\ g[m] = 1 /\ m = host /\ a \in Side /\ Home[a] \notin up /\ F[a] = Home[a]
  /\ \A y \in up : (y # m => g[y] = 0) /\ st[y].owner[a] = Home[a]
  /\ \A i \in st[m].pos..Len(L)-1 : Writer(S[i]) # a
  /\ inbox[m] # <<>> /\ inbox[m][1].what = "side_drop"
  /\ F2 \in [Side -> Machine] /\ F2[a] = o /\ \A s \in Side : s # a => F2[s] = F[s]
  /\ Present(F2, up, host) /\ \A s \in Side : F[s] \in up => s # a /\ F2[s] = F[s]

LEMMA DropsIs ==
  ASSUME NEW m, NEW L, NEW S, NEW C, NEW F, NEW g, NEW a, NEW o, NEW F2, Drops(m, L, S, C, F, g, a, o, F2)
  PROVE  DropsHas(m, L, S, C, F, g, a, o, F2)
<1> DEFINE r == st[m]
           q == inbox[m]
<1>1. /\ Here(m, L, S, C, F, g) /\ Ready(m) /\ Head(q).what = "side_drop" /\ a = Head(q).body.side
      /\ o \in up /\ F2 = [F EXCEPT ![a] = o]
  BY DEF Drops, Next1
<1>2. World(st, inbox, seeds, up, host, L, S, C, F, g) /\ m \in up
  BY <1>1 DEF Here
<1>3. /\ q \in Seq(Messages) /\ g[m] \in Nat /\ Dropped(m, st, inbox, L, S, F, g, up, host)
      /\ Mach(m, r, q, g[m], L, S, C, F, host) /\ Log(L, S) /\ F \in [Side -> Machine] /\ r \in States
  BY <1>2, Members
<1>4. Inbox(r, q, g[m], L) /\ L \in Seq(Entries)
  BY <1>3, LogTypes DEF Mach
<1>5. AtEnd(r) /\ q # <<>>
  BY <1>1 DEF Ready
<1>6. Head(q).what # "entry"
  BY <1>1
<1>7. g[m] = 1 /\ Head(q) = q[1]
  <2> HIDE DEF q, r
  <2> QED
    BY <1>3, <1>4, <1>5, <1>6, HeadGap
<1>8. /\ a \in Side /\ Home[a] \notin up /\ m = host /\ F[a] = Home[a]
      /\ \A y \in up : (y # m => g[y] = 0) /\ st[y].owner[a] = Home[a]
      /\ \A i \in GapAt(r, g[m])..Len(L)-1 : Writer(S[i]) # a
  BY <1>1, <1>3, <1>7 DEF Dropped
<1>9. GapAt(r, 1) = r.pos
  <2>1. Len(r.rec) = r.pos /\ r.pos \in Nat
    BY <1>3, <1>5, StateFields DEF AtEnd
  <2> QED
    BY <2>1 DEF GapAt
<1>10. Present(F, up, host)
  BY <1>2 DEF World
<1>11. o \in Machine
  BY <1>1, <1>10 DEF Present
<1>12. F2 \in [Side -> Machine] /\ F2[a] = o /\ \A s \in Side : s # a => F2[s] = F[s]
  BY <1>1, <1>3, <1>8, <1>11
<1>13. \A s \in Side : F[s] \in up => s # a /\ F2[s] = F[s]
  BY <1>8, <1>12
<1>14. Present(F2, up, host)
  BY <1>1, <1>8, <1>10, <1>12 DEF Present
<1> QED
  BY <1>1, <1>5, <1>7, <1>8, <1>9, <1>12, <1>13, <1>14 DEF DropsHas

LEMMA ControlIs ==
  ASSUME NEW a \in Side, NEW o \in Machine
  PROVE  /\ Control(a, o) \in Messages /\ Control(a, o).what = "control"
         /\ Control(a, o).body.side = a /\ Control(a, o).body.owner = o
<1> DEFINE b == [side |-> a, owner |-> o]
<1>1. b \in [side : Side, owner : Machine] /\ b.side = a /\ b.owner = o
  OBVIOUS
<1> HIDE DEF b
<1>2. Control(a, o) = Message("control", b)
  BY DEF Control, b
<1>3. Message("control", b).what = "control" /\ Message("control", b).body = b
  BY DEF Message
<1>4. Message("control", b) \in Messages
  BY <1>1 DEF Message, Messages
<1> QED
  BY <1>1, <1>2, <1>3, <1>4

\* Another machine y in the game, behind that.
OtherHas(y, p, k, L, S, C, a, o, F2) ==
  /\ Mach(y, st[y], p, k, L, S, C, F2, host) /\ Total(st[y], p, k) = Total(st[y], inbox[y], 0)
  /\ Views(y, st[y], p, k, F2, up, host) /\ (k # 0 => p[k] = Control(a, o))
  /\ p \in Seq(Messages) /\ k \in Nat

LEMMA OtherElsewhere ==
  ASSUME NEW m, NEW L, NEW S, NEW C, NEW F, NEW g, NEW a, NEW o, NEW F2, Drops(m, L, S, C, F, g, a, o, F2),
         NEW y \in up, y # m
  PROVE  /\ Elsewhere(y, st[y], inbox[y], L, S, C, F, up, host, F2)
         /\ \A s \in Side : s # a => (Own(y, st[y], s) <=> F2[s] = y)
         /\ ~Own(y, st[y], a)
<1>1. DropsHas(m, L, S, C, F, g, a, o, F2) /\ World(st, inbox, seeds, up, host, L, S, C, F, g)
  BY DropsIs DEF Drops, Here
<1>2. Place(y, st[y], inbox[y], 0, L, S, C, F, up, host)
  <2>1. g[y] = 0
    BY <1>1 DEF DropsHas
  <2> QED
    BY <1>1, <2>1, PlaceIs
<1>3. \A s \in Side : F[s] = y => F2[s] = y
  BY <1>1 DEF DropsHas
<1>4. \A s \in Side : Own(y, st[y], s) <=> F[s] = y
  BY <1>2 DEF Place, Views
<1>5. ~Own(y, st[y], a)
  BY <1>1 DEF DropsHas, Own
<1>6. \A s \in Side : s # a => F2[s] = F[s]
  BY <1>1 DEF DropsHas
<1> QED
  BY <1>2, <1>3, <1>4, <1>5, <1>6 DEF Elsewhere

\* Nobody else hears of it.
LEMMA OtherNot ==
  ASSUME NEW m, NEW L, NEW S, NEW C, NEW F, NEW g, NEW a, NEW F2, Drops(m, L, S, C, F, g, a, m, F2),
         NEW y \in up, y # m
  PROVE  OtherHas(y, inbox[y], 0, L, S, C, a, m, F2)
<1>1. /\ Elsewhere(y, st[y], inbox[y], L, S, C, F, up, host, F2)
      /\ \A s \in Side : s # a => (Own(y, st[y], s) <=> F2[s] = y)
      /\ ~Own(y, st[y], a)
  BY OtherElsewhere
<1>2. Mach(y, st[y], inbox[y], 0, L, S, C, F2, host)
  BY <1>1, ElsewhereMach
<1>3. F2[a] = m
  BY DropsIs DEF DropsHas
<1>4. Views(y, st[y], inbox[y], 0, F, up, host) /\ inbox[y] \in Seq(Messages)
  BY <1>1 DEF Elsewhere, Place
<1>5. Views(y, st[y], inbox[y], 0, F2, up, host)
  BY <1>1, <1>3, <1>4 DEF Views
<1> QED
  BY <1>2, <1>4, <1>5 DEF OtherHas

\* All others hear of it.
Hearing(y, p, k, a, o) ==
  y \in up /\ p = Append(inbox[y], Control(a, o)) /\ k = Len(inbox[y]) + 1

LEMMA OtherTold ==
  ASSUME NEW m, NEW L, NEW S, NEW C, NEW F, NEW g, NEW a, NEW o, NEW F2, Drops(m, L, S, C, F, g, a, o, F2),
         NEW y, NEW p, NEW k, y # m, Hearing(y, p, k, a, o)
  PROVE  OtherHas(y, p, k, L, S, C, a, o, F2)
<1> DEFINE r == st[y]
           q == inbox[y]
           msg == Control(a, o)
<1>0. y \in up /\ p = Append(q, msg) /\ k = Len(q) + 1
  BY DEF Hearing
<1>1. /\ Elsewhere(y, r, q, L, S, C, F, up, host, F2)
      /\ \A s \in Side : s # a => (Own(y, r, s) <=> F2[s] = y)
  BY <1>0, OtherElsewhere
<1>2. /\ DropsHas(m, L, S, C, F, g, a, o, F2) /\ World(st, inbox, seeds, up, host, L, S, C, F, g) /\ o \in up
  BY DropsIs DEF Drops, Here
<1>3. g[y] = 0 /\ a \in Side /\ o \in Machine /\ \A s \in Side : F[s] \in up => F2[s] = F[s]
  BY <1>0, <1>2 DEF DropsHas, Present
<1>4. msg \in Messages /\ msg.what = "control" /\ msg.body.side = a
  BY <1>3, ControlIs
<1>5. PlaceFields(r, q, 0, L, S, C)
  BY <1>1, PlaceHas DEF Elsewhere
<1>6. r.pos \in Nat /\ Len(L) \in Nat
  BY <1>5 DEF PlaceFields
<1>7. ASSUME NEW i \in r.pos..Len(L)-1, i >= Total(r, q, 0) PROVE F2[Writer(S[i])] # y
  <2>1. i \in Nat /\ i < Len(L) /\ i >= Total(st[y], inbox[y], g[y])
    BY <1>3, <1>6, <1>7
  <2>2. PICK w \in up \ {y} : F[Writer(S[i])] = w /\ Writer(S[i]) = S[i].turn /\ S[i].turn \in Side
    BY <1>0, <1>2, <2>1, Later
  <2> QED
    BY <1>3, <2>2
<1>8. Notified(y, r, q, L, S, C, F, up, host, F2, msg)
  BY <1>1, <1>4, <1>7 DEF Notified
<1>9. NotifiedHas(y, r, q, p, k, L, S, C, host, F2, msg)
  <2> HIDE DEF r, q, msg
  <2> QED
    BY <1>0, <1>8, NotifiedMach
<1>10. /\ Mach(y, r, p, k, L, S, C, F2, host) /\ Total(r, p, k) = Total(r, q, 0)
       /\ p \in Seq(Messages) /\ k \in Nat \ {0} /\ p[k] = msg
  BY <1>9 DEF NotifiedHas
<1>11. Views(y, r, q, 0, F, up, host)
  BY <1>1 DEF Elsewhere, Place
<1>12. Views(y, r, p, k, F2, up, host)
  BY <1>1, <1>4, <1>10, <1>11 DEF Views
<1> QED
  BY <1>10, <1>12 DEF OtherHas

\* The world when m has given the side.
MineHas(m, L, S, C, a, o, F2, x, p, j) ==
  /\ Mach(m, x, p, j, L, S, C, F2, host) /\ Total(x, p, j) = Total(st[m], inbox[m], 1)
  /\ Views(m, x, p, j, F2, up, host) /\ (j # 0 => p[j] = Control(a, o))
  /\ x \in States /\ \A s \in Side : s # a => x.owner[s] = st[m].owner[s]

LEMMA DropWorld ==
  ASSUME NEW m, NEW L, NEW S, NEW C, NEW F, NEW g, NEW a, NEW o, NEW F2, Drops(m, L, S, C, F, g, a, o, F2),
         NEW x, NEW t2, t2 = [st EXCEPT ![m] = x], NEW q2 \in [Machine -> Seq(Messages)],
         NEW g2 \in [Machine -> Nat], MineHas(m, L, S, C, a, o, F2, x, q2[m], g2[m]),
         \A y \in up : y # m => OtherHas(y, q2[y], g2[y], L, S, C, a, o, F2)
  PROVE  World(t2, q2, seeds, up, host, L, S, C, F2, g2)
<1>1. /\ DropsHas(m, L, S, C, F, g, a, o, F2) /\ World(st, inbox, seeds, up, host, L, S, C, F, g) /\ o \in up
      /\ m \in up /\ m \in Machine /\ st \in [Machine -> States]
  BY DropsIs DEF Drops, Here
<1>2. /\ g[m] = 1 /\ a \in Side /\ Home[a] \notin up /\ F2[a] = o /\ o \in Machine
      /\ \A y \in up : y # m => g[y] = 0
      /\ Present(F2, up, host) /\ \A s \in Side : F[s] \in up => s # a /\ F2[s] = F[s]
  BY <1>1 DEF DropsHas, Present
<1>3. t2 \in [Machine -> States] /\ t2[m] = x /\ \A y \in Machine : y # m => t2[y] = st[y]
  BY <1>1 DEF MineHas
<1>4. Control(a, o).what = "control" /\ Control(a, o).body.side = a /\ Control(a, o).body.owner = o
  BY <1>2, ControlIs
<1>5. ASSUME NEW y \in up
      PROVE  /\ Mach(y, t2[y], q2[y], g2[y], L, S, C, F2, host)
             /\ Total(t2[y], q2[y], g2[y]) = Total(st[y], inbox[y], g[y])
             /\ Dropped(y, t2, q2, L, S, F2, g2, up, host)
             /\ Views(y, t2[y], q2[y], g2[y], F2, up, host)
             /\ \A s \in Side : Own(y, st[y], s) /\ F[s] = y => Own(y, t2[y], s)
  <2>1. y \in Machine
    BY <1>1, <1>5, Members
  <2>2. CASE y = m
    <3>1. g2[y] # 0 => q2[y][g2[y]] = Control(a, o)
      BY <2>2 DEF MineHas
    <3>2. Dropped(y, t2, q2, L, S, F2, g2, up, host)
      BY <1>1, <1>2, <1>4, <3>1 DEF Dropped
    <3>3. \A s \in Side : Own(y, st[y], s) /\ F[s] = y => Own(y, t2[y], s)
      BY <1>2, <1>3, <1>5, <2>2 DEF MineHas, Own
    <3> QED
      BY <1>2, <1>3, <2>2, <3>2, <3>3 DEF MineHas
  <2>3. CASE y # m
    <3>1. OtherHas(y, q2[y], g2[y], L, S, C, a, o, F2)
      BY <2>3, <1>5
    <3>2. g2[y] # 0 => q2[y][g2[y]] = Control(a, o)
      BY <3>1 DEF OtherHas
    <3>3. Dropped(y, t2, q2, L, S, F2, g2, up, host)
      BY <1>1, <1>2, <1>4, <3>2 DEF Dropped
    <3>4. t2[y] = st[y] /\ g[y] = 0
      BY <1>2, <1>3, <2>1, <2>3, <1>5
    <3> QED
      BY <3>1, <3>3, <3>4 DEF OtherHas
  <2> QED
    BY <2>2, <2>3
<1>6. Hands(st, inbox, seeds, up, host, L, S, C, F, g, t2, q2, g2, F2)
  BY <1>1, <1>2, <1>3, <1>5 DEF Hands
<1> QED
  BY <1>6, HandsWorld

\* The host has the side itself.
Keeping(m, L, S, C, F, g, a, F2, x, md) ==
  /\ Drops(m, L, S, C, F, g, a, m, F2) /\ HandHas(st[m], a, m, md, x)

LEMMA KeepTakes ==
  ASSUME NEW m, NEW L, NEW S, NEW C, NEW F, NEW g, NEW a, NEW F2, NEW x, NEW md,
         Keeping(m, L, S, C, F, g, a, F2, x, md)
  PROVE  /\ Takes(m, st[m], inbox[m], L, S, C, F, up, host, x, Tail(inbox[m]), F2)
         /\ \A s \in Side : s # a => x.owner[s] = st[m].owner[s]
         /\ m = host /\ a \in Side /\ Home[a] \notin up
<1> DEFINE r == st[m]
           q == inbox[m]
<1>1. /\ Drops(m, L, S, C, F, g, a, m, F2) /\ Here(m, L, S, C, F, g) /\ Ready(m) /\ Handed(r, x)
      /\ x.owner = [r.owner EXCEPT ![a] = m] /\ m \in up
  BY DEF Keeping, Drops, HandHas
<1>2. DropsHas(m, L, S, C, F, g, a, m, F2)
  BY <1>1, DropsIs
<1>3. /\ g[m] = 1 /\ m = host /\ a \in Side /\ Home[a] \notin up /\ F[a] = Home[a] /\ r.owner[a] = Home[a]
      /\ \A i \in r.pos..Len(L)-1 : Writer(S[i]) # a
      /\ q # <<>> /\ q[1].what = "side_drop"
      /\ F2 \in [Side -> Machine] /\ F2[a] = m /\ \A s \in Side : s # a => F2[s] = F[s]
  BY <1>1, <1>2 DEF DropsHas
<1>4. /\ World(st, inbox, seeds, up, host, L, S, C, F, g) /\ m \in Machine
      /\ Place(m, r, q, 1, L, S, C, F, up, host) /\ Lead(m, r, q, 1, L, S, C, F) /\ r \in States
  BY <1>1, <1>3 DEF Here
<1>5. r.owner \in [Side -> Machine]
  BY <1>4, StateFields
<1>6. /\ x.owner[a] = m /\ \A s \in Side : s # a => x.owner[s] = r.owner[s]
  BY <1>1, <1>3, <1>4, <1>5
<1>7. \A s \in Side : s # a => (Own(m, r, s) <=> F[s] = m)
  BY <1>3, <1>4 DEF Place, Views
<1>8. ~Own(m, r, a) /\ F[a] # m
  BY <1>1, <1>3 DEF Own
<1>9. \A s \in Side : /\ Own(m, x, s) <=> F2[s] = m
                      /\ F[s] = m => F2[s] = m
                      /\ Own(m, r, s) /\ F2[s] = m => F[s] = m
  BY <1>3, <1>6, <1>7, <1>8 DEF Own
<1>10. /\ C \in 0..Len(L) /\ Len(L) \in Nat /\ Log(L, S) /\ Settled(st, S, C, F, up, host) /\ r.pos \in Nat
  BY <1>4, LogTypes, StateFields DEF Place, World
<1>11. S[C].turn \in Side /\ \A i \in 0..Len(L) : S[i] \in Stages /\ S[i].turn \in Side
  BY <1>10, LogTypes, StageFields
<1>12. \A i \in r.pos..Len(L)-1 : F2[Writer(S[i])] = F[Writer(S[i])]
  <2>1. ASSUME NEW i \in r.pos..Len(L)-1 PROVE Writer(S[i]) \in Side
    <3>1. i \in 0..Len(L)
      BY <1>10
    <3>2. S[i] \in Stages /\ S[i].turn \in Side
      BY <1>11, <3>1
    <3> QED
      BY <3>2, ActorIs DEF Writer
  <2> QED
    BY <1>3, <2>1
<1>13. S[C].undo > 0 /\ F2[S[C].turn] = m => Own(m, r, S[C].turn)
  <2> SUFFICES ASSUME S[C].undo > 0, F2[S[C].turn] = m PROVE Own(m, r, S[C].turn)
    OBVIOUS
  <2>1. F[S[C].turn] \in up /\ Own(F[S[C].turn], st[F[S[C].turn]], S[C].turn)
    BY <1>10 DEF Settled
  <2>2. S[C].turn # a
    BY <1>3, <2>1
  <2> QED
    BY <1>3, <1>11, <2>1, <2>2
<1>14. ~Rests(S[C]) => S[C].remote \/ Actor(S[C]) # S[C].turn
  BY <1>10 DEF Settled
<1>15. r.run.phase \in {"idle", "pull"} /\ AtEnd(r)
  BY <1>1 DEF Ready
<1>16. Takes(m, r, q, L, S, C, F, up, host, x, Tail(q), F2)
  BY <1>1, <1>3, <1>4, <1>9, <1>12, <1>13, <1>14, <1>15 DEF Takes
<1> QED
  BY <1>3, <1>6, <1>16

\* TakesMach, in one piece.
TakesHas(m, r, q, L, S, C, h, x, p, F2) ==
  Mach(m, x, p, 0, L, S, C, F2, h) /\ Total(x, p, 0) = Total(r, q, 1) /\ p \in Seq(Messages)

LEMMA TakesIs ==
  ASSUME NEW m, NEW r, NEW q, NEW L, NEW S, NEW C, NEW F, NEW u, NEW h, NEW x, NEW p, NEW F2,
         Takes(m, r, q, L, S, C, F, u, h, x, p, F2)
  PROVE  TakesHas(m, r, q, L, S, C, h, x, p, F2)
<1>1. Mach(m, x, p, 0, L, S, C, F2, h) /\ Total(x, p, 0) = Total(r, q, 1) /\ p \in Seq(Messages)
  BY TakesMach
<1> QED
  BY <1>1 DEF TakesHas

LEMMA KeepMine ==
  ASSUME NEW m, NEW L, NEW S, NEW C, NEW F, NEW g, NEW a, NEW F2, NEW x, NEW md,
         Keeping(m, L, S, C, F, g, a, F2, x, md), NEW p, p = Tail(inbox[m])
  PROVE  MineHas(m, L, S, C, a, m, F2, x, p, 0) /\ p \in Seq(Messages)
<1> DEFINE r == st[m]
           q == inbox[m]
<1>1. /\ Takes(m, r, q, L, S, C, F, up, host, x, p, F2)
      /\ \A s \in Side : s # a => x.owner[s] = r.owner[s]
      /\ m = host /\ a \in Side /\ Home[a] \notin up
  BY KeepTakes
<1>2. Mach(m, x, p, 0, L, S, C, F2, host) /\ Total(x, p, 0) = Total(r, q, 1) /\ p \in Seq(Messages)
  <2>1. Takes(m, r, q, L, S, C, F, up, host, x, p, F2)
    BY <1>1
  <2> DEFINE u == up
             h == host
  <2>2. Takes(m, r, q, L, S, C, F, u, h, x, p, F2)
    BY <2>1
  <2> HIDE DEF r, q, u, h
  <2>3. TakesHas(m, r, q, L, S, C, h, x, p, F2)
    BY <2>2, TakesIs
  <2> QED
    BY <2>3 DEF TakesHas, h, r, q
<1>3. x \in States /\ \A s \in Side : Own(m, x, s) <=> F2[s] = m
  BY <1>1 DEF Takes, Handed
<1>4. Views(m, r, q, 1, F, up, host)
  BY <1>1 DEF Takes, Place
<1>5. \A s \in Side : Home[s] \in up => x.owner[s] = Home[s]
  BY <1>1, <1>4 DEF Views
<1>6. Views(m, x, p, 0, F2, up, host)
  BY <1>1, <1>3, <1>5 DEF Views
<1> QED
  BY <1>1, <1>2, <1>3, <1>6 DEF MineHas

LEMMA IdleSideStep ==
  ASSUME IInv, NEW m \in Machine, IdleSide(m)
  PROVE  IInv'
<1> DEFINE a == Next1(m).body.side
           r == st[m]
           x == [r EXCEPT !.owner[a] = m, !.mode[a] = "idle"]
           q2 == Rest(m)
           t2 == [st EXCEPT ![m] = x]
           p == Tail(inbox[m])
           md == "idle"
<1>1. /\ Ready(m) /\ Next1(m).what = "side_drop"
      /\ st' = [st EXCEPT ![m].owner[a] = m, ![m].mode[a] = "idle"]
      /\ inbox' = q2 /\ UNCHANGED <<seeds, up, host, error, cleared>>
  BY DEF IdleSide
<1>2. m \in up
  BY <1>1 DEF Ready
<1>3. PICK L, S, C, F, g : Here(m, L, S, C, F, g)
  BY <1>2, HereIs
<1> DEFINE F2 == [F EXCEPT ![a] = m]
           g2 == [g EXCEPT ![m] = 0]
<1>4. /\ r \in States /\ st \in [Machine -> States] /\ g \in [Machine -> Nat]
      /\ inbox \in [Machine -> Seq(Messages)] /\ up \subseteq Machine
  BY <1>3 DEF Here, World, Present
<1>5. Drops(m, L, S, C, F, g, a, m, F2)
  BY <1>1, <1>2, <1>3 DEF Drops
<1>6. DropsHas(m, L, S, C, F, g, a, m, F2)
  <2> HIDE DEF a, F2
  <2> QED
    BY <1>5, DropsIs
<1>7. HandHas(r, a, m, md, x) /\ md \in {"human", "ai", "idle"}
  <2>1. a \in Side /\ md \in {"human", "ai", "idle"}
    BY <1>6 DEF DropsHas
  <2>2. x = [r EXCEPT !.owner[a] = m, !.mode[a] = md]
    OBVIOUS
  <2> HIDE DEF a, r, x, md
  <2> QED
    BY <1>4, <2>1, <2>2, HandedSame
<1>8. st' = t2
  BY <1>1, <1>4, Zenon
<1> HIDE DEF a, x, md, F2, r
<1>9. Keeping(m, L, S, C, F, g, a, F2, x, md)
  BY <1>5, <1>7 DEF Keeping, r
<1>10. MineHas(m, L, S, C, a, m, F2, x, p, 0) /\ p \in Seq(Messages)
  <2> HIDE DEF p
  <2> QED
    BY <1>9, KeepMine DEF p
<1>11. /\ q2 \in [Machine -> Seq(Messages)] /\ g2 \in [Machine -> Nat] /\ q2[m] = p /\ g2[m] = 0
       /\ \A y \in Machine : y # m => q2[y] = inbox[y] /\ g2[y] = g[y]
  BY <1>4, <1>10 DEF Rest
<1>12. ASSUME NEW y \in up, y # m PROVE OtherHas(y, q2[y], g2[y], L, S, C, a, m, F2)
  <2>1. y \in Machine /\ g[y] = 0
    BY <1>4, <1>6, <1>12 DEF DropsHas
  <2>2. q2[y] = inbox[y] /\ g2[y] = 0
    BY <1>11, <1>12, <2>1
  <2>3. OtherHas(y, inbox[y], 0, L, S, C, a, m, F2)
    BY <1>5, <1>12, OtherNot
  <2> QED
    BY <2>2, <2>3
<1>13. World(t2, q2, seeds, up, host, L, S, C, F2, g2)
  <2>1. MineHas(m, L, S, C, a, m, F2, x, q2[m], g2[m])
    BY <1>10, <1>11
  <2>2. t2 = [st EXCEPT ![m] = x]
    OBVIOUS
  <2> HIDE DEF t2, q2, g2
  <2> QED
    BY <1>5, <1>11, <1>12, <2>1, <2>2, DropWorld
<1>14. World(st', inbox', seeds', up', host', L, S, C, F2, g2)
  <2>1. seeds' = seeds /\ up' = up /\ host' = host /\ inbox' = q2
    BY <1>1
  <2> HIDE DEF t2, q2, g2
  <2> QED
    BY <1>8, <1>13, <2>1
<1>15. error = {} /\ host \in Hosts
  BY DEF IInv
<1>16. error' = {} /\ host' \in Hosts /\ cleared' = cleared
  BY <1>1, <1>15
<1> QED
  BY <1>14, <1>16, WorldNow

\* Who hears that side a is o's.
Announced(m, back, a, o) ==
  [n \in Machine |->
    LET rest == IF n = m THEN Tail(inbox[n]) ELSE inbox[n]
    IN  IF n \in up /\ (n = m => back) THEN Append(rest, Control(a, o)) ELSE rest]
AnnouncedHas(m, back, a, o, q2) ==
  /\ q2 \in [Machine -> Seq(Messages)]
  /\ ~back => q2[m] = Tail(inbox[m])
  /\ back => q2[m] = Append(Tail(inbox[m]), Control(a, o))
  /\ \A y \in up : y # m => q2[y] = Append(inbox[y], Control(a, o))

LEMMA AnnouncedIs ==
  ASSUME NEW m \in Machine, m \in up, up \subseteq Machine, inbox \in [Machine -> Seq(Messages)],
         inbox[m] # <<>>, NEW back \in BOOLEAN, NEW a \in Side, NEW o \in Machine,
         NEW q2, q2 = Announced(m, back, a, o)
  PROVE  AnnouncedHas(m, back, a, o, q2)
<1>1. Control(a, o) \in Messages
  BY ControlIs
<1> DEFINE c == Control(a, o)
<1>2. Tail(inbox[m]) \in Seq(Messages) /\ \A n \in Machine : inbox[n] \in Seq(Messages)
  BY TailIs
<1>3. /\ Append(Tail(inbox[m]), c) \in Seq(Messages)
      /\ \A n \in Machine : Append(inbox[n], c) \in Seq(Messages)
  BY <1>1, <1>2
<1> HIDE DEF c
<1>4. \A n \in Machine : q2[n] = IF n = m THEN (IF back THEN Append(Tail(inbox[m]), c) ELSE Tail(inbox[m]))
                                 ELSE (IF n \in up THEN Append(inbox[n], c) ELSE inbox[n])
  BY DEF Announced, c
<1>5. \A n \in Machine : q2[n] \in Seq(Messages)
  BY <1>2, <1>3, <1>4
<1>6. q2 \in [Machine -> Seq(Messages)]
  BY <1>5 DEF Announced
<1> QED
  BY <1>4, <1>6 DEF AnnouncedHas, c

LEMMA KeepSideStep ==
  ASSUME IInv, NEW m \in Machine, NEW md \in {"human", "ai"}, KeepSide(m, md)
  PROVE  IInv'
<1> DEFINE a == Next1(m).body.side
           r == st[m]
           x == [r EXCEPT !.owner[a] = m, !.mode[a] = md]
           q2 == Announced(m, FALSE, a, m)
           t2 == [st EXCEPT ![m] = x]
           p == Tail(inbox[m])
           g2 == [y \in Machine |-> IF y \in up /\ y # m THEN Len(inbox[y]) + 1 ELSE 0]
<1>1. /\ Ready(m) /\ Next1(m).what = "side_drop"
      /\ \E s \in {x} \cup {Recorded(m, x, "init_side", q) : q \in Scripts["init_side"]} :
            MaybeInit(m, x, s) /\ st' = [st EXCEPT ![m] = s]
      /\ inbox' = q2 /\ UNCHANGED <<seeds, up, host, error, cleared>>
  BY DEF KeepSide, Assign, Announced
<1>2. m \in up /\ AtEnd(r)
  BY <1>1 DEF Ready
<1>3. PICK L, S, C, F, g : Here(m, L, S, C, F, g)
  BY <1>2, HereIs
<1> DEFINE F2 == [F EXCEPT ![a] = m]
<1>4. /\ r \in States /\ st \in [Machine -> States]
      /\ inbox \in [Machine -> Seq(Messages)] /\ up \subseteq Machine
  BY <1>3 DEF Here, World, Present
<1>5. Drops(m, L, S, C, F, g, a, m, F2)
  BY <1>1, <1>2, <1>3 DEF Drops
<1>6. DropsHas(m, L, S, C, F, g, a, m, F2)
  <2> HIDE DEF a, F2
  <2> QED
    BY <1>5, DropsIs
<1>7. HandHas(r, a, m, md, x)
  <2>1. a \in Side /\ md \in {"human", "ai", "idle"}
    BY <1>6 DEF DropsHas
  <2>2. x = [r EXCEPT !.owner[a] = m, !.mode[a] = md]
    OBVIOUS
  <2> HIDE DEF a, r, x
  <2> QED
    BY <1>4, <2>1, <2>2, HandedSame
<1>8. \A y \in up : Len(inbox[y]) + 1 \in Nat
  BY <1>4
<1>9. g2 \in [Machine -> Nat] /\ g2[m] = 0 /\ \A y \in up : y # m => g2[y] = Len(inbox[y]) + 1
  BY <1>4, <1>8
<1> HIDE DEF a, x, F2, r, q2, g2
<1>10. Keeping(m, L, S, C, F, g, a, F2, x, md)
  BY <1>5, <1>7 DEF Keeping, r
<1>11. MineHas(m, L, S, C, a, m, F2, x, p, 0) /\ p \in Seq(Messages)
  <2> HIDE DEF p
  <2> QED
    BY <1>10, KeepMine DEF p
<1>12. AnnouncedHas(m, FALSE, a, m, q2)
  <2>1. a \in Side /\ inbox[m] # <<>>
    BY <1>6 DEF DropsHas
  <2> QED
    BY <1>2, <1>4, <2>1, AnnouncedIs DEF q2
<1>13. q2 \in [Machine -> Seq(Messages)] /\ q2[m] = p /\ \A y \in up : y # m => q2[y] = Append(inbox[y], Control(a, m))
  BY <1>12 DEF AnnouncedHas
<1>14. ASSUME NEW y \in up, y # m PROVE OtherHas(y, q2[y], g2[y], L, S, C, a, m, F2)
  <2> DEFINE k == g2[y]
             z == q2[y]
  <2>1. Hearing(y, z, k, a, m)
    BY <1>9, <1>13, <1>14 DEF Hearing
  <2> HIDE DEF k, z
  <2>2. OtherHas(y, z, k, L, S, C, a, m, F2)
    BY <1>5, <1>14, <2>1, OtherTold
  <2> QED
    BY <2>2 DEF k, z
<1>15. World(t2, q2, seeds, up, host, L, S, C, F2, g2)
  <2>1. MineHas(m, L, S, C, a, m, F2, x, q2[m], g2[m])
    BY <1>9, <1>11, <1>13
  <2>2. t2 = [st EXCEPT ![m] = x]
    OBVIOUS
  <2> HIDE DEF t2
  <2> QED
    BY <1>5, <1>9, <1>13, <1>14, <2>1, <2>2, DropWorld
<1>16. t2[m] = x /\ AtEnd(x)
  BY <1>2, <1>4, <1>7 DEF HandHas, Handed, AtEnd
<1>17. PICK s : MaybeInit(m, x, s) /\ st' = [st EXCEPT ![m] = s]
  BY <1>1
<1>18. \E L2, S2, gg : World([t2 EXCEPT ![m] = s], q2, seeds, up, host, L2, S2, C, F2, gg)
  <2> HIDE DEF t2
  <2> QED
    BY <1>2, <1>9, <1>15, <1>16, <1>17, InitWorld
<1>19. st' = [t2 EXCEPT ![m] = s]
  BY <1>4, <1>17
<1>20. error = {} /\ host \in Hosts
  BY DEF IInv
<1> HIDE DEF t2
<1>21. seeds' = seeds /\ up' = up /\ host' = host /\ inbox' = q2 /\ error' = error /\ cleared' = cleared
  BY <1>1
<1>22. \E L2, S2, gg : World(st', inbox', seeds', up', host', L2, S2, C, F2, gg)
  BY <1>18, <1>19, <1>21
<1> QED
  BY <1>20, <1>21, <1>22, WorldNow

\* The host gives the side to another.
Giving(m, L, S, C, F, g, a, o, F2, x) ==
  /\ Drops(m, L, S, C, F, g, a, o, F2) /\ HandHas(st[m], a, m, "idle", x) /\ o # m
  /\ x.expect = IF st[m].run.phase = "pull" THEN a ELSE st[m].expect
  /\ IF st[m].run.phase = "pull" THEN Asked(st[m]) = a ELSE a = st[m].turn

LEMMA GiveMine ==
  ASSUME NEW m, NEW L, NEW S, NEW C, NEW F, NEW g, NEW a, NEW o, NEW F2, NEW x,
         Giving(m, L, S, C, F, g, a, o, F2, x), NEW p, p = Append(Tail(inbox[m]), Control(a, o))
  PROVE  MineHas(m, L, S, C, a, o, F2, x, p, 1)
<1> DEFINE r == st[m]
           q == inbox[m]
           s == S[r.pos]
           N == Len(L)
<1>1. /\ Drops(m, L, S, C, F, g, a, o, F2) /\ Here(m, L, S, C, F, g) /\ Ready(m) /\ Handed(r, x)
      /\ x.owner = [r.owner EXCEPT ![a] = m] /\ x.mode = [r.mode EXCEPT ![a] = "idle"] /\ m \in up /\ o \in up
      /\ o # m
      /\ r.run.phase = "pull" => x.expect = a /\ Asked(r) = a
      /\ r.run.phase # "pull" => a = r.turn
  <2>1. /\ Drops(m, L, S, C, F, g, a, o, F2) /\ HandHas(r, a, m, "idle", x) /\ o # m
        /\ x.expect = IF r.run.phase = "pull" THEN a ELSE r.expect
        /\ IF r.run.phase = "pull" THEN Asked(r) = a ELSE a = r.turn
    BY DEF Giving
  <2>2. /\ r.run.phase = "pull" => x.expect = a /\ Asked(r) = a
        /\ r.run.phase # "pull" => a = r.turn
    BY <2>1
  <2>3. Here(m, L, S, C, F, g) /\ Ready(m) /\ o \in up
    BY <2>1 DEF Drops
  <2>4. m \in up
    BY <2>3 DEF Ready
  <2>5. Handed(r, x) /\ x.owner = [r.owner EXCEPT ![a] = m] /\ x.mode = [r.mode EXCEPT ![a] = "idle"]
    BY <2>1 DEF HandHas
  <2> QED
    BY <2>1, <2>2, <2>3, <2>4, <2>5
<1>2. DropsHas(m, L, S, C, F, g, a, o, F2)
  BY <1>1, DropsIs
<1>3. /\ g[m] = 1 /\ m = host /\ a \in Side /\ Home[a] \notin up /\ F[a] = Home[a] /\ r.owner[a] = Home[a]
      /\ \A i \in r.pos..N-1 : Writer(S[i]) # a
      /\ q # <<>> /\ q[1].what = "side_drop"
      /\ F2 \in [Side -> Machine] /\ F2[a] = o /\ \A z \in Side : z # a => F2[z] = F[z]
      /\ Present(F2, up, host)
  BY <1>1, <1>2 DEF DropsHas
<1>4. /\ World(st, inbox, seeds, up, host, L, S, C, F, g) /\ m \in Machine
      /\ Place(m, r, q, 1, L, S, C, F, up, host) /\ r \in States
  BY <1>1, <1>3 DEF Here
<1>5. /\ Keeps(r, L) /\ Stands(r, s) /\ Sent(r, q, 1, L, C) /\ Stacked(m, r, L, S, C, F, host)
      /\ Views(m, r, q, 1, F, up, host) /\ PlaceFields(r, q, 1, L, S, C) /\ q \in Seq(Messages)
  BY <1>4, PlaceHas DEF Place, Mach
<1>6. r.run.phase \in {"idle", "pull"} /\ r.pos = Len(r.rec)
  BY <1>1 DEF Ready, AtEnd
<1>7. /\ N \in Nat /\ r.pos \in Nat /\ r.pos <= N /\ s \in Stages /\ Shapes(s) /\ r.turn = s.turn
      /\ Total(r, q, 1) \in Nat /\ Total(r, q, 1) <= N /\ Total(r, q, 1) = Len(r.rec) + Len(q) - 1 /\ Len(q) \in Nat
  <2>1. /\ N \in Nat /\ r.pos \in Nat /\ r.pos <= Len(r.rec) /\ Len(r.rec) <= N /\ Len(r.rec) \in Nat
        /\ s \in Stages /\ Shapes(s) /\ r.turn = s.turn
        /\ Total(r, q, 1) \in Nat /\ Total(r, q, 1) <= N /\ Len(q) \in Nat
    BY <1>5 DEF PlaceFields
  <2>2. Total(r, q, 1) = Len(r.rec) + Len(q) - 1
    BY DEF Total
  <2>3. r.pos <= N
    BY <2>1
  <2> QED
    BY <2>1, <2>2, <2>3
<1>8. a # Server /\ a # 0
  BY <1>3, SideIs DEF Server
<1>9. r.run.phase = "pull" => ~Rests(s) /\ Head(s.left) = a
  BY <1>1, <1>5 DEF Stands, Idle, Asked
<1>10. Actor(s) = a
  BY <1>1, <1>6, <1>5, <1>7, <1>9, ActorIs DEF Stands, Idle
<1>11. r.pos = N
  <2> SUFFICES ASSUME r.pos # N PROVE FALSE
    OBVIOUS
  <2>1. r.pos \in r.pos..N-1
    BY <1>7
  <2> QED
    BY <1>3, <1>8, <1>10, <2>1 DEF Writer
<1>12. Len(q) = 1
  <2>1. Len(q) # 0
    BY <1>3, <1>5
  <2>2. N = r.pos /\ r.pos = Len(r.rec)
    BY <1>6, <1>11
  <2> DEFINE b == Len(q)
             c == Len(r.rec)
  <2>3. c + b - 1 <= c /\ b \in Nat /\ b # 0 /\ c \in Nat
    BY <1>5, <1>6, <1>7, <2>1, <2>2
  <2> HIDE DEF b, c
  <2>4. b = 1
    BY <2>3
  <2> QED
    BY <2>4 DEF b
<1>13. Tail(q) = <<>>
  <2>1. Tail(q) \in Seq(Messages) /\ Len(Tail(q)) = 0
    BY <1>3, <1>5, <1>12, TailIs
  <2> QED
    BY <2>1
<1>14. Control(a, o) \in Messages /\ Control(a, o).what = "control" /\ Control(a, o).body.side = a
  BY <1>1, <1>3, ControlIs DEF Present
<1>15. Len(p) = 1 /\ p[1] = Control(a, o)
  <2>1. p = Append(<<>>, Control(a, o))
    BY <1>13
  <2> DEFINE c == Control(a, o)
  <2>2. c \in Messages
    BY <1>14
  <2> HIDE DEF c
  <2>3. Append(<<>>, c) = <<c>>
    OBVIOUS
  <2>4. Len(<<c>>) = 1 /\ <<c>>[1] = c
    OBVIOUS
  <2> QED
    BY <2>1, <2>3, <2>4 DEF c
<1>16. /\ x.rec = r.rec /\ x.pos = r.pos /\ x.upto = r.upto /\ x.game = r.game
       /\ x.undo = r.undo /\ x.run = r.run /\ x.turn = r.turn /\ x.inited = r.inited /\ x \in States
  BY <1>1 DEF Handed
<1>17. Keeps(x, L) /\ Stands(x, S[x.pos])
  BY <1>5, <1>16 DEF Keeps, Stands, Idle
<1>18. Total(x, p, 1) = Total(r, q, 1)
  BY <1>12, <1>15, <1>16 DEF Total
<1>19. Inbox(x, p, 1, L)
  BY <1>14, <1>15 DEF Inbox
<1>20. Sent(x, p, 1, L, C)
  BY <1>5, <1>16, <1>18 DEF Sent
<1>21. ~r.run.local
  BY <1>5, <1>6, <1>8, <1>9, NoRunIs DEF Stands, Idle
<1>22. Pending(m, x, 1, L, S, F2)
  <2>1. \A i : i \notin x.pos..N-1 /\ i \notin x.pos+1..N-1
    BY <1>7, <1>11, <1>16
  <2>2. x.run.phase # "look" /\ ~x.run.local
    BY <1>6, <1>16, <1>21
  <2> QED
    BY <2>1, <2>2 DEF Pending
<1>23. r.owner \in [Side -> Machine] /\ r.mode \in [Side -> {"human", "ai", "idle"}] /\ r.turn \in Side
  BY <1>4, StateFields
<1>24. /\ x.owner[a] = m /\ x.mode[a] = "idle" /\ \A z \in Side : z # a => x.owner[z] = r.owner[z]
  BY <1>1, <1>3, <1>23
<1>25. \A z \in Side : z # a => (Own(m, r, z) <=> F[z] = m)
  <2>1. q[1].what # "control"
    BY <1>3
  <2> QED
    BY <1>5, <2>1 DEF Views
<1>26. \A z \in Side : z # a => (Own(m, x, z) <=> F2[z] = m)
  BY <1>3, <1>24, <1>25 DEF Own
<1>27. Held(m, x, 1, F2, host)
  <2>1. ASSUME NEW z \in Side, Own(m, x, z) /\ F2[z] # m
        PROVE  /\ m = host /\ x.mode[z] = "idle" /\ x.pos = Len(x.rec)
               /\ \/ x.run.phase = "pull" /\ x.expect = z /\ Head(x.run.left) = z
                  \/ Idle(x) /\ x.turn = z
    <3>1. z = a
      BY <1>26, <2>1
    <3>2. CASE r.run.phase = "pull"
      BY <1>1, <1>3, <1>6, <1>16, <1>24, <3>1, <3>2 DEF Asked
    <3>3. CASE r.run.phase # "pull"
      BY <1>1, <1>3, <1>6, <1>16, <1>24, <3>1, <3>3 DEF Idle
    <3> QED
      BY <3>2, <3>3
  <2> QED
    BY <2>1 DEF Held
<1>28. Stacked(m, x, L, S, C, F2, host)
  <2>1. Own(m, x, r.turn) /\ F2[r.turn] = m => Own(m, r, r.turn) /\ F[r.turn] = m
    <3>1. F2[r.turn] = m => r.turn # a
      BY <1>1, <1>3
    <3> QED
      BY <1>3, <1>23, <1>24, <3>1 DEF Own
  <2> QED
    BY <1>5, <1>16, <2>1 DEF Stacked
<1>29. Mach(m, x, p, 1, L, S, C, F2, host)
  BY <1>17, <1>19, <1>20, <1>22, <1>27, <1>28 DEF Mach
<1>30. \A z \in Side : Home[z] \in up => x.owner[z] = Home[z]
  BY <1>3, <1>5, <1>24 DEF Views
<1>31. Views(m, x, p, 1, F2, up, host)
  BY <1>3, <1>14, <1>15, <1>26, <1>30 DEF Views
<1> QED
  BY <1>15, <1>16, <1>18, <1>24, <1>29, <1>31 DEF MineHas

LEMMA GiveSideStep ==
  ASSUME IInv, NEW m \in Machine, NEW o \in Machine, GiveSide(m, o), OnCourse'
  PROVE  IInv'
<1> DEFINE a == Next1(m).body.side
           r == st[m]
           waits == r.run.phase = "pull"
           ex == IF waits THEN a ELSE r.expect
           md == "idle"
           x == Hand(r, a, m, md, ex)
           q2 == Announced(m, TRUE, a, o)
           t2 == [st EXCEPT ![m] = x]
           p == Append(Tail(inbox[m]), Control(a, o))
           g2 == [y \in Machine |-> IF y = m THEN 1 ELSE IF y \in up THEN Len(inbox[y]) + 1 ELSE 0]
<1>1. /\ Ready(m) /\ Next1(m).what = "side_drop" /\ o \in up \ {m}
      /\ st' = [st EXCEPT ![m].owner[a] = m, ![m].mode[a] = "idle",
                          ![m].expect = IF waits THEN a ELSE @]
      /\ inbox' = q2 /\ UNCHANGED <<seeds, up, host, error, cleared>>
  BY DEF GiveSide, Assign, Announced, Waiting
<1>2. m \in up
  BY <1>1 DEF Ready
<1>3. PICK L, S, C, F, g : Here(m, L, S, C, F, g)
  BY <1>2, HereIs
<1> DEFINE F2 == [F EXCEPT ![a] = o]
<1>4. /\ r \in States /\ st \in [Machine -> States]
      /\ inbox \in [Machine -> Seq(Messages)] /\ up \subseteq Machine
  BY <1>3 DEF Here, World, Present
<1>5. Drops(m, L, S, C, F, g, a, o, F2)
  BY <1>1, <1>3 DEF Drops
<1>6. DropsHas(m, L, S, C, F, g, a, o, F2)
  <2> HIDE DEF a, F2
  <2> QED
    BY <1>5, DropsIs
<1>7. HandHas(r, a, m, md, x) /\ x.expect = ex
  <2>1. a \in Side /\ md \in {"human", "ai", "idle"}
    BY <1>6 DEF DropsHas
  <2>2. ex \in Side \cup {None}
    BY <1>4, <2>1, StateFields
  <2> HIDE DEF a, r, md, ex
  <2> QED
    BY <1>4, <2>1, <2>2, HandedIs
<1>8. st' = t2
  BY <1>1, <1>4, Zenon DEF Hand
<1>9. IF waits THEN Asked(r) = a ELSE a = r.turn
  <2>1. Awaited(r, a)
    BY DEF GiveSide, OnCourse
  <2> QED
    BY <2>1 DEF Awaited, Waiting
<1>10. Giving(m, L, S, C, F, g, a, o, F2, x)
  <2>1. IF waits THEN Asked(r) = a ELSE a = r.turn
    BY <1>1, <1>9
  <2> HIDE DEF a, F2, x
  <2> QED
    BY <1>1, <1>5, <1>7, <2>1 DEF Giving
<1>11. \A y \in up : Len(inbox[y]) + 1 \in Nat
  BY <1>4
<1>12. g2 \in [Machine -> Nat] /\ g2[m] = 1 /\ \A y \in up : y # m => g2[y] = Len(inbox[y]) + 1
  BY <1>4, <1>11
<1> HIDE DEF a, x, F2, r, q2, g2, md, ex
<1>13. MineHas(m, L, S, C, a, o, F2, x, p, 1)
  <2> HIDE DEF p
  <2> QED
    BY <1>10, GiveMine DEF p
<1>14. AnnouncedHas(m, TRUE, a, o, q2)
  <2>1. a \in Side /\ inbox[m] # <<>>
    BY <1>6 DEF DropsHas
  <2> QED
    BY <1>2, <1>4, <2>1, AnnouncedIs DEF q2
<1>15. q2 \in [Machine -> Seq(Messages)] /\ q2[m] = p /\ \A y \in up : y # m => q2[y] = Append(inbox[y], Control(a, o))
  BY <1>14 DEF AnnouncedHas
<1>16. ASSUME NEW y \in up, y # m PROVE OtherHas(y, q2[y], g2[y], L, S, C, a, o, F2)
  <2> DEFINE k == g2[y]
             z == q2[y]
  <2>1. Hearing(y, z, k, a, o)
    BY <1>12, <1>15, <1>16 DEF Hearing
  <2> HIDE DEF k, z
  <2>2. OtherHas(y, z, k, L, S, C, a, o, F2)
    BY <1>5, <1>16, <2>1, OtherTold
  <2> QED
    BY <2>2 DEF k, z
<1>17. World(t2, q2, seeds, up, host, L, S, C, F2, g2)
  <2>1. MineHas(m, L, S, C, a, o, F2, x, q2[m], g2[m])
    BY <1>12, <1>13, <1>15
  <2>2. t2 = [st EXCEPT ![m] = x]
    OBVIOUS
  <2> HIDE DEF t2
  <2> QED
    BY <1>5, <1>12, <1>15, <1>16, <2>1, <2>2, DropWorld
<1>18. error = {} /\ host \in Hosts
  BY DEF IInv
<1> HIDE DEF t2
<1>19. seeds' = seeds /\ up' = up /\ host' = host /\ inbox' = q2 /\ error' = error /\ cleared' = cleared
  BY <1>1
<1>20. World(st', inbox', seeds', up', host', L, S, C, F2, g2)
  BY <1>8, <1>17, <1>19
<1> QED
  BY <1>18, <1>19, <1>20, WorldNow

-----------------------------------------------------------------------------
(* A machine leaves.                                                               *)

\* What the host is told.
Told1(m) == LET dropped == SetToSeq({s \in Side : Home[s] = m})
            IN  [i \in DOMAIN dropped |-> Message("side_drop", [side |-> dropped[i]])]

LEMMA SetToSeqIs ==
  ASSUME NEW T, T = {} \/ \E s : T = {s}
  PROVE  /\ T = {} => DOMAIN SetToSeq(T) = {}
         /\ \A s : T = {s} => DOMAIN SetToSeq(T) = {1} /\ SetToSeq(T)[1] = s
<1>1. CASE T = {}
  <2>1. Cardinality(T) = 0 /\ 1..0 = {}
    BY <1>1, FS_EmptySet
  <2>2. [i \in {} |-> i] \in [{} -> T] /\ IsInjective([i \in {} |-> i])
    BY DEF IsInjective
  <2>3. SetToSeq(T) \in [{} -> T]
    BY <2>1, <2>2 DEF SetToSeq
  <2>4. \A s : T # {s}
    BY <1>1
  <2> QED
    BY <2>3, <2>4
<1>2. ASSUME NEW s, T = {s} PROVE DOMAIN SetToSeq(T) = {1} /\ SetToSeq(T)[1] = s
  <2>1. Cardinality(T) = 1 /\ 1..1 = {1}
    BY <1>2, FS_Singleton
  <2>2. [i \in {1} |-> s] \in [{1} -> T] /\ IsInjective([i \in {1} |-> s])
    BY <1>2 DEF IsInjective
  <2>3. SetToSeq(T) \in [{1} -> T]
    BY <2>1, <2>2 DEF SetToSeq
  <2> QED
    BY <2>3, <1>2
<1>3. \A s : T = {s} => T # {}
  OBVIOUS
<1> QED
  BY <1>1, <1>2, <1>3

SideDrop(s) == Message("side_drop", [side |-> s])

LEMMA SideDropIs ==
  ASSUME NEW s \in Side
  PROVE  SideDrop(s) \in Messages /\ SideDrop(s).what = "side_drop" /\ SideDrop(s).body.side = s
<1> DEFINE b == [side |-> s]
<1>1. b \in [side : Side] /\ b.side = s
  OBVIOUS
<1> HIDE DEF b
<1>2. SideDrop(s) = Message("side_drop", b)
  BY DEF SideDrop, b
<1>3. Message("side_drop", b).what = "side_drop" /\ Message("side_drop", b).body = b
  BY DEF Message
<1>4. Message("side_drop", b) \in Messages
  BY <1>1 DEF Message, Messages
<1> QED
  BY <1>1, <1>2, <1>3, <1>4

LEMMA Told1Is ==
  ASSUME OneSideEach, NEW m \in MayLeave
  PROVE  Told1(m) = <<>> \/ \E s \in Side : Home[s] = m /\ Told1(m) = <<SideDrop(s)>>
<1> DEFINE T == {s \in Side : Home[s] = m}
           d == SetToSeq(T)
<1>1. T = {} \/ \E s \in Side : T = {s} /\ Home[s] = m
  BY DEF OneSideEach
<1>2. /\ T = {} => DOMAIN d = {}
      /\ \A s : T = {s} => DOMAIN d = {1} /\ d[1] = s
  <2> HIDE DEF T
  <2>1. T = {} \/ \E s : T = {s}
    BY <1>1
  <2> QED
    BY <2>1, SetToSeqIs
<1>3. Told1(m) = [i \in DOMAIN d |-> Message("side_drop", [side |-> d[i]])]
  BY DEF Told1
<1> HIDE DEF d
<1>4. CASE T = {}
  BY <1>2, <1>3, <1>4
<1>5. ASSUME NEW s \in Side, T = {s}, Home[s] = m PROVE Told1(m) = <<SideDrop(s)>>
  <2>1. DOMAIN d = {1} /\ d[1] = s
    BY <1>2, <1>5
  <2>2. Told1(m) = [i \in {1} |-> SideDrop(s)]
    BY <1>3, <2>1 DEF SideDrop
  <2> DEFINE c == SideDrop(s)
  <2> HIDE DEF c
  <2>3. [i \in {1} |-> c] = <<c>>
    OBVIOUS
  <2> QED
    BY <2>2, <2>3 DEF c
<1> QED
  BY <1>1, <1>4, <1>5

\* All are in the game, and m goes, which has the undo stack of the others.
Goes1(m, L, S, C, F, g) ==
  /\ World(st, inbox, seeds, up, host, L, S, C, F, g) /\ up = Machine /\ m \in MayLeave \ {host} /\ m \in Machine
  /\ m \notin cleared

LEMMA AllHome ==
  ASSUME NEW m, NEW L, NEW S, NEW C, NEW F, NEW g, Goes1(m, L, S, C, F, g)
  PROVE  \A y \in Machine : /\ g[y] = 0 /\ Place(y, st[y], inbox[y], 0, L, S, C, F, Machine, host)
                            /\ \A s \in Side : st[y].owner[s] = Home[s] /\ F[s] = Home[s]
<1>1. World(st, inbox, seeds, up, host, L, S, C, F, g) /\ up = Machine
  BY DEF Goes1
<1>2. Home \in [Side -> Machine]
  BY RemoteAssumption
<1>3. ASSUME NEW y \in Machine
      PROVE  /\ g[y] = 0 /\ Place(y, st[y], inbox[y], 0, L, S, C, F, Machine, host)
             /\ \A s \in Side : st[y].owner[s] = Home[s] /\ F[s] = Home[s]
  <2>1. /\ Dropped(y, st, inbox, L, S, F, g, up, host) /\ Views(y, st[y], inbox[y], g[y], F, up, host)
        /\ Present(F, up, host)
    BY <1>1, Members DEF World
  <2>2. g[y] = 0
    BY <1>1, <1>2, <2>1 DEF Dropped
  <2>3. Place(y, st[y], inbox[y], 0, L, S, C, F, Machine, host)
    BY <1>1, <2>2, PlaceIs
  <2>4. \A s \in Side : st[y].owner[s] = Home[s] /\ F[s] = Home[s]
    BY <1>1, <1>2, <2>1 DEF Views, Present
  <2> QED
    BY <2>2, <2>3, <2>4
<1> QED
  BY <1>3

\* What does not depend on who writes.
LeftHas(u2, L, S, C, F, g) ==
  /\ Present(F, u2, host) /\ Settled(st, S, C, F, u2, host)
  /\ \A y \in u2 : /\ y \in Machine /\ g[y] = 0 /\ Place(y, st[y], inbox[y], 0, L, S, C, F, Machine, host)
                   /\ Views(y, st[y], inbox[y], 0, F, u2, host)
                   /\ \A s \in Side : st[y].owner[s] = Home[s] /\ F[s] = Home[s]

LEMMA LeftIs ==
  ASSUME NEW m, NEW L, NEW S, NEW C, NEW F, NEW g, Goes1(m, L, S, C, F, g), NEW u2, u2 = Machine \ {m}
  PROVE  LeftHas(u2, L, S, C, F, g)
<1>1. /\ World(st, inbox, seeds, up, host, L, S, C, F, g) /\ up = Machine /\ m \in MayLeave \ {host}
      /\ m \in Machine /\ m \notin cleared
  BY DEF Goes1
<1>2. /\ Present(F, Machine, host) /\ Settled(st, S, C, F, Machine, host)
  BY <1>1 DEF World
<1>3. \A y \in Machine : /\ g[y] = 0 /\ Place(y, st[y], inbox[y], 0, L, S, C, F, Machine, host)
                         /\ \A s \in Side : st[y].owner[s] = Home[s] /\ F[s] = Home[s]
  BY AllHome
<1>4. Present(F, u2, host)
  <2>1. \A s \in Side : F[s] = Home[s]
    BY <1>1, <1>3
  <2> QED
    BY <1>1, <1>2, <2>1 DEF Present
<1>5. Settled(st, S, C, F, u2, host)
  <2>1. m \notin cleared \cup {host}
    BY <1>1
  <2> QED
    BY <1>2, <2>1 DEF Settled
<1>6. ASSUME NEW y \in u2 PROVE Views(y, st[y], inbox[y], 0, F, u2, host)
  <2>1. Views(y, st[y], inbox[y], 0, F, Machine, host)
    BY <1>3, <1>6 DEF Place
  <2> QED
    BY <2>1 DEF Views
<1> QED
  BY <1>3, <1>4, <1>5, <1>6 DEF LeftHas

\* The world without m, when m was not ahead ...
LEMMA LeftBehind ==
  ASSUME NEW m, NEW L, NEW S, NEW C, NEW F, NEW g, Goes1(m, L, S, C, F, g), NEW u2, u2 = Machine \ {m},
         Len(L) = C \/ Total(st[m], inbox[m], 0) = C
  PROVE  World(st, inbox, seeds, u2, host, L, S, C, F, g)
<1>1. World(st, inbox, seeds, Machine, host, L, S, C, F, g) /\ m \in Machine
  BY DEF Goes1
<1>2. LeftHas(u2, L, S, C, F, g)
  BY LeftIs
<1>3. /\ st \in [Machine -> States] /\ inbox \in [Machine -> Seq(Messages)] /\ g \in [Machine -> Nat]
      /\ Log(L, S) /\ seeds = S[Len(L)].seeds /\ Leads(st, inbox, L, S, C, F, g, Machine)
  BY <1>1 DEF World
<1>4. g[m] = 0
  BY <1>1, AllHome
<1>5. Leads(st, inbox, L, S, C, F, g, u2)
  <2>1. ASSUME Len(L) > C PROVE \E w \in u2 : Ahead(w, st, inbox, L, S, C, F, g, u2)
    <3>1. PICK w \in Machine : Ahead(w, st, inbox, L, S, C, F, g, Machine)
      BY <1>3, <2>1 DEF Leads
    <3>2. C \in 0..Len(L) /\ Len(L) \in Nat
      BY <1>3, LogTypes DEF Leads
    <3>3. w # m
      BY <1>4, <2>1, <3>1, <3>2 DEF Ahead
    <3>4. Ahead(w, st, inbox, L, S, C, F, g, u2)
      BY <3>1, <3>3 DEF Ahead
    <3> QED
      BY <3>3, <3>4
  <2> QED
    BY <1>3, <2>1 DEF Leads
<1>6. ASSUME NEW y \in u2
      PROVE  /\ Mach(y, st[y], inbox[y], g[y], L, S, C, F, host) /\ Dropped(y, st, inbox, L, S, F, g, u2, host)
             /\ Views(y, st[y], inbox[y], g[y], F, u2, host)
  BY <1>2 DEF LeftHas, Place, Dropped
<1> QED
  BY <1>2, <1>3, <1>5, <1>6 DEF World, LeftHas

\* ... and when it was: nobody will ever see what it wrote.
LEMMA LeftAhead ==
  ASSUME NEW m, NEW L, NEW S, NEW C, NEW F, NEW g, Goes1(m, L, S, C, F, g), NEW u2, u2 = Machine \ {m},
         Len(L) > C, Total(st[m], inbox[m], 0) = Len(L), NEW L2, NEW S2, Cuts(L, S, C, L2, S2)
  PROVE  World(st, inbox, seeds, u2, host, L2, S2, C, F, g)
<1>1. World(st, inbox, seeds, Machine, host, L, S, C, F, g) /\ m \in Machine
  BY DEF Goes1
<1>2. LeftHas(u2, L, S, C, F, g)
  BY LeftIs
<1>3. /\ st \in [Machine -> States] /\ inbox \in [Machine -> Seq(Messages)] /\ g \in [Machine -> Nat]
      /\ Log(L, S) /\ seeds = S[Len(L)].seeds /\ Leads(st, inbox, L, S, C, F, g, Machine)
  BY <1>1 DEF World
<1>4. g[m] = 0
  BY <1>1, AllHome
<1>5. Ahead(m, st, inbox, L, S, C, F, g, Machine)
  BY <1>1, <1>4, Foremost
<1>6. /\ C \in 0..Len(L) /\ Len(L) \in Nat /\ \A i \in C..Len(L) : S[i].seeds = S[C].seeds
  BY <1>3, LogTypes DEF Leads
<1>7. F[S[C].turn] = m
  <2>1. C \in C..Len(L)-1
    BY <1>6
  <2> QED
    BY <1>5, <2>1 DEF Ahead
<1>8. CutsHas(L, S, C, L2, S2)
  BY CutsIs
<1>9. Log(L2, S2) /\ Len(L2) = C /\ S2[C] = S[C]
  BY <1>6, <1>8 DEF CutsHas
<1>10. seeds = S2[Len(L2)].seeds
  <2>1. Len(L) \in C..Len(L)
    BY <1>6
  <2> QED
    BY <1>3, <1>6, <1>9, <2>1
<1>11. Leads(st, inbox, L2, S2, C, F, g, u2)
  <2>1. C \in 0..Len(L2) /\ ~(Len(L2) > C) /\ \A i \in C..Len(L2) : i = C
    BY <1>6, <1>9
  <2> QED
    BY <2>1, <1>9 DEF Leads
<1>12. Settled(st, S2, C, F, u2, host)
  BY <1>2, <1>9 DEF LeftHas, Settled
<1>13. ASSUME NEW y \in u2
       PROVE  /\ Mach(y, st[y], inbox[y], g[y], L2, S2, C, F, host) /\ Dropped(y, st, inbox, L2, S2, F, g, u2, host)
              /\ Views(y, st[y], inbox[y], g[y], F, u2, host)
  <2> DEFINE r == st[y]
             q == inbox[y]
             u == Machine
             h == host
  <2>1. g[y] = 0 /\ Place(y, r, q, 0, L, S, C, F, u, h) /\ Views(y, r, q, 0, F, u2, host)
    BY <1>2 DEF LeftHas
  <2>2. y # m /\ y \in Machine
    OBVIOUS
  <2>3. Total(r, q, 0) = C
    BY <1>5, <2>1, <2>2 DEF Ahead
  <2>4. CutFor(y, r, q, 0, L, S, C, F, u, h, C, L2, S2)
    BY <1>6, <1>7, <1>8, <2>1, <2>2, <2>3 DEF CutFor
  <2> HIDE DEF r, q, u, h
  <2>5. Mach(y, r, q, 0, L2, S2, C, F, h)
    BY <2>4, CutOther
  <2>6. Dropped(y, st, inbox, L2, S2, F, g, u2, host)
    BY <2>1 DEF Dropped
  <2> QED
    BY <2>1, <2>5, <2>6 DEF r, q, h
<1> QED
  BY <1>2, <1>3, <1>9, <1>10, <1>11, <1>12, <1>13 DEF World, LeftHas

LEMMA LeftWorld ==
  ASSUME NEW m, NEW L, NEW S, NEW C, NEW F, NEW g, Goes1(m, L, S, C, F, g), NEW u2, u2 = Machine \ {m}
  PROVE  \E L2, S2 : World(st, inbox, seeds, u2, host, L2, S2, C, F, g)
<1>1. /\ World(st, inbox, seeds, Machine, host, L, S, C, F, g) /\ m \in Machine
  BY DEF Goes1
<1>2. g[m] = 0
  BY <1>1, AllHome
<1>3. /\ Total(st[m], inbox[m], 0) \in {C, Len(L)} /\ C \in 0..Len(L) /\ Len(L) \in Nat /\ Log(L, S)
  BY <1>1, <1>2, Members
<1>4. CASE Len(L) = C \/ Total(st[m], inbox[m], 0) = C
  BY <1>4, LeftBehind
<1>5. CASE Len(L) > C /\ Total(st[m], inbox[m], 0) = Len(L)
  <2> DEFINE L2 == SubSeq(L, 1, C)
             S2 == Shorter(S, C)
  <2>1. Cuts(L, S, C, L2, S2)
    BY <1>3 DEF Cuts
  <2> HIDE DEF L2, S2
  <2>2. World(st, inbox, seeds, u2, host, L2, S2, C, F, g)
    BY <1>5, <2>1, LeftAhead
  <2> QED
    BY <2>2
<1>6. \/ Len(L) = C \/ Total(st[m], inbox[m], 0) = C
      \/ Len(L) > C /\ Total(st[m], inbox[m], 0) = Len(L)
  BY <1>3
<1> QED
  BY <1>4, <1>5, <1>6

\* The host is told that side a was dropped.
Tells(m, L, S, C, F, g, u2, a) ==
  /\ World(st, inbox, seeds, u2, host, L, S, C, F, g)
  /\ \A y \in u2 : g[y] = 0 /\ \A s \in Side : st[y].owner[s] = Home[s] /\ F[s] = Home[s]
  /\ a \in Side /\ Home[a] = m /\ u2 = Machine \ {m}

LEMMA ToldWorld ==
  ASSUME NEW m, NEW L, NEW S, NEW C, NEW F, NEW g, NEW u2, NEW a, Tells(m, L, S, C, F, g, u2, a),
         NEW p, p = Append(inbox[host], SideDrop(a)), NEW k, k = Len(inbox[host]) + 1,
         NEW q2, q2 = [inbox EXCEPT ![host] = p], NEW g2, g2 = [g EXCEPT ![host] = k]
  PROVE  World(st, q2, seeds, u2, host, L, S, C, F, g2)
<1> DEFINE y == host
           r == st[y]
           q == inbox[y]
           msg == SideDrop(a)
<1>1. /\ World(st, inbox, seeds, u2, y, L, S, C, F, g)
      /\ \A z \in u2 : g[z] = 0 /\ \A s \in Side : st[z].owner[s] = Home[s] /\ F[s] = Home[s]
      /\ a \in Side /\ Home[a] = m /\ u2 = Machine \ {m}
  BY DEF Tells
<1>2. /\ st \in [Machine -> States] /\ inbox \in [Machine -> Seq(Messages)] /\ g \in [Machine -> Nat]
      /\ Present(F, u2, y) /\ y \in u2 /\ y \in Machine
  BY <1>1 DEF World, Present
<1>3. /\ g[y] = 0 /\ \A z \in u2 : /\ g[z] = 0 /\ st[z].owner[a] = Home[a] /\ F[a] = Home[a]
  BY <1>1, <1>2
<1>4. Place(y, r, q, 0, L, S, C, F, u2, y)
  BY <1>1, <1>2, <1>3, PlaceIs
<1>5. msg \in Messages /\ msg.what = "side_drop" /\ msg.body.side = a
  BY <1>1, SideDropIs
<1>6. Elsewhere(y, r, q, L, S, C, F, u2, y, F)
  BY <1>4 DEF Elsewhere
<1>7. r.pos \in Nat /\ Len(L) \in Nat /\ Total(r, q, 0) \in Nat
  BY <1>4, PlaceHas DEF PlaceFields
<1>8. ASSUME NEW i \in Nat, i < Len(L), i >= Total(r, q, 0)
      PROVE  F[Writer(S[i])] # y /\ Writer(S[i]) # a
  <2>1. i >= Total(st[y], inbox[y], g[y])
    BY <1>3, <1>8
  <2>2. PICK w \in u2 \ {y} : F[Writer(S[i])] = w
    <3> DEFINE t == st
               n == seeds
               qq == inbox
    <3>1. World(t, qq, n, u2, y, L, S, C, F, g) /\ y \in u2 /\ i >= Total(t[y], qq[y], g[y])
      BY <1>1, <1>2, <2>1
    <3> HIDE DEF t, n, qq, y
    <3>2. \E w \in u2 \ {y} : /\ F[Writer(S[i])] = w /\ Ahead(w, t, qq, L, S, C, F, g, u2) /\ Writer(S[i]) = S[i].turn
                              /\ S[i].turn \in Side
      BY <1>8, <3>1, Later
    <3> QED
      BY <3>2
  <2>3. F[a] \notin u2
    BY <1>1, <1>2, <1>3
  <2> QED
    BY <2>2, <2>3
<1>9. \A i \in r.pos..Len(L)-1 : i >= Total(r, q, 0) => F[Writer(S[i])] # y
  BY <1>7, <1>8
<1>10. Notified(y, r, q, L, S, C, F, u2, y, F, msg)
  BY <1>5, <1>6, <1>9 DEF Notified
<1>11. NotifiedHas(y, r, q, p, k, L, S, C, y, F, msg)
  <2> DEFINE h == host
             F2 == F
             z == host
  <2>1. p = Append(q, msg) /\ k = Len(q) + 1 /\ Notified(z, r, q, L, S, C, F, u2, h, F2, msg)
    BY <1>10
  <2> HIDE DEF r, q, msg, h, F2, z
  <2>2. NotifiedHas(z, r, q, p, k, L, S, C, h, F2, msg)
    BY <2>1, NotifiedMach
  <2> QED
    BY <2>2 DEF h, F2, z
<1>12. /\ Mach(y, r, p, k, L, S, C, F, y) /\ Total(r, p, k) = Total(r, q, 0) /\ GapAt(r, k) = Total(r, q, 0)
       /\ p \in Seq(Messages) /\ k \in Nat \ {0} /\ p[k] = msg
  BY <1>11 DEF NotifiedHas
<1>13. /\ q2 \in [Machine -> Seq(Messages)] /\ g2 \in [Machine -> Nat] /\ q2[y] = p /\ g2[y] = k
       /\ \A z \in Machine : z # y => q2[z] = inbox[z] /\ g2[z] = g[z]
  BY <1>2, <1>12
<1>14. Views(y, r, p, k, F, u2, y)
  <2>1. Views(y, r, q, 0, F, u2, y)
    BY <1>4 DEF Place
  <2> QED
    BY <2>1 DEF Views
<1>15. Dropped(y, st, q2, L, S, F, g2, u2, y)
  <2>1. \A z \in u2 : (z # y => g2[z] = 0) /\ st[z].owner[a] = Home[a]
    BY <1>1, <1>3, <1>13
  <2>2. \A i \in GapAt(r, k)..Len(L)-1 : Writer(S[i]) # a
    BY <1>7, <1>8, <1>12
  <2>3. F[a] = Home[a] /\ Home[a] \notin u2
    BY <1>1, <1>2, <1>3
  <2> QED
    BY <1>1, <1>5, <1>12, <1>13, <2>1, <2>2, <2>3 DEF Dropped
<1>16. ASSUME NEW z \in u2
       PROVE  /\ Mach(z, st[z], q2[z], g2[z], L, S, C, F, y)
              /\ Total(st[z], q2[z], g2[z]) = Total(st[z], inbox[z], g[z])
              /\ Dropped(z, st, q2, L, S, F, g2, u2, y)
              /\ Views(z, st[z], q2[z], g2[z], F, u2, y)
  <2>1. CASE z = y
    BY <2>1, <1>3, <1>12, <1>13, <1>14, <1>15
  <2>2. CASE z # y
    <3>1. /\ z \in Machine /\ g[z] = 0 /\ Mach(z, st[z], inbox[z], g[z], L, S, C, F, y)
          /\ Views(z, st[z], inbox[z], g[z], F, u2, y)
      BY <1>1, <1>3, <1>16, Members
    <3>2. q2[z] = inbox[z] /\ g2[z] = 0
      BY <1>13, <2>2, <3>1
    <3>3. Dropped(z, st, q2, L, S, F, g2, u2, y)
      BY <3>2 DEF Dropped
    <3> QED
      BY <3>1, <3>2, <3>3
  <2> QED
    BY <2>1, <2>2
<1>17. Hands(st, inbox, seeds, u2, y, L, S, C, F, g, st, q2, g2, F)
  BY <1>1, <1>2, <1>13, <1>16 DEF Hands
<1>18. World(st, q2, seeds, u2, y, L, S, C, F, g2)
  <2> DEFINE t == st
             t2 == st
             F2 == F
             n == seeds
             qq == inbox
  <2>1. Hands(t, qq, n, u2, y, L, S, C, F, g, t2, q2, g2, F2)
    BY <1>17
  <2> HIDE DEF t, t2, F2, n, y, qq
  <2>2. World(t2, q2, n, u2, y, L, S, C, F2, g2)
    BY <2>1, HandsWorld
  <2> QED
    BY <2>2 DEF t2, F2, n
<1> QED
  BY <1>18

LEMMA LeaveStep ==
  ASSUME OneSideEach, IInv, NEW m \in Machine, Leave(m), OnCourse'
  PROVE  IInv'
<1> DEFINE u2 == Machine \ {m}
<1>1. /\ up = Machine /\ m \in MayLeave \ {host} /\ up' = u2
      /\ Post({host}, Told1(m)) /\ UNCHANGED <<st, seeds, host, error, cleared>>
  BY DEF Leave, Told1
<1>c. m \notin cleared
  BY DEF Leave, OnCourse
<1>2. PICK L, S, C, F, g : World(st, inbox, seeds, up, host, L, S, C, F, g)
  BY DEF IInv
<1>3. Goes1(m, L, S, C, F, g)
  BY <1>1, <1>2, <1>c DEF Goes1
<1>4. PICK L2, S2 : World(st, inbox, seeds, u2, host, L2, S2, C, F, g)
  <2> HIDE DEF u2
  <2>1. u2 = Machine \ {m}
    BY DEF u2
  <2> QED
    BY <1>3, <2>1, LeftWorld
<1>5. /\ inbox \in [Machine -> Seq(Messages)] /\ host \in Machine /\ host \in u2
  BY <1>4 DEF World, Present
<1>6. inbox' = [n \in Machine |-> IF n = host THEN inbox[n] \o Told1(m) ELSE inbox[n]]
  BY <1>1, <1>5 DEF Post
<1>7. error = {} /\ host \in Hosts
  BY DEF IInv
<1>8. CASE Told1(m) = <<>>
  <2>1. \A n \in Machine : inbox[n] \o <<>> = inbox[n]
    BY <1>5
  <2>2. inbox' = inbox
    BY <1>5, <1>6, <1>8, <2>1
  <2>3. World(st', inbox', seeds', up', host', L2, S2, C, F, g)
    BY <1>1, <1>4, <2>2
  <2> QED
    BY <1>1, <1>7, <2>3, WorldNow
<1>9. ASSUME NEW a \in Side, Home[a] = m, Told1(m) = <<SideDrop(a)>> PROVE IInv'
  <2> DEFINE p == Append(inbox[host], SideDrop(a))
             k == Len(inbox[host]) + 1
             q2 == [inbox EXCEPT ![host] = p]
             g2 == [g EXCEPT ![host] = k]
  <2>1. \A y \in Machine : /\ g[y] = 0 /\ \A s \in Side : st[y].owner[s] = Home[s] /\ F[s] = Home[s]
    BY <1>3, AllHome
  <2>2. Tells(m, L2, S2, C, F, g, u2, a)
    BY <1>4, <1>9, <2>1 DEF Tells
  <2>3. World(st, q2, seeds, u2, host, L2, S2, C, F, g2)
    <3> HIDE DEF u2
    <3>1. p = Append(inbox[host], SideDrop(a)) /\ k = Len(inbox[host]) + 1
          /\ q2 = [inbox EXCEPT ![host] = p] /\ g2 = [g EXCEPT ![host] = k]
      OBVIOUS
    <3> HIDE DEF p, k, q2, g2
    <3> QED
      BY <2>2, <3>1, ToldWorld
  <2>4. inbox' = q2
    <3>1. SideDrop(a) \in Messages
      BY <1>9, SideDropIs
    <3> DEFINE c == SideDrop(a)
    <3> HIDE DEF c
    <3>2. inbox[host] \o <<c>> = Append(inbox[host], c)
      BY <1>5, <3>1 DEF c
    <3> QED
      BY <1>5, <1>6, <1>9, <3>2 DEF c
  <2>5. World(st', inbox', seeds', up', host', L2, S2, C, F, g2)
    <3> HIDE DEF u2, q2, g2
    <3> QED
      BY <1>1, <2>3, <2>4
  <2> QED
    BY <1>1, <1>7, <2>5, WorldNow
<1>10. Told1(m) = <<>> \/ \E a \in Side : Home[a] = m /\ Told1(m) = <<SideDrop(a)>>
  BY <1>1, Told1Is
<1> QED
  BY <1>8, <1>9, <1>10

-----------------------------------------------------------------------------
(* The theorems.                                                                   *)

LEMMA StartIs ==
  /\ Start \in States /\ Start.rec = <<>> /\ Start.pos = 0 /\ Start.upto = 0 /\ Start.game = <<>>
  /\ Start.undo = 0 /\ Start.run = NoRun /\ Start.turn = 1 /\ Start.inited /\ Start.owner = Home
  /\ Start.mode = [s \in Side |-> "human"] /\ Start.expect = None
<1>1. Home \in [Side -> Machine] /\ 1 \in Side /\ NoRun \in Runs
  BY RemoteAssumption, SideIs, NoRunIs
<1>2. [s \in Side |-> "human"] \in [Side -> {"human", "ai", "idle"}]
  OBVIOUS
<1>3. <<>> \in Seq(Entries) /\ <<>> \in Seq(Happens) /\ 0 \in Nat
  OBVIOUS
<1>4. Start \in States
  BY <1>1, <1>2, <1>3 DEF Start, States
<1> QED
  BY <1>4 DEF Start

LEMMA FirstLog ==
  ASSUME NEW L, L = <<>>, NEW S, S = [i \in {0} |-> Base]
  PROVE  Log(L, S) /\ Len(L) = 0 /\ S[0] = Base
<1>1. L \in Seq(Entries) /\ Len(L) = 0 /\ 0..0 = {0} /\ 1..0 = {} /\ S[0] = Base /\ DOMAIN L = {}
  OBVIOUS
<1>2. /\ Base \in Stages /\ Rests(Base) /\ Base.undo = 0 /\ Base.inited /\ ~Base.remote /\ Base.kind = None
      /\ Base.left = <<>> /\ Base.cmds = 0 /\ Base.big = 0 /\ Base.seeds = 0
  BY BaseIs DEF Base
<1>3. S \in [0..Len(L) -> Stages]
  BY <1>1, <1>2
<1>4. MaxCommands \in Nat /\ None \notin Kinds
  BY RemoteAssumption
<1>5. Counts(L, S, 0)
  <2>1. ~AsksServer(Base.left) /\ DOMAIN Base.left = {}
    BY <1>2 DEF AsksServer
  <2>2. Cardinality({j \in 1..0 : L[j].kind \in Kinds}) = 0
    <3>1. {j \in 1..0 : L[j].kind \in Kinds} = {}
      BY <1>1
    <3> QED
      BY <3>1, FS_EmptySet
  <2>3. Base.kind # "move"
    BY <1>2, <1>4 DEF Kinds
  <2> QED
    BY <1>1, <1>2, <1>4, <2>1, <2>2, <2>3 DEF Counts, Drawn
<1>6. Shapes(Base)
  <2>1. Base.kind # "end_turn"
    BY <1>2, <1>4 DEF Kinds
  <2> QED
    BY <1>2, <2>1 DEF Shapes
<1>7. Begun(L, S, 0)
  BY <1>1, <1>2 DEF Begun
<1> QED
  BY <1>1, <1>3, <1>5, <1>6, <1>7 DEF Log, Sound

LEMMA InitInv ==
  ASSUME Init
  PROVE  IInv
<1>1. /\ st = [m \in Machine |-> Start] /\ inbox = [m \in Machine |-> <<>>] /\ seeds = 0 /\ up = Machine
      /\ host \in Hosts /\ error = {}
  BY DEF Init
<1> DEFINE L == <<>>
           S == [i \in {0} |-> Base]
           g == [m \in Machine |-> 0]
           F == Home
<1>2. Log(L, S) /\ Len(L) = 0 /\ S[0] = Base
  BY FirstLog
<1>3. /\ Base \in Stages /\ Rests(Base) /\ Base.undo = 0 /\ Base.inited /\ ~Base.remote /\ Base.kind = None
      /\ Base.left = <<>> /\ Base.cmds = 0 /\ Base.big = 0 /\ Base.seeds = 0 /\ Base.turn = 1
  BY BaseIs DEF Base
<1>4. Home \in [Side -> Machine] /\ Hosts \subseteq Machine /\ 1 \in Side
  BY RemoteAssumption, SideIs
<1>5. st \in [Machine -> States] /\ inbox \in [Machine -> Seq(Messages)] /\ g \in [Machine -> Nat]
  BY <1>1, StartIs
<1> HIDE DEF L, S
<1>6. Leads(st, inbox, L, S, 0, F, g, up)
  BY <1>2 DEF Leads
<1>7. Settled(st, S, 0, F, up, host)
  BY <1>2, <1>3 DEF Settled
<1>8. Present(F, up, host)
  BY <1>1, <1>4 DEF Present
<1>9. ASSUME NEW m \in up
      PROVE  /\ Mach(m, st[m], inbox[m], g[m], L, S, 0, F, host)
             /\ Dropped(m, st, inbox, L, S, F, g, up, host)
             /\ Views(m, st[m], inbox[m], g[m], F, up, host)
  <2> DEFINE r == st[m]
             q == inbox[m]
  <2>1. r = Start /\ q = <<>> /\ g[m] = 0 /\ m \in Machine
    BY <1>1, <1>9
  <2>2. /\ r.rec = <<>> /\ r.pos = 0 /\ r.upto = 0 /\ r.game = <<>> /\ r.undo = 0 /\ r.run = NoRun
        /\ r.turn = 1 /\ r.inited /\ r.owner = Home /\ r.mode = [s \in Side |-> "human"]
    BY <2>1, StartIs
  <2>3. Len(r.rec) = 0 /\ Len(r.game) = 0 /\ 1..0 = {} /\ Len(q) = 0
    BY <2>1, <2>2
  <2>4. Keeps(r, L)
    BY <1>2, <2>2, <2>3 DEF Keeps
  <2>5. Stands(r, S[r.pos])
    <3>1. r.inited = TRUE
      <4>1. Start.inited = TRUE
        BY StartIs DEF Start
      <4> QED
        BY <2>1, <4>1
    <3>2. Base.inited = TRUE
      BY DEF Base
    <3>3. /\ r.turn = Base.turn /\ r.inited = Base.inited /\ r.run.kind = Base.kind /\ r.run.left = Base.left
      BY <1>3, <2>2, <3>1, <3>2, NoRunIs
    <3>4. Idle(r) /\ r.run = NoRun /\ r.undo <= Base.undo
      BY <1>3, <2>2, NoRunIs DEF Idle
    <3>5. /\ r.run.phase = "idle" /\ ~r.run.seeded /\ ~r.run.local /\ ~r.run.required
      BY <2>2, NoRunIs
    <3>6. S[r.pos] = Base
      BY <1>2, <2>2
    <3>7. Stands(r, Base)
      BY <1>3, <3>3, <3>4, <3>5 DEF Stands
    <3> QED
      BY <3>6, <3>7
  <2>6. Inbox(r, q, 0, L)
    BY <2>3 DEF Inbox
  <2>7. Sent(r, q, 0, L, 0)
    BY <2>2, <2>3 DEF Sent, Total
  <2>8. Pending(m, r, 0, L, S, F)
    <3>1. 0..0-1 = {} /\ 0+1..0-1 = {}
      OBVIOUS
    <3> QED
      BY <1>2, <2>2, <3>1, NoRunIs DEF Pending
  <2>9. Held(m, r, 0, F, host)
    BY <2>2 DEF Held, Own
  <2>10. Stacked(m, r, L, S, 0, F, host)
    BY <1>2, <1>3, <2>2, NoRunIs DEF Stacked
  <2>11. Mach(m, r, q, 0, L, S, 0, F, host)
    BY <2>4, <2>5, <2>6, <2>7, <2>8, <2>9, <2>10 DEF Mach
  <2>12. Dropped(m, st, inbox, L, S, F, g, up, host)
    BY <2>1 DEF Dropped
  <2>13. Views(m, r, q, 0, F, up, host)
    BY <2>2 DEF Views, Own
  <2> QED
    BY <2>1, <2>11, <2>12, <2>13
<1>10. World(st, inbox, seeds, up, host, L, S, 0, F, g)
  BY <1>1, <1>2, <1>3, <1>5, <1>6, <1>7, <1>8, <1>9 DEF World
<1> QED
  BY <1>1, <1>10 DEF IInv

LEMMA StepInv ==
  ASSUME OneSideEach, IInv, [Next]_vars, OnCourse'
  PROVE  IInv'
<1>1. CASE Next
  <2> PICK m \in Machine : Works(m) \/ Plays(m)
    BY <1>1 DEF Next
  <2>1. CASE Choose(m)
    BY <2>1, ChooseStep
  <2>2. CASE Pull(m)
    BY <2>2, PullStep
  <2>3. CASE Require(m)
    BY <2>3, RequireStep
  <2>4. CASE Take(m)
    BY <2>4, TakeStep
  <2>5. CASE Send(m)
    BY <2>5, SendStep
  <2>6. CASE ReceiveEntry(m)
    BY <2>6, ReceiveEntryStep
  <2>7. CASE ReceiveControl(m)
    BY <2>7, ReceiveControlStep
  <2>8. ASSUME NEW mode \in {"human", "ai"}, KeepSide(m, mode) PROVE IInv'
    BY <2>8, KeepSideStep
  <2>9. CASE IdleSide(m)
    BY <2>9, IdleSideStep
  <2>10. ASSUME NEW n \in Machine, GiveSide(m, n) PROVE IInv'
    BY <2>10, GiveSideStep
  <2>11. CASE TimeOut(m)
    BY <2>11, TimeOutStep
  <2>12. ASSUME NEW kind \in Kinds, Perform(m, kind) PROVE IInv'
    BY <2>12, PerformStep
  <2>13. CASE Undo(m)
    BY <2>13, UndoStep
  <2>14. CASE Commit(m)
    BY <2>14, CommitStep
  <2>15. CASE Leave(m)
    BY <2>15, LeaveStep
  <2> QED
    BY <2>1, <2>2, <2>3, <2>4, <2>5, <2>6, <2>7, <2>8, <2>9, <2>10, <2>11, <2>12, <2>13, <2>14, <2>15
       DEF Works, Reads, Plays
<1>2. CASE UNCHANGED vars
  <2>1. PICK L, S, C, F, g : World(st, inbox, seeds, up, host, L, S, C, F, g)
    BY DEF IInv
  <2>2. World(st', inbox', seeds', up', host', L, S, C, F, g)
    BY <1>2, <2>1 DEF vars
  <2>3. cleared' = cleared /\ error' = {} /\ host' \in Hosts
    BY <1>2 DEF vars, IInv
  <2> QED
    BY <2>2, <2>3, WorldNow
<1> QED
  BY <1>1, <1>2

-----------------------------------------------------------------------------
(* Types, of the machines that left too.                                           *)

Typed(r) ==
  /\ r.pos \in 0..Len(r.rec) /\ r.upto \in 0..Len(r.rec)
  /\ r.undo \in 0..MaxCommands /\ r.turn \in Side /\ r.inited \in BOOLEAN
  /\ r.owner \in [Side -> Machine]
  /\ r.run.phase \in {"idle", "look", "pull"}
  /\ Idle(r) <=> r.run.left = <<>>
  /\ r.game \in Seq(Events)

LEMMA LogEvents ==
  ASSUME NEW L, NEW S, Log(L, S), NEW i \in 1..Len(L)
  PROVE  Event(L[i]) \in Events
<1> DEFINE e == L[i]
           s == S[i - 1]
<1>1. e \in Entries /\ s \in Stages /\ Fitting(s, e)
  BY LogTypes DEF Log
<1>2. Event(e) = [kind |-> e.kind, by |-> e.by, side |-> e.side]
  BY DEF Event
<1> HIDE DEF e, s
<1>3. CASE Rests(s)
  <2>1. e.kind \in Kinds /\ e.side = s.turn /\ e.by \in Machine /\ s.turn \in Side
    BY <1>1, <1>3, StageFields DEF Fitting
  <2> QED
    BY <1>2, <2>1 DEF e, Events
<1>4. CASE ~Rests(s)
  <2>1. Actor(s) = Head(s.left) /\ (Head(s.left) # Server => Head(s.left) \in Side)
    BY <1>1, <1>4, ActorIs
  <2>2. /\ e.side = Head(s.left)
        /\ Head(s.left) = Server => e.kind = "seed" /\ e.by \in Nat
        /\ Head(s.left) # Server => e.kind = "choice" /\ e.by \in Machine
    BY <1>1, <1>4 DEF Fitting
  <2> QED
    BY <1>2, <2>1, <2>2 DEF e, Events
<1> QED
  BY <1>3, <1>4

LEMMA TypedIs ==
  ASSUME IInv, NEW m \in up
  PROVE  Typed(st[m]) /\ m \in Machine
<1>1. PICK L, S, C, F, g : Here(m, L, S, C, F, g)
  BY HereIs
<1> DEFINE r == st[m]
           q == inbox[m]
           k == g[m]
<1>2. Place(m, r, q, k, L, S, C, F, up, host) /\ r \in States /\ m \in Machine /\ Log(L, S)
  BY <1>1 DEF Here, Place
<1>3. PlaceFields(r, q, k, L, S, C)
  BY <1>2, PlaceHas
<1>4. /\ r.pos \in Nat /\ r.pos <= Len(r.rec) /\ Len(r.rec) \in Nat /\ r.upto \in Nat /\ r.upto <= Len(r.rec)
      /\ r.pos \in 0..Len(L) /\ Stands(r, S[r.pos]) /\ S[r.pos] \in Stages /\ r.undo \in Nat
      /\ r.game \in Seq(Happens) /\ Len(r.game) = r.pos
      /\ \A i \in 1..r.pos : r.game[i] = Event(L[i])
  BY <1>3 DEF PlaceFields
<1>5. r.turn \in Side /\ r.inited \in BOOLEAN /\ r.owner \in [Side -> Machine] /\ r.run.phase \in {"idle", "look", "pull"}
  BY <1>2, StateFields
<1> HIDE DEF r, q, k
<1>6. r.undo <= MaxCommands
  <2>1. Counts(L, S, r.pos)
    BY <1>2, <1>4 DEF Log, Sound
  <2>2. S[r.pos].undo \in Nat /\ S[r.pos].big \in Nat /\ MaxCommands \in Nat
    BY <1>4, StageFields, RemoteAssumption
  <2>3. /\ S[r.pos].undo + (IF S[r.pos].kind = "move" THEN 1 ELSE 0) <= S[r.pos].big
        /\ S[r.pos].big <= MaxCommands
    BY <2>1 DEF Counts
  <2>4. r.undo <= S[r.pos].undo
    BY <1>4 DEF Stands
  <2> QED
    BY <1>4, <2>2, <2>3, <2>4
<1>7. Idle(r) <=> r.run.left = <<>>
  BY <1>4 DEF Stands, Rests
<1>8. r.game \in Seq(Events)
  <2>1. \A i \in 1..r.pos : i \in 1..Len(L)
    BY <1>4
  <2>2. \A i \in 1..Len(r.game) : r.game[i] \in Events
    BY <1>2, <1>4, <2>1, LogEvents
  <2> QED
    BY <1>4, <2>2
<1>9. Typed(r)
  BY <1>4, <1>5, <1>6, <1>7, <1>8 DEF Typed
<1> QED
  BY <1>2, <1>9 DEF r

\* The rest of TypeOK.
LEMMA GlobalIs ==
  ASSUME IInv, OneSeed
  PROVE  host \in Hosts /\ up \subseteq Machine /\ error \subseteq Machine /\ seeds \in 0..MaxCommands
<1>1. PICK L, S, C, F, g : World(st, inbox, seeds, up, host, L, S, C, F, g)
  BY DEF IInv
<1>2. up \subseteq Machine /\ Log(L, S) /\ seeds = S[Len(L)].seeds
  BY <1>1 DEF World, Present
<1>3. Len(L) \in Nat /\ Len(L) \in 0..Len(L) /\ S[Len(L)] \in Stages
  BY <1>2, LogTypes
<1> DEFINE s == S[Len(L)]
<1>4. s.seeds \in Nat /\ s.big \in Nat /\ MaxCommands \in Nat
  BY <1>3, StageFields, RemoteAssumption
<1>5. s.seeds + (IF AsksServer(s.left) THEN 1 ELSE 0) <= s.big /\ s.big <= MaxCommands
  BY <1>2, <1>3 DEF Log, Sound, Counts, Drawn
<1> HIDE DEF s
<1>6. s.seeds \in 0..MaxCommands
  BY <1>4, <1>5
<1> QED
  BY <1>2, <1>6 DEF IInv, s

\* The record is the game.
LEMMA RecordIs ==
  ASSUME IInv
  PROVE  Matches
<1> SUFFICES ASSUME NEW m \in up PROVE st[m].game = PlayedOf(st[m])
  BY DEF Matches
<1>1. PICK L, S, C, F, g : Here(m, L, S, C, F, g)
  BY HereIs
<1> DEFINE r == st[m]
<1>2. PlaceFields(r, inbox[m], g[m], L, S, C)
  BY <1>1, PlaceHas DEF Here
<1>3. /\ r.game \in Seq(Happens) /\ Len(r.game) = r.pos /\ r.pos \in Nat
      /\ r.pos <= Len(r.rec) /\ Len(r.rec) \in Nat
      /\ \A i \in 1..Len(r.rec) : r.rec[i] \in Entries /\ L[i] \in Entries /\ Same(r.rec[i], L[i])
      /\ \A i \in 1..r.pos : r.game[i] = Event(L[i])
  BY <1>2 DEF PlaceFields
<1> HIDE DEF r
<1>4. \A i \in 1..r.pos : r.game[i] = Event(r.rec[i])
  <2> SUFFICES ASSUME NEW i \in 1..r.pos PROVE r.game[i] = Event(r.rec[i])
    OBVIOUS
  <2>1. i \in 1..Len(r.rec)
    BY <1>3
  <2>2. Same(r.rec[i], L[i]) /\ r.game[i] = Event(L[i])
    BY <1>3, <2>1
  <2> QED
    BY <2>2 DEF Same, Event
<1>5. r.game = [i \in 1..r.pos |-> r.game[i]]
  BY <1>3
<1>6. [i \in 1..r.pos |-> r.game[i]] = [i \in 1..r.pos |-> Event(r.rec[i])]
  BY <1>4, Zenon
<1> QED
  BY <1>5, <1>6 DEF PlayedOf, r

-----------------------------------------------------------------------------
(* What each action does to the games.                                             *)

Touches(m, x) == m \in up /\ st' = [st EXCEPT ![m] = x] /\ up' = up
Silent(m) == \E x : Touches(m, x) /\ x.game = st[m].game
Grows(r, x) == \E e : x.game = Append(r.game, e)
Adds(m)   == \E x : Touches(m, x) /\ Grows(st[m], x)

LEMMA IsSilent ==
  ASSUME NEW m \in up, NEW x, st' = [st EXCEPT ![m] = x], up' = up, x.game = st[m].game
  PROVE  Silent(m)
  BY DEF Silent, Touches

LEMMA IsAdding ==
  ASSUME NEW m \in up, NEW x, st' = [st EXCEPT ![m] = x], up' = up, Grows(st[m], x)
  PROVE  Adds(m)
  BY DEF Adds, Touches

LEMMA RecordedGame ==
  ASSUME NEW m \in Machine, NEW r \in States, NEW kind \in Kinds, NEW script \in Scripts[kind],
         NEW x, x = Recorded(m, r, kind, script)
  PROVE  Grows(r, x)
<1> DEFINE e == Entry(kind, m, r.turn, script)
           r1 == [r EXCEPT !.rec = Append(@, e)]
<1>1. r.turn \in Asks /\ kind \in Things /\ m \in Machine \cup Nat
  BY StateFields DEF Asks, Things
<1>2. script \in Seq(Asks)
  BY ScriptIs
<1>3. e \in Entries /\ e.kind = kind
  BY <1>1, <1>2, EntryIs
<1>4. x = Begins(m, r1, e)
  BY DEF Recorded
<1> HIDE DEF e, r1
<1>5. Appended(r, r1, e)
  BY <1>3, AppendIs DEF r1
<1>6. r1 \in States /\ r1.game = r.game
  BY <1>5 DEF Appended
<1>7. BeginsFields(m, r1, e, Begins(m, r1, e))
  BY <1>3, <1>6, BeginsIs
<1>8. Begins(m, r1, e).game = Append(r1.game, Event(e))
  BY <1>7 DEF BeginsFields
<1> QED
  BY <1>4, <1>6, <1>8 DEF Grows

\* The answer to a question that m has.
LEMMA AnsweredGame ==
  ASSUME NEW m, NEW r \in States, r.run.left # <<>>, NEW e \in Entries, NEW c \in Nat,
         NEW x, x = Answered(m, r, e, c)
  PROVE  Grows(r, x)
<1> DEFINE l == Tail(r.run.left)
<1>1. AnsweredFields(m, r, e, c, l, x)
  BY AnsweredIs
<1> HIDE DEF l
<1> QED
  BY <1>1 DEF AnsweredFields, Grows

\* A machine that waits has a question.
LEMMA WaitsFor ==
  ASSUME IInv, NEW m \in up, st[m].run.phase \in {"look", "pull"}
  PROVE  st[m].run.left # <<>>
<1>1. Idle(st[m]) <=> st[m].run.left = <<>>
  BY TypedIs DEF Typed
<1> QED
  BY <1>1 DEF Idle

LEMMA PerformGame ==
  ASSUME IInv, NEW m \in Machine, NEW kind \in Kinds, Perform(m, kind)
  PROVE  Adds(m)
<1>1. m \in up /\ up' = up
  BY DEF Perform
<1>2. PICK script \in Scripts[kind] : st' = [st EXCEPT ![m] = Recorded(m, st[m], kind, script)]
  BY DEF Perform
<1>3. st[m] \in States
  BY <1>1, HereIs DEF Here
<1> DEFINE r == st[m]
           x == Recorded(m, r, kind, script)
<1>4. Grows(r, x)
  BY <1>3, RecordedGame
<1> HIDE DEF x
<1>5. st' = [st EXCEPT ![m] = x]
  BY <1>2 DEF x
<1> QED
  BY <1>1, <1>4, <1>5, IsAdding

LEMMA CommitGame ==
  ASSUME IInv, NEW m \in Machine, Commit(m)
  PROVE  Silent(m)
<1> DEFINE r == st[m]
           x == [r EXCEPT !.undo = 0]
<1>1. m \in up /\ up' = up /\ st' = [st EXCEPT ![m] = x]
  BY DEF Commit
<1>2. r \in States
  BY <1>1, HereIs DEF Here
<1>3. x.game = r.game
  BY <1>2, Zenon DEF States
<1> HIDE DEF x
<1> QED
  BY <1>1, <1>3, IsSilent

LEMMA TimeOutGame ==
  ASSUME IInv, NEW m \in Machine, TimeOut(m)
  PROVE  Silent(m)
<1> DEFINE r == st[m]
           x == [r EXCEPT !.expect = None]
<1>1. m \in up /\ up' = up /\ st' = [st EXCEPT ![m] = x]
  BY DEF TimeOut
<1>2. r \in States
  BY <1>1, HereIs DEF Here
<1>3. x.game = r.game
  BY <1>2, Zenon DEF States
<1> HIDE DEF x
<1> QED
  BY <1>1, <1>3, IsSilent

LEMMA RequireGame ==
  ASSUME IInv, NEW m \in Machine, Require(m)
  PROVE  Silent(m)
<1> DEFINE r == st[m]
           x == [r EXCEPT !.run.required = TRUE]
<1>1. m \in up /\ up' = up /\ st' = [st EXCEPT ![m] = x]
  BY DEF Require, Looping
<1>2. r \in States
  BY <1>1, HereIs DEF Here
<1>3. Flagged(r, x)
  BY <1>2, RequiredIs
<1> HIDE DEF x
<1>4. x.game = r.game
  BY <1>3 DEF Flagged, Lies
<1> QED
  BY <1>1, <1>4, IsSilent

LEMMA SendGame ==
  ASSUME IInv, NEW m \in Machine, Send(m)
  PROVE  Silent(m)
<1> DEFINE r == st[m]
           x == Flushed(r)
<1>1. m \in up /\ up' = up /\ st' = [st EXCEPT ![m] = x]
  BY DEF Send
<1>2. r \in States
  BY <1>1, HereIs DEF Here
<1>3. x.game = r.game
  BY <1>2, FlushedIs
<1> HIDE DEF x
<1> QED
  BY <1>1, <1>3, IsSilent

LEMMA PullGame ==
  ASSUME IInv, NEW m \in Machine, Pull(m)
  PROVE  Silent(m)
<1> DEFINE r == st[m]
           b == Asked(r) = Server /\ r.owner[r.turn] = m
           x == [Flushed(r) EXCEPT !.run.simul = TRUE, !.run.phase = "pull", !.run.local = b]
<1>1. m \in up /\ up' = up /\ st' = [st EXCEPT ![m] = x]
  BY DEF Pull, Looping
<1>2. r \in States
  BY <1>1, HereIs DEF Here
<1>3. b \in BOOLEAN /\ (b => Asked(r) = Server /\ r.owner[r.turn] = m)
  OBVIOUS
<1>4. Pulled(m, r, x)
  <2> HIDE DEF b
  <2> QED
    BY <1>2, <1>3, PulledIs
<1> HIDE DEF x
<1>5. x.game = r.game
  BY <1>4 DEF Pulled, Lies
<1> QED
  BY <1>1, <1>5, IsSilent

LEMMA TakeGame ==
  ASSUME IInv, NEW m \in Machine, Take(m)
  PROVE  Adds(m)
<1> DEFINE r == st[m]
           e == r.rec[r.pos + 1]
           x == Answered(m, r, e, 1)
<1>1. /\ m \in up /\ r.run.phase \in {"look", "pull"} /\ ~AtEnd(r)
      /\ st' = [st EXCEPT ![m] = Taken(m, r, e)] /\ up' = up
  BY DEF Take, Looping
<1>2. PICK L, S, C, F, g : Here(m, L, S, C, F, g)
  BY <1>1, HereIs
<1>3. Place(m, r, inbox[m], g[m], L, S, C, F, up, host) /\ r \in States
  BY <1>2 DEF Here
<1>4. Fits(e, Asked(r)) /\ ~OtherSide(e, Asked(r))
  BY <1>1, <1>3, TakeMach
<1>5. st' = [st EXCEPT ![m] = x]
  BY <1>1, <1>4 DEF Taken
<1>6. e \in Entries
  <2>1. PlaceFields(r, inbox[m], g[m], L, S, C)
    BY <1>3, PlaceHas
  <2>2. r.rec \in Seq(Entries) /\ r.pos \in Nat /\ r.pos <= Len(r.rec) /\ Len(r.rec) \in Nat
    BY <2>1 DEF PlaceFields
  <2>3. r.pos + 1 \in 1..Len(r.rec)
    BY <1>1, <2>2 DEF AtEnd
  <2> QED
    BY <2>2, <2>3
<1>7. r.run.left # <<>>
  BY <1>1, WaitsFor
<1> HIDE DEF e
<1>8. Grows(r, x)
  BY <1>3, <1>6, <1>7, AnsweredGame
<1> HIDE DEF x
<1> QED
  BY <1>1, <1>5, <1>8, IsAdding

LEMMA ChooseGame ==
  ASSUME IInv, NEW m \in Machine, Choose(m)
  PROVE  Adds(m)
<1> DEFINE r == st[m]
           a == Asked(r)
           e == Entry("choice", m, a, <<>>)
           s == [r EXCEPT !.rec = Append(@, e)]
           s1 == [s EXCEPT !.run.simul = TRUE]
           r1 == Flushed(s1)
           sends == r.run.simul \/ r.turn # a
<1>1. /\ m \in up /\ r.run.phase \in {"look", "pull"} /\ a # Server /\ up' = up
      /\ sends => st' = [st EXCEPT ![m] = Answered(m, r1, e, 1)]
      /\ ~sends => st' = [st EXCEPT ![m] = Answered(m, s, e, 1)]
  BY DEF Choose, Looping, Local
<1>2. r \in States
  BY <1>1, HereIs DEF Here
<1>3. r.run.left # <<>>
  BY <1>1, WaitsFor
<1>4. e \in Entries
  <2>1. a \in Asks
    <3>1. r.run.left \in Seq(Asks)
      BY <1>2, StateFields
    <3> QED
      BY <1>3, <3>1, HeadTail DEF Asked
  <2>2. "choice" \in Things /\ <<>> \in Seq(Asks) /\ m \in Machine \cup Nat
    BY DEF Things
  <2> HIDE DEF a
  <2> QED
    BY <2>1, <2>2, EntryIs
<1> HIDE DEF a, e, sends
<1>5. s \in States /\ s.game = r.game /\ s.run = r.run
  <2>1. Appended(r, s, e)
    BY <1>2, <1>4, AppendIs
  <2> QED
    BY <2>1 DEF Appended
<1> HIDE DEF s
<1>6. s1 \in States /\ s1.game = s.game /\ s1.run.left = s.run.left
  <2> DEFINE u == [s.run EXCEPT !.simul = TRUE]
  <2>1. s.run \in Runs
    BY <1>5, StateFields
  <2>2. u \in Runs /\ u.left = s.run.left
    BY <2>1, Zenon DEF Runs
  <2>3. s1 = [s EXCEPT !.run = u]
    BY <1>5, Zenon DEF States
  <2> HIDE DEF u, s1
  <2>4. s1 \in States /\ s1.game = s.game /\ s1.run = u
    BY <1>5, <2>2, <2>3, Zenon DEF States
  <2> QED
    BY <2>2, <2>4
<1> HIDE DEF s1
<1>7. r1 \in States /\ r1.game = r.game /\ r1.run.left # <<>>
  BY <1>3, <1>5, <1>6, FlushedIs
<1> HIDE DEF r1
<1>8. CASE sends
  <2> DEFINE x == Answered(m, r1, e, 1)
  <2>1. Grows(r1, x)
    BY <1>4, <1>7, AnsweredGame
  <2> HIDE DEF x
  <2>2. Grows(r, x)
    BY <1>7, <2>1 DEF Grows
  <2>3. st' = [st EXCEPT ![m] = x]
    BY <1>1, <1>8 DEF x
  <2> QED
    BY <1>1, <2>2, <2>3, IsAdding
<1>9. CASE ~sends
  <2> DEFINE x == Answered(m, s, e, 1)
  <2>0. s.run.left # <<>>
    BY <1>3, <1>5
  <2>1. Grows(s, x)
    BY <1>4, <1>5, <2>0, AnsweredGame
  <2> HIDE DEF x
  <2>2. Grows(r, x)
    BY <1>5, <2>1 DEF Grows
  <2>3. st' = [st EXCEPT ![m] = x]
    BY <1>1, <1>9 DEF x
  <2> QED
    BY <1>1, <2>2, <2>3, IsAdding
<1> QED
  BY <1>8, <1>9

LEMMA ReceiveEntryGame ==
  ASSUME IInv, NEW m \in Machine, ReceiveEntry(m)
  PROVE  Silent(m) \/ Adds(m)
<1> DEFINE r == st[m]
           q == inbox[m]
           e == Head(q).body
           r1 == [r EXCEPT !.rec = Append(@, e)]
           x == Played(m, r1, e)
<1>1. /\ m \in up /\ r.run.phase \in {"idle", "pull"} /\ AtEnd(r) /\ q # <<>> /\ Head(q).what = "entry"
      /\ st' = [st EXCEPT ![m] = x] /\ up' = up
  BY DEF ReceiveEntry, Ready, Next1
<1>2. r \in States /\ q \in Seq(Messages)
  BY <1>1, HereIs DEF Here
<1>3. e \in Entries
  <2>1. Head(q) \in Messages
    BY <1>1, <1>2, HeadTail
  <2> QED
    BY <1>1, <2>1 DEF Messages
<1> HIDE DEF e
<1>4. Appended(r, r1, e)
  BY <1>2, <1>3, AppendIs
<1> HIDE DEF r1
<1>5. r1 \in States /\ r1.game = r.game /\ r1.run = r.run
  BY <1>4 DEF Appended
<1>6. CASE ~Idle(r1)
  <2>1. x = r1
    BY <1>6 DEF Played
  <2> HIDE DEF x
  <2> QED
    BY <1>1, <1>5, <2>1, IsSilent
<1>7. CASE Idle(r1) /\ Dependent(e)
  <2>1. x = [r1 EXCEPT !.pos = r1.pos + 1]
    BY <1>7, Zenon DEF Played
  <2>2. x.game = r1.game
    BY <1>5, <2>1, Zenon DEF States
  <2> HIDE DEF x
  <2> QED
    BY <1>1, <1>5, <2>2, IsSilent
<1>8. CASE Idle(r1) /\ ~Dependent(e)
  <2>1. x = Begins(m, r1, e)
    BY <1>8 DEF Played
  <2>2. e.kind \in Kinds
    BY <1>3, <1>8, EntryFields DEF Dependent, Things
  <2>3. BeginsFields(m, r1, e, Begins(m, r1, e))
    BY <1>5, <2>2, <1>3, BeginsIs
  <2> HIDE DEF x
  <2>4. Grows(r, x)
    BY <1>5, <2>1, <2>3 DEF BeginsFields, Grows
  <2> QED
    BY <1>1, <2>4, IsAdding
<1> QED
  BY <1>6, <1>7, <1>8

\* A side changes hands, and its turn may begin.
LEMMA InitGame ==
  ASSUME NEW m \in Machine, NEW r, NEW y, Handed(r, y), NEW x, MaybeInit(m, y, x)
  PROVE  x.game = r.game \/ Grows(r, x)
<1>1. y \in States /\ y.game = r.game
  BY DEF Handed
<1>2. CASE x = y
  BY <1>1, <1>2
<1>3. ASSUME NEW script \in Scripts["init_side"], x = Recorded(m, y, "init_side", script)
      PROVE  Grows(r, x)
  <2>1. "init_side" \in Kinds
    BY DEF Kinds
  <2> DEFINE kind == "init_side"
  <2>2. kind \in Kinds /\ script \in Scripts[kind] /\ x = Recorded(m, y, kind, script)
    BY <1>3, <2>1
  <2> HIDE DEF kind
  <2>3. Grows(y, x)
    BY <1>1, <2>2, RecordedGame
  <2> QED
    BY <1>1, <2>3 DEF Grows
<1> QED
  BY <1>2, <1>3 DEF MaybeInit

LEMMA IdleSideGame ==
  ASSUME IInv, NEW m \in Machine, IdleSide(m)
  PROVE  Silent(m)
<1> DEFINE a == Next1(m).body.side
           r == st[m]
           x == [r EXCEPT !.owner[a] = m, !.mode[a] = "idle"]
<1>1. /\ m \in up /\ st' = [st EXCEPT ![m].owner[a] = m, ![m].mode[a] = "idle"] /\ up' = up
  BY DEF IdleSide, Ready
<1>2. r \in States /\ st \in [Machine -> States]
  BY <1>1, HereIs DEF Here
<1>3. st' = [st EXCEPT ![m] = x]
  BY <1>1, <1>2, Zenon
<1>4. x.game = r.game
  BY <1>2, Zenon DEF States
<1> HIDE DEF x
<1> QED
  BY <1>1, <1>3, <1>4, IsSilent

LEMMA GiveSideGame ==
  ASSUME IInv, NEW m \in Machine, NEW o \in Machine, GiveSide(m, o)
  PROVE  Silent(m)
<1> DEFINE a == Next1(m).body.side
           r == st[m]
           ex == IF r.run.phase = "pull" THEN a ELSE r.expect
           x == [r EXCEPT !.owner[a] = m, !.mode[a] = "idle", !.expect = ex]
<1>1. /\ m \in up /\ up' = up
      /\ st' = [st EXCEPT ![m].owner[a] = m, ![m].mode[a] = "idle",
                          ![m].expect = IF r.run.phase = "pull" THEN a ELSE @]
  BY DEF GiveSide, Ready, Waiting
<1>2. r \in States /\ st \in [Machine -> States]
  BY <1>1, HereIs DEF Here
<1>3. st' = [st EXCEPT ![m] = x]
  BY <1>1, <1>2, Zenon DEF States
<1>4. x.game = r.game
  BY <1>2, Zenon DEF States
<1> HIDE DEF x
<1> QED
  BY <1>1, <1>3, <1>4, IsSilent

LEMMA KeepSideGame ==
  ASSUME IInv, NEW m \in Machine, NEW md \in {"human", "ai"}, KeepSide(m, md)
  PROVE  Silent(m) \/ Adds(m)
<1> DEFINE a == Next1(m).body.side
           r == st[m]
           y == [r EXCEPT !.owner[a] = m, !.mode[a] = md]
<1>1. /\ m \in up /\ Ready(m) /\ Next1(m).what = "side_drop" /\ up' = up
      /\ \E x : MaybeInit(m, y, x) /\ st' = [st EXCEPT ![m] = x]
  BY DEF KeepSide, Ready
<1>2. PICK L, S, C, F, g : Here(m, L, S, C, F, g)
  BY <1>1, HereIs
<1> DEFINE F2 == [F EXCEPT ![a] = m]
<1>3. r \in States
  BY <1>2 DEF Here
<1>4. Drops(m, L, S, C, F, g, a, m, F2)
  BY <1>1, <1>2 DEF Drops
<1>5. DropsHas(m, L, S, C, F, g, a, m, F2)
  <2> HIDE DEF a, F2
  <2> QED
    BY <1>4, DropsIs
<1>6. HandHas(r, a, m, md, y)
  <2>1. a \in Side /\ md \in {"human", "ai", "idle"}
    BY <1>5 DEF DropsHas
  <2>2. y = [r EXCEPT !.owner[a] = m, !.mode[a] = md]
    OBVIOUS
  <2> HIDE DEF a, r, y
  <2> QED
    BY <1>3, <2>1, <2>2, HandedSame
<1>7. Handed(r, y)
  BY <1>6 DEF HandHas
<1> HIDE DEF y
<1>8. PICK x : MaybeInit(m, y, x) /\ st' = [st EXCEPT ![m] = x]
  BY <1>1
<1>9. x.game = r.game \/ Grows(r, x)
  BY <1>7, <1>8, InitGame
<1> QED
  BY <1>1, <1>8, <1>9, IsSilent, IsAdding

LEMMA ReceiveControlGame ==
  ASSUME IInv, NEW m \in Machine, ReceiveControl(m)
  PROVE  Silent(m) \/ Adds(m)
<1> DEFINE r == st[m]
           q == inbox[m]
           a == Next1(m).body.side
           o == Next1(m).body.owner
           md == "human"
           ex == IF a = r.turn THEN None ELSE r.expect
           y == [r EXCEPT !.owner[a] = o, !.mode[a] = "human",
                          !.expect = IF a = r.turn THEN None ELSE @]
<1>1. /\ Ready(m) /\ Next1(m).what = "control" /\ m \in up /\ up' = up
      /\ \E x : MaybeInit(m, y, x) /\ st' = [st EXCEPT ![m] = x]
  BY DEF ReceiveControl, Ready
<1>2. PICK L, S, C, F, g : Here(m, L, S, C, F, g)
  BY <1>1, HereIs
<1>3. r \in States
  BY <1>2 DEF Here
<1>4. a \in Side /\ o \in Machine
  <2>1. Dropped(m, st, inbox, L, S, F, g, up, host) /\ q \in Seq(Messages) /\ g[m] \in Nat /\ up \subseteq Machine
    BY <1>1, <1>2, Members DEF Here, World, Present
  <2>2. L \in Seq(Entries) /\ Inbox(r, q, g[m], L)
    BY <1>1, <1>2, Members, LogTypes DEF Here, Mach
  <2>3. q # <<>> /\ Head(q).what # "entry"
    BY <1>1 DEF Ready, Next1
  <2>4. g[m] = 1 /\ Head(q) = q[1]
    BY <2>1, <2>2, <2>3, HeadGap
  <2> QED
    BY <1>1, <2>1, <2>4 DEF Dropped, Next1
<1>5. ex \in Side \cup {None}
  BY <1>3, StateFields
<1>6. y = [r EXCEPT !.owner[a] = o, !.mode[a] = md, !.expect = ex]
  BY <1>3, Zenon DEF States
<1> HIDE DEF y, ex
<1>7. Handed(r, y)
  <2>1. y = Hand(r, a, o, md, ex) /\ md \in {"human", "ai", "idle"}
    BY <1>6 DEF Hand
  <2> HIDE DEF r, a, o, md
  <2>2. HandHas(r, a, o, md, y)
    BY <1>3, <1>4, <1>5, <2>1, HandedIs
  <2> QED
    BY <2>2 DEF HandHas
<1>8. PICK x : MaybeInit(m, y, x) /\ st' = [st EXCEPT ![m] = x]
  BY <1>1
<1>9. x.game = r.game \/ Grows(r, x)
  BY <1>7, <1>8, InitGame
<1> QED
  BY <1>1, <1>8, <1>9, IsSilent, IsAdding

-----------------------------------------------------------------------------
(* One game.                                                                       *)

\* s is the beginning of t.
Starts(s, t) == Len(s) <= Len(t) /\ \A i \in 1..Len(s) : s[i] = t[i]

LEMMA PrefixIs ==
  ASSUME NEW X, NEW s \in Seq(X), NEW t \in Seq(X)
  PROVE  Shared!IsPrefix(s, t) <=> Starts(s, t)
<1>1. Len(s) \in Nat /\ Len(t) \in Nat
  OBVIOUS
<1>2. SubSeq(s, 1, Len(s)) = s
  OBVIOUS
<1>3. Shared!IsPrefix(s, t) <=> Len(s) <= Len(t) /\ SubSeq(s, 1, Len(s)) = SubSeq(t, 1, Len(s))
  BY DEF Shared!IsPrefix
<1>4. CASE Len(s) <= Len(t)
  <2> DEFINE z == SubSeq(t, 1, Len(s))
  <2>1. Len(s) \in 0..Len(t)
    BY <1>1, <1>4
  <2>2. z \in Seq(X) /\ Len(z) = Len(s) /\ \A i \in 1..Len(s) : z[i] = t[i]
    BY <2>1, FirstIs
  <2> HIDE DEF z
  <2>3. s = z <=> \A i \in 1..Len(s) : s[i] = z[i]
    BY <2>2
  <2> QED
    BY <1>2, <1>3, <1>4, <2>2, <2>3 DEF Starts, z
<1>5. CASE ~(Len(s) <= Len(t))
  BY <1>3, <1>5 DEF Starts
<1> QED
  BY <1>4, <1>5

\* Every game in play is the beginning of what the log says.
GameHas(r, T, L) ==
  /\ r.game \in Seq(Happens) /\ Len(r.game) \in Nat /\ Len(r.game) <= T
  /\ \A i \in 1..Len(r.game) : r.game[i] = Event(L[i])

LEMMA GameIs ==
  ASSUME NEW m, NEW L, NEW S, NEW C, NEW F, NEW g,
         World(st, inbox, seeds, up, host, L, S, C, F, g), m \in up
  PROVE  GameHas(st[m], Total(st[m], inbox[m], g[m]), L)
<1> DEFINE r == st[m]
<1>1. Place(m, r, inbox[m], g[m], L, S, C, F, up, host)
  BY PlaceIs
<1>2. PlaceFields(r, inbox[m], g[m], L, S, C)
  BY <1>1, PlaceHas
<1> HIDE DEF r
<1>3. /\ r.game \in Seq(Happens) /\ Len(r.game) = r.pos /\ r.pos \in Nat
      /\ r.pos <= Len(r.rec) /\ Len(r.rec) \in Nat /\ Total(r, inbox[m], g[m]) \in Nat
      /\ Len(r.rec) <= Total(r, inbox[m], g[m])
      /\ \A i \in 1..r.pos : r.game[i] = Event(L[i])
  BY <1>2 DEF PlaceFields
<1>4. r.pos <= Total(r, inbox[m], g[m])
  BY <1>3
<1>5. GameHas(r, Total(r, inbox[m], g[m]), L)
  BY <1>3, <1>4 DEF GameHas
<1> QED
  BY <1>5 DEF r

LEMMA OneGameIs ==
  ASSUME IInv, NEW m \in up, NEW n \in up
  PROVE  Starts(st[m].game, st[n].game) \/ Starts(st[n].game, st[m].game)
<1>1. PICK L, S, C, F, g : World(st, inbox, seeds, up, host, L, S, C, F, g)
  BY DEF IInv
<1> DEFINE a == st[m].game
           b == st[n].game
<1>2. Len(a) \in Nat /\ \A i \in 1..Len(a) : a[i] = Event(L[i])
  BY <1>1, GameIs DEF GameHas
<1>3. Len(b) \in Nat /\ \A i \in 1..Len(b) : b[i] = Event(L[i])
  BY <1>1, GameIs DEF GameHas
<1> HIDE DEF a, b
<1>4. CASE Len(a) <= Len(b)
  <2>1. \A i \in 1..Len(a) : i \in 1..Len(b)
    BY <1>2, <1>3, <1>4
  <2>2. \A i \in 1..Len(a) : a[i] = b[i]
    BY <1>2, <1>3, <2>1
  <2>3. Starts(a, b)
    BY <1>4, <2>2 DEF Starts
  <2> QED
    BY <2>3 DEF a, b
<1>5. CASE ~(Len(a) <= Len(b))
  <2>0. Len(b) <= Len(a)
    BY <1>2, <1>3, <1>5
  <2>1. \A i \in 1..Len(b) : i \in 1..Len(a)
    BY <1>2, <1>3, <2>0
  <2>2. \A i \in 1..Len(b) : b[i] = a[i]
    BY <1>2, <1>3, <2>1
  <2>3. Starts(b, a)
    BY <2>0, <2>2 DEF Starts
  <2> QED
    BY <2>3 DEF a, b
<1> QED
  BY <1>4, <1>5

\* Undo takes back what no other machine has played.
Backs(m) == \E x : /\ Touches(m, x) /\ Starts(x.game, st[m].game)
                   /\ \A n \in up \ {m} : Starts(st[n].game, x.game)

LEMMA UndoGame ==
  ASSUME IInv, NEW m \in Machine, Undo(m)
  PROVE  Backs(m)
<1> DEFINE r == st[m]
           x == [r EXCEPT !.rec = UndoCut(@), !.pos = Len(UndoCut(r.rec)),
                          !.game = TakenBack(@), !.undo = @ - 1]
<1>1. /\ m \in up /\ Idle(r) /\ AtEnd(r) /\ r.undo > 0 /\ r.owner[r.turn] = m /\ r.mode[r.turn] = "human"
      /\ st' = [st EXCEPT ![m] = x] /\ up' = up
  BY Zenon DEF Undo
<1> HIDE DEF x
<1>2. PICK L, S, C, F, g : Here(m, L, S, C, F, g)
  BY <1>1, HereIs
<1>3. /\ Place(m, r, inbox[m], g[m], L, S, C, F, up, host) /\ r \in States
      /\ World(st, inbox, seeds, up, host, L, S, C, F, g)
  BY <1>2 DEF Here
<1> DEFINE b == S[Len(L)].begin
<1>4. UndoesHas(m, r, inbox[m], g[m], L, S, C, F, b)
  <2>1. Undoes(m, r, inbox[m], g[m], L, S, C, F, up, host)
    BY <1>1, <1>3 DEF Undoes, Own
  <2> QED
    BY <2>1, UndoesIs
<1> HIDE DEF b
<1>5. Undone(r, x, b)
  BY <1>1, <1>3, <1>4, UndoneIs DEF x
<1>6. Len(x.game) = b - 1 /\ \A i \in 1..b - 1 : x.game[i] = r.game[i]
  BY <1>5 DEF Undone
<1>7. /\ r.pos = Len(L) /\ Total(r, inbox[m], g[m]) = Len(L) /\ b \in 1..Len(L) /\ C <= b - 1
      /\ PlaceFields(r, inbox[m], g[m], L, S, C)
  BY <1>4 DEF UndoesHas
<1>8. /\ Len(L) \in Nat /\ C \in Nat /\ b - 1 \in Nat /\ b - 1 <= Len(L) /\ Len(r.game) = Len(L)
      /\ \A i \in 1..Len(L) : r.game[i] = Event(L[i])
  <2>1. /\ Len(L) \in Nat /\ C \in Nat /\ Len(r.game) = r.pos
        /\ \A i \in 1..r.pos : r.game[i] = Event(L[i])
    BY <1>7 DEF PlaceFields
  <2>2. b - 1 \in Nat /\ b - 1 <= Len(L)
    BY <1>7, <2>1
  <2> QED
    BY <1>7, <2>1, <2>2
<1>9. Starts(x.game, r.game)
  BY <1>6, <1>8 DEF Starts
<1>10. ASSUME NEW n \in up, n # m PROVE Starts(st[n].game, x.game)
  <2> DEFINE z == st[n].game
  <2>1. Total(st[n], inbox[n], g[n]) = C
    <3> HIDE DEF r
    <3>1. Total(st[m], inbox[m], g[m]) = Len(L)
      BY <1>7 DEF r
    <3> QED
      BY <1>1, <1>3, <1>10, <3>1, Behind
  <2>2. Len(z) \in Nat /\ Len(z) <= C /\ \A i \in 1..Len(z) : z[i] = Event(L[i])
    BY <1>3, <1>10, <2>1, GameIs DEF GameHas
  <2> HIDE DEF z, r
  <2>3. Len(z) \in Nat /\ Len(z) <= b - 1 /\ \A i \in 1..Len(z) : z[i] = Event(L[i])
    BY <1>7, <1>8, <2>2
  <2>4. \A i \in 1..Len(z) : i \in 1..b - 1 /\ i \in 1..Len(L)
    BY <1>8, <2>3
  <2>5. \A i \in 1..Len(z) : z[i] = x.game[i]
    BY <1>6, <1>8, <2>3, <2>4
  <2>6. Starts(z, x.game)
    BY <1>6, <2>3, <2>5 DEF Starts
  <2> QED
    BY <2>6 DEF z
<1>11. Touches(m, x)
  BY <1>1 DEF Touches
<1> QED
  BY <1>9, <1>10, <1>11 DEF Backs

Leaves(m) == m \in up /\ up' = up \ {m} /\ st' = st

LEMMA StepGames ==
  ASSUME IInv, Next
  PROVE  \E m \in Machine : Silent(m) \/ Adds(m) \/ Backs(m) \/ Leaves(m)
<1> PICK m \in Machine : Works(m) \/ Plays(m)
  BY DEF Next
<1>1. CASE Choose(m)
  BY <1>1, ChooseGame
<1>2. CASE Pull(m)
  BY <1>2, PullGame
<1>3. CASE Require(m)
  BY <1>3, RequireGame
<1>4. CASE Take(m)
  BY <1>4, TakeGame
<1>5. CASE Send(m)
  BY <1>5, SendGame
<1>6. CASE ReceiveEntry(m)
  BY <1>6, ReceiveEntryGame
<1>7. CASE ReceiveControl(m)
  BY <1>7, ReceiveControlGame
<1>8. ASSUME NEW md \in {"human", "ai"}, KeepSide(m, md) PROVE Silent(m) \/ Adds(m)
  BY <1>8, KeepSideGame
<1>9. CASE IdleSide(m)
  BY <1>9, IdleSideGame
<1>10. ASSUME NEW o \in Machine, GiveSide(m, o) PROVE Silent(m)
  BY <1>10, GiveSideGame
<1>11. CASE TimeOut(m)
  BY <1>11, TimeOutGame
<1>12. ASSUME NEW kind \in Kinds, Perform(m, kind) PROVE Adds(m)
  BY <1>12, PerformGame
<1>13. CASE Undo(m)
  BY <1>13, UndoGame
<1>14. CASE Commit(m)
  BY <1>14, CommitGame
<1>15. CASE Leave(m)
  <2>1. Leaves(m)
    BY <1>15 DEF Leave, Leaves
  <2> QED
    BY <2>1
<1> QED
  BY <1>1, <1>2, <1>3, <1>4, <1>5, <1>6, <1>7, <1>8, <1>9, <1>10, <1>11, <1>12, <1>13, <1>14, <1>15
     DEF Works, Reads, Plays

\* What every state has, and the steps need of the state behind them.
Facts ==
  /\ st \in [Machine -> States] /\ up \subseteq Machine
  /\ \A m \in up : Typed(st[m])
  /\ \A m, n \in up : Starts(st[m].game, st[n].game) \/ Starts(st[n].game, st[m].game)

LEMMA FactsAre ==
  ASSUME IInv
  PROVE  Facts
<1>1. st \in [Machine -> States]
  <2>1. PICK L, S, C, F, g : World(st, inbox, seeds, up, host, L, S, C, F, g)
    BY DEF IInv
  <2> QED
    BY <2>1 DEF World
<1> QED
  BY <1>1, TypedIs, GlobalIs, OneGameIs DEF Facts

AllTyped == \A m \in Machine : Typed(st[m])

\* A step of m, for all machines.
LEMMA TouchedGames ==
  ASSUME Facts, NEW m, NEW x, Touches(m, x), Facts', AllTyped
  PROVE  /\ m \in Machine /\ m \in up /\ up' = up /\ st'[m] = x
         /\ \A n \in Machine : n # m => st'[n] = st[n]
         /\ AllTyped'
         /\ x.game \in Seq(Events) /\ \A n \in Machine : st[n].game \in Seq(Events)
<1>1. m \in up /\ st' = [st EXCEPT ![m] = x] /\ up' = up /\ m \in Machine /\ st \in [Machine -> States]
  BY DEF Touches, Facts
<1>2. st'[m] = x /\ \A n \in Machine : n # m => st'[n] = st[n]
  BY <1>1
<1>3. Typed(x)
  <2>1. \A n \in up' : Typed(st'[n])
    BY DEF Facts
  <2> QED
    BY <1>1, <1>2, <2>1
<1>4. AllTyped'
  <2>1. \A n \in Machine : Typed(st'[n])
    BY <1>2, <1>3 DEF AllTyped
  <2> QED
    BY <2>1 DEF AllTyped
<1> QED
  BY <1>1, <1>2, <1>3, <1>4 DEF AllTyped, Typed

LEMMA AppendStarts ==
  ASSUME NEW s \in Seq(Events), NEW t, t \in Seq(Events), NEW e, t = Append(s, e)
  PROVE  Len(t) = Len(s) + 1 /\ Len(s) \in Nat /\ Starts(s, t)
<1>1. Len(t) = Len(s) + 1 /\ Len(s) \in Nat
  OBVIOUS
<1>2. \A i \in 1..Len(s) : t[i] = s[i]
  OBVIOUS
<1> QED
  BY <1>1, <1>2 DEF Starts

LEMMA SilentShared ==
  ASSUME Facts, Facts', AllTyped, NEW m, Silent(m)
  PROVE  AllTyped' /\ UNCHANGED Shared!vars
<1>1. PICK x : Touches(m, x) /\ x.game = st[m].game
  BY DEF Silent
<1>2. /\ m \in Machine /\ up' = up /\ st'[m] = x /\ AllTyped'
      /\ \A n \in Machine : n # m => st'[n] = st[n]
  BY <1>1, TouchedGames
<1>3. \A n \in Machine : st'[n].game = st[n].game
  BY <1>1, <1>2
<1>4. [n \in Machine |-> st'[n].game] = [n \in Machine |-> st[n].game]
  BY <1>3, Zenon
<1> QED
  BY <1>2, <1>4 DEF Shared!vars

\* The games before a step of m, and behind it.
Change(m, x) ==
  /\ m \in Machine /\ m \in up /\ up' = up /\ up \subseteq Machine
  /\ st'[m] = x /\ \A n \in Machine : n # m => st'[n] = st[n]
  /\ x.game \in Seq(Events) /\ \A n \in Machine : st[n].game \in Seq(Events)

LEMMA OnlyChanges ==
  ASSUME NEW m, NEW x, Change(m, x)
  PROVE  Shared!Only(m)
<1>1. /\ m \in Machine /\ up' = up /\ st'[m] = x /\ \A n \in Machine : n # m => st'[n] = st[n]
      /\ x.game \in Seq(Events) /\ \A n \in Machine : st[n].game \in Seq(Events)
  BY DEF Change
<1>2. \A n \in Machine : st'[n].game \in Seq(Events)
  BY <1>1
<1>3. [n \in Machine |-> st'[n].game] \in [Machine -> Seq(Events)]
  BY <1>2
<1>4. \A n \in Machine \ {m} : [k \in Machine |-> st'[k].game][n] = [k \in Machine |-> st[k].game][n]
  BY <1>1
<1> QED
  BY <1>1, <1>3, <1>4 DEF Shared!Only

LEMMA ShorterStarts ==
  ASSUME NEW s \in Seq(Events), NEW t \in Seq(Events), Starts(s, t) \/ Starts(t, s), Len(s) <= Len(t)
  PROVE  Starts(s, t)
<1>1. Len(s) \in Nat /\ Len(t) \in Nat
  OBVIOUS
<1>2. CASE Starts(t, s)
  <2>1. Len(t) = Len(s)
    BY <1>1, <1>2 DEF Starts
  <2> QED
    BY <1>2, <2>1 DEF Starts
<1> QED
  BY <1>2

LEMMA AddsShared ==
  ASSUME Facts, Facts', AllTyped, NEW m, Adds(m)
  PROVE  AllTyped' /\ (Shared!Lead(m) \/ Shared!Follow(m))
<1>1. PICK x : Touches(m, x) /\ Grows(st[m], x)
  BY DEF Adds
<1>2. Change(m, x) /\ AllTyped'
  BY <1>1, TouchedGames DEF Change, Facts
<1>3. /\ m \in Machine /\ m \in up /\ up' = up /\ st'[m] = x /\ up \subseteq Machine
      /\ \A n \in Machine : n # m => st'[n] = st[n]
      /\ x.game \in Seq(Events) /\ \A n \in Machine : st[n].game \in Seq(Events)
  BY <1>2 DEF Change
<1> DEFINE s == st[m].game
           t == x.game
<1>4. Len(t) = Len(s) + 1 /\ Len(s) \in Nat /\ Starts(s, t)
  BY <1>1, <1>3, AppendStarts DEF Grows
<1>5. ASSUME NEW n \in up
      PROVE  /\ Starts(st[n].game, s) \/ Starts(s, st[n].game)
             /\ n # m => Starts(st[n].game, t) \/ Starts(t, st[n].game)
             /\ Len(st[n].game) \in Nat /\ n \in Machine
  <2>1. Starts(st[n].game, s) \/ Starts(s, st[n].game)
    BY <1>3 DEF Facts
  <2>2. Starts(st'[n].game, st'[m].game) \/ Starts(st'[m].game, st'[n].game)
    BY <1>3 DEF Facts
  <2>3. n \in Machine /\ st[n].game \in Seq(Events)
    BY <1>3
  <2>4. n # m => Starts(st[n].game, t) \/ Starts(t, st[n].game)
    BY <1>3, <2>2, <2>3
  <2> QED
    BY <2>1, <2>3, <2>4
<1>6. Shared!Extends(m)
  <2>1. Shared!IsPrefix(s, t)
    BY <1>3, <1>4, PrefixIs
  <2>2. [n \in Machine |-> st[n].game][m] = s /\ [n \in Machine |-> st'[n].game][m] = t
    BY <1>3
  <2>3. Shared!Only(m)
    BY <1>2, OnlyChanges
  <2> HIDE DEF s, t
  <2> QED
    BY <1>4, <2>1, <2>2, <2>3 DEF Shared!Extends
<1>7. CASE \A n \in up : Len(st[n].game) <= Len(s)
  <2>1. \A n \in up : Shared!IsPrefix(st[n].game, s)
    <3> SUFFICES ASSUME NEW n \in up PROVE Shared!IsPrefix(st[n].game, s)
      OBVIOUS
    <3>1. Starts(st[n].game, s)
      BY <1>3, <1>5, <1>7, ShorterStarts
    <3> QED
      BY <1>3, <1>5, <3>1, PrefixIs
  <2>2. \A n \in up : Shared!IsPrefix([k \in Machine |-> st[k].game][n], [k \in Machine |-> st[k].game][m])
    BY <1>3, <2>1
  <2>3. Shared!Lead(m)
    BY <1>3, <1>6, <2>2 DEF Shared!Lead
  <2> QED
    BY <1>2, <2>3
<1>8. ASSUME NEW n \in up, ~(Len(st[n].game) <= Len(s)) PROVE Shared!Follow(m)
  <2>1. n # m
    BY <1>4, <1>8
  <2>2. Len(t) <= Len(st[n].game)
    BY <1>4, <1>5, <1>8
  <2>3. Starts(t, st[n].game)
    BY <1>3, <1>5, <2>1, <2>2, ShorterStarts
  <2>4. Shared!IsPrefix(t, st[n].game)
    BY <1>3, <1>5, <2>3, PrefixIs
  <2>5. Shared!IsPrefix([k \in Machine |-> st'[k].game][m], [k \in Machine |-> st[k].game][n])
    BY <1>3, <1>5, <2>4
  <2> QED
    BY <1>3, <1>6, <2>5 DEF Shared!Follow
<1> QED
  BY <1>2, <1>7, <1>8

LEMMA BacksShared ==
  ASSUME Facts, Facts', AllTyped, NEW m, Backs(m)
  PROVE  AllTyped' /\ Shared!TakeBack(m)
<1>1. PICK x : /\ Touches(m, x) /\ Starts(x.game, st[m].game)
               /\ \A n \in up \ {m} : Starts(st[n].game, x.game)
  BY DEF Backs
<1>2. Change(m, x) /\ AllTyped'
  BY <1>1, TouchedGames DEF Change, Facts
<1>3. /\ m \in Machine /\ m \in up /\ up' = up /\ st'[m] = x /\ up \subseteq Machine
      /\ x.game \in Seq(Events) /\ \A n \in Machine : st[n].game \in Seq(Events)
  BY <1>2 DEF Change
<1>4. Shared!Only(m)
  BY <1>2, OnlyChanges
<1>5. Shared!IsPrefix(x.game, st[m].game)
  BY <1>1, <1>3, PrefixIs
<1>6. \A n \in up \ {m} : Shared!IsPrefix(st[n].game, x.game)
  BY <1>1, <1>3, PrefixIs
<1>7. Shared!IsPrefix([k \in Machine |-> st'[k].game][m], [k \in Machine |-> st[k].game][m])
  BY <1>3, <1>5
<1>8. \A n \in up \ {m} : Shared!IsPrefix([k \in Machine |-> st[k].game][n], [k \in Machine |-> st'[k].game][m])
  BY <1>3, <1>6
<1> QED
  BY <1>2, <1>3, <1>4, <1>7, <1>8 DEF Shared!TakeBack

LEMMA LeavesShared ==
  ASSUME AllTyped, NEW m, Leaves(m)
  PROVE  AllTyped' /\ Shared!Leave(m)
<1>1. m \in up /\ up' = up \ {m} /\ st' = st
  BY DEF Leaves
<1>2. [k \in Machine |-> st'[k].game] = [k \in Machine |-> st[k].game]
  BY <1>1
<1>3. AllTyped'
  BY <1>1 DEF AllTyped
<1> QED
  BY <1>1, <1>2, <1>3 DEF Shared!Leave

LEMMA StepShared ==
  ASSUME IInv, Facts, Facts', AllTyped, [Next]_vars
  PROVE  AllTyped' /\ [Shared!Next]_Shared!vars
<1>1. CASE Next
  <2>1. PICK m \in Machine : Silent(m) \/ Adds(m) \/ Backs(m) \/ Leaves(m)
    BY <1>1, StepGames
  <2>2. CASE Silent(m)
    BY <2>2, SilentShared
  <2>3. CASE Adds(m)
    BY <2>3, AddsShared DEF Shared!Next
  <2>4. CASE Backs(m)
    BY <2>4, BacksShared DEF Shared!Next
  <2>5. CASE Leaves(m)
    BY <2>5, LeavesShared DEF Shared!Next
  <2> QED
    BY <2>1, <2>2, <2>3, <2>4, <2>5
<1>2. CASE UNCHANGED vars
  <2>1. st' = st /\ up' = up
    BY <1>2 DEF vars
  <2> QED
    BY <2>1 DEF AllTyped, Shared!vars
<1> QED
  BY <1>1, <1>2

LEMMA InitShared ==
  ASSUME Init
  PROVE  AllTyped /\ Shared!Init
<1>1. up = Machine /\ st = [m \in Machine |-> Start]
  BY DEF Init
<1>2. AllTyped
  <2>1. IInv
    BY InitInv
  <2> QED
    BY <1>1, <2>1, TypedIs DEF AllTyped
<1>3. Shared!Init
  BY <1>1, StartIs DEF Shared!Init
<1> QED
  BY <1>2, <1>3

-----------------------------------------------------------------------------
(* What the theorems speak of lasts until something strays.                        *)

\* What has strayed stays so, and only machines clear their undo stack.
LEMMA Past ==
  ASSUME [Next]_vars
  PROVE  (OnCourse' => OnCourse) /\ (cleared \subseteq Machine => cleared' \subseteq Machine)
<1> SUFFICES /\ stray \subseteq stray'
             /\ cleared \subseteq Machine => cleared' \subseteq Machine
  BY DEF OnCourse
<1>1. CASE Next
  <2> PICK m \in Machine : Works(m) \/ Plays(m)
    BY <1>1 DEF Next
  <2>1. CASE Choose(m) \/ Pull(m) \/ Require(m) \/ Take(m) \/ Send(m)
    BY <2>1, Zenon DEF Choose, Pull, Require, Take, Send
  <2>2. CASE ReceiveEntry(m) \/ ReceiveControl(m) \/ IdleSide(m)
    BY <2>2, Zenon DEF ReceiveEntry, ReceiveControl, IdleSide
  <2>3. CASE \E mode \in {"human", "ai"} : KeepSide(m, mode)
    BY <2>3, Zenon DEF KeepSide
  <2>4. CASE \E n \in Machine : GiveSide(m, n)
    BY <2>4 DEF GiveSide
  <2>5. CASE TimeOut(m)
    BY <2>5 DEF TimeOut
  <2>6. CASE (\E kind \in Kinds : Perform(m, kind)) \/ Undo(m)
    BY <2>6, Zenon DEF Perform, Undo
  <2>7. CASE Commit(m)
    BY <2>7 DEF Commit
  <2>8. CASE Leave(m)
    BY <2>8 DEF Leave
  <2> QED
    BY <2>1, <2>2, <2>3, <2>4, <2>5, <2>6, <2>7, <2>8 DEF Works, Reads, Plays
<1>2. CASE UNCHANGED vars
  BY <1>2 DEF vars
<1> QED
  BY <1>1, <1>2

LEMMA OnlyMachinesClear == Spec => [](cleared \subseteq Machine)
<1>1. Init => cleared \subseteq Machine
  BY DEF Init
<1>2. cleared \subseteq Machine /\ [Next]_vars => (cleared \subseteq Machine)'
  BY Past
<1> QED
  BY <1>1, <1>2, PTL DEF Spec

\* The inductive invariant: there is one log of the commands and answers of the game
\* and of the stages that it goes through; what each machine has played, has not sent and
\* has still to read are places in that log.  A change of hands that nobody waits for, a
\* wait that ends before it, and the loss of one who alone could still undo end it.
THEOREM IInvariant ==
  ASSUME OneSideEach
  PROVE  Spec => [](OnCourse => IInv)
<1>1. Init => IInv
  BY InitInv
<1>2. IInv /\ [Next]_vars /\ OnCourse' => IInv'
  BY StepInv
<1>3. [Next]_vars => (OnCourse' => OnCourse)
  BY Past
<1> QED
  BY <1>1, <1>2, <1>3, PTL DEF Spec

LEMMA AllAreTyped ==
  ASSUME OneSideEach
  PROVE  Spec => [](OnCourse => AllTyped)
<1>1. Init => AllTyped
  BY InitShared
<1>2. IInv => Facts
  BY FactsAre
<1>3. IInv /\ Facts /\ Facts' /\ AllTyped /\ [Next]_vars => AllTyped'
  BY StepShared
<1>4. [Next]_vars => (OnCourse' => OnCourse)
  BY Past
<1> QED
  BY <1>1, <1>2, <1>3, <1>4, IInvariant, PTL DEF Spec

\* The variables keep their types until something strays, for any machines, sides and
\* commands; as many seeds are drawn as commands need one.
THEOREM TypeCorrect ==
  ASSUME OneSideEach, OneSeed
  PROVE  Spec => [](OnCourse => TypeOK)
<1>1. IInv /\ AllTyped /\ cleared \subseteq Machine => (OnCourse => TypeOK)
  <2> SUFFICES ASSUME IInv, AllTyped, cleared \subseteq Machine, OnCourse PROVE TypeOK
    OBVIOUS
  <2>1. \A m \in Machine : Typed(st[m])
    BY DEF AllTyped
  <2>2. stray \subseteq Strays
    BY DEF OnCourse
  <2>3. MaxCommands \in Nat
    BY RemoteAssumption
  <2>4. \A m \in Machine : LET r == st[m] IN
       /\ r.pos \in 0..Len(r.rec) /\ r.upto \in 0..Len(r.rec)
       /\ r.undo \in Nat /\ r.undo <= MaxCommands /\ r.turn \in Side /\ r.inited \in BOOLEAN
       /\ r.owner \in [Side -> Machine]
       /\ r.run.phase \in {"idle", "look", "pull"}
       /\ Idle(r) <=> r.run.left = <<>>
    BY <2>1, <2>3 DEF Typed
  <2> QED
    BY <2>2, <2>4, GlobalIs DEF TypeOK
<1> QED
  BY <1>1, IInvariant, AllAreTyped, OnlyMachinesClear, PTL

\* The game of a machine is what its record says, though commands are undone, answered
\* here or elsewhere, or taken over with a side: undo_cut removes the command that the undo
\* stack has on top, and do_replay plays each entry once, until something strays.
THEOREM RecordIsAlwaysGame ==
  ASSUME OneSideEach
  PROVE  Spec => []RecordIsGame
<1>1. (OnCourse => IInv) => RecordIsGame
  BY RecordIs DEF RecordIsGame
<1> QED
  BY <1>1, IInvariant, PTL

\* No machine finds that the game is out of sync before something strays:
\* do_replay_handle, get_user_choice_internal and ask_server meet what they wait for, in
\* whatever order turns end, sides change hands and machines leave.
THEOREM NeverAnError ==
  ASSUME OneSideEach
  PROVE  Spec => []NoError
<1>1. (OnCourse => IInv) => NoError
  BY DEF IInv, NoError
<1> QED
  BY <1>1, IInvariant, PTL

\* The machines play one game, as SharedGame has it, until something strays: who plays
\* something new has played all that the others have, undo takes back what no other has
\* played, and whatever else is played follows.
THEOREM GameImplemented ==
  ASSUME OneSideEach
  PROVE  Spec => ImplementsSharedGame
<1>1. Init => Shared!Init
  BY InitShared
<1>2. IInv => Facts
  BY FactsAre
<1>3. IInv /\ Facts /\ Facts' /\ AllTyped /\ [Next]_vars
        => [OnCourse' => Shared!Next \/ UNCHANGED Shared!vars]_vars
  BY StepShared
<1>4. [Next]_vars /\ ~OnCourse' => [OnCourse' => Shared!Next \/ UNCHANGED Shared!vars]_vars
  OBVIOUS
<1>5. [Next]_vars => (OnCourse' => OnCourse)
  BY Past
<1> QED
  BY <1>1, <1>2, <1>3, <1>4, <1>5, IInvariant, AllAreTyped, PTL DEF Spec, ImplementsSharedGame

-----------------------------------------------------------------------------
(* A game played as SharedGame says is one game.                                  *)

\* What each machine has played.
Games == [m \in Machine |-> st[m].game]

\* A prefix agrees with the longer sequence, position by position.
LEMMA PrefixPointwise ==
  ASSUME NEW s \in Seq(Events), NEW t \in Seq(Events)
  PROVE  Shared!IsPrefix(s, t) <=> Len(s) <= Len(t) /\ \A i \in 1..Len(s) : s[i] = t[i]
<1>1. Len(s) \in Nat /\ Len(t) \in Nat
  OBVIOUS
<1>2. CASE ~ (Len(s) <= Len(t))
  BY <1>2 DEF Shared!IsPrefix
<1>3. CASE Len(s) <= Len(t)
  <2>1. Len(SubSeq(t, 1, Len(s))) = Len(s) /\ \A i \in 1..Len(s) : SubSeq(t, 1, Len(s))[i] = t[i]
    BY <1>1, <1>3
  <2>2. SubSeq(t, 1, Len(s)) \in Seq(Events)
    BY <1>1, <1>3
  <2>3. s = SubSeq(t, 1, Len(s)) <=> \A i \in 1..Len(s) : s[i] = t[i]
    BY <2>1, <2>2, SeqEqual
  <2>4. SubSeq(s, 1, Len(s)) = s
    OBVIOUS
  <2> QED
    BY <1>3, <2>3, <2>4 DEF Shared!IsPrefix
<1> QED
  BY <1>2, <1>3

\* Two prefixes of one game: one is a prefix of the other.
LEMMA PrefixesOfOne ==
  ASSUME NEW s \in Seq(Events), NEW t \in Seq(Events), NEW u \in Seq(Events),
         Shared!IsPrefix(s, u), Shared!IsPrefix(t, u)
  PROVE  Shared!IsPrefix(s, t) \/ Shared!IsPrefix(t, s)
<1>1. Len(s) \in Nat /\ Len(t) \in Nat /\ Len(u) \in Nat
  OBVIOUS
<1> QED
  BY <1>1, PrefixPointwise

LEMMA PrefixOfPrefix ==
  ASSUME NEW s \in Seq(Events), NEW t \in Seq(Events), NEW u \in Seq(Events),
         Shared!IsPrefix(s, t), Shared!IsPrefix(t, u)
  PROVE  Shared!IsPrefix(s, u)
<1>1. Len(s) \in Nat /\ Len(t) \in Nat /\ Len(u) \in Nat
  OBVIOUS
<1> QED
  BY <1>1, PrefixPointwise

LEMMA PrefixOfItself == \A s \in Seq(Events) : Shared!IsPrefix(s, s)
  BY PrefixPointwise

\* Together with the types the property is inductive.
Agree == Shared!TypeOK /\ Shared!OneGame

LEMMA InitOneGame == Shared!Init => Agree
<1> SUFFICES ASSUME Shared!Init PROVE Agree
  OBVIOUS
<1>1. Shared!TypeOK
  <2>1. Games = [m \in Machine |-> <<>>] /\ up = Machine
    BY DEF Shared!Init, Games
  <2>2. Games \in [Machine -> Seq(Events)]
    BY <2>1
  <2> QED
    BY <2>1, <2>2 DEF Shared!TypeOK, Games
<1>2. \A m \in Machine : Games[m] = <<>>
  BY DEF Shared!Init, Games
<1> QED
  BY <1>1, <1>2, PrefixOfItself DEF Agree, Shared!OneGame, Shared!TypeOK, Games

LEMMA NextOneGame == Agree /\ [Shared!Next]_Shared!vars => Agree'
<1> SUFFICES ASSUME Agree, [Shared!Next]_Shared!vars PROVE Agree'
  OBVIOUS
<1>1. Shared!TypeOK /\ Shared!OneGame
  BY DEF Agree
<1>2. CASE UNCHANGED Shared!vars
  BY <1>1, <1>2 DEF Shared!vars, Agree, Shared!TypeOK, Shared!OneGame, Games
<1>3. ASSUME NEW m \in Machine, Shared!Leave(m) PROVE Agree'
  BY <1>1, <1>3 DEF Shared!Leave, Agree, Shared!TypeOK, Shared!OneGame, Games
\* The other machines are compared as before; m with each of them is left.
<1>4. ASSUME NEW m \in up, Shared!Only(m),
             \A n \in up \ {m} : Shared!IsPrefix(Games'[m], Games[n]) \/ Shared!IsPrefix(Games[n], Games'[m])
      PROVE  Agree'
  <2>1. Shared!TypeOK'
    BY <1>1, <1>4 DEF Shared!Only, Shared!TypeOK, Games
  <2>2. up' = up /\ \A n \in up \ {m} : Games'[n] = Games[n]
    BY <1>1, <1>4 DEF Shared!Only, Shared!TypeOK, Games
  <2>3. Shared!IsPrefix(Games'[m], Games'[m])
    BY <1>1, <1>4, PrefixOfItself DEF Shared!Only, Shared!TypeOK, Games
  <2> QED
    BY <1>1, <1>4, <2>1, <2>2, <2>3 DEF Agree, Shared!OneGame, Games
<1>5. ASSUME NEW m \in Machine, Shared!Lead(m) PROVE Agree'
  <2>1. m \in up /\ Shared!Only(m) /\ Games[m] \in Seq(Events) /\ Games'[m] \in Seq(Events)
    BY <1>1, <1>5 DEF Shared!Lead, Shared!Extends, Shared!Only, Shared!TypeOK, Games
  <2>2. ASSUME NEW n \in up \ {m} PROVE Shared!IsPrefix(Games[n], Games'[m])
    <3>1. Games[n] \in Seq(Events) /\ Shared!IsPrefix(Games[n], Games[m]) /\ Shared!IsPrefix(Games[m], Games'[m])
      BY <1>1, <1>5, <2>2 DEF Shared!Lead, Shared!Extends, Shared!TypeOK, Games
    <3> QED
      BY <2>1, <3>1, PrefixOfPrefix
  <2> QED
    BY <1>4, <2>1, <2>2
<1>6. ASSUME NEW m \in Machine, Shared!Follow(m) PROVE Agree'
  <2>1. m \in up /\ Shared!Only(m) /\ Games[m] \in Seq(Events) /\ Games'[m] \in Seq(Events)
    BY <1>1, <1>6 DEF Shared!Follow, Shared!Extends, Shared!Only, Shared!TypeOK, Games
  <2>2. PICK ahead \in up : Shared!IsPrefix(Games'[m], Games[ahead])
    BY <1>6 DEF Shared!Follow, Games
  <2>3. ASSUME NEW n \in up \ {m} PROVE Shared!IsPrefix(Games'[m], Games[n]) \/ Shared!IsPrefix(Games[n], Games'[m])
    <3>1. Games[n] \in Seq(Events) /\ Games[ahead] \in Seq(Events)
      BY <1>1, <2>2, <2>3 DEF Shared!TypeOK, Games
    <3>2. CASE Shared!IsPrefix(Games[n], Games[ahead])
      BY <2>1, <2>2, <3>1, <3>2, PrefixesOfOne
    <3>3. CASE Shared!IsPrefix(Games[ahead], Games[n])
      BY <2>1, <2>2, <3>1, <3>3, PrefixOfPrefix
    <3> QED
      BY <1>1, <2>2, <2>3, <3>2, <3>3 DEF Shared!OneGame, Games
  <2> QED
    BY <1>4, <2>1, <2>3
<1>7. ASSUME NEW m \in Machine, Shared!TakeBack(m) PROVE Agree'
  BY <1>4, <1>7 DEF Shared!TakeBack, Games
<1> QED
  BY <1>2, <1>3, <1>5, <1>6, <1>7 DEF Shared!Next, Games

\* None of the machines in the game has played a command or an answer that another has
\* played otherwise, until something strays: two of them differ at most in how far they
\* have come.
THEOREM PlaysOneGame ==
  ASSUME OneSideEach
  PROVE  Spec => [](OnCourse => Shared!OneGame)
<1>1. Agree /\ [OnCourse' => Shared!Next \/ UNCHANGED Shared!vars]_vars /\ OnCourse' => Agree'
  <2> SUFFICES ASSUME Agree, [OnCourse' => Shared!Next \/ UNCHANGED Shared!vars]_vars, OnCourse' PROVE Agree'
    OBVIOUS
  <2>1. CASE UNCHANGED vars
    <3>1. UNCHANGED Shared!vars
      BY <2>1 DEF vars, Shared!vars
    <3> QED
      BY <3>1, NextOneGame
  <2> QED
    BY <2>1, NextOneGame
<1>2. Agree => Shared!OneGame
  BY DEF Agree
<1>3. [Next]_vars => (OnCourse' => OnCourse)
  BY Past
<1> QED
  BY <1>1, <1>2, <1>3, InitOneGame, GameImplemented, PTL DEF Spec, ImplementsSharedGame
=============================================================================
