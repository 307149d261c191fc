------------------------- MODULE AsyncConnect_proofs -------------------------
(* What holds of AsyncConnect for any number of operations.                     *)
EXTENDS AsyncConnect, TLAPS

Begun == {"created", "opening", "section"}

\* Who holds a mutex is told by where the two are.
Locked ==
  \A o \in Ops : /\ mutex[o] = "main" <=> o = op /\ main = "deciding"
                 /\ mutex[o] = "thread" <=> pc[o] = "section"

\* The caller stays with a thread that has not come to its end, unless it gave up
\* or was woken for no reason.
Attended ==
  \A o \in Ops : pc[o] \in Begun /\ o \notin aborted \cup woken =>
                   op = o /\ main \in {"deciding", "waiting"}

\* What is set when.
Progress ==
  /\ main \in {"making", "joining"} => pc[op] = "unborn"
  /\ main \in {"deciding", "waiting", "completed"} => pc[op] # "unborn"
  /\ main = "deciding" => op \notin finishedVar
  /\ main = "completed" => op \in finishedVar \cup woken
  /\ main # "idle" => op \notin aborted
  /\ main \in {"deciding", "waiting"} => op \notin woken
  /\ \A o \in Ops :
       /\ o \in finishedVar => pc[o] \in {"finishing", "exited"}
       /\ o \in aborted => result[o] = "nothing"
       /\ o \in aborted \cup woken => pc[o] # "unborn"
       /\ pc[o] = "created" /\ o \in aborted \cup woken => o \in early
       /\ pc[o] \in {"opening", "section", "finishing"} => o \in copied

\* A connection without an error is in the socket set, and the caller is told so.
Outcome ==
  \A o \in Ops :
    /\ o \in sockets => o \in finishedVar /\ o \notin error
    /\ o \in connections \cup error => pc[o] \in {"finishing", "exited"}
    /\ o \in connections /\ o \notin error => o \in sockets
    /\ result[o] # "none" => o \in aborted \cup woken \/ pc[o] \in {"finishing", "exited"}

Listed == \A i \in 1..Len(active) : pc[active[i]] # "unborn"

\* Where the caller and the threads are, as long as the program runs.
Running == Locked /\ Attended /\ Progress /\ Outcome /\ Listed

Alive == TypeOK /\ OutcomeKept /\ ReachedOutlivesThread /\ Running

\* The inductive invariant.
IInv == /\ TypeOK /\ OutcomeKept /\ ReachedOutlivesThread /\ NetworkNotShared
        /\ main # "dead" => Running

USE DEF Begun

LEMMA InitAlive == Init => Alive /\ main # "dead"
<1> SUFFICES ASSUME Init PROVE Alive /\ main # "dead"
  OBVIOUS
<1>1. op \in Ops
  BY OpsAssumption DEF Init
<1> QED
  BY <1>1 DEF Init, Alive, Running, TypeOK, Locked, Attended, Progress, Outcome, OutcomeKept,
              Listed, ReachedOutlivesThread, Ended

LEMMA MakeKeeps == Alive /\ Make => Alive'
<1> SUFFICES ASSUME Alive, Make PROVE Alive'
  OBVIOUS
<1>1. op' \in Ops /\ pc[op'] = "unborn" /\ main = "idle" /\ main' = "making"
  BY DEF Make, Unborn
<1> QED
  BY <1>1 DEF Make, Alive, Running, TypeOK, Locked, Attended, Progress, Outcome, OutcomeKept,
              Listed, ReachedOutlivesThread, Ended, shared, net, hist

LEMMA PopActiveKeeps == Alive /\ PopActive => Alive'
<1> SUFFICES ASSUME Alive, PopActive PROVE Alive'
  OBVIOUS
<1> USE DEF PopActive, Unique, shared, net, hist, Alive, Running
<1>1. active # <<>> /\ Head(active) \in Ops /\ Head(active) = active[1] /\ 1 \in 1..Len(active)
  BY DEF TypeOK
<1>2. /\ Tail(active) \in Seq(Ops)
      /\ \A i \in 1..Len(Tail(active)) : /\ i + 1 \in 1..Len(active)
                                         /\ Tail(active)[i] = active[i + 1]
  BY <1>1 DEF TypeOK
<1>3. TypeOK'
  BY <1>1, <1>2 DEF TypeOK
<1>4. Head(active) \notin early => pc[Head(active)] = "exited"
  BY <1>1 DEF TypeOK, Attended, Progress, Listed, Ended
<1>5. Listed' /\ ReachedOutlivesThread'
  BY <1>1, <1>2, <1>4 DEF Listed, ReachedOutlivesThread
<1>6. Locked' /\ Attended' /\ Progress' /\ Outcome' /\ OutcomeKept'
  BY DEF TypeOK, Locked, Attended, Progress, Outcome, OutcomeKept
<1> QED
  BY <1>3, <1>5, <1>6

LEMMA JoinedKeeps == Alive /\ Joined => Alive'
  BY DEF Joined, Alive, Running, TypeOK, Locked, Attended, Progress, Outcome, OutcomeKept, Listed,
         ReachedOutlivesThread, shared, net, hist

LEMMA ExecuteKeeps == Alive /\ Execute => Alive'
<1> SUFFICES ASSUME Alive, Execute PROVE Alive'
  OBVIOUS
<1> USE DEF Execute, shared, net, hist, Alive, Running
<1>1. op \in Ops /\ pc[op] = "unborn" /\ active \in Seq(Ops) /\ op \notin woken
  BY DEF TypeOK, Progress
<1>2. /\ Append(active, op) \in Seq(Ops)
      /\ \A i \in 1..Len(Append(active, op)) :
           \/ i \in 1..Len(active) /\ Append(active, op)[i] = active[i]
           \/ Append(active, op)[i] = op
  BY <1>1
<1>3. TypeOK'
  BY <1>1, <1>2 DEF TypeOK
<1>4. Listed' /\ ReachedOutlivesThread'
  BY <1>1, <1>2 DEF TypeOK, Listed, ReachedOutlivesThread
<1>5. Locked' /\ Attended'
  BY <1>1 DEF TypeOK, Locked, Attended, Progress
<1>6. Progress' /\ Outcome' /\ OutcomeKept'
  BY <1>1 DEF TypeOK, Progress, Outcome, OutcomeKept
<1> QED
  BY <1>3, <1>4, <1>5, <1>6

\* The caller gives up before it has seen the operation finish.
LEMMA GiveUpKeeps ==
  ASSUME Alive, GiveUp, main \in {"deciding", "waiting"}, op \notin finishedVar,
         mutex[op] # "thread",
         UNCHANGED <<op, active, freed, pc, copied, finishedVar, error, net, woken>>
  PROVE  Alive'
<1> USE DEF GiveUp, Leave, net, Alive, Running
<1>1. op \in Ops /\ op \notin sockets /\ pc[op] # "unborn"
  BY DEF TypeOK, Outcome, Progress
<1>2. early' \in SUBSET Ops /\ early \subseteq early' /\ (pc[op] = "created" => op \in early')
  BY <1>1 DEF TypeOK
<1>3. TypeOK' /\ Locked' /\ Attended' /\ Listed' /\ ReachedOutlivesThread'
  BY <1>1, <1>2 DEF TypeOK, Locked, Attended, Listed, ReachedOutlivesThread
<1>4. Progress'
  BY <1>1, <1>2 DEF TypeOK, Progress
<1>5. Outcome' /\ OutcomeKept'
  BY <1>1 DEF TypeOK, Outcome, OutcomeKept
<1> QED
  BY <1>3, <1>4, <1>5

LEMMA ProcessKeeps == Alive /\ Process => Alive'
<1> SUFFICES ASSUME Alive, Process PROVE Alive'
  OBVIOUS
<1> USE DEF Alive, Running
<1>1. main = "deciding" /\ op \in Ops /\ op \notin finishedVar /\ mutex[op] = "main"
  BY DEF Process, TypeOK, Locked, Progress
<1>2. CASE GiveUp
  BY <1>1, <1>2, GiveUpKeeps DEF Process
<1>3. CASE /\ mutex' = [mutex EXCEPT ![op] = "free"] /\ main' = "waiting"
           /\ UNCHANGED <<result, aborted, early>>
  <2> USE DEF Process, net
  <2>1. TypeOK' /\ Locked' /\ Attended' /\ Listed' /\ ReachedOutlivesThread'
    BY <1>1, <1>3 DEF TypeOK, Locked, Attended, Listed, ReachedOutlivesThread
  <2>2. Progress' /\ Outcome' /\ OutcomeKept'
    BY <1>1, <1>3 DEF Progress, Outcome, OutcomeKept
  <2> QED
    BY <2>1, <2>2
<1> QED
  BY <1>2, <1>3 DEF Process

LEMMA WaitTimeoutKeeps == Alive /\ WaitTimeout => Alive'
<1> SUFFICES ASSUME Alive, WaitTimeout PROVE Alive'
  OBVIOUS
<1> USE DEF Alive, Running
<1>1. main = "waiting" /\ op \in Ops /\ mutex[op] = "free"
  BY DEF WaitTimeout, TypeOK
<1>2. CASE op \notin finishedVar /\ GiveUp /\ UNCHANGED woken
  BY <1>1, <1>2, GiveUpKeeps DEF WaitTimeout
<1>3. CASE /\ op \in finishedVar /\ main' = "completed"
           /\ UNCHANGED <<mutex, result, aborted, early, woken>>
  <2> USE DEF WaitTimeout, net
  <2>1. pc[op] \in {"finishing", "exited"}
    BY <1>1, <1>3 DEF Progress
  <2>2. TypeOK' /\ Locked' /\ Attended' /\ Listed' /\ ReachedOutlivesThread'
    BY <1>1, <1>3, <2>1 DEF TypeOK, Locked, Attended, Listed, ReachedOutlivesThread
  <2>3. Progress' /\ Outcome' /\ OutcomeKept'
    BY <1>1, <1>3 DEF Progress, Outcome, OutcomeKept
  <2> QED
    BY <2>2, <2>3
<1>4. CASE /\ op \notin finishedVar /\ main' = "deciding"
           /\ mutex' = [mutex EXCEPT ![op] = "main"]
           /\ UNCHANGED <<result, aborted, early, woken>>
  <2> USE DEF WaitTimeout, net
  <2>1. TypeOK' /\ Locked' /\ Attended' /\ Listed' /\ ReachedOutlivesThread'
    BY <1>1, <1>4 DEF TypeOK, Locked, Attended, Listed, ReachedOutlivesThread
  <2>2. Progress' /\ Outcome' /\ OutcomeKept'
    BY <1>1, <1>4 DEF Progress, Outcome, OutcomeKept
  <2> QED
    BY <2>1, <2>2
\* Woken for no reason.
<1>5. CASE /\ op \notin finishedVar /\ woken' = woken \cup {op} /\ main' = "completed"
           /\ Leave /\ UNCHANGED <<mutex, result, aborted>>
  <2> USE DEF WaitTimeout, Leave, net
  <2>1. early' \in SUBSET Ops /\ early \subseteq early' /\ (pc[op] = "created" => op \in early')
    BY <1>1, <1>5 DEF TypeOK
  <2>2. TypeOK' /\ Locked' /\ Attended' /\ Listed' /\ ReachedOutlivesThread'
    BY <1>1, <1>5, <2>1 DEF TypeOK, Locked, Attended, Listed, ReachedOutlivesThread
  <2>3. Progress'
    BY <1>1, <1>5, <2>1 DEF Progress
  <2>4. Outcome' /\ OutcomeKept'
    BY <1>1, <1>5 DEF Outcome, OutcomeKept
  <2> QED
    BY <2>2, <2>3, <2>4
<1> QED
  BY <1>2, <1>3, <1>4, <1>5 DEF WaitTimeout

\* What Return tells a caller that was notified agrees with the sockets.
LEMMA ReturnKeeps == Alive /\ Return => Alive'
<1> SUFFICES ASSUME Alive, Return PROVE Alive'
  OBVIOUS
<1> USE DEF Return, shared, net, hist, Alive, Running
<1>1. /\ op \in Ops /\ op \in finishedVar \cup woken /\ op \notin aborted
      /\ op \in finishedVar => pc[op] \in {"finishing", "exited"}
  BY DEF TypeOK, Progress
<1>2. /\ TypeOK' /\ Locked' /\ Attended' /\ Listed' /\ ReachedOutlivesThread'
  BY <1>1 DEF TypeOK, Locked, Attended, Listed, ReachedOutlivesThread
<1>3. op \in sockets <=> op \in connections /\ op \notin error
  BY <1>1 DEF TypeOK, Outcome
<1>4. \A o \in Ops : o # op => result'[o] = result[o]
  BY <1>1 DEF TypeOK
<1>5. result'[op] = IF op \in error THEN "error"
                   ELSE IF op \in connections THEN "connection" ELSE "nothing"
  BY <1>1 DEF TypeOK
<1>6. OutcomeKept'
  BY <1>3, <1>4, <1>5 DEF OutcomeKept
<1>7. Progress'
  BY <1>1, <1>4 DEF Progress
<1>8. Outcome'
  BY <1>1, <1>4 DEF Outcome
<1> QED
  BY <1>2, <1>6, <1>7, <1>8

\* The thread reads its pointer, in time or not.
LEMMA CopyPointerKeeps ==
  ASSUME Alive, NEW o \in Ops, CopyPointer(o), main' # "dead" PROVE Alive'
<1> USE DEF CopyPointer, caller, shared, net, hist, Ended, Alive, Running
<1>1. /\ pc[o] = "created" /\ pc' = [pc EXCEPT ![o] = "opening"] /\ copied' = copied \cup {o}
      /\ UNCHANGED <<caller, mutex, shared, net, hist>>
  OBVIOUS
<1>2. TypeOK' /\ Locked' /\ Attended' /\ Listed' /\ ReachedOutlivesThread'
  BY <1>1 DEF TypeOK, Locked, Attended, Progress, Listed, ReachedOutlivesThread
<1>3. Progress' /\ Outcome' /\ OutcomeKept'
  BY <1>1 DEF TypeOK, Locked, Attended, Progress, Outcome, OutcomeKept
<1> QED
  BY <1>2, <1>3

\* The program ends: nothing that the properties speak of changes.
LEMMA DeadKeeps == ASSUME IInv, NEW o \in Ops, CopyPointer(o), main' = "dead" PROVE IInv'
<1>1. UNCHANGED <<mutex, shared, net, hist, op, active, freed, result, pc, copied>> \/ main = "dead"
  BY DEF CopyPointer, caller, shared, net, hist
<1>2. CASE UNCHANGED <<mutex, shared, net, hist, op, active, freed, result, pc, copied>>
  <2>1. TypeOK' /\ OutcomeKept' /\ ReachedOutlivesThread'
    BY <1>2 DEF IInv, TypeOK, OutcomeKept, ReachedOutlivesThread, shared, net, hist
  <2>2. NetworkNotShared'
    BY <1>2 DEF IInv, NetworkNotShared, shared, net, hist
  <2> QED
    BY <2>1, <2>2 DEF IInv
<1>3. CASE main = "dead" /\ pc' = [pc EXCEPT ![o] = "opening"] /\ copied' = copied \cup {o}
           /\ UNCHANGED <<caller, mutex, shared, net, hist>>
  <2>1. pc[o] = "created"
    BY DEF CopyPointer
  <2>2. TypeOK' /\ OutcomeKept' /\ ReachedOutlivesThread'
    BY <1>3, <2>1 DEF IInv, TypeOK, OutcomeKept, ReachedOutlivesThread, shared, net, hist, caller, Ended
  <2>3. NetworkNotShared'
    BY <1>3, <2>1 DEF IInv, TypeOK, NetworkNotShared, shared, net, hist, caller, Ended
  <2> QED
    BY <1>3, <2>2, <2>3 DEF IInv, caller
<1> QED
  BY <1>1, <1>2, <1>3 DEF CopyPointer

LEMMA OpenKeeps == ASSUME Alive, NEW o \in Ops, Open(o) PROVE Alive'
<1> USE DEF Open, caller, shared, net, hist, Ended, Alive, Running
<1>1. TypeOK' /\ Locked' /\ Attended' /\ Listed' /\ ReachedOutlivesThread'
  BY DEF TypeOK, Locked, Attended, Progress, Listed, ReachedOutlivesThread
<1>2. Progress' /\ Outcome' /\ OutcomeKept'
  BY DEF TypeOK, Locked, Attended, Progress, Outcome, OutcomeKept
<1> QED
  BY <1>1, <1>2

LEMMA ConnectKeeps == ASSUME Alive, NEW o \in Ops, Connect(o) PROVE Alive'
<1> USE DEF Connect, caller, shared, net, hist, Ended, Alive, Running
<1>1. TypeOK' /\ Locked' /\ Attended' /\ Listed' /\ ReachedOutlivesThread'
  BY DEF TypeOK, Locked, Attended, Progress, Listed, ReachedOutlivesThread
<1>2. Progress'
  BY DEF TypeOK, Locked, Attended, Progress
<1>3. o \notin finishedVar /\ o \notin connections /\ o \notin sockets
  BY DEF Progress, Outcome
<1>4. Outcome'
  <2>1. pc'[o] = "finishing" /\ \A q \in Ops \ {o} : pc'[q] = pc[q]
    BY DEF TypeOK
  <2>2. \A q \in Ops \ {o} : /\ q \in sockets' <=> q \in sockets
                             /\ q \in connections' <=> q \in connections
                             /\ q \in error' <=> q \in error
                             /\ q \in finishedVar' <=> q \in finishedVar
    OBVIOUS
  <2>3. /\ o \in sockets' => o \in finishedVar' /\ error' = error
        /\ o \in connections' /\ o \notin error' => o \in sockets'
    BY <1>3
  <2>4. o \notin error
    BY DEF Outcome
  <2> QED
    BY <2>1, <2>2, <2>3, <2>4 DEF Outcome
<1>5. o \notin aborted \cup woken => result[o] = "none"
  BY DEF Attended, Outcome, TypeOK
<1>6. OutcomeKept'
  BY <1>5 DEF OutcomeKept
<1> QED
  BY <1>1, <1>2, <1>4, <1>6

LEMMA FinishKeeps == ASSUME Alive, NEW o \in Ops, Finish(o) PROVE Alive'
<1> USE DEF Finish, caller, shared, net, hist, Ended, Alive, Running
<1>1. TypeOK' /\ Locked' /\ Attended' /\ Listed' /\ ReachedOutlivesThread'
  BY DEF TypeOK, Locked, Attended, Progress, Listed, ReachedOutlivesThread
<1>2. Progress' /\ Outcome' /\ OutcomeKept'
  BY DEF TypeOK, Locked, Attended, Progress, Outcome, OutcomeKept
<1> QED
  BY <1>1, <1>2

LEMMA StutterKeeps == IInv /\ UNCHANGED vars => IInv'
<1> SUFFICES ASSUME IInv, UNCHANGED vars PROVE IInv'
  OBVIOUS
<1> USE DEF vars, caller, shared, net, hist
<1>1. TypeOK' /\ OutcomeKept' /\ ReachedOutlivesThread' /\ NetworkNotShared'
  BY DEF IInv, TypeOK, OutcomeKept, ReachedOutlivesThread, NetworkNotShared, Ended
<1>2. main # "dead" => Running'
  BY DEF IInv, Running, Locked, Attended, Progress, Outcome, Listed
<1> QED
  BY <1>1, <1>2 DEF IInv

\* A thread in its critical section has a caller that waits, that gave up or that
\* was woken for no reason.
LEMMA AliveIsIInv == (Alive => IInv) /\ (Alive' => IInv')
<1>1. TypeOK /\ Running => NetworkNotShared
  BY DEF Running, Locked, Attended, NetworkNotShared
<1>2. TypeOK' /\ Running' => NetworkNotShared'
  BY DEF Running, Locked, Attended, NetworkNotShared
<1> QED
  BY <1>1, <1>2 DEF Alive, IInv

\* The inductive invariant of a call and its thread: who holds each mutex, that the
\* caller attends a thread until it gives up or is woken, and what each flag says of
\* the other.
THEOREM IInvariant == Spec => []IInv
<1>1. Init => IInv
  BY InitAlive, AliveIsIInv
<1>2. ASSUME IInv, [Next]_vars PROVE IInv'
  <2>1. CASE Caller
    <3>1. Alive
      BY <1>2, <2>1 DEF IInv, Alive, Caller, Make, PopActive, Joined, Execute, Process,
                        WaitTimeout, Return
    <3>2. Alive'
      BY <2>1, <3>1, MakeKeeps, PopActiveKeeps, JoinedKeeps, ExecuteKeeps, ProcessKeeps,
         WaitTimeoutKeeps, ReturnKeeps DEF Caller
    <3> QED
      BY <3>2, AliveIsIInv
  <2>2. ASSUME NEW o \in Ops, Thread(o) PROVE IInv'
    <3>1. Alive
      BY <1>2, <2>2 DEF IInv, Alive, Thread
    <3>2. CASE CopyPointer(o) /\ main' = "dead"
      BY <1>2, <3>2, DeadKeeps
    <3>3. CASE ~ (CopyPointer(o) /\ main' = "dead")
      <4>1. Alive'
        BY <2>2, <3>1, <3>3, CopyPointerKeeps, OpenKeeps, ConnectKeeps, FinishKeeps DEF Thread
      <4> QED
        BY <4>1, AliveIsIInv
    <3> QED
      BY <3>2, <3>3
  <2>3. CASE UNCHANGED vars
    BY <1>2, <2>3, StutterKeeps
  <2> QED
    BY <1>2, <2>1, <2>2, <2>3 DEF Next
<1> QED
  BY <1>1, <1>2, PTL DEF Spec

\* The variables keep their types.
THEOREM TypeCorrect == Spec => []TypeOK
<1>1. IInv => TypeOK
  BY DEF IInv
<1> QED
  BY <1>1, IInvariant, PTL

\* What execute told its caller stays true of the sockets, whenever it gave up, for
\* every operation whose wait had a reason to end.
THEOREM OutcomeAlwaysKept == Spec => []OutcomeKept
<1>1. IInv => OutcomeKept
  BY DEF IInv
<1> QED
  BY <1>1, IInvariant, PTL

\* The thread of such an operation changes network.cpp's containers only while its
\* caller waits for it.
THEOREM NetworkNeverShared == Spec => []NetworkNotShared
<1>1. IInv => NetworkNotShared
  BY DEF IInv
<1> QED
  BY <1>1, IInvariant, PTL

\* An operation whose thread read its pointer before the caller left is never
\* destroyed under it: the constructor of the next one drops it only when it exited.
THEOREM ReachedAlwaysOutlives == Spec => []ReachedOutlivesThread
<1>1. IInv => ReachedOutlivesThread
  BY DEF IInv
<1> QED
  BY <1>1, IInvariant, PTL
=============================================================================
