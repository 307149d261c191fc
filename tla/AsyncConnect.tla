---------------------------- MODULE AsyncConnect ----------------------------
(***************************************************************************)
(* An operation that runs in a thread of its own while the main thread      *)
(* shows a dialog (threading::async_operation, thread.cpp), as it is used   *)
(* to connect to a host (connect_operation, network.cpp).  The caller may   *)
(* give up; the operation then goes on without it.  A list, active_, keeps  *)
(* the operations until the main thread makes another one.                  *)
(*                                                                          *)
(* Two things go wrong in execute.  It hands the thread the address of its  *)
(* parameter and may return before the thread has read it (early), and it   *)
(* takes a wait that ends for no reason for a notification (woken).  Both   *)
(* happen in the model; two history variables say to which operations, and  *)
(* the properties say what holds of the others.                             *)
(***************************************************************************)
EXTENDS Naturals, Sequences, FiniteSets

CONSTANT Ops   \* the operations that are made

ASSUME OpsAssumption == Ops # {}

VARIABLES
  main,        \* where the caller is
  op,          \* the operation it executes, or the last one
  active,      \* active_
  freed,       \* operations that were destroyed
  pc,          \* where the thread of each operation is
  mutex,       \* who holds the mutex of each operation
  copied,      \* operations to which their thread holds a pointer
  aborted, finishedVar,
  error,       \* operations with an error_
  result,      \* what the caller got: "connection", "nothing" or "error"
  connections, sockets,  \* of network.cpp, by the operation that made them
  early,       \* history: operations whose caller left before the thread had run
  woken        \* history: operations whose wait ended for no reason

caller == <<main, op, active, freed, result>>
shared == <<aborted, finishedVar, error>>
net    == <<connections, sockets>>
hist   == <<early, woken>>
vars   == <<caller, pc, mutex, copied, shared, net, hist>>

Ended == {"unborn", "exited"}

TypeOK ==
  /\ main \in {"idle", "making", "joining", "deciding", "waiting", "completed", "dead"}
  /\ op \in Ops
  /\ active \in Seq(Ops) /\ freed \subseteq Ops /\ copied \subseteq Ops
  /\ pc \in [Ops -> Ended \cup {"created", "opening", "section", "finishing"}]
  /\ mutex \in [Ops -> {"free", "main", "thread"}]
  /\ aborted \subseteq Ops /\ finishedVar \subseteq Ops
  /\ error \subseteq Ops
  /\ result \in [Ops -> {"none", "connection", "nothing", "error"}]
  /\ connections \subseteq Ops /\ sockets \subseteq connections
  /\ early \subseteq Ops /\ woken \subseteq Ops

Init ==
  /\ main = "idle" /\ op = (CHOOSE o \in Ops : TRUE) /\ active = <<>>
  /\ pc = [o \in Ops |-> "unborn"]
  /\ mutex = [o \in Ops |-> "free"]
  /\ result = [o \in Ops |-> "none"]
  /\ freed = {} /\ copied = {} /\ aborted = {} /\ finishedVar = {}
  /\ error = {} /\ connections = {} /\ sockets = {} /\ early = {} /\ woken = {}

-----------------------------------------------------------------------------
(* The caller.                                                              *)

Unborn == {o \in Ops : pc[o] = "unborn"}

\* network::connect makes an operation, the next of those there are.
Make ==
  /\ main = "idle" /\ Unborn # {}
  /\ op' = CHOOSE o \in Unborn : TRUE
  /\ main' = "making"
  /\ UNCHANGED <<active, freed, result, pc, mutex, copied, shared, net, hist>>

\* Mutant of Unique: an operation goes when its caller gave up.
UniqueAborted == active # <<>> /\ Head(active) \in aborted

\* Nobody but the list has a pointer to the first operation.
Unique == active # <<>> /\ Head(active) \notin copied

\* The constructor destroys the first operation; its thread is joined, after its
\* other members are gone.
PopActive ==
  /\ main = "making" /\ Unique
  /\ freed' = freed \cup {Head(active)}
  /\ active' = Tail(active)
  /\ main' = "joining"
  /\ UNCHANGED <<op, result, pc, mutex, copied, shared, net, hist>>

Joined ==
  /\ main = "joining"
  /\ \A o \in freed : pc[o] \in Ended
  /\ main' = "making"
  /\ UNCHANGED <<op, active, freed, result, pc, mutex, copied, shared, net, hist>>

\* The thread is created with the mutex locked.
Execute ==
  /\ main = "making" /\ ~Unique
  /\ active' = Append(active, op)
  /\ mutex' = [mutex EXCEPT ![op] = "main"]
  /\ pc' = [pc EXCEPT ![op] = "created"]
  /\ main' = "deciding"
  /\ UNCHANGED <<op, freed, result, copied, shared, net, hist>>

\* execute returns; its parameter, whose address the thread got, is gone.
Leave == early' = IF pc[op] = "created" THEN early \cup {op} ELSE early

\* The waiter says ABORT, or a wait failed.
GiveUp ==
  /\ aborted' = aborted \cup {op}
  /\ mutex' = [mutex EXCEPT ![op] = "free"]
  /\ result' = [result EXCEPT ![op] = "nothing"]
  /\ main' = "idle"
  /\ Leave

\* wait.process().
Process ==
  /\ main = "deciding"
  /\ \/ /\ mutex' = [mutex EXCEPT ![op] = "free"]
        /\ main' = "waiting"
        /\ UNCHANGED <<result, aborted, early>>
     \/ GiveUp
  /\ UNCHANGED <<op, active, freed, pc, copied, finishedVar, error, net, woken>>

\* The wait ends with the mutex locked: by a notification, by a timeout or an error,
\* when finishedVar_ may be set all the same, or for no reason.
WaitTimeout ==
  /\ main = "waiting" /\ mutex[op] = "free"
  /\ \/ /\ op \in finishedVar
        /\ main' = "completed"
        /\ UNCHANGED <<mutex, result, aborted, early, woken>>
     \/ /\ op \notin finishedVar
        /\ main' = "deciding"
        /\ mutex' = [mutex EXCEPT ![op] = "main"]
        /\ UNCHANGED <<result, aborted, early, woken>>
     \/ /\ op \notin finishedVar
        /\ GiveUp
        /\ UNCHANGED woken
     \/ /\ op \notin finishedVar
        /\ woken' = woken \cup {op}
        /\ main' = "completed"
        /\ Leave
        /\ UNCHANGED <<mutex, result, aborted>>
  /\ UNCHANGED <<op, active, freed, pc, copied, finishedVar, error, net>>

\* check_error, then result, as the thread has left them so far.
Return ==
  /\ main = "completed"
  /\ result' = [result EXCEPT ![op] = IF op \in error THEN "error"
                                      ELSE IF op \in connections THEN "connection" ELSE "nothing"]
  /\ main' = "idle"
  /\ UNCHANGED <<op, active, freed, pc, mutex, copied, shared, net, hist>>

-----------------------------------------------------------------------------
(* The thread.                                                              *)

\* run_async_operation copies the pointer that execute has as its parameter.  When
\* execute has returned it reads what is left on the stack: the pointer still, or
\* something that ends the program.
CopyPointer(o) ==
  /\ pc[o] = "created"
  /\ \/ /\ pc' = [pc EXCEPT ![o] = "opening"]
        /\ copied' = copied \cup {o}
        /\ UNCHANGED caller
     \/ /\ o \in early
        /\ main' = "dead"
        /\ UNCHANGED <<op, active, freed, result, pc, copied>>
  /\ UNCHANGED <<mutex, shared, net, hist>>

\* Mutant of Open: the connection is made without the mutex.
OpenUnlocked(o) ==
  /\ pc[o] = "opening"
  /\ pc' = [pc EXCEPT ![o] = "section"]
  /\ UNCHANGED <<caller, mutex, copied, shared, net, hist>>

\* connect_operation::run up to the point from which nothing blocks.  (A host without
\* a name makes a listening socket; only the connect without a thread is called so.)
Open(o) ==
  /\ pc[o] = "opening"
  /\ \/ /\ mutex[o] = "free"
        /\ mutex' = [mutex EXCEPT ![o] = "thread"]
        /\ pc' = [pc EXCEPT ![o] = "section"]
        /\ UNCHANGED error
     \/ /\ error' = error \cup {o}
        /\ pc' = [pc EXCEPT ![o] = "finishing"]
        /\ UNCHANGED mutex
  /\ UNCHANGED <<caller, copied, aborted, finishedVar, net, hist>>

\* Mutant of Connect: the socket is listed without a connection for it.
ConnectUnknown(o) ==
  /\ pc[o] = "section" /\ o \notin aborted
  /\ UNCHANGED connections
  /\ sockets' = sockets \cup {o}
  /\ finishedVar' = finishedVar \cup {o}
  /\ mutex' = [mutex EXCEPT ![o] = "free"]
  /\ pc' = [pc EXCEPT ![o] = "finishing"]
  /\ UNCHANGED <<caller, copied, aborted, error, hist>>

\* Mutant of Connect: an operation does not ask whether it was abandoned.
ConnectAnyway(o) ==
  /\ pc[o] = "section"
  /\ connections' = connections \cup {o}
  /\ sockets' = sockets \cup {o}
  /\ finishedVar' = finishedVar \cup {o}
  /\ mutex' = [mutex EXCEPT ![o] = "free"]
  /\ pc' = [pc EXCEPT ![o] = "finishing"]
  /\ UNCHANGED <<caller, copied, aborted, error, hist>>

\* The rest of run: an operation that was abandoned leaves nothing behind, one
\* that cannot put its socket in the set keeps its connection.
Connect(o) ==
  /\ pc[o] = "section"
  /\ \/ /\ o \in aborted
        /\ UNCHANGED <<net, error, finishedVar>>
     \/ /\ o \notin aborted
        /\ connections' = connections \cup {o}
        /\ error' = error \cup {o}
        /\ UNCHANGED <<sockets, finishedVar>>
     \/ /\ o \notin aborted
        /\ connections' = connections \cup {o}
        /\ sockets' = sockets \cup {o}
        /\ finishedVar' = finishedVar \cup {o}
        /\ UNCHANGED error
  /\ mutex' = [mutex EXCEPT ![o] = "free"]
  /\ pc' = [pc EXCEPT ![o] = "finishing"]
  /\ UNCHANGED <<caller, copied, aborted, hist>>

\* Mutant of Finish: only run notifies the caller.
FinishSilently(o) ==
  /\ pc[o] = "finishing" /\ mutex[o] = "free"
  /\ copied' = copied \ {o}
  /\ pc' = [pc EXCEPT ![o] = "exited"]
  /\ UNCHANGED <<caller, mutex, shared, net, hist>>

\* The end of run_async_operation.
Finish(o) ==
  /\ pc[o] = "finishing" /\ mutex[o] = "free"
  /\ finishedVar' = finishedVar \cup {o}
  /\ copied' = copied \ {o}
  /\ pc' = [pc EXCEPT ![o] = "exited"]
  /\ UNCHANGED <<caller, mutex, aborted, error, net, hist>>

-----------------------------------------------------------------------------
Caller    == Make \/ PopActive \/ Joined \/ Execute \/ Process \/ WaitTimeout \/ Return
Thread(o) == /\ main # "dead"
             /\ CopyPointer(o) \/ Open(o) \/ Connect(o) \/ Finish(o)

Next == Caller \/ \E o \in Ops : Thread(o)

Spec == Init /\ [][Next]_vars

\* Both go on; the thread gets the mutex that the caller releases again and again.
\* The caller need not start another operation.
Fairness == /\ WF_vars(main # "idle" /\ Caller)
            /\ \A o \in Ops : SF_vars(Thread(o))

FairSpec == Spec /\ Fairness

-----------------------------------------------------------------------------
(* What makes it correct.                                                   *)

\* A caller that gave up, or that got an error, finds no open connection later;
\* one that got a connection has it (execute, connect_operation::run).  A caller
\* whose wait ended for no reason was told what was not yet so.
OutcomeKept ==
  \A o \in Ops \ woken : /\ result[o] \in {"nothing", "error"} => o \notin sockets
                         /\ result[o] = "connection" => o \in sockets

\* The thread changes the connections of network.cpp, which no mutex protects,
\* only while the caller waits (the comment in execute), unless the caller was woken
\* for no reason and went on.
NetworkNotShared ==
  \A o \in Ops \ woken :
    pc[o] = "section" /\ o \notin aborted => op = o /\ main \in {"waiting", "dead"}

\* No operation is destroyed while its thread runs (the comment on async_operation:
\* "the caller cannot still delete the operation, since the worker thread might
\* still access it").
OperationOutlivesThread == \A o \in freed : pc[o] = "exited"

\* It holds of the operations whose thread read its pointer in time, whether the
\* caller waited, gave up or was woken.
ReachedOutlivesThread == \A o \in freed \ early : pc[o] = "exited"

\* Every call returns (execute), unless a thread that came too late ends the program.
CallReturns == main = "making" ~> main \in {"idle", "dead"}
=============================================================================
