------------------------ MODULE NetworkWorker_proofs ------------------------
(***************************************************************************)
(* network_worker_pool, for any numbers of threads and sockets and whatever *)
(* the limits of the pool.  IInv is inductive: to the invariants that the   *)
(* runs check it adds who has the mutex, who has a job, and what the life   *)
(* of the pool allows.  Each part has a lemma that a step keeps it, with a  *)
(* step of the proof for every action.                                      *)
(***************************************************************************)
EXTENDS NetworkWorker, FiniteSetTheorems, SequenceTheorems, WellFoundedInduction, TLAPS

-----------------------------------------------------------------------------
(* Lemmas about the operators of the module. *)

\* What is less than what, as a set of pairs.
Less == {p \in Nat \X Nat : p[1] < p[2]}

\* Less is the order of the numbers.
LEMMA LessIsLess == \A i, j \in Nat : <<j, i>> \in Less <=> j < i
  BY DEF Less

\* A set of numbers has a least one, and First finds it.
LEMMA FirstIsLeast ==
  ASSUME NEW S \in SUBSET Nat, S # {}
  PROVE  First(S) \in S /\ \A j \in S : First(S) <= j
<1>1. OpToRel(<, Nat) = Less
  BY Zenon DEF OpToRel, Less
<1>2. IsWellFoundedOn(Less, Nat)
  BY <1>1, NatLessThanWellFounded, Zenon
<1>3. PICK i \in S : \A j \in S : ~ (<<j, i>> \in Less)
  BY <1>2, WFMin
<1>4. \A j \in S : ~ (j < i)
  BY <1>3, LessIsLess
<1>5. \A j \in S : i <= j
  BY <1>4
<1> QED
  BY <1>5 DEF First

\* What is kept of a sequence is a sequence of some of its elements.
LEMMA KeptIsPart ==
  ASSUME NEW S, NEW q \in Seq(S), NEW keep \in SUBSET (DOMAIN q), NEW r \in Kept(q, keep)
  PROVE  r \in Seq(S) /\ \A k \in DOMAIN r : \E i \in keep : r[k] = q[i]
<1>1. IsFiniteSet(keep)
  BY FS_Interval, FS_Subset
<1>2. Cardinality(keep) \in Nat
  BY <1>1, FS_CardinalityType
<1> DEFINE n == Cardinality(keep)
<1>3. PICK f \in [1..n -> keep] : r = [k \in DOMAIN f |-> q[f[k]]]
  BY DEF Kept
<1>4. r = [k \in 1..n |-> q[f[k]]] /\ \A k \in 1..n : f[k] \in keep
  BY <1>3
<1>5. \A i \in keep : q[i] \in S
  OBVIOUS
<1> HIDE DEF n
<1>6. r \in [1..n -> S]
  BY <1>4, <1>5
<1>7. n \in Nat
  BY <1>2 DEF n
<1>8. r \in Seq(S)
  BY <1>6, <1>7
<1>9. \A k \in DOMAIN r : k \in 1..n
  BY <1>6
<1> QED
  BY <1>4, <1>8, <1>9

\* What is kept without s is without s.
LEMMA OthersAreOther ==
  ASSUME NEW S, NEW q \in Seq(S), NEW s, NEW r \in Others(q, s)
  PROVE  r \in Seq(S) /\ \A k \in DOMAIN r : r[k] # s /\ \E i \in DOMAIN q : q[i] # s
            /\ r[k] = q[i]
<1> DEFINE keep == {i \in DOMAIN q : q[i] # s}
<1>1. r \in Seq(S) /\ \A k \in DOMAIN r : \E i \in keep : r[k] = q[i]
  <2>1. r \in Kept(q, keep) /\ keep \in SUBSET (DOMAIN q)
    BY DEF Others
  <2> HIDE DEF keep
  <2> QED
    BY <2>1, KeptIsPart
<1> QED
  BY <1>1

\* Removing an element moves those behind it.
LEMMA RemovedPointwise ==
  ASSUME NEW S, NEW q \in Seq(S), NEW i \in DOMAIN q
  PROVE  /\ RemoveAt(q, i) \in Seq(S) /\ Len(RemoveAt(q, i)) = Len(q) - 1
         /\ \A k \in 1..(Len(q) - 1) : RemoveAt(q, i)[k] = IF k < i THEN q[k] ELSE q[k + 1]
<1> DEFINE left  == SubSeq(q, 1, i - 1)
           right == SubSeq(q, i + 1, Len(q))
<1>1. i \in 1..Len(q) /\ Len(q) \in Nat
  OBVIOUS
<1>2. left \in Seq(S) /\ Len(left) = i - 1 /\ \A k \in 1..(i - 1) : left[k] = q[k]
  BY <1>1
<1>3. right \in Seq(S) /\ Len(right) = Len(q) - i
         /\ \A k \in 1..(Len(q) - i) : right[k] = q[i + k]
  BY <1>1
<1>4. RemoveAt(q, i) = left \o right
  BY DEF RemoveAt
<1> HIDE DEF left, right
<1>5. left \o right \in Seq(S) /\ Len(left \o right) = Len(q) - 1
  BY <1>1, <1>2, <1>3, ConcatProperties
<1>6. ASSUME NEW k \in 1..(Len(q) - 1)
      PROVE  (left \o right)[k] = IF k < i THEN q[k] ELSE q[k + 1]
  <2>0. k \in Int /\ i \in Int /\ Len(q) \in Int /\ 1 <= k /\ k <= Len(q) - 1 /\ 1 <= i
           /\ i <= Len(q)
    BY <1>1
  <2>1. CASE k < i
    BY <1>1, <1>2, <1>3, <2>1, ConcatProperties
  <2>2. CASE ~ (k < i)
    <3>1. (left \o right)[k] = right[k - (i - 1)]
      <4>1. k \in 1..(Len(left) + Len(right)) /\ ~ (k <= Len(left))
        BY <2>0, <1>2, <1>3, <2>2
      <4>2. (left \o right)[k] = IF k <= Len(left) THEN left[k] ELSE right[k - Len(left)]
        BY <4>1, <1>2, <1>3, ConcatProperties
      <4> QED
        BY <1>2, <4>1, <4>2
    <3>2. k - (i - 1) \in 1..(Len(q) - i) /\ i + (k - (i - 1)) = k + 1
      BY <1>1, <2>2
    <3> QED
      BY <1>3, <3>1, <3>2
  <2> QED
    BY <2>1, <2>2
<1> QED
  BY <1>4, <1>5, <1>6

\* What is left when an element is removed.
LEMMA RemovedIsPart ==
  ASSUME NEW S, NEW q \in Seq(S), NEW i \in DOMAIN q
  PROVE  /\ RemoveAt(q, i) \in Seq(S)
         /\ \A k \in DOMAIN RemoveAt(q, i) : \E j \in DOMAIN q : RemoveAt(q, i)[k] = q[j]
<1>1. i \in 1..Len(q) /\ Len(q) \in Nat
  OBVIOUS
<1>2. \A k \in 1..(Len(q) - 1) : k \in DOMAIN q /\ k + 1 \in DOMAIN q
  BY <1>1
<1>3. DOMAIN RemoveAt(q, i) = 1..(Len(q) - 1)
  BY RemovedPointwise
<1> QED
  BY <1>2, <1>3, RemovedPointwise

\* What was appended to a sequence is a.
LEMMA AppendedIsMore ==
  ASSUME NEW S, NEW q \in Seq(S), NEW a \in S
  PROVE  /\ Append(q, a) \in Seq(S)
         /\ \A k \in DOMAIN Append(q, a) : Append(q, a)[k] = a
               \/ \E j \in DOMAIN q : Append(q, a)[k] = q[j]
  OBVIOUS

-----------------------------------------------------------------------------
(* The invariant and its parts. *)

\* The mutex belongs to the thread that is where one has it.
Mutexed ==
  \A w \in Workers : mutex = w <=> pc[w] \in {"reaping", "scanning", "blocking", "spawning"}

\* A thread has a socket while it has a job, and a message while it sends.
Employed ==
  \A w \in Workers :
    /\ sock[w] # NULL <=> pc[w] \in Working \cup {"spawning"}
    /\ pc[w] \in {"sending", "writing"} => sent_buf[w] # 0
    /\ pc[w] \in {"receiving", "deliver"} => sent_buf[w] = 0

\* What the life of the pool allows.
Living ==
  /\ managed <=> main \in {"up", "closing"}
  /\ \A w \in Workers : w \in threads <=> pc[w] # "absent"
  /\ main = "down" => threads = {}
  /\ main \notin {"up", "closing"} => \A s \in Sockets : sockets_locked[s] = "none"
  /\ main \in {"notify", "join"} => \A w \in Workers : pc[w] # "reaping"
  /\ \A w \in Workers : pc[w] = "spawning" => MaxThreads = 0
        \/ MaxThreads > Cardinality(threads)

\* The inductive invariant.
IInv == TypeOK /\ Mutexed /\ Employed /\ Living /\ HeldByOne /\ BuffersKnown /\ PoolBounded

USE NullAssumption, ThreadsAssumption, WorkersAssumption, SocketsAssumption, BoundsAssumption
USE DEF pool, shared, locals, client, vars, At

\* The job that a thread finds is one of a socket that is ready.
LEMMA FoundIsReady ==
  ASSUME IInv
  PROVE  /\ Sendable # {} => LET i == First(Sendable) IN
              /\ i \in DOMAIN outgoing_bufs /\ outgoing_bufs[i] \in Buffers
              /\ outgoing_bufs[i].sock \in Sockets /\ outgoing_bufs[i].id \in Messages
              /\ sockets_locked[outgoing_bufs[i].sock] = "ready"
         /\ Receivable # {} => LET i == First(Receivable) IN
              /\ i \in DOMAIN pending_receives /\ pending_receives[i] \in Sockets
              /\ sockets_locked[pending_receives[i]] = "ready"
<1>1. outgoing_bufs \in Seq(Buffers) /\ pending_receives \in Seq(Sockets)
  BY DEF IInv, TypeOK
<1>2. Sendable \in SUBSET Nat /\ Receivable \in SUBSET Nat
  BY <1>1 DEF Sendable, Receivable
<1>3. ASSUME Sendable # {} PROVE First(Sendable) \in Sendable
  BY <1>2, <1>3, FirstIsLeast
<1>4. ASSUME Receivable # {} PROVE First(Receivable) \in Receivable
  BY <1>2, <1>4, FirstIsLeast
<1>5. \A b \in Buffers : b.sock \in Sockets /\ b.id \in Messages
  BY DEF Buffers
<1> QED
  BY <1>1, <1>3, <1>4, <1>5 DEF Sendable, Receivable

\* Where the threads are.
LEMMA PlacesOfThreads ==
  ASSUME IInv
  PROVE  /\ mutex \in Workers \cup {NULL} /\ pc \in [Workers -> Places]
         /\ sock \in [Workers -> Sockets \cup {NULL}] /\ NULL \notin Sockets
               /\ NULL \notin Workers
         /\ \A w \in Workers : w \in threads <=> pc[w] # "absent"
         /\ main = "down" => \A w \in Workers : pc[w] = "absent"
         /\ threads \subseteq Workers /\ to_clear = {w \in Workers : pc[w] = "exited"}
         /\ to_clear \subseteq threads
  BY DEF IInv, TypeOK, Living, PoolBounded

\* A thread that works has a socket, which is locked: the pool is in use.
LEMMA WorkersHold ==
  ASSUME IInv, NEW w \in Workers, pc[w] \in Working \cup {"spawning"}
  PROVE  /\ sock[w] \in Sockets /\ sockets_locked[sock[w]] \in {"locked", "interrupt"}
         /\ main \in {"up", "closing"}
<1>1. sock[w] \in Sockets
  <2>1. sock[w] # NULL
    BY DEF IInv, Employed
  <2> QED
    BY <2>1, PlacesOfThreads
<1>2. sockets_locked[sock[w]] \in {"locked", "interrupt"}
  BY <1>1 DEF IInv, HeldByOne
<1>3. main \in {"up", "closing"}
  BY <1>1, <1>2 DEF IInv, Living
<1> QED
  BY <1>1, <1>2, <1>3

-----------------------------------------------------------------------------
(* The mutex, the jobs and the sockets that are held. *)

\* A thread takes the mutex when it is free and goes where one has it.
LEMMA MutexedKeeps == IInv /\ [Next]_vars => Mutexed'
<1> SUFFICES ASSUME IInv, [Next]_vars PROVE Mutexed'
  OBVIOUS
<1>1. Mutexed
  BY DEF IInv
<1> USE PlacesOfThreads, <1>1 DEF Mutexed
<1>2. CASE UNCHANGED vars
  BY <1>2
<1>3. ASSUME NEW w \in Workers, Enter(w) PROVE Mutexed'
  BY <1>3 DEF Enter, Admit, Enough
<1>4. ASSUME NEW w \in Workers, Reap(w) PROVE Mutexed'
  BY <1>4 DEF Reap, Admit, Enough
<1>5. ASSUME NEW w \in Workers, Scan(w) PROVE Mutexed'
  BY <1>5 DEF Scan, Take
<1>6. ASSUME NEW w \in Workers, Block(w) PROVE Mutexed'
  BY <1>6 DEF Block
<1>7. ASSUME NEW w \in Workers, Resume(w) PROVE Mutexed'
  BY <1>7 DEF Resume
<1>8. ASSUME NEW w \in Workers, Spawn(w) PROVE Mutexed'
  BY <1>8 DEF Spawn
<1>9. ASSUME NEW w \in Workers, CheckLocked(w) PROVE Mutexed'
  BY <1>9 DEF CheckLocked, Result
<1>10. ASSUME NEW w \in Workers, Write(w) PROVE Mutexed'
  BY <1>10 DEF Write, Put, Result
<1>11. ASSUME NEW w \in Workers, Receive(w) PROVE Mutexed'
  BY <1>11 DEF Receive, Result
<1>12. ASSUME NEW w \in Workers, Deliver(w) PROVE Mutexed'
  BY <1>12 DEF Deliver, Result
<1>13. ASSUME NEW w \in Workers, CheckSocketResult(w) PROVE Mutexed'
  BY <1>13 DEF CheckSocketResult
<1>14. ASSUME NEW w \in Workers, SpuriousWakeup(w) PROVE Mutexed'
  BY <1>14 DEF SpuriousWakeup
<1>15. ASSUME NEW s \in Sockets, QueueBuffer(s) PROVE Mutexed'
  BY <1>15 DEF QueueBuffer, Announce, CanCall, Sleeping
<1>16. ASSUME NEW s \in Sockets, ReceiveData(s) PROVE Mutexed'
  BY <1>16 DEF ReceiveData, Announce, CanCall, Sleeping
<1>17. ASSUME NEW s \in Sockets, CloseSocket(s) PROVE Mutexed'
  BY <1>17 DEF CloseSocket, RemoveBuffers
<1>18. ASSUME NEW i \in DOMAIN received_data_queue, GetReceivedData(i) PROVE Mutexed'
  BY <1>18 DEF GetReceivedData, CanCall
<1>19. CASE DetectError
  BY <1>19 DEF DetectError, CanCall, Errored, RemoveBuffers
<1>20. CASE Start
  BY <1>20 DEF Start
<1>21. CASE Disconnect
  BY <1>21 DEF Disconnect
<1>22. CASE Unmanage
  BY <1>22 DEF Unmanage
<1>23. CASE ResetErrors
  BY <1>23 DEF ResetErrors
<1>24. CASE NotifyAll
  BY <1>24 DEF NotifyAll, Sleeping
<1>25. CASE Join
  BY <1>25 DEF Join
<1> QED
  BY <1>2, <1>3, <1>4, <1>5, <1>6, <1>7, <1>8, <1>9, <1>10, <1>11, <1>12, <1>13, <1>14,
     <1>15, <1>16, <1>17, <1>18, <1>19, <1>20, <1>21, <1>22, <1>23, <1>24, <1>25
     DEF Next, Turn, Work, Call, Shutdown

\* A job begins with a socket, and ends without one.
LEMMA EmployedKeeps == IInv /\ [Next]_vars => Employed'
<1> SUFFICES ASSUME IInv, [Next]_vars PROVE Employed'
  OBVIOUS
<1>1. Employed
  BY DEF IInv
<1>2. sent_buf \in [Workers -> 0 .. MaxQueued]
  BY DEF IInv, TypeOK
<1> USE PlacesOfThreads, <1>1, <1>2 DEF Employed, Working
<1>3. CASE UNCHANGED vars
  BY <1>3
<1>4. ASSUME NEW w \in Workers, Enter(w) PROVE Employed'
  BY <1>4 DEF Enter, Admit, Enough
<1>5. ASSUME NEW w \in Workers, Reap(w) PROVE Employed'
  BY <1>5 DEF Reap, Admit, Enough
<1>6. ASSUME NEW w \in Workers, Scan(w) PROVE Employed'
  BY <1>6, FoundIsReady DEF Scan, Take
<1>7. ASSUME NEW w \in Workers, Block(w) PROVE Employed'
  BY <1>7 DEF Block
<1>8. ASSUME NEW w \in Workers, Resume(w) PROVE Employed'
  BY <1>8 DEF Resume
<1>9. ASSUME NEW w \in Workers, Spawn(w) PROVE Employed'
  BY <1>9 DEF Spawn
<1>10. ASSUME NEW w \in Workers, CheckLocked(w) PROVE Employed'
  BY <1>10 DEF CheckLocked, Result
<1>11. ASSUME NEW w \in Workers, Write(w) PROVE Employed'
  BY <1>11 DEF Write, Put, Result
<1>12. ASSUME NEW w \in Workers, Receive(w) PROVE Employed'
  BY <1>12 DEF Receive, Result
<1>13. ASSUME NEW w \in Workers, Deliver(w) PROVE Employed'
  BY <1>13 DEF Deliver, Result
<1>14. ASSUME NEW w \in Workers, CheckSocketResult(w) PROVE Employed'
  BY <1>14 DEF CheckSocketResult
<1>15. ASSUME NEW w \in Workers, SpuriousWakeup(w) PROVE Employed'
  BY <1>15 DEF SpuriousWakeup
<1>16. ASSUME NEW s \in Sockets, QueueBuffer(s) PROVE Employed'
  BY <1>16 DEF QueueBuffer, Announce, CanCall, Sleeping
<1>17. ASSUME NEW s \in Sockets, ReceiveData(s) PROVE Employed'
  BY <1>17 DEF ReceiveData, Announce, CanCall, Sleeping
<1>18. ASSUME NEW s \in Sockets, CloseSocket(s) PROVE Employed'
  BY <1>18 DEF CloseSocket, RemoveBuffers
<1>19. ASSUME NEW i \in DOMAIN received_data_queue, GetReceivedData(i) PROVE Employed'
  BY <1>19 DEF GetReceivedData, CanCall
<1>20. CASE DetectError
  BY <1>20 DEF DetectError, CanCall, Errored, RemoveBuffers
<1>21. CASE Start
  BY <1>21 DEF Start
<1>22. CASE Disconnect
  BY <1>22 DEF Disconnect
<1>23. CASE Unmanage
  BY <1>23 DEF Unmanage
<1>24. CASE ResetErrors
  BY <1>24 DEF ResetErrors
<1>25. CASE NotifyAll
  BY <1>25 DEF NotifyAll, Sleeping
<1>26. CASE Join
  BY <1>26 DEF Join
<1> QED
  BY <1>3, <1>4, <1>5, <1>6, <1>7, <1>8, <1>9, <1>10, <1>11, <1>12, <1>13, <1>14, <1>15,
     <1>16, <1>17, <1>18, <1>19, <1>20, <1>21, <1>22, <1>23, <1>24, <1>25, <1>26
     DEF Next, Turn, Work, Call, Shutdown

\* A thread that takes a job locks a socket that nobody holds.
LEMMA TakeHolds ==
  ASSUME IInv, NEW w \in Workers, pc[w] = "scanning", NEW s \in Sockets,
            sockets_locked[s] = "ready",
         NEW id, Take(w, s, id)
  PROVE  HeldByOne'
<1>1. sock[w] = NULL /\ \A x \in Workers : sock[x] # s
  BY PlacesOfThreads DEF IInv, Employed, Working, HeldByOne
<1>2. /\ sock' = [sock EXCEPT ![w] = s] /\ sock'[w] = s
      /\ \A x \in Workers \ {w} : sock'[x] = sock[x]
  BY PlacesOfThreads DEF Take
<1>3. sockets_locked'[s] = "locked"
         /\ \A t \in Sockets \ {s} : sockets_locked'[t] = sockets_locked[t]
  BY DEF Take, IInv, TypeOK
<1>4. \A x, y \in Workers : sock'[x] = sock'[y] => x = y \/ sock'[x] = NULL
  BY <1>1, <1>2 DEF IInv, HeldByOne
<1>5. \A t \in Sockets : sockets_locked'[t] \in {"locked", "interrupt"}
         <=> \E x \in Workers : sock'[x] = t
  <2>1. ASSUME NEW t \in Sockets \ {s}
        PROVE  (\E x \in Workers : sock'[x] = t) <=> (\E x \in Workers : sock[x] = t)
    BY <1>1, <1>2, PlacesOfThreads
  <2> QED
    BY <1>2, <1>3, <2>1 DEF IInv, HeldByOne
<1> QED
  BY <1>4, <1>5 DEF HeldByOne

\* At the end of a job the socket is nobody's.
LEMMA ResultReleases ==
  ASSUME IInv, NEW w \in Workers, CheckSocketResult(w)
  PROVE  HeldByOne' /\ sock[w] \in Sockets /\ main \in {"up", "closing"}
<1>1. sock[w] \in Sockets /\ sockets_locked[sock[w]] \in {"locked", "interrupt"}
  BY WorkersHold DEF CheckSocketResult, Working
<1>2. /\ sock'[w] = NULL /\ \A x \in Workers \ {w} : sock'[x] = sock[x] /\ sock[x] # sock[w]
      /\ result[w] \in {"ready", "errored"}
  BY <1>1, PlacesOfThreads DEF CheckSocketResult, IInv, TypeOK, HeldByOne
<1>3. /\ sockets_locked'[sock[w]] = result[w]
      /\ \A t \in Sockets \ {sock[w]} : sockets_locked'[t] = sockets_locked[t]
  BY <1>1 DEF CheckSocketResult, IInv, TypeOK
<1>4. \A x, y \in Workers : sock'[x] = sock'[y] => x = y \/ sock'[x] = NULL
  BY <1>2 DEF IInv, HeldByOne
<1>5. \A t \in Sockets : sockets_locked'[t] \in {"locked", "interrupt"}
         <=> \E x \in Workers : sock'[x] = t
  <2>1. ASSUME NEW t \in Sockets \ {sock[w]}
        PROVE  (\E x \in Workers : sock'[x] = t) <=> (\E x \in Workers : sock[x] = t)
    BY <1>2, PlacesOfThreads
  <2> QED
    BY <1>1, <1>2, <1>3, <2>1, PlacesOfThreads DEF IInv, HeldByOne
<1> QED
  BY <1>1, <1>4, <1>5 DEF HeldByOne, IInv, Living

\* Only Scan locks a socket and only CheckSocketResult gives one back.
LEMMA HeldByOneKeeps == IInv /\ [Next]_vars => HeldByOne'
<1> SUFFICES ASSUME IInv, [Next]_vars PROVE HeldByOne'
  OBVIOUS
<1>1. HeldByOne /\ Employed /\ Living
  BY DEF IInv
<1>2. sockets_locked \in [Sockets -> {"none", "ready", "locked", "errored", "interrupt"}]
  BY DEF IInv, TypeOK
<1> USE PlacesOfThreads, <1>1, <1>2
<1>3. CASE UNCHANGED vars
  BY <1>3 DEF HeldByOne
<1>4. ASSUME NEW w \in Workers, Enter(w) PROVE HeldByOne'
  BY <1>4 DEF Enter, Admit, Enough, HeldByOne
<1>5. ASSUME NEW w \in Workers, Reap(w) PROVE HeldByOne'
  BY <1>5 DEF Reap, Admit, Enough, HeldByOne
<1>6. ASSUME NEW w \in Workers, Scan(w) PROVE HeldByOne'
  <2>1. CASE sock' = sock /\ sockets_locked' = sockets_locked
    BY <2>1 DEF HeldByOne
  <2>2. CASE \E s \in Sockets, id \in Messages \cup {0} : sockets_locked[s] = "ready"
                /\ Take(w, s, id)
    BY <1>6, <2>2, TakeHolds DEF Scan
  <2> QED
    BY <1>6, <2>1, <2>2, FoundIsReady DEF Scan
<1>7. ASSUME NEW w \in Workers, Block(w) PROVE HeldByOne'
  BY <1>7 DEF Block, HeldByOne
<1>8. ASSUME NEW w \in Workers, Resume(w) PROVE HeldByOne'
  BY <1>8 DEF Resume, HeldByOne
<1>9. ASSUME NEW w \in Workers, Spawn(w) PROVE HeldByOne'
  BY <1>9 DEF Spawn, HeldByOne
<1>10. ASSUME NEW w \in Workers, CheckLocked(w) PROVE HeldByOne'
  BY <1>10 DEF CheckLocked, Result, HeldByOne
<1>11. ASSUME NEW w \in Workers, Write(w) PROVE HeldByOne'
  BY <1>11 DEF Write, Put, Result, HeldByOne
<1>12. ASSUME NEW w \in Workers, Receive(w) PROVE HeldByOne'
  BY <1>12 DEF Receive, Result, HeldByOne
<1>13. ASSUME NEW w \in Workers, Deliver(w) PROVE HeldByOne'
  BY <1>13 DEF Deliver, Result, HeldByOne
<1>14. ASSUME NEW w \in Workers, CheckSocketResult(w) PROVE HeldByOne'
  BY <1>14, ResultReleases
<1>15. ASSUME NEW w \in Workers, SpuriousWakeup(w) PROVE HeldByOne'
  BY <1>15 DEF SpuriousWakeup, HeldByOne
<1>16. ASSUME NEW s \in Sockets, QueueBuffer(s) PROVE HeldByOne'
  BY <1>16 DEF QueueBuffer, Announce, CanCall, Sleeping, HeldByOne
<1>17. ASSUME NEW s \in Sockets, ReceiveData(s) PROVE HeldByOne'
  BY <1>17 DEF ReceiveData, Announce, CanCall, Sleeping, HeldByOne
<1>18. ASSUME NEW s \in Sockets, CloseSocket(s) PROVE HeldByOne'
  BY <1>18 DEF CloseSocket, RemoveBuffers, HeldByOne
<1>19. ASSUME NEW i \in DOMAIN received_data_queue, GetReceivedData(i) PROVE HeldByOne'
  BY <1>19 DEF GetReceivedData, CanCall, HeldByOne
<1>20. CASE DetectError
  <2>1. \A t \in Sockets : sockets_locked'[t] \in {"locked", "interrupt"}
           <=> sockets_locked[t] \in {"locked", "interrupt"}
    BY <1>20 DEF DetectError, Errored
  <2>2. sock' = sock
    BY <1>20 DEF DetectError
  <2> QED
    BY <2>1, <2>2 DEF HeldByOne
<1>21. CASE Start
  BY <1>21 DEF Start, HeldByOne
<1>22. CASE Disconnect
  BY <1>22 DEF Disconnect, HeldByOne
<1>23. CASE Unmanage
  BY <1>23 DEF Unmanage, HeldByOne
<1>24. CASE ResetErrors
  BY <1>24 DEF ResetErrors, HeldByOne
<1>25. CASE NotifyAll
  BY <1>25 DEF NotifyAll, Sleeping, HeldByOne
<1>26. CASE Join
  BY <1>26 DEF Join, HeldByOne, Living, Employed, Working
<1> QED
  BY <1>3, <1>4, <1>5, <1>6, <1>7, <1>8, <1>9, <1>10, <1>11, <1>12, <1>13, <1>14, <1>15,
     <1>16, <1>17, <1>18, <1>19, <1>20, <1>21, <1>22, <1>23, <1>24, <1>25, <1>26
     DEF Next, Turn, Work, Call, Shutdown

\* The life of the pool: who exists, what is open, and who may still create a thread.
LEMMA LivingKeeps == IInv /\ [Next]_vars => Living'
<1> SUFFICES ASSUME IInv, [Next]_vars PROVE Living'
  OBVIOUS
<1>1. Living
  BY DEF IInv
<1>2. HeldByOne
  BY DEF IInv
<1>3. sockets_locked \in [Sockets -> {"none", "ready", "locked", "errored", "interrupt"}]
  BY DEF IInv, TypeOK
<1> USE PlacesOfThreads, <1>1, <1>2, <1>3 DEF Living
<1>4. CASE UNCHANGED vars
  BY <1>4
<1>5. ASSUME NEW w \in Workers, Enter(w) PROVE Living'
  BY <1>5 DEF Enter, Admit, Enough
<1>6. ASSUME NEW w \in Workers, Reap(w) PROVE Living'
  <2>1. threads' \subseteq threads /\ Cardinality(threads') <= Cardinality(threads)
           /\ Cardinality(threads) \in Nat /\ Cardinality(threads') \in Nat
    BY <1>6, FS_Subset, FS_CardinalityType DEF Reap
  <2> QED
    BY <1>6, <2>1 DEF Reap, Admit, Enough
<1>7. ASSUME NEW w \in Workers, Scan(w) PROVE Living'
  <2>1. CASE sockets_locked' = sockets_locked /\ \A x \in Workers : pc'[x] = "spawning"
                <=> pc[x] = "spawning"
    BY <1>7, <2>1 DEF Scan, Take
  <2>2. ASSUME NEW s \in Sockets, NEW id \in Messages \cup {0},
               sockets_locked[s] = "ready", Take(w, s, id)
        PROVE  Living'
    <3>1. main \in {"up", "closing"}
      BY <2>2
    <3>2. main' = main /\ managed' = managed /\ threads' = threads
      BY <1>7 DEF Scan
    <3>3. \A x \in Workers : pc'[x] = "spawning" => pc[x] = "spawning" \/ MaySpawn
      BY <2>2 DEF Take
    <3>4. \A x \in Workers : pc'[x] # "absent" <=> pc[x] # "absent"
      BY <1>7, <2>2 DEF Take, Scan
    <3> QED
      BY <3>1, <3>2, <3>3, <3>4 DEF MaySpawn
  <2> QED
    <3>1. CASE Sendable # {}
      BY <1>7, <2>2, <3>1, FoundIsReady DEF Scan
    <3>2. CASE Sendable = {} /\ Receivable # {}
      BY <1>7, <2>2, <3>2, FoundIsReady DEF Scan
    <3>3. CASE Sendable = {} /\ Receivable = {}
      BY <1>7, <2>1, <3>3 DEF Scan
    <3> QED
      BY <3>1, <3>2, <3>3
<1>8. ASSUME NEW w \in Workers, Block(w) PROVE Living'
  BY <1>8 DEF Block
<1>9. ASSUME NEW w \in Workers, Resume(w) PROVE Living'
  BY <1>9 DEF Resume
<1>10. ASSUME NEW w \in Workers, Spawn(w) PROVE Living'
  <2>1. \A x \in Workers : pc[x] = "spawning" => x = w
    BY <1>10 DEF Spawn, IInv, Mutexed
  <2>2. \A x \in Workers : pc'[x] # "spawning"
    BY <1>10, <2>1 DEF Spawn
  <2>3. main \in {"up", "closing"}
    BY <1>10, WorkersHold DEF Spawn
  <2>4. \A x \in Workers : x \in threads' <=> pc'[x] # "absent"
    BY <1>10 DEF Spawn
  <2>5. pc'[w] # "reaping" /\ \A x \in Workers : pc'[x] = "reaping" => pc[x] = "reaping"
    BY <1>10 DEF Spawn
  <2> QED
    BY <1>10, <2>2, <2>3, <2>4, <2>5 DEF Spawn
<1>11. ASSUME NEW w \in Workers, CheckLocked(w) PROVE Living'
  BY <1>11 DEF CheckLocked, Result
<1>12. ASSUME NEW w \in Workers, Write(w) PROVE Living'
  BY <1>12 DEF Write, Put, Result
<1>13. ASSUME NEW w \in Workers, Receive(w) PROVE Living'
  BY <1>13 DEF Receive, Result
<1>14. ASSUME NEW w \in Workers, Deliver(w) PROVE Living'
  BY <1>14 DEF Deliver, Result
<1>15. ASSUME NEW w \in Workers, CheckSocketResult(w) PROVE Living'
  BY <1>15, ResultReleases DEF CheckSocketResult
<1>16. ASSUME NEW w \in Workers, SpuriousWakeup(w) PROVE Living'
  BY <1>16 DEF SpuriousWakeup
<1>17. ASSUME NEW s \in Sockets, QueueBuffer(s) PROVE Living'
  BY <1>17 DEF QueueBuffer, Announce, CanCall, Sleeping
<1>18. ASSUME NEW s \in Sockets, ReceiveData(s) PROVE Living'
  BY <1>18 DEF ReceiveData, Announce, CanCall, Sleeping
<1>19. ASSUME NEW s \in Sockets, CloseSocket(s) PROVE Living'
  BY <1>19 DEF CloseSocket, RemoveBuffers
<1>20. ASSUME NEW i \in DOMAIN received_data_queue, GetReceivedData(i) PROVE Living'
  BY <1>20 DEF GetReceivedData, CanCall
<1>21. CASE DetectError
  BY <1>21 DEF DetectError, CanCall, Errored, RemoveBuffers
<1>22. CASE Start
  BY <1>22 DEF Start
<1>23. CASE Disconnect
  BY <1>23 DEF Disconnect
<1>24. CASE Unmanage
  BY <1>24 DEF Unmanage
<1>25. CASE ResetErrors
  BY <1>25 DEF ResetErrors, IInv, Mutexed
<1>26. CASE NotifyAll
  BY <1>26 DEF NotifyAll, Sleeping
<1>27. CASE Join
  BY <1>27 DEF Join
<1> QED
  BY <1>4, <1>5, <1>6, <1>7, <1>8, <1>9, <1>10, <1>11, <1>12, <1>13, <1>14, <1>15, <1>16,
     <1>17, <1>18, <1>19, <1>20, <1>21, <1>22, <1>23, <1>24, <1>25, <1>26, <1>27
     DEF Next, Turn, Work, Call, Shutdown

-----------------------------------------------------------------------------
(* What is queued, and the errors. *)

\* BuffersKnown, in two parts.
QueuesKnown ==
  /\ \A i \in DOMAIN outgoing_bufs : sockets_locked[outgoing_bufs[i].sock] # "none"
  /\ \A i \in DOMAIN pending_receives : sockets_locked[pending_receives[i]] # "none"
  /\ \A i \in DOMAIN received_data_queue : sockets_locked[received_data_queue[i]] # "none"
ErrorsCounted == main \in {"up", "closing"} => Cardinality(Errored) <= socket_errors

\* A thread finds its job in the queues, and a buffer that it takes is gone.
LEMMA ScanKeepsQueues ==
  ASSUME IInv, NEW w \in Workers, Scan(w)
  PROVE  QueuesKnown'
<1>1. /\ outgoing_bufs \in Seq(Buffers) /\ pending_receives \in Seq(Sockets)
      /\ sockets_locked \in [Sockets -> {"none", "ready", "locked", "errored", "interrupt"}]
  BY DEF IInv, TypeOK
<1>2. QueuesKnown
  BY DEF IInv, BuffersKnown, QueuesKnown
<1>3. \A s \in Sockets : sockets_locked'[s] = "none" => sockets_locked[s] = "none"
  BY <1>1 DEF Scan, Take
<1>4. \A i \in DOMAIN outgoing_bufs : outgoing_bufs[i].sock \in Sockets
  <2>1. \A b \in Buffers : b.sock \in Sockets
    BY DEF Buffers
  <2> QED
    BY <1>1, <2>1
<1>5. \A i \in DOMAIN outgoing_bufs' :
         \E j \in DOMAIN outgoing_bufs : outgoing_bufs'[i] = outgoing_bufs[j]
  BY <1>1, FoundIsReady, RemovedIsPart DEF Scan
<1>6. \A i \in DOMAIN pending_receives' :
         \E j \in DOMAIN pending_receives : pending_receives'[i] = pending_receives[j]
  BY <1>1, FoundIsReady, RemovedIsPart DEF Scan
<1>7. received_data_queue \in Seq(Sockets) /\ received_data_queue' = received_data_queue
  BY DEF IInv, TypeOK, Scan
<1>8. \A i \in DOMAIN outgoing_bufs' : sockets_locked'[outgoing_bufs'[i].sock] # "none"
  BY <1>2, <1>3, <1>4, <1>5 DEF QueuesKnown
<1>9. \A i \in DOMAIN pending_receives' : sockets_locked'[pending_receives'[i]] # "none"
  BY <1>1, <1>2, <1>3, <1>6 DEF QueuesKnown
<1>10. \A i \in DOMAIN received_data_queue' : sockets_locked'[received_data_queue'[i]] # "none"
  BY <1>2, <1>3, <1>7 DEF QueuesKnown
<1> QED
  BY <1>8, <1>9, <1>10 DEF QueuesKnown

\* A buffer is for a socket.
LEMMA BufferSockets == \A b \in Buffers : b.sock \in Sockets
  BY DEF Buffers

\* Nothing of s stays when its buffers are removed.
LEMMA RemovedBuffers ==
  ASSUME IInv, NEW s \in Sockets, RemoveBuffers(s)
  PROVE  /\ \A i \in DOMAIN outgoing_bufs' : \E j \in DOMAIN outgoing_bufs :
              outgoing_bufs[j].sock # s /\ outgoing_bufs'[i] = outgoing_bufs[j]
         /\ \A i \in DOMAIN received_data_queue' : \E j \in DOMAIN received_data_queue :
              received_data_queue[j] # s /\ received_data_queue'[i] = received_data_queue[j]
<1>1. outgoing_bufs \in Seq(Buffers) /\ received_data_queue \in Seq(Sockets)
  BY DEF IInv, TypeOK
<1> QED
  BY <1>1, KeptIsPart DEF RemoveBuffers, Others

\* Closing a socket takes it from the queues, and a message is delivered while its
\* socket is locked.
LEMMA QueuesKnownKeeps == IInv /\ [Next]_vars => QueuesKnown'
<1> SUFFICES ASSUME IInv, [Next]_vars PROVE QueuesKnown'
  OBVIOUS
<1>1. QueuesKnown
  BY DEF IInv, BuffersKnown, QueuesKnown
<1>2. outgoing_bufs \in Seq(Buffers) /\ pending_receives \in Seq(Sockets)
         /\ received_data_queue \in Seq(Sockets)
  BY DEF IInv, TypeOK
<1>3. sockets_locked \in [Sockets -> {"none", "ready", "locked", "errored", "interrupt"}]
  BY DEF IInv, TypeOK
<1>4. \A i \in DOMAIN outgoing_bufs : outgoing_bufs[i].sock \in Sockets
  BY <1>2, BufferSockets
<1> USE PlacesOfThreads, <1>1, <1>2, <1>3, <1>4 DEF QueuesKnown
<1>5. CASE UNCHANGED vars
  BY <1>5
<1>6. ASSUME NEW w \in Workers, Enter(w) PROVE QueuesKnown'
  BY <1>6 DEF Enter, Admit, Enough
<1>7. ASSUME NEW w \in Workers, Reap(w) PROVE QueuesKnown'
  BY <1>7 DEF Reap, Admit, Enough
<1>8. ASSUME NEW w \in Workers, Scan(w) PROVE QueuesKnown'
  BY <1>8, ScanKeepsQueues
<1>9. ASSUME NEW w \in Workers, Block(w) PROVE QueuesKnown'
  BY <1>9 DEF Block
<1>10. ASSUME NEW w \in Workers, Resume(w) PROVE QueuesKnown'
  BY <1>10 DEF Resume
<1>11. ASSUME NEW w \in Workers, Spawn(w) PROVE QueuesKnown'
  BY <1>11 DEF Spawn
<1>12. ASSUME NEW w \in Workers, CheckLocked(w) PROVE QueuesKnown'
  BY <1>12 DEF CheckLocked, Result
<1>13. ASSUME NEW w \in Workers, Write(w) PROVE QueuesKnown'
  BY <1>13 DEF Write, Put, Result
<1>14. ASSUME NEW w \in Workers, Receive(w) PROVE QueuesKnown'
  BY <1>14 DEF Receive, Result
<1>15. ASSUME NEW w \in Workers, Deliver(w) PROVE QueuesKnown'
  <2>1. sock[w] \in Sockets /\ sockets_locked[sock[w]] # "none"
    BY <1>15, WorkersHold DEF Deliver, Working
  <2>2. \A i \in DOMAIN received_data_queue' : received_data_queue'[i] = sock[w]
           \/ \E j \in DOMAIN received_data_queue : received_data_queue'[i] = received_data_queue[j]
    BY <1>15, <2>1, AppendedIsMore DEF Deliver
  <2> QED
    BY <1>15, <2>1, <2>2 DEF Deliver
<1>16. ASSUME NEW w \in Workers, CheckSocketResult(w) PROVE QueuesKnown'
  <2>1. sock[w] \in Sockets /\ result[w] # "none"
    BY <1>16, ResultReleases DEF IInv, TypeOK
  <2>2. \A t \in Sockets : sockets_locked'[t] = "none" => sockets_locked[t] = "none"
    BY <1>16, <2>1 DEF CheckSocketResult
  <2> QED
    BY <1>16, <2>2 DEF CheckSocketResult
<1>17. ASSUME NEW w \in Workers, SpuriousWakeup(w) PROVE QueuesKnown'
  BY <1>17 DEF SpuriousWakeup
<1>18. ASSUME NEW s \in Sockets, QueueBuffer(s) PROVE QueuesKnown'
  <2>1. received_data_queue' = received_data_queue
    BY <1>18 DEF QueueBuffer
  <2>2. \A t \in Sockets : sockets_locked'[t] = "none" => sockets_locked[t] = "none"
           /\ t # s
    BY <1>18 DEF QueueBuffer, Announce
  <2>3. outgoing_bufs' = Append(outgoing_bufs, [sock |-> s, id |-> queued[s] + 1])
    BY <1>18 DEF QueueBuffer
  <2>4. [sock |-> s, id |-> queued[s] + 1] \in Buffers
    <3>1. queued[s] \in 0..MaxQueued /\ queued[s] < MaxQueued
      BY <1>18 DEF QueueBuffer, IInv, TypeOK
    <3>2. queued[s] + 1 \in Messages
      BY <3>1 DEF Messages
    <3> QED
      BY <3>2 DEF Buffers
  <2>5. \A i \in DOMAIN outgoing_bufs' : outgoing_bufs'[i].sock = s
           \/ \E j \in DOMAIN outgoing_bufs : outgoing_bufs'[i] = outgoing_bufs[j]
    BY <2>3, <2>4, AppendedIsMore
  <2>6. pending_receives' = pending_receives
    BY <1>18 DEF QueueBuffer
  <2> QED
    BY <2>1, <2>2, <2>5, <2>6
<1>19. ASSUME NEW s \in Sockets, ReceiveData(s) PROVE QueuesKnown'
  <2>1. received_data_queue' = received_data_queue /\ outgoing_bufs' = outgoing_bufs
    BY <1>19 DEF ReceiveData
  <2>2. \A t \in Sockets : sockets_locked'[t] = "none" => sockets_locked[t] = "none"
           /\ t # s
    BY <1>19 DEF ReceiveData, Announce
  <2>3. \A i \in DOMAIN pending_receives' : pending_receives'[i] = s
           \/ \E j \in DOMAIN pending_receives : pending_receives'[i] = pending_receives[j]
    BY <1>19, AppendedIsMore DEF ReceiveData
  <2> QED
    BY <2>1, <2>2, <2>3
<1>20. ASSUME NEW s \in Sockets, CloseSocket(s) PROVE QueuesKnown'
  <2>1. \A t \in Sockets \ {s} : sockets_locked'[t] = sockets_locked[t]
    BY <1>20 DEF CloseSocket
  <2>2. \A i \in DOMAIN pending_receives' :
           \E j \in DOMAIN pending_receives : pending_receives[j] # s
              /\ pending_receives'[i] = pending_receives[j]
    BY <1>20, OthersAreOther DEF CloseSocket
  <2>3. CASE RemoveBuffers(s)
    BY <2>1, <2>2, <2>3, RemovedBuffers
  <2>4. CASE UNCHANGED <<outgoing_bufs, received_data_queue>> /\ sockets_locked'[s] # "none"
    BY <2>1, <2>2, <2>4
  <2> QED
    BY <1>20, <2>3, <2>4 DEF CloseSocket
<1>21. ASSUME NEW i \in DOMAIN received_data_queue, GetReceivedData(i) PROVE QueuesKnown'
  BY <1>21, RemovedIsPart DEF GetReceivedData, CanCall
<1>22. CASE DetectError
  <2>1. CASE Errored = {} /\ UNCHANGED <<sockets_locked, pending_receives, outgoing_bufs, received_data_queue>>
    BY <2>1
  <2>2. ASSUME NEW s \in Sockets, sockets_locked' = [sockets_locked EXCEPT ![s] = "none"],
               pending_receives' \in Others(pending_receives, s), RemoveBuffers(s)
        PROVE  QueuesKnown'
    <3>1. \A t \in Sockets \ {s} : sockets_locked'[t] = sockets_locked[t]
      BY <2>2
    <3>2. \A i \in DOMAIN pending_receives' :
             \E j \in DOMAIN pending_receives : pending_receives[j] # s
                /\ pending_receives'[i] = pending_receives[j]
      BY <2>2, OthersAreOther
    <3> QED
      BY <2>2, <3>1, <3>2, RemovedBuffers
  <2> QED
    BY <1>22, <2>1, <2>2 DEF DetectError, Errored
<1>23. CASE Start
  BY <1>23 DEF Start
<1>24. CASE Disconnect
  BY <1>24 DEF Disconnect
<1>25. CASE Unmanage
  BY <1>25 DEF Unmanage
<1>26. CASE ResetErrors
  BY <1>26 DEF ResetErrors
<1>27. CASE NotifyAll
  BY <1>27 DEF NotifyAll, Sleeping
<1>28. CASE Join
  <2>1. \A t \in Sockets : sockets_locked[t] = "none"
    BY <1>28 DEF Join, IInv, Living
  <2>2. DOMAIN outgoing_bufs = {} /\ DOMAIN pending_receives = {}
           /\ DOMAIN received_data_queue = {}
    BY <2>1
  <2> QED
    BY <1>28, <2>2 DEF Join
<1> QED
  BY <1>5, <1>6, <1>7, <1>8, <1>9, <1>10, <1>11, <1>12, <1>13, <1>14, <1>15, <1>16, <1>17,
     <1>18, <1>19, <1>20, <1>21, <1>22, <1>23, <1>24, <1>25, <1>26, <1>27, <1>28
     DEF Next, Turn, Work, Call, Shutdown

\* An error is counted with the state of the socket, and uncounted with it.
LEMMA ErrorsCountedKeeps == IInv /\ [Next]_vars => ErrorsCounted'
<1> SUFFICES ASSUME IInv, [Next]_vars PROVE ErrorsCounted'
  OBVIOUS
<1>1. ErrorsCounted
  BY DEF IInv, BuffersKnown, ErrorsCounted
<1>2. sockets_locked \in [Sockets -> {"none", "ready", "locked", "errored", "interrupt"}]
  BY DEF IInv, TypeOK
<1>3. socket_errors \in Nat
  BY DEF IInv, TypeOK
<1>4. \A E \in SUBSET Errored : IsFiniteSet(E) /\ Cardinality(E) \in Nat
         /\ Cardinality(E) <= Cardinality(Errored)
  BY FS_Subset, FS_CardinalityType DEF Errored
<1>5. HeldByOne /\ Living
  BY DEF IInv
<1> USE PlacesOfThreads, <1>1, <1>2, <1>3, <1>4, <1>5 DEF ErrorsCounted
<1>6. CASE UNCHANGED vars
  BY <1>6 DEF Errored
<1>7. ASSUME NEW w \in Workers, Enter(w) PROVE ErrorsCounted'
  BY <1>7 DEF Enter, Admit, Enough, Errored
<1>8. ASSUME NEW w \in Workers, Reap(w) PROVE ErrorsCounted'
  BY <1>8 DEF Reap, Admit, Enough, Errored
<1>9. ASSUME NEW w \in Workers, Scan(w) PROVE ErrorsCounted'
  <2>1. \A s \in Sockets : sockets_locked'[s] = "errored" => sockets_locked[s] = "errored"
    BY <1>9 DEF Scan, Take
  <2>2. Errored' \in SUBSET Errored /\ socket_errors' = socket_errors /\ main' = main
    BY <1>9, <2>1 DEF Scan, Errored
  <2> QED
    BY <2>2
<1>10. ASSUME NEW w \in Workers, Block(w) PROVE ErrorsCounted'
  BY <1>10 DEF Block, Errored
<1>11. ASSUME NEW w \in Workers, Resume(w) PROVE ErrorsCounted'
  BY <1>11 DEF Resume, Errored
<1>12. ASSUME NEW w \in Workers, Spawn(w) PROVE ErrorsCounted'
  BY <1>12 DEF Spawn, Errored
<1>13. ASSUME NEW w \in Workers, CheckLocked(w) PROVE ErrorsCounted'
  BY <1>13 DEF CheckLocked, Result, Errored
<1>14. ASSUME NEW w \in Workers, Write(w) PROVE ErrorsCounted'
  BY <1>14 DEF Write, Put, Result, Errored
<1>15. ASSUME NEW w \in Workers, Receive(w) PROVE ErrorsCounted'
  BY <1>15 DEF Receive, Result, Errored
<1>16. ASSUME NEW w \in Workers, Deliver(w) PROVE ErrorsCounted'
  BY <1>16 DEF Deliver, Result, Errored
<1>17. ASSUME NEW w \in Workers, CheckSocketResult(w) PROVE ErrorsCounted'
  <2>1. /\ sock[w] \in Sockets /\ main \in {"up", "closing"}
              /\ result[w] \in {"ready", "errored"}
        /\ sockets_locked[sock[w]] \in {"locked", "interrupt"}
    BY <1>17, ResultReleases DEF IInv, TypeOK, HeldByOne
  <2>2. sockets_locked' = [sockets_locked EXCEPT ![sock[w]] = result[w]]
    BY <1>17 DEF CheckSocketResult
  <2>3. CASE result[w] = "errored"
    <3>1. Errored' = Errored \cup {sock[w]} /\ socket_errors' = socket_errors + 1
             /\ sock[w] \notin Errored
      BY <1>17, <2>1, <2>2, <2>3 DEF CheckSocketResult, Errored
    <3>2. Cardinality(Errored') = Cardinality(Errored) + 1
      BY <3>1, FS_AddElement
    <3> QED
      BY <2>1, <3>1, <3>2
  <2>4. CASE result[w] = "ready"
    <3>1. Errored' = Errored /\ socket_errors' = socket_errors
      BY <1>17, <2>1, <2>2, <2>4 DEF CheckSocketResult, Errored
    <3> QED
      BY <2>1, <3>1
  <2> QED
    BY <2>1, <2>3, <2>4
<1>18. ASSUME NEW w \in Workers, SpuriousWakeup(w) PROVE ErrorsCounted'
  BY <1>18 DEF SpuriousWakeup, Errored
<1>19. ASSUME NEW s \in Sockets, QueueBuffer(s) PROVE ErrorsCounted'
  <2>1. \A t \in Sockets : sockets_locked'[t] = "errored" => sockets_locked[t] = "errored"
    BY <1>19 DEF QueueBuffer, Announce
  <2>2. Errored' \in SUBSET Errored /\ socket_errors' = socket_errors /\ main' = main
    BY <1>19, <2>1 DEF QueueBuffer, Errored
  <2> QED
    BY <2>2
<1>20. ASSUME NEW s \in Sockets, ReceiveData(s) PROVE ErrorsCounted'
  <2>1. \A t \in Sockets : sockets_locked'[t] = "errored" => sockets_locked[t] = "errored"
    BY <1>20 DEF ReceiveData, Announce
  <2>2. Errored' \in SUBSET Errored /\ socket_errors' = socket_errors /\ main' = main
    BY <1>20, <2>1 DEF ReceiveData, Errored
  <2> QED
    BY <2>2
<1>21. ASSUME NEW s \in Sockets, CloseSocket(s) PROVE ErrorsCounted'
  <2>1. \A t \in Sockets : sockets_locked'[t] = "errored" => sockets_locked[t] = "errored"
    BY <1>21 DEF CloseSocket, Announce
  <2>2. Errored' \in SUBSET Errored /\ socket_errors' = socket_errors /\ main' = main
    BY <1>21, <2>1 DEF CloseSocket, Errored
  <2> QED
    BY <2>2
<1>22. ASSUME NEW i \in DOMAIN received_data_queue, GetReceivedData(i) PROVE ErrorsCounted'
  BY <1>22 DEF GetReceivedData, CanCall, Errored
<1>23. CASE DetectError
  <2>1. ASSUME NEW s \in Errored, socket_errors' = socket_errors - 1,
               sockets_locked' = [sockets_locked EXCEPT ![s] = "none"]
        PROVE  ErrorsCounted'
    <3>1. Errored' = Errored \ {s}
      BY <2>1 DEF Errored
    <3>2. Cardinality(Errored') = Cardinality(Errored) - 1
      BY <3>1, FS_RemoveElement
    <3>3. Cardinality(Errored) <= socket_errors
      BY <1>23 DEF DetectError, CanCall
    <3> QED
      BY <2>1, <3>2, <3>3
  <2>2. CASE Errored = {} /\ socket_errors' = 0 /\ sockets_locked' = sockets_locked
    BY <2>2, FS_EmptySet DEF Errored
  <2> QED
    BY <1>23, <2>1, <2>2 DEF DetectError
<1>24. CASE Start
  <2>1. Errored = {} /\ Errored' = {} /\ socket_errors' = socket_errors
    BY <1>24 DEF Start, Living, Errored
  <2> QED
    BY <2>1, FS_EmptySet
<1>25. CASE Disconnect
  BY <1>25 DEF Disconnect, Errored
<1>26. CASE Unmanage
  BY <1>26 DEF Unmanage, Errored
<1>27. CASE ResetErrors
  BY <1>27 DEF ResetErrors, Errored
<1>28. CASE NotifyAll
  BY <1>28 DEF NotifyAll, Sleeping, Errored
<1>29. CASE Join
  BY <1>29 DEF Join, Errored
<1> QED
  BY <1>6, <1>7, <1>8, <1>9, <1>10, <1>11, <1>12, <1>13, <1>14, <1>15, <1>16, <1>17, <1>18,
     <1>19, <1>20, <1>21, <1>22, <1>23, <1>24, <1>25, <1>26, <1>27, <1>28, <1>29
     DEF Next, Turn, Work, Call, Shutdown

-----------------------------------------------------------------------------
(* The threads and the limits. *)

\* PoolBounded, in four parts.
WaitersCounted ==
  /\ waiting_threads = Cardinality(Waiters)
  /\ MinThreads > 0 => waiting_threads <= MinThreads
WithinLimits == MaxThreads > 0 => Cardinality(threads) <= MaxThreads
   \/ Cardinality(threads) <= MinThreads
NeverLost    == main = "up" /\ MinThreads > 0
   => \E w \in Workers : pc[w] \notin {"absent", "exited"}
OneToClear   ==
  /\ to_clear = {w \in Workers : At(w, "exited")}
  /\ managed => Cardinality(to_clear) <= 1

\* Counting the threads that wait.
LEMMA WaitersAreFinite ==
  /\ IsFiniteSet(Waiters) /\ Cardinality(Waiters) \in Nat
  /\ \A w \in Workers \ Waiters : Cardinality(Waiters \cup {w}) = Cardinality(Waiters) + 1
  /\ \A w \in Waiters : Cardinality(Waiters \ {w}) = Cardinality(Waiters) - 1
<1>1. IsFiniteSet(Waiters)
  BY FS_Subset DEF Waiters
<1> QED
  BY <1>1, FS_CardinalityType, FS_AddElement, FS_RemoveElement

\* waiting_threads is changed where a thread begins or ceases to wait.
LEMMA WaitersCountedKeeps == IInv /\ [Next]_vars => WaitersCounted'
<1> SUFFICES ASSUME IInv, [Next]_vars PROVE WaitersCounted'
  OBVIOUS
<1>1. WaitersCounted /\ OneToClear
  BY DEF IInv, PoolBounded, WaitersCounted, WithinLimits, NeverLost, OneToClear
<1> USE PlacesOfThreads, <1>1 DEF WaitersCounted
<1>2. CASE UNCHANGED vars
  <2>1. Waiters' = Waiters
    BY <1>2 DEF Waiters
  <2> QED
    BY <1>2, <2>1
<1>3. ASSUME NEW w \in Workers, Enter(w) PROVE WaitersCounted'
  <2>1. pc[w] \notin {"scanning", "blocking", "waiting", "woken"} /\ w \notin Waiters
    BY <1>3 DEF Enter, Waiters
  <2>2. CASE Enough /\ waiting_threads' = waiting_threads /\ pc'[w] = "exited"
    <3>1. Waiters' = Waiters
      BY <1>3, <2>1, <2>2 DEF Enter, Admit, Waiters
    <3> QED
      BY <2>2, <3>1
  <2>3. CASE ~Enough /\ waiting_threads' = waiting_threads + 1
    <3>1. Waiters' = Waiters \cup {w}
      BY <1>3, <2>1, <2>3 DEF Enter, Admit, Waiters
    <3>2. Cardinality(Waiters') = waiting_threads + 1
      BY <2>1, <3>1, WaitersAreFinite
    <3>3. MinThreads > 0 => waiting_threads < MinThreads
      BY <2>3, WaitersAreFinite DEF Enough
    <3> QED
      BY <2>3, <3>2, <3>3, WaitersAreFinite
  <2>4. CASE waiting_threads' = waiting_threads /\ pc' = [pc EXCEPT ![w] = "reaping"]
    <3>1. Waiters' = Waiters
      BY <2>1, <2>4 DEF Waiters
    <3> QED
      BY <2>4, <3>1
  <2> QED
    BY <1>3, <2>2, <2>3, <2>4 DEF Enter, Admit
<1>4. ASSUME NEW w \in Workers, Reap(w) PROVE WaitersCounted'
  <2>1. pc[w] \notin {"scanning", "blocking", "waiting", "woken"} /\ w \notin Waiters
    BY <1>4 DEF Reap, Waiters
  <2>2. CASE Enough /\ waiting_threads' = waiting_threads /\ pc'[w] = "exited"
    <3>1. Waiters' = Waiters
      BY <1>4, <2>1, <2>2 DEF Reap, Admit, Waiters
    <3> QED
      BY <2>2, <3>1
  <2>3. CASE ~Enough /\ waiting_threads' = waiting_threads + 1
    <3>1. Waiters' = Waiters \cup {w}
      BY <1>4, <2>1, <2>3 DEF Reap, Admit, Waiters
    <3>2. Cardinality(Waiters') = waiting_threads + 1
      BY <2>1, <3>1, WaitersAreFinite
    <3>3. MinThreads > 0 => waiting_threads < MinThreads
      BY <2>3, WaitersAreFinite DEF Enough
    <3> QED
      BY <2>3, <3>2, <3>3, WaitersAreFinite
  <2>4. CASE waiting_threads' = waiting_threads /\ pc' = [pc EXCEPT ![w] = "reaping"]
    <3>1. Waiters' = Waiters
      BY <2>1, <2>4 DEF Waiters
    <3> QED
      BY <2>4, <3>1
  <2> QED
    BY <1>4, <2>2, <2>3, <2>4 DEF Reap, Admit
<1>5. ASSUME NEW w \in Workers, Scan(w) PROVE WaitersCounted'
  <2>1. CASE waiting_threads' = waiting_threads /\ pc' = [pc EXCEPT ![w] = "blocking"]
    <3>1. Waiters' = Waiters
      BY <1>5, <2>1 DEF Scan, Waiters
    <3> QED
      BY <2>1, <3>1
  <2>2. CASE waiting_threads' = waiting_threads - 1
                /\ pc'[w] \in {"exited", "spawning", "sending", "receiving"}
             /\ \A x \in Workers \ {w} : pc'[x] = pc[x]
    <3>1. Waiters' = Waiters \ {w} /\ w \in Waiters
      BY <1>5, <2>2 DEF Scan, Waiters
    <3>2. Cardinality(Waiters') = waiting_threads - 1
      BY <3>1, WaitersAreFinite
    <3> QED
      BY <2>2, <3>2, WaitersAreFinite
  <2> QED
    BY <1>5, <2>1, <2>2 DEF Scan, Take
<1>6. ASSUME NEW w \in Workers, Block(w) PROVE WaitersCounted'
  <2>1. Waiters' = Waiters /\ waiting_threads' = waiting_threads
    BY <1>6 DEF Block, Waiters
  <2> QED
    BY <2>1
<1>7. ASSUME NEW w \in Workers, Resume(w) PROVE WaitersCounted'
  <2>1. Waiters' = Waiters /\ waiting_threads' = waiting_threads
    BY <1>7 DEF Resume, Waiters
  <2> QED
    BY <2>1
<1>8. ASSUME NEW w \in Workers, Spawn(w) PROVE WaitersCounted'
  <2>1. Waiters' = Waiters /\ waiting_threads' = waiting_threads
    BY <1>8 DEF Spawn, Waiters
  <2> QED
    BY <2>1
<1>9. ASSUME NEW w \in Workers, CheckLocked(w) PROVE WaitersCounted'
  <2>1. Waiters' = Waiters /\ waiting_threads' = waiting_threads
    BY <1>9 DEF CheckLocked, Result, Waiters
  <2> QED
    BY <2>1
<1>10. ASSUME NEW w \in Workers, Write(w) PROVE WaitersCounted'
  <2>1. Waiters' = Waiters /\ waiting_threads' = waiting_threads
    BY <1>10 DEF Write, Put, Result, Waiters
  <2> QED
    BY <2>1
<1>11. ASSUME NEW w \in Workers, Receive(w) PROVE WaitersCounted'
  <2>1. Waiters' = Waiters /\ waiting_threads' = waiting_threads
    BY <1>11 DEF Receive, Result, Waiters
  <2> QED
    BY <2>1
<1>12. ASSUME NEW w \in Workers, Deliver(w) PROVE WaitersCounted'
  <2>1. Waiters' = Waiters /\ waiting_threads' = waiting_threads
    BY <1>12 DEF Deliver, Result, Waiters
  <2> QED
    BY <2>1
<1>13. ASSUME NEW w \in Workers, CheckSocketResult(w) PROVE WaitersCounted'
  <2>1. Waiters' = Waiters /\ waiting_threads' = waiting_threads
    BY <1>13 DEF CheckSocketResult, Waiters
  <2> QED
    BY <2>1
<1>14. ASSUME NEW w \in Workers, SpuriousWakeup(w) PROVE WaitersCounted'
  <2>1. Waiters' = Waiters /\ waiting_threads' = waiting_threads
    BY <1>14 DEF SpuriousWakeup, Waiters
  <2> QED
    BY <2>1
<1>15. ASSUME NEW s \in Sockets, QueueBuffer(s) PROVE WaitersCounted'
  <2>1. Waiters' = Waiters /\ waiting_threads' = waiting_threads
    BY <1>15 DEF QueueBuffer, Announce, CanCall, Sleeping, Waiters
  <2> QED
    BY <2>1
<1>16. ASSUME NEW s \in Sockets, ReceiveData(s) PROVE WaitersCounted'
  <2>1. Waiters' = Waiters /\ waiting_threads' = waiting_threads
    BY <1>16 DEF ReceiveData, Announce, CanCall, Sleeping, Waiters
  <2> QED
    BY <2>1
<1>17. ASSUME NEW s \in Sockets, CloseSocket(s) PROVE WaitersCounted'
  <2>1. Waiters' = Waiters /\ waiting_threads' = waiting_threads
    BY <1>17 DEF CloseSocket, RemoveBuffers, Waiters
  <2> QED
    BY <2>1
<1>18. ASSUME NEW i \in DOMAIN received_data_queue, GetReceivedData(i) PROVE WaitersCounted'
  <2>1. Waiters' = Waiters /\ waiting_threads' = waiting_threads
    BY <1>18 DEF GetReceivedData, CanCall, Waiters
  <2> QED
    BY <2>1
<1>19. CASE DetectError
  <2>1. Waiters' = Waiters /\ waiting_threads' = waiting_threads
    BY <1>19 DEF DetectError, CanCall, Errored, RemoveBuffers, Waiters
  <2> QED
    BY <2>1
<1>20. CASE Start
  <2>1. Waiters = {} /\ Waiters' = {} /\ waiting_threads' = waiting_threads
    BY <1>20 DEF Start, Waiters
  <2> QED
    BY <2>1
<1>21. CASE Disconnect
  <2>1. Waiters' = Waiters /\ waiting_threads' = waiting_threads
    BY <1>21 DEF Disconnect, Waiters
  <2> QED
    BY <2>1
<1>22. CASE Unmanage
  <2>1. Waiters' = Waiters /\ waiting_threads' = waiting_threads
    BY <1>22 DEF Unmanage, Waiters
  <2> QED
    BY <2>1
<1>23. CASE ResetErrors
  <2>1. Waiters' = Waiters /\ waiting_threads' = waiting_threads
    BY <1>23 DEF ResetErrors, Waiters
  <2> QED
    BY <2>1
<1>24. CASE NotifyAll
  <2>1. Waiters' = Waiters /\ waiting_threads' = waiting_threads
    BY <1>24 DEF NotifyAll, Sleeping, Waiters
  <2> QED
    BY <2>1
<1>25. CASE Join
  <2>1. Waiters = {} /\ Waiters' = {} /\ waiting_threads' = waiting_threads
    BY <1>25 DEF Join, Waiters
  <2> QED
    BY <2>1
<1> QED
  BY <1>2, <1>3, <1>4, <1>5, <1>6, <1>7, <1>8, <1>9, <1>10, <1>11, <1>12, <1>13, <1>14,
     <1>15, <1>16, <1>17, <1>18, <1>19, <1>20, <1>21, <1>22, <1>23, <1>24, <1>25
     DEF Next, Turn, Work, Call, Shutdown

\* A thread creates another one only where Living allows it.
LEMMA WithinLimitsKeeps == IInv /\ [Next]_vars => WithinLimits'
<1> SUFFICES ASSUME IInv, [Next]_vars PROVE WithinLimits'
  OBVIOUS
<1>1. WithinLimits
  BY DEF IInv, PoolBounded, WaitersCounted, WithinLimits, NeverLost, OneToClear
<1>2. Living
  BY DEF IInv
<1>3. IsFiniteSet(threads) /\ Cardinality(threads) \in Nat
  BY PlacesOfThreads, FS_Subset, FS_CardinalityType
<1> USE PlacesOfThreads, <1>1, <1>2, <1>3 DEF WithinLimits
<1>4. CASE UNCHANGED vars
  BY <1>4
<1>5. ASSUME NEW w \in Workers, Enter(w) PROVE WithinLimits'
  BY <1>5 DEF Enter, Admit, Enough
<1>6. ASSUME NEW w \in Workers, Reap(w) PROVE WithinLimits'
  <2>1. Cardinality(threads') <= Cardinality(threads) /\ Cardinality(threads') \in Nat
    BY <1>6, FS_Subset, FS_CardinalityType DEF Reap
  <2> QED
    BY <2>1
<1>7. ASSUME NEW w \in Workers, Scan(w) PROVE WithinLimits'
  BY <1>7 DEF Scan, Take
<1>8. ASSUME NEW w \in Workers, Block(w) PROVE WithinLimits'
  BY <1>8 DEF Block
<1>9. ASSUME NEW w \in Workers, Resume(w) PROVE WithinLimits'
  BY <1>9 DEF Resume
<1>10. ASSUME NEW w \in Workers, Spawn(w) PROVE WithinLimits'
  <2>1. PICK n \in Workers \ threads : threads' = threads \cup {n}
    BY <1>10 DEF Spawn
  <2>2. Cardinality(threads') = Cardinality(threads) + 1
    BY <2>1, FS_AddElement
  <2>3. MaxThreads = 0 \/ MaxThreads > Cardinality(threads)
    BY <1>10 DEF Spawn, Living
  <2> QED
    BY <2>2, <2>3
<1>11. ASSUME NEW w \in Workers, CheckLocked(w) PROVE WithinLimits'
  BY <1>11 DEF CheckLocked, Result
<1>12. ASSUME NEW w \in Workers, Write(w) PROVE WithinLimits'
  BY <1>12 DEF Write, Put, Result
<1>13. ASSUME NEW w \in Workers, Receive(w) PROVE WithinLimits'
  BY <1>13 DEF Receive, Result
<1>14. ASSUME NEW w \in Workers, Deliver(w) PROVE WithinLimits'
  BY <1>14 DEF Deliver, Result
<1>15. ASSUME NEW w \in Workers, CheckSocketResult(w) PROVE WithinLimits'
  BY <1>15 DEF CheckSocketResult
<1>16. ASSUME NEW w \in Workers, SpuriousWakeup(w) PROVE WithinLimits'
  BY <1>16 DEF SpuriousWakeup
<1>17. ASSUME NEW s \in Sockets, QueueBuffer(s) PROVE WithinLimits'
  BY <1>17 DEF QueueBuffer, Announce, CanCall, Sleeping
<1>18. ASSUME NEW s \in Sockets, ReceiveData(s) PROVE WithinLimits'
  BY <1>18 DEF ReceiveData, Announce, CanCall, Sleeping
<1>19. ASSUME NEW s \in Sockets, CloseSocket(s) PROVE WithinLimits'
  BY <1>19 DEF CloseSocket, RemoveBuffers
<1>20. ASSUME NEW i \in DOMAIN received_data_queue, GetReceivedData(i) PROVE WithinLimits'
  BY <1>20 DEF GetReceivedData, CanCall
<1>21. CASE DetectError
  BY <1>21 DEF DetectError, CanCall, Errored, RemoveBuffers
<1>22. CASE Start
  BY <1>22 DEF Start
<1>23. CASE Disconnect
  BY <1>23 DEF Disconnect
<1>24. CASE Unmanage
  BY <1>24 DEF Unmanage
<1>25. CASE ResetErrors
  BY <1>25 DEF ResetErrors
<1>26. CASE NotifyAll
  BY <1>26 DEF NotifyAll, Sleeping
<1>27. CASE Join
  <2>1. Cardinality(threads') = 0
    BY <1>27, FS_EmptySet DEF Join
  <2> QED
    BY <2>1
<1> QED
  BY <1>4, <1>5, <1>6, <1>7, <1>8, <1>9, <1>10, <1>11, <1>12, <1>13, <1>14, <1>15, <1>16,
     <1>17, <1>18, <1>19, <1>20, <1>21, <1>22, <1>23, <1>24, <1>25, <1>26, <1>27
     DEF Next, Turn, Work, Call, Shutdown

\* A thread leaves the pool that is up only when others wait.
LEMMA NeverLostKeeps == IInv /\ [Next]_vars => NeverLost'
<1> SUFFICES ASSUME IInv, [Next]_vars PROVE NeverLost'
  OBVIOUS
<1>1. NeverLost /\ WaitersCounted /\ OneToClear
  BY DEF IInv, PoolBounded, WaitersCounted, WithinLimits, NeverLost, OneToClear
<1>2. Living
  BY DEF IInv
<1> USE PlacesOfThreads, <1>1, <1>2 DEF NeverLost
<1>3. CASE UNCHANGED vars
  BY <1>3
<1>4. ASSUME NEW w \in Workers, Enter(w) PROVE NeverLost'
  <2>1. CASE Enough
    <3>1. PICK x \in Waiters : TRUE
      BY <2>1, FS_EmptySet DEF Enough, WaitersCounted
    <3>2. x # w /\ pc[x] \notin {"absent", "exited"} /\ pc'[x] = pc[x]
      BY <1>4, <3>1 DEF Enter, Admit, Waiters, OneToClear
    <3> QED
      BY <3>1, <3>2 DEF Waiters
  <2>2. CASE ~Enough
    BY <1>4, <2>2 DEF Enter, Admit
  <2> QED
    BY <2>1, <2>2
<1>5. ASSUME NEW w \in Workers, Reap(w) PROVE NeverLost'
  <2>1. CASE Enough
    <3>1. PICK x \in Waiters : TRUE
      BY <2>1, FS_EmptySet DEF Enough, WaitersCounted
    <3>2. x # w /\ pc[x] \notin {"absent", "exited"} /\ pc'[x] = pc[x]
      BY <1>5, <3>1 DEF Reap, Admit, Waiters, OneToClear
    <3> QED
      BY <3>1, <3>2 DEF Waiters
  <2>2. CASE ~Enough
    BY <1>5, <2>2 DEF Reap, Admit
  <2> QED
    BY <2>1, <2>2
<1>6. ASSUME NEW w \in Workers, Scan(w) PROVE NeverLost'
  BY <1>6 DEF Scan, Take, Living
<1>7. ASSUME NEW w \in Workers, Block(w) PROVE NeverLost'
  BY <1>7 DEF Block
<1>8. ASSUME NEW w \in Workers, Resume(w) PROVE NeverLost'
  BY <1>8 DEF Resume
<1>9. ASSUME NEW w \in Workers, Spawn(w) PROVE NeverLost'
  BY <1>9 DEF Spawn
<1>10. ASSUME NEW w \in Workers, CheckLocked(w) PROVE NeverLost'
  BY <1>10 DEF CheckLocked, Result
<1>11. ASSUME NEW w \in Workers, Write(w) PROVE NeverLost'
  BY <1>11 DEF Write, Put, Result
<1>12. ASSUME NEW w \in Workers, Receive(w) PROVE NeverLost'
  BY <1>12 DEF Receive, Result
<1>13. ASSUME NEW w \in Workers, Deliver(w) PROVE NeverLost'
  BY <1>13 DEF Deliver, Result
<1>14. ASSUME NEW w \in Workers, CheckSocketResult(w) PROVE NeverLost'
  BY <1>14 DEF CheckSocketResult
<1>15. ASSUME NEW w \in Workers, SpuriousWakeup(w) PROVE NeverLost'
  BY <1>15 DEF SpuriousWakeup
<1>16. ASSUME NEW s \in Sockets, QueueBuffer(s) PROVE NeverLost'
  BY <1>16 DEF QueueBuffer, Announce, CanCall, Sleeping
<1>17. ASSUME NEW s \in Sockets, ReceiveData(s) PROVE NeverLost'
  BY <1>17 DEF ReceiveData, Announce, CanCall, Sleeping
<1>18. ASSUME NEW s \in Sockets, CloseSocket(s) PROVE NeverLost'
  BY <1>18 DEF CloseSocket, RemoveBuffers
<1>19. ASSUME NEW i \in DOMAIN received_data_queue, GetReceivedData(i) PROVE NeverLost'
  BY <1>19 DEF GetReceivedData, CanCall
<1>20. CASE DetectError
  BY <1>20 DEF DetectError, CanCall, Errored, RemoveBuffers
<1>21. CASE Start
  <2>1. PICK P \in SUBSET Workers : Cardinality(P) = MinThreads
                /\ pc' = [x \in Workers |-> IF x \in P THEN "enter" ELSE "absent"]
    BY <1>21 DEF Start
  <2>2. MinThreads > 0 => P # {}
    BY <2>1, FS_EmptySet
  <2> QED
    BY <2>1, <2>2
<1>22. CASE Disconnect
  BY <1>22 DEF Disconnect
<1>23. CASE Unmanage
  BY <1>23 DEF Unmanage
<1>24. CASE ResetErrors
  BY <1>24 DEF ResetErrors
<1>25. CASE NotifyAll
  BY <1>25 DEF NotifyAll, Sleeping
<1>26. CASE Join
  BY <1>26 DEF Join
<1> QED
  BY <1>3, <1>4, <1>5, <1>6, <1>7, <1>8, <1>9, <1>10, <1>11, <1>12, <1>13, <1>14, <1>15,
     <1>16, <1>17, <1>18, <1>19, <1>20, <1>21, <1>22, <1>23, <1>24, <1>25, <1>26
     DEF Next, Turn, Work, Call, Shutdown

\* A thread joins the one that left before it leaves itself.
LEMMA OneToClearKeeps == IInv /\ [Next]_vars => OneToClear'
<1> SUFFICES ASSUME IInv, [Next]_vars PROVE OneToClear'
  OBVIOUS
<1>1. OneToClear
  BY DEF IInv, PoolBounded, WaitersCounted, WithinLimits, NeverLost, OneToClear
<1>2. Living
  BY DEF IInv
<1>3. \A w \in Workers : Cardinality({w}) = 1
  BY FS_Singleton
<1> USE PlacesOfThreads, <1>1, <1>2, <1>3 DEF OneToClear
<1>4. CASE UNCHANGED vars
  BY <1>4
<1>5. ASSUME NEW w \in Workers, Enter(w) PROVE OneToClear'
  BY <1>5 DEF Enter, Admit, Enough
<1>6. ASSUME NEW w \in Workers, Reap(w) PROVE OneToClear'
  <2>1. CASE Enough
    <3>1. to_clear' = {w} /\ pc'[w] = "exited" /\ \A x \in Workers \ {w} : pc'[x] # "exited"
      BY <1>6, <2>1 DEF Reap, Admit
    <3> QED
      BY <3>1
  <2>2. CASE ~Enough
    <3>1. to_clear' = {} /\ \A x \in Workers : pc'[x] # "exited"
      BY <1>6, <2>2 DEF Reap, Admit
    <3> QED
      BY <3>1, FS_EmptySet
  <2> QED
    BY <2>1, <2>2
<1>7. ASSUME NEW w \in Workers, Scan(w) PROVE OneToClear'
  <2>1. CASE to_clear' = to_clear /\ managed' = managed
                /\ \A x \in Workers : pc'[x] = "exited" <=> pc[x] = "exited"
    BY <2>1
  <2>2. CASE ~managed' /\ to_clear' = to_clear \cup {w} /\ pc' = [pc EXCEPT ![w] = "exited"]
    BY <2>2
  <2> QED
    BY <1>7, <2>1, <2>2 DEF Scan, Take
<1>8. ASSUME NEW w \in Workers, Block(w) PROVE OneToClear'
  BY <1>8 DEF Block
<1>9. ASSUME NEW w \in Workers, Resume(w) PROVE OneToClear'
  BY <1>9 DEF Resume
<1>10. ASSUME NEW w \in Workers, Spawn(w) PROVE OneToClear'
  BY <1>10 DEF Spawn
<1>11. ASSUME NEW w \in Workers, CheckLocked(w) PROVE OneToClear'
  BY <1>11 DEF CheckLocked, Result
<1>12. ASSUME NEW w \in Workers, Write(w) PROVE OneToClear'
  BY <1>12 DEF Write, Put, Result
<1>13. ASSUME NEW w \in Workers, Receive(w) PROVE OneToClear'
  BY <1>13 DEF Receive, Result
<1>14. ASSUME NEW w \in Workers, Deliver(w) PROVE OneToClear'
  BY <1>14 DEF Deliver, Result
<1>15. ASSUME NEW w \in Workers, CheckSocketResult(w) PROVE OneToClear'
  BY <1>15 DEF CheckSocketResult
<1>16. ASSUME NEW w \in Workers, SpuriousWakeup(w) PROVE OneToClear'
  BY <1>16 DEF SpuriousWakeup
<1>17. ASSUME NEW s \in Sockets, QueueBuffer(s) PROVE OneToClear'
  BY <1>17 DEF QueueBuffer, Announce, CanCall, Sleeping
<1>18. ASSUME NEW s \in Sockets, ReceiveData(s) PROVE OneToClear'
  BY <1>18 DEF ReceiveData, Announce, CanCall, Sleeping
<1>19. ASSUME NEW s \in Sockets, CloseSocket(s) PROVE OneToClear'
  BY <1>19 DEF CloseSocket, RemoveBuffers
<1>20. ASSUME NEW i \in DOMAIN received_data_queue, GetReceivedData(i) PROVE OneToClear'
  BY <1>20 DEF GetReceivedData, CanCall
<1>21. CASE DetectError
  BY <1>21 DEF DetectError, CanCall, Errored, RemoveBuffers
<1>22. CASE Start
  BY <1>22, FS_EmptySet DEF Start
<1>23. CASE Disconnect
  BY <1>23 DEF Disconnect
<1>24. CASE Unmanage
  BY <1>24 DEF Unmanage, Living
<1>25. CASE ResetErrors
  BY <1>25 DEF ResetErrors
<1>26. CASE NotifyAll
  BY <1>26 DEF NotifyAll, Sleeping
<1>27. CASE Join
  BY <1>27, FS_EmptySet DEF Join
<1> QED
  BY <1>4, <1>5, <1>6, <1>7, <1>8, <1>9, <1>10, <1>11, <1>12, <1>13, <1>14, <1>15, <1>16,
     <1>17, <1>18, <1>19, <1>20, <1>21, <1>22, <1>23, <1>24, <1>25, <1>26, <1>27
     DEF Next, Turn, Work, Call, Shutdown

-----------------------------------------------------------------------------
(* The types. *)

\* TypeOK but for the counts and the threads to join, in two parts.
ControlTyped ==
  /\ main \in {"down", "up", "closing", "unmanaged", "notify", "join"}
  /\ managed \in BOOLEAN
  /\ mutex \in Workers \cup {NULL}
  /\ pc \in [Workers -> Places]
  /\ threads \subseteq Workers
  /\ sockets_locked \in [Sockets -> {"none", "ready", "locked", "errored", "interrupt"}]
  /\ socket_errors \in Nat
  /\ sock \in [Workers -> Sockets \cup {NULL}]
  /\ sent_buf \in [Workers -> 0 .. MaxQueued]
  /\ upto \in [Workers -> BOOLEAN]
  /\ result \in [Workers -> {"ready", "errored"}]
  /\ waiting_sockets \subseteq Sockets /\ bad_sockets \subseteq Sockets
  /\ queued \in [Sockets -> 0 .. MaxQueued]
QueuesTyped ==
  /\ outgoing_bufs \in Seq(Buffers)
  /\ pending_receives \in Seq(Sockets) /\ received_data_queue \in Seq(Sockets)
  /\ wire \in [Sockets -> Seq(Pieces)]

\* The two parts follow from TypeOK.
LEMMA TypesAreParts ==
  ASSUME IInv
  PROVE  ControlTyped /\ QueuesTyped
  BY DEF IInv, TypeOK, ControlTyped, QueuesTyped

\* The states of the threads, of the sockets and of the main thread.
LEMMA ControlTypedKeeps == IInv /\ [Next]_vars => ControlTyped'
<1> SUFFICES ASSUME IInv, [Next]_vars PROVE ControlTyped'
  OBVIOUS
<1>1. ControlTyped
  BY TypesAreParts
<1> USE PlacesOfThreads, <1>1 DEF ControlTyped, Places, Seeking, Working
<1>2. CASE UNCHANGED vars
  BY <1>2
<1>3. ASSUME NEW w \in Workers, Enter(w) PROVE ControlTyped'
  BY <1>3 DEF Enter, Admit, Enough
<1>4. ASSUME NEW w \in Workers, Reap(w) PROVE ControlTyped'
  BY <1>4 DEF Reap, Admit, Enough
<1>5. ASSUME NEW w \in Workers, Scan(w) PROVE ControlTyped'
  <2>1. ASSUME NEW s \in Sockets, NEW id \in Messages \cup {0}, Take(w, s, id)
        PROVE  /\ sockets_locked' \in [Sockets -> {"none", "ready", "locked", "errored", "interrupt"}]
               /\ sock' \in [Workers -> Sockets \cup {NULL}]
                     /\ sent_buf' \in [Workers -> 0 .. MaxQueued]
               /\ pc' \in [Workers -> Places] /\ mutex' \in Workers \cup {NULL}
    BY <2>1 DEF Take, Messages
  <2>2. /\ sockets_locked' \in [Sockets -> {"none", "ready", "locked", "errored", "interrupt"}]
        /\ sock' \in [Workers -> Sockets \cup {NULL}]
              /\ sent_buf' \in [Workers -> 0 .. MaxQueued]
        /\ pc' \in [Workers -> Places] /\ mutex' \in Workers \cup {NULL}
    BY <1>5, <2>1, FoundIsReady DEF Scan
  <2> QED
    BY <1>5, <2>2 DEF Scan
<1>6. ASSUME NEW w \in Workers, Block(w) PROVE ControlTyped'
  BY <1>6 DEF Block
<1>7. ASSUME NEW w \in Workers, Resume(w) PROVE ControlTyped'
  BY <1>7 DEF Resume
<1>8. ASSUME NEW w \in Workers, Spawn(w) PROVE ControlTyped'
  BY <1>8 DEF Spawn
<1>9. ASSUME NEW w \in Workers, CheckLocked(w) PROVE ControlTyped'
  BY <1>9 DEF CheckLocked, Result
<1>10. ASSUME NEW w \in Workers, Write(w) PROVE ControlTyped'
  BY <1>10 DEF Write, Put, Result
<1>11. ASSUME NEW w \in Workers, Receive(w) PROVE ControlTyped'
  BY <1>11 DEF Receive, Result
<1>12. ASSUME NEW w \in Workers, Deliver(w) PROVE ControlTyped'
  BY <1>12 DEF Deliver, Result
<1>13. ASSUME NEW w \in Workers, CheckSocketResult(w) PROVE ControlTyped'
  <2>1. sock[w] \in Sockets /\ result[w] \in {"ready", "errored"}
    BY <1>13, ResultReleases
  <2>2. sockets_locked' \in [Sockets -> {"none", "ready", "locked", "errored", "interrupt"}]
    BY <1>13, <2>1 DEF CheckSocketResult
  <2>3. socket_errors' \in Nat
    BY <1>13 DEF CheckSocketResult
  <2>4. /\ sock' \in [Workers -> Sockets \cup {NULL}]
              /\ sent_buf' \in [Workers -> 0 .. MaxQueued]
        /\ upto' \in [Workers -> BOOLEAN] /\ result' \in [Workers -> {"ready", "errored"}]
    BY <1>13 DEF CheckSocketResult
  <2>5. pc' \in [Workers -> Places]
    BY <1>13 DEF CheckSocketResult
  <2> QED
    BY <1>13, <2>2, <2>3, <2>4, <2>5 DEF CheckSocketResult
<1>14. ASSUME NEW w \in Workers, SpuriousWakeup(w) PROVE ControlTyped'
  BY <1>14 DEF SpuriousWakeup
<1>15. ASSUME NEW s \in Sockets, QueueBuffer(s) PROVE ControlTyped'
  <2>1. queued' \in [Sockets -> 0 .. MaxQueued]
    <3>1. queued[s] \in 0 .. MaxQueued /\ queued[s] < MaxQueued
      BY <1>15 DEF QueueBuffer
    <3>2. queued[s] + 1 \in 0 .. MaxQueued
      BY <3>1
    <3> QED
      BY <1>15, <3>2 DEF QueueBuffer
  <2>2. pc' \in [Workers -> Places]
           /\ sockets_locked' \in [Sockets -> {"none", "ready", "locked", "errored", "interrupt"}]
    BY <1>15 DEF QueueBuffer, Announce, Sleeping
  <2> QED
    BY <1>15, <2>1, <2>2 DEF QueueBuffer
<1>16. ASSUME NEW s \in Sockets, ReceiveData(s) PROVE ControlTyped'
  BY <1>16 DEF ReceiveData, Announce, CanCall, Sleeping
<1>17. ASSUME NEW s \in Sockets, CloseSocket(s) PROVE ControlTyped'
  <2>1. queued' \in [Sockets -> 0 .. MaxQueued]
    <3>1. 0 \in 0 .. MaxQueued
      OBVIOUS
    <3> QED
      BY <1>17, <3>1 DEF CloseSocket
  <2>2. sockets_locked' \in [Sockets -> {"none", "ready", "locked", "errored", "interrupt"}]
    BY <1>17 DEF CloseSocket
  <2>3. waiting_sockets' \subseteq Sockets /\ bad_sockets' \subseteq Sockets
    BY <1>17 DEF CloseSocket
  <2> QED
    BY <1>17, <2>1, <2>2, <2>3 DEF CloseSocket
<1>18. ASSUME NEW i \in DOMAIN received_data_queue, GetReceivedData(i) PROVE ControlTyped'
  BY <1>18, TypesAreParts DEF GetReceivedData, CanCall, QueuesTyped
<1>19. CASE DetectError
  <2>1. socket_errors' \in Nat
    BY <1>19 DEF DetectError
  <2>2. sockets_locked' \in [Sockets -> {"none", "ready", "locked", "errored", "interrupt"}]
    BY <1>19 DEF DetectError
  <2>3. bad_sockets' \subseteq Sockets
    BY <1>19 DEF DetectError, Errored
  <2> QED
    BY <1>19, <2>1, <2>2, <2>3 DEF DetectError
<1>20. CASE Start
  BY <1>20 DEF Start
<1>21. CASE Disconnect
  BY <1>21 DEF Disconnect
<1>22. CASE Unmanage
  BY <1>22 DEF Unmanage
<1>23. CASE ResetErrors
  BY <1>23 DEF ResetErrors
<1>24. CASE NotifyAll
  BY <1>24 DEF NotifyAll, Sleeping
<1>25. CASE Join
  BY <1>25 DEF Join
<1> QED
  BY <1>2, <1>3, <1>4, <1>5, <1>6, <1>7, <1>8, <1>9, <1>10, <1>11, <1>12, <1>13, <1>14,
     <1>15, <1>16, <1>17, <1>18, <1>19, <1>20, <1>21, <1>22, <1>23, <1>24, <1>25
     DEF Next, Turn, Work, Call, Shutdown

\* What is left of the queues is a queue.
LEMMA BuffersTyped ==
  ASSUME IInv, NEW s \in Sockets, RemoveBuffers(s)
  PROVE  outgoing_bufs' \in Seq(Buffers) /\ received_data_queue' \in Seq(Sockets)
<1>1. outgoing_bufs \in Seq(Buffers) /\ received_data_queue \in Seq(Sockets)
  BY DEF IInv, TypeOK
<1> QED
  BY <1>1, KeptIsPart, OthersAreOther DEF RemoveBuffers

\* The queues and what is on the wire.
LEMMA QueuesTypedKeeps == IInv /\ [Next]_vars => QueuesTyped'
<1> SUFFICES ASSUME IInv, [Next]_vars PROVE QueuesTyped'
  OBVIOUS
<1>1. QueuesTyped /\ ControlTyped
  BY TypesAreParts
<1> USE PlacesOfThreads, <1>1 DEF QueuesTyped
<1>2. CASE UNCHANGED vars
  BY <1>2
<1>3. ASSUME NEW w \in Workers, Enter(w) PROVE QueuesTyped'
  BY <1>3 DEF Enter, Admit, Enough
<1>4. ASSUME NEW w \in Workers, Reap(w) PROVE QueuesTyped'
  BY <1>4 DEF Reap, Admit, Enough
<1>5. ASSUME NEW w \in Workers, Scan(w) PROVE QueuesTyped'
  <2>1. outgoing_bufs' \in Seq(Buffers)
    BY <1>5, FoundIsReady, RemovedIsPart DEF Scan
  <2>2. pending_receives' \in Seq(Sockets)
    BY <1>5, FoundIsReady, RemovedIsPart DEF Scan
  <2> QED
    BY <1>5, <2>1, <2>2 DEF Scan
<1>6. ASSUME NEW w \in Workers, Block(w) PROVE QueuesTyped'
  BY <1>6 DEF Block
<1>7. ASSUME NEW w \in Workers, Resume(w) PROVE QueuesTyped'
  BY <1>7 DEF Resume
<1>8. ASSUME NEW w \in Workers, Spawn(w) PROVE QueuesTyped'
  BY <1>8 DEF Spawn
<1>9. ASSUME NEW w \in Workers, CheckLocked(w) PROVE QueuesTyped'
  BY <1>9 DEF CheckLocked, Result
<1>10. ASSUME NEW w \in Workers, Write(w) PROVE QueuesTyped'
  <2>1. sock[w] \in Sockets /\ sent_buf[w] \in 0..MaxQueued
    BY <1>10, WorkersHold DEF Write, ControlTyped, Working
  <2>2. ASSUME NEW part \in {"whole", "head", "tail"}, Put(w, part)
        PROVE wire' \in [Sockets -> Seq(Pieces)]
    <3>1. sent_buf[w] # 0
      BY <1>10 DEF Write, IInv, Employed
    <3>2. [id |-> sent_buf[w], part |-> part] \in Pieces
      BY <2>1, <3>1 DEF Pieces, Messages
    <3>3. wire[sock[w]] \in Seq(Pieces)
      BY <2>1
    <3>4. Append(wire[sock[w]], [id |-> sent_buf[w], part |-> part]) \in Seq(Pieces)
      BY <3>2, <3>3, AppendedIsMore
    <3> QED
      BY <2>2, <3>4 DEF Put
  <2> QED
    BY <1>10, <2>2 DEF Write
<1>11. ASSUME NEW w \in Workers, Receive(w) PROVE QueuesTyped'
  BY <1>11 DEF Receive, Result
<1>12. ASSUME NEW w \in Workers, Deliver(w) PROVE QueuesTyped'
  <2>1. sock[w] \in Sockets
    BY <1>12, WorkersHold DEF Deliver, Working
  <2> QED
    BY <1>12, <2>1, AppendedIsMore DEF Deliver
<1>13. ASSUME NEW w \in Workers, CheckSocketResult(w) PROVE QueuesTyped'
  BY <1>13 DEF CheckSocketResult
<1>14. ASSUME NEW w \in Workers, SpuriousWakeup(w) PROVE QueuesTyped'
  BY <1>14 DEF SpuriousWakeup
<1>15. ASSUME NEW s \in Sockets, QueueBuffer(s) PROVE QueuesTyped'
  <2>1. queued[s] \in 0..MaxQueued /\ queued[s] < MaxQueued
    BY <1>15 DEF QueueBuffer, ControlTyped
  <2>2. [sock |-> s, id |-> queued[s] + 1] \in Buffers
    BY <2>1 DEF Buffers, Messages
  <2> QED
    BY <1>15, <2>2, AppendedIsMore DEF QueueBuffer
<1>16. ASSUME NEW s \in Sockets, ReceiveData(s) PROVE QueuesTyped'
  BY <1>16 DEF ReceiveData, Announce, CanCall, Sleeping
<1>17. ASSUME NEW s \in Sockets, CloseSocket(s) PROVE QueuesTyped'
  <2>1. pending_receives' \in Seq(Sockets)
    BY <1>17, OthersAreOther DEF CloseSocket
  <2>2. CASE RemoveBuffers(s)
    <3>1. <<>> \in Seq(Pieces)
      OBVIOUS
    <3>2. wire' \in [Sockets -> Seq(Pieces)]
      BY <1>17, <3>1 DEF CloseSocket
    <3> QED
      BY <2>1, <2>2, <3>2, BuffersTyped
  <2>3. CASE UNCHANGED <<outgoing_bufs, received_data_queue, wire>>
    BY <2>1, <2>3
  <2> QED
    BY <1>17, <2>2, <2>3 DEF CloseSocket
<1>18. ASSUME NEW i \in DOMAIN received_data_queue, GetReceivedData(i) PROVE QueuesTyped'
  BY <1>18, RemovedIsPart DEF GetReceivedData, CanCall
<1>19. CASE DetectError
  <2>1. ASSUME NEW s \in Sockets, pending_receives' \in Others(pending_receives, s),
               RemoveBuffers(s)
        PROVE  QueuesTyped'
    BY <1>19, <2>1, OthersAreOther, BuffersTyped DEF DetectError
  <2>2. CASE UNCHANGED <<outgoing_bufs, received_data_queue, pending_receives>>
    BY <1>19, <2>2 DEF DetectError
  <2> QED
    BY <1>19, <2>1, <2>2 DEF DetectError, Errored
<1>20. CASE Start
  BY <1>20 DEF Start
<1>21. CASE Disconnect
  BY <1>21 DEF Disconnect
<1>22. CASE Unmanage
  BY <1>22 DEF Unmanage
<1>23. CASE ResetErrors
  BY <1>23 DEF ResetErrors
<1>24. CASE NotifyAll
  BY <1>24 DEF NotifyAll, Sleeping
<1>25. CASE Join
  BY <1>25 DEF Join
<1> QED
  BY <1>2, <1>3, <1>4, <1>5, <1>6, <1>7, <1>8, <1>9, <1>10, <1>11, <1>12, <1>13, <1>14,
     <1>15, <1>16, <1>17, <1>18, <1>19, <1>20, <1>21, <1>22, <1>23, <1>24, <1>25
     DEF Next, Turn, Work, Call, Shutdown

-----------------------------------------------------------------------------
(* The invariant is inductive. *)

\* The pool that was not created.
LEMMA InitHasIInv == Init => IInv
<1> SUFFICES ASSUME Init PROVE IInv
  OBVIOUS
<1>1. Waiters = {} /\ Errored = {} /\ Cardinality({}) = 0
  BY FS_EmptySet DEF Init, Waiters, Errored
<1>2. TypeOK
  <2>1. <<>> \in Seq(Buffers) /\ <<>> \in Seq(Sockets) /\ <<>> \in Seq(Pieces)
           /\ 0 \in 0 .. MaxQueued
    OBVIOUS
  <2> QED
    BY <2>1 DEF Init, TypeOK, Places
<1>3. Mutexed /\ Employed /\ Living
  BY DEF Init, Mutexed, Employed, Working, Living
<1>4. HeldByOne /\ BuffersKnown
  BY DEF Init, HeldByOne, BuffersKnown
<1>5. PoolBounded
  BY <1>1, WorkersAssumption DEF Init, PoolBounded
<1> QED
  BY <1>2, <1>3, <1>4, <1>5 DEF IInv

\* Every step keeps all parts.
LEMMA NextKeepsIInv == IInv /\ [Next]_vars => IInv'
<1> SUFFICES ASSUME IInv, [Next]_vars PROVE IInv'
  OBVIOUS
<1>1. Mutexed' /\ Employed' /\ HeldByOne' /\ Living'
  BY MutexedKeeps, EmployedKeeps, HeldByOneKeeps, LivingKeeps
<1>2. BuffersKnown'
  BY QueuesKnownKeeps, ErrorsCountedKeeps DEF BuffersKnown, QueuesKnown, ErrorsCounted
<1>3. PoolBounded'
  BY WaitersCountedKeeps, WithinLimitsKeeps, NeverLostKeeps, OneToClearKeeps
     DEF PoolBounded, WaitersCounted, WithinLimits, NeverLost, OneToClear
<1>4. waiting_threads' \in Nat
  <2>1. IsFiniteSet(Waiters')
    BY FS_Subset DEF Waiters
  <2> QED
    BY <1>3, <2>1, FS_CardinalityType DEF PoolBounded
<1>5. to_clear' \subseteq threads'
  BY <1>1, <1>3 DEF Living, PoolBounded
<1>6. TypeOK'
  BY <1>4, <1>5, ControlTypedKeeps, QueuesTypedKeeps DEF TypeOK, ControlTyped, QueuesTyped
<1> QED
  BY <1>1, <1>2, <1>3, <1>6 DEF IInv

\* IInv holds in every state.
LEMMA AlwaysIInv == Spec => []IInv
  BY InitHasIInv, NextKeepsIInv, PTL DEF Spec

-----------------------------------------------------------------------------
(* What makes the pool correct, for every number of threads and sockets. *)

\* Every variable keeps its type, and only threads that exist are to be joined.
THEOREM TypeCorrect == Spec => []TypeOK
<1>1. IInv => TypeOK
  BY DEF IInv
<1> QED
  BY <1>1, AlwaysIInv, PTL

\* Two threads never work on one connection, and a socket is locked exactly while a
\* thread works on it: process_queue, check_socket_result and close_socket keep this
\* between them, whatever the limits of the pool are.
THEOREM SocketHeldByOne == Spec => []HeldByOne
<1>1. IInv => HeldByOne
  BY DEF IInv
<1> QED
  BY <1>1, AlwaysIInv, PTL

\* Whatever is queued, asked for or received belongs to a socket the pool knows, so
\* that nothing reaches a later connection with the same pointer, and the errors that
\* detect_error has to look for are counted.
THEOREM NothingLeftBehind == Spec => []BuffersKnown
<1>1. IInv => BuffersKnown
  BY DEF IInv
<1> QED
  BY <1>1, AlwaysIInv, PTL

\* The count of waiting threads is right, the pool keeps its limits and never loses
\* its last thread, and at most one thread waits to be joined while it is up.
THEOREM PoolKeepsLimits == Spec => []PoolBounded
<1>1. IInv => PoolBounded
  BY DEF IInv
<1> QED
  BY <1>1, AlwaysIInv, PTL

\* The destructor walks through the map of threads without the mutex, and no thread
\* changes it meanwhile: none can have a job when all sockets are closed, nor join
\* another once managed is FALSE and the mutex was free.
THEOREM DestructorOwnsThreads == Spec => JoinOwnsThreads
<1>1. IInv /\ [Next]_vars => [threads' # threads => main \notin {"notify", "join"}
         \/ main' = "down"]_vars
  <2> SUFFICES ASSUME IInv, Next, main \in {"notify", "join"}, main' # "down"
               PROVE  threads' = threads
    BY DEF Next
  <2>1. \A w \in Workers : pc[w] \notin {"reaping", "spawning"}
    BY WorkersHold DEF IInv, Living
  <2>2. ASSUME NEW w \in Workers, Turn(w) \/ Work(w) \/ SpuriousWakeup(w)
        PROVE threads' = threads
    BY <2>1, <2>2 DEF Turn, Enter, Reap, Scan, Block, Resume, Spawn,
         Work, CheckLocked, Write, Receive, Deliver, CheckSocketResult, SpuriousWakeup
  <2>3. CASE Call
    BY <2>3 DEF Call, QueueBuffer, ReceiveData, CloseSocket, GetReceivedData, DetectError
  <2>4. CASE Start \/ Disconnect \/ Shutdown
    BY <2>4 DEF Start, Disconnect, Shutdown, Unmanage, ResetErrors, NotifyAll, Join
  <2> QED
    BY <2>2, <2>3, <2>4 DEF Next
<1> QED
  BY <1>1, AlwaysIInv, PTL DEF Spec, JoinOwnsThreads

-----------------------------------------------------------------------------
(***************************************************************************)
(* What happens to the messages of network_worker_pool: a connection has    *)
(* one receive at a time, what is written to it is a prefix of what was     *)
(* queued, and what waits has a thread that will look for it.  Each result  *)
(* adds what it needs to IInv: the receives of a socket, counted; the order *)
(* of the queue, and how the wire, the message of a thread and what waits   *)
(* follow one another; that a thread about to wait has seen that there is   *)
(* no work.                                                                 *)
(***************************************************************************)

\* How often s is in q.
Spots(q, s) == {i \in DOMAIN q : q[i] = s}
Count(q, s) == Cardinality(Spots(q, s))

-----------------------------------------------------------------------------
(* Counting the elements of a queue. *)

\* Counts are numbers.
LEMMA CountType ==
  ASSUME NEW S, NEW q \in Seq(S), NEW s
  PROVE  IsFiniteSet(Spots(q, s)) /\ Count(q, s) \in Nat
<1>1. IsFiniteSet(DOMAIN q)
  <2>1. DOMAIN q = 1..Len(q) /\ Len(q) \in Nat
    OBVIOUS
  <2> QED
    BY <2>1, FS_Interval
<1>2. Spots(q, s) \subseteq DOMAIN q
  BY DEF Spots
<1> QED
  BY <1>1, <1>2, FS_Subset, FS_CardinalityType DEF Count

\* What is appended counts once.
LEMMA CountAppended ==
  ASSUME NEW S, NEW q \in Seq(S), NEW a \in S, NEW s
  PROVE  Count(Append(q, a), s) <= IF a = s THEN Count(q, s) + 1 ELSE Count(q, s)
<1>1. IsFiniteSet(Spots(q, s)) /\ Count(q, s) \in Nat
  BY CountType
<1>2. Append(q, a) \in Seq(S) /\ Count(Append(q, a), s) \in Nat
  <2>1. Append(q, a) \in Seq(S)
    OBVIOUS
  <2> QED
    BY <2>1, CountType
<1>3. CASE a = s
  <2>1. Spots(Append(q, a), s) \subseteq Spots(q, s) \cup {Len(q) + 1}
    BY DEF Spots
  <2>2. /\ IsFiniteSet(Spots(q, s) \cup {Len(q) + 1})
        /\ Cardinality(Spots(q, s) \cup {Len(q) + 1}) <= Count(q, s) + 1
    <3> DEFINE T == Spots(q, s)
    <3>1. IsFiniteSet(T) /\ Cardinality(T) \in Nat
      BY <1>1 DEF Count
    <3> HIDE DEF T
    <3>2. /\ IsFiniteSet(T \cup {Len(q) + 1})
          /\ Cardinality(T \cup {Len(q) + 1}) =
               IF Len(q) + 1 \in T THEN Cardinality(T) ELSE Cardinality(T) + 1
      BY <3>1, FS_AddElement, Zenon
    <3>3. Cardinality(T \cup {Len(q) + 1}) <= Cardinality(T) + 1
      BY <3>1, <3>2
    <3> QED
      BY <3>2, <3>3 DEF T, Count
  <2>3. Count(Append(q, a), s) <= Cardinality(Spots(q, s) \cup {Len(q) + 1})
    BY <2>1, <2>2, FS_Subset DEF Count
  <2>4. Cardinality(Spots(q, s) \cup {Len(q) + 1}) \in Nat
    BY <2>2, FS_CardinalityType
  <2> QED
    BY <1>1, <1>2, <1>3, <2>2, <2>3, <2>4
<1>4. CASE a # s
  <2>1. Spots(Append(q, a), s) \subseteq Spots(q, s)
    BY <1>4 DEF Spots
  <2> QED
    BY <1>1, <1>4, <2>1, FS_Subset DEF Count
<1> QED
  BY <1>3, <1>4

\* What is removed counts no more.
LEMMA CountRemoved ==
  ASSUME NEW S, NEW q \in Seq(S), NEW i \in DOMAIN q, NEW s
  PROVE  Count(RemoveAt(q, i), s) <= IF q[i] = s THEN Count(q, s) - 1 ELSE Count(q, s)
<1> DEFINE r == RemoveAt(q, i)
           f == [k \in Spots(r, s) |-> IF k < i THEN k ELSE k + 1]
<1>1. /\ r \in Seq(S) /\ Len(r) = Len(q) - 1 /\ Len(q) \in Nat /\ i \in 1..Len(q)
      /\ \A k \in 1..(Len(q) - 1) : r[k] = IF k < i THEN q[k] ELSE q[k + 1]
  <2>1. Len(q) \in Nat /\ i \in 1..Len(q)
    OBVIOUS
  <2> QED
    BY <2>1, RemovedPointwise
<1>2. Spots(r, s) \subseteq 1..(Len(q) - 1)
  BY <1>1 DEF Spots
<1>3. \A k \in Spots(r, s) : f[k] \in Spots(q, s) \ {i}
  <2> SUFFICES ASSUME NEW k \in Spots(r, s) PROVE f[k] \in Spots(q, s) \ {i}
    OBVIOUS
  <2>1. k \in 1..(Len(q) - 1) /\ r[k] = s
    BY <1>2 DEF Spots
  <2>2. f[k] = IF k < i THEN k ELSE k + 1
    OBVIOUS
  <2> HIDE DEF f, r
  <2>4. r[k] = IF k < i THEN q[k] ELSE q[k + 1]
    BY <1>1, <2>1
  <2>5. Len(q) \in Nat /\ i \in 1..Len(q)
    BY <1>1
  <2>3. f[k] \in 1..Len(q) /\ f[k] # i /\ q[f[k]] = s
    BY <2>1, <2>2, <2>4, <2>5
  <2> QED
    BY <2>3 DEF Spots
<1>4. f \in Injection(Spots(r, s), Spots(q, s) \ {i})
  <2>1. f \in [Spots(r, s) -> Spots(q, s) \ {i}]
    BY <1>3
  <2>2. \A k, j \in Spots(r, s) : f[k] = f[j] => k = j
    BY <1>1, <1>2
  <2> QED
    BY <2>1, <2>2 DEF Injection, IsInjective
<1> HIDE DEF f, r
<1>5. IsFiniteSet(Spots(q, s)) /\ Count(q, s) \in Nat /\ Count(r, s) \in Nat
  BY <1>1, CountType
<1>6. IsFiniteSet(Spots(q, s) \ {i}) /\ Count(r, s) <= Cardinality(Spots(q, s) \ {i})
  BY <1>4, <1>5, FS_RemoveElement, FS_Injection DEF Count
<1>7. Cardinality(Spots(q, s) \ {i}) = IF q[i] = s THEN Count(q, s) - 1 ELSE Count(q, s)
  <2>1. i \in Spots(q, s) <=> q[i] = s
    BY DEF Spots
  <2> QED
    BY <1>5, <2>1, FS_RemoveElement DEF Count
<1> QED
  BY <1>6, <1>7 DEF r

\* What is kept counts no more than before, and of s nothing is kept.
LEMMA CountOthers ==
  ASSUME NEW S, NEW q \in Seq(S), NEW s, NEW r \in Others(q, s), NEW t
  PROVE  /\ r \in Seq(S) /\ Count(r, t) <= Count(q, t)
         /\ Count(r, s) = 0
<1> DEFINE keep == {i \in DOMAIN q : q[i] # s}
           n    == Cardinality(keep)
<1>1. r \in Seq(S) /\ \A k \in DOMAIN r : r[k] # s
  BY OthersAreOther
<1>2. n \in Nat
  <2>1. IsFiniteSet(DOMAIN q) /\ keep \subseteq DOMAIN q
    BY FS_Interval
  <2> QED
    BY <2>1, FS_Subset, FS_CardinalityType
<1>3. PICK f \in [1..n -> keep] : /\ \A j, k \in DOMAIN f : j < k => f[j] < f[k]
                                  /\ r = [k \in DOMAIN f |-> q[f[k]]]
  BY DEF Others, Kept
<1>4. DOMAIN f = 1..n /\ keep \subseteq DOMAIN q /\ keep \subseteq Nat
  BY <1>3
<1> HIDE DEF keep, n
<1>5. \A j, k \in 1..n : f[j] = f[k] => j = k
  <2> SUFFICES ASSUME NEW j \in 1..n, NEW k \in 1..n, f[j] = f[k] PROVE j = k
    OBVIOUS
  <2>1. f[j] \in Nat /\ f[k] \in Nat /\ j \in Nat /\ k \in Nat
    BY <1>2, <1>4
  <2>2. ~(j < k) /\ ~(k < j)
    BY <1>3, <1>4, <2>1
  <2> QED
    BY <2>1, <2>2
<1>6. Spots(r, t) \subseteq 1..n /\ \A k \in Spots(r, t) : f[k] \in Spots(q, t)
  BY <1>3, <1>4 DEF Spots
<1> DEFINE g == [k \in Spots(r, t) |-> f[k]]
<1>7. g \in Injection(Spots(r, t), Spots(q, t))
  <2>1. g \in [Spots(r, t) -> Spots(q, t)]
    BY <1>6
  <2>2. \A j, k \in Spots(r, t) : g[j] = g[k] => j = k
    BY <1>5, <1>6
  <2> QED
    BY <2>1, <2>2 DEF Injection, IsInjective
<1> HIDE DEF g
<1>8. Count(r, t) <= Count(q, t)
  BY <1>7, CountType, FS_Injection DEF Count
<1>9. Count(r, s) = 0
  <2>1. Spots(r, s) = {}
    BY <1>1 DEF Spots
  <2> QED
    BY <2>1, FS_EmptySet DEF Count
<1> QED
  BY <1>1, <1>8, <1>9

-----------------------------------------------------------------------------
(* One receive at a time. *)

\* ReceivedOnce, for one socket.
Once(t) ==
  (IF t \in waiting_sockets THEN 1 ELSE 0) + Count(pending_receives, t)
    + Cardinality(Receivers(t)) + Count(received_data_queue, t) <= 1

\* What is counted is finite.
LEMMA CountsOfSocket ==
  ASSUME IInv, NEW t
  PROVE  /\ IsFiniteSet(Receivers(t)) /\ Cardinality(Receivers(t)) \in Nat
         /\ Count(pending_receives, t) \in Nat /\ Count(received_data_queue, t) \in Nat
<1>1. IsFiniteSet(Receivers(t))
  BY FS_Subset DEF Receivers
<1>2. pending_receives \in Seq(Sockets) /\ received_data_queue \in Seq(Sockets)
  BY DEF IInv, TypeOK
<1> QED
  BY <1>1, <1>2, CountType, FS_CardinalityType

\* A step after which nothing counts more.
LEMMA NothingMore ==
  ASSUME IInv, IInv', NEW t, Once(t),
         t \in waiting_sockets' => t \in waiting_sockets,
         Count(pending_receives', t) <= Count(pending_receives, t),
         Receivers(t)' \subseteq Receivers(t),
         Count(received_data_queue', t) <= Count(received_data_queue, t)
  PROVE  Once(t)'
<1>1. Cardinality(Receivers(t)') <= Cardinality(Receivers(t)) /\ Cardinality(Receivers(t)') \in Nat
  BY CountsOfSocket, FS_Subset, FS_CardinalityType
<1>2. Count(pending_receives', t) \in Nat /\ Count(received_data_queue', t) \in Nat
  <2>1. pending_receives' \in Seq(Sockets) /\ received_data_queue' \in Seq(Sockets)
    BY DEF IInv, TypeOK
  <2> QED
    BY <2>1, CountType
<1> QED
  BY <1>1, <1>2, CountsOfSocket DEF Once

\* One element more.
LEMMA OneMore ==
  ASSUME NEW S, IsFiniteSet(S), NEW x
  PROVE  IsFiniteSet(S \cup {x}) /\ Cardinality(S \cup {x}) <= Cardinality(S) + 1
<1>1. Cardinality(S) \in Nat
  BY FS_CardinalityType
<1>2. /\ IsFiniteSet(S \cup {x})
      /\ Cardinality(S \cup {x}) = IF x \in S THEN Cardinality(S) ELSE Cardinality(S) + 1
  BY FS_AddElement, Zenon
<1> QED
  BY <1>1, <1>2

\* A receive moves on or ends, in every step.
LEMMA OnceKeeps ==
  ASSUME IInv, [Next]_vars, NEW t \in Sockets, Once(t)
  PROVE  Once(t)'
<1>1. IInv'
  BY NextKeepsIInv
<1>2. /\ pending_receives \in Seq(Sockets) /\ received_data_queue \in Seq(Sockets)
      /\ pending_receives' \in Seq(Sockets) /\ received_data_queue' \in Seq(Sockets)
      /\ sent_buf \in [Workers -> 0 .. MaxQueued]
  BY <1>1 DEF IInv, TypeOK
<1>3. /\ IsFiniteSet(Receivers(t)) /\ Cardinality(Receivers(t)) \in Nat
      /\ Count(pending_receives, t) \in Nat /\ Count(received_data_queue, t) \in Nat
  BY CountsOfSocket
<1>4. Count(pending_receives', t) \in Nat /\ Count(received_data_queue', t) \in Nat
  BY <1>2, CountType
<1>5. \A w \in Workers : /\ sock[w] # NULL <=> pc[w] \in Working \cup {"spawning"}
                         /\ pc[w] \in {"sending", "writing"} => sent_buf[w] # 0
                         /\ pc[w] \in {"receiving", "deliver"} => sent_buf[w] = 0
  BY DEF IInv, Employed
<1>6. CASE UNCHANGED vars
  <2>1. UNCHANGED <<waiting_sockets, pending_receives, received_data_queue>>
    BY <1>6
  <2>2. Receivers(t)' \subseteq Receivers(t)
    BY <1>6, <1>5, PlacesOfThreads DEF Receivers
  <2> QED
    BY <1>1, <1>3, <2>1, <2>2, NothingMore
<1>7. ASSUME NEW w \in Workers, Enter(w) PROVE Once(t)'
  <2>1. UNCHANGED <<waiting_sockets, pending_receives, received_data_queue>>
    BY <1>7 DEF Enter, Admit, Enough
  <2>2. Receivers(t)' \subseteq Receivers(t)
    BY <1>7, <1>5, PlacesOfThreads DEF Enter, Admit, Enough, Receivers
  <2> QED
    BY <1>1, <1>3, <2>1, <2>2, NothingMore
<1>8. ASSUME NEW w \in Workers, Reap(w) PROVE Once(t)'
  <2>1. UNCHANGED <<waiting_sockets, pending_receives, received_data_queue>>
    BY <1>8 DEF Reap, Admit, Enough
  <2>2. Receivers(t)' \subseteq Receivers(t)
    BY <1>8, <1>5, PlacesOfThreads DEF Reap, Admit, Enough, Receivers
  <2> QED
    BY <1>1, <1>3, <2>1, <2>2, NothingMore
<1>9. ASSUME NEW w \in Workers, Scan(w) PROVE Once(t)'
  <2>1. waiting_sockets' = waiting_sockets /\ received_data_queue' = received_data_queue
    BY <1>9 DEF Scan
  <2>2. CASE Sendable # {}
    <3>1. pending_receives' = pending_receives
      BY <1>9, <2>2 DEF Scan
    <3>2. Receivers(t)' \subseteq Receivers(t)
      BY <1>9, <1>2, <1>5, <2>2, FoundIsReady, PlacesOfThreads
         DEF Scan, Take, Receivers, Messages, Working
    <3> QED
      BY <1>1, <1>3, <2>1, <3>1, <3>2, NothingMore
  <2>3. CASE Sendable = {} /\ Receivable # {}
    <3> DEFINE i == First(Receivable)
    <3>1. i \in DOMAIN pending_receives /\ pending_receives' = RemoveAt(pending_receives, i)
      BY <1>9, <2>3, FoundIsReady DEF Scan
    <3>2. Take(w, pending_receives[i], 0)
      BY <1>9, <2>3 DEF Scan
    <3> HIDE DEF i
    <3>3. Count(pending_receives', t) <= IF pending_receives[i] = t
                                           THEN Count(pending_receives, t) - 1
                                           ELSE Count(pending_receives, t)
      BY <1>2, <3>1, CountRemoved
    <3>4. CASE pending_receives[i] = t
      <4>1. Receivers(t)' \subseteq Receivers(t) \cup {w}
        BY <1>9, <3>2, PlacesOfThreads DEF Take, Scan, Receivers
      <4>2. /\ IsFiniteSet(Receivers(t) \cup {w})
            /\ Cardinality(Receivers(t) \cup {w}) <= Cardinality(Receivers(t)) + 1
        BY <1>3, OneMore
      <4>3. /\ Cardinality(Receivers(t)') <= Cardinality(Receivers(t)) + 1
            /\ Cardinality(Receivers(t)') \in Nat
        BY <1>3, <4>1, <4>2, FS_Subset, FS_CardinalityType
      <4> QED
        BY <1>3, <1>4, <2>1, <3>3, <3>4, <4>3 DEF Once
    <3>5. CASE pending_receives[i] # t
      <4>1. Receivers(t)' \subseteq Receivers(t)
        BY <1>9, <1>5, <3>2, <3>5, PlacesOfThreads DEF Take, Scan, Receivers, Working
      <4> QED
        BY <1>1, <1>3, <2>1, <3>3, <3>5, <4>1, NothingMore
    <3> QED
      BY <3>4, <3>5
  <2>4. CASE Sendable = {} /\ Receivable = {}
    <3>1. pending_receives' = pending_receives
      BY <1>9, <2>4 DEF Scan
    <3>2. Receivers(t)' \subseteq Receivers(t)
      BY <1>9, <2>4, PlacesOfThreads DEF Scan, Receivers
    <3> QED
      BY <1>1, <1>3, <2>1, <3>1, <3>2, NothingMore
  <2> QED
    BY <2>2, <2>3, <2>4
<1>10. ASSUME NEW w \in Workers, Block(w) PROVE Once(t)'
  <2>1. UNCHANGED <<waiting_sockets, pending_receives, received_data_queue>>
    BY <1>10 DEF Block
  <2>2. Receivers(t)' \subseteq Receivers(t)
    BY <1>10, <1>5, PlacesOfThreads DEF Block, Receivers
  <2> QED
    BY <1>1, <1>3, <2>1, <2>2, NothingMore
<1>11. ASSUME NEW w \in Workers, Resume(w) PROVE Once(t)'
  <2>1. UNCHANGED <<waiting_sockets, pending_receives, received_data_queue>>
    BY <1>11 DEF Resume
  <2>2. Receivers(t)' \subseteq Receivers(t)
    BY <1>11, <1>5, PlacesOfThreads DEF Resume, Receivers
  <2> QED
    BY <1>1, <1>3, <2>1, <2>2, NothingMore
<1>12. ASSUME NEW w \in Workers, Spawn(w) PROVE Once(t)'
  <2>1. UNCHANGED <<waiting_sockets, pending_receives, received_data_queue>>
    BY <1>12 DEF Spawn
  <2>2. Receivers(t)' \subseteq Receivers(t)
    BY <1>12, <1>5, PlacesOfThreads DEF Spawn, Receivers
  <2> QED
    BY <1>1, <1>3, <2>1, <2>2, NothingMore
<1>13. ASSUME NEW w \in Workers, CheckLocked(w) PROVE Once(t)'
  <2>1. UNCHANGED <<waiting_sockets, pending_receives, received_data_queue>>
    BY <1>13 DEF CheckLocked, Result
  <2>2. Receivers(t)' \subseteq Receivers(t)
    BY <1>13, <1>5, PlacesOfThreads DEF CheckLocked, Result, Receivers
  <2> QED
    BY <1>1, <1>3, <2>1, <2>2, NothingMore
<1>14. ASSUME NEW w \in Workers, Write(w) PROVE Once(t)'
  <2>1. UNCHANGED <<waiting_sockets, pending_receives, received_data_queue>>
    BY <1>14 DEF Write, Put, Result
  <2>2. Receivers(t)' \subseteq Receivers(t)
    BY <1>14, <1>5, PlacesOfThreads DEF Write, Put, Result, Receivers
  <2> QED
    BY <1>1, <1>3, <2>1, <2>2, NothingMore
<1>15. ASSUME NEW w \in Workers, Receive(w) PROVE Once(t)'
  <2>1. UNCHANGED <<waiting_sockets, pending_receives, received_data_queue>>
    BY <1>15 DEF Receive, Result
  <2>2. Receivers(t)' \subseteq Receivers(t)
    BY <1>15, <1>5, PlacesOfThreads DEF Receive, Result, Receivers
  <2> QED
    BY <1>1, <1>3, <2>1, <2>2, NothingMore
<1>16. ASSUME NEW w \in Workers, Deliver(w) PROVE Once(t)'
  <2>1. waiting_sockets' = waiting_sockets /\ pending_receives' = pending_receives
    BY <1>16 DEF Deliver
  <2>2. sock[w] \in Sockets /\ received_data_queue' = Append(received_data_queue, sock[w])
    BY <1>16, WorkersHold DEF Deliver, Working
  <2>3. Count(received_data_queue', t) <= IF sock[w] = t THEN Count(received_data_queue, t) + 1
                                                         ELSE Count(received_data_queue, t)
    BY <1>2, <2>2, CountAppended
  <2>4. CASE sock[w] = t
    <3>1. w \in Receivers(t) /\ Receivers(t)' \subseteq Receivers(t) \ {w}
      BY <1>16, <1>5, <2>4, PlacesOfThreads DEF Deliver, Result, Receivers
    <3>2. /\ Cardinality(Receivers(t)') <= Cardinality(Receivers(t)) - 1
          /\ Cardinality(Receivers(t)') \in Nat
      BY <1>3, <3>1, FS_RemoveElement, FS_Subset, FS_CardinalityType
    <3> QED
      BY <1>3, <1>4, <2>1, <2>3, <2>4, <3>2 DEF Once
  <2>5. CASE sock[w] # t
    <3>1. Receivers(t)' \subseteq Receivers(t)
      BY <1>16, <2>5, PlacesOfThreads DEF Deliver, Result, Receivers
    <3> QED
      BY <1>1, <1>3, <2>1, <2>3, <2>5, <3>1, NothingMore
  <2> QED
    BY <2>4, <2>5
<1>17. ASSUME NEW w \in Workers, CheckSocketResult(w) PROVE Once(t)'
  <2>1. UNCHANGED <<waiting_sockets, pending_receives, received_data_queue>>
    BY <1>17 DEF CheckSocketResult
  <2>2. Receivers(t)' \subseteq Receivers(t)
    BY <1>17, <1>5, PlacesOfThreads DEF CheckSocketResult, Receivers
  <2> QED
    BY <1>1, <1>3, <2>1, <2>2, NothingMore
<1>18. ASSUME NEW w \in Workers, SpuriousWakeup(w) PROVE Once(t)'
  <2>1. UNCHANGED <<waiting_sockets, pending_receives, received_data_queue>>
    BY <1>18 DEF SpuriousWakeup
  <2>2. Receivers(t)' \subseteq Receivers(t)
    BY <1>18, <1>5, PlacesOfThreads DEF SpuriousWakeup, Receivers
  <2> QED
    BY <1>1, <1>3, <2>1, <2>2, NothingMore
<1>19. ASSUME NEW s \in Sockets, QueueBuffer(s) PROVE Once(t)'
  <2>1. UNCHANGED <<waiting_sockets, pending_receives, received_data_queue>>
    BY <1>19 DEF QueueBuffer, Announce, CanCall, Sleeping
  <2>2. Receivers(t)' \subseteq Receivers(t)
    BY <1>19, <1>5, PlacesOfThreads DEF QueueBuffer, Announce, CanCall, Sleeping, Receivers
  <2> QED
    BY <1>1, <1>3, <2>1, <2>2, NothingMore
<1>20. ASSUME NEW s \in Sockets, ReceiveData(s) PROVE Once(t)'
  <2>1. received_data_queue' = received_data_queue /\ waiting_sockets' = waiting_sockets \ {s}
        /\ s \in waiting_sockets /\ pending_receives' = Append(pending_receives, s)
    BY <1>20 DEF ReceiveData
  <2>2. Count(pending_receives', t) <= IF s = t THEN Count(pending_receives, t) + 1
                                                ELSE Count(pending_receives, t)
    BY <1>2, <2>1, CountAppended
  <2>3. Receivers(t)' \subseteq Receivers(t)
    BY <1>20, PlacesOfThreads DEF ReceiveData, Announce, Sleeping, Receivers
  <2>4. /\ Cardinality(Receivers(t)') <= Cardinality(Receivers(t))
        /\ Cardinality(Receivers(t)') \in Nat
    BY <1>3, <2>3, FS_Subset, FS_CardinalityType
  <2> QED
    BY <1>3, <1>4, <2>1, <2>2, <2>4 DEF Once
<1>21. ASSUME NEW s \in Sockets, CloseSocket(s) PROVE Once(t)'
  <2>1. Receivers(t)' = Receivers(t)
    BY <1>21 DEF CloseSocket, Receivers
  <2>2. /\ Count(pending_receives', t) <= Count(pending_receives, t)
        /\ s = t => Count(pending_receives', t) = 0
    BY <1>21, <1>2, CountOthers DEF CloseSocket
  <2>3. CASE sockets_locked[s] \in {"none", "ready", "errored"}
    <3>1. /\ Count(received_data_queue', t) <= Count(received_data_queue, t)
          /\ s = t => Count(received_data_queue', t) = 0
      BY <1>21, <1>2, <2>3, CountOthers DEF CloseSocket, RemoveBuffers
    <3>2. CASE s = t
      <4>1. Receivers(t) = {}
        BY <2>3, <3>2 DEF Receivers, IInv, HeldByOne
      <4>2. Cardinality(Receivers(t)') = 0
        BY <2>1, <4>1, FS_EmptySet
      <4> QED
        BY <2>2, <3>1, <3>2, <4>2 DEF Once
    <3>3. CASE s # t
      <4>1. t \in waiting_sockets' => t \in waiting_sockets
        BY <1>21, <2>3, <3>3 DEF CloseSocket
      <4> QED
        BY <1>1, <2>1, <2>2, <3>1, <4>1, NothingMore
    <3> QED
      BY <3>2, <3>3
  <2>4. CASE sockets_locked[s] \in {"locked", "interrupt"}
    <3>1. received_data_queue' = received_data_queue /\ waiting_sockets' = waiting_sockets
      BY <1>21, <2>4 DEF CloseSocket
    <3> QED
      BY <1>1, <1>3, <2>1, <2>2, <3>1, NothingMore
  <2> QED
    BY <1>21, <2>3, <2>4 DEF CloseSocket
<1>22. ASSUME NEW i \in DOMAIN received_data_queue, GetReceivedData(i) PROVE Once(t)'
  <2>1. /\ pending_receives' = pending_receives
        /\ received_data_queue' = RemoveAt(received_data_queue, i)
        /\ waiting_sockets' \subseteq waiting_sockets \cup {received_data_queue[i]}
    BY <1>22 DEF GetReceivedData
  <2>2. Count(received_data_queue', t) <= IF received_data_queue[i] = t
                                            THEN Count(received_data_queue, t) - 1
                                            ELSE Count(received_data_queue, t)
    BY <1>2, <2>1, CountRemoved
  <2>3. Receivers(t)' = Receivers(t)
    BY <1>22 DEF GetReceivedData, Receivers
  <2> QED
    BY <1>3, <1>4, <2>1, <2>2, <2>3 DEF Once
<1>23. CASE DetectError
  <2>1. Receivers(t)' = Receivers(t) /\ waiting_sockets' = waiting_sockets
    BY <1>23 DEF DetectError, Receivers
  <2>2. /\ Count(pending_receives', t) <= Count(pending_receives, t)
        /\ Count(received_data_queue', t) <= Count(received_data_queue, t)
    <3>1. CASE Errored = {}
      <4>1. UNCHANGED <<pending_receives, received_data_queue>>
        BY <1>23, <3>1 DEF DetectError
      <4> QED
        BY <1>3, <4>1
    <3>2. ASSUME NEW s \in Errored, pending_receives' \in Others(pending_receives, s),
                 RemoveBuffers(s)
          PROVE  /\ Count(pending_receives', t) <= Count(pending_receives, t)
                 /\ Count(received_data_queue', t) <= Count(received_data_queue, t)
      BY <1>2, <3>2, CountOthers DEF RemoveBuffers
    <3> QED
      BY <1>23, <3>1, <3>2 DEF DetectError
  <2> QED
    BY <1>1, <2>1, <2>2, NothingMore
<1>24. CASE Start
  <2>1. UNCHANGED <<waiting_sockets, pending_receives, received_data_queue>>
    BY <1>24 DEF Start
  <2>2. Receivers(t)' \subseteq Receivers(t)
    BY <1>24, <1>5, PlacesOfThreads DEF Start, Receivers, Working
  <2> QED
    BY <1>1, <1>3, <2>1, <2>2, NothingMore
<1>25. CASE Disconnect
  <2>1. UNCHANGED <<waiting_sockets, pending_receives, received_data_queue>>
    BY <1>25 DEF Disconnect
  <2>2. Receivers(t)' \subseteq Receivers(t)
    BY <1>25, <1>5, PlacesOfThreads DEF Disconnect, Receivers
  <2> QED
    BY <1>1, <1>3, <2>1, <2>2, NothingMore
<1>26. CASE Unmanage
  <2>1. UNCHANGED <<waiting_sockets, pending_receives, received_data_queue>>
    BY <1>26 DEF Unmanage
  <2>2. Receivers(t)' \subseteq Receivers(t)
    BY <1>26, <1>5, PlacesOfThreads DEF Unmanage, Receivers
  <2> QED
    BY <1>1, <1>3, <2>1, <2>2, NothingMore
<1>27. CASE ResetErrors
  <2>1. UNCHANGED <<waiting_sockets, pending_receives, received_data_queue>>
    BY <1>27 DEF ResetErrors
  <2>2. Receivers(t)' \subseteq Receivers(t)
    BY <1>27, <1>5, PlacesOfThreads DEF ResetErrors, Receivers
  <2> QED
    BY <1>1, <1>3, <2>1, <2>2, NothingMore
<1>28. CASE NotifyAll
  <2>1. UNCHANGED <<waiting_sockets, pending_receives, received_data_queue>>
    BY <1>28 DEF NotifyAll, Sleeping
  <2>2. Receivers(t)' \subseteq Receivers(t)
    BY <1>28, <1>5, PlacesOfThreads DEF NotifyAll, Sleeping, Receivers
  <2> QED
    BY <1>1, <1>3, <2>1, <2>2, NothingMore
<1>29. CASE Join
  <2>1. UNCHANGED <<waiting_sockets, pending_receives, received_data_queue>>
    BY <1>29 DEF Join
  <2>2. Receivers(t)' \subseteq Receivers(t)
    BY <1>29, <1>5, PlacesOfThreads DEF Join, Receivers, Working
  <2> QED
    BY <1>1, <1>3, <2>1, <2>2, NothingMore
<1> QED
  BY <1>6, <1>7, <1>8, <1>9, <1>10, <1>11, <1>12, <1>13, <1>14, <1>15, <1>16, <1>17, <1>18,
     <1>19, <1>20, <1>21, <1>22, <1>23, <1>24, <1>25, <1>26, <1>27, <1>28, <1>29
     DEF Next, Turn, Work, Call, Shutdown

\* ReceivedOnce is Once for every socket.
LEMMA OnceForAll == ReceivedOnce <=> \A t \in Sockets : Once(t)
  BY DEF ReceivedOnce, Once, Count, Spots

\* A connection never has two receives: not asked for twice, and not waited for while a
\* message is there (network::receive_data, get_received_data, close_socket), so that no
\* message is cut in two between threads.
THEOREM ReceivedAtMostOnce == Spec => []ReceivedOnce
<1>1. Init => ReceivedOnce
  <2> SUFFICES ASSUME Init PROVE ReceivedOnce
    OBVIOUS
  <2>1. ASSUME NEW t \in Sockets PROVE Once(t)
    <3>1. Receivers(t) = {} /\ Spots(pending_receives, t) = {} /\ Spots(received_data_queue, t) = {}
      BY <2>1 DEF Init, Receivers, Spots
    <3> QED
      BY <3>1, FS_EmptySet DEF Once, Count
  <2> QED
    BY <2>1, OnceForAll
<1>2. IInv /\ ReceivedOnce /\ [Next]_vars => ReceivedOnce'
  <2> SUFFICES ASSUME IInv, ReceivedOnce, [Next]_vars PROVE ReceivedOnce'
    OBVIOUS
  <2>1. \A t \in Sockets : Once(t)'
    BY OnceForAll, OnceKeeps
  <2> QED
    BY <2>1, OnceForAll DEF ReceivedOnce, Once, Count, Spots
<1> QED
  BY <1>1, <1>2, AlwaysIInv, PTL DEF Spec

-----------------------------------------------------------------------------
(* The order of what is queued. *)

\* The messages that wait for s, and that those of each socket wait in their order.
Ids(q, s)  == {q[i].id : i \in {j \in DOMAIN q : q[j].sock = s}}
Ordered(q) == \A i, j \in DOMAIN q : i < j /\ q[i].sock = q[j].sock => q[i].id < q[j].id

\* What is kept is all there, in its order.
LEMMA KeptInOrder ==
  ASSUME NEW S, NEW q \in Seq(S), NEW keep \in SUBSET (DOMAIN q), NEW r \in Kept(q, keep)
  PROVE  \E f \in [DOMAIN r -> keep] :
           /\ \A j, k \in DOMAIN r : j < k => f[j] < f[k]
           /\ \A k \in DOMAIN r : r[k] = q[f[k]]
           /\ \A i \in keep : \E k \in DOMAIN r : f[k] = i
<1> DEFINE n == Cardinality(keep)
<1>1. IsFiniteSet(keep) /\ n \in Nat
  <2>1. IsFiniteSet(DOMAIN q)
    BY FS_Interval
  <2> QED
    BY <2>1, FS_Subset, FS_CardinalityType
<1>2. PICK f \in [1..n -> keep] : /\ \A j, k \in DOMAIN f : j < k => f[j] < f[k]
                                  /\ r = [k \in DOMAIN f |-> q[f[k]]]
  BY DEF Kept
<1>3. DOMAIN f = 1..n /\ DOMAIN r = 1..n /\ keep \subseteq Nat
  <2>1. DOMAIN q \subseteq Nat
    OBVIOUS
  <2> HIDE DEF n
  <2> QED
    BY <1>2, <2>1
<1>4. IsFiniteSet(1..n) /\ Cardinality(1..n) = n
  BY <1>1, FS_Interval
<1>5. f \in Surjection(1..n, keep)
  <2>1. Cardinality(1..n) = Cardinality(keep)
    BY <1>4
  <2> HIDE DEF n
  <2>2. \A j, k \in 1..n : f[j] = f[k] => j = k
    <3> SUFFICES ASSUME NEW j \in 1..n, NEW k \in 1..n, f[j] = f[k] PROVE j = k
      OBVIOUS
    <3>1. f[j] \in Nat /\ f[k] \in Nat /\ j \in Nat /\ k \in Nat
      BY <1>1, <1>3
    <3>2. ~(j < k) /\ ~(k < j)
      BY <1>2, <1>3, <3>1
    <3> QED
      BY <3>1, <3>2
  <2>3. f \in Injection(1..n, keep)
    BY <1>2, <2>2 DEF Injection, IsInjective
  <2> QED
    BY <1>1, <2>1, <2>3, FS_Injection
<1> HIDE DEF n
<1>6. \A i \in keep : \E k \in 1..n : f[k] = i
  BY <1>5 DEF Surjection
<1> QED
  BY <1>2, <1>3, <1>6

\* Without the messages to s, those to the others wait as before.
LEMMA OrderWithout ==
  ASSUME NEW q \in Seq(Buffers), Ordered(q), NEW s \in Sockets,
         NEW keep \in SUBSET (DOMAIN q), \A i \in DOMAIN q : i \in keep <=> q[i].sock # s,
         NEW r \in Kept(q, keep)
  PROVE  /\ Ordered(r) /\ \A k \in DOMAIN r : \E i \in DOMAIN q : r[k] = q[i]
         /\ Ids(r, s) = {} /\ \A t \in Sockets : t # s => Ids(r, t) = Ids(q, t)
<1>1. PICK f \in [DOMAIN r -> keep] :
           /\ \A j, k \in DOMAIN r : j < k => f[j] < f[k]
           /\ \A k \in DOMAIN r : r[k] = q[f[k]]
           /\ \A i \in keep : \E k \in DOMAIN r : f[k] = i
  BY KeptInOrder
<1>2. \A k \in DOMAIN r : f[k] \in DOMAIN q /\ r[k] = q[f[k]] /\ q[f[k]].sock # s
  BY <1>1
<1>3. \A i \in DOMAIN q : q[i].sock # s => \E k \in DOMAIN r : f[k] = i
  BY <1>1
<1>4. Ordered(r)
  BY <1>1, <1>2 DEF Ordered
<1>5. Ids(r, s) = {}
  BY <1>2 DEF Ids
<1>6. ASSUME NEW t \in Sockets, t # s PROVE Ids(r, t) = Ids(q, t)
  <2>1. Ids(r, t) \subseteq Ids(q, t)
    BY <1>2 DEF Ids
  <2>2. Ids(q, t) \subseteq Ids(r, t)
    BY <1>2, <1>3, <1>6 DEF Ids
  <2> QED
    BY <2>1, <2>2
<1> QED
  BY <1>2, <1>4, <1>5, <1>6

\* Without the message at i, the others wait as before.
LEMMA OrderRemoved ==
  ASSUME NEW q \in Seq(Buffers), Ordered(q), NEW i \in DOMAIN q
  PROVE  /\ Ordered(RemoveAt(q, i))
         /\ \A t : Ids(RemoveAt(q, i), t) =
                     IF q[i].sock = t THEN Ids(q, t) \ {q[i].id} ELSE Ids(q, t)
<1> DEFINE r == RemoveAt(q, i)
<1>1. /\ Len(q) \in Nat /\ i \in 1..Len(q) /\ DOMAIN q = 1..Len(q)
      /\ DOMAIN r = 1..(Len(q) - 1)
      /\ \A k \in 1..(Len(q) - 1) : r[k] = IF k < i THEN q[k] ELSE q[k + 1]
      /\ \A k \in DOMAIN q : q[k].id \in Nat
  <2>1. Len(q) \in Nat /\ i \in 1..Len(q) /\ DOMAIN q = 1..Len(q)
    OBVIOUS
  <2>2. \A k \in DOMAIN q : q[k].id \in Nat
    <3>1. \A k \in DOMAIN q : q[k] \in Buffers
      OBVIOUS
    <3> QED
      BY <3>1 DEF Buffers, Messages
  <2> QED
    BY <2>1, <2>2, RemovedPointwise
<1> HIDE DEF r
<1> DEFINE f == [k \in DOMAIN r |-> IF k < i THEN k ELSE k + 1]
<1>2. /\ \A k \in DOMAIN r : f[k] \in DOMAIN q \ {i} /\ r[k] = q[f[k]]
      /\ \A j, k \in DOMAIN r : j < k => f[j] < f[k]
  BY <1>1
<1>3. \A j \in DOMAIN q \ {i} : \E k \in DOMAIN r : f[k] = j
  <2> SUFFICES ASSUME NEW j \in DOMAIN q \ {i} PROVE \E k \in DOMAIN r : f[k] = j
    OBVIOUS
  <2>1. CASE j < i
    <3>1. j \in DOMAIN r /\ f[j] = j
      BY <1>1, <2>1
    <3> QED
      BY <3>1
  <2>2. CASE ~(j < i)
    <3>1. j - 1 \in DOMAIN r /\ f[j - 1] = j
      BY <1>1, <2>2
    <3> QED
      BY <3>1
  <2> QED
    BY <2>1, <2>2
<1> HIDE DEF f
<1>4. Ordered(r)
  BY <1>2 DEF Ordered
<1>5. ASSUME NEW t
      PROVE  Ids(r, t) = IF q[i].sock = t THEN Ids(q, t) \ {q[i].id} ELSE Ids(q, t)
  <2>1. ASSUME NEW j \in DOMAIN q \ {i}, q[j].sock = q[i].sock PROVE q[j].id # q[i].id
    <3>1. j < i \/ i < j
      BY <1>1
    <3>2. q[j].id < q[i].id \/ q[i].id < q[j].id
      BY <2>1, <3>1 DEF Ordered
    <3> QED
      BY <1>1, <3>2
  <2>2. Ids(r, t) \subseteq {q[j].id : j \in {k \in DOMAIN q \ {i} : q[k].sock = t}}
    BY <1>2 DEF Ids
  <2>3. {q[j].id : j \in {k \in DOMAIN q \ {i} : q[k].sock = t}} \subseteq Ids(r, t)
    BY <1>2, <1>3 DEF Ids
  <2>4. {q[j].id : j \in {k \in DOMAIN q \ {i} : q[k].sock = t}}
          = IF q[i].sock = t THEN Ids(q, t) \ {q[i].id} ELSE Ids(q, t)
    BY <2>1 DEF Ids
  <2> QED
    BY <2>2, <2>3, <2>4
<1> QED
  BY <1>4, <1>5 DEF r

\* A later message to b.sock is queued behind.
LEMMA OrderAppended ==
  ASSUME NEW q \in Seq(Buffers), Ordered(q), NEW b \in Buffers, \A n \in Ids(q, b.sock) : n < b.id
  PROVE  /\ Ordered(Append(q, b))
         /\ \A t : Ids(Append(q, b), t) = IF b.sock = t THEN Ids(q, t) \cup {b.id} ELSE Ids(q, t)
<1> DEFINE r == Append(q, b)
<1>1. /\ Len(q) \in Nat /\ DOMAIN q = 1..Len(q) /\ DOMAIN r = 1..(Len(q) + 1)
      /\ r[Len(q) + 1] = b /\ \A i \in DOMAIN q : r[i] = q[i]
  OBVIOUS
<1> HIDE DEF r
<1>2. Ordered(r)
  <2> SUFFICES ASSUME NEW i \in DOMAIN r, NEW j \in DOMAIN r, i < j, r[i].sock = r[j].sock
               PROVE  r[i].id < r[j].id
    BY DEF Ordered
  <2>1. i \in DOMAIN q /\ r[i] = q[i]
    BY <1>1
  <2>2. CASE j \in DOMAIN q
    BY <1>1, <2>1, <2>2 DEF Ordered
  <2>3. CASE j \notin DOMAIN q
    <3>1. r[j] = b
      BY <1>1, <2>3
    <3>2. q[i].id \in Ids(q, b.sock)
      BY <2>1, <3>1 DEF Ids
    <3> QED
      BY <2>1, <3>1, <3>2
  <2> QED
    BY <2>2, <2>3
<1>3. ASSUME NEW t PROVE Ids(r, t) = IF b.sock = t THEN Ids(q, t) \cup {b.id} ELSE Ids(q, t)
  <2>1. Len(q) + 1 \in DOMAIN r /\ \A i \in DOMAIN r : i \in DOMAIN q \/ i = Len(q) + 1
    BY <1>1
  <2>2. \A i \in DOMAIN q : i \in DOMAIN r
    BY <1>1
  <2> QED
    BY <1>1, <2>1, <2>2 DEF Ids
<1> QED
  BY <1>2, <1>3 DEF r

-----------------------------------------------------------------------------
(* What a connection has got. *)

\* w has a message for s that is not all on the wire.
Sends(w, s) == sock[w] = s /\ sent_buf[w] # 0 /\ pc[w] # "result"

\* Nothing more is written to s until it is closed.
Broken(s) ==
  \/ s \in bad_sockets \/ sockets_locked[s] = "errored"
  \/ \E w \in Workers : sock[w] = s /\ pc[w] = "result" /\ result[w] = "errored"

\* The wire of s ends with the message k, or has nothing yet.
Ends(s, k) == IF wire[s] = <<>> THEN k = 0
              ELSE Last(wire[s]).id = k /\ Last(wire[s]).part # "head"

\* What waits for s are the messages after k.
Remain(s, k) == k <= queued[s] /\ Ids(outgoing_bufs, s) = (k + 1)..queued[s]

\* The wire ends before the message of w, or with the head of it.
UnderWay(w, s) ==
  /\ Remain(s, sent_buf[w])
  /\ IF upto[w] THEN wire[s] # <<>> /\ Last(wire[s]) = [id |-> sent_buf[w], part |-> "head"]
                ELSE Ends(s, sent_buf[w] - 1)

\* What is on the wire, what a thread has and what waits follow one another.
Follows(s) ==
  \/ \E w \in Workers : Sends(w, s) /\ UnderWay(w, s)
  \/ /\ \A w \in Workers : ~Sends(w, s)
     /\ \E k \in Nat : Ends(s, k) /\ Remain(s, k)
Continued(s) == ~Broken(s) => Follows(s)

\* The messages wait in their order; none for a connection that failed.
Lined ==
  /\ Ordered(outgoing_bufs)
  /\ \A s \in Sockets : \A n \in Ids(outgoing_bufs, s) : n <= queued[s] /\ s \notin bad_sockets

\* Only who sends is in the middle of a message; nobody sends to a connection that failed.
Begun ==
  \A w \in Workers : /\ upto[w] => pc[w] \in {"sending", "writing", "result"}
                     /\ sock[w] \in bad_sockets => sent_buf[w] = 0

Streaming == Lined /\ Begun /\ (\A s \in Sockets : Continued(s)) /\ StreamIntact

\* Who changes the queue and who the wire.
LEMMA QueueIsChangedBy ==
  ASSUME [Next]_vars
  PROVE  \/ UNCHANGED <<outgoing_bufs, queued, bad_sockets>>
         \/ \E w \in Workers : Scan(w)
         \/ \E s \in Sockets : QueueBuffer(s) \/ CloseSocket(s)
         \/ DetectError
<1>1. CASE UNCHANGED vars
  BY <1>1
<1>2. ASSUME NEW w \in Workers, Turn(w) \/ Work(w) \/ SpuriousWakeup(w)
      PROVE  Scan(w) \/ UNCHANGED <<outgoing_bufs, queued, bad_sockets>>
  BY <1>2 DEF Turn, Work, Enter, Reap, Block, Resume, Spawn, SpuriousWakeup, CheckLocked, Write,
              Receive, Deliver, CheckSocketResult
<1>3. CASE Call
  BY <1>3 DEF Call, ReceiveData, GetReceivedData
<1>4. CASE Start \/ Disconnect \/ Shutdown
  BY <1>4 DEF Start, Disconnect, Shutdown, Unmanage, ResetErrors, NotifyAll, Join
<1> QED
  BY <1>1, <1>2, <1>3, <1>4 DEF Next

LEMMA WireIsChangedBy ==
  ASSUME [Next]_vars
  PROVE  \/ wire' = wire
         \/ \E w \in Workers : Write(w)
         \/ \E s \in Sockets : CloseSocket(s)
<1>1. CASE UNCHANGED vars
  BY <1>1
<1>2. ASSUME NEW w \in Workers, Turn(w) \/ Work(w) \/ SpuriousWakeup(w)
      PROVE  Write(w) \/ wire' = wire
  BY <1>2 DEF Turn, Work, Enter, Reap, Scan, Block, Resume, Spawn, SpuriousWakeup, CheckLocked,
              Receive, Deliver, CheckSocketResult
<1>3. CASE Call
  BY <1>3 DEF Call, QueueBuffer, ReceiveData, GetReceivedData, DetectError
<1>4. CASE Start \/ Disconnect \/ Shutdown
  BY <1>4 DEF Start, Disconnect, Shutdown, Unmanage, ResetErrors, NotifyAll, Join
<1> QED
  BY <1>1, <1>2, <1>3, <1>4 DEF Next

\* Scan takes the oldest message of its socket.
LEMMA OldestIsTaken ==
  ASSUME IInv, Lined, Sendable # {}
  PROVE  LET b == outgoing_bufs[First(Sendable)] IN
         \A n \in Ids(outgoing_bufs, b.sock) : b.id <= n
<1> DEFINE i == First(Sendable)
           b == outgoing_bufs[i]
<1>1. outgoing_bufs \in Seq(Buffers) /\ \A j \in DOMAIN outgoing_bufs : outgoing_bufs[j].id \in Nat
  <2>1. outgoing_bufs \in Seq(Buffers)
    BY DEF IInv, TypeOK
  <2>2. \A j \in DOMAIN outgoing_bufs : outgoing_bufs[j] \in Buffers
    BY <2>1
  <2> QED
    BY <2>1, <2>2 DEF Buffers, Messages
<1>2. Sendable \in SUBSET Nat
  BY <1>1 DEF Sendable
<1>3. i \in Sendable /\ \A j \in Sendable : i <= j
  BY <1>2, FirstIsLeast
<1> HIDE DEF i
<1>4. ASSUME NEW j \in DOMAIN outgoing_bufs, outgoing_bufs[j].sock = b.sock
      PROVE  b.id <= outgoing_bufs[j].id
  <2>1. j \in Sendable /\ i \in DOMAIN outgoing_bufs
    <3>1. sockets_locked[outgoing_bufs[j].sock] = "ready" /\ i \in DOMAIN outgoing_bufs
      <4>1. i \in DOMAIN outgoing_bufs /\ sockets_locked[outgoing_bufs[i].sock] = "ready"
        BY <1>3 DEF Sendable
      <4> QED
        BY <1>4, <4>1
    <3> QED
      BY <3>1 DEF Sendable
  <2>2. i = j \/ i < j
    <3>1. i \in Nat /\ j \in Nat
      BY <1>2, <1>3, <2>1
    <3>2. i <= j
      BY <1>3, <2>1
    <3> QED
      BY <3>1, <3>2
  <2>3. CASE i = j
    BY <1>1, <2>1, <2>3
  <2>4. CASE i < j
    BY <1>1, <1>4, <2>1, <2>4 DEF Lined, Ordered
  <2> QED
    BY <2>2, <2>3, <2>4
<1> QED
  BY <1>4 DEF Ids, i

\* remove_buffers leaves the messages to the other sockets as they wait.
LEMMA BuffersRemoved ==
  ASSUME outgoing_bufs \in Seq(Buffers), Ordered(outgoing_bufs), NEW s \in Sockets, RemoveBuffers(s)
  PROVE  /\ Ordered(outgoing_bufs') /\ Ids(outgoing_bufs', s) = {}
         /\ \A t \in Sockets : t # s => Ids(outgoing_bufs', t) = Ids(outgoing_bufs, t)
<1>1. PICK keep : /\ keep = {i \in DOMAIN outgoing_bufs : outgoing_bufs[i].sock # s}
                  /\ outgoing_bufs' \in Kept(outgoing_bufs, keep)
  BY Zenon DEF RemoveBuffers
<1>2. /\ keep \in SUBSET (DOMAIN outgoing_bufs)
      /\ \A i \in DOMAIN outgoing_bufs : i \in keep <=> outgoing_bufs[i].sock # s
  BY <1>1
<1>3. outgoing_bufs' \in Kept(outgoing_bufs, keep)
  BY <1>1
<1> QED
  BY <1>2, <1>3, OrderWithout

\* What waits for a socket was queued to it.
LEMMA AllBefore ==
  ASSUME IInv, Lined, NEW s \in Sockets, NEW n \in Ids(outgoing_bufs, s)
  PROVE  n \in Nat /\ n < queued[s] + 1
<1>1. outgoing_bufs \in Seq(Buffers) /\ queued \in [Sockets -> 0 .. MaxQueued]
  BY DEF IInv, TypeOK
<1>2. \A j \in DOMAIN outgoing_bufs : outgoing_bufs[j] \in Buffers
  BY <1>1
<1>3. n \in Nat
  BY <1>2 DEF Ids, Buffers, Messages
<1> QED
  BY <1>1, <1>3 DEF Lined

\* Each operation on the queue keeps it in order.
LEMMA LinedKeeps == IInv /\ Lined /\ [Next]_vars => Lined'
<1> SUFFICES ASSUME IInv, Lined, [Next]_vars PROVE Lined'
  OBVIOUS
<1>1. /\ outgoing_bufs \in Seq(Buffers) /\ queued \in [Sockets -> 0 .. MaxQueued]
      /\ Ordered(outgoing_bufs)
  BY DEF IInv, TypeOK, Lined
<1>2. CASE UNCHANGED <<outgoing_bufs, queued, bad_sockets>>
  BY <1>2 DEF Lined
<1>3. ASSUME NEW w \in Workers, Scan(w) PROVE Lined'
  <2>1. CASE UNCHANGED outgoing_bufs
    BY <1>3, <2>1 DEF Scan, Lined
  <2>2. CASE Sendable # {}
    <3> DEFINE i == First(Sendable)
    <3>1. i \in DOMAIN outgoing_bufs /\ outgoing_bufs' = RemoveAt(outgoing_bufs, i)
      BY <1>3, <2>2, FoundIsReady DEF Scan
    <3> HIDE DEF i
    <3>2. /\ Ordered(outgoing_bufs')
          /\ \A t : Ids(outgoing_bufs', t) \subseteq Ids(outgoing_bufs, t)
      BY <1>1, <3>1, OrderRemoved
    <3> QED
      BY <1>3, <3>2 DEF Lined, Scan
  <2> QED
    BY <1>3, <2>1, <2>2 DEF Scan
<1>4. ASSUME NEW s \in Sockets, QueueBuffer(s) PROVE Lined'
  <2> DEFINE b == [sock |-> s, id |-> queued[s] + 1]
  <2>1. /\ outgoing_bufs' = Append(outgoing_bufs, b) /\ s \notin bad_sockets
        /\ queued' = [queued EXCEPT ![s] = @ + 1] /\ bad_sockets' = bad_sockets
        /\ queued[s] < MaxQueued
    BY <1>4 DEF QueueBuffer
  <2>2. b \in Buffers /\ b.sock = s /\ b.id = queued[s] + 1
    BY <1>1, <2>1 DEF Buffers, Messages
  <2> HIDE DEF b
  <2>3. \A n \in Ids(outgoing_bufs, b.sock) : n \in Nat /\ n < b.id
    BY <1>1, <2>2, AllBefore
  <2>4. /\ Ordered(outgoing_bufs')
        /\ \A t : Ids(outgoing_bufs', t) = IF b.sock = t THEN Ids(outgoing_bufs, t) \cup {b.id}
                                                         ELSE Ids(outgoing_bufs, t)
    BY <1>1, <2>1, <2>2, <2>3, OrderAppended
  <2>5. \A t \in Sockets : \A n \in Ids(outgoing_bufs', t) :
          n <= queued'[t] /\ t \notin bad_sockets'
    <3> SUFFICES ASSUME NEW t \in Sockets, NEW n \in Ids(outgoing_bufs', t)
                 PROVE  n <= queued'[t] /\ t \notin bad_sockets'
      OBVIOUS
    <3>1. CASE t = s
      BY <1>1, <2>1, <2>2, <2>3, <2>4, <3>1
    <3>2. CASE t # s
      BY <1>1, <2>1, <2>2, <2>4, <3>2 DEF Lined
    <3> QED
      BY <3>1, <3>2
  <2> QED
    BY <2>4, <2>5 DEF Lined
<1>5. ASSUME NEW s \in Sockets, CloseSocket(s) PROVE Lined'
  <2>1. CASE sockets_locked[s] \in {"none", "ready", "errored"}
    <3>1. /\ bad_sockets' = bad_sockets \ {s} /\ queued' = [queued EXCEPT ![s] = 0]
          /\ RemoveBuffers(s)
      BY <1>5, <2>1 DEF CloseSocket
    <3>2. /\ Ordered(outgoing_bufs') /\ Ids(outgoing_bufs', s) = {}
          /\ \A t \in Sockets : t # s => Ids(outgoing_bufs', t) = Ids(outgoing_bufs, t)
      BY <1>1, <3>1, BuffersRemoved
    <3> QED
      BY <1>1, <3>1, <3>2 DEF Lined
  <2>2. CASE sockets_locked[s] \in {"locked", "interrupt"}
    BY <1>5, <2>2 DEF CloseSocket, Lined
  <2> QED
    BY <1>5, <2>1, <2>2 DEF CloseSocket
<1>6. CASE DetectError
  <2>1. CASE Errored = {}
    BY <1>6, <2>1 DEF DetectError, Lined
  <2>2. ASSUME NEW s \in Errored, RemoveBuffers(s), bad_sockets' = bad_sockets \cup {s},
               queued' = queued
        PROVE  Lined'
    <3>2. /\ Ordered(outgoing_bufs') /\ Ids(outgoing_bufs', s) = {}
          /\ \A t \in Sockets : t # s => Ids(outgoing_bufs', t) = Ids(outgoing_bufs, t)
      BY <1>1, <2>2, BuffersRemoved DEF Errored
    <3> QED
      BY <2>2, <3>2 DEF Lined
  <2> QED
    BY <1>6, <2>1, <2>2 DEF DetectError
<1> QED
  BY <1>2, <1>3, <1>4, <1>5, <1>6, QueueIsChangedBy

\* A step that touches no message and that no sender takes.
Quiet ==
  /\ UNCHANGED <<outgoing_bufs, queued, wire, bad_sockets, locals>>
  /\ \A w \in Workers : /\ pc'[w] = "result" <=> pc[w] = "result"
                        /\ pc[w] \in {"sending", "writing"} => pc'[w] = pc[w]
  /\ \A s \in Sockets : sockets_locked[s] = "errored" => sockets_locked'[s] = "errored"

\* Every step is quiet but those that move a message, end a job, close a socket or
\* mark a connection.
LEMMA QuietSteps ==
  ASSUME IInv, [Next]_vars
  PROVE  \/ Quiet
         \/ \E w \in Workers : Scan(w) \/ Work(w)
         \/ \E s \in Sockets : QueueBuffer(s) \/ CloseSocket(s)
         \/ DetectError
<1>1. /\ pc \in [Workers -> Places] /\ to_clear = {w \in Workers : pc[w] = "exited"}
      /\ sockets_locked \in [Sockets -> {"none", "ready", "locked", "errored", "interrupt"}]
      /\ \A w \in Workers : w \in threads <=> pc[w] # "absent"
      /\ main = "down" => \A w \in Workers : pc[w] = "absent"
      /\ main = "join" => \A s \in Sockets : sockets_locked[s] = "none"
  BY PlacesOfThreads DEF IInv, TypeOK, Living
<1>2. CASE UNCHANGED vars
  BY <1>2 DEF Quiet
<1>3. ASSUME NEW w \in Workers, Enter(w) \/ Reap(w) PROVE Quiet
  <2>1. /\ UNCHANGED <<outgoing_bufs, queued, wire, bad_sockets, locals, sockets_locked>>
        /\ pc[w] \in {"enter", "reaping"}
    BY <1>3 DEF Enter, Reap
  <2>2. \/ pc' = [pc EXCEPT ![w] = "reaping"]
        \/ \E z \in {{}, to_clear}, p \in {"exited", "scanning"} :
             pc' = [q \in Workers |-> IF q = w THEN p ELSE IF q \in z THEN "absent" ELSE pc[q]]
    BY <1>3 DEF Enter, Reap, Admit
  <2>3. \A q \in Workers : pc[q] \in {"sending", "writing", "result"} => pc'[q] = pc[q]
    BY <1>1, <2>1, <2>2
  <2>4. \A q \in Workers : pc'[q] = "result" => pc[q] = "result"
    BY <1>1, <2>1, <2>2
  <2> QED
    BY <2>1, <2>3, <2>4 DEF Quiet
<1>4. ASSUME NEW w \in Workers, Block(w) \/ Resume(w) \/ Spawn(w) \/ SpuriousWakeup(w)
      PROVE  Quiet
  BY <1>1, <1>4 DEF Quiet, Block, Resume, Spawn, SpuriousWakeup
<1>5. ASSUME NEW s \in Sockets, ReceiveData(s) PROVE Quiet
  BY <1>1, <1>5 DEF Quiet, ReceiveData, Announce, Sleeping
<1>6. ASSUME NEW i \in DOMAIN received_data_queue, GetReceivedData(i) PROVE Quiet
  BY <1>6 DEF Quiet, GetReceivedData
<1>7. CASE Start \/ Disconnect
  BY <1>1, <1>7 DEF Quiet, Start, Disconnect
<1>8. CASE Unmanage \/ ResetErrors \/ NotifyAll
  BY <1>1, <1>8 DEF Quiet, Unmanage, ResetErrors, NotifyAll, Sleeping
<1>9. CASE Join
  BY <1>1, <1>9 DEF Quiet, Join
<1> QED
  BY <1>2, <1>3, <1>4, <1>5, <1>6, <1>7, <1>8, <1>9 DEF Next, Turn, Call, Shutdown

\* A thread begins a message that it takes, and ends with it.
LEMMA BegunKeeps == IInv /\ Lined /\ Begun /\ [Next]_vars => Begun'
<1> SUFFICES ASSUME IInv, Lined, Begun, [Next]_vars PROVE Begun'
  OBVIOUS
<1>1. /\ pc \in [Workers -> Places] /\ upto \in [Workers -> BOOLEAN]
      /\ sock \in [Workers -> Sockets \cup {NULL}] /\ NULL \notin Sockets
      /\ sent_buf \in [Workers -> 0 .. MaxQueued] /\ bad_sockets \subseteq Sockets
  BY PlacesOfThreads DEF IInv, TypeOK
<1>2. CASE Quiet
  BY <1>2 DEF Begun, Quiet
<1>3. ASSUME NEW w \in Workers, Scan(w) PROVE Begun'
  <2>1. /\ bad_sockets' = bad_sockets /\ upto' = upto /\ pc[w] = "scanning" /\ ~upto[w]
        /\ \A x \in Workers \ {w} :
              pc'[x] = pc[x] /\ sock'[x] = sock[x] /\ sent_buf'[x] = sent_buf[x]
    BY <1>1, <1>3 DEF Begun, Scan, Take
  <2>2. sock'[w] \in bad_sockets => sent_buf'[w] = 0
    <3>1. CASE Sendable # {}
      <4> DEFINE i == First(Sendable)
      <4>1. i \in DOMAIN outgoing_bufs /\ outgoing_bufs[i].sock \in Sockets
        BY <3>1, FoundIsReady
      <4>2. sock' = [sock EXCEPT ![w] = outgoing_bufs[i].sock]
        BY <1>3, <3>1 DEF Scan, Take
      <4> HIDE DEF i
      <4>3. outgoing_bufs[i].id \in Ids(outgoing_bufs, outgoing_bufs[i].sock)
        BY <4>1 DEF Ids
      <4>4. outgoing_bufs[i].sock \notin bad_sockets
        BY <4>1, <4>3 DEF Lined
      <4> QED
        BY <1>1, <4>2, <4>4
    <3>2. CASE Sendable = {} /\ Receivable # {}
      BY <1>1, <1>3, <3>2 DEF Scan, Take
    <3>3. CASE Sendable = {} /\ Receivable = {}
      BY <1>1, <1>3, <3>3 DEF Scan, Begun
    <3> QED
      BY <3>1, <3>2, <3>3
  <2> QED
    BY <2>1, <2>2 DEF Begun
<1>4. ASSUME NEW w \in Workers, CheckLocked(w) \/ Write(w) \/ Receive(w) \/ Deliver(w) PROVE Begun'
  <2>1. /\ UNCHANGED <<bad_sockets, sock, sent_buf>>
        /\ pc[w] \in {"receiving", "deliver"} => ~upto[w]
    BY <1>4 DEF CheckLocked, Write, Receive, Deliver, Begun
  <2>2. \A x \in Workers \ {w} : pc'[x] = pc[x] /\ upto'[x] = upto[x]
    BY <1>1, <1>4 DEF CheckLocked, Write, Receive, Deliver, Result
  <2>3. upto'[w] => pc'[w] \in {"sending", "writing", "result"}
    BY <1>1, <1>4, <2>1 DEF CheckLocked, Write, Receive, Deliver, Result
  <2> QED
    BY <2>1, <2>2, <2>3 DEF Begun
<1>5. ASSUME NEW w \in Workers, CheckSocketResult(w) PROVE Begun'
  BY <1>1, <1>5 DEF CheckSocketResult, Begun
<1>6. ASSUME NEW s \in Sockets, QueueBuffer(s) PROVE Begun'
  BY <1>1, <1>6 DEF QueueBuffer, Announce, Sleeping, Begun
<1>7. ASSUME NEW s \in Sockets, CloseSocket(s) PROVE Begun'
  BY <1>1, <1>7 DEF CloseSocket, Begun
<1>8. CASE DetectError
  <2>1. CASE Errored = {}
    BY <1>8, <2>1 DEF DetectError, Begun
  <2>2. ASSUME NEW s \in Errored, bad_sockets' = bad_sockets \cup {s}, UNCHANGED <<pool, locals>>
        PROVE  Begun'
    <3>1. \A w \in Workers : sock[w] # s
      BY DEF IInv, HeldByOne, Errored
    <3> QED
      BY <2>2, <3>1 DEF Begun
  <2> QED
    BY <1>8, <2>1, <2>2 DEF DetectError
<1> QED
  BY <1>2, <1>3, <1>4, <1>5, <1>6, <1>7, <1>8, QuietSteps DEF Work

\* A step that leaves a connection alone, or breaks it.
LEMMA Undisturbed ==
  ASSUME NEW s \in Sockets, Continued(s), Broken(s) => Broken(s)',
         queued'[s] = queued[s], Ids(outgoing_bufs', s) = Ids(outgoing_bufs, s), wire'[s] = wire[s],
         \A w \in Workers : /\ Sends(w, s)' <=> Sends(w, s)
                            /\ Sends(w, s) => sent_buf'[w] = sent_buf[w] /\ upto'[w] = upto[w]
  PROVE  Continued(s)'
<1> SUFFICES ASSUME ~Broken(s)' PROVE Follows(s)'
  BY DEF Continued
<1>1. Follows(s)
  BY DEF Continued
<1>2. ASSUME NEW k PROVE (Ends(s, k) <=> Ends(s, k)') /\ (Remain(s, k) <=> Remain(s, k)')
  BY DEF Ends, Remain
<1>3. CASE \E w \in Workers : Sends(w, s) /\ UnderWay(w, s)
  <2>1. PICK w \in Workers : Sends(w, s) /\ UnderWay(w, s)
    BY <1>3
  <2>2. Sends(w, s)' /\ sent_buf'[w] = sent_buf[w] /\ upto'[w] = upto[w]
    BY <2>1 DEF Sends
  <2>3. UnderWay(w, s)'
    BY <2>1, <2>2 DEF UnderWay, Ends, Remain
  <2> QED
    BY <2>2, <2>3 DEF Follows
<1>4. CASE /\ \A w \in Workers : ~Sends(w, s)
           /\ \E k \in Nat : Ends(s, k) /\ Remain(s, k)
  <2>1. PICK k \in Nat : Ends(s, k) /\ Remain(s, k)
    BY <1>4
  <2>2. Ends(s, k)' /\ Remain(s, k)'
    BY <1>2, <2>1
  <2>3. \A w \in Workers : ~Sends(w, s)'
    BY <1>4 DEF Sends
  <2> QED
    BY <2>2, <2>3 DEF Follows
<1> QED
  BY <1>1, <1>3, <1>4 DEF Follows

\* A connection that nobody works on and that is well has what comes before the queue.
LEMMA ReadyFollows ==
  ASSUME IInv, NEW s \in Sockets, Continued(s), sockets_locked[s] \in {"none", "ready"},
         s \notin bad_sockets
  PROVE  \E k \in Nat : Ends(s, k) /\ Remain(s, k)
<1>1. \A w \in Workers : sock[w] # s
  BY DEF IInv, HeldByOne
<1> QED
  BY <1>1 DEF Continued, Broken, Follows, Sends

\* The one that is about to write has what comes before the queue.
LEMMA WriterUnderWay ==
  ASSUME IInv, Begun, NEW w \in Workers, pc[w] = "writing", Continued(sock[w])
  PROVE  /\ sock[w] \in Sockets /\ sent_buf[w] \in 1..MaxQueued /\ upto[w] \in BOOLEAN
         /\ \A x \in Workers \ {w} : sock[x] # sock[w]
         /\ UnderWay(w, sock[w]) /\ wire[sock[w]] \in Seq(Pieces)
<1>1. sock[w] \in Sockets /\ sockets_locked[sock[w]] \in {"locked", "interrupt"}
  BY WorkersHold DEF Working
<1>2. /\ sent_buf[w] \in 1..MaxQueued /\ upto[w] \in BOOLEAN
      /\ wire[sock[w]] \in Seq(Pieces)
  BY <1>1 DEF IInv, TypeOK, Employed
<1>3. \A x \in Workers \ {w} : sock[x] # sock[w]
  BY <1>1 DEF IInv, HeldByOne
<1>4. sock[w] \notin bad_sockets
  BY <1>2 DEF Begun
<1>5. ~Broken(sock[w])
  BY <1>1, <1>3, <1>4 DEF Broken
<1>6. Sends(w, sock[w])
  BY <1>2 DEF Sends
<1> QED
  BY <1>1, <1>2, <1>3, <1>5, <1>6 DEF Continued, Follows, Sends

\* What one piece more does to the end of the wire.
LEMMA PieceAppended ==
  ASSUME NEW q \in Seq(Pieces), NEW p \in Pieces
  PROVE  /\ Append(q, p) # <<>> /\ Last(Append(q, p)) = p
         /\ Append(q, p) \in Seq(Pieces) /\ DOMAIN Append(q, p) = 1..(Len(q) + 1)
         /\ Append(q, p)[Len(q) + 1] = p /\ Len(q) \in Nat
         /\ \A i \in 1..Len(q) : Append(q, p)[i] = q[i]
         /\ q # <<>> => Len(q) > 0 /\ Last(q) = q[Len(q)]
  BY DEF Last

\* A thread that writes goes on where the wire ends.
LEMMA WriteContinues ==
  ASSUME IInv, Begun, NEW w \in Workers, Write(w), NEW s \in Sockets, Continued(s),
         s = sock[w]
  PROVE  Continued(s)'
<1> DEFINE m == sent_buf[w]
<1>1. /\ m \in 1..MaxQueued /\ upto[w] \in BOOLEAN /\ UnderWay(w, s) /\ wire[s] \in Seq(Pieces)
      /\ \A x \in Workers \ {w} : sock[x] # s
  BY WriterUnderWay DEF Write
<1>2. /\ outgoing_bufs' = outgoing_bufs /\ queued' = queued /\ sock' = sock /\ sent_buf' = sent_buf
      /\ wire \in [Sockets -> Seq(Pieces)] /\ pc \in [Workers -> Places]
      /\ upto \in [Workers -> BOOLEAN] /\ result \in [Workers -> {"ready", "errored"}]
      /\ m \in Nat
  BY <1>1 DEF Write, IInv, TypeOK
<1>3. Remain(s, m)'
  BY <1>1, <1>2 DEF UnderWay, Remain
<1>4. ASSUME NEW part \in {"whole", "head", "tail"}, Put(w, part)
      PROVE  wire'[s] # <<>> /\ Last(wire'[s]) = [id |-> m, part |-> part]
  <2> DEFINE piece == [id |-> m, part |-> part]
  <2>1. piece \in Pieces
    BY <1>1 DEF Pieces, Messages
  <2>2. wire'[s] = Append(wire[s], piece)
    BY <1>2, <1>4 DEF Put
  <2> HIDE DEF piece
  <2>3. wire[s] \in Seq(Pieces)
    BY <1>1
  <2>4. Append(wire[s], piece) # <<>> /\ Last(Append(wire[s], piece)) = piece
    BY <2>1, <2>3, PieceAppended
  <2> QED
    BY <2>2, <2>4 DEF piece
<1>5. CASE Put(w, IF upto[w] THEN "tail" ELSE "whole") /\ Result(w, "ready")
  <2>1. wire'[s] # <<>> /\ Last(wire'[s]).id = m /\ Last(wire'[s]).part # "head"
    BY <1>1, <1>4, <1>5
  <2>2. \A x \in Workers : ~Sends(x, s)'
    BY <1>1, <1>2, <1>5 DEF Sends, Result
  <2> QED
    BY <1>2, <1>3, <2>1, <2>2 DEF Continued, Follows, Ends
<1>6. CASE Put(w, "head") /\ upto' = [upto EXCEPT ![w] = TRUE] /\ pc' = [pc EXCEPT ![w] = "sending"]
  <2>1. wire'[s] # <<>> /\ Last(wire'[s]) = [id |-> m, part |-> "head"]
    BY <1>4, <1>6
  <2>2. Sends(w, s)' /\ upto'[w]
    BY <1>1, <1>2, <1>6 DEF Sends
  <2> QED
    BY <1>2, <1>3, <2>1, <2>2 DEF Continued, Follows, UnderWay
<1>7. CASE Result(w, "errored")
  BY <1>2, <1>7 DEF Continued, Broken, Result
<1> QED
  BY <1>5, <1>6, <1>7 DEF Write

\* What a thread takes is the next message of its connection.
LEMMA ScanContinues ==
  ASSUME IInv, Lined, Begun, NEW w \in Workers, Scan(w), NEW s \in Sockets, Continued(s)
  PROVE  Continued(s)'
<1>1. /\ pc \in [Workers -> Places] /\ upto \in [Workers -> BOOLEAN]
      /\ sock \in [Workers -> Sockets \cup {NULL}] /\ NULL \notin Sockets
      /\ sent_buf \in [Workers -> 0 .. MaxQueued] /\ queued \in [Sockets -> 0 .. MaxQueued]
      /\ outgoing_bufs \in Seq(Buffers) /\ Ordered(outgoing_bufs)
      /\ sockets_locked \in [Sockets -> {"none", "ready", "locked", "errored", "interrupt"}]
  BY PlacesOfThreads DEF IInv, TypeOK, Lined
<1>2. pc[w] = "scanning" /\ ~upto[w] /\ sock[w] = NULL
  BY <1>1 DEF Scan, Begun, IInv, Employed, Working
<1>3. UNCHANGED <<bad_sockets, queued, wire, upto, result>>
  BY DEF Scan
<1>4. CASE Sendable # {}
  <2> DEFINE i == First(Sendable)
             m == outgoing_bufs[i].id
             u == outgoing_bufs[i].sock
  <2>1. /\ i \in DOMAIN outgoing_bufs /\ u \in Sockets /\ m \in Messages
        /\ sockets_locked[u] = "ready"
    BY <1>4, FoundIsReady
  <2>2. Take(w, u, m) /\ outgoing_bufs' = RemoveAt(outgoing_bufs, i)
    BY <1>4 DEF Scan
  <2>3. \A n \in Ids(outgoing_bufs, u) : m <= n
    BY <1>4, OldestIsTaken
  <2> HIDE DEF i
  <2>4. m \in Ids(outgoing_bufs, u) /\ u \notin bad_sockets
    BY <2>1 DEF Ids, Lined
  <2>5. Ids(outgoing_bufs', s) =
          IF u = s THEN Ids(outgoing_bufs, s) \ {m} ELSE Ids(outgoing_bufs, s)
    BY <1>1, <2>1, <2>2, OrderRemoved
  <2> HIDE DEF m, u
  <2>6. /\ sock' = [sock EXCEPT ![w] = u] /\ sent_buf' = [sent_buf EXCEPT ![w] = m]
        /\ sockets_locked' = [sockets_locked EXCEPT ![u] = "locked"]
        /\ pc'[w] # "result" /\ \A x \in Workers \ {w} : pc'[x] = pc[x]
    BY <1>1, <2>2 DEF Take
  <2>7. CASE s = u
    <3>1. PICK k \in Nat : Ends(s, k) /\ Remain(s, k)
      BY <2>1, <2>4, <2>7, ReadyFollows
    <3>2. m = k + 1 /\ m \in Nat
      <4>1. m \in (k + 1)..queued[s]
        BY <2>4, <2>7, <3>1 DEF Remain
      <4>2. queued[s] \in Nat /\ k + 1 \in (k + 1)..queued[s]
        BY <1>1, <4>1
      <4>3. m <= k + 1
        BY <2>3, <2>7, <3>1, <4>2 DEF Remain
      <4> QED
        BY <1>1, <4>1, <4>3
    <3>3. Sends(w, s)' /\ sent_buf'[w] = k + 1 /\ ~upto'[w]
      BY <1>1, <1>2, <1>3, <2>6, <2>7, <3>2 DEF Sends
    <3>4. Ends(s, k)'
      BY <1>3, <3>1 DEF Ends
    <3>5. Remain(s, k + 1)'
      <4>1. k + 1 \in Ids(outgoing_bufs, s) /\ Ids(outgoing_bufs, s) = (k + 1)..queued[s]
            /\ queued[s] \in Nat /\ queued'[s] = queued[s]
        BY <1>1, <1>3, <2>4, <2>7, <3>1, <3>2 DEF Remain
      <4>2. k + 1 <= queued[s]
        BY <4>1
      <4>3. ((k + 1)..queued[s]) \ {k + 1} = (k + 2)..queued[s]
        BY <4>1
      <4>4. Ids(outgoing_bufs', s) = (k + 2)..queued[s]
        BY <2>5, <2>7, <3>2, <4>1, <4>3
      <4>5. k + 1 + 1 = k + 2
        OBVIOUS
      <4> QED
        BY <4>1, <4>2, <4>4, <4>5 DEF Remain
    <3>6. sent_buf'[w] - 1 = k
      BY <3>3
    <3> QED
      BY <3>3, <3>4, <3>5, <3>6 DEF Continued, Follows, UnderWay
  <2>8. CASE s # u
    <3>1. \A x \in Workers : /\ Sends(x, s)' <=> Sends(x, s)
                             /\ Sends(x, s) => sent_buf'[x] = sent_buf[x]
      BY <1>1, <1>2, <2>6, <2>8 DEF Sends
    <3>2. Broken(s) => Broken(s)'
      BY <1>1, <1>2, <1>3, <2>6, <2>8 DEF Broken
    <3>3. Ids(outgoing_bufs', s) = Ids(outgoing_bufs, s)
      BY <2>5, <2>8
    <3> QED
      BY <1>3, <3>1, <3>2, <3>3, Undisturbed
  <2> QED
    BY <2>7, <2>8
<1>5. CASE Sendable = {}
  <2>1. /\ sent_buf'[w] = 0 \/ sock'[w] = NULL
        /\ \A x \in Workers \ {w} : /\ pc'[x] = pc[x] /\ sock'[x] = sock[x]
                                    /\ sent_buf'[x] = sent_buf[x]
    BY <1>1, <1>2, <1>5 DEF Scan, Take
  <2>2. \A t \in Sockets : sockets_locked[t] = "errored" => sockets_locked'[t] = "errored"
    <3>1. CASE Receivable # {}
      <4> DEFINE u == pending_receives[First(Receivable)]
      <4>1. u \in Sockets /\ sockets_locked[u] = "ready"
        BY <3>1, FoundIsReady
      <4>2. sockets_locked' = [sockets_locked EXCEPT ![u] = "locked"]
        BY <1>5, <3>1 DEF Scan, Take
      <4> HIDE DEF u
      <4> QED
        BY <1>1, <4>1, <4>2
    <3>2. CASE Receivable = {}
      BY <1>5, <3>2 DEF Scan
    <3> QED
      BY <3>1, <3>2
  <2>3. \A x \in Workers : /\ Sends(x, s)' <=> Sends(x, s)
                           /\ Sends(x, s) => sent_buf'[x] = sent_buf[x]
    BY <1>1, <1>2, <2>1 DEF Sends
  <2>4. Broken(s) => Broken(s)'
    BY <1>2, <1>3, <2>1, <2>2 DEF Broken
  <2>5. outgoing_bufs' = outgoing_bufs
    BY <1>5 DEF Scan
  <2> QED
    BY <1>3, <2>3, <2>4, <2>5, Undisturbed
<1> QED
  BY <1>4, <1>5

\* A job that goes on, or fails, breaks at most its own connection.
LEMMA WorkContinues ==
  ASSUME IInv, Begun, NEW w \in Workers, Work(w), NEW s \in Sockets, Continued(s)
  PROVE  Continued(s)'
<1>1. /\ pc \in [Workers -> Places] /\ upto \in [Workers -> BOOLEAN]
      /\ sock \in [Workers -> Sockets \cup {NULL}] /\ NULL \notin Sockets
      /\ sent_buf \in [Workers -> 0 .. MaxQueued] /\ result \in [Workers -> {"ready", "errored"}]
      /\ sockets_locked \in [Sockets -> {"none", "ready", "locked", "errored", "interrupt"}]
      /\ wire \in [Sockets -> Seq(Pieces)]
  BY PlacesOfThreads DEF IInv, TypeOK
<1>2. sock[w] \in Sockets /\ sockets_locked[sock[w]] \in {"locked", "interrupt"}
  BY WorkersHold DEF Work, CheckLocked, Write, Receive, Deliver, CheckSocketResult, Working
<1>3. UNCHANGED <<outgoing_bufs, queued, bad_sockets>>
  BY DEF Work, CheckLocked, Write, Receive, Deliver, CheckSocketResult
<1>4. CASE CheckLocked(w) \/ Receive(w) \/ Deliver(w)
  <2>1. /\ UNCHANGED <<wire, sock, sent_buf, upto, sockets_locked>>
        /\ \A x \in Workers \ {w} : pc'[x] = pc[x] /\ result'[x] = result[x]
        /\ pc[w] # "result"
    BY <1>1, <1>4 DEF CheckLocked, Receive, Deliver, Result
  <2>2. Broken(s) => Broken(s)'
    BY <1>3, <2>1 DEF Broken
  <2>3. CASE CheckLocked(w) /\ pc'[w] = "result"
    <3>1. CASE s = sock[w]
      <4>1. result'[w] = "errored"
        BY <1>1, <2>3 DEF CheckLocked, Result
      <4> QED
        BY <2>1, <2>3, <3>1, <4>1 DEF Continued, Broken
    <3>2. CASE s # sock[w]
      <4>1. \A x \in Workers : Sends(x, s)' <=> Sends(x, s)
        BY <2>1, <3>2 DEF Sends
      <4> QED
        BY <1>3, <2>1, <2>2, <4>1, Undisturbed
    <3> QED
      BY <3>1, <3>2
  <2>4. CASE ~(CheckLocked(w) /\ pc'[w] = "result")
    <3>1. pc'[w] # "result" \/ sent_buf[w] = 0
      BY <1>4, <2>4 DEF Receive, Deliver, IInv, Employed
    <3>2. \A x \in Workers : Sends(x, s)' <=> Sends(x, s)
      BY <2>1, <3>1 DEF Sends
    <3> QED
      BY <1>3, <2>1, <2>2, <3>2, Undisturbed
  <2> QED
    BY <2>3, <2>4
<1>5. CASE Write(w)
  <2>1. CASE s = sock[w]
    BY <1>5, <2>1, WriteContinues
  <2>2. CASE s # sock[w]
    <3>1. /\ UNCHANGED <<sock, sent_buf, sockets_locked>> /\ pc[w] # "result"
          /\ \A x \in Workers \ {w} : pc'[x] = pc[x] /\ result'[x] = result[x] /\ upto'[x] = upto[x]
          /\ wire'[s] = wire[s]
      BY <1>1, <1>2, <1>5, <2>2 DEF Write, Result, Put
    <3>2. \A x \in Workers : /\ Sends(x, s)' <=> Sends(x, s)
                             /\ Sends(x, s) => upto'[x] = upto[x]
      BY <2>2, <3>1 DEF Sends
    <3>3. Broken(s) => Broken(s)'
      BY <1>3, <3>1 DEF Broken
    <3> QED
      BY <1>3, <3>1, <3>2, <3>3, Undisturbed
  <2> QED
    BY <2>1, <2>2
<1>6. CASE CheckSocketResult(w)
  <2>1. /\ wire' = wire /\ pc[w] = "result" /\ pc'[w] = "enter" /\ sock'[w] = NULL
        /\ \A x \in Workers \ {w} : /\ pc'[x] = pc[x] /\ sock'[x] = sock[x]
                                    /\ sent_buf'[x] = sent_buf[x] /\ upto'[x] = upto[x]
                                    /\ result'[x] = result[x]
        /\ sockets_locked'[sock[w]] = result[w]
        /\ \A t \in Sockets \ {sock[w]} : sockets_locked'[t] = sockets_locked[t]
    BY <1>1, <1>2, <1>6 DEF CheckSocketResult
  <2>2. \A x \in Workers : /\ Sends(x, s)' <=> Sends(x, s)
                           /\ Sends(x, s) => sent_buf'[x] = sent_buf[x] /\ upto'[x] = upto[x]
    BY <1>1, <2>1 DEF Sends
  <2>3. Broken(s) => Broken(s)'
    <3> SUFFICES ASSUME Broken(s) PROVE Broken(s)'
      OBVIOUS
    <3>1. CASE s \in bad_sockets
      BY <1>3, <3>1 DEF Broken
    <3>2. CASE sockets_locked[s] = "errored"
      BY <1>2, <2>1, <3>2 DEF Broken
    <3>3. CASE \E x \in Workers : sock[x] = s /\ pc[x] = "result" /\ result[x] = "errored"
      <4>1. PICK x \in Workers : sock[x] = s /\ pc[x] = "result" /\ result[x] = "errored"
        BY <3>3
      <4>2. CASE x = w
        BY <2>1, <4>1, <4>2 DEF Broken
      <4>3. CASE x # w
        BY <2>1, <4>1, <4>3 DEF Broken
      <4> QED
        BY <4>2, <4>3
    <3> QED
      BY <3>1, <3>2, <3>3 DEF Broken
  <2> QED
    BY <1>3, <2>1, <2>2, <2>3, Undisturbed
<1> QED
  BY <1>4, <1>5, <1>6 DEF Work

\* What the main thread queues comes next, and what it closes begins again.
LEMMA CallContinues ==
  ASSUME IInv, Lined, NEW s \in Sockets, Continued(s),
         \/ \E t \in Sockets : QueueBuffer(t) \/ CloseSocket(t)
         \/ DetectError
  PROVE  Continued(s)'
<1>1. /\ pc \in [Workers -> Places] /\ queued \in [Sockets -> 0 .. MaxQueued]
      /\ sockets_locked \in [Sockets -> {"none", "ready", "locked", "errored", "interrupt"}]
      /\ outgoing_bufs \in Seq(Buffers) /\ Ordered(outgoing_bufs)
      /\ wire \in [Sockets -> Seq(Pieces)]
  BY DEF IInv, TypeOK, Lined
<1>2. ASSUME NEW t \in Sockets, QueueBuffer(t) PROVE Continued(s)'
  <2> DEFINE b == [sock |-> t, id |-> queued[t] + 1]
  <2>1. /\ outgoing_bufs' = Append(outgoing_bufs, b) /\ t \notin bad_sockets
        /\ queued' = [queued EXCEPT ![t] = @ + 1] /\ UNCHANGED <<bad_sockets, wire, locals>>
        /\ queued[t] < MaxQueued
    BY <1>2 DEF QueueBuffer
  <2>2. \A x \in Workers : pc'[x] = "result" <=> pc[x] = "result"
    BY <1>1, <1>2 DEF QueueBuffer, Announce, Sleeping
  <2>3. Broken(s) => Broken(s)'
    BY <1>1, <1>2, <2>1, <2>2 DEF QueueBuffer, Announce, Broken
  <2>4. \A x \in Workers : Sends(x, s)' <=> Sends(x, s)
    BY <2>1, <2>2 DEF Sends
  <2>5. b \in Buffers /\ b.sock = t /\ b.id = queued[t] + 1
    BY <1>1, <2>1 DEF Buffers, Messages
  <2> HIDE DEF b
  <2>6. Ids(outgoing_bufs', s) = IF b.sock = s THEN Ids(outgoing_bufs, s) \cup {b.id}
                                                ELSE Ids(outgoing_bufs, s)
    <3>1. \A n \in Ids(outgoing_bufs, b.sock) : n < b.id
      BY <2>5, AllBefore
    <3> QED
      BY <1>1, <2>1, <2>5, <3>1, OrderAppended
  <2>7. CASE s # t
    BY <1>1, <2>1, <2>3, <2>4, <2>5, <2>6, <2>7, Undisturbed
  <2>8. CASE s = t
    <3> SUFFICES ASSUME ~Broken(s)' PROVE Follows(s)'
      BY DEF Continued
    <3>1. ASSUME NEW k \in Nat, Remain(s, k) PROVE Remain(s, k)'
      <4>1. /\ queued[s] \in Nat /\ queued'[s] = queued[s] + 1 /\ k <= queued[s]
            /\ Ids(outgoing_bufs', s) = ((k + 1)..queued[s]) \cup {queued[s] + 1}
        BY <1>1, <2>1, <2>5, <2>6, <2>8, <3>1 DEF Remain
      <4>2. ((k + 1)..queued[s]) \cup {queued[s] + 1} = (k + 1)..(queued[s] + 1)
        BY <4>1
      <4> QED
        BY <4>1, <4>2 DEF Remain
    <3>2. CASE \E w \in Workers : Sends(w, s) /\ UnderWay(w, s)
      <4>1. PICK w \in Workers : Sends(w, s) /\ UnderWay(w, s)
        BY <3>2
      <4>2. sent_buf[w] \in Nat
        BY DEF IInv, TypeOK
      <4>3. Remain(s, sent_buf[w])'
        <5> DEFINE k == sent_buf[w]
        <5>1. k \in Nat /\ Remain(s, k)
          BY <4>1, <4>2 DEF UnderWay
        <5>2. PICK m \in Nat : m = k /\ Remain(s, m)
          BY <5>1
        <5>3. Remain(s, m)' /\ sent_buf'[w] = m
          BY <2>1, <3>1, <5>2
        <5> QED
          BY <5>3 DEF Remain
      <4>4. UnderWay(w, s)'
        BY <2>1, <4>1, <4>3 DEF UnderWay, Ends, Remain
      <4> QED
        BY <2>4, <4>1, <4>4 DEF Follows
    <3>3. CASE /\ \A w \in Workers : ~Sends(w, s)
               /\ \E k \in Nat : Ends(s, k) /\ Remain(s, k)
      <4>1. PICK k \in Nat : Ends(s, k) /\ Remain(s, k)
        BY <3>3
      <4>2. Ends(s, k)' /\ Remain(s, k)'
        BY <2>1, <3>1, <4>1 DEF Ends
      <4> QED
        BY <2>4, <3>3, <4>2 DEF Follows
    <3> QED
      BY <2>3, <3>2, <3>3 DEF Continued, Follows
  <2> QED
    BY <2>7, <2>8
<1>3. ASSUME NEW t \in Sockets, CloseSocket(t) PROVE Continued(s)'
  <2>1. UNCHANGED <<pc, locals>>
    BY <1>3 DEF CloseSocket
  <2>2. CASE sockets_locked[t] \in {"none", "ready", "errored"}
    <3>1. /\ sockets_locked' = [sockets_locked EXCEPT ![t] = "none"] /\ RemoveBuffers(t)
          /\ bad_sockets' = bad_sockets \ {t} /\ queued' = [queued EXCEPT ![t] = 0]
          /\ wire' = [wire EXCEPT ![t] = <<>>]
      BY <1>3, <2>2 DEF CloseSocket
    <3>2. /\ Ids(outgoing_bufs', t) = {}
          /\ s # t => Ids(outgoing_bufs', s) = Ids(outgoing_bufs, s)
      BY <1>1, <3>1, BuffersRemoved
    <3>3. CASE s # t
      <4>1. Broken(s) => Broken(s)'
        BY <1>1, <2>1, <3>1, <3>3 DEF Broken
      <4>2. \A x \in Workers : Sends(x, s)' <=> Sends(x, s)
        BY <2>1 DEF Sends
      <4> QED
        BY <1>1, <2>1, <3>1, <3>2, <3>3, <4>1, <4>2, Undisturbed
    <3>4. CASE s = t
      <4>1. \A x \in Workers : sock[x] # t
        BY <2>2 DEF IInv, HeldByOne
      <4>2. \A x \in Workers : ~Sends(x, s)'
        BY <2>1, <3>4, <4>1 DEF Sends
      <4>3. Ends(s, 0)' /\ queued'[s] = 0 /\ 1..0 = {}
        BY <1>1, <3>1, <3>4 DEF Ends
      <4>4. Remain(s, 0)'
        BY <3>2, <3>4, <4>3 DEF Remain
      <4> QED
        BY <4>2, <4>3, <4>4 DEF Continued, Follows
    <3> QED
      BY <3>3, <3>4
  <2>3. CASE sockets_locked[t] \in {"locked", "interrupt"}
    <3>1. /\ sockets_locked' = [sockets_locked EXCEPT ![t] = "interrupt"]
          /\ UNCHANGED <<outgoing_bufs, bad_sockets, queued, wire>>
      BY <1>3, <2>3 DEF CloseSocket
    <3>2. Broken(s) => Broken(s)'
      BY <1>1, <2>1, <2>3, <3>1 DEF Broken
    <3>3. \A x \in Workers : Sends(x, s)' <=> Sends(x, s)
      BY <2>1 DEF Sends
    <3> QED
      BY <2>1, <3>1, <3>2, <3>3, Undisturbed
  <2> QED
    BY <1>3, <2>2, <2>3 DEF CloseSocket
<1>4. CASE DetectError
  <2>1. UNCHANGED <<pc, locals, queued, wire>>
    BY <1>4 DEF DetectError
  <2>2. \A x \in Workers : Sends(x, s)' <=> Sends(x, s)
    BY <2>1 DEF Sends
  <2>3. CASE Errored = {}
    <3>1. UNCHANGED <<outgoing_bufs, bad_sockets, sockets_locked>>
      BY <1>4, <2>3 DEF DetectError
    <3>2. Broken(s) => Broken(s)'
      BY <2>1, <3>1 DEF Broken
    <3> QED
      BY <2>1, <2>2, <3>1, <3>2, Undisturbed
  <2>4. ASSUME NEW t \in Errored, RemoveBuffers(t), bad_sockets' = bad_sockets \cup {t},
               sockets_locked' = [sockets_locked EXCEPT ![t] = "none"]
        PROVE  Continued(s)'
    <3>1. CASE s = t
      BY <2>4, <3>1 DEF Continued, Broken
    <3>2. CASE s # t
      <4>1. Ids(outgoing_bufs', s) = Ids(outgoing_bufs, s)
        BY <1>1, <2>4, <3>2, BuffersRemoved DEF Errored
      <4>2. Broken(s) => Broken(s)'
        BY <1>1, <2>1, <2>4, <3>2 DEF Broken
      <4> QED
        BY <2>1, <2>2, <4>1, <4>2, Undisturbed
    <3> QED
      BY <3>1, <3>2
  <2> QED
    BY <1>4, <2>3, <2>4 DEF DetectError
<1> QED
  BY <1>2, <1>3, <1>4

\* What a connection has got, what is being sent and what waits go together after a
\* step.
LEMMA ContinuedKeeps ==
  ASSUME IInv, Lined, Begun, [Next]_vars, NEW s \in Sockets, Continued(s)
  PROVE  Continued(s)'
<1>1. CASE Quiet
  <2>1. \A x \in Workers : Sends(x, s)' <=> Sends(x, s)
    BY <1>1 DEF Quiet, Sends
  <2>2. Broken(s) => Broken(s)'
    BY <1>1 DEF Quiet, Broken
  <2>3. UNCHANGED <<outgoing_bufs, queued, wire, sent_buf, upto>>
    BY <1>1 DEF Quiet
  <2> QED
    BY <2>1, <2>2, <2>3, Undisturbed
<1>2. ASSUME NEW w \in Workers, Scan(w) PROVE Continued(s)'
  BY <1>2, ScanContinues
<1>3. ASSUME NEW w \in Workers, Work(w) PROVE Continued(s)'
  BY <1>3, WorkContinues
<1>4. CASE (\E t \in Sockets : QueueBuffer(t) \/ CloseSocket(t)) \/ DetectError
  BY <1>4, CallContinues
<1> QED
  BY <1>1, <1>2, <1>3, <1>4, QuietSteps

\* A piece that is written follows the one before it.
LEMMA IntactKeeps ==
  ASSUME IInv, Begun, \A s \in Sockets : Continued(s), StreamIntact, [Next]_vars
  PROVE  StreamIntact'
<1> DEFINE Good(q, i) == LET p == q[i]
                             o == q[i - 1]
                         IN CASE i = 1 -> p.id = 1 /\ p.part # "tail"
                              [] i > 1 /\ p.part = "tail" -> o = [id |-> p.id, part |-> "head"]
                              [] OTHER -> p.id = o.id + 1 /\ o.part # "head"
<1>1. wire \in [Sockets -> Seq(Pieces)]
  BY DEF IInv, TypeOK
<1>2. \A s \in Sockets : \A i \in DOMAIN wire[s] : Good(wire[s], i)
  BY DEF StreamIntact
<1>3. SUFFICES \A s \in Sockets : \A i \in DOMAIN wire'[s] : Good(wire'[s], i)
  BY DEF StreamIntact
<1>4. CASE wire' = wire
  BY <1>2, <1>4
<1>5. ASSUME NEW w \in Workers, Write(w), NEW s \in Sockets, NEW i \in DOMAIN wire'[s]
      PROVE  Good(wire'[s], i)
  <2>1. /\ sock[w] \in Sockets /\ sent_buf[w] \in 1..MaxQueued /\ upto[w] \in BOOLEAN
        /\ UnderWay(w, sock[w])
    <3>1. pc[w] = "writing" /\ sock[w] \in Sockets
      BY <1>5, WorkersHold DEF Write, Working
    <3>2. Continued(sock[w])
      BY <3>1
    <3> QED
      BY <3>1, <3>2, WriterUnderWay
  <2>2. ASSUME NEW part \in {"whole", "head", "tail"}, Put(w, part),
               part = "tail" <=> upto[w]
        PROVE  Good(wire'[s], i)
    <3> DEFINE q == wire[s]
               p == [id |-> sent_buf[w], part |-> part]
    <3>1. p \in Pieces /\ q \in Seq(Pieces) /\ p.id = sent_buf[w] /\ p.part = part
      BY <1>1, <2>1 DEF Pieces, Messages
    <3>2. wire'[s] = IF s = sock[w] THEN Append(q, p) ELSE q
      BY <1>1, <2>1, <2>2 DEF Put
    <3>3. CASE s # sock[w]
      BY <1>2, <1>5, <3>2, <3>3
    <3>4. CASE s = sock[w]
      <4> DEFINE n == Len(q)
      <4> HIDE DEF p, Good
      <4>1. /\ wire'[s] = Append(q, p) /\ n \in Nat /\ DOMAIN q = 1..n
            /\ DOMAIN wire'[s] = 1..(n + 1)
            /\ wire'[s][n + 1] = p /\ \A j \in 1..n : wire'[s][j] = q[j]
            /\ q # <<>> => n > 0 /\ Last(q) = q[n]
            /\ q = <<>> => n = 0
        BY <3>1, <3>2, <3>4, PieceAppended
      <4>2. UnderWay(w, s)
        BY <2>1, <3>4
      <4> HIDE DEF n
      <4>3. CASE i # n + 1
        <5>1. i \in 1..n /\ (i > 1 => i - 1 \in 1..n)
          BY <1>5, <4>1, <4>3
        <5>2. wire'[s][i] = q[i] /\ (i > 1 => wire'[s][i - 1] = q[i - 1]) /\ Good(q, i)
          BY <1>2, <4>1, <5>1
        <5>3. i = 1 \/ i > 1
          BY <4>1, <5>1
        <5> QED
          BY <5>2, <5>3 DEF Good
      <4>4. CASE i = n + 1
        <5>1. wire'[s][i] = p /\ i \in Nat
          BY <4>1, <4>4
        <5>2. CASE q = <<>>
          <6>1. i = 1 /\ ~upto[w] /\ sent_buf[w] - 1 = 0
            BY <4>1, <4>2, <4>4, <5>2 DEF UnderWay, Ends
          <6>2. p.id = 1 /\ p.part # "tail"
            BY <2>1, <2>2, <3>1, <6>1
          <6> QED
            BY <5>1, <6>1, <6>2 DEF Good
        <5>3. CASE q # <<>>
          <6>1. i > 1 /\ i # 1 /\ i - 1 = n /\ n \in 1..n
            BY <4>1, <4>4, <5>3
          <6>2. wire'[s][i - 1] = Last(q)
            BY <4>1, <5>3, <6>1
          <6>3. CASE upto[w]
            <7>1. Last(q) = [id |-> p.id, part |-> "head"] /\ p.part = "tail"
              BY <2>2, <3>1, <4>2, <6>3 DEF UnderWay
            <7> QED
              BY <5>1, <6>1, <6>2, <7>1 DEF Good
          <6>4. CASE ~upto[w]
            <7>1. Last(q).id = sent_buf[w] - 1 /\ Last(q).part # "head" /\ p.part # "tail"
              BY <2>2, <3>1, <4>2, <5>3, <6>4 DEF UnderWay, Ends
            <7>2. p.id = Last(q).id + 1
              BY <2>1, <3>1, <7>1
            <7> QED
              BY <5>1, <6>1, <6>2, <7>1, <7>2 DEF Good
          <6> QED
            BY <6>3, <6>4
        <5> QED
          BY <5>2, <5>3
      <4> QED
        BY <4>3, <4>4
    <3> QED
      BY <3>3, <3>4
  <2>3. CASE Put(w, IF upto[w] THEN "tail" ELSE "whole")
    <3> HIDE DEF Good
    <3>1. CASE upto[w]
      BY <2>2, <2>3, <3>1
    <3>2. CASE ~upto[w]
      BY <2>2, <2>3, <3>2
    <3> QED
      BY <3>1, <3>2
  <2>4. CASE ~upto[w] /\ Put(w, "head")
    <3> HIDE DEF Good
    <3> QED
      BY <2>2, <2>4
  <2>5. CASE wire' = wire
    BY <1>2, <1>5, <2>5
  <2> HIDE DEF Good
  <2> QED
    BY <1>5, <2>3, <2>4, <2>5 DEF Write
<1>6. ASSUME NEW t \in Sockets, CloseSocket(t), NEW s \in Sockets, NEW i \in DOMAIN wire'[s]
      PROVE  Good(wire'[s], i)
  <2>1. wire'[s] = wire[s] \/ wire'[s] = <<>>
    <3>1. wire' = wire \/ wire' = [wire EXCEPT ![t] = <<>>]
      BY <1>6 DEF CloseSocket
    <3> HIDE DEF Good
    <3> QED
      BY <1>1, <3>1
  <2>2. wire'[s] = wire[s]
    BY <1>6, <2>1
  <2> QED
    BY <1>2, <1>6, <2>2
<1> HIDE DEF Good
<1> QED
  BY <1>3, <1>4, <1>5, <1>6, WireIsChangedBy

\* Nothing is on a wire when the program starts.
LEMMA InitStreams == Init => Streaming
<1> SUFFICES ASSUME Init PROVE Streaming
  OBVIOUS
<1>1. Lined /\ Begun /\ StreamIntact
  BY DEF Init, Lined, Begun, StreamIntact, Ordered, Ids
<1>2. ASSUME NEW s \in Sockets PROVE Continued(s)
  <2>1. Ends(s, 0) /\ queued[s] = 0 /\ Ids(outgoing_bufs, s) = {}
    BY DEF Init, Ends, Ids
  <2>2. (0 + 1)..0 = {}
    OBVIOUS
  <2>3. Remain(s, 0)
    BY <2>1, <2>2 DEF Remain
  <2>4. \A w \in Workers : ~Sends(w, s)
    BY DEF Init, Sends
  <2> QED
    BY <2>1, <2>3, <2>4 DEF Continued, Follows
<1> QED
  BY <1>1, <1>2 DEF Streaming

\* What the peer reads from a connection is a prefix of what was queued to it: whole
\* messages, in order, none twice, none after a part of one (process_queue, send_buffer,
\* the bad_sockets of network::send_data).
THEOREM StreamStaysIntact == Spec => []StreamIntact
<1>1. IInv /\ Streaming /\ [Next]_vars => Streaming'
  BY LinedKeeps, BegunKeeps, ContinuedKeeps, IntactKeeps DEF Streaming
<1>2. Streaming => StreamIntact
  BY DEF Streaming
<1> QED
  BY <1>1, <1>2, InitStreams, AlwaysIInv, PTL DEF Spec

-----------------------------------------------------------------------------
(* Work that a thread will look for. *)

\* A thread that is about to wait has seen that there is no work.
Blocked == \A w \in Workers : pc[w] = "blocking" => Sendable = {} /\ Receivable = {}

\* The queues and the sockets, on which what can be done depends.
queues == <<sockets_locked, outgoing_bufs, pending_receives>>

\* Nobody changes them between the search of a thread and its wait.
LEMMA BlockedKeeps == IInv /\ Blocked /\ [Next]_vars => Blocked'
<1> SUFFICES ASSUME IInv, Blocked, [Next]_vars, NEW v \in Workers, pc'[v] = "blocking"
             PROVE  Sendable' = {} /\ Receivable' = {}
  BY DEF Blocked
<1>1. /\ pc \in [Workers -> Places] /\ to_clear = {w \in Workers : pc[w] = "exited"}
      /\ NULL \notin Workers
  BY PlacesOfThreads
<1>2. ASSUME pc[v] = "blocking", UNCHANGED queues PROVE Sendable' = {} /\ Receivable' = {}
  BY <1>2 DEF Blocked, queues, Sendable, Receivable
<1>3. ASSUME pc[v] = "blocking" PROVE mutex = v
  BY <1>3 DEF IInv, Mutexed
<1>4. CASE UNCHANGED vars
  BY <1>2, <1>4 DEF queues
<1>5. ASSUME NEW w \in Workers, Scan(w) PROVE Sendable' = {} /\ Receivable' = {}
  <2>1. mutex = w /\ pc[w] = "scanning"
    BY <1>5 DEF Scan, IInv, Mutexed
  <2>2. v = w
    <3> SUFFICES ASSUME v # w PROVE FALSE
      OBVIOUS
    <3>1. pc'[v] = pc[v]
      BY <1>1, <1>5 DEF Scan, Take
    <3> QED
      BY <1>3, <2>1, <3>1
  <2>3. Sendable = {} /\ Receivable = {} /\ UNCHANGED queues
    BY <1>1, <1>5, <2>1, <2>2 DEF Scan, Take, queues
  <2> QED
    BY <2>3 DEF queues, Sendable, Receivable
<1>6. ASSUME NEW w \in Workers, Enter(w) \/ Reap(w) PROVE Sendable' = {} /\ Receivable' = {}
  <2>1. UNCHANGED queues
    BY <1>6 DEF Enter, Reap, queues
  <2>2. \/ pc' = [pc EXCEPT ![w] = "reaping"]
        \/ \E z \in {{}, to_clear}, p \in {"exited", "scanning"} :
             pc' = [q \in Workers |-> IF q = w THEN p ELSE IF q \in z THEN "absent" ELSE pc[q]]
    BY <1>6 DEF Enter, Reap, Admit
  <2>3. pc[v] = "blocking"
    BY <1>1, <2>2
  <2> QED
    BY <1>2, <2>1, <2>3
<1>7. ASSUME NEW w \in Workers, Block(w) \/ Resume(w) \/ Spawn(w) \/ SpuriousWakeup(w)
      PROVE  Sendable' = {} /\ Receivable' = {}
  <2>1. UNCHANGED queues /\ pc[v] = "blocking"
    BY <1>1, <1>7 DEF Block, Resume, Spawn, SpuriousWakeup, queues
  <2> QED
    BY <1>2, <2>1
<1>8. ASSUME NEW w \in Workers, CheckLocked(w) \/ Write(w) \/ Receive(w) \/ Deliver(w)
      PROVE  Sendable' = {} /\ Receivable' = {}
  <2>1. UNCHANGED queues /\ pc[v] = "blocking"
    BY <1>1, <1>8 DEF CheckLocked, Write, Receive, Deliver, Result, queues
  <2> QED
    BY <1>2, <2>1
<1>9. ASSUME NEW w \in Workers, CheckSocketResult(w) PROVE FALSE
  <2>1. pc[v] = "blocking" /\ mutex = NULL
    BY <1>1, <1>9 DEF CheckSocketResult
  <2> QED
    BY <1>1, <1>3, <2>1
<1>10. CASE Call
  <2>1. ASSUME NEW s \in Sockets, QueueBuffer(s) \/ ReceiveData(s)
        PROVE  pc[v] = "blocking" /\ mutex = NULL
    BY <1>1, <2>1 DEF QueueBuffer, ReceiveData, Announce, CanCall, Sleeping
  <2>2. ASSUME NEW s \in Sockets, CloseSocket(s) PROVE pc[v] = "blocking" /\ mutex = NULL
    BY <2>2 DEF CloseSocket
  <2>3. ASSUME NEW i \in DOMAIN received_data_queue, GetReceivedData(i)
        PROVE  pc[v] = "blocking" /\ mutex = NULL
    BY <2>3 DEF GetReceivedData, CanCall
  <2>4. ASSUME DetectError PROVE pc[v] = "blocking" /\ mutex = NULL
    BY <2>4 DEF DetectError, CanCall
  <2> QED
    BY <1>1, <1>3, <1>10, <2>1, <2>2, <2>3, <2>4 DEF Call
<1>11. CASE Start \/ Join
  BY <1>1, <1>11 DEF Start, Join
<1>12. CASE Disconnect \/ Unmanage \/ ResetErrors \/ NotifyAll
  <2>1. UNCHANGED queues /\ pc[v] = "blocking"
    BY <1>1, <1>12 DEF Disconnect, Unmanage, ResetErrors, NotifyAll, Sleeping, queues
  <2> QED
    BY <1>2, <2>1
<1> QED
  BY <1>4, <1>5, <1>6, <1>7, <1>8, <1>9, <1>10, <1>11, <1>12 DEF Next, Turn, Work, Shutdown

\* A thread that comes back for work finds that not enough wait, when the pool may not
\* have more threads than may wait.
LEMMA NeverEnough ==
  ASSUME IInv, MinThreads > 0, MaxThreads \in 1..MinThreads,
         NEW w \in Workers, pc[w] \in {"enter", "reaping"}
  PROVE  ~Enough
<1>1. /\ waiting_threads = Cardinality(Waiters) /\ threads \subseteq Workers
      /\ \A x \in Workers : x \in threads <=> pc[x] # "absent"
  BY PlacesOfThreads DEF IInv, PoolBounded
<1>2. IsFiniteSet(threads) /\ Cardinality(threads) \in Nat
  BY <1>1, FS_Subset, FS_CardinalityType
<1>3. Cardinality(threads) <= MinThreads
  BY <1>2 DEF IInv, PoolBounded
<1>4. w \in Workers \ Waiters /\ Waiters \cup {w} \subseteq threads
  BY <1>1 DEF Waiters
<1>5. Cardinality(Waiters \cup {w}) = Cardinality(Waiters) + 1 /\ Cardinality(Waiters) \in Nat
  BY <1>4, WaitersAreFinite
<1>6. Cardinality(Waiters \cup {w}) <= Cardinality(threads)
  BY <1>2, <1>4, FS_Subset
<1> QED
  BY <1>1, <1>2, <1>3, <1>5, <1>6 DEF Enough

\* Someone is up and about.
Awake(w) == pc[w] \notin {"absent", "exited", "waiting"}

\* A socket that is in use has a thread that is awake.
LEMMA HolderIsAwake ==
  ASSUME IInv, NEW s \in Sockets, sockets_locked[s] \in {"locked", "interrupt"}
  PROVE  \E w \in Workers : Awake(w)
<1>1. PICK w \in Workers : sock[w] = s
  BY DEF IInv, HeldByOne
<1>2. sock[w] # NULL
  BY <1>1
<1> QED
  BY <1>2 DEF IInv, Employed, Working, Awake

\* Work that appears wakes a thread, unless one is awake.
LEMMA AnnounceWakes ==
  ASSUME IInv, main = "up", MinThreads > 0, NEW s \in Sockets, Announce(s)
  PROVE  \E w \in Workers : Awake(w)'
<1>1. /\ pc \in [Workers -> Places]
      /\ sockets_locked \in [Sockets -> {"none", "ready", "locked", "errored", "interrupt"}]
  BY DEF IInv, TypeOK
<1>2. CASE \E w \in Sleeping : pc' = [pc EXCEPT ![w] = "woken"]
  BY <1>1, <1>2 DEF Sleeping, Awake
<1>3. CASE sockets_locked[s] \notin {"none", "ready", "errored"} /\ pc' = pc
  <2>1. \E w \in Workers : Awake(w)
    BY <1>1, <1>3, HolderIsAwake
  <2> QED
    BY <1>3, <2>1 DEF Awake
<1>4. CASE Sleeping = {} /\ pc' = pc
  <2>1. PICK w \in Workers : pc[w] \notin {"absent", "exited"}
    BY DEF IInv, PoolBounded
  <2> QED
    BY <1>4, <2>1 DEF Sleeping, Awake
<1> QED
  BY <1>2, <1>3, <1>4 DEF Announce

\* Removing what belongs to a socket that was closed or failed makes no work.
LEMMA RemovingMakesNoWork ==
  ASSUME IInv, NEW s \in Sockets, RemoveBuffers(s),
         pending_receives' \in Others(pending_receives, s),
         sockets_locked' = [sockets_locked EXCEPT ![s] = "none"],
         Sendable' \cup Receivable' # {}
  PROVE  Sendable \cup Receivable # {}
<1>1. /\ outgoing_bufs \in Seq(Buffers) /\ pending_receives \in Seq(Sockets)
      /\ sockets_locked \in [Sockets -> {"none", "ready", "locked", "errored", "interrupt"}]
  BY DEF IInv, TypeOK
<1>2. CASE Sendable' # {}
  <2>1. PICK i \in DOMAIN outgoing_bufs' : sockets_locked'[outgoing_bufs'[i].sock] = "ready"
    BY <1>2 DEF Sendable
  <2>2. PICK j \in DOMAIN outgoing_bufs :
            outgoing_bufs[j].sock # s /\ outgoing_bufs'[i] = outgoing_bufs[j]
    BY RemovedBuffers
  <2>3. outgoing_bufs[j] \in Buffers
    BY <1>1
  <2>4. outgoing_bufs[j].sock \in Sockets
    BY <2>3, BufferSockets
  <2>5. sockets_locked[outgoing_bufs[j].sock] = "ready"
    BY <1>1, <2>1, <2>2, <2>4
  <2> QED
    BY <2>5 DEF Sendable
<1>3. CASE Receivable' # {}
  <2>1. PICK i \in DOMAIN pending_receives' : sockets_locked'[pending_receives'[i]] = "ready"
    BY <1>3 DEF Receivable
  <2>2. PICK j \in DOMAIN pending_receives :
            pending_receives'[i] # s /\ pending_receives'[i] = pending_receives[j]
    BY <1>1, OthersAreOther
  <2>3. pending_receives[j] \in Sockets
    BY <1>1
  <2>4. sockets_locked[pending_receives[j]] = "ready"
    BY <1>1, <2>1, <2>2, <2>3
  <2> QED
    BY <2>4 DEF Receivable
<1> QED
  BY <1>2, <1>3

\* While work can be done somebody is awake, after each step.
LEMMA NoStrandedKeeps ==
  ASSUME IInv, Blocked, NoStranded, [Next]_vars, MinThreads > 0, MaxThreads \in 1..MinThreads
  PROVE  NoStranded'
<1> SUFFICES ASSUME main' = "up", Sendable' \cup Receivable' # {}
             PROVE  \E w \in Workers : Awake(w)'
  BY DEF NoStranded, Awake
<1>1. /\ pc \in [Workers -> Places] /\ to_clear = {w \in Workers : pc[w] = "exited"}
      /\ managed <=> main \in {"up", "closing"}
  BY PlacesOfThreads DEF IInv, Living
<1>2. ASSUME main = "up", Sendable \cup Receivable # {} PROVE \E w \in Workers : Awake(w)
  BY <1>2 DEF NoStranded, Awake
<1>3. ASSUME main = "up", pc' = pc, UNCHANGED queues PROVE \E w \in Workers : Awake(w)'
  <2>1. Sendable \cup Receivable # {}
    BY <1>3 DEF queues, Sendable, Receivable
  <2> QED
    BY <1>2, <1>3, <2>1 DEF Awake
<1>4. CASE UNCHANGED vars
  BY <1>3, <1>4 DEF queues
<1>5. ASSUME NEW w \in Workers, Enter(w) \/ Reap(w) PROVE Awake(w)'
  <2>1. ~Enough
    BY <1>5, NeverEnough DEF Enter, Reap
  <2> QED
    BY <1>1, <1>5, <2>1 DEF Enter, Reap, Admit, Awake
<1>6. ASSUME NEW w \in Workers, Scan(w) PROVE Awake(w)'
  BY <1>1, <1>6 DEF Scan, Take, Awake
<1>7. ASSUME NEW w \in Workers, Block(w) PROVE FALSE
  <2>1. Sendable = {} /\ Receivable = {} /\ UNCHANGED queues
    BY <1>7 DEF Block, Blocked, queues
  <2> QED
    BY <2>1 DEF queues, Sendable, Receivable
<1>8. ASSUME NEW w \in Workers, Resume(w) \/ Spawn(w) \/ SpuriousWakeup(w)
      PROVE  \E x \in Workers : Awake(x)'
  BY <1>1, <1>8 DEF Resume, Spawn, SpuriousWakeup, Awake
<1>9. ASSUME NEW w \in Workers, Work(w) PROVE Awake(w)'
  BY <1>1, <1>9 DEF Work, CheckLocked, Write, Receive, Deliver, CheckSocketResult, Result, Awake
<1>10. ASSUME NEW s \in Sockets, QueueBuffer(s) \/ ReceiveData(s)
       PROVE  \E w \in Workers : Awake(w)'
  BY <1>10, AnnounceWakes DEF QueueBuffer, ReceiveData, CanCall
<1>11. ASSUME NEW s \in Sockets, CloseSocket(s) PROVE \E w \in Workers : Awake(w)'
  <2>1. pc' = pc /\ main = "up" /\ pending_receives' \in Others(pending_receives, s)
    BY <1>11 DEF CloseSocket
  <2>2. CASE sockets_locked[s] \in {"locked", "interrupt"}
    <3>1. \E w \in Workers : Awake(w)
      BY <2>2, HolderIsAwake
    <3> QED
      BY <2>1, <3>1 DEF Awake
  <2>3. CASE sockets_locked' = [sockets_locked EXCEPT ![s] = "none"] /\ RemoveBuffers(s)
    <3>1. \E w \in Workers : Awake(w)
      BY <1>2, <2>1, <2>3, RemovingMakesNoWork
    <3> QED
      BY <2>1, <3>1 DEF Awake
  <2> QED
    BY <1>11, <2>2, <2>3 DEF CloseSocket
<1>12. ASSUME NEW i \in DOMAIN received_data_queue, GetReceivedData(i)
       PROVE  \E w \in Workers : Awake(w)'
  BY <1>3, <1>12 DEF GetReceivedData, CanCall, queues
<1>13. CASE DetectError
  <2>1. pc' = pc /\ main = "up"
    BY <1>13 DEF DetectError, CanCall
  <2>2. CASE UNCHANGED queues
    BY <1>3, <2>1, <2>2
  <2>3. ASSUME NEW s \in Errored, RemoveBuffers(s),
               pending_receives' \in Others(pending_receives, s),
               sockets_locked' = [sockets_locked EXCEPT ![s] = "none"]
        PROVE  \E w \in Workers : Awake(w)'
    <3>1. \E w \in Workers : Awake(w)
      BY <1>2, <2>1, <2>3, RemovingMakesNoWork DEF Errored
    <3> QED
      BY <2>1, <3>1 DEF Awake
  <2> QED
    BY <1>13, <2>2, <2>3 DEF DetectError, queues
<1>14. CASE Start
  <2>1. PICK P \in SUBSET Workers : /\ Cardinality(P) = MinThreads
                                    /\ pc' = [w \in Workers |-> IF w \in P THEN "enter" ELSE "absent"]
    BY <1>14 DEF Start
  <2>2. P # {}
    BY <2>1, FS_EmptySet
  <2> QED
    BY <2>1, <2>2 DEF Awake
<1>15. CASE Disconnect \/ Shutdown
  BY <1>15 DEF Disconnect, Shutdown, Unmanage, ResetErrors, NotifyAll, Join
<1> QED
  BY <1>4, <1>5, <1>6, <1>7, <1>8, <1>9, <1>10, <1>11, <1>12, <1>13, <1>14, <1>15
     DEF Next, Turn, Call

\* In a pool that may not have more threads than may wait, as the one of the game, work
\* that could be done has a thread that will look for it: nothing waits for a
\* notification that was not sent (queue_buffer and receive_data notify only for a socket
\* that is not in use, process_queue looks again after every job).
THEOREM NothingStranded ==
  ASSUME MinThreads > 0, MaxThreads \in 1..MinThreads
  PROVE  Spec => []NoStranded
<1>1. Init => Blocked /\ NoStranded
  BY DEF Init, Blocked, NoStranded
<1>2. IInv /\ Blocked /\ NoStranded /\ [Next]_vars => (Blocked /\ NoStranded)'
  BY BlockedKeeps, NoStrandedKeeps
<1> QED
  BY <1>1, <1>2, AlwaysIInv, PTL DEF Spec
=============================================================================
