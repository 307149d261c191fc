--------------------------- MODULE NetworkWorker ---------------------------
(***************************************************************************)
(* network_worker_pool (network_worker.cpp): helper threads that send and   *)
(* receive whole messages on behalf of the game's main thread.  The threads *)
(* share one mutex and one condition variable (NUM_SHARDS is 1); a socket   *)
(* is LOCKED while a thread works on it outside the mutex.  The main thread *)
(* queues buffers, asks for receives, fetches what arrived, closes sockets, *)
(* collects errors, and creates and destroys the pool, as network.cpp does. *)
(*                                                                          *)
(* A message is its number on its socket; a socket is a pointer, and a new  *)
(* connection may get the pointer of one that was closed.                   *)
(***************************************************************************)
EXTENDS Integers, Sequences, FiniteSets, SequencesExt

CONSTANTS Workers,     \* thread identities
          Sockets,     \* TCPsocket values
          MinThreads,  \* min_threads: how many threads may wait
          MaxThreads,  \* max_threads: how many may exist, 0 for no limit
          MaxQueued,   \* bound on the messages queued to the open connections
          MaxErrors,   \* bound on socket_errors: nothing is asked for beyond it
          NULL         \* no socket, no thread

ASSUME NullAssumption    == NULL \notin Workers \cup Sockets
ASSUME ThreadsAssumption == MinThreads \in Nat /\ MaxThreads \in Nat
ASSUME WorkersAssumption == IsFiniteSet(Workers) /\ MinThreads <= Cardinality(Workers)
ASSUME SocketsAssumption == IsFiniteSet(Sockets)
ASSUME BoundsAssumption  == MaxQueued \in Nat /\ MaxErrors \in Nat

VARIABLES
  main,              \* where the main thread is in the life of the pool
  managed,           \* written without the mutex
  mutex,             \* the worker that holds shard_mutexes[0], or NULL
  pc,                \* where each worker is
  waiting_threads,
  threads,           \* keys of the map of threads
  to_clear,          \* threads that returned and were not joined
  sockets_locked,    \* socket -> SOCKET_STATE, "none" when it has no entry
  outgoing_bufs,
  pending_receives,
  received_data_queue,
  socket_errors,
  sock, sent_buf, upto, result,     \* locals of process_queue and send_buffer
  waiting_sockets, bad_sockets,     \* sets of network.cpp, by socket
  queued, wire       \* history: messages queued, and their pieces on the wire

pool    == <<managed, mutex, pc, waiting_threads, threads, to_clear>>
shared  == <<sockets_locked, outgoing_bufs, pending_receives, socket_errors>>
locals  == <<sock, sent_buf, upto, result>>
client  == <<main, waiting_sockets, bad_sockets, queued>>
vars    == <<pool, shared, received_data_queue, locals, client, wire>>

Messages == 1 .. MaxQueued
Buffers  == [sock : Sockets, id : Messages]
Pieces   == [id : Messages, part : {"whole", "head", "tail"}]

\* What a worker does: it looks for a job (the first two hold the mutex at a
\* zombie or at the queues), or works on one, sent_buf # 0 for a send.
Seeking == {"scanning", "blocking", "waiting", "woken", "spawning"}
Working == {"sending", "writing", "receiving", "deliver", "result"}
Places  == Seeking \cup Working \cup {"absent", "exited", "enter", "reaping"}

TypeOK ==
  /\ main \in {"down", "up", "closing", "unmanaged", "notify", "join"}
  /\ managed \in BOOLEAN
  /\ mutex \in Workers \cup {NULL}
  /\ pc \in [Workers -> Places]
  /\ waiting_threads \in Nat
  /\ threads \subseteq Workers /\ to_clear \subseteq threads
  /\ sockets_locked \in [Sockets -> {"none", "ready", "locked", "errored", "interrupt"}]
  /\ outgoing_bufs \in Seq(Buffers)
  /\ pending_receives \in Seq(Sockets) /\ received_data_queue \in Seq(Sockets)
  /\ socket_errors \in Nat
  /\ sock \in [Workers -> Sockets \cup {NULL}]
  /\ sent_buf \in [Workers -> 0 .. MaxQueued]
  /\ upto \in [Workers -> BOOLEAN]
  /\ result \in [Workers -> {"ready", "errored"}]
  /\ waiting_sockets \subseteq Sockets /\ bad_sockets \subseteq Sockets
  /\ queued \in [Sockets -> 0 .. MaxQueued]
  /\ wire \in [Sockets -> Seq(Pieces)]

Init ==
  /\ main = "down" /\ managed = FALSE /\ mutex = NULL
  /\ pc = [w \in Workers |-> "absent"]
  /\ waiting_threads = 0 /\ threads = {} /\ to_clear = {}
  /\ sockets_locked = [s \in Sockets |-> "none"]
  /\ outgoing_bufs = <<>> /\ pending_receives = <<>> /\ received_data_queue = <<>>
  /\ socket_errors = 0
  /\ sock = [w \in Workers |-> NULL]
  /\ sent_buf = [w \in Workers |-> 0]
  /\ upto = [w \in Workers |-> FALSE]
  /\ result = [w \in Workers |-> "ready"]
  /\ waiting_sockets = Sockets /\ bad_sockets = {}
  /\ queued = [s \in Sockets |-> 0]
  /\ wire = [s \in Sockets |-> <<>>]

At(w, where)  == pc[w] = where
Sleeping      == {w \in Workers : pc[w] = "waiting"}
First(S)      == CHOOSE i \in S : \A j \in S : i <= j

\* What stays of q, the elements at the positions keep in their order: a set with one
\* member, for keep has one enumeration that increases.
Kept(q, keep) ==
  {[k \in DOMAIN f |-> q[f[k]]] : f \in {g \in [1..Cardinality(keep) -> keep] :
                                          \A j, k \in DOMAIN g : j < k => g[j] < g[k]}}
Others(q, s) == Kept(q, {i \in DOMAIN q : q[i] # s})

-----------------------------------------------------------------------------
(* process_queue: between jobs.                                             *)

\* Mutant of Enough: off by one.
EnoughBeyond == MinThreads > 0 /\ waiting_threads > MinThreads

\* w leaves when enough threads wait, else it waits too.
Enough == MinThreads > 0 /\ waiting_threads >= MinThreads

Admit(w, zombies) ==
  \/ /\ Enough
     /\ pc' = [q \in Workers |-> IF q = w THEN "exited"
                               ELSE IF q \in zombies THEN "absent" ELSE pc[q]]
     /\ to_clear' = (to_clear \ zombies) \cup {w}
     /\ mutex' = NULL
     /\ UNCHANGED waiting_threads
  \/ /\ ~Enough
     /\ pc' = [q \in Workers |-> IF q = w THEN "scanning"
                               ELSE IF q \in zombies THEN "absent" ELSE pc[q]]
     /\ to_clear' = to_clear \ zombies
     /\ mutex' = w
     /\ waiting_threads' = waiting_threads + 1

Enter(w) ==
  /\ At(w, "enter") /\ mutex = NULL
  /\ \/ /\ managed /\ to_clear # {}
        /\ pc' = [pc EXCEPT ![w] = "reaping"]
        /\ mutex' = w
        /\ UNCHANGED <<waiting_threads, to_clear>>
     \/ /\ ~(managed /\ to_clear # {})
        /\ Admit(w, {})
  /\ UNCHANGED <<managed, threads, shared, received_data_queue, locals, client, wire>>

\* Mutant of Reap: the thread is joined and stays in to_clear.
ReapKeepsList(w) ==
  /\ At(w, "reaping")
  /\ threads' = threads \ to_clear
  /\ Admit(w, {})
  /\ UNCHANGED <<managed, shared, received_data_queue, locals, client, wire>>

\* Joins the threads that returned; PoolBounded shows that the loop has one round.
Reap(w) ==
  /\ At(w, "reaping")
  /\ threads' = threads \ to_clear
  /\ Admit(w, to_clear)
  /\ UNCHANGED <<managed, shared, received_data_queue, locals, client, wire>>

\* Mutants of Sendable: no check that the socket is ready; only the head of the queue.
SendableAny  == {i \in DOMAIN outgoing_bufs : sockets_locked[outgoing_bufs[i].sock] # "errored"}
SendableHead == {i \in DOMAIN outgoing_bufs \cap {1} :
                   sockets_locked[outgoing_bufs[i].sock] = "ready"}

Sendable   == {i \in DOMAIN outgoing_bufs : sockets_locked[outgoing_bufs[i].sock] = "ready"}
Receivable == {i \in DOMAIN pending_receives : sockets_locked[pending_receives[i]] = "ready"}

MaySpawn == /\ waiting_threads = 1 /\ managed
            /\ MaxThreads = 0 \/ MaxThreads > Cardinality(threads)

\* w stops waiting and locks s, to send the message id or to receive.  The last
\* thread that waited goes on to create another one, if it may.
Take(w, s, id) ==
  /\ sockets_locked' = [sockets_locked EXCEPT ![s] = "locked"]
  /\ sock' = [sock EXCEPT ![w] = s]
  /\ sent_buf' = [sent_buf EXCEPT ![w] = id]
  /\ waiting_threads' = waiting_threads - 1
  /\ \/ /\ MaySpawn
        /\ pc' = [pc EXCEPT ![w] = "spawning"]
        /\ UNCHANGED mutex
     \/ /\ ~MaySpawn
        /\ pc' = [pc EXCEPT ![w] = IF id # 0 THEN "sending" ELSE "receiving"]
        /\ mutex' = NULL

\* The oldest buffer of a ready socket, else the oldest receive of one, else to
\* wait or, in a pool that is shut down, to leave.
Scan(w) ==
  /\ At(w, "scanning")
  /\ \/ /\ Sendable # {}
        /\ LET i == First(Sendable) IN
             /\ Take(w, outgoing_bufs[i].sock, outgoing_bufs[i].id)
             /\ outgoing_bufs' = RemoveAt(outgoing_bufs, i)
        /\ UNCHANGED <<pending_receives, to_clear>>
     \/ /\ Sendable = {} /\ Receivable # {}
        /\ LET i == First(Receivable) IN
             /\ Take(w, pending_receives[i], 0)
             /\ pending_receives' = RemoveAt(pending_receives, i)
        /\ UNCHANGED <<outgoing_bufs, to_clear>>
     \/ /\ Sendable = {} /\ Receivable = {} /\ managed
        /\ pc' = [pc EXCEPT ![w] = "blocking"]
        /\ UNCHANGED <<mutex, waiting_threads, to_clear, sockets_locked, outgoing_bufs,
                       pending_receives, sock, sent_buf>>
     \/ /\ Sendable = {} /\ Receivable = {} /\ ~managed
        /\ pc' = [pc EXCEPT ![w] = "exited"]
        /\ mutex' = NULL
        /\ waiting_threads' = waiting_threads - 1
        /\ to_clear' = to_clear \cup {w}
        /\ UNCHANGED <<sockets_locked, outgoing_bufs, pending_receives, sock, sent_buf>>
  /\ UNCHANGED <<managed, threads, socket_errors, upto, result, received_data_queue, client, wire>>

\* cond->wait releases the mutex and sleeps in one step, and takes the mutex
\* again when it has been woken, by a notification or spuriously.
Block(w) ==
  /\ At(w, "blocking")
  /\ pc' = [pc EXCEPT ![w] = "waiting"]
  /\ mutex' = NULL
  /\ UNCHANGED <<managed, waiting_threads, threads, to_clear, shared, received_data_queue,
                 locals, client, wire>>

SpuriousWakeup(w) ==
  /\ At(w, "waiting")
  /\ pc' = [pc EXCEPT ![w] = "woken"]
  /\ UNCHANGED <<managed, mutex, waiting_threads, threads, to_clear, shared,
                 received_data_queue, locals, client, wire>>

Resume(w) ==
  /\ At(w, "woken") /\ mutex = NULL
  /\ pc' = [pc EXCEPT ![w] = "scanning"]
  /\ mutex' = w
  /\ UNCHANGED <<managed, waiting_threads, threads, to_clear, shared, received_data_queue,
                 locals, client, wire>>

Spawn(w) ==
  /\ At(w, "spawning")
  /\ \E n \in Workers \ threads :
       /\ pc' = [pc EXCEPT ![w] = IF sent_buf[w] # 0 THEN "sending" ELSE "receiving",
                           ![n] = "enter"]
       /\ threads' = threads \cup {n}
  /\ mutex' = NULL
  /\ UNCHANGED <<managed, waiting_threads, to_clear, shared, received_data_queue, locals,
                 client, wire>>

-----------------------------------------------------------------------------
(* process_queue: a job, outside the mutex.                                 *)

Result(w, r) == /\ result' = [result EXCEPT ![w] = r]
                /\ pc' = [pc EXCEPT ![w] = "result"]

\* send_buffer looks, before every piece, whether the socket is still LOCKED.
CheckLocked(w) ==
  /\ At(w, "sending") /\ mutex = NULL
  /\ IF sockets_locked[sock[w]] = "locked"
     THEN pc' = [pc EXCEPT ![w] = "writing"] /\ UNCHANGED result
     ELSE Result(w, "errored")
  /\ UNCHANGED <<managed, mutex, waiting_threads, threads, to_clear, shared,
                 received_data_queue, sock, sent_buf, upto, client, wire>>

Put(w, part) == wire' = [wire EXCEPT ![sock[w]] = Append(@, [id |-> sent_buf[w], part |-> part])]

\* Mutant of Write: a second piece starts from the beginning.
WriteAgain(w) ==
  /\ At(w, "writing")
  /\ \/ /\ Put(w, "whole")
        /\ Result(w, "ready")
        /\ UNCHANGED upto
     \/ /\ ~upto[w]
        /\ Put(w, "head")
        /\ upto' = [upto EXCEPT ![w] = TRUE]
        /\ pc' = [pc EXCEPT ![w] = "sending"]
        /\ UNCHANGED result
  /\ UNCHANGED <<managed, mutex, waiting_threads, threads, to_clear, shared,
                 received_data_queue, sock, sent_buf, client>>

\* The message goes out at once or in two pieces, or the connection fails.
Write(w) ==
  /\ At(w, "writing")
  /\ \/ /\ Put(w, IF upto[w] THEN "tail" ELSE "whole")
        /\ Result(w, "ready")
        /\ UNCHANGED upto
     \/ /\ ~upto[w]
        /\ Put(w, "head")
        /\ upto' = [upto EXCEPT ![w] = TRUE]
        /\ pc' = [pc EXCEPT ![w] = "sending"]
        /\ UNCHANGED result
     \/ /\ Result(w, "errored")
        /\ UNCHANGED <<upto, wire>>
  /\ UNCHANGED <<managed, mutex, waiting_threads, threads, to_clear, shared,
                 received_data_queue, sock, sent_buf, client>>

\* receive_buf: a whole message arrives, or the receive fails because of the
\* connection, an idle timeout, or an interrupt seen after a piece of data.
Receive(w) ==
  /\ At(w, "receiving") /\ mutex = NULL
  /\ \/ /\ sockets_locked[sock[w]] # "interrupt"
        /\ pc' = [pc EXCEPT ![w] = "deliver"]
        /\ UNCHANGED result
     \/ Result(w, "errored")
  /\ UNCHANGED <<managed, mutex, waiting_threads, threads, to_clear, shared,
                 received_data_queue, sock, sent_buf, upto, client, wire>>

Deliver(w) ==
  /\ At(w, "deliver")
  /\ received_data_queue' = Append(received_data_queue, sock[w])
  /\ Result(w, "ready")
  /\ UNCHANGED <<managed, mutex, waiting_threads, threads, to_clear, shared, sock, sent_buf, upto,
                 client, wire>>

\* check_socket_result, then the next round of the loop.
CheckSocketResult(w) ==
  /\ At(w, "result") /\ mutex = NULL
  /\ sockets_locked' = [sockets_locked EXCEPT ![sock[w]] = result[w]]
  /\ socket_errors' = IF result[w] = "errored" THEN socket_errors + 1 ELSE socket_errors
  /\ pc' = [pc EXCEPT ![w] = "enter"]
  /\ sock' = [sock EXCEPT ![w] = NULL]
  /\ sent_buf' = [sent_buf EXCEPT ![w] = 0]
  /\ upto' = [upto EXCEPT ![w] = FALSE]
  /\ result' = [result EXCEPT ![w] = "ready"]
  /\ UNCHANGED <<managed, mutex, waiting_threads, threads, to_clear, outgoing_bufs,
                 pending_receives, received_data_queue, client, wire>>

-----------------------------------------------------------------------------
(* The main thread, through network.cpp.                                    *)

CanCall == main = "up" /\ mutex = NULL

\* Mutant of Announce: a notification only for a new entry.
AnnounceNew(s) ==
  /\ sockets_locked' = [sockets_locked EXCEPT ![s] = IF @ = "none" THEN "ready" ELSE @]
  /\ IF sockets_locked[s] = "none" /\ Sleeping # {}
     THEN \E w \in Sleeping : pc' = [pc EXCEPT ![w] = "woken"]
     ELSE UNCHANGED pc

\* The entry of s, new or not, and a notification unless the socket is in use.
Announce(s) ==
  /\ sockets_locked' = [sockets_locked EXCEPT ![s] = IF @ = "none" THEN "ready" ELSE @]
  /\ \/ /\ sockets_locked[s] \in {"none", "ready", "errored"}
        /\ \E w \in Sleeping : pc' = [pc EXCEPT ![w] = "woken"]
     \/ /\ sockets_locked[s] \notin {"none", "ready", "errored"} \/ Sleeping = {}
        /\ UNCHANGED pc

\* send_data, then queue_buffer.
QueueBuffer(s) ==
  /\ CanCall /\ s \notin bad_sockets
  /\ queued[s] < MaxQueued /\ FoldFunction(+, 0, queued) < MaxQueued
  /\ socket_errors < MaxErrors
  /\ queued' = [queued EXCEPT ![s] = @ + 1]
  /\ outgoing_bufs' = Append(outgoing_bufs, [sock |-> s, id |-> queued[s] + 1])
  /\ Announce(s)
  /\ UNCHANGED <<managed, mutex, waiting_threads, threads, to_clear, pending_receives,
                 socket_errors, received_data_queue, locals, main, waiting_sockets,
                 bad_sockets, wire>>

\* Mutant of ReceiveData: the socket stays among the waiting ones.
ReceiveDataAgain(s) ==
  /\ CanCall /\ s \in waiting_sockets /\ socket_errors < MaxErrors
  /\ Len(pending_receives) < 2
  /\ pending_receives' = Append(pending_receives, s)
  /\ Announce(s)
  /\ UNCHANGED <<managed, mutex, waiting_threads, threads, to_clear, outgoing_bufs,
                 socket_errors, received_data_queue, locals, client, wire>>

\* network::receive_data hands a socket with data to the pool and waits no more.
ReceiveData(s) ==
  /\ CanCall /\ s \in waiting_sockets /\ socket_errors < MaxErrors
  /\ waiting_sockets' = waiting_sockets \ {s}
  /\ pending_receives' = Append(pending_receives, s)
  /\ Announce(s)
  /\ UNCHANGED <<managed, mutex, waiting_threads, threads, to_clear, outgoing_bufs,
                 socket_errors, received_data_queue, locals, main, bad_sockets, queued, wire>>

\* get_received_data for a socket: a good message puts it back among the waiting
\* sockets, a malformed one throws before that.
GetReceivedData(i) ==
  /\ CanCall
  /\ received_data_queue' = RemoveAt(received_data_queue, i)
  /\ \/ waiting_sockets' = waiting_sockets \cup {received_data_queue[i]}
     \/ UNCHANGED waiting_sockets
  /\ UNCHANGED <<pool, shared, locals, main, bad_sockets, queued, wire>>

\* Mutant of RemoveBuffers: what was received stays.
RemoveOutgoing(s) ==
  /\ outgoing_bufs' \in Kept(outgoing_bufs, {i \in DOMAIN outgoing_bufs : outgoing_bufs[i].sock # s})
  /\ UNCHANGED received_data_queue

\* remove_buffers: what is queued to and received from s.
RemoveBuffers(s) ==
  /\ outgoing_bufs' \in Kept(outgoing_bufs, {i \in DOMAIN outgoing_bufs : outgoing_bufs[i].sock # s})
  /\ received_data_queue' \in Others(received_data_queue, s)

\* network::disconnect closes the socket only when close_socket lets it; then
\* its pointer may come back as a new connection.  network::~manager disconnects
\* every socket, and tries again until that is done.
CloseSocket(s) ==
  /\ main \in {"up", "closing"} /\ mutex = NULL
  /\ pending_receives' \in Others(pending_receives, s)
  /\ \/ /\ sockets_locked[s] \in {"none", "ready", "errored"}
        /\ sockets_locked' = [sockets_locked EXCEPT ![s] = "none"]
        /\ RemoveBuffers(s)
        /\ bad_sockets' = bad_sockets \ {s}
        /\ waiting_sockets' = waiting_sockets \cup {s}
        /\ queued' = [queued EXCEPT ![s] = 0]
        /\ wire' = [wire EXCEPT ![s] = <<>>]
     \/ /\ sockets_locked[s] \in {"locked", "interrupt"}
        /\ sockets_locked' = [sockets_locked EXCEPT ![s] = "interrupt"]
        /\ UNCHANGED <<outgoing_bufs, received_data_queue, bad_sockets, waiting_sockets,
                       queued, wire>>
  /\ UNCHANGED <<pool, socket_errors, locals, main>>

Errored == {s \in Sockets : sockets_locked[s] = "errored"}

\* detect_error; check_error throws an error that marks the connection bad.
DetectError ==
  /\ CanCall /\ socket_errors > 0
  /\ \/ \E s \in Errored :
          /\ socket_errors' = socket_errors - 1
          /\ sockets_locked' = [sockets_locked EXCEPT ![s] = "none"]
          /\ pending_receives' \in Others(pending_receives, s)
          /\ RemoveBuffers(s)
          /\ bad_sockets' = bad_sockets \cup {s}
     \/ /\ Errored = {}
        /\ socket_errors' = 0
        /\ UNCHANGED <<sockets_locked, pending_receives, outgoing_bufs, received_data_queue,
                       bad_sockets>>
  /\ UNCHANGED <<pool, locals, main, waiting_sockets, queued, wire>>

-----------------------------------------------------------------------------
(* The life of the pool.                                                    *)

\* manager::manager: min_threads threads to begin with.
Start ==
  /\ main = "down"
  /\ main' = "up" /\ managed' = TRUE
  /\ \E P \in SUBSET Workers :
       /\ Cardinality(P) = MinThreads
       /\ threads' = P
       /\ pc' = [w \in Workers |-> IF w \in P THEN "enter" ELSE "absent"]
  /\ UNCHANGED <<mutex, waiting_threads, to_clear, shared, received_data_queue, locals,
                 waiting_sockets, bad_sockets, queued, wire>>

\* network::~manager starts to disconnect every socket.
Disconnect ==
  /\ main = "up" /\ main' = "closing"
  /\ UNCHANGED <<pool, shared, received_data_queue, locals, waiting_sockets, bad_sockets,
                 queued, wire>>

\* The write to managed is not under the mutex.
Unmanage ==
  /\ main = "closing" /\ \A s \in Sockets : sockets_locked[s] = "none"
  /\ main' = "unmanaged" /\ managed' = FALSE
  /\ UNCHANGED <<mutex, pc, waiting_threads, threads, to_clear, shared, received_data_queue,
                 locals, waiting_sockets, bad_sockets, queued, wire>>

\* Mutant of ResetErrors: without the mutex.
ResetErrorsAtOnce ==
  /\ main = "unmanaged"
  /\ socket_errors' = 0
  /\ main' = "notify"
  /\ UNCHANGED <<pool, sockets_locked, outgoing_bufs, pending_receives, received_data_queue,
                 locals, waiting_sockets, bad_sockets, queued, wire>>

\* The destructor takes the mutex to reset the error count.
ResetErrors ==
  /\ main = "unmanaged" /\ mutex = NULL
  /\ socket_errors' = 0
  /\ main' = "notify"
  /\ UNCHANGED <<pool, sockets_locked, outgoing_bufs, pending_receives, received_data_queue,
                 locals, waiting_sockets, bad_sockets, queued, wire>>

NotifyAll ==
  /\ main = "notify"
  /\ main' = "join"
  /\ pc' = [w \in Workers |-> IF w \in Sleeping THEN "woken" ELSE pc[w]]
  /\ UNCHANGED <<managed, mutex, waiting_threads, threads, to_clear, shared,
                 received_data_queue, locals, waiting_sockets, bad_sockets, queued, wire>>

\* The destructor joins every thread of the map, and clears what is left.
Join ==
  /\ main = "join" /\ \A w \in threads : At(w, "exited")
  /\ main' = "down"
  /\ threads' = {} /\ to_clear' = {}
  /\ pc' = [w \in Workers |-> "absent"]
  /\ sockets_locked' = [s \in Sockets |-> "none"]
  /\ UNCHANGED <<managed, mutex, waiting_threads, outgoing_bufs, pending_receives,
                 socket_errors, received_data_queue, locals, waiting_sockets, bad_sockets,
                 queued, wire>>

-----------------------------------------------------------------------------
Turn(w)  == Enter(w) \/ Reap(w) \/ Scan(w) \/ Block(w) \/ Resume(w) \/ Spawn(w)
Work(w)  == CheckLocked(w) \/ Write(w) \/ Receive(w) \/ Deliver(w) \/ CheckSocketResult(w)
Shutdown == Unmanage \/ ResetErrors \/ NotifyAll \/ Join

Call ==
  \/ \E s \in Sockets : QueueBuffer(s) \/ ReceiveData(s) \/ CloseSocket(s)
  \/ \E i \in DOMAIN received_data_queue : GetReceivedData(i)
  \/ DetectError

Next ==
  \/ \E w \in Workers : Turn(w) \/ Work(w) \/ SpuriousWakeup(w)
  \/ Call
  \/ Start \/ Disconnect \/ Shutdown

Spec == Init /\ [][Next]_vars

\* Threads are scheduled; one that wants the mutex gets it when it is free again
\* and again; a transfer ends (the socket becomes writable or its poll times out, a
\* receive has an idle timeout); a destructor that was entered goes on, and tries
\* its sockets again.  The main thread need not call anything else.
Fairness ==
  /\ \A w \in Workers : SF_vars(Turn(w)) /\ SF_vars(Work(w))
  /\ SF_vars(Shutdown)
  /\ SF_vars(main = "closing" /\ \E s \in Sockets : CloseSocket(s))

FairSpec == Spec /\ Fairness

-----------------------------------------------------------------------------
(* What makes the pool correct.                                             *)

\* A socket is locked, or interrupted, exactly while one worker works on it: two
\* threads never write to, read from or report on one connection
\* (process_queue, the assertions on lock_it).
HeldByOne ==
  /\ \A w, x \in Workers : sock[w] = sock[x] => w = x \/ sock[w] = NULL
  /\ \A s \in Sockets : sockets_locked[s] \in {"locked", "interrupt"} <=> \E w \in Workers : sock[w] = s

\* What is queued, asked for or received belongs to a socket that the pool knows:
\* closing a socket leaves nothing behind that would reach the next connection
\* that gets its pointer (close_socket, detect_error, the order in which
\* process_queue delivers a message and releases the socket).  Every failed socket
\* is counted: detect_error looks for them only while the count is not 0, and
\* close_socket leaves the count alone.
BuffersKnown ==
  /\ \A i \in DOMAIN outgoing_bufs : sockets_locked[outgoing_bufs[i].sock] # "none"
  /\ \A i \in DOMAIN pending_receives : sockets_locked[pending_receives[i]] # "none"
  /\ \A i \in DOMAIN received_data_queue : sockets_locked[received_data_queue[i]] # "none"
  /\ main \in {"up", "closing"} => Cardinality(Errored) <= socket_errors

\* A connection has one receive at a time: it waits for data, is asked for, is
\* being received from or has a message that was not fetched (network::receive_data).
Receivers(s) == {w \in Workers : sock[w] = s /\ sent_buf[w] = 0 /\ ~At(w, "result")}
ReceivedOnce ==
  \A s \in Sockets :
    (IF s \in waiting_sockets THEN 1 ELSE 0)
      + Cardinality({i \in DOMAIN pending_receives : pending_receives[i] = s})
      + Cardinality(Receivers(s))
      + Cardinality({i \in DOMAIN received_data_queue : received_data_queue[i] = s}) <= 1

\* The count of waiting threads is right, the pool keeps within its limits, and
\* while it is up it never loses its last thread (process_queue, manager).  The
\* threads that returned are those to join, one at a time until the shutdown.
Waiters == {w \in Workers : pc[w] \in {"scanning", "blocking", "waiting", "woken"}}
PoolBounded ==
  /\ waiting_threads = Cardinality(Waiters)
  /\ MinThreads > 0 => waiting_threads <= MinThreads
  /\ MaxThreads > 0 => Cardinality(threads) <= MaxThreads \/ Cardinality(threads) <= MinThreads
  /\ main = "up" /\ MinThreads > 0 => \E w \in Workers : pc[w] \notin {"absent", "exited"}
  /\ to_clear = {w \in Workers : At(w, "exited")}
  /\ managed => Cardinality(to_clear) <= 1

\* What the peer reads from a connection is a prefix of what was queued to it:
\* whole messages, in order, none twice, none after a part of one (process_queue,
\* send_buffer, the bad_sockets of network::send_data).
StreamIntact ==
  \A s \in Sockets : \A i \in DOMAIN wire[s] :
    LET p == wire[s][i]
        q == wire[s][i - 1]
    IN CASE i = 1 -> p.id = 1 /\ p.part # "tail"
         [] i > 1 /\ p.part = "tail" -> q = [id |-> p.id, part |-> "head"]
         [] OTHER -> p.id = q.id + 1 /\ q.part # "head"

\* Work that could be done has a thread that will look for it: nothing waits for
\* a notification that was not sent (queue_buffer and receive_data notify only for
\* a socket that is not in use, process_queue looks again after every job).
NoStranded ==
  main = "up" /\ Sendable \cup Receivable # {} =>
    \E w \in Workers : pc[w] \notin {"absent", "exited", "waiting"}

\* While the destructor walks through the map of threads no worker adds to it or
\* takes from it (~manager reads it without the mutex).
JoinOwnsThreads ==
  [][threads' # threads => main \notin {"notify", "join"} \/ main' = "down"]_vars

\* network.hpp on disconnect: a socket that could not be closed because it is in
\* use "will be closed when it has finished its send/receive".
ClosedWhenFinished ==
  [][\A s \in Sockets : sockets_locked[s] = "interrupt" => sockets_locked'[s] # "ready"]_vars

\* A message that was queued leaves the queue, to be sent or because its connection
\* was closed or failed (queue_buffer, process_queue).
EventuallySent ==
  \A s \in Sockets, id \in Messages :
    (\E i \in DOMAIN outgoing_bufs : outgoing_bufs[i] = [sock |-> s, id |-> id])
      ~> \/ \A i \in DOMAIN outgoing_bufs : outgoing_bufs[i] # [sock |-> s, id |-> id]
         \/ sockets_locked[s] = "errored"

\* A shutdown ends: every socket is closed, every thread is woken and joined
\* (network::~manager, network_worker_pool::~manager).
ShutdownEnds == main = "closing" ~> main = "down"
=============================================================================
