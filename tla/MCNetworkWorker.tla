-------------------------- MODULE MCNetworkWorker --------------------------
(* The pool with few threads, sockets and messages.                         *)
EXTENDS NetworkWorker

\* Threads and sockets are interchangeable.
Symmetry == Permutations(Workers) \cup Permutations(Sockets)
=============================================================================
