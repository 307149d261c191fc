---------------------------- MODULE MCEventPump ----------------------------
(* Two names of events and one id.  A handler has a name or a variable, runs     *)
(* once or always, and can be removed or not; each two of these occur together.  *)
EXTENDS EventPump

CONSTANTS a, b, i

HandlerConfigs ==
  {[name |-> a, id |-> None, once |-> FALSE],
   [name |-> a, id |-> i, once |-> TRUE],
   [name |-> b, id |-> i, once |-> FALSE],
   [name |-> b, id |-> None, once |-> TRUE],
   [name |-> Variable, id |-> None, once |-> FALSE],
   [name |-> Variable, id |-> i, once |-> TRUE]}
=============================================================================
