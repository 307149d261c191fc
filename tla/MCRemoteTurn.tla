---------------------------- MODULE MCRemoteTurn ----------------------------
EXTENDS RemoteTurn

CONSTANTS a, b, c

MCHome == (1 :> a) @@ (2 :> b)
\* A move of side 1 may ask side 1, or side 2 first; an attack asks side 2 and the server.
MCScripts == [init_side |-> {<<>>}, move |-> {<<>>, <<1>>, <<2, 1>>},
              attack |-> {<<2, Server>>}, end_turn |-> {<<>>}]

\* Next until something strays: RecordIsGame, NoError, ImplementsSharedGame and WaitsEnd
\* ask nothing of what comes after.
MCNext == OnCourse /\ Next
MCSpec == Init /\ [][MCNext]_vars /\ Fairness
=============================================================================
