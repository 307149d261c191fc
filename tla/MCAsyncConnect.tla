--------------------------- MODULE MCAsyncConnect ---------------------------
(* A few operations, one after the other.                                   *)
EXTENDS AsyncConnect
=============================================================================
