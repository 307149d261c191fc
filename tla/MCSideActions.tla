--------------------------- MODULE MCSideActions ---------------------------
EXTENDS SideActions

Afresh(cmds) == \E i \in DOMAIN cmds : cmds[i].type \in {"clear", "refresh"}

\* An ally that did not run a command is of interest as long as a command to start
\* afresh is waiting for it, one that stopped is not.
Follows ==
  /\ ally.list.fault = "none"
  /\ ally.dropped => Afresh(buffer) \/ \E i \in DOMAIN wire : Afresh(wire[i].cmds)
=============================================================================
