------------------------- MODULE PacketStateMachine -------------------------
(***************************************************************************)
(* The transition table of services/state_machine.py: which status a       *)
(* packet may move to from which, and which statuses the code calls        *)
(* terminal.                                                               *)
(***************************************************************************)

Status == {"created", "claimed", "in_progress", "awaiting_human",
           "completed", "failed", "expired"}

\* from_status |-> the statuses a transition may lead to.
ValidTransitions ==
  [s \in Status |->
     CASE s = "created"        -> {"claimed", "awaiting_human", "failed", "expired"}
       [] s = "claimed"        -> {"in_progress", "awaiting_human", "failed", "expired"}
       [] s = "in_progress"    -> {"completed", "awaiting_human", "failed", "expired"}
       [] s = "awaiting_human" -> {"claimed", "in_progress", "failed", "expired"}
       [] s \in {"completed", "failed"} -> {"expired"}
       [] s = "expired"        -> {}]

\* validate_transition raises exactly when this is FALSE; the name it returns
\* is always the target status.
CanTransition(from, to) == from \in Status /\ to \in ValidTransitions[from]

TerminalStates == {"completed", "expired"}

IsTerminal(s) == s \in TerminalStates
=============================================================================
