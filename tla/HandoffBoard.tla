---------------------------- MODULE HandoffBoard ----------------------------
(***************************************************************************)
(* What the packet service promises a caller, with no handlers, columns or *)
(* copies: a board of packets on which every operation is one step.        *)
(***************************************************************************)
EXTENDS PacketStateMachine

CONSTANTS Packets, Agents, Notes, NoAgent, Absent

VARIABLES
  status,     \* of each packet, or Absent
  owner,      \* the agent a packet is addressed to, then its claimant
  decisions   \* the decisions recorded on each packet

board == <<status, owner, decisions>>

Init ==
  /\ status \in [Packets ->
       {Absent, "created", "awaiting_human", "claimed", "in_progress"}]
  /\ owner \in [Packets -> Agents \union {NoAgent}]
  /\ \A p \in Packets : owner[p] = NoAgent <=> status[p] = Absent
  /\ decisions = [p \in Packets |-> {}]

Add(p) ==
  /\ status[p] = Absent
  /\ \E s \in {"created", "awaiting_human"} : status' = [status EXCEPT ![p] = s]
  /\ \E a \in Agents : owner' = [owner EXCEPT ![p] = a]
  /\ UNCHANGED decisions

\* Claiming is the only way to a new owner, and the table must allow it.
Claim(p, a) ==
  /\ CanTransition(status[p], "claimed")
  /\ status' = [status EXCEPT ![p] = "claimed"]
  /\ owner' = [owner EXCEPT ![p] = a]
  /\ UNCHANGED decisions

\* A transition of the table, new decisions, or both; nothing recorded is lost.
Update(p) ==
  /\ status[p] # Absent
  /\ \E to \in Status :
       /\ to = status[p] \/ CanTransition(status[p], to)
       /\ status' = [status EXCEPT ![p] = to]
  /\ \E more \in SUBSET Notes :
       decisions' = [decisions EXCEPT ![p] = @ \union more]
  /\ UNCHANGED owner

\* A round of the expiry task.
Expire(ps) ==
  /\ \A p \in ps : CanTransition(status[p], "expired")
  /\ status' = [p \in Packets |-> IF p \in ps THEN "expired" ELSE status[p]]
  /\ UNCHANGED <<owner, decisions>>

Next ==
  \/ \E p \in Packets : Add(p) \/ Update(p) \/ \E a \in Agents : Claim(p, a)
  \/ \E ps \in SUBSET Packets : Expire(ps)

Spec == Init /\ [][Next]_board
=============================================================================
