----------------------------- MODULE MCLifecycle -----------------------------
(* Instances of PacketLifecycle for TLC: who may call what. *)
EXTENDS PacketLifecycle, TLC

CONSTANTS p1, p2, r1, r2, r3

\* One caller uses the single-packet endpoints, the other the batches and, like
\* the first, PATCH. (Of the second packet, a batch is the same as a creation.)
MenuPair == (r1 :> Ops \ (BatchOps \union {"create"})) @@ (r2 :> BatchOps \union {"patch"})

\* Three calls about one packet, and a second packet that may be added.
MenuOneByOne == (r1 :> {"claim", "create"})
             @@ (r2 :> {"batch_complete", "patch", "respond"})
             @@ (r3 :> {"batch_claim", "delete"})

\* An update and a creation while packets grow old.
MenuUpdate == (r1 :> {"delete", "patch"}) @@ (r2 :> {"create"})

\* Two agents after the same packet.
MenuClaims == [r \in {r1, r2} |-> {"claim"}]

\* Nobody calls: only time passes.
MenuNone == [r \in {r1, r2} |-> {}]

\* PATCH ends the work, asks a human or adds content only, ...
Body(to, decides, asks) == [to |-> to, decides |-> decides, asks |-> asks]
PatchBodies == {Body("completed", TRUE, FALSE), Body("awaiting_human", FALSE, TRUE),
                Body("none", TRUE, FALSE)}

\* ... or starts the work, for packets that have not got that far.
PatchBodiesFromStart == PatchBodies \union {Body("in_progress", FALSE, FALSE)}

AgentSymmetry == Permutations(Agents)
=============================================================================
