------------------------------- MODULE MCEvents -------------------------------
(* An instance of EventBus for TLC: who is where, of which tenant, at what limit. *)
EXTENDS EventBus, TLC

CONSTANTS p1, a, b, s, e1, t1, t2, made, other

\* Two sockets of another tenant compete for its only place, beside a stream of the
\* tenant of the event; either process may publish.
MCProcOf == [c \in Conns |-> p1]
MCTenantOf == [x \in {a, b} |-> t2] @@ [x \in {s, e1} |-> t1]
MCLimitOf == [c \in Sockets |-> 1]
MCLinks == {{}, Procs}
MCAbout == e1 :> {made}
MCAsks == (a :> {other}) @@ (b :> {}) @@ (s :> {other})
=============================================================================
