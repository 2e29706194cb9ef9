------------------------------- MODULE MCGateway -------------------------------
(* An instance of Gateway for TLC: two requests and four keys of one tenant. *)
EXTENDS Gateway, TLC

CONSTANTS r1, r2, p1, boss, deputy, hand, spare, t1, t2, free, pro

MCAt == [r \in Requests |-> p1]
MCMenu == (r1 :> {"rotate", "revoke", "issue", "found", "create"})
          @@ (r2 :> {"rotate", "found", "rename", "close", "create"})
MCBearer == (r1 :> {boss, hand}) @@ (r2 :> {boss, deputy, hand})

OfT1(role, tier) == [state |-> "live", role |-> role, owner |-> t1, tier |-> tier]
MCBorn ==
  (boss :> OfT1("admin", pro)) @@ (deputy :> OfT1("admin", pro)) @@ (hand :> OfT1("writer", free))
  @@ (spare :> [OfT1("reader", free) EXCEPT !.state = "none"])
MCHourLimit == (free :> 1) @@ (pro :> 2)
=============================================================================
