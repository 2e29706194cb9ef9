------------------------------ MODULE MCWebhook ------------------------------
(* Instances of WebhookDelivery for TLC: which job may be what. *)
EXTENDS WebhookDelivery, TLC

CONSTANTS j1, j2, j3

\* An event, a retry batch, and either of the endpoints of the dead letter queue.
MenuOverlap == (j1 :> {"dispatch"}) @@ (j2 :> {"retry"}) @@ (j3 :> {"retry", "replay"})

\* An event, then two calls of the endpoints.
MenuSerial == (j1 :> {"dispatch"}) @@ [j \in Jobs \ {j1} |-> {"retry", "replay"}]
=============================================================================
