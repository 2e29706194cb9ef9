--------------------------- MODULE DeliveryPolicy ---------------------------
(***************************************************************************)
(* What webhook delivery promises a receiver and an operator, with no jobs,*)
(* sessions or locks: deliveries that are POSTed while they are open, each *)
(* outcome counted, given up after MAX_RETRIES or with their webhook.      *)
(***************************************************************************)
EXTENDS Naturals

CONSTANTS Deliveries, Hooks, HookOf(_), MaxRetries

VARIABLES
  status,    \* of each delivery
  attempts,  \* that are on record
  posts,     \* that the receiver may have seen
  closed     \* deactivated webhooks

policy == <<status, attempts, posts, closed>>

Init ==
  /\ status = [d \in Deliveries |-> "absent"]
  /\ attempts = [d \in Deliveries |-> 0]
  /\ posts = [d \in Deliveries |-> 0]
  /\ closed = {}

Open(d) == status[d] \in {"pending", "failed"}

Make(d) ==
  /\ status[d] = "absent"
  /\ status' = [status EXCEPT ![d] = "pending"]
  /\ UNCHANGED <<attempts, posts, closed>>

Post(d) ==
  /\ Open(d)
  /\ posts' = [posts EXCEPT ![d] = @ + 1]
  /\ UNCHANGED <<status, attempts, closed>>

\* A POST that was made is put on record. Unless it succeeded, the last attempt that
\* is allowed makes a dead letter of the delivery, and no earlier one does.
Record(d) ==
  /\ Open(d) /\ attempts[d] < posts[d]
  /\ attempts' = [attempts EXCEPT ![d] = @ + 1]
  /\ \E outcome \in {"delivered", IF attempts'[d] >= MaxRetries THEN "dead_letter" ELSE "failed"} :
       status' = [status EXCEPT ![d] = outcome]
  /\ UNCHANGED <<posts, closed>>

Deactivate(h) ==
  /\ closed' = closed \union {h}
  /\ UNCHANGED <<status, attempts, posts>>

\* A retry batch gives up what is open of webhooks that are gone.
GiveUp(ds) ==
  /\ \A d \in ds : Open(d) /\ HookOf(d) \in closed
  /\ status' = [d \in Deliveries |-> IF d \in ds THEN "dead_letter" ELSE status[d]]
  /\ UNCHANGED <<attempts, posts, closed>>

\* Only a dead letter is started again, with no attempt on record.
Replay(d) ==
  /\ status[d] = "dead_letter"
  /\ status' = [status EXCEPT ![d] = "pending"]
  /\ attempts' = [attempts EXCEPT ![d] = 0]
  /\ UNCHANGED <<posts, closed>>

Next ==
  \/ \E d \in Deliveries : Make(d) \/ Post(d) \/ Record(d) \/ Replay(d)
  \/ \E h \in Hooks : Deactivate(h)
  \/ \E ds \in SUBSET Deliveries : GiveUp(ds)

Spec == Init /\ [][Next]_policy
=============================================================================
