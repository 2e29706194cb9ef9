--------------------------- MODULE WebhookDelivery ---------------------------
(***************************************************************************)
(* services/webhook.py and the endpoints of routers/hooks.py that change   *)
(* something: webhooks, the webhook_deliveries table, and the jobs that    *)
(* make attempts at a delivery (a dispatch, a retry batch, a replay).      *)
(*                                                                         *)
(* An attempt is three separate steps: a transaction that reads the count  *)
(* of attempts, the POST, and a transaction that writes the count and the  *)
(* new status back, whatever the row has become. A retry batch has its own *)
(* session open around all its attempts and writes in it.                  *)
(***************************************************************************)
EXTENDS Naturals, FiniteSets

CONSTANTS
  Hooks,       \* webhook ids
  NoHook,      \* no webhook was looked up yet
  Jobs,        \* calls of dispatch_webhooks, retry_failed_deliveries, replay_dlq_entry
  Menu,        \* Menu[j]: which of the three job j may be
  NoDelivery,
  MaxRetries,  \* MAX_RETRIES
  MaxBatch,    \* max_batch of a retry
  OneWriter,   \* SQLite: an open write transaction excludes every other writer
  MaxFaults    \* bound on database errors and crashes

Kinds == {"dispatch", "retry", "replay"}

ASSUME ConstantsAssumption ==
  /\ NoHook \notin Hooks
  /\ Menu \in [Jobs -> SUBSET Kinds]
  /\ NoDelivery \notin Jobs \X Hooks
  /\ MaxRetries \in Nat \ {0} /\ MaxBatch \in Nat \ {0} /\ MaxFaults \in Nat
  /\ OneWriter \in BOOLEAN

\* The delivery to hook d[2] of the event that job d[1] dispatched.
Deliveries == {j \in Jobs : "dispatch" \in Menu[j]} \X Hooks

VARIABLES
  hook,      \* the webhooks table
  table,     \* the webhook_deliveries table
  job,       \* the jobs' local state
  sent,      \* POSTs made for each delivery
  accepted,  \* deliveries the receiver has accepted
  replays,   \* resets of each delivery by a replay
  faults

vars == <<hook, table, job, sent, accepted, replays, faults>>

Statuses == {"absent", "pending", "failed", "delivered", "dead_letter"}

\* next_retry_at: unset, in the future, or past.
Delivery == [status: Statuses, attempts: Nat, next: {"none", "later", "due"}]

\* Mutation: the first attempt is counted when the record is made.
NewDeliveryCounted == [status |-> "pending", attempts |-> 1, next |-> "none"]
NewDelivery == [status |-> "pending", attempts |-> 0, next |-> "none"]

BusyPcs == {"create", "reset", "next", "attempts", "post", "record"}
Job ==
  [pc: BusyPcs \union {"idle", "ended"},
   kind: Kinds \union {"none"},
   todo: SUBSET Deliveries,                 \* not yet dealt with
   item: Deliveries \union {NoDelivery},    \* the delivery being attempted
   attempt: Nat,                            \* number of the attempt
   good: BOOLEAN,                           \* the attempt succeeded
   seen: Hooks \union {NoHook},             \* last webhook the session found active
   gone: SUBSET Deliveries,                 \* marked dead_letter in the session
   flushed: SUBSET Deliveries]              \* of these, written but not committed

Fresh ==
  [pc |-> "idle", kind |-> "none", todo |-> {}, item |-> NoDelivery, attempt |-> 0,
   good |-> FALSE, seen |-> NoHook, gone |-> {}, flushed |-> {}]

\* The call is over: it returned, raised, or was lost in a crash.
Ended == [Fresh EXCEPT !.pc = "ended"]

Busy(j) == job[j].pc \in BusyPcs

\* No session of ks holds a lock that keeps others from writing the rows ds. On
\* PostgreSQL that is a lock on one of the rows, on SQLite any open write.
Writable(ds, ks) ==
  \A k \in ks : IF OneWriter THEN job[k].flushed = {} ELSE job[k].flushed \intersect ds = {}

CanFlush(j) == job[j].gone = {} \/ Writable(job[j].gone, Jobs \ {j})

-----------------------------------------------------------------------------
(* Webhooks and time *)

Register(h) ==
  /\ hook[h] = "absent" /\ Writable({}, Jobs)
  /\ hook' = [hook EXCEPT ![h] = "active"]
  /\ UNCHANGED <<table, job, sent, accepted, replays, faults>>

\* Nothing makes an inactive webhook active again.
Deactivate(h) ==
  /\ hook[h] = "active" /\ Writable({}, Jobs)
  /\ hook' = [hook EXCEPT ![h] = "inactive"]
  /\ UNCHANGED <<table, job, sent, accepted, replays, faults>>

\* The backoff of a failed delivery is over.
Elapse(d) ==
  /\ table[d].next = "later"
  /\ table' = [table EXCEPT ![d].next = "due"]
  /\ UNCHANGED <<hook, job, sent, accepted, replays, faults>>

-----------------------------------------------------------------------------
(* The start of a job *)

Start(j, kind, q) ==
  /\ job[j].pc = "idle" /\ kind \in Menu[j]
  /\ job' = [job EXCEPT ![j] = q]
  /\ UNCHANGED <<hook, table, sent, accepted, replays, faults>>

Active == {h \in Hooks : hook[h] = "active"}

Dispatch(j) ==
  LET todo == {j} \X Active IN
  Start(j, "dispatch", IF todo = {} THEN Ended
                       ELSE [Fresh EXCEPT !.pc = "create", !.kind = "dispatch", !.todo = todo])

\* next_retry_at <= now is not true of an unset one, whatever the status.
Due == {d \in Deliveries : table[d].status \in {"failed", "pending"} /\ table[d].next = "due"}

StartRetry(j) ==
  \E todo \in SUBSET Due :
    /\ todo = Due \/ Cardinality(todo) = MaxBatch
    /\ Cardinality(todo) <= MaxBatch
    /\ Start(j, "retry", [Fresh EXCEPT !.pc = "next", !.kind = "retry", !.todo = todo])

\* Mutation: any delivery that is not being made can be replayed.
ReplayableUnlessPending(d) ==
  table[d].status \notin {"absent", "pending"} /\ hook[d[2]] = "active"
Replayable(d) == table[d].status = "dead_letter" /\ hook[d[2]] = "active"

Replay(j) ==
  \E d \in Deliveries :
    /\ table[d].status # "absent"
    /\ Start(j, "replay", IF ~Replayable(d) THEN Ended
                          ELSE [Fresh EXCEPT !.pc = "reset", !.kind = "replay", !.item = d])

-----------------------------------------------------------------------------
(* What a job does before and between its attempts *)

Attempting(j, d) == [job[j] EXCEPT !.pc = "attempts", !.item = d]

CreateRecord(j, d) ==
  /\ job[j].pc = "create" /\ d \in job[j].todo /\ Writable({d}, Jobs)
  /\ table' = [table EXCEPT ![d] = NewDelivery]
  /\ job' = [job EXCEPT ![j] = Attempting(j, d)]
  /\ UNCHANGED <<hook, sent, accepted, replays, faults>>

\* The status was checked in an earlier SELECT of the session.
ReplayReset(j) ==
  LET d == job[j].item IN
  /\ job[j].pc = "reset" /\ Writable({d}, Jobs)
  /\ table' = [table EXCEPT ![d].status = "pending", ![d].attempts = 0]
  /\ replays' = [replays EXCEPT ![d] = @ + 1]
  /\ job' = [job EXCEPT ![j] = Attempting(j, d)]
  /\ UNCHANGED <<hook, sent, accepted, faults>>

\* The SELECT of the webhook flushes what the session has marked so far, which
\* takes the locks. A webhook the session still refers to is not read again.
NextRetry(j, d) ==
  LET q == [job[j] EXCEPT !.flushed = @ \union job[j].gone]
      active == d[2] = q.seen \/ hook[d[2]] = "active" IN
  /\ q.pc = "next" /\ d \in q.todo /\ CanFlush(j)
  /\ job' = [job EXCEPT ![j] =
               IF active
               THEN [q EXCEPT !.pc = "attempts", !.item = d, !.seen = d[2]]
               ELSE [q EXCEPT !.todo = @ \ {d}, !.gone = @ \union {d}, !.seen = NoHook]]
  /\ UNCHANGED <<hook, table, sent, accepted, replays, faults>>

FinishRetry(j) ==
  LET q == job[j] IN
  /\ q.pc = "next" /\ q.todo = {} /\ CanFlush(j)
  /\ table' = [d \in Deliveries |-> IF d \in q.gone
                 THEN [table[d] EXCEPT !.status = "dead_letter"] ELSE table[d]]
  /\ job' = [job EXCEPT ![j] = Ended]
  /\ UNCHANGED <<hook, sent, accepted, replays, faults>>

-----------------------------------------------------------------------------
(* An attempt: deliver_webhook *)

ReadAttempts(j) ==
  /\ job[j].pc = "attempts"
  /\ job' = [job EXCEPT ![j].pc = "post", ![j].attempt = table[job[j].item].attempts + 1]
  /\ UNCHANGED <<hook, table, sent, accepted, replays, faults>>

\* The receiver accepts and says so, refuses, or accepts and the answer is lost.
\* Mutation: any answer is a success.
AnyAnswer(answer) == answer # "lost"
Success(answer) == answer = "ok"

Post(j) ==
  LET d == job[j].item IN
  /\ job[j].pc = "post"
  /\ \E answer \in {"ok", "refused", "lost"} :
       /\ accepted' = IF answer = "refused" THEN accepted ELSE accepted \union {d}
       /\ job' = [job EXCEPT ![j].pc = "record", ![j].good = Success(answer)]
  /\ sent' = [sent EXCEPT ![d] = @ + 1]
  /\ UNCHANGED <<hook, table, replays, faults>>

\* Mutations: one attempt too few, one too many.
ExhaustedEarly(attempt) == attempt >= MaxRetries - 1
ExhaustedLate(attempt) == attempt > MaxRetries
Exhausted(attempt) == attempt >= MaxRetries

\* Mutations: a failed delivery is not scheduled; the outcome itself is stored.
AttemptedOnce(attempt, good) ==
  [status |-> IF good THEN "delivered" ELSE IF Exhausted(attempt) THEN "dead_letter" ELSE "failed",
   attempts |-> attempt, next |-> "none"]
AttemptedRaw(attempt, good) ==
  [status |-> IF good THEN "ok" ELSE "failed", attempts |-> attempt,
   next |-> IF good THEN "none" ELSE "later"]
Attempted(attempt, good) ==
  [status |-> IF good THEN "delivered" ELSE IF Exhausted(attempt) THEN "dead_letter" ELSE "failed",
   attempts |-> attempt,
   next |-> IF good \/ Exhausted(attempt) THEN "none" ELSE "later"]

\* The job has dealt with its item.
Continued(q) ==
  LET todo == q.todo \ {q.item} IN
  IF q.kind # "retry" /\ todo = {} THEN Ended
  ELSE [q EXCEPT !.todo = todo, !.item = NoDelivery, !.good = FALSE, !.attempt = 0,
                 !.pc = IF q.kind = "retry" THEN "next" ELSE "create"]

Record(j) ==
  LET q == job[j] IN
  /\ q.pc = "record" /\ Writable({q.item}, Jobs)
  /\ table' = [table EXCEPT ![q.item] = Attempted(q.attempt, q.good)]
  /\ job' = [job EXCEPT ![j] = Continued(q)]
  /\ UNCHANGED <<hook, sent, accepted, replays, faults>>

-----------------------------------------------------------------------------
(* Faults *)

\* A statement of the job raises. When it is the update after a successful POST
\* the except clause of deliver_webhook takes it for a failed POST; anything
\* else leaves the job, and rolls back what a retry batch has flushed.
Raises(j) ==
  /\ job' = [job EXCEPT ![j] = IF @.pc = "record" /\ @.good
                               THEN [@ EXCEPT !.good = FALSE] ELSE Ended]
  /\ UNCHANGED <<hook, table, sent, accepted, replays>>

DatabaseFails(j) ==
  /\ Busy(j) /\ job[j].pc # "post" /\ faults < MaxFaults
  /\ Raises(j)
  /\ faults' = faults + 1

\* SQLite gives up waiting for the other writer: "database is locked".
WantsToWrite(j) ==
  \/ job[j].pc \in {"create", "reset", "record"} /\ ~Writable({}, Jobs)
  \/ job[j].pc = "next" /\ ~CanFlush(j)

\* Mutation: writers wait for ever.
NeverTimesOut(j) == FALSE /\ UNCHANGED vars
LockTimesOut(j) ==
  /\ OneWriter /\ WantsToWrite(j)
  /\ Raises(j)
  /\ UNCHANGED faults

Crash ==
  /\ faults < MaxFaults /\ \E j \in Jobs : Busy(j)
  /\ job' = [j \in Jobs |-> IF Busy(j) THEN Ended ELSE job[j]]
  /\ faults' = faults + 1
  /\ UNCHANGED <<hook, table, sent, accepted, replays>>

-----------------------------------------------------------------------------

Init ==
  /\ hook \in [Hooks -> {"absent", "active"}]
  /\ table = [d \in Deliveries |-> [NewDelivery EXCEPT !.status = "absent", !.attempts = 0]]
  /\ job = [j \in Jobs |-> Fresh]
  /\ sent = [d \in Deliveries |-> 0]
  /\ accepted = {}
  /\ replays = [d \in Deliveries |-> 0]
  /\ faults = 0

\* The steps of a job that has been started.
Step(j) ==
  \/ \E d \in Deliveries : CreateRecord(j, d) \/ NextRetry(j, d)
  \/ ReplayReset(j) \/ FinishRetry(j)
  \/ ReadAttempts(j) \/ Post(j) \/ Record(j) \/ LockTimesOut(j)

Next ==
  \/ \E h \in Hooks : Register(h) \/ Deactivate(h)
  \/ \E d \in Deliveries : Elapse(d)
  \/ \E j \in Jobs : Dispatch(j) \/ StartRetry(j) \/ Replay(j) \/ Step(j) \/ DatabaseFails(j)
  \/ Crash

Spec == Init /\ [][Next]_vars

\* The event loop goes on with every job it can go on with.
FairSpec == Spec /\ \A j \in Jobs : WF_vars(Step(j))

\* Jobs that do not overlap.
OneJobAtATime == \A j, k \in Jobs : Busy(j) /\ Busy(k) => j = k
SerialSpec == Init /\ [][Next /\ OneJobAtATime']_vars
-----------------------------------------------------------------------------
(* What holds however jobs overlap and fail *)

TypeOK ==
  /\ hook \in [Hooks -> {"absent", "active", "inactive"}]
  /\ table \in [Deliveries -> Delivery]
  /\ job \in [Jobs -> Job]
  /\ sent \in [Deliveries -> Nat]
  /\ accepted \subseteq Deliveries
  /\ replays \in [Deliveries -> Nat]
  /\ faults \in Nat

\* The table never counts an attempt that was not made, although jobs write back
\* a count they read before the POST of another.
AttemptsWereMade == \A d \in Deliveries : table[d].attempts <= sent[d]

\* A delivery is recorded as delivered only if its receiver took it, whichever
\* of several overlapping attempts wrote last.
DeliveredWasAccepted ==
  \A d \in Deliveries : table[d].status = "delivered" => d \in accepted

\* A delivery is given up only when MAX_RETRIES attempts are on record, or when
\* its webhook is gone.
DeadLettersAreExhausted ==
  \A d \in Deliveries : table[d].status = "dead_letter" =>
    table[d].attempts >= MaxRetries \/ hook[d[2]] = "inactive"

\* Every job ends, although a retry batch holds locks during its POSTs (FairSpec).
EveryJobEnds == \A j \in Jobs : [](Busy(j) => <>~Busy(j))

-----------------------------------------------------------------------------
(* What holds only when jobs do not overlap *)

\* "A maximum of 6 attempts", again after each replay, and one more for each
\* failure that came between a POST and its record.
AtMostMaxRetries ==
  \A d \in Deliveries : sent[d] <= MaxRetries * (1 + replays[d]) + faults

\* What was delivered stays delivered: it is not attempted, given up or replayed.
DeliveredIsFinal ==
  [][\A d \in Deliveries : table[d].status = "delivered" => UNCHANGED <<table[d], sent[d]>>]_vars

\* Deliveries follow the retry policy, step by step: what is delivered stays so, each
\* attempt is one POST more, and the last one allowed is the one that gives up.
HookOf(d) == d[2]
Policy == INSTANCE DeliveryPolicy WITH
  status <- [d \in Deliveries |-> table[d].status],
  attempts <- [d \in Deliveries |-> table[d].attempts],
  posts <- sent,
  closed <- {h \in Hooks : hook[h] = "inactive"}
KeepsRetryPolicy == Policy!Spec

\* Until something fails, a delivery that is neither made nor given up has a time
\* for its next attempt, or a job is on it.
InHand(d) ==
  \E j \in Jobs : Busy(j) /\ job[j].item = d
NothingIsForgotten ==
  faults = 0 => \A d \in Deliveries :
    table[d].status \in {"pending", "failed"} => table[d].next # "none" \/ InHand(d)
=============================================================================
