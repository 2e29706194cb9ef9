# HandoffRail in TLA+

HandoffRail is a FastAPI service through which AI agents hand work to each
other: an agent posts a *packet*, another claims it, works on it, asks a human
if need be, and completes it. This directory models the service's own logic,
and its clients' logic, checks it with TLC and proves its central invariants with
TLAPS. Paths below are
relative to `src/`; `routers/`, `services/`, `middleware/` and `models/` stand
for `server/app/routers/` and so on.

1. [The system](#1-the-system)
2. [The modules](#2-the-modules)
3. [What the runs check](#3-what-the-runs-check)
4. [What is proved](#4-what-is-proved)
5. [Where code and documentation disagree](#5-where-code-and-documentation-disagree)
6. [What is not modelled](#6-what-is-not-modelled)
7. [Plan](#7-plan)

## 1. The system

One process runs one asyncio event loop. Every HTTP request is a coroutine with
its own SQLAlchemy session; the loop switches between coroutines only at an
`await`. Several processes may share a database (PostgreSQL) and a Redis. The
default database is SQLite.

| component | state it keeps | operations | talks to |
|---|---|---|---|
| status state machine (`services/state_machine.py`) | none: a table | `validate_transition`, `is_terminal` | packet endpoints, expiry |
| packet endpoints (`routers/packets.py`) | rows of `packets` and `packet_events` | create, batch create, chain, claim, batch claim, batch complete, PATCH, delete, respond | database, daily quota, live events |
| expiry task (`services/expiry.py`) | the same rows | every 60 s: expire what is older than 24 h | database |
| webhook delivery (`services/webhook.py`, `routers/hooks.py`) | rows of `webhooks` and `webhook_deliveries` | register, deactivate, dispatch, retry, dead-letter, replay | database, subscribers' HTTP servers |
| live events (`services/websocket.py`, `services/redis_pubsub.py`, `routers/websocket.py`) | connections, subscriptions, SSE queues | connect, subscribe, broadcast, heartbeat, relay from Redis | packet endpoints, Redis, browsers |
| rate limits and quota (`middleware/rate_limit.py`) | per-minute, per-hour and per-day counters, in Redis or in memory; a key cache | check and count a request, reserve a slot of the daily quota | Redis, database |
| keys and roles (`middleware/auth.py`, `middleware/rbac.py`, `routers/keys.py`) | rows of `api_keys`, a role cache | create, revoke, rotate, look up | database |
| tenants (`routers/tenants.py`) | rows of `tenants` | create, update, soft-delete | database |
| HTTP clients (`sdk/`, `sdk-typescript/`) | a retry counter per call, the async client's abort controller | every endpoint, with retries; `update_handoff` of the framework adapters | the server |
| live-event clients (`ws_client.py`, `ws-client.ts`) | socket, timer, delay, flags | connect, reconnect, close | the live events of the server |

**What is hard, and what makes each part correct.**

* *Packet endpoints.* A handler reads a row, changes the copy and commits it
  after at least one `await`; there is no lock, version column or conditional
  UPDATE. Whatever commits in between is overwritten column by column. Correct
  means, whatever overlaps: what was acknowledged is durable and on record,
  published events were committed, a completed packet says when. And as long as
  callers wait for each other: the audit trail agrees with the row, a packet has
  one owner, every change is a transition of the table, no decision is lost.
* *Expiry.* One sweep reads many rows, loops, and commits once; an exception
  loses the round. Correct means: every old packet ends, in spite of racing
  handlers and failed rounds.
* *Webhooks.* An attempt is read, made and written back in three transactions,
  by a dispatcher, any number of retry batches and replays. Correct means: a
  delivery is not given up early or tried too often, an accepted delivery is
  not sent again, a failed one stays scheduled.
* *Live events.* Subscribers come and go between the choice of the targets and
  the sending; a relay may bring an event a second time. Correct means: a
  stream gets what it asked for, tenants are kept apart as far as the code
  promises, a live subscriber hears of each event, limits on connections hold
  although `accept()` suspends between the count and the registration.
* *Rate limits, keys, tenants.* Check and increment are separate Redis calls,
  with a fallback that counts elsewhere; two middlewares keep a cache of keys
  that no revocation empties; checks and commits of handlers are apart.
  Correct means: limits are exceeded by what overlaps and by nothing else, no
  handler runs for too low a role or a revoked key, names stay unique.
* *SDK calls.* A lost answer to a POST is indistinguishable from a lost
  request. Correct means: what a call returns or raises tells the truth about
  what was done, and every call ends.
* *Live clients.* Reconnecting hangs on one timer and the events of the last
  socket, while the program calls connect() and close() as it likes. Correct
  means: a client that is to stay connected never stops in silence, and has no
  more sockets than it should have.

The line of code behind each hazard is in `PROJECT.json` (`hazards`), with the
properties that would catch it or the reason why none does.

## 2. The modules

| module | models |
|---|---|
| `PacketStateMachine` | the transition table |
| `PacketLifecycle` | packet endpoints, expiry task, failures and crashes |
| `HandoffBoard` | abstract: what the packet endpoints promise a caller |
| `MCLifecycle` | instances of `PacketLifecycle` for TLC |
| `PacketLifecycleProofs`, `PacketHistoryProofs`, `PacketSerialProofs` | its inductive invariants and their proofs |
| `WebhookDelivery` | webhooks, deliveries, and the jobs that attempt them |
| `DeliveryPolicy` | abstract: the retry policy of webhook delivery |
| `MCWebhook` | instances of `WebhookDelivery` for TLC |
| `WebhookDeliveryProofs` | its inductive invariants, with and without overlap, and the proofs |
| `EventBus` | WebSocket and SSE connections, broadcasts, the Redis relay, in several processes |
| `MCEvents`, `EventBusProofs` | its instance, its inductive invariant and the proof |
| `Gateway` | role check, rate limits, size limit, authentication, daily quota; keys and tenants |
| `MCGateway`, `GatewayProofs` | its instance, its inductive invariant and the proof |
| `SdkCalls` | calls of the four HTTP clients over a network that loses answers |
| `RemoteCall` | abstract: what a method of a client promises its caller |
| `MCSdk`, `SdkCallsProofs` | its instance, its inductive invariants and the proofs |
| `LiveClient` | the WebSocket clients and how they reconnect |
| `MCLive`, `LiveClientProofs` | its instance, its inductive invariant and the proof |

The modules meet where the components do. `PacketLifecycle` is what a handler does
with a request that `Gateway` let pass (its step `CommitPacket`); its `Publish` is a
call of `publish_event`, which `EventBus` begins with; `SdkCalls` sees the server as
the few things its endpoints can do to a caller ("new", "set", "once", ...), which
`PacketLifecycle` has in detail. Each hands the next a single value and shares no
state with it, so they are separate modules rather than one product.

### PacketLifecycle

The state is the database (`rows`, `audit`), the age of packets as far as the expiry
query can see it (`aged`), the time (`clock`), what subscribers were told (`told`), and
the local state of each handler (`req`) and of the sweep (`sweep`).

The audit trail of a packet is a *set* of entries: their ids are random and the only
order the code has is that of their timestamps (`routers/packets.py:1237`). An entry is
stamped when the handler makes it (`routers/packets.py:147`), before the commit that
stores it, so `Entry` takes the time of the read step, and two handlers may commit in
the other order. `clock` counts the stamps, so no two moments are alike: times of a
resolution of a microsecond on one server.

The behaviour starts with packets (`Seeded`) that earlier calls, one after the other,
have brought to one of `Stages`, with the trail those calls left (`SeedRow`,
`SeedTrail`). What a caller is told is a `Receipt`: the packet, the status the call gave
it and the entry the call made. A PATCH of content only gives no status and makes no entry.

A request goes through the four steps its coroutine is cut into by `await`:

| step | code | in the model |
|---|---|---|
| read | `SELECT`, the 404 and 409 paths, the changes to the ORM object, `_add_event` with its timestamp | `PrepareCreate`, `ReadChain`, `ReadClaim`, `ReadComplete`, `ReadPatch`, `ReadDelete`, `ReadRespond`: load a copy, the set of columns that were assigned (`dirty`) and the audit entry, or end with an error |
| commit | `await db.commit()` | `Commit`: `MergeRow` writes the dirty columns of the copy over the row *as it is now* and adds the entries. That is what SQLAlchemy's UPDATE does, and where updates are lost |
| refresh | `await db.refresh(packet)` | `Refresh`: PATCH and respond publish the status they read here. `delete` has no refresh |
| publish | `await publish_event(...)`, then the answer | `Publish`: the event becomes visible and the packet is answered; a batch goes on with its next packet, with the same session |

`CommitFails`, `RefreshFails` and `Crash` are the failures. A failed statement
leaves the session of a batch unusable (SQLAlchemy raises until a rollback that
nobody does), so `Broken` fails the entries that are left; what was committed
stays committed. A crash forgets handlers and sweep; the tables stay.

`SweepRead`, `SweepCommit` and `SweepFails` are a round of
`check_and_expire_packets`. `Poisoned` is the case in which the loop raises (see
section 5): no round can then be completed, which the model states as the guard
of `SweepRead`.

Abstractions, and why they lose nothing the properties can see:

* one tenant: every query filters by the caller's `tenant_id`;
* `context`, `actions` and `dependencies` are columns like `decisions` that are
  replaced rather than merged and that nothing reads back; only `decisions`,
  which is read, appended to and written back, is kept, one decision per request;
* of `metadata` the target agent (who is also the claimant), `claimed_at` and
  `completed_at` are kept, the times as "set or not";
* an id that does not exist or a body that validation refuses ends in the same
  way as a refused transition, so the callers of the model name existing packets;
* the entries of a batch are dealt with in any order (the code goes through the
  caller's list, which may have any order) and are distinct;
* the read step is one action although the SELECT itself is an await: what
  another handler does before the SELECT returns is the same as what it does
  before the read step;
* the logging level is the default one (see section 5 on `expiry.py:110`);
* one clock: servers whose clocks differ, or that are set back, would disorder the
  trail even of calls that do not overlap.

`MaxFaults` bounds failures and crashes; nothing else is capped.

### HandoffBoard

The service as a caller would describe it: every operation is one step; a packet
moves along the transition table; owners change by claims; decisions are only
added. `PacketLifecycle` implements it (`IsHandoffBoard`) as long as calls do
not overlap, and not otherwise: that is what the missing lock costs.

### WebhookDelivery

The state is the two tables (`hook`, `table`), the local state of each *job* (a
call of `dispatch_webhooks`, `retry_failed_deliveries` or `replay_dlq_entry`), and
what the outside saw: POSTs made (`sent`), events taken by the receiver
(`accepted`), resets by a replay (`replays`).

An attempt (`deliver_webhook`) is three steps, each with a session of its own:
`ReadAttempts`, `Post`, `Record`. Around them a dispatch creates the record of the
delivery (`CreateRecord`), a replay resets it (`ReplayReset`), and a retry batch
(`StartRetry`, `NextRetry`, `FinishRetry`) goes through a list it read once, in a
session that stays open to the end of the batch. Three details of that session
matter and are kept:

* `delivery.status = "dead_letter"` is a pending change (`gone`) until the next
  SELECT flushes it (`flushed`): from then on the session holds a write lock.
  `Writable` says who is locked out: on SQLite every other writer
  (`OneWriter = TRUE`), on PostgreSQL those of the same row. A writer on SQLite
  gives up after the driver's timeout (`LockTimesOut`);
* a webhook the session still refers to is not read again (`seen`: the local
  variable `webhook` keeps the object in the identity map, and rows of known
  objects do not refresh them);
* an exception that leaves the batch rolls its marks back.

`Raises` is what an exception does: after a successful POST it is caught by the
`except` of the POST and the delivery is recorded as failed; anywhere else it
leaves the job. `Crash` forgets the jobs. A receiver that accepts but whose answer
is lost is the answer "lost" of `Post`.

Abstractions: one tenant and one event type (both only filter the list of
webhooks); a delivery is named by the dispatch and the webhook; `next_retry_at` is
unset, in the future or past, and passes by `Elapse`; the list of a batch is any
set of due deliveries that `LIMIT` allows, in any order, since there is no
ORDER BY; no handler of the repository calls `dispatch_webhooks`
(`services/__init__.py:3` exports it), so a dispatch may come at any time.

### DeliveryPolicy

Webhook delivery as a receiver and an operator would describe it, with no jobs, sessions
or locks: open deliveries are POSTed, an accepted one is settled for good, each outcome on
record counts, the one that reaches `MAX_RETRIES` is the last, a delivery whose webhook is
gone is given up, and only a replay takes one back from the dead letters. `WebhookDelivery`
implements it (`KeepsRetryPolicy`) as long as jobs follow each other.

### EventBus

A connection (`conn`) is at a place of its handler: a socket is accepted with the
manager's lock held (`Admit`, `Accept`), gets its welcome (`Welcome`), changes its
subscriptions (`Subscribe`, `Unsubscribe`), and is removed when its client is gone
(`Leave` is the client, `Disconnect` the handler). An SSE request registers in one step
(`Open`), is fed through its queue (`Pump`) and removed (`Close`). A socket whose
welcome fails is a *ghost*: the finally clause of `websocket_endpoint` raises over an
unbound `heartbeat_task` before it disconnects, and the place is held for good.

A *broadcaster* (`cast`) is a call of `publish_event`, named by its event, or the Redis
listener of a process. `Collect` is the part of `broadcast` under the lock, `Send` one
`send_json` outside it, `FeedStreams` the broadcast to the streams, which does not
suspend. `ToRedis` relays the event to all listening processes; `RedisFails` does so or
does not, and broadcasts the event here again through the fallback; `Listen` takes a
relayed message. Neither the relay nor the fallback knows the event's tenant (`scoped`).
`ListenerDies` and `Stop` are the faults.

`got` is what clients saw. Heartbeats and keepalives are sent and change nothing; a
slow client holds up the broadcaster at `Send`, as in the code, because that step may
come arbitrarily late.

### Gateway

A request passes, in the order of `create_app`: the role check (`CheckRole`,
`FillRole`), the lookup of whom to count it for (`KeyInfo`, `FillInfo`), the minute and
the hour, the size limit (`CheckSize`), the authentication (`Authenticate`), and a
creation also the day. Each of the windows is `Ask` and `Add`, the Redis calls it is
made of; without Redis, or when a call fails (`NoRedis`, `RedisFails`), the counters of
the process decide in one step (`Fallback`). The handlers that change keys and tenants
are a SELECT (`SelectKey`, `SelectTenant`) and a commit (`CommitKey`, `CommitTenant`);
`IssueKey` checks nothing that can change and is one step.

A key's role, tenant and tier never change, so a cache is the set of keys it holds; that
an entry lives for 300 s is the choice, at every lookup, whether it is still there.
`late` records that a request came with a key already revoked, `passed` which windows it
passed by whose count, `beside` how many others were between their question and their
count; they are read by the properties only. Everything happens within one minute, hour
and day: a window that rolls over starts again at zero, which can only let more pass in
the next one.

### SdkCalls

One client object, of one of the four kinds, and the calls made with it. `Send` puts a
request on the wire. `Handle` is the server: it serves the request, refuses it, or fails
before or after its commit; also when the client has given it up. What can be done once (a
claim) it serves in two steps, because its handler has two: `Pass` finds that it is not done
yet, `Commit` does it whatever has been committed since. So two claims that overlap are both
answered 200, as in `claim_race`. Only of creations with a unique name ("unique": the index
on `Tenant.name`, `models/db.py:161`) does the commit itself refuse the second (`Admitted`).
A batch whose handler fails lists its packet as failed, the one it has committed included
(`Failure`, `routers/packets.py:619-651`). `late` records that a call began when what can be
done once was done; only the properties read it. `Receive` translates
the answer as the client's code does (`PyOutcome`, `TsOutcome`); `Broken` and `Timeout`
end an attempt without one, and `Transient` is the retry, or not. The methods of each
client are listed with what they do to the server, so that a run uses the effects that a
kind offers. The abort controller and the timers of the async TypeScript client
(`ctrl`, `armed`) are kept because all its calls share one controller. `update_handoff`
is a call with two stages, a GET and a PATCH; the other methods of the framework adapters
are one request each, or, like `poll_for_handoff`, several that only read.

### RemoteCall

A method of a client as its caller may think of it, with no requests, answers, retries or
timers: it is invoked, takes effect at most once unless it is sent again, and returns. An
error that blames the request means no effect, a conflict that it was done already, a result
that it was done; only a call that was given up or sent again may take effect later. What
can be done once (a claim) is not done by a call that is made after it was done; calls that
overlap may each do it and each be told so, because the server promises no more, and only
unique names have one winner. The partial result of a batch promises nothing. `SdkCalls`
implements it (`IsRemoteCall`) for all four clients, with no assumption on the network; that
the synchronous TypeScript client never sends a request again is part of the mapping.

### LiveClient

`TsNext` is `AsyncWebSocketClient`: its methods, the events of its sockets, its timer.
`PyNext` is `HandoffRailWSClient`, whose `connect()` is a loop that returns when the
client is closed. A program may call `connect()` again before the last call is done, and
`close()` or `disconnect()` at any point: nothing in either client prevents it.

The Python client's logger is one of the standard library (`ws_client.py:17`), called with
keyword arguments that such a logger refuses with a TypeError as soon as the level is
enabled. `logs` is the level of the program that uses the client: "none" (errors are off),
"errors" (Python's default) or "all" (INFO and up). At "errors" a refused dial, or any other
exception but a closed connection, raises at line 199, inside the handler that was to log it,
and the call of `connect()` ends (`Breakdown`, pc "raised") with `_running` still true; at
"all" the line that announces a successful dial (164) leads there too. A backoff after a
failed dial exists at "none" only. A socket that breaks off is another path (`Dropped`),
which reconnects at the default level.

## 3. What the runs check

| run | bounds | properties |
|---|---|---|
| `lifecycle` | 2 packets, one of them there already, created or in progress; 2 agents; 2 requests (one free to use every single-packet endpoint but create, one every batch endpoint and PATCH), 1 fault | `TypeOK`, `CompletedIsStamped`, `ChainedBothWays`, `AckedIsDurable`, `PublishedStatusWasReached` |
| `lifecycle_serial` | the same packets; 3 requests that do not overlap (claim or create; batch complete, PATCH or respond; batch claim or delete) | `AuditAgreesWithRow`, `ClaimsAreExclusive`, `FromIsPrevious`, `IsHandoffBoard` |
| `expiry` | 2 packets, one there already, created or awaiting a human; 2 requests (PATCH or delete; create), 1 fault, fairness | `OldPacketsExpire` |
| `claim_race` | 1 packet, 2 claims | `ClaimsAreExclusive`, violated |
| `expiry_blocked` | 2 packets, no requests, a short checkpoint timeout | `OldPacketsExpire`, violated |
| `webhook` | 2 webhooks; a dispatch, a retry batch, and a second batch or a replay, overlapping on SQLite; 1 fault; fairness | `TypeOK`, `AttemptsWereMade`, `DeliveredWasAccepted`, `DeadLettersAreExhausted`, `EveryJobEnds` |
| `webhook_serial` | 2 webhooks; a dispatch, then 3 batches or replays that do not overlap; 1 fault | `AtMostMaxRetries`, `NothingIsForgotten`, `KeepsRetryPolicy` |
| `webhook_resend` | the same on SQLite, 2 batches, no fault | `AtMostMaxRetries`, violated |
| `events` | 2 processes, with Redis or without; 2 sockets of a tenant limited to one place; 1 event of another tenant and a stream of that tenant; the event published in either process; 2 clients that may leave, 1 fault; fairness | `TypeOK`, `LimitHolds`, `CopiesBounded`, `StreamsGetOnlyAsked`, `ForeignOnlyByRelay`, `NothingIsDropped`, `SubscribersHear` |
| `gateway` | 2 requests of 6 operations each or fewer, 4 keys (two admins, a writer, one to be issued), limits of 1 and 2, 2 tenants with 2 names, 1 fault | `TypeOK`, `RoleEnforced`, `RevokedIsRefused`, `CountedForOwner`, `HourLimitHolds`, `OvershootBounded`, `TenantNamesUnique` |
| `sdk_calls` | 2 calls, one that claims, creates a unique name or merges, one with any of seven effects; 3 kinds of client, 1 retry, 1 fault; fairness | `TypeOK`, `IsRemoteCall`, `MergesKept`, `CallsEnd` |
| `live_client` | 3 calls of connect, 2 of close, 4 sockets, 1 throwing callback, both languages, 3 levels of logging | `TypeOK`, `KeepsTrying`, `SocketsExplained` |

Why these bounds: the races are races of two (a stale copy and one commit in
between), and the sweep is a third actor; two packets are what batches and chains
need to be partly done; one fault at any of the steps is every place an error
path can start from, and after a crash nothing of the handlers is left that a
second one could hit. That a packet may already be in progress (`Stages`) lets one request
complete it while the other holds a copy from before. Three sequential requests reach every
status that follows from `created` or `in_progress` within a call or two of both endpoints
that could disturb it.

For webhooks `MaxRetries` is 2 where the code has 6: the code compares the count
with the limit and with nothing else, and with 2 there is a first attempt, a last
one, and a replay that starts again. `MaxBatch` is 2: a batch that marks one
delivery and attempts the next is where the locks meet.

For live events the lock matters between two sockets of one tenant, the relay between
two processes, the filters between a tenant and another; one event is enough because no
two broadcasters share anything but the lock. In the gateway the races are of two
requests; limits of 1 make every second request meet a full window. `MaxRetries` is 1
for 3 in the SDKs: a first attempt and a last one. The async Python client has the
`_request` of the synchronous one and a subset of its methods, so the run leaves it out.
Four sockets and three calls of `connect()` are what it takes for an old socket, a
forgotten one, a new one and a reconnect to exist at once.

*Any interleaving* (`Spec`). The properties that survive overlapping handlers are
those about things written in one transaction: status `completed` implies
`completed_at`, also when a copy from before is committed over it or it over such a copy,
because every path to it writes both columns and no other path writes `metadata` without
the status; a chained packet and its parent both know; a caller who was told that a packet
changed its status finds the entry of that very call in the audit trail, after a crash too
(a PATCH of content leaves none); a published status was committed.

*Without overlap* (`SerialSpec`). `OneAtATime` is the assumption that callers wait for each
other and for the sweep. Then the newest entry of the trail leads to the row's status,
claims are exclusive, the `from_status` of an entry is the status before it, and the table
behaves like `HandoffBoard`. `claim_race` shows that the assumption is needed. Without it
the trail and the row can disagree as well: a claim stamped before a delete and committed
after it leaves a claimed packet whose newest entry says "expired". For webhooks likewise:
jobs that overlap may each send a delivery, and the last to record wins, so the retry policy
(with it, that a delivered delivery stays so) and the bound on POSTs hold for jobs that
follow each other.

*Progress* (`FairSpec`). Weak fairness of a handler's steps is the event loop's: a
coroutine whose awaited call has returned is scheduled. Weak fairness of the sweep
is `expiry_task`'s `while True` with a 60 s sleep, which catches every exception.
Nothing is assumed of callers, and faults are finite (`MaxFaults`). A packet
revived by a stale commit after it expired is found again by a later round. A job's
steps are weakly fair for the same reason as a handler's; its POST ends because the
HTTP client has a timeout of 10 s. The second answer of a human or the next call of a
retry endpoint is never assumed.

In `EventBus` one weak fairness of all the event loops' steps is enough, because between
two steps of the outside only finitely many of them can be taken; no client and no
publisher owes anything. `SubscribersHear` ends at the first fault: a dead listener is not
started again, and then the promise is gone. In `SdkCalls` each call is fair for itself
(its program runs on and its timers fire), network and server are not. `CallsEnd` has to
leave out a call of the async TypeScript client whose controller another call replaced:
nothing ends that one (see section 5).

*Live events.* Until a fault, no step takes an event off its way to a client that waits for
it, whatever comes, goes or subscribes between the collection of the targets and the sends
(`NothingIsDropped`); with fairness it arrives (`SubscribersHear`). Only connections of the
event's tenant (`Audience`) are promised it: that the relay brings it to other tenants too
is no promise, and a relay that filters them keeps both properties. In the run the audience
is the stream; before it is fed, the event passes through the lock and the sends to the
other tenant's sockets. That a socket loses nothing rests on the theorem. What the lock is
for holds: the limit, in each process. A connection gets an event at most once from
elsewhere, twice from its own process because the listener hears its own process's messages,
three times when Redis fails after taking the message. Another tenant's event arrives only
through Redis or its fallback, never by `publish_event` itself.

*The gateway.* Stale caches decide whom a request is counted for and whether the role
check is made on old data, but never let a revoked key or a low role through, because
authentication reads the database. The hour is exact in Redis (the increment returns the
count that decides); the minute and the day are exceeded by the requests that were
between question and count at once, and a full minute moves on to the process's memory.

*The clients.* Each is a remote call to its program: an error that blames the request means
that nothing was done unless the request had been sent before; a result means that it was
done, but in TypeScript a forbidden request returns as well, which the mapping shows as the
result "forbidden". Two claims that overlap can both return. A client that is to stay
connected always has something that will reconnect it, or a call of `connect()` that raised
to its caller; in TypeScript it can also be lost to a factory that throws in the timer.

## 4. What is proved

`PacketLifecycleProofs`, for any packets, agents, requests, menus, patch bodies
and number of faults, from the module's `ConstantsAssumption` alone:

* `TypeCorrect == Spec => []TypeOK`
* `CompletedStamped == Spec => []CompletedIsStamped`

The inductive invariant is
`Inv == TypeOK /\ HandlersOK /\ SweepOK /\ RowsExplained /\ CompletedIsStamped`.
The last is not inductive: a commit writes a copy that was read long
ago, so `HandlersOK` says of every handler about to commit what makes that safe
(`Prepared`). A creating endpoint logs "created" and inserts a row that is `created`
or `awaiting_human`. Any other one that assigns the status has an audit entry that
leads to the status it writes, and if that is `completed` it also writes metadata
with a completion time; one that does not assign the status writes neither metadata
nor an entry. Then for `Commit`, whichever row the copy meets, the merged row is stamped if
it is completed, and *some* entry of the trail led to its status (`RowsExplained`; that the
newest did holds without overlap only). One lemma per action (`ReadStep`, `CommitStep`,
`SweepCommitStep`, ...) shows that it preserves `Inv`; `StepInv` puts them together,
`InvAlways` closes the induction.

`PacketHistoryProofs` goes on from there, with what the outside was told:

* `AckedDurable == Spec => []AckedIsDurable`
* `PublishedReached == Spec => []PublishedStatusWasReached`
* `ChainedBoth == Spec => []ChainedBothWays`

Its invariant `History` is relative to `Inv`. `HandlerKnows` follows a handler from its
promise to its answer: what it has prepared is what it will answer, publish and link
(`Promised`), and after the commit the trail has the entry of its own receipt (`Acked`). Two
facts about ids carry the rest: a creating endpoint's ids do not exist before its own
commit, and no two of them draw the same one (`IdsApart`), so a parent is never its own
child and an entry about a link cannot be written twice by different hands. Trails only grow
(`Grown`), which is why what a handler knows outlives everything that others commit
(`KnownOn`). That the expiry task brings no packet into being needs `SweptExist`: what it
read is still there when it writes.

`PacketSerialProofs` proves what holds when calls do not overlap:

* `ImplementsBoard == SerialSpec => IsHandoffBoard`
* `AuditAgrees == SerialSpec => []AuditAgreesWithRow`
* `PreviousStatusRecorded == SerialSpec => []FromIsPrevious`
* `OneHolder == SerialSpec => []ClaimsAreExclusive`

`SerialSpec` implies `Spec`, so `Inv` and `History` hold. On top of them, `Current` says
what `OneAtATime` buys: the copy a handler is about to commit was made from the row as it
still is (`Fitting`), and so was what the sweep has read (`SweepFits`). `Fits` is checked
once per endpoint, at its read (`ReadFits`): the row it will write is one move of the board
away (`Adds`, `Claims`, `Updates`), and the entry it will log tells that move (`Tells`).
`CommitMoves` then gives the step of the board and `LedgerOn` the step of the audit trail.
That the entry a handler holds is newer than all in the trail, whatever failed before, is
`Dated`: nobody else has stamped one since. `PreviousNamed` needs `Shows` (the newest entry
leads to the row's status, which is `AuditAgreesWithRow`), and two claims without a human
between them would need a claim that no longer holds of the row, which `Settled` excludes.
`Unborn` is why a created packet starts with no decisions. Under `Spec` none of this holds:
the run `claim_race` breaks it at `Fitting`.

`WebhookDeliveryProofs`, for any webhooks, jobs, menus, limits and number of faults
and on either database, again from `ConstantsAssumption` alone:

* `TypeInvariant == Spec => []TypeOK`
* `AttemptsMade == Spec => []AttemptsWereMade`
* `DeliveredAccepted == Spec => []DeliveredWasAccepted`
* `DeadLettersExhausted == Spec => []DeadLettersAreExhausted`

What a row says (`RowTells`) was written by a job that had made its own attempt, so
the invariant also says what a job knows at each of its steps (`JobKnows`): before the
POST its attempt's number is at most one more than the POSTs made, after it at most
their number, and a good answer means the receiver has the event; what it means to
give up has an inactive webhook. These facts only ever become truer, because POSTs
and acceptances are added and a webhook never becomes active again (`Forward`,
`KnowledgeLasts`): that is why a stale job cannot break a row.

For jobs that follow each other, `WebhookDeliveryProofs` also proves, for any number of them
and of failures and crashes:

* `NothingForgotten == SerialSpec => []NothingIsForgotten`
* `DeliveredFinal == SerialSpec => DeliveredIsFinal`
* `RetryPolicyKept == SerialSpec => KeepsRetryPolicy`
* `RetriesBounded`: if `OneWriter = FALSE`, `SerialSpec => []AtMostMaxRetries`

The strengthening `Serial` says that what the one job under way has read is still so
(`JobSees`): the row it attempts is pending or failed and has the count it read, the rows on
its list are still due, those it is yet to create do not exist; and that a row never counts
past `MaxRetries`, and has an attempt left while it is pending or failed (`RowFits`). Each
action then writes only a row that is its own and not delivered (`JobWrites`), or none
(`JobMoves`), and a job lets go of an unmade row only with a time for its next attempt or
after a failure. Against `DeliveryPolicy` a step of a job is a step of the policy or a
stutter: the POST, the record of its outcome, which by `JobSees` and `JobKnows` is written
over the row it was read from, the mark of a delivery whose webhook is gone, which shows
only with the commit, and the replay. The bound on POSTs needs the count `Tally`: a POST is
on record, owed by the job that is about to record it, forgiven by a replay (at most
`MaxRetries` at a time, by `RowFits`), or it met a failure. The hypothesis `OneWriter =
FALSE` is needed: on SQLite a retry batch whose session already holds the lock waits for
itself and gives up between a POST and its record, without any fault; the run
`webhook_resend` shows it.

`GatewayProofs`, for any requests, processes, keys, owners, tiers, limits, tenants, names
and number of faults:

* `TypeInvariant == Spec => []TypeOK`
* `RolesEnforced == Spec => []RoleEnforced`
* `RevokedRefused == Spec => []RevokedIsRefused`
* `CountedRight == Spec => []CountedForOwner`
* `NamesUnique == Spec => []TenantNamesUnique`
* `HourHolds == Spec => []HourLimitHolds`
* `OvershootLimited == Spec => []OvershootBounded`

`Inv` says what is known of a request at its place (`RequestKnown`). The middlewares learn
about a key from a cache or a SELECT that may be old, so what they know is true *unless
the key is gone*: a request past the role check has a sufficient role or its key was
revoked, one past the lookup is counted for its key's tenant or its key was revoked. The
authentication, which reads the table, then leaves the first alternative only. Keys go
from none to live to revoked with everything else fixed (`Forward`), so such knowledge
lasts (`KnowledgeLasts`) whatever other requests commit. `HourCounts` is the inductive
form of the limit: for every tenant and *every* n, those who passed with a limit of at
most n are at most n and at most the count, in Redis and in each process.
`TwiceKnown`, relative to `Inv`, is the inductive form of the overshoot of the minute and the
day, which are asked about in one call and counted in another: of *every* set of requests
that passed or have found the window open (`Holders`), one explains the set's size by the
limit and those beside it when it asked (`Crowds`). The last to ask is such a one
(`AskedCrowd`): the others have been counted, and the count was below the limit, or were
beside it. This part holds with failures of Redis too; the processes' own counts
(`CountedInMemory`) too, but not that the day has none (`DayInRedis`).

`EventBusProofs`, for any processes, connections, events, channels, limits and number of
faults:

* `TypeInvariant == Spec => []TypeOK`
* `LimitsHold == Spec => []LimitHolds`
* `ForeignNeedsRelay == Spec => []ForeignOnlyByRelay`
* `StreamsAsked == Spec => []StreamsGetOnlyAsked`
* `CopiesLimited == Spec => []CopiesBounded`
* `NothingDropped == Spec => NothingIsDropped`

`Admitting` is why the limit holds: a socket that waits for `accept()` has the lock, so
no other can be counted, and found a place free, which others can only add to by leaving.
`Flow` follows an event on its way: everything a broadcaster aims at, an inbox holds, a
queue holds or a client got is of the connection's tenant or has been out (`BeenOut`), and
what is in a stream's queue is on its channels. That an event has been out stays true for
good (`Onward`), also when a process stops. `Copies`, relative to that, counts who has what:
a broadcaster has one copy of its event ready for a connection from its tenant, one more
from everyone after Redis failed, less the one it has yet to serve (`OwnCopies`); the relay
has one, when the event has been out and is no longer on its way to the connection's
process (`RelayCopies`), since a process relays an event once (`RelayedOnce`); and what a
connection has, or a stream has queued, never exceeds their sum (`Counted`).
`NothingDropped` is proved action by action (`Kept`): the place on the way (`Way`) that an
action empties for a client is emptied into the next one or into the client's hands; for a
target collected under the lock because nothing looks at its subscriptions again, for a
stream because the subscriptions match when it is fed (`KeptByCaster` is what the actions of
a broadcaster have in common).

`SdkCallsProofs`, for any number of calls, retries and faults and for all four clients:

* `TypeInvariant == Spec => []TypeOK`
* `BlameTells == Spec => []BlameMeansUndone`
* `OkTells == Spec => []OkMeansDone`
* `ClientsAreRemoteCalls == Spec => IsRemoteCall`
* `MergesStay == Spec => []MergesKept`

`Inv == TypeOK /\ CallsKnown` says what is known of a call from what is on the wire
(`Known`): a request that is off the wire can do nothing any more, so before the first
retry nothing is done twice, an answer that blames the request was given without doing
anything, and an answer "ok" was given by the request that did it. `Order`, inductive with
it, says of what can be done once that a handler past its check belongs to a call that was
made before it was done, and that who was made later (`late`) never does it; nothing in it
says who wins, since overlapping calls may all. The step to `RemoteCall` needs more of the
answers that are still to be read (`Tells`): a conflict was answered when it was done, one
that forbids was given by a request that did nothing, and the errors a client makes of them
keep that meaning (`OverMayReturn`). Everything between the invocation and the return is then
a stutter (`AlikeStutters`), the effect at the server (`AnsweredRemote`), or the resending
(`RetriedRemote`); the request of a call that has returned can only act if the call was given
up or sent again, because otherwise it is off the wire. `Merges` is relative to
it and follows the entries of `update_handoff`: one is missing, in the context (`Missing`),
in what a call has just read (`MissingRead`), or although its call had ended before
(`BeforeEnded`), only if there is a cause, an update that overlapped, rewrote, was sent
again or given up; and a cause stays one (`Stays`, `LostOn`). Only the synchronous Python
client merges (`PyOnly`), so what the other kinds do needs no argument.

`LiveClientProofs`, for both clients, with any number of sockets, calls and throwing callbacks
and at any level of logging:

* `TypeInvariant == Spec => []TypeOK`
* `TriesAlways == Spec => []KeepsTrying`
* `SocketsAccounted == Spec => []SocketsExplained`

`KeepsTrying` is inductive, each way to end a connection leaving one to start the next, or a
call of `connect()` that raised. `SocketsExplained` needs to know what may still become a
socket. In TypeScript (`Budget`) sockets that are not done with, a set timer and slow error
callbacks together never exceed the calls of connect() plus the first connections that
failed; and without the socket that `close()` would close they are one fewer (`Spare`). In
Python every live socket belongs to a call of its own (`Owned`), and without reconnecting
each was made by a call or after a clean close (`Few`).

All of these rest on the module's `ConstantsAssumption` alone, `RetriesBounded` on its
hypothesis as well. Every invariant, action property and refinement a passing run checks is
proved, and a few properties that no run repeats because a refinement it checks implies them
(`BlameMeansUndone`, `OkMeansDone`, `DeliveredIsFinal`). Only model-checked is liveness
(`OldPacketsExpire`, `EveryJobEnds`, `SubscribersHear`, `CallsEnd`): fairness
and ENABLED are out of the prover's reach.

## 5. Where code and documentation disagree

Shown by a run:

* **Overlapping claims** (`claim_race`): `routers/packets.py:862` says "Conflict
  detection ensures only one agent can claim a packet". Both claims read the packet
  as claimable, both commit, both callers get 200, the second owner stays.
* **One packet stops the expiry of all** (`expiry_blocked`):
  `services/expiry.py:57` says "Check all non-terminal packets for TTL expiry and
  expire stale ones". On SQLite `created_at` comes back without a time zone; line 95
  subtracts it from an aware `now` when a checkpoint has a timeout below the
  default TTL, the TypeError abandons the round before its commit, and the next
  round meets the same packet.
* **A retry batch that locks itself out** (`webhook_resend`):
  `docs/api-reference.md:331` promises "a maximum of 6 attempts". On SQLite, once a
  batch has marked a delivery of a deactivated webhook, its open transaction keeps
  its own attempts from being recorded: the next delivery is POSTed, neither outcome
  can be written, the exception leaves the batch, the mark is rolled back, and the
  next batch does the same.

Met while modelling, kept in the model as the code has them:

* `routers/packets.py:703` builds the details of batch completion after the status
  was assigned, so `from_status` is "completed" (`NamesPrevious` leaves it out);
* `services/state_machine.py:65` calls `completed` terminal, the table lets it go
  to `expired`, and so does `delete`;
* a PATCH that changes content only writes no audit entry, a PATCH to `claimed`
  sets no `claimed_at`, and decisions appended by overlapping PATCHes are lost
  (`routers/packets.py:994`);
* the audit trail is read in the order of timestamps that are set before the commit
  (`routers/packets.py:147`, `1237`), so after overlapping calls its newest entry need not
  be the last change;
* an entry of a batch whose refresh fails is listed as failed although it is committed
  (`routers/packets.py:619-651`);
* a failed commit in a batch fails the entries after it, although
  `routers/packets.py:427` promises a transaction for each packet;
* a checkpoint's `timeout_seconds` is only looked at once the packet is older than
  the default TTL, so a short one never takes effect early (`services/expiry.py:84`);
* the expiry task publishes no event, `sdk-typescript/README.md:195` lists one;
* `services/expiry.py:110` calls a stdlib logger with keyword arguments, which
  raises when INFO is enabled and ends the task; line 125 keeps no reference to it;
* nothing calls `dispatch_webhooks`, and no scheduler calls
  `retry_failed_deliveries` (only `POST /hooks/dlq/retry-all` does), although
  `docs/api-reference.md:331` speaks of a schedule and `README.md:338` says that
  webhooks fire;
* a delivery is created as pending with no `next_retry_at`, which no batch selects:
  if its first attempt is never recorded (a crash, or SQLite's lock timeout), it is
  left for ever (`NothingIsForgotten` holds only until the first fault);
* the sixth attempt exhausts, so the last delay of the backoff schedule is not used;
* on PostgreSQL two overlapping batches that meet their deliveries in opposite order
  can wait for each other for ever: each holds, in its idle session, the row that the
  other wants to mark or record. `Webhook.cfg` with `OneWriter = FALSE` shows the wait;
  the database ends it if both wait inside a statement of the batch's own session,
  not if one waits in an attempt's.

Live events:

* the relay and the fallback send an event to all tenants, although the comment at
  `main.py:61` says that the filtering is applied at the broadcast step;
* a listener that ends is not started again, and `_connected` stays true;
* a socket gets everything of its tenant before its first subscription and again after
  it has withdrawn the last one; the limits are per process;
* a slow client holds up the publisher and, with it, the request that publishes; the
  queue of a stream has no bound;
* an unknown or revoked key on `/ws` is a free connection of tenant "default";
* a socket whose welcome message fails is never removed (`routers/websocket.py:163`).

Gateway:

* a full minute in Redis refuses nobody: for `Retry-After`, `zrangebyscore` is called
  with `count=1`, which redis-py does not know, the TypeError counts as a failure of
  Redis and the process's own window decides: up to the limit again in each process;
* `request.state.api_key` is never set, so the size limit is that of the free tier for
  everyone, and new keys are always of the free tier;
* requests with an unknown or revoked key are counted for tenant "default" before they
  are refused; a tenant's tier, `handoffs_per_day` and `max_api_keys` are read by nothing;
* deleting a tenant leaves its keys working, and its name is taken for good: the check
  for duplicates looks at open tenants, the unique index at all;
* two overlapping rotations of a key both succeed, and one that overlaps a revocation
  leaves a live successor (`routers/keys.py:204`);
* a batch creation takes one place of the day, and a failed creation gives none back.

SDKs:

* the synchronous TypeScript client never retries, although `maxRetries` is documented
  (`client.ts:86`): the ConnectionError is made before the retry loop looks;
* the TypeScript clients return normally on 403, 413 and 422; in Python an answer with
  an error status that is not JSON counts as a broken connection, so a POST whose handler
  failed after its commit is sent again; for other 4xx a raw JSONDecodeError escapes;
* after a lost answer a creation is made twice, and a claim conflicts with itself;
* all calls of one async TypeScript client share `_abortController`: the timer of one
  aborts another, or leaves one without a timeout; timeouts are not retried;
* `update_handoff` loses the entries of an overlapping update, and with a summary it
  replaces the context that it otherwise merges;
* an `onclose` of an old socket forgets the new one; a slow error callback of a failed
  first connection leaves two sockets; `close()` then closes one of them;
* a factory that throws in the timer ends the reconnecting, although the comment at
  `ws-client.ts:538` says that onclose will fire;
* `ws_client.py:17` is a stdlib logger that is called with keyword arguments, which raises a
  TypeError where the level is enabled: at the default level a refused dial (199), a message
  that is no JSON (177) or a throwing callback (273) ends `connect()` for good, with `_running`
  still true, where `ws_client.py:203` would wait and reconnect; at INFO even a successful
  dial does (164). `subscribe()` and `unsubscribe()` raise when not connected (232, 239);
* the Python `connect()` returns only when the client is closed, so the body of
  `async with` never runs before; a clean close reconnects at once and without a delay,
  even with `reconnect=False`; `disconnect()` during a connect leaves the connection open
  until its next message; subscriptions are not sent again after a reconnect;
* `sse_client.py` makes its `httpx.Timeout` without a default, which raises in every
  attempt.

## 6. What is not modelled

See `components` in `PROJECT.json`. `sse_client.py`, because it cannot make its HTTP client;
what the framework adapters do with conversations, which they only rearrange; request models
and builders (field declarations), schema validation (a library call), the address check (a
pure function of one request), metrics, dashboard, health and tracing (read-only), the
command line (one request per command), migrations (offline). The rollover of a rate-limit
window and the growth of a stream's queue are left out of modules that are otherwise
complete.

## 7. Plan

Done, each with its runs: `PacketLifecycle`, `WebhookDelivery`, `EventBus`, `Gateway`,
`SdkCalls`, `LiveClient`. Their safety properties are proved, and so are the three
refinements, of `HandoffBoard`, `DeliveryPolicy` and `RemoteCall`.

Left, most important first:

1. The theorems of `SerialSpec` under a weaker assumption than `OneAtATime`: that no two
   handlers, and no handler and the sweep, hold a copy of the same row.
2. Windows that roll over in `Gateway`.
3. An abstract specification of a subscription that `EventBus` implements.
