------------------------------- MODULE SdkCalls -------------------------------
(***************************************************************************)
(* Calls of the HTTP clients of both SDKs: _request of                     *)
(* sdk/handoffrail/sdk/client.py and async_client.py and of                *)
(* sdk-typescript's client.ts and async-client.ts, with their retries and  *)
(* their errors, and update_handoff of integrations/base.py, which makes   *)
(* two calls. All calls are made with one client object.                   *)
(*                                                                         *)
(* The server is what the calls see of it: one thing that can be claimed,  *)
(* answered, created or deleted once, the custom context of one packet,    *)
(* and how often each call took effect. A request that is under way may be *)
(* handled at any later time, also when its client has given it up, or     *)
(* never. What can be done once is guarded by a check that comes before    *)
(* the commit, and another handler may run in between.                     *)
(***************************************************************************)
EXTENDS Naturals, FiniteSets, Functions

CONSTANTS
  Calls, NoCall,
  Kinds,      \* the clients to consider
  Menu,       \* the effects a call may be meant to have
  Refusals,   \* statuses a server may refuse any request with
  MaxRetries, \* max_retries
  MaxFaults   \* bound on broken connections and errors of the server

Effects == {"read", "new", "set", "once", "unique", "remove", "batch", "merge", "rewrite"}
Statuses == {"ok", "partial", "401", "404", "400", "409", "429", "4xx", "5xx"}

ASSUME ConstantsAssumption ==
  /\ NoCall \notin Calls
  /\ Kinds \subseteq {"pySync", "pyAsync", "tsSync", "tsAsync"}
  /\ Menu \in [Calls -> SUBSET Effects]
  /\ Refusals \subseteq {"401", "404", "400", "429", "4xx"}
  /\ MaxRetries \in Nat /\ MaxFaults \in Nat

-----------------------------------------------------------------------------
(* What the methods of the clients do to the server. "new": one thing more each
   time; "set": the same state each time; "once", "unique", "remove": refused with 409,
   409 or 404 when it is done already, "unique" by an index of the database as well;
   "batch": the same for the entries of a successful answer. *)

PyPacketMethods ==
  [create_packet |-> "new", get_packet |-> "read", list_packets |-> "read",
   list_audit_log |-> "read", claim_packet |-> "once", update_packet |-> "new",
   complete_packet |-> "set"]

PyFollowUpMethods ==
  [delete_packet |-> "once", respond_to_hitl |-> "once", get_awaiting |-> "read",
   get_history |-> "read", chain_handoff |-> "new"]

PyHookMethods ==
  [register_webhook |-> "new", list_webhooks |-> "read", delete_webhook |-> "once",
   list_webhook_deliveries |-> "read"]

PyBatchMethods ==
  [batch_create_packets |-> "new", batch_claim_packets |-> "batch",
   batch_complete_packets |-> "batch", search_packets |-> "read"]

PyRegistryMethods ==
  [create_schema |-> "new", list_schemas |-> "read", get_schema |-> "read",
   create_api_key |-> "new", list_api_keys |-> "read", create_tenant |-> "unique",
   list_tenants |-> "read", get_tenant |-> "read", update_tenant |-> "set",
   delete_tenant |-> "remove", list_tenant_keys |-> "read"]

\* The adapters of agent frameworks make one call of the synchronous client each time,
\* but for update_handoff with custom entries, or with a summary as well.
AdapterTakeMethods == [create_handoff |-> "new", claim_handoff |-> "once"]
AdapterMethods == [update_handoff |-> "merge", update_summary |-> "rewrite"]
AdapterFollowUpMethods ==
  [complete_handoff |-> "set", get_handoff |-> "read", poll_for_handoff |-> "read",
   respond_to_hitl |-> "once", chain_handoff |-> "new"]

TsPacketMethods ==
  [createPacket |-> "new", getPacket |-> "read", listPackets |-> "read",
   listAuditLog |-> "read", claimPacket |-> "once", updatePacket |-> "new",
   completePacket |-> "set", deletePacket |-> "once", respondToHitl |-> "once",
   listAwaitingHuman |-> "read", getPacketHistory |-> "read", chainPacket |-> "new"]

TsBatchMethods ==
  [registerWebhook |-> "new", listWebhooks |-> "read", deleteWebhook |-> "once",
   listWebhookDeliveries |-> "read", batchCreatePackets |-> "new",
   batchClaimPackets |-> "batch", batchCompletePackets |-> "batch", searchPackets |-> "read"]

TsRegistryMethods ==
  [createSchema |-> "new", listSchemas |-> "read", getSchema |-> "read",
   createApiKey |-> "new", listApiKeys |-> "read"]

\* Both Python clients have the same methods.
PyHookOffers == Range(PyHookMethods) \union Range(PyBatchMethods)
PyOffers ==
  Range(PyPacketMethods) \union Range(PyFollowUpMethods) \union PyHookOffers
    \union Range(PyRegistryMethods)
AdapterOffers ==
  Range(AdapterTakeMethods) \union Range(AdapterMethods) \union Range(AdapterFollowUpMethods)
TsOffers == Range(TsPacketMethods) \union Range(TsBatchMethods)
Offered(k) ==
  CASE k = "pySync" -> PyOffers \union AdapterOffers
    [] k = "pyAsync" -> PyOffers
    [] k = "tsSync" -> TsOffers \union Range(TsRegistryMethods)
    [] k = "tsAsync" -> TsOffers

-----------------------------------------------------------------------------
(* What an answer means *)

PyErrors ==
  {"AuthenticationError", "NotFoundError", "ValidationError", "RateLimitError",
   "ServerError", "ConnectionError"}
TsErrors == PyErrors \union {"ConflictError"}

\* Mutation: raise_for_status is not called.
PyResultUnchecked(s) ==
  CASE s \in {"ok", "partial"} -> s [] s = "401" -> "AuthenticationError" [] s = "404" -> "NotFoundError"
    [] s \in {"400", "409"} -> "ValidationError" [] s = "429" -> "RateLimitError"
    [] s = "5xx" -> "ServerError" [] OTHER -> "ok"
PyResult(s) ==
  CASE s \in {"ok", "partial"} -> s
    [] s = "401" -> "AuthenticationError"
    [] s = "404" -> "NotFoundError"
    [] s \in {"400", "409"} -> "ValidationError"
    [] s = "429" -> "RateLimitError"
    [] s \in {"5xx", "4xx"} -> "ServerError"

\* The errors are made with response.json(): an answer that is not JSON raises inside
\* the try, and counts as a broken connection, but for the last case.
PyOutcome(a) ==
  IF a.json THEN PyResult(a.status) ELSE IF a.status = "4xx" THEN "JSONDecodeError" ELSE "again"

\* A body that is not JSON is kept as it is. 403, 413 and 422 are not looked at.
TsOutcome(a) ==
  CASE a.status \in {"ok", "partial"} -> a.status
    [] a.status = "401" -> "AuthenticationError"
    [] a.status = "404" -> "NotFoundError"
    [] a.status = "400" -> "ValidationError"
    [] a.status = "409" -> "ConflictError"
    [] a.status = "429" -> "RateLimitError"
    [] a.status = "5xx" -> "ServerError"
    [] a.status = "4xx" -> "ok"

-----------------------------------------------------------------------------

VARIABLES
  kind,    \* which client it is
  call,    \* the calls
  wire,    \* the requests that are under way
  ctrl,    \* the call whose AbortController _abortController is, or NoCall
  armed,   \* calls of the async TypeScript client whose timer runs
  passed,  \* those whose handler found that it can be done, and has not committed
  custom,  \* whose entries the packet's custom context has
  made,    \* how often a call took effect
  late,    \* calls made when what can be done once was done (for the properties)
  faults

vars == <<kind, call, wire, passed, ctrl, armed, custom, made, late, faults>>

NoAnswer == [status |-> "none", json |-> FALSE, seen |-> {}]
Answer(status, json, seen) == [status |-> status, json |-> json, seen |-> seen]

Call ==
  [pc: {"idle", "ready", "waiting", "ended"},
   effect: Effects, stage: {"get", "put"},
   attempt: 0..MaxRetries,
   reply: [status: Statuses, json: BOOLEAN, seen: SUBSET Calls] \union {NoAnswer},
   seen: SUBSET Calls,             \* the custom context that was read
   before: SUBSET Calls,           \* the calls that had ended before
   out: {"none", "ok", "partial", "JSONDecodeError"} \union TsErrors]

Idle ==
  [pc |-> "idle", effect |-> "read", stage |-> "put", attempt |-> 0, reply |-> NoAnswer,
   seen |-> {}, before |-> {}, out |-> "none"]

Ended(c) == call[c].pc = "ended"

Once(c) == call[c].effect \in {"once", "unique", "remove", "batch"}
Taken == \E c \in Calls : Once(c) /\ made[c] > 0

Request(c) == <<c, call[c].stage, call[c].attempt>>

\* The call of the synchronous TypeScript client blocks its process.
Start(c) ==
  /\ call[c].pc = "idle"
  /\ kind = "tsSync" => \A d \in Calls : call[d].pc \in {"idle", "ended"}
  /\ \E e \in Menu[c] \intersect Offered(kind) :
       call' = [call EXCEPT ![c] =
                  [Idle EXCEPT !.pc = "ready", !.effect = e,
                               !.stage = IF e \in {"merge", "rewrite"} THEN "get" ELSE "put",
                               !.before = {d \in Calls : Ended(d)}]]
  /\ late' = IF Taken THEN late \union {c} ELSE late
  /\ UNCHANGED <<kind, wire, passed, ctrl, armed, custom, made, faults>>

\* Each attempt of the async TypeScript client makes a controller, and a timer that
\* aborts whatever _abortController is by then.
Send(c) ==
  /\ call[c].pc = "ready"
  /\ call' = [call EXCEPT ![c].pc = "waiting"]
  /\ wire' = wire \union {Request(c)}
  /\ IF kind = "tsAsync" THEN ctrl' = c /\ armed' = armed \union {c} ELSE UNCHANGED <<ctrl, armed>>
  /\ UNCHANGED <<kind, passed, custom, made, late, faults>>

\* The finally clause of an attempt.
Finally(c) ==
  IF kind = "tsAsync" THEN ctrl' = NoCall /\ armed' = armed \ {c} ELSE UNCHANGED <<ctrl, armed>>

EndedWith(c, out) == [call EXCEPT ![c].pc = "ended", ![c].out = out, ![c].reply.seen = {}]
GivenUp(c) == [EndedWith(c, "ConnectionError") EXCEPT ![c].reply = NoAnswer]

\* Mutations: one attempt too many; every client retries; the attempts are not counted.
TransientOnceMore(c) ==
  IF kind = "tsSync" \/ call[c].attempt > MaxRetries THEN GivenUp(c)
  ELSE [call EXCEPT ![c].pc = "ready", ![c].reply = NoAnswer, ![c].attempt = @ + 1]
TransientRetried(c) ==
  IF call[c].attempt = MaxRetries THEN GivenUp(c)
  ELSE [call EXCEPT ![c].pc = "ready", ![c].reply = NoAnswer, ![c].attempt = @ + 1]
TransientUncounted(c) ==
  IF kind = "tsSync" THEN GivenUp(c)
  ELSE [call EXCEPT ![c].pc = "ready", ![c].reply = NoAnswer]
\* An attempt failed in a way that may pass. The synchronous TypeScript client has
\* made a ConnectionError of it before its retry loop sees it, and gives up.
Transient(c) ==
  IF kind = "tsSync" \/ call[c].attempt = MaxRetries THEN GivenUp(c)
  ELSE [call EXCEPT ![c].pc = "ready", ![c].reply = NoAnswer, ![c].attempt = @ + 1]

\* update_handoff goes on with the PATCH when it has the packet.
Succeeded(c, a) ==
  IF call[c].stage = "get" /\ a.status = "ok"
  THEN [call EXCEPT ![c].pc = "ready", ![c].stage = "put", ![c].attempt = 0,
                    ![c].reply = NoAnswer, ![c].seen = a.seen]
  ELSE EndedWith(c, a.status)

Receive(c) ==
  LET a == call[c].reply
      out == IF kind \in {"pySync", "pyAsync"} THEN PyOutcome(a) ELSE TsOutcome(a) IN
  /\ call[c].pc = "waiting" /\ a # NoAnswer
  /\ call' = IF out = "again" THEN Transient(c)
             ELSE IF out = a.status THEN Succeeded(c, a) ELSE EndedWith(c, out)
  /\ Finally(c)
  /\ UNCHANGED <<kind, wire, passed, custom, made, late, faults>>

\* The connection cannot be made or breaks, before or after the server has the request.
\* The async TypeScript client waits before the next attempt inside the catch clause,
\* with the timer running and the controller set.
Broken(c) ==
  /\ call[c].pc = "waiting" /\ faults < MaxFaults
  /\ \/ UNCHANGED wire
     \/ Request(c) \notin passed /\ wire' = wire \ {Request(c)}
  /\ call' = Transient(c)
  /\ IF Ended(c)' THEN Finally(c) ELSE UNCHANGED <<ctrl, armed>>
  /\ faults' = faults + 1
  /\ UNCHANGED <<kind, passed, custom, made, late>>

\* abort() of the controller, by timers that have fired or by close(): its call fails
\* and is not retried; unless it has failed already and waits for its next attempt.
Abort(fired) ==
  IF ctrl # NoCall /\ call[ctrl].pc = "waiting"
  THEN call' = GivenUp(ctrl) /\ ctrl' = NoCall /\ armed' = armed \ (fired \union {ctrl})
  ELSE /\ armed' = armed \ fired /\ UNCHANGED call
       /\ ctrl' = IF fired = {} THEN NoCall ELSE ctrl

Timeout(c) ==
  /\ call[c].pc = "waiting" /\ kind # "tsAsync"
  /\ call' = Transient(c)
  /\ UNCHANGED <<kind, wire, passed, ctrl, armed, custom, made, late, faults>>

\* The timer of c fires. It is the current controller that it aborts.
TimerFires(c) ==
  /\ c \in armed
  /\ Abort({c})
  /\ UNCHANGED <<kind, wire, passed, custom, made, late, faults>>

\* close() of the async TypeScript client. It forgets the controller.
Close ==
  /\ kind = "tsAsync" /\ ctrl # NoCall
  /\ Abort({})
  /\ UNCHANGED <<kind, wire, passed, custom, made, late, faults>>

-----------------------------------------------------------------------------
(* The server *)

Status(m) ==
  IF m[2] = "get" \/ ~Once(m[1]) \/ ~Taken THEN "ok"
  ELSE CASE call[m[1]].effect \in {"once", "unique"} -> "409"
         [] call[m[1]].effect = "remove" -> "404"
         [] call[m[1]].effect = "batch" -> "partial"

\* Mutation: what was read is not sent back.
MergedAlone(c) == {c}
Merged(c) == call[c].seen \union {c}

\* Of what can be done once, only the refusal is served in one step.
Serve(m) ==
  LET c == m[1] IN
  IF m[2] = "get" \/ call[c].effect = "read" \/ Once(c) THEN UNCHANGED <<custom, made>>
  ELSE /\ made' = [made EXCEPT ![c] = @ + 1]
       /\ custom' = CASE call[c].effect = "merge" -> Merged(c)
                      [] call[c].effect = "rewrite" -> {c}
                      [] OTHER -> custom

\* Nobody reads the answer to a request that was given up.
Reply(m, a) ==
  call' = IF call[m[1]].pc = "waiting" /\ Request(m[1]) = m THEN [call EXCEPT ![m[1]].reply = a] ELSE call

\* The request is served; or refused, by a middleware or because of what it asks for;
\* or the handler fails, before or after its commit, with an answer that is plain text.
Handle(m) ==
  /\ m \in wire \ passed
  /\ wire' = wire \ {m}
  /\ \/ /\ Once(m[1]) => Taken
        /\ Serve(m) /\ Reply(m, Answer(Status(m), TRUE, custom)) /\ UNCHANGED faults
     \/ /\ \E s \in Refusals : Reply(m, Answer(s, TRUE, {}))
        /\ UNCHANGED <<custom, made, faults>>
     \/ /\ faults < MaxFaults /\ faults' = faults + 1
        /\ Serve(m) \/ UNCHANGED <<custom, made>>
        /\ Reply(m, Answer("5xx", FALSE, {}))
     \* a proxy answers in its stead
     \/ /\ faults < MaxFaults /\ faults' = faults + 1
        /\ \E s \in {"4xx", "5xx"}, json \in BOOLEAN : Reply(m, Answer(s, json, {}))
        /\ UNCHANGED <<custom, made>>
  /\ UNCHANGED <<kind, passed, ctrl, armed, late>>

\* The handler reads that it has not been done, and takes no lock.
Pass(m) ==
  /\ m \in wire \ passed /\ m[2] = "put" /\ Once(m[1]) /\ ~Taken
  /\ passed' = passed \union {m}
  /\ UNCHANGED <<kind, call, wire, ctrl, armed, custom, made, late, faults>>

\* Mutation: no index, so that only the check decides.
Unindexed(c) == TRUE
\* What the commit does not refuse.
Admitted(c) == call[c].effect = "unique" => ~Taken

Done(c) == made' = [made EXCEPT ![c] = @ + 1]
Failure(c) == IF call[c].effect = "batch" THEN Answer("partial", TRUE, {}) ELSE Answer("5xx", FALSE, {})

\* The handler commits, whoever committed since its check; or the commit is refused, or
\* it fails, before or after the commit: a batch lists the entry as failed.
Commit(m) ==
  LET c == m[1] IN
  /\ m \in passed
  /\ wire' = wire \ {m} /\ passed' = passed \ {m}
  /\ \/ Admitted(c) /\ Done(c) /\ Reply(m, Answer("ok", TRUE, {})) /\ UNCHANGED faults
     \/ ~Admitted(c) /\ UNCHANGED <<made, faults>> /\ Reply(m, Answer("5xx", FALSE, {}))
     \/ /\ faults < MaxFaults /\ faults' = faults + 1
        /\ (Admitted(c) /\ Done(c)) \/ UNCHANGED made
        /\ Reply(m, Failure(c))
  /\ UNCHANGED <<kind, ctrl, armed, custom, late>>

-----------------------------------------------------------------------------

Init ==
  /\ kind \in Kinds
  /\ call = [c \in Calls |-> Idle]
  /\ wire = {}
  /\ ctrl = NoCall
  /\ armed = {}
  /\ passed = {}
  /\ custom = {}
  /\ made = [c \in Calls |-> 0]
  /\ late = {}
  /\ faults = 0

Next ==
  \/ \E c \in Calls :
       Start(c) \/ Send(c) \/ Receive(c) \/ Broken(c) \/ Timeout(c) \/ TimerFires(c)
  \/ Close
  \/ \E m \in wire : Handle(m) \/ Pass(m) \/ Commit(m)

Spec == Init /\ [][Next]_vars

\* A program that made a call runs on, and its timers fire: something of each call
\* happens as long as it can. The network and the server owe nothing.
FairSpec ==
  Spec /\ \A c \in Calls : WF_vars(Send(c) \/ Receive(c) \/ Timeout(c) \/ TimerFires(c))
-----------------------------------------------------------------------------

TypeOK ==
  /\ kind \in Kinds
  /\ call \in [Calls -> Call]
  /\ wire \subseteq Calls \X {"get", "put"} \X (0..MaxRetries)
  /\ ctrl \in Calls \union {NoCall} /\ armed \subseteq Calls
  /\ passed \subseteq wire /\ custom \subseteq Calls /\ late \subseteq Calls
  /\ made \in [Calls -> Nat]
  /\ faults \in Nat

Blame ==
  {"AuthenticationError", "NotFoundError", "ValidationError", "ConflictError", "RateLimitError"}

\* An error that blames the request means that it did nothing, and no request is done
\* twice, unless the client sent it again: then the first one may have been done. The
\* synchronous TypeScript client never sends a request again.
BlameMeansUndone ==
  \A c \in Calls :
    kind = "tsSync" \/ call[c].attempt = 0 =>
      made[c] <= 1 /\ (call[c].out \in Blame => made[c] = 0)

\* A call that returns did what it was for; and what can be done once was not done yet
\* when it was called, so that nobody wins what he saw another win. Two claims that
\* overlap may both return: the handler checks before it commits, without a lock. The
\* TypeScript clients also return when the request was forbidden.
OkMeansDone ==
  \A c \in Calls :
    call[c].out = "ok" /\ call[c].effect # "read" =>
      \/ kind \in {"tsSync", "tsAsync"} /\ call[c].reply.status = "4xx"
      \/ made[c] > 0 /\ (Once(c) => c \notin late)

\* A caller sees four clients, lost answers, retries, aborts and late requests as one
\* remote call. TypeScript clients return what they read of an answer that forbids.
Phase(q) == CASE q.pc = "idle" -> "idle" [] q.pc = "ended" -> "returned" [] OTHER -> "called"
Resent(k, q) == k # "tsSync" /\ q.stage = "put" /\ q.attempt > 0
Result(k, q) ==
  IF k \in {"tsSync", "tsAsync"} /\ q.out = "ok" /\ q.reply.status = "4xx" THEN "forbidden" ELSE q.out

Remote == INSTANCE RemoteCall WITH
  pc <- [c \in Calls |-> Phase(call[c])],
  effect <- [c \in Calls |-> call[c].effect],
  resent <- {c \in Calls : Resent(kind, call[c])},
  result <- [c \in Calls |-> Result(kind, call[c])],
  times <- made
IsRemoteCall == Remote!Spec

Overwrote(d, c) ==
  /\ d # c /\ made[d] > 0
  /\ call[d].effect = "rewrite" \/ (call[d].effect = "merge" /\ c \notin call[d].seen)

\* Custom entries that update_handoff has added stay, whatever adapters do before and
\* after: only an update that overlaps it, one that was sent twice or given up (and may
\* be on its way still), or one with a summary too can remove them.
MergesKept ==
  \A c \in Calls :
    /\ call[c].effect = "merge" /\ call[c].out = "ok" /\ c \notin custom
    => \E d \in Calls : /\ Overwrote(d, c)
                        /\ \/ call[d].effect = "rewrite"
                           \/ d \notin call[c].before /\ c \notin call[d].before
                           \/ call[d].attempt > 0 \/ call[d].out = "ConnectionError"

\* The timer of c does not abort c.
Unwatched(c) == kind = "tsAsync" /\ call[c].pc = "waiting" /\ ctrl # c

\* Every call that is made returns or raises in the end, whatever the network does. Only
\* a call of the async TypeScript client may hang, left without a timeout by another
\* that overlaps it.
CallsEnd == <>[](\A c \in Calls : call[c].pc \in {"idle", "ended"} \/ Unwatched(c))
=============================================================================
