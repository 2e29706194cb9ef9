--------------------------- MODULE PacketLifecycle ---------------------------
(***************************************************************************)
(* The packet endpoints of routers/packets.py and the expiry task of       *)
(* services/expiry.py over one tenant's rows of the packets table.         *)
(*                                                                         *)
(* Every handler has its own database session and runs in the same four    *)
(* steps, each ended by an await at which any other handler may run:       *)
(*   read    SELECT the row, validate, change the ORM copy in memory and   *)
(*           stamp the audit event with the time                           *)
(*   commit  UPDATE the changed columns and INSERT the audit events        *)
(*   refresh SELECT the row again                                          *)
(*   publish tell the subscribers, then answer the caller                  *)
(* There is no row lock and no version column: the commit writes what was  *)
(* computed from the read, whatever happened to the row in between.        *)
(***************************************************************************)
EXTENDS PacketStateMachine, Naturals

CONSTANTS
  Packets,    \* packet ids (uuid4 values) that can come into use
  Agents,     \* agent ids a packet can be addressed to or claimed by
  Requests,   \* HTTP requests; each is made once
  NoPacket,   \* no parent, no link
  NoAgent,    \* an audit actor that is none of them (the creator, "system", "human:...")
  Menu,       \* Menu[r]: the endpoints request r may call
  Seeded,     \* packets created before the behaviour starts
  Stages,     \* the statuses they have got to by then
  Patches,    \* bodies of PATCH: status (or none), a decision or not, a checkpoint or not
  Timeouts,   \* hitl.timeout_seconds: "default", or "short" (below 24 hours)
  MaxFaults   \* bound on database errors and server crashes

CreateOps == {"create", "batch_create", "chain"}
BatchOps  == {"batch_create", "batch_claim", "batch_complete"}
Ops == CreateOps \union BatchOps \union {"claim", "patch", "delete", "respond"}

ASSUME ConstantsAssumption ==
  /\ NoPacket \notin Packets
  /\ NoAgent \notin Agents
  /\ Menu \in [Requests -> SUBSET Ops]
  /\ Seeded \subseteq Packets
  /\ Stages \subseteq {"created", "awaiting_human", "claimed", "in_progress"}
  /\ Patches \subseteq
       [to: Status \union {"none"}, decides: BOOLEAN, asks: BOOLEAN]
  /\ Timeouts \subseteq {"default", "short"}
  /\ MaxFaults \in Nat

VARIABLES
  rows,    \* the packets table
  aged,    \* packets whose created_at is more than DEFAULT_TTL_SECONDS ago
  audit,   \* the packet_events table: per packet its entries, ordered by timestamp only
  clock,   \* the time, in audit entries stamped so far
  told,    \* the events published to subscribers, per packet
  req,     \* the requests and their handlers' local state
  sweep,   \* the expiry task: the entry it will commit for each packet it expires
  faults   \* database errors and crashes so far

vars == <<rows, aged, audit, clock, told, req, sweep, faults>>

-----------------------------------------------------------------------------
(* Rows, audit entries, events *)

NoStatus == "none"      \* a row that does not exist; a status nobody recorded

Metadata == [target: Agents \union {NoAgent}, claimedAt: BOOLEAN, completedAt: BOOLEAN]
Hitl     == [asked: BOOLEAN, answered: BOOLEAN, short: BOOLEAN]
Columns  == {"status", "metadata", "hitl", "decisions"}
Row      == [status: Status \union {NoStatus}, metadata: Metadata, hitl: Hitl,
             decisions: SUBSET Requests, parent: Packets \union {NoPacket}]

NoHitl == [asked |-> FALSE, answered |-> FALSE, short |-> FALSE]
Questions ==
  {[asked |-> TRUE, answered |-> FALSE, short |-> t = "short"] : t \in Timeouts}

NewRow(st, a, h, par) ==
  [status |-> st, hitl |-> h, decisions |-> {}, parent |-> par,
   metadata |-> [target |-> a, claimedAt |-> FALSE, completedAt |-> FALSE]]
NoRow == NewRow(NoStatus, NoAgent, NoHitl, NoPacket)

Exists(p) == rows[p].status # NoStatus

\* An UPDATE writes only the columns whose ORM attributes were assigned.
MergeRow(row, copy, dirty) ==
  [status    |-> IF "status"    \in dirty THEN copy.status    ELSE row.status,
   metadata  |-> IF "metadata"  \in dirty THEN copy.metadata  ELSE row.metadata,
   hitl      |-> IF "hitl"      \in dirty THEN copy.hitl      ELSE row.hitl,
   decisions |-> IF "decisions" \in dirty THEN copy.decisions ELSE row.decisions,
   parent    |-> row.parent]

EntryTypes == Status \union {"chained", "hitl_responded"}
Entries == [type: EntryTypes, from: Status \union {NoStatus},
            by: Agents \union {NoAgent}, link: Packets \union {NoPacket}, at: Nat]

\* "from" is the status the event's details name, if they name one.
EntryAt(type, from, by, link, time) ==
  [type |-> type, from |-> from, by |-> by, link |-> link, at |-> time]

\* An entry is stamped when the handler makes it, before its commit.
Entry(type, from, by, link) == EntryAt(type, from, by, link, clock + 1)

NoEntry == EntryAt(NoStatus, NoStatus, NoAgent, NoPacket, 0)

\* The statuses a packet can have just after an audit entry. A packet that
\* starts with a human checkpoint is logged as "created" all the same.
StatusesAfter(e) ==
  CASE e.type = "created"        -> {"created", "awaiting_human"}
    [] e.type = "hitl_responded" -> {"claimed"}
    [] OTHER                     -> {e.type}

Events == [type: Status \union {"updated", "chained", "response_ready", NoStatus},
           status: Status \union {NoStatus}]
Event(type, st) == [type |-> type, status |-> st]
NoEvent == Event(NoStatus, NoStatus)

-----------------------------------------------------------------------------
(* Requests *)

\* What a caller can be told is done: the packet, the status the call gave it (if it
\* gave it one) and the audit entry the handler made.
Receipts == [packet: Packets, to: Status \union {NoStatus}, entry: Entries \union {NoEntry}]
Receipt(p, copy, dirty, log) ==
  [packet |-> p, to |-> IF "status" \in dirty THEN copy.status ELSE NoStatus, entry |-> log]
NoReceipt == [packet |-> NoPacket, to |-> NoStatus, entry |-> NoEntry]

InFlightPcs == {"next", "loaded", "committed", "refreshed"}
Request ==
  [pc: InFlightPcs \union {"idle", "done", "lost"},
   op: Ops \union {"none"},
   agent: Agents \union {NoAgent},  \* claimant, or the target of a new packet
   todo: SUBSET Packets,            \* packets of the call not yet dealt with
   item: Packets \union {NoPacket}, \* the packet being dealt with
   copy: Row, dirty: SUBSET Columns,
   log: Entries \union {NoEntry},
   event: Events,
   answer: Receipts \union {NoReceipt},
   ok: SUBSET Receipts,             \* answered 200/201/204, or listed as done
   bad: SUBSET Packets]             \* answered 4xx/5xx, or listed in errors

Fresh ==
  [pc |-> "idle", op |-> "none", agent |-> NoAgent, todo |-> {}, item |-> NoPacket,
   copy |-> NoRow, dirty |-> {}, log |-> NoEntry, event |-> NoEvent, answer |-> NoReceipt,
   ok |-> {}, bad |-> {}]

InFlight(r) == req[r].pc \in InFlightPcs

\* The handler is done with packet p: a batch goes on with its next entry.
Ended(q, p, good) ==
  [q EXCEPT !.pc = IF q.todo = {p} THEN "done" ELSE "next",
            !.todo = @ \ {p}, !.item = NoPacket, !.copy = NoRow, !.dirty = {},
            !.log = NoEntry, !.event = NoEvent, !.answer = NoReceipt,
            !.ok = IF good THEN @ \union {q.answer} ELSE @,
            !.bad = IF good THEN @ ELSE @ \union {p}]

\* A session whose transaction failed refuses every further statement until it
\* is rolled back, and nobody does: the rest of a batch fails too.
Broken(q) == Ended([q EXCEPT !.todo = {q.item}, !.bad = @ \union q.todo], q.item, FALSE)

\* The handler has changed its copy of p and is about to commit.
Holding(q, p, copy, dirty, log, event) ==
  [q EXCEPT !.pc = "loaded", !.item = p, !.copy = copy, !.dirty = dirty,
            !.log = log, !.event = event, !.answer = Receipt(p, copy, dirty, log)]

Load(r, p, copy, dirty, log, event) ==
  /\ req' = [req EXCEPT ![r] = Holding(@, p, copy, dirty, log, event)]
  /\ clock' = IF log = NoEntry THEN clock ELSE clock + 1

Reject(r, p) ==
  /\ req' = [req EXCEPT ![r] = Ended(@, p, FALSE)]
  /\ UNCHANGED clock

\* Request r has p before it and is in one of the given endpoints.
Reading(r, p, ops) ==
  /\ req[r].pc = "next" /\ req[r].op \in ops /\ p \in req[r].todo
  /\ UNCHANGED <<rows, aged, audit, told, sweep, faults>>

-----------------------------------------------------------------------------
(* The initial state: what single calls, one after the other, have made of the *)
(* seeded packets                                                              *)

SeedRow(st, a, h) ==
  [NewRow(st, a, h, NoPacket) EXCEPT
     !.metadata.claimedAt = st \in {"claimed", "in_progress"}]
SeedRows ==
  {row \in {SeedRow(st, a, h) : st \in Stages, a \in Agents, h \in {NoHitl} \union Questions} :
     row.status = "awaiting_human" <=> row.hitl.asked}

SeedTrail(row) ==
  {EntryAt("created", NoStatus, NoAgent, NoPacket, 1)}
  \union (IF row.metadata.claimedAt
          THEN {EntryAt("claimed", NoStatus, row.metadata.target, NoPacket, 2)} ELSE {})
  \union (IF row.status = "in_progress"
          THEN {EntryAt("in_progress", "claimed", row.metadata.target, NoPacket, 3)} ELSE {})

Init ==
  /\ rows \in [Packets -> SeedRows \union {NoRow}]
  /\ \A p \in Packets : Exists(p) <=> p \in Seeded
  /\ aged = {}
  /\ audit = [p \in Packets |-> IF p \in Seeded THEN SeedTrail(rows[p]) ELSE {}]
  /\ clock = 3
  /\ told = [p \in Packets |-> {}]
  /\ req = [r \in Requests |-> Fresh]
  /\ sweep = [p \in Packets |-> NoEntry]
  /\ faults = 0

-----------------------------------------------------------------------------
(* The steps of a handler *)

\* A caller names packets it has been given the ids of; a creating endpoint
\* draws ids nobody has (uuid4).
Begin(r) ==
  /\ req[r].pc = "idle"
  /\ \E op \in Menu[r], a \in Agents \union {NoAgent}, ps \in SUBSET Packets :
       /\ a # NoAgent <=> op \in CreateOps \union {"claim", "batch_claim"}
       /\ ps # {}
       /\ op \notin BatchOps => \E p \in Packets : ps = {p}
       /\ IF op \in CreateOps
          THEN \A p \in ps : ~Exists(p) /\ \A s \in Requests : p \notin req[s].todo
          ELSE \A p \in ps : Exists(p)
       /\ req' = [req EXCEPT ![r] = [@ EXCEPT !.pc = "next", !.op = op,
                                              !.agent = a, !.todo = ps]]
  /\ UNCHANGED <<rows, aged, audit, clock, told, sweep, faults>>

\* Nothing is read: the quota check and the schema validation may refuse. (A
\* parent_packet_id given by the caller is stored and never looked at again.)
PrepareCreate(r, p) ==
  /\ Reading(r, p, {"create", "batch_create"})
  /\ \/ Reject(r, p)
     \/ \E h \in {NoHitl} \union Questions, st \in {"created", "awaiting_human"} :
          /\ st = "awaiting_human" => h.asked    \* hitl.required
          /\ Load(r, p, NewRow(st, req[r].agent, h, NoPacket), Columns,
                  Entry("created", NoStatus, NoAgent, NoPacket),
                  Event("created", st))

ReadChain(r, p) ==
  /\ Reading(r, p, {"chain"})
  /\ \/ Reject(r, p)
     \/ \E par \in Packets, h \in {NoHitl} \union Questions,
           st \in {"created", "awaiting_human"} :
          /\ Exists(par)
          /\ st = "awaiting_human" => h.asked
          /\ Load(r, p, NewRow(st, req[r].agent, h, par), Columns,
                  Entry("created", NoStatus, NoAgent, par),
                  Event("chained", st))

\* Mutation: any packet that is not finished can be claimed.
ClaimableUnlessDone(row) == ~IsTerminal(row.status)
Claimable(row) == CanTransition(row.status, "claimed")

ReadClaim(r, p) ==
  /\ Reading(r, p, {"claim", "batch_claim"})
  /\ IF Claimable(rows[p])
     THEN Load(r, p,
               [rows[p] EXCEPT !.status = "claimed",
                  !.metadata = [@ EXCEPT !.claimedAt = TRUE, !.target = req[r].agent]],
               {"status", "metadata"},
               Entry("claimed", NoStatus, req[r].agent, NoPacket),
               Event("claimed", "claimed"))
     ELSE Reject(r, p)

Completed(row) ==
  [row EXCEPT !.status = "completed", !.metadata = [@ EXCEPT !.completedAt = TRUE]]

\* The details of the event are built after the status was assigned.
ReadComplete(r, p) ==
  /\ Reading(r, p, {"batch_complete"})
  /\ IF CanTransition(rows[p].status, "completed")
     THEN Load(r, p, Completed(rows[p]), {"status", "metadata"},
               Entry("completed", "completed", NoAgent, NoPacket),
               Event("completed", "completed"))
     ELSE Reject(r, p)

\* A PATCH of the status, the decisions (one more, named after the request) and
\* the checkpoint (a new question), or of some of them.
Moves(row, body)     == body.to \notin {NoStatus, row.status}
Completes(row, body) == Moves(row, body) /\ body.to = "completed"

Patched(r, row, body, ask) ==
  [row EXCEPT
     !.status = IF Moves(row, body) THEN body.to ELSE row.status,
     !.metadata.completedAt = row.metadata.completedAt \/ Completes(row, body),
     !.decisions = IF body.decides THEN row.decisions \union {r} ELSE row.decisions,
     !.hitl = IF body.asks THEN ask ELSE row.hitl]

\* Mutation: PATCH writes the metadata of its copy back in any case.
PatchedColumnsAndMetadata(row, body) ==
  {c \in Columns : \/ c = "status"    /\ Moves(row, body)
                   \/ c = "metadata"
                   \/ c = "decisions" /\ body.decides
                   \/ c = "hitl"      /\ body.asks}

PatchedColumns(row, body) ==
  {c \in Columns : \/ c = "status"    /\ Moves(row, body)
                   \/ c = "metadata"  /\ Completes(row, body)
                   \/ c = "decisions" /\ body.decides
                   \/ c = "hitl"      /\ body.asks}

\* Mutation: only the moves that end a packet are recorded.
PatchEntryOfEnd(row, body) ==
  IF Moves(row, body) /\ IsTerminal(body.to)
  THEN Entry(body.to, row.status, row.metadata.target, NoPacket) ELSE NoEntry
PatchEntry(row, body) ==
  IF Moves(row, body)
  THEN Entry(body.to, row.status, row.metadata.target, NoPacket) ELSE NoEntry

ReadPatch(r, p) ==
  /\ Reading(r, p, {"patch"})
  /\ \E body \in Patches, ask \in Questions :
       IF Moves(rows[p], body) /\ ~CanTransition(rows[p].status, body.to)
       THEN Reject(r, p)
       ELSE Load(r, p, Patched(r, rows[p], body, ask), PatchedColumns(rows[p], body),
                 PatchEntry(rows[p], body),
                 Event(IF body.to = NoStatus THEN "updated" ELSE body.to, rows[p].status))

\* Mutation: the previous status is taken after the assignment.
DeletedLate(row) == Entry("expired", "expired", NoAgent, NoPacket)
Deleted(row) == Entry("expired", row.status, NoAgent, NoPacket)

ReadDelete(r, p) ==
  /\ Reading(r, p, {"delete"})
  /\ IF CanTransition(rows[p].status, "expired")
     THEN Load(r, p, [rows[p] EXCEPT !.status = "expired"], {"status"},
               Deleted(rows[p]),
               Event("expired", "expired"))
     ELSE Reject(r, p)

\* Mutation: the status is not checked.
AnswerableIfAsked(row) == row.hitl.asked
Answerable(row) == row.status = "awaiting_human" /\ row.hitl.asked

ReadRespond(r, p) ==
  /\ Reading(r, p, {"respond"})
  /\ IF Answerable(rows[p])
     THEN Load(r, p,
               [rows[p] EXCEPT !.status = "claimed", !.hitl = [@ EXCEPT !.answered = TRUE],
                  !.metadata = [@ EXCEPT !.claimedAt = TRUE]],
               {"status", "metadata", "hitl"},
               Entry("hitl_responded", NoStatus, NoAgent, NoPacket),
               Event("response_ready", "claimed"))
     ELSE Reject(r, p)

Read(r, p) ==
  \/ PrepareCreate(r, p) \/ ReadChain(r, p) \/ ReadClaim(r, p) \/ ReadComplete(r, p)
  \/ ReadPatch(r, p) \/ ReadDelete(r, p) \/ ReadRespond(r, p)

Logged(e) == IF e = NoEntry THEN {} ELSE {e}

\* The audit entries of x after the commit of q. A chained packet also puts an
\* entry on its parent. Mutation: it does not.
TrailOfChild(q, x) == audit[x] \union IF x = q.item THEN Logged(q.log) ELSE {}
Trail(q, x) ==
  audit[x] \union
    IF x = q.item THEN Logged(q.log)
    ELSE IF q.op = "chain" /\ x = q.copy.parent
    THEN {EntryAt("chained", NoStatus, NoAgent, q.item, q.log.at)}
    ELSE {}

\* One transaction: the row and its audit entries.
Commit(r) ==
  LET q == req[r]  p == q.item  IN
  /\ q.pc = "loaded"
  /\ rows' = [rows EXCEPT ![p] = IF q.op \in CreateOps THEN q.copy
                                 ELSE MergeRow(@, q.copy, q.dirty)]
  /\ audit' = [x \in Packets |-> Trail(q, x)]
  /\ req' = [req EXCEPT ![r] = [@ EXCEPT !.pc = "committed", !.copy = NoRow,
                                         !.dirty = {}, !.log = NoEntry]]
  /\ UNCHANGED <<aged, clock, told, sweep, faults>>

\* PATCH and respond publish the refreshed status, the other endpoints the one
\* they wrote. Mutation: the name of the event.
PublishedName(q) ==
  IF q.op \in {"patch", "respond"} THEN q.event.type ELSE q.event.status
PublishedStatus(q) ==
  IF q.op \in {"patch", "respond"} THEN rows[q.item].status ELSE q.event.status

Refresh(r) ==
  /\ req[r].pc = "committed" /\ req[r].op # "delete"
  /\ req' = [req EXCEPT ![r] = [@ EXCEPT !.pc = "refreshed",
                                         !.event.status = PublishedStatus(req[r])]]
  /\ UNCHANGED <<rows, aged, audit, clock, told, sweep, faults>>

\* delete does not refresh.
ReadyToPublish(q) == q.pc = "refreshed" \/ (q.pc = "committed" /\ q.op = "delete")

Publish(r) ==
  LET q == req[r]  IN
  /\ ReadyToPublish(q)
  /\ told' = [told EXCEPT ![q.item] = @ \union {q.event}]
  /\ req' = [req EXCEPT ![r] = Ended(@, q.item, TRUE)]
  /\ UNCHANGED <<rows, aged, audit, clock, sweep, faults>>

-----------------------------------------------------------------------------
(* Faults *)

\* Mutations of a failed commit: the error is swallowed and the caller told that
\* all is well; the subscribers are told although nothing was written.
CommitFailsQuietly(r) ==
  /\ req[r].pc = "loaded" /\ faults < MaxFaults
  /\ req' = [req EXCEPT ![r] = Ended(@, @.item, TRUE)]
  /\ faults' = faults + 1
  /\ UNCHANGED <<rows, aged, audit, clock, told, sweep>>
CommitFailsLoudly(r) ==
  /\ req[r].pc = "loaded" /\ faults < MaxFaults
  /\ Reject(r, req[r].item)
  /\ told' = [told EXCEPT ![req[r].item] = @ \union {req[r].event}]
  /\ faults' = faults + 1
  /\ UNCHANGED <<rows, aged, audit, clock, sweep>>

\* The transaction fails: 500, or an entry of errors for each packet left.
CommitFails(r) ==
  /\ req[r].pc = "loaded" /\ faults < MaxFaults
  /\ req' = [req EXCEPT ![r] = Broken(@)]
  /\ faults' = faults + 1
  /\ UNCHANGED <<rows, aged, audit, clock, told, sweep>>

\* The transaction is in, but the refresh raises: the caller is told of an
\* error and the subscribers of nothing. The session may or may not survive.
RefreshFails(r) ==
  /\ req[r].pc = "committed" /\ req[r].op # "delete" /\ faults < MaxFaults
  /\ Reject(r, req[r].item) \/ req' = [req EXCEPT ![r] = Broken(@)]
  /\ faults' = faults + 1
  /\ UNCHANGED <<rows, aged, audit, clock, told, sweep>>

\* The process dies and is started again: the handlers and the sweep are gone.
Crash ==
  /\ faults < MaxFaults
  /\ \/ \E r \in Requests : InFlight(r)
     \/ \E p \in Packets : sweep[p] # NoEntry
  /\ req' = [r \in Requests |-> IF InFlight(r)
               THEN [Fresh EXCEPT !.pc = "lost", !.op = req[r].op, !.agent = req[r].agent,
                                  !.ok = req[r].ok, !.bad = req[r].bad]
               ELSE req[r]]
  /\ sweep' = [p \in Packets |-> NoEntry]
  /\ faults' = faults + 1
  /\ UNCHANGED <<rows, aged, audit, clock, told>>

-----------------------------------------------------------------------------
(* The expiry task *)

Age(p) ==
  /\ Exists(p) /\ p \notin aged
  /\ aged' = aged \union {p}
  /\ UNCHANGED <<rows, audit, clock, told, req, sweep, faults>>

SweepIdle == \A p \in Packets : sweep[p] = NoEntry

\* The rows the SELECT of check_and_expire_packets returns. Mutation: packets
\* that somebody has claimed are left alone.
DueUnclaimed == {p \in aged : rows[p].status \in {"created", "awaiting_human"}}
Due == {p \in aged : Exists(p) /\ ~IsTerminal(rows[p].status)}

\* For a checkpoint with a timeout below 24 hours the loop subtracts the naive
\* created_at that SQLite returns from an aware "now"; the TypeError ends the
\* whole sweep, so no packet expires in that round.
Poisoned(p) == rows[p].hitl.asked /\ rows[p].hitl.short

SweepRead ==
  /\ SweepIdle /\ Due # {}
  /\ \A p \in Due : ~Poisoned(p)
  /\ sweep' = [p \in Packets |-> IF p \in Due
                 THEN Entry("expired", rows[p].status, NoAgent, NoPacket) ELSE NoEntry]
  /\ clock' = clock + 1
  /\ UNCHANGED <<rows, aged, audit, told, req, faults>>

SweepCommit ==
  /\ ~SweepIdle
  /\ rows' = [p \in Packets |-> IF sweep[p] # NoEntry
                THEN [rows[p] EXCEPT !.status = "expired"] ELSE rows[p]]
  /\ audit' = [p \in Packets |-> audit[p] \union Logged(sweep[p])]
  /\ sweep' = [p \in Packets |-> NoEntry]
  /\ UNCHANGED <<aged, clock, told, req, faults>>

SweepFails ==
  /\ ~SweepIdle /\ faults < MaxFaults
  /\ sweep' = [p \in Packets |-> NoEntry]
  /\ faults' = faults + 1
  /\ UNCHANGED <<rows, aged, audit, clock, told, req>>

-----------------------------------------------------------------------------

Next ==
  \/ \E r \in Requests :
       \/ Begin(r) \/ \E p \in Packets : Read(r, p)
       \/ Commit(r) \/ Refresh(r) \/ Publish(r)
       \/ CommitFails(r) \/ RefreshFails(r)
  \/ \E p \in Packets : Age(p)
  \/ SweepRead \/ SweepCommit \/ SweepFails \/ Crash

Spec == Init /\ [][Next]_vars

\* The event loop runs a handler that can go on, and wakes the expiry task
\* every CHECK_INTERVAL_SECONDS.
Handle(r) == (\E p \in Packets : Read(r, p)) \/ Commit(r) \/ Refresh(r) \/ Publish(r)
FairSpec ==
  /\ Spec
  /\ \A r \in Requests : WF_vars(Handle(r))
  /\ WF_vars(SweepRead) /\ WF_vars(SweepCommit)

\* Callers that wait for each other's answers: no two handlers overlap, and
\* none overlaps a round of the expiry task.
OneAtATime ==
  /\ \A r, s \in Requests : InFlight(r) /\ InFlight(s) => r = s
  /\ (\E r \in Requests : InFlight(r)) => SweepIdle

SerialSpec == Init /\ [][Next /\ OneAtATime']_vars
-----------------------------------------------------------------------------
(* What must hold however the handlers interleave and fail (Spec) *)

TypeOK ==
  /\ rows \in [Packets -> Row]
  /\ aged \subseteq Packets
  /\ audit \in [Packets -> SUBSET Entries]
  /\ clock \in Nat
  /\ told \in [Packets -> SUBSET Events]
  /\ req \in [Requests -> Request]
  /\ sweep \in [Packets -> Entries \union {NoEntry}]
  /\ faults \in Nat

\* A completed packet says when it was completed, although status and metadata
\* are separate columns and other handlers overwrite both from stale copies.
CompletedIsStamped ==
  \A p \in Packets : rows[p].status = "completed" => rows[p].metadata.completedAt

\* A chained packet and its parent know of each other: both or neither of the
\* two entries of chain_packet's transaction are there.
ChainedBothWays ==
  \A c, p \in Packets :
    (\E e \in audit[c] : e.type = "created" /\ e.link = p)
      <=> (\E e \in audit[p] : e.type = "chained" /\ e.link = c)

\* A caller who was told that the status of a packet changed finds the entry that
\* very call made in the audit trail, saying so, and a claimant finds it under its
\* own name, after a crash too. Only a PATCH may change no status; it then leaves
\* no entry, and nothing is said of it here.
AckedIsDurable ==
  \A r \in Requests : \A a \in req[r].ok :
    /\ a.to = NoStatus => req[r].op = "patch"
    /\ a.to # NoStatus =>
         /\ a.entry \in audit[a.packet] /\ a.to \in StatusesAfter(a.entry)
         /\ req[r].op \in {"claim", "batch_claim"} => a.entry.by = req[r].agent

\* Subscribers hear of no status that the packet has not had: an event may come
\* late and out of order, but never for a change that was not committed.
PublishedStatusWasReached ==
  \A p \in Packets : \A e \in told[p] : \E d \in audit[p] : e.status \in StatusesAfter(d)

-----------------------------------------------------------------------------
(* What holds only when calls do not overlap (SerialSpec) *)

\* d is the newest entry about the status (entries about chaining say nothing of
\* it) among those of a trail that are older than the given time.
Newest(d, trail, time) ==
  /\ d \in trail /\ d.type # "chained" /\ d.at < time
  /\ \A e \in trail : d.at < e.at /\ e.at < time => e.type = "chained"

\* The audit trail agrees with the table: the newest entry about a packet's
\* status leads to the status of its row. (Handlers that overlap may commit in
\* another order than they stamped their entries.)
Agrees(row, trail) == \E d \in trail : Newest(d, trail, clock + 1) /\ row.status \in StatusesAfter(d)
AuditAgreesWithRow == \A p \in Packets : Exists(p) => Agrees(rows[p], audit[p])

\* Two claims of a packet by the claim endpoints are separated by an entry that
\* made the packet claimable again: only one agent holds a packet at a time.
IsClaim(e) == e.type = "claimed" /\ e.from = NoStatus
ClaimsAreExclusive ==
  \A p \in Packets : \A d, e \in audit[p] :
    d.at < e.at /\ IsClaim(d) /\ IsClaim(e) =>
      \E c \in audit[p] : d.at < c.at /\ c.at < e.at /\ c.type = "awaiting_human"

\* The status that PATCH, delete and the expiry task record as the previous one
\* is the one the entries before left the packet in. (The from_status of batch
\* complete is the new status: see the README.)
NamesPrevious(e) == e.from # NoStatus /\ ~(e.type = "completed" /\ e.by = NoAgent)
FromIsPrevious ==
  \A p \in Packets : \A e \in audit[p] : NamesPrevious(e) =>
    \E d \in audit[p] : Newest(d, audit[p], e.at) /\ e.from \in StatusesAfter(d)

\* The table behaves like the board: every change of status is a transition of
\* the table, owners change by claims, and recorded decisions stay.
Board == INSTANCE HandoffBoard WITH
           Notes     <- Requests,
           Absent    <- NoStatus,
           status    <- [p \in Packets |-> rows[p].status],
           owner     <- [p \in Packets |-> rows[p].metadata.target],
           decisions <- [p \in Packets |-> rows[p].decisions]
IsHandoffBoard == Board!Spec

-----------------------------------------------------------------------------
(* Progress (FairSpec) *)

\* A packet past its time to live ends, and stays, completed or expired.
OldPacketsExpire ==
  \A p \in Packets : [](p \in aged => <>[](IsTerminal(rows[p].status)))
=============================================================================
