------------------------- MODULE PacketHistoryProofs -------------------------
(***************************************************************************)
(* What callers and subscribers are told of a packet against its history   *)
(* in packet_events: nothing is answered, published or linked that the     *)
(* audit trail does not have, for any number of requests and faults.       *)
(***************************************************************************)
EXTENDS PacketLifecycleProofs

ClaimOps == {"claim", "batch_claim"}

Reached(trail, st) == \E e \in trail : st \in StatusesAfter(e)

\* The trail bears out what the receipt a of a call of op says.
Acked(op, agent, a, trail) ==
  /\ a.to = NoStatus => op = "patch"
  /\ a.to # NoStatus => /\ a.entry \in trail /\ a.to \in StatusesAfter(a.entry)
                        /\ op \in ClaimOps => a.entry.by = agent

\* What the handler of op has prepared for packet p is what it will answer, publish and
\* link.
Promised(op, agent, p, copy, dirty, log, event) ==
  /\ log.type # "chained"
  /\ IF op = "chain" THEN log.link = copy.parent /\ copy.parent \in Packets \ {p}
     ELSE log.link = NoPacket
  /\ op # "patch" => "status" \in dirty /\ event.status \in StatusesAfter(log)
  /\ op \in ClaimOps => log.by = agent

Existing == {p \in Packets : rows[p].status # NoStatus}

\* What is known of a handler q, given the packets that exist and the audit trails. A
\* creating endpoint has ids that do not exist yet, the others ids that do.
HandlerKnows(q, ex, a) ==
  /\ q.pc = "idle" => q.todo = {} /\ q.ok = {}
  /\ q.op \notin CreateOps => q.todo \subseteq ex
  /\ q.op \in CreateOps =>
       \A p \in q.todo : p \in ex => q.pc \in {"committed", "refreshed"} /\ p = q.item
  /\ q.pc \in {"loaded", "committed", "refreshed"} => q.item \in q.todo
  /\ q.pc = "loaded" => /\ Promised(q.op, q.agent, q.item, q.copy, q.dirty, q.log, q.event)
                        /\ q.answer = Receipt(q.item, q.copy, q.dirty, q.log)
  /\ q.pc \in {"committed", "refreshed"} =>
       /\ q.item \in ex /\ q.answer.packet = q.item
       /\ Acked(q.op, q.agent, q.answer, a[q.item])
  /\ q.pc = "refreshed" \/ (q.pc = "committed" /\ q.op \notin {"patch", "respond"}) =>
       Reached(a[q.item], q.event.status)
  /\ \A x \in q.ok : Acked(q.op, q.agent, x, a[x.packet])

HandlersKnow == \A r \in Requests : HandlerKnows(req[r], Existing, audit)

\* Nobody else draws the same id.
IdsApart ==
  \A r, s \in Requests :
    r # s /\ req[r].op \in CreateOps /\ req[s].op \in CreateOps =>
      req[r].todo \intersect req[s].todo = {}

Heard(t, a) == \A p \in Packets : \A e \in t[p] : Reached(a[p], e.status)

Linked(a) ==
  \A c, p \in Packets :
    (\E e \in a[c] : e.type = "created" /\ e.link = p)
      <=> (\E e \in a[p] : e.type = "chained" /\ e.link = c)

History == HandlersKnow /\ IdsApart /\ Heard(told, audit) /\ Linked(audit)

-----------------------------------------------------------------------------
(* The trail grows *)

Grown(a, b) == \A p \in Packets : a[p] \subseteq b[p]

\* What is known stays known as trails grow and packets come into being that are not
\* among those the handler is to create.
LEMMA KnownOn ==
  ASSUME NEW q \in Request, NEW ex \in SUBSET Packets, NEW more \in SUBSET Packets, NEW a, NEW b,
         HandlerKnows(q, ex, a), Grown(a, b), ex \subseteq more,
         q.op \in CreateOps => q.todo \intersect more \subseteq ex
  PROVE  HandlerKnows(q, more, b)
  <1>1. \A x : \A p \in Packets : Acked(q.op, q.agent, x, a[p]) => Acked(q.op, q.agent, x, b[p])
    BY DEF Acked, Grown
  <1>2. \A p \in Packets : Reached(a[p], q.event.status) => Reached(b[p], q.event.status)
    BY DEF Reached, Grown
  <1>3. q.todo \subseteq Packets /\ \A x \in q.ok : x.packet \in Packets
    BY DEF Request, Receipts
  <1>4. q.pc \in {"loaded", "committed", "refreshed"} => q.item \in Packets
    BY <1>3 DEF HandlerKnows
  <1> QED BY <1>1, <1>2, <1>3, <1>4 DEF HandlerKnows

LEMMA HeardOn ==
  ASSUME NEW t, NEW a, NEW b, Heard(t, a), Grown(a, b)
  PROVE  Heard(t, b)
  BY DEF Heard, Reached, Grown

\* A step of one handler that leaves the table and the trail alone.
LEMMA HandlerHistory ==
  ASSUME TypeOK, TypeOK', History, NEW r \in Requests, NEW q \in Request,
         req' = [req EXCEPT ![r] = q], UNCHANGED <<rows, audit>>,
         q.op = req[r].op, q.todo \subseteq req[r].todo,
         HandlerKnows(q, Existing, audit), Heard(told', audit)
  PROVE  History'
  <1>1. /\ req'[r] = q
        /\ \A s \in Requests : s # r => req'[s] = req[s]
    BY DEF TypeOK
  <1>2. Existing' = Existing /\ audit' = audit
    BY DEF Existing
  <1>3. \A s \in Requests : HandlerKnows(req'[s], Existing', audit')
    BY <1>1, <1>2 DEF History, HandlersKnow
  <1>4. HandlersKnow'
    BY <1>3 DEF HandlersKnow
  <1>5. IdsApart'
    BY <1>1 DEF History, IdsApart
  <1>6. Heard(told', audit') /\ Linked(audit')
    BY <1>2 DEF History
  <1>7. (Heard(told, audit) /\ Linked(audit))'
    BY <1>6 DEF Heard, Linked
  <1> QED BY <1>4, <1>5, <1>7 DEF History

\* e is q after it was done with p.
Finished(q, p, good, e) ==
  /\ e \in Request /\ e.pc \in {"done", "next"} /\ e.op = q.op /\ e.agent = q.agent
  /\ e.todo = q.todo \ {p}
  /\ e.ok = IF good THEN q.ok \union {q.answer} ELSE q.ok

LEMMA EndedFields ==
  ASSUME NEW q \in Request, NEW p \in Packets, NEW good \in BOOLEAN,
         good => q.answer \in Receipts
  PROVE  Finished(q, p, good, Ended(q, p, good))
  <1>1. Ended(q, p, good) \in Request
    BY EndedType
  <1>2. /\ Ended(q, p, good).pc \in {"done", "next"}
        /\ Ended(q, p, good).op = q.op /\ Ended(q, p, good).agent = q.agent
        /\ Ended(q, p, good).todo = q.todo \ {p}
    BY DEF Ended, Request
  <1>3. Ended(q, p, good).ok = IF good THEN q.ok \union {q.answer} ELSE q.ok
    <2>1. CASE good
      BY <2>1 DEF Ended, Request
    <2>2. CASE ~good
      BY <2>2 DEF Ended, Request
    <2> QED BY <2>1, <2>2
  <1> QED BY <1>1, <1>2, <1>3 DEF Finished

\* A handler that answers well has the receipt of what it did.
MayEnd(q, p, good, a) ==
  /\ q.pc \in {"loaded", "committed", "refreshed"} => p = q.item
  /\ good => q.answer \in Receipts /\ Acked(q.op, q.agent, q.answer, a[q.answer.packet])

\* A handler that is done with its packet.
LEMMA EndedKnows ==
  ASSUME NEW q \in Request, NEW p \in Packets, NEW good \in BOOLEAN,
         NEW ex, NEW a, HandlerKnows(q, ex, a), MayEnd(q, p, good, a)
  PROVE  HandlerKnows(Ended(q, p, good), ex, a)
  <1>1. PICK e : e = Ended(q, p, good)
    OBVIOUS
  <1>2. /\ e.pc \in {"done", "next"} /\ e.op = q.op /\ e.agent = q.agent
        /\ e.todo = q.todo \ {p}
        /\ e.ok = IF good THEN q.ok \union {q.answer} ELSE q.ok
    <2>1. good => q.answer \in Receipts
      BY DEF MayEnd
    <2>2. Finished(q, p, good, e)
      BY <1>1, <2>1, EndedFields
    <2> QED BY <2>2 DEF Finished
  <1>3. \A x \in e.ok : Acked(e.op, e.agent, x, a[x.packet])
    BY <1>2 DEF HandlerKnows, MayEnd
  <1>4. HandlerKnows(e, ex, a)
    BY <1>2, <1>3 DEF HandlerKnows, MayEnd
  <1> QED BY <1>1, <1>4

LEMMA EndedHistory ==
  ASSUME TypeOK, TypeOK', History, NEW r \in Requests, NEW p \in Packets, NEW good \in BOOLEAN,
         req' = [req EXCEPT ![r] = Ended(req[r], p, good)], UNCHANGED <<rows, audit>>,
         MayEnd(req[r], p, good, audit), Heard(told', audit)
  PROVE  History'
  <1>1. PICK old \in Request : old = req[r]
    BY DEF TypeOK
  <1>2. PICK q : q = Ended(old, p, good)
    OBVIOUS
  <1>3. q \in Request /\ q.op = old.op /\ q.todo = old.todo \ {p}
    <2>0. good => old.answer \in Receipts
      BY <1>1 DEF MayEnd
    <2>1. Finished(old, p, good, q)
      BY <1>2, <2>0, EndedFields
    <2> QED BY <2>1 DEF Finished
  <1>4. HandlerKnows(old, Existing, audit)
    BY <1>1 DEF History, HandlersKnow
  <1>5. HandlerKnows(q, Existing, audit)
    BY <1>1, <1>2, <1>4, EndedKnows
  <1>6. req' = [req EXCEPT ![r] = q] /\ q.op = req[r].op /\ q.todo \subseteq req[r].todo
    BY <1>1, <1>2, <1>3
  <1> QED BY <1>3, <1>5, <1>6, HandlerHistory

-----------------------------------------------------------------------------
(* The steps of a handler *)

LoadsPromised(r, p) ==
  \E copy, dirty, log, event :
    /\ Load(r, p, copy, dirty, log, event)
    /\ Promised(req[r].op, req[r].agent, p, copy, dirty, log, event)

\* Every endpoint logs what it will answer and publish, and only chain links packets.
LEMMA ReadPromises ==
  ASSUME TypeOK, History, NEW r \in Requests, NEW p \in Packets, Read(r, p)
  PROVE  /\ req[r].pc = "next" /\ p \in req[r].todo
         /\ Reject(r, p) \/ LoadsPromised(r, p)
  <1>0. /\ req[r].pc = "next" /\ p \in req[r].todo /\ req[r].op \in Ops
        /\ UNCHANGED <<rows, aged, audit, told, sweep, faults>>
    BY DEF Read, PrepareCreate, ReadChain, ReadClaim, ReadComplete, ReadPatch,
           ReadDelete, ReadRespond, Reading, Ops, CreateOps, BatchOps
  <1>1. CASE PrepareCreate(r, p)
    <2>1. req[r].op \in {"create", "batch_create"}
      BY <1>1 DEF PrepareCreate, Reading
    <2>2. SUFFICES ASSUME NEW h, NEW st \in {"created", "awaiting_human"},
                          Load(r, p, NewRow(st, req[r].agent, h, NoPacket), Columns,
                               Entry("created", NoStatus, NoAgent, NoPacket),
                               Event("created", st))
                   PROVE  LoadsPromised(r, p)
      BY <1>0, <1>1 DEF PrepareCreate
    <2>3. Promised(req[r].op, req[r].agent, p, NewRow(st, req[r].agent, h, NoPacket), Columns,
                   Entry("created", NoStatus, NoAgent, NoPacket), Event("created", st))
      BY <2>1 DEF Promised, CreateOps, ClaimOps, StatusesAfter, Entry, EntryAt, Event,
         Columns
    <2> QED BY <2>2, <2>3 DEF LoadsPromised
  <1>2. CASE ReadChain(r, p)
    <2>1. req[r].op = "chain"
      BY <1>2 DEF ReadChain, Reading
    <2>2. SUFFICES ASSUME NEW par \in Packets, NEW h, NEW st \in {"created", "awaiting_human"},
                          Exists(par),
                          Load(r, p, NewRow(st, req[r].agent, h, par), Columns,
                               Entry("created", NoStatus, NoAgent, par),
                               Event("chained", st))
                   PROVE  LoadsPromised(r, p)
      BY <1>0, <1>2 DEF ReadChain
    <2>3. par # p
      BY <1>0, <2>1, <2>2 DEF History, HandlersKnow, HandlerKnows, CreateOps, Existing, Exists
    <2>4. Promised(req[r].op, req[r].agent, p, NewRow(st, req[r].agent, h, par), Columns,
                   Entry("created", NoStatus, NoAgent, par), Event("chained", st))
      BY <2>1, <2>3 DEF Promised, CreateOps, ClaimOps, StatusesAfter, Entry, EntryAt, Event, NewRow, Columns
    <2> QED BY <2>2, <2>4 DEF LoadsPromised
  <1>3. CASE ReadClaim(r, p)
    <2>1. req[r].op \in {"claim", "batch_claim"}
      BY <1>3 DEF ReadClaim, Reading
    <2>2. \A copy : Promised(req[r].op, req[r].agent, p, copy, {"status", "metadata"},
                      Entry("claimed", NoStatus, req[r].agent, NoPacket), Event("claimed", "claimed"))
      BY <2>1 DEF Promised, CreateOps, StatusesAfter, Entry, EntryAt, Event
    <2> QED BY <1>0, <1>3, <2>2 DEF LoadsPromised, ReadClaim
  <1>4. CASE ReadComplete(r, p)
    <2>1. req[r].op = "batch_complete"
      BY <1>4 DEF ReadComplete, Reading
    <2>2. \A copy : Promised(req[r].op, req[r].agent, p, copy, {"status", "metadata"},
                      Entry("completed", "completed", NoAgent, NoPacket),
                      Event("completed", "completed"))
      BY <2>1 DEF Promised, CreateOps, ClaimOps, StatusesAfter, Entry, EntryAt, Event
    <2> QED BY <1>0, <1>4, <2>2 DEF LoadsPromised, ReadComplete
  <1>5. CASE ReadPatch(r, p)
    <2>1. req[r].op = "patch"
      BY <1>5 DEF ReadPatch, Reading
    <2>2. PICK body \in Patches :
            \/ Reject(r, p)
            \/ \E copy, dirty, event :
                 Load(r, p, copy, dirty, PatchEntry(rows[p], body), event)
      BY <1>5 DEF ReadPatch
    <2>3. body.to # "chained"
      BY ConstantsAssumption DEF Status
    <2>4. PatchEntry(rows[p], body).type # "chained" /\ PatchEntry(rows[p], body).link = NoPacket
      BY <2>3 DEF PatchEntry, NoEntry, Entry, EntryAt, NoStatus
    <2>5. \A copy, dirty, event :
            Promised(req[r].op, req[r].agent, p, copy, dirty, PatchEntry(rows[p], body), event)
      BY <2>1, <2>4 DEF Promised, ClaimOps
    <2> QED BY <1>0, <2>2, <2>5 DEF LoadsPromised
  <1>6. CASE ReadDelete(r, p)
    <2>1. req[r].op = "delete"
      BY <1>6 DEF ReadDelete, Reading
    <2>2. \A copy : Promised(req[r].op, req[r].agent, p, copy, {"status"}, Deleted(rows[p]),
                             Event("expired", "expired"))
      BY <2>1 DEF Promised, CreateOps, ClaimOps, StatusesAfter, Deleted, Entry, EntryAt, Event
    <2> QED BY <1>0, <1>6, <2>2 DEF LoadsPromised, ReadDelete
  <1>7. CASE ReadRespond(r, p)
    <2>1. req[r].op = "respond"
      BY <1>7 DEF ReadRespond, Reading
    <2>2. \A copy : Promised(req[r].op, req[r].agent, p, copy, {"status", "metadata", "hitl"},
                      Entry("hitl_responded", NoStatus, NoAgent, NoPacket),
                      Event("response_ready", "claimed"))
      BY <2>1 DEF Promised, CreateOps, ClaimOps, StatusesAfter, Entry, EntryAt, Event
    <2> QED BY <1>0, <1>7, <2>2 DEF LoadsPromised, ReadRespond
  <1> QED BY <1>0, <1>1, <1>2, <1>3, <1>4, <1>5, <1>6, <1>7 DEF Read

LEMMA ReadHistory ==
  ASSUME Inv, Inv', History, NEW r \in Requests, NEW p \in Packets, Read(r, p)
  PROVE  History'
  <1>1. /\ TypeOK /\ TypeOK' /\ UNCHANGED <<rows, aged, audit, told, sweep, faults>>
        /\ req[r].pc = "next" /\ p \in req[r].todo
        /\ Reject(r, p) \/ LoadsPromised(r, p)
    BY ReadOutcome, ReadPromises DEF Inv
  <1>2. Heard(told', audit)
    BY <1>1 DEF History
  <1>3. CASE Reject(r, p)
    BY <1>1, <1>2, <1>3, EndedHistory DEF Reject, MayEnd
  <1>4. CASE LoadsPromised(r, p)
    <2>1. PICK copy, dirty, log, event :
            /\ Load(r, p, copy, dirty, log, event)
            /\ Promised(req[r].op, req[r].agent, p, copy, dirty, log, event)
      BY <1>4 DEF LoadsPromised
    <2>2. PICK q : q = Holding(req[r], p, copy, dirty, log, event)
      OBVIOUS
    <2>3. req' = [req EXCEPT ![r] = q]
      BY <2>1, <2>2 DEF Load
    <2>4. q \in Request
      BY <1>1, <2>3 DEF TypeOK
    <2>5. req[r] \in Request /\ HandlerKnows(req[r], Existing, audit)
      BY <1>1 DEF TypeOK, History, HandlersKnow
    <2>6. /\ q.pc = "loaded" /\ q.item = p /\ q.op = req[r].op /\ q.agent = req[r].agent
          /\ q.todo = req[r].todo /\ q.ok = req[r].ok
          /\ q.copy = copy /\ q.dirty = dirty /\ q.log = log /\ q.event = event
          /\ q.answer = Receipt(p, copy, dirty, log)
      BY <2>2, <2>5 DEF Holding, Request
    <2>7. HandlerKnows(q, Existing, audit)
      BY <1>1, <2>1, <2>5, <2>6 DEF HandlerKnows
    <2> QED BY <1>1, <1>2, <2>3, <2>4, <2>6, <2>7, HandlerHistory
  <1> QED BY <1>1, <1>3, <1>4

\* The ids of a creation are fresh, the others exist.
LEMMA BeginHistory ==
  ASSUME Inv, Inv', History, NEW r \in Requests, Begin(r)
  PROVE  History'
  <1>1. PICK op \in Ops, a \in Agents \union {NoAgent}, ps \in SUBSET Packets :
          /\ IF op \in CreateOps
             THEN \A p \in ps : ~Exists(p) /\ \A s \in Requests : p \notin req[s].todo
             ELSE \A p \in ps : Exists(p)
          /\ req' = [req EXCEPT ![r] = [@ EXCEPT !.pc = "next", !.op = op,
                                                 !.agent = a, !.todo = ps]]
    BY ConstantsAssumption DEF Begin
  <1>2. /\ TypeOK /\ req[r].pc = "idle" /\ UNCHANGED <<rows, aged, audit, told, sweep, faults>>
    BY DEF Begin, Inv
  <1>3. req[r] \in Request /\ HandlerKnows(req[r], Existing, audit)
    BY <1>2 DEF TypeOK, History, HandlersKnow
  <1>4. /\ req'[r].pc = "next" /\ req'[r].op = op /\ req'[r].todo = ps /\ req'[r].ok = {}
        /\ \A s \in Requests : s # r => req'[s] = req[s]
    BY <1>1, <1>2, <1>3 DEF TypeOK, Request, HandlerKnows
  <1>5. Existing' = Existing /\ audit' = audit /\ told' = told
    BY <1>2 DEF Existing
  <1>6. HandlerKnows(req'[r], Existing, audit)
    BY <1>1, <1>4 DEF HandlerKnows, Existing, Exists
  <1>7. HandlersKnow'
    <2>1. \A s \in Requests : HandlerKnows(req'[s], Existing', audit')
      BY <1>4, <1>5, <1>6 DEF History, HandlersKnow
    <2> QED BY <2>1 DEF HandlersKnow
  <1>8. IdsApart'
    BY <1>1, <1>4 DEF History, IdsApart
  <1>9. (Heard(told, audit) /\ Linked(audit))'
    BY <1>5 DEF History, Heard, Linked
  <1> QED BY <1>7, <1>8, <1>9 DEF History

LEMMA RefreshHistory ==
  ASSUME Inv, Inv', History, NEW r \in Requests, Refresh(r)
  PROVE  History'
  <1>1. PICK q : q = [req[r] EXCEPT !.pc = "refreshed", !.event.status = PublishedStatus(req[r])]
    OBVIOUS
  <1>2. /\ req' = [req EXCEPT ![r] = q] /\ UNCHANGED <<rows, aged, audit, told, sweep, faults>>
        /\ TypeOK /\ TypeOK' /\ RowsExplained /\ req[r].pc = "committed"
    BY <1>1 DEF Refresh, Inv
  <1>3. q \in Request /\ req[r] \in Request /\ HandlerKnows(req[r], Existing, audit)
    BY <1>2 DEF TypeOK, History, HandlersKnow
  <1>4. /\ q.pc = "refreshed" /\ q.item = req[r].item /\ q.op = req[r].op /\ q.agent = req[r].agent
        /\ q.todo = req[r].todo /\ q.ok = req[r].ok /\ q.answer = req[r].answer
        /\ q.event.status = PublishedStatus(req[r])
    BY <1>1, <1>3 DEF Request, Events
  <1>5. /\ req[r].item \in Existing /\ q.answer.packet = q.item
        /\ Acked(q.op, q.agent, q.answer, audit[q.item])
    BY <1>2, <1>3, <1>4 DEF HandlerKnows
  <1>6. Reached(audit[q.item], q.event.status)
    <2>1. CASE q.op \in {"patch", "respond"}
      <3>1. Reached(audit[q.item], rows[q.item].status)
        BY <1>2, <1>4, <1>5 DEF RowsExplained, Existing, Reached
      <3>2. q.event.status = rows[q.item].status
        BY <1>4, <2>1 DEF PublishedStatus
      <3> QED BY <3>1, <3>2
    <2>2. CASE q.op \notin {"patch", "respond"}
      BY <1>2, <1>3, <1>4, <2>2 DEF PublishedStatus, HandlerKnows
    <2> QED BY <2>1, <2>2
  <1>7. HandlerKnows(q, Existing, audit)
    BY <1>2, <1>3, <1>4, <1>5, <1>6 DEF HandlerKnows
  <1>8. Heard(told', audit)
    BY <1>2 DEF History
  <1> QED BY <1>2, <1>3, <1>4, <1>7, <1>8, HandlerHistory

LEMMA PublishHistory ==
  ASSUME Inv, Inv', History, NEW r \in Requests, Publish(r)
  PROVE  History'
  <1>1. /\ req' = [req EXCEPT ![r] = Ended(req[r], req[r].item, TRUE)]
        /\ told' = [told EXCEPT ![req[r].item] = @ \union {req[r].event}]
        /\ UNCHANGED <<rows, aged, audit, sweep, faults>>
        /\ TypeOK /\ TypeOK' /\ req[r].answer \in Receipts
        /\ req[r].pc = "refreshed" \/ (req[r].pc = "committed" /\ req[r].op = "delete")
    BY DEF Publish, ReadyToPublish, Inv, HandlersOK
  <1>2. HandlerKnows(req[r], Existing, audit) /\ told \in [Packets -> SUBSET Events]
    BY <1>1 DEF TypeOK, History, HandlersKnow
  <1>3. /\ req[r].item \in Packets
        /\ req[r].answer.packet = req[r].item
        /\ Acked(req[r].op, req[r].agent, req[r].answer, audit[req[r].item])
        /\ Reached(audit[req[r].item], req[r].event.status)
    BY <1>1, <1>2 DEF HandlerKnows, Existing
  <1>4. Heard(told', audit)
    <2> SUFFICES ASSUME NEW p \in Packets, NEW e \in told'[p]
                 PROVE  Reached(audit[p], e.status)
      BY DEF Heard
    <2>1. e \in told[p] \/ (p = req[r].item /\ e = req[r].event)
      BY <1>1, <1>2
    <2> QED BY <1>3, <2>1 DEF History, Heard
  <1>5. MayEnd(req[r], req[r].item, TRUE, audit)
    BY <1>1, <1>3 DEF MayEnd
  <1> QED BY <1>1, <1>3, <1>4, <1>5, EndedHistory

LEMMA FailureHistory ==
  ASSUME Inv, Inv', History, NEW r \in Requests, CommitFails(r) \/ RefreshFails(r)
  PROVE  History'
  <1>1. /\ UNCHANGED <<rows, aged, audit, told, sweep>> /\ TypeOK /\ TypeOK'
        /\ req[r].pc \in {"loaded", "committed"}
        /\ Reject(r, req[r].item) \/ req' = [req EXCEPT ![r] = Broken(req[r])]
    BY DEF CommitFails, RefreshFails, Inv
  <1>2. req[r] \in Request /\ HandlerKnows(req[r], Existing, audit) /\ req[r].item \in Packets
    BY <1>1 DEF TypeOK, History, HandlersKnow, Inv, HandlersOK
  <1>3. Heard(told', audit)
    BY <1>1 DEF History
  <1>4. CASE Reject(r, req[r].item)
    BY <1>1, <1>2, <1>3, <1>4, EndedHistory DEF Reject, MayEnd
  <1>5. CASE req' = [req EXCEPT ![r] = Broken(req[r])]
    <2>1. PICK q : q = Broken(req[r])
      OBVIOUS
    <2>2. req' = [req EXCEPT ![r] = q] /\ q \in Request
      BY <1>1, <1>5, <2>1 DEF TypeOK
    <2>3. /\ q.pc = "done" /\ q.op = req[r].op /\ q.agent = req[r].agent
          /\ q.todo = {} /\ q.ok = req[r].ok
      BY <1>2, <2>1 DEF Broken, Ended, Request
    <2>4. HandlerKnows(q, Existing, audit)
      BY <1>2, <2>3 DEF HandlerKnows
    <2> QED BY <1>1, <1>3, <2>2, <2>3, <2>4, HandlerHistory
  <1> QED BY <1>1, <1>4, <1>5

LEMMA CrashHistory ==
  ASSUME Inv, Inv', History, Crash
  PROVE  History'
  <1>1. /\ UNCHANGED <<rows, aged, audit, told>> /\ TypeOK /\ TypeOK'
    BY DEF Crash, Inv
  <1>2. Existing' = Existing /\ audit' = audit /\ told' = told
    BY <1>1 DEF Existing
  <1>3. ASSUME NEW r \in Requests
        PROVE  \/ req'[r] = req[r]
               \/ /\ req'[r].pc = "lost" /\ req'[r].op = req[r].op /\ req'[r].agent = req[r].agent
                  /\ req'[r].todo = {} /\ req'[r].ok = req[r].ok
    BY DEF Crash, Fresh
  <1>4. ASSUME NEW r \in Requests
        PROVE  HandlerKnows(req'[r], Existing', audit')
    <2>1. HandlerKnows(req[r], Existing, audit)
      BY DEF History, HandlersKnow
    <2> QED BY <1>2, <1>3, <2>1 DEF HandlerKnows
  <1>5. HandlersKnow'
    BY <1>4 DEF HandlersKnow
  <1>6. IdsApart'
    <2>1. \A r \in Requests : req'[r].op = req[r].op /\ req'[r].todo \subseteq req[r].todo
      BY <1>3
    <2> QED BY <2>1 DEF History, IdsApart
  <1>7. (Heard(told, audit) /\ Linked(audit))'
    BY <1>2 DEF History, Heard, Linked
  <1> QED BY <1>5, <1>6, <1>7 DEF History

\* A step that no handler, no trail and no subscriber sees.
LEMMA StillHistory ==
  ASSUME History, UNCHANGED <<rows, audit, told, req>>
  PROVE  History'
  <1>1. Existing' = Existing /\ audit' = audit /\ told' = told /\ req' = req
    BY DEF Existing
  <1>2. HandlersKnow'
    <2>1. \A s \in Requests : HandlerKnows(req'[s], Existing', audit')
      BY <1>1 DEF History, HandlersKnow
    <2> QED BY <2>1 DEF HandlersKnow
  <1>3. IdsApart'
    BY <1>1 DEF History, IdsApart
  <1>4. (Heard(told, audit) /\ Linked(audit))'
    BY <1>1 DEF History, Heard, Linked
  <1> QED BY <1>2, <1>3, <1>4 DEF History
-----------------------------------------------------------------------------
(* The steps that write *)

\* Entries about nothing but one packet leave the links between packets as they are.
LEMMA LinkedOn ==
  ASSUME NEW a, NEW b, Linked(a), Grown(a, b),
         \A x \in Packets : \A e \in b[x] :
           e \in a[x] \/ (e.type # "chained" /\ e.link = NoPacket)
  PROVE  Linked(b)
  <1>1. \A x, y \in Packets : \A e \in b[x] :
          (e.link = y \/ e.type = "chained") => e \in a[x]
    BY ConstantsAssumption
  <1> SUFFICES ASSUME NEW c \in Packets, NEW p \in Packets
               PROVE  (\E e \in b[c] : e.type = "created" /\ e.link = p)
                        <=> (\E e \in b[p] : e.type = "chained" /\ e.link = c)
    BY DEF Linked
  <1>2. (\E e \in b[c] : e.type = "created" /\ e.link = p)
          <=> (\E e \in a[c] : e.type = "created" /\ e.link = p)
    BY <1>1 DEF Grown
  <1>3. (\E e \in b[p] : e.type = "chained" /\ e.link = c)
          <=> (\E e \in a[p] : e.type = "chained" /\ e.link = c)
    BY <1>1 DEF Grown
  <1> QED BY <1>2, <1>3 DEF Linked

\* The trails a have become b by what chain_packet logs of child p and parent par.
Chains(a, b, p, par, log, link) ==
  /\ par # p
  /\ log.type = "created" /\ log.link = par
  /\ link.type = "chained" /\ link.link = p
  /\ \A x \in Packets : b[x] = a[x] \union
       (IF x = p THEN {log} ELSE IF x = par THEN {link} ELSE {})

\* The two entries of a chained packet link it both ways.
LEMMA LinkedByChain ==
  ASSUME NEW a, NEW b, Linked(a), NEW p \in Packets, NEW par \in Packets,
         NEW log, NEW link, Chains(a, b, p, par, log, link)
  PROVE  Linked(b)
  <1>0. /\ par # p
        /\ log.type = "created" /\ log.link = par
        /\ link.type = "chained" /\ link.link = p
        /\ \A x \in Packets : b[x] = a[x] \union
             (IF x = p THEN {log} ELSE IF x = par THEN {link} ELSE {})
    BY DEF Chains
  <1> SUFFICES ASSUME NEW c \in Packets, NEW x \in Packets
               PROVE  (\E e \in b[c] : e.type = "created" /\ e.link = x)
                        <=> (\E e \in b[x] : e.type = "chained" /\ e.link = c)
    BY DEF Linked
  <1>1. (\E e \in b[c] : e.type = "created" /\ e.link = x)
          <=> \/ \E e \in a[c] : e.type = "created" /\ e.link = x
              \/ c = p /\ x = par
    <2>1. CASE c = p
      <3>1. b[c] = a[c] \union {log}
        BY <1>0, <2>1
      <3> QED BY <1>0, <2>1, <3>1
    <2>2. CASE c = par
      <3>1. b[c] = a[c] \union {link}
        BY <1>0, <2>2
      <3> QED BY <1>0, <2>2, <3>1
    <2>3. CASE c # p /\ c # par
      <3>0. b[c] = a[c] \union {}
        BY <1>0, <2>3
      <3>1. b[c] = a[c]
        BY <3>0
      <3> QED BY <1>0, <2>3, <3>1
    <2> QED BY <2>1, <2>2, <2>3
  <1>2. (\E e \in b[x] : e.type = "chained" /\ e.link = c)
          <=> \/ \E e \in a[x] : e.type = "chained" /\ e.link = c
              \/ c = p /\ x = par
    <2>1. CASE x = p
      <3>1. b[x] = a[x] \union {log}
        BY <1>0, <2>1
      <3> QED BY <1>0, <2>1, <3>1
    <2>2. CASE x = par
      <3>1. b[x] = a[x] \union {link}
        BY <1>0, <2>2
      <3> QED BY <1>0, <2>2, <3>1
    <2>3. CASE x # p /\ x # par
      <3>0. b[x] = a[x] \union {}
        BY <1>0, <2>3
      <3>1. b[x] = a[x]
        BY <3>0
      <3> QED BY <1>0, <2>3, <3>1
    <2> QED BY <2>1, <2>2, <2>3
  <1> QED BY <1>1, <1>2 DEF Linked

\* What a commit does to the table and the trails.
LEMMA CommitFacts ==
  ASSUME Inv, History, NEW r \in Requests, Commit(r)
  PROVE  /\ req[r].pc = "loaded" /\ req[r].item \in Packets
         /\ Existing' = Existing \union {req[r].item}
         /\ audit \in [Packets -> SUBSET Entries]
         /\ req[r].log \in Entries \union {NoEntry}
         /\ audit' = [x \in Packets |-> Trail(req[r], x)]
         /\ Prepared(req[r].op, req[r].copy, req[r].dirty, req[r].log)
         /\ Promised(req[r].op, req[r].agent, req[r].item, req[r].copy, req[r].dirty, req[r].log,
                     req[r].event)
         /\ req[r].answer = Receipt(req[r].item, req[r].copy, req[r].dirty, req[r].log)
  <1> DEFINE q == req[r]
             p == req[r].item
  <1>1. /\ TypeOK /\ q.pc = "loaded" /\ p \in Packets
        /\ Prepared(q.op, q.copy, q.dirty, q.log)
        /\ rows' = [rows EXCEPT ![p] = IF q.op \in CreateOps THEN q.copy
                                       ELSE MergeRow(@, q.copy, q.dirty)]
        /\ audit' = [x \in Packets |-> Trail(q, x)]
    BY DEF Commit, Inv, HandlersOK
  <1>2. q \in Request /\ HandlerKnows(q, Existing, audit) /\ rows \in [Packets -> Row]
        /\ q.log \in Entries \union {NoEntry} /\ audit \in [Packets -> SUBSET Entries]
    BY <1>1 DEF TypeOK, History, HandlersKnow, Request
  <1>3. rows'[p].status # NoStatus
    <2>1. CASE q.op \in CreateOps
      <3>1. rows'[p] = q.copy
        BY <1>1, <1>2, <2>1
      <3> QED BY <1>1, <2>1, <3>1 DEF Prepared, NoStatus
    <2>2. CASE q.op \notin CreateOps /\ "status" \in q.dirty
      <3>1. rows'[p].status = q.copy.status
        BY <1>1, <1>2, <2>2 DEF MergeRow
      <3>2. q.log.type \in EntryTypes /\ q.copy.status \in StatusesAfter(q.log)
        BY <1>1, <2>2 DEF Prepared
      <3>3. NoStatus \notin StatusesAfter(q.log)
        BY <3>2 DEF StatusesAfter, EntryTypes, Status, NoStatus
      <3> QED BY <3>1, <3>2, <3>3
    <2>3. CASE q.op \notin CreateOps /\ "status" \notin q.dirty
      <3>1. rows'[p].status = rows[p].status
        BY <1>1, <1>2, <2>3 DEF MergeRow
      <3>2. p \in Existing
        BY <1>1, <1>2, <2>3 DEF HandlerKnows
      <3> QED BY <3>1, <3>2 DEF Existing
    <2> QED BY <2>1, <2>2, <2>3
  <1>4. \A x \in Packets : x # p => rows'[x] = rows[x]
    BY <1>1, <1>2
  <1>5. Existing' = Existing \union {p}
    BY <1>1, <1>3, <1>4 DEF Existing
  <1>6. /\ Promised(q.op, q.agent, p, q.copy, q.dirty, q.log, q.event)
        /\ q.answer = Receipt(p, q.copy, q.dirty, q.log)
    BY <1>1, <1>2 DEF HandlerKnows
  <1> QED BY <1>1, <1>2, <1>5, <1>6

\* A handler that changes the status has an entry to show for it.
LEMMA DirtyIsLogged ==
  ASSUME NEW q \in Request, Prepared(q.op, q.copy, q.dirty, q.log), "status" \in q.dirty
  PROVE  /\ q.log \in Entries /\ q.log # NoEntry
         /\ q.copy.status \in StatusesAfter(q.log) /\ q.copy.status # NoStatus
  <1>1. NoEntry.type = NoStatus
    BY DEF NoEntry, EntryAt
  <1>2. NoStatus \notin EntryTypes
    BY DEF EntryTypes, Status, NoStatus
  <1>3. q.log \in Entries \union {NoEntry}
    BY DEF Request
  <1>4. CASE q.op \in CreateOps
    BY <1>1, <1>3, <1>4 DEF Prepared, StatusesAfter, NoStatus
  <1>5. CASE q.op \notin CreateOps
    <2>1. q.log.type \in EntryTypes /\ q.copy.status \in StatusesAfter(q.log)
      BY <1>5 DEF Prepared
    <2>2. NoStatus \notin StatusesAfter(q.log)
      BY <2>1 DEF StatusesAfter, EntryTypes, Status, NoStatus
    <2> QED BY <1>1, <1>2, <1>3, <2>1, <2>2
  <1> QED BY <1>4, <1>5

LEMMA CommitSaid ==
  ASSUME Inv, History, NEW r \in Requests, Commit(r)
  PROVE  /\ Grown(audit, audit') /\ Linked(audit')
         /\ Acked(req[r].op, req[r].agent, req[r].answer, audit'[req[r].item])
         /\ req[r].op \notin {"patch", "respond"} =>
              Reached(audit'[req[r].item], req[r].event.status)
  <1>1. PICK q \in Request : q = req[r]
    BY DEF Inv, TypeOK
  <1>2. PICK p \in Packets : p = q.item
    BY <1>1, CommitFacts
  <1>3. /\ audit' = [x \in Packets |-> Trail(q, x)]
        /\ Prepared(q.op, q.copy, q.dirty, q.log)
        /\ Promised(q.op, q.agent, p, q.copy, q.dirty, q.log, q.event)
        /\ q.answer = Receipt(p, q.copy, q.dirty, q.log)
    BY <1>1, <1>2, CommitFacts
  <1>4. q.op \in Ops \union {"none"} /\ Linked(audit)
    BY DEF Request, History
  <1>5. PICK l : l = EntryAt("chained", NoStatus, NoAgent, p, q.log.at)
    OBVIOUS
  <1>6. l.type = "chained" /\ l.link = p
    BY <1>5 DEF EntryAt
  <1>7. \A x \in Packets :
          audit'[x] = audit[x] \union
                        (IF x = p THEN IF q.log = NoEntry THEN {} ELSE {q.log}
                         ELSE IF q.op = "chain" /\ x = q.copy.parent THEN {l} ELSE {})
    BY <1>2, <1>3, <1>5 DEF Trail, Logged
  <1>8. Grown(audit, audit')
    BY <1>7 DEF Grown
  <1>9. "status" \in q.dirty =>
          /\ q.log \in audit'[p] /\ q.log # NoEntry
          /\ q.copy.status \in StatusesAfter(q.log) /\ q.copy.status # NoStatus
    BY <1>3, <1>7, DirtyIsLogged
  <1>10. Acked(q.op, q.agent, q.answer, audit'[p])
    BY <1>3, <1>9 DEF Acked, Promised, Receipt
  <1>11. q.op \notin {"patch", "respond"} => Reached(audit'[p], q.event.status)
    BY <1>3, <1>9 DEF Promised, Reached
  <1>12. Linked(audit')
    <2>1. CASE q.op = "chain"
      <3>1. /\ q.log.type = "created" /\ q.log.link = q.copy.parent /\ q.log # NoEntry
            /\ q.copy.parent \in Packets /\ q.copy.parent # p
        BY <1>3, <1>9, <2>1 DEF Promised, Prepared, CreateOps
      <3>2. \A x \in Packets : audit'[x] = audit[x] \union
              (IF x = p THEN {q.log} ELSE IF x = q.copy.parent THEN {l} ELSE {})
        BY <1>7, <2>1, <3>1
      <3>3. Chains(audit, audit', p, q.copy.parent, q.log, l)
        BY <1>6, <3>1, <3>2 DEF Chains
      <3> QED BY <1>4, <3>1, <3>3, LinkedByChain
    <2>2. CASE q.op # "chain"
      <3>1. q.log.type # "chained" /\ q.log.link = NoPacket
        BY <1>3, <2>2 DEF Promised
      <3>2. \A x \in Packets : \A e \in audit'[x] :
              e \in audit[x] \/ (e.type # "chained" /\ e.link = NoPacket)
        BY <1>7, <2>2, <3>1
      <3> QED BY <1>4, <1>8, <3>2, LinkedOn
    <2> QED BY <2>1, <2>2
  <1> QED BY <1>1, <1>2, <1>8, <1>10, <1>11, <1>12

LEMMA CommitHistory ==
  ASSUME Inv, Inv', History, NEW r \in Requests, Commit(r)
  PROVE  History'
  <1>1. PICK old \in Request : old = req[r]
    BY DEF Inv, TypeOK
  <1>2. PICK q : q = [old EXCEPT !.pc = "committed", !.copy = NoRow, !.dirty = {}, !.log = NoEntry]
    OBVIOUS
  <1>3. /\ req' = [req EXCEPT ![r] = q] /\ told' = told
        /\ req \in [Requests -> Request] /\ HandlerKnows(old, Existing, audit)
    BY <1>1, <1>2 DEF Commit, Inv, TypeOK, History, HandlersKnow
  <1>4. /\ q.pc = "committed" /\ q.item = old.item /\ q.op = old.op /\ q.agent = old.agent
        /\ q.todo = old.todo /\ q.ok = old.ok /\ q.event = old.event /\ q.answer = old.answer
    BY <1>1, <1>2 DEF Request
  <1>5. /\ old.pc = "loaded" /\ old.item \in Packets /\ old.item \in old.todo
        /\ Existing' = Existing \union {old.item} /\ old.answer.packet = old.item
    BY <1>1, <1>3, CommitFacts DEF HandlerKnows, Receipt
  <1>6. /\ Grown(audit, audit') /\ Linked(audit')
        /\ Acked(q.op, q.agent, q.answer, audit'[q.item])
        /\ q.op \notin {"patch", "respond"} => Reached(audit'[q.item], q.event.status)
    BY <1>1, <1>4, CommitSaid
  <1>7. HandlerKnows(q, Existing', audit')
    <2>1. \A x \in q.ok : Acked(q.op, q.agent, x, audit'[x.packet])
      <3>1. \A x \in q.ok : x.packet \in Packets
        BY <1>1, <1>4 DEF Request, Receipts
      <3>2. \A x \in q.ok : Acked(q.op, q.agent, x, audit[x.packet])
        BY <1>3, <1>4 DEF HandlerKnows
      <3> QED BY <1>6, <3>1, <3>2 DEF Acked, Grown
    <2>2. /\ q.op \notin CreateOps => q.todo \subseteq Existing'
          /\ q.op \in CreateOps => \A p \in q.todo : p \in Existing' => p = q.item
      BY <1>3, <1>4, <1>5 DEF HandlerKnows
    <2> QED BY <1>4, <1>5, <1>6, <2>1, <2>2 DEF HandlerKnows
  <1>8. ASSUME NEW s \in Requests, s # r
        PROVE  HandlerKnows(req'[s], Existing', audit')
    <2>1. PICK t \in Request : t = req[s]
      BY <1>3
    <2>2. HandlerKnows(t, Existing, audit)
      BY <2>1 DEF History, HandlersKnow
    <2>3. t.op \in CreateOps => t.todo \intersect Existing' \subseteq Existing
      <3>1. old.op \notin CreateOps => old.item \in Existing
        BY <1>3, <1>5 DEF HandlerKnows
      <3>2. old.op \in CreateOps /\ t.op \in CreateOps => old.item \notin t.todo
        BY <1>1, <1>5, <1>8, <2>1 DEF History, IdsApart
      <3> QED BY <1>5, <3>1, <3>2
    <2>4. PICK ex \in SUBSET Packets, more \in SUBSET Packets : ex = Existing /\ more = Existing'
      BY DEF Existing
    <2>5. HandlerKnows(t, more, audit')
      BY <1>5, <1>6, <2>2, <2>3, <2>4, KnownOn
    <2> QED BY <1>3, <1>8, <2>1, <2>4, <2>5
  <1>9. HandlersKnow'
    <2>1. \A s \in Requests : HandlerKnows(req'[s], Existing', audit')
      BY <1>3, <1>7, <1>8
    <2> QED BY <2>1 DEF HandlersKnow
  <1>10. IdsApart'
    <2>1. \A s \in Requests : req'[s].op = req[s].op /\ req'[s].todo = req[s].todo
      BY <1>1, <1>3, <1>4
    <2> QED BY <2>1 DEF History, IdsApart
  <1>11. Heard(told', audit')
    BY <1>3, <1>6, HeardOn DEF History
  <1>12. (Heard(told, audit) /\ Linked(audit))'
    BY <1>6, <1>11 DEF Heard, Linked
  <1> QED BY <1>9, <1>10, <1>12 DEF History

\* The expiry task expires packets that exist.
SweptExist == \A p \in Packets : sweep[p] # NoEntry => Exists(p)

\* A round of the expiry task: the trail of each packet stays, or gets an entry of its own.
LEMMA SweepSaid ==
  ASSUME Inv, History, SweptExist, SweepCommit
  PROVE  Existing' = Existing /\ Grown(audit, audit') /\ Linked(audit')
  <1>1. rows \in [Packets -> Row] /\ SweepOK
    BY DEF Inv, TypeOK
  <1>2. ASSUME NEW p \in Packets
        PROVE  rows'[p].status # NoStatus <=> rows[p].status # NoStatus
    <2>1. CASE sweep[p] # NoEntry
      <3>1. rows'[p] = [rows[p] EXCEPT !.status = "expired"] /\ rows[p] \in Row
        BY <1>1, <2>1 DEF SweepCommit
      <3>2. rows'[p].status = "expired"
        BY <3>1 DEF Row
      <3>3. rows[p].status # NoStatus
        BY <2>1 DEF SweptExist, Exists
      <3> QED BY <3>2, <3>3 DEF NoStatus
    <2>2. CASE sweep[p] = NoEntry
      BY <2>2 DEF SweepCommit
    <2> QED BY <2>1, <2>2
  <1>3. Existing' = Existing
    BY <1>2 DEF Existing
  <1>4. ASSUME NEW p \in Packets
        PROVE  /\ audit[p] \subseteq audit'[p]
               /\ \A e \in audit'[p] :
                    e \in audit[p] \/ (e.type # "chained" /\ e.link = NoPacket)
    <2>1. audit'[p] = audit[p] \union Logged(sweep[p])
      BY DEF SweepCommit
    <2>2. \A e \in Logged(sweep[p]) : e.type = "expired" /\ e.link = NoPacket
      BY <1>1 DEF Logged, SweepOK
    <2> QED BY <2>1, <2>2
  <1>5. Grown(audit, audit')
    BY <1>4 DEF Grown
  <1>6. Linked(audit')
    BY <1>4, <1>5, LinkedOn DEF History
  <1> QED BY <1>3, <1>5, <1>6

LEMMA SweepCommitHistory ==
  ASSUME Inv, History, SweptExist, SweepCommit
  PROVE  History'
  <1>1. Existing' = Existing /\ Grown(audit, audit') /\ Linked(audit')
    BY SweepSaid
  <1>2. req' = req /\ told' = told /\ req \in [Requests -> Request]
    BY DEF SweepCommit, Inv, TypeOK
  <1>3. ASSUME NEW s \in Requests
        PROVE  HandlerKnows(req'[s], Existing', audit')
    <2>1. PICK q \in Request : q = req[s]
      BY <1>2
    <2>2. PICK ex \in SUBSET Packets : ex = Existing
      BY DEF Existing
    <2>3. HandlerKnows(q, ex, audit)
      BY <2>1, <2>2 DEF History, HandlersKnow
    <2>4. HandlerKnows(q, ex, audit')
      BY <1>1, <2>3, KnownOn
    <2> QED BY <1>1, <1>2, <2>1, <2>2, <2>4
  <1>4. HandlersKnow'
    BY <1>3 DEF HandlersKnow
  <1>5. IdsApart'
    BY <1>2 DEF History, IdsApart
  <1>6. Heard(told', audit')
    BY <1>1, <1>2, HeardOn DEF History
  <1>7. (Heard(told, audit) /\ Linked(audit))'
    BY <1>1, <1>6 DEF Heard, Linked
  <1> QED BY <1>4, <1>5, <1>7 DEF History

\* A row that is there stays there.
LEMMA SweptExistStep ==
  ASSUME Inv, History, SweptExist, [Next]_vars
  PROVE  SweptExist'
  <1>1. CASE SweepRead
    <2>1. \A p \in Packets : sweep'[p] # NoEntry => rows'[p].status # NoStatus
      BY <1>1 DEF SweepRead, Due, Exists
    <2> QED BY <2>1 DEF SweptExist, Exists
  <1>2. CASE SweepCommit \/ SweepFails \/ Crash
    <2>1. \A p \in Packets : sweep'[p] = NoEntry
      BY <1>2 DEF SweepCommit, SweepFails, Crash
    <2> QED BY <2>1 DEF SweptExist
  <1>3. ASSUME NEW r \in Requests, Commit(r)
        PROVE  SweptExist'
    <2>1. Existing \subseteq Existing' /\ sweep' = sweep
      BY <1>3, CommitFacts DEF Commit
    <2> QED BY <2>1 DEF SweptExist, Existing, Exists
  <1>4. CASE UNCHANGED <<rows, sweep>>
    BY <1>4 DEF SweptExist, Exists
  <1>5. ASSUME NEW r \in Requests, NEW p \in Packets, Read(r, p)
        PROVE  UNCHANGED <<rows, sweep>>
    BY <1>5 DEF Read, PrepareCreate, ReadChain, ReadClaim, ReadComplete, ReadPatch,
                ReadDelete, ReadRespond, Reading
  <1>6. ASSUME NEW r \in Requests,
               Begin(r) \/ Refresh(r) \/ Publish(r) \/ CommitFails(r) \/ RefreshFails(r)
        PROVE  UNCHANGED <<rows, sweep>>
    BY <1>6 DEF Begin, Refresh, Publish, CommitFails, RefreshFails
  <1>7. ASSUME NEW p \in Packets, Age(p)
        PROVE  UNCHANGED <<rows, sweep>>
    BY <1>7 DEF Age
  <1>8. UNCHANGED vars => UNCHANGED <<rows, sweep>>
    BY DEF vars
  <1> QED BY <1>1, <1>2, <1>3, <1>4, <1>5, <1>6, <1>7, <1>8 DEF Next

-----------------------------------------------------------------------------
(* The invariant *)

LEMMA InitHistory == Init => History /\ SweptExist
  <1> SUFFICES ASSUME Init PROVE History /\ SweptExist
    OBVIOUS
  <1>1. SweptExist
    BY DEF Init, SweptExist
  <1>2. HandlersKnow /\ IdsApart
    BY DEF Init, Fresh, HandlersKnow, HandlerKnows, IdsApart, CreateOps
  <1>3. Heard(told, audit)
    BY DEF Init, Heard
  <1>4. \A p \in Packets : \A e \in audit[p] : e.type # "chained" /\ e.link = NoPacket
    BY DEF Init, SeedTrail, EntryAt
  <1>5. Linked(audit)
    BY <1>4, ConstantsAssumption DEF Linked
  <1> QED BY <1>1, <1>2, <1>3, <1>5 DEF History

LEMMA StepHistory ==
  Inv /\ Inv' /\ History /\ SweptExist /\ [Next]_vars => History' /\ SweptExist'
  <1> SUFFICES ASSUME Inv, Inv', History, SweptExist, [Next]_vars PROVE History'
    BY SweptExistStep
  <1>1. CASE UNCHANGED vars
    BY <1>1, StillHistory DEF vars
  <1>2. ASSUME NEW r \in Requests, Begin(r) PROVE History'
    BY <1>2, BeginHistory
  <1>3. ASSUME NEW r \in Requests, NEW p \in Packets, Read(r, p) PROVE History'
    BY <1>3, ReadHistory
  <1>4. ASSUME NEW r \in Requests, Commit(r) PROVE History'
    BY <1>4, CommitHistory
  <1>5. ASSUME NEW r \in Requests, Refresh(r) PROVE History'
    BY <1>5, RefreshHistory
  <1>6. ASSUME NEW r \in Requests, Publish(r) PROVE History'
    BY <1>6, PublishHistory
  <1>7. ASSUME NEW r \in Requests, CommitFails(r) \/ RefreshFails(r) PROVE History'
    BY <1>7, FailureHistory
  <1>8. ASSUME NEW p \in Packets, Age(p) PROVE History'
    BY <1>8, StillHistory DEF Age
  <1>9. CASE SweepRead \/ SweepFails
    BY <1>9, StillHistory DEF SweepRead, SweepFails
  <1>10. CASE SweepCommit
    BY <1>10, SweepCommitHistory
  <1>11. CASE Crash
    BY <1>11, CrashHistory
  <1> QED BY <1>1, <1>2, <1>3, <1>4, <1>5, <1>6, <1>7, <1>8, <1>9, <1>10, <1>11 DEF Next

LEMMA HistoryAlways == Spec => []History
  BY InvAlways, InitHistory, StepHistory, PTL DEF Spec

-----------------------------------------------------------------------------
(* The theorems *)

\* Whoever was told that a call gave a packet its status finds the entry of that very
\* call in packet_events, leading to that status, and a claim under the name of the
\* agent that was told so: the handler answers only after its own commit, and nothing
\* removes entries. Only PATCH may give no status, and then it leaves no entry.
THEOREM AckedDurable == Spec => []AckedIsDurable
  <1>1. History => AckedIsDurable
    <2> SUFFICES ASSUME History, NEW r \in Requests, NEW x \in req[r].ok
                 PROVE  /\ x.to = NoStatus => req[r].op = "patch"
                        /\ x.to # NoStatus =>
                             /\ x.entry \in audit[x.packet] /\ x.to \in StatusesAfter(x.entry)
                             /\ req[r].op \in {"claim", "batch_claim"} => x.entry.by = req[r].agent
      BY DEF AckedIsDurable
    <2>1. Acked(req[r].op, req[r].agent, x, audit[x.packet])
      BY DEF History, HandlersKnow, HandlerKnows
    <2> QED BY <2>1 DEF Acked, ClaimOps
  <1> QED BY <1>1, HistoryAlways, PTL

\* No subscriber hears of a status the packet has not had, although PATCH and respond
\* publish what a refresh finds after other handlers may have written the row.
THEOREM PublishedReached == Spec => []PublishedStatusWasReached
  <1>1. History => PublishedStatusWasReached
    BY DEF History, Heard, Reached, PublishedStatusWasReached
  <1> QED BY <1>1, HistoryAlways, PTL

\* The "created" entry of a chained packet and the "chained" entry of its parent are
\* there together: chain_packet writes both in one transaction, and nobody else links.
THEOREM ChainedBoth == Spec => []ChainedBothWays
  <1>1. History => ChainedBothWays
    BY DEF History, Linked, ChainedBothWays
  <1> QED BY <1>1, HistoryAlways, PTL
=============================================================================
