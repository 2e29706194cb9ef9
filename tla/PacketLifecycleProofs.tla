------------------------ MODULE PacketLifecycleProofs ------------------------
(***************************************************************************)
(* Invariants of the packet endpoints that hold for any number of packets, *)
(* agents, requests and faults, whatever the interleaving of the handlers. *)
(***************************************************************************)
EXTENDS PacketLifecycle, TLAPS

\* What a handler has decided by the time it commits. A creating endpoint
\* inserts a whole row. The others: the status column comes with an audit entry
\* that leads to it, the metadata column never without the status column, and
\* "completed" always with the stamped metadata.
Prepared(op, copy, dirty, log) ==
  IF op \in CreateOps
  THEN log.type = "created" /\ copy.status \in {"created", "awaiting_human"}
  ELSE /\ "status" \in dirty => /\ log.type \in EntryTypes \ {"chained"}
                                /\ copy.status \in StatusesAfter(log)
                                /\ copy.status = "completed" =>
                                     "metadata" \in dirty /\ copy.metadata.completedAt
       /\ "status" \notin dirty => log = NoEntry /\ "metadata" \notin dirty

HandlersOK ==
  \A r \in Requests :
    /\ req[r].pc \in {"loaded", "committed", "refreshed"} =>
         req[r].item \in Packets /\ req[r].answer \in Receipts
    /\ req[r].pc = "loaded" =>
         Prepared(req[r].op, req[r].copy, req[r].dirty, req[r].log)

SweepOK ==
  \A p \in Packets : sweep[p] # NoEntry => sweep[p].type = "expired" /\ sweep[p].link = NoPacket

\* Some entry of the trail led to the status of the row (the newest one only when
\* calls do not overlap).
RowsExplained ==
  \A p \in Packets : rows[p].status # NoStatus =>
    \E e \in audit[p] : rows[p].status \in StatusesAfter(e)

Inv == TypeOK /\ HandlersOK /\ SweepOK /\ RowsExplained /\ CompletedIsStamped

-----------------------------------------------------------------------------
(* The helpers keep the types *)

LEMMA NewRowType ==
  ASSUME NEW st \in Status \union {NoStatus}, NEW a \in Agents \union {NoAgent},
         NEW h \in Hitl, NEW par \in Packets \union {NoPacket}
  PROVE  NewRow(st, a, h, par) \in Row
  BY DEF NewRow, Row, Metadata

LEMMA ConstantTypes ==
  NoHitl \in Hitl /\ Questions \subseteq Hitl /\ NoRow \in Row
  <1>1. NoHitl \in Hitl
    BY DEF NoHitl, Hitl
  <1>2. ASSUME NEW t \in Timeouts
        PROVE  [asked |-> TRUE, answered |-> FALSE, short |-> t = "short"] \in Hitl
    <2>1. (t = "short") \in BOOLEAN
      OBVIOUS
    <2> QED BY <2>1, Zenon DEF Hitl
  <1>3. Questions \subseteq Hitl
    BY <1>2 DEF Questions
  <1> QED BY <1>1, <1>3, NewRowType DEF NoRow

LEMMA MergeRowType ==
  ASSUME NEW row \in Row, NEW copy \in Row, NEW dirty
  PROVE  MergeRow(row, copy, dirty) \in Row
  BY DEF MergeRow, Row

LEMMA FreshType == Fresh \in Request
  BY ConstantTypes DEF Fresh, Request, NoEvent, Event, Events, InFlightPcs

LEMMA EndedType ==
  ASSUME NEW q \in Request, NEW p \in Packets, NEW good \in BOOLEAN,
         good => q.answer \in Receipts
  PROVE  Ended(q, p, good) \in Request
  <1> DEFINE pc == IF q.todo = {p} THEN "done" ELSE "next"
             ok == IF good THEN q.ok \union {q.answer} ELSE q.ok
             bad == IF good THEN q.bad ELSE q.bad \union {p}
             todo == q.todo \ {p}
  <1>1. ok \in SUBSET Receipts
    BY DEF Request
  <1>2. bad \in SUBSET Packets /\ todo \in SUBSET Packets
    BY DEF Request
  <1>3. pc \in {"done", "next"} /\ NoEvent \in Events
    BY DEF NoEvent, Event, Events
  <1>4. Ended(q, p, good) =
          [q EXCEPT !.pc = pc, !.todo = todo, !.item = NoPacket, !.copy = NoRow, !.dirty = {},
                    !.log = NoEntry, !.event = NoEvent, !.answer = NoReceipt, !.ok = ok, !.bad = bad]
    BY DEF Ended, Request
  <1> HIDE DEF pc, ok, bad, todo
  <1> QED BY <1>1, <1>2, <1>3, <1>4, ConstantTypes DEF Request, InFlightPcs

LEMMA ReceiptType ==
  ASSUME NEW p \in Packets, NEW copy \in Row, NEW dirty, NEW log \in Entries \union {NoEntry}
  PROVE  Receipt(p, copy, dirty, log) \in Receipts
  BY DEF Receipt, Receipts, Row

LEMMA HoldingType ==
  ASSUME NEW q \in Request, NEW p \in Packets, NEW copy \in Row,
         NEW dirty \in SUBSET Columns, NEW log \in Entries \union {NoEntry},
         NEW event \in Events
  PROVE  Holding(q, p, copy, dirty, log, event) \in Request
  <1>1. Receipt(p, copy, dirty, log) \in Receipts
    BY ReceiptType
  <1> QED BY <1>1 DEF Holding, Request, InFlightPcs

-----------------------------------------------------------------------------
(* What reading does *)

\* Every endpoint either rejects the packet or prepares a commit of the kind
\* Prepared describes; reading changes nothing but the handler.
Decides(r, p) ==
  \E copy \in Row, dirty \in SUBSET Columns,
     log \in Entries \union {NoEntry}, event \in Events :
    /\ Prepared(req[r].op, copy, dirty, log)
    /\ Load(r, p, copy, dirty, log, event)

LEMMA EntryAtType ==
  ASSUME NEW type \in EntryTypes, NEW from \in Status \union {NoStatus},
         NEW by \in Agents \union {NoAgent}, NEW link \in Packets \union {NoPacket},
         NEW time \in Nat
  PROVE  EntryAt(type, from, by, link, time) \in Entries
  BY DEF EntryAt, Entries

LEMMA EntryType ==
  ASSUME TypeOK,
         NEW type \in EntryTypes, NEW from \in Status \union {NoStatus},
         NEW by \in Agents \union {NoAgent}, NEW link \in Packets \union {NoPacket}
  PROVE  Entry(type, from, by, link) \in Entries /\ Entry(type, from, by, link).type = type
  <1>1. clock + 1 \in Nat
    BY DEF TypeOK
  <1>2. EntryAt(type, from, by, link, clock + 1) \in Entries
    BY <1>1, EntryAtType
  <1> QED BY <1>2 DEF Entry, EntryAt

LEMMA EventType ==
  ASSUME NEW type \in Status \union {"updated", "chained", "response_ready", NoStatus},
         NEW st \in Status \union {NoStatus}
  PROVE  Event(type, st) \in Events
  BY DEF Event, Events

\* A creating endpoint inserts a row and logs "created".
LEMMA CreationDecides ==
  ASSUME TypeOK, NEW r \in Requests, NEW p \in Packets, req[r].op \in CreateOps,
         NEW st \in {"created", "awaiting_human"}, NEW h \in {NoHitl} \union Questions,
         NEW par \in Packets \union {NoPacket}, NEW link \in Packets \union {NoPacket},
         NEW type \in {"created", "chained"},
         Load(r, p, NewRow(st, req[r].agent, h, par), Columns,
              Entry("created", NoStatus, NoAgent, link), Event(type, st))
  PROVE  Decides(r, p)
  <1> DEFINE copy == NewRow(st, req[r].agent, h, par)
             log == Entry("created", NoStatus, NoAgent, link)
             event == Event(type, st)
  <1>1. st \in Status /\ req[r].agent \in Agents \union {NoAgent} /\ h \in Hitl
    BY ConstantTypes DEF TypeOK, Request, Status
  <1>2. copy \in Row /\ copy.status = st
    BY <1>1, NewRowType DEF NewRow
  <1>3. log \in Entries /\ log.type = "created"
    BY <1>1, EntryType DEF EntryTypes, Status
  <1>4. event \in Events
    BY <1>1, EventType DEF Status
  <1>5. Prepared(req[r].op, copy, Columns, log)
    BY <1>2, <1>3 DEF Prepared
  <1> HIDE DEF copy, log, event
  <1>6. Load(r, p, copy, Columns, log, event)
    BY DEF copy, log, event
  <1> QED BY <1>2, <1>3, <1>4, <1>5, <1>6 DEF Decides

\* A PATCH logs the move it makes, and stamps the metadata when it completes.
PatchDecision(row, body, copy, dirty, log) ==
  /\ "status" \in dirty <=> Moves(row, body)
  /\ "metadata" \in dirty <=> Completes(row, body)
  /\ ~Moves(row, body) => log = NoEntry
  /\ Moves(row, body) => /\ log \in Entries /\ log.type \in EntryTypes \ {"chained"}
                         /\ copy.status \in StatusesAfter(log)
                         /\ copy.status = "completed" =>
                              Completes(row, body) /\ copy.metadata.completedAt

LEMMA PatchPrepared ==
  ASSUME TypeOK, NEW r \in Requests, NEW row \in Row, NEW ask \in Hitl,
         NEW body \in [to: Status \union {NoStatus}, decides: BOOLEAN, asks: BOOLEAN]
  PROVE  /\ Patched(r, row, body, ask) \in Row
         /\ PatchDecision(row, body, Patched(r, row, body, ask),
                          PatchedColumns(row, body), PatchEntry(row, body))
  <1> DEFINE m == Moves(row, body)
             c == Completes(row, body)
             st == IF m THEN body.to ELSE row.status
             stamp == row.metadata.completedAt \/ c
             ds == IF body.decides THEN row.decisions \union {r} ELSE row.decisions
             h == IF body.asks THEN ask ELSE row.hitl
             copy == Patched(r, row, body, ask)
             log == PatchEntry(row, body)
  <1>1. st \in Status \union {NoStatus} /\ ds \in SUBSET Requests /\ h \in Hitl
    BY DEF Row
  <1>2. stamp \in BOOLEAN
    OBVIOUS
  <1>3. copy = [row EXCEPT !.status = st, !.metadata.completedAt = stamp,
                           !.decisions = ds, !.hitl = h]
    BY DEF Patched
  <1>4. copy \in Row /\ copy.status = st /\ copy.metadata.completedAt = stamp
    <2> HIDE DEF st, stamp, ds, h, copy
    <2> QED BY <1>1, <1>2, <1>3 DEF Row, Metadata
  <1>5. m => /\ log \in Entries /\ log.type = body.to /\ body.to \in Status
             /\ log.type \in EntryTypes \ {"chained"}
    BY EntryType DEF PatchEntry, Moves, Row, Metadata, EntryTypes, Status
  <1>6. m => copy.status \in StatusesAfter(log)
    BY <1>4, <1>5 DEF StatusesAfter, Status
  <1>7. m /\ copy.status = "completed" => c /\ copy.metadata.completedAt
    BY <1>4 DEF Completes
  <1>8. /\ "status" \in PatchedColumns(row, body) <=> m
        /\ "metadata" \in PatchedColumns(row, body) <=> c
    BY DEF PatchedColumns, Columns
  <1>9. ~m => log = NoEntry
    BY DEF PatchEntry
  <1> QED BY <1>4, <1>5, <1>6, <1>7, <1>8, <1>9 DEF PatchDecision

LEMMA ReadOutcome ==
  ASSUME TypeOK, NEW r \in Requests, NEW p \in Packets, Read(r, p)
  PROVE  /\ UNCHANGED <<rows, aged, audit, told, sweep, faults>>
         /\ req[r].pc = "next"
         /\ Reject(r, p) \/ Decides(r, p)
  <1>0. /\ UNCHANGED <<rows, aged, audit, told, sweep, faults>>
        /\ req[r].pc = "next"
    BY DEF Read, PrepareCreate, ReadChain, ReadClaim, ReadComplete, ReadPatch,
           ReadDelete, ReadRespond, Reading
  <1> SUFFICES Reject(r, p) \/ Decides(r, p)
    BY <1>0
  <1> DEFINE row == rows[p]
  <1>t. /\ row \in Row /\ req[r].agent \in Agents \union {NoAgent}
        /\ row.metadata \in Metadata /\ row.hitl \in Hitl
        /\ row.status \in Status \union {NoStatus}
    BY DEF TypeOK, Request, Row
  <1>1. CASE PrepareCreate(r, p)
    BY <1>1, CreationDecides DEF PrepareCreate, Reading, CreateOps
  <1>2. CASE ReadChain(r, p)
    BY <1>2, CreationDecides DEF ReadChain, Reading, CreateOps
  <1>3. CASE ReadClaim(r, p) /\ Claimable(row)
    <2> DEFINE copy == [row EXCEPT !.status = "claimed",
                  !.metadata = [@ EXCEPT !.claimedAt = TRUE, !.target = req[r].agent]]
               log == Entry("claimed", NoStatus, req[r].agent, NoPacket)
               event == Event("claimed", "claimed")
               dirty == {"status", "metadata"}
    <2>1. copy \in Row /\ copy.status = "claimed"
      BY <1>t DEF Row, Metadata, Status
    <2>2. log \in Entries /\ log.type = "claimed"
      BY <1>t, EntryType DEF EntryTypes, Status
    <2>3. event \in Events
      BY EventType DEF Status
    <2>4. Prepared(req[r].op, copy, dirty, log)
      BY <1>3, <2>1, <2>2 DEF ReadClaim, Reading, CreateOps, Prepared, EntryTypes,
         Status, StatusesAfter
    <2>5. Load(r, p, copy, dirty, log, event)
      BY <1>3 DEF ReadClaim
    <2> HIDE DEF copy, log, event
    <2> QED BY <2>1, <2>2, <2>3, <2>4, <2>5 DEF Decides, Columns
  <1>4. CASE ReadComplete(r, p) /\ CanTransition(row.status, "completed")
    <2> DEFINE copy == Completed(row)
               log == Entry("completed", "completed", NoAgent, NoPacket)
               event == Event("completed", "completed")
               dirty == {"status", "metadata"}
    <2>1. copy \in Row /\ copy.status = "completed" /\ copy.metadata.completedAt
      BY <1>t DEF Completed, Row, Metadata, Status
    <2>2. log \in Entries /\ log.type = "completed"
      BY EntryType DEF EntryTypes, Status
    <2>3. event \in Events
      BY EventType DEF Status
    <2>4. Prepared(req[r].op, copy, dirty, log)
      BY <1>4, <2>1, <2>2 DEF ReadComplete, Reading, CreateOps, Prepared, EntryTypes,
         Status, StatusesAfter
    <2>5. Load(r, p, copy, dirty, log, event)
      BY <1>4 DEF ReadComplete
    <2> HIDE DEF copy, log, event
    <2> QED BY <2>1, <2>2, <2>3, <2>4, <2>5 DEF Decides, Columns
  <1>5. CASE ReadDelete(r, p) /\ CanTransition(row.status, "expired")
    <2> DEFINE copy == [row EXCEPT !.status = "expired"]
               log == Deleted(row)
               event == Event("expired", "expired")
               dirty == {"status"}
    <2>1. copy \in Row /\ copy.status = "expired"
      BY <1>t DEF Row, Status
    <2>2. log \in Entries /\ log.type = "expired"
      <3>1. PICK st \in Status \union {NoStatus} : st = row.status
        BY <1>t
      <3>2. log = Entry("expired", st, NoAgent, NoPacket)
        BY <3>1 DEF Deleted
      <3>3. "expired" \in EntryTypes
        BY DEF EntryTypes, Status
      <3> HIDE DEF log
      <3> QED BY <3>2, <3>3, EntryType
    <2>3. event \in Events
      BY EventType DEF Status
    <2>4. Prepared(req[r].op, copy, dirty, log)
      BY <1>5, <2>1, <2>2 DEF ReadDelete, Reading, CreateOps, Prepared, EntryTypes,
         Status, StatusesAfter
    <2>5. Load(r, p, copy, dirty, log, event)
      BY <1>5 DEF ReadDelete
    <2> HIDE DEF copy, log, event
    <2> QED BY <2>1, <2>2, <2>3, <2>4, <2>5 DEF Decides, Columns
  <1>6. CASE ReadRespond(r, p) /\ Answerable(row)
    <2> DEFINE copy == [row EXCEPT !.status = "claimed",
                          !.hitl = [@ EXCEPT !.answered = TRUE],
                          !.metadata = [@ EXCEPT !.claimedAt = TRUE]]
               log == Entry("hitl_responded", NoStatus, NoAgent, NoPacket)
               event == Event("response_ready", "claimed")
               dirty == {"status", "metadata", "hitl"}
    <2>1. copy \in Row /\ copy.status = "claimed"
      BY <1>t DEF Row, Metadata, Hitl, Status
    <2>2. log \in Entries /\ log.type = "hitl_responded"
      BY EntryType DEF EntryTypes
    <2>3. event \in Events
      BY EventType DEF Status
    <2>4. Prepared(req[r].op, copy, dirty, log)
      BY <1>6, <2>1, <2>2 DEF ReadRespond, Reading, CreateOps, Prepared, EntryTypes,
         Status, StatusesAfter
    <2>5. Load(r, p, copy, dirty, log, event)
      BY <1>6 DEF ReadRespond
    <2> HIDE DEF copy, log, event
    <2> QED BY <2>1, <2>2, <2>3, <2>4, <2>5 DEF Decides, Columns
  <1>7. CASE ReadPatch(r, p)
    <2>1. PICK body \in Patches, ask \in Questions :
            IF Moves(row, body) /\ ~CanTransition(row.status, body.to)
            THEN Reject(r, p)
            ELSE Load(r, p, Patched(r, row, body, ask), PatchedColumns(row, body),
                      PatchEntry(row, body),
                      Event(IF body.to = NoStatus THEN "updated" ELSE body.to, row.status))
      BY <1>7 DEF ReadPatch
    <2> DEFINE copy == Patched(r, row, body, ask)
               dirty == PatchedColumns(row, body)
               log == PatchEntry(row, body)
               event == Event(IF body.to = NoStatus THEN "updated" ELSE body.to, row.status)
    <2>2. /\ ask \in Hitl
          /\ body \in [to: Status \union {NoStatus}, decides: BOOLEAN, asks: BOOLEAN]
      BY ConstantsAssumption, ConstantTypes DEF NoStatus
    <2>3. copy \in Row /\ PatchDecision(row, body, copy, dirty, log)
      BY <1>t, <2>2, PatchPrepared
    <2>4. event \in Events
      BY <1>t, <2>2, EventType
    <2>5. dirty \in SUBSET Columns
      BY DEF PatchedColumns
    <2>6. Prepared(req[r].op, copy, dirty, log) /\ log \in Entries \union {NoEntry}
      <3>1. req[r].op \notin CreateOps
        BY <1>7 DEF ReadPatch, Reading, CreateOps
      <3> HIDE DEF copy, log, dirty
      <3>2. CASE "status" \in dirty
        BY <2>3, <3>1, <3>2, Zenon DEF PatchDecision, Prepared
      <3>3. CASE "status" \notin dirty
        BY <2>3, <3>1, <3>3, Zenon DEF PatchDecision, Prepared, Completes
      <3> QED BY <3>2, <3>3
    <2>7. Reject(r, p) \/ Load(r, p, copy, dirty, log, event)
      BY <2>1
    <2> HIDE DEF copy, log, dirty, event
    <2> QED BY <2>3, <2>4, <2>5, <2>6, <2>7 DEF Decides
  <1>8. \/ ReadClaim(r, p) /\ ~Claimable(row)
        \/ ReadComplete(r, p) /\ ~CanTransition(row.status, "completed")
        \/ ReadDelete(r, p) /\ ~CanTransition(row.status, "expired")
        \/ ReadRespond(r, p) /\ ~Answerable(row)
        => Reject(r, p)
    BY DEF ReadClaim, ReadComplete, ReadDelete, ReadRespond
  <1> QED BY <1>0, <1>1, <1>2, <1>3, <1>4, <1>5, <1>6, <1>7, <1>8 DEF Read

-----------------------------------------------------------------------------
(* The initial state *)

LEMMA SeedTypes ==
  ASSUME NEW row \in SeedRows
  PROVE  /\ row \in Row /\ row.status \in {"created", "awaiting_human", "claimed", "in_progress"}
         /\ row.metadata.claimedAt <=> row.status \in {"claimed", "in_progress"}
         /\ row.metadata.target \in Agents /\ row.decisions = {}
  <1>1. PICK st \in Stages, a \in Agents, h \in {NoHitl} \union Questions : row = SeedRow(st, a, h)
    BY DEF SeedRows
  <1>2. st \in {"created", "awaiting_human", "claimed", "in_progress"} /\ st \in Status
    BY ConstantsAssumption DEF Status
  <1>3. PICK new \in Row : new = NewRow(st, a, h, NoPacket)
    BY <1>2, NewRowType, ConstantTypes
  <1>4. new.status = st /\ new.metadata.target = a /\ new.decisions = {}
    BY <1>3 DEF NewRow
  <1> DEFINE stamp == st \in {"claimed", "in_progress"}
  <1>5. stamp \in BOOLEAN
    OBVIOUS
  <1>6. row = [new EXCEPT !.metadata.claimedAt = stamp]
    BY <1>1, <1>3, <1>5 DEF SeedRow
  <1>7. row \in Row /\ row.status = st /\ row.metadata.claimedAt = stamp
        /\ row.metadata.target = a /\ row.decisions = {}
    <2> HIDE DEF stamp
    <2> QED BY <1>4, <1>5, <1>6 DEF Row, Metadata
  <1>8. row.metadata.claimedAt <=> row.status \in {"claimed", "in_progress"}
    <2>1. row.metadata.claimedAt = (row.status \in {"claimed", "in_progress"})
      BY <1>7
    <2> QED BY <2>1
  <1> QED BY <1>2, <1>7, <1>8

LEMMA SeedTrailType ==
  ASSUME NEW row \in SeedRows
  PROVE  /\ SeedTrail(row) \subseteq Entries
         /\ \E e \in SeedTrail(row) : row.status \in StatusesAfter(e)
  <1>1. PICK a : a = row.metadata.target
    OBVIOUS
  <1>2. a \in Agents
    BY <1>1, SeedTypes
  <1>3. PICK c, d, e : /\ c = EntryAt("created", NoStatus, NoAgent, NoPacket, 1)
                      /\ d = EntryAt("claimed", NoStatus, a, NoPacket, 2)
                      /\ e = EntryAt("in_progress", "claimed", a, NoPacket, 3)
    OBVIOUS
  <1>4. c \in Entries
    BY <1>3, EntryAtType DEF EntryTypes, Status
  <1>5. d \in Entries
    BY <1>2, <1>3, EntryAtType DEF EntryTypes, Status
  <1>6. e \in Entries
    BY <1>2, <1>3, EntryAtType DEF EntryTypes, Status
  <1>7. c.type = "created" /\ d.type = "claimed" /\ e.type = "in_progress"
    BY <1>3 DEF EntryAt
  <1>8. SeedTrail(row) = {c} \union (IF row.metadata.claimedAt THEN {d} ELSE {})
                             \union (IF row.status = "in_progress" THEN {e} ELSE {})
    BY <1>1, <1>3 DEF SeedTrail
  <1>9. SeedTrail(row) \subseteq Entries
    BY <1>4, <1>5, <1>6, <1>8
  <1>10. CASE row.status \in {"created", "awaiting_human"}
    BY <1>7, <1>8, <1>9, <1>10 DEF StatusesAfter
  <1>11. CASE row.status = "claimed"
    <2>1. d \in SeedTrail(row)
      BY <1>8, <1>11, SeedTypes
    <2> QED BY <1>7, <1>9, <1>11, <2>1 DEF StatusesAfter
  <1>12. CASE row.status = "in_progress"
    BY <1>7, <1>8, <1>9, <1>12 DEF StatusesAfter
  <1> QED BY <1>10, <1>11, <1>12, SeedTypes

LEMMA InitInv == Init => Inv
  <1> SUFFICES ASSUME Init PROVE Inv
    OBVIOUS
  <1>1. NoRow.status = NoStatus
    BY DEF NoRow, NewRow
  <1>2. ASSUME NEW p \in Packets, p \in Seeded
        PROVE  rows[p] \in SeedRows /\ audit[p] = SeedTrail(rows[p])
    BY <1>1, <1>2 DEF Init, Exists
  <1>3. ASSUME NEW p \in Packets, p \notin Seeded
        PROVE  rows[p].status = NoStatus /\ audit[p] = {}
    BY <1>3 DEF Init, Exists
  <1>4. rows \in [Packets -> Row]
    BY SeedTypes, ConstantTypes DEF Init
  <1>5. audit \in [Packets -> SUBSET Entries]
    <2>1. \A p \in Packets : audit[p] \subseteq Entries
      BY <1>2, <1>3, SeedTrailType
    <2>2. audit = [p \in Packets |-> audit[p]]
      BY DEF Init
    <2> QED BY <2>1, <2>2
  <1>6. TypeOK
    BY <1>4, <1>5, FreshType DEF Init, TypeOK
  <1>7. HandlersOK /\ SweepOK
    BY DEF Init, HandlersOK, SweepOK, Fresh
  <1>8. RowsExplained
    BY <1>2, <1>3, SeedTrailType DEF RowsExplained
  <1>9. CompletedIsStamped
    BY <1>2, <1>3, SeedTypes DEF CompletedIsStamped, NoStatus
  <1> QED BY <1>6, <1>7, <1>8, <1>9 DEF Inv

-----------------------------------------------------------------------------
(* The steps *)

\* A step that puts one handler in order leaves all of them in order.
LEMMA HandlerStep ==
  ASSUME TypeOK, HandlersOK, NEW r \in Requests, NEW q \in Request,
         req' = [req EXCEPT ![r] = q],
         q.pc \in {"loaded", "committed", "refreshed"} =>
           q.item \in Packets /\ q.answer \in Receipts,
         q.pc = "loaded" => Prepared(q.op, q.copy, q.dirty, q.log)
  PROVE  req' \in [Requests -> Request] /\ HandlersOK'
  <1>1. req \in [Requests -> Request]
    BY DEF TypeOK
  <1>2. req' \in [Requests -> Request] /\ req'[r] = q
    BY <1>1
  <1>3. ASSUME NEW s \in Requests, s # r
        PROVE  req'[s] = req[s]
    BY <1>1, <1>3
  <1> SUFFICES ASSUME NEW s \in Requests
      PROVE  /\ req'[s].pc \in {"loaded", "committed", "refreshed"} =>
                  req'[s].item \in Packets /\ req'[s].answer \in Receipts
             /\ req'[s].pc = "loaded" =>
                  Prepared(req'[s].op, req'[s].copy, req'[s].dirty, req'[s].log)
    BY <1>2 DEF HandlersOK, Prepared
  <1>4. CASE s = r
    BY <1>2, <1>4
  <1>5. CASE s # r
    BY <1>3, <1>5 DEF HandlersOK
  <1> QED BY <1>4, <1>5

\* A step that ends a handler's business with the packet it holds.
LEMMA EndingStep ==
  ASSUME TypeOK, HandlersOK, NEW r \in Requests, NEW p \in Packets,
         NEW good \in BOOLEAN, good => req[r].answer \in Receipts,
         req' = [req EXCEPT ![r] = Ended(req[r], p, good)]
  PROVE  req' \in [Requests -> Request] /\ HandlersOK'
  <1> DEFINE q == Ended(req[r], p, good)
  <1>1. q \in Request
    BY EndedType DEF TypeOK
  <1>2. q.pc \in {"done", "next"}
    BY DEF Ended, TypeOK, Request
  <1> HIDE DEF q
  <1>3. req' = [req EXCEPT ![r] = q]
    BY DEF q
  <1> QED BY <1>1, <1>2, <1>3, HandlerStep

\* The same when the session is lost.
LEMMA BreakingStep ==
  ASSUME TypeOK, HandlersOK, NEW r \in Requests, req[r].item \in Packets,
         req' = [req EXCEPT ![r] = Broken(req[r])]
  PROVE  req' \in [Requests -> Request] /\ HandlersOK'
  <1> DEFINE p == req[r].item
             last == [req[r] EXCEPT !.todo = {p}, !.bad = req[r].bad \union req[r].todo]
             q == Ended(last, p, FALSE)
  <1>1. last \in Request
    <2>1. req[r] \in Request
      BY DEF TypeOK
    <2>2. {p} \in SUBSET Packets /\ req[r].bad \union req[r].todo \in SUBSET Packets
      BY <2>1 DEF Request
    <2> QED BY <2>1, <2>2 DEF Request
  <1>2. q \in Request
    BY <1>1, EndedType
  <1>3. q.pc \in {"done", "next"}
    BY <1>1 DEF Ended, Request
  <1>4. req' = [req EXCEPT ![r] = q]
    BY DEF Broken
  <1> HIDE DEF q
  <1> QED BY <1>2, <1>3, <1>4, HandlerStep

\* A step that touches neither the table nor the trail.
LEMMA QuietStep ==
  ASSUME Inv, UNCHANGED <<rows, audit>>, TypeOK', HandlersOK', SweepOK'
  PROVE  Inv'
  BY DEF Inv, RowsExplained, CompletedIsStamped

LEMMA BeginStep ==
  ASSUME Inv, NEW r \in Requests, Begin(r)
  PROVE  Inv'
  <1> USE DEF Inv
  <1>1. PICK op \in Menu[r], a \in Agents \union {NoAgent}, ps \in SUBSET Packets :
          req' = [req EXCEPT ![r] = [@ EXCEPT !.pc = "next", !.op = op,
                                              !.agent = a, !.todo = ps]]
    BY DEF Begin
  <1> DEFINE q == [req[r] EXCEPT !.pc = "next", !.op = op, !.agent = a, !.todo = ps]
  <1>2. op \in Ops /\ req[r] \in Request
    BY ConstantsAssumption DEF TypeOK
  <1>3. q \in Request /\ q.pc = "next"
    BY <1>2 DEF Request, InFlightPcs
  <1> HIDE DEF q
  <1>4. req' = [req EXCEPT ![r] = q]
    BY <1>1 DEF q
  <1>5. req' \in [Requests -> Request] /\ HandlersOK'
    BY <1>3, <1>4, HandlerStep
  <1>6. UNCHANGED <<rows, aged, audit, clock, told, sweep, faults>>
    BY DEF Begin
  <1> QED BY <1>5, <1>6, QuietStep DEF TypeOK, SweepOK

LEMMA ReadStep ==
  ASSUME Inv, NEW r \in Requests, NEW p \in Packets, Read(r, p)
  PROVE  Inv'
  <1> USE DEF Inv
  <1>1. /\ UNCHANGED <<rows, aged, audit, told, sweep, faults>>
        /\ Reject(r, p) \/ Decides(r, p)
    BY ReadOutcome
  <1>2. ASSUME Reject(r, p)
        PROVE  req' \in [Requests -> Request] /\ HandlersOK' /\ clock' \in Nat
    BY <1>2, EndingStep DEF Reject, TypeOK
  <1>3. ASSUME Decides(r, p)
        PROVE  req' \in [Requests -> Request] /\ HandlersOK' /\ clock' \in Nat
    <2>1. PICK copy \in Row, dirty \in SUBSET Columns,
               log \in Entries \union {NoEntry}, event \in Events :
            /\ Prepared(req[r].op, copy, dirty, log)
            /\ Load(r, p, copy, dirty, log, event)
      BY <1>3 DEF Decides
    <2> DEFINE q == Holding(req[r], p, copy, dirty, log, event)
    <2>2. q \in Request
      BY HoldingType DEF TypeOK
    <2>3. /\ q.op = req[r].op /\ q.copy = copy /\ q.dirty = dirty
          /\ q.log = log /\ q.item = p /\ q.answer = Receipt(p, copy, dirty, log)
      BY DEF Holding, TypeOK, Request
    <2>4. req' = [req EXCEPT ![r] = q]
      BY <2>1 DEF Load
    <2> HIDE DEF q
    <2>5. Prepared(q.op, q.copy, q.dirty, q.log)
      BY <2>1, <2>3
    <2>6. q.item \in Packets /\ q.answer \in Receipts
      BY <2>3, ReceiptType
    <2>7. clock' \in Nat
      BY <2>1 DEF Load, TypeOK
    <2> QED BY <2>2, <2>4, <2>5, <2>6, <2>7, HandlerStep
  <1>4. req' \in [Requests -> Request] /\ HandlersOK' /\ clock' \in Nat
    BY <1>1, <1>2, <1>3
  <1> QED BY <1>1, <1>4, QuietStep DEF TypeOK, SweepOK

LEMMA RefreshStep ==
  ASSUME Inv, NEW r \in Requests, Refresh(r)
  PROVE  Inv'
  <1> USE DEF Inv
  <1> DEFINE st == PublishedStatus(req[r])
             q == [req[r] EXCEPT !.pc = "refreshed", !.event.status = st]
  <1>1. /\ req[r] \in Request /\ req[r].item \in Packets /\ req[r].event \in Events
        /\ req[r].answer \in Receipts
    BY DEF Refresh, HandlersOK, TypeOK, Request
  <1>2. st \in Status \union {NoStatus}
    BY <1>1 DEF PublishedStatus, TypeOK, Row, Events
  <1> HIDE DEF st
  <1>3. q \in Request /\ q.pc = "refreshed" /\ q.item = req[r].item /\ q.answer = req[r].answer
    BY <1>1, <1>2 DEF Request, InFlightPcs, Events
  <1> HIDE DEF q
  <1>4. req' = [req EXCEPT ![r] = q]
    BY DEF Refresh, q, st
  <1>5. req' \in [Requests -> Request] /\ HandlersOK'
    BY <1>1, <1>3, <1>4, HandlerStep
  <1>6. UNCHANGED <<rows, aged, audit, clock, told, sweep, faults>>
    BY DEF Refresh
  <1> QED BY <1>5, <1>6, QuietStep DEF TypeOK, SweepOK

LEMMA PublishStep ==
  ASSUME Inv, NEW r \in Requests, Publish(r)
  PROVE  Inv'
  <1> USE DEF Inv
  <1>1. req[r].item \in Packets /\ req[r].event \in Events /\ req[r].answer \in Receipts
    BY DEF Publish, ReadyToPublish, HandlersOK, TypeOK, Request
  <1>2. /\ UNCHANGED <<rows, aged, audit, clock, sweep, faults>>
        /\ told' = [told EXCEPT ![req[r].item] = @ \union {req[r].event}]
        /\ req' = [req EXCEPT ![r] = Ended(req[r], req[r].item, TRUE)]
    BY DEF Publish
  <1>3. req' \in [Requests -> Request] /\ HandlersOK'
    BY <1>1, <1>2, EndingStep
  <1>4. told' \in [Packets -> SUBSET Events]
    BY <1>1, <1>2 DEF TypeOK
  <1> QED BY <1>2, <1>3, <1>4, QuietStep DEF TypeOK, SweepOK

LEMMA FailureStep ==
  ASSUME Inv, NEW r \in Requests, CommitFails(r) \/ RefreshFails(r)
  PROVE  Inv'
  <1> USE DEF Inv
  <1>1. req[r].item \in Packets
    BY DEF CommitFails, RefreshFails, HandlersOK
  <1>2. /\ UNCHANGED <<rows, aged, audit, clock, told, sweep>>
        /\ faults' = faults + 1
        /\ Reject(r, req[r].item) \/ req' = [req EXCEPT ![r] = Broken(req[r])]
    BY DEF CommitFails, RefreshFails
  <1>3. req' \in [Requests -> Request] /\ HandlersOK'
    BY <1>1, <1>2, EndingStep, BreakingStep DEF Reject
  <1>4. faults' \in Nat
    BY <1>2 DEF TypeOK
  <1> QED BY <1>2, <1>3, <1>4, QuietStep DEF TypeOK, SweepOK

LEMMA CrashStep ==
  ASSUME Inv, Crash
  PROVE  Inv'
  <1> USE DEF Inv
  <1> DEFINE dead(r) == [Fresh EXCEPT !.pc = "lost", !.op = req[r].op,
                           !.agent = req[r].agent, !.ok = req[r].ok, !.bad = req[r].bad]
  <1>1. ASSUME NEW r \in Requests
        PROVE  dead(r) \in Request /\ dead(r).pc = "lost"
    BY FreshType DEF TypeOK, Request
  <1> HIDE DEF dead
  <1>2. req' = [r \in Requests |-> IF InFlight(r) THEN dead(r) ELSE req[r]]
    BY DEF Crash, dead
  <1>3. req' \in [Requests -> Request]
    BY <1>1, <1>2 DEF TypeOK
  <1>4. HandlersOK'
    <2> SUFFICES ASSUME NEW r \in Requests
        PROVE  req'[r].pc \notin {"loaded", "committed", "refreshed"}
      BY DEF HandlersOK
    <2> QED BY <1>1, <1>2 DEF InFlight, InFlightPcs
  <1>5. UNCHANGED <<rows, aged, audit, clock, told>> /\ faults' = faults + 1
        /\ sweep' = [p \in Packets |-> NoEntry]
    BY DEF Crash
  <1> QED BY <1>3, <1>4, <1>5, QuietStep DEF TypeOK, SweepOK

LEMMA AgeStep ==
  ASSUME Inv, NEW p \in Packets, Age(p)
  PROVE  Inv'
  <1>1. UNCHANGED <<rows, audit, clock, told, req, sweep, faults>>
    BY DEF Age
  <1>2. TypeOK' /\ HandlersOK' /\ SweepOK'
    BY <1>1 DEF Inv, Age, TypeOK, HandlersOK, Prepared, SweepOK
  <1> QED BY <1>1, <1>2, QuietStep

LEMMA SweepQuietStep ==
  ASSUME Inv, SweepRead \/ SweepFails
  PROVE  Inv'
  <1>1. CASE SweepRead
    <2>1. ASSUME NEW p \in Packets, p \in Due
          PROVE  /\ Entry("expired", rows[p].status, NoAgent, NoPacket) \in Entries
                 /\ Entry("expired", rows[p].status, NoAgent, NoPacket).type = "expired"
                 /\ Entry("expired", rows[p].status, NoAgent, NoPacket).link = NoPacket
      <3>1. rows[p].status \in Status \union {NoStatus} /\ TypeOK
        BY DEF Inv, TypeOK, Row
      <3>2. Entry("expired", rows[p].status, NoAgent, NoPacket).link = NoPacket
        BY DEF Entry, EntryAt
      <3> QED BY <3>1, <3>2, EntryType DEF EntryTypes, Status
    <2>2. sweep' \in [Packets -> Entries \union {NoEntry}] /\ SweepOK'
      BY <1>1, <2>1 DEF SweepRead, SweepOK
    <2>3. UNCHANGED <<rows, aged, audit, told, req, faults>> /\ clock' \in Nat
      BY <1>1 DEF Inv, SweepRead, TypeOK
    <2>4. TypeOK' /\ HandlersOK'
      BY <2>2, <2>3 DEF Inv, TypeOK, HandlersOK, Prepared
    <2> QED BY <2>2, <2>3, <2>4, QuietStep
  <1>2. CASE SweepFails
    <2>1. UNCHANGED <<rows, aged, audit, clock, told, req>> /\ faults' \in Nat
          /\ sweep' = [p \in Packets |-> NoEntry]
      BY <1>2 DEF Inv, SweepFails, TypeOK
    <2>2. TypeOK' /\ HandlersOK' /\ SweepOK'
      BY <2>1 DEF Inv, TypeOK, HandlersOK, Prepared, SweepOK
    <2> QED BY <2>1, <2>2, QuietStep
  <1> QED BY <1>1, <1>2

\* The commit: an inserted row is logged as created, an updated one has the
\* status of its new entry or keeps its status and its entries.
LEMMA CommitStep ==
  ASSUME Inv, NEW r \in Requests, Commit(r)
  PROVE  Inv'
  <1> USE DEF Inv
  <1> DEFINE q == req[r]
             p == q.item
             new == IF q.op \in CreateOps THEN q.copy
                    ELSE MergeRow(rows[p], q.copy, q.dirty)
             done == [q EXCEPT !.pc = "committed", !.copy = NoRow,
                               !.dirty = {}, !.log = NoEntry]
  <1>1. /\ q \in Request /\ p \in Packets /\ rows[p] \in Row /\ q.copy \in Row
        /\ q.log \in Entries \union {NoEntry} /\ q.log.at \in Nat /\ q.answer \in Receipts
        /\ Prepared(q.op, q.copy, q.dirty, q.log)
    BY DEF Commit, HandlersOK, TypeOK, Request, NoEntry, EntryAt, Entries
  <1>2. rows' = [rows EXCEPT ![p] = new] /\ UNCHANGED <<aged, clock, told, sweep, faults>>
    BY DEF Commit
  <1>3. audit' = [x \in Packets |-> Trail(q, x)]
    BY DEF Commit
  <1>4. new \in Row
    BY <1>1, MergeRowType
  <1>5. req' \in [Requests -> Request] /\ HandlersOK'
    <2>1. done \in Request /\ done.pc = "committed" /\ done.item = p /\ done.answer = q.answer
      BY <1>1, ConstantTypes DEF Request, InFlightPcs
    <2>2. req' = [req EXCEPT ![r] = done]
      BY DEF Commit
    <2> HIDE DEF done
    <2> QED BY <1>1, <2>1, <2>2, HandlerStep
  <1>6. rows' \in [Packets -> Row] /\ rows'[p] = new
        /\ \A x \in Packets : x # p => rows'[x] = rows[x]
    BY <1>1, <1>2, <1>4 DEF TypeOK
  <1>7. EntryAt("chained", NoStatus, NoAgent, p, q.log.at) \in Entries
    BY <1>1, EntryAtType DEF EntryTypes
  <1>8. ASSUME NEW x \in Packets
        PROVE  audit'[x] \in SUBSET Entries /\ audit[x] \subseteq audit'[x]
    <2>1. Logged(q.log) \subseteq Entries
      BY <1>1 DEF Logged
    <2> QED BY <1>3, <1>7, <2>1 DEF Trail, TypeOK
  <1>9. q.log # NoEntry => q.log \in audit'[p]
    BY <1>1, <1>3 DEF Trail, Logged
  <1>10. TypeOK' /\ SweepOK'
    <2>1. audit' \in [Packets -> SUBSET Entries]
      BY <1>3, <1>8
    <2> QED BY <1>2, <1>5, <1>6, <2>1 DEF TypeOK, SweepOK
  <1> HIDE DEF new
  <1>11. \/ /\ new.status \in StatusesAfter(q.log) /\ q.log # NoEntry
            /\ new.status = "completed" => new.metadata.completedAt
         \/ new.status = rows[p].status /\ new.metadata = rows[p].metadata
    <2>1. NoEntry.type = NoStatus /\ NoStatus \notin EntryTypes
      BY DEF NoEntry, EntryAt, EntryTypes, Status, NoStatus
    <2>2. CASE q.op \in CreateOps
      BY <1>1, <2>1, <2>2 DEF Prepared, new, StatusesAfter, EntryTypes, Status, NoStatus
    <2>3. CASE q.op \notin CreateOps /\ "status" \in q.dirty
      BY <1>1, <2>1, <2>3 DEF Prepared, new, MergeRow
    <2>4. CASE q.op \notin CreateOps /\ "status" \notin q.dirty
      BY <1>1, <2>4 DEF Prepared, new, MergeRow
    <2> QED BY <2>2, <2>3, <2>4
  <1>12. RowsExplained'
    <2> SUFFICES ASSUME NEW x \in Packets, rows'[x].status # NoStatus
                 PROVE  \E e \in audit'[x] : rows'[x].status \in StatusesAfter(e)
      BY DEF RowsExplained
    <2>1. CASE rows'[x].status = rows[x].status
      BY <1>8, <2>1 DEF RowsExplained
    <2>2. CASE rows'[x].status # rows[x].status
      BY <1>6, <1>9, <1>11, <2>2
    <2> QED BY <2>1, <2>2
  <1>13. CompletedIsStamped'
    BY <1>1, <1>6, <1>11 DEF CompletedIsStamped
  <1> QED BY <1>5, <1>10, <1>12, <1>13

LEMMA SweepCommitStep ==
  ASSUME Inv, SweepCommit
  PROVE  Inv'
  <1> USE DEF Inv
  <1>1. UNCHANGED <<aged, clock, told, req, faults>> /\ sweep' = [p \in Packets |-> NoEntry]
    BY DEF SweepCommit
  <1>2. ASSUME NEW p \in Packets, sweep[p] # NoEntry
        PROVE  /\ rows'[p] = [rows[p] EXCEPT !.status = "expired"]
               /\ sweep[p] \in Entries /\ sweep[p].type = "expired"
               /\ audit'[p] = audit[p] \union {sweep[p]}
    BY <1>2 DEF SweepCommit, Logged, SweepOK, TypeOK
  <1>3. ASSUME NEW p \in Packets, sweep[p] = NoEntry
        PROVE  rows'[p] = rows[p] /\ audit'[p] = audit[p]
    BY <1>3 DEF SweepCommit, Logged
  <1>4. ASSUME NEW p \in Packets
        PROVE  /\ rows'[p] \in Row /\ audit'[p] \in SUBSET Entries
               /\ sweep[p] # NoEntry => rows'[p].status = "expired"
    <2>1. rows[p] \in Row /\ audit[p] \in SUBSET Entries
      BY DEF TypeOK
    <2>2. [rows[p] EXCEPT !.status = "expired"] \in Row
          /\ [rows[p] EXCEPT !.status = "expired"].status = "expired"
      BY <2>1 DEF Row, Status
    <2>3. CASE sweep[p] # NoEntry
      BY <1>2, <2>1, <2>2, <2>3
    <2>4. CASE sweep[p] = NoEntry
      BY <1>3, <2>1, <2>4
    <2> QED BY <2>3, <2>4
  <1>5. TypeOK' /\ SweepOK'
    <2>1. rows' = [p \in Packets |-> rows'[p]] /\ audit' = [p \in Packets |-> audit'[p]]
      BY DEF SweepCommit
    <2>2. rows' \in [Packets -> Row] /\ audit' \in [Packets -> SUBSET Entries]
      BY <1>4, <2>1
    <2> QED BY <1>1, <2>2 DEF TypeOK, SweepOK
  <1>6. HandlersOK'
    BY <1>1 DEF HandlersOK, Prepared
  <1>7. RowsExplained'
    <2> SUFFICES ASSUME NEW p \in Packets, rows'[p].status # NoStatus
                 PROVE  \E e \in audit'[p] : rows'[p].status \in StatusesAfter(e)
      BY DEF RowsExplained
    <2>1. CASE sweep[p] = NoEntry
      BY <1>3, <2>1 DEF RowsExplained
    <2>2. CASE sweep[p] # NoEntry
      BY <1>2, <1>4, <2>2 DEF StatusesAfter
    <2> QED BY <2>1, <2>2
  <1>8. CompletedIsStamped'
    BY <1>3, <1>4 DEF CompletedIsStamped
  <1> QED BY <1>5, <1>6, <1>7, <1>8

LEMMA StepInv == Inv /\ [Next]_vars => Inv'
  <1> SUFFICES ASSUME Inv, [Next]_vars PROVE Inv'
    OBVIOUS
  <1>1. CASE UNCHANGED vars
    BY <1>1, QuietStep DEF vars, Inv, TypeOK, HandlersOK, Prepared, SweepOK
  <1>2. ASSUME NEW r \in Requests, Begin(r) PROVE Inv'
    BY <1>2, BeginStep
  <1>3. ASSUME NEW r \in Requests, NEW p \in Packets, Read(r, p) PROVE Inv'
    BY <1>3, ReadStep
  <1>4. ASSUME NEW r \in Requests, Commit(r) PROVE Inv'
    BY <1>4, CommitStep
  <1>5. ASSUME NEW r \in Requests, Refresh(r) PROVE Inv'
    BY <1>5, RefreshStep
  <1>6. ASSUME NEW r \in Requests, Publish(r) PROVE Inv'
    BY <1>6, PublishStep
  <1>7. ASSUME NEW r \in Requests, CommitFails(r) \/ RefreshFails(r) PROVE Inv'
    BY <1>7, FailureStep
  <1>8. ASSUME NEW p \in Packets, Age(p) PROVE Inv'
    BY <1>8, AgeStep
  <1>9. CASE SweepRead \/ SweepFails
    BY <1>9, SweepQuietStep
  <1>10. CASE SweepCommit
    BY <1>10, SweepCommitStep
  <1>11. CASE Crash
    BY <1>11, CrashStep
  <1> QED BY <1>1, <1>2, <1>3, <1>4, <1>5, <1>6, <1>7, <1>8, <1>9, <1>10, <1>11 DEF Next

-----------------------------------------------------------------------------
(* The theorems *)

LEMMA InvAlways == Spec => []Inv
  BY InitInv, StepInv, PTL DEF Spec

\* The tables, the handlers and the expiry task keep their types.
THEOREM TypeCorrect == Spec => []TypeOK
  <1>1. Inv => TypeOK
    BY DEF Inv
  <1> QED BY <1>1, InvAlways, PTL

\* No overlap of PATCH, batch complete and the others leaves a completed packet
\* without completed_at: metadata is never written without status, and never
\* without the stamp by a handler that completes.
THEOREM CompletedStamped == Spec => []CompletedIsStamped
  <1>1. Inv => CompletedIsStamped
    BY DEF Inv
  <1> QED BY <1>1, InvAlways, PTL
=============================================================================
