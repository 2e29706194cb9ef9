-------------------------- MODULE PacketSerialProofs --------------------------
(***************************************************************************)
(* The packet endpoints when calls do not overlap: they implement          *)
(* HandoffBoard, and the audit trail says how each packet came to be what  *)
(* it is, for any number of packets, agents, requests and faults.          *)
(***************************************************************************)
EXTENDS PacketHistoryProofs

\* What a commit makes of a row.
Written(op, row, copy, dirty) == IF op \in CreateOps THEN copy ELSE MergeRow(row, copy, dirty)

\* A step of the board, as seen by one row.
Adds(row, new) ==
  /\ row.status = NoStatus /\ new.status \in {"created", "awaiting_human"}
  /\ new.metadata.target \in Agents /\ new.decisions = {}
Claims(row, new) ==
  /\ CanTransition(row.status, "claimed") /\ new.status = "claimed"
  /\ new.metadata.target \in Agents /\ new.decisions = row.decisions
Updates(row, new) ==
  /\ row.status # NoStatus /\ new.metadata.target = row.metadata.target
  /\ row.decisions \subseteq new.decisions
  /\ new.status = row.status \/ CanTransition(row.status, new.status)
BoardMove(row, new) == Adds(row, new) \/ Claims(row, new) \/ Updates(row, new)

\* The entry that goes with it.
Tells(row, new, log) ==
  /\ NamesPrevious(log) => log.from = row.status
  /\ IsClaim(log) => row.status \in {"created", "awaiting_human"}
  /\ \/ log = NoEntry /\ new.status = row.status
     \/ /\ log.type # "chained" /\ new.status \in StatusesAfter(log)
        /\ log.type = "created" <=> row.status = NoStatus

Fits(op, row, copy, dirty, log) ==
  LET new == Written(op, row, copy, dirty) IN BoardMove(row, new) /\ Tells(row, new, log)

\* The newest entry of a trail about the status.
Last(d, trail) ==
  /\ d \in trail /\ d.type # "chained"
  /\ \A e \in trail : d.at < e.at => e.type = "chained"
Shows(row, trail) == \E d : Last(d, trail) /\ row.status \in StatusesAfter(d)

\* A claim that no call for a human has followed is one that still holds.
Settled(row, trail) ==
  \A d \in trail :
    IsClaim(d) /\ (\A c \in trail : d.at < c.at => c.type # "awaiting_human") =>
      row.status \notin {"created", "awaiting_human", NoStatus}

PreviousNamed(trail) ==
  \A e \in trail : NamesPrevious(e) =>
    \E d \in trail : Newest(d, trail, e.at) /\ e.from \in StatusesAfter(d)
ClaimsApart(trail) ==
  \A d, e \in trail :
    d.at < e.at /\ IsClaim(d) /\ IsClaim(e) =>
      \E c \in trail : d.at < c.at /\ c.at < e.at /\ c.type = "awaiting_human"
Ledger(row, trail) ==
  /\ row.status # NoStatus => Shows(row, trail)
  /\ Settled(row, trail) /\ PreviousNamed(trail) /\ ClaimsApart(trail)

Fitting ==
  \A r \in Requests : req[r].pc = "loaded" =>
    Fits(req[r].op, rows[req[r].item], req[r].copy, req[r].dirty, req[r].log)
SweepFits ==
  \A p \in Packets : sweep[p] # NoEntry =>
    /\ sweep[p].type = "expired" /\ sweep[p].from = rows[p].status
    /\ CanTransition(rows[p].status, "expired")
Named == \A r \in Requests : req[r].op \in CreateOps \union ClaimOps => req[r].agent \in Agents
Unborn == \A p \in Packets : rows[p].status = NoStatus => rows[p].decisions = {}

Current == OneAtATime /\ Fitting /\ SweepFits /\ Named /\ Unborn
Recorded == \A p \in Packets : Ledger(rows[p], audit[p])

\* An entry that is yet to be committed is newer than all that are.
Stamped(e, trails, time) == e.at = time /\ \A p \in Packets : \A d \in trails[p] : d.at < time
Dated ==
  /\ \A p \in Packets : \A d \in audit[p] : d.at <= clock
  /\ \A r \in Requests :
       req[r].pc = "loaded" /\ req[r].log # NoEntry => Stamped(req[r].log, audit, clock)
  /\ \A p \in Packets : sweep[p] # NoEntry => Stamped(sweep[p], audit, clock)

-----------------------------------------------------------------------------
(* What reading prepares *)

LoadsFitting(r, p) ==
  \E copy, dirty, log, event :
    Fits(req[r].op, rows[p], copy, dirty, log) /\ Load(r, p, copy, dirty, log, event)

LEMMA EntryFields ==
  \A type, from, by, link :
    /\ Entry(type, from, by, link).type = type
    /\ Entry(type, from, by, link).from = from
    /\ Entry(type, from, by, link).by = by
    /\ Entry(type, from, by, link).at = clock + 1
  BY DEF Entry, EntryAt

LEMMA NoEntryFields == NoEntry.type = NoStatus /\ NoEntry.from = NoStatus
  BY DEF NoEntry, EntryAt

LEMMA CreationFits ==
  ASSUME NEW op \in CreateOps, NEW row, row.status = NoStatus,
         NEW st \in {"created", "awaiting_human"}, NEW a \in Agents, NEW h, NEW par, NEW link, NEW dirty
  PROVE  Fits(op, row, NewRow(st, a, h, par), dirty, Entry("created", NoStatus, NoAgent, link))
  <1>1. PICK new, log : new = NewRow(st, a, h, par) /\ log = Entry("created", NoStatus, NoAgent, link)
    OBVIOUS
  <1>2. new.status = st /\ new.metadata.target = a /\ new.decisions = {}
    BY <1>1 DEF NewRow
  <1>3. log.type = "created" /\ log.from = NoStatus
    BY <1>1, EntryFields
  <1>4. Adds(row, new)
    BY <1>2 DEF Adds
  <1>5. Tells(row, new, log)
    BY <1>2, <1>3 DEF Tells, NamesPrevious, IsClaim, StatusesAfter
  <1>6. Written(op, row, new, dirty) = new
    BY DEF Written
  <1> QED BY <1>1, <1>4, <1>5, <1>6 DEF Fits, BoardMove

LEMMA MergedFields ==
  ASSUME NEW row, NEW copy, NEW dirty, NEW op, op \notin CreateOps
  PROVE  /\ Written(op, row, copy, dirty).status = IF "status" \in dirty THEN copy.status ELSE row.status
         /\ Written(op, row, copy, dirty).metadata = IF "metadata" \in dirty THEN copy.metadata ELSE row.metadata
         /\ Written(op, row, copy, dirty).decisions = IF "decisions" \in dirty THEN copy.decisions ELSE row.decisions
  BY DEF Written, MergeRow

LEMMA ClaimFits ==
  ASSUME NEW row \in Row, NEW a \in Agents, NEW op \in ClaimOps, Claimable(row)
  PROVE  Fits(op, row,
              [row EXCEPT !.status = "claimed", !.metadata = [@ EXCEPT !.claimedAt = TRUE, !.target = a]],
              {"status", "metadata"}, Entry("claimed", NoStatus, a, NoPacket))
  <1>1. PICK copy, log, new, dirty :
          /\ copy = [row EXCEPT !.status = "claimed", !.metadata = [@ EXCEPT !.claimedAt = TRUE, !.target = a]]
          /\ dirty = {"status", "metadata"}
          /\ log = Entry("claimed", NoStatus, a, NoPacket) /\ new = Written(op, row, copy, dirty)
    OBVIOUS
  <1>2. copy.status = "claimed" /\ copy.metadata.target = a
    BY <1>1 DEF Row, Metadata
  <1>3. op \notin CreateOps
    BY DEF ClaimOps, CreateOps
  <1>4. new.status = "claimed" /\ new.metadata.target = a /\ new.decisions = row.decisions
    <2>1. "status" \in dirty /\ "metadata" \in dirty /\ "decisions" \notin dirty
      BY <1>1
    <2>2. /\ new.status = copy.status /\ new.metadata = copy.metadata /\ new.decisions = row.decisions
      BY <1>1, <1>3, <2>1 DEF Written, MergeRow
    <2> QED BY <1>2, <2>2
  <1>5. Claims(row, new)
    BY <1>4 DEF Claims, Claimable
  <1>6. log.type = "claimed" /\ log.from = NoStatus
    BY <1>1, EntryFields
  <1>7. row.status \in {"created", "awaiting_human"}
    BY DEF Claimable, CanTransition, ValidTransitions, Status
  <1>8. Tells(row, new, log)
    BY <1>4, <1>6, <1>7 DEF Tells, NamesPrevious, StatusesAfter, NoStatus
  <1> QED BY <1>1, <1>5, <1>8 DEF Fits, BoardMove

\* The other endpoints change neither owner nor creation.
LEMMA UpdateFits ==
  ASSUME NEW op, op \notin CreateOps, NEW row \in Row, row.status # NoStatus, NEW copy \in Row, NEW dirty, NEW log,
         copy.metadata.target = row.metadata.target, row.decisions \subseteq copy.decisions,
         "status" \notin dirty => log = NoEntry,
         "status" \in dirty => /\ CanTransition(row.status, copy.status)
                               /\ log.type \notin {"chained", "created"} /\ copy.status \in StatusesAfter(log),
         NamesPrevious(log) => log.from = row.status, ~IsClaim(log)
  PROVE  Fits(op, row, copy, dirty, log)
  <1>1. PICK new : new = Written(op, row, copy, dirty)
    OBVIOUS
  <1>2. /\ new.metadata.target = row.metadata.target /\ row.decisions \subseteq new.decisions
        /\ new.status = IF "status" \in dirty THEN copy.status ELSE row.status
    BY <1>1, MergedFields
  <1>3. Updates(row, new)
    BY <1>2 DEF Updates
  <1>4. Tells(row, new, log)
    BY <1>2 DEF Tells
  <1> QED BY <1>1, <1>3, <1>4 DEF Fits, BoardMove

LEMMA PatchFits ==
  ASSUME TypeOK, NEW op, op \notin CreateOps, NEW row \in Row, row.status # NoStatus, NEW r \in Requests, NEW ask \in Hitl,
         NEW body \in [to: Status \union {NoStatus}, decides: BOOLEAN, asks: BOOLEAN],
         Moves(row, body) => CanTransition(row.status, body.to)
  PROVE  Fits(op, row, Patched(r, row, body, ask), PatchedColumns(row, body), PatchEntry(row, body))
  <1>1. PICK copy, dirty, log :
          copy = Patched(r, row, body, ask) /\ dirty = PatchedColumns(row, body) /\ log = PatchEntry(row, body)
    OBVIOUS
  <1>2. copy \in Row /\ PatchDecision(row, body, copy, dirty, log)
    BY <1>1, PatchPrepared
  <1>3. copy.metadata.target = row.metadata.target /\ row.decisions \subseteq copy.decisions
    BY <1>1 DEF Patched, Row, Metadata
  <1>4. CASE Moves(row, body)
    <2>1. copy.status = body.to
      BY <1>1, <1>4 DEF Patched, Row
    <2>2. log.type = body.to /\ log.from = row.status
      BY <1>1, <1>4, EntryFields DEF PatchEntry
    <2>3. CanTransition(row.status, copy.status)
      BY <1>4, <2>1
    <2>4. body.to # "created"
      BY <1>4 DEF CanTransition, ValidTransitions, Status
    <2>5. log.type \notin {"chained", "created"} /\ copy.status \in StatusesAfter(log) /\ ~IsClaim(log)
      BY <1>2, <1>4, <2>2, <2>4 DEF PatchDecision, IsClaim
    <2>6. "status" \in dirty
      BY <1>2, <1>4 DEF PatchDecision
    <2>7. Fits(op, row, copy, dirty, log)
      BY <1>2, <1>3, <2>2, <2>3, <2>5, <2>6, UpdateFits
    <2> QED BY <1>1, <2>7
  <1>5. CASE ~Moves(row, body)
    <2>1. "status" \notin dirty /\ log = NoEntry
      BY <1>2, <1>5 DEF PatchDecision
    <2>2. ~NamesPrevious(log) /\ ~IsClaim(log)
      BY <2>1, NoEntryFields DEF NamesPrevious, IsClaim, NoStatus
    <2>3. Fits(op, row, copy, dirty, log)
      BY <1>2, <1>3, <2>1, <2>2, UpdateFits
    <2> QED BY <1>1, <2>3
  <1> QED BY <1>4, <1>5

LEMMA ReadFits ==
  ASSUME Inv, History, Current, NEW r \in Requests, NEW p \in Packets, Read(r, p)
  PROVE  Reject(r, p) \/ LoadsFitting(r, p)
  <1>1. PICK row, op, a : row = rows[p] /\ op = req[r].op /\ a = req[r].agent
    OBVIOUS
  <1>2. row \in Row /\ req[r].pc = "next" /\ p \in req[r].todo /\ TypeOK
    BY <1>1 DEF Inv, TypeOK, Read, PrepareCreate, ReadChain, ReadClaim, ReadComplete, ReadPatch, ReadDelete,
       ReadRespond, Reading
  <1>3. op \in CreateOps => row.status = NoStatus
    BY <1>1, <1>2 DEF History, HandlersKnow, HandlerKnows, Existing
  <1>4. op \notin CreateOps => row.status # NoStatus
    BY <1>1, <1>2 DEF History, HandlersKnow, HandlerKnows, Existing
  <1>5. op \in CreateOps \union ClaimOps => a \in Agents
    BY <1>1 DEF Current, Named
  <1>6. CASE PrepareCreate(r, p)
    <2>1. op \in CreateOps
      BY <1>1, <1>6 DEF PrepareCreate, Reading, CreateOps
    <2>2. ASSUME NEW h, NEW st \in {"created", "awaiting_human"},
                 Load(r, p, NewRow(st, a, h, NoPacket), Columns, Entry("created", NoStatus, NoAgent, NoPacket),
                      Event("created", st))
          PROVE  LoadsFitting(r, p)
      <3>1. Fits(op, row, NewRow(st, a, h, NoPacket), Columns, Entry("created", NoStatus, NoAgent, NoPacket))
        BY <1>3, <1>5, <2>1, CreationFits
      <3> QED BY <1>1, <2>2, <3>1 DEF LoadsFitting
    <2> QED BY <1>1, <1>6, <2>2 DEF PrepareCreate
  <1>7. CASE ReadChain(r, p)
    <2>1. op \in CreateOps
      BY <1>1, <1>7 DEF ReadChain, Reading, CreateOps
    <2>2. ASSUME NEW h, NEW st \in {"created", "awaiting_human"}, NEW par,
                 Load(r, p, NewRow(st, a, h, par), Columns, Entry("created", NoStatus, NoAgent, par),
                      Event("chained", st))
          PROVE  LoadsFitting(r, p)
      <3>1. Fits(op, row, NewRow(st, a, h, par), Columns, Entry("created", NoStatus, NoAgent, par))
        BY <1>3, <1>5, <2>1, CreationFits
      <3> QED BY <1>1, <2>2, <3>1 DEF LoadsFitting
    <2> QED BY <1>1, <1>7, <2>2 DEF ReadChain
  <1>8. CASE ReadClaim(r, p)
    <2>1. op \in ClaimOps
      BY <1>1, <1>8 DEF ReadClaim, Reading, ClaimOps
    <2>2. CASE Claimable(row)
      <3>1. Fits(op, row,
                 [row EXCEPT !.status = "claimed", !.metadata = [@ EXCEPT !.claimedAt = TRUE, !.target = a]],
                 {"status", "metadata"}, Entry("claimed", NoStatus, a, NoPacket))
        BY <1>2, <1>5, <2>1, <2>2, ClaimFits
      <3>2. Load(r, p,
                 [row EXCEPT !.status = "claimed", !.metadata = [@ EXCEPT !.claimedAt = TRUE, !.target = a]],
                 {"status", "metadata"}, Entry("claimed", NoStatus, a, NoPacket), Event("claimed", "claimed"))
        BY <1>1, <1>8, <2>2 DEF ReadClaim
      <3> QED BY <1>1, <3>1, <3>2 DEF LoadsFitting
    <2> QED BY <1>1, <1>8, <2>2 DEF ReadClaim
  <1>9. CASE ReadComplete(r, p) /\ CanTransition(row.status, "completed")
    <2>1. op \notin CreateOps
      BY <1>1, <1>9 DEF ReadComplete, Reading, CreateOps
    <2>2. PICK copy, dirty, log :
            /\ copy = Completed(row) /\ dirty = {"status", "metadata"}
            /\ log = Entry("completed", "completed", NoAgent, NoPacket)
      OBVIOUS
    <2>3. /\ copy \in Row /\ copy.status = "completed" /\ copy.metadata.target = row.metadata.target
          /\ row.decisions = copy.decisions
      BY <1>2, <2>2 DEF Completed, Row, Metadata, Status
    <2>4. log.type = "completed" /\ log.by = NoAgent
      BY <2>2, EntryFields
    <2>5. copy.status \in StatusesAfter(log) /\ ~NamesPrevious(log) /\ ~IsClaim(log)
      BY <2>3, <2>4 DEF StatusesAfter, NamesPrevious, IsClaim
    <2>6. Fits(op, row, copy, dirty, log)
      BY <1>2, <1>4, <1>9, <2>1, <2>2, <2>3, <2>4, <2>5, UpdateFits
    <2>7. Load(r, p, copy, dirty, log, Event("completed", "completed"))
      BY <1>1, <1>9, <2>2 DEF ReadComplete
    <2> QED BY <1>1, <2>6, <2>7 DEF LoadsFitting
  <1>10. CASE ReadDelete(r, p) /\ CanTransition(row.status, "expired")
    <2>1. op \notin CreateOps
      BY <1>1, <1>10 DEF ReadDelete, Reading, CreateOps
    <2>2. PICK copy, dirty, log :
            copy = [row EXCEPT !.status = "expired"] /\ dirty = {"status"} /\ log = Deleted(row)
      OBVIOUS
    <2>3. /\ copy \in Row /\ copy.status = "expired" /\ copy.metadata.target = row.metadata.target
          /\ row.decisions = copy.decisions
      BY <1>2, <2>2 DEF Row, Status
    <2>4. log.type = "expired" /\ log.from = row.status
      BY <2>2, EntryFields DEF Deleted
    <2>5. copy.status \in StatusesAfter(log) /\ ~IsClaim(log)
      BY <2>3, <2>4 DEF StatusesAfter, IsClaim
    <2>6. Fits(op, row, copy, dirty, log)
      BY <1>2, <1>4, <1>10, <2>1, <2>2, <2>3, <2>4, <2>5, UpdateFits
    <2>7. Load(r, p, copy, dirty, log, Event("expired", "expired"))
      BY <1>1, <1>10, <2>2 DEF ReadDelete
    <2> QED BY <1>1, <2>6, <2>7 DEF LoadsFitting
  <1>11. CASE ReadRespond(r, p) /\ Answerable(row)
    <2>1. op \notin CreateOps
      BY <1>1, <1>11 DEF ReadRespond, Reading, CreateOps
    <2>2. PICK copy, dirty, log :
            /\ copy = [row EXCEPT !.status = "claimed", !.hitl = [@ EXCEPT !.answered = TRUE],
                                  !.metadata = [@ EXCEPT !.claimedAt = TRUE]]
            /\ dirty = {"status", "metadata", "hitl"}
            /\ log = Entry("hitl_responded", NoStatus, NoAgent, NoPacket)
      OBVIOUS
    <2>3. /\ copy \in Row /\ copy.status = "claimed" /\ copy.metadata.target = row.metadata.target
          /\ row.decisions = copy.decisions
      BY <1>2, <2>2 DEF Row, Metadata, Hitl, Status
    <2>4. log.type = "hitl_responded" /\ log.from = NoStatus
      BY <2>2, EntryFields
    <2>5. copy.status \in StatusesAfter(log) /\ ~NamesPrevious(log) /\ ~IsClaim(log)
      BY <2>3, <2>4 DEF StatusesAfter, NamesPrevious, IsClaim
    <2>6. CanTransition(row.status, "claimed")
      BY <1>11 DEF Answerable, CanTransition, ValidTransitions, Status
    <2>7. Fits(op, row, copy, dirty, log)
      BY <1>2, <1>4, <2>1, <2>2, <2>3, <2>4, <2>5, <2>6, UpdateFits
    <2>8. Load(r, p, copy, dirty, log, Event("response_ready", "claimed"))
      BY <1>1, <1>11, <2>2 DEF ReadRespond
    <2> QED BY <1>1, <2>7, <2>8 DEF LoadsFitting
  <1>12. CASE ReadPatch(r, p)
    <2>1. op \notin CreateOps
      BY <1>1, <1>12 DEF ReadPatch, Reading, CreateOps
    <2>2. PICK body \in Patches, ask \in Questions :
            IF Moves(row, body) /\ ~CanTransition(row.status, body.to)
            THEN Reject(r, p)
            ELSE Load(r, p, Patched(r, row, body, ask), PatchedColumns(row, body), PatchEntry(row, body),
                      Event(IF body.to = NoStatus THEN "updated" ELSE body.to, row.status))
      BY <1>1, <1>12 DEF ReadPatch
    <2>3. ask \in Hitl /\ body \in [to: Status \union {NoStatus}, decides: BOOLEAN, asks: BOOLEAN]
      BY ConstantsAssumption, ConstantTypes DEF NoStatus
    <2>4. CASE Moves(row, body) => CanTransition(row.status, body.to)
      <3>1. Fits(op, row, Patched(r, row, body, ask), PatchedColumns(row, body), PatchEntry(row, body))
        BY <1>2, <1>4, <2>1, <2>3, <2>4, PatchFits
      <3> QED BY <1>1, <2>2, <2>4, <3>1 DEF LoadsFitting
    <2> QED BY <2>2, <2>4
  <1>13. \/ ReadComplete(r, p) /\ ~CanTransition(row.status, "completed")
         \/ ReadDelete(r, p) /\ ~CanTransition(row.status, "expired")
         \/ ReadRespond(r, p) /\ ~Answerable(row)
         => Reject(r, p)
    BY <1>1 DEF ReadComplete, ReadDelete, ReadRespond
  <1> QED BY <1>6, <1>7, <1>8, <1>9, <1>10, <1>11, <1>12, <1>13 DEF Read

-----------------------------------------------------------------------------
(* One call at a time *)

LEMMA OneHandler ==
  ASSUME TypeOK, Current, NEW r \in Requests, NEW q \in Request, req' = [req EXCEPT ![r] = q],
         UNCHANGED rows,
         q.pc = "loaded" => Fits(q.op, rows[q.item], q.copy, q.dirty, q.log),
         q.op \in CreateOps \union ClaimOps => q.agent \in Agents
  PROVE  Fitting' /\ Named'
  <1>1. req'[r] = q /\ \A s \in Requests : s # r => req'[s] = req[s]
    BY DEF TypeOK
  <1>2. \A s \in Requests : req'[s].pc = "loaded" =>
          Fits(req'[s].op, rows[req'[s].item], req'[s].copy, req'[s].dirty, req'[s].log)
    BY <1>1 DEF Current, Fitting
  <1>3. \A s \in Requests : req'[s].op \in CreateOps \union ClaimOps => req'[s].agent \in Agents
    BY <1>1 DEF Current, Named
  <1>4. rows' = rows
    OBVIOUS
  <1>5. Fitting'
    BY <1>2, <1>4 DEF Fitting
  <1>6. Named'
    BY <1>3 DEF Named
  <1> QED BY <1>5, <1>6

LEMMA EndingFits ==
  ASSUME TypeOK, Current, NEW r \in Requests, NEW p \in Packets, NEW good \in BOOLEAN,
         good => req[r].answer \in Receipts,
         req' = [req EXCEPT ![r] = Ended(req[r], p, good)], UNCHANGED rows
  PROVE  Fitting' /\ Named'
  <1>1. PICK old \in Request : old = req[r]
    BY DEF TypeOK
  <1>2. PICK q : q = Ended(old, p, good)
    OBVIOUS
  <1>3. Finished(old, p, good, q)
    BY <1>1, <1>2, EndedFields
  <1>4. q \in Request /\ q.pc # "loaded" /\ q.op = req[r].op /\ q.agent = req[r].agent
    BY <1>1, <1>3 DEF Finished
  <1>5. q.op \in CreateOps \union ClaimOps => q.agent \in Agents
    BY <1>4 DEF Current, Named
  <1>6. req' = [req EXCEPT ![r] = q]
    BY <1>1, <1>2
  <1> QED BY <1>4, <1>5, <1>6, OneHandler

LEMMA BeginFits ==
  ASSUME Inv, Current, NEW r \in Requests, Begin(r)
  PROVE  Fitting' /\ Named'
  <1>1. PICK op \in Ops, a \in Agents \union {NoAgent}, ps \in SUBSET Packets :
          /\ a # NoAgent <=> op \in CreateOps \union ClaimOps
          /\ req' = [req EXCEPT ![r] = [@ EXCEPT !.pc = "next", !.op = op, !.agent = a, !.todo = ps]]
    BY ConstantsAssumption DEF Begin, ClaimOps
  <1>2. req[r] \in Request /\ TypeOK /\ UNCHANGED rows
    BY DEF Inv, TypeOK, Begin
  <1>3. PICK q : q = [req[r] EXCEPT !.pc = "next", !.op = op, !.agent = a, !.todo = ps]
    OBVIOUS
  <1>4. q \in Request /\ q.pc = "next" /\ q.op = op /\ q.agent = a
    BY <1>2, <1>3 DEF Request, InFlightPcs
  <1>5. req' = [req EXCEPT ![r] = q]
    BY <1>1, <1>3
  <1> QED BY <1>1, <1>2, <1>4, <1>5, OneHandler

LEMMA ReadingFits ==
  ASSUME Inv, Inv', History, Current, NEW r \in Requests, NEW p \in Packets, Read(r, p)
  PROVE  Fitting' /\ Named'
  <1>1. TypeOK /\ TypeOK' /\ UNCHANGED rows /\ req[r] \in Request
    BY ReadOutcome DEF Inv, TypeOK
  <1>2. CASE Reject(r, p)
    BY <1>1, <1>2, EndingFits DEF Reject
  <1>3. CASE LoadsFitting(r, p)
    <2>1. PICK copy, dirty, log, event :
            Fits(req[r].op, rows[p], copy, dirty, log) /\ Load(r, p, copy, dirty, log, event)
      BY <1>3 DEF LoadsFitting
    <2>2. PICK q : q = Holding(req[r], p, copy, dirty, log, event)
      OBVIOUS
    <2>3. req' = [req EXCEPT ![r] = q]
      BY <2>1, <2>2 DEF Load
    <2>4. q \in Request
      BY <1>1, <2>3 DEF TypeOK
    <2>5. /\ q.item = p /\ q.op = req[r].op /\ q.agent = req[r].agent
          /\ q.copy = copy /\ q.dirty = dirty /\ q.log = log
      BY <1>1, <2>2 DEF Holding, Request
    <2>6. q.op \in CreateOps \union ClaimOps => q.agent \in Agents
      BY <2>5 DEF Current, Named
    <2> QED BY <1>1, <2>1, <2>3, <2>4, <2>5, <2>6, OneHandler
  <1> QED BY <1>2, <1>3, ReadFits

LEMMA LaterFits ==
  ASSUME Inv, Inv', Current, NEW r \in Requests,
         Refresh(r) \/ Publish(r) \/ CommitFails(r) \/ RefreshFails(r)
  PROVE  Fitting' /\ Named'
  <1>1. TypeOK /\ TypeOK' /\ UNCHANGED rows /\ req[r] \in Request
    BY DEF Inv, TypeOK, Refresh, Publish, CommitFails, RefreshFails
  <1>2. ~Refresh(r) => req[r].item \in Packets
    BY DEF Inv, HandlersOK, Publish, ReadyToPublish, CommitFails, RefreshFails
  <1>3. CASE Refresh(r)
    <2>1. PICK q : q = [req[r] EXCEPT !.pc = "refreshed", !.event.status = PublishedStatus(req[r])]
      OBVIOUS
    <2>2. req' = [req EXCEPT ![r] = q]
      BY <1>3, <2>1 DEF Refresh
    <2>3. q \in Request /\ q.pc = "refreshed" /\ q.op = req[r].op /\ q.agent = req[r].agent
      BY <1>1, <2>1, <2>2 DEF TypeOK, Request
    <2>4. q.op \in CreateOps \union ClaimOps => q.agent \in Agents
      BY <2>3 DEF Current, Named
    <2> QED BY <1>1, <2>2, <2>3, <2>4, OneHandler
  <1>4. CASE Publish(r)
    <2>1. /\ req' = [req EXCEPT ![r] = Ended(req[r], req[r].item, TRUE)]
          /\ req[r].item \in Packets /\ req[r].answer \in Receipts
      BY <1>4 DEF Publish, ReadyToPublish, Inv, HandlersOK
    <2> QED BY <1>1, <2>1, EndingFits
  <1>5. CASE CommitFails(r) \/ RefreshFails(r)
    <2>1. Reject(r, req[r].item) \/ req' = [req EXCEPT ![r] = Broken(req[r])]
      BY <1>5 DEF CommitFails, RefreshFails
    <2>2. req[r].item \in Packets
      BY <1>5 DEF CommitFails, RefreshFails, Inv, HandlersOK
    <2>3. CASE Reject(r, req[r].item)
      BY <1>1, <2>2, <2>3, EndingFits DEF Reject
    <2>4. CASE req' = [req EXCEPT ![r] = Broken(req[r])]
      <3>1. PICK q : q = Broken(req[r])
        OBVIOUS
      <3>2. req' = [req EXCEPT ![r] = q] /\ q \in Request
        BY <1>1, <2>4, <3>1 DEF TypeOK
      <3>3. q.pc = "done" /\ q.op = req[r].op /\ q.agent = req[r].agent
        BY <1>1, <3>1 DEF Broken, Ended, Request
      <3>4. q.op \in CreateOps \union ClaimOps => q.agent \in Agents
        BY <3>3 DEF Current, Named
      <3> QED BY <1>1, <3>2, <3>3, <3>4, OneHandler
    <2> QED BY <2>1, <2>3, <2>4
  <1> QED BY <1>3, <1>4, <1>5

\* What a commit does: one move of the board, told by one entry.
LEMMA CommitMoves ==
  ASSUME Inv, History, Current, NEW r \in Requests, Commit(r)
  PROVE  /\ req[r].item \in Packets /\ SweepIdle
         /\ \A s \in Requests : InFlight(s) => s = r
         /\ \A p \in Packets : p # req[r].item => rows'[p] = rows[p]
         /\ BoardMove(rows[req[r].item], rows'[req[r].item])
         /\ Tells(rows[req[r].item], rows'[req[r].item], req[r].log)
         /\ rows'[req[r].item].status # NoStatus
  <1>1. req[r].pc = "loaded" /\ req[r].item \in Packets /\ req[r].item \in Existing'
    BY CommitFacts
  <1>2. InFlight(r)
    BY <1>1 DEF InFlight, InFlightPcs
  <1>3. SweepIdle /\ \A s \in Requests : InFlight(s) => s = r
    BY <1>2 DEF Current, OneAtATime
  <1>4. rows \in [Packets -> Row]
    BY DEF Inv, TypeOK
  <1>5. /\ rows'[req[r].item] = Written(req[r].op, rows[req[r].item], req[r].copy, req[r].dirty)
        /\ \A p \in Packets : p # req[r].item => rows'[p] = rows[p]
    BY <1>1, <1>4 DEF Commit, Written
  <1>6. Fits(req[r].op, rows[req[r].item], req[r].copy, req[r].dirty, req[r].log)
    BY <1>1 DEF Current, Fitting
  <1>7. BoardMove(rows[req[r].item], rows'[req[r].item]) /\ Tells(rows[req[r].item], rows'[req[r].item], req[r].log)
    BY <1>5, <1>6 DEF Fits
  <1>8. rows'[req[r].item].status # NoStatus
    BY <1>1 DEF Existing
  <1> QED BY <1>1, <1>3, <1>5, <1>7, <1>8

LEMMA CommitCurrent ==
  ASSUME Inv, Inv', History, Current, NEW r \in Requests, Commit(r)
  PROVE  Fitting' /\ Named' /\ SweepFits' /\ Unborn'
  <1>1. PICK q : q = [req[r] EXCEPT !.pc = "committed", !.copy = NoRow, !.dirty = {}, !.log = NoEntry]
    OBVIOUS
  <1>2. /\ req' = [req EXCEPT ![r] = q] /\ sweep' = sweep
        /\ req \in [Requests -> Request]
    BY <1>1 DEF Commit, Inv, TypeOK
  <1>3. q.pc = "committed" /\ q.op = req[r].op /\ q.agent = req[r].agent
    BY <1>1, <1>2 DEF Request
  <1>4. req'[r] = q /\ \A s \in Requests : s # r => req'[s] = req[s]
    BY <1>2
  <1>5. Fitting'
    <2>1. \A s \in Requests : req'[s].pc # "loaded"
      BY <1>3, <1>4, CommitMoves DEF InFlight, InFlightPcs
    <2> QED BY <2>1 DEF Fitting
  <1>6. Named'
    <2>1. \A s \in Requests : req'[s].op = req[s].op /\ req'[s].agent = req[s].agent
      BY <1>3, <1>4
    <2> QED BY <2>1 DEF Current, Named
  <1>7. SweepFits'
    <2>1. \A p \in Packets : sweep'[p] = NoEntry
      BY <1>2, CommitMoves DEF SweepIdle
    <2> QED BY <2>1 DEF SweepFits
  <1>8. Unborn'
    <2>1. \A p \in Packets : rows'[p].status = NoStatus => rows'[p] = rows[p]
      BY CommitMoves
    <2>2. \A p \in Packets : rows'[p].status = NoStatus => rows'[p].decisions = {}
      BY <2>1 DEF Current, Unborn
    <2> QED BY <2>2 DEF Unborn
  <1> QED BY <1>5, <1>6, <1>7, <1>8

\* What a round of the expiry task does.
LEMMA SweepMoves ==
  ASSUME Inv, Current, SweepCommit, NEW p \in Packets
  PROVE  \/ /\ sweep[p] = NoEntry /\ rows'[p] = rows[p] /\ audit'[p] = audit[p]
         \/ /\ CanTransition(rows[p].status, "expired")
            /\ rows'[p].status = "expired" /\ rows'[p].metadata = rows[p].metadata
            /\ rows'[p].decisions = rows[p].decisions
            /\ sweep[p] \in Entries /\ sweep[p].type = "expired" /\ sweep[p].from = rows[p].status
            /\ audit'[p] = audit[p] \union {sweep[p]}
  <1>1. CASE sweep[p] = NoEntry
    BY <1>1 DEF SweepCommit, Logged
  <1>2. CASE sweep[p] # NoEntry
    <2>1. rows[p] \in Row /\ rows'[p] = [rows[p] EXCEPT !.status = "expired"] /\ sweep[p] \in Entries
      BY <1>2 DEF SweepCommit, Inv, TypeOK
    <2>2. /\ sweep[p].type = "expired" /\ sweep[p].from = rows[p].status
          /\ CanTransition(rows[p].status, "expired")
      BY <1>2 DEF Current, SweepFits
    <2>3. audit'[p] = audit[p] \union {sweep[p]}
      BY <1>2, <2>2 DEF SweepCommit, Logged
    <2>4. /\ rows'[p].status = "expired" /\ rows'[p].metadata = rows[p].metadata
          /\ rows'[p].decisions = rows[p].decisions
      BY <2>1 DEF Row
    <2> QED BY <2>1, <2>2, <2>3, <2>4
  <1> QED BY <1>1, <1>2

LEMMA SweepCurrent ==
  ASSUME Inv, Current, SweepRead \/ SweepCommit \/ SweepFails \/ Crash
  PROVE  Fitting' /\ Named' /\ SweepFits' /\ Unborn'
  <1>1. CASE SweepRead
    <2>1. req' = req /\ rows' = rows
      BY <1>1 DEF SweepRead
    <2>2. Fitting' /\ Named' /\ Unborn'
      BY <2>1 DEF Current, Fitting, Named, Unborn
    <2>3. ASSUME NEW p \in Packets, sweep'[p] # NoEntry
          PROVE  /\ sweep'[p].type = "expired" /\ sweep'[p].from = rows[p].status
                 /\ CanTransition(rows[p].status, "expired")
      <3>1. p \in Due /\ sweep'[p] = Entry("expired", rows[p].status, NoAgent, NoPacket) /\ rows[p] \in Row
        BY <1>1, <2>3 DEF SweepRead, Inv, TypeOK
      <3>2. rows[p].status \in Status \ TerminalStates
        BY <3>1 DEF Due, Exists, IsTerminal, Row
      <3>3. CanTransition(rows[p].status, "expired")
        BY <3>2 DEF CanTransition, ValidTransitions, Status, TerminalStates
      <3> QED BY <3>1, <3>3, EntryFields
    <2>4. SweepFits'
      BY <2>1, <2>3 DEF SweepFits
    <2> QED BY <2>2, <2>4
  <1>2. CASE SweepCommit
    <2>1. req' = req /\ \A p \in Packets : sweep'[p] = NoEntry
      BY <1>2 DEF SweepCommit
    <2>2. \A s \in Requests : ~InFlight(s)
      BY <1>2 DEF SweepCommit, Current, OneAtATime
    <2>3. Fitting'
      BY <2>1, <2>2 DEF Fitting, InFlight, InFlightPcs
    <2>4. Named' /\ SweepFits'
      BY <2>1 DEF Current, Named, SweepFits
    <2>5. \A p \in Packets : rows'[p].status = NoStatus => rows'[p].decisions = {}
      <3>1. ASSUME NEW p \in Packets, rows'[p].status = NoStatus PROVE rows'[p].decisions = {}
        <4>1. rows'[p] = rows[p]
          BY <1>2, <3>1, SweepMoves DEF NoStatus
        <4> QED BY <3>1, <4>1 DEF Current, Unborn
      <3> QED BY <3>1
    <2>6. Unborn'
      BY <2>5 DEF Unborn
    <2> QED BY <2>3, <2>4, <2>6
  <1>3. CASE SweepFails
    <2>1. req' = req /\ rows' = rows /\ \A p \in Packets : sweep'[p] = NoEntry
      BY <1>3 DEF SweepFails
    <2> QED BY <2>1 DEF Current, Fitting, Named, SweepFits, Unborn
  <1>4. CASE Crash
    <2>1. rows' = rows /\ \A p \in Packets : sweep'[p] = NoEntry
      BY <1>4 DEF Crash
    <2>2. \A s \in Requests : /\ req'[s].pc = "lost" \/ (req'[s] = req[s] /\ ~InFlight(s))
                              /\ req'[s].op = req[s].op /\ req'[s].agent = req[s].agent
      BY <1>4 DEF Crash, Fresh
    <2>3. Fitting'
      BY <2>2 DEF Fitting, InFlight, InFlightPcs
    <2>4. Named' /\ SweepFits' /\ Unborn'
      BY <2>1, <2>2 DEF Current, Named, SweepFits, Unborn
    <2> QED BY <2>3, <2>4
  <1> QED BY <1>1, <1>2, <1>3, <1>4

LEMMA CurrentStep ==
  Inv /\ Inv' /\ History /\ Current /\ [Next /\ OneAtATime']_vars => Current'
  <1> SUFFICES ASSUME Inv, Inv', History, Current, [Next /\ OneAtATime']_vars PROVE Current'
    OBVIOUS
  <1>1. CASE UNCHANGED vars
    <2>1. rows' = rows /\ req' = req /\ sweep' = sweep
      BY <1>1 DEF vars
    <2>2. (Fitting /\ SweepFits /\ Named /\ Unborn)'
      BY <2>1 DEF Current, Fitting, SweepFits, Named, Unborn
    <2>3. OneAtATime'
      BY <2>1 DEF Current, OneAtATime, InFlight, SweepIdle
    <2> QED BY <2>2, <2>3 DEF Current
  <1>2. CASE Next /\ OneAtATime'
    <2> SUFFICES Fitting' /\ Named' /\ SweepFits' /\ Unborn'
      BY <1>2 DEF Current
    <2>1. UNCHANGED <<rows, sweep>> => SweepFits' /\ Unborn'
      BY DEF Current, SweepFits, Unborn
    <2>2. ASSUME NEW r \in Requests, Begin(r) PROVE Fitting' /\ Named' /\ SweepFits' /\ Unborn'
      BY <2>1, <2>2, BeginFits DEF Begin
    <2>3. ASSUME NEW r \in Requests, NEW p \in Packets, Read(r, p)
          PROVE  Fitting' /\ Named' /\ SweepFits' /\ Unborn'
      <3>1. UNCHANGED <<rows, sweep>>
        BY <2>3, ReadOutcome DEF Inv
      <3> QED BY <2>1, <2>3, <3>1, ReadingFits
    <2>4. ASSUME NEW r \in Requests, Commit(r) PROVE Fitting' /\ Named' /\ SweepFits' /\ Unborn'
      BY <2>4, CommitCurrent
    <2>5. ASSUME NEW r \in Requests, Refresh(r) \/ Publish(r) \/ CommitFails(r) \/ RefreshFails(r)
          PROVE  Fitting' /\ Named' /\ SweepFits' /\ Unborn'
      <3>1. UNCHANGED <<rows, sweep>>
        BY <2>5 DEF Refresh, Publish, CommitFails, RefreshFails
      <3> QED BY <2>1, <2>5, <3>1, LaterFits
    <2>6. ASSUME NEW p \in Packets, Age(p) PROVE Fitting' /\ Named' /\ SweepFits' /\ Unborn'
      <3>1. rows' = rows /\ req' = req /\ sweep' = sweep
        BY <2>6 DEF Age
      <3> QED BY <3>1 DEF Current, Fitting, SweepFits, Named, Unborn
    <2>7. CASE SweepRead \/ SweepCommit \/ SweepFails \/ Crash
      BY <2>7, SweepCurrent
    <2> QED BY <1>2, <2>2, <2>3, <2>4, <2>5, <2>6, <2>7 DEF Next
  <1> QED BY <1>1, <1>2

-----------------------------------------------------------------------------
(* The trail of one packet *)

LEMMA LedgerSameStatus ==
  ASSUME NEW row, NEW other, row.status = other.status, NEW trail, Ledger(row, trail)
  PROVE  Ledger(other, trail)
  BY DEF Ledger, Settled, Shows

\* What holds of a trail holds with one newer entry that names the status of the row, that
\* claims only what can be claimed, and that leads to the new status.
Newer(e, trail) == \A d \in trail : d.at < e.at

LEMMA PreviousNamedOn ==
  ASSUME NEW row, NEW trail \in SUBSET Entries, NEW e \in Entries, Newer(e, trail), PreviousNamed(trail),
         NamesPrevious(e) => e.from = row.status /\ Shows(row, trail)
  PROVE  PreviousNamed(trail \union {e})
  <1>1. \A d \in trail \union {e} : d.at \in Nat
    BY DEF Entries
  <1>2. ASSUME NEW x \in trail, NamesPrevious(x)
        PROVE  \E d \in trail \union {e} : Newest(d, trail \union {e}, x.at) /\ x.from \in StatusesAfter(d)
    <2>1. PICK d \in trail : Newest(d, trail, x.at) /\ x.from \in StatusesAfter(d)
      BY <1>2 DEF PreviousNamed
    <2>2. Newest(d, trail \union {e}, x.at)
      BY <1>1, <2>1 DEF Newest, Newer
    <2> QED BY <2>1, <2>2
  <1>3. ASSUME NamesPrevious(e)
        PROVE  \E d \in trail \union {e} : Newest(d, trail \union {e}, e.at) /\ e.from \in StatusesAfter(d)
    <2>1. PICK d : Last(d, trail) /\ e.from \in StatusesAfter(d)
      BY <1>3 DEF Shows
    <2>2. Newest(d, trail \union {e}, e.at)
      BY <1>1, <2>1 DEF Newest, Newer, Last
    <2> QED BY <2>1, <2>2 DEF Last
  <1> QED BY <1>2, <1>3 DEF PreviousNamed

LEMMA ClaimsApartOn ==
  ASSUME NEW row, NEW trail \in SUBSET Entries, NEW e \in Entries, Newer(e, trail), ClaimsApart(trail),
         Settled(row, trail), IsClaim(e) => row.status \in {"created", "awaiting_human"}
  PROVE  ClaimsApart(trail \union {e})
  <1>1. \A d \in trail \union {e} : d.at \in Nat
    BY DEF Entries
  <1> SUFFICES ASSUME NEW d \in trail \union {e}, NEW x \in trail \union {e},
                      d.at < x.at, IsClaim(d), IsClaim(x)
               PROVE  \E c \in trail \union {e} : d.at < c.at /\ c.at < x.at /\ c.type = "awaiting_human"
    BY DEF ClaimsApart
  <1>2. d \in trail
    BY <1>1 DEF Newer
  <1>3. CASE x \in trail
    BY <1>2, <1>3 DEF ClaimsApart
  <1>4. CASE x = e
    <2>1. PICK c \in trail : d.at < c.at /\ c.type = "awaiting_human"
      BY <1>2, <1>4 DEF Settled
    <2> QED BY <1>4, <2>1 DEF Newer
  <1> QED BY <1>3, <1>4

LEMMA SettledOn ==
  ASSUME NEW row, NEW new, NEW trail \in SUBSET Entries, NEW e \in Entries, Newer(e, trail), Settled(row, trail),
         IsClaim(e) => new.status \notin {"created", "awaiting_human", NoStatus},
         row.status \notin {"created", "awaiting_human", NoStatus} /\ e.type # "awaiting_human" =>
           new.status \notin {"created", "awaiting_human", NoStatus}
  PROVE  Settled(new, trail \union {e})
  <1> SUFFICES ASSUME NEW d \in trail \union {e}, IsClaim(d),
                      \A c \in trail \union {e} : d.at < c.at => c.type # "awaiting_human"
               PROVE  new.status \notin {"created", "awaiting_human", NoStatus}
    BY DEF Settled
  <1>1. CASE d = e
    BY <1>1
  <1>2. CASE d \in trail
    <2>1. e.type # "awaiting_human"
      BY <1>2 DEF Newer
    <2>2. row.status \notin {"created", "awaiting_human", NoStatus}
      BY <1>2 DEF Settled
    <2> QED BY <2>1, <2>2
  <1> QED BY <1>1, <1>2

LEMMA LedgerOn ==
  ASSUME NEW row, NEW new, NEW trail \in SUBSET Entries, NEW e \in Entries, Newer(e, trail),
         Ledger(row, trail), Tells(row, new, e)
  PROVE  Ledger(new, trail \union {e})
  <1>1. e # NoEntry /\ e.type \in EntryTypes /\ e.at \in Nat
    BY NoEntryFields DEF Entries, EntryTypes, Status, NoStatus
  <1>2. /\ NamesPrevious(e) => e.from = row.status
        /\ IsClaim(e) => row.status \in {"created", "awaiting_human"}
        /\ e.type # "chained" /\ new.status \in StatusesAfter(e)
        /\ e.type = "created" <=> row.status = NoStatus
    BY <1>1 DEF Tells
  <1>3. NamesPrevious(e) => e.from = row.status /\ Shows(row, trail)
    BY <1>2 DEF NamesPrevious, Ledger
  <1>4. e.type \notin {"created", "awaiting_human"} => new.status \notin {"created", "awaiting_human", NoStatus}
    BY <1>1, <1>2 DEF StatusesAfter, EntryTypes, Status, NoStatus
  <1>5. Settled(new, trail \union {e})
    BY <1>2, <1>4, SettledOn DEF Ledger, IsClaim
  <1>6. PreviousNamed(trail \union {e})
    BY <1>3, PreviousNamedOn DEF Ledger
  <1>7. ClaimsApart(trail \union {e})
    BY <1>2, ClaimsApartOn DEF Ledger
  <1>8. Shows(new, trail \union {e})
    <2>1. \A d \in trail : d.at \in Nat
      BY DEF Entries
    <2>2. Last(e, trail \union {e})
      BY <1>1, <1>2, <2>1 DEF Last, Newer
    <2> QED BY <1>2, <2>2 DEF Shows
  <1> QED BY <1>5, <1>6, <1>7, <1>8 DEF Ledger

\* An entry about chaining changes nothing.
LEMMA LedgerOnChaining ==
  ASSUME NEW row, NEW trail \in SUBSET Entries, NEW e \in Entries, Newer(e, trail), Ledger(row, trail),
         e.type = "chained", e.from = NoStatus
  PROVE  Ledger(row, trail \union {e})
  <1>1. ~IsClaim(e) /\ ~NamesPrevious(e)
    BY DEF IsClaim, NamesPrevious
  <1>2. Settled(row, trail \union {e})
    BY <1>1, SettledOn DEF Ledger
  <1>3. PreviousNamed(trail \union {e})
    BY <1>1, PreviousNamedOn DEF Ledger
  <1>4. ClaimsApart(trail \union {e})
    BY <1>1, ClaimsApartOn DEF Ledger
  <1>5. row.status # NoStatus => Shows(row, trail \union {e})
    BY DEF Ledger, Shows, Last
  <1> QED BY <1>2, <1>3, <1>4, <1>5 DEF Ledger

-----------------------------------------------------------------------------
(* The trails of all packets *)

LEMMA CommitRecorded ==
  ASSUME Inv, History, Current, Recorded, Dated, NEW r \in Requests, Commit(r)
  PROVE  Recorded'
  <1>1. PICK q \in Request : q = req[r]
    BY DEF Inv, TypeOK
  <1>2. /\ q.item \in Packets /\ q.log \in Entries \union {NoEntry} /\ audit \in [Packets -> SUBSET Entries]
        /\ audit' = [x \in Packets |-> Trail(q, x)]
    BY <1>1, CommitFacts
  <1>3. /\ \A p \in Packets : p # q.item => rows'[p] = rows[p]
        /\ Tells(rows[q.item], rows'[q.item], q.log)
    BY <1>1, CommitMoves
  <1>4. q.log # NoEntry => \A p \in Packets : Newer(q.log, audit[p])
    <2>1. q.pc = "loaded"
      BY <1>1, CommitFacts
    <2> QED BY <1>1, <2>1 DEF Dated, Stamped, Newer
  <1>5. PICK link : link = EntryAt("chained", NoStatus, NoAgent, q.item, q.log.at)
    OBVIOUS
  <1>6. /\ link.type = "chained" /\ link.from = NoStatus /\ link.at = q.log.at
        /\ q.log # NoEntry => link \in Entries
    <2>1. q.log # NoEntry => q.log.at \in Nat
      BY <1>2 DEF Entries
    <2>2. q.log # NoEntry => link \in Entries
      BY <1>2, <1>5, <2>1, EntryAtType DEF EntryTypes
    <2> QED BY <1>5, <2>2 DEF EntryAt
  <1>7. q.op = "chain" => q.log # NoEntry
    <2>1. Prepared(q.op, q.copy, q.dirty, q.log)
      BY <1>1, CommitFacts
    <2> QED BY <2>1, NoEntryFields DEF Prepared, CreateOps, NoStatus
  <1>8. ASSUME NEW p \in Packets PROVE Ledger(rows'[p], audit'[p])
    <2>1. audit[p] \in SUBSET Entries /\ Ledger(rows[p], audit[p])
      BY <1>2 DEF Recorded
    <2>2. CASE p # q.item /\ q.op = "chain" /\ p = q.copy.parent
      <3>1. audit'[p] = audit[p] \union {link}
        BY <1>2, <1>5, <2>2 DEF Trail
      <3>2. link \in Entries /\ Newer(link, audit[p])
        BY <1>4, <1>6, <1>7, <2>2 DEF Newer
      <3>3. Ledger(rows[p], audit[p] \union {link})
        BY <1>6, <2>1, <3>2, LedgerOnChaining
      <3> QED BY <1>3, <2>2, <3>1, <3>3
    <2>3. CASE p # q.item /\ ~(q.op = "chain" /\ p = q.copy.parent)
      <3>1. audit'[p] = audit[p]
        BY <1>2, <2>3 DEF Trail
      <3> QED BY <1>3, <2>1, <2>3, <3>1
    <2>4. CASE p = q.item /\ q.log = NoEntry
      <3>1. audit'[p] = audit[p]
        BY <1>2, <2>4 DEF Trail, Logged
      <3>2. rows'[p].status = rows[p].status
        <4>1. rows'[p].status # NoStatus
          BY <1>1, <2>4, CommitMoves
        <4>2. NoEntry.type # "created" /\ StatusesAfter(NoEntry) = {NoStatus}
          BY NoEntryFields DEF StatusesAfter, NoStatus
        <4> QED BY <1>3, <2>4, <4>1, <4>2 DEF Tells
      <3> QED BY <2>1, <3>1, <3>2, LedgerSameStatus
    <2>5. CASE p = q.item /\ q.log # NoEntry
      <3>1. audit'[p] = audit[p] \union {q.log} /\ q.log \in Entries
        BY <1>2, <2>5 DEF Trail, Logged
      <3>2. Tells(rows[p], rows'[p], q.log) /\ Newer(q.log, audit[p])
        BY <1>3, <1>4, <2>5
      <3>3. PICK e \in Entries : e = q.log
        BY <3>1
      <3>4. Ledger(rows'[p], audit[p] \union {e})
        BY <2>1, <3>2, <3>3, LedgerOn
      <3> QED BY <3>1, <3>3, <3>4
    <2> QED BY <2>2, <2>3, <2>4, <2>5
  <1>9. \A p \in Packets : Ledger(rows'[p], audit'[p])
    BY <1>8
  <1> QED BY <1>9 DEF Recorded

LEMMA SweepRecorded ==
  ASSUME Inv, Current, Recorded, Dated, SweepCommit
  PROVE  Recorded'
  <1>1. ASSUME NEW p \in Packets PROVE Ledger(rows'[p], audit'[p])
    <2>1. audit[p] \in SUBSET Entries /\ Ledger(rows[p], audit[p])
      BY DEF Inv, TypeOK, Recorded
    <2>2. CASE rows'[p] = rows[p] /\ audit'[p] = audit[p]
      BY <2>1, <2>2
    <2>3. CASE /\ CanTransition(rows[p].status, "expired") /\ rows'[p].status = "expired"
               /\ sweep[p] \in Entries /\ sweep[p].type = "expired" /\ sweep[p].from = rows[p].status
               /\ audit'[p] = audit[p] \union {sweep[p]}
      <3>1. rows[p].status # NoStatus
        BY <2>3 DEF CanTransition, Status, NoStatus
      <3>2. PICK e \in Entries : e = sweep[p]
        BY <2>3
      <3>3. sweep[p] # NoEntry
        BY <2>3, NoEntryFields DEF NoStatus
      <3>4. Newer(e, audit[p])
        BY <3>2, <3>3 DEF Dated, Stamped, Newer
      <3>5. Tells(rows[p], rows'[p], e)
        BY <2>3, <3>1, <3>2 DEF Tells, IsClaim, StatusesAfter
      <3>6. Ledger(rows'[p], audit[p] \union {e})
        BY <2>1, <3>4, <3>5, LedgerOn
      <3> QED BY <2>3, <3>2, <3>6
    <2> QED BY <2>2, <2>3, SweepMoves
  <1>2. \A p \in Packets : Ledger(rows'[p], audit'[p])
    BY <1>1
  <1> QED BY <1>2 DEF Recorded

\* Only the two kinds of commit touch the table and the trails.
LEMMA WritersOnly ==
  ASSUME Inv, Next
  PROVE  \/ UNCHANGED <<rows, audit>> \/ SweepCommit \/ \E r \in Requests : Commit(r)
  <1>1. ASSUME NEW r \in Requests, NEW p \in Packets, Read(r, p) PROVE UNCHANGED <<rows, audit>>
    BY <1>1, ReadOutcome DEF Inv
  <1>2. ASSUME NEW r \in Requests,
               Begin(r) \/ Refresh(r) \/ Publish(r) \/ CommitFails(r) \/ RefreshFails(r)
        PROVE  UNCHANGED <<rows, audit>>
    BY <1>2 DEF Begin, Refresh, Publish, CommitFails, RefreshFails
  <1>3. ASSUME NEW p \in Packets, Age(p) PROVE UNCHANGED <<rows, audit>>
    BY <1>3 DEF Age
  <1>4. SweepRead \/ SweepFails \/ Crash => UNCHANGED <<rows, audit>>
    BY DEF SweepRead, SweepFails, Crash
  <1> QED BY <1>1, <1>2, <1>3, <1>4 DEF Next

LEMMA RecordedStep ==
  Inv /\ History /\ Current /\ Recorded /\ Dated /\ [Next /\ OneAtATime']_vars => Recorded'
  <1> SUFFICES ASSUME Inv, History, Current, Recorded, Dated, [Next /\ OneAtATime']_vars PROVE Recorded'
    OBVIOUS
  <1>1. CASE UNCHANGED <<rows, audit>>
    <2>1. \A p \in Packets : Ledger(rows'[p], audit'[p])
      BY <1>1 DEF Recorded
    <2> QED BY <2>1 DEF Recorded
  <1>2. CASE SweepCommit
    BY <1>2, SweepRecorded
  <1>3. CASE \E r \in Requests : Commit(r)
    BY <1>3, CommitRecorded
  <1>4. UNCHANGED vars => UNCHANGED <<rows, audit>>
    BY DEF vars
  <1> QED BY <1>1, <1>2, <1>3, <1>4, WritersOnly

-----------------------------------------------------------------------------
(* The stamps *)

\* A handler stamps its entry with the time it makes it at.
LEMMA ReadStamps ==
  ASSUME NEW r \in Requests, NEW p \in Packets, Read(r, p)
  PROVE  \/ Reject(r, p)
         \/ \E copy, dirty, log, event :
              Load(r, p, copy, dirty, log, event) /\ (log # NoEntry => log.at = clock + 1)
  <1>1. CASE PrepareCreate(r, p)
    BY <1>1, EntryFields DEF PrepareCreate
  <1>2. CASE ReadChain(r, p)
    BY <1>2, EntryFields DEF ReadChain
  <1>3. CASE ReadClaim(r, p)
    BY <1>3, EntryFields DEF ReadClaim
  <1>4. CASE ReadComplete(r, p)
    BY <1>4, EntryFields DEF ReadComplete
  <1>5. CASE ReadPatch(r, p)
    <2>1. \A row, body : PatchEntry(row, body) # NoEntry => PatchEntry(row, body).at = clock + 1
      BY EntryFields DEF PatchEntry
    <2>2. PICK body \in Patches :
            \/ Reject(r, p)
            \/ \E copy, dirty, event : Load(r, p, copy, dirty, PatchEntry(rows[p], body), event)
      BY <1>5 DEF ReadPatch
    <2> QED BY <2>1, <2>2
  <1>6. CASE ReadDelete(r, p)
    BY <1>6, EntryFields DEF ReadDelete, Deleted
  <1>7. CASE ReadRespond(r, p)
    BY <1>7, EntryFields DEF ReadRespond
  <1> QED BY <1>1, <1>2, <1>3, <1>4, <1>5, <1>6, <1>7 DEF Read

\* Steps that leave the trails, the time and the expiry task alone and load no handler.
LEMMA DatedStill ==
  ASSUME Dated, UNCHANGED <<audit, clock>>,
         \A p \in Packets : sweep'[p] = sweep[p] \/ sweep'[p] = NoEntry,
         \A r \in Requests : req'[r].pc # "loaded" \/ req'[r] = req[r]
  PROVE  Dated'
  <1>1. audit' = audit /\ clock' = clock
    OBVIOUS
  <1>2. \A r \in Requests :
          req'[r].pc = "loaded" /\ req'[r].log # NoEntry => Stamped(req'[r].log, audit, clock)
    BY DEF Dated
  <1>3. \A p \in Packets : sweep'[p] # NoEntry => Stamped(sweep'[p], audit, clock)
    BY DEF Dated
  <1> QED BY <1>1, <1>2, <1>3 DEF Dated, Stamped

LEMMA ReadDated ==
  ASSUME Inv, Inv', Current, Dated, NEW r \in Requests, NEW p \in Packets, Read(r, p)
  PROVE  Dated'
  <1>1. /\ TypeOK /\ req[r].pc = "next" /\ UNCHANGED <<audit, sweep>> /\ req[r] \in Request
    BY ReadOutcome DEF Inv, TypeOK
  <1>2. SweepIdle /\ \A s \in Requests : s # r => req[s].pc # "loaded"
    BY <1>1 DEF Current, OneAtATime, InFlight, InFlightPcs
  <1>3. CASE Reject(r, p)
    <2>1. req' = [req EXCEPT ![r] = Ended(req[r], p, FALSE)] /\ clock' = clock
      BY <1>3 DEF Reject
    <2>2. PICK q : q = Ended(req[r], p, FALSE)
      OBVIOUS
    <2>3. q.pc # "loaded"
      BY <1>1, <2>2, EndedFields DEF Finished
    <2>4. \A s \in Requests : req'[s].pc # "loaded" \/ req'[s] = req[s]
      BY <1>1, <2>1, <2>2, <2>3 DEF TypeOK
    <2> QED BY <1>1, <2>1, <2>4, DatedStill
  <1>4. ASSUME NEW copy, NEW dirty, NEW log, NEW event,
               Load(r, p, copy, dirty, log, event), log # NoEntry => log.at = clock + 1
        PROVE  Dated'
    <2>1. PICK q : q = Holding(req[r], p, copy, dirty, log, event)
      OBVIOUS
    <2>2. q.log = log
      BY <1>1, <2>1 DEF Holding, Request
    <2>3. req'[r] = q /\ \A s \in Requests : s # r => req'[s].pc # "loaded"
      BY <1>1, <1>2, <1>4, <2>1 DEF Load, TypeOK
    <2>4. /\ clock \in Nat /\ clock' = IF log = NoEntry THEN clock ELSE clock + 1
          /\ \A x \in Packets : \A d \in audit[x] : d.at \in Nat /\ d.at <= clock
      BY <1>1, <1>4 DEF Load, TypeOK, Entries, Dated
    <2>5. /\ audit' = audit
          /\ \A x \in Packets : sweep'[x] = NoEntry
      BY <1>1, <1>2 DEF SweepIdle
    <2>6. \A x \in Packets : \A d \in audit'[x] : d.at <= clock'
      BY <2>4, <2>5
    <2>7. log # NoEntry => Stamped(log, audit', clock')
      BY <1>4, <2>4, <2>5 DEF Stamped
    <2>8. \A s \in Requests :
            req'[s].pc = "loaded" /\ req'[s].log # NoEntry => Stamped(req'[s].log, audit', clock')
      BY <2>2, <2>3, <2>7
    <2> QED BY <2>5, <2>6, <2>8 DEF Dated, Stamped
  <1> QED BY <1>3, <1>4, ReadStamps

LEMMA CommitDated ==
  ASSUME Inv, History, Current, Dated, NEW r \in Requests, Commit(r)
  PROVE  Dated'
  <1>1. PICK q \in Request : q = req[r]
    BY DEF Inv, TypeOK
  <1>2. /\ q.pc = "loaded" /\ audit' = [x \in Packets |-> Trail(q, x)] /\ clock' = clock /\ sweep' = sweep
        /\ Prepared(q.op, q.copy, q.dirty, q.log) /\ clock \in Nat
    BY <1>1, CommitFacts DEF Commit, Inv, TypeOK
  <1>3. q.log # NoEntry => q.log.at = clock
    BY <1>1, <1>2 DEF Dated, Stamped
  <1>4. q.op = "chain" => q.log # NoEntry
    BY <1>2, NoEntryFields DEF Prepared, CreateOps, NoStatus
  <1>5. PICK link : link = EntryAt("chained", NoStatus, NoAgent, q.item, q.log.at)
    OBVIOUS
  <1>6. link.at = q.log.at
    BY <1>5 DEF EntryAt
  <1>7. ASSUME NEW x \in Packets, NEW d \in audit'[x]
        PROVE  d.at <= clock
    <2>1. d \in audit[x] \/ (d = q.log /\ q.log # NoEntry) \/ (d = link /\ q.op = "chain")
      BY <1>2, <1>5, <1>7 DEF Trail, Logged
    <2> QED BY <1>2, <1>3, <1>4, <1>6, <2>1 DEF Dated
  <1>8. \A s \in Requests : req'[s].pc # "loaded"
    <2>1. ASSUME NEW s \in Requests, s # r
          PROVE  req'[s] = req[s] /\ req[s].pc # "loaded"
      <3>1. ~InFlight(s)
        BY <2>1, CommitMoves
      <3>2. req'[s] = req[s]
        BY <2>1 DEF Commit, Inv, TypeOK
      <3> QED BY <3>1, <3>2 DEF InFlight, InFlightPcs
    <2>2. req'[r].pc = "committed"
      BY DEF Commit, Inv, TypeOK, Request
    <2> QED BY <2>1, <2>2
  <1>9. \A x \in Packets : sweep'[x] = NoEntry
    BY <1>2, CommitMoves DEF SweepIdle
  <1> QED BY <1>2, <1>7, <1>8, <1>9 DEF Dated

LEMMA SweepDated ==
  ASSUME Inv, Current, Dated, OneAtATime', SweepRead \/ SweepCommit
  PROVE  Dated'
  <1>1. clock \in Nat /\ \A x \in Packets : \A d \in audit[x] : d.at \in Nat /\ d.at <= clock
    BY DEF Inv, TypeOK, Entries, Dated
  <1>2. CASE SweepRead
    <2>1. audit' = audit /\ req' = req /\ clock' = clock + 1
      BY <1>2 DEF SweepRead
    <2>2. \A x \in Packets : sweep'[x] # NoEntry => sweep'[x].at = clock'
      BY <1>2, <2>1, EntryFields DEF SweepRead
    <2>3. ~SweepIdle'
      <3>1. PICK x \in Due : sweep'[x] = Entry("expired", rows[x].status, NoAgent, NoPacket) /\ x \in Packets
        BY <1>2 DEF SweepRead, Due, Inv, TypeOK
      <3>2. sweep'[x] # NoEntry
        BY <3>1, EntryFields, NoEntryFields DEF NoStatus
      <3> QED BY <3>1, <3>2 DEF SweepIdle
    <2>4. \A s \in Requests : req'[s].pc # "loaded"
      BY <2>1, <2>3 DEF OneAtATime, InFlight, InFlightPcs
    <2>5. \A x \in Packets : \A d \in audit'[x] : d.at <= clock' /\ d.at < clock'
      BY <1>1, <2>1
    <2> QED BY <2>2, <2>4, <2>5 DEF Dated, Stamped
  <1>3. CASE SweepCommit
    <2>1. req' = req /\ clock' = clock /\ \A x \in Packets : sweep'[x] = NoEntry
      BY <1>3 DEF SweepCommit
    <2>2. \A s \in Requests : req[s].pc # "loaded"
      BY <1>3 DEF SweepCommit, Current, OneAtATime, InFlight, InFlightPcs
    <2>3. ASSUME NEW x \in Packets, NEW d \in audit'[x]
          PROVE  d.at <= clock
      <3>1. d \in audit[x] \/ (d = sweep[x] /\ sweep[x] # NoEntry)
        BY <1>3, <2>3 DEF SweepCommit, Logged
      <3>2. sweep[x] # NoEntry => sweep[x].at = clock
        BY DEF Dated, Stamped
      <3> QED BY <1>1, <3>1, <3>2
    <2> QED BY <2>1, <2>2, <2>3 DEF Dated
  <1> QED BY <1>2, <1>3

LEMMA LaterDated ==
  ASSUME Inv, Inv', Dated, NEW r \in Requests,
         Begin(r) \/ Refresh(r) \/ Publish(r) \/ CommitFails(r) \/ RefreshFails(r)
  PROVE  Dated'
  <1>1. /\ UNCHANGED <<audit, clock, sweep>> /\ req \in [Requests -> Request]
        /\ \A s \in Requests : s # r => req'[s] = req[s]
    BY DEF Begin, Refresh, Publish, CommitFails, RefreshFails, Reject, Inv, TypeOK
  <1>2. PICK old \in Request : old = req[r]
    BY <1>1
  <1>3. req'[r].pc # "loaded"
    <2>1. CASE Begin(r)
      <3>1. PICK op, a, ps : req' = [req EXCEPT ![r] = [@ EXCEPT !.pc = "next", !.op = op,
                                                                !.agent = a, !.todo = ps]]
        BY <2>1 DEF Begin
      <3>2. [old EXCEPT !.pc = "next", !.op = op, !.agent = a, !.todo = ps].pc = "next"
        BY DEF Request
      <3> QED BY <1>1, <1>2, <3>1, <3>2
    <2>2. CASE Refresh(r)
      BY <1>1, <2>2 DEF Refresh, Request
    <2>3. CASE Publish(r) \/ Reject(r, req[r].item)
      <3>1. \E good \in BOOLEAN : req'[r] = Ended(old, old.item, good)
        BY <1>1, <1>2, <2>3 DEF Publish, Reject
      <3>2. \A good \in BOOLEAN : Ended(old, old.item, good).pc \in {"done", "next"}
        BY DEF Ended, Request
      <3> QED BY <3>1, <3>2
    <2>4. CASE req' = [req EXCEPT ![r] = Broken(req[r])]
      <3>1. req'[r] = Broken(old)
        BY <1>1, <1>2, <2>4
      <3>2. Broken(old).pc \in {"done", "next"}
        BY DEF Broken, Ended, Request
      <3> QED BY <3>1, <3>2
    <2> QED BY <2>1, <2>2, <2>3, <2>4 DEF CommitFails, RefreshFails
  <1> QED BY <1>1, <1>3, DatedStill

LEMMA DatedStep ==
  Inv /\ Inv' /\ History /\ Current /\ Dated /\ [Next /\ OneAtATime']_vars => Dated'
  <1> SUFFICES ASSUME Inv, Inv', History, Current, Dated, [Next /\ OneAtATime']_vars PROVE Dated'
    OBVIOUS
  <1>1. CASE UNCHANGED vars
    BY <1>1, DatedStill DEF vars
  <1>2. ASSUME NEW r \in Requests, NEW p \in Packets, Read(r, p) PROVE Dated'
    BY <1>2, ReadDated
  <1>3. ASSUME NEW r \in Requests, Commit(r) PROVE Dated'
    BY <1>3, CommitDated
  <1>4. ASSUME NEW r \in Requests,
               Begin(r) \/ Refresh(r) \/ Publish(r) \/ CommitFails(r) \/ RefreshFails(r)
        PROVE  Dated'
    BY <1>4, LaterDated
  <1>5. ASSUME NEW p \in Packets, Age(p) PROVE Dated'
    BY <1>5, DatedStill DEF Age
  <1>6. CASE (SweepRead \/ SweepCommit) /\ OneAtATime'
    BY <1>6, SweepDated
  <1>7. CASE SweepFails
    BY <1>7, DatedStill DEF SweepFails
  <1>8. CASE Crash
    <2>1. UNCHANGED <<audit, clock>> /\ \A p \in Packets : sweep'[p] = NoEntry
      BY <1>8 DEF Crash
    <2>2. \A s \in Requests : req'[s].pc = "lost" \/ req'[s] = req[s]
      BY <1>8 DEF Crash, Fresh
    <2> QED BY <2>1, <2>2, DatedStill
  <1> QED BY <1>1, <1>2, <1>3, <1>4, <1>5, <1>6, <1>7, <1>8 DEF Next

-----------------------------------------------------------------------------
(* The invariant *)

\* What the seeded packets have been through is in order.
LEMMA SeedLedger ==
  ASSUME NEW row \in SeedRows
  PROVE  Ledger(row, SeedTrail(row)) /\ row.decisions = {}
  <1>1. PICK st \in Stages, a \in Agents, h \in {NoHitl} \union Questions : row = SeedRow(st, a, h)
    BY DEF SeedRows
  <1>2. /\ row.status = st /\ row.metadata.claimedAt = (st \in {"claimed", "in_progress"})
        /\ row.metadata.target = a /\ row.decisions = {}
    BY <1>1 DEF SeedRow, NewRow
  <1>3. st \in {"created", "awaiting_human", "claimed", "in_progress"}
    BY ConstantsAssumption
  <1>4. PICK c, k, w : /\ c = EntryAt("created", NoStatus, NoAgent, NoPacket, 1)
                       /\ k = EntryAt("claimed", NoStatus, a, NoPacket, 2)
                       /\ w = EntryAt("in_progress", "claimed", a, NoPacket, 3)
    OBVIOUS
  <1>5. /\ c.type = "created" /\ c.from = NoStatus /\ c.at = 1
        /\ k.type = "claimed" /\ k.from = NoStatus /\ k.at = 2
        /\ w.type = "in_progress" /\ w.from = "claimed" /\ w.at = 3
    BY <1>4 DEF EntryAt
  <1>6. /\ ~NamesPrevious(c) /\ ~NamesPrevious(k) /\ NoStatus = "none"
        /\ ~IsClaim(c) /\ ~IsClaim(w)
        /\ StatusesAfter(c) = {"created", "awaiting_human"} /\ StatusesAfter(k) = {"claimed"}
        /\ StatusesAfter(w) = {"in_progress"}
    BY <1>5 DEF NamesPrevious, IsClaim, StatusesAfter, NoStatus
  <1>7. PICK t : t = SeedTrail(row)
    OBVIOUS
  <1>8. CASE st \in {"created", "awaiting_human"}
    <2>1. t = {c}
      BY <1>2, <1>4, <1>7, <1>8 DEF SeedTrail
    <2>2. Last(c, t)
      BY <1>5, <2>1 DEF Last
    <2> QED BY <1>2, <1>5, <1>6, <1>7, <1>8, <2>1, <2>2 DEF Ledger, Shows, Settled, PreviousNamed, ClaimsApart
  <1>9. CASE st = "claimed"
    <2>1. t = {c, k}
      BY <1>2, <1>4, <1>7, <1>9 DEF SeedTrail
    <2>2. Last(k, t)
      BY <1>5, <2>1 DEF Last
    <2>3. \A d, e \in t : IsClaim(d) /\ IsClaim(e) => d.at = 2 /\ e.at = 2
      BY <1>5, <1>6, <2>1
    <2>4. ClaimsApart(t)
      BY <2>3 DEF ClaimsApart
    <2> QED BY <1>2, <1>5, <1>6, <1>7, <1>9, <2>1, <2>2, <2>4 DEF Ledger, Shows, Settled, PreviousNamed
  <1>10. CASE st = "in_progress"
    <2>1. t = {c, k, w}
      BY <1>2, <1>4, <1>7, <1>10 DEF SeedTrail
    <2>2. Last(w, t) /\ Newest(k, t, 3)
      BY <1>5, <2>1 DEF Last, Newest
    <2>3. \A d, e \in t : IsClaim(d) /\ IsClaim(e) => d.at = 2 /\ e.at = 2
      BY <1>5, <1>6, <2>1
    <2>4. ClaimsApart(t)
      BY <2>3 DEF ClaimsApart
    <2>5. PreviousNamed(t)
      BY <1>5, <1>6, <2>1, <2>2 DEF PreviousNamed
    <2> QED BY <1>2, <1>5, <1>6, <1>7, <1>10, <2>1, <2>2, <2>4, <2>5 DEF Ledger, Shows, Settled
  <1> QED BY <1>2, <1>3, <1>8, <1>9, <1>10

LEMMA InitSerial == Init => Current /\ Recorded /\ Dated
  <1> SUFFICES ASSUME Init PROVE Current /\ Recorded /\ Dated
    OBVIOUS
  <1>1. \A r \in Requests : req[r].pc = "idle" /\ req[r].op = "none"
    BY DEF Init, Fresh
  <1>2. Fitting /\ Named /\ OneAtATime
    BY <1>1 DEF Fitting, Named, OneAtATime, InFlight, InFlightPcs, CreateOps, ClaimOps
  <1>3. SweepFits
    BY DEF Init, SweepFits
  <1>4. \A p \in Packets :
          \/ rows[p] \in SeedRows /\ p \in Seeded /\ audit[p] = SeedTrail(rows[p])
          \/ rows[p] = NoRow /\ p \notin Seeded /\ audit[p] = {}
    <2>1. ASSUME NEW p \in Packets
          PROVE  /\ rows[p] \in SeedRows \union {NoRow}
                 /\ rows[p].status # NoStatus <=> p \in Seeded
                 /\ audit[p] = IF p \in Seeded THEN SeedTrail(rows[p]) ELSE {}
      BY DEF Init, Exists
    <2>2. NoRow.status = NoStatus
      BY DEF NoRow, NewRow
    <2>3. \A row \in SeedRows : row.status \in Stages
      <3>1. \A st, a, h : SeedRow(st, a, h).status = st
        BY DEF SeedRow, NewRow
      <3> QED BY <3>1 DEF SeedRows
    <2>4. NoStatus \notin Stages
      BY ConstantsAssumption DEF NoStatus
    <2> QED BY <2>1, <2>2, <2>3, <2>4
  <1>5. NoRow.status = NoStatus /\ NoRow.decisions = {}
    BY DEF NoRow, NewRow
  <1>6. Unborn
    BY <1>4, <1>5, SeedLedger DEF Unborn
  <1>7. Recorded
    <2>1. Ledger(NoRow, {})
      BY <1>5 DEF Ledger, Settled, PreviousNamed, ClaimsApart
    <2> QED BY <1>4, <2>1, SeedLedger DEF Recorded
  <1>8. Dated
    <2>1. \A row : \A d \in SeedTrail(row) : d.at \in {1, 2, 3}
      BY DEF SeedTrail, EntryAt
    <2>2. \A p \in Packets : \A d \in audit[p] : d.at <= 3
      BY <1>4, <2>1
    <2>3. clock = 3 /\ \A p \in Packets : sweep[p] = NoEntry
      BY DEF Init
    <2> QED BY <1>1, <2>2, <2>3 DEF Dated
  <1> QED BY <1>2, <1>3, <1>6, <1>7, <1>8 DEF Current

LEMMA SerialIsSpec == SerialSpec => Spec
  <1>1. [Next /\ OneAtATime']_vars => [Next]_vars
    OBVIOUS
  <1> QED BY <1>1, PTL DEF SerialSpec, Spec

LEMMA SerialAlways == SerialSpec => [](Inv /\ History /\ Current /\ Recorded /\ Dated)
  <1>1. SerialSpec => []Inv /\ []History
    BY SerialIsSpec, InvAlways, HistoryAlways, PTL
  <1>2. Inv /\ Inv' /\ History /\ (Current /\ Recorded /\ Dated) /\ [Next /\ OneAtATime']_vars
          => (Current /\ Recorded /\ Dated)'
    BY CurrentStep, RecordedStep, DatedStep
  <1>3. Init => Current /\ Recorded /\ Dated
    BY InitSerial
  <1> QED BY <1>1, <1>2, <1>3, PTL DEF SerialSpec

-----------------------------------------------------------------------------
(* The board *)

LEMMA MoveOnBoard ==
  ASSUME Inv, NEW p \in Packets, rows'[p] \in Row, Unborn,
         \A x \in Packets : x # p => rows'[x] = rows[x],
         BoardMove(rows[p], rows'[p])
  PROVE  Board!Next
  <1>1. rows[p] \in Row
    BY DEF Inv, TypeOK
  <1> DEFINE st == [x \in Packets |-> rows[x].status]
             ow == [x \in Packets |-> rows[x].metadata.target]
             de == [x \in Packets |-> rows[x].decisions]
             stn == [x \in Packets |-> rows'[x].status]
             own == [x \in Packets |-> rows'[x].metadata.target]
             den == [x \in Packets |-> rows'[x].decisions]
  <1>2. /\ stn = [st EXCEPT ![p] = rows'[p].status]
        /\ own = [ow EXCEPT ![p] = rows'[p].metadata.target]
        /\ den = [de EXCEPT ![p] = rows'[p].decisions]
    OBVIOUS
  <1>3. st[p] = rows[p].status /\ ow[p] = rows[p].metadata.target /\ de[p] = rows[p].decisions
    OBVIOUS
  <1>4. rows'[p].decisions = rows[p].decisions => den = de
    OBVIOUS
  <1>5. rows'[p].metadata.target = rows[p].metadata.target => own = ow
    OBVIOUS
  <1>6. CASE Adds(rows[p], rows'[p])
    <2>1. rows[p].decisions = {}
      BY <1>6 DEF Adds, Unborn
    <2>2. den = de
      BY <1>4, <1>6, <2>1 DEF Adds
    <2>3. Board!Add(p)
      BY <1>2, <1>3, <1>6, <2>2 DEF Board!Add, Adds
    <2> QED BY <2>3 DEF Board!Next
  <1>7. CASE Claims(rows[p], rows'[p])
    <2>1. PICK a \in Agents : a = rows'[p].metadata.target
      BY <1>7 DEF Claims
    <2>2. den = de
      BY <1>4, <1>7 DEF Claims
    <2>3. Board!CanTransition(st[p], "claimed")
      BY <1>3, <1>7 DEF Claims, Board!CanTransition, CanTransition, Board!ValidTransitions, ValidTransitions,
         Board!Status, Status
    <2>4. Board!Claim(p, a)
      BY <1>2, <1>7, <2>1, <2>2, <2>3 DEF Board!Claim, Claims
    <2> QED BY <2>4 DEF Board!Next
  <1>8. CASE Updates(rows[p], rows'[p])
    <2>1. own = ow
      BY <1>5, <1>8 DEF Updates
    <2>2. PICK more \in SUBSET Requests : rows'[p].decisions = rows[p].decisions \union more
      BY <1>1, <1>8 DEF Updates, Row
    <2>3. PICK to \in Board!Status : to = rows'[p].status
      BY <1>1, <1>8 DEF Updates, Row, Board!Status, Status, CanTransition, ValidTransitions
    <2>4. to = st[p] \/ Board!CanTransition(st[p], to)
      BY <1>3, <1>8, <2>3 DEF Updates, Board!CanTransition, CanTransition, Board!ValidTransitions,
         ValidTransitions, Board!Status, Status
    <2>5. st[p] # NoStatus
      BY <1>3, <1>8 DEF Updates
    <2>6. stn = [st EXCEPT ![p] = to] /\ den = [de EXCEPT ![p] = @ \union more]
      BY <1>2, <1>3, <2>2, <2>3
    <2>7. Board!Update(p)
      BY <2>1, <2>3, <2>4, <2>5, <2>6 DEF Board!Update
    <2> QED BY <2>7 DEF Board!Next
  <1> QED BY <1>6, <1>7, <1>8 DEF BoardMove

LEMMA SweepOnBoard ==
  ASSUME Inv, Current, SweepCommit
  PROVE  Board!Next
  <1>1. PICK ps \in SUBSET Packets : ps = {p \in Packets : sweep[p] # NoEntry}
    OBVIOUS
  <1>2. ASSUME NEW p \in ps
        PROVE  CanTransition(rows[p].status, "expired") /\ rows'[p].status = "expired"
    <2>1. p \in Packets /\ sweep[p] # NoEntry
      BY <1>1
    <2> QED BY <2>1, SweepMoves
  <1>3. ASSUME NEW p \in Packets
        PROVE  /\ rows'[p].metadata.target = rows[p].metadata.target /\ rows'[p].decisions = rows[p].decisions
               /\ p \notin ps => rows'[p].status = rows[p].status
    <2>1. p \notin ps => sweep[p] = NoEntry
      BY <1>1
    <2>2. sweep[p] = NoEntry => rows'[p] = rows[p]
      BY DEF SweepCommit
    <2> QED BY <2>1, <2>2, SweepMoves
  <1>4. [p \in Packets |-> rows'[p].status]
          = [p \in Packets |-> IF p \in ps THEN "expired" ELSE [x \in Packets |-> rows[x].status][p]]
    BY <1>2, <1>3
  <1>5. /\ [p \in Packets |-> rows'[p].metadata.target] = [p \in Packets |-> rows[p].metadata.target]
        /\ [p \in Packets |-> rows'[p].decisions] = [p \in Packets |-> rows[p].decisions]
    BY <1>3
  <1>6. \A p \in ps : Board!CanTransition([x \in Packets |-> rows[x].status][p], "expired")
    BY <1>2 DEF Board!CanTransition, CanTransition, Board!ValidTransitions, ValidTransitions,
       Board!Status, Status
  <1>7. Board!Expire(ps)
    BY <1>4, <1>5, <1>6 DEF Board!Expire
  <1> QED BY <1>7 DEF Board!Next

LEMMA StepOnBoard ==
  Inv /\ Inv' /\ History /\ Current /\ [Next /\ OneAtATime']_vars => [Board!Next]_(Board!board)
  <1> SUFFICES ASSUME Inv, Inv', History, Current, [Next /\ OneAtATime']_vars PROVE [Board!Next]_(Board!board)
    OBVIOUS
  <1>1. CASE UNCHANGED rows
    BY <1>1 DEF Board!board
  <1>2. CASE SweepCommit
    BY <1>2, SweepOnBoard
  <1>3. ASSUME NEW r \in Requests, Commit(r) PROVE Board!Next
    <2>1. PICK p \in Packets : p = req[r].item
      BY <1>3, CommitMoves
    <2>2. BoardMove(rows[p], rows'[p]) /\ \A x \in Packets : x # p => rows'[x] = rows[x]
      BY <1>3, <2>1, CommitMoves
    <2>3. rows'[p] \in Row /\ Unborn
      BY DEF Inv, TypeOK, Current
    <2> QED BY <2>2, <2>3, MoveOnBoard
  <1>4. UNCHANGED vars => UNCHANGED rows
    BY DEF vars
  <1> QED BY <1>1, <1>2, <1>3, <1>4, WritersOnly

LEMMA InitOnBoard == Init => Board!Init
  <1> SUFFICES ASSUME Init PROVE Board!Init
    OBVIOUS
  <1>1. ASSUME NEW p \in Packets
        PROVE  /\ rows[p].status \in {NoStatus, "created", "awaiting_human", "claimed", "in_progress"}
               /\ rows[p].metadata.target \in Agents \union {NoAgent}
               /\ rows[p].metadata.target = NoAgent <=> rows[p].status = NoStatus
               /\ rows[p].decisions = {}
    <2>1. rows[p] \in SeedRows \union {NoRow}
      BY DEF Init
    <2>2. CASE rows[p] = NoRow
      BY <2>2 DEF NoRow, NewRow
    <2>3. CASE rows[p] \in SeedRows
      <3>1. PICK st \in Stages, a \in Agents, h \in {NoHitl} \union Questions :
              rows[p] = SeedRow(st, a, h)
        BY <2>3 DEF SeedRows
      <3>2. /\ rows[p].status = st /\ rows[p].metadata.target = a /\ rows[p].decisions = {}
        BY <3>1 DEF SeedRow, NewRow
      <3>3. a # NoAgent /\ st \in {"created", "awaiting_human", "claimed", "in_progress"}
        BY ConstantsAssumption
      <3> QED BY <3>2, <3>3 DEF NoStatus
    <2> QED BY <2>1, <2>2, <2>3
  <1> QED BY <1>1 DEF Board!Init

-----------------------------------------------------------------------------
(* The theorems *)

\* Calls that do not overlap see the board: every change of a status is a transition of
\* state_machine.py, the owner changes by a claim only, recorded decisions stay, and the
\* expiry task does nothing but expire, although each handler works on its own copy of the row.
THEOREM ImplementsBoard == SerialSpec => IsHandoffBoard
  <1>1. Init => Board!Init
    BY InitOnBoard
  <1>2. SerialSpec => [][Board!Next]_(Board!board)
    <2>1. Inv /\ Inv' /\ History /\ Current /\ [Next /\ OneAtATime']_vars => [Board!Next]_(Board!board)
      BY StepOnBoard
    <2> QED BY <2>1, SerialAlways, PTL DEF SerialSpec
  <1> QED BY <1>1, <1>2, PTL DEF SerialSpec, IsHandoffBoard, Board!Spec

\* Without overlap, the newest entry about a packet's status, in the order of the stamps
\* that the handlers set before they commit, leads to the status of its row, whatever
\* commits, refreshes and rounds of the expiry task fail and whenever the process dies.
THEOREM AuditAgrees == SerialSpec => []AuditAgreesWithRow
  <1>1. Inv /\ Recorded /\ Dated => AuditAgreesWithRow
    <2> SUFFICES ASSUME Inv, Recorded, Dated, NEW p \in Packets, Exists(p)
                 PROVE  Agrees(rows[p], audit[p])
      BY DEF AuditAgreesWithRow
    <2>1. PICK d : Last(d, audit[p]) /\ rows[p].status \in StatusesAfter(d)
      BY DEF Recorded, Ledger, Shows, Exists
    <2>2. clock \in Nat /\ d \in audit[p] /\ d.at \in Nat /\ d.at <= clock
      BY <2>1 DEF Last, Inv, TypeOK, Entries, Dated
    <2>3. Newest(d, audit[p], clock + 1)
      BY <2>1, <2>2 DEF Newest, Last
    <2> QED BY <2>1, <2>2, <2>3 DEF Agrees
  <1> QED BY <1>1, SerialAlways, PTL

\* Without overlap, the previous status that PATCH, delete and the expiry task put into the
\* details of an event is the one the events before it left the packet in.
THEOREM PreviousStatusRecorded == SerialSpec => []FromIsPrevious
  <1>1. Recorded => FromIsPrevious
    BY DEF Recorded, Ledger, PreviousNamed, FromIsPrevious
  <1> QED BY <1>1, SerialAlways, PTL

\* Without overlap, a packet claimed through the claim endpoints is claimed through them again
\* only after somebody has asked a human about it: no two agents hold it at a time.
THEOREM OneHolder == SerialSpec => []ClaimsAreExclusive
  <1>1. Recorded => ClaimsAreExclusive
    BY DEF Recorded, Ledger, ClaimsApart, ClaimsAreExclusive
  <1> QED BY <1>1, SerialAlways, PTL
=============================================================================
