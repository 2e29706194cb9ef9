------------------------ MODULE WebhookDeliveryProofs ------------------------
(***************************************************************************)
(* What the webhook_deliveries table says is true for any number of        *)
(* webhooks, overlapping jobs and failures, on either database; and what   *)
(* holds of it besides when jobs follow each other.                        *)
(***************************************************************************)
EXTENDS WebhookDelivery, TLAPS

\* What a job knows about its item and its lists, given the POSTs made (s), the
\* deliveries accepted (a) and the webhooks (h).
JobKnows(q, s, a, h) ==
  /\ q.pc \in {"reset", "attempts", "post", "record"} =>
       q.item \in Deliveries /\ h[q.item[2]] # "absent"
  /\ q.pc = "post" => q.attempt <= s[q.item] + 1
  /\ q.pc = "record" => q.attempt <= s[q.item] /\ (q.good => q.item \in a)
  /\ \A d \in q.todo : h[d[2]] # "absent"
  /\ \A d \in q.gone : h[d[2]] = "inactive"

RowTells(row, d, s, a, h) ==
  /\ row.attempts <= s[d]
  /\ row.status = "delivered" => d \in a
  /\ row.status = "dead_letter" => row.attempts >= MaxRetries \/ h[d[2]] = "inactive"
  /\ row.status # "absent" => h[d[2]] # "absent"

JobsKnow == \A j \in Jobs : JobKnows(job[j], sent, accepted, hook)
RowsTell == \A d \in Deliveries : RowTells(table[d], d, sent, accepted, hook)

Inv == TypeOK /\ JobsKnow /\ RowsTell

\* POSTs and acceptances are only added, webhooks only go on in their life.
Forward ==
  /\ \A d \in Deliveries : sent'[d] \in Nat /\ sent[d] <= sent'[d]
  /\ accepted \subseteq accepted'
  /\ \A h \in Hooks : /\ hook[h] = "inactive" => hook'[h] = "inactive"
                      /\ hook[h] # "absent" => hook'[h] # "absent"

-----------------------------------------------------------------------------
(* Helpers *)

LEMMA HookOfDelivery ==
  ASSUME NEW d \in Deliveries
  PROVE  d[2] \in Hooks
  BY DEF Deliveries

LEMMA FreshType == Fresh \in Job
  BY DEF Fresh, Job, BusyPcs

LEMMA EndedKnows ==
  /\ Ended \in Job
  /\ \A s, a, h : JobKnows(Ended, s, a, h)
  BY DEF Ended, Fresh, Job, BusyPcs, JobKnows

LEMMA Stutters ==
  ASSUME TypeOK, UNCHANGED <<sent, accepted, hook>>
  PROVE  Forward
  BY DEF TypeOK, Forward

\* What a job knows stays true when things go forward.
LEMMA KnowledgeLasts ==
  ASSUME TypeOK, Forward, NEW q \in Job, JobKnows(q, sent, accepted, hook)
  PROVE  JobKnows(q, sent', accepted', hook')
  <1>1. ASSUME NEW d \in Deliveries
        PROVE  /\ sent[d] \in Nat /\ sent'[d] \in Nat /\ sent[d] <= sent'[d]
               /\ hook[d[2]] = "inactive" => hook'[d[2]] = "inactive"
               /\ hook[d[2]] # "absent" => hook'[d[2]] # "absent"
    BY HookOfDelivery DEF TypeOK, Forward
  <1>2. q.todo \subseteq Deliveries /\ q.gone \subseteq Deliveries /\ q.attempt \in Nat
    BY DEF Job
  <1>3. ASSUME q.pc \in {"post", "record"}
        PROVE  /\ q.pc = "post" => q.attempt <= sent'[q.item] + 1
               /\ q.pc = "record" => q.attempt <= sent'[q.item] /\ (q.good => q.item \in accepted')
    <2>1. q.item \in Deliveries
      BY <1>3 DEF JobKnows
    <2> QED BY <1>1, <1>2, <2>1 DEF JobKnows, Forward
  <1>4. ASSUME q.pc \in {"reset", "attempts", "post", "record"}
        PROVE  q.item \in Deliveries /\ hook'[q.item[2]] # "absent"
    BY <1>1, <1>4 DEF JobKnows
  <1>5. \A d \in q.todo : hook'[d[2]] # "absent"
    BY <1>1, <1>2 DEF JobKnows
  <1>6. \A d \in q.gone : hook'[d[2]] = "inactive"
    BY <1>1, <1>2 DEF JobKnows
  <1> QED BY <1>3, <1>4, <1>5, <1>6 DEF JobKnows

LEMMA JobsGoOn ==
  ASSUME TypeOK, JobsKnow, Forward, NEW j \in Jobs, NEW q,
         job' = [job EXCEPT ![j] = q], JobKnows(q, sent', accepted', hook')
  PROVE  JobsKnow'
  <1> SUFFICES ASSUME NEW k \in Jobs
               PROVE  JobKnows(job'[k], sent', accepted', hook')
    BY DEF JobsKnow
  <1>1. job[k] \in Job /\ JobKnows(job[k], sent, accepted, hook)
    BY DEF TypeOK, JobsKnow
  <1>2. CASE k = j
    BY <1>2 DEF TypeOK
  <1>3. CASE k # j
    <2>1. job'[k] = job[k]
      BY <1>3 DEF TypeOK
    <2> QED BY <1>1, <2>1, KnowledgeLasts
  <1> QED BY <1>2, <1>3

LEMMA JobsStay ==
  ASSUME TypeOK, JobsKnow, Forward, UNCHANGED job
  PROVE  JobsKnow'
  <1> SUFFICES ASSUME NEW k \in Jobs
               PROVE  JobKnows(job[k], sent', accepted', hook')
    BY DEF JobsKnow
  <1>1. job[k] \in Job /\ JobKnows(job[k], sent, accepted, hook)
    BY DEF TypeOK, JobsKnow
  <1> QED BY <1>1, KnowledgeLasts

LEMMA RowsStay ==
  ASSUME TypeOK, RowsTell, Forward, UNCHANGED table
  PROVE  RowsTell'
  <1> SUFFICES ASSUME NEW d \in Deliveries
               PROVE  RowTells(table[d], d, sent', accepted', hook')
    BY DEF RowsTell
  <1>1. /\ table[d].attempts \in Nat /\ sent[d] \in Nat /\ sent'[d] \in Nat
        /\ sent[d] <= sent'[d] /\ d[2] \in Hooks
    BY HookOfDelivery DEF TypeOK, Delivery, Forward
  <1> QED BY <1>1 DEF RowsTell, RowTells, Forward

\* A step that only moves job j on.
LEMMA JobStep ==
  ASSUME Inv, NEW j \in Jobs, NEW q \in Job, job' = [job EXCEPT ![j] = q],
         UNCHANGED <<hook, table, sent, accepted, replays>>, faults' \in Nat,
         JobKnows(q, sent, accepted, hook)
  PROVE  Inv'
  <1>1. Forward
    BY Stutters DEF Inv
  <1>2. TypeOK'
    BY DEF Inv, TypeOK
  <1>3. JobsKnow'
    BY <1>1, JobsGoOn DEF Inv
  <1> QED BY <1>1, <1>2, <1>3, RowsStay DEF Inv

\* A step of job j that also writes one row.
LEMMA RowStep ==
  ASSUME Inv, NEW j \in Jobs, NEW q \in Job, NEW d \in Deliveries, NEW row \in Delivery,
         job' = [job EXCEPT ![j] = q], table' = [table EXCEPT ![d] = row],
         UNCHANGED <<hook, sent, accepted, faults>>, replays' \in [Deliveries -> Nat],
         JobKnows(q, sent, accepted, hook), RowTells(row, d, sent, accepted, hook)
  PROVE  Inv'
  <1>1. TypeOK'
    BY DEF Inv, TypeOK
  <1>2. JobsKnow'
    BY Stutters, JobsGoOn DEF Inv
  <1>3. RowsTell'
    BY DEF Inv, TypeOK, RowsTell
  <1> QED BY <1>1, <1>2, <1>3 DEF Inv

-----------------------------------------------------------------------------
(* One lemma per action *)

LEMMA HookStep ==
  ASSUME Inv, NEW h \in Hooks, Register(h) \/ Deactivate(h)
  PROVE  Inv'
  <1>1. TypeOK' /\ Forward /\ UNCHANGED <<job, table>>
    BY DEF Inv, TypeOK, Register, Deactivate, Forward
  <1> QED BY <1>1, JobsStay, RowsStay DEF Inv

LEMMA ElapseStep ==
  ASSUME Inv, NEW d \in Deliveries, Elapse(d)
  PROVE  Inv'
  <1>1. TypeOK'
    BY DEF Inv, TypeOK, Elapse, Delivery
  <1>2. JobsKnow'
    BY Stutters, JobsStay DEF Inv, Elapse
  <1>3. RowsTell'
    <2> SUFFICES ASSUME NEW e \in Deliveries
                 PROVE  RowTells(table'[e], e, sent, accepted, hook)
      BY DEF RowsTell, Elapse
    <2>1. table'[e].status = table[e].status /\ table'[e].attempts = table[e].attempts
      BY DEF Inv, TypeOK, Delivery, Elapse
    <2> QED BY <2>1 DEF Inv, RowsTell, RowTells
  <1> QED BY <1>1, <1>2, <1>3 DEF Inv

LEMMA StartStep ==
  ASSUME Inv, NEW j \in Jobs, NEW kind \in Kinds, NEW q \in Job,
         JobKnows(q, sent, accepted, hook), Start(j, kind, q)
  PROVE  Inv'
  <1>1. job' = [job EXCEPT ![j] = q] /\ UNCHANGED <<hook, table, sent, accepted, replays, faults>>
    BY DEF Start
  <1>2. faults' \in Nat
    BY <1>1 DEF Inv, TypeOK
  <1> QED BY <1>1, <1>2, JobStep

LEMMA JobStarts ==
  ASSUME Inv, NEW j \in Jobs, Dispatch(j) \/ StartRetry(j) \/ Replay(j)
  PROVE  Inv'
  <1>1. CASE Dispatch(j)
    <2> DEFINE todo == {j} \X {h \in Hooks : hook[h] = "active"}
               q == [Fresh EXCEPT !.pc = "create", !.kind = "dispatch", !.todo = todo]
    <2>1. Start(j, "dispatch", IF todo = {} THEN Ended ELSE q)
      BY <1>1 DEF Dispatch, Active
    <2>2. todo \in SUBSET Deliveries /\ \A d \in todo : hook[d[2]] # "absent"
      BY <2>1 DEF Deliveries, Start
    <2> HIDE DEF todo
    <2>3. q \in Job /\ JobKnows(q, sent, accepted, hook)
      BY <2>2 DEF Fresh, Job, BusyPcs, Kinds, JobKnows
    <2> HIDE DEF q
    <2> QED BY <2>1, <2>3, EndedKnows, StartStep DEF Kinds
  <1>2. CASE StartRetry(j)
    <2>1. PICK todo \in SUBSET Due :
            Start(j, "retry", [Fresh EXCEPT !.pc = "next", !.kind = "retry", !.todo = todo])
      BY <1>2 DEF StartRetry
    <2> DEFINE q == [Fresh EXCEPT !.pc = "next", !.kind = "retry", !.todo = todo]
    <2>2. todo \in SUBSET Deliveries
      BY DEF Due
    <2>3. \A d \in todo : hook[d[2]] # "absent"
      BY DEF Due, Inv, RowsTell, RowTells
    <2>4. q \in Job /\ JobKnows(q, sent, accepted, hook)
      BY <2>2, <2>3 DEF Fresh, Job, BusyPcs, Kinds, JobKnows
    <2> HIDE DEF q
    <2>5. Start(j, "retry", q)
      BY <2>1 DEF q
    <2> QED BY <2>4, <2>5, StartStep DEF Kinds
  <1>3. CASE Replay(j)
    <2>1. PICK d \in Deliveries :
            Start(j, "replay", IF ~Replayable(d) THEN Ended
                               ELSE [Fresh EXCEPT !.pc = "reset", !.kind = "replay", !.item = d])
      BY <1>3 DEF Replay
    <2> DEFINE q == [Fresh EXCEPT !.pc = "reset", !.kind = "replay", !.item = d]
    <2>2. Start(j, "replay", IF ~Replayable(d) THEN Ended ELSE q)
      BY <2>1
    <2>3. ASSUME Replayable(d)
          PROVE  q \in Job /\ JobKnows(q, sent, accepted, hook)
      BY <2>3 DEF Replayable, Fresh, Job, BusyPcs, Kinds, JobKnows
    <2> HIDE DEF q
    <2> QED BY <2>2, <2>3, EndedKnows, StartStep DEF Kinds
  <1> QED BY <1>1, <1>2, <1>3

\* A job that turns to delivery d.
LEMMA AttemptingKnows ==
  ASSUME Inv, NEW j \in Jobs, NEW d \in Deliveries, hook[d[2]] # "absent"
  PROVE  Attempting(j, d) \in Job /\ JobKnows(Attempting(j, d), sent, accepted, hook)
  <1>1. job[j] \in Job /\ JobKnows(job[j], sent, accepted, hook)
    BY DEF Inv, TypeOK, JobsKnow
  <1> QED BY <1>1 DEF Attempting, Job, BusyPcs, JobKnows

LEMMA CreateStep ==
  ASSUME Inv, NEW j \in Jobs, NEW d \in Deliveries, CreateRecord(j, d)
  PROVE  Inv'
  <1>1. NewDelivery \in Delivery
    BY DEF NewDelivery, Delivery, Statuses
  <1>2. hook[d[2]] # "absent"
    BY DEF Inv, JobsKnow, JobKnows, CreateRecord
  <1>3. RowTells(NewDelivery, d, sent, accepted, hook)
    BY <1>2 DEF NewDelivery, RowTells, Inv, TypeOK
  <1>4. /\ table' = [table EXCEPT ![d] = NewDelivery]
        /\ job' = [job EXCEPT ![j] = Attempting(j, d)]
        /\ UNCHANGED <<hook, sent, accepted, replays, faults>>
    BY DEF CreateRecord
  <1>5. replays' \in [Deliveries -> Nat]
    BY <1>4 DEF Inv, TypeOK
  <1> QED BY <1>1, <1>2, <1>3, <1>4, <1>5, AttemptingKnows, RowStep

LEMMA ResetStep ==
  ASSUME Inv, NEW j \in Jobs, ReplayReset(j)
  PROVE  Inv'
  <1> DEFINE d == job[j].item
             row == [table[d] EXCEPT !.status = "pending", !.attempts = 0]
  <1>1. d \in Deliveries /\ hook[d[2]] # "absent"
    BY DEF Inv, JobsKnow, JobKnows, ReplayReset
  <1>2. table[d] \in Delivery /\ sent[d] \in Nat
    BY <1>1 DEF Inv, TypeOK
  <1>3. row \in Delivery /\ row.status = "pending" /\ row.attempts = 0
    BY <1>2 DEF Delivery, Statuses
  <1>4. /\ table' = [table EXCEPT ![d] = row]
        /\ job' = [job EXCEPT ![j] = Attempting(j, d)]
        /\ replays' = [replays EXCEPT ![d] = @ + 1]
        /\ UNCHANGED <<hook, sent, accepted, faults>>
    BY <1>1 DEF ReplayReset, Inv, TypeOK
  <1>5. replays' \in [Deliveries -> Nat]
    BY <1>1, <1>4 DEF Inv, TypeOK
  <1> HIDE DEF row
  <1>6. RowTells(row, d, sent, accepted, hook)
    BY <1>1, <1>2, <1>3 DEF RowTells
  <1> HIDE DEF d
  <1> QED BY <1>1, <1>3, <1>4, <1>5, <1>6, AttemptingKnows, RowStep

LEMMA NextRetryStep ==
  ASSUME Inv, NEW j \in Jobs, NEW d \in Deliveries, NextRetry(j, d)
  PROVE  Inv'
  <1> DEFINE q == [job[j] EXCEPT !.flushed = @ \union job[j].gone]
             on == [q EXCEPT !.pc = "attempts", !.item = d, !.seen = d[2]]
             off == [q EXCEPT !.todo = @ \ {d}, !.gone = @ \union {d}, !.seen = NoHook]
  <1>1. job[j] \in Job /\ JobKnows(job[j], sent, accepted, hook) /\ d[2] \in Hooks
    BY HookOfDelivery DEF Inv, TypeOK, JobsKnow
  <1>2. q \in Job
    BY <1>1 DEF Job
  <1>3. job[j].pc = "next" /\ d \in job[j].todo /\ hook[d[2]] # "absent"
    BY <1>1, <1>2 DEF NextRetry, JobKnows, Job
  <1>4. on \in Job /\ JobKnows(on, sent, accepted, hook)
    BY <1>1, <1>3 DEF Job, BusyPcs, JobKnows
  <1>5. ASSUME hook[d[2]] # "active"
        PROVE  off \in Job /\ JobKnows(off, sent, accepted, hook)
    <2>1. hook[d[2]] = "inactive"
      BY <1>1, <1>3, <1>5 DEF Inv, TypeOK
    <2> QED BY <1>1, <1>3, <2>1 DEF Job, JobKnows
  <1>6. UNCHANGED <<hook, table, sent, accepted, replays>> /\ faults' \in Nat
    BY DEF NextRetry, Inv, TypeOK
  <1>7. CASE job' = [job EXCEPT ![j] = on]
    <2> HIDE DEF on
    <2> QED BY <1>4, <1>6, <1>7, JobStep
  <1>8. CASE hook[d[2]] # "active" /\ job' = [job EXCEPT ![j] = off]
    <2> HIDE DEF off
    <2> QED BY <1>5, <1>6, <1>8, JobStep
  <1> QED BY <1>7, <1>8 DEF NextRetry

LEMMA FinishRetryStep ==
  ASSUME Inv, NEW j \in Jobs, FinishRetry(j)
  PROVE  Inv'
  <1>1. Ended \in Job /\ JobKnows(Ended, sent, accepted, hook)
    BY EndedKnows
  <1>2. /\ job' = [job EXCEPT ![j] = Ended] /\ UNCHANGED <<hook, sent, accepted, replays, faults>>
        /\ table' = [d \in Deliveries |-> IF d \in job[j].gone
                       THEN [table[d] EXCEPT !.status = "dead_letter"] ELSE table[d]]
    BY DEF FinishRetry
  <1>3. ASSUME NEW d \in Deliveries
        PROVE  table'[d] \in Delivery /\ RowTells(table'[d], d, sent, accepted, hook)
    <2>1. table[d] \in Delivery /\ RowTells(table[d], d, sent, accepted, hook)
      BY DEF Inv, TypeOK, RowsTell
    <2>2. CASE d \in job[j].gone
      <3>1. hook[d[2]] = "inactive"
        BY <2>2 DEF Inv, JobsKnow, JobKnows
      <3> DEFINE row == [table[d] EXCEPT !.status = "dead_letter"]
      <3>2. row \in Delivery /\ row.status = "dead_letter" /\ row.attempts = table[d].attempts
        BY <2>1 DEF Delivery, Statuses
      <3>3. table'[d] = row
        BY <1>2, <2>2
      <3> HIDE DEF row
      <3> QED BY <2>1, <3>1, <3>2, <3>3 DEF RowTells
    <2>3. CASE d \notin job[j].gone
      BY <1>2, <2>1, <2>3
    <2> QED BY <2>2, <2>3
  <1>4. TypeOK'
    <2>1. table' \in [Deliveries -> Delivery]
      <3>1. table' = [d \in Deliveries |-> table'[d]]
        BY <1>2
      <3> QED BY <1>3, <3>1
    <2> QED BY <1>1, <1>2, <2>1 DEF Inv, TypeOK
  <1>5. JobsKnow'
    BY <1>1, <1>2, Stutters, JobsGoOn DEF Inv
  <1>6. RowsTell'
    BY <1>2, <1>3 DEF RowsTell
  <1> QED BY <1>4, <1>5, <1>6 DEF Inv

LEMMA ReadStep ==
  ASSUME Inv, NEW j \in Jobs, ReadAttempts(j)
  PROVE  Inv'
  <1> DEFINE d == job[j].item
             q == [job[j] EXCEPT !.pc = "post", !.attempt = table[d].attempts + 1]
  <1>1. job[j] \in Job /\ JobKnows(job[j], sent, accepted, hook) /\ job[j].pc = "attempts"
    BY DEF Inv, TypeOK, JobsKnow, ReadAttempts
  <1>2. d \in Deliveries /\ hook[d[2]] # "absent"
    BY <1>1 DEF JobKnows
  <1>3. table[d].attempts \in Nat /\ sent[d] \in Nat /\ table[d].attempts <= sent[d]
    BY <1>2 DEF Inv, TypeOK, Delivery, RowsTell, RowTells
  <1>4. /\ q \in Job /\ q.pc = "post" /\ q.item = d /\ q.attempt = table[d].attempts + 1
        /\ q.todo = job[j].todo /\ q.gone = job[j].gone
    <2>1. ASSUME NEW n \in Nat
          PROVE  LET r == [job[j] EXCEPT !.pc = "post", !.attempt = n] IN
                 /\ r \in Job /\ r.pc = "post" /\ r.item = d /\ r.attempt = n
                 /\ r.todo = job[j].todo /\ r.gone = job[j].gone
      BY <1>1 DEF Job, BusyPcs
    <2>2. table[d].attempts + 1 \in Nat
      BY <1>3
    <2> QED BY <2>1, <2>2
  <1>5. /\ job' = [job EXCEPT ![j] = q] /\ faults' \in Nat
        /\ UNCHANGED <<hook, table, sent, accepted, replays>>
    BY <1>1 DEF ReadAttempts, Inv, TypeOK
  <1> HIDE DEF q
  <1>6. JobKnows(q, sent, accepted, hook)
    BY <1>1, <1>2, <1>3, <1>4 DEF JobKnows
  <1> QED BY <1>4, <1>5, <1>6, JobStep

LEMMA PostStep ==
  ASSUME Inv, NEW j \in Jobs, Post(j)
  PROVE  Inv'
  <1> DEFINE d == job[j].item
  <1>1. job[j] \in Job /\ JobKnows(job[j], sent, accepted, hook) /\ job[j].pc = "post"
    BY DEF Inv, TypeOK, JobsKnow, Post
  <1>2. /\ d \in Deliveries /\ hook[d[2]] # "absent" /\ sent[d] \in Nat /\ job[j].attempt \in Nat
        /\ job[j].attempt <= sent[d] + 1
    BY <1>1 DEF JobKnows, Job, Inv, TypeOK
  <1>3. PICK answer \in {"ok", "refused", "lost"} :
          /\ accepted' = IF answer = "refused" THEN accepted ELSE accepted \union {d}
          /\ job' = [job EXCEPT ![j].pc = "record", ![j].good = Success(answer)]
    BY DEF Post
  <1>4. sent' = [sent EXCEPT ![d] = @ + 1] /\ UNCHANGED <<hook, table, replays, faults>>
    BY DEF Post
  <1>5. Forward /\ accepted' \subseteq Deliveries /\ sent' \in [Deliveries -> Nat]
    BY <1>2, <1>3, <1>4 DEF Forward, Inv, TypeOK
  <1> DEFINE q == [job[j] EXCEPT !.pc = "record", !.good = Success(answer)]
  <1>6. Success(answer) \in BOOLEAN /\ (Success(answer) => d \in accepted')
    BY <1>3 DEF Success
  <1>7. q \in Job
    BY <1>1, <1>6 DEF Job, BusyPcs
  <1>8. job' = [job EXCEPT ![j] = q]
    BY <1>1, <1>3 DEF Inv, TypeOK
  <1>9. q.pc = "record" /\ q.item = d /\ q.attempt = job[j].attempt
        /\ q.good = Success(answer) /\ q.todo = job[j].todo /\ q.gone = job[j].gone
    BY <1>1 DEF Job
  <1> HIDE DEF q
  <1>10. q.attempt <= sent'[d]
    BY <1>2, <1>4, <1>9 DEF Inv, TypeOK
  <1>11. JobKnows(q, sent', accepted', hook')
    BY <1>1, <1>2, <1>4, <1>6, <1>9, <1>10 DEF JobKnows
  <1>12. TypeOK'
    BY <1>4, <1>5, <1>7, <1>8 DEF Inv, TypeOK
  <1>13. JobsKnow'
    BY <1>5, <1>8, <1>11, JobsGoOn DEF Inv
  <1>14. RowsTell'
    BY <1>4, <1>5, RowsStay DEF Inv
  <1> QED BY <1>12, <1>13, <1>14 DEF Inv

LEMMA RecordStep ==
  ASSUME Inv, NEW j \in Jobs, Record(j)
  PROVE  Inv'
  <1> DEFINE d == job[j].item
             row == Attempted(job[j].attempt, job[j].good)
             q == Continued(job[j])
  <1>1. job[j] \in Job /\ JobKnows(job[j], sent, accepted, hook) /\ job[j].pc = "record"
    BY DEF Inv, TypeOK, JobsKnow, Record
  <1>2. /\ d \in Deliveries /\ hook[d[2]] # "absent"
        /\ job[j].attempt \in Nat /\ job[j].good \in BOOLEAN
        /\ job[j].attempt <= sent[d] /\ (job[j].good => d \in accepted)
    BY <1>1 DEF JobKnows, Job
  <1>3. row \in Delivery
    BY <1>2 DEF Attempted, Delivery, Statuses
  <1>4. /\ row.attempts = job[j].attempt /\ (row.status = "delivered" => job[j].good)
        /\ (row.status = "dead_letter" => job[j].attempt >= MaxRetries)
    BY DEF Attempted, Exhausted
  <1>5. q \in Job /\ JobKnows(q, sent, accepted, hook)
    <2> DEFINE on == [job[j] EXCEPT !.todo = job[j].todo \ {d}, !.item = NoDelivery,
                        !.good = FALSE, !.attempt = 0,
                        !.pc = IF job[j].kind = "retry" THEN "next" ELSE "create"]
    <2>1. on \in Job /\ JobKnows(on, sent, accepted, hook)
      BY <1>1 DEF Job, BusyPcs, JobKnows
    <2>2. q = Ended \/ q = on
      BY DEF Continued
    <2> HIDE DEF on, q
    <2> QED BY <2>1, <2>2, EndedKnows
  <1>6. /\ table' = [table EXCEPT ![d] = row] /\ job' = [job EXCEPT ![j] = q]
        /\ UNCHANGED <<hook, sent, accepted, replays, faults>>
    BY DEF Record
  <1> HIDE DEF q, row
  <1>7. RowTells(row, d, sent, accepted, hook)
    BY <1>2, <1>4 DEF RowTells
  <1>8. replays' \in [Deliveries -> Nat]
    BY <1>6 DEF Inv, TypeOK
  <1> QED BY <1>2, <1>3, <1>5, <1>6, <1>7, <1>8, RowStep

LEMMA RaisesStep ==
  ASSUME Inv, NEW j \in Jobs, Raises(j), faults' \in Nat
  PROVE  Inv'
  <1> DEFINE q == IF job[j].pc = "record" /\ job[j].good
                  THEN [job[j] EXCEPT !.good = FALSE] ELSE Ended
  <1>1. job[j] \in Job /\ JobKnows(job[j], sent, accepted, hook)
    BY DEF Inv, TypeOK, JobsKnow
  <1>2. ASSUME job[j].pc = "record"
        PROVE  /\ [job[j] EXCEPT !.good = FALSE] \in Job
               /\ JobKnows([job[j] EXCEPT !.good = FALSE], sent, accepted, hook)
    BY <1>1, <1>2 DEF Job, JobKnows
  <1>3. q \in Job /\ JobKnows(q, sent, accepted, hook)
    BY <1>2, EndedKnows
  <1>4. job' = [job EXCEPT ![j] = q] /\ UNCHANGED <<hook, table, sent, accepted, replays>>
    BY DEF Raises
  <1> HIDE DEF q
  <1> QED BY <1>3, <1>4, JobStep

LEMMA CrashStep ==
  ASSUME Inv, Crash
  PROVE  Inv'
  <1>1. /\ job' = [j \in Jobs |-> IF Busy(j) THEN Ended ELSE job[j]]
        /\ UNCHANGED <<hook, table, sent, accepted, replays>>
    BY DEF Crash
  <1>2. ASSUME NEW j \in Jobs
        PROVE  job'[j] \in Job /\ JobKnows(job'[j], sent, accepted, hook)
    <2>1. job[j] \in Job /\ JobKnows(job[j], sent, accepted, hook)
      BY DEF Inv, TypeOK, JobsKnow
    <2>2. job'[j] = Ended \/ job'[j] = job[j]
      BY <1>1
    <2> QED BY <2>1, <2>2, EndedKnows
  <1>3. job' \in [Jobs -> Job]
    <2>1. job' = [j \in Jobs |-> job'[j]]
      BY <1>1
    <2> QED BY <1>2, <2>1
  <1>4. TypeOK'
    <2>1. faults \in Nat
      BY DEF Inv, TypeOK
    <2>2. faults' = faults + 1
      BY DEF Crash
    <2>3. faults' \in Nat
      BY <2>1, <2>2
    <2> QED BY <1>1, <1>3, <2>3 DEF Inv, TypeOK
  <1> QED BY <1>1, <1>2, <1>4 DEF Inv, JobsKnow, RowsTell

LEMMA InitInv == Init => Inv
  <1> SUFFICES ASSUME Init PROVE Inv
    OBVIOUS
  <1> DEFINE none == [NewDelivery EXCEPT !.status = "absent", !.attempts = 0]
  <1>1. none \in Delivery /\ none.status = "absent" /\ none.attempts = 0
    BY DEF NewDelivery, Delivery, Statuses
  <1>2. ASSUME NEW d \in Deliveries
        PROVE  table[d] = none /\ sent[d] = 0
    BY DEF Init
  <1>3. table = [d \in Deliveries |-> none]
    BY DEF Init
  <1> HIDE DEF none
  <1>4. TypeOK
    BY <1>1, <1>3, FreshType DEF Init, TypeOK
  <1>5. RowsTell
    BY <1>1, <1>2 DEF RowsTell, RowTells
  <1>6. JobsKnow
    BY DEF Init, JobsKnow, JobKnows, Fresh
  <1> QED BY <1>4, <1>5, <1>6 DEF Inv

LEMMA StepInv == Inv /\ [Next]_vars => Inv'
  <1> SUFFICES ASSUME Inv, [Next]_vars PROVE Inv'
    OBVIOUS
  <1>1. CASE UNCHANGED vars
    <2>1. TypeOK' /\ UNCHANGED <<sent, accepted, hook, job, table>>
      BY <1>1 DEF vars, Inv, TypeOK
    <2> QED BY <2>1 DEF Inv, JobsKnow, RowsTell
  <1>2. ASSUME NEW h \in Hooks, Register(h) \/ Deactivate(h) PROVE Inv'
    BY <1>2, HookStep
  <1>3. ASSUME NEW d \in Deliveries, Elapse(d) PROVE Inv'
    BY <1>3, ElapseStep
  <1>4. ASSUME NEW j \in Jobs, Dispatch(j) \/ StartRetry(j) \/ Replay(j) PROVE Inv'
    BY <1>4, JobStarts
  <1>5. ASSUME NEW j \in Jobs, Step(j) PROVE Inv'
    <2>1. ASSUME NEW d \in Deliveries, CreateRecord(j, d) PROVE Inv'
      BY <2>1, CreateStep
    <2>2. ASSUME NEW d \in Deliveries, NextRetry(j, d) PROVE Inv'
      BY <2>2, NextRetryStep
    <2>3. CASE ReplayReset(j)
      BY <2>3, ResetStep
    <2>4. CASE FinishRetry(j)
      BY <2>4, FinishRetryStep
    <2>5. CASE ReadAttempts(j)
      BY <2>5, ReadStep
    <2>6. CASE Post(j)
      BY <2>6, PostStep
    <2>7. CASE Record(j)
      BY <2>7, RecordStep
    <2>8. CASE LockTimesOut(j)
      BY <2>8, RaisesStep DEF LockTimesOut, Inv, TypeOK
    <2> QED BY <1>5, <2>1, <2>2, <2>3, <2>4, <2>5, <2>6, <2>7, <2>8 DEF Step
  <1>6. ASSUME NEW j \in Jobs, DatabaseFails(j) PROVE Inv'
    BY <1>6, RaisesStep DEF DatabaseFails, Inv, TypeOK
  <1>7. CASE Crash
    BY <1>7, CrashStep
  <1> QED BY <1>1, <1>2, <1>3, <1>4, <1>5, <1>6, <1>7 DEF Next

-----------------------------------------------------------------------------
(* The theorems *)

LEMMA InvAlways == Spec => []Inv
  BY InitInv, StepInv, PTL DEF Spec

\* The attempts column of webhook_deliveries never exceeds the POSTs made for the
\* delivery, although overlapping jobs write back counts they read before.
THEOREM AttemptsMade == Spec => []AttemptsWereMade
  <1>1. Inv => AttemptsWereMade
    BY DEF Inv, RowsTell, RowTells, AttemptsWereMade
  <1> QED BY <1>1, InvAlways, PTL

\* Status "delivered" is only ever written by a job whose own POST was accepted.
THEOREM DeliveredAccepted == Spec => []DeliveredWasAccepted
  <1>1. Inv => DeliveredWasAccepted
    BY DEF Inv, RowsTell, RowTells, DeliveredWasAccepted
  <1> QED BY <1>1, InvAlways, PTL

\* deliver_webhook and the retry batch give a delivery up for the two reasons the
\* code has: MAX_RETRIES attempts on record, or a webhook that is inactive.
THEOREM DeadLettersExhausted == Spec => []DeadLettersAreExhausted
  <1>1. Inv => DeadLettersAreExhausted
    BY DEF Inv, RowsTell, RowTells, DeadLettersAreExhausted
  <1> QED BY <1>1, InvAlways, PTL

\* Rows, jobs and webhooks keep their shape.
THEOREM TypeInvariant == Spec => []TypeOK
  <1>1. Inv => TypeOK
    BY DEF Inv
  <1> QED BY <1>1, InvAlways, PTL
-----------------------------------------------------------------------------
(* Jobs that do not overlap *)

Unmade == {"pending", "failed"}

\* What job j, whose state is q, knows of the table t when nobody else writes it: what it
\* has read is still so.
JobSees(j, q, t) ==
  /\ q.pc \in {"idle", "ended"} <=> q.kind = "none"
  /\ q.pc = "idle" => \A d \in Deliveries : d[1] = j => t[d].status = "absent"
  /\ q.pc = "create" => q.kind = "dispatch" /\ q.item = NoDelivery
  /\ q.pc = "reset" => q.kind = "replay" /\ t[q.item].status = "dead_letter"
  /\ q.pc = "next" => q.kind = "retry" /\ q.item = NoDelivery
  /\ q.pc \in {"attempts", "post", "record"} => t[q.item].status \in Unmade
  /\ q.pc \in {"post", "record"} => q.attempt = t[q.item].attempts + 1
  /\ q.kind # "retry" => q.flushed = {} /\ q.gone = {}
  /\ q.kind = "replay" => q.todo = {}
  /\ q.kind = "dispatch" => \A d \in q.todo \ {q.item} : d[1] = j /\ t[d].status = "absent"
  /\ q.kind = "retry" =>
       /\ \A d \in q.todo \union q.gone : t[d].status \in Unmade /\ t[d].next = "due"
       /\ q.pc # "next" => q.item \in q.todo
       /\ q.todo \intersect q.gone = {}

RowFits(row) ==
  /\ row.attempts <= MaxRetries
  /\ row.status \in Unmade => row.attempts < MaxRetries
  /\ row.status = "absent" => row.attempts = 0
  /\ row.status = "delivered" => row.next = "none"

AllSee == \A j \in Jobs : JobSees(j, job[j], table)
AllFit == \A d \in Deliveries : RowFits(table[d])
Serial == OneJobAtATime /\ AllSee /\ AllFit /\ NothingIsForgotten

KeepsDelivered == \A d \in Deliveries : table[d].status = "delivered" => UNCHANGED <<table[d], sent[d]>>
GoesOn == AllSee' /\ AllFit' /\ NothingIsForgotten' /\ KeepsDelivered

LEMMA EndedSees ==
  \A j, t : JobSees(j, Ended, t)
  BY DEF JobSees, Ended, Fresh

LEMMA ItemKnown ==
  ASSUME Inv, NEW j \in Jobs
  PROVE  /\ job[j] \in Job
         /\ job[j].pc \in {"reset", "attempts", "post", "record"} => job[j].item \in Deliveries
  BY DEF Inv, TypeOK, JobsKnow, JobKnows

LEMMA NoDeliveryApart == NoDelivery \notin Deliveries
  BY ConstantsAssumption DEF Deliveries

\* Job j goes on to q without writing the table; what it had in hand it keeps, or it has a
\* time for its next attempt.
LEMMA JobMoves ==
  ASSUME Inv, Serial, NEW j \in Jobs, NEW q \in Job, job' = [job EXCEPT ![j] = q], table' = table,
         JobSees(j, q, table), faults' = 0 => faults = 0,
         \/ q.pc \in BusyPcs /\ q.item = job[j].item
         \/ job[j].item \notin Deliveries
         \/ ~Busy(j)
         \/ faults' # 0
         \/ table[job[j].item].next # "none",
         \A d \in Deliveries : table[d].status = "delivered" => sent'[d] = sent[d]
  PROVE  GoesOn
  <1>1. job'[j] = q /\ \A k \in Jobs : k # j => job'[k] = job[k]
    BY DEF Inv, TypeOK
  <1>2. \A k \in Jobs : JobSees(k, job'[k], table)
    BY <1>1 DEF Serial, AllSee
  <1>3. AllSee' /\ AllFit' /\ KeepsDelivered
    BY <1>2 DEF Serial, AllSee, AllFit, KeepsDelivered
  <1>4. ASSUME NEW d \in Deliveries, faults' = 0, table[d].status \in Unmade, table[d].next = "none"
        PROVE  \E k \in Jobs : job'[k].pc \in BusyPcs /\ job'[k].item = d
    <2>1. PICK k \in Jobs : job[k].pc \in BusyPcs /\ job[k].item = d
      BY <1>4 DEF Serial, NothingIsForgotten, InHand, Busy, Unmade
    <2>2. CASE k = j
      BY <1>1, <1>4, <2>1, <2>2 DEF Busy
    <2>3. CASE k # j
      BY <1>1, <2>1, <2>3
    <2> QED BY <2>2, <2>3
  <1>5. NothingIsForgotten'
    BY <1>4 DEF NothingIsForgotten, InHand, Busy, Unmade
  <1> QED BY <1>3, <1>5 DEF GoesOn

LEMMA Alone ==
  ASSUME Serial, NEW j \in Jobs, Busy(j)
  PROVE  \A k \in Jobs : k # j => ~Busy(k)
  BY DEF Serial, OneJobAtATime

\* The other jobs see what they saw, when rows that j writes exist or are its own.
LEMMA OthersSee ==
  ASSUME Inv, Serial, NEW j \in Jobs, Busy(j), NEW t,
         \A d \in Deliveries : table[d].status = "absent" => t[d].status = "absent" \/ d[1] = j
  PROVE  \A k \in Jobs : k # j => JobSees(k, job[k], t)
  <1> SUFFICES ASSUME NEW k \in Jobs, k # j PROVE JobSees(k, job[k], t)
    OBVIOUS
  <1>1. job[k].pc \in {"idle", "ended"} /\ JobSees(k, job[k], table)
    BY Alone DEF Busy, Inv, TypeOK, Job, Serial, AllSee
  <1>2. job[k].kind = "none" /\ job[k].flushed = {} /\ job[k].gone = {}
    BY <1>1 DEF JobSees
  <1>3. job[k].pc = "idle" => \A d \in Deliveries : d[1] = k => t[d].status = "absent"
    BY <1>1 DEF JobSees
  <1> QED BY <1>1, <1>2, <1>3 DEF JobSees

\* Job j writes the row of d, its item or the next one.
LEMMA JobWrites ==
  ASSUME Inv, Serial, NEW j \in Jobs, Busy(j), NEW q \in Job, NEW d \in Deliveries, NEW row, NEW t,
         t = [table EXCEPT ![d] = row], job' = [job EXCEPT ![j] = q], table' = t, RowFits(row),
         JobSees(j, q, t), UNCHANGED <<sent, faults>>,
         table[d].status # "absent" \/ d[1] = j, table[d].status # "delivered",
         job[j].item \in {d, NoDelivery},
         row.status \in Unmade /\ row.next = "none" => q.pc \in BusyPcs /\ q.item = d
  PROVE  GoesOn
  <1>1. /\ job'[j] = q /\ \A k \in Jobs : k # j => job'[k] = job[k]
        /\ t[d] = row /\ \A e \in Deliveries : e # d => t[e] = table[e]
    BY DEF Inv, TypeOK
  <1>2. \A k \in Jobs : k # j => JobSees(k, job[k], t)
    <2>1. \A e \in Deliveries : table[e].status = "absent" => t[e].status = "absent" \/ e[1] = j
      BY <1>1
    <2> QED BY <2>1, OthersSee
  <1>3. \A k \in Jobs : JobSees(k, job'[k], t)
    BY <1>1, <1>2
  <1>4. AllSee'
    BY <1>3 DEF AllSee
  <1>5. \A e \in Deliveries : RowFits(t[e])
    BY <1>1 DEF Serial, AllFit
  <1>6. AllFit'
    BY <1>5 DEF AllFit
  <1>7. KeepsDelivered
    BY <1>1 DEF KeepsDelivered
  <1>8. ASSUME NEW e \in Deliveries, faults = 0, t[e].status \in Unmade, t[e].next = "none"
        PROVE  \E k \in Jobs : job'[k].pc \in BusyPcs /\ job'[k].item = e
    <2>1. CASE e = d
      BY <1>1, <1>8, <2>1
    <2>2. CASE e # d
      <3>1. table[e].status \in Unmade /\ table[e].next = "none"
        BY <1>1, <1>8, <2>2
      <3>2. PICK k \in Jobs : Busy(k) /\ job[k].item = e
        BY <1>8, <3>1 DEF Serial, NothingIsForgotten, InHand, Unmade
      <3>3. k = j
        BY <3>2, Alone
      <3> QED BY <2>2, <3>2, <3>3, NoDeliveryApart
    <2> QED BY <2>1, <2>2
  <1>9. NothingIsForgotten'
    BY <1>8 DEF NothingIsForgotten, InHand, Busy, Unmade
  <1> QED BY <1>4, <1>6, <1>7, <1>9 DEF GoesOn

LEMMA StillGoesOn ==
  ASSUME Serial, UNCHANGED <<table, job, sent, faults>>
  PROVE  GoesOn
  BY DEF Serial, GoesOn, AllSee, AllFit, NothingIsForgotten, InHand, Busy, KeepsDelivered

LEMMA ElapseGoesOn ==
  ASSUME Inv, Serial, NEW d \in Deliveries, Elapse(d)
  PROVE  GoesOn
  <1>1. /\ job' = job /\ sent' = sent /\ faults' = faults
        /\ table[d].next = "later" /\ table' = [table EXCEPT ![d].next = "due"]
        /\ table \in [Deliveries -> Delivery]
    BY DEF Elapse, Inv, TypeOK
  <1>2. PICK t : t = table'
    OBVIOUS
  <1>3. /\ t[d].status = table[d].status /\ t[d].attempts = table[d].attempts /\ t[d].next = "due"
        /\ \A e \in Deliveries : e # d => t[e] = table[e]
    BY <1>1, <1>2 DEF Delivery
  <1>4. \A e \in Deliveries : /\ t[e].status = table[e].status /\ t[e].attempts = table[e].attempts
                              /\ table[e].next = "due" => t[e].next = "due"
                              /\ t[e].next = "none" => table[e].next = "none"
    BY <1>3
  <1>5. ASSUME NEW j \in Jobs PROVE JobSees(j, job[j], t)
    <2>1. PICK q \in Job : q = job[j]
      BY DEF Inv, TypeOK
    <2>2. /\ JobSees(j, q, table) /\ q.todo \subseteq Deliveries /\ q.gone \subseteq Deliveries
          /\ q.pc \in {"reset", "attempts", "post", "record"} => q.item \in Deliveries
      BY <2>1, ItemKnown DEF Serial, AllSee, Job
    <2>3. JobSees(j, q, t)
      BY <1>4, <2>2 DEF JobSees
    <2> QED BY <2>1, <2>3
  <1>6. AllSee'
    BY <1>1, <1>2, <1>5 DEF AllSee
  <1>7. AllFit'
    <2>1. ASSUME NEW e \in Deliveries PROVE RowFits(t[e])
      <3>1. RowFits(table[e])
        BY DEF Serial, AllFit
      <3>2. CASE e = d
        BY <1>1, <1>3, <3>1, <3>2 DEF RowFits
      <3>3. CASE e # d
        BY <1>3, <3>1, <3>3
      <3> QED BY <3>2, <3>3
    <2> QED BY <1>2, <2>1 DEF AllFit
  <1>8. KeepsDelivered
    <2>1. table[d].status # "delivered"
      BY <1>1 DEF Serial, AllFit, RowFits
    <2> QED BY <1>1, <1>2, <1>3, <2>1 DEF KeepsDelivered
  <1>9. NothingIsForgotten'
    <2>1. \A e \in Deliveries : faults = 0 /\ t[e].status \in {"pending", "failed"} => t[e].next # "none" \/ InHand(e)
      BY <1>4 DEF Serial, NothingIsForgotten
    <2> QED BY <1>1, <1>2, <2>1 DEF NothingIsForgotten, InHand, Busy
  <1> QED BY <1>6, <1>7, <1>8, <1>9 DEF GoesOn

LEMMA StartGoesOn ==
  ASSUME Inv, Serial, NEW j \in Jobs, NEW kind, NEW q \in Job, Start(j, kind, q), JobSees(j, q, table)
  PROVE  GoesOn
  <1>1. job' = [job EXCEPT ![j] = q] /\ table' = table /\ faults' = faults /\ sent' = sent /\ ~Busy(j)
    BY DEF Start, Busy, BusyPcs
  <1> QED BY <1>1, JobMoves

LEMMA StartsGoOn ==
  ASSUME Inv, Serial, NEW j \in Jobs, Dispatch(j) \/ StartRetry(j) \/ Replay(j)
  PROVE  GoesOn
  <1>1. CASE Dispatch(j)
    <2>1. PICK todo : todo = {j} \X {h \in Hooks : hook[h] = "active"}
      OBVIOUS
    <2>2. PICK q : q = [Fresh EXCEPT !.pc = "create", !.kind = "dispatch", !.todo = todo]
      OBVIOUS
    <2>3. Start(j, "dispatch", IF todo = {} THEN Ended ELSE q)
      BY <1>1, <2>1, <2>2 DEF Dispatch, Active
    <2>4. \A d \in todo : d \in Deliveries /\ d[1] = j
      BY <2>1, <2>3 DEF Deliveries, Start
    <2>5. \A d \in todo : table[d].status = "absent"
      BY <2>3, <2>4 DEF Start, Serial, AllSee, JobSees
    <2>6. q \in Job
      BY <2>2, <2>4 DEF Fresh, Job, BusyPcs, Kinds
    <2>7. /\ q.pc = "create" /\ q.kind = "dispatch" /\ q.todo = todo /\ q.item = NoDelivery
          /\ q.flushed = {} /\ q.gone = {}
      BY <2>2 DEF Fresh
    <2>8. JobSees(j, q, table)
      BY <2>4, <2>5, <2>7 DEF JobSees
    <2> QED BY <2>3, <2>6, <2>8, EndedSees, EndedKnows, StartGoesOn
  <1>2. CASE StartRetry(j)
    <2>1. PICK todo \in SUBSET Due :
            Start(j, "retry", [Fresh EXCEPT !.pc = "next", !.kind = "retry", !.todo = todo])
      BY <1>2 DEF StartRetry
    <2>2. PICK q : q = [Fresh EXCEPT !.pc = "next", !.kind = "retry", !.todo = todo]
      OBVIOUS
    <2>3. \A d \in todo : d \in Deliveries /\ table[d].status \in Unmade /\ table[d].next = "due"
      BY DEF Due, Unmade
    <2>4. q \in Job
      BY <2>2, <2>3 DEF Fresh, Job, BusyPcs, Kinds
    <2>5. /\ q.pc = "next" /\ q.kind = "retry" /\ q.todo = todo /\ q.item = NoDelivery
          /\ q.flushed = {} /\ q.gone = {}
      BY <2>2 DEF Fresh
    <2>6. JobSees(j, q, table)
      BY <2>3, <2>5 DEF JobSees
    <2> QED BY <2>1, <2>2, <2>4, <2>6, StartGoesOn
  <1>3. CASE Replay(j)
    <2>1. PICK d \in Deliveries :
            Start(j, "replay", IF ~Replayable(d) THEN Ended
                               ELSE [Fresh EXCEPT !.pc = "reset", !.kind = "replay", !.item = d])
      BY <1>3 DEF Replay
    <2>2. PICK q : q = [Fresh EXCEPT !.pc = "reset", !.kind = "replay", !.item = d]
      OBVIOUS
    <2>3. q \in Job
      BY <2>2 DEF Fresh, Job, BusyPcs, Kinds
    <2>4. /\ q.pc = "reset" /\ q.kind = "replay" /\ q.todo = {} /\ q.item = d
          /\ q.flushed = {} /\ q.gone = {}
      BY <2>2 DEF Fresh
    <2>5. Replayable(d) => JobSees(j, q, table)
      BY <2>4 DEF JobSees, Replayable
    <2> QED BY <2>1, <2>2, <2>3, <2>5, EndedSees, EndedKnows, StartGoesOn
  <1> QED BY <1>1, <1>2, <1>3

LEMMA CreateGoesOn ==
  ASSUME Inv, Serial, NEW j \in Jobs, NEW d \in Deliveries, CreateRecord(j, d)
  PROVE  GoesOn
  <1>1. PICK old, q, row, t : /\ old = job[j] /\ q = Attempting(j, d) /\ row = NewDelivery
                              /\ t = [table EXCEPT ![d] = row]
    OBVIOUS
  <1>2. /\ job' = [job EXCEPT ![j] = q] /\ table' = t /\ UNCHANGED <<sent, faults>>
        /\ old.pc = "create" /\ d \in old.todo /\ Busy(j)
    BY <1>1 DEF CreateRecord, Busy, BusyPcs
  <1>3. old \in Job /\ JobSees(j, old, table) /\ t[d] = row /\ \A e \in Deliveries : e # d => t[e] = table[e]
    BY <1>1 DEF Inv, TypeOK, Serial, AllSee
  <1>4. /\ q.pc = "attempts" /\ q.item = d /\ q.kind = old.kind /\ q.todo = old.todo
        /\ q.flushed = old.flushed /\ q.gone = old.gone /\ q \in Job
    BY <1>1, <1>3 DEF Attempting, Job, BusyPcs
  <1>5. row.status = "pending" /\ row.attempts = 0
    BY <1>1 DEF NewDelivery
  <1>6. /\ old.kind = "dispatch" /\ old.item = NoDelivery /\ old.flushed = {} /\ old.gone = {}
        /\ \A e \in old.todo : e[1] = j /\ table[e].status = "absent"
    BY <1>2, <1>3, NoDeliveryApart DEF JobSees, Job
  <1>7. old.todo \subseteq Deliveries
    BY <1>3 DEF Job
  <1>8. JobSees(j, q, t)
    BY <1>3, <1>4, <1>5, <1>6, <1>7 DEF JobSees, Unmade
  <1>9. RowFits(row)
    BY <1>5, ConstantsAssumption DEF RowFits, Unmade
  <1>10. d[1] = j /\ table[d].status # "delivered" /\ job[j].item \in {d, NoDelivery}
    BY <1>1, <1>2, <1>6
  <1>11. q.pc \in BusyPcs /\ q.item = d
    BY <1>4 DEF BusyPcs
  <1> QED BY <1>1, <1>2, <1>4, <1>8, <1>9, <1>10, <1>11, JobWrites

LEMMA ResetGoesOn ==
  ASSUME Inv, Serial, NEW j \in Jobs, ReplayReset(j)
  PROVE  GoesOn
  <1>1. PICK old, d : old = job[j] /\ d = old.item
    OBVIOUS
  <1>2. old \in Job /\ old.pc = "reset" /\ d \in Deliveries /\ JobSees(j, old, table) /\ Busy(j)
    BY <1>1, ItemKnown DEF ReplayReset, Serial, AllSee, Busy, BusyPcs
  <1>3. PICK q, row, t : /\ q = Attempting(j, d) /\ row = [table[d] EXCEPT !.status = "pending", !.attempts = 0]
                         /\ t = [table EXCEPT ![d] = row]
    OBVIOUS
  <1>4. table[d] \in Delivery /\ table \in [Deliveries -> Delivery]
    BY <1>2 DEF Inv, TypeOK
  <1>5. job' = [job EXCEPT ![j] = q] /\ table' = t /\ UNCHANGED <<sent, faults>>
    BY <1>1, <1>2, <1>3, <1>4 DEF ReplayReset
  <1>6. t[d] = row /\ \A e \in Deliveries : e # d => t[e] = table[e]
    BY <1>2, <1>3, <1>4
  <1>7. /\ q.pc = "attempts" /\ q.item = d /\ q.kind = old.kind /\ q.todo = old.todo
        /\ q.flushed = old.flushed /\ q.gone = old.gone /\ q \in Job
    BY <1>1, <1>2, <1>3 DEF Attempting, Job, BusyPcs
  <1>8. row.status = "pending" /\ row.attempts = 0
    BY <1>3, <1>4 DEF Delivery
  <1>9. old.kind = "replay" /\ table[d].status = "dead_letter"
    BY <1>1, <1>2 DEF JobSees
  <1>10. JobSees(j, q, t)
    BY <1>2, <1>6, <1>7, <1>8, <1>9 DEF JobSees, Unmade
  <1>11. RowFits(row)
    BY <1>8, ConstantsAssumption DEF RowFits, Unmade
  <1>12. q.pc \in BusyPcs /\ q.item = d /\ job[j].item \in {d, NoDelivery}
    BY <1>1, <1>7 DEF BusyPcs
  <1> QED BY <1>2, <1>3, <1>5, <1>7, <1>9, <1>10, <1>11, <1>12, JobWrites

LEMMA NextRetryGoesOn ==
  ASSUME Inv, Serial, NEW j \in Jobs, NEW d \in Deliveries, NextRetry(j, d)
  PROVE  GoesOn
  <1>1. PICK old \in Job : old = job[j] /\ JobSees(j, old, table)
    BY DEF Inv, TypeOK, Serial, AllSee
  <1>2. PICK on, off :
          /\ on = [old EXCEPT !.flushed = old.flushed \union old.gone, !.pc = "attempts", !.item = d, !.seen = d[2]]
          /\ off = [old EXCEPT !.flushed = old.flushed \union old.gone, !.todo = old.todo \ {d},
                               !.gone = old.gone \union {d}, !.seen = NoHook]
    OBVIOUS
  <1>3. /\ old.pc = "next" /\ d \in old.todo
        /\ job' = [job EXCEPT ![j] = on] \/ job' = [job EXCEPT ![j] = off]
        /\ UNCHANGED <<table, sent, faults>>
    BY <1>1, <1>2 DEF NextRetry, Job
  <1>4. /\ old.kind = "retry" /\ old.item = NoDelivery /\ old.todo \intersect old.gone = {}
        /\ \A e \in old.todo \union old.gone : table[e].status \in Unmade /\ table[e].next = "due"
    BY <1>1, <1>3 DEF JobSees
  <1>5. d[2] \in Hooks
    BY HookOfDelivery
  <1>6. /\ on \in Job /\ on.pc = "attempts" /\ on.item = d /\ on.todo = old.todo /\ on.gone = old.gone
        /\ on.kind = "retry"
    BY <1>2, <1>4, <1>5 DEF Job, BusyPcs
  <1>7. JobSees(j, on, table)
    BY <1>3, <1>4, <1>6 DEF JobSees
  <1>8. /\ off \in Job /\ off.pc = "next" /\ off.item = NoDelivery /\ off.kind = "retry"
        /\ off.todo = old.todo \ {d} /\ off.gone = old.gone \union {d}
    BY <1>2, <1>3, <1>4 DEF Job
  <1>9. off.todo \intersect off.gone = {} /\ off.todo \union off.gone \subseteq old.todo \union old.gone
    BY <1>3, <1>4, <1>8
  <1>10. JobSees(j, off, table)
    BY <1>4, <1>8, <1>9 DEF JobSees
  <1>11. job[j].item \notin Deliveries
    BY <1>1, <1>4, NoDeliveryApart
  <1>12. CASE job' = [job EXCEPT ![j] = on]
    BY <1>3, <1>6, <1>7, <1>11, <1>12, JobMoves
  <1>13. CASE job' = [job EXCEPT ![j] = off]
    BY <1>3, <1>8, <1>10, <1>11, <1>13, JobMoves
  <1> QED BY <1>3, <1>12, <1>13

LEMMA FinishRetryGoesOn ==
  ASSUME Inv, Serial, NEW j \in Jobs, FinishRetry(j)
  PROVE  GoesOn
  <1>1. PICK old \in Job : old = job[j] /\ JobSees(j, old, table)
    BY DEF Inv, TypeOK, Serial, AllSee
  <1>2. PICK t : t = table'
    OBVIOUS
  <1>3. /\ old.pc = "next" /\ Busy(j) /\ job' = [job EXCEPT ![j] = Ended] /\ UNCHANGED <<sent, faults>>
        /\ t = [d \in Deliveries |-> IF d \in old.gone
                  THEN [table[d] EXCEPT !.status = "dead_letter"] ELSE table[d]]
    BY <1>1, <1>2 DEF FinishRetry, Busy, BusyPcs
  <1>4. old.kind = "retry" /\ old.item = NoDelivery /\ \A d \in old.gone : table[d].status \in Unmade
    BY <1>1, <1>3 DEF JobSees
  <1>5. ASSUME NEW d \in Deliveries
        PROVE  \/ t[d] = table[d] /\ d \notin old.gone
               \/ /\ t[d].status = "dead_letter" /\ table[d].status \in Unmade
                  /\ t[d].attempts = table[d].attempts /\ t[d].next = table[d].next
    <2>1. table[d] \in Delivery
      BY DEF Inv, TypeOK
    <2>2. CASE d \in old.gone
      <3>1. t[d] = [table[d] EXCEPT !.status = "dead_letter"]
        BY <1>3, <2>2
      <3> QED BY <1>4, <2>1, <2>2, <3>1 DEF Delivery
    <2>3. CASE d \notin old.gone
      BY <1>3, <2>3
    <2> QED BY <2>2, <2>3
  <1>6. \A d \in Deliveries : table[d].status = "absent" => t[d].status = "absent"
    BY <1>5 DEF Unmade
  <1>7. \A k \in Jobs : k # j => JobSees(k, job[k], t)
    <2>1. \A d \in Deliveries : table[d].status = "absent" => t[d].status = "absent" \/ d[1] = j
      BY <1>6
    <2> QED BY <1>3, <2>1, OthersSee
  <1>8. \A k \in Jobs : JobSees(k, job'[k], t)
    BY <1>3, <1>7, EndedSees DEF Inv, TypeOK
  <1>9. AllSee'
    BY <1>2, <1>8 DEF AllSee
  <1>10. \A d \in Deliveries : RowFits(t[d])
    <2>1. ASSUME NEW d \in Deliveries PROVE RowFits(t[d])
      <3>1. RowFits(table[d])
        BY DEF Serial, AllFit
      <3> QED BY <1>5, <3>1 DEF RowFits, Unmade
    <2> QED BY <2>1
  <1>11. AllFit'
    BY <1>2, <1>10 DEF AllFit
  <1>12. KeepsDelivered
    <2>1. \A d \in Deliveries : table[d].status = "delivered" => t[d] = table[d]
      BY <1>5 DEF Unmade
    <2> QED BY <1>2, <1>3, <2>1 DEF KeepsDelivered
  <1>13. \A d \in Deliveries : faults = 0 /\ t[d].status \in Unmade => t[d].next # "none"
    <2>1. ASSUME NEW d \in Deliveries, faults = 0, t[d].status \in Unmade, t[d].next = "none" PROVE FALSE
      <3>1. t[d] = table[d]
        BY <1>5, <2>1 DEF Unmade
      <3>2. PICK k \in Jobs : Busy(k) /\ job[k].item = d
        BY <2>1, <3>1 DEF Serial, NothingIsForgotten, InHand, Unmade
      <3>3. k = j
        BY <1>3, <3>2, Alone
      <3> QED BY <1>1, <1>4, <3>2, <3>3, NoDeliveryApart
    <2> QED BY <2>1
  <1>14. NothingIsForgotten'
    BY <1>2, <1>3, <1>13 DEF NothingIsForgotten, Unmade
  <1> QED BY <1>9, <1>11, <1>12, <1>14 DEF GoesOn

LEMMA ReadGoesOn ==
  ASSUME Inv, Serial, NEW j \in Jobs, ReadAttempts(j)
  PROVE  GoesOn
  <1>1. PICK old \in Job : old = job[j] /\ JobSees(j, old, table)
    BY DEF Inv, TypeOK, Serial, AllSee
  <1>2. old.pc = "attempts" /\ old.item \in Deliveries /\ UNCHANGED <<table, sent, faults>>
    BY <1>1, ItemKnown DEF ReadAttempts
  <1>3. PICK n : n = table[old.item].attempts + 1
    OBVIOUS
  <1>4. n \in Nat
    BY <1>2, <1>3 DEF Inv, TypeOK, Delivery
  <1>5. PICK q : q = [old EXCEPT !.pc = "post", !.attempt = n]
    OBVIOUS
  <1>6. job' = [job EXCEPT ![j] = q]
    BY <1>1, <1>3, <1>5 DEF ReadAttempts, Inv, TypeOK
  <1>7. /\ q.pc = "post" /\ q.attempt = n /\ q.item = old.item /\ q.kind = old.kind /\ q.todo = old.todo
        /\ q.flushed = old.flushed /\ q.gone = old.gone /\ q \in Job
    BY <1>4, <1>5 DEF Job, BusyPcs
  <1>8. JobSees(j, q, table)
    BY <1>1, <1>2, <1>3, <1>7 DEF JobSees
  <1>9. q.pc \in BusyPcs /\ q.item = job[j].item
    BY <1>1, <1>7 DEF BusyPcs
  <1> QED BY <1>2, <1>6, <1>7, <1>8, <1>9, JobMoves

LEMMA PostGoesOn ==
  ASSUME Inv, Serial, NEW j \in Jobs, Post(j)
  PROVE  GoesOn
  <1>1. PICK old \in Job : old = job[j] /\ JobSees(j, old, table)
    BY DEF Inv, TypeOK, Serial, AllSee
  <1>2. old.pc = "post" /\ old.item \in Deliveries /\ UNCHANGED <<table, faults>>
    BY <1>1, ItemKnown DEF Post
  <1>3. PICK good \in BOOLEAN : job' = [job EXCEPT ![j].pc = "record", ![j].good = good]
    BY DEF Post, Success
  <1>4. PICK q : q = [old EXCEPT !.pc = "record", !.good = good]
    OBVIOUS
  <1>5. job' = [job EXCEPT ![j] = q]
    BY <1>1, <1>3, <1>4 DEF Inv, TypeOK
  <1>6. /\ q.pc = "record" /\ q.attempt = old.attempt /\ q.item = old.item /\ q.kind = old.kind
        /\ q.todo = old.todo /\ q.flushed = old.flushed /\ q.gone = old.gone /\ q \in Job
    BY <1>4 DEF Job, BusyPcs
  <1>7. JobSees(j, q, table)
    BY <1>1, <1>2, <1>6 DEF JobSees
  <1>8. table[old.item].status # "delivered"
    BY <1>1, <1>2 DEF JobSees, Unmade
  <1>9. sent' = [sent EXCEPT ![old.item] = @ + 1] /\ sent \in [Deliveries -> Nat]
    BY <1>1 DEF Post, Inv, TypeOK
  <1>10. \A d \in Deliveries : table[d].status = "delivered" => sent'[d] = sent[d]
    BY <1>8, <1>9
  <1>11. q.pc \in BusyPcs /\ q.item = job[j].item
    BY <1>1, <1>6 DEF BusyPcs
  <1> QED BY <1>2, <1>5, <1>6, <1>7, <1>10, <1>11, JobMoves

LEMMA ContinuedSees ==
  ASSUME NEW j, NEW q \in Job, q.pc = "record", NEW t, NEW u, JobSees(j, q, t),
         \A d \in Deliveries : d # q.item => u[d] = t[d]
  PROVE  Continued(q) \in Job /\ JobSees(j, Continued(q), u)
  <1>1. q.kind \in {"dispatch", "retry", "replay"} /\ q.todo \subseteq Deliveries /\ q.gone \subseteq Deliveries
    BY DEF JobSees, Job, Kinds
  <1>2. CASE q.kind # "retry" /\ q.todo \ {q.item} = {}
    BY <1>2, EndedSees, EndedKnows DEF Continued
  <1>3. CASE q.kind = "dispatch" /\ q.todo \ {q.item} # {}
    <2>1. PICK c : c = Continued(q)
      OBVIOUS
    <2>2. c = [q EXCEPT !.todo = q.todo \ {q.item}, !.item = NoDelivery, !.good = FALSE, !.attempt = 0, !.pc = "create"]
      BY <1>3, <2>1 DEF Continued, Job
    <2>3. /\ c \in Job /\ c.pc = "create" /\ c.kind = "dispatch" /\ c.todo = q.todo \ {q.item} /\ c.item = NoDelivery
          /\ c.flushed = q.flushed /\ c.gone = q.gone
      BY <1>3, <2>2 DEF Job, BusyPcs
    <2>4. \A d \in q.todo \ {q.item} : d[1] = j /\ u[d].status = "absent"
      BY <1>1, <1>3 DEF JobSees
    <2>5. q.flushed = {} /\ q.gone = {}
      BY <1>3 DEF JobSees
    <2>6. JobSees(j, c, u)
      BY <2>3, <2>4, <2>5 DEF JobSees
    <2> QED BY <2>1, <2>3, <2>6
  <1>4. CASE q.kind = "retry"
    <2>1. PICK c : c = Continued(q)
      OBVIOUS
    <2>2. c = [q EXCEPT !.todo = q.todo \ {q.item}, !.item = NoDelivery, !.good = FALSE, !.attempt = 0, !.pc = "next"]
      BY <1>4, <2>1 DEF Continued, Job
    <2>3. /\ c \in Job /\ c.pc = "next" /\ c.kind = "retry" /\ c.todo = q.todo \ {q.item} /\ c.item = NoDelivery
          /\ c.gone = q.gone
      BY <1>4, <2>2 DEF Job, BusyPcs
    <2>4. q.item \in q.todo /\ q.todo \intersect q.gone = {}
      BY <1>4 DEF JobSees
    <2>5. \A d \in (q.todo \ {q.item}) \union q.gone : d # q.item /\ d \in q.todo \union q.gone
      BY <2>4
    <2>6. \A d \in (q.todo \ {q.item}) \union q.gone : u[d].status \in Unmade /\ u[d].next = "due"
      BY <1>1, <1>4, <2>5 DEF JobSees
    <2>7. JobSees(j, c, u)
      BY <2>3, <2>4, <2>6 DEF JobSees
    <2> QED BY <2>1, <2>3, <2>7
  <1>5. q.kind = "replay" => q.todo \ {q.item} = {}
    BY DEF JobSees
  <1> QED BY <1>1, <1>2, <1>3, <1>4, <1>5

LEMMA AttemptedFits ==
  ASSUME NEW n \in Nat, NEW good \in BOOLEAN, n + 1 <= MaxRetries
  PROVE  /\ RowFits(Attempted(n + 1, good))
         /\ Attempted(n + 1, good).attempts = n + 1
         /\ Attempted(n + 1, good).status \in Unmade => Attempted(n + 1, good).next # "none"
  <1>1. PICK row : row = Attempted(n + 1, good)
    OBVIOUS
  <1>2. MaxRetries \in Nat
    BY ConstantsAssumption
  <1>3. CASE good
    <2>1. row.status = "delivered" /\ row.attempts = n + 1 /\ row.next = "none"
      BY <1>1, <1>3 DEF Attempted
    <2> QED BY <1>1, <2>1 DEF RowFits, Unmade
  <1>4. CASE ~good /\ n + 1 >= MaxRetries
    <2>1. row.status = "dead_letter" /\ row.attempts = n + 1
      BY <1>1, <1>4 DEF Attempted, Exhausted
    <2> QED BY <1>1, <2>1 DEF RowFits, Unmade
  <1>5. CASE ~good /\ ~(n + 1 >= MaxRetries)
    <2>1. row.status = "failed" /\ row.attempts = n + 1 /\ row.next = "later"
      BY <1>1, <1>5 DEF Attempted, Exhausted
    <2> QED BY <1>1, <1>2, <1>5, <2>1 DEF RowFits, Unmade
  <1> QED BY <1>3, <1>4, <1>5

LEMMA RecordGoesOn ==
  ASSUME Inv, Serial, NEW j \in Jobs, Record(j)
  PROVE  GoesOn
  <1>1. PICK old \in Job : old = job[j] /\ JobSees(j, old, table)
    BY DEF Inv, TypeOK, Serial, AllSee
  <1>2. PICK d : d = old.item
    OBVIOUS
  <1>3. old.pc = "record" /\ d \in Deliveries /\ Busy(j)
    BY <1>1, <1>2, ItemKnown DEF Record, Busy, BusyPcs
  <1>4. PICK q, row, t : /\ q = Continued(old) /\ row = Attempted(old.attempt, old.good)
                         /\ t = [table EXCEPT ![d] = row]
    OBVIOUS
  <1>5. job' = [job EXCEPT ![j] = q] /\ table' = t /\ UNCHANGED <<sent, faults>>
    BY <1>1, <1>2, <1>4 DEF Record
  <1>6. t[d] = row /\ \A e \in Deliveries : e # d => t[e] = table[e]
    BY <1>3, <1>4 DEF Inv, TypeOK
  <1>7. q \in Job /\ JobSees(j, q, t)
    <2>1. old.pc = "record" /\ \A e \in Deliveries : e # old.item => t[e] = table[e]
      BY <1>2, <1>3, <1>6
    <2>2. Continued(old) \in Job /\ JobSees(j, Continued(old), t)
      BY <1>1, <2>1, ContinuedSees
    <2> QED BY <1>4, <2>2
  <1>8. PICK n \in Nat : n = table[d].attempts
    BY <1>3 DEF Inv, TypeOK, Delivery
  <1>9. table[d].status \in Unmade /\ old.attempt = n + 1 /\ old.good \in BOOLEAN
    BY <1>1, <1>2, <1>3, <1>8 DEF JobSees, Job
  <1>10. RowFits(table[d])
    BY <1>3 DEF Serial, AllFit
  <1>11. n + 1 <= MaxRetries
    BY <1>8, <1>9, <1>10, ConstantsAssumption DEF RowFits
  <1>12. RowFits(row) /\ (row.status \in Unmade => row.next # "none")
    BY <1>4, <1>9, <1>11, AttemptedFits
  <1>13. table[d].status # "absent" /\ table[d].status # "delivered"
    BY <1>9 DEF Unmade
  <1>14. job[j].item \in {d, NoDelivery}
    BY <1>1, <1>2
  <1> QED BY <1>3, <1>4, <1>5, <1>7, <1>12, <1>13, <1>14, JobWrites

\* A job that gives up leaves only what has a time for its next attempt, or a failure is
\* on record.
LEMMA RaisesGoesOn ==
  ASSUME Inv, Serial, NEW j \in Jobs, Raises(j), faults' = 0 => faults = 0,
         \/ faults' # 0
         \/ job[j].item \notin Deliveries
         \/ table[job[j].item].next # "none"
  PROVE  GoesOn
  <1>1. PICK old \in Job : old = job[j] /\ JobSees(j, old, table)
    BY DEF Inv, TypeOK, Serial, AllSee
  <1>2. UNCHANGED <<table, sent>>
    BY DEF Raises
  <1>3. CASE old.pc = "record" /\ old.good
    <2>1. PICK q : q = [old EXCEPT !.good = FALSE]
      OBVIOUS
    <2>2. job' = [job EXCEPT ![j] = q]
      BY <1>1, <1>3, <2>1 DEF Raises
    <2>3. /\ q.pc = old.pc /\ q.attempt = old.attempt /\ q.item = old.item /\ q.kind = old.kind
          /\ q.todo = old.todo /\ q.flushed = old.flushed /\ q.gone = old.gone /\ q \in Job
      BY <2>1 DEF Job
    <2>4. JobSees(j, q, table)
      BY <1>1, <2>3 DEF JobSees
    <2> QED BY <1>1, <1>2, <2>2, <2>3, <2>4, JobMoves
  <1>4. CASE ~(old.pc = "record" /\ old.good)
    <2>1. job' = [job EXCEPT ![j] = Ended]
      BY <1>1, <1>4 DEF Raises
    <2>2. Ended \in Job /\ JobSees(j, Ended, table)
      BY EndedSees, EndedKnows
    <2> QED BY <1>2, <2>1, <2>2, JobMoves
  <1> QED BY <1>3, <1>4

\* Alone, a job can only be in its own way: a retry batch whose own session holds the lock
\* that its attempt waits for.
LEMMA TimesOutGoesOn ==
  ASSUME Inv, Serial, NEW j \in Jobs, LockTimesOut(j)
  PROVE  GoesOn
  <1>1. PICK old \in Job : old = job[j] /\ JobSees(j, old, table)
    BY DEF Inv, TypeOK, Serial, AllSee
  <1>2. Raises(j) /\ faults' = faults
    BY DEF LockTimesOut
  <1>3. old.pc \in {"create", "reset", "record", "next"} /\ Busy(j)
    BY <1>1 DEF LockTimesOut, WantsToWrite, Busy, BusyPcs
  <1>4. CASE old.pc \in {"create", "next"}
    <2>1. job[j].item \notin Deliveries
      BY <1>1, <1>4, NoDeliveryApart DEF JobSees
    <2> QED BY <1>2, <2>1, RaisesGoesOn
  <1>5. CASE old.pc \in {"reset", "record"}
    <2>1. PICK k \in Jobs : job[k].flushed # {}
      BY <1>1, <1>5 DEF LockTimesOut, WantsToWrite, Writable
    <2>2. JobSees(k, job[k], table) /\ job[k] \in Job
      BY DEF Serial, AllSee, Inv, TypeOK
    <2>3. job[k].kind = "retry"
      BY <2>1, <2>2 DEF JobSees
    <2>4. Busy(k)
      BY <2>2, <2>3 DEF JobSees, Job, Busy
    <2>5. k = j
      BY <1>3, <2>4, Alone
    <2>6. table[job[j].item].next # "none"
      BY <1>1, <1>5, <2>3, <2>5 DEF JobSees
    <2> QED BY <1>2, <2>6, RaisesGoesOn
  <1> QED BY <1>3, <1>4, <1>5

LEMMA CrashGoesOn ==
  ASSUME Inv, Serial, Crash
  PROVE  GoesOn
  <1>1. /\ UNCHANGED <<table, sent>> /\ faults' = faults + 1 /\ faults \in Nat
        /\ job' = [j \in Jobs |-> IF Busy(j) THEN Ended ELSE job[j]]
    BY DEF Crash, Inv, TypeOK
  <1>2. \A j \in Jobs : job'[j] = Ended \/ job'[j] = job[j]
    BY <1>1
  <1>3. \A j \in Jobs : JobSees(j, job'[j], table)
    BY <1>2, EndedSees DEF Serial, AllSee
  <1>4. AllSee' /\ AllFit' /\ KeepsDelivered
    BY <1>1, <1>3 DEF Serial, AllSee, AllFit, KeepsDelivered
  <1>5. NothingIsForgotten'
    BY <1>1 DEF NothingIsForgotten
  <1> QED BY <1>4, <1>5 DEF GoesOn

LEMMA NextGoesOn ==
  ASSUME Inv, Serial, [Next]_vars
  PROVE  GoesOn
  <1>1. CASE UNCHANGED vars
    BY <1>1, StillGoesOn DEF vars
  <1>2. ASSUME NEW h \in Hooks, Register(h) \/ Deactivate(h) PROVE GoesOn
    BY <1>2, StillGoesOn DEF Register, Deactivate
  <1>3. ASSUME NEW d \in Deliveries, Elapse(d) PROVE GoesOn
    BY <1>3, ElapseGoesOn
  <1>4. ASSUME NEW j \in Jobs, Dispatch(j) \/ StartRetry(j) \/ Replay(j) PROVE GoesOn
    BY <1>4, StartsGoOn
  <1>5. ASSUME NEW j \in Jobs, Step(j) PROVE GoesOn
    <2>1. ASSUME NEW d \in Deliveries, CreateRecord(j, d) PROVE GoesOn
      BY <2>1, CreateGoesOn
    <2>2. ASSUME NEW d \in Deliveries, NextRetry(j, d) PROVE GoesOn
      BY <2>2, NextRetryGoesOn
    <2>3. CASE ReplayReset(j)
      BY <2>3, ResetGoesOn
    <2>4. CASE FinishRetry(j)
      BY <2>4, FinishRetryGoesOn
    <2>5. CASE ReadAttempts(j)
      BY <2>5, ReadGoesOn
    <2>6. CASE Post(j)
      BY <2>6, PostGoesOn
    <2>7. CASE Record(j)
      BY <2>7, RecordGoesOn
    <2>8. CASE LockTimesOut(j)
      BY <2>8, TimesOutGoesOn
    <2> QED BY <1>5, <2>1, <2>2, <2>3, <2>4, <2>5, <2>6, <2>7, <2>8 DEF Step
  <1>6. ASSUME NEW j \in Jobs, DatabaseFails(j) PROVE GoesOn
    <2>1. Raises(j) /\ faults' # 0
      BY <1>6 DEF DatabaseFails, Inv, TypeOK
    <2> QED BY <2>1, RaisesGoesOn
  <1>7. CASE Crash
    BY <1>7, CrashGoesOn
  <1> QED BY <1>1, <1>2, <1>3, <1>4, <1>5, <1>6, <1>7 DEF Next

LEMMA InitSerial == Init => Serial
  <1> SUFFICES ASSUME Init PROVE Serial
    OBVIOUS
  <1>1. /\ \A d \in Deliveries : table[d].status = "absent" /\ table[d].attempts = 0
        /\ \A j \in Jobs : job[j] = Fresh
    BY DEF Init, NewDelivery
  <1>2. OneJobAtATime
    BY <1>1 DEF OneJobAtATime, Busy, BusyPcs, Fresh
  <1>3. AllSee
    BY <1>1 DEF AllSee, JobSees, Fresh
  <1>4. AllFit
    BY <1>1, ConstantsAssumption DEF AllFit, RowFits, Unmade
  <1>5. NothingIsForgotten
    BY <1>1 DEF NothingIsForgotten
  <1> QED BY <1>2, <1>3, <1>4, <1>5 DEF Serial

LEMMA StepSerial == Inv /\ Serial /\ [Next /\ OneJobAtATime']_vars => Serial' /\ KeepsDelivered
  <1> SUFFICES ASSUME Inv, Serial, [Next /\ OneJobAtATime']_vars PROVE Serial' /\ KeepsDelivered
    OBVIOUS
  <1>1. GoesOn
    BY NextGoesOn
  <1>2. OneJobAtATime'
    BY DEF vars, Serial, OneJobAtATime, Busy
  <1> QED BY <1>1, <1>2 DEF GoesOn, Serial

LEMMA SerialAlways == SerialSpec => []Inv /\ []Serial
  <1>1. [Next /\ OneJobAtATime']_vars => [Next]_vars
    OBVIOUS
  <1>2. SerialSpec => Spec
    BY <1>1, PTL DEF SerialSpec, Spec
  <1> QED BY <1>2, InvAlways, InitSerial, StepSerial, PTL DEF SerialSpec

-----------------------------------------------------------------------------
(* The POSTs that jobs make when they do not overlap *)

Owed(d) == \E j \in Jobs : job[j].pc = "record" /\ job[j].item = d

\* Every POST is an attempt on record, is about to be, was forgiven by a replay, or met a
\* failure before it was recorded.
Tallied(d) ==
  /\ sent[d] <= MaxRetries * replays[d] + table[d].attempts + faults + 1
  /\ ~Owed(d) => sent[d] <= MaxRetries * replays[d] + table[d].attempts + faults

Tally == \A d \in Deliveries : Tallied(d)

LEMMA TallyTypes ==
  ASSUME Inv, NEW d \in Deliveries
  PROVE  /\ sent[d] \in Nat /\ replays[d] \in Nat /\ table[d].attempts \in Nat /\ faults \in Nat
         /\ MaxRetries \in Nat /\ MaxRetries * replays[d] \in Nat
  <1>1. /\ sent[d] \in Nat /\ replays[d] \in Nat /\ table[d].attempts \in Nat /\ faults \in Nat
    BY DEF Inv, TypeOK, Delivery
  <1>2. MaxRetries \in Nat
    BY ConstantsAssumption
  <1>3. \A m, n \in Nat : m * n \in Nat
    OBVIOUS
  <1> QED BY <1>1, <1>2, <1>3

\* A step that makes no POST and loses no attempt without a failure.
LEMMA TallyStays ==
  ASSUME Inv, Tally, NEW d \in Deliveries, sent'[d] = sent[d], replays'[d] = replays[d],
         table'[d].attempts = table[d].attempts, faults' \in {faults, faults + 1},
         Owed(d) /\ ~Owed(d)' => faults' = faults + 1
  PROVE  Tallied(d)'
  <1>1. PICK s, m, a, f, g :
          s = sent[d] /\ m = MaxRetries * replays[d] /\ a = table[d].attempts /\ f = faults /\ g = faults'
    OBVIOUS
  <1>2. s \in Nat /\ m \in Nat /\ a \in Nat /\ f \in Nat
    BY <1>1, TallyTypes
  <1>3. s <= m + a + f + 1 /\ (~Owed(d) => s <= m + a + f)
    BY <1>1 DEF Tally, Tallied
  <1>4. sent'[d] = s /\ MaxRetries * replays'[d] = m /\ table'[d].attempts = a /\ g \in {f, f + 1}
    BY <1>1
  <1>5. s <= m + a + g + 1
    BY <1>2, <1>3, <1>4
  <1>6. g = f + 1 => s <= m + a + g
    BY <1>2, <1>3
  <1>7. ~Owed(d) => s <= m + a + g
    <2>1. s <= m + a + f => s <= m + a + g
      BY <1>2, <1>4
    <2> QED BY <1>3, <2>1
  <1>8. (sent[d] <= MaxRetries * replays[d] + table[d].attempts + faults + 1)'
    BY <1>1, <1>4, <1>5
  <1>9. ~Owed(d)' => s <= m + a + g
    BY <1>1, <1>6, <1>7
  <1>10. ~Owed(d)' => (sent[d] <= MaxRetries * replays[d] + table[d].attempts + faults)'
    BY <1>1, <1>4, <1>9
  <1> QED BY <1>8, <1>10 DEF Tallied

\* A job that owes nothing moves on.
LEMMA OwedStays ==
  ASSUME Inv, NEW j \in Jobs, NEW q, job' = [job EXCEPT ![j] = q], job[j].pc # "record", NEW d
  PROVE  Owed(d) => Owed(d)'
  BY DEF Owed, Inv, TypeOK

LEMMA OwedByOne ==
  ASSUME Serial, NEW j \in Jobs, Busy(j), NEW d, Owed(d)
  PROVE  job[j].pc = "record" /\ job[j].item = d
  BY Alone DEF Owed, Busy, BusyPcs

LEMMA TallyMoves ==
  ASSUME Inv, Tally, NEW j \in Jobs, NEW q, job' = [job EXCEPT ![j] = q], job[j].pc # "record",
         UNCHANGED <<sent, replays, faults>>,
         \A d \in Deliveries : table'[d].attempts = table[d].attempts
  PROVE  Tally'
  <1>1. ASSUME NEW d \in Deliveries PROVE Tallied(d)'
    <2>1. Owed(d) => Owed(d)'
      BY OwedStays
    <2>2. faults' \in {faults, faults + 1}
      OBVIOUS
    <2> QED BY <2>1, <2>2, TallyStays
  <1> QED BY <1>1 DEF Tally

LEMMA QuietTally ==
  ASSUME Inv, Serial, Tally, NEW j \in Jobs,
         \/ Dispatch(j) \/ StartRetry(j) \/ Replay(j) \/ ReadAttempts(j)
         \/ \E d \in Deliveries : NextRetry(j, d)
  PROVE  Tally'
  <1>1. UNCHANGED <<table, sent, replays, faults>> /\ job[j].pc # "record"
    <2>1. CASE Dispatch(j) \/ StartRetry(j) \/ Replay(j) \/ ReadAttempts(j)
      BY <2>1 DEF Dispatch, Active, StartRetry, Replay, Start, ReadAttempts
    <2>2. ASSUME NEW d \in Deliveries, NextRetry(j, d)
          PROVE  UNCHANGED <<table, sent, replays, faults>> /\ job[j].pc # "record"
      <3>1. job[j] \in Job
        BY DEF Inv, TypeOK
      <3> QED BY <2>2, <3>1 DEF NextRetry, Job
    <2> QED BY <2>1, <2>2
  <1>2. PICK q : q = job'[j]
    OBVIOUS
  <1>3. job' = [job EXCEPT ![j] = q]
    <2>1. CASE Dispatch(j)
      BY <1>2, <2>1 DEF Dispatch, Active, Start, Inv, TypeOK
    <2>2. CASE StartRetry(j)
      BY <1>2, <2>2 DEF StartRetry, Start, Inv, TypeOK
    <2>3. CASE Replay(j)
      BY <1>2, <2>3 DEF Replay, Start, Inv, TypeOK
    <2>4. CASE ReadAttempts(j)
      BY <1>2, <2>4 DEF ReadAttempts, Inv, TypeOK
    <2>5. CASE \E d \in Deliveries : NextRetry(j, d)
      BY <1>2, <2>5 DEF NextRetry, Inv, TypeOK
    <2> QED BY <2>1, <2>2, <2>3, <2>4, <2>5
  <1>4. \A d \in Deliveries : table'[d].attempts = table[d].attempts
    BY <1>1
  <1> QED BY <1>1, <1>3, <1>4, TallyMoves

\* A record that is made had no attempts, and the rows a batch gives up keep theirs.
LEMMA CreateTally ==
  ASSUME Inv, Serial, Tally, NEW j \in Jobs, NEW e \in Deliveries, CreateRecord(j, e)
  PROVE  Tally'
  <1>1. PICK old \in Job : old = job[j] /\ JobSees(j, old, table)
    BY DEF Inv, TypeOK, Serial, AllSee
  <1>2. /\ old.pc = "create" /\ e \in old.todo /\ UNCHANGED <<sent, replays, faults>>
        /\ table' = [table EXCEPT ![e] = NewDelivery]
        /\ job' = [job EXCEPT ![j] = Attempting(j, e)]
    BY <1>1 DEF CreateRecord
  <1>3. old.kind = "dispatch" /\ old.item = NoDelivery
    BY <1>1, <1>2 DEF JobSees
  <1>4. table[e].status = "absent"
    BY <1>1, <1>2, <1>3, NoDeliveryApart DEF JobSees
  <1>5. table[e].attempts = 0
    BY <1>4 DEF Serial, AllFit, RowFits
  <1>6. \A d \in Deliveries : table'[d].attempts = table[d].attempts
    BY <1>2, <1>5 DEF NewDelivery, Inv, TypeOK
  <1> QED BY <1>1, <1>2, <1>6, TallyMoves

LEMMA FinishTally ==
  ASSUME Inv, Tally, NEW j \in Jobs, FinishRetry(j)
  PROVE  Tally'
  <1>1. /\ job[j].pc # "record" /\ UNCHANGED <<sent, replays, faults>>
        /\ job' = [job EXCEPT ![j] = Ended]
        /\ table' = [d \in Deliveries |-> IF d \in job[j].gone
                       THEN [table[d] EXCEPT !.status = "dead_letter"] ELSE table[d]]
    BY DEF FinishRetry
  <1>2. ASSUME NEW d \in Deliveries PROVE table'[d].attempts = table[d].attempts
    <2>1. table[d] \in Delivery
      BY DEF Inv, TypeOK
    <2>2. [table[d] EXCEPT !.status = "dead_letter"].attempts = table[d].attempts
      BY <2>1 DEF Delivery
    <2> QED BY <1>1, <2>2
  <1> QED BY <1>1, <1>2, TallyMoves

\* A replay forgives at most MaxRetries attempts.
LEMMA ResetTally ==
  ASSUME Inv, Serial, Tally, NEW j \in Jobs, ReplayReset(j)
  PROVE  Tally'
  <1>1. PICK e : e = job[j].item
    OBVIOUS
  <1>2. /\ job[j].pc = "reset" /\ e \in Deliveries /\ Busy(j) /\ sent' = sent /\ faults' = faults
        /\ table' = [table EXCEPT ![e].status = "pending", ![e].attempts = 0]
        /\ replays' = [replays EXCEPT ![e] = @ + 1]
        /\ job' = [job EXCEPT ![j] = Attempting(j, e)]
    BY <1>1, ItemKnown DEF ReplayReset, Busy, BusyPcs
  <1>3. ASSUME NEW d \in Deliveries, d # e PROVE Tallied(d)'
    <2>1. table'[d] = table[d] /\ replays'[d] = replays[d]
      BY <1>2, <1>3 DEF Inv, TypeOK
    <2>2. Owed(d) => Owed(d)'
      BY <1>2, OwedStays
    <2> QED BY <1>2, <2>1, <2>2, TallyStays
  <1>4. Tallied(e)'
    <2>1. PICK s, x, a, f : s = sent[e] /\ x = replays[e] /\ a = table[e].attempts /\ f = faults
      OBVIOUS
    <2>2. /\ s \in Nat /\ x \in Nat /\ a \in Nat /\ f \in Nat /\ MaxRetries \in Nat
          /\ MaxRetries * x \in Nat
      BY <1>2, <2>1, TallyTypes
    <2>3. ~Owed(e)
      BY <1>2, OwedByOne
    <2>4. s <= MaxRetries * x + a + f
      BY <1>2, <2>1, <2>3 DEF Tally, Tallied
    <2>5. a <= MaxRetries
      BY <1>2, <2>1 DEF Serial, AllFit, RowFits
    <2>6. MaxRetries * (x + 1) = MaxRetries * x + MaxRetries
      BY <2>2
    <2>7. s <= MaxRetries * (x + 1) + 0 + f
      <3>1. PICK m \in Nat, n \in Nat, k \in Nat : m = MaxRetries * x /\ n = MaxRetries * (x + 1) /\ k = MaxRetries
        BY <2>2, <2>6
      <3>2. n = m + k
        BY <2>6, <3>1
      <3>3. s <= n + 0 + f
        BY <2>2, <2>4, <2>5, <3>1, <3>2
      <3> QED BY <3>1, <3>3
    <2>8. table'[e].attempts = 0 /\ replays'[e] = x + 1 /\ sent'[e] = s /\ faults' = f
      BY <1>2, <2>1 DEF Inv, TypeOK, Delivery
    <2>9. (sent[e] <= MaxRetries * replays[e] + table[e].attempts + faults)'
      BY <2>7, <2>8
    <2>10. (sent[e] <= MaxRetries * replays[e] + table[e].attempts + faults + 1)'
      <3>1. PICK n \in Nat : n = MaxRetries * (x + 1)
        BY <2>2, <2>6
      <3>2. s <= n + 0 + f + 1
        BY <2>2, <2>7, <3>1
      <3> QED BY <2>8, <3>1, <3>2
    <2> QED BY <2>9, <2>10 DEF Tallied
  <1> QED BY <1>3, <1>4 DEF Tally

LEMMA PostTally ==
  ASSUME Inv, Serial, Tally, NEW j \in Jobs, Post(j)
  PROVE  Tally'
  <1>1. PICK e : e = job[j].item
    OBVIOUS
  <1>2. /\ job[j].pc = "post" /\ e \in Deliveries /\ Busy(j) /\ UNCHANGED <<table, replays, faults>>
        /\ sent' = [sent EXCEPT ![e] = @ + 1]
    BY <1>1, ItemKnown DEF Post, Busy, BusyPcs
  <1>3. PICK good \in BOOLEAN : job' = [job EXCEPT ![j].pc = "record", ![j].good = good]
    BY DEF Post, Success
  <1>4. PICK q : q = [job[j] EXCEPT !.pc = "record", !.good = good]
    OBVIOUS
  <1>5. job' = [job EXCEPT ![j] = q] /\ q.pc = "record" /\ q.item = e
    BY <1>1, <1>3, <1>4 DEF Inv, TypeOK, Job
  <1>6. ASSUME NEW d \in Deliveries, d # e PROVE Tallied(d)'
    <2>1. sent'[d] = sent[d]
      BY <1>2, <1>6 DEF Inv, TypeOK
    <2>2. Owed(d) => Owed(d)'
      BY <1>2, <1>5, OwedStays
    <2> QED BY <1>2, <2>1, <2>2, TallyStays
  <1>7. Tallied(e)'
    <2>1. PICK s, m, a, f : s = sent[e] /\ m = MaxRetries * replays[e] /\ a = table[e].attempts /\ f = faults
      OBVIOUS
    <2>2. s \in Nat /\ m \in Nat /\ a \in Nat /\ f \in Nat
      BY <1>2, <2>1, TallyTypes
    <2>3. ~Owed(e)
      BY <1>2, OwedByOne
    <2>4. s <= m + a + f
      BY <1>2, <2>1, <2>3 DEF Tally, Tallied
    <2>5. s + 1 <= m + a + f + 1
      BY <2>2, <2>4
    <2>6. sent'[e] = s + 1 /\ MaxRetries * replays'[e] = m /\ table'[e].attempts = a /\ faults' = f
      BY <1>2, <2>1 DEF Inv, TypeOK
    <2>7. (sent[e] <= MaxRetries * replays[e] + table[e].attempts + faults + 1)'
      BY <2>5, <2>6
    <2>8. Owed(e)'
      BY <1>5 DEF Owed, Inv, TypeOK
    <2> QED BY <2>7, <2>8 DEF Tallied
  <1> QED BY <1>6, <1>7 DEF Tally

LEMMA RecordTally ==
  ASSUME Inv, Serial, Tally, NEW j \in Jobs, Record(j)
  PROVE  Tally'
  <1>1. PICK old \in Job : old = job[j] /\ JobSees(j, old, table)
    BY DEF Inv, TypeOK, Serial, AllSee
  <1>2. PICK e : e = old.item
    OBVIOUS
  <1>3. /\ old.pc = "record" /\ e \in Deliveries /\ Busy(j) /\ UNCHANGED <<sent, replays, faults>>
        /\ table' = [table EXCEPT ![e] = Attempted(old.attempt, old.good)]
    BY <1>1, <1>2, ItemKnown DEF Record, Busy, BusyPcs
  <1>4. old.attempt = table[e].attempts + 1
    BY <1>1, <1>2, <1>3 DEF JobSees
  <1>5. table'[e].attempts = table[e].attempts + 1 /\ \A d \in Deliveries : d # e => table'[d] = table[d]
    BY <1>3, <1>4 DEF Attempted, Inv, TypeOK
  <1>6. ASSUME NEW d \in Deliveries, d # e PROVE Tallied(d)'
    <2>1. ~Owed(d)
      BY <1>1, <1>2, <1>3, <1>6, OwedByOne
    <2> QED BY <1>3, <1>5, <1>6, <2>1, TallyStays
  <1>7. Tallied(e)'
    <2>1. PICK s, m, a, f : s = sent[e] /\ m = MaxRetries * replays[e] /\ a = table[e].attempts /\ f = faults
      OBVIOUS
    <2>2. s \in Nat /\ m \in Nat /\ a \in Nat /\ f \in Nat
      BY <1>3, <2>1, TallyTypes
    <2>3. s <= m + a + f + 1
      BY <1>3, <2>1 DEF Tally, Tallied
    <2>4. s <= m + (a + 1) + f /\ s <= m + (a + 1) + f + 1
      BY <2>2, <2>3
    <2>5. sent'[e] = s /\ MaxRetries * replays'[e] = m /\ table'[e].attempts = a + 1 /\ faults' = f
      BY <1>3, <1>5, <2>1
    <2>6. (sent[e] <= MaxRetries * replays[e] + table[e].attempts + faults + 1)'
      BY <2>4, <2>5
    <2>7. (sent[e] <= MaxRetries * replays[e] + table[e].attempts + faults)'
      BY <2>4, <2>5
    <2> QED BY <2>6, <2>7 DEF Tallied
  <1> QED BY <1>6, <1>7 DEF Tally

\* A step that touches no row and counts a failure, or leaves the jobs alone as well.
LEMMA RestTally ==
  ASSUME Inv, Tally, UNCHANGED <<sent, replays>>,
         \A d \in Deliveries : table'[d].attempts = table[d].attempts,
         faults' = faults + 1 \/ UNCHANGED <<job, faults>>
  PROVE  Tally'
  <1>1. ASSUME NEW d \in Deliveries PROVE Tallied(d)'
    <2>1. Owed(d) /\ ~Owed(d)' => faults' = faults + 1
      BY DEF Owed
    <2>2. faults' \in {faults, faults + 1}
      OBVIOUS
    <2> QED BY <2>1, <2>2, TallyStays
  <1> QED BY <1>1 DEF Tally

LEMMA NextTally ==
  ASSUME OneWriter = FALSE, Inv, Serial, Tally, [Next]_vars
  PROVE  Tally'
  <1>1. CASE UNCHANGED vars
    BY <1>1, RestTally DEF vars
  <1>2. ASSUME NEW h \in Hooks, Register(h) \/ Deactivate(h) PROVE Tally'
    BY <1>2, RestTally DEF Register, Deactivate
  <1>3. ASSUME NEW d \in Deliveries, Elapse(d) PROVE Tally'
    <2>1. \A e \in Deliveries : table'[e].attempts = table[e].attempts
      BY <1>3 DEF Elapse, Inv, TypeOK, Delivery
    <2> QED BY <1>3, <2>1, RestTally DEF Elapse
  <1>4. ASSUME NEW j \in Jobs, Dispatch(j) \/ StartRetry(j) \/ Replay(j) PROVE Tally'
    BY <1>4, QuietTally
  <1>5. ASSUME NEW j \in Jobs, Step(j) PROVE Tally'
    <2>1. ASSUME NEW d \in Deliveries, CreateRecord(j, d) PROVE Tally'
      BY <2>1, CreateTally
    <2>2. ASSUME NEW d \in Deliveries, NextRetry(j, d) PROVE Tally'
      BY <2>2, QuietTally
    <2>3. CASE ReplayReset(j)
      BY <2>3, ResetTally
    <2>4. CASE FinishRetry(j)
      BY <2>4, FinishTally
    <2>5. CASE ReadAttempts(j)
      BY <2>5, QuietTally
    <2>6. CASE Post(j)
      BY <2>6, PostTally
    <2>7. CASE Record(j)
      BY <2>7, RecordTally
    <2>8. CASE LockTimesOut(j)
      BY <2>8 DEF LockTimesOut
    <2> QED BY <1>5, <2>1, <2>2, <2>3, <2>4, <2>5, <2>6, <2>7, <2>8 DEF Step
  <1>6. ASSUME NEW j \in Jobs, DatabaseFails(j) PROVE Tally'
    BY <1>6, RestTally DEF DatabaseFails, Raises
  <1>7. CASE Crash
    BY <1>7, RestTally DEF Crash
  <1> QED BY <1>1, <1>2, <1>3, <1>4, <1>5, <1>6, <1>7 DEF Next

LEMMA InitTally == Init => Tally
  <1> SUFFICES ASSUME Init, NEW d \in Deliveries PROVE Tallied(d)
    BY DEF Tally
  <1>1. sent[d] = 0 /\ replays[d] = 0 /\ table[d].attempts = 0 /\ faults = 0
    BY DEF Init, NewDelivery
  <1>2. MaxRetries * 0 = 0
    BY ConstantsAssumption
  <1> QED BY <1>1, <1>2 DEF Tallied

\* A POST that is owed was made for a row that is neither delivered nor given up, which has
\* an attempt left.
LEMMA TallyBounds ==
  ASSUME Inv, Serial, Tally
  PROVE  AtMostMaxRetries
  <1> SUFFICES ASSUME NEW d \in Deliveries
               PROVE  sent[d] <= MaxRetries * (1 + replays[d]) + faults
    BY DEF AtMostMaxRetries
  <1>1. PICK s, x, a, f, k : s = sent[d] /\ x = replays[d] /\ a = table[d].attempts /\ f = faults /\ k = MaxRetries
    OBVIOUS
  <1>2. s \in Nat /\ x \in Nat /\ a \in Nat /\ f \in Nat /\ k \in Nat /\ k * x \in Nat
    BY <1>1, TallyTypes
  <1>3. k * (1 + x) = k * x + k
    BY <1>2
  <1>4. PICK m \in Nat : m = k * x
    BY <1>2
  <1>5. s <= m + a + f + 1 /\ (~Owed(d) => s <= m + a + f)
    BY <1>1, <1>4 DEF Tally, Tallied
  <1>6. a <= k
    BY <1>1 DEF Serial, AllFit, RowFits
  <1>7. Owed(d) => a < k
    <2>1. ASSUME Owed(d) PROVE table[d].status \in Unmade
      BY <2>1 DEF Owed, Serial, AllSee, JobSees
    <2> QED BY <1>1, <2>1 DEF Serial, AllFit, RowFits
  <1>8. s <= m + k + f
    <2>1. CASE Owed(d)
      <3>1. a < k
        BY <1>7, <2>1
      <3> QED BY <1>2, <1>4, <1>5, <3>1
    <2>2. CASE ~Owed(d)
      <3>1. s <= m + a + f
        BY <1>5, <2>2
      <3> QED BY <1>2, <1>4, <1>6, <3>1
    <2> QED BY <2>1, <2>2
  <1> QED BY <1>1, <1>3, <1>4, <1>8

-----------------------------------------------------------------------------
(* The theorems about jobs that follow each other *)

\* Until a statement fails or the process dies, a row that is pending or failed has a
\* next_retry_at or a job of webhook.py is on it: the retry batch finds what is left.
THEOREM NothingForgotten == SerialSpec => []NothingIsForgotten
  <1>1. Serial => NothingIsForgotten
    BY DEF Serial
  <1> QED BY <1>1, SerialAlways, PTL

\* No dispatch, retry or replay writes to a row that says "delivered", or makes another
\* POST for it.
THEOREM DeliveredFinal == SerialSpec => DeliveredIsFinal
  <1>1. Inv /\ Serial /\ [Next /\ OneJobAtATime']_vars =>
          [\A d \in Deliveries : table[d].status = "delivered" => UNCHANGED <<table[d], sent[d]>>]_vars
    BY StepSerial DEF KeepsDelivered
  <1> QED BY <1>1, SerialAlways, PTL DEF SerialSpec, DeliveredIsFinal

\* Where row locks let a retry batch write while its own session is open, MAX_RETRIES bounds
\* the POSTs of a delivery between replays, but for the attempts a failure kept off the row.
THEOREM RetriesBounded ==
  ASSUME OneWriter = FALSE
  PROVE  SerialSpec => []AtMostMaxRetries
  <1>1. Inv /\ Serial /\ Tally /\ [Next /\ OneJobAtATime']_vars => Tally'
    BY NextTally
  <1>2. Inv /\ Serial /\ Tally => AtMostMaxRetries
    BY TallyBounds
  <1> QED BY <1>1, <1>2, InitTally, SerialAlways, PTL DEF SerialSpec
-----------------------------------------------------------------------------
(* Jobs that follow each other keep the retry policy *)

PolicyStep == [Policy!Next]_(Policy!policy)

LEMMA PolicyStutters ==
  ASSUME UNCHANGED <<hook, sent>>,
         \A d \in Deliveries : table'[d].status = table[d].status /\ table'[d].attempts = table[d].attempts
  PROVE  PolicyStep
  <1>1. /\ [d \in Deliveries |-> table'[d].status] = [d \in Deliveries |-> table[d].status]
        /\ [d \in Deliveries |-> table'[d].attempts] = [d \in Deliveries |-> table[d].attempts]
    OBVIOUS
  <1>2. {h \in Hooks : hook'[h] = "inactive"} = {h \in Hooks : hook[h] = "inactive"}
    OBVIOUS
  <1> QED BY <1>1, <1>2 DEF PolicyStep, Policy!policy

LEMMA PolicyStuttersOn ==
  ASSUME UNCHANGED <<hook, table, sent>>
  PROVE  PolicyStep
  BY PolicyStutters

\* What the policy sees of a row that is written.
LEMMA RowWritten ==
  ASSUME TypeOK, NEW d \in Deliveries, NEW row, table' = [table EXCEPT ![d] = row]
  PROVE  /\ [e \in Deliveries |-> table'[e].status]
              = [[e \in Deliveries |-> table[e].status] EXCEPT ![d] = row.status]
         /\ [e \in Deliveries |-> table'[e].attempts]
              = [[e \in Deliveries |-> table[e].attempts] EXCEPT ![d] = row.attempts]
  <1>1. table'[d] = row /\ \A e \in Deliveries : e # d => table'[e] = table[e]
    BY DEF TypeOK
  <1>2. ASSUME NEW e \in Deliveries
        PROVE  /\ table'[e].status = (IF e = d THEN row.status ELSE table[e].status)
               /\ table'[e].attempts = (IF e = d THEN row.attempts ELSE table[e].attempts)
    <2>1. CASE e = d
      BY <1>1, <2>1
    <2>2. CASE e # d
      BY <1>1, <2>2
    <2> QED BY <2>1, <2>2
  <1>3. /\ [e \in Deliveries |-> table'[e].status]
             = [e \in Deliveries |-> IF e = d THEN row.status ELSE table[e].status]
        /\ [e \in Deliveries |-> table'[e].attempts]
             = [e \in Deliveries |-> IF e = d THEN row.attempts ELSE table[e].attempts]
    BY <1>2
  <1>4. /\ [[e \in Deliveries |-> table[e].status] EXCEPT ![d] = row.status]
             = [e \in Deliveries |-> IF e = d THEN row.status ELSE table[e].status]
        /\ [[e \in Deliveries |-> table[e].attempts] EXCEPT ![d] = row.attempts]
             = [e \in Deliveries |-> IF e = d THEN row.attempts ELSE table[e].attempts]
    OBVIOUS
  <1> QED BY <1>3, <1>4

LEMMA CreatePolicy ==
  ASSUME Inv, Serial, NEW j \in Jobs, NEW d \in Deliveries, CreateRecord(j, d)
  PROVE  PolicyStep
  <1>1. PICK old \in Job : old = job[j] /\ JobSees(j, old, table)
    BY DEF Inv, TypeOK, Serial, AllSee
  <1>2. old.pc = "create" /\ d \in old.todo
    BY <1>1 DEF CreateRecord
  <1>3. table[d].status = "absent"
    BY <1>1, <1>2, NoDeliveryApart DEF JobSees
  <1>4. table[d].attempts = 0
    BY <1>3 DEF Serial, AllFit, RowFits
  <1>5. PICK row : row = NewDelivery
    OBVIOUS
  <1>6. row.status = "pending" /\ row.attempts = 0
    BY <1>5 DEF NewDelivery
  <1>7. table' = [table EXCEPT ![d] = row] /\ UNCHANGED <<hook, sent>>
    BY <1>5 DEF CreateRecord
  <1>8. [e \in Deliveries |-> table'[e].status]
          = [[e \in Deliveries |-> table[e].status] EXCEPT ![d] = "pending"]
    <2>1. TypeOK
      BY DEF Inv
    <2>2. [e \in Deliveries |-> table'[e].status]
            = [[e \in Deliveries |-> table[e].status] EXCEPT ![d] = row.status]
      BY <1>7, <2>1, RowWritten
    <2> QED BY <1>6, <2>2
  <1>9. [e \in Deliveries |-> table'[e].attempts] = [e \in Deliveries |-> table[e].attempts]
    <2>1. table'[d] = row /\ \A e \in Deliveries : e # d => table'[e] = table[e]
      BY <1>7 DEF Inv, TypeOK
    <2> QED BY <1>4, <1>6, <2>1
  <1>10. Policy!Make(d)
    BY <1>3, <1>7, <1>8, <1>9 DEF Policy!Make
  <1> QED BY <1>10 DEF PolicyStep, Policy!Next

LEMMA ReplayPolicy ==
  ASSUME Inv, Serial, NEW j \in Jobs, ReplayReset(j)
  PROVE  PolicyStep
  <1>1. PICK old, d : old = job[j] /\ d = old.item
    OBVIOUS
  <1>2. old \in Job /\ old.pc = "reset" /\ d \in Deliveries /\ JobSees(j, old, table)
    BY <1>1, ItemKnown DEF ReplayReset, Serial, AllSee
  <1>3. table[d].status = "dead_letter"
    BY <1>1, <1>2 DEF JobSees
  <1>4. PICK row : row = [table[d] EXCEPT !.status = "pending", !.attempts = 0]
    OBVIOUS
  <1>5. table[d] \in Delivery /\ table \in [Deliveries -> Delivery]
    BY <1>2 DEF Inv, TypeOK
  <1>6. row.status = "pending" /\ row.attempts = 0
    BY <1>4, <1>5 DEF Delivery
  <1>7. table' = [table EXCEPT ![d] = row] /\ UNCHANGED <<hook, sent>>
    BY <1>1, <1>2, <1>4, <1>5 DEF ReplayReset
  <1>8. /\ [e \in Deliveries |-> table'[e].status]
             = [[e \in Deliveries |-> table[e].status] EXCEPT ![d] = "pending"]
        /\ [e \in Deliveries |-> table'[e].attempts]
             = [[e \in Deliveries |-> table[e].attempts] EXCEPT ![d] = 0]
    <2>1. TypeOK
      BY DEF Inv
    <2>2. /\ [e \in Deliveries |-> table'[e].status]
               = [[e \in Deliveries |-> table[e].status] EXCEPT ![d] = row.status]
          /\ [e \in Deliveries |-> table'[e].attempts]
               = [[e \in Deliveries |-> table[e].attempts] EXCEPT ![d] = row.attempts]
      BY <1>2, <1>7, <2>1, RowWritten
    <2> QED BY <1>6, <2>2
  <1>9. Policy!Replay(d)
    BY <1>2, <1>3, <1>7, <1>8 DEF Policy!Replay
  <1> QED BY <1>2, <1>9 DEF PolicyStep, Policy!Next

LEMMA GiveUpPolicy ==
  ASSUME Inv, Serial, NEW j \in Jobs, FinishRetry(j)
  PROVE  PolicyStep
  <1>1. PICK old \in Job : /\ old = job[j] /\ JobSees(j, old, table)
                           /\ JobKnows(old, sent, accepted, hook)
    BY DEF Inv, TypeOK, Serial, AllSee, JobsKnow
  <1>2. /\ old.pc = "next" /\ UNCHANGED <<hook, sent>>
        /\ table' = [d \in Deliveries |-> IF d \in old.gone
                       THEN [table[d] EXCEPT !.status = "dead_letter"] ELSE table[d]]
    BY <1>1 DEF FinishRetry
  <1>3. PICK ds \in SUBSET Deliveries : ds = old.gone
    BY DEF Job
  <1>4. \A d \in ds : table[d].status \in Unmade /\ hook[d[2]] = "inactive" /\ d[2] \in Hooks
    <2>1. old.kind = "retry"
      BY <1>1, <1>2 DEF JobSees
    <2> QED BY <1>1, <1>3, <2>1, HookOfDelivery DEF JobSees, JobKnows
  <1>5. ASSUME NEW d \in Deliveries
        PROVE  /\ table'[d].status = IF d \in ds THEN "dead_letter" ELSE table[d].status
               /\ table'[d].attempts = table[d].attempts
    <2>1. table[d] \in Delivery
      BY DEF Inv, TypeOK
    <2>2. CASE d \in ds
      <3>1. table'[d] = [table[d] EXCEPT !.status = "dead_letter"]
        BY <1>2, <1>3, <2>2
      <3> QED BY <2>1, <2>2, <3>1 DEF Delivery
    <2>3. CASE d \notin ds
      BY <1>2, <1>3, <2>3
    <2> QED BY <2>2, <2>3
  <1>6. /\ [d \in Deliveries |-> table'[d].status]
             = [d \in Deliveries |-> IF d \in ds THEN "dead_letter"
                                      ELSE [e \in Deliveries |-> table[e].status][d]]
        /\ [d \in Deliveries |-> table'[d].attempts] = [d \in Deliveries |-> table[d].attempts]
    BY <1>5
  <1>7. \A d \in ds : /\ [e \in Deliveries |-> table[e].status][d] \in {"pending", "failed"}
                      /\ HookOf(d) \in {h \in Hooks : hook[h] = "inactive"}
    BY <1>4 DEF Unmade, HookOf
  <1>8. Policy!GiveUp(ds)
    BY <1>2, <1>6, <1>7 DEF Policy!GiveUp, Policy!Open
  <1> QED BY <1>8 DEF PolicyStep, Policy!Next

LEMMA PostPolicy ==
  ASSUME Inv, Serial, NEW j \in Jobs, Post(j)
  PROVE  PolicyStep
  <1>1. PICK old, d : old = job[j] /\ d = old.item
    OBVIOUS
  <1>2. old.pc = "post" /\ d \in Deliveries /\ JobSees(j, old, table)
    BY <1>1, ItemKnown DEF Post, Serial, AllSee
  <1>3. table[d].status \in Unmade
    BY <1>1, <1>2 DEF JobSees
  <1>4. sent' = [sent EXCEPT ![d] = @ + 1] /\ UNCHANGED <<hook, table>>
    BY <1>1 DEF Post
  <1>5. Policy!Post(d)
    BY <1>2, <1>3, <1>4 DEF Policy!Post, Policy!Open, Unmade
  <1> QED BY <1>2, <1>5 DEF PolicyStep, Policy!Next

LEMMA RecordPolicy ==
  ASSUME Inv, Serial, NEW j \in Jobs, Record(j)
  PROVE  PolicyStep
  <1>1. PICK old, d : old = job[j] /\ d = old.item
    OBVIOUS
  <1>2. /\ old.pc = "record" /\ d \in Deliveries /\ old \in Job /\ JobSees(j, old, table)
        /\ JobKnows(old, sent, accepted, hook)
    BY <1>1, ItemKnown DEF Record, Serial, AllSee, Inv, JobsKnow
  <1>3. PICK n \in Nat : n = table[d].attempts
    BY <1>2 DEF Inv, TypeOK, Delivery
  <1>4. table[d].status \in Unmade /\ old.attempt = n + 1 /\ n + 1 <= sent[d] /\ old.good \in BOOLEAN
    BY <1>1, <1>2, <1>3 DEF JobSees, JobKnows, Job
  <1>5. n < sent[d]
    BY <1>2, <1>3, <1>4 DEF Inv, TypeOK
  <1>6. PICK row : row = Attempted(old.attempt, old.good)
    OBVIOUS
  <1>7. /\ row.attempts = n + 1
        /\ row.status \in {"delivered", IF n + 1 >= MaxRetries THEN "dead_letter" ELSE "failed"}
    <2>1. CASE old.good
      BY <1>4, <1>6, <2>1 DEF Attempted
    <2>2. CASE ~old.good
      BY <1>4, <1>6, <2>2 DEF Attempted, Exhausted
    <2> QED BY <2>1, <2>2
  <1>8. table' = [table EXCEPT ![d] = row] /\ UNCHANGED <<hook, sent>>
    BY <1>1, <1>6 DEF Record
  <1>9. /\ [e \in Deliveries |-> table'[e].status]
             = [[e \in Deliveries |-> table[e].status] EXCEPT ![d] = row.status]
        /\ [e \in Deliveries |-> table'[e].attempts]
             = [[e \in Deliveries |-> table[e].attempts] EXCEPT ![d] = n + 1]
    <2>1. TypeOK
      BY DEF Inv
    <2>2. /\ [e \in Deliveries |-> table'[e].status]
               = [[e \in Deliveries |-> table[e].status] EXCEPT ![d] = row.status]
          /\ [e \in Deliveries |-> table'[e].attempts]
               = [[e \in Deliveries |-> table[e].attempts] EXCEPT ![d] = row.attempts]
      BY <1>2, <1>8, <2>1, RowWritten
    <2> QED BY <1>7, <2>2
  <1>10. PICK st, at, stn, atn :
           /\ st = [e \in Deliveries |-> table[e].status] /\ stn = [e \in Deliveries |-> table'[e].status]
           /\ at = [e \in Deliveries |-> table[e].attempts] /\ atn = [e \in Deliveries |-> table'[e].attempts]
    OBVIOUS
  <1>11. /\ st[d] \in {"pending", "failed"} /\ at[d] < sent[d]
         /\ atn = [at EXCEPT ![d] = @ + 1] /\ atn[d] = n + 1
         /\ stn = [st EXCEPT ![d] = row.status]
    BY <1>2, <1>3, <1>4, <1>5, <1>9, <1>10 DEF Unmade
  <1>12. \E outcome \in {"delivered", IF atn[d] >= MaxRetries THEN "dead_letter" ELSE "failed"} :
           stn = [st EXCEPT ![d] = outcome]
    BY <1>7, <1>11
  <1>13. Policy!Record(d)
    BY <1>8, <1>10, <1>11, <1>12 DEF Policy!Record, Policy!Open
  <1> QED BY <1>2, <1>13 DEF PolicyStep, Policy!Next

LEMMA DeactivatePolicy ==
  ASSUME Inv, NEW h \in Hooks, Deactivate(h)
  PROVE  PolicyStep
  <1>1. \A g \in Hooks : hook'[g] = IF g = h THEN "inactive" ELSE hook[g]
    BY DEF Deactivate, Inv, TypeOK
  <1>2. {g \in Hooks : hook'[g] = "inactive"} = {g \in Hooks : hook[g] = "inactive"} \union {h}
    BY <1>1
  <1>3. UNCHANGED <<table, sent>>
    BY DEF Deactivate
  <1>4. Policy!Deactivate(h)
    BY <1>2, <1>3 DEF Policy!Deactivate
  <1> QED BY <1>4 DEF PolicyStep, Policy!Next

LEMMA RegisterPolicy ==
  ASSUME Inv, NEW h \in Hooks, Register(h)
  PROVE  PolicyStep
  <1>1. \A g \in Hooks : hook'[g] = "inactive" <=> hook[g] = "inactive"
    BY DEF Register, Inv, TypeOK
  <1>2. {g \in Hooks : hook'[g] = "inactive"} = {g \in Hooks : hook[g] = "inactive"}
    BY <1>1
  <1>3. UNCHANGED <<table, sent>>
    BY DEF Register
  <1> QED BY <1>2, <1>3 DEF PolicyStep, Policy!policy

LEMMA ElapsePolicy ==
  ASSUME Inv, NEW d \in Deliveries, Elapse(d)
  PROVE  PolicyStep
  <1>1. table \in [Deliveries -> Delivery] /\ table' = [table EXCEPT ![d].next = "due"]
        /\ UNCHANGED <<hook, sent>>
    BY DEF Elapse, Inv, TypeOK
  <1>2. ASSUME NEW e \in Deliveries
        PROVE  table'[e].status = table[e].status /\ table'[e].attempts = table[e].attempts
    <2>1. table[e] \in Delivery
      BY <1>1
    <2> QED BY <1>1, <2>1 DEF Delivery
  <1> QED BY <1>1, <1>2, PolicyStutters

LEMMA NextPolicy ==
  ASSUME Inv, Serial, [Next]_vars
  PROVE  PolicyStep
  <1>1. CASE UNCHANGED vars
    BY <1>1, PolicyStuttersOn DEF vars
  <1>2. ASSUME NEW h \in Hooks, Register(h) \/ Deactivate(h) PROVE PolicyStep
    BY <1>2, RegisterPolicy, DeactivatePolicy
  <1>3. ASSUME NEW d \in Deliveries, Elapse(d) PROVE PolicyStep
    BY <1>3, ElapsePolicy
  <1>4. ASSUME NEW j \in Jobs, Dispatch(j) \/ StartRetry(j) \/ Replay(j) PROVE PolicyStep
    <2>1. UNCHANGED <<hook, table, sent>>
      BY <1>4 DEF Dispatch, StartRetry, Replay, Start
    <2> QED BY <2>1, PolicyStuttersOn
  <1>5. ASSUME NEW j \in Jobs, Step(j) PROVE PolicyStep
    <2>1. ASSUME NEW d \in Deliveries, CreateRecord(j, d) PROVE PolicyStep
      BY <2>1, CreatePolicy
    <2>2. ASSUME NEW d \in Deliveries, NextRetry(j, d) PROVE PolicyStep
      BY <2>2, PolicyStuttersOn DEF NextRetry
    <2>3. CASE ReplayReset(j)
      BY <2>3, ReplayPolicy
    <2>4. CASE FinishRetry(j)
      BY <2>4, GiveUpPolicy
    <2>5. CASE ReadAttempts(j)
      BY <2>5, PolicyStuttersOn DEF ReadAttempts
    <2>6. CASE Post(j)
      BY <2>6, PostPolicy
    <2>7. CASE Record(j)
      BY <2>7, RecordPolicy
    <2>8. CASE LockTimesOut(j)
      BY <2>8, PolicyStuttersOn DEF LockTimesOut, Raises
    <2> QED BY <1>5, <2>1, <2>2, <2>3, <2>4, <2>5, <2>6, <2>7, <2>8 DEF Step
  <1>6. ASSUME NEW j \in Jobs, DatabaseFails(j) PROVE PolicyStep
    BY <1>6, PolicyStuttersOn DEF DatabaseFails, Raises
  <1>7. CASE Crash
    BY <1>7, PolicyStuttersOn DEF Crash
  <1> QED BY <1>1, <1>2, <1>3, <1>4, <1>5, <1>6, <1>7 DEF Next

LEMMA InitPolicy == Init => Policy!Init
  <1> SUFFICES ASSUME Init PROVE Policy!Init
    OBVIOUS
  <1>1. \A d \in Deliveries : table[d].status = "absent" /\ table[d].attempts = 0
    BY DEF Init, NewDelivery
  <1>2. /\ [d \in Deliveries |-> table[d].status] = [d \in Deliveries |-> "absent"]
        /\ [d \in Deliveries |-> table[d].attempts] = [d \in Deliveries |-> 0]
    BY <1>1
  <1>3. {h \in Hooks : hook[h] = "inactive"} = {}
    BY DEF Init
  <1>4. sent = [d \in Deliveries |-> 0]
    BY DEF Init
  <1> QED BY <1>2, <1>3, <1>4 DEF Policy!Init

\* Dispatches, retry batches and replays that follow each other treat each delivery as the
\* retry policy says: only pending and failed ones are POSTed, each outcome adds the POST it
\* is of, MAX_RETRIES alone or a webhook that is gone makes a dead letter of it, and only a
\* replay of a dead letter starts it again.
THEOREM RetryPolicyKept == SerialSpec => KeepsRetryPolicy
  <1>1. Inv /\ Serial /\ [Next /\ OneJobAtATime']_vars => [Policy!Next]_(Policy!policy)
    BY NextPolicy DEF PolicyStep
  <1>2. SerialSpec => [][Policy!Next]_(Policy!policy)
    BY <1>1, SerialAlways, PTL DEF SerialSpec
  <1>3. SerialSpec => Policy!Init
    BY InitPolicy DEF SerialSpec
  <1> QED BY <1>2, <1>3, PTL DEF KeepsRetryPolicy, Policy!Spec
=============================================================================
