---------------------------- MODULE SdkCallsProofs ----------------------------
(***************************************************************************)
(* What a call of the SDKs tells its program, for any number of calls,     *)
(* retries and faults and with answers and requests lost at any point.     *)
(***************************************************************************)
EXTENDS SdkCalls, TLAPS

BlameStatuses == {"401", "404", "400", "409", "429"}

\* A call with record q did what it was for, when it took effect n times.
Did(q, n) == q.effect = "read" \/ n > 0

\* What is known of call c with record q of a client of kind k, when w is the wire and c
\* took effect n times. A request that is not on the wire can do nothing any more.
Known(k, q, w, n, c) ==
  /\ q.pc = "idle" => q = Idle /\ n = 0 /\ \A m \in w : m[1] # c
  /\ q.pc \in {"idle", "ready"} => q.reply = NoAnswer
  /\ q.pc = "ended" <=> q.out # "none"
  /\ k = "tsSync" => q.attempt = 0
  /\ q.effect \in {"merge", "rewrite"} => k = "pySync"
  /\ q.stage = "get" => n = 0 /\ q.effect \in {"merge", "rewrite"} /\ \A m \in w : m[1] = c => m[2] = "get"
  /\ \A m \in w : m[1] = c /\ m[2] = q.stage => m[3] <= q.attempt
  /\ q.pc = "ready" \/ q.reply # NoAnswer \/ (q.pc = "ended" /\ q.out # "ConnectionError") =>
       <<c, q.stage, q.attempt>> \notin w
  /\ q.attempt = 0 /\ q.stage = "put" =>
       n <= 1 /\ (n = 1 => <<c, "put", 0>> \notin w) /\ (q.pc = "ready" => n = 0)
  /\ q.attempt = 0 /\ (q.reply.status \in BlameStatuses \/ q.out \in Blame) => n = 0
  /\ q.reply.status = "ok" /\ q.stage = "put" => Did(q, n)
  /\ q.out = "ok" =>
       \/ k \in {"tsSync", "tsAsync"} /\ q.reply.status = "4xx"
       \/ q.stage = "put" /\ Did(q, n)

CallsKnown == \A c \in Calls : Known(kind, call[c], wire, made[c], c)

Inv == TypeOK /\ CallsKnown

\* Only the adapters' update_handoff merges and rewrites, and they have a synchronous client.
LEMMA PyOnly == \A k \in {"pyAsync", "tsSync", "tsAsync"} : Offered(k) \intersect {"merge", "rewrite"} = {}
  <1>1. \A m \in DOMAIN TsPacketMethods : TsPacketMethods[m] \notin {"merge", "rewrite"}
    BY DEF TsPacketMethods
  <1>2. \A m \in DOMAIN TsBatchMethods : TsBatchMethods[m] \notin {"merge", "rewrite"}
    BY DEF TsBatchMethods
  <1>3. \A m \in DOMAIN TsRegistryMethods : TsRegistryMethods[m] \notin {"merge", "rewrite"}
    BY DEF TsRegistryMethods
  <1>4. \A m \in DOMAIN PyPacketMethods : PyPacketMethods[m] \notin {"merge", "rewrite"}
    BY DEF PyPacketMethods
  <1>5. \A m \in DOMAIN PyHookMethods : PyHookMethods[m] \notin {"merge", "rewrite"}
    BY DEF PyHookMethods
  <1>6. \A m \in DOMAIN PyBatchMethods : PyBatchMethods[m] \notin {"merge", "rewrite"}
    BY DEF PyBatchMethods
  <1>7. \A m \in DOMAIN PyRegistryMethods : PyRegistryMethods[m] \notin {"merge", "rewrite"}
    BY DEF PyRegistryMethods
  <1>8. \A m \in DOMAIN PyFollowUpMethods : PyFollowUpMethods[m] \notin {"merge", "rewrite"}
    BY DEF PyFollowUpMethods
  <1> QED
    BY <1>1, <1>2, <1>3, <1>4, <1>5, <1>6, <1>7, <1>8
    DEF Offered, PyOffers, PyHookOffers, TsOffers, Range

-----------------------------------------------------------------------------
(* What the steps do to a call *)

Started(e, b) ==
  [Idle EXCEPT !.pc = "ready", !.effect = e,
               !.stage = IF e \in {"merge", "rewrite"} THEN "get" ELSE "put", !.before = b]
Sent(q) == [q EXCEPT !.pc = "waiting"]
Gone(q) == [q EXCEPT !.pc = "ended", !.out = "ConnectionError", !.reply = NoAnswer]
Again(q) == [q EXCEPT !.pc = "ready", !.reply = NoAnswer, !.attempt = @ + 1]
Over(q, out) == [q EXCEPT !.pc = "ended", !.out = out, !.reply = [@ EXCEPT !.seen = {}]]
Onto(q) == [q EXCEPT !.pc = "ready", !.stage = "put", !.attempt = 0, !.reply = NoAnswer, !.seen = q.reply.seen]
Told(q, a) == [q EXCEPT !.reply = a]

Outcome(k, a) == IF k \in {"pySync", "pyAsync"} THEN PyOutcome(a) ELSE TsOutcome(a)

\* q has become e by a step of its own.
Retried(k, q, e) ==
  \/ e = Gone(q)
  \/ k # "tsSync" /\ q.attempt # MaxRetries /\ e = Again(q)

Received(k, q, e) ==
  LET out == Outcome(k, q.reply) IN
  \/ out = "again" /\ Retried(k, q, e)
  \/ out = q.reply.status /\ out = "ok" /\ q.stage = "get" /\ e = Onto(q)
  \/ /\ out # "again" /\ ~(q.stage = "get" /\ q.reply.status = "ok" /\ out = "ok")
     /\ e = Over(q, out)

Messages == Calls \X {"get", "put"} \X (0..MaxRetries)
Answers == [status: Statuses, json: BOOLEAN, seen: SUBSET Calls]

LEMMA NoAnswerIsNone == NoAnswer \notin Answers /\ NoAnswer.status = "none" /\ Idle \in Call
  BY ConstantsAssumption DEF NoAnswer, Answers, Statuses, Idle, Call, Effects

LEMMA OutcomeType ==
  ASSUME NEW k, NEW a \in Answers
  PROVE  /\ Outcome(k, a) \in {"again", "ok", "partial", "JSONDecodeError"} \union TsErrors
         /\ Outcome(k, a) \in Blame => a.status \in BlameStatuses
         /\ Outcome(k, a) = "ok" => a.status = "ok" \/ (k \notin {"pySync", "pyAsync"} /\ a.status = "4xx")
         /\ a.status = "ok" => Outcome(k, a) \in {"ok", "again"}
         /\ Outcome(k, a) = "again" => k \in {"pySync", "pyAsync"}
         /\ Outcome(k, a) \in Statuses => Outcome(k, a) \in {"ok", "partial"}
         /\ Outcome(k, a) # "ConnectionError"
  <1>1. a.status \in Statuses
    BY DEF Answers
  <1>2. CASE k \in {"pySync", "pyAsync"}
    <2>1. Outcome(k, a) = IF a.json THEN PyResult(a.status)
                          ELSE IF a.status = "4xx" THEN "JSONDecodeError" ELSE "again"
      BY <1>2 DEF Outcome, PyOutcome
    <2>2. CASE a.json = TRUE
      BY <1>1, <1>2, <2>1, <2>2 DEF PyResult, Statuses, TsErrors, PyErrors, Blame, BlameStatuses
    <2>3. CASE a.json = FALSE
      BY <1>1, <1>2, <2>1, <2>3 DEF Statuses, TsErrors, PyErrors, Blame, BlameStatuses
    <2> QED BY <2>2, <2>3 DEF Answers
  <1>3. CASE k \notin {"pySync", "pyAsync"}
    <2>1. Outcome(k, a) = TsOutcome(a)
      BY <1>3 DEF Outcome
    <2> QED BY <1>1, <1>3, <2>1 DEF TsOutcome, Statuses, TsErrors, PyErrors, Blame, BlameStatuses
  <1> QED BY <1>2, <1>3

LEMMA SelfTypes ==
  ASSUME NEW q \in Call, NEW b \in SUBSET Calls, NEW e \in Effects
  PROVE  /\ Started(e, b) \in Call /\ Sent(q) \in Call /\ Gone(q) \in Call
         /\ q.attempt # MaxRetries => Again(q) \in Call
         /\ q.reply \in Answers => Onto(q) \in Call
         /\ \A a \in Answers : Told(q, a) \in Call
         /\ \A out \in {"ok", "partial", "JSONDecodeError"} \union TsErrors :
              q.reply \in Answers => Over(q, out) \in Call
  <1> USE ConstantsAssumption
  <1>1. Started(e, b) \in Call
    <2>1. \A g \in {"get", "put"} :
            [Idle EXCEPT !.pc = "ready", !.effect = e, !.stage = g, !.before = b] \in Call
      BY NoAnswerIsNone DEF Call
    <2>2. (IF e \in {"merge", "rewrite"} THEN "get" ELSE "put") \in {"get", "put"}
      OBVIOUS
    <2> QED BY <2>1, <2>2 DEF Started
  <1>2. Sent(q) \in Call
    BY DEF Sent, Call
  <1>3. Gone(q) \in Call
    BY DEF Gone, Call, TsErrors, PyErrors
  <1>4. ASSUME q.attempt # MaxRetries PROVE Again(q) \in Call
    <2>1. q.attempt + 1 \in 0..MaxRetries
      BY <1>4 DEF Call
    <2> QED BY <2>1 DEF Again, Call
  <1>5. ASSUME q.reply \in Answers PROVE Onto(q) \in Call
    <2>1. q.reply.seen \in SUBSET Calls /\ 0 \in 0..MaxRetries
      BY <1>5 DEF Answers
    <2>2. \A a \in SUBSET Calls, z \in 0..MaxRetries :
            [q EXCEPT !.pc = "ready", !.stage = "put", !.attempt = z, !.reply = NoAnswer, !.seen = a]
              \in Call
      BY DEF Call
    <2> QED BY <2>1, <2>2 DEF Onto
  <1>6. ASSUME NEW a \in Answers PROVE Told(q, a) \in Call
    BY DEF Told, Call, Answers
  <1>7. ASSUME NEW out \in {"ok", "partial", "JSONDecodeError"} \union TsErrors, q.reply \in Answers
        PROVE  Over(q, out) \in Call
    <2>1. [q.reply EXCEPT !.seen = {}] \in Answers
      BY <1>7 DEF Answers
    <2> QED BY <2>1 DEF Over, Call, Answers
  <1> QED BY <1>1, <1>2, <1>3, <1>4, <1>5, <1>6, <1>7

\* What is known stays known when requests of c leave the wire and others take effect.
LEMMA KnownOn ==
  ASSUME NEW k, NEW q, NEW w, NEW v, NEW n, NEW c \in Calls,
         Known(k, q, w, n, c), \A m \in v : m[1] = c => m \in w
  PROVE  Known(k, q, v, n, c)
  <1>1. \A m \in v : m[1] = c => m \in w
    OBVIOUS
  <1>2. \A x, y : <<c, x, y>> \notin w => <<c, x, y>> \notin v
    BY <1>1
  <1> QED BY <1>1, <1>2 DEF Known

LEMMA StartedKnown ==
  ASSUME NEW k, NEW q, NEW w, NEW n, NEW c \in Calls,
         Known(k, q, w, n, c), q.pc = "idle",
         NEW e \in Effects, NEW b, e \in {"merge", "rewrite"} => k = "pySync"
  PROVE  Known(k, Started(e, b), w, n, c)
  <1>1. n = 0 /\ \A m \in w : m[1] # c
    BY DEF Known
  <1>2. PICK p : p = Started(e, b)
    OBVIOUS
  <1>3. /\ p.pc = "ready" /\ p.attempt = 0 /\ p.reply = NoAnswer /\ p.out = "none" /\ p.effect = e
        /\ p.stage = IF e \in {"merge", "rewrite"} THEN "get" ELSE "put"
    BY <1>2 DEF Started, Idle
  <1>4. Known(k, p, w, n, c)
    BY <1>1, <1>3, NoAnswerIsNone DEF Known, Blame, BlameStatuses
  <1> QED BY <1>2, <1>4

LEMMA SentKnown ==
  ASSUME NEW k, NEW q \in Call, NEW w, NEW n, NEW c \in Calls,
         Known(k, q, w, n, c), q.pc = "ready"
  PROVE  Known(k, Sent(q), w \union {<<c, q.stage, q.attempt>>}, n, c)
  <1>1. PICK p : p = Sent(q)
    OBVIOUS
  <1>2. /\ p.pc = "waiting" /\ p.attempt = q.attempt /\ p.reply = q.reply /\ p.out = q.out
        /\ p.effect = q.effect /\ p.stage = q.stage /\ q.attempt \in Nat
    BY <1>1, ConstantsAssumption DEF Sent, Call
  <1>3. PICK v : v = w \union {<<c, q.stage, q.attempt>>}
    OBVIOUS
  <1>4. q.reply = NoAnswer /\ q.out = "none"
    BY DEF Known
  <1>5. Did(p, n) <=> Did(q, n)
    BY <1>2 DEF Did
  <1>6. \A m \in v : m[1] = c /\ m[2] = p.stage => m[3] <= p.attempt
    BY <1>2, <1>3 DEF Known
  <1>7. p.stage = "get" => \A m \in v : m[1] = c => m[2] = "get"
    BY <1>2, <1>3 DEF Known
  <1>8. Known(k, p, v, n, c)
    BY <1>2, <1>4, <1>5, <1>6, <1>7, NoAnswerIsNone DEF Known, Blame, BlameStatuses
  <1> QED BY <1>1, <1>3, <1>8

LEMMA RetriedKnown ==
  ASSUME NEW k, NEW q \in Call, NEW w \in SUBSET Messages, NEW n, NEW c \in Calls, NEW p,
         Known(k, q, w, n, c), q.pc = "waiting", Retried(k, q, p)
  PROVE  Known(k, p, w, n, c)
  <1>1. CASE p = Gone(q)
    <2>1. /\ p.pc = "ended" /\ p.attempt = q.attempt /\ p.reply = NoAnswer /\ p.out = "ConnectionError"
          /\ p.effect = q.effect /\ p.stage = q.stage
      BY <1>1 DEF Gone, Call
    <2> QED BY <2>1, NoAnswerIsNone DEF Known, Blame, BlameStatuses
  <1>2. CASE k # "tsSync" /\ p = Again(q)
    <2>1. /\ p.pc = "ready" /\ p.attempt = q.attempt + 1 /\ p.reply = NoAnswer /\ p.out = q.out
          /\ p.effect = q.effect /\ p.stage = q.stage /\ q.attempt \in Nat
      BY <1>2, ConstantsAssumption DEF Again, Call
    <2>2. q.out = "none"
      BY DEF Known
    <2>3. <<c, p.stage, p.attempt>> \notin w
      <3>1. ASSUME <<c, q.stage, q.attempt + 1>> \in w
            PROVE  FALSE
        <4>1. <<c, q.stage, q.attempt + 1>>[3] <= q.attempt
          BY <3>1 DEF Known
        <4> QED BY <2>1, <4>1
      <3> QED BY <2>1, <3>1
    <2>4. \A m \in w : m[1] = c /\ m[2] = p.stage => m[3] <= p.attempt
      <3> SUFFICES ASSUME NEW m \in w, m[1] = c, m[2] = p.stage
                   PROVE  m[3] <= p.attempt
        OBVIOUS
      <3>1. m[3] <= q.attempt
        BY <2>1 DEF Known
      <3>2. m[3] \in Nat
        BY ConstantsAssumption DEF Messages
      <3> QED BY <2>1, <3>1, <3>2
    <2> QED BY <1>2, <2>1, <2>2, <2>3, <2>4, NoAnswerIsNone DEF Known, Blame, BlameStatuses
  <1> QED BY <1>1, <1>2 DEF Retried

FourKinds == {"pySync", "pyAsync", "tsSync", "tsAsync"}

LEMMA ReceivedKnown ==
  ASSUME NEW k \in FourKinds, NEW q \in Call, NEW w \in SUBSET Messages, NEW n,
         NEW c \in Calls, NEW p,
         Known(k, q, w, n, c), q.pc = "waiting", q.reply \in Answers, Received(k, q, p)
  PROVE  Known(k, p, w, n, c)
  <1>1. PICK out : out = Outcome(k, q.reply)
    OBVIOUS
  <1>2. /\ out \in {"again", "ok", "partial", "JSONDecodeError"} \union TsErrors
        /\ out \in Blame => q.reply.status \in BlameStatuses
        /\ out = "ok" => q.reply.status = "ok" \/ (k \notin {"pySync", "pyAsync"} /\ q.reply.status = "4xx")
        /\ out # "ConnectionError"
    BY <1>1, OutcomeType
  <1>3. q.reply # NoAnswer /\ q.out = "none"
    BY NoAnswerIsNone DEF Known
  <1>4. CASE Retried(k, q, p)
    BY <1>4, RetriedKnown
  <1>5. CASE q.stage = "get" /\ p = Onto(q)
    <2>1. /\ p.pc = "ready" /\ p.attempt = 0 /\ p.reply = NoAnswer /\ p.out = "none"
          /\ p.effect = q.effect /\ p.stage = "put"
      BY <1>3, <1>5 DEF Onto, Call
    <2>2. n = 0 /\ \A m \in w : m[1] = c => m[2] = "get"
      BY <1>5 DEF Known
    <2>3. \A x : <<c, "put", x>> \notin w
      BY <2>2
    <2> QED BY <1>5, <2>1, <2>2, <2>3, NoAnswerIsNone DEF Known, Blame, BlameStatuses
  <1>6. CASE /\ out # "again" /\ ~(q.stage = "get" /\ q.reply.status = "ok" /\ out = "ok")
             /\ p = Over(q, out)
    <2>1. /\ p.pc = "ended" /\ p.attempt = q.attempt /\ p.out = out
          /\ p.effect = q.effect /\ p.stage = q.stage /\ p.reply.status = q.reply.status
      BY <1>6 DEF Over, Call, Answers
    <2>2. out # "none"
      BY <1>2 DEF TsErrors, PyErrors
    <2>3. Did(p, n) <=> Did(q, n)
      BY <2>1 DEF Did
    <2>4. q.stage \in {"get", "put"}
      BY DEF Call
    <2>5. out = "ok" => \/ k \in {"tsSync", "tsAsync"} /\ p.reply.status = "4xx"
                        \/ p.stage = "put" /\ Did(p, n)
      BY <1>2, <1>6, <2>1, <2>3, <2>4 DEF Known, FourKinds
    <2>6. <<c, p.stage, p.attempt>> \notin w
      BY <1>3, <2>1 DEF Known
    <2> QED BY <1>2, <2>1, <2>2, <2>3, <2>5, <2>6 DEF Known
  <1> QED BY <1>1, <1>4, <1>5, <1>6 DEF Received

\* A request of c leaves the wire and takes effect.
LEMMA ServedKnown ==
  ASSUME NEW k, NEW q \in Call, NEW w \in SUBSET Messages, NEW n \in Nat,
         NEW c \in Calls, NEW m \in w, m[1] = c, m[2] = "put",
         Known(k, q, w, n, c)
  PROVE  Known(k, q, w \ {m}, n + 1, c)
  <1>1. PICK v : v = w \ {m}
    OBVIOUS
  <1>2. q.stage = "put" /\ q.pc # "idle"
    BY DEF Known, Call
  <1>3. m[3] \in Nat /\ m[3] <= q.attempt /\ m = <<c, "put", m[3]>>
    BY <1>2, ConstantsAssumption DEF Known, Messages
  <1>4. Did(q, n + 1)
    BY DEF Did
  <1>5. CASE q.attempt = 0
    <2>1. m = <<c, "put", 0>>
      BY <1>3, <1>5
    <2>2. n = 0
      BY <1>2, <1>5, <2>1 DEF Known
    <2>3. q.pc # "ready" /\ q.reply = NoAnswer /\ ~(q.pc = "ended" /\ q.out # "ConnectionError")
      BY <1>2, <1>5, <2>1 DEF Known
    <2>4. q.out \notin Blame /\ q.out # "ok" /\ q.reply.status \notin BlameStatuses
      BY <2>3, NoAnswerIsNone DEF Known, Blame, BlameStatuses
    <2>5. <<c, "put", 0>> \notin v
      BY <1>1, <2>1
    <2>6. \A x \in v : x \in w
      BY <1>1
    <2>7. Known(k, q, v, n + 1, c)
      BY <1>2, <1>4, <1>5, <2>2, <2>3, <2>4, <2>5, <2>6 DEF Known
    <2> QED BY <1>1, <2>7
  <1>6. CASE q.attempt # 0
    <2>1. \A x \in v : x \in w
      BY <1>1
    <2>2. Known(k, q, v, n + 1, c)
      BY <1>2, <1>4, <1>6, <2>1 DEF Known
    <2> QED BY <1>1, <2>2
  <1> QED BY <1>5, <1>6

\* A waiting call gets an answer: its request is off the wire.
LEMMA ToldKnown ==
  ASSUME NEW k, NEW q \in Call, NEW w, NEW n, NEW c \in Calls, NEW a \in Answers,
         Known(k, q, w, n, c), q.pc = "waiting", <<c, q.stage, q.attempt>> \notin w,
         q.attempt = 0 /\ a.status \in BlameStatuses => n = 0,
         a.status = "ok" /\ q.stage = "put" => Did(q, n)
  PROVE  Known(k, Told(q, a), w, n, c)
  <1>1. PICK p : p = Told(q, a)
    OBVIOUS
  <1>2. /\ p.pc = "waiting" /\ p.attempt = q.attempt /\ p.reply = a /\ p.out = q.out
        /\ p.effect = q.effect /\ p.stage = q.stage
    BY <1>1 DEF Told, Call
  <1>3. q.out = "none"
    BY DEF Known
  <1>4. Did(p, n) <=> Did(q, n)
    BY <1>2 DEF Did
  <1>5. Known(k, p, w, n, c)
    BY <1>2, <1>3, <1>4 DEF Known, Blame
  <1> QED BY <1>1, <1>5

-----------------------------------------------------------------------------
(* The steps *)

\* A step of one call changes its record, and the wire only as to its own requests.
LEMMA OwnStep ==
  ASSUME Inv, NEW c \in Calls, NEW p \in Call, call' = [call EXCEPT ![c] = p],
         UNCHANGED <<kind, passed, custom, made>>, late' \in SUBSET Calls, passed \in SUBSET wire',
         wire' \in SUBSET Messages, ctrl' \in Calls \union {NoCall}, armed' \in SUBSET Calls,
         faults' \in Nat,
         \A m \in wire' : m[1] # c => m \in wire,
         Known(kind, p, wire', made[c], c)
  PROVE  Inv'
  <1>1. TypeOK /\ CallsKnown
    BY DEF Inv
  <1>2. TypeOK'
    BY <1>1 DEF TypeOK, Messages
  <1>3. ASSUME NEW d \in Calls
        PROVE  Known(kind', call'[d], wire', made'[d], d)
    <2>1. CASE d = c
      BY <1>1, <2>1 DEF TypeOK
    <2>2. CASE d # c
      <3>1. call'[d] = call[d] /\ Known(kind, call[d], wire, made[d], d)
        BY <1>1, <2>2 DEF TypeOK, CallsKnown
      <3>2. PICK q, v, w : q = call[d] /\ v = wire' /\ w = wire
        OBVIOUS
      <3>3. Known(kind, q, v, made[d], d)
        BY <2>2, <3>1, <3>2, KnownOn
      <3> QED BY <3>1, <3>2, <3>3
    <2> QED BY <2>1, <2>2
  <1>4. CallsKnown'
    BY <1>3 DEF CallsKnown
  <1> QED BY <1>2, <1>4 DEF Inv

LEMMA GivenUpIs ==
  ASSUME TypeOK, NEW c \in Calls
  PROVE  GivenUp(c) = [call EXCEPT ![c] = Gone(call[c])]
  <1>1. call \in [Calls -> Call]
    BY DEF TypeOK
  <1>2. GivenUp(c) = [call EXCEPT ![c] = GivenUp(c)[c]]
    BY <1>1 DEF GivenUp, EndedWith
  <1>3. GivenUp(c)[c] = Gone(call[c])
    BY <1>1 DEF GivenUp, EndedWith, Gone, Call
  <1> QED BY <1>2, <1>3

LEMMA EndedWithIs ==
  ASSUME TypeOK, NEW c \in Calls, NEW out
  PROVE  EndedWith(c, out) = [call EXCEPT ![c] = Over(call[c], out)]
  <1>1. call \in [Calls -> Call]
    BY DEF TypeOK
  <1>2. EndedWith(c, out) = [call EXCEPT ![c] = EndedWith(c, out)[c]]
    BY <1>1 DEF EndedWith
  <1>3. EndedWith(c, out)[c] = Over(call[c], out)
    BY <1>1 DEF EndedWith, Over, Call
  <1> QED BY <1>2, <1>3

LEMMA TransientIs ==
  ASSUME TypeOK, NEW c \in Calls
  PROVE  \E p \in Call : Retried(kind, call[c], p) /\ Transient(c) = [call EXCEPT ![c] = p]
  <1>1. call \in [Calls -> Call]
    BY DEF TypeOK
  <1>2. CASE kind = "tsSync" \/ call[c].attempt = MaxRetries
    <2>1. Transient(c) = [call EXCEPT ![c] = Gone(call[c])]
      BY <1>2, GivenUpIs DEF Transient
    <2>2. Gone(call[c]) \in Call /\ Retried(kind, call[c], Gone(call[c]))
      BY <1>1, SelfTypes DEF Retried, Call, Effects
    <2> QED BY <2>1, <2>2
  <1>3. CASE ~(kind = "tsSync" \/ call[c].attempt = MaxRetries)
    <2>1. Transient(c) = [call EXCEPT ![c] = Again(call[c])]
      <3>1. Transient(c) = [call EXCEPT ![c] = Transient(c)[c]]
        BY <1>1, <1>3 DEF Transient
      <3>2. Transient(c)[c] = Again(call[c])
        BY <1>1, <1>3 DEF Transient, Again, Call
      <3> QED BY <3>1, <3>2
    <2>2. Again(call[c]) \in Call /\ Retried(kind, call[c], Again(call[c]))
      <3>1. call[c] \in Call /\ {} \in SUBSET Calls /\ "read" \in Effects
        BY <1>1 DEF Effects
      <3>2. Again(call[c]) \in Call
        BY <1>3, <3>1, SelfTypes
      <3> QED BY <1>3, <3>2 DEF Retried
    <2> QED BY <2>1, <2>2
  <1> QED BY <1>2, <1>3

LEMMA FinallyType ==
  ASSUME TypeOK, NEW c \in Calls, Finally(c)
  PROVE  ctrl' \in Calls \union {NoCall} /\ armed' \in SUBSET Calls
  BY DEF TypeOK, Finally

LEMMA StartStep ==
  ASSUME Inv, NEW c \in Calls, Start(c)
  PROVE  Inv'
  <1>1. TypeOK /\ Known(kind, call[c], wire, made[c], c) /\ call[c].pc = "idle"
    BY DEF Inv, CallsKnown, Start
  <1>2. PICK b \in SUBSET Calls : b = {d \in Calls : Ended(d)}
    OBVIOUS
  <1>3. PICK e \in Menu[c] \intersect Offered(kind) : call' = [call EXCEPT ![c] = Started(e, b)]
    BY <1>2 DEF Start, Started
  <1>4. e \in Effects /\ (e \in {"merge", "rewrite"} => kind = "pySync")
    BY <1>1, PyOnly, ConstantsAssumption DEF TypeOK
  <1>5. Started(e, b) \in Call
    BY <1>1, <1>4, SelfTypes, NoAnswerIsNone
  <1>6. PICK q, p \in Call : q = call[c] /\ p = Started(e, b)
    BY <1>1, <1>5 DEF TypeOK
  <1>7. Known(kind, p, wire, made[c], c)
    BY <1>1, <1>4, <1>6, StartedKnown
  <1>8. UNCHANGED <<kind, wire, passed, ctrl, armed, custom, made, faults>> /\ late' \in SUBSET Calls
    BY <1>1 DEF Start, TypeOK
  <1> QED BY <1>1, <1>3, <1>6, <1>7, <1>8, OwnStep DEF TypeOK, Messages

LEMMA SendStep ==
  ASSUME Inv, NEW c \in Calls, Send(c)
  PROVE  Inv'
  <1>1. TypeOK /\ Known(kind, call[c], wire, made[c], c) /\ call[c].pc = "ready"
    BY DEF Inv, CallsKnown, Send
  <1>2. PICK q \in Call : q = call[c]
    BY <1>1 DEF TypeOK
  <1>3. PICK v : v = wire \union {<<c, q.stage, q.attempt>>}
    OBVIOUS
  <1>4. /\ wire' = v /\ v \in SUBSET Messages
        /\ UNCHANGED <<kind, passed, custom, made, late, faults>>
        /\ ctrl' \in Calls \union {NoCall} /\ armed' \in SUBSET Calls
    BY <1>1, <1>2, <1>3 DEF Send, Request, TypeOK, Messages, Call
  <1>5. call' = [call EXCEPT ![c] = Sent(q)] /\ Sent(q) \in Call
    BY <1>1, <1>2, SelfTypes DEF Send, Sent, TypeOK, Effects
  <1>6. Known(kind, Sent(q), v, made[c], c)
    BY <1>1, <1>2, <1>3, SentKnown
  <1>7. \A m \in v : m[1] # c => m \in wire
    BY <1>3
  <1>8. passed \in SUBSET wire' /\ late' \in SUBSET Calls
    BY <1>1, <1>3, <1>4 DEF TypeOK
  <1> QED BY <1>1, <1>4, <1>5, <1>6, <1>7, <1>8, OwnStep DEF TypeOK

LEMMA ReceiveStep ==
  ASSUME Inv, NEW c \in Calls, Receive(c)
  PROVE  \E p \in Call : /\ Inv' /\ call' = [call EXCEPT ![c] = p] /\ Received(kind, call[c], p)
                         /\ call[c].reply \in Answers
  <1>1. /\ TypeOK /\ Known(kind, call[c], wire, made[c], c) /\ call[c].pc = "waiting"
        /\ UNCHANGED <<kind, wire, passed, custom, made, late, faults>> /\ Finally(c)
        /\ call[c].reply # NoAnswer /\ kind \in FourKinds
    BY ConstantsAssumption DEF Inv, CallsKnown, Receive, TypeOK, FourKinds
  <1>2. PICK q \in Call : q = call[c]
    BY <1>1 DEF TypeOK
  <1>3. q.reply \in Answers
    BY <1>1, <1>2 DEF Call, Answers
  <1>4. PICK out : out = Outcome(kind, q.reply)
    OBVIOUS
  <1>5. /\ out \in {"again", "ok", "partial", "JSONDecodeError"} \union TsErrors
        /\ out \in Statuses => out \in {"ok", "partial"}
        /\ "again" \notin Statuses
    BY <1>3, <1>4, OutcomeType DEF Statuses
  <1>6. call' = IF out = "again" THEN Transient(c)
                ELSE IF out = q.reply.status THEN Succeeded(c, q.reply) ELSE EndedWith(c, out)
    BY <1>2, <1>4 DEF Receive, Outcome
  <1>7. \E p \in Call : call' = [call EXCEPT ![c] = p] /\ Received(kind, q, p)
    <2>1. CASE out = "again"
      BY <1>1, <1>2, <1>4, <1>6, <2>1, TransientIs DEF Received
    <2>2. CASE out # "again" /\ out = q.reply.status /\ q.stage = "get" /\ out = "ok"
      <3>1. call' = [call EXCEPT ![c] = Onto(q)]
        <4>1. call \in [Calls -> Call]
          BY <1>1 DEF TypeOK
        <4>2. call' = [call EXCEPT ![c] = call'[c]]
          BY <1>2, <1>6, <2>2, <4>1 DEF Succeeded
        <4>3. call'[c] = Onto(q)
          BY <1>2, <1>6, <2>2, <4>1 DEF Succeeded, Onto, Call
        <4> QED BY <4>2, <4>3
      <3>2. "read" \in Effects /\ {} \in SUBSET Calls
        BY DEF Effects
      <3>3. Onto(q) \in Call
        BY <1>3, <3>2, SelfTypes
      <3> QED BY <1>4, <2>2, <3>1, <3>3 DEF Received
    <2>3. CASE out # "again" /\ ~(q.stage = "get" /\ q.reply.status = "ok" /\ out = "ok")
      <3>1. call' = EndedWith(c, out)
        BY <1>2, <1>6, <2>3 DEF Succeeded
      <3>2. call' = [call EXCEPT ![c] = Over(q, out)]
        BY <1>1, <1>2, <3>1, EndedWithIs
      <3>3. "read" \in Effects /\ {} \in SUBSET Calls
        BY DEF Effects
      <3>4. Over(q, out) \in Call
        BY <1>3, <1>5, <2>3, <3>3, SelfTypes
      <3> QED BY <1>4, <2>3, <3>2, <3>4 DEF Received
    <2> QED BY <2>1, <2>2, <2>3
  <1>8. PICK p \in Call : call' = [call EXCEPT ![c] = p] /\ Received(kind, q, p)
    BY <1>7
  <1>9. PICK w \in SUBSET Messages : w = wire
    BY <1>1 DEF TypeOK, Messages
  <1>10. Known(kind, p, w, made[c], c)
    BY <1>1, <1>2, <1>3, <1>8, <1>9, ReceivedKnown
  <1>11. Inv'
    BY <1>1, <1>8, <1>9, <1>10, OwnStep, FinallyType DEF TypeOK
  <1> QED BY <1>2, <1>3, <1>8, <1>11

\* Whatever ends an attempt without an answer.
LEMMA FailureStep ==
  ASSUME Inv, NEW c \in Calls, call[c].pc = "waiting",
         call' = Transient(c) \/ call' = GivenUp(c),
         UNCHANGED <<kind, passed, custom, made, late>>, passed \in SUBSET wire',
         wire' \in SUBSET wire, ctrl' \in Calls \union {NoCall}, armed' \in SUBSET Calls,
         faults' \in Nat
  PROVE  \E p \in Call : Inv' /\ call' = [call EXCEPT ![c] = p] /\ Retried(kind, call[c], p)
  <1>1. TypeOK /\ Known(kind, call[c], wire, made[c], c)
    BY DEF Inv, CallsKnown
  <1>2. PICK q \in Call : q = call[c]
    BY <1>1 DEF TypeOK
  <1>3. \E p \in Call : Retried(kind, q, p) /\ call' = [call EXCEPT ![c] = p]
    <2>1. CASE call' = Transient(c)
      BY <1>1, <1>2, <2>1, TransientIs
    <2>2. CASE call' = GivenUp(c)
      <3>1. "read" \in Effects /\ {} \in SUBSET Calls
        BY DEF Effects
      <3>2. Gone(q) \in Call /\ Retried(kind, q, Gone(q))
        BY <3>1, SelfTypes DEF Retried
      <3> QED BY <1>1, <1>2, <2>2, <3>2, GivenUpIs
    <2> QED BY <2>1, <2>2
  <1>4. PICK p \in Call : Retried(kind, q, p) /\ call' = [call EXCEPT ![c] = p]
    BY <1>3
  <1>5. PICK w, v \in SUBSET Messages : w = wire /\ v = wire'
    BY <1>1 DEF TypeOK, Messages
  <1>6. Known(kind, p, w, made[c], c)
    BY <1>1, <1>2, <1>4, <1>5, RetriedKnown
  <1>8. Known(kind, p, v, made[c], c)
    BY <1>5, <1>6, KnownOn
  <1>9. Inv'
    BY <1>1, <1>4, <1>5, <1>8, OwnStep DEF TypeOK
  <1> QED BY <1>2, <1>4, <1>9

\* A step that no call sees.
LEMMA StillStep ==
  ASSUME Inv, UNCHANGED <<kind, call, wire, passed, custom, made, late, faults>>,
         ctrl' \in Calls \union {NoCall}, armed' \in SUBSET Calls
  PROVE  Inv'
  <1>1. TypeOK'
    BY DEF Inv, TypeOK
  <1>2. \A c \in Calls : Known(kind', call'[c], wire', made'[c], c)
    BY DEF Inv, CallsKnown
  <1>3. CallsKnown'
    BY <1>2 DEF CallsKnown
  <1> QED BY <1>1, <1>3 DEF Inv

\* An attempt of one call failed, or nothing happened to any.
Failed ==
  \/ UNCHANGED call
  \/ \E c \in Calls : \E p \in Call :
       call[c].pc = "waiting" /\ call' = [call EXCEPT ![c] = p] /\ Retried(kind, call[c], p)

LEMMA AbortStep ==
  ASSUME Inv, NEW fired \in SUBSET Calls, Abort(fired),
         UNCHANGED <<kind, wire, passed, custom, made, late, faults>>
  PROVE  Inv' /\ Failed
  <1>1. ctrl \in Calls \union {NoCall} /\ armed \in SUBSET Calls /\ faults \in Nat /\ passed \in SUBSET wire
    BY DEF Inv, TypeOK
  <1>2. CASE ctrl # NoCall /\ call[ctrl].pc = "waiting"
    <2>1. PICK c \in Calls : c = ctrl
      BY <1>1, <1>2
    <2>2. /\ call[c].pc = "waiting" /\ call' = GivenUp(c)
          /\ ctrl' \in Calls \union {NoCall} /\ armed' \in SUBSET Calls
      BY <1>1, <1>2, <2>1 DEF Abort
    <2> QED BY <1>1, <2>2, FailureStep DEF Failed
  <1>3. CASE ~(ctrl # NoCall /\ call[ctrl].pc = "waiting")
    <2>1. UNCHANGED call /\ ctrl' \in Calls \union {NoCall} /\ armed' \in SUBSET Calls
      BY <1>1, <1>3 DEF Abort
    <2> QED BY <2>1, StillStep DEF Failed
  <1> QED BY <1>2, <1>3

LEMMA FaultSteps ==
  ASSUME Inv,
         Close \/ \E c \in Calls : Broken(c) \/ Timeout(c) \/ TimerFires(c)
  PROVE  Inv' /\ Failed /\ UNCHANGED <<kind, passed, custom, made, late>>
  <1>1. CASE Close
    BY <1>1, AbortStep DEF Close
  <1>2. ASSUME NEW c \in Calls, TimerFires(c)
        PROVE  Inv' /\ Failed /\ UNCHANGED <<kind, passed, custom, made, late>>
    <2>1. Abort({c}) /\ UNCHANGED <<kind, wire, passed, custom, made, late, faults>> /\ {c} \in SUBSET Calls
      BY <1>2 DEF TimerFires
    <2> QED BY <2>1, AbortStep
  <1>3. ASSUME NEW c \in Calls, Timeout(c)
        PROVE  Inv' /\ Failed /\ UNCHANGED <<kind, passed, custom, made, late>>
    <2>1. /\ call[c].pc = "waiting" /\ call' = Transient(c)
          /\ UNCHANGED <<kind, wire, passed, ctrl, armed, custom, made, late, faults>>
          /\ passed \in SUBSET wire /\ ctrl \in Calls \union {NoCall} /\ armed \in SUBSET Calls /\ faults \in Nat
      BY <1>3 DEF Timeout, Inv, TypeOK
    <2> QED BY <2>1, FailureStep DEF Failed
  <1>4. ASSUME NEW c \in Calls, Broken(c)
        PROVE  Inv' /\ Failed /\ UNCHANGED <<kind, passed, custom, made, late>>
    <2>1. /\ call[c].pc = "waiting" /\ call' = Transient(c) /\ wire' \in SUBSET wire
          /\ UNCHANGED <<kind, passed, custom, made, late>> /\ passed \in SUBSET wire'
          /\ faults' \in Nat /\ TypeOK
      BY <1>4 DEF Broken, Inv, TypeOK
    <2>2. ctrl' \in Calls \union {NoCall} /\ armed' \in SUBSET Calls
      BY <1>4, <2>1, FinallyType DEF Broken, TypeOK
    <2> QED BY <2>1, <2>2, FailureStep DEF Failed
  <1> QED BY <1>1, <1>2, <1>3, <1>4

\* Request m takes effect: what can be done once, only of a call that was made before it
\* was done.
Took(m) ==
  LET c == m[1] IN
  /\ m[2] = "put" /\ call[c].effect # "read"
  /\ Once(c) => c \notin late
  /\ call[c].effect = "unique" => ~Taken
  /\ made' = [made EXCEPT ![c] = @ + 1]
  /\ custom' = CASE call[c].effect = "merge" -> Merged(c)
                 [] call[c].effect = "rewrite" -> {c}
                 [] OTHER -> custom

\* Request m is answered; "ok" only if it took effect, or reads.
Handled(m) ==
  \E a \in Answers :
    /\ call' = IF call[m[1]].pc = "waiting" /\ Request(m[1]) = m
               THEN [call EXCEPT ![m[1]].reply = a] ELSE call
    /\ \/ /\ UNCHANGED <<custom, made>>
          /\ a.status = "ok" => call[m[1]].effect = "read" \/ (m[2] = "get" /\ a.seen = custom)
          /\ a.status = "409" => Taken
       \/ Took(m) /\ a.status \in {"ok", "5xx", "partial"}

\* The server is done with request m.
Answered(m) ==
  /\ Handled(m)
  /\ wire' = wire \ {m} /\ passed' = passed \ {m} /\ UNCHANGED <<kind, ctrl, armed, late>>
  /\ faults' \in Nat

LEMMA HandleOutcome ==
  ASSUME Inv, NEW m \in wire, Handle(m)
  PROVE  Answered(m)
  <1>1. /\ TypeOK /\ m \in Messages /\ m[1] \in Calls /\ call[m[1]] \in Call
        /\ call[m[1]].effect \in Effects /\ custom \in SUBSET Calls /\ faults \in Nat
        /\ m[2] \in {"get", "put"}
    BY DEF Inv, TypeOK, Messages, Call
  <1>2. wire' = wire \ {m} /\ passed' = passed \ {m} /\ UNCHANGED <<kind, ctrl, armed, late>> /\ faults' \in Nat
    <2>1. wire' = wire \ {m} /\ UNCHANGED <<kind, passed, ctrl, armed, late>> /\ m \notin passed
      BY DEF Handle
    <2>2. faults' = faults \/ faults' = faults + 1
      BY DEF Handle
    <2>3. passed' = passed \ {m}
      BY <2>1
    <2> QED BY <1>1, <2>1, <2>2, <2>3
  <1>3. /\ Status(m) \in Statuses
        /\ Status(m) = "ok" => m[2] = "get" \/ ~Once(m[1]) \/ ~Taken
        /\ Status(m) = "409" => Taken
    <2>1. CASE m[2] = "get" \/ ~Once(m[1]) \/ ~Taken
      BY <2>1 DEF Status, Statuses
    <2>2. CASE ~(m[2] = "get" \/ ~Once(m[1]) \/ ~Taken)
      BY <2>2 DEF Status, Once, Statuses
    <2> QED BY <2>1, <2>2
  <1>4. Serve(m) => \/ /\ UNCHANGED <<custom, made>>
                       /\ m[2] = "get" \/ call[m[1]].effect = "read" \/ Once(m[1])
                    \/ Took(m) /\ ~Once(m[1])
    BY <1>1 DEF Serve, Took, Once
  <1>5. ASSUME NEW s \in Statuses, NEW x \in SUBSET Calls
        PROVE  /\ Answer(s, TRUE, x) \in Answers /\ Answer(s, FALSE, x) \in Answers
               /\ \A j \in BOOLEAN : Answer(s, j, x).status = s /\ Answer(s, j, x).seen = x
    BY DEF Answer, Answers
  <1> SUFFICES Handled(m)
    BY <1>1, <1>2 DEF Answered
  <1>6. CASE (Once(m[1]) => Taken) /\ Serve(m) /\ Reply(m, Answer(Status(m), TRUE, custom))
    <2>1. PICK a : a = Answer(Status(m), TRUE, custom)
      OBVIOUS
    <2>2. a \in Answers /\ a.status = Status(m) /\ a.seen = custom
      BY <1>1, <1>3, <1>5, <2>1
    <2>3. call' = IF call[m[1]].pc = "waiting" /\ Request(m[1]) = m
                 THEN [call EXCEPT ![m[1]].reply = a] ELSE call
      BY <1>6, <2>1 DEF Reply
    <2>4. CASE Took(m) /\ ~Once(m[1])
      <3>1. Status(m) = "ok"
        BY <2>4 DEF Status
      <3> QED BY <2>2, <2>3, <2>4, <3>1 DEF Handled
    <2>5. CASE UNCHANGED <<custom, made>> /\ (m[2] = "get" \/ call[m[1]].effect = "read" \/ Once(m[1]))
      <3>1. a.status = "ok" => call[m[1]].effect = "read" \/ (m[2] = "get" /\ a.seen = custom)
        BY <1>3, <1>6, <2>2, <2>5
      <3> QED BY <1>3, <2>2, <2>3, <2>5, <3>1 DEF Handled
    <2> QED BY <1>4, <1>6, <2>4, <2>5
  <1>7. CASE \E s \in Refusals : Reply(m, Answer(s, TRUE, {})) /\ UNCHANGED <<custom, made>>
    <2>1. PICK s \in Refusals : Reply(m, Answer(s, TRUE, {})) /\ UNCHANGED <<custom, made>>
      BY <1>7
    <2>2. s \in Statuses /\ s \notin {"ok", "409"}
      BY ConstantsAssumption DEF Statuses
    <2>3. PICK a : a = Answer(s, TRUE, {})
      OBVIOUS
    <2>4. a \in Answers /\ a.status = s
      BY <1>5, <2>2, <2>3
    <2>5. call' = IF call[m[1]].pc = "waiting" /\ Request(m[1]) = m
                 THEN [call EXCEPT ![m[1]].reply = a] ELSE call
      BY <2>1, <2>3 DEF Reply
    <2> QED BY <2>1, <2>2, <2>4, <2>5 DEF Handled
  <1>8. CASE (Serve(m) \/ UNCHANGED <<custom, made>>) /\ Reply(m, Answer("5xx", FALSE, {}))
    <2>1. PICK a : a = Answer("5xx", FALSE, {})
      OBVIOUS
    <2>2. a \in Answers /\ a.status = "5xx"
      BY <1>5, <2>1 DEF Statuses
    <2>3. call' = IF call[m[1]].pc = "waiting" /\ Request(m[1]) = m
                 THEN [call EXCEPT ![m[1]].reply = a] ELSE call
      BY <1>8, <2>1 DEF Reply
    <2> QED BY <1>4, <1>8, <2>2, <2>3 DEF Handled
  <1>9. CASE /\ \E s \in {"4xx", "5xx"}, json \in BOOLEAN : Reply(m, Answer(s, json, {}))
             /\ UNCHANGED <<custom, made>>
    <2>1. PICK s \in {"4xx", "5xx"}, json \in BOOLEAN : Reply(m, Answer(s, json, {}))
      BY <1>9
    <2>2. PICK a : a = Answer(s, json, {})
      OBVIOUS
    <2>3. s \in Statuses /\ s \notin {"ok", "409"}
      BY DEF Statuses
    <2>4. a \in Answers
      BY <2>2, <2>3 DEF Answer, Answers
    <2>5. a.status = s
      BY <2>2 DEF Answer
    <2>6. call' = IF call[m[1]].pc = "waiting" /\ Request(m[1]) = m
                 THEN [call EXCEPT ![m[1]].reply = a] ELSE call
      BY <2>1, <2>2 DEF Reply
    <2> QED BY <1>9, <2>3, <2>4, <2>5, <2>6 DEF Handled
  <1> QED BY <1>6, <1>7, <1>8, <1>9 DEF Handle

\* What is known of what can be done once. A handler that has passed its check belongs to
\* a call that was made before it was done.
Order ==
  /\ \A m \in passed : m[2] = "put" /\ Once(m[1]) /\ m[1] \notin late
  /\ late # {} => Taken
  /\ \A c \in late : Once(c) => made[c] = 0
  /\ \A c \in Calls : call[c].reply.status = "409" => Taken

LEMMA CommitOutcome ==
  ASSUME Inv, Order, NEW m \in wire, Commit(m)
  PROVE  Answered(m)
  <1>1. /\ TypeOK /\ m \in Messages /\ m[1] \in Calls /\ call[m[1]] \in Call /\ m \in passed
        /\ custom \in SUBSET Calls /\ faults \in Nat
    BY DEF Inv, TypeOK, Messages, Commit
  <1>2. PICK c \in Calls : c = m[1]
    BY <1>1
  <1>3. m[2] = "put" /\ Once(c) /\ c \notin late
    BY <1>1, <1>2 DEF Order
  <1>4. wire' = wire \ {m} /\ passed' = passed \ {m} /\ UNCHANGED <<kind, ctrl, armed, custom, late>>
        /\ faults' \in Nat
    <2>1. faults' = faults \/ faults' = faults + 1
      BY DEF Commit
    <2> QED BY <1>1, <2>1 DEF Commit
  <1>5. Admitted(c) /\ Done(c) => Took(m)
    BY <1>2, <1>3, <1>4 DEF Took, Done, Admitted, Once
  <1>6. ASSUME NEW s \in {"ok", "5xx", "partial"}, NEW j \in BOOLEAN
        PROVE  Answer(s, j, {}) \in Answers /\ Answer(s, j, {}).status = s
    BY DEF Answer, Answers, Statuses
  <1>7. \E a \in Answers : /\ Reply(m, a) /\ a.status \in {"ok", "5xx", "partial"}
                           /\ Took(m) \/ (UNCHANGED made /\ a.status # "ok")
    <2>1. CASE Admitted(c) /\ Done(c) /\ Reply(m, Answer("ok", TRUE, {}))
      BY <1>5, <1>6, <2>1
    <2>2. CASE UNCHANGED made /\ Reply(m, Answer("5xx", FALSE, {}))
      BY <1>6, <2>2
    <2>3. CASE ((Admitted(c) /\ Done(c)) \/ UNCHANGED made) /\ Reply(m, Failure(c))
      <3>1. Failure(c) = Answer("partial", TRUE, {}) \/ Failure(c) = Answer("5xx", FALSE, {})
        BY DEF Failure
      <3> QED BY <1>5, <1>6, <2>3, <3>1
    <2> QED BY <1>2, <2>1, <2>2, <2>3 DEF Commit
  <1>8. Handled(m)
    BY <1>4, <1>7 DEF Handled, Reply
  <1> QED BY <1>4, <1>8 DEF Answered

LEMMA AnsweredStep ==
  ASSUME Inv, NEW m \in wire, Answered(m)
  PROVE  Inv'
  <1>1. /\ TypeOK /\ CallsKnown /\ m \in Messages /\ Handled(m)
        /\ wire' = wire \ {m} /\ passed' = passed \ {m} /\ UNCHANGED <<kind, ctrl, armed, late>>
        /\ faults' \in Nat
    BY DEF Inv, Answered, TypeOK, Messages
  <1>2. PICK c \in Calls : c = m[1]
    BY <1>1 DEF Messages
  <1>3. PICK q \in Call : q = call[c]
    BY <1>1 DEF TypeOK
  <1>4. PICK w, v \in SUBSET Messages : w = wire /\ v = wire'
    BY <1>1 DEF TypeOK, Messages
  <1>5. PICK n : n = made[c]
    OBVIOUS
  <1>6. Known(kind, q, w, n, c) /\ n \in Nat
    BY <1>1, <1>3, <1>4, <1>5 DEF CallsKnown, TypeOK
  <1>7. PICK a \in Answers :
          /\ call' = IF q.pc = "waiting" /\ Request(c) = m THEN [call EXCEPT ![c].reply = a] ELSE call
          /\ \/ /\ UNCHANGED <<custom, made>>
                /\ a.status = "ok" => q.effect = "read" \/ (m[2] = "get" /\ a.seen = custom)
             \/ Took(m) /\ a.status \in {"ok", "5xx", "partial"}
    BY <1>1, <1>2, <1>3 DEF Handled
  <1>8. /\ made' = [made EXCEPT ![c] = made'[c]] /\ made'[c] \in Nat
        /\ custom' \in SUBSET Calls
    <2>1. CASE UNCHANGED <<custom, made>>
      BY <1>1, <2>1 DEF TypeOK
    <2>2. CASE Took(m)
      <3>1. made' = [made EXCEPT ![c] = @ + 1]
        BY <1>2, <2>2 DEF Took
      <3>3. q.seen \in SUBSET Calls
        BY DEF Call
      <3>4. custom' = CASE q.effect = "merge" -> q.seen \union {c}
                        [] q.effect = "rewrite" -> {c}
                        [] OTHER -> custom
        BY <1>2, <1>3, <2>2 DEF Took, Merged
      <3>5. custom' \in SUBSET Calls
        BY <1>1, <3>3, <3>4 DEF TypeOK
      <3> QED BY <1>1, <3>1, <3>5 DEF TypeOK
    <2> QED BY <1>7, <2>1, <2>2
  <1>9. Known(kind, q, v, made'[c], c) /\ (Took(m) => made'[c] > 0)
    <2>1. CASE UNCHANGED <<custom, made>>
      <3>1. Known(kind, q, v, n, c)
        BY <1>1, <1>4, <1>6, KnownOn
      <3>2. Took(m) => FALSE
        <4>1. Took(m) => made'[c] = made[c] + 1
          BY <1>1, <1>2 DEF Took, TypeOK
        <4> QED BY <1>5, <1>6, <2>1, <4>1
      <3> QED BY <1>5, <2>1, <3>1, <3>2
    <2>2. CASE Took(m)
      <3>1. m[2] = "put" /\ made'[c] = n + 1 /\ m \in w /\ v = w \ {m}
        BY <1>1, <1>2, <1>4, <1>5, <2>2 DEF Took, TypeOK
      <3>3. Known(kind, q, w \ {m}, n + 1, c)
        BY <1>2, <1>6, <3>1, ServedKnown
      <3> QED BY <1>6, <3>1, <3>3
    <2> QED BY <1>7, <2>1, <2>2
  <1>10. \E p \in Call : call' = [call EXCEPT ![c] = p] /\ Known(kind, p, v, made'[c], c)
    <2>1. CASE q.pc = "waiting" /\ Request(c) = m
      <3>1. call' = [call EXCEPT ![c] = Told(q, a)]
        BY <1>1, <1>3, <1>7, <2>1 DEF Told, TypeOK
      <3>2. m = <<c, q.stage, q.attempt>> /\ q.stage \in {"get", "put"}
        BY <1>3, <2>1 DEF Request, Call
      <3>3. m \notin v
        BY <1>1, <1>4
      <3>4. q.attempt = 0 /\ a.status \in BlameStatuses => made'[c] = 0
        <4>1. CASE UNCHANGED <<custom, made>>
          <5>1. q.attempt = 0 => n = 0
            BY <1>4, <1>6, <3>2 DEF Known
          <5> QED BY <1>5, <4>1, <5>1
        <4>2. CASE Took(m) /\ a.status \in {"ok", "5xx", "partial"}
          BY <4>2 DEF BlameStatuses
        <4> QED BY <1>7, <4>1, <4>2
      <3>5. a.status = "ok" /\ q.stage = "put" => Did(q, made'[c])
        <4>1. CASE Took(m)
          BY <1>9, <4>1 DEF Did
        <4>2. CASE a.status = "ok" => q.effect = "read" \/ (m[2] = "get" /\ a.seen = custom)
          BY <3>2, <4>2 DEF Did
        <4> QED BY <1>7, <4>1, <4>2
      <3>6. Known(kind, Told(q, a), v, made'[c], c)
        <4>1. PICK z : z = made'[c]
          OBVIOUS
        <4>2. Known(kind, Told(q, a), v, z, c)
          BY <1>9, <2>1, <3>2, <3>3, <3>4, <3>5, <4>1, ToldKnown
        <4> QED BY <4>1, <4>2
      <3>7. Told(q, a) \in Call
        BY DEF Told, Call, Answers
      <3> QED BY <3>1, <3>6, <3>7
    <2>2. CASE ~(q.pc = "waiting" /\ Request(c) = m)
      <3>1. call' = [call EXCEPT ![c] = q]
        BY <1>1, <1>3, <1>7, <2>2 DEF TypeOK
      <3> QED BY <1>9, <3>1
    <2> QED BY <2>1, <2>2
  <1>11. PICK p \in Call : call' = [call EXCEPT ![c] = p] /\ Known(kind, p, v, made'[c], c)
    BY <1>10
  <1>12. TypeOK'
    <2>1. call' \in [Calls -> Call] /\ made' \in [Calls -> Nat]
      BY <1>1, <1>8, <1>11 DEF TypeOK
    <2>2. wire' \in SUBSET (Calls \X {"get", "put"} \X (0..MaxRetries))
      BY <1>1 DEF TypeOK
    <2> QED BY <1>1, <1>8, <2>1, <2>2 DEF TypeOK
  <1>13. ASSUME NEW d \in Calls
         PROVE  Known(kind', call'[d], wire', made'[d], d)
    <2>1. CASE d = c
      BY <1>1, <1>4, <1>11, <2>1 DEF TypeOK
    <2>2. CASE d # c
      <3>1. call'[d] = call[d] /\ made'[d] = made[d] /\ Known(kind, call[d], wire, made[d], d)
        BY <1>1, <1>8, <1>11, <2>2 DEF TypeOK, CallsKnown
      <3>2. PICK r, z : r = call[d] /\ z = made[d]
        OBVIOUS
      <3>3. Known(kind, r, v, z, d)
        BY <1>1, <1>4, <1>8, <3>1, <3>2, KnownOn
      <3> QED BY <1>1, <1>4, <3>1, <3>2, <3>3
    <2> QED BY <2>1, <2>2
  <1>14. CallsKnown'
    BY <1>13 DEF CallsKnown
  <1> QED BY <1>12, <1>14 DEF Inv

LEMMA InitInv == Init => Inv
  <1> SUFFICES ASSUME Init PROVE Inv
    OBVIOUS
  <1>1. TypeOK
    BY NoAnswerIsNone DEF Init, TypeOK
  <1>2. ASSUME NEW c \in Calls
        PROVE  Known(kind, call[c], wire, made[c], c)
    <2>1. PICK q : q = Idle
      OBVIOUS
    <2>2. /\ q.pc = "idle" /\ q.attempt = 0 /\ q.reply = NoAnswer /\ q.out = "none"
          /\ q.stage = "put" /\ q.effect = "read"
      BY <2>1 DEF Idle
    <2>3. call[c] = q /\ wire = {} /\ made[c] = 0
      BY <2>1 DEF Init
    <2>4. Known(kind, q, {}, 0, c)
      BY <2>1, <2>2, NoAnswerIsNone DEF Known, Blame, BlameStatuses
    <2> QED BY <2>3, <2>4
  <1> QED BY <1>1, <1>2 DEF Inv, CallsKnown

LEMMA PassStep ==
  ASSUME Inv, NEW m \in wire, Pass(m)
  PROVE  Inv' /\ UNCHANGED <<kind, call, custom, made, late>>
  <1>1. UNCHANGED <<kind, call, wire, ctrl, armed, custom, made, late, faults>> /\ passed' = passed \union {m}
    BY DEF Pass
  <1>2. TypeOK'
    BY <1>1 DEF Inv, TypeOK
  <1>3. CallsKnown'
    BY <1>1 DEF Inv, CallsKnown
  <1> QED BY <1>1, <1>2, <1>3 DEF Inv

LEMMA StepInv == Inv /\ Order /\ [Next]_vars => Inv'
  <1> SUFFICES ASSUME Inv, Order, [Next]_vars PROVE Inv'
    OBVIOUS
  <1>1. CASE UNCHANGED vars
    BY <1>1, StillStep DEF vars, Inv, TypeOK
  <1>2. ASSUME NEW c \in Calls, Start(c) PROVE Inv'
    BY <1>2, StartStep
  <1>3. ASSUME NEW c \in Calls, Send(c) PROVE Inv'
    BY <1>3, SendStep
  <1>4. ASSUME NEW c \in Calls, Receive(c) PROVE Inv'
    BY <1>4, ReceiveStep
  <1>5. CASE Close \/ \E c \in Calls : Broken(c) \/ Timeout(c) \/ TimerFires(c)
    BY <1>5, FaultSteps
  <1>6. ASSUME NEW m \in wire, Handle(m) PROVE Inv'
    BY <1>6, HandleOutcome, AnsweredStep
  <1>7. ASSUME NEW m \in wire, Pass(m) PROVE Inv'
    BY <1>7, PassStep
  <1>8. ASSUME NEW m \in wire, Commit(m) PROVE Inv'
    BY <1>8, CommitOutcome, AnsweredStep
  <1> QED BY <1>1, <1>2, <1>3, <1>4, <1>5, <1>6, <1>7, <1>8 DEF Next

-----------------------------------------------------------------------------
(* What can be done once *)

\* What was done stays done.
LEMMA TakenStays ==
  ASSUME Taken, \A c \in Calls : made[c] > 0 => made'[c] > 0 /\ call'[c].effect = call[c].effect
  PROVE  Taken'
  BY DEF Taken, Once

LEMMA OrderOwn ==
  ASSUME Inv, Order, NEW c \in Calls, NEW p, call' = [call EXCEPT ![c] = p],
         p.effect = call[c].effect, p.reply.status = "409" => call[c].reply.status = "409",
         UNCHANGED <<passed, late, made>>
  PROVE  Order'
  <1>1. call'[c] = p /\ (\A d \in Calls : d # c => call'[d] = call[d]) /\ \A m \in passed : m[1] \in Calls
    BY DEF Inv, TypeOK
  <1>2. \A d \in Calls : call'[d].effect = call[d].effect
    BY <1>1
  <1>3. /\ Taken => Taken'
        /\ \A d \in Calls : Once(d)' <=> Once(d)
    BY <1>2, TakenStays DEF Once
  <1>4. \A d \in Calls : call'[d].reply.status = "409" => Taken'
    BY <1>1, <1>3 DEF Order
  <1>5. late \in SUBSET Calls
    BY DEF Inv, TypeOK
  <1> QED BY <1>1, <1>3, <1>4, <1>5 DEF Order

LEMMA OrderStill ==
  ASSUME Order, UNCHANGED <<call, passed, late, made>>
  PROVE  Order'
  BY DEF Order, Taken, Once

LEMMA RetriedKeeps ==
  ASSUME NEW k, NEW q \in Call, NEW p, Retried(k, q, p)
  PROVE  p.effect = q.effect /\ p.reply.status # "409"
  BY NoAnswerIsNone DEF Retried, Gone, Again, Call

LEMMA ReceivedKeeps ==
  ASSUME NEW k, NEW q \in Call, NEW p, q.reply \in Answers, Received(k, q, p)
  PROVE  p.effect = q.effect /\ (p.reply.status = "409" => q.reply.status = "409")
  <1>1. CASE Retried(k, q, p)
    BY <1>1, RetriedKeeps
  <1>2. CASE p = Onto(q)
    BY <1>2, NoAnswerIsNone DEF Onto, Call
  <1>3. CASE p = Over(q, Outcome(k, q.reply))
    BY <1>3 DEF Over, Call, Answers
  <1> QED BY <1>1, <1>2, <1>3 DEF Received

LEMMA OrderStart ==
  ASSUME Inv, Order, NEW c \in Calls, Start(c)
  PROVE  Order'
  <1>1. PICK b : b = {d \in Calls : Ended(d)}
    OBVIOUS
  <1>2. PICK e : call' = [call EXCEPT ![c] = Started(e, b)]
    BY <1>1 DEF Start, Started
  <1>3. /\ TypeOK /\ UNCHANGED <<passed, made>> /\ late' = IF Taken THEN late \union {c} ELSE late
        /\ Known(kind, call[c], wire, made[c], c) /\ call[c].pc = "idle"
    BY DEF Start, Inv, CallsKnown
  <1>4. made[c] = 0 /\ \A m \in wire : m[1] # c
    BY <1>3 DEF Known
  <1>5. call'[c] = Started(e, b) /\ \A d \in Calls : d # c => call'[d] = call[d]
    BY <1>2, <1>3 DEF TypeOK
  <1>6. Taken => Taken'
    BY <1>3, <1>4, <1>5, TakenStays
  <1>7. \A d \in Calls : d # c => (Once(d)' <=> Once(d))
    BY <1>5 DEF Once
  <1>8. Started(e, b).reply = NoAnswer
    BY DEF Started, Idle
  <1>9. \A m \in passed : m[1] \in Calls /\ m[1] # c
    BY <1>3, <1>4 DEF TypeOK
  <1>10. \A m \in passed' : m[2] = "put" /\ Once(m[1])' /\ m[1] \notin late'
    BY <1>3, <1>7, <1>9 DEF Order
  <1>11. late' # {} => Taken'
    BY <1>3, <1>6 DEF Order
  <1>12. \A d \in late' : Once(d)' => made'[d] = 0
    BY <1>3, <1>4, <1>7 DEF Order, TypeOK
  <1>13. \A d \in Calls : call'[d].reply.status = "409" => Taken'
    BY <1>5, <1>6, <1>8, NoAnswerIsNone DEF Order
  <1> QED BY <1>10, <1>11, <1>12, <1>13 DEF Order

LEMMA OrderAnswered ==
  ASSUME Inv, Order, NEW m \in wire, Answered(m)
  PROVE  Order'
  <1>1. /\ TypeOK /\ m \in Messages /\ Handled(m) /\ passed' = passed \ {m} /\ late' = late
    BY DEF Inv, Answered, TypeOK, Messages
  <1>2. PICK c \in Calls : c = m[1]
    BY <1>1 DEF Messages
  <1>3. PICK a \in Answers :
          /\ call' = IF call[c].pc = "waiting" /\ Request(c) = m THEN [call EXCEPT ![c].reply = a] ELSE call
          /\ \/ UNCHANGED made /\ (a.status = "409" => Taken)
             \/ Took(m) /\ a.status # "409"
    BY <1>1, <1>2 DEF Handled
  <1>4. \A d \in Calls : /\ call'[d].effect = call[d].effect
                         /\ call'[d].reply = call[d].reply \/ call'[d].reply = a
    BY <1>1, <1>3 DEF TypeOK, Call
  <1>5. \A d \in Calls : Once(d)' <=> Once(d)
    BY <1>4 DEF Once
  <1>6. /\ \A d \in Calls : made[d] > 0 => made'[d] > 0
        /\ \A d \in late : Once(d) => made'[d] = made[d]
    <2>1. CASE UNCHANGED made
      BY <2>1
    <2>2. CASE Took(m)
      <3>1. made' = [made EXCEPT ![c] = @ + 1] /\ (Once(c) => c \notin late)
        BY <1>2, <2>2 DEF Took
      <3> QED BY <1>1, <3>1 DEF TypeOK
    <2> QED BY <1>3, <2>1, <2>2
  <1>7. Taken => Taken'
    BY <1>4, <1>6, TakenStays
  <1>8. a.status = "409" => Taken
    BY <1>3
  <1>9. \A d \in Calls : call'[d].reply.status = "409" => Taken'
    BY <1>4, <1>7, <1>8 DEF Order
  <1>10. \A x \in passed : x[1] \in Calls
    BY <1>1 DEF TypeOK
  <1>11. \A x \in passed' : x[2] = "put" /\ Once(x[1])' /\ x[1] \notin late'
    BY <1>1, <1>5, <1>10 DEF Order
  <1>12. \A d \in late' : Once(d)' => made'[d] = 0
    BY <1>1, <1>5, <1>6 DEF Order, TypeOK
  <1> QED BY <1>1, <1>7, <1>9, <1>11, <1>12 DEF Order

LEMMA StepOrder == Inv /\ Order /\ [Next]_vars => Order'
  <1> SUFFICES ASSUME Inv, Order, [Next]_vars PROVE Order'
    OBVIOUS
  <1>1. CASE UNCHANGED vars
    BY <1>1, OrderStill DEF vars
  <1>2. ASSUME NEW c \in Calls, Start(c) PROVE Order'
    BY <1>2, OrderStart
  <1>3. ASSUME NEW c \in Calls, Send(c) PROVE Order'
    <2>1. /\ call' = [call EXCEPT ![c] = Sent(call[c])] /\ call[c] \in Call
          /\ UNCHANGED <<passed, late, made>>
      BY <1>3 DEF Send, Sent, Inv, TypeOK
    <2>2. Sent(call[c]).effect = call[c].effect /\ Sent(call[c]).reply = call[c].reply
      BY <2>1 DEF Sent, Call
    <2> QED BY <2>1, <2>2, OrderOwn
  <1>4. ASSUME NEW c \in Calls, Receive(c) PROVE Order'
    <2>1. PICK p \in Call : /\ call' = [call EXCEPT ![c] = p] /\ Received(kind, call[c], p)
                            /\ call[c].reply \in Answers
      BY <1>4, ReceiveStep
    <2>2. call[c] \in Call /\ UNCHANGED <<passed, late, made>>
      BY <1>4 DEF Inv, TypeOK, Receive
    <2>3. PICK q, k : q = call[c] /\ k = kind
      OBVIOUS
    <2>4. p.effect = q.effect /\ (p.reply.status = "409" => q.reply.status = "409")
      BY <2>1, <2>2, <2>3, ReceivedKeeps
    <2> QED BY <2>1, <2>2, <2>3, <2>4, OrderOwn
  <1>5. CASE Close \/ \E c \in Calls : Broken(c) \/ Timeout(c) \/ TimerFires(c)
    <2>1. Failed /\ UNCHANGED <<kind, passed, custom, made, late>>
      BY <1>5, FaultSteps
    <2>2. CASE UNCHANGED call
      BY <2>1, <2>2, OrderStill
    <2>3. ASSUME NEW c \in Calls, NEW p \in Call, call' = [call EXCEPT ![c] = p],
                 Retried(kind, call[c], p)
          PROVE  Order'
      <3>1. PICK q, k : q = call[c] /\ k = kind /\ q \in Call
        BY DEF Inv, TypeOK
      <3>2. p.effect = q.effect /\ p.reply.status # "409"
        BY <2>3, <3>1, RetriedKeeps
      <3> QED BY <2>1, <2>3, <3>1, <3>2, OrderOwn
    <2> QED BY <2>1, <2>2, <2>3 DEF Failed
  <1>6. ASSUME NEW m \in wire, Handle(m) PROVE Order'
    BY <1>6, HandleOutcome, OrderAnswered
  <1>7. ASSUME NEW m \in wire, Pass(m) PROVE Order'
    <2>1. /\ passed' = passed \union {m} /\ UNCHANGED <<call, made, late>>
          /\ m[2] = "put" /\ Once(m[1]) /\ ~Taken
      BY <1>7 DEF Pass
    <2> QED BY <2>1 DEF Order, Taken, Once
  <1>8. ASSUME NEW m \in wire, Commit(m) PROVE Order'
    BY <1>8, CommitOutcome, OrderAnswered
  <1> QED BY <1>1, <1>2, <1>3, <1>4, <1>5, <1>6, <1>7, <1>8 DEF Next

LEMMA InitOrder == Init => Order
  <1> SUFFICES ASSUME Init PROVE Order
    OBVIOUS
  <1>1. /\ passed = {} /\ late = {}
        /\ \A c \in Calls : call[c] = Idle
    BY DEF Init
  <1>2. Idle.reply = NoAnswer
    BY DEF Idle
  <1> QED BY <1>1, <1>2, NoAnswerIsNone DEF Order

LEMMA InvAlways == Spec => []Inv /\ []Order
  <1>1. Init => Inv /\ Order
    BY InitInv, InitOrder
  <1>2. Inv /\ Order /\ [Next]_vars => (Inv /\ Order)'
    BY StepInv, StepOrder
  <1>3. Spec => [](Inv /\ Order)
    BY <1>1, <1>2, PTL DEF Spec
  <1> QED BY <1>3, PTL

-----------------------------------------------------------------------------
(* The entries of update_handoff *)

\* Call d with record x took away the entries of call c with record y, if d took effect (n > 0).
Cause(x, n, y, c, d) ==
  /\ d # c /\ n > 0
  /\ x.effect = "rewrite" \/ (x.effect = "merge" /\ c \notin x.seen)
  /\ \/ x.effect = "rewrite"
     \/ d \notin y.before /\ c \notin x.before
     \/ x.attempt > 0 \/ x.out = "ConnectionError"

Lost(c, cl, md) == \E d \in Calls : Cause(cl[d], md[d], cl[c], c, d)

\* The entries that an update_handoff has read are s.
HasRead(x, s) ==
  \/ x.stage = "put" /\ s = x.seen
  \/ x.stage = "get" /\ x.reply.status = "ok" /\ s = x.reply.seen

\* Entries are missing in the context, or in what a later call has read of it, only if
\* there is a cause.
Missing(cl, md, cu) ==
  \A c \in Calls : cl[c].effect = "merge" /\ cl[c].out \in {"none", "ok"} /\ md[c] > 0 /\ c \notin cu =>
    Lost(c, cl, md)
MissingRead(cl, md) ==
  \A c, d \in Calls :
    cl[c].effect = "merge" /\ cl[c].out = "ok" /\ cl[d].effect = "merge" /\ c \in cl[d].before =>
      \A s : HasRead(cl[d], s) /\ c \notin s => Lost(c, cl, md)

BeforeEnded(cl) == \A c, d \in Calls : d \in cl[c].before => cl[d].pc = "ended"

Merges == Missing(call, made, custom) /\ MissingRead(call, made) /\ BeforeEnded(call)

\* A call that took effect keeps what makes it a cause.
Stays(x, n, y, k) ==
  n > 0 => /\ k > 0 /\ y.effect = x.effect /\ y.seen = x.seen /\ y.before = x.before
           /\ x.attempt > 0 => y.attempt > 0
           /\ x.out = "ConnectionError" => y.out = "ConnectionError"

LEMMA LostOn ==
  ASSUME NEW cl, NEW md, NEW dl, NEW nd, NEW c \in Calls, Lost(c, cl, md),
         \A d \in Calls : Stays(cl[d], md[d], dl[d], nd[d]), dl[c].before = cl[c].before
  PROVE  Lost(c, dl, nd)
  <1>1. PICK d \in Calls : Cause(cl[d], md[d], cl[c], c, d)
    BY DEF Lost
  <1>2. Stays(cl[d], md[d], dl[d], nd[d])
    OBVIOUS
  <1>3. Cause(dl[d], nd[d], dl[c], c, d)
    BY <1>1, <1>2 DEF Cause, Stays
  <1> QED BY <1>3 DEF Lost

\* A call has made a step of its own: it started, or went on.
Kin(q, p) ==
  \/ q.pc = "idle" /\ p.pc # "ended" /\ p.out = "none" /\ (p.effect = "merge" => \A s : ~HasRead(p, s))
  \/ /\ q.pc \notin {"idle", "ended"} /\ p.effect = q.effect /\ p.before = q.before
     /\ q.stage = "put" => p.seen = q.seen /\ (q.attempt > 0 => p.attempt > 0)
     /\ \A s : HasRead(p, s) => HasRead(q, s)

LEMMA RetriedKin ==
  ASSUME NEW k, NEW q \in Call, NEW p, q.pc = "waiting", Retried(k, q, p)
  PROVE  Kin(q, p)
  <1>1. q.attempt \in Nat
    BY ConstantsAssumption DEF Call
  <1>2. CASE p = Gone(q)
    <2>1. /\ p.effect = q.effect /\ p.before = q.before /\ p.seen = q.seen /\ p.attempt = q.attempt
          /\ p.stage = q.stage /\ p.reply = NoAnswer
      BY <1>2 DEF Gone, Call
    <2> QED BY <2>1, NoAnswerIsNone DEF Kin, HasRead
  <1>3. CASE p = Again(q)
    <2>1. /\ p.effect = q.effect /\ p.before = q.before /\ p.seen = q.seen /\ p.attempt = q.attempt + 1
          /\ p.stage = q.stage /\ p.reply = NoAnswer
      BY <1>3 DEF Again, Call
    <2> QED BY <1>1, <2>1, NoAnswerIsNone DEF Kin, HasRead
  <1> QED BY <1>2, <1>3 DEF Retried

LEMMA ReceivedKin ==
  ASSUME NEW k, NEW q \in Call, NEW p, q.pc = "waiting", q.reply \in Answers, Received(k, q, p)
  PROVE  Kin(q, p)
  <1>1. PICK out : out = Outcome(k, q.reply)
    OBVIOUS
  <1>2. CASE Retried(k, q, p)
    BY <1>2, RetriedKin
  <1>3. CASE q.reply.status = "ok" /\ q.stage = "get" /\ p = Onto(q)
    <2>1. /\ p.effect = q.effect /\ p.before = q.before /\ p.seen = q.reply.seen /\ p.stage = "put"
      BY <1>3 DEF Onto, Call
    <2> QED BY <1>3, <2>1 DEF Kin, HasRead
  <1>4. CASE /\ out # "again" /\ ~(q.stage = "get" /\ q.reply.status = "ok" /\ out = "ok")
             /\ p = Over(q, out)
    <2>1. /\ p.effect = q.effect /\ p.before = q.before /\ p.seen = q.seen /\ p.attempt = q.attempt
          /\ p.stage = q.stage /\ p.reply.status = q.reply.status
      BY <1>4 DEF Over, Call, Answers
    <2>2. q.reply.status = "ok" => q.stage # "get"
      BY <1>1, <1>4, OutcomeType
    <2> QED BY <2>1, <2>2 DEF Kin, HasRead
  <1> QED BY <1>1, <1>2, <1>3, <1>4 DEF Received

LEMMA MergesOwn ==
  ASSUME Inv, Inv', Merges, NEW c \in Calls, NEW p \in Call, call' = [call EXCEPT ![c] = p],
         UNCHANGED <<made, custom>>, Kin(call[c], p),
         call[c].pc = "idle" => \A d \in p.before : call[d].pc = "ended"
  PROVE  Merges'
  <1>1. PICK q \in Call : q = call[c]
    BY DEF Inv, TypeOK
  <1>2. PICK cl, dl, md, cu : cl = call /\ dl = call' /\ md = made /\ cu = custom
    OBVIOUS
  <1>3. /\ cl \in [Calls -> Call] /\ md \in [Calls -> Nat] /\ cl[c] = q /\ dl[c] = p
        /\ \A d \in Calls : d # c => dl[d] = cl[d]
    BY <1>1, <1>2 DEF Inv, TypeOK
  <1>4. Missing(cl, md, cu) /\ MissingRead(cl, md) /\ BeforeEnded(cl)
    BY <1>2 DEF Merges
  <1>5. /\ Known(kind, q, wire, made[c], c) /\ Kin(q, p)
        /\ q.pc = "idle" => \A d \in p.before : cl[d].pc = "ended"
    BY <1>1, <1>2 DEF Inv, CallsKnown
  <1>6. /\ q.pc = "idle" => md[c] = 0
        /\ q.pc # "ended" /\ (q.pc # "idle" => q.out = "none" /\ p.effect = q.effect /\ p.before = q.before)
        /\ md[c] > 0 => q.stage = "put"
    <2>1. q.stage = "get" => made[c] = 0
      BY <1>5 DEF Known
    <2> QED BY <1>2, <1>5, <2>1 DEF Known, Kin, Call
  <1>7. \A d \in Calls : Stays(cl[d], md[d], dl[d], md[d])
    <2> SUFFICES ASSUME NEW d \in Calls, md[d] > 0
                 PROVE  Stays(cl[d], md[d], dl[d], md[d])
      BY DEF Stays
    <2>1. CASE d = c
      <3>1. q.out = "none" /\ p.effect = q.effect /\ p.before = q.before /\ p.seen = q.seen
            /\ (q.attempt > 0 => p.attempt > 0)
        BY <1>3, <1>5, <1>6, <2>1 DEF Kin
      <3> QED BY <1>3, <2>1, <3>1 DEF Stays
    <2>2. CASE d # c
      BY <1>3, <2>2 DEF Stays
    <2> QED BY <2>1, <2>2
  <1>8. ASSUME NEW y \in Calls, Lost(y, cl, md), md[y] > 0
        PROVE  Lost(y, dl, md)
    <2>1. dl[y].before = cl[y].before
      BY <1>3, <1>6, <1>8
    <2> QED BY <1>7, <1>8, <2>1, LostOn
  <1>9. Missing(dl, md, cu)
    <2> SUFFICES ASSUME NEW y \in Calls, dl[y].effect = "merge", dl[y].out \in {"none", "ok"},
                        md[y] > 0, y \notin cu
                 PROVE  Lost(y, dl, md)
      BY DEF Missing
    <2>1. cl[y].effect = "merge" /\ cl[y].out \in {"none", "ok"}
      BY <1>3, <1>6
    <2> QED BY <1>4, <1>8, <2>1 DEF Missing
  <1>10. BeforeEnded(dl)
    <2> SUFFICES ASSUME NEW x \in Calls, NEW d \in Calls, d \in dl[x].before
                 PROVE  dl[d].pc = "ended"
      BY DEF BeforeEnded
    <2>1. cl[d].pc = "ended"
      BY <1>3, <1>4, <1>5, <1>6 DEF BeforeEnded
    <2>2. d # c
      BY <1>3, <1>6, <2>1
    <2> QED BY <1>3, <2>1, <2>2
  <1>11. MissingRead(dl, md)
    <2> SUFFICES ASSUME NEW y \in Calls, NEW d \in Calls, NEW s,
                        dl[y].effect = "merge", dl[y].out = "ok", dl[d].effect = "merge",
                        y \in dl[d].before, HasRead(dl[d], s), y \notin s
                 PROVE  Lost(y, dl, md)
      BY DEF MissingRead
    <2>1. cl[y].pc = "ended" /\ y # c
      BY <1>3, <1>4, <1>5, <1>6 DEF BeforeEnded
    <2>2. cl[y].effect = "merge" /\ cl[y].out = "ok" /\ dl[y] = cl[y]
      BY <1>3, <2>1
    <2>3. /\ cl[d].effect = "merge" /\ y \in cl[d].before /\ HasRead(cl[d], s)
      <3>1. CASE d = c
        BY <1>3, <1>5, <1>6, <3>1 DEF Kin
      <3>2. CASE d # c
        BY <1>3, <3>2
      <3> QED BY <3>1, <3>2
    <2>4. Lost(y, cl, md)
      BY <1>4, <2>2, <2>3 DEF MissingRead
    <2> QED BY <1>7, <2>2, <2>4, LostOn
  <1>12. Missing(call', made', custom') /\ MissingRead(call', made') /\ BeforeEnded(call')
    BY <1>2, <1>9, <1>10, <1>11
  <1> QED BY <1>12 DEF Merges, Missing, MissingRead, BeforeEnded, Lost

LEMMA MergesStill ==
  ASSUME Merges, UNCHANGED <<call, made, custom>>
  PROVE  Merges'
  BY DEF Merges, Missing, MissingRead, BeforeEnded, Lost

\* A merging call that has returned took effect.
LEMMA ReturnedMerge ==
  ASSUME Inv, NEW c \in Calls, call[c].effect = "merge", call[c].out = "ok"
  PROVE  made[c] > 0
  <1>1. Known(kind, call[c], wire, made[c], c)
    BY DEF Inv, CallsKnown
  <1>2. kind = "pySync"
    BY <1>1 DEF Known
  <1> QED BY <1>1, <1>2 DEF Known, Did

\* A request of d that removes the entries of c: d overlaps c, is a second attempt or was
\* given up, or had read the context without them, for which there is a cause already.
LEMMA Overwriting ==
  ASSUME Inv, Merges, NEW m \in wire, Took(m), m \in Messages, NEW c \in Calls, NEW d \in Calls,
         m[1] = d, d # c, call[d].effect = "merge", c \notin call[d].seen,
         call[c].effect = "merge", call[c].out \in {"none", "ok"}, NEW n, n > 0
  PROVE  Lost(c, call, made) \/ Cause(call[d], n, call[c], c, d)
  <1>1. PICK x \in Call, y \in Call : x = call[d] /\ y = call[c]
    BY DEF Inv, TypeOK
  <1>2. Known(kind, x, wire, made[d], d) /\ Known(kind, y, wire, made[c], c)
    BY <1>1 DEF Inv, CallsKnown
  <1>3. m[2] = "put" /\ m[3] \in Nat /\ m = <<d, "put", m[3]>>
    BY ConstantsAssumption DEF Took, Messages
  <1>4. x.stage = "put" /\ m[3] <= x.attempt /\ x.attempt \in Nat
    BY <1>2, <1>3, ConstantsAssumption DEF Known, Call
  <1>5. CASE c \in x.before
    <2>1. y.pc = "ended" /\ y.out = "ok"
      BY <1>1, <1>2, <1>5 DEF Merges, BeforeEnded, Known
    <2>2. HasRead(x, x.seen)
      BY <1>4 DEF HasRead
    <2> QED BY <1>1, <1>5, <2>1, <2>2 DEF Merges, MissingRead
  <1>6. CASE d \in y.before
    <2>1. x.pc = "ended"
      BY <1>1, <1>6 DEF Merges, BeforeEnded
    <2>2. x.attempt > 0 \/ x.out = "ConnectionError"
      <3> SUFFICES ASSUME x.attempt = 0, x.out # "ConnectionError"
                   PROVE  FALSE
        BY <1>4
      <3>1. m[3] = 0
        BY <1>3, <1>4
      <3>2. <<d, x.stage, x.attempt>> \in wire
        BY <1>3, <1>4, <3>1
      <3> QED BY <1>2, <2>1, <3>2 DEF Known
    <2> QED BY <1>1, <2>2 DEF Cause
  <1>7. CASE c \notin x.before /\ d \notin y.before
    BY <1>1, <1>7 DEF Cause
  <1> QED BY <1>5, <1>6, <1>7

LEMMA MergesAnswered ==
  ASSUME Inv, Merges, NEW m \in wire, Answered(m)
  PROVE  Merges'
  <1>1. m \in Messages /\ Handled(m) /\ TypeOK
    BY DEF Inv, Answered, TypeOK, Messages
  <1>2. PICK c \in Calls : c = m[1]
    BY <1>1 DEF Messages
  <1>3. PICK q \in Call : q = call[c]
    BY <1>1 DEF TypeOK
  <1>4. PICK cl, dl, md, nd, cu, du :
          /\ cl = call /\ dl = call' /\ md = made /\ nd = made' /\ cu = custom /\ du = custom'
    OBVIOUS
  <1>5. PICK a \in Answers :
          /\ dl = IF q.pc = "waiting" /\ Request(c) = m THEN [cl EXCEPT ![c].reply = a] ELSE cl
          /\ \/ /\ UNCHANGED <<custom, made>>
                /\ a.status = "ok" => q.effect = "read" \/ (m[2] = "get" /\ a.seen = cu)
             \/ Took(m) /\ a.status \in {"ok", "5xx", "partial"}
    BY <1>1, <1>2, <1>3, <1>4 DEF Handled
  <1>6. /\ Missing(cl, md, cu) /\ MissingRead(cl, md) /\ BeforeEnded(cl)
        /\ cl \in [Calls -> Call] /\ md \in [Calls -> Nat] /\ cl[c] = q
    BY <1>1, <1>3, <1>4 DEF Merges, TypeOK
  <1>7. \A d \in Calls : /\ dl[d].pc = cl[d].pc /\ dl[d].effect = cl[d].effect /\ dl[d].out = cl[d].out
                         /\ dl[d].before = cl[d].before /\ dl[d].seen = cl[d].seen
                         /\ dl[d].attempt = cl[d].attempt /\ dl[d].stage = cl[d].stage
    BY <1>5, <1>6 DEF Call
  <1>8. \/ nd = md /\ du = cu
        \/ /\ Took(m) /\ nd = [md EXCEPT ![c] = @ + 1]
           /\ du = CASE q.effect = "merge" -> q.seen \union {c}
                     [] q.effect = "rewrite" -> {c}
                     [] OTHER -> cu
    <2>1. CASE UNCHANGED <<custom, made>>
      BY <1>4, <2>1
    <2>2. CASE Took(m)
      <3>1. nd = [md EXCEPT ![c] = @ + 1]
        BY <1>2, <1>4, <2>2 DEF Took
      <3>2. du = CASE q.effect = "merge" -> q.seen \union {c}
                   [] q.effect = "rewrite" -> {c}
                   [] OTHER -> cu
        BY <1>2, <1>3, <1>4, <2>2 DEF Took, Merged
      <3> QED BY <2>2, <3>1, <3>2
    <2> QED BY <1>5, <2>1, <2>2
  <1>9. \A d \in Calls : md[d] > 0 => nd[d] > 0
    BY <1>6, <1>8
  <1>10. ASSUME NEW y \in Calls, Lost(y, cl, md)
         PROVE  Lost(y, dl, nd)
    <2>1. \A d \in Calls : Stays(cl[d], md[d], dl[d], nd[d])
      BY <1>7, <1>9 DEF Stays
    <2>2. dl[y].before = cl[y].before
      BY <1>7
    <2> QED BY <1>10, <2>1, <2>2, LostOn
  <1>11. Missing(dl, nd, du)
    <2> SUFFICES ASSUME NEW y \in Calls, dl[y].effect = "merge", dl[y].out \in {"none", "ok"},
                        nd[y] > 0, y \notin du
                 PROVE  Lost(y, dl, nd)
      BY DEF Missing
    <2>1. cl[y].effect = "merge" /\ cl[y].out \in {"none", "ok"}
      BY <1>7
    <2>2. CASE md[y] > 0 /\ y \notin cu
      BY <1>6, <1>10, <2>1, <2>2 DEF Missing
    <2>3. CASE Took(m) /\ nd = [md EXCEPT ![c] = @ + 1] /\ q.effect = "merge" /\ y \notin q.seen /\ y # c
      <3>1. nd[c] > 0
        BY <1>6, <2>3
      <3>2. PICK n : n = nd[c]
        OBVIOUS
      <3>3. Lost(y, call, made) \/ Cause(call[c], n, call[y], y, c)
        BY <1>1, <1>2, <1>3, <1>4, <2>1, <2>3, <3>1, <3>2, Overwriting
      <3>4. CASE Lost(y, call, made)
        BY <1>4, <1>10, <3>4
      <3>5. CASE Cause(call[c], n, call[y], y, c)
        <4>1. Cause(dl[c], nd[c], dl[y], y, c)
          BY <1>4, <1>7, <3>2, <3>5 DEF Cause
        <4> QED BY <4>1 DEF Lost
      <3> QED BY <3>3, <3>4, <3>5
    <2>4. CASE Took(m) /\ nd = [md EXCEPT ![c] = @ + 1] /\ q.effect = "rewrite"
      <3>1. nd[c] > 0 /\ y # c
        BY <1>6, <2>1, <2>4
      <3>2. Cause(dl[c], nd[c], dl[y], y, c)
        BY <1>6, <1>7, <2>4, <3>1 DEF Cause
      <3> QED BY <3>2 DEF Lost
    <2>5. CASE nd = md /\ du = cu
      BY <2>2, <2>5
    <2>6. CASE Took(m) /\ nd = [md EXCEPT ![c] = @ + 1] /\ q.effect \notin {"merge", "rewrite"}
      <3>1. y # c /\ du = cu
        BY <1>6, <1>8, <2>1, <2>5, <2>6
      <3>2. md[y] > 0
        BY <1>6, <2>6, <3>1
      <3> QED BY <2>2, <3>1, <3>2
    <2>7. CASE Took(m) /\ nd = [md EXCEPT ![c] = @ + 1] /\ q.effect = "merge" /\ du = q.seen \union {c}
      BY <2>3, <2>7
    <2> QED BY <1>8, <2>4, <2>5, <2>6, <2>7
  <1>12. BeforeEnded(dl)
    BY <1>6, <1>7 DEF BeforeEnded
  <1>13. MissingRead(dl, nd)
    <2> SUFFICES ASSUME NEW y \in Calls, NEW d \in Calls, NEW s,
                        dl[y].effect = "merge", dl[y].out = "ok", dl[d].effect = "merge",
                        y \in dl[d].before, HasRead(dl[d], s), y \notin s
                 PROVE  Lost(y, dl, nd)
      BY DEF MissingRead
    <2>1. cl[y].effect = "merge" /\ cl[y].out = "ok" /\ cl[d].effect = "merge" /\ y \in cl[d].before
      BY <1>7
    <2>2. CASE HasRead(cl[d], s)
      BY <1>6, <1>10, <2>1, <2>2 DEF MissingRead
    <2>3. CASE ~HasRead(cl[d], s)
      <3>1. d = c /\ q.pc = "waiting" /\ Request(c) = m /\ dl = [cl EXCEPT ![c].reply = a]
        BY <1>5, <1>6, <2>3
      <3>2. dl[c].reply = a
        BY <1>6, <3>1 DEF Call
      <3>3. q.stage = "get" /\ a.status = "ok" /\ s = a.seen
        BY <1>6, <1>7, <2>3, <3>1, <3>2 DEF HasRead
      <3>4. m[2] = "get"
        BY <1>3, <3>1, <3>3 DEF Request
      <3>5. s = cu
        BY <1>5, <1>6, <2>1, <3>1, <3>3, <3>4 DEF Took
      <3>6. md[y] > 0
        BY <1>4, <2>1, ReturnedMerge
      <3>7. Lost(y, cl, md)
        BY <1>6, <2>1, <3>5, <3>6 DEF Missing
      <3> QED BY <1>10, <3>7
    <2> QED BY <2>2, <2>3
  <1>14. Missing(call', made', custom') /\ MissingRead(call', made') /\ BeforeEnded(call')
    BY <1>4, <1>11, <1>12, <1>13
  <1> QED BY <1>14 DEF Merges, Missing, MissingRead, BeforeEnded, Lost

LEMMA MergesStart ==
  ASSUME Inv, Inv', Merges, NEW c \in Calls, Start(c)
  PROVE  Merges'
  <1>1. /\ call[c].pc = "idle" /\ UNCHANGED <<made, custom>>
        /\ call \in [Calls -> Call] /\ call' \in [Calls -> Call]
    BY DEF Start, Inv, TypeOK
  <1>2. PICK b : b = {d \in Calls : call[d].pc = "ended"}
    OBVIOUS
  <1>3. PICK e : call' = [call EXCEPT ![c] = Started(e, b)]
    BY <1>2 DEF Start, Started, Ended
  <1>4. PICK p \in Call : p = Started(e, b)
    BY <1>1, <1>3
  <1>5. /\ p.pc = "ready" /\ p.out = "none" /\ p.effect = e /\ p.before = b /\ p.reply = NoAnswer
        /\ p.stage = IF e \in {"merge", "rewrite"} THEN "get" ELSE "put"
    BY <1>4 DEF Started, Idle
  <1>6. Kin(call[c], p) /\ \A d \in p.before : call[d].pc = "ended"
    BY <1>1, <1>2, <1>5, NoAnswerIsNone DEF Kin, HasRead
  <1> QED BY <1>1, <1>3, <1>4, <1>6, MergesOwn

LEMMA MergesSend ==
  ASSUME Inv, Inv', Merges, NEW c \in Calls, Send(c)
  PROVE  Merges'
  <1>1. /\ call[c].pc = "ready" /\ UNCHANGED <<made, custom>>
        /\ call \in [Calls -> Call] /\ call' \in [Calls -> Call]
    BY DEF Send, Inv, TypeOK
  <1>2. PICK q \in Call : q = call[c]
    BY <1>1
  <1>3. PICK p \in Call : p = Sent(q) /\ call' = [call EXCEPT ![c] = p]
    BY <1>1, <1>2 DEF Send, Sent
  <1>4. /\ p.effect = q.effect /\ p.before = q.before /\ p.seen = q.seen /\ p.attempt = q.attempt
        /\ p.stage = q.stage /\ p.reply = q.reply
    BY <1>3 DEF Sent, Call
  <1>5. Kin(q, p)
    BY <1>1, <1>2, <1>4 DEF Kin, HasRead
  <1> QED BY <1>1, <1>2, <1>3, <1>5, MergesOwn

LEMMA MergesFailed ==
  ASSUME Inv, Inv', Merges, Failed, UNCHANGED <<made, custom>>
  PROVE  Merges'
  <1>1. CASE UNCHANGED call
    BY <1>1, MergesStill
  <1>2. ASSUME NEW c \in Calls, NEW p \in Call, call' = [call EXCEPT ![c] = p],
               Retried(kind, call[c], p), call[c].pc = "waiting"
        PROVE  Merges'
    <2>1. PICK q, k : q = call[c] /\ k = kind /\ q \in Call
      BY DEF Inv, TypeOK
    <2>2. Kin(q, p)
      BY <1>2, <2>1, RetriedKin
    <2> QED BY <1>2, <2>1, <2>2, MergesOwn
  <1> QED BY <1>1, <1>2 DEF Failed

LEMMA InitMerges == Init => Merges
  <1> SUFFICES ASSUME Init PROVE Merges
    OBVIOUS
  <1>1. \A c \in Calls : call[c].before = {} /\ made[c] = 0
    BY DEF Init, Idle
  <1> QED BY <1>1 DEF Merges, Missing, MissingRead, BeforeEnded

LEMMA StepMerges == Inv /\ Inv' /\ Order /\ Merges /\ [Next]_vars => Merges'
  <1> SUFFICES ASSUME Inv, Inv', Order, Merges, [Next]_vars PROVE Merges'
    OBVIOUS
  <1>1. CASE UNCHANGED vars
    BY <1>1, MergesStill DEF vars
  <1>2. ASSUME NEW c \in Calls, Start(c) PROVE Merges'
    BY <1>2, MergesStart
  <1>3. ASSUME NEW c \in Calls, Send(c) PROVE Merges'
    BY <1>3, MergesSend
  <1>4. ASSUME NEW c \in Calls, Receive(c) PROVE Merges'
    <2>1. PICK p \in Call : /\ call' = [call EXCEPT ![c] = p] /\ Received(kind, call[c], p)
                            /\ call[c].reply \in Answers
      BY <1>4, ReceiveStep
    <2>2. PICK q, k : q = call[c] /\ k = kind /\ q \in Call
      BY DEF Inv, TypeOK
    <2>3. q.pc = "waiting" /\ UNCHANGED <<made, custom>>
      BY <1>4, <2>2 DEF Receive
    <2>4. Kin(q, p)
      BY <2>1, <2>2, <2>3, ReceivedKin
    <2> QED BY <2>1, <2>2, <2>3, <2>4, MergesOwn
  <1>5. CASE Close \/ \E c \in Calls : Broken(c) \/ Timeout(c) \/ TimerFires(c)
    BY <1>5, FaultSteps, MergesFailed
  <1>6. ASSUME NEW m \in wire, Handle(m) PROVE Merges'
    BY <1>6, HandleOutcome, MergesAnswered
  <1>7. ASSUME NEW m \in wire, Pass(m) PROVE Merges'
    BY <1>7, PassStep, MergesStill
  <1>8. ASSUME NEW m \in wire, Commit(m) PROVE Merges'
    BY <1>8, CommitOutcome, MergesAnswered
  <1> QED BY <1>1, <1>2, <1>3, <1>4, <1>5, <1>6, <1>7, <1>8 DEF Next

LEMMA MergesAlways == Spec => []Merges
  BY InvAlways, InitMerges, StepMerges, PTL DEF Spec

-----------------------------------------------------------------------------
(* The theorems *)

\* Calls, requests on the wire and the timers' controller stay what the code means by them.
THEOREM TypeInvariant == Spec => []TypeOK
  <1>1. Inv => TypeOK
    BY DEF Inv
  <1> QED BY <1>1, InvAlways, PTL

\* In all four clients, and wherever requests and answers are lost: an error that blames
\* the request (401, 404, 400, 409, 429) says that nothing was done, as long as _request
\* has not sent it a second time, and nothing is done twice before that.
THEOREM BlameTells == Spec => []BlameMeansUndone
  <1>1. Inv => BlameMeansUndone
    <2> SUFFICES ASSUME Inv, NEW c \in Calls, kind = "tsSync" \/ call[c].attempt = 0
                 PROVE  made[c] <= 1 /\ (call[c].out \in Blame => made[c] = 0)
      BY DEF BlameMeansUndone
    <2>1. Known(kind, call[c], wire, made[c], c) /\ call[c].stage \in {"get", "put"}
      BY DEF Inv, CallsKnown, TypeOK, Call
    <2> QED BY <2>1 DEF Known
  <1> QED BY <1>1, InvAlways, PTL

\* A call that returns has done what it was for, and what can be done once had not been
\* done when it was made: overlapping claims may both return, as the server checks and
\* commits without a lock, but no claim made after another one took effect does. The
\* TypeScript clients return from a forbidden request as well.
THEOREM OkTells == Spec => []OkMeansDone
  <1>1. Inv /\ Order => OkMeansDone
    <2> SUFFICES ASSUME Inv, Order, NEW c \in Calls, call[c].out = "ok", call[c].effect # "read"
                 PROVE  \/ kind \in {"tsSync", "tsAsync"} /\ call[c].reply.status = "4xx"
                        \/ made[c] > 0 /\ (Once(c) => c \notin late)
      BY DEF OkMeansDone
    <2>1. Known(kind, call[c], wire, made[c], c) /\ made[c] \in Nat
      BY DEF Inv, CallsKnown, TypeOK
    <2>2. made[c] > 0 => (Once(c) => c \notin late)
      BY <2>1 DEF Order
    <2> QED BY <2>1, <2>2 DEF Known, Did
  <1> QED BY <1>1, InvAlways, PTL

\* What update_handoff has merged into the custom context is lost only to an update that
\* overlaps it, that was sent again or given up, or that also rewrites the summary: an
\* adapter that reads and writes undisturbed never removes what others had added.
THEOREM MergesStay == Spec => []MergesKept
  <1>1. Inv /\ Merges => MergesKept
    <2> SUFFICES ASSUME Inv, Merges, NEW c \in Calls,
                        call[c].effect = "merge", call[c].out = "ok", c \notin custom
                 PROVE  \E d \in Calls : /\ Overwrote(d, c)
                                         /\ \/ call[d].effect = "rewrite"
                                            \/ d \notin call[c].before /\ c \notin call[d].before
                                            \/ call[d].attempt > 0 \/ call[d].out = "ConnectionError"
      BY DEF MergesKept
    <2>1. made[c] > 0
      BY ReturnedMerge
    <2>2. Lost(c, call, made)
      BY <2>1 DEF Merges, Missing
    <2>3. PICK d \in Calls : Cause(call[d], made[d], call[c], c, d)
      BY <2>2 DEF Lost
    <2> QED BY <2>3 DEF Cause, Overwrote
  <1> QED BY <1>1, InvAlways, MergesAlways, PTL
-----------------------------------------------------------------------------
(* What answers tell besides *)

\* What is known of a call with record q besides, when it took effect n times.
Tells(q, n) ==
  /\ q.attempt = 0 /\ q.reply.status = "4xx" => n = 0
  /\ q.out = "ConflictError" => q.reply.status = "409"
  /\ q.out = "JSONDecodeError" => q.reply.status = "4xx"

AllTell == \A c \in Calls : Tells(call[c], made[c])

LEMMA OutcomeTells ==
  ASSUME NEW k, NEW a \in Answers
  PROVE  /\ Outcome(k, a) = "ConflictError" => a.status = "409"
         /\ Outcome(k, a) = "JSONDecodeError" => a.status = "4xx"
  <1>1. a.status \in Statuses
    BY DEF Answers
  <1>2. CASE k \in {"pySync", "pyAsync"}
    <2>1. Outcome(k, a) = IF a.json THEN PyResult(a.status)
                          ELSE IF a.status = "4xx" THEN "JSONDecodeError" ELSE "again"
      BY <1>2 DEF Outcome, PyOutcome
    <2>2. CASE a.json = TRUE
      BY <1>1, <2>1, <2>2 DEF PyResult, Statuses
    <2>3. CASE a.json = FALSE
      BY <1>1, <2>1, <2>3
    <2> QED BY <2>2, <2>3 DEF Answers
  <1>3. CASE k \notin {"pySync", "pyAsync"}
    <2>1. Outcome(k, a) = TsOutcome(a)
      BY <1>3 DEF Outcome
    <2> QED BY <1>1, <2>1 DEF TsOutcome, Statuses
  <1> QED BY <1>2, <1>3

\* A call without an answer tells nothing.
LEMMA BlankTells ==
  ASSUME NEW q, NEW p, NEW n, Tells(q, n),
         p.reply = NoAnswer, p.out \in {"none", "ConnectionError"}
  PROVE  Tells(p, n)
  BY NoAnswerIsNone DEF Tells

LEMMA RetriedTells ==
  ASSUME NEW k, NEW q \in Call, NEW p, NEW n, Tells(q, n), q.out = "none",
         Retried(k, q, p)
  PROVE  Tells(p, n)
  <1>1. CASE p = Gone(q)
    <2>1. p.reply = NoAnswer /\ p.out = "ConnectionError"
      BY <1>1 DEF Gone, Call
    <2> QED BY <2>1, BlankTells
  <1>2. CASE p = Again(q)
    <2>1. p.reply = NoAnswer /\ p.out = "none"
      BY <1>2 DEF Again, Call
    <2> QED BY <2>1, BlankTells
  <1> QED BY <1>1, <1>2 DEF Retried

LEMMA ReceivedTells ==
  ASSUME NEW k, NEW q \in Call, NEW p, NEW n, Tells(q, n), q.out = "none",
         q.reply \in Answers, Received(k, q, p)
  PROVE  Tells(p, n)
  <1>1. CASE Retried(k, q, p)
    BY <1>1, RetriedTells
  <1>2. CASE p = Onto(q)
    <2>1. p.reply = NoAnswer /\ p.out = "none"
      BY <1>2 DEF Onto, Call
    <2> QED BY <2>1, BlankTells
  <1>3. CASE p = Over(q, Outcome(k, q.reply))
    <2>1. PICK out : out = Outcome(k, q.reply)
      OBVIOUS
    <2>2. p.attempt = q.attempt /\ p.out = out /\ p.reply.status = q.reply.status
      BY <1>3, <2>1 DEF Over, Call, Answers
    <2>3. /\ out = "ConflictError" => q.reply.status = "409"
          /\ out = "JSONDecodeError" => q.reply.status = "4xx"
      BY <2>1, OutcomeTells
    <2> QED BY <2>2, <2>3 DEF Tells
  <1> QED BY <1>1, <1>2, <1>3 DEF Received

LEMMA OwnTells ==
  ASSUME TypeOK, AllTell, NEW c \in Calls, NEW p, call' = [call EXCEPT ![c] = p],
         UNCHANGED made, Tells(p, made[c])
  PROVE  AllTell'
  <1>1. ASSUME NEW d \in Calls PROVE Tells(call'[d], made[d])
    <2>1. CASE d = c
      BY <2>1 DEF TypeOK
    <2>2. CASE d # c
      <3>1. call'[d] = call[d]
        BY <2>2 DEF TypeOK
      <3> QED BY <3>1 DEF AllTell
    <2> QED BY <2>1, <2>2
  <1> QED BY <1>1 DEF AllTell

LEMMA StillTells ==
  ASSUME AllTell, UNCHANGED <<call, made>>
  PROVE  AllTell'
  BY DEF AllTell

LEMMA AnsweredTells ==
  ASSUME Inv, AllTell, NEW m \in wire, Answered(m)
  PROVE  AllTell'
  <1>1. Handled(m) /\ m \in Messages /\ TypeOK
    BY DEF Inv, Answered, TypeOK, Messages
  <1>2. PICK c \in Calls : c = m[1]
    BY <1>1 DEF Messages
  <1>3. PICK q \in Call : q = call[c]
    BY <1>1 DEF TypeOK
  <1>4. Known(kind, q, wire, made[c], c) /\ Tells(q, made[c])
    BY <1>3 DEF Inv, CallsKnown, AllTell
  <1>5. PICK n : n = made[c]
    OBVIOUS
  <1>6. n \in Nat
    BY <1>1, <1>5 DEF TypeOK
  <1>7. PICK a \in Answers :
          /\ call' = IF q.pc = "waiting" /\ Request(c) = m THEN [call EXCEPT ![c].reply = a] ELSE call
          /\ UNCHANGED <<custom, made>> \/ (Took(m) /\ a.status \in {"ok", "5xx", "partial"})
    BY <1>1, <1>2, <1>3 DEF Handled
  <1>8. PICK p : p = call'[c]
    OBVIOUS
  <1>9. p = q \/ (q.pc = "waiting" /\ m = <<c, q.stage, q.attempt>> /\ p = [q EXCEPT !.reply = a])
    BY <1>1, <1>3, <1>7, <1>8 DEF TypeOK, Request
  <1>10. \A d \in Calls : d # c => call'[d] = call[d]
    BY <1>1, <1>7 DEF TypeOK
  <1>11. q.pc = "waiting" => q.out = "none"
    BY <1>4 DEF Known
  <1>12. /\ p.attempt = q.attempt /\ p.out = q.out
         /\ p.reply = q.reply \/ (p.reply = a /\ q.out = "none" /\ m = <<c, q.stage, q.attempt>>)
    BY <1>9, <1>11 DEF Call
  <1>13. Tells(p, made'[c]) /\ \A d \in Calls : d # c => made'[d] = made[d]
    <2>1. CASE UNCHANGED <<custom, made>>
      <3>1. q.attempt = 0 /\ m = <<c, q.stage, q.attempt>> => n = 0
        <4>1. q.stage \in {"get", "put"}
          BY DEF Call
        <4> QED BY <1>4, <1>5, <1>6, <4>1 DEF Known
      <3>2. Tells(q, n) /\ made' = made
        BY <1>4, <1>5, <2>1
      <3>3. Tells(p, n)
        BY <1>12, <3>1, <3>2 DEF Tells
      <3> QED BY <1>5, <3>2, <3>3
    <2>2. CASE Took(m) /\ a.status \in {"ok", "5xx", "partial"}
      <3>1. made' = [made EXCEPT ![c] = @ + 1] /\ made \in [Calls -> Nat] /\ m[2] = "put"
        BY <1>1, <1>2, <2>2 DEF Took, TypeOK
      <3>2. made'[c] = n + 1 /\ \A d \in Calls : d # c => made'[d] = made[d]
        BY <1>5, <1>6, <3>1
      <3>3. q.attempt = 0 => q.reply = NoAnswer
        <4>1. q.stage = "put"
          BY <1>2, <1>4, <3>1 DEF Known, Call
        <4>2. ASSUME q.attempt = 0 PROVE <<c, q.stage, q.attempt>> \in wire
          <5>1. m[3] <= 0 /\ m[3] \in Nat
            BY <1>1, <1>2, <1>4, <3>1, <4>1, <4>2, ConstantsAssumption DEF Known, Messages
          <5> QED BY <1>1, <1>2, <3>1, <4>1, <4>2, <5>1 DEF Messages
        <4> QED BY <1>4, <4>2 DEF Known
      <3>4. p.reply.status = "4xx" => p.reply = q.reply /\ q.attempt # 0
        BY <1>12, <2>2, <3>3, NoAnswerIsNone
      <3>5. q.out # "none" => p.reply = q.reply
        BY <1>12
      <3>6. Tells(p, n + 1)
        BY <1>4, <1>12, <3>4, <3>5 DEF Tells
      <3> QED BY <3>2, <3>6
    <2> QED BY <1>7, <2>1, <2>2
  <1>14. ASSUME NEW d \in Calls PROVE Tells(call'[d], made'[d])
    <2>1. CASE d = c
      BY <1>8, <1>13, <2>1
    <2>2. CASE d # c
      BY <1>10, <1>13, <2>2 DEF AllTell
    <2> QED BY <2>1, <2>2
  <1> QED BY <1>14 DEF AllTell

LEMMA FailedTells ==
  ASSUME Inv, AllTell, Failed, UNCHANGED made
  PROVE  AllTell'
  <1>1. CASE UNCHANGED call
    BY <1>1, StillTells
  <1>2. ASSUME NEW c \in Calls, NEW p \in Call, call[c].pc = "waiting",
               call' = [call EXCEPT ![c] = p], Retried(kind, call[c], p)
        PROVE  AllTell'
    <2>1. TypeOK /\ call[c] \in Call /\ Tells(call[c], made[c]) /\ call[c].out = "none"
      BY <1>2 DEF Inv, TypeOK, AllTell, CallsKnown, Known
    <2>2. Tells(p, made[c])
      BY <1>2, <2>1, RetriedTells
    <2> QED BY <1>2, <2>1, <2>2, OwnTells
  <1> QED BY <1>1, <1>2 DEF Failed

LEMMA StepTells == Inv /\ Order /\ AllTell /\ [Next]_vars => AllTell'
  <1> SUFFICES ASSUME Inv, Order, AllTell, [Next]_vars PROVE AllTell'
    OBVIOUS
  <1>1. CASE UNCHANGED vars
    BY <1>1, StillTells DEF vars
  <1>2. ASSUME NEW c \in Calls, Start(c) PROVE AllTell'
    <2>1. PICK b : b = {d \in Calls : Ended(d)}
      OBVIOUS
    <2>2. PICK e : call' = [call EXCEPT ![c] = Started(e, b)]
      BY <1>2, <2>1 DEF Start, Started
    <2>3. PICK p : p = Started(e, b)
      OBVIOUS
    <2>4. p.reply = NoAnswer /\ p.out = "none"
      BY <2>3 DEF Started, Idle
    <2>5. TypeOK /\ Tells(call[c], made[c]) /\ UNCHANGED made
      BY <1>2 DEF Inv, AllTell, Start
    <2>6. Tells(p, made[c])
      BY <2>4, <2>5, BlankTells
    <2> QED BY <2>2, <2>3, <2>5, <2>6, OwnTells
  <1>3. ASSUME NEW c \in Calls, Send(c) PROVE AllTell'
    <2>1. PICK q \in Call : q = call[c]
      BY DEF Inv, TypeOK
    <2>2. PICK p : p = Sent(q)
      OBVIOUS
    <2>3. call' = [call EXCEPT ![c] = p] /\ TypeOK /\ UNCHANGED made
      BY <1>3, <2>1, <2>2 DEF Send, Sent, Inv, TypeOK
    <2>4. p.reply = q.reply /\ p.out = q.out /\ p.attempt = q.attempt
      BY <2>2 DEF Sent, Call
    <2>5. Tells(p, made[c])
      BY <2>1, <2>4 DEF AllTell, Tells
    <2> QED BY <2>3, <2>5, OwnTells
  <1>4. ASSUME NEW c \in Calls, Receive(c) PROVE AllTell'
    <2>1. PICK p \in Call : /\ call' = [call EXCEPT ![c] = p] /\ Received(kind, call[c], p)
                            /\ call[c].reply \in Answers
      BY <1>4, ReceiveStep
    <2>2. /\ TypeOK /\ call[c] \in Call /\ Tells(call[c], made[c]) /\ call[c].out = "none"
          /\ UNCHANGED made
      BY <1>4 DEF Inv, TypeOK, AllTell, CallsKnown, Known, Receive
    <2>3. Tells(p, made[c])
      BY <2>1, <2>2, ReceivedTells
    <2> QED BY <2>1, <2>2, <2>3, OwnTells
  <1>5. CASE Close \/ \E c \in Calls : Broken(c) \/ Timeout(c) \/ TimerFires(c)
    BY <1>5, FaultSteps, FailedTells
  <1>6. ASSUME NEW m \in wire, Handle(m) PROVE AllTell'
    BY <1>6, HandleOutcome, AnsweredTells
  <1>7. ASSUME NEW m \in wire, Pass(m) PROVE AllTell'
    BY <1>7, PassStep, StillTells
  <1>8. ASSUME NEW m \in wire, Commit(m) PROVE AllTell'
    BY <1>8, CommitOutcome, AnsweredTells
  <1> QED BY <1>1, <1>2, <1>3, <1>4, <1>5, <1>6, <1>7, <1>8 DEF Next

LEMMA InitTells == Init => AllTell
  <1> SUFFICES ASSUME Init, NEW c \in Calls PROVE Tells(call[c], made[c])
    BY DEF AllTell
  <1>1. call[c] = Idle
    BY DEF Init
  <1>2. Idle.reply = NoAnswer /\ Idle.out = "none"
    BY DEF Idle
  <1> QED BY <1>1, <1>2, NoAnswerIsNone DEF Tells

LEMMA TellsAlways == Spec => []Inv /\ []Order /\ []AllTell
  BY InvAlways, InitTells, StepTells, PTL DEF Spec
-----------------------------------------------------------------------------
(* Every client is one remote call to its caller *)

RemoteStep == [Remote!Next]_(Remote!remote)

LEMMA DoneIsTaken == Remote!Done <=> Taken
  BY DEF Remote!Done, Remote!Unique, Taken, Once

\* What a caller sees of the calls cl, and how it changes with the record of one.
LEMMA Seen ==
  ASSUME NEW k, NEW cl \in [Calls -> Call], NEW dl, NEW c \in Calls, NEW p, dl = [cl EXCEPT ![c] = p]
  PROVE  /\ [d \in Calls |-> Phase(dl[d])] = [[d \in Calls |-> Phase(cl[d])] EXCEPT ![c] = Phase(p)]
         /\ [d \in Calls |-> dl[d].effect] = [[d \in Calls |-> cl[d].effect] EXCEPT ![c] = p.effect]
         /\ [d \in Calls |-> Result(k, dl[d])]
              = [[d \in Calls |-> Result(k, cl[d])] EXCEPT ![c] = Result(k, p)]
         /\ (Resent(k, p) <=> Resent(k, cl[c])) => {d \in Calls : Resent(k, dl[d])} = {d \in Calls : Resent(k, cl[d])}
  <1>1. dl[c] = p /\ \A d \in Calls : d # c => dl[d] = cl[d]
    OBVIOUS
  <1>2. [d \in Calls |-> Phase(dl[d])] = [[d \in Calls |-> Phase(cl[d])] EXCEPT ![c] = Phase(p)]
    BY <1>1
  <1>3. [d \in Calls |-> dl[d].effect] = [[d \in Calls |-> cl[d].effect] EXCEPT ![c] = p.effect]
    BY <1>1
  <1>4. [d \in Calls |-> Result(k, dl[d])]
          = [[d \in Calls |-> Result(k, cl[d])] EXCEPT ![c] = Result(k, p)]
    BY <1>1
  <1>5. (Resent(k, p) <=> Resent(k, cl[c])) => {d \in Calls : Resent(k, dl[d])} = {d \in Calls : Resent(k, cl[d])}
    BY <1>1
  <1> QED BY <1>2, <1>3, <1>4, <1>5

\* A call whose record changes in a way the caller does not see.
Alike(k, q, p) ==
  /\ Phase(p) = Phase(q) /\ p.effect = q.effect /\ Result(k, p) = Result(k, q)
  /\ Resent(k, p) <=> Resent(k, q)

LEMMA AlikeStutters ==
  ASSUME TypeOK, NEW c \in Calls, NEW p, call' = [call EXCEPT ![c] = p], Alike(kind, call[c], p),
         UNCHANGED <<kind, made, late>>
  PROVE  RemoteStep
  <1>1. PICK k : k = kind
    OBVIOUS
  <1>2. /\ [d \in Calls |-> Phase(call'[d])] = [[d \in Calls |-> Phase(call[d])] EXCEPT ![c] = Phase(p)]
        /\ [d \in Calls |-> call'[d].effect] = [[d \in Calls |-> call[d].effect] EXCEPT ![c] = p.effect]
        /\ [d \in Calls |-> Result(k, call'[d])]
             = [[d \in Calls |-> Result(k, call[d])] EXCEPT ![c] = Result(k, p)]
        /\ {d \in Calls : Resent(k, call'[d])} = {d \in Calls : Resent(k, call[d])}
    BY <1>1, Seen DEF TypeOK, Alike
  <1>3. /\ Phase(p) = Phase(call[c]) /\ p.effect = call[c].effect /\ Result(k, p) = Result(k, call[c])
    BY <1>1 DEF Alike
  <1>4. /\ [d \in Calls |-> Phase(call'[d])] = [d \in Calls |-> Phase(call[d])]
        /\ [d \in Calls |-> call'[d].effect] = [d \in Calls |-> call[d].effect]
        /\ [d \in Calls |-> Result(k, call'[d])] = [d \in Calls |-> Result(k, call[d])]
    BY <1>2, <1>3
  <1> QED BY <1>1, <1>2, <1>4 DEF RemoteStep, Remote!remote

LEMMA RemoteStutters ==
  ASSUME UNCHANGED <<kind, call, made, late>>
  PROVE  RemoteStep
  BY DEF RemoteStep, Remote!remote

LEMMA StartRemote ==
  ASSUME Inv, NEW c \in Calls, Start(c)
  PROVE  RemoteStep
  <1>1. PICK b : b = {d \in Calls : Ended(d)}
    OBVIOUS
  <1>2. PICK e \in Effects : call' = [call EXCEPT ![c] = Started(e, b)]
    BY <1>1, ConstantsAssumption DEF Start, Started
  <1>3. PICK q, p, k : q = call[c] /\ p = Started(e, b) /\ k = kind
    OBVIOUS
  <1>4. /\ q.pc = "idle" /\ UNCHANGED <<kind, made>> /\ call \in [Calls -> Call]
        /\ late' = IF Taken THEN late \union {c} ELSE late
        /\ Known(k, q, wire, made[c], c)
    BY <1>3 DEF Start, Inv, TypeOK, CallsKnown
  <1>5. /\ q.out = "none" /\ q.attempt = 0
    BY <1>4 DEF Known, Idle
  <1>6. /\ p.pc = "ready" /\ p.effect = e /\ p.attempt = 0 /\ p.out = "none"
    BY <1>3 DEF Started, Idle
  <1>7. /\ Phase(q) = "idle" /\ Phase(p) = "called" /\ ~Resent(k, q) /\ ~Resent(k, p)
        /\ Result(k, q) = "none" /\ Result(k, p) = "none"
    BY <1>4, <1>5, <1>6 DEF Phase, Resent, Result
  <1>8. /\ [d \in Calls |-> Phase(call'[d])] = [[d \in Calls |-> Phase(call[d])] EXCEPT ![c] = "called"]
        /\ [d \in Calls |-> call'[d].effect] = [[d \in Calls |-> call[d].effect] EXCEPT ![c] = e]
        /\ [d \in Calls |-> Result(k, call'[d])]
             = [[d \in Calls |-> Result(k, call[d])] EXCEPT ![c] = "none"]
        /\ {d \in Calls : Resent(k, call'[d])} = {d \in Calls : Resent(k, call[d])}
    BY <1>2, <1>3, <1>4, <1>6, <1>7, Seen
  <1>9. [d \in Calls |-> Result(k, call'[d])] = [d \in Calls |-> Result(k, call[d])]
    BY <1>3, <1>7, <1>8
  <1>10. [d \in Calls |-> Phase(call[d])][c] = "idle"
    BY <1>3, <1>7
  <1>11. Remote!Invoke(c)
    BY <1>3, <1>4, <1>8, <1>9, <1>10, DoneIsTaken DEF Remote!Invoke
  <1> QED BY <1>11 DEF RemoteStep, Remote!Next

LEMMA SendRemote ==
  ASSUME Inv, NEW c \in Calls, Send(c)
  PROVE  RemoteStep
  <1>1. PICK q \in Call : q = call[c]
    BY DEF Inv, TypeOK
  <1>2. PICK p, k : p = Sent(q) /\ k = kind
    OBVIOUS
  <1>3. q.pc = "ready" /\ call' = [call EXCEPT ![c] = p] /\ UNCHANGED <<kind, made, late>> /\ TypeOK
    BY <1>1, <1>2 DEF Send, Sent, Inv, TypeOK
  <1>4. /\ p.pc = "waiting" /\ p.effect = q.effect /\ p.out = q.out /\ p.reply = q.reply
        /\ p.stage = q.stage /\ p.attempt = q.attempt
    BY <1>2 DEF Sent, Call
  <1>5. Alike(k, q, p)
    BY <1>3, <1>4 DEF Alike, Phase, Result, Resent
  <1> QED BY <1>1, <1>2, <1>3, <1>5, AlikeStutters

\* What the abstract call asks of a result r of a call with record q that took effect n
\* times.
MayReturn(k, q, n, r) ==
  /\ r \in Remote!Results
  /\ r = "ok" => q.effect = "read" \/ n > 0
  /\ r \in Remote!Undone => Resent(k, q) \/ n = 0

LEMMA ReturnRemote ==
  ASSUME TypeOK, NEW c \in Calls, NEW p, call' = [call EXCEPT ![c] = p],
         UNCHANGED <<kind, made, late>>,
         Phase(call[c]) = "called", Phase(p) = "returned", p.effect = call[c].effect,
         Resent(kind, p) <=> Resent(kind, call[c]),
         MayReturn(kind, call[c], made[c], Result(kind, p)),
         Result(kind, p) = "ConflictError" => Taken
  PROVE  RemoteStep
  <1>1. PICK k, r : k = kind /\ r = Result(k, p)
    OBVIOUS
  <1>2. /\ [d \in Calls |-> Phase(call'[d])] = [[d \in Calls |-> Phase(call[d])] EXCEPT ![c] = Phase(p)]
        /\ [d \in Calls |-> call'[d].effect] = [[d \in Calls |-> call[d].effect] EXCEPT ![c] = p.effect]
        /\ [d \in Calls |-> Result(k, call'[d])]
             = [[d \in Calls |-> Result(k, call[d])] EXCEPT ![c] = Result(k, p)]
        /\ {d \in Calls : Resent(k, call'[d])} = {d \in Calls : Resent(k, call[d])}
    BY <1>1, Seen DEF TypeOK
  <1>3. /\ [d \in Calls |-> Phase(call'[d])] = [[d \in Calls |-> Phase(call[d])] EXCEPT ![c] = "returned"]
        /\ [d \in Calls |-> call'[d].effect] = [d \in Calls |-> call[d].effect]
        /\ [d \in Calls |-> Result(kind', call'[d])]
             = [[d \in Calls |-> Result(kind, call[d])] EXCEPT ![c] = r]
        /\ {d \in Calls : Resent(kind', call'[d])} = {d \in Calls : Resent(kind, call[d])}
    BY <1>1, <1>2
  <1>4. /\ [d \in Calls |-> Phase(call[d])][c] = "called"
        /\ [d \in Calls |-> call[d].effect][c] = call[c].effect
        /\ c \in {d \in Calls : Resent(kind, call[d])} <=> Resent(kind, call[c])
    OBVIOUS
  <1>5. MayReturn(kind, call[c], made[c], r) /\ (r = "ConflictError" => Remote!Done)
    BY <1>1, DoneIsTaken
  <1>6. /\ r \in Remote!Results
        /\ r = "ok" => [d \in Calls |-> call[d].effect][c] = "read" \/ made[c] > 0
        /\ r \in Remote!Undone => c \in {d \in Calls : Resent(kind, call[d])} \/ made[c] = 0
    BY <1>4, <1>5 DEF MayReturn
  <1>7. Remote!Return(c, r)
    BY <1>3, <1>4, <1>5, <1>6 DEF Remote!Return
  <1> QED BY <1>6, <1>7 DEF RemoteStep, Remote!Next

LEMMA RetriedRemote ==
  ASSUME TypeOK, NEW c \in Calls, NEW p \in Call, call' = [call EXCEPT ![c] = p],
         UNCHANGED <<kind, made, late>>, call[c].pc = "waiting", call[c].out = "none",
         Retried(kind, call[c], p)
  PROVE  RemoteStep
  <1>1. PICK q \in Call : q = call[c]
    BY DEF TypeOK
  <1>2. PICK k : k = kind
    OBVIOUS
  <1>3. q.pc = "waiting" /\ q.out = "none" /\ q.attempt \in Nat
    BY <1>1, ConstantsAssumption DEF Call
  <1>4. CASE p = Gone(q)
    <2>1. /\ p.pc = "ended" /\ p.out = "ConnectionError" /\ p.effect = q.effect /\ p.stage = q.stage
          /\ p.attempt = q.attempt
      BY <1>4 DEF Gone, Call
    <2>2. /\ Phase(q) = "called" /\ Phase(p) = "returned" /\ Result(k, p) = "ConnectionError"
          /\ Resent(k, p) <=> Resent(k, q)
      BY <1>3, <2>1 DEF Phase, Result, Resent
    <2>3. MayReturn(k, q, made[c], "ConnectionError")
      BY DEF MayReturn, Remote!Results, Remote!Undone
    <2> QED BY <1>1, <1>2, <2>1, <2>2, <2>3, ReturnRemote
  <1>5. CASE k # "tsSync" /\ p = Again(q)
    <2>1. /\ p.pc = "ready" /\ p.out = "none" /\ p.effect = q.effect /\ p.stage = q.stage
          /\ p.attempt = q.attempt + 1
      BY <1>3, <1>5 DEF Again, Call
    <2>2. Phase(q) = "called" /\ Phase(p) = "called" /\ Result(k, p) = "none" /\ Result(k, q) = "none"
      BY <1>3, <2>1 DEF Phase, Result
    <2>3. CASE q.stage = "put"
      <3>1. Resent(k, p)
        BY <1>3, <1>5, <2>1, <2>3 DEF Resent
      <3>2. call \in [Calls -> Call]
        BY DEF TypeOK
      <3>3. /\ [d \in Calls |-> Phase(call'[d])] = [[d \in Calls |-> Phase(call[d])] EXCEPT ![c] = Phase(p)]
            /\ [d \in Calls |-> call'[d].effect] = [[d \in Calls |-> call[d].effect] EXCEPT ![c] = p.effect]
            /\ [d \in Calls |-> Result(k, call'[d])]
                 = [[d \in Calls |-> Result(k, call[d])] EXCEPT ![c] = Result(k, p)]
        BY <3>2, Seen
      <3>4. {d \in Calls : Resent(k, call'[d])} = {d \in Calls : Resent(k, call[d])} \union {c}
        <4>1. call'[c] = p /\ \A d \in Calls : d # c => call'[d] = call[d]
          BY <3>2
        <4> QED BY <3>1, <4>1
      <3>5. /\ [d \in Calls |-> Phase(call'[d])] = [d \in Calls |-> Phase(call[d])]
            /\ [d \in Calls |-> call'[d].effect] = [d \in Calls |-> call[d].effect]
            /\ [d \in Calls |-> Result(kind', call'[d])] = [d \in Calls |-> Result(kind, call[d])]
        BY <1>1, <1>2, <2>1, <2>2, <3>3
      <3>6. {d \in Calls : Resent(kind', call'[d])}
              = {d \in Calls : Resent(kind, call[d])} \union {c}
        BY <1>2, <3>4
      <3>7. [d \in Calls |-> Phase(call[d])][c] = "called"
        BY <1>1, <2>2
      <3>8. Remote!Resend(c)
        BY <3>5, <3>7, <3>6 DEF Remote!Resend
      <3> QED BY <3>8 DEF RemoteStep, Remote!Next
    <2>4. CASE q.stage # "put"
      <3>1. Alike(k, q, p)
        BY <2>1, <2>2, <2>4 DEF Alike, Resent
      <3> QED BY <1>1, <1>2, <3>1, AlikeStutters
    <2> QED BY <2>3, <2>4
  <1> QED BY <1>1, <1>2, <1>4, <1>5 DEF Retried

\* How a call may end that has got its answer.
LEMMA OverMayReturn ==
  ASSUME NEW k \in FourKinds, NEW q \in Call, NEW p \in Call, NEW w, NEW n \in Nat, NEW c \in Calls,
         NEW out, p = Over(q, out), out \in {"ok", "partial", "JSONDecodeError"} \union TsErrors,
         Known(k, q, w, n, c), Known(k, p, w, n, c), Tells(p, n), q.reply \in Answers
  PROVE  /\ MayReturn(k, q, n, Result(k, p))
         /\ Result(k, p) = "ConflictError" => q.reply.status = "409"
  <1>1. /\ p.out = out /\ p.reply.status = q.reply.status /\ p.effect = q.effect /\ p.stage = q.stage
        /\ p.attempt = q.attempt /\ q.stage \in {"get", "put"} /\ q.attempt \in Nat
    BY ConstantsAssumption DEF Over, Call, Answers
  <1>2. PICK r : r = Result(k, p)
    OBVIOUS
  <1>3. \/ r = "forbidden" /\ p.reply.status = "4xx"
        \/ r = out /\ ~(k \in {"tsSync", "tsAsync"} /\ out = "ok" /\ p.reply.status = "4xx")
    BY <1>1, <1>2 DEF Result
  <1>4. r \in Remote!Results
    BY <1>3 DEF Remote!Results, Remote!Undone, TsErrors, PyErrors
  <1>5. r = "ok" => q.effect = "read" \/ n > 0
    BY <1>1, <1>3 DEF Known, Did
  <1>6. Resent(k, q) \/ q.stage = "get" \/ (q.stage = "put" /\ q.attempt = 0)
    BY <1>1 DEF Resent, Known
  <1>7. q.stage = "get" => n = 0
    BY DEF Known
  <1>8. r \in Remote!Undone => Resent(k, q) \/ n = 0
    <2> SUFFICES ASSUME r \in Remote!Undone, q.stage = "put", q.attempt = 0 PROVE n = 0
      BY <1>6, <1>7
    <2>1. r \in Blame \/ r \in {"JSONDecodeError", "forbidden"}
      BY DEF Remote!Undone, Blame
    <2>2. CASE r \in Blame
      <3>1. p.out \in Blame /\ p.attempt = 0
        BY <1>1, <1>3, <2>2 DEF Blame
      <3> QED BY <3>1 DEF Known
    <2>3. CASE r \in {"JSONDecodeError", "forbidden"}
      <3>1. r = "JSONDecodeError" => p.out = "JSONDecodeError"
        BY <1>1, <1>3
      <3>2. r = "forbidden" => p.reply.status = "4xx"
        <4>1. out # "forbidden"
          BY DEF TsErrors, PyErrors
        <4> QED BY <1>3, <4>1
      <3>3. p.reply.status = "4xx" /\ p.attempt = 0
        BY <1>1, <2>3, <3>1, <3>2 DEF Tells
      <3> QED BY <3>3 DEF Tells
    <2> QED BY <2>1, <2>2, <2>3
  <1>9. r = "ConflictError" => q.reply.status = "409"
    BY <1>1, <1>3 DEF Tells
  <1> QED BY <1>2, <1>4, <1>5, <1>8, <1>9 DEF MayReturn

LEMMA ReceiveRemote ==
  ASSUME Inv, Order, AllTell, AllTell', NEW c \in Calls, Receive(c)
  PROVE  RemoteStep
  <1>1. PICK p \in Call : /\ Inv' /\ call' = [call EXCEPT ![c] = p] /\ Received(kind, call[c], p)
                          /\ call[c].reply \in Answers
    BY ReceiveStep
  <1>2. /\ TypeOK /\ UNCHANGED <<kind, wire, made, late>> /\ call[c].pc = "waiting"
        /\ Known(kind, call[c], wire, made[c], c) /\ kind \in FourKinds /\ made[c] \in Nat
    BY ConstantsAssumption DEF Inv, TypeOK, CallsKnown, Receive, FourKinds
  <1>3. PICK q \in Call : q = call[c]
    BY <1>2 DEF TypeOK
  <1>4. q.out = "none" /\ q.pc = "waiting"
    BY <1>2, <1>3 DEF Known
  <1>5. Known(kind, p, wire, made[c], c) /\ Tells(p, made[c])
    <2>1. call'[c] = p
      BY <1>1, <1>2 DEF TypeOK
    <2>2. Known(kind', call'[c], wire', made'[c], c) /\ Tells(call'[c], made'[c])
      BY <1>1 DEF Inv, CallsKnown, AllTell
    <2> QED BY <1>2, <2>1, <2>2
  <1>6. PICK k : k = kind
    OBVIOUS
  <1>7. CASE Retried(k, q, p)
    BY <1>1, <1>2, <1>3, <1>4, <1>6, <1>7, RetriedRemote
  <1>8. CASE q.stage = "get" /\ p = Onto(q)
    <2>1. /\ p.pc = "ready" /\ p.attempt = 0 /\ p.out = "none" /\ p.effect = q.effect
      BY <1>4, <1>8 DEF Onto, Call
    <2>2. Alike(k, q, p)
      BY <1>4, <1>8, <2>1 DEF Alike, Phase, Result, Resent
    <2> QED BY <1>1, <1>2, <1>3, <1>6, <2>2, AlikeStutters
  <1>9. CASE Outcome(k, q.reply) # "again" /\ p = Over(q, Outcome(k, q.reply))
    <2>1. PICK out : out = Outcome(k, q.reply)
      OBVIOUS
    <2>2. out \in {"ok", "partial", "JSONDecodeError"} \union TsErrors /\ p = Over(q, out)
      BY <1>1, <1>3, <1>9, <2>1, OutcomeType
    <2>3. /\ p.pc = "ended" /\ p.effect = q.effect /\ p.stage = q.stage /\ p.attempt = q.attempt
      BY <2>2 DEF Over, Call
    <2>4. Phase(q) = "called" /\ Phase(p) = "returned" /\ (Resent(k, p) <=> Resent(k, q))
      BY <1>4, <2>3 DEF Phase, Resent
    <2>5. MayReturn(k, q, made[c], Result(k, p)) /\ (Result(k, p) = "ConflictError" => q.reply.status = "409")
      BY <1>1, <1>2, <1>3, <1>5, <1>6, <2>2, OverMayReturn
    <2>6. Result(k, p) = "ConflictError" => Taken
      BY <1>3, <2>5 DEF Order
    <2> QED BY <1>1, <1>2, <1>3, <1>6, <2>3, <2>4, <2>5, <2>6, ReturnRemote
  <1> QED BY <1>1, <1>3, <1>6, <1>7, <1>8, <1>9 DEF Received

LEMMA AnsweredRemote ==
  ASSUME Inv, NEW m \in wire, Answered(m)
  PROVE  RemoteStep
  <1>1. Handled(m) /\ m \in Messages /\ TypeOK /\ UNCHANGED <<kind, late>>
    BY DEF Inv, Answered, TypeOK, Messages
  <1>2. PICK c \in Calls : c = m[1]
    BY <1>1 DEF Messages
  <1>3. PICK q \in Call : q = call[c]
    BY <1>1 DEF TypeOK
  <1>4. PICK n, k, w : n = made[c] /\ k = kind /\ w = wire
    OBVIOUS
  <1>5. Known(k, q, w, n, c) /\ n \in Nat /\ m \in w /\ q.attempt \in Nat
    BY <1>1, <1>3, <1>4, ConstantsAssumption DEF Inv, CallsKnown, TypeOK, Call
  <1>6. PICK a \in Answers :
          /\ call' = IF q.pc = "waiting" /\ Request(c) = m THEN [call EXCEPT ![c].reply = a] ELSE call
          /\ UNCHANGED <<custom, made>> \/ Took(m)
    BY <1>1, <1>2, <1>3 DEF Handled
  <1>7. PICK p : p = call'[c]
    OBVIOUS
  <1>8. call' = [call EXCEPT ![c] = p] /\ (p = q \/ (q.pc = "waiting" /\ p = [q EXCEPT !.reply = a]))
    BY <1>1, <1>3, <1>6, <1>7 DEF TypeOK
  <1>9. Alike(k, q, p)
    <2>1. CASE p = q
      BY <2>1 DEF Alike
    <2>2. CASE q.pc = "waiting" /\ p = [q EXCEPT !.reply = a]
      <3>1. /\ p.pc = q.pc /\ p.effect = q.effect /\ p.out = q.out /\ p.stage = q.stage
            /\ p.attempt = q.attempt
        BY <2>2 DEF Call
      <3>2. q.out = "none"
        BY <1>5, <2>2 DEF Known
      <3> QED BY <3>1, <3>2 DEF Alike, Phase, Result, Resent
    <2> QED BY <1>8, <2>1, <2>2
  <1>10. CASE UNCHANGED <<custom, made>>
    BY <1>1, <1>3, <1>4, <1>8, <1>9, <1>10, AlikeStutters
  <1>11. CASE Took(m)
    <2>1. /\ m[2] = "put" /\ q.effect # "read"
          /\ made' = [made EXCEPT ![c] = @ + 1]
          /\ q.effect \in Remote!Unique => c \notin late
          /\ q.effect = "unique" => ~Remote!Done
      BY <1>2, <1>3, <1>11, DoneIsTaken DEF Took, Once, Remote!Unique
    <2>2. q.pc # "idle" /\ q.stage = "put" /\ m[3] <= q.attempt
      BY <1>2, <1>5, <2>1 DEF Known, Call
    <2>3. ASSUME q.attempt = 0 PROVE n = 0 /\ (q.pc = "ended" => q.out = "ConnectionError")
      <3>1. m = <<c, "put", 0>>
        BY <1>1, <1>2, <2>1, <2>2, <2>3, ConstantsAssumption DEF Messages
      <3> QED BY <1>5, <2>2, <2>3, <3>1 DEF Known
    <2>4. Resent(k, q) \/ q.attempt = 0
      BY <1>5, <2>2 DEF Resent, Known
    <2>5. /\ Resent(k, q) \/ n = 0
          /\ \/ Phase(q) = "called"
             \/ Phase(q) = "returned" /\ (Resent(k, q) \/ Result(k, q) = "ConnectionError")
      BY <2>2, <2>3, <2>4 DEF Phase, Result
    <2>6. /\ [d \in Calls |-> Phase(call'[d])] = [d \in Calls |-> Phase(call[d])]
          /\ [d \in Calls |-> call'[d].effect] = [d \in Calls |-> call[d].effect]
          /\ [d \in Calls |-> Result(kind', call'[d])] = [d \in Calls |-> Result(kind, call[d])]
          /\ {d \in Calls : Resent(kind', call'[d])} = {d \in Calls : Resent(kind, call[d])}
      <3>1. /\ [d \in Calls |-> Phase(call'[d])] = [[d \in Calls |-> Phase(call[d])] EXCEPT ![c] = Phase(p)]
            /\ [d \in Calls |-> call'[d].effect] = [[d \in Calls |-> call[d].effect] EXCEPT ![c] = p.effect]
            /\ [d \in Calls |-> Result(k, call'[d])]
                 = [[d \in Calls |-> Result(k, call[d])] EXCEPT ![c] = Result(k, p)]
            /\ (Resent(k, p) <=> Resent(k, call[c])) =>
                 {d \in Calls : Resent(k, call'[d])} = {d \in Calls : Resent(k, call[d])}
        BY <1>1, <1>8, Seen DEF TypeOK
      <3>2. /\ Phase(p) = Phase(q) /\ p.effect = q.effect /\ Result(k, p) = Result(k, q)
            /\ Resent(k, p) <=> Resent(k, q)
        BY <1>9 DEF Alike
      <3> QED BY <1>1, <1>3, <1>4, <3>1, <3>2
    <2>7. /\ [d \in Calls |-> Phase(call[d])][c] = Phase(q) /\ [d \in Calls |-> call[d].effect][c] = q.effect
          /\ [d \in Calls |-> Result(kind, call[d])][c] = Result(k, q)
          /\ c \in {d \in Calls : Resent(kind, call[d])} <=> Resent(k, q)
      BY <1>3, <1>4
    <2>8. Remote!Act(c)
      BY <1>1, <1>4, <2>1, <2>5, <2>6, <2>7 DEF Remote!Act
    <2> QED BY <2>8 DEF RemoteStep, Remote!Next
  <1> QED BY <1>6, <1>10, <1>11

LEMMA StepRemote == Inv /\ Order /\ AllTell /\ AllTell' /\ [Next]_vars => [Remote!Next]_(Remote!remote)
  <1> SUFFICES ASSUME Inv, Order, AllTell, AllTell', [Next]_vars PROVE RemoteStep
    BY DEF RemoteStep
  <1>1. CASE UNCHANGED vars
    BY <1>1, RemoteStutters DEF vars
  <1>2. ASSUME NEW c \in Calls, Start(c) PROVE RemoteStep
    BY <1>2, StartRemote
  <1>3. ASSUME NEW c \in Calls, Send(c) PROVE RemoteStep
    BY <1>3, SendRemote
  <1>4. ASSUME NEW c \in Calls, Receive(c) PROVE RemoteStep
    BY <1>4, ReceiveRemote
  <1>5. CASE Close \/ \E c \in Calls : Broken(c) \/ Timeout(c) \/ TimerFires(c)
    <2>1. Failed /\ UNCHANGED <<kind, passed, custom, made, late>>
      BY <1>5, FaultSteps
    <2>2. CASE UNCHANGED call
      BY <2>1, <2>2, RemoteStutters
    <2>3. ASSUME NEW c \in Calls, NEW p \in Call, call[c].pc = "waiting",
                 call' = [call EXCEPT ![c] = p], Retried(kind, call[c], p)
          PROVE  RemoteStep
      <3>1. TypeOK /\ call[c].out = "none"
        BY <2>3 DEF Inv, CallsKnown, Known
      <3> QED BY <2>1, <2>3, <3>1, RetriedRemote
    <2> QED BY <2>1, <2>2, <2>3 DEF Failed
  <1>6. ASSUME NEW m \in wire, Handle(m) PROVE RemoteStep
    BY <1>6, HandleOutcome, AnsweredRemote
  <1>7. ASSUME NEW m \in wire, Pass(m) PROVE RemoteStep
    BY <1>7, PassStep, RemoteStutters
  <1>8. ASSUME NEW m \in wire, Commit(m) PROVE RemoteStep
    BY <1>8, CommitOutcome, AnsweredRemote
  <1> QED BY <1>1, <1>2, <1>3, <1>4, <1>5, <1>6, <1>7, <1>8 DEF Next

LEMMA InitRemote == Init => Remote!Init
  <1> SUFFICES ASSUME Init PROVE Remote!Init
    OBVIOUS
  <1>1. \A c \in Calls : call[c] = Idle
    BY DEF Init
  <1>2. Idle.pc = "idle" /\ Idle.effect = "read" /\ Idle.out = "none" /\ Idle.attempt = 0
    BY DEF Idle
  <1>3. Phase(Idle) = "idle" /\ Result(kind, Idle) = "none" /\ ~Resent(kind, Idle)
    BY <1>2 DEF Phase, Result, Resent
  <1>4. /\ [c \in Calls |-> Phase(call[c])] = [c \in Calls |-> "idle"]
        /\ [c \in Calls |-> call[c].effect] = [c \in Calls |-> "read"]
        /\ [c \in Calls |-> Result(kind, call[c])] = [c \in Calls |-> "none"]
        /\ {c \in Calls : Resent(kind, call[c])} = {}
    BY <1>1, <1>2, <1>3
  <1>5. made = [c \in Calls |-> 0] /\ late = {}
    BY DEF Init
  <1> QED BY <1>4, <1>5 DEF Remote!Init

\* A program that uses any of the four clients sees the remote call: at most one effect
\* until _request sends again, no effect of a call for what had been done when it was made,
\* one effect of what the database keeps unique, errors that mean that nothing was done,
\* conflicts with what was done, and late effects only of calls that were given up or sent
\* again.
THEOREM ClientsAreRemoteCalls == Spec => IsRemoteCall
  <1>1. Spec => [][Remote!Next]_(Remote!remote)
    BY TellsAlways, StepRemote, PTL DEF Spec
  <1>2. Spec => Remote!Init
    BY InitRemote DEF Spec
  <1> QED BY <1>1, <1>2, PTL DEF IsRemoteCall, Remote!Spec
=============================================================================
