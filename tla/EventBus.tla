------------------------------- MODULE EventBus -------------------------------
(***************************************************************************)
(* Live events: services/websocket.py (ConnectionManager, SSEManager),     *)
(* services/redis_pubsub.py, routers/websocket.py and the wiring of the    *)
(* three in the lifespan of main.py, in several server processes.          *)
(*                                                                         *)
(* A broadcaster is a call of publish_event, named by its event, or the    *)
(* Redis listener of a process. It collects the sockets that want the      *)
(* event under the connection manager's lock and sends to them one at a    *)
(* time without it; nobody waits for the lock of the SSE manager, whose    *)
(* critical sections do not suspend, so its broadcast is one step.         *)
(***************************************************************************)
EXTENDS Naturals, FiniteSets, Sequences

CONSTANTS
  Procs,      \* server processes
  Sockets,    \* WebSocket connections that will be attempted
  Streams,    \* SSE requests that will be made
  Events,     \* events that will be published
  Topics,     \* channels: a status, a packet or an agent
  ProcOf,     \* the process that serves a connection
  TenantOf,   \* the tenant a connection is authenticated for, or an event is of
  LimitOf,    \* WS_TIER_LIMITS of the key's tier; keys of a tenant may differ
  About,      \* the channels an event belongs to
  Asks,       \* the channels a client may name
  Links,      \* the sets of processes that may find Redis when they start
  NoOne,
  MaxGone,    \* bound on clients that go away
  MaxFaults   \* bound on Redis errors and stopped processes

Conns == Sockets \union Streams
Casters == Events \union Procs

ASSUME ConstantsAssumption ==
  /\ Sockets \intersect Streams = {} /\ Events \intersect Procs = {}
  /\ NoOne \notin Sockets \union Events \union Procs
  /\ ProcOf \in [Conns -> Procs]
  /\ DOMAIN TenantOf = Conns \union Events
  /\ LimitOf \in [Sockets -> Nat]
  /\ About \in [Events -> SUBSET Topics] /\ Asks \in [Conns -> SUBSET Topics]
  /\ Links \subseteq SUBSET Procs
  /\ MaxGone \in Nat /\ MaxFaults \in Nat
  /\ IsFiniteSet(Sockets)

VARIABLES
  conn,       \* connections: the handler's place, and the subscriptions
  gone,       \* connections whose client has gone away
  lock,       \* ConnectionManager._lock of each process, or NoOne
  cast,       \* the broadcasters
  linked,     \* processes that reached Redis when they started
  listening,  \* processes whose Redis listener runs
  inbox,      \* messages Redis has for the listener of each process
  queue,      \* SSEConnection.queue
  got,        \* how often the client of a connection got an event
  faults

vars == <<conn, gone, lock, cast, linked, listening, inbox, queue, got, faults>>

Conn ==
  [pc: {"none", "accepting", "welcoming", "open", "ghost", "over"},
   subs: SUBSET Topics]

Cast ==
  [pc: {"idle", "collect", "send", "streams", "redis", "done"},
   at: Procs \union {NoOne}, event: Events \union {NoOne}, scoped: BOOLEAN,
   todo: SUBSET Sockets]

Idle == [pc |-> "idle", at |-> NoOne, event |-> NoOne, scoped |-> FALSE, todo |-> {}]

\* The connection is in _connections. A ghost is there for good.
Registered(c) == conn[c].pc \in {"welcoming", "open", "ghost"}
Places(p, t) == {c \in Sockets : Registered(c) /\ ProcOf[c] = p /\ TenantOf[c] = t}

\* Mutation: connect does not take the lock.
NeverLocked(p) == TRUE
LockFree(p) == lock[p] = NoOne

-----------------------------------------------------------------------------
(* WebSocket connections *)

Moved(c, pc) == conn' = [conn EXCEPT ![c].pc = pc]
\* connect() up to the await of accept, with the lock held from there on.
Admit(c) ==
  LET p == ProcOf[c] IN
  /\ conn[c].pc = "none" /\ LockFree(p)
  /\ IF Cardinality(Places(p, TenantOf[c])) >= LimitOf[c]
     THEN Moved(c, "over") /\ UNCHANGED lock
     ELSE Moved(c, "accepting") /\ lock' = [lock EXCEPT ![p] = c]
  /\ UNCHANGED <<gone, cast, linked, listening, inbox, queue, got, faults>>

\* accept() returns, or raises because the client has gone.
Accept(c) ==
  /\ conn[c].pc = "accepting"
  /\ \/ Moved(c, "welcoming")
     \/ c \in gone /\ Moved(c, "over")
  /\ lock' = [lock EXCEPT ![ProcOf[c]] = NoOne]
  /\ UNCHANGED <<gone, cast, linked, listening, inbox, queue, got, faults>>

\* When the welcome message cannot be sent, the finally clause raises too: it
\* cancels a heartbeat task that was not made yet, and never disconnects.
Welcome(c) ==
  /\ conn[c].pc = "welcoming"
  /\ \/ Moved(c, "open")
     \/ c \in gone /\ Moved(c, "ghost")
  /\ UNCHANGED <<gone, lock, cast, linked, listening, inbox, queue, got, faults>>

\* A subscribe or unsubscribe message of the client.
Filter(c, subs) ==
  /\ conn[c].pc = "open" /\ LockFree(ProcOf[c])
  /\ conn' = [conn EXCEPT ![c].subs = subs]
  /\ UNCHANGED <<gone, lock, cast, linked, listening, inbox, queue, got, faults>>

Subscribe(c, t) == t \notin conn[c].subs /\ Filter(c, conn[c].subs \union {t})
Unsubscribe(c, t) == t \in conn[c].subs /\ Filter(c, conn[c].subs \ {t})

\* The client closes the connection or is cut off.
Leave(c) ==
  /\ c \notin gone /\ Cardinality(gone) < MaxGone
  /\ conn[c].pc \notin {"none", "over"}
  /\ gone' = gone \union {c}
  /\ UNCHANGED <<conn, lock, cast, linked, listening, inbox, queue, got, faults>>

Disconnect(c) ==
  /\ conn[c].pc = "open" /\ c \in gone /\ LockFree(ProcOf[c])
  /\ Moved(c, "over")
  /\ UNCHANGED <<gone, lock, cast, linked, listening, inbox, queue, got, faults>>

-----------------------------------------------------------------------------
(* SSE connections *)

\* The request registers the stream and applies its channels before it suspends.
Open(s, subs) ==
  /\ conn[s].pc = "none"
  /\ conn' = [conn EXCEPT ![s].pc = "open", ![s].subs = subs]
  /\ UNCHANGED <<gone, lock, cast, linked, listening, inbox, queue, got, faults>>

Received(c, e) == [got EXCEPT ![c][e] = IF c \notin gone THEN @ + 1 ELSE @]

\* event_generator yields the next message of the queue.
Pump(s) ==
  /\ conn[s].pc = "open" /\ queue[s] # <<>>
  /\ queue' = [queue EXCEPT ![s] = Tail(@)]
  /\ got' = Received(s, Head(queue[s]))
  /\ UNCHANGED <<conn, gone, lock, cast, linked, listening, inbox, faults>>

Close(s) ==
  /\ conn[s].pc = "open" /\ s \in gone
  /\ Moved(s, "over")
  /\ queue' = [queue EXCEPT ![s] = <<>>]
  /\ UNCHANGED <<gone, lock, cast, linked, listening, inbox, got, faults>>

-----------------------------------------------------------------------------
(* Broadcasting *)

\* Mutation: the subscription is not looked at.
MatchesAll(subs, e) == TRUE
Matches(subs, e) == subs = {} \/ subs \intersect About[e] # {}

\* Mutation: no tenant filter.
ReachesAny(k, c) ==
  /\ Registered(c) /\ ProcOf[c] = cast[k].at
  /\ Matches(conn[c].subs, cast[k].event)
\* The connections a broadcast by k is for.
Reaches(k, c) ==
  /\ Registered(c) /\ ProcOf[c] = cast[k].at
  /\ cast[k].scoped => TenantOf[c] = TenantOf[cast[k].event]
  /\ Matches(conn[c].subs, cast[k].event)

Begun(k, p, e, scoped) ==
  cast' = [cast EXCEPT ![k] = [pc |-> "collect", at |-> p, event |-> e, scoped |-> scoped, todo |-> {}]]

\* Some process handles the request that publishes e.
Publish(e, p) ==
  /\ cast[e].pc = "idle"
  /\ Begun(e, p, e, TRUE)
  /\ UNCHANGED <<conn, gone, lock, linked, listening, inbox, queue, got, faults>>

Collect(k) ==
  /\ cast[k].pc = "collect" /\ LockFree(cast[k].at)
  /\ cast' = [cast EXCEPT ![k].pc = "send", ![k].todo = {c \in Sockets : Reaches(k, c)}]
  /\ UNCHANGED <<conn, gone, lock, linked, listening, inbox, queue, got, faults>>

\* What cannot be sent is lost, and the others are served all the same.
Send(k, c) ==
  /\ cast[k].pc = "send" /\ c \in cast[k].todo
  /\ cast' = [cast EXCEPT ![k].todo = @ \ {c}]
  /\ got' = Received(c, cast[k].event)
  /\ UNCHANGED <<conn, gone, lock, linked, listening, inbox, queue, faults>>

\* Mutation: only publish_event feeds the streams.
FeedsIfOwn(k) == k \in Events
Feeds(k) == TRUE

\* The broadcast to the streams, which comes after the last send.
FeedStreams(k) ==
  /\ cast[k].pc = "send" /\ cast[k].todo = {}
  /\ queue' = [s \in Streams |-> IF Reaches(k, s) /\ Feeds(k)
                                 THEN Append(queue[s], cast[k].event) ELSE queue[s]]
  /\ cast' = [cast EXCEPT ![k] = IF k \in Procs THEN Idle
                                 ELSE IF @.scoped THEN [@ EXCEPT !.pc = "redis"]
                                 ELSE [@ EXCEPT !.pc = "done"]]
  /\ UNCHANGED <<conn, gone, lock, linked, listening, inbox, got, faults>>

-----------------------------------------------------------------------------
(* Redis *)

\* Mutations: the processes also listen to the channels of packets and statuses; a
\* message that is not JSON is relayed; nobody listens to ":all".
EveryChannel(e) == <<e, e>>
NoJson(e) == <<NoOne>>
NoChannel(e) == <<>>
\* What a listener gets of an event that is published: it listens to ":all" only.
Heard(e) == <<e>>

Relayed(e) == inbox' = [p \in Procs |-> IF p \in listening THEN inbox[p] \o Heard(e) ELSE inbox[p]]

\* RedisPubSubManager.publish. Without Redis at start no callback was ever set.
ToRedis(e) ==
  /\ cast[e].pc = "redis"
  /\ cast' = [cast EXCEPT ![e].pc = "done"]
  /\ IF cast[e].at \in linked THEN Relayed(e) ELSE UNCHANGED inbox
  /\ UNCHANGED <<conn, gone, lock, linked, listening, queue, got, faults>>

\* Redis fails before or after the message is out: the event is broadcast here once
\* more, to the connections of all tenants.
RedisFails(e) ==
  /\ cast[e].pc = "redis" /\ cast[e].at \in linked /\ faults < MaxFaults
  /\ Relayed(e) \/ UNCHANGED inbox
  /\ Begun(e, cast[e].at, e, FALSE)
  /\ faults' = faults + 1
  /\ UNCHANGED <<conn, gone, lock, linked, listening, queue, got>>

\* The listener takes its next message and broadcasts it to all tenants.
Listen(p) ==
  /\ p \in listening /\ cast[p].pc = "idle" /\ inbox[p] # <<>>
  /\ Begun(p, p, Head(inbox[p]), FALSE)
  /\ inbox' = [inbox EXCEPT ![p] = Tail(@)]
  /\ UNCHANGED <<conn, gone, lock, linked, listening, queue, got, faults>>

\* The connection of the listener breaks: it ends and is not started again.
ListenerDies(p) ==
  /\ p \in listening /\ cast[p].pc = "idle" /\ faults < MaxFaults
  /\ listening' = listening \ {p}
  /\ inbox' = [inbox EXCEPT ![p] = <<>>]
  /\ faults' = faults + 1
  /\ UNCHANGED <<conn, gone, lock, cast, linked, queue, got>>

\* The process ends, with everything in it.
Stop(p) ==
  /\ faults < MaxFaults
  /\ conn' = [c \in Conns |-> IF ProcOf[c] = p
                              THEN [conn[c] EXCEPT !.pc = "over"] ELSE conn[c]]
  /\ lock' = [lock EXCEPT ![p] = NoOne]
  /\ cast' = [k \in Casters |-> IF cast[k].at = p \/ k = p
                              THEN [cast[k] EXCEPT !.pc = "done"] ELSE cast[k]]
  /\ listening' = listening \ {p}
  /\ inbox' = [inbox EXCEPT ![p] = <<>>]
  /\ queue' = [s \in Streams |-> IF ProcOf[s] = p THEN <<>> ELSE queue[s]]
  /\ faults' = faults + 1
  /\ UNCHANGED <<gone, linked, got>>

-----------------------------------------------------------------------------

Init ==
  /\ conn = [c \in Conns |-> [pc |-> "none", subs |-> {}]]
  /\ gone = {}
  /\ lock = [p \in Procs |-> NoOne]
  /\ cast = [k \in Casters |-> Idle]
  /\ linked \in Links
  /\ listening = linked
  /\ inbox = [p \in Procs |-> <<>>]
  /\ queue = [s \in Streams |-> <<>>]
  /\ got = [c \in Conns |-> [e \in Events |-> 0]]
  /\ faults = 0

\* What the event loops run. What clients do, what is published and what fails is
\* not scheduled.
ServerStep ==
  \/ \E c \in Sockets : Accept(c) \/ Welcome(c) \/ Disconnect(c)
  \/ \E s \in Streams : Pump(s) \/ Close(s)
  \/ \E k \in Casters : Collect(k) \/ FeedStreams(k) \/ \E c \in Sockets : Send(k, c)
  \/ \E e \in Events : ToRedis(e)
  \/ \E p \in Procs : Listen(p)

Next ==
  \/ ServerStep
  \/ \E c \in Sockets : Admit(c) \/ \E t \in Asks[c] : Subscribe(c, t) \/ Unsubscribe(c, t)
  \/ \E c \in Conns : Leave(c)
  \/ \E s \in Streams : \E subs \in SUBSET Asks[s] : Open(s, subs)
  \/ \E e \in Events : RedisFails(e) \/ \E p \in Procs : Publish(e, p)
  \/ \E p \in Procs : ListenerDies(p) \/ Stop(p)

Spec == Init /\ [][Next]_vars

\* No event loop rests while a task of it can run. There are finitely many such steps
\* to take between two of the others, so each task gets its turn.
FairSpec == Spec /\ WF_vars(ServerStep)

-----------------------------------------------------------------------------

TypeOK ==
  /\ conn \in [Conns -> Conn] /\ gone \subseteq Conns
  /\ lock \in [Procs -> Sockets \union {NoOne}]
  /\ cast \in [Casters -> Cast]
  /\ linked \subseteq Procs /\ listening \subseteq Procs
  /\ inbox \in [Procs -> Seq(Events)]
  /\ queue \in [Streams -> Seq(Events)]
  /\ got \in [Conns -> [Events -> Nat]]
  /\ faults \in Nat

\* "Free: 1 concurrent connection": no tenant holds more places in a process with
\* keys of a limit than the limit, although accept() suspends between the count and
\* the registration.
LimitHolds ==
  \A p \in Procs : \A c \in Sockets :
    Cardinality({d \in Places(p, TenantOf[c]) : LimitOf[d] <= LimitOf[c]}) <= LimitOf[c]

\* An event comes once to the connections of other processes. In its own it comes
\* again with the relay, and again when Redis fails after the message is out.
CopiesBounded ==
  \A c \in Conns, e \in Events :
    got[c][e] <= IF ProcOf[c] # cast[e].at \/ cast[e].at \notin linked THEN 1
                 ELSE IF faults = 0 THEN 2 ELSE 3

Wants(c, e) == conn[c].subs = {} \/ \E t \in About[e] : t \in conn[c].subs

\* A stream gets only events on the channels of its URL, whichever way they come.
StreamsGetOnlyAsked ==
  \A s \in Streams, e \in Events : got[s][e] > 0 => Wants(s, e)

\* Tenants are kept apart until an event has been through Redis.
ForeignOnlyByRelay ==
  \A c \in Conns, e \in Events :
    got[c][e] > 0 /\ TenantOf[c] # TenantOf[e] =>
      /\ cast[e].at \in linked
      /\ cast[e].pc = "done" \/ ~cast[e].scoped

\* The connections an event is meant for are those of its tenant.
Audience(e) == {c \in Conns : TenantOf[c] = TenantOf[e]}

\* The connection is open and its client waits for e.
Awaits(c, e) == conn[c].pc = "open" /\ c \notin gone /\ Wants(c, e)

\* The broadcaster k has e with c still before it.
Carries(k, c, e) ==
  /\ cast[k].event = e
  /\ \/ /\ cast[k].pc = "collect" \/ (cast[k].pc = "send" /\ c \in Streams)
        /\ cast[k].at = ProcOf[c]
        /\ cast[k].scoped => TenantOf[c] = TenantOf[e]
     \/ cast[k].pc = "send" /\ c \in cast[k].todo

\* e is on its way to c: with a broadcaster, in the queue of the stream, about to go
\* through Redis, or in the inbox of the listener of c's process.
OnTheWay(c, e) ==
  \/ \E k \in Casters : Carries(k, c, e)
  \/ c \in Streams /\ \E i \in DOMAIN queue[c] : queue[c][i] = e
  \/ /\ ProcOf[c] \in listening
     /\ \/ cast[e].pc \in {"collect", "send", "redis"} /\ cast[e].scoped /\ cast[e].at \in linked
        \/ \E i \in DOMAIN inbox[ProcOf[c]] : inbox[ProcOf[c]][i] = e

\* Until something fails, no step loses an event on its way: from the broadcast to the
\* socket or the queue, through Redis and from the inbox of a listener, it stays on its
\* way to a client of its tenant that waits for it until that client gets it.
NothingIsDropped ==
  [][\A e \in Events : \A c \in Audience(e) :
       Awaits(c, e) /\ OnTheWay(c, e) =>
         OnTheWay(c, e)' \/ got'[c][e] > got[c][e] \/ ~Awaits(c, e)' \/ faults' > 0]_vars

\* Until something fails, who is connected and asks for an event of its tenant when it
\* is published gets it: in the process of the event directly, elsewhere through Redis
\* (FairSpec).
SubscribersHear ==
  \A e \in Events : \A c \in Audience(e) :
    [](/\ Awaits(c, e)
       /\ \/ cast[e].pc = "collect" /\ cast[e].scoped /\ cast[e].at = ProcOf[c]
          \/ cast[e].pc = "redis" /\ {cast[e].at, ProcOf[c]} \subseteq linked
       => <>(got[c][e] > 0 \/ ~Awaits(c, e) \/ faults > 0))
=============================================================================
