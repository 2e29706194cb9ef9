------------------------------ MODULE LiveClient ------------------------------
(***************************************************************************)
(* The WebSocket clients of the SDKs and how they keep a connection:       *)
(* AsyncWebSocketClient of sdk-typescript/src/ws-client.ts, driven by the  *)
(* events of its sockets and by a timer, and HandoffRailWSClient of        *)
(* sdk/handoffrail/sdk/ws_client.py, whose connect() is a loop.            *)
(*                                                                         *)
(* The program that uses the client calls connect() and close() whenever   *)
(* it likes, also while an earlier call is not done.                       *)
(***************************************************************************)
EXTENDS Naturals, FiniteSets

CONSTANTS
  Langs,     \* "ts", "py"
  Sockets,   \* the sockets that may be made: a bound
  NoSocket,
  Loops,     \* calls of connect(): a bound
  MaxDelay,  \* the number of times the delay is multiplied until it is the longest
  MaxClosed, \* bound on calls of close()
  MaxFaults  \* bound on factories and callbacks that throw

ASSUME ConstantsAssumption ==
  /\ Langs \subseteq {"ts", "py"}
  /\ IsFiniteSet(Sockets) /\ NoSocket \notin Sockets
  /\ IsFiniteSet(Loops)
  /\ MaxDelay \in Nat /\ MaxClosed \in Nat /\ MaxFaults \in Nat

VARIABLES
  lang, reconnect,  \* the client, and its option
  logs,      \* Python: the levels at which the logger "handoffrail.ws" is enabled
  running, connected, ws, delay,  \* its fields of these names
  sock,      \* the sockets, as the client's library has them
  loop,      \* the calls of connect()
  timer,     \* TypeScript: _reconnectTimer is set
  leaving,   \* Python: the socket that disconnect() waits for, or NoSocket
  closed,    \* how often close() was called
  refused,   \* TypeScript: how many first connections of connect() failed
  clean,     \* Python: how often a loop over messages ended without an exception
  faults

vars == <<lang, reconnect, logs, running, connected, ws, delay, sock, loop, timer, leaving,
          closed, refused, clean, faults>>

\* "aborted": closed by the client before it was open; "closing": later.
SocketStates == {"new", "connecting", "open", "aborted", "closing", "closed"}
\* "first": connect() waits for its connection. "callback": for the error callback.
\* "leave": for its socket to close. "raised": connect() raised to its caller.
Loop ==
  [pc: {"none", "first", "callback", "top", "dial", "listen", "leave", "sleep", "over", "raised"},
   socket: Sockets \union {NoSocket}]

Pc(l, pc) == loop' = [loop EXCEPT ![l].pc = pc]
Unmade == {s \in Sockets : sock[s] = "new"}
Shut(s) == IF sock[s] = "connecting" THEN "aborted" ELSE IF sock[s] = "open" THEN "closing" ELSE sock[s]

-----------------------------------------------------------------------------
(* TypeScript *)

\* Mutation: it is not looked whether the client reconnects.
ScheduledAlways == running
\* _scheduleReconnect sets the timer, anew if it is set.
Scheduled == reconnect /\ running
Schedule == timer' = (timer \/ Scheduled)

\* The factory makes a socket, or throws.
Made(s) ==
  \/ /\ s \in Unmade /\ UNCHANGED faults
     /\ sock' = [sock EXCEPT ![s] = "connecting"] /\ ws' = s
  \/ /\ s = NoSocket /\ faults < MaxFaults
     /\ faults' = faults + 1 /\ UNCHANGED <<sock, ws>>

\* connect() does not look at sockets and timers of earlier calls.
TsConnect(l) ==
  /\ loop[l].pc = "none"
  /\ running' = TRUE /\ delay' = 0
  /\ \E s \in Sockets \union {NoSocket} :
       /\ Made(s)
       /\ loop' = [loop EXCEPT ![l] = [pc |-> IF s = NoSocket THEN "callback" ELSE "first", socket |-> s]]
  /\ UNCHANGED <<connected, timer, leaving, closed, refused, clean>>

WaitingFor(s) == {l \in Loops : loop[l].pc = "first" /\ loop[l].socket = s}
Told(s, pc) == loop' = [l \in Loops |-> IF l \in WaitingFor(s) THEN [loop[l] EXCEPT !.pc = pc] ELSE loop[l]]

OnOpen(s) ==
  /\ sock[s] = "connecting"
  /\ sock' = [sock EXCEPT ![s] = "open"]
  /\ connected' = TRUE /\ delay' = 0
  /\ Told(s, "over")
  /\ UNCHANGED <<running, ws, timer, leaving, closed, refused, clean, faults>>

\* Mutation: it only forgets it.
LostForGood == connected' = FALSE /\ ws' = NoSocket /\ UNCHANGED timer
\* onclose forgets the current socket, whichever it is, and schedules a reconnect.
Lost == connected' = FALSE /\ ws' = NoSocket /\ Schedule

\* Before it was open: onerror rejects the promise, then onclose.
OnError(s) ==
  /\ sock[s] \in {"connecting", "aborted"}
  /\ sock' = [sock EXCEPT ![s] = "closed"]
  /\ Lost
  /\ Told(s, "callback")
  /\ refused' = refused + Cardinality(WaitingFor(s))
  /\ UNCHANGED <<running, delay, leaving, closed, clean, faults>>

OnClose(s) ==
  /\ sock[s] \in {"open", "closing"}
  /\ sock' = [sock EXCEPT ![s] = "closed"]
  /\ Lost
  /\ UNCHANGED <<running, delay, loop, leaving, closed, refused, clean, faults>>

\* The error callback of connect() has returned: the reconnect is scheduled again.
Caught(l) ==
  /\ loop[l].pc = "callback"
  /\ Pc(l, "over")
  /\ Schedule
  /\ UNCHANGED <<running, connected, ws, delay, sock, leaving, closed, refused, clean, faults>>

TsClose ==
  /\ closed < MaxClosed
  /\ running' = FALSE /\ connected' = FALSE /\ timer' = FALSE
  /\ ws' = NoSocket
  /\ sock' = IF ws = NoSocket THEN sock ELSE [sock EXCEPT ![ws] = Shut(ws)]
  /\ closed' = closed + 1
  /\ UNCHANGED <<delay, loop, leaving, refused, clean, faults>>

\* Mutation: the delay is not capped.
GrownOn == delay + 1
Grown == IF delay < MaxDelay THEN delay + 1 ELSE delay

\* The client is running: close() clears the timer. When the factory throws there is
\* no socket, and no onclose to schedule the next.
TimerFires ==
  /\ timer
  /\ timer' = FALSE /\ delay' = Grown
  /\ \E s \in Sockets \union {NoSocket} : Made(s)
  /\ UNCHANGED <<running, connected, loop, leaving, closed, refused, clean>>

TsNext ==
  /\ lang = "ts" /\ UNCHANGED <<lang, reconnect, logs>>
  /\ \/ \E l \in Loops : TsConnect(l) \/ Caught(l)
     \/ \E s \in Sockets : OnOpen(s) \/ OnError(s) \/ OnClose(s)
     \/ TsClose \/ TimerFires

-----------------------------------------------------------------------------
(* Python *)

\* The logger is one of the standard library, which takes no fields: a call with fields
\* raises a TypeError when its level is enabled. The default level is WARNING: "errors".
Levels == {"none", "errors", "all"}

PyConnect(l) ==
  /\ loop[l].pc = "none"
  /\ running' = TRUE /\ delay' = 0
  /\ Pc(l, "top")
  /\ UNCHANGED <<connected, ws, sock, timer, leaving, closed, refused, clean, faults>>

\* The head of the loop.
Top(l) ==
  /\ loop[l].pc = "top"
  /\ IF running
     THEN \E s \in Unmade : /\ sock' = [sock EXCEPT ![s] = "connecting"]
                            /\ loop' = [loop EXCEPT ![l] = [pc |-> "dial", socket |-> s]]
     ELSE Pc(l, "over") /\ UNCHANGED sock
  /\ UNCHANGED <<running, connected, ws, delay, timer, leaving, closed, refused, clean, faults>>

\* _ws is set when the connection is open, also after disconnect(). Where the logger is
\* enabled for INFO, logging the connection raises, and the socket is closed.
Opened(l) ==
  LET s == loop[l].socket IN
  /\ loop[l].pc = "dial"
  /\ \/ logs # "all" /\ sock' = [sock EXCEPT ![s] = "open"] /\ Pc(l, "listen")
     \/ logs = "all" /\ sock' = [sock EXCEPT ![s] = "closing"] /\ Pc(l, "leave")
  /\ ws' = s /\ connected' = TRUE /\ delay' = 0
  /\ UNCHANGED <<running, timer, leaving, closed, refused, clean, faults>>

\* A message after disconnect() ends the loop over the messages.
Breaks(l) ==
  /\ loop[l].pc = "listen" /\ ~running
  /\ sock' = [sock EXCEPT ![loop[l].socket] = "closed"]
  /\ Pc(l, "top")
  /\ clean' = clean + 1
  /\ UNCHANGED <<running, connected, ws, delay, timer, leaving, closed, refused, faults>>

\* A regular close, by either side, ends the loop over the messages without an
\* exception: _ws and _connected stay, and the next connection is made at once.
CleanClose(l) ==
  /\ loop[l].pc = "listen"
  /\ sock' = [sock EXCEPT ![loop[l].socket] = "closed"]
  /\ Pc(l, "top")
  /\ clean' = clean + 1
  /\ UNCHANGED <<running, connected, ws, delay, timer, leaving, closed, refused, faults>>

\* The connection breaks: ConnectionClosed. (Logging the reconnect has a field too, but
\* where INFO is enabled no call listens.)
Dropped(l) ==
  /\ loop[l].pc = "listen"
  /\ sock' = [sock EXCEPT ![loop[l].socket] = "closed"]
  /\ connected' = FALSE /\ ws' = NoSocket
  /\ Pc(l, "callback")
  /\ UNCHANGED <<running, delay, timer, leaving, closed, refused, clean, faults>>

\* Any other exception: the handshake is refused, the logger raised, a callback for all
\* events raises, or a message is no JSON. Logging it raises again, out of connect(),
\* unless errors are not logged.
Breakdown(l) ==
  /\ loop[l].pc \in {"dial", "listen", "leave"}
  /\ sock' = [sock EXCEPT ![loop[l].socket] = "closed"]
  /\ connected' = FALSE /\ ws' = NoSocket
  /\ Pc(l, IF logs = "none" THEN "callback" ELSE "raised")
  /\ UNCHANGED <<running, delay, timer, leaving, closed, refused, clean, faults>>

\* on_disconnected or on_error has returned; or raises, out of connect().
Retry(l) ==
  /\ loop[l].pc = "callback"
  /\ \/ Pc(l, IF Scheduled THEN "sleep" ELSE "over") /\ UNCHANGED faults
     \/ faults < MaxFaults /\ faults' = faults + 1 /\ Pc(l, "raised")
  /\ UNCHANGED <<running, connected, ws, delay, sock, timer, leaving, closed, refused, clean>>

Slept(l) ==
  /\ loop[l].pc = "sleep"
  /\ Pc(l, "top") /\ delay' = Grown
  /\ UNCHANGED <<running, connected, ws, sock, timer, leaving, closed, refused, clean, faults>>

\* disconnect() up to the await of close(), and after it.
Disconnect ==
  /\ closed < MaxClosed /\ leaving = NoSocket
  /\ running' = FALSE /\ connected' = FALSE
  /\ leaving' = ws
  /\ sock' = IF ws = NoSocket THEN sock ELSE [sock EXCEPT ![ws] = Shut(ws)]
  /\ closed' = closed + 1
  /\ UNCHANGED <<ws, delay, loop, timer, refused, clean, faults>>

Disconnected ==
  /\ leaving # NoSocket /\ sock[leaving] \in {"closing", "closed"}
  /\ leaving' = NoSocket /\ ws' = NoSocket
  /\ UNCHANGED <<running, connected, delay, sock, loop, timer, closed, refused, clean, faults>>

PyNext ==
  /\ lang = "py" /\ UNCHANGED <<lang, reconnect, logs>>
  /\ \/ \E l \in Loops :
          \/ PyConnect(l) \/ Top(l) \/ Opened(l) \/ Breaks(l) \/ CleanClose(l)
          \/ Dropped(l) \/ Breakdown(l) \/ Retry(l) \/ Slept(l)
     \/ Disconnect \/ Disconnected

-----------------------------------------------------------------------------

Init ==
  /\ lang \in Langs /\ reconnect \in BOOLEAN /\ logs \in Levels
  /\ running = FALSE /\ connected = FALSE /\ ws = NoSocket /\ delay = 0
  /\ sock = [s \in Sockets |-> "new"]
  /\ loop = [l \in Loops |-> [pc |-> "none", socket |-> NoSocket]]
  /\ timer = FALSE /\ leaving = NoSocket
  /\ closed = 0 /\ refused = 0 /\ clean = 0 /\ faults = 0

Next == TsNext \/ PyNext

Spec == Init /\ [][Next]_vars
-----------------------------------------------------------------------------

TypeOK ==
  /\ lang \in Langs /\ reconnect \in BOOLEAN /\ logs \in Levels
  /\ running \in BOOLEAN /\ connected \in BOOLEAN
  /\ ws \in Sockets \union {NoSocket} /\ leaving \in Sockets \union {NoSocket}
  /\ delay \in 0..MaxDelay
  /\ sock \in [Sockets -> SocketStates]
  /\ loop \in [Loops -> Loop]
  /\ timer \in BOOLEAN
  /\ closed \in 0..MaxClosed /\ faults \in 0..MaxFaults
  /\ refused \in Nat /\ clean \in Nat

Live == {s \in Sockets : sock[s] \in {"connecting", "open"}}
Calls == Cardinality({l \in Loops : loop[l].pc # "none"})

\* A client that is to stay connected never stops in silence: it has a socket whose end
\* it will hear of, a timer, a call of connect() that goes on, or one that raised to its
\* caller. In TypeScript, where the caller of connect() hears of nothing later, only a
\* factory that throws can stop it.
KeepsTrying ==
  running /\ reconnect =>
    \/ \E s \in Sockets : sock[s] \notin {"new", "closed"}
    \/ timer
    \/ \E l \in Loops : loop[l].pc \notin {"none", "over"}
    \/ lang = "ts" /\ faults > 0

\* A client has as many live sockets as connect() was called, however calls of close()
\* come in between, and in TypeScript one more for each first connection that failed,
\* when its error callback is slower than the timer. close() leaves none of a single,
\* successful connect().
SocketsExplained ==
  /\ Cardinality(Live) <= Calls + refused
  /\ lang = "ts" /\ ~running /\ Calls > 0 => Cardinality(Live) < Calls + refused
  /\ ~reconnect => Cardinality(Sockets \ Unmade) <= Calls + clean
=============================================================================
