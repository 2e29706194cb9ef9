--------------------------- MODULE LiveClientProofs ---------------------------
(***************************************************************************)
(* The clients never stop in silence and leak no sockets: for any sockets, *)
(* calls of connect() and close(), throwing callbacks and log levels.      *)
(***************************************************************************)
EXTENDS LiveClient, FiniteSetTheorems, TLAPS

\* Sockets that are not done with, that were made, and that are or may yet be connected.
Up(so) == {s \in Sockets : so[s] \notin {"new", "closed"}}
Used(so) == {s \in Sockets : so[s] # "new"}
On(so) == {s \in Sockets : so[s] \in {"connecting", "open"}}
\* Calls of connect(), and those at a place.
Begun(lp) == {l \in Loops : lp[l].pc # "none"}
At(lp, pc) == {l \in Loops : lp[l].pc = pc}
Timers == IF timer THEN 1 ELSE 0

\* Whatever may become a live socket without another connect() was paid for by a call, or
\* by the failure of its first connection.
Budget(so, n, lp, r) ==
  Cardinality(Up(so)) + n + Cardinality(At(lp, "callback")) <= Cardinality(Begun(lp)) + r
\* One live socket fewer than that, but for the one that close() would close.
Spare(so, w, lp, r) ==
  Cardinality(Begun(lp)) > 0 => Cardinality(On(so) \ {w}) < Cardinality(Begun(lp)) + r
\* Without reconnecting, connect() makes one socket, and one more after a clean close.
Few(so, lp, n) == Cardinality(Used(so)) + Cardinality(At(lp, "top")) <= Cardinality(Begun(lp)) + n
\* A live socket of the Python client belongs to a call that goes on.
Owned(so, lp) ==
  /\ \A l \in Loops : lp[l].pc \in {"dial", "listen", "leave"} => lp[l].socket \in Used(so)
  /\ \A s \in On(so) : \E l \in Loops : lp[l].pc \in {"dial", "listen", "leave"} /\ lp[l].socket = s

TsInv ==
  /\ timer => running /\ reconnect
  /\ ws # NoSocket => running
  /\ Budget(sock, Timers, loop, refused)
  /\ Spare(sock, ws, loop, refused)
PyInv == Owned(sock, loop)

Inv ==
  /\ TypeOK
  /\ lang = "ts" => TsInv
  /\ lang = "py" => PyInv
  /\ reconnect \/ (Few(sock, loop, clean) /\ At(loop, "sleep") = {})

-----------------------------------------------------------------------------
(* Types *)

LEMMA TimerTypes == ASSUME TypeOK PROVE Timers \in {0, 1} /\ (timer => Timers = 1) /\ (~timer => Timers = 0)
  BY DEF Timers

LEMMA ScheduleTypes ==
  ASSUME TypeOK, Schedule
  PROVE  timer' \in BOOLEAN /\ (timer' => timer \/ (running /\ reconnect)) /\ (timer \/ (running /\ reconnect) => timer')
  BY Zenon DEF TypeOK, Schedule, Scheduled

LEMMA InitTypes == Init => TypeOK
  <1> SUFFICES ASSUME Init PROVE TypeOK
    OBVIOUS
  <1>1. running \in BOOLEAN /\ connected \in BOOLEAN /\ timer \in BOOLEAN
    BY Zenon DEF Init
  <1>2. sock \in [Sockets -> SocketStates] /\ loop \in [Loops -> Loop]
    BY DEF Init, SocketStates, Loop
  <1>3. /\ delay \in 0..MaxDelay /\ closed \in 0..MaxClosed /\ faults \in 0..MaxFaults
        /\ refused \in Nat /\ clean \in Nat
    BY ConstantsAssumption DEF Init
  <1>4. /\ lang \in Langs /\ reconnect \in BOOLEAN /\ logs \in Levels
        /\ ws \in Sockets \union {NoSocket} /\ leaving \in Sockets \union {NoSocket}
    BY Zenon DEF Init
  <1> QED BY <1>1, <1>2, <1>3, <1>4 DEF TypeOK

LEMMA GrownTypes == TypeOK => Grown \in 0..MaxDelay
  BY ConstantsAssumption DEF TypeOK, Grown

LEMMA MadeTypes ==
  ASSUME TypeOK, NEW s \in Sockets \union {NoSocket}, Made(s)
  PROVE  /\ sock' \in [Sockets -> SocketStates] /\ ws' \in Sockets \union {NoSocket}
         /\ faults' \in 0..MaxFaults
  <1>1. CASE s \in Unmade /\ UNCHANGED faults /\ sock' = [sock EXCEPT ![s] = "connecting"] /\ ws' = s
    BY <1>1 DEF TypeOK, SocketStates
  <1>2. CASE s = NoSocket /\ faults < MaxFaults /\ faults' = faults + 1 /\ UNCHANGED <<sock, ws>>
    BY <1>2, ConstantsAssumption DEF TypeOK
  <1> QED BY <1>1, <1>2 DEF Made

LEMMA ToldTypes ==
  ASSUME TypeOK, NEW s \in Sockets, NEW pc \in {"over", "callback"}, Told(s, pc)
  PROVE  loop' \in [Loops -> Loop]
  <1>1. \A l \in Loops : loop[l] \in Loop
    BY DEF TypeOK
  <1>2. \A l \in Loops : (IF l \in WaitingFor(s) THEN [loop[l] EXCEPT !.pc = pc] ELSE loop[l]) \in Loop
    BY <1>1 DEF Loop
  <1> QED BY <1>2 DEF Told

LEMMA PcTypes ==
  ASSUME TypeOK, NEW l \in Loops,
         NEW pc \in {"callback", "top", "dial", "listen", "leave", "sleep", "over", "raised"},
         Pc(l, pc)
  PROVE  loop' \in [Loops -> Loop]
  <1>1. loop[l] \in Loop
    BY DEF TypeOK
  <1>2. [loop[l] EXCEPT !.pc = pc] \in Loop
    BY <1>1 DEF Loop
  <1> QED BY <1>2 DEF TypeOK, Pc

LEMMA ShutTypes == TypeOK => \A s \in Sockets : Shut(s) \in SocketStates
  BY DEF TypeOK, Shut, SocketStates

LEMMA WaitingTypes == \A s : IsFiniteSet(WaitingFor(s)) /\ Cardinality(WaitingFor(s)) \in Nat
  <1> TAKE s
  <1>1. WaitingFor(s) \in SUBSET Loops
    BY DEF WaitingFor
  <1> QED BY <1>1, FS_Subset, FS_CardinalityType, ConstantsAssumption

LEMMA TsTypes == TypeOK /\ TsNext => TypeOK'
  <1> SUFFICES ASSUME TypeOK, TsNext PROVE TypeOK'
    OBVIOUS
  <1>a. UNCHANGED <<lang, reconnect, logs>>
    BY DEF TsNext
  <1>1. ASSUME NEW l \in Loops, TsConnect(l) PROVE TypeOK'
    <2>1. PICK s \in Sockets \union {NoSocket} :
            /\ Made(s)
            /\ loop' = [loop EXCEPT ![l] = [pc |-> IF s = NoSocket THEN "callback" ELSE "first", socket |-> s]]
      BY <1>1 DEF TsConnect
    <2>2. [pc |-> IF s = NoSocket THEN "callback" ELSE "first", socket |-> s] \in Loop
      BY DEF Loop
    <2>3. loop' \in [Loops -> Loop]
      BY <2>1, <2>2 DEF TypeOK
    <2>4. running' \in BOOLEAN /\ delay' \in 0..MaxDelay
      BY <1>1, ConstantsAssumption DEF TsConnect
    <2>5. UNCHANGED <<connected, timer, leaving, closed, refused, clean>>
      BY <1>1 DEF TsConnect
    <2> QED BY <1>a, <2>1, <2>3, <2>4, <2>5, MadeTypes DEF TypeOK
  <1>2. ASSUME NEW l \in Loops, Caught(l) PROVE TypeOK'
    <2>1. loop' \in [Loops -> Loop]
      BY <1>2, PcTypes DEF Caught
    <2>2. timer' \in BOOLEAN
      BY <1>2, ScheduleTypes DEF Caught
    <2> QED BY <1>a, <1>2, <2>1, <2>2 DEF TypeOK, Caught
  <1>3. ASSUME NEW s \in Sockets, OnOpen(s) PROVE TypeOK'
    <2>1. loop' \in [Loops -> Loop]
      BY <1>3, ToldTypes DEF OnOpen
    <2>2. sock' \in [Sockets -> SocketStates]
      BY <1>3 DEF OnOpen, TypeOK, SocketStates
    <2>3. connected' \in BOOLEAN /\ delay' \in 0..MaxDelay
      BY <1>3, ConstantsAssumption DEF OnOpen
    <2> QED BY <1>a, <1>3, <2>1, <2>2, <2>3 DEF TypeOK, OnOpen
  <1>4. ASSUME NEW s \in Sockets, OnError(s) \/ OnClose(s) PROVE TypeOK'
    <2>1. loop' \in [Loops -> Loop]
      BY <1>4, ToldTypes DEF OnError, OnClose, TypeOK
    <2>2. sock' \in [Sockets -> SocketStates]
      BY <1>4 DEF OnError, OnClose, TypeOK, SocketStates
    <2>3. timer' \in BOOLEAN /\ connected' \in BOOLEAN /\ ws' \in Sockets \union {NoSocket}
      BY <1>4, ScheduleTypes DEF OnError, OnClose, Lost
    <2>4. refused' \in Nat
      BY <1>4, WaitingTypes DEF OnError, OnClose, TypeOK
    <2>5. UNCHANGED <<running, delay, leaving, closed, clean, faults>>
      BY <1>4 DEF OnError, OnClose
    <2> QED BY <1>a, <2>1, <2>2, <2>3, <2>4, <2>5 DEF TypeOK
  <1>5. ASSUME TsClose PROVE TypeOK'
    <2>1. sock' \in [Sockets -> SocketStates]
      BY <1>5, ShutTypes DEF TsClose, TypeOK
    <2>2. closed' \in 0..MaxClosed
      BY <1>5, ConstantsAssumption DEF TsClose, TypeOK
    <2>3. running' \in BOOLEAN /\ connected' \in BOOLEAN /\ timer' \in BOOLEAN /\ ws' \in Sockets \union {NoSocket}
      BY <1>5 DEF TsClose
    <2> QED BY <1>a, <1>5, <2>1, <2>2, <2>3 DEF TypeOK, TsClose
  <1>6. ASSUME TimerFires PROVE TypeOK'
    <2>1. PICK s \in Sockets \union {NoSocket} : Made(s)
      BY <1>6 DEF TimerFires
    <2>2. timer' \in BOOLEAN /\ delay' \in 0..MaxDelay
      BY <1>6, GrownTypes DEF TimerFires
    <2> QED BY <1>a, <1>6, <2>1, <2>2, MadeTypes DEF TypeOK, TimerFires
  <1> QED BY <1>1, <1>2, <1>3, <1>4, <1>5, <1>6 DEF TsNext

LEMMA PyTypes ==
  ASSUME TypeOK, PyInv, PyNext
  PROVE  TypeOK'
  <1>a. UNCHANGED <<lang, reconnect, logs>>
    BY DEF PyNext
  <1>b. \A s : \A x \in SocketStates : [sock EXCEPT ![s] = x] \in [Sockets -> SocketStates]
    BY DEF TypeOK
  <1>1. ASSUME NEW l \in Loops, PyConnect(l) PROVE TypeOK'
    <2>1. loop' \in [Loops -> Loop]
      BY <1>1, PcTypes DEF PyConnect
    <2>2. running' \in BOOLEAN /\ delay' \in 0..MaxDelay
      BY <1>1, ConstantsAssumption DEF PyConnect
    <2> QED BY <1>a, <1>1, <2>1, <2>2 DEF TypeOK, PyConnect
  <1>2. ASSUME NEW l \in Loops, Top(l) PROVE TypeOK'
    <2>1. UNCHANGED <<running, connected, ws, delay, timer, leaving, closed, refused, clean, faults>>
      BY <1>2 DEF Top
    <2>2. sock' \in [Sockets -> SocketStates] /\ loop' \in [Loops -> Loop]
      <3>1. CASE running
        <4>1. PICK s \in Unmade : /\ sock' = [sock EXCEPT ![s] = "connecting"]
                                  /\ loop' = [loop EXCEPT ![l] = [pc |-> "dial", socket |-> s]]
          BY <1>2, <3>1 DEF Top
        <4>2. [pc |-> "dial", socket |-> s] \in Loop
          BY DEF Loop, Unmade
        <4> QED BY <4>1, <4>2, <1>b DEF TypeOK, SocketStates
      <3>2. CASE ~running
        <4>1. Pc(l, "over") /\ UNCHANGED sock
          BY <1>2, <3>2 DEF Top
        <4> QED BY <4>1, PcTypes DEF TypeOK
      <3> QED BY <3>1, <3>2
    <2> QED BY <1>a, <2>1, <2>2 DEF TypeOK
  <1>3. ASSUME NEW l \in Loops, Opened(l) PROVE TypeOK'
    <2>1. loop' \in [Loops -> Loop] /\ sock' \in [Sockets -> SocketStates]
      <3>1. CASE logs = "all"
        BY <1>3, <1>b, <3>1, PcTypes DEF Opened, SocketStates
      <3>2. CASE logs # "all"
        BY <1>3, <1>b, <3>2, PcTypes DEF Opened, SocketStates
      <3> QED BY <3>1, <3>2
    <2>2. ws' \in Sockets
      BY <1>3 DEF Opened, PyInv, Owned, Used
    <2>3. connected' \in BOOLEAN /\ delay' \in 0..MaxDelay
      BY <1>3, ConstantsAssumption DEF Opened
    <2> QED BY <1>a, <1>3, <2>1, <2>2, <2>3 DEF TypeOK, Opened
  <1>4. ASSUME NEW l \in Loops, Breaks(l) \/ CleanClose(l) PROVE TypeOK'
    <2>1. loop' \in [Loops -> Loop] /\ sock' \in [Sockets -> SocketStates]
      BY <1>4, <1>b, PcTypes DEF Breaks, CleanClose, SocketStates
    <2>2. clean' \in Nat
      BY <1>4 DEF Breaks, CleanClose, TypeOK
    <2>3. UNCHANGED <<running, connected, ws, delay, timer, leaving, closed, refused, faults>>
      BY <1>4 DEF Breaks, CleanClose
    <2> QED BY <1>a, <2>1, <2>2, <2>3 DEF TypeOK
  <1>5. ASSUME NEW l \in Loops, Dropped(l) \/ Breakdown(l) PROVE TypeOK'
    <2>1. PICK pc \in {"callback", "raised"} : Pc(l, pc)
      BY <1>5 DEF Dropped, Breakdown
    <2>2. loop' \in [Loops -> Loop]
      BY <2>1, PcTypes
    <2>3. sock' \in [Sockets -> SocketStates]
      BY <1>5, <1>b DEF Dropped, Breakdown, SocketStates
    <2>4. connected' \in BOOLEAN /\ ws' \in Sockets \union {NoSocket}
      BY <1>5 DEF Dropped, Breakdown
    <2>5. UNCHANGED <<running, delay, timer, leaving, closed, refused, clean, faults>>
      BY <1>5 DEF Dropped, Breakdown
    <2> QED BY <1>a, <2>2, <2>3, <2>4, <2>5 DEF TypeOK
  <1>6. ASSUME NEW l \in Loops, Retry(l) PROVE TypeOK'
    <2>1. loop' \in [Loops -> Loop]
      <3>1. CASE Scheduled
        BY <1>6, <3>1, PcTypes DEF Retry
      <3>2. CASE ~Scheduled
        BY <1>6, <3>2, PcTypes DEF Retry
      <3> QED BY <3>1, <3>2
    <2>2. faults' \in 0..MaxFaults
      BY <1>6, ConstantsAssumption DEF Retry, TypeOK
    <2>3. UNCHANGED <<running, connected, ws, delay, sock, timer, leaving, closed, refused, clean>>
      BY <1>6 DEF Retry
    <2> QED BY <1>a, <2>1, <2>2, <2>3 DEF TypeOK
  <1>7. ASSUME NEW l \in Loops, Slept(l) PROVE TypeOK'
    <2>1. loop' \in [Loops -> Loop] /\ delay' \in 0..MaxDelay
      BY <1>7, PcTypes, GrownTypes DEF Slept
    <2> QED BY <1>a, <1>7, <2>1 DEF TypeOK, Slept
  <1>8. ASSUME Disconnect PROVE TypeOK'
    <2>1. sock' \in [Sockets -> SocketStates]
      BY <1>8, ShutTypes DEF Disconnect, TypeOK
    <2>2. closed' \in 0..MaxClosed
      BY <1>8, ConstantsAssumption DEF Disconnect, TypeOK
    <2>3. running' \in BOOLEAN /\ connected' \in BOOLEAN
      BY <1>8 DEF Disconnect
    <2>4. leaving' \in Sockets \union {NoSocket}
      BY <1>8 DEF Disconnect, TypeOK
    <2> QED BY <1>a, <1>8, <2>1, <2>2, <2>3, <2>4 DEF TypeOK, Disconnect
  <1>9. ASSUME Disconnected PROVE TypeOK'
    BY <1>a, <1>9 DEF TypeOK, Disconnected
  <1> QED BY <1>1, <1>2, <1>3, <1>4, <1>5, <1>6, <1>7, <1>8, <1>9 DEF PyNext

-----------------------------------------------------------------------------
(* Counting sockets and calls *)

LEMMA FiniteSockets ==
  ASSUME NEW so
  PROVE  /\ IsFiniteSet(Up(so)) /\ IsFiniteSet(Used(so))
         /\ Cardinality(Up(so)) \in Nat /\ Cardinality(Used(so)) \in Nat
  <1>1. Up(so) \in SUBSET Sockets /\ Used(so) \in SUBSET Sockets
    BY DEF Up, Used
  <1> QED BY <1>1, FS_Subset, FS_CardinalityType, ConstantsAssumption

LEMMA FiniteLive ==
  ASSUME NEW so, NEW w
  PROVE  /\ IsFiniteSet(On(so) \ {w}) /\ Cardinality(On(so) \ {w}) \in Nat
         /\ Cardinality(On(so) \ {w}) <= Cardinality(Up(so))
  <1>1. On(so) \ {w} \in SUBSET Up(so)
    BY DEF On, Up
  <1> QED BY <1>1, FiniteSockets, FS_Subset, FS_CardinalityType

LEMMA FiniteLoops ==
  ASSUME NEW lp
  PROVE  /\ IsFiniteSet(Begun(lp)) /\ Cardinality(Begun(lp)) \in Nat
         /\ \A pc : IsFiniteSet(At(lp, pc)) /\ Cardinality(At(lp, pc)) \in Nat
  <1>1. Begun(lp) \in SUBSET Loops /\ \A pc : At(lp, pc) \in SUBSET Loops
    BY DEF Begun, At
  <1> QED BY <1>1, FS_Subset, FS_CardinalityType, ConstantsAssumption

LEMMA SocketMade ==
  ASSUME NEW so \in [Sockets -> SocketStates], NEW s \in Sockets, NEW sp, so[s] = "new",
         sp = [so EXCEPT ![s] = "connecting"]
  PROVE  /\ Cardinality(Up(sp)) = Cardinality(Up(so)) + 1
         /\ Cardinality(Used(sp)) = Cardinality(Used(so)) + 1
         /\ On(sp) = On(so) \union {s} /\ s \notin On(so)
  <1>1. Up(sp) = Up(so) \union {s} /\ s \notin Up(so)
    BY DEF Up
  <1>2. Used(sp) = Used(so) \union {s} /\ s \notin Used(so)
    BY DEF Used
  <1>3. On(sp) = On(so) \union {s} /\ s \notin On(so)
    BY DEF On
  <1> QED BY <1>1, <1>2, <1>3, FiniteSockets, FS_AddElement

LEMMA SocketTurns ==
  ASSUME NEW so \in [Sockets -> SocketStates], NEW s \in Sockets, NEW sp, so[s] \notin {"new", "closed"},
         NEW x, x \notin {"new", "closed"}, sp = [so EXCEPT ![s] = x]
  PROVE  /\ Up(sp) = Up(so) /\ Used(sp) = Used(so)
         /\ x \notin {"connecting", "open"} => On(sp) = On(so) \ {s}
         /\ x \in {"connecting", "open"} => On(sp) = On(so) \union {s}
  BY DEF Up, Used, On

LEMMA SocketEnds ==
  ASSUME NEW so \in [Sockets -> SocketStates], NEW s \in Sockets, NEW sp, so[s] # "new",
         sp = [so EXCEPT ![s] = "closed"]
  PROVE  /\ so[s] # "closed" => Cardinality(Up(sp)) = Cardinality(Up(so)) - 1
         /\ Used(sp) = Used(so) /\ On(sp) = On(so) \ {s}
  <1>1. Up(sp) = Up(so) \ {s} /\ (so[s] # "closed" => s \in Up(so))
    BY DEF Up
  <1>2. Used(sp) = Used(so) /\ On(sp) = On(so) \ {s}
    BY DEF Used, On
  <1> QED BY <1>1, <1>2, FiniteSockets, FS_RemoveElement

\* One call moves on.
LEMMA LoopBegins ==
  ASSUME NEW lp, NEW lq, NEW l \in Loops, \A k \in Loops \ {l} : lq[k].pc = lp[k].pc, lq[l].pc # "none"
  PROVE  /\ lp[l].pc = "none" => Cardinality(Begun(lq)) = Cardinality(Begun(lp)) + 1
         /\ lp[l].pc # "none" => Begun(lq) = Begun(lp)
  <1>1. lp[l].pc = "none" => Begun(lq) = Begun(lp) \union {l} /\ l \notin Begun(lp)
    BY DEF Begun
  <1>2. lp[l].pc # "none" => Begun(lq) = Begun(lp)
    BY DEF Begun
  <1> QED BY <1>1, <1>2, FiniteLoops, FS_AddElement

LEMMA LoopArrives ==
  ASSUME NEW lp, NEW lq, NEW l \in Loops, \A k \in Loops \ {l} : lq[k].pc = lp[k].pc,
         NEW pc, lp[l].pc # pc, lq[l].pc = pc
  PROVE  Cardinality(At(lq, pc)) = Cardinality(At(lp, pc)) + 1
  <1>1. At(lq, pc) = At(lp, pc) \union {l} /\ l \notin At(lp, pc)
    BY DEF At
  <1>2. IsFiniteSet(At(lp, pc))
    BY FiniteLoops
  <1> QED BY <1>1, <1>2, FS_AddElement

LEMMA LoopLeaves ==
  ASSUME NEW lp, NEW lq, NEW l \in Loops, \A k \in Loops \ {l} : lq[k].pc = lp[k].pc,
         NEW pc, lp[l].pc = pc, lq[l].pc # pc
  PROVE  Cardinality(At(lq, pc)) = Cardinality(At(lp, pc)) - 1
  <1>1. At(lq, pc) = At(lp, pc) \ {l} /\ l \in At(lp, pc)
    BY DEF At
  <1>2. IsFiniteSet(At(lp, pc))
    BY FiniteLoops
  <1> QED BY <1>1, <1>2, FS_RemoveElement

LEMMA LoopPasses ==
  ASSUME NEW lp, NEW lq, NEW l \in Loops, \A k \in Loops \ {l} : lq[k].pc = lp[k].pc,
         NEW pc, lp[l].pc # pc, lq[l].pc # pc
  PROVE  At(lq, pc) = At(lp, pc)
  BY DEF At

\* The calls that wait for a socket are told.
LEMMA LoopsTold ==
  ASSUME TypeOK, NEW s \in Sockets, NEW pc \in {"over", "callback"}, Told(s, pc)
  PROVE  /\ Begun(loop') = Begun(loop) /\ At(loop', "top") = At(loop, "top")
         /\ At(loop', "sleep") = At(loop, "sleep")
         /\ pc = "over" => At(loop', "callback") = At(loop, "callback")
         /\ pc = "callback" =>
              Cardinality(At(loop', "callback")) = Cardinality(At(loop, "callback")) + Cardinality(WaitingFor(s))
  <1>1. PICK lp, lq, W : lp = loop /\ lq = loop' /\ W = WaitingFor(s)
    OBVIOUS
  <1>2. /\ lp \in [Loops -> Loop] /\ W \in SUBSET Loops /\ \A l \in W : lp[l].pc = "first"
        /\ lq = [l \in Loops |-> IF l \in W THEN [lp[l] EXCEPT !.pc = pc] ELSE lp[l]]
    BY <1>1 DEF TypeOK, Told, WaitingFor
  <1>3. \A l \in Loops : lq[l].pc = IF l \in W THEN pc ELSE lp[l].pc
    BY <1>2 DEF Loop
  <1>4. /\ Begun(lq) = Begun(lp) /\ At(lq, "top") = At(lp, "top") /\ At(lq, "sleep") = At(lp, "sleep")
        /\ pc = "over" => At(lq, "callback") = At(lp, "callback")
    BY <1>2, <1>3 DEF Begun, At
  <1>5. ASSUME pc = "callback"
        PROVE  At(lq, "callback") = At(lp, "callback") \union W /\ At(lp, "callback") \intersect W = {}
    BY <1>2, <1>3, <1>5 DEF At
  <1>6. IsFiniteSet(W) /\ Cardinality(W) \in Nat
    BY <1>1, WaitingTypes
  <1>7. ASSUME pc = "callback"
        PROVE  Cardinality(At(lq, "callback")) = Cardinality(At(lp, "callback")) + Cardinality(W)
    <2>1. Cardinality(At(lp, "callback") \union W) =
            Cardinality(At(lp, "callback")) + Cardinality(W) - Cardinality(At(lp, "callback") \intersect W)
      BY <1>6, FiniteLoops, FS_Union
    <2>2. Cardinality(At(lp, "callback") \intersect W) = 0
      BY <1>5, <1>7, FS_EmptySet
    <2>3. Cardinality(At(lp, "callback")) \in Nat
      BY FiniteLoops
    <2>4. At(lq, "callback") = At(lp, "callback") \union W
      BY <1>5, <1>7
    <2>5. Cardinality(At(lq, "callback")) = Cardinality(At(lp, "callback")) + Cardinality(W) - 0
      BY <2>1, <2>2, <2>4
    <2> QED BY <1>6, <2>3, <2>5
  <1> QED BY <1>1, <1>4, <1>7

-----------------------------------------------------------------------------
(* The TypeScript client *)

\* Without reconnecting there are few sockets, in either language.
FewInv == reconnect \/ (Few(sock, loop, clean) /\ At(loop, "sleep") = {})

LEMMA TsConnectStep ==
  ASSUME TypeOK, TypeOK', TsInv, FewInv, UNCHANGED reconnect, NEW l \in Loops, TsConnect(l)
  PROVE  TsInv' /\ FewInv'
  <1>1. PICK s \in Sockets \union {NoSocket} :
          /\ Made(s)
          /\ loop' = [loop EXCEPT ![l] = [pc |-> IF s = NoSocket THEN "callback" ELSE "first", socket |-> s]]
    BY DEF TsConnect
  <1>2. PICK so, sp, lp, lq, w, v, r, n : /\ so = sock /\ sp = sock' /\ lp = loop /\ lq = loop'
                                        /\ w = ws /\ v = ws' /\ r = refused /\ n = Timers
    OBVIOUS
  <1>3. /\ UNCHANGED <<timer, refused, clean>> /\ running' = TRUE /\ lp[l].pc = "none"
        /\ r \in Nat /\ n \in {0, 1} /\ Timers' = n
    BY <1>2, TimerTypes DEF TsConnect, TypeOK, Timers
  <1>4. /\ \A k \in Loops \ {l} : lq[k].pc = lp[k].pc
        /\ lq[l].pc = IF s = NoSocket THEN "callback" ELSE "first"
    BY <1>1, <1>2 DEF TypeOK
  <1>5. /\ Cardinality(Begun(lq)) = Cardinality(Begun(lp)) + 1
        /\ Cardinality(At(lq, "callback")) = Cardinality(At(lp, "callback")) + IF s = NoSocket THEN 1 ELSE 0
        /\ At(lq, "top") = At(lp, "top") /\ At(lq, "sleep") = At(lp, "sleep")
    <2>1. lq[l].pc \notin {"none", "top", "sleep"}
      BY <1>4
    <2>2. At(lq, "top") = At(lp, "top") /\ At(lq, "sleep") = At(lp, "sleep")
      BY <1>3, <1>4, <2>1 DEF At
    <2>3. Cardinality(Begun(lq)) = Cardinality(Begun(lp)) + 1
      BY <1>3, <1>4, <2>1, LoopBegins
    <2>4. lq[l].pc = "callback" => Cardinality(At(lq, "callback")) = Cardinality(At(lp, "callback")) + 1
      BY <1>3, <1>4, LoopArrives
    <2>5. lq[l].pc # "callback" => At(lq, "callback") = At(lp, "callback")
      BY <1>3, <1>4, LoopPasses
    <2> QED BY <1>4, <2>2, <2>3, <2>4, <2>5, FiniteLoops
  <1>6. /\ Cardinality(Up(sp)) = Cardinality(Up(so)) + IF s = NoSocket THEN 0 ELSE 1
        /\ Cardinality(Used(sp)) <= Cardinality(Used(so)) + 1
        /\ Cardinality(On(sp) \ {v}) <= Cardinality(Up(so))
    <2>1. CASE s \in Unmade /\ sp = [so EXCEPT ![s] = "connecting"] /\ v = s
      <3>1. so \in [Sockets -> SocketStates] /\ so[s] = "new" /\ s \in Sockets /\ s # NoSocket
        BY <1>2, <2>1, ConstantsAssumption DEF TypeOK, Unmade
      <3>2. On(sp) \ {v} = On(so) \ {v}
        BY <2>1, <3>1, SocketMade
      <3>3. /\ Cardinality(Up(sp)) = Cardinality(Up(so)) + 1
            /\ Cardinality(Used(sp)) = Cardinality(Used(so)) + 1
        BY <2>1, <3>1, SocketMade
      <3>4. Cardinality(On(sp) \ {v}) <= Cardinality(Up(so))
        BY <3>2, FiniteLive
      <3> QED BY <3>1, <3>3, <3>4, FiniteSockets
    <2>2. CASE s = NoSocket /\ sp = so
      <3>1. Cardinality(On(sp) \ {v}) <= Cardinality(Up(so))
        BY <2>2, FiniteLive
      <3> QED BY <2>2, <3>1, FiniteSockets
    <2> QED BY <1>1, <1>2, <2>1, <2>2 DEF Made
  <1>7. Budget(so, n, lp, r)
    BY <1>2 DEF TsInv
  <1>8. Budget(sp, n, lq, r)
    BY <1>3, <1>5, <1>6, <1>7, FiniteSockets, FiniteLoops DEF Budget
  <1>9. Spare(sp, v, lq, r)
    <2>1. Cardinality(Up(so)) <= Cardinality(Begun(lp)) + r
      BY <1>3, <1>7, FiniteSockets, FiniteLoops DEF Budget
    <2>2. Cardinality(On(sp) \ {v}) \in Nat /\ Cardinality(Up(so)) \in Nat
      BY FiniteSockets, FiniteLive
    <2> QED BY <1>3, <1>5, <1>6, <2>1, <2>2, FiniteLoops DEF Spare
  <1>10. FewInv'
    <2>1. CASE reconnect
      BY <2>1 DEF FewInv
    <2>2. CASE ~reconnect
      <3>1. PICK c \in Nat : c = clean /\ c = clean'
        BY <1>3 DEF TypeOK
      <3>2. Few(so, lp, c) /\ At(lp, "sleep") = {}
        BY <1>2, <2>2, <3>1 DEF FewInv
      <3>3. Few(sp, lq, c) /\ At(lq, "sleep") = {}
        BY <1>5, <1>6, <3>1, <3>2, FiniteSockets, FiniteLoops DEF Few
      <3> QED BY <1>2, <3>1, <3>3 DEF FewInv
    <2> QED BY <2>1, <2>2
  <1>11. (timer' => running' /\ reconnect') /\ (ws' # NoSocket => running')
    BY <1>3 DEF TsInv
  <1> QED BY <1>2, <1>3, <1>8, <1>9, <1>10, <1>11 DEF TsInv

LEMMA CaughtStep ==
  ASSUME TypeOK, TypeOK', TsInv, FewInv, UNCHANGED reconnect, NEW l \in Loops, Caught(l)
  PROVE  TsInv' /\ FewInv'
  <1>1. PICK so, lp, lq, w, r, n, m : /\ so = sock /\ lp = loop /\ lq = loop'
                                    /\ w = ws /\ r = refused /\ n = Timers /\ m = Timers'
    OBVIOUS
  <1>2. UNCHANGED <<running, ws, sock, refused, clean>> /\ lp[l].pc = "callback"
    BY <1>1 DEF Caught
  <1>3. r \in Nat /\ n \in {0, 1} /\ m \in {0, 1}
    BY <1>1, TimerTypes DEF TypeOK, Timers
  <1>4. (\A k \in Loops \ {l} : lq[k].pc = lp[k].pc) /\ lq[l].pc = "over"
    BY <1>1 DEF Caught, Pc, TypeOK, Loop
  <1>5. /\ Cardinality(Begun(lq)) = Cardinality(Begun(lp))
        /\ Cardinality(At(lq, "callback")) = Cardinality(At(lp, "callback")) - 1
        /\ At(lq, "top") = At(lp, "top") /\ At(lq, "sleep") = At(lp, "sleep")
    <2>1. At(lq, "top") = At(lp, "top") /\ At(lq, "sleep") = At(lp, "sleep")
      BY <1>2, <1>4 DEF At
    <2>2. Begun(lq) = Begun(lp)
      BY <1>2, <1>4, LoopBegins
    <2>3. Cardinality(At(lq, "callback")) = Cardinality(At(lp, "callback")) - 1
      BY <1>2, <1>4, LoopLeaves
    <2> QED BY <2>1, <2>2, <2>3
  <1>6. Budget(so, n, lp, r) /\ Spare(so, w, lp, r)
    BY <1>1 DEF TsInv
  <1>7. Budget(so, m, lq, r) /\ Spare(so, w, lq, r)
    BY <1>3, <1>5, <1>6, FiniteSockets, FiniteLoops DEF Budget, Spare
  <1>8. FewInv'
    <2>1. CASE reconnect
      BY <2>1 DEF FewInv
    <2>2. CASE ~reconnect
      BY <1>1, <1>2, <1>5, <2>2 DEF FewInv, Few
    <2> QED BY <2>1, <2>2
  <1>9. (timer' => running' /\ reconnect') /\ (ws' # NoSocket => running')
    BY <1>2, ScheduleTypes DEF Caught, TsInv
  <1> QED BY <1>1, <1>2, <1>7, <1>8, <1>9 DEF TsInv

LEMMA OnOpenStep ==
  ASSUME TypeOK, TypeOK', TsInv, FewInv, UNCHANGED reconnect, NEW s \in Sockets, OnOpen(s)
  PROVE  TsInv' /\ FewInv'
  <1>1. UNCHANGED <<running, ws, timer, refused, clean>> /\ Timers' = Timers
    BY DEF OnOpen, Timers
  <1>2. Up(sock') = Up(sock) /\ Used(sock') = Used(sock) /\ On(sock') = On(sock)
    <2>1. sock \in [Sockets -> SocketStates] /\ sock[s] = "connecting" /\ sock' = [sock EXCEPT ![s] = "open"]
      BY DEF OnOpen, TypeOK
    <2>2. s \in On(sock)
      BY <2>1 DEF On
    <2>3. On(sock) \union {s} = On(sock)
      BY <2>2
    <2>4. PICK so, sp : so = sock /\ sp = sock'
      OBVIOUS
    <2>5. Up(sp) = Up(so) /\ Used(sp) = Used(so) /\ On(sp) = On(so) \union {s}
      BY <2>1, <2>4, SocketTurns
    <2> QED BY <2>3, <2>4, <2>5
  <1>3. /\ Begun(loop') = Begun(loop) /\ At(loop', "top") = At(loop, "top")
        /\ At(loop', "sleep") = At(loop, "sleep") /\ At(loop', "callback") = At(loop, "callback")
    BY LoopsTold DEF OnOpen
  <1>4. Budget(sock', Timers', loop', refused') /\ Spare(sock', ws', loop', refused')
    BY <1>1, <1>2, <1>3 DEF TsInv, Budget, Spare
  <1>5. FewInv'
    <2>1. CASE reconnect
      BY <2>1 DEF FewInv
    <2>2. CASE ~reconnect
      BY <1>1, <1>2, <1>3, <2>2 DEF FewInv, Few
    <2> QED BY <2>1, <2>2
  <1>6. (timer' => running' /\ reconnect') /\ (ws' # NoSocket => running')
    BY <1>1 DEF TsInv
  <1> QED BY <1>4, <1>5, <1>6 DEF TsInv

\* The end of a socket pays for the timer it sets, a first connection's also for the
\* second time that it is set.
LEMMA EndStep ==
  ASSUME TypeOK, TypeOK', TsInv, FewInv, UNCHANGED reconnect, NEW s \in Sockets, OnError(s) \/ OnClose(s)
  PROVE  TsInv' /\ FewInv'
  <1>1. PICK so, sp, lp, lq, w, r, q, n, m : /\ so = sock /\ sp = sock' /\ lp = loop /\ lq = loop'
                                           /\ w = ws /\ r = refused /\ q = refused'
                                           /\ n = Timers /\ m = Timers'
    OBVIOUS
  <1>2. UNCHANGED <<running, clean>> /\ ws' = NoSocket /\ Schedule
    BY DEF OnError, OnClose, Lost
  <1>3. r \in Nat /\ q \in Nat /\ n \in {0, 1} /\ m \in {0, 1}
    BY <1>1, TimerTypes DEF TypeOK, Timers
  <1>4. /\ so \in [Sockets -> SocketStates] /\ so[s] \notin {"new", "closed"}
        /\ sp = [so EXCEPT ![s] = "closed"]
    BY <1>1 DEF OnError, OnClose, TypeOK
  <1>5. /\ Cardinality(Up(sp)) = Cardinality(Up(so)) - 1 /\ Used(sp) = Used(so)
        /\ On(sp) = On(so) \ {s}
    BY <1>4, SocketEnds
  <1>6. /\ Begun(lq) = Begun(lp) /\ At(lq, "top") = At(lp, "top") /\ At(lq, "sleep") = At(lp, "sleep")
        /\ Cardinality(At(lq, "callback")) - Cardinality(At(lp, "callback")) = q - r /\ q >= r
    <2>1. CASE OnError(s)
      <3>1. /\ q = r + Cardinality(WaitingFor(s)) /\ Cardinality(WaitingFor(s)) \in Nat
            /\ Told(s, "callback")
        BY <1>1, <2>1, WaitingTypes DEF OnError
      <3>2. /\ Begun(lq) = Begun(lp) /\ At(lq, "top") = At(lp, "top") /\ At(lq, "sleep") = At(lp, "sleep")
            /\ Cardinality(At(lq, "callback")) = Cardinality(At(lp, "callback")) + Cardinality(WaitingFor(s))
        BY <1>1, <3>1, LoopsTold
      <3>3. Cardinality(At(lp, "callback")) \in Nat
        BY FiniteLoops
      <3> QED BY <1>3, <3>1, <3>2, <3>3
    <2>2. CASE OnClose(s)
      <3>1. q = r /\ lq = lp
        BY <1>1, <2>2 DEF OnClose
      <3>2. Cardinality(At(lp, "callback")) \in Nat
        BY FiniteLoops
      <3> QED BY <1>3, <3>1, <3>2
    <2> QED BY <2>1, <2>2
  <1>7. Budget(so, n, lp, r)
    BY <1>1 DEF TsInv
  <1>8. Budget(sp, m, lq, q)
    BY <1>3, <1>5, <1>6, <1>7, FiniteSockets, FiniteLoops DEF Budget
  <1>9. Spare(sp, NoSocket, lq, q)
    <2>1. Cardinality(On(sp) \ {NoSocket}) <= Cardinality(Up(sp))
      BY FiniteLive
    <2>2. Cardinality(Up(so)) <= Cardinality(Begun(lp)) + r
      BY <1>3, <1>7, FiniteSockets, FiniteLoops DEF Budget
    <2>3. Cardinality(On(sp) \ {NoSocket}) \in Nat /\ Cardinality(Up(so)) \in Nat
      BY FiniteSockets, FiniteLive
    <2> QED BY <1>3, <1>5, <1>6, <2>1, <2>2, <2>3, FiniteLoops DEF Spare
  <1>10. FewInv'
    <2>1. CASE reconnect
      BY <2>1 DEF FewInv
    <2>2. CASE ~reconnect
      BY <1>1, <1>2, <1>5, <1>6, <2>2 DEF FewInv, Few
    <2> QED BY <2>1, <2>2
  <1>11. (timer' => running' /\ reconnect') /\ (ws' # NoSocket => running')
    BY <1>2, ScheduleTypes DEF TsInv
  <1> QED BY <1>1, <1>2, <1>8, <1>9, <1>10, <1>11 DEF TsInv

LEMMA TsCloseStep ==
  ASSUME TypeOK, TypeOK', TsInv, FewInv, UNCHANGED reconnect, TsClose
  PROVE  TsInv' /\ FewInv'
  <1>1. PICK so, sp, lp, w, r, n : so = sock /\ sp = sock' /\ lp = loop /\ w = ws /\ r = refused /\ n = Timers
    OBVIOUS
  <1>2. UNCHANGED <<loop, refused, clean>> /\ timer' = FALSE /\ ws' = NoSocket /\ Timers' = 0
    BY DEF TsClose, Timers
  <1>3. r \in Nat /\ n \in {0, 1}
    BY <1>1, TimerTypes DEF TypeOK
  <1>4. Up(sp) = Up(so) /\ Used(sp) = Used(so) /\ On(sp) \subseteq On(so) \ {w}
    <2>1. CASE w = NoSocket
      <3>1. NoSocket \notin On(so)
        BY ConstantsAssumption DEF On
      <3> QED BY <1>1, <2>1, <3>1 DEF TsClose
    <2>2. CASE w # NoSocket
      <3>1. so \in [Sockets -> SocketStates] /\ w \in Sockets /\ sp = [so EXCEPT ![w] = Shut(w)]
        BY <1>1, <2>2 DEF TsClose, TypeOK
      <3>2. CASE so[w] \in {"connecting", "open"}
        <4>1. PICK x : x = Shut(w) /\ x \in {"aborted", "closing"}
          BY <1>1, <3>2 DEF Shut
        <4> QED BY <3>1, <3>2, <4>1, SocketTurns
      <3>3. CASE so[w] \notin {"connecting", "open"}
        <4>1. sp = so
          BY <1>1, <3>1, <3>3 DEF Shut
        <4>2. w \notin On(so)
          BY <3>3 DEF On
        <4> QED BY <4>1, <4>2
      <3> QED BY <3>2, <3>3
    <2> QED BY <2>1, <2>2
  <1>5. Budget(so, n, lp, r) /\ Spare(so, w, lp, r)
    BY <1>1 DEF TsInv
  <1>6. Cardinality(On(sp) \ {NoSocket}) <= Cardinality(On(so) \ {w})
    <2>1. On(sp) \ {NoSocket} \in SUBSET (On(so) \ {w})
      BY <1>4
    <2> QED BY <2>1, FiniteLive, FS_Subset
  <1>7. Budget(sp, 0, lp, r) /\ Spare(sp, NoSocket, lp, r)
    <2>1. Budget(sp, 0, lp, r)
      BY <1>3, <1>4, <1>5, FiniteSockets, FiniteLoops DEF Budget
    <2>2. /\ Cardinality(On(sp) \ {NoSocket}) \in Nat /\ Cardinality(On(so) \ {w}) \in Nat
          /\ Cardinality(Begun(lp)) \in Nat
      BY FiniteLive, FiniteLoops
    <2>3. Spare(sp, NoSocket, lp, r)
      BY <1>3, <1>5, <1>6, <2>2 DEF Spare
    <2> QED BY <2>1, <2>3
  <1>8. FewInv'
    <2>1. CASE reconnect
      BY <2>1 DEF FewInv
    <2>2. CASE ~reconnect
      BY <1>1, <1>2, <1>4, <2>2 DEF FewInv, Few
    <2> QED BY <2>1, <2>2
  <1> QED BY <1>1, <1>2, <1>7, <1>8 DEF TsInv

LEMMA TimerStep ==
  ASSUME TypeOK, TypeOK', TsInv, FewInv, UNCHANGED reconnect, TimerFires
  PROVE  TsInv' /\ FewInv'
  <1>1. PICK so, sp, lp, w, v, r : so = sock /\ sp = sock' /\ lp = loop /\ w = ws /\ v = ws' /\ r = refused
    OBVIOUS
  <1>2. /\ UNCHANGED <<running, loop, refused>> /\ timer' = FALSE /\ timer /\ running /\ reconnect
        /\ Timers = 1 /\ Timers' = 0 /\ r \in Nat
    BY <1>1, TimerTypes DEF TimerFires, Timers, TsInv, TypeOK
  <1>3. Budget(so, 1, lp, r) /\ Spare(so, w, lp, r)
    BY <1>1, <1>2 DEF TsInv
  <1>4. PICK s \in Sockets \union {NoSocket} : Made(s)
    BY DEF TimerFires
  <1>5. Budget(sp, 0, lp, r) /\ Spare(sp, v, lp, r)
    <2>1. CASE s \in Unmade /\ sp = [so EXCEPT ![s] = "connecting"] /\ v = s
      <3>1. so \in [Sockets -> SocketStates] /\ so[s] = "new" /\ s \in Sockets
        BY <1>1, <2>1 DEF TypeOK, Unmade
      <3>2. On(sp) \ {v} = On(so) \ {v} /\ Cardinality(Up(sp)) = Cardinality(Up(so)) + 1
        <4>1. /\ Cardinality(Up(sp)) = Cardinality(Up(so)) + 1
              /\ On(sp) = On(so) \union {s}
          BY <2>1, <3>1, SocketMade
        <4> QED BY <2>1, <4>1
      <3>3. Cardinality(On(sp) \ {v}) <= Cardinality(Up(so))
        BY <3>2, FiniteLive
      <3>4. Cardinality(On(sp) \ {v}) \in Nat /\ Cardinality(Up(so)) \in Nat
        BY FiniteSockets, FiniteLive
      <3> QED BY <1>2, <1>3, <3>2, <3>3, <3>4, FiniteLoops DEF Budget, Spare
    <2>2. CASE sp = so /\ v = w
      BY <1>2, <1>3, <2>2, FiniteSockets, FiniteLoops DEF Budget, Spare
    <2> QED BY <1>1, <1>4, <2>1, <2>2 DEF Made
  <1> QED BY <1>1, <1>2, <1>5 DEF TsInv, FewInv

LEMMA TsStep ==
  ASSUME TypeOK, TypeOK', TsInv, FewInv, TsNext
  PROVE  TsInv' /\ FewInv'
  <1>1. UNCHANGED reconnect
    BY DEF TsNext
  <1> QED BY <1>1, TsConnectStep, CaughtStep, OnOpenStep, EndStep, TsCloseStep, TimerStep DEF TsNext

-----------------------------------------------------------------------------
(* The Python client *)

\* One call l moves on to pc: those about to make a socket grow by no more than the calls,
\* or there is a clean close more.
LEMMA FewMoves ==
  ASSUME NEW lp, NEW lq, NEW l \in Loops, NEW pc,
         \A k \in Loops \ {l} : lq[k].pc = lp[k].pc, lq[l].pc = pc, pc # "none"
  PROVE  /\ Cardinality(At(lq, "top")) + Cardinality(Begun(lp)) <=
              Cardinality(At(lp, "top")) + Cardinality(Begun(lq)) + 1
         /\ pc # "top" \/ lp[l].pc = "none" =>
              Cardinality(At(lq, "top")) + Cardinality(Begun(lp)) <=
                Cardinality(At(lp, "top")) + Cardinality(Begun(lq))
  <1>1. (\A k \in Loops \ {l} : lq[k].pc = lp[k].pc) /\ lq[l].pc = pc
    OBVIOUS
  <1>3. PICK x, y, u, v :
          /\ x = Cardinality(At(lp, "top")) /\ y = Cardinality(At(lq, "top"))
          /\ u = Cardinality(Begun(lp)) /\ v = Cardinality(Begun(lq))
    OBVIOUS
  <1>4. x \in Nat /\ y \in Nat /\ u \in Nat /\ v \in Nat
    BY <1>3, FiniteLoops
  <1>5. lp[l].pc = "none" => v = u + 1
    BY <1>1, <1>3, LoopBegins
  <1>6. lp[l].pc # "none" => v = u
    BY <1>1, <1>3, LoopBegins
  <1>7. pc = "top" => y = x \/ y = x + 1
    <2>1. CASE lp[l].pc = "top" /\ pc = "top"
      <3>1. At(lq, "top") = At(lp, "top")
        BY <1>1, <2>1 DEF At
      <3> QED BY <1>3, <3>1
    <2>2. CASE lp[l].pc # "top" /\ pc = "top"
      <3>1. lp[l].pc # "top" /\ lq[l].pc = "top" /\ \A k \in Loops \ {l} : lq[k].pc = lp[k].pc
        BY <1>1, <2>2
      <3>2. Cardinality(At(lq, "top")) = Cardinality(At(lp, "top")) + 1
        <4>1. At(lq, "top") = At(lp, "top") \union {l} /\ l \notin At(lp, "top")
          BY <3>1 DEF At
        <4>2. IsFiniteSet(At(lp, "top"))
          BY FiniteLoops
        <4> QED BY <4>1, <4>2, FS_AddElement
      <3> QED BY <1>3, <3>2
    <2> QED BY <2>1, <2>2
  <1>8. pc # "top" => y = x \/ y = x - 1
    <2>1. CASE lp[l].pc = "top" /\ pc # "top"
      <3>1. lp[l].pc = "top" /\ lq[l].pc # "top" /\ \A k \in Loops \ {l} : lq[k].pc = lp[k].pc
        BY <1>1, <2>1
      <3>2. Cardinality(At(lq, "top")) = Cardinality(At(lp, "top")) - 1
        BY <3>1, LoopLeaves
      <3> QED BY <1>3, <3>2
    <2>2. CASE lp[l].pc # "top" /\ pc # "top"
      <3>1. At(lq, "top") = At(lp, "top")
        BY <1>1, <2>2 DEF At
      <3> QED BY <1>3, <3>1
    <2> QED BY <2>1, <2>2
  <1> QED BY <1>3, <1>4, <1>5, <1>6, <1>7, <1>8

\* A call that goes on without a socket, or with the same one.
LEMMA OwnedMoves ==
  ASSUME NEW so, NEW sp, NEW lp \in [Loops -> Loop], NEW lq, NEW l \in Loops, NEW pc,
         lq = [lp EXCEPT ![l].pc = pc], Owned(so, lp), Used(so) \subseteq Used(sp),
         On(sp) \subseteq On(so) \union {lp[l].socket},
         \/ pc \in {"listen", "leave"} /\ lp[l].pc \in {"dial", "listen", "leave"}
         \/ /\ pc \notin {"dial", "listen", "leave"}
            /\ lp[l].pc \in {"dial", "listen", "leave"} => lp[l].socket \notin On(sp)
            /\ lp[l].pc \notin {"dial", "listen", "leave"} => On(sp) \subseteq On(so)
  PROVE  Owned(sp, lq)
  <1>1. /\ \A k \in Loops \ {l} : lq[k].pc = lp[k].pc
        /\ \A k \in Loops : lq[k].socket = lp[k].socket
        /\ lq[l].pc = pc
    BY DEF Loop
  <1>2. ASSUME NEW k \in Loops, lq[k].pc \in {"dial", "listen", "leave"} PROVE lq[k].socket \in Used(sp)
    BY <1>1, <1>2 DEF Owned
  <1>3. ASSUME NEW s \in On(sp) PROVE \E k \in Loops : lq[k].pc \in {"dial", "listen", "leave"} /\ lq[k].socket = s
    <2>1. CASE pc \in {"listen", "leave"}
      <3>1. CASE s = lp[l].socket
        BY <1>1, <2>1, <3>1
      <3>2. CASE s # lp[l].socket
        <4>1. PICK k \in Loops : lp[k].pc \in {"dial", "listen", "leave"} /\ lp[k].socket = s
          BY <3>2 DEF Owned
        <4> QED BY <1>1, <3>2, <4>1
      <3> QED BY <3>1, <3>2
    <2>2. CASE pc \notin {"dial", "listen", "leave"}
      <3>1. s \in On(so)
        BY <2>2
      <3>2. PICK k \in Loops : lp[k].pc \in {"dial", "listen", "leave"} /\ lp[k].socket = s
        BY <3>1 DEF Owned
      <3>3. k # l
        BY <2>2, <3>2
      <3> QED BY <1>1, <3>2, <3>3
    <2> QED BY <2>1, <2>2
  <1> QED BY <1>2, <1>3 DEF Owned

\* What is left of a step of one call, once its socket is accounted for.
LEMMA PyMoves ==
  ASSUME TypeOK, TypeOK', PyInv, FewInv, UNCHANGED reconnect, NEW l \in Loops,
         NEW pc \in {"callback", "top", "dial", "listen", "leave", "sleep", "over", "raised"},
         Pc(l, pc),
         Owned(sock', loop'), Used(sock') = Used(sock),
         pc = "sleep" => reconnect,
         pc = "top" => reconnect \/ loop[l].pc = "none" \/ clean' = clean + 1,
         clean' = clean \/ clean' = clean + 1
  PROVE  PyInv' /\ FewInv'
  <1>1. PyInv'
    BY DEF PyInv
  <1>2. CASE reconnect
    BY <1>1, <1>2 DEF FewInv
  <1>3. CASE ~reconnect
    <2>1. PICK so, sp, lp, lq, c, d : /\ so = sock /\ sp = sock' /\ lp = loop /\ lq = loop'
                                     /\ c = clean /\ d = clean'
      OBVIOUS
    <2>2. /\ lp \in [Loops -> Loop] /\ lq = [lp EXCEPT ![l].pc = pc]
          /\ c \in Nat /\ d \in Nat /\ d >= c
      BY <2>1 DEF TypeOK, Pc
    <2>3. Few(so, lp, c) /\ At(lp, "sleep") = {}
      BY <1>3, <2>1 DEF FewInv
    <2>4. pc # "none" /\ pc # "sleep" /\ Cardinality(Used(sp)) = Cardinality(Used(so))
      BY <1>3, <2>1
    <2>5. pc = "top" => lp[l].pc = "none" \/ d = c + 1
      BY <1>3, <2>1
    <2>6. (\A k \in Loops \ {l} : lq[k].pc = lp[k].pc) /\ lq[l].pc = pc
      BY <2>2 DEF Loop
    <2>7. c \in Nat /\ d \in Nat /\ d >= c
      BY <2>2
    <2>8. /\ Cardinality(At(lq, "top")) + Cardinality(Begun(lp)) <=
                Cardinality(At(lp, "top")) + Cardinality(Begun(lq)) + 1
          /\ pc # "top" \/ lp[l].pc = "none" =>
                Cardinality(At(lq, "top")) + Cardinality(Begun(lp)) <=
                  Cardinality(At(lp, "top")) + Cardinality(Begun(lq))
      BY <2>4, <2>6, FewMoves
    <2>9. /\ Cardinality(At(lq, "top")) \in Nat /\ Cardinality(At(lp, "top")) \in Nat
          /\ Cardinality(Begun(lq)) \in Nat /\ Cardinality(Begun(lp)) \in Nat
          /\ Cardinality(Used(so)) \in Nat
      BY FiniteLoops, FiniteSockets
    <2>10. Few(sp, lq, d)
      BY <2>3, <2>4, <2>5, <2>7, <2>8, <2>9 DEF Few
    <2>11. At(lq, "sleep") = {}
      BY <2>3, <2>4, <2>6 DEF At
    <2> QED BY <1>1, <2>1, <2>10, <2>11 DEF FewInv
  <1> QED BY <1>2, <1>3

LEMMA TopStep ==
  ASSUME TypeOK, TypeOK', PyInv, FewInv, UNCHANGED reconnect, NEW l \in Loops, Top(l)
  PROVE  PyInv' /\ FewInv'
  <1>1. PICK so, sp, lp, lq, c : so = sock /\ sp = sock' /\ lp = loop /\ lq = loop' /\ c = clean
    OBVIOUS
  <1>2. so \in [Sockets -> SocketStates] /\ lp \in [Loops -> Loop] /\ lp[l].pc = "top" /\ c \in Nat /\ clean' = c
    BY <1>1 DEF TypeOK, Top
  <1>3. ASSUME NEW s \in Unmade, sp = [so EXCEPT ![s] = "connecting"],
               lq = [lp EXCEPT ![l] = [pc |-> "dial", socket |-> s]]
        PROVE  PyInv' /\ FewInv'
    <2>1. s \in Sockets /\ so[s] = "new"
      BY <1>1 DEF Unmade
    <2>2. /\ Cardinality(Used(sp)) = Cardinality(Used(so)) + 1
          /\ On(sp) = On(so) \union {s}
      BY <1>2, <1>3, <2>1, SocketMade
    <2>3. Used(so) \subseteq Used(sp) /\ s \in Used(sp)
      BY <1>2, <1>3, <2>1 DEF Used
    <2>4. (\A k \in Loops \ {l} : lq[k] = lp[k]) /\ lq[l].pc = "dial" /\ lq[l].socket = s
      BY <1>2, <1>3
    <2>5. Owned(so, lp)
      BY <1>1 DEF PyInv
    <2>6. ASSUME NEW k \in Loops, lq[k].pc \in {"dial", "listen", "leave"} PROVE lq[k].socket \in Used(sp)
      BY <2>3, <2>4, <2>5, <2>6 DEF Owned
    <2>7. ASSUME NEW x \in On(sp) PROVE \E k \in Loops : lq[k].pc \in {"dial", "listen", "leave"} /\ lq[k].socket = x
      <3>1. CASE x = s
        BY <2>4, <3>1
      <3>2. CASE x # s
        <4>1. PICK k \in Loops : lp[k].pc \in {"dial", "listen", "leave"} /\ lp[k].socket = x
          BY <2>2, <2>5, <3>2 DEF Owned
        <4> QED BY <1>2, <2>4, <4>1
      <3> QED BY <3>1, <3>2
    <2>8. PyInv'
      BY <1>1, <2>6, <2>7 DEF PyInv, Owned
    <2>9. Begun(lq) = Begun(lp) /\ Cardinality(At(lq, "top")) = Cardinality(At(lp, "top")) - 1
      <3>1. Begun(lq) = Begun(lp)
        BY <1>2, <2>4 DEF Begun
      <3> QED BY <1>2, <2>4, <3>1, LoopLeaves
    <2>10. CASE reconnect
      BY <2>8, <2>10 DEF FewInv
    <2>11. CASE ~reconnect
      <3>1. Few(so, lp, c) /\ At(lp, "sleep") = {}
        BY <1>1, <2>11 DEF FewInv
      <3>2. At(lq, "sleep") = {}
        BY <2>4, <3>1 DEF At
      <3>3. Cardinality(Used(so)) \in Nat /\ Cardinality(At(lp, "top")) \in Nat /\ Cardinality(Begun(lp)) \in Nat
        BY FiniteSockets, FiniteLoops
      <3>4. Few(sp, lq, c)
        BY <1>2, <2>2, <2>9, <3>1, <3>3 DEF Few
      <3> QED BY <1>1, <1>2, <2>8, <3>2, <3>4 DEF FewInv
    <2> QED BY <2>10, <2>11
  <1>4. ASSUME Pc(l, "over"), UNCHANGED sock
        PROVE  PyInv' /\ FewInv'
    <2>1. lq = [lp EXCEPT ![l].pc = "over"] /\ sp = so
      BY <1>1, <1>4 DEF Pc
    <2>2. Owned(so, lp)
      BY <1>1 DEF PyInv
    <2>3. Owned(sp, lq)
      BY <1>2, <2>1, <2>2, OwnedMoves
    <2> QED BY <1>1, <1>2, <1>4, <2>3, PyMoves
  <1> QED BY <1>1, <1>3, <1>4 DEF Top

\* The steps at which a call has a socket.
LEMMA SocketSteps ==
  ASSUME TypeOK, TypeOK', PyInv, FewInv, UNCHANGED reconnect, NEW l \in Loops,
         Opened(l) \/ Breaks(l) \/ CleanClose(l) \/ Dropped(l) \/ Breakdown(l)
  PROVE  PyInv' /\ FewInv'
  <1>1. PICK so, sp, lp, lq, s : /\ so = sock /\ sp = sock' /\ lp = loop /\ lq = loop' /\ s = loop[l].socket
    OBVIOUS
  <1>2. so \in [Sockets -> SocketStates] /\ lp \in [Loops -> Loop] /\ s = lp[l].socket
    BY <1>1 DEF TypeOK
  <1>3. lp[l].pc \in {"dial", "listen", "leave"} /\ Owned(so, lp)
    BY <1>1 DEF PyInv, Opened, Breaks, CleanClose, Dropped, Breakdown
  <1>4. s \in Sockets /\ so[s] # "new"
    BY <1>2, <1>3 DEF Owned, Used
  <1>5. CASE Opened(l)
    <2>1. PICK x, pc : /\ x = (IF logs = "all" THEN "closing" ELSE "open")
                       /\ pc = IF logs = "all" THEN "leave" ELSE "listen"
      OBVIOUS
    <2>2. sock' = [sock EXCEPT ![loop[l].socket] = x] /\ Pc(l, pc) /\ clean' = clean
      BY <1>5, <2>1 DEF Opened
    <2>3. sp = [so EXCEPT ![s] = x] /\ lq = [lp EXCEPT ![l].pc = pc]
      BY <1>1, <2>2 DEF Pc
    <2>4. Used(sp) = Used(so) /\ On(sp) \subseteq On(so) \union {s}
      BY <1>2, <1>4, <2>1, <2>3 DEF Used, On
    <2>5. pc \in {"listen", "leave"}
      BY <2>1
    <2>6. Owned(sp, lq)
      BY <1>2, <1>3, <2>3, <2>4, <2>5, OwnedMoves
    <2> QED BY <1>1, <2>2, <2>4, <2>5, <2>6, PyMoves
  <1>6. CASE Breaks(l) \/ CleanClose(l)
    <2>1. sp = [so EXCEPT ![s] = "closed"] /\ lq = [lp EXCEPT ![l].pc = "top"]
      BY <1>1, <1>6 DEF Breaks, CleanClose, Pc
    <2>2. Used(sp) = Used(so) /\ On(sp) = On(so) \ {s}
      BY <1>2, <1>4, <2>1, SocketEnds
    <2>3. Owned(sp, lq)
      BY <1>2, <1>3, <2>1, <2>2, OwnedMoves
    <2>4. Pc(l, "top") /\ clean' = clean + 1
      BY <1>6 DEF Breaks, CleanClose
    <2> QED BY <1>1, <2>2, <2>3, <2>4, PyMoves
  <1>7. CASE Dropped(l) \/ Breakdown(l)
    <2>1. PICK pc \in {"callback", "raised"} : Pc(l, pc)
      BY <1>7 DEF Dropped, Breakdown
    <2>2. sp = [so EXCEPT ![s] = "closed"] /\ lq = [lp EXCEPT ![l].pc = pc]
      BY <1>1, <1>7, <2>1 DEF Dropped, Breakdown, Pc
    <2>3. Used(sp) = Used(so) /\ On(sp) = On(so) \ {s}
      BY <1>2, <1>4, <2>2, SocketEnds
    <2>4. Owned(sp, lq)
      BY <1>2, <1>3, <2>2, <2>3, OwnedMoves
    <2>5. clean' = clean
      BY <1>7 DEF Dropped, Breakdown
    <2> QED BY <1>1, <2>1, <2>3, <2>4, <2>5, PyMoves
  <1> QED BY <1>5, <1>6, <1>7

\* The steps at which it has none.
LEMMA IdleSteps ==
  ASSUME TypeOK, TypeOK', PyInv, FewInv, UNCHANGED reconnect, NEW l \in Loops,
         PyConnect(l) \/ Retry(l) \/ Slept(l)
  PROVE  PyInv' /\ FewInv'
  <1>1. PICK so, lp, lq : so = sock /\ lp = loop /\ lq = loop'
    OBVIOUS
  <1>2. /\ lp \in [Loops -> Loop] /\ lp[l].pc \notin {"dial", "listen", "leave"} /\ Owned(so, lp)
        /\ sock' = so /\ clean' = clean
    BY <1>1 DEF TypeOK, PyInv, PyConnect, Retry, Slept
  <1>3. ASSUME NEW pc \in {"top", "sleep", "over", "raised"}, Pc(l, pc),
               pc = "sleep" => reconnect, pc = "top" => reconnect \/ loop[l].pc = "none"
        PROVE  PyInv' /\ FewInv'
    <2>1. lq = [lp EXCEPT ![l].pc = pc]
      BY <1>1, <1>3 DEF Pc
    <2>2. Owned(so, lq)
      BY <1>2, <2>1, OwnedMoves
    <2>3. Owned(sock', loop') /\ Used(sock') = Used(sock)
      BY <1>1, <1>2, <2>2
    <2> QED BY <1>2, <1>3, <2>3, PyMoves
  <1>4. CASE PyConnect(l)
    BY <1>3, <1>4 DEF PyConnect
  <1>5. CASE Retry(l)
    <2>1. CASE Scheduled
      BY <1>3, <1>5, <2>1 DEF Retry, Scheduled
    <2>2. CASE ~Scheduled
      BY <1>3, <1>5, <2>2 DEF Retry
    <2> QED BY <2>1, <2>2
  <1>6. CASE Slept(l)
    <2>1. l \in At(loop, "sleep")
      BY <1>6 DEF Slept, At
    <2>2. reconnect
      BY <2>1 DEF FewInv
    <2> QED BY <1>3, <1>6, <2>2 DEF Slept
  <1> QED BY <1>4, <1>5, <1>6

LEMMA DisconnectSteps ==
  ASSUME TypeOK, TypeOK', PyInv, FewInv, UNCHANGED reconnect, Disconnect \/ Disconnected
  PROVE  PyInv' /\ FewInv'
  <1>1. PICK so, sp, lp : so = sock /\ sp = sock' /\ lp = loop
    OBVIOUS
  <1>2. UNCHANGED <<loop, clean>> /\ so \in [Sockets -> SocketStates]
    BY <1>1 DEF Disconnect, Disconnected, TypeOK
  <1>3. Used(sp) = Used(so) /\ On(sp) \subseteq On(so)
    <2>1. CASE sp = so
      BY <2>1
    <2>2. CASE ws \in Sockets /\ sp = [so EXCEPT ![ws] = Shut(ws)]
      <3>1. PICK w, x : w = ws /\ x = Shut(ws)
        OBVIOUS
      <3>2. x = IF so[w] = "connecting" THEN "aborted" ELSE IF so[w] = "open" THEN "closing" ELSE so[w]
        BY <1>1, <3>1 DEF Shut
      <3>3. sp = [so EXCEPT ![w] = x] /\ w \in Sockets
        BY <2>2, <3>1
      <3> QED BY <1>2, <3>2, <3>3 DEF Used, On
    <2> QED BY <1>1, <2>1, <2>2 DEF Disconnect, Disconnected, TypeOK
  <1>4. Owned(so, lp)
    BY <1>1 DEF PyInv
  <1>5. Owned(sp, lp)
    BY <1>3, <1>4 DEF Owned
  <1>6. CASE reconnect
    BY <1>1, <1>2, <1>5, <1>6 DEF PyInv, FewInv
  <1>7. CASE ~reconnect
    BY <1>1, <1>2, <1>3, <1>5, <1>7 DEF PyInv, FewInv, Few
  <1> QED BY <1>6, <1>7

LEMMA PyStep ==
  ASSUME TypeOK, TypeOK', PyInv, FewInv, PyNext
  PROVE  PyInv' /\ FewInv'
  <1>1. UNCHANGED reconnect
    BY DEF PyNext
  <1> QED BY <1>1, TopStep, SocketSteps, IdleSteps, DisconnectSteps DEF PyNext

-----------------------------------------------------------------------------
(* The induction *)

LEMMA InitInv == Init => Inv
  <1> SUFFICES ASSUME Init PROVE Inv
    OBVIOUS
  <1>1. TypeOK
    BY InitTypes
  <1>2. PICK so, lp : so = sock /\ lp = loop
    OBVIOUS
  <1>3. so = [s \in Sockets |-> "new"] /\ lp = [l \in Loops |-> [pc |-> "none", socket |-> NoSocket]]
    BY <1>2 DEF Init
  <1>4. /\ Up(so) = {} /\ Used(so) = {} /\ On(so) = {} /\ Begun(lp) = {}
        /\ At(lp, "top") = {} /\ At(lp, "callback") = {} /\ At(lp, "sleep") = {}
    BY <1>3 DEF Up, Used, On, Begun, At
  <1>5. Cardinality({}) = 0
    BY FS_EmptySet
  <1>6. Budget(so, 0, lp, 0) /\ Spare(so, NoSocket, lp, 0) /\ Few(so, lp, 0)
    BY <1>4, <1>5 DEF Budget, Spare, Few
  <1>7. Owned(so, lp)
    BY <1>3, <1>4 DEF Owned
  <1>8. Timers = 0 /\ refused = 0 /\ clean = 0 /\ ws = NoSocket /\ ~timer
    BY DEF Init, Timers
  <1>9. TsInv /\ PyInv
    BY <1>2, <1>6, <1>7, <1>8 DEF TsInv, PyInv
  <1> QED BY <1>1, <1>2, <1>4, <1>6, <1>8, <1>9 DEF Inv

LEMMA StepInv == Inv /\ [Next]_vars => Inv'
  <1> SUFFICES ASSUME Inv, [Next]_vars PROVE Inv'
    OBVIOUS
  <1>1. TypeOK /\ FewInv
    BY DEF Inv, FewInv
  <1>2. CASE UNCHANGED vars
    BY <1>2 DEF vars, Inv, TypeOK, TsInv, PyInv, Timers
  <1>3. CASE TsNext
    <2>1. lang = "ts" /\ lang' = "ts" /\ TsInv
      BY <1>3 DEF TsNext, Inv
    <2>2. TypeOK'
      BY <1>1, <1>3, TsTypes
    <2>3. TsInv' /\ FewInv'
      BY <1>1, <1>3, <2>1, <2>2, TsStep
    <2> QED BY <2>1, <2>2, <2>3 DEF Inv, FewInv
  <1>4. CASE PyNext
    <2>1. lang = "py" /\ lang' = "py" /\ PyInv
      BY <1>4 DEF PyNext, Inv
    <2>2. TypeOK'
      BY <1>1, <1>4, <2>1, PyTypes
    <2>3. PyInv' /\ FewInv'
      BY <1>1, <1>4, <2>1, <2>2, PyStep
    <2> QED BY <2>1, <2>2, <2>3 DEF Inv, FewInv
  <1> QED BY <1>2, <1>3, <1>4 DEF Next

LEMMA InvAlways == Spec => []Inv
  BY InitInv, StepInv, PTL DEF Spec

-----------------------------------------------------------------------------
(* Reconnecting *)

\* What will reconnect the client, or a call of connect() that raised.
Hope(so, lp) ==
  \/ \E s \in Sockets : so[s] \notin {"new", "closed"}
  \/ \E l \in Loops : lp[l].pc \notin {"none", "over"}

LEMMA TsTries ==
  ASSUME TypeOK, KeepsTrying, TsNext
  PROVE  KeepsTrying'
  <1> SUFFICES ASSUME running', reconnect', faults' = 0
               PROVE  Hope(sock', loop') \/ timer'
    <2>1. lang' = "ts" /\ faults' \in Nat
      BY TsTypes DEF TsNext, TypeOK
    <2> QED BY <2>1 DEF KeepsTrying, Hope
  <1>1. reconnect /\ (running => Hope(sock, loop) \/ timer \/ faults # 0)
    BY DEF TsNext, KeepsTrying, Hope, TypeOK
  <1>2. ASSUME NEW l \in Loops, TsConnect(l) PROVE Hope(sock', loop')
    <2>1. PICK s : loop' = [loop EXCEPT ![l] = [pc |-> IF s = NoSocket THEN "callback" ELSE "first", socket |-> s]]
      BY <1>2 DEF TsConnect
    <2>2. loop'[l].pc \notin {"none", "over"}
      BY <2>1 DEF TypeOK
    <2> QED BY <2>2 DEF Hope
  <1>3. ASSUME NEW l \in Loops, Caught(l) PROVE timer'
    BY <1>1, <1>3, ScheduleTypes DEF Caught
  <1>4. ASSUME NEW s \in Sockets, OnOpen(s) PROVE Hope(sock', loop')
    <2>1. sock'[s] = "open"
      BY <1>4 DEF OnOpen, TypeOK
    <2> QED BY <2>1 DEF Hope
  <1>5. ASSUME NEW s \in Sockets, OnError(s) \/ OnClose(s) PROVE timer'
    <2>1. running /\ Schedule
      BY <1>5 DEF OnError, OnClose, Lost
    <2> QED BY <1>1, <2>1, ScheduleTypes
  <1>6. CASE TsClose
    BY <1>6 DEF TsClose
  <1>7. ASSUME TimerFires PROVE Hope(sock', loop')
    <2>1. PICK s : Made(s)
      BY <1>7 DEF TimerFires
    <2>2. s \in Unmade /\ sock' = [sock EXCEPT ![s] = "connecting"]
      BY <2>1, ConstantsAssumption DEF Made, TypeOK
    <2>3. s \in Sockets /\ sock'[s] = "connecting"
      BY <2>2 DEF Unmade, TypeOK
    <2> QED BY <2>3 DEF Hope
  <1> QED BY <1>2, <1>3, <1>4, <1>5, <1>6, <1>7 DEF TsNext

LEMMA PyTries ==
  ASSUME TypeOK, PyInv, KeepsTrying, PyNext
  PROVE  KeepsTrying'
  <1> SUFFICES ASSUME running', reconnect'
               PROVE  Hope(sock', loop') \/ timer'
    BY DEF KeepsTrying, Hope
  <1>1. reconnect /\ (running => Hope(sock, loop) \/ timer)
    BY DEF PyNext, KeepsTrying, Hope
  <1>2. ASSUME NEW l \in Loops, NEW pc \in {"callback", "top", "listen", "leave", "sleep", "raised"}, Pc(l, pc)
        PROVE  Hope(sock', loop')
    <2>1. loop'[l].pc = pc
      BY <1>2 DEF Pc, TypeOK, Loop
    <2> QED BY <2>1 DEF Hope
  <1>3. ASSUME NEW l \in Loops, Top(l) PROVE Hope(sock', loop')
    <2>1. running
      BY <1>3 DEF Top
    <2>2. PICK s : loop' = [loop EXCEPT ![l] = [pc |-> "dial", socket |-> s]]
      BY <1>3, <2>1 DEF Top
    <2>3. loop'[l].pc = "dial"
      BY <2>2 DEF TypeOK
    <2> QED BY <2>3 DEF Hope
  <1>4. ASSUME NEW l \in Loops, Retry(l) PROVE Hope(sock', loop')
    <2>1. running
      BY <1>4 DEF Retry
    <2>2. Scheduled
      BY <1>1, <2>1 DEF Scheduled
    <2>3. Pc(l, "sleep") \/ Pc(l, "raised")
      BY <1>4, <2>2 DEF Retry
    <2> QED BY <1>2, <2>3
  <1>5. ASSUME NEW l \in Loops,
               \/ PyConnect(l) \/ Opened(l) \/ Breaks(l) \/ CleanClose(l)
               \/ Dropped(l) \/ Breakdown(l) \/ Slept(l)
        PROVE  Hope(sock', loop')
    BY <1>2, <1>5 DEF PyConnect, Opened, Breaks, CleanClose, Dropped, Breakdown, Slept
  <1>6. CASE Disconnect
    BY <1>6 DEF Disconnect
  <1>7. ASSUME Disconnected PROVE Hope(sock', loop') \/ timer'
    BY <1>1, <1>7 DEF Disconnected, Hope
  <1> QED BY <1>3, <1>4, <1>5, <1>6, <1>7 DEF PyNext

-----------------------------------------------------------------------------
(* The theorems *)

\* The clients' fields, sockets, calls and timer stay what the code means by them; the
\* delay between two attempts is capped.
THEOREM TypeInvariant == Spec => []TypeOK
  <1>1. Inv => TypeOK
    BY DEF Inv
  <1> QED BY <1>1, InvAlways, PTL

\* In whatever order connect() and close() are called and sockets open, fail and close:
\* a client that is to stay connected never stops in silence. It has a socket, a timer or
\* a call that will reconnect it, or connect() raised to its caller, as it does at the
\* default log level after a refused dial; in TypeScript only a throwing factory stops it.
THEOREM TriesAlways == Spec => []KeepsTrying
  <1>1. Init => KeepsTrying
    BY DEF Init, KeepsTrying
  <1>2. Inv /\ KeepsTrying /\ [Next]_vars => KeepsTrying'
    <2> SUFFICES ASSUME Inv, KeepsTrying, [Next]_vars PROVE KeepsTrying'
      OBVIOUS
    <2>1. CASE UNCHANGED vars
      BY <2>1 DEF vars, KeepsTrying
    <2>2. CASE TsNext
      BY <2>2, TsTries DEF Inv
    <2>3. CASE PyNext
      <3>1. TypeOK /\ PyInv
        BY <2>3 DEF PyNext, Inv
      <3> QED BY <2>3, <3>1, PyTries
    <2> QED BY <2>1, <2>2, <2>3 DEF Next
  <1> QED BY <1>1, <1>2, InvAlways, PTL DEF Spec

\* No client keeps more live sockets than calls of connect() and, in TypeScript, failures
\* of first connections account for; close() leaves one fewer; and without reconnecting
\* only a clean close makes one more than the calls made.
THEOREM SocketsAccounted == Spec => []SocketsExplained
  <1>1. Inv => SocketsExplained
    <2> SUFFICES ASSUME Inv PROVE SocketsExplained
      OBVIOUS
    <2>1. PICK so, lp, w, r, n, m : /\ so = sock /\ lp = loop /\ w = ws /\ r = refused /\ n = Timers
                                   /\ m = clean
      OBVIOUS
    <2>2. TypeOK /\ r \in Nat /\ m \in Nat /\ n \in {0, 1}
      BY <2>1, TimerTypes DEF Inv, TypeOK
    <2>3. Live = On(so) /\ Calls = Cardinality(Begun(lp)) /\ Sockets \ Unmade = Used(so)
      BY <2>1 DEF Live, On, Calls, Begun, Unmade, Used
    <2>4. On(so) \ {NoSocket} = On(so)
      BY ConstantsAssumption DEF On
    <2>5. /\ Cardinality(On(so)) \in Nat /\ Cardinality(On(so)) <= Cardinality(Up(so))
          /\ Cardinality(Up(so)) \in Nat /\ IsFiniteSet(On(so))
      BY <2>4, FiniteLive, FiniteSockets
    <2>6. /\ Cardinality(Begun(lp)) \in Nat /\ Cardinality(At(lp, "callback")) \in Nat
          /\ Cardinality(At(lp, "top")) \in Nat /\ Cardinality(Used(so)) \in Nat
          /\ IsFiniteSet(Begun(lp))
      BY FiniteLoops, FiniteSockets
    <2>7. Cardinality(On(so)) <= Cardinality(Begun(lp)) + r
      <3>1. CASE lang = "ts"
        <4>1. Budget(so, n, lp, r)
          BY <2>1, <3>1 DEF Inv, TsInv
        <4> QED BY <2>2, <2>5, <2>6, <4>1 DEF Budget
      <3>2. CASE lang = "py"
        <4>1. Owned(so, lp)
          BY <2>1, <3>2 DEF Inv, PyInv
        <4>2. \A s \in On(so) : \E l \in Begun(lp) : lp[l].socket = s
          BY <4>1 DEF Owned, Begun
        <4>3. PICK f : f = [s \in On(so) |-> CHOOSE l \in Begun(lp) : lp[l].socket = s]
          OBVIOUS
        <4>4. \A s \in On(so) : f[s] \in Begun(lp) /\ lp[f[s]].socket = s
          BY <4>2, <4>3
        <4>5. f \in [On(so) -> Begun(lp)]
          BY <4>3, <4>4
        <4>6. \A s, t \in On(so) : f[s] = f[t] => s = t
          BY <4>4
        <4>7. f \in Injection(On(so), Begun(lp))
          BY <4>5, <4>6 DEF Injection, IsInjective
        <4>8. Cardinality(On(so)) <= Cardinality(Begun(lp))
          BY <2>6, <4>7, FS_Injection
        <4> QED BY <2>2, <2>5, <2>6, <4>8
      <3> QED BY <2>2, <3>1, <3>2, ConstantsAssumption DEF TypeOK
    <2>8. ASSUME lang = "ts", ~running, Calls > 0 PROVE Cardinality(On(so)) < Cardinality(Begun(lp)) + r
      <3>1. w = NoSocket /\ Spare(so, w, lp, r)
        BY <2>1, <2>8 DEF Inv, TsInv
      <3> QED BY <2>3, <2>4, <2>8, <3>1 DEF Spare
    <2>9. ASSUME ~reconnect PROVE Cardinality(Used(so)) <= Cardinality(Begun(lp)) + m
      <3>1. Few(so, lp, m)
        BY <2>1, <2>9 DEF Inv
      <3> QED BY <2>2, <2>6, <3>1 DEF Few
    <2> QED BY <2>1, <2>3, <2>7, <2>8, <2>9 DEF SocketsExplained
  <1> QED BY <1>1, InvAlways, PTL
=============================================================================
