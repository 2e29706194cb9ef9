------------------------------ MODULE RemoteCall ------------------------------
(***************************************************************************)
(* What a method of a client library promises its caller, with no requests,*)
(* answers or timers: a call takes effect at most once until it is sent    *)
(* again, what can be done once is not done by a call that is made after   *)
(* it was done, and how a call ends tells what it did. A call that was     *)
(* given up may take effect later.                                         *)
(***************************************************************************)
EXTENDS Naturals

CONSTANTS Calls, Effects

VARIABLES
  pc,      \* of each call: "idle", "called" or "returned"
  effect,  \* what it is meant to do
  resent,  \* calls whose request was sent again
  result,  \* what they returned or raised
  times,   \* how often each took effect
  late     \* calls that were made when what can be done once was done

remote == <<pc, effect, resent, result, times, late>>

Unique == {"once", "unique", "remove", "batch"}
Done == \E c \in Calls : effect[c] \in Unique /\ times[c] > 0

\* Errors that blame the request, and answers that forbid it.
Undone ==
  {"AuthenticationError", "NotFoundError", "ValidationError", "ConflictError",
   "RateLimitError", "JSONDecodeError", "forbidden"}

Init ==
  /\ pc = [c \in Calls |-> "idle"]
  /\ effect = [c \in Calls |-> "read"]
  /\ resent = {}
  /\ result = [c \in Calls |-> "none"]
  /\ times = [c \in Calls |-> 0]
  /\ late = {}

Invoke(c) ==
  /\ pc[c] = "idle"
  /\ pc' = [pc EXCEPT ![c] = "called"]
  /\ \E e \in Effects : effect' = [effect EXCEPT ![c] = e]
  /\ late' = IF Done THEN late \union {c} ELSE late
  /\ UNCHANGED <<resent, result, times>>

Resend(c) ==
  /\ pc[c] = "called"
  /\ resent' = resent \union {c}
  /\ UNCHANGED <<pc, effect, result, times, late>>

\* After the call is over only when it was given up, or as an earlier request of it.
\* Calls that overlap may each do what can be done once, but for what is unique.
Act(c) ==
  /\ effect[c] # "read"
  /\ pc[c] = "called" \/ (pc[c] = "returned" /\ (c \in resent \/ result[c] = "ConnectionError"))
  /\ c \in resent \/ times[c] = 0
  /\ effect[c] \in Unique => c \notin late
  /\ effect[c] = "unique" => ~Done
  /\ times' = [times EXCEPT ![c] = @ + 1]
  /\ UNCHANGED <<pc, effect, resent, result, late>>

\* The partial result of a batch tells nothing: it lists what failed after its commit.
Return(c, r) ==
  /\ pc[c] = "called"
  /\ r = "ok" => effect[c] = "read" \/ times[c] > 0
  /\ r \in Undone => c \in resent \/ times[c] = 0
  /\ r = "ConflictError" => Done
  /\ pc' = [pc EXCEPT ![c] = "returned"]
  /\ result' = [result EXCEPT ![c] = r]
  /\ UNCHANGED <<effect, resent, times, late>>

Results == Undone \union {"ok", "partial", "ServerError", "ConnectionError"}

Next ==
  \E c \in Calls :
    \/ Invoke(c) \/ Resend(c) \/ Act(c)
    \/ \E r \in Results : Return(c, r)

Spec == Init /\ [][Next]_remote
=============================================================================
