----------------------------- MODULE EventBusProofs -----------------------------
(***************************************************************************)
(* What live events promise for any number of processes, connections and   *)
(* events: the limits on connections, who gets whose events, and that a    *)
(* stream gets what its URL asks for.                                      *)
(***************************************************************************)
EXTENDS EventBus, FiniteSetTheorems, TLAPS

\* Who is about to be accepted holds the lock, and found a place free.
Admitting ==
  \A c \in Sockets : conn[c].pc = "accepting" =>
    /\ lock[ProcOf[c]] = c
    /\ Cardinality(Places(ProcOf[c], TenantOf[c])) < LimitOf[c]

\* The event has been through Redis, or is broadcast again because Redis failed, given
\* the broadcasters and the processes that are linked.
BeenOut(f, l, e) == f[e].at \in l /\ (f[e].pc = "done" \/ ~f[e].scoped)

\* What is known of a broadcaster in the state q.
CasterKnows(k, q, f, l) ==
  /\ k \in Events /\ q.pc = "idle" => q.at = NoOne
  /\ k \in Events /\ q.pc # "idle" =>
       /\ q.event = k /\ q.at \in Procs
       /\ ~q.scoped => q.at \in l
  /\ k \in Procs /\ q.pc \in {"collect", "send"} =>
       q.event \in Events /\ q.at \in Procs /\ ~q.scoped /\ BeenOut(f, l, q.event)
  /\ k \in Procs => q.pc # "redis"
  /\ q.pc = "send" /\ q.scoped =>
       \A c \in q.todo : TenantOf[c] = TenantOf[q.event]

CastersKnow == \A k \in Casters : CasterKnows(k, cast[k], cast, linked)

Members(seq) == {seq[i] : i \in 1 .. Len(seq)}

\* c may have e: of its own tenant, or because it has been out.
MayHave(f, l, c, e) == TenantOf[c] = TenantOf[e] \/ BeenOut(f, l, e)

InboxesKnown == \A p \in Procs : \A e \in Members(inbox[p]) : BeenOut(cast, linked, e)
QueuesKnown ==
  \A s \in Streams :
    /\ \A e \in Members(queue[s]) : MayHave(cast, linked, s, e) /\ Wants(s, e)
    /\ conn[s].pc = "none" => queue[s] = <<>>
GotKnown ==
  /\ \A c \in Conns, e \in Events : got[c][e] > 0 => MayHave(cast, linked, c, e)
  /\ \A s \in Streams, e \in Events : got[s][e] > 0 => conn[s].pc # "none" /\ Wants(s, e)

Flow == CastersKnow /\ InboxesKnown /\ QueuesKnown /\ GotKnown

Inv == TypeOK /\ Admitting /\ LimitHolds /\ Flow

-----------------------------------------------------------------------------
(* Helpers *)

LEMMA Disjoint ==
  /\ \A c \in Sockets : c \notin Streams /\ c \in Conns /\ c # NoOne
  /\ \A s \in Streams : s \in Conns
  /\ \A e \in Events : e \notin Procs /\ e \in Casters /\ e # NoOne
  /\ \A p \in Procs : p \notin Events /\ p \in Casters /\ p # NoOne
  BY ConstantsAssumption DEF Conns, Casters

LEMMA MembersOf ==
  ASSUME NEW S, NEW seq \in Seq(S), NEW x \in S
  PROVE  /\ Append(seq, x) \in Seq(S) /\ Members(Append(seq, x)) \subseteq Members(seq) \union {x}
         /\ seq \o <<x>> \in Seq(S) /\ Members(seq \o <<x>>) \subseteq Members(seq) \union {x}
  <1>1. seq \o <<x>> = Append(seq, x) /\ Append(seq, x) \in Seq(S)
        /\ Len(Append(seq, x)) = Len(seq) + 1
    OBVIOUS
  <1>2. ASSUME NEW i \in 1 .. Len(seq) + 1
        PROVE  Append(seq, x)[i] \in Members(seq) \union {x}
    <2>1. CASE i \in 1 .. Len(seq)
      BY <2>1 DEF Members
    <2>2. CASE i = Len(seq) + 1
      BY <2>2
    <2> QED BY <2>1, <2>2
  <1>3. Members(Append(seq, x)) \subseteq Members(seq) \union {x}
    BY <1>1, <1>2 DEF Members
  <1> QED BY <1>1, <1>3

LEMMA MembersTail ==
  ASSUME NEW S, NEW seq \in Seq(S), seq # <<>>
  PROVE  /\ Head(seq) \in S /\ Head(seq) \in Members(seq)
         /\ Tail(seq) \in Seq(S) /\ Members(Tail(seq)) \subseteq Members(seq)
  <1>1. Len(seq) \in Nat /\ Len(seq) >= 1 /\ Head(seq) = seq[1] /\ seq[1] \in S
    OBVIOUS
  <1>2. Tail(seq) \in Seq(S) /\ Len(Tail(seq)) = Len(seq) - 1
        /\ \A i \in 1 .. Len(seq) - 1 : Tail(seq)[i] = seq[i + 1]
    OBVIOUS
  <1>3. \A i \in 1 .. Len(seq) - 1 : i + 1 \in 1 .. Len(seq)
    BY <1>1
  <1>4. Members(Tail(seq)) \subseteq Members(seq)
    BY <1>2, <1>3 DEF Members
  <1>5. 1 \in 1 .. Len(seq)
    BY <1>1
  <1> QED BY <1>1, <1>2, <1>4, <1>5 DEF Members

LEMMA MembersNone == Members(<<>>) = {} /\ \A S : <<>> \in Seq(S)
  BY DEF Members

LEMMA FewPlaces ==
  ASSUME NEW T \in SUBSET Sockets
  PROVE  IsFiniteSet(T) /\ Cardinality(T) \in Nat
  BY ConstantsAssumption, FS_Subset, FS_CardinalityType

LEMMA Fewer ==
  ASSUME NEW S \in SUBSET Sockets, NEW T \in SUBSET S
  PROVE  Cardinality(T) \in Nat /\ Cardinality(S) \in Nat /\ Cardinality(T) <= Cardinality(S)
  <1>1. IsFiniteSet(S) /\ T \in SUBSET Sockets
    BY FewPlaces
  <1> QED BY <1>1, FewPlaces, FS_Subset

-----------------------------------------------------------------------------
(* The limits *)

\* The places of a tenant in a process, given the connections.
PlacesIn(q, p, t) ==
  {c \in Sockets : q[c].pc \in {"welcoming", "open", "ghost"} /\ ProcOf[c] = p /\ TenantOf[c] = t}

LEMMA PlacesAre ==
  ASSUME NEW p, NEW t
  PROVE  Places(p, t) = PlacesIn(conn, p, t)
  BY DEF Places, PlacesIn, Registered

LEMMA PlacesWillBe ==
  ASSUME NEW p, NEW t
  PROVE  Places(p, t)' = PlacesIn(conn', p, t)
  BY DEF Places, PlacesIn, Registered

Limits(q, l) ==
  /\ \A c \in Sockets : q[c].pc = "accepting" =>
       l[ProcOf[c]] = c /\ Cardinality(PlacesIn(q, ProcOf[c], TenantOf[c])) < LimitOf[c]
  /\ \A p \in Procs : \A c \in Sockets :
       Cardinality({d \in PlacesIn(q, p, TenantOf[c]) : LimitOf[d] <= LimitOf[c]}) <= LimitOf[c]

LEMMA LimitsAre == Limits(conn, lock) <=> Admitting /\ LimitHolds
  BY PlacesAre DEF Limits, Admitting, LimitHolds

LEMMA LimitsWillBe == Limits(conn', lock') <=> (Admitting /\ LimitHolds)'
  BY PlacesWillBe DEF Limits, Admitting, LimitHolds

\* Places are only given back, and nobody starts to be accepted.
LEMMA LimitsStay ==
  ASSUME Limits(conn, lock),
         \A c \in Sockets :
           /\ conn'[c].pc \in {"welcoming", "open", "ghost"} =>
                conn[c].pc \in {"welcoming", "open", "ghost"}
           /\ conn'[c].pc = "accepting" => conn[c].pc = "accepting" /\ lock'[ProcOf[c]] = lock[ProcOf[c]]
  PROVE  Limits(conn', lock')
  <1>1. ASSUME NEW p, NEW t
        PROVE  PlacesIn(conn', p, t) \subseteq PlacesIn(conn, p, t)
               /\ PlacesIn(conn, p, t) \in SUBSET Sockets
    BY DEF PlacesIn
  <1>2. ASSUME NEW c \in Sockets, conn'[c].pc = "accepting"
        PROVE  /\ lock'[ProcOf[c]] = c
               /\ Cardinality(PlacesIn(conn', ProcOf[c], TenantOf[c])) < LimitOf[c]
    <2> DEFINE S == PlacesIn(conn, ProcOf[c], TenantOf[c])
               T == PlacesIn(conn', ProcOf[c], TenantOf[c])
    <2>1. Cardinality(T) \in Nat /\ Cardinality(S) \in Nat /\ Cardinality(T) <= Cardinality(S)
      BY <1>1, Fewer
    <2>2. lock[ProcOf[c]] = c /\ Cardinality(S) < LimitOf[c] /\ LimitOf[c] \in Nat
      BY <1>2, ConstantsAssumption DEF Limits
    <2> QED BY <1>2, <2>1, <2>2
  <1>3. ASSUME NEW p \in Procs, NEW c \in Sockets
        PROVE  Cardinality({d \in PlacesIn(conn', p, TenantOf[c]) : LimitOf[d] <= LimitOf[c]})
                 <= LimitOf[c]
    <2> DEFINE S == {d \in PlacesIn(conn, p, TenantOf[c]) : LimitOf[d] <= LimitOf[c]}
               T == {d \in PlacesIn(conn', p, TenantOf[c]) : LimitOf[d] <= LimitOf[c]}
    <2>1. S \in SUBSET Sockets /\ T \in SUBSET S
      BY <1>1
    <2>2. Cardinality(S) <= LimitOf[c] /\ LimitOf[c] \in Nat
      BY ConstantsAssumption DEF Limits
    <2> HIDE DEF S, T
    <2>3. Cardinality(T) \in Nat /\ Cardinality(S) \in Nat /\ Cardinality(T) <= Cardinality(S)
      BY <2>1, Fewer
    <2>4. Cardinality(T) <= LimitOf[c]
      BY <2>2, <2>3
    <2> QED BY <2>4 DEF T
  <1> QED BY <1>2, <1>3 DEF Limits

LEMMA AdmitLimits ==
  ASSUME Inv, NEW c \in Sockets, Admit(c)
  PROVE  Limits(conn', lock')
  <1> DEFINE p == ProcOf[c]
  <1>1. /\ conn[c].pc = "none" /\ lock[p] = NoOne /\ p \in Procs /\ c \in Conns
        /\ conn \in [Conns -> Conn] /\ lock \in [Procs -> Sockets \union {NoOne}]
    BY ConstantsAssumption, Disjoint DEF Admit, LockFree, Inv, TypeOK
  <1>2. Limits(conn, lock)
    BY LimitsAre DEF Inv
  <1>3. CASE Moved(c, "over") /\ UNCHANGED lock
    <2>1. \A d \in Sockets : conn'[d].pc = IF d = c THEN "over" ELSE conn[d].pc
      BY <1>1, <1>3, Disjoint DEF Moved, Conn
    <2> QED BY <1>2, <1>3, <2>1, LimitsStay
  <1>4. CASE /\ Moved(c, "accepting") /\ lock' = [lock EXCEPT ![p] = c]
             /\ ~(Cardinality(Places(p, TenantOf[c])) >= LimitOf[c])
    <2>1. \A d \in Sockets : conn'[d].pc = IF d = c THEN "accepting" ELSE conn[d].pc
      BY <1>1, <1>4, Disjoint DEF Moved, Conn
    <2>2. \A q, t : PlacesIn(conn', q, t) = PlacesIn(conn, q, t)
      BY <1>1, <2>1 DEF PlacesIn
    <2>3. ASSUME NEW d \in Sockets, conn'[d].pc = "accepting"
          PROVE  /\ lock'[ProcOf[d]] = d
                 /\ Cardinality(PlacesIn(conn', ProcOf[d], TenantOf[d])) < LimitOf[d]
      <3>1. CASE d = c
        <4>1. Cardinality(PlacesIn(conn, p, TenantOf[c])) \in Nat /\ LimitOf[c] \in Nat
          <5>1. PlacesIn(conn, p, TenantOf[c]) \in SUBSET Sockets
            BY DEF PlacesIn
          <5> QED BY <5>1, FewPlaces, ConstantsAssumption
        <4>2. Cardinality(PlacesIn(conn, p, TenantOf[c])) < LimitOf[c]
          BY <1>4, <4>1, PlacesAre
        <4> QED BY <1>1, <1>4, <2>2, <3>1, <4>2
      <3>2. CASE d # c
        <4>1. conn[d].pc = "accepting"
          BY <2>1, <2>3, <3>2
        <4>2. lock[ProcOf[d]] = d
              /\ Cardinality(PlacesIn(conn, ProcOf[d], TenantOf[d])) < LimitOf[d]
          BY <1>2, <4>1 DEF Limits
        <4>3. ProcOf[d] # p
          BY <1>1, <4>2, Disjoint
        <4> QED BY <1>1, <1>4, <2>2, <4>2, <4>3
      <3> QED BY <3>1, <3>2
    <2> QED BY <1>2, <2>2, <2>3 DEF Limits
  <1> QED BY <1>3, <1>4 DEF Admit

LEMMA AcceptLimits ==
  ASSUME Inv, NEW c \in Sockets, Accept(c)
  PROVE  Limits(conn', lock')
  <1> DEFINE p == ProcOf[c]
             t == TenantOf[c]
  <1>1. /\ conn[c].pc = "accepting" /\ p \in Procs /\ c \in Conns
        /\ conn \in [Conns -> Conn] /\ lock \in [Procs -> Sockets \union {NoOne}]
        /\ lock' = [lock EXCEPT ![p] = NoOne]
    BY ConstantsAssumption, Disjoint DEF Accept, Inv, TypeOK
  <1>2. Limits(conn, lock)
    BY LimitsAre DEF Inv
  <1>3. /\ lock[p] = c /\ Cardinality(PlacesIn(conn, p, t)) < LimitOf[c]
    BY <1>1, <1>2 DEF Limits
  <1>4. PICK pc \in {"welcoming", "over"} : Moved(c, pc)
    BY DEF Accept
  <1>5. \A d \in Sockets : conn'[d].pc = IF d = c THEN pc ELSE conn[d].pc
    BY <1>1, <1>4, Disjoint DEF Moved, Conn
  <1>6. ASSUME NEW d \in Sockets, conn'[d].pc = "accepting"
        PROVE  conn[d].pc = "accepting" /\ lock'[ProcOf[d]] = lock[ProcOf[d]] /\ ProcOf[d] # p
    <2>1. d # c /\ conn[d].pc = "accepting"
      BY <1>4, <1>5, <1>6
    <2>2. lock[ProcOf[d]] = d
      BY <1>2, <2>1 DEF Limits
    <2> QED BY <1>1, <1>3, <2>1, <2>2
  <1>7. CASE pc = "over"
    BY <1>2, <1>5, <1>6, <1>7, LimitsStay
  <1>8. CASE pc = "welcoming"
    <2>1. \A q, u : /\ PlacesIn(conn', q, u) \subseteq PlacesIn(conn, q, u) \union {c}
                    /\ PlacesIn(conn, q, u) \subseteq PlacesIn(conn', q, u)
                    /\ q # p \/ u # t => PlacesIn(conn', q, u) = PlacesIn(conn, q, u)
      BY <1>1, <1>5, <1>8 DEF PlacesIn
    <2>2. ASSUME NEW d \in Sockets, conn'[d].pc = "accepting"
          PROVE  /\ lock'[ProcOf[d]] = d
                 /\ Cardinality(PlacesIn(conn', ProcOf[d], TenantOf[d])) < LimitOf[d]
      BY <1>2, <1>6, <2>1, <2>2 DEF Limits
    <2>3. ASSUME NEW q \in Procs, NEW d \in Sockets
          PROVE  Cardinality({x \in PlacesIn(conn', q, TenantOf[d]) : LimitOf[x] <= LimitOf[d]})
                   <= LimitOf[d]
      <3> DEFINE S == {x \in PlacesIn(conn, q, TenantOf[d]) : LimitOf[x] <= LimitOf[d]}
                 T == {x \in PlacesIn(conn', q, TenantOf[d]) : LimitOf[x] <= LimitOf[d]}
                 A == PlacesIn(conn, p, t)
      <3>1. Cardinality(S) <= LimitOf[d] /\ LimitOf[d] \in Nat /\ LimitOf[c] \in Nat
        BY <1>2, ConstantsAssumption DEF Limits
      <3>2. S \in SUBSET Sockets /\ A \in SUBSET Sockets
        BY DEF PlacesIn
      <3>3. T \in SUBSET (S \union {c})
        BY <2>1
      <3>4. T = S \/ (q = p /\ TenantOf[d] = t /\ LimitOf[c] <= LimitOf[d])
        <4>1. CASE q # p \/ TenantOf[d] # t
          BY <2>1, <4>1
        <4>2. CASE ~(LimitOf[c] <= LimitOf[d])
          <5>1. T \subseteq S
            BY <2>1, <4>2
          <5>2. S \subseteq T
            BY <2>1
          <5> QED BY <5>1, <5>2
        <4> QED BY <4>1, <4>2
      <3>5. q = p /\ TenantOf[d] = t => S \in SUBSET A
        OBVIOUS
      <3>6. Cardinality(A) < LimitOf[c]
        BY <1>3
      <3> HIDE DEF S, T, A
      <3>7. CASE T = S
        BY <3>1, <3>7 DEF T
      <3>8. CASE q = p /\ TenantOf[d] = t /\ LimitOf[c] <= LimitOf[d]
        <4>1. Cardinality(S) <= Cardinality(A) /\ Cardinality(S) \in Nat /\ Cardinality(A) \in Nat
          BY <3>2, <3>5, <3>8, Fewer
        <4>2. IsFiniteSet(S)
          BY <3>2, FewPlaces
        <4>3. IsFiniteSet(S \union {c}) /\ Cardinality(S \union {c}) \in Nat
              /\ Cardinality(S \union {c}) <= Cardinality(S) + 1
          <5>1. /\ IsFiniteSet(S \union {c})
                /\ \/ Cardinality(S \union {c}) = Cardinality(S)
                   \/ Cardinality(S \union {c}) = Cardinality(S) + 1
            BY <4>2, FS_AddElement
          <5>2. Cardinality(S \union {c}) \in Nat
            BY <5>1, FS_CardinalityType
          <5> QED BY <4>1, <5>1, <5>2
        <4>4. Cardinality(T) \in Nat /\ Cardinality(T) <= Cardinality(S \union {c})
          <5>1. IsFiniteSet(T) /\ Cardinality(T) <= Cardinality(S \union {c})
            BY <3>3, <4>3, FS_Subset
          <5> QED BY <5>1, FS_CardinalityType
        <4>5. Cardinality(T) <= LimitOf[d]
          BY <3>1, <3>6, <3>8, <4>1, <4>3, <4>4
        <4> QED BY <4>5 DEF T
      <3> QED BY <3>4, <3>7, <3>8
    <2> QED BY <2>2, <2>3 DEF Limits
  <1> QED BY <1>7, <1>8

-----------------------------------------------------------------------------
(* Who gets what *)

\* What has been out stays out.
Onward == \A e \in Events : BeenOut(cast, linked, e) => BeenOut(cast', linked', e)

LEMMA Rests ==
  ASSUME CastersKnow, UNCHANGED <<cast, linked>>
  PROVE  Onward /\ CastersKnow'
  BY DEF Onward, CastersKnow

LEMMA FlowStays ==
  ASSUME TypeOK, Flow, Onward, CastersKnow', queue' \in [Streams -> Seq(Events)],
         \A p \in Procs : \A e \in Members(inbox'[p]) :
           e \in Members(inbox[p]) \/ BeenOut(cast', linked', e),
         \A s \in Streams : conn[s].pc # "none" =>
           conn'[s].pc # "none" /\ conn'[s].subs = conn[s].subs,
         \A s \in Streams : conn'[s].pc = "none" => queue'[s] = <<>>,
         \A s \in Streams : \A e \in Members(queue'[s]) :
           e \in Members(queue[s]) \/ (MayHave(cast', linked', s, e) /\ Wants(s, e)'),
         \A c \in Conns, e \in Events : got'[c][e] > 0 =>
           \/ got[c][e] > 0
           \/ /\ MayHave(cast', linked', c, e)
              /\ c \in Streams => conn'[c].pc # "none" /\ Wants(c, e)'
  PROVE  Flow'
  <1>1. \A p \in Procs : Members(inbox[p]) \subseteq Events
    BY DEF TypeOK, Members
  <1>2. \A s \in Streams : Members(queue[s]) \subseteq Events
    BY DEF TypeOK, Members
  <1>3. \A c, e : e \in Events /\ MayHave(cast, linked, c, e) => MayHave(cast', linked', c, e)
    BY DEF Onward, MayHave
  <1>4. InboxesKnown'
    BY <1>1 DEF Flow, InboxesKnown, Onward
  <1>5. \A s \in Streams : \A e : conn[s].pc # "none" /\ Wants(s, e) => Wants(s, e)'
    BY DEF Wants
  <1>6. QueuesKnown'
    <2> SUFFICES ASSUME NEW s \in Streams
                 PROVE  \A e \in Members(queue'[s]) : MayHave(cast', linked', s, e) /\ Wants(s, e)'
      BY DEF QueuesKnown
    <2> SUFFICES ASSUME NEW e \in Members(queue[s])
                 PROVE  MayHave(cast', linked', s, e) /\ Wants(s, e)'
      OBVIOUS
    <2>1. conn[s].pc # "none"
      BY MembersNone DEF Flow, QueuesKnown
    <2> QED BY <1>2, <1>3, <1>5, <2>1 DEF Flow, QueuesKnown
  <1>7. GotKnown'
    <2>1. ASSUME NEW c \in Conns, NEW e \in Events, got'[c][e] > 0
          PROVE  MayHave(cast', linked', c, e)
      BY <1>3, <2>1 DEF Flow, GotKnown
    <2>2. ASSUME NEW s \in Streams, NEW e \in Events, got'[s][e] > 0
          PROVE  conn'[s].pc # "none" /\ Wants(s, e)'
      BY <1>5, <2>2, Disjoint DEF Flow, GotKnown
    <2> QED BY <2>1, <2>2 DEF GotKnown
  <1> QED BY <1>4, <1>6, <1>7 DEF Flow

\* A step that only changes connections.
LEMMA ConnFlow ==
  ASSUME Inv, UNCHANGED <<cast, linked, inbox, queue, got>>,
         \A s \in Streams : conn[s].pc # "none" =>
           conn'[s].pc # "none" /\ conn'[s].subs = conn[s].subs,
         \A s \in Streams : conn'[s].pc = "none" => conn[s].pc = "none"
  PROVE  Flow'
  <1>1. TypeOK /\ Flow /\ CastersKnow /\ queue' \in [Streams -> Seq(Events)]
    BY DEF Inv, Flow, TypeOK
  <1>2. \A s \in Streams : conn'[s].pc = "none" => queue'[s] = <<>>
    BY <1>1 DEF Flow, QueuesKnown
  <1> QED BY <1>1, <1>2, Rests, FlowStays

\* A step that leaves connections and what they have alone.
LEMMA CasterFlow ==
  ASSUME Inv, UNCHANGED <<conn, queue, got>>, Onward, CastersKnow',
         \A p \in Procs : \A e \in Members(inbox'[p]) :
           e \in Members(inbox[p]) \/ BeenOut(cast', linked', e)
  PROVE  Flow'
  <1>1. TypeOK /\ Flow /\ queue' \in [Streams -> Seq(Events)]
    BY DEF Inv, TypeOK
  <1>2. \A s \in Streams : conn'[s].pc = "none" => queue'[s] = <<>>
    BY <1>1 DEF Flow, QueuesKnown
  <1> QED BY <1>1, <1>2, FlowStays

LEMMA CastersGoOn ==
  ASSUME Inv, linked' = linked, NEW k \in Casters, NEW q \in Cast, cast' = [cast EXCEPT ![k] = q],
         k \in Events /\ BeenOut(cast, linked, k) => q.at \in linked /\ (q.pc = "done" \/ ~q.scoped),
         CasterKnows(k, q, cast, linked)
  PROVE  cast' \in [Casters -> Cast] /\ Onward /\ CastersKnow'
  <1>1. cast \in [Casters -> Cast] /\ CastersKnow
    BY DEF Inv, TypeOK, Flow
  <1>2. cast' \in [Casters -> Cast] /\ \A j \in Casters : cast'[j] = IF j = k THEN q ELSE cast[j]
    BY <1>1
  <1>3. Onward
    BY <1>2, Disjoint DEF Onward, BeenOut
  <1>4. ASSUME NEW j \in Casters, NEW c, CasterKnows(j, c, cast, linked)
        PROVE  CasterKnows(j, c, cast', linked')
    BY <1>3, <1>4 DEF CasterKnows, Onward
  <1>5. CastersKnow'
    BY <1>1, <1>2, <1>4 DEF CastersKnow
  <1> QED BY <1>2, <1>3, <1>5

LEMMA ReceivedStep ==
  ASSUME Inv, NEW c \in Conns, NEW e \in Events, got' = Received(c, e)
  PROVE  /\ got' \in [Conns -> [Events -> Nat]]
         /\ \A d \in Conns, f \in Events : got'[d][f] > 0 => got[d][f] > 0 \/ (d = c /\ f = e)
  <1> DEFINE n == IF c \notin gone THEN got[c][e] + 1 ELSE got[c][e]
  <1>1. got \in [Conns -> [Events -> Nat]] /\ n \in Nat
    BY DEF Inv, TypeOK
  <1>2. got' = [got EXCEPT ![c][e] = n]
    BY DEF Received
  <1> HIDE DEF n
  <1>3. got' \in [Conns -> [Events -> Nat]]
    BY <1>1, <1>2
  <1>4. ASSUME NEW d \in Conns, NEW f \in Events, ~(d = c /\ f = e)
        PROVE  got'[d][f] = got[d][f]
    <2>1. CASE d # c
      BY <1>1, <1>2, <2>1
    <2>2. CASE d = c /\ f # e
      BY <1>1, <1>2, <2>2
    <2> QED BY <1>4, <2>1, <2>2
  <1> QED BY <1>3, <1>4

LEMMA Combined ==
  ASSUME TypeOK', Limits(conn', lock'), Flow'
  PROVE  Inv'
  BY LimitsWillBe DEF Inv

LEMMA LimitsRest ==
  ASSUME Inv, UNCHANGED <<conn, lock>>
  PROVE  Limits(conn', lock')
  BY LimitsAre DEF Inv

-----------------------------------------------------------------------------
(* Connections *)

\* A socket's handler moves on.
LEMMA SocketStep ==
  ASSUME Inv, NEW c \in Sockets, NEW q \in Conn, conn' = [conn EXCEPT ![c] = q],
         lock' \in [Procs -> Sockets \union {NoOne}], Limits(conn', lock'),
         UNCHANGED <<gone, cast, linked, listening, inbox, queue, got, faults>>
  PROVE  Inv'
  <1>1. conn \in [Conns -> Conn] /\ c \in Conns /\ c \notin Streams
    BY Disjoint DEF Inv, TypeOK
  <1>2. conn' \in [Conns -> Conn] /\ \A s \in Streams : conn'[s] = conn[s]
    BY <1>1, Disjoint
  <1>3. TypeOK'
    BY <1>2 DEF Inv, TypeOK
  <1>4. Flow'
    BY <1>2, ConnFlow
  <1> QED BY <1>3, <1>4, Combined

LEMMA MovedConn ==
  ASSUME Inv, NEW c \in Conns,
         NEW pc \in {"none", "accepting", "welcoming", "open", "ghost", "over"}, Moved(c, pc)
  PROVE  \E q \in Conn : conn' = [conn EXCEPT ![c] = q] /\ q.pc = pc /\ q.subs = conn[c].subs
  <1> DEFINE q == [conn[c] EXCEPT !.pc = pc]
  <1>1. conn \in [Conns -> Conn] /\ conn[c] \in Conn
    BY DEF Inv, TypeOK
  <1>2. q \in Conn /\ q.pc = pc /\ q.subs = conn[c].subs
    BY <1>1 DEF Conn
  <1>3. conn' = [conn EXCEPT ![c] = q]
    BY <1>1 DEF Moved
  <1> QED BY <1>2, <1>3

LEMMA AdmitStep ==
  ASSUME Inv, NEW c \in Sockets, Admit(c)
  PROVE  Inv'
  <1>1. PICK pc \in {"over", "accepting"} : Moved(c, pc)
    BY DEF Admit
  <1>2. PICK q \in Conn : conn' = [conn EXCEPT ![c] = q]
    BY <1>1, MovedConn, Disjoint
  <1>3. lock' \in [Procs -> Sockets \union {NoOne}]
    <2>1. lock' = lock \/ lock' = [lock EXCEPT ![ProcOf[c]] = c]
      BY DEF Admit
    <2> QED BY <2>1 DEF Inv, TypeOK
  <1>4. UNCHANGED <<gone, cast, linked, listening, inbox, queue, got, faults>>
    BY DEF Admit
  <1> QED BY <1>2, <1>3, <1>4, AdmitLimits, SocketStep

LEMMA AcceptStep ==
  ASSUME Inv, NEW c \in Sockets, Accept(c)
  PROVE  Inv'
  <1>1. PICK pc \in {"over", "welcoming"} : Moved(c, pc)
    BY DEF Accept
  <1>2. PICK q \in Conn : conn' = [conn EXCEPT ![c] = q]
    BY <1>1, MovedConn, Disjoint
  <1>3. lock' \in [Procs -> Sockets \union {NoOne}]
    BY DEF Accept, Inv, TypeOK
  <1>4. UNCHANGED <<gone, cast, linked, listening, inbox, queue, got, faults>>
    BY DEF Accept
  <1> QED BY <1>2, <1>3, <1>4, AcceptLimits, SocketStep

\* A registered socket stays registered, or leaves.
LEMMA RegisteredStep ==
  ASSUME Inv, NEW c \in Sockets, conn[c].pc \in {"welcoming", "open"},
         NEW q \in Conn, q.pc \in {"open", "ghost", "over"}, conn' = [conn EXCEPT ![c] = q],
         UNCHANGED <<gone, lock, cast, linked, listening, inbox, queue, got, faults>>
  PROVE  Inv'
  <1>1. conn \in [Conns -> Conn] /\ c \in Conns /\ lock' \in [Procs -> Sockets \union {NoOne}]
    BY Disjoint DEF Inv, TypeOK
  <1>2. \A d \in Sockets : conn'[d] = IF d = c THEN q ELSE conn[d]
    BY <1>1, Disjoint
  <1>3. Limits(conn', lock')
    BY <1>2, LimitsAre, LimitsStay DEF Inv
  <1> QED BY <1>1, <1>3, SocketStep

LEMMA WelcomeStep ==
  ASSUME Inv, NEW c \in Sockets, Welcome(c)
  PROVE  Inv'
  <1>1. PICK pc \in {"open", "ghost"} : Moved(c, pc)
    BY DEF Welcome
  <1>2. PICK q \in Conn : conn' = [conn EXCEPT ![c] = q] /\ q.pc = pc
    BY <1>1, MovedConn, Disjoint
  <1> QED BY <1>2, RegisteredStep DEF Welcome

LEMMA DisconnectStep ==
  ASSUME Inv, NEW c \in Sockets, Disconnect(c)
  PROVE  Inv'
  <1>1. PICK q \in Conn : conn' = [conn EXCEPT ![c] = q] /\ q.pc = "over"
    BY MovedConn, Disjoint DEF Disconnect
  <1> QED BY <1>1, RegisteredStep DEF Disconnect

LEMMA FilterStep ==
  ASSUME Inv, NEW c \in Sockets, NEW subs \in SUBSET Topics, Filter(c, subs)
  PROVE  Inv'
  <1> DEFINE q == [conn[c] EXCEPT !.subs = subs]
  <1>1. conn \in [Conns -> Conn] /\ conn[c] \in Conn /\ conn[c].pc = "open"
    BY Disjoint DEF Inv, TypeOK, Filter
  <1>2. q \in Conn /\ q.pc = "open" /\ conn' = [conn EXCEPT ![c] = q]
    BY <1>1 DEF Conn, Filter
  <1> HIDE DEF q
  <1> QED BY <1>1, <1>2, RegisteredStep DEF Filter

LEMMA LeaveStep ==
  ASSUME Inv, NEW c \in Conns, Leave(c)
  PROVE  Inv'
  <1>1. UNCHANGED <<conn, lock, cast, linked, listening, inbox, queue, got, faults>>
    BY DEF Leave
  <1>2. TypeOK'
    BY <1>1 DEF Leave, Inv, TypeOK
  <1>3. Flow'
    BY <1>1, ConnFlow
  <1> QED BY <1>1, <1>2, <1>3, LimitsRest, Combined

\* Sockets are left alone.
LEMMA StreamLimits ==
  ASSUME Inv, NEW s \in Streams, NEW q, conn' = [conn EXCEPT ![s] = q], UNCHANGED lock
  PROVE  Limits(conn', lock')
  <1>1. \A c \in Sockets : conn'[c] = conn[c]
    BY Disjoint DEF Inv, TypeOK
  <1> QED BY <1>1, LimitsAre, LimitsStay DEF Inv

LEMMA OpenStep ==
  ASSUME Inv, NEW s \in Streams, NEW subs \in SUBSET Topics, Open(s, subs)
  PROVE  Inv'
  <1> DEFINE q == [conn[s] EXCEPT !.pc = "open", !.subs = subs]
  <1>1. conn \in [Conns -> Conn] /\ conn[s] \in Conn /\ conn[s].pc = "none" /\ s \in Conns
    BY Disjoint DEF Inv, TypeOK, Open
  <1>2. q \in Conn /\ q.pc = "open" /\ conn' = [conn EXCEPT ![s] = q]
    BY <1>1 DEF Conn, Open
  <1>3. UNCHANGED <<gone, lock, cast, linked, listening, inbox, queue, got, faults>>
    BY DEF Open
  <1> HIDE DEF q
  <1>4. conn' \in [Conns -> Conn] /\ \A d \in Conns : conn'[d] = IF d = s THEN q ELSE conn[d]
    BY <1>1, <1>2
  <1>5. TypeOK'
    BY <1>3, <1>4 DEF Inv, TypeOK
  <1>6. Flow'
    BY <1>1, <1>2, <1>3, <1>4, Disjoint, ConnFlow
  <1> QED BY <1>2, <1>3, <1>5, <1>6, StreamLimits, Combined

LEMMA PumpStep ==
  ASSUME Inv, NEW s \in Streams, Pump(s)
  PROVE  Inv'
  <1>1. /\ conn[s].pc = "open" /\ queue[s] # <<>> /\ queue' = [queue EXCEPT ![s] = Tail(@)]
        /\ got' = Received(s, Head(queue[s]))
        /\ UNCHANGED <<conn, gone, lock, cast, linked, listening, inbox, faults>>
    BY DEF Pump
  <1>2. queue \in [Streams -> Seq(Events)] /\ TypeOK /\ Flow
    BY DEF Inv, TypeOK
  <1>3. PICK e \in Events :
          /\ e = Head(queue[s]) /\ e \in Members(queue[s])
          /\ Tail(queue[s]) \in Seq(Events) /\ Members(Tail(queue[s])) \subseteq Members(queue[s])
    BY <1>1, <1>2, MembersTail
  <1>4. /\ got' \in [Conns -> [Events -> Nat]]
        /\ \A d \in Conns, f \in Events : got'[d][f] > 0 => got[d][f] > 0 \/ (d = s /\ f = e)
    BY <1>1, <1>3, ReceivedStep, Disjoint
  <1>5. queue' \in [Streams -> Seq(Events)]
    BY <1>1, <1>2, <1>3
  <1>6. TypeOK'
    BY <1>1, <1>4, <1>5 DEF Inv, TypeOK
  <1>7. Onward /\ CastersKnow'
    BY <1>1, <1>2, Rests DEF Flow
  <1>8. \A t \in Streams : Members(queue'[t]) \subseteq Members(queue[t])
    BY <1>1, <1>2, <1>3
  <1>9. MayHave(cast, linked, s, e) /\ Wants(s, e)
    BY <1>2, <1>3 DEF Flow, QueuesKnown
  <1>10. \A t \in Streams : conn'[t].pc = "none" => queue'[t] = <<>>
    BY <1>1, <1>2 DEF Flow, QueuesKnown
  <1>11. MayHave(cast', linked', s, e) /\ Wants(s, e)' /\ conn'[s].pc # "none"
    <2>1. MayHave(cast', linked', s, e)
      BY <1>1, <1>9 DEF MayHave, BeenOut
    <2>2. Wants(s, e)'
      BY <1>1, <1>9 DEF Wants
    <2> QED BY <1>1, <2>1, <2>2
  <1>12. \A c \in Conns, f \in Events : got'[c][f] > 0 =>
           \/ got[c][f] > 0
           \/ /\ MayHave(cast', linked', c, f)
              /\ c \in Streams => conn'[c].pc # "none" /\ Wants(c, f)'
    BY <1>4, <1>11
  <1>13. \A p \in Procs : \A f \in Members(inbox'[p]) : f \in Members(inbox[p])
    BY <1>1
  <1>14. \A t \in Streams : conn[t].pc # "none" =>
           conn'[t].pc # "none" /\ conn'[t].subs = conn[t].subs
    BY <1>1
  <1>15. Flow'
    BY <1>2, <1>5, <1>7, <1>8, <1>10, <1>12, <1>13, <1>14, FlowStays
  <1> QED BY <1>1, <1>6, <1>15, LimitsRest, Combined

LEMMA CloseStep ==
  ASSUME Inv, NEW s \in Streams, Close(s)
  PROVE  Inv'
  <1>1. PICK q \in Conn : conn' = [conn EXCEPT ![s] = q] /\ q.pc = "over" /\ q.subs = conn[s].subs
    BY MovedConn, Disjoint DEF Close
  <1>2. /\ queue' = [queue EXCEPT ![s] = <<>>]
        /\ UNCHANGED <<gone, lock, cast, linked, listening, inbox, got, faults>>
    BY DEF Close
  <1>3. TypeOK /\ Flow /\ conn \in [Conns -> Conn] /\ queue \in [Streams -> Seq(Events)]
    BY DEF Inv, TypeOK
  <1>4. conn' \in [Conns -> Conn] /\ \A t \in Streams : conn'[t] = IF t = s THEN q ELSE conn[t]
    BY <1>1, <1>3, Disjoint
  <1>5. /\ queue' \in [Streams -> Seq(Events)]
        /\ \A t \in Streams : queue'[t] = <<>> \/ queue'[t] = queue[t]
    BY <1>2, <1>3, MembersNone
  <1>6. TypeOK'
    BY <1>2, <1>4, <1>5 DEF Inv, TypeOK
  <1>7. Onward /\ CastersKnow'
    BY <1>2, <1>3, Rests DEF Flow
  <1>8. \A t \in Streams : Members(queue'[t]) \subseteq Members(queue[t])
    BY <1>5, MembersNone
  <1>9. \A t \in Streams : conn'[t].pc = "none" => queue'[t] = <<>>
    BY <1>1, <1>3, <1>4, <1>5 DEF Flow, QueuesKnown
  <1>10. \A t \in Streams : conn[t].pc # "none" => conn'[t].pc # "none" /\ conn'[t].subs = conn[t].subs
    BY <1>1, <1>4
  <1>11. Flow'
    BY <1>2, <1>3, <1>5, <1>7, <1>8, <1>9, <1>10, FlowStays
  <1> QED BY <1>1, <1>2, <1>6, <1>11, StreamLimits, Combined

-----------------------------------------------------------------------------
(* Broadcasters *)

\* The broadcaster k moves on; of the rest only inboxes change.
LEMMA CasterStep ==
  ASSUME Inv, NEW k \in Casters, NEW q \in Cast, cast' = [cast EXCEPT ![k] = q],
         k \in Events /\ BeenOut(cast, linked, k) => q.at \in linked /\ (q.pc = "done" \/ ~q.scoped),
         CasterKnows(k, q, cast, linked),
         inbox' \in [Procs -> Seq(Events)],
         \A p \in Procs : \A e \in Members(inbox'[p]) :
           e \in Members(inbox[p]) \/ BeenOut(cast', linked', e),
         faults' \in Nat,
         UNCHANGED <<conn, gone, lock, linked, listening, queue, got>>
  PROVE  Inv'
  <1>1. cast' \in [Casters -> Cast] /\ Onward /\ CastersKnow'
    BY CastersGoOn
  <1>2. TypeOK'
    BY <1>1 DEF Inv, TypeOK
  <1>3. Flow'
    BY <1>1, CasterFlow
  <1> QED BY <1>2, <1>3, LimitsRest, Combined

LEMMA CasterFacts ==
  ASSUME Inv, NEW k \in Casters
  PROVE  /\ cast[k] \in Cast /\ CasterKnows(k, cast[k], cast, linked)
         /\ inbox \in [Procs -> Seq(Events)] /\ faults \in Nat /\ linked \subseteq Procs
         /\ cast \in [Casters -> Cast]
  BY DEF Inv, TypeOK, Flow, CastersKnow

LEMMA PublishStep ==
  ASSUME Inv, NEW e \in Events, NEW p \in Procs, Publish(e, p)
  PROVE  Inv'
  <1> DEFINE q == [pc |-> "collect", at |-> p, event |-> e, scoped |-> TRUE, todo |-> {}]
  <1>1. e \in Casters /\ e \notin Procs /\ cast[e].pc = "idle"
    BY Disjoint DEF Publish
  <1>2. q \in Cast /\ q.pc = "collect" /\ q.at = p /\ q.event = e /\ q.scoped = TRUE
    BY DEF Cast
  <1>3. cast' = [cast EXCEPT ![e] = q]
    BY DEF Publish, Begun
  <1>4. UNCHANGED <<conn, gone, lock, linked, listening, inbox, queue, got, faults>>
    BY DEF Publish
  <1> HIDE DEF q
  <1>5. CasterKnows(e, q, cast, linked)
    BY <1>1, <1>2 DEF CasterKnows
  <1>6. ~BeenOut(cast, linked, e)
    <2>1. cast[e].at = NoOne
      BY <1>1, CasterFacts DEF CasterKnows
    <2> QED BY <1>1, <2>1, CasterFacts, ConstantsAssumption DEF BeenOut
  <1> QED BY <1>1, <1>2, <1>3, <1>4, <1>5, <1>6, CasterFacts, CasterStep

LEMMA CollectStep ==
  ASSUME Inv, NEW k \in Casters, Collect(k)
  PROVE  Inv'
  <1>1. PICK todo \in SUBSET Sockets :
          todo = {c \in Sockets : Reaches(k, c)}
          /\ cast' = [cast EXCEPT ![k].pc = "send", ![k].todo = todo]
    BY DEF Collect
  <1> DEFINE q == [cast[k] EXCEPT !.pc = "send", !.todo = todo]
  <1>2. /\ cast[k] \in Cast /\ CasterKnows(k, cast[k], cast, linked) /\ cast[k].pc = "collect"
    BY CasterFacts DEF Collect
  <1>3. /\ q \in Cast /\ q.pc = "send" /\ q.todo = todo /\ q.at = cast[k].at
        /\ q.event = cast[k].event /\ q.scoped = cast[k].scoped
    BY <1>2 DEF Cast
  <1>4. cast' = [cast EXCEPT ![k] = q]
    BY <1>1, CasterFacts
  <1> HIDE DEF q
  <1>5. cast[k].scoped => \A c \in todo : TenantOf[c] = TenantOf[cast[k].event]
    BY <1>1 DEF Reaches
  <1>6. CasterKnows(k, q, cast, linked)
    BY <1>2, <1>3, <1>5 DEF CasterKnows
  <1>7. k \in Events /\ BeenOut(cast, linked, k) => q.at \in linked /\ (q.pc = "done" \/ ~q.scoped)
    BY <1>2, <1>3 DEF BeenOut
  <1>8. UNCHANGED <<conn, gone, lock, linked, listening, inbox, queue, got, faults>>
    BY DEF Collect
  <1> QED BY <1>3, <1>4, <1>6, <1>7, <1>8, CasterFacts, CasterStep

\* Whom a broadcaster sends its event may have it.
LEMMA Deliverable ==
  ASSUME Inv, NEW k \in Casters, cast[k].pc = "send", NEW c,
         cast[k].scoped => TenantOf[c] = TenantOf[cast[k].event]
  PROVE  cast[k].event \in Events /\ MayHave(cast, linked, c, cast[k].event)
  <1>1. CasterKnows(k, cast[k], cast, linked)
    BY CasterFacts
  <1>2. CASE k \in Events
    BY <1>1, <1>2 DEF CasterKnows, MayHave, BeenOut
  <1>3. CASE k \in Procs
    BY <1>1, <1>3 DEF CasterKnows, MayHave
  <1> QED BY <1>2, <1>3 DEF Casters

LEMMA SendStep ==
  ASSUME Inv, NEW k \in Casters, NEW c \in Sockets, Send(k, c)
  PROVE  Inv'
  <1>1. /\ cast[k].pc = "send" /\ c \in cast[k].todo
        /\ UNCHANGED <<conn, gone, lock, linked, listening, inbox, queue, faults>>
    BY DEF Send
  <1>2. cast[k] \in Cast /\ CasterKnows(k, cast[k], cast, linked)
    BY CasterFacts
  <1>3. PICK e \in Events : e = cast[k].event /\ MayHave(cast, linked, c, e)
    BY <1>1, <1>2, Deliverable DEF CasterKnows
  <1>4. /\ got' \in [Conns -> [Events -> Nat]]
        /\ \A d \in Conns, f \in Events : got'[d][f] > 0 => got[d][f] > 0 \/ (d = c /\ f = e)
    BY <1>3, ReceivedStep, Disjoint DEF Send
  <1> DEFINE q == [cast[k] EXCEPT !.todo = @ \ {c}]
  <1>5. /\ q \in Cast /\ q.pc = "send" /\ q.todo = cast[k].todo \ {c} /\ q.at = cast[k].at
        /\ q.event = cast[k].event /\ q.scoped = cast[k].scoped
    BY <1>1, <1>2 DEF Cast
  <1>6. cast' = [cast EXCEPT ![k] = q]
    BY CasterFacts DEF Send
  <1> HIDE DEF q
  <1>7. CasterKnows(k, q, cast, linked)
    BY <1>1, <1>2, <1>5 DEF CasterKnows
  <1>8. k \in Events /\ BeenOut(cast, linked, k) => q.at \in linked /\ (q.pc = "done" \/ ~q.scoped)
    BY <1>1, <1>5 DEF BeenOut
  <1>9. cast' \in [Casters -> Cast] /\ Onward /\ CastersKnow'
    BY <1>1, <1>5, <1>6, <1>7, <1>8, CastersGoOn
  <1>10. TypeOK'
    BY <1>1, <1>4, <1>9 DEF Inv, TypeOK
  <1>11. MayHave(cast', linked', c, e)
    BY <1>3, <1>9 DEF MayHave, Onward
  <1>12. \A d \in Conns, f \in Events : got'[d][f] > 0 =>
           \/ got[d][f] > 0
           \/ /\ MayHave(cast', linked', d, f)
              /\ d \in Streams => conn'[d].pc # "none" /\ Wants(d, f)'
    BY <1>4, <1>11, Disjoint
  <1>13. TypeOK /\ Flow /\ queue' \in [Streams -> Seq(Events)]
    BY <1>1 DEF Inv, TypeOK
  <1>14. /\ \A p \in Procs : \A f \in Members(inbox'[p]) : f \in Members(inbox[p])
         /\ \A s \in Streams : conn[s].pc # "none" =>
              conn'[s].pc # "none" /\ conn'[s].subs = conn[s].subs
         /\ \A s \in Streams : \A f \in Members(queue'[s]) : f \in Members(queue[s])
    BY <1>1
  <1>15. \A s \in Streams : conn'[s].pc = "none" => queue'[s] = <<>>
    BY <1>1, <1>13 DEF Flow, QueuesKnown
  <1>16. Flow'
    BY <1>9, <1>12, <1>13, <1>14, <1>15, FlowStays
  <1> QED BY <1>1, <1>10, <1>16, LimitsRest, Combined

LEMMA FeedStep ==
  ASSUME Inv, NEW k \in Casters, FeedStreams(k)
  PROVE  Inv'
  <1>1. /\ cast[k].pc = "send" /\ cast[k].todo = {}
        /\ UNCHANGED <<conn, gone, lock, linked, listening, inbox, got, faults>>
    BY DEF FeedStreams
  <1>2. cast[k] \in Cast /\ CasterKnows(k, cast[k], cast, linked)
    BY CasterFacts
  <1>3. PICK e \in Events : e = cast[k].event
    BY <1>1, <1>2, Deliverable
  <1>4. PICK q : /\ cast' = [cast EXCEPT ![k] = q]
                 /\ q = IF k \in Procs THEN Idle
                        ELSE IF cast[k].scoped THEN [cast[k] EXCEPT !.pc = "redis"]
                        ELSE [cast[k] EXCEPT !.pc = "done"]
    BY DEF FeedStreams
  <1>5. q \in Cast
    BY <1>2, <1>4 DEF Cast, Idle
  <1>6. CasterKnows(k, q, cast, linked)
        /\ (k \in Events /\ BeenOut(cast, linked, k) => q.at \in linked /\ (q.pc = "done" \/ ~q.scoped))
    <2>1. CASE k \in Procs
      <3>1. q.pc = "idle" /\ k \notin Events
        BY <1>4, <2>1, Disjoint DEF Idle
      <3> QED BY <2>1, <3>1 DEF CasterKnows
    <2>2. CASE k \in Events
      <3>1. k \notin Procs
        BY <2>2, Disjoint
      <3>2. /\ q.pc = IF cast[k].scoped THEN "redis" ELSE "done"
            /\ q.at = cast[k].at /\ q.event = cast[k].event /\ q.scoped = cast[k].scoped
        BY <1>2, <1>4, <3>1 DEF Cast
      <3> QED BY <1>1, <1>2, <2>2, <3>1, <3>2 DEF CasterKnows, BeenOut
    <2> QED BY <2>1, <2>2 DEF Casters
  <1>7. cast' \in [Casters -> Cast] /\ Onward /\ CastersKnow'
    BY <1>1, <1>4, <1>5, <1>6, CastersGoOn
  <1>8. TypeOK /\ Flow /\ queue \in [Streams -> Seq(Events)]
    BY DEF Inv, TypeOK
  <1>9. ASSUME NEW s \in Streams
        PROVE  \/ queue'[s] = queue[s]
               \/ /\ queue'[s] = Append(queue[s], e)
                  /\ conn[s].pc # "none" /\ MayHave(cast, linked, s, e) /\ Wants(s, e)
    <2>1. queue'[s] = IF Reaches(k, s) /\ Feeds(k) THEN Append(queue[s], e) ELSE queue[s]
      BY <1>3 DEF FeedStreams
    <2>2. CASE Reaches(k, s) /\ Feeds(k)
      <3>1. /\ conn[s].pc # "none" /\ Wants(s, e)
            /\ cast[k].scoped => TenantOf[s] = TenantOf[cast[k].event]
        BY <1>3, <2>2 DEF Reaches, Registered, Matches, Wants
      <3>2. MayHave(cast, linked, s, e)
        BY <1>1, <1>3, <3>1, Deliverable
      <3> QED BY <2>1, <2>2, <3>1, <3>2
    <2>3. CASE ~(Reaches(k, s) /\ Feeds(k))
      BY <2>1, <2>3
    <2> QED BY <2>2, <2>3
  <1>10. /\ queue' = [s \in Streams |-> queue'[s]]
         /\ \A s \in Streams : queue'[s] \in Seq(Events)
    <2>1. queue' = [s \in Streams |-> queue'[s]]
      BY DEF FeedStreams
    <2>2. ASSUME NEW s \in Streams
          PROVE  queue'[s] \in Seq(Events)
      <3>1. queue[s] \in Seq(Events)
        BY <1>8
      <3>2. Append(queue[s], e) \in Seq(Events)
        BY <3>1, MembersOf
      <3>3. queue'[s] = queue[s] \/ queue'[s] = Append(queue[s], e)
        BY <1>9
      <3> QED BY <3>1, <3>2, <3>3
    <2> QED BY <2>1, <2>2
  <1>11. queue' \in [Streams -> Seq(Events)]
    BY <1>10
  <1>12. TypeOK'
    BY <1>1, <1>7, <1>11 DEF Inv, TypeOK
  <1>13. ASSUME NEW s \in Streams, NEW f \in Members(queue'[s])
         PROVE  f \in Members(queue[s]) \/ (MayHave(cast', linked', s, f) /\ Wants(s, f)')
    <2>1. CASE queue'[s] = queue[s]
      BY <1>13, <2>1
    <2>2. CASE /\ queue'[s] = Append(queue[s], e)
               /\ MayHave(cast, linked, s, e) /\ Wants(s, e)
      <3>1. queue[s] \in Seq(Events)
        BY <1>8
      <3>2. f \in Members(queue[s]) \/ f = e
        BY <1>13, <2>2, <3>1, MembersOf
      <3>3. MayHave(cast', linked', s, e)
        BY <1>7, <2>2 DEF MayHave, Onward
      <3>4. Wants(s, e)'
        BY <1>1, <2>2 DEF Wants
      <3> QED BY <3>2, <3>3, <3>4
    <2> QED BY <1>9, <2>1, <2>2
  <1>14. \A s \in Streams : conn'[s].pc = "none" => queue'[s] = <<>>
    BY <1>1, <1>8, <1>9 DEF Flow, QueuesKnown
  <1>15. /\ \A p \in Procs : \A f \in Members(inbox'[p]) : f \in Members(inbox[p])
         /\ \A s \in Streams : conn[s].pc # "none" =>
              conn'[s].pc # "none" /\ conn'[s].subs = conn[s].subs
         /\ \A c \in Conns, f \in Events : got'[c][f] > 0 => got[c][f] > 0
    BY <1>1
  <1>16. Flow'
    BY <1>7, <1>8, <1>11, <1>13, <1>14, <1>15, FlowStays
  <1> QED BY <1>1, <1>12, <1>16, LimitsRest, Combined

\* Every listener hears of e.
LEMMA RelayedStep ==
  ASSUME Inv, NEW e \in Events, Relayed(e) \/ UNCHANGED inbox
  PROVE  /\ inbox' \in [Procs -> Seq(Events)]
         /\ \A p \in Procs : \A f \in Members(inbox'[p]) : f \in Members(inbox[p]) \/ f = e
  <1>1. inbox \in [Procs -> Seq(Events)]
    BY DEF Inv, TypeOK
  <1>2. CASE UNCHANGED inbox
    BY <1>1, <1>2
  <1>3. CASE Relayed(e)
    <2>1. inbox' = [p \in Procs |-> IF p \in listening THEN inbox[p] \o <<e>> ELSE inbox[p]]
      BY <1>3 DEF Relayed, Heard
    <2>2. ASSUME NEW p \in Procs
          PROVE  /\ inbox'[p] \in Seq(Events)
                 /\ \A f \in Members(inbox'[p]) : f \in Members(inbox[p]) \/ f = e
      <3>1. inbox[p] \in Seq(Events)
        BY <1>1
      <3>2. CASE inbox'[p] = inbox[p] \o <<e>>
        <4>1. inbox[p] \o <<e>> \in Seq(Events)
              /\ Members(inbox[p] \o <<e>>) \subseteq Members(inbox[p]) \union {e}
          BY <3>1, MembersOf
        <4> QED BY <3>2, <4>1
      <3>3. CASE inbox'[p] = inbox[p]
        BY <3>1, <3>3
      <3> QED BY <2>1, <3>2, <3>3
    <2> QED BY <2>1, <2>2
  <1> QED BY <1>2, <1>3

LEMMA ToRedisStep ==
  ASSUME Inv, NEW e \in Events, ToRedis(e)
  PROVE  Inv'
  <1> DEFINE q == [cast[e] EXCEPT !.pc = "done"]
  <1>1. /\ e \in Casters /\ e \notin Procs /\ cast[e].pc = "redis"
        /\ UNCHANGED <<conn, gone, lock, linked, listening, queue, got, faults>>
    BY Disjoint DEF ToRedis
  <1>2. cast[e] \in Cast /\ CasterKnows(e, cast[e], cast, linked)
    BY <1>1, CasterFacts
  <1>3. /\ q \in Cast /\ q.pc = "done" /\ q.at = cast[e].at /\ q.event = cast[e].event
        /\ q.scoped = cast[e].scoped
    BY <1>2 DEF Cast
  <1>4. cast' = [cast EXCEPT ![e] = q]
    BY <1>1, CasterFacts DEF ToRedis
  <1> HIDE DEF q
  <1>5. CasterKnows(e, q, cast, linked)
        /\ (BeenOut(cast, linked, e) => q.at \in linked /\ (q.pc = "done" \/ ~q.scoped))
    BY <1>1, <1>2, <1>3 DEF CasterKnows, BeenOut
  <1>6. inbox' \in [Procs -> Seq(Events)]
        /\ \A p \in Procs : \A f \in Members(inbox'[p]) : f \in Members(inbox[p]) \/ f = e
    BY RelayedStep DEF ToRedis
  <1>7. \A p \in Procs : \A f \in Members(inbox'[p]) :
          f \in Members(inbox[p]) \/ BeenOut(cast', linked', f)
    <2>1. CASE cast[e].at \in linked
      <3>1. cast'[e] = q /\ linked' = linked
        BY <1>1, <1>4, CasterFacts
      <3>2. BeenOut(cast', linked', e)
        BY <1>3, <2>1, <3>1 DEF BeenOut
      <3> QED BY <1>6, <3>2
    <2>2. CASE cast[e].at \notin linked
      BY <2>2 DEF ToRedis
    <2> QED BY <2>1, <2>2
  <1> QED BY <1>1, <1>3, <1>4, <1>5, <1>6, <1>7, CasterFacts, CasterStep

LEMMA BusFailsStep ==
  ASSUME Inv, NEW e \in Events, RedisFails(e)
  PROVE  Inv'
  <1>1. /\ e \in Casters /\ e \notin Procs /\ cast[e].pc = "redis" /\ cast[e].at \in linked
        /\ faults' = faults + 1
        /\ UNCHANGED <<conn, gone, lock, linked, listening, queue, got>>
    BY Disjoint DEF RedisFails
  <1>2. cast[e] \in Cast /\ cast[e].at \in Procs /\ faults' \in Nat
    BY <1>1, CasterFacts
  <1>3. PICK q \in Cast : /\ cast' = [cast EXCEPT ![e] = q]
                          /\ q.pc = "collect" /\ q.at = cast[e].at /\ q.event = e /\ q.scoped = FALSE
    <2>1. [pc |-> "collect", at |-> cast[e].at, event |-> e, scoped |-> FALSE, todo |-> {}] \in Cast
      BY <1>2 DEF Cast
    <2> QED BY <2>1 DEF RedisFails, Begun
  <1>4. CasterKnows(e, q, cast, linked)
    BY <1>1, <1>2, <1>3 DEF CasterKnows
  <1>5. inbox' \in [Procs -> Seq(Events)]
        /\ \A p \in Procs : \A f \in Members(inbox'[p]) : f \in Members(inbox[p]) \/ f = e
    BY RelayedStep DEF RedisFails
  <1>6. BeenOut(cast', linked', e)
    <2>1. cast'[e] = q /\ linked' = linked
      BY <1>1, <1>3, CasterFacts
    <2> QED BY <1>1, <1>3, <2>1 DEF BeenOut
  <1> QED BY <1>1, <1>2, <1>3, <1>4, <1>5, <1>6, CasterStep

LEMMA ListenStep ==
  ASSUME Inv, NEW p \in Procs, Listen(p)
  PROVE  Inv'
  <1>1. /\ p \in Casters /\ p \notin Events /\ inbox[p] # <<>>
        /\ inbox' = [inbox EXCEPT ![p] = Tail(@)]
        /\ UNCHANGED <<conn, gone, lock, linked, listening, queue, got, faults>>
    BY Disjoint DEF Listen
  <1>2. inbox \in [Procs -> Seq(Events)] /\ faults \in Nat
    BY <1>1, CasterFacts
  <1>3. PICK e \in Events :
          /\ e = Head(inbox[p]) /\ e \in Members(inbox[p])
          /\ Tail(inbox[p]) \in Seq(Events) /\ Members(Tail(inbox[p])) \subseteq Members(inbox[p])
    BY <1>1, <1>2, MembersTail
  <1>4. PICK q \in Cast : /\ cast' = [cast EXCEPT ![p] = q]
                          /\ q.pc = "collect" /\ q.at = p /\ q.event = e /\ q.scoped = FALSE
    <2>1. [pc |-> "collect", at |-> p, event |-> e, scoped |-> FALSE, todo |-> {}] \in Cast
      BY DEF Cast
    <2> QED BY <1>3, <2>1 DEF Listen, Begun
  <1>5. BeenOut(cast, linked, e)
    BY <1>3 DEF Inv, Flow, InboxesKnown
  <1>6. CasterKnows(p, q, cast, linked)
    BY <1>1, <1>4, <1>5 DEF CasterKnows
  <1>7. /\ inbox' \in [Procs -> Seq(Events)]
        /\ \A r \in Procs : Members(inbox'[r]) \subseteq Members(inbox[r])
    BY <1>1, <1>2, <1>3
  <1> QED BY <1>1, <1>2, <1>4, <1>6, <1>7, CasterStep

-----------------------------------------------------------------------------
(* Faults *)

LEMMA ListenerDiesStep ==
  ASSUME Inv, NEW p \in Procs, ListenerDies(p)
  PROVE  Inv'
  <1>1. /\ listening' = listening \ {p} /\ inbox' = [inbox EXCEPT ![p] = <<>>]
        /\ faults' = faults + 1
        /\ UNCHANGED <<conn, gone, lock, cast, linked, queue, got>>
    BY DEF ListenerDies
  <1>2. inbox' \in [Procs -> Seq(Events)]
        /\ \A r \in Procs : inbox'[r] = <<>> \/ inbox'[r] = inbox[r]
    BY <1>1, MembersNone DEF Inv, TypeOK
  <1>3. TypeOK'
    BY <1>1, <1>2 DEF Inv, TypeOK
  <1>4. \A r \in Procs : \A e \in Members(inbox'[r]) : e \in Members(inbox[r])
    BY <1>2, MembersNone
  <1>5. Onward /\ CastersKnow'
    BY <1>1, Rests DEF Inv, Flow
  <1>6. Flow'
    BY <1>1, <1>4, <1>5, CasterFlow
  <1> QED BY <1>1, <1>3, <1>6, LimitsRest, Combined

LEMMA StopStep ==
  ASSUME Inv, NEW p \in Procs, Stop(p)
  PROVE  Inv'
  <1>1. /\ linked' = linked /\ got' = got /\ gone' = gone /\ faults' = faults + 1
        /\ listening' = listening \ {p} /\ inbox' = [inbox EXCEPT ![p] = <<>>]
        /\ lock' = [lock EXCEPT ![p] = NoOne]
    BY DEF Stop
  <1>2. TypeOK /\ Flow /\ CastersKnow
    BY DEF Inv, Flow
  <1>3. /\ conn' \in [Conns -> Conn]
        /\ \A c \in Conns : /\ conn'[c].subs = conn[c].subs
                            /\ conn'[c].pc = IF ProcOf[c] = p THEN "over" ELSE conn[c].pc
    <2>1. \A c \in Conns : conn[c] \in Conn
      BY <1>2 DEF TypeOK
    <2>2. conn' = [c \in Conns |-> IF ProcOf[c] = p
                                   THEN [conn[c] EXCEPT !.pc = "over"] ELSE conn[c]]
      BY DEF Stop
    <2>3. ASSUME NEW q \in Conn
          PROVE  LET o == [q EXCEPT !.pc = "over"] IN
                 o \in Conn /\ o.pc = "over" /\ o.subs = q.subs
      BY DEF Conn
    <2> QED BY <2>1, <2>2, <2>3
  <1>4. /\ cast' \in [Casters -> Cast]
        /\ \A k \in Casters : /\ cast'[k].at = cast[k].at /\ cast'[k].event = cast[k].event
                              /\ cast'[k].scoped = cast[k].scoped /\ cast'[k].todo = cast[k].todo
                              /\ cast'[k].pc = IF cast[k].at = p \/ k = p THEN "done" ELSE cast[k].pc
    <2>1. \A k \in Casters : cast[k] \in Cast
      BY <1>2 DEF TypeOK
    <2>2. cast' = [k \in Casters |-> IF cast[k].at = p \/ k = p
                                     THEN [cast[k] EXCEPT !.pc = "done"] ELSE cast[k]]
      BY DEF Stop
    <2>3. ASSUME NEW q \in Cast
          PROVE  LET o == [q EXCEPT !.pc = "done"] IN
                 /\ o \in Cast /\ o.pc = "done" /\ o.at = q.at /\ o.event = q.event
                 /\ o.scoped = q.scoped /\ o.todo = q.todo
      BY DEF Cast
    <2> QED BY <2>1, <2>2, <2>3
  <1>5. /\ queue' \in [Streams -> Seq(Events)]
        /\ \A s \in Streams : queue'[s] = IF ProcOf[s] = p THEN <<>> ELSE queue[s]
    BY <1>2, MembersNone DEF Stop, TypeOK
  <1>6. inbox' \in [Procs -> Seq(Events)]
        /\ \A r \in Procs : inbox'[r] = <<>> \/ inbox'[r] = inbox[r]
    BY <1>1, <1>2, MembersNone DEF TypeOK
  <1>7. lock' \in [Procs -> Sockets \union {NoOne}] /\ faults' \in Nat
    BY <1>1, <1>2 DEF TypeOK
  <1>8. TypeOK'
    BY <1>1, <1>2, <1>3, <1>4, <1>5, <1>6, <1>7 DEF TypeOK
  <1>9. Limits(conn', lock')
    <2>1. ASSUME NEW c \in Sockets, conn'[c].pc = "accepting"
          PROVE  conn[c].pc = "accepting" /\ lock'[ProcOf[c]] = lock[ProcOf[c]]
      <3>1. ProcOf[c] # p /\ conn[c].pc = "accepting" /\ ProcOf[c] \in Procs
        BY <1>3, <2>1, Disjoint, ConstantsAssumption
      <3> QED BY <1>1, <1>2, <3>1 DEF TypeOK
    <2>2. Limits(conn, lock)
      BY LimitsAre DEF Inv
    <2> QED BY <1>3, <2>1, <2>2, Disjoint, LimitsStay
  <1>10. Onward
    BY <1>1, <1>4, Disjoint DEF Onward, BeenOut
  <1>11. CastersKnow'
    <2> SUFFICES ASSUME NEW k \in Casters
                 PROVE  CasterKnows(k, cast'[k], cast', linked')
      BY DEF CastersKnow
    <2>1. CasterKnows(k, cast[k], cast, linked)
      BY <1>2 DEF CastersKnow
    <2>2. CASE cast[k].at = p \/ k = p
      <3>1. k \in Events => cast[k].pc # "idle"
        BY <2>1, <2>2, Disjoint, ConstantsAssumption DEF CasterKnows
      <3> QED BY <1>1, <1>4, <2>1, <2>2, <3>1 DEF CasterKnows
    <2>3. CASE ~(cast[k].at = p \/ k = p)
      BY <1>1, <1>4, <1>10, <2>1, <2>3 DEF CasterKnows, Onward
    <2> QED BY <2>2, <2>3
  <1>12. /\ \A r \in Procs : \A e \in Members(inbox'[r]) : e \in Members(inbox[r])
         /\ \A s \in Streams : \A e \in Members(queue'[s]) : e \in Members(queue[s])
    BY <1>5, <1>6, MembersNone
  <1>13. /\ \A s \in Streams : conn[s].pc # "none" =>
              conn'[s].pc # "none" /\ conn'[s].subs = conn[s].subs
         /\ \A s \in Streams : conn'[s].pc = "none" => queue'[s] = <<>>
    BY <1>2, <1>3, <1>5, Disjoint DEF Flow, QueuesKnown
  <1>14. \A c \in Conns, e \in Events : got'[c][e] > 0 => got[c][e] > 0
    BY <1>1
  <1>15. Flow'
    BY <1>2, <1>5, <1>10, <1>11, <1>12, <1>13, <1>14, FlowStays
  <1> QED BY <1>8, <1>9, <1>15, Combined
-----------------------------------------------------------------------------
(* The theorems *)

LEMMA InitInv ==
  ASSUME Init
  PROVE  Inv
  <1>1. TypeOK
    BY ConstantsAssumption, MembersNone DEF Init, TypeOK, Conn, Cast, Idle
  <1>2. \A c \in Conns : conn[c].pc = "none"
    BY DEF Init
  <1>3. Limits(conn, lock)
    <2>1. \A p, t : PlacesIn(conn, p, t) = {}
      BY <1>2, Disjoint DEF PlacesIn
    <2>2. ASSUME NEW p \in Procs, NEW c \in Sockets
          PROVE  Cardinality({d \in PlacesIn(conn, p, TenantOf[c]) : LimitOf[d] <= LimitOf[c]})
                   <= LimitOf[c]
      <3>1. {d \in PlacesIn(conn, p, TenantOf[c]) : LimitOf[d] <= LimitOf[c]} = {}
        BY <2>1
      <3>2. LimitOf[c] \in Nat
        BY ConstantsAssumption
      <3> QED BY <3>1, <3>2, FS_EmptySet
    <2> QED BY <1>2, <2>2, Disjoint DEF Limits
  <1>4. CastersKnow
    BY Disjoint DEF Init, Idle, CastersKnow, CasterKnows
  <1>5. InboxesKnown
    BY MembersNone DEF Init, InboxesKnown
  <1>6. QueuesKnown
    BY MembersNone DEF Init, QueuesKnown
  <1>7. GotKnown
    BY Disjoint DEF Init, GotKnown
  <1> QED BY <1>1, <1>3, <1>4, <1>5, <1>6, <1>7, LimitsAre DEF Inv, Flow

LEMMA StutterInv ==
  ASSUME Inv, UNCHANGED vars
  PROVE  Inv'
  <1>1. /\ conn' = conn /\ gone' = gone /\ lock' = lock /\ cast' = cast /\ linked' = linked
        /\ listening' = listening /\ inbox' = inbox /\ queue' = queue /\ got' = got
        /\ faults' = faults
    BY DEF vars
  <1>2. TypeOK'
    BY <1>1 DEF Inv, TypeOK
  <1>3. Flow'
    <2>1. Onward /\ CastersKnow'
      BY <1>1, Rests DEF Inv, Flow
    <2> QED BY <1>1, <2>1, CasterFlow
  <1> QED BY <1>1, <1>2, <1>3, LimitsRest, Combined

LEMMA StepInv ==
  ASSUME Inv, [Next]_vars
  PROVE  Inv'
  <1>1. ASSUME ServerStep
        PROVE  Inv'
    <2>1. ASSUME NEW c \in Sockets, Accept(c) \/ Welcome(c) \/ Disconnect(c)
          PROVE  Inv'
      BY <2>1, AcceptStep, WelcomeStep, DisconnectStep
    <2>2. ASSUME NEW s \in Streams, Pump(s) \/ Close(s)
          PROVE  Inv'
      BY <2>2, PumpStep, CloseStep
    <2>3. ASSUME NEW k \in Casters, Collect(k) \/ FeedStreams(k) \/ \E c \in Sockets : Send(k, c)
          PROVE  Inv'
      BY <2>3, CollectStep, FeedStep, SendStep
    <2>4. ASSUME NEW e \in Events, ToRedis(e)
          PROVE  Inv'
      BY <2>4, ToRedisStep
    <2>5. ASSUME NEW p \in Procs, Listen(p)
          PROVE  Inv'
      BY <2>5, ListenStep
    <2> QED BY <1>1, <2>1, <2>2, <2>3, <2>4, <2>5 DEF ServerStep
  <1>2. ASSUME NEW c \in Sockets, Admit(c)
        PROVE  Inv'
    BY <1>2, AdmitStep
  <1>3. ASSUME NEW c \in Sockets, NEW t \in Asks[c], Subscribe(c, t) \/ Unsubscribe(c, t)
        PROVE  Inv'
    <2>1. conn[c].subs \in SUBSET Topics /\ t \in Topics
      BY Disjoint, ConstantsAssumption DEF Inv, TypeOK, Conn
    <2>2. PICK subs \in SUBSET Topics : Filter(c, subs)
      BY <1>3, <2>1 DEF Subscribe, Unsubscribe
    <2> QED BY <2>2, FilterStep
  <1>4. ASSUME NEW c \in Conns, Leave(c)
        PROVE  Inv'
    BY <1>4, LeaveStep
  <1>5. ASSUME NEW s \in Streams, NEW subs \in SUBSET Asks[s], Open(s, subs)
        PROVE  Inv'
    <2>1. subs \in SUBSET Topics
      BY Disjoint, ConstantsAssumption
    <2> QED BY <1>5, <2>1, OpenStep
  <1>6. ASSUME NEW e \in Events, RedisFails(e)
        PROVE  Inv'
    BY <1>6, BusFailsStep
  <1>7. ASSUME NEW e \in Events, NEW p \in Procs, Publish(e, p)
        PROVE  Inv'
    BY <1>7, PublishStep
  <1>8. ASSUME NEW p \in Procs, ListenerDies(p) \/ Stop(p)
        PROVE  Inv'
    BY <1>8, ListenerDiesStep, StopStep
  <1> QED BY <1>1, <1>2, <1>3, <1>4, <1>5, <1>6, <1>7, <1>8, StutterInv DEF Next

LEMMA InvAlways == Spec => []Inv
  BY InitInv, StepInv, PTL DEF Spec

\* The handlers, broadcasters, queues and counters stay what the code means by them.
THEOREM TypeInvariant == Spec => []TypeOK
  <1>1. Inv => TypeOK
    BY DEF Inv
  <1> QED BY <1>1, InvAlways, PTL

\* However many clients of a tenant connect at once, the count under the lock and the
\* registration after accept() keep each process within WS_TIER_LIMITS.
THEOREM LimitsHold == Spec => []LimitHolds
  <1>1. Inv => LimitHolds
    BY DEF Inv
  <1> QED BY <1>1, InvAlways, PTL

\* Whatever runs side by side, a connection has an event of another tenant only when
\* the event came by Redis or its fallback: publish_event itself keeps tenants apart.
THEOREM ForeignNeedsRelay == Spec => []ForeignOnlyByRelay
  <1>1. Inv => ForeignOnlyByRelay
    BY DEF Inv, Flow, GotKnown, MayHave, BeenOut, ForeignOnlyByRelay
  <1> QED BY <1>1, InvAlways, PTL

\* Whichever way an event comes, and in whatever order, a stream gets only what its URL
\* asks for.
THEOREM StreamsAsked == Spec => []StreamsGetOnlyAsked
  <1>1. Inv => StreamsGetOnlyAsked
    BY DEF Inv, Flow, GotKnown, StreamsGetOnlyAsked
  <1> QED BY <1>1, InvAlways, PTL

-----------------------------------------------------------------------------
(* How often *)

\* The broadcast in the state q has yet to serve c.
Left(c, q) == q.pc = "collect" \/ (q.pc = "send" /\ (c \in q.todo \/ c \in Streams))

\* How many copies of e its broadcaster f[e] has had ready for c: one for its tenant, and one
\* more for everyone after Redis has failed.
OwnCopies(f, c, e) ==
  IF f[e].at # ProcOf[c] THEN 0
  ELSE (IF f[e].scoped THEN 0 ELSE 1) + (IF Left(c, f[e]) THEN 0 ELSE 1)

\* The relay of e to c is under way, given the broadcasters f and the inboxes x.
Coming(f, x, c, e) ==
  \/ e \in Members(x[ProcOf[c]])
  \/ f[ProcOf[c]].event = e /\ Left(c, f[ProcOf[c]])

RelayCopies(f, l, x, c, e) == IF BeenOut(f, l, e) /\ ~Coming(f, x, c, e) THEN 1 ELSE 0

Times(seq, x) == Cardinality({i \in 1 .. Len(seq) : seq[i] = x})

\* How often c has e, or will when its queue is read.
Had(g, u, c, e) == g[c][e] + (IF c \in Streams THEN Times(u[c], e) ELSE 0)

Counted ==
  \A c \in Conns, e \in Events :
    Had(got, queue, c, e) <= OwnCopies(cast, c, e) + RelayCopies(cast, linked, inbox, c, e)

Distinct(seq) == \A i, j \in 1 .. Len(seq) : seq[i] = seq[j] => i = j

\* A process relays an event once.
RelayedOnce ==
  \A p \in Procs :
    /\ Distinct(inbox[p])
    /\ cast[p].pc \in {"collect", "send"} => cast[p].event \notin Members(inbox[p])

\* A broadcaster serves one process.
CasterServes(k, q, n) ==
  /\ k \in Procs /\ q.pc \in {"collect", "send"} => q.at = k
  /\ q.pc = "send" => \A c \in q.todo : ProcOf[c] = q.at
  /\ k \in Events /\ q.pc = "redis" => q.scoped
  /\ k \in Events /\ q.pc # "idle" /\ n = 0 => q.scoped

CastersServe == \A k \in Casters : CasterServes(k, cast[k], faults)

Copies == CastersServe /\ RelayedOnce /\ Counted

LEMMA TimesNone ==
  ASSUME NEW x
  PROVE  Times(<<>>, x) = 0
  <1>1. {i \in 1 .. Len(<<>>) : <<>>[i] = x} = {}
    OBVIOUS
  <1> QED BY <1>1, FS_EmptySet DEF Times

LEMMA TimesType ==
  ASSUME NEW S, NEW seq \in Seq(S), NEW x
  PROVE  /\ IsFiniteSet({i \in 1 .. Len(seq) : seq[i] = x}) /\ Times(seq, x) \in Nat
  <1>1. Len(seq) \in Nat
    OBVIOUS
  <1>2. IsFiniteSet(1 .. Len(seq)) /\ {i \in 1 .. Len(seq) : seq[i] = x} \in SUBSET (1 .. Len(seq))
    BY <1>1, FS_Interval
  <1>3. IsFiniteSet({i \in 1 .. Len(seq) : seq[i] = x})
    BY <1>2, FS_Subset
  <1> QED BY <1>3, FS_CardinalityType DEF Times

LEMMA TimesAppend ==
  ASSUME NEW S, NEW seq \in Seq(S), NEW y \in S, NEW x
  PROVE  Times(Append(seq, y), x) = Times(seq, x) + (IF x = y THEN 1 ELSE 0)
  <1>1. PICK n \in Nat : n = Len(seq)
    OBVIOUS
  <1>2. PICK long : long = Append(seq, y)
    OBVIOUS
  <1>3. Len(long) = n + 1 /\ long[n + 1] = y /\ \A i \in 1 .. n : long[i] = seq[i]
    BY <1>1, <1>2
  <1>4. PICK T : T = {i \in 1 .. Len(seq) : seq[i] = x}
    OBVIOUS
  <1>5. IsFiniteSet(T) /\ Times(seq, x) = Cardinality(T) /\ Cardinality(T) \in Nat /\ n + 1 \notin T
    <2>1. IsFiniteSet(T)
      BY <1>4, TimesType
    <2>2. Cardinality(T) \in Nat
      BY <2>1, FS_CardinalityType
    <2>3. n + 1 \notin T
      BY <1>1, <1>4
    <2>4. Times(seq, x) = Cardinality(T)
      BY <1>4 DEF Times
    <2> QED BY <2>1, <2>2, <2>3, <2>4
  <1>6. CASE x = y
    <2>1. {i \in 1 .. Len(long) : long[i] = x} = T \union {n + 1}
      BY <1>1, <1>3, <1>4, <1>6
    <2>2. Times(long, x) = Cardinality(T \union {n + 1})
      BY <2>1 DEF Times
    <2>3. Cardinality(T \union {n + 1}) = Cardinality(T) + 1
      BY <1>5, FS_AddElement
    <2> QED BY <1>2, <1>5, <1>6, <2>2, <2>3
  <1>7. CASE x # y
    <2>1. {i \in 1 .. Len(long) : long[i] = x} = T
      BY <1>1, <1>3, <1>4, <1>7
    <2>2. Times(long, x) = Cardinality(T)
      BY <2>1 DEF Times
    <2> QED BY <1>2, <1>5, <1>7, <2>2
  <1> QED BY <1>6, <1>7

LEMMA TimesTail ==
  ASSUME NEW S, NEW seq \in Seq(S), seq # <<>>, NEW x
  PROVE  Times(Tail(seq), x) + (IF x = Head(seq) THEN 1 ELSE 0) <= Times(seq, x)
  <1>1. PICK n \in Nat : n = Len(seq) - 1
    OBVIOUS
  <1>2. PICK short : short = Tail(seq)
    OBVIOUS
  <1>3. /\ Len(seq) = n + 1 /\ short \in Seq(S) /\ Len(short) = n /\ Head(seq) = seq[1]
        /\ \A i \in 1 .. n : short[i] = seq[i + 1]
    BY <1>1, <1>2
  <1>4. PICK A, B : A = {i \in 1 .. Len(seq) : seq[i] = x} /\ B = {i \in 1 .. Len(short) : short[i] = x}
    OBVIOUS
  <1>5. IsFiniteSet(A) /\ IsFiniteSet(B) /\ Cardinality(A) \in Nat /\ Cardinality(B) \in Nat
    <2>1. IsFiniteSet(A)
      BY <1>4, TimesType
    <2>2. IsFiniteSet(B)
      BY <1>3, <1>4, TimesType
    <2> QED BY <2>1, <2>2, FS_CardinalityType
  <1>6. IsFiniteSet(A \ {1})
        /\ Cardinality(A \ {1}) = IF 1 \in A THEN Cardinality(A) - 1 ELSE Cardinality(A)
    BY <1>5, FS_RemoveElement
  <1>7. Cardinality(B) <= Cardinality(A \ {1})
    <2>1. PICK f : f = [i \in B |-> i + 1]
      OBVIOUS
    <2>2. ASSUME NEW i \in B PROVE i \in Int /\ i + 1 \in A \ {1}
      BY <1>3, <1>4
    <2>3. f \in [B -> A \ {1}] /\ \A i, j \in B : f[i] = f[j] => i = j
      BY <2>1, <2>2
    <2>4. f \in Injection(B, A \ {1})
      BY <2>3 DEF Injection, IsInjective
    <2> QED BY <1>6, <2>4, FS_Injection
  <1>8. x = Head(seq) => 1 \in A
    BY <1>3, <1>4
  <1>9. Cardinality(B) + (IF x = Head(seq) THEN 1 ELSE 0) <= Cardinality(A)
    BY <1>5, <1>6, <1>7, <1>8
  <1>10. Times(seq, x) = Cardinality(A) /\ Times(short, x) = Cardinality(B)
    BY <1>4 DEF Times
  <1> QED BY <1>2, <1>9, <1>10

LEMMA DistinctTail ==
  ASSUME NEW S, NEW seq \in Seq(S), seq # <<>>, Distinct(seq)
  PROVE  /\ Distinct(Tail(seq)) /\ Head(seq) \notin Members(Tail(seq))
         /\ Members(seq) \subseteq Members(Tail(seq)) \union {Head(seq)}
  <1>1. PICK n \in Nat : n = Len(seq) - 1
    OBVIOUS
  <1>2. PICK short : short = Tail(seq)
    OBVIOUS
  <1>3. /\ Len(seq) = n + 1 /\ Len(short) = n /\ Head(seq) = seq[1]
        /\ \A i \in 1 .. n : short[i] = seq[i + 1]
    BY <1>1, <1>2
  <1>4. Distinct(short)
    <2>1. ASSUME NEW i \in 1 .. n, NEW j \in 1 .. n, short[i] = short[j] PROVE i = j
      <3>1. i + 1 \in 1 .. n + 1 /\ j + 1 \in 1 .. n + 1 /\ seq[i + 1] = seq[j + 1]
        BY <1>3, <2>1
      <3>2. i + 1 = j + 1
        BY <1>3, <3>1 DEF Distinct
      <3> QED BY <3>2
    <2> QED BY <1>3, <2>1 DEF Distinct
  <1>5. \A i \in 1 .. n : seq[i + 1] # seq[1]
    <2>1. ASSUME NEW i \in 1 .. n PROVE seq[i + 1] # seq[1]
      <3>1. i + 1 \in 1 .. n + 1 /\ 1 \in 1 .. n + 1 /\ i + 1 # 1
        OBVIOUS
      <3> QED BY <1>3, <3>1 DEF Distinct
    <2> QED BY <2>1
  <1>6. Head(seq) \notin Members(short)
    BY <1>3, <1>5 DEF Members
  <1>7. ASSUME NEW i \in 1 .. n + 1 PROVE seq[i] \in Members(short) \union {seq[1]}
    <2>1. CASE i = 1
      BY <2>1
    <2>2. CASE i # 1
      <3>1. i - 1 \in 1 .. n /\ (i - 1) + 1 = i
        BY <2>2
      <3>2. short[i - 1] = seq[i]
        BY <1>3, <3>1
      <3> QED BY <1>3, <3>1, <3>2 DEF Members
    <2> QED BY <2>1, <2>2
  <1>8. Members(seq) \subseteq Members(short) \union {Head(seq)}
    BY <1>3, <1>7 DEF Members
  <1> QED BY <1>2, <1>4, <1>6, <1>8

LEMMA DistinctAppend ==
  ASSUME NEW S, NEW seq \in Seq(S), NEW x \in S, Distinct(seq), x \notin Members(seq)
  PROVE  /\ Distinct(seq \o <<x>>)
         /\ Members(seq) \subseteq Members(seq \o <<x>>) /\ x \in Members(seq \o <<x>>)
  <1>1. PICK n \in Nat : n = Len(seq)
    OBVIOUS
  <1>2. PICK long : long = seq \o <<x>>
    OBVIOUS
  <1>3. Len(long) = n + 1 /\ long[n + 1] = x /\ \A i \in 1 .. n : long[i] = seq[i]
    BY <1>1, <1>2
  <1>4. \A i \in 1 .. n : seq[i] # x
    BY <1>1 DEF Members
  <1>5. ASSUME NEW i \in 1 .. n + 1, NEW j \in 1 .. n + 1, long[i] = long[j] PROVE i = j
    <2>1. CASE i \in 1 .. n /\ j \in 1 .. n
      BY <1>1, <1>3, <1>5, <2>1 DEF Distinct
    <2>2. CASE i = n + 1 \/ j = n + 1
      BY <1>3, <1>4, <1>5, <2>2
    <2> QED BY <2>1, <2>2
  <1>6. Distinct(long)
    BY <1>3, <1>5 DEF Distinct
  <1>7. n + 1 \in 1 .. n + 1 /\ \A i \in 1 .. n : i \in 1 .. n + 1
    OBVIOUS
  <1>8. Members(seq) \subseteq Members(long) /\ x \in Members(long)
    BY <1>1, <1>3, <1>7 DEF Members
  <1> QED BY <1>2, <1>6, <1>8

LEMMA CopiesType ==
  ASSUME NEW f, NEW l, NEW x, NEW c, NEW e
  PROVE  /\ OwnCopies(f, c, e) \in Nat /\ RelayCopies(f, l, x, c, e) \in Nat
         /\ RelayCopies(f, l, x, c, e) <= 1
  BY DEF OwnCopies, RelayCopies

LEMMA HadType ==
  ASSUME TypeOK, NEW c \in Conns, NEW e \in Events
  PROVE  Had(got, queue, c, e) \in Nat
  <1>1. got[c][e] \in Nat
    BY DEF TypeOK
  <1>2. CASE c \in Streams
    <2>1. queue[c] \in Seq(Events)
      BY <1>2 DEF TypeOK
    <2>2. Times(queue[c], e) \in Nat
      BY <2>1, TimesType
    <2> QED BY <1>1, <1>2, <2>2 DEF Had
  <1>3. CASE c \notin Streams
    BY <1>1, <1>3 DEF Had
  <1> QED BY <1>2, <1>3

LEMMA OwnGrows ==
  ASSUME NEW f, NEW g, NEW c, NEW e,
         \/ f[e].at # ProcOf[c]
         \/ /\ g[e].at = f[e].at /\ (g[e].scoped => f[e].scoped)
            /\ Left(c, g[e]) => Left(c, f[e]) \/ (f[e].scoped /\ ~g[e].scoped)
  PROVE  OwnCopies(f, c, e) <= OwnCopies(g, c, e)
  <1>1. CASE f[e].at # ProcOf[c]
    <2>1. OwnCopies(f, c, e) = 0
      BY <1>1 DEF OwnCopies
    <2> QED BY <2>1, CopiesType
  <1>2. CASE f[e].at = ProcOf[c]
    BY <1>2 DEF OwnCopies
  <1> QED BY <1>1, <1>2

LEMMA RelayGrows ==
  ASSUME NEW f, NEW l, NEW x, NEW g, NEW m, NEW y, NEW c, NEW e,
         BeenOut(f, l, e) => BeenOut(g, m, e),
         BeenOut(f, l, e) /\ Coming(g, y, c, e) => Coming(f, x, c, e)
  PROVE  RelayCopies(f, l, x, c, e) <= RelayCopies(g, m, y, c, e)
  BY DEF RelayCopies

\* c has at most n copies more, and its broadcasters have had n more ready.
LEMMA CountGoesOn ==
  ASSUME Inv, Inv', Counted, NEW c \in Conns, NEW e \in Events, NEW n \in Nat,
         Had(got', queue', c, e) <= Had(got, queue, c, e) + n,
         OwnCopies(cast, c, e) + RelayCopies(cast, linked, inbox, c, e) + n
           <= OwnCopies(cast', c, e) + RelayCopies(cast', linked', inbox', c, e)
  PROVE  Had(got', queue', c, e) <= OwnCopies(cast', c, e) + RelayCopies(cast', linked', inbox', c, e)
  <1>1. TypeOK /\ TypeOK'
    BY DEF Inv
  <1>2. PICK h, i : h = Had(got, queue, c, e) /\ i = Had(got', queue', c, e)
    OBVIOUS
  <1>3. h \in Nat
    BY <1>1, <1>2, HadType
  <1>4. i \in Nat
    <2>1. got'[c][e] \in Nat
      BY <1>1 DEF TypeOK
    <2>2. CASE c \in Streams
      <3>1. queue'[c] \in Seq(Events)
        BY <1>1, <2>2 DEF TypeOK
      <3>2. Times(queue'[c], e) \in Nat
        BY <3>1, TimesType
      <3> QED BY <1>2, <2>1, <2>2, <3>2 DEF Had
    <2>3. CASE c \notin Streams
      BY <1>2, <2>1, <2>3 DEF Had
    <2> QED BY <2>2, <2>3
  <1>5. PICK a, b : a = OwnCopies(cast, c, e) + RelayCopies(cast, linked, inbox, c, e)
                    /\ b = OwnCopies(cast', c, e) + RelayCopies(cast', linked', inbox', c, e)
    OBVIOUS
  <1>6. a \in Nat /\ b \in Nat
    BY <1>5, CopiesType
  <1>7. h <= a
    BY <1>2, <1>5 DEF Counted
  <1>8. i <= h + n /\ a + n <= b
    BY <1>2, <1>5
  <1>9. i <= b
    BY <1>3, <1>4, <1>6, <1>7, <1>8
  <1> QED BY <1>2, <1>5, <1>9

LEMMA CountStays ==
  ASSUME Inv, Inv', Counted, NEW c \in Conns, NEW e \in Events,
         Had(got', queue', c, e) <= Had(got, queue, c, e),
         OwnCopies(cast, c, e) <= OwnCopies(cast', c, e),
         RelayCopies(cast, linked, inbox, c, e) <= RelayCopies(cast', linked', inbox', c, e)
  PROVE  Had(got', queue', c, e) <= OwnCopies(cast', c, e) + RelayCopies(cast', linked', inbox', c, e)
  <1>1. PICK a, b, o, r : /\ a = OwnCopies(cast, c, e) /\ b = RelayCopies(cast, linked, inbox, c, e)
                          /\ o = OwnCopies(cast', c, e) /\ r = RelayCopies(cast', linked', inbox', c, e)
    OBVIOUS
  <1>2. a \in Nat /\ b \in Nat /\ o \in Nat /\ r \in Nat
    BY <1>1, CopiesType
  <1>3. a + b + 0 <= o + r
    BY <1>1, <1>2
  <1>4. Had(got, queue, c, e) + 0 = Had(got, queue, c, e)
    BY HadType DEF Inv
  <1> QED BY <1>1, <1>3, <1>4, CountGoesOn

LEMMA CountedWillBe ==
  ASSUME \A c \in Conns, e \in Events :
           Had(got', queue', c, e) <= OwnCopies(cast', c, e) + RelayCopies(cast', linked', inbox', c, e)
  PROVE  Counted'
  BY DEF Counted

LEMMA ProcOfConn ==
  ASSUME NEW c \in Conns
  PROVE  ProcOf[c] \in Procs /\ ProcOf[c] \in Casters /\ ProcOf[c] \notin Events
  BY ConstantsAssumption, Disjoint

LEMMA ServesLater ==
  ASSUME CastersServe, NEW k, NEW q, NEW m, CasterServes(k, q, faults), m = faults \/ m # 0
  PROVE  CasterServes(k, q, m)
  BY DEF CasterServes

LEMMA CastersServeOn ==
  ASSUME Inv, CastersServe, NEW k \in Casters, NEW q, cast' = [cast EXCEPT ![k] = q],
         CasterServes(k, q, faults'), faults' = faults \/ faults' # 0
  PROVE  CastersServe'
  <1>1. ASSUME NEW j \in Casters PROVE CasterServes(j, cast'[j], faults')
    <2>1. cast'[j] = IF j = k THEN q ELSE cast[j]
      BY DEF Inv, TypeOK
    <2>2. CasterServes(j, cast[j], faults')
      BY ServesLater DEF CastersServe
    <2> QED BY <2>1, <2>2
  <1> QED BY <1>1 DEF CastersServe

\* A step that leaves what broadcasters have done alone, and takes no more from a queue than
\* it gives.
LEMMA RestCopies ==
  ASSUME Inv, Inv', Copies, UNCHANGED <<cast, linked, inbox, faults>>,
         \A c \in Conns, e \in Events : Had(got', queue', c, e) <= Had(got, queue, c, e)
  PROVE  Copies'
  <1>1. CastersServe' /\ RelayedOnce'
    BY DEF Copies, CastersServe, RelayedOnce
  <1>2. ASSUME NEW c \in Conns, NEW e \in Events
        PROVE  Had(got', queue', c, e) <= OwnCopies(cast', c, e) + RelayCopies(cast', linked', inbox', c, e)
    <2>1. OwnCopies(cast, c, e) <= OwnCopies(cast', c, e)
      BY CopiesType
    <2>2. RelayCopies(cast, linked, inbox, c, e) <= RelayCopies(cast', linked', inbox', c, e)
      BY CopiesType
    <2> QED BY <2>1, <2>2, CountStays DEF Copies
  <1> QED BY <1>1, <1>2, CountedWillBe DEF Copies

LEMMA IdleCopies ==
  ASSUME Inv, Inv', Copies, UNCHANGED <<cast, linked, inbox, faults, got, queue>>
  PROVE  Copies'
  <1>1. ASSUME NEW c \in Conns, NEW e \in Events
        PROVE  Had(got', queue', c, e) <= Had(got, queue, c, e)
    BY HadType DEF Inv
  <1> QED BY <1>1, RestCopies

\* How far the broadcaster of e is, when it goes on to q.
Progress(e, q) ==
  /\ BeenOut(cast, linked, e) => q.at \in linked /\ (q.pc = "done" \/ ~q.scoped)
  /\ \A c \in Conns :
       \/ cast[e].at # ProcOf[c]
       \/ /\ q.at = cast[e].at /\ (q.scoped => cast[e].scoped)
          /\ Left(c, q) => Left(c, cast[e]) \/ (cast[e].scoped /\ ~q.scoped)

LEMMA EventProgress ==
  ASSUME Inv, NEW k \in Events, NEW q, cast' = [cast EXCEPT ![k] = q], linked' = linked, Progress(k, q),
         NEW c \in Conns, NEW e \in Events,
         BeenOut(cast, linked, e) /\ e \in Members(inbox'[ProcOf[c]]) => e \in Members(inbox[ProcOf[c]])
  PROVE  /\ OwnCopies(cast, c, e) <= OwnCopies(cast', c, e)
         /\ RelayCopies(cast, linked, inbox, c, e) <= RelayCopies(cast', linked', inbox', c, e)
  <1>1. k \in Casters /\ \A j \in Casters : cast'[j] = IF j = k THEN q ELSE cast[j]
    BY Disjoint DEF Inv, TypeOK
  <1>2. e \in Casters /\ ProcOf[c] \in Casters /\ ProcOf[c] # k
    BY Disjoint, ProcOfConn
  <1>3. cast'[ProcOf[c]] = cast[ProcOf[c]] /\ cast'[e] = IF e = k THEN q ELSE cast[e]
    BY <1>1, <1>2
  <1>4. OwnCopies(cast, c, e) <= OwnCopies(cast', c, e)
    <2>1. CASE e = k
      BY <1>3, <2>1, OwnGrows DEF Progress
    <2>2. CASE e # k
      BY <1>3, <2>2, OwnGrows
    <2> QED BY <2>1, <2>2
  <1>5. BeenOut(cast, linked, e) => BeenOut(cast', linked', e)
    BY <1>3 DEF Progress, BeenOut
  <1>6. BeenOut(cast, linked, e) /\ Coming(cast', inbox', c, e) => Coming(cast, inbox, c, e)
    BY <1>3 DEF Coming
  <1> QED BY <1>4, <1>5, <1>6, RelayGrows

LEMMA EventCopies ==
  ASSUME Inv, Inv', Copies, NEW k \in Events, NEW q, cast' = [cast EXCEPT ![k] = q],
         UNCHANGED <<got, queue, linked>>, faults' = faults \/ faults' # 0,
         CasterServes(k, q, faults'), Progress(k, q), RelayedOnce',
         \A p \in Procs : \A e \in Members(inbox'[p]) : e \in Members(inbox[p]) \/ ~BeenOut(cast, linked, e)
  PROVE  Copies'
  <1>1. CastersServe'
    BY Disjoint, CastersServeOn DEF Copies
  <1>2. ASSUME NEW c \in Conns, NEW e \in Events
        PROVE  Had(got', queue', c, e) <= OwnCopies(cast', c, e) + RelayCopies(cast', linked', inbox', c, e)
    <2>1. BeenOut(cast, linked, e) /\ e \in Members(inbox'[ProcOf[c]]) => e \in Members(inbox[ProcOf[c]])
      BY ProcOfConn
    <2>2. Had(got', queue', c, e) <= Had(got, queue, c, e)
      BY HadType DEF Inv
    <2> QED BY <2>1, <2>2, EventProgress, CountStays DEF Copies
  <1> QED BY <1>1, <1>2, CountedWillBe DEF Copies

LEMMA ProcProgress ==
  ASSUME Inv, NEW k \in Procs, NEW q, cast' = [cast EXCEPT ![k] = q], linked' = linked,
         NEW c \in Conns, NEW e \in Events,
         BeenOut(cast, linked, e) /\ Coming(cast', inbox', c, e) => Coming(cast, inbox, c, e)
  PROVE  /\ OwnCopies(cast, c, e) <= OwnCopies(cast', c, e)
         /\ RelayCopies(cast, linked, inbox, c, e) <= RelayCopies(cast', linked', inbox', c, e)
  <1>1. cast'[e] = cast[e]
    BY Disjoint DEF Inv, TypeOK
  <1>2. OwnCopies(cast, c, e) <= OwnCopies(cast', c, e)
    BY <1>1, OwnGrows
  <1>3. BeenOut(cast, linked, e) => BeenOut(cast', linked', e)
    BY <1>1 DEF BeenOut
  <1> QED BY <1>2, <1>3, RelayGrows

LEMMA ProcCopies ==
  ASSUME Inv, Inv', Copies, NEW k \in Procs, NEW q, cast' = [cast EXCEPT ![k] = q],
         UNCHANGED <<got, queue, linked, faults>>, CasterServes(k, q, faults), RelayedOnce',
         \A c \in Conns, e \in Events : Coming(cast', inbox', c, e) => Coming(cast, inbox, c, e)
  PROVE  Copies'
  <1>1. CastersServe'
    BY Disjoint, CastersServeOn DEF Copies
  <1>2. ASSUME NEW c \in Conns, NEW e \in Events
        PROVE  Had(got', queue', c, e) <= OwnCopies(cast', c, e) + RelayCopies(cast', linked', inbox', c, e)
    <2>1. Had(got', queue', c, e) <= Had(got, queue, c, e)
      BY HadType DEF Inv
    <2> QED BY <2>1, ProcProgress, CountStays DEF Copies
  <1> QED BY <1>1, <1>2, CountedWillBe DEF Copies

LEMMA PublishCopies ==
  ASSUME Inv, Inv', Copies, NEW e \in Events, NEW p \in Procs, Publish(e, p)
  PROVE  Copies'
  <1>1. PICK q : q = [pc |-> "collect", at |-> p, event |-> e, scoped |-> TRUE, todo |-> {}]
    OBVIOUS
  <1>2. /\ cast' = [cast EXCEPT ![e] = q] /\ cast[e].pc = "idle"
        /\ UNCHANGED <<linked, inbox, queue, got, faults>>
    BY <1>1 DEF Publish, Begun
  <1>3. e \in Casters /\ e \notin Procs /\ CasterKnows(e, cast[e], cast, linked) /\ linked \subseteq Procs
    BY Disjoint, CasterFacts
  <1>4. cast[e].at = NoOne /\ NoOne \notin Procs
    BY <1>2, <1>3, ConstantsAssumption DEF CasterKnows
  <1>5. ~BeenOut(cast, linked, e)
    BY <1>3, <1>4 DEF BeenOut
  <1>6. Progress(e, q)
    BY <1>4, <1>5, ProcOfConn DEF Progress
  <1>7. CasterServes(e, q, faults')
    BY <1>1, <1>3 DEF CasterServes
  <1>8. RelayedOnce'
    <2>1. ASSUME NEW r \in Procs PROVE cast'[r] = cast[r]
      BY <1>2, <1>3, Disjoint DEF Inv, TypeOK
    <2> QED BY <1>2, <2>1 DEF Copies, RelayedOnce
  <1>9. \A r \in Procs : \A f \in Members(inbox'[r]) : f \in Members(inbox[r]) \/ ~BeenOut(cast, linked, f)
    BY <1>2
  <1> QED BY <1>2, <1>6, <1>7, <1>8, <1>9, EventCopies

\* Inboxes stay, and a broadcaster that serves goes on with its event or ends.
LEMMA OnceStays ==
  ASSUME Inv, RelayedOnce, NEW k \in Casters, NEW q, cast' = [cast EXCEPT ![k] = q], inbox' = inbox,
         k \in Procs /\ q.pc \in {"collect", "send"} =>
           cast[k].pc \in {"collect", "send"} /\ q.event = cast[k].event
  PROVE  RelayedOnce'
  <1>1. ASSUME NEW p \in Procs
        PROVE  Distinct(inbox'[p]) /\ (cast'[p].pc \in {"collect", "send"} => cast'[p].event \notin Members(inbox'[p]))
    <2>1. cast'[p] = IF p = k THEN q ELSE cast[p]
      BY Disjoint DEF Inv, TypeOK
    <2> QED BY <2>1 DEF RelayedOnce
  <1> QED BY <1>1 DEF RelayedOnce

LEMMA CollectCopies ==
  ASSUME Inv, Inv', Copies, NEW k \in Casters, Collect(k)
  PROVE  Copies'
  <1>1. PICK todo : todo = {c \in Sockets : Reaches(k, c)}
    OBVIOUS
  <1>2. PICK q : q = [cast[k] EXCEPT !.pc = "send", !.todo = todo]
    OBVIOUS
  <1>3. /\ cast[k] \in Cast /\ CasterKnows(k, cast[k], cast, linked) /\ CasterServes(k, cast[k], faults)
        /\ cast[k].pc = "collect" /\ UNCHANGED <<linked, inbox, queue, got, faults>>
    BY CasterFacts DEF Copies, CastersServe, Collect
  <1>4. cast' = [cast EXCEPT ![k] = q]
    BY <1>1, <1>2, CasterFacts DEF Collect
  <1>5. /\ q.pc = "send" /\ q.todo = todo /\ q.at = cast[k].at /\ q.event = cast[k].event
        /\ q.scoped = cast[k].scoped
    BY <1>2, <1>3 DEF Cast
  <1>6. \A c \in todo : ProcOf[c] = q.at
    BY <1>1, <1>5 DEF Reaches
  <1>7. CasterServes(k, q, faults')
    BY <1>3, <1>5, <1>6 DEF CasterServes
  <1>8. RelayedOnce'
    BY <1>3, <1>4, <1>5, OnceStays DEF Copies
  <1>9. \A c : Left(c, cast[k])
    BY <1>3 DEF Left
  <1>10. CASE k \in Events
    <2>1. Progress(k, q)
      BY <1>3, <1>5, <1>9 DEF Progress, BeenOut
    <2>2. \A r \in Procs : \A f \in Members(inbox'[r]) : f \in Members(inbox[r]) \/ ~BeenOut(cast, linked, f)
      BY <1>3
    <2> QED BY <1>3, <1>4, <1>7, <1>8, <1>10, <2>1, <2>2, EventCopies
  <1>11. CASE k \in Procs
    <2>1. ASSUME NEW c \in Conns, NEW e \in Events, Coming(cast', inbox', c, e)
          PROVE  Coming(cast, inbox, c, e)
      <3>1. cast'[ProcOf[c]] = IF ProcOf[c] = k THEN q ELSE cast[ProcOf[c]]
        BY <1>4, ProcOfConn DEF Inv, TypeOK
      <3> QED BY <1>3, <1>5, <1>9, <2>1, <3>1 DEF Coming
    <2> QED BY <1>3, <1>4, <1>7, <1>8, <1>11, <2>1, ProcCopies
  <1> QED BY <1>10, <1>11 DEF Casters

\* What an inbox gets it did not have.
LEMMA RelayedCopies ==
  ASSUME Inv, Inv', Copies, NEW e \in Events, NEW q, cast' = [cast EXCEPT ![e] = q], ~BeenOut(cast, linked, e),
         Relayed(e) \/ UNCHANGED inbox
  PROVE  RelayedOnce'
  <1>1. ASSUME NEW p \in Procs
        PROVE  Distinct(inbox'[p]) /\ (cast'[p].pc \in {"collect", "send"} => cast'[p].event \notin Members(inbox'[p]))
    <2>1. cast'[p] = cast[p] /\ p \in Casters
      BY Disjoint DEF Inv, TypeOK
    <2>2. inbox[p] \in Seq(Events) /\ Distinct(inbox[p])
          /\ (cast[p].pc \in {"collect", "send"} => cast[p].event \notin Members(inbox[p]))
      BY DEF Inv, TypeOK, Copies, RelayedOnce
    <2>3. e \notin Members(inbox[p])
      BY DEF Inv, Flow, InboxesKnown
    <2>4. cast[p].pc \in {"collect", "send"} => cast[p].event # e
      BY <2>1, CasterFacts DEF CasterKnows
    <2>5. inbox'[p] = inbox[p] \/ inbox'[p] = inbox[p] \o <<e>>
      BY DEF Relayed, Heard
    <2>6. CASE inbox'[p] = inbox[p]
      BY <2>1, <2>2, <2>6
    <2>7. CASE inbox'[p] = inbox[p] \o <<e>>
      <3>1. Distinct(inbox[p] \o <<e>>)
        BY <2>2, <2>3, DistinctAppend
      <3>2. Members(inbox[p] \o <<e>>) \subseteq Members(inbox[p]) \union {e}
        BY <2>2, MembersOf
      <3> QED BY <2>1, <2>2, <2>4, <2>7, <3>1, <3>2
    <2> QED BY <2>5, <2>6, <2>7
  <1> QED BY <1>1 DEF RelayedOnce

LEMMA ToRedisCopies ==
  ASSUME Inv, Inv', Copies, NEW e \in Events, ToRedis(e)
  PROVE  Copies'
  <1>1. PICK q : q = [cast[e] EXCEPT !.pc = "done"]
    OBVIOUS
  <1>2. /\ e \in Casters /\ cast[e] \in Cast /\ CasterServes(e, cast[e], faults) /\ cast[e].pc = "redis"
        /\ UNCHANGED <<linked, queue, got, faults>> /\ (Relayed(e) \/ UNCHANGED inbox)
    BY Disjoint, CasterFacts DEF Copies, CastersServe, ToRedis
  <1>3. cast' = [cast EXCEPT ![e] = q]
    BY <1>1, <1>2, CasterFacts DEF ToRedis
  <1>4. /\ q.pc = "done" /\ q.at = cast[e].at /\ q.event = cast[e].event /\ q.scoped = cast[e].scoped
    BY <1>1, <1>2 DEF Cast
  <1>5. ~BeenOut(cast, linked, e)
    BY <1>2 DEF CasterServes, BeenOut
  <1>6. RelayedOnce'
    BY <1>2, <1>3, <1>5, RelayedCopies
  <1>7. CasterServes(e, q, faults')
    BY <1>2, <1>4, Disjoint DEF CasterServes
  <1>8. Progress(e, q)
    BY <1>4, <1>5 DEF Progress, Left
  <1>9. \A r \in Procs : \A f \in Members(inbox'[r]) : f \in Members(inbox[r]) \/ ~BeenOut(cast, linked, f)
    BY <1>2, <1>5, RelayedStep
  <1> QED BY <1>2, <1>3, <1>6, <1>7, <1>8, <1>9, EventCopies

LEMMA BusFailsCopies ==
  ASSUME Inv, Inv', Copies, NEW e \in Events, RedisFails(e)
  PROVE  Copies'
  <1>1. PICK q : q = [pc |-> "collect", at |-> cast[e].at, event |-> e, scoped |-> FALSE, todo |-> {}]
    OBVIOUS
  <1>2. /\ e \in Casters /\ cast[e] \in Cast /\ CasterServes(e, cast[e], faults) /\ cast[e].pc = "redis"
        /\ cast' = [cast EXCEPT ![e] = q] /\ faults' = faults + 1
        /\ UNCHANGED <<linked, queue, got>> /\ (Relayed(e) \/ UNCHANGED inbox)
    BY <1>1, Disjoint, CasterFacts DEF Copies, CastersServe, RedisFails, Begun
  <1>3. cast[e].scoped /\ ~BeenOut(cast, linked, e)
    BY <1>2 DEF CasterServes, BeenOut
  <1>4. faults' # 0
    BY <1>2, CasterFacts
  <1>5. RelayedOnce'
    BY <1>2, <1>3, RelayedCopies
  <1>6. CasterServes(e, q, faults')
    BY <1>1, <1>4, Disjoint DEF CasterServes
  <1>7. Progress(e, q)
    BY <1>1, <1>3 DEF Progress
  <1>8. \A r \in Procs : \A f \in Members(inbox'[r]) : f \in Members(inbox[r]) \/ ~BeenOut(cast, linked, f)
    BY <1>2, <1>3, RelayedStep
  <1> QED BY <1>2, <1>4, <1>5, <1>6, <1>7, <1>8, EventCopies

LEMMA ListenCopies ==
  ASSUME Inv, Inv', Copies, NEW p \in Procs, Listen(p)
  PROVE  Copies'
  <1>1. PICK f, q : /\ f = Head(inbox[p])
                    /\ q = [pc |-> "collect", at |-> p, event |-> f, scoped |-> FALSE, todo |-> {}]
    OBVIOUS
  <1>2. /\ cast' = [cast EXCEPT ![p] = q] /\ inbox[p] # <<>> /\ inbox' = [inbox EXCEPT ![p] = Tail(@)]
        /\ UNCHANGED <<linked, queue, got, faults>>
    BY <1>1 DEF Listen, Begun
  <1>3. inbox \in [Procs -> Seq(Events)] /\ Distinct(inbox[p])
    BY DEF Inv, TypeOK, Copies, RelayedOnce
  <1>4. /\ Distinct(Tail(inbox[p])) /\ f \notin Members(Tail(inbox[p])) /\ f \in Members(inbox[p])
        /\ Members(Tail(inbox[p])) \subseteq Members(inbox[p])
    BY <1>1, <1>2, <1>3, DistinctTail, MembersTail
  <1>5. CasterServes(p, q, faults)
    BY <1>1, Disjoint DEF CasterServes
  <1>6. RelayedOnce'
    <2>1. ASSUME NEW r \in Procs
          PROVE  Distinct(inbox'[r]) /\ (cast'[r].pc \in {"collect", "send"} => cast'[r].event \notin Members(inbox'[r]))
      <3>1. cast'[r] = IF r = p THEN q ELSE cast[r]
        BY <1>2, Disjoint DEF Inv, TypeOK
      <3>2. inbox'[r] = IF r = p THEN Tail(inbox[p]) ELSE inbox[r]
        BY <1>2, <1>3
      <3>3. q.event = f
        BY <1>1
      <3> QED BY <1>4, <3>1, <3>2, <3>3 DEF Copies, RelayedOnce
    <2> QED BY <2>1 DEF RelayedOnce
  <1>7. ASSUME NEW c \in Conns, NEW e \in Events, Coming(cast', inbox', c, e)
        PROVE  Coming(cast, inbox, c, e)
    <2>1. cast'[ProcOf[c]] = IF ProcOf[c] = p THEN q ELSE cast[ProcOf[c]]
      BY <1>2, ProcOfConn DEF Inv, TypeOK
    <2>2. inbox'[ProcOf[c]] = IF ProcOf[c] = p THEN Tail(inbox[p]) ELSE inbox[ProcOf[c]]
      BY <1>2, <1>3, ProcOfConn
    <2>3. q.event = f
      BY <1>1
    <2> QED BY <1>4, <1>7, <2>1, <2>2, <2>3 DEF Coming
  <1> QED BY <1>2, <1>5, <1>6, <1>7, ProcCopies

\* A broadcaster that serves goes on to q, with the same event or to the end.
ServesOn(k, q) ==
  /\ \A c \in Conns : Left(c, q) => Left(c, cast[k]) /\ q.event = cast[k].event
  /\ k \in Events => q.at = cast[k].at /\ q.scoped = cast[k].scoped

LEMMA OthersGrow ==
  ASSUME Inv, NEW k \in Casters, NEW q, cast' = [cast EXCEPT ![k] = q], UNCHANGED <<linked, inbox>>,
         cast[k].pc = "send", ServesOn(k, q), NEW c \in Conns, NEW e \in Events
  PROVE  /\ OwnCopies(cast, c, e) <= OwnCopies(cast', c, e)
         /\ RelayCopies(cast, linked, inbox, c, e) <= RelayCopies(cast', linked', inbox', c, e)
  <1>1. CASE k \in Events
    <2>1. Progress(k, q)
      BY <1>1 DEF Progress, ServesOn, BeenOut
    <2> QED BY <1>1, <2>1, EventProgress
  <1>2. CASE k \in Procs
    <2>1. cast'[ProcOf[c]] = IF ProcOf[c] = k THEN q ELSE cast[ProcOf[c]]
      BY ProcOfConn DEF Inv, TypeOK
    <2>2. Coming(cast', inbox', c, e) => Coming(cast, inbox, c, e)
      BY <2>1 DEF Coming, ServesOn
    <2> QED BY <1>2, <2>2, ProcProgress
  <1> QED BY <1>1, <1>2 DEF Casters

LEMMA ServedGrows ==
  ASSUME Inv, Copies, NEW k \in Casters, NEW q, cast' = [cast EXCEPT ![k] = q], UNCHANGED <<linked, inbox>>,
         cast[k].pc = "send", ServesOn(k, q), NEW c \in Conns, NEW e \in Events, e = cast[k].event,
         ProcOf[c] = cast[k].at, Left(c, cast[k]), ~Left(c, q)
  PROVE  OwnCopies(cast, c, e) + RelayCopies(cast, linked, inbox, c, e) + 1
           <= OwnCopies(cast', c, e) + RelayCopies(cast', linked', inbox', c, e)
  <1>1. PICK a, b, o, r : /\ a = OwnCopies(cast, c, e) /\ b = RelayCopies(cast, linked, inbox, c, e)
                          /\ o = OwnCopies(cast', c, e) /\ r = RelayCopies(cast', linked', inbox', c, e)
    OBVIOUS
  <1>2. a \in Nat /\ b \in Nat /\ o \in Nat /\ r \in Nat /\ a <= o /\ b <= r
    BY <1>1, CopiesType, OthersGrow
  <1>3. CasterKnows(k, cast[k], cast, linked) /\ CasterServes(k, cast[k], faults) /\ cast'[k] = q
    BY CasterFacts DEF Copies, CastersServe, Inv, TypeOK
  <1>4. CASE k \in Events
    <2>1. k = e
      BY <1>3, <1>4 DEF CasterKnows
    <2>2. cast'[e] = q /\ q.at = ProcOf[c] /\ q.scoped = cast[e].scoped /\ cast[e].at = ProcOf[c]
      BY <1>3, <1>4, <2>1 DEF ServesOn
    <2>3. Left(c, cast[e]) /\ ~Left(c, q)
      BY <2>1
    <2>4. CASE cast[e].scoped
      <3>1. a = 0 + 0
        BY <1>1, <2>2, <2>3, <2>4 DEF OwnCopies
      <3>2. o = 0 + 1
        BY <1>1, <2>2, <2>3, <2>4 DEF OwnCopies
      <3> QED BY <1>1, <1>2, <3>1, <3>2
    <2>5. CASE ~cast[e].scoped
      <3>1. a = 1 + 0
        BY <1>1, <2>2, <2>3, <2>5 DEF OwnCopies
      <3>2. o = 1 + 1
        BY <1>1, <2>2, <2>3, <2>5 DEF OwnCopies
      <3> QED BY <1>1, <1>2, <3>1, <3>2
    <2> QED BY <2>4, <2>5
  <1>5. CASE k \in Procs
    <2>1. k = ProcOf[c] /\ BeenOut(cast, linked, e) /\ e \notin Members(inbox[k])
      BY <1>3, <1>5 DEF CasterKnows, CasterServes, Copies, RelayedOnce
    <2>2. b = 0
      BY <1>1, <2>1 DEF RelayCopies, Coming
    <2>3. cast'[e] = cast[e]
      BY <1>5, Disjoint DEF Inv, TypeOK
    <2>4. BeenOut(cast', linked', e) /\ ~Coming(cast', inbox', c, e)
      BY <1>3, <2>1, <2>3 DEF BeenOut, Coming
    <2>5. r = 1
      BY <1>1, <2>4 DEF RelayCopies
    <2> QED BY <1>1, <1>2, <2>2, <2>5
  <1> QED BY <1>4, <1>5 DEF Casters

LEMMA ReceivedOnce ==
  ASSUME Inv, NEW c \in Conns, NEW e \in Events, got' = Received(c, e)
  PROVE  \A d \in Conns, f \in Events :
           got'[d][f] <= got[d][f] + (IF d = c /\ f = e THEN 1 ELSE 0)
  <1>1. PICK n : n = IF c \notin gone THEN got[c][e] + 1 ELSE got[c][e]
    OBVIOUS
  <1>2. got \in [Conns -> [Events -> Nat]]
    BY DEF Inv, TypeOK
  <1>3. got' = [got EXCEPT ![c][e] = n]
    BY <1>1 DEF Received
  <1>4. got'[c][e] = n /\ n <= got[c][e] + 1
    BY <1>1, <1>2, <1>3
  <1>5. ASSUME NEW d \in Conns, NEW f \in Events, ~(d = c /\ f = e)
        PROVE  got'[d][f] <= got[d][f] + 0
    <2>1. CASE d # c
      BY <1>2, <1>3, <2>1
    <2>2. CASE d = c /\ f # e
      BY <1>2, <1>3, <2>2
    <2> QED BY <1>5, <2>1, <2>2
  <1> QED BY <1>4, <1>5

LEMMA SendCopies ==
  ASSUME Inv, Inv', Copies, NEW k \in Casters, NEW c \in Sockets, Send(k, c)
  PROVE  Copies'
  <1>1. PICK q, e : q = [cast[k] EXCEPT !.todo = @ \ {c}] /\ e = cast[k].event
    OBVIOUS
  <1>2. /\ cast[k] \in Cast /\ CasterKnows(k, cast[k], cast, linked) /\ CasterServes(k, cast[k], faults)
        /\ cast[k].pc = "send" /\ c \in cast[k].todo /\ got' = Received(c, e)
        /\ UNCHANGED <<linked, inbox, queue, faults>>
    BY <1>1, CasterFacts DEF Copies, CastersServe, Send
  <1>3. cast' = [cast EXCEPT ![k] = q]
    BY <1>1, CasterFacts DEF Send
  <1>4. /\ q.pc = "send" /\ q.todo = cast[k].todo \ {c} /\ q.at = cast[k].at /\ q.event = cast[k].event
        /\ q.scoped = cast[k].scoped
    BY <1>1, <1>2 DEF Cast
  <1>5. CasterServes(k, q, faults)
    BY <1>2, <1>4 DEF CasterServes
  <1>6. CastersServe' /\ RelayedOnce'
    BY <1>2, <1>3, <1>4, <1>5, CastersServeOn, OnceStays DEF Copies
  <1>7. ServesOn(k, q)
    BY <1>2, <1>4 DEF ServesOn, Left
  <1>8. e \in Events /\ c \in Conns /\ c \notin Streams
    BY <1>1, <1>2, Deliverable, Disjoint DEF CasterKnows
  <1>9. ProcOf[c] = cast[k].at /\ Left(c, cast[k]) /\ ~Left(c, q)
    BY <1>2, <1>4, <1>8 DEF CasterServes, Left
  <1>10. ASSUME NEW d \in Conns, NEW f \in Events
         PROVE  Had(got', queue', d, f) <= OwnCopies(cast', d, f) + RelayCopies(cast', linked', inbox', d, f)
    <2>1. got'[d][f] <= got[d][f] + (IF d = c /\ f = e THEN 1 ELSE 0) /\ got[d][f] \in Nat /\ got'[d][f] \in Nat
      BY <1>2, <1>8, ReceivedOnce DEF Inv, TypeOK
    <2>2. d \in Streams => Times(queue[d], f) \in Nat
      BY TimesType DEF Inv, TypeOK
    <2>3. CASE d = c /\ f = e
      <3>1. Had(got', queue', d, f) <= Had(got, queue, d, f) + 1
        BY <1>8, <2>1, <2>3 DEF Had
      <3>2. OwnCopies(cast, d, f) + RelayCopies(cast, linked, inbox, d, f) + 1
              <= OwnCopies(cast', d, f) + RelayCopies(cast', linked', inbox', d, f)
        <4>1. f = cast[k].event /\ ProcOf[d] = cast[k].at /\ Left(d, cast[k]) /\ ~Left(d, q)
          BY <1>1, <1>9, <2>3
        <4>2. UNCHANGED <<linked, inbox>> /\ cast[k].pc = "send"
          BY <1>2
        <4> QED BY <1>3, <1>7, <4>1, <4>2, ServedGrows
      <3> QED BY <3>1, <3>2, CountGoesOn DEF Copies
    <2>4. CASE ~(d = c /\ f = e)
      <3>1. Had(got', queue', d, f) <= Had(got, queue, d, f)
        BY <1>2, <2>1, <2>2, <2>4 DEF Had
      <3> QED BY <1>2, <1>3, <1>7, <3>1, OthersGrow, CountStays DEF Copies
    <2> QED BY <2>3, <2>4
  <1> QED BY <1>6, <1>10, CountedWillBe DEF Copies

LEMMA FeedCopies ==
  ASSUME Inv, Inv', Copies, NEW k \in Casters, FeedStreams(k)
  PROVE  Copies'
  <1>1. PICK q, e : /\ e = cast[k].event
                    /\ q = IF k \in Procs THEN Idle
                           ELSE IF cast[k].scoped THEN [cast[k] EXCEPT !.pc = "redis"]
                           ELSE [cast[k] EXCEPT !.pc = "done"]
    OBVIOUS
  <1>2. /\ cast[k] \in Cast /\ CasterKnows(k, cast[k], cast, linked) /\ CasterServes(k, cast[k], faults)
        /\ cast[k].pc = "send" /\ cast[k].todo = {}
        /\ UNCHANGED <<linked, inbox, got, faults>>
    BY CasterFacts DEF Copies, CastersServe, FeedStreams
  <1>3. cast' = [cast EXCEPT ![k] = q]
    BY <1>1 DEF FeedStreams
  <1>4. /\ q.pc \in {"idle", "redis", "done"} /\ (k \in Procs => q.pc = "idle")
        /\ k \in Events => /\ q.at = cast[k].at /\ q.event = cast[k].event /\ q.scoped = cast[k].scoped
                           /\ q.pc = "redis" => q.scoped
    <2>1. CASE k \in Procs
      BY <1>1, <2>1, Disjoint DEF Idle
    <2>2. CASE k \notin Procs
      BY <1>1, <1>2, <2>2 DEF Cast
    <2> QED BY <2>1, <2>2
  <1>5. CasterServes(k, q, faults)
    BY <1>2, <1>4 DEF CasterServes
  <1>6. CastersServe' /\ RelayedOnce'
    BY <1>2, <1>3, <1>4, <1>5, CastersServeOn, OnceStays DEF Copies
  <1>7. \A c : ~Left(c, q)
    BY <1>4 DEF Left
  <1>8. ServesOn(k, q)
    BY <1>4, <1>7 DEF ServesOn
  <1>9. e \in Events
    BY <1>1, <1>2, Deliverable DEF CasterKnows
  <1>10. ASSUME NEW d \in Conns, NEW f \in Events
         PROVE  Had(got', queue', d, f) <= OwnCopies(cast', d, f) + RelayCopies(cast', linked', inbox', d, f)
    <2>1. got'[d][f] = got[d][f] /\ got[d][f] \in Nat
      BY <1>2 DEF Inv, TypeOK
    <2>2. CASE d \notin Streams
      <3>1. Had(got', queue', d, f) <= Had(got, queue, d, f)
        BY <2>1, <2>2 DEF Had
      <3> QED BY <1>2, <1>3, <1>8, <3>1, OthersGrow, CountStays DEF Copies
    <2>3. CASE d \in Streams
      <3>1. queue[d] \in Seq(Events) /\ Times(queue[d], f) \in Nat
        BY <2>3, TimesType DEF Inv, TypeOK
      <3>2. queue'[d] = IF Reaches(k, d) /\ Feeds(k) THEN Append(queue[d], e) ELSE queue[d]
        BY <1>1, <2>3 DEF FeedStreams
      <3>3. CASE Reaches(k, d) /\ f = e
        <4>1. Times(queue'[d], f) = Times(queue[d], f) + 1
          BY <1>9, <3>1, <3>2, <3>3, TimesAppend DEF Feeds
        <4>2. Had(got', queue', d, f) <= Had(got, queue, d, f) + 1
          BY <2>1, <2>3, <3>1, <4>1 DEF Had
        <4>3. ProcOf[d] = cast[k].at /\ Left(d, cast[k])
          BY <1>2, <2>3, <3>3 DEF Reaches, Left
        <4>4. OwnCopies(cast, d, f) + RelayCopies(cast, linked, inbox, d, f) + 1
                <= OwnCopies(cast', d, f) + RelayCopies(cast', linked', inbox', d, f)
          BY <1>1, <1>2, <1>3, <1>7, <1>8, <3>3, <4>3, ServedGrows
        <4> QED BY <4>2, <4>4, CountGoesOn DEF Copies
      <3>4. CASE ~(Reaches(k, d) /\ f = e)
        <4>1. Times(queue'[d], f) = Times(queue[d], f)
          <5>1. CASE queue'[d] = queue[d]
            BY <5>1
          <5>2. CASE queue'[d] = Append(queue[d], e) /\ f # e
            BY <1>9, <3>1, <5>2, TimesAppend
          <5> QED BY <3>2, <3>4, <5>1, <5>2
        <4>2. Had(got', queue', d, f) <= Had(got, queue, d, f)
          BY <2>1, <2>3, <3>1, <4>1 DEF Had
        <4> QED BY <1>2, <1>3, <1>8, <4>2, OthersGrow, CountStays DEF Copies
      <3> QED BY <3>3, <3>4
    <2> QED BY <2>2, <2>3
  <1> QED BY <1>6, <1>10, CountedWillBe DEF Copies

LEMMA PumpCopies ==
  ASSUME Inv, Inv', Copies, NEW s \in Streams, Pump(s)
  PROVE  Copies'
  <1>1. PICK e : e = Head(queue[s])
    OBVIOUS
  <1>2. /\ queue[s] # <<>> /\ queue' = [queue EXCEPT ![s] = Tail(@)] /\ got' = Received(s, e)
        /\ UNCHANGED <<cast, linked, inbox, faults>>
    BY <1>1 DEF Pump
  <1>3. queue \in [Streams -> Seq(Events)] /\ queue[s] \in Seq(Events) /\ e \in Events /\ s \in Conns
    BY <1>1, <1>2, MembersTail, Disjoint DEF Inv, TypeOK
  <1>4. ASSUME NEW d \in Conns, NEW f \in Events
        PROVE  Had(got', queue', d, f) <= Had(got, queue, d, f)
    <2>1. got'[d][f] <= got[d][f] + (IF d = s /\ f = e THEN 1 ELSE 0) /\ got[d][f] \in Nat /\ got'[d][f] \in Nat
      <3>1. got'[d][f] <= got[d][f] + (IF d = s /\ f = e THEN 1 ELSE 0)
        BY <1>2, <1>3, ReceivedOnce
      <3>2. got \in [Conns -> [Events -> Nat]] /\ got' \in [Conns -> [Events -> Nat]]
        BY DEF Inv, TypeOK
      <3> QED BY <3>1, <3>2
    <2>2. CASE d = s
      <3>1. queue'[d] = Tail(queue[s]) /\ Tail(queue[s]) \in Seq(Events)
        BY <1>2, <1>3, <2>2
      <3>2. Times(queue'[d], f) + (IF f = e THEN 1 ELSE 0) <= Times(queue[s], f)
        BY <1>1, <1>2, <1>3, <3>1, TimesTail
      <3>3. Times(queue'[d], f) \in Nat /\ Times(queue[s], f) \in Nat
        BY <1>3, <3>1, TimesType
      <3>4. got'[d][f] + Times(queue'[d], f) <= got[d][f] + Times(queue[d], f)
        BY <2>1, <2>2, <3>2, <3>3
      <3> QED BY <2>2, <3>4 DEF Had
    <2>3. CASE d # s
      <3>1. d \in Streams => queue'[d] = queue[d] /\ Times(queue[d], f) \in Nat
        BY <1>2, <1>3, <2>3, TimesType
      <3>2. got'[d][f] <= got[d][f]
        BY <2>1, <2>3
      <3> QED BY <2>1, <3>1, <3>2 DEF Had
    <2> QED BY <2>2, <2>3
  <1> QED BY <1>2, <1>4, RestCopies

\* Queues are emptied.
LEMMA HadLess ==
  ASSUME Inv, got' = got, NEW c \in Conns, NEW e \in Events,
         c \in Streams => queue'[c] = <<>> \/ queue'[c] = queue[c]
  PROVE  Had(got', queue', c, e) <= Had(got, queue, c, e)
  <1>1. got[c][e] \in Nat
    BY DEF Inv, TypeOK
  <1>2. c \in Streams => Times(queue[c], e) \in Nat
    BY TimesType DEF Inv, TypeOK
  <1>3. c \in Streams => Times(queue'[c], e) = 0 \/ Times(queue'[c], e) = Times(queue[c], e)
    BY TimesNone
  <1> QED BY <1>1, <1>2, <1>3 DEF Had

LEMMA CloseCopies ==
  ASSUME Inv, Inv', Copies, NEW s \in Streams, Close(s)
  PROVE  Copies'
  <1>1. queue' = [queue EXCEPT ![s] = <<>>] /\ got' = got /\ UNCHANGED <<cast, linked, inbox, faults>>
    BY DEF Close
  <1>2. \A c \in Conns : c \in Streams => queue'[c] = <<>> \/ queue'[c] = queue[c]
    BY <1>1 DEF Inv, TypeOK
  <1>3. \A c \in Conns, e \in Events : Had(got', queue', c, e) <= Had(got, queue, c, e)
    BY <1>1, <1>2, HadLess
  <1> QED BY <1>1, <1>3, RestCopies

\* Broadcasters, listeners and queues are lost.
LEMMA LostCopies ==
  ASSUME Inv, Inv', Copies, got' = got, linked' = linked, faults' # 0,
         \A s \in Streams : queue'[s] = <<>> \/ queue'[s] = queue[s],
         \A p \in Procs : inbox'[p] = <<>> \/ inbox'[p] = inbox[p],
         \A k \in Casters : /\ cast'[k].at = cast[k].at /\ cast'[k].event = cast[k].event
                            /\ cast'[k].scoped = cast[k].scoped /\ cast'[k].todo = cast[k].todo
                            /\ cast'[k].pc \in {"done", cast[k].pc}
  PROVE  Copies'
  <1>1. CastersServe'
    <2>1. ASSUME NEW k \in Casters PROVE CasterServes(k, cast'[k], faults')
      BY <2>1 DEF Copies, CastersServe, CasterServes
    <2> QED BY <2>1 DEF CastersServe
  <1>2. \A p \in Procs : Members(inbox'[p]) \subseteq Members(inbox[p]) /\ Distinct(inbox'[p])
    <2>1. Members(<<>>) = {} /\ Distinct(<<>>)
      BY MembersNone DEF Distinct
    <2> QED BY <2>1 DEF Copies, RelayedOnce
  <1>3. RelayedOnce'
    BY <1>2, Disjoint DEF Copies, RelayedOnce
  <1>4. ASSUME NEW c \in Conns, NEW e \in Events
        PROVE  Had(got', queue', c, e) <= OwnCopies(cast', c, e) + RelayCopies(cast', linked', inbox', c, e)
    <2>1. Had(got', queue', c, e) <= Had(got, queue, c, e)
      BY HadLess
    <2>2. e \in Casters /\ ProcOf[c] \in Casters /\ ProcOf[c] \in Procs
      BY Disjoint, ProcOfConn
    <2>3. \A k \in Casters : Left(c, cast'[k]) => Left(c, cast[k])
      BY DEF Left
    <2>4. OwnCopies(cast, c, e) <= OwnCopies(cast', c, e)
      BY <2>2, <2>3, OwnGrows
    <2>5. BeenOut(cast, linked, e) => BeenOut(cast', linked', e)
      BY <2>2 DEF BeenOut
    <2>6. Coming(cast', inbox', c, e) => Coming(cast, inbox, c, e)
      BY <1>2, <2>2, <2>3 DEF Coming
    <2> QED BY <2>1, <2>4, <2>5, <2>6, RelayGrows, CountStays DEF Copies
  <1> QED BY <1>1, <1>3, <1>4, CountedWillBe DEF Copies

LEMMA FaultCopies ==
  ASSUME Inv, Inv', Copies, NEW p \in Procs, ListenerDies(p) \/ Stop(p)
  PROVE  Copies'
  <1>1. /\ faults' = faults + 1 /\ faults \in Nat /\ got' = got /\ linked' = linked
        /\ inbox' = [inbox EXCEPT ![p] = <<>>]
    BY DEF ListenerDies, Stop, Inv, TypeOK
  <1>2. \A r \in Procs : inbox'[r] = <<>> \/ inbox'[r] = inbox[r]
    BY <1>1 DEF Inv, TypeOK
  <1>3. \A s \in Streams : queue'[s] = <<>> \/ queue'[s] = queue[s]
    BY DEF ListenerDies, Stop
  <1>4. ASSUME NEW k \in Casters
        PROVE  /\ cast'[k].at = cast[k].at /\ cast'[k].event = cast[k].event
               /\ cast'[k].scoped = cast[k].scoped /\ cast'[k].todo = cast[k].todo
               /\ cast'[k].pc \in {"done", cast[k].pc}
    <2>1. cast[k] \in Cast
      BY CasterFacts
    <2>2. cast'[k] = cast[k] \/ cast'[k] = [cast[k] EXCEPT !.pc = "done"]
      BY DEF ListenerDies, Stop
    <2>3. CASE cast'[k] = cast[k]
      BY <2>3
    <2>4. CASE cast'[k] = [cast[k] EXCEPT !.pc = "done"]
      BY <2>1, <2>4 DEF Cast
    <2> QED BY <2>2, <2>3, <2>4
  <1>5. faults' # 0
    BY <1>1
  <1> QED BY <1>1, <1>2, <1>3, <1>4, <1>5, LostCopies

LEMMA StepCopies ==
  ASSUME Inv, Inv', Copies, [Next]_vars
  PROVE  Copies'
  <1>1. ASSUME ServerStep PROVE Copies'
    <2>1. ASSUME NEW c \in Sockets, Accept(c) \/ Welcome(c) \/ Disconnect(c) PROVE Copies'
      BY <2>1, IdleCopies DEF Accept, Welcome, Disconnect
    <2>2. ASSUME NEW s \in Streams, Pump(s) \/ Close(s) PROVE Copies'
      BY <2>2, PumpCopies, CloseCopies
    <2>3. ASSUME NEW k \in Casters, Collect(k) \/ FeedStreams(k) \/ \E c \in Sockets : Send(k, c) PROVE Copies'
      BY <2>3, CollectCopies, FeedCopies, SendCopies
    <2>4. ASSUME NEW e \in Events, ToRedis(e) PROVE Copies'
      BY <2>4, ToRedisCopies
    <2>5. ASSUME NEW p \in Procs, Listen(p) PROVE Copies'
      BY <2>5, ListenCopies
    <2> QED BY <1>1, <2>1, <2>2, <2>3, <2>4, <2>5 DEF ServerStep
  <1>2. ASSUME NEW c \in Sockets, Admit(c) PROVE Copies'
    BY <1>2, IdleCopies DEF Admit
  <1>3. ASSUME NEW c \in Sockets, NEW t, Subscribe(c, t) \/ Unsubscribe(c, t) PROVE Copies'
    BY <1>3, IdleCopies DEF Subscribe, Unsubscribe, Filter
  <1>4. ASSUME NEW c \in Conns, Leave(c) PROVE Copies'
    BY <1>4, IdleCopies DEF Leave
  <1>5. ASSUME NEW s \in Streams, NEW subs, Open(s, subs) PROVE Copies'
    BY <1>5, IdleCopies DEF Open
  <1>6. ASSUME NEW e \in Events, RedisFails(e) PROVE Copies'
    BY <1>6, BusFailsCopies
  <1>7. ASSUME NEW e \in Events, NEW p \in Procs, Publish(e, p) PROVE Copies'
    BY <1>7, PublishCopies
  <1>8. ASSUME NEW p \in Procs, ListenerDies(p) \/ Stop(p) PROVE Copies'
    BY <1>8, FaultCopies
  <1>9. CASE UNCHANGED vars
    BY <1>9, IdleCopies DEF vars
  <1> QED BY <1>1, <1>2, <1>3, <1>4, <1>5, <1>6, <1>7, <1>8, <1>9 DEF Next

LEMMA InitCopies ==
  ASSUME Init
  PROVE  Copies
  <1>1. CastersServe
    BY Disjoint DEF Init, Idle, CastersServe, CasterServes
  <1>2. RelayedOnce
    <2>1. ASSUME NEW p \in Procs PROVE inbox[p] = <<>> /\ cast[p].pc = "idle"
      BY Disjoint DEF Init, Idle
    <2> QED BY <2>1 DEF RelayedOnce, Distinct
  <1>3. ASSUME NEW c \in Conns, NEW e \in Events
        PROVE  Had(got, queue, c, e) <= OwnCopies(cast, c, e) + RelayCopies(cast, linked, inbox, c, e)
    <2>1. got[c][e] = 0
      BY DEF Init
    <2>2. c \in Streams => Times(queue[c], e) = 0
      BY TimesNone DEF Init
    <2>3. Had(got, queue, c, e) = 0
      BY <2>1, <2>2 DEF Had
    <2> QED BY <2>3, CopiesType
  <1> QED BY <1>1, <1>2, <1>3 DEF Copies, Counted

LEMMA CopiesBound ==
  ASSUME Inv, Copies
  PROVE  CopiesBounded
  <1> SUFFICES ASSUME NEW c \in Conns, NEW e \in Events
               PROVE  got[c][e] <= IF ProcOf[c] # cast[e].at \/ cast[e].at \notin linked THEN 1
                                   ELSE IF faults = 0 THEN 2 ELSE 3
    BY DEF CopiesBounded
  <1>1. PICK n, o, r : n = got[c][e] /\ o = OwnCopies(cast, c, e) /\ r = RelayCopies(cast, linked, inbox, c, e)
    OBVIOUS
  <1>2. n \in Nat /\ o \in Nat /\ r \in Nat /\ r <= 1
    BY <1>1, CopiesType DEF Inv, TypeOK
  <1>3. n <= o + r
    <2>1. Had(got, queue, c, e) <= o + r
      BY <1>1 DEF Copies, Counted
    <2>2. c \in Streams => Times(queue[c], e) \in Nat
      BY TimesType DEF Inv, TypeOK
    <2>3. n <= Had(got, queue, c, e)
      BY <1>1, <1>2, <2>2 DEF Had
    <2>4. Had(got, queue, c, e) \in Nat
      BY HadType DEF Inv
    <2> QED BY <1>2, <2>1, <2>3, <2>4
  <1>4. CasterKnows(e, cast[e], cast, linked) /\ CasterServes(e, cast[e], faults) /\ linked \subseteq Procs
    BY Disjoint, CasterFacts DEF Copies, CastersServe
  <1>5. CASE ProcOf[c] # cast[e].at
    <2>1. o = 0
      BY <1>1, <1>5 DEF OwnCopies
    <2> QED BY <1>1, <1>2, <1>3, <1>5, <2>1
  <1>6. CASE ProcOf[c] = cast[e].at /\ cast[e].at \notin linked
    <2>1. r = 0
      BY <1>1, <1>6 DEF RelayCopies, BeenOut
    <2>2. cast[e].pc # "idle"
      BY <1>4, <1>6, ProcOfConn, ConstantsAssumption DEF CasterKnows
    <2>3. cast[e].scoped
      BY <1>4, <1>6, <2>2 DEF CasterKnows
    <2>4. o <= 1
      BY <1>1, <1>6, <2>3 DEF OwnCopies
    <2> QED BY <1>1, <1>2, <1>3, <1>6, <2>1, <2>4
  <1>7. CASE ProcOf[c] = cast[e].at /\ cast[e].at \in linked
    <2>1. o <= 2
      BY <1>1 DEF OwnCopies
    <2>2. faults = 0 => o <= 1
      <3>1. cast[e].pc # "idle"
        BY <1>4, <1>7, ProcOfConn, ConstantsAssumption DEF CasterKnows
      <3>2. faults = 0 => cast[e].scoped
        BY <1>4, <3>1 DEF CasterServes
      <3> QED BY <1>1, <3>2 DEF OwnCopies
    <2> QED BY <1>1, <1>2, <1>3, <1>7, <2>1, <2>2
  <1> QED BY <1>5, <1>6, <1>7

\* An event reaches a connection once by the broadcast of its own process, once more by the
\* relay and once more by the fallback of RedisPubSubManager, and never oftener.
THEOREM CopiesLimited == Spec => []CopiesBounded
  <1>1. Inv /\ Copies => CopiesBounded
    BY CopiesBound
  <1>2. Inv /\ Inv' /\ Copies /\ [Next]_vars => Copies'
    BY StepCopies
  <1> QED BY <1>1, <1>2, InitCopies, InvAlways, PTL DEF Spec
-----------------------------------------------------------------------------
(* Nothing is dropped *)

\* The broadcaster in the state q has e with c still before it.
Carried(q, c, e) ==
  /\ q.event = e
  /\ \/ /\ q.pc = "collect" \/ (q.pc = "send" /\ c \in Streams)
        /\ q.at = ProcOf[c]
        /\ q.scoped => TenantOf[c] = TenantOf[e]
     \/ q.pc = "send" /\ c \in q.todo

\* The broadcaster of e will hand it to Redis.
ForRedis(q, l) == q.pc \in {"collect", "send", "redis"} /\ q.scoped /\ q.at \in l

Within(seq, e) == \E j \in DOMAIN seq : seq[j] = e

\* e is on its way to c, given the broadcasters, the queues and the inboxes.
Way(f, qs, b, c, e) ==
  \/ \E k \in Casters : Carried(f[k], c, e)
  \/ c \in Streams /\ Within(qs[c], e)
  \/ ProcOf[c] \in listening /\ ForRedis(f[e], linked)
  \/ ProcOf[c] \in listening /\ Within(b[ProcOf[c]], e)

LEMMA WayIs ==
  ASSUME NEW c, NEW e
  PROVE  OnTheWay(c, e) <=> Way(cast, queue, inbox, c, e)
  BY DEF OnTheWay, Way, Carries, Carried, Within, ForRedis

LEMMA WayWillBe ==
  ASSUME NEW c, NEW e, UNCHANGED <<linked, listening>>
  PROVE  OnTheWay(c, e)' <=> Way(cast', queue', inbox', c, e)
  BY DEF OnTheWay, Way, Carries, Carried, Within, ForRedis

LEMMA WithinAppend ==
  ASSUME NEW seq \in Seq(Events), NEW x \in Events
  PROVE  /\ Within(Append(seq, x), x) /\ Within(seq \o <<x>>, x)
         /\ \A e : Within(seq, e) => Within(Append(seq, x), e) /\ Within(seq \o <<x>>, e)
  <1>1. /\ seq \o <<x>> = Append(seq, x) /\ Append(seq, x) \in Seq(Events)
        /\ Len(Append(seq, x)) = Len(seq) + 1 /\ Len(seq) \in Nat
        /\ Append(seq, x)[Len(seq) + 1] = x
        /\ \A j \in 1 .. Len(seq) : Append(seq, x)[j] = seq[j]
    OBVIOUS
  <1>2. DOMAIN seq = 1 .. Len(seq) /\ DOMAIN Append(seq, x) = 1 .. Len(seq) + 1
    BY <1>1
  <1> QED BY <1>1, <1>2 DEF Within

LEMMA WithinTail ==
  ASSUME NEW S, NEW seq \in Seq(S), seq # <<>>, NEW e, Within(seq, e), e # Head(seq)
  PROVE  Within(Tail(seq), e)
  <1>1. /\ Len(seq) \in Nat /\ Len(seq) >= 1 /\ Head(seq) = seq[1] /\ DOMAIN seq = 1 .. Len(seq)
        /\ Tail(seq) \in Seq(S) /\ Len(Tail(seq)) = Len(seq) - 1
        /\ \A j \in 1 .. Len(seq) - 1 : Tail(seq)[j] = seq[j + 1]
    OBVIOUS
  <1>2. DOMAIN Tail(seq) = 1 .. Len(seq) - 1
    BY <1>1
  <1>3. PICK j \in 1 .. Len(seq) : seq[j] = e
    BY <1>1 DEF Within
  <1>4. j - 1 \in 1 .. Len(seq) - 1 /\ (j - 1) + 1 = j
    BY <1>1, <1>3
  <1>5. Tail(seq)[j - 1] = e
    BY <1>1, <1>3, <1>4
  <1> QED BY <1>2, <1>4, <1>5 DEF Within

\* Who waits for an event is registered, has not gone, and its subscriptions match it.
LEMMA Waiting ==
  ASSUME NEW c, NEW e, Awaits(c, e)
  PROVE  Registered(c) /\ c \notin gone /\ Matches(conn[c].subs, e)
  BY DEF Awaits, Wants, Registered, Matches

LEMMA Gets ==
  ASSUME TypeOK, NEW c \in Conns, NEW e \in Events, c \notin gone, got' = Received(c, e)
  PROVE  got'[c][e] > got[c][e]
  <1> DEFINE n == got[c][e] + 1
  <1>1. got \in [Conns -> [Events -> Nat]] /\ n \in Nat /\ n > got[c][e]
    BY DEF TypeOK
  <1>2. got' = [got EXCEPT ![c][e] = n]
    BY DEF Received
  <1> HIDE DEF n
  <1>3. got'[c][e] = n
    BY <1>1, <1>2
  <1> QED BY <1>1, <1>3

\* What must be shown of a step for a client and an event it waits for.
Kept(c, e) == OnTheWay(c, e)' \/ got'[c][e] > got[c][e] \/ faults' > 0

\* A step that only touches connections, or that is a fault.
LEMMA KeptBySame ==
  ASSUME NEW c, NEW e, OnTheWay(c, e), UNCHANGED <<cast, linked, listening, inbox, queue>>
  PROVE  Kept(c, e)
  <1>1. Way(cast', queue', inbox', c, e)
    BY WayIs
  <1> QED BY <1>1, WayWillBe DEF Kept

LEMMA KeptByFault ==
  ASSUME TypeOK, NEW c, NEW e, faults' = faults + 1
  PROVE  Kept(c, e)
  BY DEF TypeOK, Kept

-----------------------------------------------------------------------------
(* Streams *)

LEMMA PumpKeeps ==
  ASSUME TypeOK, NEW c \in Conns, NEW e \in Events, Awaits(c, e), OnTheWay(c, e),
         NEW s \in Streams, Pump(s)
  PROVE  Kept(c, e)
  <1>1. /\ queue \in [Streams -> Seq(Events)] /\ queue[s] # <<>> /\ queue[s] \in Seq(Events)
        /\ queue' = [queue EXCEPT ![s] = Tail(queue[s])]
        /\ got' = Received(s, Head(queue[s]))
        /\ UNCHANGED <<cast, inbox, linked, listening>>
    BY DEF Pump, TypeOK
  <1>2. CASE c = s /\ e = Head(queue[s])
    BY <1>1, <1>2, Waiting, Gets DEF Kept
  <1>3. CASE c # s \/ e # Head(queue[s])
    <2>1. ASSUME c \in Streams, Within(queue[c], e)
          PROVE  Within(queue'[c], e)
      <3>1. CASE c # s
        BY <1>1, <2>1, <3>1
      <3>2. CASE c = s
        <4>1. queue'[c] = Tail(queue[s])
          BY <1>1, <3>2
        <4> QED BY <1>1, <1>3, <2>1, <3>2, <4>1, WithinTail
      <3> QED BY <3>1, <3>2
    <2>2. Way(cast, queue, inbox, c, e)
      BY WayIs
    <2>3. Way(cast', queue', inbox', c, e)
      BY <1>1, <2>1, <2>2 DEF Way
    <2> QED BY <1>1, <2>3, WayWillBe DEF Kept
  <1> QED BY <1>2, <1>3

LEMMA CloseKeeps ==
  ASSUME TypeOK, NEW c \in Conns, NEW e \in Events, Awaits(c, e), OnTheWay(c, e),
         NEW s \in Streams, Close(s)
  PROVE  Kept(c, e)
  <1>1. c # s
    BY DEF Close, Awaits
  <1>2. c \in Streams => queue'[c] = queue[c]
    BY <1>1 DEF Close, TypeOK
  <1>3. Way(cast, queue, inbox, c, e) /\ UNCHANGED <<cast, inbox, linked, listening>>
    BY WayIs DEF Close
  <1>4. Way(cast', queue', inbox', c, e)
    BY <1>2, <1>3 DEF Way
  <1> QED BY <1>3, <1>4, WayWillBe DEF Kept

-----------------------------------------------------------------------------
(* Broadcasters *)

\* One broadcaster moves on, to the state q.
LEMMA KeptByCaster ==
  ASSUME TypeOK, NEW c \in Conns, NEW e \in Events, OnTheWay(c, e),
         NEW k \in Casters, NEW q, cast' = [cast EXCEPT ![k] = q],
         UNCHANGED <<linked, listening>>,
         Carried(cast[k], c, e) => Kept(c, e) \/ Carried(q, c, e),
         k = e /\ ForRedis(cast[k], linked) => ForRedis(q, linked)
                 \/ (ProcOf[c] \in listening => Within(inbox'[ProcOf[c]], e)),
         ProcOf[c] \in listening /\ Within(inbox[ProcOf[c]], e) =>
           Within(inbox'[ProcOf[c]], e) \/ Carried(q, c, e),
         c \in Streams /\ Within(queue[c], e) => Within(queue'[c], e)
  PROVE  Kept(c, e)
  <1>1. \A j \in Casters : cast'[j] = IF j = k THEN q ELSE cast[j]
    BY DEF TypeOK
  <1>2. Way(cast, queue, inbox, c, e) /\ e \in Casters
    BY WayIs, Disjoint
  <1>3. Carried(q, c, e) => Way(cast', queue', inbox', c, e)
    <2>1. cast'[k] = q
      BY <1>1
    <2> QED BY <2>1 DEF Way
  <1>4. Way(cast', queue', inbox', c, e) => Kept(c, e)
    BY WayWillBe DEF Kept
  <1>5. ASSUME NEW j \in Casters, Carried(cast[j], c, e)
        PROVE  Kept(c, e)
    <2>1. CASE j = k
      BY <1>3, <1>4, <1>5, <2>1
    <2>2. CASE j # k
      <3>1. Carried(cast'[j], c, e)
        BY <1>1, <1>5, <2>2
      <3>2. Way(cast', queue', inbox', c, e)
        BY <3>1 DEF Way
      <3> QED BY <1>4, <3>2
    <2> QED BY <2>1, <2>2
  <1>6. ASSUME c \in Streams, Within(queue[c], e)
        PROVE  Kept(c, e)
    BY <1>4, <1>6 DEF Way
  <1>7. ASSUME ProcOf[c] \in listening, ForRedis(cast[e], linked)
        PROVE  Kept(c, e)
    <2>1. ForRedis(cast'[e], linked') \/ Within(inbox'[ProcOf[c]], e)
      <3>1. CASE e = k
        <4>1. cast'[e] = q
          BY <1>1, <1>2, <3>1
        <4> QED BY <1>7, <3>1, <4>1
      <3>2. CASE e # k
        <4>1. cast'[e] = cast[e]
          BY <1>1, <1>2, <3>2
        <4> QED BY <1>7, <4>1
      <3> QED BY <3>1, <3>2
    <2>2. Way(cast', queue', inbox', c, e)
      BY <1>7, <2>1 DEF Way
    <2> QED BY <1>4, <2>2
  <1>8. ASSUME ProcOf[c] \in listening, Within(inbox[ProcOf[c]], e)
        PROVE  Kept(c, e)
    <2>1. CASE Within(inbox'[ProcOf[c]], e)
      BY <1>4, <1>8, <2>1 DEF Way
    <2>2. CASE Carried(q, c, e)
      BY <1>3, <1>4, <2>2
    <2> QED BY <1>8, <2>1, <2>2
  <1> QED BY <1>2, <1>5, <1>6, <1>7, <1>8 DEF Way

LEMMA PublishKeeps ==
  ASSUME TypeOK, NEW c \in Conns, NEW e \in Events, Awaits(c, e), OnTheWay(c, e),
         NEW k \in Events, NEW p \in Procs, Publish(k, p)
  PROVE  Kept(c, e)
  <1> DEFINE q == [pc |-> "collect", at |-> p, event |-> k, scoped |-> TRUE, todo |-> {}]
  <1>1. /\ k \in Casters /\ cast[k].pc = "idle" /\ cast' = [cast EXCEPT ![k] = q]
        /\ UNCHANGED <<linked, listening, inbox, queue>>
    BY Disjoint DEF Publish, Begun
  <1>2. ~Carried(cast[k], c, e) /\ ~ForRedis(cast[k], linked)
    BY <1>1 DEF Carried, ForRedis
  <1> HIDE DEF q
  <1> QED BY <1>1, <1>2, KeptByCaster

LEMMA CollectKeeps ==
  ASSUME TypeOK, NEW c \in Conns, NEW e \in Events, Awaits(c, e), OnTheWay(c, e),
         NEW k \in Casters, Collect(k)
  PROVE  Kept(c, e)
  <1> DEFINE all == {d \in Sockets : Reaches(k, d)}
             q == [cast[k] EXCEPT !.pc = "send", !.todo = all]
  <1>1. /\ cast[k] \in Cast /\ cast[k].pc = "collect" /\ cast' = [cast EXCEPT ![k] = q]
        /\ UNCHANGED <<linked, listening, inbox, queue>>
    BY DEF Collect, TypeOK
  <1>2. /\ q.pc = "send" /\ q.at = cast[k].at /\ q.event = cast[k].event
        /\ q.scoped = cast[k].scoped /\ q.todo = all
    BY <1>1 DEF Cast
  <1>3. ASSUME Carried(cast[k], c, e)
        PROVE  Carried(q, c, e)
    <2>1. /\ cast[k].event = e /\ cast[k].at = ProcOf[c]
          /\ cast[k].scoped => TenantOf[c] = TenantOf[e]
      BY <1>1, <1>3 DEF Carried
    <2>2. CASE c \in Streams
      BY <1>2, <2>1, <2>2 DEF Carried
    <2>3. CASE c \in Sockets
      <3>1. Reaches(k, c)
        BY <2>1, Waiting DEF Reaches
      <3> QED BY <1>2, <2>1, <2>3, <3>1 DEF Carried
    <2> QED BY <2>2, <2>3 DEF Conns
  <1>4. ForRedis(cast[k], linked) => ForRedis(q, linked)
    BY <1>2 DEF ForRedis
  <1> HIDE DEF q
  <1> QED BY <1>1, <1>3, <1>4, KeptByCaster

LEMMA SendKeeps ==
  ASSUME TypeOK, NEW c \in Conns, NEW e \in Events, Awaits(c, e), OnTheWay(c, e),
         NEW k \in Casters, NEW d \in Sockets, Send(k, d)
  PROVE  Kept(c, e)
  <1> DEFINE rest == cast[k].todo \ {d}
             q == [cast[k] EXCEPT !.todo = rest]
  <1>1. /\ cast[k] \in Cast /\ cast[k].pc = "send" /\ cast' = [cast EXCEPT ![k] = q]
        /\ got' = Received(d, cast[k].event)
        /\ UNCHANGED <<linked, listening, inbox, queue>>
    BY DEF Send, TypeOK
  <1>2. /\ q.pc = "send" /\ q.at = cast[k].at /\ q.event = cast[k].event
        /\ q.scoped = cast[k].scoped /\ q.todo = rest
    BY <1>1 DEF Cast
  <1>3. ASSUME Carried(cast[k], c, e)
        PROVE  Kept(c, e) \/ Carried(q, c, e)
    <2>1. CASE c = d
      <3>1. cast[k].event = e
        BY <1>3 DEF Carried
      <3> QED BY <1>1, <2>1, <3>1, Waiting, Gets DEF Kept
    <2>2. CASE c # d
      BY <1>1, <1>2, <1>3, <2>2 DEF Carried
    <2> QED BY <2>1, <2>2
  <1>4. ForRedis(cast[k], linked) => ForRedis(q, linked)
    BY <1>2 DEF ForRedis
  <1> HIDE DEF q
  <1> QED BY <1>1, <1>3, <1>4, KeptByCaster

LEMMA FeedKeeps ==
  ASSUME Inv, NEW c \in Conns, NEW e \in Events, Awaits(c, e), OnTheWay(c, e),
         NEW k \in Casters, FeedStreams(k)
  PROVE  Kept(c, e)
  <1>1. TypeOK /\ CastersKnow
    BY DEF Inv, Flow
  <1>2. /\ cast[k] \in Cast /\ cast[k].pc = "send" /\ cast[k].todo = {} /\ k \in Events \union Procs
        /\ UNCHANGED <<linked, listening, inbox>>
        /\ \A s \in Streams : queue[s] \in Seq(Events)
    BY <1>1 DEF FeedStreams, TypeOK, Casters
  <1>3. cast[k].event \in Events
    BY <1>1, <1>2 DEF CastersKnow, CasterKnows
  <1>4. c \in Streams /\ Within(queue[c], e) => Within(queue'[c], e)
    <2> SUFFICES ASSUME c \in Streams, Within(queue[c], e)
                 PROVE  Within(queue'[c], e)
      OBVIOUS
    <2>1. queue'[c] = queue[c] \/ queue'[c] = Append(queue[c], cast[k].event)
      BY DEF FeedStreams
    <2>2. queue[c] \in Seq(Events)
      BY <1>2
    <2>3. Within(Append(queue[c], cast[k].event), e)
      BY <1>3, <2>2, WithinAppend
    <2> QED BY <2>1, <2>3
  <1>5. ASSUME Carried(cast[k], c, e)
        PROVE  Kept(c, e)
    <2>1. /\ cast[k].event = e /\ c \in Streams /\ cast[k].at = ProcOf[c]
          /\ cast[k].scoped => TenantOf[c] = TenantOf[e]
      BY <1>2, <1>5 DEF Carried
    <2>2. Reaches(k, c)
      BY <2>1, Waiting DEF Reaches
    <2>3. queue'[c] = Append(queue[c], e)
      BY <2>1, <2>2 DEF FeedStreams, Feeds
    <2>4. Within(queue'[c], e)
      <3>1. queue[c] \in Seq(Events)
        BY <1>2, <2>1
      <3>2. Within(Append(queue[c], e), e)
        BY <3>1, WithinAppend
      <3> QED BY <2>3, <3>2
    <2>5. Way(cast', queue', inbox', c, e)
      BY <2>1, <2>4 DEF Way
    <2> QED BY <1>2, <2>5, WayWillBe DEF Kept
  <1>6. PICK q : /\ cast' = [cast EXCEPT ![k] = q]
                 /\ k \in Events /\ cast[k].scoped => q = [cast[k] EXCEPT !.pc = "redis"]
    <2>1. CASE k \in Procs
      <3>1. cast' = [cast EXCEPT ![k] = Idle] /\ k \notin Events
        BY <2>1, Disjoint DEF FeedStreams
      <3> QED BY <3>1
    <2>2. CASE k \notin Procs /\ cast[k].scoped
      <3>1. cast' = [cast EXCEPT ![k] = [cast[k] EXCEPT !.pc = "redis"]]
        BY <2>2 DEF FeedStreams
      <3> QED BY <3>1
    <2>3. CASE k \notin Procs /\ ~cast[k].scoped
      <3>1. cast' = [cast EXCEPT ![k] = [cast[k] EXCEPT !.pc = "done"]]
        BY <2>3 DEF FeedStreams
      <3> QED BY <2>3, <3>1
    <2> QED BY <2>1, <2>2, <2>3
  <1>7. k = e /\ ForRedis(cast[k], linked) => ForRedis(q, linked)
    <2> SUFFICES ASSUME k = e, ForRedis(cast[k], linked)
                 PROVE  ForRedis(q, linked)
      OBVIOUS
    <2>1. q = [cast[k] EXCEPT !.pc = "redis"]
      BY <1>6 DEF ForRedis
    <2>2. q.pc = "redis" /\ q.at = cast[k].at /\ q.scoped = cast[k].scoped
      BY <1>2, <2>1 DEF Cast
    <2> QED BY <2>2 DEF ForRedis
  <1>8. cast' = [cast EXCEPT ![k] = q]
    BY <1>6
  <1> QED BY <1>1, <1>2, <1>4, <1>5, <1>7, <1>8, KeptByCaster

-----------------------------------------------------------------------------
(* Redis *)

LEMMA ToRedisKeeps ==
  ASSUME TypeOK, NEW c \in Conns, NEW e \in Events, Awaits(c, e), OnTheWay(c, e),
         NEW k \in Events, ToRedis(k)
  PROVE  Kept(c, e)
  <1> DEFINE q == [cast[k] EXCEPT !.pc = "done"]
  <1>1. /\ k \in Casters /\ cast[k] \in Cast /\ cast[k].pc = "redis"
        /\ cast' = [cast EXCEPT ![k] = q]
        /\ inbox \in [Procs -> Seq(Events)] /\ ProcOf[c] \in Procs
        /\ UNCHANGED <<linked, listening, queue>>
    BY Disjoint, ConstantsAssumption DEF ToRedis, TypeOK
  <1> HIDE DEF q
  <1>2. ~Carried(cast[k], c, e)
    BY <1>1 DEF Carried
  <1>3. /\ cast[k].at \notin linked => inbox' = inbox
        /\ ProcOf[c] \in listening /\ cast[k].at \in linked =>
             inbox'[ProcOf[c]] = inbox[ProcOf[c]] \o <<k>>
    BY <1>1 DEF ToRedis, Relayed, Heard
  <1>4. inbox'[ProcOf[c]] = inbox[ProcOf[c]] \/ inbox'[ProcOf[c]] = inbox[ProcOf[c]] \o <<k>>
    BY <1>1 DEF ToRedis, Relayed, Heard
  <1>5. Within(inbox[ProcOf[c]], e) => Within(inbox'[ProcOf[c]], e)
    <2>1. inbox[ProcOf[c]] \in Seq(Events)
      BY <1>1
    <2>2. Within(inbox[ProcOf[c]], e) => Within(inbox[ProcOf[c]] \o <<k>>, e)
      BY <2>1, WithinAppend
    <2> QED BY <1>4, <2>2
  <1>6. k = e /\ ForRedis(cast[k], linked) /\ ProcOf[c] \in listening => Within(inbox'[ProcOf[c]], e)
    <2> SUFFICES ASSUME k = e, ForRedis(cast[k], linked), ProcOf[c] \in listening
                 PROVE  Within(inbox'[ProcOf[c]], e)
      OBVIOUS
    <2>1. inbox'[ProcOf[c]] = inbox[ProcOf[c]] \o <<e>>
      BY <1>3 DEF ForRedis
    <2> QED BY <1>1, <2>1, WithinAppend
  <1> QED BY <1>1, <1>2, <1>5, <1>6, KeptByCaster

LEMMA ListenKeeps ==
  ASSUME TypeOK, NEW c \in Conns, NEW e \in Events, Awaits(c, e), OnTheWay(c, e),
         NEW p \in Procs, Listen(p)
  PROVE  Kept(c, e)
  <1> DEFINE q == [pc |-> "collect", at |-> p, event |-> Head(inbox[p]), scoped |-> FALSE, todo |-> {}]
  <1>1. /\ p \in Casters /\ cast[p].pc = "idle" /\ cast' = [cast EXCEPT ![p] = q] /\ p # e
        /\ inbox \in [Procs -> Seq(Events)] /\ inbox[p] # <<>> /\ ProcOf[c] \in Procs
        /\ inbox' = [inbox EXCEPT ![p] = Tail(inbox[p])]
        /\ UNCHANGED <<linked, listening, queue>>
    BY Disjoint, ConstantsAssumption DEF Listen, Begun, TypeOK
  <1>2. ~Carried(cast[p], c, e)
    BY <1>1 DEF Carried
  <1>3. ASSUME Within(inbox[ProcOf[c]], e)
        PROVE  Within(inbox'[ProcOf[c]], e) \/ Carried(q, c, e)
    <2>1. CASE ProcOf[c] # p
      BY <1>1, <1>3, <2>1
    <2>2. CASE ProcOf[c] = p /\ e = Head(inbox[p])
      BY <2>2 DEF Carried
    <2>3. CASE ProcOf[c] = p /\ e # Head(inbox[p])
      <3>1. inbox'[p] = Tail(inbox[p]) /\ inbox[p] \in Seq(Events)
        BY <1>1
      <3> QED BY <1>1, <1>3, <2>3, <3>1, WithinTail
    <2> QED BY <2>1, <2>2, <2>3
  <1> HIDE DEF q
  <1> QED BY <1>1, <1>2, <1>3, KeptByCaster

-----------------------------------------------------------------------------

LEMMA StepKeeps ==
  ASSUME Inv, [Next]_vars, NEW c \in Conns, NEW e \in Events, Awaits(c, e), OnTheWay(c, e)
  PROVE  Kept(c, e)
  <1>0. TypeOK
    BY DEF Inv
  <1>1. ASSUME NEW d \in Sockets, Accept(d) \/ Welcome(d) \/ Disconnect(d)
        PROVE  Kept(c, e)
    BY <1>1, KeptBySame DEF Accept, Welcome, Disconnect
  <1>2. ASSUME NEW s \in Streams, Pump(s) \/ Close(s)
        PROVE  Kept(c, e)
    BY <1>0, <1>2, PumpKeeps, CloseKeeps
  <1>3. ASSUME NEW k \in Casters, Collect(k) \/ FeedStreams(k) \/ \E d \in Sockets : Send(k, d)
        PROVE  Kept(c, e)
    BY <1>0, <1>3, CollectKeeps, FeedKeeps, SendKeeps
  <1>4. ASSUME NEW k \in Events, ToRedis(k)
        PROVE  Kept(c, e)
    BY <1>0, <1>4, ToRedisKeeps
  <1>5. ASSUME NEW p \in Procs, Listen(p)
        PROVE  Kept(c, e)
    BY <1>0, <1>5, ListenKeeps
  <1>6. ASSUME NEW d \in Sockets, Admit(d)
        PROVE  Kept(c, e)
    BY <1>6, KeptBySame DEF Admit
  <1>7. ASSUME NEW d \in Sockets, NEW t \in Asks[d], Subscribe(d, t) \/ Unsubscribe(d, t)
        PROVE  Kept(c, e)
    BY <1>7, KeptBySame DEF Subscribe, Unsubscribe, Filter
  <1>8. ASSUME NEW d \in Conns, Leave(d)
        PROVE  Kept(c, e)
    BY <1>8, KeptBySame DEF Leave
  <1>9. ASSUME NEW s \in Streams, NEW subs \in SUBSET Asks[s], Open(s, subs)
        PROVE  Kept(c, e)
    BY <1>9, KeptBySame DEF Open
  <1>10. ASSUME NEW k \in Events, RedisFails(k)
         PROVE  Kept(c, e)
    BY <1>0, <1>10, KeptByFault DEF RedisFails
  <1>11. ASSUME NEW k \in Events, NEW p \in Procs, Publish(k, p)
         PROVE  Kept(c, e)
    BY <1>0, <1>11, PublishKeeps
  <1>12. ASSUME NEW p \in Procs, ListenerDies(p) \/ Stop(p)
         PROVE  Kept(c, e)
    BY <1>0, <1>12, KeptByFault DEF ListenerDies, Stop
  <1>13. CASE UNCHANGED vars
    BY <1>13, KeptBySame DEF vars
  <1>14. CASE ServerStep
    BY <1>14, <1>1, <1>2, <1>3, <1>4, <1>5 DEF ServerStep
  <1> QED
    BY <1>6, <1>7, <1>8, <1>9, <1>10, <1>11, <1>12, <1>13, <1>14 DEF Next

\* Whatever runs side by side, and however connections come, go and change their
\* subscriptions between the collection of the targets and the sends: until something
\* fails, no step takes an event off its way to a client that waits for it.
THEOREM NothingDropped == Spec => NothingIsDropped
  <1>1. Inv /\ [Next]_vars =>
          [\A e \in Events : \A c \in Audience(e) :
             Awaits(c, e) /\ OnTheWay(c, e) =>
               OnTheWay(c, e)' \/ got'[c][e] > got[c][e] \/ ~Awaits(c, e)' \/ faults' > 0]_vars
    <2>1. \A e \in Events : Audience(e) \subseteq Conns
      BY DEF Audience
    <2> QED BY <2>1, StepKeeps DEF Kept
  <1> QED BY <1>1, InvAlways, PTL DEF Spec, NothingIsDropped

=============================================================================
