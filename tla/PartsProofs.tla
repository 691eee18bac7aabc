----------------------------- MODULE PartsProofs -----------------------------
(***************************************************************************)
(* Proofs about the components of Parts, each for every value of its        *)
(* constants: PriorityGate as a module of its own, the others as the parts   *)
(* of PartsSpec.  ResourceManager has its invariant proved beside it; here   *)
(* it is carried over to the instance.                                      *)
(***************************************************************************)
EXTENDS Parts, FiniteSetTheorems, SequenceTheorems, WellFoundedInduction, TLAPS

(***************************************************************************)
(* The gate                                                                 *)
(***************************************************************************)
(* The inductive invariant: the type, the account of the slots, and what    *)
(* ties the queue to it.                                                    *)
GateInv == TypeOK /\ SlotsAccounted /\ NoIdleSlot

(* The sets whose sizes the gate counts are finite. *)
LEMMA FiniteParts ==
  ASSUME TypeOK
  PROVE  /\ IsFiniteSet(Holding) /\ Cardinality(Holding) \in Nat
         /\ IsFiniteSet(waiters) /\ Cardinality(waiters) \in Nat
<1>1. Holding \in SUBSET Requests /\ waiters \in SUBSET Requests BY DEF Holding, TypeOK
<1>2. IsFiniteSet(Holding) /\ IsFiniteSet(waiters) BY <1>1, FS_Subset, RequestsAssumption
<1> QED BY <1>2, FS_CardinalityType

(* The instance Permits counts as this module does. *)
LEMMA SameCount == \A X : P!Cardinality(X) = Cardinality(X)
BY DEF Cardinality, P!Cardinality, IsFiniteSet, P!IsFiniteSet

(* A request that does not hold a slot and gets one. *)
LEMMA OneMore ==
  ASSUME TypeOK, NEW r \in Requests, r \notin Holding, Holding' = Holding \cup {r}
  PROVE  Cardinality(Holding') = Cardinality(Holding) + 1
BY FiniteParts, FS_AddElement

(* A request that gives its slot up. *)
LEMMA OneLess ==
  ASSUME TypeOK, NEW r \in Requests, r \in Holding, Holding' = Holding \ {r}
  PROVE  Cardinality(Holding') = Cardinality(Holding) - 1
BY FiniteParts, FS_RemoveElement

(* A slot that changes hands. *)
LEMMA SameNumber ==
  ASSUME TypeOK, NEW r \in Requests, NEW s \in Requests, r \in Holding, s \notin Holding,
         Holding' = (Holding \ {r}) \cup {s}
  PROVE  Cardinality(Holding') = Cardinality(Holding)
<1>1. /\ IsFiniteSet(Holding \ {r})
      /\ Cardinality(Holding \ {r}) = Cardinality(Holding) - 1
  BY FiniteParts, FS_RemoveElement
<1>2. Cardinality((Holding \ {r}) \cup {s}) = Cardinality(Holding \ {r}) + 1
  BY <1>1, FS_AddElement
<1> QED BY <1>1, <1>2, FiniteParts

(* The queue only gets shorter. *)
LEMMA Shorter ==
  ASSUME TypeOK, NEW r, waiters' = waiters \ {r}
  PROVE  Cardinality(waiters') <= Cardinality(waiters)
<1>1. Cardinality(waiters \ {r}) = IF r \in waiters THEN Cardinality(waiters) - 1
                                                   ELSE Cardinality(waiters)
  BY FiniteParts, FS_RemoveElement
<1> QED BY <1>1, FiniteParts

(* What release does with the slot of r: it goes to the first waiter, or,   *)
(* if nobody waits, is free.                                                *)
LEMMA ReleaseKeepsAccount ==
  ASSUME GateInv, NEW r \in Requests, pc[r] \in {"granted", "running"},
         NEW next \in {"done", "failed"}, Release(r, next), UNCHANGED <<ticket, sequence>>
  PROVE  GateInv'
<1> USE LimitsAssumption DEF GateInv, SlotsAccounted
<1>1. r \in Holding /\ r \notin waiters BY DEF Holding, NoIdleSlot
<1>2. CASE \E s \in waiters :
             /\ First(s)
             /\ waiters' = waiters \ {s}
             /\ pc' = [pc EXCEPT ![r] = next, ![s] = "granted"]
             /\ UNCHANGED active
  <2>1. PICK s \in waiters : /\ waiters' = waiters \ {s}
                             /\ pc' = [pc EXCEPT ![r] = next, ![s] = "granted"]
                             /\ UNCHANGED active
    BY <1>2
  <2>2. s \in Requests /\ pc[s] = "waiting" /\ s # r BY <2>1, <1>1 DEF NoIdleSlot, TypeOK
  <2>3. TypeOK' BY <2>1, <2>2 DEF TypeOK, PCs
  <2>4. Holding' = (Holding \ {r}) \cup {s} /\ s \notin Holding
    BY <2>1, <2>2 DEF Holding, TypeOK
  <2>5. Cardinality(Holding') = Cardinality(Holding) BY <1>1, <2>2, <2>4, SameNumber
  <2>6. waiters' = {q \in Requests : pc'[q] = "waiting"} BY <2>1, <2>2 DEF NoIdleSlot, TypeOK
  <2>7. Cardinality(waiters') <= Cardinality(waiters) BY <2>1, Shorter
  <2>8. NoIdleSlot'
    <3>1. active' = Limit BY <2>1 DEF NoIdleSlot
    <3>2. Cardinality(waiters') <= Capacity
      <4>1. IsFiniteSet(waiters') BY <2>1, FiniteParts, FS_RemoveElement
      <4>2. Cardinality(waiters') \in Nat BY <4>1, FS_CardinalityType
      <4> QED BY <2>7, <4>2, FiniteParts DEF NoIdleSlot
    <3> QED BY <3>1, <3>2, <2>6 DEF NoIdleSlot
  <2> QED BY <2>1, <2>3, <2>5, <2>8
<1>3. CASE /\ waiters = {}
           /\ active' = active - 1
           /\ pc' = [pc EXCEPT ![r] = next]
           /\ UNCHANGED waiters
  <2>1. Holding' = Holding \ {r} BY <1>3 DEF Holding, TypeOK
  <2>2. Cardinality(Holding') = Cardinality(Holding) - 1 BY <1>1, <2>1, OneLess
  <2>3. Cardinality(Holding') \in Nat
    <3>1. IsFiniteSet(Holding') BY <2>1, FiniteParts, FS_RemoveElement
    <3> QED BY <3>1, FS_CardinalityType
  <2>4. active' = Cardinality(Holding') BY <1>3, <2>2
  <2>5. TypeOK' BY <1>3, <2>3, <2>4 DEF TypeOK, PCs
  <2>6. NoIdleSlot' BY <1>3 DEF NoIdleSlot, TypeOK
  <2> QED BY <2>4, <2>5, <2>6
<1> QED BY <1>2, <1>3 DEF Release

LEMMA GateInit == Init => GateInv
<1> SUFFICES ASSUME Init PROVE GateInv OBVIOUS
<1>1. Holding = {} /\ waiters = {} BY DEF Init, Holding
<1>2. Cardinality(Holding) = 0 /\ Cardinality(waiters) = 0 BY <1>1, FS_EmptySet
<1> QED BY <1>1, <1>2, LimitsAssumption
        DEF Init, GateInv, TypeOK, PCs, SlotsAccounted, NoIdleSlot

LEMMA GateNext == GateInv /\ [Next]_vars => GateInv'
<1> SUFFICES ASSUME GateInv, [Next]_vars PROVE GateInv' OBVIOUS
<1> USE LimitsAssumption
<1>1. ASSUME NEW r \in Requests, Enter(r) PROVE GateInv'
  <2>1. Holding' = Holding \cup {r} /\ r \notin Holding
    BY <1>1 DEF Enter, Holding, GateInv, TypeOK
  <2>2. Cardinality(Holding') = Cardinality(Holding) + 1 BY <2>1, OneMore DEF GateInv
  <2>3. TypeOK' BY <1>1 DEF Enter, GateInv, TypeOK, PCs
  <2>4. SlotsAccounted' BY <1>1, <2>2 DEF Enter, GateInv, SlotsAccounted
  <2>5. NoIdleSlot' BY <1>1 DEF Enter, GateInv, NoIdleSlot, TypeOK
  <2> QED BY <2>3, <2>4, <2>5 DEF GateInv
<1>2. ASSUME NEW r \in Requests, Overflow(r) PROVE GateInv'
  <2>1. Holding' = Holding BY <1>2 DEF Overflow, Holding, GateInv, TypeOK
  <2>2. TypeOK' BY <1>2 DEF Overflow, GateInv, TypeOK, PCs
  <2>3. NoIdleSlot' BY <1>2 DEF Overflow, GateInv, NoIdleSlot, TypeOK
  <2> QED BY <1>2, <2>1, <2>2, <2>3 DEF Overflow, GateInv, SlotsAccounted
<1>3. ASSUME NEW r \in Requests, Wait(r) PROVE GateInv'
  <2>1. Holding' = Holding BY <1>3 DEF Wait, Holding, GateInv, TypeOK
  <2>2. TypeOK' BY <1>3 DEF Wait, GateInv, TypeOK, PCs
  <2>3. r \notin waiters BY <1>3 DEF Wait, GateInv, NoIdleSlot
  <2>4. Cardinality(waiters') = Cardinality(waiters) + 1
    BY <1>3, <2>3, FiniteParts, FS_AddElement DEF Wait, GateInv
  <2>5. NoIdleSlot'
    <3>1. active' = Limit BY <1>3 DEF Wait, GateInv, NoIdleSlot, TypeOK
    <3>2. waiters' = {q \in Requests : pc'[q] = "waiting"}
      BY <1>3 DEF Wait, GateInv, NoIdleSlot, TypeOK
    <3>3. Cardinality(waiters') <= Capacity BY <1>3, <2>4, FiniteParts DEF Wait, GateInv
    <3> QED BY <3>1, <3>2, <3>3 DEF NoIdleSlot
  <2> QED BY <1>3, <2>1, <2>2, <2>5 DEF Wait, GateInv, SlotsAccounted
<1>4. ASSUME NEW r \in Requests, Resume(r) PROVE GateInv'
  <2>1. Holding' = Holding BY <1>4 DEF Resume, Holding, GateInv, TypeOK
  <2>2. TypeOK' BY <1>4 DEF Resume, GateInv, TypeOK, PCs
  <2>3. NoIdleSlot' BY <1>4 DEF Resume, GateInv, NoIdleSlot, TypeOK
  <2> QED BY <1>4, <2>1, <2>2, <2>3 DEF Resume, GateInv, SlotsAccounted
<1>5. ASSUME NEW r \in Requests, GiveUpWaiting(r) PROVE GateInv'
  <2>1. Holding' = Holding BY <1>5 DEF GiveUpWaiting, Holding, GateInv, TypeOK
  <2>2. TypeOK' BY <1>5 DEF GiveUpWaiting, GateInv, TypeOK, PCs
  <2>3. Cardinality(waiters') <= Cardinality(waiters)
    BY <1>5, Shorter DEF GiveUpWaiting, GateInv
  <2>4. Cardinality(waiters') \in Nat
    BY <1>5, FiniteParts, FS_RemoveElement, FS_CardinalityType DEF GiveUpWaiting, GateInv
  <2>5. NoIdleSlot'
    <3>1. waiters' = {q \in Requests : pc'[q] = "waiting"}
      BY <1>5 DEF GiveUpWaiting, GateInv, NoIdleSlot, TypeOK
    <3>2. waiters' # {} => active' = Limit BY <1>5 DEF GiveUpWaiting, GateInv, NoIdleSlot
    <3>3. Cardinality(waiters') <= Capacity BY <2>3, <2>4, FiniteParts DEF GateInv, NoIdleSlot
    <3> QED BY <3>1, <3>2, <3>3 DEF NoIdleSlot
  <2> QED BY <1>5, <2>1, <2>2, <2>5 DEF GiveUpWaiting, GateInv, SlotsAccounted
<1>6. ASSUME NEW r \in Requests, GiveUpGranted(r) PROVE GateInv'
  BY <1>6, ReleaseKeepsAccount DEF GiveUpGranted
<1>7. ASSUME NEW r \in Requests, Finish(r) PROVE GateInv'
  BY <1>7, ReleaseKeepsAccount DEF Finish
<1>8. CASE UNCHANGED vars
  <2>1. Holding' = Holding BY <1>8 DEF vars, Holding
  <2> QED BY <1>8, <2>1 DEF vars, GateInv, TypeOK, SlotsAccounted, NoIdleSlot
<1> QED BY <1>1, <1>2, <1>3, <1>4, <1>5, <1>6, <1>7, <1>8 DEF Next

LEMMA GateInvariant == Spec => []GateInv
BY GateInit, GateNext, PTL DEF Spec

(* Every variable of the gate keeps its type, and _active stays between     *)
(* zero and the limit, so that the clamp of release never acts.             *)
THEOREM GateTypeCorrect == Spec => []TypeOK
BY GateInvariant, PTL DEF GateInv

(* release and _discard neither lose a slot nor give one twice. *)
THEOREM NoSlotIsLost == Spec => []SlotsAccounted
BY GateInvariant, PTL DEF GateInv

(* While a request waits in the heap every slot of the gate is taken, and   *)
(* the heap holds the waiting requests and no other, within its capacity.   *)
THEOREM QueueOnlyWhenFull == Spec => []NoIdleSlot
BY GateInvariant, PTL DEF GateInv

(* acquire and release serve the queue in the order of priority and arrival. *)
THEOREM QueueIsNotOvertaken == Spec => NoOvertaking
<1> DEFINE Fair(r, s) == r \in Holding' \ Holding /\ s \in waiters /\ s \in waiters' =>
                           r \in waiters /\ Ahead(r, s)
<1>1. GateInv /\ [Next]_vars => [\A r, s \in Requests : Fair(r, s)]_vars
  <2> SUFFICES ASSUME GateInv, Next, NEW r \in Requests, NEW s \in Requests,
                      r \in Holding' \ Holding, s \in waiters, s \in waiters'
               PROVE  r \in waiters /\ Ahead(r, s)
    BY DEF vars
  <2>1. PICK q \in Requests : \/ Enter(q) \/ Overflow(q) \/ Wait(q) \/ Resume(q)
                              \/ GiveUpWaiting(q) \/ GiveUpGranted(q) \/ Finish(q)
    BY DEF Next
  <2>2. ~Enter(q) BY DEF Enter
  <2>3. ~Overflow(q) /\ ~Wait(q) /\ ~Resume(q) /\ ~GiveUpWaiting(q)
    BY DEF Overflow, Wait, Resume, GiveUpWaiting, Holding, GateInv, TypeOK
  <2>4. ASSUME NEW next \in {"done", "failed"}, Release(q, next)
        PROVE  r \in waiters /\ Ahead(r, s)
    <3>1. PICK f \in waiters : /\ First(f)
                               /\ waiters' = waiters \ {f}
                               /\ pc' = [pc EXCEPT ![q] = next, ![f] = "granted"]
      BY <2>4 DEF Release
    <3>2. r = f BY <3>1 DEF Holding, GateInv, TypeOK
    <3> QED BY <3>1, <3>2 DEF First
  <2> QED BY <2>1, <2>2, <2>3, <2>4 DEF GiveUpGranted, Finish
<1> QED BY <1>1, GateInvariant, PTL DEF Spec, NoOvertaking

(* The gate implements Permits: every step of acquire, release and _discard *)
(* is a step of the abstract queue, or invisible there.                     *)
THEOREM GateImplementsPermits == Spec => ImplementsPermits
<1>1. Init => P!Init BY DEF Init, P!Init, Holding
<1>2. GateInv /\ [Next]_vars => [P!Next]_(P!vars)
  <2> SUFFICES ASSUME GateInv, [Next]_vars PROVE [P!Next]_(P!vars) OBVIOUS
  <2> USE LimitsAssumption
  <2>1. ASSUME NEW r \in Requests, NEW next \in {"done", "failed"},
               pc[r] \in {"granted", "running"}, Release(r, next)
        PROVE  P!PassOn(r)
    <3>1. r \in Holding /\ r \notin waiters BY <2>1 DEF Holding, GateInv, NoIdleSlot
    <3>2. CASE waiters = {} /\ pc' = [pc EXCEPT ![r] = next] /\ UNCHANGED waiters
      <4>1. Holding' = Holding \ {r} BY <3>2 DEF Holding, GateInv, TypeOK
      <4> QED BY <3>1, <3>2, <4>1 DEF P!PassOn
    <3>3. ASSUME NEW s \in waiters, First(s), waiters' = waiters \ {s},
                 pc' = [pc EXCEPT ![r] = next, ![s] = "granted"]
          PROVE  P!PassOn(r)
      <4>1. s \in Requests /\ pc[s] = "waiting" /\ s # r
        BY <3>1 DEF GateInv, NoIdleSlot, TypeOK
      <4>2. Holding' = (Holding \ {r}) \cup {s} BY <3>3, <4>1 DEF Holding, GateInv, TypeOK
      <4>3. P!MostUrgent(s)
        <5> SUFFICES ASSUME NEW q \in waiters PROVE Priority[s] <= Priority[q]
          BY DEF P!MostUrgent
        <5>1. Priority[s] \in Nat /\ Priority[q] \in Nat
          BY <4>1, RequestsAssumption DEF GateInv, TypeOK
        <5> QED BY <3>3, <5>1 DEF First, Ahead
      <4> QED BY <3>1, <3>3, <4>2, <4>3 DEF P!PassOn
    <3> QED BY <2>1, <3>2, <3>3 DEF Release
  <2>2. ASSUME NEW r \in Requests, Enter(r) PROVE P!TakeFree(r)
    <3>1. Holding' = Holding \cup {r} /\ r \notin Holding
      BY <2>2 DEF Enter, Holding, GateInv, TypeOK
    <3> QED BY <2>2, <3>1, SameCount DEF Enter, GateInv, SlotsAccounted, P!TakeFree
  <2>3. ASSUME NEW r \in Requests, Wait(r) PROVE P!Queue(r)
    <3>1. Holding' = Holding /\ r \notin Holding /\ r \notin waiters
      BY <2>3 DEF Wait, Holding, GateInv, TypeOK, NoIdleSlot
    <3>2. waiters # {} \/ Cardinality(Holding) = Limit
      BY <2>3 DEF Wait, GateInv, SlotsAccounted, TypeOK
    <3> QED BY <2>3, <3>1, <3>2, SameCount DEF Wait, P!Queue
  <2>4. ASSUME NEW r \in Requests, GiveUpWaiting(r) PROVE P!GiveUp(r)
    <3>1. Holding' = Holding /\ r \in waiters
      BY <2>4 DEF GiveUpWaiting, Holding, GateInv, TypeOK, NoIdleSlot
    <3> QED BY <2>4, <3>1 DEF GiveUpWaiting, P!GiveUp
  <2>5. ASSUME NEW r \in Requests, Overflow(r) \/ Resume(r) PROVE UNCHANGED P!vars
    BY <2>5 DEF Overflow, Resume, Holding, GateInv, TypeOK, P!vars
  <2>6. CASE UNCHANGED vars BY <2>6 DEF vars, Holding, P!vars
  <2> QED BY <2>1, <2>2, <2>3, <2>4, <2>5, <2>6
          DEF Next, GiveUpGranted, Finish, P!Next
<1> QED BY <1>1, <1>2, GateInvariant, PTL DEF Spec, ImplementsPermits, P!Spec

(***************************************************************************)
(* The sender                                                               *)
(***************************************************************************)
(* The instance counts as this module does. *)
LEMMA SameSendCount == \A X : S!Cardinality(X) = Cardinality(X)
BY DEF Cardinality, S!Cardinality, IsFiniteSet, S!IsFiniteSet

Signing == {"pricing", "numbering", "sending"}
NumbersOf(calls) == {sNonce[c] : c \in calls}

(* Where a call is says whether its transaction is signed, under way, taken. *)
SendPlaces ==
  /\ \A c \in sFlight : sPc[c] \in {"sending", "failed"}
  /\ \A c \in S!Accepted : sPc[c] \in {"sent", "failed"}

(* The numbers in use begin at 0 and have no gap, and those under way are    *)
(* at most one beyond them, whichever node was asked and whatever it lacked. *)
UpTo(m) ==
  /\ NumbersOf(S!Accepted) = 0..(m - 1)
  /\ \A c \in sFlight : sNonce[c] <= m
Dense == \E m \in Nat : UpTo(m)

(* While nothing fails the first node knows all, no number is used twice,    *)
(* and the number under way is the next one.                                 *)
Calm ==
  sFaults = 0 =>
    /\ S!Accepted \subseteq sPool[Primary]
    /\ \A c, d \in sPool[Primary] : c # d => sNonce[c] # sNonce[d]
    /\ \A c \in SendCalls : sPc[c] # "failed"
    /\ \A c \in sFlight : sNonce[c] \notin NumbersOf(S!Accepted)

SenderInv == S!TypeOK /\ S!OneAtATime /\ SendPlaces /\ Dense /\ Calm

LEMMA AcceptedAre ==
  ASSUME S!TypeOK
  PROVE  S!Accepted \subseteq SendCalls /\ \A n \in Nodes : sPool[n] \subseteq S!Accepted
BY DEF S!Accepted, S!TypeOK

(* A set of numbers without a gap has as many as it says. *)
LEMMA DenseCount ==
  ASSUME NEW X, NEW m \in Nat, X = 0..(m - 1)
  PROVE  IsFiniteSet(X) /\ Cardinality(X) = m
<1>1. m - 1 \in Int /\ 0 \in Int OBVIOUS
<1>2. IsFiniteSet(X) /\ Cardinality(X) = IF 0 > m - 1 THEN 0 ELSE (m - 1) - 0 + 1
  BY <1>1, FS_Interval
<1> QED BY <1>2

LEMMA DenseWith ==
  ASSUME NEW m \in Nat, NEW x \in Nat, x <= m, NEW X, X = 0..(m - 1)
  PROVE  X \cup {x} = IF x = m THEN 0..((m + 1) - 1) ELSE 0..(m - 1)
<1>1. CASE x = m BY <1>1
<1>2. CASE x # m BY <1>2
<1> QED BY <1>1, <1>2

(* No node counts more transactions than there are numbers. *)
LEMMA CountsAreLow ==
  ASSUME S!TypeOK, NEW m \in Nat, UpTo(m), NEW n \in Nodes
  PROVE  /\ S!PendingCount(n) \in 0..m
         /\ S!Accepted \subseteq sPool[n] => S!PendingCount(n) = m
<1>1. IsFiniteSet(NumbersOf(S!Accepted)) /\ Cardinality(NumbersOf(S!Accepted)) = m
  BY DenseCount DEF UpTo
<1>2. NumbersOf(sPool[n]) \subseteq NumbersOf(S!Accepted) BY AcceptedAre DEF NumbersOf
<1>3. IsFiniteSet(NumbersOf(sPool[n])) /\ Cardinality(NumbersOf(sPool[n])) <= m
  BY <1>1, <1>2, FS_Subset
<1>4. Cardinality(NumbersOf(sPool[n])) \in Nat BY <1>3, FS_CardinalityType
<1>5. S!PendingCount(n) = Cardinality(NumbersOf(sPool[n]))
  BY SameSendCount DEF S!PendingCount, NumbersOf
<1>6. ASSUME S!Accepted \subseteq sPool[n] PROVE S!PendingCount(n) = m
  <2>1. NumbersOf(sPool[n]) = NumbersOf(S!Accepted) BY <1>2, <1>6 DEF NumbersOf
  <2> QED BY <1>1, <1>5, <2>1
<1> QED BY <1>3, <1>4, <1>5, <1>6

(* Who leaves the queue of the lock leaves the others in their order.        *)
LEMMA SendLeaving ==
  ASSUME sLock \in Seq(SendCalls), NEW k \in DOMAIN sLock
  PROVE  /\ S!RemoveAt(sLock, k) \in Seq(SendCalls)
         /\ \A d : S!Holds(d) /\ sLock[k] # d =>
                     S!RemoveAt(sLock, k) # <<>> /\ Head(S!RemoveAt(sLock, k)) = d
<1>1. k \in 1..Len(sLock) /\ Len(sLock) \in Nat /\ \A i \in 1..Len(sLock) : sLock[i] \in SendCalls
  OBVIOUS
<1> DEFINE before == SubSeq(sLock, 1, k - 1)
           after == SubSeq(sLock, k + 1, Len(sLock))
<1>2. /\ before \in Seq(SendCalls) /\ Len(before) = IF 1 <= k - 1 THEN k - 1 ELSE 0
      /\ \A i \in 1..(k - 1) : before[i] = sLock[i]
  <2>1. 1 \in Int /\ k - 1 \in Int /\ \A i \in 1..(k - 1) : sLock[i] \in SendCalls BY <1>1
  <2>2. /\ SubSeq(sLock, 1, k - 1) \in Seq(SendCalls)
        /\ Len(SubSeq(sLock, 1, k - 1)) = IF 1 <= k - 1 THEN (k - 1) - 1 + 1 ELSE 0
        /\ \A i \in 1..((k - 1) - 1 + 1) : SubSeq(sLock, 1, k - 1)[i] = sLock[1 + i - 1]
    BY <2>1, SubSeqProperties
  <2> QED BY <1>1, <2>2
<1>3. after \in Seq(SendCalls)
  <2>1. k + 1 \in Int /\ Len(sLock) \in Int /\ \A i \in (k + 1)..Len(sLock) : sLock[i] \in SendCalls
    BY <1>1
  <2> QED BY <2>1, SubSeqProperties
<1>4. S!RemoveAt(sLock, k) = before \o after BY DEF S!RemoveAt
<1> HIDE DEF before, after
<1>5. /\ before \o after \in Seq(SendCalls)
      /\ Len(before \o after) = Len(before) + Len(after)
      /\ \A i \in 1..(Len(before) + Len(after)) :
           (before \o after)[i] = IF i <= Len(before) THEN before[i] ELSE after[i - Len(before)]
  BY <1>2, <1>3, ConcatProperties
<1>6. ASSUME NEW d, S!Holds(d), sLock[k] # d
      PROVE  S!RemoveAt(sLock, k) # <<>> /\ Head(S!RemoveAt(sLock, k)) = d
  <2>1. sLock # <<>> /\ sLock[1] = d /\ k >= 2 BY <1>1, <1>6 DEF S!Holds
  <2>2. Len(before) >= 1 /\ before[1] = d BY <1>1, <1>2, <2>1
  <2>3. Len(after) \in Nat BY <1>3
  <2>4. (before \o after)[1] = d /\ Len(before \o after) >= 1 BY <1>5, <2>2, <2>3, <1>2
  <2> QED BY <1>4, <1>5, <2>4
<1> QED BY <1>4, <1>5, <1>6

(* A transaction that a node takes: the numbers stay without a gap.          *)
LEMMA TakenKeepsDense ==
  ASSUME S!TypeOK, Dense, NEW c \in sFlight, S!Accepted' = S!Accepted \cup {c},
         sFlight' = sFlight \ {c}, UNCHANGED sNonce
  PROVE  Dense'
<1>1. PICK m \in Nat : UpTo(m) BY DEF Dense
<1>2. sNonce[c] \in Nat /\ sNonce[c] <= m BY <1>1 DEF S!TypeOK, UpTo
<1>3. NumbersOf(S!Accepted)' = NumbersOf(S!Accepted) \cup {sNonce[c]} BY DEF NumbersOf
<1>4. NumbersOf(S!Accepted) = 0..(m - 1) BY <1>1 DEF UpTo
<1>5. NumbersOf(S!Accepted)' = IF sNonce[c] = m THEN 0..((m + 1) - 1) ELSE 0..(m - 1)
  BY <1>2, <1>3, <1>4, DenseWith
<1>6. CASE sNonce[c] = m
  <2>1. NumbersOf(S!Accepted)' = 0..((m + 1) - 1) BY <1>6, <1>5
  <2>2. \A d \in sFlight' : sNonce'[d] <= m + 1
    BY <1>1 DEF UpTo, S!TypeOK
  <2> QED BY <2>1, <2>2 DEF Dense, UpTo
<1>7. CASE sNonce[c] # m
  <2>1. NumbersOf(S!Accepted)' = 0..(m - 1) BY <1>7, <1>5
  <2>2. \A d \in sFlight' : sNonce'[d] <= m BY <1>1 DEF UpTo
  <2> QED BY <2>1, <2>2 DEF Dense, UpTo
<1> QED BY <1>6, <1>7

(* What a node takes is known to all of them together.                       *)
LEMMA TakenIsAccepted ==
  ASSUME S!TypeOK, NEW n \in Nodes, NEW c \in SendCalls,
         sPool' = [sPool EXCEPT ![n] = @ \cup {c}]
  PROVE  S!Accepted' = S!Accepted \cup {c} /\ sPool' \in [Nodes -> SUBSET SendCalls]
BY DEF S!Accepted, S!TypeOK

LEMMA SameNumbers ==
  ASSUME Dense, UNCHANGED <<sNonce, sPool>>, sFlight' \subseteq sFlight
  PROVE  Dense'
<1>1. PICK m \in Nat : UpTo(m) BY DEF Dense
<1>2. UpTo(m)' BY <1>1 DEF UpTo, NumbersOf, S!Accepted
<1> QED BY <1>2 DEF Dense

LEMMA SenderInit == ASSUME S!Init PROVE SenderInv
<1>1. S!TypeOK BY SenderAssumption DEF S!Init, S!TypeOK, S!PCs
<1>2. S!Accepted = {} BY DEF S!Init, S!Accepted
<1>3. UpTo(0) BY <1>2 DEF S!Init, UpTo, NumbersOf
<1>4. Dense BY <1>3 DEF Dense
<1>5. S!OneAtATime /\ SendPlaces BY <1>2 DEF S!Init, S!OneAtATime, SendPlaces
<1>6. Calm BY <1>2, SenderAssumption DEF S!Init, Calm
<1> QED BY <1>1, <1>4, <1>5, <1>6 DEF SenderInv

(* Only the holder of the lock is between its number and the answer.        *)
LEMMA OneSigns ==
  ASSUME S!OneAtATime, NEW c \in SendCalls, sPc[c] \in Signing
  PROVE  S!Holds(c) /\ \A d \in SendCalls : sPc[d] \in Signing => d = c
BY DEF S!OneAtATime, Signing, S!Holds

(* Request, Enter and Price. *)
LEMMA SendWaitingKeeps ==
  ASSUME SenderInv, NEW c \in SendCalls, S!Request(c) \/ S!Enter(c) \/ S!Price(c)
  PROVE  SenderInv'
<1> USE DEF SenderInv
<1>1. S!TypeOK'
  <2>1. sPc' \in [SendCalls -> S!PCs] BY DEF S!Request, S!Enter, S!Price, S!TypeOK, S!PCs
  <2>2. sLock' = sLock \/ sLock' = Append(sLock, c) BY DEF S!Request, S!Enter, S!Price
  <2>3. sLock' \in Seq(SendCalls)
    <3>1. sLock \in Seq(SendCalls) BY DEF S!TypeOK
    <3>2. Append(sLock, c) \in Seq(SendCalls) BY <3>1
    <3> QED BY <2>2, <3>1, <3>2
  <2> QED BY <2>1, <2>3 DEF S!Request, S!Enter, S!Price, S!TypeOK
<1>2. S!OneAtATime'
  <2>1. CASE S!Request(c)
    <3>1. \A d \in SendCalls : S!Holds(d) => S!Holds(d)'
      BY <2>1, SMTT(30) DEF S!Request, S!Holds, S!TypeOK
    <3> QED BY <2>1, <3>1 DEF S!Request, S!OneAtATime, S!TypeOK
  <2>2. CASE S!Enter(c) BY <2>2 DEF S!Enter, S!OneAtATime, S!Holds, S!TypeOK
  <2>3. CASE S!Price(c) BY <2>3 DEF S!Price, S!OneAtATime, S!Holds, S!TypeOK
  <2> QED BY <2>1, <2>2, <2>3
<1>3. UNCHANGED <<sNonce, sPool, sFlight, sFaults>> BY DEF S!Request, S!Enter, S!Price
<1>4. SendPlaces'
  <2>1. c \notin sFlight /\ c \notin S!Accepted BY DEF S!Request, S!Enter, S!Price, SendPlaces
  <2>2. S!Accepted' = S!Accepted BY <1>3 DEF S!Accepted
  <2>3. \A d \in SendCalls : d # c => sPc'[d] = sPc[d] BY DEF S!Request, S!Enter, S!Price, S!TypeOK
  <2>4. S!Accepted \subseteq SendCalls /\ sFlight \subseteq SendCalls BY AcceptedAre DEF S!TypeOK
  <2> QED BY <1>3, <2>1, <2>2, <2>3, <2>4 DEF SendPlaces
<1>5. Dense' BY <1>3, SameNumbers
<1>6. Calm'
  <2>1. \A d \in SendCalls : sPc[d] # "failed" => sPc'[d] # "failed"
    BY DEF S!Request, S!Enter, S!Price, S!TypeOK
  <2> QED BY <1>3, <2>1 DEF Calm, NumbersOf, S!Accepted
<1> QED BY <1>1, <1>2, <1>4, <1>5, <1>6

(* A call gives the lock up and ends: nobody else was past it.              *)
LEMMA ReleaseKeepsOrder ==
  ASSUME S!TypeOK, S!OneAtATime, NEW c \in SendCalls, sPc[c] \in Signing, S!Release,
         NEW end \in S!Finished, sPc' = [sPc EXCEPT ![c] = end]
  PROVE  S!OneAtATime' /\ sLock' \in Seq(SendCalls) /\ sPc' \in [SendCalls -> S!PCs]
<1>1. S!Holds(c) /\ \A d \in SendCalls : sPc[d] \in Signing => d = c BY OneSigns
<1>2. sLock' \in Seq(SendCalls) BY <1>1 DEF S!Release, S!Holds, S!TypeOK
<1>3. sPc' \in [SendCalls -> S!PCs] BY DEF S!TypeOK, S!PCs, S!Finished
<1>4. \A d \in SendCalls : sPc'[d] \notin Signing BY <1>1 DEF S!TypeOK, Signing, S!Finished
<1> QED BY <1>2, <1>3, <1>4 DEF S!OneAtATime, Signing

LEMMA SendNumberKeeps == ASSUME SenderInv, NEW c \in SendCalls, S!Number(c) PROVE SenderInv'
<1> USE DEF SenderInv
<1>1. PICK n \in Nodes : S!Asks(n) /\ sNonce' = [sNonce EXCEPT ![c] = S!PendingCount(n)]
  BY DEF S!Number
<1>2. PICK m \in Nat : UpTo(m) BY DEF Dense
<1>3. S!PendingCount(n) \in 0..m /\ (S!Accepted \subseteq sPool[n] => S!PendingCount(n) = m)
  BY <1>2, CountsAreLow
<1>4. c \notin S!Accepted /\ c \notin sFlight BY DEF S!Number, SendPlaces
<1>5. S!Accepted' = S!Accepted /\ S!Accepted \subseteq SendCalls
  BY AcceptedAre DEF S!Number, S!Accepted
<1>6. /\ sNonce'[c] = S!PendingCount(n) /\ sNonce' \in [SendCalls -> Nat]
      /\ \A d \in SendCalls : d # c => sNonce'[d] = sNonce[d]
  BY <1>1, <1>3 DEF S!TypeOK
<1>7. sFaults' \in 0..SendFaults /\ (sFaults' = 0 => sFaults = 0 /\ n = Primary)
  BY <1>1, SenderAssumption DEF S!Asks, S!Fault, S!TypeOK
<1>8. S!TypeOK' BY <1>6, <1>7 DEF S!Number, S!TypeOK, S!PCs
<1>9. S!OneAtATime' BY DEF S!Number, S!OneAtATime, S!Holds, S!TypeOK
<1>10. SendPlaces' BY <1>4, <1>5 DEF S!Number, SendPlaces, S!TypeOK
<1>11. NumbersOf(S!Accepted)' = NumbersOf(S!Accepted) BY <1>4, <1>5, <1>6 DEF NumbersOf
<1>12. sFlight' = sFlight \cup {c} BY DEF S!Number
<1>13. Dense'
  <2>1. \A d \in sFlight' : sNonce'[d] <= m BY <1>2, <1>3, <1>4, <1>6, <1>12 DEF UpTo, S!TypeOK
  <2>2. UpTo(m)' BY <1>2, <1>11, <2>1 DEF UpTo
  <2> QED BY <2>2 DEF Dense
<1>14. Calm'
  <2> SUFFICES ASSUME sFaults' = 0
               PROVE  /\ S!Accepted' \subseteq sPool'[Primary]
                      /\ \A d, e \in sPool'[Primary] : d # e => sNonce'[d] # sNonce'[e]
                      /\ \A d \in SendCalls : sPc'[d] # "failed"
                      /\ \A d \in sFlight' : sNonce'[d] \notin NumbersOf(S!Accepted)'
    BY DEF Calm
  <2>1. sFaults = 0 /\ n = Primary /\ sPool' = sPool BY <1>7 DEF S!Number
  <2>2. sPool[Primary] \subseteq S!Accepted BY AcceptedAre, SenderAssumption
  <2>3. S!Accepted' \subseteq sPool'[Primary] BY <1>5, <2>1 DEF Calm
  <2>4. \A d, e \in sPool'[Primary] : d # e => sNonce'[d] # sNonce'[e]
    BY <1>4, <1>5, <1>6, <2>1, <2>2 DEF Calm
  <2>5. \A d \in SendCalls : sPc'[d] # "failed" BY <2>1 DEF Calm, S!Number, S!TypeOK
  <2>6. sNonce'[c] = m BY <1>3, <1>6, <2>1 DEF Calm
  <2>7. m \notin NumbersOf(S!Accepted) BY <1>2 DEF UpTo
  <2>8. \A d \in sFlight : d # c /\ sNonce'[d] \notin NumbersOf(S!Accepted)
    BY <1>4, <1>6, <2>1 DEF Calm, S!TypeOK
  <2> QED BY <1>11, <1>12, <2>3, <2>4, <2>5, <2>6, <2>7, <2>8
<1> QED BY <1>8, <1>9, <1>10, <1>13, <1>14

LEMMA SendAnswerKeeps == ASSUME SenderInv, NEW c \in SendCalls, S!Answer(c) PROVE SenderInv'
<1> USE DEF SenderInv
<1>1. PICK n \in Nodes : /\ S!Asks(n) /\ S!Takes(n, c)
                          /\ sPool' = [sPool EXCEPT ![n] = @ \cup {c}]
  BY DEF S!Answer
<1>2. S!Accepted' = S!Accepted \cup {c} /\ sPool' \in [Nodes -> SUBSET SendCalls]
  BY <1>1, TakenIsAccepted
<1>3. sFaults' \in 0..SendFaults /\ (sFaults' = 0 => sFaults = 0 /\ n = Primary)
  BY <1>1, SenderAssumption DEF S!Asks, S!Fault, S!TypeOK
<1>4. sPc[c] \in Signing /\ c \in sFlight /\ sFlight' = sFlight \ {c}
  BY DEF S!Answer, Signing
<1>5. S!OneAtATime' /\ sLock' \in Seq(SendCalls) /\ sPc' \in [SendCalls -> S!PCs]
  BY <1>4, ReleaseKeepsOrder DEF S!Answer, S!Finished
<1>6. S!TypeOK' BY <1>2, <1>3, <1>5 DEF S!Answer, S!TypeOK
<1>7. SendPlaces' BY <1>2, <1>4, AcceptedAre DEF S!Answer, SendPlaces, S!TypeOK
<1>8. Dense' BY <1>2, <1>4, TakenKeepsDense DEF S!Answer
<1>9. Calm'
  <2> SUFFICES ASSUME sFaults' = 0
               PROVE  /\ S!Accepted' \subseteq sPool'[Primary]
                      /\ \A d, e \in sPool'[Primary] : d # e => sNonce'[d] # sNonce'[e]
                      /\ \A d \in SendCalls : sPc'[d] # "failed"
                      /\ sFlight' = {}
    BY DEF Calm
  <2>1. sFaults = 0 /\ sPool'[Primary] = sPool[Primary] \cup {c} BY <1>1, <1>3 DEF S!TypeOK
  <2>2. S!Accepted' \subseteq sPool'[Primary] BY <1>2, <2>1 DEF Calm
  <2>3. \A d \in sPool[Primary] : sNonce[d] # sNonce[c] BY <1>1, <1>3 DEF S!Takes
  <2>4. \A d, e \in sPool'[Primary] : d # e => sNonce'[d] # sNonce'[e]
    BY <2>1, <2>3 DEF Calm, S!Answer
  <2>5. \A d \in SendCalls : sPc'[d] # "failed" BY <2>1 DEF Calm, S!Answer, S!TypeOK
  <2>6. \A d \in sFlight : sPc[d] = "sending" BY <2>1 DEF Calm, SendPlaces, S!TypeOK
  <2>7. \A d \in sFlight : d = c BY <1>4, <2>6, OneSigns DEF Signing, S!TypeOK
  <2> QED BY <1>4, <2>2, <2>4, <2>5, <2>7
<1> QED BY <1>5, <1>6, <1>7, <1>8, <1>9

(* Calls that fail: no number is used, and a fault has happened.             *)
LEMMA SendFailureKeeps ==
  ASSUME SenderInv, NEW c \in SendCalls, sPc' = [sPc EXCEPT ![c] = "failed"],
         sPc[c] \notin {"idle", "sent"}, UNCHANGED <<sNonce, sPool>>, sFlight' \subseteq sFlight,
         sFaults' \in 1..SendFaults, sLock' \in Seq(SendCalls), S!OneAtATime'
  PROVE  SenderInv'
<1> USE DEF SenderInv
<1>1. S!TypeOK' BY SenderAssumption DEF S!TypeOK, S!PCs
<1>2. S!Accepted' = S!Accepted BY DEF S!Accepted
<1>3. SendPlaces' BY <1>2, AcceptedAre DEF SendPlaces, S!TypeOK
<1>4. Dense' BY SameNumbers
<1>5. Calm' BY SenderAssumption DEF Calm
<1> QED BY <1>1, <1>3, <1>4, <1>5

LEMMA PricingFailsKeeps == ASSUME SenderInv, NEW c \in SendCalls, S!PricingFails(c) PROVE SenderInv'
<1> USE DEF SenderInv
<1>1. S!OneAtATime' /\ sLock' \in Seq(SendCalls)
  BY ReleaseKeepsOrder DEF S!PricingFails, Signing, S!Finished
<1>2. sFaults' \in 1..SendFaults BY SenderAssumption DEF S!PricingFails, S!Fault, S!TypeOK
<1> QED BY <1>1, <1>2, SendFailureKeeps DEF S!PricingFails

(* A node refuses only what has the number of another: not in calm weather.  *)
LEMMA SendRefuseKeeps == ASSUME SenderInv, NEW c \in SendCalls, S!Refuse(c) PROVE SenderInv'
<1> USE DEF SenderInv
<1>1. S!OneAtATime' /\ sLock' \in Seq(SendCalls)
  BY ReleaseKeepsOrder DEF S!Refuse, Signing, S!Finished
<1>2. PICK n \in Nodes : S!Asks(n) /\ ~S!Takes(n, c) BY DEF S!Refuse
<1>3. PICK d \in sPool[n] : sNonce[d] = sNonce[c] BY <1>2 DEF S!Takes
<1>4. d \in S!Accepted /\ sNonce[c] \in NumbersOf(S!Accepted) BY <1>3, AcceptedAre DEF NumbersOf
<1>5. sFaults # 0 BY <1>4 DEF S!Refuse, Calm
<1>6. sFaults' \in 1..SendFaults BY <1>2, <1>5, SenderAssumption DEF S!Asks, S!Fault, S!TypeOK
<1> QED BY <1>1, <1>6, SendFailureKeeps DEF S!Refuse

LEMMA SendAbandonKeeps == ASSUME SenderInv, NEW c \in SendCalls, S!Abandon(c) PROVE SenderInv'
<1> USE DEF SenderInv
<1>1. PICK k \in DOMAIN sLock : sLock[k] = c /\ sLock' = S!RemoveAt(sLock, k) BY DEF S!Abandon
<1>2. /\ sLock' \in Seq(SendCalls)
      /\ \A d : S!Holds(d) /\ d # c => sLock' # <<>> /\ Head(sLock') = d
  BY <1>1, SendLeaving DEF S!TypeOK
<1>3. S!OneAtATime'
  <2>1. \A d \in SendCalls : sPc'[d] \in Signing => d # c /\ sPc[d] \in Signing
    BY DEF S!Abandon, S!TypeOK, Signing
  <2> QED BY <1>2, <2>1 DEF S!OneAtATime, S!Holds, Signing
<1>4. sFaults' \in 1..SendFaults BY SenderAssumption DEF S!Abandon, S!Fault, S!TypeOK
<1> QED BY <1>2, <1>3, <1>4, SendFailureKeeps DEF S!Abandon

(* Only what was abandoned arrives late.                                    *)
LEMMA ArriveLateKeeps == ASSUME SenderInv, NEW c \in SendCalls, S!ArriveLate(c) PROVE SenderInv'
<1> USE DEF SenderInv
<1>1. sFaults' # 0 BY DEF S!ArriveLate, Calm
<1>2. c \in sFlight /\ sFlight' = sFlight \ {c} /\ UNCHANGED <<sPc, sNonce, sLock, sFaults>>
  BY DEF S!ArriveLate
<1>3. S!OneAtATime' BY <1>2 DEF S!OneAtATime, S!Holds
<1>4. Calm' BY <1>1 DEF Calm
<1>5. CASE UNCHANGED sPool
  <2>1. S!TypeOK' BY <1>2, <1>5 DEF S!TypeOK
  <2>2. SendPlaces' BY <1>2, <1>5 DEF SendPlaces, S!Accepted
  <2>3. Dense' BY <1>2, <1>5, SameNumbers
  <2> QED BY <1>3, <1>4, <2>1, <2>2, <2>3
<1>6. CASE \E n \in Nodes : S!Takes(n, c) /\ sPool' = [sPool EXCEPT ![n] = @ \cup {c}]
  <2>1. S!Accepted' = S!Accepted \cup {c} /\ sPool' \in [Nodes -> SUBSET SendCalls]
    BY <1>6, TakenIsAccepted
  <2>2. S!TypeOK' BY <1>2, <2>1 DEF S!TypeOK
  <2>3. SendPlaces' BY <1>2, <2>1 DEF S!ArriveLate, SendPlaces
  <2>4. Dense' BY <1>2, <2>1, TakenKeepsDense
  <2> QED BY <1>3, <1>4, <2>2, <2>3, <2>4
<1> QED BY <1>5, <1>6 DEF S!ArriveLate

LEMMA GossipKeeps == ASSUME SenderInv, NEW c \in SendCalls, S!Gossip(c) PROVE SenderInv'
<1> USE DEF SenderInv
<1>1. PICK m \in Nodes, n \in Nodes : /\ c \in sPool[m] \ sPool[n] /\ S!Takes(n, c)
                                        /\ sPool' = [sPool EXCEPT ![n] = @ \cup {c}]
  BY DEF S!Gossip
<1>2. c \in S!Accepted BY <1>1, AcceptedAre
<1>3. S!Accepted' = S!Accepted /\ sPool' \in [Nodes -> SUBSET SendCalls]
  <2>1. sPool' = [sPool EXCEPT ![n] = @ \cup {c}] BY <1>1
  <2>2. S!Accepted' = S!Accepted \cup {c} /\ sPool' \in [Nodes -> SUBSET SendCalls]
    BY <2>1, TakenIsAccepted
  <2> QED BY <1>2, <2>2
<1>4. UNCHANGED <<sPc, sNonce, sLock, sFlight, sFaults>> BY DEF S!Gossip
<1>5. S!TypeOK' BY <1>3, <1>4 DEF S!TypeOK
<1>6. S!OneAtATime' /\ SendPlaces' BY <1>3, <1>4 DEF S!OneAtATime, S!Holds, SendPlaces
<1>7. Dense'
  <2>1. PICK k \in Nat : UpTo(k) BY DEF Dense
  <2>2. UpTo(k)' BY <1>3, <1>4, <2>1 DEF UpTo, NumbersOf
  <2> QED BY <2>2 DEF Dense
<1>8. Calm'
  <2>1. \A d \in sPool[Primary] : d \in sPool'[Primary] BY <1>1, SenderAssumption DEF S!TypeOK
  <2>2. sFaults = 0 => n # Primary BY <1>1, <1>2 DEF Calm
  <2>3. sFaults = 0 => sPool'[Primary] = sPool[Primary] BY <1>1, <2>2, SenderAssumption DEF S!TypeOK
  <2> QED BY <1>3, <1>4, <2>1, <2>3 DEF Calm, NumbersOf
<1> QED BY <1>5, <1>6, <1>7, <1>8

LEMMA SenderStutters == ASSUME SenderInv, UNCHANGED senderVars PROVE SenderInv'
<1>1. Dense' BY SameNumbers DEF SenderInv, senderVars
<1>2. (S!TypeOK /\ S!OneAtATime /\ SendPlaces /\ Calm)'
  BY DEF SenderInv, senderVars, S!TypeOK, S!OneAtATime, S!Holds, SendPlaces, Calm,
         NumbersOf, S!Accepted
<1> QED BY <1>1, <1>2 DEF SenderInv

LEMMA SenderKeeps == ASSUME SenderInv, [S!Next]_senderVars PROVE SenderInv'
<1>1. ASSUME NEW c \in SendCalls, S!Step(c) PROVE SenderInv'
  <2>1. CASE S!Enter(c) \/ S!Price(c) BY <2>1, SendWaitingKeeps
  <2>2. CASE S!PricingFails(c) BY <2>2, PricingFailsKeeps
  <2>3. CASE S!Number(c) BY <2>3, SendNumberKeeps
  <2>4. CASE S!Answer(c) BY <2>4, SendAnswerKeeps
  <2>5. CASE S!Refuse(c) BY <2>5, SendRefuseKeeps
  <2> QED BY <1>1, <2>1, <2>2, <2>3, <2>4, <2>5 DEF S!Step
<1>2. ASSUME NEW c \in SendCalls, S!Request(c) PROVE SenderInv' BY <1>2, SendWaitingKeeps
<1>3. ASSUME NEW c \in SendCalls, S!Abandon(c) PROVE SenderInv' BY <1>3, SendAbandonKeeps
<1>4. ASSUME NEW c \in SendCalls, S!ArriveLate(c) PROVE SenderInv' BY <1>4, ArriveLateKeeps
<1>5. ASSUME NEW c \in SendCalls, S!Gossip(c) PROVE SenderInv' BY <1>5, GossipKeeps
<1>6. CASE UNCHANGED senderVars BY <1>6, SenderStutters
<1> QED BY <1>1, <1>2, <1>3, <1>4, <1>5, <1>6 DEF S!Next

LEMMA SenderInOrder == ASSUME SenderInv PROVE S!NumbersInOrder
<1> USE DEF SenderInv
<1>1. PICK m \in Nat : UpTo(m) BY DEF Dense
<1>2. Cardinality(NumbersOf(S!Accepted)) = m BY <1>1, DenseCount DEF UpTo
<1>3. S!NoGap BY <1>1, <1>2, SameSendCount DEF UpTo, S!NoGap, NumbersOf
<1>4. S!NumbersAreOwn BY AcceptedAre, SenderAssumption DEF S!NumbersAreOwn, Calm
<1> QED BY <1>3, <1>4 DEF S!NumbersInOrder

LEMMA SenderSteps == [PartsNext]_all => [S!Next]_senderVars
BY DEF PartsNext, OthersStill, Still, all

LEMMA SenderInvariant == PartsSpec => []SenderInv
<1>1. PartsInit => SenderInv BY SenderInit DEF PartsInit
<1>2. SenderInv /\ [PartsNext]_all => SenderInv' BY SenderSteps, SenderKeeps
<1> QED BY <1>1, <1>2, PTL DEF PartsSpec

(* The numbers of an account are used up in order, for any number of sends,  *)
(* nodes and faults: what failed, was abandoned or arrived late leaves no    *)
(* gap, and while nothing fails no number is used twice and nothing refused  *)
(* (TransactionSender.send).                                                *)
THEOREM NumbersAreInOrder == PartsSpec => []NumbersInOrder
<1>1. SenderInv => NumbersInOrder BY SenderInOrder DEF NumbersInOrder
<1> QED BY <1>1, SenderInvariant, PTL

(* One transaction of an account at a time is between its number and the     *)
(* answer of the node, whoever waited or was cancelled (the lock of send).   *)
THEOREM OneSendAtATime == PartsSpec => []S!OneAtATime
<1>1. SenderInv => S!OneAtATime BY DEF SenderInv
<1> QED BY <1>1, SenderInvariant, PTL

(***************************************************************************)
(* The manager, whose invariant is proved beside it                         *)
(***************************************************************************)
MP == INSTANCE ResourceManagerProofs WITH
        Calls <- Callers, Limit <- ResourceLimit,
        caller <- mCaller, joined <- mJoined, inFlight <- mInFlight, op <- mOp, held <- mHeld,
        used <- mUsed, sleep <- mSleep, attempts <- mAttempts, bucket <- mBucket, paid <- mPaid

LEMMA ManagerSteps == [PartsNext]_all => [M!Next]_managerVars
BY DEF PartsNext, OthersStill, Still, all

(* ResourceManager says the same wherever it is instanced.                   *)
LEMMA SameManager ==
  /\ M!Init => MP!Init
  /\ [M!Next]_managerVars => [MP!Next]_MP!vars
  /\ MP!LimitsAreKept => M!LimitsAreKept
<1> USE DEF M!Own, MP!Own, M!Gate, MP!Gate, M!Global, MP!Global, M!Probe, MP!Probe,
            M!Nobody, MP!Nobody
<1>1. M!Slots = MP!Slots BY DEF M!Slots, MP!Slots, M!Gates, MP!Gates
<1>2. M!Init => MP!Init BY <1>1 DEF M!Init, MP!Init
<1>3. ASSUME NEW o \in Callers, M!End(o) PROVE MP!End(o)
  BY <1>1, <1>3 DEF M!End, MP!End, M!Given, MP!Given, M!Answered, MP!Answered,
                    M!Waiting, MP!Waiting
<1>4. ASSUME NEW o, NEW taken, M!Take(o, taken) PROVE MP!Take(o, taken)
  BY <1>1, <1>4 DEF M!Take, MP!Take
<1>5. ASSUME NEW o, NEW next, M!Reserve(o, next) PROVE MP!Reserve(o, next)
  BY <1>5 DEF M!Reserve, MP!Reserve, M!Slot, MP!Slot
<1>6. M!Tick => MP!Tick BY DEF M!Tick, MP!Tick
<1>7. ASSUME NEW c \in Callers, M!Call(c) PROVE MP!Call(c) BY <1>7 DEF M!Call, MP!Call
<1>8. ASSUME NEW c \in Callers, M!CancelKeyed(c) PROVE MP!CancelKeyed(c)
  BY <1>8 DEF M!CancelKeyed, MP!CancelKeyed
<1>9. ASSUME NEW c \in Callers, M!CancelOwn(c) PROVE MP!CancelOwn(c)
  BY <1>3, <1>9 DEF M!CancelOwn, MP!CancelOwn
<1>10. ASSUME NEW o \in Callers, M!Step(o) PROVE MP!Step(o)
  <2>1. CASE M!EnterGate(o)
    BY <2>1, <1>4, <1>5 DEF M!EnterGate, MP!EnterGate, MP!Step
  <2>2. CASE M!Wake(o) BY <2>2 DEF M!Wake, MP!Wake, MP!Step
  <2>3. CASE M!EnterGlobal(o) BY <2>3, <1>4 DEF M!EnterGlobal, MP!EnterGlobal, MP!Step
  <2>4. CASE M!Finish(o) BY <2>4, <1>3 DEF M!Finish, MP!Finish, MP!Step
  <2>5. CASE M!Backoff(o) BY <2>5 DEF M!Backoff, MP!Backoff, MP!Step
  <2>6. CASE M!PayAgain(o) BY <2>6, <1>5 DEF M!PayAgain, MP!PayAgain, MP!Step
  <2>7. CASE M!Again(o) BY <2>7 DEF M!Again, MP!Again, MP!Step
  <2>8. CASE M!Refuse(o) BY <2>8, <1>3 DEF M!Refuse, MP!Refuse, MP!Step
  <2> QED BY <1>10, <2>1, <2>2, <2>3, <2>4, <2>5, <2>6, <2>7, <2>8 DEF M!Step
<1>11. [M!Next]_managerVars => [MP!Next]_MP!vars
  BY <1>6, <1>7, <1>8, <1>9, <1>10 DEF M!Next, MP!Next, managerVars, MP!vars
<1>12. MP!TypeOK => M!TypeOK BY <1>1 DEF MP!TypeOK, M!TypeOK
<1>13. MP!SlotsReturned => M!SlotsReturned
  BY <1>1 DEF MP!SlotsReturned, M!SlotsReturned, MP!Cardinality, M!Cardinality,
              MP!IsFiniteSet, M!IsFiniteSet
<1>14. MP!PausesApart => M!PausesApart BY DEF MP!PausesApart, M!PausesApart
<1>15. MP!AttemptsPaid => M!AttemptsPaid BY DEF MP!AttemptsPaid, M!AttemptsPaid
<1> QED BY <1>2, <1>11, <1>12, <1>13, <1>14, <1>15 DEF MP!LimitsAreKept, M!LimitsAreKept

(* Slots, pauses and payments hold for every attempt, for all limits, delays *)
(* and assignments of callers to resources.                                 *)
THEOREM LimitsStayKept == PartsSpec => []LimitsAreKept
<1>0. MP!Configured
  BY ManagerAssumption DEF MP!Configured, MP!Nobody, M!Nobody, MP!IsFiniteSet, IsFiniteSet
<1>1. PartsInit => MP!IInv BY <1>0, SameManager, MP!InitOK DEF PartsInit
<1>2. MP!IInv /\ [PartsNext]_all => MP!IInv' BY <1>0, ManagerSteps, SameManager, MP!NextKeeps
<1>3. MP!IInv => LimitsAreKept
  BY <1>0, SameManager, MP!ReturnedInAll DEF MP!IInv, MP!LimitsAreKept, LimitsAreKept
<1> QED BY <1>1, <1>2, <1>3, PTL DEF PartsSpec

(***************************************************************************)
(* The database                                                             *)
(***************************************************************************)
LEMMA DatabaseSteps == [PartsNext]_all => [D!Next]_databaseVars
BY DEF PartsNext, OthersStill, Still, all, databaseVars

Body == {"FIRST", "SECOND", "COMMIT", "ROLLBACK"}
Statements ==
  [task : D!Tasks, sql : Body \cup {"BEGIN", "WRITE", "READ"}, awaited : BOOLEAN]
Sent == 1..Len(dWire)

(* Where a task is that awaits the answer to a statement.                    *)
Awaits(sql) ==
  CASE sql \in {"FIRST", "SECOND"} -> "body"
    [] sql = "COMMIT" -> "commit"
    [] sql = "ROLLBACK" -> "rollback"
    [] sql = "READ" -> "read"
    [] OTHER -> sql

HasLock == {"BEGIN", "WRITE", "pause", "body", "commit", "rollback"}

DatabaseTypes ==
  /\ dPc \in [D!Tasks -> HasLock \cup {"idle", "lock", "read", "done", "failed"}]
  /\ dLock \in Seq(D!Tasks)
  /\ dWire \in Seq(Statements)
  /\ dOpen \in BOOLEAN /\ dStray \in BOOLEAN

OfItsKind ==
  /\ \A t \in D!Tasks :
       /\ dPc[t] \in {"BEGIN", "body", "commit", "rollback"} => t \in Transactions
       /\ dPc[t] = "WRITE" => t \in Singles
       /\ dPc[t] \in {"lock", "pause"} => t \in D!Writers
       /\ dPc[t] = "read" => t \in Readers
  /\ \A i \in Sent :
       /\ dWire[i].sql \in Body \cup {"BEGIN"} => dWire[i].task \in Transactions
       /\ dWire[i].sql = "WRITE" => dWire[i].task \in Singles
       /\ dWire[i].sql = "READ" => dWire[i].task \in Readers

Answers ==
  \A i \in Sent : dWire[i].awaited =>
    /\ dPc[dWire[i].task] = Awaits(dWire[i].sql)
    /\ \A j \in Sent : dWire[j].awaited /\ dWire[j].task = dWire[i].task => j = i

Turns == \A t \in D!Tasks : dPc[t] \in HasLock => D!Holds(t)

OfBody(i) == dWire[i].sql \in Body
Opening(i) == dWire[i].awaited /\ dWire[i].sql \in {"BEGIN", "WRITE"}
IsWork(i) == dWire[i].sql \in {"FIRST", "SECOND"}

OneBody ==
  \A i, j \in Sent : i < j /\ OfBody(j) =>
    /\ ~Opening(i)
    /\ OfBody(i) =>
         /\ dWire[i].task = dWire[j].task /\ dWire[j].sql = "ROLLBACK"
         /\ ~dWire[i].awaited /\ IsWork(i)

BodyIsOpen == \A i \in Sent : OfBody(i) => dOpen

GivenUpIsUndone ==
  \A i \in Sent : ~dWire[i].awaited /\ IsWork(i) =>
    \E j \in Sent : i < j /\ dWire[j].sql = "ROLLBACK"

BodyIsSent ==
  \A t \in D!Tasks : dPc[t] = "body" =>
    \E i \in Sent : dWire[i].awaited /\ dWire[i].task = t /\ IsWork(i)

Progress ==
  \A i \in Sent :
    LET t == dWire[i].task
        done == dPending \cap D!Writes(t)
    IN /\ dWire[i].sql = "FIRST" => done = {}
       /\ dWire[i].sql = "SECOND" => done = {<<t, 1>>}
       /\ dWire[i].sql = "COMMIT" => done = D!Writes(t)

(* Of a transaction whose end raised the writes stay behind, and no end of   *)
(* another one is in the queue.                                             *)
PendingIsOfBody ==
  /\ \A t \in Transactions : dPending \cap D!Writes(t) # {} =>
       \/ \E i \in Sent : OfBody(i) /\ dWire[i].task = t
       \/ \A i \in Sent : ~OfBody(i)
  /\ ~dOpen => dPending = {}

OpenIsKnown ==
  /\ dOpen /\ ~dStray => \E i \in Sent : OfBody(i)
  /\ \A i \in Sent : dWire[i].sql = "BEGIN" /\ ~dWire[i].awaited => dStray

DatabaseInv ==
  /\ DatabaseTypes /\ OfItsKind /\ Answers /\ Turns
  /\ OneBody /\ BodyIsOpen /\ GivenUpIsUndone /\ BodyIsSent
  /\ Progress /\ PendingIsOfBody /\ OpenIsKnown
  /\ AllOrNothing

(* What happens to the queue. *)
LEMMA Sending ==
  ASSUME dWire \in Seq(Statements), NEW s \in Statements, dWire' = Append(dWire, s)
  PROVE  /\ dWire' \in Seq(Statements)
         /\ Len(dWire) \in Nat /\ Len(dWire') = Len(dWire) + 1
         /\ \A i \in 1..Len(dWire) : dWire'[i] = dWire[i]
         /\ dWire'[Len(dWire) + 1] = s
OBVIOUS

LEMMA Dropping ==
  ASSUME dWire \in Seq(Statements), dWire # <<>>, NEW rest, rest = Tail(dWire)
  PROVE  /\ rest \in Seq(Statements)
         /\ Len(dWire) \in Nat /\ Len(dWire) >= 1 /\ Len(rest) = Len(dWire) - 1
         /\ \A i \in 1..Len(rest) : rest[i] = dWire[i + 1]
         /\ Head(dWire) = dWire[1] /\ dWire[1] \in Statements
OBVIOUS

LEMMA Swapping ==
  ASSUME dWire \in Seq(Statements), dWire # <<>>, NEW s \in Statements,
         dWire' = Append(Tail(dWire), s)
  PROVE  /\ dWire' \in Seq(Statements)
         /\ Len(dWire) \in Nat /\ Len(dWire) >= 1 /\ Len(dWire') = Len(dWire)
         /\ \A i \in 1..(Len(dWire) - 1) : dWire'[i] = dWire[i + 1]
         /\ dWire'[Len(dWire)] = s
         /\ Head(dWire) = dWire[1] /\ dWire[1] \in Statements
<1> DEFINE rest == Tail(dWire)
<1>1. /\ rest \in Seq(Statements)
      /\ Len(dWire) \in Nat /\ Len(dWire) >= 1 /\ Len(rest) = Len(dWire) - 1
      /\ \A i \in 1..Len(rest) : rest[i] = dWire[i + 1]
      /\ Head(dWire) = dWire[1] /\ dWire[1] \in Statements
  BY Dropping
<1> HIDE DEF rest
<1>2. dWire' = Append(rest, s) BY DEF rest
<1> QED BY <1>1, <1>2

LEMMA LeavingTheLock ==
  ASSUME dLock \in Seq(D!Tasks), NEW t
  PROVE  /\ D!Released(t) \in Seq(D!Tasks)
         /\ \A d : D!Holds(d) /\ d # t =>
                     D!Released(t) # <<>> /\ Head(D!Released(t)) = d
<1> DEFINE at == {k \in DOMAIN dLock : dLock[k] = t}
<1>1. CASE at = {}
  <2>1. D!Released(t) = dLock BY <1>1 DEF D!Released
  <2> QED BY <2>1 DEF D!Holds
<1>2. CASE at # {}
  <2> DEFINE k == CHOOSE k \in at : TRUE
  <2>1. k \in at BY <1>2
  <2>2. D!Released(t) = D!RemoveAt(dLock, k) BY <1>2 DEF D!Released
  <2>3. k \in DOMAIN dLock /\ dLock[k] = t BY <2>1
  <2> HIDE DEF k, at
  <2>4. k \in 1..Len(dLock) /\ Len(dLock) \in Nat /\ \A i \in 1..Len(dLock) : dLock[i] \in D!Tasks
    BY <2>3
  <2> DEFINE before == SubSeq(dLock, 1, k - 1)
             after == SubSeq(dLock, k + 1, Len(dLock))
  <2>5. /\ before \in Seq(D!Tasks) /\ Len(before) = IF 1 <= k - 1 THEN k - 1 ELSE 0
        /\ \A i \in 1..(k - 1) : before[i] = dLock[i]
    <3>1. 1 \in Int /\ k - 1 \in Int /\ \A i \in 1..(k - 1) : dLock[i] \in D!Tasks BY <2>4
    <3>2. /\ SubSeq(dLock, 1, k - 1) \in Seq(D!Tasks)
          /\ Len(SubSeq(dLock, 1, k - 1)) = IF 1 <= k - 1 THEN (k - 1) - 1 + 1 ELSE 0
          /\ \A i \in 1..((k - 1) - 1 + 1) : SubSeq(dLock, 1, k - 1)[i] = dLock[1 + i - 1]
      BY <3>1, SubSeqProperties
    <3> QED BY <2>4, <3>2
  <2>6. after \in Seq(D!Tasks)
    <3>1. k + 1 \in Int /\ Len(dLock) \in Int /\ \A i \in (k + 1)..Len(dLock) : dLock[i] \in D!Tasks
      BY <2>4
    <3> QED BY <3>1, SubSeqProperties
  <2>7. D!Released(t) = before \o after BY <2>2 DEF D!RemoveAt
  <2> HIDE DEF before, after
  <2>8. /\ before \o after \in Seq(D!Tasks)
        /\ Len(before \o after) = Len(before) + Len(after)
        /\ \A i \in 1..(Len(before) + Len(after)) :
             (before \o after)[i] = IF i <= Len(before) THEN before[i] ELSE after[i - Len(before)]
    BY <2>5, <2>6, ConcatProperties
  <2>9. ASSUME NEW d, D!Holds(d), d # t
        PROVE  D!Released(t) # <<>> /\ Head(D!Released(t)) = d
    <3>1. dLock # <<>> /\ dLock[1] = d /\ k >= 2 BY <2>3, <2>4, <2>9 DEF D!Holds
    <3>2. Len(before) >= 1 /\ before[1] = d BY <2>4, <2>5, <3>1
    <3>3. Len(after) \in Nat BY <2>6
    <3>4. (before \o after)[1] = d /\ Len(before \o after) >= 1 BY <2>8, <3>2, <3>3, <2>5
    <3> QED BY <2>7, <2>8, <3>4
  <2> QED BY <2>7, <2>8, <2>9
<1> QED BY <1>1, <1>2

LEMMA DatabaseInit ==
  ASSUME D!Init
  PROVE  DatabaseInv
<1>1. dWire = <<>> /\ dLock = <<>> /\ dStored = {} /\ dPc = [t \in D!Tasks |-> "idle"]
  BY DEF D!Init
<1>2. Len(dWire) = 0 /\ dWire \in Seq(Statements) /\ dLock \in Seq(D!Tasks) BY <1>1
<1>3. Sent = {} BY <1>2 DEF Sent
<1>4. DatabaseTypes BY <1>1, <1>2 DEF DatabaseTypes, D!Init
<1>5. Answers /\ OneBody /\ BodyIsOpen /\ GivenUpIsUndone /\ Progress
  BY <1>3 DEF Answers, OneBody, BodyIsOpen, GivenUpIsUndone, Progress
<1>6. OfItsKind /\ Turns /\ BodyIsSent
  BY <1>1, <1>3 DEF OfItsKind, Turns, BodyIsSent, HasLock
<1>7. PendingIsOfBody /\ OpenIsKnown
  BY <1>3 DEF PendingIsOfBody, OpenIsKnown, D!Init
<1>8. AllOrNothing
  BY <1>1 DEF AllOrNothing, D!AllOrNothing, D!Writers, D!Tasks
<1> QED BY <1>4, <1>5, <1>6, <1>7, <1>8 DEF DatabaseInv

(* Ask and AskRead *)
LEMMA DatabaseAsk ==
  ASSUME DatabaseInv, NEW t \in D!Tasks, D!Ask(t)
  PROVE  DatabaseInv'
<1>1. /\ dPc[t] = "idle" /\ t \in D!Writers
      /\ dLock' = Append(dLock, t) /\ dPc' = [dPc EXCEPT ![t] = "lock"]
      /\ UNCHANGED <<dWire, dTries, dOpen, dPending, dStored, dSeen, dBusy, dStray, dFaults>>
  BY DEF D!Ask, D!Go
<1>2. DatabaseTypes /\ dPc \in [D!Tasks -> HasLock \cup {"idle", "lock", "read", "done", "failed"}]
  BY DEF DatabaseInv, DatabaseTypes
<1>3. \A d \in D!Tasks : dPc'[d] = IF d = t THEN "lock" ELSE dPc[d] BY <1>1, <1>2
<1>4. \A d : D!Holds(d) => D!Holds(d)' BY <1>1, <1>2 DEF D!Holds, DatabaseTypes
<1>5. DatabaseTypes' BY <1>1, <1>2 DEF DatabaseTypes
<1>6. Sent' = Sent BY <1>1 DEF Sent
<1>7. \A i \in Sent : dWire[i] \in Statements BY <1>2 DEF DatabaseTypes, Sent
<1>8. OfItsKind' BY <1>1, <1>3, <1>6 DEF OfItsKind, DatabaseInv
<1>9. Answers'
  BY <1>1, <1>3, <1>6, <1>7 DEF Answers, DatabaseInv, Awaits, Statements, Body
<1>10. Turns' BY <1>3, <1>4 DEF Turns, HasLock, DatabaseInv
<1>11. OneBody' /\ BodyIsOpen' /\ GivenUpIsUndone'
  BY <1>1, <1>6 DEF DatabaseInv, OneBody, BodyIsOpen, GivenUpIsUndone, OfBody, Opening, IsWork
<1>12. BodyIsSent' BY <1>1, <1>3, <1>6 DEF DatabaseInv, BodyIsSent, IsWork
<1>13. Progress' /\ PendingIsOfBody' /\ OpenIsKnown'
  BY <1>1, <1>6 DEF DatabaseInv, Progress, PendingIsOfBody, OpenIsKnown, OfBody
<1>14. AllOrNothing'
  BY <1>1, <1>3 DEF DatabaseInv, AllOrNothing, D!AllOrNothing, D!Writers, D!Tasks
<1> QED BY <1>5, <1>8, <1>9, <1>10, <1>11, <1>12, <1>13, <1>14 DEF DatabaseInv

(* A task that asks: a first statement, or a read.                          *)
LEMMA DatabaseSend ==
  ASSUME DatabaseInv, NEW t \in D!Tasks, NEW sql \in {"BEGIN", "WRITE", "READ"},
         dPc[t] \in {"idle", "lock", "pause"},
         dPc' = [dPc EXCEPT ![t] = Awaits(sql)],
         dWire' = Append(dWire, D!Statement(t, sql)),
         sql = "BEGIN" => t \in Transactions /\ D!Holds(t),
         sql = "WRITE" => t \in Singles /\ D!Holds(t),
         sql = "READ" => t \in Readers,
         UNCHANGED <<dLock, dOpen, dPending, dStored, dStray>>
  PROVE  DatabaseInv'
<1> DEFINE s == D!Statement(t, sql)
<1>0. PICK n : n = Len(dWire) OBVIOUS
<1>1. DatabaseTypes /\ dPc \in [D!Tasks -> HasLock \cup {"idle", "lock", "read", "done", "failed"}]
  BY DEF DatabaseInv, DatabaseTypes
<1>2. s \in Statements /\ s.task = t /\ s.sql = sql /\ s.awaited
  BY DEF D!Statement, Statements, Body
<1>3. Awaits(sql) = IF sql = "READ" THEN "read" ELSE sql BY DEF Awaits
<1>4. \A d \in D!Tasks : dPc'[d] = IF d = t THEN Awaits(sql) ELSE dPc[d] BY <1>1
<1>5. /\ dWire' \in Seq(Statements)
      /\ n \in Nat /\ Len(dWire') = n + 1
      /\ \A i \in 1..n : dWire'[i] = dWire[i]
      /\ dWire'[n + 1] = s
  BY <1>0, <1>1, <1>2, Sending DEF DatabaseTypes
<1> HIDE DEF s
<1>6. Sent = 1..n /\ Sent' = 1..(n + 1) /\ Sent' = Sent \cup {n + 1} /\ n + 1 \notin Sent
  BY <1>0, <1>5 DEF Sent
<1>7. \A i \in Sent : dWire[i] \in Statements /\ dWire'[i] = dWire[i]
  BY <1>0, <1>1, <1>5 DEF DatabaseTypes, Sent
<1>8. DatabaseTypes' BY <1>1, <1>3, <1>5 DEF DatabaseTypes, HasLock
<1>9. OfItsKind'
  BY <1>2, <1>3, <1>4, <1>5, <1>6, <1>7 DEF OfItsKind, DatabaseInv, Body
<1>10. Answers'
  <2>1. \A i \in Sent : dWire[i].awaited => dWire[i].task # t
    BY <1>1, <1>7 DEF Answers, DatabaseInv, Awaits, Statements, Body
  <2>2. ASSUME NEW i \in Sent', dWire'[i].awaited
        PROVE  /\ dPc'[dWire'[i].task] = Awaits(dWire'[i].sql)
               /\ \A j \in Sent' : dWire'[j].awaited /\ dWire'[j].task = dWire'[i].task => j = i
    <3>1. CASE i \in Sent
      <4>0. Answers BY DEF DatabaseInv
      <4>1. /\ dWire'[i] = dWire[i] /\ dWire[i].awaited /\ dWire[i].task # t
            /\ dWire[i].task \in D!Tasks
        BY <1>7, <2>1, <2>2, <3>1 DEF Statements
      <4>2. dPc'[dWire'[i].task] = Awaits(dWire'[i].sql)
        BY <1>4, <3>1, <4>0, <4>1 DEF Answers
      <4>3. ASSUME NEW j \in Sent', dWire'[j].awaited, dWire'[j].task = dWire'[i].task
            PROVE  j = i
        <5>1. j \in Sent BY <1>2, <1>5, <1>6, <4>1, <4>3
        <5> QED BY <1>7, <3>1, <4>0, <4>1, <4>3, <5>1 DEF Answers
      <4> QED BY <4>2, <4>3
    <3>2. CASE i = n + 1
      <4>1. dWire'[i].task = t /\ dWire'[i].sql = sql BY <1>2, <1>5, <3>2
      <4>2. dPc'[dWire'[i].task] = Awaits(dWire'[i].sql) BY <1>4, <4>1
      <4>3. \A j \in Sent' : dWire'[j].awaited /\ dWire'[j].task = t => j = i
        BY <1>6, <1>7, <2>1, <3>2
      <4> QED BY <4>1, <4>2, <4>3
    <3> QED BY <1>6, <3>1, <3>2
  <2> QED BY <2>2 DEF Answers
<1>11. Turns' BY <1>3, <1>4 DEF Turns, HasLock, DatabaseInv, D!Holds
<1>12. OneBody'
  <2>1. ~OfBody(n + 1)' BY <1>2, <1>5 DEF OfBody, Body
  <2>2. \A i, j \in Sent' : i < j /\ OfBody(j)' => i \in Sent /\ j \in Sent
    BY <1>5, <1>6, <2>1
  <2>3. OneBody BY DEF DatabaseInv
  <2> SUFFICES ASSUME NEW i \in Sent', NEW j \in Sent', i < j, OfBody(j)'
               PROVE  /\ ~Opening(i)'
                      /\ OfBody(i)' =>
                           /\ dWire'[i].task = dWire'[j].task /\ dWire'[j].sql = "ROLLBACK"
                           /\ ~dWire'[i].awaited /\ IsWork(i)'
    BY DEF OneBody
  <2>4. i \in Sent /\ j \in Sent /\ dWire'[i] = dWire[i] /\ dWire'[j] = dWire[j]
    BY <1>7, <2>2
  <2> QED BY <2>3, <2>4 DEF OneBody, OfBody, Opening, IsWork
<1>13. BodyIsOpen' /\ GivenUpIsUndone' /\ Progress'
  BY <1>2, <1>5, <1>6, <1>7
  DEF DatabaseInv, BodyIsOpen, GivenUpIsUndone, Progress, OfBody, IsWork, Body
<1>14. BodyIsSent'
  <2> SUFFICES ASSUME NEW d \in D!Tasks, dPc'[d] = "body"
               PROVE  \E i \in Sent' : dWire'[i].awaited /\ dWire'[i].task = d /\ IsWork(i)'
    BY DEF BodyIsSent
  <2>1. dPc[d] = "body" BY <1>3, <1>4
  <2>2. PICK i \in Sent : dWire[i].awaited /\ dWire[i].task = d /\ IsWork(i)
    BY <2>1 DEF DatabaseInv, BodyIsSent
  <2> QED BY <1>6, <1>7, <2>2 DEF IsWork
<1>15. PendingIsOfBody' /\ OpenIsKnown'
  <2>0. PendingIsOfBody /\ UNCHANGED <<dOpen, dPending>> BY DEF DatabaseInv
  <2>1. ~OfBody(n + 1)' BY <1>2, <1>5 DEF OfBody, Body
  <2>2. \A i \in Sent : OfBody(i)' = OfBody(i) /\ i \in Sent' /\ dWire'[i].task = dWire[i].task
    BY <1>6, <1>7 DEF OfBody
  <2>3. (\A i \in Sent : ~OfBody(i)) => \A i \in Sent' : ~OfBody(i)' BY <1>6, <2>1, <2>2
  <2>4. ASSUME NEW d \in Transactions, dPending' \cap D!Writes(d)' # {}
        PROVE  \/ \E i \in Sent' : OfBody(i)' /\ dWire'[i].task = d
               \/ \A i \in Sent' : ~OfBody(i)'
    <3>1. dPending \cap D!Writes(d) # {} BY <2>0, <2>4 DEF D!Writes
    <3> QED BY <2>0, <2>2, <2>3, <3>1 DEF PendingIsOfBody
  <2>5. PendingIsOfBody'
    <3>1. ~dOpen' => dPending' = {} BY <2>0 DEF PendingIsOfBody
    <3> QED BY <2>4, <3>1 DEF PendingIsOfBody
  <2>6. OpenIsKnown'
    BY <1>2, <1>5, <1>6, <1>7 DEF DatabaseInv, OpenIsKnown, OfBody
  <2> QED BY <2>5, <2>6
<1>16. AllOrNothing'
  <2>1. \A d \in D!Writers : dPc'[d] = "done" => dPc[d] = "done"
    BY <1>3, <1>4 DEF D!Writers, D!Tasks
  <2> QED BY <2>1 DEF DatabaseInv, AllOrNothing, D!AllOrNothing
<1> QED
  BY <1>8, <1>9, <1>10, <1>11, <1>12, <1>13, <1>14, <1>15, <1>16 DEF DatabaseInv

LEMMA DatabaseStop ==
  ASSUME DatabaseInv, D!Stop
  PROVE  DatabaseInv'
<1>1. /\ dWire' = <<>> /\ dOpen' = FALSE /\ dPending' = {} /\ dLock' = <<>>
      /\ dPc' = [t \in D!Tasks |-> IF dPc[t] = "done" THEN "done" ELSE "failed"]
      /\ UNCHANGED <<dTries, dStored, dSeen, dBusy, dStray>>
  BY DEF D!Stop
<1>2. Len(dWire') = 0 /\ dWire' \in Seq(Statements) /\ dLock' \in Seq(D!Tasks) BY <1>1
<1>3. Sent' = {} BY <1>2 DEF Sent
<1>4. DatabaseTypes' BY <1>1, <1>2 DEF DatabaseTypes, DatabaseInv
<1>5. Answers' /\ OneBody' /\ BodyIsOpen' /\ GivenUpIsUndone' /\ Progress'
  BY <1>3 DEF Answers, OneBody, BodyIsOpen, GivenUpIsUndone, Progress
<1>6. OfItsKind' /\ Turns' /\ BodyIsSent'
  BY <1>1, <1>3 DEF OfItsKind, Turns, BodyIsSent, HasLock
<1>7. PendingIsOfBody' /\ OpenIsKnown'
  BY <1>1, <1>3 DEF PendingIsOfBody, OpenIsKnown
<1>8. AllOrNothing'
  BY <1>1 DEF DatabaseInv, AllOrNothing, D!AllOrNothing, D!Writers, D!Tasks
<1> QED BY <1>4, <1>5, <1>6, <1>7, <1>8 DEF DatabaseInv

(* Nothing but the clock, the counters and the others moves.                 *)
LEMMA DatabaseIdle ==
  ASSUME DatabaseInv, UNCHANGED <<dPc, dLock, dWire, dOpen, dPending, dStored, dStray>>
  PROVE  DatabaseInv'
<1>1. Sent' = Sent BY DEF Sent
<1>2. DatabaseTypes' /\ OfItsKind' /\ Answers' /\ Turns'
  BY <1>1 DEF DatabaseInv, DatabaseTypes, OfItsKind, Answers, Turns, D!Holds
<1>3. OneBody' /\ BodyIsOpen' /\ GivenUpIsUndone' /\ BodyIsSent'
  BY <1>1 DEF DatabaseInv, OneBody, BodyIsOpen, GivenUpIsUndone, BodyIsSent, OfBody, Opening, IsWork
<1>4. Progress' /\ PendingIsOfBody' /\ OpenIsKnown'
  BY <1>1 DEF DatabaseInv, Progress, PendingIsOfBody, OpenIsKnown, OfBody
<1>5. AllOrNothing' BY DEF DatabaseInv, AllOrNothing, D!AllOrNothing
<1> QED BY <1>2, <1>3, <1>4, <1>5 DEF DatabaseInv

(* A task is cancelled in the body of its transaction.                       *)
LEMMA DatabaseCancelBody ==
  ASSUME DatabaseInv, NEW t \in D!Tasks, D!Cancel(t), dPc[t] = "body"
  PROVE  DatabaseInv'
<1> DEFINE s == D!Statement(t, "ROLLBACK")
           w == D!Unawaited(t)
<1>0. PICK n : n = Len(dWire) OBVIOUS
<1>1. DatabaseTypes /\ dPc \in [D!Tasks -> HasLock \cup {"idle", "lock", "read", "done", "failed"}]
  BY DEF DatabaseInv, DatabaseTypes
<1>2. /\ dWire' = Append(w, s) /\ dPc' = [dPc EXCEPT ![t] = "rollback"]
      /\ UNCHANGED <<dLock, dStray, dOpen, dPending, dStored>>
  BY DEF D!Cancel, D!Go, D!OnError
<1>3. s \in Statements /\ s.task = t /\ s.sql = "ROLLBACK" /\ s.awaited
  BY DEF D!Statement, Statements, Body
<1>4. \A d \in D!Tasks : dPc'[d] = IF d = t THEN "rollback" ELSE dPc[d] BY <1>1, <1>2
<1>5. n \in Nat /\ \A i \in 1..n : dWire[i] \in Statements BY <1>0, <1>1 DEF DatabaseTypes
<1>6. w = [i \in 1..n |-> IF dWire[i].task = t THEN [dWire[i] EXCEPT !.awaited = FALSE]
                          ELSE dWire[i]]
  BY <1>0 DEF D!Unawaited
<1> HIDE DEF w, s
<1>7. \A i \in 1..n :
        /\ w[i] \in Statements /\ w[i].task = dWire[i].task /\ w[i].sql = dWire[i].sql
        /\ w[i].awaited = (dWire[i].awaited /\ dWire[i].task # t)
  BY <1>5, <1>6 DEF Statements
<1>8. w \in Seq(Statements) /\ Len(w) = n
  <2>1. w \in [1..n -> Statements] BY <1>6, <1>7
  <2> QED BY <1>5, <2>1
<1>9. /\ dWire' \in Seq(Statements) /\ Len(dWire') = n + 1
      /\ \A i \in 1..n : dWire'[i] = w[i]
      /\ dWire'[n + 1] = s
  BY <1>2, <1>3, <1>5, <1>8
<1>10. Sent = 1..n /\ Sent' = Sent \cup {n + 1} /\ n + 1 \notin Sent
       /\ \A i \in Sent : i < n + 1
  BY <1>0, <1>5, <1>9 DEF Sent
<1>11. \A i \in Sent :
        /\ dWire'[i].task = dWire[i].task /\ dWire'[i].sql = dWire[i].sql
        /\ dWire'[i].awaited = (dWire[i].awaited /\ dWire[i].task # t)
        /\ dWire[i].task \in D!Tasks /\ dWire[i].awaited \in BOOLEAN
        /\ dWire[i].sql \in Body \cup {"BEGIN", "WRITE", "READ"}
  BY <1>5, <1>7, <1>9, <1>10 DEF Statements
<1>12. PICK b \in Sent : dWire[b].awaited /\ dWire[b].task = t /\ IsWork(b)
  BY DEF DatabaseInv, BodyIsSent
<1>13. \A j \in Sent : OfBody(j) => j = b
  <2>1. OfBody(b) BY <1>12 DEF IsWork, OfBody, Body
  <2>2. \A j \in Sent : OfBody(j) => ~(b < j) BY <1>12, <2>1 DEF DatabaseInv, OneBody
  <2>3. \A j \in Sent : OfBody(j) => ~(j < b)
    BY <1>12, <2>1 DEF DatabaseInv, OneBody, IsWork
  <2> QED BY <1>10, <1>5, <2>2, <2>3
<1>14. \A i \in Sent : ~Opening(i)
  <2> SUFFICES ASSUME NEW i \in Sent, Opening(i) PROVE FALSE OBVIOUS
  <2>1. dPc[dWire[i].task] = dWire[i].sql /\ dWire[i].sql \in HasLock
    BY DEF Opening, DatabaseInv, Answers, Awaits, HasLock
  <2>2. D!Holds(dWire[i].task) /\ D!Holds(t)
    BY <1>11, <2>1 DEF DatabaseInv, Turns, HasLock
  <2>3. dWire[i].task = t BY <2>2 DEF D!Holds
  <2> QED BY <2>1, <2>3 DEF Opening
<1>15. t \in Transactions BY DEF DatabaseInv, OfItsKind
<1>16. DatabaseTypes' BY <1>1, <1>2, <1>9 DEF DatabaseTypes, HasLock
<1>17. OfItsKind'
  BY <1>3, <1>4, <1>9, <1>10, <1>11, <1>15 DEF OfItsKind, DatabaseInv, Body
<1>18. Answers'
  <2>1. ASSUME NEW i \in Sent', dWire'[i].awaited
        PROVE  /\ dPc'[dWire'[i].task] = Awaits(dWire'[i].sql)
               /\ \A j \in Sent' : dWire'[j].awaited /\ dWire'[j].task = dWire'[i].task => j = i
    <3>1. CASE i \in Sent
      <4>1. dWire[i].awaited /\ dWire[i].task # t BY <1>11, <2>1, <3>1
      <4>2. dPc'[dWire'[i].task] = Awaits(dWire'[i].sql)
        BY <1>4, <1>11, <3>1, <4>1 DEF Answers, DatabaseInv
      <4> QED BY <1>3, <1>9, <1>10, <1>11, <3>1, <4>1, <4>2 DEF Answers, DatabaseInv
    <3>2. CASE i = n + 1
      <4>1. Awaits("ROLLBACK") = "rollback" BY DEF Awaits
      <4>2. dWire'[i].task = t /\ dWire'[i].sql = "ROLLBACK" BY <1>3, <1>9, <3>2
      <4>3. dPc'[dWire'[i].task] = Awaits(dWire'[i].sql) BY <1>4, <4>1, <4>2
      <4>4. \A j \in Sent' : dWire'[j].awaited /\ dWire'[j].task = t => j = i
        BY <1>10, <1>11, <3>2
      <4> QED BY <4>2, <4>3, <4>4
    <3> QED BY <1>10, <3>1, <3>2
  <2> QED BY <2>1 DEF Answers
<1>19. Turns' BY <1>2, <1>4 DEF Turns, HasLock, DatabaseInv, D!Holds
<1>20. OneBody'
  <2>1. ASSUME NEW i \in Sent', NEW j \in Sent', i < j, OfBody(j)'
        PROVE  /\ ~Opening(i)'
               /\ OfBody(i)' =>
                    /\ dWire'[i].task = dWire'[j].task /\ dWire'[j].sql = "ROLLBACK"
                    /\ ~dWire'[i].awaited /\ IsWork(i)'
    <3>1. i \in Sent BY <1>5, <1>10, <2>1
    <3>2. ~Opening(i)' BY <1>11, <1>14, <3>1 DEF Opening
    <3>3. CASE j \in Sent
      <4>1. j = b BY <1>11, <1>13, <2>1, <3>3 DEF OfBody
      <4>2. ~OfBody(i) BY <1>10, <1>13, <2>1, <3>1, <4>1, <1>5
      <4> QED BY <1>11, <3>1, <3>2, <4>2 DEF OfBody
    <3>4. CASE j = n + 1
      <4>1. OfBody(i)' => i = b BY <1>11, <1>13, <3>1 DEF OfBody
      <4> QED BY <1>3, <1>9, <1>11, <1>12, <3>1, <3>2, <3>4, <4>1 DEF IsWork
    <3> QED BY <1>10, <3>3, <3>4
  <2> QED BY <2>1 DEF OneBody
<1>21. BodyIsOpen'
  <2>1. dOpen BY <1>12 DEF DatabaseInv, BodyIsOpen, IsWork, OfBody, Body
  <2> QED BY <1>2, <2>1 DEF BodyIsOpen
<1>22. GivenUpIsUndone'
  BY <1>3, <1>9, <1>10 DEF GivenUpIsUndone, IsWork
<1>23. BodyIsSent'
  <2>1. ASSUME NEW d \in D!Tasks, dPc'[d] = "body"
        PROVE  \E i \in Sent' : dWire'[i].awaited /\ dWire'[i].task = d /\ IsWork(i)'
    <3>1. d # t /\ dPc[d] = "body" BY <1>4, <2>1
    <3>2. D!Holds(d) /\ D!Holds(t) BY <3>1 DEF DatabaseInv, Turns, HasLock
    <3> QED BY <3>1, <3>2 DEF D!Holds
  <2> QED BY <2>1 DEF BodyIsSent
<1>24. Progress'
  BY <1>2, <1>3, <1>9, <1>10, <1>11 DEF DatabaseInv, Progress
<1>25. PendingIsOfBody' /\ OpenIsKnown'
  <2>0. PendingIsOfBody /\ UNCHANGED <<dOpen, dPending>> BY <1>2 DEF DatabaseInv
  <2>1. PendingIsOfBody'
    <3>1. ASSUME NEW d \in Transactions, dPending' \cap D!Writes(d)' # {}
          PROVE  \E i \in Sent' : OfBody(i)' /\ dWire'[i].task = d
      <4>1. dPending \cap D!Writes(d) # {} BY <2>0, <3>1 DEF D!Writes
      <4>2. OfBody(b) BY <1>12 DEF IsWork, OfBody, Body
      <4>3. PICK i \in Sent : OfBody(i) /\ dWire[i].task = d
        BY <2>0, <4>1, <4>2 DEF PendingIsOfBody
      <4> QED BY <1>10, <1>11, <4>3 DEF OfBody
    <3> QED BY <2>0, <3>1 DEF PendingIsOfBody
  <2>2. OfBody(n + 1)' BY <1>3, <1>9 DEF OfBody, Body
  <2>3. \A i \in Sent' : dWire'[i].sql = "BEGIN" /\ ~dWire'[i].awaited => dStray'
    <3> SUFFICES ASSUME NEW i \in Sent', dWire'[i].sql = "BEGIN", ~dWire'[i].awaited PROVE dStray
      BY <1>2
    <3>1. i \in Sent BY <1>3, <1>9, <1>10
    <3>2. ~dWire[i].awaited BY <1>11, <1>14, <3>1 DEF Opening
    <3> QED BY <1>11, <3>1, <3>2 DEF DatabaseInv, OpenIsKnown
  <2> QED BY <1>10, <2>1, <2>2, <2>3 DEF OpenIsKnown
<1>26. AllOrNothing'
  <2>1. \A d \in D!Writers : dPc'[d] = "done" => dPc[d] = "done"
    BY <1>4 DEF D!Writers, D!Tasks
  <2> QED BY <1>2, <2>1 DEF DatabaseInv, AllOrNothing, D!AllOrNothing
<1> QED
  BY <1>16, <1>17, <1>18, <1>19, <1>20, <1>21, <1>22, <1>23, <1>24, <1>25, <1>26
  DEF DatabaseInv

(* A task is cancelled elsewhere: it leaves and gives up the lock.           *)
LEMMA DatabaseCancelElsewhere ==
  ASSUME DatabaseInv, NEW t \in D!Tasks, D!Cancel(t), dPc[t] # "body"
  PROVE  DatabaseInv'
<1>0. PICK n : n = Len(dWire) OBVIOUS
<1>1. DatabaseTypes /\ dPc \in [D!Tasks -> HasLock \cup {"idle", "lock", "read", "done", "failed"}]
  BY DEF DatabaseInv, DatabaseTypes
<1>2. /\ dWire' = D!Unawaited(t) /\ dPc' = [dPc EXCEPT ![t] = "failed"]
      /\ dLock' = D!Released(t) /\ dStray' = (dStray \/ dPc[t] = "BEGIN")
      /\ UNCHANGED <<dOpen, dPending, dStored>>
      /\ dPc[t] \notin {"idle", "done", "failed"}
  BY DEF D!Cancel, D!Go, D!Finished
<1>3. \A d \in D!Tasks : dPc'[d] = IF d = t THEN "failed" ELSE dPc[d] BY <1>1, <1>2
<1>4. n \in Nat /\ \A i \in 1..n : dWire[i] \in Statements BY <1>0, <1>1 DEF DatabaseTypes
<1>5. dWire' = [i \in 1..n |-> IF dWire[i].task = t THEN [dWire[i] EXCEPT !.awaited = FALSE]
                              ELSE dWire[i]]
  BY <1>0, <1>2 DEF D!Unawaited
<1>6. \A i \in 1..n :
        /\ dWire'[i] \in Statements
        /\ dWire'[i].task = dWire[i].task /\ dWire'[i].sql = dWire[i].sql
        /\ dWire'[i].awaited = (dWire[i].awaited /\ dWire[i].task # t)
        /\ dWire[i].task \in D!Tasks /\ dWire[i].awaited \in BOOLEAN
  BY <1>4, <1>5 DEF Statements
<1>7. dWire' \in Seq(Statements) /\ Len(dWire') = n
  <2>1. dWire' \in [1..n -> Statements] BY <1>5, <1>6
  <2> QED BY <1>4, <2>1
<1>8. Sent = 1..n /\ Sent' = Sent BY <1>0, <1>7 DEF Sent
<1>9. /\ D!Released(t) \in Seq(D!Tasks)
      /\ \A d : D!Holds(d) /\ d # t => D!Released(t) # <<>> /\ Head(D!Released(t)) = d
  BY <1>1, LeavingTheLock DEF DatabaseTypes
<1>10. DatabaseTypes' BY <1>1, <1>2, <1>7, <1>9 DEF DatabaseTypes
<1>11. OfItsKind' BY <1>3, <1>6, <1>8 DEF OfItsKind, DatabaseInv
<1>12. Answers'
  <2>0. Answers BY DEF DatabaseInv
  <2> SUFFICES ASSUME NEW i \in Sent', dWire'[i].awaited
               PROVE  /\ dPc'[dWire'[i].task] = Awaits(dWire'[i].sql)
                      /\ \A j \in Sent' : dWire'[j].awaited /\ dWire'[j].task = dWire'[i].task => j = i
    BY DEF Answers
  <2>1. i \in Sent /\ dWire[i].awaited /\ dWire[i].task # t BY <1>6, <1>8
  <2>2. dPc'[dWire'[i].task] = Awaits(dWire'[i].sql) BY <1>3, <1>6, <1>8, <2>0, <2>1 DEF Answers
  <2>3. ASSUME NEW j \in Sent', dWire'[j].awaited, dWire'[j].task = dWire'[i].task PROVE j = i
    <3>1. j \in Sent /\ dWire[j].awaited /\ dWire[j].task = dWire[i].task BY <1>6, <1>8, <2>3
    <3> QED BY <2>0, <2>1, <3>1 DEF Answers
  <2> QED BY <2>2, <2>3
<1>13. Turns'
  <2> SUFFICES ASSUME NEW d \in D!Tasks, dPc'[d] \in HasLock PROVE D!Holds(d)' BY DEF Turns
  <2>1. d # t /\ dPc[d] \in HasLock BY <1>3 DEF HasLock
  <2>2. D!Holds(d) BY <2>1 DEF DatabaseInv, Turns
  <2> QED BY <1>2, <1>9, <2>1, <2>2 DEF D!Holds
<1>14. \A i \in Sent : dWire[i].awaited /\ IsWork(i) => dWire[i].task # t
  BY DEF DatabaseInv, Answers, IsWork, Awaits
<1>15. OneBody'
  <2>0. OneBody BY DEF DatabaseInv
  <2> SUFFICES ASSUME NEW i \in Sent', NEW j \in Sent', i < j, OfBody(j)'
               PROVE  /\ ~Opening(i)'
                      /\ OfBody(i)' =>
                           /\ dWire'[i].task = dWire'[j].task /\ dWire'[j].sql = "ROLLBACK"
                           /\ ~dWire'[i].awaited /\ IsWork(i)'
    BY DEF OneBody
  <2>1. i \in Sent /\ j \in Sent /\ OfBody(j) BY <1>6, <1>8 DEF OfBody
  <2>2. ~Opening(i) /\ (OfBody(i) =>
           /\ dWire[i].task = dWire[j].task /\ dWire[j].sql = "ROLLBACK"
           /\ ~dWire[i].awaited /\ IsWork(i))
    BY <2>0, <2>1 DEF OneBody
  <2> QED BY <1>6, <1>8, <2>1, <2>2 DEF Opening, OfBody, IsWork
<1>16. BodyIsOpen' BY <1>2, <1>6, <1>8 DEF DatabaseInv, BodyIsOpen, OfBody
<1>17. GivenUpIsUndone'
  <2> SUFFICES ASSUME NEW i \in Sent', ~dWire'[i].awaited, IsWork(i)'
               PROVE  \E j \in Sent' : i < j /\ dWire'[j].sql = "ROLLBACK"
    BY DEF GivenUpIsUndone
  <2>1. i \in Sent /\ IsWork(i) BY <1>6, <1>8 DEF IsWork
  <2>2. ~dWire[i].awaited BY <1>6, <1>8, <1>14, <2>1
  <2>3. PICK j \in Sent : i < j /\ dWire[j].sql = "ROLLBACK"
    BY <2>1, <2>2 DEF DatabaseInv, GivenUpIsUndone
  <2> QED BY <1>6, <1>8, <2>3
<1>18. BodyIsSent'
  <2> SUFFICES ASSUME NEW d \in D!Tasks, dPc'[d] = "body"
               PROVE  \E i \in Sent' : dWire'[i].awaited /\ dWire'[i].task = d /\ IsWork(i)'
    BY DEF BodyIsSent
  <2>1. d # t /\ dPc[d] = "body" BY <1>3
  <2>2. PICK i \in Sent : dWire[i].awaited /\ dWire[i].task = d /\ IsWork(i)
    BY <2>1 DEF DatabaseInv, BodyIsSent
  <2> QED BY <1>6, <1>8, <2>1, <2>2 DEF IsWork
<1>19. Progress' BY <1>2, <1>6, <1>8 DEF DatabaseInv, Progress
<1>20. PendingIsOfBody'
  <2>0. PendingIsOfBody /\ UNCHANGED <<dOpen, dPending>> BY <1>2 DEF DatabaseInv
  <2>1. ASSUME NEW d \in Transactions, dPending' \cap D!Writes(d)' # {}
        PROVE  \/ \E i \in Sent' : OfBody(i)' /\ dWire'[i].task = d
               \/ \A i \in Sent' : ~OfBody(i)'
    <3>1. dPending \cap D!Writes(d) # {} BY <2>0, <2>1 DEF D!Writes
    <3>2. CASE \E i \in Sent : OfBody(i) /\ dWire[i].task = d
      BY <1>6, <1>8, <3>2 DEF OfBody
    <3>3. CASE \A i \in Sent : ~OfBody(i) BY <1>6, <1>8, <3>3 DEF OfBody
    <3> QED BY <2>0, <3>1, <3>2, <3>3 DEF PendingIsOfBody
  <2> QED BY <2>0, <2>1 DEF PendingIsOfBody
<1>21. OpenIsKnown'
  <2>0. OpenIsKnown /\ UNCHANGED dOpen /\ (dStray => dStray') BY <1>2 DEF DatabaseInv
  <2>1. dOpen' /\ ~dStray' => \E i \in Sent' : OfBody(i)'
    BY <1>6, <1>8, <2>0 DEF OpenIsKnown, OfBody
  <2>2. ASSUME NEW i \in Sent', dWire'[i].sql = "BEGIN", ~dWire'[i].awaited PROVE dStray'
    <3>1. i \in Sent /\ dWire[i].sql = "BEGIN" BY <1>6, <1>8, <2>2
    <3>2. CASE ~dWire[i].awaited BY <2>0, <3>1, <3>2 DEF OpenIsKnown
    <3>3. CASE dWire[i].awaited
      <4>1. dWire[i].task = t BY <1>6, <1>8, <2>2, <3>1, <3>3
      <4>2. dPc[t] = "BEGIN" BY <3>1, <3>3, <4>1 DEF DatabaseInv, Answers, Awaits
      <4> QED BY <1>2, <4>2
    <3> QED BY <1>6, <1>8, <3>1, <3>2, <3>3
  <2> QED BY <2>1, <2>2 DEF OpenIsKnown
<1>22. AllOrNothing'
  <2>1. \A d \in D!Writers : dPc'[d] = "done" => dPc[d] = "done"
    BY <1>3 DEF D!Writers, D!Tasks
  <2>2. dStored' = dStored /\ (dStray => dStray') BY <1>2
  <2> QED BY <2>1, <2>2 DEF DatabaseInv, AllOrNothing, D!AllOrNothing, D!Writes, D!Writers
<1> QED
  BY <1>10, <1>11, <1>12, <1>13, <1>15, <1>16, <1>17, <1>18, <1>19, <1>20, <1>21, <1>22
  DEF DatabaseInv

(* The thread takes a statement and the task sends no other: what holds of   *)
(* the queue, the answers and the lock.                                     *)
Ordered ==
  /\ dPc \in [D!Tasks -> HasLock \cup {"idle", "lock", "read", "done", "failed"}]
  /\ dLock \in Seq(D!Tasks) /\ dWire \in Seq(Statements)
  /\ OfItsKind /\ Answers /\ Turns /\ OneBody /\ GivenUpIsUndone /\ BodyIsSent

LEMMA DroppingKeepsOrder ==
  ASSUME DatabaseInv, dWire # <<>>, dWire' = D!Rest,
         NEW t, t = D!Task, NEW to,
         \/ ~D!Current.awaited /\ UNCHANGED <<dPc, dLock>>
         \/ D!Current.awaited /\ to \in {"done", "failed"}
            /\ dPc' = [dPc EXCEPT ![t] = to]
            /\ (dLock' = D!Released(t) \/ (D!Current.sql = "READ" /\ UNCHANGED dLock))
         \/ D!Current.awaited /\ to = "pause" /\ D!Current.sql \in {"BEGIN", "WRITE"}
            /\ dPc' = [dPc EXCEPT ![t] = to] /\ UNCHANGED dLock
  PROVE  Ordered'
<1>0. PICK n : n = Len(dWire) OBVIOUS
<1>1. DatabaseTypes /\ dPc \in [D!Tasks -> HasLock \cup {"idle", "lock", "read", "done", "failed"}]
  BY DEF DatabaseInv, DatabaseTypes
<1>2. /\ dWire' \in Seq(Statements)
      /\ n \in Nat /\ n >= 1 /\ Len(dWire') = n - 1
      /\ \A i \in 1..(n - 1) : dWire'[i] = dWire[i + 1]
      /\ D!Current = dWire[1] /\ t = dWire[1].task
  <2>1. dWire' = Tail(dWire) /\ D!Current = Head(dWire) /\ t = D!Current.task
    BY DEF D!Rest, D!Current, D!Task
  <2> QED BY <1>0, <1>1, <2>1, Dropping DEF DatabaseTypes
<1>3. /\ Sent = 1..n /\ Sent' = 1..(n - 1) /\ 1 \in Sent
      /\ \A i \in Sent' : i + 1 \in Sent /\ i + 1 # 1 /\ dWire'[i] = dWire[i + 1]
      /\ \A i \in Sent : i # 1 => i - 1 \in Sent' /\ dWire'[i - 1] = dWire[i]
      /\ \A i, j \in Sent' : i < j => i + 1 < j + 1
  BY <1>0, <1>2 DEF Sent
<1>4. \A i \in Sent : dWire[i] \in Statements /\ dWire[i].task \in D!Tasks
        /\ dWire[i].awaited \in BOOLEAN
  <2>1. \A i \in 1..Len(dWire) : dWire[i] \in Statements BY <1>1 DEF DatabaseTypes
  <2> QED BY <2>1 DEF Statements, Sent
<1>5. t \in D!Tasks BY <1>2, <1>3, <1>4
<1>6. \A d \in D!Tasks : d # t => dPc'[d] = dPc[d]
  BY <1>1, <1>5
<1>7. dWire[1].awaited =>
        /\ dPc'[t] = to /\ to \in {"done", "failed", "pause"}
        /\ to = "pause" => UNCHANGED dLock /\ dWire[1].sql \in {"BEGIN", "WRITE"}
  BY <1>1, <1>2, <1>5
<1>8. ~dWire[1].awaited => UNCHANGED <<dPc, dLock>> BY <1>2
<1>9. \A i \in Sent : i # 1 /\ dWire[1].awaited /\ dWire[i].awaited => dWire[i].task # t
  BY <1>2, <1>3 DEF DatabaseInv, Answers
<1>10. dPc' \in [D!Tasks -> HasLock \cup {"idle", "lock", "read", "done", "failed"}]
  BY <1>1, <1>5 DEF HasLock
<1>11. /\ D!Released(t) \in Seq(D!Tasks)
       /\ \A d : D!Holds(d) /\ d # t => D!Released(t) # <<>> /\ Head(D!Released(t)) = d
  BY <1>1, LeavingTheLock DEF DatabaseTypes
<1>12. dLock' \in Seq(D!Tasks) BY <1>1, <1>11 DEF DatabaseTypes
<1>13. OfItsKind'
  <2>0. OfItsKind BY DEF DatabaseInv
  <2>1. ASSUME NEW d \in D!Tasks
        PROVE  /\ dPc'[d] \in {"BEGIN", "body", "commit", "rollback"} => d \in Transactions
               /\ dPc'[d] = "WRITE" => d \in Singles
               /\ dPc'[d] \in {"lock", "pause"} => d \in D!Writers
               /\ dPc'[d] = "read" => d \in Readers
    <3>1. CASE dPc'[d] = dPc[d] BY <2>0, <3>1 DEF OfItsKind
    <3>2. CASE d = t /\ dWire[1].awaited
      <4>1. to = "pause" => t \in D!Writers
        BY <1>2, <1>3, <1>7, <2>0, <3>2 DEF OfItsKind, D!Writers
      <4> QED BY <1>7, <3>2, <4>1
    <3> QED BY <1>4, <1>3, <1>6, <1>8, <3>1, <3>2
  <2>2. \A i \in Sent' :
       /\ dWire'[i].sql \in Body \cup {"BEGIN"} => dWire'[i].task \in Transactions
       /\ dWire'[i].sql = "WRITE" => dWire'[i].task \in Singles
       /\ dWire'[i].sql = "READ" => dWire'[i].task \in Readers
    BY <1>3, <2>0 DEF OfItsKind
  <2> QED BY <2>1, <2>2 DEF OfItsKind
<1>14. Answers'
  <2>0. Answers BY DEF DatabaseInv
  <2> SUFFICES ASSUME NEW i \in Sent', dWire'[i].awaited
               PROVE  /\ dPc'[dWire'[i].task] = Awaits(dWire'[i].sql)
                      /\ \A j \in Sent' : dWire'[j].awaited /\ dWire'[j].task = dWire'[i].task => j = i
    BY DEF Answers
  <2>1. i + 1 \in Sent /\ i + 1 # 1 /\ dWire'[i] = dWire[i + 1] BY <1>3
  <2>2. dPc'[dWire[i + 1].task] = dPc[dWire[i + 1].task]
    BY <1>3, <1>4, <1>6, <1>8, <1>9, <2>1
  <2>3. dPc'[dWire'[i].task] = Awaits(dWire'[i].sql) BY <2>0, <2>1, <2>2 DEF Answers
  <2>4. ASSUME NEW j \in Sent', dWire'[j].awaited, dWire'[j].task = dWire'[i].task PROVE j = i
    <3>1. j + 1 \in Sent /\ dWire'[j] = dWire[j + 1] BY <1>3
    <3>2. j + 1 = i + 1 BY <2>0, <2>1, <2>4, <3>1 DEF Answers
    <3>3. i \in Int /\ j \in Int BY <1>2, <1>3
    <3> QED BY <3>2, <3>3
  <2> QED BY <2>3, <2>4
<1>15. Turns'
  <2> SUFFICES ASSUME NEW d \in D!Tasks, dPc'[d] \in HasLock PROVE D!Holds(d)' BY DEF Turns
  <2>1. CASE UNCHANGED <<dPc, dLock>> BY <2>1 DEF DatabaseInv, Turns, D!Holds
  <2>2. CASE dWire[1].awaited
    <3>1. dPc[t] = Awaits(dWire[1].sql) BY <1>2, <1>3, <2>2 DEF DatabaseInv, Answers
    <3>2. CASE d = t
      <4>1. to = "pause" BY <1>7, <2>2, <3>2 DEF HasLock
      <4>2. dPc[t] \in HasLock BY <1>7, <2>2, <3>1, <4>1 DEF Awaits, HasLock
      <4>3. D!Holds(t) BY <1>5, <4>2 DEF DatabaseInv, Turns
      <4> QED BY <1>7, <2>2, <3>2, <4>1, <4>3 DEF D!Holds
    <3>3. CASE d # t
      <4>1. dPc[d] \in HasLock BY <1>6, <3>3
      <4>2. D!Holds(d) BY <4>1 DEF DatabaseInv, Turns
      <4>3. dLock' = dLock \/ dLock' = D!Released(t) BY <1>2, <2>2
      <4> QED BY <1>11, <3>3, <4>2, <4>3 DEF D!Holds
    <3> QED BY <3>2, <3>3
  <2> QED BY <1>3, <1>4, <1>8, <2>1, <2>2
<1>16. OneBody'
  <2>0. OneBody BY DEF DatabaseInv
  <2> SUFFICES ASSUME NEW i \in Sent', NEW j \in Sent', i < j, OfBody(j)'
               PROVE  /\ ~Opening(i)'
                      /\ OfBody(i)' =>
                           /\ dWire'[i].task = dWire'[j].task /\ dWire'[j].sql = "ROLLBACK"
                           /\ ~dWire'[i].awaited /\ IsWork(i)'
    BY DEF OneBody
  <2>1. /\ i + 1 \in Sent /\ j + 1 \in Sent /\ i + 1 < j + 1 /\ OfBody(j + 1)
        /\ dWire'[i] = dWire[i + 1] /\ dWire'[j] = dWire[j + 1]
    BY <1>3 DEF OfBody
  <2>2. ~Opening(i + 1) /\ (OfBody(i + 1) =>
           /\ dWire[i + 1].task = dWire[j + 1].task /\ dWire[j + 1].sql = "ROLLBACK"
           /\ ~dWire[i + 1].awaited /\ IsWork(i + 1))
    BY <2>0, <2>1 DEF OneBody
  <2> QED BY <2>1, <2>2 DEF Opening, OfBody, IsWork
<1>17. GivenUpIsUndone'
  <2> SUFFICES ASSUME NEW i \in Sent', ~dWire'[i].awaited, IsWork(i)'
               PROVE  \E j \in Sent' : i < j /\ dWire'[j].sql = "ROLLBACK"
    BY DEF GivenUpIsUndone
  <2>1. i + 1 \in Sent /\ dWire'[i] = dWire[i + 1] /\ i \in 1..(n - 1) BY <1>3
  <2>2. IsWork(i + 1) /\ ~dWire[i + 1].awaited BY <2>1 DEF IsWork
  <2>3. PICK j \in Sent : i + 1 < j /\ dWire[j].sql = "ROLLBACK"
    BY <2>1, <2>2 DEF DatabaseInv, GivenUpIsUndone
  <2>4. j # 1 /\ i < j - 1 BY <1>2, <1>3, <2>1, <2>3
  <2>5. j - 1 \in Sent' /\ dWire'[j - 1] = dWire[j] BY <1>3, <2>4
  <2> QED BY <2>3, <2>4, <2>5
<1>18. BodyIsSent'
  <2> SUFFICES ASSUME NEW d \in D!Tasks, dPc'[d] = "body"
               PROVE  \E i \in Sent' : dWire'[i].awaited /\ dWire'[i].task = d /\ IsWork(i)'
    BY DEF BodyIsSent
  <2>1. dPc[d] = "body" /\ (d = t => ~dWire[1].awaited) BY <1>3, <1>4, <1>6, <1>7, <1>8
  <2>2. PICK i \in Sent : dWire[i].awaited /\ dWire[i].task = d /\ IsWork(i)
    BY <2>1 DEF DatabaseInv, BodyIsSent
  <2>3. i # 1 BY <1>2, <2>1, <2>2
  <2>4. i - 1 \in Sent' /\ dWire'[i - 1] = dWire[i] BY <1>3, <2>3
  <2> QED BY <2>2, <2>4 DEF IsWork
<1> QED
  BY <1>2, <1>10, <1>12, <1>13, <1>14, <1>15, <1>16, <1>17, <1>18 DEF Ordered

(* The thread takes a statement of a transaction and the task sends the next *)
(* one: the only ones of a body that are in the queue.                      *)
LEMMA SwappingKeepsOrder ==
  ASSUME DatabaseInv, dWire # <<>>,
         NEW t, t = D!Task, NEW sql \in Body,
         D!Current.awaited, D!Current.sql \in {"BEGIN", "FIRST", "SECOND"},
         dWire' = Append(D!Rest, D!Statement(t, sql)),
         dPc' = [dPc EXCEPT ![t] = Awaits(sql)], UNCHANGED dLock
  PROVE  /\ Ordered'
         /\ t \in Transactions
         /\ \E n \in Sent' : /\ dWire'[n] = D!Statement(t, sql)
                             /\ \A i \in Sent' : i # n => ~OfBody(i)'
                             /\ \A j \in Sent' : j # n => j + 1 \in Sent /\ dWire'[j] = dWire[j + 1]
<1> DEFINE s == D!Statement(t, sql)
<1>0. PICK n : n = Len(dWire) OBVIOUS
<1>1. DatabaseTypes /\ dPc \in [D!Tasks -> HasLock \cup {"idle", "lock", "read", "done", "failed"}]
  BY DEF DatabaseInv, DatabaseTypes
<1>2. /\ D!Current = Head(dWire) /\ dWire' = Append(Tail(dWire), s) /\ t = D!Current.task
      /\ UNCHANGED dLock
  BY DEF D!Rest, D!Current, D!Task
<1>3. Head(dWire) = dWire[1] /\ dWire[1] \in Statements /\ 1 \in Sent /\ n \in Nat /\ Sent = 1..n
  BY <1>0, <1>1 DEF DatabaseTypes, Sent
<1>4. /\ t = dWire[1].task /\ dWire[1].awaited /\ dWire[1].sql \in {"BEGIN", "FIRST", "SECOND"}
      /\ t \in D!Tasks
  BY <1>2, <1>3 DEF Statements
<1>5. t \in Transactions BY <1>3, <1>4 DEF DatabaseInv, OfItsKind, Body
<1>6. s \in Statements /\ s.task = t /\ s.sql = sql /\ s.awaited
  BY <1>4 DEF D!Statement, Statements
<1> HIDE DEF s
<1>7. /\ dWire' \in Seq(Statements) /\ n >= 1 /\ Len(dWire') = n
      /\ \A i \in 1..(n - 1) : dWire'[i] = dWire[i + 1]
      /\ dWire'[n] = s
  BY <1>0, <1>1, <1>2, <1>6, Swapping DEF DatabaseTypes
<1>8. /\ Sent' = 1..n /\ n \in Sent'
      /\ \A i \in Sent' : i # n => i + 1 \in Sent /\ i + 1 # 1 /\ dWire'[i] = dWire[i + 1]
      /\ \A i \in Sent' : ~(n < i)
  BY <1>3, <1>7 DEF Sent
<1>9. \A i \in Sent : dWire[i] \in Statements /\ dWire[i].task \in D!Tasks
        /\ dWire[i].awaited \in BOOLEAN
  <2>1. \A i \in 1..Len(dWire) : dWire[i] \in Statements BY <1>1 DEF DatabaseTypes
  <2> QED BY <2>1 DEF Statements, Sent
<1>10. \A d \in D!Tasks : dPc'[d] = IF d = t THEN Awaits(sql) ELSE dPc[d] BY <1>1
<1>11. Awaits(sql) \in {"body", "commit", "rollback"} /\ (Awaits(sql) = "body" => sql \in {"FIRST", "SECOND"})
  BY DEF Awaits, Body
<1>12. \A i \in Sent : i # 1 /\ dWire[i].awaited => dWire[i].task # t
  BY <1>3, <1>4 DEF DatabaseInv, Answers
<1>13. dPc[t] \in {"BEGIN", "body"} BY <1>3, <1>4 DEF DatabaseInv, Answers, Awaits
<1>14. D!Holds(t) BY <1>4, <1>13 DEF DatabaseInv, Turns, HasLock
<1>15. \A i \in Sent : i # 1 => ~OfBody(i)
  <2> SUFFICES ASSUME NEW i \in Sent, i # 1, OfBody(i) PROVE FALSE OBVIOUS
  <2>1. 1 < i BY <1>3
  <2>2. OneBody /\ BodyIsOpen BY DEF DatabaseInv
  <2>3. ~Opening(1) BY <1>3, <2>1, <2>2 DEF OneBody
  <2>4. OfBody(1) BY <1>4, <2>3 DEF Opening, OfBody, Body
  <2> QED BY <1>3, <1>4, <2>1, <2>2, <2>4 DEF OneBody
<1>16. \A i \in Sent : i # 1 => ~Opening(i)
  <2> SUFFICES ASSUME NEW i \in Sent, i # 1, Opening(i) PROVE FALSE OBVIOUS
  <2>1. dPc[dWire[i].task] \in HasLock BY DEF DatabaseInv, Answers, Awaits, Opening, HasLock
  <2>2. D!Holds(dWire[i].task) BY <1>9, <2>1 DEF DatabaseInv, Turns
  <2>3. dWire[i].task = t BY <1>14, <2>2 DEF D!Holds
  <2> QED BY <1>12, <2>3 DEF Opening
<1>17. dPc' \in [D!Tasks -> HasLock \cup {"idle", "lock", "read", "done", "failed"}]
  BY <1>1, <1>4, <1>11 DEF HasLock
<1>18. dLock' \in Seq(D!Tasks) BY <1>1, <1>2 DEF DatabaseTypes
<1>19. OfItsKind'
  <2>0. OfItsKind BY DEF DatabaseInv
  <2>1. \A d \in D!Tasks :
          /\ dPc'[d] \in {"BEGIN", "body", "commit", "rollback"} => d \in Transactions
          /\ dPc'[d] = "WRITE" => d \in Singles
          /\ dPc'[d] \in {"lock", "pause"} => d \in D!Writers
          /\ dPc'[d] = "read" => d \in Readers
    BY <1>5, <1>10, <1>11, <2>0 DEF OfItsKind
  <2>2. \A i \in Sent' :
       /\ dWire'[i].sql \in Body \cup {"BEGIN"} => dWire'[i].task \in Transactions
       /\ dWire'[i].sql = "WRITE" => dWire'[i].task \in Singles
       /\ dWire'[i].sql = "READ" => dWire'[i].task \in Readers
    BY <1>5, <1>6, <1>7, <1>8, <2>0 DEF OfItsKind, Body
  <2> QED BY <2>1, <2>2 DEF OfItsKind
<1>20. Answers'
  <2>0. Answers BY DEF DatabaseInv
  <2> SUFFICES ASSUME NEW i \in Sent', dWire'[i].awaited
               PROVE  /\ dPc'[dWire'[i].task] = Awaits(dWire'[i].sql)
                      /\ \A j \in Sent' : dWire'[j].awaited /\ dWire'[j].task = dWire'[i].task => j = i
    BY DEF Answers
  <2>1. CASE i = n
    <3>1. dPc'[dWire'[i].task] = Awaits(dWire'[i].sql) BY <1>4, <1>6, <1>7, <1>10, <2>1
    <3>2. ASSUME NEW j \in Sent', dWire'[j].awaited, dWire'[j].task = dWire'[i].task PROVE j = i
      <4>1. dWire'[j].task = t BY <1>6, <1>7, <2>1, <3>2
      <4> QED BY <1>8, <1>12, <2>1, <3>2, <4>1
    <3> QED BY <3>1, <3>2
  <2>2. CASE i # n
    <3>1. i + 1 \in Sent /\ i + 1 # 1 /\ dWire'[i] = dWire[i + 1] BY <1>8, <2>2
    <3>2. dWire[i + 1].task # t BY <1>12, <3>1
    <3>3. dPc'[dWire'[i].task] = Awaits(dWire'[i].sql)
      BY <1>9, <1>10, <2>0, <3>1, <3>2 DEF Answers
    <3>4. ASSUME NEW j \in Sent', dWire'[j].awaited, dWire'[j].task = dWire'[i].task PROVE j = i
      <4>1. j # n BY <1>6, <1>7, <3>1, <3>2, <3>4
      <4>2. j + 1 \in Sent /\ dWire'[j] = dWire[j + 1] BY <1>8, <4>1
      <4>3. j + 1 = i + 1 BY <2>0, <3>1, <3>4, <4>2 DEF Answers
      <4>4. i \in Int /\ j \in Int BY <1>3, <1>8
      <4> QED BY <4>3, <4>4
    <3> QED BY <3>3, <3>4
  <2> QED BY <2>1, <2>2
<1>21. Turns'
  <2> SUFFICES ASSUME NEW d \in D!Tasks, dPc'[d] \in HasLock PROVE D!Holds(d)' BY DEF Turns
  <2>1. D!Holds(d) BY <1>10, <1>14 DEF DatabaseInv, Turns
  <2> QED BY <1>2, <2>1 DEF D!Holds
<1>22. \A i \in Sent' : i # n => ~OfBody(i)' /\ ~Opening(i)'
  BY <1>8, <1>15, <1>16 DEF OfBody, Opening
<1>23. OneBody'
  <2> SUFFICES ASSUME NEW i \in Sent', NEW j \in Sent', i < j, OfBody(j)'
               PROVE  /\ ~Opening(i)'
                      /\ OfBody(i)' =>
                           /\ dWire'[i].task = dWire'[j].task /\ dWire'[j].sql = "ROLLBACK"
                           /\ ~dWire'[i].awaited /\ IsWork(i)'
    BY DEF OneBody
  <2>1. j = n BY <1>22
  <2>2. i # n BY <1>3, <1>8, <2>1
  <2> QED BY <1>22, <2>2
<1>24. GivenUpIsUndone'
  <2>1. \A i \in Sent' : ~dWire'[i].awaited => i # n BY <1>6, <1>7
  <2> QED BY <1>22, <2>1 DEF GivenUpIsUndone, IsWork, OfBody, Body
<1>25. BodyIsSent'
  <2> SUFFICES ASSUME NEW d \in D!Tasks, dPc'[d] = "body"
               PROVE  \E i \in Sent' : dWire'[i].awaited /\ dWire'[i].task = d /\ IsWork(i)'
    BY DEF BodyIsSent
  <2>1. CASE d = t
    <3>1. sql \in {"FIRST", "SECOND"} BY <1>4, <1>10, <1>11, <2>1
    <3> QED BY <1>6, <1>7, <1>8, <2>1, <3>1 DEF IsWork
  <2>2. CASE d # t
    <3>1. dPc[d] \in HasLock BY <1>10, <2>2 DEF HasLock
    <3>2. D!Holds(d) BY <3>1 DEF DatabaseInv, Turns
    <3> QED BY <1>14, <2>2, <3>2 DEF D!Holds
  <2> QED BY <2>1, <2>2
<1>26. Ordered'
  BY <1>7, <1>17, <1>18, <1>19, <1>20, <1>21, <1>23, <1>24, <1>25 DEF Ordered
<1> QED BY <1>5, <1>7, <1>8, <1>22, <1>26 DEF s

(* What a lemma about a step has to show when the order is kept.             *)
LEMMA DatabaseKept ==
  ASSUME Ordered', dOpen' \in BOOLEAN, dStray' \in BOOLEAN,
         BodyIsOpen', Progress', PendingIsOfBody', OpenIsKnown', AllOrNothing'
  PROVE  DatabaseInv'
BY DEF Ordered, DatabaseInv, DatabaseTypes

(* What is known of the statement that the thread takes and of the queue     *)
(* behind it.                                                               *)
LEMMA Taken ==
  ASSUME DatabaseInv, dWire # <<>>
  PROVE  /\ D!Current = dWire[1] /\ D!Task = dWire[1].task /\ 1 \in Sent
         /\ D!Current \in Statements /\ D!Task \in D!Tasks
         /\ \A i \in Sent : i # 1 => 1 < i
         /\ dWire' = D!Rest =>
              /\ \A i \in Sent' : i + 1 \in Sent /\ i + 1 # 1 /\ dWire'[i] = dWire[i + 1]
              /\ \A i \in Sent : i # 1 => i - 1 \in Sent' /\ dWire'[i - 1] = dWire[i]
<1>0. PICK n : n = Len(dWire) OBVIOUS
<1>1. dWire \in Seq(Statements) BY DEF DatabaseInv, DatabaseTypes
<1>2. /\ D!Rest \in Seq(Statements)
      /\ n \in Nat /\ n >= 1 /\ Len(D!Rest) = n - 1
      /\ \A i \in 1..(n - 1) : D!Rest[i] = dWire[i + 1]
      /\ Head(dWire) = dWire[1] /\ dWire[1] \in Statements
  BY <1>0, <1>1, Dropping DEF D!Rest
<1>3. D!Current = dWire[1] /\ D!Task = dWire[1].task /\ D!Task \in D!Tasks
  BY <1>2 DEF D!Current, D!Task, Statements
<1>4. Sent = 1..n BY <1>0 DEF Sent
<1>5. dWire' = D!Rest => Sent' = 1..(n - 1) BY <1>2 DEF Sent
<1> QED BY <1>2, <1>3, <1>4, <1>5

(* Behind a statement of the body that is awaited, the end of a transaction, *)
(* or a first statement that is awaited, there is none of a body.            *)
LEMMA AloneInFront ==
  ASSUME DatabaseInv, dWire # <<>>, NEW i \in Sent, i # 1, OfBody(i)
  PROVE  /\ ~Opening(1)
         /\ OfBody(1) => /\ ~D!Current.awaited /\ IsWork(1) /\ dWire[i].sql = "ROLLBACK"
                         /\ dWire[i].task = D!Task
  BY Taken DEF DatabaseInv, OneBody

(* A begun transaction. *)
LEMMA DatabaseBegins ==
  ASSUME DatabaseInv, dWire # <<>>, D!BeginDone, UNCHANGED dStray
  PROVE  DatabaseInv'
<1> DEFINE t == D!Task
<1>1. /\ D!Current.sql = "BEGIN" /\ ~dOpen /\ dOpen' = TRUE
      /\ UNCHANGED <<dLock, dPending, dStored>>
  BY DEF D!BeginDone
<1>2. D!Current = dWire[1] /\ t = dWire[1].task /\ 1 \in Sent /\ t \in D!Tasks /\ D!Current \in Statements
  BY Taken
<1>3. t \in Transactions BY <1>1, <1>2 DEF DatabaseInv, OfItsKind
<1>4. \A i \in Sent : ~OfBody(i) BY <1>1 DEF DatabaseInv, BodyIsOpen
<1>5. dPending = {} BY <1>1 DEF DatabaseInv, PendingIsOfBody
<1>6. dOpen' \in BOOLEAN /\ dStray' \in BOOLEAN BY <1>1 DEF DatabaseInv, DatabaseTypes
<1>7. CASE D!Current.awaited
  <2>1. dWire' = Append(D!Rest, D!Statement(t, "FIRST")) /\ dPc' = [dPc EXCEPT ![t] = "body"]
    BY <1>7 DEF D!BeginDone, D!Go
  <2>2. "FIRST" \in Body /\ Awaits("FIRST") = "body" BY DEF Body, Awaits
  <2>3. /\ Ordered'
        /\ \E n \in Sent' : /\ dWire'[n] = D!Statement(t, "FIRST")
                            /\ \A i \in Sent' : i # n => ~OfBody(i)'
                            /\ \A j \in Sent' : j # n => j + 1 \in Sent /\ dWire'[j] = dWire[j + 1]
    BY <1>1, <1>7, <2>1, <2>2, SwappingKeepsOrder
  <2>4. PICK n \in Sent' : /\ dWire'[n] = D!Statement(t, "FIRST")
                          /\ \A i \in Sent' : i # n => ~OfBody(i)'
                          /\ \A j \in Sent' : j # n => j + 1 \in Sent /\ dWire'[j] = dWire[j + 1]
    BY <2>3
  <2>5. dWire'[n].sql = "FIRST" /\ dWire'[n].task = t /\ dWire'[n].awaited BY <2>4 DEF D!Statement
  <2>6. BodyIsOpen' BY <1>1 DEF BodyIsOpen
  <2>7. Progress'
    <3>1. \A i \in Sent' : i # n => dWire'[i].sql \notin Body BY <2>4 DEF OfBody
    <3> QED BY <1>1, <1>5, <2>5, <3>1 DEF Progress, Body
  <2>8. PendingIsOfBody' BY <1>1, <1>5 DEF PendingIsOfBody
  <2>9. OpenIsKnown'
    <3>1. OfBody(n)' BY <2>5 DEF OfBody, Body
    <3>2. \A i \in Sent' : dWire'[i].sql = "BEGIN" /\ ~dWire'[i].awaited => dStray'
      BY <2>4, <2>5 DEF DatabaseInv, OpenIsKnown
    <3> QED BY <2>4, <3>1, <3>2 DEF OpenIsKnown
  <2>10. AllOrNothing'
    <3>1. \A d \in D!Writers : dPc'[d] = "done" => dPc[d] = "done"
      BY <1>2, <2>1 DEF D!Writers, D!Tasks, DatabaseInv, DatabaseTypes
    <3> QED BY <1>1, <3>1 DEF DatabaseInv, AllOrNothing, D!AllOrNothing, D!Writes, D!Writers
  <2> QED BY <1>6, <2>3, <2>6, <2>7, <2>8, <2>9, <2>10, DatabaseKept
<1>8. CASE ~D!Current.awaited
  <2>1. dWire' = D!Rest /\ UNCHANGED dPc BY <1>8 DEF D!BeginDone
  <2>2. Ordered' BY <1>1, <1>8, <2>1, DroppingKeepsOrder
  <2>3. \A i \in Sent' : i + 1 \in Sent /\ dWire'[i] = dWire[i + 1] BY <2>1, Taken
  <2>4. \A i \in Sent' : ~OfBody(i)' BY <1>4, <2>3 DEF OfBody
  <2>5. BodyIsOpen' /\ Progress' /\ PendingIsOfBody'
    BY <1>1, <1>5, <2>4 DEF BodyIsOpen, Progress, PendingIsOfBody, OfBody, Body
  <2>6. dStray BY <1>1, <1>2, <1>8 DEF DatabaseInv, OpenIsKnown
  <2>7. OpenIsKnown' BY <2>6 DEF OpenIsKnown
  <2>8. AllOrNothing' BY <1>1, <2>1 DEF DatabaseInv, AllOrNothing, D!AllOrNothing, D!Writes, D!Writers
  <2> QED BY <1>6, <2>2, <2>5, <2>7, <2>8, DatabaseKept
<1> QED BY <1>7, <1>8

(* The thread takes a statement that is not of the body of a transaction.    *)
LEMMA DroppingOther ==
  ASSUME DatabaseInv, dWire # <<>>, dWire' = D!Rest, ~OfBody(1),
         \A d \in Transactions : dPending' \cap D!Writes(d) = dPending \cap D!Writes(d),
         ~dOpen => UNCHANGED dPending,
         UNCHANGED <<dOpen, dStray>>
  PROVE  BodyIsOpen' /\ Progress' /\ PendingIsOfBody' /\ OpenIsKnown'
<1>1. /\ \A i \in Sent' : i + 1 \in Sent /\ dWire'[i] = dWire[i + 1]
      /\ \A i \in Sent : i # 1 => i - 1 \in Sent' /\ dWire'[i - 1] = dWire[i]
  BY Taken
<1>2. \A i \in Sent : OfBody(i) => \E j \in Sent' : OfBody(j)' /\ dWire'[j].task = dWire[i].task
  <2> SUFFICES ASSUME NEW i \in Sent, OfBody(i)
               PROVE  \E j \in Sent' : OfBody(j)' /\ dWire'[j].task = dWire[i].task
    OBVIOUS
  <2>1. i - 1 \in Sent' /\ dWire'[i - 1] = dWire[i] BY <1>1
  <2> QED BY <2>1 DEF OfBody
<1>3. BodyIsOpen' BY <1>1 DEF DatabaseInv, BodyIsOpen, OfBody
<1>4. Progress'
  <2> SUFFICES ASSUME NEW i \in Sent'
      PROVE LET d == dWire'[i].task
                done == dPending' \cap D!Writes(d)
            IN /\ dWire'[i].sql = "FIRST" => done = {}
               /\ dWire'[i].sql = "SECOND" => done = {<<d, 1>>}
               /\ dWire'[i].sql = "COMMIT" => done = D!Writes(d)
    BY DEF Progress, D!Writes
  <2>1. i + 1 \in Sent /\ dWire'[i] = dWire[i + 1] BY <1>1
  <2>2. dWire[i + 1].sql \in Body => dWire[i + 1].task \in Transactions
    BY <2>1 DEF DatabaseInv, OfItsKind
  <2> QED BY <2>1, <2>2 DEF DatabaseInv, Progress, Body
<1>5. PendingIsOfBody'
  <2>1. PendingIsOfBody BY DEF DatabaseInv
  <2>2. ASSUME NEW d \in Transactions, dPending' \cap D!Writes(d)' # {}
        PROVE  \/ \E i \in Sent' : OfBody(i)' /\ dWire'[i].task = d
               \/ \A i \in Sent' : ~OfBody(i)'
    <3>1. dPending \cap D!Writes(d) # {} BY <2>2 DEF D!Writes
    <3>2. CASE \A i \in Sent : ~OfBody(i) BY <1>1, <3>2 DEF OfBody
    <3>3. CASE \E i \in Sent : OfBody(i) /\ dWire[i].task = d BY <1>2, <3>3
    <3> QED BY <2>1, <3>1, <3>2, <3>3 DEF PendingIsOfBody
  <2> QED BY <2>1, <2>2 DEF PendingIsOfBody
<1>6. OpenIsKnown'
  <2>1. OpenIsKnown BY DEF DatabaseInv
  <2>2. \A i \in Sent' : dWire'[i].sql = "BEGIN" /\ ~dWire'[i].awaited => dStray'
    BY <1>1, <2>1 DEF OpenIsKnown
  <2>3. dOpen' /\ ~dStray' => \E i \in Sent' : OfBody(i)'
    <3> SUFFICES ASSUME dOpen', ~dStray' PROVE \E i \in Sent' : OfBody(i)' OBVIOUS
    <3>1. PICK i \in Sent : OfBody(i) BY <2>1 DEF OpenIsKnown
    <3> QED BY <1>2, <3>1
  <2> QED BY <2>2, <2>3 DEF OpenIsKnown
<1> QED BY <1>3, <1>4, <1>5, <1>6

(* A statement before the body fails, and is tried again or given up.        *)
LEMMA DatabaseRaises ==
  ASSUME DatabaseInv, dWire # <<>>, D!Raised, UNCHANGED dStray
  PROVE  DatabaseInv'
<1> DEFINE t == D!Task
<1>1. /\ D!Current.sql \in {"BEGIN", "WRITE"} /\ dWire' = D!Rest
      /\ UNCHANGED <<dOpen, dPending, dStored>>
  BY DEF D!Raised
<1>2. D!Current = dWire[1] /\ t \in D!Tasks /\ D!Current \in Statements BY Taken
<1>3. PICK to : \/ ~D!Current.awaited /\ UNCHANGED <<dPc, dLock>>
                \/ D!Current.awaited /\ to = "failed"
                   /\ dPc' = [dPc EXCEPT ![t] = to] /\ dLock' = D!Released(t)
                \/ D!Current.awaited /\ to = "pause"
                   /\ dPc' = [dPc EXCEPT ![t] = to] /\ UNCHANGED dLock
  BY DEF D!Raised, D!Refused, D!Go
<1>4. Ordered' BY <1>1, <1>3, DroppingKeepsOrder
<1>5. ~OfBody(1) BY <1>1, <1>2 DEF OfBody, Body
<1>6. BodyIsOpen' /\ Progress' /\ PendingIsOfBody' /\ OpenIsKnown'
  BY <1>1, <1>5, DroppingOther
<1>7. AllOrNothing'
  <2>1. \A d \in D!Writers : dPc'[d] = "done" => dPc[d] = "done"
    BY <1>2, <1>3 DEF D!Writers, D!Tasks, DatabaseInv, DatabaseTypes
  <2> QED BY <1>1, <2>1 DEF DatabaseInv, AllOrNothing, D!AllOrNothing, D!Writes, D!Writers
<1> QED BY <1>1, <1>4, <1>6, <1>7, DatabaseKept DEF DatabaseInv, DatabaseTypes

(* A single write: its caller is told that it is stored only when it is, or  *)
(* when a transaction was left open.                                        *)
LEMMA DatabaseWrites ==
  ASSUME DatabaseInv, dWire # <<>>, D!SingleDone, UNCHANGED dStray
  PROVE  DatabaseInv'
<1> DEFINE t == D!Task
<1>1. /\ D!Current.sql = "WRITE" /\ dWire' = D!Rest /\ UNCHANGED dOpen
      /\ dPending' = IF dOpen THEN dPending \cup D!Writes(t) ELSE dPending
      /\ dStored' = IF dOpen THEN dStored ELSE dStored \cup D!Writes(t)
  BY DEF D!SingleDone
<1>2. D!Current = dWire[1] /\ t = dWire[1].task /\ 1 \in Sent /\ t \in D!Tasks /\ D!Current \in Statements
      /\ \A i \in Sent : i # 1 => 1 < i
  BY Taken
<1>3. t \in Singles /\ t \notin Transactions
  BY <1>1, <1>2, DatabaseAssumption DEF DatabaseInv, OfItsKind
<1>4. \/ ~D!Current.awaited /\ UNCHANGED <<dPc, dLock>>
      \/ D!Current.awaited /\ dPc' = [dPc EXCEPT ![t] = "done"] /\ dLock' = D!Released(t)
  BY DEF D!SingleDone, D!Go
<1>5. Ordered' BY <1>1, <1>4, DroppingKeepsOrder
<1>6. ~OfBody(1) BY <1>1, <1>2 DEF OfBody, Body
<1>7. \A d \in Transactions : dPending' \cap D!Writes(d) = dPending \cap D!Writes(d)
  BY <1>1, <1>3 DEF D!Writes
<1>8. BodyIsOpen' /\ Progress' /\ PendingIsOfBody' /\ OpenIsKnown'
  BY <1>1, <1>6, <1>7, DroppingOther
<1>9. AllOrNothing'
  <2>0. AllOrNothing BY DEF DatabaseInv
  <2>1. ASSUME NEW d \in D!Writers PROVE dStored' \cap D!Writes(d) \in {{}, D!Writes(d)}
    <3>1. CASE d \in Transactions
      <4>1. dStored' \cap D!Writes(d) = dStored \cap D!Writes(d) BY <1>1, <1>3, <3>1 DEF D!Writes
      <4> QED BY <2>0, <2>1, <4>1 DEF AllOrNothing, D!AllOrNothing
    <3>2. CASE d \notin Transactions BY <3>2 DEF D!Writes
    <3> QED BY <3>1, <3>2
  <2>2. ASSUME NEW d \in D!Writers, dPc'[d] = "done", ~dStray' PROVE D!Writes(d) \subseteq dStored'
    <3>1. CASE dPc[d] = "done"
      <4>1. D!Writes(d) \subseteq dStored BY <2>0, <2>2, <3>1 DEF AllOrNothing, D!AllOrNothing
      <4> QED BY <1>1, <4>1
    <3>2. CASE d = t /\ D!Current.awaited
      <4>1. ~dOpen
        <5> SUFFICES ASSUME dOpen PROVE FALSE OBVIOUS
        <5>1. PICK i \in Sent : OfBody(i) BY <2>2 DEF DatabaseInv, OpenIsKnown
        <5>2. i # 1 BY <1>6, <5>1
        <5>3. Opening(1) BY <1>1, <1>2, <3>2 DEF Opening
        <5> QED BY <5>1, <5>2, <5>3, AloneInFront
      <4> QED BY <1>1, <3>2, <4>1
    <3>3. d # t \/ ~D!Current.awaited => dPc'[d] = dPc[d]
      BY <1>2, <1>4, <2>2 DEF DatabaseInv, DatabaseTypes, D!Writers, D!Tasks
    <3> QED BY <1>2, <1>4, <2>2, <3>1, <3>2, <3>3 DEF Statements
  <2> QED BY <2>1, <2>2 DEF AllOrNothing, D!AllOrNothing, D!Writes, D!Writers
<1> QED BY <1>1, <1>5, <1>8, <1>9, DatabaseKept DEF DatabaseInv, DatabaseTypes

LEMMA DatabaseReads ==
  ASSUME DatabaseInv, dWire # <<>>, D!ReadDone, UNCHANGED dStray
  PROVE  DatabaseInv'
<1> DEFINE t == D!Task
<1>1. /\ D!Current.sql = "READ" /\ dWire' = D!Rest
      /\ UNCHANGED <<dLock, dOpen, dPending, dStored>>
  BY DEF D!ReadDone
<1>2. /\ D!Current = dWire[1] /\ t = dWire[1].task /\ 1 \in Sent
      /\ t \in D!Tasks /\ D!Current \in Statements
  BY Taken
<1>3. t \in Readers /\ t \notin D!Writers
  BY <1>1, <1>2, DatabaseAssumption DEF DatabaseInv, OfItsKind, D!Writers
<1>4. \/ ~D!Current.awaited /\ UNCHANGED <<dPc, dLock>>
      \/ D!Current.awaited /\ dPc' = [dPc EXCEPT ![t] = "done"] /\ UNCHANGED dLock
  BY <1>1 DEF D!ReadDone, D!Go
<1>5. Ordered' BY <1>1, <1>4, DroppingKeepsOrder
<1>6. ~OfBody(1) BY <1>1, <1>2 DEF OfBody, Body
<1>7. BodyIsOpen' /\ Progress' /\ PendingIsOfBody' /\ OpenIsKnown'
  BY <1>1, <1>6, DroppingOther
<1>8. AllOrNothing'
  <2>1. \A d \in D!Writers : dPc'[d] = dPc[d]
    BY <1>3, <1>4 DEF D!Writers, D!Tasks, DatabaseInv, DatabaseTypes
  <2> QED BY <1>1, <2>1 DEF DatabaseInv, AllOrNothing, D!AllOrNothing, D!Writes, D!Writers
<1> QED BY <1>1, <1>5, <1>7, <1>8, DatabaseKept DEF DatabaseInv, DatabaseTypes

(* A statement of the body is carried out, or fails, and the task goes on to *)
(* the next one.                                                            *)
LEMMA DatabaseGoesOn ==
  ASSUME DatabaseInv, dWire # <<>>, NEW sql \in Body,
         D!Current.sql \in {"FIRST", "SECOND"}, D!Current.awaited,
         dWire' = Append(D!Rest, D!Statement(D!Task, sql)),
         dPc' = [dPc EXCEPT ![D!Task] = Awaits(sql)],
         \/ sql = "ROLLBACK" /\ UNCHANGED dPending
         \/ sql = "SECOND" /\ D!Current.sql = "FIRST"
            /\ dPending' = dPending \cup {<<D!Task, 1>>}
         \/ sql = "COMMIT" /\ D!Current.sql = "SECOND"
            /\ dPending' = dPending \cup {<<D!Task, 2>>},
         UNCHANGED <<dLock, dOpen, dStored, dStray>>
  PROVE  DatabaseInv'
<1>0. PICK t : t = D!Task OBVIOUS
<1>1. D!Current = dWire[1] /\ t = dWire[1].task /\ 1 \in Sent /\ t \in D!Tasks /\ D!Current \in Statements
  BY <1>0, Taken
<1>2. /\ Ordered'
      /\ t \in Transactions
      /\ \E n \in Sent' : /\ dWire'[n] = D!Statement(t, sql)
                          /\ \A i \in Sent' : i # n => ~OfBody(i)'
                          /\ \A j \in Sent' : j # n => j + 1 \in Sent /\ dWire'[j] = dWire[j + 1]
  BY <1>0, SwappingKeepsOrder
<1>3. PICK n \in Sent' : /\ dWire'[n] = D!Statement(t, sql)
                        /\ \A i \in Sent' : i # n => ~OfBody(i)'
                        /\ \A j \in Sent' : j # n => j + 1 \in Sent /\ dWire'[j] = dWire[j + 1]
  BY <1>2
<1>4. dWire'[n].sql = sql /\ dWire'[n].task = t /\ dWire'[n].awaited
  <2>1. dWire'[n] = [task |-> t, sql |-> sql, awaited |-> TRUE] BY <1>3 DEF D!Statement
  <2> QED BY <2>1
<1>5. OfBody(1) /\ OfBody(n)' BY <1>1, <1>4 DEF OfBody, Body
<1>6. dOpen' /\ dOpen BY <1>1, <1>5 DEF DatabaseInv, BodyIsOpen
<1>7. \A i \in Sent : OfBody(i) => dWire[i].task = t
  BY <1>0, <1>1, <1>5, AloneInFront
<1>8. BodyIsOpen' BY <1>6 DEF BodyIsOpen
<1>9. Progress'
  <2>1. \A i \in Sent' : i # n => dWire'[i].sql \notin Body BY <1>3 DEF OfBody
  <2>2. D!Writes(t) = {<<t, 1>>, <<t, 2>>} BY <1>2 DEF D!Writes
  <2>3. /\ D!Current.sql = "FIRST" => dPending \cap D!Writes(t) = {}
        /\ D!Current.sql = "SECOND" => dPending \cap D!Writes(t) = {<<t, 1>>}
    BY <1>1 DEF DatabaseInv, Progress
  <2>4. sql = "SECOND" => dPending' \cap D!Writes(t) = {<<t, 1>>} BY <1>0, <2>2, <2>3
  <2>5. sql = "COMMIT" => dPending' \cap D!Writes(t) = D!Writes(t) BY <1>0, <2>2, <2>3
  <2>6. sql # "FIRST" OBVIOUS
  <2> QED BY <1>4, <2>1, <2>4, <2>5, <2>6 DEF Progress, Body, D!Writes
<1>10. PendingIsOfBody'
  <2>1. ASSUME NEW d \in Transactions, dPending' \cap D!Writes(d)' # {}, d # t PROVE FALSE
    <3>1. dPending \cap D!Writes(d) # {} BY <1>0, <2>1 DEF D!Writes
    <3>2. PICK i \in Sent : OfBody(i) /\ dWire[i].task = d
      BY <1>1, <1>5, <3>1 DEF DatabaseInv, PendingIsOfBody
    <3> QED BY <1>7, <2>1, <3>2
  <2>2. \A d \in Transactions : dPending' \cap D!Writes(d)' # {} =>
          \E i \in Sent' : OfBody(i)' /\ dWire'[i].task = d
    BY <1>4, <1>5, <2>1
  <2> QED BY <1>6, <2>2 DEF PendingIsOfBody
<1>11. OpenIsKnown'
  <2>1. \A i \in Sent' : dWire'[i].sql = "BEGIN" /\ ~dWire'[i].awaited => dStray'
    BY <1>3, <1>4 DEF DatabaseInv, OpenIsKnown
  <2> QED BY <1>5, <2>1 DEF OpenIsKnown
<1>12. AllOrNothing'
  <2>1. Awaits(sql) # "done" BY DEF Awaits, Body
  <2>2. \A d \in D!Writers : dPc'[d] = "done" => dPc[d] = "done"
    BY <1>0, <1>1, <2>1 DEF D!Writers, D!Tasks, DatabaseInv, DatabaseTypes
  <2> QED BY <2>2 DEF DatabaseInv, AllOrNothing, D!AllOrNothing, D!Writes, D!Writers
<1> QED
  BY <1>2, <1>8, <1>9, <1>10, <1>11, <1>12, DatabaseKept DEF DatabaseInv, DatabaseTypes

(* A statement of the body that nobody awaits any more: a rollback follows.  *)
LEMMA DatabaseForsaken ==
  ASSUME DatabaseInv, dWire # <<>>, D!BodyDone, ~D!Current.awaited,
         UNCHANGED dStray
  PROVE  DatabaseInv'
<1>0. PICK t : t = D!Task OBVIOUS
<1>1. /\ D!Current.sql \in {"FIRST", "SECOND"} /\ dWire' = D!Rest
      /\ \/ dPending' = dPending \cup {<<t, 1>>}
         \/ dPending' = dPending \cup {<<t, 2>>}
      /\ UNCHANGED <<dPc, dLock, dOpen, dStored>>
  BY <1>0 DEF D!BodyDone
<1>2. /\ D!Current = dWire[1] /\ t = dWire[1].task /\ 1 \in Sent /\ t \in D!Tasks
      /\ \A i \in Sent : i # 1 => 1 < i
      /\ \A i \in Sent' : i + 1 \in Sent /\ i + 1 # 1 /\ dWire'[i] = dWire[i + 1]
      /\ \A i \in Sent : i # 1 => i - 1 \in Sent' /\ dWire'[i - 1] = dWire[i]
  BY <1>0, <1>1, Taken
<1>3. Ordered' BY <1>1, DroppingKeepsOrder
<1>4. OfBody(1) /\ IsWork(1) /\ ~dWire[1].awaited BY <1>1, <1>2 DEF OfBody, IsWork, Body
<1>5. \A i \in Sent : i # 1 /\ OfBody(i) => dWire[i].sql = "ROLLBACK" /\ dWire[i].task = t
  BY <1>0, <1>4, AloneInFront
<1>6. PICK j \in Sent : 1 < j /\ dWire[j].sql = "ROLLBACK"
  BY <1>2, <1>4 DEF DatabaseInv, GivenUpIsUndone
<1>7. j - 1 \in Sent' /\ dWire'[j - 1] = dWire[j] /\ dWire[j].task = t
  BY <1>2, <1>5, <1>6 DEF OfBody, Body
<1>8. dOpen /\ dOpen' BY <1>1, <1>2, <1>4 DEF DatabaseInv, BodyIsOpen
<1>9. BodyIsOpen' BY <1>8 DEF BodyIsOpen
<1>10. \A i \in Sent' : OfBody(i)' => dWire'[i].sql = "ROLLBACK"
  BY <1>2, <1>5 DEF OfBody
<1>11. Progress' BY <1>10 DEF Progress, OfBody, Body
<1>12. \E i \in Sent' : OfBody(i)' /\ dWire'[i].task = t
  BY <1>6, <1>7 DEF OfBody, Body
<1>13. PendingIsOfBody'
  <2>1. ASSUME NEW d \in Transactions, dPending' \cap D!Writes(d)' # {}, d # t PROVE FALSE
    <3>1. dPending \cap D!Writes(d) # {} BY <1>1, <2>1 DEF D!Writes
    <3>2. PICK i \in Sent : OfBody(i) /\ dWire[i].task = d
      BY <1>2, <1>4, <3>1 DEF DatabaseInv, PendingIsOfBody
    <3> QED BY <1>2, <1>5, <2>1, <3>2
  <2>2. \A d \in Transactions : dPending' \cap D!Writes(d)' # {} =>
          \E i \in Sent' : OfBody(i)' /\ dWire'[i].task = d
    BY <1>12, <2>1
  <2> QED BY <1>8, <2>2 DEF PendingIsOfBody
<1>14. OpenIsKnown'
  <2>1. \A i \in Sent' : dWire'[i].sql = "BEGIN" /\ ~dWire'[i].awaited => dStray'
    BY <1>2 DEF DatabaseInv, OpenIsKnown
  <2> QED BY <1>12, <2>1 DEF OpenIsKnown
<1>15. AllOrNothing' BY <1>1 DEF DatabaseInv, AllOrNothing, D!AllOrNothing, D!Writes, D!Writers
<1> QED
  BY <1>1, <1>3, <1>9, <1>11, <1>13, <1>14, <1>15, DatabaseKept DEF DatabaseInv, DatabaseTypes

(* A transaction ends: what it wrote becomes visible as a whole or vanishes. *)
LEMMA DatabaseEnds ==
  ASSUME DatabaseInv, dWire # <<>>, D!Ended, UNCHANGED dStray
  PROVE  DatabaseInv'
<1>0. PICK t : t = D!Task OBVIOUS
<1>1. /\ D!Current.sql \in {"COMMIT", "ROLLBACK"} /\ dWire' = D!Rest
      /\ dOpen' = FALSE /\ dPending' = {}
      /\ dStored' = IF D!Current.sql = "COMMIT" THEN dStored \cup dPending ELSE dStored
  BY DEF D!Ended
<1>2. /\ D!Current = dWire[1] /\ t = dWire[1].task /\ 1 \in Sent /\ t \in D!Tasks
      /\ D!Current \in Statements
      /\ \A i \in Sent : i # 1 => 1 < i
      /\ \A i \in Sent' : i + 1 \in Sent /\ i + 1 # 1 /\ dWire'[i] = dWire[i + 1]
  BY <1>0, <1>1, Taken
<1>3. PICK to : \/ ~D!Current.awaited /\ UNCHANGED <<dPc, dLock>>
                \/ D!Current.awaited /\ to = (IF dPc[t] = "commit" THEN "done" ELSE "failed")
                   /\ dPc' = [dPc EXCEPT ![t] = to] /\ dLock' = D!Released(t)
  BY <1>0 DEF D!Ended, D!Go
<1>4. Ordered' BY <1>0, <1>1, <1>3, DroppingKeepsOrder
<1>5. OfBody(1) /\ ~IsWork(1) BY <1>1, <1>2 DEF OfBody, IsWork, Body
<1>6. \A i \in Sent : i # 1 => ~OfBody(i) BY <1>5, AloneInFront
<1>7. \A i \in Sent' : ~OfBody(i)' BY <1>2, <1>6 DEF OfBody
<1>8. BodyIsOpen' /\ Progress' /\ PendingIsOfBody'
  BY <1>1, <1>7 DEF BodyIsOpen, Progress, PendingIsOfBody, OfBody, Body
<1>9. OpenIsKnown' BY <1>1, <1>2 DEF DatabaseInv, OpenIsKnown
<1>10. t \in Transactions BY <1>1, <1>2 DEF DatabaseInv, OfItsKind, Body
<1>11. D!Current.sql = "COMMIT" => D!Writes(t) \subseteq dPending
  BY <1>1, <1>2 DEF DatabaseInv, Progress
<1>12. \A d \in Transactions : d # t => dPending \cap D!Writes(d) = {}
  BY <1>2, <1>5, <1>6 DEF DatabaseInv, PendingIsOfBody
<1>13. AllOrNothing'
  <2>0. AllOrNothing BY DEF DatabaseInv
  <2>1. ASSUME NEW d \in D!Writers PROVE dStored' \cap D!Writes(d) \in {{}, D!Writes(d)}
    <3>0. dStored \cap D!Writes(d) \in {{}, D!Writes(d)} BY <2>0, <2>1 DEF AllOrNothing, D!AllOrNothing
    <3>1. CASE D!Current.sql # "COMMIT" BY <1>1, <3>0, <3>1
    <3>2. CASE D!Current.sql = "COMMIT" /\ d = t
      <4>1. dStored' \cap D!Writes(d) = D!Writes(d) BY <1>1, <1>11, <3>2
      <4> QED BY <4>1
    <3>3. CASE D!Current.sql = "COMMIT" /\ d # t /\ d \in Transactions
      <4>1. dStored' \cap D!Writes(d) = dStored \cap D!Writes(d) BY <1>1, <1>12, <3>3
      <4> QED BY <3>0, <4>1
    <3>4. CASE d \notin Transactions BY <3>4 DEF D!Writes
    <3> QED BY <1>10, <3>1, <3>2, <3>3, <3>4
  <2>2. ASSUME NEW d \in D!Writers, dPc'[d] = "done", ~dStray' PROVE D!Writes(d) \subseteq dStored'
    <3>1. CASE dPc[d] = "done"
      <4>1. D!Writes(d) \subseteq dStored BY <2>0, <2>2, <3>1 DEF AllOrNothing, D!AllOrNothing
      <4> QED BY <1>1, <4>1
    <3>2. CASE d = t /\ D!Current.awaited
      <4>1. dPc[t] = Awaits(D!Current.sql) BY <1>2, <3>2 DEF DatabaseInv, Answers
      <4>2. to = "done" BY <1>2, <1>3, <2>2, <3>2 DEF DatabaseInv, DatabaseTypes
      <4>3. dPc[t] = "commit" BY <1>3, <3>2, <4>2
      <4>4. D!Current.sql = "COMMIT" BY <1>1, <4>1, <4>3 DEF Awaits
      <4> QED BY <1>1, <1>11, <3>2, <4>4
    <3>3. d # t \/ ~D!Current.awaited => dPc'[d] = dPc[d]
      BY <1>2, <1>3, <2>2 DEF DatabaseInv, DatabaseTypes, D!Writers, D!Tasks
    <3> QED BY <1>2, <1>3, <2>2, <3>1, <3>2, <3>3 DEF Statements
  <2> QED BY <2>1, <2>2 DEF AllOrNothing, D!AllOrNothing, D!Writes, D!Writers
<1> QED BY <1>1, <1>4, <1>8, <1>9, <1>13, DatabaseKept DEF DatabaseInv, DatabaseTypes

(* The end of a transaction raises: nothing of it is stored, and one that    *)
(* stays open has nothing in the queue any more that could end it.           *)
LEMMA DatabaseEndRaises ==
  ASSUME DatabaseInv, dWire # <<>>, D!EndRaises
  PROVE  DatabaseInv'
<1>0. PICK t : t = D!Task OBVIOUS
<1>1. /\ D!Current.sql \in {"COMMIT", "ROLLBACK"} /\ dWire' = D!Rest
      /\ \/ dOpen' = FALSE /\ dPending' = {} /\ UNCHANGED dStray
         \/ dStray' = TRUE /\ UNCHANGED <<dOpen, dPending>>
      /\ UNCHANGED dStored
  BY DEF D!EndRaises
<1>2. /\ D!Current = dWire[1] /\ t = dWire[1].task /\ 1 \in Sent /\ t \in D!Tasks
      /\ D!Current \in Statements
      /\ \A i \in Sent' : i + 1 \in Sent /\ i + 1 # 1 /\ dWire'[i] = dWire[i + 1]
  BY <1>0, <1>1, Taken
<1>3. PICK to : \/ ~D!Current.awaited /\ UNCHANGED <<dPc, dLock>>
                \/ D!Current.awaited /\ to = "failed"
                   /\ dPc' = [dPc EXCEPT ![t] = to] /\ dLock' = D!Released(t)
  BY <1>0 DEF D!EndRaises, D!Go
<1>4. Ordered' BY <1>0, <1>1, <1>3, DroppingKeepsOrder
<1>5. OfBody(1) /\ ~IsWork(1) BY <1>1, <1>2 DEF OfBody, IsWork, Body
<1>6. \A i \in Sent : i # 1 => ~OfBody(i) BY <1>5, AloneInFront
<1>7. \A i \in Sent' : ~OfBody(i)' BY <1>2, <1>6 DEF OfBody
<1>8. BodyIsOpen' /\ Progress' BY <1>7 DEF BodyIsOpen, Progress, OfBody, Body
<1>9. PendingIsOfBody'
  <2>1. ~dOpen => dPending = {} BY DEF DatabaseInv, PendingIsOfBody
  <2>2. ~dOpen' => dPending' = {} BY <1>1, <2>1
  <2> QED BY <1>7, <2>2 DEF PendingIsOfBody
<1>10. OpenIsKnown' BY <1>1, <1>2 DEF DatabaseInv, OpenIsKnown
<1>11. AllOrNothing'
  <2>1. \A d \in D!Writers : dPc'[d] = "done" => dPc[d] = "done"
    BY <1>2, <1>3 DEF D!Writers, D!Tasks, DatabaseInv, DatabaseTypes
  <2>2. dStray => dStray' BY <1>1
  <2> QED BY <1>1, <2>1, <2>2 DEF DatabaseInv, AllOrNothing, D!AllOrNothing, D!Writes, D!Writers
<1>12. dOpen' \in BOOLEAN /\ dStray' \in BOOLEAN BY <1>1 DEF DatabaseInv, DatabaseTypes
<1> QED BY <1>4, <1>8, <1>9, <1>10, <1>11, <1>12, DatabaseKept

LEMMA DatabaseNext ==
  ASSUME DatabaseInv, [D!Next]_databaseVars
  PROVE  DatabaseInv'
<1>1. ASSUME NEW t \in D!Tasks, D!Ask(t) PROVE DatabaseInv' BY <1>1, DatabaseAsk
<1>2. ASSUME NEW t \in D!Tasks, D!AskRead(t) PROVE DatabaseInv'
  <2>1. /\ dPc[t] = "idle" /\ t \in Readers /\ dPc' = [dPc EXCEPT ![t] = "read"]
        /\ dWire' = Append(dWire, D!Statement(t, "READ"))
        /\ UNCHANGED <<dLock, dOpen, dPending, dStored, dStray>>
    BY <1>2 DEF D!AskRead, D!Go, D!Send
  <2>2. Awaits("READ") = "read" BY DEF Awaits
  <2> QED BY <2>1, <2>2, DatabaseSend
<1>3. ASSUME NEW t \in D!Tasks, D!Enter(t) \/ D!TryAgain(t) PROVE DatabaseInv'
  <2>1. /\ dPc[t] \in {"lock", "pause"} /\ dPc' = [dPc EXCEPT ![t] = D!First(t)]
        /\ dWire' = Append(dWire, D!Statement(t, D!First(t)))
        /\ UNCHANGED <<dLock, dOpen, dPending, dStored, dStray>>
        /\ dPc[t] = "lock" => D!Holds(t)
    BY <1>3 DEF D!Enter, D!TryAgain, D!Go, D!Send
  <2>2. D!Holds(t) BY <2>1 DEF DatabaseInv, Turns, HasLock
  <2>3. t \in D!Writers BY <2>1 DEF DatabaseInv, OfItsKind
  <2>4. PICK sql : sql = D!First(t) OBVIOUS
  <2>5. /\ sql \in {"BEGIN", "WRITE", "READ"} /\ sql # "READ" /\ Awaits(sql) = sql
        /\ sql = "BEGIN" => t \in Transactions
        /\ sql = "WRITE" => t \in Singles
    BY <2>3, <2>4 DEF D!First, D!Writers, Awaits
  <2> QED BY <2>1, <2>2, <2>4, <2>5, DatabaseSend
<1>4. ASSUME NEW t \in D!Tasks, D!Cancel(t) PROVE DatabaseInv'
  BY <1>4, DatabaseCancelBody, DatabaseCancelElsewhere
<1>5. ASSUME D!Perform PROVE DatabaseInv'
  <2>0. dWire # <<>> /\ (D!EndRaises \/ UNCHANGED dStray) BY <1>5 DEF D!Perform
  <2> SUFFICES ASSUME UNCHANGED dStray, ~D!EndRaises PROVE DatabaseInv'
    BY <2>0, DatabaseEndRaises
  <2>1. CASE D!BeginDone BY <2>0, <2>1, DatabaseBegins
  <2>2. CASE D!Raised BY <2>0, <2>2, DatabaseRaises
  <2>3. CASE D!SingleDone BY <2>0, <2>3, DatabaseWrites
  <2>4. CASE D!BodyDone
    <3>1. CASE ~D!Current.awaited BY <2>0, <2>4, <3>1, DatabaseForsaken
    <3>2. CASE D!Current.awaited
      <4>1. PICK sql \in {"SECOND", "COMMIT"} :
              /\ sql = IF D!Current.sql = "FIRST" THEN "SECOND" ELSE "COMMIT"
              /\ dWire' = Append(D!Rest, D!Statement(D!Task, sql))
              /\ dPc' = [dPc EXCEPT ![D!Task] = IF sql = "COMMIT" THEN "commit" ELSE "body"]
        BY <2>4, <3>2 DEF D!BodyDone, D!Go
      <4>2. sql \in Body /\ Awaits(sql) = IF sql = "COMMIT" THEN "commit" ELSE "body"
        BY <4>1 DEF Body, Awaits
      <4>3. /\ D!Current.sql \in {"FIRST", "SECOND"}
            /\ \/ sql = "SECOND" /\ D!Current.sql = "FIRST"
                  /\ dPending' = dPending \cup {<<D!Task, 1>>}
               \/ sql = "COMMIT" /\ D!Current.sql = "SECOND"
                  /\ dPending' = dPending \cup {<<D!Task, 2>>}
            /\ UNCHANGED <<dLock, dOpen, dStored>>
        BY <2>4, <4>1 DEF D!BodyDone
      <4> QED BY <2>0, <3>2, <4>1, <4>2, <4>3, DatabaseGoesOn
    <3> QED BY <3>1, <3>2
  <2>5. CASE D!BodyRaised
    <3>1. /\ D!Current.sql \in {"FIRST", "SECOND"} /\ D!Current.awaited
          /\ dWire' = Append(D!Rest, D!Statement(D!Task, "ROLLBACK"))
          /\ dPc' = [dPc EXCEPT ![D!Task] = "rollback"]
          /\ UNCHANGED <<dLock, dOpen, dPending, dStored>>
      BY <2>5 DEF D!BodyRaised, D!OnError, D!Go
    <3>2. "ROLLBACK" \in Body /\ Awaits("ROLLBACK") = "rollback" BY DEF Body, Awaits
    <3> QED BY <2>0, <3>1, <3>2, DatabaseGoesOn
  <2>6. CASE D!Ended BY <2>0, <2>6, DatabaseEnds
  <2>7. CASE D!ReadDone BY <2>0, <2>7, DatabaseReads
  <2> QED BY <1>5, <2>1, <2>2, <2>3, <2>4, <2>5, <2>6, <2>7 DEF D!Perform
<1>6. ASSUME D!Stop PROVE DatabaseInv' BY <1>6, DatabaseStop
<1>7. ASSUME D!Others \/ UNCHANGED databaseVars PROVE DatabaseInv'
  BY <1>7, DatabaseIdle DEF D!Others, databaseVars
<1> QED BY <1>1, <1>2, <1>3, <1>4, <1>5, <1>6, <1>7 DEF D!Next

(* Database.transaction, execute: whole or not at all, and what a caller was *)
(* told is stored is stored unless a transaction may have been left open,   *)
(* for any number of tasks, cancellations, stops, ends that raise and other  *)
(* processes at the file.                                                   *)
THEOREM TransactionsAreWhole == PartsSpec => []AllOrNothing
<1>1. PartsInit => DatabaseInv BY DatabaseInit DEF PartsInit
<1>2. DatabaseInv /\ [PartsNext]_all => DatabaseInv' BY DatabaseSteps, DatabaseNext
<1>3. DatabaseInv => AllOrNothing BY DEF DatabaseInv
<1> QED BY <1>1, <1>2, <1>3, PTL DEF PartsSpec

(* A transaction is left open in two ways only, by a BEGIN that was          *)
(* cancelled on its way and by a COMMIT or ROLLBACK that raised: as long as   *)
(* neither came to pass, one that is open has a task at work on it, or a      *)
(* statement of its own in the queue.                                        *)
THEOREM LeftOpenInTwoWays == PartsSpec => [](~dStray => D!NoneLeftOpen)
<1>1. PartsInit => DatabaseInv BY DatabaseInit DEF PartsInit
<1>2. DatabaseInv /\ [PartsNext]_all => DatabaseInv' BY DatabaseSteps, DatabaseNext
<1>3. DatabaseInv => (~dStray => D!NoneLeftOpen)
  <2> SUFFICES ASSUME DatabaseInv, ~dStray, dOpen PROVE dWire # <<>> BY DEF D!NoneLeftOpen
  <2>1. PICK i \in Sent : OfBody(i) BY DEF DatabaseInv, OpenIsKnown
  <2>2. 1 <= Len(dWire) BY <2>1 DEF Sent, DatabaseInv, DatabaseTypes
  <2> QED BY <2>2
<1> QED BY <1>1, <1>2, <1>3, PTL DEF PartsSpec

LEMMA StorageSteps == [PartsNext]_all => [F!Next]_storageVars
BY DEF PartsNext, OthersStill, Still, all

(***************************************************************************)
(* The file of the database                                                 *)
(***************************************************************************)
StorageInv ==
  /\ F!SchemaIsRecorded
  /\ fKnown \subseteq Nat /\ fNow \in Nat
  /\ fCopies \subseteq [at : 0..fNow, sound : BOOLEAN]
  /\ fPc = "migrating" => F!Missing # {}
  (* The copy that is made is the only one of its second, and not sound yet. *)
  /\ fPc \in {"copying", "copied"} => \A c \in fCopies : c.at = fNow => c = F!Half

(* There is a next version as long as one is missing.                       *)
LEMMA NextIsMissing ==
  ASSUME fKnown \subseteq Nat, F!Missing # {} PROVE F!NextVersion \in F!Missing
<1>1. F!Missing \subseteq Nat BY DEF F!Missing
<1>2. \E v \in F!Missing : \A w \in F!Missing : ~(<<w, v>> \in OpToRel(<, Nat))
  BY <1>1, NatLessThanWellFounded, WFMin
<1>3. \A v, w \in Nat : w < v => <<w, v>> \in OpToRel(<, Nat)
  BY Zenon DEF OpToRel
<1>4. PICK v \in F!Missing : \A w \in F!Missing : ~(<<w, v>> \in OpToRel(<, Nat)) BY <1>2
<1> HIDE DEF OpToRel
<1>5. \A w \in F!Missing : ~(w < v) BY <1>1, <1>3, <1>4
<1>6. \A w \in F!Missing : v <= w BY <1>1, <1>5
<1> QED BY <1>6 DEF F!NextVersion

(* The newest copy is kept.                                                 *)
LEMMA NewestIsKept ==
  ASSUME Keep \in Nat \ {0}, NEW files, NEW n \in files, \A c \in files : c.at >= n.at => c = n
  PROVE  n \in F!Newest(files)
<1>1. {d \in files : d.at >= n.at} \subseteq {n} OBVIOUS
<1>2. IsFiniteSet({n}) /\ Cardinality({n}) = 1 BY FS_Singleton
<1>3. Cardinality({d \in files : d.at >= n.at}) <= 1 BY <1>1, <1>2, FS_Subset
<1>4. IsFiniteSet({d \in files : d.at >= n.at}) BY <1>1, <1>2, FS_Subset
<1>5. Cardinality({d \in files : d.at >= n.at}) <= Keep BY <1>3, <1>4, FS_CardinalityType
<1>6. F!Cardinality({d \in files : d.at >= n.at}) = Cardinality({d \in files : d.at >= n.at})
  BY DEF F!Cardinality, F!IsFiniteSet, Cardinality, IsFiniteSet
<1> QED BY <1>5, <1>6 DEF F!Newest

LEMMA StorageInit == F!Init => StorageInv
BY DEF F!Init, StorageInv, F!SchemaIsRecorded, F!Missing

LEMMA StartKeeps == ASSUME StorageInv, F!Start PROVE StorageInv'
<1> USE DEF StorageInv
<1>1. PICK build \in Builds :
        /\ fRecorded \subseteq build /\ fKnown' = build
        /\ fPc' = IF build = fRecorded THEN "ready" ELSE "migrating"
  BY DEF F!Start
<1>2. UNCHANGED <<fDone, fSchema, fRecorded, fCopies, fNow>> BY DEF F!Start
<1>3. F!SchemaIsRecorded' BY <1>1, <1>2 DEF F!SchemaIsRecorded, F!Statements
<1>4. fPc' = "migrating" => F!Missing' # {} BY <1>1, <1>2 DEF F!Missing
<1>5. fPc' \notin {"copying", "copied"} BY <1>1
<1>6. fKnown' \subseteq Nat BY <1>1, StorageAssumption
<1> QED BY <1>2, <1>3, <1>4, <1>5, <1>6

(* A migration is recorded with all of its statements.                      *)
LEMMA CommitKeeps == ASSUME StorageInv, F!Commit PROVE StorageInv'
<1> USE DEF StorageInv
<1>1. F!NextVersion \in fKnown \ fRecorded
  BY NextIsMissing DEF F!Commit, F!Missing
<1> DEFINE v == F!NextVersion
<1>2. /\ fSchema' = fSchema \cup F!Statements(v) /\ fRecorded' = fRecorded \cup {v}
      /\ fPc = "migrating" /\ fPc' \in {"ready", "migrating"}
      /\ fPc' = "ready" <=> F!Missing = {v}
      /\ UNCHANGED <<fKnown, fCopies, fNow>>
  BY DEF F!Commit
<1> HIDE DEF v
<1>3. fSchema' = UNION {F!Statements(w) : w \in fRecorded'}
  BY <1>2 DEF F!SchemaIsRecorded
<1>4. fRecorded' \subseteq fKnown' BY <1>1, <1>2 DEF F!SchemaIsRecorded, v
<1>5. F!Missing' = F!Missing \ {v} BY <1>2 DEF F!Missing
<1>6. fPc' = "ready" => fRecorded' = fKnown' BY <1>2, <1>4, <1>5 DEF F!Missing
<1>7. fPc' = "migrating" => F!Missing' # {} BY <1>1, <1>2, <1>5 DEF v, F!Missing
<1>8. F!SchemaIsRecorded' BY <1>2, <1>3, <1>4, <1>6 DEF F!SchemaIsRecorded, F!Statements
<1> QED BY <1>2, <1>7, <1>8

(* The steps of a backup leave the schema alone.                            *)
LEMMA BackupKeeps ==
  ASSUME StorageInv,
         F!BeginCopy \/ F!FinishCopy \/ F!CopyFails \/ F!Rotate \/ F!Remember
  PROVE  StorageInv'
<1> USE DEF StorageInv
<1>1. /\ UNCHANGED <<fKnown, fDone, fSchema, fRecorded>>
      /\ fPc \notin {"down", "migrating"} /\ fPc' \notin {"down", "migrating"}
  BY DEF F!BeginCopy, F!FinishCopy, F!CopyFails, F!Rotate, F!Remember
<1>2. F!SchemaIsRecorded' BY <1>1 DEF F!SchemaIsRecorded, F!Statements
<1>3. CASE F!BeginCopy
  <2>1. fNow' = fNow + 1 /\ fPc' = "copying"
        /\ fCopies' = {c \in fCopies : c.at # fNow'} \cup {[at |-> fNow', sound |-> FALSE]}
    BY <1>3 DEF F!BeginCopy
  <2>2. fCopies' \subseteq [at : 0..fNow', sound : BOOLEAN]
    <3>1. [at |-> fNow', sound |-> FALSE] \in [at : 0..fNow', sound : BOOLEAN] BY <2>1
    <3>2. \A c \in fCopies : c \in [at : 0..fNow', sound : BOOLEAN]
      <4> SUFFICES ASSUME NEW c \in fCopies PROVE c \in [at : 0..fNow', sound : BOOLEAN]
        OBVIOUS
      <4>1. c \in [at : 0..fNow, sound : BOOLEAN] OBVIOUS
      <4>2. c.at \in 0..fNow' BY <4>1, <2>1
      <4> QED BY <4>1, <4>2
    <3> QED BY <2>1, <3>1, <3>2
  <2>3. \A c \in fCopies' : c.at = fNow' => c = F!Half' BY <2>1 DEF F!Half
  <2> QED BY <1>1, <1>2, <2>1, <2>2, <2>3
<1>4. CASE F!FinishCopy BY <1>1, <1>2, <1>4 DEF F!FinishCopy, F!Half
<1>5. CASE F!CopyFails BY <1>1, <1>2, <1>5 DEF F!CopyFails, F!Half
<1>6. CASE F!Rotate
  <2>1. \A c \in fCopies' : c \in fCopies \/ c = [F!Half EXCEPT !.sound = TRUE]
    <3> DEFINE files == (fCopies \ {F!Half}) \cup {[F!Half EXCEPT !.sound = TRUE]}
    <3>1. F!Newest(files) \subseteq files BY DEF F!Newest
    <3>2. \/ fCopies' = F!Newest(files)
          \/ \E c \in files \ F!Newest(files) : fCopies' = F!Newest(files) \cup {c}
      BY <1>6, Zenon DEF F!Rotate
    <3>3. fCopies' \subseteq files BY <3>1, <3>2
    <3> QED BY <3>3
  <2>2. fNow' = fNow /\ fPc' = "remembering" BY <1>6 DEF F!Rotate
  <2>3. F!Half \in [at : 0..fNow, sound : BOOLEAN] BY DEF F!Half
  <2>4. [F!Half EXCEPT !.sound = TRUE] \in [at : 0..fNow, sound : BOOLEAN] BY <2>3
  <2>5. fCopies' \subseteq [at : 0..fNow', sound : BOOLEAN] BY <2>1, <2>2, <2>4
  <2> QED BY <1>1, <1>2, <2>2, <2>5
<1>7. CASE F!Remember BY <1>1, <1>2, <1>7 DEF F!Remember
<1> QED BY <1>3, <1>4, <1>5, <1>6, <1>7

LEMMA StorageNext ==
  ASSUME StorageInv, [F!Next]_storageVars PROVE StorageInv'
<1>1. CASE F!Execute
  BY <1>1 DEF F!Execute, StorageInv, F!SchemaIsRecorded, F!Statements, F!Missing, F!Half
<1>2. CASE F!Stop
  BY <1>2 DEF F!Stop, StorageInv, F!SchemaIsRecorded, F!Statements, F!Missing
<1>3. CASE UNCHANGED storageVars
  BY <1>3 DEF storageVars, StorageInv, F!SchemaIsRecorded, F!Statements, F!Missing, F!Half
<1> QED BY <1>1, <1>2, <1>3, StartKeeps, CommitKeeps, BackupKeeps DEF F!Next

(* A copy that is sound gives way to a newer one that is.                   *)
LEMMA GoodCopyStays ==
  ASSUME StorageInv, F!Next PROVE F!NoGoodCopyLost
<1> USE DEF StorageInv
<1>1. SUFFICES ASSUME NEW d \in fCopies, d.sound
               PROVE  \E c \in fCopies' : c.sound /\ c.at >= d.at
  BY DEF F!NoGoodCopyLost
<1>2. d.at \in Nat /\ d.at <= fNow /\ fNow \in Nat OBVIOUS
<1>3. CASE UNCHANGED fCopies BY <1>1, <1>2, <1>3
<1>4. CASE F!BeginCopy
  <2>1. d.at # fNow + 1 BY <1>2
  <2> QED BY <1>1, <1>2, <1>4, <2>1 DEF F!BeginCopy
<1>5. CASE F!CopyFails
  <2>1. d # F!Half BY <1>1 DEF F!Half
  <2> QED BY <1>1, <1>2, <1>5, <2>1 DEF F!CopyFails
<1>6. CASE F!Rotate
  <2> DEFINE new == [F!Half EXCEPT !.sound = TRUE]
             files == (fCopies \ {F!Half}) \cup {new}
  <2>1. F!Newest(files) \subseteq fCopies' BY <1>6 DEF F!Rotate
  <2>2. new.at = fNow /\ new.sound BY DEF F!Half
  <2>3. \A c \in files : c.at >= new.at => c = new
    <3> SUFFICES ASSUME NEW c \in fCopies, c # F!Half, c.at >= fNow PROVE FALSE
      BY <2>2
    <3>1. c.at = fNow OBVIOUS
    <3> QED BY <1>6, <3>1 DEF F!Rotate
  <2>4. new \in F!Newest(files) BY <2>3, NewestIsKept, StorageAssumption
  <2> QED BY <1>2, <2>1, <2>2, <2>4
<1>7. CASE F!Start \/ F!Execute \/ F!Commit \/ F!FinishCopy \/ F!Remember \/ F!Stop
  BY <1>3, <1>7 DEF F!Start, F!Execute, F!Commit, F!FinishCopy, F!Remember, F!Stop
<1> QED BY <1>4, <1>5, <1>6, <1>7 DEF F!Next

(* The table of migrations tells the truth, whenever the process stopped.   *)
THEOREM SchemaStaysRecorded == PartsSpec => []SchemaIsRecorded
<1>1. PartsInit => StorageInv BY StorageInit DEF PartsInit
<1>2. StorageInv /\ [PartsNext]_all => StorageInv' BY StorageSteps, StorageNext
<1>3. StorageInv => SchemaIsRecorded BY DEF StorageInv, SchemaIsRecorded
<1> QED BY <1>1, <1>2, <1>3, PTL DEF PartsSpec

(* Once a copy was found sound there is one at least as new that is.         *)
THEOREM GoodCopyStaysForGood == PartsSpec => GoodCopyRemains
<1>1. PartsInit => StorageInv BY StorageInit DEF PartsInit
<1>2. StorageInv /\ [PartsNext]_all => StorageInv' BY StorageSteps, StorageNext
<1>3. StorageInv /\ [PartsNext]_all => [F!NoGoodCopyLost]_storageVars
  BY StorageSteps, GoodCopyStays
<1> QED BY <1>1, <1>2, <1>3, PTL DEF PartsSpec, GoodCopyRemains

LEMMA OperatorSteps == [PartsNext]_all => [O!Next]_operatorVars
BY DEF PartsNext, OthersStill, Still, all

(***************************************************************************)
(* The operator                                                             *)
(***************************************************************************)
(* What is remembered of the message of a stop is what was sent.            *)
NoticeRemembered ==
  /\ oNotices \in {0, 1} /\ (oStopReported <=> oNotices = 1)
  /\ oPhase = "down" => oStopReported

OperatorInv ==
  /\ O!OnlyConfirmed
  /\ NoticeRemembered
  /\ oSwitch \in [paused : BOOLEAN, restart : BOOLEAN]

(* Dispatching what needs no confirmation, or was confirmed.                *)
LEMMA DispatchKeeps ==
  ASSUME OperatorInv, NEW c, O!Dispatch(c), oMeant \subseteq oMeant',
         c \in O!Destructive => c \in oMeant'
  PROVE  OperatorInv'
<1> USE DEF OperatorInv
<1>1. oSwitch' = O!Switched(c) /\ oTrading' = O!Traded(c) /\ oUpdating' = (c = "update")
      /\ UNCHANGED <<oPhase, oAllowed, oObserved, oStopReported, oNotices, oInstalled>>
  BY DEF O!Dispatch, O!telling
<1>2. NoticeRemembered' BY <1>1 DEF NoticeRemembered
<1>3. /\ oSwitch' \in [paused : BOOLEAN, restart : BOOLEAN]
      /\ oSwitch'.paused => oSwitch.paused \/ c = "stop"
      /\ oSwitch'.restart => oSwitch.restart \/ c = "restart"
  BY <1>1 DEF O!Switched
<1>4. oTrading' => oTrading \/ (c = "trade_on" /\ oAllowed)
  BY <1>1 DEF O!Traded
<1>5. O!OnlyConfirmed' BY <1>1, <1>3, <1>4 DEF O!OnlyConfirmed, O!Destructive
<1> QED BY <1>2, <1>3, <1>5

LEMMA AskKeeps == ASSUME OperatorInv, NEW c, O!Ask(c) PROVE OperatorInv'
BY DEF OperatorInv, O!Ask, O!OnlyConfirmed, NoticeRemembered, O!control, O!telling

LEMMA OperatorNext == ASSUME OperatorInv, [O!Next]_operatorVars PROVE OperatorInv'
<1>1. ASSUME NEW c \in O!Commands, O!Text(c) PROVE OperatorInv'
  <2>1. CASE c \in O!Destructive BY <1>1, <2>1, AskKeeps DEF O!Text
  <2>2. CASE c \notin O!Destructive BY <1>1, <2>2, DispatchKeeps DEF O!Text
  <2> QED BY <2>1, <2>2
<1>2. ASSUME NEW b \in oChat, O!Press(b) PROVE OperatorInv'
  <2>1. CASE b.name \in O!Destructive /\ b.kind # "confirm"
    BY <1>2, <2>1, AskKeeps DEF O!Press
  <2>2. CASE ~(b.name \in O!Destructive /\ b.kind # "confirm")
    <3>1. O!Dispatch(b.name) /\ oMeant \subseteq oMeant'
      BY <1>2, <2>2 DEF O!Press
    <3>2. b.name \in O!Destructive => b.name \in oMeant' BY <1>2, <2>2 DEF O!Press
    <3> QED BY <3>1, <3>2, DispatchKeeps
  <2> QED BY <2>1, <2>2
<1> USE DEF OperatorInv, O!OnlyConfirmed, NoticeRemembered
<1>3. CASE O!UpdateEnds BY <1>3 DEF O!UpdateEnds, O!RestartAfter, O!telling
<1>4. CASE O!PendingUpdates BY <1>4 DEF O!PendingUpdates, O!control, O!telling
<1>5. CASE O!Observe BY <1>5 DEF O!Observe, O!Notice, O!control
<1>6. CASE O!Shutdown BY <1>6 DEF O!Shutdown, O!Notice
<1>7. CASE O!Crash BY <1>7 DEF O!Crash, O!telling
<1>8. CASE O!Start BY <1>8 DEF O!Start
<1>9. CASE UNCHANGED operatorVars BY <1>9 DEF operatorVars
<1> QED BY <1>1, <1>2, <1>3, <1>4, <1>5, <1>6, <1>7, <1>8, <1>9 DEF O!Next

(* Nothing that interrupts the work or spends money happens without a        *)
(* confirmation, and a stop is told once: for any number of lives of the     *)
(* program, with buttons of all of them in the chat.                        *)
THEOREM StopsStayMeant == PartsSpec => []StopsAreMeantAndTold
<1>1. PartsInit => OperatorInv
  BY DEF PartsInit, O!Init, OperatorInv, O!OnlyConfirmed, NoticeRemembered
<1>2. OperatorInv /\ [PartsNext]_all => OperatorInv' BY OperatorSteps, OperatorNext
<1>3. OperatorInv => StopsAreMeantAndTold
  BY DEF OperatorInv, NoticeRemembered, StopsAreMeantAndTold, O!StopsAreMeantAndTold,
         O!StopToldOnce
<1> QED BY <1>1, <1>2, <1>3, PTL DEF PartsSpec

LEMMA HealthSteps == [PartsNext]_all => [H!Next]_healthVars
BY DEF PartsNext, OthersStill, Still, all

(***************************************************************************)
(* What is held true of providers                                           *)
(***************************************************************************)
(* What a counter says of the last outcomes: so many of them in a row, and    *)
(* no more, were like that, up to the limit that matters.                   *)
Counts(n, limit, row, outcome) ==
  /\ n \in 0..limit
  /\ \A i \in 1..n : row[i] = outcome
  /\ n < limit => row[n + 1] # outcome

(* The counters of a provider agree with what came of its calls. *)
StreakOf(p) ==
  /\ Counts(hHealth[p].failures, FailedAt, hRecent[p], "bad")
  /\ Counts(hHealth[p].successes, RecoveredAt, hRecent[p], "good")
  /\ hHealth[p].status = H!Unseen => \A i \in 1..H!Depth : hRecent[p][i] = H!Unseen

StreaksKnown ==
  /\ hRecent \in [Providers -> [1..H!Depth -> H!Outcomes \cup {H!Unseen}]]
  /\ \A p \in Providers : StreakOf(p)

HealthInv ==
  /\ hHealth \in [Providers -> [status : H!Statuses \cup {H!Unseen},
                                failures : Nat, successes : Nat]]
  /\ hReported \in [Providers -> [status : H!Statuses \cup {H!Unseen}, age : Nat]]
  /\ hSnapshot \in [Providers -> H!Statuses \cup {H!Unseen}]
  /\ hTold \in [Providers -> H!Statuses \cup {H!Unseen}]
  /\ H!RemembersWhatWasTold
  /\ StreaksKnown

LEMMA CountsCapped == ASSUME NEW n \in Nat, NEW limit \in Nat PROVE H!AtMost(n, limit) \in Nat
BY DEF H!AtMost

LEMMA DepthIs ==
  /\ H!Depth \in Nat \ {0} /\ FailedAt <= H!Depth /\ RecoveredAt <= H!Depth
  /\ FailedAt \in Nat \ {0} /\ RecoveredAt \in Nat \ {0} /\ DegradedAt \in Nat \ {0}
BY HealthAssumption DEF H!Depth

(* The row of outcomes with one more in front of it. *)
Before(outcome, row) == [i \in 1..H!Depth |-> IF i = 1 THEN outcome ELSE row[i - 1]]

LEMMA CountGrows ==
  ASSUME NEW limit \in Nat \ {0}, limit <= H!Depth, NEW row, NEW n, NEW outcome,
         Counts(n, limit, row, outcome)
  PROVE  Counts(H!AtMost(n + 1, limit), limit, Before(outcome, row), outcome)
<1> DEFINE m == H!AtMost(n + 1, limit)
<1>1. n \in 0..limit BY DEF Counts
<1>2. m \in 1..limit /\ m <= n + 1 /\ (m < limit => m = n + 1)
  BY <1>1 DEF H!AtMost
<1> HIDE DEF m
<1>3. \A i \in 1..m : Before(outcome, row)[i] = outcome
  <2> TAKE i \in 1..m
  <2>1. i \in 1..H!Depth BY <1>2, DepthIs
  <2>2. i # 1 => i - 1 \in 1..n BY <1>1, <1>2
  <2> QED BY <2>1, <2>2 DEF Before, Counts
<1>4. m < limit => Before(outcome, row)[m + 1] # outcome
  <2> SUFFICES ASSUME m < limit PROVE Before(outcome, row)[m + 1] # outcome OBVIOUS
  <2>1. m + 1 \in 1..H!Depth /\ m + 1 # 1 /\ (m + 1) - 1 = n + 1 BY <1>1, <1>2, DepthIs
  <2>2. n < limit BY <1>1, <1>2
  <2>3. row[n + 1] # outcome BY <2>2 DEF Counts
  <2> QED BY <2>1, <2>3 DEF Before
<1>5. m \in 0..limit BY <1>2
<1>6. Counts(m, limit, Before(outcome, row), outcome) BY <1>3, <1>4, <1>5 DEF Counts
<1> QED BY <1>6 DEF m

LEMMA CountFalls ==
  ASSUME NEW limit \in Nat \ {0}, NEW row, NEW outcome, NEW other, other # outcome
  PROVE  Counts(0, limit, Before(other, row), outcome)
<1>1. 1 \in 1..H!Depth BY DepthIs
<1>2. Before(other, row)[1] = other BY <1>1 DEF Before
<1> QED BY <1>2 DEF Counts

(* A count that has reached its limit is a full row of such outcomes. *)
LEMMA CountDecides ==
  ASSUME NEW limit \in Nat \ {0}, NEW row, NEW n, NEW outcome, Counts(n, limit, row, outcome)
  PROVE  /\ (\A i \in 1..limit : row[i] = outcome) => n >= limit
         /\ \A m \in Nat : n >= m => \A i \in 1..m : row[i] = outcome
<1>1. n \in 0..limit BY DEF Counts
<1>2. ASSUME \A i \in 1..limit : row[i] = outcome PROVE n >= limit
  <2>1. n < limit => n + 1 \in 1..limit BY <1>1
  <2> QED BY <1>1, <1>2, <2>1 DEF Counts
<1>3. ASSUME NEW m \in Nat, n >= m PROVE \A i \in 1..m : row[i] = outcome
  BY <1>1, <1>3 DEF Counts
<1> QED BY <1>2, <1>3

LEMMA StatusesAre ==
  /\ H!ProbeStatuses \subseteq H!Statuses /\ H!Good \subseteq H!Statuses
  /\ H!Unseen \notin H!Statuses
BY DEF H!ProbeStatuses, H!Statuses, H!Good, H!Unseen

(* The verdicts of the hysteresis, with the counts they are made of.        *)
LEMMA Verdicts ==
  ASSUME NEW current \in H!Statuses, NEW n \in Nat
  PROVE  /\ H!AfterSuccess(current, n) \in H!Statuses
         /\ H!AfterFailure(current, n) \in H!Statuses
         /\ H!AfterSuccess(current, n) = "healthy" => n >= RecoveredAt \/ current = "healthy"
         /\ H!AfterFailure(current, n) = "healthy" => current = "healthy"
         /\ H!AfterSuccess(current, n) = "unavailable" => current = "unavailable"
         /\ H!AfterFailure(current, n) = "unavailable" => n >= FailedAt \/ current = "unavailable"
         /\ H!AfterSuccess(current, n) = "degraded" => current = "degraded"
         /\ H!AfterFailure(current, n) = "degraded" => n >= DegradedAt \/ current = "degraded"
         /\ n >= RecoveredAt => H!AfterSuccess(current, n) = "healthy"
         /\ n >= FailedAt => H!AfterFailure(current, n) = "unavailable"
BY DEF H!AfterSuccess, H!AfterFailure, H!Statuses

(* An answer of one provider, or a failure to answer: the counters go on     *)
(* agreeing with the outcomes, and the verdict is the one of the row.       *)
LEMMA CountedOnce ==
  ASSUME HealthInv, NEW q \in Providers, H!Success(q) \/ H!Failure(q)
  PROVE  /\ hHealth' \in [Providers -> [status : H!Statuses \cup {H!Unseen},
                                        failures : Nat, successes : Nat]]
         /\ StreaksKnown'
         /\ \A p \in Providers : H!ByStreak(p)
         /\ UNCHANGED <<hPhase, hReported, hSnapshot, hTold, hUnsaid>>
<1> DEFINE old == hHealth[q]  row == hRecent[q]
<1>1. /\ old \in [status : H!Statuses \cup {H!Unseen}, failures : Nat, successes : Nat]
      /\ Counts(old.failures, FailedAt, row, "bad")
      /\ Counts(old.successes, RecoveredAt, row, "good")
  BY DEF HealthInv, StreaksKnown, StreakOf
<1>2. /\ H!Known(q) \in H!Statuses
      /\ H!Known(q) \in {"healthy", "unavailable", "degraded"} => H!Known(q) = old.status
  BY <1>1 DEF H!Known, H!Statuses, H!Unseen
<1>3. ASSUME NEW outcome \in H!Outcomes, NEW new,
             hHealth' = [hHealth EXCEPT ![q] = new], H!Came(q, outcome),
             new \in [status : H!Statuses, failures : Nat, successes : Nat],
             Counts(new.failures, FailedAt, Before(outcome, row), "bad"),
             Counts(new.successes, RecoveredAt, Before(outcome, row), "good"),
             new.status = "unavailable" => new.failures >= FailedAt \/ old.status = "unavailable",
             new.status = "degraded" => new.failures >= DegradedAt \/ old.status = "degraded",
             new.status = "healthy" => new.successes >= RecoveredAt \/ old.status = "healthy",
             new.failures >= FailedAt => new.status = "unavailable",
             new.successes >= RecoveredAt => new.status = "healthy"
      PROVE  /\ hHealth' \in [Providers -> [status : H!Statuses \cup {H!Unseen},
                                            failures : Nat, successes : Nat]]
             /\ StreaksKnown'
             /\ \A p \in Providers : H!ByStreak(p)
  <2> DEFINE now == Before(outcome, row)
  <2>1. hRecent' = [hRecent EXCEPT ![q] = now] BY <1>3 DEF H!Came, Before
  <2>2. now \in [1..H!Depth -> H!Outcomes \cup {H!Unseen}]
    <3>1. row \in [1..H!Depth -> H!Outcomes \cup {H!Unseen}] BY DEF HealthInv, StreaksKnown
    <3>2. ASSUME NEW i \in 1..H!Depth
          PROVE  (IF i = 1 THEN outcome ELSE row[i - 1]) \in H!Outcomes \cup {H!Unseen}
      <4>1. i # 1 => i - 1 \in 1..H!Depth BY DepthIs
      <4> QED BY <3>1, <4>1
    <3> QED BY <3>2 DEF Before
  <2> HIDE DEF now
  <2>3. /\ hHealth'[q] = new /\ hRecent'[q] = now
        /\ \A p \in Providers \ {q} : hHealth'[p] = hHealth[p] /\ hRecent'[p] = hRecent[p]
    BY <1>3, <2>1 DEF HealthInv, StreaksKnown
  <2>4. hHealth' \in [Providers -> [status : H!Statuses \cup {H!Unseen},
                                    failures : Nat, successes : Nat]]
    BY <1>3 DEF HealthInv
  <2>5. hRecent' \in [Providers -> [1..H!Depth -> H!Outcomes \cup {H!Unseen}]]
    BY <2>1, <2>2 DEF HealthInv, StreaksKnown
  <2>6. \A p \in Providers : StreakOf(p)'
    <3> TAKE p \in Providers
    <3>1. CASE p = q
      <4>1. new.status # H!Unseen BY <1>3, StatusesAre
      <4> QED BY <1>3, <2>3, <3>1, <4>1 DEF StreakOf, now
    <3>2. CASE p # q BY <2>3, <3>2 DEF HealthInv, StreaksKnown, StreakOf
    <3> QED BY <3>1, <3>2
  <2>7. /\ (\A i \in 1..FailedAt : now[i] = "bad") => new.failures >= FailedAt
        /\ \A m \in Nat : new.failures >= m => \A i \in 1..m : now[i] = "bad"
    BY <1>3, DepthIs, CountDecides DEF now
  <2>8. /\ (\A i \in 1..RecoveredAt : now[i] = "good") => new.successes >= RecoveredAt
        /\ \A m \in Nat : new.successes >= m => \A i \in 1..m : now[i] = "good"
    BY <1>3, DepthIs, CountDecides DEF now
  <2>9. H!ByStreak(q)
    <3>1. /\ H!InARow(q, "bad", FailedAt)' => new.status = "unavailable"
          /\ H!InARow(q, "good", RecoveredAt)' => new.status = "healthy"
      BY <1>3, <2>3, <2>7, <2>8 DEF H!InARow
    <3>2. ASSUME new.status # old.status
          PROVE  /\ new.status = "unavailable" => H!InARow(q, "bad", FailedAt)'
                 /\ new.status = "degraded" => H!InARow(q, "bad", DegradedAt)'
                 /\ new.status = "healthy" => H!InARow(q, "good", RecoveredAt)'
      BY <1>3, <2>3, <2>7, <2>8, <3>2, DepthIs DEF H!InARow
    <3> QED BY <2>3, <3>1, <3>2 DEF H!ByStreak
  <2>10. \A p \in Providers \ {q} : H!ByStreak(p) BY <2>3 DEF H!ByStreak
  <2> QED BY <2>4, <2>5, <2>6, <2>9, <2>10 DEF StreaksKnown
<1>4. CASE H!Success(q)
  <2> DEFINE n == H!AtMost(old.successes + 1, RecoveredAt)
             new == [status |-> H!AfterSuccess(H!Known(q), n), failures |-> 0, successes |-> n]
  <2>1. n \in Nat
    <3>1. old.successes + 1 \in Nat BY <1>1
    <3> QED BY <3>1, DepthIs, CountsCapped
  <2>2. hHealth' = [hHealth EXCEPT ![q] = new] /\ H!Came(q, "good")
    BY <1>4 DEF H!Success, H!Succeeded
  <2>3. Counts(n, RecoveredAt, Before("good", row), "good") BY <1>1, DepthIs, CountGrows
  <2>4. Counts(0, FailedAt, Before("good", row), "bad") BY DepthIs, CountFalls
  <2> HIDE DEF n
  <2>5. /\ H!AfterSuccess(H!Known(q), n) \in H!Statuses
        /\ H!AfterSuccess(H!Known(q), n) = "healthy" => n >= RecoveredAt \/ H!Known(q) = "healthy"
        /\ H!AfterSuccess(H!Known(q), n) = "unavailable" => H!Known(q) = "unavailable"
        /\ H!AfterSuccess(H!Known(q), n) = "degraded" => H!Known(q) = "degraded"
        /\ n >= RecoveredAt => H!AfterSuccess(H!Known(q), n) = "healthy"
    BY <1>2, <2>1, Verdicts
  <2>6. /\ new \in [status : H!Statuses, failures : Nat, successes : Nat]
        /\ new.failures = 0 /\ new.successes = n
        /\ new.status = H!AfterSuccess(H!Known(q), n)
    BY <2>1, <2>5
  <2>7. ~(0 >= FailedAt) BY DepthIs
  <2> HIDE DEF new
  <2> QED BY <1>2, <1>3, <1>4, <2>2, <2>3, <2>4, <2>5, <2>6, <2>7 DEF H!Success, H!Outcomes
<1>5. CASE H!Failure(q)
  <2> DEFINE n == H!AtMost(old.failures + 1, FailedAt)
             new == [status |-> H!AfterFailure(H!Known(q), n), failures |-> n, successes |-> 0]
  <2>1. n \in Nat
    <3>1. old.failures + 1 \in Nat BY <1>1
    <3> QED BY <3>1, DepthIs, CountsCapped
  <2>2. hHealth' = [hHealth EXCEPT ![q] = new] /\ H!Came(q, "bad")
    BY <1>5 DEF H!Failure, H!FailedAgain
  <2>3. Counts(n, FailedAt, Before("bad", row), "bad") BY <1>1, DepthIs, CountGrows
  <2>4. Counts(0, RecoveredAt, Before("bad", row), "good") BY DepthIs, CountFalls
  <2> HIDE DEF n
  <2>5. /\ H!AfterFailure(H!Known(q), n) \in H!Statuses
        /\ H!AfterFailure(H!Known(q), n) = "unavailable"
             => n >= FailedAt \/ H!Known(q) = "unavailable"
        /\ H!AfterFailure(H!Known(q), n) = "degraded" => n >= DegradedAt \/ H!Known(q) = "degraded"
        /\ H!AfterFailure(H!Known(q), n) = "healthy" => H!Known(q) = "healthy"
        /\ n >= FailedAt => H!AfterFailure(H!Known(q), n) = "unavailable"
    BY <1>2, <2>1, Verdicts
  <2>6. /\ new \in [status : H!Statuses, failures : Nat, successes : Nat]
        /\ new.failures = n /\ new.successes = 0
        /\ new.status = H!AfterFailure(H!Known(q), n)
    BY <2>1, <2>5
  <2>7. ~(0 >= RecoveredAt) BY DepthIs
  <2> HIDE DEF new
  <2> QED BY <1>2, <1>3, <1>5, <2>2, <2>3, <2>4, <2>5, <2>6, <2>7 DEF H!Failure, H!Outcomes
<1> QED BY <1>4, <1>5

LEMMA HealthNext ==
  ASSUME HealthInv, [H!Next]_healthVars
  PROVE  HealthInv' /\ [\A p \in Providers : H!ByStreak(p)]_healthVars
<1> USE DEF HealthInv, H!RemembersWhatWasTold
<1>0. UNCHANGED <<hHealth, hRecent>> => StreaksKnown' /\ \A p \in Providers : H!ByStreak(p)
  BY DEF StreaksKnown, StreakOf, H!ByStreak
<1>1. CASE H!Startup
  <2>1. UNCHANGED <<hHealth, hSnapshot, hRecent>> BY <1>1 DEF H!Startup
  <2>2. CASE UNCHANGED <<hReported, hTold, hUnsaid>> BY <1>0, <1>1, <2>1, <2>2
  <2>3. CASE /\ hReported' = [p \in Providers |-> [status |-> hHealth[p].status, age |-> 0]]
             /\ \/ hTold' = [p \in Providers |-> hHealth[p].status] /\ UNCHANGED hUnsaid
                \/ hUnsaid' = TRUE /\ UNCHANGED hTold
    BY <1>0, <1>1, <2>1, <2>3
  <2> QED BY <1>1, <2>2, <2>3 DEF H!Startup
<1>2. CASE H!Look BY <1>0, <1>2 DEF H!Look
<1>3. CASE H!Tick
  <2>1. hReported' = [p \in Providers |->
                        [hReported[p] EXCEPT !.age = H!AtMost(@ + 1, Repeat)]]
        /\ UNCHANGED <<hPhase, hHealth, hSnapshot, hTold, hUnsaid, hRecent>>
    BY <1>3 DEF H!Tick
  <2>2. ASSUME NEW p \in Providers
        PROVE  /\ hReported'[p].status = hReported[p].status
               /\ hReported'[p] \in [status : H!Statuses \cup {H!Unseen}, age : Nat]
    <3>1. hReported[p] \in [status : H!Statuses \cup {H!Unseen}, age : Nat] OBVIOUS
    <3>2. hReported[p].age + 1 \in Nat /\ Repeat \in Nat BY <3>1, HealthAssumption
    <3>4. H!AtMost(hReported[p].age + 1, Repeat) \in Nat BY <3>2, CountsCapped
    <3>3. hReported'[p] = [hReported[p] EXCEPT !.age = H!AtMost(@ + 1, Repeat)] BY <2>1
    <3> QED BY <3>1, <3>3, <3>4
  <2> QED BY <1>0, <2>1, <2>2
<1>4. ASSUME NEW q \in Providers, H!Probe(q)
      PROVE  HealthInv' /\ \A p \in Providers : H!ByStreak(p)
  <2>1. PICK verdict \in H!ProbeStatuses :
          /\ hHealth' = [hHealth EXCEPT ![q] =
                            [status |-> verdict,
                             failures |-> IF verdict = "healthy" THEN 0 ELSE 1,
                             successes |-> IF verdict = "healthy" THEN 1 ELSE 0]]
          /\ H!Came(q, IF verdict = "healthy" THEN "good" ELSE "bad")
    BY <1>4 DEF H!Probe
  <2>2. /\ hHealth[q].status = H!Unseen /\ hPhase = "probing"
        /\ UNCHANGED <<hReported, hSnapshot, hTold, hUnsaid>>
    BY <1>4 DEF H!Probe
  <2>3. verdict \in H!Statuses /\ verdict # H!Unseen BY StatusesAre
  <2>4. hHealth' \in [Providers -> [status : H!Statuses \cup {H!Unseen},
                                    failures : Nat, successes : Nat]]
    BY <2>1, <2>3
  <2>5. \A p \in Providers : H!ByStreak(p) BY <2>2 DEF H!ByStreak
  <2>6. StreaksKnown'
    <3> DEFINE outcome == IF verdict = "healthy" THEN "good" ELSE "bad"
               row == Before(outcome, hRecent[q])
    <3>1. hRecent' = [hRecent EXCEPT ![q] = row] BY <2>1 DEF H!Came, Before
    <3>2. outcome \in {"good", "bad"} OBVIOUS
    <3>3. \A i \in 1..H!Depth : hRecent[q][i] = H!Unseen BY <2>2 DEF StreaksKnown, StreakOf
    <3>4. \A i \in 1..H!Depth : row[i] = IF i = 1 THEN outcome ELSE H!Unseen
      <4> TAKE i \in 1..H!Depth
      <4>1. i # 1 => i - 1 \in 1..H!Depth BY DepthIs
      <4> QED BY <3>3, <4>1 DEF Before
    <3>5. row \in [1..H!Depth -> H!Outcomes \cup {H!Unseen}]
      BY <3>2, <3>4 DEF Before, H!Outcomes
    <3> HIDE DEF row
    <3>6. hRecent' \in [Providers -> [1..H!Depth -> H!Outcomes \cup {H!Unseen}]]
      BY <3>1, <3>5 DEF StreaksKnown
    <3>7. /\ Counts(hHealth'[q].failures, FailedAt, row, "bad")
          /\ Counts(hHealth'[q].successes, RecoveredAt, row, "good")
      <4>1. /\ 1 \in 1..H!Depth
            /\ 1 < FailedAt => 2 \in 1..H!Depth
            /\ 1 < RecoveredAt => 2 \in 1..H!Depth
        BY DepthIs
      <4>2. CASE verdict = "healthy"
        <5>1. hHealth'[q].failures = 0 /\ hHealth'[q].successes = 1 BY <2>1, <4>2
        <5>2. row[1] = "good" /\ (1 < RecoveredAt => row[2] = H!Unseen) BY <3>4, <4>1, <4>2
        <5> QED BY <5>1, <5>2, DepthIs DEF Counts, H!Unseen
      <4>3. CASE verdict # "healthy"
        <5>1. hHealth'[q].failures = 1 /\ hHealth'[q].successes = 0 BY <2>1, <4>3
        <5>2. row[1] = "bad" /\ (1 < FailedAt => row[2] = H!Unseen) BY <3>4, <4>1, <4>3
        <5> QED BY <5>1, <5>2, DepthIs DEF Counts, H!Unseen
      <4> QED BY <4>2, <4>3
    <3>8. \A p \in Providers : StreakOf(p)'
      <4> TAKE p \in Providers
      <4>1. CASE p = q
        <5>1. hHealth'[q].status = verdict BY <2>1
        <5>2. hRecent'[q] = row BY <3>1 DEF StreaksKnown
        <5> QED BY <2>3, <3>7, <4>1, <5>1, <5>2 DEF StreakOf
      <4>2. CASE p # q BY <2>1, <3>1, <4>2 DEF StreaksKnown, StreakOf
      <4> QED BY <4>1, <4>2
    <3> QED BY <3>6, <3>8 DEF StreaksKnown
  <2>7. H!RemembersWhatWasTold' BY <2>2
  <2> QED BY <2>2, <2>4, <2>5, <2>6, <2>7
<1>5. ASSUME NEW q \in Providers, H!Success(q) \/ H!Failure(q)
      PROVE  HealthInv' /\ \A p \in Providers : H!ByStreak(p)
  BY <1>5, CountedOnce
<1>6. ASSUME NEW q \in Providers, H!SaysNothing(q)
      PROVE  HealthInv' /\ \A p \in Providers : H!ByStreak(p)
  <2>1. hSnapshot' = [hSnapshot EXCEPT ![q] = H!Unseen]
        /\ UNCHANGED <<hPhase, hHealth, hTold, hUnsaid, hRecent>>
    BY <1>6 DEF H!SaysNothing, H!Observed
  <2>2. CASE UNCHANGED hReported BY <1>0, <2>1, <2>2
  <2>3. CASE /\ hReported' = [hReported EXCEPT ![q] = [status |-> hSnapshot[q], age |-> 0]]
             /\ hSnapshot[q] \in H!Good
    <3>1. \A p \in Providers : hReported'[p] = IF p = q THEN [status |-> hSnapshot[q], age |-> 0]
                                               ELSE hReported[p]
      BY <2>3
    <3>2. hReported' \in [Providers -> [status : H!Statuses \cup {H!Unseen}, age : Nat]]
      BY <2>3
    <3> QED BY <1>0, <2>1, <2>3, <3>1, <3>2
  <2> QED BY <1>6, <2>2, <2>3 DEF H!SaysNothing, H!Silent, H!Remember
<1>7. ASSUME NEW q \in Providers, H!Delivered(q)
      PROVE  HealthInv' /\ \A p \in Providers : H!ByStreak(p)
  BY <1>0, <1>7 DEF H!Delivered, H!Observed, H!Remember
<1>8. ASSUME NEW q \in Providers, H!Lost(q)
      PROVE  HealthInv' /\ \A p \in Providers : H!ByStreak(p)
  BY <1>0, <1>8 DEF H!Lost, H!Observed
<1>9. CASE UNCHANGED healthVars BY <1>0, <1>9 DEF healthVars
<1> QED BY <1>1, <1>2, <1>3, <1>4, <1>5, <1>6, <1>7, <1>8, <1>9 DEF H!Next

LEMMA HealthInit == PartsInit => HealthInv
<1> SUFFICES ASSUME PartsInit PROVE HealthInv OBVIOUS
<1>1. H!Init BY DEF PartsInit
<1>2. StreaksKnown
  <2>1. 1 \in 1..H!Depth BY DepthIs
  <2>2. hRecent = [p \in Providers |-> [i \in 1..H!Depth |-> H!Unseen]]
    BY <1>1 DEF H!Init
  <2>3. \A p \in Providers : hHealth[p].failures = 0 /\ hHealth[p].successes = 0
    BY <1>1 DEF H!Init
  <2>4. ASSUME NEW p \in Providers PROVE StreakOf(p)
    <3>1. hRecent[p][1] = H!Unseen BY <2>1, <2>2
    <3>2. \A i \in 1..H!Depth : hRecent[p][i] = H!Unseen BY <2>2
    <3> QED BY <2>3, <3>1, <3>2, DepthIs DEF StreakOf, Counts, H!Unseen
  <2> QED BY <2>2, <2>4 DEF StreaksKnown
<1> QED BY <1>1, <1>2 DEF H!Init, HealthInv, H!RemembersWhatWasTold, H!Unseen

(* A provider is written off, degraded or declared healthy by a streak of    *)
(* outcomes only, and always by a full one, for any thresholds: the counters *)
(* never say more, or less, than the calls did (monitor.py).                *)
THEOREM VerdictsTakeStreaks == PartsSpec => StreaksDecide
<1>1. HealthInv /\ [PartsNext]_all => HealthInv' /\ [\A p \in Providers : H!ByStreak(p)]_healthVars
  BY HealthSteps, HealthNext
<1> QED BY <1>1, HealthInit, PTL DEF PartsSpec, StreaksDecide

(* What is remembered as told is what the operator last heard.               *)
THEOREM ToldIsRemembered == PartsSpec => []H!RemembersWhatWasTold
<1>1. HealthInv /\ [PartsNext]_all => HealthInv' BY HealthSteps, HealthNext
<1>2. HealthInv => H!RemembersWhatWasTold BY DEF HealthInv
<1> QED BY <1>1, <1>2, HealthInit, PTL DEF PartsSpec

(***************************************************************************)
(* The supervisor                                                           *)
(***************************************************************************)
LEMMA SupervisorBegins == PartsInit => V!Init
BY DEF PartsInit

LEMMA SupervisorSteps == [PartsNext]_all => [V!Next]_supervisorVars
BY DEF PartsNext, OthersStill, Still, all

SupervisorInv == V!SafeStopIsFinal /\ vRestarts \in [Workers -> Nat]

LEMMA SupervisorInit == ASSUME V!Init PROVE SupervisorInv
BY SupervisorAssumption DEF V!Init, V!SafeStopIsFinal, SupervisorInv

LEMMA SupervisorNext ==
  ASSUME SupervisorInv, [V!Next]_supervisorVars
  PROVE  SupervisorInv'
<1> USE SupervisorAssumption DEF SupervisorInv, V!SafeStopIsFinal
<1>1. CASE V!Start BY <1>1 DEF V!Start
<1>2. CASE V!Wake BY <1>2 DEF V!Wake
<1>3. CASE V!Stopped BY <1>3 DEF V!Stopped
<1>4. CASE V!Again BY <1>4 DEF V!Again
<1>5. CASE V!Shutdown BY <1>5 DEF V!Shutdown
<1>6. ASSUME NEW w \in Workers, V!Ends(w) PROVE SupervisorInv'
  <2>1. vPc # "returned" BY <1>6 DEF V!Ends, V!Running, V!Nothing
  <2> QED BY <1>6, <2>1 DEF V!Ends
<1>7. ASSUME NEW w \in Workers, V!Handle(w) PROVE SupervisorInv'
  <2>1. vPc = "handling" /\ ~vBroken BY <1>7 DEF V!Handle
  <2>2. CASE vTasks[w] \in {"ended", "cancelled"} BY <1>7, <2>1, <2>2 DEF V!Handle
  <2>3. CASE vTasks[w] \notin {"ended", "cancelled"} /\ V!Fatal(w)
    BY <1>7, <2>1, <2>3 DEF V!Handle, V!SafeStop
  <2>4. CASE vTasks[w] \notin {"ended", "cancelled"} /\ ~V!Fatal(w)
    <3>1. ~vBroken' BY <1>7, <2>1, <2>4 DEF V!Handle, V!Fatal
    <3>2. V!Restart(w, V!Without(vTasks, {w})) \/ V!GiveUp(w, V!Without(vTasks, {w}))
      BY <1>7, <2>4 DEF V!Handle
    <3> QED BY <2>1, <3>1, <3>2 DEF V!Restart, V!GiveUp
  <2> QED BY <2>2, <2>3, <2>4
<1>8. CASE UNCHANGED supervisorVars BY <1>8 DEF supervisorVars, V!Nothing
<1> QED BY <1>1, <1>2, <1>3, <1>4, <1>5, <1>6, <1>7, <1>8 DEF V!Next

(* A failure of the database stops every worker for good, whoever ends at    *)
(* the same time, and restarts stay within their limit: for any set of       *)
(* workers (Supervisor._handle_failure, _safe_stop, shutdown).              *)
THEOREM SafeStopHolds == PartsSpec => []SafeStopIsFinal
<1>1. PartsInit => SupervisorInv BY SupervisorBegins, SupervisorInit
<1>2. SupervisorInv /\ [PartsNext]_all => SupervisorInv' BY SupervisorSteps, SupervisorNext
<1>3. SupervisorInv => SafeStopIsFinal BY DEF SupervisorInv, SafeStopIsFinal
<1> QED BY <1>1, <1>2, <1>3, PTL DEF PartsSpec

(***************************************************************************)
(* The calendar of a task                                                   *)
(***************************************************************************)
(* What a task and a zone of the settings are like. *)
Clock ==
  /\ tTask \in Configured /\ T!Valid(tTask) /\ tTask.mode \in {"daily", "weekly"}
  /\ tZone \in Zones

LEMMA ClockIs ==
  ASSUME Clock
  PROVE  /\ Day \in Nat \ {0} /\ Week \in Nat \ {0}
         /\ tTask.hour \in 0..(Day - 1) /\ tTask.step \in Nat \ {0}
         /\ tTask.mode = "weekly" => tTask.weekday \in 1..Week
         /\ tZone.change \in Nat /\ tZone.before \in Int /\ tZone.after \in Int
         /\ -Day < tZone.before /\ tZone.before < Day /\ -Day < tZone.after /\ tZone.after < Day
         /\ -Day < tZone.after - tZone.before /\ tZone.after - tZone.before < Day
<1>1. /\ tTask.hour \in -1..(Day - 1) /\ tTask.step \in Nat \ {0}
      /\ tTask.weekday \in {-1} \cup 1..Week
  BY TimingAssumption DEF Clock
<1>2. tTask.hour # -1 /\ (tTask.mode = "weekly" => tTask.weekday # -1)
  BY DEF Clock, T!Valid, T!Absent
<1> QED BY <1>1, <1>2, TimingAssumption DEF Clock

(* Days are one after the other. *)
LEMMA DaysAreApart ==
  ASSUME Day \in Nat \ {0}, NEW d \in Int, NEW e \in Int, d < e
  PROVE  d * Day \in Int /\ e * Day \in Int /\ d * Day + Day <= e * Day
<1>1. (d + 1) * Day <= e * Day OBVIOUS
<1>2. (d + 1) * Day = d * Day + Day OBVIOUS
<1> QED BY <1>1, <1>2

(* The day of an hour. *)
LEMMA DayOfHour ==
  ASSUME Day \in Nat \ {0}, NEW x \in Int
  PROVE  /\ x \div Day \in Int
         /\ (x \div Day) * Day <= x /\ x < (x \div Day) * Day + Day
         /\ \A d \in Int : d * Day <= x /\ x < d * Day + Day => x \div Day = d
<1>1. /\ x \div Day \in Int
      /\ (x \div Day) * Day <= x /\ x < (x \div Day) * Day + Day
  OBVIOUS
<1>2. ASSUME NEW d \in Int, d * Day <= x, x < d * Day + Day
      PROVE  x \div Day = d
  <2>1. ~(d < x \div Day) BY <1>1, <1>2, DaysAreApart
  <2>2. ~(x \div Day < d) BY <1>1, <1>2, DaysAreApart
  <2> QED BY <1>1, <2>1, <2>2
<1> QED BY <1>1, <1>2

(* The hour a local time is read as, with fold or without.                   *)
Latest == T!Later(tZone.before, tZone.after)
Instant(x) == IF x < tZone.change + Latest THEN x - tZone.before ELSE x - tZone.after

LEMMA FoldIs ==
  ASSUME Clock, NEW x \in Int, NEW fold \in {0, 1}
  PROVE  T!Fold(x, fold) =
           IF x < tZone.change + tZone.before /\ x < tZone.change + tZone.after
           THEN x - tZone.before
           ELSE IF x >= tZone.change + tZone.before /\ x >= tZone.change + tZone.after
           THEN x - tZone.after
           ELSE IF fold = 0 THEN x - tZone.before ELSE x - tZone.after
<1> DEFINE c == tZone.change
           b == tZone.before
           a == tZone.after
           right == {t \in {x - b, x - a} : T!Local(t) = x}
<1>1. c \in Int /\ b \in Int /\ a \in Int BY ClockIs
<1>2. T!Fold(x, fold) = IF Cardinality(right) = 1 THEN CHOOSE t \in right : TRUE
                        ELSE IF fold = 0 THEN x - b ELSE x - a
  BY DEF T!Fold, T!Cardinality, Cardinality, T!IsFiniteSet, IsFiniteSet
<1>3. \A t \in Int : T!Local(t) = IF t < c THEN t + b ELSE t + a
  BY DEF T!Local, T!Offset
<1>4. ASSUME NEW t, right = {t} PROVE T!Fold(x, fold) = t
  BY <1>2, <1>4, FS_Singleton
<1>5. ASSUME right = {} PROVE T!Fold(x, fold) = IF fold = 0 THEN x - b ELSE x - a
  BY <1>2, <1>5, FS_EmptySet
<1>6. ASSUME right = {x - b, x - a}, a # b
      PROVE  T!Fold(x, fold) = IF fold = 0 THEN x - b ELSE x - a
  <2>1. Cardinality(right) = 2
    <3>1. x - b # x - a BY <1>1, <1>6
    <3>2. Cardinality({x - b}) = 1 /\ IsFiniteSet({x - b}) BY FS_Singleton
    <3>3. right = {x - b} \cup {x - a} BY <1>6
    <3> QED BY <3>1, <3>2, <3>3, FS_AddElement
  <2> QED BY <1>2, <2>1
<1>7. (x - b \in right <=> x - b < c \/ a = b) /\ (x - a \in right <=> x - a >= c \/ a = b)
  <2>1. x - b \in Int /\ x - a \in Int BY <1>1
  <2> QED BY <1>1, <1>3, <2>1
<1> HIDE DEF right
<1>8. right \in SUBSET {x - b, x - a} BY DEF right
<1>9. CASE a = b
  <2>1. right = {x - b} BY <1>7, <1>8, <1>9
  <2> QED BY <1>1, <1>4, <1>9, <2>1
<1>10. CASE a # b
  <2>1. CASE x - b < c /\ x - a < c
    <3>1. x - b \in right /\ x - a \notin right BY <1>1, <1>7, <1>10, <2>1
    <3>2. right = {x - b} BY <1>8, <3>1
    <3>3. T!Fold(x, fold) = x - b BY <1>4, <3>2
    <3> QED BY <1>1, <2>1, <3>3
  <2>2. CASE x - b >= c /\ x - a >= c
    <3>1. x - a \in right /\ x - b \notin right BY <1>1, <1>7, <1>10, <2>2
    <3>2. right = {x - a} BY <1>8, <3>1
    <3>3. T!Fold(x, fold) = x - a BY <1>4, <3>2
    <3> QED BY <1>1, <2>2, <3>3
  <2>3. CASE x - b < c /\ x - a >= c
    <3>1. right = {x - b, x - a} BY <1>1, <1>7, <1>8, <1>10, <2>3
    <3> QED BY <1>1, <1>6, <1>10, <2>3, <3>1
  <2>4. CASE x - b >= c /\ x - a < c
    <3>1. right = {} BY <1>1, <1>7, <1>8, <1>10, <2>4
    <3> QED BY <1>1, <1>5, <2>4, <3>1
  <2> QED BY <1>1, <2>1, <2>2, <2>3, <2>4
<1> QED BY <1>9, <1>10

(* local_run_instant: the offset before the change, up to the hour at which  *)
(* no clock shows that time any more.                                       *)
LEMMA InstantIs ==
  ASSUME Clock, NEW d \in Int
  PROVE  T!LocalRunInstant(d, tTask.hour) = Instant(d * Day + tTask.hour)
<1> DEFINE c == tZone.change
           b == tZone.before
           a == tZone.after
           x == d * Day + tTask.hour
           first == T!Fold(x, 0)
           second == T!Fold(x, 1)
<1>1. c \in Int /\ b \in Int /\ a \in Int /\ tTask.hour \in Int /\ Day \in Int BY ClockIs
<1>2. x \in Int BY <1>1
<1>3. T!LocalRunInstant(d, tTask.hour) =
        IF first = second THEN first
        ELSE IF T!Local(first) # x THEN T!Later(first, second) ELSE T!Earlier(first, second)
  BY DEF T!LocalRunInstant
<1> HIDE DEF x
<1>4. first = IF x < c + b THEN x - b ELSE IF x >= c + a THEN x - a ELSE x - b
  BY <1>1, <1>2, FoldIs
<1>5. second = IF x < c + b /\ x < c + a THEN x - b ELSE x - a
  BY <1>1, <1>2, FoldIs
<1>6. \A t \in Int : T!Local(t) = IF t < c THEN t + b ELSE t + a
  BY DEF T!Local, T!Offset
<1> HIDE DEF first, second
<1>7. first \in Int /\ second \in Int BY <1>1, <1>2, <1>4, <1>5
<1>8. T!Local(first) = IF first < c THEN first + b ELSE first + a BY <1>6, <1>7
<1>9. T!LocalRunInstant(d, tTask.hour) = IF x < c + Latest THEN x - b ELSE x - a
  BY <1>1, <1>2, <1>3, <1>4, <1>5, <1>7, <1>8 DEF T!Later, T!Earlier, Latest
<1> QED BY <1>9 DEF Instant, x

(* The run of a day. *)
Run(d) == Instant(d * Day + tTask.hour)

LEMMA RunIs ==
  ASSUME Clock, NEW d \in Int
  PROVE  /\ d * Day \in Int /\ Run(d) \in Int /\ Latest \in Int
         /\ tZone.before <= Latest /\ tZone.after <= Latest
         /\ Latest = tZone.before \/ Latest = tZone.after
         /\ Run(d) = IF d * Day + tTask.hour < tZone.change + Latest
                     THEN d * Day + tTask.hour - tZone.before
                     ELSE d * Day + tTask.hour - tZone.after
         /\ d * Day - Latest <= Run(d)
<1>1. /\ tZone.change \in Int /\ tZone.before \in Int /\ tZone.after \in Int
      /\ tTask.hour \in Int /\ tTask.hour >= 0 /\ Day \in Int
  BY ClockIs
<1>2. d * Day \in Int BY <1>1
<1>3. /\ Latest \in Int /\ tZone.before <= Latest /\ tZone.after <= Latest
      /\ Latest = tZone.before \/ Latest = tZone.after
  BY <1>1 DEF Latest, T!Later
<1>4. Run(d) = IF d * Day + tTask.hour < tZone.change + Latest
               THEN d * Day + tTask.hour - tZone.before
               ELSE d * Day + tTask.hour - tZone.after
  BY <1>1, <1>2, <1>3 DEF Run, Instant
<1> QED BY <1>1, <1>2, <1>3, <1>4

LEMMA LocalIs ==
  ASSUME Clock, NEW t \in Int
  PROVE  /\ T!Local(t) = IF t < tZone.change THEN t + tZone.before ELSE t + tZone.after
         /\ T!Local(t) \in Int
         /\ T!Date(t) = T!Local(t) \div Day /\ T!Date(t) \in Int
         /\ T!Date(t) * Day <= T!Local(t) /\ T!Local(t) < T!Date(t) * Day + Day
         /\ T!Date(t) * Day \in Int
         /\ \A d \in Int : d * Day <= T!Local(t) /\ T!Local(t) < d * Day + Day => T!Date(t) = d
<1>1. T!Local(t) = IF t < tZone.change THEN t + tZone.before ELSE t + tZone.after
  BY DEF T!Local, T!Offset
<1>2. T!Local(t) \in Int BY <1>1, ClockIs
<1>3. T!Date(t) = T!Local(t) \div Day BY DEF T!Date
<1>4. Day \in Nat \ {0} BY ClockIs
<1>5. T!Date(t) \in Int BY <1>2, <1>3, <1>4, DayOfHour
<1> QED BY <1>1, <1>2, <1>3, <1>4, <1>5, DayOfHour

(* The run of a later day is later. *)
LEMMA RunGrows ==
  ASSUME Clock, NEW d \in Int, NEW e \in Int, d < e
  PROVE  Run(d) < Run(e)
<1>1. d * Day \in Int /\ e * Day \in Int /\ d * Day + Day <= e * Day BY ClockIs, DaysAreApart
<1>2. /\ tZone.before \in Int /\ tZone.after \in Int /\ tZone.change \in Int
      /\ tTask.hour \in Int /\ Day \in Nat
      /\ -Day < tZone.after - tZone.before /\ tZone.after - tZone.before < Day
  BY ClockIs
<1>3. Latest \in Int BY RunIs
<1>4. Run(d) = IF d * Day + tTask.hour < tZone.change + Latest
               THEN d * Day + tTask.hour - tZone.before
               ELSE d * Day + tTask.hour - tZone.after
  BY RunIs
<1>5. Run(e) = IF e * Day + tTask.hour < tZone.change + Latest
               THEN e * Day + tTask.hour - tZone.before
               ELSE e * Day + tTask.hour - tZone.after
  BY RunIs
<1> QED BY <1>1, <1>2, <1>3, <1>4, <1>5

(* What the night leaves out is of one of two days.                          *)
LEMMA LeftOutIs ==
  ASSUME Clock, NEW d \in Int, d * Day + tTask.hour \in T!LeftOut
  PROVE  d \in T!Date(tZone.change - 1)..T!Date(tZone.change)
<1> DEFINE c == tZone.change
           b == tZone.before
           a == tZone.after
           x == d * Day + tTask.hour
<1>1. /\ c \in Int /\ b \in Int /\ a \in Int /\ tTask.hour \in 0..(Day - 1)
      /\ Day \in Nat \ {0} /\ d * Day \in Int
  BY ClockIs, RunIs
<1>2. c + b <= x /\ x <= c + a - 1 BY <1>1 DEF T!LeftOut
<1>3. T!Local(c - 1) = c - 1 + b /\ T!Local(c) = c + a
  <2>1. T!Local(c - 1) = IF c - 1 < c THEN c - 1 + b ELSE c - 1 + a
    BY <1>1 DEF T!Local, T!Offset
  <2>2. T!Local(c) = IF c < c THEN c + b ELSE c + a BY DEF T!Local, T!Offset
  <2> QED BY <1>1, <2>1, <2>2
<1>4. ~(d < T!Date(c - 1))
  <2>1. /\ T!Date(c - 1) \in Int /\ T!Date(c - 1) * Day \in Int
        /\ T!Date(c - 1) * Day <= c - 1 + b
    <3>1. c - 1 \in Int BY <1>1
    <3>2. /\ T!Date(c - 1) \in Int /\ T!Date(c - 1) * Day \in Int
          /\ T!Date(c - 1) * Day <= T!Local(c - 1)
      BY <3>1, LocalIs
    <3> QED BY <1>3, <3>2
  <2>2. ASSUME d < T!Date(c - 1) PROVE d * Day + Day <= T!Date(c - 1) * Day
    BY <1>1, <2>1, <2>2, DaysAreApart
  <2> QED BY <1>1, <1>2, <2>1, <2>2
<1>5. ~(T!Date(c) < d)
  <2>1. /\ T!Date(c) \in Int /\ T!Date(c) * Day \in Int
        /\ c + a < T!Date(c) * Day + Day
    BY <1>1, <1>3, LocalIs
  <2>2. ASSUME T!Date(c) < d PROVE T!Date(c) * Day + Day <= d * Day
    BY <1>1, <2>1, <2>2, DaysAreApart
  <2> QED BY <1>1, <1>2, <2>1, <2>2
<1>6. T!Date(c - 1) \in Int /\ T!Date(c) \in Int
  <2>1. c - 1 \in Int BY <1>1
  <2> QED BY <1>1, <2>1, LocalIs
<1> QED BY <1>4, <1>5, <1>6

(* A clock shows the hour of the task at its run, or never on that day.      *)
LEMMA RunIsShown ==
  ASSUME Clock, NEW d \in Int
  PROVE  /\ \/ T!Local(Run(d)) = d * Day + tTask.hour
            \/ /\ d * Day + tTask.hour \in T!LeftOut
               /\ T!Local(Run(d)) = d * Day + tTask.hour + tZone.after - tZone.before
               /\ tZone.after > tZone.before
         /\ \A t \in Int : T!Local(t) = d * Day + tTask.hour
                             => Run(d) <= t /\ T!Local(Run(d)) = d * Day + tTask.hour
<1> DEFINE c == tZone.change
           b == tZone.before
           a == tZone.after
           x == d * Day + tTask.hour
<1>1. /\ c \in Int /\ b \in Int /\ a \in Int /\ x \in Int
  <2>1. d * Day \in Int BY RunIs
  <2>2. /\ c \in Int /\ b \in Int /\ a \in Int /\ tTask.hour \in Int BY ClockIs
  <2> QED BY <2>1, <2>2
<1>2. /\ Run(d) = IF x < c + Latest THEN x - b ELSE x - a
      /\ Run(d) \in Int /\ Latest \in Int /\ b <= Latest /\ a <= Latest
      /\ Latest = b \/ Latest = a
  <2>1. Run(d) \in Int /\ Latest \in Int /\ b <= Latest /\ a <= Latest BY RunIs
  <2>2. Run(d) = IF x < c + Latest THEN x - b ELSE x - a
    BY <1>1, <2>1 DEF Run, Instant
  <2>3. Latest = b \/ Latest = a BY RunIs
  <2> QED BY <2>1, <2>2, <2>3
<1>3. \A t \in Int : T!Local(t) = IF t < c THEN t + b ELSE t + a BY LocalIs
<1>4. x \in T!LeftOut <=> c + b <= x /\ x <= c + a - 1 BY <1>1 DEF T!LeftOut
<1>5. T!Local(Run(d)) = IF Run(d) < c THEN Run(d) + b ELSE Run(d) + a BY <1>2, <1>3
<1> HIDE DEF x
<1>6. \/ T!Local(Run(d)) = x
      \/ x \in T!LeftOut /\ T!Local(Run(d)) = x + a - b /\ a > b
  BY <1>1, <1>2, <1>4, <1>5
<1>7. ASSUME NEW t \in Int, T!Local(t) = x PROVE Run(d) <= t /\ T!Local(Run(d)) = x
  BY <1>1, <1>2, <1>3, <1>5, <1>7
<1> QED BY <1>6, <1>7 DEF x

(* It is on its day, but where the night leaves out the end of a day.        *)
LEMMA RunOnItsDay ==
  ASSUME Clock, ~T!NightChange, NEW d \in Int
  PROVE  T!Date(Run(d)) = d
<1> DEFINE x == d * Day + tTask.hour
<1>1. /\ tZone.before \in Int /\ tZone.after \in Int /\ Day \in Nat \ {0}
      /\ tTask.hour \in 0..(Day - 1) /\ d * Day \in Int /\ Run(d) \in Int
  BY ClockIs, RunIs
<1>2. x \in T!LeftOut => tTask.hour + tZone.after - tZone.before < Day
  BY <1>1, LeftOutIs DEF T!NightChange
<1>3. d * Day <= T!Local(Run(d)) /\ T!Local(Run(d)) < d * Day + Day
  BY <1>1, <1>2, RunIsShown
<1> QED BY <1>1, <1>3, LocalIs

(* Days that have not begun, and days that are over. *)
LEMMA DayAhead ==
  ASSUME Clock, NEW d \in Int, NEW t \in Int
  PROVE  /\ t < d * Day - Latest => t < Run(d) /\ T!Date(t) < d
         /\ d * Day - T!Earlier(tZone.before, tZone.after) <= t => d <= T!Date(t)
         /\ T!Date(t) + 2 <= d => t < Run(d)
<1>1. /\ tZone.change \in Int /\ tZone.before \in Int /\ tZone.after \in Int
      /\ Day \in Nat \ {0}
      /\ -Day < tZone.after - tZone.before /\ tZone.after - tZone.before < Day
  BY ClockIs
<1>2. /\ d * Day \in Int /\ Run(d) \in Int /\ Latest \in Int /\ d * Day - Latest <= Run(d)
      /\ tZone.before <= Latest /\ tZone.after <= Latest
      /\ Latest = tZone.before \/ Latest = tZone.after
  BY RunIs
<1>3. /\ T!Local(t) = IF t < tZone.change THEN t + tZone.before ELSE t + tZone.after
      /\ T!Date(t) \in Int /\ T!Date(t) * Day \in Int /\ T!Local(t) \in Int
      /\ T!Date(t) * Day <= T!Local(t) /\ T!Local(t) < T!Date(t) * Day + Day
  BY LocalIs
<1>4. ASSUME t < d * Day - Latest PROVE T!Date(t) < d
  <2>1. T!Date(t) * Day < d * Day BY <1>1, <1>2, <1>3, <1>4
  <2>2. d <= T!Date(t) => d * Day <= T!Date(t) * Day
    BY <1>1, <1>3, DaysAreApart
  <2> QED BY <1>2, <1>3, <2>1, <2>2
<1>5. ASSUME d * Day - T!Earlier(tZone.before, tZone.after) <= t PROVE d <= T!Date(t)
  <2>1. d * Day <= T!Local(t) BY <1>1, <1>2, <1>3, <1>5 DEF T!Earlier
  <2>2. T!Date(t) < d => T!Date(t) * Day + Day <= d * Day
    BY <1>1, <1>3, DaysAreApart
  <2> QED BY <1>1, <1>2, <1>3, <2>1, <2>2
<1>6. ASSUME T!Date(t) + 2 <= d PROVE t < Run(d)
  <2>1. (T!Date(t) + 1) * Day = T!Date(t) * Day + Day BY <1>1, <1>3
  <2>2. (T!Date(t) + 1) * Day + Day <= d * Day BY <1>1, <1>3, <1>6, DaysAreApart
  <2> QED BY <1>1, <1>2, <1>3, <2>1, <2>2
<1>7. t < d * Day - Latest => t < Run(d) BY <1>2
<1> QED BY <1>4, <1>5, <1>6, <1>7

(* Of days among which one is ahead, the first one that is.                  *)
LEMMA FirstAheadIs ==
  ASSUME Clock, tNow \in Int, NEW first \in Int, NEW days, days \subseteq Int,
         \A d \in days : d >= first, NEW e \in days, Run(e) > tNow
  PROVE  \E p \in days : /\ T!FirstAhead(days) = Run(p) /\ Run(p) > tNow
                         /\ \A d \in days : Run(d) > tNow => p <= d
<1> DEFINE ahead == {d \in days : Run(d) > tNow}
           N == {n \in Nat : first + n \in ahead}
<1>1. \A d \in days : T!LocalRunInstant(d, tTask.hour) = Run(d) BY InstantIs DEF Run
<1>2. {d \in days : T!LocalRunInstant(d, tTask.hour) > tNow} = ahead BY <1>1
<1>3. N \subseteq Nat /\ N # {}
  <2>1. e \in ahead /\ e \in Int /\ e >= first OBVIOUS
  <2>2. e - first \in Nat /\ first + (e - first) = e BY <2>1
  <2>3. e - first \in N BY <2>1, <2>2
  <2> QED BY <2>3
<1> HIDE DEF ahead, N
<1>4. \E n \in N : \A m \in N : ~(<<m, n>> \in OpToRel(<, Nat))
  BY <1>3, NatLessThanWellFounded, WFMin
<1>5. \A m, n \in Nat : m < n => <<m, n>> \in OpToRel(<, Nat)
  BY Zenon DEF OpToRel
<1>6. PICK n \in N : \A m \in N : ~(<<m, n>> \in OpToRel(<, Nat)) BY <1>4
<1> HIDE DEF OpToRel
<1>7. n \in Nat /\ \A m \in N : n <= m
  <2>1. \A m \in N : ~(m < n) BY <1>3, <1>5, <1>6
  <2>2. n \in Nat /\ N \subseteq Nat BY <1>3
  <2> QED BY <2>1, <2>2
<1>8. first + n \in ahead BY <1>6 DEF N
<1>9. \A d \in ahead : first + n <= d
  <2> SUFFICES ASSUME NEW d \in ahead PROVE first + n <= d OBVIOUS
  <2>1. d \in Int /\ d >= first BY DEF ahead
  <2>2. d - first \in Nat /\ first + (d - first) = d BY <2>1
  <2>3. d - first \in N BY <2>2 DEF N
  <2>4. n <= d - first BY <1>7, <2>3
  <2> QED BY <1>7, <2>1, <2>4
<1>10. ahead \subseteq Int BY DEF ahead
<1>11. T!Min(ahead) \in ahead /\ \A d \in ahead : T!Min(ahead) <= d
  BY <1>8, <1>9, Zenon DEF T!Min
<1>12. T!Min(ahead) \in days /\ Run(T!Min(ahead)) > tNow BY <1>11 DEF ahead
<1>13. T!FirstAhead(days) = Run(T!Min(ahead)) BY <1>1, <1>2, <1>12 DEF T!FirstAhead
<1>14. \A d \in days : Run(d) > tNow => T!Min(ahead) <= d BY <1>11 DEF ahead
<1> QED BY <1>12, <1>13, <1>14

(* Every week has its day.                                                   *)
LEMMA WeekHasDay ==
  ASSUME Week \in Nat \ {0}, NEW q \in Int, NEW w \in 1..Week
  PROVE  \E d \in q..(q + Week - 1) : (d % Week) + 1 = w
<1> DEFINE k == q \div Week
           r == q % Week
           d == IF r <= w - 1 THEN q + (w - 1 - r) ELSE q + (w - 1 - r) + Week
<1>1. k \in Int /\ r \in 0..(Week - 1) /\ q = Week * k + r OBVIOUS
<1>2. \A i \in Int, s \in 0..(Week - 1) : (Week * i + s) % Week = s OBVIOUS
<1>3. w - 1 \in 0..(Week - 1) OBVIOUS
<1> HIDE DEF k, r
<1>4. CASE r <= w - 1
  <2>1. d = Week * k + (w - 1) BY <1>1, <1>4
  <2>2. d % Week = w - 1 BY <1>1, <1>2, <1>3, <2>1
  <2>3. d \in q..(q + Week - 1) BY <1>1, <1>4
  <2> QED BY <2>2, <2>3
<1>5. CASE ~(r <= w - 1)
  <2>1. Week * (k + 1) = Week * k + Week BY <1>1
  <2>2. d = Week * (k + 1) + (w - 1) BY <1>1, <1>5, <2>1
  <2>3. k + 1 \in Int BY <1>1
  <2>4. d % Week = w - 1 BY <1>2, <1>3, <2>2, <2>3
  <2>5. d \in q..(q + Week - 1) BY <1>1, <1>5
  <2> QED BY <2>4, <2>5
<1> QED BY <1>4, <1>5

(* The first day that is looked at. *)
From(last) ==
  IF tTask.mode = "daily" /\ last # -1 THEN T!Date(last) + tTask.step ELSE T!Date(tNow)

(* next_run_at: the first wanted day whose run is ahead.                     *)
LEMMA NextRunIs ==
  ASSUME Clock, tTask.enabled, tNow \in Day..MaxTime, NEW last, last = -1 \/ last \in Day..tNow
  PROVE  \E p \in Int :
           /\ T!NextRun(last) = Run(p) /\ Run(p) > tNow /\ T!Wanted(p) /\ p >= From(last)
           /\ From(last) \in Int
           /\ \A d \in Int : d >= From(last) /\ T!Wanted(d) /\ Run(d) > tNow => p <= d
<1>1. /\ Day \in Nat \ {0} /\ Week \in Nat \ {0} /\ tTask.step \in Nat \ {0}
      /\ -Day < tZone.before /\ -Day < tZone.after /\ tNow \in Int
      /\ tZone.before \in Int /\ tZone.after \in Int
      /\ tZone.before < Day /\ tZone.after < Day
  BY ClockIs
<1>2. /\ MaxDaysAhead \in Nat /\ MaxDaysAhead >= Week + 2
      /\ MaxTime \in Nat /\ MaxTime <= (MaxDaysAhead - 1) * Day
  BY TimingAssumption
<1>3. T!Date(tNow) \in Int /\ (last # -1 => T!Date(last) \in Int)
  <2>1. last # -1 => last \in Int BY <1>1
  <2> QED BY <1>1, <2>1, LocalIs
<1>4. From(last) \in Int BY <1>1, <1>3 DEF From
<1> DEFINE first == From(last)
           D0 == T!DaysFrom(first)
<1>5. D0 = first..(first + MaxDaysAhead - 1) BY DEF T!DaysFrom
<1>6. D0 \subseteq Int /\ \A d \in D0 : d >= first BY <1>2, <1>4, <1>5
<1>7. CASE tTask.mode = "daily"
  <2>1. T!NextRun(last) = T!FirstAhead(D0)
    BY <1>7 DEF T!NextRun, T!NextDailyRun, T!Never, From
  <2>2. \E e \in D0 : Run(e) > tNow
    <3>1. CASE last = -1
      <4>1. first = T!Date(tNow) BY <3>1 DEF From
      <4>2. first + 2 \in D0 BY <1>1, <1>2, <1>4, <1>5
      <4>3. Run(first + 2) > tNow BY <1>1, <1>4, <4>1, DayAhead, RunIs
      <4> QED BY <4>2, <4>3
    <3>2. CASE last # -1
      <4> DEFINE e == first + MaxDaysAhead - 1
      <4>1. last \in Int /\ last >= Day BY <1>1, <3>2
      <4>2. T!Local(last) >= 0
        <5>1. T!Local(last) = IF last < tZone.change THEN last + tZone.before
                              ELSE last + tZone.after
          BY <4>1, LocalIs
        <5> QED BY <1>1, <4>1, <5>1
      <4>3. T!Date(last) >= 0
        <5>1. /\ T!Date(last) \in Int /\ T!Date(last) * Day \in Int
              /\ T!Local(last) \in Int /\ T!Local(last) < T!Date(last) * Day + Day
          BY <4>1, LocalIs
        <5>2. T!Date(last) < 0 => T!Date(last) * Day + Day <= 0 * Day
          BY <1>1, <5>1, DaysAreApart
        <5> QED BY <1>1, <4>2, <5>1, <5>2
      <4>4. first >= 1 BY <1>1, <1>3, <1>7, <3>2, <4>3 DEF From
      <4>5. e \in Int /\ e \in D0 /\ e > MaxDaysAhead - 1
        <5>1. first \in Int BY <1>4
        <5> HIDE DEF D0, first
        <5> QED BY <1>1, <1>2, <1>5, <4>4, <5>1
      <4> HIDE DEF e
      <4>6. /\ (MaxDaysAhead - 1) * Day \in Int /\ e * Day \in Int
            /\ (MaxDaysAhead - 1) * Day + Day <= e * Day
        <5>1. MaxDaysAhead - 1 \in Int BY <1>2
        <5> QED BY <1>1, <4>5, <5>1, DaysAreApart
      <4>7. e * Day - Latest <= Run(e) /\ Run(e) \in Int /\ Latest \in Int
            /\ (Latest = tZone.before \/ Latest = tZone.after)
        BY <4>5, RunIs
      <4>8. Run(e) > tNow BY <1>1, <1>2, <4>6, <4>7
      <4> QED BY <4>5, <4>8
    <3> QED BY <3>1, <3>2
  <2>3. PICK p \in D0 : /\ T!FirstAhead(D0) = Run(p) /\ Run(p) > tNow
                        /\ \A d \in D0 : Run(d) > tNow => p <= d
    BY <1>1, <1>4, <1>6, <2>2, FirstAheadIs
  <2>4. T!Wanted(p) BY <1>7 DEF T!Wanted
  <2>5. \A d \in Int : d >= first /\ Run(d) > tNow => p <= d
    BY <1>2, <1>4, <1>5, <1>6, <2>3
  <2> QED BY <1>4, <1>6, <2>1, <2>3, <2>4, <2>5
<1>8. CASE tTask.mode = "weekly"
  <2> DEFINE days == {d \in D0 : (d % Week) + 1 = tTask.weekday}
  <2>1. first = T!Date(tNow) /\ first \in Int BY <1>3, <1>8 DEF From
  <2>2. T!NextRun(last) = T!FirstAhead(days)
    BY <1>8, <2>1 DEF T!NextRun, T!NextWeeklyRun
  <2>3. \A d : T!Wanted(d) <=> (d % Week) + 1 = tTask.weekday BY <1>8 DEF T!Wanted
  <2>4. tTask.weekday \in 1..Week BY <1>8, ClockIs
  <2>5. \E e \in days : Run(e) > tNow
    <3>1. first + 2 \in Int BY <2>1
    <3>2. PICK e \in (first + 2)..(first + 2 + Week - 1) : (e % Week) + 1 = tTask.weekday
      BY <1>1, <2>4, <3>1, WeekHasDay
    <3>3. e \in Int /\ e \in D0 /\ first + 2 <= e BY <1>1, <1>2, <1>5, <2>1
    <3>4. Run(e) > tNow BY <1>1, <2>1, <3>3, DayAhead, RunIs
    <3> QED BY <3>2, <3>3, <3>4
  <2>6. PICK p \in days : /\ T!FirstAhead(days) = Run(p) /\ Run(p) > tNow
                          /\ \A d \in days : Run(d) > tNow => p <= d
    <3>1. days \subseteq Int /\ \A d \in days : d >= first BY <1>6
    <3> HIDE DEF days, D0, first
    <3> QED BY <1>1, <2>1, <2>5, <3>1, FirstAheadIs
  <2>7. \A d \in Int : d >= first /\ T!Wanted(d) /\ Run(d) > tNow => p <= d
    BY <1>2, <1>5, <1>6, <2>1, <2>3, <2>6
  <2> QED BY <1>4, <1>6, <2>2, <2>3, <2>6, <2>7
<1> QED BY <1>7, <1>8 DEF Clock

(***************************************************************************)
(* The runs of a task                                                       *)
(***************************************************************************)
LEMMA TimingBegins == PartsInit => T!Init
BY DEF PartsInit

LEMMA TimingSteps == [PartsNext]_all => [T!Next]_timingVars
BY DEF PartsNext, OthersStill, Still, all

RunOf == [d \in Int |-> Run(d)]
DateOf == [t \in Int |-> T!Date(t)]
WantedDays == {d \in Int : T!Wanted(d)}

LEMMA SameClock ==
  ASSUME tTask' = tTask, tZone' = tZone
  PROVE  /\ RunOf' = RunOf /\ DateOf' = DateOf /\ WantedDays' = WantedDays
         /\ Latest' = Latest /\ T!Step' = T!Step
         /\ (T!Calendar /\ ~T!NightChange)' = (T!Calendar /\ ~T!NightChange)
<1>1. Latest' = Latest BY DEF Latest, T!Later
<1>2. RunOf' = RunOf BY <1>1 DEF RunOf, Run, Instant
<1>3. DateOf' = DateOf BY DEF DateOf, T!Date, T!Local, T!Offset
<1>4. WantedDays' = WantedDays BY DEF WantedDays, T!Wanted
<1>5. T!Step' = T!Step BY DEF T!Step
<1>6. (T!Calendar /\ ~T!NightChange)' = (T!Calendar /\ ~T!NightChange)
  BY DEF T!Calendar, T!NightChange, T!LeftOut, T!Date, T!Local, T!Offset
<1> QED BY <1>1, <1>2, <1>3, <1>4, <1>5, <1>6

(* What was run was the run of its day. *)
RunsAreRight ==
  \A i \in DOMAIN tRuns :
    /\ tRuns[i].at \in Day..tNow
    /\ DateOf[tRuns[i].at] \in WantedDays /\ tRuns[i].at = RunOf[DateOf[tRuns[i].at]]
RunsInOrder == \A i, j \in DOMAIN tRuns : i < j => tRuns[i].at < tRuns[j].at
KeptApart ==
  \A i, j \in DOMAIN tRuns :
    j = i + 1 /\ tRuns[i].kept => DateOf[tRuns[i].at] + T!Step <= DateOf[tRuns[j].at]
LastIsKnown ==
  \A i \in DOMAIN tRuns : i = Len(tRuns) /\ tRuns[i].kept => tAnchor = tRuns[i].at

(* What is planned is the run of a wanted day, later than all runs so far,   *)
(* and since the process began no day before it was left out.                *)
PlannedDay == DateOf[tPlanned]
PlannedIsRight ==
  /\ tPlanned \in Int /\ tNow <= tPlanned
  /\ PlannedDay \in WantedDays /\ tPlanned = RunOf[PlannedDay]
  /\ \A i \in DOMAIN tRuns :
       /\ tRuns[i].at < tPlanned
       /\ i = Len(tRuns) /\ tRuns[i].kept => DateOf[tRuns[i].at] + T!Step <= PlannedDay
NoneLeftOut ==
  \A d \in WantedDays :
    tSince < d * Day - Latest /\ d + T!Step - 1 < PlannedDay
      => \E i \in DOMAIN tRuns : DateOf[tRuns[i].at] \in d..(d + T!Step - 1)

TimingTypes ==
  /\ tTask \in Configured /\ T!Valid(tTask) /\ tZone \in Zones
  /\ tNow \in Day..MaxTime /\ tUp \in BOOLEAN /\ tSince \in Int
  /\ tAnchor = -1 \/ tAnchor \in Day..tNow
  /\ tRuns \in Seq([at : Int, kept : BOOLEAN])
CalendarIsKept ==
  /\ RunsAreRight /\ RunsInOrder /\ KeptApart /\ LastIsKnown
  /\ tUp => PlannedIsRight /\ NoneLeftOut
TimingInv == TimingTypes /\ (T!Calendar /\ ~T!NightChange => CalendarIsKept)

LEMMA CalendarIsClock ==
  ASSUME TimingTypes, T!Calendar
  PROVE  Clock /\ tTask.enabled /\ T!Step \in Nat \ {0}
         /\ T!Step = IF tTask.mode = "daily" THEN tTask.step ELSE 1
<1>1. Clock /\ tTask.enabled BY DEF TimingTypes, T!Calendar, Clock
<1>2. tTask.step \in Nat \ {0} BY <1>1, ClockIs
<1> QED BY <1>1, <1>2 DEF T!Step

LEMMA CalendarIs ==
  ASSUME Clock, ~T!NightChange
  PROVE  /\ \A d \in Int : RunOf[d] \in Int /\ DateOf[RunOf[d]] = d /\ DateOf[d] \in Int
         /\ \A d, e \in Int : d < e => RunOf[d] < RunOf[e]
         /\ \A d, t \in Int : t < d * Day - Latest => t < RunOf[d] /\ DateOf[t] < d
         /\ WantedDays \subseteq Int
<1>1. ASSUME NEW d \in Int PROVE RunOf[d] \in Int /\ DateOf[RunOf[d]] = d /\ DateOf[d] \in Int
  <2>1. RunOf[d] = Run(d) /\ Run(d) \in Int BY RunIs DEF RunOf
  <2>2. DateOf[Run(d)] = T!Date(Run(d)) /\ DateOf[d] = T!Date(d) BY <2>1 DEF DateOf
  <2> QED BY <2>1, <2>2, RunOnItsDay, LocalIs
<1>2. \A d, e \in Int : d < e => RunOf[d] < RunOf[e] BY RunGrows DEF RunOf
<1>3. \A d, t \in Int : t < d * Day - Latest => t < RunOf[d] /\ DateOf[t] < d
  BY DayAhead DEF RunOf, DateOf
<1>4. WantedDays \subseteq Int BY DEF WantedDays
<1> QED BY <1>1, <1>2, <1>3, <1>4

(* The next run in these terms. *)
LEMMA PlanIs ==
  ASSUME Clock, tTask.enabled, ~T!NightChange, tNow \in Day..MaxTime,
         NEW last, last = -1 \/ last \in Day..tNow,
         NEW n, n = T!NextRun(last)
  PROVE  /\ n \in Int /\ tNow < n /\ n = RunOf[DateOf[n]] /\ DateOf[n] \in WantedDays
         /\ From(last) <= DateOf[n] /\ From(last) \in Int
         /\ \A d \in WantedDays : From(last) <= d /\ tNow < RunOf[d] => DateOf[n] <= d
<1>1. PICK p \in Int :
        /\ n = Run(p) /\ Run(p) > tNow /\ T!Wanted(p) /\ p >= From(last)
        /\ From(last) \in Int
        /\ \A d \in Int : d >= From(last) /\ T!Wanted(d) /\ Run(d) > tNow => p <= d
  BY NextRunIs
<1>2. \A d \in Int : RunOf[d] = Run(d) BY DEF RunOf
<1>3. n = RunOf[p] /\ n \in Int /\ DateOf[n] = p BY <1>1, <1>2, CalendarIs
<1>4. tNow \in Int BY ClockIs
<1>5. \A d \in WantedDays : From(last) <= d /\ tNow < RunOf[d] => DateOf[n] <= d
  <2> SUFFICES ASSUME NEW d \in WantedDays, From(last) <= d, tNow < RunOf[d]
               PROVE  DateOf[n] <= d
    OBVIOUS
  <2>1. d \in Int /\ T!Wanted(d) BY DEF WantedDays
  <2>2. Run(d) \in Int /\ Run(d) > tNow /\ d >= From(last) BY <1>1, <1>2, <1>4, <2>1, RunIs
  <2> QED BY <1>1, <1>3, <2>1, <2>2
<1>6. DateOf[n] \in WantedDays BY <1>1, <1>3 DEF WantedDays
<1>7. tNow < n /\ From(last) <= DateOf[n] BY <1>1, <1>3, <1>4
<1> QED BY <1>1, <1>3, <1>5, <1>6, <1>7

LEMMA TimingInit == T!Init => TimingInv
<1> SUFFICES ASSUME T!Init PROVE TimingInv OBVIOUS
<1>1. TimingTypes
  <2>1. Day \in Day..MaxTime BY TimingAssumption
  <2>2. tTask \in Configured /\ T!Valid(tTask) /\ tZone \in Zones BY DEF T!Init
  <2>3. tNow = Day /\ tUp = FALSE /\ tSince = -1 /\ tAnchor = -1 /\ tRuns = <<>>
    BY DEF T!Init, T!Never
  <2>4. <<>> \in Seq([at : Int, kept : BOOLEAN]) OBVIOUS
  <2>5. tNow \in Day..MaxTime BY <2>1, <2>3
  <2>6. tRuns \in Seq([at : Int, kept : BOOLEAN]) BY <2>3, <2>4
  <2>7. tUp \in BOOLEAN /\ tSince \in Int
    <3>1. tUp \in BOOLEAN BY <2>3, Zenon
    <3>2. tSince \in Int BY <2>3
    <3> QED BY <3>1, <3>2
  <2>8. tAnchor = -1 BY <2>3
  <2> QED BY <2>2, <2>5, <2>6, <2>7, <2>8, Zenon DEF TimingTypes
<1>2. CalendarIsKept
  <2>1. tRuns = <<>> /\ tUp = FALSE BY DEF T!Init
  <2>2. DOMAIN tRuns = {} BY <2>1
  <2> QED BY <2>1, <2>2 DEF CalendarIsKept, RunsAreRight, RunsInOrder, KeptApart, LastIsKnown
<1> QED BY <1>1, <1>2 DEF TimingInv

(* prepare: the day of a run that the journal shows is not planned again.    *)
LEMMA PrepareKeepsTiming ==
  ASSUME TimingInv, T!Prepare
  PROVE  TimingInv'
<1>1. /\ tUp' = TRUE /\ tSince' = tNow /\ tPlanned' = T!NextRun(tAnchor)
      /\ tTask' = tTask /\ tZone' = tZone /\ tNow' = tNow /\ tAnchor' = tAnchor
      /\ tRuns' = tRuns
  BY DEF T!Prepare
<1>2. Day \in Int /\ MaxTime \in Int BY TimingAssumption
<1>3. TimingTypes' BY <1>1, <1>2 DEF TimingInv, TimingTypes, T!Valid
<1>4. ASSUME (T!Calendar /\ ~T!NightChange)' PROVE CalendarIsKept'
  <2>1. T!Calendar /\ ~T!NightChange BY <1>1, <1>4, SameClock
  <2>2. Clock /\ tTask.enabled /\ T!Step \in Nat \ {0} /\ TimingTypes /\ CalendarIsKept
        /\ T!Step = IF tTask.mode = "daily" THEN tTask.step ELSE 1
    BY <2>1, CalendarIsClock DEF TimingInv
  <2> DEFINE n == T!NextRun(tAnchor)
  <2>3. /\ n \in Int /\ tNow < n /\ n = RunOf[DateOf[n]] /\ DateOf[n] \in WantedDays
        /\ From(tAnchor) <= DateOf[n] /\ From(tAnchor) \in Int
        /\ \A d \in WantedDays : From(tAnchor) <= d /\ tNow < RunOf[d] => DateOf[n] <= d
    BY <2>1, <2>2, PlanIs DEF TimingTypes
  <2> HIDE DEF n
  <2>4. /\ RunOf' = RunOf /\ DateOf' = DateOf /\ WantedDays' = WantedDays
        /\ Latest' = Latest /\ T!Step' = T!Step
    BY <1>1, SameClock
  <2>5. tPlanned' = n /\ PlannedDay' = DateOf[n] BY <1>1, <2>4 DEF n, PlannedDay
  <2>6. RunsAreRight' /\ RunsInOrder' /\ KeptApart' /\ LastIsKnown'
    BY <1>1, <2>2, <2>4 DEF CalendarIsKept, RunsAreRight, RunsInOrder, KeptApart, LastIsKnown
  <2>7. /\ \A d \in Int : RunOf[d] \in Int /\ DateOf[RunOf[d]] = d /\ DateOf[d] \in Int
        /\ \A d, e \in Int : d < e => RunOf[d] < RunOf[e]
        /\ \A d, t \in Int : t < d * Day - Latest => t < RunOf[d] /\ DateOf[t] < d
        /\ WantedDays \subseteq Int
    BY <2>1, <2>2, CalendarIs
  <2>8. tNow \in Int /\ tNow >= Day /\ Day >= 1 BY <2>2, TimingAssumption DEF TimingTypes
  <2>9. From(tAnchor) = IF tTask.mode = "daily" /\ tAnchor # -1
                        THEN DateOf[tAnchor] + T!Step ELSE DateOf[tNow]
    <3>1. tAnchor \in Int BY <2>2, <2>8 DEF TimingTypes
    <3> QED BY <2>2, <2>8, <3>1 DEF From, DateOf
  <2>10. ASSUME NEW i \in DOMAIN tRuns
         PROVE  /\ tRuns[i].at < n
                /\ i = Len(tRuns) /\ tRuns[i].kept => DateOf[tRuns[i].at] + T!Step <= DateOf[n]
    <3>1. /\ tRuns[i].at \in Day..tNow /\ DateOf[tRuns[i].at] \in WantedDays
          /\ tRuns[i].at = RunOf[DateOf[tRuns[i].at]]
      BY <2>2 DEF CalendarIsKept, RunsAreRight
    <3>2. tRuns[i].at \in Int /\ tRuns[i].at < n /\ tRuns[i].at # -1 BY <1>2, <2>3, <2>8, <3>1
    <3>3. ASSUME i = Len(tRuns), tRuns[i].kept
          PROVE  DateOf[tRuns[i].at] + T!Step <= DateOf[n]
      <4>1. tAnchor = tRuns[i].at BY <2>2, <3>3 DEF CalendarIsKept, LastIsKnown
      <4>2. CASE tTask.mode = "daily" BY <2>3, <2>9, <3>2, <4>1, <4>2
      <4>3. CASE tTask.mode # "daily"
        <5>1. DateOf[tRuns[i].at] \in Int /\ DateOf[n] \in Int BY <2>3, <2>7, <3>1
        <5>2. ~(DateOf[n] < DateOf[tRuns[i].at]) /\ DateOf[n] # DateOf[tRuns[i].at]
          BY <2>3, <2>7, <3>1, <3>2, <5>1
        <5> QED BY <2>2, <4>3, <5>1, <5>2
      <4> QED BY <4>2, <4>3
    <3> QED BY <3>2, <3>3
  <2>11. ASSUME NEW d \in WantedDays, tNow < d * Day - Latest, d + T!Step - 1 < DateOf[n]
         PROVE  FALSE
    <3>1. d \in Int /\ DateOf[n] \in Int /\ tNow < RunOf[d] /\ DateOf[tNow] < d
      BY <2>3, <2>7, <2>8, <2>11
    <3>2. d < DateOf[n] BY <2>2, <2>11, <3>1
    <3>3. d < From(tAnchor) BY <2>3, <2>11, <3>1, <3>2
    <3>4. DateOf[tNow] \in Int BY <2>7, <2>8
    <3>5. tTask.mode = "daily" /\ tAnchor # -1 /\ From(tAnchor) = DateOf[tAnchor] + T!Step
      BY <2>9, <3>1, <3>3, <3>4
    <3>6. tAnchor \in Int /\ tAnchor <= tNow BY <1>2, <2>2, <2>8, <3>5 DEF TimingTypes
    <3>7. tAnchor < d * Day - Latest
      <4>1. d * Day - Latest \in Int BY <2>2, <3>1, RunIs
      <4> QED BY <2>8, <2>11, <3>6, <4>1
    <3>8. DateOf[tAnchor] < d /\ DateOf[tAnchor] \in Int BY <2>7, <3>1, <3>6, <3>7
    <3> DEFINE e == d + T!Step - 1
    <3>9. e \in Int /\ From(tAnchor) <= e /\ d <= e BY <2>2, <3>1, <3>5, <3>8
    <3>10. RunOf[d] <= RunOf[e] BY <2>7, <3>1, <3>9
    <3>11. tNow < RunOf[e] BY <2>7, <2>8, <3>1, <3>9, <3>10
    <3>12. e \in WantedDays BY <3>5, <3>9 DEF WantedDays, T!Wanted
    <3>13. DateOf[n] <= e BY <2>3, <3>9, <3>11, <3>12
    <3> QED BY <2>11, <3>1, <3>9, <3>13
  <2>12. PlannedIsRight'
    BY <1>1, <2>3, <2>4, <2>5, <2>8, <2>10 DEF PlannedIsRight
  <2>13. NoneLeftOut' BY <1>1, <2>4, <2>5, <2>11 DEF NoneLeftOut
  <2> QED BY <2>6, <2>12, <2>13 DEF CalendarIsKept
<1> QED BY <1>3, <1>4 DEF TimingInv

(* tick: the run is of its day, and the next one of a later day.             *)
LEMMA TickKeepsTiming ==
  ASSUME TimingInv, T!Tick
  PROVE  TimingInv'
<1>1. PICK outcome \in {"success", "failed", "lost"} :
        /\ tRuns' = Append(tRuns, [at |-> tNow, kept |-> outcome = "success"])
        /\ tAnchor' = CASE outcome = "success" -> tNow
                        [] outcome = "failed" -> -1
                        [] outcome = "lost" -> tAnchor
        /\ tPlanned' = IF outcome = "lost" THEN -1 ELSE T!NextRun(tPlanned)
        /\ tUp' = (outcome # "lost")
  BY DEF T!Tick, T!Never
<1>2. tTask' = tTask /\ tZone' = tZone /\ tNow' = tNow /\ tSince' = tSince BY DEF T!Tick
<1>3. tUp /\ tPlanned # -1 /\ tPlanned <= tNow BY DEF T!Tick, T!IsDue, T!Never
<1>4. Day \in Int /\ MaxTime \in Int BY TimingAssumption
<1>5. TimingTypes /\ tRuns \in Seq([at : Int, kept : BOOLEAN]) /\ tNow \in Day..MaxTime
      /\ (tAnchor = -1 \/ tAnchor \in Day..tNow)
  BY DEF TimingInv, TimingTypes
<1>6. [at |-> tNow, kept |-> outcome = "success"] \in [at : Int, kept : BOOLEAN]
  BY <1>4, <1>5
<1>7. TimingTypes'
  <2>1. tAnchor' = -1 \/ tAnchor' \in Day..tNow BY <1>1, <1>4, <1>5
  <2>2. tRuns' \in Seq([at : Int, kept : BOOLEAN])
    BY <1>1, <1>5, <1>6, AppendProperties
  <2>3. tUp' \in BOOLEAN BY <1>1
  <2> QED BY <1>2, <1>5, <2>1, <2>2, <2>3 DEF TimingTypes, T!Valid
<1>8. ASSUME (T!Calendar /\ ~T!NightChange)' PROVE CalendarIsKept'
  <2>1. T!Calendar /\ ~T!NightChange BY <1>2, <1>8, SameClock
  <2>2. Clock /\ tTask.enabled /\ T!Step \in Nat \ {0} /\ CalendarIsKept
        /\ T!Step = IF tTask.mode = "daily" THEN tTask.step ELSE 1
    BY <1>5, <2>1, CalendarIsClock DEF TimingInv
  <2>3. PlannedIsRight /\ NoneLeftOut BY <1>3, <2>2 DEF CalendarIsKept
  <2>4. tNow \in Int /\ tNow >= Day /\ Day >= 1 BY <1>5, TimingAssumption
  <2>5. tPlanned = tNow BY <1>3, <2>3, <2>4 DEF PlannedIsRight
  <2> DEFINE n == T!NextRun(tPlanned)
             q == PlannedDay
             l == Len(tRuns)
  <2>6. /\ RunOf' = RunOf /\ DateOf' = DateOf /\ WantedDays' = WantedDays
        /\ Latest' = Latest /\ T!Step' = T!Step
    BY <1>2, SameClock
  <2>7. /\ \A d \in Int : RunOf[d] \in Int /\ DateOf[RunOf[d]] = d /\ DateOf[d] \in Int
        /\ \A d, e \in Int : d < e => RunOf[d] < RunOf[e]
        /\ \A d, t \in Int : t < d * Day - Latest => t < RunOf[d] /\ DateOf[t] < d
        /\ WantedDays \subseteq Int
    BY <2>1, <2>2, CalendarIs
  <2>8. q \in WantedDays /\ q \in Int /\ tNow = RunOf[q] /\ DateOf[tNow] = q
    BY <2>3, <2>5, <2>7 DEF PlannedIsRight, PlannedDay
  <2>9. l \in Nat /\ DOMAIN tRuns = 1..l BY <1>5
  <2>10. /\ DOMAIN tRuns' = 1..(l + 1)
         /\ \A i \in 1..l : tRuns'[i] = tRuns[i]
         /\ tRuns'[l + 1].at = tNow /\ tRuns'[l + 1].kept = (outcome = "success")
         /\ Len(tRuns') = l + 1
    BY <1>1, <1>5, <1>6, <2>9, AppendProperties
  <2>11. \A i \in 1..l :
           /\ tRuns[i].at \in Day..tNow /\ tRuns[i].at < tNow
           /\ DateOf[tRuns[i].at] \in WantedDays /\ tRuns[i].at = RunOf[DateOf[tRuns[i].at]]
           /\ i = l /\ tRuns[i].kept => DateOf[tRuns[i].at] + T!Step <= q
    BY <2>2, <2>3, <2>5, <2>9 DEF CalendarIsKept, RunsAreRight, PlannedIsRight
  <2>12. /\ \A i, j \in 1..l : i < j => tRuns[i].at < tRuns[j].at
         /\ \A i, j \in 1..l : j = i + 1 /\ tRuns[i].kept
                                 => DateOf[tRuns[i].at] + T!Step <= DateOf[tRuns[j].at]
    BY <2>2, <2>9 DEF CalendarIsKept, RunsInOrder, KeptApart
  <2>13. NoneLeftOut
    BY <2>3
  <2>14. \A d \in WantedDays :
           tSince < d * Day - Latest /\ d + T!Step - 1 < q
             => \E i \in 1..l : DateOf[tRuns[i].at] \in d..(d + T!Step - 1)
    BY <2>9, <2>13 DEF NoneLeftOut
  <2> HIDE DEF n, q, l
  <2>15. RunsAreRight'
    <3> SUFFICES ASSUME NEW i \in 1..(l + 1)
                 PROVE  /\ tRuns'[i].at \in Day..tNow
                        /\ DateOf[tRuns'[i].at] \in WantedDays
                        /\ tRuns'[i].at = RunOf[DateOf[tRuns'[i].at]]
      BY <1>2, <2>6, <2>10 DEF RunsAreRight
    <3>1. CASE i = l + 1 BY <1>4, <2>4, <2>8, <2>10, <3>1
    <3>2. CASE i # l + 1
      <4>1. i \in 1..l BY <2>9, <3>2
      <4> QED BY <2>10, <2>11, <4>1
    <3> QED BY <3>1, <3>2
  <2>16. RunsInOrder'
    <3> SUFFICES ASSUME NEW i \in 1..(l + 1), NEW j \in 1..(l + 1), i < j
                 PROVE  tRuns'[i].at < tRuns'[j].at
      BY <2>10 DEF RunsInOrder
    <3>1. i \in 1..l BY <2>9
    <3>2. CASE j = l + 1 BY <2>10, <2>11, <3>1, <3>2
    <3>3. CASE j # l + 1
      <4>1. j \in 1..l BY <2>9, <3>3
      <4> QED BY <2>10, <2>12, <3>1, <4>1
    <3> QED BY <3>2, <3>3
  <2>17. KeptApart'
    <3> SUFFICES ASSUME NEW i \in 1..(l + 1), NEW j \in 1..(l + 1), j = i + 1, tRuns'[i].kept
                 PROVE  DateOf[tRuns'[i].at] + T!Step <= DateOf[tRuns'[j].at]
      BY <2>6, <2>10 DEF KeptApart
    <3>1. i \in 1..l BY <2>9
    <3>2. CASE j = l + 1
      <4>1. i = l BY <2>9, <3>2
      <4> QED BY <2>8, <2>10, <2>11, <3>1, <3>2, <4>1
    <3>3. CASE j # l + 1
      <4>1. j \in 1..l BY <2>9, <3>3
      <4> QED BY <2>10, <2>12, <3>1, <4>1
    <3> QED BY <3>2, <3>3
  <2>18. LastIsKnown'
    <3> SUFFICES ASSUME outcome = "success" PROVE tAnchor' = tNow
      BY <2>10 DEF LastIsKnown
    <3> QED BY <1>1
  <2>19. ASSUME tUp' PROVE PlannedIsRight' /\ NoneLeftOut'
    <3>1. outcome # "lost" /\ tPlanned' = n BY <1>1, <2>19 DEF n
    <3>2. From(tPlanned) = IF tTask.mode = "daily" THEN q + T!Step ELSE q
      <4>1. tPlanned # -1 /\ T!Date(tPlanned) = q /\ T!Date(tNow) = q
        <5>1. T!Date(tNow) = q BY <2>4, <2>8 DEF DateOf
        <5>2. T!Date(tPlanned) = T!Date(tNow) BY <2>5, Zenon
        <5> QED BY <1>3, <5>1, <5>2
      <4> QED BY <2>2, <4>1 DEF From
    <3>3. /\ n \in Int /\ tNow < n /\ n = RunOf[DateOf[n]] /\ DateOf[n] \in WantedDays
          /\ From(tPlanned) <= DateOf[n]
          /\ \A d \in WantedDays : From(tPlanned) <= d /\ tNow < RunOf[d] => DateOf[n] <= d
      <4>1. tPlanned \in Day..tNow BY <1>4, <2>4, <2>5
      <4> QED BY <1>5, <2>1, <2>2, <4>1, PlanIs DEF n
    <3>4. PlannedDay' = DateOf[n] /\ DateOf[n] \in Int BY <2>6, <2>7, <3>1, <3>3 DEF PlannedDay
    <3>5. q + T!Step <= DateOf[n]
      <4>1. CASE tTask.mode = "daily" BY <3>2, <3>3, <4>1
      <4>2. CASE tTask.mode # "daily"
        <5>1. ~(DateOf[n] < q) /\ DateOf[n] # q BY <2>4, <2>7, <2>8, <3>3, <3>4
        <5> QED BY <2>2, <2>8, <3>4, <4>2, <5>1
      <4> QED BY <4>1, <4>2
    <3>6. PlannedIsRight'
      <4> SUFFICES ASSUME NEW i \in 1..(l + 1)
                   PROVE  /\ tRuns'[i].at < n
                          /\ i = l + 1 => DateOf[tRuns'[i].at] + T!Step <= DateOf[n]
        BY <1>2, <2>4, <2>6, <2>10, <3>1, <3>3, <3>4 DEF PlannedIsRight
      <4>1. CASE i = l + 1 BY <2>8, <2>10, <3>3, <3>5, <4>1
      <4>2. CASE i # l + 1
        <5>1. i \in 1..l BY <2>9, <4>2
        <5>2. tRuns[i].at \in Int /\ tRuns[i].at < tNow BY <1>4, <2>4, <2>11, <5>1
        <5> QED BY <2>4, <2>10, <3>3, <4>2, <5>1, <5>2
      <4> QED BY <4>1, <4>2
    <3>7. NoneLeftOut'
      <4> SUFFICES ASSUME NEW d \in WantedDays, tSince < d * Day - Latest,
                          d + T!Step - 1 < DateOf[n]
                   PROVE  \E i \in 1..(l + 1) : DateOf[tRuns'[i].at] \in d..(d + T!Step - 1)
        BY <1>2, <2>6, <2>10, <3>4 DEF NoneLeftOut
      <4>1. d \in Int BY <2>7
      <4>2. CASE d + T!Step - 1 < q
        <5>1. PICK i \in 1..l : DateOf[tRuns[i].at] \in d..(d + T!Step - 1) BY <2>14, <4>2
        <5>2. i \in 1..(l + 1) /\ tRuns'[i] = tRuns[i] BY <2>9, <2>10
        <5> QED BY <5>1, <5>2
      <4>3. CASE q <= d + T!Step - 1
        <5>1. d <= q
          <6>1. CASE tTask.mode = "daily"
            <7> SUFFICES ASSUME q < d PROVE FALSE BY <2>8, <4>1
            <7>1. RunOf[q] < RunOf[d] BY <2>7, <2>8, <4>1
            <7>2. \A e \in Int : e \in WantedDays BY <6>1 DEF WantedDays, T!Wanted
            <7>3. q + T!Step \in Int /\ q < q + T!Step BY <2>2, <2>8
            <7>4. tNow < RunOf[q + T!Step] BY <2>7, <2>8, <7>3
            <7>5. DateOf[n] <= q + T!Step BY <3>2, <3>3, <6>1, <7>2, <7>3, <7>4
            <7> QED BY <2>2, <2>8, <3>4, <4>1, <7>5
          <6>2. CASE tTask.mode # "daily"
            <7> SUFFICES ASSUME q < d PROVE FALSE BY <2>8, <4>1
            <7>1. tNow < RunOf[d] BY <2>7, <2>8, <4>1
            <7>2. DateOf[n] <= d BY <2>8, <3>2, <3>3, <4>1, <6>2, <7>1
            <7> QED BY <2>2, <3>4, <4>1, <6>2, <7>2
          <6> QED BY <6>1, <6>2
        <5>2. DateOf[tRuns'[l + 1].at] \in d..(d + T!Step - 1)
          BY <2>2, <2>8, <2>10, <4>1, <4>3, <5>1
        <5> QED BY <2>9, <5>2
      <4> QED BY <2>2, <2>8, <4>1, <4>2, <4>3
    <3> QED BY <3>6, <3>7
  <2> QED BY <2>15, <2>16, <2>17, <2>18, <2>19 DEF CalendarIsKept
<1> QED BY <1>7, <1>8 DEF TimingInv

LEMMA StopKeepsTiming ==
  ASSUME TimingInv, T!Stop
  PROVE  TimingInv'
<1>1. /\ tUp' = FALSE /\ tTask' = tTask /\ tZone' = tZone /\ tNow' = tNow
      /\ tAnchor' = tAnchor /\ tSince' = tSince /\ tRuns' = tRuns
  BY DEF T!Stop
<1>2. TimingTypes' BY <1>1 DEF TimingInv, TimingTypes, T!Valid
<1>3. ASSUME (T!Calendar /\ ~T!NightChange)' PROVE CalendarIsKept'
  BY <1>1, <1>3, SameClock
  DEF TimingInv, CalendarIsKept, RunsAreRight, RunsInOrder, KeptApart, LastIsKnown
<1> QED BY <1>2, <1>3 DEF TimingInv

LEMMA HourKeepsTiming ==
  ASSUME TimingInv, T!Hour
  PROVE  TimingInv'
<1>1. /\ tTask' = tTask /\ tZone' = tZone /\ tNow' = tNow + 1 /\ tUp' = tUp
      /\ tPlanned' = tPlanned /\ tAnchor' = tAnchor /\ tSince' = tSince /\ tRuns' = tRuns
      /\ tNow < MaxTime /\ ~T!IsDue
  BY DEF T!Hour
<1>2. Day \in Nat \ {0} /\ MaxTime \in Int BY TimingAssumption
<1>3. tNow \in Day..MaxTime /\ tNow' \in Day..MaxTime /\ tNow \in Int
  BY <1>1, <1>2 DEF TimingInv, TimingTypes
<1>4. \A t : t \in Day..tNow => t \in Day..tNow' BY <1>1, <1>2, <1>3
<1>5. TimingTypes' BY <1>1, <1>3, <1>4 DEF TimingInv, TimingTypes, T!Valid
<1>6. ASSUME (T!Calendar /\ ~T!NightChange)' PROVE CalendarIsKept'
  <2>1. CalendarIsKept BY <1>1, <1>6, SameClock DEF TimingInv
  <2>2. /\ RunOf' = RunOf /\ DateOf' = DateOf /\ WantedDays' = WantedDays
        /\ Latest' = Latest /\ T!Step' = T!Step
    BY <1>1, SameClock
  <2>3. RunsAreRight' /\ RunsInOrder' /\ KeptApart' /\ LastIsKnown'
    BY <1>1, <1>4, <2>1, <2>2
    DEF CalendarIsKept, RunsAreRight, RunsInOrder, KeptApart, LastIsKnown
  <2>4. ASSUME tUp PROVE PlannedIsRight' /\ NoneLeftOut'
    <3>1. PlannedIsRight /\ NoneLeftOut BY <2>1, <2>4 DEF CalendarIsKept
    <3>2. tNow + 1 <= tPlanned
      BY <1>1, <1>2, <1>3, <2>4, <3>1 DEF T!IsDue, T!Never, PlannedIsRight
    <3>3. PlannedDay' = PlannedDay BY <1>1, <2>2 DEF PlannedDay
    <3> QED BY <1>1, <2>2, <3>1, <3>2, <3>3 DEF PlannedIsRight, NoneLeftOut
  <2> QED BY <1>1, <2>3, <2>4 DEF CalendarIsKept
<1> QED BY <1>5, <1>6 DEF TimingInv

LEMMA TimingNext ==
  ASSUME TimingInv, [T!Next]_timingVars
  PROVE  TimingInv'
<1>1. CASE UNCHANGED timingVars
  <2>1. /\ tTask' = tTask /\ tZone' = tZone /\ tNow' = tNow /\ tUp' = tUp
        /\ tPlanned' = tPlanned /\ tAnchor' = tAnchor /\ tSince' = tSince /\ tRuns' = tRuns
    BY <1>1 DEF timingVars
  <2>2. TimingTypes' BY <2>1 DEF TimingInv, TimingTypes, T!Valid
  <2>3. ASSUME (T!Calendar /\ ~T!NightChange)' PROVE CalendarIsKept'
    BY <2>1, <2>3, SameClock
    DEF TimingInv, CalendarIsKept, RunsAreRight, RunsInOrder, KeptApart, LastIsKnown,
        PlannedIsRight, NoneLeftOut, PlannedDay
  <2> QED BY <2>2, <2>3 DEF TimingInv
<1> QED BY <1>1, PrepareKeepsTiming, TickKeepsTiming, StopKeepsTiming, HourKeepsTiming
    DEF T!Next

(* As many days were served as there were runs. *)
LEMMA ServedAreAsMany ==
  ASSUME NEW l \in Nat, NEW f, \A i, j \in 1..l : i < j => f[i] # f[j]
  PROVE  Cardinality({f[i] : i \in 1..l}) = l
<1> DEFINE g == [i \in 1..l |-> f[i]]
<1>1. \A i, j \in 1..l : f[i] = f[j] => i = j
  <2> SUFFICES ASSUME NEW i \in 1..l, NEW j \in 1..l, f[i] = f[j], i # j PROVE FALSE
    OBVIOUS
  <2>1. i < j \/ j < i OBVIOUS
  <2> QED BY <2>1
<1>2. g \in Bijection(1..l, {f[i] : i \in 1..l})
  BY <1>1 DEF Bijection, Injection, Surjection, IsInjective
<1>3. IsFiniteSet(1..l) /\ Cardinality(1..l) = l
  <2>1. 0 <= l /\ 1 \in Int /\ l \in Int OBVIOUS
  <2>2. Cardinality(1..l) = IF 1 > l THEN 0 ELSE l - 1 + 1 BY FS_Interval
  <2> QED BY <2>1, <2>2, FS_Interval
<1> HIDE DEF g
<1>4. Cardinality({f[i] : i \in 1..l}) = Cardinality(1..l)
  BY <1>2, <1>3, FS_Bijection DEF ExistsBijection
<1> QED BY <1>3, <1>4

LEMMA CalendarIsServed ==
  ASSUME TimingInv
  PROVE  T!DaysAreServed
<1> SUFFICES ASSUME T!Calendar, ~T!NightChange
             PROVE  T!OncePerDay /\ T!NoDayLost /\ T!NotTooOften
  BY DEF T!DaysAreServed
<1>1. /\ Clock /\ T!Step \in Nat \ {0} /\ TimingTypes /\ CalendarIsKept
  BY CalendarIsClock DEF TimingInv
<1> DEFINE l == Len(tRuns)
<1>2. /\ tNow \in Int /\ tNow >= Day /\ Day \in Int /\ MaxTime \in Int /\ tNow <= MaxTime
      /\ l \in Nat /\ DOMAIN tRuns = 1..l
  BY <1>1, TimingAssumption DEF TimingTypes
<1>3. \A i \in 1..l :
        /\ tRuns[i].at \in Day..tNow /\ tRuns[i].at \in Int
        /\ T!Date(tRuns[i].at) = DateOf[tRuns[i].at] /\ DateOf[tRuns[i].at] \in WantedDays
        /\ tRuns[i].at = RunOf[DateOf[tRuns[i].at]]
  BY <1>1, <1>2 DEF CalendarIsKept, RunsAreRight, DateOf
<1>4. T!OncePerDay
  <2>1. Cardinality(T!Served) = l
    <3> DEFINE f == [i \in 1..l |-> DateOf[tRuns[i].at]]
    <3>1. T!Served = {f[i] : i \in 1..l} BY <1>2, <1>3 DEF T!Served
    <3>2. \A i, j \in 1..l : i < j => f[i] # f[j]
      <4> SUFFICES ASSUME NEW i \in 1..l, NEW j \in 1..l, i < j PROVE f[i] # f[j] OBVIOUS
      <4>1. tRuns[i].at < tRuns[j].at BY <1>1, <1>2 DEF CalendarIsKept, RunsInOrder
      <4> QED BY <1>3, <4>1
    <3> HIDE DEF f
    <3> QED BY <1>2, <3>1, <3>2, ServedAreAsMany
  <2>2. ASSUME NEW i \in 1..l
        PROVE  LET d == T!Date(tRuns[i].at)
               IN /\ T!Wanted(d)
                  /\ IF T!ShownOn(d) # {} THEN tRuns[i].at = T!Min(T!ShownOn(d))
                     ELSE T!Local(tRuns[i].at) > d * Day + tTask.hour
    <3> DEFINE d == T!Date(tRuns[i].at)
               t == tRuns[i].at
               X == T!ShownOn(d)
    <3>1. d \in Int /\ T!Wanted(d) BY <1>3 DEF WantedDays
    <3>2. t \in Day..MaxTime /\ t \in Int /\ t = Run(d)
      <4>1. t \in Day..MaxTime /\ t \in Int BY <1>2, <1>3
      <4>2. t = RunOf[d] BY <1>3
      <4> HIDE DEF d, t
      <4> QED BY <3>1, <4>1, <4>2 DEF RunOf
    <3>3. X = {s \in Day..MaxTime : T!Local(s) = d * Day + tTask.hour}
      BY DEF T!ShownOn
    <3> HIDE DEF d, t, X
    <3>4. /\ \/ T!Local(t) = d * Day + tTask.hour
             \/ /\ T!Local(t) = d * Day + tTask.hour + tZone.after - tZone.before
                /\ tZone.after > tZone.before
          /\ \A s \in Int : T!Local(s) = d * Day + tTask.hour
                              => t <= s /\ T!Local(t) = d * Day + tTask.hour
      BY <1>1, <3>1, <3>2, RunIsShown
    <3>5. CASE X # {}
      <4>1. X \subseteq Int BY <1>2, <3>3
      <4>2. t \in X /\ \A s \in X : t <= s BY <1>2, <3>2, <3>3, <3>4, <3>5
      <4>3. \A s \in X : (\A r \in X : s <= r) => s = t BY <3>2, <4>1, <4>2
      <4>4. T!Min(X) = t BY <4>2, <4>3, Zenon DEF T!Min
      <4> QED BY <3>1, <3>5, <4>4 DEF d, t, X
    <3>6. CASE X = {}
      <4>1. t \notin X BY <3>6
      <4>2. T!Local(t) # d * Day + tTask.hour BY <3>2, <3>3, <4>1
      <4>3. tZone.before \in Int /\ tZone.after \in Int /\ tTask.hour \in Int /\ d * Day \in Int
        <5>1. d * Day \in Int BY <1>1, <3>1, RunIs
        <5> QED BY <1>1, <5>1, ClockIs
      <4>4. T!Local(t) > d * Day + tTask.hour BY <3>4, <4>2, <4>3
      <4> QED BY <3>1, <3>6, <4>4 DEF d, t, X
    <3> QED BY <3>5, <3>6
  <2>3. T!Cardinality(T!Served) = Cardinality(T!Served)
    BY DEF T!Cardinality, T!IsFiniteSet, Cardinality, IsFiniteSet
  <2> QED BY <1>2, <2>1, <2>2, <2>3 DEF T!OncePerDay
<1>5. T!NoDayLost
  <2> SUFFICES ASSUME tUp, NEW d \in T!Days, T!Wanted(d),
                      tSince < d * Day - Latest,
                      (d + T!Step) * Day - T!Earlier(tZone.before, tZone.after) <= tNow
               PROVE  T!Served \cap (d..(d + T!Step - 1)) # {}
    BY DEF T!NoDayLost, Latest
  <2>1. PlannedIsRight /\ NoneLeftOut BY <1>1 DEF CalendarIsKept
  <2>2. d \in Int /\ d + T!Step \in Int /\ d \in WantedDays
    BY <1>1 DEF T!Days, WantedDays
  <2>3. d + T!Step <= PlannedDay /\ PlannedDay \in Int
    <3> DEFINE e == d + T!Step
               z == T!Earlier(tZone.before, tZone.after)
    <3>1. tPlanned \in Int /\ tNow <= tPlanned /\ PlannedDay = T!Date(tPlanned)
      BY <2>1 DEF PlannedIsRight, PlannedDay, DateOf
    <3>2. e * Day \in Int /\ z \in Int
      <4>1. tZone.before \in Int /\ tZone.after \in Int BY <1>1, ClockIs
      <4>2. z \in Int BY <4>1 DEF T!Earlier
      <4>3. e \in Int BY <2>2
      <4> HIDE DEF e, z
      <4> QED BY <1>2, <4>2, <4>3
    <3>3. e * Day - z <= tPlanned
      <4>1. e * Day - z <= tNow OBVIOUS
      <4> HIDE DEF e, z
      <4> QED BY <1>2, <3>1, <3>2, <4>1
    <3>4. e <= T!Date(tPlanned) BY <1>1, <2>2, <3>1, <3>3, DayAhead
    <3> QED BY <1>1, <3>1, <3>4, LocalIs
  <2>4. d + T!Step - 1 < PlannedDay BY <1>1, <2>2, <2>3
  <2>5. PICK i \in DOMAIN tRuns : DateOf[tRuns[i].at] \in d..(d + T!Step - 1)
    BY <2>1, <2>2, <2>4 DEF NoneLeftOut
  <2>6. DateOf[tRuns[i].at] \in T!Served BY <1>2, <1>3 DEF T!Served
  <2> QED BY <2>5, <2>6
<1>6. T!NotTooOften
  <2> SUFFICES ASSUME NEW i \in 1..(l - 1), tRuns[i].kept
               PROVE  T!Date(tRuns[i + 1].at) >= T!Date(tRuns[i].at) + T!Step
    BY DEF T!NotTooOften
  <2>1. i \in 1..l /\ i + 1 \in 1..l BY <1>2
  <2>2. DateOf[tRuns[i].at] + T!Step <= DateOf[tRuns[i + 1].at]
    BY <1>1, <1>2, <2>1 DEF CalendarIsKept, KeptApart
  <2>3. DateOf[tRuns[i].at] \in Int /\ DateOf[tRuns[i + 1].at] \in Int
    BY <1>3, <2>1 DEF WantedDays
  <2> QED BY <1>1, <1>3, <2>1, <2>2, <2>3
<1> QED BY <1>4, <1>5, <1>6

(* Every wanted day is served once, at the hour that the clocks show, over    *)
(* restarts, failed runs and changes of the clocks: for every task and zone   *)
(* (next_run_at, local_run_instant, Scheduler.prepare, tick).               *)
THEOREM DaysStayServed == PartsSpec => []DaysAreServed
<1>1. PartsInit => TimingInv BY TimingBegins, TimingInit
<1>2. TimingInv /\ [PartsNext]_all => TimingInv' BY TimingSteps, TimingNext
<1>3. TimingInv => DaysAreServed BY CalendarIsServed DEF DaysAreServed
<1> QED BY <1>1, <1>2, <1>3, PTL DEF PartsSpec
=============================================================================
