----------------------- MODULE ResourceManagerProofs -----------------------
(***************************************************************************)
(* Proofs about ResourceManager, for every set of callers, every assignment *)
(* of resources and keys, all limits, pauses, attempts and delays.          *)
(***************************************************************************)
EXTENDS ResourceManager, FiniteSetTheorems, TLAPS

(* What ResourceLimits and RetryConfig make sure of.                        *)
Configured ==
  /\ IsFiniteSet(Calls) /\ Nobody \notin Calls /\ Keyed \subseteq Calls
  /\ Resource \in [Calls -> Resources]
  /\ GlobalLimit \in Nat /\ Limit \in Nat /\ Burst \in Nat
  /\ MinInterval \in Nat /\ MaxDelay \in Nat /\ MaxAttempts \in Nat \ {0}

Holders(s) == {o \in Calls : s \in held[o]}
Full(o) == {Gate(Own(o)), Global, Probe(Own(o))}
Reserving(o) == op[o] \in {"paying", "repaying"}

(***************************************************************************)
(* The inductive invariant                                                  *)
(***************************************************************************)
(* What TypeOK leaves out. *)
MoreTypes ==
  /\ bucket \in [Resources -> [tokens : Int, last : Int]]
  /\ paid \in [Calls -> Nat]
  /\ used \in [Slots -> Int]

(* Where an operation is says what it holds; who has not called has none.   *)
Places ==
  \A o \in Calls :
    /\ caller[o] = "idle" => op[o] = "none"
    /\ op[o] \in {"none", "gate", "ended"} => held[o] = {}
    /\ op[o] \in {"paying", "global"} => held[o] = {Gate(Own(o))}
    /\ op[o] \in {"running", "backoff", "repaying"} => held[o] = Full(o)

(* The last turn given at a resource is the latest of those still waited    *)
(* for: what makes the next one come late enough.                           *)
Turns == \A o \in Calls : Reserving(o) /\ sleep[o] > 0 => sleep[o] <= bucket[Own(o)].last

(* What has been paid ahead of the attempt it is for.                       *)
PaidAhead ==
  \A o \in Calls :
    /\ op[o] \in {"paying", "global"} => paid[o] >= 1
    /\ op[o] = "repaying" => attempts[o] + 1 <= paid[o]
    /\ op[o] \in {"backoff", "repaying"} => attempts[o] < MaxAttempts

(* The account of the slots, without what follows from it. *)
Account == \A s \in Slots : used[s] = Cardinality(Holders(s))
Ceilings == used[Global] <= GlobalLimit /\ \A r \in Resources : used[Gate(r)] <= Limit

IInv == /\ TypeOK /\ MoreTypes /\ Places /\ Turns /\ PaidAhead
        /\ Account /\ Ceilings /\ PausesApart /\ AttemptsPaid

(***************************************************************************)
(* Slots                                                                    *)
(***************************************************************************)
(* The slots are all different. *)
LEMMA SlotNames ==
  ASSUME NEW r, NEW q
  PROVE  /\ Gate(r) # Global /\ Probe(r) # Global /\ Gate(r) # Probe(q)
         /\ (Gate(r) = Gate(q) => r = q) /\ (Probe(r) = Probe(q) => r = q)
BY DEF Gate, Probe, Global

LEMMA SlotsOfCalls ==
  ASSUME Configured, NEW o \in Calls
  PROVE  /\ Own(o) \in Resources /\ Full(o) \subseteq Slots
         /\ Global \in Slots /\ \A r \in Resources : Gate(r) \in Slots /\ Probe(r) \in Slots
BY DEF Configured, Own, Full, Slots, Gates

LEMMA FiniteHolders ==
  ASSUME Configured, NEW s
  PROVE  IsFiniteSet(Holders(s)) /\ Cardinality(Holders(s)) \in Nat
<1>1. Holders(s) \subseteq Calls BY DEF Holders
<1> QED BY <1>1, FS_Subset, FS_CardinalityType DEF Configured

(* Slots that an operation takes are counted once each. *)
LEMMA TakeCounts ==
  ASSUME Configured, TypeOK, MoreTypes, Account, NEW o \in Calls, NEW slots \in SUBSET Slots,
         slots \cap held[o] = {}, Take(o, slots)
  PROVE  Account' /\ used' \in [Slots -> Int] /\ held' \in [Calls -> SUBSET Slots]
<1>1. used' \in [Slots -> Int] BY DEF Take, MoreTypes
<1>2. held' \in [Calls -> SUBSET Slots] BY DEF Take, TypeOK
<1>3. ASSUME NEW s \in Slots PROVE used'[s] = Cardinality(Holders(s)')
  <2>1. CASE s \in slots
    <3>1. o \notin Holders(s) /\ Holders(s)' = Holders(s) \cup {o}
      BY <2>1 DEF Holders, Take, TypeOK
    <3>2. Cardinality(Holders(s)') = Cardinality(Holders(s)) + 1
      BY <3>1, FiniteHolders, FS_AddElement
    <3> QED BY <2>1, <3>2 DEF Take, Account
  <2>2. CASE s \notin slots
    <3>1. Holders(s)' = Holders(s) BY <2>2 DEF Holders, Take, TypeOK
    <3> QED BY <2>2, <3>1 DEF Take, Account
  <2> QED BY <2>1, <2>2
<1> QED BY <1>1, <1>2, <1>3 DEF Account

(* What an operation held is free again when it ends. *)
LEMMA EndCounts ==
  ASSUME Configured, TypeOK, MoreTypes, Account, NEW o \in Calls, End(o)
  PROVE  /\ Account' /\ used' \in [Slots -> Int] /\ held' \in [Calls -> SUBSET Slots]
         /\ \A s \in Slots : used'[s] <= used[s]
<1>1. used' \in [Slots -> Int] /\ \A s \in Slots : used'[s] <= used[s]
  BY DEF End, Given, MoreTypes
<1>2. held' \in [Calls -> SUBSET Slots] BY DEF End, TypeOK
<1>3. ASSUME NEW s \in Slots PROVE used'[s] = Cardinality(Holders(s)')
  <2>1. CASE s \in held[o]
    <3>1. o \in Holders(s) /\ Holders(s)' = Holders(s) \ {o}
      BY <2>1 DEF Holders, End, TypeOK
    <3>2. Cardinality(Holders(s)') = Cardinality(Holders(s)) - 1
      BY <3>1, FiniteHolders, FS_RemoveElement
    <3> QED BY <2>1, <3>2 DEF End, Given, Account
  <2>2. CASE s \notin held[o]
    <3>1. Holders(s)' = Holders(s) BY <2>2 DEF Holders, End, TypeOK
    <3> QED BY <2>2, <3>1 DEF End, Given, Account
  <2> QED BY <2>1, <2>2
<1> QED BY <1>1, <1>2, <1>3 DEF Account

(* A slot is given away as often as it is held, also after steps that do    *)
(* not touch the slots.                                                     *)
LEMMA SameSlots ==
  ASSUME Account, Ceilings, UNCHANGED <<held, used>>
  PROVE  Account' /\ Ceilings'
BY DEF Account, Ceilings, Holders

(***************************************************************************)
(* Turns                                                                    *)
(***************************************************************************)
(* The next turn of a bucket is not in the past, and at least the pause     *)
(* after the last one given.                                                *)
LEMMA SlotIsLate ==
  ASSUME Configured, NEW bk \in [tokens : Int, last : Int]
  PROVE  Slot(bk) \in Nat /\ Slot(bk) >= bk.last + MinInterval
BY DEF Configured, Slot

(* A reservation keeps the turns apart. *)
LEMMA ReserveKeepsTurns ==
  ASSUME Configured, TypeOK, MoreTypes, Turns, PausesApart,
         NEW o \in Calls, ~Reserving(o),
         NEW next \in {"paying", "repaying"}, Reserve(o, next)
  PROVE  /\ Turns' /\ PausesApart'
         /\ sleep' \in [Calls -> Nat] /\ paid' \in [Calls -> Nat]
         /\ bucket' \in [Resources -> [tokens : Int, last : Int]]
<1> DEFINE slot == Slot(bucket[Own(o)])
<1>1. Own(o) \in Resources /\ bucket[Own(o)] \in [tokens : Int, last : Int]
  BY SlotsOfCalls DEF MoreTypes
<1>2. slot \in Nat /\ slot >= bucket[Own(o)].last + MinInterval BY <1>1, SlotIsLate
<1> HIDE DEF slot
<1>3. /\ bucket' = [bucket EXCEPT ![Own(o)] = [tokens |-> @.tokens - 1, last |-> slot]]
      /\ sleep' = [sleep EXCEPT ![o] = slot] /\ op' = [op EXCEPT ![o] = next]
      /\ paid' = [paid EXCEPT ![o] = @ + 1]
  BY DEF Reserve, slot
<1>4. bucket' \in [Resources -> [tokens : Int, last : Int]]
  BY <1>1, <1>2, <1>3 DEF MoreTypes
<1>5. sleep' \in [Calls -> Nat] /\ paid' \in [Calls -> Nat]
  BY <1>2, <1>3 DEF TypeOK, MoreTypes
<1>6. sleep'[o] = slot /\ bucket'[Own(o)].last = slot
  BY <1>1, <1>3 DEF TypeOK, MoreTypes
<1>7. ASSUME NEW p \in Calls, p # o
      PROVE  sleep'[p] = sleep[p] /\ op'[p] = op[p] /\ sleep[p] \in Nat
  <2>1. sleep'[p] = sleep[p] /\ sleep[p] \in Nat BY <1>3, <1>7 DEF TypeOK
  <2>2. op'[p] = op[p] BY <1>3, <1>7 DEF TypeOK
  <2> QED BY <2>1, <2>2
<1>8. ASSUME NEW p \in Calls, p # o, Own(p) = Own(o), Reserving(p), sleep[p] > 0
      PROVE  slot - sleep[p] >= MinInterval
  <2>1. sleep[p] <= bucket[Own(o)].last BY <1>8 DEF Turns
  <2> QED BY <1>1, <1>2, <1>7, <1>8, <2>1 DEF Configured
<1>9. Turns'
  <2> SUFFICES ASSUME NEW p \in Calls, Reserving(p)', sleep'[p] > 0
               PROVE  sleep'[p] <= bucket'[Own(p)].last
    BY DEF Turns, Own
  <2>1. CASE p = o BY <1>2, <1>6, <2>1
  <2>2. CASE p # o /\ Own(p) = Own(o)
    BY <1>2, <1>6, <1>7, <1>8, <2>2 DEF Reserving, Configured
  <2>3. CASE p # o /\ Own(p) # Own(o)
    <3>1. Own(p) \in Resources BY SlotsOfCalls
    <3>2. bucket'[Own(p)] = bucket[Own(p)] BY <1>3, <2>3, <3>1 DEF MoreTypes
    <3> QED BY <1>7, <2>3, <3>2 DEF Turns, Reserving
  <2> QED BY <2>1, <2>2, <2>3
<1>10. PausesApart'
  <2> SUFFICES ASSUME NEW p \in Calls, NEW q \in Calls, p # q, Own(p) = Own(q),
                      {op'[p], op'[q]} \subseteq {"paying", "repaying"},
                      sleep'[p] > 0, sleep'[q] >= sleep'[p]
               PROVE  sleep'[q] - sleep'[p] >= MinInterval
    BY DEF PausesApart, Own
  <2>1. CASE q = o BY <1>6, <1>7, <1>8, <2>1 DEF Reserving
  <2>2. CASE p = o
    <3>1. sleep[q] > 0 /\ Reserving(q) BY <1>2, <1>6, <1>7, <2>2 DEF Reserving
    <3>2. slot - sleep[q] >= MinInterval BY <1>8, <2>2, <3>1
    <3> QED BY <1>2, <1>6, <1>7, <2>2, <3>2 DEF Configured
  <2>3. CASE p # o /\ q # o BY <1>7, <2>3 DEF PausesApart
  <2> QED BY <2>1, <2>2, <2>3
<1> QED BY <1>4, <1>5, <1>9, <1>10

(* The turns stay apart when some of those who wait for theirs are through. *)
LEMMA FewerTurns ==
  ASSUME Turns, PausesApart, TypeOK, UNCHANGED bucket,
         \A p \in Calls : Reserving(p)' /\ sleep'[p] > 0 => Reserving(p) /\ sleep'[p] = sleep[p],
         sleep' \in [Calls -> Nat]
  PROVE  Turns' /\ PausesApart'
<1>1. Turns' BY DEF Turns, Own
<1>2. PausesApart'
  <2> SUFFICES ASSUME NEW p \in Calls, NEW q \in Calls, p # q, Own(p) = Own(q),
                      {op'[p], op'[q]} \subseteq {"paying", "repaying"},
                      sleep'[p] > 0, sleep'[q] >= sleep'[p]
               PROVE  sleep'[q] - sleep'[p] >= MinInterval
    BY DEF PausesApart, Own
  <2>1. sleep'[q] > 0 /\ sleep'[q] \in Nat /\ sleep'[p] \in Nat OBVIOUS
  <2>2. Reserving(p)' /\ Reserving(q)' BY DEF Reserving
  <2>3. /\ Reserving(p) /\ Reserving(q)
        /\ sleep'[p] = sleep[p] /\ sleep'[q] = sleep[q]
    BY <2>1, <2>2
  <2> QED BY <2>3 DEF PausesApart, Reserving
<1> QED BY <1>1, <1>2
(***************************************************************************)
(* The steps                                                                *)
(***************************************************************************)
LEMMA InitOK == ASSUME Configured, Init PROVE IInv
<1>1. TypeOK /\ MoreTypes BY DEF Configured, Init, TypeOK, MoreTypes
<1>2. Places /\ Turns /\ PaidAhead BY DEF Init, Places, Turns, Reserving, PaidAhead
<1>3. \A s : Holders(s) = {} BY DEF Init, Holders
<1>4. Account BY <1>3, FS_EmptySet DEF Init, Account
<1>5. Global \in Slots /\ \A r \in Resources : Gate(r) \in Slots BY DEF Slots, Gates
<1>6. Ceilings BY <1>5 DEF Configured, Init, Ceilings
<1>7. PausesApart /\ AttemptsPaid BY DEF Configured, Init, PausesApart, AttemptsPaid
<1> QED BY <1>1, <1>2, <1>4, <1>6, <1>7 DEF IInv

LEMMA TickKeeps == ASSUME Configured, IInv, Tick PROVE IInv'
<1> USE DEF IInv
<1>1. \A o \in Calls : Own(o) \in Resources BY SlotsOfCalls
<1>2. /\ sleep' \in [Calls -> Nat]
      /\ bucket' \in [Resources -> [tokens : Int, last : Int]]
  BY DEF Configured, Tick, TypeOK, MoreTypes
<1>3. TypeOK' /\ MoreTypes' BY <1>2 DEF Tick, TypeOK, MoreTypes
<1>4. Places' /\ PaidAhead' /\ AttemptsPaid'
  BY DEF Tick, Places, PaidAhead, AttemptsPaid, Own, Full
<1>5. ASSUME NEW o \in Calls, sleep'[o] > 0
      PROVE  sleep[o] > 0 /\ sleep'[o] = sleep[o] - 1 /\ sleep[o] \in Nat
  BY <1>5 DEF Tick, TypeOK
<1>6. Turns'
  <2> SUFFICES ASSUME NEW o \in Calls, Reserving(o), sleep'[o] > 0
               PROVE  sleep'[o] <= bucket'[Own(o)].last
    BY DEF Turns, Own, Reserving, Tick
  <2>1. sleep[o] <= bucket[Own(o)].last BY <1>5 DEF Turns
  <2>2. bucket[Own(o)].last > -MinInterval BY <1>1, <1>5, <2>1 DEF Configured, MoreTypes
  <2>3. bucket'[Own(o)].last = bucket[Own(o)].last - 1 BY <1>1, <2>2 DEF Tick
  <2> QED BY <1>1, <1>5, <2>1, <2>3 DEF MoreTypes
<1>7. PausesApart'
  <2> SUFFICES ASSUME NEW p \in Calls, NEW q \in Calls, p # q, Own(p) = Own(q),
                      {op[p], op[q]} \subseteq {"paying", "repaying"},
                      sleep'[p] > 0, sleep'[q] >= sleep'[p]
               PROVE  sleep'[q] - sleep'[p] >= MinInterval
    BY DEF PausesApart, Own, Tick
  <2>1. sleep'[q] > 0 BY <1>2
  <2>2. /\ sleep'[p] = sleep[p] - 1 /\ sleep'[q] = sleep[q] - 1
        /\ sleep[p] > 0 /\ sleep[p] \in Nat /\ sleep[q] \in Nat
    BY <1>5, <2>1
  <2>3. sleep[q] - sleep[p] >= MinInterval BY <2>2 DEF PausesApart
  <2> QED BY <2>2, <2>3 DEF Configured
<1>8. Account' /\ Ceilings' BY SameSlots DEF Tick
<1> QED BY <1>3, <1>4, <1>6, <1>7, <1>8

LEMMA EndKeeps == ASSUME Configured, IInv, NEW o \in Calls, End(o), caller[o] # "idle" \/ op[o] # "none"
                  PROVE  IInv'
<1> USE DEF IInv
<1>1. /\ Account' /\ used' \in [Slots -> Int] /\ held' \in [Calls -> SUBSET Slots]
      /\ \A s \in Slots : used'[s] <= used[s]
  BY EndCounts
<1>2. caller' \in [Calls -> {"idle", "waiting", "answered", "cancelled"}]
      /\ \A c \in Calls : caller'[c] = "idle" => caller[c] = "idle"
  BY DEF End, TypeOK
<1>3. TypeOK' BY <1>1, <1>2 DEF End, TypeOK
<1>4. MoreTypes' BY <1>1 DEF End, MoreTypes
<1>5. caller[o] # "idle" BY DEF Places
<1>6. caller'[o] # "idle" BY <1>2, <1>5
<1>7. ASSUME NEW p \in Calls
      PROVE  /\ p # o => op'[p] = op[p] /\ held'[p] = held[p] /\ sleep'[p] = sleep[p]
             /\ p = o => op'[p] = "ended" /\ held'[p] = {}
  BY DEF End, TypeOK
<1>8. Places' BY <1>2, <1>6, <1>7 DEF Places, Own, Full
<1>9. PaidAhead' /\ AttemptsPaid' BY <1>7 DEF End, PaidAhead, AttemptsPaid
<1>10. Turns' /\ PausesApart'
  <2>1. \A p \in Calls : Reserving(p)' /\ sleep'[p] > 0 => Reserving(p) /\ sleep'[p] = sleep[p]
    BY <1>7 DEF Reserving
  <2>2. sleep' \in [Calls -> Nat] BY <1>3 DEF TypeOK
  <2> QED BY <2>1, <2>2, FewerTurns DEF End
<1>11. Ceilings'
  <2>1. Global \in Slots /\ \A r \in Resources : Gate(r) \in Slots BY DEF Slots, Gates
  <2>2. \A s \in Slots : used[s] \in Int /\ used'[s] \in Int BY <1>1 DEF MoreTypes
  <2> QED BY <1>1, <2>1, <2>2 DEF Ceilings, Configured
<1> QED BY <1>1, <1>3, <1>4, <1>8, <1>9, <1>10, <1>11

LEMMA CallKeeps == ASSUME Configured, IInv, NEW c \in Calls, Call(c) PROVE IInv'
<1> USE DEF IInv
<1>1. op[c] = "none" /\ caller'[c] = "waiting" BY DEF Call, Places, TypeOK
<1>2. ASSUME NEW p \in Calls
      PROVE  /\ p # c => op'[p] = op[p] /\ caller'[p] = caller[p]
             /\ p = c => op'[p] \in {"none", "gate"}
  BY <1>1 DEF Call, TypeOK
<1>3. TypeOK' /\ MoreTypes' BY DEF Call, TypeOK, MoreTypes
<1>4. Places' BY <1>1, <1>2 DEF Call, Places, Own, Full
<1>5. PaidAhead' /\ AttemptsPaid' BY <1>2 DEF Call, PaidAhead, AttemptsPaid
<1>6. Turns' /\ PausesApart'
  <2>1. \A p \in Calls : Reserving(p)' => Reserving(p) /\ sleep'[p] = sleep[p]
    BY <1>2 DEF Reserving, Call
  <2> QED BY <2>1, FewerTurns DEF Call, TypeOK
<1>7. Account' /\ Ceilings' BY SameSlots DEF Call
<1> QED BY <1>3, <1>4, <1>5, <1>6, <1>7

LEMMA CancelKeeps == ASSUME Configured, IInv, NEW c \in Calls, CancelKeyed(c) PROVE IInv'
<1> USE DEF IInv
<1>1. TypeOK' /\ MoreTypes' BY DEF CancelKeyed, TypeOK, MoreTypes
<1>2. Places' /\ PaidAhead' /\ AttemptsPaid'
  BY DEF CancelKeyed, Places, PaidAhead, AttemptsPaid, Own, Full, TypeOK
<1>3. Turns' /\ PausesApart' BY DEF CancelKeyed, Turns, PausesApart, Reserving, Own
<1>4. Account' /\ Ceilings' BY SameSlots DEF CancelKeyed
<1> QED BY <1>1, <1>2, <1>3, <1>4

LEMMA EnterGateKeeps == ASSUME Configured, IInv, NEW o \in Calls, EnterGate(o) PROVE IInv'
<1> USE DEF IInv
<1>1. /\ Own(o) \in Resources /\ Gate(Own(o)) \in Slots
      /\ Global \in Slots /\ \A r \in Resources : Gate(r) \in Slots
  BY SlotsOfCalls
<1>2. held[o] = {} /\ caller[o] # "idle" /\ ~Reserving(o)
  BY DEF EnterGate, Places, Reserving
<1>3. /\ Turns' /\ PausesApart' /\ sleep' \in [Calls -> Nat] /\ paid' \in [Calls -> Nat]
      /\ bucket' \in [Resources -> [tokens : Int, last : Int]]
  BY <1>2, ReserveKeepsTurns DEF EnterGate
<1>4. Account' /\ used' \in [Slots -> Int] /\ held' \in [Calls -> SUBSET Slots]
  BY <1>1, <1>2, TakeCounts DEF EnterGate
<1>5. op' = [op EXCEPT ![o] = "paying"] /\ paid' = [paid EXCEPT ![o] = @ + 1]
  BY DEF EnterGate, Reserve
<1>6. TypeOK' BY <1>3, <1>4, <1>5 DEF EnterGate, TypeOK
<1>7. MoreTypes' BY <1>3, <1>4 DEF MoreTypes
<1>8. held'[o] = {Gate(Own(o))} BY <1>2 DEF EnterGate, Take, TypeOK
<1>9. Places' BY <1>2, <1>5, <1>8 DEF EnterGate, Take, Places, TypeOK, Own, Full
<1>10. PaidAhead' /\ AttemptsPaid'
  BY <1>5 DEF EnterGate, PaidAhead, AttemptsPaid, TypeOK, MoreTypes
<1>11. Ceilings'
  <2>1. used'[Gate(Own(o))] = used[Gate(Own(o))] + 1 BY <1>1 DEF EnterGate, Take
  <2>2. used'[Global] = used[Global] BY <1>1, SlotNames DEF EnterGate, Take
  <2>3. \A r \in Resources : r # Own(o) => used'[Gate(r)] = used[Gate(r)]
    BY <1>1, SlotNames DEF EnterGate, Take
  <2>4. used[Gate(Own(o))] + 1 <= Limit BY <1>1 DEF EnterGate, MoreTypes, Configured
  <2> QED BY <2>1, <2>2, <2>3, <2>4 DEF Ceilings
<1> QED BY <1>3, <1>4, <1>6, <1>7, <1>9, <1>10, <1>11

LEMMA EnterGlobalKeeps == ASSUME Configured, IInv, NEW o \in Calls, EnterGlobal(o) PROVE IInv'
<1> USE DEF IInv
<1>1. /\ {Global, Probe(Own(o))} \subseteq Slots
      /\ Global \in Slots /\ \A r \in Resources : Gate(r) \in Slots
  BY SlotsOfCalls DEF Full
<1>2. held[o] = {Gate(Own(o))} /\ caller[o] # "idle" BY DEF EnterGlobal, Places
<1>3. {Global, Probe(Own(o))} \cap held[o] = {} BY <1>2, SlotNames
<1>4. Account' /\ used' \in [Slots -> Int] /\ held' \in [Calls -> SUBSET Slots]
  BY <1>1, <1>3, TakeCounts DEF EnterGlobal
<1>5. TypeOK'
  <2>1. 1 \in 0..MaxAttempts BY DEF Configured
  <2>2. attempts' \in [Calls -> 0..MaxAttempts] BY <2>1 DEF EnterGlobal, TypeOK
  <2> QED BY <1>4, <2>2 DEF EnterGlobal, TypeOK
<1>6. MoreTypes' BY <1>4 DEF EnterGlobal, MoreTypes
<1>7. held'[o] = Full(o) BY <1>2 DEF EnterGlobal, Take, TypeOK, Full
<1>8. Places' BY <1>2, <1>7 DEF EnterGlobal, Take, Places, TypeOK, Own, Full
<1>9. PaidAhead' /\ AttemptsPaid'
  BY DEF EnterGlobal, PaidAhead, AttemptsPaid, TypeOK
<1>10. Turns' /\ PausesApart'
  <2>1. \A p \in Calls : Reserving(p)' => Reserving(p) /\ sleep'[p] = sleep[p]
    BY DEF Reserving, EnterGlobal, TypeOK
  <2> QED BY <2>1, FewerTurns DEF EnterGlobal, TypeOK
<1>11. Ceilings'
  <2>1. used'[Global] = used[Global] + 1 BY <1>1 DEF EnterGlobal, Take
  <2>2. \A r \in Resources : used'[Gate(r)] = used[Gate(r)]
    BY <1>1, SlotNames DEF EnterGlobal, Take
  <2>3. used[Global] + 1 <= GlobalLimit BY <1>1 DEF EnterGlobal, MoreTypes, Configured
  <2> QED BY <2>1, <2>2, <2>3 DEF Ceilings
<1> QED BY <1>4, <1>5, <1>6, <1>8, <1>9, <1>10, <1>11

LEMMA PayAgainKeeps == ASSUME Configured, IInv, NEW o \in Calls, PayAgain(o) PROVE IInv'
<1> USE DEF IInv
<1>1. ~Reserving(o) BY DEF PayAgain, Reserving
<1>2. /\ Turns' /\ PausesApart' /\ sleep' \in [Calls -> Nat] /\ paid' \in [Calls -> Nat]
      /\ bucket' \in [Resources -> [tokens : Int, last : Int]]
  BY <1>1, ReserveKeepsTurns DEF PayAgain
<1>3. op' = [op EXCEPT ![o] = "repaying"] /\ paid' = [paid EXCEPT ![o] = @ + 1]
  BY DEF PayAgain, Reserve
<1>4. TypeOK' BY <1>2, <1>3 DEF PayAgain, TypeOK
<1>5. MoreTypes' BY <1>2 DEF PayAgain, MoreTypes
<1>6. Places' BY <1>3 DEF PayAgain, Places, TypeOK, Own, Full
<1>7. PaidAhead' /\ AttemptsPaid'
  BY <1>3 DEF PayAgain, PaidAhead, AttemptsPaid, TypeOK, MoreTypes
<1>8. Account' /\ Ceilings' BY SameSlots DEF PayAgain
<1> QED BY <1>2, <1>4, <1>5, <1>6, <1>7, <1>8

(* Wake, Backoff and Again move one operation and touch no slot. *)
LEMMA MovesKeep ==
  ASSUME Configured, IInv, NEW o \in Calls, Wake(o) \/ Backoff(o) \/ Again(o)
  PROVE  IInv'
<1> USE DEF IInv
<1>1. TypeOK' /\ MoreTypes'
  <2>1. CASE Wake(o) BY <2>1 DEF Wake, TypeOK, MoreTypes
  <2>2. CASE Backoff(o) BY <2>2 DEF Backoff, TypeOK, MoreTypes, Configured
  <2>3. CASE Again(o)
    <3>1. attempts[o] + 1 \in 0..MaxAttempts
      BY <2>3 DEF Again, PaidAhead, TypeOK, Configured
    <3> QED BY <2>3, <3>1 DEF Again, TypeOK, MoreTypes
  <2> QED BY <2>1, <2>2, <2>3
<1>2. Places' BY DEF Wake, Backoff, Again, Places, TypeOK, Own, Full
<1>3. PaidAhead' /\ AttemptsPaid'
  BY DEF Wake, Backoff, Again, PaidAhead, AttemptsPaid, TypeOK, MoreTypes
<1>4. Turns' /\ PausesApart'
  <2>1. \A p \in Calls : Reserving(p)' => Reserving(p) /\ sleep'[p] = sleep[p]
    BY DEF Reserving, Wake, Backoff, Again, TypeOK
  <2>2. sleep' \in [Calls -> Nat] BY <1>1 DEF TypeOK
  <2> QED BY <2>1, <2>2, FewerTurns DEF Wake, Backoff, Again
<1>5. Account' /\ Ceilings' BY SameSlots DEF Wake, Backoff, Again
<1> QED BY <1>1, <1>2, <1>3, <1>4, <1>5

LEMMA StutterKeeps == ASSUME IInv, UNCHANGED vars PROVE IInv'
BY DEF IInv, vars, TypeOK, MoreTypes, Places, Turns, PaidAhead, Account, Ceilings, PausesApart,
       AttemptsPaid, Holders, Reserving, Own, Full

LEMMA NextKeeps == ASSUME Configured, IInv, [Next]_vars PROVE IInv'
<1>1. CASE Tick BY <1>1, TickKeeps
<1>2. ASSUME NEW c \in Calls, Step(c) PROVE IInv'
  <2>1. CASE EnterGate(c) BY <2>1, EnterGateKeeps
  <2>2. CASE Wake(c) \/ Backoff(c) \/ Again(c) BY <2>2, MovesKeep
  <2>3. CASE EnterGlobal(c) BY <2>3, EnterGlobalKeeps
  <2>4. CASE PayAgain(c) BY <2>4, PayAgainKeeps
  <2>5. CASE Finish(c) BY <2>5, EndKeeps DEF Finish
  <2>6. CASE Refuse(c) BY <2>6, EndKeeps DEF Refuse
  <2> QED BY <1>2, <2>1, <2>2, <2>3, <2>4, <2>5, <2>6 DEF Step
<1>3. ASSUME NEW c \in Calls, Call(c) PROVE IInv' BY <1>3, CallKeeps
<1>4. ASSUME NEW c \in Calls, CancelKeyed(c) PROVE IInv' BY <1>4, CancelKeeps
<1>5. ASSUME NEW c \in Calls, CancelOwn(c) PROVE IInv' BY <1>5, EndKeeps DEF CancelOwn
<1>6. CASE UNCHANGED vars BY <1>6, StutterKeeps
<1> QED BY <1>1, <1>2, <1>3, <1>4, <1>5, <1>6 DEF Next

(* Whoever holds the permission of a breaker holds the global slot.         *)
LEMMA ReturnedInAll == ASSUME Configured, IInv PROVE SlotsReturned
<1> USE DEF IInv
<1>1. ASSUME NEW r \in Resources PROVE used[Probe(r)] <= used[Global]
  <2>1. Probe(r) \in Slots /\ Global \in Slots BY DEF Slots, Gates
  <2>2. ASSUME NEW o \in Holders(Probe(r)) PROVE o \in Holders(Global)
    <3>1. o \in Calls /\ Probe(r) \in held[o] BY DEF Holders
    <3>2. held[o] = {} \/ held[o] = {Gate(Own(o))} \/ held[o] = Full(o)
      BY <3>1 DEF Places, TypeOK
    <3> QED BY <3>1, <3>2, SlotNames DEF Full, Holders
  <2>3. Cardinality(Holders(Probe(r))) <= Cardinality(Holders(Global))
    BY <2>2, FiniteHolders, FS_Subset
  <2> QED BY <2>1, <2>3 DEF Account
<1> QED BY <1>1 DEF SlotsReturned, Account, Holders, Ceilings

(***************************************************************************)
(* Theorems                                                                 *)
(***************************************************************************)
(* The limits of the manager hold for any number of callers and resources:   *)
(* slots are returned wherever an operation ends or is cancelled, turns are  *)
(* apart whoever reserved them, and each attempt is paid for                 *)
(* (_execute_controlled, _run_with_retry, RateLimiter.reserve).              *)
THEOREM LimitsHold == ASSUME Configured PROVE Spec => []LimitsAreKept
<1>1. Init => IInv BY InitOK
<1>2. IInv /\ [Next]_vars => IInv' BY NextKeeps
<1>3. IInv => LimitsAreKept BY ReturnedInAll DEF IInv, LimitsAreKept
<1> QED BY <1>1, <1>2, <1>3, PTL DEF Spec
=============================================================================
