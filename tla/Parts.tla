-------------------------------- MODULE Parts --------------------------------
(***************************************************************************)
(* The components that are checked on their own, each as an instance with    *)
(* variables of its own: part says which of them a behaviour is about, the   *)
(* others stay in their initial states.  The gate is the module this one     *)
(* extends.  MCParts gives the constants their values for TLC, PartsProofs   *)
(* proves for all of them.                                                  *)
(***************************************************************************)
EXTENDS PriorityGate, Integers

CONSTANTS
  SendCalls, Nodes, Primary, SendFaults,                       \* Sender
  Callers, Keyed, Resources, Resource, GlobalLimit,            \* ResourceManager
  ResourceLimit, Burst, MinInterval, MaxAttempts, MaxDelay,
  Transactions, Singles, Readers, MaxTries, DatabaseFaults,    \* Database
  Builds, Keep, MaxCopies, StorageFaults,                      \* Storage
  Providers, DegradedAt, FailedAt, RecoveredAt, Repeat,        \* Health
  Workers, Critical, RestartLimit,                             \* Supervisor
  Day, Week, Configured, Zones, MaxDaysAhead, MaxTime, MaxFaults   \* Timing

VARIABLES
  part,
  sPc, sNonce, sLock, sFlight, sPool, sFaults,                           \* Sender
  mCaller, mJoined, mInFlight, mOp, mHeld, mUsed, mSleep, mAttempts,     \* ResourceManager
  mBucket, mPaid,
  dPc, dLock, dWire, dTries, dOpen, dPending, dStored, dSeen, dBusy,     \* Database
  dStray, dFaults,
  fPc, fKnown, fDone, fSchema, fRecorded, fCopies, fNow, fOutcome,       \* Storage
  fFaults,
  oPhase, oAllowed, oSwitch, oTrading, oUpdating, oChat, oObserved,      \* Operator
  oStopReported, oNotices, oMeant, oInstalled,
  hPhase, hHealth, hReported, hSnapshot, hTold, hUnsaid, hRecent,        \* Health
  vPc, vState, vTasks, vDone, vRestarts, vComponent, vBroken,            \* Supervisor
  tTask, tZone, tNow, tUp, tPlanned, tAnchor, tFaults, tSince, tRuns     \* Timing

senderVars == <<sPc, sNonce, sLock, sFlight, sPool, sFaults>>
managerVars == <<mCaller, mJoined, mInFlight, mOp, mHeld, mUsed, mSleep, mAttempts, mBucket,
                 mPaid>>
databaseVars == <<dPc, dLock, dWire, dTries, dOpen, dPending, dStored, dSeen, dBusy, dStray,
                  dFaults>>
storageVars == <<fPc, fKnown, fDone, fSchema, fRecorded, fCopies, fNow, fOutcome, fFaults>>
operatorVars == <<oPhase, oAllowed, oSwitch, oTrading, oUpdating, oChat, oObserved,
                  oStopReported, oNotices, oMeant, oInstalled>>
healthVars == <<hPhase, hHealth, hReported, hSnapshot, hTold, hUnsaid, hRecent>>
supervisorVars == <<vPc, vState, vTasks, vDone, vRestarts, vComponent, vBroken>>
timingVars == <<tTask, tZone, tNow, tUp, tPlanned, tAnchor, tFaults, tSince, tRuns>>
all == <<part, vars, senderVars, managerVars, databaseVars, storageVars, operatorVars,
         healthVars, supervisorVars, timingVars>>

S == INSTANCE Sender WITH
       Calls <- SendCalls, MaxFaults <- SendFaults,
       pc <- sPc, nonce <- sNonce, lock <- sLock, flight <- sFlight, pool <- sPool,
       faults <- sFaults
M == INSTANCE ResourceManager WITH
       Calls <- Callers, Limit <- ResourceLimit,
       caller <- mCaller, joined <- mJoined, inFlight <- mInFlight, op <- mOp, held <- mHeld,
       used <- mUsed, sleep <- mSleep, attempts <- mAttempts, bucket <- mBucket, paid <- mPaid
D == INSTANCE Database WITH
       MaxFaults <- DatabaseFaults,
       pc <- dPc, lock <- dLock, wire <- dWire, tries <- dTries, open <- dOpen,
       pending <- dPending, stored <- dStored, seen <- dSeen, busy <- dBusy, stray <- dStray,
       faults <- dFaults
F == INSTANCE Storage WITH
       MaxTime <- MaxCopies, MaxFaults <- StorageFaults,
       pc <- fPc, known <- fKnown, done <- fDone, schema <- fSchema, recorded <- fRecorded,
       copies <- fCopies, now <- fNow, outcome <- fOutcome, faults <- fFaults
O == INSTANCE Operator WITH
       phase <- oPhase, allowed <- oAllowed, switch <- oSwitch, trading <- oTrading,
       updating <- oUpdating, chat <- oChat, observed <- oObserved,
       stopReported <- oStopReported, notices <- oNotices, meant <- oMeant,
       installed <- oInstalled
H == INSTANCE Health WITH
       phase <- hPhase, health <- hHealth, reported <- hReported, snapshot <- hSnapshot,
       told <- hTold, unsaid <- hUnsaid, recent <- hRecent
V == INSTANCE Supervisor WITH
       pc <- vPc, state <- vState, tasks <- vTasks, done <- vDone, restarts <- vRestarts,
       component <- vComponent, broken <- vBroken
T == INSTANCE Timing WITH
       task <- tTask, zone <- tZone, now <- tNow, up <- tUp, planned <- tPlanned,
       anchor <- tAnchor, faults <- tFaults, since <- tSince, runs <- tRuns

(* The account's own node is one of the nodes; numbers of the configuration  *)
(* are not negative, at least one copy is kept, one attempt made and one      *)
(* call needed for a verdict (the bounds of their fields); a task of the database      *)
(* makes one call.                                                           *)
ASSUME SenderAssumption == Primary \in Nodes /\ SendFaults \in Nat
ASSUME ManagerAssumption ==
  /\ IsFiniteSet(Callers) /\ M!Nobody \notin Callers /\ Keyed \subseteq Callers
  /\ Resource \in [Callers -> Resources]
  /\ GlobalLimit \in Nat /\ ResourceLimit \in Nat /\ Burst \in Nat
  /\ MinInterval \in Nat /\ MaxDelay \in Nat /\ MaxAttempts \in Nat \ {0}
ASSUME DatabaseAssumption ==
  Transactions \cap Singles = {} /\ Readers \cap D!Writers = {}
ASSUME StorageAssumption == Builds \subseteq SUBSET Nat /\ Keep \in Nat \ {0}
ASSUME HealthAssumption ==
  {DegradedAt, FailedAt, RecoveredAt} \subseteq Nat \ {0} /\ Repeat \in Nat
ASSUME SupervisorAssumption == RestartLimit \in Nat
(* A task has an hour and a day of the week, if any (the fields of            *)
(* TaskScheduleConfig); zones are less than a day from each other; nothing    *)
(* is down for as many days as next_run_at looks ahead.                      *)
ASSUME TimingAssumption ==
  /\ Day \in Nat \ {0} /\ Week \in Nat \ {0} /\ MaxFaults \in Nat
  /\ Configured \subseteq
       [enabled : BOOLEAN, mode : {"startup", "interval", "daily", "weekly", "manual"},
        interval : Int, hour : -1..(Day - 1), step : Nat \ {0}, weekday : {-1} \cup 1..Week]
  /\ Zones \subseteq [change : Nat, before : Int, after : Int]
  /\ \A z \in Zones :
       /\ -Day < z.before /\ z.before < Day /\ -Day < z.after /\ z.after < Day
       /\ -Day < z.after - z.before /\ z.after - z.before < Day
  /\ MaxDaysAhead \in Nat /\ MaxDaysAhead >= Week + 2
  /\ MaxTime \in Nat /\ Day <= MaxTime /\ MaxTime <= (MaxDaysAhead - 1) * Day

Parts == {"gate", "sender", "manager", "database", "storage", "operator", "health",
          "supervisor", "timing"}

PartsInit ==
  /\ part \in Parts
  /\ Init /\ S!Init /\ M!Init /\ D!Init /\ F!Init /\ O!Init /\ H!Init /\ V!Init /\ T!Init

(* A step of one part leaves the variables of the others alone. *)
Still(x, v) == part = x \/ UNCHANGED v

OthersStill ==
  /\ UNCHANGED part
  /\ Still("gate", vars) /\ Still("sender", senderVars) /\ Still("manager", managerVars)
  /\ Still("database", databaseVars) /\ Still("storage", storageVars)
  /\ Still("operator", operatorVars) /\ Still("health", healthVars)
  /\ Still("supervisor", supervisorVars)
  /\ Still("timing", timingVars)

PartsNext ==
  /\ OthersStill
  /\ \/ part = "gate" /\ Next
     \/ part = "sender" /\ S!Next
     \/ part = "manager" /\ M!Next
     \/ part = "database" /\ D!Next
     \/ part = "storage" /\ F!Next
     \/ part = "operator" /\ O!Next
     \/ part = "health" /\ H!Next
     \/ part = "supervisor" /\ V!Next
     \/ part = "timing" /\ T!Next

(* The fairness of each component, as its module states it. *)
PartsFairness ==
  /\ \A r \in Requests : WF_vars(part = "gate" /\ (Resume(r) \/ Finish(r)))
  /\ \A c \in SendCalls : WF_senderVars(part = "sender" /\ S!Step(c))
  /\ WF_managerVars(part = "manager" /\ M!Tick)
  /\ \A o \in Callers : WF_managerVars(part = "manager" /\ M!Step(o))
  /\ WF_databaseVars(part = "database" /\ D!Perform)
  /\ \A t \in D!Tasks : WF_databaseVars(part = "database" /\ (D!Enter(t) \/ D!TryAgain(t)))
  /\ WF_healthVars(part = "health" /\ H!Startup)
  /\ WF_healthVars(part = "health" /\ H!Look)
  /\ WF_healthVars(part = "health" /\ H!Tick)
  /\ \A p \in Providers :
       /\ WF_healthVars(part = "health" /\ H!Probe(p))
       /\ WF_healthVars(part = "health" /\ (H!SaysNothing(p) \/ H!Lost(p)))
       /\ SF_healthVars(part = "health" /\ H!Delivered(p))

PartsSpec == PartsInit /\ [][PartsNext]_all /\ PartsFairness

(***************************************************************************)
(* Properties: those of the modules, in their instances here                *)
(***************************************************************************)
(* PriorityGate, TransactionSender, ResourceManager and Database: of those   *)
(* who wait for a slot, a lock or the answer to an operation they joined,    *)
(* none is forgotten, whoever before them failed or was cancelled.           *)
NobodyWaitsForever ==
  WaitersAreServed /\ S!CallsEnd /\ M!CallersAreAnswered /\ D!WritersEnd
(* TransactionSender.send: numbers are used up in order.                     *)
NumbersInOrder == S!NumbersInOrder
(* ResourceManager: limits and pauses hold for every attempt.                *)
LimitsAreKept == M!LimitsAreKept
(* Database.transaction: whole or not at all.                                *)
AllOrNothing == D!AllOrNothing
(* MigrationRunner.upgrade: the table of versions tells the truth.           *)
SchemaIsRecorded == F!SchemaIsRecorded
(* BackupService.run: a sound copy is never lost for a worse one.            *)
GoodCopyRemains == [][F!NoGoodCopyLost]_storageVars
(* CommandRouter, SystemNotifier: stops are confirmed and told once.         *)
StopsAreMeantAndTold == O!StopsAreMeantAndTold
(* HealthMonitor: a verdict takes a streak.                                  *)
StreaksDecide == [][\A p \in Providers : H!ByStreak(p)]_healthVars
(* SystemNotifier: lasting outages are told in the end.                      *)
OutagesAreTold == H!OutagesAreTold
(* Supervisor: nothing works on after the safe stop.                         *)
SafeStopIsFinal == V!SafeStopIsFinal
(* next_run_at, Scheduler: each day of the calendar is served once.          *)
DaysAreServed == T!DaysAreServed
=============================================================================
