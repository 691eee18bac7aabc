-------------------------- MODULE ApplicationProofs --------------------------
(***************************************************************************)
(* Proofs about Application, for every list of commands, every set of tasks *)
(* with their intervals, and any number of failures and restarts.           *)
(***************************************************************************)
EXTENDS Application, SequenceTheorems, TLAPS

Count == [all : 0..2, here : 0..2]
Steps == {"idle", "fetch", "handle", "reply", "next", "store", "end", "failed"}

CommandTypes ==
  /\ cmd \in [pc : Steps, batch : Seq(Nat), handled : SUBSET (1..Len(Updates))]
  /\ sent \in 0..Len(Updates)
  /\ offset \in 0..(sent + 1)
  /\ done \in [1..Len(Updates) -> Count]

(* _handled holds exactly what took effect in this process, once each.       *)
HandledOnce ==
  \A u \in 1..Len(Updates) :
    /\ done[u].here <= 1
    /\ done[u].here = 1 <=> u \in cmd.handled
    /\ done[u].here <= done[u].all

TakenBefore(n) == \A u \in 1..Len(Updates) : u < n => done[u].all >= 1

(* A batch is a run of consecutive updates, and what came before it took     *)
(* effect; so did its first one once its reply is on the way.                *)
BatchInOrder ==
  cmd.pc \in {"handle", "reply", "next", "store"} =>
    /\ Len(cmd.batch) >= 1
    /\ \A i \in 1..Len(cmd.batch) : cmd.batch[i] = cmd.batch[1] + (i - 1)
    /\ cmd.batch[1] >= 1 /\ cmd.batch[1] + Len(cmd.batch) <= sent + 1
    /\ TakenBefore(cmd.batch[1])
    /\ cmd.pc # "handle" => done[cmd.batch[1]].all >= 1
    /\ cmd.pc = "store" => Len(cmd.batch) = 1

IInv == CommandTypes /\ HandledOnce /\ TakenBefore(offset) /\ BatchInOrder

(* The operator sends finitely many commands.                                *)
LEMMA UpdatesAreMany == Len(Updates) \in Nat
BY UpdatesAssumption

(* Steps that have nothing to do with the commands.                          *)
LEMMA OtherStep ==
  ASSUME IInv, UNCHANGED <<cmd, sent, offset, done>> PROVE IInv'
BY DEF IInv, CommandTypes, HandledOnce, TakenBefore, BatchInOrder

(* The poll is begun, has ended, or is given up at any point.                *)
LEMMA PollEndsOrBegins ==
  ASSUME IInv, UNCHANGED <<sent, offset, done>>,
         NEW step \in {"idle", "fetch", "end", "failed"}, NEW batch \in Seq(Nat),
         cmd' = [cmd EXCEPT !.pc = step, !.batch = batch]
  PROVE  IInv'
<1>1. cmd' \in [pc : Steps, batch : Seq(Nat), handled : SUBSET (1..Len(Updates))]
      /\ cmd'.pc = step /\ cmd'.handled = cmd.handled
  BY DEF IInv, CommandTypes, Steps
<1> QED BY <1>1 DEF IInv, CommandTypes, HandledOnce, TakenBefore, BatchInOrder

(* A new process: what it handled is forgotten, what took effect stays.      *)
LEMMA MemoryKeeps ==
  ASSUME IInv, Memory, UNCHANGED <<sent, offset>> PROVE IInv'
<1>1. /\ cmd' = [pc |-> "idle", batch |-> <<>>, handled |-> {}]
      /\ done' = [u \in 1..Len(Updates) |-> [done[u] EXCEPT !.here = 0]]
  BY DEF Memory, IdleCommand
<1>2. cmd' \in [pc : Steps, batch : Seq(Nat), handled : SUBSET (1..Len(Updates))]
  BY <1>1 DEF Steps
<1>3. \A u \in 1..Len(Updates) : /\ done'[u] \in Count /\ done'[u].here = 0
                                 /\ done'[u].all = done[u].all
  BY <1>1 DEF IInv, CommandTypes, Count
<1>4. done' \in [1..Len(Updates) -> Count] BY <1>1, <1>3
<1>5. CommandTypes' BY <1>2, <1>4 DEF IInv, CommandTypes
<1>6. HandledOnce' BY <1>1, <1>3 DEF HandledOnce, IInv, CommandTypes, Count
<1>7. TakenBefore(offset)' BY <1>3 DEF IInv, TakenBefore
<1>8. BatchInOrder' BY <1>1 DEF BatchInOrder
<1> QED BY <1>5, <1>6, <1>7, <1>8 DEF IInv

(* A process begins with no update taken.                                    *)
LEMMA InitOK == ASSUME Init PROVE IInv
<1>1. /\ cmd = [pc |-> "idle", batch |-> <<>>, handled |-> {}] /\ sent = 0 /\ offset = 0
      /\ done = [u \in 1..Len(Updates) |-> [all |-> 0, here |-> 0]]
  BY DEF Init, IdleCommand
<1>2. cmd \in [pc : Steps, batch : Seq(Nat), handled : SUBSET (1..Len(Updates))]
  BY <1>1 DEF Steps
<1>3. CommandTypes BY <1>1, <1>2, UpdatesAreMany DEF CommandTypes, Count
<1>4. HandledOnce BY <1>1 DEF HandledOnce
<1>5. TakenBefore(offset) BY <1>1 DEF TakenBefore
<1> QED BY <1>1, <1>3, <1>4, <1>5 DEF IInv, BatchInOrder

(* What is fetched begins where the stored offset ends.                      *)
LEMMA FetchKeeps == ASSUME IInv, Fetch PROVE IInv'
<1> DEFINE before == Positive(offset - 1)
<1>1. /\ Unconfirmed = [i \in 1..(sent - before) |-> before + i]
      /\ before \in Nat /\ sent - before \in Nat
  BY DEF Unconfirmed, Positive, IInv, CommandTypes
<1>2. /\ Unconfirmed \in Seq(Nat) /\ Len(Unconfirmed) = sent - before
      /\ \A i \in 1..Len(Unconfirmed) : Unconfirmed[i] = before + i
  BY <1>1
<1>3. UNCHANGED <<sent, offset, done>> BY DEF Fetch, history
<1>4. CASE Unconfirmed = <<>>
  <2>1. cmd' = [cmd EXCEPT !.pc = "end", !.batch = Unconfirmed] BY <1>4 DEF Fetch
  <2> QED BY <1>2, <1>3, <2>1, PollEndsOrBegins
<1>5. CASE Unconfirmed # <<>>
  <2>1. cmd' = [cmd EXCEPT !.pc = "handle", !.batch = Unconfirmed] BY <1>5 DEF Fetch
  <2>2. /\ cmd'.pc = "handle" /\ cmd'.batch = Unconfirmed /\ cmd'.handled = cmd.handled
        /\ cmd' \in [pc : Steps, batch : Seq(Nat), handled : SUBSET (1..Len(Updates))]
    BY <1>2, <2>1 DEF IInv, CommandTypes, Steps
  <2>3. Len(Unconfirmed) >= 1 BY <1>2, <1>5
  <2>4. Unconfirmed[1] = before + 1 BY <1>2, <2>3
  <2>5. \A u \in 1..Len(Updates) : u < before + 1 => u < offset
    BY DEF Positive, IInv, CommandTypes
  <2>6. TakenBefore(before + 1) BY <2>5 DEF IInv, TakenBefore
  <2> HIDE DEF before
  <2>7. BatchInOrder'
    BY <1>1, <1>2, <1>3, <2>2, <2>3, <2>4, <2>6 DEF BatchInOrder, TakenBefore, IInv, CommandTypes
  <2> QED BY <1>3, <2>2, <2>7 DEF IInv, CommandTypes, HandledOnce, TakenBefore
<1> QED BY <1>4, <1>5

(* An update takes effect if it is not among those of this process.          *)
LEMMA HandleKeeps == ASSUME IInv, Handle PROVE IInv'
<1> DEFINE u == Head(cmd.batch)
           pc == IF IsNew(u) THEN "reply" ELSE "next"
<1>1. /\ cmd.pc = "handle" /\ UNCHANGED <<sent, offset>>
      /\ cmd' = [cmd EXCEPT !.handled = @ \cup {u}, !.pc = pc]
      /\ IsNew(u) => done' = [done EXCEPT ![u] = [all |-> Min2(@.all + 1, 2),
                                                   here |-> Min2(@.here + 1, 2)]]
      /\ ~IsNew(u) => done' = done
  BY DEF Handle
<1>2. u = cmd.batch[1] /\ u \in 1..Len(Updates)
  BY <1>1 DEF IInv, BatchInOrder, CommandTypes
<1>3. IsNew(u) <=> u \notin cmd.handled BY DEF IsNew
<1> HIDE DEF u
<1>4. /\ cmd'.pc = pc /\ cmd'.batch = cmd.batch /\ cmd'.handled = cmd.handled \cup {u}
      /\ cmd' \in [pc : Steps, batch : Seq(Nat), handled : SUBSET (1..Len(Updates))]
  BY <1>1, <1>2 DEF IInv, CommandTypes, Steps
<1>5. done[u] \in Count /\ done[u].here <= 1 /\ (done[u].here = 1 <=> u \in cmd.handled)
      /\ done[u].here <= done[u].all
  BY <1>2 DEF IInv, CommandTypes, HandledOnce
<1>6. /\ done'[u] \in Count /\ done'[u].here = 1 /\ done'[u].all >= 1
      /\ \A v \in 1..Len(Updates) : v # u => done'[v] = done[v]
      /\ done' \in [1..Len(Updates) -> Count]
  <2>1. CASE IsNew(u)
    <3> DEFINE count == [all |-> Min2(done[u].all + 1, 2), here |-> Min2(done[u].here + 1, 2)]
    <3>1. count \in Count /\ count.here = 1 /\ count.all >= 1
      BY <1>3, <1>5, <2>1 DEF Count, Min2
    <3>2. done' = [done EXCEPT ![u] = count] BY <1>1, <2>1
    <3> HIDE DEF count
    <3> QED BY <1>2, <3>1, <3>2 DEF IInv, CommandTypes
  <2>2. CASE ~IsNew(u)
    BY <1>1, <1>2, <1>3, <1>5, <2>2 DEF IInv, CommandTypes, Count
  <2> QED BY <2>1, <2>2
<1>7. \A v \in 1..Len(Updates) : done[v].all >= 1 => done'[v].all >= 1 BY <1>6
<1>8. CommandTypes' BY <1>1, <1>4, <1>6 DEF IInv, CommandTypes
<1>9. HandledOnce'
  <2> SUFFICES ASSUME NEW v \in 1..Len(Updates)
               PROVE  /\ done'[v].here <= 1 /\ (done'[v].here = 1 <=> v \in cmd'.handled)
                      /\ done'[v].here <= done'[v].all
    BY DEF HandledOnce
  <2>1. CASE v = u BY <1>4, <1>6, <2>1 DEF Count
  <2>2. CASE v # u BY <1>4, <1>6, <2>2 DEF IInv, HandledOnce
  <2> QED BY <2>1, <2>2
<1>10. TakenBefore(offset)' BY <1>1, <1>7 DEF IInv, TakenBefore
<1>11. BatchInOrder' BY <1>1, <1>2, <1>4, <1>6, <1>7 DEF IInv, BatchInOrder, TakenBefore
<1> QED BY <1>8, <1>9, <1>10, <1>11 DEF IInv

(* The next update of the batch, or the offset.                              *)
LEMMA RepliedKeeps == ASSUME IInv, Replied PROVE IInv'
<1>1. UNCHANGED <<sent, offset, done>> /\ cmd.pc \in {"reply", "next"} BY DEF Replied, history
<1>2. CASE Len(cmd.batch) = 1
  <2>1. cmd' = [cmd EXCEPT !.pc = "store"] BY <1>2 DEF Replied
  <2>2. /\ cmd'.pc = "store" /\ cmd'.batch = cmd.batch /\ cmd'.handled = cmd.handled
        /\ cmd' \in [pc : Steps, batch : Seq(Nat), handled : SUBSET (1..Len(Updates))]
    BY <2>1 DEF IInv, CommandTypes, Steps
  <2> QED
    BY <1>1, <1>2, <2>2 DEF IInv, CommandTypes, HandledOnce, TakenBefore, BatchInOrder
<1>3. CASE Len(cmd.batch) # 1
  <2> DEFINE batch == cmd.batch
             rest == Tail(batch)
  <2>1. cmd' = [cmd EXCEPT !.pc = "handle", !.batch = rest] BY <1>3 DEF Replied
  <2>2. batch \in Seq(Nat) /\ sent \in Nat BY DEF IInv, CommandTypes
  <2>3. /\ Len(batch) >= 1
        /\ \A i \in 1..Len(batch) : batch[i] = batch[1] + (i - 1)
        /\ batch[1] >= 1 /\ batch[1] + Len(batch) <= sent + 1
        /\ TakenBefore(batch[1]) /\ done[batch[1]].all >= 1
    BY <1>1 DEF IInv, BatchInOrder
  <2>4. Len(batch) # 1 BY <1>3
  <2> HIDE DEF batch
  <2>5. Len(batch) \in Nat BY <2>2
  <2>6. Len(batch) >= 2
    <3>1. Len(batch) >= 1 BY <2>3
    <3>2. \A n \in Nat : n >= 1 /\ n # 1 => n >= 2 OBVIOUS
    <3> QED BY <2>4, <2>5, <3>1, <3>2
  <2>7. batch[1] \in Nat BY <2>2, <2>6
  <2>8. /\ rest \in Seq(Nat) /\ Len(rest) = Len(batch) - 1
        /\ \A i \in 1..Len(rest) : rest[i] = batch[i + 1]
    BY <2>2, <2>6
  <2> HIDE DEF rest
  <2>9. /\ cmd'.pc = "handle" /\ cmd'.batch = rest /\ cmd'.handled = cmd.handled
        /\ cmd' \in [pc : Steps, batch : Seq(Nat), handled : SUBSET (1..Len(Updates))]
    BY <2>1, <2>8 DEF IInv, CommandTypes, Steps
  <2>10. rest[1] = batch[1] + 1
    <3>1. 1 \in 1..Len(rest) /\ 2 \in 1..Len(batch) BY <2>5, <2>6, <2>8
    <3>2. rest[1] = batch[2] BY <2>8, <3>1
    <3> QED BY <2>3, <2>7, <3>1, <3>2
  <2>11. \A i \in 1..Len(rest) : rest[i] = rest[1] + (i - 1)
    <3> TAKE i \in 1..Len(rest)
    <3>1. i \in Nat /\ i + 1 \in 1..Len(batch) BY <2>5, <2>6, <2>8
    <3>2. rest[i] = batch[i + 1] BY <2>8
    <3>3. batch[i + 1] = batch[1] + i BY <2>3, <2>7, <3>1
    <3> QED BY <2>7, <2>10, <3>1, <3>2, <3>3
  <2>12. TakenBefore(rest[1])
    <3> SUFFICES ASSUME NEW u \in 1..Len(Updates), u < rest[1] PROVE done[u].all >= 1
      BY DEF TakenBefore
    <3>1. u < batch[1] \/ u = batch[1] BY <2>7, <2>10, UpdatesAreMany
    <3> QED BY <2>3, <3>1 DEF TakenBefore
  <2>13. Len(rest) >= 1 /\ rest[1] >= 1 /\ rest[1] + Len(rest) <= sent + 1
    BY <2>2, <2>3, <2>5, <2>6, <2>7, <2>8, <2>10, SMTT(30)
  <2>14. BatchInOrder'
    <3>1. TakenBefore(cmd.batch[1])' BY <1>1, <2>9, <2>12 DEF TakenBefore
    <3> QED BY <1>1, <2>9, <2>11, <2>13, <3>1 DEF BatchInOrder
  <2> QED BY <1>1, <2>9, <2>14 DEF IInv, CommandTypes, HandledOnce, TakenBefore
<1> QED BY <1>2, <1>3

(* The offset that is stored acknowledges the last of the batch.             *)
LEMMA StoreKeeps == ASSUME IInv, Store PROVE IInv'
<1>1. /\ cmd.pc = "store" /\ UNCHANGED <<sent, done>>
      /\ offset' = Head(cmd.batch) + 1 /\ cmd' = [cmd EXCEPT !.pc = "end"]
  BY DEF Store, history
<1>2. /\ Head(cmd.batch) = cmd.batch[1] /\ cmd.batch[1] \in Nat
      /\ cmd.batch[1] + 1 <= sent + 1 /\ cmd.batch[1] >= 1
      /\ TakenBefore(cmd.batch[1]) /\ done[cmd.batch[1]].all >= 1
  BY <1>1 DEF IInv, BatchInOrder, CommandTypes
<1>3. TakenBefore(cmd.batch[1] + 1) BY <1>2 DEF TakenBefore
<1>4. /\ cmd'.pc = "end" /\ cmd'.handled = cmd.handled
      /\ cmd' \in [pc : Steps, batch : Seq(Nat), handled : SUBSET (1..Len(Updates))]
  BY <1>1 DEF IInv, CommandTypes, Steps
<1>5. offset' \in 0..(sent + 1) BY <1>1, <1>2 DEF IInv, CommandTypes
<1>6. CommandTypes' BY <1>1, <1>4, <1>5 DEF IInv, CommandTypes
<1>7. HandledOnce' BY <1>1, <1>4 DEF IInv, HandledOnce
<1>8. TakenBefore(offset)'
  <2>1. offset' = cmd.batch[1] + 1 BY <1>1, <1>2
  <2> QED BY <1>1, <1>3, <2>1 DEF TakenBefore
<1>9. BatchInOrder' BY <1>4 DEF BatchInOrder
<1> QED BY <1>6, <1>7, <1>8, <1>9 DEF IInv

(* The operator sends another command.                                       *)
LEMMA SendUpdateKeeps == ASSUME IInv, SendUpdate PROVE IInv'
<1>1. UNCHANGED <<cmd, offset, done>> /\ sent < Len(Updates) /\ sent' = sent + 1
  BY DEF SendUpdate, history
<1>2. CommandTypes' BY <1>1, UpdatesAreMany DEF IInv, CommandTypes
<1>3. HandledOnce' /\ TakenBefore(offset)' BY <1>1 DEF IInv, HandledOnce, TakenBefore
<1>4. BatchInOrder'
  <2> SUFFICES ASSUME cmd.pc \in {"handle", "reply", "next", "store"}
               PROVE  cmd.batch[1] + Len(cmd.batch) <= sent' + 1
    BY <1>1 DEF IInv, BatchInOrder, TakenBefore
  <2>1. /\ cmd.batch \in Seq(Nat) /\ Len(cmd.batch) >= 1 /\ sent \in Nat
        /\ cmd.batch[1] + Len(cmd.batch) <= sent + 1
    BY DEF IInv, BatchInOrder, CommandTypes
  <2>2. Len(cmd.batch) \in Nat /\ cmd.batch[1] \in Nat BY <2>1
  <2> QED BY <1>1, <2>1, <2>2
<1> QED BY <1>2, <1>3, <1>4 DEF IInv

(* Ends of polls: of the run, of the loop, of a request.                     *)
LEMMA EndingsKeep ==
  ASSUME IInv,
         \/ Drain \/ \E t \in Tasks : EndRun(t)
         \/ FetchFails \/ StoreFails,
         UNCHANGED <<sent, offset, done>>
  PROVE  IInv'
<1>1. <<>> \in Seq(Nat) /\ cmd.batch \in Seq(Nat)
      /\ cmd = [cmd EXCEPT !.batch = cmd.batch]
  BY DEF IInv, CommandTypes
<1>2. CASE cmd' = cmd BY <1>2, OtherStep
<1>3. CASE cmd' = [cmd EXCEPT !.pc = "idle", !.batch = <<>>]
  BY <1>1, <1>3, PollEndsOrBegins
<1>4. CASE FetchFails
  <2>1. cmd' = [cmd EXCEPT !.pc = "end", !.batch = cmd.batch]
    BY <1>1, <1>4 DEF FetchFails, IInv, CommandTypes
  <2> QED BY <1>1, <2>1, PollEndsOrBegins
<1>5. CASE StoreFails
  <2>1. cmd' = [cmd EXCEPT !.pc = "failed", !.batch = cmd.batch]
    BY <1>1, <1>5 DEF StoreFails, IInv, CommandTypes
  <2> QED BY <1>1, <2>1, PollEndsOrBegins
<1> QED BY <1>2, <1>3, <1>4, <1>5 DEF Drain, EndRun

(* A tick may begin a poll.                                                  *)
LEMMA TickKeeps == ASSUME IInv, Tick PROVE IInv'
<1>1. UNCHANGED <<sent, offset, done>> BY DEF Tick
<1>2. CASE cmd' = cmd BY <1>1, <1>2, OtherStep
<1>3. CASE cmd' = [cmd EXCEPT !.pc = "fetch"]
  <2>1. cmd.batch \in Seq(Nat) /\ cmd' = [cmd EXCEPT !.pc = "fetch", !.batch = cmd.batch]
    BY <1>3 DEF IInv, CommandTypes
  <2> QED BY <1>1, <2>1, PollEndsOrBegins
<1> QED BY <1>2, <1>3 DEF Tick

(* Every step keeps the invariant.                                           *)
LEMMA NextKeeps == ASSUME IInv, [Next]_vars PROVE IInv'
<1>1. CASE Start BY <1>1, MemoryKeeps DEF Start
<1>2. CASE Second BY <1>2, OtherStep DEF Second, control, commands, history
<1>3. CASE Loop
  <2>1. CASE Observe BY <2>1, OtherStep DEF Observe, commands, history
  <2>2. CASE Told BY <2>2, OtherStep DEF Told, commands, history
  <2>3. CASE Restart BY <2>3, EndingsKeep DEF Restart, EndLoop, history
  <2> QED BY <1>3, <2>1, <2>2, <2>3, TickKeeps DEF Loop
<1>4. CASE EndTick BY <1>4, OtherStep DEF EndTick, commands, history
<1>5. CASE Poll
  <2>1. CASE FetchFails BY <2>1, EndingsKeep DEF FetchFails, history
  <2> QED BY <1>5, <2>1, FetchKeeps, HandleKeeps, RepliedKeeps, StoreKeeps DEF Poll
<1>6. ASSUME NEW t \in Tasks, RunEnds(t) \/ JournalFails(t) PROVE IInv'
  BY <1>6, EndingsKeep DEF RunEnds, JournalFails, history
<1>7. CASE SendUpdate BY <1>7, SendUpdateKeeps
<1>8. CASE StoreFails BY <1>8, EndingsKeep DEF StoreFails
<1>9. CASE LoopFails BY <1>9, EndingsKeep DEF LoopFails, history
<1>10. CASE Signal BY <1>10, EndingsKeep DEF Signal, EndLoop, history
<1>11. CASE Shutdown BY <1>11, MemoryKeeps DEF Shutdown
<1>12. CASE Crash BY <1>12, MemoryKeeps DEF Crash
<1>13. CASE UNCHANGED vars BY <1>13, OtherStep DEF vars, commands, history
<1> QED
  BY <1>1, <1>2, <1>3, <1>4, <1>5, <1>6, <1>7, <1>8, <1>9, <1>10, <1>11, <1>12, <1>13 DEF Next

LEMMA CommandsInvariant == Spec => []IInv
<1>1. Init => IInv BY InitOK
<1>2. IInv /\ [Next]_vars => IInv' BY NextKeeps
<1> QED BY <1>1, <1>2, PTL DEF Spec

(* However polls, failures, restarts and new commands interleave, the stored *)
(* offset never acknowledges a command that did not take effect, and no      *)
(* command takes effect twice in one process (service.py: poll_once,         *)
(* _handle, _store_offset).                                                  *)
THEOREM CommandsAreTaken == Spec => []CommandsTakenOnce
<1>1. IInv => CommandsTakenOnce
  BY UpdatesAreMany DEF IInv, CommandTypes, HandledOnce, TakenBefore, CommandsTakenOnce
<1> QED BY <1>1, CommandsInvariant, PTL

(***************************************************************************)
(* The schedule                                                             *)
(***************************************************************************)
(* Counting down on the grid.                                               *)
LEMMA GridCountsDown ==
  ASSUME NEW i \in Nat \ {0}, NEW n \in Int
  PROVE  (n - 1) % i = ((n % i) - 1) % i
<1> DEFINE q == n \div i
           r == n % i
<1>1. q \in Int /\ r \in 0..(i - 1) /\ n = i * q + r OBVIOUS
<1> HIDE DEF q, r
<1>2. \A k \in Int, s \in 0..(i - 1) : (i * k + s) % i = s OBVIOUS
<1>3. CASE r = 0
  <2>1. q - 1 \in Int /\ i - 1 \in 0..(i - 1) /\ n - 1 = i * (q - 1) + (i - 1) BY <1>1, <1>3
  <2>2. (n - 1) % i = i - 1 BY <1>2, <2>1
  <2>3. (0 - 1) % i = i - 1 OBVIOUS
  <2>4. n % i = 0 BY <1>3 DEF r
  <2> QED BY <2>2, <2>3, <2>4
<1>4. CASE r # 0
  <2>1. r - 1 \in 0..(i - 1) /\ n - 1 = i * q + (r - 1) BY <1>1, <1>4
  <2>2. (n - 1) % i = r - 1 BY <1>1, <1>2, <2>1
  <2>3. (r - 1) % i = r - 1 BY <2>1
  <2> QED BY <2>2, <2>3 DEF r
<1> QED BY <1>3, <1>4

Entry == [status : {"none", "success", "other"}, start : Nat]
Run == [start : Nat, overtaken : BOOLEAN]

ScheduleTypes ==
  /\ phase \in {"down", "up", "stopping"}
  /\ sup \in {"running", "stopped", "safeStop"}
  /\ loop \in {"awake", "telling", "checked", "asleep", "over"}
  /\ late \in 0..MaxLate
  /\ DOMAIN nextIn \subseteq Tasks /\ \A t \in DOMAIN nextIn : nextIn[t] \in Int
  /\ DOMAIN active \subseteq Tasks /\ \A t \in DOMAIN active : active[t] \in Run
  /\ ticks \subseteq [due : SUBSET Tasks, waiting : SUBSET Tasks]
  /\ journal \in [Tasks -> Entry]
  /\ switch \in [paused : BOOLEAN, restart : BOOLEAN] /\ observed \in BOOLEAN
  /\ tardy \in BOOLEAN

(* While the loop is punctual no slot is ever behind it, and none is left    *)
(* where it stands when the loop goes to sleep: what is due moves on.        *)
OnGrid ==
  phase = "up" /\ ~tardy =>
    \A t \in DOMAIN nextIn :
      /\ nextIn[t] >= 0
      /\ loop = "asleep" => nextIn[t] > 0
      /\ nextIn[t] % Interval[t] = grid[t]

LEMMA IntervalsArePositive == \A t \in Tasks : Interval[t] \in Nat \ {0}
BY TasksAssumption

LEMMA RecordedIsAnEntry ==
  ASSUME NEW entry \in Entry, NEW run \in Run, NEW status \in {"success", "failed", "cancelled"}
  PROVE  Recorded(entry, run, status) \in Entry
BY DEF Recorded, Entry, Run

LEMMA FirstRunIsAhead ==
  ASSUME NEW t \in Tasks, NEW entry \in Entry
  PROVE  FirstRun(t, entry) \in Nat
BY IntervalsArePositive DEF FirstRun, HasAnchor, Positive, Entry

(* Memory of a new process: nothing runs.                                    *)
LEMMA MemoryIsTyped ==
  ASSUME Memory
  PROVE  /\ late' \in 0..MaxLate
         /\ DOMAIN active' \subseteq Tasks /\ \A t \in DOMAIN active' : active'[t] \in Run
         /\ ticks' \subseteq [due : SUBSET Tasks, waiting : SUBSET Tasks]
         /\ switch' \in [paused : BOOLEAN, restart : BOOLEAN] /\ observed' \in BOOLEAN
         /\ tardy' \in BOOLEAN
<1>1. 0 \in 0..MaxLate BY ApplicationBounds
<1>2. /\ late' = 0 /\ active' = Nothing /\ ticks' = {} /\ tardy' = FALSE /\ observed' = TRUE
      /\ switch' = [paused |-> FALSE, restart |-> FALSE]
  BY DEF Memory
<1>3. DOMAIN Nothing = {} BY DEF Nothing
<1> QED BY <1>1, <1>2, <1>3

LEMMA StartOnGrid ==
  ASSUME ScheduleTypes, Start PROVE ScheduleTypes' /\ OnGrid'
<1>1. \A t \in Tasks : FirstRun(t, journal[t]) \in Nat
  BY FirstRunIsAhead DEF ScheduleTypes
<1>2. /\ DOMAIN nextIn' = Tasks /\ \A t \in Tasks : nextIn'[t] = FirstRun(t, journal[t])
      /\ \A t \in Tasks : grid'[t] = FirstRun(t, journal[t]) % Interval[t]
      /\ loop' = "awake" /\ phase' = "up" /\ sup' = "running" /\ journal' = journal
  BY DEF Start
<1>3. ScheduleTypes' BY <1>1, <1>2, MemoryIsTyped DEF Start, ScheduleTypes
<1>4. OnGrid' BY <1>1, <1>2 DEF OnGrid
<1> QED BY <1>3, <1>4

(* A process that is down has no schedule.                                   *)
LEMMA DownOnGrid ==
  ASSUME ScheduleTypes, Shutdown \/ Crash PROVE ScheduleTypes' /\ OnGrid'
<1>1. phase' = "down" /\ sup' = "stopped" /\ nextIn' = Nothing /\ Memory
  BY DEF Shutdown, Crash
<1>2. journal' \in [Tasks -> Entry]
  BY RecordedIsAnEntry DEF Shutdown, Crash, ScheduleTypes
<1>3. loop' \in {"awake", "telling", "checked", "asleep", "over"}
  BY DEF Shutdown, Crash, ScheduleTypes
<1>4. ScheduleTypes' BY <1>1, <1>2, <1>3, MemoryIsTyped DEF ScheduleTypes, Nothing
<1> QED BY <1>1, <1>4 DEF OnGrid

LEMMA SecondOnGrid ==
  ASSUME ScheduleTypes, OnGrid, Second PROVE ScheduleTypes' /\ OnGrid'
<1>1. /\ DOMAIN nextIn' = DOMAIN nextIn
      /\ \A t \in DOMAIN nextIn : nextIn'[t] = nextIn[t] - 1
      /\ \A t \in Tasks : grid'[t] = IF tardy' THEN 0 ELSE (grid[t] - 1) % Interval[t]
      /\ UNCHANGED <<phase, sup, ticks, switch, observed>>
  BY DEF Second, control
<1>2. /\ loop' \in {"awake", "telling", "checked", "asleep", "over"}
      /\ late' \in 0..MaxLate /\ tardy' \in BOOLEAN
  <2>1. late < MaxLate /\ late' = late + 1 => late' \in 0..MaxLate
    BY ApplicationBounds DEF ScheduleTypes
  <2> QED BY <2>1 DEF Second, ScheduleTypes
<1>3. /\ DOMAIN active' = DOMAIN active /\ \A t \in DOMAIN active : active'[t] \in Run
      /\ journal' \in [Tasks -> Entry]
  <2>1. \A t \in Tasks, age \in Nat : Aged(t, age) \in Nat
    BY IntervalsArePositive DEF Aged, Min2
  <2>2. DOMAIN active' = DOMAIN active /\ \A t \in DOMAIN active : active'[t] \in Run
    BY <2>1 DEF Second, ScheduleTypes, Run
  <2>3. journal' \in [Tasks -> Entry] BY <2>1 DEF Second, ScheduleTypes, Entry
  <2> QED BY <2>2, <2>3
<1>4. ScheduleTypes' BY <1>1, <1>2, <1>3 DEF ScheduleTypes
<1>5. OnGrid'
  <2> SUFFICES ASSUME phase = "up", ~tardy', NEW t \in DOMAIN nextIn
               PROVE  /\ nextIn'[t] >= 0
                      /\ loop' # "asleep"
                      /\ nextIn'[t] % Interval[t] = grid'[t]
    BY <1>1 DEF OnGrid
  <2>1. loop = "asleep" /\ loop' = "awake" /\ ~tardy BY DEF Second
  <2>2. t \in Tasks /\ nextIn[t] \in Int /\ Interval[t] \in Nat \ {0}
    BY IntervalsArePositive DEF ScheduleTypes
  <2>3. nextIn[t] > 0 /\ nextIn[t] % Interval[t] = grid[t] BY <2>1 DEF OnGrid
  <2>4. (nextIn[t] - 1) % Interval[t] = (grid[t] - 1) % Interval[t]
    BY <2>2, <2>3, GridCountsDown
  <2> QED BY <1>1, <2>1, <2>2, <2>3, <2>4
<1> QED BY <1>4, <1>5

(* What is due moves on by whole intervals.                                  *)
LEMMA TickOnGrid ==
  ASSUME ScheduleTypes, OnGrid, Tick PROVE ScheduleTypes' /\ OnGrid'
<1> DEFINE fresh == Due \ DOMAIN active
<1>1. /\ loop' = "asleep" /\ DOMAIN nextIn' = DOMAIN nextIn
      /\ \A t \in DOMAIN nextIn :
           nextIn'[t] = IF nextIn[t] <= 0 THEN NextIntervalRun(nextIn[t], Interval[t])
                                          ELSE nextIn[t]
      /\ UNCHANGED <<phase, sup, late, switch, observed, grid, tardy>>
  BY DEF Tick, Due, control
<1>2. Due \subseteq Tasks BY DEF Due, ScheduleTypes
<1>3. DOMAIN active' \subseteq Tasks /\ \A t \in DOMAIN active' : active'[t] \in Run
  <2>1. active' = [t \in DOMAIN active \union Due |->
                     IF t \in fresh THEN [start |-> 0, overtaken |-> FALSE]
                     ELSE [active[t] EXCEPT !.overtaken = @ \/ t \in Due]]
    BY DEF Tick
  <2>2. \A t \in DOMAIN active : [active[t] EXCEPT !.overtaken = @ \/ t \in Due] \in Run
    BY DEF ScheduleTypes, Run
  <2> QED BY <1>2, <2>1, <2>2 DEF ScheduleTypes, Run
<1>4. ticks' \subseteq [due : SUBSET Tasks, waiting : SUBSET Tasks]
  BY <1>2 DEF Tick, ScheduleTypes
<1>5. journal' \in [Tasks -> Entry] BY DEF Tick, ScheduleTypes, Skipped, Entry
<1>6. \A t \in DOMAIN nextIn : nextIn'[t] \in Int
  BY <1>1, IntervalsArePositive DEF ScheduleTypes, NextIntervalRun
<1>7. ScheduleTypes' BY <1>1, <1>3, <1>4, <1>5, <1>6 DEF ScheduleTypes
<1>8. OnGrid'
  <2> SUFFICES ASSUME phase = "up", ~tardy, NEW t \in DOMAIN nextIn
               PROVE  nextIn'[t] > 0 /\ nextIn'[t] % Interval[t] = grid[t]
    BY <1>1, <1>6 DEF OnGrid
  <2>1. t \in Tasks /\ nextIn[t] \in Int /\ Interval[t] \in Nat \ {0}
    BY IntervalsArePositive DEF ScheduleTypes
  <2>2. nextIn[t] >= 0 /\ nextIn[t] % Interval[t] = grid[t] BY DEF OnGrid
  <2>3. CASE nextIn[t] > 0 BY <1>1, <2>1, <2>2, <2>3
  <2>4. CASE nextIn[t] = 0
    <3>1. nextIn'[t] = Interval[t] BY <1>1, <2>1, <2>4 DEF NextIntervalRun
    <3>2. Interval[t] % Interval[t] = 0 /\ 0 % Interval[t] = 0 BY <2>1
    <3> QED BY <2>1, <2>2, <2>4, <3>1, <3>2
  <2> QED BY <2>1, <2>2, <2>3, <2>4
<1> QED BY <1>7, <1>8

(* The look back of a tick finds nothing to put right.                       *)
LEMMA EndTickOnGrid ==
  ASSUME ScheduleTypes, OnGrid, EndTick PROVE ScheduleTypes' /\ OnGrid'
<1>1. PICK tick \in ticks :
        nextIn' = [t \in DOMAIN nextIn |->
                     IF t \in tick.due THEN CatchUpGuard(nextIn[t]) ELSE nextIn[t]]
  BY DEF EndTick
<1>2. /\ ticks' \subseteq ticks
      /\ UNCHANGED <<phase, sup, loop, late, active, journal, switch, observed, grid, tardy>>
  BY DEF EndTick, process, control, history
<1>3. /\ \A t \in DOMAIN nextIn : nextIn'[t] \in Int /\ (nextIn[t] >= 0 => nextIn'[t] = nextIn[t])
      /\ DOMAIN nextIn' = DOMAIN nextIn
  BY <1>1 DEF ScheduleTypes, CatchUpGuard, Positive
<1>4. ScheduleTypes' BY <1>2, <1>3 DEF ScheduleTypes
<1>5. OnGrid' BY <1>2, <1>3 DEF OnGrid
<1> QED BY <1>4, <1>5

(* Steps of the loop that leave the schedule alone.                          *)
LEMMA LoopOnGrid ==
  ASSUME ScheduleTypes, OnGrid, Observe \/ Told PROVE ScheduleTypes' /\ OnGrid'
<1>1. /\ loop' \in {"checked", "telling"} /\ late' \in 0..MaxLate /\ observed' \in BOOLEAN
      /\ UNCHANGED <<phase, sup, nextIn, active, ticks, journal, switch, grid, tardy>>
  <2>1. 0 \in 0..MaxLate BY ApplicationBounds
  <2>2. Running \in BOOLEAN BY Zenon DEF Running
  <2>3. CASE Observe BY <2>2, <2>3 DEF Observe, ScheduleTypes, schedule, history
  <2>4. CASE Told BY <2>1, <2>4 DEF Told, ScheduleTypes, schedule, control, history
  <2> QED BY <2>3, <2>4
<1> QED BY <1>1 DEF ScheduleTypes, OnGrid

(* The end of the loop: the process is on its way down.                      *)
LEMMA LoopEndsOnGrid ==
  ASSUME ScheduleTypes, OnGrid, Restart \/ Signal \/ LoopFails PROVE ScheduleTypes' /\ OnGrid'
<1>1. /\ loop' = "over" /\ phase' = "stopping" /\ sup' \in {"stopped", "safeStop"} /\ Drain
      /\ UNCHANGED <<late, nextIn, switch, observed, tardy>>
  BY DEF Restart, Signal, LoopFails, EndLoop, control, history
<1>2. DOMAIN active' \subseteq Tasks /\ \A t \in DOMAIN active' : active'[t] \in Run
  BY <1>1 DEF Drain, Without, ScheduleTypes
<1>3. journal' \in [Tasks -> Entry]
  <2>1. \A t \in Drained : active[t] \in Run BY DEF Drained, ScheduleTypes
  <2> QED BY <1>1, <2>1, RecordedIsAnEntry DEF Drain, ScheduleTypes
<1>4. ticks' = {} BY <1>1 DEF Drain
<1> QED BY <1>1, <1>2, <1>3, <1>4 DEF ScheduleTypes, OnGrid

(* The end of a run: the schedule does not depend on it.                     *)
LEMMA RunsOnGrid ==
  ASSUME ScheduleTypes, OnGrid, NEW t \in Tasks, RunEnds(t) \/ JournalFails(t)
  PROVE  ScheduleTypes' /\ OnGrid'
<1>1. /\ t \in DOMAIN active /\ EndRun(t)
      /\ UNCHANGED <<phase, sup, loop, late, nextIn, switch, observed, grid, tardy>>
  BY DEF RunEnds, JournalFails, CanEnd, process, control, history
<1>2. DOMAIN active' \subseteq Tasks /\ \A u \in DOMAIN active' : active'[u] \in Run
  BY <1>1 DEF EndRun, Without, ScheduleTypes
<1>3. ticks' \subseteq [due : SUBSET Tasks, waiting : SUBSET Tasks]
  <2>1. CASE JournalFails(t) BY <2>1 DEF JournalFails, ScheduleTypes
  <2>2. CASE RunEnds(t)
    <3>1. ticks' = {[tick EXCEPT !.waiting = @ \ {t}] : tick \in ticks} BY <2>2 DEF RunEnds
    <3>2. \A tick \in ticks : [tick EXCEPT !.waiting = @ \ {t}]
                                \in [due : SUBSET Tasks, waiting : SUBSET Tasks]
      BY DEF ScheduleTypes
    <3> QED BY <3>1, <3>2
  <2> QED BY <2>1, <2>2
<1>4. journal' \in [Tasks -> Entry]
  <2>1. active[t] \in Run BY <1>1 DEF ScheduleTypes
  <2>2. CASE RunEnds(t)
    <3>1. PICK status \in Outcomes(t) :
            journal' = [journal EXCEPT ![t] = Recorded(@, active[t], status)]
      BY <2>2 DEF RunEnds
    <3>2. status \in {"success", "failed", "cancelled"} BY DEF Outcomes
    <3> QED BY <2>1, <3>1, <3>2, RecordedIsAnEntry DEF ScheduleTypes
  <2>3. CASE JournalFails(t) BY <2>3 DEF JournalFails, ScheduleTypes
  <2> QED BY <2>2, <2>3
<1> QED BY <1>1, <1>2, <1>3, <1>4 DEF ScheduleTypes, OnGrid

(* The commands change the switch only.                                      *)
LEMMA CommandsOnGrid ==
  ASSUME ScheduleTypes, OnGrid, IInv, Poll \/ SendUpdate \/ StoreFails \/ UNCHANGED vars
  PROVE  ScheduleTypes' /\ OnGrid'
<1>1. UNCHANGED <<phase, sup, loop, late, nextIn, active, ticks, journal, observed, grid, tardy>>
  BY DEF Poll, Fetch, FetchFails, Handle, Replied, Store, SendUpdate, StoreFails, vars,
         process, schedule, control, history
<1>2. switch' \in [paused : BOOLEAN, restart : BOOLEAN]
  <2>1. CASE Handle
    <3>1. Head(cmd.batch) \in 1..Len(Updates)
      BY <2>1 DEF Handle, IInv, BatchInOrder, CommandTypes
    <3>2. Updates[Head(cmd.batch)] \in {"start", "stop", "restart"} BY <3>1, UpdatesAssumption
    <3>3. Switched(switch, Updates[Head(cmd.batch)]) \in [paused : BOOLEAN, restart : BOOLEAN]
      BY <3>2 DEF Switched, ScheduleTypes
    <3> QED BY <2>1, <3>3 DEF Handle, ScheduleTypes
  <2>2. CASE UNCHANGED switch BY <2>2 DEF ScheduleTypes
  <2> QED BY <2>1, <2>2 DEF Poll, Fetch, FetchFails, Replied, Store, SendUpdate, StoreFails,
                            vars, control
<1> QED BY <1>1, <1>2 DEF ScheduleTypes, OnGrid

LEMMA InitOnGrid == ASSUME Init PROVE ScheduleTypes /\ OnGrid
<1>1. 0 \in 0..MaxLate /\ DOMAIN Nothing = {} /\ NoEntry \in Entry
  BY ApplicationBounds DEF Nothing, NoEntry, Entry
<1> QED BY <1>1 DEF Init, ScheduleTypes, OnGrid

LEMMA NextOnGrid ==
  ASSUME ScheduleTypes, OnGrid, IInv, [Next]_vars PROVE ScheduleTypes' /\ OnGrid'
BY StartOnGrid, DownOnGrid, SecondOnGrid, TickOnGrid, EndTickOnGrid, LoopOnGrid, LoopEndsOnGrid,
   RunsOnGrid, CommandsOnGrid
DEF Next, Loop

(* The schedule keeps the grid the process began with, for every set of      *)
(* tasks and their intervals: neither the duration of runs nor what is       *)
(* skipped nor the second look of a tick moves a slot (scheduler.py: tick,   *)
(* _next_interval_run, _catch_up_guard).                                    *)
THEOREM GridIsKept == Spec => []GridKept
<1>1. Init => ScheduleTypes /\ OnGrid BY InitOnGrid
<1>2. IInv /\ ScheduleTypes /\ OnGrid /\ [Next]_vars => (ScheduleTypes /\ OnGrid)'
  BY NextOnGrid
<1>3. IInv /\ ScheduleTypes /\ OnGrid => GridKept
  <2> SUFFICES ASSUME IInv, ScheduleTypes, OnGrid PROVE GridKept OBVIOUS
  <2>1. TypeOK
    BY UpdatesAreMany DEF TypeOK, ScheduleTypes, Entry, Run, IInv, CommandTypes, Steps
  <2> QED BY <2>1 DEF GridKept, OnGrid
<1> QED BY <1>1, <1>2, <1>3, CommandsInvariant, PTL DEF Spec
=============================================================================
