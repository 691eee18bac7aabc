------------------------------ MODULE Database ------------------------------
(***************************************************************************)
(* infrastructure/db/connection.py: one SQLite connection for all tasks.    *)
(* Writers take turns by an asyncio lock; every statement goes to the       *)
(* thread of the connection, which works off its queue whether or not       *)
(* somebody still waits for the answer.                                     *)
(*                                                                         *)
(* A task makes one call: a transaction of two writes, a single write       *)
(* (execute) or a read (fetch_all).                                         *)
(***************************************************************************)
EXTENDS Naturals, Sequences, FiniteSets, SequencesExt

CONSTANTS
  Transactions, Singles, Readers,  \* the tasks, by the call they make
  MaxTries,       \* _MAX_LOCK_RETRIES
  MaxFaults       \* bound: cancellations, stops and ends that raise

VARIABLES
  pc,        \* where a task is
  lock,      \* _write_lock: the holder, then those who wait
  wire,      \* the queue of the connection's thread
  tries,     \* attempts of _execute_with_retry
  open,      \* SQLite: a transaction is open on the connection
  pending,   \* its writes
  stored,    \* committed writes
  seen,      \* what a reader got
  busy,      \* another process writes to the file
  stray,     \* history: a BEGIN was cancelled on its way, or the end of a
             \* transaction raised and left it open
  faults

vars == <<pc, lock, wire, tries, open, pending, stored, seen, busy, stray, faults>>

Tasks == Transactions \cup Singles \cup Readers
Writers == Transactions \cup Singles
Finished == {"done", "failed"}
Writes(t) == IF t \in Transactions THEN {<<t, 1>>, <<t, 2>>} ELSE {<<t, 1>>}

Holds(t) == lock # <<>> /\ Head(lock) = t

(* A statement of a task for the thread, which the task awaits. *)
Statement(t, sql) == [task |-> t, sql |-> sql, awaited |-> TRUE]
Send(t, sql) == Append(wire, Statement(t, sql))

(* The answer to a request that was cancelled reaches nobody. *)
Unawaited(t) ==
  [i \in 1..Len(wire) |->
     IF wire[i].task = t THEN [wire[i] EXCEPT !.awaited = FALSE] ELSE wire[i]]

Go(t, to) == pc' = [pc EXCEPT ![t] = to]

(***************************************************************************)
(* Defects: plausible errors in the actions below                           *)
(***************************************************************************)
(* The write lock is not taken. *)
AskUnlocked(t) ==
  /\ pc[t] = "idle" /\ t \in Writers
  /\ lock' = <<t>> \o lock
  /\ Go(t, "lock")
  /\ UNCHANGED <<wire, tries, open, pending, stored, seen, busy, stray, faults>>

(***************************************************************************)
(* The calls                                                                *)
(***************************************************************************)
Ask(t) ==
  /\ pc[t] = "idle" /\ t \in Writers
  /\ lock' = Append(lock, t)
  /\ Go(t, "lock")
  /\ UNCHANGED <<wire, tries, open, pending, stored, seen, busy, stray, faults>>

(* A read takes no lock. *)
AskRead(t) ==
  /\ pc[t] = "idle" /\ t \in Readers
  /\ wire' = Send(t, "READ")
  /\ Go(t, "read")
  /\ UNCHANGED <<lock, tries, open, pending, stored, seen, busy, stray, faults>>

First(t) == IF t \in Transactions THEN "BEGIN" ELSE "WRITE"

Enter(t) ==
  /\ pc[t] = "lock" /\ Holds(t)
  /\ wire' = Send(t, First(t))
  /\ tries' = [tries EXCEPT ![t] = 1]
  /\ Go(t, First(t))
  /\ UNCHANGED <<lock, open, pending, stored, seen, busy, stray, faults>>

(* The pause after "locked" or "busy" is over. *)
TryAgain(t) ==
  /\ pc[t] = "pause"
  /\ wire' = Send(t, First(t))
  /\ tries' = [tries EXCEPT ![t] = @ + 1]
  /\ Go(t, First(t))
  /\ UNCHANGED <<lock, open, pending, stored, seen, busy, stray, faults>>

(* What the block of the transaction does when its body raised. *)
OnError(t) == "ROLLBACK"

(* Leaving the block of the lock: the next one has its turn.                 *)
Released(t) ==
  LET at == {k \in DOMAIN lock : lock[k] = t}
  IN IF at = {} THEN lock ELSE RemoveAt(lock, CHOOSE k \in at : TRUE)

Fault == faults < MaxFaults /\ faults' = faults + 1

(***************************************************************************)
(* The thread of the connection takes the next statement, and the task that *)
(* awaits it goes on with the answer.                                       *)
(***************************************************************************)
Rest == Tail(wire)

(* _execute_with_retry: busy or locked is tried again, another error raises. *)
Refused(t, locked) ==
  IF locked /\ tries[t] < MaxTries
  THEN Go(t, "pause") /\ UNCHANGED lock
  ELSE Go(t, "failed") /\ lock' = Released(t)

Current == Head(wire)
Task == Current.task

BeginDone ==
  /\ Current.sql = "BEGIN" /\ ~open /\ ~busy
  /\ open' = TRUE
  /\ IF Current.awaited THEN wire' = Append(Rest, Statement(Task, "FIRST")) /\ Go(Task, "body")
     ELSE wire' = Rest /\ UNCHANGED pc
  /\ UNCHANGED <<lock, pending, stored, seen>>

(* "within a transaction", "database is locked", a constraint.              *)
Raised ==
  /\ \/ Current.sql = "BEGIN" /\ (open \/ busy)
     \/ Current.sql = "WRITE"
  /\ wire' = Rest
  /\ IF Current.awaited THEN Refused(Task, busy /\ ~open) ELSE UNCHANGED <<pc, lock>>
  /\ UNCHANGED <<open, pending, stored, seen>>

(* A single write joins the transaction that is open, whosever it is.       *)
SingleDone ==
  /\ Current.sql = "WRITE" /\ (open \/ ~busy)
  /\ pending' = IF open THEN pending \cup Writes(Task) ELSE pending
  /\ stored' = IF open THEN stored ELSE stored \cup Writes(Task)
  /\ wire' = Rest
  /\ IF Current.awaited THEN Go(Task, "done") /\ lock' = Released(Task)
     ELSE UNCHANGED <<pc, lock>>
  /\ UNCHANGED <<open, seen>>

BodyDone ==
  /\ \/ Current.sql = "FIRST" /\ pending' = pending \cup {<<Task, 1>>}
     \/ Current.sql = "SECOND" /\ pending' = pending \cup {<<Task, 2>>}
  /\ IF ~Current.awaited THEN wire' = Rest /\ UNCHANGED pc
     ELSE LET next == IF Current.sql = "FIRST" THEN "SECOND" ELSE "COMMIT"
          IN /\ wire' = Append(Rest, Statement(Task, next))
             /\ Go(Task, IF next = "COMMIT" THEN "commit" ELSE "body")
  /\ UNCHANGED <<lock, open, stored, seen>>

(* A statement of the body fails.                                           *)
BodyRaised ==
  /\ Current.sql \in {"FIRST", "SECOND"} /\ Current.awaited
  /\ wire' = Append(Rest, Statement(Task, OnError(Task))) /\ Go(Task, "rollback")
  /\ UNCHANGED <<lock, open, pending, stored, seen>>

Ended ==
  /\ Current.sql \in {"COMMIT", "ROLLBACK"}
  /\ open' = FALSE /\ pending' = {}
  /\ stored' = IF Current.sql = "COMMIT" THEN stored \cup pending ELSE stored
  /\ wire' = Rest
  /\ IF Current.awaited
     THEN Go(Task, IF pc[Task] = "commit" THEN "done" ELSE "failed") /\ lock' = Released(Task)
     ELSE UNCHANGED <<pc, lock>>
  /\ UNCHANGED seen

(* COMMIT or ROLLBACK raises, and nothing is sent after it: SQLite has given *)
(* the transaction up by itself (disk full, an error of the file), or it     *)
(* stays open (busy).                                                       *)
EndRaises ==
  /\ Current.sql \in {"COMMIT", "ROLLBACK"} /\ Fault
  /\ \/ open' = FALSE /\ pending' = {} /\ UNCHANGED stray
     \/ stray' = TRUE /\ UNCHANGED <<open, pending>>
  /\ wire' = Rest
  /\ IF Current.awaited THEN Go(Task, "failed") /\ lock' = Released(Task)
     ELSE UNCHANGED <<pc, lock>>
  /\ UNCHANGED <<stored, seen>>

ReadDone ==
  /\ Current.sql = "READ"
  /\ wire' = Rest
  /\ IF Current.awaited THEN Go(Task, "done") /\ seen' = [seen EXCEPT ![Task] = stored \cup pending]
     ELSE UNCHANGED <<pc, seen>>
  /\ UNCHANGED <<lock, open, pending, stored>>

Perform ==
  /\ wire # <<>>
  /\ \/ /\ BeginDone \/ Raised \/ SingleDone \/ BodyDone \/ BodyRaised \/ Ended \/ ReadDone
        /\ UNCHANGED <<stray, faults>>
     \/ EndRaises
  /\ UNCHANGED <<tries, busy>>

(***************************************************************************)
(* Cancellation, stops and other processes                                  *)
(***************************************************************************)
(* A task is cancelled.  In the body of a transaction it rolls back;         *)
(* everywhere else it leaves and gives up the lock, and what it sent to the  *)
(* thread is carried out all the same.                                       *)
Cancel(t) ==
  /\ Fault /\ pc[t] \notin Finished \cup {"idle"}
  /\ IF pc[t] = "body"
     THEN /\ wire' = Append(Unawaited(t), Statement(t, OnError(t)))
          /\ Go(t, "rollback")
          /\ UNCHANGED <<lock, stray>>
     ELSE /\ wire' = Unawaited(t)
          /\ Go(t, "failed")
          /\ lock' = Released(t)
          /\ stray' = (stray \/ pc[t] = "BEGIN")
  /\ UNCHANGED <<tries, open, pending, stored, seen, busy>>

(* The process stops, or the connection is closed: what is not committed is  *)
(* gone.                                                                     *)
Stop ==
  /\ Fault
  /\ wire' = <<>> /\ open' = FALSE /\ pending' = {} /\ lock' = <<>>
  /\ pc' = [t \in Tasks |-> IF pc[t] = "done" THEN "done" ELSE "failed"]
  /\ UNCHANGED <<tries, stored, seen, busy, stray>>

(* Another process begins or ends to write: scripts, a copy of the program. *)
Others ==
  /\ busy' = ~busy
  /\ ~busy => wire # <<>> /\ ~open
  /\ UNCHANGED <<pc, lock, wire, tries, open, pending, stored, seen, stray, faults>>

Init ==
  /\ pc = [t \in Tasks |-> "idle"]
  /\ lock = <<>> /\ wire = <<>>
  /\ tries = [t \in Tasks |-> 0]
  /\ open = FALSE /\ pending = {} /\ stored = {}
  /\ seen = [t \in Readers |-> {}]
  /\ busy = FALSE /\ stray = FALSE /\ faults = 0

Next ==
  \/ \E t \in Tasks : Ask(t) \/ AskRead(t) \/ Enter(t) \/ TryAgain(t) \/ Cancel(t)
  \/ Perform \/ Stop \/ Others

Spec == Init /\ [][Next]_vars

(* The loop runs the tasks that can go on, the thread works off its queue.  *)
Fairness == WF_vars(Perform) /\ \A t \in Tasks : WF_vars(Enter(t) \/ TryAgain(t))

FairSpec == Spec /\ Fairness

(***************************************************************************)
(* Properties                                                               *)
(***************************************************************************)
(* A transaction is stored as a whole or not at all, and what the caller was *)
(* told is written is stored, whoever was cancelled, failed or had to wait - *)
(* unless a transaction may have been left open: by a BEGIN that was         *)
(* cancelled on its way, or by an end that raised (transaction, execute).    *)
AllOrNothing ==
  \A t \in Writers :
    /\ stored \cap Writes(t) \in {{}, Writes(t)}
    /\ pc[t] = "done" /\ ~stray => Writes(t) \subseteq stored

(* Every writer gets its turn and returns or raises, whatever became of      *)
(* those before it.                                                          *)
WritersEnd == \A t \in Writers : pc[t] = "lock" ~> pc[t] \in Finished

(***************************************************************************)
(* What comments say and the code does not do                               *)
(***************************************************************************)
(* The operations of a block are carried out atomically and its transaction  *)
(* is short (transaction): when no task is at work on it, none is open.  A   *)
(* BEGIN that was cancelled on its way, or a COMMIT that raises, leaves one  *)
(* open for good: later transactions fail, and single writes join it and are *)
(* never committed.                                                         *)
NoneLeftOpen ==
  open => wire # <<>> \/ \E t \in Transactions : pc[t] \in {"body", "commit", "rollback"}

(* A reader sees transactions as a whole: reads share the connection of the  *)
(* writers and see what is not committed.                                    *)
ReadsSeeWhole ==
  \A r \in Readers : \A t \in Transactions : seen[r] \cap Writes(t) \in {{}, Writes(t)}
=============================================================================
