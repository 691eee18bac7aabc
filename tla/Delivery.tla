------------------------------ MODULE Delivery ------------------------------
(***************************************************************************)
(* The notifications of confirmed opportunities: the dispatcher's passes    *)
(* over the queue, the Telegram transport it shares with the messages of    *)
(* the system and of the commands, the recorded attempts, the settling of   *)
(* the opportunity, and the recovery after a stop.  opp, queue, published,  *)
(* note, attempts, rows and cooling are in the database; the rest is        *)
(* memory.  There is one pass at a time, and it gives way at every read,    *)
(* write and send; confirmations are published by several checks at once.   *)
(***************************************************************************)
EXTENDS Integers, Sequences, FiniteSets, Functions, SequencesExt

CONSTANTS
  Opps,             \* opportunities
  Destinations,     \* sequence of the configured destinations
  Unsendable,       \* opportunities without a text or a transport
  MaxAttempts,      \* notifications.max_attempts
  BatchLimit,       \* notifications.queue_capacity: the notes of one pass
  Deduplicate,      \* resources.deduplicate_in_flight
  MaxFaults,        \* bound: exceptions that end a pass
  MaxStops          \* bound: shutdowns and crashes

ASSUME DeliveryAssumption ==
  /\ Unsendable \subseteq Opps
  /\ Destinations \in Seq(ToSet(Destinations)) /\ IsInjective(Destinations)
  /\ MaxAttempts \in Nat \ {0} /\ BatchLimit \in Nat \ {0}
  /\ Deduplicate \in BOOLEAN
  /\ MaxFaults \in Nat /\ MaxStops \in Nat

VARIABLES
  opp,        \* opportunities.status
  queue,      \* opportunities in the order of their sequence numbers
  published,  \* opportunities in the order of their publication
  note,       \* notifications.status
  attempts,   \* notifications.attempt_count
  rows,       \* notification_attempts: the recorded numbers
  cooling,    \* notes whose next_attempt_at has not come
  prepared,   \* opportunities with numbers whose publication is not committed
  pc,         \* where the pass is
  batch,      \* the notes it still has to treat, in their order
  receipt,    \* the transport's answer for the first of them
  settled,    \* opportunities whose delivery it has to settle
  wire,       \* whose request the pass waits for
  others,     \* another message is on the way to the first destination
  reached,    \* notes that were shown in the chat
  app, faults, stops

order == <<queue, published, prepared>>
stored == <<opp, note, attempts, rows, cooling>>
pass == <<pc, batch, receipt, settled, wire>>
bounds == <<faults, stops>>
vars == <<stored, order, pass, others, reached, app, bounds>>

Notes == Opps \X ToSet(Destinations)
NotesOf(o) == {o} \X ToSet(Destinations)
Final == {"sent", "failed"}
NoteStatuses == {"none", "queued", "sending", "retry_wait"} \union Final
Receipts == {"none", "delivered", "temporary", "permanent"}

(* The numbers of the notes: those of an opportunity in the order of the     *)
(* destinations, the opportunities in the order in which they got them.     *)
Earlier(q, a, b) == \E i, j \in DOMAIN q : i < j /\ q[i] = a /\ q[j] = b
Before(q, m, n) ==
  Earlier(q, m[1], n[1]) \/ (m[1] = n[1] /\ Earlier(Destinations, m[2], n[2]))

(* Defect: the note with the highest number comes first. *)
Follows(m, n) == Before(queue, n, m)
(* ORDER BY created_at, sequence *)
Precedes(m, n) == Before(queue, m, n)

(* claim_pending: of what is due, as much as one pass takes. *)
Pending == {n \in Notes \ cooling : note[n] \in {"queued", "retry_wait"}}
Claimable ==
  {n \in Pending : Cardinality({m \in Pending : Precedes(m, n)}) < BatchLimit}

(* The note that the pass treats: the first of those that are left.          *)
Current == CHOOSE n \in batch : \A m \in batch \ {n} : Precedes(n, m)

(* delivery_status_for *)
StatusFor(o) ==
  IF \A n \in NotesOf(o) : note[n] = "sent" THEN "notified"
  ELSE IF \A n \in NotesOf(o) : note[n] # "sent" THEN "notified_failed"
  ELSE "notified_partial"

(* Defect: one closed note settles its opportunity. *)
AnyFinal(o) == \E n \in NotesOf(o) : note[n] \in Final
AllFinal(o) == \A n \in NotesOf(o) : note[n] \in Final

-----------------------------------------------------------------------------
(* record_confirmation: the time and the numbers of the notes are taken     *)
(* before the transaction that publishes them.                              *)
Prepare(o) ==
  /\ app = "up"
  /\ ~Contains(queue, o)
  /\ queue' = Append(queue, o)
  /\ prepared' = prepared \union {o}
  /\ UNCHANGED <<opp, published, note, attempts, rows, cooling, pass, others, reached, app, bounds>>

Publish(o) ==
  /\ o \in prepared
  /\ prepared' = prepared \ {o}
  /\ opp' = [opp EXCEPT ![o] = "confirmed"]
  /\ published' = Append(published, o)
  /\ note' = [n \in Notes |-> IF n \in NotesOf(o) THEN "queued" ELSE note[n]]
  /\ UNCHANGED <<queue, attempts, rows, cooling, pass, others, reached, app, bounds>>

(* The backoff of a note is over. *)
Elapse(n) ==
  /\ n \in cooling
  /\ cooling' = cooling \ {n}
  /\ UNCHANGED <<opp, order, note, attempts, rows, pass, others, reached, app, bounds>>

-----------------------------------------------------------------------------
(* One pass of dispatch_pending *)

Claim ==
  /\ app = "up" /\ pc = "idle"
  /\ Claimable # {}
  /\ batch' = Claimable
  /\ pc' = "next"
  /\ UNCHANGED <<stored, order, receipt, settled, wire, others, reached, app, bounds>>

Begin ==
  /\ pc = "next" /\ batch # {} /\ Current[1] \notin Unsendable
  /\ note' = [note EXCEPT ![Current] = "sending"]
  /\ attempts' = [attempts EXCEPT ![Current] = @ + 1]
  /\ cooling' = cooling \ {Current}
  /\ pc' = "sending"
  /\ UNCHANGED <<opp, order, rows, batch, receipt, settled, wire, others, reached, app, bounds>>

(* TelegramAdapter.send: the key of the deduplication is the destination,   *)
(* so the request joins another message that is on its way there.           *)
Send ==
  /\ pc = "sending"
  /\ wire' = IF Deduplicate /\ others /\ Current[2] = Destinations[1] THEN "joined" ELSE "own"
  /\ pc' = "waiting"
  /\ UNCHANGED <<stored, order, batch, receipt, settled, others, reached, app, bounds>>

(* Defect: a temporary error counts as a delivery. *)
AnswerAnyway ==
  /\ pc = "waiting" /\ wire = "own"
  /\ receipt' = "delivered"
  /\ \/ reached' = reached \union {Current}
     \/ UNCHANGED reached
  /\ wire' = "none"
  /\ pc' = "answered"
  /\ UNCHANGED <<stored, order, batch, settled, others, app, bounds>>

(* The answer of Telegram, an error, or the time-out of the request; the    *)
(* message may have been shown without an answer.                           *)
Answer ==
  /\ pc = "waiting" /\ wire = "own"
  /\ \E r \in Receipts \ {"none"} :
       /\ receipt' = r
       /\ \/ r # "permanent" /\ reached' = reached \union {Current}
          \/ r # "delivered" /\ UNCHANGED reached
  /\ wire' = "none"
  /\ pc' = "answered"
  /\ UNCHANGED <<stored, order, batch, settled, others, app, bounds>>

(* The UNIQUE constraint on notification and number. *)
New(n, k) == k \notin rows[n]

RecordAttempt ==
  /\ pc = "answered"
  /\ New(Current, attempts[Current])
  /\ rows' = [rows EXCEPT ![Current] = @ \union {attempts[Current]}]
  /\ pc' = "closing"
  /\ UNCHANGED <<opp, order, note, attempts, cooling, batch, receipt, settled, wire,
                 others, reached, app, bounds>>

(* What _apply makes of the receipt. *)
Verdict ==
  CASE receipt = "delivered" -> "sent"
    [] receipt = "temporary" /\ attempts[Current] < MaxAttempts -> "retry_wait"
    [] OTHER -> "failed"
NextNote == batch' = batch \ {Current} /\ pc' = "next" /\ receipt' = "none"

(* Defect: only what was delivered is settled. *)
CloseDeliveredOnly ==
  /\ pc = "closing"
  /\ note' = [note EXCEPT ![Current] = Verdict]
  /\ IF Verdict = "sent"
     THEN settled' = settled \union {Current[1]} /\ UNCHANGED cooling
     ELSE cooling' = cooling \union {Current} /\ UNCHANGED settled
  /\ NextNote
  /\ UNCHANGED <<opp, order, attempts, rows, wire, others, reached, app, bounds>>

Close ==
  /\ pc = "closing"
  /\ note' = [note EXCEPT ![Current] = Verdict]
  /\ IF Verdict \in Final
     THEN settled' = settled \union {Current[1]} /\ UNCHANGED cooling
     ELSE cooling' = cooling \union {Current} /\ UNCHANGED settled
  /\ NextNote
  /\ UNCHANGED <<opp, order, attempts, rows, wire, others, reached, app, bounds>>

(* _fail: a note that cannot be sent is recorded and closed at once; its    *)
(* number is not counted before its status is written.                      *)
RecordRefusal ==
  /\ pc = "next" /\ batch # {} /\ Current[1] \in Unsendable
  /\ New(Current, attempts[Current] + 1)
  /\ rows' = [rows EXCEPT ![Current] = @ \union {attempts[Current] + 1}]
  /\ pc' = "refusing"
  /\ UNCHANGED <<opp, order, note, attempts, cooling, batch, receipt, settled, wire,
                 others, reached, app, bounds>>

CloseRefusal ==
  /\ pc = "refusing"
  /\ note' = [note EXCEPT ![Current] = "failed"]
  /\ attempts' = [attempts EXCEPT ![Current] = @ + 1]
  /\ settled' = settled \union {Current[1]}
  /\ NextNote
  /\ UNCHANGED <<opp, order, rows, cooling, wire, others, reached, app, bounds>>

(* The report of the pass: settle_delivery of each opportunity in it. *)
Settle(o) ==
  /\ pc = "next" /\ batch = {}
  /\ o \in settled
  /\ opp' = IF AllFinal(o) THEN [opp EXCEPT ![o] = StatusFor(o)] ELSE opp
  /\ settled' = settled \ {o}
  /\ UNCHANGED <<order, note, attempts, rows, cooling, pc, batch, receipt, wire,
                 others, reached, app, bounds>>

EndPass ==
  /\ pc = "next" /\ batch = {} /\ settled = {}
  /\ pc' = "idle"
  /\ UNCHANGED <<stored, order, batch, receipt, settled, wire, others, reached, app, bounds>>

(* An exception ends the pass: what it claimed and has to settle is lost.   *)
LosePass ==
  /\ pc' = "idle" /\ batch' = {} /\ receipt' = "none" /\ settled' = {} /\ wire' = "none"

Abort ==
  /\ pc # "idle"
  /\ faults < MaxFaults /\ faults' = faults + 1
  /\ LosePass
  /\ UNCHANGED <<stored, order, others, reached, app, stops>>

(* A number that is recorded already violates the constraint. *)
AbortOnDuplicate ==
  /\ \/ pc = "answered" /\ ~New(Current, attempts[Current])
     \/ /\ pc = "next" /\ batch # {} /\ Current[1] \in Unsendable
        /\ ~New(Current, attempts[Current] + 1)
  /\ LosePass
  /\ UNCHANGED <<stored, order, others, reached, app, bounds>>

-----------------------------------------------------------------------------
(* Messages of the system notifier and answers to commands: they have the   *)
(* first destination.                                                       *)

OtherBegins ==
  /\ app = "up"
  /\ ~others
  /\ ~(Deduplicate /\ pc = "waiting" /\ wire = "own" /\ Current[2] = Destinations[1])
  /\ others' = TRUE
  /\ UNCHANGED <<stored, order, pass, reached, app, bounds>>

(* Whoever has joined gets the same answer. *)
OtherEnds ==
  /\ others
  /\ others' = FALSE
  /\ IF pc = "waiting" /\ wire = "joined"
     THEN /\ \E r \in Receipts \ {"none"} : receipt' = r
          /\ wire' = "none"
          /\ pc' = "answered"
     ELSE UNCHANGED <<receipt, wire, pc>>
  /\ UNCHANGED <<stored, order, batch, settled, reached, app, bounds>>

-----------------------------------------------------------------------------
(* Shutdown or crash; a request on the way may still arrive *)
Stop ==
  /\ app # "down"
  /\ stops < MaxStops /\ stops' = stops + 1
  /\ app' = "down"
  /\ others' = FALSE
  /\ prepared' = {}
  /\ LosePass
  /\ \/ UNCHANGED reached
     \/ pc = "waiting" /\ wire = "own" /\ reached' = reached \union {Current}
  /\ UNCHANGED <<stored, queue, published, faults>>

Start ==
  /\ app = "down"
  /\ app' = "recovering"
  /\ UNCHANGED <<stored, order, pass, others, reached, bounds>>

(* RecoveryService._requeue_notification *)
Requeue(n) ==
  /\ app = "recovering"
  /\ note[n] = "sending"
  /\ note' = [note EXCEPT ![n] = "queued"]
  /\ cooling' = cooling \ {n}
  /\ UNCHANGED <<opp, order, attempts, rows, pass, others, reached, app, bounds>>

Resume ==
  /\ app = "recovering"
  /\ \A n \in Notes : note[n] # "sending"
  /\ app' = "up"
  /\ UNCHANGED <<stored, order, pass, others, reached, bounds>>

-----------------------------------------------------------------------------
Init ==
  /\ opp = [o \in Opps |-> "none"]
  /\ queue = <<>> /\ published = <<>> /\ prepared = {}
  /\ note = [n \in Notes |-> "none"]
  /\ attempts = [n \in Notes |-> 0]
  /\ rows = [n \in Notes |-> {}]
  /\ cooling = {}
  /\ pc = "idle" /\ batch = {} /\ receipt = "none" /\ settled = {} /\ wire = "none"
  /\ others = FALSE
  /\ reached = {}
  /\ app = "up"
  /\ faults = 0 /\ stops = 0

Dispatch ==
  \/ Claim \/ Begin \/ Send \/ Answer \/ RecordAttempt \/ Close
  \/ RecordRefusal \/ CloseRefusal
  \/ \E o \in Opps : Settle(o)
  \/ EndPass

Recovery == Start \/ (\E n \in Notes : Requeue(n)) \/ Resume

Next ==
  \/ \E o \in Opps : Prepare(o) \/ Publish(o)
  \/ \E n \in Notes : Elapse(n)
  \/ Dispatch \/ Abort \/ AbortOnDuplicate
  \/ OtherBegins \/ OtherEnds
  \/ Stop \/ Recovery

Spec == Init /\ [][Next]_vars

(* The scheduler starts a pass every ten seconds, requests end by their     *)
(* time-out, and backoffs pass.                                             *)
FairSpec ==
  /\ Spec
  /\ WF_vars(Dispatch) /\ WF_vars(Recovery)
  /\ \A n \in Notes : WF_vars(Elapse(n))
  /\ WF_vars(OtherEnds)

-----------------------------------------------------------------------------
TypeOK ==
  /\ opp \in [Opps -> {"none", "confirmed", "notified", "notified_partial",
                       "notified_failed"}]
  /\ queue \in Seq(Opps) /\ published \in Seq(Opps)
  /\ prepared \subseteq Opps
  /\ note \in [Notes -> NoteStatuses]
  /\ attempts \in [Notes -> 0 .. MaxAttempts + MaxStops]
  /\ rows \in [Notes -> SUBSET (1 .. MaxAttempts + MaxStops)]
  /\ cooling \subseteq Notes
  /\ pc \in {"idle", "next", "sending", "waiting", "answered", "closing", "refusing"}
  /\ batch \subseteq Notes
  /\ receipt \in Receipts
  /\ settled \subseteq Opps
  /\ wire \in {"none", "own", "joined"}
  /\ others \in BOOLEAN
  /\ reached \subseteq Notes
  /\ app \in {"up", "down", "recovering"}
  /\ faults \in 0 .. MaxFaults /\ stops \in 0 .. MaxStops

(* A note is tried max_attempts times at most, once more for every stop     *)
(* that came while it was being sent.                                       *)
AttemptsBounded ==
  \A n \in Notes : attempts[n] <= MaxAttempts + stops

(* Every outcome stands on a recorded attempt, and none is recorded that    *)
(* was not made.                                                            *)
OutcomesAreRecorded ==
  \A n \in Notes :
    /\ note[n] \in Final \union {"retry_wait"} => attempts[n] \in rows[n]
    /\ n[1] \notin Unsendable => rows[n] \subseteq 1 .. attempts[n]

(* The status of an opportunity says what became of all its notes.          *)
SettledAgrees ==
  \A o \in Opps :
    opp[o] \notin {"none", "confirmed"} => AllFinal(o) /\ opp[o] = StatusFor(o)

(* What is sent was shown in the chat.                                      *)
SentWasShown == \A n \in Notes : note[n] = "sent" => n \in reached

(* All of it: what the rows say of the attempts is what happened            *)
(* (dispatcher._deliver, _apply, _fail; record_attempt).                    *)
AttemptsAreTrue == TypeOK /\ AttemptsBounded /\ OutcomesAreRecorded /\ SentWasShown

(* A closed note is not sent again, whatever is retried or recovered.       *)
ClosedStays ==
  [][\A n \in Notes : note[n] \in Final => note'[n] = note[n]]_vars

(* Of two notes that are both numbered and published in this order, the     *)
(* first begins first: no retry, refusal, new pass or restart lets the      *)
(* later one overtake.  (Several checks may publish at once, and one that   *)
(* took its numbers earlier may be published later.)                        *)
FirstAttemptsInOrder ==
  [][\A n \in Notes :
       attempts[n] = 0 /\ attempts'[n] = 1 =>
         \A m \in Notes :
           Before(queue, m, n) /\ Before(published, m, n) => attempts[m] > 0]_vars

(* Both: notes go out in their order, and none again once it is closed      *)
(* (claim_pending, _recover_notifications).                                 *)
OutInOrder == FirstAttemptsInOrder /\ ClosedStays

(* A confirmed opportunity gets the outcome of its delivery, unless a pass  *)
(* was ended by an exception or the program was stopped.                    *)
DeliveryIsSettled ==
  \A o \in Opps :
    opp[o] = "confirmed" ~> (opp[o] # "confirmed" \/ faults > 0 \/ stops > 0)

-----------------------------------------------------------------------------
(* What the code does not keep                                              *)

(* One note that cannot be closed does not stop the others: an exception    *)
(* between the two writes of _fail leaves a record whose number every later *)
(* pass repeats, and the constraint ends each of them at this note.         *)
OthersAreNotBlocked ==
  \A n \in Notes : note[n] = "queued" ~> (note[n] # "queued" \/ stops > 0)
=============================================================================
