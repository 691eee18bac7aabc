------------------------- MODULE ConfirmationProofs -------------------------
(***************************************************************************)
(* Proofs about Confirmation, for every number of opportunities, every      *)
(* limit, every set of results and every number of stops and faults.        *)
(***************************************************************************)
EXTENDS Confirmation, TLAPS

Early == {"handed", "waiting", "loading", "starting"}
Unjudged == {"created", "verifying"}

(* What the place of a task says of the rows of its opportunity. *)
Row(o) ==
  /\ opp[o] = "none" <=> job[o] = "none"
  /\ opp[o] = "none" => pc[o] = "none" /\ o \notin told
  /\ pc[o] \in Early => opp[o] = "created" /\ job[o] = "queued"
  /\ pc[o] = "marking" => opp[o] = "created" /\ job[o] = "running"
  /\ pc[o] = "verifying" => opp[o] = "verifying" /\ job[o] = "running"
  /\ pc[o] \in {"saving", "closingJob"} => opp[o] \in Unjudged /\ job[o] \in Open
  /\ pc[o] = "closingOpp" => opp[o] \in Unjudged
  /\ pc[o] \in {"recording", "publishing"} => opp[o] = OppStatusFor(saved[o])
  /\ pc[o] \in {"closingOpp", "recording", "publishing"} => job[o] = JobStatusFor(saved[o])
  /\ pc[o] = "publishing" => OppStatusFor(saved[o]) \in Notifiable
  /\ pc[o] # "none" => o \notin told

Agree(o) ==
  /\ job[o] = "confirmed" =>
       /\ "verified_profitable" \in saved[o]
       /\ opp[o] \in Notifiable \union Unjudged \/ ExpiredUnfinished(o)
  /\ job[o] = "rejected" =>
       \/ opp[o] \in {"unprofitable", "route_unavailable"} \union Unjudged
       \/ ExpiredUnfinished(o)
  /\ job[o] = "failed" => opp[o] \in {"failed"} \union Unjudged \/ ExpiredUnfinished(o)
  /\ job[o] = "expired" => opp[o] \in {"expired"} \union Unjudged
  /\ opp[o] \in Notifiable => job[o] = "confirmed"
  /\ opp[o] \in {"unprofitable", "route_unavailable"} =>
       job[o] = "rejected" /\ saved[o] \subseteq Negative
  /\ opp[o] = "failed" => job[o] = "failed"
  /\ opp[o] = "expired" => job[o] = "expired" \/ ExpiredUnfinished(o)
  /\ o \in told => opp[o] \in Notifiable

Remembered(o) == pc[o] = "none" /\ opp[o] # "none" /\ o \notin dropped => Settled(o)

Kept(o) == Row(o) /\ Agree(o) /\ Remembered(o)

(* No task outlives the process. *)
Quiet == app \in {"down", "recovering"} => \A o \in Opps : pc[o] = "none"

(* The inductive invariant. *)
IInv == TypeOK /\ Quiet /\ \A o \in Opps : Kept(o)

(***************************************************************************)
(* The two mappings of results to statuses give the same verdict.           *)
(***************************************************************************)
LEMMA SameVerdict ==
  ASSUME NEW s
  PROVE  /\ JobStatusFor(s) \in {"confirmed", "rejected", "expired", "failed"}
         /\ OppStatusFor(s) \in OppStatuses \ {"none", "created", "verifying"}
         /\ OppStatusFor(s) \in Notifiable <=> JobStatusFor(s) = "confirmed"
         /\ JobStatusFor(s) = "confirmed" => "verified_profitable" \in s
         /\ OppStatusFor(s) \in {"unprofitable", "route_unavailable"} =>
              JobStatusFor(s) = "rejected" /\ s \subseteq Negative
         /\ JobStatusFor(s) = "rejected" => OppStatusFor(s) \in {"unprofitable", "route_unavailable"}
         /\ OppStatusFor(s) = "failed" <=> JobStatusFor(s) = "failed"
         /\ OppStatusFor(s) = "expired" <=> JobStatusFor(s) = "expired"
  BY DEF JobStatusFor, OppStatusFor, OppStatuses, Notifiable, Negative

(* Only the rows and the task of an opportunity matter to it. *)
LEMMA Untouched ==
  ASSUME NEW p \in Opps, Kept(p),
         opp'[p] = opp[p], job'[p] = job[p], saved'[p] = saved[p], pc'[p] = pc[p],
         p \in told' <=> p \in told, p \in dropped => p \in dropped',
         late \subseteq late'
  PROVE  Kept(p)'
  BY DEF Kept, Row, Agree, Remembered, Settled, ExpiredUnfinished

LEMMA InitInv == Init => IInv
  BY LimitsAssumption DEF Init, IInv, TypeOK, Quiet, Kept, Row, Agree, Remembered, ExpiredUnfinished, Early, Unjudged,
     OppStatuses, JobStatuses, PCs, Checking, Notifiable, Terms

(***************************************************************************)
(* The types                                                                *)
(***************************************************************************)
LEMMA TypeInv ==
  ASSUME TypeOK, [Next]_vars
  PROVE  TypeOK'
<1> USE LimitsAssumption, ResultsAssumption
<1>0. CASE UNCHANGED vars
  BY <1>0 DEF TypeOK, vars, rows, memory, process
<1>1. ASSUME NEW o \in Opps, Create(o) \/ Abandon(o) \/ Submit(o) \/ Refuse(o) \/ Enter(o)
      PROVE  TypeOK'
  BY <1>1 DEF TypeOK, Create, Abandon, Submit, Refuse, Enter, Go, Fault, rows, process,
     OppStatuses, JobStatuses, PCs, Checking
<1>2. ASSUME NEW o \in Opps, Look(o) \/ StartJob(o) \/ StartOpp(o) \/ Verify(o) \/ Raise(o)
      PROVE  TypeOK'
  <2>1. /\ {"expired"} \in SUBSET AmountStatuses /\ {} \in SUBSET AmountStatuses
        /\ Results \union {{"failed"}} \subseteq SUBSET AmountStatuses
    BY DEF AmountStatuses
  <2>2. CASE Verify(o)
    <3>1. PICK r \in Results \union {{"failed"}} : result' = [result EXCEPT ![o] = r]
      BY <2>2 DEF Verify
    <3>2. result' \in [Opps -> SUBSET AmountStatuses] BY <2>1, <3>1 DEF TypeOK
    <3> QED BY <2>2, <3>2 DEF TypeOK, Verify, Go, rows, process, PCs, Checking
  <2>3. CASE Look(o) \/ Raise(o)
    BY <2>1, <2>3 DEF TypeOK, Look, Raise, Go, Fault, rows, process, PCs, Checking
  <2>4. CASE StartJob(o) \/ StartOpp(o)
    BY <2>4 DEF TypeOK, StartJob, StartOpp, Go, process, OppStatuses, JobStatuses, PCs,
       Checking
  <2> QED BY <1>2, <2>2, <2>3, <2>4
<1>3. ASSUME NEW o \in Opps, Save(o) \/ CloseJob(o) \/ CloseOpp(o) \/ Record(o) \/ Publish(o)
      PROVE  TypeOK'
  <2>1. JobStatusFor(saved[o]) \in JobStatuses /\ OppStatusFor(saved[o]) \in OppStatuses
    BY SameVerdict DEF JobStatuses
  <2> QED BY <1>3, <2>1 DEF TypeOK, Save, CloseJob, CloseOpp, Record, Publish, Go, rows,
             process, PCs, Checking
<1>4. ASSUME NEW o \in Opps, NEW t \in Terms, Expire(o, t)
      PROVE  TypeOK'
  BY <1>4 DEF TypeOK, Expire, rows, memory, process
<1>5. CASE CancelAll \/ CloseDatabase \/ Crash
  BY <1>5 DEF TypeOK, CancelAll, CloseDatabase, Crash, Vanish, rows, PCs, AmountStatuses
<1>6. CASE Recovery
  BY <1>6 DEF TypeOK, Recovery, Start, RecoverJob, ExpireJob, ExpireOpp, Resume, rows,
     memory, process, JobStatuses, OppStatuses
<1> QED BY <1>0, <1>1, <1>2, <1>3, <1>4, <1>5, <1>6 DEF Next, Task

LEMMA QuietInv ==
  ASSUME IInv, [Next]_vars
  PROVE  Quiet'
<1>0. CASE UNCHANGED vars
  BY <1>0 DEF IInv, Quiet, vars, memory, process
<1>1. ASSUME NEW o \in Opps, Create(o) \/ Abandon(o) \/ Task(o) \/ Raise(o)
      PROVE  Quiet'
  <2>1. app' = app /\ app \notin {"down", "recovering"}
    BY <1>1 DEF IInv, Quiet, Create, Abandon, Task, Raise, Submit, Refuse, Enter, Look,
       StartJob, StartOpp, Verify, Save, CloseJob, CloseOpp, Record, Publish, process, Checking
  <2> QED BY <2>1 DEF Quiet
<1>2. ASSUME NEW o \in Opps, NEW t \in Terms, Expire(o, t)
      PROVE  Quiet'
  BY <1>2 DEF IInv, Quiet, Expire, memory, process
<1>3. CASE CancelAll \/ CloseDatabase \/ Crash
  BY <1>3 DEF IInv, Quiet, CancelAll, CloseDatabase, Crash, Vanish
<1>4. CASE Recovery
  BY <1>4 DEF IInv, Quiet, Recovery, Start, RecoverJob, ExpireJob, ExpireOpp, Resume,
     memory, process
<1> QED BY <1>0, <1>1, <1>2, <1>3, <1>4 DEF Next

(***************************************************************************)
(* Each step of a task leaves what the next one relies on                   *)
(***************************************************************************)
LEMMA HandOffKeeps ==
  ASSUME IInv, NEW o \in Opps,
         Create(o) \/ Abandon(o) \/ Submit(o) \/ Refuse(o) \/ Enter(o) \/ Look(o)
  PROVE  Kept(o)'
<1> USE DEF IInv, TypeOK, Kept, Row, Agree, Remembered, ExpiredUnfinished, Early, Unjudged, Open, Notifiable,
        Go, Fault, rows
<1>1. CASE Create(o) BY <1>1 DEF Create
<1>2. CASE Abandon(o) BY <1>2 DEF Abandon
<1>3. CASE Submit(o) BY <1>3 DEF Submit
<1>4. CASE Refuse(o) BY <1>4 DEF Refuse
<1>5. CASE Enter(o) BY <1>5 DEF Enter
<1>6. CASE Look(o) BY <1>6 DEF Look
<1> QED BY <1>1, <1>2, <1>3, <1>4, <1>5, <1>6

LEMMA CheckKeeps ==
  ASSUME IInv, NEW o \in Opps,
         StartJob(o) \/ StartOpp(o) \/ Verify(o) \/ Save(o) \/ Raise(o)
  PROVE  Kept(o)'
<1> USE DEF IInv, TypeOK, Kept, Row, Agree, Remembered, ExpiredUnfinished, Early, Unjudged, Open, Notifiable,
        Go, Fault, rows
<1>1. CASE StartJob(o) BY <1>1 DEF StartJob
<1>2. CASE StartOpp(o) BY <1>2 DEF StartOpp
<1>3. CASE Verify(o) BY <1>3 DEF Verify
<1>4. CASE Save(o) BY <1>4 DEF Save
<1>5. CASE Raise(o) BY <1>5 DEF Raise, Checking
<1> QED BY <1>1, <1>2, <1>3, <1>4, <1>5

LEMMA VerdictKeeps ==
  ASSUME IInv, NEW o \in Opps, CloseJob(o) \/ CloseOpp(o) \/ Record(o) \/ Publish(o)
  PROVE  Kept(o)'
<1> DEFINE j == JobStatusFor(saved[o])
           v == OppStatusFor(saved[o])
<1>0. /\ j \in {"confirmed", "rejected", "expired", "failed"}
      /\ v \in OppStatuses \ {"none", "created", "verifying"}
      /\ v \in Notifiable <=> j = "confirmed"
      /\ j = "confirmed" => "verified_profitable" \in saved[o]
      /\ v \in {"unprofitable", "route_unavailable"} => j = "rejected" /\ saved[o] \subseteq Negative
      /\ j = "rejected" => v \in {"unprofitable", "route_unavailable"}
      /\ v = "failed" <=> j = "failed"
      /\ v = "expired" <=> j = "expired"
  BY SameVerdict
<1> USE DEF IInv, TypeOK, Kept, Row, Agree, Remembered, ExpiredUnfinished, Settled, Early, Unjudged, Open,
        Notifiable, Go
<1>1. CASE CloseJob(o)
  <2>1. job'[o] = j /\ pc'[o] = "closingOpp" /\ UNCHANGED <<opp, saved, told, dropped>>
    BY <1>1 DEF CloseJob
  <2> QED BY <1>0, <1>1, <2>1 DEF CloseJob
<1>2. CASE CloseOpp(o)
  <2>1. opp'[o] = v /\ pc'[o] = "recording" /\ UNCHANGED <<job, saved, told, dropped>>
    BY <1>2 DEF CloseOpp
  <2> QED BY <1>0, <1>2, <2>1 DEF CloseOpp
<1>3. CASE Record(o)
  <2>1. opp'[o] = v /\ UNCHANGED <<job, saved, told, dropped>>
    BY <1>3 DEF Record
  <2>2. pc'[o] = IF v \in Notifiable THEN "publishing" ELSE "none"
    BY <1>3 DEF Record
  <2> QED BY <1>0, <1>3, <2>1, <2>2 DEF Record
<1>4. CASE Publish(o)
  <2>1. opp'[o] = v /\ pc'[o] = "none" /\ o \in told' /\ UNCHANGED <<job, saved, dropped>>
    BY <1>4 DEF Publish
  <2> QED BY <1>0, <1>4, <2>1 DEF Publish
<1> QED BY <1>1, <1>2, <1>3, <1>4

LEMMA StopKeeps ==
  ASSUME IInv, NEW o \in Opps, CancelAll \/ CloseDatabase \/ Crash
  PROVE  Kept(o)'
  BY DEF IInv, TypeOK, Kept, Row, Agree, Remembered, ExpiredUnfinished, Settled, Early, Unjudged, CancelAll,
     CloseDatabase, Crash, Vanish, rows

LEMMA RecoveryKeeps ==
  ASSUME IInv, NEW o \in Opps, RecoverJob(o) \/ ExpireJob(o) \/ ExpireOpp(o)
  PROVE  Kept(o)'
<1>0. pc[o] = "none" BY DEF IInv, Quiet, RecoverJob, ExpireJob, ExpireOpp
<1> USE DEF IInv, TypeOK, Kept, Row, Agree, Remembered, ExpiredUnfinished, Settled, Early, Unjudged, Open, Notifiable,
        memory
<1>1. CASE RecoverJob(o) \/ ExpireJob(o)
  <2>1. /\ job[o] \in Open /\ job'[o] \in {"queued", "expired"}
        /\ UNCHANGED <<opp, saved, told, late, pc, dropped>>
    BY <1>1 DEF RecoverJob, ExpireJob, OverdueJobs
  <2>2. opp[o] \in Unjudged \/ ExpiredUnfinished(o) BY <2>1 DEF OppStatuses
  <2> QED BY <1>0, <2>1, <2>2
<1>2. CASE ExpireOpp(o) BY <1>0, <1>2 DEF ExpireOpp, OverdueOpps
<1> QED BY <1>1, <1>2

(* A step of one opportunity leaves the others alone. *)
LEMMA OthersKept ==
  ASSUME IInv, NEW o \in Opps, NEW p \in Opps, p # o,
         \/ Create(o) \/ Abandon(o) \/ Task(o) \/ Raise(o)
         \/ RecoverJob(o) \/ ExpireJob(o) \/ ExpireOpp(o)
  PROVE  Kept(p)'
<1>1. /\ opp'[p] = opp[p] /\ job'[p] = job[p] /\ saved'[p] = saved[p] /\ pc'[p] = pc[p]
      /\ p \in told' <=> p \in told
      /\ p \in dropped => p \in dropped'
      /\ late' = late
  BY DEF IInv, TypeOK, Create, Abandon, Task, Raise, Submit, Refuse, Enter, Look, StartJob,
     StartOpp, Verify, Save, CloseJob, CloseOpp, Record, Publish, RecoverJob, ExpireJob,
     ExpireOpp, Go, Fault, rows, memory
<1> QED BY <1>1, Untouched DEF IInv

LEMMA NextInv == IInv /\ [Next]_vars => IInv'
<1> SUFFICES ASSUME IInv, [Next]_vars
             PROVE  \A p \in Opps : Kept(p)'
  BY TypeInv, QuietInv DEF IInv
<1> TAKE p \in Opps
<1>0. ASSUME UNCHANGED <<rows, memory>>, late \subseteq late'
      PROVE  Kept(p)'
  BY <1>0, Untouched DEF IInv, rows, memory
<1>1. CASE UNCHANGED vars BY <1>1, <1>0 DEF vars
<1>2. ASSUME NEW o \in Opps, Create(o) \/ Abandon(o) \/ Task(o) \/ Raise(o)
      PROVE  Kept(p)'
  <2>1. CASE p = o BY <2>1, <1>2, HandOffKeeps, CheckKeeps, VerdictKeeps DEF Task
  <2>2. CASE p # o BY <2>2, <1>2, OthersKept
  <2> QED BY <2>1, <2>2
<1>3. ASSUME NEW o \in Opps, NEW t \in Terms, Expire(o, t)
      PROVE  Kept(p)'
  BY <1>3, <1>0 DEF Expire
<1>4. CASE CancelAll \/ CloseDatabase \/ Crash BY <1>4, StopKeeps
<1>5. CASE Start \/ Resume BY <1>5, <1>0 DEF Start, Resume
<1>6. ASSUME NEW o \in Opps, RecoverJob(o) \/ ExpireJob(o) \/ ExpireOpp(o)
      PROVE  Kept(p)'
  <2>1. CASE p = o BY <2>1, <1>6, RecoveryKeeps
  <2>2. CASE p # o BY <2>2, <1>6, OthersKept
  <2> QED BY <2>1, <2>2
<1> QED BY <1>1, <1>2, <1>3, <1>4, <1>5, <1>6 DEF Next, Recovery

LEMMA InvHolds == Spec => []IInv
  BY InitInv, NextInv, PTL DEF Spec

(* Every variable keeps its type. *)
THEOREM ConfirmationTypeCorrect == Spec => []TypeOK
<1>1. IInv => TypeOK BY DEF IInv
<1> QED BY <1>1, InvHolds, PTL

(* Wherever the work is interrupted, job and opportunity have the same       *)
(* verdict as soon as both have one, except for an opportunity that recovery *)
(* expired after its task had been ended early.                             *)
THEOREM RowsAgree == Spec => []VerdictsAgree
<1>1. IInv => VerdictsAgree
  <2> SUFFICES ASSUME IInv, NEW o \in Opps
               PROVE  /\ job[o] \in DOMAIN Matching =>
                           \/ opp[o] \in Matching[job[o]] \union {"created", "verifying"}
                           \/ ExpiredUnfinished(o)
                      /\ \A verdict \in DOMAIN Matching :
                           opp[o] \in Matching[verdict] => job[o] = verdict \/ ExpiredUnfinished(o)
                      /\ job[o] = "confirmed" => "verified_profitable" \in saved[o]
                      /\ opp[o] \in {"unprofitable", "route_unavailable"} => saved[o] \subseteq Negative
                      /\ o \in told => opp[o] \in Notifiable
    BY DEF VerdictsAgree
  <2>1. /\ DOMAIN Matching = {"confirmed", "rejected", "failed", "expired"}
        /\ Matching["confirmed"] = Notifiable
        /\ Matching["rejected"] = {"unprofitable", "route_unavailable"}
        /\ Matching["failed"] = {"failed"} /\ Matching["expired"] = {"expired"}
    BY DEF Matching
  <2>2. Agree(o) BY DEF IInv, Kept
  <2>3. job[o] \in DOMAIN Matching =>
          \/ opp[o] \in Matching[job[o]] \union {"created", "verifying"}
          \/ ExpiredUnfinished(o)
    BY <2>1, <2>2 DEF Agree, Unjudged
  <2>4. ASSUME NEW verdict \in DOMAIN Matching, opp[o] \in Matching[verdict]
        PROVE  job[o] = verdict \/ ExpiredUnfinished(o)
    BY <2>1, <2>2, <2>4 DEF Agree
  <2> QED BY <2>2, <2>3, <2>4 DEF Agree
<1> QED BY <1>1, InvHolds, PTL

(* Nothing is left undecided that was not ended early. *)
THEOREM ForgetsNothing == Spec => []NothingForgotten
<1>1. IInv => NothingForgotten BY DEF IInv, Kept, Remembered, NothingForgotten
<1> QED BY <1>1, InvHolds, PTL

(***************************************************************************)
(* Confirmation implements Decisions                                        *)
(***************************************************************************)
Asked == {o \in Opps : job[o] # "none"}
Verdict == [o \in Opps |-> IF job[o] \in Open \union {"none"} THEN "open" ELSE job[o]]

LEMMA InitPromised == Init => Promise!Init
  BY DEF Init, Promise!Init, Open

(* A step of the job changes the verdict where it happens. *)
LEMMA StepPromised ==
  ASSUME IInv, [Next]_vars
  PROVE  [Promise!Next]_<<Asked, Verdict, told>>
<1>0. ASSUME job' = job, told' = told
      PROVE  [Promise!Next]_<<Asked, Verdict, told>>
  BY <1>0 DEF Asked, Verdict
<1>1. CASE UNCHANGED vars BY <1>1, <1>0 DEF vars, rows
<1>2. ASSUME NEW o \in Opps,
             \/ Abandon(o) \/ Submit(o) \/ Refuse(o) \/ Enter(o) \/ Look(o) \/ StartOpp(o)
             \/ Verify(o) \/ Raise(o) \/ Save(o) \/ CloseOpp(o) \/ Record(o) \/ ExpireOpp(o)
      PROVE  [Promise!Next]_<<Asked, Verdict, told>>
  BY <1>2, <1>0 DEF Abandon, Submit, Refuse, Enter, Look, StartOpp, Verify, Raise, Save,
     CloseOpp, Record, ExpireOpp, rows
<1>3. ASSUME NEW o \in Opps, NEW t \in Terms, Expire(o, t)
      PROVE  [Promise!Next]_<<Asked, Verdict, told>>
  BY <1>3, <1>0 DEF Expire, rows
<1>4. CASE CancelAll \/ CloseDatabase \/ Crash \/ Start \/ Resume
  BY <1>4, <1>0 DEF CancelAll, CloseDatabase, Crash, Vanish, Start, Resume, rows
<1>5. ASSUME NEW o \in Opps, Create(o)
      PROVE  Promise!Ask(o)
  <2>1. job[o] = "none" /\ job' = [job EXCEPT ![o] = "queued"] /\ told' = told
    BY <1>5 DEF Create, IInv, Kept, Row
  <2>2. Asked' = Asked \union {o} BY <2>1 DEF Asked, IInv, TypeOK
  <2>3. Verdict' = Verdict BY <2>1 DEF Verdict, IInv, TypeOK, Open
  <2> QED BY <2>1, <2>2, <2>3 DEF Promise!Ask, Asked, Verdict
<1>6. ASSUME NEW o \in Opps, NEW s, job[o] \in Open, job' = [job EXCEPT ![o] = s],
             s \in Open \union {"confirmed", "rejected", "failed", "expired"}, told' = told
      PROVE  [\E v \in Promise!Verdicts : Promise!Decide(o, v)]_<<Asked, Verdict, told>>
  <2>1. Asked' = Asked BY <1>6 DEF Asked, IInv, TypeOK, Open
  <2>2. o \in Asked /\ Verdict[o] = "open" BY <1>6 DEF Asked, Verdict, Open
  <2>3. CASE s \in Open
    <3>1. Verdict' = Verdict BY <1>6, <2>3 DEF Verdict, IInv, TypeOK
    <3> QED BY <2>1, <3>1, <1>6
  <2>4. CASE s \notin Open
    <3>1. s \in Promise!Verdicts BY <1>6, <2>4 DEF Promise!Verdicts
    <3>2. Verdict' = [Verdict EXCEPT ![o] = s]
      BY <1>6, <2>4 DEF Verdict, IInv, TypeOK, Open
    <3>3. Promise!Decide(o, s)
      BY <1>6, <2>1, <2>2, <3>2 DEF Promise!Decide, Asked, Verdict
    <3> QED BY <3>1, <3>3
  <2> QED BY <2>3, <2>4
<1>7. ASSUME NEW o \in Opps, StartJob(o)
      PROVE  [\E v \in Promise!Verdicts : Promise!Decide(o, v)]_<<Asked, Verdict, told>>
  BY <1>7, <1>6 DEF StartJob, IInv, Kept, Row, Early, Open
<1>8. ASSUME NEW o \in Opps, CloseJob(o)
      PROVE  [\E v \in Promise!Verdicts : Promise!Decide(o, v)]_<<Asked, Verdict, told>>
  <2>1. JobStatusFor(saved[o]) \in {"confirmed", "rejected", "failed", "expired"}
    BY SameVerdict
  <2> QED BY <1>8, <1>6, <2>1 DEF CloseJob, IInv, Kept, Row
<1>9. ASSUME NEW o \in Opps, RecoverJob(o) \/ ExpireJob(o)
      PROVE  [\E v \in Promise!Verdicts : Promise!Decide(o, v)]_<<Asked, Verdict, told>>
  BY <1>9, <1>6 DEF RecoverJob, ExpireJob, OverdueJobs, Open
<1>10. ASSUME NEW o \in Opps, Publish(o)
       PROVE  Promise!Announce(o)
  <2>1. job[o] = "confirmed" /\ o \notin told
    BY <1>10, SameVerdict DEF Publish, IInv, Kept, Row
  <2>2. Asked' = Asked /\ Verdict' = Verdict BY <1>10 DEF Publish, Asked, Verdict
  <2>3. Verdict[o] = "confirmed" BY <2>1 DEF Verdict, Open
  <2> QED BY <1>10, <2>1, <2>2, <2>3 DEF Publish, Promise!Announce, Asked, Verdict
<1> QED BY <1>1, <1>2, <1>3, <1>4, <1>5, <1>7, <1>8, <1>9, <1>10
        DEF Next, Task, Recovery, Promise!Next

(* The promise of Decisions is kept over exceptions, stops and restarts. *)
THEOREM ConfirmationImplementsDecisions == Spec => ImplementsDecisions
<1>1. IInv /\ [Next]_vars => [Promise!Next]_<<Asked, Verdict, told>> BY StepPromised
<1> QED BY <1>1, InitPromised, InvHolds, PTL
        DEF Spec, ImplementsDecisions, Promise!Spec, Asked, Verdict
=============================================================================
