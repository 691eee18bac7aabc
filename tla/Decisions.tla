------------------------------ MODULE Decisions ------------------------------
(***************************************************************************)
(* What the confirmation of opportunities promises to everybody else: an    *)
(* opportunity that was asked about gets at most one verdict, the verdict   *)
(* stands, and only a confirmed opportunity is announced, once.             *)
(***************************************************************************)
CONSTANT Opps       \* opportunities

VARIABLES
  asked,      \* opportunities with a Level 2 job
  verdict,    \* "open", or how the job ended
  announced   \* opportunities whose notifications were queued

Verdicts == {"confirmed", "rejected", "failed", "expired"}

Init ==
  /\ asked = {}
  /\ verdict = [o \in Opps |-> "open"]
  /\ announced = {}

Ask(o) ==
  /\ asked' = asked \union {o}
  /\ UNCHANGED <<verdict, announced>>

Decide(o, v) ==
  /\ o \in asked
  /\ verdict[o] = "open"
  /\ verdict' = [verdict EXCEPT ![o] = v]
  /\ UNCHANGED <<asked, announced>>

Announce(o) ==
  /\ verdict[o] = "confirmed"
  /\ o \notin announced
  /\ announced' = announced \union {o}
  /\ UNCHANGED <<asked, verdict>>

Next ==
  \E o \in Opps :
    \/ Ask(o)
    \/ \E v \in Verdicts : Decide(o, v)
    \/ Announce(o)

Spec == Init /\ [][Next]_<<asked, verdict, announced>>
=============================================================================
