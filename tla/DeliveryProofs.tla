---------------------------- MODULE DeliveryProofs ----------------------------
(***************************************************************************)
(* Proofs about Delivery, for every set of opportunities and list of        *)
(* destinations, and any numbers of attempts, notes of a pass, exceptions   *)
(* and stops.                                                               *)
(***************************************************************************)
EXTENDS Delivery, FiniteSetTheorems, SequenceTheorems, WellFoundedInduction, TLAPS

(***************************************************************************)
(* The order of the notes                                                   *)
(***************************************************************************)
Distinct(q) == \A i, j \in DOMAIN q : q[i] = q[j] => i = j
Among(q) == {q[i] : i \in DOMAIN q}

(* A set of numbers that is not empty has a first one.                       *)
LEMMA FirstNumber ==
  ASSUME NEW S, S \subseteq Nat, S # {} PROVE \E i \in S : \A j \in S : i <= j
<1>1. \E i \in S : \A j \in S : ~(<<j, i>> \in OpToRel(<, Nat))
  BY NatLessThanWellFounded, WFMin
<1>2. \A i, j \in Nat : j < i => <<j, i>> \in OpToRel(<, Nat)
  BY Zenon DEF OpToRel
<1>3. PICK i \in S : \A j \in S : ~(<<j, i>> \in OpToRel(<, Nat)) BY <1>1
<1> HIDE DEF OpToRel
<1>4. \A j \in S : ~(j < i) BY <1>2, <1>3
<1> QED BY <1>4

LEMMA EarlierIsStrict ==
  ASSUME NEW S, NEW q \in Seq(S), Distinct(q)
  PROVE  /\ \A a, b : Earlier(q, a, b) => a # b /\ ~Earlier(q, b, a)
         /\ \A a, b, c : Earlier(q, a, b) /\ Earlier(q, b, c) => Earlier(q, a, c)
<1>1. DOMAIN q = 1..Len(q) /\ Len(q) \in Nat OBVIOUS
<1>2. ASSUME NEW a, NEW b, Earlier(q, a, b) PROVE a # b /\ ~Earlier(q, b, a)
  BY <1>1, <1>2 DEF Earlier, Distinct
<1>3. ASSUME NEW a, NEW b, NEW c, Earlier(q, a, b), Earlier(q, b, c) PROVE Earlier(q, a, c)
  <2>1. PICK i, j \in DOMAIN q : i < j /\ q[i] = a /\ q[j] = b BY <1>3 DEF Earlier
  <2>2. PICK k, l \in DOMAIN q : k < l /\ q[k] = b /\ q[l] = c BY <1>3 DEF Earlier
  <2>3. j = k BY <2>1, <2>2 DEF Distinct
  <2>4. i < l BY <1>1, <2>1, <2>2, <2>3
  <2> QED BY <2>1, <2>2, <2>4 DEF Earlier
<1> QED BY <1>2, <1>3

LEMMA DestinationsDiffer ==
  Destinations \in Seq(ToSet(Destinations)) /\ Distinct(Destinations)
BY DeliveryAssumption DEF IsInjective, Distinct

LEMMA BeforeIsStrict ==
  ASSUME NEW S, NEW q \in Seq(S), Distinct(q)
  PROVE  /\ \A m, n : Before(q, m, n) => ~Before(q, n, m)
         /\ \A k, m, n : Before(q, k, m) /\ Before(q, m, n) => Before(q, k, n)
<1>1. /\ \A a, b : Earlier(Destinations, a, b) => a # b /\ ~Earlier(Destinations, b, a)
      /\ \A a, b, c : Earlier(Destinations, a, b) /\ Earlier(Destinations, b, c)
                        => Earlier(Destinations, a, c)
  BY DestinationsDiffer, EarlierIsStrict
<1>2. /\ \A a, b : Earlier(q, a, b) => a # b /\ ~Earlier(q, b, a)
      /\ \A a, b, c : Earlier(q, a, b) /\ Earlier(q, b, c) => Earlier(q, a, c)
  BY EarlierIsStrict
<1>3. ASSUME NEW m, NEW n, Before(q, m, n) PROVE ~Before(q, n, m)
  BY <1>1, <1>2, <1>3 DEF Before
<1>4. ASSUME NEW k, NEW m, NEW n, Before(q, k, m), Before(q, m, n) PROVE Before(q, k, n)
  BY <1>1, <1>2, <1>4 DEF Before
<1> QED BY <1>3, <1>4

(* What was there keeps its order when something new comes at the end.       *)
LEMMA AppendKeepsOrder ==
  ASSUME NEW S, NEW q \in Seq(S), NEW o \in S, o \notin Among(q)
  PROVE  /\ Append(q, o) \in Seq(S)
         /\ Distinct(q) => Distinct(Append(q, o))
         /\ Among(Append(q, o)) = Among(q) \union {o}
         /\ \A m, n : n[1] \in Among(q) => (Before(Append(q, o), m, n) <=> Before(q, m, n))
<1>1. /\ DOMAIN q = 1..Len(q) /\ Len(q) \in Nat /\ DOMAIN Append(q, o) = 1..(Len(q) + 1)
      /\ \A i \in DOMAIN q : i \in DOMAIN Append(q, o) /\ Append(q, o)[i] = q[i]
      /\ Append(q, o)[Len(q) + 1] = o /\ Append(q, o) \in Seq(S)
  OBVIOUS
<1>2. \A i \in DOMAIN Append(q, o) : i \in DOMAIN q \/ i = Len(q) + 1
  BY <1>1
<1>3. \A i \in DOMAIN q : q[i] # o BY DEF Among
<1>4. Distinct(q) => Distinct(Append(q, o)) BY <1>1, <1>2, <1>3 DEF Distinct
<1>5. Among(Append(q, o)) = Among(q) \union {o}
  <2>1. Len(q) + 1 \in DOMAIN Append(q, o) BY <1>1
  <2> QED BY <1>1, <1>2, <2>1 DEF Among
<1>6. ASSUME NEW a, NEW b, Earlier(q, a, b) PROVE Earlier(Append(q, o), a, b)
  BY <1>1, <1>6 DEF Earlier
<1>7. ASSUME NEW a, NEW b, b \in Among(q), Earlier(Append(q, o), a, b) PROVE Earlier(q, a, b)
  <2>1. PICK i, j \in DOMAIN Append(q, o) :
               i < j /\ Append(q, o)[i] = a /\ Append(q, o)[j] = b
    BY <1>7 DEF Earlier
  <2>2. b # o BY <1>7
  <2>3. j \in DOMAIN q BY <1>1, <1>2, <2>1, <2>2
  <2>4. i \in DOMAIN q BY <1>1, <2>1, <2>3
  <2> QED BY <1>1, <2>1, <2>3, <2>4 DEF Earlier
<1>8. ASSUME NEW m, NEW n, n[1] \in Among(q)
      PROVE  Before(Append(q, o), m, n) <=> Before(q, m, n)
  BY <1>6, <1>7, <1>8 DEF Before
<1> QED BY <1>1, <1>4, <1>5, <1>6, <1>7, <1>8

(* Of some notes that are numbered one comes first.                          *)
LEMMA SomeNoteIsFirst ==
  ASSUME NEW S, NEW q \in Seq(S), NEW N, N # {},
         N \subseteq Among(q) \X Among(Destinations)
  PROVE  \E n \in N : \A m \in N \ {n} : Before(q, n, m)
<1> DEFINE I == {i \in DOMAIN q : \E n \in N : n[1] = q[i]}
<1>1. DOMAIN q \subseteq Nat /\ DOMAIN Destinations \subseteq Nat
  BY DestinationsDiffer
<1>2. I # {} BY DEF Among
<1>3. PICK i \in I : \A k \in I : i <= k BY <1>1, <1>2, FirstNumber
<1> DEFINE J == {j \in DOMAIN Destinations : <<q[i], Destinations[j]>> \in N}
<1>4. J # {} BY <1>3 DEF Among
<1>5. PICK j \in J : \A k \in J : j <= k
  <2> HIDE DEF J, I
  <2>1. J \subseteq Nat BY <1>1 DEF J
  <2> QED BY <1>4, <2>1, FirstNumber
<1> DEFINE n == <<q[i], Destinations[j]>>
<1>6. n \in N BY <1>5
<1>7. ASSUME NEW m \in N \ {n} PROVE Before(q, n, m)
  <2>1. PICK k \in DOMAIN q, l \in DOMAIN Destinations : m = <<q[k], Destinations[l]>>
    BY DEF Among
  <2>2. k \in I BY <2>1
  <2>3. i <= k BY <1>3, <2>2
  <2>4. CASE k = i
    <3>1. l \in J BY <2>1, <2>4
    <3>2. j <= l /\ j # l BY <1>5, <2>1, <2>4, <3>1
    <3>3. j < l BY <1>1, <1>5, <3>2
    <3>4. j \in DOMAIN Destinations BY <1>5
    <3>5. Earlier(Destinations, Destinations[j], Destinations[l])
      BY <3>3, <3>4 DEF Earlier
    <3> QED BY <2>1, <2>4, <3>5 DEF Before
  <2>5. CASE k # i
    <3>1. i < k /\ i \in DOMAIN q BY <1>1, <1>3, <2>3, <2>5
    <3>2. Earlier(q, q[i], q[k]) BY <2>1, <3>1 DEF Earlier
    <3> QED BY <2>1, <3>2 DEF Before
  <2> QED BY <2>4, <2>5
<1> QED BY <1>6, <1>7

(***************************************************************************)
(* The invariant                                                            *)
(***************************************************************************)
Awake == {"queued", "retry_wait"}
Trying == {"sending", "waiting", "answered", "closing"}
Steps == {"idle", "next", "refusing"} \union Trying
Limit == MaxAttempts + stops

Types ==
  /\ opp \in [Opps -> {"none", "confirmed", "notified", "notified_partial",
                       "notified_failed"}]
  /\ queue \in Seq(Opps) /\ published \in Seq(Opps) /\ prepared \subseteq Opps
  /\ note \in [Notes -> NoteStatuses]
  /\ attempts \in [Notes -> Nat]
  /\ rows \in [Notes -> SUBSET Nat]
  /\ cooling \subseteq Notes
  /\ pc \in Steps
  /\ batch \subseteq Notes
  /\ receipt \in Receipts
  /\ settled \subseteq Opps
  /\ wire \in {"none", "own", "joined"}
  /\ others \in BOOLEAN
  /\ reached \subseteq Notes
  /\ app \in {"up", "down", "recovering"}
  /\ faults \in 0..MaxFaults /\ stops \in 0..MaxStops

(* An opportunity gets its numbers once, and its notes when it is published. *)
Numbered ==
  /\ Distinct(queue) /\ Distinct(published)
  /\ Among(published) \subseteq Among(queue) /\ prepared \subseteq Among(queue)
  /\ prepared \cap Among(published) = {}
  /\ \A o \in Opps : opp[o] = "none" <=> o \notin Among(published)
  /\ \A n \in Notes : note[n] = "none" <=> n[1] \notin Among(published)

(* A note that was never tried is in the queue, and due.                     *)
Untried ==
  \A n \in Notes : attempts[n] = 0 => note[n] \in {"none", "queued"} /\ n \notin cooling

(* What the pass has claimed waits for it, but for the note it treats.       *)
Claims ==
  /\ pc = "idle" => batch = {} /\ settled = {}
  /\ settled \subseteq Among(published)
  /\ pc \in Trying \union {"refusing"} => batch # {}
  /\ pc \in Trying => note[Current] = "sending" /\ Current[1] \notin Unsendable
  /\ pc = "refusing" => Current[1] \in Unsendable
  /\ \A n \in batch : note[n] \in Awake \/ (n = Current /\ pc \in Trying)
  /\ app # "up" => pc = "idle"

(* What precedes a claimed note and was never tried is claimed as well.      *)
InTurn ==
  \A n \in batch, m \in Notes :
    Precedes(m, n) /\ Before(published, m, n) /\ attempts[m] = 0 => m \in batch

(* A note that may be tried has a try left, where every stop grants one more *)
(* to the note that was being sent.                                         *)
TriesLeft ==
  \A n \in Notes :
    /\ attempts[n] <= Limit
    /\ note[n] \in {"none"} \union Awake => attempts[n] < Limit
    /\ app # "up" /\ note[n] = "sending" => attempts[n] < Limit

(* The records of the attempts.                                             *)
Records ==
  /\ \A n \in Notes :
       /\ note[n] \in Final \union {"retry_wait"} => attempts[n] \in rows[n]
       /\ rows[n] \subseteq 1..Limit
       /\ n[1] \notin Unsendable => rows[n] \subseteq 1..attempts[n]
  /\ pc = "closing" => attempts[Current] \in rows[Current]
  /\ pc = "refusing" => attempts[Current] + 1 \in rows[Current]

(* The transport tells the truth as long as requests are not merged.         *)
Shown ==
  ~Deduplicate =>
    /\ \A n \in Notes : note[n] = "sent" => n \in reached
    /\ wire # "joined"
    /\ pc \in {"answered", "closing"} /\ receipt = "delivered" => Current \in reached

IInv ==
  /\ Types /\ Numbered /\ Untried /\ Claims /\ InTurn /\ TriesLeft /\ Records /\ Shown
  /\ SettledAgrees

LEMMA LimitIsNatural == Types => Limit \in Nat /\ stops \in Nat /\ faults \in Nat
BY DeliveryAssumption DEF Types, Limit

LEMMA NotesOfAreNotes ==
  ASSUME NEW o \in Opps PROVE NotesOf(o) = {n \in Notes : n[1] = o}
BY DEF NotesOf, Notes

LEMMA NotesAre ==
  \A n \in Notes : n = <<n[1], n[2]>> /\ n[1] \in Opps /\ n[2] \in Among(Destinations)
BY DEF Notes, ToSet, Among

(* What the pass has claimed is published and has its numbers.               *)
LEMMA ClaimsArePublished ==
  ASSUME IInv, NEW n \in batch
  PROVE  n \in Notes /\ n[1] \in Among(published) /\ n[1] \in Among(queue)
<1>1. n \in Notes BY DEF IInv, Types
<1>2. note[n] # "none" BY <1>1 DEF IInv, Claims, Awake
<1> QED BY <1>1, <1>2 DEF IInv, Numbered

LEMMA CurrentIsFirst ==
  ASSUME IInv, batch # {}
  PROVE  Current \in batch /\ \A m \in batch \ {Current} : Precedes(Current, m)
<1>1. batch \subseteq Among(queue) \X Among(Destinations)
  BY ClaimsArePublished, NotesAre
<1>2. queue \in Seq(Opps) BY DEF IInv, Types
<1>3. \E n \in batch : \A m \in batch \ {n} : Before(queue, n, m)
  BY <1>1, <1>2, SomeNoteIsFirst
<1> QED BY <1>3 DEF Current, Precedes

LEMMA PrecedingIsStrict ==
  ASSUME IInv
  PROVE  /\ \A m, n : Precedes(m, n) => ~Precedes(n, m)
         /\ \A k, m, n : Precedes(k, m) /\ Precedes(m, n) => Precedes(k, n)
<1>1. queue \in Seq(Opps) /\ Distinct(queue) BY DEF IInv, Types, Numbered
<1> QED BY <1>1, BeforeIsStrict DEF Precedes

(* Only numbers and claims decide whose turn it is.                          *)
LEMMA SameTurn ==
  ASSUME UNCHANGED <<queue, batch>> PROVE Current' = Current
BY DEF Current, Precedes, Before, Earlier

LEMMA SameOrder ==
  ASSUME UNCHANGED queue PROVE \A m, n : Precedes(m, n)' <=> Precedes(m, n)
BY DEF Precedes, Before, Earlier

(* The verdict on an opportunity is that on its notes.                       *)
LEMMA SameVerdict ==
  ASSUME IInv, UNCHANGED opp, \A n \in Notes : note[n] \in Final => note'[n] = note[n]
  PROVE  SettledAgrees'
<1>1. SUFFICES ASSUME NEW o \in Opps, opp[o] \notin {"none", "confirmed"}
               PROVE  AllFinal(o)' /\ opp[o] = StatusFor(o)'
  BY DEF SettledAgrees
<1>2. AllFinal(o) /\ opp[o] = StatusFor(o) BY <1>1 DEF IInv, SettledAgrees
<1>3. \A n \in NotesOf(o) : n \in Notes /\ note'[n] = note[n] /\ note[n] \in Final
  BY <1>2, NotesOfAreNotes DEF AllFinal
<1> QED BY <1>2, <1>3 DEF AllFinal, StatusFor

(***************************************************************************)
(* Numbers and publication                                                  *)
(***************************************************************************)
LEMMA PrepareKeeps == ASSUME IInv, NEW o \in Opps, Prepare(o) PROVE IInv'
<1>1. o \notin Among(queue)
  <2>1. queue \in Seq(Opps) BY DEF IInv, Types
  <2> QED BY <2>1 DEF Prepare, Contains, Among
<1>2. /\ queue' = Append(queue, o) /\ prepared' = prepared \union {o} /\ app = "up"
      /\ UNCHANGED <<opp, published, note, attempts, rows, cooling, pass, others, reached,
                     app, bounds>>
  BY DEF Prepare
<1>3. /\ queue' \in Seq(Opps) /\ Distinct(queue)' /\ Among(queue)' = Among(queue) \union {o}
      /\ \A m, n : n[1] \in Among(queue) => (Before(queue', m, n) <=> Before(queue, m, n))
  <2>1. queue \in Seq(Opps) /\ Distinct(queue) BY DEF IInv, Types, Numbered
  <2> QED BY <1>1, <1>2, <2>1, AppendKeepsOrder
<1>4. \A m, n : n \in batch => (Precedes(m, n)' <=> Precedes(m, n))
  BY <1>3, ClaimsArePublished DEF Precedes
<1>5. batch # {} => Current' = Current
  <2> SUFFICES ASSUME batch # {} PROVE Current' = Current OBVIOUS
  <2>1. Current \in batch /\ \A m \in batch \ {Current} : Precedes(Current, m)
    BY CurrentIsFirst
  <2>2. Current' = CHOOSE n \in batch : \A m \in batch \ {n} : Precedes(n, m)'
    BY <1>2 DEF Current, pass
  <2>3. \A n \in batch : (\A m \in batch \ {n} : Precedes(n, m)')
                           <=> (\A m \in batch \ {n} : Precedes(n, m))
    BY <1>4
  <2>4. Current' \in batch /\ \A m \in batch \ {Current'} : Precedes(Current', m)
    BY <2>1, <2>2, <2>3
  <2> QED BY <2>1, <2>4, PrecedingIsStrict
<1>6. Types' BY <1>2, <1>3 DEF IInv, Types, pass, bounds
<1>7. Numbered' BY <1>1, <1>2, <1>3 DEF IInv, Numbered
<1>8. Untried' BY <1>2 DEF IInv, Untried
<1>9. Claims' BY <1>2, <1>5 DEF IInv, Claims, pass
<1>10. InTurn'
  BY <1>2, <1>4 DEF IInv, InTurn, pass, Before, Earlier
<1>11. TriesLeft' BY <1>2 DEF IInv, TriesLeft, Limit, bounds
<1>12. Records' BY <1>2, <1>5 DEF IInv, Records, Claims, Limit, pass, bounds, Trying
<1>13. Shown' BY <1>2, <1>5 DEF IInv, Shown, Claims, pass, Trying
<1>14. SettledAgrees' BY <1>2, SameVerdict
<1> QED BY <1>6, <1>7, <1>8, <1>9, <1>10, <1>11, <1>12, <1>13, <1>14 DEF IInv

LEMMA PublishKeeps == ASSUME IInv, NEW o \in Opps, Publish(o) PROVE IInv'
<1>1. o \in prepared /\ o \notin Among(published) /\ o \in Among(queue)
  BY DEF Publish, IInv, Numbered
<1>2. /\ prepared' = prepared \ {o} /\ published' = Append(published, o)
      /\ opp' = [opp EXCEPT ![o] = "confirmed"]
      /\ \A n \in Notes : note'[n] = IF n[1] = o THEN "queued" ELSE note[n]
      /\ note' \in [Notes -> NoteStatuses]
      /\ UNCHANGED <<queue, attempts, rows, cooling, pass, others, reached, app, bounds>>
  BY NotesOfAreNotes DEF Publish, IInv, Types, NoteStatuses
<1>3. /\ published' \in Seq(Opps) /\ Distinct(published)'
      /\ Among(published)' = Among(published) \union {o}
      /\ \A m, n : n[1] \in Among(published)
                     => (Before(published', m, n) <=> Before(published, m, n))
  <2>1. published \in Seq(Opps) /\ Distinct(published) BY DEF IInv, Types, Numbered
  <2> QED BY <1>1, <1>2, <2>1, AppendKeepsOrder
<1>4. Current' = Current BY <1>2, SameTurn DEF pass
<1>5. \A n \in Notes : n[1] = o => note[n] = "none" BY <1>1 DEF IInv, Numbered
<1>6. Types' BY <1>2, <1>3 DEF IInv, Types, pass, bounds
<1>7. Numbered' BY <1>1, <1>2, <1>3, <1>5 DEF IInv, Numbered, Types
<1>8. Untried' BY <1>2, <1>5 DEF IInv, Untried
<1>9. Claims'
  <2>1. \A n \in batch : n[1] # o /\ note'[n] = note[n]
    BY <1>1, <1>2, ClaimsArePublished
  <2>2. batch # {} => Current \in batch BY CurrentIsFirst
  <2> QED BY <1>2, <1>3, <1>4, <2>1, <2>2 DEF IInv, Claims, pass, Trying
<1>10. InTurn'
  <2>1. \A m, n : n \in batch /\ Before(published, m, n)' => Before(published, m, n)
    BY <1>3, ClaimsArePublished
  <2> QED BY <1>2, <2>1, SameOrder DEF IInv, InTurn, pass
<1>11. TriesLeft'
  BY <1>2, <1>5, LimitIsNatural DEF IInv, TriesLeft, Limit, bounds, Types, Awake
<1>12. Records'
  BY <1>2, <1>4, <1>5 DEF IInv, Records, Limit, pass, bounds, Final
<1>13. Shown' BY <1>2, <1>4 DEF IInv, Shown, pass
<1>14. SettledAgrees'
  <2>1. SUFFICES ASSUME NEW p \in Opps, opp'[p] \notin {"none", "confirmed"}
                 PROVE  AllFinal(p)' /\ opp'[p] = StatusFor(p)'
    BY DEF SettledAgrees
  <2>2. p # o /\ opp'[p] = opp[p] BY <1>2, <2>1 DEF IInv, Types
  <2>3. AllFinal(p) /\ opp[p] = StatusFor(p) BY <2>1, <2>2 DEF IInv, SettledAgrees
  <2>4. \A n \in NotesOf(p) : note'[n] = note[n] BY <1>2, <2>2, NotesOfAreNotes
  <2> QED BY <2>2, <2>3, <2>4 DEF AllFinal, StatusFor
<1> QED BY <1>6, <1>7, <1>8, <1>9, <1>10, <1>11, <1>12, <1>13, <1>14 DEF IInv

(***************************************************************************)
(* Steps that leave the notes as they are                                   *)
(***************************************************************************)
LEMMA NotesKept ==
  ASSUME IInv, UNCHANGED <<opp, queue, published, prepared, note, attempts>>,
         cooling' \subseteq cooling
  PROVE  Numbered' /\ Untried' /\ SettledAgrees'
<1>1. Numbered' BY DEF IInv, Numbered
<1>2. Untried' BY DEF IInv, Untried
<1>3. SettledAgrees' BY SameVerdict
<1> QED BY <1>1, <1>2, <1>3

LEMMA SameTries ==
  ASSUME IInv, UNCHANGED <<note, attempts, stops, app>> PROVE TriesLeft'
BY DEF IInv, TriesLeft, Limit

(* A pass that is given up, with whatever it had claimed.                    *)
LEMMA PassIsLost ==
  ASSUME IInv, LosePass,
         UNCHANGED <<opp, queue, published, prepared, note, attempts, rows, cooling, reached, stops>>
  PROVE  /\ Numbered' /\ Untried' /\ SettledAgrees'
         /\ Claims' /\ InTurn' /\ Records' /\ Shown'
<1>1. Numbered' /\ Untried' /\ SettledAgrees' BY NotesKept
<1>2. Claims' /\ InTurn' BY DEF LosePass, Claims, InTurn, Trying
<1>3. Records' BY DEF IInv, LosePass, Records, Limit
<1>4. Shown' BY DEF IInv, LosePass, Shown
<1> QED BY <1>1, <1>2, <1>3, <1>4

LEMMA ElapseKeeps == ASSUME IInv, NEW n \in Notes, Elapse(n) PROVE IInv'
<1>1. /\ cooling' \subseteq cooling /\ Current' = Current
      /\ UNCHANGED <<opp, queue, published, prepared, note, attempts, rows, pc, batch,
                     receipt, settled, wire, others, reached, app, faults, stops>>
  BY SameTurn DEF Elapse, order, pass, bounds
<1>2. Numbered' /\ Untried' /\ SettledAgrees' /\ TriesLeft' BY <1>1, NotesKept, SameTries
<1>3. Types' BY <1>1 DEF IInv, Types
<1>4. Claims' /\ InTurn' BY <1>1, SameOrder DEF IInv, Claims, InTurn
<1>5. Records' /\ Shown' BY <1>1 DEF IInv, Records, Shown, Limit
<1> QED BY <1>2, <1>3, <1>4, <1>5 DEF IInv

LEMMA AbortKeeps == ASSUME IInv, Abort \/ AbortOnDuplicate PROVE IInv'
<1>1. /\ LosePass /\ faults' \in 0..MaxFaults
      /\ UNCHANGED <<opp, queue, published, prepared, note, attempts, rows, cooling,
                     others, reached, app, stops>>
  BY LimitIsNatural, DeliveryAssumption
  DEF Abort, AbortOnDuplicate, IInv, Types, stored, order, bounds
<1>2. /\ Numbered' /\ Untried' /\ SettledAgrees' /\ TriesLeft'
      /\ Claims' /\ InTurn' /\ Records' /\ Shown'
  BY <1>1, PassIsLost, SameTries
<1>3. Types' BY <1>1 DEF IInv, Types, LosePass, Steps, Receipts
<1> QED BY <1>2, <1>3 DEF IInv

LEMMA StopKeeps == ASSUME IInv, Stop PROVE IInv'
<1>1. /\ LosePass /\ stops' = stops + 1 /\ stops' \in 0..MaxStops
      /\ app' = "down" /\ others' = FALSE /\ prepared' = {}
      /\ reached \subseteq reached' /\ reached' \subseteq Notes
      /\ UNCHANGED <<opp, queue, published, note, attempts, rows, cooling, faults>>
  <2>1. reached' = reached \/ (pc = "waiting" /\ reached' = reached \union {Current})
    BY DEF Stop
  <2>2. pc = "waiting" => Current \in Notes
    BY CurrentIsFirst DEF IInv, Claims, Types, Trying
  <2>3. reached \subseteq reached' /\ reached' \subseteq Notes
    BY <2>1, <2>2 DEF IInv, Types
  <2> QED BY <2>3, LimitIsNatural, DeliveryAssumption DEF Stop, IInv, Types, stored
<1>2. Limit' = Limit + 1 /\ Limit \in Nat
  BY <1>1, LimitIsNatural, DeliveryAssumption DEF Limit, IInv
<1>3. Numbered' BY <1>1 DEF IInv, Numbered
<1>4. Untried' /\ SettledAgrees' BY <1>1, SameVerdict DEF IInv, Untried
<1>5. TriesLeft' BY <1>1, <1>2 DEF IInv, TriesLeft, Types
<1>6. Claims' /\ InTurn' BY <1>1 DEF LosePass, Claims, InTurn, Trying
<1>7. Records'
  <2>1. 1..Limit \subseteq 1..Limit' BY <1>2
  <2> QED BY <1>1, <2>1 DEF IInv, LosePass, Records
<1>8. Shown' BY <1>1 DEF IInv, LosePass, Shown
<1>9. Types' BY <1>1 DEF IInv, Types, LosePass, Steps, Receipts
<1> QED BY <1>3, <1>4, <1>5, <1>6, <1>7, <1>8, <1>9 DEF IInv

LEMMA StartKeeps == ASSUME IInv, Start \/ Resume PROVE IInv'
<1>1. /\ app' \in {"up", "recovering"} /\ Current' = Current /\ pc = "idle"
      /\ UNCHANGED <<opp, queue, published, prepared, note, attempts, rows, cooling, pc,
                     batch, receipt, settled, wire, others, reached, faults, stops>>
  BY SameTurn DEF Start, Resume, IInv, Claims, stored, order, pass, bounds
<1>2. Numbered' /\ Untried' /\ SettledAgrees' BY <1>1, NotesKept
<1>3. TriesLeft'
  <2>1. app # "up" BY DEF Start, Resume
  <2> QED BY <1>1, <2>1 DEF IInv, TriesLeft, Limit
<1>4. Types' BY <1>1 DEF IInv, Types
<1>5. Claims' /\ InTurn' BY <1>1, SameOrder DEF IInv, Claims, InTurn
<1>6. Records' /\ Shown' BY <1>1 DEF IInv, Records, Shown, Limit
<1> QED BY <1>2, <1>3, <1>4, <1>5, <1>6 DEF IInv

(* Recovery puts a note back that was being sent: it was tried.              *)
LEMMA RequeueKeeps == ASSUME IInv, NEW n \in Notes, Requeue(n) PROVE IInv'
<1>1. /\ app = "recovering" /\ pc = "idle" /\ batch = {} /\ note[n] = "sending"
      /\ note' = [note EXCEPT ![n] = "queued"] /\ cooling' = cooling \ {n}
      /\ UNCHANGED <<opp, queue, published, prepared, attempts, rows, pc,
                     batch, receipt, settled, wire, others, reached, app, faults, stops>>
  BY DEF Requeue, IInv, Claims, order, pass, bounds
<1>2. /\ note' \in [Notes -> NoteStatuses] /\ note'[n] = "queued"
      /\ \A m \in Notes : m # n => note'[m] = note[m]
  BY <1>1 DEF IInv, Types, NoteStatuses
<1>3. Numbered' BY <1>1, <1>2 DEF IInv, Numbered
<1>4. Untried' BY <1>1, <1>2 DEF IInv, Untried
<1>5. SettledAgrees' BY <1>1, <1>2, SameVerdict DEF Final
<1>6. TriesLeft' BY <1>1, <1>2 DEF IInv, TriesLeft, Limit
<1>7. Types' BY <1>1, <1>2 DEF IInv, Types
<1>8. Claims' /\ InTurn' BY <1>1 DEF IInv, Claims, InTurn, Trying
<1>9. Records' BY <1>1, <1>2 DEF IInv, Records, Limit, Final
<1>10. Shown' BY <1>1, <1>2 DEF IInv, Shown
<1> QED BY <1>3, <1>4, <1>5, <1>6, <1>7, <1>8, <1>9, <1>10 DEF IInv

(***************************************************************************)
(* The pass                                                                 *)
(***************************************************************************)
LEMMA PendingIsFinite == ASSUME IInv PROVE IsFiniteSet(Pending)
<1>1. ASSUME NEW S, NEW q \in Seq(S) PROVE IsFiniteSet(Among(q))
  <2>1. IsFiniteSet(1..Len(q)) BY FS_Interval
  <2>2. q \in Surjection(1..Len(q), Among(q)) BY DEF Surjection, Among
  <2> QED BY <2>1, <2>2, FS_Surjection
<1>2. IsFiniteSet(Among(queue)) /\ IsFiniteSet(Among(Destinations))
  BY <1>1, DestinationsDiffer DEF IInv, Types
<1>3. IsFiniteSet(Among(queue) \X Among(Destinations)) BY <1>2, FS_Product
<1>4. Pending \subseteq Among(queue) \X Among(Destinations)
  BY NotesAre DEF Pending, IInv, Numbered
<1> QED BY <1>3, <1>4, FS_Subset

(* A claim takes with a note what precedes it and was never tried.           *)
LEMMA ClaimInTurn ==
  ASSUME IInv, NEW n \in Claimable, NEW m \in Notes,
         Precedes(m, n), Before(published, m, n), attempts[m] = 0
  PROVE  m \in Claimable
<1>1. n \in Notes /\ note[n] # "none" BY DEF Claimable, Pending
<1>2. n[1] \in Among(published) BY <1>1 DEF IInv, Numbered
<1>3. m[1] \in Among(published)
  BY <1>2 DEF Before, Earlier, Among
<1>4. m \in Pending
  BY <1>3 DEF IInv, Numbered, Untried, Pending
<1> DEFINE M == {k \in Pending : Precedes(k, m)}
           N == {k \in Pending : Precedes(k, n)}
<1>5. M \subseteq N BY PrecedingIsStrict
<1>6. IsFiniteSet(M) /\ IsFiniteSet(N) BY PendingIsFinite, FS_Subset
<1>7. Cardinality(M) <= Cardinality(N) BY <1>5, <1>6, FS_Subset
<1>8. Cardinality(M) \in Nat /\ Cardinality(N) \in Nat BY <1>6, FS_CardinalityType
<1>9. Cardinality(N) < BatchLimit BY DEF Claimable
<1>10. Cardinality(M) < BatchLimit BY <1>7, <1>8, <1>9, DeliveryAssumption
<1> QED BY <1>4, <1>10 DEF Claimable

LEMMA ClaimKeeps == ASSUME IInv, Claim PROVE IInv'
<1>1. /\ app = "up" /\ pc = "idle" /\ batch' = Claimable /\ pc' = "next"
      /\ UNCHANGED <<opp, queue, published, prepared, note, attempts, rows, cooling,
                     receipt, settled, wire, others, reached, app, faults, stops>>
  BY DEF Claim, stored, order, bounds
<1>2. Numbered' /\ Untried' /\ SettledAgrees' /\ TriesLeft' BY <1>1, NotesKept, SameTries
<1>3. Types' BY <1>1 DEF IInv, Types, Steps, Claimable, Pending
<1>4. Claims' BY <1>1 DEF IInv, Claims, Claimable, Pending, Awake, Trying
<1>5. InTurn' BY <1>1, ClaimInTurn, SameOrder DEF InTurn
<1>6. Records' BY <1>1 DEF IInv, Records, Limit
<1>7. Shown' BY <1>1 DEF IInv, Shown
<1> QED BY <1>2, <1>3, <1>4, <1>5, <1>6, <1>7 DEF IInv

(* The note the pass begins with was waiting for it.                         *)
LEMMA NextWaits ==
  ASSUME IInv, pc = "next", batch # {}
  PROVE  /\ Current \in batch /\ Current \in Notes /\ note[Current] \in Awake
         /\ attempts[Current] \in Nat /\ attempts[Current] + 1 <= Limit
<1>1. Current \in batch BY CurrentIsFirst
<1>2. Current \in Notes /\ attempts[Current] \in Nat BY <1>1 DEF IInv, Types
<1>3. note[Current] \in Awake BY <1>1 DEF IInv, Claims, Trying
<1>4. attempts[Current] < Limit BY <1>2, <1>3 DEF IInv, TriesLeft
<1> QED BY <1>1, <1>2, <1>3, <1>4, LimitIsNatural DEF IInv

LEMMA BeginKeeps == ASSUME IInv, Begin PROVE IInv'
<1>1. /\ pc = "next" /\ batch # {} /\ Current[1] \notin Unsendable /\ pc' = "sending"
      /\ note' = [note EXCEPT ![Current] = "sending"]
      /\ attempts' = [attempts EXCEPT ![Current] = @ + 1]
      /\ cooling' = cooling \ {Current}
      /\ UNCHANGED <<opp, queue, published, prepared, rows, batch, receipt, settled, wire,
                     others, reached, app, faults, stops>>
  BY DEF Begin, order, bounds
<1>2. /\ Current' = Current /\ Current \in batch /\ Current \in Notes
      /\ note[Current] \in Awake /\ attempts[Current] \in Nat /\ attempts[Current] + 1 <= Limit
  BY <1>1, NextWaits, SameTurn
<1>3. /\ note' \in [Notes -> NoteStatuses] /\ note'[Current] = "sending"
      /\ attempts' \in [Notes -> Nat] /\ attempts'[Current] = attempts[Current] + 1
      /\ \A m \in Notes : m # Current => note'[m] = note[m] /\ attempts'[m] = attempts[m]
  BY <1>1, <1>2 DEF IInv, Types, NoteStatuses
<1>4. Types' BY <1>1, <1>3 DEF IInv, Types, Steps, Trying
<1>5. Numbered' BY <1>1, <1>2, <1>3 DEF IInv, Numbered, Awake
<1>6. Untried' BY <1>1, <1>2, <1>3 DEF IInv, Untried
<1>7. Claims' BY <1>1, <1>2, <1>3 DEF IInv, Claims, Trying, Types
<1>8. InTurn' BY <1>1, <1>2, <1>3, SameOrder DEF IInv, InTurn
<1>9. TriesLeft'
  <2>1. app = "up" BY <1>1 DEF IInv, Claims
  <2> QED BY <1>1, <1>2, <1>3, <2>1 DEF IInv, TriesLeft, Limit, Awake
<1>10. Records'
  <2>1. Limit' = Limit BY <1>1 DEF Limit
  <2>2. rows[Current] \subseteq 1..attempts[Current]
    BY <1>1, <1>2 DEF IInv, Records
  <2>3. rows[Current] \subseteq 1..(attempts[Current] + 1) BY <1>2, <2>2
  <2> QED BY <1>1, <1>2, <1>3, <2>1, <2>3 DEF IInv, Records, Final
<1>11. Shown' BY <1>1, <1>2, <1>3 DEF IInv, Shown
<1>12. SettledAgrees' BY <1>1, <1>2, <1>3, SameVerdict DEF Final, Awake
<1> QED BY <1>4, <1>5, <1>6, <1>7, <1>8, <1>9, <1>10, <1>11, <1>12 DEF IInv

LEMMA SendKeeps == ASSUME IInv, Send PROVE IInv'
<1>1. /\ pc = "sending" /\ pc' = "waiting" /\ Current' = Current
      /\ wire' \in {"own", "joined"} /\ (~Deduplicate => wire' = "own")
      /\ UNCHANGED <<opp, queue, published, prepared, note, attempts, rows, cooling, batch,
                     receipt, settled, others, reached, app, faults, stops>>
  BY SameTurn DEF Send, stored, order, bounds
<1>2. Numbered' /\ Untried' /\ SettledAgrees' /\ TriesLeft' BY <1>1, NotesKept, SameTries
<1>3. Types' BY <1>1 DEF IInv, Types, Steps, Trying
<1>4. Claims' BY <1>1 DEF IInv, Claims, Trying
<1>5. InTurn' BY <1>1, SameOrder DEF IInv, InTurn
<1>6. Records' BY <1>1 DEF IInv, Records, Limit
<1>7. Shown' BY <1>1 DEF IInv, Shown
<1> QED BY <1>2, <1>3, <1>4, <1>5, <1>6, <1>7 DEF IInv

(* An answer of one's own, or of the message one has joined.                 *)
LEMMA AnsweredKeeps ==
  ASSUME IInv, pc = "waiting", pc' = "answered", wire' = "none",
         receipt' \in Receipts, others' \in BOOLEAN,
         reached' \in {reached, reached \union {Current}},
         ~Deduplicate /\ receipt' = "delivered" => Current \in reached',
         UNCHANGED <<opp, queue, published, prepared, note, attempts, rows, cooling, batch,
                     settled, app, faults, stops>>
  PROVE  IInv'
<1>1. Current' = Current BY SameTurn
<1>2. Current \in Notes BY CurrentIsFirst DEF IInv, Claims, Types, Trying
<1>3. Numbered' /\ Untried' /\ SettledAgrees' /\ TriesLeft' BY NotesKept, SameTries
<1>4. Types' BY <1>2 DEF IInv, Types, Steps, Trying
<1>5. Claims' BY <1>1 DEF IInv, Claims, Trying
<1>6. InTurn' BY SameOrder DEF IInv, InTurn
<1>7. Records' BY <1>1 DEF IInv, Records, Limit
<1>8. Shown' BY <1>1 DEF IInv, Shown
<1> QED BY <1>3, <1>4, <1>5, <1>6, <1>7, <1>8 DEF IInv

LEMMA AnswerKeeps == ASSUME IInv, Answer PROVE IInv'
<1>1. /\ pc = "waiting" /\ pc' = "answered" /\ wire' = "none"
      /\ UNCHANGED <<opp, queue, published, prepared, note, attempts, rows, cooling, batch,
                     settled, others, app, faults, stops>>
  BY DEF Answer, stored, order, bounds
<1>2. PICK r \in Receipts \ {"none"} :
        /\ receipt' = r
        /\ \/ r # "permanent" /\ reached' = reached \union {Current}
           \/ r # "delivered" /\ UNCHANGED reached
  BY DEF Answer
<1>3. /\ reached' \in {reached, reached \union {Current}}
      /\ receipt' = "delivered" => Current \in reached'
  BY <1>2
<1>4. receipt' \in Receipts /\ others' \in BOOLEAN BY <1>1, <1>2 DEF IInv, Types
<1> QED BY <1>1, <1>3, <1>4, AnsweredKeeps

LEMMA OthersKeep == ASSUME IInv, OtherBegins \/ OtherEnds PROVE IInv'
<1>1. CASE OtherEnds /\ pc = "waiting" /\ wire = "joined"
  <2>1. ~Deduplicate => FALSE BY <1>1 DEF IInv, Shown
  <2> QED BY <1>1, <2>1, AnsweredKeeps DEF OtherEnds, stored, order, bounds
<1>2. CASE OtherBegins \/ (OtherEnds /\ ~(pc = "waiting" /\ wire = "joined"))
  <2>1. /\ Current' = Current /\ others' \in BOOLEAN
        /\ UNCHANGED <<opp, queue, published, prepared, note, attempts, rows, cooling, pc,
                       batch, receipt, settled, wire, reached, app, faults, stops>>
    BY <1>2, SameTurn DEF OtherBegins, OtherEnds, stored, order, pass, bounds
  <2>2. Numbered' /\ Untried' /\ SettledAgrees' /\ TriesLeft' BY <2>1, NotesKept, SameTries
  <2>3. Types' BY <2>1 DEF IInv, Types
  <2>4. Claims' /\ InTurn' BY <2>1, SameOrder DEF IInv, Claims, InTurn
  <2>5. Records' /\ Shown' BY <2>1 DEF IInv, Records, Shown, Limit
  <2> QED BY <2>2, <2>3, <2>4, <2>5 DEF IInv
<1> QED BY <1>1, <1>2

(* The note that was sent waits for its verdict, and was tried.              *)
LEMMA SentNote ==
  ASSUME IInv, pc \in Trying
  PROVE  /\ Current \in batch /\ Current \in Notes /\ note[Current] = "sending"
         /\ Current[1] \notin Unsendable
         /\ attempts[Current] \in Nat \ {0} /\ attempts[Current] <= Limit
<1>1. batch # {} /\ note[Current] = "sending" /\ Current[1] \notin Unsendable
  BY DEF IInv, Claims
<1>2. Current \in batch /\ Current \in Notes BY <1>1, CurrentIsFirst DEF IInv, Types
<1>3. attempts[Current] \in Nat /\ attempts[Current] <= Limit
  BY <1>2 DEF IInv, Types, TriesLeft
<1>4. attempts[Current] # 0 BY <1>1, <1>2 DEF IInv, Untried
<1> QED BY <1>1, <1>2, <1>3, <1>4

(* One more number is recorded for the note of the pass.                     *)
LEMMA RecordedKeeps ==
  ASSUME IInv, batch # {}, NEW k \in 1..Limit,
         rows' = [rows EXCEPT ![Current] = @ \union {k}],
         Current[1] \notin Unsendable => k <= attempts[Current],
         UNCHANGED <<opp, queue, published, prepared, note, attempts, cooling, batch, receipt,
                     settled, wire, others, reached, app, faults, stops>>
  PROVE  /\ Current' = Current /\ k \in rows'[Current] /\ rows' \in [Notes -> SUBSET Nat]
         /\ Numbered' /\ Untried' /\ SettledAgrees' /\ TriesLeft' /\ InTurn'
         /\ \A n \in Notes :
              /\ note[n] \in Final \union {"retry_wait"} => attempts'[n] \in rows'[n]
              /\ rows'[n] \subseteq 1..Limit'
              /\ n[1] \notin Unsendable => rows'[n] \subseteq 1..attempts'[n]
<1>1. Current' = Current BY SameTurn
<1>2. Current \in Notes /\ attempts[Current] \in Nat BY CurrentIsFirst DEF IInv, Types
<1>3. k \in Nat \ {0} /\ Limit' = Limit BY LimitIsNatural DEF IInv, Limit
<1>4. /\ rows' \in [Notes -> SUBSET Nat] /\ rows'[Current] = rows[Current] \union {k}
      /\ \A m \in Notes : m # Current => rows'[m] = rows[m]
  BY <1>2, <1>3 DEF IInv, Types
<1>5. Numbered' /\ Untried' /\ SettledAgrees' /\ TriesLeft' BY NotesKept, SameTries
<1>6. InTurn' BY SameOrder DEF IInv, InTurn
<1>7. ASSUME NEW n \in Notes
      PROVE  /\ note[n] \in Final \union {"retry_wait"} => attempts'[n] \in rows'[n]
             /\ rows'[n] \subseteq 1..Limit'
             /\ n[1] \notin Unsendable => rows'[n] \subseteq 1..attempts'[n]
  <2>1. CASE n = Current BY <1>2, <1>3, <1>4, <2>1 DEF IInv, Records
  <2>2. CASE n # Current BY <1>3, <1>4, <2>2 DEF IInv, Records
  <2> QED BY <2>1, <2>2
<1> QED BY <1>1, <1>4, <1>5, <1>6, <1>7

LEMMA RecordAttemptKeeps == ASSUME IInv, RecordAttempt PROVE IInv'
<1>1. /\ pc = "answered" /\ pc' = "closing"
      /\ rows' = [rows EXCEPT ![Current] = @ \union {attempts[Current]}]
      /\ UNCHANGED <<opp, queue, published, prepared, note, attempts, cooling, batch, receipt,
                     settled, wire, others, reached, app, faults, stops>>
  BY DEF RecordAttempt, order, bounds
<1>2. /\ Current \in batch /\ Current \in Notes /\ Current[1] \notin Unsendable
      /\ attempts[Current] \in Nat \ {0} /\ attempts[Current] <= Limit
  BY <1>1, SentNote DEF Trying
<1>3. attempts[Current] \in 1..Limit BY <1>2, LimitIsNatural DEF IInv
<1>4. /\ Current' = Current /\ attempts[Current] \in rows'[Current]
      /\ rows' \in [Notes -> SUBSET Nat]
      /\ Numbered' /\ Untried' /\ SettledAgrees' /\ TriesLeft' /\ InTurn'
      /\ \A n \in Notes :
           /\ note[n] \in Final \union {"retry_wait"} => attempts'[n] \in rows'[n]
           /\ rows'[n] \subseteq 1..Limit'
           /\ n[1] \notin Unsendable => rows'[n] \subseteq 1..attempts'[n]
  <2>1. batch # {} /\ attempts[Current] <= attempts[Current] BY <1>2
  <2> QED BY <1>1, <1>3, <2>1, RecordedKeeps
<1>5. Types' BY <1>1, <1>4 DEF IInv, Types, Steps, Trying
<1>6. Claims' BY <1>1, <1>4 DEF IInv, Claims, Trying
<1>7. Records' BY <1>1, <1>4 DEF Records
<1>8. Shown' BY <1>1, <1>4 DEF IInv, Shown
<1> QED BY <1>4, <1>5, <1>6, <1>7, <1>8 DEF IInv

LEMMA RecordRefusalKeeps == ASSUME IInv, RecordRefusal PROVE IInv'
<1>1. /\ pc = "next" /\ pc' = "refusing" /\ batch # {} /\ Current[1] \in Unsendable
      /\ rows' = [rows EXCEPT ![Current] = @ \union {attempts[Current] + 1}]
      /\ UNCHANGED <<opp, queue, published, prepared, note, attempts, cooling, batch, receipt,
                     settled, wire, others, reached, app, faults, stops>>
  BY DEF RecordRefusal, order, bounds
<1>2. /\ Current \in batch /\ Current \in Notes
      /\ attempts[Current] \in Nat /\ attempts[Current] + 1 <= Limit
  BY <1>1, NextWaits
<1>3. attempts[Current] + 1 \in 1..Limit BY <1>2, LimitIsNatural DEF IInv
<1>4. /\ Current' = Current /\ attempts[Current] + 1 \in rows'[Current]
      /\ rows' \in [Notes -> SUBSET Nat]
      /\ Numbered' /\ Untried' /\ SettledAgrees' /\ TriesLeft' /\ InTurn'
      /\ \A n \in Notes :
           /\ note[n] \in Final \union {"retry_wait"} => attempts'[n] \in rows'[n]
           /\ rows'[n] \subseteq 1..Limit'
           /\ n[1] \notin Unsendable => rows'[n] \subseteq 1..attempts'[n]
  BY <1>1, <1>3, RecordedKeeps
<1>5. Types' BY <1>1, <1>4 DEF IInv, Types, Steps, Trying
<1>6. Claims' BY <1>1, <1>4 DEF IInv, Claims, Trying
<1>7. Records' BY <1>1, <1>4 DEF Records
<1>8. Shown' BY <1>1, <1>4 DEF IInv, Shown
<1> QED BY <1>4, <1>5, <1>6, <1>7, <1>8 DEF IInv

(* What precedes a note that is left, and was not tried, is left as well.    *)
LEMMA RestInTurn ==
  ASSUME IInv, batch # {}, batch' = batch \ {Current}, UNCHANGED <<queue, published>>,
         attempts'[Current] # 0,
         \A m \in Notes : m # Current => attempts'[m] = attempts[m]
  PROVE  InTurn'
BY SameOrder DEF IInv, InTurn

LEMMA CloseKeeps == ASSUME IInv, Close PROVE IInv'
<1>1. /\ pc = "closing" /\ pc' = "next" /\ batch' = batch \ {Current} /\ receipt' = "none"
      /\ note' = [note EXCEPT ![Current] = Verdict]
      /\ UNCHANGED <<opp, queue, published, prepared, attempts, rows, wire, others, reached,
                     app, faults, stops>>
  BY DEF Close, NextNote, order, bounds
<1>2. /\ Current \in batch /\ Current \in Notes /\ note[Current] = "sending"
      /\ attempts[Current] \in Nat \ {0} /\ attempts[Current] <= Limit
      /\ Current[1] \in Among(published) /\ Current[1] \in Opps
  BY <1>1, SentNote, ClaimsArePublished, NotesAre DEF Trying
<1>3. /\ Verdict \in Final \union {"retry_wait"}
      /\ Verdict = "sent" => receipt = "delivered"
      /\ Verdict = "retry_wait" => attempts[Current] < MaxAttempts
  BY DEF Verdict, Final
<1>4. /\ note' \in [Notes -> NoteStatuses] /\ note'[Current] = Verdict
      /\ \A m \in Notes : m # Current => note'[m] = note[m]
  BY <1>1, <1>2, <1>3 DEF IInv, Types, NoteStatuses
<1>5. /\ cooling' \subseteq cooling \union {Current}
      /\ settled' \subseteq settled \union {Current[1]}
  BY DEF Close
<1>6. Types' BY <1>1, <1>2, <1>4, <1>5 DEF IInv, Types, Steps, Receipts
<1>7. Numbered' BY <1>1, <1>2, <1>3, <1>4 DEF IInv, Numbered, Final
<1>8. Untried' BY <1>1, <1>2, <1>4, <1>5 DEF IInv, Untried
<1>9. Claims' BY <1>1, <1>2, <1>4, <1>5 DEF IInv, Claims, Trying
<1>10. InTurn' BY <1>1, <1>2, RestInTurn
<1>11. TriesLeft'
  <2>1. app = "up" BY <1>1 DEF IInv, Claims
  <2>2. attempts[Current] < MaxAttempts => attempts[Current] < Limit
    BY <1>2, LimitIsNatural, DeliveryAssumption DEF IInv, Limit
  <2>3. Limit' = Limit BY <1>1 DEF Limit
  <2> QED BY <1>1, <1>2, <1>3, <1>4, <2>1, <2>2, <2>3 DEF IInv, TriesLeft, Awake, Final
<1>12. Records'
  <2>1. Limit' = Limit BY <1>1 DEF Limit
  <2>2. attempts[Current] \in rows[Current] BY <1>1 DEF IInv, Records
  <2> QED BY <1>1, <1>2, <1>4, <2>1, <2>2 DEF IInv, Records
<1>13. Shown' BY <1>1, <1>2, <1>3, <1>4 DEF IInv, Shown
<1>14. SettledAgrees' BY <1>1, <1>2, <1>4, SameVerdict DEF Final
<1> QED BY <1>6, <1>7, <1>8, <1>9, <1>10, <1>11, <1>12, <1>13, <1>14 DEF IInv

LEMMA CloseRefusalKeeps == ASSUME IInv, CloseRefusal PROVE IInv'
<1>1. /\ pc = "refusing" /\ pc' = "next" /\ batch' = batch \ {Current} /\ receipt' = "none"
      /\ note' = [note EXCEPT ![Current] = "failed"]
      /\ attempts' = [attempts EXCEPT ![Current] = @ + 1]
      /\ settled' = settled \union {Current[1]}
      /\ UNCHANGED <<opp, queue, published, prepared, rows, cooling, wire, others, reached,
                     app, faults, stops>>
  BY DEF CloseRefusal, NextNote, order, bounds
<1>2. batch # {} /\ Current \in batch /\ Current[1] \in Unsendable
  BY <1>1, CurrentIsFirst DEF IInv, Claims
<1>3. /\ Current \in Notes /\ note[Current] \in Awake
      /\ Current[1] \in Among(published) /\ Current[1] \in Opps
  BY <1>1, <1>2, ClaimsArePublished, NotesAre DEF IInv, Claims, Trying
<1>4. attempts[Current] \in Nat /\ attempts[Current] + 1 <= Limit
  <2>1. attempts[Current] \in Nat /\ attempts[Current] < Limit
    BY <1>3 DEF IInv, Types, TriesLeft
  <2> QED BY <2>1, LimitIsNatural DEF IInv
<1>5. /\ note' \in [Notes -> NoteStatuses] /\ note'[Current] = "failed"
      /\ attempts' \in [Notes -> Nat] /\ attempts'[Current] = attempts[Current] + 1
      /\ \A m \in Notes : m # Current => note'[m] = note[m] /\ attempts'[m] = attempts[m]
  BY <1>1, <1>3, <1>4 DEF IInv, Types, NoteStatuses, Final
<1>6. Types' BY <1>1, <1>3, <1>5 DEF IInv, Types, Steps, Receipts
<1>7. Numbered' BY <1>1, <1>3, <1>5 DEF IInv, Numbered, Awake
<1>8. Untried' BY <1>1, <1>4, <1>5 DEF IInv, Untried
<1>9. Claims' BY <1>1, <1>2, <1>3, <1>5 DEF IInv, Claims, Trying
<1>10. InTurn' BY <1>1, <1>2, <1>4, <1>5, RestInTurn
<1>11. TriesLeft'
  <2>1. Limit' = Limit BY <1>1 DEF Limit
  <2> QED BY <1>1, <1>3, <1>4, <1>5, <2>1 DEF IInv, TriesLeft, Awake
<1>12. Records'
  <2>1. Limit' = Limit BY <1>1 DEF Limit
  <2>2. attempts[Current] + 1 \in rows[Current] BY <1>1 DEF IInv, Records
  <2> QED BY <1>1, <1>2, <1>3, <1>5, <2>1, <2>2 DEF IInv, Records
<1>13. Shown' BY <1>1, <1>5 DEF IInv, Shown
<1>14. SettledAgrees' BY <1>1, <1>3, <1>5, SameVerdict DEF Final, Awake
<1> QED BY <1>6, <1>7, <1>8, <1>9, <1>10, <1>11, <1>12, <1>13, <1>14 DEF IInv

(* A delivery is settled only when every note of it is closed.               *)
LEMMA SettleKeeps == ASSUME IInv, NEW o \in Opps, Settle(o) PROVE IInv'
<1>1. /\ pc = "next" /\ batch = {} /\ o \in settled /\ settled' = settled \ {o}
      /\ opp' = IF AllFinal(o) THEN [opp EXCEPT ![o] = StatusFor(o)] ELSE opp
      /\ UNCHANGED <<queue, published, prepared, note, attempts, rows, cooling, pc, batch,
                     receipt, wire, others, reached, app, faults, stops>>
  BY DEF Settle, order, bounds
<1>2. /\ o \in Among(published) /\ opp[o] # "none"
      /\ StatusFor(o) \in {"notified", "notified_partial", "notified_failed"}
  BY <1>1 DEF IInv, Claims, Numbered, StatusFor
<1>3. /\ opp' \in [Opps -> {"none", "confirmed", "notified", "notified_partial",
                             "notified_failed"}]
      /\ \A p \in Opps : p # o => opp'[p] = opp[p]
      /\ opp'[o] = IF AllFinal(o) THEN StatusFor(o) ELSE opp[o]
  BY <1>1, <1>2 DEF IInv, Types
<1>4. Types' BY <1>1, <1>3 DEF IInv, Types
<1>5. Numbered' BY <1>1, <1>2, <1>3 DEF IInv, Numbered
<1>6. Untried' /\ TriesLeft' BY <1>1 DEF IInv, Untried, TriesLeft, Limit
<1>7. Claims' /\ InTurn' BY <1>1 DEF IInv, Claims, InTurn, Trying
<1>8. Records' /\ Shown' BY <1>1 DEF IInv, Records, Shown, Limit
<1>9. SettledAgrees'
  <2>1. \A p : AllFinal(p)' = AllFinal(p) /\ StatusFor(p)' = StatusFor(p)
    BY <1>1 DEF AllFinal, StatusFor
  <2> QED BY <1>3, <2>1 DEF IInv, SettledAgrees
<1> QED BY <1>4, <1>5, <1>6, <1>7, <1>8, <1>9 DEF IInv

LEMMA EndPassKeeps == ASSUME IInv, EndPass PROVE IInv'
<1>1. /\ batch = {} /\ settled = {} /\ pc' = "idle"
      /\ UNCHANGED <<opp, queue, published, prepared, note, attempts, rows, cooling, batch,
                     receipt, settled, wire, others, reached, app, faults, stops>>
  BY DEF EndPass, stored, order, bounds
<1>2. Numbered' /\ Untried' /\ SettledAgrees' /\ TriesLeft' BY <1>1, NotesKept, SameTries
<1>3. Types' BY <1>1 DEF IInv, Types, Steps
<1>4. Claims' /\ InTurn' BY <1>1 DEF IInv, Claims, InTurn, Trying
<1>5. Records' /\ Shown' BY <1>1 DEF IInv, Records, Shown, Limit
<1> QED BY <1>2, <1>3, <1>4, <1>5 DEF IInv

(***************************************************************************)
(* The theorems                                                             *)
(***************************************************************************)
LEMMA InitHolds == Init => IInv
<1> SUFFICES ASSUME Init PROVE IInv OBVIOUS
<1> USE DEF Init
<1>1. Types
  <2>1. 0 \in 0..MaxFaults /\ 0 \in 0..MaxStops BY DeliveryAssumption
  <2>2. queue \in Seq(Opps) /\ published \in Seq(Opps) OBVIOUS
  <2> QED BY <2>1, <2>2 DEF Types, NoteStatuses, Steps, Receipts
<1>2. Among(queue) = {} /\ Among(published) = {} BY DEF Among
<1>3. Numbered BY <1>2 DEF Numbered, Distinct
<1>4. Untried /\ Claims /\ InTurn BY DEF Untried, Claims, InTurn, Trying
<1>5. TriesLeft /\ Records
  BY <1>1, LimitIsNatural, DeliveryAssumption DEF TriesLeft, Records, Limit, Final
<1>6. Shown /\ SettledAgrees BY DEF Shown, SettledAgrees
<1> QED BY <1>1, <1>3, <1>4, <1>5, <1>6 DEF IInv

LEMMA NothingHappens == ASSUME IInv, UNCHANGED vars PROVE IInv'
<1>1. /\ Current' = Current
      /\ UNCHANGED <<opp, queue, published, prepared, note, attempts, rows, cooling, pc, batch,
                     receipt, settled, wire, others, reached, app, faults, stops>>
  BY SameTurn DEF vars, stored, order, pass, bounds
<1>2. Numbered' /\ Untried' /\ SettledAgrees' /\ TriesLeft' BY <1>1, NotesKept, SameTries
<1>3. Types' BY <1>1 DEF IInv, Types
<1>4. Claims' /\ InTurn' BY <1>1, SameOrder DEF IInv, Claims, InTurn
<1>5. Records' /\ Shown' BY <1>1 DEF IInv, Records, Shown, Limit
<1> QED BY <1>2, <1>3, <1>4, <1>5 DEF IInv

LEMMA StepKeeps == IInv /\ [Next]_vars => IInv'
<1> SUFFICES ASSUME IInv, [Next]_vars PROVE IInv' OBVIOUS
<1>1. CASE \E o \in Opps : Prepare(o) \/ Publish(o)
  BY <1>1, PrepareKeeps, PublishKeeps
<1>2. CASE \E n \in Notes : Elapse(n) BY <1>2, ElapseKeeps
<1>3. CASE Dispatch
  BY <1>3, ClaimKeeps, BeginKeeps, SendKeeps, AnswerKeeps, RecordAttemptKeeps, CloseKeeps,
     RecordRefusalKeeps, CloseRefusalKeeps, SettleKeeps, EndPassKeeps DEF Dispatch
<1>4. CASE Abort \/ AbortOnDuplicate BY <1>4, AbortKeeps
<1>5. CASE OtherBegins \/ OtherEnds BY <1>5, OthersKeep
<1>6. CASE Stop BY <1>6, StopKeeps
<1>7. CASE Recovery BY <1>7, StartKeeps, RequeueKeeps DEF Recovery
<1>8. CASE UNCHANGED vars BY <1>8, NothingHappens
<1> QED BY <1>1, <1>2, <1>3, <1>4, <1>5, <1>6, <1>7, <1>8 DEF Next

LEMMA InvariantHolds == Spec => []IInv
BY InitHolds, StepKeeps, PTL DEF Spec

LEMMA InvariantImplies ==
  ASSUME IInv
  PROVE  /\ TypeOK /\ AttemptsBounded /\ OutcomesAreRecorded /\ SettledAgrees
         /\ ~Deduplicate => SentWasShown
<1>1. Limit \in Nat /\ Limit <= MaxAttempts + MaxStops /\ MaxAttempts + MaxStops \in Nat
  BY DeliveryAssumption DEF IInv, Types, Limit
<1>2. \A n \in Notes : attempts[n] \in 0..MaxAttempts + MaxStops
  BY <1>1 DEF IInv, Types, TriesLeft
<1>3. \A n \in Notes : rows[n] \in SUBSET (1..MaxAttempts + MaxStops)
  <2>1. 1..Limit \subseteq 1..MaxAttempts + MaxStops BY <1>1
  <2> QED BY <2>1 DEF IInv, Records
<1>4. /\ attempts \in [Notes -> 0..MaxAttempts + MaxStops]
      /\ rows \in [Notes -> SUBSET (1..MaxAttempts + MaxStops)]
  BY <1>2, <1>3 DEF IInv, Types
<1>5. TypeOK BY <1>4 DEF IInv, Types, TypeOK, Steps, Trying
<1>6. AttemptsBounded BY DEF IInv, TriesLeft, Limit, AttemptsBounded
<1>7. OutcomesAreRecorded BY DEF IInv, Records, OutcomesAreRecorded
<1>8. ~Deduplicate => SentWasShown BY DEF IInv, Shown, SentWasShown
<1> QED BY <1>5, <1>6, <1>7, <1>8 DEF IInv

(* Whether requests are merged or not, no note is tried more often than      *)
(* max_attempts allows and every outcome stands on a recorded attempt        *)
(* (_apply, _fail, record_attempt).                                         *)
THEOREM AttemptsAreCounted == Spec => [](TypeOK /\ AttemptsBounded /\ OutcomesAreRecorded)
BY InvariantHolds, InvariantImplies, PTL

(* Where requests to one destination are not merged, what is recorded as     *)
(* sent was shown as well.                                                  *)
THEOREM AttemptsStayTrue == ~Deduplicate => (Spec => []AttemptsAreTrue)
<1> SUFFICES ASSUME ~Deduplicate PROVE Spec => []AttemptsAreTrue OBVIOUS
<1>1. IInv => AttemptsAreTrue BY InvariantImplies DEF AttemptsAreTrue
<1> QED BY <1>1, InvariantHolds, PTL

(* settle_delivery: the status of an opportunity agrees with its notes, at   *)
(* every moment and after every restart.                                    *)
THEOREM SettlementsAgree == Spec => []SettledAgrees
BY InvariantHolds, InvariantImplies, PTL

(* Only the note of the pass and a recovered one change their status, and    *)
(* neither is closed.                                                       *)
LEMMA ClosedNotesStay ==
  ASSUME IInv, [Next]_vars, NEW n \in Notes, note[n] \in Final PROVE note'[n] = note[n]
<1>1. ASSUME NEW o \in Opps, Publish(o) PROVE note'[n] = note[n]
  <2>1. o \notin Among(published) BY <1>1 DEF Publish, IInv, Numbered
  <2>2. n[1] # o BY <2>1 DEF IInv, Numbered, Final
  <2> QED BY <1>1, <2>2, NotesOfAreNotes DEF Publish
<1>2. CASE Begin
  <2>1. Current # n BY <1>2, NextWaits DEF Begin, Awake, Final
  <2> QED BY <1>2, <2>1 DEF Begin, IInv, Types
<1>3. CASE Close
  <2>1. Current # n BY <1>3, SentNote DEF Close, Trying, Final
  <2> QED BY <1>3, <2>1 DEF Close, IInv, Types
<1>4. CASE CloseRefusal
  <2>1. Current \in batch BY <1>4, CurrentIsFirst DEF CloseRefusal, IInv, Claims
  <2>2. Current # n BY <1>4, <2>1 DEF CloseRefusal, IInv, Claims, Awake, Trying, Final
  <2> QED BY <1>4, <2>2 DEF CloseRefusal, IInv, Types
<1>5. ASSUME NEW m \in Notes, Requeue(m) PROVE note'[n] = note[n]
  <2>1. m # n BY <1>5 DEF Requeue, Final
  <2> QED BY <1>5, <2>1 DEF Requeue, IInv, Types
<1>6. CASE UNCHANGED note BY <1>6
<1> QED
  BY <1>1, <1>2, <1>3, <1>4, <1>5, <1>6
  DEF Next, Dispatch, Recovery, Prepare, Elapse, Claim, Send, Answer, RecordAttempt,
      RecordRefusal, Settle, EndPass, Abort, AbortOnDuplicate, OtherBegins, OtherEnds,
      Stop, Start, Resume, stored, vars

(* A first attempt is that of the note the pass treats.                      *)
LEMMA FirstAttemptsAreCurrent ==
  ASSUME IInv, [Next]_vars, NEW n \in Notes, attempts[n] = 0, attempts'[n] = 1
  PROVE  batch # {} /\ n = Current
<1>1. CASE Begin
  <2>1. Current \in Notes BY <1>1, NextWaits DEF Begin
  <2> QED BY <1>1, <2>1 DEF Begin, IInv, Types
<1>2. CASE CloseRefusal
  <2>1. batch # {} BY <1>2 DEF CloseRefusal, IInv, Claims
  <2> QED BY <1>2, <2>1 DEF CloseRefusal, IInv, Types
<1>3. CASE UNCHANGED attempts BY <1>3
<1> QED
  BY <1>1, <1>2, <1>3
  DEF Next, Dispatch, Recovery, Prepare, Publish, Elapse, Claim, Send, Answer,
      RecordAttempt, Close, RecordRefusal, Settle, EndPass, Abort, AbortOnDuplicate,
      OtherBegins, OtherEnds, Stop, Start, Requeue, Resume, stored, vars

LEMMA FirstAttemptInTurn ==
  ASSUME IInv, [Next]_vars, NEW n \in Notes, attempts[n] = 0, attempts'[n] = 1,
         NEW m \in Notes, Before(queue, m, n), Before(published, m, n)
  PROVE  attempts[m] > 0
<1>1. batch # {} /\ n = Current /\ n \in batch
  BY FirstAttemptsAreCurrent, CurrentIsFirst
<1>2. attempts[m] \in Nat BY DEF IInv, Types
<1>3. CASE attempts[m] = 0
  <2>1. m \in batch BY <1>1, <1>3 DEF IInv, InTurn, Precedes
  <2>2. ~Precedes(n, m) /\ m # n BY PrecedingIsStrict DEF Precedes
  <2> QED BY <1>1, <2>1, <2>2, CurrentIsFirst
<1> QED BY <1>2, <1>3

(* claim_pending and _recover_notifications: no retry, refusal, new pass or  *)
(* restart lets a later note overtake an earlier one, and a closed note is   *)
(* not opened again.                                                        *)
THEOREM NotesGoOutInOrder == Spec => OutInOrder
<1>1. IInv /\ [Next]_vars =>
        [\A n \in Notes : note[n] \in Final => note'[n] = note[n]]_vars
  BY ClosedNotesStay
<1>2. IInv /\ [Next]_vars =>
        [\A n \in Notes :
           attempts[n] = 0 /\ attempts'[n] = 1 =>
             \A m \in Notes :
               Before(queue, m, n) /\ Before(published, m, n) => attempts[m] > 0]_vars
  BY FirstAttemptInTurn
<1> QED BY <1>1, <1>2, InvariantHolds, PTL DEF Spec, OutInOrder, FirstAttemptsInOrder, ClosedStays
=============================================================================
