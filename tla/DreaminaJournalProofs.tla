------------------------ MODULE DreaminaJournalProofs ------------------------
(***************************************************************************)
(* Theorems about DreaminaJournal for every number of Runtimes, tasks and  *)
(* slots, whatever dies, is held up or expires.                            *)
(***************************************************************************)
EXTENDS DreaminaJournal, FiniteSetTheorems, TLAPS

(* What a record says of what was sent (s) and of the provider (p): a task *)
(* that was sent has a receipt, is uncertain or has leave to be spawned,   *)
(* so no other record may be called unsent; only what can still change is  *)
(* polled.                                                                 *)
Sound(record, s, p) ==
    /\ record \in Record /\ Valid(record)
    /\ s \in {0, 1} /\ p \in Ended \cup {"none", "working"}
    /\ s = 0 => p = "none" /\ ~record.receipt
    /\ s = 1 => \/ record.receipt
                \/ record.state = "unknown"
                \/ record.state = "pending" /\ record.spawnable
    /\ record.receipt => p # "none" /\ record.state \in {"accepted", "succeeded", "failed"}
    /\ record.receipt /\ record.state \in {"succeeded", "failed"} => p \in Ended
    /\ record.poller # None => Eligible(record)

(* What a Runtime that is submitting may find: its own reservation, or a   *)
(* record that was settled because the reservation expired.                *)
Mine(record, r) == record.state = "pending" /\ record.owner = r
Sending == {"permitted", "running"}

Finds(record, r, w, s) ==
    /\ w = "reserved" =>
           s = 0 /\ (record.state = "failed" \/ (Mine(record, r) /\ ~record.spawnable))
    /\ w = "permitted" => s = 0
    /\ w = "running" => s = 1
    /\ w \in Sending => record.state = "unknown" \/ (Mine(record, r) /\ record.spawnable)

(* A poll is of a task that has a receipt, and its answer is not older     *)
(* than the provider's last word.                                          *)
Asks(pl) ==
    /\ pl.task = None => pl.seen = "nothing"
    /\ pl.task # None =>
           /\ journal[pl.task].receipt
           /\ pl.seen \in {"completed", "unready"} => provider[pl.task] = "completed"
           /\ pl.seen = "failed" => provider[pl.task] = "failed"

Slots == {t \in Tasks : ReservesSlot(journal[t])}

Submissions ==
    /\ \A t \in Tasks : Sound(journal[t], sends[t], provider[t])
    /\ \A r \in Runtimes, t \in Tasks : Finds(journal[t], r, work[r][t], sends[t])
    /\ \A t \in Tasks : \A q, r \in Runtimes :
           work[q][t] \in Sending /\ work[r][t] \in Sending => q = r

IInv ==
    /\ TypeOK
    /\ Submissions
    /\ \A r \in Runtimes : Asks(poll[r])
    /\ Cardinality(Slots) <= MaxActive

-----------------------------------------------------------------------------
(* One record                                                              *)

VerdictOf(record) ==
    CASE record.state = "unknown" -> "uncertain"
      [] record.state \in {"failed", "cancelled", "deleted"} /\ ~record.receipt -> "unsent"
      [] record.state \in {"succeeded", "failed"} /\ record.receipt -> "finished"
      [] OTHER -> "open"

SettledRecord(record) ==
    record.state \in {"succeeded", "failed", "cancelled", "deleted"} /\ ~Eligible(record)

(* How a record may go on when nothing is sent, s being what was sent of   *)
(* it: a settled one stays as it is, a receipt is kept, and a verdict is   *)
(* final and true.                                                         *)
Continues(record, next, s) ==
    /\ SettledRecord(record) => next = record
    /\ record.receipt => next.receipt
    /\ \/ VerdictOf(next) = VerdictOf(record)
       \/ /\ VerdictOf(record) = "open"
          /\ \/ VerdictOf(next) = "unsent" /\ s = 0
             \/ VerdictOf(next) = "uncertain"
             \/ VerdictOf(next) = "finished" /\ s = 1

(* A record that gives its lease up keeps what it holds of the task.       *)
LEMMA UnleasedType ==
    ASSUME NEW record \in Record, NEW state \in States, NEW next, next = Unleased(record, state)
    PROVE  /\ next \in Record
           /\ next.state = state /\ next.owner = None /\ ~next.spawnable
           /\ (next.receipt <=> record.receipt) /\ (next.outputs <=> record.outputs)
           /\ next.poller = record.poller
<1>1. None \in Owner /\ 0 \in 0..MaxTickets
  BY DreaminaJournalAssumption DEF Owner
<1> QED BY <1>1 DEF Unleased, Record

(* A reload keeps a record sound; it never gives a slot to a record, and   *)
(* gives one back only where nothing was sent (reloadFromDisk).            *)
LEMMA RecoveredSound ==
    ASSUME NEW record, NEW s, NEW p, Sound(record, s, p), NEW next, next = Recovered(record)
    PROVE  /\ Sound(next, s, p)
           /\ Continues(record, next, s)
           /\ ReservesSlot(next) => ReservesSlot(record)
<1>0. record \in Record
  BY DEF Sound
<1>1. CASE next = record
  BY <1>1 DEF Continues
<1>2. CASE /\ record.state \in {"queued", "pending"} /\ record.spawnable
           /\ next = Unleased(record, "unknown")
  <2>1. ~record.receipt /\ ~record.outputs /\ record.poller = None /\ record.state = "pending"
    BY <1>2 DEF Sound, Valid, Eligible
  <2>2. /\ next \in Record /\ next.state = "unknown" /\ next.owner = None /\ ~next.spawnable
        /\ ~next.receipt /\ ~next.outputs /\ next.poller = None
    BY <1>0, <1>2, <2>1, UnleasedType DEF States
  <2>3. Valid(next)
    BY <2>2 DEF Valid
  <2>4. Sound(next, s, p)
    BY <2>1, <2>2, <2>3 DEF Sound
  <2> QED
    BY <1>2, <2>1, <2>2, <2>4 DEF Continues, VerdictOf, SettledRecord, ReservesSlot
<1>3. CASE /\ record.state \in {"queued", "pending"} /\ ~record.spawnable
           /\ next = Unleased(record, "failed")
  <2>1. ~record.receipt /\ ~record.outputs /\ record.poller = None /\ s = 0
    BY <1>3 DEF Sound, Valid, Eligible
  <2>2. /\ next \in Record /\ next.state = "failed" /\ next.owner = None /\ ~next.spawnable
        /\ ~next.receipt /\ ~next.outputs /\ next.poller = None
    BY <1>0, <1>3, <2>1, UnleasedType DEF States
  <2>3. Valid(next)
    BY <2>2 DEF Valid
  <2>4. Sound(next, s, p)
    BY <2>1, <2>2, <2>3 DEF Sound
  <2> QED
    BY <1>3, <2>1, <2>2, <2>4 DEF Continues, VerdictOf, SettledRecord, ReservesSlot
<1> QED BY <1>1, <1>2, <1>3 DEF Recovered

(* What a submitting Runtime may find it finds after a reload too.         *)
LEMMA RecoveredFinds ==
    ASSUME NEW record, NEW s, NEW p, Sound(record, s, p), NEW r \in Runtimes, NEW w,
           Finds(record, r, w, s)
    PROVE  Finds(Recovered(record), r, w, s)
<1>1. record \in Record
  BY DEF Sound
<1>2. CASE Recovered(record) = record
  BY <1>2
<1>3. CASE record.state = "pending" /\ record.spawnable /\ Recovered(record) = Unleased(record, "unknown")
  <2>1. Recovered(record).state = "unknown"
    BY <1>1, <1>3 DEF Unleased, Record
  <2> QED BY <1>3, <2>1 DEF Finds, Sending
<1>4. CASE record.state \in {"queued", "pending"} /\ ~record.spawnable /\ Recovered(record) = Unleased(record, "failed")
  <2>1. Recovered(record).state = "failed"
    BY <1>1, <1>4 DEF Unleased, Record
  <2> QED BY <1>4, <2>1 DEF Finds, Sending
<1> QED BY <1>1, <1>2, <1>3, <1>4 DEF Recovered, Sound, Valid

(* A time to poll at changes nothing else, and nothing of a settled record.*)
LEMMA ScheduledSound ==
    ASSUME NEW record, NEW s, NEW p, Sound(record, s, p), NEW next, next = Scheduled(record)
    PROVE  /\ Sound(next, s, p)
           /\ Continues(record, next, s)
           /\ next.state = record.state /\ next.owner = record.owner
           /\ next.spawnable <=> record.spawnable
<1>1. CASE next = record
  BY <1>1 DEF Continues
<1>2. CASE Eligible(record) /\ next = [record EXCEPT !.due = TRUE]
  <2>1. /\ next \in Record /\ next.state = record.state /\ next.owner = record.owner
        /\ next.spawnable = record.spawnable /\ next.receipt = record.receipt
        /\ next.outputs = record.outputs /\ next.poller = record.poller
    BY <1>2 DEF Sound, Record
  <2> QED
    BY <1>2, <2>1 DEF Sound, Valid, Eligible, Continues, VerdictOf, SettledRecord
<1> QED BY <1>1, <1>2 DEF Scheduled

(* A record that is polled and the answer of a poll that is not older than *)
(* the provider's last word give a sound record (applyObservation).        *)
LEMMA AppliedSound ==
    ASSUME NEW record, NEW p, Sound(record, 1, p), record.poller # None,
           NEW seen \in {"working", "completed", "failed", "unready", "error"},
           seen \in {"completed", "unready"} => p = "completed",
           seen = "failed" => p = "failed",
           NEW next, next = Applied(record, seen)
    PROVE  /\ Sound(next, 1, p)
           /\ Continues(record, next, 1)
           /\ next.receipt
           /\ ReservesSlot(next) => ReservesSlot(record)
<1> DEFINE free == [record EXCEPT !.poller = None, !.pollLive = FALSE]
<1>1. /\ record \in Record /\ record.receipt /\ ~record.outputs
      /\ record.state \in {"accepted", "succeeded"} /\ record.owner = None /\ ~record.spawnable
  BY DEF Sound, Valid, Eligible
<1>2. /\ free \in Record /\ free.state = record.state /\ free.owner = record.owner
      /\ free.spawnable = record.spawnable /\ free.receipt = record.receipt
      /\ free.outputs = record.outputs /\ free.poller = None
  BY <1>1 DEF Record, Owner
<1> HIDE DEF free
<1>3. /\ next \in Record /\ next.owner = None /\ ~next.spawnable
      /\ next.receipt /\ next.poller = None
      /\ \/ next.state = record.state /\ ~next.outputs
         \/ next.state = "accepted" /\ record.state # "succeeded" /\ ~next.outputs
         \/ next.state = "succeeded" /\ p = "completed"
         \/ next.state = "failed" /\ p = "failed" /\ record.state # "succeeded" /\ ~next.outputs
  <2>1. CASE seen = "error"
    <3>1. next = [free EXCEPT !.due = TRUE]
      BY <2>1 DEF Applied, free
    <3> QED BY <1>1, <1>2, <3>1 DEF Record
  <2>2. CASE seen = "working" /\ record.state = "succeeded"
    <3>1. next = [free EXCEPT !.due = TRUE, !.observed = TRUE]
      BY <2>2 DEF Applied, free
    <3> QED BY <1>1, <1>2, <3>1 DEF Record
  <2>3. CASE seen = "working" /\ record.state # "succeeded"
    <3>1. next = [free EXCEPT !.state = "accepted", !.due = TRUE, !.observed = TRUE]
      BY <2>3 DEF Applied, free
    <3> QED BY <1>1, <1>2, <2>3, <3>1 DEF Record, States
  <2>4. CASE seen = "unready"
    <3>1. next = [free EXCEPT !.state = "succeeded", !.due = TRUE, !.observed = TRUE]
      BY <2>4 DEF Applied, free
    <3> QED BY <1>1, <1>2, <2>4, <3>1 DEF Record, States
  <2>5. CASE seen = "completed"
    <3>1. next = [free EXCEPT !.state = "succeeded", !.outputs = TRUE, !.due = FALSE, !.observed = TRUE]
      BY <2>5 DEF Applied, free
    <3> QED BY <1>1, <1>2, <2>5, <3>1 DEF Record, States
  <2>6. CASE seen = "failed"
    <3>1. next = [free EXCEPT !.state = IF record.state = "succeeded" THEN @ ELSE seen,
                              !.due = FALSE, !.observed = TRUE]
      BY <2>6 DEF Applied, free
    <3> QED BY <1>1, <1>2, <2>6, <3>1 DEF Record, States
  <2> QED BY <2>1, <2>2, <2>3, <2>4, <2>5, <2>6
<1> QED
  BY <1>1, <1>3 DEF Sound, Valid, Eligible, Continues, VerdictOf, SettledRecord, ReservesSlot, Ended

(* A record that goes on twice goes on.                                    *)
LEMMA ContinuesTwice ==
    ASSUME NEW record, NEW middle, NEW next, NEW s,
           Continues(record, middle, s), Continues(middle, next, s)
    PROVE  Continues(record, next, s)
BY DEF Continues, SettledRecord, Eligible

-----------------------------------------------------------------------------
(* The whole journal                                                       *)

Others ==
    /\ known \in [Runtimes -> [Tasks -> States]]
    /\ nextTicket \in 1..(MaxTickets + 1)
    /\ status \in [Runtimes -> {"down", "up"}]
    /\ ready \in [Runtimes -> BOOLEAN]
    /\ ends \in 0..MaxEnds /\ stalls \in 0..MaxStalls /\ errors \in 0..MaxErrors

(* What a step makes of a task: it goes on, or it is sent.                 *)
GoesOn(t) ==
    \/ sends'[t] = sends[t] /\ Continues(journal[t], journal'[t], sends[t])
    \/ /\ journal'[t] = journal[t]
       /\ sends[t] = 0 /\ sends'[t] = 1 /\ VerdictOf(journal[t]) \in {"open", "uncertain"}

Goes == IInv' /\ \A t \in Tasks : GoesOn(t)

(* The slots that are taken are finitely many, now and after a step.       *)
LEMMA SlotsFinite == ASSUME NEW S \in SUBSET Tasks PROVE IsFiniteSet(S) /\ Cardinality(S) \in Nat
BY DreaminaJournalAssumption, FS_Subset, FS_CardinalityType

(* Fewer slots are taken by fewer tasks.                                   *)
LEMMA SlotsFewer ==
    ASSUME NEW S \in SUBSET Tasks, NEW T \in SUBSET S
    PROVE  Cardinality(T) <= Cardinality(S)
BY SlotsFinite, FS_Subset

(* What is so of every record at rest.                                     *)
LEMMA AtRest ==
    ASSUME IInv, NEW t \in Tasks
    PROVE  /\ Sound(journal[t], sends[t], provider[t])
           /\ Sound(Reloaded[t], sends[t], provider[t])
           /\ Continues(journal[t], Reloaded[t], sends[t])
           /\ ReservesSlot(Reloaded[t]) => ReservesSlot(journal[t])
           /\ \A r \in Runtimes :
                 /\ work[r][t] \in Work
                 /\ Finds(journal[t], r, work[r][t], sends[t])
                 /\ Finds(Reloaded[t], r, work[r][t], sends[t])
<1>1. Sound(journal[t], sends[t], provider[t]) /\ Reloaded[t] = Recovered(journal[t])
  BY DEF IInv, Submissions, Reloaded
<1>2. \A r \in Runtimes : work[r][t] \in Work /\ Finds(journal[t], r, work[r][t], sends[t])
  BY DEF IInv, TypeOK, Submissions
<1> QED BY <1>1, <1>2, RecoveredSound, RecoveredFinds

(* A step that sends nothing: every record stays sound and goes on, takes  *)
(* no slot that was not free, and is as the submitting Runtimes may find   *)
(* it; polls end, or begin with a task that has a receipt.                 *)
LEMMA RecordsStep ==
    ASSUME IInv, Others', UNCHANGED outside,
           journal' \in [Tasks -> Record],
           \A t \in Tasks : /\ Sound(journal'[t], sends[t], provider[t])
                            /\ Continues(journal[t], journal'[t], sends[t]),
           Cardinality(Slots') <= MaxActive,
           work' \in [Runtimes -> [Tasks -> Work]],
           \A r \in Runtimes, t \in Tasks : Finds(journal'[t], r, work'[r][t], sends[t]),
           \A t \in Tasks : \A q, r \in Runtimes :
               work'[q][t] \in Sending /\ work'[r][t] \in Sending => q = r,
           poll' \in [Runtimes -> Poll],
           \A r \in Runtimes :
               \/ poll'[r] \in {Idle, poll[r]}
               \/ poll'[r].task \in Tasks /\ journal'[poll'[r].task].receipt /\ poll'[r].seen = "nothing"
    PROVE  Goes
<1>1. UNCHANGED <<provider, sends>>
  BY DEF outside
<1>2. TypeOK'
  BY <1>1 DEF TypeOK, Others, IInv, Sound
<1>3. Submissions'
  BY <1>1 DEF Submissions
<1>4. ASSUME NEW r \in Runtimes PROVE Asks(poll[r])'
  <2>1. CASE poll'[r] = Idle
    BY <2>1 DEF Asks, Idle
  <2>2. CASE poll'[r] = poll[r]
    <3>1. Asks(poll[r]) /\ poll[r] \in Poll
      BY DEF IInv, TypeOK
    <3>2. poll[r].task # None => poll[r].task \in Tasks
      BY <3>1 DEF Poll
    <3>3. poll[r].task # None => journal'[poll[r].task].receipt
      BY <3>1, <3>2 DEF Asks, Continues
    <3> QED BY <1>1, <2>2, <3>1, <3>3 DEF Asks
  <2>3. CASE poll'[r].task \in Tasks /\ journal'[poll'[r].task].receipt /\ poll'[r].seen = "nothing"
    BY <2>3, DreaminaJournalAssumption DEF Asks
  <2> QED BY <2>1, <2>2, <2>3
<1> QED BY <1>1, <1>2, <1>3, <1>4 DEF Goes, IInv, GoesOn

(* A Runtime reloads, writes one record and turns to something else.       *)
LEMMA WriteStep ==
    ASSUME IInv, Others', UNCHANGED <<poll, outside>>,
           NEW r \in Runtimes, NEW t \in Tasks, NEW x, NEW w \in Work,
           journal' = [Reloaded EXCEPT ![t] = x],
           work' = [work EXCEPT ![r][t] = w],
           Sound(x, sends[t], provider[t]), Continues(Reloaded[t], x, sends[t]),
           Finds(x, r, w, sends[t]),
           \A q \in Runtimes \ {r} : Finds(x, q, work[q][t], sends[t]),
           w \in Sending => \A q \in Runtimes \ {r} : work[q][t] \notin Sending,
           ReservesSlot(x) => ReservesSlot(Reloaded[t]) \/ HasPriority(Reloaded, t)
    PROVE  Goes
<1> DEFINE taken == {u \in Tasks : ReservesSlot(Reloaded[u])}
<1>0. TypeOK /\ work \in [Runtimes -> [Tasks -> Work]]
  BY DEF IInv, TypeOK
<1>1. /\ DOMAIN journal' = Tasks /\ journal' = [u \in Tasks |-> journal'[u]]
      /\ journal'[t] = x /\ \A u \in Tasks : u # t => journal'[u] = Reloaded[u]
  BY DEF Reloaded
<1>2. ASSUME NEW u \in Tasks
      PROVE  /\ Sound(journal'[u], sends[u], provider[u])
             /\ Continues(journal[u], journal'[u], sends[u])
  BY <1>1, AtRest, ContinuesTwice
<1>3. journal' \in [Tasks -> Record]
  BY <1>1, <1>2 DEF Sound
<1>4. /\ work' \in [Runtimes -> [Tasks -> Work]]
      /\ work'[r][t] = w
      /\ \A q \in Runtimes, u \in Tasks : q # r \/ u # t => work'[q][u] = work[q][u]
  BY <1>0
<1>5. ASSUME NEW q \in Runtimes, NEW u \in Tasks
      PROVE  Finds(journal'[u], q, work'[q][u], sends[u])
  <2>1. CASE u # t
    BY <1>1, <1>4, <2>1, AtRest
  <2>2. CASE u = t /\ q = r
    BY <1>1, <1>4, <2>2
  <2>3. CASE u = t /\ q # r
    BY <1>1, <1>4, <2>3
  <2> QED BY <2>1, <2>2, <2>3
<1>6. ASSUME NEW u \in Tasks, NEW p \in Runtimes, NEW q \in Runtimes,
             work'[p][u] \in Sending, work'[q][u] \in Sending
      PROVE  p = q
  BY <1>4, <1>6 DEF IInv, Submissions
<1>7. taken \subseteq Slots /\ Cardinality(Slots) <= MaxActive
  BY AtRest DEF Slots, IInv
<1>8. Slots \in SUBSET Tasks /\ Slots' \in SUBSET Tasks /\ taken \in SUBSET Tasks
  BY DEF Slots
<1>9. Cardinality(Slots') <= MaxActive
  <2>1. CASE ReservesSlot(x) => ReservesSlot(Reloaded[t])
    <3>1. Slots' \subseteq taken
      BY <1>1, <2>1 DEF Slots
    <3> QED
      BY <1>7, <1>8, <3>1, SlotsFewer, SlotsFinite, DreaminaJournalAssumption
  <2>2. CASE HasPriority(Reloaded, t)
    <3>1. Slots' \subseteq taken \cup {t}
      BY <1>1 DEF Slots
    <3>2. Cardinality(taken) < MaxActive
      <4> DEFINE before == {u \in Tasks : /\ Reloaded[u].state = "queued" /\ Reloaded[u].live
                                          /\ Reloaded[u].ticket < Reloaded[t].ticket}
      <4>1. Cardinality(before) \in Nat /\ Cardinality(taken) \in Nat
        BY <1>8, SlotsFinite
      <4>2. Cardinality(taken) + Cardinality(before) < MaxActive
        BY <2>2 DEF HasPriority
      <4> HIDE DEF before, taken
      <4> QED BY <4>1, <4>2, DreaminaJournalAssumption
    <3>3. /\ Cardinality(taken \cup {t}) <= Cardinality(taken) + 1
          /\ Cardinality(taken) \in Nat /\ Cardinality(taken \cup {t}) \in Nat
      BY <1>8, SlotsFinite, FS_AddElement
    <3>4. Cardinality(Slots') <= Cardinality(taken \cup {t}) /\ Cardinality(Slots') \in Nat
      BY <1>8, <3>1, SlotsFewer, SlotsFinite
    <3> HIDE DEF taken
    <3> QED BY <3>2, <3>3, <3>4, DreaminaJournalAssumption
  <2> QED BY <2>1, <2>2
<1>10. poll' \in [Runtimes -> Poll] /\ \A q \in Runtimes : poll'[q] = poll[q]
  BY <1>0 DEF TypeOK
<1> QED BY <1>2, <1>3, <1>4, <1>5, <1>6, <1>9, <1>10, RecordsStep

(* A step that at most reloads, and after which no Runtime submits what it *)
(* did not submit before.                                                  *)
LEMMA ReadStep ==
    ASSUME IInv, Others', UNCHANGED <<poll, outside>>,
           journal' = journal \/ journal' = Reloaded,
           work' \in [Runtimes -> [Tasks -> Work]],
           \A r \in Runtimes, t \in Tasks :
               work'[r][t] = work[r][t] \/ work'[r][t] \notin Sending \cup {"reserved"}
    PROVE  Goes
<1>0. TypeOK
  BY DEF IInv
<1>1. \A t \in Tasks : journal'[t] \in {journal[t], Reloaded[t]}
  OBVIOUS
<1>2. ASSUME NEW t \in Tasks
      PROVE  /\ Sound(journal'[t], sends[t], provider[t])
             /\ Continues(journal[t], journal'[t], sends[t])
  BY <1>1, AtRest DEF Continues
<1>3. journal' \in [Tasks -> Record]
  <2>1. DOMAIN journal' = Tasks /\ journal' = [t \in Tasks |-> journal'[t]]
    BY <1>0 DEF TypeOK, Reloaded
  <2> QED BY <1>2, <2>1 DEF Sound
<1>4. ASSUME NEW r \in Runtimes, NEW t \in Tasks
      PROVE  Finds(journal'[t], r, work'[r][t], sends[t])
  <2>1. CASE work'[r][t] = work[r][t]
    BY <1>1, <2>1, AtRest
  <2>2. CASE work'[r][t] \notin Sending \cup {"reserved"}
    BY <2>2 DEF Finds, Sending
  <2> QED BY <2>1, <2>2
<1>5. ASSUME NEW t \in Tasks, NEW q \in Runtimes, NEW r \in Runtimes,
             work'[q][t] \in Sending, work'[r][t] \in Sending
      PROVE  q = r
  BY <1>5 DEF IInv, Submissions
<1>6. Slots' \subseteq Slots /\ Cardinality(Slots) <= MaxActive
  BY <1>1, AtRest DEF Slots, IInv
<1>7. Cardinality(Slots') <= MaxActive
  <2>1. Slots \in SUBSET Tasks /\ Slots' \in SUBSET Tasks
    BY DEF Slots
  <2> QED BY <1>6, <2>1, SlotsFewer, SlotsFinite, DreaminaJournalAssumption
<1>8. poll' \in [Runtimes -> Poll] /\ \A q \in Runtimes : poll'[q] = poll[q]
  BY <1>0 DEF TypeOK
<1> QED BY <1>2, <1>3, <1>4, <1>5, <1>7, <1>8, RecordsStep

(* Records that are reloaded, and one of them written, are well formed.    *)
LEMMA RecordsType ==
    ASSUME IInv
    PROVE  /\ Reloaded \in [Tasks -> Record]
           /\ \A t \in Tasks : \A x \in Record : [Reloaded EXCEPT ![t] = x] \in [Tasks -> Record]
<1>1. \A t \in Tasks : Reloaded[t] \in Record
  BY AtRest DEF Sound
<1> QED BY <1>1 DEF Reloaded

(* What a Runtime knows after it has read or written.                      *)
LEMMA WritesOthers ==
    ASSUME IInv, NEW r \in Runtimes, NEW records \in [Tasks -> Record], Writes(r, records),
           UNCHANGED <<status, ready, budgets>>, nextTicket' \in 1..(MaxTickets + 1)
    PROVE  Others'
<1>1. StatesOf(records) \in [Tasks -> States]
  BY DEF StatesOf, Record
<1> QED BY <1>1 DEF IInv, TypeOK, Others, Writes, budgets

(* A Runtime that reads, or is refused, and turns to something that is not *)
(* a submission.                                                           *)
LEMMA TurnStep ==
    ASSUME IInv, NEW r \in Runtimes, NEW t \in Tasks, NEW w \in Work, Alone,
           Reads(r) \/ UNCHANGED <<journal, known>>,
           work' = [work EXCEPT ![r][t] = w],
           w = work[r][t] \/ w \notin Sending \cup {"reserved"}
    PROVE  Goes
<1>1. TypeOK
  BY DEF IInv
<1>2. Others'
  <2>1. CASE Reads(r)
    BY <1>1, <2>1, RecordsType, WritesOthers DEF Reads, Alone, TypeOK
  <2>2. CASE UNCHANGED known
    BY <1>1, <2>2 DEF TypeOK, Others, Alone, budgets
  <2> QED BY <2>1, <2>2
<1>3. journal' = journal \/ journal' = Reloaded
  BY DEF Reads, Writes
<1>4. /\ work' \in [Runtimes -> [Tasks -> Work]]
      /\ \A q \in Runtimes, u \in Tasks :
            work'[q][u] = work[q][u] \/ work'[q][u] \notin Sending \cup {"reserved"}
  BY <1>1 DEF TypeOK
<1> QED BY <1>2, <1>3, <1>4, ReadStep DEF Alone

(* A Runtime that writes one record and turns to something else.           *)
LEMMA WritesStep ==
    ASSUME IInv, NEW r \in Runtimes, NEW t \in Tasks, NEW x, NEW w \in Work,
           UNCHANGED <<status, ready, poll, outside, budgets>>,
           nextTicket' \in 1..(MaxTickets + 1),
           Writes(r, [Reloaded EXCEPT ![t] = x]),
           work' = [work EXCEPT ![r][t] = w],
           Sound(x, sends[t], provider[t]), Continues(Reloaded[t], x, sends[t]),
           Finds(x, r, w, sends[t]),
           \A q \in Runtimes \ {r} : Finds(x, q, work[q][t], sends[t]),
           w \in Sending => \A q \in Runtimes \ {r} : work[q][t] \notin Sending,
           ReservesSlot(x) => ReservesSlot(Reloaded[t]) \/ HasPriority(Reloaded, t)
    PROVE  Goes
<1>1. [Reloaded EXCEPT ![t] = x] \in [Tasks -> Record]
  BY RecordsType DEF Sound
<1>2. Others' /\ journal' = [Reloaded EXCEPT ![t] = x]
  BY <1>1, WritesOthers DEF Writes
<1> QED BY <1>2, WriteStep

-----------------------------------------------------------------------------
(* The steps of the queue and of the submission                            *)

(* A new record is queued for a task nobody submits (enqueueNew).          *)
LEMMA EnqueueStep ==
    ASSUME IInv, NEW r \in Runtimes, NEW t \in Tasks, Enqueue(r, t)
    PROVE  Goes
<1> DEFINE x == [Absent EXCEPT !.state = "queued", !.owner = r, !.live = TRUE, !.ticket = nextTicket]
<1>1. /\ Sound(Reloaded[t], sends[t], provider[t])
      /\ \A q \in Runtimes : work[q][t] \in Work /\ Finds(Reloaded[t], q, work[q][t], sends[t])
      /\ Reloaded[t].state = "absent"
  BY AtRest DEF Enqueue
<1>2. nextTicket \in 0..MaxTickets /\ nextTicket' \in 1..(MaxTickets + 1)
  BY DreaminaJournalAssumption DEF IInv, TypeOK, Enqueue
<1>3. /\ x \in Record /\ x.state = "queued" /\ ~x.spawnable /\ ~x.receipt /\ ~x.outputs
      /\ x.poller = None
  BY <1>2 DEF Absent, Record, States, Owner
<1>4. sends[t] = 0 /\ provider[t] = "none" /\ ~Reloaded[t].receipt
  BY <1>1 DEF Sound
<1>5. Sound(x, sends[t], provider[t])
  BY <1>3, <1>4 DEF Sound, Valid
<1>6. Continues(Reloaded[t], x, sends[t]) /\ ~ReservesSlot(x)
  BY <1>1, <1>3, <1>4 DEF Continues, VerdictOf, SettledRecord, ReservesSlot
<1>7. \A q \in Runtimes : work[q][t] \notin Sending \cup {"reserved"}
  BY <1>1 DEF Finds, Mine
<1>8. Finds(x, r, "starting", sends[t]) /\ \A q \in Runtimes : Finds(x, q, work[q][t], sends[t])
  BY <1>7 DEF Finds, Sending
<1>9. /\ Writes(r, [Reloaded EXCEPT ![t] = x]) /\ work' = [work EXCEPT ![r][t] = "starting"]
      /\ UNCHANGED <<status, ready, poll, outside, budgets>>
  BY DEF Enqueue, Turn
<1>10. "starting" \in Work /\ "starting" \notin Sending
  BY DEF Work, Sending
<1> HIDE DEF x
<1> QED BY <1>2, <1>5, <1>6, <1>8, <1>9, <1>10, WritesStep

(* Leaving the queue for a final state sends nothing and submits nothing   *)
(* (cancelTask, deleteTask).                                               *)
LEMMA WithdrawStep ==
    ASSUME IInv, NEW r \in Runtimes, NEW t \in Tasks, NEW state \in {"cancelled", "deleted"},
           Reloaded[t].state = "queued", Alone,
           Writes(r, [Reloaded EXCEPT ![t] = Unleased(@, state)]),
           work' = [work EXCEPT ![r][t] = IF @ = "starting" THEN @ ELSE "none"]
    PROVE  Goes
<1> DEFINE x == Unleased(Reloaded[t], state)
           w == IF work[r][t] = "starting" THEN work[r][t] ELSE "none"
<1>1. /\ Sound(Reloaded[t], sends[t], provider[t])
      /\ \A q \in Runtimes : work[q][t] \in Work /\ Finds(Reloaded[t], q, work[q][t], sends[t])
  BY AtRest
<1>2. /\ x \in Record /\ x.state = state /\ x.owner = None /\ ~x.spawnable
      /\ (x.receipt <=> Reloaded[t].receipt) /\ (x.outputs <=> Reloaded[t].outputs)
      /\ x.poller = Reloaded[t].poller
  BY <1>1, UnleasedType DEF Sound, States
<1>3. /\ sends[t] = 0 /\ ~Reloaded[t].receipt /\ ~Reloaded[t].outputs /\ Reloaded[t].poller = None
  BY <1>1 DEF Sound, Valid, Eligible
<1>4. Sound(x, sends[t], provider[t])
  BY <1>1, <1>2, <1>3 DEF Sound, Valid
<1>5. Continues(Reloaded[t], x, sends[t]) /\ ~ReservesSlot(x)
  BY <1>2, <1>3 DEF Continues, VerdictOf, SettledRecord, ReservesSlot
<1>6. \A q \in Runtimes : work[q][t] \notin Sending \cup {"reserved"}
  BY <1>1 DEF Finds, Mine
<1>7. /\ w \in Work /\ w \notin Sending /\ Finds(x, r, w, sends[t])
      /\ \A q \in Runtimes : Finds(x, q, work[q][t], sends[t])
  BY <1>6 DEF Finds, Sending, Work
<1>8. /\ Writes(r, [Reloaded EXCEPT ![t] = x]) /\ work' = [work EXCEPT ![r][t] = w]
      /\ UNCHANGED <<status, ready, poll, outside, budgets>>
      /\ nextTicket' \in 1..(MaxTickets + 1)
  <2>1. [Reloaded EXCEPT ![t] = Unleased(@, state)] = [Reloaded EXCEPT ![t] = x]
    BY DEF Reloaded
  <2>2. [work EXCEPT ![r][t] = IF @ = "starting" THEN @ ELSE "none"] = [work EXCEPT ![r][t] = w]
    BY DEF IInv, TypeOK
  <2> HIDE DEF x, w
  <2> QED BY <2>1, <2>2 DEF Alone, IInv, TypeOK
<1> HIDE DEF x, w
<1> QED BY <1>4, <1>5, <1>7, <1>8, WritesStep

(* A task that has its slot of the queue is reserved, if a slot is free    *)
(* (reserveSubmissionSlot).                                                *)
LEMMA ReserveStep ==
    ASSUME IInv, NEW r \in Runtimes, NEW t \in Tasks, Reserve(r, t)
    PROVE  Goes
<1>0. TypeOK /\ Alone
  BY DEF IInv, Reserve
<1>1. CASE /\ Reloaded[t].state = "queued" /\ HasPriority(Reloaded, t)
           /\ Writes(r, Reserved(r, t)) /\ Turn(r, t, "reserved")
  <2> DEFINE y == Unleased(Reloaded[t], "pending")
             x == [y EXCEPT !.owner = r, !.live = TRUE]
  <2>1. /\ Sound(Reloaded[t], sends[t], provider[t])
        /\ \A q \in Runtimes : work[q][t] \in Work /\ Finds(Reloaded[t], q, work[q][t], sends[t])
    BY AtRest
  <2>2. /\ y \in Record /\ y.state = "pending" /\ ~y.spawnable
        /\ (y.receipt <=> Reloaded[t].receipt) /\ (y.outputs <=> Reloaded[t].outputs)
        /\ y.poller = Reloaded[t].poller
    BY <2>1, UnleasedType DEF Sound, States
  <2>3. /\ sends[t] = 0 /\ ~Reloaded[t].receipt /\ ~Reloaded[t].outputs /\ Reloaded[t].poller = None
    BY <1>1, <2>1 DEF Sound, Valid, Eligible
  <2> HIDE DEF y
  <2>4. /\ x \in Record /\ x.state = "pending" /\ x.owner = r /\ ~x.spawnable
        /\ ~x.receipt /\ ~x.outputs /\ x.poller = None
    BY <2>2, <2>3 DEF Record, Owner
  <2> HIDE DEF x
  <2>5. Sound(x, sends[t], provider[t])
    BY <2>1, <2>3, <2>4 DEF Sound, Valid
  <2>6. Continues(Reloaded[t], x, sends[t])
    BY <1>1, <2>3, <2>4 DEF Continues, VerdictOf, SettledRecord
  <2>7. \A q \in Runtimes : work[q][t] \notin Sending \cup {"reserved"}
    BY <1>1, <2>1 DEF Finds, Mine
  <2>8. /\ "reserved" \in Work /\ "reserved" \notin Sending
        /\ Finds(x, r, "reserved", sends[t])
        /\ \A q \in Runtimes : Finds(x, q, work[q][t], sends[t])
    BY <2>3, <2>4, <2>7 DEF Finds, Sending, Work, Mine
  <2>9. Reserved(r, t) = [Reloaded EXCEPT ![t] = x]
    BY DEF Reserved, x, y, Reloaded
  <2>10. nextTicket' \in 1..(MaxTickets + 1) /\ UNCHANGED <<status, ready, poll, outside, budgets>>
    BY <1>0 DEF Alone, TypeOK
  <2> QED BY <1>1, <2>5, <2>6, <2>8, <2>9, <2>10, WritesStep DEF Turn
<1>2. CASE /\ Reads(r)
           /\ work' = [work EXCEPT ![r][t] = IF @ = "starting" THEN "waiting" ELSE @]
  <2> DEFINE w == IF work[r][t] = "starting" THEN "waiting" ELSE work[r][t]
  <2>1. w \in Work /\ (w = work[r][t] \/ w \notin Sending \cup {"reserved"})
    BY <1>0 DEF TypeOK, Work, Sending
  <2>2. work' = [work EXCEPT ![r][t] = w]
    BY <1>0, <1>2 DEF TypeOK
  <2> HIDE DEF w
  <2> QED BY <1>0, <1>2, <2>1, <2>2, TurnStep
<1>3. CASE (Reads(r) \/ Refused(r)) /\ Turn(r, t, "none")
  BY <1>0, <1>3, TurnStep DEF Turn, Refused, Work, Sending
<1> QED BY <1>1, <1>2, <1>3 DEF Reserve

(* Leave to spawn is given to the Runtime that holds the reservation       *)
(* (commitInvocationFence).                                                *)
LEMMA PermitStep ==
    ASSUME IInv, NEW r \in Runtimes, NEW t \in Tasks, Permit(r, t)
    PROVE  Goes
<1>0. TypeOK /\ Alone
  BY DEF IInv, Permit
<1>1. CASE /\ Matches(Reloaded, r, t)
           /\ Writes(r, [Reloaded EXCEPT ![t].spawnable = TRUE]) /\ Turn(r, t, "permitted")
  <2> DEFINE x == [Reloaded[t] EXCEPT !.spawnable = TRUE]
  <2>1. /\ Sound(Reloaded[t], sends[t], provider[t])
        /\ \A q \in Runtimes : work[q][t] \in Work /\ Finds(Reloaded[t], q, work[q][t], sends[t])
        /\ Mine(Reloaded[t], r) /\ work[r][t] = "reserved"
    BY <1>1, AtRest DEF Matches, Mine, Permit
  <2>2. /\ x \in Record /\ x.state = "pending" /\ x.owner = r /\ x.spawnable
        /\ (x.receipt <=> Reloaded[t].receipt) /\ (x.outputs <=> Reloaded[t].outputs)
        /\ x.poller = Reloaded[t].poller
    BY <2>1 DEF Sound, Record, Mine
  <2>3. /\ sends[t] = 0 /\ ~Reloaded[t].receipt /\ ~Reloaded[t].outputs /\ Reloaded[t].poller = None
        /\ ~Reloaded[t].spawnable
    BY <2>1 DEF Sound, Valid, Eligible, Finds, Mine
  <2> HIDE DEF x
  <2>4. Sound(x, sends[t], provider[t])
    BY <2>1, <2>2, <2>3 DEF Sound, Valid
  <2>5. Continues(Reloaded[t], x, sends[t]) /\ ReservesSlot(Reloaded[t])
    BY <2>1, <2>2, <2>3 DEF Continues, VerdictOf, SettledRecord, ReservesSlot, Mine
  <2>6. \A q \in Runtimes \ {r} : work[q][t] \notin Sending \cup {"reserved"}
    BY <2>1 DEF Finds, Mine
  <2>7. /\ "permitted" \in Work
        /\ Finds(x, r, "permitted", sends[t])
        /\ \A q \in Runtimes \ {r} : Finds(x, q, work[q][t], sends[t])
    BY <2>2, <2>3, <2>6 DEF Finds, Sending, Work, Mine
  <2>8. [Reloaded EXCEPT ![t].spawnable = TRUE] = [Reloaded EXCEPT ![t] = x]
    BY DEF x, Reloaded
  <2>9. nextTicket' \in 1..(MaxTickets + 1) /\ UNCHANGED <<status, ready, poll, outside, budgets>>
    BY <1>0 DEF Alone, TypeOK
  <2> QED BY <1>1, <2>4, <2>5, <2>6, <2>7, <2>8, <2>9, WritesStep DEF Turn
<1>2. CASE (Reads(r) \/ Refused(r)) /\ Turn(r, t, "none")
  BY <1>0, <1>2, TurnStep DEF Turn, Refused, Work, Sending
<1> QED BY <1>1, <1>2 DEF Permit

(* A task is sent by the one Runtime that has leave, for the first time    *)
(* (runProcess).                                                           *)
LEMMA SpawnStep ==
    ASSUME IInv, NEW r \in Runtimes, NEW t \in Tasks, Spawn(r, t)
    PROVE  Goes
<1>0. TypeOK /\ work[r][t] = "permitted" /\ work' = [work EXCEPT ![r][t] = "running"]
  BY DEF IInv, Spawn, Turn
<1>1. /\ \A u \in Tasks : Sound(journal[u], sends[u], provider[u])
      /\ \A q \in Runtimes, u \in Tasks : Finds(journal[u], q, work[q][u], sends[u])
      /\ \A u \in Tasks : \A p, q \in Runtimes :
           work[p][u] \in Sending /\ work[q][u] \in Sending => p = q
  BY DEF IInv, Submissions
<1>2. /\ sends[t] = 0 /\ ~journal[t].receipt /\ provider[t] = "none"
      /\ journal[t].state = "unknown" \/ (Mine(journal[t], r) /\ journal[t].spawnable)
  BY <1>0, <1>1 DEF Sound, Finds, Sending
<1>3. /\ sends' = [sends EXCEPT ![t] = 1]
      /\ provider'[t] \in {"none", "working"} /\ provider' \in [Tasks -> Ended \cup {"none", "working"}]
      /\ \A u \in Tasks : u # t => provider'[u] = provider[u]
  BY <1>0, <1>2 DEF Spawn, TypeOK
<1>4. UNCHANGED <<journal, known, nextTicket, status, ready, poll, ends, stalls, errors>>
  BY DEF Spawn, budgets
<1>5. ASSUME NEW u \in Tasks PROVE Sound(journal[u], sends'[u], provider'[u])
  <2>1. CASE u = t
    BY <1>0, <1>1, <1>2, <1>3, <2>1 DEF Sound, TypeOK, Mine
  <2>2. CASE u # t
    BY <1>0, <1>1, <1>3, <2>2 DEF TypeOK
  <2> QED BY <2>1, <2>2
<1>6. ASSUME NEW q \in Runtimes, NEW u \in Tasks PROVE Finds(journal[u], q, work'[q][u], sends'[u])
  <2>1. CASE u # t
    BY <1>0, <1>1, <1>3, <2>1 DEF TypeOK
  <2>2. CASE u = t /\ q = r
    BY <1>0, <1>2, <1>3, <2>2 DEF TypeOK, Finds, Sending
  <2>3. CASE u = t /\ q # r
    <3>1. work'[q][u] = work[q][u]
      BY <1>0, <2>3 DEF TypeOK
    <3>2. work[q][t] \notin Sending \cup {"reserved"}
      BY <1>0, <1>1, <1>2, <2>3 DEF Sending, Finds, Mine
    <3> QED BY <2>3, <3>1, <3>2 DEF Finds, Sending
  <2> QED BY <2>1, <2>2, <2>3
<1>7. ASSUME NEW u \in Tasks, NEW p \in Runtimes, NEW q \in Runtimes,
             work'[p][u] \in Sending, work'[q][u] \in Sending
      PROVE  p = q
  BY <1>0, <1>1, <1>7 DEF TypeOK, Sending
<1>8. Submissions'
  BY <1>4, <1>5, <1>6, <1>7 DEF Submissions
<1>9. TypeOK'
  BY <1>0, <1>3, <1>4 DEF TypeOK, Work
<1>10. ASSUME NEW q \in Runtimes PROVE Asks(poll[q])'
  <2>1. Asks(poll[q]) /\ (poll[q].task # None => poll[q].task \in Tasks)
    BY DEF IInv, TypeOK, Poll
  <2>2. poll[q].task # t
    BY <1>2, <2>1, DreaminaJournalAssumption DEF Asks
  <2> QED BY <1>3, <1>4, <2>1, <2>2 DEF Asks
<1>11. Cardinality(Slots') <= MaxActive
  BY <1>4 DEF Slots, IInv
<1>12. ASSUME NEW u \in Tasks PROVE GoesOn(u)
  <2>1. CASE u = t
    BY <1>0, <1>2, <1>3, <1>4, <2>1 DEF GoesOn, VerdictOf, TypeOK, Mine
  <2>2. CASE u # t
    BY <1>0, <1>3, <1>4, <2>2 DEF GoesOn, Continues, TypeOK
  <2> QED BY <2>1, <2>2
<1> QED BY <1>8, <1>9, <1>10, <1>11, <1>12 DEF Goes, IInv

(* An invocation that is lost leaves its record as it is.                  *)
LEMMA LoseInvocationStep ==
    ASSUME IInv, NEW r \in Runtimes, NEW t \in Tasks, LoseInvocation(r, t)
    PROVE  Goes
<1>0. TypeOK
  BY DEF IInv
<1>1. stalls' \in 0..MaxStalls
  BY <1>0, DreaminaJournalAssumption DEF LoseInvocation, TypeOK
<1>2. Others' /\ UNCHANGED <<journal, poll, outside>>
  BY <1>0, <1>1 DEF LoseInvocation, TypeOK, Others
<1>3. /\ work' \in [Runtimes -> [Tasks -> Work]]
      /\ \A q \in Runtimes, u \in Tasks :
            work'[q][u] = work[q][u] \/ work'[q][u] \notin Sending \cup {"reserved"}
  BY <1>0 DEF LoseInvocation, Turn, TypeOK, Work, Sending
<1> QED BY <1>2, <1>3, ReadStep

(* The receipt is stored by the Runtime that sent the task, under its      *)
(* reservation (commitAcceptedReceipt).                                    *)
LEMMA AcceptStep ==
    ASSUME IInv, NEW r \in Runtimes, NEW t \in Tasks, Accept(r, t)
    PROVE  Goes
<1>0. TypeOK /\ Alone /\ work[r][t] = "running" /\ provider[t] # "none"
  BY DEF IInv, Accept
<1>1. CASE /\ Matches(Reloaded, r, t) /\ Reloaded[t].spawnable
           /\ Writes(r, [Reloaded EXCEPT ![t] = [Unleased(@, "accepted") EXCEPT !.receipt = TRUE]])
           /\ Turn(r, t, "accepted")
  <2> DEFINE y == Unleased(Reloaded[t], "accepted")
             x == [y EXCEPT !.receipt = TRUE]
  <2>1. /\ Sound(Reloaded[t], sends[t], provider[t])
        /\ \A q \in Runtimes : work[q][t] \in Work /\ Finds(Reloaded[t], q, work[q][t], sends[t])
        /\ Mine(Reloaded[t], r)
    BY <1>1, AtRest DEF Matches, Mine
  <2>2. /\ y \in Record /\ y.state = "accepted" /\ y.owner = None /\ ~y.spawnable
        /\ (y.outputs <=> Reloaded[t].outputs) /\ y.poller = Reloaded[t].poller
    BY <2>1, UnleasedType DEF Sound, States
  <2>3. /\ sends[t] = 1 /\ ~Reloaded[t].receipt /\ ~Reloaded[t].outputs /\ Reloaded[t].poller = None
    BY <1>0, <2>1 DEF Sound, Valid, Eligible, Finds, Mine
  <2> HIDE DEF y
  <2>4. /\ x \in Record /\ x.state = "accepted" /\ x.owner = None /\ ~x.spawnable
        /\ x.receipt /\ ~x.outputs /\ x.poller = None
    BY <2>2, <2>3 DEF Record
  <2> HIDE DEF x
  <2>5. Sound(x, sends[t], provider[t])
    BY <1>0, <2>1, <2>3, <2>4 DEF Sound, Valid
  <2>6. Continues(Reloaded[t], x, sends[t]) /\ ReservesSlot(Reloaded[t])
    BY <2>1, <2>3, <2>4 DEF Continues, VerdictOf, SettledRecord, ReservesSlot, Mine
  <2>7. \A q \in Runtimes \ {r} : work[q][t] \notin Sending \cup {"reserved"}
    BY <2>1, <2>3 DEF Finds, Mine
  <2>8. /\ "accepted" \in Work /\ "accepted" \notin Sending
        /\ Finds(x, r, "accepted", sends[t])
        /\ \A q \in Runtimes \ {r} : Finds(x, q, work[q][t], sends[t])
    BY <2>7 DEF Finds, Sending, Work
  <2>9. [Reloaded EXCEPT ![t] = [Unleased(@, "accepted") EXCEPT !.receipt = TRUE]]
          = [Reloaded EXCEPT ![t] = x]
    BY DEF x, y, Reloaded
  <2>10. nextTicket' \in 1..(MaxTickets + 1) /\ UNCHANGED <<status, ready, poll, outside, budgets>>
    BY <1>0 DEF Alone, TypeOK
  <2> QED BY <1>1, <2>5, <2>6, <2>8, <2>9, <2>10, WritesStep DEF Turn
<1>2. CASE (Reads(r) \/ Refused(r)) /\ Turn(r, t, "none")
  BY <1>0, <1>2, TurnStep DEF Turn, Refused, Work, Sending
<1> QED BY <1>1, <1>2 DEF Accept

(* A submission that failed before its spawn was never sent, and its       *)
(* record is removed; after it the record is uncertain.                    *)
LEMMA CommitFailureStep ==
    ASSUME IInv, NEW r \in Runtimes, NEW t \in Tasks, CommitFailure(r, t)
    PROVE  Goes
<1>0. /\ TypeOK /\ Alone /\ work[r][t] \in Failing /\ work' = [work EXCEPT ![r][t] = "none"]
      /\ nextTicket' \in 1..(MaxTickets + 1) /\ UNCHANGED <<status, ready, poll, outside, budgets>>
      /\ "none" \in Work /\ "none" \notin Sending \cup {"reserved"}
  BY DEF IInv, CommitFailure, Turn, Alone, TypeOK, Work, Sending
<1>1. /\ Sound(Reloaded[t], sends[t], provider[t])
      /\ \A q \in Runtimes : work[q][t] \in Work /\ Finds(Reloaded[t], q, work[q][t], sends[t])
  BY AtRest
<1>2. ASSUME Matches(Reloaded, r, t)
      PROVE  /\ \A q \in Runtimes \ {r} : work[q][t] \notin Sending \cup {"reserved"}
             /\ ~Reloaded[t].receipt /\ ~Reloaded[t].outputs /\ Reloaded[t].poller = None
             /\ ReservesSlot(Reloaded[t])
             /\ VerdictOf(Reloaded[t]) = "open" /\ ~SettledRecord(Reloaded[t])
  <2>1. \A q \in Runtimes \ {r} : work[q][t] \notin Sending \cup {"reserved"}
    BY <1>1, <1>2 DEF Matches, Finds, Mine
  <2> QED
    BY <1>1, <1>2, <2>1
       DEF Matches, Sound, Valid, Eligible, ReservesSlot, VerdictOf, SettledRecord
<1>3. CASE /\ Matches(Reloaded, r, t) /\ work[r][t] # "running"
           /\ Writes(r, [Reloaded EXCEPT ![t] = Absent])
  <2>1. sends[t] = 0
    BY <1>0, <1>1, <1>3 DEF Finds, Failing
  <2>2. Absent \in Record
    BY DreaminaJournalAssumption DEF Absent, Record, States, Owner
  <2>3. Sound(Absent, sends[t], provider[t])
    BY <1>1, <2>1, <2>2 DEF Sound, Valid, Absent
  <2>4. Continues(Reloaded[t], Absent, sends[t])
    BY <1>2, <1>3 DEF Continues, VerdictOf, Absent
  <2>5. /\ Finds(Absent, r, "none", sends[t])
        /\ \A q \in Runtimes \ {r} : Finds(Absent, q, work[q][t], sends[t])
    BY <1>2, <1>3 DEF Finds, Sending
  <2> QED BY <1>0, <1>2, <1>3, <2>3, <2>4, <2>5, WritesStep
<1>4. CASE /\ Matches(Reloaded, r, t) /\ work[r][t] = "running"
           /\ Writes(r, [Reloaded EXCEPT ![t] = Unleased(@, "unknown")])
  <2> DEFINE x == Unleased(Reloaded[t], "unknown")
  <2>1. sends[t] = 1
    BY <1>1, <1>4 DEF Finds
  <2>2. /\ x \in Record /\ x.state = "unknown" /\ x.owner = None /\ ~x.spawnable
        /\ ~x.receipt /\ ~x.outputs /\ x.poller = None
    BY <1>1, <1>2, <1>4, UnleasedType DEF Sound, States
  <2>3. [Reloaded EXCEPT ![t] = Unleased(@, "unknown")] = [Reloaded EXCEPT ![t] = x]
    BY DEF Reloaded
  <2> HIDE DEF x
  <2>4. Sound(x, sends[t], provider[t])
    BY <1>1, <2>1, <2>2 DEF Sound, Valid
  <2>5. Continues(Reloaded[t], x, sends[t])
    BY <1>2, <1>4, <2>2 DEF Continues, VerdictOf
  <2>6. /\ Finds(x, r, "none", sends[t])
        /\ \A q \in Runtimes \ {r} : Finds(x, q, work[q][t], sends[t])
    BY <1>2, <1>4 DEF Finds, Sending
  <2> QED BY <1>0, <1>2, <1>4, <2>3, <2>4, <2>5, <2>6, WritesStep
<1>5. CASE Reads(r) \/ Refused(r)
  BY <1>0, <1>5, TurnStep DEF Refused
<1> QED BY <1>3, <1>4, <1>5 DEF CommitFailure

(* A deletion waits in the queue, or only the Runtime itself forgets the   *)
(* task (deleteTask).                                                      *)
LEMMA DeleteStep ==
    ASSUME IInv, NEW r \in Runtimes, NEW t \in Tasks, Delete(r, t)
    PROVE  Goes
<1>0. TypeOK /\ Alone
  BY DEF IInv, Delete
<1>1. CASE /\ Reloaded[t].state = "queued"
           /\ Writes(r, [Reloaded EXCEPT ![t] = Unleased(@, "deleted")])
           /\ work' = [work EXCEPT ![r][t] = IF @ = "starting" THEN @ ELSE "none"]
  BY <1>0, <1>1, WithdrawStep
<1>2. CASE /\ journal' = Reloaded
           /\ known' = [known EXCEPT ![r] = [StatesOf(Reloaded) EXCEPT ![t] = "deleted"]]
           /\ UNCHANGED work
  <2>1. [StatesOf(Reloaded) EXCEPT ![t] = "deleted"] \in [Tasks -> States]
    <3>1. \A u \in Tasks : Reloaded[u].state \in States
      BY RecordsType DEF Record
    <3> QED BY <3>1 DEF StatesOf, States
  <2>2. Others'
    BY <1>0, <1>2, <2>1 DEF TypeOK, Others, Alone, budgets
  <2> QED BY <1>0, <1>2, <2>2, ReadStep DEF Alone, TypeOK
<1> QED BY <1>1, <1>2 DEF Delete

-----------------------------------------------------------------------------
(* The steps of the reconciler, of time and of the ends of Runtimes        *)

(* A step that changes records without a reload, and begins no submission. *)
LEMMA PollingStep ==
    ASSUME IInv, Others', UNCHANGED outside, DOMAIN journal' = Tasks,
           journal' = [t \in Tasks |-> journal'[t]],
           \A t \in Tasks : /\ Sound(journal'[t], sends[t], provider[t])
                            /\ Continues(journal[t], journal'[t], sends[t])
                            /\ ReservesSlot(journal'[t]) => ReservesSlot(journal[t]),
           work' \in [Runtimes -> [Tasks -> Work]],
           \A r \in Runtimes, t \in Tasks :
               \/ work'[r][t] \notin Sending \cup {"reserved"}
               \/ /\ work'[r][t] = work[r][t]
                  /\ Finds(journal'[t], r, work[r][t], sends[t]),
           poll' \in [Runtimes -> Poll],
           \A r \in Runtimes :
               \/ poll'[r] \in {Idle, poll[r]}
               \/ poll'[r].task \in Tasks /\ journal'[poll'[r].task].receipt /\ poll'[r].seen = "nothing"
    PROVE  Goes
<1>1. journal' \in [Tasks -> Record]
  BY DEF Sound
<1>2. \A r \in Runtimes, t \in Tasks : Finds(journal'[t], r, work'[r][t], sends[t])
  BY DEF Finds, Sending
<1>3. \A t \in Tasks : \A q, r \in Runtimes :
         work'[q][t] \in Sending /\ work'[r][t] \in Sending => q = r
  BY DEF IInv, Submissions
<1>4. Cardinality(Slots') <= MaxActive
  <2>1. Slots \in SUBSET Tasks /\ Slots' \in SUBSET Tasks /\ Slots' \subseteq Slots
    BY DEF Slots
  <2> QED BY <2>1, SlotsFewer, SlotsFinite, DreaminaJournalAssumption DEF IInv
<1> QED BY <1>1, <1>2, <1>3, <1>4, RecordsStep

(* Nobody submits a task that has a receipt.                               *)
LEMMA ReceiptAlone ==
    ASSUME NEW record, NEW s, NEW p, Sound(record, s, p), record.receipt,
           NEW r \in Runtimes, NEW w, Finds(record, r, w, s)
    PROVE  w \notin Sending \cup {"reserved"}
BY DEF Sound, Finds, Sending, Mine

(* One record that has a receipt is written; poll leases come and go.      *)
LEMMA ReceiptStep ==
    ASSUME IInv, NEW t \in Tasks, NEW x, journal' = [journal EXCEPT ![t] = x],
           Others', UNCHANGED outside, journal[t].receipt,
           Sound(x, sends[t], provider[t]), Continues(journal[t], x, sends[t]),
           ReservesSlot(x) => ReservesSlot(journal[t]),
           work' \in [Runtimes -> [Tasks -> Work]],
           \A r \in Runtimes, u \in Tasks :
               work'[r][u] = work[r][u] \/ work'[r][u] \notin Sending \cup {"reserved"},
           poll' \in [Runtimes -> Poll],
           \A r \in Runtimes : poll'[r] \in {Idle, poll[r], [task |-> t, seen |-> "nothing"]}
    PROVE  Goes
<1>1. TypeOK /\ journal \in [Tasks -> Record]
  BY DEF IInv, TypeOK
<1>2. /\ DOMAIN journal' = Tasks /\ journal' = [u \in Tasks |-> journal'[u]]
      /\ journal'[t] = x /\ \A u \in Tasks : u # t => journal'[u] = journal[u]
  BY <1>1
<1>3. ASSUME NEW u \in Tasks
      PROVE  /\ Sound(journal'[u], sends[u], provider[u])
             /\ Continues(journal[u], journal'[u], sends[u])
             /\ ReservesSlot(journal'[u]) => ReservesSlot(journal[u])
  BY <1>2, AtRest DEF Continues
<1>4. ASSUME NEW r \in Runtimes, NEW u \in Tasks, work'[r][u] \in Sending \cup {"reserved"}
      PROVE  work'[r][u] = work[r][u] /\ Finds(journal'[u], r, work[r][u], sends[u])
  <2>1. work'[r][u] = work[r][u] /\ Finds(journal[u], r, work[r][u], sends[u])
    BY <1>4, AtRest
  <2>2. u # t
    BY <1>4, <2>1, AtRest, ReceiptAlone
  <2> QED BY <1>2, <2>1, <2>2
<1>5. x.receipt
  BY DEF Continues
<1>6. \A r \in Runtimes :
         \/ poll'[r] \in {Idle, poll[r]}
         \/ poll'[r].task \in Tasks /\ journal'[poll'[r].task].receipt /\ poll'[r].seen = "nothing"
  BY <1>2, <1>5
<1> QED BY <1>2, <1>3, <1>4, <1>6, PollingStep

(* A poll lease is taken, renewed, given up or left by its holder: nothing *)
(* else of the record changes.                                             *)
LEMMA LeaseSound ==
    ASSUME NEW record, NEW s, NEW p, Sound(record, s, p), Eligible(record),
           NEW next \in Record, next.state = record.state, next.owner = record.owner,
           next.spawnable <=> record.spawnable, next.receipt <=> record.receipt,
           next.outputs <=> record.outputs
    PROVE  /\ Sound(next, s, p)
           /\ Continues(record, next, s)
           /\ ReservesSlot(next) => ReservesSlot(record)
           /\ record.receipt
BY DEF Sound, Valid, Eligible, Continues, VerdictOf, SettledRecord, ReservesSlot

(* The lease of a task that is due is taken (claimDue).                    *)
LEMMA ClaimStep ==
    ASSUME IInv, NEW r \in Runtimes, NEW t \in Tasks, Claim(r, t)
    PROVE  Goes
<1> DEFINE x == [journal[t] EXCEPT !.poller = r, !.pollLive = TRUE]
<1>1. TypeOK /\ Sound(journal[t], sends[t], provider[t]) /\ Eligible(journal[t])
  BY AtRest DEF IInv, Claim
<1>2. /\ Sound(x, sends[t], provider[t]) /\ Continues(journal[t], x, sends[t])
      /\ ReservesSlot(x) => ReservesSlot(journal[t])
      /\ journal[t].receipt
  <2>1. /\ x \in Record /\ x.state = journal[t].state /\ x.owner = journal[t].owner
        /\ (x.spawnable <=> journal[t].spawnable) /\ (x.receipt <=> journal[t].receipt)
        /\ (x.outputs <=> journal[t].outputs)
    BY <1>1 DEF Sound, Record, Owner
  <2> HIDE DEF x
  <2> QED BY <1>1, <2>1, LeaseSound
<1>3. journal' = [journal EXCEPT ![t] = x]
  BY <1>1 DEF Claim, TypeOK
<1>4. /\ poll' \in [Runtimes -> Poll]
      /\ \A q \in Runtimes : poll'[q] \in {poll[q], [task |-> t, seen |-> "nothing"]}
  BY <1>1 DEF Claim, TypeOK, Poll
<1>5. Others' /\ UNCHANGED outside
  BY <1>1 DEF Claim, TypeOK, Others, budgets
<1>6. /\ work' \in [Runtimes -> [Tasks -> Work]]
      /\ \A q \in Runtimes, u \in Tasks : work'[q][u] = work[q][u]
  BY <1>1 DEF Claim, TypeOK
<1> HIDE DEF x
<1> QED BY <1>2, <1>3, <1>4, <1>5, <1>6, ReceiptStep

(* A poll lease is renewed by its holder (renewLease).                     *)
LEMMA RenewPollStep ==
    ASSUME IInv, NEW r \in Runtimes, NEW t \in Tasks, RenewPoll(r, t)
    PROVE  Goes
<1> DEFINE x == [journal[t] EXCEPT !.poller = r, !.pollLive = TRUE]
<1>1. TypeOK /\ Sound(journal[t], sends[t], provider[t]) /\ journal[t].poller = r
  BY AtRest DEF IInv, RenewPoll, Polls
<1>2. Eligible(journal[t])
  BY <1>1, DreaminaJournalAssumption DEF Sound
<1>3. /\ Sound(x, sends[t], provider[t]) /\ Continues(journal[t], x, sends[t])
      /\ ReservesSlot(x) => ReservesSlot(journal[t])
      /\ journal[t].receipt
  <2>1. /\ x \in Record /\ x.state = journal[t].state /\ x.owner = journal[t].owner
        /\ (x.spawnable <=> journal[t].spawnable) /\ (x.receipt <=> journal[t].receipt)
        /\ (x.outputs <=> journal[t].outputs)
    BY <1>1 DEF Sound, Record, Owner
  <2> HIDE DEF x
  <2> QED BY <1>1, <1>2, <2>1, LeaseSound
<1>4. journal' = [journal EXCEPT ![t] = x]
  <2>1. x = [journal[t] EXCEPT !.pollLive = TRUE]
    BY <1>1 DEF Sound, Record
  <2> HIDE DEF x
  <2> QED BY <1>1, <2>1 DEF RenewPoll, TypeOK
<1>5. Others' /\ UNCHANGED outside
  BY <1>1 DEF RenewPoll, TypeOK, Others, budgets
<1>6. /\ work' \in [Runtimes -> [Tasks -> Work]]
      /\ \A q \in Runtimes, u \in Tasks : work'[q][u] = work[q][u]
  BY <1>1 DEF RenewPoll, TypeOK
<1>7. /\ poll' \in [Runtimes -> Poll] /\ \A q \in Runtimes : poll'[q] = poll[q]
  BY <1>1 DEF RenewPoll, TypeOK
<1> HIDE DEF x
<1> QED BY <1>3, <1>4, <1>5, <1>6, <1>7, ReceiptStep

(* A poll lease is no longer kept alive.                                   *)
LEMMA ExpirePollStep ==
    ASSUME IInv, NEW t \in Tasks, ExpirePoll(t)
    PROVE  Goes
<1> DEFINE x == [journal[t] EXCEPT !.poller = journal[t].poller, !.pollLive = FALSE]
<1>1. TypeOK /\ Sound(journal[t], sends[t], provider[t]) /\ journal[t].poller # None
  BY AtRest DEF IInv, ExpirePoll
<1>2. Eligible(journal[t]) /\ journal[t].poller \in Owner
  BY <1>1 DEF Sound, Record
<1>3. /\ Sound(x, sends[t], provider[t]) /\ Continues(journal[t], x, sends[t])
      /\ ReservesSlot(x) => ReservesSlot(journal[t])
      /\ journal[t].receipt
  <2>1. /\ x \in Record /\ x.state = journal[t].state /\ x.owner = journal[t].owner
        /\ (x.spawnable <=> journal[t].spawnable) /\ (x.receipt <=> journal[t].receipt)
        /\ (x.outputs <=> journal[t].outputs)
    BY <1>1, <1>2 DEF Sound, Record
  <2> HIDE DEF x
  <2> QED BY <1>1, <1>2, <2>1, LeaseSound
<1>4. journal' = [journal EXCEPT ![t] = x]
  <2>1. x = [journal[t] EXCEPT !.pollLive = FALSE]
    BY <1>1 DEF Sound, Record
  <2> HIDE DEF x
  <2> QED BY <1>1, <2>1 DEF ExpirePoll, TypeOK
<1>5. stalls' \in 0..MaxStalls
  BY <1>1, DreaminaJournalAssumption DEF ExpirePoll, TypeOK
<1>6. Others' /\ UNCHANGED outside
  BY <1>1, <1>5 DEF ExpirePoll, TypeOK, Others, budgets
<1>7. /\ work' \in [Runtimes -> [Tasks -> Work]]
      /\ \A q \in Runtimes, u \in Tasks : work'[q][u] = work[q][u]
  BY <1>1 DEF ExpirePoll, TypeOK
<1>8. /\ poll' \in [Runtimes -> Poll] /\ \A q \in Runtimes : poll'[q] = poll[q]
  BY <1>1 DEF ExpirePoll, TypeOK
<1> HIDE DEF x
<1> QED BY <1>3, <1>4, <1>6, <1>7, <1>8, ReceiptStep

(* A task whose receipt is stored gets a time to be polled at              *)
(* (scheduleBackground).                                                   *)
LEMMA ScheduleBackgroundStep ==
    ASSUME IInv, NEW r \in Runtimes, NEW t \in Tasks, ScheduleBackground(r, t)
    PROVE  Goes
<1>1. TypeOK
  BY DEF IInv
<1>2. /\ work' \in [Runtimes -> [Tasks -> Work]]
      /\ \A q \in Runtimes, u \in Tasks :
            work'[q][u] = work[q][u] \/ work'[q][u] \notin Sending \cup {"reserved"}
  BY <1>1 DEF ScheduleBackground, Turn, TypeOK, Work, Sending
<1>3. CASE Eligible(journal[t])
  <2>1. /\ Sound(journal[t], sends[t], provider[t])
        /\ Sound(Scheduled(journal[t]), sends[t], provider[t])
        /\ Continues(journal[t], Scheduled(journal[t]), sends[t])
        /\ ReservesSlot(Scheduled(journal[t])) => ReservesSlot(journal[t])
    BY AtRest, ScheduledSound DEF ReservesSlot
  <2>2. journal[t].receipt /\ journal' = [journal EXCEPT ![t] = Scheduled(journal[t])]
    BY <1>1, <1>3 DEF ScheduleBackground, Eligible, TypeOK
  <2>3. poll' \in [Runtimes -> Poll] /\ \A q \in Runtimes : poll'[q] = poll[q]
    BY <1>1 DEF ScheduleBackground, Alone, TypeOK
  <2>4. Others' /\ UNCHANGED outside
    BY <1>1 DEF ScheduleBackground, Alone, TypeOK, Others, budgets
  <2> QED BY <1>2, <2>1, <2>2, <2>3, <2>4, ReceiptStep
<1>4. CASE ~Eligible(journal[t])
  <2>1. journal' = journal
    BY <1>1, <1>4 DEF ScheduleBackground, Scheduled, TypeOK
  <2>2. Others'
    BY <1>1 DEF ScheduleBackground, Alone, Others, TypeOK, budgets
  <2> QED BY <1>2, <2>1, <2>2, ReadStep DEF ScheduleBackground, Alone
<1> QED BY <1>3, <1>4

(* Every task that has a receipt gets such a time (initialize).            *)
LEMMA InitializeStep ==
    ASSUME IInv, NEW r \in Runtimes, Initialize(r)
    PROVE  Goes
<1>1. TypeOK
  BY DEF IInv
<1>2. Others'
  BY <1>1 DEF Initialize, Others, TypeOK, budgets
<1>3. /\ DOMAIN journal' = Tasks /\ journal' = [t \in Tasks |-> journal'[t]]
      /\ \A t \in Tasks : journal'[t] = Scheduled(journal[t])
  BY DEF Initialize
<1>4. ASSUME NEW t \in Tasks
      PROVE  /\ Sound(journal'[t], sends[t], provider[t])
             /\ Continues(journal[t], journal'[t], sends[t])
             /\ ReservesSlot(journal'[t]) => ReservesSlot(journal[t])
  BY <1>3, AtRest, ScheduledSound DEF ReservesSlot
<1>5. ASSUME NEW q \in Runtimes, NEW t \in Tasks
      PROVE  Finds(journal'[t], q, work[q][t], sends[t])
  <2>1. /\ journal'[t].state = journal[t].state /\ journal'[t].owner = journal[t].owner
        /\ journal'[t].spawnable <=> journal[t].spawnable
    <3>1. Sound(journal[t], sends[t], provider[t])
      BY AtRest
    <3> QED BY <1>3, <3>1, ScheduledSound
  <2>2. Finds(journal[t], q, work[q][t], sends[t])
    BY AtRest
  <2> QED BY <2>1, <2>2 DEF Finds, Mine
<1>6. poll' \in [Runtimes -> Poll] /\ \A q \in Runtimes : poll'[q] = poll[q]
  BY <1>1 DEF Initialize, TypeOK
<1>7. work' \in [Runtimes -> [Tasks -> Work]] /\ work' = work
  BY <1>1 DEF Initialize, TypeOK
<1> QED BY <1>2, <1>3, <1>4, <1>5, <1>6, <1>7, PollingStep DEF Initialize

(* A Runtime starts.                                                       *)
LEMMA StartStep ==
    ASSUME IInv, NEW r \in Runtimes, Start(r)
    PROVE  Goes
<1>1. TypeOK
  BY DEF IInv
<1>2. Others' /\ UNCHANGED <<journal, poll, outside>>
  BY <1>1 DEF Start, TypeOK, Others, budgets
<1>3. work' \in [Runtimes -> [Tasks -> Work]] /\ work' = work
  BY <1>1 DEF Start, TypeOK
<1> QED BY <1>2, <1>3, ReadStep

(* A Runtime reads the journal.                                            *)
LEMMA LoadStep ==
    ASSUME IInv, NEW r \in Runtimes, Load(r)
    PROVE  Goes
<1>1. TypeOK
  BY DEF IInv
<1>2. Others'
  BY <1>1, RecordsType, WritesOthers DEF Load, Reads, Alone, TypeOK
<1>3. journal' = Reloaded /\ UNCHANGED <<poll, outside>>
  BY DEF Load, Reads, Writes, Alone
<1>4. work' \in [Runtimes -> [Tasks -> Work]] /\ work' = work
  BY <1>1 DEF Load, TypeOK
<1> QED BY <1>2, <1>3, <1>4, ReadStep

(* The heartbeat of a waiting task ends.                                   *)
LEMMA HeartbeatEndsStep ==
    ASSUME IInv, NEW r \in Runtimes, NEW t \in Tasks, HeartbeatEnds(r, t)
    PROVE  Goes
BY TurnStep DEF HeartbeatEnds, Turn, Refused, Work, Sending

(* A queued task is cancelled (cancelTask).                                *)
LEMMA CancelStep ==
    ASSUME IInv, NEW r \in Runtimes, NEW t \in Tasks, Cancel(r, t)
    PROVE  Goes
BY WithdrawStep DEF Cancel

(* A poller hears from the provider: nothing it may not have heard.        *)
LEMMA ObserveStep ==
    ASSUME IInv, NEW r \in Runtimes, Observe(r)
    PROVE  Goes
<1>1. TypeOK /\ Asks(poll[r]) /\ poll[r] \in Poll /\ poll[r].task \in Tasks
  BY DEF IInv, TypeOK, Observe, Poll
<1> DEFINE t == poll[r].task
<1>2. Sound(journal[t], sends[t], provider[t]) /\ journal[t].receipt
  BY <1>1, AtRest, DreaminaJournalAssumption DEF Asks
<1>3. provider[t] \in {"working", "completed", "failed"}
  BY <1>2 DEF Sound, Ended
<1>4. PICK seen \in {provider[t], "unready", "error"} :
          /\ seen = "unready" => provider[t] = "completed"
          /\ seen \in {"unready", "error"} => errors < MaxErrors
          /\ errors' = IF seen \in {"unready", "error"} THEN errors + 1 ELSE errors
          /\ poll' = [poll EXCEPT ![r].seen = seen]
  BY DEF Observe
<1>5. errors' \in 0..MaxErrors
  BY <1>1, <1>4, DreaminaJournalAssumption DEF TypeOK
<1>6. UNCHANGED <<journal, known, nextTicket, status, ready, work, provider, sends, ends, stalls>>
  BY DEF Observe, outside
<1>7. /\ poll' \in [Runtimes -> Poll]
      /\ poll'[r].task = t /\ poll'[r].seen = seen
      /\ \A q \in Runtimes : q # r => poll'[q] = poll[q]
  BY <1>1, <1>3, <1>4 DEF TypeOK, Poll, Ended
<1>8. TypeOK'
  BY <1>1, <1>5, <1>6, <1>7 DEF TypeOK
<1>9. Submissions' /\ Cardinality(Slots') <= MaxActive
  BY <1>6 DEF IInv, Submissions, Slots
<1>10. ASSUME NEW q \in Runtimes PROVE Asks(poll[q])'
  <2>1. CASE q = r
    <3>1. seen \in {"completed", "unready"} => provider[t] = "completed"
      BY <1>4
    <3>2. seen = "failed" => provider[t] = "failed"
      BY <1>4
    <3>3. t # None /\ journal'[t].receipt
      BY <1>1, <1>2, <1>6, DreaminaJournalAssumption
    <3> HIDE DEF t
    <3> QED BY <1>6, <1>7, <2>1, <3>1, <3>2, <3>3 DEF Asks
  <2>2. CASE q # r
    BY <1>6, <1>7, <2>2 DEF IInv, Asks
  <2> QED BY <2>1, <2>2
<1>11. \A u \in Tasks : GoesOn(u)
  BY <1>6 DEF GoesOn, Continues
<1> QED BY <1>8, <1>9, <1>10, <1>11 DEF Goes, IInv

(* The provider comes to an end with what was sent to it.                  *)
LEMMA ProviderEndsStep ==
    ASSUME IInv, NEW t \in Tasks, ProviderEnds(t)
    PROVE  Goes
<1>1. TypeOK /\ provider[t] = "working"
  BY DEF IInv, ProviderEnds
<1>2. /\ provider' \in [Tasks -> Ended \cup {"none", "working"}] /\ provider'[t] \in Ended
      /\ \A u \in Tasks : u # t => provider'[u] = provider[u]
  BY <1>1 DEF ProviderEnds, TypeOK, Ended
<1>3. UNCHANGED <<journal, known, nextTicket, status, ready, work, poll, sends, ends, stalls, errors>>
  BY DEF ProviderEnds, budgets
<1>4. TypeOK'
  BY <1>1, <1>2, <1>3 DEF TypeOK
<1>5. ASSUME NEW u \in Tasks PROVE Sound(journal[u], sends[u], provider'[u])
  <2>1. Sound(journal[u], sends[u], provider[u])
    BY AtRest
  <2>2. CASE u = t
    BY <1>1, <1>2, <2>1, <2>2 DEF Sound, Ended
  <2>3. CASE u # t
    BY <1>2, <2>1, <2>3
  <2> QED BY <2>2, <2>3
<1>6. Submissions'
  BY <1>3, <1>5 DEF IInv, Submissions
<1>7. ASSUME NEW q \in Runtimes PROVE Asks(poll[q])'
  <2>1. Asks(poll[q]) /\ (poll[q].task # None => poll[q].task \in Tasks)
    BY <1>1 DEF IInv, TypeOK, Poll
  <2>2. CASE poll[q].task = t
    <3>1. poll[q].seen \notin {"completed", "unready", "failed"}
      BY <1>1, <2>1, <2>2, DreaminaJournalAssumption DEF Asks
    <3> QED BY <1>3, <2>1, <3>1 DEF Asks
  <2>3. CASE poll[q].task # t
    BY <1>2, <1>3, <2>1, <2>3 DEF Asks
  <2> QED BY <2>2, <2>3
<1>8. Cardinality(Slots') <= MaxActive
  BY <1>3 DEF IInv, Slots
<1>9. \A u \in Tasks : GoesOn(u)
  BY <1>3 DEF GoesOn, Continues
<1> QED BY <1>4, <1>6, <1>7, <1>8, <1>9 DEF Goes, IInv

(* A queue lease or a reservation is no longer kept alive: what its holder *)
(* may do is unchanged until the record is reloaded.                       *)
LEMMA ExpireStep ==
    ASSUME IInv, NEW t \in Tasks, Expire(t)
    PROVE  Goes
<1> DEFINE x == [journal[t] EXCEPT !.live = FALSE]
<1>1. TypeOK /\ Sound(journal[t], sends[t], provider[t])
  BY AtRest DEF IInv
<1>2. /\ x \in Record /\ x.state = journal[t].state /\ x.owner = journal[t].owner
      /\ (x.spawnable <=> journal[t].spawnable) /\ (x.receipt <=> journal[t].receipt)
      /\ (x.outputs <=> journal[t].outputs) /\ x.poller = journal[t].poller
  BY <1>1 DEF Sound, Record
<1>3. journal' = [journal EXCEPT ![t] = x] /\ journal[t].state \in {"queued", "pending"}
  BY <1>1 DEF Expire, TypeOK
<1> HIDE DEF x
<1>4. /\ Sound(x, sends[t], provider[t]) /\ Continues(journal[t], x, sends[t])
      /\ ReservesSlot(x) => ReservesSlot(journal[t])
  BY <1>1, <1>2, <1>3
     DEF Sound, Valid, Eligible, Continues, VerdictOf, SettledRecord, ReservesSlot
<1>5. /\ DOMAIN journal' = Tasks /\ journal' = [u \in Tasks |-> journal'[u]]
      /\ journal'[t] = x /\ \A u \in Tasks : u # t => journal'[u] = journal[u]
  BY <1>1, <1>3 DEF TypeOK
<1>6. ASSUME NEW u \in Tasks
      PROVE  /\ Sound(journal'[u], sends[u], provider[u])
             /\ Continues(journal[u], journal'[u], sends[u])
             /\ ReservesSlot(journal'[u]) => ReservesSlot(journal[u])
  BY <1>4, <1>5, AtRest DEF Continues
<1>7. ASSUME NEW q \in Runtimes, NEW u \in Tasks
      PROVE  Finds(journal'[u], q, work[q][u], sends[u])
  <2>1. Finds(journal[u], q, work[q][u], sends[u])
    BY AtRest
  <2> QED BY <1>2, <1>5, <2>1 DEF Finds, Mine
<1>8. stalls' \in 0..MaxStalls
  BY <1>1, DreaminaJournalAssumption DEF Expire, TypeOK
<1>9. Others' /\ UNCHANGED outside
  BY <1>1, <1>8 DEF Expire, TypeOK, Others
<1>10. work' \in [Runtimes -> [Tasks -> Work]] /\ work' = work
  BY <1>1 DEF Expire, TypeOK
<1>11. poll' \in [Runtimes -> Poll] /\ \A q \in Runtimes : poll'[q] = poll[q]
  BY <1>1 DEF Expire, TypeOK
<1> QED BY <1>5, <1>6, <1>7, <1>9, <1>10, <1>11, PollingStep

(* An answer is committed under the lease it was asked for under, or       *)
(* dropped (commitObservation, commitSyncError).                           *)
LEMMA CommitObservationStep ==
    ASSUME IInv, NEW r \in Runtimes, NEW t \in Tasks, CommitObservation(r, t)
    PROVE  Goes
<1>1. /\ TypeOK /\ Sound(journal[t], sends[t], provider[t])
      /\ poll[r] \in Poll /\ Asks(poll[r]) /\ poll[r].task = t /\ poll[r].seen # "nothing"
  BY AtRest DEF IInv, TypeOK, CommitObservation, Answered
<1>2. /\ poll' \in [Runtimes -> Poll]
      /\ \A q \in Runtimes : poll'[q] \in {Idle, poll[q]}
  BY <1>1 DEF CommitObservation, TypeOK, Idle, Poll
<1>3. work' \in [Runtimes -> [Tasks -> Work]] /\ \A q \in Runtimes, u \in Tasks : work'[q][u] = work[q][u]
  BY <1>1 DEF CommitObservation, TypeOK
<1>4. CASE Polls(r, t) /\ journal' = [journal EXCEPT ![t] = Applied(@, poll[r].seen)]
           /\ known' = [known EXCEPT ![r][t] = journal'[t].state]
  <2> DEFINE x == Applied(journal[t], poll[r].seen)
  <2>1. journal[t].poller # None /\ journal[t].receipt /\ sends[t] = 1
    BY <1>1, <1>4, DreaminaJournalAssumption DEF Polls, Sound, Eligible
  <2>2. /\ poll[r].seen \in {"working", "completed", "failed", "unready", "error"}
        /\ poll[r].seen \in {"completed", "unready"} => provider[t] = "completed"
        /\ poll[r].seen = "failed" => provider[t] = "failed"
    BY <1>1, DreaminaJournalAssumption DEF Poll, Asks, Ended
  <2>3. /\ Sound(x, sends[t], provider[t]) /\ Continues(journal[t], x, sends[t])
        /\ ReservesSlot(x) => ReservesSlot(journal[t])
    BY <1>1, <2>1, <2>2, AppliedSound
  <2> HIDE DEF x
  <2>4. journal' = [journal EXCEPT ![t] = x]
    BY <1>1, <1>4 DEF TypeOK, x
  <2>5. x.state \in States /\ journal'[t] = x
    BY <1>1, <2>3, <2>4 DEF Sound, Record, TypeOK
  <2>6. Others' /\ UNCHANGED outside
    BY <1>1, <1>4, <2>5 DEF CommitObservation, TypeOK, Others, budgets
  <2> QED BY <1>2, <1>3, <2>1, <2>3, <2>4, <2>6, ReceiptStep
<1>5. CASE UNCHANGED <<journal, known>>
  <2>1. journal[t].receipt
    BY <1>1, DreaminaJournalAssumption DEF Asks
  <2>2. Continues(journal[t], journal[t], sends[t]) /\ journal' = [journal EXCEPT ![t] = journal[t]]
    BY <1>1, <1>5 DEF Continues, TypeOK
  <2>3. Others' /\ UNCHANGED outside
    BY <1>1, <1>5 DEF CommitObservation, TypeOK, Others, budgets
  <2> QED BY <1>1, <1>2, <1>3, <2>1, <2>2, <2>3, ReceiptStep
<1> QED BY <1>4, <1>5 DEF CommitObservation

(* An answer that is older than the last one is dropped and its lease      *)
(* given up.                                                               *)
LEMMA CommitOlderStep ==
    ASSUME IInv, NEW r \in Runtimes, NEW t \in Tasks, CommitOlder(r, t)
    PROVE  Goes
<1> DEFINE y == Scheduled(journal[t])
           x == [y EXCEPT !.poller = None, !.pollLive = FALSE]
<1>1. TypeOK /\ Sound(journal[t], sends[t], provider[t]) /\ journal[t].poller = r
  BY AtRest DEF IInv, CommitOlder, Polls
<1>2. Eligible(journal[t]) /\ journal[t].receipt /\ journal[t] \in Record
  BY <1>1, DreaminaJournalAssumption DEF Sound, Eligible
<1>3. y = [journal[t] EXCEPT !.due = TRUE]
  BY <1>2 DEF Scheduled
<1>4. /\ y \in Record /\ y.state = journal[t].state /\ y.owner = journal[t].owner
      /\ (y.spawnable <=> journal[t].spawnable) /\ (y.receipt <=> journal[t].receipt)
      /\ (y.outputs <=> journal[t].outputs)
  BY <1>2, <1>3 DEF Record
<1> HIDE DEF y
<1>5. /\ x \in Record /\ x.state = journal[t].state /\ x.owner = journal[t].owner
      /\ (x.spawnable <=> journal[t].spawnable) /\ (x.receipt <=> journal[t].receipt)
      /\ (x.outputs <=> journal[t].outputs)
  BY <1>4 DEF Record, Owner
<1>6. journal' = [journal EXCEPT ![t] = x]
  BY <1>1 DEF CommitOlder, TypeOK, y
<1> HIDE DEF x
<1>7. /\ Sound(x, sends[t], provider[t]) /\ Continues(journal[t], x, sends[t])
      /\ ReservesSlot(x) => ReservesSlot(journal[t])
  BY <1>1, <1>2, <1>5, LeaseSound
<1>8. /\ poll' \in [Runtimes -> Poll]
      /\ \A q \in Runtimes : poll'[q] \in {Idle, poll[q]}
  BY <1>1 DEF CommitOlder, TypeOK, Idle, Poll
<1>9. work' \in [Runtimes -> [Tasks -> Work]] /\ \A q \in Runtimes, u \in Tasks : work'[q][u] = work[q][u]
  BY <1>1 DEF CommitOlder, TypeOK
<1>10. stalls' \in 0..MaxStalls
  BY <1>1, DreaminaJournalAssumption DEF CommitOlder, TypeOK
<1>11. known' \in [Runtimes -> [Tasks -> States]]
  <2>1. journal'[t] = x /\ x.state \in States
    BY <1>1, <1>5, <1>6 DEF TypeOK, Record
  <2> QED BY <1>1, <2>1 DEF CommitOlder, TypeOK
<1>12. Others' /\ UNCHANGED outside
  BY <1>1, <1>10, <1>11 DEF CommitOlder, TypeOK, Others
<1> QED BY <1>2, <1>6, <1>7, <1>8, <1>9, <1>12, ReceiptStep

(* What is left of a Runtime whose process has ended.                      *)
LEMMA EndsStep ==
    ASSUME IInv, NEW r \in Runtimes, Ends(r)
    PROVE  /\ Others' /\ UNCHANGED outside
           /\ work' \in [Runtimes -> [Tasks -> Work]] /\ \A t \in Tasks : work'[r][t] = "none"
           /\ \A q \in Runtimes \ {r}, t \in Tasks : work'[q][t] = work[q][t]
           /\ poll' \in [Runtimes -> Poll] /\ \A q \in Runtimes : poll'[q] \in {Idle, poll[q]}
<1>1. TypeOK
  BY DEF IInv
<1>2. Nothing \in [Tasks -> States] /\ Unoccupied \in [Tasks -> Work] /\ Idle \in Poll
  BY DEF Nothing, Unoccupied, Idle, States, Work, Poll
<1>3. ends' \in 0..MaxEnds
  BY <1>1, DreaminaJournalAssumption DEF Ends, TypeOK
<1>4. Others' /\ UNCHANGED outside
  BY <1>1, <1>2, <1>3 DEF Ends, TypeOK, Others
<1>5. /\ work' \in [Runtimes -> [Tasks -> Work]] /\ work'[r] = Unoccupied
      /\ \A q \in Runtimes \ {r} : work'[q] = work[q]
  BY <1>1, <1>2 DEF Ends, TypeOK
<1>6. poll' \in [Runtimes -> Poll] /\ \A q \in Runtimes : poll'[q] \in {Idle, poll[q]}
  BY <1>1, <1>2 DEF Ends, TypeOK
<1> QED BY <1>4, <1>5, <1>6 DEF Unoccupied

(* A Runtime is disposed of: nobody else submits what it had queued        *)
(* (dispose).                                                              *)
LEMMA DisposeStep ==
    ASSUME IInv, NEW r \in Runtimes, Dispose(r)
    PROVE  Goes
<1> DEFINE mine(record) == record.state = "queued" /\ record.owner = r
           failed(record) == IF mine(record) THEN Unleased(record, "failed") ELSE record
           released(record) ==
               IF record.poller = r THEN [record EXCEPT !.poller = None, !.pollLive = FALSE] ELSE record
<1>0. Ends(r)
  BY DEF Dispose
<1>1. journal' = [t \in Tasks |-> released(failed(Reloaded[t]))]
  BY DEF Dispose
<1>2. ASSUME NEW record, NEW s, NEW p, Sound(record, s, p)
      PROVE  /\ Sound(failed(record), s, p)
             /\ Continues(record, failed(record), s)
             /\ ReservesSlot(failed(record)) => ReservesSlot(record)
  <2> DEFINE next == Unleased(record, "failed")
  <2>1. CASE mine(record)
    <3>1. s = 0 /\ record \in Record /\ ~record.receipt /\ ~record.outputs /\ record.poller = None
      BY <1>2, <2>1 DEF Sound, Valid, Eligible
    <3>2. /\ next \in Record /\ next.state = "failed" /\ next.owner = None /\ ~next.spawnable
          /\ ~next.receipt /\ ~next.outputs /\ next.poller = None
      BY <3>1, UnleasedType DEF States
    <3> HIDE DEF next
    <3>3. Sound(next, s, p)
      BY <1>2, <3>1, <3>2 DEF Sound, Valid
    <3>4. Continues(record, next, s) /\ ~ReservesSlot(next)
      BY <2>1, <3>1, <3>2 DEF Continues, VerdictOf, SettledRecord, ReservesSlot
    <3>5. failed(record) = next
      BY <2>1 DEF next
    <3> HIDE DEF failed
    <3> QED BY <3>3, <3>4, <3>5
  <2>2. CASE ~mine(record)
    BY <1>2, <2>2 DEF Continues
  <2> QED BY <2>1, <2>2
<1>3. ASSUME NEW record, NEW s, NEW p, Sound(record, s, p)
      PROVE  /\ Sound(released(record), s, p)
             /\ Continues(record, released(record), s)
             /\ ReservesSlot(released(record)) => ReservesSlot(record)
             /\ released(record).state = record.state /\ released(record).owner = record.owner
             /\ released(record).spawnable <=> record.spawnable
  <2> DEFINE next == [record EXCEPT !.poller = None, !.pollLive = FALSE]
  <2>1. CASE record.poller = r
    <3>1. Eligible(record) /\ record \in Record
      BY <1>3, <2>1, DreaminaJournalAssumption DEF Sound
    <3>2. /\ next \in Record /\ next.state = record.state /\ next.owner = record.owner
          /\ (next.spawnable <=> record.spawnable) /\ (next.receipt <=> record.receipt)
          /\ (next.outputs <=> record.outputs)
      BY <3>1 DEF Record, Owner
    <3> HIDE DEF next
    <3>3. Sound(next, s, p) /\ Continues(record, next, s) /\ (ReservesSlot(next) => ReservesSlot(record))
      BY <1>3, <3>1, <3>2, LeaseSound
    <3>4. released(record) = next
      BY <2>1 DEF next
    <3> HIDE DEF released
    <3> QED BY <3>2, <3>3, <3>4
  <2>2. CASE record.poller # r
    BY <1>3, <2>2 DEF Continues
  <2> QED BY <2>1, <2>2
<1>4. ASSUME NEW t \in Tasks, NEW q \in Runtimes
      PROVE  LET w == work'[q][t] IN
             w \notin Sending \cup {"reserved"} \/ (w = work[q][t] /\ Finds(journal'[t], q, w, sends[t]))
  <2>1. CASE q = r
    BY <1>0, <2>1, EndsStep DEF Sending
  <2>2. CASE q # r
    <3>1. Sound(Reloaded[t], sends[t], provider[t]) /\ Finds(Reloaded[t], q, work[q][t], sends[t])
      BY AtRest
    <3>2. work'[q][t] = work[q][t]
      BY <1>0, <2>2, EndsStep
    <3>3. CASE mine(Reloaded[t])
      BY <3>1, <3>2, <3>3 DEF Finds, Sending, Mine
    <3>4. CASE ~mine(Reloaded[t])
      <4>1. failed(Reloaded[t]) = Reloaded[t] /\ journal'[t] = released(Reloaded[t])
        BY <1>1, <3>4
      <4> HIDE DEF released, failed
      <4> QED BY <1>3, <3>1, <3>2, <4>1 DEF Finds, Mine
    <3> QED BY <3>3, <3>4
  <2> QED BY <2>1, <2>2
<1> HIDE DEF released, failed
<1>5. ASSUME NEW t \in Tasks
      PROVE  /\ Sound(journal'[t], sends[t], provider[t])
             /\ Continues(journal[t], journal'[t], sends[t])
             /\ ReservesSlot(journal'[t]) => ReservesSlot(journal[t])
  <2> DEFINE f == failed(Reloaded[t])
  <2>1. /\ Sound(Reloaded[t], sends[t], provider[t]) /\ Continues(journal[t], Reloaded[t], sends[t])
        /\ ReservesSlot(Reloaded[t]) => ReservesSlot(journal[t])
    BY AtRest
  <2>2. /\ Sound(f, sends[t], provider[t]) /\ Continues(Reloaded[t], f, sends[t])
        /\ ReservesSlot(f) => ReservesSlot(Reloaded[t])
    BY <1>2, <2>1
  <2>3. journal'[t] = released(f)
    BY <1>1
  <2> HIDE DEF f
  <2>4. /\ Sound(released(f), sends[t], provider[t]) /\ Continues(f, released(f), sends[t])
        /\ ReservesSlot(released(f)) => ReservesSlot(f)
    BY <1>3, <2>2
  <2> QED BY <2>1, <2>2, <2>3, <2>4, ContinuesTwice
<1>6. DOMAIN journal' = Tasks /\ journal' = [t \in Tasks |-> journal'[t]]
  BY <1>1
<1> QED BY <1>0, <1>4, <1>5, <1>6, EndsStep, PollingStep

(* A Runtime dies: its leases name nobody any more, and expire.            *)
LEMMA CrashStep ==
    ASSUME IInv, NEW r \in Runtimes, Crash(r)
    PROVE  Goes
<1> DEFINE orphaned(record) == [record EXCEPT !.owner = IF @ = r THEN Gone ELSE @,
                                              !.poller = IF @ = r THEN Gone ELSE @]
<1>0. Ends(r)
  BY DEF Crash
<1>1. journal' = [t \in Tasks |-> orphaned(journal[t])]
  BY DEF Crash
<1>2. ASSUME NEW t \in Tasks
      PROVE  /\ Sound(journal'[t], sends[t], provider[t])
             /\ Continues(journal[t], journal'[t], sends[t])
             /\ ReservesSlot(journal'[t]) => ReservesSlot(journal[t])
             /\ \A q \in Runtimes \ {r} : Mine(journal[t], q) => Mine(journal'[t], q)
             /\ journal'[t].state = journal[t].state
             /\ journal'[t].spawnable <=> journal[t].spawnable
  <2> DEFINE x == orphaned(journal[t])
  <2>1. Sound(journal[t], sends[t], provider[t]) /\ journal[t] \in Record
    BY AtRest DEF Sound
  <2>2. /\ x \in Record /\ x.state = journal[t].state
        /\ (x.spawnable <=> journal[t].spawnable) /\ (x.receipt <=> journal[t].receipt)
        /\ (x.outputs <=> journal[t].outputs)
        /\ x.owner = IF journal[t].owner = r THEN Gone ELSE journal[t].owner
        /\ x.poller = IF journal[t].poller = r THEN Gone ELSE journal[t].poller
    BY <2>1 DEF Record, Owner
  <2>3. journal[t].owner # r /\ journal[t].poller # r => x = journal[t]
    BY <2>1 DEF Record
  <2>4. journal'[t] = x
    BY <1>1
  <2> HIDE DEF x
  <2>5. x.owner = None <=> journal[t].owner = None
    BY <2>2, DreaminaJournalAssumption
  <2>6. x.poller = None <=> journal[t].poller = None
    BY <2>2, DreaminaJournalAssumption
  <2>7. Sound(x, sends[t], provider[t])
    BY <2>1, <2>2, <2>5, <2>6 DEF Sound, Valid, Eligible
  <2>8. SettledRecord(journal[t]) => x = journal[t]
    <3>1. SettledRecord(journal[t]) => journal[t].owner = None /\ journal[t].poller = None
      BY <2>1 DEF Sound, Valid, SettledRecord
    <3> QED BY <2>3, <3>1, DreaminaJournalAssumption
  <2>9. Continues(journal[t], x, sends[t])
    BY <2>2, <2>8 DEF Continues, VerdictOf
  <2> QED BY <2>2, <2>4, <2>7, <2>9 DEF ReservesSlot, Mine
<1>3. ASSUME NEW t \in Tasks, NEW q \in Runtimes
      PROVE  LET w == work'[q][t] IN
             w \notin Sending \cup {"reserved"} \/ (w = work[q][t] /\ Finds(journal'[t], q, w, sends[t]))
  <2>1. CASE q = r
    BY <1>0, <2>1, EndsStep DEF Sending
  <2>2. CASE q # r
    <3>1. Finds(journal[t], q, work[q][t], sends[t]) /\ work'[q][t] = work[q][t]
      BY <1>0, <2>2, AtRest, EndsStep
    <3> QED BY <1>2, <2>2, <3>1 DEF Finds
  <2> QED BY <2>1, <2>2
<1>4. DOMAIN journal' = Tasks /\ journal' = [t \in Tasks |-> journal'[t]]
  BY <1>1
<1> QED BY <1>0, <1>2, <1>3, <1>4, EndsStep, PollingStep

-----------------------------------------------------------------------------
(* The theorems                                                            *)

(* Every step keeps the invariant, and takes every record on.              *)
LEMMA NextStep ==
    ASSUME IInv, Next
    PROVE  Goes
<1>1. ASSUME NEW r \in Runtimes, NEW t \in Tasks, Submission(r, t) PROVE Goes
  BY <1>1, ReserveStep, PermitStep, SpawnStep, AcceptStep, LoseInvocationStep, CommitFailureStep
     DEF Submission
<1>2. ASSUME NEW r \in Runtimes, NEW t \in Tasks, Reconciliation(r, t) PROVE Goes
  BY <1>2, ScheduleBackgroundStep, ClaimStep, RenewPollStep, CommitObservationStep, CommitOlderStep
     DEF Reconciliation
<1>3. ASSUME NEW r \in Runtimes, NEW t \in Tasks,
             Enqueue(r, t) \/ HeartbeatEnds(r, t) \/ Cancel(r, t) \/ Delete(r, t)
      PROVE  Goes
  BY <1>3, EnqueueStep, HeartbeatEndsStep, CancelStep, DeleteStep
<1>4. ASSUME NEW r \in Runtimes,
             Load(r) \/ Initialize(r) \/ Observe(r) \/ Start(r) \/ Dispose(r) \/ Crash(r)
      PROVE  Goes
  BY <1>4, LoadStep, InitializeStep, ObserveStep, StartStep, DisposeStep, CrashStep
<1>5. ASSUME NEW t \in Tasks, Expire(t) \/ ExpirePoll(t) \/ ProviderEnds(t) PROVE Goes
  BY <1>5, ExpireStep, ExpirePollStep, ProviderEndsStep
<1> QED BY <1>1, <1>2, <1>3, <1>4, <1>5 DEF Next

(* So does a step that changes nothing.                                    *)
LEMMA StutterStep ==
    ASSUME IInv, UNCHANGED vars
    PROVE  Goes
<1>1. IInv'
  BY DEF IInv, TypeOK, Submissions, Slots, Asks, vars
<1> QED BY <1>1 DEF Goes, GoesOn, Continues, vars

(* An empty journal satisfies the invariant.                               *)
LEMMA InitInv == Init => IInv
<1> SUFFICES ASSUME Init PROVE IInv
  OBVIOUS
<1>1. /\ Absent \in Record /\ Absent.state = "absent" /\ Absent.owner = None /\ ~Absent.spawnable
      /\ ~Absent.receipt /\ ~Absent.outputs /\ Absent.poller = None
  BY DreaminaJournalAssumption DEF Absent, Record, States, Owner
<1>2. Valid(Absent) /\ Sound(Absent, 0, "none")
  BY <1>1 DEF Valid, Sound, Eligible
<1>3. TypeOK
  <2>1. Nothing \in [Tasks -> States] /\ Unoccupied \in [Tasks -> Work] /\ Idle \in Poll
    BY DEF Nothing, Unoccupied, Idle, States, Work, Poll
  <2>2. 1 \in 1..(MaxTickets + 1) /\ 0 \in 0..MaxEnds /\ 0 \in 0..MaxStalls /\ 0 \in 0..MaxErrors
    BY DreaminaJournalAssumption
  <2> QED BY <1>1, <1>2, <2>1, <2>2 DEF Init, TypeOK
<1>4. Submissions
  <2>1. \A r \in Runtimes, t \in Tasks : work[r][t] = "none"
    BY DEF Init, Unoccupied
  <2> QED BY <1>2, <2>1 DEF Init, Submissions, Finds, Sending
<1>5. \A r \in Runtimes : Asks(poll[r])
  BY DEF Init, Asks, Idle
<1>6. Cardinality(Slots) <= MaxActive
  <2>1. Slots = {}
    BY <1>1 DEF Slots, Init, ReservesSlot
  <2> QED BY <2>1, FS_EmptySet, DreaminaJournalAssumption
<1> QED BY <1>3, <1>4, <1>5, <1>6 DEF IInv

(* The journal, what the provider has, what the Runtimes submit and what   *)
(* they poll agree, whatever dies or expires: the invariant the theorems   *)
(* below rest on.                                                          *)
THEOREM Invariant == Spec => []IInv
<1>1. IInv /\ [Next]_vars => IInv'
  BY NextStep, StutterStep DEF Goes
<1> QED BY <1>1, InitInv, PTL DEF Spec

(* Every variable keeps its type, and every record that is written is one  *)
(* the state file may hold (validRecord).                                  *)
THEOREM TypeCorrect == Spec => []TypeOK
<1>1. IInv => TypeOK
  BY DEF IInv
<1> QED BY <1>1, Invariant, PTL

(* What the provider works on holds a slot of the journal, so it never     *)
(* works on more than maxActiveTasks, however many Runtimes submit.        *)
THEOREM SlotsCover == Spec => []SlotsCoverProvider
<1>1. ASSUME IInv PROVE SlotsCoverProvider
  <2> DEFINE working == {t \in Tasks : provider[t] = "working"}
  <2>1. ASSUME NEW t \in working PROVE ReservesSlot(journal[t])
    <3>1. Sound(journal[t], sends[t], provider[t]) /\ provider[t] = "working"
      BY <1>1 DEF IInv, Submissions
    <3>2. journal[t].receipt => journal[t].state = "accepted"
      BY <3>1 DEF Sound, Ended
    <3> QED BY <3>1, <3>2 DEF Sound, ReservesSlot
  <2>2. working \subseteq Slots /\ Slots \in SUBSET Tasks /\ working \in SUBSET Tasks
    BY <2>1 DEF Slots
  <2>3. Cardinality(working) <= MaxActive
    <3>1. Cardinality(working) <= Cardinality(Slots) /\ Cardinality(Slots) <= MaxActive
      BY <1>1, <2>2, SlotsFewer DEF IInv
    <3>2. Cardinality(working) \in Nat /\ Cardinality(Slots) \in Nat
      BY <2>2, SlotsFinite
    <3> HIDE DEF working
    <3> QED BY <3>1, <3>2, DreaminaJournalAssumption
  <2> QED BY <2>1, <2>3 DEF SlotsCoverProvider
<1> QED BY <1>1, Invariant, PTL

(* A record that is settled stays as it is: no late answer, submission,    *)
(* cancellation or crash changes it.                                       *)
THEOREM SettledStaysSettled == Spec => SettledIsFinal
<1>1. IInv /\ [Next]_vars => [\A t \in Tasks : Settled(t) => journal'[t] = journal[t]]_vars
  <2> SUFFICES ASSUME IInv, [Next]_vars, NEW t \in Tasks, Settled(t)
               PROVE  journal'[t] = journal[t]
    OBVIOUS
  <2>1. GoesOn(t)
    BY NextStep, StutterStep DEF Goes
  <2> QED BY <2>1 DEF GoesOn, Continues, Settled, SettledRecord
<1> QED BY <1>1, Invariant, PTL DEF Spec, SettledIsFinal

(* The journal of several Runtimes implements the promise: a task is sent  *)
(* to the provider's CLI at most once, and what is told of it is final and *)
(* true.                                                                   *)
THEOREM KeepsPromise == Spec => SubmitsAsPromised
<1> DEFINE verdict == [t \in Tasks |-> Verdict(t)]
<1>1. \A t \in Tasks : Verdict(t) = VerdictOf(journal[t])
  BY DEF Verdict, VerdictOf
<1>2. Init => Promise!Init
  BY DEF Init, Promise!Init, Verdict, Absent
<1>3. IInv /\ [Next]_vars => [Promise!Next]_Promise!vars
  <2> SUFFICES ASSUME IInv, [Next]_vars PROVE Promise!Next
    OBVIOUS
  <2>1. Goes
    BY NextStep, StutterStep
  <2>2. \A t \in Tasks : Verdict(t) = VerdictOf(journal[t]) /\ Verdict(t)' = VerdictOf(journal'[t])
    BY DEF Verdict, VerdictOf
  <2>3. verdict' \in [Tasks -> {"open", "unsent", "uncertain", "finished"}]
    BY <2>2 DEF VerdictOf
  <2>4. sends' \in [Tasks -> 0..1] /\ \A t \in Tasks : sends[t] \in {0, 1}
    <3>1. IInv /\ IInv'
      BY <2>1 DEF Goes
    <3> QED BY <3>1 DEF IInv, TypeOK, Submissions, Sound
  <2>5. ASSUME NEW t \in Tasks
        PROVE  Promise!Send(t) \/ Promise!GiveUp(t) \/ Promise!Doubt(t) \/ Promise!Finish(t) \/ Promise!Keep(t)
    <3>1. GoesOn(t) /\ verdict[t] = VerdictOf(journal[t]) /\ verdict'[t] = VerdictOf(journal'[t])
      BY <2>1, <2>2 DEF Goes
    <3> QED
      BY <2>4, <3>1 DEF GoesOn, Continues, Promise!Send, Promise!GiveUp, Promise!Doubt,
                        Promise!Finish, Promise!Keep
  <2> QED BY <2>3, <2>4, <2>5 DEF Promise!Next
<1> QED BY <1>2, <1>3, Invariant, PTL DEF Spec, SubmitsAsPromised, Promise!Spec
=============================================================================
