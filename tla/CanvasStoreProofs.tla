-------------------------- MODULE CanvasStoreProofs --------------------------
(***************************************************************************)
(* Proofs about CanvasStore, for any numbers of pages, nodes, effects,     *)
(* edits, attempts and failures: the state keeps its type, and, for a node *)
(* that nobody has deleted, a stamp is stored only by the commit of its    *)
(* result and only together with the result.                               *)
(*                                                                         *)
(* The argument follows the stamps of one node.  What a page has queued or *)
(* is writing carries no stamp but those the page last saw stored, and all *)
(* of those its base carries (Stamped); what the page shows carries more   *)
(* only while an attempt shows its result, and then the stamp of that      *)
(* result (Shows).  A content made by an effect goes with the stamp of the *)
(* effect everywhere (Own), so an attempt whose node shows the result      *)
(* already has nothing to store.                                           *)
(***************************************************************************)
EXTENDS CanvasStore, TLAPS

Attempting(t) == work[t].pc # "none"
AtWork == {"draining", "ready", "committed", "final"}

(* A save and the last part of an attempt are made under the lock.         *)
Placed ==
    \A t \in Tabs :
        /\ save[t] # None =>
              lock = t /\ queue[t] # None /\ work[t].pc \notin {"ready", "final"}
        /\ work[t].pc \in AtWork => lock = t

Types == TypeOK /\ Placed

-----------------------------------------------------------------------------
(* A node whose content is a result has the stamp of the result.           *)
Own(node) == node # Absent /\ node.content \in Effects => node.content \in node.stamps

(* A change: what it carries was stored, and its base has no more.         *)
Carries(change, n, seen) ==
    /\ Own(change.base[n]) /\ Own(change.state[n])
    /\ Stamps(change.base[n]) \subseteq seen
    /\ change.state[n] # Absent =>
          /\ Stamps(change.base[n]) \subseteq Stamps(change.state[n])
          /\ Stamps(change.state[n]) \subseteq seen

Seen(t, n) == Stamps(observed[t].items[n])

Stamped(t, n) ==
    /\ Own(observed[t].items[n])
    /\ Seen(t, n) \subseteq Stamps(disk.items[n])
    /\ queue[t] # None => Carries(queue[t], n, Seen(t, n))
    /\ save[t] # None =>
          /\ Carries(save[t], n, Seen(t, n))
          /\ queue[t].state[n] # Absent =>
                Stamps(save[t].state[n]) \subseteq Stamps(queue[t].state[n])

Replaces(t, n) == Attempting(t) /\ work[t].base[n] # work[t].local[n]

(* The stamps a page may show before they are stored.                      *)
Early(t, n) == IF Replaces(t, n) /\ work[t].shown THEN Stamps(work[t].local[n]) ELSE {}

(* What people may bring back carries no more than what they removed.      *)
Recalls(t, n) ==
    removed[t][n] # Absent =>
        /\ Own(removed[t][n])
        /\ Stamps(removed[t][n]) \subseteq Stamps(disk.items[n]) \cup Early(t, n)
        /\ Attempting(t) => Stamps(work[t].base[n]) \subseteq Stamps(removed[t][n])

Shows(t, n) ==
    /\ Own(memory[t][n])
    /\ Stamps(memory[t][n]) \subseteq Stamps(disk.items[n]) \cup Early(t, n)
    /\ Attempting(t) =>
          /\ Own(work[t].base[n]) /\ Own(work[t].local[n])
          /\ Stamps(work[t].base[n]) \subseteq Stamps(disk.items[n])
          /\ memory[t][n] # Absent => Stamps(work[t].base[n]) \subseteq Stamps(memory[t][n])
    /\ Replaces(t, n) /\ work[t].pc \in {"committed", "final"} =>
          Stamps(work[t].local[n]) \subseteq Stamps(disk.items[n])
    /\ Recalls(t, n)

(* An attempt puts one result on its node.                                 *)
Attempted(t) ==
    Attempting(t) => \E e \in Effects : /\ work[t].base[Target[e]] # Absent
                                        /\ work[t].local = Applied(work[t].base, e)

Knowing(n) == Own(disk.items[n]) /\ \A t \in Tabs : Stamped(t, n) /\ Shows(t, n)

Known == \A n \in Nodes \ deleted : Knowing(n)

IInv == Types /\ (\A t \in Tabs : Attempted(t)) /\ Known

-----------------------------------------------------------------------------
(* The merge.                                                              *)

LEMMA MergedNode ==
    ASSUME NEW base \in Node \cup {Absent}, NEW local \in Node, NEW durable \in Node
    PROVE  /\ MergeNode(base, local, durable) \in Node
           /\ MergeNode(base, local, durable).content =
                 MergeField(Field(base, "content"), local.content, durable.content)
           /\ MergeNode(base, local, durable).stamps =
                 MergeStamps(Stamps(base), local.stamps, durable.stamps)
<1> DEFINE fields == {"content", "place", "stamps"}
           record == MergeRecord(base, local, durable)
           merged == MergeNode(base, local, durable)
<1>1. DOMAIN local = fields
  BY DEF Node
<1>2. record = [f \in fields |-> MergeField(Field(base, f), local[f], durable[f])]
  BY <1>1 DEF MergeRecord
<1>3. /\ record.content = MergeField(Field(base, "content"), local.content, durable.content)
      /\ record.place = MergeField(Field(base, "place"), local.place, durable.place)
      /\ DOMAIN record = fields
  BY <1>2
<1>4. merged = [content |-> record.content, place |-> record.place,
                stamps |-> MergeStamps(Stamps(base), local.stamps, durable.stamps)]
  BY <1>2 DEF MergeNode
<1>5. record.content \in Values \cup Effects /\ record.place \in Values
  BY <1>3 DEF MergeField, Node
<1>6. MergeStamps(Stamps(base), local.stamps, durable.stamps) \in SUBSET Effects
  BY DEF MergeStamps, Node
<1> QED BY <1>3, <1>4, <1>5, <1>6 DEF Node

(* What a save makes of one node, and of its tombstone.                    *)
LEMMA RebasedNode ==
    ASSUME NEW document \in Document, NEW base \in Canvas, NEW local \in Canvas,
           NEW revision \in Nat, NEW n \in Nodes
    PROVE  LET result == RebaseCanvas(document, base, local, revision)
               stored == /\ ChangedBy(base, local, n)
                         /\ ~Refused(document, base, revision, n)
           IN  /\ result.items[n] =
                    IF RemovedBy(base, local, n) THEN Absent
                    ELSE IF ~stored THEN document.items[n]
                    ELSE IF document.items[n] = Absent THEN local[n]
                    ELSE MergeNode(base[n], local[n], document.items[n])
               /\ result.tombstones[n] =
                    IF RemovedBy(base, local, n) THEN document.revision + 1
                    ELSE IF stored THEN 0 ELSE document.tombstones[n]
               /\ result.revision = document.revision + 1
<1>1. DOMAIN local = Nodes
  BY DEF Canvas
<1> QED BY <1>1 DEF RebaseCanvas, RebaseWith

LEMMA RebasedDocument ==
    ASSUME NEW document \in Document, NEW base \in Canvas, NEW local \in Canvas,
           NEW revision \in Nat
    PROVE  RebaseCanvas(document, base, local, revision) \in Document
<1> DEFINE result == RebaseCanvas(document, base, local, revision)
<1>1. \A n \in Nodes : result.items[n] \in Node \cup {Absent} /\ result.tombstones[n] \in Nat
  <2> SUFFICES ASSUME NEW n \in Nodes
               PROVE  result.items[n] \in Node \cup {Absent} /\ result.tombstones[n] \in Nat
    OBVIOUS
  <2>1. /\ base[n] \in Node \cup {Absent} /\ local[n] \in Node \cup {Absent}
        /\ document.items[n] \in Node \cup {Absent}
        /\ document.tombstones[n] \in Nat /\ document.revision \in Nat
    BY DEF Canvas, Document
  <2>2. local[n] \in Node /\ document.items[n] \in Node =>
           MergeNode(base[n], local[n], document.items[n]) \in Node
    BY <2>1, MergedNode
  <2> QED BY <2>1, <2>2, RebasedNode DEF ChangedBy
<1>2. /\ DOMAIN result.items = Nodes /\ DOMAIN result.tombstones = Nodes
      /\ result = [items |-> result.items, tombstones |-> result.tombstones,
                   revision |-> document.revision + 1]
      /\ result.items = [n \in Nodes |-> result.items[n]]
      /\ result.tombstones = [n \in Nodes |-> result.tombstones[n]]
  <2>1. DOMAIN local = Nodes
    BY DEF Canvas
  <2> QED BY <2>1 DEF RebaseCanvas, RebaseWith
<1>3. document.revision + 1 \in Nat
  BY DEF Document
<1>4. result.items \in Canvas /\ result.tombstones \in [Nodes -> Nat]
  BY <1>1, <1>2 DEF Canvas
<1>5. result \in Document
  <2> HIDE DEF result
  <2> QED BY <1>2, <1>3, <1>4 DEF Document
<1> QED BY <1>5

(* What an ordinary save carries of a node: at most the stamps that the    *)
(* page saw stored.                                                        *)
LEMMA OrdinaryNode ==
    ASSUME NEW nodes \in Canvas, NEW stored \in Canvas, NEW n \in Nodes
    PROVE  LET node == Ordinary(nodes, stored)[n]
           IN  /\ node \in Node \cup {Absent}
               /\ node # Absent => Stamps(node) = Stamps(stored[n])
               /\ Own(nodes[n]) /\ Own(stored[n]) => Own(node)
<1>1. nodes[n] \in Node \cup {Absent} /\ stored[n] \in Node \cup {Absent}
  BY DEF Canvas
<1>2. Stamps(stored[n]) \in SUBSET Effects
  BY <1>1 DEF Stamps, Node
<1>3. CASE nodes[n] = Absent
  BY <1>3 DEF Ordinary, Own
<1>4. CASE nodes[n] # Absent /\ ~(Stamps(nodes[n]) \subseteq Stamps(stored[n]))
  BY <1>1, <1>4 DEF Ordinary
<1>5. CASE nodes[n] # Absent /\ Stamps(nodes[n]) \subseteq Stamps(stored[n])
  <2> DEFINE node == [nodes[n] EXCEPT !.stamps = Stamps(stored[n])]
  <2>1. Ordinary(nodes, stored)[n] = node
    BY <1>5 DEF Ordinary
  <2>2. /\ node \in Node
        /\ node.content = nodes[n].content
        /\ node.stamps = Stamps(stored[n])
        /\ Stamps(nodes[n]) = nodes[n].stamps
    BY <1>1, <1>2, <1>5 DEF Node, Stamps
  <2> HIDE DEF node
  <2>3. node # Absent
    BY <2>2, DistinctAssumption
  <2> QED BY <1>5, <2>1, <2>2, <2>3 DEF Stamps, Own
<1> QED BY <1>3, <1>4, <1>5

LEMMA OrdinaryCanvas ==
    ASSUME NEW nodes \in Canvas, NEW stored \in Canvas
    PROVE  Ordinary(nodes, stored) \in Canvas
<1>1. Ordinary(nodes, stored) = [n \in Nodes |-> Ordinary(nodes, stored)[n]]
  BY DEF Ordinary
<1>2. \A n \in Nodes : Ordinary(nodes, stored)[n] \in Node \cup {Absent}
  BY OrdinaryNode
<1> HIDE DEF Ordinary
<1> QED BY <1>1, <1>2 DEF Canvas

LEMMA QueuedChange ==
    ASSUME NEW change \in Change \cup {None}, NEW stored \in Version, NEW nodes \in Canvas,
           NEW rows \in SUBSET (Nodes \X (Fields \cup {"row"}))
    PROVE  LET queued == Queued(change, stored, nodes, rows)
           IN  /\ queued \in Change /\ queued # None
               /\ queued.base = IF change = None THEN stored.items ELSE change.base
               /\ queued.state = Ordinary(nodes, stored.items)
<1> DEFINE state == Ordinary(nodes, stored.items)
<1>1. stored.items \in Canvas /\ stored.revision \in Nat
  BY DEF Version
<1>2. state \in Canvas
  BY <1>1, OrdinaryCanvas
<1> HIDE DEF state
<1>3. CASE change = None
  <2> DEFINE queued == [base |-> stored.items, baseRevision |-> stored.revision,
                        state |-> state, taken |-> FALSE, touched |-> rows]
  <2>1. Queued(change, stored, nodes, rows) = queued
    BY <1>3 DEF Queued, state
  <2>2. queued \in Change
    BY <1>1, <1>2 DEF Change
  <2>3. queued.base = stored.items /\ queued.state = state
    OBVIOUS
  <2> HIDE DEF queued
  <2> QED BY <1>3, <2>1, <2>2, <2>3, DistinctAssumption DEF state
<1>4. CASE change # None
  <2> DEFINE touched == rows \cup (IF change.taken THEN {} ELSE change.touched)
  <2>1. Queued(change, stored, nodes, rows) =
           [change EXCEPT !.state = state, !.taken = FALSE, !.touched = touched]
    BY <1>4 DEF Queued, state
  <2>2. change \in Change /\ touched \in SUBSET (Nodes \X (Fields \cup {"row"}))
    BY <1>4 DEF Change
  <2> DEFINE queued == [change EXCEPT !.state = state, !.taken = FALSE, !.touched = touched]
  <2> HIDE DEF touched
  <2>3. queued \in Change
    BY <1>2, <2>2 DEF Change
  <2>4. queued.base = change.base /\ queued.state = state
    BY <2>2 DEF Change
  <2> QED BY <1>4, <2>1, <2>3, <2>4, DistinctAssumption DEF state
<1> QED BY <1>3, <1>4

-----------------------------------------------------------------------------
(* Type correctness.                                                       *)

LEMMA Typed ==
    ASSUME TypeOK, NEW t \in Tabs
    PROVE  /\ disk \in Document /\ disk.items \in Canvas /\ disk.revision \in Nat
           /\ memory[t] \in Canvas /\ removed[t] \in Canvas
           /\ observed[t] \in Version /\ observed[t].items \in Canvas
           /\ queue[t] \in Change \cup {None} /\ save[t] \in Change \cup {None}
           /\ work[t] \in Attempt \cup {NoWork}
BY DEF TypeOK, Document, Version

LEMMA ChangeParts ==
    ASSUME NEW change \in Change
    PROVE  /\ change.base \in Canvas /\ change.baseRevision \in Nat /\ change.state \in Canvas
           /\ change.taken \in BOOLEAN /\ change.touched \in SUBSET (Nodes \X (Fields \cup {"row"}))
           /\ change # None
BY DistinctAssumption DEF Change

LEMMA AttemptParts ==
    ASSUME NEW attempt \in Attempt \cup {NoWork}, attempt.pc # "none"
    PROVE  /\ attempt \in Attempt /\ attempt.base \in Canvas /\ attempt.local \in Canvas
           /\ attempt.baseRevision \in Nat /\ attempt.shown \in BOOLEAN
BY DEF Attempt, NoWork

(* What a page brings back: a node it removed and does not show.           *)
LEMMA RemovedTypes ==
    ASSUME TypeOK, NEW t \in Tabs, memory' \in [Tabs -> Canvas],
           \/ removed' = StillRemoved(t) /\ \A u \in Tabs \ {t} : memory'[u] = memory[u]
           \/ UNCHANGED <<memory, removed>>
    PROVE  /\ removed' \in [Tabs -> Canvas]
           /\ \A u \in Tabs, n \in Nodes : removed'[u][n] # Absent => memory'[u][n] = Absent
<1> DEFINE still == [n \in Nodes |-> IF memory'[t][n] = Absent THEN removed[t][n] ELSE Absent]
<1>1. CASE removed' = StillRemoved(t) /\ \A u \in Tabs \ {t} : memory'[u] = memory[u]
  <2>1. still \in Canvas /\ removed' = [removed EXCEPT ![t] = still]
    BY <1>1 DEF StillRemoved, TypeOK, Canvas
  <2>2. \A n \in Nodes : still[n] # Absent => memory'[t][n] = Absent
    OBVIOUS
  <2> HIDE DEF still
  <2>3. removed'[t] = still /\ \A u \in Tabs \ {t} : removed'[u] = removed[u]
    BY <2>1 DEF TypeOK
  <2> QED BY <1>1, <2>1, <2>2, <2>3 DEF TypeOK
<1>2. CASE UNCHANGED <<memory, removed>>
  BY <1>2 DEF TypeOK
<1> QED BY <1>1, <1>2

LEMMA Observed ==
    ASSUME NEW document \in Document
    PROVE  Observe(document) \in Version /\ Observe(document).items = document.items
BY DEF Observe, Version, Document

LEMMA DiskTypes ==
    ASSUME TypeOK, NEW base \in Canvas, NEW local \in Canvas, NEW revision \in Nat,
           disk' = RebaseCanvas(disk, base, local, revision)
    PROVE  /\ disk' \in Document
           /\ \A n \in Nodes :
                 /\ disk'.tombstones[n] \in 0..disk'.revision
                 /\ disk'.items[n] # Absent => disk'.tombstones[n] = 0
                 /\ disk'.items[n] = Absent /\ (\E e \in Effects : Target[e] = n)
                       => disk'.tombstones[n] # 0
<1>1. disk \in Document
  BY DEF TypeOK
<1>2. disk' \in Document
  BY <1>1, RebasedDocument
<1>3. ASSUME NEW n \in Nodes
      PROVE  /\ disk'.tombstones[n] \in 0..disk'.revision
             /\ disk'.items[n] # Absent => disk'.tombstones[n] = 0
             /\ disk'.items[n] = Absent /\ (\E e \in Effects : Target[e] = n)
                   => disk'.tombstones[n] # 0
  <2> DEFINE stored == ChangedBy(base, local, n) /\ ~Refused(disk, base, revision, n)
  <2>1. /\ disk.tombstones[n] \in 0..disk.revision /\ disk.revision \in Nat
        /\ disk.items[n] # Absent => disk.tombstones[n] = 0
        /\ disk.items[n] = Absent /\ (\E e \in Effects : Target[e] = n)
              => disk.tombstones[n] # 0
    BY <1>1 DEF TypeOK, Document
  <2>2. /\ disk'.items[n] =
              IF RemovedBy(base, local, n) THEN Absent
              ELSE IF ~stored THEN disk.items[n]
              ELSE IF disk.items[n] = Absent THEN local[n]
              ELSE MergeNode(base[n], local[n], disk.items[n])
        /\ disk'.tombstones[n] =
              IF RemovedBy(base, local, n) THEN disk.revision + 1
              ELSE IF stored THEN 0 ELSE disk.tombstones[n]
        /\ disk'.revision = disk.revision + 1
    BY <1>1, RebasedNode
  <2>3. stored => local[n] # Absent
    BY DEF ChangedBy
  <2>4. stored /\ disk.items[n] # Absent =>
           MergeNode(base[n], local[n], disk.items[n]) # Absent
    <3>1. stored /\ disk.items[n] # Absent =>
             base[n] \in Node \cup {Absent} /\ local[n] \in Node /\ disk.items[n] \in Node
      BY <1>1, <2>3 DEF Canvas, Document
    <3> QED BY <3>1, MergedNode, DistinctAssumption
  <2> HIDE DEF stored
  <2> QED BY <2>1, <2>2, <2>3, <2>4
<1> QED BY <1>2, <1>3

(* Step by step.                                                           *)
LEMMA EditTypes ==
    ASSUME Types, NEW t \in Tabs, NEW n \in Nodes, NEW node \in Node \cup {Absent},
           NEW rows \in SUBSET (Nodes \X (Fields \cup {"row"})), Edit(t, n, node, rows)
    PROVE  Types'
<1> DEFINE nodes == [memory[t] EXCEPT ![n] = node]
           queued == Queued(queue[t], observed[t], nodes, rows)
           kept == [removed[t] EXCEPT ![n] = IF node = Absent THEN memory[t][n] ELSE Absent]
<1> USE DEF Types
<1>1. nodes \in Canvas /\ kept \in Canvas
  BY Typed DEF Canvas
<1>2. queued \in Change /\ queued # None
  BY <1>1, Typed, QueuedChange
<1>3. /\ memory' = [memory EXCEPT ![t] = nodes]
      /\ queue' = [queue EXCEPT ![t] = queued]
      /\ removed' = [removed EXCEPT ![t] = kept]
      /\ edits' \in 0..MaxEdits
      /\ UNCHANGED <<disk, observed, save, work, lock, deleted, attempts, failures>>
  BY CanvasAssumption DEF Edit, TypeOK
<1>0. \A m \in Nodes : kept[m] # Absent => nodes[m] = Absent
  BY DEF TypeOK, Canvas
<1> HIDE DEF nodes, queued, kept
<1>4. /\ memory' \in [Tabs -> Canvas] /\ DOMAIN queue' = Tabs /\ removed' \in [Tabs -> Canvas]
      /\ \A u \in Tabs, m \in Nodes : removed'[u][m] # Absent => memory'[u][m] = Absent
  BY <1>0, <1>1, <1>3 DEF TypeOK
<1>5. \A u \in Tabs : queue'[u] = None \/ queue'[u] \in Change
  BY <1>2, <1>3 DEF TypeOK
<1>6. TypeOK'
  BY <1>3, <1>4, <1>5 DEF TypeOK
<1>7. Placed'
  BY <1>2, <1>3 DEF Placed, TypeOK
<1> QED BY <1>6, <1>7

LEMMA TakeTypes ==
    ASSUME Types, NEW t \in Tabs, TakeChange(t)
    PROVE  Types'
<1> USE DEF Types
<1>1. queue[t] \in Change /\ queue[t] # None
  BY Typed DEF TakeChange
<1>2. [queue[t] EXCEPT !.taken = TRUE] \in Change
  BY <1>1 DEF Change
<1>3. [queue[t] EXCEPT !.taken = TRUE] # None
  BY <1>2, DistinctAssumption
<1>4. /\ queue' = [queue EXCEPT ![t] = [queue[t] EXCEPT !.taken = TRUE]]
      /\ save' = [save EXCEPT ![t] = queue[t]]
      /\ lock = t /\ work[t].pc \notin {"ready", "final"}
      /\ UNCHANGED <<disk, memory, removed, observed, work, lock, deleted, edits, attempts,
                     failures>>
  BY DEF TakeChange
<1>5. TypeOK'
  BY <1>1, <1>2, <1>4 DEF TypeOK
<1>6. Placed'
  BY <1>1, <1>3, <1>4 DEF Placed, TypeOK
<1> QED BY <1>5, <1>6

LEMMA AcquireTypes ==
    ASSUME Types, NEW t \in Tabs, AcquireToSave(t) \/ AcquireForResult(t) \/ ReadBack(t)
    PROVE  Types'
<1> USE DEF Types
<1>1. CASE AcquireToSave(t)
  <2>1. None \notin Tabs
    BY PagesAssumption
  <2>2. TypeOK'
    BY <1>1 DEF AcquireToSave, TypeOK
  <2>3. Placed'
    BY <1>1, <2>1 DEF AcquireToSave, Placed
  <2> QED BY <2>2, <2>3
<1>2. CASE AcquireForResult(t) \/ ReadBack(t)
  <2>1. PICK pc \in AtWork : work' = [work EXCEPT ![t].pc = pc]
    BY <1>2 DEF AcquireForResult, ReadBack, AtWork
  <2>2. work[t] \in Attempt
    BY <1>2, Typed DEF AcquireForResult, ReadBack, Attempt, NoWork
  <2>3. [work[t] EXCEPT !.pc = pc] \in Attempt /\ [work[t] EXCEPT !.pc = pc].pc = pc
    BY <2>1, <2>2 DEF Attempt, AtWork
  <2>4. lock' = t /\ (lock = None \/ lock = t) /\ (lock = t => queue[t] = None)
    BY <1>2, PagesAssumption DEF AcquireForResult, ReadBack, Placed, AtWork
  <2>5. UNCHANGED <<disk, memory, removed, observed, queue, save, deleted, edits, attempts,
                    failures>>
    BY <1>2 DEF AcquireForResult, ReadBack
  <2>6. TypeOK'
    BY <2>1, <2>3, <2>4, <2>5 DEF TypeOK
  <2>7. save[t] = None
    BY <2>4, PagesAssumption DEF Placed
  <2>8. Placed'
    BY <2>1, <2>3, <2>4, <2>5, <2>7, PagesAssumption DEF Placed, TypeOK
  <2> QED BY <2>6, <2>8
<1> QED BY <1>1, <1>2

LEMMA WriteTypes ==
    ASSUME Types, NEW t \in Tabs, WriteChange(t)
    PROVE  Types'
<1> DEFINE document == RebaseCanvas(disk, save[t].base, save[t].state, save[t].baseRevision)
           row == Requeued(t, document)
<1> USE DEF Types
<1>1. /\ lock = t /\ save[t] # None /\ save[t] \in Change
      /\ queue[t] \in Change /\ queue[t] # None
      /\ work[t].pc \notin {"ready", "final"}
  BY Typed DEF WriteChange, Placed
<1>2. /\ disk' = document /\ observed' = [observed EXCEPT ![t] = Observe(document)]
      /\ deleted' \subseteq Nodes
      /\ queue' = [queue EXCEPT ![t] = row]
      /\ save' = [save EXCEPT ![t] = None]
      /\ UNCHANGED <<memory, removed, edits, attempts, failures>>
  BY DEF WriteChange, Wrote, TypeOK
<1>3. document \in Document
  BY <1>1, Typed, ChangeParts, RebasedDocument
<1>4. Observe(document) \in Version
  BY <1>3, Observed
<1>5. row \in Change \cup {None}
  <2>1. document.revision \in Nat /\ save[t].state \in Canvas
    BY <1>1, <1>3, ChangeParts DEF Document
  <2> HIDE DEF document
  <2>2. [queue[t] EXCEPT !.base = save[t].state, !.baseRevision = document.revision] \in Change
    BY <1>1, <2>1 DEF Change
  <2> QED BY <2>2 DEF Requeued
<1>6. /\ disk' \in Document
      /\ \A n \in Nodes :
            /\ disk'.tombstones[n] \in 0..disk'.revision
            /\ disk'.items[n] # Absent => disk'.tombstones[n] = 0
            /\ disk'.items[n] = Absent /\ (\E e \in Effects : Target[e] = n)
                  => disk'.tombstones[n] # 0
  BY <1>1, <1>2, ChangeParts, DiskTypes
<1> HIDE DEF document, row
<1>7. /\ observed' \in [Tabs -> Version] /\ DOMAIN queue' = Tabs /\ DOMAIN save' = Tabs
      /\ \A u \in Tabs : /\ queue'[u] = None \/ queue'[u] \in Change
                         /\ save'[u] = None \/ save'[u] \in Change
  BY <1>2, <1>4, <1>5 DEF TypeOK
<1>8. CASE UNCHANGED <<work, lock>>
  <2>1. TypeOK'
    BY <1>2, <1>6, <1>7, <1>8 DEF TypeOK
  <2>2. Placed'
    BY <1>1, <1>2, <1>8, PagesAssumption DEF Placed, TypeOK
  <2> QED BY <2>1, <2>2
<1>9. CASE work[t].pc = "draining" /\ work' = [work EXCEPT ![t].pc = "ready"] /\ UNCHANGED lock
  <2>1. work[t] \in Attempt
    BY <1>9, Typed, AttemptParts
  <2>2. [work[t] EXCEPT !.pc = "ready"] \in Attempt
    BY <2>1 DEF Attempt
  <2>3. TypeOK'
    BY <1>2, <1>6, <1>7, <1>9, <2>2 DEF TypeOK
  <2>4. Placed'
    BY <1>1, <1>2, <1>9, PagesAssumption DEF Placed, TypeOK
  <2> QED BY <2>3, <2>4
<1>10. CASE work[t].pc \notin AtWork /\ lock' = None /\ UNCHANGED work
  <2>1. TypeOK'
    BY <1>2, <1>6, <1>7, <1>10 DEF TypeOK
  <2>2. Placed'
    BY <1>1, <1>2, <1>10, PagesAssumption DEF Placed, TypeOK
  <2> QED BY <2>1, <2>2
<1>11. UNCHANGED <<work, lock>> \/ work[t].pc \in {"draining"} \/ work[t].pc \notin AtWork
  BY <1>1 DEF WriteChange, AtWork
<1> QED BY <1>1, <1>8, <1>9, <1>10, <1>11 DEF WriteChange, AtWork

LEMMA AppliedCanvas ==
    ASSUME NEW nodes \in Canvas, NEW e \in Effects, nodes[Target[e]] # Absent
    PROVE  Applied(nodes, e) \in Canvas
<1> DEFINE n == Target[e]
           node == [nodes[n] EXCEPT !.content = e, !.stamps = @ \cup {e}]
<1>1. n \in Nodes /\ nodes[n] \in Node
  BY CanvasAssumption DEF Canvas
<1>2. node \in Node
  BY <1>1 DEF Node
<1>3. Applied(nodes, e) = nodes \/ Applied(nodes, e) = [nodes EXCEPT ![n] = node]
  <2>1. [nodes EXCEPT ![n].content = e, ![n].stamps = @ \cup {e}] = [nodes EXCEPT ![n] = node]
    BY <1>1 DEF Canvas, Node
  <2> QED BY <2>1 DEF Applied
<1> HIDE DEF node, n
<1> QED BY <1>1, <1>2, <1>3 DEF Canvas

LEMMA PrepareTypes ==
    ASSUME Types, NEW t \in Tabs, NEW e \in Effects, NEW show \in BOOLEAN, Prepare(t, e, show)
    PROVE  Types'
<1> DEFINE nodes == Applied(memory[t], e)
           attempt == [pc |-> "waiting", base |-> memory[t], local |-> nodes,
                       baseRevision |-> observed[t].revision, shown |-> show]
           queued(kept) == Queued(queue[t], observed[t], kept, {})
<1> USE DEF Types
<1>1. /\ memory[t] \in Canvas /\ nodes \in Canvas /\ observed[t].revision \in Nat
      /\ memory[t][Target[e]] # Absent
  BY Typed, AppliedCanvas DEF Prepare, Version
<1>2. attempt \in Attempt /\ attempt.pc = "waiting"
  BY <1>1 DEF Attempt
<1>3. \A kept \in {memory[t], nodes} : queued(kept) \in Change /\ queued(kept) # None
  <2> SUFFICES ASSUME NEW kept \in Canvas PROVE queued(kept) \in Change /\ queued(kept) # None
    BY <1>1
  <2> QED BY Typed, QueuedChange
<1>4. /\ work' = [work EXCEPT ![t] = attempt]
      /\ attempts' \in 0..MaxAttempts
      /\ \/ /\ memory' = [memory EXCEPT ![t] = nodes]
            /\ \E kept \in {memory[t], nodes} : queue' = [queue EXCEPT ![t] = queued(kept)]
         \/ UNCHANGED <<memory, queue>>
      /\ UNCHANGED <<disk, removed, observed, save, lock, deleted, edits, failures>>
  BY CanvasAssumption DEF Prepare, TypeOK
<1>0. \A n \in Nodes : removed[t][n] # Absent => nodes[n] = Absent
  <2>1. ASSUME NEW n \in Nodes, removed[t][n] # Absent PROVE nodes[n] = Absent
    <3>1. memory[t][n] = Absent /\ n # Target[e]
      BY <1>1, <2>1 DEF TypeOK
    <3> QED BY <3>1 DEF Applied, TypeOK, Canvas
  <2> QED BY <2>1
<1> HIDE DEF nodes, attempt, queued
<1>5. /\ memory' \in [Tabs -> Canvas] /\ DOMAIN queue' = Tabs /\ DOMAIN work' = Tabs
      /\ \A u \in Tabs, n \in Nodes : removed[u][n] # Absent => memory'[u][n] = Absent
      /\ \A u \in Tabs : /\ queue'[u] = None \/ queue'[u] \in Change
                         /\ work'[u] = NoWork \/ work'[u] \in Attempt
                         /\ queue[u] # None => queue'[u] # None
                         /\ work'[u].pc \in {work[u].pc, "waiting"}
  BY <1>0, <1>1, <1>2, <1>3, <1>4 DEF TypeOK
<1>6. TypeOK'
  BY <1>4, <1>5 DEF TypeOK
<1>7. Placed'
  BY <1>4, <1>5 DEF Placed, AtWork
<1> QED BY <1>6, <1>7

LEMMA CommitTypes ==
    ASSUME Types, NEW t \in Tabs, CommitResult(t)
    PROVE  Types'
<1> DEFINE document == RebaseCanvas(disk, work[t].base, work[t].local, work[t].baseRevision)
           change == [queue[t] EXCEPT !.base = document.items, !.baseRevision = document.revision,
                                      !.state = Ordinary(memory[t], document.items)]
           row == IF queue[t] = None THEN None ELSE change
<1> USE DEF Types
<1>1. /\ lock = t /\ work[t].pc = "ready" /\ save[t] = None
      /\ work[t] \in Attempt /\ work[t].base \in Canvas /\ work[t].local \in Canvas
      /\ work[t].baseRevision \in Nat
  BY Typed, AttemptParts DEF CommitResult, Placed
<1>2. /\ disk' = document /\ observed' = [observed EXCEPT ![t] = Observe(document)]
      /\ deleted' \subseteq Nodes
      /\ queue' = [queue EXCEPT ![t] = row]
      /\ work' = [work EXCEPT ![t].pc = "committed"]
      /\ UNCHANGED <<memory, removed, save, lock, edits, attempts, failures>>
  BY DEF CommitResult, Wrote, TypeOK
<1>3. document \in Document /\ document.items \in Canvas /\ document.revision \in Nat
  <2>1. document \in Document
    BY <1>1, Typed, RebasedDocument
  <2> QED BY <2>1 DEF Document
<1>4. Observe(document) \in Version
  BY <1>3, Observed
<1>5. /\ disk' \in Document
      /\ \A n \in Nodes :
            /\ disk'.tombstones[n] \in 0..disk'.revision
            /\ disk'.items[n] # Absent => disk'.tombstones[n] = 0
            /\ disk'.items[n] = Absent /\ (\E e \in Effects : Target[e] = n)
                  => disk'.tombstones[n] # 0
  BY <1>1, <1>2, DiskTypes
<1>6. row \in Change \cup {None}
  <2>1. Ordinary(memory[t], document.items) \in Canvas
    BY <1>3, Typed, OrdinaryCanvas
  <2>2. queue[t] \in Change \cup {None}
    BY Typed
  <2> HIDE DEF document
  <2>3. queue[t] \in Change => change \in Change
    BY <1>3, <2>1 DEF Change
  <2> QED BY <2>2, <2>3
<1>7. [work[t] EXCEPT !.pc = "committed"] \in Attempt
  BY <1>1 DEF Attempt
<1> HIDE DEF document, change, row
<1>8. TypeOK'
  BY <1>2, <1>4, <1>5, <1>6, <1>7 DEF TypeOK
<1>9. Placed'
  BY <1>1, <1>2, PagesAssumption DEF Placed, TypeOK
<1> QED BY <1>8, <1>9

LEMMA TakeBackTypes ==
    ASSUME Types, NEW t \in Tabs, work[t] \in Attempt, NEW change \in Change \cup {None},
           NEW stored \in Version, NEW nodes \in Canvas, TakeBack(t, change, stored, nodes)
    PROVE  /\ memory' \in [Tabs -> Canvas] /\ observed' \in [Tabs -> Version]
           /\ removed' \in [Tabs -> Canvas]
           /\ \A u \in Tabs, n \in Nodes : removed'[u][n] # Absent => memory'[u][n] = Absent
           /\ DOMAIN queue' = Tabs
           /\ \A u \in Tabs : queue'[u] = None \/ queue'[u] \in Change
           /\ \A u \in Tabs \ {t} : queue'[u] = queue[u]
<1> DEFINE restored == [n \in Nodes |->
                IF work[t].base[n] # work[t].local[n] THEN work[t].base[n] ELSE nodes[n]]
<1> USE DEF Types
<1>1. restored \in Canvas
  BY DEF Attempt, Canvas
<1>2. Queued(change, stored, restored, {}) \in Change
  BY <1>1, QueuedChange
<1>3. /\ observed' = [observed EXCEPT ![t] = stored]
      /\ memory' = [memory EXCEPT ![t] = IF work[t].shown THEN restored ELSE nodes]
      /\ queue' = [queue EXCEPT ![t] =
            IF work[t].shown THEN Queued(change, stored, restored, {}) ELSE change]
      /\ removed' = StillRemoved(t)
  BY DEF TakeBack
<1> HIDE DEF restored
<1>4. memory' \in [Tabs -> Canvas] /\ \A u \in Tabs \ {t} : memory'[u] = memory[u]
  BY <1>1, <1>3 DEF TypeOK
<1> QED BY <1>1, <1>2, <1>3, <1>4, RemovedTypes DEF TypeOK

LEMMA ShownCanvas ==
    ASSUME TypeOK, NEW t \in Tabs, work[t] \in Attempt
    PROVE  Shown(t) \in Canvas
<1> DEFINE document == [disk EXCEPT !.items = memory[t]]
<1>1. document \in Document /\ disk.items \in Canvas
  BY Typed DEF Document
<1>2. work[t].base \in Canvas /\ work[t].baseRevision \in Nat
  BY DEF Attempt
<1>3. RebaseCanvas(document, work[t].base, disk.items, work[t].baseRevision) \in Document
  <2> HIDE DEF document
  <2> QED BY <1>1, <1>2, RebasedDocument
<1> QED BY <1>3 DEF Shown, Document

LEMMA EndTypes ==
    ASSUME Types, NEW t \in Tabs, EndWork(t), save'[t] = None,
           \A u \in Tabs \ {t} : save'[u] = save[u] /\ queue'[u] = queue[u],
           lock = t
    PROVE  /\ Placed' /\ lock' \in Tabs \cup {None} /\ DOMAIN work' = Tabs
           /\ \A u \in Tabs : work'[u] = NoWork \/ work'[u] \in Attempt
<1> USE DEF Types
<1>1. /\ lock' = None /\ work' = [work EXCEPT ![t] = NoWork]
      /\ NoWork.pc \notin AtWork
  BY DEF EndWork, NoWork, AtWork
<1>2. work'[t] = NoWork /\ \A u \in Tabs \ {t} : work'[u] = work[u]
  BY <1>1 DEF TypeOK
<1>3. Placed'
  BY <1>1, <1>2, PagesAssumption DEF Placed
<1> QED BY <1>1, <1>2, <1>3 DEF TypeOK

(* A page that is reconciled.                                              *)
LEMMA ReconciledCanvas ==
    ASSUME TypeOK, NEW t \in Tabs, work[t] \in Attempt
    PROVE  Reconciled(t) \in Canvas
<1>1. RebaseCanvas(disk, work[t].local, memory[t], disk.revision) \in Document
  <2>1. disk \in Document /\ work[t].local \in Canvas /\ memory[t] \in Canvas
        /\ disk.revision \in Nat
    BY Typed DEF Attempt
  <2> QED BY <2>1, RebasedDocument
<1> QED BY <1>1 DEF Reconciled, Document

(* What a page that gives a result up shows and queues.                    *)
GivesUp(t, change, nodes) ==
    \/ change = queue[t] /\ nodes = Ordinary(memory[t], disk.items)
    \/ change = Queued(queue[t], Observe(disk), Reconciled(t), {}) /\ nodes = Reconciled(t)

LEMMA RefusedParts ==
    ASSUME TypeOK, NEW t \in Tabs, work[t] \in Attempt, NEW change, NEW nodes,
           GivesUp(t, change, nodes)
    PROVE  change \in Change \cup {None} /\ nodes \in Canvas
<1>1. /\ Observe(disk) \in Version /\ Ordinary(memory[t], disk.items) \in Canvas
      /\ queue[t] \in Change \cup {None} /\ Reconciled(t) \in Canvas
  BY Typed, Observed, OrdinaryCanvas, ReconciledCanvas
<1>2. {} \in SUBSET (Nodes \X (Fields \cup {"row"}))
  OBVIOUS
<1>3. Queued(queue[t], Observe(disk), Reconciled(t), {}) \in Change
  BY <1>1, <1>2, QueuedChange
<1> QED BY <1>1, <1>3 DEF GivesUp

LEMMA RefuseTypes ==
    ASSUME Types, NEW t \in Tabs, RefuseResult(t)
    PROVE  Types'
<1> USE DEF Types
<1>1. lock = t /\ work[t] \in Attempt /\ save[t] = None /\ EndWork(t)
  BY Typed, AttemptParts DEF RefuseResult, Placed
<1>2. PICK change, nodes : GivesUp(t, change, nodes) /\ TakeBack(t, change, Observe(disk), nodes)
  BY DEF RefuseResult, GivesUp
<1>3. /\ Observe(disk) \in Version /\ nodes \in Canvas /\ change \in Change \cup {None}
      /\ UNCHANGED <<save, failures>>
  BY <1>1, <1>2, Typed, Observed, RefusedParts DEF RefuseResult
<1>4. /\ memory' \in [Tabs -> Canvas] /\ observed' \in [Tabs -> Version]
      /\ removed' \in [Tabs -> Canvas]
      /\ \A u \in Tabs, n \in Nodes : removed'[u][n] # Absent => memory'[u][n] = Absent
      /\ DOMAIN queue' = Tabs
      /\ \A u \in Tabs : queue'[u] = None \/ queue'[u] \in Change
      /\ \A u \in Tabs \ {t} : queue'[u] = queue[u]
  BY <1>1, <1>2, <1>3, TakeBackTypes
<1>5. /\ Placed' /\ lock' \in Tabs \cup {None} /\ DOMAIN work' = Tabs
      /\ \A u \in Tabs : work'[u] = NoWork \/ work'[u] \in Attempt
  BY <1>1, <1>3, <1>4, EndTypes
<1>6. TypeOK'
  BY <1>1, <1>3, <1>4, <1>5 DEF TypeOK, EndWork
<1> QED BY <1>5, <1>6

LEMMA ShowTypes ==
    ASSUME Types, NEW t \in Tabs, work[t] \in Attempt, Show(t)
    PROVE  /\ memory' \in [Tabs -> Canvas] /\ observed' \in [Tabs -> Version] /\ EndWork(t)
           /\ removed' \in [Tabs -> Canvas]
           /\ \A u \in Tabs, n \in Nodes : removed'[u][n] # Absent => memory'[u][n] = Absent
<1> USE DEF Types
<1>1. Shown(t) \in Canvas /\ Observe(disk) \in Version
  BY Typed, ShownCanvas, Observed
<1>2. memory' \in [Tabs -> Canvas] /\ \A u \in Tabs \ {t} : memory'[u] = memory[u]
  BY <1>1 DEF Show, TypeOK
<1> QED BY <1>1, <1>2, RemovedTypes DEF Show, TypeOK

LEMMA FinishTypes ==
    ASSUME Types, NEW t \in Tabs, FinishResult(t)
    PROVE  Types'
<1> USE DEF Types
<1>1. lock = t /\ work[t] \in Attempt /\ save[t] = None /\ Show(t)
      /\ UNCHANGED <<queue, save, failures>>
  BY Typed, AttemptParts DEF FinishResult, Placed
<1>2. /\ memory' \in [Tabs -> Canvas] /\ observed' \in [Tabs -> Version] /\ EndWork(t)
      /\ removed' \in [Tabs -> Canvas]
      /\ \A u \in Tabs, n \in Nodes : removed'[u][n] # Absent => memory'[u][n] = Absent
  BY <1>1, ShowTypes
<1>3. /\ Placed' /\ lock' \in Tabs \cup {None} /\ DOMAIN work' = Tabs
      /\ \A u \in Tabs : work'[u] = NoWork \/ work'[u] \in Attempt
  BY <1>1, <1>2, EndTypes
<1>4. TypeOK'
  BY <1>1, <1>2, <1>3 DEF TypeOK, EndWork
<1> QED BY <1>3, <1>4

LEMMA FailTypes ==
    ASSUME Types, NEW t \in Tabs, FailWrite(t)
    PROVE  Types'
<1> USE DEF Types
<1>1. /\ lock = t /\ save[t] \in Change /\ queue[t] \in Change /\ queue[t] # None
      /\ save[t] # None /\ save' = [save EXCEPT ![t] = None] /\ failures' \in 0..MaxFailures
      /\ save'[t] = None /\ \A u \in Tabs \ {t} : save'[u] = save[u]
      /\ DOMAIN save' = Tabs
  BY Typed, CanvasAssumption DEF FailWrite, Placed, TypeOK
<1>2. Again(t) \in Change
  <2> DEFINE touched == queue[t].touched \cup save[t].touched
  <2>1. touched \in SUBSET (Nodes \X (Fields \cup {"row"}))
    BY <1>1, ChangeParts
  <2>2. Again(t) = [queue[t] EXCEPT !.taken = FALSE, !.touched = touched]
    BY <1>1 DEF Again, Change
  <2> HIDE DEF touched
  <2> QED BY <1>1, <2>1, <2>2 DEF Change
<1>3. Again(t) # None
  BY <1>2, DistinctAssumption
<1>4. CASE TakeBack(t, Again(t), observed[t], memory[t]) /\ work[t].pc = "draining" /\ EndWork(t)
  <2>1. work[t] \in Attempt
    BY <1>4, Typed, AttemptParts
  <2>2. /\ memory' \in [Tabs -> Canvas] /\ observed' \in [Tabs -> Version]
        /\ removed' \in [Tabs -> Canvas]
        /\ \A u \in Tabs, n \in Nodes : removed'[u][n] # Absent => memory'[u][n] = Absent
        /\ DOMAIN queue' = Tabs
        /\ \A u \in Tabs : queue'[u] = None \/ queue'[u] \in Change
        /\ \A u \in Tabs \ {t} : queue'[u] = queue[u]
    BY <1>2, <1>4, <2>1, Typed, TakeBackTypes
  <2>3. /\ Placed' /\ lock' \in Tabs \cup {None} /\ DOMAIN work' = Tabs
        /\ \A u \in Tabs : work'[u] = NoWork \/ work'[u] \in Attempt
    BY <1>1, <1>4, <2>2, EndTypes
  <2>4. TypeOK'
    BY <1>1, <1>4, <2>2, <2>3 DEF TypeOK, EndWork
  <2> QED BY <2>3, <2>4
<1>5. CASE queue' = [queue EXCEPT ![t] = Again(t)] /\ work[t].pc = "committed" /\ Show(t)
  <2>1. work[t] \in Attempt
    BY <1>5, Typed, AttemptParts
  <2>2. /\ memory' \in [Tabs -> Canvas] /\ observed' \in [Tabs -> Version] /\ EndWork(t)
        /\ removed' \in [Tabs -> Canvas]
        /\ \A u \in Tabs, n \in Nodes : removed'[u][n] # Absent => memory'[u][n] = Absent
    BY <1>5, <2>1, ShowTypes
  <2>3. /\ DOMAIN queue' = Tabs
        /\ \A u \in Tabs : queue'[u] = None \/ queue'[u] \in Change
        /\ \A u \in Tabs \ {t} : queue'[u] = queue[u]
    BY <1>2, <1>5 DEF TypeOK
  <2>4. /\ Placed' /\ lock' \in Tabs \cup {None} /\ DOMAIN work' = Tabs
        /\ \A u \in Tabs : work'[u] = NoWork \/ work'[u] \in Attempt
    BY <1>1, <2>2, <2>3, EndTypes
  <2>5. TypeOK'
    BY <1>1, <2>2, <2>3, <2>4 DEF TypeOK, EndWork
  <2> QED BY <2>4, <2>5
<1>6. CASE /\ queue' = [queue EXCEPT ![t] = Again(t)] /\ work[t].pc \notin AtWork
           /\ lock' = None
           /\ UNCHANGED <<disk, memory, removed, observed, work, deleted, edits, attempts>>
  <2>1. TypeOK'
    BY <1>1, <1>2, <1>6 DEF TypeOK
  <2>2. Placed'
    BY <1>1, <1>3, <1>6, PagesAssumption DEF Placed, TypeOK
  <2> QED BY <2>1, <2>2
<1>7. work[t].pc \in {"draining", "committed"} \/ work[t].pc \notin AtWork
  BY <1>1 DEF Placed, AtWork
<1> QED BY <1>4, <1>5, <1>6, <1>7 DEF FailWrite, AtWork

LEMMA ReopenTypes ==
    ASSUME Types, NEW t \in Tabs, ReopenPage(t)
    PROVE  Types'
<1> USE DEF Types
<1>1. disk.items \in Canvas /\ Observe(disk) \in Version
  BY Typed, Observed
<1>0. NoNodes \in Canvas /\ \A n \in Nodes : NoNodes[n] = Absent
  BY DEF NoNodes, Canvas
<1>2. TypeOK'
  BY <1>0, <1>1, CanvasAssumption DEF TypeOK, ReopenPage
<1>3. Placed'
  <2>1. NoWork.pc \notin AtWork
    BY DEF NoWork, AtWork
  <2> QED BY <2>1, PagesAssumption DEF Placed, TypeOK, ReopenPage
<1> QED BY <1>2, <1>3

(* The edits of people are Edit with a node of its own.                    *)
EditNode(t) == AddNode(t) \/ UpdateNode(t) \/ RemoveNode(t) \/ RestoreNode(t)

LEMMA EditsAreEdits ==
    ASSUME TypeOK, NEW t \in Tabs, EditNode(t)
    PROVE  \E n \in Nodes, node \in Node \cup {Absent},
              rows \in SUBSET (Nodes \X (Fields \cup {"row"})) :
                 /\ Edit(t, n, node, rows)
                 /\ \/ node = Absent
                    \/ /\ node = NewNode
                       /\ \A u \in Tabs : memory[u][n] = Absent
                       /\ disk.items[n] = Absent
                    \/ /\ memory[t][n] # Absent /\ Stamps(node) = Stamps(memory[t][n])
                       /\ node.content \in Values \cup {memory[t][n].content}
                    \/ node = removed[t][n] /\ node # Absent
<1>1. CASE AddNode(t)
  <2>1. NewNode \in Node
    <3>1. FirstValue \in Values
      BY CanvasAssumption DEF FirstValue
    <3> QED BY <3>1 DEF NewNode, Node
  <2> QED BY <1>1, <2>1 DEF AddNode
<1>2. CASE UpdateNode(t)
  <2>1. PICK n \in Nodes, f \in Fields, v \in Values :
           /\ memory[t][n] # Absent
           /\ Edit(t, n, [memory[t][n] EXCEPT ![f] = v], {<<n, f>>})
    BY <1>2 DEF UpdateNode
  <2> DEFINE node == [memory[t][n] EXCEPT ![f] = v]
  <2>2. memory[t][n] \in Node
    BY <2>1, Typed DEF Canvas
  <2>3. /\ node \in Node /\ node.stamps = memory[t][n].stamps
        /\ node.content \in Values \cup {memory[t][n].content}
    <3>1. f = "content" \/ f = "place"
      BY DEF Fields
    <3> QED BY <2>2, <3>1 DEF Node
  <2>4. node # Absent /\ {<<n, f>>} \in SUBSET (Nodes \X (Fields \cup {"row"}))
    BY <2>3, DistinctAssumption
  <2>5. Edit(t, n, node, {<<n, f>>})
    BY <2>1
  <2> HIDE DEF node
  <2>6. Stamps(node) = Stamps(memory[t][n])
    BY <2>1, <2>3, <2>4 DEF Stamps
  <2> QED BY <2>1, <2>3, <2>4, <2>5, <2>6
<1>3. CASE RemoveNode(t)
  BY <1>3 DEF RemoveNode
<1>4. CASE RestoreNode(t)
  BY <1>4, Typed DEF RestoreNode, Canvas
<1> QED BY <1>1, <1>2, <1>3, <1>4 DEF EditNode

LEMMA InitTypes == Init => Types
<1> SUFFICES ASSUME Init PROVE Types
  OBVIOUS
<1>1. FirstValue \in Values
  BY CanvasAssumption DEF FirstValue
<1>2. NewNode \in Node
  BY <1>1 DEF NewNode, Node
<1>3. /\ InitialDocument.items =
           [n \in Nodes |-> IF \E e \in Effects : Target[e] = n THEN NewNode ELSE Absent]
      /\ InitialDocument.tombstones = [n \in Nodes |-> 0]
      /\ InitialDocument.revision = 0
  BY DEF InitialDocument, EmptyDocument
<1>4. InitialDocument \in Document /\ InitialDocument.items \in Canvas
  <2>1. InitialDocument.items \in Canvas
    BY <1>2, <1>3 DEF Canvas
  <2>2. InitialDocument = [items |-> InitialDocument.items,
           tombstones |-> InitialDocument.tombstones, revision |-> InitialDocument.revision]
    BY DEF InitialDocument, EmptyDocument
  <2> QED BY <1>3, <2>1, <2>2 DEF Document
<1>5. Observe(InitialDocument) \in Version
  BY <1>4, Observed
<1>6. NewNode # Absent
  BY <1>2, DistinctAssumption
<1>7. TypeOK
  <2>0. NoNodes \in Canvas /\ \A n \in Nodes : NoNodes[n] = Absent
    BY DEF NoNodes, Canvas
  <2>1. /\ memory \in [Tabs -> Canvas] /\ removed \in [Tabs -> Canvas] /\ observed \in [Tabs -> Version]
        /\ DOMAIN queue = Tabs /\ DOMAIN save = Tabs /\ DOMAIN work = Tabs
        /\ \A t \in Tabs : queue[t] = None /\ save[t] = None /\ work[t] = NoWork
    BY <1>4, <1>5, <2>0 DEF Init
  <2>2. \A n \in Nodes :
             /\ disk.tombstones[n] \in 0..disk.revision
             /\ disk.items[n] # Absent => disk.tombstones[n] = 0
             /\ (\E e \in Effects : Target[e] = n) => disk.items[n] # Absent
             /\ \A t \in Tabs : removed[t][n] = Absent
    BY <1>3, <1>6, <2>0 DEF Init
  <2>3. edits \in 0..MaxEdits /\ attempts \in 0..MaxAttempts /\ failures \in 0..MaxFailures
    BY CanvasAssumption DEF Init
  <2> QED BY <1>4, <2>1, <2>2, <2>3 DEF Init, TypeOK
<1>8. Placed
  BY DEF Init, Placed, NoWork, AtWork
<1> QED BY <1>7, <1>8 DEF Types

LEMMA NextTypes ==
    ASSUME Types, [Next]_vars
    PROVE  Types'
<1>1. CASE UNCHANGED vars
  BY <1>1 DEF Types, TypeOK, Placed, vars
<1>2. ASSUME NEW t \in Tabs, EditNode(t)
      PROVE  Types'
  BY <1>2, EditsAreEdits, EditTypes DEF Types
<1>3. ASSUME NEW t \in Tabs,
             AcquireToSave(t) \/ AcquireForResult(t) \/ ReadBack(t) \/ TakeChange(t)
      PROVE  Types'
  BY <1>3, AcquireTypes, TakeTypes
<1>4. ASSUME NEW t \in Tabs, WriteChange(t) \/ CommitResult(t)
      PROVE  Types'
  BY <1>4, WriteTypes, CommitTypes
<1>5. ASSUME NEW t \in Tabs, NEW e \in Effects, NEW show \in BOOLEAN, Prepare(t, e, show)
      PROVE  Types'
  BY <1>5, PrepareTypes
<1>6. ASSUME NEW t \in Tabs,
             RefuseResult(t) \/ FinishResult(t) \/ FailWrite(t) \/ ReopenPage(t)
      PROVE  Types'
  BY <1>6, RefuseTypes, FinishTypes, FailTypes, ReopenTypes
<1> QED BY <1>1, <1>2, <1>3, <1>4, <1>5, <1>6 DEF Next, EditNode

(* Document, pages and attempts keep their types, every save and the last  *)
(* part of every attempt runs under the lock, and a node that is gone has  *)
(* a tombstone.                                                            *)
THEOREM TypeCorrect == Spec => []TypeOK
<1>1. Types => TypeOK
  BY DEF Types
<1> QED BY <1>1, InitTypes, NextTypes, PTL DEF Spec

-----------------------------------------------------------------------------
(* The stamps of one node through the operators.                           *)

LEMMA QueuedCarries ==
    ASSUME NEW change \in Change \cup {None}, NEW stored \in Version, NEW nodes \in Canvas,
           NEW rows \in SUBSET (Nodes \X (Fields \cup {"row"})), NEW n \in Nodes,
           Own(nodes[n]), Own(stored.items[n]),
           change # None => /\ Own(change.base[n])
                            /\ Stamps(change.base[n]) \subseteq Stamps(stored.items[n])
    PROVE  LET queued == Queued(change, stored, nodes, rows)
           IN  /\ Carries(queued, n, Stamps(stored.items[n]))
               /\ queued.state[n] # Absent =>
                     Stamps(queued.state[n]) = Stamps(stored.items[n])
<1> DEFINE queued == Queued(change, stored, nodes, rows)
<1>1. /\ queued.base = IF change = None THEN stored.items ELSE change.base
      /\ queued.state = Ordinary(nodes, stored.items)
  BY QueuedChange
<1>2. stored.items \in Canvas
  BY DEF Version
<1>3. /\ queued.state[n] # Absent => Stamps(queued.state[n]) = Stamps(stored.items[n])
      /\ Own(queued.state[n])
  BY <1>1, <1>2, OrdinaryNode
<1> HIDE DEF queued
<1> QED BY <1>1, <1>3 DEF Carries, queued

(* A save of what carries no stamp that is not stored leaves the stamps.   *)
LEMMA SavedNode ==
    ASSUME NEW document \in Document, NEW change \in Change, NEW n \in Nodes,
           Own(document.items[n]), Carries(change, n, Stamps(document.items[n])),
           NEW node,
           node = RebaseCanvas(document, change.base, change.state, change.baseRevision).items[n],
           document.items[n] # Absent => node # Absent
    PROVE  Own(node) /\ Stamps(node) = Stamps(document.items[n])
<1> DEFINE base == change.base[n]
           local == change.state[n]
           durable == document.items[n]
<1>1. /\ change.base \in Canvas /\ change.state \in Canvas /\ change.baseRevision \in Nat
      /\ base \in Node \cup {Absent} /\ local \in Node \cup {Absent}
      /\ durable \in Node \cup {Absent}
  BY ChangeParts DEF Canvas, Document
<1>2. \/ node = Absent /\ durable = Absent
      \/ node = durable
      \/ local # Absent /\ durable = Absent /\ node = local
      \/ local # Absent /\ durable # Absent /\ node = MergeNode(base, local, durable)
  BY <1>1, RebasedNode DEF ChangedBy
<1>3. /\ Own(local) /\ Own(durable)
      /\ local # Absent => /\ Stamps(base) \subseteq Stamps(local)
                           /\ Stamps(local) \subseteq Stamps(durable)
  BY DEF Carries
<1> HIDE DEF base, local, durable
<1>4. CASE local # Absent /\ durable = Absent /\ node = local
  BY <1>3, <1>4 DEF Stamps, durable
<1>5. CASE local # Absent /\ durable # Absent /\ node = MergeNode(base, local, durable)
  <2>1. /\ node \in Node
        /\ node.content = MergeField(Field(base, "content"), local.content, durable.content)
        /\ node.stamps = MergeStamps(Stamps(base), local.stamps, durable.stamps)
    BY <1>1, <1>5, MergedNode
  <2>2. node # Absent /\ Stamps(node) = node.stamps
    BY <2>1, DistinctAssumption DEF Stamps
  <2>3. Stamps(local) = local.stamps /\ Stamps(durable) = durable.stamps
    BY <1>5 DEF Stamps
  <2>4. node.stamps = durable.stamps
    BY <1>3, <1>5, <2>1, <2>3 DEF MergeStamps
  <2>5. node.content = local.content \/ node.content = durable.content
    BY <2>1 DEF MergeField
  <2>6. Own(node)
    BY <1>3, <1>5, <2>3, <2>4, <2>5 DEF Own
  <2> QED BY <2>2, <2>3, <2>4, <2>6 DEF durable
<1> QED BY <1>2, <1>3, <1>4, <1>5 DEF Own, durable

(* The result of effect e on its node, and what its commit makes of a node. *)
LEMMA AppliedNode ==
    ASSUME NEW nodes \in Canvas, NEW e \in Effects, NEW n \in Nodes, nodes[Target[e]] # Absent
    PROVE  LET node == Applied(nodes, e)[n]
           IN  \/ node = nodes[n]
               \/ /\ nodes[n] \in Node /\ nodes[n] # Absent /\ e \notin Stamps(nodes[n])
                  /\ node \in Node /\ node # Absent
                  /\ node.content = e /\ Stamps(node) = Stamps(nodes[n]) \cup {e}
<1>1. CASE n # Target[e] \/ e \in Stamps(nodes[Target[e]])
  BY <1>1 DEF Applied, Canvas
<1>2. CASE n = Target[e] /\ e \notin Stamps(nodes[n])
  <2> DEFINE node == Applied(nodes, e)[n]
  <2>1. nodes[n] \in Node
    BY <1>2 DEF Canvas
  <2>2. node = [nodes[n] EXCEPT !.content = e, !.stamps = @ \cup {e}]
    BY <1>2, <2>1 DEF Applied, Canvas, Node
  <2> HIDE DEF node
  <2>3. node \in Node /\ node.content = e /\ node.stamps = nodes[n].stamps \cup {e}
    BY <2>1, <2>2 DEF Node
  <2>4. node # Absent
    BY <2>3, DistinctAssumption
  <2>5. Stamps(node) = Stamps(nodes[n]) \cup {e}
    BY <1>2, <2>3, <2>4 DEF Stamps
  <2> QED BY <1>2, <2>1, <2>3, <2>4, <2>5 DEF node
<1> QED BY <1>1, <1>2

LEMMA JoinedStamps ==
    ASSUME NEW base, NEW local, NEW durable, NEW e,
           e \notin base, local = base \cup {e}, base \subseteq durable
    PROVE  LET joined == MergeStamps(base, local, durable)
           IN  /\ durable \subseteq joined /\ local \subseteq joined
               /\ \A x \in joined \ durable : x = e
BY DEF MergeStamps

LEMMA CommittedNode ==
    ASSUME TypeOK, NEW t \in Tabs, work[t] \in Attempt, Attempted(t), ResultConflicts(t) = {},
           NEW n \in Nodes, Own(disk.items[n]), Own(work[t].base[n]),
           Stamps(work[t].base[n]) \subseteq Stamps(disk.items[n]),
           NEW node,
           node = RebaseCanvas(disk, work[t].base, work[t].local, work[t].baseRevision).items[n]
    PROVE  /\ Own(node) /\ Stamps(disk.items[n]) \subseteq Stamps(node)
           /\ work[t].base[n] # work[t].local[n] =>
                 Stamps(work[t].local[n]) \subseteq Stamps(node)
           /\ \A x \in Stamps(node) \ Stamps(disk.items[n]) : node.content = x
<1> DEFINE base == work[t].base[n]
           local == work[t].local[n]
           durable == disk.items[n]
<1>1. /\ disk \in Document /\ work[t].base \in Canvas /\ work[t].local \in Canvas
      /\ work[t].baseRevision \in Nat /\ work[t].pc # "none"
      /\ base \in Node \cup {Absent} /\ local \in Node \cup {Absent}
      /\ durable \in Node \cup {Absent}
  BY Typed DEF Attempt, Canvas, Document
<1>2. PICK e \in Effects : /\ work[t].base[Target[e]] # Absent
                           /\ work[t].local = Applied(work[t].base, e)
  BY <1>1 DEF Attempted, Attempting
<1>3. \/ local = base
      \/ /\ base \in Node /\ base # Absent /\ e \notin Stamps(base)
         /\ local \in Node /\ local # Absent
         /\ local.content = e /\ Stamps(local) = Stamps(base) \cup {e}
  <2> DEFINE nodes == work[t].base
  <2>1. nodes \in Canvas /\ nodes[Target[e]] # Absent /\ local = Applied(nodes, e)[n]
    BY <1>1, <1>2
  <2>2. base = nodes[n]
    OBVIOUS
  <2> HIDE DEF nodes, base, local
  <2> QED BY <2>1, <2>2, AppliedNode
<1>4. CASE local = base
  <2>1. node = durable
    BY <1>1, <1>4, RebasedNode DEF ChangedBy, RemovedBy
  <2> QED BY <1>4, <2>1
<1>5. CASE /\ base \in Node /\ base # Absent /\ e \notin Stamps(base)
           /\ local \in Node /\ local # Absent
           /\ local.content = e /\ Stamps(local) = Stamps(base) \cup {e}
  <2>1. base # local
    BY <1>5
  <2>2. n \notin Conflicts(disk, work[t].base, work[t].local, work[t].baseRevision)
    BY DEF ResultConflicts
  <2>3. ChangedBy(work[t].base, work[t].local, n)
    BY <1>5, <2>1 DEF ChangedBy
  <2>4. /\ ~Refused(disk, work[t].base, work[t].baseRevision, n)
        /\ durable # Absent =>
              /\ ~InConflict(Field(base, "content"), local.content, durable.content)
              /\ ~StampsInConflict(Stamps(base), local.stamps, durable.stamps)
    BY <2>2, <2>3 DEF Conflicts, Fields
  <2>5. durable # Absent
    BY <1>5, <2>4 DEF Refused
  <2>6. node = MergeNode(base, local, durable)
    BY <1>1, <1>5, <2>3, <2>4, <2>5, RebasedNode DEF RemovedBy
  <2>7. base.content # e
    BY <1>5 DEF Own, Stamps
  <2> HIDE DEF base, local, durable
  <2>8. /\ node \in Node
        /\ node.content = MergeField(Field(base, "content"), local.content, durable.content)
        /\ node.stamps = MergeStamps(Stamps(base), local.stamps, durable.stamps)
    BY <1>1, <1>5, <2>5, <2>6, MergedNode
  <2>9. /\ Stamps(local) = local.stamps /\ Stamps(durable) = durable.stamps
        /\ Stamps(node) = node.stamps /\ node # Absent /\ Field(base, "content") = base.content
    BY <1>5, <2>5, <2>8, DistinctAssumption DEF Stamps, Field
  <2>10. durable.content = base.content \/ durable.content = e
    BY <1>5, <2>4, <2>5, <2>7, <2>9 DEF InConflict
  <2>11. node.content = e
    BY <1>5, <2>7, <2>8, <2>9, <2>10 DEF MergeField
  <2>12. Stamps(base) \subseteq Stamps(durable)
    BY DEF base, durable
  <2>13. Stamps(node) = MergeStamps(Stamps(base), Stamps(local), Stamps(durable))
    BY <2>8, <2>9
  <2>14. /\ Stamps(durable) \subseteq Stamps(node) /\ Stamps(local) \subseteq Stamps(node)
         /\ \A x \in Stamps(node) \ Stamps(durable) : x = e
    BY <1>5, <2>12, <2>13, JoinedStamps
  <2>15. e \in node.stamps
    BY <1>5, <2>9, <2>14
  <2>16. Own(node)
    BY <2>11, <2>15 DEF Own
  <2>17. \A x \in Stamps(node) \ Stamps(durable) : node.content = x
    BY <2>11, <2>14
  <2> QED BY <2>14, <2>16, <2>17 DEF base, local, durable
<1> QED BY <1>3, <1>4, <1>5

-----------------------------------------------------------------------------
(* The stamps of one node through the steps: what a step leaves alone.     *)

LEMMA StampedFrame ==
    ASSUME NEW u \in Tabs, NEW n \in Nodes, Stamped(u, n),
           Stamps(disk.items[n]) \subseteq Stamps(disk'.items[n]),
           observed'[u] = observed[u], queue'[u] = queue[u], save'[u] = save[u]
    PROVE  Stamped(u, n)'
BY DEF Stamped, Seen, Carries

LEMMA ShowsFrame ==
    ASSUME NEW u \in Tabs, NEW n \in Nodes, Shows(u, n),
           Stamps(disk.items[n]) \subseteq Stamps(disk'.items[n]),
           memory'[u] = memory[u], removed'[u] = removed[u], work'[u] = work[u]
    PROVE  Shows(u, n)'
<1>1. Early(u, n)' = Early(u, n)
  BY DEF Early, Replaces, Attempting
<1> QED BY <1>1 DEF Shows, Recalls, Replaces, Attempting

(* Another page's step, and the step of one page as a whole.               *)
LEMMA OthersKnow ==
    ASSUME NEW t \in Tabs, NEW n \in Nodes, Knowing(n), Own(disk.items[n])',
           Stamps(disk.items[n]) \subseteq Stamps(disk'.items[n]),
           \A u \in Tabs \ {t} :
               /\ observed'[u] = observed[u] /\ queue'[u] = queue[u] /\ save'[u] = save[u]
               /\ memory'[u] = memory[u] /\ removed'[u] = removed[u] /\ work'[u] = work[u],
           Stamped(t, n)', Shows(t, n)'
    PROVE  Knowing(n)'
<1>1. ASSUME NEW u \in Tabs PROVE Stamped(u, n)' /\ Shows(u, n)'
  BY StampedFrame, ShowsFrame DEF Knowing
<1> QED BY <1>1 DEF Knowing

LEMMA EditKnows ==
    ASSUME Types, NEW t \in Tabs, NEW n \in Nodes, Knowing(n),
           EditNode(t)
    PROVE  Knowing(n)'
<1> USE DEF Types
<1>1. PICK m \in Nodes, node \in Node \cup {Absent},
           rows \in SUBSET (Nodes \X (Fields \cup {"row"})) :
              /\ Edit(t, m, node, rows)
              /\ \/ node = Absent
                 \/ /\ node = NewNode
                    /\ \A u \in Tabs : memory[u][m] = Absent
                    /\ disk.items[m] = Absent
                 \/ /\ memory[t][m] # Absent /\ Stamps(node) = Stamps(memory[t][m])
                    /\ node.content \in Values \cup {memory[t][m].content}
                 \/ node = removed[t][m] /\ node # Absent
  BY EditsAreEdits
<1> DEFINE nodes == [memory[t] EXCEPT ![m] = node]
           queued == Queued(queue[t], observed[t], nodes, rows)
<1>2. nodes \in Canvas /\ memory[t] \in Canvas /\ nodes[n] = IF n = m THEN node ELSE memory[t][n]
  BY Typed DEF Canvas
<1>3. /\ memory' = [memory EXCEPT ![t] = nodes] /\ queue' = [queue EXCEPT ![t] = queued]
      /\ removed' = [removed EXCEPT ![t] =
                        [@ EXCEPT ![m] = IF node = Absent THEN memory[t][m] ELSE Absent]]
      /\ UNCHANGED <<disk, observed, save, work>>
  BY <1>1 DEF Edit
<1>4. Stamped(t, n) /\ Shows(t, n) /\ Own(disk.items[n])
  BY DEF Knowing
<1>5. Own(nodes[n])
  <2>1. Own(NewNode)
    <3>1. FirstValue \in Values
      BY CanvasAssumption DEF FirstValue
    <3> QED BY <3>1, CanvasAssumption DEF NewNode, Own
  <2>2. ASSUME n = m, memory[t][m] # Absent, Stamps(node) = Stamps(memory[t][m]),
               node.content \in Values \cup {memory[t][m].content}
        PROVE  Own(node)
    <3>1. Own(memory[t][m])
      BY <1>4, <2>2 DEF Shows
    <3>2. node # Absent => Stamps(node) = node.stamps
      BY DEF Stamps
    <3>3. Stamps(memory[t][m]) = memory[t][m].stamps
      BY <2>2 DEF Stamps
    <3> QED BY <2>2, <3>1, <3>2, <3>3, CanvasAssumption DEF Own
  <2>3. /\ Own(Absent) /\ Own(memory[t][n])
        /\ removed[t][n] # Absent => Own(removed[t][n])
    BY <1>4 DEF Own, Shows, Recalls
  <2> QED BY <1>1, <1>2, <2>1, <2>2, <2>3
<1>6. /\ Stamps(nodes[n]) \subseteq Stamps(disk.items[n]) \cup Early(t, n)
      /\ Attempting(t) /\ nodes[n] # Absent => Stamps(work[t].base[n]) \subseteq Stamps(nodes[n])
  <2>1. CASE n # m
    BY <1>2, <1>4, <2>1 DEF Shows
  <2>2. CASE n = m /\ node = Absent
    BY <1>2, <2>2 DEF Stamps
  <2>5. CASE n = m /\ node = removed[t][m] /\ node # Absent
    BY <1>2, <1>4, <2>5 DEF Shows, Recalls
  <2>3. CASE n = m /\ node = NewNode /\ disk.items[m] = Absent
    <3>1. Stamps(NewNode) = {}
      BY DEF NewNode, Stamps
    <3>2. Attempting(t) => Stamps(work[t].base[n]) \subseteq {}
      BY <1>4, <2>3 DEF Shows, Stamps
    <3> QED BY <1>2, <2>3, <3>1, <3>2
  <2>4. CASE n = m /\ memory[t][m] # Absent /\ Stamps(node) = Stamps(memory[t][m])
    BY <1>2, <1>4, <2>4 DEF Shows
  <2> QED BY <1>1, <2>1, <2>2, <2>3, <2>4, <2>5
<1>7. /\ Carries(queued, n, Seen(t, n))
      /\ queued.state[n] # Absent => Stamps(queued.state[n]) = Seen(t, n)
  <2>1. queue[t] # None => /\ Own(queue[t].base[n])
                           /\ Stamps(queue[t].base[n]) \subseteq Seen(t, n)
    BY <1>4 DEF Stamped, Carries
  <2>2. Own(observed[t].items[n])
    BY <1>4 DEF Stamped
  <2> DEFINE change == queue[t]
             stored == observed[t]
  <2>3. /\ change \in Change \cup {None} /\ stored \in Version
        /\ Seen(t, n) = Stamps(stored.items[n]) /\ queued = Queued(change, stored, nodes, rows)
    BY Typed DEF Seen
  <2>4. change # None => /\ Own(change.base[n])
                         /\ Stamps(change.base[n]) \subseteq Stamps(stored.items[n])
    BY <2>1, <2>3
  <2>5. nodes \in Canvas /\ Own(nodes[n]) /\ Own(stored.items[n])
    BY <1>2, <1>5, <2>2
  <2> HIDE DEF nodes, change, stored, queued
  <2> QED BY <2>3, <2>4, <2>5, QueuedCarries
<1> HIDE DEF nodes, queued
<1>8. /\ memory'[t] = nodes /\ queue'[t] = queued
      /\ removed'[t][n] = IF n # m THEN removed[t][n]
                          ELSE IF node = Absent THEN memory[t][n] ELSE Absent
      /\ \A u \in Tabs \ {t} :
            memory'[u] = memory[u] /\ queue'[u] = queue[u] /\ removed'[u] = removed[u]
  BY <1>3 DEF TypeOK, Canvas
<1>9. Stamped(t, n)'
  <2>1. Seen(t, n)' = Seen(t, n)
    BY <1>3 DEF Seen
  <2>2. save[t] # None => /\ Carries(save[t], n, Seen(t, n))
                          /\ Stamps(save[t].state[n]) \subseteq Seen(t, n)
    BY <1>4 DEF Stamped, Carries, Stamps
  <2>3. Own(observed[t].items[n]) /\ Seen(t, n) \subseteq Stamps(disk.items[n])
    BY <1>4 DEF Stamped
  <2> QED BY <1>3, <1>7, <1>8, <2>1, <2>2, <2>3 DEF Stamped
<1>10. Shows(t, n)'
  <2>1. Early(t, n)' = Early(t, n)
    BY <1>3 DEF Early, Replaces, Attempting
  <2>2. Recalls(t, n)'
    BY <1>3, <1>4, <1>8, <2>1 DEF Shows, Recalls, Attempting
  <2> QED BY <1>3, <1>4, <1>5, <1>6, <1>8, <2>1, <2>2 DEF Shows, Replaces, Attempting
<1> QED BY <1>3, <1>4, <1>8, <1>9, <1>10, OthersKnow DEF Own

LEMMA TakeKnows ==
    ASSUME Types, NEW t \in Tabs, NEW n \in Nodes, Knowing(n), TakeChange(t)
    PROVE  Knowing(n)'
<1> DEFINE row == [queue[t] EXCEPT !.taken = TRUE]
<1> USE DEF Types
<1>1. /\ queue[t] \in Change /\ queue[t] # None
      /\ queue' = [queue EXCEPT ![t] = row] /\ save' = [save EXCEPT ![t] = queue[t]]
      /\ UNCHANGED <<disk, memory, removed, observed, work>>
  BY Typed DEF TakeChange
<1>2. row.base = queue[t].base /\ row.state = queue[t].state
  BY <1>1 DEF Change
<1>3. Stamped(t, n) /\ Shows(t, n) /\ Own(disk.items[n])
  BY DEF Knowing
<1> HIDE DEF row
<1>4. /\ queue'[t] = row /\ save'[t] = queue[t]
      /\ \A u \in Tabs \ {t} : save'[u] = save[u] /\ queue'[u] = queue[u]
  BY <1>1 DEF TypeOK
<1>5. Stamped(t, n)'
  BY <1>1, <1>2, <1>3, <1>4 DEF Stamped, Seen, Carries
<1>6. Shows(t, n)'
  BY <1>1, <1>3, ShowsFrame
<1> QED BY <1>1, <1>3, <1>4, <1>5, <1>6, OthersKnow

LEMMA AcquireKnows ==
    ASSUME Types, NEW t \in Tabs, NEW n \in Nodes, Knowing(n),
           AcquireToSave(t) \/ AcquireForResult(t) \/ ReadBack(t)
    PROVE  Knowing(n)'
<1> USE DEF Types
<1>1. /\ UNCHANGED <<disk, memory, removed, observed, queue, save>>
      /\ \A u \in Tabs \ {t} : work'[u] = work[u]
  BY DEF AcquireToSave, AcquireForResult, ReadBack, TypeOK
<1>2. Stamped(t, n) /\ Shows(t, n) /\ Own(disk.items[n])
  BY DEF Knowing
<1>3. Stamped(t, n)'
  BY <1>1, <1>2, StampedFrame
<1>4. CASE AcquireToSave(t)
  BY <1>1, <1>2, <1>3, <1>4, ShowsFrame, OthersKnow DEF AcquireToSave
<1>5. CASE AcquireForResult(t) \/ ReadBack(t)
  <2>1. work[t] \in Attempt
    BY <1>5, Typed, AttemptParts DEF AcquireForResult, ReadBack
  <2>2. PICK pc \in AtWork :
           /\ work' = [work EXCEPT ![t].pc = pc]
           /\ pc \in {"committed", "final"} => work[t].pc = "committed"
    BY <1>5 DEF AcquireForResult, ReadBack, AtWork
  <2>3. /\ work'[t].base = work[t].base /\ work'[t].local = work[t].local
        /\ work'[t].shown = work[t].shown /\ work'[t].pc = pc
        /\ work[t].pc # "none" /\ pc # "none"
    BY <2>1, <2>2 DEF TypeOK, Attempt, AtWork
  <2>4. Early(t, n)' = Early(t, n)
    BY <2>3 DEF Early, Replaces, Attempting
  <2>5. Shows(t, n)'
    BY <1>1, <1>2, <2>2, <2>3, <2>4 DEF Shows, Recalls, Replaces, Attempting
  <2> QED BY <1>1, <1>2, <1>3, <2>5, OthersKnow
<1> QED BY <1>4, <1>5

(* A save of a node that it does not remove leaves the stamps as they are. *)
LEMMA WriteKeeps ==
    ASSUME Types, NEW t \in Tabs, NEW n \in Nodes, Knowing(n), WriteChange(t),
           disk.items[n] # Absent => disk'.items[n] # Absent
    PROVE  Own(disk.items[n])' /\ Stamps(disk'.items[n]) = Stamps(disk.items[n])
<1> USE DEF Types
<1>1. save[t] \in Change /\ save[t] # None /\ disk \in Document
  BY Typed DEF WriteChange
<1>2. /\ Stamped(t, n) /\ Own(disk.items[n])
  BY DEF Knowing
<1>3. Carries(save[t], n, Stamps(disk.items[n]))
  BY <1>1, <1>2 DEF Stamped, Carries
<1> DEFINE change == save[t]
           node == disk'.items[n]
<1>4. node = RebaseCanvas(disk, change.base, change.state, change.baseRevision).items[n]
  BY DEF WriteChange, Wrote
<1>5. Own(node) /\ Stamps(node) = Stamps(disk.items[n])
  <2> HIDE DEF change, node
  <2>1. change \in Change /\ Carries(change, n, Stamps(disk.items[n]))
    BY <1>1, <1>3 DEF change
  <2>2. disk.items[n] # Absent => node # Absent
    BY DEF node
  <2> QED BY <1>1, <1>2, <1>4, <2>1, <2>2, SavedNode
<1> QED BY <1>5 DEF Own

LEMMA WriteKnows ==
    ASSUME Types, NEW t \in Tabs, NEW n \in Nodes, Knowing(n), WriteChange(t),
           disk.items[n] # Absent => disk'.items[n] # Absent
    PROVE  Knowing(n)'
<1> USE DEF Types
<1>1. Own(disk.items[n])' /\ Stamps(disk'.items[n]) = Stamps(disk.items[n])
  BY WriteKeeps
<1>2. Stamped(t, n) /\ Shows(t, n)
  BY DEF Knowing
<1> DEFINE document == RebaseCanvas(disk, save[t].base, save[t].state, save[t].baseRevision)
           row == Requeued(t, document)
<1>3. /\ disk' = document /\ save[t] # None /\ save[t] \in Change
      /\ queue[t] \in Change /\ queue[t] # None
      /\ observed' = [observed EXCEPT ![t] = Observe(document)]
      /\ queue' = [queue EXCEPT ![t] = row] /\ save' = [save EXCEPT ![t] = None]
      /\ UNCHANGED <<memory, removed>>
  BY Typed DEF WriteChange, Wrote, Placed
<1>4. row # None => row.base = save[t].state /\ row.state = queue[t].state
  <2> HIDE DEF document
  <2> QED BY <1>3 DEF Requeued, Change
<1>5. Observe(document).items = document.items
  BY DEF Observe
<1> HIDE DEF row, document
<1>6. /\ observed'[t].items = disk'.items /\ queue'[t] = row /\ save'[t] = None
      /\ \A u \in Tabs \ {t} :
            /\ observed'[u] = observed[u] /\ queue'[u] = queue[u] /\ save'[u] = save[u]
  BY <1>3, <1>5 DEF TypeOK
<1>7. Stamped(t, n)'
  <2>1. Seen(t, n)' = Stamps(disk'.items[n])
    BY <1>6 DEF Seen
  <2>2. Stamps(save[t].state[n]) \subseteq Seen(t, n) /\ Own(save[t].state[n])
    BY <1>2, <1>3 DEF Stamped, Carries, Stamps
  <2>3. /\ Own(queue[t].state[n]) /\ Seen(t, n) \subseteq Stamps(disk.items[n])
        /\ queue[t].state[n] # Absent =>
              /\ Stamps(save[t].state[n]) \subseteq Stamps(queue[t].state[n])
              /\ Stamps(queue[t].state[n]) \subseteq Seen(t, n)
    BY <1>2, <1>3 DEF Stamped, Carries
  <2>4. row # None => Carries(row, n, Stamps(disk'.items[n]))
    BY <1>1, <1>4, <2>2, <2>3 DEF Carries
  <2> QED BY <1>1, <1>6, <2>1, <2>4 DEF Stamped, Own
<1>8. /\ \A u \in Tabs \ {t} : work'[u] = work[u]
      /\ \/ work'[t] = work[t]
         \/ work[t].pc = "draining" /\ work' = [work EXCEPT ![t].pc = "ready"]
  BY DEF WriteChange, TypeOK
<1>9. Shows(t, n)'
  <2>1. CASE work'[t] = work[t]
    BY <1>1, <1>2, <1>3, <2>1, ShowsFrame
  <2>2. CASE work[t].pc = "draining" /\ work' = [work EXCEPT ![t].pc = "ready"]
    <3>1. work[t] \in Attempt
      BY <2>2, Typed, AttemptParts
    <3>2. /\ work'[t].base = work[t].base /\ work'[t].local = work[t].local
          /\ work'[t].shown = work[t].shown /\ work'[t].pc = "ready"
      BY <2>2, <3>1 DEF TypeOK, Attempt
    <3>3. Early(t, n)' = Early(t, n)
      BY <2>2, <3>2 DEF Early, Replaces, Attempting
    <3> QED BY <1>1, <1>2, <1>3, <2>2, <3>2, <3>3 DEF Shows, Recalls, Replaces, Attempting
  <2> QED BY <1>8, <2>1, <2>2
<1> QED BY <1>1, <1>3, <1>6, <1>7, <1>8, <1>9, OthersKnow

LEMMA PrepareKnows ==
    ASSUME Types, NEW t \in Tabs, NEW n \in Nodes, Knowing(n),
           NEW e \in Effects, NEW show \in BOOLEAN, Prepare(t, e, show)
    PROVE  Knowing(n)'
<1> DEFINE nodes == Applied(memory[t], e)
           attempt == [pc |-> "waiting", base |-> memory[t], local |-> nodes,
                       baseRevision |-> observed[t].revision, shown |-> show]
           queued(kept) == Queued(queue[t], observed[t], kept, {})
<1> USE DEF Types
<1>1. /\ memory[t] \in Canvas /\ nodes \in Canvas /\ work[t].pc = "none"
      /\ work' = [work EXCEPT ![t] = attempt]
      /\ IF show /\ nodes # memory[t]
         THEN /\ memory' = [memory EXCEPT ![t] = nodes]
              /\ \E kept \in {memory[t], nodes} : queue' = [queue EXCEPT ![t] = queued(kept)]
         ELSE UNCHANGED <<memory, queue>>
      /\ UNCHANGED <<disk, removed, observed, save>>
  BY Typed, AppliedCanvas DEF Prepare
<1>2. Stamped(t, n) /\ Shows(t, n) /\ Own(disk.items[n])
  BY DEF Knowing
<1>3. /\ Own(memory[t][n]) /\ Stamps(memory[t][n]) \subseteq Stamps(disk.items[n])
  BY <1>1, <1>2 DEF Shows, Early, Replaces, Attempting
<1>4. \/ nodes[n] = memory[t][n]
      \/ /\ nodes[n] # Absent /\ nodes[n].content = e
         /\ Stamps(nodes[n]) = Stamps(memory[t][n]) \cup {e}
  <2> DEFINE shown == memory[t]
  <2>1. shown \in Canvas /\ shown[Target[e]] # Absent /\ nodes[n] = Applied(shown, e)[n]
    BY <1>1 DEF Prepare
  <2>2. shown[n] = memory[t][n]
    OBVIOUS
  <2> HIDE DEF shown, nodes
  <2> QED BY <2>1, <2>2, AppliedNode
<1>5. Own(nodes[n]) /\ Stamps(memory[t][n]) \subseteq Stamps(nodes[n])
  <2> HIDE DEF nodes
  <2>1. nodes[n] # Absent => Stamps(nodes[n]) = nodes[n].stamps
    BY DEF Stamps
  <2> QED BY <1>3, <1>4, <2>1 DEF Own
<1>6. ASSUME NEW kept \in {memory[t], nodes}
      PROVE  /\ Carries(queued(kept), n, Seen(t, n))
             /\ queued(kept).state[n] # Absent => Stamps(queued(kept).state[n]) = Seen(t, n)
  <2> DEFINE change == queue[t]
             stored == observed[t]
  <2>1. /\ change \in Change \cup {None} /\ stored \in Version
        /\ Seen(t, n) = Stamps(stored.items[n]) /\ queued(kept) = Queued(change, stored, kept, {})
    BY Typed DEF Seen
  <2>2. /\ change # None => /\ Own(change.base[n])
                            /\ Stamps(change.base[n]) \subseteq Stamps(stored.items[n])
        /\ Own(stored.items[n])
    BY <1>2, <2>1 DEF Stamped, Carries
  <2>3. kept \in Canvas /\ Own(kept[n])
    BY <1>1, <1>3, <1>5
  <2> HIDE DEF nodes, change, stored, queued
  <2>4. {} \in SUBSET (Nodes \X (Fields \cup {"row"}))
    OBVIOUS
  <2> QED BY <2>1, <2>2, <2>3, <2>4, QueuedCarries
<1>7. /\ attempt.pc = "waiting" /\ attempt.base = memory[t] /\ attempt.local = nodes
      /\ attempt.shown = show
  OBVIOUS
<1> HIDE DEF nodes, attempt, queued
<1>8. /\ work'[t] = attempt
      /\ \/ /\ show /\ memory'[t] = nodes
            /\ \E kept \in {memory[t], nodes} : queue'[t] = queued(kept)
         \/ memory'[t] = memory[t] /\ queue'[t] = queue[t]
      /\ \A u \in Tabs \ {t} :
            memory'[u] = memory[u] /\ queue'[u] = queue[u] /\ work'[u] = work[u]
  BY <1>1 DEF TypeOK
<1>9. Stamped(t, n)'
  <2>1. CASE queue'[t] = queue[t]
    BY <1>1, <1>2, <2>1, StampedFrame
  <2>2. ASSUME NEW kept \in {memory[t], nodes}, queue'[t] = queued(kept)
        PROVE  Stamped(t, n)'
    <3>1. Seen(t, n)' = Seen(t, n)
      BY <1>1 DEF Seen
    <3>2. save[t] # None => /\ Carries(save[t], n, Seen(t, n))
                            /\ Stamps(save[t].state[n]) \subseteq Seen(t, n)
      BY <1>2 DEF Stamped, Carries, Stamps
    <3>3. Own(observed[t].items[n]) /\ Seen(t, n) \subseteq Stamps(disk.items[n])
      BY <1>2 DEF Stamped
    <3> QED BY <1>1, <1>6, <2>2, <3>1, <3>2, <3>3 DEF Stamped
  <2> QED BY <1>8, <2>1, <2>2
<1>10. Shows(t, n)'
  <2>1. Attempting(t)' /\ (Replaces(t, n)' <=> memory[t][n] # nodes[n])
    BY <1>7, <1>8 DEF Attempting, Replaces
  <2>2. Early(t, n)' = IF memory[t][n] # nodes[n] /\ show THEN Stamps(nodes[n]) ELSE {}
    BY <1>7, <1>8, <2>1 DEF Early
  <2>3. /\ Own(memory'[t][n]) /\ Stamps(memory[t][n]) \subseteq Stamps(memory'[t][n])
        /\ Stamps(memory'[t][n]) \subseteq Stamps(disk.items[n]) \cup Early(t, n)'
    BY <1>3, <1>5, <1>8, <2>2
  <2>4. Recalls(t, n)'
    <3>1. removed[t][n] # Absent =>
             /\ Own(removed[t][n]) /\ Stamps(removed[t][n]) \subseteq Stamps(disk.items[n])
             /\ Stamps(memory[t][n]) = {}
      BY <1>1, <1>2 DEF TypeOK, Shows, Recalls, Early, Replaces, Attempting, Stamps
    <3> QED BY <1>1, <1>7, <1>8, <3>1 DEF Recalls
  <2> QED BY <1>1, <1>3, <1>5, <1>7, <1>8, <2>1, <2>3, <2>4 DEF Shows
<1> QED BY <1>1, <1>2, <1>8, <1>9, <1>10, OthersKnow

LEMMA CommitKeeps ==
    ASSUME Types, NEW t \in Tabs, Attempted(t), NEW n \in Nodes, Knowing(n), CommitResult(t)
    PROVE  /\ Own(disk.items[n])' /\ Stamps(disk.items[n]) \subseteq Stamps(disk'.items[n])
           /\ Replaces(t, n) => Stamps(work[t].local[n]) \subseteq Stamps(disk'.items[n])
           /\ \A x \in Stamps(disk'.items[n]) \ Stamps(disk.items[n]) :
                 disk'.items[n].content = x
<1> USE DEF Types
<1>1. work[t] \in Attempt /\ work[t].pc = "ready" /\ ResultConflicts(t) = {}
  BY Typed, AttemptParts DEF CommitResult
<1>2. /\ Own(disk.items[n]) /\ Own(work[t].base[n])
      /\ Stamps(work[t].base[n]) \subseteq Stamps(disk.items[n])
  BY <1>1 DEF Knowing, Shows, Attempting
<1> DEFINE node == disk'.items[n]
<1>3. node = RebaseCanvas(disk, work[t].base, work[t].local, work[t].baseRevision).items[n]
  BY DEF CommitResult, Wrote
<1>4. /\ Own(node) /\ Stamps(disk.items[n]) \subseteq Stamps(node)
      /\ work[t].base[n] # work[t].local[n] => Stamps(work[t].local[n]) \subseteq Stamps(node)
      /\ \A x \in Stamps(node) \ Stamps(disk.items[n]) : node.content = x
  <2> HIDE DEF node
  <2> QED BY <1>1, <1>2, <1>3, CommittedNode
<1> QED BY <1>4 DEF Own, Replaces

LEMMA CommitKnows ==
    ASSUME Types, NEW t \in Tabs, Attempted(t), NEW n \in Nodes, Knowing(n), CommitResult(t)
    PROVE  Knowing(n)'
<1> USE DEF Types
<1> DEFINE document == RebaseCanvas(disk, work[t].base, work[t].local, work[t].baseRevision)
           change == [queue[t] EXCEPT !.base = document.items, !.baseRevision = document.revision,
                                      !.state = Ordinary(memory[t], document.items)]
           row == IF queue[t] = None THEN None ELSE change
<1>1. /\ Own(disk.items[n])' /\ Stamps(disk.items[n]) \subseteq Stamps(disk'.items[n])
      /\ Replaces(t, n) => Stamps(work[t].local[n]) \subseteq Stamps(disk'.items[n])
  BY CommitKeeps
<1>2. Stamped(t, n) /\ Shows(t, n) /\ work[t] \in Attempt /\ save[t] = None
  BY Typed, AttemptParts DEF Knowing, CommitResult, Placed
<1>3. /\ disk' = document /\ observed' = [observed EXCEPT ![t] = Observe(document)]
      /\ queue' = [queue EXCEPT ![t] = row]
      /\ work' = [work EXCEPT ![t].pc = "committed"] /\ work[t].pc = "ready"
      /\ UNCHANGED <<memory, removed, save>>
  BY DEF CommitResult, Wrote
<1>4. disk'.items \in Canvas /\ Observe(document).items = document.items
  BY CommitTypes DEF Observe, TypeOK, Document
<1>5. row # None => /\ row.base = disk'.items
                    /\ row.state = Ordinary(memory[t], disk'.items)
  <2>1. queue[t] # None => queue[t] \in Change
    BY Typed
  <2> HIDE DEF document
  <2> QED BY <1>3, <2>1 DEF Change
<1> HIDE DEF row, change, document
<1>6. /\ observed'[t].items = disk'.items /\ queue'[t] = row
      /\ \A u \in Tabs \ {t} :
            observed'[u] = observed[u] /\ queue'[u] = queue[u] /\ work'[u] = work[u]
  BY <1>3, <1>4 DEF TypeOK
<1>7. Stamped(t, n)'
  <2>1. Seen(t, n)' = Stamps(disk'.items[n])
    BY <1>6 DEF Seen
  <2> DEFINE items == disk'.items
             state == Ordinary(memory[t], items)
  <2>2. /\ state[n] # Absent => Stamps(state[n]) = Stamps(items[n])
        /\ Own(state[n])
    <3>1. memory[t] \in Canvas /\ Own(memory[t][n])
      BY <1>2, Typed DEF Shows
    <3>2. items \in Canvas /\ Own(items[n])
      BY <1>1, <1>4 DEF Own
    <3> HIDE DEF items
    <3> QED BY <3>1, <3>2, OrdinaryNode
  <2>3. row # None => Carries(row, n, Stamps(disk'.items[n]))
    BY <1>1, <1>5, <2>2 DEF Carries, Own
  <2> QED BY <1>1, <1>2, <1>3, <1>6, <2>1, <2>3 DEF Stamped, Own
<1>8. Shows(t, n)'
  <2>1. /\ work'[t].base = work[t].base /\ work'[t].local = work[t].local
        /\ work'[t].shown = work[t].shown /\ work'[t].pc = "committed"
    BY <1>2, <1>3 DEF TypeOK, Attempt
  <2>2. Early(t, n)' = Early(t, n)
    BY <1>3, <2>1 DEF Early, Replaces, Attempting
  <2> QED BY <1>1, <1>2, <1>3, <2>1, <2>2 DEF Shows, Recalls, Replaces, Attempting
<1> QED BY <1>1, <1>3, <1>6, <1>7, <1>8, OthersKnow

(* What an attempt puts on a node, or not.                                 *)
LEMMA AttemptedNode ==
    ASSUME NEW t \in Tabs, work[t] \in Attempt, Attempted(t), NEW n \in Nodes
    PROVE  \/ work[t].local[n] = work[t].base[n]
           \/ \E e \in Effects :
                 /\ work[t].base[n] # Absent /\ work[t].local[n] # Absent
                 /\ work[t].local[n].content = e
                 /\ Stamps(work[t].local[n]) = Stamps(work[t].base[n]) \cup {e}
<1> DEFINE base == work[t].base
<1>1. base \in Canvas /\ work[t].pc # "none"
  BY DEF Attempt
<1>2. PICK e \in Effects : base[Target[e]] # Absent /\ work[t].local = Applied(base, e)
  BY <1>1 DEF Attempted, Attempting
<1> HIDE DEF base
<1>3. \/ work[t].local[n] = base[n]
      \/ /\ base[n] # Absent /\ work[t].local[n] # Absent /\ work[t].local[n].content = e
         /\ Stamps(work[t].local[n]) = Stamps(base[n]) \cup {e}
  BY <1>1, <1>2, AppliedNode
<1> QED BY <1>3 DEF base

(* An attempt that fails before its commit.                                *)
LEMMA TakeBackKnows ==
    ASSUME Types, NEW t \in Tabs, NEW n \in Nodes, Knowing(n), work[t] \in Attempt, Attempted(t),
           NEW change \in Change \cup {None}, NEW stored \in Version, NEW nodes \in Canvas,
           TakeBack(t, change, stored, nodes), EndWork(t), save'[t] = None,
           \A u \in Tabs \ {t} : save'[u] = save[u],
           Own(stored.items[n]), Stamps(stored.items[n]) \subseteq Stamps(disk.items[n]),
           change # None => Carries(change, n, Stamps(stored.items[n])),
           Own(nodes[n]),
           Stamps(nodes[n]) \subseteq Stamps(disk.items[n]) \cup Early(t, n)
    PROVE  Knowing(n)'
<1> USE DEF Types
<1> DEFINE restored == [m \in Nodes |->
                IF work[t].base[m] # work[t].local[m] THEN work[t].base[m] ELSE nodes[m]]
           queued == Queued(change, stored, restored, {})
<1>1. Shows(t, n) /\ Own(disk.items[n])
  BY DEF Knowing
<1>2. restored \in Canvas /\ work[t].pc # "none"
  BY DEF Attempt, Canvas
<1>3. /\ Own(restored[n])
      /\ Stamps(restored[n]) \subseteq Stamps(disk.items[n])
      /\ ~work[t].shown => Stamps(nodes[n]) \subseteq Stamps(disk.items[n])
  BY <1>1, <1>2 DEF Shows, Early, Replaces, Attempting
<1>4. Carries(queued, n, Stamps(stored.items[n]))
  <2>1. change # None => /\ Own(change.base[n])
                         /\ Stamps(change.base[n]) \subseteq Stamps(stored.items[n])
    BY DEF Carries
  <2>2. {} \in SUBSET (Nodes \X (Fields \cup {"row"}))
    OBVIOUS
  <2>3. restored \in Canvas /\ Own(restored[n])
    BY <1>2, <1>3
  <2> HIDE DEF restored
  <2> QED BY <2>1, <2>2, <2>3, QueuedCarries
<1>5. /\ observed' = [observed EXCEPT ![t] = stored]
      /\ memory' = [memory EXCEPT ![t] = IF work[t].shown THEN restored ELSE nodes]
      /\ queue' = [queue EXCEPT ![t] = IF work[t].shown THEN queued ELSE change]
      /\ work' = [work EXCEPT ![t] = NoWork] /\ UNCHANGED disk
      /\ removed' = StillRemoved(t)
  BY DEF TakeBack, EndWork
<1>9. work[t].shown /\ Replaces(t, n) => restored[n] # Absent
  BY <1>2, AttemptedNode DEF Replaces
<1> HIDE DEF restored, queued
<1>6. /\ observed'[t] = stored /\ work'[t] = NoWork
      /\ memory'[t] = IF work[t].shown THEN restored ELSE nodes
      /\ queue'[t] = IF work[t].shown THEN queued ELSE change
      /\ removed'[t][n] = IF memory'[t][n] = Absent THEN removed[t][n] ELSE Absent
      /\ \A u \in Tabs \ {t} :
            /\ observed'[u] = observed[u] /\ queue'[u] = queue[u]
            /\ memory'[u] = memory[u] /\ removed'[u] = removed[u] /\ work'[u] = work[u]
  BY <1>5 DEF StillRemoved, TypeOK
<1>7. Stamped(t, n)'
  <2>1. Seen(t, n)' = Stamps(stored.items[n])
    BY <1>6 DEF Seen
  <2>2. queue'[t] # None => Carries(queue'[t], n, Stamps(stored.items[n]))
    BY <1>4, <1>6
  <2> QED BY <1>5, <1>6, <2>1, <2>2 DEF Stamped
<1>8. Shows(t, n)'
  <2>1. ~Attempting(t)' /\ Early(t, n)' = {}
    BY <1>6 DEF Attempting, Early, Replaces, NoWork
  <2>2. Own(memory'[t][n]) /\ Stamps(memory'[t][n]) \subseteq Stamps(disk.items[n])
    BY <1>3, <1>6
  <2>3. Early(t, n) = {} \/ memory'[t][n] # Absent
    BY <1>6, <1>9 DEF Early
  <2>4. Recalls(t, n)'
    BY <1>1, <1>5, <1>6, <2>1, <2>3 DEF Shows, Recalls
  <2> QED BY <1>5, <2>1, <2>2, <2>4 DEF Shows, Replaces
<1> QED BY <1>1, <1>5, <1>6, <1>7, <1>8, OthersKnow

(* A page that is reconciled shows no more than it did, or what is stored. *)
LEMMA ReconciledNode ==
    ASSUME Types, NEW t \in Tabs, NEW n \in Nodes, Knowing(n), work[t] \in Attempt, Attempted(t),
           NEW node, node = Reconciled(t)[n]
    PROVE  Own(node) /\ Stamps(node) \subseteq Stamps(disk.items[n]) \cup Early(t, n)
<1> USE DEF Types
<1> DEFINE base == work[t].base[n]
           from == work[t].local[n]
           local == memory[t][n]
           durable == disk.items[n]
<1>1. /\ disk \in Document /\ disk.revision \in Nat /\ work[t].local \in Canvas
      /\ memory[t] \in Canvas /\ work[t].pc # "none"
      /\ from \in Node \cup {Absent} /\ local \in Node \cup {Absent}
      /\ durable \in Node \cup {Absent}
  BY Typed DEF Attempt, Canvas, Document
<1>2. /\ Own(from) /\ Own(local) /\ Own(durable)
      /\ Stamps(local) \subseteq Stamps(durable) \cup Early(t, n)
      /\ local # Absent => Stamps(base) \subseteq Stamps(local)
      /\ Stamps(base) \subseteq Stamps(durable)
  BY <1>1 DEF Knowing, Shows, Attempting
<1>3. from = base \/ /\ from # Absent
                     /\ Stamps(from) = Stamps(base) \cup {from.content}
  BY AttemptedNode
<1>4. \/ node = Absent \/ node = durable \/ node = local
      \/ local # Absent /\ durable # Absent /\ node = MergeNode(from, local, durable)
  BY <1>1, RebasedNode DEF Reconciled, ChangedBy
<1> HIDE DEF base, from, local, durable
<1>5. CASE local # Absent /\ durable # Absent /\ node = MergeNode(from, local, durable)
  <2>1. /\ node \in Node
        /\ node.content = MergeField(Field(from, "content"), local.content, durable.content)
        /\ node.stamps = MergeStamps(Stamps(from), local.stamps, durable.stamps)
    BY <1>1, <1>5, MergedNode
  <2>2. /\ node # Absent /\ Stamps(node) = node.stamps
        /\ Stamps(local) = local.stamps /\ Stamps(durable) = durable.stamps
    BY <1>5, <2>1, DistinctAssumption DEF Stamps
  <2>3. Stamps(node) = MergeStamps(Stamps(from), Stamps(local), Stamps(durable))
    BY <2>1, <2>2
  <2>4. Stamps(node) \subseteq Stamps(durable) \cup Stamps(local)
    BY <2>3 DEF MergeStamps
  <2>5. /\ \/ Stamps(durable) \subseteq Stamps(node)
           \/ Stamps(node) = Stamps(local) /\ Stamps(durable) = Stamps(from)
        /\ Stamps(local) \subseteq Stamps(node) \/ Stamps(node) = Stamps(durable)
    BY <2>3 DEF MergeStamps
  <2>6. node.content = local.content /\ Stamps(local) \subseteq Stamps(node) => Own(node)
    BY <1>2, <1>5, <2>2 DEF Own
  <2>7. node.content = durable.content /\ Stamps(durable) \subseteq Stamps(node) => Own(node)
    BY <1>2, <1>5, <2>2 DEF Own
  <2>8. ASSUME node.content = durable.content /\ node.content # local.content
             /\ Stamps(node) = Stamps(local) /\ Stamps(durable) = Stamps(from)
        PROVE  Own(node)
    <3>1. from = base => Stamps(from) \subseteq Stamps(local)
      BY <1>2, <1>5
    <3>2. from # Absent => Field(from, "content") = from.content
      BY DEF Field
    <3>3. from # Absent /\ node.content = from.content => FALSE
      BY <1>1, <1>5, <2>1, <2>8, <3>2 DEF MergeField
    <3>4. from # base => Stamps(from) \ {from.content} \subseteq Stamps(local)
      BY <1>2, <1>3, <1>5
    <3>5. node.content \in Effects => node.content \in Stamps(from)
      BY <1>2, <1>5, <2>2, <2>8 DEF Own
    <3>6. node.content \in Effects => node.content \in Stamps(local)
      BY <1>3, <3>1, <3>3, <3>4, <3>5
    <3> QED BY <2>2, <2>8, <3>6 DEF Own
  <2>9. ASSUME node.content = local.content /\ node.content # durable.content
             /\ Stamps(node) = Stamps(durable) /\ ~(Stamps(local) \subseteq Stamps(node))
        PROVE  Own(node)
    <3>1. Stamps(local) = Stamps(from)
      BY <2>3, <2>9 DEF MergeStamps
    <3>2. from # Absent => Field(from, "content") = from.content
      BY DEF Field
    <3>3. from # Absent => node.content # from.content
      BY <2>1, <2>9, <3>2 DEF MergeField
    <3>4. node.content \in Effects => node.content \in Stamps(from)
      BY <1>2, <1>5, <2>2, <2>9, <3>1 DEF Own
    <3>5. node.content \in Effects => node.content \in Stamps(base)
      BY <1>3, <3>3, <3>4
    <3> QED BY <1>2, <2>2, <2>9, <3>5 DEF Own
  <2>10. node.content \in {local.content, durable.content}
    BY <2>1 DEF MergeField
  <2>11. Own(node)
    BY <2>5, <2>6, <2>7, <2>8, <2>9, <2>10
  <2> QED BY <1>2, <2>4, <2>11 DEF durable
<1> QED BY <1>2, <1>4, <1>5 DEF Own, Stamps, durable

LEMMA RefuseKnows ==
    ASSUME Types, NEW t \in Tabs, NEW n \in Nodes, Knowing(n), Attempted(t), RefuseResult(t)
    PROVE  Knowing(n)'
<1> USE DEF Types
<1> DEFINE stored == Observe(disk)
<1>1. /\ work[t] \in Attempt /\ save[t] = None /\ EndWork(t) /\ UNCHANGED save
  BY Typed, AttemptParts DEF RefuseResult, Placed
<1>2. PICK change, nodes : GivesUp(t, change, nodes) /\ TakeBack(t, change, stored, nodes)
  BY DEF RefuseResult, GivesUp
<1>3. /\ stored \in Version /\ stored.items = disk.items
      /\ nodes \in Canvas /\ change \in Change \cup {None}
      /\ disk.items \in Canvas /\ memory[t] \in Canvas /\ queue[t] \in Change \cup {None}
  BY <1>1, <1>2, Typed, Observed, RefusedParts
<1>4. Stamped(t, n) /\ Shows(t, n) /\ Own(disk.items[n])
  BY DEF Knowing
<1>5. queue[t] # None => Carries(queue[t], n, Stamps(disk.items[n]))
  BY <1>4 DEF Stamped, Carries
<1> HIDE DEF stored
<1>6. CASE change = queue[t] /\ nodes = Ordinary(memory[t], disk.items)
  <2>1. /\ nodes[n] # Absent => Stamps(nodes[n]) = Stamps(disk.items[n])
        /\ Own(memory[t][n]) /\ Own(disk.items[n]) => Own(nodes[n])
    BY <1>3, <1>6, OrdinaryNode
  <2>2. Own(nodes[n]) /\ Stamps(nodes[n]) \subseteq Stamps(disk.items[n])
    BY <1>4, <2>1 DEF Shows, Stamps
  <2>3. change # None => Carries(change, n, Stamps(stored.items[n]))
    BY <1>3, <1>5, <1>6
  <2>4. /\ Own(stored.items[n]) /\ Stamps(stored.items[n]) \subseteq Stamps(disk.items[n])
        /\ Stamps(nodes[n]) \subseteq Stamps(disk.items[n]) \cup Early(t, n)
        /\ save'[t] = None /\ \A u \in Tabs \ {t} : save'[u] = save[u]
    BY <1>1, <1>3, <1>4, <2>2
  <2> QED BY <1>1, <1>2, <1>3, <2>2, <2>3, <2>4, TakeBackKnows
<1>7. CASE change = Queued(queue[t], stored, Reconciled(t), {}) /\ nodes = Reconciled(t)
  <2>1. Own(nodes[n]) /\ Stamps(nodes[n]) \subseteq Stamps(disk.items[n]) \cup Early(t, n)
    BY <1>1, <1>7, ReconciledNode
  <2>2. {} \in SUBSET (Nodes \X (Fields \cup {"row"}))
    OBVIOUS
  <2>3. queue[t] # None => /\ Own(queue[t].base[n])
                           /\ Stamps(queue[t].base[n]) \subseteq Stamps(stored.items[n])
    BY <1>3, <1>5 DEF Carries
  <2>4. Carries(change, n, Stamps(stored.items[n]))
    <3> DEFINE old == queue[t]
    <3>1. old \in Change \cup {None} /\ change = Queued(old, stored, nodes, {})
      BY <1>3, <1>7
    <3>2. old # None => /\ Own(old.base[n])
                        /\ Stamps(old.base[n]) \subseteq Stamps(stored.items[n])
      BY <2>3
    <3>3. Own(stored.items[n])
      BY <1>3, <1>4
    <3> HIDE DEF old
    <3> QED BY <1>3, <2>1, <2>2, <3>1, <3>2, <3>3, QueuedCarries
  <2>5. /\ Own(stored.items[n]) /\ Stamps(stored.items[n]) \subseteq Stamps(disk.items[n])
        /\ save'[t] = None /\ \A u \in Tabs \ {t} : save'[u] = save[u]
    BY <1>1, <1>3, <1>4
  <2> QED BY <1>1, <1>2, <1>3, <2>1, <2>4, <2>5, TakeBackKnows
<1> QED BY <1>2, <1>6, <1>7 DEF GivesUp, stored

(* What a page shows of a node after a commit: nothing that is not stored. *)
LEMMA ShownNode ==
    ASSUME Types, NEW t \in Tabs, NEW n \in Nodes, Knowing(n), work[t] \in Attempt,
           work[t].pc \in {"committed", "final"},
           NEW node, node = Shown(t)[n]
    PROVE  Own(node) /\ Stamps(node) \subseteq Stamps(disk.items[n])
<1> USE DEF Types
<1> DEFINE document == [disk EXCEPT !.items = memory[t]]
           base == work[t].base[n]
           local == disk.items[n]
           durable == memory[t][n]
<1>1. /\ document \in Document /\ document.items = memory[t] /\ work[t].base \in Canvas
      /\ work[t].baseRevision \in Nat /\ disk.items \in Canvas /\ memory[t] \in Canvas
      /\ work[t].pc # "none"
  BY Typed DEF Document, Attempt
<1>2. /\ base \in Node \cup {Absent} /\ local \in Node \cup {Absent}
      /\ durable \in Node \cup {Absent}
  BY <1>1 DEF Canvas
<1>3. /\ Own(base) /\ Own(local) /\ Own(durable)
      /\ Stamps(base) \subseteq Stamps(local)
      /\ Stamps(durable) \subseteq Stamps(local)
      /\ durable # Absent => Stamps(base) \subseteq Stamps(durable)
  BY <1>1 DEF Knowing, Shows, Early, Replaces, Attempting
<1>4. \/ node = Absent
      \/ node = durable
      \/ node = local
      \/ local # Absent /\ durable # Absent /\ node = MergeNode(base, local, durable)
  <2> DEFINE items == disk.items
             bases == work[t].base
             revision == work[t].baseRevision
  <2>1. node = RebaseCanvas(document, bases, items, revision).items[n]
    BY DEF Shown
  <2>2. /\ document \in Document /\ bases \in Canvas /\ items \in Canvas /\ revision \in Nat
        /\ bases[n] = base /\ items[n] = local /\ document.items[n] = durable
    BY <1>1
  <2> HIDE DEF document, bases, items, revision, base, local, durable
  <2> QED BY <2>1, <2>2, RebasedNode DEF ChangedBy
<1> HIDE DEF document, base, local, durable
<1>5. CASE local # Absent /\ durable # Absent /\ node = MergeNode(base, local, durable)
  <2>1. /\ node \in Node
        /\ node.content = MergeField(Field(base, "content"), local.content, durable.content)
        /\ node.stamps = MergeStamps(Stamps(base), local.stamps, durable.stamps)
    BY <1>2, <1>5, MergedNode
  <2>2. /\ node # Absent /\ Stamps(node) = node.stamps
        /\ Stamps(local) = local.stamps /\ Stamps(durable) = durable.stamps
    BY <1>5, <2>1, DistinctAssumption DEF Stamps
  <2>3. Stamps(node) = MergeStamps(Stamps(base), Stamps(local), Stamps(durable))
    BY <2>1, <2>2
  <2>4. /\ Stamps(node) \subseteq Stamps(local)
        /\ Stamps(durable) \subseteq Stamps(node)
        /\ Stamps(node) = Stamps(local) \/ Stamps(node) = Stamps(durable)
    BY <1>3, <1>5, <2>3 DEF MergeStamps
  <2>5. CASE node.content = durable.content
    BY <1>3, <1>5, <2>2, <2>4, <2>5 DEF Own, local
  <2>6. CASE node.content = local.content /\ Stamps(node) = Stamps(local)
    BY <1>3, <1>5, <2>2, <2>6 DEF Own, local
  <2>7. CASE Stamps(node) = Stamps(durable) /\ Stamps(node) # Stamps(local)
    <3>1. Stamps(base) = Stamps(local)
      BY <1>3, <1>5, <2>3, <2>7 DEF MergeStamps
    <3>2. Stamps(durable) = Stamps(local)
      BY <1>3, <1>5, <3>1
    <3> QED BY <2>7, <3>2
  <2>8. node.content \in {local.content, durable.content}
    BY <2>1 DEF MergeField
  <2> QED BY <2>4, <2>5, <2>6, <2>7, <2>8 DEF local
<1> QED BY <1>3, <1>4, <1>5 DEF Own, Stamps, local

LEMMA ShowKnows ==
    ASSUME Types, NEW t \in Tabs, NEW n \in Nodes, Knowing(n), work[t] \in Attempt,
           work[t].pc \in {"committed", "final"}, Show(t), save'[t] = None,
           \A u \in Tabs \ {t} : save'[u] = save[u] /\ queue'[u] = queue[u],
           queue'[t] # None => Carries(queue'[t], n, Seen(t, n))
    PROVE  Knowing(n)'
<1> USE DEF Types
<1> DEFINE shown == Shown(t)
<1>1. Own(shown[n]) /\ Stamps(shown[n]) \subseteq Stamps(disk.items[n])
  BY ShownNode
<1>2. Stamped(t, n) /\ Shows(t, n) /\ Own(disk.items[n])
  BY DEF Knowing
<1>3. /\ memory' = [memory EXCEPT ![t] = shown]
      /\ observed' = [observed EXCEPT ![t] = Observe(disk)]
      /\ work' = [work EXCEPT ![t] = NoWork] /\ UNCHANGED disk
      /\ removed' = StillRemoved(t)
  BY DEF Show, EndWork
<1> HIDE DEF shown
<1>4. /\ memory'[t] = shown /\ observed'[t].items = disk.items /\ work'[t] = NoWork
      /\ removed'[t][n] # Absent => removed'[t][n] = removed[t][n]
      /\ \A u \in Tabs \ {t} :
            /\ observed'[u] = observed[u] /\ memory'[u] = memory[u]
            /\ removed'[u] = removed[u] /\ work'[u] = work[u]
  BY <1>3 DEF TypeOK, Observe, StillRemoved
<1>5. Stamped(t, n)'
  <2>1. Seen(t, n)' = Stamps(disk.items[n])
    BY <1>4 DEF Seen
  <2>2. queue'[t] # None => Carries(queue'[t], n, Stamps(disk.items[n]))
    BY <1>2 DEF Stamped, Carries
  <2> QED BY <1>2, <1>3, <1>4, <2>1, <2>2 DEF Stamped
<1>6. Shows(t, n)'
  <2>1. ~Attempting(t)' /\ Early(t, n)' = {}
    BY <1>4 DEF Attempting, Early, Replaces, NoWork
  <2>2. Early(t, n) \subseteq Stamps(disk.items[n])
    BY <1>2 DEF Shows, Early
  <2>3. Recalls(t, n)'
    BY <1>2, <1>3, <1>4, <2>1, <2>2 DEF Shows, Recalls
  <2> QED BY <1>1, <1>3, <1>4, <2>1, <2>3 DEF Shows, Replaces
<1> QED BY <1>2, <1>3, <1>4, <1>5, <1>6, OthersKnow

LEMMA FinishKnows ==
    ASSUME Types, NEW t \in Tabs, NEW n \in Nodes, Knowing(n), FinishResult(t)
    PROVE  Knowing(n)'
<1> USE DEF Types
<1>1. /\ work[t] \in Attempt /\ save[t] = None /\ Show(t) /\ UNCHANGED <<queue, save>>
      /\ work[t].pc = "final"
  BY Typed, AttemptParts DEF FinishResult, Placed
<1>2. queue[t] # None => Carries(queue[t], n, Seen(t, n))
  BY DEF Knowing, Stamped
<1> QED BY <1>1, <1>2, ShowKnows

LEMMA FailKnows ==
    ASSUME Types, NEW t \in Tabs, NEW n \in Nodes, Knowing(n), Attempted(t), FailWrite(t)
    PROVE  Knowing(n)'
<1> USE DEF Types
<1> DEFINE change == Again(t)
           stored == observed[t]
           nodes == memory[t]
<1>1. /\ queue[t] \in Change /\ queue[t] # None /\ save' = [save EXCEPT ![t] = None]
      /\ save'[t] = None /\ \A u \in Tabs \ {t} : save'[u] = save[u]
  BY Typed DEF FailWrite, Placed, TypeOK
<1>2. Stamped(t, n) /\ Shows(t, n) /\ Own(disk.items[n])
  BY DEF Knowing
<1>3. change.base = queue[t].base /\ change.state = queue[t].state
  BY <1>1 DEF Again, Change
<1>4. change \in Change
  <2> DEFINE touched == queue[t].touched \cup save[t].touched
  <2>1. touched \in SUBSET (Nodes \X (Fields \cup {"row"}))
    BY <1>1, Typed, ChangeParts DEF FailWrite
  <2>2. change = [queue[t] EXCEPT !.taken = FALSE, !.touched = touched]
    BY <1>1 DEF Again, Change
  <2> HIDE DEF touched, change
  <2> QED BY <1>1, <2>1, <2>2 DEF Change
<1> HIDE DEF change
<1>5. Carries(change, n, Seen(t, n))
  BY <1>1, <1>2, <1>3 DEF Stamped, Carries
<1>6. CASE TakeBack(t, change, stored, nodes) /\ work[t].pc = "draining" /\ EndWork(t)
  <2>1. work[t] \in Attempt /\ stored \in Version /\ nodes \in Canvas
    BY <1>6, Typed, AttemptParts
  <2>2. /\ Own(stored.items[n]) /\ Stamps(stored.items[n]) \subseteq Stamps(disk.items[n])
        /\ Own(nodes[n]) /\ Stamps(nodes[n]) \subseteq Stamps(disk.items[n]) \cup Early(t, n)
        /\ Carries(change, n, Stamps(stored.items[n]))
    BY <1>2, <1>5 DEF Stamped, Shows, Seen
  <2> HIDE DEF stored, nodes
  <2>3. change \in Change \cup {None}
    BY <1>4
  <2> QED BY <1>1, <1>6, <2>1, <2>2, <2>3, TakeBackKnows
<1>7. CASE queue' = [queue EXCEPT ![t] = change] /\ work[t].pc = "committed" /\ Show(t)
  <2>1. work[t] \in Attempt
    BY <1>7, Typed, AttemptParts
  <2>2. queue'[t] = change /\ \A u \in Tabs \ {t} : queue'[u] = queue[u]
    BY <1>7 DEF TypeOK
  <2> QED BY <1>1, <1>5, <1>7, <2>1, <2>2, ShowKnows
<1>8. CASE /\ queue' = [queue EXCEPT ![t] = change]
           /\ UNCHANGED <<disk, memory, removed, observed, work>>
  <2>1. queue'[t] = change /\ \A u \in Tabs \ {t} : queue'[u] = queue[u]
    BY <1>8 DEF TypeOK
  <2>2. Seen(t, n)' = Seen(t, n)
    BY <1>8 DEF Seen
  <2>3. Stamped(t, n)'
    BY <1>1, <1>2, <1>5, <1>8, <2>1, <2>2 DEF Stamped
  <2>4. Shows(t, n)'
    BY <1>2, <1>8, ShowsFrame
  <2> QED BY <1>1, <1>2, <1>8, <2>1, <2>3, <2>4, OthersKnow
<1> QED BY <1>6, <1>7, <1>8 DEF FailWrite, change

LEMMA ReopenKnows ==
    ASSUME Types, NEW t \in Tabs, NEW n \in Nodes, Knowing(n), ReopenPage(t)
    PROVE  Knowing(n)'
<1> USE DEF Types
<1>1. /\ UNCHANGED disk
      /\ observed'[t] = Observe(disk) /\ memory'[t] = disk.items /\ queue'[t] = None
      /\ save'[t] = None /\ work'[t] = NoWork
      /\ \A u \in Tabs \ {t} :
            /\ observed'[u] = observed[u] /\ queue'[u] = queue[u] /\ save'[u] = save[u]
            /\ memory'[u] = memory[u] /\ removed'[u] = removed[u] /\ work'[u] = work[u]
      /\ removed'[t][n] = Absent
  BY DEF ReopenPage, TypeOK, NoNodes
<1>2. Own(disk.items[n])
  BY DEF Knowing
<1>3. Stamped(t, n)'
  BY <1>1, <1>2 DEF Stamped, Seen, Observe
<1>4. Shows(t, n)'
  BY <1>1, <1>2 DEF Shows, Recalls, Attempting, Replaces, Early, NoWork
<1> QED BY <1>1, <1>2, <1>3, <1>4, OthersKnow

-----------------------------------------------------------------------------
(* The invariant.                                                          *)

LEMMA AttemptedFrame ==
    ASSUME NEW u \in Tabs, Attempted(u),
           \/ work'[u] = work[u]
           \/ work'[u] = NoWork
           \/ work[u].pc # "none" /\ work'[u].base = work[u].base /\ work'[u].local = work[u].local
    PROVE  Attempted(u)'
<1>1. CASE work'[u] = NoWork
  BY <1>1 DEF Attempted, Attempting, NoWork
<1>2. CASE work'[u] = work[u]
  BY <1>2 DEF Attempted, Attempting
<1>3. CASE /\ work[u].pc # "none"
           /\ work'[u].base = work[u].base /\ work'[u].local = work[u].local
  BY <1>3 DEF Attempted, Attempting
<1> QED BY <1>1, <1>2, <1>3

LEMMA NextAttempted ==
    ASSUME Types, \A u \in Tabs : Attempted(u), [Next]_vars
    PROVE  \A u \in Tabs : Attempted(u)'
<1> USE DEF Types
<1> DEFINE Goal == \A u \in Tabs : Attempted(u)'
<1>1. ASSUME UNCHANGED work PROVE Goal
  BY <1>1, AttemptedFrame
<1>2. ASSUME NEW t \in Tabs, work' = [work EXCEPT ![t] = NoWork] PROVE Goal
  BY <1>2, AttemptedFrame DEF TypeOK
<1>3. ASSUME NEW t \in Tabs, work[t].pc # "none", NEW pc, work' = [work EXCEPT ![t].pc = pc]
      PROVE  Goal
  <2>1. work[t] \in Attempt
    BY <1>3, Typed, AttemptParts
  <2>2. work'[t].base = work[t].base /\ work'[t].local = work[t].local
    BY <1>3, <2>1 DEF TypeOK, Attempt
  <2>3. \A u \in Tabs \ {t} : work'[u] = work[u]
    BY <1>3 DEF TypeOK
  <2> QED BY <1>3, <2>2, <2>3, AttemptedFrame
<1>4. ASSUME NEW t \in Tabs, NEW e \in Effects, NEW show \in BOOLEAN, Prepare(t, e, show)
      PROVE  Goal
  <2> DEFINE attempt == [pc |-> "waiting", base |-> memory[t], local |-> Applied(memory[t], e),
                         baseRevision |-> observed[t].revision, shown |-> show]
  <2>1. work' = [work EXCEPT ![t] = attempt] /\ memory[t][Target[e]] # Absent
    BY <1>4 DEF Prepare
  <2>2. attempt.base = memory[t] /\ attempt.local = Applied(memory[t], e)
    OBVIOUS
  <2> HIDE DEF attempt
  <2>3. work'[t] = attempt /\ \A u \in Tabs \ {t} : work'[u] = work[u]
    BY <2>1 DEF TypeOK
  <2>4. \E x \in Effects : /\ work'[t].base[Target[x]] # Absent
                          /\ work'[t].local = Applied(work'[t].base, x)
    BY <2>1, <2>2, <2>3
  <2>5. Attempted(t)'
    BY <2>4 DEF Attempted, Attempting
  <2> QED BY <2>3, <2>5, AttemptedFrame
<1> HIDE DEF Goal
<1>5. ASSUME UNCHANGED vars PROVE Goal
  BY <1>1, <1>5 DEF vars
<1>6. ASSUME NEW t \in Tabs, EditNode(t) PROVE Goal
  BY <1>1, <1>6, EditsAreEdits DEF Edit
<1>7. ASSUME NEW t \in Tabs, AcquireToSave(t) \/ TakeChange(t) PROVE Goal
  BY <1>1, <1>7 DEF AcquireToSave, TakeChange
<1>8. ASSUME NEW t \in Tabs,
             AcquireForResult(t) \/ ReadBack(t) \/ CommitResult(t)
      PROVE  Goal
  <2>1. work[t].pc # "none" /\ \E pc : work' = [work EXCEPT ![t].pc = pc]
    BY <1>8 DEF AcquireForResult, ReadBack, CommitResult
  <2> QED BY <1>3, <2>1
<1>9. ASSUME NEW t \in Tabs, WriteChange(t) PROVE Goal
  <2>1. \/ UNCHANGED work
        \/ work[t].pc # "none" /\ \E pc : work' = [work EXCEPT ![t].pc = pc]
    BY <1>9 DEF WriteChange
  <2> QED BY <1>1, <1>3, <2>1
<1>10. ASSUME NEW t \in Tabs,
              RefuseResult(t) \/ FinishResult(t) \/ FailWrite(t) \/ ReopenPage(t)
       PROVE  Goal
  <2>1. UNCHANGED work \/ work' = [work EXCEPT ![t] = NoWork]
    BY <1>10 DEF RefuseResult, FinishResult, FailWrite, ReopenPage, Show, EndWork
  <2> QED BY <1>1, <1>2, <2>1
<1> QED BY <1>4, <1>5, <1>6, <1>7, <1>8, <1>9, <1>10 DEF Next, EditNode, Goal

(* Only the two writes touch the document, and they record what they remove. *)
LEMMA Deletions ==
    ASSUME Types, NEW t \in Tabs, WriteChange(t) \/ CommitResult(t),
           NEW n \in Nodes, n \notin deleted'
    PROVE  n \notin deleted /\ (disk.items[n] # Absent => disk'.items[n] # Absent)
BY DEF WriteChange, CommitResult, Wrote

LEMMA NextKnown ==
    ASSUME IInv, [Next]_vars
    PROVE  Known'
<1> SUFFICES ASSUME NEW n \in Nodes, n \notin deleted' PROVE Knowing(n)'
  BY DEF Known
<1>0. Types /\ (\A t \in Tabs : Attempted(t)) /\ (n \notin deleted => Knowing(n))
  BY DEF IInv, Known
<1>1. CASE UNCHANGED vars
  <2>1. Knowing(n)
    BY <1>0, <1>1 DEF vars
  <2>2. ASSUME NEW u \in Tabs PROVE Stamped(u, n)' /\ Shows(u, n)'
    BY <1>1, <2>1, StampedFrame, ShowsFrame DEF vars, Knowing
  <2> QED BY <1>1, <2>1, <2>2 DEF vars, Knowing
<1>2. ASSUME NEW t \in Tabs, EditNode(t)
      PROVE  Knowing(n)'
  <2>1. UNCHANGED deleted
    BY <1>0, <1>2, EditsAreEdits DEF Types, Edit
  <2> QED BY <1>0, <1>2, <2>1, EditKnows
<1>3. ASSUME NEW t \in Tabs,
             AcquireToSave(t) \/ AcquireForResult(t) \/ ReadBack(t) \/ TakeChange(t)
      PROVE  Knowing(n)'
  <2>1. UNCHANGED deleted
    BY <1>3 DEF AcquireToSave, AcquireForResult, ReadBack, TakeChange
  <2> QED BY <1>0, <1>3, <2>1, AcquireKnows, TakeKnows
<1>4. ASSUME NEW t \in Tabs, WriteChange(t) \/ CommitResult(t)
      PROVE  Knowing(n)'
  <2>1. Knowing(n) /\ (disk.items[n] # Absent => disk'.items[n] # Absent)
    BY <1>0, <1>4, Deletions
  <2> QED BY <1>0, <1>4, <2>1, WriteKnows, CommitKnows
<1>5. ASSUME NEW t \in Tabs, NEW e \in Effects, NEW show \in BOOLEAN, Prepare(t, e, show)
      PROVE  Knowing(n)'
  <2>1. UNCHANGED deleted
    BY <1>5 DEF Prepare
  <2> QED BY <1>0, <1>5, <2>1, PrepareKnows
<1>6. ASSUME NEW t \in Tabs,
             RefuseResult(t) \/ FinishResult(t) \/ FailWrite(t) \/ ReopenPage(t)
      PROVE  Knowing(n)'
  <2>1. UNCHANGED deleted
    BY <1>6 DEF RefuseResult, FinishResult, FailWrite, ReopenPage, Show, EndWork
  <2> QED BY <1>0, <1>6, <2>1, RefuseKnows, FinishKnows, FailKnows, ReopenKnows
<1> QED BY <1>1, <1>2, <1>3, <1>4, <1>5, <1>6 DEF Next, EditNode

LEMMA InitKnown == Init => IInv
<1> SUFFICES ASSUME Init PROVE IInv
  OBVIOUS
<1>1. Own(NewNode) /\ Stamps(NewNode) = {}
  <2>1. FirstValue \in Values
    BY CanvasAssumption DEF FirstValue
  <2> QED BY <2>1, CanvasAssumption DEF NewNode, Own, Stamps
<1>2. ASSUME NEW n \in Nodes
      PROVE  Own(InitialDocument.items[n]) /\ Stamps(InitialDocument.items[n]) = {}
  <2>1. InitialDocument.items[n] \in {NewNode, Absent}
    BY DEF InitialDocument, EmptyDocument
  <2> QED BY <1>1, <2>1 DEF Own, Stamps
<1>3. ASSUME NEW n \in Nodes PROVE Knowing(n)
  <2>1. \A t \in Tabs : Stamped(t, n)
    BY <1>2 DEF Init, Stamped, Seen, Observe
  <2>2. \A t \in Tabs : Shows(t, n)
    BY <1>2 DEF Init, Shows, Recalls, NoNodes, Attempting, Replaces, Early, NoWork
  <2> QED BY <1>2, <2>1, <2>2 DEF Init, Knowing
<1>4. \A t \in Tabs : Attempted(t)
  BY DEF Init, Attempted, Attempting, NoWork
<1> QED BY <1>3, <1>4, InitTypes DEF IInv, Known

LEMMA Invariant == Spec => []IInv
<1>1. IInv /\ [Next]_vars => IInv'
  BY NextTypes, NextAttempted, NextKnown DEF IInv
<1> QED BY <1>1, InitKnown, PTL DEF Spec

(* A step that writes the document, for a node that was not deleted.       *)
LEMMA WritingSteps ==
    ASSUME IInv, [Next]_vars, NEW n \in Nodes \ deleted
    PROVE  \/ disk'.items[n] = disk.items[n]
           \/ disk'.items[n] = Absent
           \/ Stamps(disk'.items[n]) = Stamps(disk.items[n])
           \/ \E t \in Tabs : CommitResult(t)
<1>1. Types /\ Knowing(n)
  BY DEF IInv, Known
<1>2. ASSUME NEW t \in Tabs, WriteChange(t), disk'.items[n] # Absent
      PROVE  Stamps(disk'.items[n]) = Stamps(disk.items[n])
  BY <1>1, <1>2, WriteKeeps
<1>3. ASSUME NEW t \in Tabs, EditNode(t)
      PROVE  UNCHANGED disk
  BY <1>1, <1>3, EditsAreEdits DEF Types, Edit
<1>4. ASSUME NEW t \in Tabs,
             \/ AcquireToSave(t) \/ AcquireForResult(t) \/ ReadBack(t) \/ TakeChange(t)
             \/ \E e \in Effects, show \in BOOLEAN : Prepare(t, e, show)
      PROVE  UNCHANGED disk
  BY <1>4 DEF AcquireToSave, AcquireForResult, ReadBack, TakeChange, Prepare
<1>5. ASSUME NEW t \in Tabs,
             RefuseResult(t) \/ FinishResult(t) \/ FailWrite(t) \/ ReopenPage(t)
      PROVE  UNCHANGED disk
  BY <1>5 DEF RefuseResult, FinishResult, FailWrite, ReopenPage, Show, EndWork
<1> QED BY <1>2, <1>3, <1>4, <1>5 DEF Next, EditNode, vars

(* A stamp is stored by the commit of an attempt and by no save, whatever  *)
(* the pages show and however old the change a page saves                  *)
(* (ordinaryCanvasPersistenceState), of a node that nobody deleted.        *)
THEOREM StampsComeByCommit == Spec => StampsByCommitOnly
<1>1. ASSUME IInv, [Next]_vars, NEW n \in Nodes \ deleted,
             ~(Stamps(disk'.items[n]) \subseteq Stamps(disk.items[n]))
      PROVE  \E t \in Tabs : lock = t /\ work'[t].pc = "committed" /\ work[t].pc = "ready"
  <2>1. disk'.items[n] = Absent => Stamps(disk'.items[n]) = {}
    BY DEF Stamps
  <2>2. PICK t \in Tabs : CommitResult(t)
    BY <1>1, <2>1, WritingSteps
  <2>3. work[t] \in Attempt /\ work' = [work EXCEPT ![t].pc = "committed"]
    BY <1>1, <2>2, Typed, AttemptParts DEF IInv, Types, CommitResult
  <2>4. work'[t].pc = "committed"
    BY <1>1, <2>3 DEF IInv, Types, TypeOK, Attempt
  <2> QED BY <2>2, <2>4 DEF CommitResult
<1>2. IInv /\ [Next]_vars =>
         [\A n \in Nodes \ deleted :
             ~(Stamps(disk'.items[n]) \subseteq Stamps(disk.items[n])) =>
                 \E t \in Tabs :
                     lock = t /\ work'[t].pc = "committed" /\ work[t].pc = "ready"]_vars
  BY <1>1
<1> QED BY <1>2, Invariant, PTL DEF Spec, StampsByCommitOnly

(* A stamp is stored together with its result (rebaseCanvasProjects and    *)
(* the conflicts of persistCanvasGenerationEffect), of a node that nobody  *)
(* deleted.                                                                *)
THEOREM StampsComeWithResults == Spec => StampedIsStored
<1>1. ASSUME IInv, [Next]_vars, NEW n \in Nodes \ deleted,
             NEW e \in Stamps(disk'.items[n]) \ Stamps(disk.items[n])
      PROVE  disk'.items[n].content = e
  <2>1. disk'.items[n] = Absent => Stamps(disk'.items[n]) = {}
    BY DEF Stamps
  <2>2. PICK t \in Tabs : CommitResult(t)
    BY <1>1, <2>1, WritingSteps
  <2>3. Types /\ Attempted(t) /\ Knowing(n)
    BY <1>1 DEF IInv, Known
  <2> QED BY <2>2, <2>3, CommitKeeps
<1>2. IInv /\ [Next]_vars =>
         [\A n \in Nodes \ deleted : \A e \in Stamps(disk'.items[n]) \ Stamps(disk.items[n]) :
             disk'.items[n].content = e]_vars
  BY <1>1
<1> QED BY <1>2, Invariant, PTL DEF Spec, StampedIsStored
=============================================================================
