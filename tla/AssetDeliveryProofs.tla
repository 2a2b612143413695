------------------------ MODULE AssetDeliveryProofs -------------------------
(***************************************************************************)
(* Proofs about AssetDelivery, for any numbers of pages, assets, effects,  *)
(* edits, claims and failures.                                             *)
(*                                                                         *)
(* The invariant has three parts.  Whatever a page shows, has queued or is *)
(* writing was added by hand, inserted, or left by an insertion that       *)
(* failed (Traced), and what was inserted is still stored or has a         *)
(* tombstone (Born).  The record of what people touched covers the         *)
(* difference a page has queued (Covered): a save changes nothing else.    *)
(* And a page that is about to add an asset is the only one that knows of  *)
(* it (Fresh), so nobody has deleted it.                                   *)
(***************************************************************************)
EXTENDS AssetDelivery, TLAPS

(* A save and the last part of an insertion are made under the lock; an    *)
(* insertion is that of the effect its page is consuming.                  *)
Placed ==
    \A t \in Tabs :
        /\ save[t] # None => lock = t /\ queue[t] # None /\ insertion[t].pc # "drained"
        /\ save[t] = None /\ queue[t] # None => ~queue[t].taken
        /\ insertion[t].pc \in {"draining", "drained"} => lock = t
        /\ insertion[t].pc # "none" =>
              consumer[t].pc = "applying" /\ consumer[t].effect = insertion[t].effect
        /\ consumer[t].pc # "idle" => consumer[t].effect \in Effects

Types == TypeOK /\ Placed

-----------------------------------------------------------------------------
(* What is stored or shown anywhere is known.                              *)
Made(e) == births[e] = 1 \/ e \in phantoms
Known(i) == i \in created \/ (i \in Effects /\ Made(i))

Holding(change, i) == change # None /\ (change.base[i] # Absent \/ change.assets[i] # Absent)

Shows(t, i) ==
    \/ memory[t][i] # Absent \/ observed[t].items[i] # Absent
    \/ Holding(queue[t], i) \/ Holding(save[t], i)
    \/ insertion[t].pc # "none" /\ insertion[t].base.items[i] # Absent

Traced(i) ==
    /\ disk.items[i] # Absent => disk.tombstones[i] = 0
    /\ disk.items[i] # Absent \/ disk.tombstones[i] # 0 => Known(i)
    /\ \A t \in Tabs : Shows(t, i) => Known(i)

Born(e) ==
    /\ births[e] <= 1
    /\ births[e] = 1 => disk.items[e] # Absent \/ disk.tombstones[e] # 0

(* An effect is completed by a page whose insertion returned an asset.     *)
Earned(e) ==
    /\ record[e].state = "completed" => Made(e)
    /\ \A t \in Tabs : consumer[t].pc = "applied" /\ consumer[t].effect = e => Made(e)

-----------------------------------------------------------------------------
(* What people touched covers the difference of two collections; an asset  *)
(* that came back in between (mid) is touched in every field.              *)
Covered(before, after, touched) ==
    \A i \in Ids :
        /\ (before[i] = Absent) # (after[i] = Absent) => <<i, "row">> \in touched
        /\ before[i] # Absent /\ after[i] # Absent =>
              \A f \in Fields : before[i][f] # after[i][f] => <<i, f>> \in touched

Restored(before, mid, after, touched) ==
    \A i \in Ids : before[i] # Absent /\ mid[i] = Absent /\ after[i] # Absent =>
                      \A f \in Fields : <<i, f>> \in touched

Touched(t) ==
    /\ save[t] = None /\ queue[t] # None =>
          Covered(queue[t].base, queue[t].assets, queue[t].touched)
    /\ save[t] # None =>
          /\ Covered(save[t].base, save[t].assets, save[t].touched)
          /\ queue[t].base = save[t].base
          /\ queue[t].taken => queue[t].assets = save[t].assets
          /\ ~queue[t].taken =>
                /\ Covered(save[t].assets, queue[t].assets, queue[t].touched)
                /\ Restored(save[t].base, save[t].assets, queue[t].assets, queue[t].touched)

-----------------------------------------------------------------------------
(* Only page t knows of i, which was never stored.                         *)
Fresh(t, i) ==
    /\ i \in Assets /\ disk.items[i] = Absent /\ disk.tombstones[i] = 0
    /\ \A u \in Tabs \ {t} : ~Shows(u, i)

Adds(change, i) == change # None /\ change.base[i] = Absent /\ change.assets[i] # Absent

Adding(t, i) ==
    /\ Adds(queue[t], i) \/ Adds(save[t], i) => Fresh(t, i)
    /\ save[t] # None /\ save[t].assets[i] = Absent /\ queue[t].assets[i] # Absent =>
          save[t].base[i] = Absent
    /\ queue[t] # None /\ queue[t].assets[i] = Absent => memory[t][i] = Absent

-----------------------------------------------------------------------------
(* A step of page t: what happens to the document, asset by asset, and     *)
(* where the assets come from that the page has after it.                  *)
Kept(i) == disk'.items[i] = disk.items[i] /\ disk'.tombstones[i] = disk.tombstones[i]

Removes(t, i) ==
    /\ save[t] # None /\ save[t].base[i] # Absent
    /\ disk'.items[i] = Absent /\ disk'.tombstones[i] # 0

Writes(t, i) ==
    /\ save[t] # None /\ save[t].assets[i] # Absent
    /\ disk.items[i] = Absent => save[t].base[i] = Absent
    /\ disk'.items[i] # Absent /\ disk'.tombstones[i] = 0

Inserts(t, i) ==
    /\ lock = t /\ save[t] = None /\ insertion[t].effect = i /\ i \in Effects
    /\ disk.items[i] = Absent /\ disk.tombstones[i] = 0
    /\ disk'.items[i] # Absent /\ disk'.tombstones[i] = 0
    /\ births'[i] = births[i] + 1

Elsewhere(t) ==
    \A u \in Tabs \ {t} :
        /\ memory'[u] = memory[u] /\ observed'[u] = observed[u]
        /\ queue'[u] = queue[u] /\ save'[u] = save[u] /\ insertion'[u] = insertion[u]

Moves(t) ==
    /\ Elsewhere(t)
    /\ \A i \in Ids : Kept(i) \/ Removes(t, i) \/ Writes(t, i) \/ Inserts(t, i)
    /\ \A e \in Effects : births'[e] = births[e] \/ Inserts(t, e)
    /\ created \subseteq created' /\ phantoms \subseteq phantoms'
    /\ \A i \in Ids : Shows(t, i)' =>
          \/ Shows(t, i) \/ disk'.items[i] # Absent
          \/ i \in created' \ created \/ i \in Effects \cap phantoms'

IInv ==
    /\ Types
    /\ \A i \in Ids : Traced(i)
    /\ \A e \in Effects : Born(e) /\ Earned(e)
    /\ \A t \in Tabs : Touched(t)
    /\ \A t \in Tabs, i \in Ids \ phantoms : Adding(t, i)

-----------------------------------------------------------------------------
(* The merge.                                                              *)

LEMMA MergedAsset ==
    ASSUME NEW base \in Entity \cup {Absent}, NEW local \in Entity, NEW durable \in Entity
    PROVE  /\ MergeRecord(base, local, durable) \in Entity
           /\ \A f \in Fields : MergeRecord(base, local, durable)[f] =
                                   MergeField(Field(base, f), local[f], durable[f])
<1> DEFINE merged == MergeRecord(base, local, durable)
<1>1. merged = [f \in Fields |-> MergeField(Field(base, f), local[f], durable[f])]
  BY DEF MergeRecord, Entity
<1>2. \A f \in Fields : MergeField(Field(base, f), local[f], durable[f]) \in Values
  BY DEF MergeField, Entity
<1> HIDE DEF merged
<1>3. merged \in Entity /\ \A f \in Fields : merged[f] =
                               MergeField(Field(base, f), local[f], durable[f])
  BY <1>1, <1>2 DEF Entity
<1> QED BY <1>3 DEF merged

(* What a save makes of one asset, and of its tombstone.                   *)
LEMMA RebasedAsset ==
    ASSUME NEW document \in Document, NEW base \in Collection, NEW local \in Collection,
           NEW revision \in Nat, NEW i \in Ids
    PROVE  LET result == Rebase(document, base, local, revision)
               stored == /\ ChangedBy(base, local, i)
                         /\ ~Refused(document, base, revision, i)
           IN  /\ result.items[i] =
                    IF RemovedBy(base, local, i) THEN Absent
                    ELSE IF ~stored THEN document.items[i]
                    ELSE IF document.items[i] = Absent THEN local[i]
                    ELSE MergeRecord(base[i], local[i], document.items[i])
               /\ result.tombstones[i] =
                    IF RemovedBy(base, local, i) THEN document.revision + 1
                    ELSE IF stored THEN 0 ELSE document.tombstones[i]
<1>1. DOMAIN local = Ids
  BY DEF Collection
<1> QED BY <1>1 DEF Rebase, RebaseWith

LEMMA RebasedDocument ==
    ASSUME NEW document \in Document, NEW base \in Collection, NEW local \in Collection,
           NEW revision \in Nat
    PROVE  Rebase(document, base, local, revision) \in Document
<1> DEFINE result == Rebase(document, base, local, revision)
<1>1. \A i \in Ids : result.items[i] \in Entity \cup {Absent} /\ result.tombstones[i] \in Nat
  <2> SUFFICES ASSUME NEW i \in Ids
               PROVE  result.items[i] \in Entity \cup {Absent} /\ result.tombstones[i] \in Nat
    OBVIOUS
  <2>1. /\ base[i] \in Entity \cup {Absent} /\ local[i] \in Entity \cup {Absent}
        /\ document.items[i] \in Entity \cup {Absent}
        /\ document.tombstones[i] \in Nat /\ document.revision \in Nat
    BY DEF Collection, Document
  <2>2. local[i] \in Entity /\ document.items[i] \in Entity =>
           MergeRecord(base[i], local[i], document.items[i]) \in Entity
    BY <2>1, MergedAsset
  <2> QED BY <2>1, <2>2, RebasedAsset DEF ChangedBy
<1>2. /\ DOMAIN result.items = Ids /\ DOMAIN result.tombstones = Ids
      /\ result = [items |-> result.items, tombstones |-> result.tombstones,
                   revision |-> document.revision + 1]
      /\ result.items = [i \in Ids |-> result.items[i]]
      /\ result.tombstones = [i \in Ids |-> result.tombstones[i]]
  <2>1. DOMAIN local = Ids
    BY DEF Collection
  <2> QED BY <2>1 DEF Rebase, RebaseWith
<1>3. document.revision + 1 \in Nat
  BY DEF Document
<1>4. result.items \in Collection /\ result.tombstones \in [Ids -> Nat]
  BY <1>1, <1>2 DEF Collection
<1>5. result \in Document
  <2> HIDE DEF result
  <2> QED BY <1>2, <1>3, <1>4 DEF Document
<1> QED BY <1>5

-----------------------------------------------------------------------------
(* Type correctness.                                                       *)

LEMMA Typed ==
    ASSUME TypeOK, NEW t \in Tabs
    PROVE  /\ disk \in Document /\ disk.items \in Collection /\ disk.revision \in Nat
           /\ memory[t] \in Collection
           /\ observed[t] \in Version /\ observed[t].items \in Collection
           /\ observed[t].revision \in Nat
           /\ queue[t] \in Change \cup {None} /\ save[t] \in Change \cup {None}
           /\ insertion[t] \in Insertion \cup {NoInsertion}
BY DEF TypeOK, AssetTypeOK, Document, Version

LEMMA ChangeParts ==
    ASSUME NEW change \in Change
    PROVE  /\ change.base \in Collection /\ change.baseRevision \in Nat
           /\ change.assets \in Collection /\ change.taken \in BOOLEAN
           /\ change.touched \in SUBSET Rows /\ change # None
BY DistinctAssumption DEF Change

LEMMA InsertionParts ==
    ASSUME NEW row \in Insertion \cup {NoInsertion}, row.pc # "none"
    PROVE  /\ row \in Insertion /\ row.effect \in Effects /\ row.base \in Version
           /\ row.base.items \in Collection /\ row.base.revision \in Nat
BY DEF Insertion, NoInsertion, Version

LEMMA Observed ==
    ASSUME NEW document \in Document
    PROVE  Observe(document) \in Version /\ Observe(document).items = document.items
BY DEF Observe, Version, Document

LEMMA EffectIds == \A e \in Effects : e \in Ids /\ e \notin Assets
BY AssetAssumption DEF Ids

LEMMA NewAsset == NewEntity \in Entity /\ NewEntity # Absent
BY AssetAssumption, DistinctAssumption DEF NewEntity, Entity

LEMMA UnqueuedRows ==
    ASSUME NEW t
    PROVE  /\ Unqueued(t) \in SUBSET Rows
           /\ \A i \in Ids :
                 /\ (queue[t].assets[i] = Absent) # (memory[t][i] = Absent)
                       => <<i, "row">> \in Unqueued(t)
                 /\ \A f \in Fields :
                       Field(queue[t].assets[i], f) # Field(memory[t][i], f)
                       => <<i, f>> \in Unqueued(t)
BY AssetAssumption DEF Unqueued, Rows

LEMMA QueuedChange ==
    ASSUME TypeOK, NEW t \in Tabs, NEW assets \in Collection, NEW rows \in SUBSET Rows
    PROVE  /\ Queued(t, assets, rows) \in Change
           /\ Queued(t, assets, rows) # None
           /\ Queued(t, assets, rows).assets = assets
           /\ Queued(t, assets, rows).taken = FALSE
           /\ rows \subseteq Queued(t, assets, rows).touched
           /\ queue[t] = None => Queued(t, assets, rows).base = memory[t]
           /\ queue[t] # None =>
                 /\ Queued(t, assets, rows).base = queue[t].base
                 /\ Unqueued(t) \subseteq Queued(t, assets, rows).touched
                 /\ queue[t].taken = FALSE =>
                       queue[t].touched \subseteq Queued(t, assets, rows).touched
<1>1. /\ memory[t] \in Collection /\ observed[t].revision \in Nat
      /\ Unqueued(t) \in SUBSET Rows
  BY Typed, UnqueuedRows
<1>2. CASE queue[t] = None
  <2> DEFINE queued == [base |-> memory[t], baseRevision |-> observed[t].revision,
                        assets |-> assets, taken |-> FALSE, touched |-> rows]
  <2>1. Queued(t, assets, rows) = queued
    BY <1>2 DEF Queued
  <2>2. queued \in Change
    BY <1>1 DEF Change
  <2>3. /\ queued.base = memory[t] /\ queued.assets = assets /\ queued.taken = FALSE
        /\ queued.touched = rows
    OBVIOUS
  <2> HIDE DEF queued
  <2> QED BY <1>2, <2>1, <2>2, <2>3, DistinctAssumption
<1>3. CASE queue[t] # None
  <2> DEFINE touched == rows \cup Unqueued(t) \cup (IF queue[t].taken THEN {} ELSE queue[t].touched)
  <2>2. queue[t] \in Change
    BY <1>3, Typed
  <2>3. touched \in SUBSET Rows
    BY <1>1, <2>2, ChangeParts
  <2> DEFINE queued == [queue[t] EXCEPT !.assets = assets, !.taken = FALSE, !.touched = touched]
  <2>1. Queued(t, assets, rows) = queued
    BY <1>3 DEF Queued
  <2> HIDE DEF touched
  <2>4. queued \in Change
    BY <2>2, <2>3 DEF Change
  <2>5. /\ queued.base = queue[t].base /\ queued.assets = assets /\ queued.taken = FALSE
        /\ queued.touched = touched
    BY <2>2 DEF Change
  <2> HIDE DEF queued
  <2> QED BY <1>3, <2>1, <2>4, <2>5, DistinctAssumption DEF touched
<1> QED BY <1>2, <1>3

(* What a page shows after an insertion was in its memory or is stored.    *)
LEMMA PublishedAssets ==
    ASSUME TypeOK, NEW t \in Tabs, insertion[t].pc # "none", NEW assets \in Collection
    PROVE  /\ Published(t, disk, assets) \in Collection
           /\ \A i \in Ids : Published(t, disk, assets)[i] # Absent =>
                 memory[t][i] # Absent \/ disk.items[i] # Absent \/ assets[i] # Absent
<1> DEFINE live == Rebase(disk, insertion[t].base.items, memory[t],
                          insertion[t].base.revision)
           result == Rebase(live, disk.items, assets, disk.revision)
<1>1. /\ disk \in Document /\ disk.items \in Collection /\ disk.revision \in Nat
      /\ memory[t] \in Collection
      /\ insertion[t].base.items \in Collection /\ insertion[t].base.revision \in Nat
  BY Typed, InsertionParts
<1>2. live \in Document
  BY <1>1, RebasedDocument
<1>3. \A i \in Ids : live.items[i] # Absent => memory[t][i] # Absent \/ disk.items[i] # Absent
  BY <1>1, RebasedAsset DEF ChangedBy
<1> HIDE DEF live
<1>4. result \in Document
  BY <1>1, <1>2, RebasedDocument
<1>5. \A i \in Ids : result.items[i] # Absent => live.items[i] # Absent \/ assets[i] # Absent
  BY <1>1, <1>2, RebasedAsset DEF ChangedBy
<1>6. Published(t, disk, assets) = result.items
  BY DEF Published, live
<1> HIDE DEF result
<1> QED BY <1>3, <1>4, <1>5, <1>6 DEF Document

(* An edit touches one asset, which the page shows or which is new.        *)
LEMMA EditsAreEdits ==
    ASSUME TypeOK, NEW t \in Tabs, Editing(t)
    PROVE  \E i \in Ids, entity \in Entity \cup {Absent}, rows \in SUBSET Rows :
              /\ Edit(t, i, entity, rows)
              /\ \/ /\ i \in Assets \ created /\ created' = created \cup {i}
                    /\ entity = NewEntity /\ rows = {<<i, "row">>}
                 \/ /\ memory[t][i] # Absent /\ UNCHANGED created
                    /\ \/ entity = Absent /\ rows = {<<i, "row">>}
                       \/ /\ entity # Absent
                          /\ \A f \in Fields : entity[f] # memory[t][i][f] => <<i, f>> \in rows
<1>1. ASSUME AddAsset(t) PROVE
         \E i \in Assets \ created : /\ Edit(t, i, NewEntity, {<<i, "row">>})
                                     /\ created' = created \cup {i}
  BY <1>1 DEF AddAsset
<1>2. CASE AddAsset(t)
  <2>1. PICK i \in Assets \ created : /\ Edit(t, i, NewEntity, {<<i, "row">>})
                                      /\ created' = created \cup {i}
    BY <1>1, <1>2
  <2>2. i \in Ids /\ NewEntity \in Entity \cup {Absent} /\ {<<i, "row">>} \in SUBSET Rows
    BY NewAsset DEF Ids, Rows
  <2> QED BY <2>1, <2>2
<1>3. CASE UpdateAsset(t)
  <2>1. PICK i \in Ids, f \in Fields, v \in Values :
           /\ memory[t][i] # Absent /\ UNCHANGED created
           /\ Edit(t, i, [memory[t][i] EXCEPT ![f] = v], {<<i, f>>})
    BY <1>3 DEF UpdateAsset
  <2>2. memory[t][i] \in Entity
    BY <2>1, Typed DEF Collection
  <2> DEFINE entity == [memory[t][i] EXCEPT ![f] = v]
  <2>3. /\ entity \in Entity
        /\ \A g \in Fields : entity[g] # memory[t][i][g] => <<i, g>> \in {<<i, f>>}
    BY <2>2 DEF Entity
  <2>4. {<<i, f>>} \in SUBSET Rows
    BY DEF Rows
  <2>5. Edit(t, i, entity, {<<i, f>>})
    BY <2>1
  <2> HIDE DEF entity
  <2> QED BY <2>1, <2>3, <2>4, <2>5, DistinctAssumption
<1>4. CASE RemoveAsset(t)
  <2>1. PICK i \in Ids : /\ memory[t][i] # Absent /\ UNCHANGED created
                         /\ Edit(t, i, Absent, {<<i, "row">>})
    BY <1>4 DEF RemoveAsset
  <2>2. {<<i, "row">>} \in SUBSET Rows
    BY DEF Rows
  <2> QED BY <2>1, <2>2
<1> QED BY <1>2, <1>3, <1>4 DEF Editing

(* Step by step.                                                           *)
LEMMA EditTypes ==
    ASSUME Types, NEW t \in Tabs, EditLibrary(t)
    PROVE  Types'
<1> USE DEF Types
<1>1. PICK i \in Ids, entity \in Entity \cup {Absent}, rows \in SUBSET Rows :
         Edit(t, i, entity, rows) /\ created' \subseteq Assets
  BY EditsAreEdits DEF EditLibrary, TypeOK, AssetTypeOK
<1> DEFINE assets == [memory[t] EXCEPT ![i] = entity]
<1>2. assets \in Collection
  BY Typed DEF Collection
<1> HIDE DEF assets
<1> DEFINE queued == Queued(t, assets, rows)
<1>3. queued \in Change /\ queued # None /\ queued.taken = FALSE
  BY <1>2, QueuedChange
<1>4. /\ memory' = [memory EXCEPT ![t] = assets]
      /\ queue' = [queue EXCEPT ![t] = queued]
      /\ edits' \in 0..MaxEdits
      /\ UNCHANGED <<disk, observed, save, insertion, lock, births, phantoms, failures>>
      /\ UNCHANGED leaseVars
  BY <1>1, AssetAssumption DEF Edit, EditLibrary, TypeOK, AssetTypeOK, history, assets
<1> HIDE DEF queued
<1>5. memory' \in [Tabs -> Collection] /\ DOMAIN queue' = Tabs
  BY <1>2, <1>4 DEF TypeOK, AssetTypeOK
<1>6. \A u \in Tabs : queue'[u] = None \/ queue'[u] \in Change
  BY <1>3, <1>4 DEF TypeOK, AssetTypeOK
<1>7. AssetTypeOK'
  BY <1>1, <1>4, <1>5, <1>6 DEF TypeOK, AssetTypeOK
<1>8. LeaseTypeOK'
  BY <1>4 DEF TypeOK, LeaseTypeOK, leaseVars
<1>9. Placed'
  BY <1>3, <1>4 DEF Placed, TypeOK, AssetTypeOK, leaseVars
<1> QED BY <1>7, <1>8, <1>9 DEF TypeOK

LEMMA AcquireTypes ==
    ASSUME Types, NEW t \in Tabs, AcquireToSave(t) \/ AcquireToInsert(t), UNCHANGED leaseVars
    PROVE  Types'
<1> USE DEF Types
<1>1. LeaseTypeOK'
  BY DEF TypeOK, LeaseTypeOK, leaseVars
<1>2. None \notin Tabs
  BY PagesAssumption
<1>3. CASE AcquireToSave(t)
  <2>1. AssetTypeOK'
    BY <1>3 DEF AcquireToSave, TypeOK, AssetTypeOK, history
  <2>2. Placed'
    BY <1>2, <1>3 DEF AcquireToSave, Placed, leaseVars, history
  <2> QED BY <1>1, <2>1, <2>2 DEF TypeOK
<1>4. CASE AcquireToInsert(t)
  <2>1. PICK pc \in {"draining", "drained"} : insertion' = [insertion EXCEPT ![t].pc = pc]
    BY <1>4 DEF AcquireToInsert
  <2>2. insertion[t] \in Insertion
    BY <1>4, Typed DEF AcquireToInsert, Insertion, NoInsertion
  <2> DEFINE row == [insertion[t] EXCEPT !.pc = pc]
  <2>3. row \in Insertion /\ row.effect = insertion[t].effect /\ row.pc # "none"
    BY <2>1, <2>2 DEF Insertion
  <2>4. /\ insertion' = [insertion EXCEPT ![t] = row]
        /\ lock = None /\ lock' = t /\ insertion[t].pc = "waiting"
        /\ UNCHANGED <<disk, memory, observed, queue, save, created, births, phantoms,
                       edits, failures>>
    BY <1>4, <2>1 DEF AcquireToInsert, history
  <2> HIDE DEF row
  <2>5. AssetTypeOK'
    BY <2>3, <2>4 DEF TypeOK, AssetTypeOK
  <2>6. Placed'
    BY <1>2, <2>3, <2>4 DEF Placed, TypeOK, AssetTypeOK, leaseVars
  <2> QED BY <1>1, <2>5, <2>6 DEF TypeOK
<1> QED BY <1>3, <1>4

LEMMA TakeTypes ==
    ASSUME Types, NEW t \in Tabs, TakeChange(t), UNCHANGED leaseVars
    PROVE  Types'
<1> USE DEF Types
<1> DEFINE row == [queue[t] EXCEPT !.taken = TRUE]
<1>1. queue[t] \in Change /\ queue[t] # None
  BY Typed DEF TakeChange
<1>2. row \in Change
  BY <1>1 DEF Change
<1>3. row # None
  BY <1>2, DistinctAssumption
<1>4. /\ queue' = [queue EXCEPT ![t] = row]
      /\ save' = [save EXCEPT ![t] = queue[t]]
      /\ lock = t /\ insertion[t].pc # "drained"
      /\ UNCHANGED <<disk, memory, observed, insertion, lock, created, births, phantoms,
                     edits, failures>>
  BY DEF TakeChange, history
<1> HIDE DEF row
<1>5. AssetTypeOK'
  BY <1>1, <1>2, <1>4 DEF TypeOK, AssetTypeOK
<1>6. Placed'
  BY <1>1, <1>3, <1>4 DEF Placed, TypeOK, AssetTypeOK, leaseVars
<1>7. LeaseTypeOK'
  BY DEF TypeOK, LeaseTypeOK, leaseVars
<1> QED BY <1>5, <1>6, <1>7 DEF TypeOK

(* What is queued after a write.                                           *)
LEMMA RequeuedChange ==
    ASSUME Types, NEW t \in Tabs, save[t] # None, NEW document \in Document
    PROVE  LET row == Requeued(t, document)
           IN  /\ row \in Change \cup {None}
               /\ queue[t].taken <=> row = None
               /\ row # None => /\ row.base = save[t].assets /\ ~row.taken
                                /\ row.assets = queue[t].assets
                                /\ row.touched = queue[t].touched
<1> DEFINE row == [queue[t] EXCEPT !.base = save[t].assets, !.baseRevision = document.revision]
<1>1. /\ queue[t] \in Change /\ save[t].assets \in Collection
      /\ document.revision \in Nat
  BY Typed, ChangeParts DEF Types, Placed, Document
<1>2. /\ row \in Change /\ row.base = save[t].assets /\ row.taken = queue[t].taken
      /\ row.assets = queue[t].assets /\ row.touched = queue[t].touched
  BY <1>1 DEF Change
<1>3. Requeued(t, document) = IF queue[t].taken THEN None ELSE row
  BY DEF Requeued
<1> HIDE DEF row
<1> QED BY <1>2, <1>3, DistinctAssumption

LEMMA WriteTypes ==
    ASSUME Types, NEW t \in Tabs, WriteChange(t), UNCHANGED leaseVars
    PROVE  Types'
<1> DEFINE document == Rebase(disk, save[t].base, save[t].assets, save[t].baseRevision)
           row == Requeued(t, document)
<1> USE DEF Types
<1>1. /\ lock = t /\ save[t] # None /\ save[t] \in Change
      /\ queue[t] # None /\ insertion[t].pc # "drained"
  BY Typed DEF WriteChange, Placed
<1>2. /\ disk' = document /\ observed' = [observed EXCEPT ![t] = Observe(document)]
      /\ queue' = [queue EXCEPT ![t] = row]
      /\ save' = [save EXCEPT ![t] = None]
      /\ UNCHANGED <<memory, created, births, phantoms, edits, failures>>
  BY DEF WriteChange, history
<1>3. document \in Document
  BY <1>1, Typed, ChangeParts, RebasedDocument
<1>4. Observe(document) \in Version
  BY <1>3, Observed
<1>5. row \in Change \cup {None} /\ (row # None => ~row.taken)
  BY <1>1, <1>3, RequeuedChange
<1> HIDE DEF document, row
<1>6. /\ DOMAIN insertion' = Tabs
      /\ \A u \in Tabs :
            /\ insertion'[u] \in Insertion \cup {NoInsertion}
            /\ insertion'[u].pc # "none" =>
                  insertion[u].pc # "none" /\ insertion'[u].effect = insertion[u].effect
            /\ insertion'[u].pc \in {"draining", "drained"} => insertion[u].pc \in {"draining", "drained"}
            /\ u # t => insertion'[u] = insertion[u]
  <2>1. CASE UNCHANGED insertion
    BY <2>1, Typed DEF TypeOK, AssetTypeOK
  <2>2. CASE insertion[t].pc = "draining" /\ insertion' = [insertion EXCEPT ![t].pc = "drained"]
    <3>1. insertion[t] \in Insertion
      BY <2>2, Typed DEF NoInsertion
    <3> DEFINE next == [insertion[t] EXCEPT !.pc = "drained"]
    <3>2. next \in Insertion /\ next.effect = insertion[t].effect
      BY <3>1 DEF Insertion
    <3>3. insertion' = [insertion EXCEPT ![t] = next]
      BY <2>2
    <3> HIDE DEF next
    <3> QED BY <2>2, <3>2, <3>3, Typed DEF TypeOK, AssetTypeOK
  <2> QED BY <2>1, <2>2 DEF WriteChange
<1>7. /\ lock' \in {t, None}
      /\ insertion'[t].pc \in {"draining", "drained"} => lock' = t
  BY <1>1, <1>6 DEF WriteChange
<1>8. AssetTypeOK'
  BY <1>2, <1>3, <1>4, <1>5, <1>6, <1>7 DEF TypeOK, AssetTypeOK
<1>9. Placed'
  <2>1. \A u \in Tabs \ {t} : /\ queue'[u] = queue[u] /\ save'[u] = save[u]
                              /\ save[u] = None /\ insertion[u].pc \notin {"draining", "drained"}
    BY <1>1, <1>2 DEF Placed, TypeOK, AssetTypeOK
  <2>2. save'[t] = None /\ queue'[t] = row
    BY <1>2 DEF TypeOK, AssetTypeOK
  <2> QED BY <1>5, <1>6, <1>7, <2>1, <2>2 DEF Placed, leaseVars
<1>10. LeaseTypeOK'
  BY DEF TypeOK, LeaseTypeOK, leaseVars
<1> QED BY <1>8, <1>9, <1>10 DEF TypeOK

(* The claims.                                                             *)
LEMMA ClaimTypes ==
    ASSUME Types, UNCHANGED assetVars,
           \/ \E t \in Tabs : Consume(t) \/ TakeUp(t)
           \/ \E e \in Effects : ClaimExpires(e) \/ AbandonedExpires(e)
    PROVE  Types'
<1> USE DEF Types
<1>1. AssetTypeOK'
  BY DEF TypeOK, AssetTypeOK, assetVars, history
<1>2. /\ record \in [Effects -> [state : {"none", "pending", "completed", "released"},
                                 fence : 0..MaxClaims, holder : Tabs \cup {None}]]
      /\ late \subseteq {e \in Effects : record[e].state = "pending"}
      /\ consumer \in [Tabs -> [pc : {"idle", "waiting", "claimed", "applying", "applied",
                                      "failing", "done"},
                                effect : Effects \cup {None}, fence : 0..MaxClaims]]
      /\ expiries \in 0..MaxExpiries /\ MaxExpiries \in Nat /\ MaxClaims \in Nat
  BY LeaseAssumption DEF TypeOK, LeaseTypeOK
<1>3. \A u \in Tabs : consumer[u].pc # "idle" => consumer[u].effect \in Effects
  BY DEF Placed
<1>4. UNCHANGED <<save, queue, lock, insertion>>
  BY DEF assetVars
<1> DEFINE Goal ==
        /\ LeaseTypeOK'
        /\ \A u \in Tabs :
              /\ consumer[u].pc = "applying" =>
                    consumer'[u].pc = "applying" /\ consumer'[u].effect = consumer[u].effect
              /\ consumer'[u].pc # "idle" => consumer'[u].effect \in Effects
<1>5. SUFFICES Goal
  BY <1>1, <1>4 DEF Placed, TypeOK
<1>6. ASSUME NEW t \in Tabs, FindCompleted(t) \/ GiveUp(t) PROVE Goal
  BY <1>2, <1>3, <1>6 DEF FindCompleted, GiveUp, LeaseTypeOK
<1>7. ASSUME NEW t \in Tabs, Complete(t) PROVE Goal
  BY <1>2, <1>3, <1>7 DEF Complete, Holds, LeaseTypeOK
<1>8. ASSUME NEW t \in Tabs, Release(t) PROVE Goal
  BY <1>2, <1>3, <1>8 DEF Release, Holds, LeaseTypeOK, AtRest
<1>9. ASSUME NEW t \in Tabs, Claim(t) PROVE Goal
  <2> DEFINE e == consumer[t].effect
             claim == [state |-> "pending", fence |-> record[e].fence + 1, holder |-> t]
             row == [consumer[t] EXCEPT !.pc = "claimed", !.fence = record[e].fence + 1]
  <2>1. e \in Effects /\ consumer[t].pc = "waiting" /\ record[e].fence + 1 \in 0..MaxClaims
    BY <1>2, <1>3, <1>9 DEF Claim
  <2>2. /\ claim \in [state : {"none", "pending", "completed", "released"},
                      fence : 0..MaxClaims, holder : Tabs \cup {None}]
        /\ claim.state = "pending"
    BY <2>1
  <2>3. /\ row \in [pc : {"idle", "waiting", "claimed", "applying", "applied", "failing", "done"},
                    effect : Effects \cup {None}, fence : 0..MaxClaims]
        /\ row.effect = e /\ row.pc = "claimed"
    BY <1>2, <2>1
  <2>4. /\ record' = [record EXCEPT ![e] = claim]
        /\ consumer' = [consumer EXCEPT ![t] = row]
        /\ late' = late \ {e} /\ expiries' = expiries
    BY <1>9 DEF Claim
  <2> HIDE DEF e, claim, row
  <2> QED BY <1>2, <1>3, <2>1, <2>2, <2>3, <2>4 DEF LeaseTypeOK
<1>10. ASSUME NEW t \in Tabs, TakeUp(t) PROVE Goal
  <2>1. PICK e \in Effects : Start(t, e)
    BY <1>10 DEF TakeUp
  <2> DEFINE row == [AtRest EXCEPT !.pc = "waiting", !.effect = e]
  <2>2. /\ row \in [pc : {"idle", "waiting", "claimed", "applying", "applied", "failing", "done"},
                    effect : Effects \cup {None}, fence : 0..MaxClaims]
        /\ row.effect = e /\ row.pc = "waiting"
    <3>1. AtRest \in [pc : {"idle", "waiting", "claimed", "applying", "applied", "failing", "done"},
                      effect : Effects \cup {None}, fence : 0..MaxClaims]
      BY <1>2 DEF AtRest
    <3> QED BY <3>1
  <2>3. /\ consumer' = [consumer EXCEPT ![t] = row] /\ consumer[t].pc = "idle"
        /\ UNCHANGED <<record, late, expiries>>
    BY <2>1 DEF Start
  <2> HIDE DEF row
  <2> QED BY <1>2, <1>3, <2>2, <2>3 DEF LeaseTypeOK
<1>11. ASSUME NEW e \in Effects, ClaimExpires(e) \/ AbandonedExpires(e) PROVE Goal
  BY <1>2, <1>3, <1>11 DEF ClaimExpires, AbandonedExpires, Expire, ExpireAbandoned,
                          Abandoned, LeaseTypeOK
<1> QED BY <1>6, <1>7, <1>8, <1>9, <1>10, <1>11 DEF Consume

(* Insertions.                                                             *)
LEMMA BeginTypes ==
    ASSUME Types, NEW t \in Tabs, Insert(t)
    PROVE  Types'
<1> USE DEF Types
<1> DEFINE begun == [pc |-> "waiting", effect |-> consumer[t].effect, base |-> observed[t]]
           row == [consumer[t] EXCEPT !.pc = "applying"]
<1>1. /\ consumer[t].pc = "claimed" /\ consumer[t].effect \in Effects
      /\ insertion[t].pc = "none" /\ observed[t] \in Version
      /\ consumer[t] \in [pc : {"idle", "waiting", "claimed", "applying", "applied",
                                "failing", "done"},
                          effect : Effects \cup {None}, fence : 0..MaxClaims]
  BY Typed DEF Insert, Apply, BeginInsertion, Placed, TypeOK, LeaseTypeOK
<1>2. begun \in Insertion /\ begun.effect = consumer[t].effect /\ begun.pc = "waiting"
  BY <1>1 DEF Insertion
<1>3. /\ row \in [pc : {"idle", "waiting", "claimed", "applying", "applied", "failing", "done"},
                  effect : Effects \cup {None}, fence : 0..MaxClaims]
      /\ row.pc = "applying" /\ row.effect = consumer[t].effect
  BY <1>1
<1>4. /\ insertion' = [insertion EXCEPT ![t] = begun]
      /\ consumer' = [consumer EXCEPT ![t] = row]
      /\ UNCHANGED <<disk, memory, observed, queue, save, lock, created, births, phantoms,
                     edits, failures, record, late, expiries>>
  BY DEF Insert, Apply, BeginInsertion, history
<1> HIDE DEF begun, row
<1>5. AssetTypeOK'
  BY <1>2, <1>4 DEF TypeOK, AssetTypeOK
<1>6. LeaseTypeOK'
  BY <1>3, <1>4 DEF TypeOK, LeaseTypeOK
<1>7. Placed'
  BY <1>1, <1>2, <1>3, <1>4 DEF Placed, TypeOK, AssetTypeOK, LeaseTypeOK
<1> QED BY <1>5, <1>6, <1>7 DEF TypeOK

(* The end of an insertion: with or without its asset, which the page      *)
(* shows in any case unless it was refused.                                *)
LEMMA Publication ==
    ASSUME Types, NEW t \in Tabs, NEW ok \in BOOLEAN, ReadyToInsert(t), EndInsertion(t),
           Return(t, ok)
    PROVE  /\ lock = t /\ lock' = None /\ save[t] = None
           /\ insertion[t] \in Insertion /\ insertion[t].effect \in Effects
           /\ consumer[t].effect = insertion[t].effect /\ consumer[t].pc = "applying"
           /\ insertion' = [insertion EXCEPT ![t] = NoInsertion]
           /\ \A u \in Tabs \ {t} : consumer'[u] = consumer[u]
           /\ consumer'[t].effect = consumer[t].effect
           /\ consumer'[t].pc = IF ok THEN "applied" ELSE "failing"
           /\ LeaseTypeOK' /\ Placed'
           /\ UNCHANGED <<queue, save, created, edits, record, late, expiries>>
<1> USE DEF Types
<1>1. /\ lock = t /\ lock' = None /\ insertion[t].pc = "drained"
      /\ insertion[t] \in Insertion /\ insertion[t].effect \in Effects
      /\ save[t] = None /\ consumer[t].effect = insertion[t].effect
      /\ consumer[t].pc = "applying" /\ consumer[t].effect \in Effects
      /\ insertion' = [insertion EXCEPT ![t] = NoInsertion]
      /\ consumer' = [consumer EXCEPT ![t].pc = IF ok THEN "applied" ELSE "failing"]
      /\ UNCHANGED <<queue, save, created, edits, record, late, expiries>>
  BY Typed, InsertionParts DEF ReadyToInsert, EndInsertion, Return, Placed
<1>2. /\ \A u \in Tabs \ {t} : consumer'[u] = consumer[u]
      /\ consumer'[t].effect = consumer[t].effect
      /\ consumer'[t].pc = IF ok THEN "applied" ELSE "failing"
      /\ LeaseTypeOK'
  BY <1>1 DEF TypeOK, LeaseTypeOK
<1>3. \A u \in Tabs : save[u] = None /\ (u # t => insertion[u].pc \notin {"draining", "drained"})
  BY <1>1 DEF Placed
<1>4. Placed'
  BY <1>1, <1>2, <1>3 DEF Placed, TypeOK, AssetTypeOK, NoInsertion
<1> QED BY <1>1, <1>2, <1>4

(* What an end of an insertion changes, whichever it is.                   *)
LEMMA ShownAssets ==
    ASSUME TypeOK, NEW t \in Tabs, insertion[t].pc # "none",
           NEW stored \in Collection, NEW assets \in Collection, Publish(t, stored, assets)
    PROVE  /\ memory' = [memory EXCEPT ![t] = memory'[t]] /\ memory'[t] \in Collection
           /\ phantoms \subseteq phantoms' /\ phantoms' \subseteq Ids
           /\ \A i \in Ids : memory'[t][i] # Absent =>
                 memory[t][i] # Absent \/ disk.items[i] # Absent \/ assets[i] # Absent
           /\ \A i \in Ids : memory[t][i] = Absent /\ memory'[t][i] # Absent =>
                 i \in phantoms' \/ (stored[i] # Absent /\ queue[t] = None)
<1> DEFINE shown == Published(t, disk, assets)
<1>1. /\ shown \in Collection
      /\ \A i \in Ids : shown[i] # Absent =>
            memory[t][i] # Absent \/ disk.items[i] # Absent \/ assets[i] # Absent
  BY PublishedAssets
<1>2. /\ memory' = [memory EXCEPT ![t] = shown]
      /\ phantoms' = phantoms \cup
            {i \in Ids :
               /\ memory[t][i] = Absent /\ shown[i] # Absent
               /\ stored[i] = Absent \/ queue[t] # None}
  BY DEF Publish
<1> HIDE DEF shown
<1>3. memory'[t] = shown /\ phantoms \subseteq Ids
  BY <1>2 DEF TypeOK, AssetTypeOK
<1> QED BY <1>1, <1>2, <1>3

LEMMA Ending ==
    ASSUME Types, NEW t \in Tabs, Inserted(t) \/ NotInserted(t)
    PROVE  /\ \E ok \in BOOLEAN : /\ ReadyToInsert(t) /\ EndInsertion(t) /\ Return(t, ok)
                                  /\ ok => disk'.items[insertion[t].effect] # Absent
           /\ insertion[t].effect \in Effects
           /\ disk' \in Document /\ disk'.tombstones = disk.tombstones
           /\ observed' = [observed EXCEPT ![t] = Observe(disk')]
           /\ memory' = [memory EXCEPT ![t] = memory'[t]] /\ memory'[t] \in Collection
           /\ phantoms \subseteq phantoms' /\ phantoms' \subseteq Ids
           /\ failures' \in 0..MaxFailures
           /\ \A i \in Ids : memory'[t][i] # Absent =>
                 memory[t][i] # Absent \/ disk'.items[i] # Absent \/ i \in Effects \cap phantoms'
           /\ \A i \in Ids : memory[t][i] = Absent /\ memory'[t][i] # Absent =>
                 i \in phantoms' \/ (disk'.items[i] # Absent /\ queue[t] = None)
           /\ \/ UNCHANGED <<disk, births>>
              \/ /\ disk.items[insertion[t].effect] = Absent
                 /\ disk.tombstones[insertion[t].effect] = 0
                 /\ disk'.items = [disk.items EXCEPT ![insertion[t].effect] = NewEntity]
                 /\ births' = [births EXCEPT ![insertion[t].effect] = @ + 1]
<1> USE DEF Types
<1> DEFINE e == insertion[t].effect
           assets == [disk.items EXCEPT ![e] = NewEntity]
           document == [disk EXCEPT !.items = assets, !.revision = @ + 1]
<1>1. /\ ReadyToInsert(t) /\ EndInsertion(t)
      /\ failures' = failures \/ (failures < MaxFailures /\ failures' = failures + 1)
  BY DEF Inserted, NotInserted, ReturnAsset, InsertAsset, FailInsertion, RefuseInsertion
<1>2. insertion[t].pc = "drained" /\ e \in Effects /\ e \in Ids
  BY <1>1, Typed, InsertionParts, EffectIds DEF ReadyToInsert
<1>3. disk \in Document /\ disk.items \in Collection /\ memory[t] \in Collection
  BY Typed
<1>4. /\ assets \in Collection /\ document \in Document
      /\ document.items = assets /\ document.tombstones = disk.tombstones
  <2>1. assets \in Collection
    BY <1>2, <1>3, NewAsset DEF Collection
  <2> DEFINE next == disk.revision + 1
             inserted == [disk EXCEPT !.items = assets, !.revision = next]
  <2>2. next \in Nat
    BY <1>3 DEF Document
  <2>3. document = inserted
    OBVIOUS
  <2> HIDE DEF assets, next
  <2>4. inserted \in Document
    BY <1>3, <2>1, <2>2 DEF Document
  <2>5. inserted.items = assets /\ inserted.tombstones = disk.tombstones
    BY <1>3 DEF Document
  <2> QED BY <2>1, <2>3, <2>4, <2>5
<1>5. failures' \in 0..MaxFailures
  BY <1>1, AssetAssumption DEF TypeOK, AssetTypeOK
<1>6. /\ assets[e] = NewEntity /\ \A i \in Ids \ {e} : assets[i] = disk.items[i]
      /\ assets[e] # Absent
  BY <1>2, <1>3, NewAsset DEF Collection
<1>7. CASE ReturnAsset(t) /\ Return(t, TRUE)
  <2>1. /\ Publish(t, disk.items, disk.items) /\ UNCHANGED <<disk, births>>
        /\ disk.items[e] # Absent
        /\ observed' = [observed EXCEPT ![t] = Observe(disk)]
    BY <1>7 DEF ReturnAsset
  <2> QED BY <1>1, <1>2, <1>3, <1>5, <1>7, <2>1, ShownAssets
<1>8. CASE InsertAsset(t) /\ Return(t, TRUE)
  <2>1. /\ Publish(t, assets, assets) /\ disk' = document
        /\ disk.items[e] = Absent /\ disk.tombstones[e] = 0
        /\ observed' = [observed EXCEPT ![t] = Observe(document)]
        /\ births' = [births EXCEPT ![e] = @ + 1]
    BY <1>8 DEF InsertAsset, Deleted
  <2> HIDE DEF document
  <2>2. disk' \in Document /\ disk'.items = assets /\ disk'.tombstones = disk.tombstones
        /\ observed' = [observed EXCEPT ![t] = Observe(disk')]
    BY <1>4, <2>1
  <2> HIDE DEF assets
  <2>3. /\ memory' = [memory EXCEPT ![t] = memory'[t]] /\ memory'[t] \in Collection
        /\ phantoms \subseteq phantoms' /\ phantoms' \subseteq Ids
        /\ \A i \in Ids : memory'[t][i] # Absent =>
              memory[t][i] # Absent \/ disk.items[i] # Absent \/ assets[i] # Absent
        /\ \A i \in Ids : memory[t][i] = Absent /\ memory'[t][i] # Absent =>
              i \in phantoms' \/ (assets[i] # Absent /\ queue[t] = None)
    BY <1>2, <1>4, <2>1, ShownAssets
  <2>4. disk'.items[e] # Absent
    BY <1>6, <2>2
  <2>5. \A i \in Ids : disk.items[i] # Absent => disk'.items[i] # Absent
    BY <1>6, <2>2
  <2> QED BY <1>1, <1>2, <1>5, <1>8, <2>1, <2>2, <2>3, <2>4, <2>5 DEF assets
<1>9. CASE FailInsertion(t) /\ Return(t, FALSE)
  <2>1. /\ Publish(t, disk.items, assets) /\ UNCHANGED <<disk, births>>
        /\ disk.items[e] = Absent
        /\ observed' = [observed EXCEPT ![t] = Observe(disk)]
    BY <1>9 DEF FailInsertion
  <2> HIDE DEF assets
  <2>3. /\ memory' = [memory EXCEPT ![t] = memory'[t]] /\ memory'[t] \in Collection
        /\ phantoms \subseteq phantoms' /\ phantoms' \subseteq Ids
        /\ \A i \in Ids : memory'[t][i] # Absent =>
              memory[t][i] # Absent \/ disk.items[i] # Absent \/ assets[i] # Absent
        /\ \A i \in Ids : memory[t][i] = Absent /\ memory'[t][i] # Absent =>
              i \in phantoms' \/ (disk.items[i] # Absent /\ queue[t] = None)
    BY <1>2, <1>3, <1>4, <2>1, ShownAssets
  <2> QED BY <1>1, <1>2, <1>3, <1>5, <1>6, <1>9, <2>1, <2>3
<1>10. CASE RefuseInsertion(t) /\ Return(t, FALSE)
  <2>1. /\ UNCHANGED <<disk, births, memory, phantoms>>
        /\ observed' = [observed EXCEPT ![t] = Observe(disk)]
    BY <1>10 DEF RefuseInsertion, history
  <2>2. memory' = [memory EXCEPT ![t] = memory'[t]] /\ phantoms \subseteq Ids
    BY <2>1 DEF TypeOK, AssetTypeOK
  <2> QED BY <1>1, <1>2, <1>3, <1>5, <1>10, <2>1, <2>2
<1> QED BY <1>7, <1>8, <1>9, <1>10 DEF Inserted, NotInserted

LEMMA EndTypes ==
    ASSUME Types, \A e \in Effects : births[e] <= 1, NEW t \in Tabs,
           Inserted(t) \/ NotInserted(t)
    PROVE  Types'
<1> USE DEF Types
<1> DEFINE e == insertion[t].effect
<1>1. PICK ok \in BOOLEAN : ReadyToInsert(t) /\ EndInsertion(t) /\ Return(t, ok)
  BY Ending
<1>2. /\ lock' = None /\ insertion' = [insertion EXCEPT ![t] = NoInsertion]
      /\ UNCHANGED <<queue, save, created, edits>>
      /\ LeaseTypeOK' /\ Placed'
  BY <1>1, Publication
<1>3. /\ e \in Effects /\ disk' \in Document
      /\ observed' = [observed EXCEPT ![t] = Observe(disk')]
      /\ memory' = [memory EXCEPT ![t] = memory'[t]] /\ memory'[t] \in Collection
      /\ phantoms' \subseteq Ids /\ failures' \in 0..MaxFailures
      /\ births' = births \/ births' = [births EXCEPT ![e] = @ + 1]
  BY Ending
<1>4. observed' \in [Tabs -> Version]
  BY <1>3, Observed DEF TypeOK, AssetTypeOK
<1>5. births' \in [Effects -> 0..2]
  BY <1>3 DEF TypeOK, AssetTypeOK
<1>6. memory' \in [Tabs -> Collection]
  BY <1>3 DEF TypeOK, AssetTypeOK
<1>7. AssetTypeOK'
  <2>1. /\ DOMAIN queue' = Tabs /\ DOMAIN save' = Tabs /\ DOMAIN insertion' = Tabs
        /\ \A u \in Tabs :
              /\ queue'[u] = None \/ queue'[u] \in Change
              /\ save'[u] = None \/ save'[u] \in Change
              /\ insertion'[u] = NoInsertion \/ insertion'[u] \in Insertion
    BY <1>2 DEF TypeOK, AssetTypeOK
  <2>2. created' \subseteq Assets /\ edits' \in 0..MaxEdits
    BY <1>2 DEF TypeOK, AssetTypeOK
  <2> QED BY <1>2, <1>3, <1>4, <1>5, <1>6, <2>1, <2>2 DEF AssetTypeOK
<1> QED BY <1>2, <1>7 DEF TypeOK

(* What is queued after a write that failed.                               *)
LEMMA FailedWrite ==
    ASSUME Types, NEW t \in Tabs, FailWrite(t)
    PROVE  /\ lock = t /\ save[t] # None /\ save[t] \in Change /\ queue[t] \in Change
           /\ insertion[t].pc # "drained"
           /\ queue' = [queue EXCEPT ![t] = queue'[t]] /\ queue'[t] \in Change
           /\ queue'[t].base = queue[t].base /\ queue'[t].assets = queue[t].assets
           /\ queue'[t].taken = FALSE
           /\ queue'[t].touched = queue[t].touched \cup save[t].touched
<1> USE DEF Types
<1> DEFINE row == [queue[t] EXCEPT !.taken = FALSE, !.touched = @ \cup save[t].touched]
           touched == queue[t].touched \cup save[t].touched
           next == [queue[t] EXCEPT !.taken = FALSE, !.touched = touched]
<1>1. /\ lock = t /\ save[t] # None /\ save[t] \in Change /\ queue[t] \in Change
      /\ insertion[t].pc # "drained"
  BY Typed DEF FailWrite, Placed
<1>2. touched \in SUBSET Rows
  BY <1>1, ChangeParts
<1>3. queue' = [queue EXCEPT ![t] = next]
  BY DEF FailWrite
<1> HIDE DEF touched
<1>4. next \in Change /\ next.base = queue[t].base /\ next.assets = queue[t].assets
      /\ next.taken = FALSE /\ next.touched = touched
  BY <1>1, <1>2 DEF Change
<1> HIDE DEF next
<1>5. queue'[t] = next
  BY <1>3 DEF TypeOK, AssetTypeOK
<1> QED BY <1>1, <1>3, <1>4, <1>5 DEF touched

LEMMA FailTypes ==
    ASSUME Types, NEW t \in Tabs, SaveFails(t)
    PROVE  Types'
<1> USE DEF Types
<1>1. /\ lock = t /\ save[t] # None /\ insertion[t].pc # "drained"
      /\ queue' = [queue EXCEPT ![t] = queue'[t]] /\ queue'[t] \in Change
      /\ queue'[t].taken = FALSE
  BY FailedWrite DEF SaveFails
<1>2. queue'[t] # None
  BY <1>1, ChangeParts
<1>3. /\ save' = [save EXCEPT ![t] = None] /\ lock' = None
      /\ failures' \in 0..MaxFailures
      /\ UNCHANGED <<disk, memory, observed, created, births, phantoms, edits>>
  BY AssetAssumption DEF SaveFails, FailWrite, TypeOK, AssetTypeOK, history
<1>4. /\ insertion' = [insertion EXCEPT ![t] = insertion'[t]]
      /\ \/ insertion'[t] = NoInsertion
         \/ insertion'[t] = insertion[t] /\ insertion[t].pc # "draining"
      /\ insertion[t].pc = "draining" => insertion'[t] = NoInsertion /\ Return(t, FALSE)
      /\ insertion[t].pc # "draining" => insertion'[t] = insertion[t] /\ UNCHANGED leaseVars
  BY DEF SaveFails, FailWrite, TypeOK, AssetTypeOK
<1>5. AssetTypeOK'
  <2>1. /\ DOMAIN queue' = Tabs /\ DOMAIN save' = Tabs /\ DOMAIN insertion' = Tabs
        /\ \A u \in Tabs :
              /\ queue'[u] = None \/ queue'[u] \in Change
              /\ save'[u] = None \/ save'[u] \in Change
              /\ insertion'[u] = NoInsertion \/ insertion'[u] \in Insertion
    BY <1>1, <1>3, <1>4 DEF TypeOK, AssetTypeOK
  <2> QED BY <1>3, <2>1 DEF TypeOK, AssetTypeOK
<1>6. LeaseTypeOK' /\ \A u \in Tabs :
         /\ u # t \/ insertion[t].pc # "draining" => consumer'[u] = consumer[u]
         /\ consumer'[u].pc # "idle" => consumer'[u].effect \in Effects
  <2>1. CASE UNCHANGED leaseVars
    BY <2>1 DEF TypeOK, LeaseTypeOK, Placed, leaseVars
  <2>2. CASE Return(t, FALSE) /\ insertion[t].pc = "draining"
    <3>1. /\ consumer[t].pc = "applying" /\ consumer[t].effect \in Effects
          /\ consumer' = [consumer EXCEPT ![t].pc = "failing"]
          /\ UNCHANGED <<record, late, expiries>>
      BY <2>2 DEF Return, Placed
    <3> QED BY <2>2, <3>1 DEF TypeOK, LeaseTypeOK, Placed
  <2> QED BY <1>4, <2>1, <2>2
<1>7. Placed'
  <2>1. \A u \in Tabs \ {t} : /\ queue'[u] = queue[u] /\ save'[u] = save[u]
                              /\ insertion'[u] = insertion[u]
                              /\ save[u] = None /\ insertion[u].pc \notin {"draining", "drained"}
    BY <1>1, <1>3, <1>4 DEF Placed, TypeOK, AssetTypeOK
  <2>2. save'[t] = None
    BY <1>3 DEF TypeOK, AssetTypeOK
  <2>3. NoInsertion.pc = "none"
    BY DEF NoInsertion
  <2> QED BY <1>1, <1>4, <1>6, <2>1, <2>2, <2>3 DEF Placed
<1> QED BY <1>5, <1>6, <1>7 DEF TypeOK

LEMMA ReopenTypes ==
    ASSUME Types, NEW t \in Tabs, Reopen(t)
    PROVE  Types'
<1> USE DEF Types
<1>1. /\ memory' = [memory EXCEPT ![t] = disk.items]
      /\ observed' = [observed EXCEPT ![t] = Observe(disk)]
      /\ queue' = [queue EXCEPT ![t] = None] /\ save' = [save EXCEPT ![t] = None]
      /\ insertion' = [insertion EXCEPT ![t] = NoInsertion]
      /\ lock' = IF lock = t THEN None ELSE lock
      /\ consumer' = [consumer EXCEPT ![t] = AtRest]
      /\ failures' \in 0..MaxFailures
      /\ UNCHANGED <<disk, created, births, phantoms, edits, record, late, expiries>>
  BY AssetAssumption DEF Reopen, ReopenPage, Close, TypeOK, AssetTypeOK, history
<1>2. disk \in Document /\ disk.items \in Collection /\ Observe(disk) \in Version
  BY Typed, Observed
<1>3. AtRest \in [pc : {"idle", "waiting", "claimed", "applying", "applied", "failing", "done"},
                  effect : Effects \cup {None}, fence : 0..MaxClaims]
      /\ AtRest.pc = "idle" /\ NoInsertion.pc = "none"
  BY LeaseAssumption DEF AtRest, NoInsertion
<1>4. AssetTypeOK'
  BY <1>1, <1>2 DEF TypeOK, AssetTypeOK
<1>5. LeaseTypeOK'
  BY <1>1, <1>3 DEF TypeOK, LeaseTypeOK
<1>6. Placed'
  <2>1. \A u \in Tabs \ {t} : /\ queue'[u] = queue[u] /\ save'[u] = save[u]
                              /\ insertion'[u] = insertion[u] /\ consumer'[u] = consumer[u]
    BY <1>1 DEF TypeOK, AssetTypeOK, LeaseTypeOK
  <2>2. save'[t] = None /\ queue'[t] = None /\ insertion'[t] = NoInsertion
        /\ consumer'[t] = AtRest
    BY <1>1 DEF TypeOK, AssetTypeOK, LeaseTypeOK
  <2> QED BY <1>1, <1>3, <2>1, <2>2 DEF Placed
<1> QED BY <1>4, <1>5, <1>6 DEF TypeOK

-----------------------------------------------------------------------------
(* Every step is one of these.                                             *)
LEMMA Steps ==
    ASSUME Next
    PROVE  \/ \E t \in Tabs : EditLibrary(t)
           \/ \E t \in Tabs : /\ AcquireToSave(t) \/ AcquireToInsert(t)
                              /\ UNCHANGED leaseVars
           \/ \E t \in Tabs : TakeChange(t) /\ UNCHANGED leaseVars
           \/ \E t \in Tabs : WriteChange(t) /\ UNCHANGED leaseVars
           \/ /\ UNCHANGED assetVars
              /\ \/ \E t \in Tabs : Consume(t) \/ TakeUp(t)
                 \/ \E e \in Effects : ClaimExpires(e) \/ AbandonedExpires(e)
           \/ \E t \in Tabs : Insert(t)
           \/ \E t \in Tabs : Inserted(t) \/ NotInserted(t)
           \/ \E t \in Tabs : SaveFails(t)
           \/ \E t \in Tabs : Reopen(t)
<1>1. ASSUME NEW t \in Tabs, SaveLibrary(t)
      PROVE  /\ UNCHANGED leaseVars
             /\ AcquireToSave(t) \/ AcquireToInsert(t) \/ TakeChange(t) \/ WriteChange(t)
  BY <1>1 DEF SaveLibrary, Saving
<1>2. ASSUME NEW t \in Tabs, Consume(t) \/ TakeUp(t) PROVE UNCHANGED assetVars
  BY <1>2 DEF Consume, TakeUp
<1>3. ASSUME NEW e \in Effects, ClaimExpires(e) \/ AbandonedExpires(e)
      PROVE  UNCHANGED assetVars
  BY <1>3 DEF ClaimExpires, AbandonedExpires
<1> QED BY <1>1, <1>2, <1>3 DEF Next

LEMMA NextTypes ==
    ASSUME Types, \A e \in Effects : births[e] <= 1, [Next]_vars
    PROVE  Types'
<1>1. CASE UNCHANGED vars
  BY <1>1 DEF Types, TypeOK, AssetTypeOK, LeaseTypeOK, Placed, vars, assetVars, leaseVars,
              history
<1>2. CASE Next
  BY <1>2, Steps, EditTypes, AcquireTypes, TakeTypes, WriteTypes, ClaimTypes, BeginTypes,
     EndTypes, FailTypes, ReopenTypes
<1> QED BY <1>1, <1>2

LEMMA InitTypes ==
    ASSUME Init
    PROVE  Types /\ disk.items \in Collection
<1> DEFINE items == [i \in Ids |-> IF i \in Stored THEN NewEntity ELSE Absent]
           document == [items |-> items, tombstones |-> [i \in Ids |-> 0], revision |-> 0]
<1>1. items \in Collection
  BY NewAsset DEF Collection
<1>2. InitialDocument = document
  BY DEF InitialDocument, EmptyDocument
<1> HIDE DEF items
<1>3. document \in Document /\ document.items \in Collection
  BY <1>1 DEF Document
<1> HIDE DEF document
<1>4. disk \in Document /\ disk.items \in Collection /\ Observe(disk) \in Version
  BY <1>2, <1>3, Observed DEF Init, AssetInit
<1>5. /\ memory = [t \in Tabs |-> disk.items] /\ observed = [t \in Tabs |-> Observe(disk)]
      /\ queue = [t \in Tabs |-> None] /\ save = [t \in Tabs |-> None]
      /\ insertion = [t \in Tabs |-> NoInsertion] /\ lock = None
      /\ created = Stored /\ births = [e \in Effects |-> 0] /\ phantoms = {}
      /\ edits = 0 /\ failures = 0
  BY DEF Init, AssetInit
<1>6. AssetTypeOK
  BY <1>4, <1>5, AssetAssumption DEF AssetTypeOK
<1>7. LeaseTypeOK /\ consumer = [t \in Tabs |-> AtRest]
  BY LeaseAssumption DEF Init, LeaseInit, LeaseTypeOK, AtRest, NoClaim
<1>8. Placed
  BY <1>5, <1>7 DEF Placed, NoInsertion, AtRest
<1> QED BY <1>4, <1>6, <1>7, <1>8 DEF Types, TypeOK

-----------------------------------------------------------------------------
(* What moves.                                                             *)
LEMMA EditMoves ==
    ASSUME Types, NEW t \in Tabs, EditLibrary(t)
    PROVE  Moves(t)
<1> USE DEF Types
<1>1. PICK j \in Ids, entity \in Entity \cup {Absent}, rows \in SUBSET Rows :
         /\ Edit(t, j, entity, rows)
         /\ memory[t][j] = Absent => j \in created' \ created
         /\ created \subseteq created'
  BY EditsAreEdits DEF EditLibrary
<1> DEFINE assets == [memory[t] EXCEPT ![j] = entity]
<1>2. /\ assets \in Collection
      /\ \A i \in Ids : assets[i] # Absent => memory[t][i] # Absent \/ i = j
  BY Typed DEF Collection
<1> HIDE DEF assets
<1> DEFINE queued == Queued(t, assets, rows)
<1>3. /\ queued.assets = assets
      /\ queue[t] = None => queued.base = memory[t]
      /\ queue[t] # None => queued.base = queue[t].base
  BY <1>2, QueuedChange
<1>4. /\ memory' = [memory EXCEPT ![t] = assets]
      /\ queue' = [queue EXCEPT ![t] = queued]
      /\ UNCHANGED <<disk, observed, save, insertion, births, phantoms>>
  BY <1>1 DEF Edit, history, assets
<1> HIDE DEF queued
<1>5. memory'[t] = assets /\ queue'[t] = queued /\ Elsewhere(t)
  BY <1>4 DEF TypeOK, AssetTypeOK, Elsewhere
<1>6. \A i \in Ids : Shows(t, i)' => Shows(t, i) \/ i \in created' \ created
  <2> SUFFICES ASSUME NEW i \in Ids, Shows(t, i)', ~Shows(t, i)
               PROVE  i \in created' \ created
    OBVIOUS
  <2>1. memory[t][i] = Absent /\ ~Holding(queue[t], i)
    BY DEF Shows
  <2>2. assets[i] # Absent => i = j
    BY <1>2, <2>1
  <2>3. Holding(queued, i) => assets[i] # Absent
    BY <1>3, <2>1 DEF Holding
  <2>4. Shows(t, i)' => Shows(t, i) \/ assets[i] # Absent \/ Holding(queued, i)
    BY <1>4, <1>5 DEF Shows, Holding
  <2> QED BY <1>1, <2>1, <2>2, <2>3, <2>4
<1> QED BY <1>1, <1>4, <1>5, <1>6 DEF Moves, Kept

LEMMA AcquireMoves ==
    ASSUME Types, NEW t \in Tabs, AcquireToSave(t) \/ AcquireToInsert(t)
    PROVE  Moves(t)
<1> USE DEF Types
<1>1. UNCHANGED <<disk, memory, observed, queue, save, created, births, phantoms>>
  BY DEF AcquireToSave, AcquireToInsert, history
<1>2. /\ \A u \in Tabs \ {t} : insertion'[u] = insertion[u]
      /\ insertion'[t].base = insertion[t].base
      /\ insertion'[t].pc # "none" => insertion[t].pc # "none"
  <2>1. CASE AcquireToSave(t)
    BY <2>1 DEF AcquireToSave
  <2>2. CASE AcquireToInsert(t)
    <3>1. PICK pc \in {"draining", "drained"} : insertion' = [insertion EXCEPT ![t].pc = pc]
      BY <2>2 DEF AcquireToInsert
    <3>2. insertion[t].pc = "waiting"
      BY <2>2 DEF AcquireToInsert
    <3>3. insertion[t] \in Insertion
      BY <3>2, Typed DEF NoInsertion
    <3> QED BY <3>1, <3>2, <3>3 DEF TypeOK, AssetTypeOK, Insertion
  <2> QED BY <2>1, <2>2
<1> QED BY <1>1, <1>2 DEF Moves, Elsewhere, Kept, Shows, Holding

LEMMA TakeMoves ==
    ASSUME Types, NEW t \in Tabs, TakeChange(t)
    PROVE  /\ Moves(t) /\ save'[t] = queue[t] /\ queue[t] # None
           /\ queue'[t].base = queue[t].base /\ queue'[t].assets = queue[t].assets
           /\ queue'[t].taken = TRUE /\ queue'[t] # None
<1> USE DEF Types
<1> DEFINE row == [queue[t] EXCEPT !.taken = TRUE]
<1>1. queue[t] \in Change /\ queue[t] # None
  BY Typed DEF TakeChange
<1>2. row \in Change /\ row.base = queue[t].base /\ row.assets = queue[t].assets
      /\ row.taken = TRUE
  BY <1>1 DEF Change
<1>3. queue' = [queue EXCEPT ![t] = row]
  BY DEF TakeChange
<1> HIDE DEF row
<1>4. queue'[t] = row /\ save'[t] = queue[t] /\ Elsewhere(t)
  BY <1>3 DEF TakeChange, TypeOK, AssetTypeOK, Elsewhere
<1>5. UNCHANGED <<disk, memory, observed, insertion, created, births, phantoms>>
  BY DEF TakeChange, history
<1>6. row # None
  BY <1>2, ChangeParts
<1>7. \A i \in Ids : Shows(t, i)' => Shows(t, i)
  BY <1>1, <1>2, <1>4, <1>5, <1>6 DEF Shows, Holding
<1>8. Moves(t)
  BY <1>4, <1>5, <1>7 DEF Moves, Kept
<1> QED BY <1>1, <1>2, <1>4, <1>6, <1>8

LEMMA WriteMoves ==
    ASSUME Types, NEW t \in Tabs, WriteChange(t)
    PROVE  /\ Moves(t) /\ save[t] # None /\ save'[t] = None /\ UNCHANGED memory
           /\ queue[t].taken = TRUE => queue'[t] = None
           /\ queue[t].taken = FALSE =>
                 /\ queue'[t].base = save[t].assets /\ queue'[t].assets = queue[t].assets
                 /\ queue'[t].touched = queue[t].touched
<1> USE DEF Types
<1> DEFINE document == Rebase(disk, save[t].base, save[t].assets, save[t].baseRevision)
           row == Requeued(t, document)
<1>1. /\ save[t] # None /\ save[t] \in Change /\ queue[t] # None /\ queue[t] \in Change
  BY Typed DEF WriteChange, Placed
<1>2. /\ save[t].base \in Collection /\ save[t].assets \in Collection
      /\ save[t].baseRevision \in Nat /\ queue[t].taken \in BOOLEAN
  BY <1>1, ChangeParts
<1>3. /\ disk' = document /\ observed' = [observed EXCEPT ![t] = Observe(document)]
      /\ queue' = [queue EXCEPT ![t] = row]
      /\ save' = [save EXCEPT ![t] = None]
      /\ UNCHANGED <<memory, created, births, phantoms>>
  BY DEF WriteChange, history
<1>4. disk \in Document /\ disk.items \in Collection /\ disk.revision \in Nat
  BY Typed
<1>5. document \in Document
  BY <1>2, <1>4, RebasedDocument
<1>6. /\ queue[t].taken <=> row = None
      /\ row # None => /\ row.base = save[t].assets /\ row.assets = queue[t].assets
                       /\ row.touched = queue[t].touched
  BY <1>1, <1>5, RequeuedChange
<1>7. \A i \in Ids : Kept(i) \/ Removes(t, i) \/ Writes(t, i)
  <2> SUFFICES ASSUME NEW i \in Ids PROVE Kept(i) \/ Removes(t, i) \/ Writes(t, i)
    OBVIOUS
  <2> DEFINE base == save[t].base
             local == save[t].assets
             stored == ChangedBy(base, local, i)
                       /\ ~Refused(disk, base, save[t].baseRevision, i)
  <2>1. /\ document.items[i] =
             IF RemovedBy(base, local, i) THEN Absent
             ELSE IF ~stored THEN disk.items[i]
             ELSE IF disk.items[i] = Absent THEN local[i]
             ELSE MergeRecord(base[i], local[i], disk.items[i])
        /\ document.tombstones[i] =
             IF RemovedBy(base, local, i) THEN disk.revision + 1
             ELSE IF stored THEN 0 ELSE disk.tombstones[i]
    BY <1>2, <1>4, RebasedAsset
  <2>2. base[i] \in Entity \cup {Absent} /\ local[i] \in Entity \cup {Absent}
        /\ disk.items[i] \in Entity \cup {Absent}
    BY <1>2, <1>4 DEF Collection
  <2>3. local[i] # Absent /\ disk.items[i] # Absent =>
           MergeRecord(base[i], local[i], disk.items[i]) # Absent
    BY <2>2, MergedAsset, DistinctAssumption
  <2>4. CASE RemovedBy(base, local, i)
    BY <1>1, <1>3, <1>4, <2>1, <2>4 DEF Removes, RemovedBy
  <2>5. CASE ~RemovedBy(base, local, i) /\ stored
    BY <1>1, <1>3, <2>1, <2>3, <2>5 DEF Writes, ChangedBy, Refused
  <2>6. CASE ~RemovedBy(base, local, i) /\ ~stored
    BY <1>3, <2>1, <2>6 DEF Kept
  <2> QED BY <2>4, <2>5, <2>6
<1> HIDE DEF document, row
<1>8. observed'[t].items = disk'.items
  BY <1>3, <1>5, Observed DEF TypeOK, AssetTypeOK
<1>9. queue'[t] = row /\ save'[t] = None
  BY <1>3 DEF TypeOK, AssetTypeOK
<1>10. /\ \A u \in Tabs \ {t} : insertion'[u] = insertion[u]
       /\ insertion'[t].base = insertion[t].base
       /\ insertion'[t].pc # "none" => insertion[t].pc # "none"
  <2>1. CASE UNCHANGED insertion
    BY <2>1
  <2>2. CASE insertion[t].pc = "draining" /\ insertion' = [insertion EXCEPT ![t].pc = "drained"]
    <3>1. insertion[t] \in Insertion
      BY <2>2, Typed DEF NoInsertion
    <3> QED BY <2>2, <3>1 DEF TypeOK, AssetTypeOK, Insertion
  <2> QED BY <2>1, <2>2 DEF WriteChange
<1>11. Elsewhere(t)
  BY <1>3, <1>10 DEF Elsewhere, TypeOK, AssetTypeOK
<1>12. \A i \in Ids : Shows(t, i)' => Shows(t, i) \/ disk'.items[i] # Absent
  BY <1>1, <1>3, <1>6, <1>8, <1>9, <1>10 DEF Shows, Holding
<1>13. Moves(t)
  BY <1>3, <1>7, <1>11, <1>12 DEF Moves
<1> QED BY <1>1, <1>2, <1>3, <1>6, <1>9, <1>13

LEMMA BeginMoves ==
    ASSUME Types, NEW t \in Tabs, Insert(t)
    PROVE  Moves(t) /\ UNCHANGED <<disk, memory, queue, save, created, births, phantoms>>
<1> DEFINE row == [pc |-> "waiting", effect |-> consumer[t].effect, base |-> observed[t]]
<1>1. /\ insertion' = [insertion EXCEPT ![t] = row]
      /\ UNCHANGED <<disk, memory, observed, queue, save, created, births, phantoms>>
  BY DEF Insert, BeginInsertion, history
<1>2. row.base = observed[t]
  OBVIOUS
<1> HIDE DEF row
<1>3. insertion'[t] = row /\ \A u \in Tabs \ {t} : insertion'[u] = insertion[u]
  BY <1>1 DEF Types, TypeOK, AssetTypeOK
<1>4. \A i \in Ids : Shows(t, i)' => Shows(t, i)
  BY <1>1, <1>2, <1>3 DEF Shows, Holding
<1> QED BY <1>1, <1>3, <1>4 DEF Moves, Elsewhere, Kept

LEMMA EndMoves ==
    ASSUME Types, NEW t \in Tabs, Inserted(t) \/ NotInserted(t)
    PROVE  Moves(t) /\ UNCHANGED <<queue, save, created>>
<1> USE DEF Types
<1> DEFINE e == insertion[t].effect
<1>1. PICK ok \in BOOLEAN : ReadyToInsert(t) /\ EndInsertion(t) /\ Return(t, ok)
  BY Ending
<1>2. /\ lock = t /\ save[t] = None
      /\ insertion' = [insertion EXCEPT ![t] = NoInsertion]
      /\ UNCHANGED <<queue, save, created>>
  BY <1>1, Publication
<1>3. /\ e \in Effects
      /\ disk' \in Document /\ disk'.tombstones = disk.tombstones
      /\ observed' = [observed EXCEPT ![t] = Observe(disk')]
      /\ memory' = [memory EXCEPT ![t] = memory'[t]]
      /\ phantoms \subseteq phantoms'
      /\ \A i \in Ids : memory'[t][i] # Absent =>
            memory[t][i] # Absent \/ disk'.items[i] # Absent \/ i \in Effects \cap phantoms'
      /\ \/ UNCHANGED <<disk, births>>
         \/ /\ disk.items[e] = Absent /\ disk.tombstones[e] = 0
            /\ disk'.items = [disk.items EXCEPT ![e] = NewEntity]
            /\ births' = [births EXCEPT ![e] = @ + 1]
  BY Ending
<1> HIDE DEF e
<1>4. Elsewhere(t)
  BY <1>2, <1>3 DEF Elsewhere, TypeOK, AssetTypeOK
<1>5. observed'[t].items = disk'.items /\ insertion'[t].pc = "none"
  BY <1>2, <1>3, Observed DEF TypeOK, AssetTypeOK, NoInsertion
<1>6. \A i \in Ids : Shows(t, i)' =>
         Shows(t, i) \/ disk'.items[i] # Absent \/ i \in Effects \cap phantoms'
  BY <1>2, <1>3, <1>5 DEF Shows, Holding
<1>7. /\ \A i \in Ids : Kept(i) \/ Inserts(t, i)
      /\ \A f \in Effects : births'[f] = births[f] \/ Inserts(t, f)
  <2>1. CASE UNCHANGED <<disk, births>>
    BY <2>1 DEF Kept
  <2>2. CASE /\ disk.items[e] = Absent /\ disk.tombstones[e] = 0
             /\ disk'.items = [disk.items EXCEPT ![e] = NewEntity]
             /\ births' = [births EXCEPT ![e] = @ + 1]
    <3>1. \A i \in Ids \ {e} : Kept(i)
      BY <1>3, <2>2, Typed DEF Kept, Collection
    <3>2. \A f \in Effects \ {e} : births'[f] = births[f]
      BY <2>2 DEF TypeOK, AssetTypeOK
    <3>3. disk'.items[e] = NewEntity /\ births'[e] = births[e] + 1
      BY <1>3, <2>2, Typed, EffectIds DEF TypeOK, AssetTypeOK, Collection
    <3>4. Inserts(t, e)
      BY <1>2, <1>3, <2>2, <3>3, NewAsset DEF Inserts, e
    <3> QED BY <3>1, <3>2, <3>4
  <2> QED BY <1>3, <2>1, <2>2
<1> QED BY <1>2, <1>3, <1>4, <1>6, <1>7 DEF Moves

LEMMA FailMoves ==
    ASSUME Types, NEW t \in Tabs, SaveFails(t)
    PROVE  Moves(t) /\ save'[t] = None /\ UNCHANGED <<memory, created, phantoms>>
<1> USE DEF Types
<1>1. /\ save[t] # None
      /\ queue' = [queue EXCEPT ![t] = queue'[t]]
      /\ queue'[t].base = queue[t].base /\ queue'[t].assets = queue[t].assets
      /\ queue[t] # None
  BY FailedWrite, ChangeParts DEF SaveFails
<1>2. /\ save' = [save EXCEPT ![t] = None]
      /\ insertion' = [insertion EXCEPT ![t] = IF @.pc = "draining" THEN NoInsertion ELSE @]
      /\ UNCHANGED <<disk, memory, observed, created, births, phantoms>>
  BY DEF SaveFails, FailWrite, history
<1>3. /\ save'[t] = None /\ Elsewhere(t)
      /\ insertion'[t] = insertion[t] \/ insertion'[t].pc = "none"
  BY <1>1, <1>2 DEF Elsewhere, TypeOK, AssetTypeOK, NoInsertion
<1>4. \A i \in Ids : Shows(t, i)' => Shows(t, i)
  BY <1>1, <1>2, <1>3 DEF Shows, Holding
<1> QED BY <1>2, <1>3, <1>4 DEF Moves, Kept

LEMMA ReopenMoves ==
    ASSUME Types, NEW t \in Tabs, Reopen(t)
    PROVE  Moves(t) /\ save'[t] = None /\ queue'[t] = None
<1> USE DEF Types
<1>1. /\ memory' = [memory EXCEPT ![t] = disk.items]
      /\ observed' = [observed EXCEPT ![t] = Observe(disk)]
      /\ queue' = [queue EXCEPT ![t] = None] /\ save' = [save EXCEPT ![t] = None]
      /\ insertion' = [insertion EXCEPT ![t] = NoInsertion]
      /\ UNCHANGED <<disk, created, births, phantoms>>
  BY DEF Reopen, ReopenPage, history
<1>2. disk \in Document /\ NoInsertion.pc = "none"
  BY Typed DEF NoInsertion
<1>3. /\ memory'[t] = disk.items /\ observed'[t].items = disk.items
      /\ queue'[t] = None /\ save'[t] = None /\ insertion'[t].pc = "none" /\ Elsewhere(t)
  BY <1>1, <1>2, Observed DEF Elsewhere, TypeOK, AssetTypeOK
<1>4. \A i \in Ids : Shows(t, i)' => disk'.items[i] # Absent
  BY <1>1, <1>3 DEF Shows, Holding
<1> QED BY <1>1, <1>3, <1>4 DEF Moves, Kept

-----------------------------------------------------------------------------
(* What is stored or shown stays known, and what was inserted stays stored *)
(* or has a tombstone.                                                     *)
LEMMA MovesKeep ==
    ASSUME Types, NEW t \in Tabs, Moves(t),
           \A i \in Ids : Traced(i), \A e \in Effects : Born(e)
    PROVE  /\ \A e \in Effects : Made(e) => Made(e)'
           /\ \A i \in Ids : Traced(i)'
           /\ \A e \in Effects : Born(e)'
<1>1. ASSUME NEW e \in Effects, Inserts(t, e)
      PROVE  births[e] = 0 /\ births'[e] = 1
  <2>1. births[e] \in 0..2 /\ births[e] # 1 /\ births[e] <= 1
    BY <1>1 DEF Types, TypeOK, AssetTypeOK, Born, Inserts
  <2> QED BY <1>1, <2>1 DEF Inserts
<1>2. \A e \in Effects : Made(e) => Made(e)'
  BY <1>1 DEF Made, Moves
<1>3. \A i \in Ids : Known(i) => Known(i)'
  BY <1>2 DEF Known, Moves
<1>4. ASSUME NEW i \in Ids PROVE Traced(i)'
  <2>1. Kept(i) \/ Removes(t, i) \/ Writes(t, i) \/ Inserts(t, i)
    BY DEF Moves
  <2>2. disk'.items[i] # Absent => disk'.tombstones[i] = 0
    BY <2>1 DEF Kept, Removes, Writes, Inserts, Traced
  <2>3. Inserts(t, i) => Known(i)'
    BY <1>1 DEF Inserts, Known, Made
  <2>4. Removes(t, i) \/ Writes(t, i) => Shows(t, i)
    BY DEF Removes, Writes, Shows, Holding
  <2>5. disk'.items[i] # Absent \/ disk'.tombstones[i] # 0 => Known(i)'
    BY <1>3, <2>1, <2>3, <2>4 DEF Traced, Kept
  <2>6. i \in created' \/ i \in Effects \cap phantoms' => Known(i)'
    BY DEF Known, Made
  <2>7. Shows(t, i)' => Known(i)'
    BY <1>3, <2>5, <2>6 DEF Moves, Traced
  <2>8. ASSUME NEW u \in Tabs \ {t}, Shows(u, i)' PROVE Known(i)'
    <3>1. Shows(u, i)
      BY <2>8 DEF Moves, Elsewhere, Shows, Holding
    <3> QED BY <1>3, <3>1 DEF Traced
  <2> QED BY <2>2, <2>5, <2>7, <2>8 DEF Traced
<1>5. ASSUME NEW e \in Effects PROVE Born(e)'
  <2>1. Kept(e) \/ Removes(t, e) \/ Writes(t, e) \/ Inserts(t, e)
    BY EffectIds DEF Moves
  <2>2. births'[e] = births[e] \/ Inserts(t, e)
    BY DEF Moves
  <2>3. births'[e] <= 1
    BY <1>1, <2>2 DEF Born
  <2>4. births'[e] = 1 => disk'.items[e] # Absent \/ disk'.tombstones[e] # 0
    BY <2>1, <2>2 DEF Born, Kept, Removes, Writes, Inserts
  <2> QED BY <2>3, <2>4 DEF Born
<1> QED BY <1>2, <1>4, <1>5

LEMMA EarnedKept ==
    ASSUME Types, Next, \A e \in Effects : Earned(e),
           \A e \in Effects : Made(e) => Made(e)', \A i \in Ids : Traced(i)'
    PROVE  \A e \in Effects : Earned(e)'
<1> USE DEF Types
<1> DEFINE Applied(t, e) == consumer[t].pc = "applied" /\ consumer[t].effect = e
           Goal ==
              \A e \in Effects :
                 /\ record'[e].state = "completed" =>
                       record[e].state = "completed" \/ \E t \in Tabs : Applied(t, e)
                 /\ \A t \in Tabs : consumer'[t].pc = "applied" /\ consumer'[t].effect = e =>
                       Applied(t, e) \/ Made(e)'
<1>1. SUFFICES Goal
  BY DEF Earned
<1>2. /\ record \in [Effects -> [state : {"none", "pending", "completed", "released"},
                                 fence : 0..MaxClaims, holder : Tabs \cup {None}]]
      /\ consumer \in [Tabs -> [pc : {"idle", "waiting", "claimed", "applying", "applied",
                                      "failing", "done"},
                                effect : Effects \cup {None}, fence : 0..MaxClaims]]
  BY DEF TypeOK, LeaseTypeOK
<1>3. ASSUME UNCHANGED <<record, consumer>> PROVE Goal
  BY <1>3
<1>4. ASSUME NEW t \in Tabs, EditLibrary(t) PROVE Goal
  BY <1>3, <1>4 DEF EditLibrary, leaseVars
<1>5. ASSUME NEW t \in Tabs, Consume(t) PROVE Goal
  <2>1. CASE FindCompleted(t) \/ GiveUp(t)
    BY <1>2, <2>1 DEF FindCompleted, GiveUp
  <2>2. CASE Claim(t)
    BY <1>2, <2>2 DEF Claim
  <2>3. CASE Complete(t)
    BY <1>2, <2>3 DEF Complete
  <2>4. CASE Release(t)
    <3>1. AtRest.pc = "idle"
      BY DEF AtRest
    <3>2. /\ consumer' = [consumer EXCEPT ![t] = AtRest]
          /\ \A e \in Effects : record'[e].state = "completed" => record[e].state = "completed"
      BY <1>2, <2>4 DEF Release
    <3> QED BY <1>2, <3>1, <3>2
  <2> QED BY <1>5, <2>1, <2>2, <2>3, <2>4 DEF Consume
<1>6. ASSUME NEW t \in Tabs, TakeUp(t) PROVE Goal
  <2>1. PICK e \in Effects : Start(t, e)
    BY <1>6 DEF TakeUp
  <2> DEFINE row == [AtRest EXCEPT !.pc = "waiting", !.effect = e]
  <2>2. row.pc = "waiting"
    BY DEF AtRest
  <2>3. consumer' = [consumer EXCEPT ![t] = row] /\ UNCHANGED record
    BY <2>1 DEF Start
  <2> HIDE DEF row
  <2> QED BY <1>2, <2>2, <2>3
<1>7. ASSUME NEW e \in Effects, ClaimExpires(e) \/ AbandonedExpires(e) PROVE Goal
  BY <1>3, <1>7 DEF ClaimExpires, AbandonedExpires, Expire, ExpireAbandoned
<1>8. ASSUME NEW t \in Tabs, Insert(t) PROVE Goal
  BY <1>2, <1>8 DEF Insert, Apply
<1>9. ASSUME NEW t \in Tabs, Inserted(t) \/ NotInserted(t) PROVE Goal
  <2>1. PICK ok \in BOOLEAN : /\ ReadyToInsert(t) /\ EndInsertion(t) /\ Return(t, ok)
                              /\ ok => disk'.items[insertion[t].effect] # Absent
    BY <1>9, Ending
  <2>2. /\ insertion[t].effect \in Effects /\ consumer[t].effect = insertion[t].effect
        /\ \A u \in Tabs \ {t} : consumer'[u] = consumer[u]
        /\ consumer'[t].effect = consumer[t].effect
        /\ consumer'[t].pc = IF ok THEN "applied" ELSE "failing"
        /\ UNCHANGED record
    BY <2>1, Publication
  <2>3. ASSUME NEW e \in Effects, disk'.items[e] # Absent PROVE Made(e)'
    <3>1. e \in Ids /\ e \notin created'
      BY <1>9, EndMoves, EffectIds DEF TypeOK, AssetTypeOK
    <3>2. Known(e)'
      BY <2>3, <3>1 DEF Traced
    <3> QED BY <3>1, <3>2 DEF Known, Made
  <2> QED BY <2>1, <2>2, <2>3
<1>10. ASSUME NEW t \in Tabs, SaveFails(t) PROVE Goal
  BY <1>2, <1>10 DEF SaveFails, Return, leaseVars
<1>11. ASSUME NEW t \in Tabs, Reopen(t) PROVE Goal
  <2>1. AtRest.pc = "idle"
    BY DEF AtRest
  <2>2. consumer' = [consumer EXCEPT ![t] = AtRest] /\ UNCHANGED record
    BY <1>11 DEF Reopen, Close
  <2> QED BY <1>2, <2>1, <2>2
<1>12. ASSUME UNCHANGED leaseVars PROVE Goal
  BY <1>3, <1>12 DEF leaseVars
<1> HIDE DEF Goal
<1> QED BY <1>4, <1>5, <1>6, <1>7, <1>8, <1>9, <1>10, <1>11, <1>12, Steps

-----------------------------------------------------------------------------
(* What people touched covers what is queued and saved.                    *)

(* A newer snapshot of a page is covered when the one before it was: what  *)
(* the page came to show between them is Unqueued, and an asset that is    *)
(* added has a new id.                                                     *)
LEMMA EditCovers ==
    ASSUME TypeOK, NEW t \in Tabs, queue[t] \in Change,
           NEW j \in Ids, NEW assets \in Collection,
           \A i \in Ids \ {j} : assets[i] = memory[t][i],
           NEW before \in Collection, NEW touched, NEW after,
           before[j] # Absent => memory[t][j] # Absent \/ assets[j] = Absent,
           (memory[t][j] = Absent) # (assets[j] = Absent) => <<j, "row">> \in after,
           memory[t][j] # Absent /\ assets[j] # Absent =>
               \A f \in Fields : assets[j][f] # memory[t][j][f] => <<j, f>> \in after,
           Covered(before, queue[t].assets, touched),
           touched \subseteq after, Unqueued(t) \subseteq after
    PROVE  Covered(before, assets, after)
<1> DEFINE was == queue[t].assets
           now == memory[t]
<1>1. now \in Collection /\ was \in Collection
  BY Typed, ChangeParts
<1>2. \A i \in Ids \ {j} : assets[i] = now[i]
  OBVIOUS
<1>3. ASSUME NEW i \in Ids
      PROVE  /\ (was[i] = Absent) # (now[i] = Absent) => <<i, "row">> \in after
             /\ \A f \in Fields : Field(was[i], f) # Field(now[i], f) => <<i, f>> \in after
  <2>1. /\ (was[i] = Absent) # (now[i] = Absent) => <<i, "row">> \in Unqueued(t)
        /\ \A f \in Fields : Field(was[i], f) # Field(now[i], f) => <<i, f>> \in Unqueued(t)
    BY UnqueuedRows
  <2> QED BY <2>1
<1>4. ASSUME NEW i \in Ids, NEW f \in Fields
      PROVE  /\ was[i] = Absent /\ now[i] # Absent => <<i, f>> \in after
             /\ was[i] # Absent /\ now[i] # Absent /\ was[i][f] # now[i][f] => <<i, f>> \in after
  <2>1. Field(was[i], f) # Field(now[i], f) => <<i, f>> \in after
    BY <1>3
  <2>2. now[i] \in Entity \cup {Absent} /\ Absent \notin Values
    BY <1>1, AssetAssumption DEF Collection
  <2> QED BY <2>1, <2>2 DEF Field, Entity
<1> HIDE DEF was, now
<1>6. ASSUME NEW i \in Ids, (before[i] = Absent) # (assets[i] = Absent)
      PROVE  <<i, "row">> \in after
  <2>1. (before[i] = Absent) # (was[i] = Absent) => <<i, "row">> \in after
    BY DEF Covered, was
  <2>2. (now[i] = Absent) # (assets[i] = Absent) => <<i, "row">> \in after
    BY <1>2 DEF now
  <2> QED BY <1>3, <1>6, <2>1, <2>2
<1>7. ASSUME NEW i \in Ids, before[i] # Absent, assets[i] # Absent,
             NEW f \in Fields, before[i][f] # assets[i][f]
      PROVE  <<i, f>> \in after
  <2>1. now[i] # Absent
    BY <1>2, <1>7 DEF now
  <2>2. CASE was[i] = Absent
    BY <1>4, <2>1, <2>2
  <2>3. CASE was[i] # Absent
    <3>1. before[i][f] # was[i][f] => <<i, f>> \in after
      BY <1>7, <2>3 DEF Covered, was
    <3>2. was[i][f] # now[i][f] => <<i, f>> \in after
      BY <1>4, <2>1, <2>3
    <3>3. now[i][f] # assets[i][f] => <<i, f>> \in after
      BY <1>2, <1>7, <2>1 DEF now
    <3> QED BY <1>7, <3>1, <3>2, <3>3
  <2> QED BY <2>2, <2>3
<1>8. Covered(before, assets, after)
  <2>1. \A i \in Ids : (before[i] = Absent) # (assets[i] = Absent) => <<i, "row">> \in after
    BY <1>6
  <2>2. \A i \in Ids : before[i] # Absent /\ assets[i] # Absent =>
           \A f \in Fields : before[i][f] # assets[i][f] => <<i, f>> \in after
    BY <1>7
  <2> QED BY <2>1, <2>2, Zenon DEF Covered
<1> QED BY <1>8

LEMMA EditTouches ==
    ASSUME Types, NEW t \in Tabs, EditLibrary(t), Touched(t), \A i \in Ids : Traced(i)
    PROVE  Touched(t)'
<1> USE DEF Types
<1>1. PICK j \in Ids, entity \in Entity \cup {Absent}, rows \in SUBSET Rows :
         /\ Edit(t, j, entity, rows)
         /\ \/ j \in Assets \ created /\ rows = {<<j, "row">>}
            \/ /\ memory[t][j] # Absent
               /\ \/ entity = Absent /\ rows = {<<j, "row">>}
                  \/ /\ entity # Absent
                     /\ \A f \in Fields : entity[f] # memory[t][j][f] => <<j, f>> \in rows
  BY EditsAreEdits DEF EditLibrary
<1> DEFINE assets == [memory[t] EXCEPT ![j] = entity]
           queued == Queued(t, assets, rows)
<1>2. /\ memory[t] \in Collection /\ assets \in Collection
      /\ assets[j] = entity /\ \A i \in Ids \ {j} : assets[i] = memory[t][i]
  BY Typed DEF Collection
<1>3. /\ queue' = [queue EXCEPT ![t] = queued] /\ UNCHANGED save
  BY <1>1 DEF Edit
<1>4. queue'[t] = queued
  BY <1>3 DEF TypeOK, AssetTypeOK
<1>5. /\ memory[t][j] = Absent => ~Shows(t, j)
      /\ (memory[t][j] = Absent) # (assets[j] = Absent) => <<j, "row">> \in rows
      /\ memory[t][j] # Absent /\ assets[j] # Absent =>
            \A f \in Fields : assets[j][f] # memory[t][j][f] => <<j, f>> \in rows
  <2>1. j \in Assets \ created => ~Shows(t, j) /\ memory[t][j] = Absent
    BY EffectIds DEF Traced, Known, Shows
  <2> QED BY <1>1, <1>2, <2>1
<1> HIDE DEF assets
<1>6. /\ queued.assets = assets /\ queued # None /\ queued.taken = FALSE
      /\ rows \subseteq queued.touched
      /\ queue[t] = None => queued.base = memory[t]
      /\ queue[t] # None =>
            /\ queued.base = queue[t].base
            /\ Unqueued(t) \subseteq queued.touched
            /\ queue[t].taken = FALSE => queue[t].touched \subseteq queued.touched
  BY <1>2, QueuedChange
<1> HIDE DEF queued
<1>7. ASSUME queue[t] # None, NEW before \in Collection, NEW touched,
             Covered(before, queue[t].assets, touched), touched \subseteq queued.touched,
             before[j] # Absent => Shows(t, j)
      PROVE  Covered(before, assets, queued.touched)
  <2>1. queue[t] \in Change
    BY <1>7, Typed
  <2>2. before[j] # Absent => memory[t][j] # Absent
    BY <1>5, <1>7
  <2> QED BY <1>2, <1>5, <1>6, <1>7, <2>1, <2>2, EditCovers
<1>8. ASSUME queue[t] # None, NEW i \in Ids, queue[t].assets[i] = Absent, assets[i] # Absent,
             Shows(t, i), NEW f \in Fields
      PROVE  <<i, f>> \in queued.touched
  <2>1. queue[t] \in Change
    BY <1>8, Typed
  <2>2. memory[t][i] # Absent
    BY <1>2, <1>5, <1>8
  <2>3. memory[t][i] \in Entity
    BY <1>2, <2>2 DEF Collection
  <2>4. Field(queue[t].assets[i], f) # Field(memory[t][i], f)
    BY <1>8, <2>2, <2>3, AssetAssumption DEF Field, Entity
  <2>5. <<i, f>> \in Unqueued(t)
    BY <2>4, UnqueuedRows
  <2> QED BY <1>6, <1>8, <2>5
<1>9. CASE queue[t] = None
  <2>1. save[t] = None
    BY <1>9 DEF Placed
  <2>2. Covered(memory[t], assets, queued.touched)
    <3>1. \A i \in Ids : (memory[t][i] = Absent) # (assets[i] = Absent)
                            => <<i, "row">> \in queued.touched
      BY <1>2, <1>5, <1>6
    <3>2. \A i \in Ids : memory[t][i] # Absent /\ assets[i] # Absent =>
             \A f \in Fields : memory[t][i][f] # assets[i][f] => <<i, f>> \in queued.touched
      BY <1>2, <1>5, <1>6
    <3> QED BY <3>1, <3>2, Zenon DEF Covered
  <2> QED BY <1>3, <1>4, <1>6, <1>9, <2>1, <2>2 DEF Touched
<1>10. CASE queue[t] # None /\ save[t] = None
  <2>1. queue[t] \in Change /\ queue[t].taken = FALSE
    BY <1>10, Typed, ChangeParts DEF Placed
  <2>2. queue[t].base \in Collection /\ Covered(queue[t].base, queue[t].assets, queue[t].touched)
    BY <1>10, <2>1, ChangeParts DEF Touched
  <2>3. queue[t].base[j] # Absent => Shows(t, j)
    BY <1>10 DEF Shows, Holding
  <2>4. Covered(queue[t].base, assets, queued.touched)
    BY <1>6, <1>7, <1>10, <2>1, <2>2, <2>3
  <2> QED BY <1>3, <1>4, <1>6, <1>10, <2>4 DEF Touched
<1>11. CASE save[t] # None
  <2>1. queue[t] # None /\ queue[t] \in Change /\ save[t] \in Change
    BY <1>11, Typed DEF Placed
  <2>2. /\ save[t].assets \in Collection /\ queue[t].assets \in Collection
        /\ queue[t].taken \in BOOLEAN
    BY <2>1, ChangeParts
  <2>3. /\ Covered(save[t].base, save[t].assets, save[t].touched)
        /\ queue[t].base = save[t].base
    BY <1>11 DEF Touched
  <2>4. \A i \in Ids : save[t].base[i] # Absent \/ save[t].assets[i] # Absent => Shows(t, i)
    BY <1>11 DEF Shows, Holding
  <2>5. CASE queue[t].taken
    <3>1. queue[t].assets = save[t].assets
      BY <1>11, <2>5 DEF Touched
    <3>2. Covered(save[t].assets, queue[t].assets, {})
      BY <3>1 DEF Covered
    <3>3. Covered(save[t].assets, assets, queued.touched)
      BY <1>7, <2>1, <2>2, <2>4, <3>2
    <3>4. Restored(save[t].base, save[t].assets, assets, queued.touched)
      BY <1>8, <2>1, <2>4, <3>1 DEF Restored
    <3> QED BY <1>3, <1>4, <1>6, <1>11, <2>1, <2>3, <3>3, <3>4 DEF Touched
  <2>6. CASE queue[t].taken = FALSE
    <3>1. /\ Covered(save[t].assets, queue[t].assets, queue[t].touched)
          /\ Restored(save[t].base, save[t].assets, queue[t].assets, queue[t].touched)
      BY <1>11, <2>6 DEF Touched
    <3>2. queue[t].touched \subseteq queued.touched
      BY <1>6, <2>1, <2>6
    <3>3. Covered(save[t].assets, assets, queued.touched)
      BY <1>7, <2>1, <2>2, <2>4, <3>1, <3>2
    <3>4. Restored(save[t].base, save[t].assets, assets, queued.touched)
      BY <1>8, <2>1, <2>4, <3>1, <3>2 DEF Restored
    <3> QED BY <1>3, <1>4, <1>6, <1>11, <2>1, <2>3, <3>3, <3>4 DEF Touched
  <2> QED BY <2>2, <2>5, <2>6
<1> QED BY <1>9, <1>10, <1>11

LEMMA CoveredByMore ==
    ASSUME NEW before, NEW after, NEW touched, NEW more, Covered(before, after, touched),
           touched \subseteq more
    PROVE  Covered(before, after, more)
<1>1. \A i \in Ids : (before[i] = Absent) # (after[i] = Absent) => <<i, "row">> \in more
  BY DEF Covered
<1>2. \A i \in Ids : before[i] # Absent /\ after[i] # Absent =>
         \A f \in Fields : before[i][f] # after[i][f] => <<i, f>> \in more
  BY DEF Covered
<1> QED BY <1>1, <1>2, Zenon DEF Covered

LEMMA FailTouches ==
    ASSUME Types, NEW t \in Tabs, SaveFails(t), Touched(t)
    PROVE  Touched(t)'
<1> DEFINE touched == queue[t].touched \cup save[t].touched
<1>1. /\ save[t] # None
      /\ queue'[t].base = queue[t].base /\ queue'[t].assets = queue[t].assets
      /\ queue'[t].touched = touched /\ queue[t].taken \in BOOLEAN
  BY FailedWrite, ChangeParts DEF SaveFails
<1>2. save'[t] = None
  BY FailMoves
<1>3. /\ Covered(save[t].base, save[t].assets, save[t].touched)
      /\ queue[t].base = save[t].base
      /\ queue[t].taken => queue[t].assets = save[t].assets
      /\ queue[t].taken = FALSE =>
            /\ Covered(save[t].assets, queue[t].assets, queue[t].touched)
            /\ Restored(save[t].base, save[t].assets, queue[t].assets, queue[t].touched)
  BY <1>1 DEF Touched
<1> DEFINE before == save[t].base
           mid == save[t].assets
           after == queue[t].assets
<1>4. Covered(before, after, touched)
  <2>1. CASE queue[t].taken
    BY <1>3, <2>1, CoveredByMore
  <2>2. CASE queue[t].taken = FALSE
    <3> HIDE DEF before, mid, after
    <3>1. ASSUME NEW i \in Ids, (before[i] = Absent) # (after[i] = Absent)
          PROVE  <<i, "row">> \in touched
      <4>1. (before[i] = Absent) # (mid[i] = Absent) => <<i, "row">> \in touched
        BY <1>3 DEF Covered, before, mid
      <4>2. (mid[i] = Absent) # (after[i] = Absent) => <<i, "row">> \in touched
        BY <1>3, <2>2 DEF Covered, mid, after
      <4> QED BY <3>1, <4>1, <4>2
    <3>2. ASSUME NEW i \in Ids, before[i] # Absent, after[i] # Absent,
                 NEW f \in Fields, before[i][f] # after[i][f]
          PROVE  <<i, f>> \in touched
      <4>1. CASE mid[i] = Absent
        BY <1>3, <2>2, <3>2, <4>1 DEF Restored, before, mid, after
      <4>2. CASE mid[i] # Absent
        <5>1. before[i][f] # mid[i][f] => <<i, f>> \in touched
          BY <1>3, <3>2, <4>2 DEF Covered, before, mid
        <5>2. mid[i][f] # after[i][f] => <<i, f>> \in touched
          BY <1>3, <2>2, <3>2, <4>2 DEF Covered, mid, after
        <5> QED BY <3>2, <5>1, <5>2
      <4> QED BY <4>1, <4>2
    <3>3. \A i \in Ids : (before[i] = Absent) # (after[i] = Absent) => <<i, "row">> \in touched
      BY <3>1
    <3>4. \A i \in Ids : before[i] # Absent /\ after[i] # Absent =>
             \A f \in Fields : before[i][f] # after[i][f] => <<i, f>> \in touched
      BY <3>2
    <3> QED BY <3>3, <3>4, Zenon DEF Covered
  <2> QED BY <1>1, <2>1, <2>2
<1> QED BY <1>1, <1>2, <1>3, <1>4 DEF Touched

LEMMA TouchedKept ==
    ASSUME Types, [Next]_vars, NEW t \in Tabs, Touched(t), \A i \in Ids : Traced(i)
    PROVE  Touched(t)'
<1>1. ASSUME queue'[t] = queue[t], save'[t] = save[t] PROVE Touched(t)'
  BY <1>1 DEF Touched
<1>2. ASSUME NEW u \in Tabs \ {t}, Elsewhere(u) PROVE Touched(t)'
  BY <1>1, <1>2 DEF Elsewhere
<1>3. CASE UNCHANGED vars
  BY <1>1, <1>3 DEF vars, assetVars
<1>4. ASSUME NEW u \in Tabs, EditLibrary(u) PROVE Touched(t)'
  BY <1>2, <1>4, EditMoves, EditTouches DEF Moves
<1>5. ASSUME NEW u \in Tabs, AcquireToSave(u) \/ AcquireToInsert(u) PROVE Touched(t)'
  BY <1>1, <1>5 DEF AcquireToSave, AcquireToInsert
<1>6. ASSUME NEW u \in Tabs, TakeChange(u) PROVE Touched(t)'
  <2>1. CASE u = t
    <3>1. /\ save'[t] = queue[t] /\ queue[t] # None
          /\ queue'[t].base = queue[t].base /\ queue'[t].assets = queue[t].assets
          /\ queue'[t].taken = TRUE /\ queue'[t] # None
      BY <1>6, <2>1, TakeMoves
    <3>2. save[t] = None
      BY <1>6, <2>1 DEF TakeChange
    <3> QED BY <3>1, <3>2 DEF Touched
  <2> QED BY <1>2, <1>6, <2>1, TakeMoves DEF Moves
<1>7. ASSUME NEW u \in Tabs, WriteChange(u) PROVE Touched(t)'
  <2>1. CASE u = t
    <3>1. queue[t] \in Change
      BY <1>7, <2>1, Typed DEF WriteChange, Types, Placed
    <3>2. queue[t].taken \in BOOLEAN
      BY <3>1, ChangeParts
    <3>3. /\ save[t] # None /\ save'[t] = None
          /\ queue[t].taken = TRUE => queue'[t] = None
          /\ queue[t].taken = FALSE =>
                 /\ queue'[t].base = save[t].assets /\ queue'[t].assets = queue[t].assets
                 /\ queue'[t].touched = queue[t].touched
      BY <1>7, <2>1, WriteMoves
    <3> QED BY <3>2, <3>3 DEF Touched
  <2> QED BY <1>2, <1>7, <2>1, WriteMoves DEF Moves
<1>8. ASSUME UNCHANGED assetVars PROVE Touched(t)'
  BY <1>1, <1>8 DEF assetVars
<1>9. ASSUME NEW u \in Tabs, Insert(u) PROVE Touched(t)'
  BY <1>1, <1>9, BeginMoves
<1>10. ASSUME NEW u \in Tabs, Inserted(u) \/ NotInserted(u) PROVE Touched(t)'
  BY <1>1, <1>10, EndMoves
<1>11. ASSUME NEW u \in Tabs, SaveFails(u) PROVE Touched(t)'
  BY <1>2, <1>11, FailMoves, FailTouches DEF Moves
<1>12. ASSUME NEW u \in Tabs, Reopen(u) PROVE Touched(t)'
  <2>1. CASE u = t
    BY <1>12, <2>1, ReopenMoves DEF Touched
  <2> QED BY <1>2, <1>12, <2>1, ReopenMoves DEF Moves
<1> QED BY <1>3, <1>4, <1>5, <1>6, <1>7, <1>8, <1>9, <1>10, <1>11, <1>12, Steps

-----------------------------------------------------------------------------
(* Nobody knows of an asset that a page is about to add.                   *)
LEMMA FreshKept ==
    ASSUME NEW t \in Tabs, NEW w \in Tabs, NEW i \in Ids, Moves(w),
           \A k \in Ids : Traced(k), Shows(t, i), Fresh(t, i), w = t => Kept(i)
    PROVE  Fresh(t, i)'
<1>1. i \in Assets /\ i \in created /\ i \notin Effects
  BY EffectIds DEF Traced, Known, Fresh
<1>2. Kept(i)
  <2>1. CASE w # t
    <3>1. ~Shows(w, i)
      BY <2>1 DEF Fresh
    <3>2. ~Removes(w, i) /\ ~Writes(w, i)
      BY <3>1 DEF Removes, Writes, Shows, Holding
    <3> QED BY <1>1, <3>2 DEF Moves, Inserts
  <2> QED BY <2>1
<1>3. disk'.items[i] = Absent /\ disk'.tombstones[i] = 0
  BY <1>2 DEF Kept, Fresh
<1>4. ASSUME NEW u \in Tabs \ {t}, Shows(u, i)' PROVE FALSE
  <2>1. CASE u = w
    BY <1>1, <1>3, <1>4, <2>1 DEF Moves, Fresh
  <2>2. CASE u # w
    <3>1. Shows(u, i)
      BY <1>4, <2>2 DEF Moves, Elsewhere, Shows, Holding
    <3> QED BY <3>1 DEF Fresh
  <2> QED BY <2>1, <2>2
<1> QED BY <1>1, <1>3, <1>4 DEF Fresh

(* A new id.                                                               *)
LEMMA NewIsFresh ==
    ASSUME NEW t \in Tabs, NEW i \in Assets \ created, \A k \in Ids : Traced(k)
    PROVE  Fresh(t, i) /\ \A u \in Tabs : ~Shows(u, i)
<1>1. i \in Ids /\ ~Known(i)
  BY EffectIds DEF Known, Ids
<1>2. disk.items[i] = Absent /\ disk.tombstones[i] = 0 /\ \A u \in Tabs : ~Shows(u, i)
  BY <1>1 DEF Traced
<1> QED BY <1>2 DEF Fresh

LEMMA AddingShows ==
    ASSUME NEW t \in Tabs, NEW i \in Ids, Adds(queue[t], i) \/ Adds(save[t], i)
    PROVE  Shows(t, i)
BY DEF Adds, Shows, Holding

LEMMA EditAdds ==
    ASSUME Types, NEW t \in Tabs, EditLibrary(t), NEW i \in Ids, Adding(t, i),
           \A k \in Ids : Traced(k)
    PROVE  Adding(t, i)'
<1> USE DEF Types
<1>1. PICK j \in Ids, entity \in Entity \cup {Absent}, rows \in SUBSET Rows :
         /\ Edit(t, j, entity, rows)
         /\ j \in Assets \ created \/ memory[t][j] # Absent
  BY EditsAreEdits DEF EditLibrary
<1> DEFINE assets == [memory[t] EXCEPT ![j] = entity]
           queued == Queued(t, assets, rows)
<1>2. /\ assets \in Collection
      /\ assets[i] # Absent => memory[t][i] # Absent \/ (i = j /\ memory[t][j] = Absent)
  BY Typed DEF Collection
<1>3. /\ queue' = [queue EXCEPT ![t] = queued] /\ memory' = [memory EXCEPT ![t] = assets]
      /\ UNCHANGED <<save, disk>>
  BY <1>1 DEF Edit
<1>4. queue'[t] = queued /\ memory'[t] = assets /\ save'[t] = save[t]
  BY <1>3 DEF TypeOK, AssetTypeOK
<1> HIDE DEF assets
<1>5. /\ queued.assets = assets /\ queued # None
      /\ queue[t] = None => queued.base = memory[t]
      /\ queue[t] # None => queued.base = queue[t].base
  BY <1>2, QueuedChange
<1> HIDE DEF queued
<1>6. Fresh(t, i) => Fresh(t, i)' /\ Kept(i)
  <2>1. /\ \A u \in Tabs \ {t} : Shows(u, i)' => Shows(u, i)
        /\ Kept(i)
    BY <1>3, EditMoves DEF Moves, Elsewhere, Shows, Holding, Kept
  <2> QED BY <2>1 DEF Fresh, Kept
<1>7. i = j /\ memory[t][j] = Absent => Fresh(t, i) /\ ~Shows(t, i)
  BY <1>1, NewIsFresh
<1>8. assets[i] # Absent => (Fresh(t, i) /\ ~Shows(t, i)) \/ memory[t][i] # Absent
  BY <1>2, <1>7
<1>9. Adds(queued, i) => Fresh(t, i)
  BY <1>5, <1>8 DEF Adds, Adding, Shows, Holding
<1>10. Adds(queue'[t], i) \/ Adds(save'[t], i) => Fresh(t, i)'
  BY <1>4, <1>6, <1>9 DEF Adding
<1>11. save[t] # None /\ save[t].assets[i] = Absent /\ assets[i] # Absent =>
          save[t].base[i] = Absent
  <2>1. CASE memory[t][i] # Absent
    BY <2>1 DEF Adding, Placed
  <2>2. CASE memory[t][i] = Absent
    BY <1>8, <2>2 DEF Shows, Holding
  <2> QED BY <2>1, <2>2
<1> QED BY <1>4, <1>5, <1>10, <1>11 DEF Adding, Adds

LEMMA WriteAdds ==
    ASSUME Types, NEW t \in Tabs, WriteChange(t), NEW i \in Ids, Adding(t, i), Touched(t),
           \A k \in Ids : Traced(k)
    PROVE  Adding(t, i)'
<1>1. queue[t] \in Change
  BY Typed DEF WriteChange, Types, Placed
<1>2. queue[t].taken \in BOOLEAN /\ queue[t] # None
  BY <1>1, ChangeParts
<1>3. /\ Moves(t) /\ save[t] # None /\ save'[t] = None /\ UNCHANGED memory
      /\ queue[t].taken = TRUE => queue'[t] = None
      /\ queue[t].taken = FALSE =>
            queue'[t].base = save[t].assets /\ queue'[t].assets = queue[t].assets
      /\ queue[t].base = save[t].base
  BY WriteMoves DEF Touched
<1>4. CASE queue[t].taken = TRUE
  BY <1>3, <1>4 DEF Adding, Adds
<1>5. CASE queue[t].taken = FALSE
  <2>1. ASSUME Adds(queue'[t], i) PROVE Fresh(t, i)'
    <3>1. save[t].assets[i] = Absent /\ queue[t].assets[i] # Absent
      BY <1>3, <1>5, <2>1 DEF Adds
    <3>2. save[t].base[i] = Absent
      BY <1>3, <3>1 DEF Adding
    <3>3. Adds(queue[t], i)
      BY <1>2, <1>3, <3>1, <3>2 DEF Adds
    <3>4. ~Removes(t, i) /\ ~Writes(t, i) /\ ~Inserts(t, i)
      BY <1>3, <3>1, <3>2 DEF Removes, Writes, Inserts
    <3> QED BY <1>3, <3>3, <3>4, AddingShows, FreshKept DEF Moves, Adding
  <2> QED BY <1>2, <1>3, <1>5, <2>1 DEF Adding, Adds
<1> QED BY <1>2, <1>4, <1>5

LEMMA AddingElsewhere ==
    ASSUME NEW t \in Tabs, NEW w \in Tabs \ {t}, NEW i \in Ids, Moves(w), Adding(t, i),
           \A k \in Ids : Traced(k)
    PROVE  Adding(t, i)'
<1>1. queue'[t] = queue[t] /\ save'[t] = save[t] /\ memory'[t] = memory[t]
  BY DEF Moves, Elsewhere
<1>2. Adds(queue[t], i) \/ Adds(save[t], i) => Fresh(t, i)'
  BY AddingShows, FreshKept DEF Adding
<1> QED BY <1>1, <1>2 DEF Adding, Adds

(* The page that acts has no save afterwards, or queues no newer change.   *)
LEMMA OwnAdds ==
    ASSUME Types, NEW t \in Tabs, NEW i \in Ids \ phantoms', Adding(t, i),
           \A k \in Ids : Traced(k),
           \/ TakeChange(t) \/ SaveFails(t) \/ Reopen(t) \/ Insert(t)
           \/ Inserted(t) \/ NotInserted(t)
    PROVE  Adding(t, i)'
<1>1. ASSUME Moves(t), Kept(i), Adds(queue[t], i) \/ Adds(save[t], i) PROVE Fresh(t, i)'
  BY <1>1, AddingShows, FreshKept DEF Adding
<1>2. CASE TakeChange(t)
  <2>1. /\ Moves(t) /\ save'[t] = queue[t] /\ queue[t] # None
        /\ queue'[t].base = queue[t].base /\ queue'[t].assets = queue[t].assets
        /\ queue'[t] # None
    BY <1>2, TakeMoves
  <2>2. memory'[t] = memory[t] /\ Kept(i)
    BY <1>2 DEF TakeChange, Kept
  <2> QED BY <1>1, <2>1, <2>2 DEF Adding, Adds
<1>3. CASE SaveFails(t)
  <2>1. /\ Moves(t) /\ save'[t] = None /\ memory'[t] = memory[t] /\ Kept(i)
    BY <1>3, FailMoves DEF SaveFails, FailWrite, Kept
  <2>2. /\ queue'[t].base = queue[t].base /\ queue'[t].assets = queue[t].assets
        /\ queue[t] # None
    BY <1>3, FailedWrite, ChangeParts DEF SaveFails
  <2> QED BY <1>1, <2>1, <2>2 DEF Adding, Adds
<1>4. CASE Reopen(t)
  BY <1>4, ReopenMoves DEF Adding, Adds
<1>5. CASE Insert(t)
  <2>1. /\ Moves(t) /\ Kept(i) /\ save'[t] = save[t] /\ queue'[t] = queue[t]
        /\ memory'[t] = memory[t]
    BY <1>5, BeginMoves DEF Kept
  <2> QED BY <1>1, <2>1 DEF Adding, Adds
<1>6. CASE Inserted(t) \/ NotInserted(t)
  <2>1. Moves(t) /\ save'[t] = save[t] /\ queue'[t] = queue[t]
    BY <1>6, EndMoves
  <2>2. save[t] = None
    BY <1>6, Ending, Publication
  <2>3. queue[t] # None /\ memory[t][i] = Absent => memory'[t][i] = Absent
    BY <1>6, Ending
  <2>4. Fresh(t, i) => Kept(i)
    BY <2>1, <2>2, EffectIds DEF Moves, Removes, Writes, Inserts, Fresh
  <2> QED BY <1>1, <2>1, <2>2, <2>3, <2>4 DEF Adding, Adds
<1> QED BY <1>2, <1>3, <1>4, <1>5, <1>6

LEMMA AddingKept ==
    ASSUME Types, Next, NEW t \in Tabs, NEW i \in Ids \ phantoms', Adding(t, i), Touched(t),
           \A k \in Ids : Traced(k)
    PROVE  Adding(t, i)'
<1>1. ASSUME NEW w \in Tabs \ {t}, Moves(w) PROVE Adding(t, i)'
  BY <1>1, AddingElsewhere
<1>2. ASSUME UNCHANGED <<disk, memory, observed, queue, save>>, Moves(t) PROVE Adding(t, i)'
  <2>1. Fresh(t, i) /\ Shows(t, i) => Fresh(t, i)'
    BY <1>2, FreshKept DEF Kept
  <2> QED BY <1>2, <2>1, AddingShows DEF Adding, Adds
<1>3. ASSUME NEW w \in Tabs, EditLibrary(w) PROVE Adding(t, i)'
  BY <1>1, <1>3, EditMoves, EditAdds
<1>4. ASSUME NEW w \in Tabs, AcquireToSave(w) \/ AcquireToInsert(w) PROVE Adding(t, i)'
  <2>1. UNCHANGED <<disk, memory, observed, queue, save>>
    BY <1>4 DEF AcquireToSave, AcquireToInsert
  <2> QED BY <1>1, <1>2, <1>4, <2>1, AcquireMoves
<1>5. ASSUME NEW w \in Tabs, TakeChange(w) PROVE Adding(t, i)'
  BY <1>1, <1>5, TakeMoves, OwnAdds
<1>6. ASSUME NEW w \in Tabs, WriteChange(w) PROVE Adding(t, i)'
  BY <1>1, <1>6, WriteMoves, WriteAdds
<1>7. ASSUME UNCHANGED assetVars PROVE Adding(t, i)'
  BY <1>7 DEF assetVars, Adding, Adds, Fresh, Shows, Holding
<1>8. ASSUME NEW w \in Tabs, Insert(w) PROVE Adding(t, i)'
  BY <1>1, <1>8, BeginMoves, OwnAdds
<1>9. ASSUME NEW w \in Tabs, Inserted(w) \/ NotInserted(w) PROVE Adding(t, i)'
  BY <1>1, <1>9, EndMoves, OwnAdds
<1>10. ASSUME NEW w \in Tabs, SaveFails(w) PROVE Adding(t, i)'
  BY <1>1, <1>10, FailMoves, OwnAdds
<1>11. ASSUME NEW w \in Tabs, Reopen(w) PROVE Adding(t, i)'
  BY <1>1, <1>11, ReopenMoves, OwnAdds
<1> QED BY <1>3, <1>4, <1>5, <1>6, <1>7, <1>8, <1>9, <1>10, <1>11, Steps

-----------------------------------------------------------------------------
(* Together.                                                               *)
LEMMA Inductive ==
    ASSUME IInv, [Next]_vars
    PROVE  IInv'
<1>1. /\ Types /\ \A i \in Ids : Traced(i)
      /\ \A e \in Effects : Born(e) /\ Earned(e)
      /\ \A t \in Tabs : Touched(t)
  BY DEF IInv
<1>2. Types'
  BY <1>1, NextTypes DEF Born
<1>3. \A t \in Tabs : Touched(t)'
  BY <1>1, TouchedKept
<1>4. CASE UNCHANGED vars
  <2>1. UNCHANGED <<disk, memory, observed, queue, save, insertion, created, births,
                    phantoms, record, consumer>>
    BY <1>4 DEF vars, assetVars, leaseVars, history
  <2>2. \A i \in Ids : Traced(i)'
    BY <1>1, <2>1 DEF Traced, Known, Made, Shows, Holding
  <2>3. \A e \in Effects : Born(e)' /\ Earned(e)'
    BY <1>1, <2>1 DEF Born, Earned, Made
  <2>4. \A t \in Tabs, i \in Ids \ phantoms' : Adding(t, i)'
    BY <2>1 DEF IInv, Adding, Adds, Fresh, Shows, Holding
  <2> QED BY <1>2, <1>3, <2>2, <2>3, <2>4 DEF IInv
<1>5. CASE Next
  <2>1. \/ UNCHANGED assetVars \/ \E t \in Tabs : Moves(t)
    BY <1>1, <1>5, Steps, EditMoves, AcquireMoves, TakeMoves, WriteMoves, BeginMoves,
       EndMoves, FailMoves, ReopenMoves
  <2>2. /\ \A e \in Effects : Made(e) => Made(e)'
        /\ \A i \in Ids : Traced(i)'
        /\ \A e \in Effects : Born(e)'
        /\ phantoms \subseteq phantoms'
    <3>1. CASE UNCHANGED assetVars
      <4>1. UNCHANGED <<disk, memory, observed, queue, save, insertion, created, births,
                        phantoms>>
        BY <3>1 DEF assetVars, history
      <4> QED BY <1>1, <4>1 DEF Traced, Known, Made, Shows, Holding, Born
    <3>2. CASE \E t \in Tabs : Moves(t)
      BY <1>1, <3>2, MovesKeep DEF Moves
    <3> QED BY <2>1, <3>1, <3>2
  <2>3. \A e \in Effects : Earned(e)'
    BY <1>1, <1>5, <2>2, EarnedKept
  <2>4. \A t \in Tabs, i \in Ids \ phantoms' : Adding(t, i)'
    BY <1>1, <1>5, <2>2, AddingKept DEF IInv
  <2> QED BY <1>2, <1>3, <2>2, <2>3, <2>4 DEF IInv
<1> QED BY <1>4, <1>5

LEMMA Initially ==
    ASSUME Init
    PROVE  IInv
<1>1. Types /\ disk.items \in Collection
  BY InitTypes
<1>2. /\ disk = InitialDocument
      /\ memory = [t \in Tabs |-> InitialDocument.items]
      /\ observed = [t \in Tabs |-> Observe(InitialDocument)]
      /\ queue = [t \in Tabs |-> None] /\ save = [t \in Tabs |-> None]
      /\ insertion = [t \in Tabs |-> NoInsertion]
      /\ created = Stored /\ births = [e \in Effects |-> 0]
  BY DEF Init, AssetInit
<1>3. /\ \A i \in Ids : InitialDocument.items[i] # Absent => i \in Stored
      /\ \A i \in Ids : InitialDocument.tombstones[i] = 0
      /\ Observe(InitialDocument).items = InitialDocument.items
  BY DEF InitialDocument, EmptyDocument, Observe
<1>4. \A i \in Ids : Traced(i)
  BY <1>2, <1>3 DEF Traced, Known, Shows, Holding, NoInsertion
<1>5. \A e \in Effects : Born(e)
  BY <1>2 DEF Born
<1>6. \A e \in Effects : Earned(e)
  BY DEF Init, LeaseInit, Earned, NoClaim, AtRest
<1>7. /\ \A t \in Tabs : Touched(t)
      /\ \A t \in Tabs, i \in Ids : Adding(t, i)
  BY <1>2 DEF Touched, Adding, Adds
<1> QED BY <1>1, <1>4, <1>5, <1>6, <1>7 DEF IInv

(* What the library, its pages and the consumers keep true of every asset, *)
(* by every step of use-asset-store.ts and of a consumer: the invariant    *)
(* that the theorems below rest on.                                        *)
THEOREM Invariant == Spec => []IInv
<1>1. Init => IInv
  BY Initially
<1>2. IInv /\ [Next]_vars => IInv'
  BY Inductive
<1> QED BY <1>1, <1>2, PTL DEF Spec

(* The library, the claims and the consumers keep their types, with any    *)
(* number of pages.                                                        *)
THEOREM TypeCorrect == Spec => []TypeOK
<1>1. IInv => TypeOK
  BY DEF IInv, Types
<1> QED BY <1>1, Invariant, PTL

(* A generated asset is inserted at most once, and an effect is completed  *)
(* only when its asset was inserted or is shown by the page whose write of *)
(* it failed (insertOrReturnGenerationAsset under the asset storage lock). *)
THEOREM InsertedOnce == Spec => []CreatedOnce
<1>1. IInv => CreatedOnce
  BY DEF IInv, CreatedOnce, Born, Earned, Made
<1> QED BY <1>1, Invariant, PTL

LEMMA WriteIsOwn ==
    ASSUME IInv, NEW t \in Tabs, WriteChange(t), NEW i \in Ids
    PROVE  /\ (disk.items[i] = Absent) # (disk'.items[i] = Absent) =>
                 <<i, "row">> \in save[t].touched
           /\ disk.items[i] # Absent /\ disk'.items[i] # Absent =>
                 \A f \in Fields :
                    disk.items[i][f] # disk'.items[i][f] => <<i, f>> \in save[t].touched
<1> DEFINE base == save[t].base
           local == save[t].assets
           revision == save[t].baseRevision
           document == Rebase(disk, base, local, revision)
           stored == ChangedBy(base, local, i) /\ ~Refused(disk, base, revision, i)
<1>1. TypeOK /\ Types
  BY DEF IInv, Types
<1>2. save[t] \in Change /\ save[t] # None /\ disk' = document
  BY <1>1, Typed DEF WriteChange
<1>3. /\ base \in Collection /\ local \in Collection /\ revision \in Nat
      /\ disk \in Document /\ disk.items \in Collection
  BY <1>1, <1>2, Typed, ChangeParts
<1>4. document.items[i] =
         IF RemovedBy(base, local, i) THEN Absent
         ELSE IF ~stored THEN disk.items[i]
         ELSE IF disk.items[i] = Absent THEN local[i]
         ELSE MergeRecord(base[i], local[i], disk.items[i])
  BY <1>3, RebasedAsset
<1>5. /\ base[i] \in Entity \cup {Absent} /\ local[i] \in Entity \cup {Absent}
      /\ disk.items[i] \in Entity \cup {Absent}
  BY <1>3 DEF Collection
<1>6. /\ (base[i] = Absent) # (local[i] = Absent) => <<i, "row">> \in save[t].touched
      /\ base[i] # Absent /\ local[i] # Absent =>
            \A f \in Fields : base[i][f] # local[i][f] => <<i, f>> \in save[t].touched
  BY <1>2 DEF IInv, Touched, Covered
<1>7. disk'.items[i] = document.items[i]
  BY <1>2
<1> HIDE DEF base, local, revision, document
<1>8. CASE RemovedBy(base, local, i)
  BY <1>4, <1>6, <1>7, <1>8 DEF RemovedBy
<1>9. CASE ~RemovedBy(base, local, i) /\ ~stored
  BY <1>4, <1>7, <1>9
<1>10. CASE ~RemovedBy(base, local, i) /\ stored /\ disk.items[i] = Absent
  BY <1>4, <1>6, <1>7, <1>10 DEF ChangedBy, Refused
<1>11. CASE ~RemovedBy(base, local, i) /\ stored /\ disk.items[i] # Absent
  <2> DEFINE merged == MergeRecord(base[i], local[i], disk.items[i])
  <2>1. local[i] \in Entity /\ disk.items[i] \in Entity
    BY <1>5, <1>11 DEF ChangedBy
  <2>2. /\ merged \in Entity
        /\ \A f \in Fields : merged[f] =
              MergeField(Field(base[i], f), local[i][f], disk.items[i][f])
    BY <1>5, <2>1, MergedAsset
  <2>3. disk'.items[i] = merged
    BY <1>4, <1>7, <1>11
  <2> HIDE DEF merged
  <2>4. ASSUME NEW f \in Fields, merged[f] # disk.items[i][f]
        PROVE  <<i, f>> \in save[t].touched
    <3>1. local[i][f] \in Values /\ disk.items[i][f] \in Values /\ Absent \notin Values
      BY <2>1, AssetAssumption DEF Entity
    <3>2. base[i] # Absent /\ local[i][f] # base[i][f]
      BY <2>2, <2>4, <3>1 DEF MergeField, Field
    <3> QED BY <1>6, <2>1, <3>2, DistinctAssumption
  <2>5. disk.items[i] # Absent /\ disk'.items[i] # Absent
    BY <1>11, <2>2, <2>3, DistinctAssumption
  <2>6. \A f \in Fields :
           disk.items[i][f] # disk'.items[i][f] => <<i, f>> \in save[t].touched
    BY <2>3, <2>4
  <2> QED BY <2>5, <2>6
<1> QED BY <1>8, <1>9, <1>10, <1>11

(* A save changes only what the person at its page changed, however old    *)
(* the memory of that page is (persistAssetState, rebaseAssetSnapshot).    *)
THEOREM OwnEditsOnly == Spec => SavesOnlyOwnEdits
<1>1. ASSUME IInv, [Next]_vars PROVE OnlyOwnEdits
  <2>1. ASSUME UNCHANGED disk PROVE OnlyOwnEdits
    BY <2>1 DEF OnlyOwnEdits
  <2>2. CASE UNCHANGED vars
    BY <2>1, <2>2 DEF vars, assetVars
  <2>3. ASSUME NEW w \in Tabs, WriteChange(w) PROVE OnlyOwnEdits
    <3>1. lock = w /\ save[w] # None
      BY <2>3 DEF WriteChange
    <3> QED BY <1>1, <2>3, <3>1, WriteIsOwn DEF OnlyOwnEdits
  <2>4. ASSUME NEW w \in Tabs, Inserted(w) \/ NotInserted(w) PROVE OnlyOwnEdits
    <3>1. Types /\ lock = w /\ save[w] = None
      BY <1>1, <2>4, Ending, Publication DEF IInv
    <3>2. ASSUME NEW i \in Ids
          PROVE disk'.items[i] = disk.items[i]
                \/ (insertion[w].effect = i /\ disk.items[i] = Absent)
      BY <2>4, <3>1, EndMoves DEF Moves, Kept, Inserts, Removes, Writes
    <3> QED BY <3>1, <3>2 DEF OnlyOwnEdits
  <2>5. ASSUME NEW w \in Tabs, EditLibrary(w) PROVE OnlyOwnEdits
    BY <1>1, <2>1, <2>5, EditsAreEdits DEF EditLibrary, Edit, IInv, Types
  <2>6. ASSUME NEW w \in Tabs, AcquireToSave(w) \/ AcquireToInsert(w) \/ TakeChange(w)
        PROVE  OnlyOwnEdits
    BY <2>1, <2>6 DEF AcquireToSave, AcquireToInsert, TakeChange
  <2>7. ASSUME NEW w \in Tabs, Insert(w) \/ SaveFails(w) \/ Reopen(w) PROVE OnlyOwnEdits
    BY <2>1, <2>7 DEF Insert, BeginInsertion, SaveFails, FailWrite, Reopen, ReopenPage
  <2>8. CASE UNCHANGED assetVars
    BY <2>1, <2>8 DEF assetVars
  <2> QED BY <1>1, <2>2, <2>3, <2>4, <2>5, <2>6, <2>7, <2>8, Steps
<1>2. IInv /\ [Next]_vars => [OnlyOwnEdits]_vars
  BY <1>1
<1> QED BY <1>2, Invariant, PTL DEF Spec, SavesOnlyOwnEdits

(* What was deleted stays deleted, whatever pages that still show it save  *)
(* and whatever its effect inserts; a phantom is excepted.                 *)
THEOREM NothingRevived == Spec => DeletedStaysDeleted
<1>1. ASSUME IInv, [Next]_vars, NEW i \in Ids \ phantoms, disk.tombstones[i] # 0
      PROVE  disk'.items[i] = Absent
  <2>1. disk.items[i] = Absent
    BY <1>1 DEF IInv, Traced
  <2>2. CASE UNCHANGED disk
    BY <2>1, <2>2
  <2>3. ASSUME NEW t \in Tabs, Moves(t) PROVE disk'.items[i] = Absent
    <3>1. ~Writes(t, i)
      <4>1. Adds(save[t], i) => disk.tombstones[i] = 0
        BY <1>1 DEF IInv, Adding, Fresh
      <4> QED BY <1>1, <2>1, <4>1 DEF Writes, Adds
    <3> QED BY <1>1, <2>1, <2>3, <3>1 DEF Moves, Kept, Removes, Inserts
  <2>4. UNCHANGED disk \/ \E t \in Tabs : Moves(t)
    <3>1. CASE UNCHANGED vars
      BY <3>1 DEF vars, assetVars
    <3>2. CASE UNCHANGED assetVars
      BY <3>2 DEF assetVars
    <3>3. CASE Next
      BY <1>1, <3>2, <3>3, Steps, EditMoves, AcquireMoves, TakeMoves, WriteMoves,
         BeginMoves, EndMoves, FailMoves, ReopenMoves DEF IInv
    <3> QED BY <1>1, <3>1, <3>3
  <2> QED BY <2>2, <2>3, <2>4
<1>2. IInv /\ [Next]_vars =>
         [\A i \in Ids \ phantoms :
             disk.tombstones[i] # 0 => disk'.items[i] = Absent]_vars
  BY <1>1
<1> QED BY <1>2, Invariant, PTL DEF Spec, DeletedStaysDeleted
=============================================================================
