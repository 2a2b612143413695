----------------------------- MODULE AssetStore -----------------------------
(***************************************************************************)
(* The asset library of one account, as the open pages of a browser keep   *)
(* it (use-asset-store.ts, generation-asset-repository.ts).  Each page has *)
(* the assets in memory; the stored document is shared.  An edit queues a  *)
(* snapshot of memory together with what memory was before; a save takes   *)
(* the lock of the account, reads the document and rebases the queued      *)
(* change on it.  An asset made by a generation is inserted under the same *)
(* lock, once for each effect.                                             *)
(*                                                                         *)
(* An asset added by hand has a random id, used once; the id of a          *)
(* generated asset is the hash of its effect key, so Effects names it too. *)
(* The document is read and written only by the holder of the lock, but    *)
(* for the read of a page that opens.  What a queued snapshot was made of  *)
(* (queue.touched) is recorded for the properties.                         *)
(***************************************************************************)
EXTENDS EntityRebase, WebPages

CONSTANTS
    Assets,       \* ids of assets added by hand
    Fields, Values,
    Stored,       \* assets the document holds when the first page opens
    MaxEdits,     \* bound on the edits people make
    MaxFailures   \* bound on writes that fail and on pages that are closed

ASSUME AssetAssumption ==
    /\ Assets \cap Effects = {} /\ Stored \subseteq Assets
    /\ Absent \notin Values /\ Values # {} /\ "row" \notin Fields
    /\ MaxEdits \in Nat /\ MaxFailures \in Nat

Ids == Assets \cup Effects

VARIABLES
    disk,      \* the stored document, AssetStorageDocument
    memory,    \* the assets of each page
    observed,  \* what each page keeps of the document it last read or wrote
    queue,     \* the change each page has queued, or None
    save,      \* the save a page makes: the queued change it took, its document
    insertion, \* the insertion of a generated asset by a page
    lock,      \* the page that holds the asset storage lock
    created,   \* ids of assets added by hand so far
    births,    \* how often each generated asset was inserted
    phantoms,  \* assets an insertion showed that were not stored, or shown while a
               \* change was queued, which then does not know of them
    edits, failures

history == <<births, phantoms>>

assetVars == <<disk, memory, observed, queue, save, insertion, lock, created,
              births, phantoms, edits, failures>>

Entity == [Fields -> Values]
Collection == [Ids -> Entity \cup {Absent}]
Document == [items : Collection, tombstones : [Ids -> Nat], revision : Nat]
Version == [items : Collection, revision : Nat]
Rows == Ids \X (Fields \cup {"row"})     \* what an edit touches: a field, or the asset
Change == [base : Collection, baseRevision : Nat, assets : Collection,
           taken : BOOLEAN, touched : SUBSET Rows]
NoInsertion == [pc |-> "none", effect |-> None, base |-> None]
Insertion == [pc : {"waiting", "draining", "drained"}, effect : Effects, base : Version]

ASSUME DistinctAssumption == Absent \notin Entity /\ None \notin Change

AssetTypeOK ==
    /\ disk \in Document
    /\ memory \in [Tabs -> Collection]
    /\ observed \in [Tabs -> Version]
    /\ DOMAIN queue = Tabs /\ DOMAIN save = Tabs /\ DOMAIN insertion = Tabs
    /\ \A t \in Tabs :
        /\ queue[t] = None \/ queue[t] \in Change
        /\ save[t] = None \/ save[t] \in Change
        /\ insertion[t] = NoInsertion \/ insertion[t] \in Insertion
    /\ lock \in Tabs \cup {None}
    /\ created \subseteq Assets /\ phantoms \subseteq Ids /\ births \in [Effects -> 0..2]
    /\ edits \in 0..MaxEdits /\ failures \in 0..MaxFailures

NewEntity == [f \in Fields |-> CHOOSE v \in Values : TRUE]

InitialDocument ==
    [EmptyDocument(Ids) EXCEPT
        !.items = [i \in Ids |-> IF i \in Stored THEN NewEntity ELSE Absent]]

(* What recordAssetStorageDocument keeps of a document.                    *)
Observe(document) == [items |-> document.items, revision |-> document.revision]

AssetInit ==
    /\ disk = InitialDocument
    /\ memory = [t \in Tabs |-> InitialDocument.items]
    /\ observed = [t \in Tabs |-> Observe(InitialDocument)]
    /\ queue = [t \in Tabs |-> None]
    /\ save = [t \in Tabs |-> None]
    /\ insertion = [t \in Tabs |-> NoInsertion]
    /\ lock = None
    /\ created = Stored
    /\ births = [e \in Effects |-> 0] /\ phantoms = {}
    /\ edits = 0 /\ failures = 0

-----------------------------------------------------------------------------
(* What a person does.  persistAssetState queues the new assets; what they *)
(* are compared with is the memory before the first edit still queued.  So *)
(* what an insertion shows while a change is queued (Unqueued) is saved    *)
(* with the next edit as if it were the page's own.                        *)
Unqueued(t) ==
    {row \in Rows :
        LET was == queue[t].assets[row[1]]
            now == memory[t][row[1]]
        IN  IF row[2] = "row" THEN (was = Absent) # (now = Absent)
            ELSE Field(was, row[2]) # Field(now, row[2])}

(* Mutant: the base is the document last seen, not what memory was.        *)
QueuedOnDocument(t, assets, rows) ==
    [base |-> IF queue[t] = None THEN observed[t].items ELSE queue[t].base,
     baseRevision |-> IF queue[t] = None THEN observed[t].revision ELSE queue[t].baseRevision,
     assets |-> assets, taken |-> FALSE,
     touched |-> rows \cup (IF queue[t] = None THEN {} ELSE Unqueued(t) \cup queue[t].touched)]

Queued(t, assets, rows) ==
    IF queue[t] = None
    THEN [base |-> memory[t], baseRevision |-> observed[t].revision,
          assets |-> assets, taken |-> FALSE, touched |-> rows]
    ELSE [queue[t] EXCEPT !.assets = assets, !.taken = FALSE,
              !.touched = rows \cup Unqueued(t) \cup (IF queue[t].taken THEN {} ELSE @)]

Edit(t, i, entity, rows) ==
    /\ edits < MaxEdits /\ edits' = edits + 1
    /\ memory' = [memory EXCEPT ![t][i] = entity]
    /\ queue' = [queue EXCEPT ![t] = Queued(t, [memory[t] EXCEPT ![i] = entity], rows)]
    /\ UNCHANGED <<disk, observed, save, insertion, lock, history, failures>>

AddAsset(t) ==
    \E i \in Assets \ created :
        /\ created' = created \cup {i}
        /\ Edit(t, i, NewEntity, {<<i, "row">>})

UpdateAsset(t) ==
    \E i \in Ids, f \in Fields, v \in Values :
        /\ memory[t][i] # Absent
        /\ memory[t][i][f] # v
        /\ Edit(t, i, [memory[t][i] EXCEPT ![f] = v], {<<i, f>>})
        /\ UNCHANGED created

RemoveAsset(t) ==
    \E i \in Ids :
        /\ memory[t][i] # Absent
        /\ Edit(t, i, Absent, {<<i, "row">>})
        /\ UNCHANGED created

-----------------------------------------------------------------------------
(* Saves: commitPendingAssetStorePersistenceLocked.                        *)

AcquireToSave(t) ==
    /\ lock = None /\ queue[t] # None
    /\ lock' = t
    /\ UNCHANGED <<disk, memory, observed, queue, save, insertion, created, history,
                   edits, failures>>

(* The queued change is taken and the document is read; an edit from here  *)
(* on queues a newer change.                                               *)
TakeChange(t) ==
    /\ lock = t /\ save[t] = None /\ queue[t] # None
    /\ insertion[t].pc # "drained"
    /\ save' = [save EXCEPT ![t] = queue[t]]
    /\ queue' = [queue EXCEPT ![t].taken = TRUE]
    /\ UNCHANGED <<disk, memory, observed, insertion, lock, created, history, edits, failures>>

Requeued(t, document) ==
    IF queue[t].taken THEN None
    ELSE [queue[t] EXCEPT !.base = save[t].assets, !.baseRevision = document.revision]

(* When no newer change was queued meanwhile the save is over.             *)
WriteChange(t) ==
    /\ lock = t /\ save[t] # None
    /\ LET document == Rebase(disk, save[t].base, save[t].assets, save[t].baseRevision)
       IN  /\ disk' = document
           /\ observed' = [observed EXCEPT ![t] = Observe(document)]
           /\ queue' = [queue EXCEPT ![t] = Requeued(t, document)]
    /\ save' = [save EXCEPT ![t] = None]
    /\ IF ~queue[t].taken THEN UNCHANGED <<insertion, lock>>
       ELSE IF insertion[t].pc = "draining"
            THEN insertion' = [insertion EXCEPT ![t].pc = "drained"] /\ UNCHANGED lock
            ELSE lock' = None /\ UNCHANGED insertion
    /\ UNCHANGED <<memory, created, history, edits, failures>>

-----------------------------------------------------------------------------
(* addGenerationAsset and insertOrReturnGenerationAsset.                   *)

BeginInsertion(t, e) ==
    /\ insertion[t].pc = "none"
    /\ insertion' = [insertion EXCEPT
          ![t] = [pc |-> "waiting", effect |-> e, base |-> observed[t]]]
    /\ UNCHANGED <<disk, memory, observed, queue, save, lock, created, history, edits, failures>>

AcquireToInsert(t) ==
    /\ lock = None /\ insertion[t].pc = "waiting"
    /\ lock' = t
    /\ insertion' = [insertion EXCEPT
          ![t].pc = IF queue[t] = None THEN "drained" ELSE "draining"]
    /\ UNCHANGED <<disk, memory, observed, queue, save, created, history, edits, failures>>

(* What the page shows after the insertion: its memory rebased on the      *)
(* document, and the generated asset rebased on that (updateAssets).       *)
Published(t, document, assets) ==
    LET live == Rebase(document, insertion[t].base.items, memory[t],
                       insertion[t].base.revision)
    IN  Rebase(live, document.items, assets, document.revision).items

Publish(t, stored, assets) ==
    LET shown == Published(t, disk, assets)
    IN  /\ memory' = [memory EXCEPT ![t] = shown]
        /\ phantoms' = phantoms \cup
              {i \in Ids :
                  /\ memory[t][i] = Absent /\ shown[i] # Absent
                  /\ stored[i] = Absent \/ queue[t] # None}

EndInsertion(t) ==
    /\ lock' = None
    /\ insertion' = [insertion EXCEPT ![t] = NoInsertion]
    /\ UNCHANGED <<queue, save, created, edits>>

ReadyToInsert(t) == lock = t /\ insertion[t].pc = "drained"

Deleted(e) == disk.tombstones[e] # 0

(* The asset was made by an earlier run of the effect: it is returned.     *)
ReturnAsset(t) ==
    LET e == insertion[t].effect
    IN  /\ ReadyToInsert(t)
        /\ ~Deleted(e) /\ disk.items[e] # Absent
        /\ Publish(t, disk.items, disk.items)
        /\ observed' = [observed EXCEPT ![t] = Observe(disk)]
        /\ EndInsertion(t)
        /\ UNCHANGED <<disk, births, failures>>

(* Mutant: what is in memory is asked instead of what is stored.           *)
InsertUnlessShown(t) ==
    LET e == insertion[t].effect
        assets == [disk.items EXCEPT ![e] = NewEntity]
        document == [disk EXCEPT !.items = assets, !.revision = @ + 1]
    IN  /\ ReadyToInsert(t)
        /\ ~Deleted(e) /\ memory[t][e] = Absent
        /\ Publish(t, assets, assets)
        /\ disk' = document
        /\ observed' = [observed EXCEPT ![t] = Observe(document)]
        /\ births' = [births EXCEPT ![e] = @ + 1]
        /\ EndInsertion(t)
        /\ UNCHANGED failures

InsertAsset(t) ==
    LET e == insertion[t].effect
        assets == [disk.items EXCEPT ![e] = NewEntity]
        document == [disk EXCEPT !.items = assets, !.revision = @ + 1]
    IN  /\ ReadyToInsert(t)
        /\ ~Deleted(e) /\ disk.items[e] = Absent
        /\ Publish(t, assets, assets)
        /\ disk' = document
        /\ observed' = [observed EXCEPT ![t] = Observe(document)]
        /\ births' = [births EXCEPT ![e] = @ + 1]
        /\ EndInsertion(t)
        /\ UNCHANGED failures

(* The asset was deleted by its user, or the consumer was aborted.         *)
RefuseInsertion(t) ==
    /\ ReadyToInsert(t)
    /\ observed' = [observed EXCEPT ![t] = Observe(disk)]
    /\ EndInsertion(t)
    /\ UNCHANGED <<disk, memory, history, failures>>

(* persistAssets failed after updateAssets: the page shows what is not     *)
(* stored.                                                                 *)
FailInsertion(t) ==
    LET assets == [disk.items EXCEPT ![insertion[t].effect] = NewEntity]
    IN  /\ ReadyToInsert(t)
        /\ failures < MaxFailures /\ failures' = failures + 1
        /\ ~Deleted(insertion[t].effect) /\ disk.items[insertion[t].effect] = Absent
        /\ Publish(t, disk.items, assets)
        /\ observed' = [observed EXCEPT ![t] = Observe(disk)]
        /\ EndInsertion(t)
        /\ UNCHANGED <<disk, births>>

-----------------------------------------------------------------------------
(* A write of a change fails: the change stays queued, on its base.  An    *)
(* insertion that was waiting for it fails too; one that waits for the     *)
(* lock does not notice.                                                   *)
FailWrite(t) ==
    /\ lock = t /\ save[t] # None
    /\ failures < MaxFailures /\ failures' = failures + 1
    /\ queue' = [queue EXCEPT ![t].taken = FALSE, ![t].touched = @ \cup save[t].touched]
    /\ save' = [save EXCEPT ![t] = None]
    /\ lock' = None
    /\ insertion' = [insertion EXCEPT ![t] = IF @.pc = "draining" THEN NoInsertion ELSE @]
    /\ UNCHANGED <<disk, memory, observed, created, history, edits>>

(* The page is closed and opened again: what it had queued is lost.        *)
ReopenPage(t) ==
    /\ failures < MaxFailures /\ failures' = failures + 1
    /\ memory' = [memory EXCEPT ![t] = disk.items]
    /\ observed' = [observed EXCEPT ![t] = Observe(disk)]
    /\ queue' = [queue EXCEPT ![t] = None]
    /\ save' = [save EXCEPT ![t] = None]
    /\ insertion' = [insertion EXCEPT ![t] = NoInsertion]
    /\ lock' = IF lock = t THEN None ELSE lock
    /\ UNCHANGED <<disk, created, history, edits>>

Editing(t) == AddAsset(t) \/ UpdateAsset(t) \/ RemoveAsset(t)
Saving(t) == AcquireToSave(t) \/ TakeChange(t) \/ WriteChange(t)
=============================================================================
