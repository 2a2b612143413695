----------------------------- MODULE CanvasStore -----------------------------
(***************************************************************************)
(* A canvas that people edit on several pages while results of generations *)
(* are put on it (use-canvas-store.ts, canvas-generation-consumer.ts).  An *)
(* edit queues the whole memory of the page as a change of the document it *)
(* last read or wrote; a save rebases the queued change on the stored      *)
(* document, under the lock of the account.  A result is stored by a       *)
(* commit of its own, which stamps the node with the key of its effect and *)
(* fails when somebody changed what it replaces; ordinary saves must not   *)
(* carry a stamp that is not stored.                                       *)
(*                                                                         *)
(* One project; its entities are nodes (connections, sessions and messages *)
(* are merged by the same mergeEntities).  The nodes shown and the nodes   *)
(* of the page's store are one, memory.  A result replaces the content of  *)
(* the node its task belongs to by a value named after the effect.         *)
(***************************************************************************)
EXTENDS EntityRebase, WebPages

CONSTANTS
    Nodes,
    Values,       \* what people write
    Target,       \* the node of each effect
    MaxEdits,     \* bound on the edits people make
    MaxAttempts,  \* bound on the attempts to store a result
    MaxFailures   \* bound on writes that fail and pages that are closed

ASSUME CanvasAssumption ==
    /\ Target \in [Effects -> Nodes]
    /\ Absent \notin Values \cup Effects /\ Values # {} /\ Values \cap Effects = {}
    /\ MaxEdits \in Nat /\ MaxAttempts \in Nat /\ MaxFailures \in Nat

VARIABLES
    disk,      \* the stored document, CanvasStorageDocument
    memory,    \* the nodes of each page
    removed,   \* the nodes people removed on each page, which they can bring back
    observed,  \* what each page keeps of the document it last read or wrote
    queue,     \* the change each page has queued, or None
    save,      \* the change a page has taken from its queue and is writing
    work,      \* the attempt of each page to store a result
    lock,      \* the page that holds the canvas storage lock
    deleted,   \* the nodes that a save has removed, also if they were stored again
    edits, attempts, failures

vars == <<disk, memory, removed, observed, queue, save, work, lock, deleted, edits, attempts,
          failures>>

Fields == {"content", "place"}
Node == [content : Values \cup Effects, place : Values, stamps : SUBSET Effects]
Canvas == [Nodes -> Node \cup {Absent}]
Document == [items : Canvas, tombstones : [Nodes -> Nat], revision : Nat]
Version == [items : Canvas, revision : Nat]
Change == [base : Canvas, baseRevision : Nat, state : Canvas, taken : BOOLEAN,
           touched : SUBSET (Nodes \X (Fields \cup {"row"}))]

ASSUME DistinctAssumption == Absent \notin Node /\ None \notin Change

NoWork == [pc |-> "none", base |-> None, local |-> None, baseRevision |-> 0, shown |-> FALSE]
Attempt == [pc : {"waiting", "draining", "ready", "committed", "final"}, base : Canvas,
            local : Canvas, baseRevision : Nat, shown : BOOLEAN]

TypeOK ==
    /\ disk \in Document
    /\ memory \in [Tabs -> Canvas] /\ removed \in [Tabs -> Canvas]
    /\ observed \in [Tabs -> Version]
    /\ \A t \in Tabs :
        /\ queue[t] = None \/ queue[t] \in Change
        /\ save[t] = None \/ save[t] \in Change
        /\ work[t] = NoWork \/ work[t] \in Attempt
    /\ DOMAIN queue = Tabs /\ DOMAIN save = Tabs /\ DOMAIN work = Tabs
    /\ lock \in Tabs \cup {None} /\ deleted \subseteq Nodes
    /\ \A n \in Nodes :     \* a node is stored, deleted at a revision, or was never made
        /\ disk.tombstones[n] \in 0..disk.revision
        /\ disk.items[n] # Absent => disk.tombstones[n] = 0
        /\ disk.items[n] = Absent /\ (\E e \in Effects : Target[e] = n)
              => disk.tombstones[n] # 0
        /\ \A t \in Tabs : removed[t][n] # Absent => memory[t][n] = Absent
    /\ edits \in 0..MaxEdits /\ attempts \in 0..MaxAttempts /\ failures \in 0..MaxFailures

FirstValue == CHOOSE v \in Values : TRUE
NoNodes == [n \in Nodes |-> Absent]
NewNode == [content |-> FirstValue, place |-> FirstValue, stamps |-> {}]

(* Every effect's node is on the canvas when the first page opens.         *)
InitialDocument ==
    [EmptyDocument(Nodes) EXCEPT
        !.items = [n \in Nodes |-> IF \E e \in Effects : Target[e] = n THEN NewNode ELSE Absent]]

(* recordCanvasStorageDocument                                             *)
Observe(document) == [items |-> document.items, revision |-> document.revision]

Init ==
    /\ disk = InitialDocument
    /\ memory = [t \in Tabs |-> InitialDocument.items]
    /\ removed = [t \in Tabs |-> NoNodes]
    /\ observed = [t \in Tabs |-> Observe(InitialDocument)]
    /\ queue = [t \in Tabs |-> None] /\ save = [t \in Tabs |-> None]
    /\ work = [t \in Tabs |-> NoWork]
    /\ lock = None /\ deleted = {}
    /\ edits = 0 /\ attempts = 0 /\ failures = 0

-----------------------------------------------------------------------------
(* The merge of the canvas: stamps are joined, and a field both sides      *)
(* changed, or a node the other side removed, is a conflict.               *)
Stamps(node) == IF node = Absent THEN {} ELSE node.stamps

MergeStamps(base, local, durable) ==
    IF local = base THEN durable
    ELSE IF durable = base \/ durable = {} THEN local
    ELSE IF local = {} THEN durable ELSE durable \cup local

StampsInConflict(base, local, durable) ==
    base # {} /\ InConflict(base, local, durable) /\ (local = {} \/ durable = {})

MergeNode(base, local, durable) ==
    [MergeRecord(base, local, durable) EXCEPT
        !.stamps = MergeStamps(Stamps(base), local.stamps, durable.stamps)]

(* Mutant: what is deleted leaves no tombstone.                            *)
RebaseForgetting(document, base, local, baseRevision) ==
    [RebaseWith(MergeNode, document, base, local, baseRevision) EXCEPT
        !.tombstones = document.tombstones]

RebaseCanvas(document, base, local, baseRevision) ==
    RebaseWith(MergeNode, document, base, local, baseRevision)

(* Mutant: only a node that is gone is a conflict.                         *)
ConflictsOfRemoval(document, base, local, baseRevision) ==
    {n \in Nodes : ChangedBy(base, local, n) /\ Refused(document, base, baseRevision, n)}

Conflicts(document, base, local, baseRevision) ==
    {n \in Nodes :
        /\ ChangedBy(base, local, n)
        /\ \/ Refused(document, base, baseRevision, n)
           \/ /\ document.items[n] # Absent
              /\ \/ \E f \in Fields :
                       InConflict(Field(base[n], f), local[n][f], document.items[n][f])
                 \/ StampsInConflict(Stamps(base[n]), local[n].stamps,
                                     document.items[n].stamps)}

(* Mutant: what a page shows is queued with the stamps it shows.           *)
OrdinaryAsShown(nodes, stored) == nodes

(* ordinaryCanvasPersistenceState: a node with a stamp that is not stored  *)
(* is queued as it is stored, any other with the stamps that are stored.   *)
Ordinary(nodes, stored) ==
    [n \in Nodes |->
        IF nodes[n] = Absent THEN Absent
        ELSE IF ~(Stamps(nodes[n]) \subseteq Stamps(stored[n])) THEN stored[n]
        ELSE [nodes[n] EXCEPT !.stamps = Stamps(stored[n])]]

-----------------------------------------------------------------------------
(* Edits: setItem of canvasStorage.                                        *)
Queued(change, stored, nodes, rows) ==
    LET state == Ordinary(nodes, stored.items)
    IN  IF change = None
        THEN [base |-> stored.items, baseRevision |-> stored.revision,
              state |-> state, taken |-> FALSE, touched |-> rows]
        ELSE [change EXCEPT !.state = state, !.taken = FALSE,
                  !.touched = rows \cup (IF change.taken THEN {} ELSE @)]

Edit(t, n, node, rows) ==
    /\ edits < MaxEdits /\ edits' = edits + 1
    /\ memory' = [memory EXCEPT ![t][n] = node]
    /\ removed' = [removed EXCEPT ![t][n] = IF node = Absent THEN memory[t][n] ELSE Absent]
    /\ queue' = [queue EXCEPT ![t] = Queued(@, observed[t], [memory[t] EXCEPT ![n] = node], rows)]
    /\ UNCHANGED <<disk, observed, save, work, lock, deleted, attempts, failures>>

AddNode(t) ==
    \E n \in Nodes :
        /\ \A u \in Tabs : memory[u][n] = Absent /\ removed[u][n] = Absent  \* ids are fresh
        /\ disk.items[n] = Absent /\ disk.tombstones[n] = 0
        /\ Edit(t, n, NewNode, {<<n, "row">>})

UpdateNode(t) ==
    \E n \in Nodes, f \in Fields, v \in Values :
        /\ memory[t][n] # Absent /\ memory[t][n][f] # v
        /\ Edit(t, n, [memory[t][n] EXCEPT ![f] = v], {<<n, f>>})

RemoveNode(t) ==
    \E n \in Nodes : memory[t][n] # Absent /\ Edit(t, n, Absent, {<<n, "row">>})

(* undoCanvas: a removed node comes back with its id and its stamps.       *)
RestoreNode(t) ==
    \E n \in Nodes :
        /\ removed[t][n] # Absent
        /\ Edit(t, n, removed[t][n], {<<n, "row">>})

-----------------------------------------------------------------------------
(* Ordinary saves: commitPendingCanvasStorePersistenceLocked, when the     *)
(* timer of the last edit is due, and before a result is stored.           *)
AcquireToSave(t) ==
    /\ lock = None /\ queue[t] # None /\ work[t].pc # "final"
    /\ lock' = t
    /\ UNCHANGED <<disk, memory, removed, observed, queue, save, work, deleted, edits, attempts,
                   failures>>

TakeChange(t) ==
    /\ lock = t /\ save[t] = None /\ queue[t] # None
    /\ work[t].pc \notin {"ready", "final"}
    /\ save' = [save EXCEPT ![t] = queue[t]]
    /\ queue' = [queue EXCEPT ![t].taken = TRUE]
    /\ UNCHANGED <<disk, memory, removed, observed, work, lock, deleted, edits, attempts,
                   failures>>

Wrote(t, document) ==
    /\ disk' = document
    /\ observed' = [observed EXCEPT ![t] = Observe(document)]
    /\ deleted' = deleted \cup
          {n \in Nodes : disk.items[n] # Absent /\ document.items[n] = Absent}

Requeued(t, document) ==
    IF queue[t].taken THEN None
    ELSE [queue[t] EXCEPT !.base = save[t].state, !.baseRevision = document.revision]

WriteChange(t) ==
    /\ lock = t /\ save[t] # None
    /\ LET document == RebaseCanvas(disk, save[t].base, save[t].state, save[t].baseRevision)
       IN  Wrote(t, document) /\ queue' = [queue EXCEPT ![t] = Requeued(t, document)]
    /\ save' = [save EXCEPT ![t] = None]
    /\ IF ~queue[t].taken \/ work[t].pc = "committed" THEN UNCHANGED <<work, lock>>
       ELSE IF work[t].pc = "draining"
            THEN work' = [work EXCEPT ![t].pc = "ready"] /\ UNCHANGED lock
            ELSE lock' = None /\ UNCHANGED work
    /\ UNCHANGED <<memory, removed, edits, attempts, failures>>

-----------------------------------------------------------------------------
(* Results: persistCanvasGenerationEffect.  The page may already show the  *)
(* result (show): what it had before is queued, and what it shows, without *)
(* its stamp, once the page was rendered.                                  *)
Applied(nodes, e) ==
    IF e \in Stamps(nodes[Target[e]]) THEN nodes
    ELSE [nodes EXCEPT ![Target[e]].content = e, ![Target[e]].stamps = @ \cup {e}]

Prepare(t, e, show) ==
    LET nodes == Applied(memory[t], e)
    IN  /\ work[t].pc = "none" /\ memory[t][Target[e]] # Absent
        /\ attempts < MaxAttempts /\ attempts' = attempts + 1
        /\ work' = [work EXCEPT ![t] =
              [pc |-> "waiting", base |-> memory[t], local |-> nodes,
               baseRevision |-> observed[t].revision, shown |-> show]]
        /\ IF show /\ nodes # memory[t]
           THEN /\ memory' = [memory EXCEPT ![t] = nodes]
                /\ \E kept \in {memory[t], nodes} :
                      queue' = [queue EXCEPT ![t] = Queued(@, observed[t], kept, {})]
           ELSE UNCHANGED <<memory, queue>>
        /\ UNCHANGED <<disk, removed, observed, save, lock, deleted, edits, failures>>

AcquireForResult(t) ==
    /\ lock = None /\ work[t].pc = "waiting"
    /\ lock' = t
    /\ work' = [work EXCEPT ![t].pc = IF queue[t] = None THEN "ready" ELSE "draining"]
    /\ UNCHANGED <<disk, memory, removed, observed, queue, save, deleted, edits, attempts,
                   failures>>

ResultConflicts(t) ==
    Conflicts(disk, work[t].base, work[t].local, work[t].baseRevision)

(* The write of the result is the commit point: what was queued meanwhile  *)
(* is from then on a change of the committed document.                     *)
CommitResult(t) ==
    LET document == RebaseCanvas(disk, work[t].base, work[t].local, work[t].baseRevision)
    IN  /\ lock = t /\ work[t].pc = "ready"
        /\ ResultConflicts(t) = {}
        /\ Wrote(t, document)
        /\ queue' = [queue EXCEPT ![t] =
              IF @ = None THEN None
              ELSE [@ EXCEPT !.base = document.items, !.baseRevision = document.revision,
                             !.state = Ordinary(memory[t], document.items)]]
        /\ work' = [work EXCEPT ![t].pc = "committed"]
        /\ UNCHANGED <<memory, removed, save, lock, edits, attempts, failures>>

(* What the page shows again can only be removed again.                    *)
StillRemoved(t) ==
    [removed EXCEPT ![t] = [n \in Nodes |-> IF memory'[t][n] = Absent THEN @[n] ELSE Absent]]

EndWork(t) ==
    /\ lock' = None
    /\ work' = [work EXCEPT ![t] = NoWork]
    /\ UNCHANGED <<disk, deleted, edits, attempts>>

(* An attempt that fails before its commit: where the page showed the      *)
(* result it takes it back, which is queued like an edit                   *)
(* (persistCanvasCinematicSessionContinuationEffect).                      *)
TakeBack(t, change, stored, nodes) ==
    LET restored == [n \in Nodes |->
            IF work[t].base[n] # work[t].local[n] THEN work[t].base[n] ELSE nodes[n]]
    IN  /\ observed' = [observed EXCEPT ![t] = stored]
        /\ memory' = [memory EXCEPT ![t] = IF work[t].shown THEN restored ELSE nodes]
        /\ removed' = StillRemoved(t)
        /\ queue' = [queue EXCEPT ![t] =
              IF work[t].shown THEN Queued(change, stored, restored, {}) ELSE change]

(* The page that shows the project makes its changes since the attempt     *)
(* again on what is stored, and queues the outcome when it is rendered     *)
(* (reconcileCanvasGenerationLiveProject).                                 *)
Reconciled(t) == RebaseCanvas(disk, work[t].local, memory[t], disk.revision).items

(* It is aborted before the commit, or conflicts: the store drops what is  *)
(* not stored, and on a conflict the page is reconciled, if one shows the  *)
(* project.                                                                *)
RefuseResult(t) ==
    /\ lock = t /\ work[t].pc = "ready"
    /\ \/ TakeBack(t, queue[t], Observe(disk), Ordinary(memory[t], disk.items))
       \/ /\ ResultConflicts(t) # {}
          /\ TakeBack(t, Queued(queue[t], Observe(disk), Reconciled(t), {}), Observe(disk),
                      Reconciled(t))
    /\ EndWork(t)
    /\ UNCHANGED <<save, failures>>

ReadBack(t) ==
    /\ lock = t /\ work[t].pc = "committed" /\ queue[t] = None
    /\ work' = [work EXCEPT ![t].pc = "final"]
    /\ UNCHANGED <<disk, memory, removed, observed, queue, save, lock, deleted, edits, attempts,
                   failures>>

(* The page shows its nodes with what was committed since it began; an     *)
(* edit that was undone meanwhile may come back.                           *)
Shown(t) ==
    RebaseCanvas([disk EXCEPT !.items = memory[t]], work[t].base, disk.items,
                 work[t].baseRevision).items

Show(t) ==
    /\ memory' = [memory EXCEPT ![t] = Shown(t)]
    /\ removed' = StillRemoved(t)
    /\ observed' = [observed EXCEPT ![t] = Observe(disk)]
    /\ EndWork(t)

FinishResult(t) ==
    /\ lock = t /\ work[t].pc = "final"
    /\ Show(t)
    /\ UNCHANGED <<queue, save, failures>>

-----------------------------------------------------------------------------
(* A write fails: the change stays queued.  Before the commit the attempt  *)
(* fails with it, after the commit the result counts as stored.            *)
Again(t) == [queue[t] EXCEPT !.taken = FALSE, !.touched = @ \cup save[t].touched]

FailWrite(t) ==
    /\ lock = t /\ save[t] # None
    /\ failures < MaxFailures /\ failures' = failures + 1
    /\ save' = [save EXCEPT ![t] = None]
    /\ IF work[t].pc = "draining" THEN TakeBack(t, Again(t), observed[t], memory[t]) /\ EndWork(t)
       ELSE /\ queue' = [queue EXCEPT ![t] = Again(t)]
            /\ IF work[t].pc = "committed" THEN Show(t)
               ELSE /\ lock' = None
                    /\ UNCHANGED <<disk, memory, removed, observed, work, deleted, edits, attempts>>

ReopenPage(t) ==
    /\ failures < MaxFailures /\ failures' = failures + 1
    /\ memory' = [memory EXCEPT ![t] = disk.items]
    /\ removed' = [removed EXCEPT ![t] = NoNodes]
    /\ observed' = [observed EXCEPT ![t] = Observe(disk)]
    /\ queue' = [queue EXCEPT ![t] = None]
    /\ save' = [save EXCEPT ![t] = None]
    /\ work' = [work EXCEPT ![t] = NoWork]
    /\ lock' = IF lock = t THEN None ELSE lock
    /\ UNCHANGED <<disk, deleted, edits, attempts>>

Next ==
    \E t \in Tabs :
        \/ AddNode(t) \/ UpdateNode(t) \/ RemoveNode(t) \/ RestoreNode(t)
        \/ AcquireToSave(t) \/ TakeChange(t) \/ WriteChange(t)
        \/ \E e \in Effects, show \in BOOLEAN : Prepare(t, e, show)
        \/ AcquireForResult(t) \/ CommitResult(t) \/ RefuseResult(t)
        \/ ReadBack(t) \/ FinishResult(t) \/ FailWrite(t) \/ ReopenPage(t)

Spec == Init /\ [][Next]_vars

-----------------------------------------------------------------------------
(* A stamp enters the document only with the commit of its own result:     *)
(* whatever a page already shows, its ordinary saves do not publish it.    *)
(* Not so for a node that was deleted and stored again: the change a page  *)
(* queued before may still carry a stamp of the node as it was.            *)
StampsByCommitOnly ==
    [][\A n \in Nodes \ deleted :
          ~(Stamps(disk'.items[n]) \subseteq Stamps(disk.items[n])) =>
              \E t \in Tabs : lock = t /\ work'[t].pc = "committed" /\ work[t].pc = "ready"]_vars

(* A result is stamped as stored only when it is: if somebody wrote what   *)
(* it would replace, or removed its node, the commit fails instead of      *)
(* leaving a stamp without the result, which nobody would store again.     *)
(* Again for nodes that were not deleted.                                  *)
StampedIsStored ==
    [][\A n \in Nodes \ deleted : \A e \in Stamps(disk'.items[n]) \ Stamps(disk.items[n]) :
          disk'.items[n].content = e]_vars

(* What a save of page t changes in the document is what people edited     *)
(* there.                                                                  *)
SavesOwnEdits(t) ==
    (lock = t /\ save[t] # None /\ save'[t] = None) =>
        \A n \in Nodes :
            /\ (disk.items[n] = Absent) # (disk'.items[n] = Absent) =>
                  <<n, "row">> \in save[t].touched
            /\ disk.items[n] # Absent /\ disk'.items[n] # Absent =>
                  \A f \in Fields :
                      disk.items[n][f] # disk'.items[n][f] => <<n, f>> \in save[t].touched

(* No page reverts what another page stored.                               *)
SavesOnlyOwnEdits == [][\A t \in Tabs : SavesOwnEdits(t)]_vars

(* A result that was stored stays on its node until people edit or remove  *)
(* the node: no save replaces it otherwise.                                *)
CommittedResultSurvives ==
    [][\A t \in Tabs, n \in Nodes :
          /\ lock = t /\ save[t] # None /\ save'[t] = None
          /\ disk.items[n] # Absent /\ disk.items[n].content \in Effects
          => \/ disk'.items[n] # Absent /\ disk'.items[n].content = disk.items[n].content
             \/ <<n, "content">> \in save[t].touched \/ <<n, "row">> \in save[t].touched]_vars
=============================================================================
