--------------------------- MODULE AssetDelivery ----------------------------
(***************************************************************************)
(* Outputs of generations become assets while people edit the library on   *)
(* several pages: the effects of EffectLease whose consumer inserts into   *)
(* AssetStore (materialize in generation-task-materializer.ts with         *)
(* materializeGenerationOutput of project-asset-sync.ts).                  *)
(***************************************************************************)
EXTENDS AssetStore, EffectLease

vars == <<assetVars, leaseVars>>

TypeOK == AssetTypeOK /\ LeaseTypeOK

Init == AssetInit /\ LeaseInit

(* The library alone.                                                      *)
EditLibrary(t) == Editing(t) /\ UNCHANGED leaseVars
SaveLibrary(t) == (Saving(t) \/ AcquireToInsert(t)) /\ UNCHANGED leaseVars

(* The claims alone.                                                       *)
Consume(t) ==
    /\ FindCompleted(t) \/ Claim(t) \/ GiveUp(t) \/ Complete(t) \/ Release(t)
    /\ UNCHANGED assetVars

TakeUp(t) == \E e \in Effects : Start(t, e) /\ UNCHANGED assetVars

ClaimExpires(e) == Expire(e) /\ UNCHANGED assetVars
AbandonedExpires(e) == ExpireAbandoned(e) /\ UNCHANGED assetVars

(* A claimed effect is inserted; an abort is noticed before the insertion. *)
Insert(t) == Apply(t) /\ BeginInsertion(t, consumer[t].effect)

Inserted(t) == (ReturnAsset(t) \/ InsertAsset(t)) /\ Return(t, TRUE)

NotInserted(t) ==
    /\ \/ FailInsertion(t)
       \/ RefuseInsertion(t) /\ (~Holds(t) \/ Deleted(consumer[t].effect))
    /\ Return(t, FALSE)

SaveFails(t) ==
    /\ FailWrite(t)
    /\ IF insertion[t].pc = "draining" THEN Return(t, FALSE) ELSE UNCHANGED leaseVars

Reopen(t) == ReopenPage(t) /\ Close(t)

Next ==
    \/ \E t \in Tabs :
          \/ EditLibrary(t) \/ SaveLibrary(t) \/ TakeUp(t) \/ Consume(t)
          \/ Insert(t) \/ Inserted(t) \/ NotInserted(t) \/ SaveFails(t) \/ Reopen(t)
    \/ \E e \in Effects : ClaimExpires(e) \/ AbandonedExpires(e)

Spec == Init /\ [][Next]_vars

-----------------------------------------------------------------------------
(* A save changes only what the person at its page changed: a field that   *)
(* page did not edit, or an asset it neither added nor removed, keeps what *)
(* another page stored, however old the memory of the saving page is       *)
(* (persistAssetState queues the difference of two states of one memory).  *)
OnlyOwnEdits ==
    \A t \in Tabs, i \in Ids :
        LET mine == IF save[t] = None THEN {} ELSE save[t].touched
            inserting == lock = t /\ insertion[t].effect = i /\ save[t] = None
        IN  lock = t =>
            /\ (disk.items[i] = Absent) # (disk'.items[i] = Absent) =>
                  <<i, "row">> \in mine \/ inserting
            /\ disk.items[i] # Absent /\ disk'.items[i] # Absent =>
                  \A f \in Fields :
                      disk.items[i][f] # disk'.items[i][f] => <<i, f>> \in mine

SavesOnlyOwnEdits == [][OnlyOwnEdits]_vars

(* What was deleted stays deleted: neither a page that still shows the     *)
(* asset and edits it, nor a run of its effect on another page, brings it  *)
(* back (the tombstones of rebaseAssetSnapshot and isAssetDeleted).  Not   *)
(* so for a phantom: the page may save it with a later edit.               *)
DeletedStaysDeleted ==
    [][\A i \in Ids \ phantoms :
          disk.tombstones[i] # 0 => disk'.items[i] = Absent]_vars

(* A generated asset is inserted once, whatever claims expire, writes fail *)
(* or pages close, and an effect is completed only when its asset was      *)
(* stored, or shown by an insertion that then could not store it (a        *)
(* phantom).                                                               *)
CreatedOnce ==
    \A e \in Effects :
        /\ births[e] <= 1
        /\ record[e].state = "completed" => births[e] = 1 \/ e \in phantoms

(* An insertion leaves a field that the person at its page has edited and  *)
(* not yet saved as it is in the page, unless the asset was deleted.       *)
PublicationKeepsEdits ==
    [][\A t \in Tabs, i \in Ids, f \in Fields :
          (Inserted(t) /\ queue[t] # None) =>
          (<<i, f>> \in queue[t].touched /\ memory[t][i] # Absent /\ memory'[t][i] # Absent
              => memory'[t][i][f] = memory[t][i][f])]_vars
=============================================================================
