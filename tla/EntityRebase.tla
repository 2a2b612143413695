---------------------------- MODULE EntityRebase ----------------------------
(***************************************************************************)
(* How a page of the web client saves its collection over one that another *)
(* page may have changed: the three-way merge of canvas-storage-revision.ts *)
(* and of asset-storage-revision.ts.  A document is a collection of        *)
(* entities with, for every deleted one, the revision of its deletion.  An *)
(* entity is a function from fields to values; Absent stands for a field   *)
(* an entity does not have and for an entity a collection does not have.   *)
(* Nested records are flattened into their fields, as mergeRecord recurs   *)
(* on each field alone.  The order of a collection and updatedAt, which is *)
(* always taken from the stored side, are left out.                        *)
(***************************************************************************)
EXTENDS Naturals, FiniteSets

CONSTANT Absent

(* A document without entities that was never saved. *)
EmptyDocument(Ids) ==
    [items |-> [i \in Ids |-> Absent], tombstones |-> [i \in Ids |-> 0], revision |-> 0]

(* Both sides changed the field, and not to the same value. *)
InConflict(base, local, durable) ==
    local # base /\ durable # base /\ local # durable

MergeField(base, local, durable) ==
    IF local = base THEN durable
    ELSE IF durable = base \/ durable = Absent THEN local
    ELSE durable

Field(entity, f) == IF entity = Absent THEN Absent ELSE entity[f]

MergeRecord(base, local, durable) ==
    [f \in DOMAIN local |-> MergeField(Field(base, f), local[f], durable[f])]

(* Removed locally; changed or added locally; and of the latter what is    *)
(* not stored because the other side deleted it.                           *)
RemovedBy(base, local, i) == base[i] # Absent /\ local[i] = Absent

ChangedBy(base, local, i) == local[i] # Absent /\ base[i] # local[i]

(* Mutant: a changed entity that another page deleted is stored again.     *)
NeverRefused(document, base, baseRevision, i) == FALSE

Refused(document, base, baseRevision, i) ==
    /\ document.items[i] = Absent
    /\ base[i] # Absent \/ document.tombstones[i] > baseRevision

(* The document after a save of local, which was derived from base; Merge  *)
(* combines an entity both sides have.                                     *)
RebaseWith(Merge(_, _, _), document, base, local, baseRevision) ==
    LET next == document.revision + 1
        removed(i) == RemovedBy(base, local, i)
        stored(i) == /\ ChangedBy(base, local, i)
                     /\ ~Refused(document, base, baseRevision, i)
    IN  [items |-> [i \in DOMAIN local |->
            IF removed(i) THEN Absent
            ELSE IF ~stored(i) THEN document.items[i]
            ELSE IF document.items[i] = Absent THEN local[i]
            ELSE Merge(base[i], local[i], document.items[i])],
         tombstones |-> [i \in DOMAIN local |->
            IF removed(i) THEN next
            ELSE IF stored(i) THEN 0 ELSE document.tombstones[i]],
         revision |-> next]

Rebase(document, base, local, baseRevision) ==
    RebaseWith(MergeRecord, document, base, local, baseRevision)
=============================================================================
