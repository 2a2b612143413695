------------------------------ MODULE StateFile ------------------------------
(***************************************************************************)
(* The state files the agent keeps (dreamina-cli-state.ts): processes that *)
(* share no memory change one file under a lock that is a directory.  The  *)
(* lock holds a lease with the nonce of its holder; a holder refreshes it, *)
(* and the lease of one that died is taken over once it is old.  Where the *)
(* file cannot be overwritten (Windows) it is moved to a backup first, and *)
(* whoever gets the lock next finishes or undoes an interrupted exchange.  *)
(*                                                                         *)
(* A writer is one run of a change under the lock.  A content stands for   *)
(* the changes made up to it: a writer reads it, makes its own and writes  *)
(* it.  A change stores a record of its own or takes out a pending one     *)
(* whose submission failed before its spawn (commitSubmissionFailure).  A  *)
(* lease gets old only when its writer died or, MaxStalls times, when it   *)
(* was suspended for longer than LOCK_STALE_MS.                            *)
(***************************************************************************)
EXTENDS Naturals, FiniteSets

CONSTANTS
    Writers,
    Removes,      \* the writer whose pending record a change takes out, or None
    None,
    MaxCrashes,   \* bound on the writers that die
    MaxStalls     \* bound on the leases that get old under a living holder

ASSUME StateFileAssumption == MaxCrashes \in Nat /\ MaxStalls \in Nat
ASSUME RemovesAssumption == Removes \in [Writers -> Writers \cup {None}]

VARIABLES
    at,        \* what each writer does next
    checked,   \* whether it has just asserted that the lease is its own
    payload,   \* the content it is to write, or None before it read one
    lock,      \* the lock directory, or None
    seen,      \* the nonce of the old lease a writer wants to remove
    moved,     \* the directory a writer has moved out of the way
    file,      \* the state file, or None while it is exchanged
    backup,    \* the replaced state file, or None
    ousted,    \* history: the directory of a living writer was touched by another
    done,      \* the writers whose change was reported as stored
    crashes, stalls

vars == <<at, checked, payload, lock, seen, moved, file, backup, ousted, done, crashes, stalls>>
lockVars == <<lock, seen, moved, ousted>>
fileVars == <<file, backup>>

Content == SUBSET Writers
Lock == [by : Writers, nonce : Writers \cup {None}, old : BOOLEAN]

ASSUME NoneAssumption ==
    None \notin Writers /\ (\A c \in Content : None # c) /\ (\A l \in Lock : None # l)

(* The steps that follow an assertOwned.                                   *)
Guarded == {"recover", "restore", "clear", "replace", "aside", "moveIn", "drop", "undo", "confirm"}
Steps == Guarded \cup {"wait", "lease", "takeOver", "decide", "read", "release", "moveAway",
                       "remove", "end", "dead"}

(* The steps that write what was made of the stored content.               *)
Writing == {"replace", "aside", "moveIn", "drop", "undo", "confirm"}

TypeOK ==
    /\ at \in [Writers -> Steps] /\ checked \in [Writers -> BOOLEAN]
    /\ payload \in [Writers -> Content \cup {None}]
    /\ \A w \in Writers : (at[w] \in Writing => payload[w] # None)
                            /\ (payload[w] # None => w \in payload[w])
    /\ lock \in Lock \cup {None}
    /\ seen \in [Writers -> Writers \cup {None}]
    /\ moved \in [Writers -> Lock \cup {None}]
    /\ file \in Content \cup {None} /\ backup \in Content \cup {None}
    /\ ousted \in BOOLEAN /\ done \in SUBSET Writers
    /\ crashes \in 0..MaxCrashes /\ stalls \in 0..MaxStalls

Init ==
    /\ at = [w \in Writers |-> "wait"] /\ checked = [w \in Writers |-> FALSE]
    /\ payload = [w \in Writers |-> None]
    /\ lock = None
    /\ seen = [w \in Writers |-> None] /\ moved = [w \in Writers |-> None]
    /\ file = {} /\ backup = None
    /\ ousted = FALSE /\ done = {}
    /\ crashes = 0 /\ stalls = 0

Go(w, from, to) ==
    /\ at[w] = from /\ (from \in Guarded => checked[w])
    /\ at' = [at EXCEPT ![w] = to]
    /\ checked' = [checked EXCEPT ![w] = FALSE]
    /\ UNCHANGED <<crashes, stalls>>

Quietly(w, from, to) == Go(w, from, to) /\ UNCHANGED <<payload, done>>

(* History: w takes, replaces or removes the directory of another that lives. *)
Note(w) ==
    ousted' = (ousted \/ (lock # None /\ lock' # lock /\ lock.by # w /\ at[lock.by] # "dead"))

-----------------------------------------------------------------------------
(* The lock: acquireStateLock, takeoverStaleLease and the release.         *)
Nonce(l) == IF l = None THEN None ELSE l.nonce

MakeLock(w) ==
    /\ lock = None
    /\ lock' = [by |-> w, nonce |-> None, old |-> FALSE]
    /\ Quietly(w, "wait", "lease")
    /\ UNCHANGED <<seen, moved, ousted, fileVars>>

(* The lease file must not exist; if it cannot be created the writer       *)
(* removes whatever stands at the path, and fails if nothing does.         *)
WriteLease(w) ==
    /\ IF lock # None /\ Nonce(lock) = None
       THEN lock' = [by |-> w, nonce |-> w, old |-> FALSE] /\ Quietly(w, "lease", "recover")
       ELSE lock' = None /\ Quietly(w, "lease", IF lock = None THEN "end" ELSE "wait")
    /\ Note(w)
    /\ UNCHANGED <<seen, moved, fileVars>>

SeeOldLease(w) ==
    /\ lock # None /\ lock.old
    /\ seen' = [seen EXCEPT ![w] = Nonce(lock)]
    /\ Quietly(w, "wait", "takeOver")
    /\ UNCHANGED <<lock, moved, ousted, fileVars>>

MoveOldLock(w) ==
    /\ IF lock = None THEN UNCHANGED moved /\ Quietly(w, "takeOver", "wait")
       ELSE moved' = [moved EXCEPT ![w] = lock] /\ Quietly(w, "takeOver", "decide")
    /\ lock' = None
    /\ Note(w)
    /\ UNCHANGED <<seen, fileVars>>

(* A directory can be renamed to a free path or to an empty directory.     *)
PutBack(w) ==
    IF lock = None \/ Nonce(lock) = None THEN lock' = moved[w] ELSE UNCHANGED lock

(* What was moved is the old lease that was seen, or is put back.          *)
DecideOnMoved(w) ==
    LET expected == Nonce(moved[w]) = seen[w] /\ moved[w].old
    IN  /\ at[w] = "decide"
        /\ IF expected THEN UNCHANGED lock ELSE PutBack(w)
        /\ moved' = [moved EXCEPT ![w] = None]
        /\ Quietly(w, "decide",
              IF expected \/ lock = None \/ Nonce(lock) = None THEN "wait" ELSE "end")
        /\ Note(w)
        /\ UNCHANGED <<seen, fileVars>>

GiveUp(w) == lock # None /\ Quietly(w, "wait", "end") /\ UNCHANGED <<lockVars, fileVars>>

Release(w) ==
    /\ Quietly(w, "release", IF Nonce(lock) = w THEN "moveAway" ELSE "end")
    /\ UNCHANGED <<lockVars, fileVars>>

MoveAway(w) ==
    /\ Quietly(w, "moveAway", IF lock = None THEN "end" ELSE "remove")
    /\ moved' = [moved EXCEPT ![w] = lock]
    /\ lock' = None
    /\ Note(w)
    /\ UNCHANGED <<seen, fileVars>>

RemoveMoved(w) ==
    /\ Quietly(w, "remove", "end")
    /\ IF Nonce(moved[w]) = w THEN UNCHANGED lock ELSE PutBack(w)
    /\ moved' = [moved EXCEPT ![w] = None]
    /\ Note(w)
    /\ UNCHANGED <<seen, fileVars>>

-----------------------------------------------------------------------------
(* assertOwned: a writer whose lease is gone stops before the next step.   *)
Owns(w) == Nonce(lock) = w

AssertOwned(w) ==
    /\ at[w] \in Guarded /\ ~checked[w]
    /\ IF Owns(w) THEN checked' = [checked EXCEPT ![w] = TRUE] /\ UNCHANGED at
       ELSE at' = [at EXCEPT ![w] = "release"] /\ UNCHANGED checked
    /\ UNCHANGED <<payload, lockVars, fileVars, done, crashes, stalls>>

(* Mutant: only the state file is looked at.                               *)
RecoverNothing(w) == Quietly(w, "recover", "read") /\ UNCHANGED <<lockVars, fileVars>>

Stored == IF file = None THEN {} ELSE file

(* The records of a content, and those removablePreSpawnIntent lets go.    *)
Records(content) ==
    {w \in content : Removes[w] = None /\ \A v \in content : Removes[v] # w}
Removable == {w \in Writers : \E v \in Writers : Removes[v] = w}

(* recoverStateReplacement                                                 *)
Recover(w) ==
    /\ Quietly(w, "recover",
          IF backup = None THEN "read" ELSE IF file = None THEN "restore" ELSE "clear")
    /\ UNCHANGED <<lockVars, fileVars>>

(* Mutant: after the backup was restored the content is not read again.    *)
RestoreAndReplace(w) ==
    /\ IF backup = None THEN UNCHANGED fileVars /\ Quietly(w, "restore", "release")
       ELSE file' = backup /\ backup' = None /\ Quietly(w, "restore", "replace")
    /\ UNCHANGED lockVars

Restore(w) ==
    /\ IF backup = None THEN UNCHANGED fileVars /\ Quietly(w, "restore", "release")
       ELSE file' = backup /\ backup' = None /\ Quietly(w, "restore", "read")
    /\ UNCHANGED lockVars

(* assertProgression asks for every record of the backup: a content that   *)
(* took one out is refused, each time anew.                                *)
Progression(previous, current) == Records(previous) \subseteq Records(current)

Clear(w) ==
    LET finished == backup # None /\ file # None /\ Progression(backup, file)
    IN  /\ Quietly(w, "clear", IF finished THEN "read" ELSE "release")
        /\ backup' = IF finished THEN None ELSE backup
        /\ UNCHANGED <<file, lockVars>>

(* The change is made on what is read, unless the record it is to take out *)
(* is gone; persistRuntimeDiskState recovers and reads once more and       *)
(* refuses to drop a record that is stored by then and may not go.         *)
Read(w) ==
    /\ IF payload[w] # None
       THEN /\ Go(w, "read", IF Records(Stored) \ Records(payload[w]) \subseteq Removable
                             THEN "replace" ELSE "release")
            /\ UNCHANGED payload
       ELSE IF Removes[w] \in Records(Stored) \cup {None}
       THEN Go(w, "read", "recover") /\ payload' = [payload EXCEPT ![w] = Stored \cup {w}]
       ELSE Go(w, "read", "release") /\ UNCHANGED payload
    /\ UNCHANGED <<lockVars, fileVars, done>>

(* replaceStateFile                                                        *)
Replace(w) ==
    /\ file' = payload[w]
    /\ Quietly(w, "replace", "confirm")
    /\ UNCHANGED <<backup, lockVars>>

ReplaceDenied(w) ==
    /\ file # None
    /\ Quietly(w, "replace", "aside")
    /\ UNCHANGED <<lockVars, fileVars>>

(* Mutant: the file is removed instead of moved.                           *)
RemoveAside(w) ==
    /\ file' = None
    /\ Quietly(w, "aside", "moveIn")
    /\ UNCHANGED <<backup, lockVars>>

MoveAside(w) ==
    /\ IF backup # None \/ file = None THEN UNCHANGED fileVars /\ Quietly(w, "aside", "release")
       ELSE backup' = file /\ file' = None /\ Quietly(w, "aside", "moveIn")
    /\ UNCHANGED lockVars

MoveIn(w) ==
    /\ file' = payload[w]
    /\ Quietly(w, "moveIn", "drop")
    /\ UNCHANGED <<backup, lockVars>>

Drop(w) ==
    /\ backup' = None
    /\ Quietly(w, "drop", "confirm")
    /\ UNCHANGED <<file, lockVars>>

(* restoreBackup                                                           *)
Undo(w) ==
    /\ IF file = None /\ backup # None THEN file' = backup /\ backup' = None
       ELSE UNCHANGED fileVars
    /\ Quietly(w, "undo", "release")
    /\ UNCHANGED lockVars

(* A call of the file system fails.  Having moved the file aside the       *)
(* writer tries to restore it, which does nothing once the new one is in.  *)
StepFails(w) ==
    /\ at[w] \in Guarded \cup {"read"}
    /\ Quietly(w, at[w], IF at[w] \in {"moveIn", "drop"} THEN "undo" ELSE "release")
    /\ UNCHANGED <<lockVars, fileVars>>

Confirm(w) ==
    /\ Go(w, "confirm", "release")
    /\ done' = done \cup {w}
    /\ UNCHANGED <<payload, lockVars, fileVars>>

-----------------------------------------------------------------------------
Crash(w) ==
    /\ at[w] \notin {"wait", "end", "dead"}
    /\ crashes < MaxCrashes /\ crashes' = crashes + 1
    /\ at' = [at EXCEPT ![w] = "dead"]
    /\ checked' = [checked EXCEPT ![w] = FALSE]
    /\ payload' = [payload EXCEPT ![w] = None]
    /\ UNCHANGED <<lockVars, fileVars, done, stalls>>

(* Nobody has refreshed the lease for LOCK_STALE_MS.                       *)
Age ==
    /\ lock # None /\ ~lock.old
    /\ IF at[lock.by] = "dead" THEN UNCHANGED stalls
       ELSE stalls < MaxStalls /\ stalls' = stalls + 1
    /\ lock' = [lock EXCEPT !.old = TRUE]
    /\ UNCHANGED <<at, checked, payload, seen, moved, ousted, fileVars, done, crashes>>

Refresh(w) ==
    /\ at[w] \notin {"wait", "lease", "end", "dead"}
    /\ Nonce(lock) = w /\ lock.old
    /\ lock' = [lock EXCEPT !.old = FALSE]
    /\ UNCHANGED <<at, checked, payload, seen, moved, ousted, fileVars, done, crashes, stalls>>

Next ==
    \/ \E w \in Writers :
        \/ MakeLock(w) \/ WriteLease(w) \/ SeeOldLease(w) \/ MoveOldLock(w) \/ DecideOnMoved(w)
        \/ GiveUp(w) \/ Release(w) \/ MoveAway(w) \/ RemoveMoved(w)
        \/ AssertOwned(w) \/ Recover(w) \/ Restore(w) \/ Clear(w) \/ Read(w)
        \/ Replace(w) \/ ReplaceDenied(w) \/ MoveAside(w) \/ MoveIn(w) \/ StepFails(w)
        \/ Drop(w) \/ Undo(w) \/ Confirm(w)
        \/ Crash(w) \/ Refresh(w)
    \/ Age

Spec == Init /\ [][Next]_vars

-----------------------------------------------------------------------------
(* The content a reader that recovers first would find.                    *)
Visible == IF file # None THEN file ELSE IF backup # None THEN backup ELSE {}

(* A change reported as stored is not lost again, whoever dies between     *)
(* which renames and whoever takes over the lock, unless a lock directory  *)
(* was touched under a writer that lives.                                  *)
DoneIsStored == ousted \/ done \subseteq Visible

(* Whoever dies or fails between which steps of an exchange, the file or   *)
(* its backup is there, and a file that stands beside its backup holds     *)
(* every change of it, so that nothing is lost when the next writer        *)
(* removes the backup; and only a record that was taken out keeps it from  *)
(* doing so.                                                               *)
Recoverable ==
    \/ ousted
    \/ /\ file # None \/ backup # None
       /\ file # None /\ backup # None =>
            /\ backup \subseteq file
            /\ \/ Progression(backup, file)
               \/ \E v \in file \ backup : Removes[v] \in Records(backup)

(* What the comment at dreamina-cli-state.ts:136 says of the backup: it    *)
(* "leaves a recoverable state at every interruption point".               *)
AlwaysRecoverable ==
    ousted \/ (file # None /\ backup # None => Progression(backup, file))

(* "The fixed backup [...] is manipulated only while this lease is owned"  *)
(* (dreamina-cli-state.ts:147): only the owner makes or removes it.        *)
BackupByOwner ==
    [][backup' # backup => \E w \in Writers : at'[w] # at[w] /\ Owns(w)]_vars
=============================================================================
