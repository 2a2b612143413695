--------------------------- MODULE StateFileProofs ---------------------------
(***************************************************************************)
(* Theorems about StateFile for every number of writers, of writers that   *)
(* die and of leases that get old under a living holder.                   *)
(***************************************************************************)
EXTENDS StateFile, TLAPS

(* The steps of a writer whose lease is written and not yet moved away.    *)
Leased == Guarded \cup {"read", "release", "moveAway"}

(* While no lock directory of a living writer was touched by another: a    *)
(* writer past the lease file holds the lock under its nonce, one that     *)
(* made the directory holds it without a nonce, and every lock is held in  *)
(* that way or its writer is dead.  What is moved out of the way is the    *)
(* lock of a dead writer or, on release, the writer's own.                 *)
HoldsLock(w) ==
    /\ at[w] = "lease" => lock # None /\ lock.by = w /\ lock.nonce = None
    /\ at[w] \in Leased => lock # None /\ lock.by = w /\ lock.nonce = w
    /\ at[w] = "decide" => moved[w] # None /\ at[moved[w].by] = "dead"
    /\ at[w] = "remove" => moved[w] # None /\ moved[w].nonce = w

LockInv ==
    /\ \A w \in Writers : HoldsLock(w)
    /\ lock # None => at[lock.by] \in Leased \cup {"lease", "dead"}

(* What the holder has made of file and backup at each of its steps.       *)
Exchanging(w) ==
    /\ at[w] = "restore" => file = None
    /\ at[w] = "clear" => file # None /\ backup # None
    /\ at[w] = "read" => file # None /\ backup = None
    /\ at[w] \in {"replace", "aside"} => file # None /\ backup = None /\ file \subseteq payload[w]
    /\ at[w] = "moveIn" => file = None /\ backup \subseteq payload[w]
    /\ at[w] = "drop" => file = payload[w]
    /\ at[w] = "confirm" => file = payload[w] /\ backup = None
    /\ at[w] \in {"wait", "takeOver", "decide", "lease"} => payload[w] = None
    /\ at[w] \in {"recover", "restore", "clear", "read"} /\ payload[w] # None
          => Visible \subseteq payload[w]

FileInv ==
    /\ file # None \/ backup # None
    /\ file # None /\ backup # None => backup \subseteq file
    /\ \A w \in Writers : Exchanging(w)

IInv == TypeOK /\ (ousted \/ (LockInv /\ FileInv /\ done \subseteq Visible))

(* The files and payloads are well formed at first.                        *)
LEMMA TypeInit == Init => TypeOK
<1> SUFFICES ASSUME Init PROVE TypeOK
  OBVIOUS
<1>1. crashes \in 0..MaxCrashes /\ stalls \in 0..MaxStalls
  BY StateFileAssumption DEF Init
<1> QED BY <1>1 DEF Init, TypeOK, Steps, Guarded, Writing, Content

(* What a step makes of the writer that takes it.                          *)
WriterTypes ==
    /\ at \in [Writers -> Steps] /\ checked \in [Writers -> BOOLEAN]
    /\ payload \in [Writers -> Content \cup {None}]
    /\ \A w \in Writers : (at[w] \in Writing => payload[w] # None)
                            /\ (payload[w] # None => w \in payload[w])
    /\ done \in SUBSET Writers
    /\ crashes \in 0..MaxCrashes /\ stalls \in 0..MaxStalls

(* A writer that goes to a step needs a content only where it writes it.   *)
LEMMA QuietlyType ==
    ASSUME TypeOK, NEW w \in Writers, NEW from, NEW to \in Steps, Quietly(w, from, to),
           to \in Writing => payload[w] # None
    PROVE  WriterTypes'
BY DEF TypeOK, WriterTypes, Quietly, Go

(* What a step makes of the lock directories.                              *)
LockTypes ==
    /\ lock \in Lock \cup {None}
    /\ seen \in [Writers -> Writers \cup {None}]
    /\ moved \in [Writers -> Lock \cup {None}]
    /\ ousted \in BOOLEAN

(* A step that leaves the lock directories alone keeps them well formed.   *)
LEMMA LockKept == ASSUME TypeOK, UNCHANGED lockVars PROVE LockTypes'
BY DEF TypeOK, LockTypes, lockVars

(* What it makes of the file and its backup.                               *)
FileTypes == file \in Content \cup {None} /\ backup \in Content \cup {None}

(* A step that leaves the files alone keeps them well formed.              *)
LEMMA FileKept == ASSUME TypeOK, UNCHANGED fileVars PROVE FileTypes'
BY DEF TypeOK, FileTypes, fileVars

(* Every action keeps the types.                                           *)
LEMMA TypeStep == ASSUME TypeOK, [Next]_vars PROVE TypeOK'
<1>0. SUFFICES WriterTypes' /\ LockTypes' /\ FileTypes'
  BY DEF TypeOK, WriterTypes, LockTypes, FileTypes
<1>1. ASSUME NEW w \in Writers, MakeLock(w) PROVE WriterTypes' /\ LockTypes' /\ FileTypes'
  <2>1. WriterTypes'
    BY <1>1, QuietlyType DEF MakeLock, Steps, Guarded, Writing, Quietly, Go, TypeOK
  <2>2. LockTypes'
    BY <1>1 DEF MakeLock, TypeOK, LockTypes, Note, Nonce, Lock
  <2>3. FileTypes'
    BY <1>1, FileKept DEF MakeLock
  <2> QED BY <2>1, <2>2, <2>3
<1>2. ASSUME NEW w \in Writers, WriteLease(w) PROVE WriterTypes' /\ LockTypes' /\ FileTypes'
  <2>1. WriterTypes'
    <3>1. CASE lock # None /\ Nonce(lock) = None
      BY <1>2, <3>1, QuietlyType DEF WriteLease, Steps, Guarded, Writing, Quietly, Go, TypeOK
    <3>2. CASE ~(lock # None /\ Nonce(lock) = None)
      BY <1>2, <3>2, QuietlyType DEF WriteLease, Steps, Guarded, Writing, Quietly, Go, TypeOK
    <3> QED BY <3>1, <3>2
  <2>2. LockTypes'
    <3>1. lock' \in Lock \cup {None} /\ ousted' \in BOOLEAN
      <4>1. lock' \in Lock \cup {None}
        <5>1. lock' = [by |-> w, nonce |-> w, old |-> FALSE] \/ lock' = None
          BY <1>2 DEF WriteLease
        <5>2. [by |-> w, nonce |-> w, old |-> FALSE] \in Lock
          BY DEF Lock
        <5> QED BY <5>1, <5>2
      <4> QED BY <1>2, <4>1, ZenonT(30) DEF WriteLease, Note
    <3> QED BY <1>2, <3>1 DEF WriteLease, TypeOK, LockTypes
  <2>3. FileTypes'
    BY <1>2, FileKept DEF WriteLease
  <2> QED BY <2>1, <2>2, <2>3
<1>3. ASSUME NEW w \in Writers, SeeOldLease(w) PROVE WriterTypes' /\ LockTypes' /\ FileTypes'
  <2>1. WriterTypes'
    BY <1>3, QuietlyType DEF SeeOldLease, Steps, Guarded, Writing, Quietly, Go, TypeOK
  <2>2. LockTypes'
    BY <1>3 DEF SeeOldLease, TypeOK, LockTypes, Note, Nonce, Lock
  <2>3. FileTypes'
    BY <1>3, FileKept DEF SeeOldLease
  <2> QED BY <2>1, <2>2, <2>3
<1>4. ASSUME NEW w \in Writers, MoveOldLock(w) PROVE WriterTypes' /\ LockTypes' /\ FileTypes'
  <2>1. WriterTypes'
    <3>1. CASE lock = None
      BY <1>4, <3>1, QuietlyType DEF MoveOldLock, Steps, Guarded, Writing, Quietly, Go, TypeOK
    <3>2. CASE lock # None
      BY <1>4, <3>2, QuietlyType DEF MoveOldLock, Steps, Guarded, Writing, Quietly, Go, TypeOK
    <3> QED BY <3>1, <3>2
  <2>2. LockTypes'
    BY <1>4 DEF MoveOldLock, TypeOK, LockTypes, Note, Nonce, Lock
  <2>3. FileTypes'
    BY <1>4, FileKept DEF MoveOldLock
  <2> QED BY <2>1, <2>2, <2>3
<1>5. ASSUME NEW w \in Writers, DecideOnMoved(w) PROVE WriterTypes' /\ LockTypes' /\ FileTypes'
  <2>1. WriterTypes'
    BY <1>5, QuietlyType DEF DecideOnMoved, Steps, Guarded, Writing, Quietly, Go, TypeOK
  <2>2. LockTypes'
    BY <1>5 DEF DecideOnMoved, TypeOK, LockTypes, Note, Nonce, Lock, PutBack
  <2>3. FileTypes'
    BY <1>5, FileKept DEF DecideOnMoved
  <2> QED BY <2>1, <2>2, <2>3
<1>6. ASSUME NEW w \in Writers, GiveUp(w) PROVE WriterTypes' /\ LockTypes' /\ FileTypes'
  <2>1. WriterTypes'
    BY <1>6, QuietlyType DEF GiveUp, Steps, Guarded, Writing, Quietly, Go, TypeOK
  <2>2. LockTypes'
    BY <1>6, LockKept DEF GiveUp
  <2>3. FileTypes'
    BY <1>6, FileKept DEF GiveUp
  <2> QED BY <2>1, <2>2, <2>3
<1>7. ASSUME NEW w \in Writers, Release(w) PROVE WriterTypes' /\ LockTypes' /\ FileTypes'
  <2>1. WriterTypes'
    BY <1>7, QuietlyType DEF Release, Steps, Guarded, Writing, Quietly, Go, TypeOK
  <2>2. LockTypes'
    BY <1>7, LockKept DEF Release
  <2>3. FileTypes'
    BY <1>7, FileKept DEF Release
  <2> QED BY <2>1, <2>2, <2>3
<1>8. ASSUME NEW w \in Writers, MoveAway(w) PROVE WriterTypes' /\ LockTypes' /\ FileTypes'
  <2>1. WriterTypes'
    BY <1>8, QuietlyType DEF MoveAway, Steps, Guarded, Writing, Quietly, Go, TypeOK
  <2>2. LockTypes'
    BY <1>8 DEF MoveAway, TypeOK, LockTypes, Note, Nonce, Lock
  <2>3. FileTypes'
    BY <1>8, FileKept DEF MoveAway
  <2> QED BY <2>1, <2>2, <2>3
<1>9. ASSUME NEW w \in Writers, RemoveMoved(w) PROVE WriterTypes' /\ LockTypes' /\ FileTypes'
  <2>1. WriterTypes'
    BY <1>9, QuietlyType DEF RemoveMoved, Steps, Guarded, Writing, Quietly, Go, TypeOK
  <2>2. LockTypes'
    BY <1>9 DEF RemoveMoved, TypeOK, LockTypes, Note, Nonce, Lock, PutBack
  <2>3. FileTypes'
    BY <1>9, FileKept DEF RemoveMoved
  <2> QED BY <2>1, <2>2, <2>3
<1>10. ASSUME NEW w \in Writers, AssertOwned(w) PROVE WriterTypes' /\ LockTypes' /\ FileTypes'
  <2>1. WriterTypes'
    BY <1>10 DEF AssertOwned, WriterTypes, Steps, Writing, TypeOK
  <2>2. LockTypes'
    BY <1>10, LockKept DEF AssertOwned
  <2>3. FileTypes'
    BY <1>10, FileKept DEF AssertOwned
  <2> QED BY <2>1, <2>2, <2>3
<1>11. ASSUME NEW w \in Writers, Recover(w) PROVE WriterTypes' /\ LockTypes' /\ FileTypes'
  <2>1. WriterTypes'
    BY <1>11, QuietlyType DEF Recover, Steps, Guarded, Writing, Quietly, Go, TypeOK
  <2>2. LockTypes'
    BY <1>11, LockKept DEF Recover
  <2>3. FileTypes'
    BY <1>11, FileKept DEF Recover
  <2> QED BY <2>1, <2>2, <2>3
<1>12. ASSUME NEW w \in Writers, Restore(w) PROVE WriterTypes' /\ LockTypes' /\ FileTypes'
  <2>1. WriterTypes'
    <3>1. CASE backup = None
      BY <1>12, <3>1, QuietlyType DEF Restore, Steps, Guarded, Writing, Quietly, Go, TypeOK
    <3>2. CASE backup # None
      BY <1>12, <3>2, QuietlyType DEF Restore, Steps, Guarded, Writing, Quietly, Go, TypeOK
    <3> QED BY <3>1, <3>2
  <2>2. LockTypes'
    BY <1>12, LockKept DEF Restore
  <2>3. FileTypes'
    BY <1>12 DEF Restore, TypeOK, FileTypes, fileVars, Quietly
  <2> QED BY <2>1, <2>2, <2>3
<1>13. ASSUME NEW w \in Writers, Clear(w) PROVE WriterTypes' /\ LockTypes' /\ FileTypes'
  <2>1. WriterTypes'
    BY <1>13, QuietlyType DEF Clear, Steps, Guarded, Writing, Quietly, Go, TypeOK
  <2>2. LockTypes'
    BY <1>13, LockKept DEF Clear
  <2>3. FileTypes'
    BY <1>13 DEF Clear, TypeOK, FileTypes, Quietly
  <2> QED BY <2>1, <2>2, <2>3
<1>14. ASSUME NEW w \in Writers, Read(w) PROVE WriterTypes' /\ LockTypes' /\ FileTypes'
  <2>1. WriterTypes'
    <3>1. CASE payload[w] = None /\ Removes[w] \in Records(Stored) \cup {None}
      <4>1. Stored \cup {w} \in Content
        BY DEF Stored, TypeOK, Content
      <4>2. /\ Go(w, "read", "recover") /\ done' = done
            /\ payload' = [payload EXCEPT ![w] = Stored \cup {w}]
        BY <1>14, <3>1 DEF Read
      <4>3. payload' \in [Writers -> Content \cup {None}] /\ w \in payload'[w]
        BY <4>1, <4>2 DEF TypeOK
      <4>4. at' \in [Writers -> Steps] /\ at'[w] = "recover"
        BY <4>2 DEF Go, TypeOK, Steps, Guarded
      <4>5. ASSUME NEW v \in Writers, v # w
            PROVE  at'[v] = at[v] /\ payload'[v] = payload[v]
        BY <4>2, <4>5 DEF Go, TypeOK
      <4> QED
        BY <4>2, <4>3, <4>4, <4>5 DEF WriterTypes, Writing, Go, TypeOK
    <3>2. CASE ~(payload[w] = None /\ Removes[w] \in Records(Stored) \cup {None})
      <4>1. PICK to \in {"replace", "release"} :
              /\ Go(w, "read", to) /\ UNCHANGED <<payload, done>>
              /\ to = "replace" => payload[w] # None
        BY <1>14, <3>2 DEF Read
      <4> QED BY <4>1, QuietlyType DEF Quietly, Steps, Guarded, Writing
    <3> QED BY <3>1, <3>2
  <2>2. LockTypes'
    BY <1>14, LockKept DEF Read
  <2>3. FileTypes'
    BY <1>14, FileKept DEF Read
  <2> QED BY <2>1, <2>2, <2>3
<1>15. ASSUME NEW w \in Writers, Replace(w) PROVE WriterTypes' /\ LockTypes' /\ FileTypes'
  <2>1. WriterTypes'
    BY <1>15, QuietlyType DEF Replace, Steps, Guarded, Writing, Quietly, Go, TypeOK
  <2>2. LockTypes'
    BY <1>15, LockKept DEF Replace
  <2>3. FileTypes'
    BY <1>15 DEF Replace, TypeOK, FileTypes, Writing, Quietly, Go
  <2> QED BY <2>1, <2>2, <2>3
<1>16. ASSUME NEW w \in Writers, ReplaceDenied(w) PROVE WriterTypes' /\ LockTypes' /\ FileTypes'
  <2>1. WriterTypes'
    BY <1>16, QuietlyType DEF ReplaceDenied, Steps, Guarded, Writing, Quietly, Go, TypeOK
  <2>2. LockTypes'
    BY <1>16, LockKept DEF ReplaceDenied
  <2>3. FileTypes'
    BY <1>16, FileKept DEF ReplaceDenied
  <2> QED BY <2>1, <2>2, <2>3
<1>17. ASSUME NEW w \in Writers, MoveAside(w) PROVE WriterTypes' /\ LockTypes' /\ FileTypes'
  <2>1. WriterTypes'
    <3>1. CASE backup # None \/ file = None
      BY <1>17, <3>1, QuietlyType DEF MoveAside, Steps, Guarded, Writing, Quietly, Go, TypeOK
    <3>2. CASE ~(backup # None \/ file = None)
      BY <1>17, <3>2, QuietlyType DEF MoveAside, Steps, Guarded, Writing, Quietly, Go, TypeOK
    <3> QED BY <3>1, <3>2
  <2>2. LockTypes'
    BY <1>17, LockKept DEF MoveAside
  <2>3. FileTypes'
    BY <1>17 DEF MoveAside, TypeOK, FileTypes, fileVars, Quietly
  <2> QED BY <2>1, <2>2, <2>3
<1>18. ASSUME NEW w \in Writers, MoveIn(w) PROVE WriterTypes' /\ LockTypes' /\ FileTypes'
  <2>1. WriterTypes'
    BY <1>18, QuietlyType DEF MoveIn, Steps, Guarded, Writing, Quietly, Go, TypeOK
  <2>2. LockTypes'
    BY <1>18, LockKept DEF MoveIn
  <2>3. FileTypes'
    BY <1>18 DEF MoveIn, TypeOK, FileTypes, Writing, Quietly, Go
  <2> QED BY <2>1, <2>2, <2>3
<1>19. ASSUME NEW w \in Writers, StepFails(w) PROVE WriterTypes' /\ LockTypes' /\ FileTypes'
  <2>1. WriterTypes'
    BY <1>19 DEF StepFails, WriterTypes, Steps, Guarded, Writing, Quietly, Go, TypeOK
  <2>2. LockTypes'
    BY <1>19, LockKept DEF StepFails
  <2>3. FileTypes'
    BY <1>19, FileKept DEF StepFails
  <2> QED BY <2>1, <2>2, <2>3
<1>20. ASSUME NEW w \in Writers, Drop(w) PROVE WriterTypes' /\ LockTypes' /\ FileTypes'
  <2>1. WriterTypes'
    BY <1>20, QuietlyType DEF Drop, Steps, Guarded, Writing, Quietly, Go, TypeOK
  <2>2. LockTypes'
    BY <1>20, LockKept DEF Drop
  <2>3. FileTypes'
    BY <1>20 DEF Drop, TypeOK, FileTypes, Quietly
  <2> QED BY <2>1, <2>2, <2>3
<1>21. ASSUME NEW w \in Writers, Undo(w) PROVE WriterTypes' /\ LockTypes' /\ FileTypes'
  <2>1. WriterTypes'
    BY <1>21, QuietlyType DEF Undo, Steps, Guarded, Writing, Quietly, Go, TypeOK
  <2>2. LockTypes'
    BY <1>21, LockKept DEF Undo
  <2>3. FileTypes'
    BY <1>21 DEF Undo, TypeOK, FileTypes, fileVars, Quietly
  <2> QED BY <2>1, <2>2, <2>3
<1>22. ASSUME NEW w \in Writers, Confirm(w) PROVE WriterTypes' /\ LockTypes' /\ FileTypes'
  <2>1. WriterTypes'
    BY <1>22 DEF Confirm, WriterTypes, Steps, Writing, Go, TypeOK
  <2>2. LockTypes'
    BY <1>22, LockKept DEF Confirm
  <2>3. FileTypes'
    BY <1>22, FileKept DEF Confirm
  <2> QED BY <2>1, <2>2, <2>3
<1>23. ASSUME NEW w \in Writers, Crash(w) PROVE WriterTypes' /\ LockTypes' /\ FileTypes'
  <2>1. WriterTypes'
    BY <1>23, StateFileAssumption DEF Crash, WriterTypes, Steps, Writing, TypeOK
  <2>2. LockTypes'
    BY <1>23, LockKept DEF Crash
  <2>3. FileTypes'
    BY <1>23, FileKept DEF Crash
  <2> QED BY <2>1, <2>2, <2>3
<1>24. ASSUME NEW w \in Writers, Refresh(w) PROVE WriterTypes' /\ LockTypes' /\ FileTypes'
  <2>1. WriterTypes'
    BY <1>24 DEF Refresh, WriterTypes, TypeOK
  <2>2. LockTypes'
    BY <1>24, NoneAssumption DEF Refresh, TypeOK, LockTypes, Note, Nonce, Lock
  <2>3. FileTypes'
    BY <1>24, FileKept DEF Refresh
  <2> QED BY <2>1, <2>2, <2>3
<1>25. CASE Age
  <2>1. stalls' \in 0..MaxStalls
    BY <1>25, StateFileAssumption DEF Age, TypeOK
  <2>2. WriterTypes'
    BY <1>25, <2>1 DEF Age, WriterTypes, TypeOK
  <2>3. LockTypes'
    BY <1>25 DEF Age, TypeOK, LockTypes, Note, Nonce, Lock
  <2>4. FileTypes'
    BY <1>25, FileKept DEF Age
  <2> QED BY <2>2, <2>3, <2>4
<1>26. CASE UNCHANGED vars
  BY <1>26 DEF vars, TypeOK, WriterTypes, LockTypes, FileTypes
<1> QED
  BY <1>0, <1>1, <1>2, <1>3, <1>4, <1>5, <1>6, <1>7, <1>8, <1>9, <1>10, <1>11, <1>12, <1>13, <1>14, <1>15, <1>16, <1>17, <1>18, <1>19, <1>20, <1>21, <1>22, <1>23, <1>24, <1>25, <1>26 DEF Next

(* A lock directory of a living writer, once touched by another, has been  *)
(* touched.                                                                *)
LEMMA OustedStays == ASSUME [Next]_vars, ousted PROVE ousted'
BY DEF Next, vars, lockVars, Note, MakeLock, WriteLease, SeeOldLease, MoveOldLock,
       DecideOnMoved, GiveUp, Release, MoveAway, RemoveMoved, AssertOwned, Recover,
       Restore, Clear, Read, Replace, ReplaceDenied, MoveAside, MoveIn, StepFails,
       Drop, Undo, Confirm, Crash, Age, Refresh

(* A step of the holder that leaves the directories alone keeps it the     *)
(* holder.                                                                 *)
LEMMA LeasedStep ==
    ASSUME TypeOK, LockInv, NEW w \in Writers, NEW to \in Leased, at[w] \in Leased,
           at' = [at EXCEPT ![w] = to], UNCHANGED <<lock, moved>>
    PROVE  LockInv'
<1>1. to \notin {"lease", "decide", "remove", "dead"} /\ at[w] # "dead"
  BY DEF Leased, Guarded
<1>2. lock # None /\ lock.by = w /\ lock.nonce = w
  BY DEF LockInv, HoldsLock
<1>3. ASSUME NEW v \in Writers PROVE HoldsLock(v)'
  <2>1. CASE v = w
    BY <1>1, <1>2, <2>1 DEF HoldsLock, TypeOK
  <2>2. CASE v # w
    <3>1. at'[v] = at[v] /\ HoldsLock(v)
      BY <2>2 DEF TypeOK, LockInv
    <3>2. at[v] = "decide" => moved[v] # None /\ at'[moved[v].by] = "dead"
      BY <1>1, <3>1 DEF HoldsLock, TypeOK, Lock
    <3> QED BY <3>1, <3>2 DEF HoldsLock
  <2> QED BY <2>1, <2>2
<1> QED BY <1>2, <1>3 DEF LockInv, TypeOK

(* So does a step of a writer that has no lease and takes no directory.    *)
LEMMA OutsideStep ==
    ASSUME TypeOK, LockInv, NEW w \in Writers, NEW to \in {"takeOver", "end"}, at[w] = "wait",
           at' = [at EXCEPT ![w] = to], UNCHANGED <<lock, moved>>
    PROVE  LockInv'
<1>1. to \in Steps /\ to \notin Leased \cup {"lease", "decide", "remove", "dead"}
  BY DEF Leased, Guarded, Steps
<1>2. ASSUME NEW v \in Writers PROVE HoldsLock(v)'
  <2>1. CASE v = w
    BY <1>1, <2>1 DEF HoldsLock, TypeOK
  <2>2. CASE v # w
    <3>1. at'[v] = at[v] /\ HoldsLock(v)
      BY <2>2 DEF TypeOK, LockInv
    <3>2. at[v] = "decide" => moved[v] # None /\ at'[moved[v].by] = "dead"
      BY <3>1 DEF HoldsLock, TypeOK, Lock
    <3> QED BY <3>1, <3>2 DEF HoldsLock
  <2> QED BY <2>1, <2>2
<1>3. lock # None => lock.by # w
  BY DEF LockInv, Leased, Guarded
<1>4. lock # None => at'[lock.by] = at[lock.by]
  BY <1>3 DEF TypeOK, Lock
<1> QED BY <1>2, <1>4 DEF LockInv

(* Unless a directory of a living writer is touched, every action keeps    *)
(* the lock with the writers that hold it.                                 *)
LEMMA LockStep == ASSUME TypeOK, LockInv, [Next]_vars, ~ousted' PROVE LockInv'
<1> USE NoneAssumption
<1>0. /\ \A w \in Writers : at[w] \in Steps /\ HoldsLock(w) /\ w # None
      /\ lock # None => lock \in Lock /\ lock.by \in Writers
      /\ \A w \in Writers : moved[w] # None => moved[w] \in Lock /\ moved[w].by \in Writers
  BY DEF TypeOK, LockInv, Lock
<1>1. ASSUME NEW w \in Writers, MakeLock(w) PROVE LockInv'
  <2>1. /\ at[w] = "wait" /\ at' = [at EXCEPT ![w] = "lease"] /\ moved' = moved
        /\ lock = None /\ lock' = [by |-> w, nonce |-> None, old |-> FALSE]
    BY <1>1 DEF MakeLock, Quietly, Go
  <2>2. lock' # None
    BY <2>1 DEF Lock
  <2>3. ASSUME NEW v \in Writers PROVE HoldsLock(v)'
    <3>1. CASE v = w
      BY <2>1, <2>2, <3>1 DEF HoldsLock, TypeOK, Leased, Guarded
    <3>2. CASE v # w
      <4>1. at'[v] = at[v] /\ at[v] \notin Leased \cup {"lease"}
        BY <1>0, <2>1, <3>2 DEF TypeOK, HoldsLock
      <4>2. at[v] = "decide" => moved[v] # None /\ at'[moved[v].by] = "dead"
        BY <1>0, <2>1 DEF HoldsLock, TypeOK
      <4> QED BY <1>0, <2>1, <4>1, <4>2 DEF HoldsLock
    <3> QED BY <3>1, <3>2
  <2> QED BY <2>1, <2>3 DEF LockInv, TypeOK
<1>2. ASSUME NEW w \in Writers, WriteLease(w) PROVE LockInv'
  <2>1. at[w] = "lease" /\ lock # None /\ lock.by = w /\ lock.nonce = None
    BY <1>0, <1>2 DEF WriteLease, Quietly, Go, HoldsLock
  <2>2. /\ at' = [at EXCEPT ![w] = "recover"] /\ moved' = moved
        /\ lock' = [by |-> w, nonce |-> w, old |-> FALSE]
    BY <1>2, <2>1 DEF WriteLease, Quietly, Go, Nonce
  <2>3. lock' # None
    BY <2>2 DEF Lock
  <2>4. ASSUME NEW v \in Writers PROVE HoldsLock(v)'
    <3>1. CASE v = w
      BY <2>2, <2>3, <3>1 DEF HoldsLock, TypeOK
    <3>2. CASE v # w
      <4>1. at'[v] = at[v] /\ at[v] \notin Leased \cup {"lease"}
        BY <1>0, <2>1, <2>2, <3>2 DEF TypeOK, HoldsLock
      <4>2. at[v] = "decide" => moved[v] # None /\ at'[moved[v].by] = "dead"
        BY <1>0, <2>1, <2>2 DEF HoldsLock, TypeOK
      <4> QED BY <1>0, <2>2, <4>1, <4>2 DEF HoldsLock
    <3> QED BY <3>1, <3>2
  <2> QED BY <2>2, <2>4 DEF LockInv, TypeOK, Leased, Guarded
<1>3. ASSUME NEW w \in Writers, SeeOldLease(w) PROVE LockInv'
  BY <1>3, OutsideStep DEF SeeOldLease, Quietly, Go
<1>4. ASSUME NEW w \in Writers, MoveOldLock(w) PROVE LockInv'
  <2>1. at[w] = "takeOver" /\ lock' = None /\ Note(w)
    BY <1>4 DEF MoveOldLock, Quietly, Go
  <2>2. lock # None => lock.by # w /\ at[lock.by] = "dead"
    BY <1>0, <2>1 DEF LockInv, Leased, Guarded, Note
  <2>3. CASE lock = None
    <3>1. at' = [at EXCEPT ![w] = "wait"] /\ moved' = moved
      BY <1>4, <2>3 DEF MoveOldLock, Quietly, Go
    <3>2. ASSUME NEW v \in Writers PROVE HoldsLock(v)'
      <4>1. CASE v = w
        BY <2>1, <3>1, <4>1 DEF HoldsLock, TypeOK, Leased, Guarded
      <4>2. CASE v # w
        <5>1. at'[v] = at[v]
          BY <3>1, <4>2 DEF TypeOK
        <5>2. at[v] = "decide" => moved[v] # None /\ at'[moved[v].by] = "dead"
          BY <1>0, <2>1, <3>1 DEF HoldsLock, TypeOK
        <5> QED BY <1>0, <2>3, <3>1, <5>1, <5>2 DEF HoldsLock
      <4> QED BY <4>1, <4>2
    <3> QED BY <2>1, <3>2 DEF LockInv
  <2>4. CASE lock # None
    <3>1. at' = [at EXCEPT ![w] = "decide"] /\ moved' = [moved EXCEPT ![w] = lock]
      BY <1>4, <2>4 DEF MoveOldLock, Quietly, Go
    <3>2. ASSUME NEW v \in Writers PROVE HoldsLock(v)'
      <4>1. CASE v = w
        BY <1>0, <2>2, <2>4, <3>1, <4>1 DEF HoldsLock, TypeOK, Leased, Guarded
      <4>2. CASE v # w
        <5>1. at'[v] = at[v] /\ moved'[v] = moved[v]
          BY <3>1, <4>2 DEF TypeOK
        <5>2. at[v] = "decide" => moved[v] # None /\ at'[moved[v].by] = "dead"
          BY <1>0, <2>1, <3>1 DEF HoldsLock, TypeOK
        <5>3. at[v] \notin Leased \cup {"lease"}
          BY <1>0, <2>2, <2>4 DEF HoldsLock, Leased, Guarded
        <5> QED BY <1>0, <5>1, <5>2, <5>3 DEF HoldsLock
      <4> QED BY <4>1, <4>2
    <3> QED BY <2>1, <3>2 DEF LockInv
  <2> QED BY <2>3, <2>4
<1>5. ASSUME NEW w \in Writers, DecideOnMoved(w) PROVE LockInv'
  <2>1. /\ at[w] = "decide" /\ moved' = [moved EXCEPT ![w] = None]
        /\ moved[w] # None /\ at[moved[w].by] = "dead"
        /\ Note(w)
    BY <1>0, <1>5 DEF DecideOnMoved, HoldsLock
  <2>2. PICK to \in {"wait", "end"} : at' = [at EXCEPT ![w] = to]
    BY <1>5 DEF DecideOnMoved, Quietly, Go
  <2>3. lock' = lock \/ (lock' = moved[w] /\ (lock = None \/ Nonce(lock) = None))
    BY <1>5 DEF DecideOnMoved, PutBack
  <2>4. lock # None => lock.by # w
    BY <2>1 DEF LockInv, Leased, Guarded
  <2>5. lock' # lock => lock = None \/ at[lock.by] = "dead"
    BY <2>1, <2>4 DEF Note
  <2>6. lock' # None => lock'.by \in Writers /\ at'[lock'.by] \in Leased \cup {"lease", "dead"}
    <3>1. CASE lock' = lock
      BY <1>0, <2>2, <2>4, <3>1 DEF TypeOK, LockInv
    <3>2. CASE lock' = moved[w]
      BY <1>0, <2>1, <2>2, <3>2 DEF TypeOK
    <3> QED BY <2>3, <3>1, <3>2
  <2>7. ASSUME NEW v \in Writers PROVE HoldsLock(v)'
    <3>1. CASE v = w
      BY <2>2, <3>1 DEF HoldsLock, TypeOK, Leased, Guarded
    <3>2. CASE v # w
      <4>1. at'[v] = at[v] /\ moved'[v] = moved[v]
        BY <2>1, <2>2, <3>2 DEF TypeOK
      <4>2. at[v] = "decide" => moved[v] # None /\ at'[moved[v].by] = "dead"
        BY <1>0, <2>1, <2>2 DEF HoldsLock, TypeOK
      <4>3. at[v] \in Leased \cup {"lease"} => lock' = lock
        BY <1>0, <2>5 DEF HoldsLock, Leased, Guarded
      <4> QED BY <1>0, <4>1, <4>2, <4>3 DEF HoldsLock
    <3> QED BY <3>1, <3>2
  <2> QED BY <2>6, <2>7 DEF LockInv
<1>6. ASSUME NEW w \in Writers, GiveUp(w) PROVE LockInv'
  BY <1>6, OutsideStep DEF GiveUp, Quietly, Go, lockVars
<1>7. ASSUME NEW w \in Writers, MoveAway(w) PROVE LockInv'
  <2>1. at[w] = "moveAway" /\ lock # None /\ lock.by = w /\ lock.nonce = w
    BY <1>0, <1>7 DEF MoveAway, Quietly, Go, HoldsLock, Leased
  <2>2. /\ at' = [at EXCEPT ![w] = "remove"] /\ moved' = [moved EXCEPT ![w] = lock]
        /\ lock' = None
    BY <1>7, <2>1 DEF MoveAway, Quietly, Go
  <2>3. ASSUME NEW v \in Writers PROVE HoldsLock(v)'
    <3>1. CASE v = w
      BY <2>1, <2>2, <3>1 DEF HoldsLock, TypeOK, Leased, Guarded
    <3>2. CASE v # w
      <4>1. at'[v] = at[v] /\ moved'[v] = moved[v]
        BY <2>2, <3>2 DEF TypeOK
      <4>2. at[v] = "decide" => moved[v] # None /\ at'[moved[v].by] = "dead"
        BY <1>0, <2>1, <2>2 DEF HoldsLock, TypeOK
      <4>3. at[v] \notin Leased \cup {"lease"}
        BY <1>0, <2>1, <3>2 DEF HoldsLock
      <4> QED BY <1>0, <4>1, <4>2, <4>3 DEF HoldsLock
    <3> QED BY <3>1, <3>2
  <2> QED BY <2>2, <2>3 DEF LockInv
<1>8. ASSUME NEW w \in Writers, RemoveMoved(w) PROVE LockInv'
  <2>1. /\ at[w] = "remove" /\ at' = [at EXCEPT ![w] = "end"]
        /\ moved' = [moved EXCEPT ![w] = None] /\ lock' = lock
    BY <1>0, <1>8 DEF RemoveMoved, Quietly, Go, HoldsLock, Nonce
  <2>2. lock # None => lock.by # w
    BY <2>1 DEF LockInv, Leased, Guarded
  <2>3. ASSUME NEW v \in Writers PROVE HoldsLock(v)'
    <3>1. CASE v = w
      BY <2>1, <3>1 DEF HoldsLock, TypeOK, Leased, Guarded
    <3>2. CASE v # w
      <4>1. at'[v] = at[v] /\ moved'[v] = moved[v]
        BY <2>1, <3>2 DEF TypeOK
      <4>2. at[v] = "decide" => moved[v] # None /\ at'[moved[v].by] = "dead"
        BY <1>0, <2>1 DEF HoldsLock, TypeOK
      <4> QED BY <1>0, <2>1, <4>1, <4>2 DEF HoldsLock
    <3> QED BY <3>1, <3>2
  <2> QED BY <1>0, <2>1, <2>2, <2>3 DEF LockInv, TypeOK
<1>9. ASSUME NEW w \in Writers, Release(w) PROVE LockInv'
  <2>1. at[w] = "release" /\ Nonce(lock) = w
    BY <1>0, <1>9 DEF Release, Quietly, Go, HoldsLock, Leased, Nonce
  <2> QED BY <1>9, <2>1, LeasedStep DEF Release, Quietly, Go, lockVars, Leased
<1>10. ASSUME NEW w \in Writers, AssertOwned(w) PROVE LockInv'
  <2>1. at[w] \in Leased /\ Owns(w)
    BY <1>0, <1>10 DEF AssertOwned, HoldsLock, Leased, Nonce, Owns
  <2> QED BY <1>10, <2>1 DEF AssertOwned, LockInv, HoldsLock, lockVars
<1>11. ASSUME NEW w \in Writers, Recover(w) PROVE LockInv'
  BY <1>11, LeasedStep DEF Recover, Quietly, Go, lockVars, Leased, Guarded
<1>12. ASSUME NEW w \in Writers, Restore(w) PROVE LockInv'
  BY <1>12, LeasedStep DEF Restore, Quietly, Go, lockVars, Leased, Guarded
<1>13. ASSUME NEW w \in Writers, Clear(w) PROVE LockInv'
  BY <1>13, LeasedStep DEF Clear, Quietly, Go, lockVars, Leased, Guarded
<1>14. ASSUME NEW w \in Writers, Read(w) PROVE LockInv'
  BY <1>14, LeasedStep DEF Read, Quietly, Go, lockVars, Leased, Guarded
<1>15. ASSUME NEW w \in Writers, Replace(w) PROVE LockInv'
  BY <1>15, LeasedStep DEF Replace, Quietly, Go, lockVars, Leased, Guarded
<1>16. ASSUME NEW w \in Writers, ReplaceDenied(w) PROVE LockInv'
  BY <1>16, LeasedStep DEF ReplaceDenied, Quietly, Go, lockVars, Leased, Guarded
<1>17. ASSUME NEW w \in Writers, MoveAside(w) PROVE LockInv'
  BY <1>17, LeasedStep DEF MoveAside, Quietly, Go, lockVars, Leased, Guarded
<1>18. ASSUME NEW w \in Writers, MoveIn(w) PROVE LockInv'
  BY <1>18, LeasedStep DEF MoveIn, Quietly, Go, lockVars, Leased, Guarded
<1>19. ASSUME NEW w \in Writers, StepFails(w) PROVE LockInv'
  <2>1. PICK to \in {"undo", "release"} : at' = [at EXCEPT ![w] = to]
    BY <1>19 DEF StepFails, Quietly, Go
  <2> QED BY <1>19, <2>1, LeasedStep DEF StepFails, lockVars, Leased, Guarded
<1>20. ASSUME NEW w \in Writers, Drop(w) PROVE LockInv'
  BY <1>20, LeasedStep DEF Drop, Quietly, Go, lockVars, Leased, Guarded
<1>21. ASSUME NEW w \in Writers, Undo(w) PROVE LockInv'
  BY <1>21, LeasedStep DEF Undo, Quietly, Go, lockVars, Leased, Guarded
<1>22. ASSUME NEW w \in Writers, Confirm(w) PROVE LockInv'
  BY <1>22, LeasedStep DEF Confirm, Quietly, Go, lockVars, Leased, Guarded
<1>23. ASSUME NEW w \in Writers, Crash(w) PROVE LockInv'
  <2>1. at[w] # "dead" /\ at' = [at EXCEPT ![w] = "dead"] /\ lock' = lock /\ moved' = moved
    BY <1>23 DEF Crash, lockVars
  <2>2. ASSUME NEW v \in Writers PROVE HoldsLock(v)'
    <3>1. CASE v = w
      BY <2>1, <3>1 DEF HoldsLock, TypeOK, Leased, Guarded
    <3>2. CASE v # w
      <4>1. at'[v] = at[v]
        BY <2>1, <3>2 DEF TypeOK
      <4>2. at[v] = "decide" => moved[v] # None /\ at'[moved[v].by] = "dead"
        BY <1>0, <2>1 DEF HoldsLock, TypeOK
      <4> QED BY <1>0, <2>1, <4>1, <4>2 DEF HoldsLock
    <3> QED BY <3>1, <3>2
  <2>3. lock # None => at'[lock.by] \in Leased \cup {"lease", "dead"}
    BY <1>0, <2>1 DEF LockInv, TypeOK
  <2> QED BY <2>1, <2>2, <2>3 DEF LockInv
<1>24. ASSUME NEW w \in Writers, Refresh(w) PROVE LockInv'
  <2>1. lock # None /\ lock' = [lock EXCEPT !.old = FALSE] /\ at' = at /\ moved' = moved
    BY <1>0, <1>24 DEF Refresh, Nonce
  <2>2. lock' # None /\ lock'.by = lock.by /\ lock'.nonce = lock.nonce
    BY <1>0, <2>1 DEF Lock
  <2> QED BY <2>1, <2>2 DEF LockInv, HoldsLock
<1>25. CASE Age
  <2>1. lock # None /\ lock' = [lock EXCEPT !.old = TRUE] /\ at' = at /\ moved' = moved
    BY <1>25 DEF Age
  <2>2. lock' # None /\ lock'.by = lock.by /\ lock'.nonce = lock.nonce
    BY <1>0, <2>1 DEF Lock
  <2> QED BY <2>1, <2>2 DEF LockInv, HoldsLock
<1>26. CASE UNCHANGED vars
  BY <1>26 DEF vars, LockInv, HoldsLock
<1> QED
  BY <1>1, <1>2, <1>3, <1>4, <1>5, <1>6, <1>7, <1>8, <1>9, <1>10, <1>11, <1>12, <1>13, <1>14, <1>15, <1>16, <1>17, <1>18, <1>19, <1>20, <1>21, <1>22, <1>23, <1>24, <1>25, <1>26 DEF Next

(* Of the writers that live and whose directory was not touched, one at a  *)
(* time is past the lease file.                                            *)
LEMMA OneHolder ==
    ASSUME LockInv, NEW v \in Writers, NEW w \in Writers, at[v] \in Leased, at[w] \in Leased
    PROVE  v = w
BY DEF LockInv, HoldsLock

Stores == FileInv /\ done \subseteq Visible

(* A step that leaves file, backup and what is done alone keeps what is    *)
(* stored, if its writer may be where it goes.                             *)
LEMMA ElsewhereStep ==
    ASSUME Stores, NEW w \in Writers, Exchanging(w)', UNCHANGED <<file, backup, done>>,
           \A v \in Writers \ {w} : at'[v] = at[v] /\ payload'[v] = payload[v]
    PROVE  Stores'
<1>1. ASSUME NEW v \in Writers, v # w PROVE Exchanging(v)'
  BY <1>1 DEF Stores, FileInv, Exchanging, Visible
<1> QED BY <1>1 DEF Stores, FileInv, Visible

(* The holder alone may change the files: the others are not at a step     *)
(* that says anything of them.                                             *)
LEMMA HolderStep ==
    ASSUME TypeOK, LockInv, Stores, NEW w \in Writers, at[w] \in Leased, NEW to,
           at' = [at EXCEPT ![w] = to], payload' = payload, Exchanging(w)',
           file' # None \/ backup' # None,
           file' # None /\ backup' # None => backup' \subseteq file',
           done' \subseteq Visible'
    PROVE  Stores'
<1>1. ASSUME NEW v \in Writers, v # w PROVE Exchanging(v)'
  <2>1. at'[v] = at[v] /\ at[v] \notin Leased /\ Exchanging(v)
    BY <1>1, OneHolder DEF TypeOK, Stores, FileInv
  <2> QED BY <2>1 DEF Exchanging, Leased, Guarded
<1> QED BY <1>1 DEF Stores, FileInv

(* Unless a directory of a living writer is touched, every action keeps    *)
(* the file or its backup, and what is done in it.                         *)
LEMMA StoresStep ==
    ASSUME TypeOK, LockInv, Stores, [Next]_vars
    PROVE  Stores'
<1> USE NoneAssumption
<1>0. \A w \in Writers : at[w] \in Writing => payload[w] # None /\ w \in payload[w]
  BY DEF TypeOK
<1>e. \A w \in Writers : Exchanging(w)
  BY DEF Stores, FileInv
<1>1. ASSUME NEW w \in Writers, MakeLock(w) PROVE Stores'
  BY <1>1, <1>e, ElsewhereStep DEF MakeLock, Quietly, Go, fileVars, Exchanging, TypeOK, Visible
<1>2. ASSUME NEW w \in Writers, WriteLease(w) PROVE Stores'
  BY <1>2, <1>e, ElsewhereStep DEF WriteLease, Quietly, Go, fileVars, Exchanging, TypeOK, Visible
<1>3. ASSUME NEW w \in Writers, SeeOldLease(w) PROVE Stores'
  BY <1>3, <1>e, ElsewhereStep DEF SeeOldLease, Quietly, Go, fileVars, Exchanging, TypeOK, Visible
<1>4. ASSUME NEW w \in Writers, MoveOldLock(w) PROVE Stores'
  BY <1>4, <1>e, ElsewhereStep DEF MoveOldLock, Quietly, Go, fileVars, Exchanging, TypeOK, Visible
<1>5. ASSUME NEW w \in Writers, DecideOnMoved(w) PROVE Stores'
  BY <1>5, <1>e, ElsewhereStep DEF DecideOnMoved, Quietly, Go, fileVars, Exchanging, TypeOK, Visible
<1>6. ASSUME NEW w \in Writers, GiveUp(w) PROVE Stores'
  BY <1>6, ElsewhereStep DEF GiveUp, Quietly, Go, fileVars, Exchanging, TypeOK
<1>7. ASSUME NEW w \in Writers, Release(w) PROVE Stores'
  BY <1>7, ElsewhereStep DEF Release, Quietly, Go, fileVars, Exchanging, TypeOK
<1>8. ASSUME NEW w \in Writers, MoveAway(w) PROVE Stores'
  BY <1>8, ElsewhereStep DEF MoveAway, Quietly, Go, fileVars, Exchanging, TypeOK
<1>9. ASSUME NEW w \in Writers, RemoveMoved(w) PROVE Stores'
  BY <1>9, ElsewhereStep DEF RemoveMoved, Quietly, Go, fileVars, Exchanging, TypeOK
<1>10. ASSUME NEW w \in Writers, AssertOwned(w) PROVE Stores'
  <2>1. UNCHANGED <<file, backup, done, payload>>
    BY <1>10 DEF AssertOwned, fileVars
  <2>2. CASE at' = at
    BY <2>1, <2>2 DEF Stores, FileInv, Exchanging, Visible
  <2>3. CASE at' = [at EXCEPT ![w] = "release"]
    BY <2>1, <2>3, ElsewhereStep DEF Exchanging, TypeOK
  <2> QED BY <1>10, <2>2, <2>3 DEF AssertOwned
<1>11. ASSUME NEW w \in Writers, Recover(w) PROVE Stores'
  BY <1>11, <1>e, ElsewhereStep DEF Recover, Quietly, Go, fileVars, Exchanging, TypeOK, Visible, Stores, FileInv
<1>12. ASSUME NEW w \in Writers, Restore(w) PROVE Stores'
  <2>1. at[w] = "restore" /\ Exchanging(w)
    BY <1>12 DEF Restore, Quietly, Go, Stores, FileInv
  <2>2. file = None /\ backup # None /\ file' = backup /\ backup' = None /\ done' = done
    BY <1>12, <2>1 DEF Restore, Quietly, Go, Stores, FileInv, Exchanging
  <2>3. at' = [at EXCEPT ![w] = "read"] /\ payload' = payload
    BY <1>12, <2>2 DEF Restore, Quietly, Go
  <2>4. Exchanging(w)' /\ done' \subseteq Visible'
    BY <1>0, <2>1, <2>2, <2>3 DEF Exchanging, Visible, Stores, TypeOK, Writing
  <2> QED
    BY <1>0, <2>1, <2>2, <2>3, <2>4, HolderStep DEF Leased, Guarded, Writing
<1>13. ASSUME NEW w \in Writers, Clear(w) PROVE Stores'
  <2>1. at[w] = "clear" /\ Exchanging(w)
    BY <1>13 DEF Clear, Quietly, Go, Stores, FileInv
  <2>2. file # None /\ backup # None /\ backup \subseteq file
    BY <2>1 DEF Stores, FileInv, Exchanging
  <2>3. PICK to \in {"read", "release"} :
          /\ at' = [at EXCEPT ![w] = to] /\ UNCHANGED <<file, payload, done>>
          /\ backup' = IF to = "read" THEN None ELSE backup
    BY <1>13, <2>2 DEF Clear, Quietly, Go
  <2>4. Visible' = Visible
    BY <2>2, <2>3 DEF Visible
  <2>5. Exchanging(w)'
    BY <2>1, <2>2, <2>3, <2>4 DEF Exchanging, TypeOK
  <2>6. done' \subseteq Visible'
    BY <2>3, <2>4 DEF Stores
  <2> QED BY <2>1, <2>2, <2>3, <2>5, <2>6, HolderStep DEF Leased, Guarded
<1>14. ASSUME NEW w \in Writers, Read(w) PROVE Stores'
  <2>1. /\ at[w] = "read" /\ file # None /\ backup = None
        /\ payload[w] # None => file \subseteq payload[w]
    BY <1>14 DEF Read, Go, Stores, FileInv, Exchanging, Visible
  <2>2. UNCHANGED <<file, backup, done>>
    BY <1>14 DEF Read, fileVars
  <2>3. \A v \in Writers \ {w} : at'[v] = at[v] /\ payload'[v] = payload[v]
    BY <1>14 DEF Read, Go, TypeOK
  <2>4. \/ at'[w] = "recover" /\ payload'[w] = file \cup {w}
        \/ at'[w] = "release"
        \/ at'[w] = "replace" /\ payload'[w] = payload[w] /\ file \subseteq payload[w]
    BY <1>14, <2>1 DEF Read, Go, TypeOK, Stored
  <2>5. Exchanging(w)'
    BY <2>1, <2>2, <2>4 DEF Exchanging, Visible
  <2> QED BY <2>2, <2>3, <2>5, ElsewhereStep
<1>15. ASSUME NEW w \in Writers, Replace(w) PROVE Stores'
  <2>1. at[w] = "replace" /\ Exchanging(w)
    BY <1>15 DEF Replace, Quietly, Go, Stores, FileInv
  <2>2. backup = None /\ file # None /\ file \subseteq payload[w] /\ file' = payload[w] /\ backup' = backup /\ done' = done
    BY <1>15, <2>1 DEF Replace, Quietly, Go, Stores, FileInv, Exchanging
  <2>3. at' = [at EXCEPT ![w] = "confirm"] /\ payload' = payload
    BY <1>15, <2>2 DEF Replace, Quietly, Go
  <2>4. Exchanging(w)' /\ done' \subseteq Visible'
    BY <1>0, <2>1, <2>2, <2>3 DEF Exchanging, Visible, Stores, TypeOK, Writing
  <2> QED
    BY <1>0, <2>1, <2>2, <2>3, <2>4, HolderStep DEF Leased, Guarded, Writing
<1>16. ASSUME NEW w \in Writers, ReplaceDenied(w) PROVE Stores'
  BY <1>16, <1>e, ElsewhereStep DEF ReplaceDenied, Quietly, Go, fileVars, Exchanging, TypeOK, Visible, Stores, FileInv
<1>17. ASSUME NEW w \in Writers, MoveAside(w) PROVE Stores'
  <2>1. at[w] = "aside" /\ Exchanging(w)
    BY <1>17 DEF MoveAside, Quietly, Go, Stores, FileInv
  <2>2. backup = None /\ file # None /\ file \subseteq payload[w] /\ file' = None /\ backup' = file /\ done' = done
    BY <1>17, <2>1 DEF MoveAside, Quietly, Go, Stores, FileInv, Exchanging
  <2>3. at' = [at EXCEPT ![w] = "moveIn"] /\ payload' = payload
    BY <1>17, <2>2 DEF MoveAside, Quietly, Go
  <2>4. Exchanging(w)' /\ done' \subseteq Visible'
    BY <1>0, <2>1, <2>2, <2>3 DEF Exchanging, Visible, Stores, TypeOK, Writing
  <2> QED
    BY <1>0, <2>1, <2>2, <2>3, <2>4, HolderStep DEF Leased, Guarded, Writing
<1>18. ASSUME NEW w \in Writers, MoveIn(w) PROVE Stores'
  <2>1. at[w] = "moveIn" /\ Exchanging(w)
    BY <1>18 DEF MoveIn, Quietly, Go, Stores, FileInv
  <2>2. file = None /\ backup # None /\ backup \subseteq payload[w] /\ file' = payload[w] /\ backup' = backup /\ done' = done
    BY <1>18, <2>1 DEF MoveIn, Quietly, Go, Stores, FileInv, Exchanging
  <2>3. at' = [at EXCEPT ![w] = "drop"] /\ payload' = payload
    BY <1>18, <2>2 DEF MoveIn, Quietly, Go
  <2>4. Exchanging(w)' /\ done' \subseteq Visible'
    BY <1>0, <2>1, <2>2, <2>3 DEF Exchanging, Visible, Stores, TypeOK, Writing
  <2> QED
    BY <1>0, <2>1, <2>2, <2>3, <2>4, HolderStep DEF Leased, Guarded, Writing
<1>19. ASSUME NEW w \in Writers, StepFails(w) PROVE Stores'
  <2>1. PICK to \in {"undo", "release"} : at' = [at EXCEPT ![w] = to]
    BY <1>19 DEF StepFails, Quietly, Go
  <2>2. UNCHANGED <<file, backup, done, payload>>
    BY <1>19 DEF StepFails, Quietly, fileVars
  <2> QED BY <2>1, <2>2, ElsewhereStep DEF Exchanging, TypeOK
<1>20. ASSUME NEW w \in Writers, Drop(w) PROVE Stores'
  <2>1. at[w] = "drop" /\ Exchanging(w)
    BY <1>20 DEF Drop, Quietly, Go, Stores, FileInv
  <2>2. file = payload[w] /\ file' = file /\ backup' = None /\ done' = done
    BY <1>20, <2>1 DEF Drop, Quietly, Go, Stores, FileInv, Exchanging
  <2>3. at' = [at EXCEPT ![w] = "confirm"] /\ payload' = payload
    BY <1>20, <2>2 DEF Drop, Quietly, Go
  <2>4. Exchanging(w)' /\ done' \subseteq Visible'
    BY <1>0, <2>1, <2>2, <2>3 DEF Exchanging, Visible, Stores, TypeOK, Writing
  <2> QED
    BY <1>0, <2>1, <2>2, <2>3, <2>4, HolderStep DEF Leased, Guarded, Writing
<1>21. ASSUME NEW w \in Writers, Undo(w) PROVE Stores'
  <2>1. at[w] = "undo" /\ at' = [at EXCEPT ![w] = "release"] /\ UNCHANGED <<payload, done>>
    BY <1>21 DEF Undo, Quietly, Go
  <2>2. Exchanging(w)'
    BY <2>1 DEF Exchanging, TypeOK
  <2>3. CASE file = None /\ backup # None
    BY <1>21, <2>1, <2>2, <2>3, HolderStep DEF Undo, Leased, Guarded, Stores, Visible
  <2>4. CASE ~(file = None /\ backup # None)
    BY <1>21, <2>1, <2>2, <2>4, HolderStep DEF Undo, Leased, Guarded, Stores, FileInv, Visible, fileVars
  <2> QED BY <2>3, <2>4
<1>22. ASSUME NEW w \in Writers, Confirm(w) PROVE Stores'
  <2>1. at[w] = "confirm" /\ Exchanging(w)
    BY <1>22 DEF Confirm, Quietly, Go, Stores, FileInv
  <2>2. file = payload[w] /\ backup = None /\ file' = file /\ backup' = backup /\ done' = done \cup {w}
    BY <1>22, <2>1 DEF Confirm, Quietly, Go, Stores, FileInv, Exchanging, fileVars
  <2>3. at' = [at EXCEPT ![w] = "release"] /\ payload' = payload
    BY <1>22, <2>2 DEF Confirm, Quietly, Go
  <2>4. Exchanging(w)' /\ done' \subseteq Visible'
    BY <1>0, <2>1, <2>2, <2>3 DEF Exchanging, Visible, Stores, TypeOK, Writing
  <2> QED
    BY <1>0, <2>1, <2>2, <2>3, <2>4, HolderStep DEF Leased, Guarded, Writing
<1>23. ASSUME NEW w \in Writers, Crash(w) PROVE Stores'
  BY <1>23, ElsewhereStep DEF Crash, fileVars, Exchanging, TypeOK
<1>24. ASSUME NEW w \in Writers, Refresh(w) PROVE Stores'
  BY <1>24 DEF Refresh, fileVars, Stores, FileInv, Exchanging, Visible
<1>25. CASE Age
  BY <1>25 DEF Age, fileVars, Stores, FileInv, Exchanging, Visible
<1>26. CASE UNCHANGED vars
  BY <1>26 DEF vars, Stores, FileInv, Exchanging, Visible
<1> QED
  BY <1>1, <1>2, <1>3, <1>4, <1>5, <1>6, <1>7, <1>8, <1>9, <1>10, <1>11, <1>12, <1>13, <1>14, <1>15, <1>16, <1>17, <1>18, <1>19, <1>20, <1>21, <1>22, <1>23, <1>24, <1>25, <1>26 DEF Next

(* The invariant: the state is well formed, and unless a directory of a    *)
(* living writer was touched, the lock is its holder's and what is stored  *)
(* is there.                                                               *)
LEMMA IInvHolds == Spec => []IInv
<1>1. Init => IInv
  <2> SUFFICES ASSUME Init PROVE IInv
    OBVIOUS
  <2>1. file # None
    BY NoneAssumption DEF Init, Content
  <2> QED
    BY <2>1, TypeInit
       DEF Init, IInv, LockInv, HoldsLock, Leased, Guarded, FileInv, Exchanging, Visible
<1>2. ASSUME IInv, [Next]_vars PROVE IInv'
  <2>1. TypeOK /\ TypeOK'
    BY <1>2, TypeStep DEF IInv
  <2>2. CASE ousted'
    BY <2>1, <2>2 DEF IInv
  <2>3. CASE ~ousted'
    <3>1. LockInv /\ Stores
      BY <1>2, <2>3, OustedStays DEF IInv, Stores
    <3> QED BY <1>2, <2>1, <2>3, <3>1, LockStep, StoresStep DEF IInv, Stores
  <2> QED BY <2>2, <2>3
<1> QED BY <1>1, <1>2, PTL DEF Spec

(* Lock, file, backup and every writer are always in one of the states the *)
(* steps of dreamina-cli-state.ts pass through.                            *)
THEOREM TypeCorrect == Spec => []TypeOK
<1>1. IInv => TypeOK
  BY DEF IInv
<1> QED BY <1>1, IInvHolds, PTL

(* At most one writer is between its lease and its release, unless a lock  *)
(* directory was touched under a writer that lives.                        *)
Exclusive ==
    ousted \/ \A v, w \in Writers : at[v] \in Leased /\ at[w] \in Leased => v = w

(* The lock of the state file excludes: acquireStateLock, the takeover of  *)
(* a stale lease and the release, whoever dies in between.                 *)
THEOREM MutualExclusion == Spec => []Exclusive
<1>1. IInv => Exclusive
  BY OneHolder DEF IInv, Exclusive
<1> QED BY <1>1, IInvHolds, PTL

(* A change reported as stored is not lost again, whoever dies between     *)
(* which renames (replaceStateFile, recoverStateReplacement).              *)
THEOREM StoredIsKept == Spec => []DoneIsStored
<1>1. IInv => DoneIsStored
  BY DEF IInv, DoneIsStored
<1> QED BY <1>1, IInvHolds, PTL

(* The file or its backup is there, whoever dies or fails between which    *)
(* steps; a file beside its backup holds every change of it, and only a    *)
(* record that was taken out keeps recovery from going on (Progression).   *)
THEOREM ExchangeIsRecoverable == Spec => []Recoverable
<1>1. ASSUME IInv PROVE Recoverable
  <2>1. ousted \/ FileInv
    BY <1>1 DEF IInv
  <2>2. ASSUME NEW x \in Records(backup) \ Records(file), backup \subseteq file
        PROVE  \E v \in file \ backup : Removes[v] \in Records(backup)
    BY <2>2 DEF Records
  <2>3. FileInv => Recoverable
    BY <2>2 DEF FileInv, Recoverable, Progression
  <2> QED BY <2>1, <2>3 DEF Recoverable
<1> QED BY <1>1, IInvHolds, PTL

(* The backup changes only in a step of the writer that owns the lease at  *)
(* that moment, unless a lock directory was touched under a living writer  *)
(* (the comment at dreamina-cli-state.ts:147).                             *)
THEOREM OwnerKeepsBackup ==
    Spec => [][ousted' \/ (backup' # backup =>
                  \E w \in Writers : at'[w] # at[w] /\ Owns(w))]_vars
<1>1. ASSUME IInv, [Next]_vars, ~ousted', backup' # backup
      PROVE  \E w \in Writers : at'[w] # at[w] /\ Owns(w)
  <2>1. TypeOK /\ LockInv
    BY <1>1, OustedStays DEF IInv
  <2>2. PICK w \in Writers : Restore(w) \/ Clear(w) \/ MoveAside(w) \/ Drop(w) \/ Undo(w)
    BY <1>1 DEF Next, vars, fileVars, MakeLock, WriteLease, SeeOldLease, MoveOldLock,
       DecideOnMoved, GiveUp, Release, MoveAway, RemoveMoved, AssertOwned, Recover,
       Read, Replace, ReplaceDenied, MoveIn, StepFails, Confirm, Crash, Age, Refresh
  <2>3. at[w] \in Leased /\ at'[w] # at[w]
    BY <1>1, <2>1, <2>2
       DEF Restore, Clear, MoveAside, Drop, Undo, Quietly, Go, TypeOK, Leased, Guarded, fileVars
  <2> QED BY <2>1, <2>3 DEF LockInv, HoldsLock, Owns, Nonce
<1> QED BY <1>1, IInvHolds, PTL DEF Spec
==============================================================================
