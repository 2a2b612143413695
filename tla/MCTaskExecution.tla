-------------------------- MODULE MCTaskExecution --------------------------
(* Small instances of TaskExecution. *)
EXTENDS TaskExecution, TLC

CONSTANTS w1, w2

(* A video of a logical model, one of a fixed channel, and an image or text *)
(* of either.                                                               *)
routedVideo == [logical |-> TRUE, resumable |-> TRUE]
directVideo == [logical |-> FALSE, resumable |-> TRUE]
routedImage == [logical |-> TRUE, resumable |-> FALSE]
directImage == [logical |-> FALSE, resumable |-> FALSE]

mcRoutedVideo == {routedVideo}
mcRoutedImage == {routedImage}
mcVideoAndImage == {routedVideo, directImage}
mcVideos == {routedVideo, directVideo}
mcAll == TaskKinds

(* A behaviour with a stall has no other fault, and is of a video on its    *)
(* first route, with nobody to resolve an order; the upstream refuses       *)
(* nothing, fails no job and answers in time.                               *)
Faults(kinds) == {what \in kinds \cap FaultKinds : faults[what] > 0}
StallAlone ==
    Faults({"stall"}) # {} =>
       /\ Cardinality(Faults(FaultKinds)) = 1
       /\ kind = routedVideo /\ resolved = {} /\ Len(jobs) <= 2
       /\ \A r \in Runs : Len(attempts[r]) <= 1
       /\ \A j \in DOMAIN jobs : jobs[j].state # "failed"
       /\ \A w \in Workers : worker[w].out \notin {"slot", "rejected", "timeout"}

(* A crash is the only fault of its behaviour, too. *)
CrashAlone == Faults({"crash"}) # {} => Cardinality(Faults(FaultKinds)) = 1

(* SubmittedOnce without its exception: fails with a stall. *)
NeverResent == kind.logical => \A r \in Runs : Cardinality(JobsOf(r)) <= 1

(* Workers are interchangeable. *)
WorkerSymmetry == Permutations(Workers)
=============================================================================
