-------------------------- MODULE SubmissionPromise --------------------------
(***************************************************************************)
(* What the agent's task journal promises about a paid submission, with    *)
(* neither files nor processes: a task is sent to the provider at most     *)
(* once, and what the user is told of it is final and true.  A task that   *)
(* is "unsent" was never sent and never will be; one that is "finished"    *)
(* was sent; of one that is "uncertain" nothing is known, and it may still *)
(* be sent by a process that was held up.                                  *)
(***************************************************************************)
EXTENDS Naturals

CONSTANT Tasks

VARIABLES
    sends,     \* how often each task was sent to the provider
    verdict    \* what is told of it: open, unsent, uncertain or finished

vars == <<sends, verdict>>

Init ==
    /\ sends = [t \in Tasks |-> 0]
    /\ verdict = [t \in Tasks |-> "open"]

Send(t) ==
    /\ sends[t] = 0 /\ verdict[t] \in {"open", "uncertain"}
    /\ sends'[t] = 1 /\ verdict'[t] = verdict[t]

GiveUp(t) ==
    /\ sends[t] = 0 /\ verdict[t] = "open"
    /\ sends'[t] = 0 /\ verdict'[t] = "unsent"

Doubt(t) ==
    /\ verdict[t] = "open"
    /\ sends'[t] = sends[t] /\ verdict'[t] = "uncertain"

Finish(t) ==
    /\ sends[t] = 1 /\ verdict[t] = "open"
    /\ sends'[t] = 1 /\ verdict'[t] = "finished"

Keep(t) == sends'[t] = sends[t] /\ verdict'[t] = verdict[t]

(* One look at the journal may settle several tasks.                       *)
Next ==
    /\ sends' \in [Tasks -> 0..1]
    /\ verdict' \in [Tasks -> {"open", "unsent", "uncertain", "finished"}]
    /\ \A t \in Tasks : Send(t) \/ GiveUp(t) \/ Doubt(t) \/ Finish(t) \/ Keep(t)

Spec == Init /\ [][Next]_vars
=============================================================================
