------------------------------- MODULE JobLife -------------------------------
(***************************************************************************)
(* What an operator is promised of a job: the registry shows its story in  *)
(* order, never ahead of what happened on the host, and ends on the host's *)
(* last word.  A job that was refused never happens; an unfinished one is  *)
(* forgotten only with all the others.  It knows nothing of requests,      *)
(* approvals, channels, streams or messages: manager/actions, manager/jobs *)
(* and manager/hub have to provide for those.                              *)
(***************************************************************************)

CONSTANT JobIds

VARIABLES
    shown,      \* what the registry shows of a job
    fate,       \* what its host has made of it
    heard       \* the jobs whose host has nothing more to tell

vars == <<shown, fate, heard>>

Final == {"succeeded", "failed", "timed_out"}

Init ==
    /\ shown = [j \in JobIds |-> "none"]
    /\ fate = [j \in JobIds |-> "none"]
    /\ heard = {}

Shows(j, s)   == shown[j] # s /\ shown'[j] = s
Becomes(j, f) == fate[j] # f /\ fate'[j] = f

SameShown(j) == shown'[j] = shown[j]
SameFate(j)  == fate'[j] = fate[j]
SameHeard(j) == j \in heard' <=> j \in heard

(* The job is created before its host is told of it. *)
Submit(j) ==
    /\ shown[j] = "none" /\ fate[j] = "none" /\ Shows(j, "queued")
    /\ SameFate(j) /\ SameHeard(j)

(* It cannot be sent, and shows it at once. *)
Refuse(j) ==
    /\ shown[j] = "queued" /\ fate[j] = "none"
    /\ Shows(j, "failed") /\ Becomes(j, "dropped")
    /\ SameHeard(j)

(* It is lost on its way: it stays queued, and never happens. *)
Drop(j) ==
    /\ shown[j] = "queued" /\ fate[j] = "none" /\ Becomes(j, "dropped")
    /\ SameShown(j) /\ SameHeard(j)

(* Its host takes on a job that is shown as queued, once. *)
Accept(j) ==
    /\ shown[j] = "queued" /\ fate[j] = "none" /\ Becomes(j, "begun")
    /\ SameShown(j) /\ SameHeard(j)

(* What may become of a job on its host: one that has claimed success can still *)
(* turn out to have failed, but not to have been out of time.                   *)
LeadsTo(f, g) ==
    \/ f = "begun" /\ g \in {"paused", "running"} \cup Final
    \/ f = "running" /\ g \in {"claimed"} \cup Final
    \/ f = "claimed" /\ g \in {"succeeded", "failed"}

Work(j) ==
    /\ LeadsTo(fate[j], fate'[j])
    /\ SameShown(j) /\ SameHeard(j)

(* Progress is shown once it is true, and never after what follows it. *)
Progress(j) ==
    /\ j \notin heard
    /\ \/ /\ shown[j] = "queued" /\ fate[j] \in {"running", "claimed"} \cup Final
          /\ Shows(j, "running")
       \/ /\ shown[j] \in {"queued", "running"}
          /\ fate[j] \in {"claimed", "succeeded", "failed"}
          /\ Shows(j, "succeeded")
    /\ SameFate(j) /\ SameHeard(j)

(* The host's last word is what is shown from then on. *)
Hear(j) ==
    /\ j \notin heard /\ j \in heard'
    /\ shown[j] \in {"queued", "running", "succeeded"}
    /\ fate[j] \in {"paused"} \cup Final /\ shown'[j] = fate[j]
    /\ SameFate(j)

(* A finished job is forgotten in time. *)
Forget(j) ==
    /\ shown[j] \in Final /\ Shows(j, "forgotten")
    /\ SameFate(j) /\ SameHeard(j)

Idle(j) == SameShown(j) /\ SameFate(j) /\ SameHeard(j)

Step(j) ==
    \/ Idle(j)
    \/ Submit(j) \/ Refuse(j) \/ Drop(j) \/ Accept(j) \/ Work(j)
    \/ Progress(j) \/ Hear(j) \/ Forget(j)

(* The manager forgets everything: what has not reached a host never happens. *)
Crash ==
    \A j \in JobIds :
        /\ shown'[j] = IF shown[j] = "none" THEN "none" ELSE "forgotten"
        /\ fate'[j] = IF shown[j] # "none" /\ fate[j] = "none" THEN "dropped" ELSE fate[j]
        /\ SameHeard(j)

Next == (\A j \in JobIds : Step(j)) \/ Crash

Spec == Init /\ [][Next]_vars
=============================================================================
