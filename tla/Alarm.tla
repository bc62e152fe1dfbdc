-------------------------------- MODULE Alarm --------------------------------
(***************************************************************************)
(* What a scheduled task promises: an alarm that is armed for one instant  *)
(* at a time.  It rings for the instant it is armed for, at most once, no  *)
(* sooner than that instant and never later than its policy allows, and it *)
(* is armed for a later instant in the same step.  It knows nothing of     *)
(* files, restarts, goroutines or hosts: scheduler.go has to provide for   *)
(* those.                                                                  *)
(***************************************************************************)
EXTENDS Naturals

CONSTANTS
    Policies,       \* misfire policies
    Limit(_)        \* how late a policy lets the alarm ring

VARIABLES
    now,            \* the time
    armed,          \* the instant the alarm is armed for, 0 when it is not
    policy,         \* the misfire policy
    rung            \* the last instant it rang for, 0 when it never did

vars == <<now, armed, policy, rung>>

Init == now \in Nat /\ armed = 0 /\ policy \in Policies /\ rung = 0

(* Time passes. *)
Elapse == now' > now /\ UNCHANGED <<armed, policy, rung>>

(* The alarm is set, or set anew after an edit or a postponement: only ever *)
(* for an instant that is still to come.                                    *)
Arm == armed' > now /\ policy' \in Policies /\ UNCHANGED <<now, rung>>

Disarm == armed' = 0 /\ policy' \in Policies /\ UNCHANGED <<now, rung>>

(* The alarm rings for the instant it was armed for. *)
Ring ==
    /\ armed > rung /\ armed <= now
    /\ now - armed <= Limit(policy)
    /\ rung' = armed
    /\ armed' > now
    /\ UNCHANGED <<now, policy>>

Next == Elapse \/ Arm \/ Disarm \/ Ring

Spec == Init /\ [][Next]_vars
=============================================================================
