----------------------------- MODULE ImageUpdates -----------------------------
(***************************************************************************)
(* The image updates of the duo module (modules/duo/docker.go, duo.go):    *)
(* check-updates compares the digest an image was pulled at with the one   *)
(* the registry serves, update pulls it, and the associate's instance of   *)
(* the module keeps the verdicts its status shows.                         *)
(*                                                                         *)
(* An update is a mutating command, which a worker runs one at a time; a   *)
(* check is read-only, so that several run beside it.  Both run in the     *)
(* helper, which may outlive its command: their results reach the          *)
(* associate when they have ended (IngestResult).  A digest is the number  *)
(* of the publication.                                                     *)
(***************************************************************************)
EXTENDS Naturals

CONSTANTS
    Images,         \* the images of the compose services of a host
    Checks,         \* check-updates commands
    None,
    MaxDigest,      \* bound: publications of an image
    MaxFailures     \* bound: commands and associates that fail

ImagesAssumption ==
    MaxDigest \in Nat \ {0} /\ None \notin Images /\ None \notin [cur : Nat, latest : Nat]

VARIABLES
    remote,         \* the digest the registry serves
    local,          \* the digest each image was pulled at
    updates,        \* m.updates of the associate: the verdict on an image
    check,          \* each check: what it has found, what it is looking at
    update,         \* the update under way: its image, or None
    pulled,         \* whether it has pulled
    left,           \* the images of helpers left behind that have yet to pull
    failures,
    overtaken       \* history: images whose verdict an update overtook

vars == <<remote, local, updates, check, update, pulled, left, failures, overtaken>>

NoCheck == [todo |-> {}, found |-> [i \in Images |-> None], at |-> None, cur |-> 0]
Verdicts == [cur : 0..MaxDigest, latest : 0..MaxDigest]     \* 0 is unknown
Known(v) == v.cur # 0 /\ v.latest # 0
HasUpdate(v) == v # None /\ Known(v) /\ v.cur # v.latest
Shown(i) == HasUpdate(updates[i])       \* as the status of the module reports it
Failing == failures < MaxFailures /\ failures' = failures + 1

Init ==
    /\ remote = [i \in Images |-> 1] /\ local = [i \in Images |-> 1]
    /\ updates = [i \in Images |-> None]
    /\ check = [k \in Checks |-> NoCheck]
    /\ update = None /\ pulled = FALSE /\ left = {} /\ failures = 0 /\ overtaken = {}

Publish(i) ==
    /\ remote[i] < MaxDigest /\ remote' = [remote EXCEPT ![i] = @ + 1]
    /\ UNCHANGED <<local, updates, check, update, pulled, left, failures, overtaken>>
-----------------------------------------------------------------------------
(* check-updates on the host, on a stack or on a service. *)
BeginCheck(k, scope) ==
    /\ check[k] = NoCheck /\ scope # {}
    /\ check' = [check EXCEPT ![k].todo = scope]
    /\ UNCHANGED <<remote, local, updates, update, pulled, left, failures, overtaken>>

(* localRepoDigest, then remoteDigest; either may find nothing. *)
ReadLocal(k, i) ==
    /\ i \in check[k].todo /\ check[k].at = None
    /\ \E cur \in {0, local[i]} : check' = [check EXCEPT ![k].at = i, ![k].cur = cur]
    /\ UNCHANGED <<remote, local, updates, update, pulled, left, failures, overtaken>>

ReadRemote(k) ==
    LET i == check[k].at IN
    /\ i # None
    /\ \E latest \in {0, remote[i]} :
        check' = [check EXCEPT ![k] =
                    [todo |-> @.todo \ {i}, at |-> None, cur |-> 0,
                     found |-> [@.found EXCEPT ![i] = [cur |-> check[k].cur, latest |-> latest]]]]
    /\ UNCHANGED <<remote, local, updates, update, pulled, left, failures, overtaken>>

(* The result is merged; what could not be compared loses its verdict. *)
Ingested(v) == IF Known(v) THEN v ELSE None

EndCheck(k) ==
    LET found == check[k].found
        seen == {i \in Images : found[i] # None}
    IN  /\ check[k].todo = {} /\ seen # {}
        /\ updates' = [i \in Images |-> IF i \in seen THEN Ingested(found[i]) ELSE updates[i]]
        /\ overtaken' = (overtaken \ seen) \cup
                        {i \in seen : Known(found[i]) /\ found[i].cur # local[i]}
        /\ check' = [check EXCEPT ![k] = NoCheck]
        /\ UNCHANGED <<remote, local, update, pulled, left, failures>>

FailCheck(k) ==
    /\ check[k] # NoCheck /\ Failing /\ check' = [check EXCEPT ![k] = NoCheck]
    /\ UNCHANGED <<remote, local, updates, update, pulled, left, overtaken>>
-----------------------------------------------------------------------------
(* update: pull, up, and the verdicts of its images are dropped. *)
BeginUpdate(i) ==
    /\ update = None /\ update' = i
    /\ UNCHANGED <<remote, local, updates, check, pulled, left, failures, overtaken>>

Pull ==
    /\ update # None /\ ~pulled /\ pulled' = TRUE
    /\ local' = [local EXCEPT ![update] = remote[update]]
    /\ UNCHANGED <<remote, updates, check, update, left, failures, overtaken>>

(* Mutant of EndUpdate: the associate keeps the verdict. *)
EndUpdateOnly ==
    /\ update # None /\ pulled /\ update' = None /\ pulled' = FALSE
    /\ overtaken' = overtaken \ {update}
    /\ UNCHANGED <<remote, local, updates, check, left, failures>>

EndUpdate ==
    /\ update # None /\ pulled /\ update' = None /\ pulled' = FALSE
    /\ updates' = [updates EXCEPT ![update] = None]
    /\ overtaken' = overtaken \ {update}
    /\ UNCHANGED <<remote, local, check, left, failures>>

(* The helper of an update that has yet to pull may go on without whoever   *)
(* waits for it (elevated.go:111), and its result is not heard of.          *)
LeaveBehind ==
    \/ UNCHANGED left
    \/ update # None /\ ~pulled /\ left' = left \cup {update}

(* The pull fails, or the command times out; or up fails, or its containers *)
(* cannot be listed, after the image was pulled: the verdict stays.         *)
FailUpdate ==
    /\ update # None /\ Failing /\ update' = None /\ pulled' = FALSE
    /\ LeaveBehind
    /\ overtaken' = IF pulled THEN overtaken \cup {update} ELSE overtaken
    /\ UNCHANGED <<remote, local, updates, check>>

LatePull(i) ==
    /\ i \in left /\ left' = left \ {i}
    /\ local' = [local EXCEPT ![i] = remote[i]]
    /\ overtaken' = overtaken \cup {i}
    /\ UNCHANGED <<remote, updates, check, update, pulled, failures>>

(* The associate starts again: it knows no verdict. *)
RestartAssociate ==
    /\ Failing /\ LeaveBehind
    /\ updates' = [i \in Images |-> None] /\ check' = [k \in Checks |-> NoCheck]
    /\ update' = None /\ pulled' = FALSE /\ overtaken' = {}
    /\ UNCHANGED <<remote, local>>

Next ==
    \/ \E i \in Images : Publish(i) \/ BeginUpdate(i) \/ LatePull(i)
    \/ \E k \in Checks :
        \/ \E scope \in SUBSET Images : BeginCheck(k, scope)
        \/ \E i \in Images : ReadLocal(k, i)
        \/ ReadRemote(k) \/ EndCheck(k) \/ FailCheck(k)
    \/ Pull \/ EndUpdate \/ FailUpdate \/ RestartAssociate

Spec == Init /\ [][Next]_vars
-----------------------------------------------------------------------------
(* Properties. *)

TypeOK ==
    /\ remote \in [Images -> 1..MaxDigest] /\ local \in [Images -> 1..MaxDigest]
    /\ updates \in [Images -> Verdicts \cup {None}]
    /\ check \in [Checks -> [todo : SUBSET Images, found : [Images -> Verdicts \cup {None}],
                             at : Images \cup {None}, cur : 0..MaxDigest]]
    /\ update \in Images \cup {None} /\ pulled \in BOOLEAN /\ left \subseteq Images

(* An update that is shown as available is one that can be installed: the    *)
(* registry has something newer than what the host runs, however checks and  *)
(* updates overlap, except where an update ended between the two reads of a  *)
(* check and its end, or was reported as failed and has pulled, or pulls     *)
(* still (docker.go:411-423, 434-453, duo.go:324-360).                       *)
FlagIsNews ==
    \A i \in Images : Shown(i) =>
        \/ updates[i].cur = local[i] /\ local[i] < remote[i]
        \/ i \in overtaken
        \/ update = i /\ pulled
=============================================================================
